SPECIFICATION Spec
CONSTANTS
    Values <- ShortValues
    Fillers <- SomeFillers
    MaxLen = 5
    MaxLenOdd = 4
INVARIANTS RoundTrip ReadsInOrder
CHECK_DEADLOCK FALSE

SPECIFICATION Spec
CONSTANTS
    Chats = {c1, c2}
    NumParallel = 1
    Done = Done
    Error = Error
    MaxChunks = 2
    MaxRunners = 2
SYMMETRY ChatSymmetry
INVARIANTS TypeOK SlotsCounted StrandedByLeaver AnswerInOrder EndIsTold ChatInv
\* All chats may have been answered, or be stuck behind one that hangs.
CHECK_DEADLOCK FALSE

---------------------------- MODULE MCModelfile ----------------------------
\* Model checking of Modelfile: every value of up to MaxLen runes of the kinds
\* that the parser tells apart, and of up to MaxLenOdd runes with a letter that
\* may be a command or one that cannot be printed among them.
EXTENDS Modelfile

CONSTANTS MaxLen, MaxLenOdd   \* bounds: the length of a value

Alphabet == {"x", Space, "tab", Newline, Return, Quote}
OddAlphabet == {"FROM", Space, Newline, Return, Quote, "#", Unprintable}

ShortValues == UNION {[1..n -> Alphabet] : n \in 0..MaxLen}
                \cup UNION {[1..n -> OddAlphabet] : n \in 0..MaxLenOdd}

Comment == <<"#", "FROM", Space, Quote, Unprintable, Return>>
SomeFillers == {<<>>, Comment, <<Newline, Space>>}
=============================================================================

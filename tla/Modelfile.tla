------------------------------ MODULE Modelfile ------------------------------
(***************************************************************************)
(* Modelfiles (parser/parser.go): ParseFile reads one rune at a time,      *)
(* Modelfile.String prints one.  show prints the Modelfile of a model, and *)
(* create reads it again, perhaps with comments and blank lines added.     *)
(*                                                                         *)
(* A text is a sequence of runes.  A command word, a role or the name of a *)
(* parameter is one rune here, like the letter "x", and is as good as any  *)
(* other letter inside a value.  A carriage return ends a line for the     *)
(* parser, and not for the printer.  A rune for which strconv.IsPrint is   *)
(* false, and that is no blank, stands for all of them: control            *)
(* characters, a no-break space, a byte order mark inside the text.        *)
(***************************************************************************)
EXTENDS Naturals, Sequences

CONSTANTS
    Values,    \* the values a Modelfile may hold, sequences of runes
    Fillers    \* what a user may put between two commands

Words == {"FROM", "SYSTEM", "PARAMETER", "MESSAGE"}
Roles == {"user"}
Letters == Words \cup Roles \cup {"stop", "x"}
Space == "sp"
Spaces == {Space, "tab"}
Newline == "nl"
Return == "cr"
Newlines == {Newline, Return}
Unprintable == "ctl"
Quote == "q"
Empty == ""    \* no name, or no role
Runes == Letters \cup Spaces \cup Newlines \cup {Quote, "#", Unprintable}

Blank == Spaces \cup Newlines

\* The rune at i is part of a comment that goes on after it.
InComment(s, i) == \E h \in 1..i : s[h] = "#" /\ \A j \in h..i : s[j] \notin Newlines

ASSUME ValuesAssumption == Values \subseteq Seq(Runes)

\* A filler is blank but for its comments, and it ends none of them halfway.
ASSUME FillersAssumption ==
    \A f \in Fillers :
        /\ f \in Seq(Runes)
        /\ \A i \in DOMAIN f : f[i] \in Blank \/ InComment(f, i)
        /\ ~InComment(f, Len(f))

VARIABLES
    source,    \* the commands that have been printed
    input,     \* the text
    pos,       \* the runes of it that have been read
    curr,      \* the state of the parser
    b,         \* its buffer
    cmd,       \* the name of the command it reads
    role,      \* the role of the message it reads
    commands,  \* the commands it has read: name, args, and the role of a message
    result     \* "running", "ok", or what ParseFile fails with

vars == <<source, input, pos, curr, b, cmd, role, commands, result>>

-----------------------------------------------------------------------------
(***************************************************************************)
(* Printing: Modelfile.String, Command.String, quote                       *)
(***************************************************************************)

Contains(s, r) == \E i \in DOMAIN s : s[i] = r
Starts(s, t) == Len(s) >= Len(t) /\ SubSeq(s, 1, Len(t)) = t
Ends(s, t) == Len(s) >= Len(t) /\ SubSeq(s, Len(s) - Len(t) + 1, Len(s)) = t
Triple == <<Quote, Quote, Quote>>

NeedsQuotes(s) == Contains(s, Newline) \/ Starts(s, <<Space>>) \/ Ends(s, <<Space>>)

\* Mutant: one quote is always enough.
quoteOnce(s) == IF NeedsQuotes(s) THEN <<Quote>> \o s \o <<Quote>> ELSE s

quote(s) ==
    IF ~NeedsQuotes(s) THEN s
    ELSE IF Contains(s, Quote) THEN Triple \o s \o Triple
    ELSE <<Quote>> \o s \o <<Quote>>

CommandString(c) ==
    (CASE c.name = "model" -> <<"FROM", Space>> \o c.args
       [] c.name = "message" -> <<"MESSAGE", Space, c.role, Space>> \o quote(c.args)
       [] c.name = "system" -> <<"SYSTEM", Space>> \o quote(c.args)
       [] OTHER -> <<"PARAMETER", Space, c.name, Space>> \o quote(c.args))
    \o <<Newline>>

-----------------------------------------------------------------------------
(***************************************************************************)
(* Parsing: ParseFile, parseRuneForState, unquote                          *)
(***************************************************************************)

TrimSpace(s) ==
    LET kept == {i \in DOMAIN s : s[i] \notin Blank}
        first == CHOOSE i \in kept : \A j \in kept : i <= j
        last == CHOOSE i \in kept : \A j \in kept : i >= j
    IN IF kept = {} THEN <<>> ELSE SubSeq(s, first, last)

\* unquote: whether the quotes are closed, and what is between them.
Closed(s) ==
    IF Starts(s, Triple) THEN Len(s) >= 6 /\ Ends(s, Triple)
    ELSE Starts(s, <<Quote>>) => Len(s) >= 2 /\ Ends(s, <<Quote>>)

Unquoted(s) ==
    IF Starts(s, Triple) THEN SubSeq(s, 4, Len(s) - 3)
    ELSE IF Starts(s, <<Quote>>) THEN SubSeq(s, 2, Len(s) - 1)
    ELSE s

\* parseRuneForState: the next state, and an error as a state of its own.
NextState(r, cs) ==
    CASE cs = "nil" -> IF r = "#" THEN "comment" ELSE IF r \in Blank THEN "nil" ELSE "name"
      [] cs = "name" -> IF r \in Letters THEN "name"
                        ELSE IF r \in Spaces THEN "value" ELSE "invalidCommand"
      [] cs = "value" -> IF r \in Blank THEN "nil" ELSE "value"
      [] cs \in {"parameter", "message"} ->
                        IF r \in Letters THEN cs
                        ELSE IF r \in Spaces THEN "value" ELSE "unexpectedEOF"
      [] cs = "comment" -> IF r \in Newlines THEN "nil" ELSE "comment"

Errors == {"invalidCommand", "invalidRole", "unexpectedEOF", "missingFrom"}

\* The rune at hand, and where it leads.
rune == input[pos + 1]
next == NextState(rune, curr)

Reading == result = "running" /\ pos < Len(input)
Advance == pos' = pos + 1 /\ UNCHANGED <<source, input>>
Fails(e) == result' = e /\ UNCHANGED <<curr, b, cmd, role, commands>>

RuneRejected ==
    /\ Reading /\ next \in Errors
    /\ Fails(next)
    /\ Advance

\* The state stays: the rune is kept, if it belongs to something and can be
\* printed.
Accumulate ==
    /\ Reading /\ next = curr
    /\ b' = IF curr \in {"nil", "comment"} \/ rune = Unprintable THEN b ELSE Append(b, rune)
    /\ Advance
    /\ UNCHANGED <<curr, cmd, role, commands, result>>

\* A command or a comment begins, or a comment ends.
LeaveNil ==
    /\ Reading /\ curr \in {"nil", "comment"} /\ next # curr
    /\ curr' = next
    /\ b' = IF next = "name" /\ rune # Unprintable THEN <<rune>> ELSE <<>>
    /\ Advance
    /\ UNCHANGED <<cmd, role, commands, result>>

\* The word of the command is complete.
LeaveName ==
    /\ Reading /\ curr = "name" /\ next = "value"
    /\ IF Len(b) = 1 /\ b[1] \in Words
       THEN /\ curr' = CASE b[1] = "PARAMETER" -> "parameter"
                         [] b[1] = "MESSAGE" -> "message"
                         [] OTHER -> "value"
            /\ cmd' = CASE b[1] = "FROM" -> "model"
                        [] b[1] = "SYSTEM" -> "system"
                        [] b[1] = "MESSAGE" -> "message"
                        [] OTHER -> cmd
            /\ b' = <<>>
            /\ UNCHANGED <<role, commands, result>>
       ELSE Fails("invalidCommand")
    /\ Advance

\* The name of the parameter is complete; one put together from several runes,
\* or from none, is no name of a command that was printed.
LeaveParameter ==
    /\ Reading /\ curr = "parameter" /\ next = "value"
    /\ curr' = "value"
    /\ cmd' = IF Len(b) = 1 THEN b[1] ELSE Empty
    /\ b' = <<>>
    /\ Advance
    /\ UNCHANGED <<role, commands, result>>

\* The role of the message is complete.
LeaveMessage ==
    /\ Reading /\ curr = "message" /\ next = "value"
    /\ IF Len(b) = 1 /\ b[1] \in Roles
       THEN /\ curr' = "value"
            /\ role' = b[1]
            /\ b' = <<>>
            /\ UNCHANGED <<cmd, commands, result>>
       ELSE Fails("invalidRole")
    /\ Advance

\* A blank in a value belongs to it, and so does a newline between quotes.
BlankInValue ==
    /\ Reading /\ curr = "value" /\ next = "nil"
    /\ rune \in Spaces \/ ~Closed(TrimSpace(b))
    /\ b' = Append(b, rune)
    /\ Advance
    /\ UNCHANGED <<curr, cmd, role, commands, result>>

ReadCommand == [name |-> cmd, role |-> role, args |-> Unquoted(TrimSpace(b))]

\* Mutant: the role of one message is not forgotten.
LeaveValueKeepingRole ==
    /\ Reading /\ curr = "value" /\ next = "nil"
    /\ rune \notin Spaces /\ Closed(TrimSpace(b))
    /\ commands' = Append(commands, ReadCommand)
    /\ curr' = "nil"
    /\ b' = <<>>
    /\ Advance
    /\ UNCHANGED <<cmd, role, result>>

\* The line, and with it the command, ends.
LeaveValue ==
    /\ Reading /\ curr = "value" /\ next = "nil"
    /\ rune \notin Spaces /\ Closed(TrimSpace(b))
    /\ commands' = Append(commands, ReadCommand)
    /\ role' = Empty
    /\ curr' = "nil"
    /\ b' = <<>>
    /\ Advance
    /\ UNCHANGED <<cmd, result>>

\* The end of the file: the last command may lack its newline, and there
\* must have been a FROM.
Flush ==
    LET all == IF curr = "value" THEN Append(commands, ReadCommand) ELSE commands IN
    /\ result = "running" /\ pos = Len(input)
    /\ IF curr \in {"nil", "comment"} \/ (curr = "value" /\ Closed(TrimSpace(b)))
       THEN /\ commands' = all
            /\ result' = IF \E i \in DOMAIN all : all[i].name = "model" THEN "ok" ELSE "missingFrom"
       ELSE /\ result' = "unexpectedEOF"
            /\ UNCHANGED commands
    /\ UNCHANGED <<source, input, pos, curr, b, cmd, role>>

-----------------------------------------------------------------------------
Cmd(name, r, args) == [name |-> name, role |-> r, args |-> args]

\* A model with a value in its system prompt, a parameter or a message, and
\* another command after it; the last newline may be cut off.
Printed(kind, v) ==
    << Cmd("model", Empty, <<"x">>),
       Cmd(kind, IF kind = "message" THEN "user" ELSE Empty, v),
       Cmd("system", Empty, <<"x">>) >>

TextOf(cs, filler) ==
    CommandString(cs[1]) \o filler \o CommandString(cs[2]) \o filler \o CommandString(cs[3])

Init ==
    /\ \E kind \in {"system", "stop", "message"}, v \in Values, filler \in Fillers :
          /\ source = Printed(kind, v)
          /\ LET text == TextOf(source, filler) IN
             input \in {text, SubSeq(text, 1, Len(text) - 1)}
    /\ pos = 0
    /\ curr = "nil"
    /\ b = <<>>
    /\ cmd = Empty
    /\ role = Empty
    /\ commands = <<>>
    /\ result = "running"

Next ==
    \/ RuneRejected \/ Accumulate \/ LeaveNil \/ LeaveName \/ LeaveParameter
    \/ LeaveMessage \/ BlankInValue \/ LeaveValue \/ Flush

Spec == Init /\ [][Next]_vars

-----------------------------------------------------------------------------
(***************************************************************************)
(* Properties                                                              *)
(***************************************************************************)

\* A value without quotes is read as it stands when it has no carriage return,
\* does not begin with a quote, and does not begin or end with a tab.
SurvivesPlain(v) ==
    /\ ~Contains(v, Return)
    /\ v = <<>> \/ (v[1] \notin {Quote, "tab"} /\ v[Len(v)] # "tab")

\* With quotes, no line of it may end as if the value ended there.
SurvivesQuoted(v) ==
    \A i \in DOMAIN v :
        v[i] \in Newlines => ~Ends(TrimSpace(<<"x">> \o SubSeq(v, 1, i - 1)), Triple)

\* The values that survive being printed and read; the parser drops the runes
\* that cannot be printed.
Survives(v) ==
    /\ ~Contains(v, Unprintable)
    /\ IF NeedsQuotes(v) THEN SurvivesQuoted(v) ELSE SurvivesPlain(v)

\* A Modelfile that is printed and read again has the commands it had, with
\* comments and blank lines between them or not, exactly when its value is
\* one that survives; any other value is changed or the file is rejected.
RoundTrip ==
    result # "running" =>
        (Survives(source[2].args) <=> result = "ok" /\ commands = source)

\* While it reads a file that will be read right, the parser has read the
\* first commands of it, and never takes part of a value for a command.
ReadsInOrder ==
    Survives(source[2].args) =>
        /\ result \in {"running", "ok"}
        /\ Len(commands) <= 3 /\ commands = SubSeq(source, 1, Len(commands))
=============================================================================

-------------------------- MODULE ModelfileProofs --------------------------
(***************************************************************************)
(* Theorems about Modelfile, for every set of values and every set of      *)
(* fillers: what is printed is read back exactly when its value survives.  *)
(***************************************************************************)
EXTENDS Modelfile, SequenceTheorems, WellFoundedInduction, TLAPS

(***************************************************************************)
(* TrimSpace                                                               *)
(***************************************************************************)

\* A set of numbers that is not empty has a least one.
LEMMA LeastNumber ==
    ASSUME NEW T, T \subseteq Nat, T # {}
    PROVE  \E i \in T : \A j \in T : i <= j
<1>1. PICK i \in T : \A j \in T : ~(<<j, i>> \in OpToRel(<, Nat))
  BY NatLessThanWellFounded, WFMin
<1>2. \A j \in T : ~(j < i)
  BY <1>1 DEF OpToRel
<1>3. QED BY <1>2

\* A set of indices that is not empty has a greatest one.
LEMMA GreatestIndex ==
    ASSUME NEW n \in Nat, NEW T, T \subseteq 1..n, T # {}
    PROVE  \E i \in T : \A j \in T : i >= j
<1> DEFINE M == {n - i : i \in T}
<1>1. M \subseteq Nat /\ M # {}
  <2>1. \A i \in T : n - i \in Nat OBVIOUS
  <2>2. PICK i \in T : TRUE OBVIOUS
  <2>3. n - i \in M OBVIOUS
  <2>4. QED BY <2>1, <2>3
<1>2. PICK k \in M : \A j \in M : k <= j
  BY <1>1, LeastNumber
<1>3. PICK i \in T : k = n - i OBVIOUS
<1>4. \A j \in T : n - j \in M OBVIOUS
<1>5. \A j \in T : i >= j BY <1>2, <1>3, <1>4
<1>6. QED BY <1>5

\* What TrimSpace takes off is blank, and what it leaves begins and ends
\* with a rune that is not.
LEMMA TrimShape ==
    ASSUME NEW s \in Seq(Runes), NEW k \in DOMAIN s, s[k] \notin Blank
    PROVE  \E lo \in DOMAIN s, hi \in DOMAIN s :
              /\ lo <= hi
              /\ TrimSpace(s) = SubSeq(s, lo, hi)
              /\ s[lo] \notin Blank /\ s[hi] \notin Blank
              /\ \A i \in DOMAIN s : s[i] \notin Blank => lo <= i /\ i <= hi
<1> DEFINE kept == {i \in DOMAIN s : s[i] \notin Blank}
           lo == CHOOSE i \in kept : \A j \in kept : i <= j
           hi == CHOOSE i \in kept : \A j \in kept : i >= j
<1>1. kept \subseteq 1..Len(s) /\ kept \subseteq Nat /\ kept # {} /\ Len(s) \in Nat
  OBVIOUS
<1>2. \E i \in kept : \A j \in kept : i <= j
  <2> HIDE DEF kept
  <2> QED BY <1>1, LeastNumber
<1>3. \E i \in kept : \A j \in kept : i >= j
  <2> HIDE DEF kept
  <2> QED BY <1>1, GreatestIndex
<1>4. lo \in kept /\ \A j \in kept : lo <= j BY <1>2
<1>5. hi \in kept /\ \A j \in kept : hi >= j BY <1>3
<1>6. TrimSpace(s) = SubSeq(s, lo, hi) BY <1>1 DEF TrimSpace
<1> HIDE DEF lo, hi
<1>7. lo <= hi BY <1>4, <1>5
<1>8. \A i \in DOMAIN s : s[i] \notin Blank => lo <= i /\ i <= hi
  BY <1>4, <1>5
<1>9. QED BY <1>4, <1>5, <1>6, <1>7, <1>8

\* Of blanks alone nothing is left.
LEMMA TrimBlank ==
    ASSUME NEW s \in Seq(Runes), \A i \in DOMAIN s : s[i] \in Blank
    PROVE  TrimSpace(s) = <<>>
BY DEF TrimSpace

\* Nothing is taken off a text that begins and ends with no blank.
LEMMA TrimSame ==
    ASSUME NEW s \in Seq(Runes), s # <<>>, s[1] \notin Blank, s[Len(s)] \notin Blank
    PROVE  TrimSpace(s) = s
<1>1. 1 \in DOMAIN s /\ Len(s) \in DOMAIN s OBVIOUS
<1>2. PICK lo \in DOMAIN s, hi \in DOMAIN s :
         /\ lo <= hi
         /\ TrimSpace(s) = SubSeq(s, lo, hi)
         /\ s[lo] \notin Blank /\ s[hi] \notin Blank
         /\ \A i \in DOMAIN s : s[i] \notin Blank => lo <= i /\ i <= hi
  BY <1>1, TrimShape
<1>3. lo = 1 /\ hi = Len(s) BY <1>1, <1>2
<1>4. SubSeq(s, 1, Len(s)) = s BY SubSeqFull
<1>5. QED BY <1>2, <1>3, <1>4

\* A trimmed text is a text.
LEMMA TrimType ==
    ASSUME NEW s \in Seq(Runes)
    PROVE  TrimSpace(s) \in Seq(Runes)
<1>1. CASE \A i \in DOMAIN s : s[i] \in Blank BY <1>1, TrimBlank, EmptySeq
<1>2. CASE \E i \in DOMAIN s : s[i] \notin Blank
  <2>1. PICK lo \in DOMAIN s, hi \in DOMAIN s : lo <= hi /\ TrimSpace(s) = SubSeq(s, lo, hi)
    BY <1>2, TrimShape
  <2>2. QED BY <2>1, SubSeqProperties
<1>3. QED BY <1>1, <1>2

-----------------------------------------------------------------------------
(***************************************************************************)
(* Quotes                                                                  *)
(***************************************************************************)

\* A part of a text, rune by rune.
LEMMA Part ==
    ASSUME NEW s \in Seq(Runes), NEW m \in 1..(Len(s) + 1), NEW n \in 0..Len(s)
    PROVE  /\ SubSeq(s, m, n) \in Seq(Runes)
           /\ Len(SubSeq(s, m, n)) = IF m <= n THEN n - m + 1 ELSE 0
           /\ \A i \in 1..(n - m + 1) : SubSeq(s, m, n)[i] = s[m + i - 1]
<1>1. \A i \in m..n : s[i] \in Runes OBVIOUS
<1>2. QED BY <1>1, SubSeqProperties

\* The first runes of a text.
LEMMA Beginning ==
    ASSUME NEW s \in Seq(Runes), NEW n \in 0..Len(s)
    PROVE  /\ SubSeq(s, 1, n) \in Seq(Runes) /\ Len(SubSeq(s, 1, n)) = n
           /\ \A i \in 1..n : SubSeq(s, 1, n)[i] = s[i]
BY Part

\* Two texts put together, rune by rune.
LEMMA Joined ==
    ASSUME NEW s \in Seq(Runes), NEW t \in Seq(Runes)
    PROVE  /\ s \o t \in Seq(Runes) /\ Len(s \o t) = Len(s) + Len(t)
           /\ \A i \in 1..Len(s) : (s \o t)[i] = s[i]
           /\ \A i \in 1..Len(t) : (s \o t)[Len(s) + i] = t[i]
BY ConcatProperties

\* Three quotes and a text, rune by rune.
LEMMA AfterTriple ==
    ASSUME NEW p \in Seq(Runes)
    PROVE  /\ Triple \o p \in Seq(Runes) /\ Len(Triple \o p) = Len(p) + 3
           /\ (Triple \o p)[1] = Quote /\ (Triple \o p)[2] = Quote
           /\ (Triple \o p)[3] = Quote
           /\ \A i \in 1..Len(p) : (Triple \o p)[3 + i] = p[i]
<1>1. PICK t : t = Triple OBVIOUS
<1>2. t \in Seq(Runes) /\ Len(t) = 3 BY <1>1 DEF Triple, Runes
<1>3. t[1] = Quote /\ t[2] = Quote /\ t[3] = Quote BY <1>1 DEF Triple
<1>4. /\ t \o p \in Seq(Runes) /\ Len(t \o p) = Len(t) + Len(p)
      /\ \A i \in 1..Len(t) : (t \o p)[i] = t[i]
      /\ \A i \in 1..Len(p) : (t \o p)[Len(t) + i] = p[i]
  BY <1>2, Joined
<1>5. QED BY <1>1, <1>2, <1>3, <1>4

\* What it is to begin or end with one quote or with three.
LEMMA StartsWith ==
    ASSUME NEW s \in Seq(Runes)
    PROVE  /\ \A r \in Runes : Starts(s, <<r>>) <=> Len(s) >= 1 /\ s[1] = r
           /\ \A r \in Runes : Ends(s, <<r>>) <=> Len(s) >= 1 /\ s[Len(s)] = r
           /\ Starts(s, Triple) <=> /\ Len(s) >= 3
                                    /\ s[1] = Quote /\ s[2] = Quote /\ s[3] = Quote
           /\ Ends(s, Triple) <=> /\ Len(s) >= 3
                                  /\ s[Len(s)] = Quote /\ s[Len(s) - 1] = Quote
                                  /\ s[Len(s) - 2] = Quote
<1>1. ASSUME NEW r \in Runes, NEW k \in DOMAIN s
      PROVE  SubSeq(s, k, k) = <<r>> <=> s[k] = r
  <2> DEFINE t == SubSeq(s, k, k)
  <2>1. t \in Seq(Runes) /\ Len(t) = 1 /\ t[1] = s[k] BY Part
  <2>2. <<r>> \in Seq(Runes) /\ Len(<<r>>) = 1 /\ <<r>>[1] = r OBVIOUS
  <2> HIDE DEF t
  <2>3. t[1] = r => t = <<r>>
    <3>1. t[1] = r => \A i \in 1..Len(t) : t[i] = <<r>>[i] BY <2>1, <2>2
    <3>2. QED BY <2>1, <2>2, <3>1, SeqEqual
  <2>4. t = <<r>> => t[1] = r BY <2>2
  <2>5. QED BY <2>1, <2>3, <2>4 DEF t
<1>2. ASSUME NEW k \in DOMAIN s, k + 2 \in DOMAIN s
      PROVE  SubSeq(s, k, k + 2) = Triple <=>
                s[k] = Quote /\ s[k + 1] = Quote /\ s[k + 2] = Quote
  <2> DEFINE t == SubSeq(s, k, k + 2)
  <2>1. t \in Seq(Runes) /\ Len(t) = 3 BY <1>2, Part
  <2>2. t[1] = s[k] /\ t[2] = s[k + 1] /\ t[3] = s[k + 2] BY <1>2, Part
  <2>3. /\ Triple \in Seq(Runes) /\ Len(Triple) = 3
        /\ Triple[1] = Quote /\ Triple[2] = Quote /\ Triple[3] = Quote
    BY DEF Triple, Runes
  <2> HIDE DEF t
  <2>4. ASSUME t[1] = Quote, t[2] = Quote, t[3] = Quote PROVE t = Triple
    <3>1. \A i \in 1..Len(t) : t[i] = Triple[i] BY <2>1, <2>3, <2>4
    <3>2. QED BY <2>1, <2>3, <3>1, SeqEqual
  <2>5. QED BY <2>2, <2>3, <2>4 DEF t
<1>3. ASSUME NEW r \in Runes PROVE Starts(s, <<r>>) <=> Len(s) >= 1 /\ s[1] = r
  BY <1>1 DEF Starts
<1>4. ASSUME NEW r \in Runes PROVE Ends(s, <<r>>) <=> Len(s) >= 1 /\ s[Len(s)] = r
  <2>1. Len(<<r>>) = 1 OBVIOUS
  <2>2. Len(s) - 1 + 1 = Len(s) OBVIOUS
  <2>3. CASE Len(s) >= 1
    <3>1. Len(s) \in DOMAIN s BY <2>3
    <3>2. SubSeq(s, Len(s), Len(s)) = <<r>> <=> s[Len(s)] = r BY <1>1, <3>1
    <3>3. QED BY <2>1, <2>2, <2>3, <3>2 DEF Ends
  <2>4. CASE ~(Len(s) >= 1) BY <2>1, <2>4 DEF Ends
  <2>5. QED BY <2>3, <2>4
<1>5. Len(Triple) = 3 BY DEF Triple
<1>6. Starts(s, Triple) <=> Len(s) >= 3 /\ s[1] = Quote /\ s[2] = Quote /\ s[3] = Quote
  <2>1. CASE Len(s) >= 3
    <3>1. PICK k \in DOMAIN s : k = 1 BY <2>1
    <3>2. k + 1 = 2 /\ k + 2 = 3 /\ k + 2 \in DOMAIN s BY <2>1, <3>1
    <3>3. SubSeq(s, k, k + 2) = Triple <=>
             s[k] = Quote /\ s[k + 1] = Quote /\ s[k + 2] = Quote
      BY <1>2, <3>2
    <3>4. QED BY <1>5, <2>1, <3>1, <3>2, <3>3 DEF Starts
  <2>2. CASE ~(Len(s) >= 3) BY <1>5, <2>2 DEF Starts
  <2>3. QED BY <2>1, <2>2
<1>7. Ends(s, Triple) <=> /\ Len(s) >= 3
                          /\ s[Len(s)] = Quote /\ s[Len(s) - 1] = Quote
                          /\ s[Len(s) - 2] = Quote
  <2>1. CASE Len(s) >= 3
    <3>1. PICK k \in DOMAIN s : k = Len(s) - 2 BY <2>1
    <3>2. k + 2 = Len(s) /\ k + 1 = Len(s) - 1 /\ Len(s) - 3 + 1 = k BY <3>1
    <3>3. k + 2 \in DOMAIN s BY <2>1, <3>2
    <3>4. SubSeq(s, k, k + 2) = Triple <=>
             s[k] = Quote /\ s[k + 1] = Quote /\ s[k + 2] = Quote
      BY <1>2, <3>3
    <3>5. Ends(s, Triple) <=> SubSeq(s, k, k + 2) = Triple
      BY <1>5, <2>1, <3>2 DEF Ends
    <3>6. QED BY <2>1, <3>1, <3>2, <3>4, <3>5
  <2>2. CASE ~(Len(s) >= 3) BY <1>5, <2>2 DEF Ends
  <2>3. QED BY <2>1, <2>2
<1>8. QED BY <1>3, <1>4, <1>6, <1>7

\* A text that does not begin with a quote is what is between its quotes.
LEMMA NoQuotes ==
    ASSUME NEW s \in Seq(Runes), s = <<>> \/ s[1] # Quote
    PROVE  Closed(s) /\ Unquoted(s) = s
<1>1. ~Starts(s, Triple) /\ ~Starts(s, <<Quote>>)
  BY StartsWith DEF Runes
<1>2. QED BY <1>1 DEF Closed, Unquoted

\* A text that begins with a quote loses some of its runes.
LEMMA QuotesGo ==
    ASSUME NEW s \in Seq(Runes), s # <<>>, s[1] = Quote, Closed(s)
    PROVE  /\ Unquoted(s) \in Seq(Runes)
           /\ Len(Unquoted(s)) < Len(s)
<1>1. Starts(s, <<Quote>>) BY StartsWith DEF Runes
<1>2. CASE Starts(s, Triple)
  <2>1. Len(s) >= 6 /\ Unquoted(s) = SubSeq(s, 4, Len(s) - 3)
    BY <1>2 DEF Closed, Unquoted
  <2>2. QED BY <2>1, Part
<1>3. CASE ~Starts(s, Triple)
  <2>1. Len(s) >= 2 /\ Unquoted(s) = SubSeq(s, 2, Len(s) - 1)
    BY <1>1, <1>3 DEF Closed, Unquoted
  <2>2. QED BY <2>1, Part
<1>4. QED BY <1>2, <1>3

\* A value that is printed as it stands: where it begins and ends.
LEMMA PlainEdges ==
    ASSUME NEW v \in Seq(Runes), ~NeedsQuotes(v), v # <<>>
    PROVE  /\ 1 \in DOMAIN v /\ Len(v) \in DOMAIN v
           /\ \A i \in DOMAIN v : v[i] # Newline
           /\ v[1] \in Blank => v[1] \in {"tab", Return}
           /\ v[Len(v)] \in Blank => v[Len(v)] \in {"tab", Return}
<1>1. 1 \in DOMAIN v /\ Len(v) \in DOMAIN v OBVIOUS
<1>2. \A i \in DOMAIN v : v[i] # Newline BY DEF NeedsQuotes, Contains
<1>3. v[1] # Space /\ v[Len(v)] # Space
  <2>1. Space \in Runes BY DEF Runes, Spaces
  <2>2. Starts(v, <<Space>>) <=> Len(v) >= 1 /\ v[1] = Space BY <2>1, StartsWith
  <2>3. Ends(v, <<Space>>) <=> Len(v) >= 1 /\ v[Len(v)] = Space BY <2>1, StartsWith
  <2>4. ~Starts(v, <<Space>>) /\ ~Ends(v, <<Space>>) BY DEF NeedsQuotes
  <2>5. Len(v) >= 1 BY <1>1
  <2>6. QED BY <2>2, <2>3, <2>4, <2>5
<1>4. QED BY <1>1, <1>2, <1>3 DEF Blank, Spaces, Newlines

\* Such a value is read as it was printed when it survives.
LEMMA PlainSurvives ==
    ASSUME NEW v \in Seq(Runes), ~NeedsQuotes(v), Survives(v)
    PROVE  TrimSpace(v) = v /\ Closed(v) /\ Unquoted(v) = v
<1>1. CASE v = <<>>
  <2>1. \A i \in DOMAIN v : v[i] \in Blank BY <1>1
  <2>2. TrimSpace(v) = <<>> BY <2>1, TrimBlank
  <2>3. QED BY <1>1, <2>2, NoQuotes
<1>2. CASE v # <<>>
  <2>1. v[1] \notin {Quote, "tab"} /\ v[Len(v)] # "tab" BY <1>2 DEF Survives, SurvivesPlain
  <2>0. v[1] # Return /\ v[Len(v)] # Return
    BY <1>2, PlainEdges DEF Survives, SurvivesPlain, Contains
  <2>2. v[1] \notin Blank /\ v[Len(v)] \notin Blank BY <1>2, <2>0, <2>1, PlainEdges
  <2>3. TrimSpace(v) = v BY <1>2, <2>2, TrimSame
  <2>4. QED BY <2>1, <2>3, NoQuotes
<1>3. QED BY <1>1, <1>2

\* No carriage return among the first k runes of v seemed to be the end of it.
Open(v, k) ==
    \A i \in DOMAIN v : i <= k /\ v[i] = Return => ~Closed(TrimSpace(SubSeq(v, 1, i - 1)))

\* A text of which a part is not closed begins with a quote, blanks apart.
LEMMA OpenPart ==
    ASSUME NEW v \in Seq(Runes), NEW k \in 0..Len(v), ~Closed(TrimSpace(SubSeq(v, 1, k)))
    PROVE  TrimSpace(v) \in Seq(Runes) /\ TrimSpace(v) # <<>> /\ TrimSpace(v)[1] = Quote
<1>1. PICK s : s = SubSeq(v, 1, k) OBVIOUS
<1>2. s \in Seq(Runes) /\ Len(s) = k /\ \A i \in 1..k : s[i] = v[i]
  BY <1>1, Beginning
<1>3. \E i \in DOMAIN s : s[i] \notin Blank
  <2> SUFFICES ASSUME \A i \in DOMAIN s : s[i] \in Blank PROVE FALSE OBVIOUS
  <2>1. TrimSpace(s) = <<>> BY <1>2, TrimBlank
  <2>2. <<>> \in Seq(Runes) BY EmptySeq
  <2>3. QED BY <1>1, <2>1, <2>2, NoQuotes
<1>4. PICK l \in DOMAIN s, h \in DOMAIN s :
         /\ l <= h
         /\ TrimSpace(s) = SubSeq(s, l, h)
         /\ s[l] \notin Blank
         /\ \A i \in DOMAIN s : s[i] \notin Blank => l <= i
  BY <1>2, <1>3, TrimShape
<1>5. l \in DOMAIN v /\ v[l] \notin Blank BY <1>2, <1>4
<1>6. PICK lo \in DOMAIN v, hi \in DOMAIN v :
         /\ lo <= hi
         /\ TrimSpace(v) = SubSeq(v, lo, hi)
         /\ v[lo] \notin Blank
         /\ \A i \in DOMAIN v : v[i] \notin Blank => lo <= i
  BY <1>5, TrimShape
<1>7. lo = l
  <2>1. lo <= l BY <1>5, <1>6
  <2>2. lo \in DOMAIN s /\ s[lo] = v[lo] BY <1>2, <2>1
  <2>3. l <= lo BY <1>4, <1>6, <2>2
  <2>4. QED BY <2>1, <2>3
<1>8. v[l] = Quote
  <2>1. /\ TrimSpace(s) \in Seq(Runes) /\ TrimSpace(s) # <<>>
        /\ TrimSpace(s)[1] = s[l]
    <3>1. TrimSpace(s) \in Seq(Runes) /\ Len(TrimSpace(s)) >= 1 BY <1>2, <1>4, Part
    <3>2. TrimSpace(s)[1] = s[l] BY <1>2, <1>4, Part
    <3>3. QED BY <3>1, <3>2
  <2>2. TrimSpace(s)[1] = Quote BY <1>1, <2>1, NoQuotes
  <2>3. s[l] = v[l] BY <1>2, <1>4
  <2>4. QED BY <2>1, <2>2, <2>3
<1>9. TrimSpace(v) \in Seq(Runes) /\ Len(TrimSpace(v)) >= 1 /\ TrimSpace(v)[1] = v[lo]
  BY <1>6, Part
<1>10. QED BY <1>7, <1>8, <1>9

\* What is read of a text is no longer than the text, and consists of its runes.
LEMMA ReadFrom ==
    ASSUME NEW s \in Seq(Runes), Closed(TrimSpace(s))
    PROVE  LET u == Unquoted(TrimSpace(s)) IN
           /\ u \in Seq(Runes) /\ Len(u) <= Len(s)
           /\ \A i \in DOMAIN u : \E j \in DOMAIN s : u[i] = s[j]
<1>1. CASE \A i \in DOMAIN s : s[i] \in Blank
  <2>1. TrimSpace(s) = <<>> /\ <<>> \in Seq(Runes) BY <1>1, TrimBlank, EmptySeq
  <2>2. Unquoted(TrimSpace(s)) = <<>> BY <2>1, NoQuotes
  <2>3. PICK u : u = Unquoted(TrimSpace(s)) OBVIOUS
  <2>4. u = <<>> BY <2>2, <2>3
  <2>5. u \in Seq(Runes) /\ Len(u) <= Len(s) /\ \A i \in DOMAIN u : FALSE BY <2>4
  <2>6. QED BY <2>3, <2>5
<1>2. CASE \E i \in DOMAIN s : s[i] \notin Blank
  <2>1. PICK lo \in DOMAIN s, hi \in DOMAIN s : lo <= hi /\ TrimSpace(s) = SubSeq(s, lo, hi)
    BY <1>2, TrimShape
  <2>2. PICK t : t = TrimSpace(s) OBVIOUS
  <2>3. /\ t \in Seq(Runes) /\ Len(t) = hi - lo + 1
        /\ \A i \in 1..(hi - lo + 1) : t[i] = s[lo + i - 1]
    BY <2>1, <2>2, Part
  <2>4. Len(t) <= Len(s) /\ \A i \in DOMAIN t : lo + i - 1 \in DOMAIN s BY <2>1, <2>3
  <2>5. \A i \in DOMAIN t : \E j \in DOMAIN s : t[i] = s[j] BY <2>3, <2>4
  <2>6. ASSUME NEW m \in 1..(Len(t) + 1), NEW n \in 0..Len(t)
        PROVE  LET u == SubSeq(t, m, n) IN
               /\ u \in Seq(Runes) /\ Len(u) <= Len(t)
               /\ \A i \in DOMAIN u : \E j \in DOMAIN t : u[i] = t[j]
    <3>1. PICK u : u = SubSeq(t, m, n) OBVIOUS
    <3>2. /\ u \in Seq(Runes) /\ Len(u) = (IF m <= n THEN n - m + 1 ELSE 0)
          /\ \A i \in 1..(n - m + 1) : u[i] = t[m + i - 1]
      BY <2>3, <3>1, Part
    <3>3. PICK d \in Nat : d = Len(t) BY <2>3
    <3>4. Len(u) <= Len(t) BY <3>2, <3>3
    <3>5. ASSUME NEW i \in DOMAIN u PROVE \E j \in DOMAIN t : u[i] = t[j]
      <4>1. i \in 1..Len(u) BY <3>2
      <4>2. m <= n /\ i \in 1..(n - m + 1) BY <3>2, <3>3, <4>1
      <4>3. m + i - 1 \in 1..d BY <3>3, <4>2
      <4>4. m + i - 1 \in DOMAIN t BY <2>3, <3>3, <4>3
      <4>5. QED BY <3>2, <4>2, <4>4
    <3>6. QED BY <3>1, <3>2, <3>4, <3>5
  <2>7. PICK u : u = Unquoted(t) OBVIOUS
  <2>8. /\ u \in Seq(Runes) /\ Len(u) <= Len(t)
        /\ \A i \in DOMAIN u : \E j \in DOMAIN t : u[i] = t[j]
    <3>1. CASE Starts(t, Triple)
      <4>1. Len(t) >= 6 /\ u = SubSeq(t, 4, Len(t) - 3) BY <2>2, <2>7, <3>1 DEF Closed, Unquoted
      <4>2. 4 \in 1..(Len(t) + 1) /\ Len(t) - 3 \in 0..Len(t) BY <2>3, <4>1
      <4>3. QED BY <2>6, <4>1, <4>2
    <3>2. CASE ~Starts(t, Triple) /\ Starts(t, <<Quote>>)
      <4>1. Len(t) >= 2 /\ u = SubSeq(t, 2, Len(t) - 1) BY <2>2, <2>7, <3>2 DEF Closed, Unquoted
      <4>2. 2 \in 1..(Len(t) + 1) /\ Len(t) - 1 \in 0..Len(t) BY <2>3, <4>1
      <4>3. QED BY <2>6, <4>1, <4>2
    <3>3. CASE ~Starts(t, Triple) /\ ~Starts(t, <<Quote>>)
      <4>1. u = t BY <2>7, <3>3 DEF Unquoted
      <4>2. QED BY <2>3, <4>1
    <3>4. QED BY <3>1, <3>2, <3>3
  <2>9. Len(u) <= Len(s) BY <2>3, <2>4, <2>8
  <2>10. \A i \in DOMAIN u : \E j \in DOMAIN s : u[i] = s[j] BY <2>5, <2>8
  <2>11. QED BY <2>2, <2>7, <2>8, <2>9, <2>10
<1>3. QED BY <1>1, <1>2

\* Otherwise it is read as another value, if all of it is read and its quotes
\* are closed.
LEMMA PlainLost ==
    ASSUME NEW v \in Seq(Runes), ~NeedsQuotes(v), ~Survives(v), ~Contains(v, Unprintable),
           Open(v, Len(v)), Closed(TrimSpace(v))
    PROVE  Unquoted(TrimSpace(v)) # v
<1>1. v # <<>> /\ (Contains(v, Return) \/ v[1] \in {Quote, "tab"} \/ v[Len(v)] = "tab")
  BY DEF Survives, SurvivesPlain, Contains
<1>2. TrimSpace(v) \in Seq(Runes) BY TrimType
<1>0. Len(TrimSpace(v)) <= Len(v)
  <2>1. CASE \A i \in DOMAIN v : v[i] \in Blank BY <1>1, <2>1, TrimBlank
  <2>2. CASE \E i \in DOMAIN v : v[i] \notin Blank
    <3>1. PICK lo \in DOMAIN v, hi \in DOMAIN v : lo <= hi /\ TrimSpace(v) = SubSeq(v, lo, hi)
      BY <2>2, TrimShape
    <3>2. Len(TrimSpace(v)) = hi - lo + 1 BY <3>1, Part
    <3>3. QED BY <3>1, <3>2
  <2>3. QED BY <2>1, <2>2
<1>3. CASE TrimSpace(v) # <<>> /\ TrimSpace(v)[1] = Quote
  <2>1. PICK u : u = Unquoted(TrimSpace(v)) OBVIOUS
  <2>2. u \in Seq(Runes) /\ Len(u) < Len(TrimSpace(v)) BY <1>2, <1>3, <2>1, QuotesGo
  <2>3. Len(u) # Len(v) BY <1>0, <1>2, <2>2
  <2>4. QED BY <2>1, <2>3
\* A carriage return that was read on over makes the text begin with a quote.
<1>4. CASE Contains(v, Return)
  <2>1. PICK i \in DOMAIN v : v[i] = Return BY <1>4 DEF Contains
  <2>2. ~Closed(TrimSpace(SubSeq(v, 1, i - 1))) BY <2>1 DEF Open
  <2>3. PICK k \in 0..Len(v) : k = i - 1
    <3>1. i - 1 \in 0..Len(v) OBVIOUS
    <3>2. QED BY <3>1
  <2>4. QED BY <1>3, <2>2, <2>3, OpenPart
<1>5. CASE /\ TrimSpace(v) = <<>> \/ TrimSpace(v)[1] # Quote
           /\ v[1] \in {Quote, "tab"} \/ v[Len(v)] = "tab"
  <2>1. Unquoted(TrimSpace(v)) = TrimSpace(v) BY <1>2, <1>5, NoQuotes
  <2>2. ASSUME TrimSpace(v) = v PROVE FALSE
    <3>1. v[1] # Quote BY <1>1, <1>5, <2>2
    <3>2. v[1] \in Blank \/ v[Len(v)] \in Blank BY <1>5, <3>1 DEF Blank, Spaces
    <3>3. CASE \A i \in DOMAIN v : v[i] \in Blank BY <1>1, <2>2, <3>3, TrimBlank
    <3>4. CASE \E i \in DOMAIN v : v[i] \notin Blank
      <4>1. PICK lo \in DOMAIN v, hi \in DOMAIN v :
               /\ lo <= hi
               /\ TrimSpace(v) = SubSeq(v, lo, hi)
               /\ v[lo] \notin Blank /\ v[hi] \notin Blank
        BY <3>4, TrimShape
      <4>2. lo # 1 \/ hi # Len(v) BY <3>2, <4>1
      <4>3. Len(TrimSpace(v)) = hi - lo + 1 BY <4>1, Part
      <4>4. QED BY <2>2, <4>2, <4>3
    <3>5. QED BY <3>3, <3>4
  <2>3. QED BY <2>1, <2>2
<1>6. QED BY <1>1, <1>3, <1>4, <1>5

\* A value between single quotes, which holds none, survives if it can be
\* printed.
LEMMA OnceSurvives ==
    ASSUME NEW v \in Seq(Runes), NeedsQuotes(v), ~Contains(v, Quote),
           ~Contains(v, Unprintable)
    PROVE  Survives(v)
<1> SUFFICES ASSUME NEW i \in DOMAIN v, v[i] \in Newlines,
                    Ends(TrimSpace(<<"x">> \o SubSeq(v, 1, i - 1)), Triple)
             PROVE  FALSE
  BY DEF Survives, SurvivesQuoted
<1> DEFINE s == <<"x">> \o SubSeq(v, 1, i - 1)
<1>1. s \in Seq(Runes) /\ Len(s) = i /\ s[1] = "x"
  BY Part, ConcatProperties DEF Runes, Letters
<1>2. \A j \in DOMAIN s : s[j] # Quote
  <2>1. \A j \in 2..i : s[j] = v[j - 1] BY <1>1, Part, ConcatProperties DEF Runes, Letters
  <2>2. QED BY <1>1, <2>1 DEF Contains, Quote
<1> HIDE DEF s
<1>3. 1 \in DOMAIN s /\ s[1] \notin Blank
  BY <1>1 DEF Blank, Space, Spaces, Newlines, Newline, Return
<1>4. PICK lo \in DOMAIN s, hi \in DOMAIN s :
         lo <= hi /\ TrimSpace(s) = SubSeq(s, lo, hi)
  BY <1>1, <1>3, TrimShape
<1>5. TrimSpace(s) \in Seq(Runes) BY <1>1, TrimType
<1>6. Len(TrimSpace(s)) = hi - lo + 1 /\ TrimSpace(s)[hi - lo + 1] = s[hi]
  BY <1>1, <1>4, Part
<1>7. TrimSpace(s)[hi - lo + 1] = Quote
  BY <1>5, <1>6, StartsWith DEF s
<1>8. QED BY <1>2, <1>4, <1>6, <1>7

\* What is read of it before its last quote is not closed.
LEMMA OnceOpen ==
    ASSUME NEW v \in Seq(Runes), ~Contains(v, Quote), NEW j \in 0..Len(v)
    PROVE  ~Closed(TrimSpace(<<Quote>> \o SubSeq(v, 1, j)))
<1> DEFINE s == <<Quote>> \o SubSeq(v, 1, j)
<1>1. s \in Seq(Runes) /\ Len(s) = j + 1 /\ s[1] = Quote
  BY Part, ConcatProperties DEF Runes
<1>2. \A i \in 2..(j + 1) : s[i] = v[i - 1] BY Part, ConcatProperties DEF Runes
<1>3. \A i \in 2..(j + 1) : s[i] # Quote BY <1>2 DEF Contains
<1> HIDE DEF s
<1>4. 1 \in DOMAIN s /\ s[1] \notin Blank
  BY <1>1 DEF Blank, Space, Spaces, Newlines, Newline, Return, Quote
<1>5. PICK lo \in DOMAIN s, hi \in DOMAIN s :
         /\ lo <= hi
         /\ TrimSpace(s) = SubSeq(s, lo, hi)
         /\ \A i \in DOMAIN s : s[i] \notin Blank => lo <= i /\ i <= hi
  BY <1>1, <1>4, TrimShape
<1>6. lo = 1 BY <1>1, <1>4, <1>5
<1> DEFINE t == TrimSpace(s)
<1>7. t \in Seq(Runes) /\ Len(t) = hi /\ \A i \in 1..hi : t[i] = s[i]
  BY <1>1, <1>5, <1>6, Part
<1> HIDE DEF t
<1>0. Quote \in Runes BY DEF Runes
<1>8. Starts(t, <<Quote>>)
  <2>1. Len(t) >= 1 /\ t[1] = Quote BY <1>1, <1>4, <1>5, <1>6, <1>7
  <2>2. QED BY <1>0, <1>7, <2>1, StartsWith
<1>9. ~Starts(t, Triple) BY <1>1, <1>3, <1>5, <1>7, StartsWith
<1>10. Len(t) >= 2 => ~Ends(t, <<Quote>>)
  BY <1>1, <1>3, <1>5, <1>7, StartsWith DEF Runes
<1>11. QED BY <1>8, <1>9, <1>10 DEF Closed, t, s

\* Its last quote closes it, and the value is between the two.
LEMMA OnceRead ==
    ASSUME NEW v \in Seq(Runes), NeedsQuotes(v), ~Contains(v, Quote)
    PROVE  LET t == <<Quote>> \o v \o <<Quote>> IN
           TrimSpace(t) = t /\ Closed(t) /\ Unquoted(t) = v
<1> DEFINE t == <<Quote>> \o v \o <<Quote>>
<1>1. Len(v) >= 1
  <2>1. Len(v) \in Nat OBVIOUS
  <2>2. Len(<<Space>>) = 1 OBVIOUS
  <2>3. Starts(v, <<Space>>) \/ Ends(v, <<Space>>) => Len(v) >= 1 BY <2>2 DEF Starts, Ends
  <2>4. Contains(v, Newline) => Len(v) >= 1 BY DEF Contains
  <2>5. QED BY <2>3, <2>4 DEF NeedsQuotes
<1>2. /\ t \in Seq(Runes) /\ Len(t) = Len(v) + 2
      /\ t[1] = Quote /\ t[Len(v) + 2] = Quote
      /\ \A i \in 1..Len(v) : t[i + 1] = v[i]
  <2>1. <<Quote>> \o v \in Seq(Runes) /\ Len(<<Quote>> \o v) = Len(v) + 1
    BY ConcatProperties DEF Runes
  <2>2. \A i \in 1..(Len(v) + 1) : (<<Quote>> \o v)[i] = IF i = 1 THEN Quote ELSE v[i - 1]
    BY ConcatProperties DEF Runes
  <2>3. <<Quote>> \in Seq(Runes) /\ Len(<<Quote>>) = 1 BY DEF Runes
  <2>4. QED BY <2>1, <2>2, <2>3, ConcatProperties
<1> HIDE DEF t
<1>3. TrimSpace(t) = t
  <2>1. t # <<>> /\ t[1] = Quote /\ t[Len(t)] = Quote BY <1>1, <1>2
  <2>2. QED BY <1>2, <2>1, TrimSame DEF Blank, Space, Spaces, Newlines, Newline, Return, Quote
<1>4. Starts(t, <<Quote>>) /\ Ends(t, <<Quote>>) BY <1>2, StartsWith DEF Runes
<1>5. ~Starts(t, Triple) 
  <2>1. t[2] # Quote BY <1>1, <1>2 DEF Contains
  <2>2. QED BY <1>2, <2>1, StartsWith
<1>6. Unquoted(t) = v
  <2>1. Unquoted(t) = SubSeq(t, 2, Len(t) - 1) BY <1>4, <1>5 DEF Unquoted
  <2>2. /\ Unquoted(t) \in Seq(Runes) /\ Len(Unquoted(t)) = Len(v)
        /\ \A i \in 1..Len(v) : Unquoted(t)[i] = v[i]
    BY <1>1, <1>2, <2>1, Part
  <2>3. QED BY <2>2, SeqEqual
<1>7. Closed(t) BY <1>2, <1>4, <1>5 DEF Closed
<1>8. QED BY <1>3, <1>6, <1>7 DEF t

\* Between triple quotes the value seems to end exactly after a part of it
\* that ends with three quotes, blanks apart; the value that is read there
\* is shorter than the one that was printed.
LEMMA TripleOpen ==
    ASSUME NEW v \in Seq(Runes), NEW j \in 0..Len(v)
    PROVE  LET t == TrimSpace(Triple \o SubSeq(v, 1, j)) IN
           /\ Closed(t) <=> Ends(TrimSpace(<<"x">> \o SubSeq(v, 1, j)), Triple)
           /\ Closed(t) => /\ Unquoted(t) \in Seq(Runes)
                           /\ Len(Unquoted(t)) < j
<1> DEFINE s == Triple \o SubSeq(v, 1, j)
           z == <<"x">> \o SubSeq(v, 1, j)
<1>1. /\ s \in Seq(Runes) /\ Len(s) = j + 3
      /\ s[1] = Quote /\ s[2] = Quote /\ s[3] = Quote
      /\ \A i \in 1..j : s[3 + i] = v[i]
  <2>1. SubSeq(v, 1, j) \in Seq(Runes) /\ Len(SubSeq(v, 1, j)) = j BY Beginning
  <2>2. \A i \in 1..j : SubSeq(v, 1, j)[i] = v[i] BY Beginning
  <2>3. QED BY <2>1, <2>2, AfterTriple
<1>2. /\ z \in Seq(Runes) /\ Len(z) = j + 1
      /\ z[1] = "x" /\ \A i \in 1..j : z[1 + i] = v[i]
  <2>1. <<"x">> \in Seq(Runes) /\ Len(<<"x">>) = 1 BY DEF Runes, Letters
  <2>2. SubSeq(v, 1, j) \in Seq(Runes) /\ Len(SubSeq(v, 1, j)) = j BY Beginning
  <2>3. \A i \in 1..j : SubSeq(v, 1, j)[i] = v[i] BY Beginning
  <2>4. z \in Seq(Runes) /\ Len(z) = j + 1 BY <2>1, <2>2, Joined
  <2>5. z[1] = "x" BY <2>1, <2>2, Joined
  <2>6. \A i \in 1..j : z[1 + i] = v[i] BY <2>1, <2>2, <2>3, Joined
  <2>7. QED BY <2>4, <2>5, <2>6
<1> HIDE DEF s, z
<1>3. 1 \in DOMAIN s /\ s[1] \notin Blank /\ 3 \in DOMAIN s /\ s[3] \notin Blank
  BY <1>1 DEF Blank, Space, Spaces, Newlines, Newline, Return, Quote
<1>4. PICK lo \in DOMAIN s, hi \in DOMAIN s :
         /\ lo <= hi
         /\ TrimSpace(s) = SubSeq(s, lo, hi) /\ s[hi] \notin Blank
         /\ \A i \in DOMAIN s : s[i] \notin Blank => lo <= i /\ i <= hi
  BY <1>1, <1>3, TrimShape
<1>5. lo = 1 /\ hi >= 3
  <2>1. lo <= 1 /\ 3 <= hi BY <1>3, <1>4
  <2>2. lo \in Nat /\ lo >= 1 /\ hi \in Nat BY <1>1
  <2>3. QED BY <2>1, <2>2
<1>6. 1 \in DOMAIN z /\ z[1] \notin Blank
  BY <1>2 DEF Blank, Space, Spaces, Newlines, Newline, Return
<1>7. PICK l \in DOMAIN z, h \in DOMAIN z :
         /\ l <= h
         /\ TrimSpace(z) = SubSeq(z, l, h) /\ z[h] \notin Blank
         /\ \A i \in DOMAIN z : z[i] \notin Blank => l <= i /\ i <= h
  BY <1>2, <1>6, TrimShape
<1>8. l = 1
  <2>1. l <= 1 BY <1>6, <1>7
  <2>2. l \in Nat /\ l >= 1 BY <1>2
  <2>3. QED BY <2>1, <2>2
<1>0. \A i \in 2..(j + 1) : z[i] = s[i + 2]
  <2>1. ASSUME NEW i \in 2..(j + 1) PROVE z[i] = s[i + 2]
    <3>1. PICK k \in 1..j : i = 1 + k /\ i + 2 = 3 + k
      <4>1. i - 1 \in 1..j /\ i = 1 + (i - 1) /\ i + 2 = 3 + (i - 1) OBVIOUS
      <4>2. QED BY <4>1
    <3>2. z[1 + k] = v[k] /\ s[3 + k] = v[k] BY <1>1, <1>2
    <3>3. QED BY <3>1, <3>2
  <2>2. QED BY <2>1
<1>9. h = hi - 2
  <2>1. \A i \in 2..(j + 1) : z[i] = s[i + 2] BY <1>0
  <2>2. hi - 2 <= h
    <3>1. CASE hi = 3 BY <1>2, <1>7, <3>1
    <3>2. CASE hi # 3
      <4>1. hi - 2 \in 2..(j + 1) BY <1>1, <1>5, <3>2
      <4>2. hi - 2 + 2 = hi BY <1>1
      <4>3. z[hi - 2] \notin Blank BY <1>4, <2>1, <4>1, <4>2
      <4>4. QED BY <1>2, <1>7, <4>1, <4>3
    <3>3. QED BY <3>1, <3>2
  <2>3. h <= hi - 2
    <3>1. CASE h = 1 BY <1>1, <1>5, <3>1
    <3>2. CASE h # 1
      <4>1. h \in 2..(j + 1) BY <1>2, <3>2
      <4>2. s[h + 2] \notin Blank /\ h + 2 \in DOMAIN s BY <1>1, <1>7, <2>1, <4>1
      <4>3. h + 2 <= hi BY <1>4, <4>2
      <4>4. QED BY <1>1, <1>2, <4>3
    <3>3. QED BY <3>1, <3>2
  <2>4. QED BY <1>1, <1>2, <2>2, <2>3
<1> DEFINE t == TrimSpace(s)
           y == TrimSpace(z)
<1>10. t \in Seq(Runes) /\ Len(t) = hi /\ \A i \in 1..hi : t[i] = s[i]
  BY <1>1, <1>4, <1>5, Part
<1>11. y \in Seq(Runes) /\ Len(y) = h /\ \A i \in 1..h : y[i] = z[i]
  BY <1>2, <1>7, <1>8, Part
<1> HIDE DEF t, y
<1>12. Starts(t, Triple)
  <2>1. t[1] = Quote /\ t[2] = Quote /\ t[3] = Quote /\ Len(t) >= 3 BY <1>1, <1>5, <1>10
  <2>2. QED BY <1>10, <2>1, StartsWith
<1>13. Closed(t) <=> hi >= 6 /\ Ends(t, Triple) BY <1>10, <1>12 DEF Closed
<1>14. Ends(y, Triple) => h >= 4
  <2>1. Ends(y, Triple) => h >= 3 /\ y[h - 2] = Quote BY <1>11, StartsWith
  <2>2. h = 3 => y[h - 2] = "x" BY <1>2, <1>11
  <2>3. QED BY <1>2, <2>1, <2>2 DEF Quote
<1>15. ASSUME h >= 4 PROVE Ends(y, Triple) <=> Ends(t, Triple)
  <2>1. \A i \in 2..(j + 1) : z[i] = s[i + 2] BY <1>0
  <2>2. h \in 2..(j + 1) /\ h - 1 \in 2..(j + 1) /\ h - 2 \in 2..(j + 1)
    BY <1>2, <1>15
  <2>3. z[h] = s[hi] /\ z[h - 1] = s[hi - 1] /\ z[h - 2] = s[hi - 2]
    <3>1. h + 2 = hi /\ h - 1 + 2 = hi - 1 /\ h - 2 + 2 = hi - 2 BY <1>1, <1>9
    <3>2. QED BY <2>1, <2>2, <3>1
  <2>4. y[h] = z[h] /\ y[h - 1] = z[h - 1] /\ y[h - 2] = z[h - 2]
    BY <1>2, <1>11, <1>15
  <2>5. t[hi] = s[hi] /\ t[hi - 1] = s[hi - 1] /\ t[hi - 2] = s[hi - 2]
    BY <1>1, <1>9, <1>10, <1>15
  <2>6. hi >= 3 /\ h >= 3 BY <1>1, <1>2, <1>5, <1>15
  <2>7. QED BY <1>10, <1>11, <2>3, <2>4, <2>5, <2>6, StartsWith
<1>16. Closed(t) <=> Ends(y, Triple) BY <1>1, <1>2, <1>9, <1>13, <1>14, <1>15
<1>17. ASSUME Closed(t) PROVE Unquoted(t) \in Seq(Runes) /\ Len(Unquoted(t)) < j
  <2>1. hi >= 6 /\ hi <= j + 3 BY <1>1, <1>13, <1>17
  <2>2. Unquoted(t) = SubSeq(t, 4, hi - 3) BY <1>10, <1>12 DEF Unquoted
  <2>3. /\ Unquoted(t) \in Seq(Runes)
        /\ Len(Unquoted(t)) = IF 4 <= hi - 3 THEN hi - 6 ELSE 0
    BY <1>1, <1>10, <2>1, <2>2, Part
  <2>4. QED BY <1>1, <2>1, <2>3
<1>18. QED BY <1>16, <1>17 DEF t, y, s, z

\* The last three quotes close it, and the value is between the six.
LEMMA TripleRead ==
    ASSUME NEW v \in Seq(Runes)
    PROVE  LET t == Triple \o v \o Triple IN
           /\ t \in Seq(Runes) /\ Len(t) = Len(v) + 6
           /\ TrimSpace(t) = t /\ Closed(t) /\ Unquoted(t) = v
<1>1. PICK q : q = Triple OBVIOUS
<1>2. /\ q \in Seq(Runes) /\ Len(q) = 3
      /\ q[1] = Quote /\ q[2] = Quote /\ q[3] = Quote
  BY <1>1 DEF Triple, Runes
<1>3. PICK s : s = Triple \o v OBVIOUS
<1>4. /\ s \in Seq(Runes) /\ Len(s) = Len(v) + 3
      /\ s[1] = Quote /\ s[2] = Quote /\ s[3] = Quote
      /\ \A i \in 1..Len(v) : s[3 + i] = v[i]
  BY <1>3, AfterTriple
<1> DEFINE t == s \o q
<1>5. /\ t \in Seq(Runes) /\ Len(t) = Len(v) + 6
      /\ \A i \in 1..Len(s) : t[i] = s[i]
      /\ \A i \in 1..3 : t[Len(s) + i] = q[i]
  <2>1. /\ t \in Seq(Runes) /\ Len(t) = Len(s) + Len(q)
        /\ \A i \in 1..Len(s) : t[i] = s[i]
        /\ \A i \in 1..Len(q) : t[Len(s) + i] = q[i]
    BY <1>2, <1>4, Joined
  <2>2. Len(s) + Len(q) = Len(v) + 6 BY <1>2, <1>4
  <2>3. QED BY <1>2, <2>1, <2>2
<1> HIDE DEF t
<1>6. t[1] = Quote /\ t[2] = Quote /\ t[3] = Quote BY <1>4, <1>5
<1>7. t[Len(t)] = Quote /\ t[Len(t) - 1] = Quote /\ t[Len(t) - 2] = Quote
  <2>1. Len(t) = Len(s) + 3 /\ Len(t) - 1 = Len(s) + 2 /\ Len(t) - 2 = Len(s) + 1
    BY <1>4, <1>5
  <2>2. QED BY <1>2, <1>5, <2>1
<1>8. TrimSpace(t) = t
  <2>1. t # <<>> BY <1>5
  <2>2. QED
    BY <1>5, <1>6, <1>7, <2>1, TrimSame DEF Blank, Space, Spaces, Newlines, Newline, Return, Quote
<1>9. Starts(t, Triple) /\ Ends(t, Triple)
  <2>1. Len(t) >= 3 BY <1>5
  <2>2. QED BY <1>5, <1>6, <1>7, <2>1, StartsWith
<1>10. Closed(t) BY <1>5, <1>9 DEF Closed
<1>11. Unquoted(t) = v
  <2>1. Unquoted(t) = SubSeq(t, 4, Len(t) - 3) BY <1>9 DEF Unquoted
  <2>2. /\ Unquoted(t) \in Seq(Runes) /\ Len(Unquoted(t)) = Len(v)
        /\ \A i \in 1..Len(v) : Unquoted(t)[i] = t[4 + i - 1]
    BY <1>5, <2>1, Part
  <2>3. \A i \in 1..Len(v) : t[4 + i - 1] = v[i]
    <3>1. \A i \in 1..Len(v) : 4 + i - 1 = 3 + i /\ 3 + i \in 1..Len(s) BY <1>4
    <3>2. QED BY <1>4, <1>5, <3>1
  <2>4. QED BY <2>2, <2>3, SeqEqual
<1>12. QED BY <1>1, <1>3, <1>5, <1>8, <1>10, <1>11 DEF t

\* A value that begins with a quote which nothing closes on its line takes
\* in what follows; when that closes it, what is read holds a newline.
LEMMA OverrunLost ==
    ASSUME NEW v \in Seq(Runes), ~Contains(v, Newline), ~Closed(TrimSpace(v)),
           NEW s \in Seq(Runes), Len(s) > Len(v),
           \A i \in DOMAIN v : s[i] = v[i],
           s[Len(v) + 1] = Newline, Closed(TrimSpace(s))
    PROVE  Unquoted(TrimSpace(s)) # v
<1> DEFINE n == Len(v) + 1
<1>1. n \in DOMAIN s /\ n \in Nat OBVIOUS
<1>2. \E i \in DOMAIN v : v[i] \notin Blank
  <2> SUFFICES ASSUME \A i \in DOMAIN v : v[i] \in Blank PROVE FALSE OBVIOUS
  <2>1. TrimSpace(v) = <<>> BY TrimBlank
  <2>2. <<>> \in Seq(Runes) BY EmptySeq
  <2>3. QED BY <2>1, <2>2, NoQuotes
<1>3. PICK l \in DOMAIN v, h \in DOMAIN v :
         /\ l <= h
         /\ TrimSpace(v) = SubSeq(v, l, h)
         /\ v[l] \notin Blank /\ v[h] \notin Blank
         /\ \A i \in DOMAIN v : v[i] \notin Blank => l <= i /\ i <= h
  BY <1>2, TrimShape
<1>4. l \in DOMAIN s /\ s[l] \notin Blank BY <1>3
<1>5. PICK lo \in DOMAIN s, hi \in DOMAIN s :
         /\ lo <= hi
         /\ TrimSpace(s) = SubSeq(s, lo, hi)
         /\ s[lo] \notin Blank /\ s[hi] \notin Blank
         /\ \A i \in DOMAIN s : s[i] \notin Blank => lo <= i /\ i <= hi
  BY <1>4, TrimShape
<1>6. lo = l
  <2>1. lo <= l BY <1>4, <1>5
  <2>2. lo \in DOMAIN v /\ v[lo] = s[lo] BY <2>1
  <2>3. l <= lo BY <1>3, <1>5, <2>2
  <2>4. QED BY <2>1, <2>3
\* The first rune that is kept is a quote.
<1>7. s[lo] = Quote
  <2>1. TrimSpace(v) \in Seq(Runes) /\ TrimSpace(v)[1] = v[l] BY <1>3, Part
  <2>2. TrimSpace(v)[1] = Quote BY <2>1, NoQuotes
  <2>3. QED BY <1>3, <1>6, <2>1, <2>2
\* The last one comes after the newline: otherwise TrimSpace(s) is TrimSpace(v).
<1>8. hi > n
  <2> SUFFICES ASSUME hi <= n PROVE FALSE BY <1>1
  <2>1. hi # n
    <3>1. s[n] \in Blank BY DEF Blank, Newlines
    <3>2. QED BY <1>5, <3>1
  <2>2. hi \in DOMAIN v /\ v[hi] = s[hi] BY <2>1
  <2>3. hi <= h BY <1>3, <1>5, <2>2
  <2>4. h \in DOMAIN s /\ s[h] \notin Blank BY <1>3
  <2>5. h <= hi BY <1>5, <2>4
  <2>6. hi = h BY <2>3, <2>5
  <2>7. SubSeq(s, l, h) = SubSeq(v, l, h)
    <3>1. /\ SubSeq(s, l, h) \in Seq(Runes) /\ Len(SubSeq(s, l, h)) = h - l + 1
          /\ \A i \in 1..(h - l + 1) : SubSeq(s, l, h)[i] = s[l + i - 1]
      BY <1>3, <1>4, <2>4, Part
    <3>2. /\ SubSeq(v, l, h) \in Seq(Runes) /\ Len(SubSeq(v, l, h)) = h - l + 1
          /\ \A i \in 1..(h - l + 1) : SubSeq(v, l, h)[i] = v[l + i - 1]
      BY <1>3, Part
    <3>3. \A i \in 1..(h - l + 1) : l + i - 1 \in DOMAIN v BY <1>3
    <3>4. \A i \in 1..(h - l + 1) : SubSeq(s, l, h)[i] = SubSeq(v, l, h)[i]
      BY <3>1, <3>2, <3>3
    <3>5. QED BY <3>1, <3>2, <3>4, SeqEqual
  <2>8. QED BY <1>3, <1>5, <1>6, <2>6, <2>7
<1> DEFINE t == TrimSpace(s)
           p == n - lo + 1
<1>9. /\ t \in Seq(Runes) /\ Len(t) = hi - lo + 1
      /\ \A i \in 1..(hi - lo + 1) : t[i] = s[lo + i - 1]
  BY <1>5, Part
<1>10. p \in Nat /\ 1 < p /\ p < Len(t) /\ t[p] = Newline
  <2>1. lo \in Nat /\ lo <= Len(v) /\ hi \in Nat BY <1>3, <1>6
  <2>2. p \in 1..(hi - lo + 1) /\ lo + p - 1 = n BY <1>1, <1>8, <2>1
  <2>3. t[p] = s[lo + p - 1] BY <1>9, <2>2
  <2>4. t[p] = Newline BY <2>2, <2>3
  <2>5. 1 < p /\ p < hi - lo + 1 BY <1>1, <1>8, <2>1
  <2>6. QED BY <1>9, <2>2, <2>4, <2>5
<1>11. t[1] = Quote
  <2>1. 1 \in 1..(hi - lo + 1) /\ lo + 1 - 1 = lo BY <1>5
  <2>2. QED BY <1>7, <1>9, <2>1
<1> HIDE DEF t, p, n
<1>0. Len(t) \in Nat BY <1>9
<1>12. \E i \in DOMAIN Unquoted(t) : Unquoted(t)[i] = Newline
  <2>1. Starts(t, <<Quote>>)
    <3>1. Quote \in Runes BY DEF Runes
    <3>2. Len(t) >= 1 BY <1>0, <1>10
    <3>3. QED BY <1>9, <1>11, <3>1, <3>2, StartsWith
  <2>2. CASE Starts(t, Triple)
    <3>1. t[2] = Quote /\ t[3] = Quote BY <1>9, <2>2, StartsWith
    <3>2. Len(t) >= 6 /\ Ends(t, Triple) BY <2>2 DEF Closed, t
    <3>3. t[Len(t)] = Quote /\ t[Len(t) - 1] = Quote /\ t[Len(t) - 2] = Quote
      BY <1>9, <3>2, StartsWith
    <3>4. Newline # Quote BY DEF Newline, Quote
    <3>5. p # 2 /\ p # 3 /\ p # Len(t) - 1 /\ p # Len(t) - 2
      BY <1>10, <3>1, <3>3, <3>4
    <3>6. p \in 4..(Len(t) - 3) BY <1>0, <1>10, <3>2, <3>5
    <3>7. Unquoted(t) = SubSeq(t, 4, Len(t) - 3) BY <2>2 DEF Unquoted
    <3>8. /\ Unquoted(t) \in Seq(Runes) /\ Len(Unquoted(t)) = Len(t) - 6
          /\ \A i \in 1..(Len(t) - 6) : Unquoted(t)[i] = t[4 + i - 1]
      <4>1. PICK m : m = Len(t) - 3 OBVIOUS
      <4>2. m \in 0..Len(t) /\ 4 \in 1..(Len(t) + 1) /\ 4 <= m /\ m - 4 + 1 = Len(t) - 6
        BY <1>0, <3>2, <3>6, <4>1
      <4>3. t \in Seq(Runes) BY <1>9
      <4>4. /\ SubSeq(t, 4, m) \in Seq(Runes)
            /\ Len(SubSeq(t, 4, m)) = IF 4 <= m THEN m - 4 + 1 ELSE 0
            /\ \A i \in 1..(m - 4 + 1) : SubSeq(t, 4, m)[i] = t[4 + i - 1]
        BY <4>2, <4>3, Part
      <4>5. QED BY <3>7, <4>1, <4>2, <4>4
    <3>9. p - 3 \in 1..(Len(t) - 6) /\ 4 + (p - 3) - 1 = p BY <1>0, <3>6
    <3>10. Unquoted(t)[p - 3] = Newline BY <1>10, <3>8, <3>9
    <3>11. QED BY <3>8, <3>9, <3>10
  <2>3. CASE ~Starts(t, Triple)
    <3>1. Len(t) >= 2 BY <1>9, <1>10
    <3>2. p \in 2..(Len(t) - 1) BY <1>0, <1>10
    <3>3. Unquoted(t) = SubSeq(t, 2, Len(t) - 1) BY <2>1, <2>3 DEF Unquoted
    <3>4. /\ Unquoted(t) \in Seq(Runes) /\ Len(Unquoted(t)) = Len(t) - 2
          /\ \A i \in 1..(Len(t) - 2) : Unquoted(t)[i] = t[2 + i - 1]
      <4>1. PICK m : m = Len(t) - 1 OBVIOUS
      <4>2. m \in 0..Len(t) /\ 2 \in 1..(Len(t) + 1) /\ 2 <= m /\ m - 2 + 1 = Len(t) - 2
        BY <1>0, <3>1, <3>2, <4>1
      <4>3. t \in Seq(Runes) BY <1>9
      <4>4. /\ SubSeq(t, 2, m) \in Seq(Runes)
            /\ Len(SubSeq(t, 2, m)) = IF 2 <= m THEN m - 2 + 1 ELSE 0
            /\ \A i \in 1..(m - 2 + 1) : SubSeq(t, 2, m)[i] = t[2 + i - 1]
        BY <4>2, <4>3, Part
      <4>5. QED BY <3>3, <4>1, <4>2, <4>4
    <3>5. p - 1 \in 1..(Len(t) - 2) /\ 2 + (p - 1) - 1 = p BY <1>0, <3>2
    <3>6. Unquoted(t)[p - 1] = Newline BY <1>10, <3>4, <3>5
    <3>7. QED BY <3>4, <3>5, <3>6
  <2>4. QED BY <2>2, <2>3
<1>13. QED BY <1>12 DEF Contains, t

-----------------------------------------------------------------------------
(***************************************************************************)
(* The inductive invariant: ParserInv says what the parser has made of the *)
(* part of the text that it has read.                                      *)
(***************************************************************************)

Kinds == {"system", "stop", "message"}
RoleOf(kind) == IF kind = "message" THEN "user" ELSE Empty

\* What comes before the value in the second command.
HeadOf(kind) ==
    CASE kind = "system" -> <<"SYSTEM", Space>>
      [] kind = "message" -> <<"MESSAGE", Space, "user", Space>>
      [] OTHER -> <<"PARAMETER", Space, "stop", Space>>

\* How many runes come before the second command, its value, the end of its
\* line, and the third command.
Second(f) == 4 + Len(f)
ValueAt(kind, f) == Second(f) + Len(HeadOf(kind))
LineEnd(kind, v, f) == ValueAt(kind, f) + Len(quote(v))
Third(kind, v, f) == LineEnd(kind, v, f) + 1 + Len(f)

\* The text, rune by rune.
Laid(kind, v, f) ==
    /\ input \in Seq(Runes)
    /\ Len(input) \in {Third(kind, v, f) + 3, Third(kind, v, f) + 4}
    /\ input[1] = "FROM" /\ input[2] = Space /\ input[3] = "x" /\ input[4] = Newline
    /\ \A i \in 1..Len(f) : input[4 + i] = f[i]
    /\ \A i \in 1..Len(HeadOf(kind)) : input[Second(f) + i] = HeadOf(kind)[i]
    /\ \A i \in 1..Len(quote(v)) : input[ValueAt(kind, f) + i] = quote(v)[i]
    /\ input[LineEnd(kind, v, f) + 1] = Newline
    /\ \A i \in 1..Len(f) : input[LineEnd(kind, v, f) + 1 + i] = f[i]
    /\ input[Third(kind, v, f) + 1] = "SYSTEM" /\ input[Third(kind, v, f) + 2] = Space
    /\ input[Third(kind, v, f) + 3] = "x"
    /\ Len(input) = Third(kind, v, f) + 4 => input[Third(kind, v, f) + 4] = Newline

\* In the filler after p runes.
AtFiller(p, f) ==
    \E i \in 0..Len(f) : pos = p + i /\ curr = IF InComment(f, i) THEN "comment" ELSE "nil"

\* In the first or the third command, which has the word w and the name n.
AtPlain(p, w, n) ==
    \/ pos = p + 1 /\ curr = "name" /\ b = <<w>>
    \/ pos = p + 2 /\ curr = "value" /\ b = <<>> /\ cmd = n
    \/ pos = p + 3 /\ curr = "value" /\ b = <<"x">> /\ cmd = n

ReadsFirst ==
    /\ result = "running" /\ commands = <<>> /\ role = Empty
    /\ (pos = 0 /\ curr = "nil") \/ AtPlain(0, "FROM", "model")

ReadsFirstFiller(f) ==
    /\ result = "running" /\ commands = <<source[1]>> /\ role = Empty
    /\ AtFiller(4, f)

ReadsHead(kind, f) ==
    /\ result = "running" /\ commands = <<source[1]>> /\ role = Empty
    /\ \/ pos = Second(f) + 1 /\ curr = "name" /\ b = <<HeadOf(kind)[1]>>
       \/ /\ kind # "system"
          /\ curr = IF kind = "message" THEN "message" ELSE "parameter"
          /\ kind = "message" => cmd = "message"
          /\ \/ pos = Second(f) + 2 /\ b = <<>>
             \/ pos = Second(f) + 3 /\ b = <<HeadOf(kind)[3]>>

\* The end of no line among the first n runes of v seemed to be the end of v.
Unbroken(v, n) ==
    \A i \in DOMAIN v :
        i <= n /\ v[i] \in Newlines => ~Ends(TrimSpace(<<"x">> \o SubSeq(v, 1, i - 1)), Triple)

ReadsValue(kind, v, f) ==
    /\ result = "running" /\ commands = <<source[1]>>
    /\ curr = "value" /\ cmd = kind /\ role = RoleOf(kind)
    /\ \E k \in 0..Len(quote(v)) :
          /\ pos = ValueAt(kind, f) + k
          /\ b = SubSeq(quote(v), 1, k)
          /\ NeedsQuotes(v) /\ Contains(v, Quote) => Unbroken(v, k - 3)
          /\ ~NeedsQuotes(v) => Open(v, k)

\* The value began with a quote that its line did not close.
Overruns(v) ==
    /\ result = "running" /\ commands = <<source[1]>> /\ curr = "value"
    /\ ~NeedsQuotes(v) /\ ~Closed(TrimSpace(v))
    /\ Len(b) > Len(v) /\ (\A i \in DOMAIN v : b[i] = v[i]) /\ b[Len(v) + 1] = Newline

ReadsSecondFiller(kind, v, f) ==
    /\ Survives(v)
    /\ result = "running" /\ commands = <<source[1], source[2]>> /\ role = Empty
    /\ AtFiller(LineEnd(kind, v, f) + 1, f)

ReadsThird(kind, v, f) ==
    /\ Survives(v)
    /\ result = "running" /\ commands = <<source[1], source[2]>> /\ role = Empty
    /\ AtPlain(Third(kind, v, f), "SYSTEM", "system")

HasRead(kind, v, f) ==
    /\ Survives(v) /\ commands = source
    /\ \/ result = "running" /\ curr = "nil" /\ pos = Len(input)
       \/ result = "ok"

\* The second command is another one, and stays so.
Differs(v) == ~Survives(v) /\ Len(commands) >= 2 /\ commands[2] # source[2]

Rejects(v) == ~Survives(v) /\ result \in Errors

\* The value holds a rune that cannot be printed; no command that is read does.
Loses(v) == Contains(v, Unprintable)

Texts == {s \in Seq(Runes) : ~Contains(s, Unprintable)}
CommandNames == Runes \cup {Empty, "model", "system", "message"}
Commands == [name : CommandNames, role : Roles \cup {Empty}, args : Texts]

ParserType ==
    /\ pos \in 0..Len(input)
    /\ b \in Texts
    /\ cmd \in CommandNames /\ role \in Roles \cup {Empty}
    /\ commands \in Seq(Commands)
    /\ result \in {"running", "ok"} \cup Errors

Stage(kind, v, f) ==
    \/ ReadsFirst \/ ReadsFirstFiller(f) \/ ReadsHead(kind, f) \/ ReadsValue(kind, v, f)
    \/ Overruns(v) \/ ReadsSecondFiller(kind, v, f) \/ ReadsThird(kind, v, f)
    \/ HasRead(kind, v, f) \/ Differs(v) \/ Rejects(v) \/ Loses(v)

Reads(kind, v, f) ==
    source = Printed(kind, v) /\ Laid(kind, v, f) /\ Stage(kind, v, f)

ParserInv ==
    /\ ParserType
    /\ \E kind \in Kinds, v \in Values, f \in Fillers : Reads(kind, v, f)

-----------------------------------------------------------------------------
(***************************************************************************)
(* What a step does, by the state of the parser and the rune at hand       *)
(***************************************************************************)

\* Nothing happens once ParseFile has returned, and the text never changes.
LEMMA StepFrame ==
    ASSUME Next
    PROVE  result = "running" /\ UNCHANGED <<source, input>>
BY DEF Next, RuneRejected, Accumulate, LeaveNil, LeaveName, LeaveParameter, LeaveMessage,
       BlankInValue, LeaveValue, Flush, Reading, Advance, Fails

\* There is a rune to read.
AtRune == pos \in Nat /\ Len(input) \in Nat /\ pos < Len(input)

\* Before the end of the text it is one rune that is read.
LEMMA StepReads ==
    ASSUME Next, AtRune
    PROVE  /\ pos' = pos + 1
           /\ \/ RuneRejected \/ Accumulate \/ LeaveNil \/ LeaveName \/ LeaveParameter
              \/ LeaveMessage \/ BlankInValue \/ LeaveValue
<1>1. ~Flush BY DEF AtRune, Flush
<1>2. QED
  BY <1>1 DEF Next, RuneRejected, Accumulate, LeaveNil, LeaveName, LeaveParameter,
              LeaveMessage, BlankInValue, LeaveValue, Advance

\* At the end it is Flush.
LEMMA StepFlush ==
    ASSUME Next, pos = Len(input), Len(input) \in Nat
    PROVE  Flush
<1>1. ~Reading BY DEF Reading
<1>2. QED
  BY <1>1 DEF Next, RuneRejected, Accumulate, LeaveNil, LeaveName, LeaveParameter,
              LeaveMessage, BlankInValue, LeaveValue

\* Outside of commands.
LEMMA StepNil ==
    ASSUME Next, AtRune, curr \in {"nil", "comment"}
    PROVE  /\ UNCHANGED <<cmd, role, commands, result>>
           /\ curr' = next
           /\ curr = "nil" /\ next = "name" /\ rune # Unprintable => b' = <<rune>>
<1>1. next \in {"nil", "comment", "name"}
  BY DEF next, NextState
<1>2. next \notin Errors BY <1>1 DEF Errors
<1>3. Accumulate \/ LeaveNil
  BY <1>2, StepReads DEF RuneRejected, LeaveName, LeaveParameter, LeaveMessage,
                         BlankInValue, LeaveValue
<1>4. CASE Accumulate BY <1>4 DEF Accumulate
<1>5. CASE LeaveNil BY <1>5 DEF LeaveNil
<1>6. QED BY <1>3, <1>4, <1>5

\* After the word of a command.
LEMMA StepWord ==
    ASSUME Next, AtRune, curr = "name", rune = Space,
           NEW w \in Words, b = <<w>>
    PROVE  /\ UNCHANGED <<role, commands, result>>
           /\ b' = <<>>
           /\ w = "FROM" => curr' = "value" /\ cmd' = "model"
           /\ w = "SYSTEM" => curr' = "value" /\ cmd' = "system"
           /\ w = "MESSAGE" => curr' = "message" /\ cmd' = "message"
           /\ w = "PARAMETER" => curr' = "parameter"
<1>1. next = "value" BY DEF next, NextState, Letters, Words, Roles, Spaces, Space
<1>2. LeaveName
  BY <1>1, StepReads DEF RuneRejected, Errors, Accumulate, LeaveNil, LeaveParameter,
                         LeaveMessage, BlankInValue, LeaveValue
<1>3. Len(b) = 1 /\ b[1] = w OBVIOUS
<1>4. QED BY <1>2, <1>3 DEF LeaveName, Words

\* The name of the parameter.
LEMMA StepParameter ==
    ASSUME Next, AtRune, curr = "parameter", rune \in Letters
    PROVE  UNCHANGED <<curr, cmd, role, commands, result>> /\ b' = Append(b, rune)
<1>0. rune # Unprintable BY DEF Letters, Words, Roles, Unprintable
<1>1. next = "parameter" BY DEF next, NextState
<1>2. Accumulate
  BY <1>1, StepReads DEF RuneRejected, Errors, LeaveNil, LeaveName, LeaveParameter,
                         LeaveMessage, BlankInValue, LeaveValue
<1>3. QED BY <1>0, <1>2 DEF Accumulate

\* After the name of the parameter.
LEMMA StepParameterEnds ==
    ASSUME Next, AtRune, curr = "parameter", rune = Space, NEW r, b = <<r>>
    PROVE  /\ UNCHANGED <<role, commands, result>>
           /\ curr' = "value" /\ b' = <<>> /\ cmd' = r
<1>1. next = "value" BY DEF next, NextState, Letters, Words, Roles, Space, Spaces
<1>2. LeaveParameter
  BY <1>1, StepReads DEF RuneRejected, Errors, Accumulate, LeaveNil, LeaveName,
                         LeaveMessage, BlankInValue, LeaveValue
<1>3. Len(b) = 1 /\ b[1] = r OBVIOUS
<1>4. QED BY <1>2, <1>3 DEF LeaveParameter

\* The role of the message.
LEMMA StepMessage ==
    ASSUME Next, AtRune, curr = "message"
    PROVE  /\ rune \in Letters => /\ UNCHANGED <<curr, cmd, role, commands, result>>
                                  /\ b' = Append(b, rune)
           /\ rune = Space /\ Len(b) = 1 /\ b[1] = "user" =>
                 /\ UNCHANGED <<cmd, commands, result>>
                 /\ curr' = "value" /\ b' = <<>> /\ role' = "user"
<1>1. ASSUME rune \in Letters
      PROVE  /\ UNCHANGED <<curr, cmd, role, commands, result>>
             /\ b' = Append(b, rune)
  <2>0. rune # Unprintable BY <1>1 DEF Letters, Words, Roles, Unprintable
  <2>1. next = "message" BY <1>1 DEF next, NextState
  <2>2. Accumulate
    BY <2>1, StepReads DEF RuneRejected, Errors, LeaveNil, LeaveName, LeaveParameter,
                           LeaveMessage, BlankInValue, LeaveValue
  <2>3. QED BY <2>0, <2>2 DEF Accumulate
<1>2. ASSUME rune = Space, Len(b) = 1, b[1] = "user"
      PROVE  /\ UNCHANGED <<cmd, commands, result>>
             /\ curr' = "value" /\ b' = <<>> /\ role' = "user"
  <2>1. next = "value" BY <1>2 DEF next, NextState, Letters, Words, Roles, Spaces, Space
  <2>2. LeaveMessage
    BY <2>1, StepReads DEF RuneRejected, Errors, Accumulate, LeaveNil, LeaveName,
                           LeaveParameter, BlankInValue, LeaveValue
  <2>3. QED BY <1>2, <2>2 DEF LeaveMessage, Roles
<1>3. QED BY <1>1, <1>2

\* In a value: the line ends the command when its quotes are closed, and any
\* other rune belongs to the value, if it can be printed.
LEMMA StepValue ==
    ASSUME Next, AtRune, curr = "value"
    PROVE  IF rune \in Newlines /\ Closed(TrimSpace(b))
           THEN /\ commands' = Append(commands, ReadCommand)
                /\ role' = Empty /\ curr' = "nil" /\ UNCHANGED <<cmd, result>>
           ELSE /\ b' = IF rune = Unprintable THEN b ELSE Append(b, rune)
                /\ UNCHANGED <<curr, cmd, role, commands, result>>
<1>1. next \in {"nil", "value"} /\ (next = "nil" <=> rune \in Blank)
  BY DEF next, NextState
<1>2. Accumulate \/ BlankInValue \/ LeaveValue
  BY <1>1, StepReads DEF RuneRejected, Errors, LeaveNil, LeaveName, LeaveParameter,
                         LeaveMessage
<1>3. rune \in Spaces => rune \notin Newlines
  BY DEF Space, Spaces, Newlines, Newline, Return
<1>4. /\ rune \in Blank <=> rune \in Spaces \/ rune \in Newlines
      /\ rune \in Blank => rune # Unprintable
  BY DEF Blank, Space, Spaces, Newlines, Newline, Return, Unprintable
<1>5. CASE Accumulate
  <2>1. rune \notin Newlines BY <1>1, <1>4, <1>5 DEF Accumulate
  <2>2. QED BY <1>5, <2>1 DEF Accumulate
<1>6. CASE BlankInValue
  <2>1. ~(rune \in Newlines /\ Closed(TrimSpace(b))) BY <1>3, <1>6 DEF BlankInValue
  <2>2. rune # Unprintable BY <1>1, <1>4, <1>6 DEF BlankInValue
  <2>3. QED BY <1>6, <2>1, <2>2 DEF BlankInValue
<1>7. CASE LeaveValue
  <2>1. rune \in Newlines /\ Closed(TrimSpace(b)) BY <1>1, <1>4, <1>7 DEF LeaveValue
  <2>2. QED BY <1>7, <2>1 DEF LeaveValue
<1>8. QED BY <1>2, <1>5, <1>6, <1>7

\* A text without runes that cannot be printed, and one more rune of that kind.
LEMMA TextGrows ==
    /\ <<>> \in Texts
    /\ \A s \in Texts, r \in Runes : r # Unprintable => Append(s, r) \in Texts
    /\ \A r \in Runes : r # Unprintable => <<r>> \in Texts
<1>1. <<>> \in Texts BY DEF Texts, Contains
<1>2. ASSUME NEW s \in Texts, NEW r \in Runes, r # Unprintable PROVE Append(s, r) \in Texts
  <2>1. s \in Seq(Runes) /\ \A i \in DOMAIN s : s[i] # Unprintable BY DEF Texts, Contains
  <2>2. PICK t : t = Append(s, r) OBVIOUS
  <2>3. t \in Seq(Runes) /\ Len(t) = Len(s) + 1 BY <2>1, <2>2
  <2>4. ASSUME NEW i \in DOMAIN t PROVE t[i] # Unprintable
    <3>1. i \in DOMAIN s \/ i = Len(s) + 1 BY <2>1, <2>3
    <3>2. QED BY <1>2, <2>1, <2>2, <3>1
  <2>5. QED BY <2>2, <2>3, <2>4 DEF Texts, Contains
<1>3. ASSUME NEW r \in Runes, r # Unprintable PROVE <<r>> \in Texts
  <2>1. Append(<<>>, r) = <<r>> OBVIOUS
  <2>2. QED BY <1>1, <1>2, <1>3, <2>1
<1>4. QED BY <1>1, <1>2, <1>3

\* A step keeps the types.
LEMMA ParserTypeNext ==
    ASSUME ParserType, input \in Seq(Runes), [Next]_vars
    PROVE  ParserType'
<1>1. CASE UNCHANGED vars BY <1>1 DEF ParserType, vars
<1>2. CASE Next
  <2>1. result = "running" /\ UNCHANGED <<source, input>> BY <1>2, StepFrame
  <2>2. /\ pos \in 0..Len(input) /\ b \in Texts
        /\ cmd \in CommandNames /\ role \in Roles \cup {Empty} /\ commands \in Seq(Commands)
    BY DEF ParserType
  <2>3. ASSUME Closed(TrimSpace(b)) PROVE Append(commands, ReadCommand) \in Seq(Commands)
    <3>1. Unquoted(TrimSpace(b)) \in Texts
      <4>1. b \in Seq(Runes) /\ \A i \in DOMAIN b : b[i] # Unprintable
        BY <2>2 DEF Texts, Contains
      <4>2. PICK u : u = Unquoted(TrimSpace(b)) OBVIOUS
      <4>3. u \in Seq(Runes) /\ \A i \in DOMAIN u : \E j \in DOMAIN b : u[i] = b[j]
        BY <2>3, <4>1, <4>2, ReadFrom
      <4>4. QED BY <4>1, <4>2, <4>3 DEF Texts, Contains
    <3>2. ReadCommand \in Commands BY <2>2, <3>1 DEF ReadCommand, Commands
    <3>3. QED BY <2>2, <3>2
  <2>4. SUFFICES /\ pos' \in 0..Len(input) /\ b' \in Texts
                 /\ cmd' \in CommandNames /\ role' \in Roles \cup {Empty}
                 /\ commands' \in Seq(Commands)
                 /\ result' \in {"running", "ok"} \cup Errors
    BY <2>1 DEF ParserType
  <2>5. CASE pos # Len(input)
    <3>1. AtRune BY <2>2, <2>5 DEF AtRune
    <3>2. pos' = pos + 1 BY <1>2, <3>1, StepReads
    <3>3. pos' \in 0..Len(input) BY <3>1, <3>2 DEF AtRune
    <3>4. rune \in Runes
      <4>1. pos + 1 \in DOMAIN input BY <3>1 DEF AtRune
      <4>2. QED BY <4>1 DEF rune
    <3>5. CASE RuneRejected BY <2>2, <3>3, <3>5 DEF RuneRejected, Fails
    <3>6. CASE Accumulate
      <4>1. rune # Unprintable => Append(b, rune) \in Texts BY <2>2, <3>4, TextGrows
      <4>2. QED BY <2>1, <2>2, <3>3, <3>6, <4>1 DEF Accumulate
    <3>7. CASE LeaveNil
      <4>1. <<>> \in Texts /\ (rune # Unprintable => <<rune>> \in Texts) BY <3>4, TextGrows
      <4>2. QED BY <2>1, <2>2, <3>3, <3>7, <4>1 DEF LeaveNil
    <3>8. CASE LeaveName
      <4>1. <<>> \in Texts BY TextGrows
      <4>2. CASE Len(b) = 1 /\ b[1] \in Words
        <5>1. cmd' \in CommandNames BY <2>2, <3>8, <4>2 DEF LeaveName, CommandNames
        <5>2. QED BY <2>1, <2>2, <3>3, <3>8, <4>1, <4>2, <5>1 DEF LeaveName
      <4>3. CASE ~(Len(b) = 1 /\ b[1] \in Words)
        BY <2>2, <3>3, <3>8, <4>3 DEF LeaveName, Fails, Errors
      <4>4. QED BY <4>2, <4>3
    <3>9. CASE LeaveParameter
      <4>1. Len(b) = 1 => b[1] \in Runes
        <5>1. b \in Seq(Runes) BY <2>2 DEF Texts
        <5>2. QED BY <5>1, ElementOfSeq
      <4>2. cmd' \in CommandNames BY <3>9, <4>1 DEF LeaveParameter, CommandNames
      <4>3. <<>> \in Texts BY TextGrows
      <4>4. QED BY <2>1, <2>2, <3>3, <3>9, <4>2, <4>3 DEF LeaveParameter
    <3>10. CASE LeaveMessage
      <4>1. <<>> \in Texts BY TextGrows
      <4>2. QED BY <2>1, <2>2, <3>3, <3>10, <4>1 DEF LeaveMessage, Fails, Errors
    <3>11. CASE BlankInValue
      <4>0. rune # Unprintable
        BY <3>11 DEF BlankInValue, next, NextState, Blank, Space, Spaces, Newlines, Newline,
                     Return, Unprintable
      <4>1. Append(b, rune) \in Texts BY <2>2, <3>4, <4>0, TextGrows
      <4>2. QED BY <2>1, <2>2, <3>3, <3>11, <4>1 DEF BlankInValue
    <3>12. CASE LeaveValue
      <4>1. <<>> \in Texts BY TextGrows
      <4>2. QED BY <2>1, <2>2, <2>3, <3>3, <3>12, <4>1 DEF LeaveValue
    <3>13. QED
      BY <1>2, <3>1, <3>5, <3>6, <3>7, <3>8, <3>9, <3>10, <3>11, <3>12, StepReads
  <2>6. CASE pos = Len(input)
    <3>1. Flush BY <1>2, <2>2, <2>6, StepFlush
    <3>2. UNCHANGED <<pos, b, cmd, role>> BY <3>1 DEF Flush
    <3>3. commands' \in Seq(Commands) BY <2>2, <2>3, <3>1 DEF Flush
    <3>4. result' \in {"running", "ok"} \cup Errors BY <3>1 DEF Flush, Errors
    <3>5. QED BY <2>2, <3>2, <3>3, <3>4
  <2>7. QED BY <2>5, <2>6
<1>3. QED BY <1>1, <1>2

\* "x" is read as itself.
LEMMA LetterRead ==
    Closed(TrimSpace(<<"x">>)) /\ Unquoted(TrimSpace(<<"x">>)) = <<"x">>
<1>1. PICK s : s = <<"x">> OBVIOUS
<1>2. s \in Seq(Runes) /\ s # <<>> /\ Len(s) = 1 /\ s[1] = "x"
  BY <1>1 DEF Runes, Letters
<1>3. TrimSpace(s) = s BY <1>2, TrimSame DEF Blank, Space, Spaces, Newlines, Newline, Return
<1>4. Closed(s) /\ Unquoted(s) = s BY <1>2, NoQuotes DEF Quote
<1>5. QED BY <1>1, <1>3, <1>4

\* A rune of the first or the third command.
LEMMA PlainStep ==
    ASSUME ParserType, Next, AtRune, NEW p \in Nat,
           NEW w, NEW n, (w = "FROM" /\ n = "model") \/ (w = "SYSTEM" /\ n = "system"),
           input \in Seq(Runes), Len(input) >= p + 3,
           input[p + 2] = Space, input[p + 3] = "x",
           Len(input) > p + 3 => input[p + 4] = Newline,
           AtPlain(p, w, n), role = Empty
    PROVE  \/ AtPlain(p, w, n)' /\ UNCHANGED <<role, commands, result>>
           \/ /\ pos' = p + 4 /\ curr' = "nil" /\ role' = Empty /\ result' = result
              /\ commands' = Append(commands, Cmd(n, Empty, <<"x">>))
<1>1. pos' = pos + 1 BY StepReads
<1>2. CASE pos = p + 1 /\ curr = "name" /\ b = <<w>>
  <2>0. pos = p + 1 BY <1>2
  <2>1. rune = Space
    <3>1. p + 1 + 1 = p + 2 OBVIOUS
    <3>2. QED BY <2>0, <3>1 DEF rune
  <2>2. w \in Words BY DEF Words
  <2>3. UNCHANGED <<role, commands, result>> /\ b' = <<>> /\ curr' = "value" /\ cmd' = n
    BY <1>2, <2>1, <2>2, StepWord
  <2>4. pos' = p + 2 BY <1>1, <2>0
  <2>5. QED BY <2>3, <2>4 DEF AtPlain
<1>3. CASE pos = p + 2 /\ curr = "value" /\ b = <<>> /\ cmd = n
  <2>0. pos = p + 2 BY <1>3
  <2>1. rune = "x"
    <3>1. p + 2 + 1 = p + 3 OBVIOUS
    <3>2. QED BY <2>0, <3>1 DEF rune
  <2>2. b' = Append(b, rune) /\ UNCHANGED <<curr, cmd, role, commands, result>>
    BY <1>3, <2>1, StepValue DEF Newlines, Newline, Return, Unprintable
  <2>3. b' = <<"x">>
    <3>1. Append(<<>>, "x") = <<"x">> OBVIOUS
    <3>2. b = <<>> BY <1>3
    <3>3. QED BY <2>1, <2>2, <3>1, <3>2
  <2>4. pos' = p + 3 BY <1>1, <2>0
  <2>5. QED BY <1>3, <2>2, <2>3, <2>4 DEF AtPlain
<1>4. CASE pos = p + 3 /\ curr = "value" /\ b = <<"x">> /\ cmd = n
  <2>0. pos = p + 3 BY <1>4
  <2>1. Len(input) > p + 3 BY <2>0 DEF AtRune
  <2>2. rune = Newline
    <3>1. p + 3 + 1 = p + 4 OBVIOUS
    <3>2. QED BY <2>0, <2>1, <3>1 DEF rune
  <2>3. Closed(TrimSpace(b)) BY <1>4, LetterRead
  <2>4. /\ commands' = Append(commands, ReadCommand)
        /\ role' = Empty /\ curr' = "nil" /\ UNCHANGED <<cmd, result>>
    BY <1>4, <2>2, <2>3, StepValue DEF Newlines
  <2>5. ReadCommand = Cmd(n, Empty, <<"x">>) BY <1>4, LetterRead DEF ReadCommand, Cmd
  <2>6. pos' = p + 4 BY <1>1, <2>0
  <2>7. QED BY <2>4, <2>5, <2>6
<1>5. QED BY <1>2, <1>3, <1>4 DEF AtPlain

\* A rune of a filler, or the one after it.
LEMMA FillerStep ==
    ASSUME Next, NEW f \in Fillers, NEW p \in Nat, AtFiller(p, f),
           Len(input) \in Nat, p + Len(f) < Len(input),
           \A i \in 1..Len(f) : input[p + i] = f[i],
           input[p + Len(f) + 1] \in Words
    PROVE  /\ UNCHANGED <<role, commands, result>>
           /\ \/ AtFiller(p, f)'
              \/ /\ pos' = p + Len(f) + 1 /\ curr' = "name"
                 /\ b' = <<input[p + Len(f) + 1]>>
<1>1. f \in Seq(Runes) /\ Len(f) \in Nat BY FillersAssumption
<1>2. PICK i \in 0..Len(f) :
         pos = p + i /\ curr = IF InComment(f, i) THEN "comment" ELSE "nil"
  BY DEF AtFiller
<1>3. AtRune /\ curr \in {"nil", "comment"} BY <1>1, <1>2 DEF AtRune
<1>4. pos' = pos + 1 BY <1>3, StepReads
<1>5. UNCHANGED <<cmd, role, commands, result>> /\ curr' = next
  BY <1>3, StepNil
<1>6. CASE i = Len(f)
  <2>1. ~InComment(f, i) BY <1>6, FillersAssumption
  <2>2. rune = input[p + Len(f) + 1] BY <1>2, <1>6 DEF rune
  <2>3. rune \in Words /\ rune # "#" /\ rune \notin Blank /\ rune # Unprintable
    BY <2>2 DEF Words, Blank, Space, Spaces, Newlines, Newline, Return, Unprintable
  <2>4. curr = "nil" BY <1>2, <2>1
  <2>5. next = "name" BY <2>3, <2>4 DEF next, NextState
  <2>6. b' = <<rune>> BY <1>3, <2>3, <2>4, <2>5, StepNil
  <2>7. QED BY <1>1, <1>2, <1>4, <1>5, <1>6, <2>2, <2>5, <2>6
<1>7. CASE i # Len(f)
  <2>1. i + 1 \in 1..Len(f) /\ i + 1 \in 0..Len(f) /\ i \in Nat BY <1>1, <1>7
  <2>2. rune = f[i + 1]
    <3>1. p + i + 1 = p + (i + 1) BY <2>1
    <3>2. QED BY <1>2, <2>1, <3>1 DEF rune
  <2>3. f[i + 1] \in Blank \/ InComment(f, i + 1) BY <1>1, <2>1, FillersAssumption
  <2>4. ASSUME InComment(f, i) PROVE InComment(f, i + 1) <=> f[i + 1] \notin Newlines
    <3>1. PICK h \in 1..i : f[h] = "#" /\ \A j \in h..i : f[j] \notin Newlines
      BY <2>4 DEF InComment
    <3>2. h \in 1..(i + 1) /\ i + 1 \in h..(i + 1) BY <2>1
    <3>3. f[i + 1] \notin Newlines => \A j \in h..(i + 1) : f[j] \notin Newlines
      <4>1. \A j \in h..(i + 1) : j \in h..i \/ j = i + 1 BY <2>1
      <4>2. QED BY <3>1, <4>1
    <3>4. f[i + 1] \notin Newlines => InComment(f, i + 1) BY <3>1, <3>2, <3>3 DEF InComment
    <3>5. InComment(f, i + 1) => f[i + 1] \notin Newlines
      <4>1. \A k \in 1..(i + 1) : i + 1 \in k..(i + 1) BY <2>1
      <4>2. QED BY <4>1 DEF InComment
    <3>6. QED BY <3>4, <3>5
  <2>5. ASSUME ~InComment(f, i) PROVE InComment(f, i + 1) <=> f[i + 1] = "#"
    <3>1. ASSUME f[i + 1] = "#" PROVE InComment(f, i + 1)
      <4>1. i + 1 \in 1..(i + 1) /\ \A j \in (i + 1)..(i + 1) : j = i + 1 BY <2>1
      <4>2. "#" \notin Newlines BY DEF Newlines, Newline, Return
      <4>3. QED BY <3>1, <4>1, <4>2 DEF InComment
    <3>2. ASSUME InComment(f, i + 1), f[i + 1] # "#" PROVE FALSE
      <4>1. PICK h \in 1..(i + 1) : f[h] = "#" /\ \A j \in h..(i + 1) : f[j] \notin Newlines
        BY <3>2 DEF InComment
      <4>2. h \in 1..i BY <2>1, <3>2, <4>1
      <4>3. \A j \in h..i : j \in h..(i + 1) BY <2>1
      <4>4. QED BY <2>5, <4>1, <4>2, <4>3 DEF InComment
    <3>3. QED BY <3>1, <3>2
  <2>6. next = IF InComment(f, i + 1) THEN "comment" ELSE "nil"
    <3>1. CASE InComment(f, i)
      <4>1. curr = "comment" BY <1>2, <3>1
      <4>2. QED BY <2>2, <2>4, <3>1, <4>1 DEF next, NextState
    <3>2. CASE ~InComment(f, i)
      <4>1. curr = "nil" BY <1>2, <3>2
      <4>2. QED BY <2>2, <2>3, <2>5, <3>2, <4>1 DEF next, NextState
    <3>3. QED BY <3>1, <3>2
  <2>7. pos' = p + (i + 1) BY <1>2, <1>4, <2>1
  <2>8. AtFiller(p, f)' BY <1>5, <2>1, <2>6, <2>7 DEF AtFiller
  <2>9. QED BY <1>5, <2>8
<1>8. QED BY <1>6, <1>7

-----------------------------------------------------------------------------
(***************************************************************************)
(* The stages                                                              *)
(***************************************************************************)

\* What quote returns is a text.
LEMMA QuoteType ==
    ASSUME NEW v \in Seq(Runes)
    PROVE  quote(v) \in Seq(Runes)
<1>1. PICK q : q = <<Quote>> OBVIOUS
<1>2. q \in Seq(Runes) BY <1>1 DEF Runes
<1>3. q \o v \in Seq(Runes) BY <1>2, Joined
<1>4. q \o v \o q \in Seq(Runes) BY <1>2, <1>3, Joined
<1>5. Triple \o v \o Triple \in Seq(Runes) BY TripleRead
<1>6. QED BY <1>1, <1>4, <1>5 DEF quote

\* The words before a value.
LEMMA HeadShape ==
    ASSUME NEW kind \in Kinds
    PROVE  /\ HeadOf(kind) \in Seq(Runes)
           /\ kind = "system" => /\ Len(HeadOf(kind)) = 2
                                 /\ HeadOf(kind)[1] = "SYSTEM" /\ HeadOf(kind)[2] = Space
           /\ kind = "message" => /\ Len(HeadOf(kind)) = 4
                                  /\ HeadOf(kind)[1] = "MESSAGE" /\ HeadOf(kind)[2] = Space
                                  /\ HeadOf(kind)[3] = "user" /\ HeadOf(kind)[4] = Space
           /\ kind = "stop" => /\ Len(HeadOf(kind)) = 4
                               /\ HeadOf(kind)[1] = "PARAMETER" /\ HeadOf(kind)[2] = Space
                               /\ HeadOf(kind)[3] = "stop" /\ HeadOf(kind)[4] = Space
<1>0. /\ "SYSTEM" \in Runes /\ "MESSAGE" \in Runes /\ "PARAMETER" \in Runes
      /\ Space \in Runes /\ "user" \in Runes /\ "stop" \in Runes
  BY DEF Runes, Letters, Words, Roles, Spaces
<1>1. CASE kind = "system"
  <2>1. PICK h : h = <<"SYSTEM", Space>> OBVIOUS
  <2>2. h \in Seq(Runes) /\ Len(h) = 2 BY <1>0, <2>1
  <2>3. h[1] = "SYSTEM" /\ h[2] = Space BY <2>1
  <2>4. HeadOf(kind) = h BY <1>1, <2>1 DEF HeadOf
  <2>5. QED BY <1>1, <2>2, <2>3, <2>4
<1>2. CASE kind = "message"
  <2>1. PICK h : h = <<"MESSAGE", Space, "user", Space>> OBVIOUS
  <2>2. h \in Seq(Runes) /\ Len(h) = 4 BY <1>0, <2>1
  <2>3. h[1] = "MESSAGE" /\ h[2] = Space /\ h[3] = "user" /\ h[4] = Space BY <2>1
  <2>4. HeadOf(kind) = h BY <1>2, <2>1 DEF HeadOf
  <2>5. QED BY <1>2, <2>2, <2>3, <2>4
<1>3. CASE kind = "stop"
  <2>1. PICK h : h = <<"PARAMETER", Space, "stop", Space>> OBVIOUS
  <2>2. h \in Seq(Runes) /\ Len(h) = 4 BY <1>0, <2>1
  <2>3. h[1] = "PARAMETER" /\ h[2] = Space /\ h[3] = "stop" /\ h[4] = Space BY <2>1
  <2>4. HeadOf(kind) = h BY <1>3, <2>1 DEF HeadOf
  <2>5. QED BY <1>3, <2>2, <2>3, <2>4
<1>4. QED BY <1>1, <1>2, <1>3 DEF Kinds

\* The places in the text are numbers, each at or after the one before.
LEMMA Places ==
    ASSUME NEW kind \in Kinds, NEW v \in Values, NEW f \in Fillers
    PROVE  /\ v \in Seq(Runes) /\ f \in Seq(Runes) /\ quote(v) \in Seq(Runes)
           /\ Len(f) \in Nat /\ Len(quote(v)) \in Nat /\ Len(HeadOf(kind)) \in Nat
           /\ Second(f) \in Nat /\ ValueAt(kind, f) \in Nat
           /\ LineEnd(kind, v, f) \in Nat /\ Third(kind, v, f) \in Nat
<1>1. v \in Seq(Runes) /\ f \in Seq(Runes) BY ValuesAssumption, FillersAssumption
<1>2. quote(v) \in Seq(Runes) BY <1>1, QuoteType
<1>3. HeadOf(kind) \in Seq(Runes) BY HeadShape
<1>4. Len(f) \in Nat /\ Len(quote(v)) \in Nat /\ Len(HeadOf(kind)) \in Nat
  BY <1>1, <1>2, <1>3
<1>5. Second(f) \in Nat BY <1>4 DEF Second
<1>6. ValueAt(kind, f) \in Nat BY <1>4, <1>5 DEF ValueAt
<1>7. LineEnd(kind, v, f) \in Nat BY <1>4, <1>6 DEF LineEnd
<1>8. Third(kind, v, f) \in Nat BY <1>4, <1>7 DEF Third
<1>9. QED BY <1>1, <1>2, <1>4, <1>5, <1>6, <1>7, <1>8

\* How long the text is.
LEMMA LaidLength ==
    ASSUME NEW kind \in Kinds, NEW v \in Values, NEW f \in Fillers, Laid(kind, v, f)
    PROVE  /\ input \in Seq(Runes) /\ Len(input) \in Nat
           /\ Len(input) = Third(kind, v, f) + 3 \/ Len(input) = Third(kind, v, f) + 4
<1>1. input \in Seq(Runes) BY DEF Laid
<1>2. Len(input) \in {Third(kind, v, f) + 3, Third(kind, v, f) + 4} BY DEF Laid
<1>3. QED BY <1>1, <1>2

\* The commands that were printed.
LEMMA SourceShape ==
    ASSUME NEW kind, NEW v, source = Printed(kind, v)
    PROVE  /\ Len(source) = 3
           /\ source[1] = Cmd("model", Empty, <<"x">>)
           /\ source[2] = Cmd(kind, RoleOf(kind), v)
           /\ source[3] = Cmd("system", Empty, <<"x">>)
           /\ source = <<source[1], source[2], source[3]>>
BY DEF Printed, RoleOf

\* The first command is read, and then the filler begins.
LEMMA FirstStep ==
    ASSUME NEW kind \in Kinds, NEW v \in Values, NEW f \in Fillers,
           source = Printed(kind, v), Laid(kind, v, f), ParserType, Next, ReadsFirst
    PROVE  ReadsFirst' \/ ReadsFirstFiller(f)'
<1>1. UNCHANGED <<source, input>> BY StepFrame
<1>2. input \in Seq(Runes) /\ Len(input) \in Nat /\ Len(input) >= 7
  <2>1. Third(kind, v, f) + 3 >= 7
    BY Places DEF Third, LineEnd, ValueAt, Second
  <2>2. QED BY <2>1, Places, LaidLength
<1>3. input[1] = "FROM" /\ input[2] = Space /\ input[3] = "x" /\ input[4] = Newline
  BY DEF Laid
<1>4. result = "running" /\ commands = <<>> /\ role = Empty BY DEF ReadsFirst
<1>5. CASE pos = 0 /\ curr = "nil"
  <2>1. AtRune BY <1>2, <1>5 DEF AtRune
  <2>2. rune = "FROM" BY <1>3, <1>5 DEF rune
  <2>3. next = "name"
    BY <1>5, <2>2 DEF next, NextState, Blank, Spaces, Space, Newlines, Newline, Return
  <2>4. /\ UNCHANGED <<cmd, role, commands, result>> /\ curr' = "name"
        /\ b' = <<"FROM">>
    BY <1>5, <2>1, <2>2, <2>3, StepNil DEF Unprintable
  <2>5. pos' = 0 + 1 BY <1>5, <2>1, StepReads
  <2>6. QED BY <1>4, <2>4, <2>5 DEF ReadsFirst, AtPlain
<1>6. CASE AtPlain(0, "FROM", "model")
  <2>1. pos \in 1..3 BY <1>6 DEF AtPlain
  <2>2. AtRune BY <1>2, <2>1 DEF AtRune
  <2>3. PICK p \in Nat : p = 0 OBVIOUS
  <2>4. p + 2 = 2 /\ p + 3 = 3 /\ p + 4 = 4 BY <2>3
  <2>5. \/ AtPlain(p, "FROM", "model")' /\ UNCHANGED <<role, commands, result>>
        \/ /\ pos' = p + 4 /\ curr' = "nil" /\ role' = Empty /\ result' = result
           /\ commands' = Append(commands, Cmd("model", Empty, <<"x">>))
    BY <1>2, <1>3, <1>4, <1>6, <2>2, <2>3, <2>4, PlainStep
  <2>6. CASE AtPlain(p, "FROM", "model")' /\ UNCHANGED <<role, commands, result>>
    BY <1>4, <2>3, <2>6 DEF ReadsFirst
  <2>7. CASE /\ pos' = p + 4 /\ curr' = "nil" /\ role' = Empty /\ result' = result
             /\ commands' = Append(commands, Cmd("model", Empty, <<"x">>))
    <3>1. commands' = <<source'[1]>>
      <4>1. PICK c : c = Cmd("model", Empty, <<"x">>) OBVIOUS
      <4>2. Append(<<>>, c) = <<c>> OBVIOUS
      <4>3. source[1] = c BY <4>1, SourceShape
      <4>4. QED BY <1>1, <1>4, <2>7, <4>1, <4>2, <4>3
    <3>2. AtFiller(4, f)'
      <4>1. ~InComment(f, 0) BY DEF InComment
      <4>2. 0 \in 0..Len(f) /\ 4 + 0 = 4 BY Places
      <4>3. QED BY <2>4, <2>7, <4>1, <4>2 DEF AtFiller
    <3>3. QED BY <1>4, <2>7, <3>1, <3>2 DEF ReadsFirstFiller
  <2>8. QED BY <2>5, <2>6, <2>7
<1>7. QED BY <1>5, <1>6 DEF ReadsFirst

\* The first filler is passed over, and then the second command begins.
LEMMA FirstFillerStep ==
    ASSUME NEW kind \in Kinds, NEW v \in Values, NEW f \in Fillers,
           source = Printed(kind, v), Laid(kind, v, f), ParserType, Next,
           ReadsFirstFiller(f)
    PROVE  ReadsFirstFiller(f)' \/ ReadsHead(kind, f)'
<1>1. UNCHANGED <<source, input>> BY StepFrame
<1>2. result = "running" /\ commands = <<source[1]>> /\ role = Empty /\ AtFiller(4, f)
  BY DEF ReadsFirstFiller
<1>3. Len(input) \in Nat /\ 4 + Len(f) < Len(input)
  BY LaidLength, Places DEF Third, LineEnd, ValueAt, Second
<1>4. \A i \in 1..Len(f) : input[4 + i] = f[i] BY DEF Laid
<1>5. input[4 + Len(f) + 1] = HeadOf(kind)[1]
  <2>1. 1 \in 1..Len(HeadOf(kind)) BY HeadShape DEF Kinds
  <2>2. QED BY <2>1 DEF Laid, Second
<1>6. HeadOf(kind)[1] \in Words BY HeadShape DEF Kinds, Words
<1>7. PICK p \in Nat : p = 4 OBVIOUS
<1>8. /\ UNCHANGED <<role, commands, result>>
      /\ \/ AtFiller(p, f)'
         \/ /\ pos' = p + Len(f) + 1 /\ curr' = "name"
            /\ b' = <<input[p + Len(f) + 1]>>
  BY <1>2, <1>3, <1>4, <1>5, <1>6, <1>7, FillerStep
<1>9. CASE AtFiller(p, f)' BY <1>1, <1>2, <1>7, <1>8, <1>9 DEF ReadsFirstFiller
<1>10. CASE /\ pos' = p + Len(f) + 1 /\ curr' = "name"
            /\ b' = <<input[p + Len(f) + 1]>>
  <2>1. pos' = Second(f) + 1 BY <1>7, <1>10 DEF Second
  <2>2. b' = <<HeadOf(kind)[1]>> BY <1>5, <1>7, <1>10
  <2>3. QED BY <1>1, <1>2, <1>8, <1>10, <2>1, <2>2 DEF ReadsHead
<1>11. QED BY <1>8, <1>9, <1>10

\* The words before the value are read, and then the value begins.
LEMMA HeadStep ==
    ASSUME NEW kind \in Kinds, NEW v \in Values, NEW f \in Fillers,
           source = Printed(kind, v), Laid(kind, v, f), ParserType, Next,
           ReadsHead(kind, f)
    PROVE  ReadsHead(kind, f)' \/ ReadsValue(kind, v, f)'
<1>1. UNCHANGED <<source, input>> BY StepFrame
<1>2. result = "running" /\ commands = <<source[1]>> /\ role = Empty
  BY DEF ReadsHead
<1>3. PICK a \in Nat : a = Second(f) BY Places
<1>4. Len(input) \in Nat /\ Len(input) >= a + Len(HeadOf(kind)) + 4
  <2>1. Third(kind, v, f) = a + Len(HeadOf(kind)) + Len(quote(v)) + 1 + Len(f)
    BY <1>3 DEF Third, LineEnd, ValueAt
  <2>2. Third(kind, v, f) >= a + Len(HeadOf(kind)) + 1 BY <2>1, Places
  <2>3. PICK t \in Nat, h \in Nat : t = Third(kind, v, f) /\ h = Len(HeadOf(kind)) BY Places
  <2>4. Len(input) \in Nat /\ (Len(input) = t + 3 \/ Len(input) = t + 4) BY <2>3, LaidLength
  <2>5. QED BY <2>2, <2>3, <2>4
<1>5. \A i \in 1..Len(HeadOf(kind)) : input[a + i] = HeadOf(kind)[i] BY <1>3 DEF Laid
<1>6. Len(HeadOf(kind)) = (IF kind = "system" THEN 2 ELSE 4) BY HeadShape DEF Kinds
<1>7. input[a + 2] = Space
  <2>1. 2 \in 1..Len(HeadOf(kind)) BY <1>6
  <2>2. HeadOf(kind)[2] = Space BY HeadShape DEF Kinds
  <2>3. QED BY <1>5, <2>1, <2>2
\* The value begins when the words have been read.
<1>8. ASSUME result' = result, commands' = commands, curr' = "value", cmd' = kind,
             role' = RoleOf(kind), b' = <<>>, pos' = a + Len(HeadOf(kind))
      PROVE  ReadsValue(kind, v, f)'
  <2>1. 0 \in 0..Len(quote(v)) /\ ValueAt(kind, f) + 0 = ValueAt(kind, f) BY Places
  <2>2. SubSeq(quote(v), 1, 0) = <<>> BY SubSeqEmpty
  <2>3. Unbroken(v, 0 - 3)
    <3>1. \A i \in DOMAIN v : ~(i <= 0 - 3) BY Places
    <3>2. QED BY <3>1 DEF Unbroken
  <2>4. pos' = ValueAt(kind, f) BY <1>3, <1>8 DEF ValueAt
  <2>0. Open(v, 0)
    <3>1. \A i \in DOMAIN v : ~(i <= 0) BY Places
    <3>2. QED BY <3>1 DEF Open
  <2>5. \E k \in 0..Len(quote(v)) :
          /\ pos' = ValueAt(kind, f) + k
          /\ b' = SubSeq(quote(v), 1, k)
          /\ NeedsQuotes(v) /\ Contains(v, Quote) => Unbroken(v, k - 3)
          /\ ~NeedsQuotes(v) => Open(v, k)
    BY <1>8, <2>0, <2>1, <2>2, <2>3, <2>4
  <2>6. QED BY <1>1, <1>2, <1>8, <2>5 DEF ReadsValue
<1>9. CASE pos = a + 1 /\ curr = "name" /\ b = <<HeadOf(kind)[1]>>
  <2>1. pos = a + 1 BY <1>9
  <2>2. AtRune BY <1>4, <1>6, <2>1 DEF AtRune
  <2>3. rune = Space
    <3>1. a + 1 + 1 = a + 2 OBVIOUS
    <3>2. QED BY <1>7, <2>1, <3>1 DEF rune
  <2>4. pos' = a + 2 BY <2>1, <2>2, StepReads
  <2>5. HeadOf(kind)[1] \in Words BY HeadShape DEF Kinds, Words
  <2>6. PICK w \in Words : w = HeadOf(kind)[1] BY <2>5
  <2>7. /\ UNCHANGED <<role, commands, result>>
        /\ b' = <<>>
        /\ w = "FROM" => curr' = "value" /\ cmd' = "model"
        /\ w = "SYSTEM" => curr' = "value" /\ cmd' = "system"
        /\ w = "MESSAGE" => curr' = "message" /\ cmd' = "message"
        /\ w = "PARAMETER" => curr' = "parameter"
    BY <1>9, <2>2, <2>3, <2>6, StepWord
  <2>8. CASE kind = "system"
    <3>1. w = "SYSTEM" BY <2>6, <2>8, HeadShape
    <3>2. role' = RoleOf(kind) BY <1>2, <2>7, <2>8 DEF RoleOf
    <3>3. pos' = a + Len(HeadOf(kind)) BY <1>6, <2>4, <2>8
    <3>4. QED BY <1>8, <2>7, <2>8, <3>1, <3>2, <3>3
  <2>9. CASE kind = "message"
    <3>1. w = "MESSAGE" BY <2>6, <2>9, HeadShape
    <3>2. QED BY <1>1, <1>2, <1>3, <2>4, <2>7, <2>9, <3>1 DEF ReadsHead
  <2>10. CASE kind = "stop"
    <3>1. w = "PARAMETER" BY <2>6, <2>10, HeadShape
    <3>2. QED BY <1>1, <1>2, <1>3, <2>4, <2>7, <2>10, <3>1 DEF ReadsHead
  <2>11. QED BY <2>8, <2>9, <2>10 DEF Kinds
<1>10. CASE /\ kind # "system"
            /\ curr = IF kind = "message" THEN "message" ELSE "parameter"
            /\ kind = "message" => cmd = "message"
            /\ \/ pos = a + 2 /\ b = <<>>
               \/ pos = a + 3 /\ b = <<HeadOf(kind)[3]>>
  <2>1. CASE pos = a + 2 /\ b = <<>>
    <3>1. pos = a + 2 BY <2>1
    <3>2. AtRune BY <1>4, <1>6, <1>10, <3>1 DEF AtRune
    <3>3. pos' = a + 3 BY <3>1, <3>2, StepReads
    <3>4. rune = HeadOf(kind)[3]
      <4>1. a + 2 + 1 = a + 3 OBVIOUS
      <4>2. 3 \in 1..Len(HeadOf(kind)) BY <1>6, <1>10
      <4>3. QED BY <1>5, <3>1, <4>1, <4>2 DEF rune
    <3>5. rune \in Letters BY <1>10, <3>4, HeadShape DEF Kinds, Letters, Roles
    <3>6. UNCHANGED <<curr, cmd, role, commands, result>> /\ b' = Append(b, rune)
      BY <1>10, <3>2, <3>5, StepParameter, StepMessage
    <3>7. b' = <<HeadOf(kind)[3]>>
      <4>1. PICK r : r = rune OBVIOUS
      <4>2. Append(<<>>, r) = <<r>> OBVIOUS
      <4>3. QED BY <2>1, <3>4, <3>6, <4>1, <4>2
    <3>8. QED BY <1>1, <1>2, <1>3, <1>10, <3>3, <3>6, <3>7 DEF ReadsHead
  <2>2. CASE pos = a + 3 /\ b = <<HeadOf(kind)[3]>>
    <3>1. pos = a + 3 BY <2>2
    <3>2. AtRune BY <1>4, <1>6, <1>10, <3>1 DEF AtRune
    <3>3. pos' = a + Len(HeadOf(kind)) BY <1>6, <1>10, <3>1, <3>2, StepReads
    <3>4. rune = Space
      <4>1. a + 3 + 1 = a + 4 OBVIOUS
      <4>2. 4 \in 1..Len(HeadOf(kind)) BY <1>6, <1>10
      <4>3. HeadOf(kind)[4] = Space BY <1>10, HeadShape DEF Kinds
      <4>4. QED BY <1>5, <3>1, <4>1, <4>2, <4>3 DEF rune
    <3>5. Len(b) = 1 /\ b[1] = HeadOf(kind)[3] BY <2>2
    <3>6. CASE kind = "message"
      <4>1. b[1] = "user" BY <3>5, <3>6, HeadShape
      <4>2. /\ UNCHANGED <<cmd, commands, result>>
            /\ curr' = "value" /\ b' = <<>> /\ role' = "user"
        BY <1>10, <3>2, <3>4, <3>5, <3>6, <4>1, StepMessage
      <4>3. role' = RoleOf(kind) BY <3>6, <4>2 DEF RoleOf
      <4>4. QED BY <1>8, <1>10, <3>3, <3>6, <4>2, <4>3
    <3>7. CASE kind = "stop"
      <4>1. PICK r : r = HeadOf(kind)[3] OBVIOUS
      <4>2. /\ UNCHANGED <<role, commands, result>>
            /\ curr' = "value" /\ b' = <<>> /\ cmd' = "stop"
        <5>1. curr = "parameter" BY <1>10, <3>7
        <5>2. b = <<r>> BY <2>2, <4>1
        <5>3. /\ UNCHANGED <<role, commands, result>>
              /\ curr' = "value" /\ b' = <<>> /\ cmd' = r
          BY <3>2, <3>4, <5>1, <5>2, StepParameterEnds
        <5>4. r = "stop" BY <3>7, <4>1, HeadShape
        <5>5. QED BY <5>3, <5>4
      <4>3. role' = RoleOf(kind) BY <1>2, <3>7, <4>2 DEF RoleOf
      <4>4. QED BY <1>8, <3>3, <3>7, <4>2, <4>3
    <3>8. QED BY <1>10, <3>6, <3>7 DEF Kinds
  <2>3. QED BY <1>10, <2>1, <2>2
<1>11. QED BY <1>3, <1>9, <1>10 DEF ReadsHead

\* Sequences of two and of three.
LEMMA AppendOne ==
    /\ \A c, d : Append(<<c>>, d) = <<c, d>>
    /\ \A c, d, e : Append(<<c, d>>, e) = <<c, d, e>>
<1>1. ASSUME NEW c, NEW d PROVE Append(<<c>>, d) = <<c, d>>
  <2>1. PICK S : S = {c, d} OBVIOUS
  <2>2. PICK s, t : s = Append(<<c>>, d) /\ t = <<c, d>> OBVIOUS
  <2>3. s \in Seq(S) /\ Len(s) = 2 /\ s[1] = c /\ s[2] = d BY <2>1, <2>2
  <2>4. t \in Seq(S) /\ Len(t) = 2 /\ t[1] = c /\ t[2] = d BY <2>1, <2>2
  <2>5. \A i \in 1..Len(s) : s[i] = t[i] BY <2>3, <2>4
  <2>6. QED BY <2>2, <2>3, <2>4, <2>5, SeqEqual
<1>2. ASSUME NEW c, NEW d, NEW e PROVE Append(<<c, d>>, e) = <<c, d, e>>
  <2>1. PICK S : S = {c, d, e} OBVIOUS
  <2>2. PICK s, t : s = Append(<<c, d>>, e) /\ t = <<c, d, e>> OBVIOUS
  <2>3. s \in Seq(S) /\ Len(s) = 3 /\ s[1] = c /\ s[2] = d /\ s[3] = e BY <2>1, <2>2
  <2>4. t \in Seq(S) /\ Len(t) = 3 /\ t[1] = c /\ t[2] = d /\ t[3] = e BY <2>1, <2>2
  <2>5. \A i \in 1..Len(s) : s[i] = t[i] BY <2>3, <2>4
  <2>6. QED BY <2>2, <2>3, <2>4, <2>5, SeqEqual
<1>3. QED BY <1>1, <1>2

\* A command that is not the second one takes its place.
LEMMA CommandDiffers ==
    ASSUME NEW kind, NEW v, source = Printed(kind, v), ~Survives(v),
           commands = <<source[1]>>, commands' = Append(commands, ReadCommand),
           Unquoted(TrimSpace(b)) # v, source' = source
    PROVE  Differs(v)'
<1>1. PICK c : c = ReadCommand OBVIOUS
<1>2. c.args = Unquoted(TrimSpace(b)) BY <1>1 DEF ReadCommand
<1>3. source[2].args = v
  <2>1. source[2] = Cmd(kind, RoleOf(kind), v) BY SourceShape
  <2>2. QED BY <2>1 DEF Cmd
<1>4. c # source[2] BY <1>2, <1>3
<1>5. PICK d : d = source[1] OBVIOUS
<1>6. commands' = <<d, c>>
  <2>1. Append(<<d>>, c) = <<d, c>> BY AppendOne
  <2>2. QED BY <1>1, <1>5, <2>1
<1>7. Len(commands') = 2 /\ commands'[2] = c BY <1>6
<1>8. QED BY <1>4, <1>7 DEF Differs

\* A value that is read as it was printed: the second filler begins.
LEMMA CommandRead ==
    ASSUME NEW kind \in Kinds, NEW v \in Values, NEW f \in Fillers,
           source = Printed(kind, v), Survives(v),
           result = "running", commands = <<source[1]>>, cmd = kind, role = RoleOf(kind),
           commands' = Append(commands, ReadCommand), Unquoted(TrimSpace(b)) = v,
           role' = Empty, curr' = "nil", result' = result, source' = source,
           pos' = LineEnd(kind, v, f) + 1
    PROVE  ReadsSecondFiller(kind, v, f)'
<1>1. ReadCommand = source[2] BY SourceShape DEF ReadCommand, Cmd
<1>2. commands' = <<source[1], source[2]>>
  <2>1. PICK c, d : c = source[1] /\ d = source[2] OBVIOUS
  <2>2. Append(<<c>>, d) = <<c, d>> BY AppendOne
  <2>3. QED BY <1>1, <2>1, <2>2
<1>3. AtFiller(LineEnd(kind, v, f) + 1, f)'
  <2>1. ~InComment(f, 0) BY DEF InComment
  <2>2. 0 \in 0..Len(f) /\ LineEnd(kind, v, f) + 1 + 0 = LineEnd(kind, v, f) + 1 BY Places
  <2>3. QED BY <2>1, <2>2 DEF AtFiller
<1>4. QED BY <1>2, <1>3 DEF ReadsSecondFiller

\* The runes of a value that is read without quotes, and the end of its line.
LEMMA PlainValue ==
    ASSUME NEW v \in Seq(Runes), ~NeedsQuotes(v)
    PROVE  quote(v) = v /\ \A i \in DOMAIN v : v[i] # Newline
BY DEF quote, NeedsQuotes, Contains

\* What has been read of a quoted value when the next rune ends a line.
LEMMA QuotedPart ==
    ASSUME NEW v \in Seq(Runes), NeedsQuotes(v),
           NEW k \in 0..(Len(quote(v)) - 1), quote(v)[k + 1] \in Newlines
    PROVE  \E i \in DOMAIN v :
              /\ v[i] \in Newlines
              /\ IF Contains(v, Quote)
                 THEN k = i + 2 /\ SubSeq(quote(v), 1, k) = Triple \o SubSeq(v, 1, i - 1)
                 ELSE k = i /\ SubSeq(quote(v), 1, k) = <<Quote>> \o SubSeq(v, 1, i - 1)
<1>0. Quote \notin Newlines BY DEF Newlines, Newline, Return, Quote
<1>1. CASE Contains(v, Quote)
  <2>1. PICK s : s = Triple \o v OBVIOUS
  <2>2. /\ s \in Seq(Runes) /\ Len(s) = Len(v) + 3
        /\ s[1] = Quote /\ s[2] = Quote /\ s[3] = Quote
        /\ \A i \in 1..Len(v) : s[3 + i] = v[i]
    BY <2>1, AfterTriple
  <2>3. PICK q : q = Triple OBVIOUS
  <2>4. /\ q \in Seq(Runes) /\ Len(q) = 3
        /\ q[1] = Quote /\ q[2] = Quote /\ q[3] = Quote
    BY <2>3 DEF Triple, Runes
  <2>5. quote(v) = s \o q BY <1>1, <2>1, <2>3 DEF quote
  <2>6. /\ s \o q \in Seq(Runes) /\ Len(s \o q) = Len(s) + Len(q)
        /\ \A i \in 1..Len(s) : (s \o q)[i] = s[i]
        /\ \A i \in 1..Len(q) : (s \o q)[Len(s) + i] = q[i]
    BY <2>2, <2>4, Joined
  <2>7. k + 1 \in 4..(Len(v) + 3)
    <3>1. k + 1 \in 1..(Len(v) + 6) BY <2>2, <2>4, <2>5, <2>6
    <3>2. k + 1 # 1 /\ k + 1 # 2 /\ k + 1 # 3
      <4>1. 1 \in 1..Len(s) /\ 2 \in 1..Len(s) /\ 3 \in 1..Len(s) BY <2>2
      <4>2. quote(v)[1] = Quote /\ quote(v)[2] = Quote /\ quote(v)[3] = Quote
        BY <2>2, <2>5, <2>6, <4>1
      <4>3. QED BY <1>0, <4>2
    <3>3. k + 1 # Len(v) + 4 /\ k + 1 # Len(v) + 5 /\ k + 1 # Len(v) + 6
      <4>1. Len(v) + 4 = Len(s) + 1 /\ Len(v) + 5 = Len(s) + 2 /\ Len(v) + 6 = Len(s) + 3
        BY <2>2
      <4>2. 1 \in 1..Len(q) /\ 2 \in 1..Len(q) /\ 3 \in 1..Len(q) BY <2>4
      <4>3. /\ quote(v)[Len(s) + 1] = Quote /\ quote(v)[Len(s) + 2] = Quote
            /\ quote(v)[Len(s) + 3] = Quote
        BY <2>4, <2>5, <2>6, <4>2
      <4>4. QED BY <1>0, <4>1, <4>3
    <3>4. QED BY <3>1, <3>2, <3>3
  <2>8. PICK i \in DOMAIN v : k = i + 2 /\ k + 1 = 3 + i
    <3>1. k - 2 \in DOMAIN v /\ k = (k - 2) + 2 /\ k + 1 = 3 + (k - 2) BY <2>7
    <3>2. QED BY <3>1
  <2>9. v[i] \in Newlines
    <3>1. k + 1 \in 1..Len(s) BY <2>2, <2>7
    <3>2. quote(v)[k + 1] = s[k + 1] BY <2>5, <2>6, <3>1
    <3>3. i \in 1..Len(v) OBVIOUS
    <3>4. s[3 + i] = v[i] BY <2>2, <3>3
    <3>5. QED BY <2>8, <3>2, <3>4
  <2>10. SubSeq(quote(v), 1, k) = Triple \o SubSeq(v, 1, i - 1)
    <3>1. PICK w : w = SubSeq(v, 1, i - 1) OBVIOUS
    <3>2. w \in Seq(Runes) /\ Len(w) = i - 1 /\ \A j \in 1..(i - 1) : w[j] = v[j]
      BY <3>1, Beginning
    <3>3. PICK t : t = Triple \o w OBVIOUS
    <3>4. /\ t \in Seq(Runes) /\ Len(t) = Len(w) + 3
          /\ t[1] = Quote /\ t[2] = Quote /\ t[3] = Quote
          /\ \A j \in 1..Len(w) : t[3 + j] = w[j]
      BY <3>2, <3>3, AfterTriple
    <3>5. PICK u : u = SubSeq(quote(v), 1, k) OBVIOUS
    <3>6. u \in Seq(Runes) /\ Len(u) = k /\ \A j \in 1..k : u[j] = quote(v)[j]
      BY <3>5, QuoteType, Beginning
    <3>7. Len(t) = Len(u) /\ k \in Nat /\ k >= 3 BY <2>7, <2>8, <3>2, <3>4, <3>6
    <3>8. ASSUME NEW j \in 1..k PROVE u[j] = t[j]
      <4>1. j \in 1..Len(s) BY <2>2, <2>7
      <4>2. u[j] = s[j] BY <2>5, <2>6, <3>6, <4>1
      <4>3. CASE j \in {1, 2, 3} BY <2>2, <3>4, <4>2, <4>3
      <4>4. CASE j \notin {1, 2, 3}
        <5>1. PICK m \in 1..(i - 1) : j = 3 + m
          <6>1. j - 3 \in 1..(i - 1) /\ j = 3 + (j - 3) BY <2>8, <4>4
          <6>2. QED BY <6>1
        <5>2. m \in 1..Len(v) /\ m \in 1..Len(w) BY <3>2
        <5>3. s[3 + m] = v[m] /\ t[3 + m] = w[m] /\ w[m] = v[m]
          BY <2>2, <3>2, <3>4, <5>2
        <5>4. QED BY <4>2, <5>1, <5>3
      <4>5. QED BY <4>3, <4>4
    <3>9. u = t BY <3>4, <3>6, <3>7, <3>8, SeqEqual
    <3>10. QED BY <3>1, <3>3, <3>5, <3>9
  <2>11. QED BY <1>1, <2>8, <2>9, <2>10
<1>2. CASE ~Contains(v, Quote)
  <2>1. PICK q : q = <<Quote>> OBVIOUS
  <2>2. q \in Seq(Runes) /\ Len(q) = 1 /\ q[1] = Quote BY <2>1 DEF Runes
  <2>3. PICK s : s = q \o v OBVIOUS
  <2>4. /\ s \in Seq(Runes) /\ Len(s) = Len(v) + 1 /\ s[1] = Quote
        /\ \A i \in 1..Len(v) : s[1 + i] = v[i]
    <3>1. /\ s \in Seq(Runes) /\ Len(s) = Len(q) + Len(v)
          /\ \A i \in 1..Len(q) : s[i] = q[i]
          /\ \A i \in 1..Len(v) : s[Len(q) + i] = v[i]
      BY <2>2, <2>3, Joined
    <3>2. QED BY <2>2, <3>1
  <2>5. quote(v) = s \o q BY <1>2, <2>1, <2>3 DEF quote
  <2>6. /\ s \o q \in Seq(Runes) /\ Len(s \o q) = Len(s) + Len(q)
        /\ \A i \in 1..Len(s) : (s \o q)[i] = s[i]
        /\ \A i \in 1..Len(q) : (s \o q)[Len(s) + i] = q[i]
    BY <2>2, <2>4, Joined
  <2>7. k + 1 \in 2..(Len(v) + 1)
    <3>1. k + 1 \in 1..(Len(v) + 2) BY <2>2, <2>4, <2>5, <2>6
    <3>2. k + 1 # 1
      <4>1. 1 \in 1..Len(s) BY <2>4
      <4>2. quote(v)[1] = Quote BY <2>4, <2>5, <2>6, <4>1
      <4>3. QED BY <1>0, <4>2
    <3>3. k + 1 # Len(v) + 2
      <4>1. Len(v) + 2 = Len(s) + 1 BY <2>4
      <4>2. 1 \in 1..Len(q) BY <2>2
      <4>3. quote(v)[Len(s) + 1] = Quote BY <2>2, <2>5, <2>6, <4>2
      <4>4. QED BY <1>0, <4>1, <4>3
    <3>4. QED BY <3>1, <3>2, <3>3
  <2>8. PICK i \in DOMAIN v : k = i /\ k + 1 = 1 + i
    <3>1. k \in DOMAIN v /\ k + 1 = 1 + k BY <2>7
    <3>2. QED BY <3>1
  <2>9. v[i] \in Newlines
    <3>1. k + 1 \in 1..Len(s) BY <2>4, <2>7
    <3>2. quote(v)[k + 1] = s[k + 1] BY <2>5, <2>6, <3>1
    <3>3. i \in 1..Len(v) OBVIOUS
    <3>4. s[1 + i] = v[i] BY <2>4, <3>3
    <3>5. QED BY <2>8, <3>2, <3>4
  <2>10. SubSeq(quote(v), 1, k) = <<Quote>> \o SubSeq(v, 1, i - 1)
    <3>1. PICK w : w = SubSeq(v, 1, i - 1) OBVIOUS
    <3>2. w \in Seq(Runes) /\ Len(w) = i - 1 /\ \A j \in 1..(i - 1) : w[j] = v[j]
      BY <3>1, Beginning
    <3>3. PICK t : t = q \o w OBVIOUS
    <3>4. /\ t \in Seq(Runes) /\ Len(t) = Len(w) + 1 /\ t[1] = Quote
          /\ \A j \in 1..Len(w) : t[1 + j] = w[j]
      <4>1. /\ t \in Seq(Runes) /\ Len(t) = Len(q) + Len(w)
            /\ \A j \in 1..Len(q) : t[j] = q[j]
            /\ \A j \in 1..Len(w) : t[Len(q) + j] = w[j]
        BY <2>2, <3>2, <3>3, Joined
      <4>2. QED BY <2>2, <3>2, <4>1
    <3>5. PICK u : u = SubSeq(quote(v), 1, k) OBVIOUS
    <3>6. u \in Seq(Runes) /\ Len(u) = k /\ \A j \in 1..k : u[j] = quote(v)[j]
      BY <3>5, QuoteType, Beginning
    <3>7. Len(t) = Len(u) /\ k \in Nat /\ k >= 1 BY <2>7, <2>8, <3>2, <3>4, <3>6
    <3>8. ASSUME NEW j \in 1..k PROVE u[j] = t[j]
      <4>1. j \in 1..Len(s) BY <2>4, <2>7
      <4>2. u[j] = s[j] BY <2>5, <2>6, <3>6, <4>1
      <4>3. CASE j = 1 BY <2>4, <3>4, <4>2, <4>3
      <4>4. CASE j # 1
        <5>1. PICK m \in 1..(i - 1) : j = 1 + m
          <6>1. j - 1 \in 1..(i - 1) /\ j = 1 + (j - 1) BY <2>8, <4>4
          <6>2. QED BY <6>1
        <5>2. m \in 1..Len(v) /\ m \in 1..Len(w) BY <3>2
        <5>3. s[1 + m] = v[m] /\ t[1 + m] = w[m] /\ w[m] = v[m]
          BY <2>4, <3>2, <3>4, <5>2
        <5>4. QED BY <4>2, <5>1, <5>3
      <4>5. QED BY <4>3, <4>4
    <3>9. u = t BY <3>4, <3>6, <3>7, <3>8, SeqEqual
    <3>10. QED BY <2>1, <3>1, <3>3, <3>5, <3>9
  <2>11. QED BY <1>2, <2>8, <2>9, <2>10
<1>3. QED BY <1>1, <1>2

\* One rune more of a text.
LEMMA OneMore ==
    ASSUME NEW s \in Seq(Runes), NEW k \in 0..(Len(s) - 1)
    PROVE  SubSeq(s, 1, k + 1) = Append(SubSeq(s, 1, k), s[k + 1])
<1>1. k \in 0..Len(s) /\ k + 1 \in 0..Len(s) /\ k + 1 \in 1..Len(s) /\ k \in Nat OBVIOUS
<1>2. PICK t : t = SubSeq(s, 1, k) OBVIOUS
<1>3. t \in Seq(Runes) /\ Len(t) = k /\ \A i \in 1..k : t[i] = s[i]
  BY <1>1, <1>2, Beginning
<1>4. PICK m : m = k + 1 OBVIOUS
<1>5. PICK u : u = SubSeq(s, 1, m) OBVIOUS
<1>6. m \in 0..Len(s) BY <1>1, <1>4
<1>7. u \in Seq(Runes) /\ Len(u) = m /\ \A i \in 1..m : u[i] = s[i]
  BY <1>5, <1>6, Beginning
<1>8. s[m] \in Runes BY <1>1, <1>4
<1>9. PICK w : w = Append(t, s[m]) OBVIOUS
<1>10. w \in Seq(Runes) /\ Len(w) = m BY <1>3, <1>4, <1>8, <1>9
<1>11. \A i \in 1..m : w[i] = s[i]
  <2>1. \A i \in 1..k : w[i] = t[i] BY <1>3, <1>9
  <2>2. w[m] = s[m] BY <1>3, <1>4, <1>9
  <2>3. \A i \in 1..m : i \in 1..k \/ i = m BY <1>1, <1>4
  <2>4. QED BY <1>3, <2>1, <2>2, <2>3
<1>12. u = w BY <1>7, <1>10, <1>11, SeqEqual
<1>13. QED BY <1>2, <1>4, <1>5, <1>9, <1>12

\* Quotes can be printed.
LEMMA QuotePrintable ==
    ASSUME NEW v \in Seq(Runes), ~Contains(v, Unprintable), NEW i \in 1..Len(quote(v))
    PROVE  quote(v)[i] # Unprintable
<1>1. ASSUME NEW s \in Seq(Runes), NEW t \in Seq(Runes),
             ~Contains(s, Unprintable), ~Contains(t, Unprintable)
      PROVE  s \o t \in Seq(Runes) /\ ~Contains(s \o t, Unprintable)
  <2>1. PICK u : u = s \o t OBVIOUS
  <2>2. /\ u \in Seq(Runes) /\ Len(u) = Len(s) + Len(t)
        /\ \A k \in 1..Len(s) : u[k] = s[k]
        /\ \A k \in 1..Len(t) : u[Len(s) + k] = t[k]
    BY <2>1, Joined
  <2>3. ASSUME NEW k \in DOMAIN u PROVE u[k] # Unprintable
    <3>1. CASE k \in 1..Len(s) BY <1>1, <2>2, <3>1 DEF Contains
    <3>2. CASE k \notin 1..Len(s)
      <4>1. PICK m \in 1..Len(t) : k = Len(s) + m
        <5>1. k - Len(s) \in 1..Len(t) /\ k = Len(s) + (k - Len(s)) BY <2>2, <3>2
        <5>2. QED BY <5>1
      <4>2. QED BY <1>1, <2>2, <4>1 DEF Contains
    <3>3. QED BY <3>1, <3>2
  <2>4. QED BY <2>1, <2>2, <2>3 DEF Contains
<1>2. PICK q, r : q = <<Quote>> /\ r = Triple OBVIOUS
<1>3. q \in Seq(Runes) /\ ~Contains(q, Unprintable)
  BY <1>2 DEF Contains, Runes, Quote, Unprintable
<1>4. r \in Seq(Runes) /\ ~Contains(r, Unprintable)
  <2>1. r \in Seq(Runes) /\ Len(r) = 3 BY <1>2 DEF Triple, Runes
  <2>2. r[1] = Quote /\ r[2] = Quote /\ r[3] = Quote BY <1>2 DEF Triple
  <2>3. \A k \in DOMAIN r : r[k] = Quote BY <2>1, <2>2
  <2>4. QED BY <2>1, <2>3 DEF Contains, Quote, Unprintable
<1>5. q \o v \in Seq(Runes) /\ ~Contains(q \o v, Unprintable) BY <1>1, <1>3
<1>6. r \o v \in Seq(Runes) /\ ~Contains(r \o v, Unprintable) BY <1>1, <1>4
<1>7. ~Contains(q \o v \o q, Unprintable) BY <1>1, <1>3, <1>5
<1>8. ~Contains(r \o v \o r, Unprintable) BY <1>1, <1>4, <1>6
<1>9. ~Contains(quote(v), Unprintable) BY <1>2, <1>7, <1>8 DEF quote
<1>10. i \in DOMAIN quote(v) BY QuoteType
<1>11. QED BY <1>9, <1>10 DEF Contains

\* A rune inside the value as it is printed.
LEMMA InsideValue ==
    ASSUME NEW kind \in Kinds, NEW v \in Values, NEW f \in Fillers,
           source = Printed(kind, v), Laid(kind, v, f), ParserType, Next, ~Loses(v),
           result = "running", commands = <<source[1]>>,
           curr = "value", cmd = kind, role = RoleOf(kind),
           NEW k \in 0..(Len(quote(v)) - 1), pos = ValueAt(kind, f) + k,
           b = SubSeq(quote(v), 1, k), AtRune, rune = quote(v)[k + 1],
           NeedsQuotes(v) /\ Contains(v, Quote) => Unbroken(v, k - 3),
           ~NeedsQuotes(v) => Open(v, k)
    PROVE  ReadsValue(kind, v, f)' \/ Differs(v)'
<1>1. UNCHANGED <<source, input>> BY StepFrame
<1>2. v \in Seq(Runes) /\ quote(v) \in Seq(Runes) BY Places
<1>3. pos' = pos + 1 BY StepReads
<1>0. rune # Unprintable
  <2>1. k + 1 \in 1..Len(quote(v)) BY <1>2
  <2>2. QED BY <1>2, <2>1, QuotePrintable DEF Loses
\* The rune becomes part of the value.
<1>4. ASSUME b' = Append(b, rune), UNCHANGED <<curr, cmd, role, commands, result>>,
             NeedsQuotes(v) /\ Contains(v, Quote) => Unbroken(v, k - 2),
             ~NeedsQuotes(v) => Open(v, k + 1)
      PROVE  ReadsValue(kind, v, f)'
  <2>1. k + 1 \in 0..Len(quote(v)) BY <1>2
  <2>2. pos' = ValueAt(kind, f) + (k + 1) BY <1>2, <1>3, Places
  <2>3. b' = SubSeq(quote(v), 1, k + 1) BY <1>2, <1>4, OneMore
  <2>4. (k + 1) - 3 = k - 2 BY <1>2
  <2>5. \E j \in 0..Len(quote(v)) :
          /\ pos' = ValueAt(kind, f) + j
          /\ b' = SubSeq(quote(v), 1, j)
          /\ NeedsQuotes(v) /\ Contains(v, Quote) => Unbroken(v, j - 3)
          /\ ~NeedsQuotes(v) => Open(v, j)
    BY <1>4, <2>1, <2>2, <2>3, <2>4
  <2>6. QED BY <1>1, <1>4, <2>5 DEF ReadsValue
<1>5. CASE rune \notin Newlines
  <2>1. b' = Append(b, rune) /\ UNCHANGED <<curr, cmd, role, commands, result>>
    BY <1>0, <1>5, StepValue
  <2>2. ASSUME NeedsQuotes(v), Contains(v, Quote) PROVE Unbroken(v, k - 2)
    <3>1. Unbroken(v, k - 3) BY <2>2
    <3>2. SUFFICES ASSUME NEW i \in DOMAIN v, i <= k - 2, v[i] \in Newlines
                   PROVE  ~Ends(TrimSpace(<<"x">> \o SubSeq(v, 1, i - 1)), Triple)
      BY DEF Unbroken
    <3>3. i # k - 2
      <4> SUFFICES ASSUME i = k - 2 PROVE FALSE OBVIOUS
      <4>1. PICK s : s = Triple \o v OBVIOUS
      <4>2. /\ s \in Seq(Runes) /\ Len(s) = Len(v) + 3
            /\ \A j \in 1..Len(v) : s[3 + j] = v[j]
        BY <1>2, <4>1, AfterTriple
      <4>3. Triple \in Seq(Runes) BY DEF Triple, Runes
      <4>4. quote(v) = s \o Triple BY <2>2, <4>1 DEF quote
      <4>5. \A j \in 1..Len(s) : (s \o Triple)[j] = s[j] BY <4>2, <4>3, Joined
      <4>6. k + 1 = 3 + i /\ k + 1 \in 1..Len(s) /\ i \in 1..Len(v) BY <1>2, <4>2
      <4>7. s[3 + i] = v[i] BY <4>2, <4>6
      <4>8. quote(v)[k + 1] = s[k + 1] BY <4>4, <4>5, <4>6
      <4>9. rune \in Newlines BY <3>2, <4>6, <4>7, <4>8
      <4>10. QED BY <1>5, <4>9
    <3>4. i <= k - 3 BY <1>2, <3>2, <3>3
    <3>5. QED BY <3>1, <3>2, <3>4 DEF Unbroken
  <2>3. ASSUME ~NeedsQuotes(v) PROVE Open(v, k + 1)
    <3>1. Open(v, k) /\ quote(v) = v BY <1>2, <2>3, PlainValue
    <3>2. v[k + 1] # Return BY <1>5, <3>1 DEF Newlines
    <3>3. \A i \in DOMAIN v : i <= k + 1 => i <= k \/ i = k + 1 BY <1>2
    <3>4. QED BY <3>1, <3>2, <3>3 DEF Open
  <2>4. QED BY <1>4, <2>1, <2>2, <2>3
<1>6. CASE rune \in Newlines /\ NeedsQuotes(v)
  <2>1. NeedsQuotes(v) BY <1>6
  <2>2. PICK i \in DOMAIN v :
           /\ v[i] \in Newlines
           /\ IF Contains(v, Quote)
              THEN k = i + 2 /\ SubSeq(quote(v), 1, k) = Triple \o SubSeq(v, 1, i - 1)
              ELSE k = i /\ SubSeq(quote(v), 1, k) = <<Quote>> \o SubSeq(v, 1, i - 1)
    BY <1>2, <1>6, <2>1, QuotedPart
  <2>3. PICK j \in 0..Len(v) : j = i - 1
    <3>1. i - 1 \in 0..Len(v) BY <1>2
    <3>2. QED BY <3>1
  <2>4. CASE ~Contains(v, Quote)
    <3>1. b = <<Quote>> \o SubSeq(v, 1, j) BY <2>2, <2>3, <2>4
    <3>2. ~Closed(TrimSpace(b)) BY <1>2, <2>4, <3>1, OnceOpen
    <3>3. b' = Append(b, rune) /\ UNCHANGED <<curr, cmd, role, commands, result>>
      BY <1>0, <3>2, StepValue
    <3>4. QED BY <1>4, <2>1, <2>4, <3>3
  <2>5. CASE Contains(v, Quote)
    <3>1. b = Triple \o SubSeq(v, 1, j) /\ k = i + 2 BY <2>2, <2>3, <2>5
    <3>2. /\ Closed(TrimSpace(b)) <=> Ends(TrimSpace(<<"x">> \o SubSeq(v, 1, j)), Triple)
          /\ Closed(TrimSpace(b)) => /\ Unquoted(TrimSpace(b)) \in Seq(Runes)
                                     /\ Len(Unquoted(TrimSpace(b))) < j
      BY <1>2, <3>1, TripleOpen
    <3>3. CASE ~Closed(TrimSpace(b))
      <4>1. b' = Append(b, rune) /\ UNCHANGED <<curr, cmd, role, commands, result>>
        BY <1>0, <3>3, StepValue
      <4>2. k - 2 = i /\ k - 3 = i - 1 BY <1>2, <3>1
      <4>3. Unbroken(v, i - 1) BY <2>1, <2>5, <4>2
      <4>4. ~Ends(TrimSpace(<<"x">> \o SubSeq(v, 1, i - 1)), Triple) BY <2>3, <3>2, <3>3
      <4>5. Unbroken(v, i)
        <5>1. \A n \in DOMAIN v : n <= i => n <= i - 1 \/ n = i BY <1>2
        <5>2. QED BY <4>3, <4>4, <5>1 DEF Unbroken
      <4>6. QED BY <1>4, <2>1, <4>1, <4>2, <4>5
    <3>4. CASE Closed(TrimSpace(b))
      <4>1. Ends(TrimSpace(<<"x">> \o SubSeq(v, 1, i - 1)), Triple) BY <2>3, <3>2, <3>4
      <4>2. ~Survives(v) BY <2>1, <2>2, <4>1 DEF Survives, SurvivesQuoted
      <4>3. commands' = Append(commands, ReadCommand) BY <1>6, <3>4, StepValue
      <4>4. Unquoted(TrimSpace(b)) # v
        <5>1. PICK u : u = Unquoted(TrimSpace(b)) OBVIOUS
        <5>2. u \in Seq(Runes) /\ Len(u) < j BY <3>2, <3>4, <5>1
        <5>3. Len(u) # Len(v) BY <1>2, <5>2
        <5>4. QED BY <5>1, <5>3
      <4>5. QED BY <1>1, <4>2, <4>3, <4>4, CommandDiffers
    <3>5. QED BY <3>3, <3>4
  <2>6. QED BY <2>4, <2>5
\* Without quotes it is a carriage return, which ends the line for the parser.
<1>7. CASE rune \in Newlines /\ ~NeedsQuotes(v)
  <2>1. quote(v) = v /\ \A i \in DOMAIN v : v[i] # Newline BY <1>2, <1>7, PlainValue
  <2>2. k + 1 \in DOMAIN v /\ k \in 0..Len(v) /\ k < Len(v) BY <1>2, <2>1
  <2>3. v[k + 1] = Return BY <1>7, <2>1, <2>2 DEF Newlines
  <2>4. b = SubSeq(v, 1, k) BY <2>1
  <2>5. CASE ~Closed(TrimSpace(b))
    <3>1. b' = Append(b, rune) /\ UNCHANGED <<curr, cmd, role, commands, result>>
      BY <1>0, <2>5, StepValue
    <3>2. Open(v, k + 1)
      <4>1. \A i \in DOMAIN v : i <= k + 1 => i <= k \/ i = k + 1 BY <1>2
      <4>2. k + 1 - 1 = k BY <2>2
      <4>3. ~Closed(TrimSpace(SubSeq(v, 1, k + 1 - 1))) BY <2>4, <2>5, <4>2
      <4>4. Open(v, k) BY <1>7
      <4>5. QED BY <4>1, <4>3, <4>4 DEF Open
    <3>3. QED BY <1>4, <1>7, <3>1, <3>2
  <2>6. CASE Closed(TrimSpace(b))
    <3>1. commands' = Append(commands, ReadCommand) BY <1>7, <2>6, StepValue
    <3>2. ~Survives(v) BY <1>7, <2>2, <2>3 DEF Survives, SurvivesPlain, Contains
    <3>3. Unquoted(TrimSpace(b)) # v
      <4>1. b \in Seq(Runes) /\ Len(b) = k BY <1>2, <2>2, <2>4, Beginning
      <4>2. PICK u : u = Unquoted(TrimSpace(b)) OBVIOUS
      <4>3. u \in Seq(Runes) /\ Len(u) <= k BY <2>6, <4>1, <4>2, ReadFrom
      <4>4. Len(u) # Len(v) BY <1>2, <2>2, <4>3
      <4>5. QED BY <4>2, <4>4
    <3>4. QED BY <1>1, <3>1, <3>2, <3>3, CommandDiffers
  <2>7. QED BY <2>5, <2>6
<1>8. QED BY <1>5, <1>6, <1>7

\* The newline after the value.
LEMMA AfterValue ==
    ASSUME NEW kind \in Kinds, NEW v \in Values, NEW f \in Fillers,
           source = Printed(kind, v), Laid(kind, v, f), ParserType, Next, ~Loses(v),
           result = "running", commands = <<source[1]>>,
           curr = "value", cmd = kind, role = RoleOf(kind),
           pos = LineEnd(kind, v, f), b = quote(v), AtRune, rune = Newline,
           NeedsQuotes(v) /\ Contains(v, Quote) => Unbroken(v, Len(quote(v)) - 3),
           ~NeedsQuotes(v) => Open(v, Len(quote(v)))
    PROVE  Overruns(v)' \/ ReadsSecondFiller(kind, v, f)' \/ Differs(v)'
<1>1. UNCHANGED <<source, input>> BY StepFrame
<1>2. v \in Seq(Runes) /\ quote(v) \in Seq(Runes) BY Places
<1>3. pos' = LineEnd(kind, v, f) + 1 BY StepReads
<1>0. rune \in Newlines /\ rune # Unprintable
  BY DEF Newlines, Newline, Unprintable
<1>4. ASSUME Closed(TrimSpace(b))
      PROVE  /\ commands' = Append(commands, ReadCommand)
             /\ role' = Empty /\ curr' = "nil" /\ UNCHANGED <<cmd, result>>
  BY <1>0, <1>4, StepValue
<1>5. ASSUME Closed(TrimSpace(b)), Unquoted(TrimSpace(b)) = v, Survives(v)
      PROVE  ReadsSecondFiller(kind, v, f)'
  BY <1>1, <1>3, <1>4, <1>5, CommandRead
<1>6. CASE ~NeedsQuotes(v)
  <2>1. b = v BY <1>6 DEF quote
  <2>2. CASE Survives(v)
    <3>1. Closed(TrimSpace(b)) /\ Unquoted(TrimSpace(b)) = v
      BY <1>2, <1>6, <2>1, <2>2, PlainSurvives
    <3>2. QED BY <1>5, <2>2, <3>1
  <2>3. CASE ~Survives(v) /\ Closed(TrimSpace(v))
    <3>0. Open(v, Len(v)) BY <1>6, <2>1
    <3>1. Unquoted(TrimSpace(b)) # v
      BY <1>2, <1>6, <2>1, <2>3, <3>0, PlainLost DEF Loses
    <3>2. QED BY <1>1, <1>4, <2>1, <2>3, <3>1, CommandDiffers
  <2>4. CASE ~Closed(TrimSpace(v))
    <3>1. b' = Append(b, rune) /\ UNCHANGED <<curr, cmd, role, commands, result>>
      BY <1>0, <2>1, <2>4, StepValue
    <3>2. PICK u : u = b' OBVIOUS
    <3>3. u = Append(v, Newline) BY <2>1, <3>1, <3>2
    <3>4. Newline \in Runes BY DEF Runes, Newlines
    <3>5. /\ Len(u) > Len(v) /\ (\A i \in DOMAIN v : u[i] = v[i])
          /\ u[Len(v) + 1] = Newline
      BY <1>2, <3>3, <3>4
    <3>6. QED BY <1>1, <1>6, <2>4, <3>1, <3>2, <3>5 DEF Overruns
  <2>5. QED BY <2>2, <2>3, <2>4
<1>7. CASE NeedsQuotes(v) /\ ~Contains(v, Quote)
  <2>1. b = <<Quote>> \o v \o <<Quote>> BY <1>7 DEF quote
  <2>2. Closed(TrimSpace(b)) /\ Unquoted(TrimSpace(b)) = v BY <1>2, <1>7, <2>1, OnceRead
  <2>3. Survives(v) BY <1>2, <1>7, OnceSurvives DEF Loses
  <2>4. QED BY <1>5, <2>2, <2>3
<1>8. CASE NeedsQuotes(v) /\ Contains(v, Quote)
  <2>1. b = Triple \o v \o Triple BY <1>8 DEF quote
  <2>2. Closed(TrimSpace(b)) /\ Unquoted(TrimSpace(b)) = v BY <1>2, <2>1, TripleRead
  <2>3. Len(quote(v)) = Len(v) + 6 BY <1>2, <2>1, TripleRead
  <2>4. Survives(v)
    <3>1. \A i \in DOMAIN v : i <= Len(quote(v)) - 3 BY <1>2, <2>3
    <3>2. QED BY <1>8, <3>1 DEF Survives, SurvivesQuoted, Unbroken, Loses
  <2>5. QED BY <1>5, <2>2, <2>4
<1>9. QED BY <1>6, <1>7, <1>8

\* The value is read, to its end or beyond it.
LEMMA ValueStep ==
    ASSUME NEW kind \in Kinds, NEW v \in Values, NEW f \in Fillers,
           source = Printed(kind, v), Laid(kind, v, f), ParserType, Next, ~Loses(v),
           ReadsValue(kind, v, f)
    PROVE  \/ ReadsValue(kind, v, f)' \/ Overruns(v)'
           \/ ReadsSecondFiller(kind, v, f)' \/ Differs(v)'
<1>1. /\ result = "running" /\ commands = <<source[1]>>
      /\ curr = "value" /\ cmd = kind /\ role = RoleOf(kind)
  BY DEF ReadsValue
<1>2. PICK k \in 0..Len(quote(v)) :
         /\ pos = ValueAt(kind, f) + k
         /\ b = SubSeq(quote(v), 1, k)
         /\ NeedsQuotes(v) /\ Contains(v, Quote) => Unbroken(v, k - 3)
         /\ ~NeedsQuotes(v) => Open(v, k)
  BY DEF ReadsValue
<1>3. PICK c \in Nat : c = ValueAt(kind, f) BY Places
<1>4. PICK n \in Nat : n = Len(quote(v)) BY Places
<1>5. pos = c + k BY <1>2, <1>3
<1>6. Len(input) \in Nat /\ Len(input) >= c + n + 4
  <2>1. PICK t \in Nat : t = Third(kind, v, f) BY Places
  <2>2. t = c + n + 1 + Len(f) /\ Len(f) \in Nat BY <1>3, <1>4, <2>1, Places DEF Third, LineEnd
  <2>3. Len(input) \in Nat /\ (Len(input) = t + 3 \/ Len(input) = t + 4) BY <2>1, LaidLength
  <2>4. QED BY <2>2, <2>3
<1>7. AtRune BY <1>4, <1>5, <1>6 DEF AtRune
<1>8. CASE k # n
  <2>1. k \in 0..(Len(quote(v)) - 1) /\ k + 1 \in 1..Len(quote(v)) BY <1>4, <1>8
  <2>2. rune = quote(v)[k + 1]
    <3>1. \A i \in 1..Len(quote(v)) : input[c + i] = quote(v)[i] BY <1>3 DEF Laid
    <3>2. c + k + 1 = c + (k + 1) BY <1>4
    <3>3. QED BY <1>5, <2>1, <3>1, <3>2 DEF rune
  <2>3. ReadsValue(kind, v, f)' \/ Differs(v)'
    BY <1>1, <1>2, <1>7, <2>1, <2>2, InsideValue
  <2>4. QED BY <2>3
<1>9. CASE k = n
  <2>1. pos = LineEnd(kind, v, f) BY <1>2, <1>4, <1>9 DEF LineEnd
  <2>2. b = quote(v)
    <3>1. quote(v) \in Seq(Runes) BY Places
    <3>2. QED BY <1>2, <1>4, <1>9, <3>1, SubSeqFull
  <2>3. rune = Newline BY <2>1 DEF rune, Laid
  <2>4. /\ NeedsQuotes(v) /\ Contains(v, Quote) => Unbroken(v, Len(quote(v)) - 3)
        /\ ~NeedsQuotes(v) => Open(v, Len(quote(v)))
    BY <1>2, <1>4, <1>9
  <2>5. Overruns(v)' \/ ReadsSecondFiller(kind, v, f)' \/ Differs(v)'
    BY <1>1, <1>7, <2>1, <2>2, <2>3, <2>4, AfterValue
  <2>6. QED BY <2>5
<1>10. QED BY <1>8, <1>9

\* A value whose line does not close it is read on, up to a newline that
\* does or to the end of the file.
LEMMA OverrunStep ==
    ASSUME NEW kind \in Kinds, NEW v \in Values, NEW f \in Fillers,
           source = Printed(kind, v), Laid(kind, v, f), ParserType, Next, Overruns(v)
    PROVE  Overruns(v)' \/ Differs(v)' \/ Rejects(v)'
<1>1. UNCHANGED <<source, input>> BY StepFrame
<1>2. v \in Seq(Runes) /\ b \in Seq(Runes) BY Places DEF ParserType, Texts
<1>3. /\ result = "running" /\ commands = <<source[1]>> /\ curr = "value"
      /\ ~NeedsQuotes(v) /\ ~Closed(TrimSpace(v))
      /\ Len(b) > Len(v) /\ (\A i \in DOMAIN v : b[i] = v[i]) /\ b[Len(v) + 1] = Newline
  BY DEF Overruns
<1>4. ~Survives(v) BY <1>2, <1>3, PlainSurvives
<1>5. ~Contains(v, Newline) BY <1>3 DEF NeedsQuotes
<1>6. Closed(TrimSpace(b)) => Unquoted(TrimSpace(b)) # v
  BY <1>2, <1>3, <1>5, OverrunLost
<1>7. input \in Seq(Runes) /\ Len(input) \in Nat /\ pos \in 0..Len(input)
  BY LaidLength DEF ParserType
<1>8. CASE pos # Len(input)
  <2>1. AtRune BY <1>7, <1>8 DEF AtRune
  <2>2. CASE rune \in Newlines /\ Closed(TrimSpace(b))
    <3>1. commands' = Append(commands, ReadCommand) BY <1>3, <2>1, <2>2, StepValue
    <3>2. QED BY <1>1, <1>3, <1>4, <1>6, <2>2, <3>1, CommandDiffers
  <2>3. CASE ~(rune \in Newlines /\ Closed(TrimSpace(b))) /\ rune = Unprintable
    <3>1. b' = b /\ UNCHANGED <<curr, cmd, role, commands, result>>
      BY <1>3, <2>1, <2>3, StepValue
    <3>2. QED BY <1>1, <1>3, <3>1 DEF Overruns
  <2>4. CASE ~(rune \in Newlines /\ Closed(TrimSpace(b))) /\ rune # Unprintable
    <3>1. b' = Append(b, rune) /\ UNCHANGED <<curr, cmd, role, commands, result>>
      BY <1>3, <2>1, <2>4, StepValue
    <3>2. rune \in Runes
      <4>1. pos + 1 \in DOMAIN input BY <1>7, <2>1 DEF AtRune
      <4>2. QED BY <1>7, <4>1 DEF rune
    <3>3. PICK u : u = b' OBVIOUS
    <3>4. u = Append(b, rune) BY <3>1, <3>3
    <3>5. Len(u) = Len(b) + 1 /\ \A i \in DOMAIN b : u[i] = b[i] BY <1>2, <3>2, <3>4
    <3>6. /\ Len(u) > Len(v) /\ (\A i \in DOMAIN v : u[i] = v[i])
          /\ u[Len(v) + 1] = Newline
      <4>1. Len(v) \in Nat /\ Len(b) \in Nat BY <1>2
      <4>2. Len(u) > Len(v) BY <1>3, <3>5, <4>1
      <4>3. \A i \in DOMAIN v : i \in DOMAIN b BY <1>2, <1>3, <4>1
      <4>4. Len(v) + 1 \in DOMAIN b BY <1>2, <1>3, <4>1
      <4>5. QED BY <1>3, <3>5, <4>2, <4>3, <4>4
    <3>7. QED BY <1>1, <1>3, <3>1, <3>3, <3>6 DEF Overruns
  <2>5. QED BY <2>2, <2>3, <2>4
<1>9. CASE pos = Len(input)
  <2>1. Flush BY <1>7, <1>9, StepFlush
  <2>2. CASE Closed(TrimSpace(b))
    <3>1. commands' = Append(commands, ReadCommand) BY <1>3, <2>1, <2>2 DEF Flush
    <3>2. QED BY <1>1, <1>3, <1>4, <1>6, <2>2, <3>1, CommandDiffers
  <2>3. CASE ~Closed(TrimSpace(b))
    <3>1. result' = "unexpectedEOF" BY <1>3, <2>1, <2>3 DEF Flush
    <3>2. QED BY <1>4, <3>1 DEF Rejects, Errors
  <2>4. QED BY <2>2, <2>3
<1>10. QED BY <1>8, <1>9

\* The second filler is passed over, and then the third command begins.
LEMMA SecondFillerStep ==
    ASSUME NEW kind \in Kinds, NEW v \in Values, NEW f \in Fillers,
           source = Printed(kind, v), Laid(kind, v, f), ParserType, Next,
           ReadsSecondFiller(kind, v, f)
    PROVE  ReadsSecondFiller(kind, v, f)' \/ ReadsThird(kind, v, f)'
<1>1. UNCHANGED <<source, input>> BY StepFrame
<1>2. /\ Survives(v)
      /\ result = "running" /\ commands = <<source[1], source[2]>> /\ role = Empty
      /\ AtFiller(LineEnd(kind, v, f) + 1, f)
  BY DEF ReadsSecondFiller
<1>3. PICK p \in Nat : p = LineEnd(kind, v, f) + 1
  <2>1. LineEnd(kind, v, f) + 1 \in Nat BY Places
  <2>2. QED BY <2>1
<1>4. Third(kind, v, f) = p + Len(f) BY <1>3 DEF Third
<1>5. Len(input) \in Nat /\ p + Len(f) < Len(input) BY <1>4, LaidLength, Places
<1>6. \A i \in 1..Len(f) : input[p + i] = f[i] BY <1>3 DEF Laid
<1>7. input[p + Len(f) + 1] = "SYSTEM" BY <1>4 DEF Laid
<1>8. /\ UNCHANGED <<role, commands, result>>
      /\ \/ AtFiller(p, f)'
         \/ /\ pos' = p + Len(f) + 1 /\ curr' = "name"
            /\ b' = <<input[p + Len(f) + 1]>>
  <2>1. input[p + Len(f) + 1] \in Words BY <1>7 DEF Words
  <2>2. QED BY <1>2, <1>3, <1>5, <1>6, <2>1, FillerStep
<1>9. CASE AtFiller(p, f)'
  BY <1>1, <1>2, <1>3, <1>8, <1>9 DEF ReadsSecondFiller
<1>10. CASE /\ pos' = p + Len(f) + 1 /\ curr' = "name"
            /\ b' = <<input[p + Len(f) + 1]>>
  <2>1. pos' = Third(kind, v, f) + 1 BY <1>4, <1>10
  <2>2. b' = <<"SYSTEM">> BY <1>7, <1>10
  <2>3. QED BY <1>1, <1>2, <1>8, <1>10, <2>1, <2>2 DEF ReadsThird, AtPlain
<1>11. QED BY <1>8, <1>9, <1>10

\* The third command is read, with its newline or without it.
LEMMA ThirdStep ==
    ASSUME NEW kind \in Kinds, NEW v \in Values, NEW f \in Fillers,
           source = Printed(kind, v), Laid(kind, v, f), ParserType, Next,
           ReadsThird(kind, v, f)
    PROVE  ReadsThird(kind, v, f)' \/ HasRead(kind, v, f)'
<1>1. UNCHANGED <<source, input>> BY StepFrame
<1>2. PICK p \in Nat : p = Third(kind, v, f) BY Places
<1>3. /\ Survives(v)
      /\ result = "running" /\ commands = <<source[1], source[2]>> /\ role = Empty
      /\ AtPlain(p, "SYSTEM", "system")
  BY <1>2 DEF ReadsThird
<1>4. input \in Seq(Runes) /\ Len(input) \in Nat /\ (Len(input) = p + 3 \/ Len(input) = p + 4)
  BY <1>2, LaidLength
<1>5. /\ input[p + 2] = Space /\ input[p + 3] = "x"
      /\ Len(input) = p + 4 => input[p + 4] = Newline
  BY <1>2 DEF Laid
<1>6. pos \in Nat /\ pos <= p + 3 BY <1>3 DEF AtPlain
<1>7. ASSUME commands' = Append(commands, Cmd("system", Empty, <<"x">>))
      PROVE  commands' = source'
  <2>1. PICK c, d, e : c = source[1] /\ d = source[2] /\ e = source[3] OBVIOUS
  <2>2. e = Cmd("system", Empty, <<"x">>) /\ source = <<c, d, e>> BY <2>1, SourceShape
  <2>3. Append(<<c, d>>, e) = <<c, d, e>> BY AppendOne
  <2>4. QED BY <1>1, <1>3, <1>7, <2>1, <2>2, <2>3
<1>8. CASE pos # Len(input)
  <2>1. AtRune BY <1>4, <1>6, <1>8 DEF AtRune
  <2>2. \/ AtPlain(p, "SYSTEM", "system")' /\ UNCHANGED <<role, commands, result>>
        \/ /\ pos' = p + 4 /\ curr' = "nil" /\ role' = Empty /\ result' = result
           /\ commands' = Append(commands, Cmd("system", Empty, <<"x">>))
    BY <1>3, <1>4, <1>5, <2>1, PlainStep
  <2>3. CASE AtPlain(p, "SYSTEM", "system")' /\ UNCHANGED <<role, commands, result>>
    BY <1>1, <1>2, <1>3, <2>3 DEF ReadsThird
  <2>4. CASE /\ pos' = p + 4 /\ curr' = "nil" /\ role' = Empty /\ result' = result
             /\ commands' = Append(commands, Cmd("system", Empty, <<"x">>))
    <3>1. pos' = pos + 1 BY <2>1, StepReads
    <3>2. pos' = Len(input)' BY <1>1, <1>4, <1>6, <2>1, <2>4, <3>1 DEF AtRune
    <3>3. QED BY <1>3, <1>7, <2>4, <3>2 DEF HasRead
  <2>5. QED BY <2>2, <2>3, <2>4
<1>9. CASE pos = Len(input)
  <2>1. Flush BY <1>4, <1>9, StepFlush
  <2>2. pos # p + 1 /\ pos # p + 2 BY <1>4, <1>9
  <2>3. curr = "value" /\ b = <<"x">> /\ cmd = "system" BY <1>3, <2>2 DEF AtPlain
  <2>4. Closed(TrimSpace(b)) BY <2>3, LetterRead
  <2>5. ReadCommand = Cmd("system", Empty, <<"x">>)
    BY <1>3, <2>3, LetterRead DEF ReadCommand, Cmd
  <2>6. commands' = Append(commands, ReadCommand) BY <2>1, <2>3, <2>4 DEF Flush
  <2>7. commands' = source' BY <1>7, <2>5, <2>6
  <2>8. \E i \in DOMAIN commands' : commands'[i].name = "model"
    <3>1. Len(source) = 3 /\ source[1] = Cmd("model", Empty, <<"x">>) BY SourceShape
    <3>2. source[1].name = "model" BY <3>1 DEF Cmd
    <3>3. 1 \in DOMAIN source BY DEF Printed
    <3>4. QED BY <1>1, <2>7, <3>2, <3>3
  <2>9. result' = "ok"
    <3>1. result' = IF \E i \in DOMAIN commands' : commands'[i].name = "model"
                    THEN "ok" ELSE "missingFrom"
      BY <2>1, <2>3, <2>4 DEF Flush
    <3>2. QED BY <2>8, <3>1
  <2>10. QED BY <1>3, <2>7, <2>9 DEF HasRead
<1>10. QED BY <1>8, <1>9

\* At the end of a text that was read right, ParseFile returns its commands.
LEMMA EndStep ==
    ASSUME NEW kind \in Kinds, NEW v \in Values, NEW f \in Fillers,
           source = Printed(kind, v), Laid(kind, v, f), ParserType, Next,
           HasRead(kind, v, f)
    PROVE  HasRead(kind, v, f)'
<1>1. result = "running" /\ UNCHANGED <<source, input>> BY StepFrame
<1>2. Survives(v) /\ commands = source /\ curr = "nil" /\ pos = Len(input)
  BY <1>1 DEF HasRead
<1>3. Flush BY <1>2, LaidLength, StepFlush
<1>4. commands' = commands BY <1>2, <1>3 DEF Flush
<1>5. \E i \in DOMAIN commands : commands[i].name = "model"
  <2>1. source[1] = Cmd("model", Empty, <<"x">>) BY SourceShape
  <2>2. source[1].name = "model" BY <2>1 DEF Cmd
  <2>3. 1 \in DOMAIN source BY DEF Printed
  <2>4. QED BY <1>2, <2>2, <2>3
<1>6. result' = "ok" BY <1>2, <1>3, <1>5 DEF Flush
<1>7. QED BY <1>1, <1>2, <1>4, <1>6 DEF HasRead

\* A command that has been read stays.
LEMMA DiffersStep ==
    ASSUME NEW v, ParserType, Next, Differs(v)
    PROVE  Differs(v)'
<1>1. UNCHANGED <<source, input>> BY StepFrame
<1>2. commands' = commands \/ commands' = Append(commands, ReadCommand)
  BY DEF Next, RuneRejected, Accumulate, LeaveNil, LeaveName, LeaveParameter,
         LeaveMessage, BlankInValue, LeaveValue, Flush, Fails
<1>3. CASE commands' = commands BY <1>1, <1>3 DEF Differs
<1>4. CASE commands' = Append(commands, ReadCommand)
  <2>1. PICK s, c : s = commands /\ c = ReadCommand OBVIOUS
  <2>2. s \in Seq(Commands) /\ Len(s) >= 2 /\ s[2] # source[2] /\ ~Survives(v)
    BY <2>1 DEF ParserType, Differs
  <2>3. PICK t : t = Append(s, c) OBVIOUS
  <2>4. s \in Seq(Commands \cup {c}) /\ c \in Commands \cup {c} BY <2>2, SeqMonotonic
  <2>5. Len(t) = Len(s) + 1 /\ t[2] = s[2] BY <2>2, <2>3, <2>4
  <2>6. QED BY <1>1, <1>4, <2>1, <2>2, <2>3, <2>5 DEF Differs
<1>5. QED BY <1>2, <1>3, <1>4

-----------------------------------------------------------------------------
(***************************************************************************)
(* The text                                                                *)
(***************************************************************************)

\* Three texts put together, rune by rune.
LEMMA JoinedThree ==
    ASSUME NEW p \in Seq(Runes), NEW q \in Seq(Runes), NEW r \in Seq(Runes)
    PROVE  LET x == p \o q \o r IN
           /\ x \in Seq(Runes) /\ Len(x) = Len(p) + Len(q) + Len(r)
           /\ \A i \in 1..Len(p) : x[i] = p[i]
           /\ \A i \in 1..Len(q) : x[Len(p) + i] = q[i]
           /\ \A i \in 1..Len(r) : x[Len(p) + Len(q) + i] = r[i]
<1>1. PICK s : s = p \o q OBVIOUS
<1>2. /\ s \in Seq(Runes) /\ Len(s) = Len(p) + Len(q)
      /\ \A i \in 1..Len(p) : s[i] = p[i]
      /\ \A i \in 1..Len(q) : s[Len(p) + i] = q[i]
  BY <1>1, Joined
<1>3. PICK x : x = s \o r OBVIOUS
<1>4. /\ x \in Seq(Runes) /\ Len(x) = Len(s) + Len(r)
      /\ \A i \in 1..Len(s) : x[i] = s[i]
      /\ \A i \in 1..Len(r) : x[Len(s) + i] = r[i]
  BY <1>2, <1>3, Joined
<1>5. Len(p) \in Nat /\ Len(q) \in Nat /\ Len(r) \in Nat OBVIOUS
<1>6. \A i \in 1..Len(p) : x[i] = p[i]
  <2>1. \A i \in 1..Len(p) : i \in 1..Len(s) BY <1>2, <1>5
  <2>2. QED BY <1>2, <1>4, <2>1
<1>7. \A i \in 1..Len(q) : x[Len(p) + i] = q[i]
  <2>1. \A i \in 1..Len(q) : Len(p) + i \in 1..Len(s) BY <1>2, <1>5
  <2>2. QED BY <1>2, <1>4, <2>1
<1>8. QED BY <1>1, <1>2, <1>3, <1>4, <1>6, <1>7

\* What the first and the third command are printed as.
LEMMA PlainText ==
    ASSUME NEW w \in Words
    PROVE  LET x == <<w, Space>> \o <<"x">> \o <<Newline>> IN
           /\ x \in Seq(Runes) /\ Len(x) = 4
           /\ x[1] = w /\ x[2] = Space /\ x[3] = "x" /\ x[4] = Newline
<1>1. PICK p, q, r : p = <<w, Space>> /\ q = <<"x">> /\ r = <<Newline>> OBVIOUS
<1>2. w \in Runes /\ Space \in Runes /\ "x" \in Runes /\ Newline \in Runes
  BY DEF Runes, Letters, Spaces, Newlines
<1>3. p \in Seq(Runes) /\ Len(p) = 2 /\ p[1] = w /\ p[2] = Space BY <1>1, <1>2
<1>4. q \in Seq(Runes) /\ Len(q) = 1 /\ q[1] = "x" BY <1>1, <1>2
<1>5. r \in Seq(Runes) /\ Len(r) = 1 /\ r[1] = Newline BY <1>1, <1>2
<1>6. PICK x : x = p \o q \o r OBVIOUS
<1>7. /\ x \in Seq(Runes) /\ Len(x) = Len(p) + Len(q) + Len(r)
      /\ \A i \in 1..Len(p) : x[i] = p[i]
      /\ \A i \in 1..Len(q) : x[Len(p) + i] = q[i]
      /\ \A i \in 1..Len(r) : x[Len(p) + Len(q) + i] = r[i]
  <2>1. p \in Seq(Runes) /\ q \in Seq(Runes) /\ r \in Seq(Runes) BY <1>3, <1>4, <1>5
  <2>2. QED BY <1>6, <2>1, JoinedThree
<1>8. Len(x) = 4 BY <1>3, <1>4, <1>5, <1>7
<1>9. x[1] = w /\ x[2] = Space BY <1>3, <1>7
<1>10. x[3] = "x"
  <2>1. 1 \in 1..Len(q) /\ Len(p) + 1 = 3 BY <1>3, <1>4
  <2>2. QED BY <1>4, <1>7, <2>1
<1>11. x[4] = Newline
  <2>1. 1 \in 1..Len(r) /\ Len(p) + Len(q) + 1 = 4 BY <1>3, <1>4, <1>5
  <2>2. QED BY <1>5, <1>7, <2>1
<1>12. QED BY <1>1, <1>6, <1>7, <1>8, <1>9, <1>10, <1>11

\* "x" is printed as it stands.
LEMMA LetterPrinted == quote(<<"x">>) = <<"x">>
<1>1. PICK s : s = <<"x">> OBVIOUS
<1>2. s \in Seq(Runes) /\ Len(s) = 1 /\ s[1] = "x" BY <1>1 DEF Runes, Letters
<1>3. Space \in Runes BY DEF Runes, Spaces
<1>4. "x" # Newline /\ "x" # Space BY DEF Newline, Space
<1>5. ~Contains(s, Newline) BY <1>2, <1>4 DEF Contains
<1>6. ~Starts(s, <<Space>>) BY <1>2, <1>3, <1>4, StartsWith
<1>7. ~Ends(s, <<Space>>) BY <1>2, <1>3, <1>4, StartsWith
<1>8. quote(s) = s BY <1>5, <1>6, <1>7 DEF quote, NeedsQuotes
<1>9. QED BY <1>1, <1>8

\* How each of the commands is printed.
LEMMA CommandTexts ==
    ASSUME NEW kind \in Kinds, NEW v, source = Printed(kind, v)
    PROVE  /\ CommandString(source[1]) = <<"FROM", Space>> \o <<"x">> \o <<Newline>>
           /\ CommandString(source[2]) = HeadOf(kind) \o quote(v) \o <<Newline>>
           /\ CommandString(source[3]) = <<"SYSTEM", Space>> \o <<"x">> \o <<Newline>>
<1>1. CommandString(source[1]) = <<"FROM", Space>> \o <<"x">> \o <<Newline>>
  <2>1. PICK c : c = source[1] OBVIOUS
  <2>2. c = Cmd("model", Empty, <<"x">>) BY <2>1, SourceShape
  <2>3. c.name = "model" /\ c.args = <<"x">> BY <2>2 DEF Cmd
  <2>4. CommandString(c) = <<"FROM", Space>> \o c.args \o <<Newline>>
    BY <2>3 DEF CommandString
  <2>5. QED BY <2>1, <2>3, <2>4
<1>2. CommandString(source[3]) = <<"SYSTEM", Space>> \o <<"x">> \o <<Newline>>
  <2>1. PICK c : c = source[3] OBVIOUS
  <2>2. c = Cmd("system", Empty, <<"x">>) BY <2>1, SourceShape
  <2>3. c.name = "system" /\ c.args = <<"x">> BY <2>2 DEF Cmd
  <2>4. CommandString(c) = <<"SYSTEM", Space>> \o quote(c.args) \o <<Newline>>
    BY <2>3 DEF CommandString
  <2>5. QED BY <2>1, <2>3, <2>4, LetterPrinted
<1>3. CommandString(source[2]) = HeadOf(kind) \o quote(v) \o <<Newline>>
  <2>1. PICK c : c = source[2] OBVIOUS
  <2>2. c = Cmd(kind, RoleOf(kind), v) BY <2>1, SourceShape
  <2>3. c.name = kind /\ c.role = RoleOf(kind) /\ c.args = v BY <2>2 DEF Cmd
  <2>4. CASE kind = "system"
    <3>1. CommandString(c) = <<"SYSTEM", Space>> \o quote(c.args) \o <<Newline>>
      BY <2>3, <2>4 DEF CommandString
    <3>2. QED BY <2>1, <2>3, <2>4, <3>1 DEF HeadOf
  <2>5. CASE kind = "message"
    <3>1. c.role = "user" BY <2>3, <2>5 DEF RoleOf
    <3>2. CommandString(c) = <<"MESSAGE", Space, c.role, Space>> \o quote(c.args) \o <<Newline>>
      BY <2>3, <2>5 DEF CommandString
    <3>3. QED BY <2>1, <2>3, <2>5, <3>1, <3>2 DEF HeadOf
  <2>6. CASE kind = "stop"
    <3>1. CommandString(c) = <<"PARAMETER", Space, c.name, Space>> \o quote(c.args) \o <<Newline>>
      BY <2>3, <2>6 DEF CommandString
    <3>2. QED BY <2>1, <2>3, <2>6, <3>1 DEF HeadOf
  <2>7. QED BY <2>4, <2>5, <2>6 DEF Kinds
<1>4. QED BY <1>1, <1>2, <1>3

\* The text that was printed is laid out as Laid says.
LEMMA TextLaid ==
    ASSUME NEW kind \in Kinds, NEW v \in Values, NEW f \in Fillers,
           source = Printed(kind, v),
           input \in {TextOf(source, f), SubSeq(TextOf(source, f), 1, Len(TextOf(source, f)) - 1)}
    PROVE  Laid(kind, v, f)
<1>1. PICK c1, c2, c3 : /\ c1 = CommandString(source[1]) /\ c2 = CommandString(source[2])
                        /\ c3 = CommandString(source[3])
  OBVIOUS
<1>2. /\ c1 \in Seq(Runes) /\ Len(c1) = 4
      /\ c1[1] = "FROM" /\ c1[2] = Space /\ c1[3] = "x" /\ c1[4] = Newline
  <2>1. "FROM" \in Words BY DEF Words
  <2>2. QED BY <1>1, <2>1, CommandTexts, PlainText
<1>3. /\ c3 \in Seq(Runes) /\ Len(c3) = 4
      /\ c3[1] = "SYSTEM" /\ c3[2] = Space /\ c3[3] = "x" /\ c3[4] = Newline
  <2>1. "SYSTEM" \in Words BY DEF Words
  <2>2. QED BY <1>1, <2>1, CommandTexts, PlainText
<1>4. PICK h, w, e : h = HeadOf(kind) /\ w = quote(v) /\ e = <<Newline>> OBVIOUS
<1>5. h \in Seq(Runes) /\ w \in Seq(Runes) /\ f \in Seq(Runes) BY <1>4, HeadShape, Places
<1>6. e \in Seq(Runes) /\ Len(e) = 1 /\ e[1] = Newline BY <1>4 DEF Runes, Newlines
<1>7. c2 = h \o w \o e BY <1>1, <1>4, CommandTexts
<1>8. /\ c2 \in Seq(Runes) /\ Len(c2) = Len(h) + Len(w) + 1
      /\ \A i \in 1..Len(h) : c2[i] = h[i]
      /\ \A i \in 1..Len(w) : c2[Len(h) + i] = w[i]
      /\ c2[Len(h) + Len(w) + 1] = Newline
  <2>1. e \in Seq(Runes) BY <1>6
  <2>2. /\ c2 \in Seq(Runes) /\ Len(c2) = Len(h) + Len(w) + Len(e)
        /\ \A i \in 1..Len(h) : c2[i] = h[i]
        /\ \A i \in 1..Len(w) : c2[Len(h) + i] = w[i]
        /\ \A i \in 1..Len(e) : c2[Len(h) + Len(w) + i] = e[i]
    BY <1>5, <1>7, <2>1, JoinedThree
  <2>3. 1 \in 1..Len(e) BY <1>6
  <2>4. QED BY <1>6, <2>2, <2>3
<1>9. PICK a, g, n : a = Len(f) /\ g = Len(h) /\ n = Len(w) OBVIOUS
<1>10. a \in Nat /\ g \in Nat /\ n \in Nat BY <1>5, <1>9
<1>11. PICK y : y = c1 \o f \o c2 OBVIOUS
<1>12. /\ y \in Seq(Runes) /\ Len(y) = 4 + a + (g + n + 1)
       /\ \A i \in 1..4 : y[i] = c1[i]
       /\ \A i \in 1..a : y[4 + i] = f[i]
       /\ \A i \in 1..(g + n + 1) : y[4 + a + i] = c2[i]
  <2>1. c1 \in Seq(Runes) /\ f \in Seq(Runes) /\ c2 \in Seq(Runes) BY <1>2, <1>5, <1>8
  <2>2. /\ y \in Seq(Runes) /\ Len(y) = Len(c1) + Len(f) + Len(c2)
        /\ \A i \in 1..Len(c1) : y[i] = c1[i]
        /\ \A i \in 1..Len(f) : y[Len(c1) + i] = f[i]
        /\ \A i \in 1..Len(c2) : y[Len(c1) + Len(f) + i] = c2[i]
    BY <1>11, <2>1, JoinedThree
  <2>3. Len(c1) = 4 /\ Len(f) = a /\ Len(c2) = g + n + 1 BY <1>2, <1>8, <1>9
  <2>4. QED BY <2>2, <2>3
<1>13. PICK x : x = y \o f \o c3 OBVIOUS
<1>14. PICK m \in Nat : m = 4 + a + (g + n + 1)
  <2>1. 4 + a + (g + n + 1) \in Nat BY <1>10
  <2>2. QED BY <2>1
<1>15. /\ x \in Seq(Runes) /\ Len(x) = m + a + 4
       /\ \A i \in 1..m : x[i] = y[i]
       /\ \A i \in 1..a : x[m + i] = f[i]
       /\ \A i \in 1..4 : x[m + a + i] = c3[i]
  <2>1. y \in Seq(Runes) /\ f \in Seq(Runes) /\ c3 \in Seq(Runes) BY <1>3, <1>5, <1>12
  <2>2. /\ x \in Seq(Runes) /\ Len(x) = Len(y) + Len(f) + Len(c3)
        /\ \A i \in 1..Len(y) : x[i] = y[i]
        /\ \A i \in 1..Len(f) : x[Len(y) + i] = f[i]
        /\ \A i \in 1..Len(c3) : x[Len(y) + Len(f) + i] = c3[i]
    BY <1>13, <2>1, JoinedThree
  <2>3. Len(y) = m /\ Len(f) = a /\ Len(c3) = 4 BY <1>3, <1>9, <1>12, <1>14
  <2>4. QED BY <2>2, <2>3
<1>16. TextOf(source, f) = x BY <1>1, <1>11, <1>13 DEF TextOf
\* Cutting off the last rune changes none of the others.
<1>17. /\ input \in Seq(Runes) /\ Len(input) \in {m + a + 3, m + a + 4}
       /\ \A i \in 1..(m + a + 3) : input[i] = x[i]
       /\ Len(input) = m + a + 4 => input[m + a + 4] = x[m + a + 4]
  <2>1. CASE input = x
    <3>1. \A i \in 1..(m + a + 3) : input[i] = x[i] BY <2>1
    <3>2. QED BY <1>15, <2>1, <3>1
  <2>2. CASE input = SubSeq(x, 1, Len(x) - 1)
    <3>1. PICK z : z = Len(x) - 1 OBVIOUS
    <3>2. z \in 0..Len(x) /\ z = m + a + 3 BY <1>10, <1>15, <3>1
    <3>3. /\ SubSeq(x, 1, z) \in Seq(Runes) /\ Len(SubSeq(x, 1, z)) = z
          /\ \A i \in 1..z : SubSeq(x, 1, z)[i] = x[i]
      BY <1>15, <3>2, Beginning
    <3>4. m + a + 3 # m + a + 4 BY <1>10
    <3>5. QED BY <2>2, <3>1, <3>2, <3>3, <3>4
  <2>3. QED BY <1>16, <2>1, <2>2
<1>18. /\ Second(f) = 4 + a /\ ValueAt(kind, f) = 4 + a + g
       /\ LineEnd(kind, v, f) = 4 + a + g + n
       /\ LineEnd(kind, v, f) + 1 = m /\ Third(kind, v, f) = m + a
  <2>1. Second(f) = 4 + a BY <1>9 DEF Second
  <2>2. ValueAt(kind, f) = 4 + a + g BY <1>4, <1>9, <2>1 DEF ValueAt
  <2>3. LineEnd(kind, v, f) = 4 + a + g + n BY <1>4, <1>9, <2>2 DEF LineEnd
  <2>4. LineEnd(kind, v, f) + 1 = m BY <1>10, <1>14, <2>3
  <2>5. Third(kind, v, f) = m + a BY <1>9, <2>4 DEF Third
  <2>6. QED BY <2>1, <2>2, <2>3, <2>4, <2>5
<1>19. \A i \in 1..m : input[i] = y[i]
  <2>1. \A i \in 1..m : i \in 1..(m + a + 3) BY <1>10
  <2>2. QED BY <1>15, <1>17, <2>1
<1>20. input[1] = "FROM" /\ input[2] = Space /\ input[3] = "x" /\ input[4] = Newline
  <2>1. 1 \in 1..m /\ 2 \in 1..m /\ 3 \in 1..m /\ 4 \in 1..m BY <1>10, <1>14
  <2>2. y[1] = c1[1] /\ y[2] = c1[2] /\ y[3] = c1[3] /\ y[4] = c1[4] BY <1>12
  <2>3. QED BY <1>2, <1>19, <2>1, <2>2
<1>21. \A i \in 1..Len(f) : input[4 + i] = f[i]
  <2>1. \A i \in 1..a : 4 + i \in 1..m BY <1>10, <1>14
  <2>2. QED BY <1>9, <1>12, <1>19, <2>1
\* The second command.
<1>22. \A i \in 1..(g + n + 1) : input[4 + a + i] = c2[i]
  <2>1. \A i \in 1..(g + n + 1) : 4 + a + i \in 1..m BY <1>10, <1>14
  <2>2. QED BY <1>12, <1>19, <2>1
<1>23. \A i \in 1..Len(HeadOf(kind)) : input[Second(f) + i] = HeadOf(kind)[i]
  <2>1. \A i \in 1..g : i \in 1..(g + n + 1) BY <1>10
  <2>2. \A i \in 1..g : c2[i] = h[i] BY <1>8, <1>9
  <2>3. \A i \in 1..g : input[4 + a + i] = h[i] BY <1>22, <2>1, <2>2
  <2>4. QED BY <1>4, <1>9, <1>18, <2>3
<1>24. \A i \in 1..Len(quote(v)) : input[ValueAt(kind, f) + i] = quote(v)[i]
  <2>1. \A i \in 1..n : g + i \in 1..(g + n + 1) /\ 4 + a + (g + i) = 4 + a + g + i
    BY <1>10
  <2>2. \A i \in 1..n : c2[g + i] = w[i] BY <1>8, <1>9
  <2>3. \A i \in 1..n : input[4 + a + g + i] = w[i]
    <3>1. ASSUME NEW i \in 1..n PROVE input[4 + a + g + i] = w[i]
      <4>1. input[4 + a + (g + i)] = c2[g + i] BY <1>22, <2>1
      <4>2. QED BY <2>1, <2>2, <4>1
    <3>2. QED BY <3>1
  <2>4. QED BY <1>4, <1>9, <1>18, <2>3
<1>25. input[LineEnd(kind, v, f) + 1] = Newline
  <2>1. g + n + 1 \in 1..(g + n + 1) /\ 4 + a + (g + n + 1) = 4 + a + g + n + 1 BY <1>10
  <2>2. input[4 + a + (g + n + 1)] = c2[g + n + 1] BY <1>22, <2>1
  <2>3. c2[g + n + 1] = Newline BY <1>8, <1>9
  <2>4. QED BY <1>18, <2>1, <2>2, <2>3
\* The second filler and the third command.
<1>26. \A i \in 1..Len(f) : input[LineEnd(kind, v, f) + 1 + i] = f[i]
  <2>1. \A i \in 1..a : m + i \in 1..(m + a + 3) BY <1>10
  <2>2. \A i \in 1..a : input[m + i] = f[i] BY <1>15, <1>17, <2>1
  <2>3. QED BY <1>9, <1>18, <2>2
<1>27. /\ input[m + a + 1] = "SYSTEM" /\ input[m + a + 2] = Space /\ input[m + a + 3] = "x"
       /\ Len(input) = m + a + 4 => input[m + a + 4] = Newline
  <2>1. /\ m + a + 1 \in 1..(m + a + 3) /\ m + a + 2 \in 1..(m + a + 3)
        /\ m + a + 3 \in 1..(m + a + 3)
    BY <1>10
  <2>2. /\ x[m + a + 1] = c3[1] /\ x[m + a + 2] = c3[2]
        /\ x[m + a + 3] = c3[3] /\ x[m + a + 4] = c3[4]
    BY <1>15
  <2>3. QED BY <1>3, <1>17, <2>1, <2>2
<1>28. input \in Seq(Runes) /\ Len(input) \in {Third(kind, v, f) + 3, Third(kind, v, f) + 4}
  BY <1>17, <1>18
<1>29. /\ input[Third(kind, v, f) + 1] = "SYSTEM" /\ input[Third(kind, v, f) + 2] = Space
       /\ input[Third(kind, v, f) + 3] = "x"
       /\ Len(input) = Third(kind, v, f) + 4 => input[Third(kind, v, f) + 4] = Newline
  BY <1>18, <1>27
<1>30. QED BY <1>20, <1>21, <1>23, <1>24, <1>25, <1>26, <1>28, <1>29 DEF Laid

-----------------------------------------------------------------------------
(***************************************************************************)
(* The theorems                                                            *)
(***************************************************************************)

\* The parser starts before the first command of a text that was printed.
LEMMA ParserInit == Init => ParserInv
<1> SUFFICES ASSUME Init PROVE ParserInv OBVIOUS
<1>1. PICK kind \in Kinds, v \in Values, f \in Fillers :
         /\ source = Printed(kind, v)
         /\ input \in {TextOf(source, f), SubSeq(TextOf(source, f), 1, Len(TextOf(source, f)) - 1)}
  BY DEF Init, Kinds
<1>2. Laid(kind, v, f) BY <1>1, TextLaid
<1>3. /\ pos = 0 /\ curr = "nil" /\ b = <<>> /\ cmd = Empty /\ role = Empty
      /\ commands = <<>> /\ result = "running"
  BY DEF Init
<1>4. ReadsFirst BY <1>3 DEF ReadsFirst
<1>5. ParserType
  <2>1. pos \in 0..Len(input) BY <1>2, <1>3, LaidLength
  <2>2. <<>> \in Texts /\ <<>> \in Seq(Commands) BY TextGrows
  <2>3. QED BY <1>3, <2>1, <2>2 DEF ParserType, CommandNames
<1>6. QED BY <1>1, <1>2, <1>4, <1>5 DEF ParserInv, Reads, Stage

\* Each step takes the parser from one stage to the same or the next.
LEMMA ParserNext == ParserInv /\ [Next]_vars => ParserInv'
<1> SUFFICES ASSUME ParserInv, [Next]_vars PROVE ParserInv' OBVIOUS
<1>1. ParserType BY DEF ParserInv
<1>2. PICK kind \in Kinds, v \in Values, f \in Fillers : Reads(kind, v, f)
  BY DEF ParserInv
<1>3. source = Printed(kind, v) /\ Laid(kind, v, f) /\ Stage(kind, v, f)
  BY <1>2 DEF Reads
<1>4. UNCHANGED <<source, input>> BY StepFrame DEF vars
<1>5. ParserType' BY <1>1, <1>3, LaidLength, ParserTypeNext
<1>6. source' = Printed(kind, v) /\ Laid(kind, v, f)' BY <1>3, <1>4 DEF Laid
<1>7. Stage(kind, v, f)'
  <2>1. CASE UNCHANGED vars
    BY <1>3, <2>1 DEF vars, Stage, ReadsFirst, ReadsFirstFiller, ReadsHead, ReadsValue,
                      Overruns, ReadsSecondFiller, ReadsThird, HasRead, Differs, Rejects,
                      Loses, AtFiller, AtPlain
  <2>2. CASE Next
    <3>0. CASE Loses(v) BY <3>0 DEF Stage
    <3>1. CASE ReadsFirst BY <1>1, <1>3, <2>2, <3>1, FirstStep DEF Stage
    <3>2. CASE ReadsFirstFiller(f) BY <1>1, <1>3, <2>2, <3>2, FirstFillerStep DEF Stage
    <3>3. CASE ReadsHead(kind, f) BY <1>1, <1>3, <2>2, <3>3, HeadStep DEF Stage
    <3>4. CASE ~Loses(v) /\ ReadsValue(kind, v, f)
      BY <1>1, <1>3, <2>2, <3>4, ValueStep DEF Stage
    <3>5. CASE Overruns(v) BY <1>1, <1>3, <2>2, <3>5, OverrunStep DEF Stage
    <3>6. CASE ReadsSecondFiller(kind, v, f)
      BY <1>1, <1>3, <2>2, <3>6, SecondFillerStep DEF Stage
    <3>7. CASE ReadsThird(kind, v, f) BY <1>1, <1>3, <2>2, <3>7, ThirdStep DEF Stage
    <3>8. CASE HasRead(kind, v, f) BY <1>1, <1>3, <2>2, <3>8, EndStep DEF Stage
    <3>9. CASE Differs(v) BY <1>1, <2>2, <3>9, DiffersStep DEF Stage
    <3>10. CASE Rejects(v)
      <4>1. result = "running" BY <2>2, StepFrame
      <4>2. QED BY <3>10, <4>1 DEF Rejects, Errors
    <3>11. QED
      BY <1>3, <3>0, <3>1, <3>2, <3>3, <3>4, <3>5, <3>6, <3>7, <3>8, <3>9, <3>10 DEF Stage
  <2>3. QED BY <2>1, <2>2
<1>8. QED BY <1>5, <1>6, <1>7 DEF ParserInv, Reads

\* ParserInv is an invariant of ParseFile.
THEOREM ParserInvariant == Spec => []ParserInv
<1>1. Init => ParserInv BY ParserInit
<1>2. ParserInv /\ [Next]_vars => ParserInv' BY ParserNext
<1>3. QED BY <1>1, <1>2, PTL DEF Spec

\* Whatever the value and the fillers are, a Modelfile that is printed and
\* read again has the commands it had exactly when its value survives.
THEOREM PrintedIsRead == Spec => []RoundTrip
<1>1. ParserInv => RoundTrip
  <2> SUFFICES ASSUME ParserInv, result # "running"
               PROVE  Survives(source[2].args) <=> result = "ok" /\ commands = source
    BY DEF RoundTrip
  <2>1. PICK kind \in Kinds, v \in Values, f \in Fillers : Reads(kind, v, f)
    BY DEF ParserInv
  <2>2. source = Printed(kind, v) /\ Stage(kind, v, f) BY <2>1 DEF Reads
  <2>3. source[2].args = v
    <3>1. source[2] = Cmd(kind, RoleOf(kind), v) BY <2>2, SourceShape
    <3>2. QED BY <3>1 DEF Cmd
  <2>4. HasRead(kind, v, f) \/ Differs(v) \/ Rejects(v) \/ Loses(v)
    BY <2>2 DEF Stage, ReadsFirst, ReadsFirstFiller, ReadsHead, ReadsValue, Overruns,
                ReadsSecondFiller, ReadsThird
  <2>5. CASE HasRead(kind, v, f) BY <2>3, <2>5 DEF HasRead
  <2>6. CASE Differs(v) BY <2>3, <2>6 DEF Differs
  <2>7. CASE Rejects(v) BY <2>3, <2>7 DEF Rejects, Errors
  <2>8. CASE Loses(v)
    <3>1. ~Survives(v) BY <2>8 DEF Loses, Survives
    <3>2. ASSUME commands = source PROVE FALSE
      <4>1. commands \in Seq(Commands) BY DEF ParserInv, ParserType
      <4>2. Len(commands) = 3 BY <2>2, <3>2, SourceShape
      <4>3. commands[2] \in Commands
        <5>1. 2 \in 1..Len(commands) BY <4>2
        <5>2. QED BY <4>1, <5>1, ElementOfSeq
      <4>4. v \in Texts BY <2>3, <3>2, <4>3 DEF Commands
      <4>5. QED BY <2>8, <4>4 DEF Loses, Texts
    <3>3. QED BY <2>3, <3>1, <3>2
  <2>9. QED BY <2>4, <2>5, <2>6, <2>7, <2>8
<1>2. QED BY <1>1, ParserInvariant, PTL

\* The first elements of a sequence of three.
LEMMA FirstOfThree ==
    ASSUME NEW S, NEW s \in Seq(S), Len(s) = 3
    PROVE  /\ SubSeq(s, 1, 0) = <<>> /\ SubSeq(s, 1, 1) = <<s[1]>>
           /\ SubSeq(s, 1, 2) = <<s[1], s[2]>> /\ SubSeq(s, 1, 3) = s
<1>1. PICK c, d, e : c = s[1] /\ d = s[2] /\ e = s[3] OBVIOUS
<1>2. /\ s \in Seq(S) /\ Len(s) = 3 /\ s[1] = c /\ s[2] = d /\ s[3] = e
      /\ c \in S /\ d \in S /\ e \in S
  <2>1. \A i \in 1..3 : s[i] \in S BY ElementOfSeq
  <2>2. s[1] \in S /\ s[2] \in S /\ s[3] \in S BY <2>1
  <2>3. QED BY <1>1, <2>2
<1>3. SubSeq(s, 1, 0) = <<>> BY SubSeqEmpty
<1>4. SubSeq(s, 1, 1) = <<c>>
  <2>1. PICK t, u : t = SubSeq(s, 1, 1) /\ u = <<c>> OBVIOUS
  <2>2. \A i \in 1..1 : s[i] \in S BY <1>2
  <2>3. t \in Seq(S) /\ Len(t) = 1 /\ \A i \in 1..1 : t[i] = s[i]
    BY <2>1, <2>2, SubSeqProperties
  <2>4. u \in Seq(S) /\ Len(u) = 1 /\ u[1] = c BY <1>2, <2>1
  <2>5. \A i \in 1..Len(t) : t[i] = u[i] BY <1>2, <2>3, <2>4
  <2>6. QED BY <2>1, <2>3, <2>4, <2>5, SeqEqual
<1>5. SubSeq(s, 1, 2) = <<c, d>>
  <2>1. PICK t, u : t = SubSeq(s, 1, 2) /\ u = <<c, d>> OBVIOUS
  <2>2. \A i \in 1..2 : s[i] \in S BY <1>2
  <2>3. t \in Seq(S) /\ Len(t) = 2 /\ \A i \in 1..2 : t[i] = s[i]
    BY <2>1, <2>2, SubSeqProperties
  <2>4. u \in Seq(S) /\ Len(u) = 2 /\ u[1] = c /\ u[2] = d BY <1>2, <2>1
  <2>5. \A i \in 1..Len(t) : t[i] = u[i] BY <1>2, <2>3, <2>4
  <2>6. QED BY <2>1, <2>3, <2>4, <2>5, SeqEqual
<1>6. SubSeq(s, 1, 3) = s BY <1>2, SubSeqFull
<1>7. QED BY <1>2, <1>3, <1>4, <1>5, <1>6

\* While it reads a file that will be read right, ParseFile has read the
\* first commands of it, and it does not fail.
THEOREM ReadInOrder == Spec => []ReadsInOrder
<1>1. ParserInv => ReadsInOrder
  <2> SUFFICES ASSUME ParserInv, Survives(source[2].args)
               PROVE  /\ result \in {"running", "ok"}
                      /\ Len(commands) <= 3 /\ commands = SubSeq(source, 1, Len(commands))
    BY DEF ReadsInOrder
  <2>1. PICK kind \in Kinds, v \in Values, f \in Fillers : Reads(kind, v, f)
    BY DEF ParserInv
  <2>2. source = Printed(kind, v) /\ Stage(kind, v, f) BY <2>1 DEF Reads
  <2>3. Survives(v)
    <3>1. source[2] = Cmd(kind, RoleOf(kind), v) BY <2>2, SourceShape
    <3>2. QED BY <3>1 DEF Cmd
  <2>4. ~Overruns(v)
    <3>1. v \in Seq(Runes) BY ValuesAssumption
    <3>2. ~NeedsQuotes(v) => Closed(TrimSpace(v)) BY <2>3, <3>1, PlainSurvives
    <3>3. QED BY <3>2 DEF Overruns
  <2>5. /\ result \in {"running", "ok"}
        /\ \/ commands = <<>> \/ commands = <<source[1]>>
           \/ commands = <<source[1], source[2]>> \/ commands = source
    BY <2>2, <2>3, <2>4
       DEF Stage, ReadsFirst, ReadsFirstFiller, ReadsHead, ReadsValue, ReadsSecondFiller,
           ReadsThird, HasRead, Differs, Rejects, Loses, Survives
  <2>6. PICK S : source \in Seq(S) /\ Len(source) = 3
    <3>1. PICK c, d, e, s : /\ c = source[1] /\ d = source[2] /\ e = source[3]
                            /\ s = <<c, d, e>> /\ s = source
      BY <2>2, SourceShape
    <3>2. s \in Seq({c, d, e}) /\ Len(s) = 3
      <4>1. s = <<c, d, e>> BY <3>1
      <4>2. QED BY <4>1
    <3>3. QED BY <3>1, <3>2
  <2>7. /\ SubSeq(source, 1, 0) = <<>> /\ SubSeq(source, 1, 1) = <<source[1]>>
        /\ SubSeq(source, 1, 2) = <<source[1], source[2]>> /\ SubSeq(source, 1, 3) = source
    BY <2>6, FirstOfThree
  <2>8. CASE commands = <<>> BY <2>5, <2>6, <2>7, <2>8
  <2>9. CASE commands = <<source[1]>>
    <3>1. Len(commands) = 1 BY <2>9
    <3>2. QED BY <2>5, <2>6, <2>7, <2>9, <3>1
  <2>10. CASE commands = <<source[1], source[2]>>
    <3>1. Len(commands) = 2 BY <2>10
    <3>2. QED BY <2>5, <2>6, <2>7, <2>10, <3>1
  <2>11. CASE commands = source
    <3>1. Len(commands) = 3 BY <2>6, <2>11
    <3>2. SubSeq(source, 1, 3) = commands BY <2>7, <2>11
    <3>3. result \in {"running", "ok"} BY <2>5
    <3>4. QED BY <3>1, <3>2, <3>3
  <2>12. QED BY <2>5, <2>8, <2>9, <2>10, <2>11
<1>2. QED BY <1>1, ParserInvariant, PTL
=============================================================================

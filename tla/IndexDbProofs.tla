---------------------------- MODULE IndexDbProofs ----------------------------
(* Proofs about IndexDb, for files of any length.                          *)
EXTENDS IndexDb, WellFoundedInduction, TLAPS

(***************************************************************************)
(* A non-empty set of natural numbers has a least element.  The library    *)
(* says so of predicates, which the provers cannot instantiate; said of    *)
(* sets it follows from the well-foundedness of "less than".               *)
(***************************************************************************)
LEMMA LeastNatural ==
  ASSUME NEW S \in SUBSET Nat, S # {}
  PROVE  \E m \in S : \A k \in S : m <= k
<1> DEFINE Less == OpToRel(<, Nat)
<1>1. IsWellFoundedOn(Less, Nat)
  BY NatLessThanWellFounded
<1>2. \A j, k \in Nat : <<j, k>> \in Less <=> j < k
  BY DEF OpToRel
<1> HIDE DEF Less
<1>3. PICK m \in S : \A k \in S : ~(<<k, m>> \in Less)
  BY <1>1, WFMin, Zenon
<1>4. ASSUME NEW k \in S PROVE m <= k
  <2>1. k \in Nat /\ m \in Nat
    OBVIOUS
  <2>2. ~(<<k, m>> \in Less)
    BY <1>3, Zenon
  <2>3. ~(k < m)
    BY <2>1, <2>2, <1>2, Zenon
  <2>4. QED
    BY <2>1, <2>3
<1>5. QED
  BY <1>4

\* getline stops at the first newline from where it starts, or at the end.
LEMMA LineEndIsFirstNewline ==
  ASSUME newline \in Seq(BOOLEAN), at \in 1 .. Size + 1
  PROVE  /\ LineEnd \in at .. Size + 1
         /\ LineEnd = Size + 1 \/ newline[LineEnd]
         /\ \A i \in at .. LineEnd - 1 : ~newline[i]
<1> DEFINE Stops == {e \in at .. Size + 1 : e = Size + 1 \/ newline[e]}
<1>1. Size \in Nat /\ Stops \in SUBSET Nat /\ Size + 1 \in Stops
  BY DEF Size
<1>2. PICK e \in Stops : \A k \in Stops : e <= k
  BY <1>1, LeastNatural
<1>3. \A i \in at .. e - 1 : ~newline[i]
  BY <1>1, <1>2
<1>4. e \in at .. Size + 1 /\ (e = Size + 1 \/ newline[e])
  BY <1>2
<1> HIDE DEF Stops
<1>5. QED
  BY <1>3, <1>4 DEF LineEnd

-----------------------------------------------------------------------------
(* What the operators on text do.                                          *)

LEMMA PositionsRun ==
  ASSUME NEW from \in Nat \ {0}, NEW to \in Nat, from <= to + 1
  PROVE  /\ Positions(from, to) \in Seq(from .. to)
         /\ Chars(Positions(from, to)) = from .. to
         /\ Rising(Positions(from, to))
         /\ Positions(from, to) = <<>> <=> to < from
<1> DEFINE s == Positions(from, to)
<1>1. /\ DOMAIN s = 1 .. to - from + 1
      /\ \A i \in DOMAIN s : s[i] = from + i - 1
  BY DEF Positions
<1>2. s \in Seq(from .. to) /\ Len(s) = to - from + 1
  BY DEF Positions
<1>3. Chars(s) = from .. to
  <2>1. ASSUME NEW c \in from .. to PROVE c \in Chars(s)
    <3>1. c - from + 1 \in DOMAIN s /\ s[c - from + 1] = c
      BY <1>1
    <3>2. QED
      BY <3>1 DEF Chars, ToSet, Join
  <2>2. ASSUME NEW c \in Chars(s) PROVE c \in from .. to
    BY <1>1 DEF Chars, ToSet
  <2>3. QED
    BY <2>1, <2>2
<1>4. Rising(s)
  BY <1>1 DEF Rising
<1>5. s = <<>> <=> to < from
  BY <1>2
<1>6. QED
  BY <1>2, <1>3, <1>4, <1>5

LEMMA EmptyHasNoChars == Chars(<<>>) = {} /\ Rising(<<>>)
BY DEF Chars, ToSet, Rising

\* Two lines joined by a newline.
LEMMA JoinedLines ==
  ASSUME NEW S \in SUBSET Nat, Join \in S, NEW s \in Seq(S), NEW t \in Seq(S)
  PROVE  /\ s \o <<Join>> \o t \in Seq(S)
         /\ s \o <<Join>> \o t # <<>>
         /\ Chars(s \o <<Join>> \o t) = Chars(s) \cup Chars(t)
         /\ Rising(s) /\ Rising(t) /\ Precedes(s, t) => Rising(s \o <<Join>> \o t)
<1> DEFINE u == s \o <<Join>> \o t
           m == Len(s) + 1
<1>1. /\ u \in Seq(S)
      /\ Len(u) = m + Len(t)
      /\ \A i \in 1 .. Len(s) : u[i] = s[i]
      /\ u[m] = Join
      /\ \A i \in 1 .. Len(t) : u[m + i] = t[i]
  OBVIOUS
<1>2. \A i \in m + 1 .. Len(u) : i - m \in 1 .. Len(t) /\ u[i] = t[i - m]
  BY <1>1
<1>3. \A i \in DOMAIN u : i \in 1 .. Len(s) \/ i = m \/ i \in m + 1 .. Len(u)
  BY <1>1
<1>4. DOMAIN s = 1 .. Len(s) /\ DOMAIN t = 1 .. Len(t) /\ DOMAIN u = 1 .. Len(u)
  BY <1>1
<1> HIDE DEF u, m
<1>5. Chars(u) = Chars(s) \cup Chars(t)
  <2>1. ASSUME NEW c \in Chars(s) \cup Chars(t) PROVE c \in Chars(u)
    <3>1. CASE c \in Chars(s)
      BY <1>1, <1>4, <3>1 DEF Chars, ToSet, m
    <3>2. CASE c \in Chars(t)
      <4>1. PICK i \in 1 .. Len(t) : t[i] = c /\ c # Join
        BY <1>4, <3>2 DEF Chars, ToSet
      <4>2. m + i \in DOMAIN u /\ u[m + i] = c
        BY <1>1, <1>4, <4>1 DEF m
      <4>3. QED
        BY <4>1, <4>2 DEF Chars, ToSet
    <3>3. QED
      BY <2>1, <3>1, <3>2
  <2>2. ASSUME NEW c \in Chars(u) PROVE c \in Chars(s) \cup Chars(t)
    BY <1>1, <1>2, <1>3, <1>4 DEF Chars, ToSet
  <2>3. QED
    BY <2>1, <2>2
<1>6. ASSUME Rising(s), Rising(t), Precedes(s, t),
             NEW p \in DOMAIN u, NEW q \in DOMAIN u,
             p < q, u[p] # Join, u[q] # Join
      PROVE  u[p] < u[q]
  <2>1. CASE q \in 1 .. Len(s)
    BY <1>1, <1>4, <1>6, <2>1 DEF Rising
  <2>2. CASE p \in 1 .. Len(s) /\ q \in m + 1 .. Len(u)
    BY <1>1, <1>2, <1>4, <1>6, <2>2 DEF Precedes, Chars, ToSet
  <2>3. CASE p \in m + 1 .. Len(u) /\ q \in m + 1 .. Len(u)
    <3>1. p - m \in DOMAIN t /\ q - m \in DOMAIN t /\ p - m < q - m
      BY <1>1, <1>2, <1>4, <1>6, <2>3 DEF m
    <3>2. u[p] = t[p - m] /\ u[q] = t[q - m]
      BY <1>2, <2>3
    <3>3. QED
      BY <1>6, <3>1, <3>2 DEF Rising
  <2>4. QED
    BY <1>1, <1>3, <1>4, <1>6, <2>1, <2>2, <2>3 DEF m
<1>7. QED
  BY <1>1, <1>5, <1>6 DEF Rising, u, m

-----------------------------------------------------------------------------
(* The inductive invariant.                                                *)

\* The documents hold nothing the reader has not passed.
BehindReader ==
  /\ Kept \subseteq 1 .. at - 1
  /\ eof => at = Size + 1
  /\ pc = "committed" => eof

\* What the reader has passed is kept, or is a newline, or was eaten after one.
PassedIsKept ==
  \A i \in 1 .. at - 1 : newline[i] \/ i \in Kept \/ (i > 1 /\ newline[i - 1])

\* A paragraph that is being gathered began after the last two empty lines.
ParaPastBlank ==
  \A i \in TwoBlankLines, c \in Chars(para) : i < at => i < c

IndexInv ==
  /\ TypeOK
  /\ BehindReader
  /\ InOrder
  /\ PassedIsKept
  /\ ParaPastBlank
  /\ TwoBlankLinesEndParagraph

LEMMA NewlineIsSeq ==
  ASSUME newline \in BoundedSeq(BOOLEAN, MaxLength)
  PROVE  newline \in Seq(BOOLEAN) /\ Size \in Nat /\ newline \in [1 .. Size -> BOOLEAN]
BY LengthAssumption DEF BoundedSeq, SeqOf, Size

\* The text of one more line, or of none: what becomes of the paragraphs.
LEMMA TakeLineCases ==
  ASSUME TypeOK, NEW line \in Seq(1 .. Size), TakeLine(line)
  PROVE  /\ para' \in Seq(0 .. Size)
         /\ docs' \in Seq(Seq(0 .. Size) \ {<<>>})
         /\ \/ line = <<>> /\ para' = <<>> /\ Paragraphs' = Paragraphs
            \/ line = <<>> /\ para' = <<>> /\ Paragraphs' = Append(Paragraphs, <<>>)
            \/ /\ line # <<>> /\ docs' = docs
               /\ Chars(para') = Chars(para) \cup Chars(line)
               /\ Rising(para) /\ Rising(line) /\ Precedes(para, line) => Rising(para')
<1>1. Size \in Nat /\ para \in Seq(0 .. Size) /\ docs \in Seq(Seq(0 .. Size) \ {<<>>})
  BY NewlineIsSeq DEF TypeOK
<1>2. CASE line = <<>> /\ para = <<>>
  BY <1>1, <1>2 DEF TakeLine, Paragraphs
<1>3. CASE line = <<>> /\ para # <<>>
  <2>1. para' = <<>> /\ docs' = Append(docs, para) /\ Paragraphs = docs'
    BY <1>3 DEF TakeLine, Paragraphs
  <2>2. Paragraphs' = Append(Paragraphs, <<>>)
    BY <2>1 DEF Paragraphs
  <2>3. para \in Seq(0 .. Size) \ {<<>>} /\ para' \in Seq(0 .. Size)
    BY <1>1, <1>3, <2>1
  <2>4. docs' \in Seq(Seq(0 .. Size) \ {<<>>})
    BY <1>1, <2>1, <2>3
  <2>5. QED
    BY <1>3, <2>1, <2>2, <2>3, <2>4
<1>4. CASE line # <<>> /\ para = <<>>
  BY <1>1, <1>4, EmptyHasNoChars DEF TakeLine
<1>5. CASE line # <<>> /\ para # <<>>
  <2>1. line \in Seq(0 .. Size) /\ Join \in 0 .. Size /\ 0 .. Size \in SUBSET Nat
    BY <1>1 DEF Join
  <2>2. para' = para \o <<Join>> \o line /\ docs' = docs
    BY <1>5 DEF TakeLine
  <2>3. /\ para' \in Seq(0 .. Size)
        /\ Chars(para') = Chars(para) \cup Chars(line)
        /\ Rising(para) /\ Rising(line) /\ Precedes(para, line) => Rising(para')
    BY <1>1, <2>1, <2>2, JoinedLines
  <2>4. QED
    BY <1>1, <1>5, <2>2, <2>3
<1>6. QED
  BY <1>2, <1>3, <1>4, <1>5

LEMMA ParagraphsAre ==
  ASSUME NEW S, NEW D \in Seq(S), NEW p \in S
  PROVE  /\ DOMAIN Append(D, p) = 1 .. Len(D) + 1
         /\ Len(D) \in Nat
         /\ \A d \in 1 .. Len(D) : Append(D, p)[d] = D[d] /\ D[d] \in S
         /\ Append(D, p)[Len(D) + 1] = p
OBVIOUS

\* What taking the text from "at" to before the reader's new place keeps true.
LEMMA TakeLineKeepsText ==
  ASSUME IndexInv, newline' = newline,
         NEW to \in at - 1 .. Size, \A i \in at .. to : ~newline[i],
         TakeLine(Positions(at, to))
  PROVE  /\ Kept' = Kept \cup (at .. to)
         /\ InOrder'
         /\ \A i \in TwoBlankLines, c \in Chars(para)' : i < to + 3 => i < c
         /\ TwoBlankLinesEndParagraph'
<1> DEFINE line == Positions(at, to)
           n == Len(docs) + 1
<1>1. /\ Size \in Nat /\ Size' = Size /\ newline \in [1 .. Size -> BOOLEAN]
      /\ at \in 1 .. Size + 1
      /\ para \in Seq(0 .. Size) /\ docs \in Seq(Seq(0 .. Size) \ {<<>>})
  BY NewlineIsSeq DEF IndexInv, TypeOK, Size
<1>2. /\ line \in Seq(at .. to) /\ Chars(line) = at .. to /\ Rising(line)
      /\ line = <<>> <=> to < at
  BY <1>1, PositionsRun
<1>3. line \in Seq(1 .. Size)
  BY <1>1, <1>2
<1>4. TwoBlankLines' = TwoBlankLines
  BY <1>1 DEF TwoBlankLines
<1>5. /\ DOMAIN Paragraphs = 1 .. n /\ n \in Nat \ {0}
      /\ \A d \in 1 .. n - 1 : Paragraphs[d] = docs[d]
      /\ Paragraphs[n] = para
  BY <1>1, ParagraphsAre DEF Paragraphs
<1>6. /\ para' \in Seq(0 .. Size)
      /\ docs' \in Seq(Seq(0 .. Size) \ {<<>>})
      /\ \/ line = <<>> /\ para' = <<>> /\ Paragraphs' = Paragraphs
         \/ line = <<>> /\ para' = <<>> /\ Paragraphs' = Append(Paragraphs, <<>>)
         \/ /\ line # <<>> /\ docs' = docs
            /\ Chars(para') = Chars(para) \cup Chars(line)
            /\ Rising(para) /\ Rising(line) /\ Precedes(para, line) => Rising(para')
  BY <1>3, TakeLineCases DEF IndexInv
<1> HIDE DEF line, n
<1>7. CASE line = <<>> /\ para' = <<>> /\ Paragraphs' = Paragraphs
  <2>1. Kept' = Kept
    BY <1>7 DEF Kept
  <2>2. InOrder' /\ TwoBlankLinesEndParagraph'
    BY <1>1, <1>4, <1>7, <2>1 DEF IndexInv, InOrder, TwoBlankLinesEndParagraph
  <2>3. at .. to = {}
    BY <1>1, <1>2, <1>7
  <2>4. QED
    BY <1>7, <2>1, <2>2, <2>3, EmptyHasNoChars
<1>8. CASE line = <<>> /\ para' = <<>> /\ Paragraphs' = Append(Paragraphs, <<>>)
  <2>1. Len(Paragraphs) = n /\ Paragraphs \in Seq(Seq(0 .. Size))
    BY <1>1, <1>5 DEF Paragraphs, n
  <2>2. /\ DOMAIN Paragraphs' = 1 .. n + 1
        /\ \A d \in 1 .. n : Paragraphs'[d] = Paragraphs[d]
        /\ Paragraphs'[n + 1] = <<>>
    BY <1>8, <2>1, ParagraphsAre
  <2>3. \A d \in DOMAIN Paragraphs' : d \in DOMAIN Paragraphs \/ d = n + 1
    BY <1>5, <2>2
  <2>4. Kept' = Kept
    <3>1. Kept' = UNION {Chars(Paragraphs'[d]) : d \in 1 .. n + 1}
      BY <2>2 DEF Kept
    <3>2. Kept = UNION {Chars(Paragraphs[d]) : d \in 1 .. n}
      BY <1>5 DEF Kept
    <3>3. ASSUME NEW c PROVE c \in Kept' <=> c \in Kept
      BY <1>5, <2>2, <2>3, <3>1, <3>2, EmptyHasNoChars
    <3>4. QED
      BY <3>3
  <2>5. InOrder'
    BY <1>1, <1>5, <2>2, <2>3, <2>4, EmptyHasNoChars DEF IndexInv, InOrder, Precedes
  <2>6. TwoBlankLinesEndParagraph'
    BY <1>4, <1>5, <2>2, <2>3, EmptyHasNoChars DEF IndexInv, TwoBlankLinesEndParagraph
  <2>7. at .. to = {}
    BY <1>1, <1>2, <1>8
  <2>8. QED
    BY <1>8, <2>4, <2>5, <2>6, <2>7, EmptyHasNoChars
<1>9. CASE /\ line # <<>> /\ docs' = docs
           /\ Chars(para') = Chars(para) \cup Chars(line)
           /\ Rising(para) /\ Rising(line) /\ Precedes(para, line) => Rising(para')
  <2>1. /\ DOMAIN Paragraphs' = 1 .. n
        /\ \A d \in 1 .. n - 1 : Paragraphs'[d] = Paragraphs[d]
        /\ Paragraphs'[n] = para'
        /\ Chars(Paragraphs'[n]) = Chars(Paragraphs[n]) \cup (at .. to)
    BY <1>1, <1>2, <1>5, <1>6, <1>9, ParagraphsAre DEF Paragraphs, n
  <2>2. \A d \in 1 .. n : d \in 1 .. n - 1 \/ d = n
    BY <1>5
  <2>3. Kept' = Kept \cup (at .. to)
    BY <1>5, <2>1, <2>2 DEF Kept
  <2>4. \A d \in 1 .. n : Chars(Paragraphs[d]) \subseteq Kept
    BY <1>5 DEF Kept
  <2>5. Kept \subseteq 1 .. at - 1
    BY DEF IndexInv, BehindReader
  <2>6. \A d \in 1 .. n : \A c \in Chars(Paragraphs[d]) : c \in Nat /\ c < at
    <3>1. \A c \in 1 .. at - 1 : c \in Nat /\ c < at
      BY <1>1
    <3>2. QED
      BY <2>4, <2>5, <3>1, Zenon
  <2>7. InOrder'
    <3>1. Rising(para) /\ Precedes(para, line)
      <4>1. Rising(para)
        BY <1>5 DEF IndexInv, InOrder
      <4>2. \A c \in Chars(para) : c < at /\ c \in Nat
        BY <1>5, <2>6
      <4>3. QED
        BY <1>1, <1>2, <4>1, <4>2 DEF Precedes
    <3>2. \A d \in 1 .. n : Rising(Paragraphs'[d])
      BY <1>2, <1>5, <1>9, <2>1, <2>2, <3>1 DEF IndexInv, InOrder
    <3>3. ASSUME NEW d \in 1 .. n, NEW e \in 1 .. n, d < e
          PROVE  Precedes(Paragraphs'[d], Paragraphs'[e])
      <4>1. d \in 1 .. n - 1 /\ Precedes(Paragraphs[d], Paragraphs[e])
        BY <1>5, <3>3 DEF IndexInv, InOrder
      <4>2. \A c \in Chars(Paragraphs[d]) : c < at /\ c \in Nat
        BY <1>5, <2>6, <4>1
      <4>3. CASE e \in 1 .. n - 1
        BY <2>1, <4>1, <4>3
      <4>4. CASE e = n
        BY <1>1, <2>1, <4>1, <4>2, <4>4 DEF Precedes
      <4>5. QED
        BY <2>2, <4>3, <4>4
    <3>4. \A i \in Kept' : ~newline'[i]
      BY <2>3 DEF IndexInv, InOrder
    <3>5. QED
      BY <2>1, <3>2, <3>3, <3>4 DEF InOrder
  <2>8. at <= to
    BY <1>1, <1>2, <1>9
  \* Two empty lines are passed, or still to come, or have ended the paragraph.
  <2>9. ASSUME NEW i \in TwoBlankLines, i < to + 3 PROVE i < at
    <3>1. i \in 3 .. Size /\ newline[i - 2] /\ newline[i - 1] /\ newline[i]
      BY DEF TwoBlankLines
    <3>2. i \notin at .. to /\ i - 1 \notin at .. to /\ i - 2 \notin at .. to
      BY <3>1
    <3>3. QED
      BY <1>1, <2>8, <2>9, <3>1, <3>2
  <2>10. \A i \in TwoBlankLines, c \in Chars(para') : i < to + 3 => i < c
    BY <1>1, <1>2, <1>9, <2>9 DEF IndexInv, ParaPastBlank, TwoBlankLines
  <2>11. ASSUME NEW d \in 1 .. n, NEW i \in TwoBlankLines,
                NEW c \in Chars(Paragraphs'[d]), NEW k \in Chars(Paragraphs'[d]),
                c < i, i < k
         PROVE  FALSE
    <3>1. CASE d \in 1 .. n - 1
      BY <1>5, <2>1, <2>11, <3>1 DEF IndexInv, TwoBlankLinesEndParagraph
    <3>2. CASE d = n
      <4>1. k \in Nat /\ k <= to
        <5>1. k \in Chars(Paragraphs[n]) \/ k \in at .. to
          BY <2>1, <2>11, <3>2
        <5>2. CASE k \in Chars(Paragraphs[n])
          <6>1. k < at /\ k \in Nat
            BY <1>5, <2>6, <5>2
          <6>2. QED
            BY <1>1, <2>8, <6>1
        <5>3. QED
          BY <1>1, <5>1, <5>2
      <4>2. i < to + 3 /\ i \in Nat
        BY <1>1, <2>11, <4>1 DEF TwoBlankLines
      <4>3. c \in Chars(para')
        BY <2>1, <2>11, <3>2
      <4>4. i < c
        BY <2>10, <4>2, <4>3
      <4>5. c \in Nat
        <5>1. \A q \in 1 .. Len(para') : para'[q] \in Nat
          BY <1>1, <1>6
        <5>2. QED
          BY <1>6, <4>3, <5>1 DEF Chars, ToSet
      <4>6. QED
        BY <2>11, <4>2, <4>4, <4>5
    <3>3. QED
      BY <2>2, <3>1, <3>2
  <2>12. TwoBlankLinesEndParagraph'
    BY <1>4, <2>1, <2>11 DEF TwoBlankLinesEndParagraph
  <2>13. QED
    BY <1>4, <2>3, <2>7, <2>10, <2>12
<1>10. QED
  BY <1>6, <1>7, <1>8, <1>9

-----------------------------------------------------------------------------
(* The steps.                                                              *)

LEMMA IndexInit == Init => IndexInv
<1> SUFFICES ASSUME Init PROVE IndexInv
  OBVIOUS
<1>1. Size \in Nat /\ Paragraphs = << <<>> >>
  BY NewlineIsSeq DEF Init, Paragraphs
<1>2. TypeOK
  <2>1. para \in Seq(0 .. Size) /\ docs \in Seq(Seq(0 .. Size) \ {<<>>})
    BY DEF Init
  <2>2. at \in 1 .. Size + 1
    BY <1>1 DEF Init
  <2>3. QED
    BY <2>1, <2>2 DEF Init, TypeOK
<1>3. Kept = {} /\ \A d \in DOMAIN Paragraphs : Paragraphs[d] = <<>>
  BY <1>1, EmptyHasNoChars DEF Kept
<1>4. DOMAIN Paragraphs = {1}
  BY <1>1
<1>5. QED
  BY <1>2, <1>3, <1>4, EmptyHasNoChars
     DEF Init, IndexInv, BehindReader, InOrder, PassedIsKept, ParaPastBlank,
         TwoBlankLinesEndParagraph

LEMMA IntervalsInRow ==
  ASSUME NEW a \in Int, NEW b \in Int, NEW c \in Int, 1 <= a, a - 1 <= b, b < c
  PROVE  1 .. c - 1 = (1 .. a - 1) \cup (a .. b) \cup (b + 1 .. c - 1)
OBVIOUS

\* A step that takes a line, or part of one, and goes on from "next".
LEMMA TakingKeepsInv ==
  ASSUME IndexInv, newline' = newline, pc = "reading", pc' = pc,
         eof' \in BOOLEAN, bad' \in BOOLEAN,
         NEW to \in at - 1 .. Size, \A i \in at .. to : ~newline[i],
         TakeLine(Positions(at, to)),
         at' \in to + 1 .. Size + 1, at' <= to + 3,
         eof' => at' = Size + 1,
         \A i \in to + 1 .. at' - 1 : newline[i] \/ (i > 1 /\ newline[i - 1])
  PROVE  IndexInv'
<1>1. /\ Size \in Nat /\ Size' = Size /\ newline \in [1 .. Size -> BOOLEAN]
      /\ at \in 1 .. Size + 1 /\ newline \in BoundedSeq(BOOLEAN, MaxLength)
  BY NewlineIsSeq DEF IndexInv, TypeOK, Size
<1>2. Positions(at, to) \in Seq(1 .. Size)
  <2>1. Positions(at, to) \in Seq(at .. to)
    BY <1>1, PositionsRun
  <2>2. QED
    BY <1>1, <2>1
<1>3. /\ Kept' = Kept \cup (at .. to)
      /\ InOrder'
      /\ \A i \in TwoBlankLines, c \in Chars(para)' : i < to + 3 => i < c
      /\ TwoBlankLinesEndParagraph'
  BY TakeLineKeepsText
<1>4. TypeOK'
  BY <1>1, <1>2, TakeLineCases DEF IndexInv, TypeOK
<1>5. 1 .. at' - 1 = (1 .. at - 1) \cup (at .. to) \cup (to + 1 .. at' - 1)
  <2>1. at \in Int /\ to \in Int /\ at' \in Int /\ 1 <= at /\ at - 1 <= to /\ to < at'
    BY <1>1
  <2>2. QED
    BY <2>1, IntervalsInRow
<1>6. BehindReader'
  <2>1. Kept \subseteq 1 .. at - 1
    BY DEF IndexInv, BehindReader
  <2>2. Kept' \subseteq 1 .. at' - 1
    BY <1>3, <1>5, <2>1, Zenon
  <2>3. QED
    BY <1>1, <2>2 DEF BehindReader
<1>7. PassedIsKept'
  <2>1. ASSUME NEW i \in 1 .. at' - 1
        PROVE  newline[i] \/ i \in Kept' \/ (i > 1 /\ newline[i - 1])
    <3>1. CASE i \in 1 .. at - 1
      BY <1>3, <3>1 DEF IndexInv, PassedIsKept
    <3>2. CASE i \in at .. to
      BY <1>3, <3>2
    <3>3. CASE i \in to + 1 .. at' - 1
      BY <3>3
    <3>4. QED
      BY <1>5, <3>1, <3>2, <3>3, Zenon
  <2>2. QED
    BY <1>1, <2>1 DEF PassedIsKept
<1>8. ParaPastBlank'
  BY <1>1, <1>3 DEF ParaPastBlank, TwoBlankLines
<1>9. QED
  BY <1>3, <1>4, <1>6, <1>7, <1>8 DEF IndexInv

LEMMA ReadLineKeepsInv == IndexInv /\ ReadLine => IndexInv'
<1> SUFFICES ASSUME IndexInv, ReadLine PROVE IndexInv'
  OBVIOUS
<1>1. Size \in Nat /\ newline \in Seq(BOOLEAN) /\ at \in 1 .. Size + 1
  BY NewlineIsSeq DEF IndexInv, TypeOK
<1>2. /\ LineEnd \in at .. Size + 1
      /\ LineEnd = Size + 1 \/ newline[LineEnd]
      /\ \A i \in at .. LineEnd - 1 : ~newline[i]
  BY <1>1, LineEndIsFirstNewline
<1> DEFINE to == LineEnd - 1
<1>3. to \in at - 1 .. Size /\ LineEnd = to + 1
  BY <1>1, <1>2
<1>4. /\ newline' = newline /\ pc = "reading" /\ pc' = pc
      /\ bad' = bad /\ bad' \in BOOLEAN
      /\ eof' \in BOOLEAN /\ (eof' => LineEnd + 1 > Size)
      /\ at' = IF LineEnd + 2 <= Size + 1 THEN LineEnd + 2 ELSE Size + 1
      /\ TakeLine(Positions(at, to))
  BY DEF ReadLine, IndexInv, TypeOK
<1> HIDE DEF to
<1>5. at' \in to + 1 .. Size + 1 /\ at' <= to + 3 /\ (eof' => at' = Size + 1)
  BY <1>1, <1>3, <1>4
\* The newline, and the character that ignore() takes after it.
<1>6. \A i \in to + 1 .. at' - 1 : newline[i] \/ (i > 1 /\ newline[i - 1])
  <2>1. ASSUME NEW i \in to + 1 .. at' - 1
        PROVE  newline[i] \/ (i > 1 /\ newline[i - 1])
    <3>1. LineEnd \in 1 .. Size /\ (i = LineEnd \/ i = LineEnd + 1)
      BY <1>1, <1>2, <1>3, <1>4
    <3>2. newline[LineEnd]
      BY <1>1, <1>2, <3>1
    <3>3. CASE i = LineEnd
      BY <3>2, <3>3
    <3>4. CASE i = LineEnd + 1
      <4>1. i > 1 /\ i - 1 = LineEnd
        BY <3>1, <3>4
      <4>2. QED
        BY <3>2, <4>1
    <3>5. QED
      BY <3>1, <3>3, <3>4
  <2>2. QED
    BY <2>1
<1>7. \A i \in at .. to : ~newline[i]
  BY <1>2 DEF to
<1>8. QED
  BY <1>3, <1>4, <1>5, <1>6, <1>7, TakingKeepsInv

LEMMA ReadFailsKeepsInv == IndexInv /\ ReadFails => IndexInv'
<1> SUFFICES ASSUME IndexInv, ReadFails PROVE IndexInv'
  OBVIOUS
<1>1. Size \in Nat /\ newline \in Seq(BOOLEAN) /\ at \in 1 .. Size + 1
  BY NewlineIsSeq DEF IndexInv, TypeOK
<1>2. LineEnd \in at .. Size + 1 /\ \A i \in at .. LineEnd - 1 : ~newline[i]
  BY <1>1, LineEndIsFirstNewline
<1>3. PICK e \in at .. LineEnd : TakeLine(Positions(at, e - 1)) /\ at' = e
  BY DEF ReadFails
<1>4. newline' = newline /\ pc = "reading" /\ pc' = pc /\ eof' = FALSE /\ bad' = TRUE
  BY DEF ReadFails, IndexInv, TypeOK
<1>5. /\ e - 1 \in at - 1 .. Size
      /\ \A i \in at .. e - 1 : ~newline[i]
      /\ at' \in e - 1 + 1 .. Size + 1 /\ at' <= e - 1 + 3
      /\ e - 1 + 1 .. at' - 1 = {}
  BY <1>1, <1>2, <1>3
<1>6. QED
  BY <1>3, <1>4, <1>5, TakingKeepsInv

\* Where nothing is read, an empty line is taken all the same.
LEMMA TakeNothingKeepsInv ==
  ASSUME IndexInv, pc = "reading", TakeLine(<<>>), UNCHANGED <<newline, at, eof, bad, pc>>
  PROVE  IndexInv'
<1>1. /\ Size \in Nat /\ at \in 1 .. Size + 1
      /\ eof \in BOOLEAN /\ bad \in BOOLEAN /\ (eof => at = Size + 1)
  BY NewlineIsSeq DEF IndexInv, TypeOK, BehindReader
<1>2. Positions(at, at - 1) = <<>>
  BY <1>1, PositionsRun
<1>3. /\ at - 1 \in at - 1 .. Size
      /\ at .. at - 1 = {}
      /\ at' \in at - 1 + 1 .. Size + 1 /\ at' <= at - 1 + 3
      /\ at - 1 + 1 .. at' - 1 = {}
  BY <1>1
<1>4. QED
  BY <1>1, <1>2, <1>3, TakingKeepsInv

\* The end of the loop leaves the text alone.
LEMMA StoppingKeepsInv ==
  ASSUME IndexInv, UNCHANGED <<newline, at, eof, bad, para, docs>>,
         pc' \in {"reading", "committed", "failed"}, pc' = "committed" => eof
  PROVE  IndexInv'
<1>1. Size' = Size /\ Paragraphs' = Paragraphs /\ TwoBlankLines' = TwoBlankLines
  BY DEF Size, Paragraphs, TwoBlankLines
<1>2. Kept' = Kept
  BY <1>1 DEF Kept
<1>3. QED
  BY <1>1, <1>2 DEF IndexInv, TypeOK, BehindReader, InOrder, PassedIsKept, ParaPastBlank,
                    TwoBlankLinesEndParagraph

LEMMA IndexNext == IndexInv /\ [Next]_vars => IndexInv'
<1> SUFFICES ASSUME IndexInv, [Next]_vars PROVE IndexInv'
  OBVIOUS
<1>1. CASE ReadLine
  BY <1>1, ReadLineKeepsInv
<1>2. CASE ReadFails
  BY <1>2, ReadFailsKeepsInv
<1>3. CASE ReadNothing
  BY <1>3, TakeNothingKeepsInv DEF ReadNothing
<1>4. CASE LastParagraph
  BY <1>4, TakeNothingKeepsInv DEF LastParagraph
<1>5. CASE Commit
  BY <1>5, StoppingKeepsInv DEF Commit
<1>6. CASE XapianError
  BY <1>6, StoppingKeepsInv DEF XapianError
<1>7. CASE UNCHANGED vars
  BY <1>7, StoppingKeepsInv DEF vars, IndexInv, TypeOK, BehindReader
<1>8. QED
  BY <1>1, <1>2, <1>3, <1>4, <1>5, <1>6, <1>7 DEF Next

\* The positions and documents of index_db stay what they are, for files of any
\* length.
THEOREM IndexInvariant == Spec => [](TypeOK /\ IndexInv)
<1>1. IndexInv => TypeOK
  BY DEF IndexInv
<1>2. QED
  BY <1>1, IndexInit, IndexNext, PTL DEF Spec

\* The documents are what index_db may have added: none is empty.
THEOREM DocumentsAreNotEmpty == Spec => []TypeOK
BY IndexInvariant, PTL

\* The documents hold the file's text in order and once.
THEOREM TextStaysInOrder == Spec => []InOrder
<1>1. IndexInv => InOrder
  BY DEF IndexInv
<1>2. QED
  BY <1>1, IndexInvariant, PTL

\* Only newlines and characters that ignore() eats after one are lost.
THEOREM LossesFollowNewlines == Spec => []OnlyAfterNewlineLost
<1>1. IndexInv => OnlyAfterNewlineLost
  <2> SUFFICES ASSUME IndexInv, pc = "committed"
               PROVE  \A i \in 1 .. Size :
                        newline[i] \/ i \in Kept \/ (i > 1 /\ newline[i - 1])
    BY DEF OnlyAfterNewlineLost
  <2>1. Size \in Nat /\ at = Size + 1
    BY NewlineIsSeq DEF IndexInv, TypeOK, BehindReader
  <2>2. 1 .. at - 1 = 1 .. Size
    BY <2>1
  <2>3. QED
    BY <2>2, Zenon DEF IndexInv, PassedIsKept
<1>2. QED
  BY <1>1, IndexInvariant, PTL

\* Where indexing stops, by an error too, the documents are the beginning of the
\* text: a character before a stored one is passed, and so it is kept; it is not
\* in the paragraph being gathered, which comes after every document.
THEOREM StoredIsABeginning == Spec => []NoGapBeforeStored
<1>1. IndexInv => NoGapBeforeStored
  <2> SUFFICES ASSUME IndexInv, NEW j \in Stored, NEW i \in 1 .. j - 1
               PROVE  newline[i] \/ i \in Stored \/ (i > 1 /\ newline[i - 1])
    BY DEF NoGapBeforeStored
  <2>1. /\ docs \in Seq(Seq(0 .. Size) \ {<<>>}) /\ Size \in Nat
        /\ at \in 1 .. Size + 1
    BY NewlineIsSeq DEF IndexInv, TypeOK
  <2> DEFINE n == Len(docs) + 1
  <2>2. /\ DOMAIN Paragraphs = 1 .. n
        /\ \A d \in DOMAIN docs : d \in 1 .. n /\ d < n /\ Paragraphs[d] = docs[d]
        /\ Paragraphs[n] = para
        /\ \A d \in 1 .. n : d \in DOMAIN docs \/ d = n
    BY <2>1 DEF Paragraphs
  <2> HIDE DEF n
  <2>3. PICK d \in DOMAIN docs : j \in Chars(docs[d])
    BY DEF Stored
  <2>4. j \in 1 .. at - 1
    BY <2>2, <2>3 DEF IndexInv, BehindReader, Kept
  <2>5. i \in 1 .. at - 1 /\ i < j
    BY <2>1, <2>4
  <2>6. newline[i] \/ i \in Kept \/ (i > 1 /\ newline[i - 1])
    BY <2>5 DEF IndexInv, PassedIsKept
  <2>7. ASSUME i \in Kept PROVE i \in Stored
    <3>1. PICK e \in 1 .. n : i \in Chars(Paragraphs[e])
      BY <2>2, <2>7 DEF Kept
    <3>2. e # n
      <4>1. ASSUME e = n PROVE FALSE
        <5>1. Precedes(Paragraphs[d], Paragraphs[n])
          BY <2>2, <3>1, <4>1 DEF IndexInv, InOrder
        <5>2. j < i
          BY <2>2, <2>3, <3>1, <4>1, <5>1 DEF Precedes
        <5>3. QED
          BY <2>4, <2>5, <5>2
      <4>2. QED
        BY <4>1
    <3>3. QED
      BY <2>2, <3>1, <3>2 DEF Stored
  <2>8. QED
    BY <2>6, <2>7
<1>2. QED
  BY <1>1, IndexInvariant, PTL

\* Whatever ignore() eats, three newlines in a row end a paragraph.
THEOREM TwoBlankLinesSeparate == Spec => []TwoBlankLinesEndParagraph
<1>1. IndexInv => TwoBlankLinesEndParagraph
  BY DEF IndexInv
<1>2. QED
  BY <1>1, IndexInvariant, PTL

\* Without a read error every step of index_db brings its end nearer, by a
\* measure that is a natural number: it takes at most Size + 4 steps.
THEOREM IndexingIsBounded == Spec => EndComesNearer /\ [](Left \in 0 .. Size + 4)
<1>1. IndexInv => Left \in 0 .. Size + 4
  BY NewlineIsSeq DEF IndexInv, TypeOK, Left
<1>2. IndexInv /\ [Next]_vars => [Left' < Left \/ bad']_vars
  <2> SUFFICES ASSUME IndexInv, Next, ~bad' PROVE Left' < Left
    OBVIOUS
  <2>1. /\ Size \in Nat /\ newline \in Seq(BOOLEAN) /\ at \in 1 .. Size + 1
        /\ eof \in BOOLEAN /\ bad \in BOOLEAN
    BY NewlineIsSeq DEF IndexInv, TypeOK
  <2>2. CASE ReadLine
    <3>1. LineEnd \in at .. Size + 1
      BY <2>1, LineEndIsFirstNewline
    <3>2. /\ pc = "reading" /\ pc' = pc /\ ~eof /\ Size' = Size
          /\ at' = IF LineEnd + 2 <= Size + 1 THEN LineEnd + 2 ELSE Size + 1
          /\ eof' = (LineEnd + 1 > Size)
      BY <2>2 DEF ReadLine, Size
    <3>3. Left = 3 + Size + 1 - at
      BY <3>2 DEF Left
    <3>4. CASE LineEnd + 1 > Size
      <4>1. eof' /\ Left' \in {1, 2}
        BY <3>2, <3>4 DEF Left
      <4>2. QED
        BY <2>1, <3>3, <4>1
    <3>5. CASE ~(LineEnd + 1 > Size)
      <4>1. ~eof' /\ Left' = 3 + Size + 1 - at'
        BY <3>2, <3>5 DEF Left
      <4>2. QED
        BY <2>1, <3>1, <3>2, <3>3, <3>5, <4>1
    <3>6. QED
      BY <3>4, <3>5
  <2>3. CASE LastParagraph
    BY <2>3 DEF LastParagraph, TakeLine, Left
  <2>4. CASE Commit
    BY <2>4 DEF Commit, Left
  <2>5. CASE XapianError
    <3>1. pc = "reading" /\ pc' = "failed" /\ Left' = 0
      BY <2>5 DEF XapianError, Left
    <3>2. Left > 0
      BY <2>1, <3>1 DEF Left
    <3>3. QED
      BY <3>1, <3>2
  <2>6. ~ReadFails /\ ~ReadNothing
    BY DEF ReadFails, ReadNothing
  <2>7. QED
    BY <2>2, <2>3, <2>4, <2>5, <2>6 DEF Next
<1>3. QED
  BY <1>1, <1>2, IndexInvariant, PTL DEF Spec, EndComesNearer

=============================================================================

------------------------------- MODULE IndexDb -------------------------------
(***************************************************************************)
(* index_db: an input file is read line by line, lines are gathered into   *)
(* paragraphs, and every paragraph becomes a document of the database.     *)
(*                                                                         *)
(* A character is its position in the file, and what counts of it is       *)
(* whether it is a newline.  Position 0 stands for the newline that joins  *)
(* two lines of a paragraph.  Streams are modelled by what the standard    *)
(* says of them: getline takes its delimiter and sets eof only if it runs  *)
(* into the end; ignore() takes one more character.  A read error sets     *)
(* badbit, which is not eof.                                               *)
(***************************************************************************)
EXTENDS Integers, Sequences, SequencesExt

CONSTANT MaxLength   \* bound: characters in the input file

ASSUME LengthAssumption == MaxLength \in Nat

VARIABLES
  newline,  \* newline[i]: character i of the file is a newline
  at,       \* the next character to read
  eof,      \* cin.eof()
  bad,      \* cin.bad()
  para,     \* the paragraph so far
  docs,     \* the documents added
  pc        \* "reading", "committed", or "failed" on a Xapian::Error

vars == <<newline, at, eof, bad, para, docs, pc>>

Size == Len(newline)
Join == 0

TypeOK ==
  /\ newline \in BoundedSeq(BOOLEAN, MaxLength)
  /\ at \in 1 .. Size + 1
  /\ eof \in BOOLEAN
  /\ bad \in BOOLEAN
  /\ para \in Seq(0 .. Size)
  /\ docs \in Seq(Seq(0 .. Size) \ {<<>>})
  /\ pc \in {"reading", "committed", "failed"}

Init ==
  /\ newline \in BoundedSeq(BOOLEAN, MaxLength)
  /\ at = 1
  /\ eof = FALSE
  /\ bad = FALSE
  /\ para = <<>>
  /\ docs = <<>>
  /\ pc = "reading"

\* Where the line at "at" ends: its newline, or one past the file.
LineEnd ==
  CHOOSE e \in at .. Size + 1 :
    /\ e = Size + 1 \/ newline[e]
    /\ \A i \in at .. e - 1 : ~newline[i]

Positions(from, to) == [i \in 1 .. to - from + 1 |-> from + i - 1]

\* Mistake: an empty paragraph is indexed too.
TakeLineIndexesEmpty(line) ==
  IF line = <<>>
  THEN /\ para' = <<>>
       /\ docs' = Append(docs, para)
  ELSE /\ para' = IF para = <<>> THEN line ELSE para \o <<Join>> \o line
       /\ docs' = docs

\* Mistake: a blank line throws the paragraph away.
TakeLineDrops(line) ==
  IF line = <<>>
  THEN /\ para' = <<>>
       /\ docs' = docs
  ELSE /\ para' = IF para = <<>> THEN line ELSE para \o <<Join>> \o line
       /\ docs' = docs

\* Mistake: para is not emptied after it was indexed.
TakeLineKeeps(line) ==
  IF line = <<>>
  THEN /\ para' = para
       /\ docs' = IF para = <<>> THEN docs ELSE Append(docs, para)
  ELSE /\ para' = IF para = <<>> THEN line ELSE para \o <<Join>> \o line
       /\ docs' = docs

\* Mistake: only the end of the file ends a paragraph.
TakeLineToTheEnd(line) ==
  IF line = <<>> /\ eof
  THEN /\ para' = <<>>
       /\ docs' = IF para = <<>> THEN docs ELSE Append(docs, para)
  ELSE /\ para' = IF para = <<>> THEN line ELSE para \o <<Join>> \o line
       /\ docs' = docs

\* The second half of the loop: an empty line indexes the paragraph.
TakeLine(line) ==
  IF line = <<>>
  THEN /\ para' = <<>>
       /\ docs' = IF para = <<>> THEN docs ELSE Append(docs, para)
  ELSE /\ para' = IF para = <<>> THEN line ELSE para \o <<Join>> \o line
       /\ docs' = docs

\* Mistake: the end of the file goes unnoticed.
ReadLineNoEof ==
  /\ pc = "reading" /\ ~eof /\ ~bad
  /\ TakeLine(Positions(at, LineEnd - 1))
  /\ at' = IF LineEnd + 2 <= Size + 1 THEN LineEnd + 2 ELSE Size + 1
  /\ UNCHANGED <<newline, eof, bad, pc>>

\* getline and ignore.
ReadLine ==
  /\ pc = "reading" /\ ~eof /\ ~bad
  /\ TakeLine(Positions(at, LineEnd - 1))
  /\ at' = IF LineEnd + 2 <= Size + 1 THEN LineEnd + 2 ELSE Size + 1
  /\ eof' = (LineEnd + 1 > Size)
  /\ UNCHANGED <<newline, bad, pc>>

\* The file cannot be read on (it is a directory, or the disk fails).
ReadFails ==
  /\ pc = "reading" /\ ~eof /\ ~bad
  /\ \E e \in at .. LineEnd : TakeLine(Positions(at, e - 1)) /\ at' = e
  /\ bad' = TRUE
  /\ UNCHANGED <<newline, eof, pc>>

\* From then on every iteration reads an empty line.
ReadNothing ==
  /\ pc = "reading" /\ bad
  /\ TakeLine(<<>>)
  /\ UNCHANGED <<newline, at, eof, bad, pc>>

\* At the end what is left of the last paragraph is indexed ...
LastParagraph ==
  /\ pc = "reading" /\ eof /\ para # <<>>
  /\ TakeLine(<<>>)
  /\ UNCHANGED <<newline, at, eof, bad, pc>>

\* ... and the loop ends.
Commit ==
  /\ pc = "reading" /\ eof /\ para = <<>>
  /\ pc' = "committed"
  /\ UNCHANGED <<newline, at, eof, bad, para, docs>>

\* Mistake: the error is caught inside the loop, which goes on without the
\* paragraph.
XapianErrorGoesOn ==
  /\ pc = "reading"
  /\ IF para = <<>> THEN eof ELSE bad \/ LineEnd = at
  /\ para' = <<>>
  /\ UNCHANGED <<newline, at, eof, bad, docs, pc>>

\* add_document or commit throws; the destructor commits what was added.
XapianError ==
  /\ pc = "reading"
  /\ IF para = <<>> THEN eof ELSE bad \/ LineEnd = at
  /\ pc' = "failed"
  /\ UNCHANGED <<newline, at, eof, bad, para, docs>>

Next ==
  ReadLine \/ ReadFails \/ ReadNothing \/ LastParagraph \/ Commit \/ XapianError

Spec == Init /\ [][Next]_vars

\* The database thread runs.  Nothing fails because it has to.
FairSpec == Spec /\ WF_vars(ReadLine \/ ReadNothing \/ LastParagraph \/ Commit)

-----------------------------------------------------------------------------
\* The documents, and the paragraph being gathered as the last of them.
Paragraphs == Append(docs, para)
Chars(s) == ToSet(s) \ {Join}
Kept == UNION {Chars(Paragraphs[d]) : d \in DOMAIN Paragraphs}

\* Every character of s comes before every character of t in the file.
Precedes(s, t) == \A c \in Chars(s), k \in Chars(t) : c < k

Rising(s) ==
  \A p, q \in DOMAIN s : p < q /\ s[p] # Join /\ s[q] # Join => s[p] < s[q]

\* Documents hold the text of the file in its order, no character twice, and
\* never a newline of the file.
InOrder ==
  /\ \A d \in DOMAIN Paragraphs : Rising(Paragraphs[d])
  /\ \A d, e \in DOMAIN Paragraphs : d < e => Precedes(Paragraphs[d], Paragraphs[e])
  /\ \A i \in Kept : ~newline[i]

\* Once committed, a character of the file is missing from the documents only
\* if it is a newline or comes right after one.
OnlyAfterNewlineLost ==
  pc = "committed" =>
    \A i \in 1 .. Size : newline[i] \/ i \in Kept \/ (i > 1 /\ newline[i - 1])

\* Wherever an error stops the indexing, what the database has is the text from
\* the beginning up to some paragraph: before a character that is in a document
\* none is missing but the newlines and what ignore() ate after one.
Stored == UNION {Chars(docs[d]) : d \in DOMAIN docs}

NoGapBeforeStored ==
  \A j \in Stored : \A i \in 1 .. j - 1 :
    newline[i] \/ i \in Stored \/ (i > 1 /\ newline[i - 1])

\* What BlankLineEndsParagraph asks for one empty line, the code does for two:
\* whatever ignore() eats of three newlines in a row, an empty line is read, and
\* no document nor the paragraph being gathered has text from both sides.
TwoBlankLines == {i \in 3 .. Size : newline[i - 2] /\ newline[i - 1] /\ newline[i]}

TwoBlankLinesEndParagraph ==
  \A d \in DOMAIN Paragraphs :
    \A i \in TwoBlankLines, c, k \in Chars(Paragraphs[d]) : ~(c < i /\ i < k)

\* How far indexing is from its end: what is left of the file, then the last
\* paragraph, then the commit.
Left ==
  CASE pc # "reading" -> 0
    [] pc = "reading" /\ eof -> IF para = <<>> THEN 1 ELSE 2
    [] pc = "reading" /\ ~eof -> 3 + Size + 1 - at

\* Every time round the loop the end comes nearer, whatever ignore() leaves of
\* the file and however its last line ends; only a read error stops that.
EndComesNearer == [][Left' < Left \/ bad']_vars

\* Indexing ends, unless the file cannot be read to its end.
IndexingEnds == <>(pc # "reading" \/ bad)

\* "We've reached the end of a paragraph, so index it": once committed, two
\* characters with an empty line between them are in different documents.
BlankLineEndsParagraph ==
  pc = "committed" =>
    \A i \in 2 .. Size :
      newline[i - 1] /\ newline[i] =>
        \A d \in DOMAIN docs :
          \A p, q \in Chars(docs[d]) : ~(p < i /\ i < q)

=============================================================================

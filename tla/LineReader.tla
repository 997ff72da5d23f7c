----------------------------- MODULE LineReader -----------------------------
(***************************************************************************)
(* The first half of main()'s loop (vcalendar.c:186-204): physical lines   *)
(* are read into a fixed buffer, and those that begin with a space are     *)
(* joined to the line before.  The file is a sequence of kinds of          *)
(* characters; a character that has been read goes by its place in it, so  *)
(* that a lost, doubled or reordered character can be told.                *)
(***************************************************************************)
EXTENDS Naturals, Sequences, FiniteSets

F == INSTANCE FiniteSetsExt
S == INSTANCE SequencesExt

CONSTANTS
  Letter,         \* the kinds of characters for which isspace() is false
  Space,          \* ' '
  Newline,        \* '\n'
  OtherBlank,     \* the other kinds for which isspace() holds: '\r', '\t' ...
  BufSize,        \* sizeof(buf), 4096 in the code
  MaxFile,        \* bound: the longest file
  ReadMayFail     \* whether a read from the file may fail

\* Program, which instantiates this module, assumes them.
BufAssumption == BufSize \in Nat /\ BufSize > 2 /\ MaxFile \in Nat
KindAssumption ==
  /\ Space # Newline /\ {Space, Newline} \cap (Letter \cup OtherBlank) = {}
  /\ Letter \cap OtherBlank = {} /\ ReadMayFail \in BOOLEAN

Blank == {Space, Newline} \cup OtherBlank
Kind  == Letter \cup Blank

VARIABLES
  file,           \* the kinds of the characters in the file
  pos,            \* how many of them have been read
  eof,            \* feof(fh)
  err,            \* whether a read has failed
  buf,            \* the string in the buffer
  pc,             \* "gets", "peek" (at the inner loop), "end" or "aborted"
  lines           \* the logical lines handed on so far

vars == <<file, pos, eof, err, buf, pc, lines>>

----------------------------------------------------------------------------
(* What fgets(s, n, fh) does when `from' characters have been read: it     *)
(* reads n-1 more, or up to a newline, or what there is, and meets the end *)
(* of the file when it looks beyond it.                                    *)

NewlineAfter(from) == {k \in (from + 1)..Len(file) : file[k] = Newline}

Chunk(from, n) ==
  LET last == F!Min({from + n - 1, Len(file)} \cup NewlineAfter(from))
  IN  [i \in 1..(last - from) |-> from + i]

MeetsEnd(from, n) == from + n - 1 > Len(file) /\ NewlineAfter(from) = {}

\* Fault variant: the last character goes, blank or not.
Trimmed_Chomp(s) == SubSeq(s, 1, Len(s) - 1)

\* trimend(): s without the blanks at its end.
Trimmed(s) == SubSeq(s, 1, F!Max({0} \cup {i \in DOMAIN s : file[s[i]] \notin Blank}))

\* Fault variant: the inner ez_fgets is told the size of the whole buffer.
Room_Whole(s) == BufSize - 1

\* The outer ez_fgets is told one byte less than there is, and so is the inner
\* one about the room behind the line so far.
Room(s) == BufSize - Len(s) - 1

----------------------------------------------------------------------------
Init ==
  /\ file \in S!BoundedSeq(Kind, MaxFile)
  /\ pos = 0 /\ eof = FALSE /\ err = FALSE
  /\ buf = <<>> /\ pc = "gets" /\ lines = <<>>

\* The outer ez_fgets, and trimend.
Gets ==
  LET read == Chunk(pos, Room(<<>>)) IN
  /\ pc = "gets" /\ read # <<>>
  /\ buf' = Trimmed(read)
  /\ pos' = pos + Len(read)
  /\ eof' = MeetsEnd(pos, Room(<<>>))
  /\ pc' = "peek"
  /\ UNCHANGED <<file, err, lines>>

\* Fault variant: a blank line ends the loop.
GetsNone_AtBlank ==
  /\ pc = "gets" /\ Trimmed(Chunk(pos, Room(<<>>))) = <<>>
  /\ eof' = TRUE /\ pc' = "end"
  /\ UNCHANGED <<file, pos, err, buf, lines>>

\* The outer ez_fgets finds nothing more, and main goes on to its report.
GetsNone ==
  /\ pc = "gets" /\ Chunk(pos, Room(<<>>)) = <<>>
  /\ eof' = TRUE /\ pc' = "end"
  /\ UNCHANGED <<file, pos, err, buf, lines>>

\* Fault variant: any blank begins a continuation.
ContinuationNext_AnyBlank ==
  pc = "peek" /\ ~eof /\ pos < Len(file) /\ file[pos + 1] \in Blank

\* The inner loop's conditions for going on.
ContinuationNext == pc = "peek" /\ ~eof /\ pos < Len(file) /\ file[pos + 1] = Space

\* Fault variant: the space is put back as well.
Continue_PutBack == ContinuationNext /\ UNCHANGED vars

\* The space goes, what follows it is appended, and the blanks at the end go.
\* At the end of the file, and without room, nothing is appended.
Continue ==
  LET read == Chunk(pos + 1, Room(buf)) IN
  /\ ContinuationNext
  /\ buf' = Trimmed(buf \o read)
  /\ pos' = pos + 1 + Len(read)
  /\ eof' = MeetsEnd(pos + 1, Room(buf))
  /\ UNCHANGED <<file, err, pc, lines>>

\* Either ez_fgets meets a read error, and aborts the program.
GetsFails ==
  /\ ReadMayFail /\ (pc = "gets" \/ ContinuationNext)
  /\ err' = TRUE /\ pc' = "aborted"
  /\ UNCHANGED <<file, pos, eof, buf, lines>>

HandOn == lines' = Append(lines, buf) /\ pc' = "gets"

\* The last line was cut off by the end of the file.
AtEnd == pc = "peek" /\ eof /\ HandOn /\ UNCHANGED <<file, pos, eof, err, buf>>

\* fgetc finds the end, or the first character of another line, put back.
NextLine ==
  /\ pc = "peek" /\ ~eof
  /\ ~ContinuationNext
  /\ eof' = (pos = Len(file))
  /\ HandOn /\ UNCHANGED <<file, pos, err, buf>>

\* fgetc fails: EOF is no space either, and feof() stays false.
PeekFails ==
  /\ ReadMayFail /\ pc = "peek" /\ ~eof
  /\ err' = TRUE
  /\ HandOn /\ UNCHANGED <<file, pos, eof, buf>>

Finished == pc \in {"end", "aborted"} /\ UNCHANGED vars

Next ==
  \/ Gets \/ GetsNone \/ GetsFails \/ Continue \/ AtEnd \/ NextLine \/ PeekFails
  \/ Finished

Spec == Init /\ [][Next]_vars

----------------------------------------------------------------------------
(* The logical lines of a file, without reading it: as sets of places.     *)

EndOf(k) == F!Min(NewlineAfter(k - 1) \cup {Len(file)})
Starts   == {k \in DOMAIN file : k = 1 \/ file[k-1] = Newline}
Folds    == {k \in Starts : k > 1 /\ file[k] = Space}
Heads    == Starts \ Folds

\* The places of the logical line that starts at h: to the next head, without
\* the spaces of the folds and the blanks at the ends of physical lines.
Logical(h) ==
  {k \in h..Len(file) :
     /\ Heads \cap (h+1)..k = {}
     /\ k \notin Folds
     /\ \E j \in k..EndOf(k) : file[j] \notin Blank}

\* Every physical line fits in the buffer behind what it continues.
Fits ==
  \A h \in Heads : \A s \in {h} \cup {s \in Folds : s > h /\ Heads \cap (h+1)..s = {}} :
    Cardinality({k \in Logical(h) : k < s}) + Cardinality((s..EndOf(s)) \ Folds) <= BufSize - 2

----------------------------------------------------------------------------
(* Properties *)

\* What is in the buffer and in the lines was read from the file, and feof()
\* holds at its end only (vcalendar.c:186-204).
TypeOK ==
  /\ file \in Seq(Kind) /\ pos \in 0..Len(file)
  /\ eof \in BOOLEAN /\ err \in BOOLEAN
  /\ buf \in Seq(1..pos) /\ lines \in Seq(Seq(1..pos))
  /\ pc \in {"gets", "peek", "end", "aborted"}
  /\ eof => pos = Len(file)

\* The string and its terminator never exceed the buffer, whatever the file.
StaysInBuffer == Len(buf) < BufSize

\* What has been taken from the file, the line at hand included.
Taken == IF pc = "peek" THEN Append(lines, buf) ELSE lines

\* Of any file, however long its lines and whatever fails, no letter that was
\* read is lost, and none is doubled or out of order.
LettersKept ==
  /\ pc # "aborted" => \A k \in 1..pos : file[k] \in Letter =>
       \E i \in DOMAIN Taken : k \in S!Range(Taken[i])
  /\ \A i, j \in DOMAIN Taken : \A a \in DOMAIN Taken[i], b \in DOMAIN Taken[j] :
       i < j \/ (i = j /\ a < b) => Taken[i][a] < Taken[j][b]

\* A file whose lines fit comes out as its logical lines, all of them by the
\* time the report is printed.
LinesUnfold ==
  Fits /\ ~err =>
    /\ \A i \in DOMAIN lines : \E h \in Heads :
         /\ Cardinality({g \in Heads : g < h}) = i - 1
         /\ S!Range(lines[i]) = Logical(h)
    /\ pc = "end" => Len(lines) = Cardinality(Heads)
=============================================================================

------------------------------- MODULE Program -------------------------------
(***************************************************************************)
(* vcalendar.c's main() from the file to the report: the loop that reads   *)
(* and unfolds (LineReader.tla) hands each logical line to the part that   *)
(* keeps what it says (VCalendar.tla), reads on when that is done with it, *)
(* and the report is printed at the end of the file.                       *)
(***************************************************************************)
EXTENDS VCalendar

Seqs == INSTANCE SequencesExt

CONSTANTS
  Meaning,        \* what a logical line is to main: from kinds to Line
  Letter, Space, Newline, OtherBlank, BufSize, MaxFile, ReadMayFail

VARIABLES
  file, pos, eof, err, buf, lines,
  rpc             \* where the loop is

R == INSTANCE LineReader WITH pc <- rpc

reader == <<file, pos, eof, err, buf, lines, rpc>>

ASSUME ReaderAssumption == R!BufAssumption /\ R!KindAssumption
ASSUME MeaningAssumption ==
  Meaning \in [Seqs!BoundedSeq(R!Kind, BufSize) -> Line] /\ MaxLines >= MaxFile

----------------------------------------------------------------------------
ProgramInit == Init /\ R!Init

\* What main makes of the line it was handed last.
LineRead == LET l == lines[Len(lines)] IN Meaning[[i \in DOMAIN l |-> file[l[i]]]]

\* The loop is reading: the line before has been dealt with, times and all.
Reading == pc = "lines" /\ Len(seen) = Len(lines)

Reads ==
  /\ Reading
  /\ R!Gets \/ R!GetsNone \/ R!Continue \/ R!AtEnd \/ R!NextLine
  /\ UNCHANGED vars

PeekReadFails == Reading /\ R!PeekFails /\ UNCHANGED vars

\* A failed ez_fgets ends the loop and the program.
ReadFails == Reading /\ R!GetsFails /\ EzFails

\* Fault variant: a line is not processed when it ends the file.
Due_NotLast ==
  pc = "lines" =>
    /\ pc' # "aborted" /\ (pc' = "report" => eof)
    /\ seen' # seen => Len(seen) < Len(lines) /\ Line0' = LineRead

\* Of what is to do in main, a line is taken when it has been read, the report
\* begins when there is none, and a read that fails is not of these.
Due ==
  pc = "lines" =>
    /\ pc' # "aborted" /\ (pc' = "report" => rpc = "end")
    /\ seen' # seen => Len(seen) < Len(lines) /\ Line0' = LineRead

Processes == Next /\ Due /\ UNCHANGED reader

ProgramNext == Reads \/ PeekReadFails \/ ReadFails \/ Processes

ProgramSpec == ProgramInit /\ [][ProgramNext]_<<vars, reader>>

\* The process keeps running, and a read returns.  No failed read is owed.
FairProgram == ProgramSpec /\ WF_reader(Reads) /\ WF_progress(Processes)

----------------------------------------------------------------------------
(* Properties *)

\* Buffer, lines and what main keeps are sound, and a line is processed before
\* the next one is read (vcalendar.c:186-300).
ProgramTypeOK ==
  /\ R!TypeOK /\ R!StaysInBuffer /\ TypeOK
  /\ Len(lines) - Len(seen) \in {0, 1}

\* Of any file, however long its lines and whatever fails, no letter that was
\* read is lost, and none is doubled or out of order (vcalendar.c:186-204).
LettersKept == R!LettersKept

\* A file whose lines fit comes out as its logical lines, all of them by the
\* time the report is printed (vcalendar.c:191-204).
LinesUnfold == R!LinesUnfold

\* The lines of the file as they are meant, without reading it.
HeadNumber(n) == CHOOSE h \in R!Heads : Cardinality({g \in R!Heads : g < h}) = n - 1
KindsOf(places) ==
  [i \in 1..Cardinality(places) |->
     file[CHOOSE k \in places : Cardinality({j \in places : j < k}) = i - 1]]
FileMeans == [n \in 1..Cardinality(R!Heads) |-> Meaning[KindsOf(R!Logical(HeadNumber(n)))]]

\* Of a file whose lines fit, what main took is the beginning of what the file
\* says, and a report is of the whole file: nothing is missing, doubled, or
\* taken from another line.  It is true, and it is all or nothing.  Of any
\* file, nothing is reported before all of it is read (vcalendar.c:186-368).
ReportOfFile ==
  /\ pc \in Ended /\ R!Fits /\ ~err =>
       /\ Seqs!IsPrefix(seen, FileMeans) /\ ReportTrue /\ AllOrNothing
       /\ pc = "success" /\ printed = 7 => seen = FileMeans
  /\ out # <<>> /\ printed > 0 => rpc = "end" /\ pos = Len(file)
=============================================================================

----------------------------- MODULE VCalendar -----------------------------
(***************************************************************************)
(* main() of vcalendar.c: it takes the logical lines of a calendar one by  *)
(* one (LineReader.tla says which), keeps what it recognises, and prints a *)
(* report when all of them were readable.  The attendees are kept in a     *)
(* vector, here the deque that PtrVec.tla is shown to implement.  A time   *)
(* of some zone is converted by switching the process's TZ for a moment.   *)
(***************************************************************************)
EXTENDS Naturals, Sequences, FiniteSets

CONSTANTS
  Line,           \* the logical lines a calendar is made of, see LineShape
  MaxLines,       \* bound: the most lines in a calendar
  MsZone,         \* what may stand for a zone in a time, apart from Utc
  Utc,            \* the zone of a time that ends in Z
  Xref,           \* the table Ms2Posix: from the listed zones to POSIX names
  Unset,          \* TZ is not in the environment
  HomeTZ,         \* the values TZ may have when the program starts
  Bad,            \* what cannot be made out in a line
  CutShort,       \* a text some of which the heap had no room for
  MinusOne,       \* the conversions mktime and timegm answer with -1
  NameRank,       \* the order of strcasecmp() on the attendees' names
  Failures        \* which of "memory", "read", "write", "start" may fail

VARIABLES
  pc,             \* "start", "open", "lines", "convert", "mktime", "restore",
                  \* "store", "report", or how the program ended
  TZ,             \* the environment variable
  seen,           \* the lines taken so far; the last is the one at hand
  TZ_orig, rtn,   \* vcal2utc's variables of these names
  S,              \* what the static struct keeps of each kind of line
  attendees, vecLife, vecResult,  \* S.attendee_vec
  out,            \* what was printed
  printed,        \* how many sections of the report are done
  told,           \* whether stderr has an error message
  starved,        \* whether the heap refused a request
  TZ0             \* what TZ was at the start

vec  == <<attendees, vecLife, vecResult>>
env  == <<TZ, TZ_orig, rtn>>
vars == <<pc, env, seen, S, vec, out, printed, told, starved, TZ0>>

Times == {"start", "end", "sched"}
Texts == {"summary", "location", "organizer", "description"}

\* A time line names a zone and a wall-clock time, a text line has a value, an
\* attendee line a name; a line of another kind is passed over.
LineShape ==
  \A l \in Line :
    \/ l.kind \in Times /\ l.zone \in MsZone \cup {Utc}
    \/ l.kind \in Texts \cup {"other"}
    \/ l.kind = "attendee" /\ l.value \in DOMAIN NameRank \cup {Bad}

ASSUME LineAssumption == LineShape /\ MaxLines \in Nat
ASSUME ZoneAssumption ==
  /\ DOMAIN Xref \subseteq MsZone /\ Utc \notin MsZone
  \* DTSTAMP has no zone, and its line begins like none in the table.
  /\ \A l \in Line : l.kind = "sched" => l.zone \notin DOMAIN Xref

\* A time that is kept is never taken for none.
ASSUME BadAssumption ==
  \A z \in {Utc} \cup {Xref[m] : m \in DOMAIN Xref} :
    \A l \in Line : l.kind \in Times => <<z, l.wall>> # Bad

\* An ATND goes by its name and the line it was made from.
Atnd == (DOMAIN NameRank) \X (1..MaxLines)

D == INSTANCE Deque WITH
       Ptr <- Atnd, NULL <- Bad, Rank <- [a \in Atnd |-> NameRank[a[1]]],
       items <- attendees, life <- vecLife, ret <- vecResult

----------------------------------------------------------------------------
Init ==
  /\ pc = "start"
  /\ TZ0 \in HomeTZ /\ TZ = TZ0 /\ TZ_orig = Unset /\ rtn = Bad
  /\ seen = <<>>
  /\ S = [k \in Times \cup Texts |-> Bad]
  /\ D!Init
  /\ out = <<>> /\ printed = 0
  /\ told = FALSE /\ starved = FALSE

\* PTRVEC_constructor, whose failure nobody looks at.
Construct ==
  /\ pc = "start" /\ vecLife = "raw"
  /\ D!Construct
  /\ starved' = (vecLife' = "raw")
  /\ starved' => "memory" \in Failures
  /\ pc' = "open"
  /\ UNCHANGED <<env, seen, S, out, printed, told, TZ0>>

\* The options ask for nothing else, a terminal has given its style strings,
\* and the file is open.
Open ==
  /\ pc = "open" /\ pc' = "lines"
  /\ UNCHANGED <<env, seen, S, vec, out, printed, told, starved, TZ0>>

\* --version prints the version and succeeds, --help prints the usage and fails.
Version ==
  /\ pc = "open" /\ pc' = "success"
  /\ out' = <<[section |-> "version"]>>
  /\ UNCHANGED <<env, seen, S, vec, printed, told, starved, TZ0>>

Help ==
  /\ pc = "open" /\ pc' = "failure" /\ told' = TRUE
  /\ UNCHANGED <<env, seen, S, vec, out, printed, starved, TZ0>>

\* An ez_ call of main fails: it says so, and aborts the program.
EzFails ==
  /\ \/ "start" \in Failures /\ pc = "open"
     \/ "read"  \in Failures /\ pc = "lines"
     \/ "write" \in Failures /\ pc = "report"
  /\ told' = TRUE /\ pc' = "aborted"
  /\ UNCHANGED <<env, seen, S, vec, out, printed, starved, TZ0>>

----------------------------------------------------------------------------
(* One line                                                                *)

Takes(l) == pc = "lines" /\ Len(seen) < MaxLines /\ seen' = Append(seen, l)

\* A message about the line, and the end of the program, with status 1.
Refused == told' = TRUE /\ pc' = "failure"

Other(l) ==
  /\ l.kind = "other" /\ Takes(l)
  /\ UNCHANGED <<pc, env, S, vec, out, printed, told, starved, TZ0>>

\* Fault variant: a line without a value is passed over.
TextLine_Ignored(l) ==
  /\ l.kind \in Texts /\ Takes(l)
  /\ S' = IF l.value = Bad THEN S ELSE [S EXCEPT ![l.kind] = l.value]
  /\ UNCHANGED <<pc, env, vec, out, printed, told, starved, TZ0>>

\* ORGANIZER, LOCATION, SUMMARY and DESCRIPTION; the last of its kind counts.  A
\* value is what strncpy() leaves of it: 1023 bytes, or 4095 of a description.
TextLine(l) ==
  /\ l.kind \in Texts /\ Takes(l)
  /\ \/ l.value = Bad /\ Refused /\ UNCHANGED S
     \/ l.value # Bad /\ S' = [S EXCEPT ![l.kind] = l.value] /\ UNCHANGED <<pc, told>>
  /\ UNCHANGED <<env, vec, out, printed, starved, TZ0>>

\* The two texts that go through a growing buffer: when the heap refuses it
\* characters are missing, and when it refuses the first it is written to.
TextStarved(l) ==
  /\ l.kind \in {"organizer", "description"} /\ l.value # Bad /\ Takes(l)
  /\ "memory" \in Failures /\ starved' = TRUE
  /\ \/ S' = [S EXCEPT ![l.kind] = CutShort] /\ UNCHANGED pc
     \/ pc' = "crashed" /\ UNCHANGED S
  /\ UNCHANGED <<env, vec, out, printed, told, TZ0>>

\* ATND_create and PTRVEC_addTail, whose failure nobody looks at.
Attendee(l) ==
  /\ l.kind = "attendee" /\ Takes(l) /\ vecLife = "live"
  /\ \/ l.value = Bad /\ Refused /\ UNCHANGED <<vec, starved>>
     \/ /\ l.value # Bad /\ UNCHANGED <<pc, told>>
        /\ D!AddTail(<<l.value, Len(seen')>>)
        /\ starved' = (starved \/ vecResult' = Bad)
        /\ vecResult' = Bad => "memory" \in Failures
  /\ UNCHANGED <<env, S, out, printed, TZ0>>

\* ATND_create without memory writes through a null pointer, and so does
\* PTRVEC_addTail to a vector whose construction failed.
AttendeeCrash(l) ==
  /\ l.kind = "attendee" /\ Takes(l)
  /\ "memory" \in Failures \/ (vecLife = "raw" /\ l.value # Bad)
  /\ starved' = TRUE /\ pc' = "crashed"
  /\ UNCHANGED <<env, S, vec, out, printed, told, TZ0>>

\* With no vector, an attendee line that is not one still only fails.
AttendeeRefused(l) ==
  /\ l.kind = "attendee" /\ Takes(l) /\ vecLife = "raw" /\ l.value = Bad
  /\ Refused
  /\ UNCHANGED <<env, S, vec, out, printed, starved, TZ0>>

----------------------------------------------------------------------------
(* A time line: vcal2utc                                                   *)

Line0 == seen[Len(seen)]

TimeLine(l) ==
  /\ l.kind \in Times /\ Takes(l)
  /\ \/ l.wall = Bad /\ Refused
     \/ l.wall # Bad /\ pc' = "convert" /\ UNCHANGED told
  /\ UNCHANGED <<env, S, vec, out, printed, starved, TZ0>>

Timegm ==
  /\ pc = "convert" /\ Line0.zone = Utc
  /\ rtn' = <<Utc, Line0.wall>> /\ pc' = "store"
  /\ UNCHANGED <<TZ, TZ_orig, seen, S, vec, out, printed, told, starved, TZ0>>

\* Fault variant: no message about an unlisted zone.
NoZone_Silent ==
  /\ pc = "convert" /\ Line0.zone \in MsZone \ DOMAIN Xref
  /\ TZ_orig' = TZ /\ pc' = "failure"
  /\ UNCHANGED <<TZ, rtn, seen, S, vec, out, printed, told, starved, TZ0>>

NoZone ==
  /\ pc = "convert" /\ Line0.zone \in MsZone \ DOMAIN Xref
  /\ TZ_orig' = TZ /\ Refused
  /\ UNCHANGED <<TZ, rtn, seen, S, vec, out, printed, starved, TZ0>>

\* setenv, which changes nothing when the heap refuses, and nobody looks; or
\* unsetenv, which needs no memory.
Setenv(value) ==
  \/ TZ' = value /\ UNCHANGED starved
  \/ value # Unset /\ "memory" \in Failures /\ starved' = TRUE /\ UNCHANGED TZ

\* Fault variant: the event's zone is not put in place.
SetTZ_Ignored ==
  /\ pc = "convert" /\ Line0.zone \in DOMAIN Xref
  /\ TZ_orig' = TZ /\ pc' = "mktime"
  /\ UNCHANGED <<TZ, rtn, seen, S, vec, out, printed, told, starved, TZ0>>

\* What is kept is getenv()'s pointer, no copy; that setenv() leaves the value it
\* points to alone is so with glibc.
SetTZ ==
  /\ pc = "convert" /\ Line0.zone \in DOMAIN Xref
  /\ TZ_orig' = TZ /\ Setenv(Xref[Line0.zone]) /\ pc' = "mktime"
  /\ UNCHANGED <<rtn, seen, S, vec, out, printed, told, TZ0>>

\* mktime reads the wall clock in the zone TZ names.
Mktime ==
  /\ pc = "mktime"
  /\ rtn' = <<TZ, Line0.wall>> /\ pc' = "restore"
  /\ UNCHANGED <<TZ, TZ_orig, seen, S, vec, out, printed, told, starved, TZ0>>

\* Fault variant: TZ is unset whether or not it was set before.
RestoreTZ_Unset ==
  /\ pc = "restore"
  /\ TZ' = Unset /\ pc' = "store"
  /\ UNCHANGED <<TZ_orig, rtn, seen, S, vec, out, printed, told, starved, TZ0>>

RestoreTZ ==
  /\ pc = "restore"
  /\ Setenv(TZ_orig) /\ pc' = "store"
  /\ UNCHANGED <<TZ_orig, rtn, seen, S, vec, out, printed, told, TZ0>>

\* -1 means failure to main, which then stops without a word.
Store ==
  /\ pc = "store"
  /\ S' = [S EXCEPT ![Line0.kind] = rtn]
  /\ pc' = IF rtn \in MinusOne THEN "failure" ELSE "lines"
  /\ UNCHANGED <<env, seen, vec, out, printed, told, starved, TZ0>>

----------------------------------------------------------------------------
(* The report                                                              *)

EndOfFile ==
  /\ pc = "lines" /\ pc' = "report"
  /\ UNCHANGED <<env, seen, S, vec, out, printed, told, starved, TZ0>>

Sections ==
  <<"start", "end", "summary", "location", "organizer", "description", "attendee">>

\* local_strftime, which asks for TZ anew each time.
Local(t) == [tz |-> TZ, at |-> t]

\* What is printed of a kind of line: nothing when there was none.
Printed(k) ==
  IF S[k] = Bad THEN <<>>
  ELSE IF k \in Times THEN <<[section |-> k, value |-> Local(S[k])]>>
  ELSE IF k = "summary" THEN
    <<[section |-> k, value |-> S[k],
       asof |-> IF S["sched"] = Bad THEN Bad ELSE Local(S["sched"])]>>
  ELSE <<[section |-> k, value |-> S[k]]>>

PrintSection ==
  /\ pc = "report" /\ printed < 6
  /\ out' = out \o Printed(Sections[printed + 1])
  /\ printed' = printed + 1
  /\ UNCHANGED <<pc, env, seen, S, vec, told, starved, TZ0>>

\* PTRVEC_sort, whose failure nobody looks at; it does nothing to no attendees.
SortAttendees ==
  /\ pc = "report" /\ printed = 6 /\ printed' = 7
  /\ \/ vecLife = "raw" /\ UNCHANGED <<vec, starved>>
     \/ /\ D!Sort
        /\ starved' = (starved \/ vecResult' = 1)
        /\ vecResult' = 1 => attendees # <<>> /\ "memory" \in Failures
  /\ UNCHANGED <<pc, env, seen, S, out, told, TZ0>>

PrintAttendees ==
  /\ pc = "report" /\ printed = 7
  /\ out' = IF attendees = <<>> THEN out
            ELSE Append(out, [section |-> "attendee", value |-> attendees])
  /\ pc' = "success"
  /\ UNCHANGED <<env, seen, S, vec, printed, told, starved, TZ0>>

Ended == {"success", "failure", "aborted", "crashed"}
Finished == pc \in Ended /\ UNCHANGED vars

Next ==
  \/ Construct \/ Open \/ Version \/ Help \/ EzFails
  \/ \E l \in Line : \/ Other(l) \/ TextLine(l) \/ TextStarved(l) \/ TimeLine(l)
                     \/ Attendee(l) \/ AttendeeCrash(l) \/ AttendeeRefused(l)
  \/ Timegm \/ NoZone \/ SetTZ \/ Mktime \/ RestoreTZ \/ Store
  \/ EndOfFile \/ PrintSection \/ SortAttendees \/ PrintAttendees
  \/ Finished

Spec == Init /\ [][Next]_vars

\* The process keeps running; a calendar is finite.  Every step before the end
\* is one of these variables'.
progress == <<pc, seen, printed>>
FairSpec == Spec /\ WF_progress(Next)

----------------------------------------------------------------------------
(* Properties *)

\* Every conversion under way is of a time line whose wall clock strptime made
\* out (vcalendar.c:420), and the vector holds only attendees.
TypeOK ==
  /\ pc \in Ended \cup {"start", "open", "lines", "convert", "mktime", "restore", "store", "report"}
  /\ seen \in Seq(Line) /\ Len(seen) <= MaxLines
  /\ attendees \in Seq(Atnd) /\ vecLife \in {"raw", "live"}
  /\ printed \in 0..7 /\ told \in BOOLEAN /\ starved \in BOOLEAN
  /\ pc \in {"convert", "mktime", "restore", "store"} =>
       seen # <<>> /\ Line0.kind \in Times /\ Line0.wall # Bad

Given(k) == {i \in DOMAIN seen : seen[i].kind = k}
LastOf(k) == seen[CHOOSE i \in Given(k) : \A j \in Given(k) : j <= i]

\* The moment a time line means: its wall clock in its own zone.
Meant(l) == IF l.zone = Utc THEN <<Utc, l.wall>> ELSE <<Xref[l.zone], l.wall>>

\* A moment as the user is to see it, in the zone the program was started in.
AtHome(k) == IF Given(k) = {} THEN Bad ELSE [tz |-> TZ0, at |-> Meant(LastOf(k))]

\* An attendee list has each attendee line once, in the order of the names;
\* short of memory it may miss some, or be in disorder.
AttendeesRight(list) ==
  LET given == {<<seen[i].value, i>> : i \in Given("attendee")}
      shown == {list[i] : i \in DOMAIN list}
  IN  /\ shown \subseteq given /\ Cardinality(shown) = Len(list)
      /\ ~starved =>
           /\ shown = given
           /\ \A i, j \in DOMAIN list : i < j => NameRank[list[i][1]] <= NameRank[list[j][1]]

\* Whatever is printed is what the calendar says: of each kind of line the last
\* one, its time meant in the event's zone and shown in the user's, and all
\* attendees in the order of their names.
ReportTrue ==
  \A i \in DOMAIN out : LET r == out[i] IN
    \/ r.section = "version"
    \/ r.section = "attendee" /\ AttendeesRight(r.value)
    \/ starved /\ r.section # "attendee"
    \/ r.section \in Times /\ r.value = AtHome(r.section)
    \/ r.section \in Texts /\ r.value = LastOf(r.section).value
         /\ (r.section = "summary" => r.asof = AtHome("sched"))

\* A line that cannot be read keeps the whole report from being printed, and
\* without one the report has a section for every kind of line there was.
Readable(l) ==
  CASE l.kind \in Times -> l.wall # Bad /\ l.zone \in DOMAIN Xref \cup {Utc}
                           /\ Meant(l) \notin MinusOne
    [] l.kind \in Texts \cup {"attendee"} -> l.value # Bad
    [] OTHER -> TRUE

AllOrNothing ==
  /\ out # <<>> => \A i \in DOMAIN seen : starved \/ Readable(seen[i])
  /\ pc = "failure" => out = <<>>
  /\ pc = "success" /\ printed = 7 /\ ~starved =>
       {out[i].section : i \in DOMAIN out} = {seen[i].kind : i \in DOMAIN seen} \ {"other", "sched"}

\* Between lines and from then on, TZ is what it was when the program started,
\* on every way out of vcal2utc.
ZoneRestored ==
  pc \notin {"mktime", "restore"} => TZ = TZ0 \/ starved

\* The program stops early only with a message, or because a time is the one
\* that the code takes for an error.
FailureExplained == pc \in {"failure", "aborted"} => told \/ rtn \in MinusOne

\* Every calendar comes to an end.
ProgramEnds == <>(pc \in Ended)
=============================================================================

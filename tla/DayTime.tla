------------------------------- MODULE DayTime -------------------------------
(***************************************************************************)
(* secs2tod (util.c:842-881): how long it is until the clock shows some    *)
(* time of day.  Time passes in steps, of which a day has Day; a zone has  *)
(* summer time before or after one moment, or all the time, or never, and  *)
(* the clock is Shift steps ahead in it.                                   *)
(***************************************************************************)
EXTENDS Integers, FiniteSetsExt

CONSTANTS
  Day,            \* the steps of a day
  Shift,          \* how far summer time is ahead of the clock
  NoTime          \* assert(0) in place of an answer

ASSUME DayAssumption == Day \in Nat /\ Shift \in 1..(Day - 1)

\* A zone: its clock changes at the moment `at', to summer time or from it.
IsDst(z, t) == IF t >= z.at THEN z.after ELSE ~z.after
Clock(z, t) == t + (IF IsDst(z, t) THEN Shift ELSE 0)

\* localtime_r
DayOf(z, t) == Clock(z, t) \div Day
TodOf(z, t) == Clock(z, t) % Day

\* What mktime may answer for a clock reading when tm_isdst is -1: a moment the
\* clock shows it, or where it is skipped, the reading in either time.
MomentsOf(z, w) == {t \in {w, w - Shift} : Clock(z, t) = w}
MktimeAny(z, w) == IF MomentsOf(z, w) = {} THEN {w, w - Shift} ELSE MomentsOf(z, w)

\* With tm_isdst given, the reading is meant in that time, in force or not.
Mktime(w, isdst) == IF isdst THEN w - Shift ELSE w

\* The moments that tm_normalize may take for the same clock time, day days on.
Normalized(z, from, day) == MktimeAny(z, Clock(z, from) + day * Day)

\* tm has the date and tm_isdst of such a moment, and the time of day asked for.
Dptime(z, n, tod) == Mktime(DayOf(z, n) * Day + tod, IsDst(z, n))

\* Fault variant: today's time is taken, gone or not.
Answers_TodayOnly(z, from, tod) ==
  {Dptime(z, n, tod) - from : n \in Normalized(z, from, 0)}

\* Today's time if it is still to come, or else tomorrow's, or else assert(0).
Answers(z, from, tod) ==
  UNION {
    IF Dptime(z, n, tod) > from THEN {Dptime(z, n, tod) - from}
    ELSE {IF Dptime(z, m, tod) > from THEN Dptime(z, m, tod) - from ELSE NoTime :
            m \in Normalized(z, from, 1)}
    : n \in Normalized(z, from, 0)}

----------------------------------------------------------------------------
(* Without a calendar: the next moment at which the clock shows tod.       *)

Remaining(z, from, tod) == Min({d \in 1..(3 * Day) : TodOf(z, from + d) = tod})

\* Whether the clock stays the same from midnight to the midnight after next.
Steady(z, from) ==
  LET midnight == from - TodOf(z, from)
  IN  z.at \notin (midnight - Shift)..(midnight + 2 * Day + Shift)
=============================================================================

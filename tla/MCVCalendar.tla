---------------------------- MODULE MCVCalendar ----------------------------
(* VCalendar for TLC: a zone in the table and one that is not, two names   *)
(* that compare equal, and for each kind of line a good and a bad one.     *)
EXTENDS VCalendar, TLC

CONSTANTS central, nowhere, chicago, berlin, noon, epoch, ann, ANN, bob, v1, v2

Time(k, z, w) == [kind |-> k, zone |-> z, wall |-> w]
Text(k, v)    == [kind |-> k, value |-> v]

MCMsZone == {central, nowhere}
MCXref == central :> chicago
MCNameRank == ann :> 1 @@ ANN :> 1 @@ bob :> 2
MCHomeTZ == {Unset, berlin}
MCMinusOne == {<<Utc, epoch>>}

TimeLines ==
  {Time("start", central, noon), Time("start", nowhere, noon), Time("start", Utc, epoch),
   Time("start", central, Bad), Time("end", Utc, noon), Time("sched", Utc, noon)}
AttendeeLines == {Text("attendee", w) : w \in {ann, ANN, bob, Bad}}
TextLines == {Text("summary", v1), Text("summary", v2), Text("description", Bad), Text("organizer", v1)}
MCLine == TimeLines \cup AttendeeLines \cup TextLines \cup {Text("other", v1)}
=============================================================================

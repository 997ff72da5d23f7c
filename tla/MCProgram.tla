----------------------------- MODULE MCProgram -----------------------------
(* Program for TLC: the shortest lines are attendees, texts, and times of a *)
(* listed zone, of Utc and of no use; any other line is passed over.        *)
EXTENDS Program, TLC

LOCAL INSTANCE SequencesExt

CONSTANTS x, central, chicago, berlin, noon, ann, v1

Time(k, z, w) == [kind |-> k, zone |-> z, wall |-> w]
Value(k, v)   == [kind |-> k, value |-> v]

MCMsZone == {central}
MCXref == central :> chicago
MCNameRank == ann :> 1
MCHomeTZ == {berlin}

Known ==
  <<x>> :> Value("attendee", ann) @@ <<x, x>> :> Value("summary", v1) @@
  <<x, Space, x>> :> Time("start", central, noon) @@ <<x, x, x>> :> Time("end", Utc, noon) @@
  <<Space, x>> :> Value("summary", Bad)
PassedOver == Value("other", v1)
MCMeaning == [s \in BoundedSeq(R!Kind, BufSize) |-> IF s \in DOMAIN Known THEN Known[s] ELSE PassedOver]
MCLine == {PassedOver} \cup {Known[s] : s \in DOMAIN Known}
=============================================================================

----------------------------- MODULE MCPtrVec -----------------------------
(* PtrVec for TLC: two attendees, of which one sorts before the other.     *)
EXTENDS PtrVec, TLC

CONSTANTS p1, p2

MCPtr == {p1, p2}
MCRank == p1 :> 1 @@ p2 :> 2
MCResizeArgs == {0, 1, 4, 5, 6}
===========================================================================

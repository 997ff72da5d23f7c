------------------------------ MODULE MCRotBuf ------------------------------
(* RotBuf for TLC: one thread's counts wrap, at 16, whose remainder by 5   *)
(* is that of 2^32; another thread prints a time, and addresses, which may *)
(* not be had.                                                             *)
EXTENDS RotBuf, TLC

CONSTANTS t1, t2, local, gmt, addr

MCNBufs == local :> 5 @@ gmt :> 5 @@ addr :> 5
MCMaxCalls ==
  t1 :> (local :> 18 @@ gmt :> 1 @@ addr :> 0) @@ t2 :> (local :> 1 @@ gmt :> 0 @@ addr :> 6)
=============================================================================

----------------------------- MODULE MCPopen3 -----------------------------
(* Popen3 for TLC: room for the pipes of two children.                     *)
EXTENDS Popen3, TLC

CONSTANTS c1, c2

MCChild == {c1, c2}
MCPid == c1 :> 101 @@ c2 :> 102
MCFd == 0..11
MCOpenAtStart == {{}, Stream}
MCMaxMs == {-1, 0, 5}
===========================================================================

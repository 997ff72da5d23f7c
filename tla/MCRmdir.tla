------------------------------ MODULE MCRmdir ------------------------------
(* Rmdir for TLC.                                                          *)
EXTENDS Rmdir
=============================================================================

------------------------------- MODULE MCStr -------------------------------
(* Str for TLC: a letter in upper and in lower case, and texts of several  *)
(* lengths.                                                                *)
EXTENDS Str, TLC

CONSTANTS a, A0

MCLower == a :> a @@ A0 :> a
MCText == {<<>>, <<A0, a>>, <<a, A0, A0>>}
=============================================================================

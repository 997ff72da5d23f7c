------------------------------ MODULE AString ------------------------------
(***************************************************************************)
(* What str.h promises its caller: a string that is appended to until it   *)
(* is reset.  An operation appends all of a text, or nothing; it never     *)
(* changes what was there before.  Str.tla is shown to implement it.       *)
(***************************************************************************)
EXTENDS Naturals, Sequences

CONSTANTS
  Text,         \* the texts a caller appends
  Lower         \* from characters to lower case

VARIABLES
  value,        \* the string
  alive         \* whether it is constructed, and not yet destroyed

avars == <<value, alive>>

----------------------------------------------------------------------------
Init == value = <<>> /\ alive = FALSE

Construct == ~alive /\ value' = <<>> /\ alive' \in BOOLEAN
Reset     == alive /\ value' = <<>> /\ UNCHANGED alive
Extend(s) == alive /\ value' = value \o s /\ UNCHANGED alive
ToLower   == alive /\ value' = [i \in DOMAIN value |-> Lower[value[i]]] /\ UNCHANGED alive
Destroy   == alive /\ value' = <<>> /\ alive' = FALSE

Next == Construct \/ Reset \/ ToLower \/ Destroy \/ \E s \in Text : Extend(s)

Spec == Init /\ [][Next]_avars
=============================================================================

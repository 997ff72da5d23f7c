-------------------------------- MODULE Walks --------------------------------
(***************************************************************************)
(* A loop that goes through a string: from each place it appends a text    *)
(* and goes on n places behind it, until it is past the end.               *)
(***************************************************************************)
EXTENDS Integers, Sequences

\* What is appended when pieces[i] is [n, text], the turn taken at the i-th place.
Walk(pieces) ==
  LET from[i \in 1..(Len(pieces) + 1)] ==
        IF i > Len(pieces) THEN <<>> ELSE pieces[i].text \o from[i + pieces[i].n]
  IN  from[1]
=============================================================================

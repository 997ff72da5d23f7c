----------------------------- MODULE MCEncode -----------------------------
(* Encode for TLC: for each encoder a letter, and what it escapes or may   *)
(* be taken for an escape.                                                 *)
EXTENDS Encode, TLC

MCAlphabet ==
  "XML" :> {97, 38, 60, 34, 59, 233} @@
  "URL" :> {97, 33, 42, 37, 50, 49} @@
  "HTML" :> {65, 38, 10, 226, 233, 8364, 65533, 128512} @@
  "JSON" :> {97, 92, 34, 117, 10} @@
  "regex" :> {97, 92, 46, 45, 94} @@
  "SQL" :> {97, 39, 92} @@
  "any" :> {97, 60, 10, 1, 233}
===========================================================================

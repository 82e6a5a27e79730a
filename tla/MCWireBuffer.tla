---------------------------- MODULE MCWireBuffer ----------------------------
(***************************************************************************)
(* WireBuffer on strings of chosen lengths, of letters that differ within  *)
(* a string and tell the strings of different lengths apart.               *)
(***************************************************************************)
EXTENDS WireBuffer

MCStrings == {[k \in 1 .. n |-> 64 + n + k] : n \in {0, 2, 6}}
=============================================================================

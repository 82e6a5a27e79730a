----------------------------- MODULE MCDBHelper -----------------------------
(***************************************************************************)
(* DBHelper on small instances.                                            *)
(***************************************************************************)
EXTENDS DBHelper, TLC

Symmetry == Permutations(Emails) \cup Permutations(Passwords)
=============================================================================

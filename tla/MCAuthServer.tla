---------------------------- MODULE MCAuthServer ----------------------------
(***************************************************************************)
(* AuthServer on small instances.                                          *)
(***************************************************************************)
EXTENDS AuthServer, TLC

Symmetry == Permutations(Emails) \cup Permutations(Passwords)
=============================================================================

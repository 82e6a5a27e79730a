---------------------------- MODULE MCChatServer ----------------------------
(***************************************************************************)
(* ChatServer on small instances.                                          *)
(***************************************************************************)
EXTENDS ChatServer, TLC

Symmetry == Permutations(Clients) \cup Permutations(Texts)
TextSymmetry == Permutations(Texts)
=============================================================================

---------------------------- MODULE MCCredentials ----------------------------
(***************************************************************************)
(* Credentials for TLC: users, browsers and tasks are interchangeable.     *)
(***************************************************************************)
EXTENDS Credentials, TLC

Symmetry == Permutations(Users) \cup Permutations(Clients)
=============================================================================

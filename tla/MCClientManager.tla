-------------------------- MODULE MCClientManager --------------------------
(***************************************************************************)
(* Small instances of ClientManager for TLC.                               *)
(***************************************************************************)
EXTENDS ClientManager, TLC

CONSTANTS r1, r2, t1, t2, d1, d2, c1, c2

\* Every token may use every database.
AccessAll == [t \in Tokens |-> Databases]

Symmetry == Permutations(Requests) \cup Permutations(Clients)
=============================================================================

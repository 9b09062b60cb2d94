--------------------------- MODULE MCDeviceGrant ---------------------------
(***************************************************************************)
(* Small instances of DeviceGrant and of its refinement for TLC: handlers  *)
(* that race over device codes, of which there is one at a time; and, in   *)
(* behaviours of their own, two device codes that draw the same user code. *)
(***************************************************************************)
EXTENDS DeviceGrantRefinement, TLC

CONSTANTS t1, t2, s1, s2, d1, d2, u1

VARIABLE part

Collide == INSTANCE DeviceGrant WITH
  Colliding <- TRUE, DeviceLimit <- 2, MaxTime <- 0

RaceInit ==
  \/ part = "race" /\ Init
  \/ part = "collide" /\ Collide!Init
RaceNext ==
  \/ part = "race" /\ Next /\ UNCHANGED part
  \/ part = "collide" /\ Collide!Next /\ UNCHANGED part
RaceSpec == RaceInit /\ [][RaceNext]_<<part, vars>>

Symmetry ==
  Permutations({t1, t2}) \cup Permutations({s1, s2}) \cup Permutations({d1, d2})
=============================================================================

--------------------------- MODULE MCOAuthTokens ---------------------------
(***************************************************************************)
(* Small instances of OAuthTokens and of its refinement for TLC.           *)
(***************************************************************************)
EXTENDS OAuthTokensRefinement, TLC

CONSTANTS t1, t2, t3, s1, s2, c1, c2

VARIABLE part

TwoThreads == {t1, t2}
ThreeThreads == {t1, t2, t3}
OneSubject == {s1}
OneCode == {c1}
TwoCodes == {c1, c2}
Symmetry ==
  Permutations({t1, t2, t3}) \cup Permutations({s1, s2})
    \cup Permutations({c1, c2})

Busy == {t \in Threads : pc[t] # "idle"}

\* One code, and as many rotations as its hashes allow.
ReplayInit == Init /\ part = "race"

ReplaySpec == ReplayInit /\ [][Next /\ UNCHANGED part]_<<vars, part>>

\* Two bounds on the same endpoint: three handlers on one code and its
\* rotations; or as many tokens as there is room for, from two codes.
Bounded ==
  \/ part = "race" /\ Cardinality(minted') <= 1
  \/ part = "room" /\ nextHash' <= 5 /\ Cardinality(Busy') <= 2

RaceInit == Init /\ part \in {"race", "room"}

RaceSpec == RaceInit /\ [][Next /\ Bounded /\ UNCHANGED part]_<<vars, part>>
=============================================================================

----------------------- MODULE OAuthTokensRefinement -----------------------
(***************************************************************************)
(* The token endpoint implements CredentialChain: the refinement mapping,  *)
(* and the liveness of the sweeper, which is what releases the resources   *)
(* of tokens nobody revokes.                                               *)
(***************************************************************************)
EXTENDS OAuthTokens

\* A handler that has taken c and has not yet issued anything for it.
Holds(t, c) == pc[t] \in {"check_subject", "put_refresh"} /\ req[t].cred = c

\* Where a code or refresh token is in its life.  (An access token is not a
\* credential of the chain: it is never issued for one in lineage, so it
\* stays unborn.)
StageOf(c) ==
  CASE c \in Codes /\ (c \notin minted
         \/ \E t \in Threads : pc[t] = "put_code" /\ req[t].cred = c) -> "unborn"
    [] c \in Hash /\ lineage[c] = None -> "unborn"
    [] OTHER ->
         IF \/ c \in Codes /\ codes[c] # None
            \/ c \in Hash /\ tokens[c] # None THEN "live"
         ELSE IF \E t \in Threads : Holds(t, c) THEN "held"
         ELSE "gone"

Chain == INSTANCE CredentialChain WITH
  Root <- Codes,
  NoCred <- None,
  stage <- [c \in Cred |-> StageOf(c)],
  parent <- [c \in Cred |-> IF c \in Hash THEN lineage[c] ELSE None]

\* The endpoint is an implementation of the single-use credential chain:
\* every step of a handler or of the sweeper is a step of the chain, or
\* changes nothing in it.
ImplementsChain == Chain!ChainSpec

\* A handler that was admitted runs on; the sweeper's ticker keeps firing
\* (StartSweeper, every minute); the clock moves.
Fairness ==
  /\ \A t \in Threads : WF_vars(Continue(t))
  /\ WF_vars(Sweep)
  /\ WF_vars(Tick)

FairSpec == Spec /\ Fairness

\* Every access token stored is sooner or later reported to the revocation
\* hook, even if its client simply goes away: the sweeper finds it.
EventuallyReported ==
  \A h \in Hash :
    (h \in AccessIn(Hash) /\ tokens[h].exp < MaxTime) ~> (h \in reported)

=============================================================================

-------------------------- MODULE CredentialChain --------------------------
(***************************************************************************)
(* What the token endpoint promises about single-use credentials, with no  *)
(* store, lock, clock or request: an authorisation code or a refresh token *)
(* is born once, may be taken for exchange once, and an exchange yields at *)
(* most one successor.  OAuthTokens implements this specification.         *)
(***************************************************************************)

CONSTANTS
  Cred,       \* every authorisation code and every refresh token
  Root,       \* those that start a chain: the authorisation codes
  NoCred

VARIABLES
  stage,      \* [Cred -> Stage]
  parent      \* the credential each one was exchanged for, or NoCred

Stage == {"unborn", "live", "held", "gone"}

ChainInit ==
  /\ stage = [c \in Cred |-> "unborn"]
  /\ parent = [c \in Cred |-> NoCred]

\* A resource owner signs in, and receives a code.
Grant(c) ==
  /\ stage[c] = "unborn"
  /\ stage' = [stage EXCEPT ![c] = "live"]
  /\ UNCHANGED parent

\* A code that was generated but never stored.
Discard(c) ==
  /\ stage[c] = "unborn"
  /\ stage' = [stage EXCEPT ![c] = "gone"]
  /\ UNCHANGED parent

\* One request takes the credential; nobody can take it again.
Take(c) ==
  /\ stage[c] = "live"
  /\ stage' = [stage EXCEPT ![c] = "held"]
  /\ UNCHANGED parent

\* The request that took c exchanges it for the new refresh token d.
Exchange(c, d) ==
  /\ stage[c] = "held"
  /\ stage[d] = "unborn"
  /\ stage' = [stage EXCEPT ![c] = "gone", ![d] = "live"]
  /\ parent' = [parent EXCEPT ![d] = c]

\* The request that took c gives up.
Fail(c) ==
  /\ stage[c] = "held"
  /\ stage' = [stage EXCEPT ![c] = "gone"]
  /\ UNCHANGED parent

\* Expiry, revocation, replay or misuse: any set of live credentials dies.
Withdraw(C) ==
  /\ \A c \in C : stage[c] = "live"
  /\ stage' = [c \in Cred |-> IF c \in C THEN "gone" ELSE stage[c]]
  /\ UNCHANGED parent

ChainNext ==
  \/ \E c \in Root : Grant(c) \/ Discard(c)
  \/ \E c \in Cred : Take(c) \/ Fail(c)
  \/ \E c \in Cred, d \in Cred \ Root : Exchange(c, d)
  \/ \E C \in SUBSET Cred : Withdraw(C)

chainVars == <<stage, parent>>

ChainSpec == ChainInit /\ [][ChainNext]_chainVars

=============================================================================

----------------------------- MODULE DeviceFlow -----------------------------
(***************************************************************************)
(* What a device authorisation (RFC 8628) promises, with no store, poll or *)
(* handler in sight: a code is answered at most once, by approval in one   *)
(* account's name or by refusal, and tokens are granted at most once, only *)
(* after an approval, and only to the account that gave it.                *)
(***************************************************************************)

CONSTANTS
  Devices,      \* device codes
  Subjects,     \* user accounts
  Nobody        \* no account

VARIABLES
  stage,        \* where each device code is in its life
  owner         \* the account that approved it

vars == <<stage, owner>>

Move(d, from, to) ==
  /\ stage[d] \in from
  /\ stage' = [stage EXCEPT ![d] = to]

\* A device obtains its codes, or is told there is no room for them.
Begin(d) ==
  /\ \/ Move(d, {"unknown"}, "pending")
     \/ Move(d, {"unknown"}, "closed")
  /\ UNCHANGED owner

Approve(d, s) ==
  /\ Move(d, {"pending"}, "approved")
  /\ owner' = [owner EXCEPT ![d] = s]

Deny(d) ==
  /\ Move(d, {"pending"}, "denied")
  /\ UNCHANGED owner

\* One poll redeems the approval ...
Claim(d) ==
  /\ Move(d, {"approved"}, "claimed")
  /\ UNCHANGED owner

\* ... and is granted tokens, or finds no room for them.
Grant(d) ==
  /\ Move(d, {"claimed"}, "granted")
  /\ UNCHANGED owner

Fail(d) ==
  /\ Move(d, {"claimed"}, "closed")
  /\ UNCHANGED owner

\* Codes go away: expired, refused, or their owner is no longer let in.
Close(D) ==
  /\ \A d \in D : stage[d] \in {"pending", "approved", "denied"}
  /\ stage' = [d \in Devices |-> IF d \in D THEN "closed" ELSE stage[d]]
  /\ UNCHANGED owner

Init ==
  /\ stage = [d \in Devices |-> "unknown"]
  /\ owner = [d \in Devices |-> Nobody]

Next ==
  \/ \E d \in Devices :
       \/ Begin(d) \/ Deny(d) \/ Claim(d) \/ Grant(d) \/ Fail(d)
       \/ \E s \in Subjects : Approve(d, s)
  \/ \E D \in SUBSET Devices : Close(D)

FlowSpec == Init /\ [][Next]_vars

=============================================================================

----------------------- MODULE DeviceGrantRefinement -----------------------
(* The device grant implements DeviceFlow: the refinement mapping. *)
EXTENDS DeviceGrant

\* Where a device code is in its life.
StageOf(d) ==
  CASE d \notin minted -> "unknown"
    [] d \in minted /\ devices[d] # None ->
         IF devices[d].approved THEN "approved"
         ELSE IF devices[d].denied THEN "denied"
         ELSE "pending"
    [] d \in minted /\ devices[d] = None ->
         IF \E t \in Threads : pc[t] = "issue" /\ req[t].device = d
         THEN "claimed"
         ELSE IF grants[d] # <<>> THEN "granted"
         ELSE "closed"

Flow == INSTANCE DeviceFlow WITH
  Nobody <- None,
  stage <- [d \in Devices |-> StageOf(d)],
  owner <- [d \in Devices |-> IF answer[d] = Refused THEN None
                                                     ELSE answer[d]]

\* Every step of a browser, a poll, the sweeper or the revocation hook is a
\* step of the device flow, or changes nothing in it.
ImplementsFlow == Flow!FlowSpec

=============================================================================

------------------------- MODULE DeviceGrant_proofs -------------------------
(***************************************************************************)
(* The device grant, for any number of devices, accounts and handlers, any *)
(* lifetimes and limits, and whether or not user codes collide: answers    *)
(* stand, tokens are granted once, the index is sound, polls are paced,    *)
(* and DeviceFlow is implemented.                                          *)
(***************************************************************************)
EXTENDS DeviceGrantRefinement, TLAPS

(***************************************************************************)
(* What the steps of the handlers have in common.                          *)
(***************************************************************************)

Handlers ==
  /\ pc \in [Threads -> PC]
  /\ req \in [Threads -> Request]
  /\ \A t \in Threads : PlaceOK(t)

\* A handler may move to any place whose local variables are set.
LEMMA GotoHandlers ==
  ASSUME Handlers, NEW t \in Threads, NEW place \in PC, NEW r \in Request,
         Goto(t, place, r), minted' = minted,
         place # "idle" => r.device \in minted,
         place \in {"authenticate", "approve", "issue"} =>
           r.subject \in Subjects
  PROVE  Handlers'
<1>1. pc' \in [Threads -> PC] /\ req' \in [Threads -> Request]
  BY DEF Handlers, Goto
<1>2. ASSUME NEW u \in Threads
      PROVE  PlaceOK(u)'
  <2>1. CASE u = t
    <3>1. pc'[u] = place /\ req'[u] = r
      BY <2>1 DEF Handlers, Goto
    <3> QED
      BY <3>1 DEF PlaceOK
  <2>2. CASE u # t
    <3>1. pc'[u] = pc[u] /\ req'[u] = req[u]
      BY <2>2 DEF Handlers, Goto
    <3> QED
      BY <3>1 DEF PlaceOK, Handlers
  <2> QED
    BY <2>1, <2>2
<1> QED
  BY <1>1, <1>2 DEF Handlers

\* A handler may always finish.
LEMMA FinishHandlers ==
  ASSUME Handlers, NEW t \in Threads, Finish(t), minted' = minted
  PROVE  Handlers'
<1>1. NoRequest \in Request /\ "idle" \in PC
  BY DEF NoRequest, Request, PC
<1> QED
  BY <1>1, GotoHandlers DEF Finish

\* Handlers that do not move stay well-formed while codes are generated.
LEMMA StayHandlers ==
  ASSUME Handlers, UNCHANGED <<pc, req>>, minted \subseteq minted'
  PROVE  Handlers'
BY DEF Handlers, PlaceOK

\* What an answer, a poll or a removal may not do to a code that has left
\* the store, and what follows: no new claim, and no new grant.
Quiet ==
  /\ \A u \in Threads :
       pc'[u] = "issue" => pc[u] = "issue" /\ req'[u] = req[u]
  /\ minted \subseteq minted'
  /\ \A d \in minted : devices[d] = None =>
       devices'[d] = None /\ answer'[d] = answer[d]
  /\ grants' = grants

LEMMA QuietKeeps ==
  ASSUME DeviceInv, Quiet
  PROVE  ClaimInv' /\ GrantInv'
<1>1. ASSUME NEW u \in Threads, pc'[u] = "issue"
      PROVE  /\ devices'[req'[u].device] = None
             /\ grants'[req'[u].device] = <<>>
             /\ answer'[req'[u].device] = req'[u].subject
  <2>1. pc[u] = "issue" /\ req'[u] = req[u]
    BY <1>1 DEF Quiet
  <2>2. req[u].device \in minted
    BY <2>1 DEF DeviceInv, PlaceOK
  <2>3. /\ devices[req[u].device] = None
        /\ grants[req[u].device] = <<>>
        /\ answer[req[u].device] = req[u].subject
    BY <2>1 DEF DeviceInv, ClaimInv
  <2> QED
    BY <2>1, <2>2, <2>3 DEF Quiet
<1>2. ClaimInv'
  BY <1>1 DEF ClaimInv, Quiet, DeviceInv
<1>3. GrantInv'
  BY DEF GrantInv, Quiet, DeviceInv
<1> QED
  BY <1>2, <1>3

\* A handler that moves anywhere but to issue makes no claim.
LEMMA GotoClaims ==
  ASSUME Handlers, NEW t \in Threads, NEW place, NEW r, place # "issue",
         Goto(t, place, r), NEW u \in Threads, pc'[u] = "issue"
  PROVE  pc[u] = "issue" /\ req'[u] = req[u]
BY DEF Handlers, Goto

\* Removing devices leaves the store well-typed and the answers true.
LEMMA RemoveKeeps ==
  ASSUME DeviceInv, NEW D \in SUBSET Devices, Remove(D),
         UNCHANGED <<minted, answer>>
  PROVE  /\ devices' \in [Devices -> DeviceCode \cup {None}]
         /\ userCodes' \in [UserCodes -> Devices \cup {None}]
         /\ AnswerInv'
         /\ \A d \in Devices : devices[d] = None => devices'[d] = None
<1>1. devices' \in [Devices -> DeviceCode \cup {None}]
  BY DEF DeviceInv, TypeOK, Remove
<1>2. userCodes' \in [UserCodes -> Devices \cup {None}]
  BY DEF DeviceInv, TypeOK, Remove
<1>3. \A d \in Devices : devices'[d] \in {None, devices[d]}
  BY DEF Remove
<1>4. AnswerInv'
  BY <1>3 DEF DeviceInv, AnswerInv, Pending
<1> QED
  BY <1>1, <1>2, <1>3, <1>4

(***************************************************************************)
(* The inductive invariant.                                                *)
(***************************************************************************)

LEMMA DeviceInvInit == Init => DeviceInv
<1> SUFFICES ASSUME Init
             PROVE  DeviceInv
  OBVIOUS
<1>1. TypeOK
  BY DEF Init, TypeOK, NoRequest, Request, PC
<1>2. \A t \in Threads : PlaceOK(t)
  BY DEF Init, PlaceOK
<1>3. AnswerInv /\ ClaimInv /\ GrantInv
  BY DEF Init, AnswerInv, ClaimInv, GrantInv
<1> QED
  BY <1>1, <1>2, <1>3 DEF DeviceInv

\* A new device code.
LEMMA RequestDeviceKeeps ==
  ASSUME DeviceInv, NEW d \in Devices, NEW u \in UserCodes,
         RequestDevice(d, u)
  PROVE  DeviceInv'
<1> USE DEF storeVars
<1> DEFINE k == [user |-> u, subject |-> None, approved |-> FALSE,
                 denied |-> FALSE, exp |-> now + DeviceTTL, polled |-> Never]
<1>1. k \in DeviceCode /\ k # None
  <2> DEFINE e == now + DeviceTTL
  <2>1. e \in Nat
    BY ClockAssumption DEF DeviceInv, TypeOK
  <2> HIDE DEF e
  <2>2. [user |-> u, subject |-> None, approved |-> FALSE, denied |-> FALSE,
         exp |-> e, polled |-> Never] \in DeviceCode
    BY <2>1 DEF DeviceCode
  <2>3. k \in DeviceCode
    BY <2>2 DEF e
  <2> QED
    BY <2>3, DeviceAssumption
<1>2. ~k.approved /\ ~k.denied
  OBVIOUS
<1>3. \/ UNCHANGED storeVars
      \/ /\ devices' = [devices EXCEPT ![d] = k]
         /\ userCodes' = [userCodes EXCEPT ![u] = d]
  BY DEF RequestDevice
<1> HIDE DEF k
<1>4. TypeOK'
  <2>1. TypeOK /\ minted' \in SUBSET Devices
    BY DEF RequestDevice, DeviceInv, TypeOK
  <2>2. UNCHANGED <<now, active, hook, pc, req, answer, answers, grants>>
    BY DEF RequestDevice
  <2>3. devices' \in [Devices -> DeviceCode \cup {None}]
    BY <1>1, <1>3, <2>1 DEF TypeOK
  <2>4. userCodes' \in [UserCodes -> Devices \cup {None}]
    BY <1>3, <2>1 DEF TypeOK
  <2> QED
    BY <2>1, <2>2, <2>3, <2>4 DEF TypeOK
<1>5. Handlers'
  BY StayHandlers DEF RequestDevice, DeviceInv, Handlers, TypeOK
<1>6. d \notin minted /\ devices[d] = None /\ answer[d] = None
  BY DEF RequestDevice, DeviceInv, AnswerInv
<1>7. \A c \in Devices : c # d => devices'[c] = devices[c]
  BY <1>3 DEF DeviceInv, TypeOK
<1>8. devices'[d] \in {None, k}
  BY <1>3, <1>6 DEF DeviceInv, TypeOK
<1>9. AnswerInv'
  <2>1. minted' = minted \cup {d} /\ answer' = answer
    BY DEF RequestDevice
  <2> QED
    BY <2>1, <1>1, <1>2, <1>6, <1>7, <1>8 DEF DeviceInv, AnswerInv, Pending
<1>10. Quiet
  BY <1>6, <1>7 DEF RequestDevice, Quiet, DeviceInv, TypeOK
<1> QED
  BY <1>4, <1>5, <1>9, <1>10, QuietKeeps DEF DeviceInv, Handlers

\* The lookups, the sign-in and the first half of a poll change no store.
LEMMA ReadersKeep ==
  ASSUME DeviceInv, NEW t \in Threads,
         \/ \E u \in UserCodes, s \in Subjects : Lookup(t, u, s)
         \/ Authenticate(t)
         \/ \E d \in Devices : Poll(t, d)
  PROVE  DeviceInv'
<1> USE DEF storeVars, histVars
<1> DEFINE Move(place, r) ==
      /\ Goto(t, place, r)
      /\ place # "idle" => r.device \in minted
      /\ place \in {"authenticate", "approve", "issue"} =>
           r.subject \in Subjects
    Moves == \E place \in PC \ {"issue"}, r \in Request : Move(place, r)
<1>1. Moves
  <2>1. ASSUME NEW u \in UserCodes, NEW s \in Subjects, Lookup(t, u, s)
        PROVE  Moves
    <3> DEFINE q == [NoRequest EXCEPT !.device = userCodes[u], !.subject = s]
               n == [NoRequest EXCEPT !.device = userCodes[u]]
    <3>1. userCodes[u] \in Devices /\ devices[userCodes[u]] # None
      BY <2>1 DEF Lookup, Answerable, Pending, DeviceInv, TypeOK
    <3>2. userCodes[u] \in minted
      BY <3>1 DEF DeviceInv, AnswerInv
    <3>3. q \in Request /\ q.device \in minted /\ q.subject \in Subjects
      BY <3>1, <3>2 DEF NoRequest, Request
    <3>4. n \in Request /\ n.device \in minted
      BY <3>1, <3>2 DEF NoRequest, Request
    <3>5. Goto(t, "authenticate", q) \/ Goto(t, "deny", n)
      BY <2>1 DEF Lookup
    <3> HIDE DEF q, n
    <3> QED
      BY <3>3, <3>4, <3>5 DEF PC
  <2>2. ASSUME Authenticate(t)
        PROVE  Moves
    <3>1. req[t] \in Request /\ req[t].device \in minted
            /\ req[t].subject \in Subjects
      BY <2>2 DEF Authenticate, DeviceInv, TypeOK, PlaceOK
    <3>2. NoRequest \in Request
      BY DEF NoRequest, Request
    <3>3. Goto(t, "approve", req[t]) \/ Goto(t, "idle", NoRequest)
      BY <2>2 DEF Authenticate, Finish
    <3> QED
      BY <3>1, <3>2, <3>3 DEF PC
  <2>3. ASSUME NEW d \in Devices, Poll(t, d)
        PROVE  Moves
    <3> DEFINE n == [NoRequest EXCEPT !.device = d, !.at = now]
    <3>1. n \in Request /\ n.device = d
      BY DEF NoRequest, Request, DeviceInv, TypeOK
    <3>2. d \in minted
      BY <2>3 DEF Poll, DeviceInv, AnswerInv
    <3>3. Goto(t, "touch", n) \/ Goto(t, "delete", n)
      BY <2>3 DEF Poll
    <3> HIDE DEF n
    <3> QED
      BY <3>1, <3>2, <3>3 DEF PC
  <2> QED
    BY <2>1, <2>2, <2>3
<1>2. UNCHANGED <<now, devices, userCodes, active, hook, minted, answer,
                  answers, grants>>
  BY DEF Lookup, Authenticate, Poll
<1>3. Handlers
  BY DEF DeviceInv, TypeOK, Handlers
<1>4. Handlers'
  BY <1>1, <1>2, <1>3, GotoHandlers
<1> HIDE DEF Moves
<1>5. TypeOK' /\ AnswerInv'
  BY <1>2, <1>4 DEF DeviceInv, TypeOK, Handlers, AnswerInv, Pending
<1>6. Quiet
  BY <1>1, <1>2, <1>3, GotoClaims DEF Quiet, Moves
<1> QED
  BY <1>4, <1>5, <1>6, QuietKeeps DEF DeviceInv, Handlers

\* An approval or a refusal answers a device that awaits one.
LEMMA AnswerKeeps ==
  ASSUME DeviceInv, NEW t \in Threads, Approve(t) \/ Deny(t)
  PROVE  DeviceInv'
<1> DEFINE d == req[t].device
<1>1. d \in Devices /\ d \in minted
  BY DEF Approve, Deny, DeviceInv, TypeOK, PlaceOK
<1>2. Finish(t) /\ UNCHANGED <<now, userCodes, active, hook, minted, answers,
                               grants>>
  BY DEF Approve, Deny
<1>3. Handlers
  BY DEF DeviceInv, TypeOK, Handlers
<1>4. Handlers'
  BY <1>2, <1>3, FinishHandlers
<1>5. \A u \in Threads : pc'[u] = "issue" => pc[u] = "issue" /\ req'[u] = req[u]
  BY <1>2, <1>3, GotoClaims DEF Finish
<1>6. CASE UNCHANGED <<devices, answer>>
  <2>1. TypeOK' /\ AnswerInv'
    BY <1>2, <1>4, <1>6 DEF DeviceInv, TypeOK, Handlers, AnswerInv, Pending
  <2>2. Quiet
    BY <1>2, <1>5, <1>6 DEF Quiet
  <2> QED
    BY <1>4, <2>1, <2>2, QuietKeeps DEF DeviceInv, Handlers
<1>7. CASE ~UNCHANGED <<devices, answer>>
  <2> DEFINE s == req[t].subject
             yes == [devices[d] EXCEPT !.approved = TRUE, !.subject = s]
             no == [devices[d] EXCEPT !.denied = TRUE]
  <2>1. Pending(d) /\ devices[d] \in DeviceCode
    BY <1>1, <1>7 DEF Approve, Deny, Pending, DeviceInv, TypeOK
  <2>2. \/ /\ s \in Subjects
           /\ devices' = [devices EXCEPT ![d] = yes]
           /\ answer' = [answer EXCEPT ![d] = s]
        \/ /\ devices' = [devices EXCEPT ![d] = no]
           /\ answer' = [answer EXCEPT ![d] = Refused]
    BY <1>7 DEF Approve, Deny, DeviceInv, PlaceOK
  <2>3. s \in Subjects =>
          /\ yes \in DeviceCode
          /\ yes.approved /\ ~yes.denied /\ yes.subject = s
    BY <2>1 DEF DeviceCode, Pending
  <2>4. no \in DeviceCode /\ no.denied /\ ~no.approved
    BY <2>1 DEF DeviceCode, Pending
  <2> HIDE DEF d, s, yes, no
  <2>5. devices' \in [Devices -> DeviceCode \cup {None}]
    BY <1>1, <2>2, <2>3, <2>4 DEF DeviceInv, TypeOK
  <2>6. answer' \in [Devices -> Subjects \cup {None, Refused}]
    BY <1>1, <2>2 DEF DeviceInv, TypeOK
  <2>7. TypeOK'
    BY <1>2, <1>4, <2>5, <2>6 DEF DeviceInv, TypeOK, Handlers
  <2>8. /\ \A c \in Devices : c # d =>
             devices'[c] = devices[c] /\ answer'[c] = answer[c]
        /\ \/ devices'[d] = yes /\ answer'[d] = s /\ s \in Subjects
           \/ devices'[d] = no /\ answer'[d] = Refused
    BY <1>1, <2>2 DEF DeviceInv, TypeOK
  <2>9. AnswerInv'
    BY <1>1, <1>2, <2>3, <2>4, <2>8, DeviceAssumption
       DEF DeviceInv, AnswerInv, Pending
  <2>10. Quiet
    BY <1>2, <1>5, <2>1, <2>8 DEF Quiet, Pending, DeviceInv, TypeOK
  <2> QED
    BY <1>4, <2>7, <2>9, <2>10, QuietKeeps DEF DeviceInv, Handlers
<1> QED
  BY <1>6, <1>7

\* Expiry, a refusal told, the sweeper and the revocation hook only remove.
LEMMA RemovalKeeps ==
  ASSUME DeviceInv,
         \/ \E t \in Threads : Delete(t)
         \/ Sweep
         \/ \E s \in Subjects : RunHook(s)
  PROVE  DeviceInv'
<1> USE DEF histVars
<1>1. PICK D \in SUBSET Devices : Remove(D)
  <2>1. ASSUME NEW t \in Threads, Delete(t)
        PROVE  \E D \in SUBSET Devices : Remove(D)
    <3>1. req[t].device \in Devices
      BY <2>1 DEF Delete, DeviceInv, TypeOK, PlaceOK
    <3> QED
      BY <2>1, <3>1 DEF Delete
  <2>2. Stale \in SUBSET Devices
    BY DEF Stale, Present
  <2>3. ASSUME NEW s \in Subjects, RunHook(s)
        PROVE  \E D \in SUBSET Devices : Remove(D)
    <3>1. {d \in Present : devices[d].subject = s} \in SUBSET Devices
      BY DEF Present
    <3> QED
      BY <2>3, <3>1 DEF RunHook
  <2> QED
    BY <2>1, <2>2, <2>3 DEF Sweep
<1>2. /\ UNCHANGED <<now, active, minted, answer, answers, grants>>
      /\ hook' \subseteq hook
  BY DEF Delete, Sweep, RunHook
<1>3. Handlers
  BY DEF DeviceInv, TypeOK, Handlers
<1>4. (\E t \in Threads : Finish(t)) \/ UNCHANGED <<pc, req>>
  BY DEF Delete, Sweep, RunHook
<1>5. Handlers'
  BY <1>2, <1>3, <1>4, FinishHandlers, StayHandlers
<1>6. \A u \in Threads : pc'[u] = "issue" => pc[u] = "issue" /\ req'[u] = req[u]
  BY <1>3, <1>4, GotoClaims DEF Finish
<1>7. /\ devices' \in [Devices -> DeviceCode \cup {None}]
      /\ userCodes' \in [UserCodes -> Devices \cup {None}]
      /\ AnswerInv'
      /\ \A d \in Devices : devices[d] = None => devices'[d] = None
  BY <1>1, <1>2, RemoveKeeps
<1>8. TypeOK'
  BY <1>2, <1>5, <1>7 DEF DeviceInv, TypeOK, Handlers
<1>9. Quiet
  BY <1>2, <1>6, <1>7 DEF Quiet, DeviceInv, TypeOK
<1> QED
  BY <1>5, <1>7, <1>8, <1>9, QuietKeeps DEF DeviceInv, Handlers

\* A poll moves the time of the last poll, and nothing else of a device.
LEMMA TouchPollKeeps ==
  ASSUME DeviceInv, NEW t \in Threads, TouchPoll(t)
  PROVE  DeviceInv'
<1> DEFINE d == req[t].device
           k == [devices[d] EXCEPT !.polled = req[t].at]
<1>1. d \in Devices /\ d \in minted /\ req[t] \in Request /\ req[t].at \in Nat
  BY DEF TouchPoll, DeviceInv, TypeOK, PlaceOK, Request
<1>2. UNCHANGED <<now, userCodes, active, hook, minted, answer, grants>>
  BY DEF TouchPoll
<1>3. Handlers
  BY DEF DeviceInv, TypeOK, Handlers
<1>4. \E place \in PC \ {"issue"}, r \in {req[t], NoRequest} :
        /\ Goto(t, place, r)
        /\ place # "idle" => r = req[t]
        /\ place \in {"idle", "delete", "take"}
  BY DEF TouchPoll, Finish, PC
<1>5. NoRequest \in Request
  BY DEF NoRequest, Request
<1>6. Handlers'
  BY <1>1, <1>2, <1>3, <1>4, <1>5, GotoHandlers
<1>7. \A u \in Threads : pc'[u] = "issue" => pc[u] = "issue" /\ req'[u] = req[u]
  BY <1>3, <1>4, GotoClaims
<1>8. \/ UNCHANGED <<devices, answers>>
      \/ /\ devices[d] # None
         /\ devices' = [devices EXCEPT ![d] = k]
         /\ answers' = [answers EXCEPT ![d] = Append(@, req[t].at)]
  BY DEF TouchPoll
<1>9. devices[d] # None =>
        /\ k \in DeviceCode
        /\ k.approved = devices[d].approved
        /\ k.denied = devices[d].denied
        /\ k.subject = devices[d].subject
  BY <1>1 DEF DeviceInv, TypeOK, DeviceCode
<1> HIDE DEF d, k
<1>10. devices' \in [Devices -> DeviceCode \cup {None}]
  BY <1>1, <1>8, <1>9 DEF DeviceInv, TypeOK
<1>11. answers' \in [Devices -> Seq(Nat)]
  <2> DEFINE q == Append(answers[d], req[t].at)
  <2>1. answers \in [Devices -> Seq(Nat)]
    BY DEF DeviceInv, TypeOK
  <2>2. q \in Seq(Nat)
    BY <1>1, <2>1
  <2>3. answers' = answers \/ answers' = [answers EXCEPT ![d] = q]
    BY <1>8
  <2> HIDE DEF q
  <2> QED
    BY <2>1, <2>2, <2>3
<1>12. TypeOK'
  BY <1>2, <1>6, <1>10, <1>11 DEF DeviceInv, TypeOK, Handlers
<1>13. \A c \in Devices :
         \/ devices'[c] = devices[c]
         \/ c = d /\ devices[c] # None /\ devices'[c] = k
  BY <1>8 DEF DeviceInv, TypeOK
<1>14. AnswerInv'
  BY <1>2, <1>9, <1>13, DeviceAssumption DEF DeviceInv, AnswerInv, Pending
<1>15. Quiet
  BY <1>2, <1>7, <1>13 DEF Quiet, DeviceInv, TypeOK
<1> QED
  BY <1>6, <1>12, <1>14, <1>15, QuietKeeps DEF DeviceInv, Handlers

\* The poll that takes the approval is the only one to issue.
LEMMA TakeKeeps ==
  ASSUME DeviceInv, NEW t \in Threads, Take(t)
  PROVE  DeviceInv'
<1> USE DEF storeVars, histVars
<1> DEFINE d == req[t].device
           r == [req[t] EXCEPT !.subject = devices[d].subject]
<1>1. d \in Devices /\ d \in minted /\ req[t] \in Request
  BY DEF Take, DeviceInv, TypeOK, PlaceOK
<1>2. UNCHANGED <<now, active, hook, minted, answer, answers, grants>>
  BY DEF Take
<1>3. Handlers
  BY DEF DeviceInv, TypeOK, Handlers
<1>4. CASE Finish(t) /\ UNCHANGED storeVars
  <2>1. Handlers'
    BY <1>2, <1>3, <1>4, FinishHandlers
  <2>2. TypeOK' /\ AnswerInv'
    BY <1>2, <1>4, <2>1 DEF DeviceInv, TypeOK, Handlers, AnswerInv, Pending
  <2>3. \A u \in Threads :
          pc'[u] = "issue" => pc[u] = "issue" /\ req'[u] = req[u]
    BY <1>3, <1>4, GotoClaims DEF Finish
  <2>4. Quiet
    BY <1>2, <1>4, <2>3 DEF Quiet
  <2> QED
    BY <2>1, <2>2, <2>4, QuietKeeps DEF DeviceInv, Handlers
<1>5. CASE ~(Finish(t) /\ UNCHANGED storeVars)
  <2>1. /\ devices[d] # None /\ devices[d].approved
        /\ Remove({d})
        /\ Goto(t, "issue", r)
    BY <1>5 DEF Take
  <2>2. answer[d] = devices[d].subject /\ answer[d] \in Subjects
    BY <1>1, <2>1 DEF DeviceInv, AnswerInv
  <2>3. r \in Request /\ r.device = d /\ r.subject = answer[d]
    BY <1>1, <2>2 DEF Request
  <2>4. grants[d] = <<>>
    BY <1>1, <2>1 DEF DeviceInv, GrantInv
  <2> HIDE DEF r
  <2>5. Handlers'
    BY <1>1, <1>2, <1>3, <2>1, <2>2, <2>3, GotoHandlers DEF PC
  <2>6. /\ devices' \in [Devices -> DeviceCode \cup {None}]
        /\ userCodes' \in [UserCodes -> Devices \cup {None}]
        /\ AnswerInv'
        /\ \A c \in Devices : devices[c] = None => devices'[c] = None
    BY <1>1, <1>2, <2>1, RemoveKeeps
  <2>7. TypeOK'
    BY <1>2, <2>5, <2>6 DEF DeviceInv, TypeOK, Handlers
  <2>8. devices'[d] = None
    BY <1>1, <2>1 DEF Remove
  <2>9. /\ pc'[t] = "issue" /\ req'[t] = r
        /\ \A u \in Threads : u # t => pc'[u] = pc[u] /\ req'[u] = req[u]
    BY <1>3, <2>1 DEF Goto, Handlers
  <2>10. ASSUME NEW u \in Threads, u # t, pc'[u] = "issue"
         PROVE  /\ req'[u].device # d
                /\ req'[u].device \in Devices
                /\ devices'[req'[u].device] = None
                /\ grants[req'[u].device] = <<>>
                /\ answer[req'[u].device] = req'[u].subject
    <3>1. pc[u] = "issue" /\ req'[u] = req[u]
      BY <2>9, <2>10
    <3>2. req[u].device \in Devices
      BY <3>1 DEF DeviceInv, TypeOK, PlaceOK
    <3>3. /\ devices[req[u].device] = None
          /\ grants[req[u].device] = <<>>
          /\ answer[req[u].device] = req[u].subject
      BY <3>1 DEF DeviceInv, ClaimInv
    <3> HIDE DEF d
    <3> QED
      BY <2>1, <2>6, <3>1, <3>2, <3>3
  <2>11. ASSUME NEW u \in Threads, NEW v \in Threads, pc'[u] = "issue",
                pc'[v] = "issue", req'[u].device = req'[v].device
         PROVE  u = v
    <3>1. CASE u = t \/ v = t
      BY <2>3, <2>9, <2>10, <2>11, <3>1
    <3>2. CASE u # t /\ v # t
      BY <2>9, <2>11, <3>2 DEF DeviceInv, ClaimInv
    <3> QED
      BY <3>1, <3>2
  <2>12. ClaimInv'
    BY <1>2, <2>3, <2>4, <2>8, <2>9, <2>10, <2>11 DEF ClaimInv
  <2>13. GrantInv'
    BY <1>2, <2>6 DEF DeviceInv, GrantInv
  <2> QED
    BY <2>5, <2>6, <2>7, <2>12, <2>13 DEF DeviceInv, Handlers
<1> QED
  BY <1>4, <1>5

\* Tokens are issued to the account the claim was made for, or not at all.
LEMMA IssueKeeps ==
  ASSUME DeviceInv, NEW t \in Threads, Issue(t)
  PROVE  DeviceInv'
<1> USE DEF storeVars
<1> DEFINE d == req[t].device
           s == req[t].subject
<1>1. d \in Devices /\ d \in minted /\ s \in Subjects
  BY DEF Issue, DeviceInv, TypeOK, PlaceOK
<1>2. devices[d] = None /\ grants[d] = <<>> /\ answer[d] = s
  BY DEF Issue, DeviceInv, ClaimInv
<1>3. /\ Finish(t)
      /\ UNCHANGED <<now, devices, userCodes, active, hook, minted, answer,
                     answers>>
  BY DEF Issue
<1>4. Handlers'
  BY <1>3, FinishHandlers DEF DeviceInv, TypeOK, Handlers
<1>5. grants' = grants \/ grants' = [grants EXCEPT ![d] = <<s>>]
  <2>1. Append(grants[d], s) = <<s>>
    BY <1>2
  <2> QED
    BY <2>1 DEF Issue, DeviceInv, TypeOK
<1>6. <<s>> \in Seq(Subjects) /\ <<s>> # <<>>
  BY <1>1
<1>7. \A u \in Threads : pc'[u] = "issue" =>
        u # t /\ pc[u] = "issue" /\ req'[u] = req[u]
  BY <1>3 DEF Finish, Goto, DeviceInv, TypeOK
<1>8. \A u \in Threads : pc'[u] = "issue" =>
        req[u].device \in Devices /\ req[u].device # d
  BY <1>7 DEF Issue, DeviceInv, TypeOK, ClaimInv, PlaceOK
<1> HIDE DEF d, s
<1>9. TypeOK'
  BY <1>1, <1>3, <1>4, <1>5, <1>6 DEF DeviceInv, TypeOK, Handlers
<1>10. AnswerInv'
  BY <1>3 DEF DeviceInv, AnswerInv, Pending
<1>11. \A c \in Devices : c # d => grants'[c] = grants[c]
  BY <1>5 DEF DeviceInv, TypeOK
<1>12. grants'[d] \in {<<>>, <<s>>}
  BY <1>1, <1>2, <1>5 DEF DeviceInv, TypeOK
<1>13. ClaimInv'
  BY <1>3, <1>7, <1>8, <1>11 DEF DeviceInv, ClaimInv
<1>14. GrantInv'
  BY <1>1, <1>2, <1>3, <1>11, <1>12 DEF DeviceInv, GrantInv
<1> QED
  BY <1>4, <1>9, <1>10, <1>13, <1>14 DEF DeviceInv, Handlers

\* The accounts and the clock.
LEMMA OtherKeeps ==
  ASSUME DeviceInv,
         \/ \E s \in Subjects : Disable(s) \/ Enable(s)
         \/ Tick
         \/ UNCHANGED vars
  PROVE  DeviceInv'
<1> USE DEF storeVars, histVars
<1>1. UNCHANGED <<devices, userCodes, pc, req, minted, answer, answers, grants>>
  BY DEF Disable, Enable, Tick, vars
<1>2. /\ now' \in Nat
      /\ active' \in [Subjects -> BOOLEAN]
      /\ hook' \in SUBSET Subjects
  <2>1. now \in Nat /\ active \in [Subjects -> BOOLEAN] /\ hook \in SUBSET Subjects
    BY DEF DeviceInv, TypeOK
  <2>2. ASSUME NEW s \in Subjects, Disable(s)
        PROVE  active' \in [Subjects -> BOOLEAN] /\ hook' \in SUBSET Subjects
    BY <2>1, <2>2 DEF Disable
  <2>3. ASSUME NEW s \in Subjects, Enable(s)
        PROVE  active' \in [Subjects -> BOOLEAN] /\ hook' \in SUBSET Subjects
    BY <2>1, <2>3 DEF Enable
  <2>4. now' \in {now, now + 1}
    BY DEF Disable, Enable, Tick, vars
  <2>5. CASE UNCHANGED <<active, hook>>
    BY <2>1, <2>4, <2>5
  <2>6. CASE ~UNCHANGED <<active, hook>>
    <3>1. \E s \in Subjects : Disable(s) \/ Enable(s)
      BY <2>6 DEF Tick, vars
    <3> QED
      BY <2>1, <2>2, <2>3, <2>4, <3>1
  <2> QED
    BY <2>5, <2>6
<1>3. TypeOK' /\ AnswerInv' /\ \A t \in Threads : PlaceOK(t)'
  BY <1>1, <1>2 DEF DeviceInv, TypeOK, AnswerInv, Pending, PlaceOK
<1>4. Quiet
  BY <1>1 DEF Quiet
<1> QED
  BY <1>3, <1>4, QuietKeeps DEF DeviceInv

LEMMA DeviceInvNext == DeviceInv /\ [Next]_vars => DeviceInv'
BY RequestDeviceKeeps, ReadersKeep, AnswerKeeps, RemovalKeeps,
   TouchPollKeeps, TakeKeeps, IssueKeeps, OtherKeeps
   DEF Next, Continue

\* The invariant behind the results below holds in every reachable state.
THEOREM DeviceInvCorrect == Spec => []DeviceInv
BY DeviceInvInit, DeviceInvNext, PTL DEF Spec

(***************************************************************************)
(* The properties.                                                         *)
(***************************************************************************)

\* Every variable of the device grant keeps its type.
THEOREM DeviceTypeCorrect == Spec => []TypeOK
<1>1. DeviceInv => TypeOK
  BY DEF DeviceInv
<1> QED
  BY <1>1, DeviceInvCorrect, PTL

\* TakeDeviceIfApproved lets one poll through: tokens are issued at most once
\* for a device code, and to the account that approved it.
THEOREM GrantedOnce == Spec => []GrantedOnceToApprover
<1>1. DeviceInv => GrantedOnceToApprover
  <2> SUFFICES ASSUME DeviceInv, NEW d \in Devices
               PROVE  /\ Len(grants[d]) <= 1
                      /\ \A i \in DOMAIN grants[d] : grants[d][i] = answer[d]
    BY DEF GrantedOnceToApprover
  <2> DEFINE one == <<answer[d]>>
  <2>1. Len(one) = 1 /\ DOMAIN one = {1} /\ one[1] = answer[d]
    OBVIOUS
  <2>2. Len(<< >>) = 0 /\ DOMAIN << >> = {}
    OBVIOUS
  <2>3. grants[d] = << >> \/ grants[d] = one
    BY DEF DeviceInv, GrantInv
  <2> HIDE DEF one
  <2>4. CASE grants[d] = << >>
    BY <2>2, <2>4
  <2>5. CASE grants[d] = one
    <3>1. Len(grants[d]) = 1 /\ DOMAIN grants[d] = {1}
      BY <2>1, <2>5
    <3>2. grants[d][1] = answer[d]
      BY <2>1, <2>5
    <3> QED
      BY <3>1, <3>2
  <2> QED
    BY <2>3, <2>4, <2>5
<1> QED
  BY <1>1, DeviceInvCorrect, PTL

\* ApproveDevice and DenyDevice are single-writer: an answer that was taken
\* is never replaced by another.
THEOREM AnswerStandsCorrect == Spec => AnswerStands
<1> DEFINE Kept == \A d \in Devices : answer[d] # None => answer'[d] = answer[d]
<1>1. DeviceInv /\ [Next]_vars => [Kept]_vars
  <2> SUFFICES ASSUME DeviceInv, Next
               PROVE  Kept
    OBVIOUS
  <2>1. ASSUME NEW t \in Threads, Approve(t) \/ Deny(t)
        PROVE  Kept
    <3>1. UNCHANGED answer \/ answer[req[t].device] = None
      BY <2>1 DEF Approve, Deny, DeviceInv, AnswerInv, TypeOK, Pending, PlaceOK
    <3> QED
      BY <2>1, <3>1 DEF Approve, Deny, DeviceInv, TypeOK
  <2>2. CASE ~\E t \in Threads : Approve(t) \/ Deny(t)
    <3>1. UNCHANGED answer
      BY <2>2 DEF Next, Continue, RequestDevice, Lookup, Authenticate, Poll,
                  TouchPoll, Delete, Take, Issue, Sweep, Disable, Enable,
                  RunHook, Tick, histVars
    <3> QED
      BY <3>1
  <2> QED
    BY <2>1, <2>2
<1> QED
  BY <1>1, DeviceInvCorrect, PTL DEF Spec, AnswerStands

(***************************************************************************)
(* The index by user code, and the pace of the polls.  Both depend on how  *)
(* a step changes the store, which it does in one of five ways.            *)
(***************************************************************************)

\* Every step generates a code, removes some, counts a poll, answers one
\* device, or leaves the store alone.
LEMMA StoreSteps ==
  ASSUME DeviceInv, Next
  PROVE  \/ \E d \in Devices, u \in UserCodes : RequestDevice(d, u)
         \/ \E D \in SUBSET Devices : Remove(D) /\ UNCHANGED <<minted, answers>>
         \/ \E t \in Threads : TouchPoll(t)
         \/ \E t \in Threads : Approve(t) \/ Deny(t)
         \/ UNCHANGED <<devices, userCodes, minted, answers>>
<1> USE DEF storeVars, histVars
<1> DEFINE Goal ==
      \/ \E D \in SUBSET Devices : Remove(D) /\ UNCHANGED <<minted, answers>>
      \/ UNCHANGED <<devices, userCodes, minted, answers>>
<1>1. ASSUME NEW t \in Threads, Delete(t)
      PROVE  Goal
  <2>1. {req[t].device} \in SUBSET Devices
    BY <1>1 DEF Delete, DeviceInv, TypeOK, PlaceOK
  <2> QED
    BY <1>1, <2>1 DEF Delete
<1>2. ASSUME NEW t \in Threads, Take(t)
      PROVE  Goal
  <2>1. {req[t].device} \in SUBSET Devices
    BY <1>2 DEF Take, DeviceInv, TypeOK, PlaceOK
  <2> QED
    BY <1>2, <2>1 DEF Take
<1>3. ASSUME Sweep
      PROVE  Goal
  <2>1. Stale \in SUBSET Devices
    BY DEF Stale, Present
  <2> QED
    BY <1>3, <2>1 DEF Sweep
<1>4. ASSUME NEW s \in Subjects, RunHook(s)
      PROVE  Goal
  <2>1. {d \in Present : devices[d].subject = s} \in SUBSET Devices
    BY DEF Present
  <2> QED
    BY <1>4, <2>1 DEF RunHook
<1>5. ASSUME NEW t \in Threads, NEW u \in UserCodes, NEW s \in Subjects, Lookup(t, u, s)
      PROVE  Goal
  BY <1>5 DEF Lookup
<1>6. ASSUME NEW t \in Threads, NEW d \in Devices, Poll(t, d)
      PROVE  Goal
  BY <1>6 DEF Poll
<1>7. ASSUME NEW t \in Threads, Authenticate(t) \/ Issue(t)
      PROVE  Goal
  BY <1>7 DEF Authenticate, Issue
<1>8. ASSUME NEW s \in Subjects, Disable(s) \/ Enable(s)
      PROVE  Goal
  BY <1>8 DEF Disable, Enable
<1>9. ASSUME Tick
      PROVE  Goal
  BY <1>9 DEF Tick
<1> HIDE DEF Goal
<1>10. \/ \E d \in Devices, u \in UserCodes : RequestDevice(d, u)
       \/ \E t \in Threads : TouchPoll(t)
       \/ \E t \in Threads : Approve(t) \/ Deny(t)
       \/ Goal
  BY <1>1, <1>2, <1>3, <1>4, <1>5, <1>6, <1>7, <1>8, <1>9 DEF Next, Continue
<1> QED
  BY <1>10 DEF Goal

\* A poll that counts is an interval after the one before it.
LEMMA CountedPoll ==
  ASSUME DeviceInv, NEW t \in Threads, TouchPoll(t), ~UNCHANGED <<devices, answers>>
  PROVE  \E d \in Devices, at \in Nat :
           /\ devices[d] # None
           /\ at - devices[d].polled >= Interval
           /\ devices' = [devices EXCEPT ![d] = [devices[d] EXCEPT !.polled = at]]
           /\ answers' = [answers EXCEPT ![d] = Append(answers[d], at)]
<1>1. req[t].device \in Devices /\ req[t].at \in Nat
  BY DEF TouchPoll, DeviceInv, TypeOK, PlaceOK, Request
<1>2. /\ devices[req[t].device] \in DeviceCode
      /\ ~(req[t].at - devices[req[t].device].polled < Interval)
  BY <1>1 DEF TouchPoll, DeviceInv, TypeOK
<1>3. req[t].at - devices[req[t].device].polled >= Interval
  BY <1>1, <1>2, ClockAssumption DEF DeviceCode, Never
<1> QED
  BY <1>1, <1>3 DEF TouchPoll

\* An answer changes neither the user code nor the last poll of a device.
LEMMA AnswerLeaves ==
  ASSUME DeviceInv, NEW t \in Threads, Approve(t) \/ Deny(t), NEW c \in Devices,
         devices[c] # None
  PROVE  /\ devices'[c] # None
         /\ devices'[c].user = devices[c].user
         /\ devices'[c].polled = devices[c].polled
<1> DEFINE d == req[t].device
           yes == [devices[d] EXCEPT !.approved = TRUE, !.subject = req[t].subject]
           no == [devices[d] EXCEPT !.denied = TRUE]
<1>1. d \in Devices /\ (Approve(t) => req[t].subject \in Subjects)
  BY DEF Approve, Deny, DeviceInv, TypeOK, PlaceOK
<1>2. devices[c] \in DeviceCode
  BY DEF DeviceInv, TypeOK
<1>3. \/ UNCHANGED devices
      \/ Approve(t) /\ devices' = [devices EXCEPT ![d] = yes]
      \/ devices' = [devices EXCEPT ![d] = no]
  BY DEF Approve, Deny
<1>4. CASE c = d
  <2>1. Approve(t) => /\ yes \in DeviceCode
                      /\ yes.user = devices[d].user /\ yes.polled = devices[d].polled
    BY <1>1, <1>2, <1>4 DEF DeviceCode
  <2>2. /\ no \in DeviceCode
        /\ no.user = devices[d].user /\ no.polled = devices[d].polled
    BY <1>2, <1>4 DEF DeviceCode
  <2> HIDE DEF d, yes, no
  <2> QED
    BY <1>1, <1>3, <1>4, <2>1, <2>2, DeviceAssumption DEF DeviceInv, TypeOK
<1>5. CASE c # d
  <2> HIDE DEF d, yes, no
  <2> QED
    BY <1>1, <1>3, <1>5 DEF DeviceInv, TypeOK
<1> QED
  BY <1>4, <1>5

\* The index stays sound when its devices keep their user codes.
LEMMA IndexUndisturbed ==
  ASSUME DeviceInv, IndexSound, UNCHANGED userCodes,
         \A c \in Devices : devices[c] # None =>
           devices'[c] # None /\ devices'[c].user = devices[c].user
  PROVE  IndexSound'
<1>1. ASSUME NEW u \in UserCodes, userCodes'[u] # None
      PROVE  devices'[userCodes'[u]] # None /\ devices'[userCodes'[u]].user = u
  <2>1. userCodes'[u] = userCodes[u] /\ userCodes[u] \in Devices
    BY <1>1 DEF DeviceInv, TypeOK
  <2>2. devices[userCodes[u]] # None /\ devices[userCodes[u]].user = u
    BY <1>1, <2>1 DEF IndexSound
  <2> QED
    BY <2>1, <2>2
<1> QED
  BY <1>1 DEF IndexSound

\* A user code that is drawn again leads to its new device; a removal takes
\* away the entries of what it removes, if not more.
LEMMA IndexStep == DeviceInv /\ IndexSound /\ [Next]_vars => IndexSound'
<1> SUFFICES ASSUME DeviceInv, IndexSound, [Next]_vars
             PROVE  IndexSound'
  OBVIOUS
<1>1. ASSUME NEW d \in Devices, NEW u \in UserCodes, RequestDevice(d, u)
      PROVE  IndexSound'
  <2> DEFINE k == [user |-> u, subject |-> None, approved |-> FALSE,
                   denied |-> FALSE, exp |-> now + DeviceTTL, polled |-> Never]
  <2>1. devices[d] = None
    BY <1>1 DEF RequestDevice, DeviceInv, AnswerInv
  <2>2. k # None
    <3> DEFINE e == now + DeviceTTL
    <3>1. e \in Nat
      BY ClockAssumption DEF DeviceInv, TypeOK
    <3> HIDE DEF e
    <3>2. [user |-> u, subject |-> None, approved |-> FALSE, denied |-> FALSE,
           exp |-> e, polled |-> Never] \in DeviceCode
      BY <3>1 DEF DeviceCode
    <3> QED
      BY <3>2, DeviceAssumption DEF e
  <2>3. k.user = u
    OBVIOUS
  <2>4. \/ UNCHANGED storeVars
        \/ devices' = [devices EXCEPT ![d] = k] /\ userCodes' = [userCodes EXCEPT ![u] = d]
    BY <1>1 DEF RequestDevice
  <2> HIDE DEF k
  <2>5. CASE UNCHANGED storeVars
    BY <2>5, IndexUndisturbed DEF storeVars
  <2>6. CASE devices' = [devices EXCEPT ![d] = k] /\ userCodes' = [userCodes EXCEPT ![u] = d]
    <3>1. ASSUME NEW v \in UserCodes, userCodes'[v] # None
          PROVE  devices'[userCodes'[v]] # None /\ devices'[userCodes'[v]].user = v
      <4>1. CASE v = u
        BY <2>2, <2>3, <2>6, <4>1 DEF DeviceInv, TypeOK
      <4>2. CASE v # u
        <5>1. userCodes'[v] = userCodes[v] /\ userCodes[v] \in Devices
          BY <2>6, <3>1, <4>2 DEF DeviceInv, TypeOK
        <5>2. devices[userCodes[v]] # None /\ devices[userCodes[v]].user = v
          BY <3>1, <5>1 DEF IndexSound
        <5>3. devices'[userCodes[v]] = devices[userCodes[v]]
          BY <2>1, <2>6, <5>1, <5>2 DEF DeviceInv, TypeOK
        <5> QED
          BY <5>1, <5>2, <5>3
      <4> QED
        BY <4>1, <4>2
    <3> QED
      BY <3>1 DEF IndexSound
  <2> QED
    BY <2>4, <2>5, <2>6
<1>2. ASSUME NEW D \in SUBSET Devices, Remove(D)
      PROVE  IndexSound'
  <2>1. ASSUME NEW v \in UserCodes, userCodes'[v] # None
        PROVE  devices'[userCodes'[v]] # None /\ devices'[userCodes'[v]].user = v
    <3>1. userCodes'[v] = userCodes[v] /\ ~\E d \in D \cap Present : devices[d].user = v
      BY <1>2, <2>1 DEF Remove
    <3>2. /\ userCodes[v] \in Devices
          /\ devices[userCodes[v]] # None /\ devices[userCodes[v]].user = v
      BY <2>1, <3>1 DEF IndexSound, DeviceInv, TypeOK
    <3>3. userCodes[v] \notin D
      BY <3>1, <3>2 DEF Present
    <3>4. devices'[userCodes[v]] = devices[userCodes[v]]
      BY <1>2, <3>2, <3>3 DEF Remove
    <3> QED
      BY <3>1, <3>2, <3>4
  <2> QED
    BY <2>1 DEF IndexSound
<1>3. ASSUME NEW t \in Threads, TouchPoll(t)
      PROVE  IndexSound'
  <2>1. UNCHANGED userCodes
    BY <1>3 DEF TouchPoll
  <2>2. CASE UNCHANGED <<devices, answers>>
    BY <2>1, <2>2, IndexUndisturbed
  <2>3. CASE ~UNCHANGED <<devices, answers>>
    <3> PICK d \in Devices, at \in Nat :
             /\ devices[d] # None
             /\ devices' = [devices EXCEPT ![d] = [devices[d] EXCEPT !.polled = at]]
      BY <1>3, <2>3, CountedPoll
    <3> DEFINE k == [devices[d] EXCEPT !.polled = at]
    <3>1. k \in DeviceCode /\ k.user = devices[d].user
      BY DEF DeviceInv, TypeOK, DeviceCode
    <3>2. devices' = [devices EXCEPT ![d] = k]
      OBVIOUS
    <3> HIDE DEF k
    <3>3. \A c \in Devices : devices[c] # None =>
            devices'[c] # None /\ devices'[c].user = devices[c].user
      BY <3>1, <3>2, DeviceAssumption DEF DeviceInv, TypeOK
    <3> QED
      BY <2>1, <3>3, IndexUndisturbed
  <2> QED
    BY <2>2, <2>3
<1>4. ASSUME NEW t \in Threads, Approve(t) \/ Deny(t)
      PROVE  IndexSound'
  <2>1. UNCHANGED userCodes
    BY <1>4 DEF Approve, Deny
  <2>2. \A c \in Devices : devices[c] # None =>
          devices'[c] # None /\ devices'[c].user = devices[c].user
    BY <1>4, AnswerLeaves
  <2> QED
    BY <2>1, <2>2, IndexUndisturbed
<1>5. CASE UNCHANGED <<devices, userCodes>>
  BY <1>5, IndexUndisturbed
<1> QED
  BY <1>1, <1>2, <1>3, <1>4, <1>5, StoreSteps DEF vars

\* Whatever codes are drawn, drawn again, answered and removed, a user code
\* leads to a device of the store that carries it, or nowhere.
THEOREM IndexSoundCorrect == Spec => []IndexSound
<1>1. Init => IndexSound
  BY DEF Init, IndexSound
<1> QED
  BY <1>1, IndexStep, DeviceInvCorrect, PTL DEF Spec

\* When a code in use is never drawn again, a device in the store is always
\* where its user code leads.
LEMMA CompleteStep ==
  ASSUME ~Colliding
  PROVE  DeviceInv /\ IndexComplete /\ [Next]_vars => IndexComplete'
<1> SUFFICES ASSUME DeviceInv, IndexComplete, [Next]_vars
             PROVE  IndexComplete'
  OBVIOUS
<1>1. ASSUME UNCHANGED userCodes,
             \A c \in Devices : devices'[c] # None =>
               devices[c] # None /\ devices'[c].user = devices[c].user
      PROVE  IndexComplete'
  BY <1>1 DEF IndexComplete, Present
<1>2. ASSUME NEW d \in Devices, NEW u \in UserCodes, RequestDevice(d, u)
      PROVE  IndexComplete'
  <2> DEFINE k == [user |-> u, subject |-> None, approved |-> FALSE,
                   denied |-> FALSE, exp |-> now + DeviceTTL, polled |-> Never]
  <2>1. k.user = u
    OBVIOUS
  <2>2. \A c \in Present : devices[c].user # u /\ devices[c].user \in UserCodes
    BY <1>2 DEF RequestDevice, Drawable, Present, DeviceInv, TypeOK, DeviceCode
  <2>3. \/ UNCHANGED storeVars
        \/ devices' = [devices EXCEPT ![d] = k] /\ userCodes' = [userCodes EXCEPT ![u] = d]
    BY <1>2 DEF RequestDevice
  <2> HIDE DEF k
  <2>4. CASE UNCHANGED storeVars
    BY <2>4 DEF storeVars, IndexComplete, Present
  <2>5. CASE devices' = [devices EXCEPT ![d] = k] /\ userCodes' = [userCodes EXCEPT ![u] = d]
    <3>1. ASSUME NEW c \in Devices, devices'[c] # None
          PROVE  userCodes'[devices'[c].user] = c
      <4>1. CASE c = d
        <5>1. devices'[c] = k
          BY <2>5, <4>1 DEF DeviceInv, TypeOK
        <5>2. userCodes'[u] = d
          BY <2>5 DEF DeviceInv, TypeOK
        <5> QED
          BY <2>1, <4>1, <5>1, <5>2
      <4>2. CASE c # d
        <5>1. devices'[c] = devices[c] /\ c \in Present
          BY <2>5, <3>1, <4>2 DEF DeviceInv, TypeOK, Present
        <5>2. devices[c].user \in UserCodes /\ devices[c].user # u
          BY <2>2, <5>1
        <5>3. userCodes'[devices[c].user] = userCodes[devices[c].user]
          BY <2>5, <5>2 DEF DeviceInv, TypeOK
        <5> QED
          BY <5>1, <5>3 DEF IndexComplete
      <4> QED
        BY <4>1, <4>2
    <3> QED
      BY <3>1 DEF IndexComplete, Present
  <2> QED
    BY <2>3, <2>4, <2>5
<1>3. ASSUME NEW D \in SUBSET Devices, Remove(D)
      PROVE  IndexComplete'
  <2>1. ASSUME NEW c \in Devices, devices'[c] # None
        PROVE  userCodes'[devices'[c].user] = c
    <3>1. c \notin D /\ devices'[c] = devices[c] /\ c \in Present
      BY <1>3, <2>1 DEF Remove, Present
    <3>2. devices[c].user \in UserCodes /\ userCodes[devices[c].user] = c
      BY <3>1 DEF IndexComplete, Present, DeviceInv, TypeOK, DeviceCode
    <3>3. ~\E d \in D \cap Present : devices[d].user = devices[c].user
      BY <3>1, <3>2 DEF IndexComplete
    <3>4. userCodes'[devices[c].user] = userCodes[devices[c].user]
      BY <1>3, <3>2, <3>3 DEF Remove
    <3> QED
      BY <3>1, <3>2, <3>4
  <2> QED
    BY <2>1 DEF IndexComplete, Present
<1>4. ASSUME NEW t \in Threads, TouchPoll(t)
      PROVE  IndexComplete'
  <2>1. UNCHANGED userCodes
    BY <1>4 DEF TouchPoll
  <2>2. CASE UNCHANGED <<devices, answers>>
    BY <1>1, <2>1, <2>2
  <2>3. CASE ~UNCHANGED <<devices, answers>>
    <3> PICK d \in Devices, at \in Nat :
             /\ devices[d] # None
             /\ devices' = [devices EXCEPT ![d] = [devices[d] EXCEPT !.polled = at]]
      BY <1>4, <2>3, CountedPoll
    <3> DEFINE k == [devices[d] EXCEPT !.polled = at]
    <3>1. k.user = devices[d].user
      BY DEF DeviceInv, TypeOK, DeviceCode
    <3>2. devices' = [devices EXCEPT ![d] = k]
      OBVIOUS
    <3> HIDE DEF k
    <3>3. \A c \in Devices : devices'[c] # None =>
            devices[c] # None /\ devices'[c].user = devices[c].user
      BY <3>1, <3>2 DEF DeviceInv, TypeOK
    <3> QED
      BY <1>1, <2>1, <3>3
  <2> QED
    BY <2>2, <2>3
<1>5. ASSUME NEW t \in Threads, Approve(t) \/ Deny(t)
      PROVE  IndexComplete'
  <2>1. UNCHANGED userCodes
    BY <1>5 DEF Approve, Deny
  <2>2. \A c \in Devices : devices'[c] # None => devices[c] # None
    BY <1>5 DEF Approve, Deny, DeviceInv, TypeOK, Pending
  <2> QED
    BY <1>1, <1>5, <2>1, <2>2, AnswerLeaves
<1>6. CASE UNCHANGED <<devices, userCodes>>
  BY <1>1, <1>6
<1> QED
  BY <1>2, <1>3, <1>4, <1>5, <1>6, StoreSteps DEF vars

\* Unless codes collide, every device in the store can be reached, and so be
\* answered, by its user code.
THEOREM IndexCompleteCorrect ==
  ASSUME ~Colliding
  PROVE  Spec => []IndexComplete
<1>1. Init => IndexComplete
  BY DEF Init, IndexComplete, Present
<1>2. DeviceInv /\ IndexComplete /\ [Next]_vars => IndexComplete'
  BY CompleteStep
<1> QED
  BY <1>1, <1>2, DeviceInvCorrect, PTL DEF Spec

\* What PollsPaced needs besides: nobody has polled a code not generated.
PaceInv ==
  /\ PollsPaced
  /\ \A d \in Devices : d \notin minted => answers[d] = <<>>

\* The pace is kept when the history of the polls is, and the devices that
\* stay keep the time of their last.
LEMMA PaceUndisturbed ==
  ASSUME DeviceInv, PaceInv, UNCHANGED answers, minted \subseteq minted',
         \A c \in Devices : devices'[c] # None =>
           devices[c] # None /\ devices'[c].polled = devices[c].polled
  PROVE  PaceInv'
BY DEF PaceInv, PollsPaced, PollSpacing, BackoffFromLastAnswer, Present

\* A time at least an interval after the last of a spaced history can be
\* appended to it.
LEMMA SpacedAppend ==
  ASSUME NEW q \in Seq(Nat), NEW at \in Nat,
         \A i, j \in DOMAIN q : i < j => q[i] + Interval <= q[j],
         q # <<>> => at - q[Len(q)] >= Interval
  PROVE  LET r == Append(q, at)
         IN  /\ \A i, j \in DOMAIN r : i < j => r[i] + Interval <= r[j]
             /\ r # <<>> /\ r[Len(r)] = at
<1> DEFINE r == Append(q, at)
<1>1. DOMAIN q = 1..Len(q) /\ Len(q) \in Nat /\ \A i \in 1..Len(q) : q[i] \in Nat
  OBVIOUS
<1>2. /\ Len(r) = Len(q) + 1 /\ DOMAIN r = 1..(Len(q) + 1)
      /\ r[Len(q) + 1] = at
      /\ \A i \in 1..Len(q) : r[i] = q[i]
  BY <1>1
<1> HIDE DEF r
<1>3. ASSUME NEW i \in DOMAIN r, NEW j \in DOMAIN r, i < j
      PROVE  r[i] + Interval <= r[j]
  <2>1. i \in 1..Len(q) /\ r[i] = q[i]
    <3>1. i \in 1..(Len(q) + 1) /\ j \in 1..(Len(q) + 1)
      BY <1>2
    <3>2. i \in 1..Len(q)
      BY <1>1, <1>3, <3>1
    <3> QED
      BY <1>2, <3>2
  <2>2. CASE j \in 1..Len(q)
    BY <1>1, <1>2, <1>3, <2>1, <2>2
  <2>3. CASE j = Len(q) + 1
    <3>1. q # <<>> /\ at - q[Len(q)] >= Interval
      BY <1>2, <2>1
    <3>2. CASE i = Len(q)
      BY <1>1, <1>2, <2>1, <2>3, <3>1, <3>2, ClockAssumption
    <3>3. CASE i # Len(q)
      <4>1. i < Len(q) /\ Len(q) \in 1..Len(q)
        BY <1>1, <2>1, <3>3
      <4>2. q[i] + Interval <= q[Len(q)]
        BY <1>1, <2>1, <4>1
      <4>3. q[i] \in Nat /\ q[Len(q)] \in Nat /\ r[j] = at
        BY <1>1, <1>2, <2>1, <2>3, <4>1
      <4>4. Interval \in Nat
        BY ClockAssumption
      <4>5. \A x, y \in Nat : x + Interval <= y /\ at - y >= Interval => x + Interval <= at
        BY <4>4
      <4> QED
        BY <2>1, <3>1, <4>2, <4>3, <4>5
    <3> QED
      BY <3>2, <3>3
  <2> QED
    BY <1>1, <1>2, <2>2, <2>3
<1>4. r # <<>> /\ r[Len(r)] = at
  BY <1>1, <1>2
<1> QED
  BY <1>3, <1>4 DEF r

\* A counted poll is an interval after the last answered one, because the
\* entry in the store is where that one left it.
LEMMA PaceTouch ==
  ASSUME DeviceInv, PaceInv, NEW t \in Threads, TouchPoll(t)
  PROVE  PaceInv'
<1>1. UNCHANGED minted
  BY DEF TouchPoll
<1>2. CASE UNCHANGED <<devices, answers>>
  BY <1>1, <1>2, PaceUndisturbed
<1>3. CASE ~UNCHANGED <<devices, answers>>
  <2> PICK d \in Devices, at \in Nat :
           /\ devices[d] # None
           /\ at - devices[d].polled >= Interval
           /\ devices' = [devices EXCEPT ![d] = [devices[d] EXCEPT !.polled = at]]
           /\ answers' = [answers EXCEPT ![d] = Append(answers[d], at)]
    BY <1>3, CountedPoll
  <2> DEFINE k == [devices[d] EXCEPT !.polled = at]
             r == Append(answers[d], at)
  <2>1. k.polled = at
    BY DEF DeviceInv, TypeOK, DeviceCode
  <2>2. answers[d] \in Seq(Nat)
    BY DEF DeviceInv, TypeOK
  <2>3. answers[d] # <<>> => at - answers[d][Len(answers[d])] >= Interval
    BY DEF PaceInv, PollsPaced, BackoffFromLastAnswer, Present
  <2>4. \A i, j \in DOMAIN answers[d] :
          i < j => answers[d][i] + Interval <= answers[d][j]
    BY DEF PaceInv, PollsPaced, PollSpacing
  <2>5. /\ \A i, j \in DOMAIN r : i < j => r[i] + Interval <= r[j]
        /\ r # <<>> /\ r[Len(r)] = at
    BY <2>2, <2>3, <2>4, SpacedAppend
  <2>6. devices' = [devices EXCEPT ![d] = k] /\ answers' = [answers EXCEPT ![d] = r]
    OBVIOUS
  <2> HIDE DEF k, r
  <2>7. /\ devices'[d] = k /\ answers'[d] = r
        /\ \A c \in Devices : c # d => devices'[c] = devices[c] /\ answers'[c] = answers[c]
    BY <2>6 DEF DeviceInv, TypeOK
  <2>8. d \in minted
    BY DEF DeviceInv, AnswerInv
  <2>9. PollSpacing'
    BY <2>5, <2>7 DEF PaceInv, PollsPaced, PollSpacing
  <2>10. BackoffFromLastAnswer'
    BY <2>1, <2>5, <2>7 DEF PaceInv, PollsPaced, BackoffFromLastAnswer, Present
  <2>11. \A c \in Devices : c \notin minted' => answers'[c] = <<>>
    BY <1>1, <2>7, <2>8 DEF PaceInv
  <2> QED
    BY <2>9, <2>10, <2>11 DEF PaceInv, PollsPaced
<1> QED
  BY <1>2, <1>3

LEMMA PaceStep == DeviceInv /\ PaceInv /\ [Next]_vars => PaceInv'
<1> SUFFICES ASSUME DeviceInv, PaceInv, [Next]_vars
             PROVE  PaceInv'
  OBVIOUS
<1>1. ASSUME NEW d \in Devices, NEW u \in UserCodes, RequestDevice(d, u)
      PROVE  PaceInv'
  <2> DEFINE k == [user |-> u, subject |-> None, approved |-> FALSE,
                   denied |-> FALSE, exp |-> now + DeviceTTL, polled |-> Never]
  <2>1. d \notin minted /\ minted' = minted \cup {d} /\ UNCHANGED answers
    BY <1>1 DEF RequestDevice
  <2>2. k.polled = Never
    OBVIOUS
  <2>3. devices[d] = None /\ answers[d] = <<>>
    BY <2>1 DEF DeviceInv, AnswerInv, PaceInv
  <2>4. UNCHANGED devices \/ devices' = [devices EXCEPT ![d] = k]
    BY <1>1 DEF RequestDevice, storeVars
  <2> HIDE DEF k
  <2>5. BackoffFromLastAnswer'
    BY <2>1, <2>2, <2>3, <2>4
       DEF PaceInv, PollsPaced, BackoffFromLastAnswer, Present, DeviceInv, TypeOK
  <2> QED
    BY <2>1, <2>5 DEF PaceInv, PollsPaced, PollSpacing
<1>2. ASSUME NEW D \in SUBSET Devices, Remove(D), UNCHANGED <<minted, answers>>
      PROVE  PaceInv'
  <2>1. \A c \in Devices : devices'[c] # None => devices'[c] = devices[c]
    BY <1>2 DEF Remove
  <2> QED
    BY <1>2, <2>1, PaceUndisturbed
<1>3. ASSUME NEW t \in Threads, Approve(t) \/ Deny(t)
      PROVE  PaceInv'
  <2>1. UNCHANGED <<minted, answers>>
    BY <1>3 DEF Approve, Deny
  <2>2. \A c \in Devices : devices'[c] # None => devices[c] # None
    BY <1>3 DEF Approve, Deny, DeviceInv, TypeOK, Pending
  <2> QED
    BY <1>3, <2>1, <2>2, AnswerLeaves, PaceUndisturbed
<1>4. CASE UNCHANGED <<devices, minted, answers>>
  BY <1>4, PaceUndisturbed
<1> QED
  BY <1>1, <1>2, <1>3, <1>4, PaceTouch, StoreSteps DEF vars

\* However many polls of one device race, those that are answered lie an
\* interval apart, and one that is told to slow down costs no time.
THEOREM PollsPacedCorrect == Spec => []PollsPaced
<1>1. Init => PaceInv
  BY DEF Init, PaceInv, PollsPaced, PollSpacing, BackoffFromLastAnswer, Present
<1>2. PaceInv => PollsPaced
  BY DEF PaceInv
<1> QED
  BY <1>1, <1>2, PaceStep, DeviceInvCorrect, PTL DEF Spec

(***************************************************************************)
(* The refinement of DeviceFlow.                                           *)
(***************************************************************************)

\* A step that leaves the stage and the owner of every device alone is a
\* stutter of the device flow.
LEMMA FlowStutters ==
  ASSUME \A d \in Devices : StageOf(d)' = StageOf(d), UNCHANGED answer
  PROVE  UNCHANGED Flow!vars
BY DEF Flow!vars

\* A step that moves one device only is a move of the device flow.
LEMMA FlowMoves ==
  ASSUME NEW d \in Devices, NEW from, NEW to, StageOf(d) \in from,
         StageOf(d)' = to,
         \A c \in Devices : c # d => StageOf(c)' = StageOf(c)
  PROVE  Flow!Move(d, from, to)
BY DEF Flow!Move

\* A device keeps its stage as long as the entry in the store, the claims on
\* it and the grants for it say the same.
LEMMA SameStage ==
  ASSUME NEW d \in Devices,
         devices'[d] = None <=> devices[d] = None,
         devices[d] # None =>
           /\ devices'[d].approved = devices[d].approved
           /\ devices'[d].denied = devices[d].denied,
         d \in minted' <=> d \in minted,
         grants'[d] = grants[d],
         \A t \in Threads :
           pc'[t] = "issue" /\ req'[t].device = d
             <=> pc[t] = "issue" /\ req[t].device = d
  PROVE  StageOf(d)' = StageOf(d)
BY DEF StageOf

\* A handler that moves between places other than issue claims nothing, and
\* gives no claim up.
LEMMA SameClaims ==
  ASSUME Handlers, NEW t \in Threads, pc[t] # "issue", NEW place, NEW r,
         place # "issue", Goto(t, place, r)
  PROVE  \A d \in Devices, u \in Threads :
           pc'[u] = "issue" /\ req'[u].device = d
             <=> pc[u] = "issue" /\ req[u].device = d
BY DEF Handlers, Goto

\* RequestDevice begins a device flow.
LEMMA RequestDeviceRefines ==
  ASSUME DeviceInv, DeviceInv', NEW d \in Devices, NEW u \in UserCodes,
         RequestDevice(d, u)
  PROVE  Flow!Begin(d)
<1> USE DEF storeVars
<1>1. /\ d \notin minted
      /\ minted' = minted \cup {d}
      /\ UNCHANGED <<pc, req, answer, grants>>
      /\ \A c \in Devices : c # d => devices'[c] = devices[c]
  BY DEF RequestDevice, DeviceInv, TypeOK
<1>2. StageOf(d) = "unknown"
  BY <1>1 DEF StageOf
<1>3. ASSUME NEW c \in Devices, c # d
      PROVE  StageOf(c)' = StageOf(c)
  BY <1>1, <1>3, SameStage
<1>4. grants[d] = <<>> /\ answer[d] = None /\ devices[d] = None
  BY <1>1 DEF DeviceInv, GrantInv, AnswerInv
<1>5. \A t \in Threads : ~(pc'[t] = "issue" /\ req'[t].device = d)
  BY <1>1 DEF DeviceInv, PlaceOK
<1>6. StageOf(d)' \in {"pending", "closed"}
  <2>1. CASE devices'[d] = None
    BY <1>1, <1>4, <1>5, <2>1 DEF StageOf
  <2>2. CASE devices'[d] # None
    <3>1. ~devices'[d].approved /\ ~devices'[d].denied
      BY <1>1, <1>4, <2>2, AnswerAssumption
         DEF RequestDevice, DeviceInv, TypeOK
    <3> QED
      BY <1>1, <2>2, <3>1 DEF StageOf
  <2> QED
    BY <2>1, <2>2
<1>7. Flow!Move(d, {"unknown"}, "pending") \/ Flow!Move(d, {"unknown"}, "closed")
  BY <1>2, <1>3, <1>6, FlowMoves
<1> QED
  BY <1>1, <1>7 DEF Flow!Begin

\* Lookups, sign-ins and polls that do not take are invisible.
LEMMA ReadersRefine ==
  ASSUME DeviceInv, NEW t \in Threads,
         \/ \E u \in UserCodes, s \in Subjects : Lookup(t, u, s)
         \/ Authenticate(t)
         \/ \E d \in Devices : Poll(t, d)
         \/ TouchPoll(t)
  PROVE  UNCHANGED Flow!vars
<1> USE DEF storeVars, histVars
<1>1. Handlers
  BY DEF DeviceInv, TypeOK, Handlers
<1>2. /\ UNCHANGED <<minted, answer, grants>>
      /\ pc[t] # "issue"
  BY DEF Lookup, Authenticate, Poll, TouchPoll
<1>3. \E place, r : place # "issue" /\ Goto(t, place, r)
  BY DEF Lookup, Authenticate, Poll, TouchPoll, Finish
<1>4. ASSUME NEW d \in Devices
      PROVE  /\ devices'[d] = None <=> devices[d] = None
             /\ devices[d] # None =>
                  /\ devices'[d].approved = devices[d].approved
                  /\ devices'[d].denied = devices[d].denied
  <2>1. CASE UNCHANGED devices
    BY <2>1
  <2>2. CASE ~UNCHANGED devices
    <3> DEFINE c == req[t].device
               k == [devices[c] EXCEPT !.polled = req[t].at]
    <3>1. TouchPoll(t)
      BY <2>2 DEF Lookup, Authenticate, Poll
    <3>2. c \in Devices /\ devices[c] # None /\ devices' = [devices EXCEPT ![c] = k]
      BY <2>2, <3>1 DEF TouchPoll, DeviceInv, PlaceOK, TypeOK
    <3>3. /\ k \in DeviceCode
          /\ k.approved = devices[c].approved
          /\ k.denied = devices[c].denied
      BY <3>2 DEF DeviceInv, TypeOK, DeviceCode, Request
    <3> HIDE DEF c, k
    <3> QED
      BY <3>2, <3>3, DeviceAssumption DEF DeviceInv, TypeOK
  <2> QED
    BY <2>1, <2>2
<1>5. ASSUME NEW d \in Devices
      PROVE  StageOf(d)' = StageOf(d)
  BY <1>1, <1>2, <1>3, <1>4, SameClaims, SameStage
<1> QED
  BY <1>2, <1>5, FlowStutters

\* The answer that is taken is an approval or a refusal of the flow; one
\* that comes too late is invisible.
LEMMA AnswerRefines ==
  ASSUME DeviceInv, NEW t \in Threads, Approve(t) \/ Deny(t)
  PROVE  [Flow!Next]_(Flow!vars)
<1>0. req[t].device \in Devices
  BY DEF Approve, Deny, DeviceInv, TypeOK, PlaceOK
<1> PICK d \in Devices : d = req[t].device
  BY <1>0
<1>1. /\ d \in Devices /\ d \in minted
      /\ pc[t] # "issue"
      /\ Finish(t)
      /\ UNCHANGED <<minted, grants>>
  BY DEF Approve, Deny, DeviceInv, TypeOK, PlaceOK
<1>2. Handlers
  BY DEF DeviceInv, TypeOK, Handlers
<1>3. \A c \in Devices, u \in Threads :
        pc'[u] = "issue" /\ req'[u].device = c
          <=> pc[u] = "issue" /\ req[u].device = c
  BY <1>1, <1>2, SameClaims DEF Finish
<1>4. CASE UNCHANGED <<devices, answer>>
  <2>1. \A c \in Devices : StageOf(c)' = StageOf(c)
    BY <1>1, <1>3, <1>4, SameStage
  <2> QED
    BY <1>4, <2>1, FlowStutters
<1>5. CASE ~UNCHANGED <<devices, answer>>
  <2>1. Pending(d) /\ answer[d] = None /\ devices[d] \in DeviceCode
    BY <1>1, <1>5 DEF Approve, Deny, DeviceInv, AnswerInv, TypeOK, Pending
  <2>2. StageOf(d) = "pending"
    BY <1>1, <2>1 DEF StageOf, Pending
  <2>3. \A c \in Devices : c # d => devices'[c] = devices[c]
    BY DEF Approve, Deny, DeviceInv, TypeOK
  <2>4. \A c \in Devices : c # d => StageOf(c)' = StageOf(c)
    BY <1>1, <1>3, <2>3, SameStage
  <2>5. CASE Approve(t)
    <3> PICK s \in Subjects : s = req[t].subject
      BY <2>5 DEF Approve, DeviceInv, PlaceOK
    <3> DEFINE k == [devices[d] EXCEPT !.approved = TRUE, !.subject = s]
    <3>1. /\ devices' = [devices EXCEPT ![d] = k]
          /\ answer' = [answer EXCEPT ![d] = s]
      BY <1>5, <2>5 DEF Approve, DeviceInv, PlaceOK
    <3>2. k \in DeviceCode /\ k.approved
      BY <2>1, <3>1 DEF DeviceCode
    <3> HIDE DEF k
    <3>3. devices'[d] = k /\ k # None
      BY <1>1, <3>1, <3>2, DeviceAssumption DEF DeviceInv, TypeOK
    <3>4. StageOf(d)' = "approved"
      BY <1>1, <3>2, <3>3 DEF StageOf
    <3>5. Flow!Move(d, {"pending"}, "approved")
      BY <1>1, <2>2, <2>4, <3>4, FlowMoves
    <3>6. \A c \in Devices :
            (IF answer'[c] = Refused THEN None ELSE answer'[c]) =
              (IF c = d THEN s
               ELSE IF answer[c] = Refused THEN None ELSE answer[c])
      BY <1>1, <3>1, AnswerAssumption DEF DeviceInv, TypeOK
    <3>7. Flow!Approve(d, s)
      BY <1>1, <3>5, <3>6 DEF Flow!Approve
    <3> QED
      BY <1>1, <3>7 DEF Flow!Next
  <2>6. CASE Deny(t)
    <3> DEFINE k == [devices[d] EXCEPT !.denied = TRUE]
    <3>1. /\ devices' = [devices EXCEPT ![d] = k]
          /\ answer' = [answer EXCEPT ![d] = Refused]
      BY <1>5, <2>6 DEF Deny
    <3>2. k \in DeviceCode /\ k.denied /\ ~k.approved
      BY <2>1 DEF DeviceCode, Pending
    <3> HIDE DEF k
    <3>3. devices'[d] = k /\ k # None
      BY <1>1, <3>1, <3>2, DeviceAssumption DEF DeviceInv, TypeOK
    <3>4. StageOf(d)' = "denied"
      BY <1>1, <3>2, <3>3 DEF StageOf
    <3>5. Flow!Move(d, {"pending"}, "denied")
      BY <1>1, <2>2, <2>4, <3>4, FlowMoves
    <3>6. \A c \in Devices :
            (IF answer'[c] = Refused THEN None ELSE answer'[c]) =
              (IF answer[c] = Refused THEN None ELSE answer[c])
      BY <1>1, <2>1, <3>1, AnswerAssumption DEF DeviceInv, TypeOK
    <3>7. Flow!Deny(d)
      BY <1>1, <3>5, <3>6 DEF Flow!Deny
    <3> QED
      BY <1>1, <3>7 DEF Flow!Next
  <2> QED
    BY <2>5, <2>6
<1> QED
  BY <1>4, <1>5

\* Devices removed otherwise than by a take are closed.
LEMMA RemovalRefines ==
  ASSUME DeviceInv,
         \/ \E t \in Threads : Delete(t)
         \/ Sweep
         \/ \E s \in Subjects : RunHook(s)
  PROVE  [Flow!Next]_(Flow!vars)
<1> USE DEF histVars
<1> DEFINE D == {c \in Devices : devices[c] # None /\ devices'[c] = None}
<1>1. /\ UNCHANGED <<minted, answer, grants>>
      /\ \A c \in Devices : devices'[c] \in {None, devices[c]}
  BY DEF Delete, Sweep, RunHook, Remove
<1>2. \A c \in Devices, u \in Threads :
        pc'[u] = "issue" /\ req'[u].device = c
          <=> pc[u] = "issue" /\ req[u].device = c
  <2>1. Handlers
    BY DEF DeviceInv, TypeOK, Handlers
  <2>2. CASE UNCHANGED <<pc, req>>
    BY <2>2
  <2>3. CASE ~UNCHANGED <<pc, req>>
    <3>1. PICK t \in Threads : Delete(t)
      BY <2>3 DEF Sweep, RunHook
    <3> QED
      BY <2>1, <3>1, SameClaims DEF Delete, Finish
  <2> QED
    BY <2>2, <2>3
<1>3. ASSUME NEW c \in Devices \ D
      PROVE  StageOf(c)' = StageOf(c)
  BY <1>1, <1>2, SameStage
<1>4. ASSUME NEW c \in D
      PROVE  /\ StageOf(c) \in {"pending", "approved", "denied"}
             /\ StageOf(c)' = "closed"
  <2>1. c \in minted /\ grants[c] = <<>>
    BY DEF DeviceInv, AnswerInv, GrantInv
  <2>2. \A u \in Threads : ~(pc'[u] = "issue" /\ req'[u].device = c)
    BY <1>2 DEF DeviceInv, ClaimInv
  <2>3. StageOf(c) \in {"pending", "approved", "denied"}
    BY <2>1 DEF StageOf
  <2>4. StageOf(c)' = "closed"
    BY <1>1, <2>1, <2>2 DEF StageOf
  <2> QED
    BY <2>3, <2>4
<1> HIDE DEF D
<1>5. D \in SUBSET Devices
  BY DEF D
<1>6. Flow!Close(D)
  BY <1>1, <1>3, <1>4, <1>5 DEF Flow!Close
<1> QED
  BY <1>5, <1>6 DEF Flow!Next

\* A take claims the approval.
LEMMA TakeRefines ==
  ASSUME DeviceInv, NEW t \in Threads, Take(t)
  PROVE  [Flow!Next]_(Flow!vars)
<1> USE DEF storeVars, histVars
<1>0. req[t].device \in Devices
  BY DEF Take, DeviceInv, TypeOK, PlaceOK
<1> PICK d \in Devices : d = req[t].device
  BY <1>0
<1> DEFINE r == [req[t] EXCEPT !.subject = devices[d].subject]
<1>1. /\ d \in Devices /\ d \in minted /\ req[t] \in Request
      /\ pc[t] # "issue"
      /\ UNCHANGED <<minted, answer, grants>>
  BY DEF Take, DeviceInv, TypeOK, PlaceOK
<1>2. Handlers
  BY DEF DeviceInv, TypeOK, Handlers
<1>3. CASE Finish(t) /\ UNCHANGED storeVars
  <2>1. \A c \in Devices, u \in Threads :
          pc'[u] = "issue" /\ req'[u].device = c
            <=> pc[u] = "issue" /\ req[u].device = c
    BY <1>1, <1>2, <1>3, SameClaims DEF Finish
  <2>2. \A c \in Devices : StageOf(c)' = StageOf(c)
    BY <1>1, <1>3, <2>1, SameStage
  <2> QED
    BY <1>1, <2>2, FlowStutters
<1>4. CASE ~(Finish(t) /\ UNCHANGED storeVars)
  <2>1. /\ devices[d] # None /\ devices[d].approved
        /\ Remove({d})
        /\ Goto(t, "issue", r)
    BY <1>4 DEF Take
  <2>2. r.device = d
    BY <1>1 DEF Request
  <2> HIDE DEF r
  <2>3. /\ pc'[t] = "issue" /\ req'[t] = r
        /\ \A u \in Threads : u # t => pc'[u] = pc[u] /\ req'[u] = req[u]
    BY <1>2, <2>1 DEF Goto, Handlers
  <2>4. StageOf(d) = "approved"
    BY <1>1, <2>1 DEF StageOf
  <2>5. devices'[d] = None /\ \A c \in Devices : c # d => devices'[c] = devices[c]
    BY <1>1, <2>1 DEF Remove
  <2>6. StageOf(d)' = "claimed"
    BY <1>1, <2>2, <2>3, <2>5 DEF StageOf
  <2>7. ASSUME NEW c \in Devices, c # d
        PROVE  StageOf(c)' = StageOf(c)
    <3>1. \A u \in Threads :
            pc'[u] = "issue" /\ req'[u].device = c
              <=> pc[u] = "issue" /\ req[u].device = c
      BY <1>1, <2>2, <2>3, <2>7
    <3> QED
      BY <1>1, <2>5, <2>7, <3>1, SameStage
  <2>8. Flow!Move(d, {"approved"}, "claimed")
    BY <1>1, <2>4, <2>6, <2>7, FlowMoves
  <2> QED
    BY <1>1, <2>8 DEF Flow!Claim, Flow!Next
<1> QED
  BY <1>3, <1>4

\* An issue grants tokens on the claim, or fails it.
LEMMA IssueRefines ==
  ASSUME DeviceInv, NEW t \in Threads, Issue(t)
  PROVE  [Flow!Next]_(Flow!vars)
<1> USE DEF storeVars
<1>0. req[t].device \in Devices
  BY DEF Issue, DeviceInv, TypeOK, PlaceOK
<1> PICK d \in Devices : d = req[t].device
  BY <1>0
<1>1. /\ d \in Devices /\ d \in minted
      /\ UNCHANGED <<devices, minted, answer>>
      /\ pc[t] = "issue"
  BY DEF Issue, DeviceInv, TypeOK, PlaceOK
<1>2. devices[d] = None /\ grants[d] = <<>>
  BY DEF Issue, DeviceInv, ClaimInv
<1>3. \A u \in Threads :
        /\ u # t => pc'[u] = pc[u] /\ req'[u] = req[u]
        /\ u = t => pc'[u] = "idle"
  BY DEF Issue, Finish, Goto, DeviceInv, TypeOK
<1>4. \A u \in Threads : ~(pc'[u] = "issue" /\ req'[u].device = d)
  BY <1>1, <1>3 DEF DeviceInv, ClaimInv
<1>5. StageOf(d) = "claimed"
  BY <1>1, <1>2 DEF StageOf
<1>6. StageOf(d)' \in {"granted", "closed"}
  BY <1>1, <1>2, <1>4 DEF StageOf
<1>7. ASSUME NEW c \in Devices, c # d
      PROVE  StageOf(c)' = StageOf(c)
  <2>1. grants'[c] = grants[c]
    BY <1>7 DEF Issue, DeviceInv, TypeOK
  <2>2. \A u \in Threads :
          pc'[u] = "issue" /\ req'[u].device = c
            <=> pc[u] = "issue" /\ req[u].device = c
    BY <1>3, <1>7
  <2> QED
    BY <1>1, <2>1, <2>2, SameStage
<1>8. Flow!Move(d, {"claimed"}, "granted") \/ Flow!Move(d, {"claimed"}, "closed")
  BY <1>1, <1>5, <1>6, <1>7, FlowMoves
<1> QED
  BY <1>1, <1>8 DEF Flow!Grant, Flow!Fail, Flow!Next

\* The accounts and the clock are invisible.
LEMMA OtherRefines ==
  ASSUME \/ \E s \in Subjects : Disable(s) \/ Enable(s)
         \/ Tick
         \/ UNCHANGED vars
  PROVE  UNCHANGED Flow!vars
<1>1. UNCHANGED <<devices, pc, req, minted, answer, grants>>
  BY DEF Disable, Enable, Tick, vars, storeVars, histVars
<1>2. \A d \in Devices : StageOf(d)' = StageOf(d)
  BY <1>1 DEF StageOf
<1> QED
  BY <1>1, <1>2, FlowStutters

\* The device grant implements the device flow: every approval, refusal,
\* poll, sweep and revocation is a step of DeviceFlow or no step at all.
THEOREM DeviceGrantImplementsFlow == Spec => ImplementsFlow
<1>1. Init => Flow!Init
  BY AnswerAssumption DEF Init, Flow!Init, StageOf
<1>2. DeviceInv /\ DeviceInv' /\ [Next]_vars => [Flow!Next]_(Flow!vars)
  <2> SUFFICES ASSUME DeviceInv, DeviceInv', [Next]_vars
               PROVE  [Flow!Next]_(Flow!vars)
    OBVIOUS
  <2>1. ASSUME NEW d \in Devices, NEW u \in UserCodes, RequestDevice(d, u)
        PROVE  [Flow!Next]_(Flow!vars)
    BY <2>1, RequestDeviceRefines DEF Flow!Next
  <2> QED
    BY <2>1, ReadersRefine, AnswerRefines, RemovalRefines, TakeRefines,
       IssueRefines, OtherRefines DEF Next, Continue
<1> QED
  BY <1>1, <1>2, DeviceInvCorrect, PTL DEF Spec, ImplementsFlow, Flow!FlowSpec

=============================================================================

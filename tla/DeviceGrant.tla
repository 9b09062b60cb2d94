---------------------------- MODULE DeviceGrant ----------------------------
(***************************************************************************)
(* The device authorisation grant of internal/oauth: a device asks for a   *)
(* pair of codes, a resource owner answers for it in a browser, and the    *)
(* device polls the token endpoint until it is told the outcome.           *)
(*                                                                         *)
(* Every method of Store runs under s.mu, so one method call is one step;  *)
(* pc/req hold the place and the local variables of each handler           *)
(* goroutine, whichever of the two endpoints it serves.                    *)
(*                                                                         *)
(* Data abstracted: a device code is a model value, its hash itself; the   *)
(* client and scope only guard entry to a handler, and are left out with   *)
(* the requests they refuse, which change nothing; issueTokens, the four   *)
(* steps of which are those of OAuthTokens, is one step that may fail.     *)
(***************************************************************************)
EXTENDS Integers, Sequences, FiniteSets

CONSTANTS
  Threads,      \* handler goroutines
  Subjects,     \* user accounts
  Devices,      \* device codes that may be generated
  UserCodes,    \* user codes that may be drawn
  Colliding,    \* may a user code be drawn that was drawn before?
  None,         \* the absent value
  Refused,      \* the resource owner's other answer
  MaxTime,      \* bound: the clock stops here
  DeviceTTL,    \* Config.DeviceCodeLifetime
  Interval,     \* deviceCodePollInterval
  DeviceLimit   \* Limits.DeviceCodes

ASSUME ClockAssumption ==
  /\ MaxTime \in Nat
  /\ DeviceTTL \in Nat \ {0}
  /\ Interval \in Nat \ {0}
  /\ DeviceLimit \in Nat \ {0}
ASSUME AnswerAssumption ==
  /\ None \notin Subjects \cup Devices \cup {Refused}
  /\ Refused \notin Subjects
  /\ Colliding \in BOOLEAN

VARIABLES
  now,          \* Server.now
  devices,      \* Store.devices
  userCodes,    \* Store.userCodes
  active,       \* which accounts the user store would let in
  hook,         \* accounts whose revocation hook has yet to run
  pc,           \* where each handler goroutine is
  req,          \* its local variables
  minted,       \* device codes randomToken has yielded
  answer,       \* history: the answer a resource owner was told stands
  answers,      \* history: the times of the polls not told to slow down
  grants        \* history: the subjects tokens were issued to, in order

vars == <<now, devices, userCodes, active, hook, pc, req, minted, answer,
          answers, grants>>

storeVars == <<devices, userCodes>>
histVars  == <<minted, answer, answers, grants>>

\* LastPolled is the zero time until the first poll: no interval is long
\* enough to hold that poll back.
Never == 0 - Interval

DeviceCode == [user : UserCodes, subject : Subjects \cup {None},
               approved : BOOLEAN, denied : BOOLEAN, exp : Nat,
               polled : Nat \cup {Never}]

\* The absent entry is no entry.
ASSUME DeviceAssumption == None \notin DeviceCode

Request == [device : Devices \cup {None}, subject : Subjects \cup {None},
            at : Nat]

NoRequest == [device |-> None, subject |-> None, at |-> 0]

PC == {"idle", "authenticate", "approve", "deny", "touch", "take", "issue",
       "delete"}

Present == {d \in Devices : devices[d] # None}

Pending(d) == devices[d] # None /\ ~devices[d].approved /\ ~devices[d].denied

Goto(t, place, locals) ==
  /\ pc' = [pc EXCEPT ![t] = place]
  /\ req' = [req EXCEPT ![t] = locals]

Finish(t) == Goto(t, "idle", NoRequest)

\* Mutant: deleting a device leaves its user code behind.
Remove_KeepsIndex(D) ==
  /\ devices' = [d \in Devices |-> IF d \in D THEN None ELSE devices[d]]
  /\ UNCHANGED userCodes

\* deleteDeviceLocked, of each present device in D: the entry goes, and
\* with it whatever its user code names.
Remove(D) ==
  /\ devices' = [d \in Devices |-> IF d \in D THEN None ELSE devices[d]]
  /\ userCodes' = [u \in UserCodes |->
       IF \E d \in D \cap Present : devices[d].user = u
       THEN None ELSE userCodes[u]]

(***************************************************************************)
(* handleDevice                                                            *)
(***************************************************************************)

\* A user code that newUserCode may draw.
Drawable(u) == Colliding \/ \A d \in Present : devices[d].user # u

\* A fresh device code is stored unless the collection is full.
RequestDevice(d, u) ==
  /\ d \notin minted
  /\ Drawable(u)
  /\ minted' = minted \cup {d}
  /\ IF Cardinality(Present) >= DeviceLimit
     THEN UNCHANGED storeVars
     ELSE /\ devices' = [devices EXCEPT ![d] =
               [user |-> u, subject |-> None, approved |-> FALSE,
                denied |-> FALSE, exp |-> now + DeviceTTL, polled |-> Never]]
          /\ userCodes' = [userCodes EXCEPT ![u] = d]
  /\ UNCHANGED <<now, active, hook, pc, req, answer, answers, grants>>

(***************************************************************************)
(* handleDeviceVerify: look the user code up, then deny it, or sign in and *)
(* approve it.                                                             *)
(***************************************************************************)

\* A user code that resolves to a device still awaiting an answer.
Answerable(u) ==
  /\ userCodes[u] # None
  /\ Pending(userCodes[u])
  /\ devices[userCodes[u]].exp > now

Lookup(t, u, s) ==
  /\ pc[t] = "idle"
  /\ Answerable(u)
  /\ \/ Goto(t, "authenticate", [NoRequest EXCEPT !.device = userCodes[u],
                                                  !.subject = s])
     \/ Goto(t, "deny", [NoRequest EXCEPT !.device = userCodes[u]])
  /\ UNCHANGED <<now, storeVars, active, hook, histVars>>

\* authenticateForm: the right password, for an account not disabled.  (A
\* wrong password ends the handler too.)
Authenticate(t) ==
  /\ pc[t] = "authenticate"
  /\ \/ active[req[t].subject] /\ Goto(t, "approve", req[t])
     \/ Finish(t)
  /\ UNCHANGED <<now, storeVars, active, hook, histVars>>

\* Mutant: the state the handler looked up is trusted.
Approve_Unchecked(t) ==
  LET d == req[t].device
  IN  /\ pc[t] = "approve"
      /\ IF devices[d] # None
         THEN /\ devices' = [devices EXCEPT ![d].approved = TRUE,
                                            ![d].subject = req[t].subject]
              /\ answer' = [answer EXCEPT ![d] = req[t].subject]
         ELSE UNCHANGED <<devices, answer>>
      /\ Finish(t)
      /\ UNCHANGED <<now, userCodes, active, hook, minted, answers, grants>>

\* ApproveDevice
Approve(t) ==
  LET d == req[t].device
  IN  /\ pc[t] = "approve"
      /\ IF Pending(d)
         THEN /\ devices' = [devices EXCEPT ![d].approved = TRUE,
                                            ![d].subject = req[t].subject]
              /\ answer' = [answer EXCEPT ![d] = req[t].subject]
         ELSE UNCHANGED <<devices, answer>>
      /\ Finish(t)
      /\ UNCHANGED <<now, userCodes, active, hook, minted, answers, grants>>

\* DenyDevice
Deny(t) ==
  LET d == req[t].device
  IN  /\ pc[t] = "deny"
      /\ IF Pending(d)
         THEN /\ devices' = [devices EXCEPT ![d].denied = TRUE]
              /\ answer' = [answer EXCEPT ![d] = Refused]
         ELSE UNCHANGED <<devices, answer>>
      /\ Finish(t)
      /\ UNCHANGED <<now, userCodes, active, hook, minted, answers, grants>>

(***************************************************************************)
(* handleDeviceCodeGrant: one poll of the token endpoint.                  *)
(***************************************************************************)

\* GetDeviceByHash, and the one reading of the clock the handler uses.
Poll(t, d) ==
  /\ pc[t] = "idle"
  /\ devices[d] # None
  /\ Goto(t, IF devices[d].exp > now THEN "touch" ELSE "delete",
          [NoRequest EXCEPT !.device = d, !.at = now])
  /\ UNCHANGED <<now, storeVars, active, hook, histVars>>

\* DeleteDevice, once the code has expired or its refusal been told.
Delete(t) ==
  /\ pc[t] = "delete"
  /\ Remove({req[t].device})
  /\ Finish(t)
  /\ UNCHANGED <<now, active, hook, histVars>>

\* Mutant: the interval is not enforced.
TouchPoll_NoBackoff(t) ==
  LET d == req[t].device
  IN  /\ pc[t] = "touch"
      /\ devices[d] # None
      /\ devices' = [devices EXCEPT ![d].polled = req[t].at]
      /\ answers' = [answers EXCEPT ![d] = Append(@, req[t].at)]
      /\ IF devices[d].denied THEN Goto(t, "delete", req[t])
         ELSE IF devices[d].approved THEN Goto(t, "take", req[t])
         ELSE Finish(t)
      /\ UNCHANGED <<now, userCodes, active, hook, minted, answer, grants>>

\* TouchDevicePoll, and what the handler does with the copy it returns: it
\* gives up on a code that is gone, tells an early poll to slow down, and
\* otherwise counts the poll and acts on the answer, if there is one.
TouchPoll(t) ==
  LET d == req[t].device
  IN  /\ pc[t] = "touch"
      /\ IF devices[d] = None \/ req[t].at - devices[d].polled < Interval
         THEN Finish(t) /\ UNCHANGED <<devices, answers>>
         ELSE /\ devices' = [devices EXCEPT ![d].polled = req[t].at]
              /\ answers' = [answers EXCEPT ![d] = Append(@, req[t].at)]
              /\ IF devices[d].denied THEN Goto(t, "delete", req[t])
                 ELSE IF devices[d].approved THEN Goto(t, "take", req[t])
                 ELSE Finish(t)
      /\ UNCHANGED <<now, userCodes, active, hook, minted, answer, grants>>

\* Mutant: the approval is read and left in the store.
Take_Peek(t) ==
  LET d == req[t].device
  IN  /\ pc[t] = "take"
      /\ IF devices[d] # None /\ devices[d].approved
         THEN Goto(t, "issue", [req[t] EXCEPT !.subject = devices[d].subject])
         ELSE Finish(t)
      /\ UNCHANGED <<now, storeVars, active, hook, histVars>>

\* TakeDeviceIfApproved
Take(t) ==
  LET d == req[t].device
  IN  /\ pc[t] = "take"
      /\ IF devices[d] # None /\ devices[d].approved /\ ~devices[d].denied
         THEN /\ Remove({d})
              /\ Goto(t, "issue",
                      [req[t] EXCEPT !.subject = devices[d].subject])
         ELSE Finish(t) /\ UNCHANGED storeVars
      /\ UNCHANGED <<now, active, hook, histVars>>

\* issueTokens: granted, or refused by a full token store.
Issue(t) ==
  /\ pc[t] = "issue"
  /\ \/ grants' = [grants EXCEPT ![req[t].device] =
                     Append(@, req[t].subject)]
     \/ UNCHANGED grants
  /\ Finish(t)
  /\ UNCHANGED <<now, storeVars, active, hook, minted, answer, answers>>

(***************************************************************************)
(* The sweeper, the clock and the accounts.                                *)
(***************************************************************************)

Stale == {d \in Present : devices[d].exp < now}

\* Mutant: a device that has had its answer is left for its next poll.
Sweep_PendingOnly ==
  /\ {d \in Stale : Pending(d)} # {}
  /\ Remove({d \in Stale : Pending(d)})
  /\ UNCHANGED <<now, active, hook, pc, req, histVars>>

Sweep ==
  /\ Stale # {}
  /\ Remove(Stale)
  /\ UNCHANGED <<now, active, hook, pc, req, histVars>>

Disable(s) ==
  /\ active' = [active EXCEPT ![s] = FALSE]
  /\ hook' = hook \cup {s}
  /\ UNCHANGED <<now, storeVars, pc, req, histVars>>

Enable(s) ==
  /\ active' = [active EXCEPT ![s] = TRUE]
  /\ UNCHANGED <<now, storeVars, hook, pc, req, histVars>>

\* DeleteBySubject, as far as devices go.
RunHook(s) ==
  /\ s \in hook
  /\ hook' = hook \ {s}
  /\ Remove({d \in Present : devices[d].subject = s})
  /\ UNCHANGED <<now, active, pc, req, histVars>>

Tick ==
  /\ now < MaxTime
  /\ now' = now + 1
  /\ UNCHANGED <<storeVars, active, hook, pc, req, histVars>>

(***************************************************************************)
(* Specification                                                           *)
(***************************************************************************)

Init ==
  /\ now = 0
  /\ devices = [d \in Devices |-> None]
  /\ userCodes = [u \in UserCodes |-> None]
  /\ active = [s \in Subjects |-> TRUE]
  /\ hook = {}
  /\ pc = [t \in Threads |-> "idle"]
  /\ req = [t \in Threads |-> NoRequest]
  /\ minted = {}
  /\ answer = [d \in Devices |-> None]
  /\ answers = [d \in Devices |-> <<>>]
  /\ grants = [d \in Devices |-> <<>>]

\* The steps of a handler that has been admitted.
Continue(t) ==
  \/ Authenticate(t)
  \/ Approve(t)
  \/ Deny(t)
  \/ TouchPoll(t)
  \/ Delete(t)
  \/ Take(t)
  \/ Issue(t)

Next ==
  \/ \E d \in Devices, u \in UserCodes : RequestDevice(d, u)
  \/ \E t \in Threads :
       \/ \E u \in UserCodes, s \in Subjects : Lookup(t, u, s)
       \/ \E d \in Devices : Poll(t, d)
       \/ Continue(t)
  \/ Sweep
  \/ \E s \in Subjects : Disable(s) \/ Enable(s) \/ RunHook(s)
  \/ Tick

Spec == Init /\ [][Next]_vars

\* Handlers run on once admitted, the sweeper's ticker keeps firing, and
\* the clock moves.
Fairness ==
  /\ \A t \in Threads : WF_vars(Continue(t))
  /\ WF_vars(Sweep)
  /\ WF_vars(Tick)

FairSpec == Spec /\ Fairness

(***************************************************************************)
(* Properties                                                              *)
(***************************************************************************)

\* Every variable has its type.
TypeOK ==
  /\ now \in Nat
  /\ devices \in [Devices -> DeviceCode \cup {None}]
  /\ userCodes \in [UserCodes -> Devices \cup {None}]
  /\ active \in [Subjects -> BOOLEAN]
  /\ hook \in SUBSET Subjects
  /\ pc \in [Threads -> PC]
  /\ req \in [Threads -> Request]
  /\ minted \in SUBSET Devices
  /\ answer \in [Devices -> Subjects \cup {None, Refused}]
  /\ answers \in [Devices -> Seq(Nat)]
  /\ grants \in [Devices -> Seq(Subjects)]

\* An answer a resource owner was told had been taken is never overwritten,
\* however many approvals and refusals of the same code race.
AnswerStands ==
  [][\A d \in Devices : answer[d] # None => answer'[d] = answer[d]]_vars

\* However many polls race, tokens are issued at most once for a device
\* code, and only to the account that approved it.
GrantedOnceToApprover ==
  \A d \in Devices :
    /\ Len(grants[d]) <= 1
    /\ \A i \in DOMAIN grants[d] : grants[d][i] = answer[d]

\* The polls of one device that are not told to slow down lie at least an
\* interval apart, on the clock the handlers read.
PollSpacing ==
  \A d \in Devices : \A i, j \in DOMAIN answers[d] :
    i < j => answers[d][i] + Interval <= answers[d][j]

\* Only a poll that was answered starts the interval anew: a device that
\* polls too often is held back, but never for longer than one interval.
BackoffFromLastAnswer ==
  \A d \in Present :
    devices[d].polled =
      IF answers[d] = <<>> THEN Never ELSE answers[d][Len(answers[d])]

\* Polls lie an interval apart, on both clocks that say so.
PollsPaced == PollSpacing /\ BackoffFromLastAnswer

\* A user code never leads to a device that is gone or carries another one.
IndexSound ==
  \A u \in UserCodes :
    userCodes[u] # None =>
      devices[userCodes[u]] # None /\ devices[userCodes[u]].user = u

\* A device in the store can be reached by its user code, so it can be
\* answered.
IndexComplete ==
  \A d \in Present : userCodes[devices[d].user] = d

\* Every device code leaves the store, even if nobody polls any more.
DevicesDrain ==
  \A d \in Devices :
    (devices[d] # None /\ devices[d].exp < MaxTime) ~> (devices[d] = None)

(***************************************************************************)
(* The inductive invariant behind AnswerStands, GrantedOnceToApprover and  *)
(* the refinement of DeviceFlow.                                           *)
(***************************************************************************)

\* The local variables a handler has assigned when it is at a place.
PlaceOK(t) ==
  /\ pc[t] # "idle" => req[t].device \in minted
  /\ pc[t] \in {"authenticate", "approve", "issue"} =>
       req[t].subject \in Subjects

\* What is in the store has been generated, and says of its answer what the
\* resource owner was told.
AnswerInv ==
  \A d \in Devices :
    /\ d \notin minted => devices[d] = None /\ answer[d] = None
    /\ devices[d] # None =>
         /\ devices[d].approved =>
              /\ ~devices[d].denied
              /\ answer[d] = devices[d].subject
              /\ answer[d] \in Subjects
         /\ devices[d].denied => answer[d] = Refused
         /\ Pending(d) => answer[d] = None

\* A poll that has taken an approval is the only one, and the first.
ClaimInv ==
  /\ \A t \in Threads : pc[t] = "issue" =>
       /\ devices[req[t].device] = None
       /\ grants[req[t].device] = <<>>
       /\ answer[req[t].device] = req[t].subject
  /\ \A t, u \in Threads :
       pc[t] = "issue" /\ pc[u] = "issue" /\ req[t].device = req[u].device
         => t = u

\* Tokens are granted only for a code that has left the store.
GrantInv ==
  \A d \in Devices :
    grants[d] # <<>> =>
      /\ d \in minted
      /\ devices[d] = None
      /\ answer[d] \in Subjects
      /\ grants[d] = <<answer[d]>>

DeviceInv ==
  /\ TypeOK
  /\ \A t \in Threads : PlaceOK(t)
  /\ AnswerInv
  /\ ClaimInv
  /\ GrantInv

=============================================================================

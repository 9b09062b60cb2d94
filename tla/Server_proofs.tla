--------------------------- MODULE Server_proofs ---------------------------
(***************************************************************************)
(* Which database a request is answered from, for any databases, tokens    *)
(* and requests and any number of reloads: a tool runs only where its      *)
(* caller may, on the database the session was told it has, which is the   *)
(* one it is shown.  And the configuration, for any settings looked at     *)
(* together, any databases, variables and flags and any number of edits.   *)
(* Then pure operators for every input: the pages of a result, the chunks  *)
(* of a text, a request's answers by both transports, and the middleware.  *)
(***************************************************************************)
EXTENDS RequestRouting, ServerConfiguration, RowLimits, EmbeddingSearch, Protocol,
        SequenceTheorems, WellFoundedInduction, TLAPS

\* There is a first of any databases.
LEMMA FirstIn ==
  ASSUME NEW S \in SUBSET Databases, S # {}
  PROVE  First(S) \in S
<1> DEFINE R == OpToRel(<, Nat)
<1>1. S \subseteq Nat
  BY NameAssumption
<1>2. PICK x \in S : \A y \in S : ~ (<<y, x>> \in R)
  BY <1>1, NatLessThanWellFounded, WFMin
<1>3. R = {s \in Nat \X Nat : s[1] < s[2]}
  BY DEF OpToRel
<1>4. \A y \in S : ~(y < x)
  <2> SUFFICES ASSUME NEW y \in S, y < x PROVE <<y, x>> \in R
    BY <1>2
  <2> QED
    BY <1>1, <1>3
<1>5. \A y \in S : x <= y
  BY <1>1, <1>4
<1> QED
  BY <1>5 DEF First

\* What a request sees as its session's database is one.
LEMMA CurrentIsDatabase ==
  ASSUME TypeOK, NEW k \in Keys
  PROVE  GetCurrentDatabase(k) \in Databases
BY CatalogueAssumption DEF TypeOK, GetCurrentDatabase

\* What a credential may have is in the configuration.
LEMMA AccessibleAreDatabases ==
  ASSUME NEW t, NEW c \in Catalogues
  PROVE  /\ GetAccessibleDatabases(t, c) \subseteq DOMAIN c.entry
         /\ Allowed(t, c) \subseteq DOMAIN c.entry
         /\ DOMAIN c.entry \subseteq Databases
BY CatalogueAssumption DEF GetAccessibleDatabases, Allowed

\* A credential in the store finds its binding.
LEMMA KnownFindsBinding ==
  ASSUME TypeOK, authEnabled, NEW t \in known, NEW c
  PROVE  GetAccessibleDatabases(t, c) = Allowed(t, c)
<1>1. principal[t] \in Principals
  BY DEF TypeOK
<1>2. GetBoundDatabase(t) = principal[t].bound
  BY <1>1 DEF GetBoundDatabase, Principals
<1> QED
  BY <1>2 DEF GetAccessibleDatabases, Allowed

(***************************************************************************)
(* Types                                                                   *)
(***************************************************************************)

\* The types of what is not a request's own.
SharedOK ==
  /\ authEnabled \in BOOLEAN
  /\ principal \in [Tokens -> Principals]
  /\ started \in Catalogues /\ configs \in Catalogues
  /\ known \in SUBSET Tokens
  /\ currentDB \in [Keys -> Databases \cup {None}]
  /\ open \in SUBSET Clients /\ registries \in SUBSET Clients
  /\ opened \in [Keys \X Databases -> Nat]
  /\ promised \in [Keys -> Databases \cup {None}]

LEMMA TypesSplit == ASSUME SharedOK', RequestsOK' PROVE TypeOK'
BY DEF SharedOK, RequestsOK, TypeOK, Request, Steps

LEMMA IdleOK ==
  ASSUME NEW what \in {"none", "ok", "failed", "denied", "panic"}
  PROVE  /\ [Idle EXCEPT !.reply = what] \in Request
         /\ [Idle EXCEPT !.reply = what].pc = "idle"
BY DEF Idle, Request, Steps, Kinds

\* A step of one request keeps the types, if that request does.
LEMMA OneKeepsTypes ==
  ASSUME RequestsOK, SharedOK', NEW r \in Requests, NEW m \in Request, Sound(m),
         req' = [req EXCEPT ![r] = m]
  PROVE  TypeOK' /\ RequestsOK'
<1>1. RequestsOK'
  BY DEF RequestsOK
<1> QED
  BY <1>1, TypesSplit

LEMMA AnswerKeepsTypes ==
  ASSUME RequestsOK, SharedOK', NEW r \in Requests,
         NEW what \in {"none", "ok", "failed", "denied", "panic"}, req' = Answer(r, what)
  PROVE  TypeOK' /\ RequestsOK'
<1>1. [Idle EXCEPT !.reply = what] \in Request /\ [Idle EXCEPT !.reply = what].pc = "idle"
  BY IdleOK
<1>2. req' = [req EXCEPT ![r] = [Idle EXCEPT !.reply = what]]
  BY DEF Answer
<1>3. Sound([Idle EXCEPT !.reply = what])
  BY <1>1 DEF Sound
<1> QED
  BY <1>1, <1>2, <1>3, OneKeepsTypes

LEMMA ArriveTypes ==
  ASSUME TypeOK, RequestsOK, NEW r \in Requests, Arrive(r)
  PROVE  TypeOK' /\ RequestsOK'
<1>1. SharedOK'
  BY DEF TypeOK, SharedOK, Arrive
<1>2. PICK t \in known, kind \in Kinds, d \in Databases :
        req' = [req EXCEPT ![r] =
            [Idle EXCEPT !.pc = IF kind \in Selecting THEN "check" ELSE "current",
                         !.token = t, !.kind = kind,
                         !.name = IF kind \in Selecting THEN d ELSE None,
                         !.may = Allowed(t, configs), !.promise = promised[Key(t)]]]
  BY DEF Arrive
<1> DEFINE m == [Idle EXCEPT !.pc = IF kind \in Selecting THEN "check" ELSE "current",
                         !.token = t, !.kind = kind,
                         !.name = IF kind \in Selecting THEN d ELSE None,
                         !.may = Allowed(t, configs), !.promise = promised[Key(t)]]
<1>3. t \in Tokens /\ Allowed(t, configs) \in SUBSET Databases
      /\ promised[Key(t)] \in Databases \cup {None}
  BY AccessibleAreDatabases DEF TypeOK, Key, Keys
<1>4. m \in Request
  BY <1>3 DEF Idle, Request, Steps
<1>5. Sound(m)
  BY <1>3, <1>4 DEF Sound, Idle
<1> QED
  BY <1>1, <1>2, <1>4, <1>5, OneKeepsTypes

\* A request finds a client of its session and its database, or opens one.
LEMMA FindClientMoves ==
  ASSUME TypeOK, NEW r \in Requests, FindClient(r)
  PROVE  \/ \E c \in Clients : /\ c[1] = KeyOf(r) /\ c[2] = req[r].cur
                               /\ req' = [req EXCEPT ![r].client = c, ![r].pc = Onward(r)]
         \/ req' = Answer(r, "failed")
         \/ req' = Goto(r, "open")
<1> DEFINE found == Serving(KeyOf(r), req[r].cur)
<1>1. CASE found # {}
  <2>1. PICK c \in found : c = CHOOSE x \in found : TRUE
    BY <1>1
  <2>2. req' = [req EXCEPT ![r].client = c, ![r].pc = Onward(r)]
    BY <1>1, <2>1 DEF FindClient
  <2>3. c \in Clients /\ c[1] = KeyOf(r) /\ c[2] = req[r].cur
    BY DEF Serving, TypeOK
  <2> QED
    BY <2>2, <2>3
<1> QED
  BY <1>1 DEF FindClient

LEMMA OpenClientMoves ==
  ASSUME TypeOK, NEW r \in Requests, OpenClient(r), KeyOf(r) \in Keys,
         req[r].cur \in Databases
  PROVE  /\ \/ \E c \in Clients : /\ c[1] = KeyOf(r) /\ c[2] = req[r].cur
                                  /\ req' = [req EXCEPT ![r].client = c, ![r].pc = Onward(r)]
            \/ req' = Answer(r, "failed")
         /\ open' \in SUBSET Clients
         /\ opened' \in [Keys \X Databases -> Nat]
<1> DEFINE k == KeyOf(r)
           d == req[r].cur
           n == opened[<<k, d>>] + 1
<1>1. CASE /\ Serving(k, d) # {}
           /\ req' = [req EXCEPT ![r].client = CHOOSE c \in Serving(k, d) : TRUE,
                                 ![r].pc = Onward(r)]
           /\ UNCHANGED <<open, opened>>
  <2>1. PICK c \in Serving(k, d) : c = CHOOSE x \in Serving(k, d) : TRUE
    BY <1>1
  <2>2. req' = [req EXCEPT ![r].client = c, ![r].pc = Onward(r)]
    BY <1>1, <2>1
  <2>3. c \in Clients /\ c[1] = KeyOf(r) /\ c[2] = req[r].cur
    BY DEF Serving, TypeOK
  <2> QED
    BY <1>1, <2>2, <2>3 DEF TypeOK
<1>2. CASE /\ n <= MaxOpens
           /\ open' = open \cup {<<k, d, n>>}
           /\ opened' = [opened EXCEPT ![<<k, d>>] = n]
           /\ req' = [req EXCEPT ![r].client = <<k, d, n>>, ![r].pc = Onward(r)]
  <2>1. PICK c : c = <<k, d, n>>
    OBVIOUS
  <2>2. n \in Nat \ {0}
    BY DEF TypeOK
  <2>3. c \in Clients /\ c[1] = KeyOf(r) /\ c[2] = req[r].cur
    BY <1>2, <2>1, <2>2, LimitAssumption DEF Clients
  <2>4. open' \in SUBSET Clients /\ opened' \in [Keys \X Databases -> Nat]
    BY <1>2, <2>1, <2>2, <2>3 DEF TypeOK
  <2> QED
    BY <1>2, <2>1, <2>3, <2>4
<1>3. CASE req' = Answer(r, "failed") /\ UNCHANGED <<open, opened>>
  BY <1>3 DEF TypeOK
<1> QED
  BY <1>1, <1>2, <1>3 DEF OpenClient

LEMMA ProceedTypes ==
  ASSUME TypeOK, RequestsOK, NEW r \in Requests, Proceed(r)
  PROVE  TypeOK' /\ RequestsOK'
<1> USE AnswerKeepsTypes, OneKeepsTypes
<1>0. /\ req \in [Requests -> Request] /\ req[r] \in Request /\ Sound(req[r])
      /\ Busy(r) => KeyOf(r) \in Keys
  BY DEF RequestsOK, Sound, Busy, KeyOf, Key, Keys
<1>1. CASE ReadCurrent(r)
  <2> DEFINE m == [req[r] EXCEPT !.cur = GetCurrentDatabase(KeyOf(r)),
                                 !.pc = IF authEnabled THEN "configs" ELSE "client"]
  <2>1. SharedOK'
    BY <1>1 DEF ReadCurrent, TypeOK, SharedOK
  <2>2. GetCurrentDatabase(KeyOf(r)) \in Databases
    BY <1>0, <1>1, CurrentIsDatabase DEF ReadCurrent, Busy
  <2>3. m \in Request /\ req' = [req EXCEPT ![r] = m]
    BY <1>0, <1>1, <2>2 DEF ReadCurrent, Request, Steps
  <2>4. Sound(m)
    BY <1>0, <1>1, <2>2, <2>3 DEF ReadCurrent, Sound, Busy, Request
  <2> QED
    BY <2>1, <2>3, <2>4
<1>2. CASE ReadConfigs(r)
  <2> DEFINE m == [req[r] EXCEPT !.seen = configs, !.pc = "access"]
  <2>1. SharedOK'
    BY <1>2 DEF ReadConfigs, TypeOK, SharedOK
  <2>2. m \in Request /\ req' = [req EXCEPT ![r] = m]
    BY <1>0, <1>2 DEF ReadConfigs, Request, Steps, TypeOK
  <2>3. Sound(m)
    BY <1>0, <1>2, <2>2 DEF ReadConfigs, Sound, Busy, Request, TypeOK
  <2> QED
    BY <2>1, <2>2, <2>3
<1>3. CASE CheckAccess(r)
  <2> DEFINE accessible == GetAccessibleDatabases(req[r].token, req[r].seen)
  <2>1. SharedOK'
    BY <1>3 DEF CheckAccess, TypeOK, SharedOK
  <2>2. accessible \in SUBSET Databases
    BY <1>0, <1>3, AccessibleAreDatabases DEF CheckAccess, Sound
  <2>3. CASE accessible = {}
    BY <2>1, <2>3, <1>3 DEF CheckAccess
  <2>4. CASE accessible # {} /\ req[r].cur \in accessible
    <3> DEFINE m == [req[r] EXCEPT !.pc = "client"]
    <3>1. m \in Request /\ req' = [req EXCEPT ![r] = m]
      BY <1>0, <1>3, <2>4 DEF CheckAccess, Goto, Request, Steps
    <3>2. Sound(m)
      BY <1>0, <1>3, <3>1 DEF CheckAccess, Sound, Busy, Request
    <3> QED
      BY <2>1, <3>1, <3>2
  <2>5. CASE accessible # {} /\ req[r].cur \notin accessible
    <3>1. PICK d : d = First(accessible)
      OBVIOUS
    <3>2. d \in Databases
      BY <2>2, <2>5, <3>1, FirstIn
    <3>3. req' = [req EXCEPT ![r].cur = d, ![r].pc = "prefer"]
      BY <1>3, <2>5, <3>1 DEF CheckAccess
    <3> DEFINE m == [req[r] EXCEPT !.cur = d, !.pc = "prefer"]
    <3>4. m \in Request /\ req' = [req EXCEPT ![r] = m]
      BY <1>0, <3>2, <3>3 DEF Request, Steps
    <3>5. Sound(m)
      BY <1>0, <1>3, <3>2, <3>4 DEF CheckAccess, Sound, Request
    <3> QED
      BY <2>1, <3>4, <3>5
  <2> QED
    BY <2>3, <2>4, <2>5
<1>4. CASE Prefer(r)
  <2>1. SharedOK'
    BY <1>0, <1>4 DEF Prefer, TypeOK, SharedOK, Sound, Busy
  <2>2. \A q \in Requests :
          \/ q = r /\ req'[q] = [req[q] EXCEPT !.pc = "client"]
          \/ q # r /\ req'[q] \in {req[q], [req[q] EXCEPT !.stale = TRUE]}
    BY <1>4 DEF Prefer
  <2>3. req' = [q \in Requests |-> req'[q]]
    BY <1>4 DEF Prefer
  <2>4. \A q \in Requests : req'[q] \in Request
    <3> SUFFICES ASSUME NEW q \in Requests PROVE req'[q] \in Request
      OBVIOUS
    <3>1. req[q] \in Request
      BY DEF RequestsOK
    <3>2. /\ [req[q] EXCEPT !.pc = "client"] \in Request
          /\ [req[q] EXCEPT !.stale = TRUE] \in Request
      BY ZenonT(30), <3>1 DEF Request, Steps
    <3> QED
      BY <2>2, <3>1, <3>2
  <2>5. \A q \in Requests : Sound(req'[q])
    BY <1>4, <2>2, <2>4 DEF Prefer, RequestsOK, Sound, Busy, Request
  <2>6. RequestsOK'
    BY <2>3, <2>4, <2>5 DEF RequestsOK
  <2> QED
    BY <2>1, <2>6, TypesSplit
<1>5. CASE FindClient(r)
  <2>1. req[r].pc = "client" /\ KeyOf(r) \in Keys /\ req[r].cur \in Databases
    BY <1>0, <1>5 DEF FindClient, Sound, Busy
  <2>2. SharedOK'
    BY <1>5, <2>1 DEF FindClient, TypeOK, SharedOK
  <2>3. ASSUME NEW c \in Clients, req' = [req EXCEPT ![r].client = c, ![r].pc = Onward(r)]
        PROVE  TypeOK' /\ RequestsOK'
    <3> DEFINE m == [req[r] EXCEPT !.client = c, !.pc = Onward(r)]
    <3>1. m \in Request /\ req' = [req EXCEPT ![r] = m]
      BY <1>0, <2>3 DEF Onward, Request, Steps
    <3>2. Sound(m)
      BY <1>0, <2>1, <2>3 DEF Sound, Request, Onward, Selecting, Kinds
    <3> QED
      BY <2>2, <3>1, <3>2
  <2>4. CASE req' = Answer(r, "failed")
    BY <2>2, <2>4
  <2>5. CASE req' = Goto(r, "open")
    <3> DEFINE m == [req[r] EXCEPT !.pc = "open"]
    <3>1. m \in Request /\ req' = [req EXCEPT ![r] = m]
      BY <1>0, <2>5 DEF Goto, Request, Steps
    <3>2. Sound(m)
      BY <1>0, <2>1 DEF Sound, Request
    <3> QED
      BY <2>2, <3>1, <3>2
  <2> QED
    BY <1>5, <2>3, <2>4, <2>5, FindClientMoves
<1>6. CASE OpenClient(r)
  <2>1. req[r].pc = "open" /\ KeyOf(r) \in Keys /\ req[r].cur \in Databases
    BY <1>0, <1>6 DEF OpenClient, Sound, Busy
  <2>2. SharedOK'
    BY <1>6, <2>1, OpenClientMoves DEF OpenClient, TypeOK, SharedOK
  <2>3. ASSUME NEW c \in Clients, req' = [req EXCEPT ![r].client = c, ![r].pc = Onward(r)]
        PROVE  TypeOK' /\ RequestsOK'
    <3> DEFINE m == [req[r] EXCEPT !.client = c, !.pc = Onward(r)]
    <3>1. m \in Request /\ req' = [req EXCEPT ![r] = m]
      BY <1>0, <2>3 DEF Onward, Request, Steps
    <3>2. Sound(m)
      BY <1>0, <2>1, <2>3 DEF Sound, Request, Onward, Selecting, Kinds
    <3> QED
      BY <2>2, <3>1, <3>2
  <2>4. CASE req' = Answer(r, "failed")
    BY <2>2, <2>4
  <2> QED
    BY <1>6, <2>1, <2>3, <2>4, OpenClientMoves
<1>7. CASE FindRegistry(r)
  <2>1. SharedOK'
    BY <1>0, <1>7 DEF FindRegistry, TypeOK, SharedOK, Sound
  <2>2. CASE req' = Answer(r, "panic")
    BY <2>1, <2>2
  <2>3. CASE req' = Goto(r, "execute")
    <3> DEFINE m == [req[r] EXCEPT !.pc = "execute"]
    <3>1. m \in Request /\ req' = [req EXCEPT ![r] = m]
      BY <1>0, <2>3 DEF Goto, Request, Steps
    <3>2. Sound(m)
      BY <1>0, <1>7, <3>1 DEF FindRegistry, Sound, Busy, Request
    <3> QED
      BY <2>1, <3>1, <3>2
  <2> QED
    BY <1>7, <2>2, <2>3 DEF FindRegistry
<1>8. CASE Execute(r)
  <2>1. SharedOK'
    BY <1>8 DEF Execute, TypeOK, SharedOK
  <2> QED
    BY <1>8, <2>1 DEF Execute
<1>9. CASE CheckSelection(r)
  <2>1. SharedOK'
    BY <1>9 DEF CheckSelection, TypeOK, SharedOK
  <2>2. CASE req' = Answer(r, "denied")
    BY <2>1, <2>2
  <2>3. CASE req[r].kind = "llm" /\ req' = [req EXCEPT ![r].cur = req[r].name, ![r].pc = "client"]
    <3> DEFINE m == [req[r] EXCEPT !.cur = req[r].name, !.pc = "client"]
    <3>1. m \in Request /\ req' = [req EXCEPT ![r] = m]
      BY <1>0, <2>3 DEF Request, Steps
    <3>2. Sound(m)
      BY <1>0, <1>9, <2>3, <3>1 DEF CheckSelection, Sound, Busy, Request
    <3> QED
      BY <2>1, <3>1, <3>2
  <2>4. CASE req' = Goto(r, "set")
    <3> DEFINE m == [req[r] EXCEPT !.pc = "set"]
    <3>1. m \in Request /\ req' = [req EXCEPT ![r] = m]
      BY <1>0, <2>4 DEF Goto, Request, Steps
    <3>2. Sound(m)
      BY <1>0, <1>9, <3>1 DEF CheckSelection, Sound, Busy, Request
    <3> QED
      BY <2>1, <3>1, <3>2
  <2> QED
    BY <1>9, <2>2, <2>3, <2>4 DEF CheckSelection
<1>10. CASE Select(r)
  <2>1. SharedOK'
    BY <1>0, <1>10 DEF Select, TypeOK, SharedOK, Closed, Sound, Busy, Sets
  <2>2. CASE req' = Answer(r, "failed")
    BY <2>1, <2>2
  <2>3. CASE req' = Told(r, req)
    <3>1. \A q \in Requests :
            \/ q = r /\ req'[q] = [Idle EXCEPT !.reply = "ok"]
            \/ q # r /\ req'[q] \in {req[q], [req[q] EXCEPT !.promise = None, !.stale = TRUE]}
      BY <2>3 DEF Told
    <3>2. req' = [q \in Requests |-> req'[q]]
      BY <2>3 DEF Told
    <3>3. \A q \in Requests : req'[q] \in Request
      <4> SUFFICES ASSUME NEW q \in Requests PROVE req'[q] \in Request
        OBVIOUS
      <4>1. req[q] \in Request
        BY DEF RequestsOK
      <4>2. [req[q] EXCEPT !.promise = None, !.stale = TRUE] \in Request
        BY <4>1 DEF Request
      <4> QED
        BY <3>1, <4>1, <4>2, IdleOK
    <3>4. ASSUME NEW q \in Requests PROVE Sound(req'[q])
      <4>1. CASE q = r
        BY <3>1, <4>1, IdleOK DEF Sound
      <4>2. CASE q # r
        <5>1. req[q] \in Request /\ Sound(req[q])
          BY DEF RequestsOK
        <5>2. Sound([req[q] EXCEPT !.promise = None, !.stale = TRUE])
          BY <5>1 DEF Sound, Request
        <5> QED
          BY <3>1, <4>2, <5>1, <5>2
      <4> QED
        BY <4>1, <4>2
    <3>5. RequestsOK'
      BY <3>2, <3>3, <3>4 DEF RequestsOK
    <3> QED
      BY <2>1, <3>5, TypesSplit
  <2> QED
    BY <1>10, <2>2, <2>3 DEF Select
<1> QED
  BY <1>1, <1>2, <1>3, <1>4, <1>5, <1>6, <1>7, <1>8, <1>9, <1>10 DEF Proceed

\* A change of the configuration or of a credential marks the requests.
LEMMA DisturbedTypes ==
  ASSUME RequestsOK, SharedOK', NEW c \in Catalogues, NEW gone, req' = Disturbed(c, gone)
  PROVE  TypeOK' /\ RequestsOK'
<1>1. req' = [r \in Requests |-> req'[r]]
  BY DEF Disturbed
<1>2. ASSUME NEW r \in Requests PROVE req'[r] \in Request /\ Sound(req'[r])
  <2>1. req[r] \in Request /\ Sound(req[r])
    BY DEF RequestsOK
  <2>2. CASE ~Busy(r)
    BY <2>1, <2>2 DEF Disturbed
  <2>3. CASE Busy(r)
    <3> DEFINE m == [req[r] EXCEPT !.stale = TRUE, !.promise = None,
                       !.gone = @ \/ req[r].token \in gone,
                       !.may = @ \cup Allowed(req[r].token, c)]
    <3>1. Allowed(req[r].token, c) \in SUBSET Databases
      BY AccessibleAreDatabases
    <3>2. m \in Request
      <4> DEFINE g == req[r].gone \/ req[r].token \in gone
                 may == req[r].may \cup Allowed(req[r].token, c)
      <4>1. g \in BOOLEAN
        OBVIOUS
      <4>2. may \in SUBSET Databases
        BY <2>1, <3>1 DEF Request
      <4>3. m = [req[r] EXCEPT !.stale = TRUE, !.promise = None, !.gone = g, !.may = may]
        OBVIOUS
      <4> HIDE DEF g, may, m
      <4> QED
        BY <2>1, <4>1, <4>2, <4>3 DEF Request
    <3>3. Sound(m)
      BY <2>1 DEF Sound, Request
    <3> QED
      BY <2>3, <3>2, <3>3 DEF Disturbed
  <2> QED
    BY <2>2, <2>3
<1>3. RequestsOK'
  BY <1>1, <1>2 DEF RequestsOK
<1> QED
  BY <1>3, TypesSplit

LEMMA InitTypes == Init => TypeOK /\ RequestsOK
<1> SUFFICES ASSUME Init PROVE TypeOK /\ RequestsOK
  OBVIOUS
<1>1. Idle \in Request /\ Sound(Idle)
  BY DEF Idle, Request, Sound, Steps, Kinds
<1>2. RequestsOK
  BY <1>1 DEF Init, RequestsOK
<1>3. TypeOK
  BY DEF Init, TypeOK, Idle
<1> QED
  BY <1>2, <1>3

\* Every step keeps the types.
LEMMA StepTypes ==
  ASSUME TypeOK, RequestsOK, [Next]_vars
  PROVE  TypeOK' /\ RequestsOK'
<1>1. CASE UNCHANGED vars
  BY <1>1 DEF vars, TypeOK, RequestsOK
<1>2. ASSUME NEW t \in Tokens, Withdraw(t) PROVE TypeOK' /\ RequestsOK'
  <2>1. SharedOK'
    BY <1>2 DEF Withdraw, TypeOK, SharedOK
  <2>2. configs \in Catalogues /\ req' = Disturbed(configs, {t})
    BY <1>2 DEF Withdraw, TypeOK
  <2> QED
    BY <2>1, <2>2, DisturbedTypes
<1>3. ASSUME NEW t \in Tokens, Release(t) PROVE TypeOK' /\ RequestsOK'
  BY <1>3 DEF Release, TypeOK, RequestsOK
<1>4. ASSUME Reload PROVE TypeOK' /\ RequestsOK'
  <2>1. PICK c \in Catalogues, changed \in SUBSET DOMAIN configs.entry :
          /\ configs' = c
          /\ open' = {x \in open : x[2] \notin (DOMAIN configs.entry \ DOMAIN c.entry) \cup changed}
          /\ \E held \in SUBSET Keys : currentDB' = [k \in Keys |->
               IF k \in held /\ currentDB[k] \in DOMAIN configs.entry \ DOMAIN c.entry THEN c.first ELSE currentDB[k]]
          /\ req' = Disturbed(c, {})
    BY <1>4 DEF Reload
  <2>2. c.first \in Databases
    BY CatalogueAssumption
  <2>3. SharedOK'
    BY <1>4, <2>1, <2>2 DEF Reload, TypeOK, SharedOK
  <2> QED
    BY <2>1, <2>3, DisturbedTypes
<1> QED
  BY <1>1, <1>2, <1>3, <1>4, ArriveTypes, ProceedTypes DEF Next

\* The variables keep their types, whether authentication is on or not.
THEOREM RouteTypeCorrect == Spec => []TypeOK
<1>1. Spec => [](TypeOK /\ RequestsOK)
  BY InitTypes, StepTypes, PTL DEF Spec
<1> QED
  BY <1>1, PTL

(***************************************************************************)
(* ChoiceSettings, readings and promises                                          *)
(***************************************************************************)

\* A step of one request that leaves the rest alone keeps the invariant, if
\* that request's own part of it holds.
LEMMA OneKeepsAuth ==
  ASSUME RouteInv, authEnabled, NEW r \in Requests,
         \A q \in Requests \ {r} : req'[q] = req[q],
         UNCHANGED <<authEnabled, principal, configs, known, currentDB, promised>>,
         Busy(r)' => ChoiceOK(r)' /\ ReadOK(r)' /\ KeptOK(r)'
  PROVE  AuthInv'
<1>1. ASSUME NEW q \in Requests, q # r, Busy(q)'
      PROVE  ChoiceOK(q)' /\ ReadOK(q)' /\ KeptOK(q)'
  <2>1. req'[q] = req[q]
    BY <1>1
  <2>2. Busy(q) /\ ChoiceOK(q) /\ ReadOK(q) /\ KeptOK(q)
    BY <1>1, <2>1 DEF RouteInv, AuthInv, Busy
  <2>3. ChoiceOK(q)'
    BY <2>1, <2>2 DEF ChoiceOK, Allowed, CanAccessDatabase, Using, Running, Busy
  <2>4. ReadOK(q)'
    BY <2>1, <2>2 DEF ReadOK, Using, Busy, GetCurrentDatabase, GetAccessibleDatabases,
                      CanAccessDatabase, GetBoundDatabase
  <2>5. KeptOK(q)'
    BY <2>1, <2>2 DEF KeptOK, Using, Busy, Allowed, CanAccessDatabase
  <2> QED
    BY <2>3, <2>4, <2>5
<1>2. ASSUME NEW t \in Tokens PROVE SessionOK(t)'
  BY DEF RouteInv, AuthInv, SessionOK, Allowed, CanAccessDatabase
<1> QED
  BY <1>1, <1>2 DEF AuthInv

\* A request that has been answered is nobody's concern.
LEMMA AnswerKeepsAuth ==
  ASSUME RouteInv, authEnabled, NEW r \in Requests,
         NEW what \in {"none", "ok", "failed", "denied", "panic"}, req' = Answer(r, what),
         UNCHANGED <<authEnabled, principal, configs, known, currentDB, promised>>
  PROVE  AuthInv'
<1>1. req' = [req EXCEPT ![r] = [Idle EXCEPT !.reply = what]]
  BY DEF Answer
<1>2. req'[r].pc = "idle" /\ \A q \in Requests \ {r} : req'[q] = req[q]
  BY <1>1, IdleOK DEF RouteInv, RequestsOK
<1> QED
  BY <1>2, OneKeepsAuth DEF Busy

\* What there is to know of a request under way, with authentication on.
LEMMA UnderWay ==
  ASSUME RouteInv, authEnabled, NEW r \in Requests, Busy(r)
  PROVE  /\ req \in [Requests -> Request] /\ req[r] \in Request /\ Sound(req[r])
         /\ req[r].token \in Tokens /\ KeyOf(r) = req[r].token /\ req[r].token \in Keys
         /\ ChoiceOK(r) /\ ReadOK(r) /\ KeptOK(r) /\ SessionOK(req[r].token)
BY DEF RouteInv, RequestsOK, Sound, Busy, KeyOf, Key, Keys, AuthInv

LEMMA ArriveKeepsAuth ==
  ASSUME RouteInv, authEnabled, NEW r \in Requests, Arrive(r)
  PROVE  AuthInv'
<1>1. PICK t \in known, kind \in Kinds, d \in Databases :
        req' = [req EXCEPT ![r] =
            [Idle EXCEPT !.pc = IF kind \in Selecting THEN "check" ELSE "current",
                         !.token = t, !.kind = kind,
                         !.name = IF kind \in Selecting THEN d ELSE None,
                         !.may = Allowed(t, configs), !.promise = promised[Key(t)]]]
  BY DEF Arrive
<1> DEFINE m == [Idle EXCEPT !.pc = IF kind \in Selecting THEN "check" ELSE "current",
                         !.token = t, !.kind = kind,
                         !.name = IF kind \in Selecting THEN d ELSE None,
                         !.may = Allowed(t, configs), !.promise = promised[Key(t)]]
<1>2. /\ UNCHANGED <<authEnabled, principal, configs, known, currentDB, promised>>
      /\ \A q \in Requests \ {r} : req'[q] = req[q]
      /\ req'[r] = m
  BY <1>1 DEF Arrive, RouteInv, RequestsOK
<1>3. /\ m.pc \in {"check", "current"} /\ m.token = t /\ m.kind = kind
      /\ m.pc = "check" <=> kind \in Selecting
      /\ m.may = Allowed(t, configs) /\ m.promise = promised[t]
      /\ m.stale = FALSE /\ m.gone = FALSE
  BY DEF Idle, Key
<1>4. ChoiceOK(r)'
  BY <1>2, <1>3 DEF ChoiceOK, Using, Running, Busy, Allowed, CanAccessDatabase
<1>5. ReadOK(r)'
  BY <1>2, <1>3 DEF ReadOK, Using
<1>6. KeptOK(r)'
  BY <1>2, <1>3 DEF KeptOK, Using
<1> QED
  BY <1>2, <1>4, <1>5, <1>6, OneKeepsAuth

LEMMA ReadCurrentKeepsAuth ==
  ASSUME RouteInv, authEnabled, NEW r \in Requests, ReadCurrent(r)
  PROVE  AuthInv'
<1> DEFINE t == req[r].token
<1>1. Busy(r) /\ req[r].pc = "current"
  BY DEF ReadCurrent, Busy
<1>2. PICK d : d = GetCurrentDatabase(t)
  OBVIOUS
<1>3. /\ UNCHANGED <<authEnabled, principal, configs, known, currentDB, promised>>
      /\ \A q \in Requests \ {r} : req'[q] = req[q]
      /\ req'[r] = [req[r] EXCEPT !.cur = d, !.pc = "configs"]
  BY <1>1, <1>2, UnderWay DEF ReadCurrent
<1>4. /\ req'[r].pc = "configs" /\ req'[r].cur = d
      /\ req'[r].token = t /\ req'[r].kind = req[r].kind /\ req'[r].may = req[r].may
      /\ req'[r].stale = req[r].stale /\ req'[r].gone = req[r].gone
      /\ req'[r].promise = req[r].promise
  BY <1>1, <1>3, UnderWay DEF Request
<1>5. ChoiceOK(r)'
  BY <1>1, <1>3, <1>4, UnderWay DEF ChoiceOK, Using, Running, Busy, Allowed, CanAccessDatabase
<1>6. ReadOK(r)'
  BY <1>2, <1>3, <1>4 DEF ReadOK, Using, GetCurrentDatabase
<1>7. KeptOK(r)'
  BY <1>1, <1>2, <1>3, <1>4, UnderWay
  DEF KeptOK, SessionOK, Using, Busy, GetCurrentDatabase, Allowed, CanAccessDatabase
<1> QED
  BY <1>3, <1>5, <1>6, <1>7, OneKeepsAuth

LEMMA ReadConfigsKeepsAuth ==
  ASSUME RouteInv, authEnabled, NEW r \in Requests, ReadConfigs(r)
  PROVE  AuthInv'
<1>1. Busy(r) /\ req[r].pc = "configs"
  BY DEF ReadConfigs, Busy
<1>2. /\ UNCHANGED <<authEnabled, principal, configs, known, currentDB, promised>>
      /\ \A q \in Requests \ {r} : req'[q] = req[q]
      /\ req'[r] = [req[r] EXCEPT !.seen = configs, !.pc = "access"]
  BY <1>1, UnderWay DEF ReadConfigs
<1>3. /\ req'[r].pc = "access" /\ req'[r].seen = configs /\ req'[r].cur = req[r].cur
      /\ req'[r].token = req[r].token /\ req'[r].kind = req[r].kind
      /\ req'[r].may = req[r].may /\ req'[r].stale = req[r].stale
      /\ req'[r].gone = req[r].gone /\ req'[r].promise = req[r].promise
  BY <1>1, <1>2, UnderWay DEF Request
<1>4. ChoiceOK(r)'
  BY <1>1, <1>2, <1>3, UnderWay DEF ChoiceOK, Using, Running, Busy, Allowed, CanAccessDatabase
<1>5. ReadOK(r)'
  BY <1>1, <1>2, <1>3, UnderWay DEF ReadOK, Using, Busy, GetCurrentDatabase
<1>6. KeptOK(r)'
  BY <1>1, <1>2, <1>3, UnderWay DEF KeptOK, Using, Busy, Allowed, CanAccessDatabase
<1> QED
  BY <1>2, <1>4, <1>5, <1>6, OneKeepsAuth

LEMMA CheckAccessKeepsAuth ==
  ASSUME RouteInv, authEnabled, NEW r \in Requests, CheckAccess(r)
  PROVE  AuthInv'
<1> DEFINE t == req[r].token
           accessible == GetAccessibleDatabases(t, req[r].seen)
<1>1. Busy(r) /\ req[r].pc = "access" /\ Using(r) /\ req[r].seen \in Catalogues
  BY UnderWay DEF CheckAccess, Busy, Using, Sound
<1>2. UNCHANGED <<authEnabled, principal, configs, known, currentDB, promised>>
  BY DEF CheckAccess
\* One that has not gone finds its binding in what it has read.
<1>3. ~req[r].gone => accessible = Allowed(t, req[r].seen)
  BY <1>1, UnderWay, KnownFindsBinding DEF ChoiceOK, RouteInv
<1>4. ~req[r].gone => accessible \subseteq req[r].may
  BY <1>1, <1>3, UnderWay DEF ChoiceOK
<1>5. ~req[r].stale => accessible = GetAccessibleDatabases(t, configs)
  BY <1>1, UnderWay DEF ReadOK
<1>6. promised[t] # None /\ promised[t] \in Allowed(t, configs)
        => /\ req[r].cur = promised[t] /\ req[r].cur \in accessible
  <2> SUFFICES ASSUME promised[t] # None, promised[t] \in Allowed(t, configs)
               PROVE  req[r].cur = promised[t] /\ req[r].cur \in accessible
    OBVIOUS
  <2>1. req[r].cur = promised[t] /\ req[r].seen = configs
    BY <1>1, UnderWay DEF KeptOK
  <2>2. t \in known
    BY <1>1, UnderWay DEF SessionOK
  <2>3. accessible = Allowed(t, configs)
    BY <2>1, <2>2, KnownFindsBinding DEF RouteInv
  <2> QED
    BY <2>1, <2>3
<1>7. CASE accessible = {}
  BY <1>2, <1>7, AnswerKeepsAuth DEF CheckAccess
<1>8. CASE accessible # {} /\ req[r].cur \in accessible
  <2>1. /\ \A q \in Requests \ {r} : req'[q] = req[q]
        /\ req'[r] = [req[r] EXCEPT !.pc = "client"]
    BY <1>1, <1>8, UnderWay DEF CheckAccess, Goto
  <2>2. /\ req'[r].pc = "client" /\ req'[r].cur = req[r].cur
        /\ req'[r].token = t /\ req'[r].kind = req[r].kind
        /\ req'[r].may = req[r].may /\ req'[r].stale = req[r].stale
        /\ req'[r].gone = req[r].gone /\ req'[r].promise = req[r].promise
    BY <1>1, <2>1, UnderWay DEF Request
  <2>3. ChoiceOK(r)'
    BY <1>1, <1>2, <1>4, <1>8, <2>2, UnderWay
    DEF ChoiceOK, Using, Running, Busy, Allowed, CanAccessDatabase
  <2>4. ReadOK(r)'
    BY <1>1, <1>2, <1>5, <1>8, <2>2, UnderWay
    DEF ReadOK, Using, Busy, GetCurrentDatabase, GetAccessibleDatabases,
        CanAccessDatabase, GetBoundDatabase
  <2>5. KeptOK(r)'
    BY <1>1, <1>2, <1>6, <2>2, UnderWay DEF KeptOK, Using, Busy, Allowed, CanAccessDatabase
  <2> QED
    BY <1>2, <2>1, <2>3, <2>4, <2>5, OneKeepsAuth
<1>9. CASE accessible # {} /\ req[r].cur \notin accessible
  <2>1. PICK d : d = First(accessible)
    OBVIOUS
  <2>2. d \in accessible
    BY <1>1, <1>9, <2>1, AccessibleAreDatabases, FirstIn
  <2>3. /\ \A q \in Requests \ {r} : req'[q] = req[q]
        /\ req'[r] = [req[r] EXCEPT !.cur = d, !.pc = "prefer"]
    BY <1>1, <1>9, <2>1, UnderWay DEF CheckAccess
  <2>4. /\ req'[r].pc = "prefer" /\ req'[r].cur = d
        /\ req'[r].token = t /\ req'[r].kind = req[r].kind
        /\ req'[r].may = req[r].may /\ req'[r].stale = req[r].stale
        /\ req'[r].gone = req[r].gone /\ req'[r].promise = req[r].promise
    BY <1>1, <2>3, UnderWay DEF Request
  <2>5. ChoiceOK(r)'
    BY <1>1, <1>2, <1>4, <2>2, <2>4, UnderWay
    DEF ChoiceOK, Using, Running, Busy, Allowed, CanAccessDatabase
  <2>6. ReadOK(r)'
    BY <1>1, <1>2, <1>5, <2>2, <2>4
    DEF ReadOK, Using, Busy, GetAccessibleDatabases, CanAccessDatabase, GetBoundDatabase
  <2>7. KeptOK(r)'
    BY <1>1, <1>2, <1>6, <1>9, <2>4, UnderWay DEF KeptOK, Using, Busy, Allowed, CanAccessDatabase
  <2> QED
    BY <1>2, <2>3, <2>5, <2>6, <2>7, OneKeepsAuth
<1> QED
  BY <1>7, <1>8, <1>9

\* A request that goes on to a later step with its choice unchanged.
LEMMA LaterKeepsAuth ==
  ASSUME RouteInv, authEnabled, NEW r \in Requests,
         req[r].pc \in {"client", "open", "registry"} \/ req[r].kind \in Selecting,
         NEW place \in {"open", "registry", "execute", "set"}, NEW c,
         Busy(r),
         place \in {"registry", "execute"} => c[2] = req[r].cur,
         req' = [req EXCEPT ![r] = [req[r] EXCEPT !.client = c, !.pc = place]],
         UNCHANGED <<authEnabled, principal, configs, known, currentDB, promised>>
  PROVE  AuthInv'
<1>1. \A q \in Requests \ {r} : req'[q] = req[q]
  OBVIOUS
<1>2. /\ req'[r].pc = place /\ req'[r].client = c /\ req'[r].cur = req[r].cur
      /\ req'[r].token = req[r].token /\ req'[r].kind = req[r].kind
      /\ req'[r].may = req[r].may /\ req'[r].stale = req[r].stale
      /\ req'[r].gone = req[r].gone /\ req'[r].promise = req[r].promise
  BY UnderWay DEF Request
<1>3. ChoiceOK(r)'
  BY <1>2, UnderWay
  DEF ChoiceOK, Using, Running, Busy, Allowed, CanAccessDatabase, Selecting
<1>4. ReadOK(r)'
  BY <1>2, UnderWay
  DEF ReadOK, Using, Busy, GetCurrentDatabase, GetAccessibleDatabases,
      CanAccessDatabase, GetBoundDatabase
<1>5. KeptOK(r)'
  BY <1>2, UnderWay DEF KeptOK, Using, Busy, Allowed, CanAccessDatabase
<1> QED
  BY <1>1, <1>3, <1>4, <1>5, OneKeepsAuth

LEMMA FindClientKeepsAuth ==
  ASSUME RouteInv, authEnabled, NEW r \in Requests, FindClient(r)
  PROVE  AuthInv'
<1>1. Busy(r) /\ req[r].pc = "client" /\ TypeOK
  BY DEF FindClient, Busy, RouteInv
<1>2. UNCHANGED <<authEnabled, principal, configs, known, currentDB, promised>>
  BY DEF FindClient
<1>3. ASSUME NEW c \in Clients, c[2] = req[r].cur,
             req' = [req EXCEPT ![r].client = c, ![r].pc = Onward(r)]
      PROVE  AuthInv'
  <2>1. PICK place : place = Onward(r)
    OBVIOUS
  <2>2. place \in {"registry", "execute", "set"}
    BY <2>1 DEF Onward
  <2>3. req' = [req EXCEPT ![r] = [req[r] EXCEPT !.client = c, !.pc = place]]
    BY <1>1, <1>3, <2>1, UnderWay
  <2> QED
    BY <1>1, <1>2, <1>3, <2>2, <2>3, LaterKeepsAuth
<1>4. CASE req' = Answer(r, "failed")
  BY <1>2, <1>4, AnswerKeepsAuth
<1>5. CASE req' = Goto(r, "open")
  <2>1. req' = [req EXCEPT ![r] = [req[r] EXCEPT !.client = req[r].client, !.pc = "open"]]
    BY <1>1, <1>5, UnderWay DEF Goto, Request
  <2> QED
    BY <1>1, <1>2, <2>1, LaterKeepsAuth
<1> QED
  BY <1>1, <1>3, <1>4, <1>5, FindClientMoves

LEMMA OpenClientKeepsAuth ==
  ASSUME RouteInv, authEnabled, NEW r \in Requests, OpenClient(r)
  PROVE  AuthInv'
<1>1. Busy(r) /\ req[r].pc = "open" /\ TypeOK /\ KeyOf(r) \in Keys /\ req[r].cur \in Databases
  BY UnderWay DEF OpenClient, Busy, RouteInv, Sound
<1>2. UNCHANGED <<authEnabled, principal, configs, known, currentDB, promised>>
  BY DEF OpenClient
<1>3. ASSUME NEW c \in Clients, c[2] = req[r].cur,
             req' = [req EXCEPT ![r].client = c, ![r].pc = Onward(r)]
      PROVE  AuthInv'
  <2>1. PICK place : place = Onward(r)
    OBVIOUS
  <2>2. place \in {"registry", "execute", "set"}
    BY <2>1 DEF Onward
  <2>3. req' = [req EXCEPT ![r] = [req[r] EXCEPT !.client = c, !.pc = place]]
    BY <1>1, <1>3, <2>1, UnderWay
  <2> QED
    BY <1>1, <1>2, <1>3, <2>2, <2>3, LaterKeepsAuth
<1>4. CASE req' = Answer(r, "failed")
  BY <1>2, <1>4, AnswerKeepsAuth
<1> QED
  BY <1>1, <1>3, <1>4, OpenClientMoves

LEMMA FindRegistryKeepsAuth ==
  ASSUME RouteInv, authEnabled, NEW r \in Requests, FindRegistry(r)
  PROVE  AuthInv'
<1>1. Busy(r) /\ req[r].pc = "registry" /\ Running(r)
  BY UnderWay DEF FindRegistry, Busy, Running, Sound, Request, Kinds, Selecting
<1>2. UNCHANGED <<authEnabled, principal, configs, known, currentDB, promised>>
  BY DEF FindRegistry
<1>3. CASE req' = Answer(r, "panic")
  BY <1>2, <1>3, AnswerKeepsAuth
<1>4. CASE req' = Goto(r, "execute")
  <2>1. req' = [req EXCEPT ![r] = [req[r] EXCEPT !.client = req[r].client, !.pc = "execute"]]
    BY <1>1, <1>4, UnderWay DEF Goto, Request
  <2>2. req[r].client[2] = req[r].cur
    BY <1>1, UnderWay DEF ChoiceOK
  <2> QED
    BY <1>1, <1>2, <2>1, <2>2, LaterKeepsAuth
<1> QED
  BY <1>3, <1>4 DEF FindRegistry

LEMMA CheckSelectionKeepsAuth ==
  ASSUME RouteInv, authEnabled, NEW r \in Requests, CheckSelection(r)
  PROVE  AuthInv'
<1>1. Busy(r) /\ req[r].pc = "check" /\ req[r].kind \in Selecting
  BY UnderWay DEF CheckSelection, Busy, Sound
<1>2. UNCHANGED <<authEnabled, principal, configs, known, currentDB, promised>>
  BY DEF CheckSelection
<1>3. CASE req' = Answer(r, "denied")
  BY <1>2, <1>3, AnswerKeepsAuth
<1>4. CASE req' = [req EXCEPT ![r].cur = req[r].name, ![r].pc = "client"]
  <2>1. /\ \A q \in Requests \ {r} : req'[q] = req[q]
        /\ req'[r] = [req[r] EXCEPT !.cur = req[r].name, !.pc = "client"]
    BY <1>1, <1>4, UnderWay
  <2>2. /\ req'[r].pc = "client"
        /\ req'[r].token = req[r].token /\ req'[r].kind = req[r].kind
        /\ req'[r].may = req[r].may /\ req'[r].stale = req[r].stale
        /\ req'[r].gone = req[r].gone /\ req'[r].promise = req[r].promise
    BY <1>1, <2>1, UnderWay DEF Request
  <2>3. ChoiceOK(r)' /\ ReadOK(r)' /\ KeptOK(r)'
    BY <1>1, <1>2, <2>2, UnderWay
    DEF ChoiceOK, ReadOK, KeptOK, Using, Running, Busy, Allowed, CanAccessDatabase
  <2> QED
    BY <1>2, <2>1, <2>3, OneKeepsAuth
<1>5. CASE req' = Goto(r, "set")
  <2>1. req' = [req EXCEPT ![r] = [req[r] EXCEPT !.client = req[r].client, !.pc = "set"]]
    BY <1>1, <1>5, UnderWay DEF Goto, Request
  <2> QED
    BY <1>1, <1>2, <2>1, LaterKeepsAuth
<1> QED
  BY <1>3, <1>4, <1>5 DEF CheckSelection

\* The database that a request falls back on becomes its session's: its other
\* requests are marked, and the session had been told nothing that it can have.
LEMMA PreferKeepsAuth ==
  ASSUME RouteInv, authEnabled, NEW r \in Requests, Prefer(r)
  PROVE  AuthInv'
<1> DEFINE t == req[r].token
<1>1. Busy(r) /\ req[r].pc = "prefer" /\ Using(r) /\ req[r].cur \in Databases
  BY UnderWay DEF Prefer, Busy, Using, Sound
<1>2. UNCHANGED <<authEnabled, principal, configs, known, promised>>
  BY DEF Prefer
<1>3. \A k \in Keys \ {t} : currentDB'[k] = currentDB[k]
  BY <1>1, UnderWay DEF Prefer, RouteInv, TypeOK
<1>4. ~(promised[t] # None /\ promised[t] \in Allowed(t, configs))
  BY <1>1, UnderWay DEF KeptOK
<1>5. ChoiceOK(r)' /\ ReadOK(r)' /\ KeptOK(r)'
  <2>1. req'[r] = [req[r] EXCEPT !.pc = "client"]
    BY DEF Prefer
  <2>2. /\ req'[r].pc = "client" /\ req'[r].cur = req[r].cur
        /\ req'[r].token = t /\ req'[r].kind = req[r].kind
        /\ req'[r].may = req[r].may /\ req'[r].stale = req[r].stale
        /\ req'[r].gone = req[r].gone /\ req'[r].promise = req[r].promise
    BY <1>1, <2>1, UnderWay DEF Request
  <2>3. ChoiceOK(r)'
    BY <1>1, <1>2, <2>2, UnderWay
    DEF ChoiceOK, Using, Running, Busy, Allowed, CanAccessDatabase
  <2>4. ~req[r].stale => currentDB'[t] = req[r].cur
    <3> SUFFICES ASSUME ~req[r].stale PROVE currentDB'[t] = req[r].cur
      OBVIOUS
    <3>1. req[r].cur \in DOMAIN configs.entry
      BY <1>1, UnderWay DEF ReadOK, GetAccessibleDatabases
    <3> QED
      BY <1>1, <3>1, UnderWay DEF Prefer, RouteInv, TypeOK
  <2>5. ReadOK(r)'
    BY <1>1, <1>2, <2>2, <2>4, UnderWay, NameAssumption
    DEF ReadOK, Using, Busy, GetCurrentDatabase, GetAccessibleDatabases,
        CanAccessDatabase, GetBoundDatabase
  <2>6. KeptOK(r)'
    BY <1>1, <1>2, <1>4, <2>2, UnderWay DEF KeptOK, Using, Busy, Allowed, CanAccessDatabase
  <2> QED
    BY <2>3, <2>5, <2>6
<1>6. ASSUME NEW q \in Requests, q # r, Busy(q)' PROVE ChoiceOK(q)' /\ ReadOK(q)' /\ KeptOK(q)'
  <2>1. req'[q] \in {req[q], [req[q] EXCEPT !.stale = TRUE]}
    BY <1>6 DEF Prefer
  <2>2. req[q] \in Request
    BY DEF RouteInv, RequestsOK
  <2>3. /\ req'[q].pc = req[q].pc /\ req'[q].cur = req[q].cur /\ req'[q].seen = req[q].seen
        /\ req'[q].token = req[q].token /\ req'[q].kind = req[q].kind
        /\ req'[q].client = req[q].client
        /\ req'[q].may = req[q].may /\ (req'[q].stale = req[q].stale \/ req'[q].stale)
        /\ req'[q].gone = req[q].gone /\ req'[q].promise = req[q].promise
    BY <2>1, <2>2 DEF Request
  <2>4. Busy(q)
    BY <1>6, <2>3 DEF Busy
  <2>5. ~req'[q].stale => req[q].token # t /\ ~req[q].stale
    BY <1>1, <1>6, <2>2, <2>3, <2>4, UnderWay DEF Prefer, Request
  <2>6. ChoiceOK(q)'
    BY <1>2, <2>3, <2>4, UnderWay
    DEF ChoiceOK, Using, Running, Busy, Allowed, CanAccessDatabase
  <2>7. ReadOK(q)'
    BY <1>2, <1>3, <2>3, <2>4, <2>5, UnderWay
    DEF ReadOK, Using, Busy, GetCurrentDatabase, GetAccessibleDatabases,
        CanAccessDatabase, GetBoundDatabase
  <2>8. KeptOK(q)'
    BY <1>2, <2>3, <2>4, UnderWay DEF KeptOK, Using, Busy, Allowed, CanAccessDatabase
  <2> QED
    BY <2>6, <2>7, <2>8
<1>7. ASSUME NEW s \in Tokens PROVE SessionOK(s)'
  <2>1. SessionOK(s) /\ s \in Keys
    BY DEF RouteInv, AuthInv, Keys
  <2>2. CASE s = t
    BY <1>2, <1>4, <2>1, <2>2 DEF SessionOK, Allowed, CanAccessDatabase
  <2>3. CASE s # t
    BY <1>2, <1>3, <2>1, <2>3 DEF SessionOK, Allowed, CanAccessDatabase
  <2> QED
    BY <2>2, <2>3
<1> QED
  BY <1>5, <1>6, <1>7 DEF AuthInv

\* A selection that is answered with success: the session's other requests
\* are marked and no longer held to what they had been told.
LEMMA SelectKeepsAuth ==
  ASSUME RouteInv, authEnabled, NEW r \in Requests, Select(r)
  PROVE  AuthInv'
<1> DEFINE t == req[r].token
<1>1. Busy(r) /\ req[r].pc = "set" /\ req[r].name \in Databases /\ Sets(r)
  BY UnderWay DEF Select, Busy, Sound, Sets
<1>2. UNCHANGED <<authEnabled, principal, configs, known>>
  BY DEF Select
<1>3. CASE req' = Answer(r, "failed") /\ UNCHANGED <<currentDB, promised>>
  BY <1>2, <1>3, AnswerKeepsAuth
<1>4. CASE /\ req' = Told(r, req)
           /\ currentDB' = [currentDB EXCEPT ![KeyOf(r)] = req[r].name]
           /\ promised' = [promised EXCEPT ![KeyOf(r)] =
                IF Alone(r) /\ ~req[r].stale THEN req[r].name ELSE None]
  <2>1. /\ currentDB'[t] = req[r].name
        /\ promised'[t] = IF Alone(r) /\ ~req[r].stale THEN req[r].name ELSE None
        /\ \A k \in Keys \ {t} : currentDB'[k] = currentDB[k] /\ promised'[k] = promised[k]
    BY <1>1, <1>4, UnderWay DEF RouteInv, TypeOK
  <2>2. ~Busy(r)'
    BY <1>4, IdleOK DEF Told, Busy
  <2>3. ASSUME NEW q \in Requests, q # r, Busy(q)'
        PROVE  ChoiceOK(q)' /\ ReadOK(q)' /\ KeptOK(q)'
    <3>1. req[q] \in Request
      BY DEF RouteInv, RequestsOK
    <3>2. req'[q] = IF Busy(q) /\ KeyOf(q) = KeyOf(r)
                    THEN [req[q] EXCEPT !.promise = None, !.stale = TRUE] ELSE req[q]
      BY <1>4, <2>3 DEF Told
    <3>3. /\ req'[q].pc = req[q].pc /\ req'[q].cur = req[q].cur /\ req'[q].seen = req[q].seen
          /\ req'[q].token = req[q].token /\ req'[q].kind = req[q].kind
          /\ req'[q].client = req[q].client
          /\ req'[q].may = req[q].may /\ (req'[q].stale = req[q].stale \/ req'[q].stale)
          /\ req'[q].gone = req[q].gone
      BY <3>1, <3>2 DEF Request
    <3>4. Busy(q)
      BY <2>3, <3>3 DEF Busy
    <3>5. ChoiceOK(q)'
      BY <1>2, <3>3, <3>4, UnderWay
      DEF ChoiceOK, Using, Running, Busy, Allowed, CanAccessDatabase
    <3>6. CASE req[q].token = t
      <4>1. req'[q].stale /\ req'[q].promise = None
        BY <1>1, <3>1, <3>2, <3>4, <3>6, UnderWay DEF Request
      <4>2. promised'[t] = None
        BY <1>1, <2>1, <2>3, <3>4, <3>6, UnderWay DEF Alone
      <4> QED
        BY <3>3, <3>5, <3>6, <4>1, <4>2 DEF ReadOK, KeptOK
    <3>7. CASE req[q].token # t
      <4>1. req'[q] = req[q] /\ req[q].token \in Keys
        BY <1>1, <3>2, <3>4, <3>7, UnderWay
      <4>2. ReadOK(q)'
        BY <1>2, <2>1, <3>4, <3>7, <4>1, UnderWay
        DEF ReadOK, Using, Busy, GetCurrentDatabase, GetAccessibleDatabases,
            CanAccessDatabase, GetBoundDatabase
      <4>3. KeptOK(q)'
        BY <1>2, <2>1, <3>4, <3>7, <4>1, UnderWay
        DEF KeptOK, Using, Busy, Allowed, CanAccessDatabase
      <4> QED
        BY <3>5, <4>2, <4>3
    <3> QED
      BY <3>6, <3>7
  <2>4. ASSUME NEW s \in Tokens PROVE SessionOK(s)'
    <3>1. SessionOK(s) /\ s \in Keys
      BY DEF RouteInv, AuthInv, Keys
    <3>2. CASE s = t
      <4>1. ~req[r].stale => t \in known
        BY <1>1, UnderWay DEF ChoiceOK
      <4> QED
        BY <1>2, <2>1, <3>2, <4>1 DEF SessionOK
    <3>3. CASE s # t
      BY <1>2, <2>1, <3>1, <3>3 DEF SessionOK, Allowed, CanAccessDatabase
    <3> QED
      BY <3>2, <3>3
  <2> QED
    BY <2>2, <2>3, <2>4 DEF AuthInv
<1> QED
  BY <1>1, <1>3, <1>4 DEF Select

\* A change that requests in progress may or may not see: they are marked, and
\* may reach from then on what they could before it or can after it.
LEMMA DisturbedKeepsAuth ==
  ASSUME RouteInv, authEnabled, NEW gone,
         UNCHANGED <<authEnabled, principal>>, known' = known \ gone,
         req' = Disturbed(configs', gone),
         NEW r \in Requests, Busy(r)',
         \/ promised'[req[r].token] = None
         \/ promised'[req[r].token] = promised[req[r].token] /\ UNCHANGED configs
  PROVE  ChoiceOK(r)' /\ ReadOK(r)' /\ KeptOK(r)'
<1>1. req[r] \in Request
  BY DEF RouteInv, RequestsOK
<1>2. Busy(r)
  BY DEF Disturbed, Busy
<1>3. req'[r] = [req[r] EXCEPT !.stale = TRUE, !.promise = None,
                   !.gone = @ \/ req[r].token \in gone,
                   !.may = @ \cup Allowed(req[r].token, configs')]
  BY <1>2 DEF Disturbed
<1>4. /\ req'[r].pc = req[r].pc /\ req'[r].cur = req[r].cur /\ req'[r].seen = req[r].seen
      /\ req'[r].token = req[r].token /\ req'[r].kind = req[r].kind
      /\ req'[r].client = req[r].client /\ req'[r].stale /\ req'[r].promise = None
      /\ req'[r].may = req[r].may \cup Allowed(req[r].token, configs')
      /\ req'[r].gone <=> (req[r].gone \/ req[r].token \in gone)
  BY <1>1, <1>3 DEF Request
<1>5. ChoiceOK(r)'
  BY <1>2, <1>4, UnderWay DEF ChoiceOK, Using, Running, Busy, Allowed, CanAccessDatabase
<1>6. ReadOK(r)'
  BY <1>4 DEF ReadOK
<1>7. KeptOK(r)'
  BY <1>2, <1>4, UnderWay DEF KeptOK, Using, Busy, Allowed, CanAccessDatabase
<1> QED
  BY <1>5, <1>6, <1>7

LEMMA ReloadKeepsAuth ==
  ASSUME RouteInv, authEnabled, Reload
  PROVE  AuthInv'
<1>1. /\ req' = Disturbed(configs', {}) /\ promised' = [k \in Keys |-> None]
      /\ UNCHANGED <<authEnabled, principal, known>>
  BY DEF Reload
<1>2. ASSUME NEW r \in Requests, Busy(r)' PROVE ChoiceOK(r)' /\ ReadOK(r)' /\ KeptOK(r)'
  <2>1. Busy(r) /\ known' = known \ {}
    BY <1>1, <1>2 DEF Disturbed, Busy
  <2>2. promised'[req[r].token] = None
    BY <1>1, <2>1, UnderWay
  <2> QED
    BY <1>1, <1>2, <2>1, <2>2, DisturbedKeepsAuth
<1>3. \A t \in Tokens : SessionOK(t)'
  BY <1>1 DEF SessionOK, Keys
<1> QED
  BY <1>2, <1>3 DEF AuthInv

LEMMA WithdrawKeepsAuth ==
  ASSUME RouteInv, authEnabled, NEW t \in Tokens, Withdraw(t)
  PROVE  AuthInv'
<1>1. /\ req' = Disturbed(configs', {t}) /\ known' = known \ {t}
      /\ promised' = [promised EXCEPT ![t] = None]
      /\ UNCHANGED <<authEnabled, principal, configs, currentDB>>
  BY DEF Withdraw
<1>2. ASSUME NEW s \in Tokens
      PROVE  promised'[s] = IF s = t THEN None ELSE promised[s]
  BY <1>1 DEF RouteInv, TypeOK, Keys
<1>3. ASSUME NEW r \in Requests, Busy(r)' PROVE ChoiceOK(r)' /\ ReadOK(r)' /\ KeptOK(r)'
  <2>1. Busy(r)
    BY <1>1, <1>3 DEF Disturbed, Busy
  <2>2. promised'[req[r].token] \in {None, promised[req[r].token]}
    BY <1>2, <2>1, UnderWay
  <2> QED
    BY <1>1, <1>3, <2>2, DisturbedKeepsAuth
<1>4. ASSUME NEW s \in Tokens PROVE SessionOK(s)'
  BY <1>1, <1>2 DEF RouteInv, AuthInv, SessionOK, Allowed, CanAccessDatabase
<1> QED
  BY <1>3, <1>4 DEF AuthInv

\* What is released belongs to a credential that has gone.
LEMMA ReleaseKeepsAuth ==
  ASSUME RouteInv, authEnabled, NEW t \in Tokens, Release(t)
  PROVE  AuthInv'
<1>1. /\ t \notin known /\ UNCHANGED <<authEnabled, principal, configs, known, req, promised>>
      /\ \A k \in Keys \ {t} : currentDB'[k] = currentDB[k]
  BY DEF Release, RouteInv, TypeOK
<1>2. ASSUME NEW r \in Requests, Busy(r)' PROVE ChoiceOK(r)' /\ ReadOK(r)' /\ KeptOK(r)'
  <2>1. Busy(r) /\ req[r].token \in Keys
    BY <1>1, <1>2, UnderWay DEF Busy
  <2>2. ChoiceOK(r)'
    BY <1>1, <2>1, UnderWay DEF ChoiceOK, Using, Running, Busy, Allowed, CanAccessDatabase
  <2>3. req[r].token = t => req[r].stale
    BY <1>1, <2>1, UnderWay DEF ChoiceOK
  <2>4. ReadOK(r)'
    BY <1>1, <2>1, <2>3, UnderWay
    DEF ReadOK, Using, Busy, GetCurrentDatabase, GetAccessibleDatabases,
        CanAccessDatabase, GetBoundDatabase
  <2>5. KeptOK(r)'
    BY <1>1, <2>1, UnderWay DEF KeptOK, Using, Busy, Allowed, CanAccessDatabase
  <2> QED
    BY <2>2, <2>4, <2>5
<1>3. ASSUME NEW s \in Tokens PROVE SessionOK(s)'
  BY <1>1 DEF RouteInv, AuthInv, SessionOK, Keys, Allowed, CanAccessDatabase
<1> QED
  BY <1>2, <1>3 DEF AuthInv

LEMMA InitRoute == Init => RouteInv
<1> SUFFICES ASSUME Init PROVE RouteInv
  OBVIOUS
<1>1. \A r \in Requests : ~Busy(r)
  BY DEF Init, Idle, Busy
<1>2. \A t \in Tokens : SessionOK(t)
  BY DEF Init, SessionOK, Keys
<1> QED
  BY <1>1, <1>2, InitTypes DEF RouteInv, AuthInv

LEMMA StepRoute == ASSUME RouteInv, [Next]_vars PROVE RouteInv'
<1>1. TypeOK' /\ RequestsOK'
  BY StepTypes DEF RouteInv
<1>2. authEnabled' = authEnabled
  BY DEF Next, vars, Arrive, Proceed, Withdraw, Release, Reload, ReadCurrent, ReadConfigs,
         CheckAccess, Prefer, FindClient, OpenClient, FindRegistry, Execute,
         CheckSelection, Select
<1>3. ASSUME authEnabled PROVE AuthInv'
  <2>1. CASE UNCHANGED vars
    <3>1. AuthInv
      BY <1>3 DEF RouteInv
    <3> QED
      BY <2>1, <3>1
      DEF vars, AuthInv, ChoiceOK, ReadOK, KeptOK, SessionOK, Using, Running, Busy,
          GetCurrentDatabase, GetAccessibleDatabases, GetBoundDatabase, Allowed,
          CanAccessDatabase
  <2>2. ASSUME NEW r \in Requests, Execute(r) PROVE AuthInv'
    BY <1>3, <2>2, AnswerKeepsAuth DEF Execute
  <2>3. ASSUME NEW r \in Requests, Proceed(r) PROVE AuthInv'
    BY <1>3, <2>2, <2>3, ReadCurrentKeepsAuth, ReadConfigsKeepsAuth, CheckAccessKeepsAuth,
       PreferKeepsAuth, FindClientKeepsAuth, OpenClientKeepsAuth, FindRegistryKeepsAuth,
       CheckSelectionKeepsAuth, SelectKeepsAuth DEF Proceed
  <2> QED
    BY <1>3, <2>1, <2>3, ArriveKeepsAuth, WithdrawKeepsAuth, ReleaseKeepsAuth,
       ReloadKeepsAuth DEF Next
<1> QED
  BY <1>1, <1>2, <1>3 DEF RouteInv

\* What each request has read, chosen and been told stays consistent with the
\* sessions, the configuration and the credentials, whatever changes meanwhile.
THEOREM RouteInvCorrect == Spec => []RouteInv
BY InitRoute, StepRoute, PTL DEF Spec

\* With authentication on, a tool runs on a database that its caller had access
\* to at some time since the request began, for any number of sessions,
\* requests, databases and reloads.
THEOREM RunsWhereAllowedCorrect == Spec => []RunsWhereAllowed
<1>1. RouteInv => RunsWhereAllowed
  <2> SUFFICES ASSUME RouteInv, authEnabled, NEW r \in Requests, Running(r), ~req[r].gone
               PROVE  req[r].client[2] \in req[r].may
    BY DEF RunsWhereAllowed
  <2>1. Busy(r) /\ Using(r)
    BY DEF Running, Busy, Using, Selecting
  <2> QED
    BY <2>1, UnderWay DEF ChoiceOK, Running
<1> QED
  BY <1>1, RouteInvCorrect, PTL

\* The database a session was told it has is the one its tools run on, and the
\* one each of the listings shows it.
THEOREM SelectionHoldsCorrect == Spec => []SelectionHolds
<1>1. RouteInv => SelectionHolds
  <2> SUFFICES ASSUME RouteInv PROVE SelectionKept /\ ListedIsUsed
    BY DEF SelectionHolds, RouteInv
  <2>1. SelectionKept
    <3> SUFFICES ASSUME authEnabled, NEW r \in Requests, Running(r),
                        req[r].promise \in Allowed(req[r].token, configs)
                 PROVE  req[r].client[2] = req[r].promise
      BY DEF SelectionKept
    <3>1. Busy(r) /\ Using(r)
      BY DEF Running, Busy, Using, Selecting
    <3>2. req[r].promise # None
      BY AccessibleAreDatabases, NameAssumption DEF RouteInv, TypeOK
    <3> QED
      BY <3>1, <3>2, UnderWay DEF ChoiceOK, KeptOK, Running
  <2>2. ListedIsUsed
    <3> SUFFICES ASSUME authEnabled, NEW r \in Requests, Running(r), ~req[r].stale
                 PROVE  {ListedCurrent(req[r].token), EffectiveCurrentDB(req[r].token),
                         ApiCurrent(req[r].token)} \subseteq {req[r].client[2], None}
      BY DEF ListedIsUsed
    <3> DEFINE t == req[r].token
    <3>1. Busy(r) /\ Using(r)
      BY DEF Running, Busy, Using, Selecting
    <3>2. /\ req[r].client[2] = req[r].cur
          /\ req[r].cur = GetCurrentDatabase(t)
          /\ req[r].cur \in GetAccessibleDatabases(t, configs)
      BY <3>1, UnderWay DEF ChoiceOK, ReadOK, Running
    <3> QED
      BY <3>2 DEF ListedCurrent, EffectiveCurrentDB, ApiCurrent, Key
  <2> QED
    BY <2>1, <2>2
<1> QED
  BY <1>1, RouteInvCorrect, PTL

(***************************************************************************)
(* The configuration: the sources of one setting                           *)
(***************************************************************************)

\* The settings of each kind, and the defaults their merge relies on.
TextSettings == {"http_address", "trace_file", "rate_limit", "key", "key_file", "cert_file",
                 "private_key", "issuer", "lifetime"}
ChoiceSettings == {"query_database", "api_tokens", "password_login", "oauth"}
LEMMA SettingKinds ==
  ASSUME NEW x \in DOMAIN Conf!Kind
  PROVE  \/ x \in TextSettings /\ Conf!Kind[x] = "text"
         \/ x \in {"http_enabled", "tls_enabled"} /\ Conf!Kind[x] = "switch" /\ Conf!Default[x] = "false"
         \/ x \in ChoiceSettings /\ Conf!Kind[x] = "choice" /\ Conf!Default[x] = "nil"
         \/ Conf!Kind[x] = "forgotten"
         \/ x = "auth_enabled" /\ Conf!Kind[x] = "auth" /\ Conf!Default[x] = "true"
         \/ x = "token_file" /\ Conf!Kind[x] = "tokens" /\ Conf!Default[x] = ""
         \/ x = "kb_enabled" /\ Conf!Kind[x] = "kb switch" /\ Conf!Default[x] = "false"
         \/ x \in {"kb_path", "kb_provider"} /\ Conf!Kind[x] = "kb text"
<1>1. DOMAIN Conf!Kind = TextSettings \cup ChoiceSettings \cup {"http_enabled", "tls_enabled", "count_rows",
        "auth_enabled", "token_file", "kb_enabled", "kb_path", "kb_provider"}
  BY DEF Conf!Kind, TextSettings, ChoiceSettings
<1>2. /\ Conf!Kind["http_address"] = "text" /\ Conf!Kind["trace_file"] = "text"
      /\ Conf!Kind["rate_limit"] = "text"
      /\ Conf!Kind["key"] = "text" /\ Conf!Kind["key_file"] = "text"
      /\ Conf!Kind["cert_file"] = "text" /\ Conf!Kind["private_key"] = "text"
      /\ Conf!Kind["issuer"] = "text" /\ Conf!Kind["lifetime"] = "text"
      /\ Conf!Kind["http_enabled"] = "switch" /\ Conf!Default["http_enabled"] = "false"
      /\ Conf!Kind["tls_enabled"] = "switch" /\ Conf!Default["tls_enabled"] = "false"
      /\ \A y \in ChoiceSettings : Conf!Kind[y] = "choice" /\ Conf!Default[y] = "nil"
      /\ Conf!Kind["count_rows"] = "forgotten"
      /\ Conf!Kind["auth_enabled"] = "auth" /\ Conf!Default["auth_enabled"] = "true"
      /\ Conf!Kind["token_file"] = "tokens" /\ Conf!Default["token_file"] = ""
      /\ Conf!Kind["kb_enabled"] = "kb switch" /\ Conf!Default["kb_enabled"] = "false"
      /\ Conf!Kind["kb_path"] = "kb text" /\ Conf!Kind["kb_provider"] = "kb text"
  BY DEF Conf!Kind, Conf!Default, ChoiceSettings
<1>3. CASE x \in TextSettings
  BY <1>2, <1>3 DEF TextSettings
<1>4. CASE x \in {"http_enabled", "tls_enabled", "kb_path", "kb_provider"}
  BY <1>2, <1>4
<1>5. CASE x \in {"count_rows", "auth_enabled", "token_file", "kb_enabled"}
  BY <1>2, <1>5
<1>6. CASE x \in ChoiceSettings
  BY <1>2, <1>6
<1> QED
  BY <1>1, <1>3, <1>4, <1>5, <1>6

\* What a file, variables and flags may give.
ConfigurationInputs ==
  /\ topic \in Topics
  /\ file.settings \in Conf!Given(topic, topic) /\ file.broken \in BOOLEAN
  /\ env.settings \in Conf!Given(topic, Conf!WithEnv)
  /\ flags.settings \in Conf!Given(topic, Conf!WithFlag)

\* What the merge of the file makes of a setting: its value there, or the
\* default, unless the code departs from its order.
FiledValue(x) == IF file.broken \/ file.settings[x] = "absent" THEN Conf!Default[x] ELSE file.settings[x]
LEMMA FileOverDefault ==
  ASSUME ConfigurationInputs, NEW x \in topic, ~Conf!Departs(x)
  PROVE  Conf!FromFile(topic, file).settings[x] = FiledValue(x)
<1> DEFINE f == file.settings
           P == Conf!Parsed(f)
           D == Conf!Defaults(topic).settings
<1>1. CASE file.broken
  BY <1>1 DEF Conf!FromFile, FiledValue, Conf!Defaults
<1>2. CASE ~file.broken
  <2>1. topic \subseteq DOMAIN Conf!Kind /\ DOMAIN f = topic
    BY SettingsAssumption DEF ConfigurationInputs, Conf!Given
  <2>2. \A y \in topic : f[y] \in {"absent"} \cup Conf!Values(y)
    BY DEF ConfigurationInputs, Conf!Given
  <2>3. \A y \in topic : P[y] = IF f[y] = "absent" THEN Conf!Zero(y) ELSE f[y]
    BY <2>1 DEF Conf!Parsed
  <2>4. DOMAIN D = topic /\ D[x] = Conf!Default[x]
    BY DEF Conf!Defaults
  <2>5. Conf!FromFile(topic, file).settings[x] = IF Conf!Copies(P, x) THEN P[x] ELSE Conf!Default[x]
    BY <1>2, <2>4 DEF Conf!FromFile, Conf!MergeConfig
  <2>6. FiledValue(x) = IF f[x] = "absent" THEN Conf!Default[x] ELSE f[x]
    BY <1>2 DEF FiledValue
  <2> HIDE DEF f, P, D
  <2> SUFFICES (IF Conf!Copies(P, x) THEN P[x] ELSE Conf!Default[x])
                 = IF f[x] = "absent" THEN Conf!Default[x] ELSE f[x]
    BY <2>5, <2>6
  <2>7. CASE x \in TextSettings /\ Conf!Kind[x] = "text"
    BY <2>2, <2>3, <2>7 DEF Conf!Copies, Conf!Values, Conf!IsBool, Conf!Zero
  <2>8. CASE Conf!Kind[x] = "switch" /\ Conf!Default[x] = "false"
    BY <2>2, <2>3, <2>8 DEF Conf!Copies, Conf!Values, Conf!IsBool, Conf!Zero
  <2>9. CASE Conf!Kind[x] = "choice" /\ Conf!Default[x] = "nil"
    BY <2>2, <2>3, <2>9 DEF Conf!Copies, Conf!Values, Conf!IsBool, Conf!Zero
  <2>10. CASE x = "auth_enabled" /\ Conf!Kind[x] = "auth" /\ Conf!Default[x] = "true"
    <3>1. f[x] \in {"true", "false"}
      BY <2>2, <2>10 DEF Conf!Values, Conf!IsBool, Conf!Departs, f
    <3>2. P[x] = f[x]
      BY <2>3, <3>1
    <3> QED
      BY <2>10, <3>1, <3>2 DEF Conf!Copies
  <2>11. CASE x = "token_file" /\ Conf!Kind[x] = "tokens" /\ Conf!Default[x] = ""
    BY <2>2, <2>3, <2>11 DEF Conf!Copies, Conf!Values, Conf!IsBool, Conf!Zero
  <2>12. CASE Conf!Kind[x] \in {"kb switch", "kb text"} /\ (x = "kb_enabled" => Conf!Default[x] = "false")
              /\ x \in {"kb_enabled", "kb_path", "kb_provider"} /\ (Conf!Kind[x] = "kb switch" => x = "kb_enabled")
    <3>1. {"kb_enabled", "kb_path"} \subseteq topic
      BY <2>12, SettingsAssumption DEF ConfigurationInputs
    <3>2. f["kb_path"] # "absent" \/ f["kb_enabled"] = "true"
      BY <2>12 DEF Conf!Departs, f
    <3>3. Conf!Kind["kb_path"] = "kb text" /\ Conf!Kind["kb_enabled"] = "kb switch"
      BY DEF Conf!Kind
    <3>4. P["kb_path"] # "" \/ P["kb_enabled"] = "true"
      BY <2>2, <2>3, <3>1, <3>2, <3>3 DEF Conf!Values, Conf!IsBool
    <3> QED
      BY <2>2, <2>3, <2>12, <3>4 DEF Conf!Copies, Conf!Values, Conf!IsBool, Conf!Zero
  <2>13. Conf!Kind[x] # "forgotten"
    BY DEF Conf!Departs
  <2> QED
    BY <2>1, <2>7, <2>8, <2>9, <2>10, <2>11, <2>12, <2>13, SettingKinds
<1> QED
  BY <1>1, <1>2 DEF ConfigurationInputs

\* A key in the file departs from the order; without one there is none yet.
LEMMA KeyFiled ==
  ASSUME ConfigurationInputs, "key" \in topic, ~Conf!Departs("key")
  PROVE  Conf!FromFile(topic, file).settings["key"] = "" /\ file.settings["key"] = "absent"
<1>1. file.settings["key"] = "absent"
  BY DEF Conf!Departs
<1>2. Conf!FromFile(topic, file).settings["key"] = Conf!Default["key"]
  BY <1>1, FileOverDefault DEF FiledValue
<1> QED
  BY <1>1, <1>2 DEF Conf!Default

\* The file named for the key, if any.
LEMMA KeyFileFiled ==
  ASSUME ConfigurationInputs, "key_file" \in topic
  PROVE  Conf!FromFile(topic, file).settings["key_file"] # ""
           <=> ~file.broken /\ file.settings["key_file"] # "absent"
<1>1. Conf!Kind["key_file"] = "text" /\ Conf!Default["key_file"] = ""
  BY DEF Conf!Kind, Conf!Default
<1>2. Conf!FromFile(topic, file).settings["key_file"] = FiledValue("key_file")
  BY <1>1, FileOverDefault DEF Conf!Departs
<1>3. file.settings["key_file"] \in {"absent", "a"}
  BY <1>1 DEF ConfigurationInputs, Conf!Given, Conf!Values, Conf!IsBool
<1> QED
  BY <1>1, <1>2, <1>3 DEF FiledValue

\* The file adds no setting and takes none away; nor do variables and flags.
LEMMA FiledSettings ==
  ASSUME ConfigurationInputs
  PROVE  DOMAIN Conf!FromFile(topic, file).settings = topic
BY DEF Conf!FromFile, Conf!Defaults, Conf!MergeConfig

\* The sources in their order, whatever the flags.
LEMMA SourcesInOrder ==
  ASSUME ConfigurationInputs, NEW g, g.settings \in Conf!Given(topic, Conf!WithFlag),
         NEW x \in topic, ~Conf!Departs(x)
  PROVE  Conf!Unchecked(topic, file, env, g).settings[x] = Conf!Ranked(x, g)
<1> DEFINE c == Conf!FromFile(topic, file).settings
           s == Conf!Override(c, env.settings)
           k == Conf!ReadKeyFile(s)
<1>1. DOMAIN c = topic
  BY FiledSettings
<1>2. DOMAIN s = topic /\ \A y \in topic : s[y] = IF env.settings[y] = "absent" THEN c[y] ELSE env.settings[y]
  BY <1>1 DEF Conf!Override
<1>3. DOMAIN k = topic /\ \A y \in topic \ {"key"} : k[y] = s[y]
  BY <1>2 DEF Conf!ReadKeyFile
<1>4. Conf!Unchecked(topic, file, env, g).settings[x] = IF g.settings[x] = "absent" THEN k[x] ELSE g.settings[x]
  BY <1>3 DEF Conf!Unchecked, Conf!Override
<1>5. CASE x # "key"
  <2>1. c[x] = FiledValue(x)
    BY FileOverDefault
  <2> HIDE DEF c, s, k
  <2> QED
    BY <1>2, <1>3, <1>4, <1>5, <2>1 DEF Conf!Ranked, FiledValue
<1>6. CASE x = "key"
  <2>1. c["key"] = "" /\ file.settings["key"] = "absent"
    BY <1>6, KeyFiled
  <2>2. g.settings["key"] = "absent"
    BY <1>6 DEF Conf!Given, Conf!WithFlag
  <2>3. env.settings["key"] \in {"absent", "a"}
    <3>1. Conf!Kind["key"] = "text"
      BY DEF Conf!Kind
    <3> QED
      BY <1>6, <3>1 DEF ConfigurationInputs, Conf!Given, Conf!Values, Conf!IsBool
  <2>4. Conf!Default["key"] = ""
    BY DEF Conf!Default
  <2>5. "key_file" \in topic =>
          (s["key_file"] # "" <=> ~file.broken /\ file.settings["key_file"] # "absent")
    <3>1. "key_file" \in topic => env.settings["key_file"] = "absent"
      BY DEF ConfigurationInputs, Conf!Given, Conf!WithEnv
    <3> QED
      BY <1>2, <3>1, KeyFileFiled
  <2>6. k["key"] = IF "key_file" \in topic /\ s["key"] = "" /\ s["key_file"] # "" /\ KeyFileHolds # ""
                     THEN KeyFileHolds ELSE s["key"]
    BY <1>2, <1>6 DEF Conf!ReadKeyFile
  <2> HIDE DEF c, s, k
  <2> QED
    BY <1>2, <1>4, <1>6, <2>1, <2>2, <2>3, <2>4, <2>5, <2>6 DEF Conf!Ranked
<1> QED
  BY <1>5, <1>6

\* All of what is loaded has the settings of the topic.
LEMMA LoadedSettings ==
  ASSUME ConfigurationInputs, NEW g
  PROVE  DOMAIN Conf!Unchecked(topic, file, env, g).settings = topic
BY FiledSettings DEF Conf!Unchecked, Conf!Override, Conf!ReadKeyFile

\* What a load that succeeds returns is what the sources make, and valid.
LEMMA LoadedIsValid ==
  ASSUME NEW t, NEW f, NEW e, NEW g, Conf!LoadConfig(t, f, e, g).ok
  PROVE  LET c == Conf!LoadConfig(t, f, e, g).config
         IN  c = Conf!Unchecked(t, f, e, g) /\ Conf!Valid(c)
BY DEF Conf!LoadConfig

\* What a reload hands on of the flags are flags.
LEMMA ReloadFlagsGiven ==
  ASSUME ConfigurationInputs
  PROVE  Conf!ReloadFlags(flags).settings \in Conf!Given(topic, Conf!WithFlag)
BY DEF ConfigurationInputs, Conf!Given, Conf!ReloadFlags

\* The databases come from the file, the variables and the -db flags alone.
LEMMA ReloadKeepsDatabases ==
  Conf!Unchecked(topic, file, env, Conf!ReloadFlags(flags)).databases
    = Conf!Unchecked(topic, file, env, flags).databases
BY DEF Conf!Unchecked, Conf!ReloadFlags

(***************************************************************************)
(* The configuration: its invariant                                        *)
(***************************************************************************)

\* Nothing was edited or reloaded before the start.
NothingBeforeStart == phase = "starting" => edits = 0 /\ outcome = "none"
ConfigurationInv == ConfigurationInputs /\ NothingBeforeStart /\ ConfigurationSound

\* It holds before the start.
LEMMA ConfigurationInit == Conf!Init => ConfigurationInv
<1> SUFFICES ASSUME Conf!Init PROVE ConfigurationInv
  OBVIOUS
<1>1. ConfigurationInputs
  <2>1. file.settings \in Conf!Given(topic, topic) /\ file.broken \in BOOLEAN /\ topic \in Topics
    BY DEF Conf!Init
  <2>2. /\ env.settings \in Conf!Given(topic, Conf!WithEnv \cap Varied(topic))
        /\ flags.settings \in Conf!Given(topic, Conf!WithFlag \cap Varied(topic))
    BY DEF Conf!Init
  <2>3. \A t, S, T : Conf!Given(t, S \cap T) \subseteq Conf!Given(t, S)
    BY DEF Conf!Given
  <2> QED
    BY <2>1, <2>2, <2>3 DEF ConfigurationInputs
<1>2. Conf!TypeOK
  BY SettingsAssumption DEF Conf!Init, Conf!TypeOK, Conf!Defaults
<1> QED
  BY <1>1, <1>2 DEF Conf!Init, ConfigurationInv, NothingBeforeStart, ConfigurationSound,
    Conf!SourcesRanked, Conf!RunningIsValid, Conf!ReloadKeepsDatabaseFlags

\* A start, an edit of the file and a reload keep it.
LEMMA ConfigurationStep == ConfigurationInv /\ [Conf!Next]_(Conf!vars) => ConfigurationInv'
<1> SUFFICES ASSUME ConfigurationInv, [Conf!Next]_(Conf!vars) PROVE ConfigurationInv'
  OBVIOUS
<1> USE DEF ConfigurationInv, ConfigurationSound
<1>1. CASE Conf!Start
  <2>1. ConfigurationInputs' /\ NothingBeforeStart'
    BY <1>1 DEF Conf!Start, ConfigurationInputs, NothingBeforeStart
  <2>2. edits = 0 /\ outcome = "none" /\ edits' = 0 /\ outcome' = "none"
    BY <1>1 DEF Conf!Start, NothingBeforeStart
  <2>3. phase' = "up" =>
          /\ config' = Conf!Unchecked(topic, file, env, flags)
          /\ Conf!Valid(config')
    <3> SUFFICES ASSUME phase' = "up"
                 PROVE  config' = Conf!Unchecked(topic, file, env, flags) /\ Conf!Valid(config')
      OBVIOUS
    <3>1. /\ Conf!LoadConfig(topic, file, env, flags).ok
          /\ config' = Conf!LoadConfig(topic, file, env, flags).config
      BY <1>1 DEF Conf!Start
    <3> QED
      BY <3>1, LoadedIsValid
  <2>4. phase' # "up" => config' = config
    BY <1>1 DEF Conf!Start
  <2>5. Conf!TypeOK'
    BY <1>1, <2>3, <2>4, LoadedSettings DEF Conf!Start, Conf!TypeOK
  <2>6. Conf!SourcesRanked'
    <3> SUFFICES ASSUME phase' = "up", NEW x \in topic, ~Conf!Departs(x)'
                 PROVE  config'.settings[x] = Conf!Ranked(x, flags)'
      BY <1>1, <2>2 DEF Conf!Start, Conf!SourcesRanked
    <3>1. ~Conf!Departs(x)
      BY <1>1 DEF Conf!Start, Conf!Departs
    <3>2. flags.settings \in Conf!Given(topic, Conf!WithFlag)
      BY DEF ConfigurationInputs
    <3>3. config'.settings[x] = Conf!Ranked(x, flags)
      BY <2>3, <3>1, <3>2, SourcesInOrder
    <3>4. Conf!Ranked(x, flags)' = Conf!Ranked(x, flags)
      BY <1>1 DEF Conf!Start, Conf!Ranked
    <3> QED
      BY <3>3, <3>4
  <2>7. Conf!RunningIsValid'
    BY <2>3 DEF Conf!RunningIsValid
  <2>8. Conf!ReloadKeepsDatabaseFlags'
    BY <2>2 DEF Conf!ReloadKeepsDatabaseFlags
  <2> QED
    BY <2>1, <2>5, <2>6, <2>7, <2>8
<1>2. CASE Conf!Edit
  <2>1. ConfigurationInputs' /\ NothingBeforeStart'
    BY <1>2 DEF Conf!Edit, ConfigurationInputs, NothingBeforeStart
  <2>2. Conf!TypeOK'
    BY <1>2, SettingsAssumption DEF Conf!Edit, Conf!TypeOK
  <2>3. Conf!SourcesRanked'
    BY <1>2 DEF Conf!Edit, Conf!TypeOK, Conf!SourcesRanked
  <2>4. Conf!RunningIsValid'
    BY <1>2 DEF Conf!Edit, Conf!RunningIsValid
  <2>5. Conf!ReloadKeepsDatabaseFlags'
    BY <1>2 DEF Conf!Edit, Conf!ReloadKeepsDatabaseFlags
  <2> QED
    BY <2>1, <2>2, <2>3, <2>4, <2>5
<1>3. CASE Conf!Reload
  <2> DEFINE g == Conf!ReloadFlags(flags)
             loaded == Conf!LoadConfig(topic, file, env, g)
  <2>1. ConfigurationInputs' /\ NothingBeforeStart'
    BY <1>3 DEF Conf!Reload, ConfigurationInputs, NothingBeforeStart
  <2>2. CASE ~loaded.ok
    <3>1. config' = config /\ outcome' = "failed"
      BY <1>3, <2>2 DEF Conf!Reload
    <3> QED
      BY <1>3, <2>1, <3>1
      DEF Conf!Reload, Conf!TypeOK, Conf!SourcesRanked, Conf!RunningIsValid, Conf!ReloadKeepsDatabaseFlags
  <2>3. CASE loaded.ok
    <3>1. config' = Conf!Unchecked(topic, file, env, g) /\ Conf!Valid(config') /\ outcome' = "reloaded"
      BY <1>3, <2>3, LoadedIsValid DEF Conf!Reload
    <3>2. Conf!TypeOK'
      BY <1>3, <3>1, LoadedSettings DEF Conf!Reload, Conf!TypeOK
    <3>3. Conf!SourcesRanked'
      <4> SUFFICES ASSUME NEW x \in topic, ~Conf!Departs(x)'
                   PROVE  config'.settings[x] = Conf!Ranked(x, Conf!ReloadFlags(flags))'
        BY <1>3, <3>1 DEF Conf!Reload, Conf!SourcesRanked
      <4>1. ~Conf!Departs(x)
        BY <1>3 DEF Conf!Reload, Conf!Departs
      <4>2. config'.settings[x] = Conf!Ranked(x, g)
        BY <3>1, <4>1, ReloadFlagsGiven, SourcesInOrder
      <4>3. Conf!Ranked(x, Conf!ReloadFlags(flags))' = Conf!Ranked(x, g)
        BY <1>3 DEF Conf!Reload, Conf!Ranked, Conf!ReloadFlags
      <4> QED
        BY <4>2, <4>3
    <3>4. Conf!RunningIsValid'
      BY <3>1 DEF Conf!RunningIsValid
    <3>5. Conf!ReloadKeepsDatabaseFlags'
      BY <1>3, <3>1, ReloadKeepsDatabases DEF Conf!Reload, Conf!ReloadKeepsDatabaseFlags, Conf!Unchecked
    <3> QED
      BY <2>1, <3>2, <3>3, <3>4, <3>5
  <2> QED
    BY <2>2, <2>3
<1>4. CASE UNCHANGED Conf!vars
  <2>1. ConfigurationInputs' /\ NothingBeforeStart' /\ Conf!TypeOK'
    BY <1>4 DEF Conf!vars, ConfigurationInputs, NothingBeforeStart, Conf!TypeOK
  <2>2. Conf!SourcesRanked'
    <3> DEFINE g == IF outcome = "reloaded" THEN Conf!ReloadFlags(flags) ELSE flags
    <3> SUFFICES ASSUME phase = "up", outcome # "failed", edits > 0 => outcome = "reloaded",
                        NEW x \in topic, ~Conf!Departs(x)'
                 PROVE  config.settings[x] = Conf!Ranked(x, g)'
      BY <1>4 DEF Conf!vars, Conf!SourcesRanked
    <3>1. ~Conf!Departs(x)
      BY <1>4 DEF Conf!vars, Conf!Departs
    <3>2. config.settings[x] = Conf!Ranked(x, g)
      BY <3>1 DEF Conf!SourcesRanked
    <3>3. g' = g
      BY <1>4 DEF Conf!vars, Conf!ReloadFlags
    <3>4. Conf!Ranked(x, g)' = Conf!Ranked(x, g)
      BY <1>4, <3>3 DEF Conf!vars, Conf!Ranked
    <3> QED
      BY <3>2, <3>4
  <2>3. Conf!RunningIsValid'
    BY <1>4 DEF Conf!vars, Conf!RunningIsValid
  <2>4. Conf!ReloadKeepsDatabaseFlags'
    BY <1>4 DEF Conf!vars, Conf!ReloadKeepsDatabaseFlags
  <2> QED
    BY <2>1, <2>2, <2>3, <2>4
<1> QED
  BY <1>1, <1>2, <1>3, <1>4 DEF Conf!Next

\* The configuration is built from what the sources give, and what is said of
\* it below holds throughout.
THEOREM ConfigurationInvCorrect == Conf!Spec => []ConfigurationInv
<1> QED
  BY ConfigurationInit, ConfigurationStep, PTL DEF Conf!Spec

\* After a start and after every reload, each setting whose merge keeps the
\* order has the value of its highest source; what runs has been validated,
\* overrides included; and the first database is what a fresh start on the
\* same file would make it (LoadConfig, mergeConfig and Reload).
THEOREM ConfigurationSoundCorrect == Conf!Spec => []ConfigurationSound
<1>1. ConfigurationInv => ConfigurationSound
  BY DEF ConfigurationInv
<1> QED
  BY <1>1, ConfigurationInvCorrect, PTL

(***************************************************************************)
(* Results in pages, for every statement, limit, offset and table          *)
(***************************************************************************)

\* The two limits as the code has them: 100 and 1000.
LimitsOrdered == maxRowLimit \in Nat /\ defaultRowLimit \in minRowLimit .. maxRowLimit

\* The statements that have rows, and those of them a limit can be put on.
Stated == [limit : Nat \cup {NoLimit}, offset : Nat, comment : BOOLEAN, select : BOOLEAN]
Selects == {q \in Stated : q.select}

\* The limit argument as a call gives it.
GivenLimits == [kind : {"absent", "text", "fraction", "whole"}, value : Int]

\* The rows from the n-th on, at most as many as said.
LEMMA SkipRows ==
  ASSUME NEW R, NEW rows \in Seq(R), NEW n \in Nat
  PROVE  /\ Skip(rows, n) \in Seq(R)
         /\ Len(Skip(rows, n)) = IF n <= Len(rows) THEN Len(rows) - n ELSE 0
         /\ \A i \in 1 .. Len(Skip(rows, n)) : Skip(rows, n)[i] = rows[n + i]
<1>1. Len(rows) \in Nat /\ \A i \in 1 .. Len(rows) : rows[i] \in R
  OBVIOUS
<1>2. \A i \in (n + 1) .. Len(rows) : rows[i] \in R
  BY <1>1
<1>3. n + 1 \in Int /\ Len(rows) \in Int
  BY <1>1
<1>4. /\ SubSeq(rows, n + 1, Len(rows)) \in Seq(R)
      /\ Len(SubSeq(rows, n + 1, Len(rows)))
           = IF n + 1 <= Len(rows) THEN Len(rows) - (n + 1) + 1 ELSE 0
      /\ \A i \in 1 .. (Len(rows) - (n + 1) + 1) :
           SubSeq(rows, n + 1, Len(rows))[i] = rows[n + 1 + i - 1]
  BY <1>2, <1>3, SubSeqProperties
<1> QED
  BY <1>1, <1>4 DEF Skip

\* The first rows, at most as many as said; all of them without a limit.
LEMMA TakeRows ==
  ASSUME NEW R, NEW rows \in Seq(R), NEW n \in Nat \cup {NoLimit}
  PROVE  /\ Take(rows, n) \in Seq(R)
         /\ Len(Take(rows, n))
              = IF n = NoLimit \/ n >= Len(rows) THEN Len(rows) ELSE n
         /\ \A i \in 1 .. Len(Take(rows, n)) : Take(rows, n)[i] = rows[i]
<1>1. Len(rows) \in Nat /\ \A i \in 1 .. Len(rows) : rows[i] \in R
  OBVIOUS
<1>2. CASE n = NoLimit \/ n >= Len(rows)
  BY <1>1, <1>2 DEF Take
<1>3. CASE ~(n = NoLimit \/ n >= Len(rows))
  <2>1. n \in Nat /\ n < Len(rows)
    BY <1>1, <1>3
  <2>2. /\ SubSeq(rows, 1, n) \in Seq(R)
        /\ Len(SubSeq(rows, 1, n)) = IF 1 <= n THEN n - 1 + 1 ELSE 0
        /\ \A i \in 1 .. (n - 1 + 1) : SubSeq(rows, 1, n)[i] = rows[1 + i - 1]
    BY <1>1, <2>1, SubSeqProperties
  <2> QED
    BY <1>3, <2>1, <2>2 DEF Take
<1> QED
  BY <1>2, <1>3

\* The limit that a call comes to is one that a result may be held to.
LEMMA LimitsInRange ==
  ASSUME LimitsOrdered, NEW given \in GivenLimits
  PROVE  resolveRowLimit(given) \in minRowLimit .. maxRowLimit
BY DEF LimitsOrdered, GivenLimits, resolveRowLimit

\* So is the limit that its result is held to, which is the call's own where
\* the statement has none.
LEMMA CappedInRange ==
  ASSUME LimitsOrdered, NEW q \in Selects, NEW limit \in minRowLimit .. maxRowLimit
  PROVE  /\ Capped(q, limit) \in minRowLimit .. maxRowLimit
         /\ Capped(q, limit) \in Nat /\ Capped(q, limit) > 0
         /\ Capped(q, limit) # NoLimit
         /\ ~hasExistingLimit(q) => Capped(q, limit) = limit
BY DEF LimitsOrdered, Stated, Selects, Capped, hasExistingLimit, NoLimit, minRowLimit

\* What the database sends is a sequence of rows.
LEMMA FetchedRows ==
  ASSUME LimitsOrdered, NEW q \in Selects, NEW limit \in minRowLimit .. maxRowLimit,
         NEW offset \in Nat, NEW R, NEW table \in Seq(R)
  PROVE  Fetched(q, limit, offset, table) \in Seq(R)
<1>1. Whole(q, table) \in Seq(R)
  BY SkipRows, TakeRows DEF Stated, Selects, Whole
<1>2. Skip(Whole(q, table), offset) \in Seq(R)
  BY <1>1, SkipRows
<1>3. Capped(q, limit) + 1 \in Nat \cup {NoLimit}
  BY CappedInRange
<1> QED
  BY <1>1, <1>2, <1>3, TakeRows, CappedInRange DEF Fetched, NoLimit

\* No answer to a query has more rows than the maximum, whatever limit the
\* call or the query asks for, whether it ends in a comment and whatever the
\* table holds, and none more than the limit of the call where the query has
\* none.
LEMMA QueriesCapped ==
  ASSUME LimitsOrdered, NEW q \in Selects, NEW given \in GivenLimits,
         NEW offset \in Nat, NEW R, NEW table \in Seq(R)
  PROVE  LET page == Page(q, resolveRowLimit(given), offset, table)
         IN /\ Len(page.rows) <= maxRowLimit
            /\ ~hasExistingLimit(q) => Len(page.rows) <= resolveRowLimit(given)
<1> DEFINE limit == resolveRowLimit(given)
           fetched == Fetched(q, limit, offset, table)
           page == Page(q, limit, offset, table)
<1>1. limit \in minRowLimit .. maxRowLimit
  BY LimitsInRange
<1> HIDE DEF limit
<1>2. fetched \in Seq(R)
  BY <1>1, FetchedRows
<1>3. /\ Capped(q, limit) \in minRowLimit .. maxRowLimit
      /\ Capped(q, limit) \in Nat /\ Capped(q, limit) # NoLimit
      /\ ~hasExistingLimit(q) => Capped(q, limit) = limit
  BY <1>1, CappedInRange
<1>4. q.select
  BY DEF Selects
<1>5. ~Unparseable(q) => Len(page.rows) <= Capped(q, limit)
  <2> SUFFICES ASSUME ~Unparseable(q) PROVE Len(page.rows) <= Capped(q, limit)
    OBVIOUS
  <2>1. CASE Truncated(q, limit, fetched)
    <3>1. page.rows = Take(fetched, Capped(q, limit))
      BY <2>1 DEF Page
    <3>2. Len(fetched) > Capped(q, limit)
      BY <2>1 DEF Truncated
    <3> HIDE DEF fetched, page
    <3>3. Len(Take(fetched, Capped(q, limit))) = Capped(q, limit)
      BY <1>2, <1>3, <3>2, TakeRows
    <3> QED
      BY <1>3, <3>1, <3>3
  <2>2. CASE ~Truncated(q, limit, fetched)
    <3>1. page.rows = fetched
      BY <2>2 DEF Page
    <3>2. ~(Len(fetched) > Capped(q, limit))
      BY <1>3, <1>4, <2>2 DEF Truncated
    <3> HIDE DEF fetched, page
    <3> QED
      BY <1>2, <1>3, <3>1, <3>2
  <2> QED
    BY <2>1, <2>2
<1>6. ~Unparseable(q) => page.rows \in Seq(R)
  BY <1>2, <1>3, TakeRows DEF Page
<1>7. maxRowLimit \in Nat
  BY DEF LimitsOrdered
<1>8. CASE Unparseable(q)
  <2>1. Len(page.rows) = 0
    BY <1>8 DEF Page
  <2>2. limit \in Nat
    BY <1>1, <1>7 DEF minRowLimit
  <2> QED
    BY <1>7, <2>1, <2>2 DEF limit
<1>9. CASE ~Unparseable(q)
  <2>1. Len(page.rows) <= maxRowLimit
    <3> HIDE DEF page
    <3> QED
      BY <1>3, <1>5, <1>6, <1>7, <1>9 DEF minRowLimit
  <2> QED
    BY <1>3, <1>5, <1>9, <2>1 DEF limit
<1> QED
  BY <1>8, <1>9

\* What is cut from an answer, for every statement that has rows: of a query
\* what goes beyond the limits, or all of it when the database cannot parse
\* it; of a RETURNING, a SHOW or an EXPLAIN nothing, however many rows it has
\* (query_database).
THEOREM RowCapHolds ==
  ASSUME LimitsOrdered, NEW q \in Stated, NEW given \in GivenLimits,
         NEW offset \in Nat, NEW R, NEW table \in Seq(R)
  PROVE  LET page == Page(q, resolveRowLimit(given), offset, table)
         IN /\ q.select => Len(page.rows) <= maxRowLimit
            /\ q.select /\ ~hasExistingLimit(q) => Len(page.rows) <= resolveRowLimit(given)
            /\ ~q.select => ~page.error /\ page.rows = Whole(q, table)
<1> DEFINE page == Page(q, resolveRowLimit(given), offset, table)
<1>1. CASE q.select
  <2>1. q \in Selects
    BY <1>1 DEF Selects
  <2> QED
    BY <1>1, <2>1, QueriesCapped
<1>2. CASE ~q.select
  <2>1. page.rows = Fetched(q, resolveRowLimit(given), offset, table) /\ ~page.error
    BY <1>2 DEF Page, Truncated, Unparseable
  <2> QED
    BY <1>2, <2>1 DEF Fetched
<1> QED
  BY <1>1, <1>2

\* Pages join up, for a query without an OFFSET of its own or a comment at its
\* end: a page has the rows that its header says, in their order; it names a
\* next page exactly when rows are left; and that one goes on where it ends
\* (query_database's header and its row more than the limit).
THEOREM PagesContinue ==
  ASSUME LimitsOrdered, NEW q \in Selects, NEW given \in GivenLimits,
         NEW offset \in Nat, NEW R, NEW table \in Seq(R),
         ~q.comment, ~hasExistingOffset(q)
  PROVE  LET page == Page(q, resolveRowLimit(given), offset, table)
             all  == Whole(q, table)
         IN /\ \A i \in 1 .. Len(page.rows) :
                 /\ page.first + i - 1 \in DOMAIN all
                 /\ page.rows[i] = all[page.first + i - 1]
            /\ page.next # 0 <=> offset + Len(page.rows) < Len(all)
            /\ page.next # 0 => /\ page.next = offset + Len(page.rows)
                                /\ page.next > offset
<1> DEFINE limit == resolveRowLimit(given)
           fetched == Fetched(q, limit, offset, table)
           all == Whole(q, table)
           rest == Skip(all, offset)
           c == Capped(q, limit)
           page == Page(q, limit, offset, table)
<1>1. limit \in minRowLimit .. maxRowLimit
  BY LimitsInRange
<1> HIDE DEF limit
<1>2. c \in Nat /\ c > 0 /\ c # NoLimit /\ c + 1 \in Nat \cup {NoLimit} /\ c + 1 # NoLimit
  BY <1>1, CappedInRange DEF NoLimit
<1>3. all \in Seq(R)
  BY SkipRows, TakeRows DEF Stated, Selects, Whole
<1>4. /\ rest \in Seq(R)
      /\ Len(rest) = IF offset <= Len(all) THEN Len(all) - offset ELSE 0
      /\ \A i \in 1 .. Len(rest) : rest[i] = all[offset + i]
  <2> HIDE DEF all
  <2> QED
    BY <1>3, SkipRows
<1>5. Len(all) \in Nat /\ Len(rest) \in Nat
  BY <1>3, <1>4
<1>6. q.select
  BY DEF Selects
<1>7. fetched = Take(IF offset > 0 THEN rest ELSE all, c + 1)
  BY <1>2, <1>6 DEF Fetched
<1>8. /\ Len(fetched) = IF c + 1 >= Len(rest) THEN Len(rest) ELSE c + 1
      /\ \A i \in 1 .. Len(fetched) : fetched[i] = all[offset + i]
      /\ fetched \in Seq(R)
  <2>1. CASE offset > 0
    <3>1. fetched = Take(rest, c + 1)
      BY <1>7, <2>1
    <3> HIDE DEF fetched, rest, all, c
    <3>2. /\ Len(fetched) = IF c + 1 >= Len(rest) THEN Len(rest) ELSE c + 1
          /\ \A i \in 1 .. Len(fetched) : fetched[i] = rest[i]
          /\ fetched \in Seq(R)
      BY <1>2, <1>4, <3>1, TakeRows
    <3>3. \A i \in 1 .. Len(fetched) : i \in 1 .. Len(rest)
      BY <1>2, <1>5, <3>2
    <3> QED
      BY <1>4, <3>2, <3>3
  <2>2. CASE offset = 0
    <3>1. fetched = Take(all, c + 1)
      BY <1>7, <2>2
    <3> HIDE DEF fetched, rest, all, c
    <3>2. /\ Len(fetched) = IF c + 1 >= Len(all) THEN Len(all) ELSE c + 1
          /\ \A i \in 1 .. Len(fetched) : fetched[i] = all[i]
          /\ fetched \in Seq(R)
      BY <1>2, <1>3, <3>1, TakeRows
    <3>3. Len(rest) = Len(all)
      BY <1>4, <1>5, <2>2
    <3>4. \A i \in 1 .. Len(fetched) : offset + i = i
      BY <2>2
    <3> QED
      BY <3>2, <3>3, <3>4
  <2> QED
    BY <2>1, <2>2
<1>9. Truncated(q, limit, fetched) <=> Len(rest) > c
  <2>1. Truncated(q, limit, fetched) <=> Len(fetched) > c
    BY <1>2, <1>6 DEF Truncated
  <2> HIDE DEF fetched, rest, all, c
  <2> QED
    BY <1>2, <1>5, <1>8, <2>1
<1>10. /\ page.rows \in Seq(R)
       /\ Len(page.rows) = IF Len(rest) > c THEN c ELSE Len(rest)
       /\ \A i \in 1 .. Len(page.rows) : page.rows[i] = all[offset + i]
       /\ page.first = offset + 1
       /\ page.next = IF Len(rest) > c THEN offset + c ELSE 0
  <2>1. /\ page.rows = IF Len(rest) > c THEN Take(fetched, c) ELSE fetched
        /\ page.first = offset + 1
        /\ page.next = IF Len(rest) > c THEN offset + c ELSE 0
    BY <1>9 DEF Page, Unparseable
  <2> HIDE DEF fetched, rest, all, c, page
  <2>2. CASE Len(rest) > c
    <3>1. /\ Take(fetched, c) \in Seq(R)
          /\ Len(Take(fetched, c)) = IF c >= Len(fetched) THEN Len(fetched) ELSE c
          /\ \A i \in 1 .. Len(Take(fetched, c)) : Take(fetched, c)[i] = fetched[i]
      BY <1>2, <1>8, TakeRows
    <3>2. Len(fetched) = c + 1
      BY <1>2, <1>5, <1>8, <2>2
    <3>3. Len(Take(fetched, c)) = c
      BY <1>2, <3>1, <3>2
    <3>4. \A i \in 1 .. c : i \in 1 .. Len(fetched)
      BY <1>2, <3>2
    <3> QED
      BY <1>8, <2>1, <2>2, <3>1, <3>3, <3>4
  <2>3. CASE ~(Len(rest) > c)
    <3>1. Len(fetched) = Len(rest)
      BY <1>2, <1>5, <1>8, <2>3
    <3> QED
      BY <1>8, <2>1, <2>3, <3>1
  <2> QED
    BY <2>2, <2>3
<1> HIDE DEF fetched, rest, all, c, page
<1>11. \A i \in 1 .. Len(page.rows) :
         /\ page.first + i - 1 \in DOMAIN all
         /\ page.rows[i] = all[page.first + i - 1]
  <2> SUFFICES ASSUME NEW i \in 1 .. Len(page.rows)
               PROVE  /\ page.first + i - 1 \in DOMAIN all
                      /\ page.rows[i] = all[page.first + i - 1]
    OBVIOUS
  <2>1. page.first + i - 1 = offset + i
    BY <1>10
  <2>2. i <= Len(rest) /\ i >= 1 /\ i \in Nat
    BY <1>2, <1>5, <1>10
  <2>3. offset + i \in 1 .. Len(all)
    BY <1>4, <1>5, <2>2
  <2>4. DOMAIN all = 1 .. Len(all)
    BY <1>3
  <2> QED
    BY <1>10, <2>1, <2>3, <2>4
<1>12. /\ page.next # 0 <=> offset + Len(page.rows) < Len(all)
       /\ page.next # 0 => page.next = offset + Len(page.rows) /\ page.next > offset
  BY <1>2, <1>4, <1>5, <1>10
<1> QED
  BY <1>11, <1>12 DEF limit, page, all

(***************************************************************************)
(* Chunks, for every text and every size and overlap asked for             *)
(***************************************************************************)

\* A chunk is of at least one word, and one starts after where the last did.
LEMMA ChunkSizes ==
  ASSUME NEW size \in Int, NEW overlap \in Int
  PROVE  /\ MaxWords(size) \in Nat /\ MaxWords(size) >= 1
         /\ OverlapWords(size, overlap) \in 0 .. (MaxWords(size) - 1)
         /\ OverlapWords(size, overlap) \in Nat
<1>1. MaxWords(size) \in Nat /\ MaxWords(size) >= 1
  BY DEF MaxWords, DefaultWords
<1> DEFINE wanted == IF overlap < 0 THEN 0 ELSE (4 * overlap) \div 3
<1>2. wanted \in Nat
  OBVIOUS
<1>3. OverlapWords(size, overlap)
        = IF wanted >= MaxWords(size) THEN MaxWords(size) \div 4 ELSE wanted
  BY DEF OverlapWords
<1> HIDE DEF wanted
<1> QED
  BY <1>1, <1>2, <1>3

\* What a division leaves out is less than the divisor.
LEMMA Division ==
  ASSUME NEW a \in Int, NEW b \in Int, b > 0
  PROVE  a \div b \in Int /\ b * (a \div b) <= a /\ a < b * (a \div b) + b
OBVIOUS

\* A product that grows with its first factor.
LEMMA ProductGrows ==
  ASSUME NEW n \in Nat, NEW m \in Nat, NEW step \in Nat, n <= m
  PROVE  n * step <= m * step
OBVIOUS

\* The next multiple.
LEMMA NextStep ==
  ASSUME NEW n \in Int, NEW step \in Int
  PROVE  (n + 1) * step = n * step + step
OBVIOUS

\* A text's chunks are of at least one word and at most as many as asked for;
\* the first starts where the text does and the last ends where it does, and
\* each of the others is whole and goes on where the one before it ended, but
\* for the words that they share: so that ChunkText leaves no word out and takes
\* no step past the end.
THEOREM ChunksCoverText ==
  ASSUME NEW Words, NEW words \in Seq(Words), words # <<>>,
         NEW size \in Int, NEW overlap \in Int
  PROVE  LET chunks == ChunkText(words, size, overlap)
             shared == OverlapWords(size, overlap)
             Start(k) == (k - 1) * (MaxWords(size) - shared)
             End(k) == Start(k) + Len(chunks[k])
         IN /\ DOMAIN chunks = 1 .. Len(chunks) /\ Len(chunks) >= 1
            /\ \A k \in 1 .. Len(chunks) :
                 /\ Len(chunks[k]) \in 1 .. MaxWords(size)
                 /\ \A i \in 1 .. Len(chunks[k]) : chunks[k][i] = words[Start(k) + i]
                 /\ k < Len(chunks) => Start(k + 1) = End(k) - shared
            /\ Start(1) = 0
            /\ End(Len(chunks)) = Len(words)
<1>0. /\ MaxWords(size) \in Nat /\ MaxWords(size) >= 1
      /\ OverlapWords(size, overlap) \in 0 .. (MaxWords(size) - 1)
      /\ OverlapWords(size, overlap) \in Nat
  BY ChunkSizes
<1> DEFINE max == MaxWords(size)
           shared == OverlapWords(size, overlap)
           step == max - shared
           n == Len(words)
           steps == IF n <= max THEN 0 ELSE (n - max + step - 1) \div step
           Until(k) == IF (k - 1) * step + max < n THEN (k - 1) * step + max ELSE n
           chunks == ChunkText(words, size, overlap)
           Start(k) == (k - 1) * step
           End(k) == Start(k) + Len(chunks[k])
<1>1. max \in Nat /\ max >= 1 /\ shared \in 0 .. (max - 1) /\ shared \in Nat
  BY <1>0
<1>2. chunks = [k \in 1 .. steps + 1 |-> SubSeq(words, (k - 1) * step + 1, Until(k))]
  BY DEF ChunkText
<1>3. n \in Nat /\ n >= 1 /\ \A i \in 1 .. n : words[i] \in Words
  OBVIOUS
<1> HIDE DEF max, shared, chunks, n
<1>4. step \in Nat /\ step >= 1 /\ step <= max /\ step = max - shared
  BY <1>1
<1> HIDE DEF step
<1>5. /\ steps \in Nat
      /\ steps * step + max >= n
      /\ steps > 0 => (steps - 1) * step + max < n
  <2>1. CASE n <= max
    BY <1>1, <1>3, <1>4, <2>1
  <2>2. CASE n > max
    <3> DEFINE a == n - max + step - 1
               d == a \div step
    <3>1. a \in Nat /\ a >= step
      BY <1>1, <1>3, <1>4, <2>2
    <3> HIDE DEF a
    <3>2. d \in Int /\ step * d <= a /\ a < step * d + step
      BY <1>4, <3>1, Division
    <3>3. steps = d
      BY <1>1, <1>3, <2>2 DEF a
    <3> HIDE DEF d
    <3>4. d * step = step * d /\ d * step \in Int /\ (d - 1) * step = d * step - step
      BY <1>4, <3>2
    <3>5. d * step > a - step /\ d * step <= a
      BY <1>4, <3>1, <3>2, <3>4
    <3>7. d \in Nat
      <4>1. CASE d < 0
        <5>1. step * d <= step * (-1)
          BY <1>4, <3>2, <4>1
        <5> QED
          BY <1>4, <3>1, <3>2, <5>1
      <4> QED
        BY <3>2, <4>1
    <3> HIDE DEF steps
    <3>6. d * step + max >= n /\ (d - 1) * step + max < n
      BY <1>1, <1>3, <1>4, <3>4, <3>5 DEF a
    <3> QED
      BY <3>7, <3>3, <3>6
  <2> QED
    BY <1>1, <1>3, <2>1, <2>2
<1> HIDE DEF steps
<1>6. Len(chunks) = steps + 1 /\ DOMAIN chunks = 1 .. Len(chunks)
  BY <1>2, <1>5
<1>7. ASSUME NEW k \in 1 .. (steps + 1)
      PROVE  /\ Start(k) \in Nat /\ Start(k) < n
             /\ k < steps + 1 => Start(k) + max < n
             /\ k = steps + 1 => Start(k) + max >= n
             /\ Start(k + 1) = Start(k) + step
  <2>1. k - 1 \in Nat /\ k - 1 <= steps /\ k - 1 \in Int
    BY <1>5
  <2>2. Start(k) \in Nat
    BY <1>4, <2>1
  <2>3. k < steps + 1 => Start(k) + max < n
    <3> SUFFICES ASSUME k < steps + 1 PROVE Start(k) + max < n
      OBVIOUS
    <3>1. steps > 0 /\ steps - 1 \in Nat /\ k - 1 <= steps - 1
      BY <1>5, <2>1
    <3>2. (k - 1) * step <= (steps - 1) * step
      BY <1>4, <2>1, <3>1, ProductGrows
    <3>3. (steps - 1) * step \in Nat
      BY <1>4, <3>1
    <3> HIDE DEF Start
    <3> QED
      BY <1>1, <1>3, <1>5, <2>2, <3>1, <3>2, <3>3 DEF Start
  <2>4. k = steps + 1 => Start(k) + max >= n
    BY <1>5
  <2>5. Start(k + 1) = Start(k) + step
    <3>1. (k - 1) + 1 = (k + 1) - 1
      OBVIOUS
    <3> QED
      BY <1>4, <2>1, <3>1, NextStep
  <2>6. Start(k) < n
    <3>1. CASE k < steps + 1
      <4> HIDE DEF Start
      <4> QED
        BY <1>1, <1>3, <2>2, <2>3, <3>1
    <3>2. CASE k = steps + 1 /\ steps > 0
      <4>1. (steps - 1) * step + step = steps * step
        BY <1>4, <1>5, NextStep
      <4>2. (steps - 1) * step \in Nat /\ steps * step \in Nat
        BY <1>4, <1>5, <3>2
      <4>3. Start(k) = steps * step
        <5>1. k - 1 = steps
          BY <1>5, <3>2
        <5> QED
          BY <5>1
      <4> HIDE DEF Start
      <4> QED
        BY <1>1, <1>3, <1>4, <1>5, <3>2, <4>1, <4>2, <4>3
    <3>3. CASE k = steps + 1 /\ steps = 0
      BY <1>3, <1>4, <3>3
    <3> QED
      BY <1>5, <3>1, <3>2, <3>3
  <2> QED
    BY <2>2, <2>3, <2>4, <2>5, <2>6
<1>8. ASSUME NEW k \in 1 .. (steps + 1)
      PROVE  /\ Len(chunks[k]) = (IF k < steps + 1 THEN max ELSE n - Start(k))
             /\ Len(chunks[k]) \in 1 .. max
             /\ \A i \in 1 .. Len(chunks[k]) : chunks[k][i] = words[Start(k) + i]
  <2>1. chunks[k] = SubSeq(words, Start(k) + 1, Until(k))
    BY <1>2, <1>6
  <2>2. Until(k) = IF Start(k) + max < n THEN Start(k) + max ELSE n
    OBVIOUS
  <2> HIDE DEF Until, Start
  <2>3. /\ Until(k) = IF k < steps + 1 THEN Start(k) + max ELSE n
        /\ Until(k) \in Nat /\ Until(k) <= n /\ Start(k) + 1 <= Until(k)
        /\ Until(k) - Start(k) <= max
    <3>1. /\ Start(k) \in Nat /\ Start(k) < n
          /\ k < steps + 1 => Start(k) + max < n
          /\ k = steps + 1 => Start(k) + max >= n
      BY <1>7
    <3>2. CASE k < steps + 1
      BY <1>1, <1>3, <2>2, <3>1, <3>2
    <3>3. CASE k = steps + 1
      BY <1>1, <1>3, <1>5, <2>2, <3>1, <3>3
    <3> QED
      BY <1>5, <3>2, <3>3
  <2>4. Start(k) \in Nat
    BY <1>7
  <2>5. \A i \in (Start(k) + 1) .. Until(k) : words[i] \in Words
    BY <1>3, <2>3, <2>4
  <2>6. /\ Len(chunks[k]) = Until(k) - (Start(k) + 1) + 1
        /\ \A i \in 1 .. (Until(k) - (Start(k) + 1) + 1) :
             chunks[k][i] = words[Start(k) + 1 + i - 1]
    <3>1. Start(k) + 1 \in Int /\ Until(k) \in Int /\ Start(k) + 1 <= Until(k)
      BY <2>3, <2>4
    <3> QED
      BY <2>1, <2>5, <3>1, SubSeqProperties
  <2>7. \A i \in Int : Start(k) + 1 + i - 1 = Start(k) + i
    BY <2>4
  <2>8. Len(chunks[k]) = Until(k) - Start(k)
    BY <2>3, <2>4, <2>6
  <2>9. Len(chunks[k]) = IF k < steps + 1 THEN max ELSE n - Start(k)
    BY <1>1, <1>3, <2>3, <2>4, <2>8
  <2>10. Len(chunks[k]) \in 1 .. max
    BY <1>1, <2>3, <2>4, <2>8
  <2>11. \A i \in 1 .. Len(chunks[k]) : chunks[k][i] = words[Start(k) + i]
    <3>1. Until(k) - (Start(k) + 1) + 1 = Len(chunks[k])
      BY <2>6
    <3>2. \A i \in 1 .. Len(chunks[k]) : chunks[k][i] = words[Start(k) + 1 + i - 1]
      BY <2>6, <3>1
    <3>3. \A i \in 1 .. Len(chunks[k]) : Start(k) + 1 + i - 1 = Start(k) + i
      BY <2>7
    <3> QED
      BY <3>2, <3>3
  <2> QED
    BY <2>9, <2>10, <2>11
<1>9. \A k \in 1 .. Len(chunks) :
        /\ Len(chunks[k]) \in 1 .. max
        /\ \A i \in 1 .. Len(chunks[k]) : chunks[k][i] = words[Start(k) + i]
        /\ k < Len(chunks) => Start(k + 1) = End(k) - shared
  <2> SUFFICES ASSUME NEW k \in 1 .. (steps + 1)
               PROVE  /\ Len(chunks[k]) \in 1 .. max
                      /\ \A i \in 1 .. Len(chunks[k]) : chunks[k][i] = words[Start(k) + i]
                      /\ k < steps + 1 => Start(k + 1) = End(k) - shared
    BY <1>6
  <2>1. k < steps + 1 => Start(k + 1) = End(k) - shared
    <3>1. k < steps + 1 => Len(chunks[k]) = max
      BY <1>8
    <3>2. Start(k) \in Nat /\ Start(k + 1) = Start(k) + step
      BY <1>7
    <3> HIDE DEF Start
    <3> QED
      BY <1>1, <1>4, <3>1, <3>2
  <2> QED
    BY <1>8, <2>1
<1>10. Start(1) = 0
  BY <1>4
<1>11. End(Len(chunks)) = n
  <2>1. steps + 1 \in 1 .. (steps + 1)
    BY <1>5
  <2>2. Len(chunks[steps + 1]) = n - Start(steps + 1) /\ Start(steps + 1) \in Nat
    BY <1>7, <1>8, <2>1
  <2> HIDE DEF Start
  <2> QED
    BY <1>3, <1>6, <2>2
<1>12. DOMAIN chunks = 1 .. Len(chunks) /\ Len(chunks) >= 1
  BY <1>5, <1>6
<1> QED
  BY <1>9, <1>10, <1>11, <1>12 DEF max, shared, chunks, n, step

(***************************************************************************)
(* Requests and their answers, for every request, header and outcome       *)
(***************************************************************************)

\* What the transport finds in a request that names its target once is that
\* target: its look for a name first does no harm there.
LEMMA NamedIsFound ==
  ASSUME NEW r, NamedOnce(r)
  PROVE  nameOrURI(r) = Target(r)
BY DEF NamedOnce, nameOrURI, Target

\* Headers that mirror such a request pass the check of headers.
LEMMA MirroredPass ==
  ASSUME NEW r, NEW h, NamedOnce(r), Mirrors(r, h), isModernHTTP(r, h)
  PROVE  isModernRequest(r) /\ validateModernHeaders(r, h) = 0
<1>1. r.version # 0 /\ h.version = r.version /\ h.method = r.method
  BY DEF Mirrors, isModernHTTP, isModernRequest
<1>2. r.method \in methodsRequiringMcpName => NameHeaderMatches(r, h)
  BY <1>1, NamedIsFound DEF Mirrors, NameHeaderMatches, decodeHeaderValue
<1> QED
  BY <1>1, <1>2 DEF validateModernHeaders, isModernRequest

\* Headers that pass the check mirror a request that names its target once;
\* of any other they have the revision and the method.
LEMMA PassedMirror ==
  ASSUME NEW r, NEW h, isModernHTTP(r, h), validateModernHeaders(r, h) = 0
  PROVE  /\ isModernRequest(r) /\ h.version = r.version /\ h.method = r.method
         /\ NamedOnce(r) => Mirrors(r, h)
<1>1. r.version # 0 /\ h.version = r.version /\ h.method = r.method
  BY DEF validateModernHeaders, isModernHTTP, isModernRequest, HeaderMismatch, InvalidParams
<1>2. r.method \in methodsRequiringMcpName => NameHeaderMatches(r, h)
  BY <1>1 DEF validateModernHeaders, isModernRequest, HeaderMismatch, InvalidParams
<1>3. NamedOnce(r) => Mirrors(r, h)
  BY <1>1, <1>2, NamedIsFound DEF Mirrors, NameHeaderMatches, decodeHeaderValue
<1> QED
  BY <1>1, <1>3 DEF isModernRequest

\* What the wrapping makes of a result.
Wrapped(fields, ran, cacheable) ==
  [code |-> 0, fields |-> mergeModernFields(fields, cacheable), names |-> 0, ran |-> ran]

LEMMA WrappedResult ==
  ASSUME NEW r, NEW fields, NEW ran
  PROVE  /\ r.method \in cacheableMethods =>
              wrapModernResultForMethod(r, Result(fields, ran)) = Wrapped(fields, ran, TRUE)
         /\ r.method \notin cacheableMethods =>
              wrapModernResultForMethod(r, Result(fields, ran)) = Wrapped(fields, ran, FALSE)
<1>1. /\ r.method \in cacheableMethods =>
           mergeModernFields(fields, r.method \in cacheableMethods)
             = mergeModernFields(fields, TRUE)
      /\ r.method \notin cacheableMethods =>
           mergeModernFields(fields, r.method \in cacheableMethods)
             = mergeModernFields(fields, FALSE)
  BY Zenon DEF mergeModernFields
<1>2. wrapModernResultForMethod(r, Result(fields, ran))
        = Wrapped(fields, ran, r.method \in cacheableMethods)
  <2> DEFINE cached == r.method \in cacheableMethods
  <2>1. \A f : [Result(fields, ran) EXCEPT !.fields = f]
                 = [code |-> 0, fields |-> f, names |-> 0, ran |-> ran]
    BY DEF Result
  <2>2. wrapModernResultForMethod(r, Result(fields, ran))
          = [Result(fields, ran) EXCEPT
               !.fields = mergeModernFields(Result(fields, ran).fields, cached)]
    BY Zenon DEF wrapModernResultForMethod
  <2>3. Result(fields, ran).fields = fields
    BY DEF Result
  <2> QED
    BY Zenon, <2>1, <2>2, <2>3 DEF Wrapped
<1> QED
  BY <1>1, <1>2 DEF Wrapped

\* What the other transport answers at once.
LEMMA SentResult ==
  ASSUME NEW r, NEW cacheable \in BOOLEAN, NEW ran
  PROVE  sendResponseFor(r, cacheable, ran)
           = IF isModernRequest(r) THEN Wrapped({}, ran, cacheable) ELSE Result({}, ran)
BY DEF sendResponseFor, Wrapped, Result

\* What the two dispatchers answer, a method at a time.
LEMMA DispatchersAgree ==
  ASSUME NEW r, NEW out,
         isModernRequest(r) => validateModernRequestStdio(r) = 0
  PROVE  handleRequest(r, out)
           = IF isModernRequest(r) /\ handleRequestHTTP(r, out).code = 0
             THEN wrapModernResultForMethod(r, handleRequestHTTP(r, out))
             ELSE handleRequestHTTP(r, out)
<1> DEFINE modern == isModernRequest(r)
           dispatched == handleRequestHTTP(r, out)
<1>0. ~(modern /\ validateModernRequestStdio(r) # 0)
  OBVIOUS
<1> HIDE DEF modern
<1>a. \A cacheable \in BOOLEAN, ran \in BOOLEAN :
        sendResponseFor(r, cacheable, ran)
          = IF modern THEN Wrapped({}, ran, cacheable) ELSE Result({}, ran)
  BY SentResult DEF modern
<1>c. \A ran : Result({}, ran).code = 0
  BY DEF Result
<1>d. /\ Failure(Internal, TRUE).code # 0
      /\ Failure(InvalidParams, FALSE).code # 0
      /\ Failure(resourceNotFoundCode(r), TRUE).code # 0
      /\ Failure(MethodNotFound, FALSE).code # 0
  BY DEF Failure, Internal, InvalidParams, resourceNotFoundCode, MethodNotFound
<1>e. \A fields, ran :
        r.method \notin cacheableMethods =>
          wrapModernResultForMethod(r, Result(fields, ran)) = Wrapped(fields, ran, FALSE)
  BY WrappedResult
<1>f. \A fields, ran :
        r.method \in cacheableMethods =>
          wrapModernResultForMethod(r, Result(fields, ran)) = Wrapped(fields, ran, TRUE)
  BY WrappedResult
<1>1. CASE r.method = "initialize"
  <2>1. CASE modern
    BY <1>0, <1>1, <2>1, <1>d DEF handleRequest, handleRequestHTTP, modern
  <2>2. CASE ~modern
    BY <1>0, <1>1, <2>2 DEF handleRequest, handleRequestHTTP, handleInitialize, modern
  <2> QED
    BY <2>1, <2>2
<1>2. CASE r.method = "server/discover"
  <2>1. handleRequest(r, out) = Result(DiscoverFields, FALSE)
    BY <1>0, <1>2 DEF handleRequest, modern
  <2>2. dispatched = Result(DiscoverFields, FALSE)
    BY <1>2 DEF handleRequestHTTP
  <2>3. Wrapped(DiscoverFields, FALSE, FALSE) = Result(DiscoverFields, FALSE)
    BY DEF Wrapped, Result, mergeModernFields, DiscoverFields
  <2>4. r.method \notin cacheableMethods
    BY <1>2 DEF cacheableMethods
  <2> QED
    BY <1>e, <2>1, <2>2, <2>3, <2>4
<1>3. CASE r.method = "ping"
  <2>1. handleRequest(r, out) = sendResponseFor(r, FALSE, FALSE)
    BY <1>0, <1>3 DEF handleRequest, modern
  <2>2. dispatched = Result({}, FALSE)
    BY <1>3 DEF handleRequestHTTP
  <2>3. r.method \notin cacheableMethods
    BY <1>3 DEF cacheableMethods
  <2> QED
    BY <1>a, <1>c, <1>e, <2>1, <2>2, <2>3 DEF modern
<1>4. CASE r.method \in {"tools/list", "resources/list", "prompts/list"}
  <2>1. handleRequest(r, out) = sendResponseFor(r, TRUE, TRUE)
    BY <1>0, <1>4 DEF handleRequest, modern
  <2>2. dispatched = Result({}, TRUE)
    BY <1>4 DEF handleRequestHTTP
  <2>3. r.method \in cacheableMethods
    BY <1>4 DEF cacheableMethods
  <2> QED
    BY <1>a, <1>c, <1>f, <2>1, <2>2, <2>3 DEF modern
<1>b. \A cacheable \in BOOLEAN :
        /\ Asking(r, out, cacheable)
             = IF ~r.decodes THEN Failure(InvalidParams, FALSE)
               ELSE IF out # "ok" THEN Failure(Internal, TRUE)
               ELSE sendResponseFor(r, cacheable, TRUE)
  BY DEF Asking
<1>5. CASE r.method \in {"tools/call", "prompts/get"}
  <2>1. handleRequest(r, out) = Asking(r, out, FALSE)
    BY <1>0, <1>5 DEF handleRequest, modern
  <2>2. dispatched = AskingHTTP(r, out)
    BY <1>5 DEF handleRequestHTTP
  <2>3. r.method \notin cacheableMethods
    BY <1>5 DEF cacheableMethods
  <2> QED
    BY <1>a, <1>b, <1>c, <1>d, <1>e, <2>1, <2>2, <2>3 DEF modern, AskingHTTP
<1>6. CASE r.method = "resources/read"
  <2>1. handleRequest(r, out) = handleResourceRead(r, out)
    BY <1>0, <1>6 DEF handleRequest, modern
  <2>2. dispatched = IF r.decodes /\ out = "unknown"
                     THEN Failure(resourceNotFoundCode(r), TRUE) ELSE AskingHTTP(r, out)
    BY <1>6 DEF handleRequestHTTP
  <2>3. r.method \in cacheableMethods
    BY <1>6 DEF cacheableMethods
  <2>5. CASE r.decodes /\ out = "unknown"
    BY <1>d, <2>1, <2>2, <2>5 DEF handleResourceRead
  <2>6. CASE ~(r.decodes /\ out = "unknown")
    BY <1>a, <1>b, <1>c, <1>d, <1>f, <2>1, <2>2, <2>3, <2>6
       DEF handleResourceRead, modern, AskingHTTP
  <2> QED
    BY <2>5, <2>6
<1>7. CASE r.method = "pgedge/listDatabases"
  <2>1. handleRequest(r, out) = IF out # "ok" THEN Failure(Internal, TRUE)
                                ELSE sendResponseFor(r, FALSE, TRUE)
    BY <1>0, <1>7 DEF handleRequest, modern
  <2>2. dispatched = IF out # "ok" THEN Failure(Internal, TRUE) ELSE Result({}, TRUE)
    BY <1>7 DEF handleRequestHTTP
  <2>3. r.method \notin cacheableMethods
    BY <1>7 DEF cacheableMethods
  <2> QED
    BY <1>a, <1>c, <1>d, <1>e, <2>1, <2>2, <2>3 DEF modern
<1>8. CASE r.method = "pgedge/selectDatabase"
  <2>1. handleRequest(r, out) = handleSelectDatabase(r)
    BY <1>0, <1>8 DEF handleRequest, modern
  <2>2. dispatched = IF ~r.decodes \/ r.name = "" THEN Failure(InvalidParams, FALSE)
                     ELSE Result({}, TRUE)
    BY <1>8 DEF handleRequestHTTP
  <2>3. r.method \notin cacheableMethods
    BY <1>8 DEF cacheableMethods
  <2> QED
    BY <1>a, <1>c, <1>d, <1>e, <2>1, <2>2, <2>3 DEF handleSelectDatabase, modern
<1>9. CASE r.method \notin {"initialize", "server/discover", "ping", "tools/list",
             "resources/list", "prompts/list", "tools/call", "prompts/get",
             "resources/read", "pgedge/listDatabases", "pgedge/selectDatabase"}
  <2>1. handleRequest(r, out) = Failure(MethodNotFound, FALSE)
    BY <1>0, <1>9 DEF handleRequest, modern
  <2>2. dispatched = Failure(MethodNotFound, FALSE)
    BY <1>9 DEF handleRequestHTTP
  <2> QED
    BY <1>d, <2>1, <2>2
<1> QED
  BY <1>1, <1>2, <1>3, <1>4, <1>5, <1>6, <1>7, <1>8, <1>9

\* Both transports give a request the same answer, and ask the same of the
\* server, whatever becomes of it, when it names what its handler takes and
\* that only, and its headers mirror that: though each has a dispatcher and
\* handlers of its own, one looks for a name or a uri where the handler takes
\* one of them, and one adds the fields of a modern result in a wrapping that
\* the other has not (handleRequestHTTP, nameOrURI and handleHTTPRequest;
\* handleRequest). Without the first assumption it is not so: see the README.
THEOREM TransportsAlike ==
  ASSUME NEW r, NEW h, NEW out, NamedOnce(r), Mirrors(r, h)
  PROVE  handleHTTPRequest(r, h, out)[2] = Run(r, out)
<1>1. CASE ~r.parses \/ r.id = "absent"
  BY <1>1 DEF handleHTTPRequest, Run
<1>2. CASE r.parses /\ r.id # "absent"
  <2>0. Run(r, out) = handleRequest(r, out)
    BY <1>2 DEF Run
  <2>1. CASE isModernHTTP(r, h)
    <3>1. /\ isModernRequest(r)
          /\ validateModernRequestHTTP(r, h) = validateModernRequestStdio(r)
      BY <2>1, MirroredPass DEF validateModernRequestHTTP
    <3>2. CASE validateModernRequestStdio(r) # 0
      <4>1. handleRequest(r, out) = Failure(validateModernRequestStdio(r), FALSE)
        BY <3>1, <3>2 DEF handleRequest
      <4>2. handleHTTPRequest(r, h, out)
              = <<400, Failure(validateModernRequestStdio(r), FALSE)>>
        BY <1>2, <2>1, <3>1, <3>2 DEF handleHTTPRequest
      <4> QED
        BY <2>0, <4>1, <4>2
    <3>3. CASE validateModernRequestStdio(r) = 0
      <4>1. handleHTTPRequest(r, h, out)[2]
              = IF handleRequestHTTP(r, out).code = 0
                THEN wrapModernResultForMethod(r, handleRequestHTTP(r, out))
                ELSE handleRequestHTTP(r, out)
        BY <1>2, <2>1, <3>1, <3>3 DEF handleHTTPRequest
      <4> QED
        BY <2>0, <3>1, <3>3, <4>1, DispatchersAgree
    <3> QED
      BY <3>2, <3>3
  <2>2. CASE ~isModernHTTP(r, h)
    <3>1. ~isModernRequest(r)
      BY <2>2 DEF isModernHTTP
    <3>2. handleHTTPRequest(r, h, out)[2] = handleRequestHTTP(r, out)
      BY <1>2, <2>2 DEF handleHTTPRequest
    <3> QED
      BY <2>0, <3>1, <3>2, DispatchersAgree
  <2> QED
    BY <2>1, <2>2
<1> QED
  BY <1>1, <1>2

\* What a modern request must be for anything to be done: of the revision that
\* is implemented, with a client's capabilities, its headers those of its body
\* and naming what its handler takes, where that is all that it names.
Agreed(r, h) ==
  /\ r.version = ModernProtocolVersion /\ r.caps
  /\ h.version = r.version /\ h.method = r.method
  /\ NamedOnce(r) => Mirrors(r, h)

\* A code that says what is wrong with a modern request.
LEMMA RejectionCodes ==
  ASSUME NEW r, NEW h
  PROVE  /\ validateModernRequestHTTP(r, h) \in {0, HeaderMismatch, InvalidParams, Unsupported}
         /\ isModernHTTP(r, h) /\ validateModernRequestHTTP(r, h) = 0 =>
              Agreed(r, h)
<1>1. validateModernHeaders(r, h) \in {0, HeaderMismatch, InvalidParams}
  BY DEF validateModernHeaders, HeaderMismatch, InvalidParams
<1>2. /\ validateModernRequestStdio(r) \in {0, InvalidParams, Unsupported}
      /\ validateModernRequestStdio(r) = 0 => r.version = ModernProtocolVersion /\ r.caps
  BY DEF validateModernRequestStdio, InvalidParams, Unsupported
<1> QED
  BY <1>1, <1>2, PassedMirror
     DEF validateModernRequestHTTP, Agreed, HeaderMismatch, InvalidParams, Unsupported

\* The fields that mark a modern result.
Marked == {"resultType", "serverInfo"}

\* What the dispatcher of the HTTP transport answers.
LEMMA DispatchedCodes ==
  ASSUME NEW r, NEW out
  PROVE  LET answer == handleRequestHTTP(r, out)
         IN /\ answer.code \in {0, MethodNotFound, InvalidParams, Internal,
                                 resourceNotFoundCode(r)}
            /\ \E fields, names, ran :
                 answer = [code |-> answer.code, fields |-> fields, names |-> names, ran |-> ran]
            /\ r.method # "server/discover" => answer.fields = {}
            /\ answer.names # 0 => /\ r.method = "initialize" /\ ~isModernRequest(r)
                                   /\ answer.names = NegotiateProtocolVersion(r.asked)
BY DEF handleRequestHTTP, AskingHTTP, Result, Failure

\* A modern caller of the HTTP transport, whatever its request and its headers,
\* has its result marked and is given no status or code of the old protocol;
\* and nothing is done for it, nor is it given a result, unless headers and
\* body agree.
LEMMA ModernAnswered ==
  ASSUME NEW r, NEW h, NEW out, r.parses, r.id # "absent", isModernHTTP(r, h)
  PROVE  LET status == handleHTTPRequest(r, h, out)[1]
             answer == handleHTTPRequest(r, h, out)[2]
         IN /\ answer.code # -32002
            /\ answer.code = 0 => Marked \subseteq answer.fields
            /\ answer.code = 0 \/ answer.ran => Agreed(r, h)
            /\ status = 404 <=> answer.code = MethodNotFound
            /\ status = 400 => ~answer.ran
<1> DEFINE rejected == validateModernRequestHTTP(r, h)
           dispatched == handleRequestHTTP(r, out)
<1>1. CASE rejected # 0
  <2>1. handleHTTPRequest(r, h, out) = <<400, Failure(rejected, FALSE)>>
    BY <1>1 DEF handleHTTPRequest
  <2>2. rejected \in {HeaderMismatch, InvalidParams, Unsupported}
    BY <1>1, RejectionCodes
  <2> HIDE DEF rejected
  <2> QED
    BY <2>1, <2>2 DEF Failure, HeaderMismatch, InvalidParams, Unsupported, MethodNotFound
<1>2. CASE rejected = 0
  <2>1. handleHTTPRequest(r, h, out)
          = <<IF dispatched.code = MethodNotFound THEN 404 ELSE 200,
              IF dispatched.code = 0 THEN wrapModernResultForMethod(r, dispatched)
              ELSE dispatched>>
    BY <1>2 DEF handleHTTPRequest
  <2>2. Agreed(r, h)
    BY <1>2, RejectionCodes
  <2>3. isModernRequest(r)
    BY <2>2 DEF Agreed, isModernRequest, ModernProtocolVersion
  <2>4. dispatched.code \in {0, MethodNotFound, InvalidParams, Internal}
    BY <2>3, DispatchedCodes DEF resourceNotFoundCode
  <2>5. PICK fields, names, ran :
          dispatched = [code |-> dispatched.code, fields |-> fields, names |-> names, ran |-> ran]
    BY DispatchedCodes
  <2> HIDE DEF dispatched
  <2>6. /\ wrapModernResultForMethod(r, dispatched).code = dispatched.code
        /\ Marked \subseteq wrapModernResultForMethod(r, dispatched).fields
    BY <2>5 DEF wrapModernResultForMethod, mergeModernFields, Marked
  <2> QED
    BY <2>1, <2>2, <2>4, <2>6 DEF MethodNotFound, InvalidParams, Internal
<1> QED
  BY <1>1, <1>2

\* The revision that is agreed on is the latest implemented one that is no
\* later than the one asked for; the first, when all are.
LEMMA Negotiated ==
  ASSUME NEW asked \in Nat
  PROVE  LET agreed == NegotiateProtocolVersion(asked)
         IN /\ agreed \in supportedProtocolVersions
            /\ asked >= 2 => /\ agreed <= asked
                             /\ \A v \in supportedProtocolVersions : v <= asked => v <= agreed
<1> DEFINE S == {2} \cup {v \in supportedProtocolVersions : v <= asked}
<1>1. CASE asked = 0
  BY <1>1 DEF NegotiateProtocolVersion, ProtocolVersion, supportedProtocolVersions
<1>2. CASE asked # 0
  <2>1. \E x \in S : \A y \in S : x >= y
    <3>1. CASE asked >= 8
      BY <3>1 DEF supportedProtocolVersions
    <3>2. CASE asked < 8 /\ asked >= 6
      BY <3>2 DEF supportedProtocolVersions
    <3>3. CASE asked < 6 /\ asked >= 4
      BY <3>3 DEF supportedProtocolVersions
    <3>4. CASE asked < 4
      BY <3>4 DEF supportedProtocolVersions
    <3> QED
      BY <3>1, <3>2, <3>3, <3>4
  <2>2. Max(S) \in S /\ \A y \in S : Max(S) >= y
    BY <2>1 DEF Max
  <2>3. NegotiateProtocolVersion(asked) = Max(S)
    BY <1>2 DEF NegotiateProtocolVersion
  <2> QED
    BY <2>2, <2>3 DEF supportedProtocolVersions
<1> QED
  BY <1>1, <1>2

\* A legacy caller of the HTTP transport, whatever its request, is given no
\* status, code or field that its protocol has not, but to the method that the
\* new one added; and the revision it is told is one that it can speak.
LEMMA LegacyAnswered ==
  ASSUME NEW r, NEW h, NEW out, r.parses, r.id # "absent", ~isModernHTTP(r, h),
         r.asked \in Nat
  PROVE  LET status == handleHTTPRequest(r, h, out)[1]
             answer == handleHTTPRequest(r, h, out)[2]
         IN /\ status = 200
            /\ answer.code \notin {HeaderMismatch, Unsupported}
            /\ r.method # "server/discover" => answer.fields = {}
            /\ answer.names # 0 =>
                 /\ answer.names \in supportedProtocolVersions
                 /\ r.asked >= 2 =>
                      /\ answer.names <= r.asked
                      /\ \A v \in supportedProtocolVersions :
                           v <= r.asked => v <= answer.names
<1> DEFINE dispatched == handleRequestHTTP(r, out)
<1>1. handleHTTPRequest(r, h, out) = <<200, dispatched>>
  BY DEF handleHTTPRequest
<1>2. dispatched.code \notin {HeaderMismatch, Unsupported}
  BY DispatchedCodes DEF resourceNotFoundCode, HeaderMismatch, Unsupported,
     MethodNotFound, InvalidParams, Internal
<1>3. r.method # "server/discover" => dispatched.fields = {}
  BY DispatchedCodes
<1>4. dispatched.names # 0 => dispatched.names = NegotiateProtocolVersion(r.asked)
  BY DispatchedCodes
<1> HIDE DEF dispatched
<1> QED
  BY <1>1, <1>2, <1>3, <1>4, Negotiated

\* A caller is answered in the protocol that it speaks, whatever the request,
\* the headers and what becomes of it.  A modern one has its result marked, and
\* nothing is done for it unless the revision is the one that is implemented
\* and the headers have it, the method and, where the request names what its
\* handler takes and no more, that (validateModernHeaders, which compares with
\* what nameOrURI finds); a legacy one is given no status, code or field that
\* it does not know, and told a revision that it can speak.
THEOREM AnsweredInItsEra ==
  ASSUME NEW r, NEW h, NEW out, r.parses, r.id # "absent", r.asked \in Nat
  PROVE  LET status == handleHTTPRequest(r, h, out)[1]
             answer == handleHTTPRequest(r, h, out)[2]
         IN /\ isModernHTTP(r, h) =>
                 /\ answer.code = 0 => Marked \subseteq answer.fields
                 /\ answer.code = 0 \/ answer.ran => Agreed(r, h)
                 /\ status = 404 <=> answer.code = MethodNotFound
                 /\ status = 400 => ~answer.ran
            /\ ~isModernHTTP(r, h) =>
                 /\ status = 200
                 /\ answer.code \notin {HeaderMismatch, Unsupported}
                 /\ r.method # "server/discover" => answer.fields = {}
                 /\ answer.names # 0 =>
                      /\ answer.names \in supportedProtocolVersions
                      /\ r.asked >= 2 =>
                           /\ answer.names <= r.asked
                           /\ \A v \in supportedProtocolVersions :
                                v <= r.asked => v <= answer.names
BY ModernAnswered, LegacyAnswered

(***************************************************************************)
(* The middleware, for every origin, credential and address                *)
(***************************************************************************)

\* An origin as a page or the configuration gives it, and what makes it one.
URLs == [scheme : STRING, host : STRING, port : Nat, more : BOOLEAN]
IsWeb(u) == u.scheme \in {"http", "https"} /\ u.host # ""
IsOrigin(u) == IsWeb(u) /\ ~u.more

\* Two URLs of one origin, by the rule for browsers: a port that is left out
\* is the scheme's own.
SameOrigin(u, v) ==
  /\ u.scheme = v.scheme /\ u.host = v.host
  /\ \/ u.port = v.port
     \/ u.scheme = "https" /\ {u.port, v.port} = {0, 443}
     \/ u.scheme = "http" /\ {u.port, v.port} = {0, 80}

\* Whose pages may call: those of a configured origin or of the issuer, or of
\* this machine when there is neither.
Expected(configured, issuer) == configured \cup {i \in issuer : IsWeb(i)}
Welcome(o, expected) ==
  /\ IsOrigin(o)
  /\ \/ \E u \in expected : SameOrigin(o, u)
     \/ expected = {} /\ o.host \in loopback

\* Origins are compared by their normal form.
LEMMA NormalForm ==
  ASSUME NEW u \in URLs, NEW v \in URLs
  PROVE  /\ normaliseOrigin(u) # <<>> <=> IsOrigin(u)
         /\ IsOrigin(u) /\ IsOrigin(v) =>
              (normaliseOrigin(u) = normaliseOrigin(v) <=> SameOrigin(u, v))
<1> DEFINE Port(w) == IF w.port # 0 THEN w.port ELSE IF w.scheme = "https" THEN 443 ELSE 80
<1>1. \A w \in URLs : normaliseOrigin(w) = IF IsOrigin(w) THEN <<w.scheme, w.host, Port(w)>> ELSE <<>>
  BY DEF normaliseOrigin, IsOrigin, IsWeb
<1>2. normaliseOrigin(u) # <<>> <=> IsOrigin(u)
  BY <1>1
<1>3. ASSUME IsOrigin(u), IsOrigin(v)
      PROVE  normaliseOrigin(u) = normaliseOrigin(v) <=> SameOrigin(u, v)
  <2>1. normaliseOrigin(u) = normaliseOrigin(v)
          <=> u.scheme = v.scheme /\ u.host = v.host /\ Port(u) = Port(v)
    BY <1>1, <1>3
  <2>2. u.scheme \in {"http", "https"} /\ v.scheme \in {"http", "https"}
    BY <1>3 DEF IsOrigin, IsWeb
  <2>3. u.port \in Nat /\ v.port \in Nat
    BY DEF URLs
  <2>4. /\ {u.port, v.port} = {0, 443}
             <=> (u.port = 0 /\ v.port = 443) \/ (u.port = 443 /\ v.port = 0)
        /\ {u.port, v.port} = {0, 80}
             <=> (u.port = 0 /\ v.port = 80) \/ (u.port = 80 /\ v.port = 0)
    BY <2>3
  <2>5. ASSUME u.scheme = v.scheme
        PROVE  Port(u) = Port(v)
                 <=> \/ u.port = v.port
                     \/ u.scheme = "https" /\ {u.port, v.port} = {0, 443}
                     \/ u.scheme = "http" /\ {u.port, v.port} = {0, 80}
    <3>1. CASE u.scheme = "https"
      BY <2>3, <2>4, <2>5, <3>1
    <3>2. CASE u.scheme = "http"
      BY <2>3, <2>4, <2>5, <3>2
    <3> QED
      BY <2>2, <3>1, <3>2
  <2> QED
    BY <2>1, <2>5 DEF SameOrigin
<1> QED
  BY <1>2, <1>3

\* The list of origins that the server makes of its configuration lets in the
\* pages that are welcome and no other.
LEMMA AllowsTheWelcome ==
  ASSUME NEW configured \in SUBSET URLs, NEW issuer \in SUBSET URLs,
         NewOriginPolicy(configured), NEW origin \in SUBSET URLs
  PROVE  Allow(EffectiveOrigins(configured, issuer), origin)
           <=> \A o \in origin : Welcome(o, Expected(configured, issuer))
<1> DEFINE listed == EffectiveOrigins(configured, issuer)
           expected == Expected(configured, issuer)
<1>1. listed = configured \cup {originFromIssuer(i) : i \in {i \in issuer : IsWeb(i)}}
  BY DEF EffectiveOrigins, IsWeb
<1>2. \A i \in issuer : /\ originFromIssuer(i) \in URLs
                        /\ IsWeb(i) => IsOrigin(originFromIssuer(i))
                        /\ \A o : SameOrigin(o, originFromIssuer(i)) <=> SameOrigin(o, i)
  <2> SUFFICES ASSUME NEW i \in URLs
               PROVE  /\ originFromIssuer(i) \in URLs
                      /\ IsWeb(i) => IsOrigin(originFromIssuer(i))
                      /\ \A o : SameOrigin(o, originFromIssuer(i)) <=> SameOrigin(o, i)
    OBVIOUS
  <2> DEFINE f == originFromIssuer(i)
  <2>1. /\ f \in URLs
        /\ f.scheme = i.scheme /\ f.host = i.host /\ f.port = i.port /\ ~f.more
    BY DEF URLs, originFromIssuer
  <2> HIDE DEF f
  <2>2. IsWeb(i) => IsOrigin(f)
    BY <2>1 DEF IsOrigin, IsWeb
  <2>3. \A o : SameOrigin(o, f) <=> SameOrigin(o, i)
    <3>1. f.scheme = i.scheme /\ f.host = i.host /\ f.port = i.port
      BY <2>1
    <3> SUFFICES ASSUME NEW o
                 PROVE  SameOrigin(o, f) <=> SameOrigin(o, i)
      OBVIOUS
    <3>2. {o.port, f.port} = {o.port, i.port}
      BY <3>1
    <3> QED
      BY <3>1, <3>2 DEF SameOrigin
  <2> QED
    BY <2>1, <2>2, <2>3 DEF f
<1>3. \A u \in configured : IsOrigin(u)
  BY NormalForm DEF NewOriginPolicy
<1>4. \A a \in listed : a \in URLs /\ IsOrigin(a)
  BY <1>1, <1>2, <1>3
<1>5. listed = {} <=> expected = {}
  BY <1>1 DEF Expected
<1>6. \A o : (\E a \in listed : SameOrigin(o, a)) <=> (\E u \in expected : SameOrigin(o, u))
  <2> SUFFICES ASSUME NEW o
               PROVE  (\E a \in listed : SameOrigin(o, a))
                        <=> (\E u \in expected : SameOrigin(o, u))
    OBVIOUS
  <2>1. ASSUME NEW a \in listed, SameOrigin(o, a)
        PROVE  \E u \in expected : SameOrigin(o, u)
    <3>1. CASE a \in configured
      BY <2>1, <3>1 DEF Expected
    <3>2. CASE a \notin configured
      <4>1. PICK i \in issuer : IsWeb(i) /\ a = originFromIssuer(i)
        BY <1>1, <2>1, <3>2
      <4> QED
        BY <1>2, <2>1, <4>1 DEF Expected
    <3> QED
      BY <3>1, <3>2
  <2>2. ASSUME NEW u \in expected, SameOrigin(o, u)
        PROVE  \E a \in listed : SameOrigin(o, a)
    <3>1. CASE u \in configured
      BY <1>1, <2>2, <3>1
    <3>2. CASE u \notin configured
      <4>1. u \in issuer /\ IsWeb(u)
        BY <2>2, <3>2 DEF Expected
      <4>2. originFromIssuer(u) \in listed /\ SameOrigin(o, originFromIssuer(u))
        BY <1>1, <1>2, <2>2, <4>1
      <4> QED
        BY <4>2
    <3> QED
      BY <3>1, <3>2
  <2> QED
    BY <2>1, <2>2
<1> HIDE DEF listed, expected
<1>7. ASSUME NEW o \in origin
      PROVE  (/\ normaliseOrigin(o) # <<>>
              /\ \/ normaliseOrigin(o) \in {normaliseOrigin(a) : a \in listed}
                 \/ listed = {} /\ o.host \in loopback)
               <=> Welcome(o, expected)
  <2>1. o \in URLs
    BY <1>7
  <2>2. normaliseOrigin(o) # <<>> <=> IsOrigin(o)
    BY <2>1, NormalForm
  <2>3. ASSUME IsOrigin(o)
        PROVE  normaliseOrigin(o) \in {normaliseOrigin(a) : a \in listed}
                 <=> \E a \in listed : SameOrigin(o, a)
    <3>1. \A a \in listed : normaliseOrigin(o) = normaliseOrigin(a) <=> SameOrigin(o, a)
      BY <1>4, <2>1, <2>3, NormalForm
    <3> QED
      BY <3>1
  <2> QED
    BY <1>5, <1>6, <2>2, <2>3 DEF Welcome
<1>8. Allow(listed, origin)
        <=> \A o \in origin : /\ normaliseOrigin(o) # <<>>
                              /\ \/ normaliseOrigin(o) \in {normaliseOrigin(a) : a \in listed}
                                 \/ listed = {} /\ o.host \in loopback
  BY DEF Allow
<1> QED
  BY <1>7, <1>8 DEF listed, expected

\* The status of what the JSON-RPC handler answers.
LEMMA HandlerStatus ==
  ASSUME NEW r, NEW h, NEW out
  PROVE  handleHTTPRequest(r, h, out)[1] \in {200, 202, 400, 404}
BY DEF handleHTTPRequest

\* A request is turned away for its page exactly when its page is not welcome,
\* and for its credential exactly when it needs one and has none; so nothing
\* is done for any other than a request of a welcome page, with a credential
\* or to sign in (the handlers of buildHandler in their order).
THEOREM ExactlyTheAdmitted ==
  ASSUME NEW configured \in SUBSET URLs, NEW issuer \in SUBSET URLs,
         NewOriginPolicy(configured),
         NEW q, q.origin \in SUBSET URLs,
         NEW required \in BOOLEAN, NEW passwordLogin \in BOOLEAN, NEW oauth \in BOOLEAN
  PROVE  LET served == Serve(q, EffectiveOrigins(configured, issuer), required,
                             passwordLogin, oauth)
             welcome == \A o \in q.origin : Welcome(o, Expected(configured, issuer))
             exempt == q.path \in PublicPaths(oauth) \/ (passwordLogin /\ q.signIn)
         IN /\ served[1] = 403 <=> ~welcome
            /\ served[1] = 401 <=> welcome /\ required /\ ~exempt /\ ~q.valid
            /\ served[2].ran =>
                 welcome /\ (~required \/ q.valid \/ (passwordLogin /\ q.signIn))
<1> DEFINE listed == EffectiveOrigins(configured, issuer)
           served == Serve(q, listed, required, passwordLogin, oauth)
           welcome == \A o \in q.origin : Welcome(o, Expected(configured, issuer))
           exempt == q.path \in PublicPaths(oauth) \/ (passwordLogin /\ q.signIn)
           present == OpenPaths \cup (IF oauth THEN OAuthPaths ELSE {})
           answered == handleHTTPRequest(q.body, q.headers, q.out)
<1>1. Allow(listed, q.origin) <=> welcome
  BY AllowsTheWelcome
<1>2. answered[1] \in {200, 202, 400, 404}
  BY HandlerStatus
<1>3. ~NoAnswer.ran
  BY DEF NoAnswer
<1>4. CASE ~Allow(listed, q.origin)
  <2>1. served = <<403, NoAnswer>>
    BY <1>4 DEF Serve
  <2> HIDE DEF served, welcome, listed, exempt
  <2> QED
    BY <1>1, <1>3, <1>4, <2>1 DEF served, welcome, listed, exempt
<1>5. CASE Allow(listed, q.origin)
  <2>1. served = IF required /\ ~exempt /\ ~q.valid THEN <<401, NoAnswer>>
                 ELSE IF q.path \in present THEN <<200, NoAnswer>>
                 ELSE IF q.path # "/mcp/v1" THEN <<404, NoAnswer>>
                 ELSE IF q.verb # "POST" THEN <<405, NoAnswer>>
                 ELSE IF answered[2].ran /\ q.out = "panic" THEN <<500, NoAnswer>>
                 ELSE answered
    BY <1>5 DEF Serve
  <2>2. /\ served[1] \in {200, 202, 400, 401, 404, 405, 500}
        /\ served[1] = 401 <=> required /\ ~exempt /\ ~q.valid
        /\ served[2].ran => (~required \/ q.valid \/ (passwordLogin /\ q.signIn))
    <3>1. served[2].ran => q.path = "/mcp/v1"
      <4> HIDE DEF served, answered, exempt, present
      <4> QED
        BY <1>3, <2>1
    <3>2. "/mcp/v1" \notin PublicPaths(oauth)
      BY DEF PublicPaths, OpenPaths, WellKnown, OAuthPaths
    <3>3. served[2].ran => exempt \/ ~required \/ q.valid
      <4> HIDE DEF served, answered, exempt, present
      <4> QED
        BY <1>3, <2>1
    <3>4. served[1] \in {200, 202, 400, 401, 404, 405, 500}
      <4> HIDE DEF served, answered, exempt, present
      <4> QED
        BY <1>2, <2>1
    <3>5. served[1] = 401 <=> required /\ ~exempt /\ ~q.valid
      <4> HIDE DEF served, answered, exempt, present
      <4> QED
        BY <1>2, <2>1
    <3> HIDE DEF served, answered, present
    <3> QED
      BY <3>1, <3>2, <3>3, <3>4, <3>5
  <2> HIDE DEF served, welcome, listed, exempt
  <2> QED
    BY <1>1, <1>5, <2>2 DEF served, welcome, listed, exempt
<1> QED
  BY <1>4, <1>5

\* A caller's address is its own, whatever it writes into the forwarding
\* header and whatever trusted proxies are on its way, each of which appends
\* the address that it was reached from (Resolve reads them from the end).
THEOREM AddressIsOwn ==
  ASSUME NEW Addresses, NEW trusted \in SUBSET Addresses,
         NEW caller \in Addresses \ trusted, caller # "?",
         NEW written \in Seq(Addresses), NEW proxies \in Seq(trusted)
  PROVE  LET hops == <<caller>> \o proxies
         IN Resolve(hops[Len(hops)], written \o SubSeq(hops, 1, Len(hops) - 1), trusted)
              = caller
<1> DEFINE hops == <<caller>> \o proxies
           passed == SubSeq(hops, 1, Len(hops) - 1)
           list == written \o passed
           foreign == {i \in DOMAIN list : list[i] \notin trusted}
           first == Len(written) + 1
<1>1. /\ hops \in Seq(Addresses)
      /\ Len(hops) = Len(proxies) + 1 /\ Len(proxies) \in Nat
      /\ hops[1] = caller
      /\ \A i \in 2 .. Len(hops) : hops[i] = proxies[i - 1] /\ hops[i] \in trusted
  OBVIOUS
<1>2. CASE Len(proxies) = 0
  <2>1. hops[Len(hops)] = caller
    BY <1>1, <1>2
  <2>2. \A l : Resolve(caller, l, trusted) = caller
    BY Zenon DEF Resolve
  <2> HIDE DEF hops
  <2> QED
    BY <2>1, <2>2 DEF hops
<1>3. CASE Len(proxies) > 0
  <2> HIDE DEF hops
  <2>1. hops[Len(hops)] \in trusted
    BY <1>1, <1>3
  <2>2. /\ passed \in Seq(Addresses)
        /\ Len(passed) = Len(proxies)
        /\ \A i \in 1 .. Len(passed) : passed[i] = hops[i]
    <3>1. \A i \in 1 .. (Len(hops) - 1) : hops[i] \in Addresses
      BY <1>1
    <3>2. Len(hops) - 1 \in Int /\ 1 \in Int /\ 1 <= Len(hops) - 1
      BY <1>1, <1>3
    <3> QED
      BY <1>1, <3>1, <3>2, SubSeqProperties
  <2> HIDE DEF passed
  <2>3. /\ DOMAIN list = 1 .. (Len(written) + Len(proxies))
        /\ list[first] = caller
        /\ \A i \in (first + 1) .. (Len(written) + Len(proxies)) : list[i] \in trusted
    <3>1. /\ list \in Seq(Addresses)
          /\ Len(list) = Len(written) + Len(passed)
          /\ \A i \in 1 .. Len(passed) : list[Len(written) + i] = passed[i]
      BY <2>2
    <3>2. DOMAIN list = 1 .. (Len(written) + Len(proxies))
      BY <2>2, <3>1
    <3>3. list[first] = caller
      BY <1>1, <1>3, <2>2, <3>1
    <3>4. ASSUME NEW i \in (first + 1) .. (Len(written) + Len(proxies))
          PROVE  list[i] \in trusted
      <4>1. Len(written) \in Nat
        OBVIOUS
      <4> DEFINE j == i - Len(written)
      <4>2. j \in 2 .. Len(proxies) /\ i = Len(written) + j
        BY <1>1, <3>4, <4>1
      <4> HIDE DEF j, list
      <4>3. list[i] = hops[j]
        BY <1>1, <2>2, <3>1, <4>2
      <4> QED
        BY <1>1, <4>2, <4>3
    <3> QED
      BY <3>2, <3>3, <3>4
  <2> HIDE DEF list
  <2>4. Len(written) \in Nat
    OBVIOUS
  <2>5. first \in foreign /\ \A i \in foreign : first >= i
    BY <1>1, <1>3, <2>3, <2>4
  <2>6. Max(foreign) = first
    <3>1. \A i \in foreign : i \in Nat
      BY <1>1, <2>3, <2>4
    <3> HIDE DEF foreign, first
    <3>2. Max(foreign) \in foreign /\ \A y \in foreign : Max(foreign) >= y
      BY <2>5 DEF Max
    <3> QED
      BY <2>5, <3>1, <3>2
  <2>7. foreign # {} /\ list[Max(foreign)] = caller
    BY <2>3, <2>5, <2>6
  <2>8. Resolve(hops[Len(hops)], list, trusted)
          = IF hops[Len(hops)] \notin trusted \/ foreign = {} \/ list[Max(foreign)] = "?"
            THEN hops[Len(hops)] ELSE list[Max(foreign)]
    BY DEF Resolve
  <2> HIDE DEF foreign
  <2>9. Resolve(hops[Len(hops)], list, trusted) = caller
    BY <2>1, <2>7, <2>8
  <2> QED
    BY <2>9 DEF hops, passed, list
<1> QED
  BY <1>1, <1>2, <1>3
=============================================================================

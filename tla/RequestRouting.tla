--------------------------- MODULE RequestRouting ---------------------------
(***************************************************************************)
(* Which database a request is answered from: the current database of each *)
(* session, the three ways to select one, the databases a credential has   *)
(* access to, the client that is found or opened and the tool registry     *)
(* that goes with it, while the configuration is reloaded and credentials  *)
(* are withdrawn.                                                          *)
(*                                                                         *)
(* Every step of a request is one look at, or change of, what is shared,   *)
(* each under a lock of its own. What ClientManager.tla shows in detail,   *)
(* how a client is opened and closed, is here one step.                    *)
(***************************************************************************)
EXTENDS Integers, FiniteSets

CONSTANTS
  Databases,    \* names, numbers in the order of the names
  Tokens,       \* credentials
  Requests,     \* requests in progress, each its own goroutine
  Catalogues,   \* the databases sections the configuration may have: the first
                \* entry, and of each whether users may have it and models too
  MaxOpens,     \* bound: clients of a session and database
  MaxRequests,  \* bound: requests in all
  MaxReloads,   \* bound: reloads
  Anyone,       \* the session key "default"
  None

\* The names are numbers, so that they have an order, and no name is a mark;
\* a configuration has a database, of which one is the first.
ASSUME NameAssumption ==
  /\ Databases \subseteq Nat
  /\ None \notin Databases \cup Tokens /\ Anyone \notin Tokens
ASSUME LimitAssumption == MaxOpens \in Nat
ASSUME CatalogueAssumption ==
  \A c \in Catalogues :
    DOMAIN c.entry \subseteq Databases /\ c.first \in DOMAIN c.entry

VARIABLES
  authEnabled,  \* authentication is on
  principal,    \* what each token is: a user's session, or an API token
  started,      \* the catalogue the server started with: cfg.Databases
  configs,      \* cm.dbConfigs and cm.defaultDBName
  known,        \* the tokens in the token store
  currentDB,    \* cm.currentDB
  open,         \* the clients that are open: session, database, and which
  opened,       \* how many there have been
  registries,   \* clientRegistries: the clients that have one
  req,          \* the requests, with what each has read
  promised,     \* what a session has been told its database is
  requests, reloads

vars == <<authEnabled, principal, started, configs, known, currentDB, open,
          opened, registries, req, promised, requests, reloads>>

Keys == Tokens \cup {Anyone}
Principals == [api : {FALSE}, bound : {None}] \cup [api : {TRUE}, bound : Databases \cup {None}]
Clients == Keys \X Databases \X (1 .. MaxOpens)

Kinds == {"tool", "resource", "mcp", "api", "llm"}
Selecting == {"mcp", "api", "llm"}

\* may, stale, promise: what the caller could reach since the request began,
\* whether anything else changed meanwhile, and what it had been promised.
Idle == [pc |-> "idle", token |-> None, kind |-> "tool", name |-> None,
         cur |-> None, seen |-> None, client |-> None, reply |-> "none",
         may |-> {}, stale |-> FALSE, gone |-> FALSE, promise |-> None]

Key(t) == IF authEnabled THEN t ELSE Anyone
KeyOf(r) == Key(req[r].token)

Goto(r, place) == [req EXCEPT ![r].pc = place]
Answer(r, what) == [req EXCEPT ![r] = [Idle EXCEPT !.reply = what]]

Busy(r) == req[r].pc # "idle"

(***************************************************************************)
(* Access                                                                  *)
(***************************************************************************)

\* A token that is no longer in the store has no binding that can be found.
GetBoundDatabase(t) ==
  IF principal[t].api /\ t \in known THEN principal[t].bound ELSE None

CanAccessDatabase(t, entry) == ~authEnabled \/ principal[t].api \/ entry.open

\* Mutant: an API token has what its users have.
GetAccessibleDatabases_Unbound(t, c) ==
  {d \in DOMAIN c.entry : CanAccessDatabase(t, c.entry[d])}

GetAccessibleDatabases(t, c) ==
  {d \in DOMAIN c.entry :
     /\ CanAccessDatabase(t, c.entry[d])
     /\ authEnabled /\ GetBoundDatabase(t) # None => d = GetBoundDatabase(t)}

First(S) == CHOOSE d \in S : \A e \in S : d <= e

\* What the token may reach by its kind and its binding, in the store or not.
Allowed(t, c) ==
  {d \in DOMAIN c.entry :
     CanAccessDatabase(t, c.entry[d]) /\ (authEnabled => principal[t].bound \in {None, d})}

GetCurrentDatabase(k) == IF currentDB[k] # None THEN currentDB[k] ELSE configs.first

Init ==
  /\ authEnabled \in BOOLEAN
  /\ principal \in [Tokens -> Principals]
  /\ started \in Catalogues
  /\ configs = started
  /\ known = Tokens
  /\ currentDB = [k \in Keys |-> None]
  /\ open = {}
  /\ opened = [kd \in Keys \X Databases |-> 0]
  /\ registries = {}
  /\ req = [r \in Requests |-> Idle]
  /\ promised = [k \in Keys |-> None]
  /\ requests = 0
  /\ reloads = 0

(***************************************************************************)
(* Requests for a tool or a resource                                       *)
(***************************************************************************)

\* A request with a credential that is accepted.
Arrive(r) ==
  /\ ~Busy(r)
  /\ requests < MaxRequests
  /\ \E t \in known, kind \in Kinds, d \in Databases :
       /\ kind \notin Selecting => d = First(Databases)
       /\ req' = [req EXCEPT ![r] =
            [Idle EXCEPT !.pc = IF kind \in Selecting THEN "check" ELSE "current",
                         !.token = t, !.kind = kind,
                         !.name = IF kind \in Selecting THEN d ELSE None,
                         !.may = Allowed(t, configs), !.promise = promised[Key(t)]]]
  /\ requests' = requests + 1
  /\ UNCHANGED <<authEnabled, principal, started, configs, known, currentDB,
                 open, opened, registries, promised, reloads>>

ReadCurrent(r) ==
  /\ req[r].pc = "current"
  /\ req' = [req EXCEPT ![r].cur = GetCurrentDatabase(KeyOf(r)),
                        ![r].pc = IF authEnabled THEN "configs" ELSE "client"]
  /\ UNCHANGED <<authEnabled, principal, started, configs, known, currentDB,
                 open, opened, registries, promised, requests, reloads>>

ReadConfigs(r) ==
  /\ req[r].pc = "configs"
  /\ req' = [req EXCEPT ![r].seen = configs, ![r].pc = "access"]
  /\ UNCHANGED <<authEnabled, principal, started, configs, known, currentDB,
                 open, opened, registries, promised, requests, reloads>>

\* The token's binding, and with it what it has access to; a database that
\* it has not is replaced by the first that it has.
CheckAccess(r) ==
  /\ req[r].pc = "access"
  /\ LET accessible == GetAccessibleDatabases(req[r].token, req[r].seen)
     IN req' = IF accessible = {} THEN Answer(r, "denied")
               ELSE IF req[r].cur \in accessible THEN Goto(r, "client")
               ELSE [req EXCEPT ![r].cur = First(accessible), ![r].pc = "prefer"]
  /\ UNCHANGED <<authEnabled, principal, started, configs, known, currentDB,
                 open, opened, registries, promised, requests, reloads>>

\* That one becomes the session's, unless it is configured no longer.
Prefer(r) ==
  /\ req[r].pc = "prefer"
  /\ currentDB' = IF req[r].cur \in DOMAIN configs.entry
                  THEN [currentDB EXCEPT ![KeyOf(r)] = req[r].cur] ELSE currentDB
  /\ req' = [q \in Requests |->
       IF q = r THEN [req[q] EXCEPT !.pc = "client"]
       ELSE IF Busy(q) /\ KeyOf(q) = KeyOf(r) THEN [req[q] EXCEPT !.stale = TRUE]
       ELSE req[q]]
  /\ UNCHANGED <<authEnabled, principal, started, configs, known, open, opened,
                 registries, promised, requests, reloads>>

Serving(k, d) == {c \in open : c[1] = k /\ c[2] = d}

\* What is next once there is a client: a resource has no registry.
Onward(r) ==
  CASE req[r].kind = "tool" -> "registry"
    [] req[r].kind = "llm" -> "set"
    [] OTHER -> "execute"

\* GetClientForDatabase: one that is open already, or the configuration for
\* a new one.
FindClient(r) ==
  /\ req[r].pc = "client"
  /\ LET found == Serving(KeyOf(r), req[r].cur)
     IN req' = IF found # {}
               THEN [req EXCEPT ![r].client = CHOOSE c \in found : TRUE,
                                ![r].pc = Onward(r)]
               ELSE IF req[r].cur \notin DOMAIN configs.entry THEN Answer(r, "failed")
               ELSE Goto(r, "open")
  /\ UNCHANGED <<authEnabled, principal, started, configs, known, currentDB,
                 open, opened, registries, promised, requests, reloads>>

\* Another may have opened one meanwhile; the database may not answer.
OpenClient(r) ==
  /\ req[r].pc = "open"
  /\ LET k == KeyOf(r)
         d == req[r].cur
         n == opened[<<k, d>>] + 1
     IN \/ /\ Serving(k, d) # {}
           /\ req' = [req EXCEPT ![r].client = CHOOSE c \in Serving(k, d) : TRUE,
                                 ![r].pc = Onward(r)]
           /\ UNCHANGED <<open, opened>>
        \/ /\ Serving(k, d) = {}
           /\ n <= MaxOpens
           /\ open' = open \cup {<<k, d, n>>}
           /\ opened' = [opened EXCEPT ![<<k, d>>] = n]
           /\ req' = [req EXCEPT ![r].client = <<k, d, n>>, ![r].pc = Onward(r)]
        \/ /\ Serving(k, d) = {}
           /\ req' = Answer(r, "failed")
           /\ UNCHANGED <<open, opened>>
  /\ UNCHANGED <<authEnabled, principal, started, configs, known, currentDB,
                 registries, promised, requests, reloads>>

\* A client that has been closed and whose registry is there loses it; the
\* tools of the base registry that is used in its place have no client. A look
\* under the read lock that misses decides nothing, the one under the write
\* lock looks again; so the step is that of the look that settles it.
FindRegistry(r) ==
  /\ req[r].pc = "registry"
  /\ IF req[r].client \in registries \ open
     THEN /\ registries' = registries \ {req[r].client}
          /\ req' = Answer(r, "panic")
     ELSE /\ registries' = registries \cup {req[r].client}
          /\ req' = Goto(r, "execute")
  /\ UNCHANGED <<authEnabled, principal, started, configs, known, currentDB,
                 open, opened, promised, requests, reloads>>

\* The handler runs; a client closed meanwhile has no pool.
Execute(r) ==
  /\ req[r].pc = "execute"
  /\ req' = Answer(r, IF req[r].client \in open THEN "ok" ELSE "failed")
  /\ UNCHANGED <<authEnabled, principal, started, configs, known, currentDB,
                 open, opened, registries, promised, requests, reloads>>

(***************************************************************************)
(* Selecting a database                                                    *)
(***************************************************************************)

\* The ways differ in the configuration they look at and in what they check.
Accepted(r) ==
  LET q == req[r]
      c == IF q.kind = "llm" THEN started ELSE configs
  IN /\ q.name \in DOMAIN c.entry
     /\ authEnabled => CanAccessDatabase(q.token, c.entry[q.name])
     /\ authEnabled /\ q.kind # "mcp" => GetBoundDatabase(q.token) \in {None, q.name}
     /\ q.kind = "llm" => c.entry[q.name].llm

\* The tool connects before it switches.
CheckSelection(r) ==
  /\ req[r].pc = "check"
  /\ req' = IF ~Accepted(r) THEN Answer(r, "denied")
            ELSE IF req[r].kind = "llm"
                 THEN [req EXCEPT ![r].cur = req[r].name, ![r].pc = "client"]
            ELSE Goto(r, "set")
  /\ UNCHANGED <<authEnabled, principal, started, configs, known, currentDB,
                 open, opened, registries, promised, requests, reloads>>

\* The API selects nothing for a caller without a credential.
Sets(r) == req[r].kind # "api" \/ authEnabled

\* Selecting by the protocol closes the session's other clients.
Closed(r) ==
  IF req[r].kind = "mcp"
  THEN {c \in open : c[1] = KeyOf(r) /\ c[2] # req[r].name} ELSE {}

\* The session is told: whatever else it has in progress no longer is.
Told(r, p) ==
  [q \in Requests |->
     IF q = r THEN [Idle EXCEPT !.reply = "ok"]
     ELSE IF Busy(q) /\ KeyOf(q) = KeyOf(r)
          THEN [p[q] EXCEPT !.promise = None, !.stale = TRUE]
     ELSE p[q]]

Alone(r) == \A q \in Requests \ {r} : Busy(q) => KeyOf(q) # KeyOf(r)

\* Mutant: the other clients are closed and the session's database kept.
Select_KeepsCurrent(r) ==
  /\ req[r].pc = "set"
  /\ IF Sets(r) /\ req[r].name \notin DOMAIN configs.entry
     THEN req' = Answer(r, "failed") /\ UNCHANGED <<open, currentDB, promised>>
     ELSE /\ open' = open \ Closed(r)
          /\ UNCHANGED currentDB
          /\ req' = Told(r, req)
          /\ promised' = [promised EXCEPT ![KeyOf(r)] =
               IF Alone(r) /\ ~req[r].stale THEN req[r].name ELSE None]
  /\ UNCHANGED <<authEnabled, principal, started, configs, known, opened,
                 registries, requests, reloads>>

Select(r) ==
  /\ req[r].pc = "set"
  /\ IF Sets(r) /\ req[r].name \notin DOMAIN configs.entry
     THEN req' = Answer(r, "failed") /\ UNCHANGED <<open, currentDB, promised>>
     ELSE /\ open' = open \ Closed(r)
          /\ currentDB' = IF Sets(r) THEN [currentDB EXCEPT ![KeyOf(r)] = req[r].name]
                          ELSE currentDB
          /\ req' = Told(r, req)
          /\ promised' = [promised EXCEPT ![KeyOf(r)] =
               IF Alone(r) /\ ~req[r].stale THEN req[r].name ELSE None]
  /\ UNCHANGED <<authEnabled, principal, started, configs, known, opened,
                 registries, requests, reloads>>

(***************************************************************************)
(* What happens meanwhile                                                  *)
(***************************************************************************)

\* A change that a request in progress may or may not see.
Disturbed(c, gone) ==
  [r \in Requests |->
     IF ~Busy(r) THEN req[r]
     ELSE [req[r] EXCEPT !.stale = TRUE, !.promise = None,
             !.gone = @ \/ req[r].token \in gone,
             !.may = @ \cup Allowed(req[r].token, c)]]

\* SIGHUP: a database that is gone is closed, and is replaced by the default
\* in the sessions that have clients; one whose settings differ is closed.
Reload ==
  /\ reloads < MaxReloads
  /\ \E c \in Catalogues \ {configs}, changed \in SUBSET DOMAIN configs.entry :
       LET gone == DOMAIN configs.entry \ DOMAIN c.entry
           held == {k \in Keys : \E x \in Clients : x \in open /\ x[1] = k}
       IN /\ configs' = c
          /\ open' = {x \in open : x[2] \notin gone \cup changed}
          /\ currentDB' = [k \in Keys |->
               IF k \in held /\ currentDB[k] \in gone THEN c.first ELSE currentDB[k]]
          /\ req' = Disturbed(c, {})
  /\ promised' = [k \in Keys |-> None]
  /\ reloads' = reloads + 1
  /\ UNCHANGED <<authEnabled, principal, started, known, opened, registries, requests>>

\* A token leaves the store; its clients are released after that.
Withdraw(t) ==
  /\ authEnabled
  /\ t \in known
  /\ principal[t].api
  /\ known' = known \ {t}
  /\ req' = Disturbed(configs, {t})
  /\ promised' = [promised EXCEPT ![t] = None]
  /\ UNCHANGED <<authEnabled, principal, started, configs, currentDB, open,
                 opened, registries, requests, reloads>>

Release(t) ==
  /\ t \in Tokens \ known
  /\ \E c \in open : c[1] = t
  /\ open' = {c \in open : c[1] # t}
  /\ currentDB' = [currentDB EXCEPT ![t] = None]
  /\ UNCHANGED <<authEnabled, principal, started, configs, known, opened,
                 registries, req, promised, requests, reloads>>

Proceed(r) ==
  \/ ReadCurrent(r) \/ ReadConfigs(r) \/ CheckAccess(r) \/ Prefer(r)
  \/ FindClient(r) \/ OpenClient(r) \/ FindRegistry(r) \/ Execute(r)
  \/ CheckSelection(r) \/ Select(r)

Next ==
  \/ \E r \in Requests : Arrive(r) \/ Proceed(r)
  \/ \E t \in Tokens : Withdraw(t) \/ Release(t)
  \/ Reload

Spec == Init /\ [][Next]_vars

(***************************************************************************)
(* What is listed                                                          *)
(***************************************************************************)

\* pgedge/listDatabases over HTTP.
ListedCurrent(t) ==
  LET accessible == GetAccessibleDatabases(t, configs)
  IN IF GetCurrentDatabase(Key(t)) \in accessible \/ accessible = {}
     THEN GetCurrentDatabase(Key(t)) ELSE First(accessible)

\* list_database_connections.
LLMAccessible(t) ==
  {d \in GetAccessibleDatabases(t, configs) : configs.entry[d].llm}
EffectiveCurrentDB(t) ==
  IF GetCurrentDatabase(Key(t)) \in LLMAccessible(t) THEN GetCurrentDatabase(Key(t))
  ELSE None

\* GET /api/databases, which knows no session but a credential's.
ApiCurrent(t) == IF authEnabled THEN GetCurrentDatabase(t) ELSE configs.first

(***************************************************************************)
(* Correctness                                                             *)
(***************************************************************************)

TypeOK ==
  /\ authEnabled \in BOOLEAN
  /\ principal \in [Tokens -> Principals]
  /\ started \in Catalogues /\ configs \in Catalogues
  /\ known \in SUBSET Tokens
  /\ currentDB \in [Keys -> Databases \cup {None}]
  /\ open \in SUBSET Clients /\ registries \in SUBSET Clients
  /\ opened \in [Keys \X Databases -> Nat]
  /\ \A r \in Requests :
       /\ req[r].pc \in {"idle", "current", "configs", "access", "prefer", "client",
                         "open", "registry", "execute", "check", "set"}
       /\ req[r].reply \in {"none", "ok", "failed", "denied", "panic"}
       /\ req[r].client \in Clients \cup {None}
  /\ promised \in [Keys -> Databases \cup {None}]

Running(r) == req[r].pc \in {"registry", "execute"} /\ req[r].kind \in {"tool", "resource"}

\* A tool runs on a database its caller had access to at some time since the
\* request began, whatever was selected, reloaded or removed meanwhile. A
\* token taken out of the store during the request is the exception, which
\* BoundStays is about; without authentication a session may keep a database
\* that is configured no longer.
RunsWhereAllowed ==
  authEnabled => \A r \in Requests :
    Running(r) /\ ~req[r].gone => req[r].client[2] \in req[r].may

\* An API token bound to a database never has a tool run on another one.
\* Not so in the code: see the README.
BoundStays ==
  authEnabled => \A r \in Requests :
    Running(r) => principal[req[r].token].bound \in {None, req[r].client[2]}

\* After a selection was answered with success, the session's tools run on the
\* database it named until something else is selected, reloaded or withdrawn,
\* if it is one that the caller has access to. Without authentication the API
\* answers so and selects nothing, which EverySelectionHolds is about.
SelectionKept ==
  authEnabled => \A r \in Requests :
    Running(r) /\ req[r].promise \in Allowed(req[r].token, configs)
      => req[r].client[2] = req[r].promise

\* The same of every selection that was answered with success.
\* Not so in the code: see the README.
EverySelectionHolds ==
  \A r \in Requests :
    Running(r) /\ req[r].promise # None => req[r].client[2] = req[r].promise

\* A tool is never run without a client.
\* Not so in the code: see the README.
FailsGracefully == \A r \in Requests : req[r].reply # "panic"

\* What a caller is shown as its current database while it has a tool running,
\* and nothing else has happened since the call, is the one the tool runs on.
\* Without authentication, see RunsWhereAllowed and ApiCurrent.
ListedIsUsed ==
  authEnabled => \A r \in Requests :
    LET t == req[r].token IN
    Running(r) /\ ~req[r].stale =>
      {ListedCurrent(t), EffectiveCurrentDB(t), ApiCurrent(t)} \subseteq {req[r].client[2], None}

\* The database a session was told it has is the one its next request uses,
\* and the one it is shown.
SelectionHolds == TypeOK /\ SelectionKept /\ ListedIsUsed

(***************************************************************************)
(* The inductive invariant behind them, of a server with authentication    *)
(***************************************************************************)

Steps == {"idle", "current", "configs", "access", "prefer", "client", "open",
          "registry", "execute", "check", "set"}
Request ==
  [pc : Steps, token : Tokens \cup {None}, kind : Kinds, name : Databases \cup {None},
   cur : Databases \cup {None}, seen : Catalogues \cup {None},
   client : Clients \cup {None}, reply : {"none", "ok", "failed", "denied", "panic"},
   may : SUBSET Databases, stale : BOOLEAN, gone : BOOLEAN,
   promise : Databases \cup {None}]

\* A request under way has a credential, and what it has read by its step.
Sound(q) ==
  /\ q.pc # "idle" => q.token \in Tokens
  /\ q.pc \in {"check", "set"} => q.kind \in Selecting /\ q.name \in Databases
  /\ q.pc \in {"current", "configs", "access", "prefer", "registry", "execute"}
       => q.kind \notin Selecting
  /\ q.pc \in {"configs", "access", "prefer", "client", "open", "registry", "execute"}
       => q.cur \in Databases
  /\ q.pc = "access" => q.seen \in Catalogues
  /\ q.pc \in {"client", "open"} /\ q.kind \in Selecting
       => q.kind = "llm" /\ q.name \in Databases
  /\ q.pc \in {"registry", "execute"} => q.client \in Clients
RequestsOK == req \in [Requests -> Request] /\ \A r \in Requests : Sound(req[r])

\* A request that uses a database, as against one that selects one.
Using(r) == Busy(r) /\ req[r].kind \notin Selecting

\* What a request has chosen it may reach; a credential that has gone since is
\* marked.
ChoiceOK(r) ==
  /\ Allowed(req[r].token, configs) \subseteq req[r].may
  /\ req[r].token \notin known => req[r].gone
  /\ req[r].gone => req[r].stale
  /\ req[r].pc = "access" => Allowed(req[r].token, req[r].seen) \subseteq req[r].may
  /\ Using(r) /\ req[r].pc \in {"prefer", "client", "open", "registry", "execute"}
       => req[r].gone \/ req[r].cur \in req[r].may
  /\ Running(r) => req[r].client[2] = req[r].cur

\* While nothing else has happened, what a request has read is so, and its
\* choice is the session's.
ReadOK(r) ==
  LET t == req[r].token IN
  Using(r) /\ ~req[r].stale =>
    /\ req[r].pc = "access" => req[r].seen = configs
    /\ req[r].pc \in {"configs", "access"} => req[r].cur = GetCurrentDatabase(t)
    /\ req[r].pc \in {"prefer", "client", "open", "registry", "execute"}
         => req[r].cur \in GetAccessibleDatabases(t, configs)
    /\ req[r].pc \in {"client", "open", "registry", "execute"}
         => req[r].cur = GetCurrentDatabase(t)

\* What a session has been told, if it can be had, is what it has, and what
\* each of its requests has chosen.
KeptOK(r) ==
  LET t == req[r].token IN
  /\ req[r].promise \in {None, promised[t]}
  /\ Using(r) /\ promised[t] # None /\ promised[t] \in Allowed(t, configs) =>
       /\ req[r].pc # "prefer"
       /\ req[r].pc = "access" => req[r].seen = configs
       /\ req[r].pc # "current" => req[r].cur = promised[t]
SessionOK(t) ==
  promised[t] # None =>
    /\ t \in known
    /\ promised[t] \in Allowed(t, configs) => currentDB[t] = promised[t]

AuthInv ==
  /\ \A r \in Requests : Busy(r) => ChoiceOK(r) /\ ReadOK(r) /\ KeptOK(r)
  /\ \A t \in Tokens : SessionOK(t)
RouteInv == TypeOK /\ RequestsOK /\ (authEnabled => AuthInv)
=============================================================================

--------------------------- MODULE ClientManager ---------------------------
(***************************************************************************)
(* The per-token database connections of internal/database: ClientManager  *)
(* keeps, for each token, one Client (a connection pool) per database, and *)
(* the database the token is working with. Tool calls look clients up and  *)
(* create them; SIGHUP replaces the database configurations; tokens expire *)
(* or are revoked, and their clients are released in the background.       *)
(*                                                                         *)
(* Every operation runs under cm.mu, so it is one step, unless it closes   *)
(* clients: Client.Close waits, holding c.mu, for every connection checked *)
(* out of the pool, and some operations wait for it with cm.mu held.       *)
(* closing[k] is what closer k has yet to close, waiting[k] the client it  *)
(* is waiting for; the closer named Mu is the operation that holds cm.mu.  *)
(* What an operation writes under cm.mu is seen by no other until it lets  *)
(* go, so it is written when the operation starts.                         *)
(*                                                                         *)
(* Data abstracted: a configuration is the number of the load it last      *)
(* changed in, all databaseConfigChanged tells apart; the first accessible *)
(* database by name is any accessible one. The sessions are those of HTTP  *)
(* with authentication; SetClient, SetClientForDatabase, GetClient and     *)
(* GetOrCreateClient have no caller once the server runs, and CloseAll     *)
(* runs as it stops.                                                       *)
(***************************************************************************)
EXTENDS Integers, FiniteSets

CONSTANTS
  Requests,     \* tool-call goroutines
  Tokens,       \* token hashes, the keys of cm.clients
  Databases,    \* database names
  Clients,      \* clients that may be created; no more connections succeed
  Access,       \* the databases each token may use
  Slow,         \* tokens whose queries may run for ever
  MaxReloads,   \* bound: a reload changes the configurations this often
  None,         \* the absent value
  NoName,       \* the empty database name
  Mu            \* the closer that holds cm.mu

ASSUME ReloadAssumption == MaxReloads \in Nat
ASSUME NameAssumption ==
  /\ None \notin Databases \cup Clients \cup Tokens \cup {NoName}
  /\ NoName \notin Databases
  /\ Mu \notin Tokens
  /\ Slow \subseteq Tokens
  /\ Access \in [Tokens -> SUBSET Databases]

VARIABLES
  configs,      \* cm.dbConfigs
  default,      \* cm.defaultDBName
  current,      \* cm.currentDB
  entry,        \* tokens with an entry in cm.clients
  clients,      \* cm.clients
  conn,         \* the clients created: whose, where to, open, who queries
  closing,      \* clients each closer has yet to close
  waiting,      \* the client whose Close each closer is in
  standing,     \* tokens: live, revoked, or handed to RemoveClients
  pc,           \* where each request is
  req,          \* its local variables
  loads,        \* reloads that changed something so far
  overtaken,    \* history: clients created from a configuration replaced
  late          \* history: clients created for a token already removed

managerVars == <<configs, default, current, entry, clients>>
closeVars   == <<closing, waiting>>
requestVars == <<pc, req>>
histVars    == <<overtaken, late>>
vars == <<managerVars, conn, closeVars, standing, requestVars, loads, histVars>>

Names    == Databases \cup {NoName}
Versions == 0 .. MaxReloads
Closers  == Tokens \cup {Mu}

Connection == [token : Tokens, db : Databases, version : Versions,
               open : BOOLEAN, queries : SUBSET Requests]

\* The absent entry is no entry, and no configuration.
ASSUME ConnectionAssumption == None \notin Connection /\ None \notin Versions

Request == [token : Tokens \cup {None}, db : Names, version : Versions,
            client : Clients \cup {None}, switch : BOOLEAN]

NoRequest == [token |-> None, db |-> NoName, version |-> 0, client |-> None,
              switch |-> FALSE]

PC == {"idle", "current", "access", "prefer", "lookup", "create", "use",
       "query", "select"}

Configured == {d \in Databases : configs[d] # None}
Made       == {c \in Clients : conn[c] # None}
Opened     == {c \in Made : conn[c].open}
Mapped     == {clients[t][d] : t \in Tokens, d \in Databases} \ {None}

\* No operation holds cm.mu while it waits for a client to close.
Unlocked == closing[Mu] = {} /\ waiting[Mu] = None

Goto(r, place, locals) ==
  /\ pc' = [pc EXCEPT ![r] = place]
  /\ req' = [req EXCEPT ![r] = locals]

Finish(r) == Goto(r, "idle", NoRequest)

(***************************************************************************)
(* Tool calls: getClient, and the tool and endpoints that switch database. *)
(***************************************************************************)

\* A validated request comes in: a tool call, a switch of database by the
\* tool, which connects first, or by the API, which does not.
Begin(r, t) ==
  /\ pc[r] = "idle"
  /\ standing[t] = "live"
  /\ \/ Goto(r, "current", [NoRequest EXCEPT !.token = t])
     \/ \E d \in Access[t] :
          Goto(r, "lookup", [NoRequest EXCEPT !.token = t, !.db = d,
                                              !.switch = TRUE])
     \/ \E d \in Access[t] :
          Goto(r, "select", [NoRequest EXCEPT !.token = t, !.db = d])
  /\ UNCHANGED <<managerVars, conn, closeVars, standing, loads, histVars>>

\* GetCurrentDatabase.
ReadCurrent(r) ==
  LET t == req[r].token IN
  /\ pc[r] = "current"
  /\ Unlocked
  /\ Goto(r, "access", [req[r] EXCEPT
       !.db = IF current[t] = None THEN default ELSE current[t]])
  /\ UNCHANGED <<managerVars, conn, closeVars, standing, loads, histVars>>

\* GetDatabaseConfigs, and the choice of a database the token may use.
CheckAccess(r) ==
  LET accessible == Configured \cap Access[req[r].token] IN
  /\ pc[r] = "access"
  /\ Unlocked
  /\ \/ /\ accessible = {}
        /\ Finish(r)
     \/ /\ req[r].db \in accessible
        /\ Goto(r, "lookup", req[r])
     \/ /\ req[r].db \notin accessible
        /\ \E d \in accessible : Goto(r, "prefer", [req[r] EXCEPT !.db = d])
  /\ UNCHANGED <<managerVars, conn, closeVars, standing, loads, histVars>>

\* SetCurrentDatabase.
SetCurrent(t, d) ==
  current' = IF d \in Configured THEN [current EXCEPT ![t] = d] ELSE current

\* The choice is remembered, if it can be: the call goes on regardless.
Prefer(r) ==
  /\ pc[r] = "prefer"
  /\ Unlocked
  /\ SetCurrent(req[r].token, req[r].db)
  /\ Goto(r, "lookup", req[r])
  /\ UNCHANGED <<configs, default, entry, clients, conn, closeVars, standing,
                 loads, histVars>>

\* GetClientForDatabase finds an open client in the token's slot.
Found(r) ==
  LET c == clients[req[r].token][req[r].db]
  IN  c # None /\ conn[c].open

FoundClient(r) ==
  Goto(r, "use", [req[r] EXCEPT !.client = clients[req[r].token][req[r].db]])

\* GetClientForDatabase, under the read lock: the configuration read here is
\* the one a client will be created from.
Lookup(r) ==
  LET d == req[r].db IN
  /\ pc[r] = "lookup"
  /\ Unlocked
  /\ \/ Found(r) /\ FoundClient(r)
     \/ ~Found(r) /\ configs[d] = None /\ Finish(r)
     \/ ~Found(r) /\ configs[d] # None
          /\ Goto(r, "create", [req[r] EXCEPT !.version = configs[d]])
  /\ UNCHANGED <<managerVars, conn, closeVars, standing, loads, histVars>>

Connect(r, c) ==
  LET t == req[r].token
      d == req[r].db
  IN
  /\ c \notin Made
  /\ conn' = [conn EXCEPT ![c] = [token |-> t, db |-> d,
       version |-> req[r].version, open |-> TRUE, queries |-> {}]]
  /\ entry' = entry \cup {t}
  /\ clients' = [clients EXCEPT ![t] = [@ EXCEPT ![d] = c]]
  /\ overtaken' = IF configs[d] # req[r].version THEN overtaken \cup {c}
                                                 ELSE overtaken
  /\ late' = IF standing[t] = "removed" THEN late \cup {c} ELSE late
  /\ Goto(r, "use", [req[r] EXCEPT !.client = c])

\* Mutant: no second look once the write lock is held.
Create_Unchecked(r) ==
  /\ pc[r] = "create"
  /\ Unlocked
  /\ \/ Finish(r) /\ UNCHANGED <<entry, clients, conn, histVars>>
     \/ \E c \in Clients : Connect(r, c)
  /\ UNCHANGED <<configs, default, current, closeVars, standing, loads>>

\* GetClientForDatabase, under the write lock: another request may have
\* created the client meanwhile; connecting, or loading metadata, may fail.
Create(r) ==
  /\ pc[r] = "create"
  /\ Unlocked
  /\ \/ /\ Found(r)
        /\ FoundClient(r)
        /\ UNCHANGED <<entry, clients, conn, histVars>>
     \/ /\ ~Found(r)
        /\ Finish(r)
        /\ UNCHANGED <<entry, clients, conn, histVars>>
     \/ /\ ~Found(r)
        /\ \E c \in Clients : Connect(r, c)
  /\ UNCHANGED <<configs, default, current, closeVars, standing, loads>>

\* The call checks a connection out of its client's pool. A client closed
\* since refuses it, once Close lets go of c.mu. A switch checks none out.
Use(r) ==
  LET c == req[r].client IN
  /\ pc[r] = "use"
  /\ \/ /\ req[r].switch
        /\ Goto(r, "select", req[r])
        /\ UNCHANGED conn
     \/ /\ ~req[r].switch
        /\ conn[c].open
        /\ conn' = [conn EXCEPT ![c].queries = @ \cup {r}]
        /\ Goto(r, "query", req[r])
     \/ /\ ~req[r].switch
        /\ ~conn[c].open
        /\ conn[c].queries = {}
        /\ Finish(r)
        /\ UNCHANGED conn
  /\ UNCHANGED <<managerVars, closeVars, standing, loads, histVars>>

\* The query ends and its connection goes back to the pool.
EndQuery(r) ==
  /\ pc[r] = "query"
  /\ conn' = [conn EXCEPT ![req[r].client].queries = @ \ {r}]
  /\ Finish(r)
  /\ UNCHANGED <<managerVars, closeVars, standing, loads, histVars>>

\* SetCurrentDatabase, as the last step of a switch.
Select(r) ==
  /\ pc[r] = "select"
  /\ Unlocked
  /\ SetCurrent(req[r].token, req[r].db)
  /\ Finish(r)
  /\ UNCHANGED <<configs, default, entry, clients, conn, closeVars, standing,
                 loads, histVars>>

(***************************************************************************)
(* Operations that close clients.                                          *)
(***************************************************************************)

\* The operation now holding cm.mu is about to close the clients in C.
CloseLocked(C) ==
  /\ closing' = [closing EXCEPT ![Mu] = C]
  /\ UNCHANGED waiting

\* SetCurrentDatabaseAndCloseOthers, for the session's SelectDatabase.
SelectAndCloseOthers(t, d) ==
  /\ standing[t] = "live"
  /\ Unlocked
  /\ d \in Configured \cap Access[t]
  /\ CloseLocked({clients[t][o] : o \in Databases \ {d}} \ {None})
  /\ clients' = [clients EXCEPT ![t] =
       [o \in Databases |-> IF o = d THEN @[o] ELSE None]]
  /\ SetCurrent(t, d)
  /\ UNCHANGED <<configs, default, entry, conn, standing, requestVars, loads,
                 histVars>>

\* Mutant: only a removed database ends its connections.
Ended_RemovedOnly(new) == {d \in Configured : new[d] = None}

\* Databases whose connections a new list of configurations ends: those it
\* removes, and those databaseConfigChanged finds changed.
Ended(new) == {d \in Configured : new[d] # configs[d]}

\* UpdateDatabaseConfigs, from the SIGHUP listener. A token's current
\* database is corrected while walking cm.clients, so only for its keys.
Reload(new, first) ==
  /\ Unlocked
  /\ new # configs => loads < MaxReloads
  /\ \A d \in Databases : new[d] \in {None, configs[d], loads + 1}
  /\ IF \A d \in Databases : new[d] = None THEN first = NoName
     ELSE first \in Databases /\ new[first] # None
  /\ loads' = IF new = configs THEN loads ELSE loads + 1
  /\ CloseLocked({clients[t][d] : t \in Tokens, d \in Ended(new)} \ {None})
  /\ clients' = [t \in Tokens |-> [d \in Databases |->
       IF d \in Ended(new) THEN None ELSE clients[t][d]]]
  /\ current' = [t \in Tokens |->
       IF /\ t \in entry
          /\ current[t] \in Configured
          /\ new[current[t]] = None
       THEN first ELSE current[t]]
  /\ configs' = new
  /\ default' = first
  /\ UNCHANGED <<entry, conn, standing, requestVars, histVars>>

\* The token store or the OAuth store drops the token; the goroutine that
\* releases its clients has yet to run.
Revoke(t) ==
  /\ standing[t] = "live"
  /\ standing' = [standing EXCEPT ![t] = "revoked"]
  /\ UNCHANGED <<managerVars, conn, closeVars, requestVars, loads, histVars>>

\* Mutant: the clients are closed without letting go of cm.mu.
RemoveClients_HoldsLock(T, k) ==
  /\ Unlocked
  /\ k \in T
  /\ \A t \in T : standing[t] = "revoked"
  /\ standing' = [t \in Tokens |-> IF t \in T THEN "removed" ELSE standing[t]]
  /\ CloseLocked({clients[t][d] : t \in T, d \in Databases} \ {None})
  /\ clients' = [t \in Tokens |-> IF t \in T \cap entry
       THEN [d \in Databases |-> None] ELSE clients[t]]
  /\ current' = [t \in Tokens |->
       IF t \in T \cap entry THEN None ELSE current[t]]
  /\ entry' = entry \ T
  /\ UNCHANGED <<configs, default, conn, requestVars, loads, histVars>>

\* Mutant: only the client of the token's current database is closed.
RemoveClients_CurrentOnly(T, k) ==
  /\ Unlocked
  /\ k \in T
  /\ \A t \in T : standing[t] = "revoked"
  /\ standing' = [t \in Tokens |-> IF t \in T THEN "removed" ELSE standing[t]]
  /\ closing' = [closing EXCEPT ![k] =
       {clients[t][current[t]] : t \in {u \in T : current[u] \in Databases}}
         \ {None}]
  /\ clients' = [t \in Tokens |-> IF t \in T \cap entry
       THEN [d \in Databases |-> None] ELSE clients[t]]
  /\ current' = [t \in Tokens |->
       IF t \in T \cap entry THEN None ELSE current[t]]
  /\ entry' = entry \ T
  /\ UNCHANGED <<configs, default, conn, waiting, requestVars, loads, histVars>>

\* RemoveClients, for the tokens T revoked together: the clients are detached
\* under cm.mu, and left to a closer, named after one of T, without it.
RemoveClients(T, k) ==
  /\ Unlocked
  /\ k \in T
  /\ \A t \in T : standing[t] = "revoked"
  /\ standing' = [t \in Tokens |-> IF t \in T THEN "removed" ELSE standing[t]]
  /\ closing' = [closing EXCEPT ![k] =
       {clients[t][d] : t \in T, d \in Databases} \ {None}]
  /\ clients' = [t \in Tokens |-> IF t \in T \cap entry
       THEN [d \in Databases |-> None] ELSE clients[t]]
  /\ current' = [t \in Tokens |->
       IF t \in T \cap entry THEN None ELSE current[t]]
  /\ entry' = entry \ T
  /\ UNCHANGED <<configs, default, conn, waiting, requestVars, loads, histVars>>

\* Client.Close marks the client closed, then waits for its pool.
StartClose(k, c) ==
  /\ waiting[k] = None
  /\ c \in closing[k]
  /\ closing' = [closing EXCEPT ![k] = @ \ {c}]
  /\ waiting' = [waiting EXCEPT ![k] = c]
  /\ conn' = [conn EXCEPT ![c].open = FALSE]
  /\ UNCHANGED <<managerVars, standing, requestVars, loads, histVars>>

\* Mutant: Close does not wait for the connections checked out.
FinishClose_Hurried(k) ==
  /\ waiting[k] # None
  /\ waiting' = [waiting EXCEPT ![k] = None]
  /\ UNCHANGED <<managerVars, conn, closing, standing, requestVars, loads,
                 histVars>>

\* Every connection checked out has come back: Pool.Close returns.
FinishClose(k) ==
  /\ waiting[k] # None
  /\ conn[waiting[k]].queries = {}
  /\ waiting' = [waiting EXCEPT ![k] = None]
  /\ UNCHANGED <<managerVars, conn, closing, standing, requestVars, loads,
                 histVars>>

(***************************************************************************)
(* The system                                                              *)
(***************************************************************************)

Init ==
  /\ configs \in [Databases -> {None, 0}]
  /\ default \in IF Configured = {} THEN {NoName} ELSE Configured
  /\ current = [t \in Tokens |-> None]
  /\ entry = {}
  /\ clients = [t \in Tokens |-> [d \in Databases |-> None]]
  /\ conn = [c \in Clients |-> None]
  /\ closing = [k \in Closers |-> {}]
  /\ waiting = [k \in Closers |-> None]
  /\ standing = [t \in Tokens |-> "live"]
  /\ pc = [r \in Requests |-> "idle"]
  /\ req = [r \in Requests |-> NoRequest]
  /\ loads = 0
  /\ overtaken = {}
  /\ late = {}

RequestStep(r) ==
  \/ ReadCurrent(r) \/ CheckAccess(r) \/ Prefer(r)
  \/ Lookup(r) \/ Create(r) \/ Use(r) \/ Select(r)

Removal == \E T \in SUBSET Tokens : \E k \in T : RemoveClients(T, k)

Closing(k) == FinishClose(k) \/ \E c \in Clients : StartClose(k, c)

Next ==
  \/ \E r \in Requests : \/ \E t \in Tokens : Begin(r, t)
                         \/ RequestStep(r)
                         \/ EndQuery(r)
  \/ \E t \in Tokens : Revoke(t) \/ \E d \in Databases : SelectAndCloseOthers(t, d)
  \/ \E new \in [Databases -> Versions \cup {None}], first \in Names :
       Reload(new, first)
  \/ Removal
  \/ \E k \in Closers : Closing(k)

\* Every goroutine runs on; a query ends unless its token's are slow. A step
\* that needs cm.mu is enabled again and again, not always: sync.RWMutex
\* starves nobody, so strong fairness.
Fairness ==
  /\ \A r \in Requests :
       /\ SF_vars(RequestStep(r))
       /\ WF_vars(req[r].token \notin Slow /\ EndQuery(r))
  /\ SF_vars(Removal)
  /\ \A k \in Closers : WF_vars(Closing(k))

Spec     == Init /\ [][Next]_vars
FairSpec == Spec /\ Fairness

(***************************************************************************)
(* Properties                                                              *)
(***************************************************************************)

\* The variables keep to their types.
TypeOK ==
  /\ configs \in [Databases -> Versions \cup {None}]
  /\ default \in Names
  /\ current \in [Tokens -> Names \cup {None}]
  /\ entry \subseteq Tokens
  /\ clients \in [Tokens -> [Databases -> Clients \cup {None}]]
  /\ conn \in [Clients -> Connection \cup {None}]
  /\ closing \in [Closers -> SUBSET Clients]
  /\ waiting \in [Closers -> Clients \cup {None}]
  /\ standing \in [Tokens -> {"live", "revoked", "removed"}]
  /\ pc \in [Requests -> PC]
  /\ req \in [Requests -> Request]
  /\ loads \in Versions
  /\ overtaken \subseteq Clients
  /\ late \subseteq Clients

Awaited(c) == \E k \in Closers : c \in closing[k]

\* No connection pool is lost: whatever the interleaving of calls that
\* create the same client, reloads and removals, an open client is in the
\* map, where calls and cleanups find it, or some closer has it in hand.
NoOrphan ==
  \A c \in Opened : clients[conn[c].token][conn[c].db] = c \/ Awaited(c)

\* A slot of the map holds an open client of that token and that database:
\* a session is never handed another session's connections.
SlotsSound ==
  \A t \in Tokens, d \in Databases : clients[t][d] # None =>
    /\ clients[t][d] \in Opened
    /\ conn[clients[t][d]].token = t
    /\ conn[clients[t][d]].db = d
    /\ t \in entry

\* A pool is gone only once the last query on it has ended, so that Close,
\* from a reload or a removal, never ends a query in progress.
QueriesOutliveClose ==
  \A r \in Requests : pc[r] = "query" =>
    /\ req[r].client \in Made
    /\ \/ req[r].client \in Opened
       \/ \E k \in Closers : waiting[k] = req[r].client

\* After a reload the calls are served from the new configurations; an old
\* one survives only in a client whose creator had read it before the reload.
FreshUnlessOvertaken ==
  \A c \in Mapped : conn[c].version = configs[conn[c].db] \/ c \in overtaken

\* RemoveClients releases every client of a token, in whichever database;
\* only one created by a call that outlived the token can remain.
ReleasedUnlessLate ==
  \A c \in Opened :
    standing[conn[c].token] = "removed" => Awaited(c) \/ c \in late

\* Every call is served to its end, even though operations wait, holding
\* cm.mu, for queries to end.
Served == \A r \in Requests : pc[r] # "idle" ~> pc[r] = "idle"

\* Revoking a token whose query runs for ever holds up no other session:
\* RemoveClients closes outside the lock.
OthersServed ==
  \A r \in Requests, t \in Tokens \ Slow :
    (pc[r] # "idle" /\ req[r].token = t) ~> pc[r] = "idle"

\* The clients of a revoked token are closed in the end, but for those
\* created by calls that outlived it.
RevokedDrain ==
  \A t \in Tokens : standing[t] = "revoked" ~>
    /\ standing[t] = "removed"
    /\ \A c \in Made : conn[c].token = t =>
         c \in late \/ (~conn[c].open /\ conn[c].queries = {})

\* What the comment on UpdateDatabaseConfigs says: connections are recreated
\* with the new configuration, so that a client in the map is never stale.
MappedFresh == \A c \in Mapped : conn[c].version = configs[conn[c].db]

\* A request past its first step knows its token, and past the access check
\* its database; one that queries has its client and is counted there.
RequestsOK ==
  \A r \in Requests :
    /\ pc[r] # "idle" => req[r].token \in Tokens
    /\ pc[r] \notin {"idle", "current", "access"} => req[r].db \in Databases
    /\ pc[r] \in {"use", "query"} => req[r].client \in Made
    /\ pc[r] = "query" => r \in conn[req[r].client].queries

\* What is being closed is out of the map, and a closer named after a token
\* starts with the removal of that token.
ClosersOK ==
  /\ \A k \in Closers : closing[k] \subseteq Made \ Mapped
  /\ \A t \in Tokens : standing[t] # "removed" => closing[t] = {}

\* The inductive invariant of the manager.
PoolInv ==
  /\ TypeOK
  /\ RequestsOK
  /\ ClosersOK
  /\ SlotsSound
  /\ NoOrphan
  /\ QueriesOutliveClose
  /\ FreshUnlessOvertaken
=============================================================================

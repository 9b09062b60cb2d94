--------------------------- MODULE MetadataReload ---------------------------
(***************************************************************************)
(* The cached catalogue metadata of one connection of a database.Client:   *)
(* EnsureMetadataFor reloads it when its time to live has passed, one      *)
(* caller at a time, the others waiting for the outcome; tools also call   *)
(* LoadMetadataFor directly, after DDL among others, past that rule; and   *)
(* the client may be closed meanwhile.                                     *)
(*                                                                         *)
(* Each critical section under c.mu is one step, except Close, which waits *)
(* inside it for the catalogue queries on its pool to end. LoadMetadataFor *)
(* is four steps: find the connection, run the query, read its rows, write *)
(* the result. Data abstracted: the catalogue is a number, one up with     *)
(* every DDL statement; time is only whether the metadata is still valid.  *)
(***************************************************************************)
EXTENDS Integers, FiniteSets

CONSTANTS
  Callers,      \* goroutines that need metadata
  Records,      \* metadataReload records, reused once nobody holds them
  MaxSchema,    \* bound: DDL statements
  None          \* the absent value

ASSUME ReloadAssumption ==
  /\ MaxSchema \in Nat
  /\ None \notin Records

VARIABLES
  schema,       \* the catalogue, as the database has it
  metadata,     \* conn.Metadata: the catalogue it shows
  valid,        \* IsMetadataLoadedFor
  reload,       \* c.metadataReloads of this connection
  outcome,      \* each record: running until done is closed, then its err
  client,       \* open, closing (c.mu held by Close), or closed
  pc,           \* where each caller is
  req,          \* its local variables
  refreshed,    \* history: the newest DDL whose refresh has succeeded
  bypasses      \* history: 1 once a tool has called LoadMetadataFor itself

vars == <<schema, metadata, valid, reload, outcome, client, pc, req,
          refreshed, bypasses>>

Schemas  == 0 .. MaxSchema
Outcomes == {"running", "ok", "failed"}
PC == {"idle", "join", "recheck", "load", "query", "rows", "write", "finish",
       "publish", "wait"}

\* record: the attempt a caller leads or waits for; seen: the catalogue its
\* query saw; ddl: what its own DDL made of it; err: the load's outcome.
Local == [record : Records \cup {None}, seen : Schemas, ddl : Schemas,
          err : Outcomes]

NoLocal == [record |-> None, seen |-> 0, ddl |-> 0, err |-> "running"]

\* c.mu can be taken.
Unlocked == client # "closing"

Goto(u, place, locals) ==
  /\ pc' = [pc EXCEPT ![u] = place]
  /\ req' = [req EXCEPT ![u] = locals]

Return(u) == Goto(u, "idle", NoLocal)

\* The load is over: the leader of an attempt publishes its outcome.
Loaded(u, err) ==
  IF req[u].record = None THEN Return(u)
  ELSE Goto(u, "finish", [req[u] EXCEPT !.err = err])

(***************************************************************************)
(* EnsureMetadataFor                                                       *)
(***************************************************************************)

\* Valid metadata is all the caller needs.
Ensure(u) ==
  /\ pc[u] = "idle"
  /\ Unlocked
  /\ ~valid
  /\ Goto(u, "join", NoLocal)
  /\ UNCHANGED <<schema, metadata, valid, reload, outcome, client,
                 refreshed, bypasses>>

\* Records nobody holds a pointer to.
Free == {a \in Records : reload # a /\ \A u \in Callers : req[u].record # a}

\* Mutant: every caller leads an attempt of its own.
Join_AlwaysLeads(u) ==
  /\ pc[u] = "join"
  /\ Unlocked
  /\ \E a \in Free :
       /\ reload' = a
       /\ outcome' = [outcome EXCEPT ![a] = "running"]
       /\ Goto(u, "recheck", [req[u] EXCEPT !.record = a])
  /\ UNCHANGED <<schema, metadata, valid, client, refreshed, bypasses>>

\* joinMetadataReload.
Join(u) ==
  /\ pc[u] = "join"
  /\ Unlocked
  /\ \/ /\ reload # None
        /\ Goto(u, "wait", [req[u] EXCEPT !.record = reload])
        /\ UNCHANGED <<reload, outcome, refreshed, bypasses>>
     \/ /\ reload = None
        /\ \E a \in Free :
             /\ reload' = a
             /\ outcome' = [outcome EXCEPT ![a] = "running"]
             /\ Goto(u, "recheck", [req[u] EXCEPT !.record = a])
  /\ UNCHANGED <<schema, metadata, valid, client, refreshed, bypasses>>

\* Another leader may have reloaded between the check and the join.
Recheck(u) ==
  /\ pc[u] = "recheck"
  /\ Unlocked
  /\ IF valid THEN Loaded(u, "ok") ELSE Goto(u, "load", req[u])
  /\ UNCHANGED <<schema, metadata, valid, reload, outcome, client,
                 refreshed, bypasses>>

\* finishMetadataReload, under the lock: Close may have dropped the record.
FinishReload(u) ==
  /\ pc[u] = "finish"
  /\ Unlocked
  /\ reload' = IF reload = req[u].record THEN None ELSE reload
  /\ Goto(u, "publish", req[u])
  /\ UNCHANGED <<schema, metadata, valid, outcome, client, refreshed,
                 bypasses>>

\* close(r.done), after the lock.
Publish(u) ==
  /\ pc[u] = "publish"
  /\ outcome' = [outcome EXCEPT ![req[u].record] = req[u].err]
  /\ Return(u)
  /\ UNCHANGED <<schema, metadata, valid, reload, client, refreshed,
                 bypasses>>

\* A caller that does not lead returns what the leader published.
Wait(u) ==
  /\ pc[u] = "wait"
  /\ outcome[req[u].record] # "running"
  /\ Return(u)
  /\ UNCHANGED <<schema, metadata, valid, reload, outcome, client,
                 refreshed, bypasses>>

(***************************************************************************)
(* LoadMetadataFor                                                         *)
(***************************************************************************)

\* A tool that found no valid metadata loads it itself.
LoadDirectly(u) ==
  /\ pc[u] = "idle"
  /\ Unlocked
  /\ ~valid
  /\ Goto(u, "load", NoLocal)
  /\ bypasses' = 1
  /\ UNCHANGED <<schema, metadata, valid, reload, outcome, client, refreshed>>

\* query_database commits a DDL statement, then refreshes the metadata.
RefreshAfterDDL(u) ==
  /\ pc[u] = "idle"
  /\ client = "open"
  /\ schema < MaxSchema
  /\ schema' = schema + 1
  /\ Goto(u, "load", [NoLocal EXCEPT !.ddl = schema + 1])
  /\ bypasses' = 1
  /\ UNCHANGED <<metadata, valid, reload, outcome, client, refreshed>>

\* The connection is looked up: Close empties c.connections.
Load(u) ==
  /\ pc[u] = "load"
  /\ Unlocked
  /\ IF client = "open" THEN Goto(u, "query", req[u]) ELSE Loaded(u, "failed")
  /\ UNCHANGED <<schema, metadata, valid, reload, outcome, client,
                 refreshed, bypasses>>

\* Mutant: a query that fails is tried again.
Query_Retries(u) ==
  /\ pc[u] = "query"
  /\ \/ /\ client = "open"
        /\ Goto(u, "rows", [req[u] EXCEPT !.seen = schema])
     \/ Goto(u, "load", req[u])
  /\ UNCHANGED <<schema, metadata, valid, reload, outcome, client,
                 refreshed, bypasses>>

\* Pool.Query: the statement sees the catalogue as it now is, or fails. A
\* pool being closed refuses.
Query(u) ==
  /\ pc[u] = "query"
  /\ \/ /\ client = "open"
        /\ Goto(u, "rows", [req[u] EXCEPT !.seen = schema])
     \/ Loaded(u, "failed")
  /\ UNCHANGED <<schema, metadata, valid, reload, outcome, client,
                 refreshed, bypasses>>

\* Mutant: an error in a row returns past finishMetadataReload.
ReadRows_LosesRecord(u) ==
  /\ pc[u] = "rows"
  /\ Goto(u, "write", req[u]) \/ Return(u)
  /\ UNCHANGED <<schema, metadata, valid, reload, outcome, client,
                 refreshed, bypasses>>

\* The rows are read, giving the connection back, or one of them fails.
ReadRows(u) ==
  /\ pc[u] = "rows"
  /\ Goto(u, "write", req[u]) \/ Loaded(u, "failed")
  /\ UNCHANGED <<schema, metadata, valid, reload, outcome, client,
                 refreshed, bypasses>>

\* The result is swapped in; a closed client has let go of the connection,
\* and what is written there is seen by no one.
Write(u) ==
  /\ pc[u] = "write"
  /\ Unlocked
  /\ IF client = "open"
     THEN /\ metadata' = req[u].seen
          /\ valid' = TRUE
          /\ refreshed' = IF req[u].ddl > refreshed THEN req[u].ddl
                                                   ELSE refreshed
     ELSE UNCHANGED <<metadata, valid, refreshed, bypasses>>
  /\ Loaded(u, "ok")
  /\ UNCHANGED <<schema, reload, outcome, client, bypasses>>

(***************************************************************************)
(* The environment                                                         *)
(***************************************************************************)

\* metadata_ttl passes.
Expire ==
  /\ valid
  /\ valid' = FALSE
  /\ UNCHANGED <<schema, metadata, reload, outcome, client, pc, req,
                 refreshed, bypasses>>

\* Some other session changes the catalogue.
Alter ==
  /\ schema < MaxSchema
  /\ schema' = schema + 1
  /\ UNCHANGED <<metadata, valid, reload, outcome, client, pc, req,
                 refreshed, bypasses>>

\* Client.Close takes c.mu and waits for the pool.
Close ==
  /\ client = "open"
  /\ client' = "closing"
  /\ UNCHANGED <<schema, metadata, valid, reload, outcome, pc, req,
                 refreshed, bypasses>>

\* The pool is idle: connections and reloads are dropped.
Closed ==
  /\ client = "closing"
  /\ \A u \in Callers : pc[u] # "rows"
  /\ client' = "closed"
  /\ valid' = FALSE
  /\ reload' = None
  /\ UNCHANGED <<schema, metadata, outcome, pc, req, refreshed, bypasses>>

(***************************************************************************)
(* The system                                                              *)
(***************************************************************************)

Init ==
  /\ schema = 0
  /\ metadata = 0
  /\ valid = FALSE
  /\ reload = None
  /\ outcome = [a \in Records |-> "ok"]
  /\ client = "open"
  /\ pc = [u \in Callers |-> "idle"]
  /\ req = [u \in Callers |-> NoLocal]
  /\ refreshed = 0
  /\ bypasses = 0

\* A caller that has begun goes on.
Step(u) ==
  \/ Join(u) \/ Recheck(u) \/ FinishReload(u) \/ Publish(u) \/ Wait(u)
  \/ Load(u) \/ Query(u) \/ ReadRows(u) \/ Write(u)

Next ==
  \/ \E u \in Callers : \/ Ensure(u) \/ LoadDirectly(u) \/ RefreshAfterDDL(u)
                        \/ Step(u)
  \/ Expire \/ Alter \/ Close \/ Closed

\* Callers run on, queries end within their timeout, and Close returns once
\* they have; nothing need ever begin.
Fairness == WF_vars(Closed) /\ \A u \in Callers : WF_vars(Step(u))

Spec     == Init /\ [][Next]_vars
FairSpec == Spec /\ Fairness

(***************************************************************************)
(* Properties                                                              *)
(***************************************************************************)

\* A caller that leads or waits has a record, and one that publishes an
\* outcome to publish.
PlaceOK(u) ==
  /\ pc[u] \in {"recheck", "finish", "publish", "wait"} => req[u].record # None
  /\ pc[u] \in {"finish", "publish"} => req[u].err # "running"
  /\ pc[u] = "idle" => req[u] = NoLocal
  /\ pc[u] = "join" => req[u].record = None

\* The variables keep to their types.
TypeOK ==
  /\ schema \in Schemas
  /\ metadata \in Schemas
  /\ valid \in BOOLEAN
  /\ reload \in Records \cup {None}
  /\ outcome \in [Records -> Outcomes]
  /\ client \in {"open", "closing", "closed"}
  /\ pc \in [Callers -> PC]
  /\ req \in [Callers -> Local]
  /\ refreshed \in Schemas
  /\ bypasses \in {0, 1}
  /\ \A u \in Callers : PlaceOK(u)

\* Callers between joining as the leader and publishing.
Leading == {u \in Callers :
  pc[u] \in {"recheck", "load", "query", "rows", "write", "finish", "publish"}
    /\ req[u].record # None}

\* Callers of LoadMetadataFor that have yet to write its result.
Loading == {u \in Callers : pc[u] \in {"query", "rows", "write"}}

\* As long as every caller goes through EnsureMetadataFor, at most one reload
\* of the connection is in flight, although Close drops the record of the one
\* that is running.
OneReload == bypasses = 1 \/ \A u, w \in Loading : u = w

\* Whoever waits, waits for a leader that has yet to publish: no waiter is
\* forgotten, by an error, by Close or by the leader that follows.
WaitersLed ==
  \A w \in Callers :
    pc[w] = "wait" /\ outcome[req[w].record] = "running" =>
      \E u \in Leading : req[u].record = req[w].record

\* As long as every caller goes through EnsureMetadataFor, a reload never
\* puts an older catalogue in the place of a newer one.
NeverOlder == [][bypasses = 1 \/ metadata' >= metadata]_vars

\* Every caller is served, whatever fails.
EnsureServed == \A u \in Callers : pc[u] # "idle" ~> pc[u] = "idle"

\* What query_database refreshes for, to keep the schema information
\* current: once that has succeeded, valid metadata shows the statement.
ShowsDDL == valid => metadata >= refreshed

\* Each attempt has one leader, which its record waits for; the record in the
\* map is one that its leader has yet to remove.
RecordsOK ==
  /\ \A u, w \in Leading : req[u].record = req[w].record => u = w
  /\ \A u \in Leading : outcome[req[u].record] = "running"
  /\ reload # None =>
       \E u \in Leading : pc[u] # "publish" /\ req[u].record = reload

\* While nothing has bypassed EnsureMetadataFor, whoever loads is the leader
\* of the record in the map, until Close drops it, and has seen what is no
\* older than what is there.
LoadersOK ==
  /\ Loading \subseteq Leading
  /\ \A u \in Callers : pc[u] = "load" => u \in Leading
  /\ client # "closed" =>
       \A u \in Leading : pc[u] # "publish" => req[u].record = reload
  /\ OneReload
  /\ metadata <= schema
  /\ \A u \in Callers : pc[u] \in {"rows", "write"} =>
       metadata <= req[u].seen /\ req[u].seen <= schema

\* The inductive invariant.
ReloadInv ==
  /\ TypeOK
  /\ RecordsOK
  /\ WaitersLed
  /\ bypasses = 0 => LoadersOK
=============================================================================

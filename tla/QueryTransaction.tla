-------------------------- MODULE QueryTransaction --------------------------
(***************************************************************************)
(* The tools that run SQL on one database.Client: query_database,          *)
(* execute_explain, count_rows, the three kinds of custom tool and the     *)
(* resources. Each opens a transaction on a pooled connection, executes,   *)
(* reads the rows, commits, and on every other way out rolls back; the     *)
(* pool checks a connection before it takes it back.                       *)
(*                                                                         *)
(* A step ends where the code waits: for c.mu, for a connection of the     *)
(* pool, or for an answer of the database. Data abstracted: a statement is *)
(* its class, a table is whether a call's write has reached it, and the    *)
(* row limits are in the module RowLimits.                                 *)
(***************************************************************************)
EXTENDS Integers, FiniteSets

CONSTANTS
  Callers,      \* tool calls in progress, each its own goroutine
  MaxConns,     \* pool_max_conns
  MaxCalls,     \* bound: calls in all
  None          \* the absent value

VARIABLES
  allowWrites,  \* allow_writes of the database, fixed for a client
  mu,           \* who holds c.mu across a connect, or None
  known,        \* c.connections: the connection strings with a pool
  default,      \* c.defaultConnStr
  loaded,       \* the connections whose metadata is loaded and fresh
  conn,         \* the connections of each pool
  pc,           \* where each caller is
  call,         \* its local variables, and what it has done
  reply,        \* the answer to its last call
  leftover,     \* a tool's temporary function is in the catalogue
  calls         \* calls so far

vars == <<allowWrites, mu, known, default, loaded, conn, pc, call, reply,
          leftover, calls>>

\* Connection strings: the configured one, and one written in a query.
Pools == {"main", "inline"}
Conns == Pools \X (1 .. MaxConns)

\* state: none (never opened, or discarded), idle in the pool, busy with a
\* call, or being checked on its release; session: what
\* default_transaction_read_only makes of a transaction that names no mode.
ConnStates == [state : {"none", "idle", "busy", "releasing"},
               session : {"ro", "rw"}]

Tools == {"query", "explain", "count", "sql", "do", "func", "resource"}

\* several: more than one statement in one text; commits: several with a
\* COMMIT of their own among them; setting: one that changes the session's
\* default access mode.
Stmts == {"read", "write", "ddl", "returning", "several", "commits", "setting"}

Replies == {"none", "ok", "failed", "refused"}

PC == {"idle", "connect", "connecting", "switch", "metadata", "begin",
       "execute", "rows", "drop", "commit", "rollback", "refresh"}

\* pending: what the open transaction has done; done: what of the call took
\* effect; lost: the answer to its COMMIT never came.
Local == [tool : Tools, stmt : Stmts, pool : Pools, asDefault : BOOLEAN,
          conn : Conns \cup {None}, mode : {"ro", "session"},
          pending : SUBSET {"write", "setting", "function"},
          aborted : BOOLEAN, applied : BOOLEAN, lost : BOOLEAN]

NewCall(tool, stmt, pool, asDefault) ==
  [tool |-> tool, stmt |-> stmt, pool |-> pool, asDefault |-> asDefault,
   conn |-> None, mode |-> "session", pending |-> {}, aborted |-> FALSE,
   applied |-> FALSE, lost |-> FALSE]

\* What each tool can be asked to run. A resource runs a SELECT of the server,
\* and so does a count, but for a where clause that is more than a predicate
\* (several).
StmtsOf(tool) ==
  CASE tool = "query" -> Stmts
    [] tool = "sql" -> Stmts \ {"ddl", "commits"}
    [] tool = "explain" -> {"read", "write", "setting"}
    [] tool \in {"do", "func"} -> {"read", "write", "setting"}
    [] tool = "count" -> {"read", "several"}
    [] OTHER -> {"read"}

Writing(stmt) == stmt \in {"write", "ddl", "returning", "several", "commits"}

\* The session a fresh connection starts with: AfterConnect.
Fresh == [state |-> "busy", session |-> IF allowWrites THEN "rw" ELSE "ro"]

Unlocked == mu = None

Goto(u, place) == pc' = [pc EXCEPT ![u] = place]

\* What is left of a call c that is over.
Kind(stmt) == IF stmt = "commits" THEN stmt ELSE IF Writing(stmt) THEN "write" ELSE "read"
Over(c) ==
  [NewCall("query", Kind(c.stmt), "main", FALSE)
     EXCEPT !.applied = c.applied, !.lost = c.lost]

Answer(u, what, c) ==
  /\ Goto(u, "idle")
  /\ reply' = [reply EXCEPT ![u] = what]
  /\ call' = [call EXCEPT ![u] = Over(c)]

Init ==
  /\ allowWrites \in BOOLEAN
  /\ mu = None
  /\ known = {"main"}
  /\ default = "main"
  /\ loaded \in SUBSET {"main"}
  /\ conn = [c \in Conns |-> [state |-> "none", session |-> "ro"]]
  /\ pc = [u \in Callers |-> "idle"]
  /\ call = [u \in Callers |-> NewCall("query", "read", "main", FALSE)]
  /\ reply = [u \in Callers |-> "none"]
  /\ leftover = FALSE
  /\ calls = 0

(***************************************************************************)
(* Choosing the connection                                                 *)
(***************************************************************************)

\* Where a tool goes once its connection is there.
Prepared(tool) == IF tool \in {"query", "count", "resource"} THEN "metadata"
                  ELSE "begin"

\* What is turned away before a connection is taken: the guard on read-only
\* connections, and execute_explain, count_rows and pl-func on their own terms.
Refused(c) ==
  \/ c.tool \in {"query", "explain"} /\ c.stmt \in {"several", "commits", "setting"}
     /\ (~allowWrites \/ c.tool = "explain")
  \/ c.tool = "count" /\ c.stmt # "read"
  \/ c.tool = "explain" /\ c.stmt # "read"
  \/ c.tool = "func" /\ ~allowWrites

\* A call arrives; query_database looks for a connection string in its text.
Call(u) ==
  /\ pc[u] = "idle"
  /\ calls < MaxCalls
  /\ Unlocked
  /\ \E tool \in Tools, inline, asDefault \in BOOLEAN :
       /\ inline => tool = "query"
       /\ asDefault => inline
       /\ \E stmt \in StmtsOf(tool) :
            LET c == NewCall(tool, stmt, IF inline THEN "inline" ELSE default,
                             asDefault)
            IN /\ asDefault => stmt = "read"
               /\ IF tool \in {"explain", "count", "func"} /\ Refused(c)
                  THEN Answer(u, "refused", c)
                  ELSE /\ Goto(u, IF inline THEN "connect" ELSE Prepared(tool))
                       /\ reply' = [reply EXCEPT ![u] = "none"]
                       /\ call' = [call EXCEPT ![u] = c]
  /\ calls' = calls + 1
  /\ UNCHANGED <<allowWrites, mu, known, default, loaded, conn, leftover>>

\* Where an inline connection string leads once its pool exists.
Onward(u) == IF call[u].asDefault THEN "switch" ELSE "metadata"

\* ConnectTo, the pool already there or c.mu taken to make it.
Connect(u) ==
  /\ pc[u] = "connect"
  /\ Unlocked
  /\ IF call[u].pool \in known
     THEN Goto(u, Onward(u)) /\ UNCHANGED mu
     ELSE Goto(u, "connecting") /\ mu' = u
  /\ UNCHANGED <<allowWrites, known, default, loaded, conn, call, reply,
                 leftover, calls>>

\* The ping answers; its connection stays in the pool.
Connected(u) ==
  /\ pc[u] = "connecting"
  /\ known' = known \cup {call[u].pool}
  /\ conn' = [conn EXCEPT ![<<call[u].pool, 1>>] = [Fresh EXCEPT !.state = "idle"]]
  /\ mu' = None
  /\ Goto(u, Onward(u))
  /\ UNCHANGED <<allowWrites, default, loaded, call, reply, leftover, calls>>

ConnectFails(u) ==
  /\ pc[u] = "connecting"
  /\ mu' = None
  /\ Answer(u, "failed", call[u])
  /\ UNCHANGED <<allowWrites, known, default, loaded, conn, leftover,
                 calls>>

\* SetDefaultConnection writes the default before it loads the metadata.
SwitchDefault(u) ==
  /\ pc[u] = "switch"
  /\ Unlocked
  /\ default' = call[u].pool
  /\ Goto(u, "metadata")
  /\ UNCHANGED <<allowWrites, mu, known, loaded, conn, call, reply, leftover,
                 calls>>

\* The pool can give out a connection: one of its idle ones, or a new one.
Obtainable(c, pool) == c[1] = pool /\ conn[c].state \in {"none", "idle"}

Free(pool) == \E c \in Conns : Obtainable(c, pool)

\* The metadata is there or is loaded, on a connection of its own; a call
\* that only switches the default ends, the text of any other is screened.
Metadata(u) ==
  /\ pc[u] = "metadata"
  /\ Unlocked
  /\ call[u].pool \in loaded \/ Free(call[u].pool)
  /\ loaded' = loaded \cup {call[u].pool}
  /\ IF call[u].asDefault THEN Answer(u, "ok", call[u])
     ELSE IF Refused(call[u]) THEN Answer(u, "refused", call[u])
     ELSE Goto(u, "begin") /\ UNCHANGED <<reply, call>>
  /\ UNCHANGED <<allowWrites, mu, known, default, conn, leftover, calls>>

MetadataFails(u) ==
  /\ pc[u] = "metadata"
  /\ Unlocked
  /\ call[u].pool \notin loaded
  /\ Free(call[u].pool)
  /\ Answer(u, "failed", call[u])
  /\ UNCHANGED <<allowWrites, mu, known, default, loaded, conn, leftover,
                 calls>>

\* metadata_ttl passes.
Expire ==
  /\ \E p \in loaded : loaded' = loaded \ {p}
  /\ UNCHANGED <<allowWrites, mu, known, default, conn, pc, call, reply,
                 leftover, calls>>

(***************************************************************************)
(* The transaction                                                         *)
(***************************************************************************)

\* The access mode of BEGIN. A pl-func tool and a resource, which has no
\* transaction of its own, name none.
ModeOf(tool) ==
  IF tool \in {"explain", "count"} \/ (~allowWrites /\ tool \in {"query", "sql", "do"})
  THEN "ro" ELSE "session"

Begin(u) ==
  /\ pc[u] = "begin"
  /\ Unlocked
  /\ \E c \in Conns :
       /\ Obtainable(c, call[u].pool)
       /\ conn' = [conn EXCEPT ![c] = IF @.state = "none" THEN Fresh
                                      ELSE [@ EXCEPT !.state = "busy"]]
       /\ call' = [call EXCEPT ![u].conn = c, ![u].mode = ModeOf(call[u].tool)]
  /\ Goto(u, "execute")
  /\ UNCHANGED <<allowWrites, mu, known, default, loaded, reply, leftover,
                 calls>>

\* No connection: the database or AfterConnect refuses, or a custom tool's
\* timeout passes first. The other tools wait for one without limit.
BeginFails(u) ==
  /\ pc[u] = "begin"
  /\ Unlocked
  /\ Free(call[u].pool) \/ call[u].tool \in {"sql", "do", "func"}
  /\ Answer(u, "failed", call[u])
  /\ UNCHANGED <<allowWrites, mu, known, default, loaded, conn, leftover,
                 calls>>

ReadOnly(u) == call[u].mode = "ro" \/ conn[call[u].conn].session = "ro"

\* The simple protocol takes several statements in a text: Exec, which
\* query_database keeps for writable connections and statements it does not
\* expect rows of. A pl-func's and a pl-do's text is one statement.
Simple(u) ==
  /\ call[u].tool = "query"
  /\ allowWrites
  /\ call[u].stmt \notin {"read", "returning"}

\* The database accepts the statement (for a pl-func tool, the creation of
\* its function and then the call).
Accepted(u) ==
  /\ Writing(call[u].stmt) => ~ReadOnly(u)
  /\ call[u].tool = "func" => ~ReadOnly(u)
  /\ call[u].stmt \in {"several", "commits"} => Simple(u)

OwnCommit(u) == call[u].stmt = "commits"

Effects(u) ==
  (IF Writing(call[u].stmt) /\ ~OwnCommit(u) THEN {"write"} ELSE {})
  \cup (IF call[u].stmt = "setting" THEN {"setting"} ELSE {})
  \cup (IF call[u].tool = "func" THEN {"function"} ELSE {})

\* The statement has run; its rows, if any, are still to come. A script's own
\* COMMIT ends the tool's transaction, and the tool's COMMIT finds none.
Execute(u) ==
  /\ pc[u] = "execute"
  /\ Accepted(u)
  /\ call' = [call EXCEPT ![u].pending = Effects(u), ![u].applied = OwnCommit(u)]
  /\ Goto(u, IF Simple(u) THEN "commit" ELSE "rows")
  /\ UNCHANGED <<allowWrites, mu, known, default, loaded, conn, reply, leftover,
                 calls>>

\* The transaction is over: what it did is undone, except what was committed
\* earlier in the text, or the connection itself is gone.
Failing(u, broken, earlier) ==
  /\ call' = [call EXCEPT ![u].pending = {}, ![u].aborted = TRUE,
                          ![u].applied = earlier,
                          ![u].conn = IF broken THEN None ELSE @]
  /\ conn' = IF broken THEN [conn EXCEPT ![call[u].conn].state = "none"] ELSE conn

\* The statement is rejected, fails, or is cut off by the tool's timeout. A
\* function that was created is dropped even so.
ExecuteFails(u) ==
  /\ pc[u] = "execute"
  /\ \E broken, earlier \in BOOLEAN :
       (earlier => OwnCommit(u) /\ Simple(u)) /\ Failing(u, broken, earlier)
  /\ \E place \in {"drop", "rollback"} :
       (place = "drop" => call[u].tool = "func") /\ Goto(u, place)
  /\ UNCHANGED <<allowWrites, mu, known, default, loaded, reply, leftover,
                 calls>>

\* The last row has been read and the rows are closed.
ReadRows(u) ==
  /\ pc[u] = "rows"
  /\ Goto(u, IF call[u].tool = "func" THEN "drop" ELSE "commit")
  /\ UNCHANGED <<allowWrites, mu, known, default, loaded, conn, call, reply,
                 leftover, calls>>

\* Reading them fails: a value the tool cannot read leaves the transaction as
\* it is, any other error ends it.
RowsFail(u) ==
  /\ pc[u] = "rows"
  /\ \/ \E broken \in BOOLEAN : Failing(u, broken, FALSE)
     \/ /\ call' = [call EXCEPT ![u].aborted = TRUE]
        /\ UNCHANGED conn
  /\ Goto(u, IF call[u].tool = "func" THEN "drop" ELSE "rollback")
  /\ UNCHANGED <<allowWrites, mu, known, default, loaded, reply, leftover,
                 calls>>

\* DROP FUNCTION, its own outcome ignored: should it fail, so does the
\* COMMIT of the transaction that it ends.
DropFunction(u) ==
  /\ pc[u] = "drop"
  /\ \/ /\ call' = [call EXCEPT ![u].pending = @ \ {"function"}]
        /\ Goto(u, IF call[u].aborted THEN "rollback" ELSE "commit")
     \/ /\ call' = [call EXCEPT ![u].pending = {}, ![u].aborted = TRUE]
        /\ Goto(u, "rollback")
  /\ UNCHANGED <<allowWrites, mu, known, default, loaded, conn, reply, leftover,
                 calls>>

\* The call once its transaction has ended with COMMIT.
Ended(u) == [call[u] EXCEPT !.applied = @ \/ "write" \in call[u].pending,
                            !.pending = {}, !.conn = None]

TakeEffect(u) == leftover' = (leftover \/ "function" \in call[u].pending)

\* A connection goes back to its pool with the session it now has; on a
\* read-only client AfterRelease has it first.
Released(u, settled) ==
  [conn EXCEPT ![call[u].conn] =
     [state |-> IF allowWrites THEN "idle" ELSE "releasing",
      session |-> IF settled /\ "setting" \in call[u].pending THEN "rw"
                  ELSE @.session]]

\* COMMIT succeeds (a resource only closes its rows) and the connection is
\* given back. Only then does query_database refresh the metadata after DDL.
Commit(u) ==
  /\ pc[u] = "commit"
  /\ TakeEffect(u)
  /\ conn' = Released(u, TRUE)
  /\ IF call[u].stmt = "ddl" /\ call[u].tool = "query" /\ allowWrites
     THEN /\ Goto(u, "refresh")
          /\ call' = [call EXCEPT ![u] = Ended(u)]
          /\ UNCHANGED reply
     ELSE Answer(u, "ok", Ended(u))
  /\ UNCHANGED <<allowWrites, mu, known, default, loaded, calls>>

\* The connection breaks while COMMIT is under way, done or not.
CommitLost(u) ==
  /\ pc[u] = "commit"
  /\ call[u].tool # "resource"
  /\ conn' = [conn EXCEPT ![call[u].conn].state = "none"]
  /\ \/ TakeEffect(u) /\ Answer(u, "failed", [Ended(u) EXCEPT !.lost = TRUE])
     \/ UNCHANGED leftover /\ Answer(u, "failed", call[u])
  /\ UNCHANGED <<allowWrites, mu, known, default, loaded, calls>>

\* Mutant: the deferred call ends the transaction with COMMIT.
Rollback_Commits(u) ==
  /\ pc[u] = "rollback"
  /\ TakeEffect(u)
  /\ conn' = IF call[u].conn = None THEN conn ELSE Released(u, TRUE)
  /\ Answer(u, "failed", Ended(u))
  /\ UNCHANGED <<allowWrites, mu, known, default, loaded, calls>>

\* The deferred rollback: what the transaction did is undone, a session
\* setting included, and the connection given back if it is still one.
Rollback(u) ==
  /\ pc[u] = "rollback"
  /\ conn' = IF call[u].conn = None THEN conn ELSE Released(u, FALSE)
  /\ Answer(u, "failed", call[u])
  /\ UNCHANGED <<allowWrites, mu, known, default, loaded, leftover, calls>>

\* The refresh after DDL, whose outcome is ignored.
Refresh(u) ==
  /\ pc[u] = "refresh"
  /\ Unlocked
  /\ Free(call[u].pool)
  /\ loaded' \in {loaded, loaded \cup {call[u].pool}}
  /\ Answer(u, "ok", call[u])
  /\ UNCHANGED <<allowWrites, mu, known, default, conn, leftover, calls>>

\* Mutant: a connection is kept whether or not the setting was made.
AfterRelease_Kept(c) ==
  /\ conn[c].state = "releasing"
  /\ conn' \in {[conn EXCEPT ![c].state = "idle"],
                [conn EXCEPT ![c] = [state |-> "idle", session |-> "ro"]]}
  /\ UNCHANGED <<allowWrites, mu, known, default, loaded, pc, call, reply,
                 leftover, calls>>

\* AfterRelease makes the session read-only again, or has the connection
\* discarded when that fails.
AfterRelease(c) ==
  /\ conn[c].state = "releasing"
  /\ conn' \in {[conn EXCEPT ![c].state = "none"],
                [conn EXCEPT ![c] = [state |-> "idle", session |-> "ro"]]}
  /\ UNCHANGED <<allowWrites, mu, known, default, loaded, pc, call, reply,
                 leftover, calls>>

(***************************************************************************)
(* The specification                                                       *)
(***************************************************************************)

\* What a caller that has started does next.
Proceed(u) ==
  \/ Connect(u) \/ Connected(u) \/ ConnectFails(u) \/ SwitchDefault(u)
  \/ Metadata(u) \/ MetadataFails(u)
  \/ Begin(u) \/ BeginFails(u)
  \/ Execute(u) \/ ExecuteFails(u) \/ ReadRows(u) \/ RowsFail(u)
  \/ DropFunction(u) \/ Commit(u) \/ CommitLost(u) \/ Rollback(u) \/ Refresh(u)

Next ==
  \/ \E u \in Callers : Call(u) \/ Proceed(u)
  \/ \E c \in Conns : AfterRelease(c)
  \/ Expire

Spec == Init /\ [][Next]_vars

\* Goroutines run and the database answers each of them; AfterRelease has a
\* timeout of five seconds.
Fairness ==
  /\ \A u \in Callers : WF_vars(Proceed(u))
  /\ \A c \in Conns : WF_vars(AfterRelease(c))

FairSpec == Spec /\ Fairness

(***************************************************************************)
(* Correctness                                                             *)
(***************************************************************************)

TypeOK ==
  /\ allowWrites \in BOOLEAN
  /\ mu \in Callers \cup {None}
  /\ known \in SUBSET Pools
  /\ default \in Pools
  /\ loaded \in SUBSET Pools
  /\ conn \in [Conns -> ConnStates]
  /\ pc \in [Callers -> PC]
  /\ call \in [Callers -> Local]
  /\ reply \in [Callers -> Replies]
  /\ leftover \in BOOLEAN
  /\ calls \in 0 .. MaxCalls

\* The database of a read-only client has nothing but read-only sessions in
\* its pools, whatever the statements run on them set: that is what the code
\* relies on where it names no access mode (resources, metadata queries), and
\* what a session left writable by one caller would give to the next.
PooledReadOnly ==
  ~allowWrites => \A c \in Conns : conn[c].state = "idle" => conn[c].session = "ro"

\* A call answered with success has had its whole effect and a call answered
\* with an error none, whichever step failed: after the rows were read, in
\* the clean-up of a pl-func tool, at COMMIT. The exceptions are an answer to
\* COMMIT that was lost, and a script that commits part of itself; what is
\* refused has no effect without exception.
ReplyTellsEffect ==
  \A u \in Callers :
    /\ reply[u] = "ok" => (call[u].applied <=> Writing(call[u].stmt))
    /\ reply[u] = "refused" => ~call[u].applied
    /\ reply[u] = "failed" => ~call[u].applied \/ call[u].lost \/ OwnCommit(u)

\* The temporary function of a pl-func tool is never left in the catalogue,
\* though nothing looks at whether dropping it worked.
NoFunctionLeft == ~leftover

\* Every connection out of its pool is the open transaction of exactly one
\* call: none is lost on an error path, and none is in two calls.
ConnectionsAccounted ==
  \A c \in Conns :
    conn[c].state = "busy" <=> \E u \in Callers :
      /\ call[u].conn = c /\ pc[u] \in {"execute", "rows", "drop", "commit", "rollback"}
      /\ \A v \in Callers \ {u} : call[v].conn # c

\* Every call is answered, with no more connections than one: nobody waits
\* for a connection while holding one, for the refresh after DDL either.
CallReturns == \A u \in Callers : pc[u] # "idle" ~> pc[u] = "idle"

(***************************************************************************)
(* The inductive invariant behind them                                     *)
(***************************************************************************)

\* Before a call has run anything; where it has an open transaction, and how
\* far that is in order.
Before == {"connect", "connecting", "switch", "metadata", "begin", "execute"}
Working == {"execute", "rows", "drop", "commit", "rollback"}
InOrder(place, c) == place \in {"rows", "commit"} \/ (place = "drop" /\ ~c.aborted)

\* A call that is where it is: until it is over it has had no effect, and a
\* transaction that is to be committed holds just what was asked for.
Consistent(place, c, what) ==
  /\ place = "idle" =>
       /\ what = "ok" => (c.applied <=> Writing(c.stmt))
       /\ what = "refused" => ~c.applied
       /\ what = "failed" => ~c.applied \/ c.lost \/ c.stmt = "commits"
  /\ place # "idle" => what = "none"
  /\ place = "refresh" => c.applied /\ Writing(c.stmt)
  /\ place \in Before => ~c.applied
  /\ place \in Working => ~c.applied \/ c.stmt = "commits"
  /\ c.asDefault => c.stmt = "read"
  /\ place \notin Working => c.conn = None
  /\ place = "execute" \/ InOrder(place, c) => c.conn \in Conns
  /\ InOrder(place, c) => (c.applied \/ "write" \in c.pending <=> Writing(c.stmt))
  /\ "function" \in c.pending => c.tool = "func" /\ place # "commit"
CallsOK == \A u \in Callers : Consistent(pc[u], call[u], reply[u])

\* A connection is out of its pool just while one call has it.
HeldOK ==
  /\ \A u \in Callers : call[u].conn # None =>
       /\ conn[call[u].conn].state = "busy"
       /\ \A v \in Callers \ {u} : call[v].conn # call[u].conn
  /\ \A c \in Conns : conn[c].state = "busy" => \E u \in Callers : call[u].conn = c

\* A pool that is not made yet has no connection, and one caller makes it.
PoolsOK ==
  /\ default \in known
  /\ \A c \in Conns : c[1] \notin known => conn[c].state = "none"
  /\ \A u \in Callers :
       /\ pc[u] = "connecting" => mu = u /\ call[u].pool \notin known
       /\ pc[u] \notin {"idle", "connect", "connecting"} => call[u].pool \in known

ToolInv ==
  /\ TypeOK /\ PooledReadOnly /\ NoFunctionLeft
  /\ CallsOK /\ HeldOK /\ PoolsOK
=============================================================================

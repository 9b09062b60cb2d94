---------------------------- MODULE MCConnection ----------------------------
(***************************************************************************)
(* One database.Client, the two things its callers share, each in          *)
(* behaviours of its own, the other as it begins: the cached metadata of a *)
(* connection, and the connections of its pools.                           *)
(***************************************************************************)
EXTENDS MetadataReload

CONSTANTS
  MaxConns, MaxCalls,   \* of the tools
  u1, u2, a1, a2

VARIABLES part, allowWrites, mu, known, default, loaded, conn, toolPc, call,
          reply, leftover, calls

Tool == INSTANCE QueryTransaction WITH pc <- toolPc

\* The absent value is no caller and no connection.
ASSUME ToolAssumption == MaxCalls \in Nat /\ None \notin Callers \cup Tool!Conns

toolVars == <<allowWrites, mu, known, default, loaded, conn, toolPc, call, reply,
              leftover, calls>>
all == <<part, vars, toolVars>>

ConnectionInit ==
  /\ Init /\ Tool!Init
  /\ part \in {"metadata", "tools"}
  /\ part = "metadata" => allowWrites /\ loaded = {}

ConnectionNext ==
  \/ part = "metadata" /\ Next /\ UNCHANGED <<part, toolVars>>
  \/ part = "tools" /\ Tool!Next /\ UNCHANGED <<part, vars>>

\* Each as its own module states it, while it is the one that runs.
ConnectionFairness ==
  /\ WF_vars(part = "metadata" /\ Closed)
  /\ \A u \in Callers : /\ WF_vars(part = "metadata" /\ Step(u))
                        /\ WF_toolVars(part = "tools" /\ Tool!Proceed(u))
  /\ \A c \in Tool!Conns : WF_toolVars(part = "tools" /\ Tool!AfterRelease(c))

ConnectionSpec == ConnectionInit /\ [][ConnectionNext]_all /\ ConnectionFairness

\* See QueryTransaction: what a read-only client's pools hold; what a call
\* leaves behind, which is what its reply says and neither a connection taken
\* nor a temporary function.
PooledReadOnly == Tool!PooledReadOnly
CallsExact ==
  /\ Tool!TypeOK
  /\ Tool!ReplyTellsEffect
  /\ Tool!ConnectionsAccounted
  /\ Tool!NoFunctionLeft

\* Whoever needs metadata is served, and every call of a tool is answered:
\* EnsureServed and CallReturns, of which only one has ever begun.
EveryoneServed ==
  \A u \in Callers :
    pc[u] # "idle" \/ toolPc[u] # "idle" ~> pc[u] = "idle" /\ toolPc[u] = "idle"
=============================================================================

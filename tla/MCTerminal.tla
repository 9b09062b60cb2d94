----------------------------- MODULE MCTerminal -----------------------------
(***************************************************************************)
(* The command-line client, its two halves in behaviours of their own, the *)
(* other as it begins: the chat, with one database that takes writes and   *)
(* one that does not; and the tokens of two processes, on one server or on *)
(* two, over one cache file.                                               *)
(***************************************************************************)
EXTENDS Chat

CONSTANTS
  Procs, Origins, Pointings, DeviceLifetime, DeviceInterval, MaxPairs, MaxRuns, MaxFaults

VARIABLES part, file, origin, entry, tokenPc, doing, snap, answer, device, family,
          live, rotated, stale, shaken, replayed, tokenUsed

ASSUME TokenAssumption ==
  /\ MaxPairs \in Nat /\ DeviceInterval \in Int
  /\ Origins # {} /\ Pointings \subseteq [Procs -> Origins]

\* The two processes use one server, or one each.
OneOrTwoServers ==
  {[p \in Procs |-> "here"], [p \in Procs |-> IF p = "cli" THEN "here" ELSE "there"]}

Token == INSTANCE CliTokens WITH pc <- tokenPc, used <- tokenUsed

tokenVars == <<file, origin, entry, tokenPc, doing, snap, answer, device, family,
               live, rotated, stale, shaken, replayed, tokenUsed>>
all == <<part, vars, tokenVars>>

TerminalInit ==
  /\ Init /\ Token!Init
  /\ part \in {"chat", "tokens"}
  /\ part = "chat" => origin = CHOOSE o \in Pointings : TRUE
  /\ current = "ro"

TerminalNext ==
  \/ part = "chat" /\ Next /\ UNCHANGED <<part, tokenVars>>
  \/ part = "tokens" /\ Token!Next /\ UNCHANGED <<part, vars>>

\* Each as its own module states it, while it is the one that runs.
TerminalFairness ==
  /\ WF_vars(part = "chat" /\ Step)
  /\ \A p \in Procs : /\ WF_tokenVars(part = "tokens" /\ Token!Step(p))
                      /\ WF_tokenVars(part = "tokens" /\ Token!Answered(p))

TerminalSpec == TerminalInit /\ [][TerminalNext]_all /\ TerminalFairness

\* No compaction parts a tool call from its results: the client's own, nor the
\* server's where results have the role it expects of them.  Those this client
\* sends have another one: see ServerKeepsToolPairs.
CompactionPairs == TypeOK /\ SentPaired /\ ServerKeepsPairs

\* A login that nothing disturbs is never taken for a replay, and its pair can
\* always be refreshed.
LoginHolds == Token!TypeOK /\ Token!ReplayOnlyAfterLoss /\ Token!LiveIsReachable

\* Every query gives the prompt back, and every call for a token returns:
\* QueryEnds and CallEnds.
EverythingEnds ==
  \A p \in Procs :
    pc = "think" \/ tokenPc[p] \notin {"off", "ready"}
      ~> \/ pc \in {"prompt", "exit", "panic"}
         \/ part = "tokens" /\ tokenPc[p] \in {"off", "ready"}
=============================================================================

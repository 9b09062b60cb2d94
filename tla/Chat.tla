-------------------------------- MODULE Chat --------------------------------
(***************************************************************************)
(* The chat client of internal/chat: the loop of requests to the model and *)
(* of tool calls that answers one query (processQuery), Escape, which can  *)
(* cancel it at any remote call, the confirmation of calls that write, and *)
(* the commands that change the database or the history.                   *)
(*                                                                         *)
(* One step ends at each call of the model, of a tool or of the user: what *)
(* can happen meanwhile is Escape and another session of the same account, *)
(* which shares the account's current database on the server.              *)
(***************************************************************************)
EXTENDS Integers, Sequences, SequencesExt

CONSTANTS
  DBs, Writable,       \* databases; those configured with allow_writes
  MaxAgenticLoops,     \* requests to the model in one query
  MinMessages,         \* history length from which compaction is tried
  MinSavings,          \* messages compaction has to save
  RecentWindow,        \* messages compaction keeps
  TokenThreshold,      \* estimated tokens from which compaction is tried
  MaxTokens,           \* budget in the request to the server's compactor
  CallIds,             \* 1..n: identifiers of tool calls
  MinImportant,        \* see Compaction
  Lengths,             \* lengths of a text
  MaxParallel,         \* calls in one answer of the model
  MaxQueries, MaxCommands   \* bounds: queries; commands and other sessions' selections

VARIABLES
  pc,         \* start, prompt, think, llm, tools, confirm, call, exit, panic
  messages,   \* the history
  pending,    \* calls of the last answer still to make
  call,       \* the call being made, and whether the user confirmed it
  answered,   \* calls of the last answer that have a result
  iteration,
  thinking,   \* the channel thinkingDone: open or closed
  canceled,   \* reqCtx has been cancelled by Escape
  currentDBWritable,
  current,    \* the account's database on the server
  saved,      \* the conversation kept on the server: history and connection
  sent,       \* last request, and who compacted it
  abandoned,  \* history: a query was cancelled inside a tool call
  missed,     \* history: current may have changed since it was last listed
  slipped,    \* history: a write ran unconfirmed on a writable database
  used        \* how much of the model's bounds is used up

vars == <<pc, messages, pending, call, answered, iteration, thinking, canceled,
          currentDBWritable, current, saved, sent, abandoned, missed, slipped, used>>

C == INSTANCE Compaction WITH Ids <- CallIds, DefaultMinImportant <- MinImportant

ASSUME ChatAssumption ==
  /\ Writable \subseteq DBs /\ DBs # {}
  /\ {MaxAgenticLoops, MinMessages, MinSavings, RecentWindow} \subseteq Nat \ {0}
  /\ Lengths \subseteq Nat /\ MaxParallel \in Nat
  /\ CallIds \subseteq Nat /\ \A i \in CallIds : 1..i \subseteq CallIds

\* What a call asks for: the database counts only when one is selected,
\* and of a malformed input nothing does.
Request(tool, db, malformed) == [tool |-> tool, db |-> db, malformed |-> malformed]
Requests == {Request("read", "", FALSE), Request("write", "", FALSE), Request("read", "", TRUE)}
              \cup {Request("select", db, FALSE) : db \in DBs}
Call == [id: CallIds, request: Requests]
NoCall == [id |-> 0, request |-> Request("read", "", FALSE), confirmed |-> FALSE]
NoRequest == [messages |-> <<>>, by |-> "nobody"]
NoConversation == [messages |-> <<>>, connection |-> {}, abandoned |-> FALSE]

Init ==
  /\ pc = "start" /\ messages = <<>> /\ pending = <<>> /\ call = NoCall
  /\ answered = {} /\ iteration = 0 /\ thinking = "closed" /\ canceled = FALSE
  /\ currentDBWritable = FALSE /\ current \in DBs
  /\ saved = NoConversation /\ sent = NoRequest
  /\ abandoned = FALSE /\ missed = FALSE /\ slipped = FALSE
  /\ used = [queries |-> 0, commands |-> 0, calls |-> 0]

-----------------------------------------------------------------------------
(* The database the client believes it talks to.                           *)

\* Listing the databases and looking the current one up; a listing that
\* fails leaves the flag as otherwise says.
Relist(listed, db, otherwise) ==
  /\ currentDBWritable' = IF listed THEN db \in Writable ELSE otherwise
  /\ missed' = ~listed

\* Run: the saved preference is selected, and when that works the
\* capabilities are refreshed; then the databases are listed.
Run(preferred, selected, listed) ==
  /\ pc = "start"
  /\ current' = IF selected THEN preferred ELSE current
  /\ Relist(listed, current', currentDBWritable)
  /\ pc' = "prompt"
  /\ UNCHANGED <<messages, pending, call, answered, iteration, thinking, canceled,
                 saved, sent, abandoned, slipped, used>>

Command ==
  /\ pc = "prompt"
  /\ used.commands < MaxCommands
  /\ used' = [used EXCEPT !.commands = @ + 1]
  /\ UNCHANGED <<pc, pending, call, answered, iteration, thinking, canceled, sent, slipped>>

\* /set database.  A selection whose answer is lost is a failure to the
\* client, which keeps its flag.
SetDatabase(db, taken, replied, listed) ==
  /\ Command
  /\ current' = IF taken THEN db ELSE current
  /\ IF taken /\ replied THEN Relist(listed, db, FALSE)
     ELSE /\ UNCHANGED currentDBWritable
          /\ missed' = (missed \/ taken)
  /\ UNCHANGED <<messages, saved, abandoned>>

NewConversation ==
  /\ Command
  /\ messages' = <<>> /\ abandoned' = FALSE
  /\ UNCHANGED <<saved, current, currentDBWritable, missed>>

\* The connection is left out of the conversation when it cannot be listed.
SaveConversation(listed) ==
  /\ Command
  /\ messages # <<>>
  /\ saved' = [messages |-> messages, abandoned |-> abandoned,
               connection |-> IF listed THEN {current} ELSE {}]
  /\ UNCHANGED <<messages, abandoned, current, currentDBWritable, missed>>

\* As if the flag of the session before were kept.
LoadConversation_KeepsFlag(found, taken, listed) ==
  /\ Command
  /\ saved # NoConversation
  /\ messages' = saved.messages /\ abandoned' = saved.abandoned
  /\ current' \in IF found /\ taken /\ saved.connection # {} THEN saved.connection
                  ELSE {current}
  /\ UNCHANGED <<saved, currentDBWritable, missed>>

\* A conversation without a connection leaves the flag alone.
LoadConversation(found, taken, listed) ==
  /\ Command
  /\ saved # NoConversation
  /\ messages' = saved.messages /\ abandoned' = saved.abandoned
  /\ IF saved.connection = {} THEN UNCHANGED <<current, currentDBWritable, missed>>
     ELSE /\ current' \in IF found /\ taken THEN saved.connection ELSE {current}
          /\ Relist(listed, current', FALSE)
  /\ UNCHANGED saved

\* Another client with the same credentials selects a database.
OtherSession(db) ==
  /\ used.commands < MaxCommands
  /\ used' = [used EXCEPT !.commands = @ + 1]
  /\ current' = db /\ missed' = TRUE
  /\ UNCHANGED <<pc, messages, pending, call, answered, iteration, thinking, canceled,
                 currentDBWritable, saved, sent, abandoned, slipped>>

-----------------------------------------------------------------------------
(* What is sent: compactMessages.                                          *)

EstimatedTokens ==
  C!TotalOf(LAMBDA m : (IF m.len = 0 THEN 0 ELSE (m.len + 2) \div 3) + 10, messages)
ByTokens == EstimatedTokens > TokenThreshold
WorthTrying ==
  \/ ByTokens
  \/ Len(messages) >= MinMessages /\ Len(messages) >= RecentWindow + 1 + MinSavings

Saves(compacted) == Len(messages) - Len(compacted) >= MinSavings

ServerCompacted(history) ==
  C!Compact([messages |-> history, maxTokens |-> MaxTokens, keepAnchors |-> TRUE,
             recentWindow |-> RecentWindow, summaryLen |-> 100,
             preserve |-> C!DefaultOptions.preserve, counter |-> C!DefaultOptions.counter,
             summarize |-> C!DefaultOptions.summarize,
             minImportant |-> C!DefaultOptions.minImportant])

LocalCompacted == C!LocalCompact(messages, RecentWindow)

\* The server is only asked in HTTP mode and any failure of it, an answer
\* that cannot be decoded included, falls back to the local compaction.
CompactMessages(serverAnswers) ==
  IF ~WorthTrying THEN [messages |-> messages, by |-> "nobody"]
  ELSE IF serverAnswers /\ Saves(ServerCompacted(messages))
       THEN [messages |-> ServerCompacted(messages), by |-> "server"]
  ELSE IF Saves(LocalCompacted) THEN [messages |-> LocalCompacted, by |-> "client"]
  ELSE [messages |-> messages, by |-> "nobody"]

-----------------------------------------------------------------------------
(* processQuery.                                                           *)

\* The query is left out when a prompt has already put its messages there.
Query(texts) ==
  /\ pc = "prompt"
  /\ used.queries < MaxQueries
  /\ used' = [used EXCEPT !.queries = @ + 1]
  /\ messages' = messages \o texts
  /\ thinking' = "open"
  /\ pc' = "think"
  /\ UNCHANGED <<pending, call, answered, iteration, canceled, currentDBWritable, current, saved, sent,
                 abandoned, missed, slipped>>

\* Text typed or pasted is one message; a prompt has its own.
TypedText == {<<C!Text("user", {"topic"}, n)>> : n \in Lengths}
PromptMessages == {<<C!Text("user", {}, n), C!Text("assistant", {}, n)>> : n \in Lengths}

\* processQuery returns, and its variables with it.
ToPrompt ==
  /\ thinking' = "closed" /\ canceled' = FALSE /\ iteration' = 0
  /\ pending' = <<>> /\ answered' = {} /\ call' = NoCall
  /\ sent' = NoRequest
  /\ pc' = "prompt"

Think(serverAnswers) ==
  /\ pc = "think"
  /\ iteration < MaxAgenticLoops
  /\ iteration' = iteration + 1
  /\ sent' = CompactMessages(serverAnswers)
  /\ pc' = "llm"
  /\ UNCHANGED <<messages, pending, call, answered, thinking, canceled, currentDBWritable,
                 current, saved, abandoned, missed, slipped, used>>

\* As if the bound were passed before it is noticed.
LoopLimit_OffByOne ==
  /\ pc = "think"
  /\ iteration > MaxAgenticLoops
  /\ ToPrompt
  /\ UNCHANGED <<messages, currentDBWritable, current, saved, abandoned, missed, slipped, used>>

LoopLimit ==
  /\ pc = "think"
  /\ iteration = MaxAgenticLoops
  /\ ToPrompt
  /\ UNCHANGED <<messages, currentDBWritable, current, saved, abandoned, missed, slipped, used>>

\* The user's Escape, heard while the channel of the listener is open.
Escape ==
  /\ pc \in {"llm", "call"}
  /\ thinking = "open"
  /\ ~canceled
  /\ canceled' = TRUE
  /\ UNCHANGED <<pc, messages, pending, call, answered, iteration, thinking,
                 currentDBWritable, current, saved, sent, abandoned, missed, slipped, used>>

\* A request that failed and one that was cancelled both keep the query.
LLMFails ==
  /\ pc = "llm"
  /\ ToPrompt
  /\ UNCHANGED <<messages, currentDBWritable, current, saved, abandoned, missed, slipped, used>>

LLMAnswers(n) ==
  /\ pc = "llm"
  /\ messages' = Append(messages, C!Text("assistant", {}, n))
  /\ ToPrompt
  /\ UNCHANGED <<currentDBWritable, current, saved, abandoned, missed, slipped, used>>

\* The identifiers of the calls of an answer are new ones.
LLMCallsTools(requests) ==
  /\ pc = "llm"
  /\ used.calls + Len(requests) \in CallIds
  /\ used' = [used EXCEPT !.calls = @ + Len(requests)]
  /\ pending' = [i \in 1..Len(requests) |-> [id |-> used.calls + i, request |-> requests[i]]]
  /\ messages' = Append(messages,
       [C!Text("assistant", {}, 0) EXCEPT
          !.uses = [i \in CallIds |-> IF i \in (used.calls + 1)..used'.calls
                                      THEN "other" ELSE "none"]])
  /\ answered' = {}
  /\ sent' = NoRequest
  /\ pc' = "tools"
  /\ UNCHANGED <<call, iteration, thinking, canceled, currentDBWritable, current, saved,
                 abandoned, missed, slipped>>

\* The animation is stopped by closing its channel, once for the tool call
\* and once more for an input that cannot be parsed.
NextTool ==
  /\ pc = "tools" /\ pending # <<>>
  /\ LET c == Head(pending)
     IN IF c.request.malformed
        THEN /\ thinking' = "closed"
             /\ pc' = "panic"
             /\ UNCHANGED call
        ELSE /\ call' = [id |-> c.id, request |-> c.request, confirmed |-> FALSE]
             /\ IF currentDBWritable /\ c.request.tool = "write"
                THEN thinking' = "closed" /\ pc' = "confirm"
                ELSE thinking' = "open" /\ pc' = "call"
  /\ pending' = Tail(pending)
  /\ UNCHANGED <<messages, answered, iteration, canceled, currentDBWritable, current, saved,
                 sent, abandoned, missed, slipped, used>>

\* As if the call ran whatever the user said.
Confirm_Ignored(yes) ==
  /\ pc = "confirm"
  /\ thinking' = "open"
  /\ call' = [call EXCEPT !.confirmed = yes]
  /\ pc' = "call"
  /\ UNCHANGED <<messages, pending, answered, iteration, canceled, currentDBWritable, current,
                 saved, sent, abandoned, missed, slipped, used>>

Confirm(yes) ==
  /\ pc = "confirm"
  /\ thinking' = "open"
  /\ IF yes THEN /\ call' = [call EXCEPT !.confirmed = TRUE]
                 /\ pc' = "call" /\ UNCHANGED answered
            ELSE /\ answered' = answered \cup {call.id} /\ call' = NoCall
                 /\ pc' = "tools"
  /\ UNCHANGED <<messages, pending, iteration, canceled, currentDBWritable, current, saved,
                 sent, abandoned, missed, slipped, used>>

\* What the server does of the call, whatever becomes of its answer.
Executed(done) ==
  /\ slipped' = (slipped \/ /\ done /\ call.request.tool = "write"
                            /\ current \in Writable /\ ~call.confirmed)
  /\ current' = IF done /\ call.request.tool = "select" THEN call.request.db ELSE current

\* A selection is followed by a listing; cancelled, the listing fails.
CallReturns(listed) ==
  /\ pc = "call"
  /\ Executed(TRUE)
  /\ listed => ~canceled
  /\ IF call.request.tool = "select" THEN Relist(listed, current', FALSE)
     ELSE UNCHANGED <<currentDBWritable, missed>>
  /\ answered' = answered \cup {call.id}
  /\ call' = NoCall
  /\ pc' = "tools"
  /\ UNCHANGED <<messages, pending, iteration, thinking, canceled, saved, sent,
                 abandoned, used>>

\* A call that was cancelled ends the query.  Any other failure is the call's
\* result, and so is an error the tool answers with, Escape or not.
CallFails(done) ==
  /\ pc = "call"
  /\ Executed(done)
  /\ missed' = (missed \/ (done /\ call.request.tool = "select"))
  /\ \/ canceled /\ ToPrompt /\ abandoned' = TRUE
     \/ /\ answered' = answered \cup {call.id}
          /\ call' = NoCall
          /\ pc' = "tools"
          /\ UNCHANGED <<pending, iteration, thinking, canceled, sent, abandoned>>
  /\ UNCHANGED <<messages, currentDBWritable, saved, used>>

ToolsDone(n) ==
  /\ pc = "tools" /\ pending = <<>>
  /\ messages' = Append(messages, [C!Text("tool", {}, n) EXCEPT !.results = answered])
  /\ answered' = {}
  /\ pc' = "think"
  /\ UNCHANGED <<pending, call, iteration, thinking, canceled, currentDBWritable,
                 current, saved, sent, abandoned, missed, slipped, used>>

Quit ==
  /\ pc = "prompt"
  /\ pc' = "exit"
  /\ UNCHANGED <<messages, pending, call, answered, iteration, thinking, canceled,
                 currentDBWritable, current, saved, sent, abandoned, missed, slipped, used>>

\* The steps of a query, which the client and the services it calls take.
Step ==
  \/ \E s \in BOOLEAN : Think(s)
  \/ LoopLimit
  \/ LLMFails
  \/ \E n \in Lengths : LLMAnswers(n)
  \/ \E k \in 1..MaxParallel : \E rs \in [1..k -> Requests] : LLMCallsTools(rs)
  \/ NextTool
  \/ \E b \in BOOLEAN : Confirm(b) \/ CallReturns(b) \/ CallFails(b)
  \/ \E n \in Lengths : ToolsDone(n)

Next ==
  \/ \E db \in DBs, s, l \in BOOLEAN : Run(db, s, l)
  \/ \E db \in DBs, t, r, l \in BOOLEAN : SetDatabase(db, t, r, l)
  \/ NewConversation
  \/ \E l \in BOOLEAN : SaveConversation(l)
  \/ \E f, t, l \in BOOLEAN : LoadConversation(f, t, l)
  \/ \E db \in DBs : OtherSession(db)
  \/ \E texts \in TypedText \cup PromptMessages : Query(texts)
  \/ Escape
  \/ Step
  \/ Quit

Spec == Init /\ [][Next]_vars

\* Requests to a model have a timeout (llm_tracing.go:25).  That a tool
\* answers, and the user a confirmation, is assumed: only Escape ends such a
\* wait.
FairSpec == Spec /\ WF_vars(Step)

-----------------------------------------------------------------------------
TypeOK ==
  /\ pc \in {"start", "prompt", "think", "llm", "tools", "confirm", "call", "exit", "panic"}
  /\ messages \in Seq(C!Message)
  /\ pending \in Seq(Call)
  /\ answered \subseteq CallIds
  /\ iteration \in 0..MaxAgenticLoops
  /\ thinking \in {"open", "closed"}
  /\ {canceled, currentDBWritable, abandoned, missed, slipped} \subseteq BOOLEAN
  /\ current \in DBs

\* What the client sends when it compacts for itself, or does not compact, is
\* a history a provider accepts: every call answered by the message after it
\* (localCompactMessages, client.go:1067-1071).  Two things excuse it: a query
\* cancelled inside a tool call, and the server's compaction.
SentPaired ==
  sent.by # "server" /\ ~abandoned /\ pc = "llm" => C!Paired(sent.messages)

\* The server's compactor keeps every call of the history with its results
\* when these have the role it expects of them, "user"
\* (compactor.go:426-446, 488-545).
ServerKeepsPairs ==
  pc = "llm" /\ ~abandoned =>
    C!Paired(ServerCompacted([m \in 1..Len(messages) |->
               IF messages[m].role = "tool" THEN [messages[m] EXCEPT !.role = "user"]
               ELSE messages[m]]))

\* The same of the history as the client sends it, its results with the role
\* "tool" (client.go:1357-1361).
\* Not so in the code: see the README.
ServerKeepsToolPairs == pc = "llm" /\ ~abandoned => C!Paired(ServerCompacted(messages))

\* A write that runs unconfirmed on a database that takes writes does so only
\* while the client has had no listing since the database last changed
\* (client.go:1280, 1344-1353).
ConfirmedUnlessMissed == [][slipped' /\ ~slipped => missed]_vars

\* The database has been listed since it changed, and the flag is right.
FlagSound == pc # "start" /\ ~missed => (currentDBWritable <=> current \in Writable)

\* What the security guide says of the client: a write on a write-enabled
\* database is confirmed first.
\* Not so in the code: see the README.
WritesConfirmed == ~slipped

\* A malformed input fails its tool call (client.go:1240-1244): it does not
\* end the client.
\* Not so in the code: see the README.
MalformedAnswered == pc # "panic"

\* Every query ends: the user gets the prompt back, or the client is gone.
QueryEnds == pc = "think" ~> pc \in {"prompt", "exit", "panic"}
=============================================================================

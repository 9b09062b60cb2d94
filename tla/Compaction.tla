----------------------------- MODULE Compaction -----------------------------
(***************************************************************************)
(* Which messages of a conversation survive compaction: the server's       *)
(* compactor (internal/compactor) and the chat client's own fallback       *)
(* (internal/chat/client.go).  Both are functions of the messages.         *)
(*                                                                         *)
(* A message is its role, the tool calls it makes, the calls it answers,   *)
(* the marks its text carries and the length of that text in bytes.  The   *)
(* marks stand for the phrases and patterns the classifier and the         *)
(* estimators look for.  Importance is in hundredths.                      *)
(***************************************************************************)
EXTENDS Integers, Sequences, FiniteSets, SequencesExt

CONSTANTS Ids,                \* identifiers of tool calls
          DefaultMinImportant \* messages kept of the middle, if there are as many

Roles == {"user", "assistant", "tool", "system"}
Marks == {"correction", "question", "ack", "schema", "plan", "error",
          "insight", "docs", "sql", "json", "code", "prose", "spaced", "topic"}
ToolNames == {"get_schema_info", "execute_explain", "query_database",
              "similarity_search", "other"}

Message == [role: Roles, uses: [Ids -> ToolNames \cup {"none"}],
            results: SUBSET Ids, marks: SUBSET Marks, len: Nat]

NoUses == [i \in Ids |-> "none"]
Text(role, marks, len) ==
  [role |-> role, uses |-> NoUses, results |-> {}, marks |-> marks, len |-> len]

HasToolUse(m) == \E i \in Ids : m.uses[i] # "none"
HasToolResults(m) == m.results # {}
ToolsOf(m) == {m.uses[i] : i \in Ids} \ {"none"}

-----------------------------------------------------------------------------
(* Classification.                                                         *)

Class(class, importance) == [class |-> class, importance |-> importance]

ClassifyUser(m) ==
  CASE "correction" \in m.marks                 -> Class("anchor", 100)
    [] "question" \in m.marks /\ m.len > 50     -> Class("important", 80)
    [] "ack" \in m.marks /\ m.len < 30 /\ "correction" \notin m.marks
                                                -> Class("transient", 10)
    [] OTHER                                    -> Class("contextual", 60)

\* The first of the listed patterns that matches decides.
ClassifyAssistant(m) ==
  IF "schema" \in m.marks THEN Class("anchor", 100)
  ELSE IF "plan" \in m.marks THEN Class("important", 85)
  ELSE IF "error" \in m.marks THEN Class("important", 80)
  ELSE IF "insight" \in m.marks THEN Class("important", 85)
  ELSE IF "docs" \in m.marks THEN Class("important", 75)
  ELSE IF m.len > 500 THEN Class("contextual", 65)
  ELSE Class("routine", 40)

ByTool(tool, m) ==
  CASE tool = "get_schema_info"   -> Class("anchor", 100)
    [] tool = "execute_explain"   -> Class("important", 85)
    [] tool = "query_database"    -> IF m.len > 500 THEN Class("important", 75)
                                     ELSE Class("contextual", 60)
    [] tool = "similarity_search" -> Class("contextual", 65)

\* A message of several calls is classed by the first that has a rule: one
\* of them here, since the calls of a message are not ordered.
ClassifyTool(m, preserve) ==
  IF preserve THEN Class("important", 80)
  ELSE IF ToolsOf(m) \ {"other"} # {}
       THEN ByTool(CHOOSE t \in ToolsOf(m) \ {"other"} : TRUE, m)
  ELSE IF "schema" \in m.marks THEN Class("anchor", 100)
  ELSE IF "error" \in m.marks THEN Class("important", 80)
  ELSE Class("contextual", 60)

Classify(m, preserve) ==
  IF HasToolUse(m) \/ HasToolResults(m) THEN ClassifyTool(m, preserve)
  ELSE CASE m.role = "user"      -> ClassifyUser(m)
         [] m.role = "assistant" -> ClassifyAssistant(m)
         [] m.role = "system"    -> Class("important", 80)
         [] OTHER                -> Class("routine", 50)

-----------------------------------------------------------------------------
(* Token estimates: one by provider, which decides whether to compact, and *)
(* one that is the same for all, which measures the result.                *)

\* Bytes per token and the multipliers, in hundredths, and the overhead.
CounterConfig(counter) ==
  CASE counter = "openai"    -> [chars |-> 400, overhead |-> 4,  sql |-> 115, json |-> 110, code |-> 105]
    [] counter = "anthropic" -> [chars |-> 380, overhead |-> 5,  sql |-> 120, json |-> 115, code |-> 110]
    [] counter = "ollama"    -> [chars |-> 450, overhead |-> 3,  sql |-> 110, json |-> 110, code |-> 105]
    [] OTHER                 -> [chars |-> 400, overhead |-> 10, sql |-> 120, json |-> 115, code |-> 110]

Multiplier(c, m) ==
  IF "sql" \in m.marks THEN c.sql
  ELSE IF "json" \in m.marks THEN c.json
  ELSE IF "code" \in m.marks THEN c.code ELSE 100

Adjustment(counter, m) ==
  CASE counter = "openai" /\ "spaced" \in m.marks   -> 105
    [] counter = "anthropic" /\ "prose" \in m.marks -> 95
    [] counter = "ollama"                           -> 110
    [] OTHER                                        -> 100

EstimateTokens(counter, m) ==
  LET c == CounterConfig(counter)
  IN (m.len * Multiplier(c, m) * Adjustment(counter, m)) \div (100 * c.chars) + c.overhead

TotalOf(Measure(_), messages) ==
  FoldLeft(LAMBDA sum, m : sum + Measure(m), 0, messages)

\* The estimator that does not know the provider is the generic counter.
GenericTokens(messages) == TotalOf(LAMBDA m : EstimateTokens("generic", m), messages)
ProviderTokens(counter, messages) ==
  TotalOf(LAMBDA m : EstimateTokens(counter, m), messages)

-----------------------------------------------------------------------------
(* The server's compactor.  A request r has the fields messages, maxTokens,*)
(* recentWindow, keepAnchors, preserve, summarize, minImportant, counter.  *)

\* A window that begins with tool results is moved back to the calls, when
\* the results have one of the roles the caller expects of them.
AdjustStart(messages, start, resultRoles) ==
  IF /\ 1 < start /\ start < Len(messages)
     /\ messages[start + 1].role \in resultRoles
     /\ HasToolResults(messages[start + 1])
  THEN start - 1 ELSE start

ServerResultRoles == {"user"}

\* Positions count from 0, as in the source: messages[start + 1] is the
\* first of the window.
RecentStart(r) ==
  LET n == Len(r.messages) - r.recentWindow
  IN AdjustStart(r.messages, IF n < 1 THEN 1 ELSE n, ServerResultRoles)

Kept(m, r) ==
  LET c == Classify(m, r.preserve)
  IN \/ r.keepAnchors /\ c.class = "anchor"
     \/ c.class = "important"
     \/ c.importance >= 70

\* The positions of S, a finite set of numbers, in ascending order.
InOrder(S) ==
  [k \in 1..Cardinality(S) |-> CHOOSE i \in S : Cardinality({j \in S : j <= i}) = k]

MessagesAt(messages, S) == [k \in 1..Cardinality(S) |-> messages[InOrder(S)[k]]]

\* The first of the middle that are not kept yet, up to the minimum.  Messages
\* are told apart by role and content only.
FillUp(important, middle, r) ==
  LET fit == {i \in 1..Len(middle) :
                /\ Classify(middle[i], r.preserve).class # "transient"
                /\ \A k \in DOMAIN important : important[k] # middle[i]
                /\ \A j \in 1..(i - 1) : middle[j] # middle[i]}
  IN important \o MessagesAt(middle,
       {i \in fit : Len(important) + Cardinality({j \in fit : j <= i}) <= r.minImportant})

ImportantOf(middle, r) == {i \in 1..Len(middle) : Kept(middle[i], r)}

ClassifyAndKeepImportant(middle, r) ==
  FillUp(MessagesAt(middle, ImportantOf(middle, r)), middle, r)

FirstIndex(middle, m) ==
  CHOOSE i \in 1..Len(middle) : middle[i] = m /\ \A j \in 1..(i - 1) : middle[j] # m

IsResult(m) == m.role \in ServerResultRoles /\ HasToolResults(m)
IsCall(m) == m.role = "assistant" /\ HasToolUse(m)

\* The other half of a pair that was kept is added; only then are the kept
\* messages put back in order.
EnsureToolPairs(middle, important) ==
  LET kept  == {FirstIndex(middle, important[k]) : k \in DOMAIN important}
      extra == {i \in (1..Len(middle)) \ kept :
                  \/ /\ i + 1 \in kept
                     /\ IsResult(middle[i + 1]) /\ IsCall(middle[i])
                  \/ /\ i - 1 \in kept
                     /\ IsCall(middle[i - 1]) /\ IsResult(middle[i])}
  IN IF extra = {} THEN important ELSE MessagesAt(middle, kept \cup extra)

\* The summary is a text of the assistant's that names the topics, tables
\* and tools of the middle: the tables and the tools by the marks they have.
SummaryOf(middle, summaryLen) ==
  Text("assistant",
       (UNION {middle[k].marks : k \in DOMAIN middle}) \cap {"topic"}, summaryLen)

Compacted(r) ==
  LET start     == RecentStart(r)
      middle    == SubSeq(r.messages, 2, start)
      important == EnsureToolPairs(middle, ClassifyAndKeepImportant(middle, r))
      recent    == SubSeq(r.messages, start + 1, Len(r.messages))
      short     == <<r.messages[1]>> \o important \o recent
  IN IF GenericTokens(short) > r.maxTokens \/ r.summarize
     THEN <<r.messages[1], SummaryOf(middle, r.summaryLen)>> \o Tail(short)
     ELSE short

WithinLimits(r) ==
  \/ Len(r.messages) <= r.recentWindow + 1
  \/ ProviderTokens(r.counter, r.messages) <= r.maxTokens

Compact(r) == IF WithinLimits(r) THEN r.messages ELSE Compacted(r)

\* A request of the client's leaves the options out and gets the defaults.
DefaultOptions ==
  [preserve |-> TRUE, summarize |-> TRUE, counter |-> "generic",
   minImportant |-> DefaultMinImportant]

-----------------------------------------------------------------------------
(* The chat client.                                                        *)

\* As if the client's tool results still had the role "user".
ChatResultRoles_UserOnly == {"user"}

ChatResultRoles == {"user", "tool"}

LocalCompact(messages, recent) ==
  LET n     == Len(messages) - recent
      start == AdjustStart(messages, IF n < 1 THEN 1 ELSE n, ChatResultRoles)
      first == IF messages # <<>> /\ messages[1].role = "user"
               THEN <<messages[1]>> ELSE <<>>
  IN first \o SubSeq(messages, start + 1, Len(messages))

-----------------------------------------------------------------------------
(* What a provider accepts: the calls of a message are answered by the     *)
(* messages right after it, and nothing else is answered.                  *)

CallsOf(m) == {i \in Ids : m.uses[i] # "none"}

\* The calls still open after the first k messages.
OpenAfter(messages, k) ==
  {i \in Ids : \E j \in 1..k : /\ i \in CallsOf(messages[j])
                             /\ \A l \in (j + 1)..k : i \notin messages[l].results}

Paired(messages) ==
  \A k \in 1..Len(messages) :
    LET open == OpenAfter(messages, k - 1)
    IN /\ messages[k].results \subseteq open
       /\ messages[k].results = {} => open = {}
=============================================================================

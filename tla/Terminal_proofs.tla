--------------------------- MODULE Terminal_proofs ---------------------------
(***************************************************************************)
(* The command-line client.  First the chat, for any databases, any bounds *)
(* and any compaction: the flag that decides whether a write is confirmed  *)
(* is right unless a listing was missed, so a write slips past the user    *)
(* only then.  Next what it sends of its history, compacted or not: every  *)
(* tool call is there with its results.  Then the tokens, for any          *)
(* processes and servers: a login that nothing disturbs is never taken for *)
(* a replay, and the live pair of each can be reached.                     *)
(***************************************************************************)
EXTENDS MCTerminal, FiniteSetTheorems, TLAPS

\* An unconfirmed write is under way only of a client that takes its
\* database for read-only: the flag cannot change while the call runs.
UnconfirmedIsBelievedSafe ==
  pc = "call" /\ call.request.tool = "write" /\ ~call.confirmed => ~currentDBWritable

\* What the user is asked about is a call, with its confirmation to record.
AskedOfCall == pc = "confirm" => "confirmed" \in DOMAIN call

\* The invariant of both properties.
BeliefInv == FlagSound /\ UnconfirmedIsBelievedSafe /\ AskedOfCall

\* At first nothing is believed.
LEMMA BeliefInit == Init => BeliefInv
BY DEF Init, BeliefInv, FlagSound, UnconfirmedIsBelievedSafe, AskedOfCall

\* Whatever leaves the belief, the database and the call alone keeps the
\* invariant, and so does whatever ends a call or never had one.
LEMMA Undisturbed ==
  ASSUME BeliefInv, pc # "start",
         UNCHANGED <<currentDBWritable, current, missed>>,
         pc' \notin {"call", "confirm"} \/ UNCHANGED <<pc, call>>
  PROVE  BeliefInv'
BY DEF BeliefInv, FlagSound, UnconfirmedIsBelievedSafe, AskedOfCall

\* A listing that succeeds makes the flag right; one that fails is missed.
LEMMA RelistSound ==
  ASSUME NEW listed \in BOOLEAN, NEW db, NEW otherwise,
         Relist(listed, db, otherwise), current' = db
  PROVE  FlagSound'
BY DEF Relist, FlagSound

\* Every step keeps the invariant.
LEMMA BeliefStep == BeliefInv /\ [Next]_vars => BeliefInv'
<1> SUFFICES ASSUME BeliefInv, [Next]_vars PROVE BeliefInv'
    OBVIOUS
<1>1. CASE \E db \in DBs, s, l \in BOOLEAN : Run(db, s, l)
  <2> PICK db \in DBs, s \in BOOLEAN, l \in BOOLEAN : Run(db, s, l)
      BY <1>1
  <2>1. FlagSound'
        BY RelistSound DEF Run
  <2>2. UnconfirmedIsBelievedSafe' /\ AskedOfCall'
        BY DEF Run, UnconfirmedIsBelievedSafe, AskedOfCall
  <2> QED BY <2>1, <2>2 DEF BeliefInv
<1>2. CASE \E db \in DBs, t, r, l \in BOOLEAN : SetDatabase(db, t, r, l)
  <2> PICK db \in DBs, t \in BOOLEAN, r \in BOOLEAN, l \in BOOLEAN : SetDatabase(db, t, r, l)
      BY <1>2
  <2>1. FlagSound'
    <3>1. CASE t /\ r
          BY <3>1, RelistSound DEF SetDatabase, Command
    <3>2. CASE ~(t /\ r)
          BY <3>2 DEF SetDatabase, Command, BeliefInv, FlagSound
    <3> QED BY <3>1, <3>2
  <2>2. UnconfirmedIsBelievedSafe' /\ AskedOfCall'
        BY DEF SetDatabase, Command, UnconfirmedIsBelievedSafe, AskedOfCall
  <2> QED BY <2>1, <2>2 DEF BeliefInv
<1>3. CASE NewConversation
      BY <1>3, Undisturbed DEF NewConversation, Command
<1>4. CASE \E l \in BOOLEAN : SaveConversation(l)
      BY <1>4, Undisturbed DEF SaveConversation, Command
<1>5. CASE \E f, t, l \in BOOLEAN : LoadConversation(f, t, l)
  <2> PICK f \in BOOLEAN, t \in BOOLEAN, l \in BOOLEAN : LoadConversation(f, t, l)
      BY <1>5
  <2>1. FlagSound'
    <3>1. CASE saved.connection = {}
          BY <3>1 DEF LoadConversation, Command, BeliefInv, FlagSound
    <3>2. CASE saved.connection # {}
          BY <3>2, RelistSound DEF LoadConversation
    <3> QED BY <3>1, <3>2
  <2>2. UnconfirmedIsBelievedSafe' /\ AskedOfCall'
        BY DEF LoadConversation, Command, UnconfirmedIsBelievedSafe, AskedOfCall
  <2> QED BY <2>1, <2>2 DEF BeliefInv
<1>6. CASE \E db \in DBs : OtherSession(db)
      BY <1>6 DEF OtherSession, BeliefInv, FlagSound, UnconfirmedIsBelievedSafe, AskedOfCall
<1>7. CASE \E texts \in TypedText \cup PromptMessages : Query(texts)
      BY <1>7, Undisturbed DEF Query
<1>8. CASE Escape
      BY <1>8, Undisturbed DEF Escape
<1>9. CASE Step
  <2>1. CASE \E s \in BOOLEAN : Think(s)
        BY <2>1, Undisturbed DEF Think
  <2>2. CASE LoopLimit
        BY <2>2, Undisturbed DEF LoopLimit, ToPrompt
  <2>3. CASE LLMFails
        BY <2>3, Undisturbed DEF LLMFails, ToPrompt
  <2>4. CASE \E n \in Lengths : LLMAnswers(n)
        BY <2>4, Undisturbed DEF LLMAnswers, ToPrompt
  <2>5. CASE \E k \in 1..MaxParallel : \E rs \in [1..k -> Requests] : LLMCallsTools(rs)
    <3> PICK k \in 1..MaxParallel : \E rs \in [1..k -> Requests] : LLMCallsTools(rs)
        BY <2>5
    <3> PICK rs \in [1..k -> Requests] : LLMCallsTools(rs)
        OBVIOUS
    <3>1. /\ pc = "llm" /\ pc' = "tools"
          /\ UNCHANGED <<currentDBWritable, current, missed>>
          BY DEF LLMCallsTools
    <3> QED BY <3>1, Undisturbed
  <2>6. CASE NextTool
    <3>1. FlagSound'
          BY <2>6 DEF NextTool, BeliefInv, FlagSound
    <3>2. UnconfirmedIsBelievedSafe' /\ AskedOfCall'
          BY <2>6 DEF NextTool, UnconfirmedIsBelievedSafe, AskedOfCall
    <3> QED BY <3>1, <3>2 DEF BeliefInv
  <2>7. ASSUME NEW b \in BOOLEAN, Confirm(b)
        PROVE  BeliefInv'
    <3>1. FlagSound'
          BY <2>7 DEF Confirm, BeliefInv, FlagSound
    <3>2. UnconfirmedIsBelievedSafe' /\ AskedOfCall'
          BY <2>7 DEF Confirm, BeliefInv, UnconfirmedIsBelievedSafe, AskedOfCall
    <3> QED BY <3>1, <3>2 DEF BeliefInv
  <2>8. ASSUME NEW b \in BOOLEAN, CallReturns(b)
        PROVE  BeliefInv'
    <3>1. FlagSound'
      <4>1. CASE call.request.tool = "select"
            BY <2>8, <4>1, RelistSound DEF CallReturns
      <4>2. CASE call.request.tool # "select"
            BY <2>8, <4>2 DEF CallReturns, Executed, BeliefInv, FlagSound
      <4> QED BY <4>1, <4>2
    <3>2. UnconfirmedIsBelievedSafe' /\ AskedOfCall'
          BY <2>8 DEF CallReturns, UnconfirmedIsBelievedSafe, AskedOfCall
    <3> QED BY <3>1, <3>2 DEF BeliefInv
  <2>9. ASSUME NEW b \in BOOLEAN, CallFails(b)
        PROVE  BeliefInv'
    <3>1. FlagSound'
          BY <2>9 DEF CallFails, Executed, BeliefInv, FlagSound
    <3>2. pc' \notin {"call", "confirm"}
          BY <2>9 DEF CallFails, ToPrompt
    <3> QED BY <3>1, <3>2 DEF BeliefInv, UnconfirmedIsBelievedSafe, AskedOfCall
  <2>10. CASE \E n \in Lengths : ToolsDone(n)
         BY <2>10, Undisturbed DEF ToolsDone
  <2> QED BY <1>9, <2>1, <2>2, <2>3, <2>4, <2>5, <2>6, <2>7, <2>8, <2>9, <2>10 DEF Step
<1>10. CASE Quit
       BY <1>10, Undisturbed DEF Quit
<1>11. CASE UNCHANGED vars
       BY <1>11 DEF vars, BeliefInv, FlagSound, UnconfirmedIsBelievedSafe, AskedOfCall
<1> QED BY <1>1, <1>2, <1>3, <1>4, <1>5, <1>6, <1>7, <1>8, <1>9, <1>10, <1>11 DEF Next

\* BeliefInv holds of every reachable state.
THEOREM BeliefInvCorrect == Spec => []BeliefInv
BY BeliefInit, BeliefStep, PTL DEF Spec

\* Whatever commands, cancellations, lost answers and other sessions there
\* are, the flag is right whenever no listing was missed since the database
\* last changed.
THEOREM FlagSoundCorrect == Spec => []FlagSound
<1>1. BeliefInv => FlagSound
      BY DEF BeliefInv
<1> QED BY <1>1, BeliefInvCorrect, PTL

\* A step that lets a write slip is the end of a call nobody confirmed: the
\* flag said read-only, so it was wrong, so a listing was missed.
LEMMA SlipsOnlyMissed ==
  ASSUME BeliefInv, Next, slipped', ~slipped
  PROVE  missed
<1>1. \/ \E b \in BOOLEAN : CallReturns(b)
      \/ \E b \in BOOLEAN : CallFails(b)
  <2>1. CASE Step
        BY <2>1 DEF Step, Think, LoopLimit, LLMFails, LLMAnswers, LLMCallsTools, NextTool,
                    Confirm, ToolsDone
  <2>2. CASE ~Step
        BY <2>2 DEF Next, Run, SetDatabase, Command, NewConversation, SaveConversation,
                    LoadConversation, OtherSession, Query, Escape, Quit
  <2> QED BY <2>1, <2>2
<1>2. /\ pc = "call" /\ call.request.tool = "write" /\ ~call.confirmed
      /\ current \in Writable
      BY <1>1 DEF CallReturns, CallFails, Executed
<1>3. ~currentDBWritable
      BY <1>2 DEF BeliefInv, UnconfirmedIsBelievedSafe
<1> QED BY <1>2, <1>3 DEF BeliefInv, FlagSound

\* A write runs unconfirmed on a database that takes writes only while a
\* listing was missed.
THEOREM ConfirmedUnlessMissedCorrect == Spec => ConfirmedUnlessMissed
<1>1. BeliefInv /\ [Next]_vars => [slipped' /\ ~slipped => missed]_vars
      BY SlipsOnlyMissed
<1> QED BY <1>1, BeliefInvCorrect, PTL DEF Spec, ConfirmedUnlessMissed

(***************************************************************************)
(* The chat: what is sent has every tool call with its results, whatever   *)
(* compaction leaves out.                                                  *)
(***************************************************************************)

\* Every result follows its call at once.
Linked(s) ==
  \A k \in 1..Len(s) : s[k].results = IF k = 1 THEN {} ELSE C!CallsOf(s[k - 1])

\* And no call is left open.
Whole(s) == Linked(s) /\ (s # <<>> => C!CallsOf(s[Len(s)]) = {})

\* Results have a role of their own, calls are the assistant's, and no two
\* messages make the same call.
Ordered(s, role) ==
  /\ Linked(s)
  /\ s # <<>> => s[1].role = "user"
  /\ \A k \in 1..Len(s) : /\ s[k].results # {} => s[k].role = role
                          /\ C!CallsOf(s[k]) # {} => s[k].role = "assistant"
  /\ \A j, k \in 1..Len(s) : j # k => C!CallsOf(s[j]) \cap C!CallsOf(s[k]) = {}

\* The calls of a history are among those made so far.
Numbered(s, n) == \A k \in 1..Len(s) : C!CallsOf(s[k]) \subseteq 1..n

\* The calls of the last answer that have no result yet.
Awaited == {pending[k].id : k \in 1..Len(pending)}
             \cup (IF pc \in {"confirm", "call"} THEN {call.id} ELSE {})

\* The types of the chat, of what is saved and of the call under way.
ChatTypes ==
  /\ TypeOK
  /\ saved \in [messages: Seq(C!Message), connection: SUBSET DBs, abandoned: BOOLEAN]
  /\ used \in [queries: Nat, commands: Nat, calls: Nat]
  /\ pc \in {"confirm", "call"} => call \in [id: CallIds, request: Requests, confirmed: BOOLEAN]
  /\ pc \in {"tools", "confirm", "call"} => sent = NoRequest

\* Between queries and before each request the history is whole; in between,
\* only the calls of its last message are open, answered or awaited.
HistoryInv ==
  /\ ~abandoned => Ordered(messages, "tool") /\ Numbered(messages, used.calls)
  /\ ~saved.abandoned => Ordered(saved.messages, "tool") /\ Numbered(saved.messages, used.calls) /\ Whole(saved.messages)
  /\ pc \notin {"start", "prompt", "exit"} => messages # <<>>
  /\ ~abandoned =>
       IF pc \in {"tools", "confirm", "call", "panic"}
       THEN pc # "panic" => C!CallsOf(messages[Len(messages)]) = answered \cup Awaited
       ELSE Whole(messages)
  /\ pc = "llm" => sent.by = "server" \/ sent.messages \in {messages, LocalCompacted}

\* The module of the compaction counts as this one does.
LEMMA SameCardinality == \A S : C!Cardinality(S) = Cardinality(S)
BY DEF C!Cardinality, Cardinality

\* The place of an element of a set of numbers in ascending order.
Rank(S, i) == Cardinality({j \in S : j <= i})

\* The elements of a set of numbers are counted in their order.
LEMMA RankOrder ==
  ASSUME NEW n \in Nat, NEW S \in SUBSET (1..n)
  PROVE  /\ IsFiniteSet(S) /\ Cardinality(S) \in Nat
         /\ \A i \in S : Rank(S, i) \in 1..Cardinality(S)
         /\ \A i, j \in S : i < j => Rank(S, i) < Rank(S, j)
<1>1. IsFiniteSet(S) /\ Cardinality(S) \in Nat
  <2>1. IsFiniteSet(1..n)
    BY FS_Interval
  <2> QED
    BY <2>1, FS_Subset, FS_CardinalityType
<1>2. ASSUME NEW i \in S
      PROVE  /\ IsFiniteSet({j \in S : j <= i}) /\ Rank(S, i) \in Nat
             /\ Rank(S, i) <= Cardinality(S) /\ Rank(S, i) # 0
  <2> DEFINE T == {j \in S : j <= i}
  <2>1. T \in SUBSET S /\ i \in T
    OBVIOUS
  <2>2. IsFiniteSet(T) /\ Cardinality(T) <= Cardinality(S)
    BY <1>1, <2>1, FS_Subset
  <2>3. Cardinality(T) \in Nat /\ Cardinality(T) # 0
    <3> HIDE DEF T
    <3> QED
      BY <2>1, <2>2, FS_CardinalityType, FS_EmptySet
  <2> QED
    BY <2>2, <2>3 DEF Rank
<1>3. ASSUME NEW i \in S, NEW j \in S, i < j
      PROVE  Rank(S, i) < Rank(S, j)
  <2> DEFINE T == {k \in S : k <= i}
             U == {k \in S : k <= j}
  <2>0. \A k \in S : k \in Nat
    OBVIOUS
  <2>1. T \in SUBSET U /\ j \in U /\ j \notin T
    <3>1. i \in Nat /\ j \in Nat
      BY <2>0
    <3>2. \A k \in S : k <= i => k <= j
      BY <1>3, <2>0, <3>1
    <3>3. j <= j /\ ~(j <= i)
      BY <1>3, <3>1
    <3> QED
      BY <3>2, <3>3
  <2>2. IsFiniteSet(U) /\ Rank(S, i) \in Nat /\ Rank(S, j) \in Nat
    BY <1>2
  <2>3. Cardinality(T) <= Cardinality(U) /\ Cardinality(T) # Cardinality(U)
    <3> HIDE DEF T, U
    <3> QED
      BY <2>1, <2>2, FS_Subset
  <2> QED
    BY <2>2, <2>3 DEF Rank
<1>4. ASSUME NEW i \in S
      PROVE  Rank(S, i) \in 1..Cardinality(S)
  <2>1. Rank(S, i) \in Nat /\ Rank(S, i) <= Cardinality(S) /\ Rank(S, i) # 0
    BY <1>2
  <2> QED
    BY <1>1, <2>1
<1> QED
  BY <1>1, <1>3, <1>4

\* Each count is that of one element.
LEMMA RankOnto ==
  ASSUME NEW n \in Nat, NEW S \in SUBSET (1..n), NEW k \in 1..Cardinality(S)
  PROVE  \E i \in S : Rank(S, i) = k
<1> DEFINE N == 1..Cardinality(S)
           f == [i \in S |-> Rank(S, i)]
<1>1. /\ IsFiniteSet(S) /\ Cardinality(S) \in Nat
      /\ \A i \in S : Rank(S, i) \in N
      /\ \A i, j \in S : i < j => Rank(S, i) < Rank(S, j)
  BY RankOrder
<1>2. SUFFICES ASSUME \A i \in S : Rank(S, i) # k
               PROVE  FALSE
  OBVIOUS
<1>3. IsFiniteSet(N) /\ Cardinality(N) = Cardinality(S)
  BY <1>1, FS_Interval
<1>4. IsFiniteSet(N \ {k}) /\ Cardinality(N \ {k}) = Cardinality(S) - 1
  <2> HIDE DEF N
  <2> QED
    BY <1>3, FS_RemoveElement DEF N
<1>5. f \in [S -> N \ {k}]
  BY <1>1, <1>2
<1>6. PICK i \in S, j \in S : i # j /\ f[i] = f[j]
  <2>1. Cardinality(S) - 1 < Cardinality(S)
    BY <1>1
  <2> HIDE DEF N, f
  <2> QED
    BY <1>1, <1>3, <1>4, <1>5, <2>1, FS_PigeonHole
<1>7. Rank(S, i) = Rank(S, j)
  BY <1>6
<1>8. i < j \/ j < i
  BY <1>6
<1>9. Rank(S, i) \in Nat /\ Rank(S, j) \in Nat
  BY <1>1
<1> QED
  BY <1>1, <1>7, <1>8, <1>9

\* InOrder runs through a set of positions, none of which lies between two that
\* follow one another, before the first or after the last.
LEMMA InOrderRuns ==
  ASSUME NEW n \in Nat, NEW S \in SUBSET (1..n)
  PROVE  /\ Cardinality(S) \in Nat
         /\ \A k \in 1..Cardinality(S) : C!InOrder(S)[k] \in S
         /\ \A i \in S : \E k \in 1..Cardinality(S) : C!InOrder(S)[k] = i
         /\ \A k \in 1..Cardinality(S) : k > 1 =>
              /\ C!InOrder(S)[k - 1] < C!InOrder(S)[k]
              /\ \A i \in S : i <= C!InOrder(S)[k - 1] \/ C!InOrder(S)[k] <= i
         /\ \A i \in S : C!InOrder(S)[1] <= i /\ i <= C!InOrder(S)[Cardinality(S)]
<1> DEFINE N == 1..Cardinality(S)
           p == C!InOrder(S)
<1>1. /\ Cardinality(S) \in Nat
      /\ \A i \in S : Rank(S, i) \in N
      /\ \A i, j \in S : i < j => Rank(S, i) < Rank(S, j)
  BY RankOrder
<1>2. \A k \in N : p[k] \in S /\ Rank(S, p[k]) = k
  <2>1. ASSUME NEW k \in N
        PROVE  p[k] = CHOOSE i \in S : Rank(S, i) = k
    BY SameCardinality DEF C!InOrder, Rank
  <2>2. ASSUME NEW k \in N
        PROVE  \E i \in S : Rank(S, i) = k
    BY <2>2, RankOnto
  <2> QED
    BY <2>1, <2>2
<1> HIDE DEF p
<1>3. \A i, j \in S : Rank(S, i) < Rank(S, j) => i < j
  <2> TAKE i \in S, j \in S
  <2>1. i \in Nat /\ j \in Nat /\ Rank(S, i) \in Nat /\ Rank(S, j) \in Nat
    BY <1>1
  <2> QED
    BY <1>1, <2>1
<1>4. \A i, j \in S : Rank(S, i) <= Rank(S, j) => i <= j
  <2> TAKE i \in S, j \in S
  <2>1. i \in Nat /\ j \in Nat /\ Rank(S, i) \in Nat /\ Rank(S, j) \in Nat
    BY <1>1
  <2> QED
    BY <1>1, <2>1
<1>5. ASSUME NEW i \in S
      PROVE  \E k \in N : p[k] = i
  <2> DEFINE k == Rank(S, i)
  <2>1. k \in N /\ p[k] \in S /\ Rank(S, p[k]) = k
    BY <1>1, <1>2
  <2>2. p[k] <= i /\ i <= p[k]
    <3>1. k \in Nat /\ k <= k
      BY <2>1
    <3>2. Rank(S, p[k]) <= Rank(S, i) /\ Rank(S, i) <= Rank(S, p[k])
      BY <2>1, <3>1
    <3> HIDE DEF k
    <3> QED
      BY <1>4, <2>1, <3>2
  <2>3. p[k] \in Nat /\ i \in Nat
    <3>1. S \subseteq Nat
      OBVIOUS
    <3> QED
      BY <2>1, <3>1
  <2>4. p[k] = i
    BY <2>2, <2>3
  <2> QED
    BY <2>1, <2>4
<1>6. ASSUME NEW k \in N, k > 1
      PROVE  /\ p[k - 1] < p[k]
             /\ \A i \in S : i <= p[k - 1] \/ p[k] <= i
  <2>1. k - 1 \in N
    BY <1>1, <1>6
  <2>2. p[k - 1] < p[k]
    <3>1. /\ p[k - 1] \in S /\ Rank(S, p[k - 1]) = k - 1
          /\ p[k] \in S /\ Rank(S, p[k]) = k /\ k - 1 < k
      BY <1>2, <2>1
    <3> QED
      BY <1>3, <3>1
  <2>3. ASSUME NEW i \in S
        PROVE  i <= p[k - 1] \/ p[k] <= i
    <3>1. Rank(S, i) \in Nat
      BY <1>1
    <3>2. Rank(S, i) <= k - 1 \/ k <= Rank(S, i)
      BY <3>1
    <3> QED
      BY ZenonT(30), <1>2, <1>4, <2>1, <3>2
  <2> QED
    BY <2>2, <2>3
<1>7. ASSUME NEW i \in S
      PROVE  p[1] <= i /\ i <= p[Cardinality(S)]
  <2>1. 1 \in N /\ Cardinality(S) \in N /\ 1 <= Rank(S, i) /\ Rank(S, i) <= Cardinality(S)
    BY <1>1
  <2> QED
    BY ZenonT(30), <1>2, <1>4, <2>1
<1> QED
  BY <1>1, <1>2, <1>5, <1>6, <1>7 DEF p

\* A provider accepts messages in which every result follows its call: the
\* calls open after some of them are those of the last.
LEMMA LinkedPaired ==
  ASSUME NEW M, NEW s \in Seq(M), Linked(s)
  PROVE  C!Paired(s)
<1>1. ASSUME NEW k \in 1..Len(s)
      PROVE  C!OpenAfter(s, k - 1) = s[k].results
  <2>1. CASE k = 1
    BY <2>1 DEF Linked, C!OpenAfter
  <2>2. CASE k # 1
    <3>1. k - 1 \in 1..Len(s) /\ s[k].results = C!CallsOf(s[k - 1])
      BY <2>2 DEF Linked
    <3>2. ASSUME NEW i \in C!OpenAfter(s, k - 1)
          PROVE  i \in C!CallsOf(s[k - 1])
      <4>1. PICK j \in 1..(k - 1) : /\ i \in C!CallsOf(s[j])
                                    /\ \A l \in (j + 1)..(k - 1) : i \notin s[l].results
        BY DEF C!OpenAfter
      <4>2. CASE j < k - 1
        <5>1. j + 1 \in (j + 1)..(k - 1) /\ j + 1 \in 1..Len(s) /\ j + 1 # 1 /\ (j + 1) - 1 = j
          BY <4>2
        <5>2. s[j + 1].results = C!CallsOf(s[j])
          BY <5>1 DEF Linked
        <5> QED
          BY <4>1, <5>1, <5>2
      <4>3. CASE j = k - 1
        BY <4>1, <4>3
      <4> QED
        BY <4>2, <4>3
    <3>3. ASSUME NEW i \in C!CallsOf(s[k - 1])
          PROVE  i \in C!OpenAfter(s, k - 1)
      <4>1. i \in CallIds
        BY DEF C!CallsOf
      <4>2. k - 1 \in 1..(k - 1) /\ ((k - 1) + 1)..(k - 1) = {}
        BY <3>1
      <4> QED
        BY <4>1, <4>2 DEF C!OpenAfter
    <3> QED
      BY <3>1, <3>2, <3>3
  <2> QED
    BY <2>1, <2>2
<1> QED
  BY <1>1 DEF C!Paired

\* Two parts that are whole are so together.
LEMMA WholeTogether ==
  ASSUME NEW M, NEW a \in Seq(M), NEW b \in Seq(M), Whole(a), Whole(b)
  PROVE  a \o b \in Seq(M) /\ Whole(a \o b)
<1> DEFINE s == a \o b
<1>1. s \in Seq(M) /\ Len(s) = Len(a) + Len(b) /\ Len(a) \in Nat /\ Len(b) \in Nat
  OBVIOUS
<1>2. \A k \in 1..Len(s) : s[k] = IF k <= Len(a) THEN a[k] ELSE b[k - Len(a)]
  BY <1>1
<1> HIDE DEF s
<1>3. ASSUME NEW k \in 1..Len(s)
      PROVE  s[k].results = IF k = 1 THEN {} ELSE C!CallsOf(s[k - 1])
  <2>1. CASE k <= Len(a)
    <3>1. k \in 1..Len(a) /\ s[k] = a[k] /\ (k # 1 => k - 1 \in 1..Len(s) /\ s[k - 1] = a[k - 1])
      <4>1. k \in Nat /\ k \in 1..Len(a) /\ s[k] = a[k]
        BY <1>1, <1>2, <2>1
      <4>2. ASSUME k # 1
            PROVE  k - 1 \in 1..Len(s) /\ k - 1 <= Len(a)
        BY <1>1, <2>1, <4>1, <4>2
      <4> QED
        BY <1>2, <4>1, <4>2
    <3> QED
      BY <3>1 DEF Whole, Linked
  <2>2. CASE k > Len(a)
    <3>1. k - Len(a) \in 1..Len(b) /\ s[k] = b[k - Len(a)]
      BY <1>1, <1>2, <2>2
    <3>2. CASE k - Len(a) # 1
      <4>1. k - 1 \in 1..Len(s) /\ s[k - 1] = b[(k - Len(a)) - 1] /\ k # 1
        <5>1. k \in Nat /\ k # 1 /\ k - 1 \in 1..Len(s) /\ ~(k - 1 <= Len(a))
          BY <1>1, <2>2, <3>1, <3>2
        <5>2. (k - 1) - Len(a) = (k - Len(a)) - 1
          BY <1>1, <5>1
        <5>3. s[k - 1] = b[(k - 1) - Len(a)]
          BY <1>2, <5>1
        <5> QED
          BY <5>1, <5>2, <5>3
      <4> QED
        BY <3>1, <3>2, <4>1 DEF Whole, Linked
    <3>3. CASE k - Len(a) = 1
      <4>1. s[k].results = {}
        BY <3>1, <3>3 DEF Whole, Linked
      <4>2. CASE k = 1
        BY <4>1, <4>2
      <4>3. CASE k # 1
        <5>1. k - 1 \in 1..Len(s) /\ s[k - 1] = a[Len(a)] /\ a # <<>>
          BY <1>1, <1>2, <3>3, <4>3
        <5> QED
          BY <4>1, <4>3, <5>1 DEF Whole
      <4> QED
        BY <4>2, <4>3
    <3> QED
      BY <3>2, <3>3
  <2> QED
    BY <1>1, <2>1, <2>2
<1>4. ASSUME s # <<>>
      PROVE  C!CallsOf(s[Len(s)]) = {}
  <2>1. CASE b = <<>>
    <3>1. a # <<>> /\ s[Len(s)] = a[Len(a)]
      BY <1>1, <1>2, <1>4, <2>1
    <3> QED
      BY <3>1 DEF Whole
  <2>2. CASE b # <<>>
    <3>1. s[Len(s)] = b[Len(b)]
      BY <1>1, <1>2, <2>2
    <3> QED
      BY <2>2, <3>1 DEF Whole
  <2> QED
    BY <2>1, <2>2
<1>5. Whole(s)
  BY <1>3, <1>4 DEF Whole, Linked
<1> QED
  BY <1>1, <1>5 DEF s

\* A part that begins with no result and ends with no call is whole.
LEMMA WholeCut ==
  ASSUME NEW M, NEW s \in Seq(M), Linked(s), NEW m \in 1..(Len(s) + 1), NEW n \in 0..Len(s),
         m <= n => s[m].results = {} /\ C!CallsOf(s[n]) = {}
  PROVE  SubSeq(s, m, n) \in Seq(M) /\ Whole(SubSeq(s, m, n))
<1> DEFINE t == SubSeq(s, m, n)
<1>1. t \in Seq(M) /\ Len(t) = IF m <= n THEN n - m + 1 ELSE 0
  OBVIOUS
<1>2. \A k \in 1..Len(t) : t[k] = s[m + k - 1] /\ m + k - 1 \in 1..Len(s)
  BY <1>1
<1> HIDE DEF t
<1>3. ASSUME NEW k \in 1..Len(t)
      PROVE  t[k].results = IF k = 1 THEN {} ELSE C!CallsOf(t[k - 1])
  <2>1. m <= n
    BY <1>1
  <2>2. CASE k = 1
    BY <1>2, <2>1, <2>2
  <2>3. CASE k # 1
    <3>1. k - 1 \in 1..Len(t) /\ t[k - 1] = s[m + k - 2] /\ t[k] = s[m + k - 1]
          /\ m + k - 1 \in 1..Len(s) /\ m + k - 1 # 1 /\ (m + k - 1) - 1 = m + k - 2
      <4>1. k \in Nat /\ m \in Nat /\ k - 1 \in 1..Len(t) /\ m + (k - 1) - 1 = m + k - 2
        BY SMTT(20), <1>1, <2>3
      <4>2. t[k] = s[m + k - 1] /\ m + k - 1 \in 1..Len(s) /\ t[k - 1] = s[m + (k - 1) - 1]
        BY <1>2, <4>1
      <4>3. m + k - 1 # 1 /\ (m + k - 1) - 1 = m + k - 2
        BY <2>3, <4>1
      <4> QED
        BY <4>1, <4>2, <4>3
    <3>2. s[m + k - 1].results = C!CallsOf(s[(m + k - 1) - 1])
      BY <3>1 DEF Linked
    <3> QED
      BY <2>3, <3>1, <3>2
  <2> QED
    BY <2>2, <2>3
<1>4. ASSUME t # <<>>
      PROVE  C!CallsOf(t[Len(t)]) = {}
  <2>1. m <= n /\ Len(t) \in 1..Len(t) /\ m + Len(t) - 1 = n
    BY <1>1, <1>4
  <2> QED
    BY <1>2, <2>1
<1>5. Whole(t)
  BY <1>3, <1>4 DEF Whole, Linked
<1> QED
  BY <1>1, <1>5 DEF t

\* So are messages of text alone.
LEMMA WholeTexts ==
  ASSUME NEW M, NEW s \in Seq(M),
         \A k \in 1..Len(s) : s[k].results = {} /\ C!CallsOf(s[k]) = {}
  PROVE  Whole(s)
<1>1. \A k \in 1..Len(s) : k # 1 => k - 1 \in 1..Len(s)
  OBVIOUS
<1>2. Linked(s)
  BY <1>1 DEF Linked
<1>3. s # <<>> => Len(s) \in 1..Len(s)
  OBVIOUS
<1> QED
  BY <1>2, <1>3 DEF Whole

\* The messages at some positions are messages of the sequence, and each
\* position has its message.
LEMMA MessagesThere ==
  ASSUME NEW M, NEW s \in Seq(M), NEW S \in SUBSET (1..Len(s))
  PROVE  /\ C!MessagesAt(s, S) \in Seq(M)
         /\ \A k \in 1..Len(C!MessagesAt(s, S)) : \E i \in S : C!MessagesAt(s, S)[k] = s[i]
         /\ \A i \in S : \E k \in 1..Len(C!MessagesAt(s, S)) : C!MessagesAt(s, S)[k] = s[i]
<1> DEFINE n == Cardinality(S)
           p == C!InOrder(S)
           t == C!MessagesAt(s, S)
<1>1. Len(s) \in Nat
  OBVIOUS
<1>2. /\ n \in Nat
      /\ \A k \in 1..n : p[k] \in S
      /\ \A i \in S : \E k \in 1..n : p[k] = i
  <2> HIDE DEF n, p
  <2> QED
    BY <1>1, InOrderRuns DEF n, p
<1>3. t = [k \in 1..n |-> s[p[k]]]
  BY SameCardinality DEF C!MessagesAt
<1> HIDE DEF n, p, t
<1>4. ASSUME NEW k \in 1..n
      PROVE  s[p[k]] \in M
  <2>1. p[k] \in 1..Len(s)
    BY <1>2
  <2> QED
    BY <2>1
<1>5. t \in Seq(M) /\ Len(t) = n
  BY <1>2, <1>3, <1>4
<1>6. \A k \in 1..Len(t) : \E i \in S : t[k] = s[i]
  BY <1>2, <1>3, <1>5
<1>7. \A i \in S : \E k \in 1..Len(t) : t[k] = s[i]
  <2> TAKE i \in S
  <2>1. PICK k \in 1..n : p[k] = i
    BY <1>2
  <2> QED
    BY <1>3, <1>5, <2>1
<1> QED
  BY <1>5, <1>6, <1>7 DEF t

\* The messages at positions that leave no call and no result out stay whole:
\* what is left out between two that stay is text.
LEMMA WholeSelection ==
  ASSUME NEW M, NEW s \in Seq(M), Whole(s), NEW S \in SUBSET (1..Len(s)),
         \A i \in 1..Len(s) : s[i].results # {} \/ C!CallsOf(s[i]) # {} => i \in S
  PROVE  Whole(C!MessagesAt(s, S))
<1> DEFINE n == Cardinality(S)
           p == C!InOrder(S)
           t == C!MessagesAt(s, S)
<1>1. Len(s) \in Nat
  OBVIOUS
<1>2. /\ n \in Nat
      /\ \A k \in 1..n : p[k] \in S
      /\ \A k \in 1..n : k > 1 => /\ p[k - 1] < p[k]
                                  /\ \A i \in S : i <= p[k - 1] \/ p[k] <= i
      /\ \A i \in S : p[1] <= i /\ i <= p[n]
  <2> HIDE DEF n, p
  <2> QED
    BY <1>1, InOrderRuns DEF n, p
<1>3. t = [k \in 1..n |-> s[p[k]]]
  BY SameCardinality DEF C!MessagesAt
<1> HIDE DEF n, p, t
<1>4. t \in Seq(M) /\ Len(t) = n
  <2>1. t \in Seq(M)
    BY MessagesThere DEF t
  <2> QED
    BY <1>2, <1>3, <2>1
<1>5. ASSUME NEW i \in 1..Len(s), i > 1
      PROVE  i - 1 \in 1..Len(s) /\ s[i].results = C!CallsOf(s[i - 1])
  BY <1>5 DEF Whole, Linked
<1>6. ASSUME NEW k \in 1..n
      PROVE  t[k].results = IF k = 1 THEN {} ELSE C!CallsOf(t[k - 1])
  <2> DEFINE i == p[k]
  <2>1. i \in S /\ i \in 1..Len(s) /\ t[k] = s[i]
    BY <1>2, <1>3
  <2> HIDE DEF i
  <2>2. CASE k = 1
    <3>1. CASE i = 1
      BY <2>1, <2>2, <3>1 DEF Whole, Linked
    <3>2. CASE i # 1
      <4>1. i > 1 /\ ~(i <= i - 1)
        BY <2>1, <3>2
      <4>2. i - 1 \notin S
        BY <1>2, <2>2, <4>1 DEF i
      <4>3. i - 1 \in 1..Len(s) /\ s[i].results = C!CallsOf(s[i - 1])
        BY <1>5, <2>1, <4>1
      <4> QED
        BY <2>1, <2>2, <4>2, <4>3
    <3> QED
      BY <3>1, <3>2
  <2>3. CASE k # 1
    <3> DEFINE j == p[k - 1]
    <3>1. k > 1 /\ k - 1 \in 1..n
      BY <1>2, <2>3
    <3>2. j \in S /\ j \in 1..Len(s) /\ t[k - 1] = s[j]
      BY <1>2, <1>3, <3>1
    <3>3. j < i /\ \A h \in S : h <= j \/ i <= h
      BY <1>2, <3>1 DEF i
    <3> HIDE DEF j
    <3>4. i \in Nat /\ j \in Nat /\ i > 1 /\ j + 1 > 1 /\ j + 1 \in 1..Len(s) /\ (j + 1) - 1 = j
      BY <1>1, <2>1, <3>2, <3>3
    <3>5. s[i].results = C!CallsOf(s[i - 1]) /\ s[j + 1].results = C!CallsOf(s[j])
      BY <1>5, <2>1, <3>4
    <3>6. CASE i = j + 1
      BY <2>1, <2>3, <3>2, <3>5, <3>6
    <3>7. CASE i # j + 1
      <4>1. i - 1 \in 1..Len(s) /\ ~(i - 1 <= j) /\ ~(i <= i - 1)
            /\ ~(j + 1 <= j) /\ ~(i <= j + 1)
        BY <2>1, <3>3, <3>4, <3>7
      <4>2. i - 1 \notin S /\ j + 1 \notin S
        BY <3>3, <4>1
      <4>3. C!CallsOf(s[i - 1]) = {} /\ s[j + 1].results = {}
        BY <3>4, <4>1, <4>2
      <4> QED
        BY <2>1, <2>3, <3>2, <3>5, <4>3
    <3> QED
      BY <3>6, <3>7
  <2> QED
    BY <2>2, <2>3
<1>7. ASSUME t # <<>>
      PROVE  C!CallsOf(t[Len(t)]) = {}
  <2> DEFINE j == p[n]
  <2>1. n \in 1..n
    BY <1>2, <1>4, <1>7
  <2>2. j \in S /\ j \in 1..Len(s) /\ t[Len(t)] = s[j] /\ \A i \in S : i <= j
    BY <1>2, <1>3, <1>4, <2>1
  <2> HIDE DEF j
  <2>3. CASE j = Len(s)
    <3>1. s # <<>>
      BY <2>2
    <3> QED
      BY <2>2, <2>3, <3>1 DEF Whole
  <2>4. CASE j # Len(s)
    <3>1. j + 1 \in 1..Len(s) /\ j + 1 > 1 /\ (j + 1) - 1 = j /\ ~(j + 1 <= j)
      BY <1>1, <2>2, <2>4
    <3>2. j + 1 \notin S /\ s[j + 1].results = C!CallsOf(s[j])
      BY <1>5, <2>2, <3>1
    <3> QED
      BY <2>2, <3>1, <3>2
  <2> QED
    BY <2>3, <2>4
<1> QED
  BY <1>4, <1>6, <1>7 DEF Whole, Linked, t

\* What makes a call has calls.
LEMMA CallsSeen ==
  ASSUME NEW m
  PROVE  C!HasToolUse(m) <=> C!CallsOf(m) # {}
BY DEF C!HasToolUse, C!CallsOf

\* What follows the first message of such a sequence is whole too.
LEMMA WholeTail ==
  ASSUME NEW M, NEW s \in Seq(M), s # <<>>, Whole(s), C!CallsOf(s[1]) = {}
  PROVE  Tail(s) \in Seq(M) /\ Whole(Tail(s))
<1> DEFINE t == Tail(s)
<1>1. t \in Seq(M) /\ Len(t) = Len(s) - 1 /\ Len(s) \in Nat /\ \A k \in 1..Len(t) : t[k] = s[k + 1]
  OBVIOUS
<1> HIDE DEF t
<1>2. ASSUME NEW k \in 1..Len(t)
      PROVE  t[k].results = IF k = 1 THEN {} ELSE C!CallsOf(t[k - 1])
  <2>1. k \in Nat /\ k + 1 \in 1..Len(s) /\ k + 1 # 1 /\ (k + 1) - 1 = k
    BY <1>1
  <2>2. t[k].results = C!CallsOf(s[k])
    BY <1>1, <2>1 DEF Whole, Linked
  <2>3. CASE k = 1
    BY <2>2, <2>3
  <2>4. CASE k # 1
    <3>1. k - 1 \in 1..Len(t) /\ (k - 1) + 1 = k
      BY <1>1, <2>1, <2>4
    <3> QED
      BY <1>1, <2>2, <2>4, <3>1
  <2> QED
    BY <2>3, <2>4
<1>3. ASSUME t # <<>>
      PROVE  C!CallsOf(t[Len(t)]) = {}
  <2>1. Len(t) \in 1..Len(t) /\ Len(t) + 1 = Len(s)
    BY <1>1, <1>3
  <2> QED
    BY <1>1, <2>1 DEF Whole
<1> QED
  BY <1>1, <1>2, <1>3 DEF Whole, Linked, t

\* A window never begins with results.
LEMMA WindowBegins ==
  ASSUME NEW M, NEW s \in Seq(M), NEW role, Ordered(s, role), NEW roles, role \in roles, role # "assistant",
         NEW start \in 1..Len(s), NEW w, w = C!AdjustStart(s, start, roles)
  PROVE  w \in 1..Len(s) /\ (w < Len(s) => s[w + 1].results = {})
<1>1. ASSUME NEW k \in 1..Len(s), k # 1
      PROVE  k - 1 \in 1..Len(s) /\ s[k].results = C!CallsOf(s[k - 1])
  BY <1>1 DEF Ordered, Linked
<1>2. CASE start = Len(s)
  BY <1>2 DEF C!AdjustStart
<1>3. CASE start = 1 /\ start < Len(s)
  <2>1. 2 \in 1..Len(s) /\ s # <<>> /\ 1 \in 1..Len(s)
    BY <1>3
  <2>2. C!CallsOf(s[1]) = {}
    BY <2>1 DEF Ordered
  <2>3. s[2].results = {}
    BY <1>1, <2>1, <2>2
  <2> QED
    BY <1>3, <2>3 DEF C!AdjustStart
<1>4. CASE 1 < start /\ start < Len(s)
  <2>1. start + 1 \in 1..Len(s) /\ start \in 1..Len(s) /\ start + 1 # 1 /\ start # 1 /\ (start + 1) - 1 = start
    BY <1>4
  <2>2. CASE s[start + 1].results = {}
    BY <1>4, <2>2 DEF C!AdjustStart, C!HasToolResults
  <2>3. CASE s[start + 1].results # {}
    <3>1. s[start + 1].role = role
      BY <2>1, <2>3 DEF Ordered
    <3>2. w = start - 1
      BY <1>4, <2>3, <3>1 DEF C!AdjustStart, C!HasToolResults
    <3>3. C!CallsOf(s[start]) # {}
      BY <1>1, <2>1, <2>3
    <3>4. s[start].results = {}
      BY <2>1, <3>3 DEF Ordered
    <3>5. w \in 1..Len(s) /\ w + 1 = start
      BY <1>4, <3>2
    <3> QED
      BY <3>4, <3>5
  <2> QED
    BY <2>2, <2>3
<1> QED
  BY <1>2, <1>3, <1>4

\* The window itself is whole, and so is what is between the first message and it.
LEMMA WindowWhole ==
  ASSUME NEW M, NEW s \in Seq(M), Whole(s), C!CallsOf(s[1]) = {}, NEW w \in 1..Len(s),
         w < Len(s) => s[w + 1].results = {}
  PROVE  /\ SubSeq(s, w + 1, Len(s)) \in Seq(M) /\ Whole(SubSeq(s, w + 1, Len(s)))
         /\ SubSeq(s, 2, w) \in Seq(M) /\ Whole(SubSeq(s, 2, w))
<1>1. Len(s) \in Nat /\ w \in Nat /\ w >= 1 /\ w <= Len(s) /\ s # <<>>
  OBVIOUS
<1>2. Linked(s) /\ C!CallsOf(s[Len(s)]) = {}
  BY <1>1 DEF Whole
<1>3. SubSeq(s, w + 1, Len(s)) \in Seq(M) /\ Whole(SubSeq(s, w + 1, Len(s)))
  <2>1. w + 1 \in 1..(Len(s) + 1) /\ Len(s) \in 0..Len(s) /\ (w + 1 <= Len(s) => w < Len(s))
    BY <1>1
  <2> QED
    BY <1>2, <2>1, WholeCut
<1>4. SubSeq(s, 2, w) \in Seq(M) /\ Whole(SubSeq(s, 2, w))
  <2>1. 2 \in 1..(Len(s) + 1) /\ w \in 0..Len(s)
    BY <1>1
  <2>2. ASSUME 2 <= w
        PROVE  s[2].results = {} /\ C!CallsOf(s[w]) = {}
    <3>1. 2 \in 1..Len(s) /\ 2 # 1 /\ 2 - 1 = 1
      BY <1>1, <2>2
    <3>2. s[2].results = {}
      BY <1>2, <3>1 DEF Linked
    <3>3. ASSUME w < Len(s)
          PROVE  C!CallsOf(s[w]) = {}
      <4>1. w + 1 \in 1..Len(s) /\ w + 1 # 1 /\ (w + 1) - 1 = w
        BY <1>1, <3>3
      <4> QED
        BY <1>2, <3>3, <4>1 DEF Linked
    <3> QED
      BY <1>1, <1>2, <3>2, <3>3
  <2> QED
    BY <1>2, <2>1, <2>2, WholeCut
<1> QED
  BY <1>3, <1>4

\* A first message that makes no call, in front of what is whole.
LEMMA WholeFirst ==
  ASSUME NEW M, NEW m \in M, m.results = {}, C!CallsOf(m) = {}
  PROVE  <<m>> \in Seq(M) /\ Whole(<<m>>)
<1>1. <<m>> \in Seq(M) /\ Len(<<m>>) = 1 /\ \A k \in 1..Len(<<m>>) : <<m>>[k] = m
  OBVIOUS
<1> QED
  BY <1>1, WholeTexts

\* The first message is the user's and makes no call.
LEMMA FirstPlain ==
  ASSUME NEW M, NEW s \in Seq(M), s # <<>>, NEW role, Ordered(s, role)
  PROVE  s[1].role = "user" /\ s[1].results = {} /\ C!CallsOf(s[1]) = {} /\ s[1] \in M
<1>1. 1 \in 1..Len(s)
  OBVIOUS
<1>2. s[1] \in M
  BY <1>1
<1>3. s[1].role = "user"
  BY DEF Ordered
<1>4. C!CallsOf(s[1]) = {}
  BY <1>1, <1>3 DEF Ordered
<1>5. s[1].results = {}
  BY <1>1 DEF Ordered, Linked
<1> QED
  BY <1>2, <1>3, <1>4, <1>5

\* The client's own compaction.
LEMMA LocalKeepsPairs ==
  ASSUME NEW s \in Seq(C!Message), s # <<>>, Ordered(s, "tool"), Whole(s), NEW recent \in Nat \ {0}
  PROVE  C!Paired(C!LocalCompact(s, recent))
<1> DEFINE n == Len(s) - recent
           start == IF n < 1 THEN 1 ELSE n
           w == C!AdjustStart(s, start, C!ChatResultRoles)
           rest == SubSeq(s, w + 1, Len(s))
<1>1. start \in 1..Len(s) /\ Len(s) \in Nat /\ 1 \in 1..Len(s)
  OBVIOUS
<1>2. w \in 1..Len(s) /\ (w < Len(s) => s[w + 1].results = {})
  <2>1. "tool" \in C!ChatResultRoles
    BY DEF C!ChatResultRoles
  <2> HIDE DEF start
  <2> QED
    BY <1>1, <2>1, WindowBegins
<1>3. s[1].role = "user" /\ s[1].results = {} /\ C!CallsOf(s[1]) = {} /\ s[1] \in C!Message
  BY FirstPlain
<1>4. rest \in Seq(C!Message) /\ Whole(rest)
  <2> HIDE DEF w
  <2> QED
    BY <1>2, <1>3, WindowWhole
<1>5. C!LocalCompact(s, recent) = <<s[1]>> \o rest
  BY <1>3 DEF C!LocalCompact
<1> HIDE DEF rest
<1>6. <<s[1]>> \o rest \in Seq(C!Message) /\ Whole(<<s[1]>> \o rest)
  BY <1>3, <1>4, WholeFirst, WholeTogether
<1> QED
  BY <1>5, <1>6, LinkedPaired DEF Whole

\* The server's compactor keeps every message with calls or results, in the
\* middle of a conversation whose tool calls are to be preserved.
LEMMA ToolsKept ==
  ASSUME NEW r, r.preserve = TRUE, NEW middle, NEW i \in 1..Len(middle),
         middle[i].results # {} \/ C!CallsOf(middle[i]) # {}
  PROVE  i \in C!ImportantOf(middle, r)
<1>1. C!HasToolUse(middle[i]) \/ C!HasToolResults(middle[i])
  BY CallsSeen DEF C!HasToolResults
<1>2. C!Classify(middle[i], r.preserve) = C!Class("important", 80)
  BY <1>1 DEF C!Classify, C!ClassifyTool
<1>3. C!Kept(middle[i], r)
  BY <1>2 DEF C!Kept, C!Class
<1> QED
  BY <1>3 DEF C!ImportantOf

\* All that makes or answers a call is among the messages chosen.
NoneDropped(middle, chosen) ==
  \A i \in 1..Len(middle) : middle[i].results # {} \/ C!CallsOf(middle[i]) # {} =>
    \E k \in DOMAIN chosen : chosen[k] = middle[i]

\* And is there only once.
NoneRepeated(middle) ==
  \A i, j \in 1..Len(middle) :
    (middle[i].results # {} \/ C!CallsOf(middle[i]) # {}) /\ middle[j] = middle[i] => j = i

\* Its choice of the middle is whole, and no half of a pair is missing.
LEMMA ChoiceWhole ==
  ASSUME NEW r, r.preserve = TRUE, NEW middle \in Seq(C!Message), Whole(middle),
         NEW important, important = C!ClassifyAndKeepImportant(middle, r)
  PROVE  important \in Seq(C!Message) /\ Whole(important) /\ NoneDropped(middle, important)
<1> DEFINE T == C!ImportantOf(middle, r)
           kept == C!MessagesAt(middle, T)
           fit == {i \in 1..Len(middle) :
                     /\ C!Classify(middle[i], r.preserve).class # "transient"
                     /\ \A k \in DOMAIN kept : kept[k] # middle[i]
                     /\ \A j \in 1..(i - 1) : middle[j] # middle[i]}
           F == {i \in fit : Len(kept) + C!Cardinality({j \in fit : j <= i}) <= r.minImportant}
           filling == C!MessagesAt(middle, F)
<1>1. T \in SUBSET (1..Len(middle)) /\ F \in SUBSET (1..Len(middle))
  BY DEF C!ImportantOf
<1>2. \A i \in 1..Len(middle) : middle[i].results # {} \/ C!CallsOf(middle[i]) # {} => i \in T
  BY ToolsKept
<1>3. important = kept \o filling
  BY DEF C!ClassifyAndKeepImportant, C!FillUp
<1>4. ASSUME NEW i \in F
      PROVE  \A k \in DOMAIN kept : kept[k] # middle[i]
  OBVIOUS
<1> HIDE DEF T, F, fit
<1>5. /\ kept \in Seq(C!Message)
      /\ \A i \in T : \E k \in 1..Len(kept) : kept[k] = middle[i]
  <2> HIDE DEF kept
  <2> QED
    BY <1>1, MessagesThere DEF kept
<1>6. Whole(kept)
  BY <1>1, <1>2, WholeSelection
<1>7. /\ filling \in Seq(C!Message)
      /\ \A k \in 1..Len(filling) : \E i \in F : filling[k] = middle[i]
  <2> HIDE DEF filling
  <2> QED
    BY <1>1, MessagesThere DEF filling
<1> HIDE DEF kept, filling
<1>8. ASSUME NEW i \in F
      PROVE  middle[i].results = {} /\ C!CallsOf(middle[i]) = {}
  <2>1. i \notin T
    BY <1>4, <1>5
  <2> QED
    BY <1>1, <1>2, <2>1
<1>9. Whole(filling)
  BY <1>7, <1>8, WholeTexts
<1>10. important \in Seq(C!Message) /\ Whole(important)
  BY <1>3, <1>5, <1>6, <1>7, <1>9, WholeTogether
<1>11. \A k \in 1..Len(kept) : k \in DOMAIN important /\ important[k] = kept[k]
  BY <1>3, <1>5, <1>7
<1> QED
  BY <1>2, <1>5, <1>10, <1>11 DEF NoneDropped

\* So there is nothing to add to it, when no two messages have calls or results
\* in common.
LEMMA NothingToAdd ==
  ASSUME NEW middle \in Seq(C!Message), NEW important,
         NoneDropped(middle, important), NoneRepeated(middle)
  PROVE  C!EnsureToolPairs(middle, important) = important
<1> DEFINE kept == {C!FirstIndex(middle, important[k]) : k \in DOMAIN important}
           extra == {i \in (1..Len(middle)) \ kept :
                       \/ /\ i + 1 \in kept
                          /\ C!IsResult(middle[i + 1]) /\ C!IsCall(middle[i])
                       \/ /\ i - 1 \in kept
                          /\ C!IsCall(middle[i - 1]) /\ C!IsResult(middle[i])}
<1>1. ASSUME NEW i \in 1..Len(middle), C!IsCall(middle[i]) \/ C!IsResult(middle[i])
      PROVE  i \in kept
  <2>1. middle[i].results # {} \/ C!CallsOf(middle[i]) # {}
    BY <1>1, CallsSeen DEF C!IsCall, C!IsResult, C!HasToolResults
  <2>2. PICK k \in DOMAIN important : important[k] = middle[i]
    BY <2>1 DEF NoneDropped
  <2>3. \A j \in 1..Len(middle) : middle[j] = middle[i] => j = i
    BY <2>1 DEF NoneRepeated
  <2>4. \A j \in 1..(i - 1) : j \in 1..Len(middle) /\ j # i
    OBVIOUS
  <2>5. C!FirstIndex(middle, middle[i]) = i
    BY <2>3, <2>4 DEF C!FirstIndex
  <2> QED
    BY <2>2, <2>5
<1>2. extra = {}
  <2> HIDE DEF kept
  <2> QED
    BY <1>1
<1> QED
  BY <1>2 DEF C!EnsureToolPairs

\* No two messages of such a sequence, or of a part of it, have calls or results
\* in common.
LEMMA NoneTwice ==
  ASSUME NEW M, NEW s \in Seq(M), NEW role, Ordered(s, role),
         NEW i \in 1..Len(s), NEW j \in 1..Len(s), s[i] = s[j],
         s[i].results # {} \/ C!CallsOf(s[i]) # {}
  PROVE  i = j
<1>1. CASE C!CallsOf(s[i]) # {}
  BY <1>1 DEF Ordered
<1>2. CASE s[i].results # {}
  <2>1. i # 1 /\ s[i].results = C!CallsOf(s[i - 1]) /\ j # 1 /\ s[j].results = C!CallsOf(s[j - 1])
    BY <1>2 DEF Ordered, Linked
  <2>2. i - 1 \in 1..Len(s) /\ j - 1 \in 1..Len(s)
    BY <2>1
  <2>3. C!CallsOf(s[i - 1]) \cap C!CallsOf(s[j - 1]) # {}
    BY <1>2, <2>1
  <2>4. i - 1 = j - 1
    BY <2>2, <2>3 DEF Ordered
  <2> QED
    BY <2>4
<1> QED
  BY <1>1, <1>2

\* The server's compactor, given results in the role it expects of them.
LEMMA ServerKeeps ==
  ASSUME NEW r, r.preserve = TRUE, r.recentWindow \in Nat \ {0}, r.summaryLen \in Nat,
         NEW s \in Seq(C!Message), r.messages = s, s # <<>>, Ordered(s, "user"), Whole(s)
  PROVE  C!Paired(C!Compact(r))
<1> DEFINE n == Len(s) - r.recentWindow
           start == IF n < 1 THEN 1 ELSE n
           w == C!RecentStart(r)
           middle == SubSeq(s, 2, w)
           chosen == C!ClassifyAndKeepImportant(middle, r)
           recent == SubSeq(s, w + 1, Len(s))
           short == (<<s[1]>> \o chosen) \o recent
           summary == C!SummaryOf(middle, r.summaryLen)
<1>1. start \in 1..Len(s)
  OBVIOUS
<1>2. w \in 1..Len(s) /\ (w < Len(s) => s[w + 1].results = {})
  <2>1. w = C!AdjustStart(s, start, C!ServerResultRoles)
    BY DEF C!RecentStart
  <2>2. "user" \in C!ServerResultRoles
    BY DEF C!ServerResultRoles
  <2> HIDE DEF start, w
  <2> QED
    BY <1>1, <2>1, <2>2, WindowBegins
<1>3. s[1].results = {} /\ C!CallsOf(s[1]) = {} /\ s[1] \in C!Message
  BY FirstPlain
<1> HIDE DEF w
<1>4. /\ recent \in Seq(C!Message) /\ Whole(recent)
      /\ middle \in Seq(C!Message) /\ Whole(middle)
  BY <1>2, <1>3, WindowWhole
<1>5. \A i \in 1..Len(middle) : i + 1 \in 1..Len(s) /\ middle[i] = s[i + 1]
  BY <1>2
<1> HIDE DEF middle, recent
<1>6. chosen \in Seq(C!Message) /\ Whole(chosen) /\ NoneDropped(middle, chosen)
  <2>1. chosen = C!ClassifyAndKeepImportant(middle, r)
    OBVIOUS
  <2> HIDE DEF chosen
  <2> QED
    BY <1>4, <2>1, ChoiceWhole
<1> HIDE DEF chosen
<1>7. ASSUME NEW i \in 1..Len(middle), middle[i].results # {} \/ C!CallsOf(middle[i]) # {},
             NEW j \in 1..Len(middle), middle[j] = middle[i]
      PROVE  j = i
  <2>0. /\ i + 1 \in 1..Len(s) /\ j + 1 \in 1..Len(s) /\ s[i + 1] = s[j + 1]
        /\ s[i + 1].results # {} \/ C!CallsOf(s[i + 1]) # {}
    BY <1>5, <1>7
  <2>1. i + 1 = j + 1
    BY <2>0, NoneTwice
  <2> QED
    BY <1>4, <2>1
<1>8. C!EnsureToolPairs(middle, chosen) = chosen
  <2>1. NoneRepeated(middle)
    BY <1>7 DEF NoneRepeated
  <2> QED
    BY <1>4, <1>6, <2>1, NothingToAdd
<1>9. <<s[1]>> \o chosen \in Seq(C!Message) /\ Whole(<<s[1]>> \o chosen)
  BY <1>3, <1>6, WholeFirst, WholeTogether
<1>10. short \in Seq(C!Message) /\ Whole(short)
  BY <1>4, <1>9, WholeTogether
<1>11. short # <<>> /\ short[1] = s[1]
  BY <1>4, <1>6
<1> HIDE DEF short
<1>12. Tail(short) \in Seq(C!Message) /\ Whole(Tail(short))
  BY <1>3, <1>10, <1>11, WholeTail
<1>13. summary \in C!Message /\ summary.results = {} /\ C!CallsOf(summary) = {}
  <2> DEFINE marked == UNION {middle[k].marks : k \in DOMAIN middle}
             marks == marked \cap {"topic"}
  <2>1. marks \subseteq C!Marks
    <3> HIDE DEF marked
    <3> QED
      BY DEF C!Marks
  <2>2. summary = C!Text("assistant", marks, r.summaryLen)
    BY DEF C!SummaryOf
  <2> HIDE DEF marked, marks
  <2> QED
    BY <2>1, <2>2 DEF C!Text, C!Message, C!CallsOf, C!NoUses, C!Roles
<1> HIDE DEF summary
<1>14. <<s[1], summary>> \in Seq(C!Message) /\ Whole(<<s[1], summary>>)
  <2>1. /\ <<s[1], summary>> \in Seq(C!Message)
        /\ \A k \in 1..Len(<<s[1], summary>>) :
             <<s[1], summary>>[k] = s[1] \/ <<s[1], summary>>[k] = summary
    BY <1>3, <1>13
  <2> QED
    BY <1>3, <1>13, <2>1, WholeTexts
<1>15. <<s[1], summary>> \o Tail(short) \in Seq(C!Message) /\ Whole(<<s[1], summary>> \o Tail(short))
  BY <1>12, <1>14, WholeTogether
<1>16. C!Compact(r) \in {s, <<s[1], summary>> \o Tail(short), short}
  BY <1>8 DEF C!Compact, C!Compacted, w, middle, chosen, recent, short, summary
<1> QED
  BY <1>10, <1>15, <1>16, LinkedPaired DEF Whole

\* A message that may come after those of s: it answers the calls of the last.
Follows(s, m, role) ==
  /\ m.results = IF s = <<>> THEN {} ELSE C!CallsOf(s[Len(s)])
  /\ s = <<>> => m.role = "user"
  /\ m.results # {} => m.role = role
  /\ C!CallsOf(m) # {} => m.role = "assistant"
  /\ \A k \in 1..Len(s) : C!CallsOf(m) \cap C!CallsOf(s[k]) = {}

\* Such a message keeps a sequence so.
LEMMA OrderedMore ==
  ASSUME NEW M, NEW s \in Seq(M), NEW role, Ordered(s, role), NEW m \in M, Follows(s, m, role)
  PROVE  /\ Append(s, m) \in Seq(M) /\ Append(s, m) # <<>> /\ Append(s, m)[Len(Append(s, m))] = m
         /\ Ordered(Append(s, m), role)
         /\ C!CallsOf(m) = {} => Whole(Append(s, m))
<1> DEFINE t == Append(s, m)
           n == Len(s)
<1>a. /\ m.results = IF s = <<>> THEN {} ELSE C!CallsOf(s[Len(s)])
      /\ s = <<>> => m.role = "user"
      /\ m.results # {} => m.role = role
      /\ C!CallsOf(m) # {} => m.role = "assistant"
      /\ \A k \in 1..Len(s) : C!CallsOf(m) \cap C!CallsOf(s[k]) = {}
  BY DEF Follows
<1>1. /\ n \in Nat /\ t \in Seq(M) /\ Len(t) = n + 1 /\ t[n + 1] = m /\ t # <<>>
      /\ \A k \in 1..n : t[k] = s[k]
  <2>1. \A k \in 1..n : t[k] = s[k]
    OBVIOUS
  <2>2. n \in Nat /\ t \in Seq(M) /\ Len(t) = n + 1
    OBVIOUS
  <2>3. t[n + 1] = m /\ t # <<>>
    OBVIOUS
  <2> HIDE DEF t
  <2> QED
    BY <2>1, <2>2, <2>3
<1>0. s = <<>> <=> n = 0
  OBVIOUS
<1> HIDE DEF t
<1>2. \A k \in 1..Len(t) : (k \in 1..n /\ t[k] = s[k]) \/ (k = n + 1 /\ t[k] = m)
  <2> TAKE k \in 1..Len(t)
  <2>1. k \in 1..n \/ k = n + 1
    BY <1>1
  <2> QED
    BY <1>1, <2>1
<1>3. ASSUME NEW k \in 1..Len(t)
      PROVE  t[k].results = IF k = 1 THEN {} ELSE C!CallsOf(t[k - 1])
  <2>1. CASE k \in 1..n
    <3>1. k # 1 => k - 1 \in 1..n
      BY <1>1, <2>1
    <3> QED
      BY <1>1, <2>1, <3>1 DEF Ordered, Linked
  <2>2. CASE k = n + 1
    <3>1. CASE n = 0
      BY <1>a, <1>0, <1>1, <2>2, <3>1
    <3>2. CASE n # 0
      <4>1. k # 1 /\ k - 1 = n /\ n \in 1..n
        BY <1>1, <2>2, <3>2
      <4> QED
        BY <1>a, <1>0, <1>1, <2>2, <3>2, <4>1
    <3> QED
      BY <3>1, <3>2
  <2> QED
    BY <1>2, <2>1, <2>2
<1>4. t[1].role = "user"
  <2>1. CASE n = 0
    BY <1>a, <1>0, <1>1, <2>1
  <2>2. CASE n # 0
    <3>1. 1 \in 1..n
      BY <1>1, <2>2
    <3> QED
      BY <1>0, <1>1, <2>2, <3>1 DEF Ordered
  <2> QED
    BY <2>1, <2>2
<1>5. \A k \in 1..Len(t) : /\ t[k].results # {} => t[k].role = role
                           /\ C!CallsOf(t[k]) # {} => t[k].role = "assistant"
  <2> TAKE k \in 1..Len(t)
  <2>1. CASE k \in 1..n /\ t[k] = s[k]
    BY <2>1 DEF Ordered
  <2>2. CASE t[k] = m
    BY <1>a, <2>2
  <2> QED
    BY <1>2, <2>1, <2>2
<1>6. \A j, k \in 1..Len(t) : j # k => C!CallsOf(t[j]) \cap C!CallsOf(t[k]) = {}
  BY <1>a, <1>2 DEF Ordered
<1>7. Ordered(t, role)
  BY <1>3, <1>4, <1>5, <1>6 DEF Ordered, Linked
<1>8. C!CallsOf(m) = {} => Whole(t)
  BY <1>1, <1>3 DEF Whole, Linked
<1> QED
  BY <1>1, <1>7, <1>8 DEF t

\* So do a text, and the last message's results.
LEMMA TextMore ==
  ASSUME NEW M, NEW s \in Seq(M), Ordered(s, "tool"), Whole(s), NEW m \in M,
         m.results = {}, C!CallsOf(m) = {}, s = <<>> => m.role = "user"
  PROVE  /\ Append(s, m) \in Seq(M) /\ Append(s, m) # <<>>
         /\ Ordered(Append(s, m), "tool") /\ Whole(Append(s, m))
<1>1. Follows(s, m, "tool")
  BY DEF Whole, Follows
<1> QED
  BY <1>1, OrderedMore

\* Results in the role the server expects.
LEMMA ServersHistory ==
  ASSUME NEW s \in Seq(C!Message), Ordered(s, "tool"), Whole(s), NEW h,
         h = [m \in 1..Len(s) |-> IF s[m].role = "tool" THEN [s[m] EXCEPT !.role = "user"] ELSE s[m]]
  PROVE  h \in Seq(C!Message) /\ Len(h) = Len(s) /\ Ordered(h, "user") /\ Whole(h)
<1>1. Len(s) \in Nat /\ \A k \in 1..Len(s) : s[k] \in C!Message
  OBVIOUS
<1>2. ASSUME NEW k \in 1..Len(s)
      PROVE  /\ h[k] \in C!Message /\ h[k].results = s[k].results /\ C!CallsOf(h[k]) = C!CallsOf(s[k])
             /\ h[k].role = IF s[k].role = "tool" THEN "user" ELSE s[k].role
  <2>1. s[k] \in C!Message
    BY <1>1
  <2>2. CASE s[k].role = "tool"
    <3>1. h[k] = [s[k] EXCEPT !.role = "user"]
      BY <2>2
    <3>2. h[k] \in C!Message /\ h[k].results = s[k].results /\ h[k].uses = s[k].uses /\ h[k].role = "user"
      BY <2>1, <3>1 DEF C!Message, C!Roles
    <3> QED
      BY <2>2, <3>2 DEF C!CallsOf
  <2>3. CASE s[k].role # "tool"
    BY <2>1, <2>3
  <2> QED
    BY <2>2, <2>3
<1>3. h \in Seq(C!Message) /\ Len(h) = Len(s)
  BY <1>1, <1>2
<1>4. Linked(h)
  <2>1. ASSUME NEW k \in 1..Len(s)
        PROVE  h[k].results = IF k = 1 THEN {} ELSE C!CallsOf(h[k - 1])
    <3>1. k # 1 => k - 1 \in 1..Len(s)
      BY <1>1
    <3> QED
      BY <1>2, <3>1 DEF Ordered, Linked
  <2> QED
    BY <1>3, <2>1 DEF Linked
<1>5. h # <<>> => s # <<>> /\ 1 \in 1..Len(s) /\ Len(s) \in 1..Len(s)
  BY <1>1, <1>3
<1>6. Ordered(h, "user")
  <2>1. h # <<>> => h[1].role = "user"
    BY <1>2, <1>5 DEF Ordered
  <2>2. \A k \in 1..Len(h) : /\ h[k].results # {} => h[k].role = "user"
                             /\ C!CallsOf(h[k]) # {} => h[k].role = "assistant"
    BY <1>2, <1>3 DEF Ordered
  <2>3. \A j, k \in 1..Len(h) : j # k => C!CallsOf(h[j]) \cap C!CallsOf(h[k]) = {}
    BY <1>2, <1>3 DEF Ordered
  <2> QED
    BY <1>4, <2>1, <2>2, <2>3 DEF Ordered
<1>7. Whole(h)
  BY <1>2, <1>3, <1>4, <1>5 DEF Whole
<1> QED
  BY <1>3, <1>6, <1>7

\* A text is a message without calls or results.
LEMMA TextType ==
  ASSUME NEW role \in C!Roles, NEW marks \in SUBSET C!Marks, NEW n \in Nat
  PROVE  /\ C!Text(role, marks, n) \in C!Message
         /\ C!Text(role, marks, n).results = {} /\ C!CallsOf(C!Text(role, marks, n)) = {}
         /\ C!Text(role, marks, n).role = role
BY DEF C!Text, C!Message, C!NoUses, C!CallsOf

\* The types hold of a client that has just started.
LEMMA ChatTypesInit == Init => ChatTypes
<1> SUFFICES ASSUME Init
             PROVE  ChatTypes
  OBVIOUS
<1>1. TypeOK
  <2>1. pc = "start" /\ messages = <<>> /\ pending = <<>> /\ answered = {} /\ iteration = 0
        /\ thinking = "closed" /\ current \in DBs
    BY DEF Init
  <2>2. {canceled, currentDBWritable, abandoned, missed, slipped} \subseteq BOOLEAN
    BY DEF Init
  <2>3. 0 \in 0..MaxAgenticLoops
    BY ChatAssumption
  <2> QED
    BY <2>1, <2>2, <2>3 DEF TypeOK
<1>2. saved = [messages |-> <<>>, connection |-> {}, abandoned |-> FALSE] /\ used.calls = 0 /\ pc = "start"
  BY DEF Init, NoConversation
<1>3. used = [queries |-> 0, commands |-> 0, calls |-> 0]
  BY DEF Init
<1> QED
  BY <1>1, <1>2, <1>3 DEF ChatTypes

\* A query adds the user's text, or a prompt's.
LEMMA QueryTexts ==
  ASSUME NEW texts \in TypedText \cup PromptMessages
  PROVE  \/ \E a \in C!Message : /\ texts = <<a>> /\ a.role = "user"
                                 /\ a.results = {} /\ C!CallsOf(a) = {}
         \/ \E a, b \in C!Message : /\ texts = <<a, b>> /\ a.role = "user"
                                    /\ a.results = {} /\ C!CallsOf(a) = {}
                                    /\ b.results = {} /\ C!CallsOf(b) = {}
<1>1. CASE texts \in TypedText
  <2>1. PICK n \in Lengths : texts = <<C!Text("user", {"topic"}, n)>>
    BY <1>1 DEF TypedText
  <2>2. "user" \in C!Roles /\ {"topic"} \in SUBSET C!Marks /\ n \in Nat
    BY ChatAssumption DEF C!Roles, C!Marks
  <2> DEFINE a == C!Text("user", {"topic"}, n)
  <2>3. a \in C!Message /\ a.role = "user" /\ a.results = {} /\ C!CallsOf(a) = {}
    BY <2>2, TextType
  <2>4. texts = <<a>>
    BY <2>1
  <2> HIDE DEF a
  <2> QED
    BY <2>3, <2>4
<1>2. CASE texts \in PromptMessages
  <2>1. PICK n \in Lengths : texts = <<C!Text("user", {}, n), C!Text("assistant", {}, n)>>
    BY <1>2 DEF PromptMessages
  <2>2. "user" \in C!Roles /\ "assistant" \in C!Roles /\ {} \in SUBSET C!Marks /\ n \in Nat
    BY ChatAssumption DEF C!Roles
  <2> DEFINE a == C!Text("user", {}, n)
             b == C!Text("assistant", {}, n)
  <2>3. /\ a \in C!Message /\ a.role = "user" /\ a.results = {} /\ C!CallsOf(a) = {}
        /\ b \in C!Message /\ b.results = {} /\ C!CallsOf(b) = {}
    BY <2>2, TextType
  <2>4. texts = <<a, b>>
    BY <2>1
  <2> HIDE DEF a, b
  <2> QED
    BY <2>3, <2>4
<1> QED
  BY <1>1, <1>2

\* The calls of an answer: what is pending, and the message that makes them.
LEMMA CallsMade ==
  ASSUME ChatTypes, NEW k \in 1..MaxParallel, NEW rs \in [1..k -> Requests], LLMCallsTools(rs)
  PROVE  /\ pending' \in Seq(Call) /\ used'.calls \in Nat /\ used.calls <= used'.calls
         /\ {pending'[i].id : i \in 1..Len(pending')} = (used.calls + 1)..used'.calls
         /\ \E m \in C!Message : /\ messages' = Append(messages, m)
                                 /\ m.results = {} /\ m.role = "assistant"
                                 /\ C!CallsOf(m) = (used.calls + 1)..used'.calls
<1> DEFINE n == used.calls
<1>1. k \in Nat /\ n \in Nat /\ Len(rs) = k
  BY ChatAssumption DEF ChatTypes
<1>2. n + k \in CallIds /\ used' = [used EXCEPT !.calls = n + k]
      /\ pending' = [i \in 1..k |-> [id |-> n + i, request |-> rs[i]]]
  BY <1>1 DEF LLMCallsTools
<1>3. used'.calls = n + k
  BY <1>1, <1>2 DEF ChatTypes
<1>4. (n + 1)..(n + k) \subseteq CallIds
  <2>1. 1..(n + k) \subseteq CallIds
    BY <1>2, ChatAssumption
  <2> QED
    BY <1>1, <2>1
<1>5. pending' \in Seq(Call)
  <2>1. ASSUME NEW i \in 1..k
        PROVE  [id |-> n + i, request |-> rs[i]] \in Call
    <3>1. n + i \in (n + 1)..(n + k)
      BY <1>1
    <3> QED
      BY <1>4, <3>1 DEF Call
  <2> QED
    BY <1>1, <1>2, <2>1
<1>6. {pending'[i].id : i \in 1..Len(pending')} = (n + 1)..(n + k)
  <2>1. Len(pending') = k /\ \A i \in 1..k : pending'[i].id = n + i
    BY <1>1, <1>2
  <2>2. \A j \in (n + 1)..(n + k) : j - n \in 1..k /\ n + (j - n) = j
    BY <1>1
  <2>3. \A i \in 1..k : n + i \in (n + 1)..(n + k)
    BY <1>1
  <2> DEFINE ids == {pending'[i].id : i \in 1..Len(pending')}
  <2>4. ids = {n + i : i \in 1..k}
    BY <2>1
  <2>5. {n + i : i \in 1..k} = (n + 1)..(n + k)
    <3>1. ASSUME NEW j \in (n + 1)..(n + k)
          PROVE  j \in {n + i : i \in 1..k}
      BY <2>2
    <3> QED
      BY <2>3, <3>1
  <2> QED
    BY <2>4, <2>5
<1> DEFINE made == [i \in CallIds |-> IF i \in (n + 1)..(n + k) THEN "other" ELSE "none"]
           m == [C!Text("assistant", {}, 0) EXCEPT !.uses = made]
<1>7. messages' = Append(messages, m)
  BY <1>3 DEF LLMCallsTools
<1>8. made \in [CallIds -> C!ToolNames \cup {"none"}] /\ {i \in CallIds : made[i] # "none"} = (n + 1)..(n + k)
  BY <1>4 DEF C!ToolNames
<1> HIDE DEF made
<1>9. m \in C!Message /\ m.results = {} /\ m.role = "assistant" /\ m.uses = made
  BY <1>8 DEF C!Text, C!Message, C!Roles
<1>10. C!CallsOf(m) = (n + 1)..(n + k)
  BY <1>8, <1>9 DEF C!CallsOf
<1>11. used'.calls \in Nat /\ used.calls <= used'.calls
  BY <1>1, <1>3
<1>12. \E x \in C!Message : /\ messages' = Append(messages, x)
                            /\ x.results = {} /\ x.role = "assistant"
                            /\ C!CallsOf(x) = (used.calls + 1)..used'.calls
  <2> HIDE DEF m
  <2> QED
    BY <1>3, <1>7, <1>9, <1>10
<1> QED
  BY <1>3, <1>5, <1>6, <1>11, <1>12

\* What a query and the prompt make of sequences.
LEMMA ShortSequences ==
  ASSUME NEW S
  PROVE  <<>> \in Seq(S) /\ \A a, b \in S : <<a>> \in Seq(S) /\ <<a, b>> \in Seq(S)
<1>1. <<>> \in Seq(S)
  OBVIOUS
<1>2. \A a \in S : <<a>> \in Seq(S)
  OBVIOUS
<1>3. \A a, b \in S : <<a, b>> \in Seq(S)
  OBVIOUS
<1> QED
  BY <1>1, <1>2, <1>3

\* The calls counted as used.
LEMMA MoreCalls ==
  ASSUME NEW u \in [queries: Nat, commands: Nat, calls: Nat], NEW n \in Nat
  PROVE  [u EXCEPT !.calls = @ + n] \in [queries: Nat, commands: Nat, calls: Nat]
<1>1. u.calls + n \in Nat
  OBVIOUS
<1> QED
  BY <1>1

\* What a listing and a call leave of the flags.
LEMMA RelistTypes ==
  ASSUME NEW listed \in BOOLEAN, NEW db, NEW otherwise \in BOOLEAN, Relist(listed, db, otherwise)
  PROVE  currentDBWritable' \in BOOLEAN /\ missed' \in BOOLEAN
<1>1. CASE listed
  BY <1>1 DEF Relist
<1>2. CASE ~listed
  BY <1>2 DEF Relist
<1> QED
  BY <1>1, <1>2

\* What a call changes on the server.
LEMMA ExecutedTypes ==
  ASSUME ChatTypes, pc = "call", NEW done \in BOOLEAN, Executed(done)
  PROVE  current' \in DBs /\ slipped' \in BOOLEAN
<1>1. call.request \in Requests /\ current \in DBs /\ slipped \in BOOLEAN
  BY DEF ChatTypes, TypeOK
<1>2. call.request.tool = "select" => call.request.db \in DBs
  <2> DEFINE q == call.request
  <2>1. q \in Requests
    BY <1>1
  <2> HIDE DEF q
  <2>2. q.tool = "select" => q.db \in DBs
    <3>1. CASE \E db \in DBs : q = Request("select", db, FALSE)
      BY <3>1 DEF Request
    <3>2. CASE q \in {Request("read", "", FALSE), Request("write", "", FALSE), Request("read", "", TRUE)}
      <4>1. Request("read", "", FALSE).tool = "read" /\ Request("write", "", FALSE).tool = "write"
            /\ Request("read", "", TRUE).tool = "read"
        BY DEF Request
      <4> QED
        BY <3>2, <4>1
    <3> QED
      BY <2>1, <3>1, <3>2 DEF Requests
  <2> QED
    BY <2>2 DEF q
<1> QED
  BY <1>1, <1>2 DEF Executed

\* Back at the prompt, the query's own variables are what they were before it.
LEMMA ToPromptTypes ==
  ASSUME ToPrompt
  PROVE  /\ pc' = "prompt" /\ pending' \in Seq(Call) /\ answered' \subseteq CallIds
         /\ iteration' \in 0..MaxAgenticLoops /\ thinking' \in {"open", "closed"}
         /\ canceled' \in BOOLEAN
<1>1. MaxAgenticLoops \in Nat /\ 0 \in 0..MaxAgenticLoops
  BY ChatAssumption
<1>2. pending' = <<>> /\ answered' = {} /\ iteration' = 0 /\ pc' = "prompt"
  BY DEF ToPrompt
<1>3. thinking' = "closed" /\ canceled' = FALSE
  BY DEF ToPrompt
<1>4. pending' \in Seq(Call)
  BY <1>2, ShortSequences
<1> QED
  BY <1>1, <1>2, <1>3, <1>4

\* Whatever the user or another session does at the prompt.
LEMMA CommandTypes ==
  ASSUME ChatTypes,
         \/ \E db \in DBs, s, l \in BOOLEAN : Run(db, s, l)
         \/ \E db \in DBs, t, r, l \in BOOLEAN : SetDatabase(db, t, r, l)
         \/ NewConversation
         \/ \E l \in BOOLEAN : SaveConversation(l)
         \/ \E f, t, l \in BOOLEAN : LoadConversation(f, t, l)
         \/ \E db \in DBs : OtherSession(db)
         \/ Escape
         \/ Quit
  PROVE  ChatTypes'
<1> USE DEF ChatTypes, TypeOK
<1>0. used \in [queries: Nat, commands: Nat, calls: Nat] =>
        [used EXCEPT !.commands = @ + 1] \in [queries: Nat, commands: Nat, calls: Nat]
  BY SMTT(20)
<1>1. ASSUME NEW db \in DBs, NEW s \in BOOLEAN, NEW l \in BOOLEAN, Run(db, s, l)
      PROVE  ChatTypes'
  <2>1. currentDBWritable' \in BOOLEAN /\ missed' \in BOOLEAN
    BY <1>1, RelistTypes DEF Run
  <2> QED
    BY <1>1, <2>1 DEF Run
<1>2. ASSUME NEW db \in DBs, NEW t \in BOOLEAN, NEW r \in BOOLEAN, NEW l \in BOOLEAN,
             SetDatabase(db, t, r, l)
      PROVE  ChatTypes'
  <2>1. currentDBWritable' \in BOOLEAN /\ missed' \in BOOLEAN
    <3>1. CASE t /\ r
      BY <1>2, <3>1, RelistTypes DEF SetDatabase
    <3>2. CASE ~(t /\ r)
      BY <1>2, <3>2 DEF SetDatabase
    <3> QED
      BY <3>1, <3>2
  <2> QED
    BY <1>0, <1>2, <2>1 DEF SetDatabase, Command
<1>3. ASSUME NewConversation
      PROVE  ChatTypes'
  <2>1. messages' \in Seq(C!Message) /\ abandoned' \in BOOLEAN
    BY <1>3, ShortSequences DEF NewConversation
  <2> QED
    BY <1>0, <1>3, <2>1 DEF NewConversation, Command
<1>4. ASSUME NEW l \in BOOLEAN, SaveConversation(l)
      PROVE  ChatTypes'
  BY <1>0, <1>4 DEF SaveConversation, Command
<1>5. ASSUME NEW f \in BOOLEAN, NEW t \in BOOLEAN, NEW l \in BOOLEAN, LoadConversation(f, t, l)
      PROVE  ChatTypes'
  <2>1. currentDBWritable' \in BOOLEAN /\ missed' \in BOOLEAN /\ current' \in DBs
    <3>1. CASE saved.connection = {}
      BY <1>5, <3>1 DEF LoadConversation
    <3>2. CASE saved.connection # {}
      <4>1. Relist(l, current', FALSE) /\ current' \in saved.connection \cup {current}
        BY <1>5, <3>2 DEF LoadConversation
      <4> QED
        BY <4>1, RelistTypes
    <3> QED
      BY <3>1, <3>2
  <2> QED
    BY <1>0, <1>5, <2>1 DEF LoadConversation, Command
<1>6. ASSUME NEW db \in DBs, OtherSession(db)
      PROVE  ChatTypes'
  BY <1>0, <1>6 DEF OtherSession
<1>7. CASE Escape
  BY <1>7 DEF Escape
<1>8. CASE Quit
  BY <1>8 DEF Quit
<1> QED
  BY SMTT(20), <1>1, <1>2, <1>3, <1>4, <1>5, <1>6, <1>7, <1>8

\* And whatever a query does.
LEMMA StepTypes ==
  ASSUME ChatTypes, (\E texts \in TypedText \cup PromptMessages : Query(texts)) \/ Step
  PROVE  ChatTypes'
<1> USE DEF ChatTypes, TypeOK
<1>1. ASSUME NEW texts \in TypedText \cup PromptMessages, Query(texts)
      PROVE  ChatTypes'
  <2>1. texts \in Seq(C!Message)
    <3>1. \/ \E a \in C!Message : texts = <<a>>
          \/ \E a, b \in C!Message : texts = <<a, b>>
      BY QueryTexts
    <3>2. CASE \E a \in C!Message : texts = <<a>>
      BY <3>2, ShortSequences
    <3>3. CASE \E a, b \in C!Message : texts = <<a, b>>
      <4> PICK a, b \in C!Message : texts = <<a, b>>
        BY <3>3
      <4>1. \A x, y \in C!Message : <<x, y>> \in Seq(C!Message)
        BY ShortSequences
      <4> QED
        BY <4>1
    <3> QED
      BY <3>1, <3>2, <3>3
  <2>2. messages' \in Seq(C!Message)
    BY <1>1, <2>1 DEF Query
  <2>3. used' \in [queries: Nat, commands: Nat, calls: Nat]
    BY SMTT(20), <1>1 DEF Query
  <2> QED
    BY <1>1, <2>2, <2>3 DEF Query
<1>2. ASSUME NEW s \in BOOLEAN, Think(s)
      PROVE  ChatTypes'
  BY <1>2, ChatAssumption DEF Think
<1>3. CASE LoopLimit \/ LLMFails
  BY <1>3, ToPromptTypes DEF LoopLimit, LLMFails
<1>5. ASSUME NEW n \in Lengths, LLMAnswers(n)
      PROVE  ChatTypes'
  <2>1. C!Text("assistant", {}, n) \in C!Message
    BY TextType, ChatAssumption DEF C!Roles
  <2> QED
    BY <1>5, <2>1, ToPromptTypes DEF LLMAnswers
<1>6. ASSUME NEW k \in 1..MaxParallel, NEW rs \in [1..k -> Requests], LLMCallsTools(rs)
      PROVE  ChatTypes'
  <2>0. ChatTypes
    OBVIOUS
  <2>1. /\ pending' \in Seq(Call)
        /\ \E m \in C!Message : messages' = Append(messages, m)
    <3> HIDE DEF ChatTypes, TypeOK
    <3> QED
      BY <1>6, <2>0, CallsMade
  <2>2. messages' \in Seq(C!Message)
    BY <2>1
  <2>3. used' \in [queries: Nat, commands: Nat, calls: Nat]
    <3>1. Len(rs) \in Nat
      BY ChatAssumption
    <3>2. used' = [used EXCEPT !.calls = @ + Len(rs)]
      BY <1>6 DEF LLMCallsTools
    <3> QED
      BY <3>1, <3>2, MoreCalls
  <2> QED
    BY <1>6, <2>1, <2>2, <2>3 DEF LLMCallsTools
<1>7. CASE NextTool
  <2>1. pending' \in Seq(Call) /\ Head(pending) \in Call
    BY <1>7 DEF NextTool
  <2>2. pc' \in {"panic", "confirm", "call"} /\ thinking' \in {"open", "closed"}
    BY <1>7 DEF NextTool
  <2>3. pc' \in {"confirm", "call"} =>
          call' = [id |-> Head(pending).id, request |-> Head(pending).request, confirmed |-> FALSE]
    BY <1>7 DEF NextTool
  <2>4. pc' \in {"confirm", "call"} => call' \in [id: CallIds, request: Requests, confirmed: BOOLEAN]
    <3>1. ASSUME NEW c \in Call
          PROVE  [id |-> c.id, request |-> c.request, confirmed |-> FALSE]
                   \in [id: CallIds, request: Requests, confirmed: BOOLEAN]
      BY DEF Call
    <3> HIDE DEF ChatTypes, TypeOK
    <3> QED
      BY <2>1, <2>3, <3>1
  <2> QED
    BY <1>7, <2>1, <2>2, <2>4 DEF NextTool
<1>8. ASSUME NEW b \in BOOLEAN, Confirm(b)
      PROVE  ChatTypes'
  <2>1. CASE b
    BY <1>8, <2>1 DEF Confirm
  <2>2. CASE ~b
    BY <1>8, <2>2 DEF Confirm
  <2> QED
    BY <2>1, <2>2
<1>10. ASSUME NEW b \in BOOLEAN, CallReturns(b)
       PROVE  ChatTypes'
  <2>0. ChatTypes
    OBVIOUS
  <2>1. currentDBWritable' \in BOOLEAN /\ missed' \in BOOLEAN
    <3>1. CASE call.request.tool = "select"
      BY <1>10, <3>1, RelistTypes DEF CallReturns
    <3>2. CASE call.request.tool # "select"
      BY <1>10, <3>2 DEF CallReturns
    <3> QED
      BY <3>1, <3>2
  <2>2. current' \in DBs /\ slipped' \in BOOLEAN
    <3> HIDE DEF ChatTypes, TypeOK
    <3> QED
      BY <1>10, <2>0, ExecutedTypes DEF CallReturns
  <2> QED
    BY <1>10, <2>1, <2>2 DEF CallReturns
<1>11. ASSUME NEW b \in BOOLEAN, CallFails(b)
       PROVE  ChatTypes'
  <2>0. ChatTypes
    OBVIOUS
  <2>1. current' \in DBs /\ slipped' \in BOOLEAN
    <3> HIDE DEF ChatTypes, TypeOK
    <3> QED
      BY <1>11, <2>0, ExecutedTypes DEF CallFails
  <2>2. missed' \in BOOLEAN
    BY <1>11 DEF CallFails
  <2>3. CASE ToPrompt /\ abandoned' = TRUE
    BY <1>11, <2>1, <2>2, <2>3, ToPromptTypes DEF CallFails
  <2>4. CASE ~(ToPrompt /\ abandoned' = TRUE)
    BY <1>11, <2>1, <2>2, <2>4 DEF CallFails
  <2> QED
    BY <2>3, <2>4
<1>12. ASSUME NEW n \in Lengths, ToolsDone(n)
       PROVE  ChatTypes'
  <2>1. [C!Text("tool", {}, n) EXCEPT !.results = answered] \in C!Message
    <3>1. C!Text("tool", {}, n) \in C!Message
      BY TextType, ChatAssumption DEF C!Roles
    <3> QED
      BY <3>1 DEF C!Message
  <2> QED
    BY <1>12, <2>1 DEF ToolsDone
<1> QED
  BY <1>1, <1>2, <1>3, <1>5, <1>6, <1>7, <1>8, <1>10, <1>11, <1>12 DEF Step

\* So the types hold throughout.
LEMMA ChatTypesStep == ChatTypes /\ [Next]_vars => ChatTypes'
<1>1. ASSUME ChatTypes, UNCHANGED vars
      PROVE  ChatTypes'
  BY <1>1 DEF vars, ChatTypes, TypeOK
<1> QED
  BY <1>1, CommandTypes, StepTypes DEF Next

\* Calls are counted as they are made.
LEMMA NumberedMore ==
  ASSUME NEW M, NEW s \in Seq(M), NEW n \in Nat, NEW k \in Nat, n <= k, Numbered(s, n)
  PROVE  /\ Numbered(s, k)
         /\ \A m \in M : C!CallsOf(m) \subseteq 1..k => Numbered(Append(s, m), k)
<1>1. 1..n \subseteq 1..k
  OBVIOUS
<1>2. Numbered(s, k)
  BY <1>1 DEF Numbered
<1>3. ASSUME NEW m \in M, C!CallsOf(m) \subseteq 1..k
      PROVE  Numbered(Append(s, m), k)
  <2>1. Len(s) \in Nat /\ Len(Append(s, m)) = Len(s) + 1
    OBVIOUS
  <2>2. ASSUME NEW i \in 1..(Len(s) + 1)
        PROVE  C!CallsOf(Append(s, m)[i]) \subseteq 1..k
    <3>1. CASE i \in 1..Len(s)
      <4>1. Append(s, m)[i] = s[i]
        BY <3>1
      <4> QED
        BY <1>2, <3>1, <4>1 DEF Numbered
    <3>2. CASE i = Len(s) + 1
      <4>1. Append(s, m)[i] = m
        BY <3>2
      <4> QED
        BY <1>3, <4>1
    <3> QED
      BY <2>1, <3>1, <3>2
  <2> QED
    BY <2>1, <2>2 DEF Numbered
<1> QED
  BY <1>2, <1>3

\* A step that leaves the histories alone.
LEMMA HistoryKept ==
  ASSUME HistoryInv, UNCHANGED <<messages, saved, abandoned>>, used'.calls = used.calls,
         \/ UNCHANGED <<pc, pending, answered, call, sent>>
         \/ /\ pc \in {"start", "prompt", "think", "llm"}
            /\ pc' \in {"prompt", "exit"}
  PROVE  HistoryInv'
<1>1. /\ messages' = messages /\ saved' = saved /\ abandoned' = abandoned
  OBVIOUS
<1>2. CASE UNCHANGED <<pc, pending, answered, call, sent>>
  BY <1>1, <1>2 DEF HistoryInv, Awaited, LocalCompacted
<1>3. CASE pc \in {"start", "prompt", "think", "llm"} /\ pc' \in {"prompt", "exit"}
  BY <1>1, <1>3 DEF HistoryInv
<1> QED
  BY <1>2, <1>3

\* A client begins with no history.
LEMMA HistoryInit == Init => HistoryInv
<1> SUFFICES ASSUME Init
             PROVE  HistoryInv
  OBVIOUS
<1>1. /\ messages = <<>> /\ pc = "start" /\ used.calls = 0
      /\ saved.messages = <<>>
  BY DEF Init, NoConversation
<1>2. Ordered(<<>>, "tool") /\ Numbered(<<>>, 0) /\ Whole(<<>>)
  BY DEF Ordered, Linked, Whole, Numbered
<1> QED
  BY <1>1, <1>2 DEF HistoryInv

\* At the prompt a history is left alone, dropped, saved, or replaced by what
\* was saved.
LEMMA CommandHistory ==
  ASSUME ChatTypes, HistoryInv,
         \/ \E db \in DBs, s, l \in BOOLEAN : Run(db, s, l)
         \/ \E db \in DBs, t, r, l \in BOOLEAN : SetDatabase(db, t, r, l)
         \/ NewConversation
         \/ \E l \in BOOLEAN : SaveConversation(l)
         \/ \E f, t, l \in BOOLEAN : LoadConversation(f, t, l)
         \/ \E db \in DBs : OtherSession(db)
         \/ Escape
         \/ Quit
  PROVE  HistoryInv'
<1>0. [used EXCEPT !.commands = @ + 1].calls = used.calls
  BY DEF ChatTypes
<1>1. ASSUME NEW db \in DBs, NEW s \in BOOLEAN, NEW l \in BOOLEAN, Run(db, s, l)
      PROVE  HistoryInv'
  BY <1>1, HistoryKept DEF Run
<1>2. ASSUME NEW db \in DBs, NEW t \in BOOLEAN, NEW r \in BOOLEAN, NEW l \in BOOLEAN,
             SetDatabase(db, t, r, l)
      PROVE  HistoryInv'
  BY <1>0, <1>2, HistoryKept DEF SetDatabase, Command
<1> DEFINE Prompt == /\ pc = "prompt" /\ pc' = "prompt" /\ used'.calls = used.calls
<1>3. CASE NewConversation
  <2>1. /\ pc' = "prompt" /\ messages' = <<>> /\ saved' = saved /\ used'.calls = used.calls
    BY <1>0, <1>3 DEF NewConversation, Command
  <2>2. Ordered(<<>>, "tool") /\ Numbered(<<>>, used.calls) /\ Whole(<<>>)
    BY DEF Ordered, Linked, Whole, Numbered
  <2> QED
    BY <2>1, <2>2 DEF HistoryInv
<1>4. ASSUME NEW l \in BOOLEAN, SaveConversation(l)
      PROVE  HistoryInv'
  <2>1. /\ pc = "prompt" /\ pc' = "prompt" /\ used'.calls = used.calls
        /\ messages' = messages /\ abandoned' = abandoned
    BY <1>0, <1>4 DEF SaveConversation, Command
  <2>2. saved'.messages = messages /\ saved'.abandoned = abandoned
    BY <1>4 DEF SaveConversation
  <2> QED
    BY <2>1, <2>2 DEF HistoryInv
<1>5. ASSUME NEW f \in BOOLEAN, NEW t \in BOOLEAN, NEW l \in BOOLEAN, LoadConversation(f, t, l)
      PROVE  HistoryInv'
  <2>1. /\ pc = "prompt" /\ pc' = "prompt" /\ used'.calls = used.calls
        /\ messages' = saved.messages /\ abandoned' = saved.abandoned /\ saved' = saved
    BY <1>0, <1>5 DEF LoadConversation, Command
  <2> QED
    BY <2>1 DEF HistoryInv
<1>6. ASSUME NEW db \in DBs, OtherSession(db)
      PROVE  HistoryInv'
  BY <1>0, <1>6, HistoryKept DEF OtherSession
<1>7. CASE Escape
  BY <1>7, HistoryKept DEF Escape
<1>8. CASE Quit
  BY <1>8, HistoryKept DEF Quit
<1> QED
  BY <1>1, <1>2, <1>3, <1>4, <1>5, <1>6, <1>7, <1>8

\* A text of the user's, of a prompt or of the model's goes after a whole history.
LEMMA TextHistory ==
  ASSUME NEW s \in Seq(C!Message), NEW n \in Nat,
         Ordered(s, "tool"), Whole(s), Numbered(s, n), NEW m \in C!Message,
         m.results = {}, C!CallsOf(m) = {}, s = <<>> => m.role = "user"
  PROVE  /\ Append(s, m) \in Seq(C!Message) /\ Append(s, m) # <<>>
         /\ Ordered(Append(s, m), "tool") /\ Whole(Append(s, m)) /\ Numbered(Append(s, m), n)
<1>1. C!CallsOf(m) \subseteq 1..n /\ n <= n
  OBVIOUS
<1>2. Numbered(Append(s, m), n)
  BY <1>1, NumberedMore
<1>3. /\ Append(s, m) \in Seq(C!Message) /\ Append(s, m) # <<>>
      /\ Ordered(Append(s, m), "tool") /\ Whole(Append(s, m))
  BY TextMore
<1> QED
  BY <1>2, <1>3

\* What the user or a prompt adds.
LEMMA QueryHistory ==
  ASSUME ChatTypes, HistoryInv, NEW texts \in TypedText \cup PromptMessages, Query(texts)
  PROVE  HistoryInv'
<1>1. /\ pc = "prompt" /\ pc' = "think" /\ messages' = messages \o texts
      /\ abandoned' = abandoned /\ saved' = saved
  BY DEF Query
<1>2. used'.calls = used.calls /\ used.calls \in Nat /\ messages \in Seq(C!Message)
  BY DEF Query, ChatTypes, TypeOK
<1>3. messages' # <<>> /\ (~abandoned => /\ Ordered(messages', "tool") /\ Whole(messages')
                                         /\ Numbered(messages', used.calls))
  <2>1. CASE \E a \in C!Message : /\ texts = <<a>> /\ a.role = "user"
                                  /\ a.results = {} /\ C!CallsOf(a) = {}
    <3> PICK a \in C!Message : /\ texts = <<a>> /\ a.role = "user"
                               /\ a.results = {} /\ C!CallsOf(a) = {}
      BY <2>1
    <3>1. messages' = Append(messages, a) /\ messages' # <<>>
      BY <1>1, <1>2
    <3>2. ~abandoned => Ordered(messages, "tool") /\ Whole(messages) /\ Numbered(messages, used.calls)
      BY <1>1 DEF HistoryInv
    <3> QED
      BY <1>2, <3>1, <3>2, TextHistory
  <2>2. CASE \E a, b \in C!Message : /\ texts = <<a, b>> /\ a.role = "user"
                                     /\ a.results = {} /\ C!CallsOf(a) = {}
                                     /\ b.results = {} /\ C!CallsOf(b) = {}
    <3> PICK a, b \in C!Message : /\ texts = <<a, b>> /\ a.role = "user"
                                  /\ a.results = {} /\ C!CallsOf(a) = {}
                                  /\ b.results = {} /\ C!CallsOf(b) = {}
      BY <2>2
    <3> DEFINE t == Append(messages, a)
    <3>1. messages' = Append(t, b) /\ messages' # <<>>
      BY <1>1, <1>2
    <3>2. ~abandoned => Ordered(messages, "tool") /\ Whole(messages) /\ Numbered(messages, used.calls)
      BY <1>1 DEF HistoryInv
    <3>3. ~abandoned => /\ t \in Seq(C!Message) /\ t # <<>>
                        /\ Ordered(t, "tool") /\ Whole(t) /\ Numbered(t, used.calls)
      BY <1>2, <3>2, TextHistory
    <3> HIDE DEF t
    <3> QED
      BY <1>2, <3>1, <3>3, TextHistory
  <2> QED
    BY <2>1, <2>2, QueryTexts
<1> QED
  BY <1>1, <1>2, <1>3 DEF HistoryInv

\* What is sent is the history, the client's own compaction, or the server's.
LEMMA ThinkHistory ==
  ASSUME ChatTypes, HistoryInv, NEW b \in BOOLEAN, Think(b)
  PROVE  HistoryInv'
<1>1. /\ pc = "think" /\ pc' = "llm"
      /\ messages' = messages /\ abandoned' = abandoned /\ saved' = saved /\ used' = used
      /\ sent' = CompactMessages(b)
  BY DEF Think
<1>2. sent'.by = "server" \/ sent'.messages \in {messages, LocalCompacted}
  BY <1>1 DEF CompactMessages
<1>3. LocalCompacted' = LocalCompacted
  BY <1>1 DEF LocalCompacted
<1> QED
  BY <1>1, <1>2, <1>3 DEF HistoryInv

\* Calls under new identifiers, of a message that answers nothing.
LEMMA CallsMore ==
  ASSUME NEW s \in Seq(C!Message), s # <<>>, NEW n \in Nat, NEW k \in Nat, n <= k,
         Ordered(s, "tool"), Whole(s), Numbered(s, n), NEW m \in C!Message,
         m.results = {}, m.role = "assistant", C!CallsOf(m) = (n + 1)..k
  PROVE  /\ Ordered(Append(s, m), "tool") /\ Numbered(Append(s, m), k)
         /\ Append(s, m) # <<>> /\ Append(s, m)[Len(Append(s, m))] = m
<1>1. m.results = IF s = <<>> THEN {} ELSE C!CallsOf(s[Len(s)])
  BY DEF Whole
<1>2. \A i \in 1..Len(s) : C!CallsOf(m) \cap C!CallsOf(s[i]) = {}
  <2>1. \A i \in 1..Len(s) : C!CallsOf(s[i]) \subseteq 1..n
    BY DEF Numbered
  <2>2. \A x \in 1..n : x \notin (n + 1)..k
    OBVIOUS
  <2> QED
    BY <2>1, <2>2
<1>3. /\ m.results # {} => m.role = "tool"
      /\ C!CallsOf(m) # {} => m.role = "assistant"
      /\ s = <<>> => m.role = "user"
  OBVIOUS
<1>6. Follows(s, m, "tool")
  BY <1>1, <1>2, <1>3 DEF Follows
<1>4. /\ Append(s, m) # <<>> /\ Append(s, m)[Len(Append(s, m))] = m
      /\ Ordered(Append(s, m), "tool")
  BY <1>6, OrderedMore
<1>5. C!CallsOf(m) \subseteq 1..k
  OBVIOUS
<1> QED
  BY <1>4, <1>5, NumberedMore

\* The model answers: a text, or calls under new identifiers.
LEMMA AnswerHistory ==
  ASSUME ChatTypes, HistoryInv, NEW n \in Lengths, LLMAnswers(n)
  PROVE  HistoryInv'
<1> DEFINE m == C!Text("assistant", {}, n)
<1>1. m \in C!Message /\ m.results = {} /\ C!CallsOf(m) = {}
  BY TextType, ChatAssumption DEF C!Roles
<1>2. messages' = Append(messages, m)
  BY DEF LLMAnswers
<1> HIDE DEF m
<1>3. /\ pc = "llm" /\ pc' = "prompt" /\ abandoned' = abandoned /\ saved' = saved /\ used' = used
  BY DEF LLMAnswers, ToPrompt
<1>4. used.calls \in Nat /\ messages \in Seq(C!Message)
  BY DEF ChatTypes, TypeOK
<1>5. messages # <<>> /\ (~abandoned => /\ Ordered(messages, "tool") /\ Whole(messages)
                                        /\ Numbered(messages, used.calls))
  BY <1>3 DEF HistoryInv
<1>6. ~abandoned => /\ Ordered(messages', "tool") /\ Whole(messages')
                    /\ Numbered(messages', used.calls)
  BY <1>1, <1>2, <1>4, <1>5, TextHistory
<1> QED
  BY <1>3, <1>6 DEF HistoryInv

\* Calls of the model open what their results will close.
LEMMA CallsHistory ==
  ASSUME ChatTypes, HistoryInv, NEW k \in 1..MaxParallel, NEW rs \in [1..k -> Requests],
         LLMCallsTools(rs)
  PROVE  HistoryInv'
<1>1. /\ pc = "llm" /\ pc' = "tools" /\ abandoned' = abandoned /\ saved' = saved /\ answered' = {}
  BY DEF LLMCallsTools
<1>2. PICK m \in C!Message : /\ messages' = Append(messages, m)
                             /\ m.results = {} /\ m.role = "assistant"
                             /\ C!CallsOf(m) = (used.calls + 1)..used'.calls
  BY CallsMade
<1>3. used'.calls \in Nat /\ used.calls <= used'.calls /\ used.calls \in Nat
  BY CallsMade DEF ChatTypes
<1>4. {pending'[i].id : i \in 1..Len(pending')} = (used.calls + 1)..used'.calls
  BY CallsMade
<1>5. messages \in Seq(C!Message) /\ saved.messages \in Seq(C!Message)
  BY DEF ChatTypes, TypeOK
<1>6. messages # <<>> /\ (~abandoned => /\ Ordered(messages, "tool") /\ Whole(messages)
                                        /\ Numbered(messages, used.calls))
  BY <1>1 DEF HistoryInv
<1>7. ~abandoned => /\ Ordered(messages', "tool") /\ Numbered(messages', used'.calls)
                    /\ messages' # <<>> /\ messages'[Len(messages')] = m
  <2> SUFFICES ASSUME ~abandoned
               PROVE  /\ Ordered(Append(messages, m), "tool") /\ Numbered(Append(messages, m), used'.calls)
                      /\ Append(messages, m) # <<>> /\ Append(messages, m)[Len(Append(messages, m))] = m
    BY <1>2
  <2>1. Ordered(messages, "tool") /\ Whole(messages) /\ Numbered(messages, used.calls)
    BY <1>6
  <2> DEFINE n == used.calls
             top == used'.calls
  <2>2. /\ messages \in Seq(C!Message) /\ messages # <<>> /\ n \in Nat /\ top \in Nat /\ n <= top
        /\ Ordered(messages, "tool") /\ Whole(messages) /\ Numbered(messages, n)
        /\ m.results = {} /\ m.role = "assistant" /\ C!CallsOf(m) = (n + 1)..top
    BY <1>2, <1>3, <1>5, <1>6, <2>1
  <2> HIDE DEF n, top
  <2>3. /\ Ordered(Append(messages, m), "tool") /\ Numbered(Append(messages, m), top)
        /\ Append(messages, m) # <<>> /\ Append(messages, m)[Len(Append(messages, m))] = m
    BY <2>2, CallsMore
  <2> QED
    BY <2>3 DEF top
<1>9. ~saved.abandoned => Numbered(saved.messages, used'.calls)
  <2>1. ~saved.abandoned => Numbered(saved.messages, used.calls)
    BY DEF HistoryInv
  <2> QED
    BY <1>3, <1>5, <2>1, NumberedMore
<1>10. messages' # <<>>
  BY <1>2, <1>5
<1>11. Awaited' = (used.calls + 1)..used'.calls
  BY <1>1, <1>4 DEF Awaited
<1>12. ~abandoned => C!CallsOf(messages'[Len(messages')]) = answered' \cup Awaited'
  BY <1>1, <1>2, <1>7, <1>11
<1> QED
  BY <1>1, <1>7, <1>9, <1>10, <1>12 DEF HistoryInv

\* A step among the calls of an answer moves calls from those awaited to those
\* answered, and loses none.
LEMMA CallsKept ==
  ASSUME HistoryInv, pc \in {"tools", "confirm", "call"},
         pc' \in {"tools", "confirm", "call", "panic"},
         UNCHANGED <<messages, saved, abandoned, used>>,
         pc' # "panic" => (answered \cup Awaited)' = answered \cup Awaited
  PROVE  HistoryInv'
<1>1. /\ messages' = messages /\ saved' = saved /\ abandoned' = abandoned /\ used' = used
  OBVIOUS
<1>2. pc' # "panic" => answered' \cup Awaited' = answered \cup Awaited
  OBVIOUS
<1> QED
  BY <1>1, <1>2 DEF HistoryInv

\* The calls awaited are the one under way and the ones pending.
LEMMA AwaitedNow ==
  ASSUME ChatTypes
  PROVE  /\ pc \notin {"confirm", "call"} => Awaited = {pending[k].id : k \in 1..Len(pending)}
         /\ pc \in {"confirm", "call"} =>
              Awaited = {pending[k].id : k \in 1..Len(pending)} \cup {call.id}
BY DEF Awaited

\* The identifiers of a sequence, its first set apart.
LEMMA HeadAndTail ==
  ASSUME NEW M, NEW s \in Seq(M), s # <<>>
  PROVE  {s[k].id : k \in 1..Len(s)} = {Head(s).id} \cup {Tail(s)[k].id : k \in 1..Len(Tail(s))}
<1>1. /\ Len(s) \in Nat \ {0} /\ Len(Tail(s)) = Len(s) - 1 /\ Head(s) = s[1]
      /\ \A k \in 1..(Len(s) - 1) : Tail(s)[k] = s[k + 1]
  OBVIOUS
<1>2. ASSUME NEW k \in 1..Len(s)
      PROVE  k = 1 \/ (k - 1 \in 1..(Len(s) - 1) /\ s[k] = Tail(s)[k - 1])
  BY <1>1
<1>3. ASSUME NEW k \in 1..(Len(s) - 1)
      PROVE  k + 1 \in 1..Len(s) /\ Tail(s)[k] = s[k + 1]
  BY <1>1
<1>4. 1 \in 1..Len(s)
  BY <1>1
<1> QED
  BY <1>1, <1>2, <1>3, <1>4

\* The next call is taken from those pending.
LEMMA NextToolHistory ==
  ASSUME ChatTypes, HistoryInv, NextTool
  PROVE  HistoryInv'
<1>1. /\ pc = "tools" /\ pending # <<>> /\ pending' = Tail(pending) /\ answered' = answered
      /\ UNCHANGED <<messages, saved, abandoned, used>>
  BY DEF NextTool
<1>2. pc' = "panic" \/ (pc' \in {"confirm", "call"} /\ call'.id = Head(pending).id)
  BY DEF NextTool
<1>3. {pending[k].id : k \in 1..Len(pending)}
        = {Head(pending).id} \cup {pending'[k].id : k \in 1..Len(pending')}
  <2>1. pending \in Seq(Call)
    BY DEF ChatTypes, TypeOK
  <2> QED
    BY <1>1, <2>1, HeadAndTail
<1>4. Awaited = {pending[k].id : k \in 1..Len(pending)}
  BY <1>1 DEF Awaited
<1>5. pc' # "panic" => Awaited' = {pending'[k].id : k \in 1..Len(pending')} \cup {Head(pending).id}
  BY <1>2 DEF Awaited
<1>6. pc' # "panic" => (answered \cup Awaited)' = answered \cup Awaited
  BY <1>1, <1>3, <1>4, <1>5
<1> QED
  BY <1>1, <1>2, <1>6, CallsKept

\* The call under way is answered.
LEMMA AnsweredHistory ==
  ASSUME ChatTypes, HistoryInv, pc \in {"confirm", "call"}, pc' = "tools",
         answered' = answered \cup {call.id},
         UNCHANGED <<messages, pending, saved, abandoned, used>>
  PROVE  HistoryInv'
<1>1. pending' = pending
  OBVIOUS
<1>2. Awaited = {pending[k].id : k \in 1..Len(pending)} \cup {call.id}
  BY DEF Awaited
<1>3. Awaited' = {pending[k].id : k \in 1..Len(pending)}
  BY <1>1 DEF Awaited
<1>4. (answered \cup Awaited)' = answered \cup Awaited
  BY <1>2, <1>3
<1> QED
  BY <1>4, CallsKept

\* A call confirmed is still awaited; one refused is answered.
LEMMA ConfirmHistory ==
  ASSUME ChatTypes, HistoryInv, NEW b \in BOOLEAN, Confirm(b)
  PROVE  HistoryInv'
<1>1. CASE b
  <2>1. /\ pc = "confirm" /\ pc' = "call" /\ pending' = pending /\ answered' = answered
        /\ call' = [call EXCEPT !.confirmed = TRUE]
        /\ UNCHANGED <<messages, saved, abandoned, used>>
    BY <1>1 DEF Confirm
  <2>2. call'.id = call.id
    BY <2>1 DEF ChatTypes
  <2>3. Awaited' = Awaited
    BY <2>1, <2>2 DEF Awaited
  <2> QED
    BY <2>1, <2>3, CallsKept
<1>2. CASE ~b
  BY <1>2, AnsweredHistory DEF Confirm
<1> QED
  BY <1>1, <1>2

\* A call that returns or fails is answered, unless Escape ended the query.
LEMMA CallHistory ==
  ASSUME ChatTypes, HistoryInv, NEW b \in BOOLEAN, CallReturns(b) \/ CallFails(b)
  PROVE  HistoryInv'
<1>1. CASE CallReturns(b)
  BY <1>1, AnsweredHistory DEF CallReturns
<1>2. CASE CallFails(b) /\ ~(ToPrompt /\ abandoned' = TRUE)
  BY <1>2, AnsweredHistory DEF CallFails
<1>3. CASE CallFails(b) /\ ToPrompt /\ abandoned' = TRUE
  <2>1. pc' = "prompt" /\ abandoned' = TRUE /\ saved' = saved /\ used' = used
    BY <1>3 DEF CallFails, ToPrompt
  <2> QED
    BY <2>1 DEF HistoryInv
<1> QED
  BY <1>1, <1>2, <1>3

\* When no call is left the results of all of them are one message.
LEMMA ToolsDoneHistory ==
  ASSUME ChatTypes, HistoryInv, NEW n \in Lengths, ToolsDone(n)
  PROVE  HistoryInv'
<1> DEFINE m == [C!Text("tool", {}, n) EXCEPT !.results = answered]
<1>1. m \in C!Message /\ m.results = answered /\ C!CallsOf(m) = {} /\ m.role = "tool"
  <2>1. C!Text("tool", {}, n) \in C!Message /\ C!CallsOf(C!Text("tool", {}, n)) = {}
        /\ C!Text("tool", {}, n).role = "tool"
    BY TextType, ChatAssumption DEF C!Roles
  <2>2. answered \subseteq CallIds
    BY DEF ChatTypes, TypeOK
  <2> QED
    BY <2>1, <2>2 DEF C!Message, C!CallsOf
<1>2. messages' = Append(messages, m)
  BY DEF ToolsDone
<1> HIDE DEF m
<1>3. /\ pc = "tools" /\ pc' = "think" /\ pending = <<>>
      /\ abandoned' = abandoned /\ saved' = saved /\ used' = used
  BY DEF ToolsDone
<1>4. used.calls \in Nat /\ messages \in Seq(C!Message)
  BY DEF ChatTypes, TypeOK
<1>5. Awaited = {}
  BY <1>3 DEF Awaited
<1>6. messages # <<>> /\ (~abandoned => /\ Ordered(messages, "tool") /\ Numbered(messages, used.calls)
                                        /\ C!CallsOf(messages[Len(messages)]) = answered)
  BY <1>3, <1>5 DEF HistoryInv
<1>7. ASSUME ~abandoned
      PROVE  Ordered(messages', "tool") /\ Whole(messages') /\ Numbered(messages', used.calls)
  <2>1. m.results = IF messages = <<>> THEN {} ELSE C!CallsOf(messages[Len(messages)])
    BY <1>1, <1>6, <1>7
  <2>2. \A i \in 1..Len(messages) : C!CallsOf(m) \cap C!CallsOf(messages[i]) = {}
    BY <1>1
  <2>3. /\ m.results # {} => m.role = "tool"
        /\ C!CallsOf(m) # {} => m.role = "assistant"
        /\ messages = <<>> => m.role = "user"
    BY <1>1, <1>6
  <2>4. Ordered(messages, "tool") /\ Numbered(messages, used.calls)
    BY <1>6, <1>7
  <2>5. Ordered(Append(messages, m), "tool") /\ Whole(Append(messages, m))
    <3>1. Follows(messages, m, "tool")
      BY <2>1, <2>2, <2>3 DEF Follows
    <3> QED
      BY <1>1, <1>4, <2>4, <3>1, OrderedMore
  <2>6. Numbered(Append(messages, m), used.calls)
    BY <1>1, <1>4, <2>4, NumberedMore
  <2> QED
    BY <1>2, <2>5, <2>6
<1>8. messages' # <<>>
  BY <1>2, <1>4
<1> QED
  BY <1>3, <1>7, <1>8 DEF HistoryInv

\* So the history stays such that every call is answered by the next message.
LEMMA HistoryStep == ChatTypes /\ HistoryInv /\ [Next]_vars => HistoryInv'
<1> SUFFICES ASSUME ChatTypes, HistoryInv, [Next]_vars
             PROVE  HistoryInv'
  OBVIOUS
<1>1. CASE UNCHANGED vars
  BY <1>1, HistoryKept DEF vars
<1>2. CASE LoopLimit \/ LLMFails
  BY <1>2, HistoryKept DEF LoopLimit, LLMFails, ToPrompt
<1>3. CASE Step
  BY <1>2, <1>3, ThinkHistory, AnswerHistory, CallsHistory, NextToolHistory, ConfirmHistory,
     CallHistory, ToolsDoneHistory DEF Step
<1> QED
  BY <1>1, <1>3, CommandHistory, QueryHistory DEF Next

\* What the client sends of such a history is paired.
LEMMA SendsPaired == ChatTypes /\ HistoryInv => SentPaired
<1> SUFFICES ASSUME ChatTypes, HistoryInv, sent.by # "server", ~abandoned, pc = "llm"
             PROVE  C!Paired(sent.messages)
  BY DEF SentPaired
<1>1. /\ messages \in Seq(C!Message) /\ messages # <<>> /\ Ordered(messages, "tool") /\ Whole(messages)
      /\ sent.messages \in {messages, LocalCompacted}
  BY DEF HistoryInv, ChatTypes, TypeOK
<1>2. RecentWindow \in Nat \ {0}
  BY ChatAssumption
<1>3. CASE sent.messages = messages
  <2>1. Linked(messages)
    BY <1>1 DEF Whole
  <2> QED
    BY <1>1, <1>3, <2>1, LinkedPaired
<1>4. CASE sent.messages = LocalCompacted
  BY <1>1, <1>2, <1>4, LocalKeepsPairs DEF LocalCompacted
<1> QED
  BY <1>1, <1>3, <1>4

\* So is what the server's compactor leaves of it, its results renamed.
LEMMA ServerSendsPaired == ChatTypes /\ HistoryInv => ServerKeepsPairs
<1> SUFFICES ASSUME ChatTypes, HistoryInv, pc = "llm", ~abandoned
             PROVE  C!Paired(ServerCompacted([m \in 1..Len(messages) |->
               IF messages[m].role = "tool" THEN [messages[m] EXCEPT !.role = "user"]
               ELSE messages[m]]))
  BY DEF ServerKeepsPairs
<1> DEFINE h == [m \in 1..Len(messages) |->
                   IF messages[m].role = "tool" THEN [messages[m] EXCEPT !.role = "user"]
                   ELSE messages[m]]
           r == [messages |-> h, maxTokens |-> MaxTokens, keepAnchors |-> TRUE,
                 recentWindow |-> RecentWindow, summaryLen |-> 100,
                 preserve |-> C!DefaultOptions.preserve, counter |-> C!DefaultOptions.counter,
                 summarize |-> C!DefaultOptions.summarize,
                 minImportant |-> C!DefaultOptions.minImportant]
<1>1. messages \in Seq(C!Message) /\ messages # <<>> /\ Ordered(messages, "tool") /\ Whole(messages)
  BY DEF HistoryInv, ChatTypes, TypeOK
<1>2. h \in Seq(C!Message) /\ Len(h) = Len(messages) /\ Ordered(h, "user") /\ Whole(h)
  BY <1>1, ServersHistory
<1>3. h # <<>>
  BY <1>1, <1>2
<1> HIDE DEF h
<1>4. r.messages = h /\ r.preserve = TRUE /\ r.recentWindow = RecentWindow /\ r.summaryLen = 100
  BY DEF C!DefaultOptions
<1>5. RecentWindow \in Nat \ {0} /\ 100 \in Nat
  BY ChatAssumption
<1>6. ServerCompacted(h) = C!Compact(r)
  BY DEF ServerCompacted
<1> HIDE DEF r
<1>7. C!Paired(C!Compact(r))
  BY <1>2, <1>3, <1>4, <1>5, ServerKeeps
<1> QED
  BY <1>6, <1>7 DEF h

\* The types and the shape of the history hold throughout.
THEOREM ChatInvCorrect == Spec => [](ChatTypes /\ HistoryInv)
<1>1. Init => ChatTypes /\ HistoryInv
  BY ChatTypesInit, HistoryInit
<1>2. ChatTypes /\ HistoryInv /\ [Next]_vars => (ChatTypes /\ HistoryInv)'
  BY ChatTypesStep, HistoryStep
<1> QED
  BY <1>1, <1>2, PTL DEF Spec

\* Whatever is typed, called, refused, cancelled, saved and loaded, and
\* however small the windows: what the client sends of a history it has not
\* abandoned inside a tool call has every call answered by the next message,
\* and so has what the server's compactor leaves of it, the results in the
\* role it expects.
THEOREM CompactionPairsCorrect == TerminalSpec => []CompactionPairs
<1>1. TerminalInit => ChatTypes /\ HistoryInv
  BY ChatTypesInit, HistoryInit DEF TerminalInit
<1>2. ChatTypes /\ HistoryInv /\ [TerminalNext]_all => (ChatTypes /\ HistoryInv)'
  <2>1. [TerminalNext]_all => [Next]_vars
    BY DEF TerminalNext, all
  <2> QED
    BY <2>1, ChatTypesStep, HistoryStep
<1>3. ChatTypes /\ HistoryInv => CompactionPairs
  BY SendsPaired, ServerSendsPaired DEF CompactionPairs, ChatTypes
<1> QED
  BY <1>1, <1>2, <1>3, PTL DEF TerminalSpec

(***************************************************************************)
(* The tokens: an inductive invariant, followed through every step.        *)
(***************************************************************************)

\* The points of a call.
Places == {"off", "ready", "refresh", "persist", "erase", "register",
           "browser", "exchange", "wait", "poll", "forget", "unheard"}
Kept == {"ready", "refresh", "forget", "unheard"}

\* What the types say, in the form the proofs use.
LEMMA TokenTypes ==
  ASSUME Token!TokenInv
  PROVE  /\ file \in [Origins -> 0 .. MaxPairs] /\ origin \in [Procs -> Origins]
         /\ entry \in [Procs -> 0 .. MaxPairs] /\ tokenPc \in [Procs -> Places]
         /\ doing \in [Procs -> {"none", "login", "token", "logout"}]
         /\ snap \in [Procs -> [Origins -> 0 .. MaxPairs]] /\ answer \in [Procs -> Token!Answers]
         /\ device \in [Procs -> [spent : Nat, interval : Nat]]
         /\ live \subseteq Token!Pairs /\ rotated \subseteq Token!Pairs /\ stale \subseteq Token!Pairs
         /\ shaken \subseteq Token!Pairs /\ replayed \subseteq shaken
BY DEF Token!TokenInv, Token!TypeOK, Places

\* An answer is a kind and a pair, and the pair comes with the kind "pair".
LEMMA AnswerTyped ==
  ASSUME NEW a \in Token!Answers
  PROVE  /\ a.pair \in 0 .. MaxPairs
         /\ a.kind = "pair" <=> a.pair # 0
BY TokenAssumption DEF Token!Answers, Token!Said

\* What is held anywhere is a pair that was issued, or none.
LEMMA PairsHeld ==
  ASSUME Token!TokenInv
  PROVE  /\ Len(family) \in Nat /\ Len(family) <= MaxPairs /\ MaxPairs \in Nat
         /\ family \in Seq(Nat) /\ 0 \notin Token!Pairs
         /\ \A t \in Token!Pairs : family[t] \in 1 .. t /\ family[t] \in Token!Pairs
                          /\ family[t] \in 1 .. MaxPairs
         /\ \A o \in Origins : file[o] \in Token!Pairs \cup {0}
         /\ \A q \in Procs : /\ entry[q] \in Token!Pairs \cup {0}
                            /\ answer[q].pair \in Token!Pairs \cup {0}
                            /\ \A o \in Origins : snap[q][o] \in Token!Pairs \cup {0}
<1>1. Token!Issued
  BY DEF Token!TokenInv
<1>2. Len(family) \in Nat /\ Len(family) <= MaxPairs /\ MaxPairs \in Nat
  BY <1>1, TokenAssumption DEF Token!Issued
<1>3. Token!Pairs \cup {0} = 0 .. Len(family) /\ 0 \notin Token!Pairs
  BY <1>2 DEF Token!Pairs
<1>4. ASSUME NEW t \in Token!Pairs
      PROVE  family[t] \in 1 .. t /\ family[t] \in Token!Pairs /\ family[t] \in 1 .. MaxPairs
  <2>1. family[t] \in 1 .. t
    BY <1>1, <1>4 DEF Token!Issued
  <2>2. t \in 1 .. Len(family)
    BY <1>4 DEF Token!Pairs
  <2> QED
    BY <1>2, <2>1, <2>2 DEF Token!Pairs
<1>5. \A o \in Origins : file[o] \in Token!Pairs \cup {0}
  BY <1>1, <1>3 DEF Token!Issued
<1>6. \A q \in Procs : /\ entry[q] \in Token!Pairs \cup {0}
                     /\ answer[q].pair \in Token!Pairs \cup {0}
                     /\ \A o \in Origins : snap[q][o] \in Token!Pairs \cup {0}
  BY <1>1, <1>3 DEF Token!Issued
<1>7. family \in Seq(Nat)
  BY <1>1 DEF Token!Issued
<1> QED
  BY <1>2, <1>3, <1>4, <1>5, <1>6, <1>7

\* Pairs of one login are of one server, wherever they are.
LEMMA OneServerEach ==
  ASSUME Token!TokenInv
  PROVE  /\ \A o, x \in Origins : Token!SameLogin(file[o], file[x]) => o = x
         /\ \A o \in Origins, p \in Procs :
              /\ Token!SameLogin(file[o], entry[p]) => o = origin[p]
              /\ \A x \in Origins : Token!SameLogin(snap[p][x], file[o]) => o = x
              /\ \A q \in Procs : Token!SameLogin(snap[q][o], entry[p]) => o = origin[p]
<1>1. PICK home \in [1 .. MaxPairs -> Origins] : Token!PlacedBy(home)
  BY DEF Token!TokenInv, Token!Placed
<1>2. origin \in [Procs -> Origins]
  BY TokenTypes
<1> QED
  BY <1>1, <1>2 DEF Token!PlacedBy, Token!SameLogin

\* A process lets something go, or nothing: it moves to another point with
\* less than it held, having read the cache at most.  What it lets go is of a
\* disturbed login, or the file caches it.
LetGo(p, place, e, a, s) ==
  /\ tokenPc' = [tokenPc EXCEPT ![p] = place] /\ entry' = [entry EXCEPT ![p] = e]
  /\ answer' = [answer EXCEPT ![p] = a] /\ snap' = [snap EXCEPT ![p] = s]
  /\ e \in {0, entry[p]} /\ a.pair \in {0, answer[p].pair}
  /\ s \in {snap[p], file, Token!Idle.snap}
  /\ UNCHANGED <<file, origin, family, stale>>
  /\ live' \subseteq live /\ rotated' = rotated /\ replayed' \subseteq shaken'
  /\ shaken \subseteq shaken' /\ shaken' \subseteq Token!Pairs
  /\ doing' \in [Procs -> {"none", "login", "token", "logout"}]
  /\ device' \in [Procs -> [spent : Nat, interval : Nat]]
  /\ e # entry[p] => \/ family[entry[p]] \in shaken'
                     \/ tokenPc[p] \in {"ready", "refresh"} /\ answer[p].pair = 0
  /\ a.pair # answer[p].pair => family[answer[p].pair] \in shaken'
  /\ e # 0 => place = tokenPc[p] \/ answer[p].pair = 0 \/ family[entry[p]] \in shaken'
  /\ place \in Kept => tokenPc[p] \in Kept \/ e = 0 \/ family[entry[p]] \in shaken'
  /\ place \in {"off", "register", "browser", "exchange", "wait", "poll", "erase"} => e = 0
  /\ place # "persist" /\ (place = "refresh" => tokenPc[p] = "refresh" /\ e = entry[p])
  /\ a.pair # 0 => \/ place \in Token!Waiting /\ place = tokenPc[p]
                   \/ place = "register" /\ family[a.pair] \in shaken'
LEMMA LetsGo ==
  ASSUME Token!TokenInv, NEW p \in Procs, NEW place \in Places, NEW e,
         NEW a \in Token!Answers, NEW s,
         LetGo(p, place, e, a, s)
  PROVE  Token!TokenInv'
<1> USE TokenTypes DEF LetGo
<1>1. \A q \in Procs :
        /\ tokenPc'[q] = IF q = p THEN place ELSE tokenPc[q]
        /\ entry'[q] = IF q = p THEN e ELSE entry[q]
        /\ answer'[q] = IF q = p THEN a ELSE answer[q]
        /\ snap'[q] = IF q = p THEN s ELSE snap[q]
  OBVIOUS
<1>2. Token!TypeOK'
  <2>1. Token!Idle.snap \in [Origins -> 0 .. MaxPairs]
    BY TokenAssumption DEF Token!Idle
  <2>2. e \in 0 .. MaxPairs /\ s \in [Origins -> 0 .. MaxPairs]
    BY <2>1, TokenAssumption
  <2>3. Token!Pairs' = Token!Pairs
    BY DEF Token!Pairs
  <2> QED
    BY <2>2, <2>3 DEF Token!TypeOK, Places
<1>3. Token!ReplayOnlyAfterLoss'
  BY DEF Token!ReplayOnlyAfterLoss
<1>4. Token!Issued'
  <2>1. Token!Issued /\ Len(family) \in Nat
    BY DEF Token!TokenInv, Token!Issued
  <2>2. \A o \in Origins : s[o] \in 0 .. Len(family)
    <3>1. \A o \in Origins : Token!Idle.snap[o] = 0
      BY DEF Token!Idle
    <3> QED
      BY SMTT(20), <2>1, <3>1 DEF Token!Issued
  <2>3. e \in 0 .. Len(family) /\ a.pair \in 0 .. Len(family)
    BY <2>1 DEF Token!Issued
  <2> QED
    BY <1>1, <2>1, <2>2, <2>3 DEF Token!Issued, Token!Pairs
<1>5. Token!PlacesOK'
  BY <1>1 DEF Token!TokenInv, Token!PlacesOK, Token!PlaceOK, Token!SameLogin, Token!Waiting
<1>6. Token!Placed'
  <2>1. PICK home \in [1 .. MaxPairs -> Origins] : Token!PlacedBy(home)
    BY DEF Token!TokenInv, Token!Placed
  <2>2. \A o \in Origins : s[o] # 0 => home[family[s[o]]] = o
    BY SMTT(20), <2>1 DEF Token!PlacedBy, Token!Idle
  <2>3. /\ e # 0 => home[family[e]] = origin[p]
        /\ a.pair # 0 => home[family[a.pair]] = origin[p]
    BY <2>1 DEF Token!PlacedBy
  <2>4. ASSUME NEW q \in Procs
        PROVE  /\ entry'[q] # 0 => home[family[entry'[q]]] = origin[q]
               /\ answer'[q].pair # 0 => home[family[answer'[q].pair]] = origin[q]
               /\ \A o \in Origins : snap'[q][o] # 0 => home[family[snap'[q][o]]] = o
    BY <1>1, <2>1, <2>2, <2>3 DEF Token!PlacedBy
  <2>5. Token!PlacedBy(home)'
    BY <2>1, <2>4 DEF Token!PlacedBy
  <2> QED
    BY <2>5 DEF Token!Placed
<1>7. Token!FreshLogin'
  BY <1>1 DEF Token!TokenInv, Token!FreshLogin, Token!SameLogin, Token!Idle
<1>8. Token!HeldAlone'
  BY <1>1 DEF Token!TokenInv, Token!HeldAlone, Token!SameLogin, Token!Sound
<1>9. Token!HeldCached'
  <2> SUFFICES ASSUME NEW q \in Procs, tokenPc'[q] \in Kept, entry'[q] # 0,
                      family[entry'[q]] \notin shaken'
               PROVE  file[origin[q]] = entry'[q]
    BY DEF Token!HeldCached, Token!Sound, Kept
  <2>1. entry[q] = entry'[q] /\ tokenPc[q] \in Kept
    BY <1>1
  <2> QED
    BY <2>1 DEF Token!TokenInv, Token!HeldCached, Token!Sound, Kept
<1>10. Token!HeldNewest'
  BY <1>1 DEF Token!TokenInv, Token!HeldNewest, Token!SameLogin, Token!Sound
<1>11. Token!HeldUnspent'
  <2> SUFFICES ASSUME NEW q \in Procs
               PROVE  /\ entry'[q] # 0 /\ family[entry'[q]] \notin shaken'
                          /\ entry'[q] \in rotated =>
                            tokenPc'[q] = "refresh" /\ answer'[q].pair # 0
                      /\ answer'[q].pair # 0 /\ family[answer'[q].pair] \notin shaken'
                           => answer'[q].pair \notin rotated
    BY DEF Token!HeldUnspent, Token!Sound
  <2>1. /\ entry[q] # 0 /\ family[entry[q]] \notin shaken' /\ entry[q] \in rotated
             => tokenPc[q] = "refresh" /\ answer[q].pair # 0
        /\ answer[q].pair # 0 /\ family[answer[q].pair] \notin shaken'
             => answer[q].pair \notin rotated
    BY DEF Token!TokenInv, Token!HeldUnspent, Token!Sound
  <2>2. tokenPc[q] = "refresh" /\ answer[q].pair # 0 => family[answer[q].pair] = family[entry[q]]
    BY DEF Token!TokenInv, Token!PlacesOK, Token!PlaceOK, Token!SameLogin
  <2> QED
    BY <1>1, <2>1, <2>2
<1>12. Token!SnapFollowed'
  BY <1>1 DEF Token!TokenInv, Token!SnapFollowed, Token!SameLogin, Token!Sound, Token!Idle
<1>13. ASSUME e # entry[p], family[entry[p]] \notin shaken'
       PROVE  file[origin[p]] = entry[p] /\ entry[p] \notin rotated
  BY <1>13 DEF Token!TokenInv, Token!HeldCached, Token!HeldUnspent, Token!Sound
<1>14. Token!LiveIsReachable'
  <2> SUFFICES ASSUME NEW t \in live, family[t] \notin shaken', \A o \in Origins : file[o] # t
               PROVE  \E q \in Procs : tokenPc'[q] # "off" /\ (entry'[q] = t \/ answer'[q].pair = t)
    BY DEF Token!LiveIsReachable
  <2>1. PICK q \in Procs : tokenPc[q] # "off" /\ (entry[q] = t \/ answer[q].pair = t)
    BY DEF Token!TokenInv, Token!LiveIsReachable
  <2>2. t # 0
    BY DEF Token!Pairs
  <2>3. entry'[q] = t \/ answer'[q].pair = t
    BY <1>1, <1>13, <2>1
  <2> QED
    BY <1>1, <2>1, <2>2, <2>3 DEF Token!Waiting
<1>15. Token!FileUnspent'
  <2> SUFFICES ASSUME NEW o \in Origins, file[o] # 0, family[file[o]] \notin shaken',
                      file[o] \in rotated
               PROVE  \E q \in Procs : Token!SameLogin(file[o], entry[q])'
    BY DEF Token!FileUnspent, Token!Sound
  <2>1. PICK q \in Procs : Token!SameLogin(file[o], entry[q])
    BY DEF Token!TokenInv, Token!FileUnspent, Token!Sound
  <2>2. o = origin[q]
    BY <2>1, OneServerEach
  <2>3. entry'[q] = entry[q]
    BY <1>1, <1>13, <2>1, <2>2 DEF Token!SameLogin
  <2> QED
    BY <2>1, <2>3 DEF Token!SameLogin
<1> QED
  BY <1>2, <1>3, <1>4, <1>5, <1>6, <1>7, <1>8, <1>9, <1>10, <1>11, <1>12, <1>14, <1>15
     DEF Token!TokenInv

\* A step that leaves every process and the cache as they are, and no pair
\* more on file or remembered.
LEMMA ServerForgets ==
  ASSUME Token!TokenInv,
         UNCHANGED <<file, origin, entry, tokenPc, doing, snap, answer, device, family, shaken,
                     replayed>>,
         live' \subseteq live, rotated' \subseteq rotated, stale' \subseteq Token!Pairs
  PROVE  Token!TokenInv'
<1>1. Token!TypeOK' /\ Token!Issued'
  BY DEF Token!TokenInv, Token!TypeOK, Token!Issued, Token!Pairs
<1>2. Token!ReplayOnlyAfterLoss' /\ Token!LiveIsReachable'
  BY DEF Token!TokenInv, Token!ReplayOnlyAfterLoss, Token!LiveIsReachable
<1>3. /\ Token!PlacesOK' /\ Token!FreshLogin'
      /\ Token!HeldAlone' /\ Token!HeldCached' /\ Token!SnapFollowed'
  <2>1. Token!PlacesOK'
    BY DEF Token!TokenInv, Token!PlacesOK, Token!PlaceOK, Token!SameLogin
  <2>2. Token!FreshLogin'
    BY DEF Token!TokenInv, Token!FreshLogin, Token!SameLogin
  <2>3. Token!HeldAlone' /\ Token!HeldCached' /\ Token!SnapFollowed'
    BY DEF Token!TokenInv, Token!HeldAlone, Token!HeldCached, Token!SnapFollowed,
           Token!SameLogin, Token!Sound
  <2> QED
    BY <2>1, <2>2, <2>3
<1>4. Token!Placed'
  BY DEF Token!TokenInv, Token!Placed, Token!PlacedBy
<1>5. Token!HeldNewest' /\ Token!HeldUnspent' /\ Token!FileUnspent'
  BY DEF Token!TokenInv, Token!HeldNewest, Token!HeldUnspent, Token!FileUnspent,
         Token!SameLogin, Token!Sound
<1> QED
  BY <1>1, <1>2, <1>3, <1>4, <1>5 DEF Token!TokenInv

\* A process takes what it holds, or what the file caches for its server, to
\* use it.
LEMMA Takes ==
  ASSUME Token!TokenInv, NEW p \in Procs, tokenPc[p] \in {"off", "ready"},
         NEW held, held = IF entry[p] # 0 THEN entry[p] ELSE file[origin[p]],
         NEW place \in {"ready", "refresh", "register"},
         place = "refresh" => held # 0, place = "register" => held = 0,
         tokenPc' = [tokenPc EXCEPT ![p] = place], entry' = [entry EXCEPT ![p] = held],
         answer' = [answer EXCEPT ![p] = Token!NoAnswer],
         shaken' = shaken \cup Token!Shared(p, held),
         doing' \in [Procs -> {"none", "login", "token", "logout"}],
         UNCHANGED <<file, origin, snap, device, family, live, rotated, replayed, stale>>
  PROVE  Token!TokenInv'
<1> USE TokenTypes
<1>1. /\ Token!NoAnswer \in Token!Answers /\ Token!NoAnswer.pair = 0
      /\ answer[p].pair = 0 /\ Len(family) \in Nat
  <2>1. Token!NoAnswer \in Token!Answers /\ Token!NoAnswer.pair = 0
    BY DEF Token!NoAnswer, Token!Said, Token!Answers
  <2>2. answer[p].pair = 0
    BY DEF Token!TokenInv, Token!PlacesOK, Token!PlaceOK, Token!Waiting
  <2> QED
    BY <2>1, <2>2 DEF Token!TokenInv, Token!Issued
<1>2. \A q \in Procs :
        /\ tokenPc'[q] = IF q = p THEN place ELSE tokenPc[q]
        /\ entry'[q] = IF q = p THEN held ELSE entry[q]
        /\ answer'[q].pair = IF q = p THEN 0 ELSE answer[q].pair
  BY <1>1
<1>3. held \in 0 .. Len(family) /\ held \in 0 .. MaxPairs
  BY DEF Token!TokenInv, Token!Issued
<1>4. shaken \subseteq shaken' /\ shaken' \subseteq Token!Pairs
  <2>1. held # 0 => family[held] \in Token!Pairs
    BY <1>1, <1>3 DEF Token!TokenInv, Token!Issued, Token!Pairs
  <2> QED
    BY <2>1 DEF Token!Shared, Token!FamilyOf
<1>5. ASSUME held # 0, family[held] \notin shaken'
      PROVE  \A q \in Procs : q # p => ~Token!SameLogin(held, entry[q])
  <2> SUFFICES ASSUME NEW q \in Procs, q # p, entry[q] # 0, family[entry[q]] = family[held]
               PROVE  FALSE
    BY DEF Token!SameLogin
  <2>1. tokenPc[q] # "off" /\ entry[q] \in Token!Descendants(family[held])
    <3>1. tokenPc[q] # "off"
      BY DEF Token!TokenInv, Token!PlacesOK, Token!PlaceOK
    <3>2. entry[q] \in Token!Pairs
      BY <1>1 DEF Token!TokenInv, Token!Issued, Token!Pairs
    <3> QED
      BY <3>1, <3>2 DEF Token!Descendants
  <2> QED
    BY <1>5, <2>1 DEF Token!Shared, Token!FamilyOf
<1>6. ASSUME held # 0, family[held] \notin shaken'
      PROVE  file[origin[p]] = held /\ held \notin rotated
  <2>1. CASE entry[p] # 0
    <3>1. tokenPc[p] = "ready"
      BY <2>1 DEF Token!TokenInv, Token!PlacesOK, Token!PlaceOK
    <3> QED
      BY <1>4, <1>6, <2>1, <3>1
         DEF Token!TokenInv, Token!HeldCached, Token!HeldUnspent, Token!Sound
  <2>2. CASE entry[p] = 0
    <3>1. file[origin[p]] = held /\ origin[p] \in Origins
      BY <2>2
    <3>2. \A q \in Procs : ~Token!SameLogin(held, entry[q])
      BY <1>5, <1>6, <2>2 DEF Token!SameLogin
    <3>3. ASSUME held \in rotated
          PROVE  FALSE
      <4>1. Token!Sound(file[origin[p]]) /\ file[origin[p]] \in rotated
        BY <1>4, <1>6, <3>1, <3>3 DEF Token!Sound
      <4>2. \E q \in Procs : Token!SameLogin(file[origin[p]], entry[q])
        BY <3>1, <4>1 DEF Token!TokenInv, Token!FileUnspent
      <4> QED
        BY <3>1, <3>2, <4>2
    <3> QED
      BY <3>1, <3>3
  <2> QED
    BY <2>1, <2>2
<1>7. ASSUME held # 0, family[held] \notin shaken', NEW t \in live, Token!SameLogin(t, held)
      PROVE  t = held
  <2>1. CASE entry[p] # 0
    <3>1. Token!Sound(entry[p]) /\ Token!SameLogin(t, entry[p]) /\ t # 0
      BY <1>4, <1>7, <2>1 DEF Token!Sound, Token!SameLogin
    <3>2. t \in {entry[p], answer[p].pair}
      BY <3>1, <1>7 DEF Token!TokenInv, Token!HeldNewest
    <3> QED
      BY <1>1, <2>1, <3>1, <3>2
  <2>2. CASE entry[p] = 0
    <3>1. family[t] \notin shaken /\ t # 0
      BY <1>4, <1>7 DEF Token!SameLogin
    <3>2. CASE \E o \in Origins : file[o] = t
      <4>1. PICK o \in Origins : file[o] = t
        BY <3>2
      <4>2. Token!SameLogin(file[o], file[origin[p]]) /\ origin[p] \in Origins
        BY <1>7, <2>2, <4>1
      <4> QED
        BY <2>2, <4>1, <4>2, OneServerEach
    <3>3. CASE \E q \in Procs : tokenPc[q] # "off" /\ entry[q] = t
      BY <1>5, <1>7, <2>2, <3>1, <3>3 DEF Token!SameLogin
    <3>4. ASSUME NEW q \in Procs, answer[q].pair = t
          PROVE  FALSE
      <4>1. q # p
        BY <1>1, <3>1, <3>4
      <4>2. tokenPc[q] \in {"refresh", "persist"} => Token!SameLogin(held, entry[q])
        BY <1>7, <3>4 DEF Token!TokenInv, Token!PlacesOK, Token!PlaceOK, Token!SameLogin
      <4>3. tokenPc[q] \notin {"exchange", "poll"}
        BY <1>7, <2>2, <3>4 DEF Token!TokenInv, Token!FreshLogin
      <4>4. tokenPc[q] # "register"
        BY <3>1, <3>4 DEF Token!TokenInv, Token!PlacesOK, Token!PlaceOK, Token!Waiting
      <4> QED
        BY <1>5, <1>7, <3>1, <3>4, <4>1, <4>2, <4>3, <4>4
           DEF Token!TokenInv, Token!PlacesOK, Token!PlaceOK, Token!Waiting
    <3> QED
      BY <3>1, <3>2, <3>3, <3>4 DEF Token!TokenInv, Token!LiveIsReachable
  <2> QED
    BY <2>1, <2>2
<1>8. Token!TypeOK'
  <2>1. Token!Pairs' = Token!Pairs
    BY DEF Token!Pairs
  <2> QED
    BY <1>1, <1>3, <1>4, <2>1 DEF Token!TypeOK, Places
<1>9. Token!ReplayOnlyAfterLoss'
  BY <1>4 DEF Token!ReplayOnlyAfterLoss
<1>10. Token!Issued'
  BY <1>1, <1>2, <1>3 DEF Token!TokenInv, Token!Issued, Token!Pairs
<1>11. Token!PlacesOK'
  BY <1>1, <1>2, <1>4
     DEF Token!TokenInv, Token!PlacesOK, Token!PlaceOK, Token!SameLogin, Token!Waiting
<1>12. Token!Placed'
  <2>1. PICK home \in [1 .. MaxPairs -> Origins] : Token!PlacedBy(home)
    BY DEF Token!TokenInv, Token!Placed
  <2>2. held # 0 => home[family[held]] = origin[p]
    BY <2>1 DEF Token!PlacedBy
  <2>3. Token!PlacedBy(home)'
    <3>1. \A o \in Origins : file'[o] # 0 => home[family'[file'[o]]] = o
      BY <2>1 DEF Token!PlacedBy
    <3>2. \A q \in Procs : entry'[q] # 0 => home[family'[entry'[q]]] = origin'[q]
      <4> SUFFICES ASSUME NEW q \in Procs, entry'[q] # 0
                   PROVE  home[family[entry'[q]]] = origin[q]
        OBVIOUS
      <4>1. CASE q = p
        BY <1>2, <2>2, <4>1
      <4>2. CASE q # p
        BY <1>2, <2>1, <4>2 DEF Token!PlacedBy
      <4> QED
        BY <4>1, <4>2
    <3>3. \A q \in Procs : answer'[q].pair # 0 => home[family'[answer'[q].pair]] = origin'[q]
      BY <1>2, <2>1 DEF Token!PlacedBy
    <3>4. \A q \in Procs, o \in Origins : snap'[q][o] # 0 => home[family'[snap'[q][o]]] = o
      BY <2>1 DEF Token!PlacedBy
    <3> QED
      BY <3>1, <3>2, <3>3, <3>4 DEF Token!PlacedBy
  <2> QED
    BY <2>3 DEF Token!Placed
<1>13. Token!FreshLogin'
  BY <1>2 DEF Token!TokenInv, Token!FreshLogin, Token!SameLogin
<1>14. Token!HeldAlone'
  BY <1>2, <1>4, <1>5 DEF Token!TokenInv, Token!HeldAlone, Token!SameLogin, Token!Sound
<1>15. Token!HeldCached'
  BY <1>2, <1>4, <1>6 DEF Token!TokenInv, Token!HeldCached, Token!Sound
<1>16. Token!HeldNewest'
  BY <1>2, <1>4, <1>7 DEF Token!TokenInv, Token!HeldNewest, Token!SameLogin, Token!Sound
<1>17. Token!HeldUnspent'
  BY <1>2, <1>4, <1>6 DEF Token!TokenInv, Token!HeldUnspent, Token!Sound
<1>18. Token!SnapFollowed'
  BY <1>4 DEF Token!TokenInv, Token!SnapFollowed, Token!SameLogin, Token!Sound
<1>19. Token!LiveIsReachable'
  <2> SUFFICES ASSUME NEW t \in live, family[t] \notin shaken', \A o \in Origins : file[o] # t
               PROVE  \E q \in Procs : tokenPc'[q] # "off" /\ (entry'[q] = t \/ answer'[q].pair = t)
    BY DEF Token!LiveIsReachable
  <2>1. PICK q \in Procs : tokenPc[q] # "off" /\ (entry[q] = t \/ answer[q].pair = t)
    BY <1>4 DEF Token!TokenInv, Token!LiveIsReachable
  <2>2. t # 0
    BY DEF Token!Pairs
  <2> QED
    BY <1>1, <1>2, <2>1, <2>2
<1>20. Token!FileUnspent'
  BY SMTT(20), <1>2, <1>4 DEF Token!TokenInv, Token!FileUnspent, Token!SameLogin, Token!Sound
<1> QED
  BY <1>8, <1>9, <1>10, <1>11, <1>12, <1>13, <1>14, <1>15, <1>16, <1>17, <1>18, <1>19, <1>20
     DEF Token!TokenInv

\* A pair has arrived: it is held, and the cache is read to be rewritten.
LEMMA ReceivePairInv ==
  ASSUME Token!TokenInv, NEW p \in Procs, Token!ReceivePair(p)
  PROVE  Token!TokenInv'
<1> USE TokenTypes
<1>1. PICK n : n = answer[p].pair
  OBVIOUS
<1>2. /\ tokenPc[p] \in Token!Waiting /\ n # 0 /\ n \in 0 .. MaxPairs
      /\ tokenPc' = [tokenPc EXCEPT ![p] = "persist"] /\ entry' = [entry EXCEPT ![p] = n]
      /\ snap' = [snap EXCEPT ![p] = file]
      /\ UNCHANGED <<file, origin, answer, doing, device, family, live, rotated, replayed,
                     stale, shaken>>
  <2>1. answer[p] \in Token!Answers
    OBVIOUS
  <2> QED
    BY <1>1, <2>1, AnswerTyped DEF Token!ReceivePair, Token!Hold, Token!At, Token!Server
<1>3. \A q \in Procs :
        /\ tokenPc'[q] = IF q = p THEN "persist" ELSE tokenPc[q]
        /\ entry'[q] = IF q = p THEN n ELSE entry[q]
        /\ snap'[q] = IF q = p THEN file ELSE snap[q]
  BY <1>2
<1>5. tokenPc[p] = "refresh" =>
        Token!SameLogin(n, entry[p]) /\ entry[p] \notin live /\ family[n] = family[entry[p]]
  BY <1>1, <1>2 DEF Token!TokenInv, Token!PlacesOK, Token!PlaceOK, Token!SameLogin
<1>6. tokenPc[p] # "refresh" => tokenPc[p] \in {"exchange", "poll"} /\ entry[p] = 0
  BY <1>2 DEF Token!TokenInv, Token!PlacesOK, Token!PlaceOK, Token!Waiting
<1>7. ASSUME family[n] \notin shaken, NEW q \in Procs, q # p
      PROVE  ~Token!SameLogin(n, entry[q])
  <2>1. CASE tokenPc[p] = "refresh"
    BY <1>2, <1>5, <1>7, <2>1
       DEF Token!TokenInv, Token!HeldAlone, Token!SameLogin, Token!Sound
  <2>2. CASE tokenPc[p] # "refresh"
    BY <1>1, <1>6, <2>2 DEF Token!TokenInv, Token!FreshLogin
  <2> QED
    BY <2>1, <2>2
<1>8. ASSUME family[n] \notin shaken, NEW t \in live, Token!SameLogin(t, n)
      PROVE  t = n
  <2>1. CASE tokenPc[p] = "refresh"
    <3>1. Token!Sound(entry[p]) /\ Token!SameLogin(t, entry[p])
      BY <1>5, <1>8, <2>1 DEF Token!Sound, Token!SameLogin
    <3>2. t \in {entry[p], answer[p].pair}
      BY <1>8, <3>1 DEF Token!TokenInv, Token!HeldNewest
    <3> QED
      BY <1>1, <1>5, <1>8, <2>1, <3>2
  <2>2. CASE tokenPc[p] # "refresh"
    <3>1. t # 0 /\ family[t] \notin shaken /\ Token!SameLogin(n, t)
      BY <1>8 DEF Token!SameLogin
    <3>2. \A o \in Origins : file[o] # t
      BY <1>1, <1>6, <2>2, <3>1 DEF Token!TokenInv, Token!FreshLogin
    <3>3. \A q \in Procs : entry[q] # t /\ (q # p => answer[q].pair # t)
      BY <1>1, <1>6, <2>2, <3>1 DEF Token!TokenInv, Token!FreshLogin
    <3> QED
      BY <1>1, <1>8, <3>1, <3>2, <3>3 DEF Token!TokenInv, Token!LiveIsReachable
  <2> QED
    BY <2>1, <2>2
<1>9. Token!TypeOK'
  BY <1>2 DEF Token!TypeOK, Places, Token!Pairs
<1>10. Token!ReplayOnlyAfterLoss'
  BY <1>2 DEF Token!TokenInv, Token!ReplayOnlyAfterLoss
<1>11. Token!Issued'
  BY <1>1, <1>2, <1>3 DEF Token!TokenInv, Token!Issued, Token!Pairs
<1>12. Token!PlacesOK'
  BY <1>1, <1>2, <1>3
     DEF Token!TokenInv, Token!PlacesOK, Token!PlaceOK, Token!SameLogin, Token!Waiting
<1>13. Token!Placed'
  <2>1. PICK home \in [1 .. MaxPairs -> Origins] : Token!PlacedBy(home)
    BY DEF Token!TokenInv, Token!Placed
  <2>2. home[family[n]] = origin[p]
    BY <1>1, <1>2, <2>1 DEF Token!PlacedBy
  <2>3. ASSUME NEW q \in Procs
        PROVE  /\ entry'[q] # 0 => home[family[entry'[q]]] = origin[q]
               /\ answer[q].pair # 0 => home[family[answer[q].pair]] = origin[q]
               /\ \A o \in Origins : snap'[q][o] # 0 => home[family[snap'[q][o]]] = o
    <3>1. entry'[q] # 0 => home[family[entry'[q]]] = origin[q]
      BY <1>3, <2>1, <2>2 DEF Token!PlacedBy
    <3>2. answer[q].pair # 0 => home[family[answer[q].pair]] = origin[q]
      BY <2>1 DEF Token!PlacedBy
    <3>3. \A o \in Origins : snap'[q][o] # 0 => home[family[snap'[q][o]]] = o
      <4>1. \A o \in Origins : file[o] # 0 => home[family[file[o]]] = o
        BY <2>1 DEF Token!PlacedBy
      <4>2. \A o \in Origins : snap[q][o] # 0 => home[family[snap[q][o]]] = o
        BY <2>1 DEF Token!PlacedBy
      <4> QED
        BY <1>3, <4>1, <4>2
    <3> QED
      BY <3>1, <3>2, <3>3
  <2>4. Token!PlacedBy(home)'
    BY <1>2, <2>1, <2>3 DEF Token!PlacedBy
  <2> QED
    BY <2>4 DEF Token!Placed
<1>14. Token!FreshLogin'
  <2> SUFFICES ASSUME NEW q \in Procs, tokenPc'[q] \in {"exchange", "poll"}
               PROVE  LET t == answer[q].pair IN
                      /\ \A o \in Origins : ~Token!SameLogin(t, file[o])
                      /\ \A x \in Procs :
                           /\ ~Token!SameLogin(t, entry'[x])
                           /\ x # q => ~Token!SameLogin(t, answer[x].pair)
                           /\ \A o \in Origins : ~Token!SameLogin(t, snap'[x][o])
    BY <1>2 DEF Token!FreshLogin, Token!SameLogin
  <2>1. q # p /\ tokenPc[q] \in {"exchange", "poll"}
    BY <1>3
  <2> QED
    BY <1>1, <1>3, <2>1 DEF Token!TokenInv, Token!FreshLogin
<1>15. Token!HeldAlone'
  BY <1>2, <1>3, <1>7 DEF Token!TokenInv, Token!HeldAlone, Token!SameLogin, Token!Sound
<1>16. Token!HeldCached'
  BY <1>2, <1>3 DEF Token!TokenInv, Token!HeldCached, Token!Sound
<1>17. Token!HeldNewest'
  BY <1>2, <1>3, <1>8 DEF Token!TokenInv, Token!HeldNewest, Token!SameLogin, Token!Sound
<1>18. Token!HeldUnspent'
  BY <1>1, <1>2, <1>3 DEF Token!TokenInv, Token!HeldUnspent, Token!Sound
<1>19. Token!SnapFollowed'
  BY <1>2, <1>3 DEF Token!TokenInv, Token!SnapFollowed, Token!SameLogin, Token!Sound
<1>20. Token!LiveIsReachable'
  <2> SUFFICES ASSUME NEW t \in live, family[t] \notin shaken, \A o \in Origins : file[o] # t
               PROVE  \E q \in Procs : tokenPc'[q] # "off" /\ (entry'[q] = t \/ answer[q].pair = t)
    BY <1>2 DEF Token!LiveIsReachable
  <2>1. PICK q \in Procs : tokenPc[q] # "off" /\ (entry[q] = t \/ answer[q].pair = t)
    BY DEF Token!TokenInv, Token!LiveIsReachable
  <2>2. t # 0
    BY DEF Token!Pairs
  <2>3. q = p => entry[q] # t
    BY <1>5, <1>6, <2>2
  <2> QED
    BY <1>3, <2>1, <2>3
<1>21. Token!FileUnspent'
  <2> SUFFICES ASSUME NEW o \in Origins, Token!Sound(file[o]), file[o] \in rotated
               PROVE  \E q \in Procs : Token!SameLogin(file[o], entry'[q])
    BY <1>2 DEF Token!FileUnspent, Token!SameLogin, Token!Sound
  <2>1. PICK q \in Procs : Token!SameLogin(file[o], entry[q])
    BY DEF Token!TokenInv, Token!FileUnspent
  <2>2. Token!SameLogin(file[o], entry'[q])
    BY <1>2, <1>3, <1>5, <1>6, <2>1 DEF Token!SameLogin
  <2> QED
    BY <2>2
<1> QED
  BY <1>9, <1>10, <1>11, <1>12, <1>13, <1>14, <1>15, <1>16, <1>17, <1>18, <1>19, <1>20, <1>21
     DEF Token!TokenInv

\* The server issues a pair: of the login of a pair it takes, which the
\* process holds alone if nothing has disturbed the login, or of a new one.
LEMMA IssueInv ==
  ASSUME Token!TokenInv, NEW p \in Procs, NEW of, NEW spent \in SUBSET Token!Pairs,
         Token!Issue(p, of),
         answer[p].pair = 0,
         \/ /\ tokenPc[p] = "refresh" /\ spent = {entry[p]} /\ spent \subseteq live
            /\ of = family[entry[p]]
         \/ tokenPc[p] \in {"exchange", "poll"} /\ spent = {} /\ of = Token!NewLogin,
         live' = (live \ spent) \cup {Len(family) + 1}, rotated' = rotated \cup spent,
         UNCHANGED <<file, origin, entry, tokenPc, doing, snap, device, stale, shaken, replayed>>
  PROVE  Token!TokenInv'
<1> USE TokenTypes
<1>1. PICK n : n = Len(family) + 1
  OBVIOUS
<1>2. /\ family \in Seq(Nat) /\ Len(family) \in Nat /\ n \in 1 .. MaxPairs /\ n \notin Token!Pairs
      /\ \A t \in Token!Pairs : family[t] \in 1 .. t
      /\ MaxPairs \in Nat
  BY <1>1, TokenAssumption DEF Token!TokenInv, Token!Issued, Token!Issue, Token!Pairs
<1>3. of \in 1 .. n /\ (of # n => tokenPc[p] = "refresh" /\ entry[p] \in Token!Pairs)
  <2>1. CASE tokenPc[p] = "refresh"
    <3>1. entry[p] \in Token!Pairs /\ of = family[entry[p]]
      BY <2>1
    <3>2. of \in 1 .. entry[p]
      BY <1>2, <3>1
    <3> QED
      BY <1>1, <1>2, <2>1, <3>1, <3>2 DEF Token!Pairs
  <2>2. CASE tokenPc[p] # "refresh"
    BY <1>1, <1>2, <2>2 DEF Token!NewLogin
  <2> QED
    BY <2>1, <2>2
<1>4. /\ family' = Append(family, of) /\ family' \in Seq(Nat) /\ Len(family') = n
      /\ \A t \in Token!Pairs : family'[t] = family[t]
      /\ family'[n] = of /\ Token!Pairs' = Token!Pairs \cup {n}
  <2>1. family' = Append(family, of)
    BY DEF Token!Issue
  <2>2. family' \in Seq(Nat) /\ Len(family') = n /\ family'[n] = of
    BY <1>1, <1>2, <1>3, <2>1
  <2>3. \A t \in Token!Pairs : family'[t] = family[t]
    BY <1>1, <1>2, <2>1 DEF Token!Pairs
  <2>4. Token!Pairs' = Token!Pairs \cup {n}
    BY <1>1, <1>2, <2>2 DEF Token!Pairs
  <2> QED
    BY <2>1, <2>2, <2>3, <2>4
<1>5. PICK a : a = Token!Said("pair", n)
  OBVIOUS
<1>6. a \in Token!Answers /\ a.pair = n /\ answer' = [answer EXCEPT ![p] = a]
  BY <1>1, <1>2, <1>5 DEF Token!Said, Token!Answers, Token!Issue
<1>7. \A q \in Procs : answer'[q].pair = IF q = p THEN n ELSE answer[q].pair
  BY <1>6
<1>8. n # 0 /\ n \notin Token!Pairs \cup {0}
  BY <1>2
<1>9. /\ 0 \notin Token!Pairs
      /\ \A t \in Token!Pairs : family[t] \in 1 .. MaxPairs /\ family'[t] = family[t]
      /\ \A o \in Origins : file[o] \in Token!Pairs \cup {0}
      /\ \A q \in Procs : /\ entry[q] \in Token!Pairs \cup {0} /\ answer[q].pair \in Token!Pairs \cup {0}
                         /\ \A o \in Origins : snap[q][o] \in Token!Pairs \cup {0}
  BY <1>4, PairsHeld
<1>10. \A t \in Token!Pairs : family[t] = of => tokenPc[p] = "refresh" /\ of = family[entry[p]]
  BY <1>1, <1>2 DEF Token!NewLogin, Token!Pairs
<1>11. \A o \in Origins, q \in Procs : origin[q] \in Origins
  OBVIOUS
<1>12. Token!TypeOK'
  <2>1. live' \subseteq Token!Pairs' /\ rotated' \subseteq Token!Pairs' /\ stale' \subseteq Token!Pairs'
    BY <1>1, <1>4
  <2>2. shaken' \subseteq Token!Pairs' /\ replayed' \subseteq shaken'
    BY <1>4
  <2>3. answer' \in [Procs -> Token!Answers]
    BY <1>6
  <2> QED
    BY <2>1, <2>2, <2>3 DEF Token!TypeOK, Places
<1>13. Token!ReplayOnlyAfterLoss'
  BY DEF Token!TokenInv, Token!ReplayOnlyAfterLoss
<1>14. Token!Issued'
  <2>1. \A t \in Token!Pairs' : family'[t] \in 1 .. t
    BY <1>2, <1>3, <1>4
  <2>2. \A o \in Origins : file[o] \in 0 .. n
    BY <1>1, <1>2 DEF Token!TokenInv, Token!Issued
  <2>3. Token!Pairs \cup {0} \subseteq 0 .. n
    BY <1>1, <1>2 DEF Token!Pairs
  <2>4. ASSUME NEW q \in Procs
        PROVE  /\ entry[q] \in 0 .. n /\ answer'[q].pair \in 0 .. n
               /\ \A o \in Origins : snap[q][o] \in 0 .. n
    <3>1. entry[q] \in 0 .. n /\ \A o \in Origins : snap[q][o] \in 0 .. n
      BY <1>9, <2>3
    <3>2. answer[q].pair \in 0 .. n /\ n \in 0 .. n
      BY <1>2, <1>9, <2>3
    <3> QED
      BY <1>7, <3>1, <3>2
  <2>5. family' \in Seq(Nat) /\ Len(family') <= MaxPairs /\ Len(family') = n
    BY <1>2, <1>4
  <2> QED
    BY <2>1, <2>2, <2>4, <2>5 DEF Token!Issued
<1>15. \A t, u \in Token!Pairs \cup {0} : Token!SameLogin(t, u)' <=> Token!SameLogin(t, u)
  BY <1>4 DEF Token!SameLogin
<1>16. \A t \in Token!Pairs \cup {0} : Token!SameLogin(n, t)' <=> t # 0 /\ family[t] = of
  BY <1>4, <1>8 DEF Token!SameLogin
<1>17. \A t \in Token!Pairs \cup {0} : Token!SameLogin(t, n)' <=> t # 0 /\ family[t] = of
  BY <1>4, <1>8 DEF Token!SameLogin
<1>18. \A t \in Token!Pairs \cup {0} : Token!Sound(t)' <=> Token!Sound(t)
  BY <1>4 DEF Token!Sound
<1>20. Token!PlacesOK'
  <2> SUFFICES ASSUME NEW q \in Procs PROVE Token!PlaceOK(q)'
    BY DEF Token!PlacesOK
  <2>1. Token!PlaceOK(q)
    BY DEF Token!TokenInv, Token!PlacesOK
  <2>2. CASE q = p
    <3>1. tokenPc[p] = "refresh" => Token!SameLogin(n, entry[p])' /\ entry[p] \notin live'
      BY <1>1, <1>2, <1>8, <1>9, <1>16, <1>9
    <3> QED
      BY <1>7, <2>1, <2>2, <3>1 DEF Token!PlaceOK, Token!Waiting
  <2>3. CASE q # p
    <3>1. entry[q] \notin live => entry[q] \notin live'
      BY <1>1, <1>2, <1>8, <1>9
    <3>2. answer'[q].pair = answer[q].pair
      BY <1>7, <2>3
    <3>3. Token!SameLogin(answer[q].pair, entry[q])' <=> Token!SameLogin(answer[q].pair, entry[q])
      BY <1>4, <1>8, <1>9, <2>3, <1>6 DEF Token!SameLogin
    <3>4. answer[q].pair # 0 => family'[answer[q].pair] = family[answer[q].pair]
      BY <1>4, <1>8, <1>9
    <3>5. answer'[q] = answer[q]
      BY <1>6, <2>3
    <3> QED
      BY <2>1, <2>3, <3>1, <3>3, <3>4, <3>5 DEF Token!PlaceOK, Token!Waiting
  <2> QED
    BY <2>2, <2>3
<1>21. Token!Placed'
  <2>1. PICK home \in [1 .. MaxPairs -> Origins] : Token!PlacedBy(home)
    BY DEF Token!TokenInv, Token!Placed
  <2>2. PICK next : next = [home EXCEPT ![of] = origin[p]]
    OBVIOUS
  <2>3. of \in 1 .. MaxPairs
    BY <1>2, <1>3
  <2>4. next \in [1 .. MaxPairs -> Origins] /\ next[of] = origin[p]
    BY <2>2, <2>3
  <2>5. \A t \in Token!Pairs : next[family[t]] = home[family[t]]
    <3>2. \A t \in Token!Pairs : family[t] = of => home[of] = origin[p]
      BY <1>3, <1>8, <1>9, <1>10, <2>1 DEF Token!PlacedBy
    <3> QED
      BY <1>9, <2>2, <2>3, <3>2
  <2>6. \A o \in Origins : file[o] # 0 => next[family'[file[o]]] = o
    BY <1>4, <1>8, <1>9, <2>1, <2>5 DEF Token!PlacedBy
  <2>7. ASSUME NEW q \in Procs
        PROVE  /\ entry[q] # 0 => next[family'[entry[q]]] = origin[q]
               /\ answer'[q].pair # 0 => next[family'[answer'[q].pair]] = origin[q]
               /\ \A o \in Origins : snap[q][o] # 0 => next[family'[snap[q][o]]] = o
    <3>1. entry[q] # 0 => next[family'[entry[q]]] = origin[q]
      BY <1>4, <1>8, <1>9, <2>1, <2>5 DEF Token!PlacedBy
    <3>2. answer[q].pair # 0 => next[family'[answer[q].pair]] = origin[q]
      BY <1>4, <1>8, <1>9, <2>1, <2>5 DEF Token!PlacedBy
    <3>3. \A o \in Origins : snap[q][o] # 0 => next[family'[snap[q][o]]] = o
      <4> SUFFICES ASSUME NEW o \in Origins, snap[q][o] # 0
                   PROVE  next[family'[snap[q][o]]] = o
        OBVIOUS
      <4>1. home[family[snap[q][o]]] = o
        BY <2>1 DEF Token!PlacedBy
      <4>2. snap[q][o] \in Token!Pairs
        BY <1>9
      <4> QED
        BY <1>4, <2>5, <4>1, <4>2
    <3> QED
      BY <1>4, <1>7, <2>4, <3>1, <3>2, <3>3
  <2>8. Token!PlacedBy(next)'
    BY <2>6, <2>7 DEF Token!PlacedBy
  <2> QED
    BY <2>4, <2>8 DEF Token!Placed
<1>22. Token!FreshLogin'
  <2> SUFFICES ASSUME NEW q \in Procs, tokenPc[q] \in {"exchange", "poll"}
               PROVE  /\ \A o \in Origins : ~Token!SameLogin(answer[q].pair, file[o])'
                      /\ \A x \in Procs :
                           /\ ~Token!SameLogin(answer[q].pair, entry[x])'
                           /\ x # q => ~Token!SameLogin(answer[q].pair, answer[x].pair)'
                           /\ \A o \in Origins : ~Token!SameLogin(answer[q].pair, snap[x][o])'
    BY DEF Token!FreshLogin
  <2>1. CASE q = p
    <3>1. \A t \in Token!Pairs \cup {0} : ~Token!SameLogin(n, t)'
      BY <1>8, <1>10, <1>16, <2>1
    <3>2. answer'[q].pair = n /\ \A x \in Procs : x # q => answer'[x].pair = answer[x].pair
      BY <1>7, <2>1
    <3>3. \A t \in Token!Pairs \cup {0} : ~Token!SameLogin(answer[q].pair, t)'
      BY <3>1, <3>2 DEF Token!SameLogin
    <3>4. \A x \in Procs : x # q => ~Token!SameLogin(answer[q].pair, answer[x].pair)'
      BY <1>9, <3>2, <3>3 DEF Token!SameLogin
    <3> QED
      BY <1>9, <3>3, <3>4
  <2>2. CASE q # p
    <3>1. PICK t : t = answer[q].pair
      OBVIOUS
    <3>2. /\ t \in Token!Pairs \cup {0}
          /\ \A o \in Origins : ~Token!SameLogin(t, file[o])
          /\ \A x \in Procs :
               /\ ~Token!SameLogin(t, entry[x])
               /\ x # q => ~Token!SameLogin(t, answer[x].pair)
               /\ \A o \in Origins : ~Token!SameLogin(t, snap[x][o])
      BY <1>9, <3>1 DEF Token!TokenInv, Token!FreshLogin
    <3>3. t # 0 => family[t] # of
      BY <1>3, <1>8, <1>9, <1>10, <3>2 DEF Token!SameLogin
    <3>4. \A u \in Token!Pairs \cup {0} : ~Token!SameLogin(t, u) => ~Token!SameLogin(answer[q].pair, u)'
      BY <1>7, <1>15, <2>2, <3>1, <3>2 DEF Token!SameLogin
    <3>5. ASSUME NEW x \in Procs, x # q
          PROVE  ~Token!SameLogin(answer[q].pair, answer[x].pair)'
      <4>1. answer'[q].pair = t
        BY <1>7, <2>2, <3>1
      <4>2. CASE x = p
        <5>1. ~Token!SameLogin(t, n)'
          BY <1>17, <3>2, <3>3
        <5>2. answer'[x].pair = n
          BY <1>7, <4>2
        <5> QED
          BY <4>1, <5>1, <5>2 DEF Token!SameLogin
      <4>3. CASE x # p
        <5>1. answer'[x].pair = answer[x].pair /\ ~Token!SameLogin(t, answer[x].pair)
          BY <1>7, <3>2, <3>5, <4>3
        <5> QED
          BY <1>9, <3>4, <5>1 DEF Token!SameLogin
      <4> QED
        BY <4>2, <4>3
    <3> QED
      BY <1>9, <3>2, <3>4, <3>5
  <2> QED
    BY <2>1, <2>2
<1>23. Token!HeldAlone'
  BY <1>15, <1>18, <1>9 DEF Token!TokenInv, Token!HeldAlone
<1>24. Token!HeldCached'
  BY <1>18, <1>9 DEF Token!TokenInv, Token!HeldCached
<1>25. Token!HeldNewest'
  <2> SUFFICES ASSUME NEW q \in Procs, Token!Sound(entry[q]), NEW t \in live',
                      Token!SameLogin(t, entry[q])'
               PROVE  t \in {entry[q], answer'[q].pair}
    BY <1>18, <1>9 DEF Token!HeldNewest, Token!SameLogin
  <2>1. CASE t = n
    <3>1. tokenPc[p] = "refresh" /\ family[entry[q]] = family[entry[p]] /\ entry[p] # 0
      BY <1>3, <1>4, <1>8, <1>9, <1>10, <2>1 DEF Token!SameLogin, Token!Sound
    <3>2. q = p
      BY <3>1 DEF Token!TokenInv, Token!HeldAlone, Token!SameLogin, Token!Sound
    <3> QED
      BY <1>7, <2>1, <3>2
  <2>2. CASE t # n
    <3>1. t \in live /\ t \notin spent
      BY <1>1, <2>2
    <3>2. Token!SameLogin(t, entry[q])
      BY <1>15, <1>9, <3>1
    <3>3. t \in {entry[q], answer[q].pair} /\ t # 0
      BY <3>1, <3>2 DEF Token!TokenInv, Token!HeldNewest, Token!SameLogin
    <3>4. q = p => t = entry[p]
      BY <3>3
    <3> QED
      BY <1>7, <3>1, <3>3, <3>4
  <2> QED
    BY <2>1, <2>2
<1>26. ASSUME NEW q \in Procs, q # p, tokenPc[p] = "refresh", family[entry[p]] \notin shaken
       PROVE  entry[q] # entry[p] /\ answer[q].pair # entry[p]
  <2>1. Token!Sound(entry[p]) /\ entry[p] # 0 /\ Token!SameLogin(entry[p], entry[p])
    BY <1>26 DEF Token!TokenInv, Token!PlacesOK, Token!PlaceOK, Token!Sound, Token!SameLogin
  <2>2. ~Token!SameLogin(entry[q], entry[p])
    BY <1>26, <2>1 DEF Token!TokenInv, Token!HeldAlone, Token!SameLogin
  <2>3. ASSUME answer[q].pair = entry[p]
        PROVE  FALSE
    <3>1. tokenPc[q] \notin {"refresh", "persist"}
      BY <2>1, <2>2, <2>3 DEF Token!TokenInv, Token!PlacesOK, Token!PlaceOK, Token!SameLogin
    <3>2. tokenPc[q] \notin {"exchange", "poll"}
      BY <2>1, <2>3 DEF Token!TokenInv, Token!FreshLogin
    <3>3. tokenPc[q] # "register"
      BY <1>26, <2>1, <2>3 DEF Token!TokenInv, Token!PlacesOK, Token!PlaceOK, Token!Waiting
    <3> QED
      BY <2>1, <2>3, <3>1, <3>2, <3>3
         DEF Token!TokenInv, Token!PlacesOK, Token!PlaceOK, Token!Waiting
  <2> QED
    BY <2>1, <2>2, <2>3
<1>27. Token!HeldUnspent'
  <2> SUFFICES ASSUME NEW q \in Procs
               PROVE  /\ Token!Sound(entry[q]) /\ entry[q] \in rotated' =>
                           tokenPc[q] = "refresh" /\ answer'[q].pair # 0
                      /\ Token!Sound(answer[q].pair)' => answer'[q].pair \notin rotated'
    BY <1>18, <1>9 DEF Token!HeldUnspent, Token!Sound
  <2>1. /\ Token!Sound(entry[q]) /\ entry[q] \in rotated => tokenPc[q] = "refresh" /\ answer[q].pair # 0
        /\ Token!Sound(answer[q].pair) => answer[q].pair \notin rotated
    BY DEF Token!TokenInv, Token!HeldUnspent
  <2>2. CASE q = p
    BY <1>2, <1>7, <1>9, <2>1, <2>2
       DEF Token!TokenInv, Token!PlacesOK, Token!PlaceOK, Token!Sound
  <2>3. CASE q # p
    <3>1. answer'[q].pair = answer[q].pair
      BY <1>7, <2>3
    <3>2. Token!Sound(answer[q].pair)' => Token!Sound(answer[q].pair)
      BY <1>4, <1>8, <1>9, <3>1 DEF Token!Sound
    <3>3. Token!Sound(entry[q]) => entry[q] \notin spent
      BY <1>26, <2>3 DEF Token!Sound
    <3>4. Token!Sound(answer[q].pair) => answer[q].pair \notin spent
      BY <1>26, <2>3 DEF Token!Sound
    <3> QED
      BY <2>1, <3>1, <3>2, <3>3, <3>4
  <2> QED
    BY <2>2, <2>3
<1>28. Token!FileUnspent'
  <2> SUFFICES ASSUME NEW o \in Origins, Token!Sound(file[o]), file[o] \in rotated'
               PROVE  \E q \in Procs : Token!SameLogin(file[o], entry[q])
    BY <1>15, <1>18, <1>9 DEF Token!FileUnspent
  <2>1. CASE file[o] \in rotated
    BY <2>1 DEF Token!TokenInv, Token!FileUnspent
  <2>2. CASE file[o] \in spent
    BY <2>2 DEF Token!SameLogin, Token!Sound
  <2> QED
    BY <2>1, <2>2
<1>29. Token!SnapFollowed'
  BY <1>15, <1>18, <1>9 DEF Token!TokenInv, Token!SnapFollowed
<1>30. Token!LiveIsReachable'
  <2> SUFFICES ASSUME NEW t \in live', family'[t] \notin shaken, \A o \in Origins : file[o] # t
               PROVE  \E q \in Procs : tokenPc[q] # "off" /\ (entry[q] = t \/ answer'[q].pair = t)
    BY DEF Token!LiveIsReachable
  <2>1. CASE t = n
    BY <1>7, <2>1
  <2>2. CASE t # n
    <3>1. t \in live /\ t \in Token!Pairs /\ t # 0 /\ family[t] \notin shaken
      BY <1>1, <1>4, <1>9, <2>2
    <3>2. PICK q \in Procs : tokenPc[q] # "off" /\ (entry[q] = t \/ answer[q].pair = t)
      BY <3>1 DEF Token!TokenInv, Token!LiveIsReachable
    <3> QED
      BY <1>7, <3>1, <3>2
  <2> QED
    BY <2>1, <2>2
<1> QED
  BY <1>12, <1>13, <1>14, <1>20, <1>21, <1>22, <1>23, <1>24, <1>25, <1>27, <1>28, <1>29, <1>30
     DEF Token!TokenInv

\* A process writes back the cache as it read it, with the pair it holds in
\* its own place, or none.
Rewrites(p, x, place) ==
  /\ file' = [snap[p] EXCEPT ![origin[p]] = x] /\ entry' = [entry EXCEPT ![p] = x]
  /\ shaken' = shaken \cup (Token!Overwritten \ Token!FamilyOf(x)) /\ Token!Settle(p, place)

LEMMA WriteBack ==
  ASSUME Token!TokenInv, NEW p \in Procs, tokenPc[p] \in {"persist", "erase", "forget", "unheard"},
         NEW x, tokenPc[p] = "persist" => x = entry[p], tokenPc[p] # "persist" => x = 0,
         NEW place \in {"ready", "off"},
         tokenPc[p] = "persist" => place = "ready",
         tokenPc[p] \notin {"persist", "erase"} => place = "off",
         Rewrites(p, x, place),
         UNCHANGED <<origin, family, live, rotated, replayed, stale>>
  PROVE  Token!TokenInv'
<1>1. /\ Token!NoAnswer \in Token!Answers /\ Token!NoAnswer.pair = 0
      /\ Token!Idle.snap \in [Origins -> 0 .. MaxPairs] /\ \A o \in Origins : Token!Idle.snap[o] = 0
  <2>1. Token!NoAnswer \in Token!Answers /\ Token!NoAnswer.pair = 0
    BY DEF Token!NoAnswer, Token!Said, Token!Answers
  <2>2. Token!Idle.snap = [o \in Origins |-> 0]
    BY DEF Token!Idle
  <2> QED
    BY <2>1, <2>2, TokenAssumption
<1>2. /\ tokenPc' = [tokenPc EXCEPT ![p] = place] /\ answer' = [answer EXCEPT ![p] = Token!NoAnswer]
      /\ snap' = [snap EXCEPT ![p] = Token!Idle.snap]
      /\ doing' = [doing EXCEPT ![p] = "none"]
      /\ device' = [device EXCEPT ![p] = [spent |-> 0, interval |-> 0]]
      /\ entry' = [entry EXCEPT ![p] = x]
  BY DEF Rewrites, Token!Settle, Token!At, Token!Idle
<1>3. \A q \in Procs :
        /\ tokenPc'[q] = IF q = p THEN place ELSE tokenPc[q]
        /\ entry'[q] = IF q = p THEN x ELSE entry[q]
        /\ answer'[q].pair = IF q = p THEN 0 ELSE answer[q].pair
        /\ snap'[q] = IF q = p THEN Token!Idle.snap ELSE snap[q]
  BY <1>1, <1>2, TokenTypes
<1>10. x = 0 \/ x = entry[p]
  OBVIOUS
<1>4. origin[p] \in Origins /\ \A o \in Origins : file'[o] = IF o = origin[p] THEN x ELSE snap[p][o]
  BY TokenTypes DEF Rewrites
<1>5. /\ tokenPc[p] = "persist" => x # 0 /\ answer[p].pair = x
      /\ tokenPc[p] # "persist" => answer[p].pair = 0
      /\ tokenPc[p] = "erase" => entry[p] = 0
  BY DEF Token!TokenInv, Token!PlacesOK, Token!PlaceOK, Token!Waiting
<1>6. shaken \subseteq shaken' /\ shaken' \subseteq Token!Pairs
  <2>1. Token!Overwritten \subseteq Token!Pairs
    BY PairsHeld DEF Token!Overwritten
  <2> QED
    BY <2>1, TokenTypes DEF Rewrites
<1>7. ASSUME NEW o \in Origins, file[o] # 0, family[file[o]] \notin shaken'
      PROVE  file'[o] = file[o] \/ (o = origin[p] /\ Token!SameLogin(x, file[o]) /\ file'[o] = x)
  <2>1. SUFFICES ASSUME file'[o] # file[o]
                 PROVE  o = origin[p] /\ Token!SameLogin(x, file[o]) /\ file'[o] = x
    OBVIOUS
  <2>2. family[file[o]] \in Token!Overwritten
    BY <1>7, <2>1 DEF Token!Overwritten
  <2>3. x # 0 /\ family[x] = family[file[o]]
    BY <1>7, <2>2 DEF Token!FamilyOf, Rewrites
  <2>4. Token!SameLogin(x, file[o]) /\ Token!SameLogin(file[o], entry[p])
    BY <1>7, <2>3 DEF Token!SameLogin
  <2>5. o = origin[p]
    BY <2>4, OneServerEach
  <2> QED
    BY <1>4, <2>4, <2>5
<1>8. ASSUME NEW o \in Origins, file'[o] # 0, family[file'[o]] \notin shaken'
      PROVE  file'[o] = file[o] \/ (o = origin[p] /\ file'[o] = x)
  <2> SUFFICES ASSUME o # origin[p] PROVE file'[o] = file[o]
    BY <1>4
  <2>1. file'[o] = snap[p][o] /\ Token!Sound(snap[p][o])
    BY <1>4, <1>6, <1>8 DEF Token!Sound
  <2>2. Token!SameLogin(snap[p][o], file[o])
    BY <2>1 DEF Token!TokenInv, Token!SnapFollowed
  <2> QED
    BY <1>7, <1>8, <2>1, <2>2 DEF Token!SameLogin
<1>9. ASSUME tokenPc[p] # "persist", entry[p] # 0, family[entry[p]] \notin shaken'
      PROVE  FALSE
  <2>1. file[origin[p]] = entry[p]
    BY <1>5, <1>6, <1>9 DEF Token!TokenInv, Token!HeldCached, Token!Sound
  <2> QED
    BY <1>4, <1>7, <1>9, <2>1 DEF Token!SameLogin
<1>11. Token!TypeOK'
  <2>1. file' \in [Origins -> 0 .. MaxPairs] /\ x \in 0 .. MaxPairs
    <3>1. x \in 0 .. MaxPairs
      BY <1>10, TokenAssumption, TokenTypes
    <3> QED
      BY <3>1, TokenTypes DEF Rewrites
  <2>2. entry' \in [Procs -> 0 .. MaxPairs] /\ answer' \in [Procs -> Token!Answers]
    BY <1>1, <1>2, <2>1, TokenTypes
  <2>3. /\ tokenPc' \in [Procs -> Places] /\ doing' \in [Procs -> {"none", "login", "token", "logout"}]
        /\ snap' \in [Procs -> [Origins -> 0 .. MaxPairs]]
        /\ device' \in [Procs -> [spent : Nat, interval : Nat]]
    BY <1>1, <1>2, TokenTypes DEF Places
  <2>4. /\ live' \subseteq Token!Pairs' /\ rotated' \subseteq Token!Pairs' /\ stale' \subseteq Token!Pairs'
        /\ shaken' \subseteq Token!Pairs' /\ replayed' \subseteq shaken'
        /\ origin' \in [Procs -> Origins]
    BY <1>6, TokenTypes DEF Token!Pairs
  <2> QED
    BY <2>1, <2>2, <2>3, <2>4 DEF Token!TypeOK, Places
<1>12. Token!ReplayOnlyAfterLoss'
  BY <1>6 DEF Token!TokenInv, Token!ReplayOnlyAfterLoss
<1>13. Token!Issued'
  <2>1. Token!Issued
    BY DEF Token!TokenInv
  <2>2. 0 \in 0 .. Len(family) /\ entry[p] \in 0 .. Len(family)
    <3>1. 0 \in 0 .. Len(family)
      BY PairsHeld
    <3> QED
      BY <2>1, <3>1 DEF Token!Issued
  <2>3. x \in 0 .. Len(family)
    BY <2>2
  <2>4. \A o \in Origins : file'[o] \in 0 .. Len(family)
    BY <1>4, <2>1, <2>3 DEF Token!Issued
  <2>5. \A q \in Procs : entry'[q] \in 0 .. Len(family) /\ answer'[q].pair \in 0 .. Len(family)
    BY <1>3, <2>1, <2>2, <2>3 DEF Token!Issued
  <2>6. \A q \in Procs : \A o \in Origins : snap'[q][o] \in 0 .. Len(family)
    BY <1>1, <1>3, <2>1, <2>2 DEF Token!Issued
  <2> QED
    BY <2>1, <2>4, <2>5, <2>6 DEF Token!Issued, Token!Pairs
<1>14. Token!PlacesOK'
  BY <1>3, <1>6
     DEF Token!TokenInv, Token!PlacesOK, Token!PlaceOK, Token!SameLogin, Token!Waiting
<1>15. Token!Placed'
  <2>1. PICK home \in [1 .. MaxPairs -> Origins] : Token!PlacedBy(home)
    BY DEF Token!TokenInv, Token!Placed
  <2>2. /\ x # 0 => home[family[x]] = origin[p]
        /\ \A q \in Procs, o \in Origins : snap[q][o] # 0 => home[family[snap[q][o]]] = o
        /\ \A q \in Procs :
             /\ entry[q] # 0 => home[family[entry[q]]] = origin[q]
             /\ answer[q].pair # 0 => home[family[answer[q].pair]] = origin[q]
    BY <1>10, <2>1 DEF Token!PlacedBy
  <2>3. \A o \in Origins : file'[o] # 0 => home[family[file'[o]]] = o
    BY <1>4, <2>2
  <2>5. \A q \in Procs, o \in Origins : snap'[q][o] # 0 => home[family[snap'[q][o]]] = o
    <3> SUFFICES ASSUME NEW q \in Procs, NEW o \in Origins, snap'[q][o] # 0
                 PROVE  home[family[snap'[q][o]]] = o
      OBVIOUS
    <3>1. q # p
      BY <1>1, <1>3
    <3> QED
      BY <1>3, <2>2, <3>1
  <2>6. \A q \in Procs :
          /\ entry'[q] # 0 => home[family[entry'[q]]] = origin[q]
          /\ answer'[q].pair # 0 => home[family[answer'[q].pair]] = origin[q]
    BY <1>3, <2>2
  <2>4. Token!PlacedBy(home)'
    BY <2>3, <2>5, <2>6 DEF Token!PlacedBy
  <2> QED
    BY <2>4 DEF Token!Placed
<1>16. Token!FreshLogin'
  <2> SUFFICES ASSUME NEW q \in Procs, tokenPc'[q] \in {"exchange", "poll"}
               PROVE  /\ \A o \in Origins : ~Token!SameLogin(answer'[q].pair, file'[o])
                      /\ \A y \in Procs :
                           /\ ~Token!SameLogin(answer'[q].pair, entry'[y])
                           /\ y # q => ~Token!SameLogin(answer'[q].pair, answer'[y].pair)
                           /\ \A o \in Origins : ~Token!SameLogin(answer'[q].pair, snap'[y][o])
    BY DEF Token!FreshLogin, Token!SameLogin
  <2>1. q # p /\ tokenPc[q] \in {"exchange", "poll"} /\ answer'[q].pair = answer[q].pair
    BY <1>3
  <2>2. /\ \A o \in Origins : ~Token!SameLogin(answer[q].pair, file[o])
        /\ \A y \in Procs :
             /\ ~Token!SameLogin(answer[q].pair, entry[y])
             /\ y # q => ~Token!SameLogin(answer[q].pair, answer[y].pair)
             /\ \A o \in Origins : ~Token!SameLogin(answer[q].pair, snap[y][o])
    BY <2>1 DEF Token!TokenInv, Token!FreshLogin
  <2>3. ~Token!SameLogin(answer[q].pair, 0)
    BY DEF Token!SameLogin
  <2> QED
    BY <1>1, <1>3, <1>4, <1>10, <2>1, <2>2, <2>3
<1>17. Token!HeldAlone'
  <2> SUFFICES ASSUME NEW q \in Procs, NEW y \in Procs, q # y, Token!Sound(entry[q])',
                      Token!SameLogin(entry[q], entry[y])'
               PROVE  FALSE
    BY DEF Token!HeldAlone
  <2>1. entry'[q] = entry[q] /\ entry'[y] = entry[y]
    BY <1>3, <1>10 DEF Token!SameLogin
  <2> QED
    BY <1>6, <2>1 DEF Token!TokenInv, Token!HeldAlone, Token!SameLogin, Token!Sound
<1>18. Token!HeldCached'
  <2> SUFFICES ASSUME NEW q \in Procs, tokenPc'[q] \in Kept, entry'[q] # 0,
                      family[entry'[q]] \notin shaken'
               PROVE  file'[origin[q]] = entry'[q]
    BY DEF Token!HeldCached, Token!Sound, Kept
  <2>1. CASE q = p
    BY <1>3, <1>4, <2>1
  <2>2. CASE q # p
    <3>1. entry'[q] = entry[q] /\ file[origin[q]] = entry[q] /\ origin[q] \in Origins
      BY <1>3, <1>6, <2>2, TokenTypes DEF Token!TokenInv, Token!HeldCached, Token!Sound, Kept
    <3>2. ~Token!SameLogin(x, entry[q])
      BY <1>6, <1>10, <2>2, <3>1
         DEF Token!TokenInv, Token!HeldAlone, Token!SameLogin, Token!Sound
    <3> QED
      BY <1>7, <3>1, <3>2
  <2> QED
    BY <2>1, <2>2
<1>19. Token!HeldNewest'
  <2>1. \A q \in Procs : Token!Sound(entry[q]) =>
          \A t \in live : Token!SameLogin(t, entry[q]) => t \in {entry[q], answer[q].pair}
    BY DEF Token!TokenInv, Token!HeldNewest
  <2>2. \A q \in Procs : Token!Sound(entry'[q]) =>
          \A t \in live : Token!SameLogin(t, entry'[q]) => t \in {entry'[q], answer'[q].pair}
    <3> SUFFICES ASSUME NEW q \in Procs, Token!Sound(entry'[q]), NEW t \in live,
                        Token!SameLogin(t, entry'[q])
                 PROVE  t \in {entry'[q], answer'[q].pair}
      OBVIOUS
    <3>1. CASE q = p
      BY <1>3, <1>5, <2>1, <3>1 DEF Token!Sound
    <3>2. CASE q # p
      BY <1>3, <2>1, <3>2
    <3> QED
      BY <3>1, <3>2
  <2> QED
    BY <1>6, <2>2 DEF Token!HeldNewest, Token!SameLogin, Token!Sound
<1>20. Token!HeldUnspent'
  BY <1>3, <1>5, <1>6, <1>10 DEF Token!TokenInv, Token!HeldUnspent, Token!Sound
<1>21. Token!FileUnspent'
  <2> SUFFICES ASSUME NEW o \in Origins, file'[o] # 0, family[file'[o]] \notin shaken',
                      file'[o] \in rotated
               PROVE  \E q \in Procs : Token!SameLogin(file'[o], entry'[q])
    BY DEF Token!FileUnspent, Token!SameLogin, Token!Sound
  <2>1. CASE o = origin[p] /\ file'[o] = x
    BY <1>3, <2>1 DEF Token!SameLogin
  <2>2. CASE file'[o] = file[o]
    <3>1. PICK q \in Procs : Token!SameLogin(file[o], entry[q])
      BY <1>6, <2>2 DEF Token!TokenInv, Token!FileUnspent, Token!Sound
    <3>2. q = p => entry'[q] = entry[q]
      BY <1>3, <1>9, <2>2, <3>1 DEF Token!SameLogin
    <3> QED
      BY <1>3, <2>2, <3>1, <3>2
  <2> QED
    BY <1>8, <2>1, <2>2
<1>22. Token!SnapFollowed'
  <2> SUFFICES ASSUME NEW q \in Procs, NEW o \in Origins, snap'[q][o] # 0,
                      family[snap'[q][o]] \notin shaken'
               PROVE  Token!SameLogin(snap'[q][o], file'[o])
    BY DEF Token!SnapFollowed, Token!SameLogin, Token!Sound
  <2>1. q # p /\ snap'[q] = snap[q]
    <3>1. q # p
      BY <1>1, <1>3
    <3> QED
      BY <1>3, <3>1
  <2>2. Token!SameLogin(snap[q][o], file[o])
    BY <1>6, <2>1 DEF Token!TokenInv, Token!SnapFollowed, Token!Sound
  <2> QED
    BY <1>7, <2>1, <2>2 DEF Token!SameLogin
<1>23. Token!LiveIsReachable'
  <2> SUFFICES ASSUME NEW t \in live, family[t] \notin shaken', \A o \in Origins : file'[o] # t
               PROVE  \E q \in Procs : tokenPc'[q] # "off" /\ (entry'[q] = t \/ answer'[q].pair = t)
    BY DEF Token!LiveIsReachable
  <2>1. t # 0 /\ family[t] \notin shaken
    BY <1>6, TokenTypes, PairsHeld
  <2>2. CASE \E o \in Origins : file[o] = t
    <3>1. PICK o \in Origins : file[o] = t
      BY <2>2
    <3>2. Token!SameLogin(x, t) /\ o = origin[p] /\ file'[o] = x
      BY <1>7, <2>1, <3>1
    <3>3. Token!Sound(entry[p]) /\ Token!SameLogin(t, entry[p])
      BY <1>10, <2>1, <3>2 DEF Token!Sound, Token!SameLogin
    <3>4. t \in {entry[p], answer[p].pair}
      BY <3>3 DEF Token!TokenInv, Token!HeldNewest
    <3> QED
      BY <1>5, <3>2, <3>4 DEF Token!SameLogin
  <2>3. CASE \E q \in Procs : tokenPc[q] # "off" /\ (entry[q] = t \/ answer[q].pair = t)
    <3>1. PICK q \in Procs : tokenPc[q] # "off" /\ (entry[q] = t \/ answer[q].pair = t)
      BY <2>3
    <3>2. CASE q = p
      <4>1. entry[p] = t
        BY <1>5, <2>1, <3>1, <3>2
      <4>2. tokenPc[p] = "persist"
        BY <1>9, <2>1, <4>1
      <4> QED
        BY <1>3, <4>1, <4>2
    <3>3. CASE q # p
      BY <1>3, <3>1, <3>3
    <3> QED
      BY <3>2, <3>3
  <2> QED
    BY <2>1, <2>2, <2>3 DEF Token!TokenInv, Token!LiveIsReachable
<1> QED
  BY <1>11, <1>12, <1>13, <1>14, <1>15, <1>16, <1>17, <1>18, <1>19, <1>20, <1>21, <1>22, <1>23
     DEF Token!TokenInv

\* What a process is left with when its call is over, or when its call goes on.
LEMMA Settled ==
  ASSUME Token!TokenInv, NEW p \in Procs, NEW place, Token!Settle(p, place)
  PROVE  /\ tokenPc' = [tokenPc EXCEPT ![p] = place] /\ answer' = [answer EXCEPT ![p] = Token!NoAnswer]
         /\ snap' = [snap EXCEPT ![p] = Token!Idle.snap]
         /\ doing' \in [Procs -> {"none", "login", "token", "logout"}]
         /\ device' \in [Procs -> [spent : Nat, interval : Nat]]
<1>1. /\ tokenPc' = [tokenPc EXCEPT ![p] = place] /\ answer' = [answer EXCEPT ![p] = Token!NoAnswer]
      /\ snap' = [snap EXCEPT ![p] = Token!Idle.snap]
      /\ doing' = [doing EXCEPT ![p] = "none"]
      /\ device' = [device EXCEPT ![p] = [spent |-> 0, interval |-> 0]]
  BY DEF Token!Settle, Token!At, Token!Idle
<1> QED
  BY <1>1, TokenTypes

LEMMA Itself ==
  ASSUME Token!TokenInv, NEW p \in Procs
  PROVE  /\ tokenPc = [tokenPc EXCEPT ![p] = tokenPc[p]] /\ entry = [entry EXCEPT ![p] = entry[p]]
         /\ answer = [answer EXCEPT ![p] = answer[p]] /\ snap = [snap EXCEPT ![p] = snap[p]]
         /\ answer[p] \in Token!Answers /\ tokenPc[p] \in Places
BY TokenTypes

\* An answer without a pair.
LEMMA NothingSaid ==
  /\ \A k \in {"none", "lost", "rejected", "pending", "slow_down", "error"} :
       Token!Said(k, 0) \in Token!Answers /\ Token!Said(k, 0).pair = 0
  /\ Token!NoAnswer \in Token!Answers /\ Token!NoAnswer.pair = 0
BY DEF Token!Said, Token!Answers, Token!NoAnswer

\* What is being disturbed was issued.
LEMMA Disturbs ==
  ASSUME Token!TokenInv, NEW t \in Token!Pairs \cup {0}
  PROVE  Token!FamilyOf(t) \subseteq Token!Pairs /\ (t # 0 => family[t] \in Token!FamilyOf(t))
BY PairsHeld DEF Token!FamilyOf

\* A refresh is refused: nothing is issued, and a pair refreshed away before
\* takes its login with it, which was disturbed already.
LEMMA RefusedInv ==
  ASSUME Token!TokenInv, NEW p \in Procs, Token!ServerRefresh(p), entry[p] \notin live
  PROVE  Token!TokenInv'
<1>1. /\ tokenPc[p] = "refresh" /\ answer[p] = Token!NoAnswer
      /\ answer' = [answer EXCEPT ![p] = Token!Said("rejected", 0)]
      /\ live' \subseteq live /\ rotated' = rotated
      /\ replayed' \in {replayed, replayed \cup {family[entry[p]]}}
      /\ entry[p] \notin rotated => replayed' = replayed
      /\ UNCHANGED <<file, origin, entry, tokenPc, doing, snap, device, family, stale, shaken>>
  BY DEF Token!ServerRefresh
<1>2. answer[p].pair = 0 /\ entry[p] # 0
  BY <1>1, NothingSaid DEF Token!TokenInv, Token!PlacesOK, Token!PlaceOK
<1>3. replayed' \subseteq shaken
  <2>1. entry[p] \in rotated => family[entry[p]] \in shaken
    BY <1>2 DEF Token!TokenInv, Token!HeldUnspent, Token!Sound
  <2> QED
    BY <1>1, <2>1, TokenTypes
<1>4. LetGo(p, tokenPc[p], entry[p], Token!Said("rejected", 0), snap[p])
  BY <1>1, <1>2, <1>3, Itself, NothingSaid, TokenTypes DEF LetGo, Kept, Token!Waiting
<1> QED
  BY <1>4, Itself, NothingSaid, LetsGo

LEMMA RefreshedInv ==
  ASSUME Token!TokenInv, NEW p \in Procs, Token!ServerRefresh(p), entry[p] \in live
  PROVE  Token!TokenInv'
<1>1. /\ tokenPc[p] = "refresh" /\ answer[p] = Token!NoAnswer /\ Token!Issue(p, family[entry[p]])
      /\ live' = (live \ {entry[p]}) \cup {Len(family) + 1}
      /\ rotated' = rotated \cup {entry[p]}
      /\ UNCHANGED <<file, origin, entry, tokenPc, doing, snap, device, stale, shaken, replayed>>
  BY DEF Token!ServerRefresh
<1>2. answer[p].pair = 0 /\ {entry[p]} \in SUBSET Token!Pairs /\ {entry[p]} \subseteq live
  BY <1>1, NothingSaid, TokenTypes
<1> QED
  BY <1>1, <1>2, IssueInv

LEMMA ApprovedInv ==
  ASSUME Token!TokenInv, NEW p \in Procs, Token!ServerApproves(p)
  PROVE  Token!TokenInv'
<1>1. /\ tokenPc[p] \in {"exchange", "poll"} /\ answer[p] = Token!NoAnswer
      /\ Token!Issue(p, Token!NewLogin)
      /\ live' = (live \ {}) \cup {Len(family) + 1} /\ rotated' = rotated \cup {}
      /\ UNCHANGED <<file, origin, entry, tokenPc, doing, snap, device, stale, shaken, replayed>>
  BY DEF Token!ServerApproves
<1>2. answer[p].pair = 0 /\ {} \in SUBSET Token!Pairs
  BY <1>1, NothingSaid
<1> QED
  BY <1>1, <1>2, IssueInv

LEMMA DeferredInv ==
  ASSUME Token!TokenInv, NEW p \in Procs, NEW verdict \in Token!Verdicts,
         Token!ServerDefers(p, verdict)
  PROVE  Token!TokenInv'
<1>1. /\ tokenPc[p] \in {"exchange", "poll"} /\ answer[p] = Token!NoAnswer
      /\ answer' = [answer EXCEPT ![p] = Token!Said(verdict, 0)]
      /\ UNCHANGED <<file, origin, entry, tokenPc, doing, snap, device, family, live, rotated,
                     replayed, stale, shaken>>
  BY DEF Token!ServerDefers, Token!Server
<1>2. /\ answer[p].pair = 0 /\ entry[p] = 0
      /\ Token!Said(verdict, 0) \in Token!Answers /\ Token!Said(verdict, 0).pair = 0
  BY <1>1, NothingSaid DEF Token!TokenInv, Token!PlacesOK, Token!PlaceOK, Token!Verdicts
<1>3. LetGo(p, tokenPc[p], entry[p], Token!Said(verdict, 0), snap[p])
  BY <1>1, <1>2, Itself, TokenTypes DEF LetGo, Kept, Token!Waiting
<1> QED
  BY <1>2, <1>3, Itself, LetsGo

LEMMA LostInv ==
  ASSUME Token!TokenInv, NEW p \in Procs, Token!Lose(p)
  PROVE  Token!TokenInv'
<1>1. /\ tokenPc[p] \in Token!Waiting /\ answer' = [answer EXCEPT ![p] = Token!Said("lost", 0)]
      /\ shaken' = shaken \cup Token!FamilyOf(entry[p]) \cup Token!FamilyOf(answer[p].pair)
      /\ UNCHANGED <<file, origin, entry, tokenPc, doing, snap, device, family, live, rotated,
                     replayed, stale>>
  BY DEF Token!Lose, Token!Server
<1>2. /\ shaken' \subseteq Token!Pairs
      /\ answer[p].pair # 0 => family[answer[p].pair] \in shaken'
  BY <1>1, Disturbs, PairsHeld, TokenTypes
<1>3. tokenPc[p] # "refresh" => entry[p] = 0
  BY <1>1 DEF Token!TokenInv, Token!PlacesOK, Token!PlaceOK, Token!Waiting
<1>4. LetGo(p, tokenPc[p], entry[p], Token!Said("lost", 0), snap[p])
  BY <1>1, <1>2, <1>3, Itself, NothingSaid, TokenTypes DEF LetGo, Kept, Token!Waiting
<1> QED
  BY <1>4, Itself, NothingSaid, LetsGo

\* A call that holds a pair of a disturbed login, or none, ends, or goes on to
\* another point with less than it held.
LEMMA EndsInv ==
  ASSUME Token!TokenInv, NEW p \in Procs, NEW place \in {"off", "ready"}, NEW e \in {0, entry[p]},
         Token!Settle(p, place), entry' = [entry EXCEPT ![p] = e],
         UNCHANGED <<file, origin, family, live, rotated, replayed, stale>>,
         shaken \subseteq shaken', shaken' \subseteq Token!Pairs,
         place = "off" => e = 0,
         \/ Token!FamilyOf(entry[p]) \cup Token!FamilyOf(answer[p].pair) \subseteq shaken'
         \/ tokenPc[p] \in {"ready", "refresh"} /\ answer[p].pair = 0
  PROVE  Token!TokenInv'
<1>1. /\ tokenPc' = [tokenPc EXCEPT ![p] = place] /\ answer' = [answer EXCEPT ![p] = Token!NoAnswer]
      /\ snap' = [snap EXCEPT ![p] = Token!Idle.snap]
      /\ doing' \in [Procs -> {"none", "login", "token", "logout"}]
      /\ device' \in [Procs -> [spent : Nat, interval : Nat]]
  BY Settled
<1>2. entry[p] \in Token!Pairs \cup {0} /\ answer[p].pair \in Token!Pairs \cup {0}
  BY PairsHeld
<1>3. /\ entry[p] # 0 => family[entry[p]] \in Token!FamilyOf(entry[p])
      /\ answer[p].pair # 0 => family[answer[p].pair] \in Token!FamilyOf(answer[p].pair)
  BY <1>2, Disturbs
<1>4. replayed' \subseteq shaken'
  BY TokenTypes
<1>5. LetGo(p, place, e, Token!NoAnswer, Token!Idle.snap)
  BY <1>1, <1>3, <1>4, NothingSaid DEF LetGo, Kept
<1> QED
  BY <1>5, NothingSaid, LetsGo DEF Places

LEMMA PersistFailsInv ==
  ASSUME Token!TokenInv, NEW p \in Procs, Token!PersistFails(p)
  PROVE  Token!TokenInv'
<1>1. /\ tokenPc[p] = "persist" /\ shaken' = shaken \cup Token!FamilyOf(entry[p])
      /\ UNCHANGED <<file, origin, family, live, rotated, replayed, stale>>
      /\ \/ /\ entry' = [entry EXCEPT ![p] = 0] /\ Token!At(p, "register")
            /\ UNCHANGED <<doing, snap, answer, device>>
         \/ entry' = [entry EXCEPT ![p] = 0] /\ Token!Settle(p, "off")
         \/ UNCHANGED entry /\ Token!Settle(p, "ready")
  BY DEF Token!PersistFails, Token!Hold, Token!Fail, Token!Server
<1>2. entry[p] = answer[p].pair /\ entry[p] # 0 /\ entry[p] \in Token!Pairs \cup {0}
  BY <1>1, PairsHeld DEF Token!TokenInv, Token!PlacesOK, Token!PlaceOK
<1>3. /\ shaken' \subseteq Token!Pairs /\ shaken \subseteq shaken'
      /\ family[entry[p]] \in shaken'
      /\ Token!FamilyOf(entry[p]) \cup Token!FamilyOf(answer[p].pair) \subseteq shaken'
  BY <1>1, <1>2, Disturbs, TokenTypes
<1>4. CASE /\ entry' = [entry EXCEPT ![p] = 0] /\ Token!At(p, "register")
           /\ UNCHANGED <<doing, snap, answer, device>>
  <2>1. LetGo(p, "register", 0, answer[p], snap[p])
    BY <1>1, <1>2, <1>3, <1>4, Itself, TokenTypes DEF LetGo, Kept, Token!At
  <2> QED
    BY <2>1, Itself, LetsGo DEF Places
<1>5. CASE entry' = [entry EXCEPT ![p] = 0] /\ Token!Settle(p, "off")
  BY <1>1, <1>3, <1>5, EndsInv
<1>6. CASE UNCHANGED entry /\ Token!Settle(p, "ready")
  <2>1. entry' = [entry EXCEPT ![p] = entry[p]]
    BY <1>6, Itself
  <2> QED
    BY <1>1, <1>3, <1>6, <2>1, EndsInv
<1> QED
  BY <1>1, <1>4, <1>5, <1>6

LEMMA RefreshFailedInv ==
  ASSUME Token!TokenInv, NEW p \in Procs, Token!RefreshFailed(p)
  PROVE  Token!TokenInv'
<1>1. /\ tokenPc[p] = "refresh" /\ answer[p].kind \in {"rejected", "lost"}
      /\ UNCHANGED <<file, origin, family, live, rotated, replayed, stale, shaken>>
      /\ \/ /\ entry' = [entry EXCEPT ![p] = 0] /\ Token!At(p, "register")
            /\ UNCHANGED <<doing, snap, answer, device>>
         \/ /\ entry' = [entry EXCEPT ![p] = 0] /\ Token!At(p, "erase")
            /\ snap' = [snap EXCEPT ![p] = file] /\ UNCHANGED <<doing, answer, device>>
         \/ UNCHANGED entry /\ Token!Settle(p, "ready")
  BY DEF Token!RefreshFailed, Token!Hold, Token!Fail, Token!Server
<1>2. answer[p].pair = 0
  BY <1>1, Itself, AnswerTyped
<1>3. CASE /\ entry' = [entry EXCEPT ![p] = 0] /\ Token!At(p, "register")
           /\ UNCHANGED <<doing, snap, answer, device>>
  <2>1. LetGo(p, "register", 0, answer[p], snap[p])
    BY <1>1, <1>2, <1>3, Itself, TokenTypes DEF LetGo, Kept, Token!At
  <2> QED
    BY <2>1, Itself, LetsGo DEF Places
<1>4. CASE /\ entry' = [entry EXCEPT ![p] = 0] /\ Token!At(p, "erase")
           /\ snap' = [snap EXCEPT ![p] = file] /\ UNCHANGED <<doing, answer, device>>
  <2>1. LetGo(p, "erase", 0, answer[p], file)
    BY <1>1, <1>2, <1>4, Itself, TokenTypes DEF LetGo, Kept, Token!At
  <2> QED
    BY <2>1, Itself, LetsGo DEF Places
<1>5. CASE UNCHANGED entry /\ Token!Settle(p, "ready")
  <2>1. entry' = [entry EXCEPT ![p] = entry[p]]
    BY <1>5, Itself
  <2> QED
    BY <1>1, <1>2, <1>5, <2>1, TokenTypes, EndsInv
<1> QED
  BY <1>1, <1>3, <1>4, <1>5

\* A step of an interactive login, which holds nothing yet but an answer that
\* brought no pair, or one of a login already disturbed.
LEMMA LoginStepInv ==
  ASSUME Token!TokenInv, NEW p \in Procs, entry[p] = 0,
         answer[p].pair # 0 => family[answer[p].pair] \in shaken,
         UNCHANGED <<file, origin, entry, family, live, rotated, replayed, stale, shaken>>,
         \/ \E place \in {"off", "ready"} : Token!Settle(p, place)
         \/ /\ \E place \in {"browser", "exchange", "poll", "wait"} : Token!At(p, place)
            /\ UNCHANGED <<doing, snap>>
            /\ device' \in [Procs -> [spent : Nat, interval : Nat]]
            /\ \/ answer' = [answer EXCEPT ![p] = Token!NoAnswer]
               \/ UNCHANGED answer /\ answer[p].pair = 0
  PROVE  Token!TokenInv'
<1>1. entry' = [entry EXCEPT ![p] = 0]
  BY Itself
<1>2. CASE \E place \in {"off", "ready"} : Token!Settle(p, place)
  <2>1. answer[p].pair \in Token!Pairs \cup {0} /\ shaken' \subseteq Token!Pairs
    BY PairsHeld, TokenTypes
  <2>2. Token!FamilyOf(entry[p]) \cup Token!FamilyOf(answer[p].pair) \subseteq shaken'
    BY DEF Token!FamilyOf
  <2> QED
    BY <1>1, <1>2, <2>1, <2>2, EndsInv
<1>3. CASE /\ \E place \in {"browser", "exchange", "poll", "wait"} : Token!At(p, place)
           /\ UNCHANGED <<doing, snap>>
           /\ device' \in [Procs -> [spent : Nat, interval : Nat]]
           /\ \/ answer' = [answer EXCEPT ![p] = Token!NoAnswer]
              \/ UNCHANGED answer /\ answer[p].pair = 0
  <2>1. PICK place \in {"browser", "exchange", "poll", "wait"} : Token!At(p, place)
    BY <1>3
  <2>2. PICK a \in Token!Answers : a.pair = 0 /\ answer' = [answer EXCEPT ![p] = a]
    BY <1>3, Itself, NothingSaid
  <2>3. LetGo(p, place, 0, a, snap[p])
    BY <1>1, <1>3, <2>1, <2>2, Itself, TokenTypes DEF LetGo, Kept, Token!At
  <2> QED
    BY <2>2, <2>3, Itself, LetsGo DEF Places
<1> QED
  BY <1>2, <1>3

\* The interval of a device login is a number of seconds whatever the server
\* names.
LEMMA PollInterval ==
  ASSUME Token!TokenInv, NEW p \in Procs,
         \/ device' = device
         \/ device' = [device EXCEPT ![p] = [spent |-> 0,
              interval |-> IF DeviceInterval <= 0 THEN 5 ELSE DeviceInterval]]
         \/ device' = [device EXCEPT ![p].spent = @ + device[p].interval]
         \/ device' = [device EXCEPT ![p].interval = @ + 5]
  PROVE  device' \in [Procs -> [spent : Nat, interval : Nat]]
<1>1. device \in [Procs -> [spent : Nat, interval : Nat]]
  BY TokenTypes
<1>2. device[p].spent \in Nat /\ device[p].interval \in Nat
  BY <1>1
<1>3. device[p].spent + device[p].interval \in Nat /\ device[p].interval + 5 \in Nat
  BY <1>2
<1>4. (IF DeviceInterval <= 0 THEN 5 ELSE DeviceInterval) \in Nat
  BY TokenAssumption
<1>5. CASE device' = [device EXCEPT ![p] = [spent |-> 0,
             interval |-> IF DeviceInterval <= 0 THEN 5 ELSE DeviceInterval]]
  BY <1>1, <1>4, <1>5
<1>6. CASE device' = [device EXCEPT ![p].spent = @ + device[p].interval]
  BY <1>1, <1>3, <1>6
<1>7. CASE device' = [device EXCEPT ![p].interval = @ + 5]
  BY <1>1, <1>3, <1>7
<1> QED
  BY <1>1, <1>5, <1>6, <1>7

LEMMA LoginInv ==
  ASSUME Token!TokenInv, NEW p \in Procs,
         \/ Token!Register(p) \/ Token!WaitToPoll(p) \/ Token!LoginAnswer(p)
         \/ \E c \in Token!Callbacks : Token!Loopback(p, c)
  PROVE  Token!TokenInv'
<1>1. /\ tokenPc[p] \in {"register", "browser", "wait", "exchange", "poll"}
      /\ tokenPc[p] \in {"exchange", "poll"} => answer[p].kind # "pair"
      /\ UNCHANGED <<file, origin, entry, family, live, rotated, replayed, stale, shaken>>
  <2>1. CASE Token!Register(p)
    BY <2>1 DEF Token!Register, Token!Server
  <2>2. CASE Token!WaitToPoll(p)
    BY <2>2 DEF Token!WaitToPoll, Token!Server
  <2>3. CASE Token!LoginAnswer(p)
    BY <2>3 DEF Token!LoginAnswer, Token!Server
  <2>4. CASE \E c \in Token!Callbacks : Token!Loopback(p, c)
    BY <2>4 DEF Token!Loopback, Token!Server
  <2> QED
    BY <2>1, <2>2, <2>3, <2>4
<1>2. /\ entry[p] = 0
      /\ answer[p].pair # 0 => tokenPc[p] = "register" /\ family[answer[p].pair] \in shaken
  <2>1. answer[p].pair # 0 => answer[p].kind = "pair"
    BY Itself, AnswerTyped
  <2> QED
    BY <1>1, <2>1 DEF Token!TokenInv, Token!PlacesOK, Token!PlaceOK, Token!Waiting
<1>3. \/ \E place \in {"off", "ready"} : Token!Settle(p, place)
      \/ /\ \E place \in {"browser", "exchange", "poll", "wait"} : Token!At(p, place)
         /\ UNCHANGED <<doing, snap>>
         /\ device' \in [Procs -> [spent : Nat, interval : Nat]]
         /\ \/ answer' = [answer EXCEPT ![p] = Token!NoAnswer]
            \/ UNCHANGED answer /\ answer[p].pair = 0
  <2>1. CASE Token!Register(p)
    BY <2>1, PollInterval DEF Token!Register, Token!Begin, Token!Fail
  <2>2. CASE Token!WaitToPoll(p)
    BY <2>2, PollInterval DEF Token!WaitToPoll, Token!Begin, Token!Fail
  <2>3. CASE Token!LoginAnswer(p)
    <3>1. tokenPc[p] # "register"
      BY <2>3 DEF Token!LoginAnswer
    <3>2. CASE answer[p].kind \in {"pending", "slow_down"}
      BY <1>2, <2>3, <3>1, <3>2, PollInterval DEF Token!LoginAnswer
    <3>3. CASE answer[p].kind \notin {"pending", "slow_down"}
      BY <2>3, <3>3 DEF Token!LoginAnswer, Token!Fail
    <3> QED
      BY <3>2, <3>3
  <2>4. CASE \E c \in Token!Callbacks : Token!Loopback(p, c)
    BY <2>4, PollInterval DEF Token!Loopback, Token!Begin, Token!Fail
  <2> QED
    BY <2>1, <2>2, <2>3, <2>4
<1> QED
  BY <1>1, <1>2, <1>3, LoginStepInv

LEMMA StartLogoutInv ==
  ASSUME Token!TokenInv, NEW p \in Procs, NEW heard \in BOOLEAN, Token!StartLogout(p, heard)
  PROVE  Token!TokenInv'
<1>1. PICK place \in {"forget", "unheard"} : Token!At(p, place)
  BY DEF Token!StartLogout
<1>2. /\ tokenPc[p] = "ready" /\ snap' = [snap EXCEPT ![p] = file] /\ live' \subseteq live
      /\ shaken' \in {shaken, shaken \cup Token!FamilyOf(file[origin[p]])}
      /\ doing' = [doing EXCEPT ![p] = "logout"]
      /\ UNCHANGED <<file, origin, entry, answer, device, family, rotated, stale, replayed>>
  BY DEF Token!StartLogout
<1>3. shaken \subseteq shaken' /\ shaken' \subseteq Token!Pairs /\ replayed' \subseteq shaken'
  <2>1. file[origin[p]] \in Token!Pairs \cup {0}
    BY PairsHeld, TokenTypes
  <2> QED
    BY <1>2, <2>1, Disturbs, TokenTypes
<1>4. answer[p].pair = 0
  BY <1>2 DEF Token!TokenInv, Token!PlacesOK, Token!PlaceOK, Token!Waiting
<1>5. doing' \in [Procs -> {"none", "login", "token", "logout"}]
  BY <1>2, TokenTypes
<1>6. LetGo(p, place, entry[p], answer[p], file)
  BY <1>1, <1>2, <1>3, <1>4, <1>5, Itself, TokenTypes DEF LetGo, Kept, Token!At
<1> QED
  BY <1>6, Itself, LetsGo DEF Places

LEMMA ExitInv ==
  ASSUME Token!TokenInv, NEW p \in Procs, Token!Exit(p)
  PROVE  Token!TokenInv'
<1>1. /\ entry' = [entry EXCEPT ![p] = 0] /\ Token!Settle(p, "off")
      /\ UNCHANGED <<file, origin, family, live, rotated, replayed, stale>>
      /\ tokenPc[p] = "ready" => shaken' = shaken
      /\ tokenPc[p] # "ready" =>
           shaken' = shaken \cup Token!FamilyOf(entry[p]) \cup Token!FamilyOf(answer[p].pair)
  BY DEF Token!Exit, Token!Hold, Token!Server
<1>2. shaken \subseteq shaken' /\ shaken' \subseteq Token!Pairs
  <2>1. entry[p] \in Token!Pairs \cup {0} /\ answer[p].pair \in Token!Pairs \cup {0}
    BY PairsHeld
  <2> QED
    BY <1>1, <2>1, Disturbs, TokenTypes
<1>3. tokenPc[p] = "ready" => answer[p].pair = 0
  BY DEF Token!TokenInv, Token!PlacesOK, Token!PlaceOK, Token!Waiting
<1> QED
  BY <1>1, <1>2, <1>3, EndsInv

LEMMA CacheStaysInv ==
  ASSUME Token!TokenInv, NEW p \in Procs, Token!CacheStays(p)
  PROVE  Token!TokenInv'
<1>1. /\ tokenPc[p] \in {"erase", "forget", "unheard"}
      /\ entry' = [entry EXCEPT ![p] = 0] /\ Token!Settle(p, "ready")
      /\ shaken' = shaken \cup Token!FamilyOf(entry[p])
      /\ UNCHANGED <<file, origin, family, live, rotated, replayed, stale>>
  BY DEF Token!CacheStays, Token!Hold, Token!Server
<1>2. shaken \subseteq shaken' /\ shaken' \subseteq Token!Pairs
  <2>1. entry[p] \in Token!Pairs \cup {0}
    BY PairsHeld
  <2> QED
    BY <1>1, <2>1, Disturbs, TokenTypes
<1>3. answer[p].pair = 0
  BY <1>1 DEF Token!TokenInv, Token!PlacesOK, Token!PlaceOK, Token!Waiting
<1>4. Token!FamilyOf(entry[p]) \cup Token!FamilyOf(answer[p].pair) \subseteq shaken'
  BY <1>1, <1>3 DEF Token!FamilyOf
<1> QED
  BY <1>1, <1>2, <1>4, EndsInv

LEMMA WritesInv ==
  ASSUME Token!TokenInv, NEW p \in Procs,
         Token!Persist(p) \/ Token!Erase(p) \/ Token!FinishLogout(p)
  PROVE  Token!TokenInv'
<1>1. CASE Token!Persist(p)
  <2>1. /\ tokenPc[p] = "persist" /\ Rewrites(p, entry[p], "ready")
        /\ UNCHANGED <<origin, family, live, rotated, replayed, stale>>
    BY <1>1, Itself DEF Token!Persist, Rewrites, Token!Server
  <2> QED
    BY <2>1, WriteBack
<1>2. CASE Token!Erase(p)
  <2>1. tokenPc[p] = "erase" /\ entry[p] = 0
    BY <1>2 DEF Token!Erase, Token!TokenInv, Token!PlacesOK, Token!PlaceOK
  <2>2. /\ Rewrites(p, 0, "ready")
        /\ UNCHANGED <<origin, family, live, rotated, replayed, stale>>
    BY <1>2, <2>1, Itself DEF Token!Erase, Rewrites, Token!Server, Token!FamilyOf
  <2> QED
    BY <2>1, <2>2, WriteBack
<1>3. CASE Token!FinishLogout(p)
  <2>1. /\ tokenPc[p] \in {"forget", "unheard"} /\ Rewrites(p, 0, "off")
        /\ UNCHANGED <<origin, family, live, rotated, replayed, stale>>
    BY <1>3 DEF Token!FinishLogout, Token!Hold, Rewrites, Token!Server, Token!FamilyOf
  <2> QED
    BY <2>1, WriteBack
<1> QED
  BY <1>1, <1>2, <1>3

LEMMA TakesInv ==
  ASSUME Token!TokenInv, NEW p \in Procs, Token!StartLogin(p) \/ Token!StartToken(p)
  PROVE  Token!TokenInv'
<1>1. PICK held : held = IF entry[p] # 0 THEN entry[p] ELSE file[origin[p]]
  OBVIOUS
<1>2. /\ tokenPc[p] \in {"off", "ready"}
      /\ UNCHANGED <<file, origin, snap, device, family, live, rotated, replayed, stale>>
      /\ doing' \in [Procs -> {"none", "login", "token", "logout"}]
      /\ \E none \in {"register", "ready"} : Token!UseHeld(p, held, none)
  <2>1. CASE Token!StartLogin(p)
    <3>1. tokenPc[p] = "off" /\ entry[p] = 0
      BY <2>1 DEF Token!StartLogin, Token!TokenInv, Token!PlacesOK, Token!PlaceOK
    <3>2. held = IF file[origin[p]] # 0 THEN file[origin[p]] ELSE entry[p]
      BY <1>1, <3>1
    <3>3. doing' \in [Procs -> {"none", "login", "token", "logout"}]
      BY <2>1, TokenTypes DEF Token!StartLogin
    <3> QED
      BY <2>1, <3>1, <3>2, <3>3 DEF Token!StartLogin, Token!Server
  <2>2. CASE Token!StartToken(p)
    <3>1. held = IF entry[p] = 0 THEN file[origin[p]] ELSE entry[p]
      BY <1>1
    <3>2. doing' \in [Procs -> {"none", "login", "token", "logout"}]
      BY <2>2, TokenTypes DEF Token!StartToken
    <3> QED
      BY <2>2, <3>1, <3>2 DEF Token!StartToken, Token!Server
  <2> QED
    BY <2>1, <2>2
<1>3. PICK none \in {"register", "ready"} : Token!UseHeld(p, held, none)
  BY <1>2
<1>4. PICK place : place = IF held = 0 THEN none ELSE IF held \in stale THEN "refresh" ELSE "ready"
  OBVIOUS
<1>5. /\ place \in {"ready", "refresh", "register"}
      /\ place = "refresh" => held # 0
      /\ place = "register" => held = 0
  BY <1>4
<1>6. /\ tokenPc' = [tokenPc EXCEPT ![p] = place] /\ entry' = [entry EXCEPT ![p] = held]
      /\ answer' = [answer EXCEPT ![p] = Token!NoAnswer]
      /\ shaken' = shaken \cup Token!Shared(p, held)
  BY <1>3, <1>4 DEF Token!UseHeld, Token!Hold, Token!At
<1> QED
  BY <1>1, <1>2, <1>5, <1>6, Takes

\* At first nothing is held anywhere, and nothing was issued.
LEMMA TokenInit == Token!Init => Token!TokenInv
<1> SUFFICES ASSUME Token!Init PROVE Token!TokenInv
  OBVIOUS
<1>1. /\ Token!NoAnswer \in Token!Answers /\ Token!NoAnswer.pair = 0
      /\ \A o \in Origins : Token!Idle.snap[o] = 0 /\ file[o] = 0
      /\ Token!Idle.snap \in [Origins -> 0 .. MaxPairs]
      /\ family = <<>> /\ Len(family) = 0 /\ Token!Pairs = {}
      /\ 0 \in 0 .. MaxPairs /\ 0 \in 0 .. Len(family)
  <2>1. Token!Idle.snap = [o \in Origins |-> 0] /\ file = [o \in Origins |-> 0]
    BY DEF Token!Idle, Token!Init
  <2>2. family = <<>> /\ Len(family) = 0
    BY DEF Token!Init
  <2>3. Token!Pairs = {}
    BY <2>2 DEF Token!Pairs
  <2> QED
    BY <2>1, <2>2, <2>3, NothingSaid, TokenAssumption
<1>2. \A p \in Procs : /\ entry[p] = 0 /\ tokenPc[p] = "off" /\ doing[p] = "none"
                       /\ snap[p] = Token!Idle.snap /\ answer[p] = Token!NoAnswer
  BY DEF Token!Init, Token!Idle
<1>3. Token!TypeOK
  <2>1. file \in [Origins -> 0 .. MaxPairs] /\ origin \in [Procs -> Origins]
    BY <1>1, TokenAssumption DEF Token!Init
  <2>2. entry \in [Procs -> 0 .. MaxPairs] /\ tokenPc \in [Procs -> Places]
    BY <1>1 DEF Token!Init, Places
  <2>3. doing \in [Procs -> {"none", "login", "token", "logout"}]
    BY DEF Token!Init, Token!Idle
  <2>4. snap \in [Procs -> [Origins -> 0 .. MaxPairs]]
    BY <1>1 DEF Token!Init
  <2>5. answer \in [Procs -> Token!Answers]
    BY <1>1 DEF Token!Init, Token!Idle
  <2>6. device \in [Procs -> [spent : Nat, interval : Nat]]
    BY DEF Token!Init, Token!Idle
  <2>7. live = {} /\ rotated = {} /\ stale = {} /\ shaken = {} /\ replayed = {}
    BY DEF Token!Init
  <2> QED
    BY <2>1, <2>2, <2>3, <2>4, <2>5, <2>6, <2>7 DEF Token!TypeOK, Places
<1>4. Token!ReplayOnlyAfterLoss /\ Token!LiveIsReachable
  BY DEF Token!Init, Token!ReplayOnlyAfterLoss, Token!LiveIsReachable
<1>5. Token!Issued
  BY <1>1, <1>2, TokenAssumption DEF Token!Issued
<1>6. Token!PlacesOK
  BY <1>1, <1>2 DEF Token!PlacesOK, Token!PlaceOK
<1>7. Token!Placed
  <2>1. PICK home \in [1 .. MaxPairs -> Origins] : TRUE
    <3>1. PICK o \in Origins : TRUE
      BY TokenAssumption
    <3>2. [f \in 1 .. MaxPairs |-> o] \in [1 .. MaxPairs -> Origins]
      OBVIOUS
    <3> QED
      BY <3>2
  <2>2. Token!PlacedBy(home)
    BY <1>1, <1>2 DEF Token!PlacedBy
  <2> QED
    BY <2>2 DEF Token!Placed
<1>8. Token!FreshLogin /\ Token!HeldAlone /\ Token!HeldCached /\ Token!HeldNewest
  BY <1>2
     DEF Token!FreshLogin, Token!HeldAlone, Token!HeldCached, Token!HeldNewest, Token!Sound
<1>9. Token!HeldUnspent /\ Token!FileUnspent /\ Token!SnapFollowed
  BY <1>1, <1>2 DEF Token!HeldUnspent, Token!FileUnspent, Token!SnapFollowed, Token!Sound
<1> QED
  BY <1>3, <1>4, <1>5, <1>6, <1>7, <1>8, <1>9 DEF Token!TokenInv

\* The inductive step, action by action.
LEMMA TokenStep == Token!TokenInv /\ [Token!Next]_tokenVars => Token!TokenInv'
<1> SUFFICES ASSUME Token!TokenInv, [Token!Next]_tokenVars PROVE Token!TokenInv'
  OBVIOUS
<1>1. ASSUME NEW p \in Procs, Token!Step(p) PROVE Token!TokenInv'
  BY <1>1, ReceivePairInv, WritesInv, RefreshFailedInv, LoginInv DEF Token!Step
<1>2. ASSUME NEW p \in Procs, Token!Answered(p) PROVE Token!TokenInv'
  BY <1>2, RefusedInv, RefreshedInv, ApprovedInv, DeferredInv, LostInv DEF Token!Answered
<1>3. ASSUME NEW p \in Procs, Token!StartLogin(p) \/ Token!StartToken(p) PROVE Token!TokenInv'
  BY <1>3, TakesInv
<1>4. ASSUME NEW p \in Procs, Token!PersistFails(p) \/ Token!CacheStays(p) \/ Token!Exit(p)
      PROVE  Token!TokenInv'
  BY <1>4, PersistFailsInv, CacheStaysInv, ExitInv
<1>5. ASSUME NEW p \in Procs, NEW heard \in BOOLEAN, Token!StartLogout(p, heard)
      PROVE  Token!TokenInv'
  BY <1>5, StartLogoutInv
<1>6. ASSUME NEW t \in Token!Pairs, Token!Expire(t) PROVE Token!TokenInv'
  <2>1. stale' \subseteq Token!Pairs
    BY <1>6, TokenTypes DEF Token!Expire
  <2> QED
    BY <1>6, <2>1, ServerForgets DEF Token!Expire, Token!Server
<1>7. ASSUME Token!ServerRestart PROVE Token!TokenInv'
  BY <1>7, TokenTypes, ServerForgets DEF Token!ServerRestart
<1>8. ASSUME UNCHANGED tokenVars PROVE Token!TokenInv'
  BY <1>8, TokenTypes, ServerForgets DEF tokenVars
<1> QED
  BY <1>1, <1>2, <1>3, <1>4, <1>5, <1>6, <1>7, <1>8 DEF Token!Next

\* The inductive invariant of the tokens, in the behaviours where they run and
\* in those where they rest.
THEOREM TokenInvCorrect == TerminalSpec => []Token!TokenInv
<1>1. TerminalInit => Token!TokenInv
  BY TokenInit DEF TerminalInit
<1>2. Token!TokenInv /\ [TerminalNext]_all => Token!TokenInv'
  <2> SUFFICES ASSUME Token!TokenInv, [TerminalNext]_all PROVE [Token!Next]_tokenVars
    BY TokenStep
  <2> QED
    BY DEF TerminalNext, all, tokenVars
<1> QED
  BY <1>1, <1>2, PTL DEF TerminalSpec

\* However many processes share the file, whatever is lost under way and
\* wherever a process stops: the server revokes a login for a replay only
\* after something of it was lost, overwritten or held twice, and the live
\* pair of any other login is in the file or in the hands of a process.
THEOREM LoginHoldsCorrect == TerminalSpec => []LoginHolds
<1>1. Token!TokenInv => LoginHolds
  BY DEF LoginHolds, Token!TokenInv
<1> QED
  BY <1>1, TokenInvCorrect, PTL
=============================================================================

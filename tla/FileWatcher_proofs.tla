------------------------ MODULE FileWatcher_proofs -------------------------
(***************************************************************************)
(* For any number of callbacks, callers of Stop and changes of the file:   *)
(* the wait group is exact, Stop returns to a quiet watcher, and the store *)
(* follows the file.                                                       *)
(***************************************************************************)
EXTENDS FileWatcher, FiniteSetTheorems, TLAPS

\* Who stops the watcher: nobody before once is taken; watch is over when the
\* first caller waits for the checks, and the checks too when it is done.
StopOrder ==
  /\ once = "untouched" => \A s \in Stoppers : stop[s] = "idle"
  /\ \A s \in Stoppers : stop[s] = "wait" => watch # "running"
  /\ \A s \in Stoppers : stop[s] = "returned" => once = "over"
  /\ once = "over" => watch # "running" /\ checkWG = 0

\* A content recorded is the store's, if the file has it and nothing escaped.
HashSound ==
  /\ setup = "loaded" /\ ~missed => store = file
  /\ ~missed /\ lastHash = file /\ file # Missing => store = file

\* Some callback has yet to read the file.
Looking == \E c \in Callbacks : cb[c].step \in {"lock", "hash", "read"}

\* While the store is behind the file, something will lead to a look at it.
BehindSeen ==
  /\ watch = "running" => setup # "loaded"
  /\ (/\ setup # "loaded" /\ ~done /\ ~missed
      /\ file \notin Unreadable \cup {Missing}
      /\ store # file)
     => event \/ timer = "armed" \/ Looking

WatcherInv == TypeOK /\ CountExact /\ StopOrder /\ HashSound /\ BehindSeen

-----------------------------------------------------------------------------
\* The wait group's count.

\* A callback that comes or goes changes the number of busy ones by one.
LEMMA BusyFinite == IsFiniteSet(Busy) /\ Cardinality(Busy) \in Nat
  BY WatcherAssumption, FS_Subset, FS_CardinalityType DEF Busy

LEMMA BusyGrows ==
  ASSUME NEW c \in Callbacks, c \notin Busy, Busy' = Busy \cup {c}
  PROVE  Cardinality(Busy') = Cardinality(Busy) + 1
  BY BusyFinite, FS_AddElement

LEMMA BusyShrinks ==
  ASSUME NEW c \in Callbacks, c \in Busy, Busy' = Busy \ {c}
  PROVE  Cardinality(Busy') = Cardinality(Busy) - 1
  BY BusyFinite, FS_RemoveElement

\* A callback that leaves is matched by its Done.
LEMMA LeaveCounts ==
  ASSUME TypeOK, CountExact, NEW c \in Callbacks, c \in Busy, Leave(c),
         timer' = timer
  PROVE  CountExact'
<1>1. Busy' = Busy \ {c}
  BY DEF TypeOK, Busy, At, Leave, Idle
<1>2. Cardinality(Busy') = Cardinality(Busy) - 1
  BY <1>1, BusyShrinks
<1>3. QED
  BY <1>2, BusyFinite DEF CountExact, Leave, TypeOK

\* A callback that goes on counts as before.
LEMMA GotoCounts ==
  ASSUME TypeOK, CountExact, NEW c \in Callbacks, c \in Busy,
         NEW step \in Steps \ {"free"}, NEW hash,
         \/ cb' = [cb EXCEPT ![c].step = step]
         \/ cb' = [cb EXCEPT ![c] = [step |-> step, hash |-> hash]],
         checkWG' = checkWG, timer' = timer
  PROVE  CountExact'
<1>1. Busy' = Busy
  BY DEF TypeOK, Busy, At, Steps
<1>2. QED
  BY <1>1 DEF CountExact

\* Every step keeps the count exact.
LEMMA CountStep ==
  ASSUME TypeOK, CountExact, [Next]_vars
  PROVE  CountExact'
<1>1. CASE UNCHANGED <<cb, checkWG, timer>>
  BY <1>1 DEF CountExact, Busy, At
<1>2. CASE ReadEvent \/ SeeDone
  <2>1. Busy' = Busy
    BY <1>2 DEF ReadEvent, SeeDone, Busy, At
  <2>2. QED
    BY <1>2, <2>1, BusyFinite
    DEF ReadEvent, SeeDone, Cancelled, CountExact, TypeOK
<1>3. ASSUME NEW c \in Callbacks, Fire(c)
      PROVE  CountExact'
  <2>1. c \notin Busy /\ Busy' = Busy \cup {c}
    BY <1>3 DEF Fire, Goto, Busy, At, TypeOK
  <2>2. Cardinality(Busy') = Cardinality(Busy) + 1
    BY <2>1, BusyGrows
  <2>3. QED
    BY <1>3, <2>2, BusyFinite DEF Fire, CountExact, TypeOK
<1>4. ASSUME NEW c \in Callbacks, Lock(c)
      PROVE  CountExact'
  <2>1. c \in Busy
    BY <1>4 DEF Lock, Busy, At
  <2>2. QED
    BY <1>4, <2>1, GotoCounts DEF Lock, Goto, Steps
<1>5. ASSUME NEW c \in Callbacks, Hash(c)
      PROVE  CountExact'
  <2>1. c \in Busy /\ timer' = timer
    BY <1>5 DEF Hash, Busy, At
  <2>2. CASE Leave(c)
    BY <2>1, <2>2, LeaveCounts
  <2>3. CASE cb' = [cb EXCEPT ![c] = [step |-> "read", hash |-> file]]
             /\ UNCHANGED checkWG
    BY <2>1, <2>3, GotoCounts DEF Steps
  <2>4. QED
    BY <1>5, <2>2, <2>3 DEF Hash
<1>6. ASSUME NEW c \in Callbacks, Read(c)
      PROVE  CountExact'
  <2>1. c \in Busy /\ timer' = timer
    BY <1>6 DEF Read, Busy, At
  <2>2. CASE Leave(c)
    BY <2>1, <2>2, LeaveCounts
  <2>3. CASE Goto(c, "record") /\ UNCHANGED checkWG
    BY <2>1, <2>3, GotoCounts DEF Goto, Steps
  <2>4. QED
    BY <1>6, <2>2, <2>3 DEF Read
<1>7. ASSUME NEW c \in Callbacks, Record(c)
      PROVE  CountExact'
  <2>1. c \in Busy /\ timer' = timer /\ Leave(c)
    BY <1>7 DEF Record, Busy, At
  <2>2. QED
    BY <2>1, LeaveCounts
<1>8. ASSUME NEW s \in Stoppers, Stop(s) \/ Stopping(s)
      PROVE  UNCHANGED <<cb, checkWG, timer>>
  BY <1>8 DEF Stop, Stopping, AwaitExit, AwaitChecks, AwaitOnce
<1>9. QED
  BY <1>1, <1>2, <1>3, <1>4, <1>5, <1>6, <1>7, <1>8
  DEF Next, Change, NewFileWatcher, Start, Watch, SeeClosed, Check, vars

-----------------------------------------------------------------------------
\* The types.

\* Every step keeps every variable's type.
LEMMA TypeStep ==
  ASSUME TypeOK, [Next]_vars
  PROVE  TypeOK'
<1> USE DEF TypeOK
<1>1. CASE UNCHANGED vars
  BY <1>1 DEF vars
<1>2. ASSUME NEW content \in Contents \cup {Missing}, Change(content)
      PROVE  TypeOK'
  BY <1>2 DEF Change
<1>3. CASE NewFileWatcher \/ Start
  BY <1>3 DEF NewFileWatcher, Start
<1>4. CASE Watch
  <2>1. Cancelled \in Int
    BY DEF Cancelled
  <2>2. CASE ReadEvent
    <3>1. timer' = "armed" /\ checkWG' \in Int /\ event' = FALSE
      BY <2>1, <2>2 DEF ReadEvent
    <3>2. QED
      BY <2>2, <3>1 DEF ReadEvent
  <2>3. CASE SeeDone
    <3>1. timer' \in {"none", "armed", "fired"} /\ checkWG' \in Int
      BY <2>1, <2>3 DEF SeeDone
    <3>2. QED
      BY <2>3, <3>1 DEF SeeDone
  <2>4. CASE SeeClosed
    BY <2>4 DEF SeeClosed
  <2>5. QED
    BY <1>4, <2>2, <2>3, <2>4 DEF Watch
<1>5. ASSUME NEW c \in Callbacks, Check(c)
      PROVE  TypeOK'
  <2>1. ASSUME Leave(c)
        PROVE  /\ mutex' \in Callbacks \cup {Missing}
               /\ checkWG' \in Int
               /\ cb' \in [Callbacks -> [step : Steps, hash : Contents \cup {Missing}]]
    BY <2>1 DEF Leave, Idle, Steps
  <2>2. CASE Fire(c)
    BY <2>2 DEF Fire, Goto, Steps
  <2>3. CASE Lock(c)
    BY <2>3 DEF Lock, Goto, Steps
  <2>4. CASE Hash(c)
    <3>1. cb' \in [Callbacks -> [step : Steps, hash : Contents \cup {Missing}]]
      BY <2>1, <2>4 DEF Hash, Steps
    <3>2. QED
      BY <2>1, <2>4, <3>1 DEF Hash
  <2>5. CASE Read(c)
    <3>1. cb' \in [Callbacks -> [step : Steps, hash : Contents \cup {Missing}]]
      BY <2>1, <2>5 DEF Read, Goto, Steps
    <3>2. QED
      BY <2>1, <2>5, <3>1 DEF Read
  <2>6. CASE Record(c)
    BY <2>1, <2>6 DEF Record
  <2>7. QED
    BY <1>5, <2>2, <2>3, <2>4, <2>5, <2>6 DEF Check
<1>6. ASSUME NEW s \in Stoppers, Stop(s) \/ Stopping(s)
      PROVE  TypeOK'
  <2>1. CASE Stop(s)
    BY ZenonT(30), <2>1 DEF Stop
  <2>2. CASE AwaitExit(s)
    BY <2>2 DEF AwaitExit
  <2>3. CASE AwaitChecks(s)
    BY <2>3 DEF AwaitChecks
  <2>4. CASE AwaitOnce(s)
    BY <2>4 DEF AwaitOnce
  <2>5. QED
    BY <1>6, <2>1, <2>2, <2>3, <2>4 DEF Stopping
<1>7. QED
  BY <1>1, <1>2, <1>3, <1>4, <1>5, <1>6 DEF Next

-----------------------------------------------------------------------------
\* Stop.

\* A counter at zero has nothing to count.
LEMMA ZeroIsQuiet ==
  ASSUME TypeOK, CountExact, checkWG = 0
  PROVE  Busy = {} /\ timer # "armed"
<1>1. timer # "armed" /\ Cardinality(Busy) = 0
  BY BusyFinite DEF CountExact
<1>2. QED
  BY <1>1, BusyFinite, FS_EmptySet

\* Every step keeps the order of Stop.
LEMMA StopStep ==
  ASSUME TypeOK, CountExact, StopOrder, [Next]_vars
  PROVE  StopOrder'
<1>1. CASE UNCHANGED <<watch, checkWG, stop, once>>
  BY <1>1 DEF StopOrder
<1>2. CASE Start
  BY <1>2 DEF Start, StopOrder
<1>3. CASE Watch
  BY <1>3 DEF Watch, ReadEvent, SeeDone, SeeClosed, StopOrder
<1>4. ASSUME NEW c \in Callbacks, Check(c)
      PROVE  StopOrder'
  <2>1. UNCHANGED <<watch, stop, once>>
    BY <1>4 DEF Check, Fire, Lock, Hash, Read, Record
  <2>2. once = "over" => checkWG' = checkWG
    <3>1. SUFFICES ASSUME once = "over" PROVE checkWG' = checkWG
      OBVIOUS
    <3>2. Busy = {} /\ timer # "armed"
      BY <3>1, ZeroIsQuiet DEF StopOrder
    <3>3. QED
      BY <1>4, <3>2 DEF Check, Fire, Lock, Hash, Read, Record, Busy, At
  <2>3. QED
    BY <2>1, <2>2 DEF StopOrder
<1>5. ASSUME NEW s \in Stoppers, Stop(s)
      PROVE  StopOrder'
  BY <1>5 DEF Stop, StopOrder, TypeOK
<1>6. ASSUME NEW s \in Stoppers, Stopping(s)
      PROVE  StopOrder'
  BY <1>6 DEF Stopping, AwaitExit, AwaitChecks, AwaitOnce, StopOrder, TypeOK
<1>7. QED
  BY <1>1, <1>2, <1>3, <1>4, <1>5, <1>6 DEF Next, Change, NewFileWatcher, vars

-----------------------------------------------------------------------------
\* The store and the file.

\* Every step keeps the recorded content true to the store.
LEMMA HashStep ==
  ASSUME TypeOK, HashSound, [Next]_vars
  PROVE  HashSound'
<1>1. CASE UNCHANGED <<file, store, lastHash, setup, missed>>
  BY <1>1 DEF HashSound
<1>2. ASSUME NEW content \in Contents \cup {Missing}, Change(content)
      PROVE  HashSound'
  BY <1>2 DEF Change, HashSound, TypeOK
<1>3. CASE NewFileWatcher \/ Start
  BY <1>3 DEF NewFileWatcher, Start, HashSound
<1>4. ASSUME NEW c \in Callbacks, Read(c) \/ Record(c)
      PROVE  HashSound'
  BY <1>4 DEF Read, Record, HashSound, TypeOK
<1>5. ASSUME NEW c \in Callbacks, Fire(c) \/ Lock(c) \/ Hash(c)
      PROVE  UNCHANGED <<file, store, lastHash, setup, missed>>
  BY <1>5 DEF Fire, Lock, Hash
<1>6. ASSUME NEW s \in Stoppers, Stop(s) \/ Stopping(s)
      PROVE  UNCHANGED <<file, store, lastHash, setup, missed>>
  BY <1>6 DEF Stop, Stopping, AwaitExit, AwaitChecks, AwaitOnce
<1>7. QED
  BY <1>1, <1>2, <1>3, <1>4, <1>5, <1>6
  DEF Next, Watch, ReadEvent, SeeDone, SeeClosed, Check, vars

\* Every step that leaves the store behind the file leaves someone to see it.
LEMMA BehindStep ==
  ASSUME TypeOK, HashSound, BehindSeen, [Next]_vars
  PROVE  BehindSeen'
<1>1. CASE UNCHANGED <<file, store, setup, event, timer, watch, done, cb, missed>>
  BY <1>1 DEF BehindSeen, Looking
<1>2. ASSUME NEW content \in Contents \cup {Missing}, Change(content)
      PROVE  BehindSeen'
  BY <1>2 DEF Change, BehindSeen, TypeOK
<1>3. CASE NewFileWatcher
  BY <1>3 DEF NewFileWatcher, BehindSeen, HashSound
<1>4. CASE Start
  BY <1>4 DEF Start, BehindSeen, Looking
<1>5. CASE Watch
  BY <1>5 DEF Watch, ReadEvent, SeeDone, SeeClosed, BehindSeen, Looking
<1>6. ASSUME NEW c \in Callbacks, Fire(c) \/ Lock(c)
      PROVE  BehindSeen'
  <2>1. cb'[c].step \in {"lock", "hash"}
    BY <1>6 DEF Fire, Lock, Goto, TypeOK
  <2>2. Looking'
    BY <2>1 DEF Looking
  <2>3. QED
    BY <1>6, <2>2 DEF Fire, Lock, BehindSeen
<1>7. ASSUME NEW c \in Callbacks, Hash(c)
      PROVE  BehindSeen'
  <2>1. CASE file \in {Missing, lastHash}
    BY <1>7, <2>1 DEF Hash, BehindSeen, HashSound
  <2>2. CASE file \notin {Missing, lastHash}
    <3>1. cb'[c].step = "read"
      BY <1>7, <2>2 DEF Hash, TypeOK
    <3>2. Looking'
      BY <3>1 DEF Looking
    <3>3. QED
      BY <1>7, <3>2 DEF Hash, BehindSeen
  <2>3. QED
    BY <2>1, <2>2
<1>8. ASSUME NEW c \in Callbacks, Read(c)
      PROVE  BehindSeen'
  BY <1>8 DEF Read, BehindSeen
<1>9. ASSUME NEW c \in Callbacks, Record(c)
      PROVE  BehindSeen'
  <2>1. \A d \in Callbacks \ {c} : cb'[d] = cb[d]
    BY <1>9 DEF Record, Leave, TypeOK
  <2>2. cb[c].step = "record"
    BY <1>9 DEF Record, At
  <2>3. Looking => Looking'
    BY <2>1, <2>2 DEF Looking
  <2>4. QED
    BY <1>9, <2>3 DEF Record, BehindSeen
<1>10. ASSUME NEW s \in Stoppers, Stop(s) \/ Stopping(s)
       PROVE  BehindSeen'
  BY <1>10 DEF Stop, Stopping, AwaitExit, AwaitChecks, AwaitOnce, BehindSeen, Looking
<1>11. QED
  BY <1>1, <1>2, <1>3, <1>4, <1>5, <1>6, <1>7, <1>8, <1>9, <1>10
  DEF Next, Check, vars

-----------------------------------------------------------------------------
\* The theorems.

\* The inductive invariant of the watcher.
THEOREM WatcherInvCorrect == Spec => []WatcherInv
<1>1. Init => WatcherInv
  <2>1. SUFFICES ASSUME Init PROVE WatcherInv
    OBVIOUS
  <2>2. Busy = {}
    BY <2>1 DEF Init, Busy, At, Idle
  <2>3. CountExact
    BY <2>1, <2>2, FS_EmptySet DEF Init, CountExact
  <2>4. TypeOK
    <3>1. cb \in [Callbacks -> [step : Steps, hash : Contents \cup {Missing}]]
      BY <2>1 DEF Init, Idle, Steps
    <3>2. file \in Contents /\ store \in Contents
      BY <2>1, WatcherAssumption DEF Init
    <3>3. changes \in Nat /\ checkWG \in Int
      BY <2>1 DEF Init
    <3>4. QED
      BY <2>1, <3>1, <3>2, <3>3 DEF Init, TypeOK
  <2>5. QED
    BY <2>1, <2>3, <2>4 DEF Init, WatcherInv, StopOrder, HashSound, BehindSeen
<1>2. WatcherInv /\ [Next]_vars => WatcherInv'
  BY TypeStep, CountStep, StopStep, HashStep, BehindStep DEF WatcherInv
<1>3. QED
  BY <1>1, <1>2, PTL DEF Spec

\* The wait group counts the armed timer and the callbacks under way, at every
\* moment, and so no reload comes after any call of Stop has returned
\* (watcher.go:127-206).
THEOREM StopSoundCorrect == Spec => []StopSound
<1>1. WatcherInv => CountExact
  BY DEF WatcherInv
<1>2. WatcherInv => QuietAfterStop
  BY ZeroIsQuiet DEF WatcherInv, StopOrder, QuietAfterStop
<1>3. WatcherInv => StopSound
  BY <1>1, <1>2 DEF StopSound
<1>4. QED
  BY <1>3, WatcherInvCorrect, PTL

\* Nothing pending means that the store has what the file has, unless a change
\* escaped the hash (watcher.go:180-240).
THEOREM StoreFollowsFileCorrect == Spec => []StoreFollowsFile
<1>1. WatcherInv => StoreFollowsFile
  BY DEF WatcherInv, BehindSeen, Looking, StoreFollowsFile, Busy, At
<1>2. QED
  BY <1>1, WatcherInvCorrect, PTL

=============================================================================

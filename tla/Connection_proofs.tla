------------------------- MODULE Connection_proofs -------------------------
(***************************************************************************)
(* One database client, for any number of callers, connections and         *)
(* records. First its metadata reload: no waiter is forgotten, and with    *)
(* EnsureMetadataFor alone one reload is in flight at a time and never     *)
(* puts an older catalogue in the place of a newer one. Then its tools:    *)
(* the pools of a read-only client hold read-only sessions, a reply tells  *)
(* what became of the statement, and nothing is left behind.               *)
(***************************************************************************)
EXTENDS MCConnection, TLAPS

LEMMA LocalType ==
  /\ NoLocal \in Local
  /\ NoLocal.record = None
  /\ 0 \in Schemas
BY ReloadAssumption DEF NoLocal, Local, Schemas, Outcomes

\* The initial state satisfies the invariant.
LEMMA ReloadInit == Init => ReloadInv
<1> SUFFICES ASSUME Init PROVE ReloadInv
  OBVIOUS
<1>1. TypeOK
  BY LocalType DEF Init, TypeOK, PlaceOK, Outcomes, PC
<1>2. Leading = {} /\ Loading = {}
  BY DEF Init, Leading, Loading
<1>3. RecordsOK /\ WaitersLed
  BY <1>2 DEF RecordsOK, WaitersLed, Init
<1>4. LoadersOK
  BY <1>2, ReloadAssumption DEF LoadersOK, OneReload, Init
<1> QED
  BY <1>1, <1>3, <1>4 DEF ReloadInv

\* What a step does to the callers, when only one of them moves.
LEMMA Moved ==
  ASSUME ReloadInv, NEW u \in Callers, NEW place \in PC, NEW l \in Local,
         Goto(u, place, l)
  PROVE  /\ pc' \in [Callers -> PC] /\ req' \in [Callers -> Local]
         /\ pc'[u] = place /\ req'[u] = l
         /\ \A w \in Callers \ {u} : pc'[w] = pc[w] /\ req'[w] = req[w]
BY DEF ReloadInv, TypeOK, Goto

\* A caller moves and remains what it was to its record: its leader, or no
\* one. Its attempt, if it leads one, is still in flight.
SameRole(u, place, l) ==
  LET before == u \in Leading
      after == place \in {"recheck", "load", "query", "rows", "write", "finish",
                         "publish"} /\ l.record # None
  IN  /\ place # "wait"
      /\ before <=> after
      /\ before => l.record = req[u].record /\ place # "publish" /\ pc[u] # "publish"

LEMMA RoleKeeps ==
  ASSUME ReloadInv, NEW u \in Callers, NEW place \in PC, NEW l \in Local,
         Goto(u, place, l), SameRole(u, place, l), UNCHANGED <<reload, outcome>>
  PROVE  Leading' = Leading /\ RecordsOK' /\ WaitersLed'
<1>1. /\ pc'[u] = place /\ req'[u] = l
      /\ \A w \in Callers \ {u} : pc'[w] = pc[w] /\ req'[w] = req[w]
  BY Moved
<1>2. Leading' = Leading
  BY <1>1 DEF Leading, SameRole
<1>3. \A w \in Leading : /\ req'[w].record = req[w].record
                         /\ pc'[w] = "publish" => pc[w] = "publish"
  <2>1. Leading \subseteq Callers
    BY DEF Leading
  <2> QED
    BY <1>1, <2>1 DEF SameRole
<1>4. RecordsOK'
  BY <1>2, <1>3 DEF RecordsOK, ReloadInv
<1>5. ASSUME NEW w \in Callers, pc'[w] = "wait"
      PROVE  pc[w] = "wait" /\ req'[w] = req[w]
  BY <1>1, <1>5 DEF SameRole
<1>6. WaitersLed'
  BY <1>2, <1>3, <1>5 DEF WaitersLed, ReloadInv
<1> QED
  BY <1>2, <1>4, <1>6

\* What such a move needs besides, for the invariant to hold: its own place
\* in order, and, if it brings the caller among those who load or ends a
\* load, what LoadersOK says of it.
LEMMA MoveKeeps ==
  ASSUME ReloadInv, NEW u \in Callers, NEW place \in PC, NEW l \in Local,
         Goto(u, place, l), SameRole(u, place, l),
         place \in {"recheck", "finish", "publish"} => l.record # None,
         place \in {"finish", "publish"} => l.err # "running",
         place = "idle" => l = NoLocal,
         place = "join" => l.record = None,
         schema' \in Schemas, valid' \in BOOLEAN, refreshed' \in Schemas,
         metadata' \in Schemas, UNCHANGED <<reload, outcome, client>>,
         bypasses' \in {0, 1}, bypasses' = 0 => bypasses = 0,
         bypasses' = 0 =>
           /\ place = "load" => u \in Leading
           /\ place \in {"query", "rows", "write"} =>
                u \in Leading /\ \A w \in Loading : w = u
           /\ schema' = schema
           /\ metadata' # metadata => u \in Loading /\ metadata' <= schema
           /\ place \in {"rows", "write"} =>
                metadata' <= l.seen /\ l.seen <= schema
           /\ metadata' # metadata => place \notin {"query", "rows", "write"}
  PROVE  ReloadInv'
<1>1. /\ pc' \in [Callers -> PC] /\ req' \in [Callers -> Local]
      /\ pc'[u] = place /\ req'[u] = l
      /\ \A w \in Callers \ {u} : pc'[w] = pc[w] /\ req'[w] = req[w]
  BY Moved
<1>2. Leading' = Leading /\ RecordsOK' /\ WaitersLed'
  BY RoleKeeps
<1>3. \A w \in Callers : PlaceOK(w)'
  <2>1. PlaceOK(u)'
    BY <1>1 DEF PlaceOK, SameRole
  <2>2. \A w \in Callers \ {u} : PlaceOK(w)'
    BY <1>1 DEF PlaceOK, ReloadInv, TypeOK
  <2> QED
    BY <2>1, <2>2
<1>4. TypeOK'
  BY <1>1, <1>3 DEF TypeOK, ReloadInv
<1>5. ASSUME bypasses' = 0 PROVE LoadersOK'
  <2>1. LoadersOK
    BY <1>5 DEF ReloadInv
  <2>2. \A w \in Callers : w \in Loading' <=>
          IF w = u THEN place \in {"query", "rows", "write"} ELSE w \in Loading
    BY <1>1 DEF Loading
  <2>3. Loading \subseteq Callers /\ Loading' \subseteq Callers
    BY DEF Loading
  <2>4. Loading' \subseteq Leading'
    BY <1>2, <1>5, <2>1, <2>2, <2>3 DEF LoadersOK
  <2>5. \A w \in Callers : pc'[w] = "load" => w \in Leading'
    BY <1>1, <1>2, <1>5, <2>1 DEF LoadersOK
  <2>6. client' # "closed" =>
          \A w \in Leading' : pc'[w] # "publish" => req'[w].record = reload'
    <3>1. \A w \in Leading : /\ req'[w].record = req[w].record
                             /\ pc[w] = "publish" => pc'[w] = "publish"
      BY <1>1 DEF SameRole, Leading
    <3> QED
      BY <1>2, <3>1, <2>1 DEF LoadersOK
  <2>7. OneReload'
    BY <1>5, <2>1, <2>2, <2>3 DEF LoadersOK, OneReload
  <2>8. metadata' <= schema'
    BY <1>5, <2>1 DEF LoadersOK
  <2>9. ASSUME NEW w \in Callers, pc'[w] \in {"rows", "write"}
        PROVE  metadata' <= req'[w].seen /\ req'[w].seen <= schema'
    <3>1. CASE w = u
      BY <1>1, <1>5, <2>9, <3>1
    <3>2. CASE w # u
      <4>1. w \in Loading /\ pc[w] = pc'[w] /\ req'[w] = req[w]
        BY <1>1, <2>9, <3>2 DEF Loading
      <4>2. metadata' = metadata
        BY <1>5, <2>1, <3>2, <4>1 DEF LoadersOK, OneReload
      <4> QED
        BY <1>5, <2>1, <2>9, <4>1, <4>2 DEF LoadersOK
    <3> QED
      BY <3>1, <3>2
  <2> QED
    BY <2>4, <2>5, <2>6, <2>7, <2>8, <2>9 DEF LoadersOK
<1> QED
  BY <1>2, <1>4, <1>5, ReloadAssumption DEF ReloadInv

\* The load is over, for a leader or for a tool that loaded directly.
LEMMA LoadedKeeps ==
  ASSUME ReloadInv, NEW u \in Callers, NEW err \in {"ok", "failed"},
         pc[u] \in {"recheck", "load", "query", "rows", "write"}, Loaded(u, err),
         valid' \in BOOLEAN, refreshed' \in Schemas, metadata' \in Schemas,
         UNCHANGED <<schema, reload, outcome, client, bypasses>>,
         bypasses' = 0 /\ metadata' # metadata =>
           u \in Loading /\ metadata' <= schema
  PROVE  ReloadInv'
<1> DEFINE l == [req[u] EXCEPT !.err = err]
<1>1. /\ req[u] \in Local /\ schema \in Schemas
      /\ bypasses' \in {0, 1} /\ (bypasses' = 0 => bypasses = 0)
  BY DEF ReloadInv, TypeOK
<1>2. l \in Local /\ l.record = req[u].record /\ l.err = err
  BY <1>1 DEF Local, Outcomes
<1>3. {"idle", "finish"} \subseteq PC
  BY DEF PC
<1>4. CASE req[u].record = None
  <2>1. Goto(u, "idle", NoLocal) /\ u \notin Leading
    BY <1>4 DEF Loaded, Return, Leading
  <2>2. SameRole(u, "idle", NoLocal)
    BY <2>1 DEF SameRole
  <2> QED
    BY <1>1, <1>3, <2>1, <2>2, LocalType, MoveKeeps
<1>5. CASE req[u].record # None
  <2>1. Goto(u, "finish", l) /\ u \in Leading
    BY <1>5 DEF Loaded, Leading
  <2> HIDE DEF l
  <2>2. SameRole(u, "finish", l)
    BY <1>2, <1>5, <2>1 DEF SameRole
  <2> QED
    BY <1>1, <1>2, <1>3, <1>5, <2>1, <2>2, MoveKeeps
<1> QED
  BY <1>4, <1>5

LEMMA EnsureKeeps ==
  ASSUME ReloadInv, NEW u \in Callers, Ensure(u)
  PROVE  ReloadInv'
<1>1. "join" \in PC /\ Goto(u, "join", NoLocal) /\ u \notin Leading
  BY DEF PC, Ensure, Leading
<1>2. SameRole(u, "join", NoLocal)
  BY <1>1 DEF SameRole
<1>3. /\ schema' \in Schemas /\ valid' \in BOOLEAN /\ refreshed' \in Schemas
      /\ metadata' \in Schemas /\ bypasses' \in {0, 1}
      /\ bypasses' = 0 => bypasses = 0
  BY DEF Ensure, ReloadInv, TypeOK
<1> QED
  BY <1>1, <1>2, <1>3, LocalType, MoveKeeps DEF Ensure

LEMMA DirectKeeps ==
  ASSUME ReloadInv, NEW u \in Callers, LoadDirectly(u) \/ RefreshAfterDDL(u)
  PROVE  ReloadInv'
<1>1. bypasses' = 1 /\ bypasses' \in {0, 1} /\ "load" \in PC /\ u \notin Leading
  BY DEF PC, LoadDirectly, RefreshAfterDDL, Leading
<1>2. PICK l \in Local : Goto(u, "load", l) /\ l.record = None
  <2>1. CASE LoadDirectly(u)
    BY <2>1, LocalType DEF LoadDirectly
  <2>2. CASE RefreshAfterDDL(u)
    <3> DEFINE l == [NoLocal EXCEPT !.ddl = schema + 1]
    <3>1. schema + 1 \in Schemas
      BY <2>2, ReloadAssumption DEF RefreshAfterDDL, Schemas, ReloadInv, TypeOK
    <3>2. l \in Local /\ l.record = None
      BY <3>1, LocalType DEF Local
    <3>3. Goto(u, "load", l)
      BY <2>2 DEF RefreshAfterDDL
    <3> QED
      BY <3>2, <3>3
  <2> QED
    BY <2>1, <2>2
<1>3. SameRole(u, "load", l)
  BY <1>1, <1>2 DEF SameRole
<1>4. schema' \in Schemas
  BY ReloadAssumption DEF LoadDirectly, RefreshAfterDDL, Schemas, ReloadInv, TypeOK
<1>5. valid' \in BOOLEAN /\ refreshed' \in Schemas /\ metadata' \in Schemas
  BY DEF LoadDirectly, RefreshAfterDDL, ReloadInv, TypeOK
<1>6. UNCHANGED <<reload, outcome, client>>
  BY DEF LoadDirectly, RefreshAfterDDL
<1> QED
  BY <1>1, <1>2, <1>3, <1>4, <1>5, <1>6, MoveKeeps

LEMMA WaitKeeps ==
  ASSUME ReloadInv, NEW u \in Callers, Wait(u)
  PROVE  ReloadInv'
<1>1. "idle" \in PC /\ Goto(u, "idle", NoLocal) /\ u \notin Leading
  BY DEF PC, Wait, Return, Leading
<1>2. SameRole(u, "idle", NoLocal)
  BY <1>1 DEF SameRole
<1>3. /\ schema' \in Schemas /\ valid' \in BOOLEAN /\ refreshed' \in Schemas
      /\ metadata' \in Schemas /\ bypasses' \in {0, 1}
      /\ bypasses' = 0 => bypasses = 0
  BY DEF Wait, ReloadInv, TypeOK
<1> QED
  BY <1>1, <1>2, <1>3, LocalType, MoveKeeps DEF Wait

\* The steps of a load before its result is written.
LEMMA LoadStepKeeps ==
  ASSUME ReloadInv, NEW u \in Callers,
         Recheck(u) \/ Load(u) \/ Query(u) \/ ReadRows(u)
  PROVE  ReloadInv'
<1>1. /\ UNCHANGED <<schema, metadata, valid, reload, outcome, client, refreshed,
                      bypasses>>
      /\ pc[u] \in {"recheck", "load", "query", "rows"}
  BY DEF Recheck, Load, Query, ReadRows
<1>2. /\ schema' \in Schemas /\ valid' \in BOOLEAN /\ refreshed' \in Schemas
      /\ metadata' \in Schemas /\ req[u] \in Local
      /\ bypasses' \in {0, 1} /\ (bypasses' = 0 => bypasses = 0)
  BY <1>1 DEF ReloadInv, TypeOK
<1>3. {"load", "query", "rows", "write"} \subseteq PC
  BY DEF PC
<1>4. CASE \E err \in {"ok", "failed"} : Loaded(u, err)
  BY <1>1, <1>2, <1>4, LoadedKeeps
<1>5. ASSUME NEW place \in {"load", "query", "rows", "write"}
      PROVE  SameRole(u, place, req[u])
  BY <1>1 DEF SameRole, Leading, ReloadInv, TypeOK, PlaceOK
<1>6. bypasses = 0 => LoadersOK
  BY DEF ReloadInv
<1>7. CASE Recheck(u) /\ Goto(u, "load", req[u])
  <2>1. u \in Leading
    BY <1>7 DEF Recheck, Leading, ReloadInv, TypeOK, PlaceOK
  <2> QED
    BY <1>1, <1>2, <1>3, <1>5, <1>7, <2>1, MoveKeeps
<1>8. CASE Load(u) /\ client = "open" /\ Goto(u, "query", req[u])
  <2>1. ASSUME bypasses = 0, NEW w \in Loading PROVE u \in Leading /\ w = u
    <3>1. u \in Leading /\ w \in Leading
      BY <1>6, <1>8, <2>1 DEF LoadersOK, Load
    <3>2. pc[u] # "publish" /\ pc[w] # "publish"
      BY <1>8 DEF Load, Loading
    <3>3. req[u].record = reload /\ req[w].record = reload
      BY <1>6, <1>8, <2>1, <3>1, <3>2 DEF LoadersOK
    <3> QED
      BY <3>1, <3>3 DEF ReloadInv, RecordsOK
  <2>2. bypasses = 0 => u \in Leading
    BY <1>6, <1>8 DEF LoadersOK, Load
  <2> QED
    BY <1>1, <1>2, <1>3, <1>5, <1>8, <2>1, <2>2, MoveKeeps
<1>9. ASSUME pc[u] \in {"query", "rows", "write"}, bypasses = 0
      PROVE  u \in Leading /\ \A w \in Loading : w = u
  BY <1>6, <1>9 DEF LoadersOK, OneReload, Loading
<1>10. CASE Query(u) /\ Goto(u, "rows", [req[u] EXCEPT !.seen = schema])
  <2> DEFINE l == [req[u] EXCEPT !.seen = schema]
  <2>1. l \in Local /\ l.record = req[u].record /\ l.seen = schema
    BY <1>1, <1>2 DEF Local
  <2> HIDE DEF l
  <2>2. SameRole(u, "rows", l)
    BY <1>5, <2>1 DEF SameRole
  <2>3. bypasses = 0 => metadata <= schema
    BY <1>6 DEF LoadersOK
  <2>4. schema <= schema
    BY DEF ReloadInv, TypeOK, Schemas
  <2>5. pc[u] = "query" /\ Goto(u, "rows", l)
    BY <1>10 DEF Query, l
  <2> QED
    BY <1>1, <1>2, <1>3, <1>9, <2>1, <2>2, <2>3, <2>4, <2>5, MoveKeeps
<1>11. CASE ReadRows(u) /\ Goto(u, "write", req[u])
  <2>1. bypasses = 0 => metadata <= req[u].seen /\ req[u].seen <= schema
    BY <1>6, <1>11 DEF LoadersOK, ReadRows
  <2>2. pc[u] = "rows"
    BY <1>11 DEF ReadRows
  <2> QED
    BY <1>1, <1>2, <1>3, <1>5, <1>9, <1>11, <2>1, <2>2, MoveKeeps
<1> QED
  BY <1>4, <1>7, <1>8, <1>10, <1>11 DEF Recheck, Load, Query, ReadRows

LEMMA WriteKeeps ==
  ASSUME ReloadInv, NEW u \in Callers, Write(u)
  PROVE  ReloadInv'
<1>1. req[u] \in Local /\ u \in Loading
  BY DEF ReloadInv, TypeOK, Write, Loading
<1>2. /\ valid' \in BOOLEAN /\ refreshed' \in Schemas /\ metadata' \in Schemas
  BY <1>1 DEF Write, ReloadInv, TypeOK, Local
<1>3. bypasses = 0 /\ metadata' # metadata => metadata' <= schema
  BY DEF Write, ReloadInv, LoadersOK
<1> QED
  BY <1>1, <1>2, <1>3, LoadedKeeps DEF Write

LEMMA JoinKeeps ==
  ASSUME ReloadInv, NEW u \in Callers, Join(u)
  PROVE  ReloadInv'
<1>1. /\ req[u] \in Local /\ u \notin Leading /\ u \notin Loading
      /\ req[u].record = None /\ None \notin Records
  BY ReloadAssumption
  DEF ReloadInv, TypeOK, PlaceOK, Join, Leading, Loading
<1>2. {"wait", "recheck"} \subseteq PC
  BY DEF PC
<1>3. PICK a \in Records :
        LET l == [req[u] EXCEPT !.record = a] IN
        \/ a = reload /\ Goto(u, "wait", l) /\ UNCHANGED <<reload, outcome>>
        \/ /\ a \in Free /\ reload = None /\ reload' = a
           /\ outcome' = [outcome EXCEPT ![a] = "running"]
           /\ Goto(u, "recheck", l)
  BY DEF Join, Free, ReloadInv, TypeOK
<1> DEFINE l == [req[u] EXCEPT !.record = a]
<1>4. l \in Local /\ l.record = a
  BY <1>1 DEF Local
<1>5. \/ a = reload /\ Goto(u, "wait", l) /\ UNCHANGED <<reload, outcome>>
      \/ /\ a \in Free /\ reload = None /\ reload' = a
         /\ outcome' = [outcome EXCEPT ![a] = "running"]
         /\ Goto(u, "recheck", l)
  BY <1>3
<1> HIDE DEF l
<1>6. /\ pc' \in [Callers -> PC] /\ req' \in [Callers -> Local]
      /\ pc'[u] \in {"wait", "recheck"} /\ req'[u] = l
      /\ \A w \in Callers \ {u} : pc'[w] = pc[w] /\ req'[w] = req[w]
  BY <1>2, <1>4, <1>5, Moved
<1>7. TypeOK'
  <2>1. reload' \in Records \cup {None} /\ outcome' \in [Records -> Outcomes]
    BY <1>5 DEF ReloadInv, TypeOK, Outcomes
  <2>2. \A w \in Callers : PlaceOK(w)'
    BY <1>1, <1>4, <1>6 DEF PlaceOK, ReloadInv, TypeOK
  <2> QED
    BY <1>6, <2>1, <2>2 DEF TypeOK, ReloadInv, Join
<1>8. Loading' = Loading
  BY <1>1, <1>6 DEF Loading
<1>9. CASE a = reload /\ Goto(u, "wait", l) /\ UNCHANGED <<reload, outcome>>
  <2>1. pc'[u] = "wait"
    BY <1>2, <1>4, <1>9, Moved
  <2>2. Leading' = Leading
    BY <1>1, <1>6, <2>1 DEF Leading
  <2>3. \A w \in Leading : w \in Callers /\ pc'[w] = pc[w] /\ req'[w] = req[w]
    BY <1>1, <1>6 DEF Leading
  <2>4. RecordsOK'
    BY <1>9, <2>2, <2>3 DEF ReloadInv, RecordsOK
  <2>5. WaitersLed'
    <3> SUFFICES ASSUME NEW w \in Callers, pc'[w] = "wait",
                        outcome[req'[w].record] = "running"
                 PROVE  \E v \in Leading : req[v].record = req'[w].record
      BY <1>9, <2>2, <2>3 DEF WaitersLed
    <3>1. CASE w = u
      BY <1>1, <1>4, <1>6, <1>9, <3>1 DEF ReloadInv, RecordsOK
    <3>2. CASE w # u
      BY <1>6, <3>2 DEF ReloadInv, WaitersLed
    <3> QED
      BY <3>1, <3>2
  <2>6. LoadersOK => LoadersOK'
    BY <1>6, <1>8, <1>9, <2>1, <2>2, <2>3 DEF LoadersOK, OneReload, Join, Loading
  <2> QED
    BY <1>7, <2>4, <2>5, <2>6, ReloadAssumption DEF ReloadInv, Join
<1>10. CASE /\ a \in Free /\ reload = None /\ reload' = a
            /\ outcome' = [outcome EXCEPT ![a] = "running"]
            /\ Goto(u, "recheck", l)
  <2>1. pc'[u] = "recheck"
    BY <1>2, <1>4, <1>10, Moved
  <2>2. Leading' = Leading \cup {u}
    BY <1>1, <1>4, <1>6, <2>1 DEF Leading
  <2>3. \A w \in Leading :
          w \in Callers /\ w # u /\ pc'[w] = pc[w] /\ req'[w] = req[w]
            /\ req[w].record # a
    BY <1>1, <1>6, <1>10 DEF Leading, Free
  <2>4. \A b \in Records : outcome'[b] = IF b = a THEN "running" ELSE outcome[b]
    BY <1>10 DEF ReloadInv, TypeOK
  <2>5. RecordsOK'
    <3>1. \A v, w \in Leading' : req'[v].record = req'[w].record => v = w
      BY <1>4, <1>6, <2>2, <2>3 DEF ReloadInv, RecordsOK
    <3>2. \A w \in Leading' : outcome'[req'[w].record] = "running"
      <4>1. \A w \in Leading : req[w].record \in Records
        BY DEF Leading, ReloadInv, TypeOK, Local
      <4> QED
        BY <1>4, <1>6, <2>2, <2>3, <2>4, <4>1 DEF ReloadInv, RecordsOK
    <3>3. u \in Leading' /\ pc'[u] # "publish" /\ req'[u].record = reload'
      BY <1>4, <1>6, <1>10, <2>1, <2>2
    <3> QED
      BY <3>1, <3>2, <3>3 DEF RecordsOK
  <2>6. WaitersLed'
    <3> SUFFICES ASSUME NEW w \in Callers, pc'[w] = "wait",
                        outcome'[req'[w].record] = "running"
                 PROVE  \E v \in Leading' : req'[v].record = req'[w].record
      BY DEF WaitersLed
    <3>1. w # u /\ pc[w] = "wait" /\ req'[w] = req[w]
      BY <1>6, <2>1
    <3>2. req[w].record \in Records /\ req[w].record # a
      BY <1>10, <3>1 DEF Free, ReloadInv, TypeOK, PlaceOK, Local
    <3>3. outcome[req[w].record] = "running"
      BY <2>4, <3>1, <3>2
    <3> QED
      BY <2>2, <2>3, <3>1, <3>3 DEF ReloadInv, WaitersLed
  <2>7. ASSUME bypasses = 0 PROVE LoadersOK'
    <3>1. LoadersOK
      BY <2>7 DEF ReloadInv
    <3>2. client' = client /\ schema' = schema /\ metadata' = metadata
      BY DEF Join
    <3>3. client' # "closed" =>
            \A w \in Leading' : pc'[w] # "publish" => req'[w].record = reload'
      <4> SUFFICES ASSUME client # "closed", NEW w \in Leading, pc[w] # "publish"
                   PROVE  FALSE
        BY <1>4, <1>6, <1>10, <2>2, <2>3, <3>2
      <4>1. req[w].record = None
        BY <1>10, <3>1 DEF LoadersOK
      <4> QED
        BY <4>1 DEF Leading
    <3>4. \A w \in Callers : pc'[w] = "load" => w \in Leading'
      BY <1>6, <2>1, <2>2, <3>1 DEF LoadersOK
    <3>5. \A w \in Callers : pc'[w] \in {"rows", "write"} =>
            metadata <= req'[w].seen /\ req'[w].seen <= schema
      BY <1>6, <2>1, <3>1 DEF LoadersOK
    <3>6. OneReload' /\ Loading' \subseteq Leading'
      BY <1>8, <2>2, <2>7, <3>1 DEF LoadersOK, OneReload, Join
    <3> QED
      BY <3>1, <3>2, <3>3, <3>4, <3>5, <3>6 DEF LoadersOK
  <2> QED
    BY <1>7, <2>5, <2>6, <2>7, ReloadAssumption DEF ReloadInv, Join
<1> QED
  BY <1>5, <1>9, <1>10

LEMMA FinishKeeps ==
  ASSUME ReloadInv, NEW u \in Callers, FinishReload(u)
  PROVE  ReloadInv'
<1>1. req[u] \in Local /\ u \in Leading /\ pc[u] = "finish" /\ "publish" \in PC
  BY DEF ReloadInv, TypeOK, PlaceOK, FinishReload, Leading, PC
<1>2. /\ pc' \in [Callers -> PC] /\ req' \in [Callers -> Local]
      /\ pc'[u] = "publish" /\ req'[u] = req[u]
      /\ \A w \in Callers \ {u} : pc'[w] = pc[w] /\ req'[w] = req[w]
  BY <1>1, Moved DEF FinishReload
<1>3. Leading' = Leading /\ Loading' = Loading /\ u \notin Loading
  BY <1>1, <1>2 DEF Leading, Loading
<1>4. TypeOK'
  <2>1. \A w \in Callers : PlaceOK(w)'
    BY <1>1, <1>2 DEF PlaceOK, ReloadInv, TypeOK
  <2> QED
    BY <1>2, <2>1 DEF TypeOK, ReloadInv, FinishReload
<1>5. \A w \in Callers : req'[w] = req[w] /\ (w # u => pc'[w] = pc[w])
  BY <1>2
<1>6. Leading \subseteq Callers
  BY DEF Leading
<1>7. RecordsOK'
  <2>1. reload' # None =>
          \E w \in Leading : pc'[w] # "publish" /\ req'[w].record = reload'
    <3> SUFFICES ASSUME reload' # None
                 PROVE  \E w \in Leading : pc'[w] # "publish" /\ req'[w].record = reload'
      OBVIOUS
    <3>1. reload' = reload /\ reload # req[u].record
      BY DEF FinishReload
    <3>2. PICK w \in Leading : pc[w] # "publish" /\ req[w].record = reload
      BY <3>1 DEF ReloadInv, RecordsOK
    <3> QED
      BY <1>5, <1>6, <3>1, <3>2
  <2> QED
    BY <1>3, <1>5, <1>6, <2>1 DEF ReloadInv, RecordsOK, FinishReload
<1>8. WaitersLed'
  BY <1>2, <1>3, <1>5, <1>6 DEF ReloadInv, WaitersLed, FinishReload
<1>9. ASSUME bypasses = 0 PROVE LoadersOK'
  <2>1. LoadersOK
    BY <1>9 DEF ReloadInv
  <2>2. client' # "closed" =>
          \A w \in Leading' : pc'[w] # "publish" => req'[w].record = reload'
    <3> SUFFICES ASSUME client # "closed", NEW w \in Leading, pc'[w] # "publish"
                 PROVE  req[w].record = reload'
      BY <1>3, <1>5, <1>6 DEF FinishReload
    <3>1. w # u /\ pc[w] # "publish" /\ req[w].record = reload
      BY <1>2, <1>6, <2>1 DEF LoadersOK
    <3>2. req[u].record = reload
      BY <1>1, <2>1 DEF LoadersOK
    <3>3. w = u
      BY <1>1, <3>1, <3>2 DEF ReloadInv, RecordsOK
    <3> QED
      BY <3>1, <3>3
  <2>3. \A w \in Callers : pc'[w] = "load" => w \in Leading'
    BY <1>2, <1>3, <2>1 DEF LoadersOK
  <2>4. \A w \in Callers : pc'[w] \in {"rows", "write"} =>
          metadata <= req'[w].seen /\ req'[w].seen <= schema
    BY <1>2, <2>1 DEF LoadersOK
  <2> QED
    BY <1>3, <2>1, <2>2, <2>3, <2>4 DEF LoadersOK, OneReload, FinishReload
<1> QED
  BY <1>4, <1>7, <1>8, <1>9, ReloadAssumption DEF ReloadInv, FinishReload

LEMMA PublishKeeps ==
  ASSUME ReloadInv, NEW u \in Callers, Publish(u)
  PROVE  ReloadInv'
<1>1. /\ u \in Leading /\ u \notin Loading /\ pc[u] = "publish" /\ "idle" \in PC
      /\ req[u].record \in Records /\ req[u].err \in {"ok", "failed"}
  BY DEF ReloadInv, TypeOK, PlaceOK, Publish, Leading, Loading, PC, Local, Outcomes
<1>2. /\ pc' \in [Callers -> PC] /\ req' \in [Callers -> Local]
      /\ pc'[u] = "idle" /\ req'[u] = NoLocal
      /\ \A w \in Callers \ {u} : pc'[w] = pc[w] /\ req'[w] = req[w]
  BY <1>1, Moved, LocalType DEF Publish, Return
<1>3. Leading' = Leading \ {u} /\ Loading' = Loading
  BY <1>1, <1>2, LocalType DEF Leading, Loading
<1>4. TypeOK'
  <2>1. \A w \in Callers : PlaceOK(w)'
    BY <1>2, LocalType DEF PlaceOK, ReloadInv, TypeOK
  <2>2. outcome' \in [Records -> Outcomes]
    BY <1>1 DEF Publish, ReloadInv, TypeOK, Outcomes
  <2> QED
    BY <1>2, <2>1, <2>2 DEF TypeOK, ReloadInv, Publish
<1>5. \A b \in Records : b # req[u].record => outcome'[b] = outcome[b]
  BY DEF Publish, ReloadInv, TypeOK
<1>6. outcome'[req[u].record] # "running"
  BY <1>1 DEF Publish, ReloadInv, TypeOK
<1>7. \A w \in Leading' :
        /\ w \in Leading /\ pc'[w] = pc[w] /\ req'[w] = req[w]
        /\ req[w].record \in Records /\ req[w].record # req[u].record
  <2>1. Leading \subseteq Callers
    BY DEF Leading
  <2>2. \A w \in Leading : req[w].record \in Records
    BY DEF Leading, ReloadInv, TypeOK, Local
  <2> QED
    BY <1>1, <1>2, <1>3, <2>1, <2>2 DEF ReloadInv, RecordsOK
<1>8. RecordsOK'
  <2>1. reload # None => \E w \in Leading' : pc[w] # "publish" /\ req[w].record = reload
    BY <1>1, <1>3 DEF ReloadInv, RecordsOK
  <2> QED
    BY <1>5, <1>7, <2>1 DEF ReloadInv, RecordsOK, Publish
<1>9. WaitersLed'
  <2> SUFFICES ASSUME NEW w \in Callers, pc'[w] = "wait",
                      outcome'[req'[w].record] = "running"
               PROVE  \E v \in Leading' : req'[v].record = req'[w].record
    BY DEF WaitersLed
  <2>1. w # u /\ pc[w] = "wait" /\ req'[w] = req[w]
    BY <1>2
  <2>2. req[w].record \in Records /\ req[w].record # req[u].record
    BY <1>6, <2>1 DEF ReloadInv, TypeOK, PlaceOK, Local
  <2>3. PICK v \in Leading : req[v].record = req[w].record
    BY <1>5, <2>1, <2>2 DEF ReloadInv, WaitersLed
  <2> QED
    BY <1>3, <1>7, <2>1, <2>2, <2>3
<1>10. ASSUME bypasses = 0 PROVE LoadersOK'
  <2>1. LoadersOK
    BY <1>10 DEF ReloadInv
  <2>2. Loading' \subseteq Leading'
    BY <1>1, <1>3, <2>1 DEF LoadersOK
  <2>3. \A w \in Callers : pc'[w] = "load" => w \in Leading'
    BY <1>2, <1>3, <2>1 DEF LoadersOK
  <2>4. client' # "closed" =>
          \A w \in Leading' : pc'[w] # "publish" => req'[w].record = reload'
    BY <1>7, <2>1 DEF LoadersOK, Publish
  <2>5. \A w \in Callers : pc'[w] \in {"rows", "write"} =>
          metadata <= req'[w].seen /\ req'[w].seen <= schema
    BY <1>2, <2>1 DEF LoadersOK
  <2> QED
    BY <1>3, <2>1, <2>2, <2>3, <2>4, <2>5 DEF LoadersOK, OneReload, Publish
<1> QED
  BY <1>4, <1>8, <1>9, <1>10, ReloadAssumption DEF ReloadInv, Publish

\* The catalogue, the clock and Close move no caller.
LEMMA OutsideKeeps ==
  ASSUME ReloadInv, Expire \/ Alter \/ Close \/ Closed \/ UNCHANGED vars
  PROVE  ReloadInv'
<1>1. UNCHANGED <<pc, req, outcome, metadata, refreshed, bypasses>>
  BY DEF Expire, Alter, Close, Closed, vars
<1>2. Leading' = Leading /\ Loading' = Loading
  BY <1>1 DEF Leading, Loading
<1>3. /\ schema' \in Schemas /\ schema <= schema' /\ valid' \in BOOLEAN
      /\ client' \in {"open", "closing", "closed"}
      /\ reload' = reload \/ (reload' = None /\ client' = "closed")
      /\ client' # "closed" => reload' = reload /\ client # "closed"
  <2>1. /\ schema \in Schemas /\ valid \in BOOLEAN
        /\ client \in {"open", "closing", "closed"}
    BY DEF ReloadInv, TypeOK
  <2>2. schema <= schema
    BY <2>1 DEF Schemas
  <2>3. CASE Alter
    <3>1. schema' \in Schemas /\ schema <= schema'
      BY <2>1, <2>3, ReloadAssumption DEF Alter, Schemas
    <3> QED
      BY <2>1, <2>3, <3>1 DEF Alter
  <2>4. CASE Expire
    BY <2>1, <2>2, <2>4 DEF Expire
  <2>5. CASE Close
    BY <2>1, <2>2, <2>5 DEF Close
  <2>6. CASE Closed
    BY <2>1, <2>2, <2>6 DEF Closed
  <2>7. CASE UNCHANGED vars
    BY <2>1, <2>2, <2>7 DEF vars
  <2> QED
    BY <2>3, <2>4, <2>5, <2>6, <2>7
<1>4. TypeOK'
  BY <1>1, <1>3 DEF ReloadInv, TypeOK, PlaceOK
<1>5. RecordsOK' /\ WaitersLed'
  BY <1>1, <1>2, <1>3 DEF ReloadInv, RecordsOK, WaitersLed
<1>6. ASSUME bypasses = 0 PROVE LoadersOK'
  <2>1. LoadersOK
    BY <1>6 DEF ReloadInv
  <2>2. schema \in Nat /\ schema' \in Nat /\ metadata \in Nat
        /\ \A w \in Callers : req[w].seen \in Nat
    BY <1>3 DEF ReloadInv, TypeOK, Schemas, Local
  <2>3. metadata' <= schema'
    BY <1>1, <1>3, <2>1, <2>2 DEF LoadersOK
  <2>4. \A w \in Callers : pc'[w] \in {"rows", "write"} =>
          metadata' <= req'[w].seen /\ req'[w].seen <= schema'
    BY <1>1, <1>3, <2>1, <2>2 DEF LoadersOK
  <2>5. client' # "closed" =>
          \A w \in Leading' : pc'[w] # "publish" => req'[w].record = reload'
    BY <1>1, <1>2, <1>3, <2>1 DEF LoadersOK
  <2> QED
    BY <1>1, <1>2, <2>1, <2>3, <2>4, <2>5 DEF LoadersOK, OneReload
<1> QED
  BY <1>1, <1>4, <1>5, <1>6, ReloadAssumption DEF ReloadInv

(***************************************************************************)
(* The theorems.                                                           *)
(***************************************************************************)

\* The invariant is inductive.
LEMMA ReloadNext == ReloadInv /\ [Next]_vars => ReloadInv'
<1> SUFFICES ASSUME ReloadInv, [Next]_vars PROVE ReloadInv'
  OBVIOUS
<1>1. ASSUME NEW u \in Callers, Ensure(u) \/ LoadDirectly(u) \/ RefreshAfterDDL(u)
      PROVE  ReloadInv'
  BY <1>1, EnsureKeeps, DirectKeeps
<1>2. ASSUME NEW u \in Callers, Step(u) PROVE ReloadInv'
  BY <1>2, JoinKeeps, LoadStepKeeps, FinishKeeps, PublishKeeps, WaitKeeps,
     WriteKeeps DEF Step
<1>3. ASSUME Expire \/ Alter \/ Close \/ Closed \/ UNCHANGED vars PROVE ReloadInv'
  BY <1>3, OutsideKeeps
<1> QED
  BY <1>1, <1>2, <1>3 DEF Next

\* The invariant holds in every reachable state.
THEOREM ReloadInvCorrect == Spec => []ReloadInv
BY ReloadInit, ReloadNext, PTL DEF Spec

\* Every variable keeps its type, and every caller its record.
THEOREM ReloadTypeCorrect == Spec => []TypeOK
BY ReloadInvCorrect, PTL DEF ReloadInv

\* Whoever waits, waits for a leader that has yet to publish, with or without
\* direct loads, errors and Close.
THEOREM WaitersLedCorrect == Spec => []WaitersLed
BY ReloadInvCorrect, PTL DEF ReloadInv

\* Where every caller goes through EnsureMetadataFor, one reload of the
\* connection is in flight at a time, even across Close.
THEOREM OneReloadCorrect == Spec => []OneReload
<1>1. ReloadInv => OneReload
  BY DEF ReloadInv, LoadersOK, OneReload, TypeOK
<1> QED
  BY <1>1, ReloadInvCorrect, PTL

\* And no reload puts an older catalogue in the place of a newer one.
THEOREM NeverOlderCorrect == Spec => NeverOlder
<1>1. ASSUME ReloadInv, [Next]_vars
      PROVE  [bypasses = 1 \/ metadata' >= metadata]_vars
  <2>1. CASE \E u \in Callers : Write(u)
    <3>1. PICK u \in Callers : Write(u)
      BY <2>1
    <3>2. /\ req[u].seen \in Nat /\ metadata \in Nat
          /\ bypasses = 0 => metadata <= req[u].seen
      BY <1>1, <3>1 DEF Write, ReloadInv, TypeOK, LoadersOK, Local, Schemas
    <3>3. bypasses \in {0, 1} /\ metadata >= metadata
      BY <1>1, <3>2 DEF ReloadInv, TypeOK
    <3> QED
      BY <3>1, <3>2, <3>3 DEF Write
  <2>2. CASE metadata' = metadata
    BY <1>1, <2>2 DEF ReloadInv, TypeOK, Schemas
  <2> QED
    BY <1>1, <2>1, <2>2
    DEF Next, Step, Ensure, LoadDirectly, RefreshAfterDDL, Join, Recheck,
        FinishReload, Publish, Wait, Load, Query, ReadRows, Expire, Alter,
        Close, Closed, vars
<1> QED
  BY <1>1, ReloadInvCorrect, PTL DEF Spec, NeverOlder

(***************************************************************************)
(* The tools: how one call moves                                           *)
(***************************************************************************)

LEMMA NewCallOK ==
  ASSUME NEW tool \in Tool!Tools, NEW stmt \in Tool!Stmts, NEW pool \in Tool!Pools,
         NEW d \in BOOLEAN
  PROVE  Tool!NewCall(tool, stmt, pool, d) \in Tool!Local
BY DEF Tool!NewCall, Tool!Local

\* What is left of a call keeps what it did and whether it was to write.
LEMMA OverOK ==
  ASSUME NEW c \in Tool!Local
  PROVE  /\ Tool!Over(c) \in Tool!Local
         /\ Tool!Over(c).applied = c.applied /\ Tool!Over(c).lost = c.lost
         /\ Tool!Writing(Tool!Over(c).stmt) <=> Tool!Writing(c.stmt)
         /\ Tool!Over(c).stmt = "commits" <=> c.stmt = "commits"
         /\ ~Tool!Over(c).asDefault /\ Tool!Over(c).conn = None /\ Tool!Over(c).pending = {}
<1> DEFINE n == Tool!NewCall("query", Tool!Kind(c.stmt), "main", FALSE)
<1>1. n \in Tool!Local
  BY NewCallOK DEF Tool!Tools, Tool!Stmts, Tool!Pools, Tool!Kind
<1>2. Tool!Over(c) = [n EXCEPT !.applied = c.applied, !.lost = c.lost]
  BY DEF Tool!Over
<1>3. n.stmt = Tool!Kind(c.stmt) /\ n.asDefault = FALSE
      /\ n.conn = None /\ n.pending = {}
  BY DEF Tool!NewCall
<1> QED
  BY <1>1, <1>2, <1>3 DEF Tool!Local, Tool!Writing, Tool!Stmts, Tool!Kind

\* A call that has been answered is consistent, if the answer tells its effect.
LEMMA AnswerOK ==
  ASSUME NEW c \in Tool!Local, NEW what \in {"ok", "failed", "refused"},
         what = "ok" => (c.applied <=> Tool!Writing(c.stmt)),
         what = "refused" => ~c.applied,
         what = "failed" => ~c.applied \/ c.lost \/ c.stmt = "commits"
  PROVE  Tool!Consistent("idle", Tool!Over(c), what)
BY OverOK DEF Tool!Consistent, Tool!InOrder, Tool!Working, Tool!Before

\* The types of what the calls share.
SharedOK ==
  /\ allowWrites \in BOOLEAN
  /\ mu \in Callers \cup {None}
  /\ known \in SUBSET Tool!Pools
  /\ default \in Tool!Pools
  /\ loaded \in SUBSET Tool!Pools
  /\ conn \in [Tool!Conns -> Tool!ConnStates]
  /\ leftover \in BOOLEAN
  /\ calls \in 0 .. MaxCalls

\* One call moves.
Moves(u, place, c, what) ==
  /\ toolPc' = [toolPc EXCEPT ![u] = place]
  /\ call' = [call EXCEPT ![u] = c]
  /\ reply' = [reply EXCEPT ![u] = what]

LEMMA ToolMoveKeeps ==
  ASSUME Tool!ToolInv, SharedOK', NEW u \in Callers, NEW place \in Tool!PC, NEW c \in Tool!Local,
         NEW what \in Tool!Replies, Moves(u, place, c, what), Tool!Consistent(place, c, what)
  PROVE  /\ Tool!TypeOK' /\ Tool!CallsOK'
         /\ toolPc'[u] = place /\ call'[u] = c /\ reply'[u] = what
         /\ \A v \in Callers \ {u} :
              toolPc'[v] = toolPc[v] /\ call'[v] = call[v] /\ reply'[v] = reply[v]
<1>1. Tool!TypeOK'
  BY DEF Tool!ToolInv, Tool!TypeOK, SharedOK, Moves
<1>2. /\ toolPc'[u] = place /\ call'[u] = c /\ reply'[u] = what
      /\ \A v \in Callers \ {u} :
           toolPc'[v] = toolPc[v] /\ call'[v] = call[v] /\ reply'[v] = reply[v]
  BY DEF Tool!ToolInv, Tool!TypeOK, Moves
<1>3. Tool!CallsOK'
  BY <1>2 DEF Tool!ToolInv, Tool!CallsOK
<1> QED
  BY <1>1, <1>2, <1>3

\* A call that neither takes nor gives back a connection, nor touches a pool.
LEMMA QuietKeeps ==
  ASSUME Tool!ToolInv, NEW u \in Callers, NEW place \in Tool!PC, NEW c \in Tool!Local,
         NEW what \in Tool!Replies, Moves(u, place, c, what), Tool!Consistent(place, c, what),
         UNCHANGED <<allowWrites, known, conn, leftover>>,
         mu' \in {mu, None, u}, mu \in {None, u} \/ mu' = mu,
         default' \in known, loaded' \in SUBSET Tool!Pools, calls' \in 0 .. MaxCalls,
         c.conn = call[u].conn,
         place = "connecting" => mu' = u /\ c.pool \notin known,
         place \notin {"idle", "connect", "connecting"} => c.pool \in known
  PROVE  Tool!ToolInv'
<1>1. SharedOK'
  BY DEF Tool!ToolInv, Tool!TypeOK, SharedOK
<1>2. /\ Tool!TypeOK' /\ Tool!CallsOK'
      /\ toolPc'[u] = place /\ call'[u] = c
      /\ \A v \in Callers \ {u} : toolPc'[v] = toolPc[v] /\ call'[v] = call[v]
  BY <1>1, ToolMoveKeeps
<1>3. Tool!HeldOK'
  BY <1>2 DEF Tool!ToolInv, Tool!HeldOK
<1>4. Tool!PoolsOK'
  BY <1>2, ToolAssumption DEF Tool!ToolInv, Tool!PoolsOK
<1> QED
  BY <1>2, <1>3, <1>4 DEF Tool!ToolInv, Tool!PooledReadOnly, Tool!NoFunctionLeft

\* A call gives its connection back to the pool or loses it.
LEMMA GiveKeeps ==
  ASSUME Tool!ToolInv, NEW u \in Callers, NEW place \in Tool!PC, NEW c \in Tool!Local,
         NEW what \in Tool!Replies, Moves(u, place, c, what), Tool!Consistent(place, c, what),
         call[u].conn \in Tool!Conns, c.conn = None, c.pool = call[u].pool \/ place = "idle",
         toolPc[u] \notin {"idle", "connect", "connecting"},
         place # "connecting",
         NEW x \in Tool!ConnStates, x.state # "busy",
         ~allowWrites /\ x.state = "idle" => x.session = "ro",
         conn' = [conn EXCEPT ![call[u].conn] = x], leftover' = FALSE,
         UNCHANGED <<allowWrites, mu, known, default, loaded, calls>>
  PROVE  Tool!ToolInv'
<1>1. conn \in [Tool!Conns -> Tool!ConnStates]
  BY DEF Tool!ToolInv, Tool!TypeOK
<1>2. conn' \in [Tool!Conns -> Tool!ConnStates] /\ conn'[call[u].conn] = x
      /\ \A d \in Tool!Conns \ {call[u].conn} : conn'[d] = conn[d]
  BY <1>1
<1>3. SharedOK'
  BY <1>2 DEF Tool!ToolInv, Tool!TypeOK, SharedOK
<1>4. /\ Tool!TypeOK' /\ Tool!CallsOK'
      /\ toolPc'[u] = place /\ call'[u] = c
      /\ \A v \in Callers \ {u} : toolPc'[v] = toolPc[v] /\ call'[v] = call[v]
  BY <1>3, ToolMoveKeeps
<1>5. \A v \in Callers : call[v] \in Tool!Local
  BY DEF Tool!ToolInv, Tool!TypeOK
<1>6. conn[call[u].conn].state = "busy"
      /\ \A v \in Callers \ {u} : call[v].conn # call[u].conn
  BY ToolAssumption DEF Tool!ToolInv, Tool!HeldOK
<1>7. Tool!HeldOK'
  <2>1. ASSUME NEW v \in Callers, call'[v].conn # None
        PROVE  /\ conn'[call'[v].conn].state = "busy"
               /\ \A w \in Callers \ {v} : call'[w].conn # call'[v].conn
    <3>1. v # u /\ call'[v] = call[v] /\ call[v].conn \in Tool!Conns \ {call[u].conn}
      BY <1>4, <1>5, <1>6, <2>1 DEF Tool!Local
    <3>2. conn'[call[v].conn] = conn[call[v].conn]
      BY <1>2, <3>1
    <3> QED
      BY <1>4, <2>1, <3>1, <3>2 DEF Tool!ToolInv, Tool!HeldOK
  <2>2. ASSUME NEW d \in Tool!Conns, conn'[d].state = "busy"
        PROVE  \E v \in Callers : call'[v].conn = d
    <3>1. d # call[u].conn /\ conn[d].state = "busy"
      BY <1>2, <2>2
    <3>2. PICK v \in Callers : call[v].conn = d
      BY <3>1 DEF Tool!ToolInv, Tool!HeldOK
    <3> QED
      BY <1>4, <3>1, <3>2
  <2> QED
    BY <2>1, <2>2 DEF Tool!HeldOK
<1>8. Tool!PoolsOK'
  <2>1. call[u].pool \in known /\ call[u].conn[1] \in known
    BY <1>6 DEF Tool!ToolInv, Tool!PoolsOK
  <2>2. ASSUME NEW d \in Tool!Conns, d[1] \notin known PROVE conn'[d].state = "none"
    BY <1>2, <2>1, <2>2 DEF Tool!ToolInv, Tool!PoolsOK
  <2> QED
    BY <1>4, <2>1, <2>2 DEF Tool!ToolInv, Tool!PoolsOK
<1>9. Tool!PooledReadOnly'
  BY <1>2 DEF Tool!ToolInv, Tool!PooledReadOnly
<1> QED
  BY <1>4, <1>7, <1>8, <1>9 DEF Tool!ToolInv, Tool!NoFunctionLeft

\* A call takes a connection that nobody has.
LEMMA TakeKeeps ==
  ASSUME Tool!ToolInv, NEW u \in Callers, NEW place \in Tool!PC, NEW c \in Tool!Local,
         NEW what \in Tool!Replies, Moves(u, place, c, what), Tool!Consistent(place, c, what),
         call[u].conn = None, place \notin {"idle", "connect", "connecting"},
         NEW d \in Tool!Conns, conn[d].state # "busy", c.conn = d, c.pool = d[1], d[1] \in known,
         NEW x \in Tool!ConnStates, x.state = "busy", conn' = [conn EXCEPT ![d] = x],
         UNCHANGED <<allowWrites, mu, known, default, loaded, leftover, calls>>
  PROVE  Tool!ToolInv'
<1>1. conn \in [Tool!Conns -> Tool!ConnStates]
  BY DEF Tool!ToolInv, Tool!TypeOK
<1>2. conn' \in [Tool!Conns -> Tool!ConnStates] /\ conn'[d] = x
      /\ \A e \in Tool!Conns \ {d} : conn'[e] = conn[e]
  BY <1>1
<1>3. SharedOK'
  BY <1>2 DEF Tool!ToolInv, Tool!TypeOK, SharedOK
<1>4. /\ Tool!TypeOK' /\ Tool!CallsOK'
      /\ toolPc'[u] = place /\ call'[u] = c
      /\ \A v \in Callers \ {u} : toolPc'[v] = toolPc[v] /\ call'[v] = call[v]
  BY <1>3, ToolMoveKeeps
<1>5. \A v \in Callers : call[v] \in Tool!Local /\ call[v].conn # d
  BY ToolAssumption DEF Tool!ToolInv, Tool!TypeOK, Tool!HeldOK
<1>6. Tool!HeldOK'
  <2>1. ASSUME NEW v \in Callers, call'[v].conn # None
        PROVE  /\ conn'[call'[v].conn].state = "busy"
               /\ \A w \in Callers \ {v} : call'[w].conn # call'[v].conn
    <3>1. CASE v = u
      BY <1>2, <1>4, <1>5, <3>1
    <3>2. CASE v # u
      <4>1. call'[v] = call[v] /\ call[v].conn \in Tool!Conns \ {d}
        BY <1>4, <1>5, <2>1, <3>2 DEF Tool!Local
      <4>2. conn'[call[v].conn] = conn[call[v].conn]
        BY <1>2, <4>1
      <4> QED
        BY <1>4, <2>1, <4>1, <4>2 DEF Tool!ToolInv, Tool!HeldOK
    <3> QED
      BY <3>1, <3>2
  <2>2. ASSUME NEW e \in Tool!Conns, conn'[e].state = "busy"
        PROVE  \E v \in Callers : call'[v].conn = e
    <3>1. CASE e = d
      BY <1>4, <3>1
    <3>2. CASE e # d
      <4>1. PICK v \in Callers : call[v].conn = e
        BY <1>2, <2>2, <3>2 DEF Tool!ToolInv, Tool!HeldOK
      <4>2. v # u
        BY <4>1, ToolAssumption
      <4> QED
        BY <1>4, <4>1, <4>2
    <3> QED
      BY <3>1, <3>2
  <2> QED
    BY <2>1, <2>2 DEF Tool!HeldOK
<1>7. Tool!PoolsOK'
  BY <1>2, <1>4 DEF Tool!ToolInv, Tool!PoolsOK
<1>8. Tool!PooledReadOnly'
  BY <1>2 DEF Tool!ToolInv, Tool!PooledReadOnly
<1> QED
  BY <1>4, <1>6, <1>7, <1>8 DEF Tool!ToolInv, Tool!NoFunctionLeft

\* What there is to know of a call.
LEMMA CallFacts ==
  ASSUME Tool!ToolInv, NEW u \in Callers
  PROVE  /\ toolPc \in [Callers -> Tool!PC] /\ call \in [Callers -> Tool!Local]
         /\ reply \in [Callers -> Tool!Replies]
         /\ call[u] \in Tool!Local /\ reply[u] \in Tool!Replies
         /\ Tool!Consistent(toolPc[u], call[u], reply[u])
         /\ calls \in 0 .. MaxCalls /\ loaded \in SUBSET Tool!Pools /\ default \in known
         /\ known \in SUBSET Tool!Pools
         /\ toolPc[u] \notin {"idle", "connect", "connecting"} => call[u].pool \in known
BY DEF Tool!ToolInv, Tool!TypeOK, Tool!CallsOK, Tool!PoolsOK

\* A call that is answered without a connection.
LEMMA AnswerKeeps ==
  ASSUME Tool!ToolInv, NEW u \in Callers, NEW what \in {"ok", "failed", "refused"},
         NEW c \in Tool!Local, Tool!Answer(u, what, c), call[u].conn = None,
         what = "ok" => (c.applied <=> Tool!Writing(c.stmt)),
         what = "refused" => ~c.applied,
         what = "failed" => ~c.applied \/ c.lost \/ c.stmt = "commits",
         UNCHANGED <<allowWrites, known, conn, leftover, default>>,
         mu' \in {mu, None}, mu \in {None, u} \/ mu' = mu,
         loaded' \in SUBSET Tool!Pools, calls' \in 0 .. MaxCalls
  PROVE  Tool!ToolInv'
<1>1. Moves(u, "idle", Tool!Over(c), what) /\ Tool!Consistent("idle", Tool!Over(c), what)
  BY AnswerOK DEF Tool!Answer, Tool!Goto, Moves
<1>2. Tool!Over(c) \in Tool!Local /\ Tool!Over(c).conn = None
      /\ "idle" \in Tool!PC /\ what \in Tool!Replies
  BY OverOK DEF Tool!PC, Tool!Replies
<1>3. default' \in known
  BY CallFacts
<1> QED
  BY <1>1, <1>2, <1>3, QuietKeeps

LEMMA CallKeeps ==
  ASSUME Tool!ToolInv, NEW u \in Callers, Tool!Call(u)
  PROVE  Tool!ToolInv'
<1>1. PICK tool \in Tool!Tools, inline \in BOOLEAN, asDefault \in BOOLEAN, stmt \in Tool!Stmts :
        LET c == Tool!NewCall(tool, stmt, IF inline THEN "inline" ELSE default, asDefault)
        IN /\ asDefault => stmt = "read"
           /\ inline => tool = "query"
           /\ asDefault => inline
           /\ IF tool \in {"explain", "count", "func"} /\ Tool!Refused(c)
              THEN Tool!Answer(u, "refused", c)
              ELSE /\ Tool!Goto(u, IF inline THEN "connect" ELSE Tool!Prepared(tool))
                   /\ reply' = [reply EXCEPT ![u] = "none"]
                   /\ call' = [call EXCEPT ![u] = c]
  BY DEF Tool!Call, Tool!StmtsOf, Tool!Stmts
<1>2. PICK c : c = Tool!NewCall(tool, stmt, IF inline THEN "inline" ELSE default, asDefault)
  OBVIOUS
<1>3. stmt \in Tool!Stmts /\ default \in Tool!Pools
  BY DEF Tool!ToolInv, Tool!TypeOK
<1>4. c \in Tool!Local
  BY <1>2, <1>3, NewCallOK DEF Tool!Pools
<1>5. /\ c.conn = None /\ c.pending = {} /\ ~c.applied /\ c.asDefault = asDefault
      /\ c.stmt = stmt /\ c.pool = (IF inline THEN "inline" ELSE default)
  BY <1>2 DEF Tool!NewCall
<1>6. /\ calls' \in 0 .. MaxCalls /\ call[u].conn = None
      /\ UNCHANGED <<allowWrites, mu, known, conn, leftover, default, loaded>>
  BY CallFacts, ToolAssumption DEF Tool!Call, Tool!Consistent, Tool!Working, Tool!Before
<1>7. CASE Tool!Answer(u, "refused", c)
  BY <1>4, <1>5, <1>6, <1>7, CallFacts, AnswerKeeps
<1>8. CASE /\ Tool!Goto(u, IF inline THEN "connect" ELSE Tool!Prepared(tool))
           /\ reply' = [reply EXCEPT ![u] = "none"]
           /\ call' = [call EXCEPT ![u] = c]
  <2>1. PICK place : place = IF inline THEN "connect" ELSE Tool!Prepared(tool)
    OBVIOUS
  <2>2. place \in {"connect", "metadata", "begin"} /\ (place # "connect" => ~inline)
    BY <2>1 DEF Tool!Prepared
  <2>3. Moves(u, place, c, "none")
    BY <1>8, <2>1 DEF Tool!Goto, Moves
  <2>4. Tool!Consistent(place, c, "none")
    BY <1>1, <1>5, <2>2 DEF Tool!Consistent, Tool!InOrder, Tool!Working, Tool!Before
  <2>5. place \in Tool!PC /\ "none" \in Tool!Replies
    BY <2>2 DEF Tool!PC, Tool!Replies
  <2> QED
    BY <1>4, <1>5, <1>6, <2>2, <2>3, <2>4, <2>5, CallFacts, QuietKeeps
<1> QED
  BY <1>1, <1>2, <1>7, <1>8

\* A call that goes from one place to another with nothing changed in it.
LEMMA GotoKeeps ==
  ASSUME Tool!ToolInv, NEW u \in Callers, NEW place \in Tool!PC, Tool!Goto(u, place),
         UNCHANGED <<allowWrites, known, conn, leftover, call, reply, calls>>,
         toolPc[u] # "idle", Tool!Consistent(place, call[u], reply[u]),
         mu' \in {mu, u}, mu = None \/ mu' = mu,
         default' \in known, loaded' \in SUBSET Tool!Pools,
         place = "connecting" => mu' = u /\ call[u].pool \notin known,
         place \notin {"idle", "connect", "connecting"} => call[u].pool \in known
  PROVE  Tool!ToolInv'
<1>1. Moves(u, place, call[u], reply[u])
  BY CallFacts DEF Tool!Goto, Moves
<1> QED
  BY <1>1, CallFacts, QuietKeeps

LEMMA ConnectKeeps ==
  ASSUME Tool!ToolInv, NEW u \in Callers, Tool!Connect(u) \/ Tool!SwitchDefault(u)
  PROVE  Tool!ToolInv'
<1>1. CASE Tool!Connect(u)
  <2>1. CASE call[u].pool \in known
    <3>1. PICK place : place = Tool!Onward(u)
      OBVIOUS
    <3>2. place \in {"switch", "metadata"} /\ Tool!Goto(u, place) /\ UNCHANGED mu
      BY <1>1, <2>1, <3>1 DEF Tool!Connect, Tool!Onward
    <3>3. Tool!Consistent(place, call[u], reply[u]) /\ place \in Tool!PC
      BY <1>1, <3>2, CallFacts
      DEF Tool!Connect, Tool!Consistent, Tool!InOrder, Tool!Working, Tool!Before, Tool!PC
    <3> QED
      BY <1>1, <2>1, <3>2, <3>3, CallFacts, GotoKeeps DEF Tool!Connect
  <2>2. CASE call[u].pool \notin known
    <3>1. Tool!Consistent("connecting", call[u], reply[u]) /\ "connecting" \in Tool!PC
      BY <1>1, CallFacts
      DEF Tool!Connect, Tool!Consistent, Tool!InOrder, Tool!Working, Tool!Before, Tool!PC
    <3> QED
      BY <1>1, <2>2, <3>1, CallFacts, GotoKeeps DEF Tool!Connect, Tool!Unlocked
  <2> QED
    BY <2>1, <2>2
<1>2. CASE Tool!SwitchDefault(u)
  <2>1. Tool!Consistent("metadata", call[u], reply[u]) /\ "metadata" \in Tool!PC
    BY <1>2, CallFacts DEF Tool!SwitchDefault, Tool!Consistent, Tool!InOrder, Tool!Working, Tool!Before, Tool!PC
  <2> QED
    BY <1>2, <2>1, CallFacts, GotoKeeps DEF Tool!SwitchDefault
<1> QED
  BY <1>1, <1>2

LEMMA FailsBeforeKeeps ==
  ASSUME Tool!ToolInv, NEW u \in Callers,
         Tool!ConnectFails(u) \/ Tool!MetadataFails(u) \/ Tool!BeginFails(u)
  PROVE  Tool!ToolInv'
<1>1. toolPc[u] \in {"connecting", "metadata", "begin"} /\ Tool!Answer(u, "failed", call[u])
      /\ UNCHANGED <<allowWrites, known, conn, leftover, default, loaded, calls>>
  BY DEF Tool!ConnectFails, Tool!MetadataFails, Tool!BeginFails
<1>2. mu' \in {mu, None} /\ (mu \in {None, u} \/ mu' = mu)
  BY DEF Tool!ConnectFails, Tool!MetadataFails, Tool!BeginFails, Tool!ToolInv, Tool!PoolsOK
<1>3. call[u].conn = None /\ ~call[u].applied
  BY <1>1, CallFacts DEF Tool!Consistent, Tool!Working, Tool!Before
<1> QED
  BY <1>1, <1>2, <1>3, CallFacts, AnswerKeeps

LEMMA MetadataKeeps ==
  ASSUME Tool!ToolInv, NEW u \in Callers, Tool!Metadata(u)
  PROVE  Tool!ToolInv'
<1>1. /\ toolPc[u] = "metadata" /\ loaded' = loaded \cup {call[u].pool}
      /\ UNCHANGED <<allowWrites, mu, known, conn, leftover, default, calls>>
  BY DEF Tool!Metadata
<1>2. loaded' \in SUBSET Tool!Pools /\ call[u].conn = None /\ ~call[u].applied
      /\ (call[u].asDefault => ~Tool!Writing(call[u].stmt))
  BY <1>1, CallFacts DEF Tool!Consistent, Tool!Working, Tool!Before, Tool!Local, Tool!Writing
<1>3. CASE Tool!Answer(u, "ok", call[u]) /\ call[u].asDefault
  BY <1>1, <1>2, <1>3, CallFacts, AnswerKeeps
<1>4. CASE Tool!Answer(u, "refused", call[u])
  BY <1>1, <1>2, <1>4, CallFacts, AnswerKeeps
<1>5. CASE Tool!Goto(u, "begin") /\ UNCHANGED <<reply, call>>
  <2>1. Tool!Consistent("begin", call[u], reply[u]) /\ "begin" \in Tool!PC
    BY <1>1, CallFacts DEF Tool!Consistent, Tool!InOrder, Tool!Working, Tool!Before, Tool!PC
  <2> QED
    BY <1>1, <1>2, <1>5, <2>1, CallFacts, GotoKeeps
<1> QED
  BY <1>3, <1>4, <1>5 DEF Tool!Metadata

\* The refresh after DDL, after which the call is answered.
LEMMA RefreshKeeps ==
  ASSUME Tool!ToolInv, NEW u \in Callers, Tool!Refresh(u)
  PROVE  Tool!ToolInv'
<1>1. /\ toolPc[u] = "refresh" /\ Tool!Answer(u, "ok", call[u])
      /\ loaded' \in SUBSET Tool!Pools
      /\ UNCHANGED <<allowWrites, mu, known, conn, leftover, default, calls>>
  BY CallFacts DEF Tool!Refresh, Tool!Local
<1>2. call[u].conn = None /\ call[u].applied /\ Tool!Writing(call[u].stmt)
  BY <1>1, CallFacts DEF Tool!Consistent, Tool!Working, Tool!Before
<1> QED
  BY <1>1, <1>2, CallFacts, AnswerKeeps

\* The one caller that is making a pool makes it.
LEMMA ConnectedKeeps ==
  ASSUME Tool!ToolInv, NEW u \in Callers, Tool!Connected(u)
  PROVE  Tool!ToolInv'
<1> DEFINE d == <<call[u].pool, 1>>
           x == [Tool!Fresh EXCEPT !.state = "idle"]
<1>1. /\ toolPc[u] = "connecting" /\ mu = u /\ call[u].pool \in Tool!Pools \ known
      /\ known' = known \cup {call[u].pool} /\ conn' = [conn EXCEPT ![d] = x]
      /\ UNCHANGED <<allowWrites, default, loaded, call, reply, leftover, calls>>
  BY CallFacts DEF Tool!Connected, Tool!ToolInv, Tool!PoolsOK, Tool!Local
<1>2. PICK place : place = Tool!Onward(u)
  OBVIOUS
<1>3. place \in {"switch", "metadata"} /\ place \in Tool!PC
      /\ toolPc' = [toolPc EXCEPT ![u] = place]
  BY <1>2 DEF Tool!Connected, Tool!Goto, Tool!Onward, Tool!PC
<1>4. Moves(u, place, call[u], reply[u])
  BY <1>1, <1>3, CallFacts DEF Moves
<1>5. Tool!Consistent(place, call[u], reply[u])
  BY <1>1, <1>3, CallFacts DEF Tool!Consistent, Tool!InOrder, Tool!Working, Tool!Before
<1>6. x \in Tool!ConnStates /\ x.state = "idle" /\ (~allowWrites => x.session = "ro")
  BY DEF Tool!Fresh, Tool!ConnStates
<1>7. /\ conn' \in [Tool!Conns -> Tool!ConnStates] /\ conn \in [Tool!Conns -> Tool!ConnStates]
      /\ \A e \in Tool!Conns : conn'[e] = IF e = d THEN x ELSE conn[e]
  BY <1>1, <1>6 DEF Tool!ToolInv, Tool!TypeOK
<1>8. SharedOK'
  BY <1>1, <1>7 DEF Tool!Connected, Tool!ToolInv, Tool!TypeOK, SharedOK
<1>9. /\ Tool!TypeOK' /\ Tool!CallsOK'
      /\ toolPc'[u] = place /\ call'[u] = call[u]
      /\ \A v \in Callers \ {u} : toolPc'[v] = toolPc[v] /\ call'[v] = call[v]
  BY <1>3, <1>4, <1>5, <1>8, CallFacts, ToolMoveKeeps
<1>10. \A e \in Tool!Conns : e[1] \notin known => conn[e].state = "none"
  BY DEF Tool!ToolInv, Tool!PoolsOK
<1>11. Tool!HeldOK'
  <2>1. d \in Tool!Conns => conn[d].state = "none"
    BY <1>1, <1>10
  <2>2. ASSUME NEW v \in Callers, call[v].conn # None
        PROVE  /\ conn'[call[v].conn].state = "busy"
               /\ \A w \in Callers \ {v} : call[w].conn # call[v].conn
    <3>1. conn[call[v].conn].state = "busy" /\ call[v].conn \in Tool!Conns
      BY <2>2, CallFacts DEF Tool!ToolInv, Tool!HeldOK, Tool!Local
    <3> QED
      BY <1>7, <2>1, <2>2, <3>1 DEF Tool!ToolInv, Tool!HeldOK
  <2>3. ASSUME NEW e \in Tool!Conns, conn'[e].state = "busy"
        PROVE  \E v \in Callers : call[v].conn = e
    BY <1>6, <1>7, <2>3 DEF Tool!ToolInv, Tool!HeldOK
  <2> QED
    BY <1>1, <2>2, <2>3 DEF Tool!HeldOK
<1>12. Tool!PoolsOK'
  <2>1. \A e \in Tool!Conns : e[1] \notin known' => conn'[e].state = "none"
    BY <1>1, <1>7, <1>10
  <2>2. \A v \in Callers : toolPc[v] = "connecting" => v = u
    BY <1>1 DEF Tool!ToolInv, Tool!PoolsOK
  <2>3. default' \in known'
    BY <1>1 DEF Tool!ToolInv, Tool!PoolsOK
  <2>4. ASSUME NEW v \in Callers
        PROVE  /\ toolPc'[v] # "connecting"
               /\ toolPc'[v] \notin {"idle", "connect", "connecting"} => call'[v].pool \in known'
    BY <1>1, <1>3, <1>9, <2>2 DEF Tool!ToolInv, Tool!PoolsOK
  <2> QED
    BY <2>1, <2>3, <2>4 DEF Tool!PoolsOK
<1>13. Tool!PooledReadOnly'
  BY <1>1, <1>6, <1>7 DEF Tool!ToolInv, Tool!PooledReadOnly
<1> QED
  BY <1>1, <1>9, <1>11, <1>12, <1>13 DEF Tool!ToolInv, Tool!NoFunctionLeft

LEMMA BeginKeeps ==
  ASSUME Tool!ToolInv, NEW u \in Callers, Tool!Begin(u)
  PROVE  Tool!ToolInv'
<1>1. /\ toolPc[u] = "begin" /\ Tool!Goto(u, "execute")
      /\ UNCHANGED <<allowWrites, mu, known, default, loaded, reply, leftover, calls>>
  BY DEF Tool!Begin
<1>2. PICK d \in Tool!Conns :
       /\ Tool!Obtainable(d, call[u].pool)
       /\ conn' = [conn EXCEPT ![d] = IF @.state = "none" THEN Tool!Fresh
                                      ELSE [@ EXCEPT !.state = "busy"]]
       /\ call' = [call EXCEPT ![u].conn = d, ![u].mode = Tool!ModeOf(call[u].tool)]
  BY DEF Tool!Begin
<1>3. PICK x : x = IF conn[d].state = "none" THEN Tool!Fresh ELSE [conn[d] EXCEPT !.state = "busy"]
  OBVIOUS
<1>4. conn' = [conn EXCEPT ![d] = x] /\ conn[d] \in Tool!ConnStates
  BY <1>2, <1>3 DEF Tool!ToolInv, Tool!TypeOK
<1>5. x \in Tool!ConnStates /\ x.state = "busy"
  BY <1>3, <1>4 DEF Tool!Fresh, Tool!ConnStates
<1>6. PICK c : c = [call[u] EXCEPT !.conn = d, !.mode = Tool!ModeOf(call[u].tool)]
  OBVIOUS
<1>7. /\ c \in Tool!Local /\ c.conn = d /\ c.pool = call[u].pool /\ c.stmt = call[u].stmt
      /\ c.asDefault = call[u].asDefault /\ c.applied = call[u].applied
      /\ c.tool = call[u].tool /\ c.pending = call[u].pending
  BY ZenonT(30), <1>6, CallFacts DEF Tool!Local, Tool!ModeOf
<1>8. Moves(u, "execute", c, reply[u])
  BY <1>1, <1>2, <1>6, CallFacts DEF Tool!Goto, Moves
<1>9. Tool!Consistent("execute", c, reply[u]) /\ call[u].conn = None /\ "execute" \in Tool!PC
  BY <1>1, <1>7, CallFacts DEF Tool!Consistent, Tool!InOrder, Tool!Working, Tool!Before, Tool!PC
<1>10. /\ conn[d].state # "busy" /\ d[1] = call[u].pool /\ call[u].pool \in known
  BY <1>1, <1>2, CallFacts DEF Tool!Obtainable
<1> QED
  BY <1>1, <1>4, <1>5, <1>7, <1>8, <1>9, <1>10, CallFacts, TakeKeeps

\* A step of the transaction that leaves its connection in its hands.
LEMMA TransactKeeps ==
  ASSUME Tool!ToolInv, NEW u \in Callers, toolPc[u] \in {"execute", "rows", "drop"},
         NEW place \in {"rows", "drop", "commit", "rollback"},
         NEW pending \in SUBSET {"write", "setting", "function"}, NEW aborted \in BOOLEAN,
         NEW applied \in BOOLEAN, applied => call[u].stmt = "commits",
         Tool!Goto(u, place),
         call' = [call EXCEPT ![u].pending = pending, ![u].aborted = aborted,
                              ![u].applied = applied],
         UNCHANGED <<allowWrites, mu, known, default, loaded, conn, reply, leftover, calls>>,
         place \in {"rows", "commit"} \/ (place = "drop" /\ ~aborted) =>
           /\ call[u].conn \in Tool!Conns
           /\ applied \/ "write" \in pending <=> Tool!Writing(call[u].stmt),
         "function" \in pending => call[u].tool = "func" /\ place # "commit"
  PROVE  Tool!ToolInv'
<1>1. PICK c : c = [call[u] EXCEPT !.pending = pending, !.aborted = aborted, !.applied = applied]
  OBVIOUS
<1>2. /\ c \in Tool!Local /\ c.pending = pending /\ c.aborted = aborted /\ c.conn = call[u].conn
      /\ c.pool = call[u].pool /\ c.stmt = call[u].stmt /\ c.tool = call[u].tool
      /\ c.asDefault = call[u].asDefault /\ c.applied = applied
  BY ZenonT(30), <1>1, CallFacts DEF Tool!Local
<1>3. Moves(u, place, c, reply[u]) /\ place \in Tool!PC
  BY <1>1, CallFacts DEF Tool!Goto, Moves, Tool!PC
<1>4. Tool!Consistent(place, c, reply[u])
  BY <1>2, CallFacts DEF Tool!Consistent, Tool!InOrder, Tool!Working, Tool!Before
<1> QED
  BY <1>2, <1>3, <1>4, CallFacts, QuietKeeps

LEMMA ExecuteKeeps ==
  ASSUME Tool!ToolInv, NEW u \in Callers,
         Tool!Execute(u) \/ Tool!ReadRows(u) \/ Tool!DropFunction(u)
  PROVE  Tool!ToolInv'
<1>1. CASE Tool!Execute(u)
  <2>1. PICK pending : pending = Tool!Effects(u)
    OBVIOUS
  <2>2. /\ pending \in SUBSET {"write", "setting", "function"}
        /\ call[u].stmt = "commits" \/ "write" \in pending <=> Tool!Writing(call[u].stmt)
        /\ "function" \in pending <=> call[u].tool = "func"
    BY <2>1 DEF Tool!Effects, Tool!OwnCommit, Tool!Writing
  <2>6. PICK applied \in BOOLEAN : applied <=> call[u].stmt = "commits"
    OBVIOUS
  <2>7. applied = Tool!OwnCommit(u)
    BY <2>6 DEF Tool!OwnCommit
  <2>3. PICK place : place = IF Tool!Simple(u) THEN "commit" ELSE "rows"
    OBVIOUS
  <2>4. place \in {"commit", "rows"} /\ (place = "commit" => call[u].tool = "query")
    BY <2>3 DEF Tool!Simple
  <2>5. /\ Tool!Goto(u, place) /\ call[u].conn \in Tool!Conns /\ call[u].aborted \in BOOLEAN
        /\ call' = [call EXCEPT ![u].pending = pending, ![u].aborted = call[u].aborted,
                                ![u].applied = applied]
        /\ UNCHANGED <<allowWrites, mu, known, default, loaded, conn, reply, leftover, calls>>
    BY <1>1, <2>1, <2>3, <2>7, CallFacts DEF Tool!Execute, Tool!Consistent, Tool!Local
  <2> QED
    BY ZenonT(30), <1>1, <2>2, <2>4, <2>5, <2>6, TransactKeeps DEF Tool!Execute
<1>2. CASE Tool!ReadRows(u)
  <2>1. PICK place : place = IF call[u].tool = "func" THEN "drop" ELSE "commit"
    OBVIOUS
  <2>2. /\ Tool!Goto(u, place) /\ place \in {"drop", "commit"}
        /\ call' = [call EXCEPT ![u].pending = call[u].pending, ![u].aborted = call[u].aborted,
                                ![u].applied = call[u].applied]
        /\ call[u].pending \in SUBSET {"write", "setting", "function"}
        /\ call[u].aborted \in BOOLEAN /\ call[u].applied \in BOOLEAN
        /\ UNCHANGED <<allowWrites, mu, known, default, loaded, conn, reply, leftover, calls>>
    BY <1>2, <2>1, CallFacts DEF Tool!ReadRows, Tool!Local
  <2>3. /\ call[u].conn \in Tool!Conns
        /\ (call[u].applied \/ "write" \in call[u].pending <=> Tool!Writing(call[u].stmt))
        /\ call[u].applied => call[u].stmt = "commits"
        /\ "function" \in call[u].pending => call[u].tool = "func" /\ place # "commit"
    BY <1>2, <2>1, CallFacts DEF Tool!ReadRows, Tool!Consistent, Tool!InOrder, Tool!Working
  <2> QED
    BY <1>2, <2>2, <2>3, TransactKeeps DEF Tool!ReadRows
<1>3. CASE Tool!DropFunction(u)
  <2>1. /\ toolPc[u] = "drop"
        /\ call[u].pending \in SUBSET {"write", "setting", "function"}
        /\ call[u].aborted \in BOOLEAN /\ call[u].applied \in BOOLEAN
        /\ call[u].applied => call[u].stmt = "commits"
    BY <1>3, CallFacts DEF Tool!DropFunction, Tool!Local, Tool!Consistent, Tool!Working
  <2>2. CASE /\ call' = [call EXCEPT ![u].pending = @ \ {"function"}]
             /\ Tool!Goto(u, IF call[u].aborted THEN "rollback" ELSE "commit")
    <3>1. PICK place : place = IF call[u].aborted THEN "rollback" ELSE "commit"
      OBVIOUS
    <3>2. /\ place \in {"rollback", "commit"} /\ Tool!Goto(u, place)
          /\ call' = [call EXCEPT ![u].pending = call[u].pending \ {"function"},
                                  ![u].aborted = call[u].aborted,
                                  ![u].applied = call[u].applied]
      BY <2>2, <3>1, CallFacts DEF Tool!Local
    <3>3. place = "commit" =>
            /\ call[u].conn \in Tool!Conns
            /\ (call[u].applied \/ "write" \in call[u].pending
                 <=> Tool!Writing(call[u].stmt))
      BY <2>1, <3>1, CallFacts DEF Tool!Consistent, Tool!InOrder
    <3>4. PICK pending \in SUBSET {"write", "setting", "function"} :
            pending = call[u].pending \ {"function"}
      BY <2>1
    <3>5. "write" \in pending <=> "write" \in call[u].pending
      BY <3>4
    <3>6. UNCHANGED <<allowWrites, mu, known, default, loaded, conn, reply, leftover, calls>>
      BY <1>3 DEF Tool!DropFunction
    <3> QED
      BY <2>1, <3>2, <3>3, <3>4, <3>5, <3>6, TransactKeeps
  <2>3. CASE /\ call' = [call EXCEPT ![u].pending = {}, ![u].aborted = TRUE]
             /\ Tool!Goto(u, "rollback")
    <3>1. UNCHANGED <<allowWrites, mu, known, default, loaded, conn, reply, leftover, calls>>
      BY <1>3 DEF Tool!DropFunction
    <3>2. PICK pending \in SUBSET {"write", "setting", "function"}, aborted \in BOOLEAN :
            pending = {} /\ aborted = TRUE
      OBVIOUS
    <3>3. call' = [call EXCEPT ![u].pending = pending, ![u].aborted = aborted,
                               ![u].applied = call[u].applied]
      BY <2>3, <3>2, CallFacts DEF Tool!Local
    <3>4. /\ "rollback" \in {"rows", "drop", "commit", "rollback"} /\ "function" \notin pending
          /\ ~("rollback" \in {"rows", "commit"} \/ ("rollback" = "drop" /\ ~aborted))
      BY <3>2
    <3> QED
      BY <2>1, <2>3, <3>1, <3>3, <3>4, TransactKeeps
  <2> QED
    BY <1>3, <2>2, <2>3 DEF Tool!DropFunction
<1> QED
  BY <1>1, <1>2, <1>3

\* A transaction that fails: its connection is kept, or lost.
LEMMA FailKeeps ==
  ASSUME Tool!ToolInv, NEW u \in Callers, Tool!ExecuteFails(u) \/ Tool!RowsFail(u)
  PROVE  Tool!ToolInv'
<1>1. /\ toolPc[u] \in {"execute", "rows"} /\ call[u].conn \in Tool!Conns
      /\ UNCHANGED <<allowWrites, mu, known, default, loaded, reply, leftover, calls>>
  BY CallFacts DEF Tool!ExecuteFails, Tool!RowsFail, Tool!Consistent, Tool!InOrder
<1>2. PICK place \in {"drop", "rollback"} : Tool!Goto(u, place)
  BY DEF Tool!ExecuteFails, Tool!RowsFail
<1>3. ASSUME NEW earlier \in BOOLEAN, earlier => call[u].stmt = "commits",
             Tool!Failing(u, TRUE, earlier)
      PROVE  Tool!ToolInv'
  <2>1. PICK c : c = [call[u] EXCEPT !.pending = {}, !.aborted = TRUE, !.applied = earlier,
                                     !.conn = None]
    OBVIOUS
  <2>2. /\ c \in Tool!Local /\ c.pending = {} /\ c.aborted /\ c.conn = None
        /\ c.pool = call[u].pool /\ c.stmt = call[u].stmt /\ c.tool = call[u].tool
        /\ c.asDefault = call[u].asDefault /\ c.applied = earlier
    BY ZenonT(30), <1>3, <2>1, CallFacts DEF Tool!Local
  <2>3. Moves(u, place, c, reply[u]) /\ place \in Tool!PC
    BY <1>1, <1>2, <1>3, <2>1, CallFacts DEF Tool!Failing, Tool!Goto, Moves, Tool!PC
  <2>4. Tool!Consistent(place, c, reply[u])
    BY <1>1, <1>3, <2>2, CallFacts
    DEF Tool!Consistent, Tool!InOrder, Tool!Working, Tool!Before
  <2>5. PICK x : x = [conn[call[u].conn] EXCEPT !.state = "none"]
    OBVIOUS
  <2>6. x \in Tool!ConnStates /\ x.state = "none" /\ conn' = [conn EXCEPT ![call[u].conn] = x]
    BY <1>1, <1>3, <2>5 DEF Tool!Failing, Tool!ToolInv, Tool!TypeOK, Tool!ConnStates
  <2>7. leftover' = FALSE
    BY <1>1 DEF Tool!ToolInv, Tool!NoFunctionLeft, Tool!TypeOK
  <2> QED
    BY <1>1, <2>2, <2>3, <2>4, <2>6, <2>7, CallFacts, GiveKeeps
<1>4. ASSUME NEW earlier \in BOOLEAN, earlier => call[u].stmt = "commits",
             Tool!Failing(u, FALSE, earlier)
      PROVE  Tool!ToolInv'
  <2>1. PICK pending \in SUBSET {"write", "setting", "function"}, aborted \in BOOLEAN :
          pending = {} /\ aborted = TRUE
    OBVIOUS
  <2>2. /\ call' = [call EXCEPT ![u].pending = pending, ![u].aborted = aborted,
                                ![u].applied = earlier]
        /\ UNCHANGED conn
    BY ZenonT(30), <1>1, <1>4, <2>1, CallFacts DEF Tool!Failing, Tool!Local
  <2> QED
    BY <1>1, <1>2, <1>4, <2>1, <2>2, TransactKeeps
<1>5. CASE /\ call' = [call EXCEPT ![u].aborted = TRUE] /\ UNCHANGED conn
           /\ Tool!RowsFail(u)
  <2>1. PICK pending \in SUBSET {"write", "setting", "function"}, aborted \in BOOLEAN :
          pending = call[u].pending /\ aborted = TRUE
    BY CallFacts DEF Tool!Local
  <2>2. PICK applied \in BOOLEAN : applied = call[u].applied
    BY CallFacts DEF Tool!Local
  <2>3. /\ call' = [call EXCEPT ![u].pending = pending, ![u].aborted = aborted,
                                ![u].applied = applied]
        /\ UNCHANGED conn
    BY <1>1, <1>5, <2>1, <2>2, CallFacts DEF Tool!Local
  <2>4. /\ applied => call[u].stmt = "commits"
        /\ "function" \in pending => call[u].tool = "func"
    BY <1>1, <2>1, <2>2, CallFacts DEF Tool!Consistent, Tool!Working
  <2>5. place = "rollback" \/ call[u].tool = "func"
    BY <1>1, <1>2, <1>5, CallFacts DEF Tool!RowsFail, Tool!Goto
  <2> QED
    BY <1>1, <1>2, <2>1, <2>3, <2>4, <2>5, TransactKeeps
<1>6. CASE Tool!ExecuteFails(u)
  <2>1. PICK broken \in BOOLEAN, earlier \in BOOLEAN :
          (earlier => call[u].stmt = "commits") /\ Tool!Failing(u, broken, earlier)
    BY <1>6 DEF Tool!ExecuteFails, Tool!OwnCommit
  <2> QED
    BY <1>3, <1>4, <2>1
<1>7. CASE Tool!RowsFail(u) /\ \E broken \in BOOLEAN : Tool!Failing(u, broken, FALSE)
  BY <1>3, <1>4, <1>7
<1> QED
  BY <1>5, <1>6, <1>7 DEF Tool!RowsFail

\* A connection that is given back has the types of one, and is not idle on a
\* read-only client before AfterRelease has seen it.
LEMMA ReleasedOK ==
  ASSUME Tool!ToolInv, NEW u \in Callers, call[u].conn \in Tool!Conns, NEW settled \in BOOLEAN
  PROVE  \E x \in Tool!ConnStates :
           /\ Tool!Released(u, settled) = [conn EXCEPT ![call[u].conn] = x]
           /\ x.state # "busy" /\ (~allowWrites => x.state = "releasing")
<1>1. PICK x : x = [state |-> IF allowWrites THEN "idle" ELSE "releasing",
                    session |-> IF settled /\ "setting" \in call[u].pending THEN "rw"
                                ELSE conn[call[u].conn].session]
  OBVIOUS
<1>2. conn[call[u].conn] \in Tool!ConnStates
  BY DEF Tool!ToolInv, Tool!TypeOK
<1>3. x \in Tool!ConnStates /\ x.state # "busy" /\ (~allowWrites => x.state = "releasing")
  BY <1>1, <1>2 DEF Tool!ConnStates
<1>4. Tool!Released(u, settled) = [conn EXCEPT ![call[u].conn] = x]
  BY <1>1 DEF Tool!Released
<1> QED
  BY <1>3, <1>4

\* What is left of a call that was committed: it wrote what it had pending.
LEMMA EndedOK ==
  ASSUME Tool!ToolInv, NEW u \in Callers
  PROVE  /\ Tool!Ended(u) \in Tool!Local /\ Tool!Ended(u).pending = {} /\ Tool!Ended(u).conn = None
         /\ Tool!Ended(u).pool = call[u].pool /\ Tool!Ended(u).stmt = call[u].stmt
         /\ Tool!Ended(u).asDefault = call[u].asDefault
         /\ Tool!Ended(u).applied <=> call[u].applied \/ "write" \in call[u].pending
<1>1. PICK w \in BOOLEAN : w <=> call[u].applied \/ "write" \in call[u].pending
  OBVIOUS
<1>2. Tool!Ended(u) = [call[u] EXCEPT !.applied = w, !.pending = {}, !.conn = None]
  <2>1. w = (call[u].applied \/ "write" \in call[u].pending)
    BY <1>1
  <2> QED
    BY <2>1 DEF Tool!Ended
<1>3. call[u] \in Tool!Local
  BY CallFacts
<1>4. Tool!Ended(u).applied = w
  BY <1>2, <1>3 DEF Tool!Local
<1> QED
  BY <1>1, <1>2, <1>3, <1>4 DEF Tool!Local

LEMMA CommitKeeps ==
  ASSUME Tool!ToolInv, NEW u \in Callers, Tool!Commit(u)
  PROVE  Tool!ToolInv'
<1>1. /\ toolPc[u] = "commit" /\ call[u].conn \in Tool!Conns /\ "function" \notin call[u].pending
      /\ (call[u].applied \/ "write" \in call[u].pending <=> Tool!Writing(call[u].stmt))
      /\ UNCHANGED <<allowWrites, mu, known, default, loaded, calls>>
  BY CallFacts DEF Tool!Commit, Tool!Consistent, Tool!InOrder
<1>2. leftover' = FALSE
  BY <1>1 DEF Tool!Commit, Tool!TakeEffect, Tool!ToolInv, Tool!NoFunctionLeft, Tool!TypeOK
<1>3. PICK x \in Tool!ConnStates :
        /\ conn' = [conn EXCEPT ![call[u].conn] = x]
        /\ x.state # "busy" /\ (~allowWrites => x.state = "releasing")
  BY <1>1, ReleasedOK DEF Tool!Commit
<1>4. PICK c : c = Tool!Ended(u)
  OBVIOUS
<1>5. /\ c \in Tool!Local /\ c.pending = {} /\ c.conn = None /\ c.pool = call[u].pool
      /\ c.stmt = call[u].stmt /\ c.asDefault = call[u].asDefault
      /\ (c.applied <=> Tool!Writing(c.stmt))
  BY <1>1, <1>4, EndedOK
<1>6. CASE call[u].stmt = "ddl" /\ Tool!Goto(u, "refresh") /\ UNCHANGED reply
           /\ call' = [call EXCEPT ![u] = Tool!Ended(u)]
  <2>1. Moves(u, "refresh", c, reply[u]) /\ "refresh" \in Tool!PC
    BY <1>4, <1>6, CallFacts DEF Tool!Goto, Moves, Tool!PC
  <2>2. Tool!Consistent("refresh", c, reply[u])
    BY <1>1, <1>5, <1>6, CallFacts DEF Tool!Consistent, Tool!InOrder, Tool!Working, Tool!Before, Tool!Writing
  <2> QED
    BY <1>1, <1>2, <1>3, <1>5, <2>1, <2>2, CallFacts, GiveKeeps
<1>7. CASE Tool!Answer(u, "ok", Tool!Ended(u))
  <2>1. /\ Moves(u, "idle", Tool!Over(c), "ok") /\ Tool!Consistent("idle", Tool!Over(c), "ok")
        /\ "idle" \in Tool!PC /\ "ok" \in Tool!Replies
    BY <1>4, <1>5, <1>7, AnswerOK DEF Tool!Answer, Tool!Goto, Moves, Tool!PC, Tool!Replies
  <2> QED
    BY <1>1, <1>2, <1>3, <1>5, <2>1, OverOK, GiveKeeps
<1> QED
  BY <1>6, <1>7 DEF Tool!Commit

LEMMA CommitLostKeeps ==
  ASSUME Tool!ToolInv, NEW u \in Callers, Tool!CommitLost(u)
  PROVE  Tool!ToolInv'
<1>1. /\ toolPc[u] = "commit" /\ call[u].conn \in Tool!Conns /\ "function" \notin call[u].pending
      /\ ~call[u].applied \/ call[u].stmt = "commits"
      /\ UNCHANGED <<allowWrites, mu, known, default, loaded, calls>>
  BY CallFacts DEF Tool!CommitLost, Tool!Consistent, Tool!InOrder, Tool!Working
<1>2. leftover' = FALSE
  BY <1>1 DEF Tool!CommitLost, Tool!TakeEffect, Tool!ToolInv, Tool!NoFunctionLeft, Tool!TypeOK
<1>3. PICK x : x = [conn[call[u].conn] EXCEPT !.state = "none"]
  OBVIOUS
<1>4. x \in Tool!ConnStates /\ x.state = "none" /\ conn' = [conn EXCEPT ![call[u].conn] = x]
  BY <1>1, <1>3 DEF Tool!CommitLost, Tool!ToolInv, Tool!TypeOK, Tool!ConnStates
<1>5. PICK c \in Tool!Local :
        Tool!Answer(u, "failed", c) /\ (~c.applied \/ c.lost \/ c.stmt = "commits")
  <2>1. [Tool!Ended(u) EXCEPT !.lost = TRUE] \in Tool!Local
        /\ [Tool!Ended(u) EXCEPT !.lost = TRUE].lost
    BY EndedOK DEF Tool!Local
  <2> QED
    BY <1>1, <2>1, CallFacts DEF Tool!CommitLost
<1>6. /\ Moves(u, "idle", Tool!Over(c), "failed") /\ Tool!Consistent("idle", Tool!Over(c), "failed")
      /\ "idle" \in Tool!PC /\ "failed" \in Tool!Replies
  BY <1>5, AnswerOK DEF Tool!Answer, Tool!Goto, Moves, Tool!PC, Tool!Replies
<1> QED
  BY <1>1, <1>2, <1>4, <1>6, OverOK, GiveKeeps

LEMMA RollbackKeeps ==
  ASSUME Tool!ToolInv, NEW u \in Callers, Tool!Rollback(u)
  PROVE  Tool!ToolInv'
<1>1. /\ toolPc[u] = "rollback" /\ Tool!Answer(u, "failed", call[u])
      /\ ~call[u].applied \/ call[u].stmt = "commits"
      /\ UNCHANGED <<allowWrites, mu, known, default, loaded, calls, leftover>>
  BY CallFacts DEF Tool!Rollback, Tool!Consistent, Tool!Working
<1>2. CASE call[u].conn = None
  BY <1>1, <1>2, CallFacts, AnswerKeeps DEF Tool!Rollback
<1>3. CASE call[u].conn # None
  <2>1. call[u].conn \in Tool!Conns
    BY <1>3, CallFacts DEF Tool!Local
  <2>2. PICK x \in Tool!ConnStates :
          /\ conn' = [conn EXCEPT ![call[u].conn] = x]
          /\ x.state # "busy" /\ (~allowWrites => x.state = "releasing")
    BY <1>3, <2>1, ReleasedOK DEF Tool!Rollback
  <2>3. /\ Moves(u, "idle", Tool!Over(call[u]), "failed")
        /\ Tool!Consistent("idle", Tool!Over(call[u]), "failed")
        /\ "idle" \in Tool!PC /\ "failed" \in Tool!Replies
    BY <1>1, CallFacts, AnswerOK DEF Tool!Answer, Tool!Goto, Moves, Tool!PC, Tool!Replies
  <2>4. leftover' = FALSE
    BY <1>1 DEF Tool!ToolInv, Tool!NoFunctionLeft, Tool!TypeOK
  <2> QED
    BY ZenonT(30), <1>1, <2>1, <2>2, <2>3, <2>4, CallFacts, OverOK, GiveKeeps
<1> QED
  BY <1>2, <1>3

\* What the pool does on its own.
LEMMA PoolKeeps ==
  ASSUME Tool!ToolInv, NEW c \in Tool!Conns, Tool!AfterRelease(c)
  PROVE  Tool!ToolInv'
<1>1. PICK x \in Tool!ConnStates :
        /\ conn' = [conn EXCEPT ![c] = x]
        /\ x.state = "none" \/ (x.state = "idle" /\ x.session = "ro")
  <2>1. /\ [conn[c] EXCEPT !.state = "none"] \in Tool!ConnStates
        /\ [state |-> "idle", session |-> "ro"] \in Tool!ConnStates
    BY DEF Tool!ToolInv, Tool!TypeOK, Tool!ConnStates
  <2>2. CASE conn' = [conn EXCEPT ![c].state = "none"]
    <3>1. conn' = [conn EXCEPT ![c] = [conn[c] EXCEPT !.state = "none"]]
      BY <2>2 DEF Tool!ToolInv, Tool!TypeOK
    <3>2. [conn[c] EXCEPT !.state = "none"].state = "none"
      BY DEF Tool!ToolInv, Tool!TypeOK, Tool!ConnStates
    <3> QED
      BY <2>1, <3>1, <3>2
  <2> QED
    BY <2>1, <2>2 DEF Tool!AfterRelease
<1>2. conn[c].state = "releasing"
      /\ UNCHANGED <<allowWrites, mu, known, default, loaded, toolPc, call, reply, leftover, calls>>
  BY DEF Tool!AfterRelease
<1>3. /\ conn' \in [Tool!Conns -> Tool!ConnStates] /\ conn \in [Tool!Conns -> Tool!ConnStates]
      /\ \A e \in Tool!Conns : conn'[e] = IF e = c THEN x ELSE conn[e]
  BY <1>1 DEF Tool!ToolInv, Tool!TypeOK
<1>4. Tool!TypeOK' /\ Tool!CallsOK' /\ Tool!NoFunctionLeft'
  BY <1>2, <1>3 DEF Tool!ToolInv, Tool!TypeOK, Tool!CallsOK, Tool!NoFunctionLeft
<1>5. Tool!PooledReadOnly'
  BY <1>1, <1>2, <1>3 DEF Tool!ToolInv, Tool!PooledReadOnly
<1>6. Tool!HeldOK'
  <2>1. ASSUME NEW v \in Callers, call[v].conn # None
        PROVE  /\ conn'[call[v].conn].state = "busy"
               /\ \A w \in Callers \ {v} : call[w].conn # call[v].conn
    <3>1. conn[call[v].conn].state = "busy" /\ call[v].conn \in Tool!Conns
      BY <2>1, CallFacts DEF Tool!ToolInv, Tool!HeldOK, Tool!Local
    <3> QED
      BY <1>2, <1>3, <2>1, <3>1 DEF Tool!ToolInv, Tool!HeldOK
  <2>2. ASSUME NEW e \in Tool!Conns, conn'[e].state = "busy"
        PROVE  \E v \in Callers : call[v].conn = e
    BY <1>1, <1>3, <2>2 DEF Tool!ToolInv, Tool!HeldOK
  <2> QED
    BY <1>2, <2>1, <2>2 DEF Tool!HeldOK
<1>7. Tool!PoolsOK'
  BY <1>2, <1>3 DEF Tool!ToolInv, Tool!PoolsOK
<1> QED
  BY <1>4, <1>5, <1>6, <1>7 DEF Tool!ToolInv

LEMMA ToolInit == Tool!Init => Tool!ToolInv
<1> SUFFICES ASSUME Tool!Init PROVE Tool!ToolInv
  OBVIOUS
<1>1. PICK c : c = Tool!NewCall("query", "read", "main", FALSE)
  OBVIOUS
<1>2. c \in Tool!Local /\ c.conn = None /\ ~c.asDefault /\ c.pending = {}
  BY <1>1, NewCallOK DEF Tool!NewCall, Tool!Tools, Tool!Stmts, Tool!Pools
<1>3. /\ toolPc = [u \in Callers |-> "idle"] /\ call = [u \in Callers |-> c]
      /\ reply = [u \in Callers |-> "none"]
      /\ conn = [d \in Tool!Conns |-> [state |-> "none", session |-> "ro"]]
  BY <1>1 DEF Tool!Init
<1>4. Tool!TypeOK
  <2>1. /\ allowWrites \in BOOLEAN /\ leftover \in BOOLEAN
        /\ mu \in Callers \cup {None} /\ known \in SUBSET Tool!Pools
        /\ default \in Tool!Pools /\ loaded \in SUBSET Tool!Pools
    BY DEF Tool!Init, Tool!Pools
  <2>2. calls \in 0 .. MaxCalls
    BY ToolAssumption DEF Tool!Init
  <2>3. conn \in [Tool!Conns -> Tool!ConnStates]
    BY <1>3 DEF Tool!ConnStates
  <2>4. /\ toolPc \in [Callers -> Tool!PC] /\ call \in [Callers -> Tool!Local]
        /\ reply \in [Callers -> Tool!Replies]
    BY <1>2, <1>3 DEF Tool!PC, Tool!Replies
  <2> QED
    BY <2>1, <2>2, <2>3, <2>4 DEF Tool!TypeOK
<1>5. Tool!CallsOK
  BY <1>2, <1>3 DEF Tool!CallsOK, Tool!Consistent, Tool!InOrder, Tool!Working, Tool!Before
<1>6. Tool!HeldOK
  BY <1>2, <1>3 DEF Tool!HeldOK
<1>7. Tool!PoolsOK
  BY <1>3 DEF Tool!Init, Tool!PoolsOK
<1>8. Tool!PooledReadOnly /\ Tool!NoFunctionLeft
  BY <1>3 DEF Tool!Init, Tool!PooledReadOnly, Tool!NoFunctionLeft
<1> QED
  BY <1>4, <1>5, <1>6, <1>7, <1>8 DEF Tool!ToolInv

LEMMA ToolStep == ASSUME Tool!ToolInv, [Tool!Next]_toolVars PROVE Tool!ToolInv'
<1>1. CASE UNCHANGED toolVars
  BY <1>1 DEF toolVars, Tool!ToolInv, Tool!TypeOK, Tool!PooledReadOnly,
      Tool!NoFunctionLeft, Tool!CallsOK, Tool!HeldOK, Tool!PoolsOK
<1>2. ASSUME NEW u \in Callers, Tool!Proceed(u) PROVE Tool!ToolInv'
  BY <1>2, ConnectKeeps, ConnectedKeeps, FailsBeforeKeeps, MetadataKeeps, BeginKeeps,
     ExecuteKeeps, FailKeeps, CommitKeeps, CommitLostKeeps, RollbackKeeps, RefreshKeeps
  DEF Tool!Proceed
<1>3. CASE Tool!Expire
  BY <1>3 DEF Tool!Expire, Tool!ToolInv, Tool!TypeOK, Tool!PooledReadOnly,
      Tool!NoFunctionLeft, Tool!CallsOK, Tool!HeldOK, Tool!PoolsOK
<1> QED
  BY <1>1, <1>2, <1>3, CallKeeps, PoolKeeps DEF Tool!Next

LEMMA ToolInvHolds ==
  ASSUME Tool!ToolInv
  PROVE  /\ Tool!TypeOK /\ Tool!PooledReadOnly /\ Tool!ReplyTellsEffect
         /\ Tool!ConnectionsAccounted /\ Tool!NoFunctionLeft
<1>1. Tool!ReplyTellsEffect
  BY CallFacts DEF Tool!ReplyTellsEffect, Tool!Consistent, Tool!Replies, Tool!OwnCommit
<1>2. Tool!ConnectionsAccounted
  <2> SUFFICES ASSUME NEW c \in Tool!Conns
               PROVE  conn[c].state = "busy" <=> \E u \in Callers :
                        /\ call[u].conn = c
                        /\ toolPc[u] \in {"execute", "rows", "drop", "commit", "rollback"}
                        /\ \A v \in Callers \ {u} : call[v].conn # c
    BY DEF Tool!ConnectionsAccounted
  <2>1. \A u \in Callers : call[u].conn # None => toolPc[u] \in Tool!Working
    BY CallFacts DEF Tool!Consistent
  <2>2. c # None
    BY ToolAssumption
  <2> QED
    BY <2>1, <2>2 DEF Tool!ToolInv, Tool!HeldOK, Tool!Working
<1> QED
  BY <1>1, <1>2 DEF Tool!ToolInv

\* The invariant of the tools, in the behaviours where they run and in those
\* where they rest.
THEOREM ToolInvCorrect == ConnectionSpec => []Tool!ToolInv
<1>1. ConnectionInit => Tool!ToolInv
  BY ToolInit DEF ConnectionInit
<1>2. Tool!ToolInv /\ [ConnectionNext]_all => Tool!ToolInv'
  <2> SUFFICES ASSUME Tool!ToolInv, [ConnectionNext]_all PROVE [Tool!Next]_toolVars
    BY ToolStep
  <2> QED
    BY DEF ConnectionNext, all, toolVars
<1> QED
  BY <1>1, <1>2, PTL DEF ConnectionSpec

\* The pools of a read-only client hold read-only sessions, whatever the
\* statements of any number of callers set.
THEOREM PooledReadOnlyCorrect == ConnectionSpec => []PooledReadOnly
<1>1. Tool!ToolInv => PooledReadOnly
  BY ToolInvHolds DEF PooledReadOnly
<1> QED
  BY <1>1, ToolInvCorrect, PTL

\* A reply tells what became of the statement, every connection is in its pool
\* or in the hands of one call, and no temporary function is left behind.
THEOREM CallsExactCorrect == ConnectionSpec => []CallsExact
<1>1. Tool!ToolInv => CallsExact
  BY ToolInvHolds DEF CallsExact
<1> QED
  BY <1>1, ToolInvCorrect, PTL
=============================================================================

--------------------------- MODULE Accounts_proofs ---------------------------
(***************************************************************************)
(* The client manager, for any number of tokens, databases, clients and    *)
(* requests, and any number of reloads: no connection pool is lost, every  *)
(* slot holds an open client of its own token, a close waits for queries,  *)
(* only an overtaken client survives a reload, and only a late one its     *)
(* token.  And the user accounts, for any number of users, logins,         *)
(* addresses and commands: the end of an account's use is always told, and *)
(* no address goes past the limit by more than the logins under way.       *)
(***************************************************************************)
EXTENDS MCAccounts, FiniteSetTheorems, TLAPS

\* The initial state satisfies the invariant.
LEMMA PoolInit == Init => PoolInv
<1> SUFFICES ASSUME Init PROVE PoolInv
  OBVIOUS
<1>1. TypeOK
  <2>1. 0 \in Versions
    BY ReloadAssumption DEF Versions
  <2>2. NoRequest \in Request /\ "idle" \in PC
    BY <2>1 DEF NoRequest, Request, PC, Names
  <2>3. default \in Names
    BY DEF Init, Names, Configured
  <2> QED
    BY <2>1, <2>2, <2>3 DEF Init, TypeOK
<1>2. \A t \in Tokens, d \in Databases : clients[t][d] = None
  BY DEF Init
<1>3. Mapped = {} /\ Opened = {}
  BY <1>2 DEF Mapped, Opened, Made, Init
<1>4. RequestsOK
  BY DEF RequestsOK, Init
<1>5. ClosersOK
  BY DEF ClosersOK, Init, Closers
<1>6. SlotsSound
  BY <1>2 DEF SlotsSound
<1>7. NoOrphan /\ FreshUnlessOvertaken
  BY <1>3 DEF NoOrphan, FreshUnlessOvertaken
<1>8. QueriesOutliveClose
  BY DEF QueriesOutliveClose, Init
<1> QED
  BY <1>1, <1>4, <1>5, <1>6, <1>7, <1>8 DEF PoolInv

\* A request moves on: nothing but its own place and locals, and at most
\* its token's current database, changes.
LEMMA MoveKeeps ==
  ASSUME PoolInv, NEW r \in Requests,
         NEW place \in PC, NEW locals \in Request, Goto(r, place, locals),
         place # "query",
         place # "idle" => locals.token \in Tokens,
         place \notin {"idle", "current", "access"} => locals.db \in Databases,
         place = "use" => locals.client \in Made,
         current' \in [Tokens -> Names \cup {None}],
         UNCHANGED <<configs, default, entry, clients, conn, closeVars,
                     standing, loads, histVars>>
  PROVE  PoolInv'
<1>1. TypeOK'
  BY DEF PoolInv, TypeOK, Goto, closeVars, histVars
<1>2. Made' = Made /\ Opened' = Opened /\ Mapped' = Mapped
  BY DEF Made, Opened, Mapped
<1>3. \A q \in Requests :
        IF q = r THEN pc'[q] = place /\ req'[q] = locals
                 ELSE pc'[q] = pc[q] /\ req'[q] = req[q]
  BY DEF PoolInv, TypeOK, Goto
<1>4. RequestsOK'
  BY <1>2, <1>3 DEF PoolInv, RequestsOK
<1>5. QueriesOutliveClose'
  BY <1>2, <1>3 DEF PoolInv, QueriesOutliveClose, closeVars
<1>6. ClosersOK' /\ SlotsSound' /\ FreshUnlessOvertaken'
  BY <1>2 DEF PoolInv, ClosersOK, SlotsSound, FreshUnlessOvertaken, closeVars,
              histVars
<1>7. NoOrphan'
  BY <1>2 DEF PoolInv, NoOrphan, Awaited, closeVars
<1> QED
  BY <1>1, <1>4, <1>5, <1>6, <1>7 DEF PoolInv

LEMMA NoRequestType == NoRequest \in Request /\ NoRequest.token = None
<1>1. 0 \in Versions
  BY ReloadAssumption DEF Versions
<1> QED
  BY <1>1 DEF NoRequest, Request, Names

\* A request may always finish.
LEMMA FinishKeeps ==
  ASSUME PoolInv, NEW r \in Requests, Finish(r),
         current' \in [Tokens -> Names \cup {None}],
         UNCHANGED <<configs, default, entry, clients, conn, closeVars,
                     standing, loads, histVars>>
  PROVE  PoolInv'
<1>1. NoRequest \in Request /\ "idle" \in PC
  BY ReloadAssumption DEF NoRequest, Request, PC, Names, Versions
<1> QED
  BY <1>1, MoveKeeps DEF Finish

\* What is open in the map is what a lookup may hand out.
LEMMA FoundIsMade ==
  ASSUME PoolInv, NEW r \in Requests, pc[r] \in {"lookup", "create"}, Found(r)
  PROVE  clients[req[r].token][req[r].db] \in Made
BY DEF PoolInv, TypeOK, RequestsOK, Found, SlotsSound, Opened

\* SetCurrentDatabase records a database name, or nothing.
LEMMA SetCurrentType ==
  ASSUME TypeOK, NEW t \in Tokens, NEW d \in Databases, SetCurrent(t, d)
  PROVE  current' \in [Tokens -> Names \cup {None}]
BY DEF TypeOK, SetCurrent, Names

(***************************************************************************)
(* Clients leave the map, and go to a closer with nothing else to close.   *)
(***************************************************************************)
LEMMA DetachKeeps ==
  ASSUME PoolInv, NEW k \in Closers, closing[k] = {},
         closing' \in [Closers -> SUBSET Clients],
         \A j \in Closers \ {k} : closing'[j] = closing[j],
         closing'[k] \subseteq Mapped,
         clients' \in [Tokens -> [Databases -> Clients \cup {None}]],
         \A t \in Tokens, d \in Databases :
           IF clients[t][d] \in closing'[k] THEN clients'[t][d] = None
             ELSE clients'[t][d] = clients[t][d],
         configs' \in [Databases -> Versions \cup {None}],
         \A t \in Tokens, d \in Databases :
           clients'[t][d] # None =>
             configs'[d] = configs[d] \/ configs[d] = None,
         \A t \in Tokens, d \in Databases :
           clients'[t][d] # None => t \in entry',
         default' \in Names, loads' \in Versions, entry' \subseteq Tokens,
         current' \in [Tokens -> Names \cup {None}],
         standing' \in [Tokens -> {"live", "revoked", "removed"}],
         \A t \in Tokens : standing'[t] # "removed" =>
           standing[t] # "removed" /\ t # k,
         UNCHANGED <<conn, waiting, requestVars, histVars>>
  PROVE  PoolInv'
<1> DEFINE C == closing'[k]
<1>1. Made' = Made /\ Opened' = Opened
  BY DEF Made, Opened
<1>2. \A t \in Tokens, d \in Databases : clients[t][d] # None =>
        /\ clients[t][d] \in Opened
        /\ conn[clients[t][d]].token = t
        /\ conn[clients[t][d]].db = d
  BY DEF PoolInv, SlotsSound
<1>3. Mapped' = Mapped \ C
  BY DEF Mapped
<1>4. C \subseteq Made /\ C \subseteq Clients
  BY <1>2 DEF Mapped, Opened, Made
<1>5. \A j \in Closers : closing'[j] = IF j = k THEN C ELSE closing[j]
  OBVIOUS
<1>6. TypeOK'
  BY DEF PoolInv, TypeOK, requestVars, histVars
<1>7. RequestsOK'
  BY <1>1 DEF PoolInv, RequestsOK, requestVars
<1>8. ClosersOK'
  <2>1. ASSUME NEW j \in Closers PROVE closing'[j] \subseteq Made' \ Mapped'
    BY <1>1, <1>3, <1>4, <1>5 DEF PoolInv, ClosersOK
  <2>2. ASSUME NEW t \in Tokens, standing'[t] # "removed"
        PROVE  closing'[t] = {}
    <3>1. t \in Closers
      BY DEF Closers
    <3> QED
      BY <2>2, <3>1, <1>5 DEF PoolInv, ClosersOK
  <2> QED
    BY <2>1, <2>2 DEF ClosersOK
<1>9. SlotsSound'
  BY <1>1, <1>2 DEF SlotsSound
<1>10. NoOrphan'
  <2> SUFFICES ASSUME NEW c \in Opened'
               PROVE  \/ clients'[conn[c].token][conn[c].db] = c
                      \/ \E j \in Closers : c \in closing'[j]
    BY DEF NoOrphan, Awaited
  <2>1. c \in Clients /\ c # None /\ conn[c] \in Connection
    BY <1>1, NameAssumption DEF Opened, Made, PoolInv, TypeOK
  <2>2. conn[c].token \in Tokens /\ conn[c].db \in Databases
    BY <2>1 DEF Connection
  <2>3. CASE clients[conn[c].token][conn[c].db] = c
    BY <2>2, <2>3, <1>5
  <2>4. CASE \E j \in Closers : c \in closing[j]
    BY <2>4, <1>5
  <2> QED
    BY <2>3, <2>4, <1>1 DEF PoolInv, NoOrphan, Awaited
<1>11. QueriesOutliveClose'
  BY <1>1 DEF PoolInv, QueriesOutliveClose, requestVars
<1>12. FreshUnlessOvertaken'
  <2> SUFFICES ASSUME NEW c \in Mapped'
               PROVE  conn[c].version = configs'[conn[c].db] \/ c \in overtaken
    BY DEF FreshUnlessOvertaken, histVars
  <2>1. PICK t \in Tokens, d \in Databases : clients'[t][d] = c /\ c # None
    BY DEF Mapped
  <2>2. clients[t][d] = c /\ c \in Mapped
    BY <2>1, <1>3
  <2>3. conn[c].db = d
    BY <1>2, <2>1, <2>2
  <2>4. conn[c] \in Connection
    BY <2>1, <2>2, <1>2 DEF PoolInv, TypeOK, Opened, Made
  <2>5. conn[c].version # None
    BY <2>4, ConnectionAssumption DEF Connection
  <2> QED
    BY <2>1, <2>2, <2>3, <2>5 DEF PoolInv, FreshUnlessOvertaken
<1> QED
  BY <1>6, <1>7, <1>8, <1>9, <1>10, <1>11, <1>12 DEF PoolInv

\* A connection is checked out of an open client, or given back.
LEMMA UseKeeps ==
  ASSUME PoolInv, NEW r \in Requests, Use(r)
  PROVE  PoolInv'
<1>1. "select" \in PC /\ req[r] \in Request
  BY DEF PC, PoolInv, TypeOK
<1>2. req[r].token \in Tokens /\ req[r].db \in Databases /\ req[r].client \in Made
  BY DEF PoolInv, RequestsOK, Use
<1>3. current' \in [Tokens -> Names \cup {None}]
  BY DEF PoolInv, TypeOK, Use, managerVars
<1>4. CASE Goto(r, "select", req[r]) /\ UNCHANGED conn
  BY <1>1, <1>2, <1>3, <1>4, MoveKeeps DEF Use, managerVars
<1>5. CASE Finish(r) /\ UNCHANGED conn
  BY <1>3, <1>5, FinishKeeps DEF Use, managerVars
<1>6. CASE /\ conn[req[r].client].open
           /\ conn' = [conn EXCEPT ![req[r].client].queries = @ \cup {r}]
           /\ Goto(r, "query", req[r])
  <2> DEFINE c == req[r].client
             e == [conn[c] EXCEPT !.queries = @ \cup {r}]
  <2>1. c \in Made /\ c \in Clients /\ conn[c] \in Connection
    BY <1>2 DEF Made, PoolInv, TypeOK
  <2>2. /\ e \in Connection /\ e.open = conn[c].open /\ e.token = conn[c].token
        /\ e.db = conn[c].db /\ e.version = conn[c].version
        /\ e.queries = conn[c].queries \cup {r}
    BY <2>1 DEF Connection
  <2>3. conn' = [conn EXCEPT ![c] = e]
    BY <1>6
  <2> HIDE DEF e
  <2>4. \A b \in Clients : conn'[b] = IF b = c THEN e ELSE conn[b]
    BY <2>3 DEF PoolInv, TypeOK
  <2>5. "query" \in PC /\ \A q \in Requests :
          IF q = r THEN pc'[q] = "query" /\ req'[q] = req[q]
                   ELSE pc'[q] = pc[q] /\ req'[q] = req[q]
    BY <1>6 DEF PoolInv, TypeOK, Goto, PC
  <2>6. TypeOK'
    <3>1. conn' \in [Clients -> Connection \cup {None}]
      BY <2>2, <2>3 DEF PoolInv, TypeOK
    <3>2. pc' \in [Requests -> PC] /\ req' \in [Requests -> Request]
      BY <1>6, <2>5 DEF PoolInv, TypeOK, Goto
    <3> QED
      BY <3>1, <3>2 DEF PoolInv, TypeOK, Use, managerVars, closeVars, histVars
  <2>7. Made' = Made
    BY <2>1, <2>2, <2>4, ConnectionAssumption DEF Made
  <2>8. Opened' = Opened
    BY <2>1, <2>2, <2>4, <2>7 DEF Opened, Made
  <2>9. Mapped' = Mapped
    BY DEF Mapped, Use, managerVars
  <2>10. \A b \in Made : /\ conn'[b].token = conn[b].token
                         /\ conn'[b].db = conn[b].db
                         /\ conn'[b].version = conn[b].version
                         /\ conn[b].queries \subseteq conn'[b].queries
    BY <2>2, <2>4 DEF Made
  <2>11. RequestsOK'
    BY <1>2, <2>1, <2>2, <2>4, <2>5, <2>7, <2>10 DEF PoolInv, RequestsOK
  <2>12. ClosersOK'
    BY <2>7, <2>9 DEF PoolInv, ClosersOK, Use, closeVars
  <2>13. SlotsSound'
    BY <2>8, <2>10 DEF PoolInv, SlotsSound, Use, managerVars, Opened
  <2>14. NoOrphan'
    BY <2>8, <2>10 DEF PoolInv, NoOrphan, Awaited, Use, managerVars, closeVars,
                       Opened
  <2>15. QueriesOutliveClose'
    BY <1>6, <2>1, <2>5, <2>7, <2>8
    DEF PoolInv, QueriesOutliveClose, Use, closeVars, Opened
  <2>16. FreshUnlessOvertaken'
    <3>1. Mapped \subseteq Made
      BY DEF Mapped, PoolInv, SlotsSound, Opened
    <3> QED
      BY <2>9, <2>10, <3>1
      DEF PoolInv, FreshUnlessOvertaken, Use, managerVars, histVars
  <2> QED
    BY <2>6, <2>11, <2>12, <2>13, <2>14, <2>15, <2>16 DEF PoolInv
<1> QED
  BY <1>4, <1>5, <1>6 DEF Use

LEMMA EndQueryKeeps ==
  ASSUME PoolInv, NEW r \in Requests, EndQuery(r)
  PROVE  PoolInv'
<1> DEFINE c == req[r].client
           e == [conn[c] EXCEPT !.queries = @ \ {r}]
<1>1. c \in Made /\ c \in Clients /\ conn[c] \in Connection
  BY DEF Made, PoolInv, TypeOK, RequestsOK, EndQuery
<1>2. /\ e \in Connection /\ e.open = conn[c].open /\ e.token = conn[c].token
      /\ e.db = conn[c].db /\ e.version = conn[c].version
      /\ e.queries = conn[c].queries \ {r}
  BY <1>1 DEF Connection
<1>3. conn' = [conn EXCEPT ![c] = e]
  BY DEF EndQuery
<1> HIDE DEF e
<1>4. \A b \in Clients : conn'[b] = IF b = c THEN e ELSE conn[b]
  BY <1>3 DEF PoolInv, TypeOK
<1>5. NoRequest \in Request /\ "idle" \in PC
  BY ReloadAssumption DEF NoRequest, Request, PC, Names, Versions
<1>6. \A q \in Requests :
        IF q = r THEN pc'[q] = "idle" /\ req'[q] = NoRequest
                 ELSE pc'[q] = pc[q] /\ req'[q] = req[q]
  BY DEF PoolInv, TypeOK, Goto, Finish, EndQuery
<1>7. TypeOK'
  <2>1. conn' \in [Clients -> Connection \cup {None}]
    BY <1>2, <1>3 DEF PoolInv, TypeOK
  <2>2. pc' \in [Requests -> PC] /\ req' \in [Requests -> Request]
    BY <1>5 DEF PoolInv, TypeOK, Goto, Finish, EndQuery
  <2> QED
    BY <2>1, <2>2 DEF PoolInv, TypeOK, EndQuery, managerVars, closeVars, histVars
<1>8. Made' = Made
  BY <1>1, <1>2, <1>4, ConnectionAssumption DEF Made
<1>9. Opened' = Opened /\ Mapped' = Mapped
  BY <1>1, <1>2, <1>4, <1>8 DEF Opened, Made, Mapped, EndQuery, managerVars
<1>10. \A b \in Made :
         /\ conn'[b].token = conn[b].token
         /\ conn'[b].db = conn[b].db
         /\ conn'[b].version = conn[b].version
         /\ \A q \in Requests \ {r} :
              q \in conn[b].queries => q \in conn'[b].queries
  BY <1>2, <1>4 DEF Made
<1>11. RequestsOK'
  BY <1>6, <1>8, <1>10 DEF PoolInv, RequestsOK
<1>12. ClosersOK'
  BY <1>8, <1>9 DEF PoolInv, ClosersOK, EndQuery, closeVars
<1>13. SlotsSound'
  BY <1>9, <1>10 DEF PoolInv, SlotsSound, EndQuery, managerVars, Opened
<1>14. NoOrphan'
  BY <1>9, <1>10
  DEF PoolInv, NoOrphan, Awaited, EndQuery, managerVars, closeVars, Opened
<1>15. QueriesOutliveClose'
  BY <1>6, <1>8, <1>9 DEF PoolInv, QueriesOutliveClose, EndQuery, closeVars
<1>16. FreshUnlessOvertaken'
  <2>1. Mapped \subseteq Made
    BY DEF Mapped, PoolInv, SlotsSound, Opened
  <2> QED
    BY <1>9, <1>10, <2>1
    DEF PoolInv, FreshUnlessOvertaken, EndQuery, managerVars, histVars
<1> QED
  BY <1>7, <1>11, <1>12, <1>13, <1>14, <1>15, <1>16 DEF PoolInv

\* A client is created in an empty slot: the old occupant of a slot that is
\* not Found is no open client, and by SlotsSound no client at all.
LEMMA ConnectKeeps ==
  ASSUME PoolInv, NEW r \in Requests, NEW c \in Clients,
         pc[r] = "create", ~Found(r), Connect(r, c),
         UNCHANGED <<configs, default, current, closeVars, standing, loads>>
  PROVE  PoolInv'
<1> DEFINE t == req[r].token
           d == req[r].db
           e == [token |-> t, db |-> d, version |-> req[r].version,
                 open |-> TRUE, queries |-> {}]
           l == [req[r] EXCEPT !.client = c]
<1>1. t \in Tokens /\ d \in Databases /\ req[r] \in Request
  BY DEF PoolInv, TypeOK, RequestsOK
<1>2. e \in Connection
  BY <1>1 DEF Connection, Request
<1>3. /\ l \in Request /\ l.token = t /\ l.db = d /\ l.client = c
      /\ "use" \in PC
  BY <1>1 DEF Request, PC
<1>4. c \notin Made /\ conn' = [conn EXCEPT ![c] = e] /\ Goto(r, "use", l)
  BY DEF Connect
<1>5. e.token = t /\ e.db = d /\ e.open /\ e.version = req[r].version
  OBVIOUS
<1> HIDE DEF e, l
<1>6. \A b \in Clients : conn'[b] = IF b = c THEN e ELSE conn[b]
  BY <1>4 DEF PoolInv, TypeOK
<1>7. clients[t][d] = None
  BY <1>1 DEF Found, PoolInv, SlotsSound, Opened
<1>8. \A u \in Tokens, b \in Databases :
        clients'[u][b] = IF u = t /\ b = d THEN c ELSE clients[u][b]
  BY <1>1 DEF Connect, PoolInv, TypeOK
<1>9. c # None
  BY NameAssumption
<1>10. Made' = Made \cup {c}
  BY <1>2, <1>6, ConnectionAssumption DEF Made
<1>11. Opened' = Opened \cup {c}
  BY <1>4, <1>5, <1>6, <1>10 DEF Opened, Made
<1>12. Mapped' = Mapped \cup {c}
  BY <1>1, <1>7, <1>8, <1>9 DEF Mapped
<1>13. \A b \in Made : conn'[b] = conn[b] /\ b # c
  BY <1>4, <1>6 DEF Made
<1>14. \A q \in Requests :
         IF q = r THEN pc'[q] = "use" /\ req'[q] = l
                  ELSE pc'[q] = pc[q] /\ req'[q] = req[q]
  BY <1>4 DEF PoolInv, TypeOK, Goto
<1>15. TypeOK'
  <2>1. conn' \in [Clients -> Connection \cup {None}]
    BY <1>2, <1>4 DEF PoolInv, TypeOK
  <2>2. pc' \in [Requests -> PC] /\ req' \in [Requests -> Request]
    BY <1>3, <1>4 DEF PoolInv, TypeOK, Goto
  <2>3. clients' \in [Tokens -> [Databases -> Clients \cup {None}]]
    BY <1>1 DEF PoolInv, TypeOK, Connect
  <2>4. overtaken' \subseteq Clients /\ late' \subseteq Clients /\ entry' \subseteq Tokens
    BY <1>1 DEF PoolInv, TypeOK, Connect
  <2> QED
    BY <2>1, <2>2, <2>3, <2>4 DEF PoolInv, TypeOK, closeVars
<1>16. RequestsOK'
  BY <1>1, <1>3, <1>10, <1>13, <1>14 DEF PoolInv, RequestsOK
<1>17. ClosersOK'
  BY <1>4, <1>10, <1>12 DEF PoolInv, ClosersOK, closeVars
<1>18. SlotsSound'
  <2> SUFFICES ASSUME NEW u \in Tokens, NEW b \in Databases,
                      clients'[u][b] # None
               PROVE  /\ clients'[u][b] \in Opened'
                      /\ conn'[clients'[u][b]].token = u
                      /\ conn'[clients'[u][b]].db = b
                      /\ u \in entry'
    BY DEF SlotsSound
  <2>1. CASE u = t /\ b = d
    BY <2>1, <1>5, <1>6, <1>8, <1>11 DEF Connect
  <2>2. CASE ~(u = t /\ b = d)
    BY <2>2, <1>8, <1>11, <1>13 DEF Connect, PoolInv, SlotsSound, Opened
  <2> QED
    BY <2>1, <2>2
<1>19. NoOrphan'
  <2> SUFFICES ASSUME NEW b \in Opened'
               PROVE  \/ clients'[conn'[b].token][conn'[b].db] = b
                      \/ \E k \in Closers : b \in closing[k]
    BY DEF NoOrphan, Awaited, closeVars
  <2>1. CASE b = c
    BY <2>1, <1>1, <1>5, <1>6, <1>8
  <2>2. CASE b # c
    <3>1. b \in Opened /\ b \in Made /\ conn'[b] = conn[b] /\ b # None
      BY <2>2, <1>11, <1>13, NameAssumption DEF Opened, Made
    <3>2. conn[b].token \in Tokens /\ conn[b].db \in Databases
      BY <3>1 DEF PoolInv, TypeOK, Made, Connection
    <3> QED
      BY <3>1, <3>2, <1>7, <1>8 DEF PoolInv, NoOrphan, Awaited
  <2> QED
    BY <2>1, <2>2
<1>20. QueriesOutliveClose'
  BY <1>10, <1>11, <1>14 DEF PoolInv, QueriesOutliveClose, closeVars
<1>21. FreshUnlessOvertaken'
  <2>1. Mapped \subseteq Made
    BY DEF Mapped, PoolInv, SlotsSound, Opened
  <2>2. conn'[c].version = configs[conn'[c].db] \/ c \in overtaken'
    BY <1>5, <1>6 DEF Connect
  <2>3. overtaken \subseteq overtaken'
    BY DEF Connect
  <2> QED
    BY <1>12, <1>13, <2>1, <2>2, <2>3 DEF PoolInv, FreshUnlessOvertaken
<1> QED
  BY <1>15, <1>16, <1>17, <1>18, <1>19, <1>20, <1>21 DEF PoolInv

\* Client.Close marks closed a client that is out of the map.
LEMMA StartCloseKeeps ==
  ASSUME PoolInv, NEW k \in Closers, NEW c \in Clients, StartClose(k, c)
  PROVE  PoolInv'
<1> DEFINE e == [conn[c] EXCEPT !.open = FALSE]
<1>1. c \in Made /\ c \notin Mapped /\ conn[c] \in Connection
  BY DEF Made, PoolInv, TypeOK, ClosersOK, StartClose
<1>2. /\ e \in Connection /\ e.open = FALSE /\ e.token = conn[c].token
      /\ e.db = conn[c].db /\ e.version = conn[c].version
      /\ e.queries = conn[c].queries
  BY <1>1 DEF Connection
<1>3. conn' = [conn EXCEPT ![c] = e]
  BY DEF StartClose
<1> HIDE DEF e
<1>4. \A b \in Clients : conn'[b] = IF b = c THEN e ELSE conn[b]
  BY <1>3 DEF PoolInv, TypeOK
<1>5. \A j \in Closers :
        /\ closing'[j] = IF j = k THEN closing[j] \ {c} ELSE closing[j]
        /\ waiting'[j] = IF j = k THEN c ELSE waiting[j]
  BY DEF StartClose, PoolInv, TypeOK
<1>6. TypeOK'
  <2>1. conn' \in [Clients -> Connection \cup {None}]
    BY <1>2, <1>3 DEF PoolInv, TypeOK
  <2> QED
    BY <2>1 DEF PoolInv, TypeOK, StartClose, managerVars, requestVars, histVars
<1>7. Made' = Made
  BY <1>1, <1>2, <1>4, ConnectionAssumption DEF Made
<1>8. Opened' = Opened \ {c}
  BY <1>2, <1>4, <1>7 DEF Opened, Made
<1>9. Mapped' = Mapped
  BY DEF Mapped, StartClose, managerVars
<1>10. \A b \in Made : /\ conn'[b].token = conn[b].token
                       /\ conn'[b].db = conn[b].db
                       /\ conn'[b].version = conn[b].version
                       /\ conn'[b].queries = conn[b].queries
  BY <1>2, <1>4 DEF Made
<1>11. RequestsOK'
  BY <1>7, <1>10 DEF PoolInv, RequestsOK, StartClose, requestVars
<1>12. ClosersOK'
  BY <1>5, <1>7, <1>9 DEF PoolInv, ClosersOK, StartClose, Closers
<1>13. SlotsSound'
  <2>1. \A u \in Tokens, b \in Databases : clients[u][b] # None => clients[u][b] # c
    BY <1>1 DEF Mapped
  <2> QED
    BY <2>1, <1>8, <1>10 DEF PoolInv, SlotsSound, StartClose, managerVars, Opened
<1>14. NoOrphan'
  BY <1>5, <1>8, <1>10
  DEF PoolInv, NoOrphan, Awaited, StartClose, managerVars, Opened
<1>15. QueriesOutliveClose'
  <2> SUFFICES ASSUME NEW r \in Requests, pc[r] = "query"
               PROVE  /\ req[r].client \in Made
                      /\ \/ req[r].client \in Opened \ {c}
                         \/ \E j \in Closers : waiting'[j] = req[r].client
    BY <1>7, <1>8 DEF QueriesOutliveClose, StartClose, requestVars
  <2>1. CASE req[r].client = c
    BY <2>1, <1>1, <1>5
  <2>2. CASE req[r].client # c
    <3>1. waiting[k] = None /\ None \notin Made
      BY NameAssumption DEF StartClose, Made
    <3> QED
      BY <2>2, <3>1, <1>5 DEF PoolInv, QueriesOutliveClose
  <2> QED
    BY <2>1, <2>2
<1>16. FreshUnlessOvertaken'
  <2>1. Mapped \subseteq Made
    BY DEF Mapped, PoolInv, SlotsSound, Opened
  <2> QED
    BY <1>9, <1>10, <2>1
    DEF PoolInv, FreshUnlessOvertaken, StartClose, managerVars, histVars
<1> QED
  BY <1>6, <1>11, <1>12, <1>13, <1>14, <1>15, <1>16 DEF PoolInv

\* Close returns once the pool has no query on it.
LEMMA FinishCloseKeeps ==
  ASSUME PoolInv, NEW k \in Closers, FinishClose(k)
  PROVE  PoolInv'
<1>1. Made' = Made /\ Opened' = Opened /\ Mapped' = Mapped
  BY DEF Made, Opened, Mapped, FinishClose, managerVars
<1>2. TypeOK'
  BY DEF PoolInv, TypeOK, FinishClose, managerVars, requestVars, histVars
<1>3. QueriesOutliveClose'
  <2> SUFFICES ASSUME NEW r \in Requests, pc[r] = "query"
               PROVE  /\ req[r].client \in Made
                      /\ \/ req[r].client \in Opened
                         \/ \E j \in Closers : waiting'[j] = req[r].client
    BY <1>1 DEF QueriesOutliveClose, FinishClose, requestVars
  <2>1. req[r].client # waiting[k]
    BY DEF PoolInv, RequestsOK, FinishClose
  <2>2. \A j \in Closers \ {k} : waiting'[j] = waiting[j]
    BY DEF FinishClose, PoolInv, TypeOK
  <2> QED
    BY <2>1, <2>2 DEF PoolInv, QueriesOutliveClose
<1> QED
  BY <1>1, <1>2, <1>3
  DEF PoolInv, RequestsOK, ClosersOK, SlotsSound, NoOrphan, Awaited,
      FreshUnlessOvertaken, FinishClose, managerVars, requestVars, histVars

(***************************************************************************)
(* Each operation keeps the invariant.                                     *)
(***************************************************************************)

\* The operations that only move a request.
LEMMA BeginKeeps ==
  ASSUME PoolInv, NEW r \in Requests, NEW t \in Tokens, Begin(r, t)
  PROVE  PoolInv'
<1>1. current' \in [Tokens -> Names \cup {None}]
  BY DEF PoolInv, TypeOK, Begin, managerVars
<1>2. {"current", "lookup", "select"} \subseteq PC
  BY DEF PC
<1>3. [NoRequest EXCEPT !.token = t] \in Request
  BY NoRequestType DEF Request
<1>4. UNCHANGED <<configs, default, entry, clients, conn, closeVars, standing,
                  loads, histVars>>
  BY DEF Begin, managerVars
<1>5. CASE Goto(r, "current", [NoRequest EXCEPT !.token = t])
  <2> DEFINE l == [NoRequest EXCEPT !.token = t]
  <2>1. l.token = t /\ l \in Request /\ Goto(r, "current", l)
    BY <1>3, <1>5 DEF NoRequest
  <2> HIDE DEF l
  <2> QED
    BY <1>1, <1>2, <1>4, <2>1, MoveKeeps
<1>6. CASE \E d \in Access[t] :
             Goto(r, "lookup", [NoRequest EXCEPT !.token = t, !.db = d,
                                                 !.switch = TRUE])
  <2>1. PICK d \in Access[t] :
          Goto(r, "lookup", [NoRequest EXCEPT !.token = t, !.db = d,
                                              !.switch = TRUE])
    BY <1>6
  <2>2. d \in Databases
    BY NameAssumption
  <2> DEFINE l == [NoRequest EXCEPT !.token = t, !.db = d, !.switch = TRUE]
  <2>3. l.token = t /\ l.db = d /\ Goto(r, "lookup", l)
    BY <2>1 DEF NoRequest
  <2>4. l \in Request
    BY <2>2, NoRequestType DEF Request, Names
  <2> HIDE DEF l
  <2> QED
    BY <1>1, <1>2, <1>4, <2>2, <2>3, <2>4, MoveKeeps
<1>7. CASE \E d \in Access[t] :
             Goto(r, "select", [NoRequest EXCEPT !.token = t, !.db = d])
  <2>1. PICK d \in Access[t] :
          Goto(r, "select", [NoRequest EXCEPT !.token = t, !.db = d])
    BY <1>7
  <2>2. d \in Databases
    BY NameAssumption
  <2> DEFINE l == [NoRequest EXCEPT !.token = t, !.db = d]
  <2>3. l.token = t /\ l.db = d /\ Goto(r, "select", l)
    BY <2>1 DEF NoRequest
  <2>4. l \in Request
    BY <2>2, NoRequestType DEF Request, Names
  <2> HIDE DEF l
  <2> QED
    BY <1>1, <1>2, <1>4, <2>2, <2>3, <2>4, MoveKeeps
<1> QED
  BY <1>5, <1>6, <1>7 DEF Begin

LEMMA ReadKeeps ==
  ASSUME PoolInv, NEW r \in Requests, ReadCurrent(r) \/ CheckAccess(r)
  PROVE  PoolInv'
<1>1. current' \in [Tokens -> Names \cup {None}]
  BY DEF PoolInv, TypeOK, ReadCurrent, CheckAccess, managerVars
<1>2. {"access", "lookup", "prefer"} \subseteq PC
  BY DEF PC
<1>3. req[r] \in Request /\ req[r].token \in Tokens
  BY DEF PoolInv, TypeOK, RequestsOK, ReadCurrent, CheckAccess
<1>4. UNCHANGED <<configs, default, entry, clients, conn, closeVars, standing,
                  loads, histVars>>
  BY DEF ReadCurrent, CheckAccess, managerVars
<1>5. ASSUME NEW d \in Names
      PROVE  LET l == [req[r] EXCEPT !.db = d]
             IN  l \in Request /\ l.token = req[r].token /\ l.db = d
  BY <1>3 DEF Request
<1>6. CASE ReadCurrent(r)
  <2> DEFINE d == IF current[req[r].token] = None THEN default
                                                 ELSE current[req[r].token]
             l == [req[r] EXCEPT !.db = d]
  <2>1. d \in Names
    BY <1>3 DEF PoolInv, TypeOK
  <2>2. l \in Request /\ l.token = req[r].token
    BY <1>5, <2>1
  <2>3. Goto(r, "access", l)
    BY <1>6 DEF ReadCurrent
  <2> HIDE DEF l
  <2> QED
    BY <1>1, <1>2, <1>3, <1>4, <2>2, <2>3, MoveKeeps
<1>7. CASE CheckAccess(r)
  <2> DEFINE accessible == Configured \cap Access[req[r].token]
  <2>1. CASE Finish(r)
    BY <1>1, <1>4, <2>1, FinishKeeps
  <2>2. CASE req[r].db \in accessible /\ Goto(r, "lookup", req[r])
    <3>1. req[r].db \in Databases
      BY <2>2 DEF Configured
    <3> QED
      BY <1>1, <1>2, <1>3, <1>4, <2>2, <3>1, MoveKeeps
  <2>3. CASE \E d \in accessible : Goto(r, "prefer", [req[r] EXCEPT !.db = d])
    <3>1. PICK d \in accessible : Goto(r, "prefer", [req[r] EXCEPT !.db = d])
      BY <2>3
    <3>2. d \in Databases /\ d \in Names
      BY DEF Configured, Names
    <3> DEFINE l == [req[r] EXCEPT !.db = d]
    <3>3. l \in Request /\ l.token = req[r].token /\ l.db = d
      BY <1>5, <3>2
    <3> HIDE DEF l
    <3> QED
      BY <1>1, <1>2, <1>3, <1>4, <3>1, <3>2, <3>3, MoveKeeps DEF l
  <2> QED
    BY <1>7, <2>1, <2>2, <2>3 DEF CheckAccess
<1> QED
  BY <1>6, <1>7

LEMMA PreferKeeps ==
  ASSUME PoolInv, NEW r \in Requests, Prefer(r) \/ Select(r)
  PROVE  PoolInv'
<1>1. req[r] \in Request /\ req[r].token \in Tokens /\ req[r].db \in Databases
  BY DEF PoolInv, TypeOK, RequestsOK, Prefer, Select
<1>2. current' \in [Tokens -> Names \cup {None}]
  BY <1>1, SetCurrentType DEF PoolInv, Prefer, Select
<1>3. CASE Prefer(r)
  <2>1. "lookup" \in PC /\ Goto(r, "lookup", req[r])
    BY <1>3 DEF PC, Prefer
  <2> QED
    BY <1>1, <1>2, <1>3, <2>1, MoveKeeps DEF Prefer
<1>4. CASE Select(r)
  BY <1>2, <1>4, FinishKeeps DEF Select
<1> QED
  BY <1>3, <1>4

\* A lookup, or the second look, that hands out the client of the slot.
LEMMA FoundKeeps ==
  ASSUME PoolInv, NEW r \in Requests, pc[r] \in {"lookup", "create"}, Found(r),
         FoundClient(r),
         UNCHANGED <<managerVars, conn, closeVars, standing, loads, histVars>>
  PROVE  PoolInv'
<1> DEFINE c == clients[req[r].token][req[r].db]
           l == [req[r] EXCEPT !.client = c]
<1>1. c \in Made
  BY FoundIsMade
<1>2. req[r] \in Request /\ req[r].token \in Tokens /\ req[r].db \in Databases
  BY DEF PoolInv, TypeOK, RequestsOK
<1>3. /\ l \in Request /\ l.token \in Tokens /\ l.db \in Databases
      /\ l.client \in Made /\ "use" \in PC
  BY <1>1, <1>2 DEF Request, PC, Made
<1>4. Goto(r, "use", l)
  BY DEF FoundClient
<1>5. current' \in [Tokens -> Names \cup {None}]
  BY DEF PoolInv, TypeOK, managerVars
<1> HIDE DEF l
<1> QED
  BY <1>3, <1>4, <1>5, MoveKeeps DEF managerVars

LEMMA LookupKeeps ==
  ASSUME PoolInv, NEW r \in Requests, Lookup(r)
  PROVE  PoolInv'
<1>1. current' \in [Tokens -> Names \cup {None}]
  BY DEF PoolInv, TypeOK, Lookup, managerVars
<1>2. req[r] \in Request /\ req[r].token \in Tokens /\ req[r].db \in Databases
  BY DEF PoolInv, TypeOK, RequestsOK, Lookup
<1>3. CASE Found(r) /\ FoundClient(r)
  BY <1>3, FoundKeeps DEF Lookup
<1>4. CASE Finish(r)
  BY <1>1, <1>4, FinishKeeps DEF Lookup, managerVars
<1>5. CASE /\ configs[req[r].db] # None
           /\ Goto(r, "create", [req[r] EXCEPT !.version = configs[req[r].db]])
  <2> DEFINE l == [req[r] EXCEPT !.version = configs[req[r].db]]
  <2>1. configs[req[r].db] \in Versions
    BY <1>2, <1>5 DEF PoolInv, TypeOK
  <2>2. l \in Request /\ l.token = req[r].token /\ l.db = req[r].db
    BY <1>2, <2>1 DEF Request
  <2>3. Goto(r, "create", l) /\ "create" \in PC
    BY <1>5 DEF PC
  <2> HIDE DEF l
  <2> QED
    BY <1>1, <1>2, <2>2, <2>3, MoveKeeps DEF Lookup, managerVars
<1> QED
  BY <1>3, <1>4, <1>5 DEF Lookup

LEMMA CreateKeeps ==
  ASSUME PoolInv, NEW r \in Requests, Create(r)
  PROVE  PoolInv'
<1>1. current' \in [Tokens -> Names \cup {None}]
  BY DEF PoolInv, TypeOK, Create
<1>2. CASE Found(r) /\ FoundClient(r) /\ UNCHANGED <<entry, clients, conn, histVars>>
  BY <1>2, FoundKeeps DEF Create, managerVars
<1>3. CASE Finish(r) /\ UNCHANGED <<entry, clients, conn, histVars>>
  BY <1>1, <1>3, FinishKeeps DEF Create
<1>4. CASE ~Found(r) /\ \E c \in Clients : Connect(r, c)
  BY <1>4, ConnectKeeps DEF Create
<1> QED
  BY <1>2, <1>3, <1>4 DEF Create

\* The operations that take clients out of the map.
LEMMA SelectOthersKeeps ==
  ASSUME PoolInv, NEW t \in Tokens, NEW d \in Databases,
         SelectAndCloseOthers(t, d)
  PROVE  PoolInv'
<1> DEFINE C == {clients[t][o] : o \in Databases \ {d}} \ {None}
<1>1. Mu \in Closers /\ closing[Mu] = {} /\ \A u \in Tokens : u # Mu
  BY NameAssumption DEF Closers, SelectAndCloseOthers, Unlocked
<1>2. closing' = [closing EXCEPT ![Mu] = C]
  BY DEF SelectAndCloseOthers, CloseLocked
<1>3. C \subseteq Mapped /\ C \in SUBSET Clients
  BY DEF Mapped, PoolInv, TypeOK
<1>4. \A u \in Tokens, b \in Databases : clients'[u][b] =
        IF u = t /\ b # d THEN None ELSE clients[u][b]
  BY DEF SelectAndCloseOthers, PoolInv, TypeOK
<1>5. clients' \in [Tokens -> [Databases -> Clients \cup {None}]]
  BY DEF SelectAndCloseOthers, PoolInv, TypeOK
<1>6. \A u \in Tokens, b \in Databases :
        IF clients[u][b] \in C THEN clients'[u][b] = None
                               ELSE clients'[u][b] = clients[u][b]
  BY <1>4 DEF PoolInv, SlotsSound
<1>7. current' \in [Tokens -> Names \cup {None}]
  BY SetCurrentType DEF SelectAndCloseOthers, PoolInv
<1>8. \A u \in Tokens, b \in Databases : clients'[u][b] # None => u \in entry
  BY <1>4 DEF PoolInv, SlotsSound
<1>9. UNCHANGED <<configs, default, loads, entry, standing, conn, waiting,
                  requestVars, histVars>>
  BY DEF SelectAndCloseOthers, CloseLocked
<1>20. /\ closing' \in [Closers -> SUBSET Clients]
       /\ closing'[Mu] = C
       /\ \A j \in Closers \ {Mu} : closing'[j] = closing[j]
  BY <1>1, <1>2, <1>3 DEF PoolInv, TypeOK
<1> HIDE DEF C
<1>10. /\ configs' \in [Databases -> Versions \cup {None}]
       /\ default' \in Names /\ loads' \in Versions /\ entry' \subseteq Tokens
       /\ standing' \in [Tokens -> {"live", "revoked", "removed"}]
  BY <1>9 DEF PoolInv, TypeOK
<1>11. \A u \in Tokens : standing'[u] # "removed" =>
         standing[u] # "removed" /\ u # Mu
  BY <1>1, <1>9
<1>12. /\ \A u \in Tokens, b \in Databases :
            clients'[u][b] # None => configs'[b] = configs[b] \/ configs[b] = None
       /\ \A u \in Tokens, b \in Databases :
            clients'[u][b] # None => u \in entry'
  BY <1>8, <1>9
<1>13. UNCHANGED <<conn, waiting, requestVars, histVars>>
  BY <1>9
<1> QED
  BY <1>1, <1>3, <1>5, <1>6, <1>7, <1>10, <1>11, <1>12, <1>13, <1>20, DetachKeeps

LEMMA ReloadKeeps ==
  ASSUME PoolInv, NEW new \in [Databases -> Versions \cup {None}],
         NEW first \in Names, Reload(new, first)
  PROVE  PoolInv'
<1> DEFINE C == {clients[t][d] : t \in Tokens, d \in Ended(new)} \ {None}
<1>1. Mu \in Closers /\ closing[Mu] = {} /\ \A u \in Tokens : u # Mu
  BY NameAssumption DEF Closers, Reload, Unlocked
<1>2. closing' = [closing EXCEPT ![Mu] = C]
  BY DEF Reload, CloseLocked
<1>3. Ended(new) \subseteq Databases
  BY DEF Ended, Configured
<1>4. C \subseteq Mapped /\ C \in SUBSET Clients
  BY <1>3 DEF Mapped, PoolInv, TypeOK
<1>5. \A u \in Tokens, b \in Databases : clients'[u][b] =
        IF b \in Ended(new) THEN None ELSE clients[u][b]
  BY DEF Reload
<1>6. clients' \in [Tokens -> [Databases -> Clients \cup {None}]]
  BY DEF Reload, PoolInv, TypeOK
<1>7. \A u \in Tokens, b \in Databases :
        IF clients[u][b] \in C THEN clients'[u][b] = None
                               ELSE clients'[u][b] = clients[u][b]
  BY <1>3, <1>5 DEF PoolInv, SlotsSound
<1>8. current' \in [Tokens -> Names \cup {None}]
  BY DEF Reload, PoolInv, TypeOK
<1>9. \A u \in Tokens, b \in Databases : clients'[u][b] # None => u \in entry
  BY <1>5 DEF PoolInv, SlotsSound
<1>10. \A u \in Tokens, b \in Databases :
         clients'[u][b] # None => configs'[b] = configs[b] \/ configs[b] = None
  BY <1>5 DEF Reload, Ended, Configured
<1>11. UNCHANGED <<entry, standing, conn, waiting, requestVars, histVars>>
  BY DEF Reload, CloseLocked
<1>12. loads' \in Versions
  BY ReloadAssumption DEF Reload, Versions, PoolInv, TypeOK
<1>13. /\ configs' \in [Databases -> Versions \cup {None}]
       /\ default' \in Names /\ entry' \subseteq Tokens
       /\ standing' \in [Tokens -> {"live", "revoked", "removed"}]
  BY <1>11 DEF PoolInv, TypeOK, Reload
<1>14. \A u \in Tokens : standing'[u] # "removed" =>
         standing[u] # "removed" /\ u # Mu
  BY <1>1, <1>11
<1>15. \A u \in Tokens, b \in Databases : clients'[u][b] # None => u \in entry'
  BY <1>9, <1>11
<1>20. /\ closing' \in [Closers -> SUBSET Clients]
       /\ closing'[Mu] = C
       /\ \A j \in Closers \ {Mu} : closing'[j] = closing[j]
  BY <1>1, <1>2, <1>4 DEF PoolInv, TypeOK
<1> HIDE DEF C
<1> QED
  BY <1>1, <1>2, <1>4, <1>6, <1>7, <1>8, <1>10, <1>11, <1>12, <1>13, <1>14,
     <1>15, <1>20, DetachKeeps

LEMMA RemoveKeeps ==
  ASSUME PoolInv, NEW T \in SUBSET Tokens, NEW k \in T, RemoveClients(T, k)
  PROVE  PoolInv'
<1> DEFINE C == {clients[t][d] : t \in T, d \in Databases} \ {None}
<1>1. k \in Closers /\ k \in Tokens /\ closing[k] = {}
  BY DEF Closers, RemoveClients, PoolInv, ClosersOK
<1>2. closing' = [closing EXCEPT ![k] = C]
  BY DEF RemoveClients
<1>3. C \subseteq Mapped /\ C \in SUBSET Clients
  BY DEF Mapped, PoolInv, TypeOK
<1>4. \A u \in Tokens : u \notin entry =>
        \A b \in Databases : clients[u][b] = None
  BY DEF PoolInv, SlotsSound
<1>5. \A u \in Tokens, b \in Databases : clients'[u][b] =
        IF u \in T THEN None ELSE clients[u][b]
  BY <1>4 DEF RemoveClients
<1>6. clients' \in [Tokens -> [Databases -> Clients \cup {None}]]
  BY DEF RemoveClients, PoolInv, TypeOK
<1>7. \A u \in Tokens, b \in Databases :
        IF clients[u][b] \in C THEN clients'[u][b] = None
                               ELSE clients'[u][b] = clients[u][b]
  BY <1>5 DEF PoolInv, SlotsSound
<1>8. current' \in [Tokens -> Names \cup {None}]
  BY DEF RemoveClients, PoolInv, TypeOK
<1>9. \A u \in Tokens, b \in Databases : clients'[u][b] # None => u \in entry'
  BY <1>5 DEF PoolInv, SlotsSound, RemoveClients
<1>10. UNCHANGED <<configs, default, loads, conn, waiting, requestVars, histVars>>
  BY DEF RemoveClients
<1>11. \A u \in Tokens : standing'[u] # "removed" =>
         standing[u] # "removed" /\ u # k
  BY DEF RemoveClients
<1>12. /\ configs' \in [Databases -> Versions \cup {None}]
       /\ default' \in Names /\ loads' \in Versions /\ entry' \subseteq Tokens
       /\ standing' \in [Tokens -> {"live", "revoked", "removed"}]
  BY <1>10 DEF PoolInv, TypeOK, RemoveClients
<1>13. \A u \in Tokens, b \in Databases :
         clients'[u][b] # None => configs'[b] = configs[b] \/ configs[b] = None
  BY <1>10
<1>20. /\ closing' \in [Closers -> SUBSET Clients]
       /\ closing'[k] = C
       /\ \A j \in Closers \ {k} : closing'[j] = closing[j]
  BY <1>1, <1>2, <1>3 DEF PoolInv, TypeOK
<1> HIDE DEF C
<1> QED
  BY <1>1, <1>2, <1>3, <1>6, <1>7, <1>8, <1>9, <1>10, <1>11, <1>12, <1>13,
     <1>20, DetachKeeps

LEMMA RevokeKeeps ==
  ASSUME PoolInv, NEW t \in Tokens, Revoke(t)
  PROVE  PoolInv'
<1>1. Made' = Made /\ Opened' = Opened /\ Mapped' = Mapped
  BY DEF Made, Opened, Mapped, Revoke, managerVars
<1>2. TypeOK'
  BY DEF PoolInv, TypeOK, Revoke, managerVars, closeVars, requestVars, histVars
<1>3. ClosersOK'
  BY <1>1 DEF PoolInv, TypeOK, ClosersOK, Revoke, closeVars
<1> QED
  BY <1>1, <1>2, <1>3
  DEF PoolInv, RequestsOK, SlotsSound, NoOrphan, Awaited, QueriesOutliveClose,
      FreshUnlessOvertaken, Revoke, managerVars, closeVars, requestVars, histVars

(***************************************************************************)
(* The theorems.                                                           *)
(***************************************************************************)

\* The invariant holds in every reachable state.
THEOREM PoolInvCorrect == Spec => []PoolInv
<1>1. PoolInv /\ [Next]_vars => PoolInv'
  <2> SUFFICES ASSUME PoolInv, [Next]_vars PROVE PoolInv'
    OBVIOUS
  <2>1. ASSUME NEW r \in Requests, NEW t \in Tokens, Begin(r, t) PROVE PoolInv'
    BY <2>1, BeginKeeps
  <2>2. ASSUME NEW r \in Requests, RequestStep(r) PROVE PoolInv'
    BY <2>2, ReadKeeps, PreferKeeps, LookupKeeps, CreateKeeps, UseKeeps
    DEF RequestStep
  <2>3. ASSUME NEW r \in Requests, EndQuery(r) PROVE PoolInv'
    BY <2>3, EndQueryKeeps
  <2>4. ASSUME NEW t \in Tokens, Revoke(t) PROVE PoolInv'
    BY <2>4, RevokeKeeps
  <2>5. ASSUME NEW t \in Tokens, NEW d \in Databases, SelectAndCloseOthers(t, d)
        PROVE PoolInv'
    BY <2>5, SelectOthersKeeps
  <2>6. ASSUME NEW new \in [Databases -> Versions \cup {None}], NEW first \in Names,
               Reload(new, first)
        PROVE PoolInv'
    BY <2>6, ReloadKeeps
  <2>7. ASSUME Removal PROVE PoolInv'
    BY <2>7, RemoveKeeps DEF Removal
  <2>8. ASSUME NEW k \in Closers, Closing(k) PROVE PoolInv'
    BY <2>8, StartCloseKeeps, FinishCloseKeeps DEF Closing
  <2>9. ASSUME UNCHANGED vars PROVE PoolInv'
    <3>1. UNCHANGED <<configs, default, current, entry, clients, conn, closing,
                      waiting, standing, pc, req, loads, overtaken, late>>
      BY <2>9 DEF vars, managerVars, closeVars, requestVars, histVars
    <3>2. Made' = Made /\ Opened' = Opened /\ Mapped' = Mapped
      BY <3>1 DEF Made, Opened, Mapped
    <3> QED
      BY <3>1, <3>2
      DEF PoolInv, TypeOK, RequestsOK, ClosersOK, SlotsSound, NoOrphan, Awaited,
          QueriesOutliveClose, FreshUnlessOvertaken
  <2> QED
    BY <2>1, <2>2, <2>3, <2>4, <2>5, <2>6, <2>7, <2>8, <2>9 DEF Next
<1> QED
  BY <1>1, PoolInit, PTL DEF Spec

\* No connection pool is ever lost: an open client is in its slot of the map
\* or in the hands of a closer, whatever creates, reloads and removes.
THEOREM NoOrphanCorrect == Spec => []NoOrphan
BY PoolInvCorrect, PTL DEF PoolInv

\* Every slot holds an open client of its own token and database.
THEOREM SlotsSoundCorrect == Spec => []SlotsSound
BY PoolInvCorrect, PTL DEF PoolInv

\* A pool is not gone before the last query on it has ended.
THEOREM QueriesOutliveCloseCorrect == Spec => []QueriesOutliveClose
BY PoolInvCorrect, PTL DEF PoolInv

\* A client with an old configuration was created by a call that had read it
\* before the reload.
THEOREM FreshUnlessOvertakenCorrect == Spec => []FreshUnlessOvertaken
BY PoolInvCorrect, PTL DEF PoolInv

(***************************************************************************)
(* Removed tokens                                                          *)
(***************************************************************************)

\* A removed token has only late clients in the map.
RemovedInv ==
  \A t \in Tokens : standing[t] = "removed" =>
    \A d \in Databases : clients[t][d] = None \/ clients[t][d] \in late

LEMMA EmptyingKeepsRemoved ==
  ASSUME RemovedInv, UNCHANGED late,
         \A t \in Tokens : standing'[t] = "removed" => standing[t] = "removed",
         \A t \in Tokens, d \in Databases : clients'[t][d] \in {None, clients[t][d]}
  PROVE  RemovedInv'
BY DEF RemovedInv

\* A request that comes in changes nothing of the manager's.
LEMMA BeginStays ==
  ASSUME NEW r \in Requests, NEW t \in Tokens, Begin(r, t)
  PROVE  UNCHANGED <<clients, standing, late>>
<1>1. UNCHANGED <<configs, default, entry, clients, conn, closeVars, standing,
                  loads, histVars>>
  BY DEF Begin, managerVars
<1> QED
  BY <1>1 DEF histVars

\* A client created for a removed token is late.
LEMMA ConnectKeepsRemoved ==
  ASSUME PoolInv, RemovedInv, NEW r \in Requests, NEW c \in Clients,
         pc[r] = "create", Connect(r, c), UNCHANGED standing
  PROVE  RemovedInv'
<1> DEFINE t == req[r].token
           d == req[r].db
<1>1. t \in Tokens /\ d \in Databases
  BY DEF PoolInv, RequestsOK
<1>2. /\ clients' = [clients EXCEPT ![t] = [@ EXCEPT ![d] = c]]
      /\ late' = IF standing[t] = "removed" THEN late \cup {c} ELSE late
  BY DEF Connect
<1> HIDE DEF t, d
<1>3. \A u \in Tokens, b \in Databases :
        clients'[u][b] = IF u = t /\ b = d THEN c ELSE clients[u][b]
  BY <1>1, <1>2 DEF PoolInv, TypeOK
<1> QED
  BY <1>1, <1>2, <1>3 DEF RemovedInv

\* A removal empties the map of the tokens it removes.
LEMMA RemovalEmpties ==
  ASSUME PoolInv, RemovedInv, Removal
  PROVE  RemovedInv'
<1>1. PICK T \in SUBSET Tokens : \E k \in T : RemoveClients(T, k)
  BY DEF Removal
<1>2. /\ standing' = [t \in Tokens |-> IF t \in T THEN "removed" ELSE standing[t]]
      /\ clients' = [t \in Tokens |-> IF t \in T \cap entry
           THEN [d \in Databases |-> None] ELSE clients[t]]
      /\ UNCHANGED late
  BY <1>1 DEF RemoveClients, histVars
<1>3. \A t \in T, d \in Databases : clients'[t][d] = None
  BY <1>2 DEF PoolInv, SlotsSound
<1>4. \A t \in Tokens \ T : clients'[t] = clients[t] /\ standing'[t] = standing[t]
  BY <1>2
<1> QED
  BY <1>2, <1>3, <1>4 DEF RemovedInv

\* A removal leaves no client of the token behind, whatever calls, reloads and
\* switches do meanwhile: one created afterwards, by a call that had begun
\* before, is the only one that can remain.
THEOREM ReleasedUnlessLateCorrect == Spec => []ReleasedUnlessLate
<1>1. Init => RemovedInv
  BY DEF Init, RemovedInv
<1>2. PoolInv /\ RemovedInv /\ [Next]_vars => RemovedInv'
  <2> SUFFICES ASSUME PoolInv, RemovedInv, [Next]_vars
               PROVE  RemovedInv'
    OBVIOUS
  <2> USE DEF managerVars, histVars
  <2>1. ASSUME UNCHANGED <<clients, standing, late>>
        PROVE  RemovedInv'
    BY <2>1, EmptyingKeepsRemoved
  <2>2. ASSUME NEW r \in Requests, NEW t \in Tokens, Begin(r, t)
        PROVE  RemovedInv'
    BY <2>1, <2>2, BeginStays
  <2>3. ASSUME NEW r \in Requests, RequestStep(r)
        PROVE  RemovedInv'
    <3>1. CASE Create(r)
      <4>1. UNCHANGED standing /\ pc[r] = "create"
            /\ \/ UNCHANGED <<clients, late>>
               \/ \E c \in Clients : Connect(r, c)
        BY <3>1 DEF Create
      <4> QED
        BY <2>1, <4>1, ConnectKeepsRemoved
    <3>2. CASE ~Create(r)
      <4>1. UNCHANGED <<clients, standing, late>>
        BY <2>3, <3>2 DEF RequestStep, ReadCurrent, CheckAccess, Prefer, Lookup, Use, Select
      <4> QED
        BY <2>1, <4>1
    <3> QED
      BY <3>1, <3>2
  <2>4. ASSUME NEW r \in Requests, EndQuery(r)
        PROVE  RemovedInv'
    BY <2>1, <2>4 DEF EndQuery
  <2>5. ASSUME NEW t \in Tokens, Revoke(t)
        PROVE  RemovedInv'
    <3>1. UNCHANGED <<clients, late>> /\ standing' = [standing EXCEPT ![t] = "revoked"]
      BY <2>5 DEF Revoke
    <3>2. \A u \in Tokens : standing'[u] = "removed" => standing[u] = "removed"
      BY <3>1 DEF PoolInv, TypeOK
    <3> QED
      BY <3>1, <3>2, EmptyingKeepsRemoved
  <2>6. ASSUME NEW t \in Tokens, NEW d \in Databases, SelectAndCloseOthers(t, d)
        PROVE  RemovedInv'
    <3>1. /\ UNCHANGED <<standing, late>>
          /\ clients' = [clients EXCEPT ![t] =
               [o \in Databases |-> IF o = d THEN @[o] ELSE None]]
      BY <2>6 DEF SelectAndCloseOthers
    <3>2. \A u \in Tokens, b \in Databases : clients'[u][b] \in {None, clients[u][b]}
      BY <3>1 DEF PoolInv, TypeOK
    <3> QED
      BY <3>1, <3>2, EmptyingKeepsRemoved
  <2>7. ASSUME NEW new \in [Databases -> Versions \cup {None}], NEW first \in Names,
               Reload(new, first)
        PROVE  RemovedInv'
    <3>1. /\ UNCHANGED <<standing, late>>
          /\ clients' = [t \in Tokens |-> [d \in Databases |->
               IF d \in Ended(new) THEN None ELSE clients[t][d]]]
      BY <2>7 DEF Reload
    <3>2. \A u \in Tokens, b \in Databases : clients'[u][b] \in {None, clients[u][b]}
      BY <3>1
    <3> QED
      BY <3>1, <3>2, EmptyingKeepsRemoved
  <2>8. ASSUME Removal
        PROVE  RemovedInv'
    BY <2>8, RemovalEmpties
  <2>9. ASSUME NEW k \in Closers, Closing(k)
        PROVE  RemovedInv'
    BY <2>1, <2>9 DEF Closing, FinishClose, StartClose
  <2>10. ASSUME UNCHANGED vars
         PROVE  RemovedInv'
    BY <2>1, <2>10 DEF vars
  <2> QED
    BY <2>2, <2>3, <2>4, <2>5, <2>6, <2>7, <2>8, <2>9, <2>10 DEF Next
<1>3. PoolInv /\ RemovedInv => ReleasedUnlessLate
  <2> SUFFICES ASSUME PoolInv, RemovedInv, NEW c \in Opened,
                      standing[conn[c].token] = "removed", ~Awaited(c)
               PROVE  c \in late
    BY DEF ReleasedUnlessLate
  <2>1. conn[c].token \in Tokens /\ conn[c].db \in Databases /\ c # None
    BY NameAssumption DEF Opened, Made, PoolInv, TypeOK, Connection
  <2>2. clients[conn[c].token][conn[c].db] = c
    BY DEF PoolInv, NoOrphan
  <2> QED
    BY <2>1, <2>2 DEF RemovedInv
<1> QED
  BY <1>1, <1>2, <1>3, PoolInvCorrect, PTL DEF Spec

\* The accounts count as this module does.
LEMMA SameCount == \A S : Accounts!Cardinality(S) = Cardinality(S)
BY DEF Accounts!Cardinality, Cardinality

\* The logins past the limiter at an address can be counted.
LEMMA PastCounted ==
  ASSUME NEW a
  PROVE  /\ IsFiniteSet(Accounts!PastLimiter(a))
         /\ Cardinality(Accounts!PastLimiter(a)) \in Nat
         /\ Cardinality(Requests) \in Nat
         /\ Cardinality(Accounts!PastLimiter(a)) <= Cardinality(Requests)
<1>1. Accounts!PastLimiter(a) \subseteq Requests
  BY DEF Accounts!PastLimiter
<1> QED
  BY <1>1, AccountsAssumption, FS_Subset, FS_CardinalityType

\* The same of the next state.
LEMMA PastCountedNext ==
  ASSUME NEW a
  PROVE  /\ IsFiniteSet(Accounts!PastLimiter(a)')
         /\ Cardinality(Accounts!PastLimiter(a)') \in Nat
         /\ Cardinality(Accounts!PastLimiter(a)') <= Cardinality(Requests)
<1>1. Accounts!PastLimiter(a)' \subseteq Requests
  BY DEF Accounts!PastLimiter
<1> QED
  BY <1>1, AccountsAssumption, FS_Subset, FS_CardinalityType

\* A login moves on: its locals are those of its new step.
LEMMA LoginMoves ==
  ASSUME Accounts!AccountsInv, NEW c \in Requests, NEW l \in Accounts!Login,
         login' = [login EXCEPT ![c] = l],
         Accounts!LoginSet(l)
  PROVE  /\ login' \in [Requests -> Accounts!Login]
         /\ \A q \in Requests : login'[q] = IF q = c THEN l ELSE login[q]
         /\ \A q \in Requests : Accounts!LoginSet(login'[q])
BY DEF Accounts!AccountsInv, Accounts!TypeOK, Accounts!LocalsSet

\* An address is refused at some number of failures that is not none.
LEMMA RefusedAtSome == Accounts!FirstRefused \in Nat \ {0}
BY AccountsAssumption DEF Accounts!FirstRefused

\* Nobody joins those past the limiter, and no address has more failures.
LEMMA LimitKeeps ==
  ASSUME Accounts!AccountsInv, attempts' \in [Addresses -> Nat],
         \A a \in Addresses : attempts'[a] <= attempts[a],
         \A q \in Requests : login'[q].step \in {"admitted", "notify", "count"} =>
           login[q].step \in {"admitted", "notify", "count"} /\ login'[q].addr = login[q].addr
  PROVE  Accounts!OvershootBounded'
<1> SUFFICES ASSUME NEW a \in Addresses
             PROVE  attempts'[a] + Cardinality(Accounts!PastLimiter(a)')
                      <= Accounts!FirstRefused - 1 + Cardinality(Requests)
  BY SameCount DEF Accounts!OvershootBounded
<1>1. Accounts!PastLimiter(a)' \subseteq Accounts!PastLimiter(a)
  BY DEF Accounts!PastLimiter
<1>2. Cardinality(Accounts!PastLimiter(a)') <= Cardinality(Accounts!PastLimiter(a))
  BY <1>1, PastCounted, FS_Subset
<1>3. attempts[a] + Cardinality(Accounts!PastLimiter(a))
        <= Accounts!FirstRefused - 1 + Cardinality(Requests)
  BY SameCount DEF Accounts!AccountsInv, Accounts!OvershootBounded
<1> QED
  BY <1>2, <1>3, PastCounted, PastCountedNext,
     AccountsAssumption, RefusedAtSome DEF Accounts!AccountsInv, Accounts!TypeOK

\* No account's use ends, and nothing due to be reported is forgotten.
LEMMA ReportsKeep ==
  ASSUME Accounts!AccountsInv,
         \A u \in Users : Accounts!Active(mem', u) <=> Accounts!Active(mem, u),
         UNCHANGED <<reported, everActive>>, check'.report = check.report,
         \A q \in Requests : login[q].step = "notify" =>
           login'[q].step = "notify" /\ login'[q].user = login[q].user
  PROVE  Accounts!WithdrawnReported'
<1> SUFFICES ASSUME NEW u \in Users, everActive'[u], ~Accounts!Active(mem', u)
             PROVE  \/ reported'[u] \/ u \in check'.report
                    \/ \E c \in Requests : login'[c].step = "notify" /\ login'[c].user = u
  BY DEF Accounts!WithdrawnReported, Accounts!Active
<1>1. \/ reported[u] \/ u \in check.report
      \/ \E c \in Requests : login[c].step = "notify" /\ login[c].user = u
  BY DEF Accounts!AccountsInv, Accounts!WithdrawnReported
<1> QED
  BY <1>1

\* A login's step that withdraws nothing: it moves on, from no report due.
LEMMA LoginKeeps ==
  ASSUME Accounts!AccountsInv, NEW c \in Requests, NEW l \in Accounts!Login,
         login' = [login EXCEPT ![c] = l], login[c].step # "notify",
         Accounts!LoginSet(l),
         l.step \in {"admitted", "notify", "count"} =>
           login[c].step \in {"admitted", "notify", "count"} /\ l.addr = login[c].addr,
         mem' \in Accounts!Content,
         \A u \in Users : Accounts!Active(mem', u) <=> Accounts!Active(mem, u),
         file' \in Accounts!Content, event' \in BOOLEAN,
         attempts' \in [Addresses -> Nat], \A a \in Addresses : attempts'[a] <= attempts[a],
         UNCHANGED <<lastHash, check, admin, commands, reported, everActive, lockedOut, logins>>
  PROVE  Accounts!AccountsInv'
<1>1. /\ login' \in [Requests -> Accounts!Login]
      /\ \A q \in Requests : login'[q] = IF q = c THEN l ELSE login[q]
      /\ \A q \in Requests : Accounts!LoginSet(login'[q])
  BY LoginMoves
<1>2. Accounts!TypeOK'
  BY <1>1 DEF Accounts!AccountsInv, Accounts!TypeOK
<1>3. Accounts!LocalsSet'
  BY <1>1 DEF Accounts!AccountsInv, Accounts!LocalsSet
<1>4. Accounts!WithdrawnReported'
  BY <1>1, ReportsKeep
<1>5. Accounts!OvershootBounded'
  BY <1>1, LimitKeeps
<1> QED
  BY <1>2, <1>3, <1>4, <1>5 DEF Accounts!AccountsInv

\* A login's step that changes the file at most.
LEMMA LoginAlone ==
  ASSUME Accounts!AccountsInv, NEW c \in Requests, NEW l \in Accounts!Login,
         login' = [login EXCEPT ![c] = l], login[c].step # "notify",
         Accounts!LoginSet(l),
         l.step \in {"admitted", "notify", "count"} =>
           login[c].step \in {"admitted", "notify", "count"} /\ l.addr = login[c].addr,
         file' \in Accounts!Content, event' \in BOOLEAN,
         UNCHANGED <<mem, attempts, lastHash, check, admin, commands, reported, everActive,
                     lockedOut, logins>>
  PROVE  Accounts!AccountsInv'
<1>1. /\ mem' \in Accounts!Content
      /\ \A u \in Users : Accounts!Active(mem', u) <=> Accounts!Active(mem, u)
  BY DEF Accounts!AccountsInv, Accounts!TypeOK, Accounts!Active
<1>2. attempts' \in [Addresses -> Nat] /\ \A a \in Addresses : attempts'[a] <= attempts[a]
  BY DEF Accounts!AccountsInv, Accounts!TypeOK
<1> QED
  BY <1>1, <1>2, LoginKeeps

\* A step of anyone but a login that leaves the rows in memory alone.
LEMMA OthersKeep ==
  ASSUME Accounts!AccountsInv, login' = login, attempts' \in [Addresses -> Nat],
         \A a \in Addresses : attempts'[a] <= attempts[a],
         UNCHANGED <<mem, reported, everActive, logins>>,
         file' \in Accounts!Content, lastHash' \in Accounts!Content, event' \in BOOLEAN,
         admin' \in Accounts!Edit,
         commands' \in 0 .. MaxCommands, lockedOut' \in [Users -> BOOLEAN],
         check' \in Accounts!Check, check'.report = check.report,
         check'.step # "idle" => check'.hash \in Accounts!Content,
         check'.step \in {"apply", "notify", "record"} => check'.read \in Accounts!Content,
         check'.report # {} => check'.step = "notify"
  PROVE  Accounts!AccountsInv'
<1>1. Accounts!TypeOK' /\ Accounts!LocalsSet'
  BY DEF Accounts!AccountsInv, Accounts!TypeOK, Accounts!LocalsSet
<1>2. Accounts!WithdrawnReported'
  BY ReportsKeep
<1>3. Accounts!OvershootBounded'
  BY LimitKeeps
<1> QED
  BY <1>1, <1>2, <1>3 DEF Accounts!AccountsInv

\* What the types say of a login at a step.
LEMMA LoginTyped ==
  ASSUME Accounts!AccountsInv, NEW c \in Requests
  PROVE  /\ login \in [Requests -> Accounts!Login] /\ login[c] \in Accounts!Login
         /\ Accounts!LoginSet(login[c])
         /\ mem \in Accounts!Content /\ file \in Accounts!Content /\ lastHash \in Accounts!Content
         /\ attempts \in [Addresses -> Nat] /\ event \in BOOLEAN
BY DEF Accounts!AccountsInv, Accounts!TypeOK, Accounts!LocalsSet

\* A login goes to another step and keeps its locals.
LEMMA GoesTo ==
  ASSUME NEW c \in Requests, NEW step, Accounts!Goto(c, step), login[c] \in Accounts!Login,
         step \in {"admitted", "notify", "count", "reset", "half", "marshalled", "emptied"}
  PROVE  \E l \in Accounts!Login :
           /\ l.step = step /\ l.user = login[c].user /\ l.addr = login[c].addr
           /\ l.tool = login[c].tool /\ l.save = login[c].save
           /\ login' = [login EXCEPT ![c] = l]
<1>1. [login[c] EXCEPT !.step = step] \in Accounts!Login
  BY DEF Accounts!Login
<1>2. login' = [login EXCEPT ![c] = [login[c] EXCEPT !.step = step]]
  BY DEF Accounts!Goto
<1> QED
  BY <1>1, <1>2 DEF Accounts!Login

\* The file an administrator left is loaded, and nothing is under way.
LEMMA AccountsBegin == Accounts!Init => Accounts!AccountsInv
<1> SUFFICES ASSUME Accounts!Init PROVE Accounts!AccountsInv
  OBVIOUS
<1>1. [enabled : BOOLEAN, failed : {0}, login : {0}, rev : {0}] \subseteq Accounts!Row
  BY DEF Accounts!Row
<1>2. file \in Accounts!Content /\ Accounts!Empty \in Accounts!Content
  BY <1>1 DEF Accounts!Init, Accounts!Content, Accounts!Empty
<1>3. /\ Accounts!NoCheck \in Accounts!Check /\ Accounts!NoReq \in Accounts!Login
      /\ Accounts!NoAdmin \in Accounts!Edit
  BY <1>2 DEF Accounts!NoCheck, Accounts!NoReq, Accounts!NoAdmin, Accounts!Check,
     Accounts!Login, Accounts!Edit
<1>4. Accounts!TypeOK
  <2>1. everActive \in [Users -> BOOLEAN]
    BY DEF Accounts!Init, Accounts!Active
  <2>2. logins \in 0 .. MaxLogins /\ commands \in 0 .. MaxCommands
    BY AccountsAssumption DEF Accounts!Init
  <2> QED
    BY <1>2, <1>3, <2>1, <2>2 DEF Accounts!Init, Accounts!TypeOK
<1>5. Accounts!LocalsSet
  BY DEF Accounts!LoginSet, Accounts!Init, Accounts!LocalsSet, Accounts!NoCheck,
     Accounts!NoReq
<1>6. Accounts!WithdrawnReported
  BY DEF Accounts!Init, Accounts!WithdrawnReported
<1>7. Accounts!OvershootBounded
  <2>1. ASSUME NEW a \in Addresses PROVE Accounts!PastLimiter(a) = {}
    BY DEF Accounts!PastLimiter, Accounts!Init, Accounts!NoReq
  <2>2. Cardinality(Requests) # 0
    BY AccountsAssumption, FS_EmptySet
  <2> QED
    BY <2>1, <2>2, FS_EmptySet, AccountsAssumption, RefusedAtSome, SameCount,
       PastCounted DEF Accounts!OvershootBounded, Accounts!Init
<1> QED
  BY <1>4, <1>5, <1>6, <1>7 DEF Accounts!AccountsInv

\* A login begins: the address is below the limit, so however many are past
\* the limiter with it, the bound holds.
LEMMA AdmitInv ==
  ASSUME Accounts!AccountsInv, NEW c \in Requests, NEW u \in Users, NEW a \in Addresses,
         NEW tool \in BOOLEAN, Accounts!Admit(c, u, a, tool)
  PROVE  Accounts!AccountsInv'
<1>1. PICK l : l = [Accounts!NoReq EXCEPT !.step = "admitted", !.user = u, !.addr = a,
                                 !.tool = tool]
  OBVIOUS
<1>2. l \in Accounts!Login /\ l.step = "admitted" /\ l.user = u /\ l.addr = a
  BY <1>1 DEF Accounts!NoReq, Accounts!Login
<1>3. login' = [login EXCEPT ![c] = l] /\ login[c].step = "idle" /\ attempts[a] < Accounts!FirstRefused
  BY <1>1, AccountsAssumption
     DEF Accounts!Admit, Accounts!IsAllowed, Accounts!FirstRefused, Accounts!AccountsInv,
         Accounts!TypeOK
<1>4. /\ login' \in [Requests -> Accounts!Login]
      /\ \A q \in Requests : login'[q] = IF q = c THEN l ELSE login[q]
      /\ \A q \in Requests : Accounts!LoginSet(login'[q])
  BY <1>2, <1>3, LoginMoves DEF Accounts!LoginSet
<1>5. Accounts!TypeOK' /\ Accounts!LocalsSet'
  BY <1>4, AccountsAssumption DEF Accounts!AccountsInv, Accounts!TypeOK,
     Accounts!LocalsSet, Accounts!Admit
<1>6. Accounts!WithdrawnReported'
  BY <1>3, <1>4, ReportsKeep DEF Accounts!Admit
<1>7. Accounts!OvershootBounded'
  <2> SUFFICES ASSUME NEW b \in Addresses
               PROVE  attempts'[b] + Cardinality(Accounts!PastLimiter(b)')
                        <= Accounts!FirstRefused - 1 + Cardinality(Requests)
    BY SameCount DEF Accounts!OvershootBounded
  <2>1. attempts' = attempts /\ attempts[b] \in Nat
    BY DEF Accounts!Admit, Accounts!AccountsInv, Accounts!TypeOK
  <2>2. CASE b = a
    <3>1. attempts'[b] <= Accounts!FirstRefused - 1
      BY <1>3, <2>1, <2>2, RefusedAtSome
    <3>2. /\ Cardinality(Accounts!PastLimiter(b)') \in Nat /\ Cardinality(Requests) \in Nat
          /\ Cardinality(Accounts!PastLimiter(b)') <= Cardinality(Requests)
      BY PastCounted, PastCountedNext
    <3> QED
      BY <2>1, <3>1, <3>2, RefusedAtSome
  <2>3. CASE b # a
    <3>1. Accounts!PastLimiter(b)' \subseteq Accounts!PastLimiter(b)
      BY <1>2, <1>4, <2>3 DEF Accounts!PastLimiter
    <3>2. Cardinality(Accounts!PastLimiter(b)') <= Cardinality(Accounts!PastLimiter(b))
      BY <3>1, PastCounted, FS_Subset
    <3>3. attempts[b] + Cardinality(Accounts!PastLimiter(b))
            <= Accounts!FirstRefused - 1 + Cardinality(Requests)
      BY SameCount DEF Accounts!AccountsInv, Accounts!OvershootBounded
    <3> QED
      BY <2>1, <3>2, <3>3, PastCounted, PastCountedNext, RefusedAtSome
  <2> QED
    BY <2>2, <2>3
<1> QED
  BY <1>5, <1>6, <1>7 DEF Accounts!AccountsInv

\* An account that is unknown or disabled.
LEMMA RefuseInv ==
  ASSUME Accounts!AccountsInv, NEW c \in Requests, Accounts!Refuse(c)
  PROVE  Accounts!AccountsInv'
<1>1. PICK l \in Accounts!Login :
        /\ l.step = "count" /\ l.user = login[c].user /\ l.addr = login[c].addr
        /\ login' = [login EXCEPT ![c] = l]
  BY GoesTo, LoginTyped DEF Accounts!Refuse
<1>2. login[c].step = "admitted"
  BY DEF Accounts!Refuse
<1> QED
  BY <1>1, <1>2, LoginTyped, LoginAlone DEF Accounts!LoginSet, Accounts!Refuse

\* A wrong password: the account stays as usable as it was, or it is locked
\* out by this login, which will report it.
LEMMA WrongPasswordInv ==
  ASSUME Accounts!AccountsInv, NEW c \in Requests, Accounts!WrongPassword(c)
  PROVE  Accounts!AccountsInv'
<1>1. PICK u : u = login[c].user
  OBVIOUS
<1>2. PICK locks \in BOOLEAN :
        locks <=> (MaxFailedAttempts > 0 /\ mem[u].failed + 1 >= MaxFailedAttempts)
  OBVIOUS
<1>3. PICK l \in Accounts!Login :
        /\ l.step = IF locks THEN "notify" ELSE "count"
        /\ l.user = u /\ l.addr = login[c].addr
        /\ login' = [login EXCEPT ![c] = l]
  <2>1. Accounts!Goto(c, IF locks THEN "notify" ELSE "count")
    BY <1>1, <1>2 DEF Accounts!WrongPassword
  <2> QED
    BY <1>1, <2>1, GoesTo, LoginTyped
<1>4. /\ login[c].step = "admitted" /\ u \in Users /\ mem[u] \in Accounts!Row /\ mem[u].enabled
      /\ mem \in [Users -> Accounts!Row \cup {Absent}] /\ mem[u] # Absent
  BY <1>1, LoginTyped DEF Accounts!LoginSet, Accounts!WrongPassword, Accounts!Active,
     Accounts!Content
<1>5. PICK row : row = [mem[u] EXCEPT !.failed = mem[u].failed + 1, !.enabled = ~locks]
  OBVIOUS
<1>6. row \in Accounts!Row /\ row.enabled = ~locks /\ row # Absent
  <2>1. PICK usable \in BOOLEAN : usable = ~locks
    BY <1>2
  <2>2. row = [mem[u] EXCEPT !.failed = mem[u].failed + 1, !.enabled = usable]
    BY <1>5, <2>1
  <2>3. mem[u].failed + 1 \in Nat
    BY <1>4 DEF Accounts!Row
  <2>4. row \in Accounts!Row /\ row.enabled = usable
    BY <1>4, <2>2, <2>3 DEF Accounts!Row
  <2> QED
    BY <2>1, <2>4, AccountsAssumption
<1>7. mem' = [mem EXCEPT ![u] = row]
  <2>1. mem' = [mem EXCEPT ![u].failed = mem[u].failed + 1, ![u].enabled = ~locks]
    BY <1>1, <1>2 DEF Accounts!WrongPassword
  <2> QED
    BY <1>4, <1>5, <2>1
<1>8. mem' \in Accounts!Content /\ \A v \in Users : v # u => mem'[v] = mem[v]
  BY <1>4, <1>6, <1>7 DEF Accounts!Content
<1>9. /\ login' \in [Requests -> Accounts!Login]
      /\ \A q \in Requests : login'[q] = IF q = c THEN l ELSE login[q]
      /\ \A q \in Requests : Accounts!LoginSet(login'[q])
  BY <1>1, <1>3, <1>4, LoginMoves, LoginTyped DEF Accounts!LoginSet
<1>10. Accounts!TypeOK' /\ Accounts!LocalsSet'
  <2>1. lockedOut' \in [Users -> BOOLEAN]
    BY <1>1, <1>2, <1>4 DEF Accounts!WrongPassword, Accounts!AccountsInv, Accounts!TypeOK
  <2> QED
    BY <1>8, <1>9, <2>1 DEF Accounts!AccountsInv, Accounts!TypeOK, Accounts!LocalsSet,
       Accounts!WrongPassword, Accounts!Witness, Accounts!Active
<1>11. Accounts!WithdrawnReported'
  <2> SUFFICES ASSUME NEW v \in Users, everActive'[v], ~Accounts!Active(mem', v)
               PROVE  \/ reported'[v] \/ v \in check'.report
                      \/ \E q \in Requests : login'[q].step = "notify" /\ login'[q].user = v
    BY DEF Accounts!WithdrawnReported, Accounts!Active
  <2>1. CASE v = u
    <3>1. mem'[u] = row
      BY <1>4, <1>7
    <3>2. row # Absent => ~row.enabled
      BY <2>1, <3>1 DEF Accounts!Active
    <3> QED
      BY <1>3, <1>6, <1>9, <2>1, <3>2
  <2>2. CASE v # u
    <3>1. ~Accounts!Active(mem, v) /\ everActive[v]
      BY <1>8, <2>2 DEF Accounts!Active, Accounts!WrongPassword, Accounts!Witness
    <3>2. \/ reported[v] \/ v \in check.report
          \/ \E q \in Requests : login[q].step = "notify" /\ login[q].user = v
      BY <3>1 DEF Accounts!AccountsInv, Accounts!WithdrawnReported
    <3>3. reported'[v] = (reported[v] /\ ~Accounts!Active(mem', v)) /\ check' = check
      BY DEF Accounts!WrongPassword, Accounts!Witness
    <3> QED
      BY <1>4, <1>9, <3>2, <3>3
  <2> QED
    BY <2>1, <2>2
<1>12. Accounts!OvershootBounded'
  <2>1. attempts' = attempts /\ attempts \in [Addresses -> Nat]
    BY DEF Accounts!WrongPassword, Accounts!AccountsInv, Accounts!TypeOK
  <2> QED
    BY <1>3, <1>4, <1>9, <2>1, LimitKeeps
<1> QED
  BY <1>10, <1>11, <1>12 DEF Accounts!AccountsInv

\* The hook is called for the lockout, whatever has become of the account.
LEMMA NotifyLockoutInv ==
  ASSUME Accounts!AccountsInv, NEW c \in Requests, Accounts!NotifyLockout(c)
  PROVE  Accounts!AccountsInv'
<1>1. PICK l \in Accounts!Login :
        /\ l.step = "count" /\ l.user = login[c].user /\ l.addr = login[c].addr
        /\ login' = [login EXCEPT ![c] = l]
  BY GoesTo, LoginTyped DEF Accounts!NotifyLockout
<1>2. login[c].step = "notify" /\ login[c].user \in Users
  BY LoginTyped DEF Accounts!LoginSet, Accounts!NotifyLockout
<1>3. /\ login' \in [Requests -> Accounts!Login]
      /\ \A q \in Requests : login'[q] = IF q = c THEN l ELSE login[q]
      /\ \A q \in Requests : Accounts!LoginSet(login'[q])
  BY <1>1, <1>2, LoginMoves, LoginTyped DEF Accounts!LoginSet
<1>4. Accounts!TypeOK' /\ Accounts!LocalsSet'
  <2>1. reported' \in [Users -> BOOLEAN]
    BY <1>2 DEF Accounts!NotifyLockout, Accounts!AccountsInv, Accounts!TypeOK,
       Accounts!Active
  <2> QED
    BY <1>3, <2>1 DEF Accounts!AccountsInv, Accounts!TypeOK, Accounts!LocalsSet,
       Accounts!NotifyLockout
<1>5. Accounts!WithdrawnReported'
  <2> SUFFICES ASSUME NEW u \in Users, everActive'[u], ~Accounts!Active(mem', u)
               PROVE  \/ reported'[u] \/ u \in check'.report
                      \/ \E q \in Requests : login'[q].step = "notify" /\ login'[q].user = u
    BY DEF Accounts!WithdrawnReported, Accounts!Active
  <2>1. mem' = mem /\ everActive' = everActive /\ check' = check
    BY DEF Accounts!NotifyLockout
  <2>2. reported' = [reported EXCEPT ![login[c].user] = ~Accounts!Active(mem, login[c].user)]
    BY DEF Accounts!NotifyLockout
  <2>3. reported \in [Users -> BOOLEAN]
    BY DEF Accounts!AccountsInv, Accounts!TypeOK
  <2>4. CASE u = login[c].user
    BY <2>1, <2>2, <2>3, <2>4
  <2>5. CASE u # login[c].user
    <3>1. \/ reported[u] \/ u \in check.report
          \/ \E q \in Requests : login[q].step = "notify" /\ login[q].user = u
      BY <2>1 DEF Accounts!AccountsInv, Accounts!WithdrawnReported
    <3>2. reported'[u] = reported[u]
      BY <2>2, <2>3, <2>5
    <3>3. \A q \in Requests : login[q].user = u => login'[q] = login[q]
      BY <1>3, <2>5
    <3> QED
      BY <2>1, <3>1, <3>2, <3>3
  <2> QED
    BY <2>4, <2>5
<1>6. Accounts!OvershootBounded'
  <2>1. attempts' = attempts /\ attempts \in [Addresses -> Nat]
    BY DEF Accounts!NotifyLockout, Accounts!AccountsInv, Accounts!TypeOK
  <2> QED
    BY <1>1, <1>2, <1>3, <2>1, LimitKeeps
<1> QED
  BY <1>4, <1>5, <1>6 DEF Accounts!AccountsInv

\* One failure more from the address, and one login fewer past the limiter.
LEMMA CountFailureInv ==
  ASSUME Accounts!AccountsInv, NEW c \in Requests, Accounts!CountFailure(c)
  PROVE  Accounts!AccountsInv'
<1>1. PICK a : a = login[c].addr
  OBVIOUS
<1>2. login[c].step = "count" /\ a \in Addresses /\ attempts \in [Addresses -> Nat]
  BY <1>1, LoginTyped DEF Accounts!LoginSet, Accounts!CountFailure
<1>3. /\ Accounts!NoReq \in Accounts!Login /\ Accounts!NoReq.step = "idle"
      /\ login' = [login EXCEPT ![c] = Accounts!NoReq] /\ attempts' = [attempts EXCEPT ![a] = @ + 1]
  BY <1>1 DEF Accounts!NoReq, Accounts!Login, Accounts!CountFailure, Accounts!Return
<1>4. /\ login' \in [Requests -> Accounts!Login]
      /\ \A q \in Requests : login'[q] = IF q = c THEN Accounts!NoReq ELSE login[q]
      /\ \A q \in Requests : Accounts!LoginSet(login'[q])
  BY <1>3, LoginMoves DEF Accounts!LoginSet
<1>5. Accounts!TypeOK' /\ Accounts!LocalsSet'
  BY <1>2, <1>3, <1>4 DEF Accounts!AccountsInv, Accounts!TypeOK, Accounts!LocalsSet,
     Accounts!CountFailure
<1>6. Accounts!WithdrawnReported'
  BY <1>2, <1>4, ReportsKeep DEF Accounts!CountFailure
<1>7. Accounts!OvershootBounded'
  <2> SUFFICES ASSUME NEW b \in Addresses
               PROVE  attempts'[b] + Cardinality(Accounts!PastLimiter(b)')
                        <= Accounts!FirstRefused - 1 + Cardinality(Requests)
    BY SameCount DEF Accounts!OvershootBounded
  <2>1. attempts[b] + Cardinality(Accounts!PastLimiter(b))
          <= Accounts!FirstRefused - 1 + Cardinality(Requests)
    BY SameCount DEF Accounts!AccountsInv, Accounts!OvershootBounded
  <2>2. CASE b = a
    <3>1. Accounts!PastLimiter(b)' = Accounts!PastLimiter(b) \ {c} /\ c \in Accounts!PastLimiter(b)
      BY <1>1, <1>2, <1>3, <1>4, <2>2 DEF Accounts!PastLimiter
    <3>2. Cardinality(Accounts!PastLimiter(b)') = Cardinality(Accounts!PastLimiter(b)) - 1
      BY <3>1, PastCounted, FS_RemoveElement
    <3>3. attempts'[b] = attempts[b] + 1 /\ attempts[b] \in Nat
      BY <1>2, <1>3, <2>2
    <3> QED
      BY <2>1, <3>2, <3>3, PastCounted, PastCountedNext, RefusedAtSome
  <2>3. CASE b # a
    <3>1. Accounts!PastLimiter(b)' = Accounts!PastLimiter(b)
      BY <1>1, <1>3, <1>4, <2>3 DEF Accounts!PastLimiter
    <3>2. attempts'[b] = attempts[b]
      BY <1>2, <1>3, <2>3
    <3> QED
      BY <2>1, <3>1, <3>2
  <2> QED
    BY <2>2, <2>3
<1> QED
  BY <1>5, <1>6, <1>7 DEF Accounts!AccountsInv

\* The right password: the account is as usable as it was.
LEMMA RightPasswordInv ==
  ASSUME Accounts!AccountsInv, NEW c \in Requests, Accounts!RightPassword(c)
  PROVE  Accounts!AccountsInv'
<1>1. PICK u : u = login[c].user
  OBVIOUS
<1>2. PICK l \in Accounts!Login :
        /\ l.step = "reset" /\ l.user = u /\ l.addr = login[c].addr
        /\ login' = [login EXCEPT ![c] = l]
  BY <1>1, GoesTo, LoginTyped DEF Accounts!RightPassword
<1>3. /\ login[c].step = "admitted" /\ u \in Users /\ mem[u] \in Accounts!Row
      /\ mem \in [Users -> Accounts!Row \cup {Absent}] /\ mem[u] # Absent
  BY <1>1, LoginTyped DEF Accounts!LoginSet, Accounts!RightPassword, Accounts!Active,
     Accounts!Content
<1>4. PICK row : row = [mem[u] EXCEPT !.failed = 0, !.login = mem[u].login + 1]
  OBVIOUS
<1>5. row \in Accounts!Row /\ row.enabled = mem[u].enabled /\ row # Absent
  <2>1. mem[u].login + 1 \in Nat
    BY <1>3 DEF Accounts!Row
  <2>2. row \in Accounts!Row
    BY <1>3, <1>4, <2>1 DEF Accounts!Row
  <2>3. row.enabled = mem[u].enabled
    BY <1>3, <1>4 DEF Accounts!Row
  <2> QED
    BY <2>2, <2>3, AccountsAssumption
<1>6. mem' = [mem EXCEPT ![u] = row]
  BY <1>1, <1>3, <1>4 DEF Accounts!RightPassword
<1>7. /\ mem' \in Accounts!Content
      /\ \A v \in Users : Accounts!Active(mem', v) <=> Accounts!Active(mem, v)
  BY <1>3, <1>5, <1>6 DEF Accounts!Content, Accounts!Active
<1>8. attempts' \in [Addresses -> Nat] /\ \A a \in Addresses : attempts'[a] <= attempts[a]
  BY LoginTyped DEF Accounts!RightPassword
<1> QED
  BY <1>1, <1>2, <1>3, <1>7, <1>8, LoginTyped, LoginKeeps DEF Accounts!LoginSet,
     Accounts!RightPassword

\* A success clears the address; the tool's login then begins to save.
LEMMA ResetAttemptsInv ==
  ASSUME Accounts!AccountsInv, NEW c \in Requests, Accounts!ResetAttempts(c)
  PROVE  Accounts!AccountsInv'
<1>1. login[c].step = "reset" /\ attempts' = [attempts EXCEPT ![login[c].addr] = 0]
  BY DEF Accounts!ResetAttempts
<1>2. attempts' \in [Addresses -> Nat] /\ \A a \in Addresses : attempts'[a] <= attempts[a]
  BY <1>1, LoginTyped DEF Accounts!LoginSet
<1>3. PICK l \in Accounts!Login :
        /\ login' = [login EXCEPT ![c] = l] /\ l.step \in {"half", "idle"}
        /\ l.step = "half" => /\ l.user \in Users /\ l.addr \in Addresses
                             /\ l.save \in Accounts!Content
  <2>1. CASE login[c].tool
    <3>1. PICK l : l = [login[c] EXCEPT !.step = "half", !.save = mem]
      OBVIOUS
    <3>2. /\ l \in Accounts!Login /\ l.step = "half" /\ l.save = mem
          /\ l.user = login[c].user /\ l.addr = login[c].addr
      BY <3>1, LoginTyped DEF Accounts!Login
    <3>3. login' = [login EXCEPT ![c] = l]
      BY <2>1, <3>1, LoginTyped DEF Accounts!ResetAttempts
    <3> QED
      BY <1>1, <3>2, <3>3, LoginTyped DEF Accounts!LoginSet
  <2>2. CASE ~login[c].tool
    BY <2>2 DEF Accounts!ResetAttempts, Accounts!Return, Accounts!NoReq, Accounts!Login
  <2> QED
    BY <2>1, <2>2
<1>4. /\ mem' \in Accounts!Content
      /\ \A u \in Users : Accounts!Active(mem', u) <=> Accounts!Active(mem, u)
  BY LoginTyped DEF Accounts!ResetAttempts, Accounts!Active
<1> QED
  BY <1>1, <1>2, <1>3, <1>4, LoginTyped, LoginKeeps DEF Accounts!LoginSet,
     Accounts!ResetAttempts

\* The rest of the rows is marshalled.
LEMMA MarshalRestInv ==
  ASSUME Accounts!AccountsInv, NEW c \in Requests, Accounts!MarshalRest(c)
  PROVE  Accounts!AccountsInv'
<1>1. login[c].step = "half"
  BY DEF Accounts!MarshalRest
<1>2. /\ login[c].save \in [Users -> Accounts!Row \cup {Absent}]
      /\ mem \in [Users -> Accounts!Row \cup {Absent}]
  BY <1>1, LoginTyped DEF Accounts!LoginSet, Accounts!Content
<1>3. PICK rows : rows = [u \in Users |->
                            IF Absent \in {login[c].save[u], mem[u]} THEN login[c].save[u]
                            ELSE [login[c].save[u] EXCEPT !.failed = mem[u].failed]]
  OBVIOUS
<1>4. rows \in Accounts!Content
  <2>1. ASSUME NEW u \in Users, Absent \notin {login[c].save[u], mem[u]}
        PROVE  [login[c].save[u] EXCEPT !.failed = mem[u].failed] \in Accounts!Row
    <3>1. login[c].save[u] \in Accounts!Row /\ mem[u] \in Accounts!Row
      BY <1>2, <2>1
    <3> QED
      BY <3>1 DEF Accounts!Row
  <2> QED
    BY <1>2, <1>3, <2>1 DEF Accounts!Content
<1>5. PICK l : l = [login[c] EXCEPT !.step = "marshalled", !.save = rows]
  OBVIOUS
<1>6. /\ l \in Accounts!Login /\ l.step = "marshalled" /\ l.save = rows
      /\ l.user = login[c].user /\ l.addr = login[c].addr
  BY <1>4, <1>5, LoginTyped DEF Accounts!Login
<1>7. login' = [login EXCEPT ![c] = l]
  <2>1. login' = [login EXCEPT ![c].step = "marshalled", ![c].save = rows]
    BY <1>3, LoginTyped DEF Accounts!MarshalRest, Accounts!Login
  <2> QED
    BY <1>5, <2>1, LoginTyped
<1> QED
  BY <1>1, <1>4, <1>6, <1>7, LoginTyped, LoginAlone DEF Accounts!LoginSet,
     Accounts!MarshalRest

\* The file is emptied before it is written.
LEMMA TruncateInv ==
  ASSUME Accounts!AccountsInv, NEW c \in Requests, Accounts!Truncate(c)
  PROVE  Accounts!AccountsInv'
<1>1. PICK l \in Accounts!Login :
        /\ l.step = "emptied" /\ l.user = login[c].user /\ l.addr = login[c].addr
        /\ l.save = login[c].save /\ login' = [login EXCEPT ![c] = l]
  BY GoesTo, LoginTyped DEF Accounts!Truncate
<1>2. login[c].step = "marshalled" /\ file' \in Accounts!Content /\ event' \in BOOLEAN
  BY DEF Accounts!Truncate, Accounts!Empty, Accounts!Content
<1> QED
  BY <1>1, <1>2, LoginTyped, LoginAlone DEF Accounts!LoginSet, Accounts!Truncate

\* The file is written, and the login has ended.
LEMMA WriteInv ==
  ASSUME Accounts!AccountsInv, NEW c \in Requests, Accounts!Write(c)
  PROVE  Accounts!AccountsInv'
<1>1. /\ Accounts!NoReq \in Accounts!Login /\ Accounts!NoReq.step = "idle"
      /\ login' = [login EXCEPT ![c] = Accounts!NoReq] /\ login[c].step = "emptied"
  BY DEF Accounts!Write, Accounts!Return, Accounts!NoReq, Accounts!Login
<1>2. file' \in Accounts!Content /\ event' \in BOOLEAN
  BY <1>1, LoginTyped DEF Accounts!LoginSet, Accounts!Write
<1> QED
  BY <1>1, <1>2, LoginAlone DEF Accounts!LoginSet, Accounts!Write

\* A failure leaves the window.
LEMMA LeaveWindowInv ==
  ASSUME Accounts!AccountsInv, NEW a \in Addresses, Accounts!LeaveWindow(a)
  PROVE  Accounts!AccountsInv'
<1>1. attempts' \in [Addresses -> Nat] /\ \A b \in Addresses : attempts'[b] <= attempts[b]
  BY DEF Accounts!LeaveWindow, Accounts!AccountsInv, Accounts!TypeOK
<1> QED
  BY <1>1, OthersKeep DEF Accounts!LeaveWindow, Accounts!AccountsInv, Accounts!TypeOK,
     Accounts!LocalsSet

\* A command has loaded the file and edited its row.
LEMMA CommandInv ==
  ASSUME Accounts!AccountsInv, NEW u \in Users, NEW lifts \in BOOLEAN,
         NEW row \in Accounts!Row \cup {Absent}, Accounts!Command(u, row, lifts)
  PROVE  Accounts!AccountsInv'
<1>1. admin' \in Accounts!Edit
  <2>1. [file EXCEPT ![u] = row] \in Accounts!Content
    BY DEF Accounts!AccountsInv, Accounts!TypeOK, Accounts!Content
  <2> QED
    BY <2>1 DEF Accounts!Command, Accounts!Edit
<1>2. commands' \in 0 .. MaxCommands
  BY AccountsAssumption DEF Accounts!Command, Accounts!AccountsInv, Accounts!TypeOK
<1>3. attempts' \in [Addresses -> Nat] /\ \A a \in Addresses : attempts'[a] <= attempts[a]
  BY DEF Accounts!Command, Accounts!AccountsInv, Accounts!TypeOK
<1> QED
  BY <1>1, <1>2, <1>3, OthersKeep DEF Accounts!Command, Accounts!AccountsInv,
     Accounts!TypeOK, Accounts!LocalsSet

\* Every command edits a row of the file.
LEMMA CommandsInv ==
  ASSUME Accounts!AccountsInv, NEW u \in Users,
         \/ Accounts!AddUser(u) \/ Accounts!UpdateUser(u) \/ Accounts!DeleteUser(u)
         \/ Accounts!EnableUser(u) \/ Accounts!DisableUser(u)
  PROVE  Accounts!AccountsInv'
<1>1. file[u] # Absent => file[u] \in Accounts!Row
  BY DEF Accounts!AccountsInv, Accounts!TypeOK, Accounts!Content
<1>2. CASE Accounts!AddUser(u)
  <2>1. [enabled |-> TRUE, failed |-> 0, login |-> 0, rev |-> 0] \in Accounts!Row
    BY DEF Accounts!Row
  <2> QED
    BY <1>2, <2>1, CommandInv DEF Accounts!AddUser
<1>3. CASE Accounts!UpdateUser(u)
  <2>1. [file[u] EXCEPT !.rev = @ + 1] \in Accounts!Row
    <3>1. file[u] \in Accounts!Row /\ file[u].rev + 1 \in Nat
      BY <1>1, <1>3 DEF Accounts!UpdateUser, Accounts!Row
    <3> QED
      BY <3>1 DEF Accounts!Row
  <2> QED
    BY <1>3, <2>1, CommandInv DEF Accounts!UpdateUser
<1>4. CASE Accounts!DeleteUser(u)
  BY <1>4, CommandInv DEF Accounts!DeleteUser
<1>5. CASE Accounts!EnableUser(u)
  <2>1. [file[u] EXCEPT !.enabled = TRUE] \in Accounts!Row
    BY <1>1, <1>5 DEF Accounts!EnableUser, Accounts!Row
  <2> QED
    BY <1>5, <2>1, CommandInv DEF Accounts!EnableUser
<1>6. CASE Accounts!DisableUser(u)
  <2>1. [file[u] EXCEPT !.enabled = FALSE] \in Accounts!Row
    BY <1>1, <1>6 DEF Accounts!DisableUser, Accounts!Row
  <2> QED
    BY <1>6, <2>1, CommandInv DEF Accounts!DisableUser
<1> QED
  BY <1>2, <1>3, <1>4, <1>5, <1>6

\* The command writes: the file is emptied, then written.
LEMMA EditInv ==
  ASSUME Accounts!AccountsInv, Accounts!EmptyFile \/ Accounts!SaveFile
  PROVE  Accounts!AccountsInv'
<1>1. attempts' \in [Addresses -> Nat] /\ \A a \in Addresses : attempts'[a] <= attempts[a]
  BY DEF Accounts!EmptyFile, Accounts!SaveFile, Accounts!AccountsInv, Accounts!TypeOK
<1>2. Accounts!Empty \in Accounts!Content
  BY DEF Accounts!Empty, Accounts!Content
<1>3. CASE Accounts!EmptyFile
  <2>1. admin' \in Accounts!Edit
    BY <1>3 DEF Accounts!EmptyFile, Accounts!Edit, Accounts!AccountsInv, Accounts!TypeOK
  <2> QED
    BY <1>1, <1>2, <1>3, <2>1, OthersKeep DEF Accounts!EmptyFile, Accounts!AccountsInv,
       Accounts!TypeOK, Accounts!LocalsSet
<1>4. CASE Accounts!SaveFile
  <2>1. admin' \in Accounts!Edit /\ admin.store \in Accounts!Content
    BY <1>2, <1>4 DEF Accounts!SaveFile, Accounts!NoAdmin, Accounts!Edit,
       Accounts!AccountsInv, Accounts!TypeOK
  <2>2. lockedOut' \in [Users -> BOOLEAN]
    BY <1>4 DEF Accounts!SaveFile
  <2> QED
    BY <1>1, <1>4, <2>1, <2>2, OthersKeep DEF Accounts!SaveFile, Accounts!AccountsInv,
       Accounts!TypeOK, Accounts!LocalsSet
<1> QED
  BY <1>3, <1>4

\* The watcher hashes, reads or records the hash.
LEMMA WatchInv ==
  ASSUME Accounts!AccountsInv, Accounts!HashFile \/ Accounts!ReadFile \/ Accounts!RecordHash
  PROVE  Accounts!AccountsInv'
<1>1. attempts' \in [Addresses -> Nat] /\ \A a \in Addresses : attempts'[a] <= attempts[a]
  BY DEF Accounts!HashFile, Accounts!ReadFile, Accounts!RecordHash, Accounts!AccountsInv,
     Accounts!TypeOK
<1>2. /\ check \in Accounts!Check /\ file \in Accounts!Content /\ lastHash \in Accounts!Content
      /\ Accounts!NoCheck \in Accounts!Check /\ Accounts!NoCheck.step = "idle"
      /\ Accounts!NoCheck.report = {}
  BY DEF Accounts!AccountsInv, Accounts!TypeOK, Accounts!NoCheck, Accounts!Check
<1>3. /\ check.step # "idle" => check.hash \in Accounts!Content
      /\ check.report # {} => check.step = "notify"
  BY DEF Accounts!AccountsInv, Accounts!LocalsSet
<1>4. CASE Accounts!HashFile
  <2>1. PICK found : found = [Accounts!NoCheck EXCEPT !.step = "read", !.hash = file]
    OBVIOUS
  <2>2. found \in Accounts!Check /\ found.step = "read" /\ found.hash = file /\ found.report = {}
    BY <1>2, <2>1 DEF Accounts!Check, Accounts!NoCheck
  <2>3. check' = IF file = lastHash THEN Accounts!NoCheck ELSE found
    BY <1>4, <2>1 DEF Accounts!HashFile
  <2>4. check.report = {}
    BY <1>3, <1>4 DEF Accounts!HashFile
  <2> QED
    BY <1>1, <1>2, <1>4, <2>2, <2>3, <2>4, OthersKeep DEF Accounts!HashFile,
       Accounts!AccountsInv, Accounts!TypeOK
<1>5. CASE Accounts!ReadFile
  <2>1. /\ check' \in Accounts!Check /\ check'.step = "apply" /\ check'.hash = check.hash
        /\ check'.read = file /\ check'.report = check.report
    BY <1>2, <1>5 DEF Accounts!ReadFile, Accounts!Check
  <2>2. check.report = {} /\ check.hash \in Accounts!Content
    BY <1>3, <1>5 DEF Accounts!ReadFile
  <2> QED
    BY <1>1, <1>2, <1>5, <2>1, <2>2, OthersKeep DEF Accounts!ReadFile,
       Accounts!AccountsInv, Accounts!TypeOK
<1>6. CASE Accounts!RecordHash
  <2>1. check' = Accounts!NoCheck /\ lastHash' \in Accounts!Content /\ check.report = {}
    BY <1>3, <1>6 DEF Accounts!RecordHash
  <2> QED
    BY <1>1, <1>2, <1>6, <2>1, OthersKeep DEF Accounts!RecordHash, Accounts!AccountsInv,
       Accounts!TypeOK
<1> QED
  BY <1>4, <1>5, <1>6

\* The rows are replaced: whoever they take out of use is noted.
LEMMA ApplyInv ==
  ASSUME Accounts!AccountsInv, Accounts!Apply
  PROVE  Accounts!AccountsInv'
<1>1. /\ check \in Accounts!Check /\ check.step = "apply" /\ check.read \in Accounts!Content
      /\ check.hash \in Accounts!Content /\ check.report = {}
  BY DEF Accounts!AccountsInv, Accounts!TypeOK, Accounts!LocalsSet, Accounts!Apply
<1>2. PICK gone \in SUBSET Users : gone = Accounts!Withdrawn(check.read)
  BY DEF Accounts!Withdrawn
<1>3. /\ check' \in Accounts!Check /\ check'.step = "notify" /\ check'.read = check.read
      /\ check'.hash = check.hash /\ check'.report = gone
  BY <1>1, <1>2 DEF Accounts!Apply, Accounts!Check
<1>4. Accounts!TypeOK' /\ Accounts!LocalsSet'
  <2>1. reported' \in [Users -> BOOLEAN] /\ everActive' \in [Users -> BOOLEAN]
    BY DEF Accounts!Apply, Accounts!Witness
  <2> QED
    BY <1>1, <1>3, <2>1 DEF Accounts!AccountsInv, Accounts!TypeOK, Accounts!LocalsSet,
       Accounts!Apply
<1>5. Accounts!WithdrawnReported'
  <2> SUFFICES ASSUME NEW u \in Users, everActive'[u], ~Accounts!Active(mem', u)
               PROVE  \/ reported'[u] \/ u \in check'.report
                      \/ \E q \in Requests : login'[q].step = "notify" /\ login'[q].user = u
    BY DEF Accounts!WithdrawnReported, Accounts!Active
  <2>1. ~Accounts!Active(check.read, u)
    BY DEF Accounts!Apply
  <2>2. CASE Accounts!Active(mem, u)
    BY <1>2, <1>3, <2>1, <2>2 DEF Accounts!Withdrawn
  <2>3. CASE ~Accounts!Active(mem, u)
    <3>1. everActive[u] /\ reported'[u] = reported[u]
      <4>1. reported \in [Users -> BOOLEAN]
        BY DEF Accounts!AccountsInv, Accounts!TypeOK
      <4> QED
        BY <2>1, <4>1 DEF Accounts!Apply, Accounts!Witness
    <3> QED
      BY <1>1, <2>3, <3>1 DEF Accounts!AccountsInv, Accounts!WithdrawnReported,
         Accounts!Apply
  <2> QED
    BY <2>2, <2>3
<1>6. Accounts!OvershootBounded'
  BY LimitKeeps DEF Accounts!Apply, Accounts!AccountsInv, Accounts!TypeOK
<1> QED
  BY <1>4, <1>5, <1>6 DEF Accounts!AccountsInv

\* The hook is called for whoever the reload took out of use.
LEMMA NotifyReloadInv ==
  ASSUME Accounts!AccountsInv, Accounts!NotifyReload
  PROVE  Accounts!AccountsInv'
<1>1. /\ check \in Accounts!Check /\ check.step = "notify" /\ check.read \in Accounts!Content
      /\ check.hash \in Accounts!Content /\ reported \in [Users -> BOOLEAN]
  BY DEF Accounts!AccountsInv, Accounts!TypeOK, Accounts!LocalsSet, Accounts!NotifyReload
<1>2. /\ check' \in Accounts!Check /\ check'.step = "record" /\ check'.read = check.read
      /\ check'.hash = check.hash /\ check'.report = {}
  BY <1>1 DEF Accounts!NotifyReload, Accounts!Check
<1>3. \A u \in Users :
        reported'[u] = IF u \in check.report THEN ~Accounts!Active(mem, u) ELSE reported[u]
  BY DEF Accounts!NotifyReload
<1>4. Accounts!TypeOK' /\ Accounts!LocalsSet'
  <2>1. reported' \in [Users -> BOOLEAN]
    <3>1. \A u \in Users : (~Accounts!Active(mem, u)) \in BOOLEAN
      BY DEF Accounts!Active
    <3> QED
      BY <1>1, <3>1 DEF Accounts!NotifyReload
  <2> QED
    BY <1>1, <1>2, <2>1 DEF Accounts!AccountsInv, Accounts!TypeOK, Accounts!LocalsSet,
       Accounts!NotifyReload
<1>5. Accounts!WithdrawnReported'
  <2> SUFFICES ASSUME NEW u \in Users, everActive'[u], ~Accounts!Active(mem', u)
               PROVE  \/ reported'[u] \/ u \in check'.report
                      \/ \E q \in Requests : login'[q].step = "notify" /\ login'[q].user = u
    BY DEF Accounts!WithdrawnReported, Accounts!Active
  <2>1. mem' = mem /\ everActive' = everActive /\ login' = login
    BY DEF Accounts!NotifyReload
  <2>2. \/ reported[u] \/ u \in check.report
        \/ \E q \in Requests : login[q].step = "notify" /\ login[q].user = u
    BY <2>1 DEF Accounts!AccountsInv, Accounts!WithdrawnReported
  <2> QED
    BY <1>3, <2>1, <2>2
<1>6. Accounts!OvershootBounded'
  BY LimitKeeps DEF Accounts!NotifyReload, Accounts!AccountsInv, Accounts!TypeOK
<1> QED
  BY <1>4, <1>5, <1>6 DEF Accounts!AccountsInv

\* Every step keeps the invariant.
LEMMA AccountsStep == Accounts!AccountsInv /\ [Accounts!Next]_accountVars => Accounts!AccountsInv'
<1> SUFFICES ASSUME Accounts!AccountsInv, [Accounts!Next]_accountVars PROVE Accounts!AccountsInv'
  OBVIOUS
<1>1. ASSUME NEW c \in Requests, NEW u \in Users, NEW a \in Addresses,
             Accounts!LoginByTool(c, u, a) \/ Accounts!LoginByPage(c, u, a)
      PROVE  Accounts!AccountsInv'
  BY <1>1, AdmitInv DEF Accounts!LoginByTool, Accounts!LoginByPage
<1>2. ASSUME NEW c \in Requests,
             \/ Accounts!Refuse(c) \/ Accounts!WrongPassword(c) \/ Accounts!NotifyLockout(c)
             \/ Accounts!CountFailure(c) \/ Accounts!RightPassword(c) \/ Accounts!ResetAttempts(c)
             \/ Accounts!MarshalRest(c) \/ Accounts!Truncate(c) \/ Accounts!Write(c)
      PROVE  Accounts!AccountsInv'
  BY <1>2, RefuseInv, WrongPasswordInv, NotifyLockoutInv, CountFailureInv, RightPasswordInv,
     ResetAttemptsInv, MarshalRestInv, TruncateInv, WriteInv
<1>3. CASE UNCHANGED accountVars
  <2>1. attempts' \in [Addresses -> Nat] /\ \A a \in Addresses : attempts'[a] <= attempts[a]
    BY <1>3 DEF accountVars, Accounts!AccountsInv, Accounts!TypeOK
  <2> QED
    BY <1>3, <2>1, OthersKeep DEF accountVars, Accounts!AccountsInv, Accounts!TypeOK,
       Accounts!LocalsSet
<1> QED
  BY <1>1, <1>2, <1>3, LeaveWindowInv, CommandsInv, EditInv, WatchInv, ApplyInv,
     NotifyReloadInv
     DEF Accounts!Next

\* The accounts and the clients run in behaviours of their own.
LEMMA AccountsRun == [AccountsNext]_all => [Accounts!Next]_accountVars
BY DEF AccountsNext, all, accountVars

\* The inductive invariant of the accounts: whoever is at a step has what it
\* uses, only a check that has replaced the rows has something to report, an
\* account taken out of use has been reported or is about to be, and whoever
\* may still record a failed attempt is counted against the limit.
THEOREM AccountsInvCorrect == AccountsSpec => []Accounts!AccountsInv
<1>1. AccountsInit => Accounts!AccountsInv
  BY AccountsBegin DEF AccountsInit
<1>2. Accounts!AccountsInv /\ [AccountsNext]_all => Accounts!AccountsInv'
  BY AccountsRun, AccountsStep
<1> QED
  BY <1>1, <1>2, PTL DEF AccountsSpec

\* A withdrawal of access, by a lockout, a command or a file read while it
\* was empty, reaches the revocation hook (notifyRevoked), for any number of
\* accounts and however logins, commands, writes and reloads interleave.
THEOREM WithdrawnReportedCorrect == AccountsSpec => []WithdrawnReported
<1>1. Accounts!AccountsInv => WithdrawnReported
  BY DEF Accounts!AccountsInv, WithdrawnReported
<1> QED
  BY <1>1, AccountsInvCorrect, PTL

\* RateLimiter's limit is overshot by no more than the logins under way
\* together, for any limit and any number of them.
THEOREM OvershootBoundedCorrect == AccountsSpec => []OvershootBounded
<1>1. Accounts!AccountsInv => OvershootBounded
  BY DEF Accounts!AccountsInv, OvershootBounded
<1> QED
  BY <1>1, AccountsInvCorrect, PTL

=============================================================================

------------------------- MODULE OAuthTokens_proofs -------------------------
(***************************************************************************)
(* Type correctness of the token endpoint, single use of credentials, one  *)
(* refresh token per family, complete removals and rotations on record,    *)
(* for any number of handlers, accounts, codes and tokens, any lifetimes   *)
(* and any limits.                                                         *)
(***************************************************************************)
EXTENDS OAuthTokens, FiniteSetTheorems, TLAPS

(***************************************************************************)
(* Type correctness                                                        *)
(***************************************************************************)

\* Deleting tokens with their cascade leaves a well-typed store.
LEMMA WithoutType ==
  ASSUME TypeOK, NEW H \in SUBSET Hash
  PROVE  Without(H) \in [Hash -> Token \cup {None}]
<1> DEFINE gone == UNION {Cascade(h) : h \in H}
<1>1. ASSUME NEW h \in Hash, tokens[h] # None
      PROVE  [tokens[h] EXCEPT !.issued = @ \ gone] \in Token
  <2>1. tokens[h] \in Token
    BY <1>1 DEF TypeOK
  <2>2. tokens[h].issued \ gone \in SUBSET Hash
    BY <2>1 DEF Token
  <2> QED
    BY <2>1, <2>2 DEF Token
<1> QED
  BY <1>1 DEF Without

\* What a deletion reports is a set of hashes.
LEMMA AccessInType ==
  ASSUME NEW H
  PROVE  AccessIn(H) \subseteq H
BY DEF AccessIn

\* The cascade of tokens in the store is a set of hashes.
LEMMA CascadeType ==
  ASSUME TypeOK, NEW H \in SUBSET Present(tokens)
  PROVE  UNION {Cascade(h) : h \in H} \subseteq Hash
<1>1. ASSUME NEW h \in H
      PROVE  Cascade(h) \subseteq Hash
  <2>1. h \in Hash /\ tokens[h] \in Token
    BY DEF TypeOK, Present
  <2> QED
    BY <2>1 DEF Cascade, Token
<1> QED
  BY <1>1

\* DeleteToken and TakeToken keep the types of what they change.
LEMMA DeleteTokensType ==
  ASSUME TypeOK, NEW H \in SUBSET Present(tokens), DeleteTokens(H)
  PROVE  /\ tokens' \in [Hash -> Token \cup {None}]
         /\ reported' \in SUBSET Hash
<1>1. H \in SUBSET Hash
  BY DEF TypeOK, Present
<1>2. tokens' \in [Hash -> Token \cup {None}]
  BY <1>1, WithoutType DEF DeleteTokens
<1>3. UNION {Cascade(h) : h \in H} \subseteq Hash
  BY CascadeType
<1>4. AccessIn(UNION {Cascade(h) : h \in H}) \subseteq Hash
  BY <1>3, AccessInType
<1> QED
  BY <1>2, <1>4 DEF DeleteTokens, TypeOK

\* So do the removal of a family and of a subject.
LEMMA DeleteFamilyType ==
  ASSUME TypeOK, NEW f, DeleteFamily(f)
  PROVE  /\ tokens' \in [Hash -> Token \cup {None}]
         /\ reported' \in SUBSET Hash
BY DEF DeleteFamily, AccessIn, TypeOK

LEMMA DeleteBySubjectType ==
  ASSUME TypeOK, NEW s, DeleteBySubject(s)
  PROVE  /\ tokens' \in [Hash -> Token \cup {None}]
         /\ codes' \in [Codes -> AuthCode \cup {None}]
         /\ reported' \in SUBSET Hash
BY DEF DeleteBySubject, AccessIn, TypeOK

\* A handler's move to another place keeps pc and req typed, and leaves
\* every handler with the local variables its place needs.
LEMMA GotoType ==
  ASSUME TypeInv, NEW t \in Threads, NEW place \in PC, NEW locals \in Request,
         PlaceOK(place, locals), Goto(t, place, locals)
  PROVE  /\ pc' \in [Threads -> PC]
         /\ req' \in [Threads -> Request]
         /\ \A u \in Threads : PlaceOK(pc'[u], req'[u])
<1>1. pc' \in [Threads -> PC] /\ req' \in [Threads -> Request]
  BY DEF Goto, TypeInv, TypeOK
<1>2. ASSUME NEW u \in Threads
      PROVE  PlaceOK(pc'[u], req'[u])
  <2>1. CASE u = t
    BY <2>1 DEF Goto, TypeInv, TypeOK
  <2>2. CASE u # t
    <3>1. pc'[u] = pc[u] /\ req'[u] = req[u]
      BY <2>2 DEF Goto, TypeInv, TypeOK
    <3> QED
      BY <3>1 DEF TypeInv
  <2> QED
    BY <2>1, <2>2
<1> QED
  BY <1>1, <1>2

LEMMA FinishType ==
  ASSUME TypeInv, NEW t \in Threads, Finish(t)
  PROVE  /\ pc' \in [Threads -> PC]
         /\ req' \in [Threads -> Request]
         /\ \A u \in Threads : PlaceOK(pc'[u], req'[u])
<1>1. NoRequest \in Request /\ "idle" \in PC
  BY DEF NoRequest, Request, PC
<1>2. PlaceOK("idle", NoRequest)
  BY DEF PlaceOK
<1> QED
  BY <1>1, <1>2, GotoType DEF Finish

\* A step that moves no handler.
LEMMA StayType ==
  ASSUME TypeInv, UNCHANGED <<pc, req>>
  PROVE  /\ pc' \in [Threads -> PC]
         /\ req' \in [Threads -> Request]
         /\ \A u \in Threads : PlaceOK(pc'[u], req'[u])
BY DEF TypeInv, TypeOK

LEMMA TypeInit == Init => TypeInv
<1> SUFFICES ASSUME Init PROVE TypeInv
  OBVIOUS
<1>1. NoRequest \in Request /\ "idle" \in PC
  BY DEF NoRequest, Request, PC
<1>2. TypeOK
  BY <1>1 DEF Init, TypeOK
<1>3. \A t \in Threads : PlaceOK(pc[t], req[t])
  BY DEF Init, PlaceOK
<1> QED
  BY <1>2, <1>3 DEF TypeInv

\* Every step of a handler keeps types and local variables right.
LEMMA TypeArrive ==
  ASSUME TypeInv, NEW t \in Threads, Arrive(t)
  PROVE  TypeInv'
<1> USE DEF storeVars, histVars
<1>1. ASSUME NEW s \in Subjects, NEW c \in Codes, SignIn(t, s, c)
      PROVE  TypeInv'
  <2> DEFINE r == [NoRequest EXCEPT !.cred = c, !.subject = s]
  <2>1. r \in Request /\ PlaceOK("put_code", r) /\ "put_code" \in PC
    BY DEF NoRequest, Request, Cred, PlaceOK, PC
  <2>2. Goto(t, "put_code", r)
    BY <1>1 DEF SignIn
  <2> HIDE DEF r
  <2>3. /\ pc' \in [Threads -> PC]
        /\ req' \in [Threads -> Request]
        /\ \A u \in Threads : PlaceOK(pc'[u], req'[u])
    BY <2>1, <2>2, GotoType
  <2> QED
    BY <1>1, <2>3 DEF SignIn, TypeInv, TypeOK
<1>2. ASSUME NEW c \in Codes, NEW matches \in BOOLEAN,
             TakeCode(t, c, matches)
      PROVE  TypeInv'
  <2> DEFINE e == codes[c].exp + AccessTTL
             r == [NoRequest EXCEPT !.cred = c, !.subject = codes[c].subject,
                                    !.until = e]
  <2>1. codes[c] \in AuthCode
    BY <1>2 DEF TakeCode, TypeInv, TypeOK
  <2>2. r \in Request /\ PlaceOK("put_refresh", r) /\ "put_refresh" \in PC
    <3>1. codes[c].subject \in Subjects /\ e \in Nat
      BY <2>1, LifetimeAssumption DEF AuthCode
    <3> HIDE DEF e
    <3>2. r \in Request
      BY <3>1 DEF NoRequest, Request, Cred
    <3> QED
      BY <3>1, <3>2 DEF NoRequest, PlaceOK, PC, Cred
  <2>3. Goto(t, "put_refresh", r) \/ UNCHANGED <<pc, req>>
    BY <1>2 DEF TakeCode
  <2> HIDE DEF r
  <2>4. /\ pc' \in [Threads -> PC]
        /\ req' \in [Threads -> Request]
        /\ \A u \in Threads : PlaceOK(pc'[u], req'[u])
    BY <2>2, <2>3, GotoType, StayType
  <2>5. codes' \in [Codes -> AuthCode \cup {None}]
    BY <1>2 DEF TakeCode, TypeInv, TypeOK
  <2> QED
    BY <1>2, <2>4, <2>5 DEF TakeCode, TypeInv, TypeOK
<1>3. ASSUME NEW c \in Codes, ReplayCode(t, c)
      PROVE  TypeInv'
  <2> DEFINE r == [NoRequest EXCEPT !.family = usedCodes[c].family]
  <2>1. usedCodes[c] \in UsedCode
    BY <1>3 DEF ReplayCode, TypeInv, TypeOK
  <2>2. r \in Request /\ PlaceOK("delete_family", r) /\ "delete_family" \in PC
    BY <2>1 DEF NoRequest, Request, PlaceOK, PC, UsedCode
  <2>3. Goto(t, "delete_family", r)
    BY <1>3 DEF ReplayCode
  <2> HIDE DEF r
  <2>4. /\ pc' \in [Threads -> PC]
        /\ req' \in [Threads -> Request]
        /\ \A u \in Threads : PlaceOK(pc'[u], req'[u])
    BY <2>2, <2>3, GotoType
  <2>5. usedCodes' \in [Codes -> UsedCode \cup {None}]
    BY <1>3 DEF ReplayCode, TypeInv, TypeOK
  <2> QED
    BY <1>3, <2>4, <2>5 DEF ReplayCode, TypeInv, TypeOK
<1>4. ASSUME NEW h \in Hash, NEW matches \in BOOLEAN,
             TakeToken(t, h, matches)
      PROVE  TypeInv'
  <2> DEFINE r == [NoRequest EXCEPT !.cred = h, !.subject = tokens[h].subject,
                                    !.family = tokens[h].family]
  <2>1. tokens[h] \in Token
    BY <1>4 DEF TakeToken, TypeInv, TypeOK
  <2>2. r \in Request /\ PlaceOK("check_subject", r) /\ "check_subject" \in PC
    BY <2>1 DEF NoRequest, Request, Cred, PlaceOK, PC, Token
  <2>3. Goto(t, "check_subject", r) \/ UNCHANGED <<pc, req>>
    BY <1>4 DEF TakeToken
  <2> HIDE DEF r
  <2>4. /\ pc' \in [Threads -> PC]
        /\ req' \in [Threads -> Request]
        /\ \A u \in Threads : PlaceOK(pc'[u], req'[u])
    BY <2>2, <2>3, GotoType, StayType
  <2>5. TypeOK /\ {h} \in SUBSET Present(tokens) /\ DeleteTokens({h})
    BY <1>4 DEF TakeToken, Present, TypeInv, TypeOK
  <2>6. tokens' \in [Hash -> Token \cup {None}] /\ reported' \in SUBSET Hash
    BY <2>5, DeleteTokensType
  <2> QED
    BY <1>4, <2>4, <2>6 DEF TakeToken, TypeInv, TypeOK
<1>5. ASSUME NEW h \in Hash, ReplayRefresh(t, h)
      PROVE  TypeInv'
  <2> DEFINE r == [NoRequest EXCEPT !.family = rotated[h].family]
  <2>1. rotated[h] \in Rotated
    BY <1>5 DEF ReplayRefresh, TypeInv, TypeOK
  <2>2. r \in Request /\ PlaceOK("delete_family", r) /\ "delete_family" \in PC
    BY <2>1 DEF NoRequest, Request, PlaceOK, PC, Rotated
  <2>3. Goto(t, "delete_family", r)
    BY <1>5 DEF ReplayRefresh
  <2> HIDE DEF r
  <2>4. /\ pc' \in [Threads -> PC]
        /\ req' \in [Threads -> Request]
        /\ \A u \in Threads : PlaceOK(pc'[u], req'[u])
    BY <2>2, <2>3, GotoType
  <2> QED
    BY <1>5, <2>4 DEF ReplayRefresh, TypeInv, TypeOK
<1>6. ASSUME NEW h \in Hash, Validate(t, h)
      PROVE  TypeInv'
  <2> DEFINE r == [NoRequest EXCEPT !.subject = tokens[h].subject]
  <2>1. tokens[h] \in Token
    BY <1>6 DEF Validate, TypeInv, TypeOK
  <2>2. r \in Request /\ PlaceOK("revoke_subject", r) /\ "revoke_subject" \in PC
    BY <2>1 DEF NoRequest, Request, PlaceOK, PC, Token
  <2>3. Goto(t, "revoke_subject", r)
    BY <1>6 DEF Validate
  <2> HIDE DEF r
  <2>4. /\ pc' \in [Threads -> PC]
        /\ req' \in [Threads -> Request]
        /\ \A u \in Threads : PlaceOK(pc'[u], req'[u])
    BY <2>2, <2>3, GotoType
  <2> QED
    BY <1>6, <2>4 DEF Validate, TypeInv, TypeOK
<1> QED
  BY <1>1, <1>2, <1>3, <1>4, <1>5, <1>6 DEF Arrive

LEMMA TypeContinue ==
  ASSUME TypeInv, NEW t \in Threads, Continue(t)
  PROVE  TypeInv'
<1> USE DEF storeVars, histVars
<1> DEFINE HandlersOK ==
      /\ pc' \in [Threads -> PC]
      /\ req' \in [Threads -> Request]
      /\ \A u \in Threads : PlaceOK(pc'[u], req'[u])
<1>0. TypeOK /\ req[t] \in Request /\ PlaceOK(pc[t], req[t])
  BY DEF TypeInv, TypeOK
<1>1. ASSUME PutCode(t)
      PROVE  TypeInv'
  <2>1. HandlersOK
    BY <1>1, FinishType DEF PutCode
  <2>2. req[t].cred \in Codes /\ req[t].subject \in Subjects
    BY <1>0, <1>1 DEF PutCode, PlaceOK
  <2>3. now + CodeTTL \in Nat
    BY <1>0, LifetimeAssumption DEF TypeOK
  <2>4. [subject |-> req[t].subject, exp |-> now + CodeTTL] \in AuthCode
    BY <2>2, <2>3 DEF AuthCode
  <2>5. codes' \in [Codes -> AuthCode \cup {None}]
    BY <1>0, <1>1, <2>2, <2>4 DEF PutCode, TypeOK
  <2> QED
    BY <1>1, <2>1, <2>5 DEF PutCode, TypeInv, TypeOK
<1>2. ASSUME CheckSubject(t)
      PROVE  TypeInv'
  <2> DEFINE r == [NoRequest EXCEPT !.subject = req[t].subject]
  <2>1. r \in Request /\ PlaceOK("revoke_subject", r) /\ "revoke_subject" \in PC
    BY <1>0, <1>2 DEF CheckSubject, NoRequest, Request, PlaceOK, PC
  <2>2. PlaceOK("put_refresh", req[t]) /\ "put_refresh" \in PC
    BY <1>0, <1>2 DEF CheckSubject, PlaceOK, PC, Cred
  <2>3. Goto(t, "put_refresh", req[t]) \/ Goto(t, "revoke_subject", r)
    BY <1>2 DEF CheckSubject
  <2> HIDE DEF r
  <2>4. HandlersOK
    BY <1>0, <2>1, <2>2, <2>3, GotoType
  <2> QED
    BY <1>2, <2>4 DEF CheckSubject, TypeInv, TypeOK
<1>3. ASSUME RevokeFamily(t)
      PROVE  TypeInv'
  <2>1. HandlersOK
    BY <1>3, FinishType DEF RevokeFamily
  <2>2. tokens' \in [Hash -> Token \cup {None}] /\ reported' \in SUBSET Hash
    BY <1>0, <1>3, DeleteFamilyType DEF RevokeFamily
  <2>3. killed' \in SUBSET Hash
    BY <1>0, <1>3 DEF RevokeFamily, PlaceOK, TypeOK
  <2> QED
    BY <1>3, <2>1, <2>2, <2>3 DEF RevokeFamily, TypeInv, TypeOK
<1>4. ASSUME RevokeSubject(t)
      PROVE  TypeInv'
  <2>1. HandlersOK
    BY <1>4, FinishType DEF RevokeSubject
  <2>2. /\ tokens' \in [Hash -> Token \cup {None}]
        /\ codes' \in [Codes -> AuthCode \cup {None}]
        /\ reported' \in SUBSET Hash
    BY <1>0, <1>4, DeleteBySubjectType DEF RevokeSubject
  <2> QED
    BY <1>4, <2>1, <2>2 DEF RevokeSubject, TypeInv, TypeOK
<1>5. ASSUME PutRefresh(t)
      PROVE  TypeInv'
  <2>1. CASE TokensFull
    <3>1. HandlersOK
      BY <1>5, <2>1, FinishType DEF PutRefresh
    <3> QED
      BY <1>5, <2>1, <3>1 DEF PutRefresh, TypeInv, TypeOK
  <2>2. CASE ~TokensFull
    <3> DEFINE f == IF req[t].family = None THEN nextHash ELSE req[t].family
               r == [req[t] EXCEPT !.family = f, !.refresh = nextHash, !.at = now]
               k == [subject |-> req[t].subject, family |-> f,
                     isRefresh |-> TRUE, parent |-> None,
                     issued |-> {nextHash + 1}, exp |-> now + RefreshTTL]
    <3>1. /\ nextHash + 1 \in Hash
          /\ nextHash' = nextHash + 2
          /\ tokens' = [tokens EXCEPT ![nextHash] = k]
          /\ lineage' = [lineage EXCEPT ![nextHash] = req[t].cred]
          /\ Goto(t, "put_access", r)
      BY <1>5, <2>2 DEF PutRefresh
    <3>2. /\ nextHash \in Hash
          /\ now \in Nat
          /\ now + RefreshTTL \in Nat
          /\ nextHash + 2 \in Nat \ {0}
      BY <1>0, <3>1, BoundAssumption, LifetimeAssumption DEF TypeOK, Hash
    <3>3. req[t].cred \in Cred /\ req[t].subject \in Subjects
      BY <1>0, <1>5 DEF PutRefresh, PlaceOK
    <3>4. f \in Hash
      BY <1>0, <3>2 DEF Request
    <3> HIDE DEF f
    <3>5. k \in Token
      BY <3>1, <3>2, <3>3, <3>4 DEF Token
    <3>6. r \in Request /\ "put_access" \in PC
      BY <1>0, <3>2, <3>4 DEF Request, PC
    <3>7. PlaceOK("put_access", r)
      BY <1>0, <3>1, <3>2, <3>3, <3>4 DEF PlaceOK, Request
    <3> HIDE DEF k, r
    <3>8. HandlersOK
      BY <3>1, <3>6, <3>7, GotoType
    <3>9. /\ tokens' \in [Hash -> Token \cup {None}]
          /\ lineage' \in [Hash -> Cred \cup {None}]
          /\ nextHash' \in Nat \ {0}
      BY <1>0, <3>1, <3>2, <3>3, <3>5 DEF TypeOK
    <3> QED
      BY <1>5, <3>8, <3>9 DEF PutRefresh, TypeInv, TypeOK
  <2> QED
    BY <2>1, <2>2
<1>6. ASSUME PutAccess(t)
      PROVE  TypeInv'
  <2> DEFINE k == [subject |-> req[t].subject, family |-> req[t].family,
                   isRefresh |-> FALSE, parent |-> req[t].refresh,
                   issued |-> {}, exp |-> req[t].at + AccessTTL]
  <2>1. /\ req[t].subject \in Subjects /\ req[t].family \in Hash
        /\ req[t].refresh \in Hash /\ req[t].refresh + 1 \in Hash
        /\ req[t].cred \in Cred
    BY <1>0, <1>6 DEF PutAccess, PlaceOK
  <2>2. req[t].at + AccessTTL \in Nat
    BY <1>0, LifetimeAssumption DEF Request
  <2>3. k \in Token
    BY <2>1, <2>2 DEF Token
  <2>4. PlaceOK("undo", req[t]) /\ "undo" \in PC
    BY <2>1 DEF PlaceOK, PC
  <2>5. req[t].cred \in Codes =>
          PlaceOK("mark_code", req[t]) /\ "mark_code" \in PC
    BY <2>1 DEF PlaceOK, PC
  <2>6. req[t].cred \notin Codes =>
          PlaceOK("mark_refresh", req[t]) /\ "mark_refresh" \in PC
    BY <2>1 DEF PlaceOK, PC, Cred
  <2>7. \/ Goto(t, "undo", req[t])
        \/ req[t].cred \in Codes /\ Goto(t, "mark_code", req[t])
        \/ req[t].cred \notin Codes /\ Goto(t, "mark_refresh", req[t])
    BY <1>6 DEF PutAccess
  <2>8. HandlersOK
    BY <1>0, <2>4, <2>5, <2>6, <2>7, GotoType
  <2>9. \/ UNCHANGED tokens
        \/ tokens' = [tokens EXCEPT ![req[t].refresh + 1] = k]
    BY <1>6 DEF PutAccess
  <2> HIDE DEF k
  <2>10. tokens' \in [Hash -> Token \cup {None}]
    BY <1>0, <2>1, <2>3, <2>9 DEF TypeOK
  <2> QED
    BY <1>6, <2>8, <2>10 DEF PutAccess, TypeInv, TypeOK
<1>7. ASSUME Undo(t)
      PROVE  TypeInv'
  <2>1. HandlersOK
    BY <1>7, FinishType DEF Undo
  <2>2. {req[t].refresh} \cap Present(tokens) \in SUBSET Present(tokens)
    OBVIOUS
  <2>3. tokens' \in [Hash -> Token \cup {None}] /\ reported' \in SUBSET Hash
    BY <1>0, <1>7, <2>2, DeleteTokensType DEF Undo
  <2> QED
    BY <1>7, <2>1, <2>3 DEF Undo, TypeInv, TypeOK
<1>8. ASSUME MarkCodeUsed(t)
      PROVE  TypeInv'
  <2>1. HandlersOK
    BY <1>8, FinishType DEF MarkCodeUsed
  <2>2. /\ req[t].cred \in Codes /\ req[t].family \in Hash
        /\ req[t].refresh \in Hash /\ req[t].refresh + 1 \in Hash
    BY <1>0, <1>8 DEF MarkCodeUsed, PlaceOK
  <2>3. [family |-> req[t].family, until |-> req[t].until] \in UsedCode
    BY <1>0, <2>2 DEF UsedCode, Request
  <2>4. usedCodes' \in [Codes -> UsedCode \cup {None}]
    BY <1>0, <1>8, <2>2, <2>3 DEF MarkCodeUsed, TypeOK
  <2>5. delivered' \in SUBSET Hash
    BY <1>0, <1>8, <2>2 DEF MarkCodeUsed, Deliver, TypeOK
  <2> QED
    BY <1>8, <2>1, <2>4, <2>5 DEF MarkCodeUsed, TypeInv, TypeOK
<1>9. ASSUME MarkRefreshRotated(t)
      PROVE  TypeInv'
  <2> DEFINE k == [family |-> req[t].family, until |-> now + RefreshTTL]
  <2>1. HandlersOK
    BY <1>9, FinishType DEF MarkRefreshRotated
  <2>2. /\ req[t].cred \in Hash /\ req[t].family \in Hash
        /\ req[t].refresh \in Hash /\ req[t].refresh + 1 \in Hash
    BY <1>0, <1>9 DEF MarkRefreshRotated, PlaceOK
  <2>3. now + RefreshTTL \in Nat
    BY <1>0, LifetimeAssumption DEF TypeOK
  <2>4. k \in Rotated
    BY <2>2, <2>3 DEF Rotated
  <2>5. \/ \E v \in Evictable :
             rotated' = [rotated EXCEPT ![v] = None, ![req[t].cred] = k]
        \/ rotated' = [rotated EXCEPT ![req[t].cred] = k]
    BY <1>9 DEF MarkRefreshRotated
  <2> HIDE DEF k
  <2>6. rotated' \in [Hash -> Rotated \cup {None}]
    BY <1>0, <2>2, <2>4, <2>5 DEF TypeOK
  <2>7. delivered' \in SUBSET Hash
    BY <1>0, <1>9, <2>2 DEF MarkRefreshRotated, Deliver, TypeOK
  <2> QED
    BY <1>9, <2>1, <2>6, <2>7 DEF MarkRefreshRotated, TypeInv, TypeOK
<1> QED
  BY <1>1, <1>2, <1>3, <1>4, <1>5, <1>6, <1>7, <1>8, <1>9 DEF Continue

\* No other step moves a handler; what it changes stays well typed.
LEMMA TypeOther ==
  ASSUME TypeInv,
         \/ \E h \in Hash : Revoke(h)
         \/ \E s \in Subjects : Disable(s) \/ Enable(s) \/ RunHook(s)
         \/ Sweep
         \/ Tick
         \/ UNCHANGED vars
  PROVE  TypeInv'
<1> USE DEF storeVars, histVars
<1> DEFINE HandlersOK ==
      /\ pc' \in [Threads -> PC]
      /\ req' \in [Threads -> Request]
      /\ \A u \in Threads : PlaceOK(pc'[u], req'[u])
<1>0. TypeOK
  BY DEF TypeInv
<1>1. ASSUME NEW h \in Hash, Revoke(h)
      PROVE  TypeInv'
  <2>1. HandlersOK
    BY <1>1, StayType DEF Revoke
  <2>2. {h} \in SUBSET Present(tokens)
    BY <1>0, <1>1 DEF Revoke, Present, TypeOK
  <2>3. tokens' \in [Hash -> Token \cup {None}] /\ reported' \in SUBSET Hash
    BY <1>0, <1>1, <2>2, DeleteTokensType DEF Revoke
  <2> QED
    BY <1>1, <2>1, <2>3 DEF Revoke, TypeInv, TypeOK
<1>2. ASSUME NEW s \in Subjects, Disable(s) \/ Enable(s)
      PROVE  TypeInv'
  <2>1. HandlersOK
    BY <1>2, StayType DEF Disable, Enable
  <2>2. active' \in [Subjects -> BOOLEAN] /\ hook' \in SUBSET Subjects
    BY <1>0, <1>2 DEF Disable, Enable, TypeOK
  <2> QED
    BY <1>2, <2>1, <2>2 DEF Disable, Enable, TypeInv, TypeOK
<1>3. ASSUME NEW s \in Subjects, RunHook(s)
      PROVE  TypeInv'
  <2>1. HandlersOK
    BY <1>3, StayType DEF RunHook
  <2>2. /\ tokens' \in [Hash -> Token \cup {None}]
        /\ codes' \in [Codes -> AuthCode \cup {None}]
        /\ reported' \in SUBSET Hash
    BY <1>0, <1>3, DeleteBySubjectType DEF RunHook
  <2> QED
    BY <1>3, <2>1, <2>2 DEF RunHook, TypeInv, TypeOK
<1>4. ASSUME Sweep
      PROVE  TypeInv'
  <2>1. HandlersOK
    BY <1>4, StayType DEF Sweep
  <2>2. Stale(tokens) \in SUBSET Present(tokens)
    BY DEF Stale
  <2>3. tokens' \in [Hash -> Token \cup {None}] /\ reported' \in SUBSET Hash
    BY <1>0, <1>4, <2>2, DeleteTokensType DEF Sweep
  <2>4. /\ codes' \in [Codes -> AuthCode \cup {None}]
        /\ usedCodes' \in [Codes -> UsedCode \cup {None}]
        /\ rotated' \in [Hash -> Rotated \cup {None}]
    BY <1>0, <1>4 DEF Sweep, TypeOK
  <2> QED
    BY <1>4, <2>1, <2>3, <2>4 DEF Sweep, TypeInv, TypeOK
<1>5. ASSUME Tick
      PROVE  TypeInv'
  <2>1. HandlersOK
    BY <1>5, StayType DEF Tick
  <2> QED
    BY <1>5, <2>1 DEF Tick, TypeInv, TypeOK
<1>6. ASSUME UNCHANGED vars
      PROVE  TypeInv'
  <2>1. HandlersOK
    BY <1>6, StayType DEF vars
  <2> QED
    BY <1>6, <2>1 DEF vars, TypeInv, TypeOK
<1> QED
  BY <1>1, <1>2, <1>3, <1>4, <1>5, <1>6

LEMMA TypeNext == TypeInv /\ [Next]_vars => TypeInv'
BY TypeArrive, TypeContinue, TypeOther DEF Next

\* Every variable keeps its type, and every handler has set the local
\* variables that its place in the code will use.
THEOREM TypeCorrect == Spec => []TypeInv
<1>1. QED
  BY TypeInit, TypeNext, PTL DEF Spec

THEOREM TypeOKAlways == Spec => []TypeOK
<1>1. TypeInv => TypeOK
  BY DEF TypeInv
<1> QED
  BY <1>1, TypeCorrect, PTL

(***************************************************************************)
(* Single use of authorisation codes and refresh tokens                    *)
(***************************************************************************)

\* A step that only takes things out of the store.
Shrinks ==
  /\ \A h \in Hash :
       \/ tokens'[h] = None
       \/ tokens[h] # None /\ tokens'[h].isRefresh = tokens[h].isRefresh
  /\ \A c \in Codes : codes'[c] = None \/ codes'[c] = codes[c]
  /\ UNCHANGED <<lineage, nextHash, minted>>

\* A step in which no handler comes to own a credential or to be storing an
\* access token.
NoNewOwner ==
  \A t \in Threads :
    /\ Owns(t)' => Owns(t) /\ req'[t].cred = req[t].cred
    /\ pc'[t] = "put_access" =>
         pc[t] = "put_access" /\ req'[t].refresh = req[t].refresh

\* Such a step keeps the whole invariant: credentials only get scarcer.
LEMMA ShrinkKeeps ==
  ASSUME SingleUseInv, TypeInv', Shrinks, NoNewOwner
  PROVE  SingleUseInv'
<1> USE DEF SingleUseInv, Shrinks
<1>1. KindInv'
  BY DEF KindInv
<1>2. SpentInv'
  BY DEF SpentInv
<1>3. OwnInv'
  <2>1. ASSUME NEW t \in Threads, Owns(t)'
        PROVE  /\ \A h \in Hash : lineage'[h] # req'[t].cred
               /\ req'[t].cred \in Codes =>
                    req'[t].cred \in minted' /\ codes'[req'[t].cred] = None
               /\ req'[t].cred \in Hash =>
                    /\ lineage'[req'[t].cred] # None
                    /\ tokens'[req'[t].cred] = None
    <3>1. Owns(t) /\ req'[t].cred = req[t].cred
      BY <2>1 DEF NoNewOwner
    <3> QED
      BY <3>1 DEF OwnInv
  <2>2. ASSUME NEW t \in Threads, NEW u \in Threads, Owns(t)', Owns(u)',
               req'[t].cred = req'[u].cred
        PROVE  t = u
    BY <2>2 DEF NoNewOwner, OwnInv
  <2> QED
    BY <2>1, <2>2 DEF OwnInv
<1>4. IssueInv'
  BY DEF IssueInv, NoNewOwner
<1>5. SingleUse'
  BY DEF SingleUse
<1> QED
  BY <1>1, <1>2, <1>3, <1>4, <1>5

\* Deletions only take tokens out.
LEMMA DeleteTokensShrinks ==
  ASSUME TypeOK, NEW H, DeleteTokens(H), NEW h \in Hash
  PROVE  \/ tokens'[h] = None
         \/ tokens[h] # None /\ tokens'[h].isRefresh = tokens[h].isRefresh
<1>1. CASE tokens'[h] = None
  BY <1>1
<1>2. CASE tokens'[h] # None
  <2> DEFINE gone == UNION {Cascade(g) : g \in H}
  <2>1. tokens[h] # None /\ tokens'[h] = [tokens[h] EXCEPT !.issued = @ \ gone]
    BY <1>2 DEF DeleteTokens, Without
  <2>2. tokens[h] \in Token
    BY <2>1 DEF TypeOK
  <2> HIDE DEF gone
  <2> QED
    BY <2>1, <2>2 DEF Token
<1> QED
  BY <1>1, <1>2

\* Deleting a token does delete it.
LEMMA DeleteTokensDeletes ==
  ASSUME NEW h \in Hash, DeleteTokens({h})
  PROVE  tokens'[h] = None
BY DEF DeleteTokens, Without, Cascade

\* A handler that has finished owns nothing; the others are as they were.
LEMMA FinishOwns ==
  ASSUME TypeInv, NEW t \in Threads, Finish(t)
  PROVE  NoNewOwner
BY DEF TypeInv, TypeOK, Finish, Goto, NoNewOwner, Owns

\* Nor does one that goes to a place where nothing is owned.
LEMMA GotoOwns ==
  ASSUME TypeInv, NEW t \in Threads, NEW locals, NEW place,
         place \notin {"put_code", "check_subject", "put_refresh",
                       "put_access"},
         Goto(t, place, locals)
  PROVE  NoNewOwner
BY DEF TypeInv, TypeOK, Goto, NoNewOwner, Owns

LEMMA StayOwns ==
  ASSUME UNCHANGED <<pc, req>>
  PROVE  NoNewOwner
BY DEF NoNewOwner, Owns

\* A handler that comes to own a credential the store has just given up, or
\* has never held, keeps the ownership invariant.
LEMMA NewOwner ==
  ASSUME SingleUseInv, TypeInv', Shrinks \/ UNCHANGED <<tokens, codes, lineage>>,
         NEW t \in Threads, NEW place \in PC, NEW locals \in Request,
         place \in {"put_code", "check_subject", "put_refresh"},
         Goto(t, place, locals),
         minted \subseteq minted', UNCHANGED <<lineage, nextHash>>,
         \A h \in Hash : lineage[h] # locals.cred,
         locals.cred \in Codes =>
           locals.cred \in minted' /\ codes'[locals.cred] = None,
         locals.cred \in Hash =>
           lineage[locals.cred] # None /\ tokens'[locals.cred] = None,
         \A u \in Threads : Owns(u) => req[u].cred # locals.cred
  PROVE  OwnInv' /\ IssueInv'
<1> USE DEF SingleUseInv
<1>1. pc'[t] = place /\ req'[t] = locals
  BY DEF Goto, TypeInv, TypeOK
<1>2. \A u \in Threads : u # t => pc'[u] = pc[u] /\ req'[u] = req[u]
  BY DEF Goto, TypeInv, TypeOK
<1>3. /\ \A h \in Hash : tokens[h] = None => tokens'[h] = None
      /\ \A c \in Codes : codes[c] = None => codes'[c] = None
  BY DEF Shrinks
<1>4. ASSUME NEW u \in Threads, Owns(u)'
      PROVE  /\ \A h \in Hash : lineage'[h] # req'[u].cred
             /\ req'[u].cred \in Codes =>
                  req'[u].cred \in minted' /\ codes'[req'[u].cred] = None
             /\ req'[u].cred \in Hash =>
                  /\ lineage'[req'[u].cred] # None
                  /\ tokens'[req'[u].cred] = None
  <2>1. CASE u = t
    BY <1>1, <2>1
  <2>2. CASE u # t
    <3>1. Owns(u) /\ req'[u] = req[u]
      BY <1>2, <1>4, <2>2 DEF Owns
    <3> QED
      BY <1>3, <3>1 DEF OwnInv
  <2> QED
    BY <2>1, <2>2
<1>5. ASSUME NEW u \in Threads, NEW v \in Threads, Owns(u)', Owns(v)',
             req'[u].cred = req'[v].cred
      PROVE  u = v
  <2>1. \A w \in Threads : Owns(w)' /\ w # t => Owns(w) /\ req'[w] = req[w]
    BY <1>2 DEF Owns
  <2> QED
    BY <1>1, <1>5, <2>1 DEF OwnInv
<1>6. IssueInv'
  BY <1>1, <1>2 DEF IssueInv
<1> QED
  BY <1>4, <1>5, <1>6 DEF OwnInv

LEMMA SingleUseArrive ==
  ASSUME SingleUseInv, TypeInv', NEW t \in Threads, Arrive(t)
  PROVE  SingleUseInv'
<1> USE DEF storeVars, histVars
<1>0. TypeInv /\ TypeOK
  BY DEF SingleUseInv, TypeInv
<1>1. ASSUME NEW s \in Subjects, NEW c \in Codes, SignIn(t, s, c)
      PROVE  SingleUseInv'
  <2> DEFINE r == [NoRequest EXCEPT !.cred = c, !.subject = s]
  <2>1. r \in Request /\ "put_code" \in PC /\ r.cred = c
    BY DEF NoRequest, Request, Cred, PC
  <2>2. /\ Goto(t, "put_code", r) /\ c \notin minted
        /\ minted' = minted \cup {c}
        /\ UNCHANGED <<tokens, codes, lineage, nextHash>>
    BY <1>1 DEF SignIn
  <2> HIDE DEF r
  <2>3. c \notin Hash
    BY DistinctAssumption
  <2>4. \A h \in Hash : lineage[h] # c
    BY <2>2 DEF SingleUseInv, SpentInv
  <2>5. codes'[c] = None
    BY <2>2 DEF SingleUseInv, SpentInv
  <2>6. \A u \in Threads : Owns(u) => req[u].cred # c
    BY <2>2 DEF SingleUseInv, OwnInv
  <2>7. OwnInv' /\ IssueInv'
    BY <2>1, <2>2, <2>3, <2>4, <2>5, <2>6, NewOwner
  <2>8. KindInv' /\ SpentInv' /\ SingleUse'
    BY <2>2 DEF SingleUseInv, KindInv, SpentInv, SingleUse
  <2> QED
    BY <2>7, <2>8 DEF SingleUseInv
<1>2. ASSUME NEW c \in Codes, NEW matches \in BOOLEAN,
             TakeCode(t, c, matches)
      PROVE  SingleUseInv'
  <2>1. Shrinks
    BY <1>0, <1>2 DEF TakeCode, Shrinks, TypeOK
  <2>2. CASE UNCHANGED <<pc, req>>
    BY <2>1, <2>2, StayOwns, ShrinkKeeps
  <2>3. CASE ~UNCHANGED <<pc, req>>
    <3> DEFINE e == codes[c].exp + AccessTTL
               r == [NoRequest EXCEPT !.cred = c, !.subject = codes[c].subject,
                                      !.until = e]
    <3>1. Goto(t, "put_refresh", r) /\ codes[c] # None
      BY <1>2, <2>3 DEF TakeCode
    <3>2. codes[c] \in AuthCode
      BY <1>0, <3>1 DEF TypeOK
    <3>3. codes[c].subject \in Subjects /\ e \in Nat
      BY <3>2, LifetimeAssumption DEF AuthCode
    <3> HIDE DEF e
    <3>4. r \in Request /\ r.cred = c /\ "put_refresh" \in PC
      BY <3>3 DEF NoRequest, Request, Cred, PC
    <3> HIDE DEF r
    <3>5. c \notin Hash /\ c \in minted /\ codes'[c] = None
      BY <1>0, <1>2, <3>1, DistinctAssumption
         DEF TakeCode, SingleUseInv, SpentInv, TypeOK
    <3>6. \A h \in Hash : lineage[h] # c
      BY <3>1 DEF SingleUseInv, SpentInv
    <3>7. \A u \in Threads : Owns(u) => req[u].cred # c
      BY <3>1 DEF SingleUseInv, OwnInv
    <3>8. OwnInv' /\ IssueInv'
      BY <2>1, <3>1, <3>4, <3>5, <3>6, <3>7, NewOwner DEF Shrinks
    <3>9. KindInv' /\ SpentInv' /\ SingleUse'
      BY <2>1 DEF Shrinks, SingleUseInv, KindInv, SpentInv, SingleUse
    <3> QED
      BY <3>8, <3>9 DEF SingleUseInv
  <2> QED
    BY <2>2, <2>3
<1>3. ASSUME NEW c \in Codes, ReplayCode(t, c)
      PROVE  SingleUseInv'
  <2>1. Shrinks
    BY <1>3 DEF ReplayCode, Shrinks
  <2>2. NoNewOwner
    BY <1>0, <1>3, GotoOwns DEF ReplayCode
  <2> QED
    BY <2>1, <2>2, ShrinkKeeps
<1>4. ASSUME NEW h \in Hash, NEW matches \in BOOLEAN,
             TakeToken(t, h, matches)
      PROVE  SingleUseInv'
  <2>1. Shrinks
    BY <1>0, <1>4, DeleteTokensShrinks DEF TakeToken, Shrinks
  <2>2. CASE UNCHANGED <<pc, req>>
    BY <2>1, <2>2, StayOwns, ShrinkKeeps
  <2>3. CASE ~UNCHANGED <<pc, req>>
    <3> DEFINE r == [NoRequest EXCEPT !.cred = h, !.subject = tokens[h].subject,
                                      !.family = tokens[h].family]
    <3>1. /\ Goto(t, "check_subject", r)
          /\ tokens[h] # None /\ tokens[h].isRefresh
      BY <1>4, <2>3 DEF TakeToken
    <3>2. tokens[h] \in Token
      BY <1>0, <3>1 DEF TypeOK
    <3>3. r \in Request /\ r.cred = h /\ "check_subject" \in PC
      BY <3>2 DEF NoRequest, Request, Cred, PC, Token
    <3> HIDE DEF r
    <3>4. h \notin Codes /\ lineage[h] # None
      BY <3>1, DistinctAssumption DEF SingleUseInv, KindInv
    <3>5. tokens'[h] = None
      BY <1>4, DeleteTokensDeletes DEF TakeToken
    <3>6. \A g \in Hash : lineage[g] # h
      BY <3>1 DEF SingleUseInv, SpentInv
    <3>7. \A u \in Threads : Owns(u) => req[u].cred # h
      BY <3>1 DEF SingleUseInv, OwnInv
    <3>8. OwnInv' /\ IssueInv'
      BY <2>1, <3>1, <3>3, <3>4, <3>5, <3>6, <3>7, NewOwner DEF Shrinks
    <3>9. KindInv' /\ SpentInv' /\ SingleUse'
      BY <2>1 DEF Shrinks, SingleUseInv, KindInv, SpentInv, SingleUse
    <3> QED
      BY <3>8, <3>9 DEF SingleUseInv
  <2> QED
    BY <2>2, <2>3
<1>5. ASSUME NEW h \in Hash, ReplayRefresh(t, h)
      PROVE  SingleUseInv'
  <2>1. Shrinks
    BY <1>5 DEF ReplayRefresh, Shrinks
  <2>2. NoNewOwner
    BY <1>0, <1>5, GotoOwns DEF ReplayRefresh
  <2> QED
    BY <2>1, <2>2, ShrinkKeeps
<1>6. ASSUME NEW h \in Hash, Validate(t, h)
      PROVE  SingleUseInv'
  <2>1. Shrinks
    BY <1>6 DEF Validate, Shrinks
  <2>2. NoNewOwner
    BY <1>0, <1>6, GotoOwns DEF Validate
  <2> QED
    BY <2>1, <2>2, ShrinkKeeps
<1> QED
  BY <1>1, <1>2, <1>3, <1>4, <1>5, <1>6 DEF Arrive

LEMMA SingleUseContinue ==
  ASSUME SingleUseInv, TypeInv', NEW t \in Threads, Continue(t)
  PROVE  SingleUseInv'
<1> USE DEF storeVars, histVars
<1>0. TypeInv /\ TypeOK /\ req[t] \in Request /\ PlaceOK(pc[t], req[t])
  BY DEF SingleUseInv, TypeInv, TypeOK
<1>1. ASSUME PutCode(t)
      PROVE  SingleUseInv'
  <2> DEFINE c == req[t].cred
  <2>1. NoNewOwner
    BY <1>0, <1>1, FinishOwns DEF PutCode
  <2>2. CASE UNCHANGED codes
    <3>1. Shrinks
      BY <1>1, <2>2 DEF PutCode, Shrinks
    <3> QED
      BY <2>1, <3>1, ShrinkKeeps
  <2>3. CASE ~UNCHANGED codes
    <3>1. Owns(t) /\ c \in Codes
      BY <1>0, <1>1 DEF PutCode, Owns, PlaceOK
    <3>2. /\ \A h \in Hash : lineage[h] # c
          /\ c \in minted
          /\ \A u \in Threads : Owns(u) /\ req[u].cred = c => u = t
      BY <3>1 DEF SingleUseInv, OwnInv
    <3>3. /\ \A d \in Codes : d # c => codes'[d] = codes[d]
          /\ ~Owns(t)'
          /\ \A u \in Threads : u # t => pc'[u] = pc[u] /\ req'[u] = req[u]
          /\ pc'[t] = "idle"
          /\ UNCHANGED <<tokens, lineage, nextHash, minted>>
      BY <1>0, <1>1, <2>3 DEF PutCode, Finish, Goto, Owns, TypeOK
    <3>4. KindInv' /\ SpentInv' /\ SingleUse'
      BY <3>2, <3>3 DEF SingleUseInv, KindInv, SpentInv, SingleUse
    <3>5. OwnInv'
      BY <3>2, <3>3 DEF SingleUseInv, OwnInv, Owns
    <3>6. IssueInv'
      BY <3>3 DEF SingleUseInv, IssueInv
    <3> QED
      BY <3>4, <3>5, <3>6 DEF SingleUseInv
  <2> QED
    BY <2>2, <2>3
<1>2. ASSUME CheckSubject(t)
      PROVE  SingleUseInv'
  <2>1. Shrinks
    BY <1>2 DEF CheckSubject, Shrinks
  <2>2. NoNewOwner
    BY <1>0, <1>2 DEF CheckSubject, Goto, NoNewOwner, Owns, TypeOK
  <2> QED
    BY <2>1, <2>2, ShrinkKeeps
<1>3. ASSUME RevokeFamily(t)
      PROVE  SingleUseInv'
  <2>1. Shrinks
    BY <1>3 DEF RevokeFamily, DeleteFamily, Shrinks
  <2>2. NoNewOwner
    BY <1>0, <1>3, FinishOwns DEF RevokeFamily
  <2> QED
    BY <2>1, <2>2, ShrinkKeeps
<1>4. ASSUME RevokeSubject(t)
      PROVE  SingleUseInv'
  <2>1. Shrinks
    BY <1>4 DEF RevokeSubject, DeleteBySubject, Shrinks
  <2>2. NoNewOwner
    BY <1>0, <1>4, FinishOwns DEF RevokeSubject
  <2> QED
    BY <2>1, <2>2, ShrinkKeeps
<1>5. ASSUME PutRefresh(t)
      PROVE  SingleUseInv'
  <2>1. CASE TokensFull
    <3>1. Shrinks
      BY <1>5, <2>1 DEF PutRefresh, Shrinks
    <3>2. NoNewOwner
      BY <1>0, <1>5, <2>1, FinishOwns DEF PutRefresh
    <3> QED
      BY <3>1, <3>2, ShrinkKeeps
  <2>2. CASE ~TokensFull
    <3> DEFINE n == nextHash
               c == req[t].cred
    <3>1. /\ n \in Hash /\ n + 1 \in Hash /\ n \in Nat
          /\ nextHash' = n + 2
      BY <1>0, <1>5, <2>2, BoundAssumption DEF PutRefresh, Hash, TypeOK
    <3>2. /\ \A h \in Hash : h # n =>
               tokens'[h] = tokens[h] /\ lineage'[h] = lineage[h]
          /\ lineage'[n] = c
          /\ tokens'[n].isRefresh
          /\ UNCHANGED <<codes, minted>>
      BY <1>0, <1>5, <2>2, <3>1 DEF PutRefresh, TypeOK
    <3>3. /\ pc'[t] = "put_access" /\ req'[t].refresh = n
          /\ \A u \in Threads : u # t => pc'[u] = pc[u] /\ req'[u] = req[u]
      <4> DEFINE f == IF req[t].family = None THEN n ELSE req[t].family
                 r == [req[t] EXCEPT !.family = f, !.refresh = n, !.at = now]
      <4>1. Goto(t, "put_access", r)
        BY <1>5, <2>2 DEF PutRefresh
      <4> HIDE DEF f
      <4>2. r.refresh = n
        BY <1>0 DEF Request
      <4> HIDE DEF r
      <4> QED
        BY <1>0, <4>1, <4>2 DEF Goto, TypeOK
    <3>4. /\ Owns(t) /\ c \in Cred /\ c # None
          /\ ~Owns(t)'
      BY <1>0, <1>5, <3>3, DistinctAssumption
         DEF PutRefresh, Owns, PlaceOK, Cred
    <3>5. /\ lineage[n] = None /\ tokens[n] = None
          /\ lineage[n + 1] = None
      BY <3>1 DEF SingleUseInv, KindInv
    <3>6. /\ \A h \in Hash : lineage[h] # c
          /\ c \in Codes => c \in minted /\ codes[c] = None
          /\ c \in Hash => lineage[c] # None /\ tokens[c] = None
          /\ \A u \in Threads : Owns(u) /\ req[u].cred = c => u = t
      BY <3>4 DEF SingleUseInv, OwnInv
    <3>7. n \notin Codes /\ \A h \in Hash : h < n => h < n + 2 /\ h # n
      BY <3>1, DistinctAssumption DEF Hash
    <3>8. KindInv'
      BY <3>1, <3>2, <3>4, <3>7 DEF SingleUseInv, KindInv, Hash
    <3>9. SpentInv'
      <4>1. \A d \in Codes : codes'[d] # None => d \in minted'
        BY <3>2 DEF SingleUseInv, SpentInv
      <4>2. ASSUME NEW h \in Hash
            PROVE  /\ lineage'[h] \in Codes =>
                        lineage'[h] \in minted' /\ codes'[lineage'[h]] = None
                   /\ lineage'[h] \in Hash =>
                        /\ lineage'[lineage'[h]] # None
                        /\ tokens'[lineage'[h]] = None
        <5>1. CASE h = n
          BY <3>2, <3>4, <3>5, <3>6, <5>1
        <5>2. CASE h # n
          <6>1. lineage'[h] = lineage[h] /\ lineage[h] # n
            BY <3>1, <3>2, <3>5, <5>2 DEF SingleUseInv, SpentInv
          <6> QED
            BY <3>2, <6>1 DEF SingleUseInv, SpentInv
        <5> QED
          BY <5>1, <5>2
      <4> QED
        BY <4>1, <4>2 DEF SpentInv
    <3>10. OwnInv'
      <4>1. ASSUME NEW u \in Threads, Owns(u)'
            PROVE  /\ u # t /\ Owns(u) /\ req'[u] = req[u]
                   /\ req[u].cred # c /\ req[u].cred # n
        BY <3>3, <3>4, <3>5, <3>6, <3>1, <4>1 DEF SingleUseInv, OwnInv, Owns
      <4>2. ASSUME NEW u \in Threads, Owns(u)'
            PROVE  /\ \A h \in Hash : lineage'[h] # req'[u].cred
                   /\ req'[u].cred \in Codes =>
                        req'[u].cred \in minted' /\ codes'[req'[u].cred] = None
                   /\ req'[u].cred \in Hash =>
                        /\ lineage'[req'[u].cred] # None
                        /\ tokens'[req'[u].cred] = None
        BY <3>2, <4>1, <4>2 DEF SingleUseInv, OwnInv
      <4>3. ASSUME NEW u \in Threads, NEW v \in Threads, Owns(u)', Owns(v)',
                   req'[u].cred = req'[v].cred
            PROVE  u = v
        BY <4>1, <4>3 DEF SingleUseInv, OwnInv
      <4> QED
        BY <4>2, <4>3 DEF OwnInv
    <3>11. IssueInv'
      <4>1. ASSUME NEW u \in Threads, pc'[u] = "put_access"
            PROVE  req'[u].refresh + 1 < nextHash'
                     /\ lineage'[req'[u].refresh + 1] = None
        <5>1. CASE u = t
          BY <3>1, <3>2, <3>3, <3>5, <5>1
        <5>2. CASE u # t
          <6>1. /\ req[u].refresh + 1 < n
                /\ lineage[req[u].refresh + 1] = None
                /\ req[u].refresh + 1 \in Hash
                /\ req'[u] = req[u]
            BY <3>3, <4>1, <5>2
               DEF SingleUseInv, IssueInv, TypeInv, PlaceOK
          <6> QED
            BY <3>1, <3>2, <6>1 DEF Hash
        <5> QED
          BY <5>1, <5>2
      <4> QED
        BY <4>1 DEF IssueInv
    <3>12. SingleUse'
      BY <3>2, <3>6 DEF SingleUseInv, SingleUse
    <3> QED
      BY <3>8, <3>9, <3>10, <3>11, <3>12 DEF SingleUseInv
  <2> QED
    BY <2>1, <2>2
<1>6. ASSUME PutAccess(t)
      PROVE  SingleUseInv'
  <2>1. NoNewOwner
    BY <1>0, <1>6, GotoOwns DEF PutAccess
  <2>2. CASE UNCHANGED tokens
    <3>1. Shrinks
      BY <1>6, <2>2 DEF PutAccess, Shrinks
    <3> QED
      BY <2>1, <3>1, ShrinkKeeps
  <2>3. CASE ~UNCHANGED tokens
    <3> DEFINE a == req[t].refresh + 1
    <3>1. /\ a \in Hash /\ a < nextHash /\ lineage[a] = None
      BY <1>0, <1>6 DEF PutAccess, PlaceOK, SingleUseInv, IssueInv
    <3>2. /\ \A h \in Hash : h # a => tokens'[h] = tokens[h]
          /\ ~tokens'[a].isRefresh
          /\ UNCHANGED <<codes, lineage, nextHash, minted>>
      BY <1>0, <1>6, <2>3, <3>1 DEF PutAccess, TypeOK
    <3> HIDE DEF a
    <3>3. KindInv' /\ SpentInv' /\ SingleUse'
      BY <3>1, <3>2 DEF SingleUseInv, KindInv, SpentInv, SingleUse
    <3>4. OwnInv'
      <4>1. ASSUME NEW u \in Threads, Owns(u)'
            PROVE  /\ \A h \in Hash : lineage'[h] # req'[u].cred
                   /\ req'[u].cred \in Codes =>
                        req'[u].cred \in minted' /\ codes'[req'[u].cred] = None
                   /\ req'[u].cred \in Hash =>
                        /\ lineage'[req'[u].cred] # None
                        /\ tokens'[req'[u].cred] = None
        <5>1. Owns(u) /\ req'[u].cred = req[u].cred
          BY <2>1, <4>1 DEF NoNewOwner
        <5> QED
          BY <3>1, <3>2, <5>1 DEF SingleUseInv, OwnInv
      <4>2. ASSUME NEW u \in Threads, NEW v \in Threads, Owns(u)', Owns(v)',
                   req'[u].cred = req'[v].cred
            PROVE  u = v
        BY <2>1, <4>2 DEF NoNewOwner, SingleUseInv, OwnInv
      <4> QED
        BY <4>1, <4>2 DEF OwnInv
    <3>5. IssueInv'
      BY <2>1, <3>2 DEF SingleUseInv, IssueInv, NoNewOwner
    <3> QED
      BY <3>3, <3>4, <3>5 DEF SingleUseInv
  <2> QED
    BY <2>2, <2>3
<1>7. ASSUME Undo(t)
      PROVE  SingleUseInv'
  <2>1. Shrinks
    BY <1>0, <1>7, DeleteTokensShrinks DEF Undo, Shrinks
  <2>2. NoNewOwner
    BY <1>0, <1>7, FinishOwns DEF Undo
  <2> QED
    BY <2>1, <2>2, ShrinkKeeps
<1>8. ASSUME MarkCodeUsed(t) \/ MarkRefreshRotated(t)
      PROVE  SingleUseInv'
  <2>1. Shrinks
    BY <1>0, <1>8 DEF MarkCodeUsed, MarkRefreshRotated, Shrinks
  <2>2. NoNewOwner
    BY <1>0, <1>8, FinishOwns DEF MarkCodeUsed, MarkRefreshRotated
  <2> QED
    BY <2>1, <2>2, ShrinkKeeps
<1> QED
  BY <1>1, <1>2, <1>3, <1>4, <1>5, <1>6, <1>7, <1>8 DEF Continue

LEMMA SingleUseOther ==
  ASSUME SingleUseInv, TypeInv',
         \/ \E h \in Hash : Revoke(h)
         \/ \E s \in Subjects : Disable(s) \/ Enable(s) \/ RunHook(s)
         \/ Sweep
         \/ Tick
         \/ UNCHANGED vars
  PROVE  SingleUseInv'
<1> USE DEF storeVars, histVars
<1>0. TypeOK
  BY DEF SingleUseInv, TypeInv
<1>1. UNCHANGED <<pc, req>>
  BY DEF Revoke, Disable, Enable, RunHook, Sweep, Tick, vars
<1>2. Shrinks
  <2>1. ASSUME NEW h \in Hash, Revoke(h)
        PROVE  Shrinks
    BY <1>0, <2>1, DeleteTokensShrinks DEF Revoke, Shrinks
  <2>2. ASSUME NEW s \in Subjects, Disable(s) \/ Enable(s)
        PROVE  Shrinks
    BY <2>2 DEF Disable, Enable, Shrinks
  <2>3. ASSUME NEW s \in Subjects, RunHook(s)
        PROVE  Shrinks
    BY <2>3 DEF RunHook, DeleteBySubject, Shrinks
  <2>4. ASSUME Sweep
        PROVE  Shrinks
    BY <1>0, <2>4, DeleteTokensShrinks DEF Sweep, Shrinks
  <2>5. ASSUME Tick \/ UNCHANGED vars
        PROVE  Shrinks
    BY <2>5 DEF Tick, vars, Shrinks
  <2> QED
    BY <2>1, <2>2, <2>3, <2>4, <2>5
<1> QED
  BY <1>1, <1>2, StayOwns, ShrinkKeeps

\* What is spent, owned or about to be stored stays apart, whatever handlers
\* run at the same time.
THEOREM SingleUseInvCorrect == Spec => []SingleUseInv
<1>1. Init => SingleUseInv
  <2>1. ASSUME Init
        PROVE  KindInv /\ SpentInv /\ OwnInv /\ IssueInv /\ SingleUse
    BY <2>1, DistinctAssumption
       DEF Init, KindInv, SpentInv, OwnInv, IssueInv, SingleUse, Owns, Cred
  <2> QED
    BY <2>1, TypeInit DEF SingleUseInv
<1>2. SingleUseInv /\ [Next]_vars => SingleUseInv'
  <2> SUFFICES ASSUME SingleUseInv, [Next]_vars
               PROVE  SingleUseInv'
    OBVIOUS
  <2>1. TypeInv'
    BY TypeNext DEF SingleUseInv
  <2> QED
    BY <2>1, SingleUseArrive, SingleUseContinue, SingleUseOther DEF Next
<1> QED
  BY <1>1, <1>2, PTL DEF Spec

\* At most one refresh token is ever issued for an authorisation code or a
\* refresh token, whatever handlers run at the same time: the core of
\* TakeCode and TakeToken.
THEOREM SingleUseCorrect == Spec => []SingleUse
<1>1. SingleUseInv => SingleUse
  BY DEF SingleUseInv
<1> QED
  BY <1>1, SingleUseInvCorrect, PTL

(***************************************************************************)
(* One refresh token per family.  A family is in one pair of hands: those  *)
(* of the refresh token in the store that carries it, or those of the      *)
(* handler that took that token and has not stored its successor.          *)
(***************************************************************************)

\* A handler that holds the family of the token it took.
Carries(t) == pc[t] \in {"check_subject", "put_refresh"} /\ req[t].family # None

HandInv ==
  /\ OneRefreshPerFamily
  /\ \A h \in Present(tokens) : tokens[h].family < nextHash
  /\ \A t \in Threads :
       Carries(t) \/ pc[t] = "put_access" => req[t].family < nextHash
  /\ \A t \in Threads : Carries(t) =>
       \A h \in Present(tokens) : tokens[h].isRefresh => tokens[h].family # req[t].family
  /\ \A t, u \in Threads :
       Carries(t) /\ Carries(u) /\ req[t].family = req[u].family => t = u

\* Tokens that stay keep their family, their kind and their time.
Thins ==
  /\ \A h \in Hash : tokens'[h] # None =>
       /\ tokens[h] # None
       /\ tokens'[h].family = tokens[h].family
       /\ tokens'[h].isRefresh = tokens[h].isRefresh
       /\ tokens'[h].exp = tokens[h].exp
  /\ UNCHANGED nextHash

\* No handler comes to hold or to carry a family.
NoNewHolder ==
  \A u \in Threads :
    /\ Carries(u)' => Carries(u) /\ req'[u].family = req[u].family
    /\ pc'[u] = "put_access" => pc[u] = "put_access" /\ req'[u].family = req[u].family

LEMMA ThinKeeps ==
  ASSUME TypeOK, TypeOK', HandInv, Thins, NoNewHolder
  PROVE  HandInv'
<1>1. \A h \in Hash : tokens'[h] # None =>
        /\ tokens[h] # None
        /\ tokens'[h].family = tokens[h].family
        /\ tokens'[h].isRefresh = tokens[h].isRefresh
  BY DEF Thins
<1>2. Present(tokens) = {h \in Hash : tokens[h] # None}
        /\ Present(tokens)' = {h \in Hash : tokens'[h] # None}
  BY DEF Present, TypeOK
<1>3. OneRefreshPerFamily'
  BY <1>1, <1>2 DEF HandInv, OneRefreshPerFamily
<1>4. \A h \in Present(tokens)' : tokens'[h].family < nextHash'
  BY <1>1, <1>2 DEF HandInv, Thins
<1>5. \A t \in Threads : Carries(t)' \/ pc'[t] = "put_access" => req'[t].family < nextHash'
  BY DEF HandInv, NoNewHolder, Thins
<1>6. \A t \in Threads : Carries(t)' =>
        \A h \in Present(tokens)' : tokens'[h].isRefresh => tokens'[h].family # req'[t].family
  BY <1>1, <1>2 DEF HandInv, NoNewHolder
<1>7. \A t, u \in Threads :
        Carries(t)' /\ Carries(u)' /\ req'[t].family = req'[u].family => t = u
  BY DEF HandInv, NoNewHolder
<1> QED
  BY <1>3, <1>4, <1>5, <1>6, <1>7 DEF HandInv

\* Deleting with a cascade, by family and by account only thins.
LEMMA DeletionThins ==
  ASSUME TypeOK, UNCHANGED nextHash,
         \/ \E H \in SUBSET Hash : DeleteTokens(H)
         \/ \E f : DeleteFamily(f)
         \/ \E s : DeleteBySubject(s)
  PROVE  Thins
<1>1. ASSUME NEW H \in SUBSET Hash, DeleteTokens(H)
      PROVE  Thins
  <2> DEFINE gone == UNION {Cascade(h) : h \in H}
  <2>1. tokens' = [h \in Hash |->
                     IF tokens[h] = None \/ h \in gone THEN None
                     ELSE [tokens[h] EXCEPT !.issued = @ \ gone]]
    BY <1>1 DEF DeleteTokens, Without
  <2> HIDE DEF gone
  <2>2. ASSUME NEW h \in Hash, tokens'[h] # None
        PROVE  /\ tokens[h] # None
               /\ tokens'[h].family = tokens[h].family
               /\ tokens'[h].isRefresh = tokens[h].isRefresh
               /\ tokens'[h].exp = tokens[h].exp
    <3>1. tokens[h] # None /\ tokens'[h] = [tokens[h] EXCEPT !.issued = @ \ gone]
      BY <2>1, <2>2
    <3>2. tokens[h] \in Token
      BY <3>1 DEF TypeOK
    <3> QED
      BY <3>1, <3>2 DEF Token
  <2> QED
    BY <2>2 DEF Thins
<1>2. ASSUME NEW f, DeleteFamily(f)
      PROVE  Thins
  BY <1>2 DEF DeleteFamily, Thins
<1>3. ASSUME NEW s, DeleteBySubject(s)
      PROVE  Thins
  BY <1>3 DEF DeleteBySubject, Thins
<1> QED
  BY <1>1, <1>2, <1>3

\* A handler that goes to a place where no family is held holds none.
LEMMA GotoHolds ==
  ASSUME TypeOK, NEW t \in Threads, NEW place, NEW r,
         place \notin {"check_subject", "put_refresh", "put_access"}
           \/ (place = "put_refresh" /\ r.family = None),
         Goto(t, place, r)
  PROVE  NoNewHolder
<1>1. /\ pc'[t] = place /\ req'[t] = r
      /\ \A u \in Threads : u # t => pc'[u] = pc[u] /\ req'[u] = req[u]
  BY DEF Goto, TypeOK
<1> QED
  BY <1>1 DEF NoNewHolder, Carries

LEMMA StayHolds ==
  ASSUME UNCHANGED <<pc, req>>
  PROVE  NoNewHolder
BY DEF NoNewHolder, Carries

\* The handler that takes a refresh token takes its family with it.
LEMMA TakeTokenHolds ==
  ASSUME TypeInv, TypeOK', HandInv, NEW t \in Threads, NEW h \in Hash,
         NEW matches \in BOOLEAN, TakeToken(t, h, matches)
  PROVE  HandInv'
<1> DEFINE r == [NoRequest EXCEPT !.cred = h, !.subject = tokens[h].subject,
                                  !.family = tokens[h].family]
<1>1. TypeOK /\ tokens[h] # None /\ tokens[h] \in Token /\ DeleteTokens({h})
  BY DEF TakeToken, TypeInv, TypeOK
<1>2. Thins
  BY <1>1, DeletionThins DEF TakeToken
<1>3. CASE UNCHANGED <<pc, req>>
  BY <1>1, <1>2, <1>3, StayHolds, ThinKeeps
<1>4. CASE tokens[h].isRefresh /\ Goto(t, "check_subject", r)
  <2>1. r.family = tokens[h].family
    BY DEF NoRequest
  <2> HIDE DEF r
  <2>2. /\ pc'[t] = "check_subject" /\ req'[t] = r
        /\ \A u \in Threads : u # t => pc'[u] = pc[u] /\ req'[u] = req[u]
    BY <1>1, <1>4 DEF Goto, TypeOK
  <2>3. tokens'[h] = None
    BY <1>1, DeleteTokensDeletes
  <2>4. /\ Present(tokens) = {g \in Hash : tokens[g] # None}
        /\ Present(tokens)' = {g \in Hash : tokens'[g] # None}
    BY <1>1 DEF Present, TypeOK
  <2>5. \A g \in Hash : tokens'[g] # None =>
          /\ g # h /\ tokens[g] # None
          /\ tokens'[g].family = tokens[g].family
          /\ tokens'[g].isRefresh = tokens[g].isRefresh
    BY <1>2, <2>3 DEF Thins
  <2>6. OneRefreshPerFamily'
    BY <2>4, <2>5 DEF HandInv, OneRefreshPerFamily
  <2>7. \A g \in Present(tokens)' : tokens'[g].family < nextHash'
    BY <1>2, <2>4, <2>5 DEF HandInv, Thins
  <2>8. \A g \in Present(tokens)' :
          tokens'[g].isRefresh => tokens'[g].family # tokens[h].family
    BY <1>1, <1>4, <2>4, <2>5 DEF HandInv, OneRefreshPerFamily
  <2>9. \A u \in Threads : Carries(u) => req[u].family # tokens[h].family
    BY <1>1, <1>4, <2>4 DEF HandInv
  <2>10. tokens[h].family < nextHash /\ nextHash' = nextHash
    BY <1>1, <1>2, <2>4 DEF HandInv, Thins
  <2>11. \A u \in Threads : u # t => (Carries(u)' <=> Carries(u))
    BY <2>2 DEF Carries
  <2>12. \A u \in Threads :
           Carries(u)' \/ pc'[u] = "put_access" => req'[u].family < nextHash'
    BY <2>1, <2>2, <2>10, <2>11 DEF HandInv
  <2>13. \A u \in Threads : Carries(u)' =>
           \A g \in Present(tokens)' :
             tokens'[g].isRefresh => tokens'[g].family # req'[u].family
    BY <2>1, <2>2, <2>4, <2>5, <2>8, <2>11 DEF HandInv
  <2>14. \A u, v \in Threads :
           Carries(u)' /\ Carries(v)' /\ req'[u].family = req'[v].family => u = v
    BY <2>1, <2>2, <2>9, <2>11 DEF HandInv
  <2> QED
    BY <2>6, <2>7, <2>12, <2>13, <2>14 DEF HandInv
<1> QED
  BY <1>3, <1>4 DEF TakeToken

\* It still holds the family when the account has been checked.
LEMMA CheckSubjectHolds ==
  ASSUME TypeInv, TypeOK', HandInv, NEW t \in Threads, CheckSubject(t)
  PROVE  HandInv'
<1>1. TypeOK /\ Thins
  BY DEF CheckSubject, storeVars, histVars, Thins, TypeInv
<1>2. CASE Goto(t, "put_refresh", req[t])
  <2>1. /\ pc'[t] = "put_refresh" /\ req'[t] = req[t]
        /\ \A u \in Threads : u # t => pc'[u] = pc[u] /\ req'[u] = req[u]
    BY <1>1, <1>2 DEF Goto, TypeOK
  <2>2. NoNewHolder
    BY <2>1 DEF NoNewHolder, Carries, CheckSubject
  <2> QED
    BY <1>1, <2>2, ThinKeeps
<1>3. CASE ~Goto(t, "put_refresh", req[t])
  <2>1. NoNewHolder
    BY <1>1, <1>3, GotoHolds DEF CheckSubject
  <2> QED
    BY <1>1, <2>1, ThinKeeps
<1> QED
  BY <1>2, <1>3

\* It gives the family to the successor it stores; that of a code is new.
LEMMA PutRefreshHolds ==
  ASSUME TypeInv, TypeOK', HandInv, NEW t \in Threads, PutRefresh(t)
  PROVE  HandInv'
<1> DEFINE f == IF req[t].family = None THEN nextHash ELSE req[t].family
           k == [subject |-> req[t].subject, family |-> f,
                 isRefresh |-> TRUE, parent |-> None,
                 issued |-> {nextHash + 1}, exp |-> now + RefreshTTL]
           r == [req[t] EXCEPT !.family = f, !.refresh = nextHash, !.at = now]
<1>1. TypeOK /\ nextHash \in Nat \ {0} /\ req[t] \in Request /\ pc[t] = "put_refresh"
  BY DEF PutRefresh, TypeInv, TypeOK
<1>2. CASE TokensFull
  <2>1. Thins
    BY <1>2 DEF PutRefresh, Thins
  <2>2. NoNewHolder
    BY <1>1, <1>2, GotoHolds DEF PutRefresh, Finish
  <2> QED
    BY <1>1, <2>1, <2>2, ThinKeeps
<1>3. CASE ~TokensFull
  <2>1. /\ nextHash + 1 \in Hash /\ nextHash' = nextHash + 2
        /\ tokens' = [tokens EXCEPT ![nextHash] = k]
        /\ Goto(t, "put_access", r)
    BY <1>3 DEF PutRefresh
  <2>2. k.family = f
    OBVIOUS
  <2>3. r.family = f
    BY <1>1 DEF Request
  <2>4. f \in Nat /\ f < nextHash'
    BY <1>1, <2>1 DEF HandInv, Carries, Request, Hash
  <2>5. \A h \in Present(tokens) : tokens[h].isRefresh => tokens[h].family # f
    <3>1. CASE req[t].family = None
      BY <1>1, <3>1 DEF HandInv
    <3>2. CASE req[t].family # None
      BY <1>1, <3>2 DEF HandInv, Carries
    <3> QED
      BY <3>1, <3>2
  <2>6. \A u \in Threads : Carries(u) /\ u # t => req[u].family # f
    <3>1. CASE req[t].family = None
      BY <1>1, <3>1 DEF HandInv
    <3>2. CASE req[t].family # None
      BY <1>1, <3>2 DEF HandInv, Carries
    <3> QED
      BY <3>1, <3>2
  <2> HIDE DEF f, k, r
  <2>16. nextHash \in Hash
    BY <1>1, <2>1, BoundAssumption DEF Hash
  <2>7. /\ tokens'[nextHash] = k
        /\ \A h \in Hash : h # nextHash => tokens'[h] = tokens[h]
    BY <1>1, <2>1, <2>16 DEF TypeOK
  <2>8. /\ Present(tokens) = {h \in Hash : tokens[h] # None}
        /\ Present(tokens)' = {h \in Hash : tokens'[h] # None}
    BY <1>1 DEF Present, TypeOK
  <2>9. /\ pc'[t] = "put_access" /\ req'[t] = r
        /\ \A u \in Threads : u # t => pc'[u] = pc[u] /\ req'[u] = req[u]
    BY <1>1, <2>1 DEF Goto, TypeOK
  <2>10. \A u \in Threads : Carries(u)' <=> u # t /\ Carries(u)
    BY <2>9 DEF Carries
  <2>11. OneRefreshPerFamily'
    BY <2>2, <2>5, <2>7, <2>8 DEF HandInv, OneRefreshPerFamily
  <2>12. ASSUME NEW h \in Present(tokens)'
         PROVE  tokens'[h].family < nextHash'
    <3>1. CASE h = nextHash
      BY <2>2, <2>4, <2>7, <3>1
    <3>2. CASE h # nextHash
      <4>1. h \in Present(tokens) /\ tokens'[h] = tokens[h] /\ tokens[h] \in Token
        BY <1>1, <2>7, <2>8, <3>2 DEF TypeOK
      <4>2. tokens[h].family \in Nat /\ tokens[h].family < nextHash
        BY <4>1 DEF HandInv, Token, Hash
      <4> QED
        BY <1>1, <2>1, <4>1, <4>2
    <3> QED
      BY <3>1, <3>2
  <2>13. ASSUME NEW u \in Threads, Carries(u)' \/ pc'[u] = "put_access"
         PROVE  req'[u].family < nextHash'
    <3>1. CASE u = t
      BY <2>3, <2>4, <2>9, <3>1
    <3>2. CASE u # t
      <4>1. req'[u] = req[u] /\ (Carries(u) \/ pc[u] = "put_access")
        BY <2>9, <2>10, <2>13, <3>2
      <4>2. req[u].family \in Nat
        BY <4>1 DEF TypeInv, TypeOK, PlaceOK, Request, Hash, Carries
      <4>3. req[u].family < nextHash
        BY <4>1 DEF HandInv
      <4> QED
        BY <1>1, <2>1, <4>1, <4>2, <4>3
    <3> QED
      BY <3>1, <3>2
  <2>14. ASSUME NEW u \in Threads, Carries(u)', NEW h \in Present(tokens)', tokens'[h].isRefresh
         PROVE  tokens'[h].family # req'[u].family
    <3>1. u # t /\ Carries(u) /\ req'[u] = req[u]
      BY <2>9, <2>10, <2>14
    <3>2. CASE h = nextHash
      BY <2>2, <2>6, <2>7, <3>1, <3>2
    <3>3. CASE h # nextHash
      BY <2>7, <2>8, <2>14, <3>1, <3>3 DEF HandInv
    <3> QED
      BY <3>2, <3>3
  <2>15. \A u, v \in Threads :
           Carries(u)' /\ Carries(v)' /\ req'[u].family = req'[v].family => u = v
    BY <2>9, <2>10 DEF HandInv
  <2> QED
    BY <2>11, <2>12, <2>13, <2>14, <2>15 DEF HandInv
<1> QED
  BY <1>2, <1>3

\* The access token joins the family of the handler that stores it.
LEMMA PutAccessHolds ==
  ASSUME TypeInv, TypeOK', HandInv, NEW t \in Threads, PutAccess(t)
  PROVE  HandInv'
<1>1. /\ TypeOK /\ req[t].family \in Hash /\ req[t].family < nextHash
      /\ req[t].refresh + 1 \in Hash
  BY DEF PutAccess, TypeInv, TypeOK, PlaceOK, HandInv
<1>2. UNCHANGED nextHash
  BY DEF PutAccess, histVars
<1>3. NoNewHolder
  <2>1. \E place \in {"undo", "mark_code", "mark_refresh"} : Goto(t, place, req[t])
    BY DEF PutAccess
  <2> QED
    BY <1>1, <2>1, GotoHolds
<1>4. CASE UNCHANGED tokens
  <2>1. Thins
    BY <1>2, <1>4 DEF Thins
  <2> QED
    BY <1>1, <1>3, <2>1, ThinKeeps
<1>5. CASE ~UNCHANGED tokens
  <2> DEFINE a == req[t].refresh + 1
             k == [subject |-> req[t].subject, family |-> req[t].family,
                   isRefresh |-> FALSE, parent |-> req[t].refresh,
                   issued |-> {}, exp |-> req[t].at + AccessTTL]
  <2>1. tokens' = [tokens EXCEPT ![a] = k]
    BY <1>5 DEF PutAccess
  <2>2. k.family = req[t].family /\ ~k.isRefresh
    OBVIOUS
  <2>3. a \in Hash
    BY <1>1
  <2> HIDE DEF a, k
  <2>4. tokens'[a] = k /\ \A h \in Hash : h # a => tokens'[h] = tokens[h]
    BY <1>1, <2>1, <2>3 DEF TypeOK
  <2>5. /\ Present(tokens) = {h \in Hash : tokens[h] # None}
        /\ Present(tokens)' = {h \in Hash : tokens'[h] # None}
    BY <1>1 DEF Present, TypeOK
  <2>6. \A h \in Present(tokens)' : tokens'[h].isRefresh =>
          h \in Present(tokens) /\ tokens'[h] = tokens[h]
    BY <2>2, <2>4, <2>5
  <2>7. OneRefreshPerFamily'
    BY <2>6 DEF HandInv, OneRefreshPerFamily
  <2>8. \A h \in Present(tokens)' : tokens'[h].family < nextHash'
    BY <1>1, <1>2, <2>2, <2>4, <2>5 DEF HandInv
  <2>9. \A u \in Threads : Carries(u)' \/ pc'[u] = "put_access" => req'[u].family < nextHash'
    BY <1>2, <1>3 DEF HandInv, NoNewHolder
  <2>10. \A u \in Threads : Carries(u)' =>
           \A h \in Present(tokens)' :
             tokens'[h].isRefresh => tokens'[h].family # req'[u].family
    BY <1>3, <2>6 DEF HandInv, NoNewHolder
  <2>11. \A u, v \in Threads :
           Carries(u)' /\ Carries(v)' /\ req'[u].family = req'[v].family => u = v
    BY <1>3 DEF HandInv, NoNewHolder
  <2> QED
    BY <2>7, <2>8, <2>9, <2>10, <2>11 DEF HandInv
<1> QED
  BY <1>4, <1>5

\* Whatever else happens only thins the store and gives nobody a family.
LEMMA OthersThin ==
  ASSUME TypeInv, [Next]_vars,
         ~\E t \in Threads : \/ \E h \in Hash, m \in BOOLEAN : TakeToken(t, h, m)
                             \/ CheckSubject(t) \/ PutRefresh(t) \/ PutAccess(t)
  PROVE  Thins /\ NoNewHolder
<1> USE DEF storeVars, histVars
<1>0. TypeOK
  BY DEF TypeInv
<1>1. ASSUME NEW t \in Threads, Arrive(t)
      PROVE  Thins /\ NoNewHolder
  <2>7. \/ \E s \in Subjects, c \in Codes : SignIn(t, s, c)
        \/ \E c \in Codes, m \in BOOLEAN : TakeCode(t, c, m)
        \/ \E c \in Codes : ReplayCode(t, c)
        \/ \E h \in Hash : ReplayRefresh(t, h) \/ Validate(t, h)
    BY <1>1 DEF Arrive
  <2>1. UNCHANGED <<tokens, nextHash>>
    <3>1. ASSUME NEW s \in Subjects, NEW c \in Codes, SignIn(t, s, c)
          PROVE  UNCHANGED <<tokens, nextHash>>
      BY <3>1 DEF SignIn
    <3>2. ASSUME NEW c \in Codes, NEW m \in BOOLEAN, TakeCode(t, c, m)
          PROVE  UNCHANGED <<tokens, nextHash>>
      BY <3>2 DEF TakeCode
    <3>3. ASSUME NEW c \in Codes, ReplayCode(t, c)
          PROVE  UNCHANGED <<tokens, nextHash>>
      BY <3>3 DEF ReplayCode
    <3>4. ASSUME NEW h \in Hash, ReplayRefresh(t, h) \/ Validate(t, h)
          PROVE  UNCHANGED <<tokens, nextHash>>
      BY <3>4 DEF ReplayRefresh, Validate
    <3> QED
      BY <2>7, <3>1, <3>2, <3>3, <3>4
  <2>2. Thins
    BY <2>1 DEF Thins
  <2>3. ASSUME NEW s \in Subjects, NEW c \in Codes, SignIn(t, s, c)
        PROVE  NoNewHolder
    BY <1>0, <2>3, GotoHolds DEF SignIn
  <2>4. ASSUME NEW c \in Codes, NEW m \in BOOLEAN, TakeCode(t, c, m)
        PROVE  NoNewHolder
    <3> DEFINE r == [NoRequest EXCEPT !.cred = c, !.subject = codes[c].subject,
                                      !.until = codes[c].exp + AccessTTL]
    <3>1. r.family = None
      BY DEF NoRequest
    <3>2. UNCHANGED <<pc, req>> \/ Goto(t, "put_refresh", r)
      BY <2>4 DEF TakeCode
    <3> HIDE DEF r
    <3> QED
      BY <1>0, <3>1, <3>2, GotoHolds, StayHolds
  <2>5. ASSUME NEW c \in Codes, ReplayCode(t, c)
        PROVE  NoNewHolder
    BY <1>0, <2>5, GotoHolds DEF ReplayCode
  <2>6. ASSUME NEW h \in Hash, ReplayRefresh(t, h) \/ Validate(t, h)
        PROVE  NoNewHolder
    BY <1>0, <2>6, GotoHolds DEF ReplayRefresh, Validate
  <2> QED
    BY <2>2, <2>3, <2>4, <2>5, <2>6, <2>7
<1>2. ASSUME NEW t \in Threads, Continue(t)
      PROVE  Thins /\ NoNewHolder
  <2>1. Finish(t)
    BY <1>2 DEF Continue, PutCode, RevokeFamily, RevokeSubject, Undo, MarkCodeUsed,
                MarkRefreshRotated
  <2>2. NoNewHolder
    BY <1>0, <2>1, GotoHolds DEF Finish
  <2>3. ASSUME RevokeFamily(t)
        PROVE  Thins
    BY <1>0, <2>3, DeletionThins DEF RevokeFamily
  <2>4. ASSUME RevokeSubject(t)
        PROVE  Thins
    BY <1>0, <2>4, DeletionThins DEF RevokeSubject
  <2>5. ASSUME Undo(t)
        PROVE  Thins
    <3>1. {req[t].refresh} \cap Present(tokens) \in SUBSET Hash
      BY <1>0 DEF Present, TypeOK
    <3> QED
      BY <1>0, <2>5, <3>1, DeletionThins DEF Undo
  <2>6. ASSUME PutCode(t) \/ MarkCodeUsed(t) \/ MarkRefreshRotated(t)
        PROVE  Thins
    <3>1. UNCHANGED <<tokens, nextHash>>
      BY <2>6 DEF PutCode, MarkCodeUsed, MarkRefreshRotated
    <3> QED
      BY <3>1 DEF Thins
  <2> QED
    BY <1>2, <2>2, <2>3, <2>4, <2>5, <2>6 DEF Continue
<1>3. ASSUME NEW h \in Hash, Revoke(h)
      PROVE  Thins /\ NoNewHolder
  <2>1. {h} \in SUBSET Hash
    OBVIOUS
  <2> QED
    BY <1>0, <1>3, <2>1, DeletionThins, StayHolds DEF Revoke
<1>4. ASSUME NEW s \in Subjects, RunHook(s)
      PROVE  Thins /\ NoNewHolder
  BY <1>0, <1>4, DeletionThins, StayHolds DEF RunHook
<1>5. ASSUME Sweep
      PROVE  Thins /\ NoNewHolder
  <2>1. Stale(tokens) \in SUBSET Hash
    BY <1>0 DEF Stale, Present, TypeOK
  <2> QED
    BY <1>0, <1>5, <2>1, DeletionThins, StayHolds DEF Sweep
<1>6. ASSUME \/ \E s \in Subjects : Disable(s) \/ Enable(s)
             \/ Tick
             \/ UNCHANGED vars
      PROVE  Thins /\ NoNewHolder
  <2>1. UNCHANGED <<tokens, nextHash, pc, req>>
    BY <1>6 DEF Disable, Enable, Tick, vars
  <2> QED
    BY <2>1, StayHolds DEF Thins
<1> QED
  BY <1>1, <1>2, <1>3, <1>4, <1>5, <1>6 DEF Next

\* Every step keeps a family in one pair of hands.
LEMMA HandStep ==
  ASSUME TypeInv, TypeInv', HandInv, [Next]_vars
  PROVE  HandInv'
<1>1. TypeOK /\ TypeOK'
  BY DEF TypeInv
<1> QED
  BY <1>1, TakeTokenHolds, CheckSubjectHolds, PutRefreshHolds, PutAccessHolds,
     OthersThin, ThinKeeps

\* A family is in one pair of hands: those of its refresh token in the store,
\* or those of the handler that took it.
THEOREM HandInvCorrect == Spec => []HandInv
<1>1. Init => HandInv
  BY DEF Init, HandInv, OneRefreshPerFamily, Present, Carries
<1>2. TypeInv /\ TypeInv' /\ HandInv /\ [Next]_vars => HandInv'
  BY HandStep
<1> QED
  BY <1>1, <1>2, TypeCorrect, PTL DEF Spec

\* Whatever is rotated, replayed, revoked or swept at once, a family never
\* has two refresh tokens that work.
THEOREM OneRefreshPerFamilyCorrect == Spec => []OneRefreshPerFamily
<1>1. HandInv => OneRefreshPerFamily
  BY DEF HandInv
<1> QED
  BY <1>1, HandInvCorrect, PTL

(***************************************************************************)
(* The cascade and its reports                                             *)
(***************************************************************************)

\* A handler between the two halves of a pair, or with both in its hands.
Issues(t) == pc[t] \in {"put_access", "undo", "mark_code", "mark_refresh"}

\* A refresh token has issued the access token after it, or is to; an access
\* token is the issue of the refresh token before it, as long as that lives.
PairInv ==
  /\ \A h \in Hash : tokens[h] # None /\ tokens[h].isRefresh =>
       /\ tokens[h].parent = None
       /\ \A a \in tokens[h].issued :
            /\ a = h + 1 /\ a < nextHash /\ lineage[a] = None
            /\ \/ tokens[a] # None
               \/ \E t \in Threads : pc[t] \in {"put_access", "undo"} /\ req[t].refresh = h
  /\ \A h \in Hash : tokens[h] # None /\ ~tokens[h].isRefresh =>
       /\ tokens[h].issued = {} /\ tokens[h].parent \in Hash
       /\ h = tokens[h].parent + 1 /\ lineage[tokens[h].parent] # None
       /\ \A p \in Hash : tokens[p] # None /\ p = tokens[h].parent =>
            /\ h \in tokens[p].issued
            /\ tokens[p].family = tokens[h].family
            /\ tokens[p].subject = tokens[h].subject

\* The same of a pair that is being issued; each by one handler.
HalfInv ==
  /\ \A t \in Threads : Issues(t) =>
       /\ req[t].refresh + 1 < nextHash
       /\ lineage[req[t].refresh] # None /\ lineage[req[t].refresh + 1] = None
  /\ \A t \in Threads : pc[t] = "put_access" =>
       /\ tokens[req[t].refresh + 1] = None /\ req[t].refresh + 1 \notin reported
       /\ tokens[req[t].refresh] = None
          \/ /\ req[t].refresh + 1 \in tokens[req[t].refresh].issued
             /\ tokens[req[t].refresh].family = req[t].family
             /\ tokens[req[t].refresh].subject = req[t].subject
  /\ \A t \in Threads : pc[t] \in {"mark_code", "mark_refresh"} =>
       tokens[req[t].refresh + 1] # None \/ req[t].refresh + 1 \in reported
  /\ \A t, u \in Threads :
       Issues(t) /\ Issues(u) /\ req[t].refresh = req[u].refresh => t = u

\* What has been reported had been stored.
ReportInv == RevocationsReported /\ \A h \in reported : h < nextHash

\* Together they keep the links between the tokens of a pair, and the reports
\* to the hook, complete.
LinkInv == PairInv /\ HalfInv /\ ReportInv

\* The handlers that issue go on as they were, but for one whose refresh token
\* goes.
SameIssuers ==
  \A t \in Threads :
    /\ Issues(t)' => Issues(t) /\ pc'[t] = pc[t] /\ req'[t] = req[t]
    /\ pc[t] \in {"put_access", "undo"} =>
         \/ pc'[t] = pc[t] /\ req'[t] = req[t]
         \/ tokens'[req[t].refresh] = None

\* The tokens of G go, and with them their mention by others; each of G is in
\* the store, or issued by one that goes.
Removes(G) ==
  /\ \A h \in Hash : tokens'[h] # None <=> tokens[h] # None /\ h \notin G
  /\ \A h \in Hash : tokens'[h] # None =>
       /\ tokens'[h].isRefresh = tokens[h].isRefresh
       /\ tokens'[h].parent = tokens[h].parent
       /\ tokens'[h].family = tokens[h].family
       /\ tokens'[h].subject = tokens[h].subject
       /\ tokens'[h].issued = tokens[h].issued \ G
  /\ \A g \in G : \/ g \in Hash /\ tokens[g] # None
                  \/ \E h \in Hash : h \in G /\ tokens[h] # None /\ g \in tokens[h].issued
  /\ reported' = reported \cup AccessIn(G)
  /\ UNCHANGED <<lineage, nextHash, delivered>>

LEMMA IssuedIsPlain ==
  ASSUME LinkInv, NEW h \in Hash, tokens[h] # None, NEW a \in tokens[h].issued
  PROVE  tokens[h].isRefresh /\ a = h + 1 /\ lineage[a] = None
BY DEF LinkInv, PairInv

LEMMA RemovalKeepsLinks ==
  ASSUME TypeInv, TypeInv', KindInv, LinkInv, NEW G, Removes(G), SameIssuers
  PROVE  LinkInv'
<1>1. PairInv'
  <2>1. ASSUME NEW h \in Hash, tokens'[h] # None, tokens'[h].isRefresh
        PROVE  /\ tokens'[h].parent = None
               /\ \A a \in tokens'[h].issued :
                    /\ a = h + 1 /\ a < nextHash' /\ lineage'[a] = None
                    /\ \/ tokens'[a] # None
                       \/ \E t \in Threads : /\ pc'[t] \in {"put_access", "undo"}
                                             /\ req'[t].refresh = h
    <3>1. tokens[h] # None /\ tokens[h].isRefresh /\ tokens'[h].parent = tokens[h].parent
          /\ tokens'[h].issued = tokens[h].issued \ G
      BY <2>1 DEF Removes
    <3>2. ASSUME NEW a \in tokens'[h].issued
          PROVE  /\ a = h + 1 /\ a < nextHash' /\ lineage'[a] = None
                 /\ \/ tokens'[a] # None
                    \/ \E t \in Threads : /\ pc'[t] \in {"put_access", "undo"}
                                          /\ req'[t].refresh = h
      <4>1. a \in tokens[h].issued /\ a \notin G /\ a \in Hash
        BY <3>1, <3>2 DEF TypeInv, TypeOK, Token
      <4>2. /\ a = h + 1 /\ a < nextHash /\ lineage[a] = None
            /\ \/ tokens[a] # None
               \/ \E t \in Threads : pc[t] \in {"put_access", "undo"} /\ req[t].refresh = h
        BY <3>1, <4>1 DEF LinkInv, PairInv
      <4>3. tokens[a] # None => tokens'[a] # None
        BY <4>1 DEF Removes
      <4>4. ASSUME NEW t \in Threads, pc[t] \in {"put_access", "undo"}, req[t].refresh = h
            PROVE  pc'[t] \in {"put_access", "undo"} /\ req'[t].refresh = h
        BY <2>1, <4>4 DEF SameIssuers
      <4> QED
        BY <4>2, <4>3, <4>4 DEF Removes
    <3> QED
      BY <3>1, <3>2 DEF LinkInv, PairInv
  <2>2. ASSUME NEW h \in Hash, tokens'[h] # None, ~tokens'[h].isRefresh
        PROVE  /\ tokens'[h].issued = {} /\ tokens'[h].parent \in Hash
               /\ h = tokens'[h].parent + 1 /\ lineage'[tokens'[h].parent] # None
               /\ \A p \in Hash : tokens'[p] # None /\ p = tokens'[h].parent =>
                    /\ h \in tokens'[p].issued
                    /\ tokens'[p].family = tokens'[h].family
                    /\ tokens'[p].subject = tokens'[h].subject
    <3>1. /\ tokens[h] # None /\ ~tokens[h].isRefresh /\ h \notin G
          /\ tokens'[h].parent = tokens[h].parent /\ tokens'[h].family = tokens[h].family
          /\ tokens'[h].subject = tokens[h].subject
          /\ tokens'[h].issued = tokens[h].issued \ G
      BY <2>2 DEF Removes
    <3>2. ASSUME NEW p \in Hash, tokens'[p] # None, p = tokens'[h].parent
          PROVE  /\ h \in tokens'[p].issued
                 /\ tokens'[p].family = tokens'[h].family
                 /\ tokens'[p].subject = tokens'[h].subject
      <4>1. /\ tokens[p] # None /\ tokens'[p].issued = tokens[p].issued \ G
            /\ tokens'[p].family = tokens[p].family /\ tokens'[p].subject = tokens[p].subject
        BY <3>2 DEF Removes
      <4>2. h \in tokens[p].issued /\ tokens[p].family = tokens[h].family
            /\ tokens[p].subject = tokens[h].subject
        BY <3>1, <3>2, <4>1 DEF LinkInv, PairInv
      <4> QED
        BY <3>1, <4>1, <4>2
    <3> QED
      BY <3>1, <3>2 DEF LinkInv, PairInv, Removes
  <2> QED
    BY <2>1, <2>2 DEF PairInv
<1>2. HalfInv'
  <2>1. ASSUME NEW t \in Threads, Issues(t)'
        PROVE  /\ Issues(t) /\ pc'[t] = pc[t] /\ req'[t] = req[t]
               /\ req[t].refresh \in Hash /\ req[t].refresh + 1 \in Hash
    BY <2>1 DEF SameIssuers, Issues, TypeInv, PlaceOK
  <2>2. ASSUME NEW t \in Threads, pc'[t] = "put_access"
        PROVE  /\ tokens'[req'[t].refresh + 1] = None /\ req'[t].refresh + 1 \notin reported'
               /\ tokens'[req'[t].refresh] = None
                  \/ /\ req'[t].refresh + 1 \in tokens'[req'[t].refresh].issued
                     /\ tokens'[req'[t].refresh].family = req'[t].family
                     /\ tokens'[req'[t].refresh].subject = req'[t].subject
    <3>1. /\ pc[t] = "put_access" /\ req'[t] = req[t]
          /\ req[t].refresh \in Hash /\ req[t].refresh + 1 \in Hash
      BY <2>1, <2>2 DEF Issues
    <3> PICK r : r = req[t].refresh
      OBVIOUS
    <3>2. /\ tokens[r + 1] = None /\ r + 1 \notin reported
          /\ \/ tokens[r] = None
             \/ /\ r + 1 \in tokens[r].issued
                /\ tokens[r].family = req[t].family /\ tokens[r].subject = req[t].subject
      BY <3>1 DEF LinkInv, HalfInv
    <3>3. tokens'[r + 1] = None /\ r + 1 \notin reported'
      BY <3>1, <3>2 DEF Removes, AccessIn
    <3>4. ASSUME tokens'[r] # None
          PROVE  /\ r + 1 \in tokens'[r].issued
                 /\ tokens'[r].family = req[t].family /\ tokens'[r].subject = req[t].subject
      <4>1. /\ tokens[r] # None /\ r \notin G /\ tokens'[r].issued = tokens[r].issued \ G
            /\ tokens'[r].family = tokens[r].family /\ tokens'[r].subject = tokens[r].subject
        BY <3>1, <3>4 DEF Removes
      <4>2. r + 1 \notin G
        <5> SUFFICES ASSUME r + 1 \in G
                     PROVE  FALSE
          OBVIOUS
        <5>1. PICK h \in Hash : h \in G /\ tokens[h] # None /\ r + 1 \in tokens[h].issued
          BY <3>2 DEF Removes
        <5>2. r + 1 = h + 1
          BY <5>1, IssuedIsPlain
        <5>3. r = h
          BY <3>1, <5>2 DEF Hash
        <5> QED
          BY <4>1, <5>1, <5>3
      <4> QED
        BY <3>2, <4>1, <4>2
    <3> QED
      BY <3>1, <3>3, <3>4
  <2>3. ASSUME NEW t \in Threads, pc'[t] \in {"mark_code", "mark_refresh"}
        PROVE  tokens'[req'[t].refresh + 1] # None \/ req'[t].refresh + 1 \in reported'
    <3>1. /\ pc[t] \in {"mark_code", "mark_refresh"} /\ req'[t] = req[t] /\ Issues(t)
          /\ req[t].refresh + 1 \in Hash
      BY <2>1, <2>3 DEF Issues
    <3> PICK a : a = req[t].refresh + 1
      OBVIOUS
    <3>2. tokens[a] # None \/ a \in reported
      BY <3>1 DEF LinkInv, HalfInv
    <3>3. lineage[a] = None
      BY <3>1 DEF LinkInv, HalfInv
    <3>4. tokens[a] # None /\ tokens'[a] = None => a \in AccessIn(G)
      BY <3>1, <3>3 DEF Removes, KindInv, AccessIn
    <3> QED
      BY <3>1, <3>2, <3>4 DEF Removes
  <2>4. \A t \in Threads : Issues(t)' =>
          /\ req'[t].refresh + 1 < nextHash'
          /\ lineage'[req'[t].refresh] # None /\ lineage'[req'[t].refresh + 1] = None
    BY <2>1 DEF LinkInv, HalfInv, Removes
  <2>5. \A t, u \in Threads :
          Issues(t)' /\ Issues(u)' /\ req'[t].refresh = req'[u].refresh => t = u
    BY <2>1 DEF LinkInv, HalfInv
  <2> QED
    BY <2>2, <2>3, <2>4, <2>5 DEF HalfInv
<1>3. ReportInv'
  <2>1. \A h \in AccessIn(G) : h < nextHash
    BY DEF AccessIn, KindInv, Removes, LinkInv, PairInv, TypeInv, TypeOK, Token
  <2>2. \A h \in reported' : h < nextHash'
    BY <2>1 DEF Removes, LinkInv, ReportInv
  <2>3. ASSUME NEW h \in delivered', tokens'[h] = None, lineage'[h] = None
        PROVE  h \in reported'
    <3>1. h \in delivered /\ h \in Hash /\ lineage[h] = None
      BY <2>3 DEF Removes, TypeInv, TypeOK
    <3>2. CASE tokens[h] = None
      BY <3>1, <3>2 DEF LinkInv, ReportInv, RevocationsReported, Removes
    <3>3. CASE tokens[h] # None
      BY <2>3, <3>1, <3>3 DEF Removes, KindInv, AccessIn
    <3> QED
      BY <3>2, <3>3
  <2>4. \A h \in Present(tokens)' : h \notin reported'
    <3>1. /\ Present(tokens) = {h \in Hash : tokens[h] # None}
          /\ Present(tokens)' = {h \in Hash : tokens'[h] # None}
      BY DEF Present, TypeInv, TypeOK
    <3>2. \A h \in Present(tokens) : h \notin reported
      BY DEF LinkInv, ReportInv, RevocationsReported
    <3> QED
      BY <3>1, <3>2 DEF Removes, AccessIn
  <2> QED
    BY <2>2, <2>3, <2>4 DEF ReportInv, RevocationsReported
<1> QED
  BY <1>1, <1>2, <1>3 DEF LinkInv

\* Deleting with a cascade, by family and by account.
LEMMA CascadeRemoves ==
  ASSUME TypeOK, NEW H \in SUBSET Present(tokens), DeleteTokens(H),
         UNCHANGED <<lineage, nextHash, delivered>>
  PROVE  Removes(UNION {Cascade(h) : h \in H})
<1> DEFINE gone == UNION {Cascade(h) : h \in H}
<1>1. /\ tokens' = [h \in Hash |->
                      IF tokens[h] = None \/ h \in gone THEN None
                      ELSE [tokens[h] EXCEPT !.issued = @ \ gone]]
      /\ reported' = reported \cup AccessIn(gone)
  BY DEF DeleteTokens, Without
<1>2. ASSUME NEW g \in gone
      PROVE  \/ g \in Hash /\ tokens[g] # None
             \/ \E h \in Hash : h \in gone /\ tokens[h] # None /\ g \in tokens[h].issued
  <2>1. PICK h \in H : g = h \/ g \in tokens[h].issued
    BY <1>2 DEF Cascade
  <2>2. h \in Hash /\ tokens[h] # None /\ h \in gone
    BY DEF Present, TypeOK, Cascade
  <2> QED
    BY <2>1, <2>2
<1> HIDE DEF gone
<1>3. ASSUME NEW h \in Hash
      PROVE  /\ tokens'[h] # None <=> tokens[h] # None /\ h \notin gone
             /\ tokens'[h] # None =>
                  /\ tokens'[h].isRefresh = tokens[h].isRefresh
                  /\ tokens'[h].parent = tokens[h].parent
                  /\ tokens'[h].family = tokens[h].family
                  /\ tokens'[h].subject = tokens[h].subject
                  /\ tokens'[h].issued = tokens[h].issued \ gone
  <2>1. CASE tokens[h] = None \/ h \in gone
    BY <1>1, <2>1
  <2>2. CASE tokens[h] # None /\ h \notin gone
    <3>1. tokens[h] \in Token /\ tokens'[h] = [tokens[h] EXCEPT !.issued = @ \ gone]
      BY <1>1, <2>2 DEF TypeOK
    <3>2. tokens'[h] \in Token
      BY <3>1 DEF Token
    <3>3. tokens'[h] # None
      BY <3>2, DistinctAssumption
    <3> QED
      BY <2>2, <3>1, <3>3 DEF Token
  <2> QED
    BY <2>1, <2>2
<1>4. Removes(gone)
  BY <1>1, <1>2, <1>3 DEF Removes
<1> QED
  BY <1>4 DEF gone

\* What shares its family or its account with a token shares it with what
\* that has issued.
LEMMA KinshipRemoves ==
  ASSUME TypeOK, KindInv, LinkInv, UNCHANGED <<lineage, nextHash, delivered>>,
         NEW f, DeleteFamily(f) \/ DeleteBySubject(f)
  PROVE  \E G : Removes(G)
<1>1. CASE DeleteFamily(f)
  <2> DEFINE gone == {h \in Hash : tokens[h] # None /\ tokens[h].family = f}
  <2>1. ASSUME NEW h \in Hash, tokens[h] # None, h \notin gone
        PROVE  tokens[h].issued \ gone = tokens[h].issued
    <3>1. ASSUME NEW a \in gone, a \in tokens[h].issued
          PROVE  FALSE
      <4>1. a = h + 1 /\ lineage[a] = None
        BY <2>1, <3>1, IssuedIsPlain
      <4>2. a \in Hash /\ tokens[a] # None /\ ~tokens[a].isRefresh
        BY <3>1, <4>1 DEF KindInv
      <4>3. tokens[a].parent \in Hash /\ a = tokens[a].parent + 1
        BY <4>2 DEF LinkInv, PairInv
      <4>4. tokens[a].parent = h
        BY <4>1, <4>3 DEF Hash
      <4>5. tokens[h].family = tokens[a].family
        BY <2>1, <4>2, <4>4 DEF LinkInv, PairInv
      <4> QED
        BY <2>1, <3>1, <4>5
    <3> QED
      BY <3>1
  <2>2. /\ tokens' = [h \in Hash |-> IF h \in gone THEN None ELSE tokens[h]]
        /\ reported' = reported \cup AccessIn(gone)
    BY <1>1 DEF DeleteFamily
  <2>3. \A g \in gone : g \in Hash /\ tokens[g] # None
    OBVIOUS
  <2> HIDE DEF gone
  <2>4. Removes(gone)
    BY <2>1, <2>2, <2>3 DEF Removes
  <2> QED
    BY <2>4
<1>2. CASE DeleteBySubject(f)
  <2> DEFINE gone == {h \in Hash : tokens[h] # None /\ tokens[h].subject = f}
  <2>1. ASSUME NEW h \in Hash, tokens[h] # None, h \notin gone
        PROVE  tokens[h].issued \ gone = tokens[h].issued
    <3>1. ASSUME NEW a \in gone, a \in tokens[h].issued
          PROVE  FALSE
      <4>1. a = h + 1 /\ lineage[a] = None
        BY <2>1, <3>1, IssuedIsPlain
      <4>2. a \in Hash /\ tokens[a] # None /\ ~tokens[a].isRefresh
        BY <3>1, <4>1 DEF KindInv
      <4>3. tokens[a].parent \in Hash /\ a = tokens[a].parent + 1
        BY <4>2 DEF LinkInv, PairInv
      <4>4. tokens[a].parent = h
        BY <4>1, <4>3 DEF Hash
      <4>5. tokens[h].subject = tokens[a].subject
        BY <2>1, <4>2, <4>4 DEF LinkInv, PairInv
      <4> QED
        BY <2>1, <3>1, <4>5
    <3> QED
      BY <3>1
  <2>2. /\ tokens' = [h \in Hash |-> IF h \in gone THEN None ELSE tokens[h]]
        /\ reported' = reported \cup AccessIn(gone)
    BY <1>2 DEF DeleteBySubject
  <2>3. \A g \in gone : g \in Hash /\ tokens[g] # None
    OBVIOUS
  <2> HIDE DEF gone
  <2>4. Removes(gone)
    BY <2>1, <2>2, <2>3 DEF Removes
  <2> QED
    BY <2>4
<1> QED
  BY <1>1, <1>2

\* A step that leaves the tokens alone removes none.
LEMMA NothingRemoves ==
  ASSUME UNCHANGED <<tokens, reported, lineage, nextHash, delivered>>
  PROVE  Removes({})
<1>1. AccessIn({}) = {}
  BY DEF AccessIn
<1> QED
  BY <1>1 DEF Removes

\* A handler that issues nothing, and goes where nothing is issued.
LEMMA GotoIssues ==
  ASSUME TypeOK, NEW t \in Threads, NEW place, NEW r, Goto(t, place, r), ~Issues(t),
         place \notin {"put_access", "undo", "mark_code", "mark_refresh"}
  PROVE  SameIssuers
<1>1. /\ pc'[t] = place /\ req'[t] = r
      /\ \A u \in Threads : u # t => pc'[u] = pc[u] /\ req'[u] = req[u]
  BY DEF Goto, TypeOK
<1> QED
  BY <1>1 DEF SameIssuers, Issues

LEMMA StayIssues ==
  ASSUME UNCHANGED <<pc, req>>
  PROVE  SameIssuers
BY DEF SameIssuers, Issues

\* Both halves of a new pair are new, and known to its handler only.
LEMMA PutRefreshLinks ==
  ASSUME SingleUseInv, SingleUseInv', LinkInv, NEW t \in Threads, PutRefresh(t)
  PROVE  LinkInv'
<1> DEFINE f == IF req[t].family = None THEN nextHash ELSE req[t].family
           locals == [req[t] EXCEPT !.family = f, !.refresh = nextHash, !.at = now]
           new == [subject |-> req[t].subject, family |-> f,
                   isRefresh |-> TRUE, parent |-> None,
                   issued |-> {nextHash + 1}, exp |-> now + RefreshTTL]
<1>0. TypeInv /\ TypeInv' /\ TypeOK /\ TypeOK' /\ KindInv
  BY DEF SingleUseInv, TypeInv
<1>1. /\ pc[t] = "put_refresh" /\ UNCHANGED <<delivered, reported>>
      /\ \/ Finish(t) /\ UNCHANGED <<tokens, lineage, nextHash>>
         \/ /\ nextHash + 1 \in Hash /\ nextHash' = nextHash + 2
            /\ tokens' = [tokens EXCEPT ![nextHash] = new]
            /\ lineage' = [lineage EXCEPT ![nextHash] = req[t].cred]
            /\ Goto(t, "put_access", locals)
  BY DEF PutRefresh
<1>2. CASE Finish(t) /\ UNCHANGED <<tokens, lineage, nextHash>>
  <2>1. SameIssuers
    BY <1>0, <1>1, <1>2, GotoIssues DEF Finish, Issues
  <2> QED
    BY <1>0, <1>1, <1>2, <2>1, NothingRemoves, RemovalKeepsLinks
<1>3. CASE /\ nextHash + 1 \in Hash /\ nextHash' = nextHash + 2
           /\ tokens' = [tokens EXCEPT ![nextHash] = new]
           /\ lineage' = [lineage EXCEPT ![nextHash] = req[t].cred]
           /\ Goto(t, "put_access", locals)
  <2> PICK r : r = nextHash
    OBVIOUS
  <2>1. r \in Nat \ {0} /\ r \in Hash /\ r + 1 \in Hash
    BY <1>0, <1>3, BoundAssumption DEF TypeOK, Hash
  <2>2. /\ new.isRefresh /\ new.parent = None /\ new.issued = {r + 1}
        /\ new.family = f /\ new.subject = req[t].subject
    OBVIOUS
  <2>3. locals.family = f /\ locals.refresh = r /\ locals.subject = req[t].subject
    BY <1>0 DEF TypeOK, Request
  <2> HIDE DEF new, locals, f
  <2>4. /\ tokens'[r] = new /\ lineage'[r] = req[t].cred
        /\ \A h \in Hash : h # r => tokens'[h] = tokens[h] /\ lineage'[h] = lineage[h]
    BY <1>0, <1>3, <2>1 DEF TypeOK
  <2>5. /\ pc'[t] = "put_access" /\ req'[t] = locals
        /\ \A u \in Threads : u # t => pc'[u] = pc[u] /\ req'[u] = req[u]
    BY <1>0, <1>3 DEF Goto, TypeOK
  <2>6. lineage[r] = None /\ lineage[r + 1] = None /\ tokens[r] = None /\ tokens[r + 1] = None
    BY <1>0, <2>1 DEF KindInv
  <2>7. lineage'[r] # None
    BY <1>0, <1>1, <2>4, DistinctAssumption DEF TypeInv, PlaceOK, Cred
  <2>8. /\ r < nextHash' /\ r + 1 < nextHash' /\ r + 1 # r
        /\ \A a \in Hash : a < nextHash => a < nextHash' /\ a # r /\ a # r + 1
    BY <1>3, <2>1 DEF Hash
  <2>9. PairInv'
    <3>1. ASSUME NEW h \in Hash, tokens'[h] # None, tokens'[h].isRefresh
          PROVE  /\ tokens'[h].parent = None
                 /\ \A a \in tokens'[h].issued :
                      /\ a = h + 1 /\ a < nextHash' /\ lineage'[a] = None
                      /\ \/ tokens'[a] # None
                         \/ \E u \in Threads : /\ pc'[u] \in {"put_access", "undo"}
                                               /\ req'[u].refresh = h
      <4>1. CASE h = r
        BY <2>1, <2>2, <2>3, <2>4, <2>5, <2>6, <2>8, <4>1
      <4>2. CASE h # r
        <5>1. tokens'[h] = tokens[h] /\ tokens[h].parent = None
              /\ tokens[h].issued \subseteq Hash
          BY <1>0, <2>4, <3>1, <4>2 DEF LinkInv, PairInv, TypeOK, Token
        <5>2. ASSUME NEW a \in tokens[h].issued
              PROVE  /\ a = h + 1 /\ a < nextHash' /\ lineage'[a] = None
                     /\ \/ tokens'[a] # None
                        \/ \E u \in Threads : /\ pc'[u] \in {"put_access", "undo"}
                                              /\ req'[u].refresh = h
          <6>1. /\ a = h + 1 /\ a < nextHash /\ lineage[a] = None /\ a \in Hash
                /\ \/ tokens[a] # None
                   \/ \E u \in Threads : pc[u] \in {"put_access", "undo"} /\ req[u].refresh = h
            BY <3>1, <5>1, <5>2 DEF LinkInv, PairInv
          <6>2. a < nextHash' /\ a # r /\ lineage'[a] = None /\ tokens'[a] = tokens[a]
            BY <2>4, <2>8, <6>1
          <6> QED
            BY <1>1, <2>5, <6>1, <6>2
        <5> QED
          BY <5>1, <5>2
      <4> QED
        BY <4>1, <4>2
    <3>2. ASSUME NEW h \in Hash, tokens'[h] # None, ~tokens'[h].isRefresh
          PROVE  /\ tokens'[h].issued = {} /\ tokens'[h].parent \in Hash
                 /\ h = tokens'[h].parent + 1 /\ lineage'[tokens'[h].parent] # None
                 /\ \A p \in Hash : tokens'[p] # None /\ p = tokens'[h].parent =>
                      /\ h \in tokens'[p].issued
                      /\ tokens'[p].family = tokens'[h].family
                      /\ tokens'[p].subject = tokens'[h].subject
      <4>1. h # r /\ tokens'[h] = tokens[h]
        BY <2>2, <2>4, <3>2
      <4>2. /\ tokens[h].issued = {} /\ tokens[h].parent \in Hash
            /\ h = tokens[h].parent + 1 /\ lineage[tokens[h].parent] # None
            /\ \A p \in Hash : tokens[p] # None /\ p = tokens[h].parent =>
                 /\ h \in tokens[p].issued
                 /\ tokens[p].family = tokens[h].family
                 /\ tokens[p].subject = tokens[h].subject
        BY <3>2, <4>1 DEF LinkInv, PairInv
      <4>3. tokens[h].parent # r
        BY <2>6, <4>2
      <4> QED
        BY <2>4, <4>1, <4>2, <4>3
    <3> QED
      BY <3>1, <3>2 DEF PairInv
  <2>10. ASSUME NEW u \in Threads, u # t, Issues(u)'
         PROVE  /\ Issues(u) /\ pc'[u] = pc[u] /\ req'[u] = req[u]
                /\ req[u].refresh \in Hash /\ req[u].refresh + 1 \in Hash
                /\ req[u].refresh + 1 < nextHash
                /\ req[u].refresh # r /\ req[u].refresh + 1 # r
    <3>1. Issues(u) /\ pc'[u] = pc[u] /\ req'[u] = req[u]
      BY <2>5, <2>10 DEF Issues
    <3>2. /\ req[u].refresh \in Hash /\ req[u].refresh + 1 \in Hash
          /\ req[u].refresh + 1 < nextHash
      BY <1>0, <3>1 DEF Issues, TypeInv, PlaceOK, LinkInv, HalfInv
    <3> QED
      BY <2>1, <3>1, <3>2 DEF Hash
  <2>11. HalfInv'
    <3>1. ASSUME NEW u \in Threads, Issues(u)'
          PROVE  /\ req'[u].refresh + 1 < nextHash'
                 /\ lineage'[req'[u].refresh] # None /\ lineage'[req'[u].refresh + 1] = None
      <4>1. CASE u = t
        BY <2>1, <2>3, <2>4, <2>5, <2>6, <2>7, <2>8, <4>1
      <4>2. CASE u # t
        BY <2>4, <2>8, <2>10, <3>1, <4>2 DEF LinkInv, HalfInv
      <4> QED
        BY <4>1, <4>2
    <3>2. ASSUME NEW u \in Threads, pc'[u] = "put_access"
          PROVE  /\ tokens'[req'[u].refresh + 1] = None
                 /\ req'[u].refresh + 1 \notin reported'
                 /\ tokens'[req'[u].refresh] = None
                    \/ /\ req'[u].refresh + 1 \in tokens'[req'[u].refresh].issued
                       /\ tokens'[req'[u].refresh].family = req'[u].family
                       /\ tokens'[req'[u].refresh].subject = req'[u].subject
      <4>1. CASE u = t
        <5>1. r + 1 \notin reported
          BY <2>1, <2>8 DEF LinkInv, ReportInv
        <5> QED
          BY <1>1, <2>1, <2>2, <2>3, <2>4, <2>5, <2>6, <2>8, <4>1, <5>1
      <4>2. CASE u # t
        BY <1>1, <2>4, <2>10, <3>2, <4>2 DEF LinkInv, HalfInv, Issues
      <4> QED
        BY <4>1, <4>2
    <3>3. ASSUME NEW u \in Threads, pc'[u] \in {"mark_code", "mark_refresh"}
          PROVE  tokens'[req'[u].refresh + 1] # None \/ req'[u].refresh + 1 \in reported'
      <4>1. u # t
        BY <2>5, <3>3
      <4> QED
        BY <1>1, <2>4, <2>10, <3>3, <4>1 DEF LinkInv, HalfInv, Issues
    <3>4. ASSUME NEW u \in Threads, NEW v \in Threads, Issues(u)', Issues(v)',
                 req'[u].refresh = req'[v].refresh
          PROVE  u = v
      BY <2>3, <2>5, <2>10, <3>4 DEF LinkInv, HalfInv
    <3> QED
      BY <3>1, <3>2, <3>3, <3>4 DEF HalfInv
  <2>12. ReportInv'
    <3>1. \A h \in reported' : h \in Hash /\ h < nextHash /\ h < nextHash' /\ h # r
      BY <1>0, <1>1, <2>8 DEF LinkInv, ReportInv, TypeOK
    <3>2. \A h \in delivered' : tokens'[h] = None /\ lineage'[h] = None => h \in reported'
      BY <1>0, <1>1, <2>4, <2>7 DEF LinkInv, ReportInv, RevocationsReported, TypeOK
    <3>3. \A h \in Present(tokens)' : h \notin reported'
      BY <1>0, <1>1, <2>4, <3>1 DEF LinkInv, ReportInv, RevocationsReported, Present, TypeOK
    <3> QED
      BY <3>1, <3>2, <3>3 DEF ReportInv, RevocationsReported
  <2> QED
    BY <2>9, <2>11, <2>12 DEF LinkInv
<1> QED
  BY <1>1, <1>2, <1>3

\* The second half joins the first, or finds it gone.
LEMMA PutAccessLinks ==
  ASSUME SingleUseInv, SingleUseInv', LinkInv, NEW t \in Threads, PutAccess(t)
  PROVE  LinkInv'
<1> DEFINE place == IF req[t].cred \in Codes THEN "mark_code" ELSE "mark_refresh"
           new == [subject |-> req[t].subject, family |-> req[t].family,
                   isRefresh |-> FALSE, parent |-> req[t].refresh,
                   issued |-> {}, exp |-> req[t].at + AccessTTL]
<1>0. TypeInv /\ TypeInv' /\ TypeOK /\ TypeOK' /\ KindInv
  BY DEF SingleUseInv, TypeInv
<1> PICK r : r = req[t].refresh
  OBVIOUS
<1>1. /\ pc[t] = "put_access" /\ UNCHANGED <<delivered, reported, lineage, nextHash>>
      /\ \/ Goto(t, "undo", req[t]) /\ UNCHANGED tokens
         \/ tokens' = [tokens EXCEPT ![r + 1] = new] /\ Goto(t, place, req[t])
  BY DEF PutAccess, histVars
<1>2. /\ r \in Hash /\ r + 1 \in Hash /\ r + 1 # r
      /\ r + 1 < nextHash /\ lineage[r] # None /\ lineage[r + 1] = None
      /\ tokens[r + 1] = None /\ r + 1 \notin reported
      /\ \/ tokens[r] = None
         \/ /\ r + 1 \in tokens[r].issued
            /\ tokens[r].family = req[t].family /\ tokens[r].subject = req[t].subject
  BY <1>0, <1>1 DEF LinkInv, HalfInv, Issues, TypeInv, PlaceOK, Hash
<1>3. \A u \in Threads : u # t /\ Issues(u) =>
        /\ req[u].refresh \in Hash /\ req[u].refresh + 1 \in Hash
        /\ req[u].refresh # r /\ req[u].refresh + 1 # r + 1 /\ req[u].refresh # r + 1
        /\ req[u].refresh + 1 # r
  <2> SUFFICES ASSUME NEW u \in Threads, u # t, Issues(u)
               PROVE  /\ req[u].refresh \in Hash /\ req[u].refresh + 1 \in Hash
                      /\ req[u].refresh # r /\ req[u].refresh + 1 # r + 1
                      /\ req[u].refresh # r + 1 /\ req[u].refresh + 1 # r
    OBVIOUS
  <2>1. /\ req[u].refresh \in Hash /\ req[u].refresh + 1 \in Hash
        /\ lineage[req[u].refresh] # None /\ lineage[req[u].refresh + 1] = None
    BY <1>0 DEF LinkInv, HalfInv, Issues, TypeInv, PlaceOK
  <2>2. req[u].refresh # r
    BY <1>1 DEF LinkInv, HalfInv, Issues
  <2> QED
    BY <1>2, <2>1, <2>2 DEF Hash
<1>4. CASE Goto(t, "undo", req[t]) /\ UNCHANGED tokens
  <2>1. /\ pc'[t] = "undo" /\ req' = req
        /\ \A u \in Threads : u # t => pc'[u] = pc[u]
    BY <1>0, <1>4 DEF Goto, TypeOK
  <2>2. \A u \in Threads : /\ Issues(u)' <=> Issues(u)
                           /\ pc[u] \in {"put_access", "undo"} => pc'[u] \in {"put_access", "undo"}
                           /\ pc'[u] = "put_access" => pc[u] = "put_access"
                           /\ pc'[u] \in {"mark_code", "mark_refresh"} => pc'[u] = pc[u]
    BY <1>1, <2>1 DEF Issues
  <2>3. PairInv'
    BY <1>1, <1>4, <2>1, <2>2 DEF LinkInv, PairInv
  <2>4. HalfInv'
    BY <1>1, <1>4, <2>1, <2>2 DEF LinkInv, HalfInv
  <2>5. ReportInv'
    BY <1>1, <1>4 DEF LinkInv, ReportInv, RevocationsReported, Present
  <2> QED
    BY <2>3, <2>4, <2>5 DEF LinkInv
<1>5. CASE tokens' = [tokens EXCEPT ![r + 1] = new] /\ Goto(t, place, req[t])
  <2>1. /\ ~new.isRefresh /\ new.parent = r /\ new.issued = {}
        /\ new.family = req[t].family /\ new.subject = req[t].subject
    OBVIOUS
  <2>2. new # None
    <3>1. new \in Token
      BY <1>0, <1>1, <1>2, LifetimeAssumption
      DEF TypeInv, TypeOK, PlaceOK, Token, Request
    <3> QED
      BY <3>1, DistinctAssumption
  <2>3. place \in {"mark_code", "mark_refresh"}
    OBVIOUS
  <2> HIDE DEF new, place
  <2>4. /\ tokens'[r + 1] = new
        /\ \A h \in Hash : h # r + 1 => tokens'[h] = tokens[h]
    BY <1>0, <1>2, <1>5 DEF TypeOK
  <2>5. /\ pc'[t] = place /\ req' = req
        /\ \A u \in Threads : u # t => pc'[u] = pc[u]
    BY <1>0, <1>5 DEF Goto, TypeOK
  <2>6. PairInv'
    <3>1. ASSUME NEW h \in Hash, tokens'[h] # None, tokens'[h].isRefresh
          PROVE  /\ tokens'[h].parent = None
                 /\ \A a \in tokens'[h].issued :
                      /\ a = h + 1 /\ a < nextHash' /\ lineage'[a] = None
                      /\ \/ tokens'[a] # None
                         \/ \E u \in Threads : /\ pc'[u] \in {"put_access", "undo"}
                                               /\ req'[u].refresh = h
      <4>1. h # r + 1 /\ tokens'[h] = tokens[h]
        BY <2>1, <2>4, <3>1
      <4>2. tokens[h].parent = None /\ tokens[h].issued \subseteq Hash
        BY <1>0, <3>1, <4>1 DEF LinkInv, PairInv, TypeOK, Token
      <4>3. ASSUME NEW a \in tokens[h].issued
            PROVE  /\ a = h + 1 /\ a < nextHash' /\ lineage'[a] = None
                   /\ \/ tokens'[a] # None
                      \/ \E u \in Threads : /\ pc'[u] \in {"put_access", "undo"}
                                            /\ req'[u].refresh = h
        <5>1. /\ a = h + 1 /\ a < nextHash /\ lineage[a] = None /\ a \in Hash
              /\ \/ tokens[a] # None
                 \/ \E u \in Threads : pc[u] \in {"put_access", "undo"} /\ req[u].refresh = h
          BY <3>1, <4>1, <4>2, <4>3 DEF LinkInv, PairInv
        <5>2. tokens[a] # None => tokens'[a] # None
          BY <2>2, <2>4, <5>1
        <5>3. ASSUME NEW u \in Threads, pc[u] \in {"put_access", "undo"}, req[u].refresh = h
              PROVE  \/ tokens'[a] # None
                     \/ pc'[u] \in {"put_access", "undo"} /\ req'[u].refresh = h
          BY <2>2, <2>4, <2>5, <5>1, <5>3
        <5> QED
          BY <1>1, <5>1, <5>2, <5>3
      <4> QED
        BY <4>1, <4>2, <4>3
    <3>2. ASSUME NEW h \in Hash, tokens'[h] # None, ~tokens'[h].isRefresh
          PROVE  /\ tokens'[h].issued = {} /\ tokens'[h].parent \in Hash
                 /\ h = tokens'[h].parent + 1 /\ lineage'[tokens'[h].parent] # None
                 /\ \A p \in Hash : tokens'[p] # None /\ p = tokens'[h].parent =>
                      /\ h \in tokens'[p].issued
                      /\ tokens'[p].family = tokens'[h].family
                      /\ tokens'[p].subject = tokens'[h].subject
      <4>1. CASE h = r + 1
        BY <1>1, <1>2, <2>1, <2>4, <4>1
      <4>2. CASE h # r + 1
        <5>1. tokens'[h] = tokens[h]
          BY <2>4, <4>2
        <5>2. /\ tokens[h].issued = {} /\ tokens[h].parent \in Hash
              /\ h = tokens[h].parent + 1 /\ lineage[tokens[h].parent] # None
              /\ \A p \in Hash : tokens[p] # None /\ p = tokens[h].parent =>
                   /\ h \in tokens[p].issued
                   /\ tokens[p].family = tokens[h].family
                   /\ tokens[p].subject = tokens[h].subject
          BY <3>2, <5>1 DEF LinkInv, PairInv
        <5>3. tokens[h].parent # r + 1
          BY <1>2, <5>2
        <5> QED
          BY <1>1, <2>4, <5>1, <5>2, <5>3
      <4> QED
        BY <4>1, <4>2
    <3> QED
      BY <3>1, <3>2 DEF PairInv
  <2>7. HalfInv'
    <3>1. \A u \in Threads : Issues(u)' <=> Issues(u)
      BY <1>1, <2>3, <2>5 DEF Issues
    <3>2. ASSUME NEW u \in Threads, Issues(u)'
          PROVE  /\ req'[u].refresh + 1 < nextHash'
                 /\ lineage'[req'[u].refresh] # None /\ lineage'[req'[u].refresh + 1] = None
      BY <1>1, <2>5, <3>1, <3>2 DEF LinkInv, HalfInv
    <3>3. ASSUME NEW u \in Threads, pc'[u] = "put_access"
          PROVE  /\ tokens'[req'[u].refresh + 1] = None
                 /\ req'[u].refresh + 1 \notin reported'
                 /\ tokens'[req'[u].refresh] = None
                    \/ /\ req'[u].refresh + 1 \in tokens'[req'[u].refresh].issued
                       /\ tokens'[req'[u].refresh].family = req'[u].family
                       /\ tokens'[req'[u].refresh].subject = req'[u].subject
      <4>1. u # t /\ pc[u] = "put_access" /\ Issues(u)
        BY <2>3, <2>5, <3>3 DEF Issues
      <4> QED
        BY <1>1, <1>3, <2>4, <2>5, <4>1 DEF LinkInv, HalfInv
    <3>4. ASSUME NEW u \in Threads, pc'[u] \in {"mark_code", "mark_refresh"}
          PROVE  tokens'[req'[u].refresh + 1] # None \/ req'[u].refresh + 1 \in reported'
      <4>1. CASE u = t
        BY <2>2, <2>4, <2>5, <4>1
      <4>2. CASE u # t
        <5>1. pc[u] \in {"mark_code", "mark_refresh"} /\ Issues(u)
          BY <2>5, <3>4, <4>2 DEF Issues
        <5> QED
          BY <1>1, <1>3, <2>4, <2>5, <4>2, <5>1 DEF LinkInv, HalfInv
      <4> QED
        BY <4>1, <4>2
    <3>5. \A u, v \in Threads :
            Issues(u)' /\ Issues(v)' /\ req'[u].refresh = req'[v].refresh => u = v
      BY <2>5, <3>1 DEF LinkInv, HalfInv
    <3> QED
      BY <3>2, <3>3, <3>4, <3>5 DEF HalfInv
  <2>8. ReportInv'
    <3>1. \A h \in reported' : h < nextHash'
      BY <1>1 DEF LinkInv, ReportInv
    <3>2. \A h \in delivered' : tokens'[h] = None /\ lineage'[h] = None => h \in reported'
      BY <1>0, <1>1, <2>2, <2>4 DEF LinkInv, ReportInv, RevocationsReported, TypeOK
    <3>3. \A h \in Present(tokens)' : h \notin reported'
      BY <1>0, <1>1, <1>2, <2>4
      DEF LinkInv, ReportInv, RevocationsReported, Present, TypeOK
    <3> QED
      BY <3>1, <3>2, <3>3 DEF ReportInv, RevocationsReported
  <2> QED
    BY <2>6, <2>7, <2>8 DEF LinkInv
<1> QED
  BY <1>1, <1>4, <1>5

\* The client receives a pair whose second half is stored or reported.
LEMMA DeliveryLinks ==
  ASSUME SingleUseInv, SingleUseInv', LinkInv, NEW t \in Threads,
         MarkCodeUsed(t) \/ MarkRefreshRotated(t)
  PROVE  LinkInv'
<1>0. TypeInv /\ TypeInv' /\ TypeOK /\ TypeOK' /\ KindInv
  BY DEF SingleUseInv, TypeInv
<1> PICK r : r = req[t].refresh
  OBVIOUS
<1>1. /\ pc[t] \in {"mark_code", "mark_refresh"} /\ Finish(t)
      /\ delivered' = delivered \cup {r, r + 1}
      /\ UNCHANGED <<tokens, reported, lineage, nextHash>>
  BY DEF MarkCodeUsed, MarkRefreshRotated, Deliver
<1>2. /\ pc'[t] = "idle"
      /\ \A u \in Threads : u # t => pc'[u] = pc[u] /\ req'[u] = req[u]
  BY <1>0, <1>1 DEF Finish, Goto, TypeOK
<1>3. lineage[r] # None /\ (tokens[r + 1] # None \/ r + 1 \in reported)
  BY <1>1 DEF LinkInv, HalfInv, Issues
<1>4. PairInv'
  BY <1>1, <1>2 DEF LinkInv, PairInv
<1>5. \A u \in Threads : Issues(u)' => Issues(u) /\ pc'[u] = pc[u] /\ req'[u] = req[u]
  BY <1>2 DEF Issues
<1>6. HalfInv'
  BY <1>1, <1>2, <1>5 DEF LinkInv, HalfInv
<1>7. ReportInv'
  BY <1>1, <1>3 DEF LinkInv, ReportInv, RevocationsReported, Present
<1> QED
  BY <1>4, <1>6, <1>7 DEF LinkInv

\* The handler that takes a token issues nothing with it yet.
LEMMA TakeTokenLinks ==
  ASSUME SingleUseInv, SingleUseInv', LinkInv, NEW t \in Threads, NEW h \in Hash,
         NEW m \in BOOLEAN, TakeToken(t, h, m)
  PROVE  LinkInv'
<1>0. TypeInv /\ TypeInv' /\ TypeOK /\ KindInv
  BY DEF SingleUseInv, TypeInv
<1>1. /\ pc[t] = "idle" /\ tokens[h] # None /\ DeleteTokens({h})
      /\ UNCHANGED <<lineage, nextHash, delivered>>
  BY DEF TakeToken
<1>2. UNCHANGED <<pc, req>> \/ \E r : Goto(t, "check_subject", r)
  BY DEF TakeToken
<1>3. {h} \in SUBSET Present(tokens)
  BY <1>0, <1>1 DEF Present, TypeOK
<1>4. SameIssuers
  BY <1>0, <1>1, <1>2, GotoIssues, StayIssues DEF Issues
<1> QED
  BY <1>0, <1>1, <1>3, <1>4, CascadeRemoves, RemovalKeepsLinks

\* Other removals, in handlers, by the hook of an account and by the sweeper.
LEMMA RemovalLinks ==
  ASSUME SingleUseInv, SingleUseInv', LinkInv,
         \/ \E t \in Threads : RevokeFamily(t) \/ RevokeSubject(t) \/ Undo(t)
         \/ \E h \in Hash : Revoke(h)
         \/ \E s \in Subjects : RunHook(s)
         \/ Sweep
  PROVE  LinkInv'
<1> USE DEF histVars, storeVars
<1>0. TypeInv /\ TypeInv' /\ TypeOK /\ KindInv
  BY DEF SingleUseInv, TypeInv
<1>1. ASSUME NEW t \in Threads, RevokeFamily(t) \/ RevokeSubject(t)
      PROVE  LinkInv'
  <2>1. /\ ~Issues(t) /\ Finish(t) /\ UNCHANGED <<lineage, nextHash, delivered>>
        /\ \E f : DeleteFamily(f) \/ DeleteBySubject(f)
    BY <1>1 DEF RevokeFamily, RevokeSubject, Issues
  <2>2. SameIssuers
    BY <1>0, <2>1, GotoIssues DEF Finish
  <2> QED
    BY <1>0, <2>1, <2>2, KinshipRemoves, RemovalKeepsLinks
<1>2. ASSUME NEW t \in Threads, Undo(t)
      PROVE  LinkInv'
  <2> PICK r : r = req[t].refresh
    OBVIOUS
  <2> DEFINE H == {r} \cap Present(tokens)
  <2>1. /\ pc[t] = "undo" /\ Finish(t) /\ DeleteTokens(H)
        /\ UNCHANGED <<lineage, nextHash, delivered>>
    BY <1>2 DEF Undo
  <2>2. Removes(UNION {Cascade(h) : h \in H})
    BY <1>0, <2>1, CascadeRemoves
  <2>3. r \in Hash /\ tokens'[r] = None
    <3>1. r \in Hash
      BY <1>0, <2>1 DEF TypeInv, PlaceOK
    <3>2. tokens[r] # None => r \in UNION {Cascade(h) : h \in H}
      BY <1>0, <3>1 DEF Present, TypeOK, Cascade
    <3> QED
      BY <2>2, <3>1, <3>2 DEF Removes
  <2>4. /\ pc'[t] = "idle"
        /\ \A u \in Threads : u # t => pc'[u] = pc[u] /\ req'[u] = req[u]
    BY <1>0, <2>1 DEF Finish, Goto, TypeOK
  <2>5. SameIssuers
    BY <2>3, <2>4 DEF SameIssuers, Issues
  <2> QED
    BY <1>0, <2>2, <2>5, RemovalKeepsLinks
<1>3. ASSUME NEW h \in Hash, Revoke(h)
      PROVE  LinkInv'
  <2>1. /\ tokens[h] # None /\ DeleteTokens({h})
        /\ UNCHANGED <<lineage, nextHash, delivered, pc, req>>
    BY <1>3 DEF Revoke
  <2>2. {h} \in SUBSET Present(tokens)
    BY <1>0, <2>1 DEF Present, TypeOK
  <2> QED
    BY <1>0, <2>1, <2>2, StayIssues, CascadeRemoves, RemovalKeepsLinks
<1>4. ASSUME NEW s \in Subjects, RunHook(s)
      PROVE  LinkInv'
  <2>1. DeleteBySubject(s) /\ UNCHANGED <<lineage, nextHash, delivered, pc, req>>
    BY <1>4 DEF RunHook
  <2> QED
    BY <1>0, <2>1, StayIssues, KinshipRemoves, RemovalKeepsLinks
<1>5. ASSUME Sweep
      PROVE  LinkInv'
  <2>1. /\ DeleteTokens(Stale(tokens))
        /\ UNCHANGED <<lineage, nextHash, delivered, pc, req>>
    BY <1>5 DEF Sweep
  <2>2. Stale(tokens) \in SUBSET Present(tokens)
    BY DEF Stale
  <2> QED
    BY <1>0, <2>1, <2>2, StayIssues, CascadeRemoves, RemovalKeepsLinks
<1> QED
  BY <1>1, <1>2, <1>3, <1>4, <1>5

\* Nor does one that has a code to store.
LEMMA SignInLinks ==
  ASSUME SingleUseInv, SingleUseInv', LinkInv, NEW t \in Threads, NEW s \in Subjects,
         NEW c \in Codes, SignIn(t, s, c)
  PROVE  LinkInv'
<1>0. TypeInv /\ TypeInv' /\ TypeOK /\ KindInv
  BY DEF SingleUseInv, TypeInv
<1>1. /\ pc[t] = "idle"
      /\ UNCHANGED <<tokens, reported, lineage, nextHash, delivered>>
  BY DEF SignIn, storeVars, histVars
<1>2. UNCHANGED <<pc, req>> \/ \E r : Goto(t, "put_code", r)
  BY DEF SignIn
<1>3. SameIssuers
  BY <1>0, <1>1, <1>2, GotoIssues, StayIssues DEF Issues
<1> QED
  BY <1>0, <1>1, <1>3, NothingRemoves, RemovalKeepsLinks

\* Nor one that takes a code.
LEMMA TakeCodeLinks ==
  ASSUME SingleUseInv, SingleUseInv', LinkInv, NEW t \in Threads, NEW c \in Codes,
         NEW m \in BOOLEAN, TakeCode(t, c, m)
  PROVE  LinkInv'
<1>0. TypeInv /\ TypeInv' /\ TypeOK /\ KindInv
  BY DEF SingleUseInv, TypeInv
<1>1. /\ pc[t] = "idle"
      /\ UNCHANGED <<tokens, reported, lineage, nextHash, delivered>>
  BY DEF TakeCode, histVars
<1>2. UNCHANGED <<pc, req>> \/ \E r : Goto(t, "put_refresh", r)
  BY DEF TakeCode
<1>3. SameIssuers
  BY <1>0, <1>1, <1>2, GotoIssues, StayIssues DEF Issues
<1> QED
  BY <1>0, <1>1, <1>3, NothingRemoves, RemovalKeepsLinks

\* All the rest leaves the tokens alone.
LEMMA QuietLinks ==
  ASSUME SingleUseInv, SingleUseInv', LinkInv,
         \/ \E t \in Threads :
              \/ \E c \in Codes : ReplayCode(t, c)
              \/ \E h \in Hash : ReplayRefresh(t, h) \/ Validate(t, h)
              \/ PutCode(t) \/ CheckSubject(t)
         \/ \E s \in Subjects : Disable(s) \/ Enable(s)
         \/ Tick
         \/ UNCHANGED vars
  PROVE  LinkInv'
<1> USE DEF histVars, storeVars
<1>0. TypeInv /\ TypeInv' /\ TypeOK /\ KindInv
  BY DEF SingleUseInv, TypeInv
<1> DEFINE Quiet == UNCHANGED <<tokens, reported, lineage, nextHash, delivered>>
<1>1. ASSUME NEW t \in Threads, NEW c \in Codes, ReplayCode(t, c)
      PROVE  Quiet /\ SameIssuers
  BY <1>0, <1>1, GotoIssues DEF ReplayCode, Issues
<1>2. ASSUME NEW t \in Threads, NEW h \in Hash, ReplayRefresh(t, h)
      PROVE  Quiet /\ SameIssuers
  BY <1>0, <1>2, GotoIssues DEF ReplayRefresh, Issues
<1>3. ASSUME NEW t \in Threads, NEW h \in Hash, Validate(t, h)
      PROVE  Quiet /\ SameIssuers
  BY <1>0, <1>3, GotoIssues DEF Validate, Issues
<1>4. ASSUME NEW t \in Threads, PutCode(t)
      PROVE  Quiet /\ SameIssuers
  BY <1>0, <1>4, GotoIssues DEF PutCode, Finish, Issues
<1>5. ASSUME NEW t \in Threads, CheckSubject(t)
      PROVE  Quiet /\ SameIssuers
  BY <1>0, <1>5, GotoIssues DEF CheckSubject, Issues
<1>6. ASSUME \/ \E s \in Subjects : Disable(s) \/ Enable(s)
             \/ Tick
             \/ UNCHANGED vars
      PROVE  Quiet /\ SameIssuers
  <2>1. Quiet /\ UNCHANGED <<pc, req>>
    BY <1>6 DEF Disable, Enable, Tick, vars
  <2> QED
    BY <2>1, StayIssues
<1>7. Quiet /\ SameIssuers
  BY <1>1, <1>2, <1>3, <1>4, <1>5, <1>6
<1> QED
  BY <1>0, <1>7, NothingRemoves, RemovalKeepsLinks

\* The tokens of a pair know of each other for as long as both are there, and
\* the hook of each access token that is not.
THEOREM LinkInvCorrect == Spec => []LinkInv
<1>1. Init => LinkInv
  BY DEF Init, LinkInv, PairInv, HalfInv, Issues, ReportInv, RevocationsReported, Present
<1>2. SingleUseInv /\ SingleUseInv' /\ LinkInv /\ [Next]_vars => LinkInv'
  <2> SUFFICES ASSUME SingleUseInv, SingleUseInv', LinkInv, [Next]_vars
               PROVE  LinkInv'
    OBVIOUS
  <2>1. ASSUME NEW t \in Threads, Arrive(t)
        PROVE  LinkInv'
    BY <2>1, SignInLinks, TakeCodeLinks, TakeTokenLinks, QuietLinks DEF Arrive
  <2>2. ASSUME NEW t \in Threads, Continue(t)
        PROVE  LinkInv'
    BY <2>2, PutRefreshLinks, PutAccessLinks, DeliveryLinks, RemovalLinks, QuietLinks
    DEF Continue
  <2>3. ASSUME \/ \E h \in Hash : Revoke(h)
               \/ \E s \in Subjects : Disable(s) \/ Enable(s) \/ RunHook(s)
               \/ Sweep
               \/ Tick
               \/ UNCHANGED vars
        PROVE  LinkInv'
    BY <2>3, RemovalLinks, QuietLinks
  <2> QED
    BY <2>1, <2>2, <2>3 DEF Next
<1> QED
  BY <1>1, <1>2, SingleUseInvCorrect, PTL DEF Spec

\* An access token goes with its refresh token, whatever handlers, sweeper and
\* accounts do at the same time, and the revocation hook hears of each that a
\* client holds, and of none that is still there.
THEOREM RemovalsCompleteCorrect == Spec => []RemovalsComplete
<1>1. SingleUseInv /\ LinkInv => RemovalsComplete
  <2> SUFFICES ASSUME SingleUseInv, LinkInv
               PROVE  RemovalsComplete
    OBVIOUS
  <2>1. ASSUME NEW r \in Present(tokens), tokens[r].isRefresh
        PROVE  /\ \A a \in Present(tokens) : tokens[a].parent = r => a \in tokens[r].issued
               /\ \A a \in tokens[r].issued :
                    \/ tokens[a] # None /\ tokens[a].parent = r
                    \/ \E t \in Threads : pc[t] \in {"put_access", "undo"}
                                            /\ req[t].refresh = r
    <3>1. Present(tokens) = {h \in Hash : tokens[h] # None}
      BY DEF Present, SingleUseInv, TypeInv, TypeOK
    <3>2. ASSUME NEW a \in Present(tokens), tokens[a].parent = r
          PROVE  a \in tokens[r].issued
      <4>1. ~tokens[a].isRefresh
        BY <3>1, <3>2, DistinctAssumption DEF LinkInv, PairInv
      <4> QED
        BY <3>1, <3>2, <4>1 DEF LinkInv, PairInv
    <3>3. ASSUME NEW a \in tokens[r].issued, tokens[a] # None
          PROVE  tokens[a].parent = r
      <4>1. a = r + 1 /\ lineage[a] = None /\ a \in Hash
        BY <2>1, <3>1, <3>3 DEF LinkInv, PairInv, SingleUseInv, TypeInv, TypeOK, Token
      <4>2. ~tokens[a].isRefresh
        BY <3>3, <4>1 DEF SingleUseInv, KindInv
      <4>3. tokens[a].parent \in Hash /\ a = tokens[a].parent + 1
        BY <3>3, <4>1, <4>2 DEF LinkInv, PairInv
      <4> QED
        BY <3>1, <4>1, <4>3 DEF Hash
    <3> QED
      BY <2>1, <3>1, <3>2, <3>3 DEF LinkInv, PairInv
  <2>2. CascadeComplete
    BY <2>1 DEF CascadeComplete
  <2>3. RevocationsReported
    BY DEF LinkInv, ReportInv
  <2> QED
    BY <2>2, <2>3 DEF RemovalsComplete
<1> QED
  BY <1>1, SingleUseInvCorrect, LinkInvCorrect, PTL

(***************************************************************************)
(* No half of a pair is left behind                                        *)
(***************************************************************************)

\* A handler that has no room for the access token has not stored it; what is
\* in the store and not delivered is in the hands of a handler.
WholeInv ==
  /\ NoHalfIssued
  /\ \A t \in Threads : pc[t] = "undo" => tokens[req[t].refresh + 1] = None

\* The handlers that issue are those that did, at the same place.
IssuersStay ==
  \A u \in Threads : Issues(u) \/ Issues(u)' => pc'[u] = pc[u] /\ req'[u] = req[u]

LEMMA GotoStays ==
  ASSUME TypeOK, NEW t \in Threads, NEW place, NEW r, Goto(t, place, r), ~Issues(t),
         place \notin {"put_access", "undo", "mark_code", "mark_refresh"}
  PROVE  IssuersStay
<1>1. /\ pc'[t] = place
      /\ \A u \in Threads : u # t => pc'[u] = pc[u] /\ req'[u] = req[u]
  BY DEF Goto, TypeOK
<1> QED
  BY <1>1 DEF IssuersStay, Issues

LEMMA ThinKeepsWhole ==
  ASSUME TypeInv, TypeOK', WholeInv, Thins, IssuersStay, delivered \subseteq delivered'
  PROVE  WholeInv'
<1>1. /\ Present(tokens) = {h \in Hash : tokens[h] # None}
      /\ Present(tokens)' = {h \in Hash : tokens'[h] # None}
  BY DEF Present, TypeOK, TypeInv
<1>2. ASSUME NEW h \in Present(tokens)', h \notin delivered'
      PROVE  \E t \in Threads : /\ pc'[t] \in {"put_access", "undo", "mark_code", "mark_refresh"}
                                /\ h \in {req'[t].refresh, req'[t].refresh + 1}
  <2>1. h \in Present(tokens)
    BY <1>1, <1>2 DEF Thins
  <2>2. PICK t \in Threads : /\ pc[t] \in {"put_access", "undo", "mark_code", "mark_refresh"}
                             /\ h \in {req[t].refresh, req[t].refresh + 1}
    BY <1>2, <2>1 DEF WholeInv, NoHalfIssued
  <2>3. pc'[t] = pc[t] /\ req'[t] = req[t]
    BY <2>2 DEF IssuersStay, Issues
  <2> QED
    BY <2>2, <2>3
<1>3. ASSUME NEW t \in Threads, pc'[t] = "undo"
      PROVE  tokens'[req'[t].refresh + 1] = None
  <2>1. pc[t] = "undo" /\ req'[t] = req[t]
    BY <1>3 DEF IssuersStay, Issues
  <2>2. req[t].refresh + 1 \in Hash /\ tokens[req[t].refresh + 1] = None
    BY <2>1 DEF WholeInv, TypeInv, PlaceOK
  <2> QED
    BY <2>1, <2>2 DEF Thins
<1> QED
  BY <1>2, <1>3 DEF WholeInv, NoHalfIssued

\* The refresh token is stored, and its handler goes on to the other half.
LEMMA PutRefreshWhole ==
  ASSUME SingleUseInv, SingleUseInv', LinkInv, WholeInv, NEW t \in Threads, PutRefresh(t)
  PROVE  WholeInv'
<1>0. TypeInv /\ TypeOK /\ TypeOK'
  BY DEF SingleUseInv, TypeInv
<1>1. CASE TokensFull
  <2>1. Finish(t) /\ UNCHANGED <<tokens, nextHash, delivered>> /\ ~Issues(t)
    BY <1>1 DEF PutRefresh, Issues
  <2>2. Thins /\ IssuersStay
    BY <1>0, <2>1, GotoStays DEF Thins, Finish
  <2> QED
    BY <1>0, <2>1, <2>2, ThinKeepsWhole
<1>2. CASE ~TokensFull
  <2> PICK n : n = nextHash
    OBVIOUS
  <2>1. /\ n \in Hash /\ n + 1 \in Hash /\ pc[t] = "put_refresh" /\ delivered' = delivered
        /\ \A h \in Hash : h # n => tokens'[h] = tokens[h]
    <3>1. n \in Nat \ {0}
      BY <1>0 DEF TypeOK
    <3>2. n + 1 \in Hash /\ pc[t] = "put_refresh" /\ delivered' = delivered
      BY <1>2 DEF PutRefresh
    <3>3. n \in Hash
      BY <3>1, <3>2, BoundAssumption DEF Hash
    <3>4. \E new : tokens' = [tokens EXCEPT ![n] = new]
      BY <1>2 DEF PutRefresh
    <3>5. \A h \in Hash : h # n => tokens'[h] = tokens[h]
      BY <1>0, <3>4 DEF TypeOK
    <3> QED
      BY <3>2, <3>3, <3>5
  <2>2. \E r : Goto(t, "put_access", [r EXCEPT !.refresh = n]) /\ r \in Request
    <3> DEFINE f == IF req[t].family = None THEN n ELSE req[t].family
               r == [req[t] EXCEPT !.family = f, !.at = now]
    <3>1. req[t] \in Request
      BY <1>0 DEF TypeOK
    <3>2. f \in Hash \cup {None} /\ now \in Nat
      BY <1>0, <2>1, <3>1 DEF TypeOK, Request
    <3> HIDE DEF f
    <3>3. r \in Request
      BY <3>1, <3>2 DEF Request
    <3>4. [req[t] EXCEPT !.family = f, !.refresh = n, !.at = now] = [r EXCEPT !.refresh = n]
      BY <3>1 DEF Request
    <3>5. Goto(t, "put_access", [req[t] EXCEPT !.family = f, !.refresh = n, !.at = now])
      BY <1>2 DEF PutRefresh, f
    <3> QED
      BY <3>3, <3>4, <3>5
  <2>3. /\ pc'[t] = "put_access" /\ req'[t].refresh = n
        /\ \A u \in Threads : u # t => pc'[u] = pc[u] /\ req'[u] = req[u]
    BY <1>0, <2>2 DEF Goto, TypeOK, Request
  <2>4. /\ Present(tokens) = {h \in Hash : tokens[h] # None}
        /\ Present(tokens)' = {h \in Hash : tokens'[h] # None}
    BY <1>0 DEF Present, TypeOK
  <2>5. ASSUME NEW h \in Present(tokens)', h \notin delivered
        PROVE  \E u \in Threads : /\ pc'[u] \in {"put_access", "undo", "mark_code", "mark_refresh"}
                                  /\ h \in {req'[u].refresh, req'[u].refresh + 1}
    <3>1. CASE h = n
      BY <2>3, <3>1
    <3>2. CASE h # n
      <4>1. PICK u \in Threads : /\ pc[u] \in {"put_access", "undo", "mark_code", "mark_refresh"}
                                 /\ h \in {req[u].refresh, req[u].refresh + 1}
        BY <2>1, <2>4, <2>5, <3>2 DEF WholeInv, NoHalfIssued
      <4>2. u # t
        BY <2>1, <4>1
      <4> QED
        BY <2>3, <4>1, <4>2
    <3> QED
      BY <3>1, <3>2
  <2>6. ASSUME NEW u \in Threads, pc'[u] = "undo"
        PROVE  tokens'[req'[u].refresh + 1] = None
    <3>1. pc[u] = "undo" /\ req'[u] = req[u]
      BY <2>3, <2>6
    <3>2. req[u].refresh + 1 \in Hash /\ req[u].refresh + 1 < n /\ tokens[req[u].refresh + 1] = None
      BY <1>0, <3>1 DEF TypeInv, PlaceOK, LinkInv, HalfInv, Issues, WholeInv
    <3>3. req[u].refresh + 1 # n
      BY <2>1, <3>2 DEF Hash
    <3> QED
      BY <2>1, <3>1, <3>2, <3>3
  <2> QED
    BY <2>1, <2>5, <2>6 DEF WholeInv, NoHalfIssued
<1> QED
  BY <1>1, <1>2

\* The access token is stored, or its handler goes to take the other half back.
LEMMA PutAccessWhole ==
  ASSUME SingleUseInv, SingleUseInv', LinkInv, WholeInv, NEW t \in Threads, PutAccess(t)
  PROVE  WholeInv'
<1>0. TypeInv /\ TypeOK /\ TypeOK'
  BY DEF SingleUseInv, TypeInv
<1> PICK r : r = req[t].refresh
  OBVIOUS
<1>1. /\ pc[t] = "put_access" /\ r \in Hash /\ r + 1 \in Hash /\ delivered' = delivered
      /\ tokens[r + 1] = None
  BY <1>0 DEF PutAccess, histVars, TypeInv, PlaceOK, LinkInv, HalfInv
<1>2. /\ pc'[t] \in {"undo", "mark_code", "mark_refresh"} /\ req'[t] = req[t]
      /\ \A u \in Threads : u # t => pc'[u] = pc[u] /\ req'[u] = req[u]
  BY <1>0 DEF PutAccess, Goto, TypeOK
<1>3. /\ \A h \in Hash : h # r + 1 => tokens'[h] = tokens[h]
      /\ pc'[t] = "undo" => tokens' = tokens
  BY <1>0, <1>1 DEF PutAccess, Goto, TypeOK
<1>4. /\ Present(tokens) = {h \in Hash : tokens[h] # None}
      /\ Present(tokens)' = {h \in Hash : tokens'[h] # None}
  BY <1>0 DEF Present, TypeOK
<1>5. ASSUME NEW h \in Present(tokens)', h \notin delivered
      PROVE  \E u \in Threads : /\ pc'[u] \in {"put_access", "undo", "mark_code", "mark_refresh"}
                                /\ h \in {req'[u].refresh, req'[u].refresh + 1}
  <2>1. CASE h = r + 1
    BY <1>2, <2>1
  <2>2. CASE h # r + 1
    <3>1. PICK u \in Threads : /\ pc[u] \in {"put_access", "undo", "mark_code", "mark_refresh"}
                               /\ h \in {req[u].refresh, req[u].refresh + 1}
      BY <1>3, <1>4, <1>5, <2>2 DEF WholeInv, NoHalfIssued
    <3> QED
      BY <1>2, <3>1
  <2> QED
    BY <2>1, <2>2
<1>6. ASSUME NEW u \in Threads, pc'[u] = "undo"
      PROVE  tokens'[req'[u].refresh + 1] = None
  <2>1. CASE u = t
    BY <1>1, <1>2, <1>3, <1>6, <2>1
  <2>2. CASE u # t
    <3>1. pc[u] = "undo" /\ req'[u] = req[u]
      BY <1>2, <1>6, <2>2
    <3>2. /\ req[u].refresh \in Hash /\ req[u].refresh + 1 \in Hash
          /\ req[u].refresh # r /\ tokens[req[u].refresh + 1] = None
      BY <1>0, <1>1, <2>2, <3>1 DEF TypeInv, PlaceOK, LinkInv, HalfInv, Issues, WholeInv
    <3>3. req[u].refresh + 1 # r + 1
      BY <1>1, <3>2 DEF Hash
    <3> QED
      BY <1>3, <3>1, <3>2, <3>3
  <2> QED
    BY <2>1, <2>2
<1> QED
  BY <1>1, <1>5, <1>6 DEF WholeInv, NoHalfIssued

\* A handler that ends has delivered the pair, or taken it back.
LEMMA EndingWhole ==
  ASSUME SingleUseInv, SingleUseInv', WholeInv, NEW t \in Threads,
         Undo(t) \/ MarkCodeUsed(t) \/ MarkRefreshRotated(t)
  PROVE  WholeInv'
<1>0. TypeInv /\ TypeOK /\ TypeOK'
  BY DEF SingleUseInv, TypeInv
<1> PICK r : r = req[t].refresh
  OBVIOUS
<1>1. Finish(t) /\ Issues(t) /\ r \in Hash /\ r + 1 \in Hash
  BY <1>0 DEF Undo, MarkCodeUsed, MarkRefreshRotated, Issues, TypeInv, PlaceOK
<1>2. /\ pc'[t] = "idle"
      /\ \A u \in Threads : u # t => pc'[u] = pc[u] /\ req'[u] = req[u]
  BY <1>0, <1>1 DEF Finish, Goto, TypeOK
<1>3. /\ \A h \in Hash : tokens'[h] # None => tokens[h] # None
      /\ delivered \subseteq delivered'
      /\ \/ {r, r + 1} \subseteq delivered'
         \/ tokens'[r] = None /\ tokens'[r + 1] = None
  <2>1. CASE Undo(t)
    <3> DEFINE H == {r} \cap Present(tokens)
    <3>1. DeleteTokens(H) /\ UNCHANGED <<nextHash, delivered>> /\ tokens[r + 1] = None
      BY <2>1 DEF Undo, WholeInv
    <3>2. H \in SUBSET Hash
      BY <1>1
    <3>3. Thins
      BY <1>0, <3>1, <3>2, DeletionThins
    <3>4. tokens'[r] = None
      <4>1. CASE tokens[r] = None
        BY <1>1, <3>3, <4>1 DEF Thins
      <4>2. CASE tokens[r] # None
        <5>1. H = {r}
          BY <1>0, <1>1, <4>2 DEF Present, TypeOK
        <5> QED
          BY <1>1, <3>1, <5>1, DeleteTokensDeletes
      <4> QED
        BY <4>1, <4>2
    <3> QED
      BY <1>1, <3>1, <3>3, <3>4 DEF Thins
  <2>2. CASE MarkCodeUsed(t) \/ MarkRefreshRotated(t)
    <3>1. tokens' = tokens /\ Deliver(t)
      BY <2>2 DEF MarkCodeUsed, MarkRefreshRotated
    <3> QED
      BY <3>1 DEF Deliver
  <2> QED
    BY <2>1, <2>2
<1>4. /\ Present(tokens) = {h \in Hash : tokens[h] # None}
      /\ Present(tokens)' = {h \in Hash : tokens'[h] # None}
  BY <1>0 DEF Present, TypeOK
<1>5. ASSUME NEW h \in Present(tokens)', h \notin delivered'
      PROVE  \E u \in Threads : /\ pc'[u] \in {"put_access", "undo", "mark_code", "mark_refresh"}
                                /\ h \in {req'[u].refresh, req'[u].refresh + 1}
  <2>1. PICK u \in Threads : /\ pc[u] \in {"put_access", "undo", "mark_code", "mark_refresh"}
                             /\ h \in {req[u].refresh, req[u].refresh + 1}
    BY <1>3, <1>4, <1>5 DEF WholeInv, NoHalfIssued
  <2>2. u # t
    BY <1>3, <1>4, <1>5, <2>1
  <2> QED
    BY <1>2, <2>1, <2>2
<1>6. ASSUME NEW u \in Threads, pc'[u] = "undo"
      PROVE  tokens'[req'[u].refresh + 1] = None
  <2>1. pc[u] = "undo" /\ req'[u] = req[u]
    BY <1>2, <1>6
  <2>2. req[u].refresh + 1 \in Hash /\ tokens[req[u].refresh + 1] = None
    BY <1>0, <2>1 DEF TypeInv, PlaceOK, WholeInv
  <2> QED
    BY <1>3, <2>1, <2>2
<1> QED
  BY <1>5, <1>6 DEF WholeInv, NoHalfIssued

\* All the rest neither stores a token nor ends the issue of one.
LEMMA OthersStay ==
  ASSUME TypeInv, [Next]_vars,
         ~\E t \in Threads : \/ PutRefresh(t) \/ PutAccess(t) \/ Undo(t)
                             \/ MarkCodeUsed(t) \/ MarkRefreshRotated(t)
  PROVE  Thins /\ IssuersStay /\ delivered' = delivered
<1> USE DEF histVars, storeVars
<1>0. TypeOK
  BY DEF TypeInv
<1>1. ASSUME NEW t \in Threads, Arrive(t)
      PROVE  IssuersStay /\ delivered' = delivered /\ Thins
  <2>1. ASSUME NEW s \in Subjects, NEW c \in Codes, SignIn(t, s, c)
        PROVE  IssuersStay /\ delivered' = delivered
    BY <1>0, <2>1, GotoStays DEF SignIn, Issues
  <2>2. ASSUME NEW c \in Codes, NEW m \in BOOLEAN, TakeCode(t, c, m)
        PROVE  IssuersStay /\ delivered' = delivered
    <3>1. UNCHANGED <<pc, req>> \/ \E r : Goto(t, "put_refresh", r)
      BY <2>2 DEF TakeCode
    <3> QED
      BY <1>0, <2>2, <3>1, GotoStays DEF TakeCode, Issues, IssuersStay
  <2>3. ASSUME NEW c \in Codes, ReplayCode(t, c)
        PROVE  IssuersStay /\ delivered' = delivered
    BY <1>0, <2>3, GotoStays DEF ReplayCode, Issues
  <2>4. ASSUME NEW h \in Hash, NEW m \in BOOLEAN, TakeToken(t, h, m)
        PROVE  IssuersStay /\ delivered' = delivered /\ Thins
    <3>1. UNCHANGED <<pc, req>> \/ \E r : Goto(t, "check_subject", r)
      BY <2>4 DEF TakeToken
    <3>2. {h} \in SUBSET Hash /\ DeleteTokens({h}) /\ UNCHANGED nextHash
      BY <2>4 DEF TakeToken
    <3>3. Thins
      BY <1>0, <3>2, DeletionThins
    <3> QED
      BY <1>0, <2>4, <3>1, <3>3, GotoStays DEF TakeToken, Issues, IssuersStay
  <2>5. ASSUME NEW h \in Hash, ReplayRefresh(t, h)
        PROVE  IssuersStay /\ delivered' = delivered
    BY <1>0, <2>5, GotoStays DEF ReplayRefresh, Issues
  <2>6. ASSUME NEW h \in Hash, Validate(t, h)
        PROVE  IssuersStay /\ delivered' = delivered
    BY <1>0, <2>6, GotoStays DEF Validate, Issues
  <2>7. Thins \/ \E h \in Hash, m \in BOOLEAN : TakeToken(t, h, m)
    <3>1. UNCHANGED <<tokens, nextHash>> \/ \E h \in Hash, m \in BOOLEAN : TakeToken(t, h, m)
      BY <1>1 DEF Arrive, SignIn, TakeCode, ReplayCode, ReplayRefresh, Validate
    <3> QED
      BY <3>1 DEF Thins
  <2> QED
    BY <1>1, <2>1, <2>2, <2>3, <2>4, <2>5, <2>6, <2>7 DEF Arrive
<1>2. ASSUME NEW t \in Threads, Continue(t)
      PROVE  IssuersStay /\ delivered' = delivered /\ Thins
  <2>1. PutCode(t) \/ CheckSubject(t) \/ RevokeFamily(t) \/ RevokeSubject(t)
    BY <1>2 DEF Continue
  <2>2. IssuersStay
    BY <1>0, <2>1, GotoStays DEF PutCode, CheckSubject, RevokeFamily, RevokeSubject, Finish, Issues
  <2>3. delivered' = delivered
    BY <2>1 DEF PutCode, CheckSubject, RevokeFamily, RevokeSubject
  <2>4. CASE PutCode(t) \/ CheckSubject(t)
    BY <2>2, <2>3, <2>4 DEF PutCode, CheckSubject, Thins
  <2>5. CASE RevokeFamily(t) \/ RevokeSubject(t)
    BY <1>0, <2>2, <2>3, <2>5, DeletionThins DEF RevokeFamily, RevokeSubject
  <2> QED
    BY <2>1, <2>4, <2>5
<1>3. ASSUME \/ \E h \in Hash : Revoke(h)
             \/ \E s \in Subjects : Disable(s) \/ Enable(s) \/ RunHook(s)
             \/ Sweep \/ Tick \/ UNCHANGED vars
      PROVE  IssuersStay /\ delivered' = delivered /\ Thins
  <2>1. UNCHANGED <<pc, req, delivered>>
    BY <1>3 DEF Revoke, Disable, Enable, RunHook, Sweep, Tick, vars
  <2>2. IssuersStay
    BY <2>1 DEF IssuersStay
  <2>3. Thins
    <3>1. ASSUME NEW h \in Hash, Revoke(h) PROVE Thins
      <4>1. {h} \in SUBSET Hash /\ DeleteTokens({h}) /\ UNCHANGED nextHash
        BY <3>1 DEF Revoke
      <4> QED
        BY <1>0, <4>1, DeletionThins
    <3>2. ASSUME NEW s \in Subjects, RunHook(s) PROVE Thins
      BY <1>0, <3>2, DeletionThins DEF RunHook
    <3>3. ASSUME Sweep PROVE Thins
      <4>1. Stale(tokens) \in SUBSET Hash /\ DeleteTokens(Stale(tokens)) /\ UNCHANGED nextHash
        BY <1>0, <3>3 DEF Sweep, Stale, Present, TypeOK
      <4> QED
        BY <1>0, <4>1, DeletionThins
    <3>4. ASSUME \/ \E s \in Subjects : Disable(s) \/ Enable(s)
                \/ Tick
                \/ UNCHANGED vars
          PROVE Thins
      BY <3>4 DEF Disable, Enable, Tick, vars, Thins
    <3> QED
      BY <1>3, <3>1, <3>2, <3>3, <3>4
  <2> QED
    BY <2>1, <2>2, <2>3
<1> QED
  BY <1>1, <1>2, <1>3 DEF Next

\* However many handlers issue at once into a store with little room, every
\* token in it has been received by a client or is still being issued.
THEOREM NoHalfIssuedCorrect == Spec => []NoHalfIssued
<1>1. Init => WholeInv
  BY DEF Init, WholeInv, NoHalfIssued, Present
<1>2. SingleUseInv /\ SingleUseInv' /\ LinkInv /\ WholeInv /\ [Next]_vars => WholeInv'
  <2> SUFFICES ASSUME SingleUseInv, SingleUseInv', LinkInv, WholeInv, [Next]_vars
               PROVE  WholeInv'
    OBVIOUS
  <2>1. TypeInv /\ TypeOK /\ TypeOK'
    BY DEF SingleUseInv, TypeInv
  <2> QED
    BY <2>1, PutRefreshWhole, PutAccessWhole, EndingWhole, OthersStay, ThinKeepsWhole
<1>3. WholeInv => NoHalfIssued
  BY DEF WholeInv
<1> QED
  BY <1>1, <1>2, <1>3, SingleUseInvCorrect, LinkInvCorrect, PTL DEF Spec

(***************************************************************************)
(* Rotations on record                                                     *)
(***************************************************************************)

\* As many tokens have been generated as rotations fit into the records, those
\* of the first pair and of the last not counted.
Room == nextHash <= 2 * TokenLimit + 3

\* Refresh tokens have the odd hashes, each a later one than the token it was
\* issued for; what is on record has a successor.
RecordInv ==
  /\ \E n \in Nat : nextHash = 2 * n + 1
  /\ \A h \in Hash : lineage[h] # None => \E k \in Nat : h = 2 * k + 1
  /\ \A h \in Hash : lineage[h] \in Hash => lineage[h] < h
  /\ \A h \in delivered : h < nextHash
  /\ \A t \in Threads : Issues(t) => lineage[req[t].refresh] = req[t].cred
  /\ \A g \in Hash : rotated[g] # None => \E h \in Hash : lineage[h] = g
  /\ \A h \in Hash : tokens[h] # None /\ tokens[h].isRefresh => tokens[h].exp <= now + RefreshTTL

\* The record of a rotation lasts as long as the token it has led to.
RememberedInv ==
  Room => \A h \in Hash :
    tokens[h] # None /\ h \in delivered /\ tokens[h].isRefresh /\ lineage[h] \in Hash =>
      /\ rotated[lineage[h]] # None
      /\ tokens[h].exp <= rotated[lineage[h]].until

\* Each record, and the one about to be made, is of a token with a successor of
\* its own, which is not the first refresh token: so there is room for it.
LEMMA RecordFits ==
  ASSUME SingleUseInv, RecordInv, Room, NEW c \in Hash, rotated[c] = None,
         \E h \in Hash : lineage[h] = c
  PROVE  Cardinality(Present(rotated)) < TokenLimit
<1>0. TypeOK /\ KindInv /\ SingleUse
  BY DEF SingleUseInv, TypeInv
<1>1. Present(rotated) = {g \in Hash : rotated[g] # None}
  BY <1>0 DEF Present, TypeOK
<1>2. PICK n \in Nat : nextHash = 2 * n + 1
  BY DEF RecordInv
<1> DEFINE R == Present(rotated)
           S == R \cup {c}
           f == [g \in S |-> CHOOSE k \in 1..(n - 1) : 2 * k + 1 \in Hash /\ lineage[2 * k + 1] = g]
<1>3. ASSUME NEW g \in S
      PROVE  f[g] \in 1..(n - 1) /\ 2 * f[g] + 1 \in Hash /\ lineage[2 * f[g] + 1] = g
  <2>1. g \in Hash
    BY <1>1
  <2>2. PICK h \in Hash : lineage[h] = g
    BY <1>1 DEF RecordInv
  <2>3. g # None
    BY <2>1, DistinctAssumption
  <2>4. PICK k \in Nat : h = 2 * k + 1
    BY <2>2, <2>3 DEF RecordInv
  <2>5. g < h /\ h < nextHash
    BY <1>0, <2>1, <2>2, <2>3 DEF RecordInv, KindInv
  <2>6. k \in 1..(n - 1)
    BY <1>2, <2>1, <2>4, <2>5 DEF Hash
  <2> QED
    BY <2>2, <2>4, <2>6
<1>4. f \in Injection(S, 1..(n - 1))
  <2>1. f \in [S -> 1..(n - 1)]
    BY <1>3
  <2>2. ASSUME NEW a \in S, NEW b \in S, f[a] = f[b]
        PROVE  a = b
    BY <1>3, <2>2
  <2> HIDE DEF f, S
  <2> QED
    BY <2>1, <2>2 DEF Injection, IsInjective
<1>5. IsFiniteSet(1..(n - 1)) /\ Cardinality(1..(n - 1)) = IF 1 > n - 1 THEN 0 ELSE n - 1
  BY FS_Interval
<1>6. IsFiniteSet(S) /\ Cardinality(S) <= Cardinality(1..(n - 1))
  <2> HIDE DEF f, S
  <2> QED
    BY <1>4, <1>5, FS_Injection
<1>7. IsFiniteSet(R)
  <2>1. R \in SUBSET S
    OBVIOUS
  <2> QED
    BY <1>6, <2>1, FS_Subset
<1>8. Cardinality(S) = Cardinality(R) + 1
  <2>1. c \notin R
    BY <1>1
  <2> QED
    BY <1>7, <2>1, FS_AddElement
<1>9. Cardinality(R) \in Nat
  BY <1>7, FS_CardinalityType
<1> QED
  BY <1>2, <1>5, <1>6, <1>8, <1>9, LimitAssumption DEF Room

\* A step that issues and delivers nothing, and leaves the records be.
LEMMA RecordStays ==
  ASSUME TypeInv, TypeInv', RecordInv, RememberedInv, Thins, IssuersStay,
         now \in Nat, now' \in Nat, now <= now', UNCHANGED <<delivered, lineage>>,
         \A g \in Hash : rotated'[g] # None => rotated'[g] = rotated[g],
         \A h \in Hash : tokens'[h] # None /\ lineage[h] \in Hash /\ rotated[lineage[h]] # None
           /\ tokens[h].exp <= rotated[lineage[h]].until => rotated'[lineage[h]] # None
  PROVE  RecordInv' /\ RememberedInv'
<1>1. TypeOK /\ TypeOK'
  BY DEF TypeInv
<1>2. ASSUME NEW t \in Threads, Issues(t)'
      PROVE  lineage'[req'[t].refresh] = req'[t].cred
  <2>1. req'[t] = req[t] /\ Issues(t)
    BY <1>2 DEF Issues, IssuersStay
  <2> QED
    BY <2>1 DEF RecordInv
<1>3. \A g \in Hash : rotated'[g] # None => \E h \in Hash : lineage'[h] = g
  BY DEF RecordInv
<1>4. ASSUME NEW h \in Hash, tokens'[h] # None, tokens'[h].isRefresh
      PROVE  tokens'[h].exp <= now' + RefreshTTL
  <2>1. /\ tokens[h] # None /\ tokens[h].isRefresh /\ tokens'[h].exp = tokens[h].exp
        /\ tokens[h].exp \in Nat
    BY <1>1, <1>4 DEF Thins, TypeOK, Token
  <2>2. tokens[h].exp <= now + RefreshTTL
    BY <2>1 DEF RecordInv
  <2> QED
    BY <2>1, <2>2, LifetimeAssumption
<1>5. RecordInv'
  BY <1>2, <1>3, <1>4 DEF RecordInv, Thins
<1>6. RememberedInv'
  BY DEF RememberedInv, Thins, Room
<1> QED
  BY <1>5, <1>6

\* All that is neither the storing of a token nor the end of an issue: only the
\* sweeper drops records, each with, or after, the token it has led to.
LEMMA OthersRecord ==
  ASSUME TypeInv, TypeInv', RecordInv, RememberedInv, [Next]_vars,
         ~\E t \in Threads : \/ PutRefresh(t) \/ PutAccess(t) \/ Undo(t)
                             \/ MarkCodeUsed(t) \/ MarkRefreshRotated(t)
  PROVE  RecordInv' /\ RememberedInv'
<1> USE DEF histVars, storeVars
<1>0. TypeOK /\ TypeOK' /\ Thins /\ IssuersStay /\ delivered' = delivered
  BY OthersStay DEF TypeInv
<1>1. now \in Nat /\ now' \in Nat
  BY <1>0 DEF TypeOK
<1>2. lineage' = lineage /\ now <= now' /\ (Sweep \/ rotated' = rotated)
  <2>1. ASSUME NEW t \in Threads, Arrive(t)
        PROVE  UNCHANGED <<lineage, now, rotated>>
    BY <2>1 DEF Arrive, SignIn, TakeCode, ReplayCode, TakeToken, ReplayRefresh, Validate
  <2>2. ASSUME NEW t \in Threads, Continue(t)
        PROVE  UNCHANGED <<lineage, now, rotated>>
    BY <2>2 DEF Continue, PutCode, CheckSubject, RevokeFamily, RevokeSubject
  <2>3. ASSUME \/ \E h \in Hash : Revoke(h)
               \/ \E s \in Subjects : Disable(s) \/ Enable(s) \/ RunHook(s)
               \/ UNCHANGED vars
        PROVE  UNCHANGED <<lineage, now, rotated>>
    BY <2>3 DEF Revoke, Disable, Enable, RunHook, vars
  <2>4. ASSUME Sweep
        PROVE  UNCHANGED <<lineage, now>>
    BY <2>4 DEF Sweep
  <2>5. ASSUME Tick
        PROVE  UNCHANGED <<lineage, rotated>> /\ now' = now + 1
    BY <2>5 DEF Tick
  <2> QED
    BY <1>1, <2>1, <2>2, <2>3, <2>4, <2>5 DEF Next
<1>3. CASE rotated' = rotated
  BY <1>0, <1>1, <1>2, <1>3, RecordStays
<1>4. CASE Sweep
  <2>1. rotated' = [h \in Hash |-> IF h \in StaleRecord(rotated) THEN None ELSE rotated[h]]
    BY <1>4 DEF Sweep
  <2>2. ASSUME NEW h \in Hash, tokens'[h] # None, lineage[h] \in Hash, rotated[lineage[h]] # None,
               tokens[h].exp <= rotated[lineage[h]].until
        PROVE  rotated'[lineage[h]] # None
    <3>1. DeleteTokens(Stale(tokens)) /\ Stale(tokens) \in SUBSET Hash
      BY <1>0, <1>4 DEF Sweep, Stale, Present, TypeOK
    <3>2. h \notin Stale(tokens)
      <4> SUFFICES ASSUME h \in Stale(tokens)
                   PROVE  tokens'[h] = None
        BY <2>2
      <4> QED
        BY <3>1 DEF DeleteTokens, Without, Cascade
    <3>3. tokens[h] # None
      BY <1>0, <2>2 DEF Thins
    <3>4. tokens[h].exp \in Nat /\ rotated[lineage[h]].until \in Nat
      BY <1>0, <2>2, <3>3 DEF TypeOK, Token, Rotated
    <3>5. now <= tokens[h].exp
      BY <1>0, <1>1, <3>2, <3>3, <3>4 DEF Stale, Present, TypeOK
    <3>6. lineage[h] \notin StaleRecord(rotated)
      BY <1>1, <2>2, <3>4, <3>5 DEF StaleRecord
    <3> QED
      BY <2>1, <2>2, <3>6
  <2>3. \A g \in Hash : rotated'[g] # None => rotated'[g] = rotated[g]
    BY <2>1
  <2> QED
    BY <1>0, <1>1, <1>2, <2>2, <2>3, RecordStays
<1> QED
  BY <1>2, <1>3, <1>4

\* A new refresh token is the next odd number, and in no client's hands.
LEMMA PutRefreshRecord ==
  ASSUME SingleUseInv, SingleUseInv', LinkInv, RecordInv, RememberedInv,
         NEW t \in Threads, PutRefresh(t)
  PROVE  RecordInv' /\ RememberedInv'
<1>0. TypeInv /\ TypeInv' /\ TypeOK /\ TypeOK' /\ KindInv /\ OwnInv
  BY DEF SingleUseInv, TypeInv
<1>1. UNCHANGED <<now, delivered, rotated>> /\ now \in Nat /\ nextHash \in Nat
  BY <1>0 DEF PutRefresh, TypeOK
<1>2. CASE TokensFull
  <2>1. Finish(t) /\ UNCHANGED <<tokens, nextHash, lineage>> /\ ~Issues(t)
    BY <1>2 DEF PutRefresh, Issues
  <2>2. Thins /\ IssuersStay
    BY <1>0, <2>1, GotoStays DEF Thins, Finish
  <2> QED
    BY <1>0, <1>1, <2>1, <2>2, RecordStays
<1>3. CASE ~TokensFull
  <2> PICK r : r = nextHash
    OBVIOUS
  <2> DEFINE c == req[t].cred
  <2>1. /\ r \in Hash /\ r + 1 \in Hash /\ nextHash' = r + 2
        /\ lineage' = [lineage EXCEPT ![r] = c]
        /\ c \in Cred /\ pc[t] = "put_refresh"
    <3>1. nextHash \in Nat \ {0}
      BY <1>0 DEF TypeOK
    <3>2. /\ r + 1 \in Hash /\ nextHash' = r + 2 /\ pc[t] = "put_refresh"
          /\ lineage' = [lineage EXCEPT ![r] = c]
      BY <1>3 DEF PutRefresh
    <3>3. r \in Hash
      BY <3>1, <3>2, BoundAssumption DEF Hash
    <3>4. c \in Cred
      BY <1>0, <3>2 DEF TypeInv, PlaceOK
    <3> QED
      BY <3>2, <3>3, <3>4
  <2>2. c \in Hash => c < r
    BY <1>0, <2>1 DEF OwnInv, Owns, KindInv
  <2>3. \A h \in Hash : h # r => tokens'[h] = tokens[h]
    BY <1>0, <1>3 DEF PutRefresh, TypeOK
  <2>4. tokens'[r].exp = now + RefreshTTL
    <3> DEFINE new == [subject |-> req[t].subject,
                       family |-> IF req[t].family = None THEN r ELSE req[t].family,
                       isRefresh |-> TRUE, parent |-> None,
                       issued |-> {r + 1}, exp |-> now + RefreshTTL]
    <3>1. tokens' = [tokens EXCEPT ![r] = new]
      BY <1>3 DEF PutRefresh
    <3>2. new.exp = now + RefreshTTL
      OBVIOUS
    <3> HIDE DEF new
    <3> QED
      BY <1>0, <2>1, <3>1, <3>2 DEF TypeOK
  <2>5. /\ pc'[t] = "put_access" /\ req'[t].refresh = r /\ req'[t].cred = c
        /\ \A u \in Threads : u # t => pc'[u] = pc[u] /\ req'[u] = req[u]
    <3>1. \E f : Goto(t, "put_access", [req[t] EXCEPT !.family = f, !.refresh = r, !.at = now])
      BY <1>3 DEF PutRefresh
    <3> QED
      BY <1>0, <3>1 DEF Goto, TypeOK, Request
  <2>6. r \notin delivered
    BY <1>1 DEF RecordInv
  <2>7. \A h \in Hash : lineage'[h] = IF h = r THEN c ELSE lineage[h]
    BY <1>0, <2>1 DEF TypeOK
  <2>8. \E n \in Nat : nextHash' = 2 * n + 1
    <3>1. PICK n \in Nat : nextHash = 2 * n + 1
      BY DEF RecordInv
    <3>2. nextHash' = 2 * (n + 1) + 1
      BY <2>1, <3>1
    <3> QED
      BY <3>2
  <2>9. \A h \in Hash : lineage'[h] # None => \E k \in Nat : h = 2 * k + 1
    BY <2>7 DEF RecordInv
  <2>10. \A h \in Hash : lineage'[h] \in Hash => lineage'[h] < h
    BY <2>2, <2>7 DEF RecordInv
  <2>11. \A u \in Threads : Issues(u)' => lineage'[req'[u].refresh] = req'[u].cred
    <3>1. ASSUME NEW u \in Threads, u # t, Issues(u)
          PROVE  lineage'[req[u].refresh] = req[u].cred
      <4>1. req[u].refresh \in Hash /\ req[u].refresh + 1 < nextHash
        BY <1>0, <3>1 DEF LinkInv, HalfInv, Issues, TypeInv, PlaceOK
      <4> QED
        BY <2>7, <3>1, <4>1 DEF RecordInv, Hash
    <3> QED
      BY <2>1, <2>5, <2>7, <3>1 DEF Issues
  <2>12. \A g \in Hash : rotated'[g] # None => \E h \in Hash : lineage'[h] = g
    <3>1. lineage[r] = None
      BY <1>0, <1>1, <2>1 DEF KindInv
    <3> QED
      BY <1>1, <2>7, <3>1, DistinctAssumption DEF RecordInv
  <2>13. \A h \in Hash : tokens'[h] # None /\ tokens'[h].isRefresh => tokens'[h].exp <= now' + RefreshTTL
    BY <1>1, <2>3, <2>4, LifetimeAssumption DEF RecordInv
  <2>14. \A h \in delivered' : h < nextHash'
    BY <1>0, <1>1, <2>1 DEF RecordInv, TypeOK, Hash
  <2>15. RecordInv'
    BY <2>8, <2>9, <2>10, <2>11, <2>12, <2>13, <2>14 DEF RecordInv
  <2>16. Room' => Room
    BY <1>1, <2>1, LimitAssumption DEF Room
  <2>17. RememberedInv'
    BY <1>1, <2>3, <2>6, <2>7, <2>16 DEF RememberedInv
  <2> QED
    BY <2>15, <2>17
<1> QED
  BY <1>2, <1>3

\* An access token is no refresh token.
LEMMA PutAccessRecord ==
  ASSUME SingleUseInv, SingleUseInv', RecordInv, RememberedInv, NEW t \in Threads, PutAccess(t)
  PROVE  RecordInv' /\ RememberedInv'
<1>0. TypeInv /\ TypeInv' /\ TypeOK /\ TypeOK'
  BY DEF SingleUseInv, TypeInv
<1>1. UNCHANGED <<now, delivered, rotated, lineage, nextHash>>
  BY DEF PutAccess, histVars
<1>2. /\ req'[t] = req[t] /\ Issues(t)
      /\ \A u \in Threads : u # t => pc'[u] = pc[u] /\ req'[u] = req[u]
  <2>1. \E place : Goto(t, place, req[t])
    BY DEF PutAccess
  <2> QED
    BY <1>0, <2>1 DEF Goto, TypeOK, PutAccess, Issues
<1>3. \A h \in Hash : tokens'[h] = tokens[h] \/ ~tokens'[h].isRefresh
  <2> DEFINE new == [subject |-> req[t].subject, family |-> req[t].family,
                     isRefresh |-> FALSE, parent |-> req[t].refresh,
                     issued |-> {}, exp |-> req[t].at + AccessTTL]
  <2>1. tokens' = tokens \/ tokens' = [tokens EXCEPT ![req[t].refresh + 1] = new]
    BY DEF PutAccess
  <2>2. ~new.isRefresh
    OBVIOUS
  <2> HIDE DEF new
  <2> QED
    BY <1>0, <2>1, <2>2 DEF TypeOK
<1>4. \A u \in Threads : Issues(u)' => lineage'[req'[u].refresh] = req'[u].cred
  BY <1>1, <1>2 DEF RecordInv, Issues
<1>5. RecordInv'
  BY <1>1, <1>3, <1>4 DEF RecordInv
<1>6. RememberedInv'
  BY <1>1, <1>3 DEF RememberedInv, Room
<1> QED
  BY <1>5, <1>6

\* The pair is delivered, and a rotation is put on record before that.
LEMMA EndingRecord ==
  ASSUME SingleUseInv, SingleUseInv', LinkInv, RecordInv, RememberedInv, NEW t \in Threads,
         Undo(t) \/ MarkCodeUsed(t) \/ MarkRefreshRotated(t)
  PROVE  RecordInv' /\ RememberedInv'
<1>0. TypeInv /\ TypeInv' /\ TypeOK /\ TypeOK' /\ KindInv /\ SingleUse
  BY DEF SingleUseInv, TypeInv
<1> PICK r : r = req[t].refresh
  OBVIOUS
<1> PICK c : c = req[t].cred
  OBVIOUS
<1>1. /\ Finish(t) /\ Issues(t) /\ r \in Hash /\ r + 1 \in Hash /\ r + 1 < nextHash
      /\ lineage[r] = c /\ lineage[r + 1] = None
      /\ UNCHANGED <<now, lineage, nextHash>>
  BY <1>0 DEF Undo, MarkCodeUsed, MarkRefreshRotated, Issues, TypeInv, PlaceOK, LinkInv, HalfInv,
              RecordInv
<1>2. /\ pc'[t] = "idle"
      /\ \A u \in Threads : u # t => pc'[u] = pc[u] /\ req'[u] = req[u]
  BY <1>0, <1>1 DEF Finish, Goto, TypeOK
<1>3. \A u \in Threads : Issues(u)' => lineage'[req'[u].refresh] = req'[u].cred
  BY <1>1, <1>2 DEF RecordInv, Issues
<1>4. now \in Nat /\ nextHash \in Nat
  BY <1>0 DEF TypeOK
<1>5. Thins
  <2>1. CASE Undo(t)
    <3>1. /\ {r} \cap Present(tokens) \in SUBSET Hash
          /\ DeleteTokens({r} \cap Present(tokens)) /\ UNCHANGED nextHash
      BY <1>1, <2>1 DEF Undo
    <3> QED
      BY <1>0, <3>1, DeletionThins
  <2>2. CASE MarkCodeUsed(t) \/ MarkRefreshRotated(t)
    BY <2>2 DEF MarkCodeUsed, MarkRefreshRotated, Thins
  <2> QED
    BY <2>1, <2>2
<1>6. delivered' \subseteq delivered \cup {r, r + 1}
  BY DEF Undo, MarkCodeUsed, MarkRefreshRotated, Deliver
<1>7. \A h \in delivered' : h < nextHash'
  BY <1>0, <1>1, <1>4, <1>6 DEF RecordInv, Hash
<1>8. \A h \in Hash : tokens'[h] # None /\ tokens'[h].isRefresh => tokens'[h].exp <= now' + RefreshTTL
  BY <1>1, <1>5 DEF RecordInv, Thins
<1>9. \A h \in Hash : tokens'[h] # None /\ tokens'[h].isRefresh => h # r + 1
  BY <1>0, <1>1, <1>5 DEF Thins, KindInv
<1>10. ASSUME \A g \in Hash : rotated'[g] # None => \E h \in Hash : lineage[h] = g
       PROVE  RecordInv'
  BY <1>1, <1>3, <1>7, <1>8, <1>10 DEF RecordInv
<1>11. CASE Undo(t)
  <2>1. UNCHANGED <<rotated, delivered>>
    BY <1>11 DEF Undo
  <2> QED
    BY <1>1, <1>5, <1>10, <2>1 DEF RecordInv, RememberedInv, Room, Thins
<1>12. CASE MarkCodeUsed(t)
  <2>1. rotated' = rotated /\ c \in Codes
    BY <1>0, <1>12 DEF MarkCodeUsed, TypeInv, PlaceOK
  <2>2. lineage[r] \notin Hash
    BY <1>1, <2>1, DistinctAssumption
  <2>3. RecordInv'
    BY <1>10, <2>1 DEF RecordInv
  <2>4. RememberedInv'
    BY <1>1, <1>5, <1>6, <1>9, <2>1, <2>2 DEF RememberedInv, Room, Thins
  <2> QED
    BY <2>3, <2>4
<1>13. CASE MarkRefreshRotated(t)
  <2> DEFINE full == rotated[c] = None /\ Cardinality(Present(rotated)) >= TokenLimit
  <2> PICK record : record = [family |-> req[t].family, until |-> now + RefreshTTL]
    OBVIOUS
  <2>1. /\ c \in Hash
        /\ \/ ~full /\ rotated' = [rotated EXCEPT ![c] = record]
           \/ full /\ \E v \in Evictable : rotated' = [rotated EXCEPT ![v] = None, ![c] = record]
    BY <1>0, <1>13 DEF MarkRefreshRotated, TypeInv, PlaceOK
  <2>2. \A g \in Hash : rotated'[g] # None => g = c \/ rotated[g] # None
    BY <1>0, <2>1 DEF TypeOK
  <2>3. RecordInv'
    BY <1>1, <1>10, <2>2 DEF RecordInv
  <2>4. ASSUME Room
        PROVE  \A h \in Hash :
                 tokens'[h] # None /\ h \in delivered' /\ tokens'[h].isRefresh /\ lineage[h] \in Hash =>
                   /\ rotated'[lineage[h]] # None
                   /\ tokens'[h].exp <= rotated'[lineage[h]].until
    <3>1. ~full
      <4>1. CASE rotated[c] = None
        <5>1. Cardinality(Present(rotated)) < TokenLimit
          BY <1>1, <2>1, <2>4, <4>1, RecordFits
        <5>2. IsFiniteSet(Present(rotated))
          <6>1. IsFiniteSet(Hash)
            BY BoundAssumption, FS_Interval DEF Hash
          <6>2. Present(rotated) \in SUBSET Hash
            BY <1>0 DEF Present, TypeOK
          <6> QED
            BY <6>1, <6>2, FS_Subset
        <5>3. Cardinality(Present(rotated)) \in Nat
          BY <5>2, FS_CardinalityType
        <5> QED
          BY <5>1, <5>3, LimitAssumption
      <4> QED
        BY <4>1
    <3>2. rotated' = [rotated EXCEPT ![c] = record]
      BY <2>1, <3>1
    <3>3. record.until = now + RefreshTTL
      OBVIOUS
    <3>4. rotated'[c] = record /\ rotated'[c] # None
      <4>1. req[t].family \in Hash /\ record \in Rotated
        <5>1. req[t].family \in Hash
          BY <1>0, <1>13 DEF MarkRefreshRotated, TypeInv, PlaceOK
        <5> QED
          BY <1>4, <5>1, LifetimeAssumption DEF Rotated
      <4>2. record # None
        BY <4>1, DistinctAssumption
      <4> QED
        BY <1>0, <2>1, <3>2, <4>2 DEF TypeOK
    <3>5. \A g \in Hash : g # c => rotated'[g] = rotated[g]
      BY <1>0, <3>2 DEF TypeOK
    <3>6. ASSUME NEW h \in Hash, tokens'[h] # None, h \in delivered', tokens'[h].isRefresh,
                 lineage[h] \in Hash
          PROVE  rotated'[lineage[h]] # None /\ tokens'[h].exp <= rotated'[lineage[h]].until
      <4>1. CASE lineage[h] = c
        BY <1>1, <1>8, <3>3, <3>4, <3>6, <4>1
      <4>2. CASE lineage[h] # c
        <5>1. h \in delivered
          BY <1>1, <1>6, <1>9, <3>6, <4>2
        <5>2. tokens[h] # None /\ tokens[h].isRefresh /\ tokens'[h].exp = tokens[h].exp
          BY <1>5, <3>6 DEF Thins
        <5> QED
          BY <2>4, <3>5, <3>6, <4>2, <5>1, <5>2 DEF RememberedInv
      <4> QED
        BY <4>1, <4>2
    <3> QED
      BY <3>6
  <2>5. RememberedInv'
    BY <1>1, <2>4 DEF RememberedInv, Room
  <2> QED
    BY <2>3, <2>5
<1> QED
  BY <1>11, <1>12, <1>13

\* As long as no more rotations have happened than the store keeps records of,
\* nothing a client can still use was rotated from a token that is off record:
\* the sweeper, in particular, does not forget it too early. (Beyond that the
\* store discards the record that ends soonest, whatever its family does.)
THEOREM RotationRememberedUntilFull == Spec => [](Room => RotationRemembered)
<1>1. Init => RecordInv /\ RememberedInv
  <2> SUFFICES ASSUME Init
               PROVE  RecordInv /\ RememberedInv
    OBVIOUS
  <2>1. nextHash = 2 * 0 + 1
    BY DEF Init
  <2>2. \A h \in Hash : tokens[h] = None /\ lineage[h] = None /\ rotated[h] = None
    BY DEF Init
  <2>3. delivered = {} /\ \A t \in Threads : ~Issues(t)
    BY DEF Init, Issues
  <2>4. None \notin Hash
    BY DistinctAssumption
  <2> QED
    BY <2>1, <2>2, <2>3, <2>4 DEF RecordInv, RememberedInv
<1>2. SingleUseInv /\ SingleUseInv' /\ LinkInv /\ RecordInv /\ RememberedInv /\ [Next]_vars
        => RecordInv' /\ RememberedInv'
  <2> SUFFICES ASSUME SingleUseInv, SingleUseInv', LinkInv, RecordInv, RememberedInv, [Next]_vars
               PROVE  RecordInv' /\ RememberedInv'
    OBVIOUS
  <2>1. TypeInv /\ TypeInv'
    BY DEF SingleUseInv
  <2> QED
    BY <2>1, PutRefreshRecord, PutAccessRecord, EndingRecord, OthersRecord
<1>3. SingleUseInv /\ RememberedInv => (Room => RotationRemembered)
  BY DEF SingleUseInv, TypeInv, TypeOK, RememberedInv, RotationRemembered, Present
<1> QED
  BY <1>1, <1>2, <1>3, SingleUseInvCorrect, LinkInvCorrect, PTL DEF Spec

(***************************************************************************)
(* A replay, while one handler runs at a time                              *)
(***************************************************************************)

\* The families on record, about to be put on record and about to be deleted
\* are families that have been begun; so are those deleted.
FamilyInv ==
  /\ \A c \in Present(usedCodes) : usedCodes[c].family < nextHash
  /\ \A h \in Present(rotated) : rotated[h].family < nextHash
  /\ \A t \in Threads : pc[t] \in {"mark_code", "mark_refresh", "delete_family"} =>
       req[t].family < nextHash
  /\ \A f \in killed : f < nextHash

\* Records are made of families already begun, and only then.
LEMMA FamilyStep ==
  ASSUME TypeInv, TypeInv', HandInv, FamilyInv, [Next]_vars
  PROVE  FamilyInv'
<1> USE DEF histVars, storeVars
<1>0. TypeOK /\ TypeOK'
  BY DEF TypeInv
<1>1. /\ Present(usedCodes) = {c \in Codes : usedCodes[c] # None}
      /\ Present(usedCodes)' = {c \in Codes : usedCodes'[c] # None}
      /\ Present(rotated) = {h \in Hash : rotated[h] # None}
      /\ Present(rotated)' = {h \in Hash : rotated'[h] # None}
      /\ Present(tokens) = {h \in Hash : tokens[h] # None}
  BY <1>0 DEF Present, TypeOK
\* A step that makes no record and sends nobody to make or use one.
<1> DEFINE Recorded(t) == pc[t] \in {"mark_code", "mark_refresh", "delete_family"}
           Plain ==
             /\ \A c \in Codes : usedCodes'[c] = None \/ usedCodes'[c] = usedCodes[c]
             /\ \A h \in Hash : rotated'[h] = None \/ rotated'[h] = rotated[h]
             /\ nextHash \in Nat /\ nextHash' \in Nat /\ nextHash <= nextHash'
             /\ killed' = killed
           Still(t) == Recorded(t)' => Recorded(t) /\ req'[t].family = req[t].family
<1>2. ASSUME Plain, \A t \in Threads : Recorded(t)' => req'[t].family < nextHash
      PROVE  FamilyInv'
  <2>1. \A c \in Present(usedCodes)' : usedCodes'[c].family < nextHash'
    <3> SUFFICES ASSUME NEW c \in Present(usedCodes)' PROVE usedCodes'[c].family < nextHash'
      OBVIOUS
    <3>1. c \in Present(usedCodes) /\ usedCodes'[c] = usedCodes[c]
      BY <1>1, <1>2
    <3>2. usedCodes[c].family \in Nat
      BY <1>0, <1>1, <3>1 DEF TypeOK, UsedCode, Hash
    <3> QED
      BY <1>2, <3>1, <3>2 DEF FamilyInv
  <2>2. \A h \in Present(rotated)' : rotated'[h].family < nextHash'
    <3> SUFFICES ASSUME NEW h \in Present(rotated)' PROVE rotated'[h].family < nextHash'
      OBVIOUS
    <3>1. h \in Present(rotated) /\ rotated'[h] = rotated[h]
      BY <1>1, <1>2
    <3>2. rotated[h].family \in Nat
      BY <1>0, <1>1, <3>1 DEF TypeOK, Rotated, Hash
    <3> QED
      BY <1>2, <3>1, <3>2 DEF FamilyInv
  <2>3. ASSUME NEW t \in Threads, Recorded(t)' PROVE req'[t].family < nextHash'
    <3>1. req'[t].family < nextHash
      BY <1>2, <2>3
    <3>2. req'[t].family \in Nat
      BY <1>0, <2>3 DEF TypeInv, PlaceOK, Hash
    <3> QED
      BY <1>2, <3>1, <3>2
  <2>4. \A f \in killed' : f < nextHash'
    BY <1>0, <1>2 DEF FamilyInv, TypeOK, Hash
  <2> QED
    BY <2>1, <2>2, <2>3, <2>4 DEF FamilyInv
<1>3. \A t \in Threads : Recorded(t) => req[t].family < nextHash
  BY DEF FamilyInv
<1>4. ASSUME NEW t \in Threads, NEW place, NEW r, Goto(t, place, r)
      PROVE  /\ pc'[t] = place /\ req'[t] = r
             /\ \A u \in Threads : u # t => pc'[u] = pc[u] /\ req'[u] = req[u]
  BY <1>0, <1>4 DEF Goto, TypeOK
<1>5. ASSUME NEW t \in Threads, NEW c \in Codes, ReplayCode(t, c)
      PROVE  FamilyInv'
  <2>1. c \in Present(usedCodes)
    BY <1>1, <1>5 DEF ReplayCode
  <2>2. Plain
    BY <1>0, <1>5 DEF ReplayCode, TypeOK
  <2>3. usedCodes[c].family < nextHash
    BY <2>1 DEF FamilyInv
  <2>4. req'[t].family = usedCodes[c].family
    BY <1>4, <1>5 DEF ReplayCode, NoRequest
  <2>5. \A u \in Threads : u # t => pc'[u] = pc[u] /\ req'[u] = req[u]
    BY <1>4, <1>5 DEF ReplayCode
  <2> QED
    BY <1>2, <1>3, <2>2, <2>3, <2>4, <2>5
<1>6. ASSUME NEW t \in Threads, NEW h \in Hash, ReplayRefresh(t, h)
      PROVE  FamilyInv'
  <2>1. h \in Present(rotated)
    BY <1>1, <1>6 DEF ReplayRefresh
  <2>2. Plain
    BY <1>0, <1>6 DEF ReplayRefresh, TypeOK
  <2>3. rotated[h].family < nextHash
    BY <2>1 DEF FamilyInv
  <2>4. req'[t].family = rotated[h].family
    BY <1>4, <1>6 DEF ReplayRefresh, NoRequest
  <2>5. \A u \in Threads : u # t => pc'[u] = pc[u] /\ req'[u] = req[u]
    BY <1>4, <1>6 DEF ReplayRefresh
  <2> QED
    BY <1>2, <1>3, <2>2, <2>3, <2>4, <2>5
<1>7. ASSUME NEW t \in Threads, NEW r, NEW place, Goto(t, place, r), Plain,
             place \notin {"mark_code", "mark_refresh", "delete_family"}
      PROVE  FamilyInv'
  BY <1>2, <1>3, <1>4, <1>7
<1>8. ASSUME Plain, UNCHANGED <<pc, req>>
      PROVE  FamilyInv'
  BY <1>2, <1>3, <1>8
<1>9. ASSUME NEW t \in Threads, Arrive(t)
      PROVE  FamilyInv'
  <2>1. ASSUME NEW s \in Subjects, NEW c \in Codes, SignIn(t, s, c) PROVE FamilyInv'
    BY <1>0, <1>7, <2>1 DEF SignIn, TypeOK
  <2>2. ASSUME NEW c \in Codes, NEW m \in BOOLEAN, TakeCode(t, c, m) PROVE FamilyInv'
    <3>1. UNCHANGED <<pc, req>> \/ \E r : Goto(t, "put_refresh", r)
      BY <2>2 DEF TakeCode
    <3>2. Plain
      BY <1>0, <2>2 DEF TakeCode, TypeOK
    <3> QED
      BY <1>7, <1>8, <3>1, <3>2
  <2>3. ASSUME NEW h \in Hash, NEW m \in BOOLEAN, TakeToken(t, h, m) PROVE FamilyInv'
    <3>1. UNCHANGED <<pc, req>> \/ \E r : Goto(t, "check_subject", r)
      BY <2>3 DEF TakeToken
    <3>2. Plain
      BY <1>0, <2>3 DEF TakeToken, TypeOK
    <3> QED
      BY <1>7, <1>8, <3>1, <3>2
  <2>4. ASSUME NEW h \in Hash, Validate(t, h) PROVE FamilyInv'
    BY <1>0, <1>7, <2>4 DEF Validate, TypeOK
  <2> QED
    BY <1>5, <1>6, <1>9, <2>1, <2>2, <2>3, <2>4 DEF Arrive
<1>10. ASSUME NEW t \in Threads, Continue(t)
       PROVE  FamilyInv'
  <2>1. ASSUME PutCode(t) PROVE FamilyInv'
    BY <1>0, <1>7, <2>1 DEF PutCode, Finish, TypeOK
  <2>2. ASSUME CheckSubject(t) PROVE FamilyInv'
    BY <1>0, <1>7, <2>2 DEF CheckSubject, TypeOK
  <2>3. ASSUME RevokeFamily(t) PROVE FamilyInv'
    <3>1. req[t].family < nextHash /\ killed' = killed \cup {req[t].family}
      BY <1>3, <2>3 DEF RevokeFamily
    <3>2. /\ UNCHANGED <<usedCodes, rotated, nextHash>>
          /\ pc'[t] = "idle"
          /\ \A u \in Threads : u # t => pc'[u] = pc[u] /\ req'[u] = req[u]
      BY <1>4, <2>3 DEF RevokeFamily, Finish
    <3> QED
      BY <3>1, <3>2 DEF FamilyInv
  <2>4. ASSUME RevokeSubject(t) \/ Undo(t) PROVE FamilyInv'
    BY <1>0, <1>7, <2>4 DEF RevokeSubject, Undo, Finish, TypeOK
  <2>5. ASSUME PutRefresh(t) PROVE FamilyInv'
    <3>1. \E place, r : Goto(t, place, r) /\ place \in {"idle", "put_access"}
      BY <2>5 DEF PutRefresh, Finish
    <3>2. nextHash \in Nat /\ nextHash' \in Nat /\ nextHash <= nextHash'
      BY <1>0, <2>5 DEF PutRefresh, TypeOK
    <3>3. Plain
      BY <2>5, <3>2 DEF PutRefresh
    <3> QED
      BY <1>7, <3>1, <3>3
  <2>6. ASSUME PutAccess(t) PROVE FamilyInv'
    <3>1. req'[t] = req[t] /\ \A u \in Threads : u # t => pc'[u] = pc[u] /\ req'[u] = req[u]
      <4>1. \E place : Goto(t, place, req[t])
        BY <2>6 DEF PutAccess
      <4> QED
        BY <1>4, <4>1
    <3>2. req[t].family < nextHash
      BY <2>6 DEF PutAccess, HandInv
    <3>3. Plain
      BY <1>0, <2>6 DEF PutAccess, TypeOK
    <3> QED
      BY <1>2, <1>3, <3>1, <3>2, <3>3
  <2>7. ASSUME MarkCodeUsed(t) \/ MarkRefreshRotated(t) PROVE FamilyInv'
    <3>1. Recorded(t) /\ Finish(t) /\ UNCHANGED <<nextHash, killed>>
      BY <2>7 DEF MarkCodeUsed, MarkRefreshRotated
    <3>2. /\ pc'[t] = "idle"
          /\ \A u \in Threads : u # t => pc'[u] = pc[u] /\ req'[u] = req[u]
      BY <1>4, <3>1 DEF Finish
    <3>3. req[t].family < nextHash
      BY <1>3, <3>1
    <3>4. \A c \in Codes : \/ usedCodes'[c] = usedCodes[c]
                           \/ usedCodes'[c].family = req[t].family
      BY <1>0, <2>7 DEF MarkCodeUsed, MarkRefreshRotated, TypeOK
    <3>5. \A h \in Hash : \/ rotated'[h] \in {rotated[h], None}
                          \/ rotated'[h].family = req[t].family
      <4>1. CASE MarkCodeUsed(t)
        BY <4>1 DEF MarkCodeUsed
      <4>2. CASE MarkRefreshRotated(t)
        <5>1. \E v, record : /\ record.family = req[t].family
                             /\ \/ rotated' = [rotated EXCEPT ![v] = None, ![req[t].cred] = record]
                                \/ rotated' = [rotated EXCEPT ![req[t].cred] = record]
          <6> DEFINE record == [family |-> req[t].family, until |-> now + RefreshTTL]
          <6>1. record.family = req[t].family
            OBVIOUS
          <6>2. \E v : \/ rotated' = [rotated EXCEPT ![v] = None, ![req[t].cred] = record]
                       \/ rotated' = [rotated EXCEPT ![req[t].cred] = record]
            BY <4>2 DEF MarkRefreshRotated
          <6> QED
            BY <6>1, <6>2
        <5> QED
          BY <1>0, <5>1 DEF TypeOK
      <4> QED
        BY <2>7, <4>1, <4>2
    <3>6. \A c \in Present(usedCodes)' : usedCodes'[c].family < nextHash'
      BY <1>1, <3>1, <3>3, <3>4 DEF FamilyInv
    <3>7. \A h \in Present(rotated)' : rotated'[h].family < nextHash'
      BY <1>1, <3>1, <3>3, <3>5 DEF FamilyInv
    <3> QED
      BY <1>3, <3>1, <3>2, <3>6, <3>7 DEF FamilyInv
  <2> QED
    BY <1>10, <2>1, <2>2, <2>3, <2>4, <2>5, <2>6, <2>7 DEF Continue
<1>11. ASSUME Sweep PROVE FamilyInv'
  BY <1>0, <1>8, <1>11 DEF Sweep, TypeOK
<1>12. ASSUME \/ \E h \in Hash : Revoke(h)
              \/ \E s \in Subjects : Disable(s) \/ Enable(s) \/ RunHook(s)
              \/ Tick
              \/ UNCHANGED vars
       PROVE  FamilyInv'
  <2>1. UNCHANGED <<pc, req, usedCodes, rotated, nextHash, killed>>
    BY <1>12 DEF Revoke, Disable, Enable, RunHook, Tick, vars
  <2> QED
    BY <1>0, <1>8, <2>1 DEF TypeOK
<1> QED
  BY <1>9, <1>10, <1>11, <1>12 DEF Next

\* Some handler has family f in its hands, between the taking of one credential
\* and the storing of the next.
InHand(f) == \E t \in Threads : (Carries(t) \/ pc[t] = "put_access") /\ req[t].family = f

\* Of family f nothing is left, in the store or in a handler's hands.
Gone(f) == ~InHand(f) /\ \A h \in Present(tokens) : tokens[h].family # f

\* What a step may never do to the families that replays delete: bring one of
\* them back once it is gone, nor leave one there that no handler holds.
DeletedStaysGone ==
  [][/\ \A f \in killed : Gone(f) => Gone(f)'
     /\ \A t \in Threads : \A f \in {req[t].family} :
          RevokeFamily(t) /\ ~InHand(f) => Gone(f)']_vars

\* A step that brings no token and no holder keeps a family gone.
LEMMA GoneKept ==
  ASSUME TypeOK, TypeOK', NEW f, Gone(f), Thins, NoNewHolder
  PROVE  Gone(f)'
<1>1. /\ Present(tokens) = {h \in Hash : tokens[h] # None}
      /\ Present(tokens)' = {h \in Hash : tokens'[h] # None}
  BY DEF Present, TypeOK
<1> QED
  BY <1>1 DEF Gone, InHand, Thins, NoNewHolder

\* A family that is gone stays gone: a handler takes up a family only from a
\* token of it, and a new family is none that was there before.
LEMMA GoneStep ==
  ASSUME TypeInv, TypeInv', FamilyInv, [Next]_vars, NEW f \in killed, Gone(f)
  PROVE  Gone(f)'
<1> USE DEF histVars, storeVars
<1>0. TypeOK /\ TypeOK'
  BY DEF TypeInv
<1>1. /\ Present(tokens) = {h \in Hash : tokens[h] # None}
      /\ Present(tokens)' = {h \in Hash : tokens'[h] # None}
  BY <1>0 DEF Present, TypeOK
<1>2. f # nextHash
  BY <1>0 DEF FamilyInv, TypeOK
<1>3. ASSUME NEW t \in Threads, NEW h \in Hash, NEW m \in BOOLEAN, TakeToken(t, h, m)
      PROVE  Gone(f)'
  <2>1. tokens[h] # None /\ DeleteTokens({h}) /\ nextHash' = nextHash /\ {h} \in SUBSET Hash
    BY <1>3 DEF TakeToken
  <2>2. Thins
    BY <1>0, <2>1, DeletionThins
  <2>3. tokens[h].family # f
    BY <1>1, <2>1 DEF Gone
  <2>4. \/ UNCHANGED <<pc, req>>
        \/ /\ pc'[t] = "check_subject" /\ req'[t].family = tokens[h].family
           /\ \A u \in Threads : u # t => pc'[u] = pc[u] /\ req'[u] = req[u]
    <3> DEFINE r == [NoRequest EXCEPT !.cred = h, !.subject = tokens[h].subject,
                                      !.family = tokens[h].family]
    <3>1. r.family = tokens[h].family
      BY DEF NoRequest
    <3>2. UNCHANGED <<pc, req>> \/ Goto(t, "check_subject", r)
      BY <1>3 DEF TakeToken
    <3> HIDE DEF r
    <3> QED
      BY <1>0, <3>1, <3>2 DEF Goto, TypeOK
  <2>5. CASE UNCHANGED <<pc, req>>
    BY <1>0, <2>2, <2>5, StayHolds, GoneKept
  <2>6. CASE /\ pc'[t] = "check_subject" /\ req'[t].family = tokens[h].family
             /\ \A u \in Threads : u # t => pc'[u] = pc[u] /\ req'[u] = req[u]
    <3>1. \A g \in Present(tokens)' : tokens'[g].family # f
      BY <1>1, <2>2 DEF Thins, Gone
    <3>2. ~InHand(f)'
      BY <2>3, <2>6 DEF Gone, InHand, Carries
    <3> QED
      BY <3>1, <3>2 DEF Gone
  <2> QED
    BY <2>4, <2>5, <2>6
<1>4. ASSUME NEW t \in Threads, CheckSubject(t)
      PROVE  Gone(f)'
  <2>1. UNCHANGED <<tokens, nextHash>> /\ pc[t] = "check_subject"
    BY <1>4 DEF CheckSubject
  <2>2. NoNewHolder
    <3>1. CASE Goto(t, "put_refresh", req[t])
      <4>1. /\ pc'[t] = "put_refresh" /\ req'[t] = req[t]
            /\ \A u \in Threads : u # t => pc'[u] = pc[u] /\ req'[u] = req[u]
        BY <1>0, <3>1 DEF Goto, TypeOK
      <4> QED
        BY <2>1, <4>1 DEF NoNewHolder, Carries
    <3>2. CASE ~Goto(t, "put_refresh", req[t])
      BY <1>0, <1>4, <3>2, GotoHolds DEF CheckSubject
    <3> QED
      BY <3>1, <3>2
  <2> QED
    BY <1>0, <2>1, <2>2, GoneKept DEF Thins
<1>5. ASSUME NEW t \in Threads, PutRefresh(t)
      PROVE  Gone(f)'
  <2>1. CASE TokensFull
    <3>1. Finish(t) /\ UNCHANGED <<tokens, nextHash>>
      BY <1>5, <2>1 DEF PutRefresh
    <3>2. NoNewHolder
      BY <1>0, <3>1, GotoHolds DEF Finish
    <3> QED
      BY <1>0, <3>1, <3>2, GoneKept DEF Thins
  <2>2. CASE ~TokensFull
    <3> PICK g : g = IF req[t].family = None THEN nextHash ELSE req[t].family
      OBVIOUS
    <3>1. g # f
      BY <1>2, <1>5 DEF PutRefresh, Gone, InHand, Carries
    <3>2. /\ \E new : new.family = g /\ tokens' = [tokens EXCEPT ![nextHash] = new]
          /\ \E r : Goto(t, "put_access", [req[t] EXCEPT !.family = g, !.refresh = r, !.at = now])
      <4>1. \E r : Goto(t, "put_access", [req[t] EXCEPT !.family = g, !.refresh = r, !.at = now])
        BY <1>5, <2>2 DEF PutRefresh
      <4> DEFINE new == [subject |-> req[t].subject, family |-> g,
                         isRefresh |-> TRUE, parent |-> None,
                         issued |-> {nextHash + 1}, exp |-> now + RefreshTTL]
      <4>2. tokens' = [tokens EXCEPT ![nextHash] = new]
        BY <1>5, <2>2 DEF PutRefresh
      <4>3. new.family = g
        OBVIOUS
      <4> HIDE DEF new
      <4> QED
        BY <4>1, <4>2, <4>3
    <3>3. /\ req'[t].family = g
          /\ \A u \in Threads : u # t => pc'[u] = pc[u] /\ req'[u] = req[u]
      BY <1>0, <3>2 DEF Goto, TypeOK, Request
    <3>4. \A h \in Hash : tokens'[h] = tokens[h] \/ tokens'[h].family = g
      BY <1>0, <3>2 DEF TypeOK
    <3>5. \A h \in Present(tokens)' : tokens'[h].family # f
      BY <1>1, <3>1, <3>4 DEF Gone
    <3>6. ~InHand(f)'
      BY <3>1, <3>3 DEF Gone, InHand, Carries
    <3> QED
      BY <3>5, <3>6 DEF Gone
  <2> QED
    BY <2>1, <2>2
<1>6. ASSUME NEW t \in Threads, PutAccess(t)
      PROVE  Gone(f)'
  <2>1. req[t].family # f
    BY <1>6 DEF PutAccess, Gone, InHand
  <2>2. \E place : Goto(t, place, req[t]) /\ place \in {"undo", "mark_code", "mark_refresh"}
    BY <1>6 DEF PutAccess
  <2>3. \A h \in Hash : tokens'[h] = tokens[h] \/ tokens'[h].family = req[t].family
    BY <1>0, <1>6 DEF PutAccess, TypeOK
  <2>4. \A h \in Present(tokens)' : tokens'[h].family # f
    BY <1>1, <2>1, <2>3 DEF Gone
  <2>5. NoNewHolder
    BY <1>0, <2>2, GotoHolds
  <2> QED
    BY <2>4, <2>5 DEF Gone, InHand, NoNewHolder
<1>7. ASSUME ~\E t \in Threads : \/ \E h \in Hash, m \in BOOLEAN : TakeToken(t, h, m)
                                 \/ CheckSubject(t) \/ PutRefresh(t) \/ PutAccess(t)
      PROVE  Gone(f)'
  BY <1>0, <1>7, OthersThin, GoneKept
<1> QED
  BY <1>3, <1>4, <1>5, <1>6, <1>7

\* The deletion itself leaves nothing of a family that no handler holds.
LEMMA RevokeFamilyEmpties ==
  ASSUME TypeOK, TypeOK', NEW t \in Threads, NEW f \in {req[t].family},
         RevokeFamily(t), ~InHand(f)
  PROVE  Gone(f)'
<1>1. DeleteFamily(f) /\ Finish(t)
  BY DEF RevokeFamily
<1>2. Present(tokens)' = {h \in Hash : tokens'[h] # None}
  BY DEF Present, TypeOK
<1>3. \A h \in Hash : tokens'[h] # None => tokens'[h].family # f
  BY <1>1 DEF DeleteFamily
<1>4. NoNewHolder
  BY <1>1, GotoHolds DEF Finish
<1> QED
  BY <1>2, <1>3, <1>4 DEF Gone, InHand, NoNewHolder

\* However many handlers race, a family that a replay has had deleted
\* (token.go:207-211, 326-335) is back in the store only if a handler had it in
\* its hands when it was deleted: if none had, the deletion leaves nothing of
\* it, and what is gone is never brought back.
THEOREM DeletedStaysGoneCorrect == Spec => DeletedStaysGone
<1>1. Init => FamilyInv
  BY DEF Init, FamilyInv, Present
<1>2. SingleUseInv /\ SingleUseInv' /\ HandInv /\ FamilyInv /\ [Next]_vars => FamilyInv'
  BY FamilyStep DEF SingleUseInv
<1>3. SingleUseInv /\ SingleUseInv' /\ FamilyInv /\ [Next]_vars
        => [/\ \A f \in killed : Gone(f) => Gone(f)'
            /\ \A t \in Threads : \A f \in {req[t].family} :
                 RevokeFamily(t) /\ ~InHand(f) => Gone(f)']_vars
  BY GoneStep, RevokeFamilyEmpties DEF SingleUseInv, TypeInv
<1> QED
  BY <1>1, <1>2, <1>3, SingleUseInvCorrect, HandInvCorrect, PTL DEF Spec, DeletedStaysGone

=============================================================================

-------------------- MODULE OAuthTokensRefinement_proofs --------------------
(***************************************************************************)
(* The token endpoint implements CredentialChain, for any number of        *)
(* handlers, accounts, codes and tokens: every step of a handler, of the   *)
(* sweeper or of an account is one step of the chain or none.              *)
(***************************************************************************)
EXTENDS OAuthTokensRefinement, OAuthTokens_proofs

\* What the stage of a credential is made of.
Unborn(c) ==
  \/ c \in Codes /\ (c \notin minted
                     \/ \E t \in Threads : pc[t] = "put_code" /\ req[t].cred = c)
  \/ c \in Hash /\ lineage[c] = None
Stored(c) ==
  \/ c \in Codes /\ codes[c] # None
  \/ c \in Hash /\ tokens[c] # None
Held(c) == \E t \in Threads : Holds(t, c)

LEMMA StageIs ==
  ASSUME NEW c \in Cred
  PROVE  StageOf(c) = IF Unborn(c) THEN "unborn"
                      ELSE IF Stored(c) THEN "live"
                      ELSE IF Held(c) THEN "held" ELSE "gone"
<1>1. Unborn(c) => StageOf(c) = "unborn"
  BY DEF StageOf, Unborn
<1>2. ~Unborn(c) => StageOf(c) = IF Stored(c) THEN "live"
                                ELSE IF Held(c) THEN "held" ELSE "gone"
  BY DEF StageOf, Unborn, Stored, Held
<1> QED
  BY <1>1, <1>2

LEMMA StageIsNext ==
  ASSUME NEW c \in Cred
  PROVE  StageOf(c)' = IF Unborn(c)' THEN "unborn"
                       ELSE IF Stored(c)' THEN "live"
                       ELSE IF Held(c)' THEN "held" ELSE "gone"
<1>1. Unborn(c)' => StageOf(c)' = "unborn"
  BY DEF StageOf, Unborn
<1>2. ~Unborn(c)' => StageOf(c)' = IF Stored(c)' THEN "live"
                                  ELSE IF Held(c)' THEN "held" ELSE "gone"
  BY DEF StageOf, Unborn, Stored, Held
<1> QED
  BY <1>1, <1>2

(***************************************************************************)
(* Steps of the chain                                                      *)
(***************************************************************************)

\* A step that leaves every stage alone is a stutter.
LEMMA ChainStutters ==
  ASSUME \A c \in Cred : StageOf(c)' = StageOf(c), UNCHANGED lineage
  PROVE  UNCHANGED Chain!chainVars
BY DEF Chain!chainVars

\* A step in which only the stored go is a withdrawal.
LEMMA ChainWithdraws ==
  ASSUME \A c \in Cred : \/ StageOf(c)' = StageOf(c)
                         \/ StageOf(c) = "live" /\ StageOf(c)' = "gone",
         UNCHANGED lineage
  PROVE  Chain!ChainNext
<1> DEFINE C == {c \in Cred : StageOf(c)' # StageOf(c)}
<1>1. \A c \in C : StageOf(c) = "live" /\ StageOf(c)' = "gone"
  OBVIOUS
<1>2. Chain!Withdraw(C)
  BY <1>1 DEF Chain!Withdraw
<1> QED
  BY <1>2 DEF Chain!ChainNext

\* A step that moves one credential.
LEMMA ChainMoves ==
  ASSUME NEW c \in Cred, NEW to, StageOf(c)' = to,
         \A d \in Cred : d # c => StageOf(d)' = StageOf(d),
         UNCHANGED lineage,
         \/ c \in Codes /\ StageOf(c) = "unborn" /\ to \in {"live", "gone"}
         \/ StageOf(c) = "live" /\ to = "held"
         \/ StageOf(c) = "held" /\ to = "gone"
  PROVE  Chain!ChainNext
<1>1. [d \in Cred |-> StageOf(d)]' = [[d \in Cred |-> StageOf(d)] EXCEPT ![c] = to]
  OBVIOUS
<1>2. CASE c \in Codes /\ StageOf(c) = "unborn" /\ to = "live"
  <2>1. Chain!Grant(c)
    BY <1>1, <1>2 DEF Chain!Grant
  <2> QED
    BY <1>2, <2>1 DEF Chain!ChainNext
<1>3. CASE c \in Codes /\ StageOf(c) = "unborn" /\ to = "gone"
  <2>1. Chain!Discard(c)
    BY <1>1, <1>3 DEF Chain!Discard
  <2> QED
    BY <1>3, <2>1 DEF Chain!ChainNext
<1>4. CASE StageOf(c) = "live" /\ to = "held"
  <2>1. Chain!Take(c)
    BY <1>1, <1>4 DEF Chain!Take
  <2> QED
    BY <2>1 DEF Chain!ChainNext
<1>5. CASE StageOf(c) = "held" /\ to = "gone"
  <2>1. Chain!Fail(c)
    BY <1>1, <1>5 DEF Chain!Fail
  <2> QED
    BY <2>1 DEF Chain!ChainNext
<1> QED
  BY <1>2, <1>3, <1>4, <1>5

\* A step that exchanges one for another.
LEMMA ChainExchanges ==
  ASSUME NEW c \in Cred, NEW r \in Hash, r \notin Codes, c # r,
         StageOf(c) = "held", StageOf(c)' = "gone",
         StageOf(r) = "unborn", StageOf(r)' = "live",
         \A d \in Cred : d # c /\ d # r => StageOf(d)' = StageOf(d),
         \A h \in Hash : lineage'[h] = IF h = r THEN c ELSE lineage[h]
  PROVE  Chain!ChainNext
<1>1. r \in Cred \ Codes
  BY DEF Cred
<1>2. [d \in Cred |-> StageOf(d)]' =
        [[d \in Cred |-> StageOf(d)] EXCEPT ![c] = "gone", ![r] = "live"]
  BY <1>1
<1>3. [d \in Cred |-> IF d \in Hash THEN lineage[d] ELSE None]' =
        [[d \in Cred |-> IF d \in Hash THEN lineage[d] ELSE None] EXCEPT ![r] = c]
  BY <1>1
<1>4. Chain!Exchange(c, r)
  BY <1>1, <1>2, <1>3 DEF Chain!Exchange
<1> QED
  BY <1>1, <1>4 DEF Chain!ChainNext

(***************************************************************************)
(* What handlers hold                                                      *)
(***************************************************************************)

\* A handler between places where nothing is owned changes no claim.
SameClaims(c) ==
  /\ Held(c)' <=> Held(c)
  /\ (\E t \in Threads : pc'[t] = "put_code" /\ req'[t].cred = c)
       <=> (\E t \in Threads : pc[t] = "put_code" /\ req[t].cred = c)

LEMMA StayClaims ==
  ASSUME NEW c, UNCHANGED <<pc, req>>
  PROVE  SameClaims(c)
BY DEF SameClaims, Held, Holds

LEMMA GotoClaims ==
  ASSUME TypeInv, NEW t \in Threads, NEW place, NEW r, Goto(t, place, r), NEW c,
         Owns(t) => req[t].cred # c,
         place \in {"put_code", "check_subject", "put_refresh"} => r.cred # c
  PROVE  SameClaims(c)
<1>1. /\ pc'[t] = place /\ req'[t] = r
      /\ \A u \in Threads : u # t => pc'[u] = pc[u] /\ req'[u] = req[u]
  BY DEF Goto, TypeInv, TypeOK
<1>2. \A u \in Threads : Holds(u, c)' <=> Holds(u, c)
  BY <1>1 DEF Holds, Owns
<1>3. \A u \in Threads : pc'[u] = "put_code" /\ req'[u].cred = c
                           <=> pc[u] = "put_code" /\ req[u].cred = c
  BY <1>1 DEF Owns
<1> QED
  BY <1>2, <1>3 DEF SameClaims, Held

\* A credential in the store is in nobody's hands.
LEMMA StoredIsFree ==
  ASSUME OwnInv, NEW c \in Cred, Stored(c)
  PROVE  ~Held(c) /\ ~\E t \in Threads : Owns(t) /\ req[t].cred = c
BY DEF OwnInv, Stored, Held, Holds, Owns

\* A credential whose claims do not change, and that is not put into a store,
\* keeps its stage or is withdrawn.
LEMMA ThinnedStage ==
  ASSUME OwnInv, NEW c \in Cred, SameClaims(c), UNCHANGED lineage,
         c \in Codes => (c \in minted' <=> c \in minted),
         Stored(c)' => Stored(c)
  PROVE  \/ StageOf(c)' = StageOf(c)
         \/ StageOf(c) = "live" /\ StageOf(c)' = "gone"
<1>1. Unborn(c)' <=> Unborn(c)
  BY DEF Unborn, SameClaims
<1>2. Held(c)' <=> Held(c)
  BY DEF SameClaims
<1>3. Stored(c) => ~Held(c)
  BY StoredIsFree
<1> QED
  BY <1>1, <1>2, <1>3, StageIs, StageIsNext

\* So does one that is kept as it is.
LEMMA SameStage ==
  ASSUME NEW c \in Cred, SameClaims(c),
         c \in Hash => lineage'[c] = lineage[c],
         c \in Codes => (c \in minted' <=> c \in minted),
         Unborn(c) \/ (Stored(c)' <=> Stored(c))
  PROVE  StageOf(c)' = StageOf(c)
<1>1. Unborn(c)' <=> Unborn(c)
  BY DEF Unborn, SameClaims
<1>2. Held(c)' <=> Held(c)
  BY DEF SameClaims
<1> QED
  BY <1>1, <1>2, StageIs, StageIsNext

(***************************************************************************)
(* The actions                                                             *)
(***************************************************************************)

\* A step that only empties stores, and after which the handlers own what
\* they did, withdraws what it deletes.
LEMMA ThinningRefines ==
  ASSUME OwnInv, Shrinks, \A c \in Cred : SameClaims(c)
  PROVE  Chain!ChainNext
<1>1. \A c \in Cred : Stored(c)' => Stored(c)
  BY DEF Stored, Shrinks
<1>2. ASSUME NEW c \in Cred
      PROVE  \/ StageOf(c)' = StageOf(c)
             \/ StageOf(c) = "live" /\ StageOf(c)' = "gone"
  BY <1>1, <1>2, ThinnedStage DEF Shrinks
<1> QED
  BY <1>2, ChainWithdraws DEF Shrinks

\* A code that a sign-in has generated is not yet born.
LEMMA SignInRefines ==
  ASSUME SingleUseInv, NEW t \in Threads, NEW s \in Subjects, NEW c \in Codes,
         SignIn(t, s, c)
  PROVE  UNCHANGED Chain!chainVars
<1> DEFINE r == [NoRequest EXCEPT !.cred = c, !.subject = s]
<1>1. /\ c \notin minted /\ minted' = minted \cup {c} /\ pc[t] = "idle"
      /\ Goto(t, "put_code", r)
      /\ UNCHANGED <<tokens, codes, lineage>>
  BY DEF SignIn, storeVars, histVars
<1>2. r.cred = c
  BY DEF NoRequest
<1> HIDE DEF r
<1>3. ASSUME NEW d \in Cred
      PROVE  StageOf(d)' = StageOf(d)
  <2>1. CASE d = c
    <3>1. Unborn(d)
      BY <1>1, <2>1 DEF Unborn
    <3>2. pc'[t] = "put_code" /\ req'[t].cred = c
      BY <1>1, <1>2 DEF Goto, SingleUseInv, TypeInv, TypeOK
    <3>3. Unborn(d)'
      BY <2>1, <3>2 DEF Unborn
    <3> QED
      BY <3>1, <3>3, StageIs, StageIsNext
  <2>2. CASE d # c
    <3>1. SameClaims(d)
      BY <1>1, <1>2, <2>2, GotoClaims DEF SingleUseInv, Owns
    <3> QED
      BY <1>1, <2>2, <3>1, SameStage DEF Stored
  <2> QED
    BY <2>1, <2>2
<1> QED
  BY <1>1, <1>3, ChainStutters

\* It is born when it is stored, or gone when there is no room.
LEMMA PutCodeRefines ==
  ASSUME SingleUseInv, NEW t \in Threads, PutCode(t)
  PROVE  Chain!ChainNext
<1> PICK c : c = req[t].cred
  OBVIOUS
<1>1. /\ pc[t] = "put_code" /\ Finish(t) /\ Owns(t)
      /\ UNCHANGED <<tokens, lineage, minted>>
  BY DEF PutCode, histVars, Owns
<1>2. c \in Codes /\ c \in Cred /\ c \notin Hash
  BY <1>1, DistinctAssumption DEF SingleUseInv, TypeInv, PlaceOK, Cred
<1>3. c \in minted /\ \A u \in Threads : Owns(u) /\ req[u].cred = c => u = t
  BY <1>1, <1>2 DEF SingleUseInv, OwnInv
<1>4. /\ pc'[t] = "idle"
      /\ \A u \in Threads : u # t => pc'[u] = pc[u] /\ req'[u] = req[u]
  BY <1>1 DEF Finish, Goto, SingleUseInv, TypeInv, TypeOK
<1>5. StageOf(c) = "unborn"
  <2>1. Unborn(c)
    BY <1>1, <1>2 DEF Unborn
  <2> QED
    BY <1>2, <2>1, StageIs
<1>6. ~Unborn(c)' /\ ~Held(c)'
  BY <1>1, <1>2, <1>3, <1>4 DEF Unborn, Held, Holds, Owns
<1>7. StageOf(c)' \in {"live", "gone"}
  BY <1>2, <1>6, StageIsNext
<1>8. ASSUME NEW d \in Cred, d # c
      PROVE  StageOf(d)' = StageOf(d)
  <2>1. SameClaims(d)
    BY <1>1, <1>8, GotoClaims DEF Finish, SingleUseInv
  <2>2. d \in Codes => codes'[d] = codes[d]
    BY <1>1, <1>8 DEF PutCode, SingleUseInv, TypeInv, TypeOK
  <2> QED
    BY <1>1, <2>1, <2>2, SameStage DEF Stored
<1> QED
  BY <1>1, <1>2, <1>5, <1>7, <1>8, ChainMoves

\* A grant takes what it is given, or withdraws it.
LEMMA TakeCodeRefines ==
  ASSUME SingleUseInv, NEW t \in Threads, NEW c \in Codes,
         NEW matches \in BOOLEAN, TakeCode(t, c, matches)
  PROVE  Chain!ChainNext
<1> DEFINE r == [NoRequest EXCEPT !.cred = c, !.subject = codes[c].subject,
                                  !.until = codes[c].exp + AccessTTL]
<1>1. /\ codes[c] # None /\ codes' = [codes EXCEPT ![c] = None] /\ pc[t] = "idle"
      /\ UNCHANGED <<tokens, lineage, minted, nextHash>>
      /\ UNCHANGED <<pc, req>> \/ Goto(t, "put_refresh", r)
  BY DEF TakeCode, histVars
<1>2. r.cred = c
  BY DEF NoRequest
<1> HIDE DEF r
<1>3. c \in Cred /\ c \notin Hash
  BY DistinctAssumption DEF Cred
<1>4. codes'[c] = None /\ \A d \in Codes : d # c => codes'[d] = codes[d]
  BY <1>1 DEF SingleUseInv, TypeInv, TypeOK
<1>5. CASE UNCHANGED <<pc, req>>
  <2>1. Shrinks
    BY <1>1, <1>4 DEF Shrinks
  <2> QED
    BY <1>5, <2>1, StayClaims, ThinningRefines DEF SingleUseInv
<1>6. CASE Goto(t, "put_refresh", r)
  <2>1. Stored(c) /\ c \in minted
    BY <1>1 DEF Stored, SingleUseInv, SpentInv
  <2>2. ~Held(c) /\ ~\E u \in Threads : Owns(u) /\ req[u].cred = c
    BY <1>3, <2>1, StoredIsFree DEF SingleUseInv
  <2>3. ~Unborn(c)
    BY <1>3, <2>1, <2>2 DEF Unborn, Owns
  <2>4. StageOf(c) = "live"
    BY <1>3, <2>1, <2>3, StageIs
  <2>5. /\ pc'[t] = "put_refresh" /\ req'[t] = r
        /\ \A u \in Threads : u # t => pc'[u] = pc[u] /\ req'[u] = req[u]
    BY <1>6 DEF Goto, SingleUseInv, TypeInv, TypeOK
  <2>6. ~Unborn(c)' /\ ~Stored(c)' /\ Held(c)'
    BY <1>1, <1>2, <1>3, <1>4, <2>1, <2>2, <2>5 DEF Unborn, Stored, Held, Holds, Owns
  <2>7. StageOf(c)' = "held"
    BY <1>3, <2>6, StageIsNext
  <2>8. ASSUME NEW d \in Cred, d # c
        PROVE  StageOf(d)' = StageOf(d)
    <3>1. SameClaims(d)
      BY <1>1, <1>2, <1>6, <2>8, GotoClaims DEF SingleUseInv, Owns
    <3> QED
      BY <1>1, <1>4, <2>8, <3>1, SameStage DEF Stored
  <2> QED
    BY <1>1, <1>3, <2>4, <2>7, <2>8, ChainMoves
<1> QED
  BY <1>1, <1>5, <1>6

\* A refresh grant takes the token, and with it only what it has issued.
LEMMA TakeTokenRefines ==
  ASSUME SingleUseInv, LinkInv, NEW t \in Threads, NEW h \in Hash,
         NEW matches \in BOOLEAN, TakeToken(t, h, matches)
  PROVE  Chain!ChainNext
<1> DEFINE r == [NoRequest EXCEPT !.cred = h, !.subject = tokens[h].subject,
                                  !.family = tokens[h].family]
<1>1. /\ tokens[h] # None /\ DeleteTokens({h}) /\ pc[t] = "idle"
      /\ UNCHANGED <<codes, lineage, minted, nextHash>>
      /\ \/ UNCHANGED <<pc, req>>
         \/ tokens[h].isRefresh /\ Goto(t, "check_subject", r)
  BY DEF TakeToken
<1>2. r.cred = h
  BY DEF NoRequest
<1> HIDE DEF r
<1>3. h \in Cred /\ h \notin Codes
  BY DistinctAssumption DEF Cred
<1>4. TypeOK
  BY DEF SingleUseInv, TypeInv
<1>5. Shrinks
  BY <1>1, <1>4, DeleteTokensShrinks DEF Shrinks
<1>6. CASE UNCHANGED <<pc, req>>
  BY <1>5, <1>6, StayClaims, ThinningRefines DEF SingleUseInv
<1>7. CASE tokens[h].isRefresh /\ Goto(t, "check_subject", r)
  <2>1. Stored(h) /\ lineage[h] # None
    BY <1>1, <1>7 DEF Stored, SingleUseInv, KindInv
  <2>2. ~Held(h)
    BY <1>3, <2>1, StoredIsFree DEF SingleUseInv
  <2>3. StageOf(h) = "live"
    BY <1>3, <2>1, StageIs DEF Unborn
  <2>4. pc'[t] = "check_subject" /\ req'[t] = r
    BY <1>4, <1>7 DEF Goto, TypeOK
  <2>5. tokens'[h] = None
    BY <1>1, DeleteTokensDeletes
  <2>6. ~Unborn(h)' /\ ~Stored(h)' /\ Held(h)'
    BY <1>1, <1>2, <1>3, <2>1, <2>4, <2>5 DEF Unborn, Stored, Held, Holds
  <2>7. StageOf(h)' = "held"
    BY <1>3, <2>6, StageIsNext
  <2>8. ASSUME NEW d \in Cred, d # h
        PROVE  StageOf(d)' = StageOf(d)
    <3>1. SameClaims(d)
      BY <1>1, <1>2, <1>7, <2>8, GotoClaims DEF SingleUseInv, Owns
    <3>2. d \in Hash /\ lineage[d] # None => (tokens'[d] # None <=> tokens[d] # None)
      <4>1. ASSUME d \in Hash, lineage[d] # None, tokens[d] # None
            PROVE  tokens'[d] # None
        <5>1. d \notin UNION {Cascade(g) : g \in {h}}
          BY <1>1, <2>8, <4>1, IssuedIsPlain DEF Cascade
        <5>2. tokens'[d] = [tokens[d] EXCEPT !.issued = @ \ UNION {Cascade(g) : g \in {h}}]
          BY <1>1, <4>1, <5>1 DEF DeleteTokens, Without
        <5>3. tokens[d] \in Token
          BY <1>4, <4>1 DEF TypeOK
        <5> QED
          BY <5>2, <5>3, DistinctAssumption DEF Token
      <4> QED
        BY <1>5, <4>1 DEF Shrinks
    <3> QED
      BY <1>1, <1>3, <3>1, <3>2, SameStage DEF Stored, Unborn
  <2> QED
    BY <1>1, <1>3, <2>3, <2>7, <2>8, ChainMoves
<1> QED
  BY <1>1, <1>6, <1>7

\* A handler that moves on between places where it owns nothing, and leaves
\* the stores alone, does nothing in the chain.
LEMMA MovingOnRefines ==
  ASSUME SingleUseInv, NEW t \in Threads, NEW place, NEW r, Goto(t, place, r),
         ~Owns(t), place \notin {"put_code", "check_subject", "put_refresh"},
         UNCHANGED <<tokens, codes, lineage, minted>>
  PROVE  UNCHANGED Chain!chainVars
<1>1. ASSUME NEW c \in Cred
      PROVE  StageOf(c)' = StageOf(c)
  <2>1. SameClaims(c)
    BY GotoClaims DEF SingleUseInv
  <2> QED
    BY <2>1, SameStage DEF Stored
<1> QED
  BY <1>1, ChainStutters

\* So does a step of no handler.
LEMMA StandingStillRefines ==
  ASSUME UNCHANGED <<pc, req, tokens, codes, lineage, minted>>
  PROVE  UNCHANGED Chain!chainVars
<1>1. ASSUME NEW c \in Cred
      PROVE  StageOf(c)' = StageOf(c)
  BY StayClaims, SameStage DEF Stored
<1> QED
  BY <1>1, ChainStutters

\* What a grant has taken is held by it, and by nobody else.
LEMMA HeldStage ==
  ASSUME SingleUseInv, NEW t \in Threads, pc[t] \in {"check_subject", "put_refresh"},
         NEW c, c = req[t].cred
  PROVE  /\ c \in Cred /\ StageOf(c) = "held"
         /\ c \in Codes => c \in minted /\ codes[c] = None
         /\ c \in Hash => lineage[c] # None /\ tokens[c] = None
         /\ \A u \in Threads : Owns(u) /\ req[u].cred = c => u = t
<1>1. c \in Cred
  BY DEF SingleUseInv, TypeInv, PlaceOK, Cred
<1>2. Owns(t)
  BY DEF Owns
<1>3. /\ c \in Codes => c \in minted /\ codes[c] = None
      /\ c \in Hash => lineage[c] # None /\ tokens[c] = None
      /\ \A u \in Threads : Owns(u) /\ req[u].cred = c => u = t
  BY <1>2 DEF SingleUseInv, OwnInv
<1>4. ~Unborn(c)
  BY <1>3 DEF Unborn, Owns
<1>5. ~Stored(c) /\ Held(c)
  BY <1>3 DEF Stored, Held, Holds
<1> QED
  BY <1>1, <1>3, <1>4, <1>5, StageIs

\* A grant that gives up what it has taken.
LEMMA GivingUpRefines ==
  ASSUME SingleUseInv, NEW t \in Threads, pc[t] \in {"check_subject", "put_refresh"},
         NEW place, NEW r, Goto(t, place, r),
         place \notin {"put_code", "check_subject", "put_refresh"},
         UNCHANGED <<tokens, codes, lineage, minted>>
  PROVE  Chain!ChainNext
<1> PICK c : c = req[t].cred
  OBVIOUS
<1>1. /\ c \in Cred /\ StageOf(c) = "held"
      /\ c \in Codes => c \in minted /\ codes[c] = None
      /\ c \in Hash => lineage[c] # None /\ tokens[c] = None
      /\ \A u \in Threads : Owns(u) /\ req[u].cred = c => u = t
  BY HeldStage
<1>2. /\ pc'[t] = place
      /\ \A u \in Threads : u # t => pc'[u] = pc[u] /\ req'[u] = req[u]
  BY DEF Goto, SingleUseInv, TypeInv, TypeOK
<1>3. ~Unborn(c)' /\ ~Stored(c)' /\ ~Held(c)'
  BY <1>1, <1>2 DEF Unborn, Stored, Held, Holds, Owns
<1>4. StageOf(c)' = "gone"
  BY <1>1, <1>3, StageIsNext
<1>5. ASSUME NEW d \in Cred, d # c
      PROVE  StageOf(d)' = StageOf(d)
  <2>1. SameClaims(d)
    BY <1>5, GotoClaims DEF SingleUseInv
  <2> QED
    BY <2>1, SameStage DEF Stored
<1> QED
  BY <1>1, <1>4, <1>5, ChainMoves

LEMMA CheckSubjectRefines ==
  ASSUME SingleUseInv, NEW t \in Threads, CheckSubject(t)
  PROVE  Chain!ChainNext \/ UNCHANGED Chain!chainVars
<1>1. pc[t] = "check_subject" /\ UNCHANGED <<tokens, codes, lineage, minted>>
  BY DEF CheckSubject, storeVars, histVars
<1>2. CASE Goto(t, "put_refresh", req[t])
  <2>1. /\ pc'[t] = "put_refresh" /\ req'[t] = req[t]
        /\ \A u \in Threads : u # t => pc'[u] = pc[u] /\ req'[u] = req[u]
    BY <1>2 DEF Goto, SingleUseInv, TypeInv, TypeOK
  <2>2. ASSUME NEW c \in Cred
        PROVE  StageOf(c)' = StageOf(c)
    <3>1. \A u \in Threads : Holds(u, c)' <=> Holds(u, c)
      BY <1>1, <2>1 DEF Holds
    <3>2. \A u \in Threads : pc'[u] = "put_code" /\ req'[u].cred = c
                               <=> pc[u] = "put_code" /\ req[u].cred = c
      BY <1>1, <2>1
    <3>3. SameClaims(c)
      BY <3>1, <3>2 DEF SameClaims, Held
    <3> QED
      BY <1>1, <3>3, SameStage DEF Stored
  <2> QED
    BY <1>1, <2>2, ChainStutters
<1>3. CASE Goto(t, "revoke_subject", [NoRequest EXCEPT !.subject = req[t].subject])
  BY <1>1, <1>3, GivingUpRefines
<1> QED
  BY <1>2, <1>3 DEF CheckSubject

\* The new refresh token is born as the credential it is issued for goes.
LEMMA PutRefreshRefines ==
  ASSUME SingleUseInv, NEW t \in Threads, PutRefresh(t)
  PROVE  Chain!ChainNext
<1> DEFINE f == IF req[t].family = None THEN nextHash ELSE req[t].family
           locals == [req[t] EXCEPT !.family = f, !.refresh = nextHash, !.at = now]
           new == [subject |-> req[t].subject, family |-> f,
                   isRefresh |-> TRUE, parent |-> None,
                   issued |-> {nextHash + 1}, exp |-> now + RefreshTTL]
<1>1. /\ pc[t] = "put_refresh" /\ UNCHANGED <<codes, minted>>
      /\ \/ Finish(t) /\ UNCHANGED <<tokens, lineage>>
         \/ /\ nextHash + 1 \in Hash
            /\ tokens' = [tokens EXCEPT ![nextHash] = new]
            /\ lineage' = [lineage EXCEPT ![nextHash] = req[t].cred]
            /\ Goto(t, "put_access", locals)
  BY DEF PutRefresh
<1>2. CASE Finish(t) /\ UNCHANGED <<tokens, lineage>>
  BY <1>1, <1>2, GivingUpRefines DEF Finish
<1>3. CASE /\ nextHash + 1 \in Hash
           /\ tokens' = [tokens EXCEPT ![nextHash] = new]
           /\ lineage' = [lineage EXCEPT ![nextHash] = req[t].cred]
           /\ Goto(t, "put_access", locals)
  <2> new # None
    <3>1. nextHash \in Hash /\ nextHash + 1 \in Hash
      BY <1>3, BoundAssumption DEF SingleUseInv, TypeInv, TypeOK, Hash
    <3>2. new \in Token
      BY <1>1, <1>3, <3>1, LifetimeAssumption
      DEF SingleUseInv, TypeInv, TypeOK, PlaceOK, Token, Request
    <3> QED
      BY <3>2, DistinctAssumption
  <2> HIDE DEF new, locals
  <2> PICK c : c = req[t].cred
    OBVIOUS
  <2> PICK r : r = nextHash
    OBVIOUS
  <2>1. /\ c \in Cred /\ StageOf(c) = "held"
        /\ c \in Codes => c \in minted /\ codes[c] = None
        /\ c \in Hash => lineage[c] # None /\ tokens[c] = None
        /\ \A u \in Threads : Owns(u) /\ req[u].cred = c => u = t
    BY <1>1, HeldStage
  <2>2. r \in Hash /\ r \notin Codes /\ r \in Cred
    <3>1. nextHash \in Nat \ {0} /\ nextHash + 1 \in 1..MaxHash /\ MaxHash \in Nat
      BY <1>3, BoundAssumption DEF SingleUseInv, TypeInv, TypeOK, Hash
    <3>2. nextHash \in Hash
      BY <3>1 DEF Hash
    <3> QED
      BY <3>2, DistinctAssumption DEF Cred
  <2>3. lineage[r] = None
    BY <2>2 DEF SingleUseInv, KindInv, TypeInv, TypeOK, Hash
  <2>4. c # r /\ c # None
    BY <2>1, <2>2, <2>3, DistinctAssumption DEF Cred
  <2>5. StageOf(r) = "unborn"
    BY <2>2, <2>3, StageIs DEF Unborn
  <2>6. /\ tokens'[r] = new /\ lineage'[r] = c
        /\ \A h \in Hash : h # r => tokens'[h] = tokens[h] /\ lineage'[h] = lineage[h]
    BY <1>3, <2>2 DEF SingleUseInv, TypeInv, TypeOK
  <2>7. /\ pc'[t] = "put_access"
        /\ \A u \in Threads : u # t => pc'[u] = pc[u] /\ req'[u] = req[u]
    BY <1>3 DEF Goto, SingleUseInv, TypeInv, TypeOK
  <2>8. StageOf(r)' = "live"
    <3>1. ~Unborn(r)' /\ Stored(r)'
      BY <2>2, <2>4, <2>6 DEF Unborn, Stored
    <3> QED
      BY <2>2, <3>1, StageIsNext
  <2>9. StageOf(c)' = "gone"
    <3>1. ~Unborn(c)'
      BY <1>1, <2>1, <2>4, <2>6, <2>7 DEF Unborn, Owns
    <3>2. ~Stored(c)'
      BY <1>1, <2>1, <2>4, <2>6 DEF Stored
    <3>3. ~Held(c)'
      BY <2>1, <2>7 DEF Held, Holds, Owns
    <3> QED
      BY <2>1, <3>1, <3>2, <3>3, StageIsNext
  <2>10. ASSUME NEW d \in Cred, d # c, d # r
         PROVE  StageOf(d)' = StageOf(d)
    <3>1. SameClaims(d)
      BY <1>3, <2>10, GotoClaims DEF SingleUseInv
    <3> QED
      BY <1>1, <2>6, <2>10, <3>1, SameStage DEF Stored
  <2> QED
    BY <2>1, <2>2, <2>4, <2>5, <2>6, <2>8, <2>9, <2>10, ChainExchanges
<1> QED
  BY <1>1, <1>2, <1>3

\* An access token is no credential of the chain.
LEMMA PutAccessRefines ==
  ASSUME SingleUseInv, NEW t \in Threads, PutAccess(t)
  PROVE  UNCHANGED Chain!chainVars
<1> DEFINE a == req[t].refresh + 1
           next == IF req[t].cred \in Codes THEN "mark_code" ELSE "mark_refresh"
<1>1. /\ pc[t] = "put_access" /\ UNCHANGED <<codes, lineage, minted>>
      /\ Goto(t, "undo", req[t]) \/ Goto(t, next, req[t])
      /\ \A h \in Hash : h # a => tokens'[h] = tokens[h]
  BY DEF PutAccess, histVars, SingleUseInv, TypeInv, TypeOK
<1>2. lineage[a] = None
  BY <1>1 DEF SingleUseInv, IssueInv
<1>3. next \in {"mark_code", "mark_refresh"}
  OBVIOUS
<1> HIDE DEF a, next
<1>4. ASSUME NEW c \in Cred
      PROVE  StageOf(c)' = StageOf(c)
  <2>1. SameClaims(c)
    BY <1>1, <1>3, GotoClaims DEF SingleUseInv, Owns
  <2>2. c \notin Codes /\ c = a => Unborn(c)
    BY <1>2 DEF Unborn, Cred
  <2>3. Unborn(c) \/ (Stored(c)' <=> Stored(c))
    BY <1>1, <1>2, DistinctAssumption DEF Stored, Unborn
  <2> QED
    BY <1>1, <2>1, <2>3, SameStage
<1> QED
  BY <1>1, <1>4, ChainStutters

\* Removals withdraw.
LEMMA RemovalRefines ==
  ASSUME SingleUseInv,
         \/ \E t \in Threads : RevokeFamily(t) \/ RevokeSubject(t) \/ Undo(t)
         \/ \E h \in Hash : Revoke(h)
         \/ \E s \in Subjects : RunHook(s)
         \/ Sweep
  PROVE  Chain!ChainNext
<1>1. TypeInv /\ TypeOK /\ OwnInv
  BY DEF SingleUseInv, TypeInv
<1>2. ASSUME NEW t \in Threads, RevokeFamily(t) \/ RevokeSubject(t) \/ Undo(t)
      PROVE  Chain!ChainNext
  <2>1. ~Owns(t) /\ Finish(t) /\ UNCHANGED <<lineage, nextHash, minted>>
    BY <1>2 DEF RevokeFamily, RevokeSubject, Undo, Owns
  <2>2. \A c \in Cred : SameClaims(c)
    BY <1>1, <2>1, GotoClaims DEF Finish
  <2>3. \A h \in Hash : \/ tokens'[h] = None
                        \/ tokens[h] # None /\ tokens'[h].isRefresh = tokens[h].isRefresh
    <3>1. CASE RevokeFamily(t)
      BY <3>1 DEF RevokeFamily, DeleteFamily
    <3>2. CASE RevokeSubject(t)
      BY <3>2 DEF RevokeSubject, DeleteBySubject
    <3>3. CASE Undo(t)
      BY <1>1, <3>3, DeleteTokensShrinks DEF Undo
    <3> QED
      BY <1>2, <3>1, <3>2, <3>3
  <2>4. \A c \in Codes : codes'[c] = None \/ codes'[c] = codes[c]
    BY <1>2 DEF RevokeFamily, RevokeSubject, Undo, DeleteBySubject
  <2>5. Shrinks
    BY <2>1, <2>3, <2>4 DEF Shrinks
  <2> QED
    BY <1>1, <2>2, <2>5, ThinningRefines
<1>3. ASSUME \/ \E h \in Hash : Revoke(h)
             \/ \E s \in Subjects : RunHook(s)
             \/ Sweep
      PROVE  Chain!ChainNext
  <2>1. UNCHANGED <<pc, req, lineage, nextHash, minted>>
    BY <1>3 DEF Revoke, RunHook, Sweep
  <2>2. \A c \in Cred : SameClaims(c)
    BY <2>1, StayClaims
  <2>3. \A h \in Hash : \/ tokens'[h] = None
                        \/ tokens[h] # None /\ tokens'[h].isRefresh = tokens[h].isRefresh
    <3>1. CASE \E g \in Hash : Revoke(g)
      BY <1>1, <3>1, DeleteTokensShrinks DEF Revoke
    <3>2. CASE \E s \in Subjects : RunHook(s)
      BY <3>2 DEF RunHook, DeleteBySubject
    <3>3. CASE Sweep
      BY <1>1, <3>3, DeleteTokensShrinks DEF Sweep
    <3> QED
      BY <1>3, <3>1, <3>2, <3>3
  <2>4. \A c \in Codes : codes'[c] = None \/ codes'[c] = codes[c]
    BY <1>3 DEF Revoke, RunHook, Sweep, DeleteBySubject
  <2>5. Shrinks
    BY <2>1, <2>3, <2>4 DEF Shrinks
  <2> QED
    BY <1>1, <2>2, <2>5, ThinningRefines
<1> QED
  BY <1>2, <1>3

(***************************************************************************)
(* The refinement                                                          *)
(***************************************************************************)

LEMMA ChainStarts == Init => Chain!ChainInit
<1> SUFFICES ASSUME Init
             PROVE  Chain!ChainInit
  OBVIOUS
<1>1. \A c \in Cred : StageOf(c) = "unborn"
  <2>1. \A c \in Cred : Unborn(c)
    BY DEF Init, Unborn, Cred
  <2> QED
    BY <2>1, StageIs
<1>2. \A c \in Cred : c \in Hash => lineage[c] = None
  BY DEF Init
<1> QED
  BY <1>1, <1>2 DEF Chain!ChainInit

LEMMA ChainSteps ==
  SingleUseInv /\ LinkInv /\ [Next]_vars => [Chain!ChainNext]_(Chain!chainVars)
<1> SUFFICES ASSUME SingleUseInv, LinkInv, [Next]_vars
             PROVE  Chain!ChainNext \/ UNCHANGED Chain!chainVars
  OBVIOUS
<1> USE DEF histVars, storeVars
<1>1. ASSUME NEW t \in Threads, Arrive(t)
      PROVE  Chain!ChainNext \/ UNCHANGED Chain!chainVars
  <2>1. ASSUME \/ \E c \in Codes : ReplayCode(t, c)
               \/ \E h \in Hash : ReplayRefresh(t, h) \/ Validate(t, h)
        PROVE  UNCHANGED Chain!chainVars
    <3>1. ~Owns(t) /\ UNCHANGED <<tokens, codes, lineage, minted>>
      BY <2>1 DEF ReplayCode, ReplayRefresh, Validate, Owns
    <3>2. PICK place \in {"delete_family", "revoke_subject"} : \E r : Goto(t, place, r)
      BY <2>1 DEF ReplayCode, ReplayRefresh, Validate
    <3>3. PICK r : Goto(t, place, r)
      BY <3>2
    <3> QED
      BY <3>1, <3>3, MovingOnRefines
  <2> QED
    BY <1>1, <2>1, SignInRefines, TakeCodeRefines, TakeTokenRefines DEF Arrive
<1>2. ASSUME NEW t \in Threads, Continue(t)
      PROVE  Chain!ChainNext \/ UNCHANGED Chain!chainVars
  <2>1. ASSUME MarkCodeUsed(t) \/ MarkRefreshRotated(t)
        PROVE  UNCHANGED Chain!chainVars
    <3>1. /\ ~Owns(t) /\ UNCHANGED <<tokens, codes, lineage, minted>>
          /\ Goto(t, "idle", NoRequest)
      BY <2>1 DEF MarkCodeUsed, MarkRefreshRotated, Owns, Finish
    <3> QED
      BY <3>1, MovingOnRefines
  <2> QED
    BY <1>2, <2>1, PutCodeRefines, CheckSubjectRefines, PutRefreshRefines,
       PutAccessRefines, RemovalRefines DEF Continue
<1>3. ASSUME \/ \E s \in Subjects : Disable(s) \/ Enable(s)
             \/ Tick
             \/ UNCHANGED vars
      PROVE  UNCHANGED Chain!chainVars
  <2>1. UNCHANGED <<pc, req, tokens, codes, lineage, minted>>
    BY <1>3 DEF Disable, Enable, Tick, vars
  <2> QED
    BY <2>1, StandingStillRefines
<1> QED
  BY <1>1, <1>2, <1>3, RemovalRefines DEF Next

\* Whatever handlers, sweeper and accounts do at the same time, a code or a
\* refresh token is taken once and exchanged for one successor at most: the
\* endpoint implements the chain.
THEOREM EndpointImplementsChain == Spec => ImplementsChain
<1>1. Init => Chain!ChainInit
  BY ChainStarts
<1>2. SingleUseInv /\ LinkInv /\ [Next]_vars => [Chain!ChainNext]_(Chain!chainVars)
  BY ChainSteps
<1> QED
  BY <1>1, <1>2, SingleUseInvCorrect, LinkInvCorrect, PTL
  DEF Spec, ImplementsChain, Chain!ChainSpec

=============================================================================

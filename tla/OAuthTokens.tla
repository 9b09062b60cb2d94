---------------------------- MODULE OAuthTokens ----------------------------
(***************************************************************************)
(* The token endpoint of internal/oauth: authorisation codes, access and   *)
(* refresh tokens, refresh rotation, replay detection and revocation, as   *)
(* served by concurrent HTTP handlers over one in-memory Store.            *)
(*                                                                         *)
(* Every method of Store runs under s.mu, so one method call is one step;  *)
(* a handler is the sequence of the calls it makes, and pc/req hold the    *)
(* place and the local variables of each handler goroutine.                *)
(*                                                                         *)
(* Data abstracted: a token, code or family is a number or model value     *)
(* rather than a random string, its hash is itself, a family is named by   *)
(* the first refresh token in it; the client id, redirect URI and PKCE     *)
(* verifier of a request are one Boolean: do they match the credential?    *)
(***************************************************************************)
EXTENDS Integers, FiniteSets

CONSTANTS
  Threads,      \* handler goroutines
  Subjects,     \* user accounts
  Codes,        \* authorisation codes that may be generated
  None,         \* the absent value ("" or a missing map entry)
  MaxHash,      \* bound: token hashes that may be generated
  MaxTime,      \* bound: the clock stops here
  CodeTTL,      \* Config.AuthorizationCodeLifetime
  AccessTTL,    \* Config.AccessTokenLifetime
  RefreshTTL,   \* Config.RefreshTokenLifetime
  CodeLimit,    \* Limits.Codes
  TokenLimit    \* Limits.Tokens

Hash == 1..MaxHash

ASSUME BoundAssumption ==
  /\ MaxHash \in Nat
  /\ MaxTime \in Nat
ASSUME LifetimeAssumption ==
  /\ CodeTTL \in Nat \ {0}
  /\ AccessTTL \in Nat \ {0}
  /\ RefreshTTL \in Nat \ {0}
ASSUME LimitAssumption ==
  /\ CodeLimit \in Nat \ {0}
  /\ TokenLimit \in Nat \ {0}
VARIABLES
  now,          \* Server.now
  tokens,       \* Store.tokens
  codes,        \* Store.codes
  usedCodes,    \* Store.usedCodes
  rotated,      \* Store.rotated
  active,       \* which accounts the user store would let in
  hook,         \* accounts whose revocation hook has yet to run
  pc,           \* where each handler goroutine is
  req,          \* its local variables
  nextHash,     \* the next token hash randomToken will yield
  minted,       \* codes randomToken has yielded
  delivered,    \* tokens some client has received in a response
  reported,     \* access tokens passed to the onRevoke hook
  lineage,      \* history: the credential each refresh token was issued for
  killed        \* history: families a replay has made DeleteFamily remove

vars == <<now, tokens, codes, usedCodes, rotated, active, hook, pc, req,
          nextHash, minted, delivered, reported, lineage, killed>>

storeVars == <<tokens, codes, usedCodes, rotated>>
histVars  == <<nextHash, minted, delivered, reported, lineage, killed>>

Cred == Hash \cup Codes

Token == [subject : Subjects, family : Hash, isRefresh : BOOLEAN,
          parent : Hash \cup {None}, issued : SUBSET Hash, exp : Nat]

AuthCode == [subject : Subjects, exp : Nat]

UsedCode == [family : Hash, until : Nat]

Rotated == [family : Hash, until : Nat]

\* The absent value is none of the values it stands for the absence of.
ASSUME DistinctAssumption ==
  /\ None \notin Hash \cup Codes \cup Subjects
  /\ None \notin Token \cup AuthCode \cup UsedCode \cup Rotated
  /\ Hash \cap Codes = {}

Request == [cred : Cred \cup {None}, subject : Subjects \cup {None},
            family : Hash \cup {None}, refresh : Hash \cup {None},
            at : Nat, until : Nat]

NoRequest == [cred |-> None, subject |-> None, family |-> None,
              refresh |-> None, at |-> 0, until |-> 0]

PC == {"idle", "put_code", "check_subject", "put_refresh", "put_access",
       "undo", "mark_code", "mark_refresh", "delete_family",
       "revoke_subject"}

Present(f) == {x \in DOMAIN f : f[x] # None}

(***************************************************************************)
(* Helpers of the store.                                                   *)
(***************************************************************************)

\* deleteTokenLocked: a refresh token goes together with what it issued.
Cascade(h) == {h} \cup tokens[h].issued

\* Mutant: what H issued goes, H itself stays (a lookup instead of a take).
Without_KeepsSelf(H) ==
  LET gone == UNION {tokens[h].issued : h \in H}
  IN  [h \in Hash |->
         IF tokens[h] = None \/ h \in gone THEN None
         ELSE [tokens[h] EXCEPT !.issued = @ \ gone]]

\* The tokens left once each of H is deleted with its cascade: an access
\* token removed is also struck from its parent's Issued list.
Without(H) ==
  LET gone == UNION {Cascade(h) : h \in H}
  IN  [h \in Hash |->
         IF tokens[h] = None \/ h \in gone THEN None
         ELSE [tokens[h] EXCEPT !.issued = @ \ gone]]

\* The access tokens a removal of H reports to the onRevoke hook.
AccessIn(H) == {h \in H : tokens[h] # None /\ ~tokens[h].isRefresh}

DeleteTokens(H) ==
  /\ tokens' = Without(H)
  /\ reported' = reported \cup AccessIn(UNION {Cascade(h) : h \in H})

\* Mutant: nothing is reported to the hook.
DeleteFamily_Silent(f) ==
  /\ tokens' = [h \in Hash |->
       IF tokens[h] # None /\ tokens[h].family = f THEN None ELSE tokens[h]]
  /\ UNCHANGED reported

\* Mutant: the refresh tokens of the family go, the access tokens stay.
DeleteFamily_RefreshOnly(f) ==
  /\ tokens' = [h \in Hash |->
       IF tokens[h] # None /\ tokens[h].family = f /\ tokens[h].isRefresh
       THEN None ELSE tokens[h]]
  /\ UNCHANGED reported

DeleteFamily(f) ==
  LET gone == {h \in Hash : tokens[h] # None /\ tokens[h].family = f}
  IN  /\ tokens' = [h \in Hash |-> IF h \in gone THEN None ELSE tokens[h]]
      /\ reported' = reported \cup AccessIn(gone)

DeleteBySubject(s) ==
  LET gone == {h \in Hash : tokens[h] # None /\ tokens[h].subject = s}
  IN  /\ tokens' = [h \in Hash |-> IF h \in gone THEN None ELSE tokens[h]]
      /\ codes' = [c \in Codes |->
                     IF codes[c] # None /\ codes[c].subject = s
                     THEN None ELSE codes[c]]
      /\ reported' = reported \cup AccessIn(gone)

\* PutToken refuses a new hash once the collection is full.
TokensFull == Cardinality(Present(tokens)) >= TokenLimit

Goto(t, place, locals) ==
  /\ pc' = [pc EXCEPT ![t] = place]
  /\ req' = [req EXCEPT ![t] = locals]

Finish(t) == Goto(t, "idle", NoRequest)

(***************************************************************************)
(* handleAuthorize: sign in, then store a fresh code.                      *)
(***************************************************************************)

\* Authenticate succeeds only for an account that is not disabled.
SignIn(t, s, c) ==
  /\ pc[t] = "idle"
  /\ active[s]
  /\ c \notin minted
  /\ minted' = minted \cup {c}
  /\ Goto(t, "put_code", [NoRequest EXCEPT !.cred = c, !.subject = s])
  /\ UNCHANGED <<now, storeVars, active, hook, nextHash, delivered,
                 reported, lineage, killed>>

PutCode(t) ==
  /\ pc[t] = "put_code"
  /\ IF Cardinality(Present(codes)) >= CodeLimit
     THEN UNCHANGED codes
     ELSE codes' = [codes EXCEPT ![req[t].cred] =
                      [subject |-> req[t].subject, exp |-> now + CodeTTL]]
  /\ Finish(t)
  /\ UNCHANGED <<now, tokens, usedCodes, rotated, active, hook, histVars>>

(***************************************************************************)
(* handleAuthorizationCodeGrant                                            *)
(***************************************************************************)

\* Mutant: the code is read, not taken.
TakeCode_Peek(t, c, matches) ==
  /\ pc[t] = "idle"
  /\ codes[c] # None
  /\ matches /\ codes[c].exp > now
  /\ Goto(t, "put_refresh",
          [NoRequest EXCEPT !.cred = c, !.subject = codes[c].subject,
                            !.until = codes[c].exp + AccessTTL])
  /\ UNCHANGED <<now, storeVars, active, hook, histVars>>

\* TakeCode finds the code, and consumes it whether or not the checks on
\* its expiry, client, redirect URI and verifier then succeed.
TakeCode(t, c, matches) ==
  /\ pc[t] = "idle"
  /\ codes[c] # None
  /\ codes' = [codes EXCEPT ![c] = None]
  /\ IF matches /\ codes[c].exp > now
     THEN Goto(t, "put_refresh",
               [NoRequest EXCEPT !.cred = c, !.subject = codes[c].subject,
                                 !.until = codes[c].exp + AccessTTL])
     ELSE UNCHANGED <<pc, req>>
  /\ UNCHANGED <<now, tokens, usedCodes, rotated, active, hook, histVars>>

\* TakeCode misses and TakeUsedCode finds the record of its redemption.
\* (A miss changes nothing and a code never returns, so the two calls are
\* one step; a code with no record either is refused with no effect.)
ReplayCode(t, c) ==
  /\ pc[t] = "idle"
  /\ codes[c] = None
  /\ usedCodes[c] # None
  /\ usedCodes' = [usedCodes EXCEPT ![c] = None]
  /\ Goto(t, "delete_family",
          [NoRequest EXCEPT !.family = usedCodes[c].family])
  /\ UNCHANGED <<now, tokens, codes, rotated, active, hook, histVars>>

(***************************************************************************)
(* handleRefreshTokenGrant                                                 *)
(***************************************************************************)

\* TakeToken removes whatever token is presented, with its cascade, before
\* the request is validated.
TakeToken(t, h, matches) ==
  /\ pc[t] = "idle"
  /\ h \in delivered
  /\ tokens[h] # None
  /\ DeleteTokens({h})
  /\ IF matches /\ tokens[h].isRefresh /\ tokens[h].exp > now
     THEN Goto(t, "check_subject",
               [NoRequest EXCEPT !.cred = h, !.subject = tokens[h].subject,
                                 !.family = tokens[h].family])
     ELSE UNCHANGED <<pc, req>>
  /\ UNCHANGED <<now, codes, usedCodes, rotated, active, hook, nextHash,
                 minted, delivered, lineage, killed>>

\* TakeToken misses and RotatedRefreshFamily knows the token.
ReplayRefresh(t, h) ==
  /\ pc[t] = "idle"
  /\ h \in delivered
  /\ tokens[h] = None
  /\ rotated[h] # None
  /\ Goto(t, "delete_family",
          [NoRequest EXCEPT !.family = rotated[h].family])
  /\ UNCHANGED <<now, storeVars, active, hook, histVars>>

CheckSubject(t) ==
  /\ pc[t] = "check_subject"
  /\ IF active[req[t].subject]
     THEN Goto(t, "put_refresh", req[t])
     ELSE Goto(t, "revoke_subject",
               [NoRequest EXCEPT !.subject = req[t].subject])
  /\ UNCHANGED <<now, storeVars, active, hook, histVars>>

\* The answer to a replay, in both grants.
RevokeFamily(t) ==
  /\ pc[t] = "delete_family"
  /\ DeleteFamily(req[t].family)
  /\ killed' = killed \cup {req[t].family}
  /\ Finish(t)
  /\ UNCHANGED <<now, codes, usedCodes, rotated, active, hook, nextHash,
                 minted, delivered, lineage>>

\* RevokeSubject, from a refresh grant or from ValidateAccessToken.
RevokeSubject(t) ==
  /\ pc[t] = "revoke_subject"
  /\ DeleteBySubject(req[t].subject)
  /\ Finish(t)
  /\ UNCHANGED <<now, usedCodes, rotated, active, hook, nextHash, minted,
                 delivered, lineage, killed>>

(***************************************************************************)
(* issueTokensWithHash: the refresh token first, then the access token.    *)
(***************************************************************************)

PutRefresh(t) ==
  /\ pc[t] = "put_refresh"
  /\ IF TokensFull
     THEN /\ Finish(t)
          /\ UNCHANGED <<tokens, nextHash, lineage>>
     ELSE LET r == nextHash
              f == IF req[t].family = None THEN r ELSE req[t].family
          IN  /\ r + 1 \in Hash
              /\ nextHash' = r + 2
              /\ tokens' = [tokens EXCEPT ![r] =
                   [subject |-> req[t].subject, family |-> f,
                    isRefresh |-> TRUE, parent |-> None,
                    issued |-> {r + 1}, exp |-> now + RefreshTTL]]
              /\ lineage' = [lineage EXCEPT ![r] = req[t].cred]
              /\ Goto(t, "put_access", [req[t] EXCEPT !.family = f,
                                           !.refresh = r, !.at = now])
  /\ UNCHANGED <<now, codes, usedCodes, rotated, active, hook, minted,
                 delivered, reported, killed>>

PutAccess(t) ==
  /\ pc[t] = "put_access"
  /\ IF TokensFull
     THEN /\ Goto(t, "undo", req[t])
          /\ UNCHANGED tokens
     ELSE /\ tokens' = [tokens EXCEPT ![req[t].refresh + 1] =
               [subject |-> req[t].subject, family |-> req[t].family,
                isRefresh |-> FALSE, parent |-> req[t].refresh,
                issued |-> {}, exp |-> req[t].at + AccessTTL]]
          /\ Goto(t, IF req[t].cred \in Codes THEN "mark_code"
                                              ELSE "mark_refresh", req[t])
  /\ UNCHANGED <<now, codes, usedCodes, rotated, active, hook, histVars>>

\* Mutant: the refresh token is left behind.
Undo_Forgotten(t) ==
  /\ pc[t] = "undo"
  /\ Finish(t)
  /\ UNCHANGED <<now, storeVars, active, hook, histVars>>

\* The access token did not fit: take back the refresh token, if it is
\* still there.
Undo(t) ==
  /\ pc[t] = "undo"
  /\ DeleteTokens({req[t].refresh} \cap Present(tokens))
  /\ Finish(t)
  /\ UNCHANGED <<now, codes, usedCodes, rotated, active, hook, nextHash,
                 minted, delivered, lineage, killed>>

Deliver(t) ==
  delivered' = delivered \cup {req[t].refresh, req[t].refresh + 1}

\* MarkCodeUsed, dropped when the records are at their limit; then the
\* response is written.
MarkCodeUsed(t) ==
  LET c == req[t].cred
  IN  /\ pc[t] = "mark_code"
      /\ IF usedCodes[c] = None
              /\ Cardinality(Present(usedCodes)) >= CodeLimit
         THEN UNCHANGED usedCodes
         ELSE usedCodes' = [usedCodes EXCEPT ![c] =
                [family |-> req[t].family, until |-> req[t].until]]
      /\ Deliver(t)
      /\ Finish(t)
      /\ UNCHANGED <<now, tokens, codes, rotated, active, hook, nextHash,
                     minted, reported, lineage, killed>>

\* evictOldestRotatedLocked: a record whose retention ends soonest.
Evictable ==
  {h \in Present(rotated) :
     \A g \in Present(rotated) : rotated[h].until <= rotated[g].until}

\* Mutant: the record is kept only as long as an access token lives.
MarkRefreshRotated_ShortRecord(t) ==
  /\ pc[t] = "mark_refresh"
  /\ rotated' = [rotated EXCEPT ![req[t].cred] =
       [family |-> req[t].family, until |-> now + AccessTTL]]
  /\ Deliver(t)
  /\ Finish(t)
  /\ UNCHANGED <<now, tokens, codes, usedCodes, active, hook, nextHash,
                 minted, reported, lineage, killed>>

\* MarkRefreshRotated, which makes room by eviction; then the response.
MarkRefreshRotated(t) ==
  LET h == req[t].cred
      full == /\ rotated[h] = None
              /\ Cardinality(Present(rotated)) >= TokenLimit
      record == [family |-> req[t].family, until |-> now + RefreshTTL]
  IN  /\ pc[t] = "mark_refresh"
      /\ IF full
         THEN \E v \in Evictable :
                rotated' = [rotated EXCEPT ![v] = None, ![h] = record]
         ELSE rotated' = [rotated EXCEPT ![h] = record]
      /\ Deliver(t)
      /\ Finish(t)
      /\ UNCHANGED <<now, tokens, codes, usedCodes, active, hook, nextHash,
                     minted, reported, lineage, killed>>

(***************************************************************************)
(* handleRevoke, ValidateAccessToken and the sweeper.                      *)
(***************************************************************************)

Revoke(h) ==
  /\ h \in delivered
  /\ tokens[h] # None
  /\ DeleteTokens({h})
  /\ UNCHANGED <<now, codes, usedCodes, rotated, active, hook, pc, req,
                 nextHash, minted, delivered, lineage, killed>>

\* ValidateAccessToken changes state only when the subject of a valid
\* token is no longer active.
Validate(t, h) ==
  /\ pc[t] = "idle"
  /\ h \in delivered
  /\ tokens[h] # None
  /\ ~tokens[h].isRefresh
  /\ tokens[h].exp > now
  /\ ~active[tokens[h].subject]
  /\ Goto(t, "revoke_subject",
          [NoRequest EXCEPT !.subject = tokens[h].subject])
  /\ UNCHANGED <<now, storeVars, active, hook, histVars>>

\* The entries a sweep at time now finds out of date.
Stale(f) == {x \in Present(f) : f[x].exp < now}
StaleRecord(f) == {x \in Present(f) : f[x].until < now}

Sweep ==
  /\ Stale(codes) \cup Stale(tokens) \cup StaleRecord(usedCodes)
       \cup StaleRecord(rotated) # {}
  /\ DeleteTokens(Stale(tokens))
  /\ codes' = [c \in Codes |-> IF c \in Stale(codes) THEN None ELSE codes[c]]
  /\ usedCodes' = [c \in Codes |->
       IF c \in StaleRecord(usedCodes) THEN None ELSE usedCodes[c]]
  /\ rotated' = [h \in Hash |->
       IF h \in StaleRecord(rotated) THEN None ELSE rotated[h]]
  /\ UNCHANGED <<now, active, hook, pc, req, nextHash, minted, delivered,
                 lineage, killed>>

(***************************************************************************)
(* The account side: an account is disabled under the user store's lock    *)
(* and the OAuth server is told of it only after that lock is released.    *)
(***************************************************************************)

Disable(s) ==
  /\ active' = [active EXCEPT ![s] = FALSE]
  /\ hook' = hook \cup {s}
  /\ UNCHANGED <<now, storeVars, pc, req, histVars>>

Enable(s) ==
  /\ active' = [active EXCEPT ![s] = TRUE]
  /\ UNCHANGED <<now, storeVars, hook, pc, req, histVars>>

RunHook(s) ==
  /\ s \in hook
  /\ hook' = hook \ {s}
  /\ DeleteBySubject(s)
  /\ UNCHANGED <<now, usedCodes, rotated, active, pc, req, nextHash, minted,
                 delivered, lineage, killed>>

Tick ==
  /\ now < MaxTime
  /\ now' = now + 1
  /\ UNCHANGED <<storeVars, active, hook, pc, req, histVars>>

(***************************************************************************)
(* Specification                                                           *)
(***************************************************************************)

Init ==
  /\ now = 0
  /\ tokens = [h \in Hash |-> None]
  /\ codes = [c \in Codes |-> None]
  /\ usedCodes = [c \in Codes |-> None]
  /\ rotated = [h \in Hash |-> None]
  /\ active = [s \in Subjects |-> TRUE]
  /\ hook = {}
  /\ pc = [t \in Threads |-> "idle"]
  /\ req = [t \in Threads |-> NoRequest]
  /\ nextHash = 1
  /\ minted = {}
  /\ delivered = {}
  /\ reported = {}
  /\ lineage = [h \in Hash |-> None]
  /\ killed = {}

\* The steps of a handler that has already been admitted.
Continue(t) ==
  \/ PutCode(t)
  \/ CheckSubject(t)
  \/ RevokeFamily(t)
  \/ RevokeSubject(t)
  \/ PutRefresh(t)
  \/ PutAccess(t)
  \/ Undo(t)
  \/ MarkCodeUsed(t)
  \/ MarkRefreshRotated(t)

\* A request that arrives at an idle handler.
Arrive(t) ==
  \/ \E s \in Subjects, c \in Codes : SignIn(t, s, c)
  \/ \E c \in Codes, matches \in BOOLEAN : TakeCode(t, c, matches)
  \/ \E c \in Codes : ReplayCode(t, c)
  \/ \E h \in Hash, matches \in BOOLEAN : TakeToken(t, h, matches)
  \/ \E h \in Hash : ReplayRefresh(t, h)
  \/ \E h \in Hash : Validate(t, h)

Next ==
  \/ \E t \in Threads : Arrive(t) \/ Continue(t)
  \/ \E h \in Hash : Revoke(h)
  \/ \E s \in Subjects : Disable(s) \/ Enable(s) \/ RunHook(s)
  \/ Sweep
  \/ Tick

Spec == Init /\ [][Next]_vars

(***************************************************************************)
(* Properties                                                              *)
(***************************************************************************)

\* Every variable has its type.
TypeOK ==
  /\ now \in Nat
  /\ tokens \in [Hash -> Token \cup {None}]
  /\ codes \in [Codes -> AuthCode \cup {None}]
  /\ usedCodes \in [Codes -> UsedCode \cup {None}]
  /\ rotated \in [Hash -> Rotated \cup {None}]
  /\ active \in [Subjects -> BOOLEAN]
  /\ hook \in SUBSET Subjects
  /\ pc \in [Threads -> PC]
  /\ req \in [Threads -> Request]
  /\ nextHash \in Nat \ {0}
  /\ minted \in SUBSET Codes
  /\ delivered \in SUBSET Hash
  /\ reported \in SUBSET Hash
  /\ lineage \in [Hash -> Cred \cup {None}]
  /\ killed \in SUBSET Hash

\* However many requests race with the same authorisation code or the same
\* refresh token, at most one refresh token is ever issued for it.
SingleUse ==
  \A g, h \in Hash : lineage[g] # None /\ lineage[g] = lineage[h] => g = h

\* Rotation never leaves two usable refresh tokens in one family, whatever
\* is replayed, revoked or swept meanwhile.
OneRefreshPerFamily ==
  \A g, h \in Present(tokens) :
    tokens[g].isRefresh /\ tokens[h].isRefresh
      /\ tokens[g].family = tokens[h].family => g = h

\* The onRevoke hook, which releases the database connections of an access
\* token, is told of every access token a client holds that has gone from
\* the store, and never of one that is still there.
RevocationsReported ==
  /\ \A h \in delivered :
       tokens[h] = None /\ lineage[h] = None => h \in reported
  /\ \A h \in Present(tokens) : h \notin reported

\* The two directions of the refresh/access link agree: a refresh token's
\* cascade reaches every access token that names it as its parent, and
\* names no other, except the one a handler is about to store.
CascadeComplete ==
  \A r \in Present(tokens) : tokens[r].isRefresh =>
    /\ \A a \in Present(tokens) :
         tokens[a].parent = r => a \in tokens[r].issued
    /\ \A a \in tokens[r].issued :
         \/ tokens[a] # None /\ tokens[a].parent = r
         \/ \E t \in Threads : pc[t] \in {"put_access", "undo"}
                                 /\ req[t].refresh = r

\* An access token goes with its refresh token, and the hook hears of it.
RemovalsComplete == CascadeComplete /\ RevocationsReported

\* While a refresh token some client holds is usable, the token it was
\* rotated from is on record, so that a replay of the older one can still
\* be recognised and answered.
RotationRemembered ==
  \A h \in Present(tokens) \cap delivered :
    tokens[h].isRefresh /\ lineage[h] \in Hash => rotated[lineage[h]] # None

\* After a replay has been answered by deleting a family, no token of that
\* family is in the store.
ReplayRevokesWholeFamily ==
  \A h \in Present(tokens) : tokens[h].family \notin killed

\* A full store never leaves half a pair behind: every token in the store is
\* one that a client has received, or that a handler is still issuing.
NoHalfIssued ==
  \A h \in Present(tokens) :
    \/ h \in delivered
    \/ \E t \in Threads :
         /\ pc[t] \in {"put_access", "undo", "mark_code", "mark_refresh"}
         /\ h \in {req[t].refresh, req[t].refresh + 1}

(***************************************************************************)
(* The inductive invariant behind the properties: what holds at each place *)
(* of a handler, and where a credential can be in its life.                *)
(***************************************************************************)

\* The local variables a handler has assigned when it is at a place.
PlaceOK(place, r) ==
  /\ place \in {"put_code", "mark_code"} => r.cred \in Codes
  /\ place \in {"check_subject", "mark_refresh"} => r.cred \in Hash
  /\ place \in {"put_refresh", "put_access"} => r.cred \in Cred
  /\ place \in {"put_code", "check_subject", "put_refresh", "put_access",
                "revoke_subject"} => r.subject \in Subjects
  /\ place \in {"check_subject", "put_access", "mark_code", "mark_refresh",
                "delete_family"} => r.family \in Hash
  /\ place \in {"put_access", "undo", "mark_code", "mark_refresh"} =>
       r.refresh \in Hash /\ r.refresh + 1 \in Hash

TypeInv == TypeOK /\ \A t \in Threads : PlaceOK(pc[t], req[t])

\* A handler that owns a credential it has not exchanged yet.
Owns(t) == pc[t] \in {"put_code", "check_subject", "put_refresh"}

\* A refresh token is exactly a hash with a lineage.
KindInv ==
  \A h \in Hash :
    /\ lineage[h] # None => h < nextHash
    /\ tokens[h] # None =>
         h < nextHash /\ (tokens[h].isRefresh <=> lineage[h] # None)

\* A code in the store has been generated; a credential that something was
\* issued for is spent: it is in no store.
SpentInv ==
  /\ \A c \in Codes : codes[c] # None => c \in minted
  /\ \A h \in Hash :
       /\ lineage[h] \in Codes =>
            lineage[h] \in minted /\ codes[lineage[h]] = None
       /\ lineage[h] \in Hash =>
            lineage[lineage[h]] # None /\ tokens[lineage[h]] = None

\* A credential a handler owns is in no store, nothing has been issued for
\* it, and no other handler owns it.
OwnInv ==
  /\ \A t \in Threads : Owns(t) =>
       /\ \A h \in Hash : lineage[h] # req[t].cred
       /\ req[t].cred \in Codes =>
            req[t].cred \in minted /\ codes[req[t].cred] = None
       /\ req[t].cred \in Hash =>
            lineage[req[t].cred] # None /\ tokens[req[t].cred] = None
  /\ \A t, u \in Threads :
       Owns(t) /\ Owns(u) /\ req[t].cred = req[u].cred => t = u

\* The access token a handler is about to store has a fresh hash.
IssueInv ==
  \A t \in Threads : pc[t] = "put_access" =>
    req[t].refresh + 1 < nextHash /\ lineage[req[t].refresh + 1] = None

SingleUseInv ==
  /\ TypeInv
  /\ KindInv
  /\ SpentInv
  /\ OwnInv
  /\ IssueInv
  /\ SingleUse

=============================================================================

------------------------------- MODULE CliTokens -------------------------------
(***************************************************************************)
(* The OAuth tokens of the command-line client (internal/chat's            *)
(* OAuthClient): several CLI processes, each holding an entry of its own   *)
(* for the server it talks to, and one cache file they all rewrite whole,  *)
(* without a lock between them.  The server rotates the refresh token at   *)
(* every refresh and answers a replay by revoking the whole family.        *)
(*                                                                         *)
(* A pair of tokens is the number of the issue that made it, 0 is no pair. *)
(* A process is split where another one, or the server, can act: a request *)
(* under way, its answer under way, a cache read and not yet written back. *)
(***************************************************************************)
EXTENDS Integers, FiniteSets, Sequences

CONSTANTS
  Procs, Origins,     \* CLI processes; servers, by origin
  Pointings,          \* which server each process may be pointed at
  DeviceLifetime,     \* expires_in of a device code, seconds
  DeviceInterval,     \* interval of a device answer; 0 when it names none
  MaxPairs, MaxRuns, MaxFaults  \* bounds: issues; runs of the CLI; faults

VARIABLES
  file,      \* oauth-tokens.yaml: the pair cached for each origin
  origin,    \* the server a process was pointed at
  entry,     \* c.entry of a process
  pc,        \* off, ready, or the point a call has reached
  doing,     \* the call being made: login, token or logout
  snap,      \* the cache as a process read it, to be written back changed
  answer,    \* what the server answered
  device,    \* of a device login: seconds spent, and the interval
  family,    \* server: the login each issued pair descends from
  live,      \* server: pairs whose refresh token is on file
  rotated,   \* server: pairs refreshed away, and remembered
  stale,     \* pairs whose access token is within the skew of its expiry
  shaken,    \* history: families of which an answer or a write was lost,
             \* or which two processes held at once
  replayed,  \* history: families revoked because of a replay
  used       \* how much of the bounds is used up

vars == <<file, origin, entry, pc, doing, snap, answer, device, family, live,
          rotated, stale, shaken, replayed, used>>

Pairs == 1 .. Len(family)
Said(kind, pair) == [kind |-> kind, pair |-> pair]
Answers == {Said(k, 0) : k \in {"none", "lost", "rejected", "pending", "slow_down", "error"}}
             \cup {Said("pair", t) : t \in 1 .. MaxPairs}
NoAnswer == Said("none", 0)
Overwritten == {family[file[o]] : o \in {x \in Origins : file[x] # 0 /\ file'[x] # file[x]}}
Waiting == {"refresh", "poll", "exchange"}   \* a token request is under way

Idle == [doing |-> "none", snap |-> [o \in Origins |-> 0], answer |-> NoAnswer,
         device |-> [spent |-> 0, interval |-> 0]]

Init ==
  /\ file = [o \in Origins |-> 0]
  /\ origin \in Pointings
  /\ entry = [p \in Procs |-> 0] /\ pc = [p \in Procs |-> "off"]
  /\ doing = [p \in Procs |-> Idle.doing]
  /\ snap = [p \in Procs |-> Idle.snap] /\ answer = [p \in Procs |-> Idle.answer]
  /\ device = [p \in Procs |-> Idle.device]
  /\ family = <<>> /\ live = {} /\ rotated = {} /\ stale = {}
  /\ shaken = {} /\ replayed = {}
  /\ used = [runs |-> 0, faults |-> 0]

Server == <<family, live, rotated, replayed>>
At(p, where) == pc' = [pc EXCEPT ![p] = where]
\* The call of a process is over; what it was about is forgotten.
Settle(p, where) ==
  /\ At(p, where)
  /\ doing' = [doing EXCEPT ![p] = Idle.doing] /\ snap' = [snap EXCEPT ![p] = Idle.snap]
  /\ answer' = [answer EXCEPT ![p] = Idle.answer] /\ device' = [device EXCEPT ![p] = Idle.device]
Hold(p, pair) == entry' = [entry EXCEPT ![p] = pair]
Fault == /\ used.faults < MaxFaults
         /\ used' = [used EXCEPT !.faults = @ + 1]
FamilyOf(pair) == IF pair = 0 THEN {} ELSE {family[pair]}
Descendants(f) == {t \in Pairs : family[t] = f}

-----------------------------------------------------------------------------
(* The server, as far as this client can tell.                             *)

\* A new pair, of the same login or of a new one.
Issue(p, of) ==
  /\ Len(family) < MaxPairs
  /\ family' = Append(family, of)
  /\ answer' = [answer EXCEPT ![p] = Said("pair", Len(family) + 1)]

NewLogin == Len(family) + 1

\* handleRefreshTokenGrant: the token is taken and a new pair issued; a token
\* rotated before takes its whole family with it; an unknown one is refused.
ServerRefresh(p) ==
  LET t == entry[p] IN
  /\ pc[p] = "refresh" /\ answer[p] = NoAnswer
  /\ \/ /\ t \in live
        /\ Issue(p, family[t])
        /\ live' = (live \ {t}) \cup {Len(family) + 1} /\ rotated' = rotated \cup {t}
        /\ UNCHANGED replayed
     \/ /\ t \notin live
        /\ answer' = [answer EXCEPT ![p] = Said("rejected", 0)]
        /\ IF t \in rotated
             THEN /\ live' = live \ Descendants(family[t])
                  /\ replayed' = replayed \cup {family[t]}
             ELSE UNCHANGED <<live, replayed>>
        /\ UNCHANGED <<family, rotated>>
  /\ UNCHANGED <<file, origin, entry, pc, doing, snap, device, stale, shaken, used>>

\* The user approves a login: the code is redeemed, or the device poll answered.
ServerApproves(p) ==
  /\ pc[p] \in {"exchange", "poll"} /\ answer[p] = NoAnswer
  /\ Issue(p, NewLogin)
  /\ live' = live \cup {Len(family) + 1}
  /\ UNCHANGED <<file, origin, entry, pc, doing, snap, device, rotated, stale, shaken,
                 replayed, used>>

\* It is refused, or not decided yet; slow_down asks for a longer interval.
ServerDefers(p, verdict) ==
  /\ pc[p] \in {"exchange", "poll"} /\ answer[p] = NoAnswer
  /\ verdict \in {"pending", "slow_down"} => pc[p] = "poll"
  /\ answer' = [answer EXCEPT ![p] = Said(verdict, 0)]
  /\ UNCHANGED <<file, origin, entry, pc, doing, snap, device, Server, stale, shaken, used>>

\* Time: the access token of a pair comes within the skew of its expiry.
Expire(pair) ==
  /\ pair \in Pairs \ stale
  /\ stale' = stale \cup {pair}
  /\ UNCHANGED <<file, origin, entry, pc, doing, snap, answer, device, Server, shaken, used>>

\* The server keeps everything in memory.
ServerRestart ==
  /\ Fault /\ live # {}
  /\ live' = {} /\ rotated' = {}
  /\ UNCHANGED <<file, origin, entry, pc, doing, snap, answer, device, family, stale,
                 shaken, replayed>>

\* A request or its answer never arrives, or the server errs: a transport
\* error or a 5xx either way, whatever the server did.  (Past MaxPairs it is
\* the only answer.)
Lose(p) ==
  /\ IF Len(family) = MaxPairs THEN UNCHANGED used ELSE Fault
  /\ pc[p] \in Waiting /\ answer[p].kind # "lost"
  /\ answer' = [answer EXCEPT ![p] = Said("lost", 0)]
  /\ shaken' = shaken \cup FamilyOf(entry[p]) \cup FamilyOf(answer[p].pair)
  /\ UNCHANGED <<file, origin, entry, pc, doing, snap, device, Server, stale>>

-----------------------------------------------------------------------------
(* The calls of the client.                                                *)

\* A pair another running process holds as well.
Shared(p, pair) ==
  IF pair # 0 /\ \E q \in Procs \ {p} : pc[q] # "off" /\ entry[q] \in Descendants(family[pair])
    THEN FamilyOf(pair) ELSE {}

\* A fresh token is returned as it is, a stale one is refreshed first.
\* A pair of this server always carries a refresh token.
UseHeld(p, held, whenNone) ==
  /\ Hold(p, held)
  /\ shaken' = shaken \cup Shared(p, held)
  /\ At(p, IF held = 0 THEN whenNone ELSE IF held \in stale THEN "refresh" ELSE "ready")
  /\ answer' = [answer EXCEPT ![p] = NoAnswer]

\* Login: what the file holds replaces what the process held.
StartLogin(p) ==
  /\ pc[p] = "off" /\ used.runs < MaxRuns
  /\ used' = [used EXCEPT !.runs = @ + 1]
  /\ doing' = [doing EXCEPT ![p] = "login"]
  /\ UseHeld(p, IF file[origin[p]] # 0 THEN file[origin[p]] ELSE entry[p], "register")
  /\ UNCHANGED <<file, origin, snap, device, Server, stale>>

\* Token: the file is read only by a process that holds nothing.
StartToken(p) ==
  LET held == IF entry[p] = 0 THEN file[origin[p]] ELSE entry[p] IN
  /\ pc[p] = "ready" /\ (held \in stale \/ held # entry[p])
  /\ doing' = [doing EXCEPT ![p] = "token"]
  /\ UseHeld(p, held, "ready")
  /\ UNCHANGED <<file, origin, snap, device, Server, stale, used>>

\* A pair has arrived: it is held, and the cache is read to be rewritten.
ReceivePair_KeepsOld(p) ==
  /\ pc[p] \in Waiting /\ answer[p].kind = "pair"
  /\ Hold(p, IF entry[p] = 0 THEN answer[p].pair ELSE entry[p])
  /\ snap' = [snap EXCEPT ![p] = file] /\ At(p, "persist")
  /\ UNCHANGED <<file, origin, doing, answer, device, Server, stale, shaken, used>>
ReceivePair(p) ==
  /\ pc[p] \in Waiting /\ answer[p].kind = "pair"
  /\ Hold(p, answer[p].pair)
  /\ snap' = [snap EXCEPT ![p] = file] /\ At(p, "persist")
  /\ UNCHANGED <<file, origin, doing, answer, device, Server, stale, shaken, used>>

\* The rest of saveOAuthCache: the temporary file is renamed over the cache.
Persist(p) ==
  /\ pc[p] = "persist"
  /\ file' = [snap[p] EXCEPT ![origin[p]] = entry[p]]
  /\ Settle(p, "ready")
  /\ shaken' = shaken \cup (Overwritten \ FamilyOf(entry[p]))
  /\ UNCHANGED <<origin, entry, Server, stale, used>>

\* A call that fails: Token returns no token and stays; a login that fails
\* ends the program.
Fail(p) == Settle(p, IF doing[p] = "login" THEN "off" ELSE "ready")

\* The cache cannot be written: the error is that of the whole request, and
\* during a login's refresh it means a fresh sign-in.
PersistFails(p) ==
  /\ Fault /\ pc[p] = "persist"
  /\ shaken' = shaken \cup FamilyOf(entry[p])
  /\ IF doing[p] = "login"
       THEN /\ Hold(p, 0)
            /\ \/ At(p, "register") /\ UNCHANGED <<doing, snap, answer, device>>
               \/ Fail(p)
       ELSE Fail(p) /\ UNCHANGED entry
  /\ UNCHANGED <<file, origin, Server, stale>>

\* A refresh that brought no pair.  Login gives the entry up whatever the
\* reason; Token does only when the server rejected it, and then clears the
\* cache as well.
RefreshFailed(p) ==
  /\ pc[p] = "refresh" /\ answer[p].kind \in {"rejected", "lost"}
  /\ IF doing[p] = "login"
       THEN Hold(p, 0) /\ At(p, "register") /\ UNCHANGED <<doing, snap, answer, device>>
       ELSE IF answer[p].kind = "rejected"
         THEN /\ Hold(p, 0) /\ At(p, "erase")
              /\ snap' = [snap EXCEPT ![p] = file] /\ UNCHANGED <<doing, answer, device>>
         ELSE Fail(p) /\ UNCHANGED entry
  /\ UNCHANGED <<file, origin, Server, stale, shaken, used>>

\* clearCacheLocked writes the cache back without this server's entry.
Erase(p) ==
  /\ pc[p] = "erase"
  /\ file' = [snap[p] EXCEPT ![origin[p]] = 0]
  /\ Settle(p, "ready")
  /\ shaken' = shaken \cup Overwritten
  /\ UNCHANGED <<origin, entry, Server, stale, used>>

-----------------------------------------------------------------------------
(* Interactive login.                                                      *)

Begin(p, where) == At(p, where) /\ answer' = [answer EXCEPT ![p] = NoAnswer]

\* A fresh client is registered, always; then the browser, or, without one,
\* a device code.
Register(p) ==
  /\ pc[p] = "register"
  /\ \/ Begin(p, "browser") /\ UNCHANGED <<device, doing, snap>>
     \/ /\ Begin(p, "wait") /\ UNCHANGED <<doing, snap>>
        /\ device' = [device EXCEPT ![p] = [spent |-> 0,
             interval |-> IF DeviceInterval <= 0 THEN 5 ELSE DeviceInterval]]
     \/ Fail(p)
  /\ UNCHANGED <<file, origin, entry, Server, stale, shaken, used>>

\* loginLoopback: the browser cannot be opened; or the first callback decides,
\* and one that is refused, has another state or no code ends the login; or
\* nothing comes for five minutes.
Loopback(p, callback) ==
  /\ pc[p] = "browser"
  /\ \/ /\ callback = "unopened" /\ Begin(p, "wait") /\ UNCHANGED <<doing, snap>>
        /\ device' = [device EXCEPT ![p] = [spent |-> 0,
             interval |-> IF DeviceInterval <= 0 THEN 5 ELSE DeviceInterval]]
     \/ callback = "code" /\ Begin(p, "exchange") /\ UNCHANGED <<doing, snap, device>>
     \/ callback \in {"refused", "timeout"} /\ Fail(p)
  /\ UNCHANGED <<file, origin, entry, Server, stale, shaken, used>>

\* loginDevice sleeps, then polls, until the code has expired.
WaitToPoll(p) ==
  /\ pc[p] = "wait"
  /\ IF device[p].spent > DeviceLifetime
       THEN Fail(p)
       ELSE /\ Begin(p, "poll") /\ UNCHANGED <<doing, snap>>
            /\ device' = [device EXCEPT ![p].spent = @ + device[p].interval]
  /\ UNCHANGED <<file, origin, entry, Server, stale, shaken, used>>

\* An answer that brought no pair: pending and slow_down go on polling, any
\* other, a transport error too, ends the login.
LoginAnswer(p) ==
  /\ pc[p] \in {"exchange", "poll"} /\ answer[p].kind \in {"lost", "error", "pending", "slow_down"}
  /\ IF answer[p].kind \in {"pending", "slow_down"}
       THEN /\ At(p, "wait") /\ UNCHANGED <<doing, snap, answer>>
            /\ device' = IF answer[p].kind = "slow_down"
                           THEN [device EXCEPT ![p].interval = @ + 5] ELSE device
       ELSE Fail(p)
  /\ UNCHANGED <<file, origin, entry, Server, stale, shaken, used>>

-----------------------------------------------------------------------------
(* Logout, and the end of a process.                                       *)

\* The cache is read, and the refresh token it holds is what gets revoked;
\* an answer that never comes is ignored.  The server forgets only a token
\* that is on file.
StartLogout(p, heard) ==
  LET t == file[origin[p]] IN
  /\ pc[p] = "ready"
  /\ IF heard THEN UNCHANGED <<used, shaken>> ELSE Fault /\ shaken' = shaken \cup FamilyOf(t)
  /\ snap' = [snap EXCEPT ![p] = file]
  /\ live' = IF heard THEN live \ {t} ELSE live
  /\ doing' = [doing EXCEPT ![p] = "logout"] /\ At(p, IF heard THEN "forget" ELSE "unheard")
  /\ UNCHANGED <<file, origin, entry, answer, device, family, rotated, stale, replayed>>

\* The entry goes whatever the server said, and the program ends.
FinishLogout(p) ==
  /\ pc[p] \in {"forget", "unheard"}
  /\ file' = [snap[p] EXCEPT ![origin[p]] = 0]
  /\ Hold(p, 0) /\ Settle(p, "off")
  /\ shaken' = shaken \cup Overwritten
  /\ UNCHANGED <<origin, Server, stale, used>>

\* The cache cannot be rewritten: a logout says so, the erasing of a rejected
\* pair does not. The process goes on, and finds in the file what it gave up.
\* (A logout that fails before its request changes nothing.)
CacheStays(p) ==
  /\ Fault /\ pc[p] \in {"erase", "forget", "unheard"}
  /\ Hold(p, 0) /\ Settle(p, "ready")
  /\ shaken' = shaken \cup FamilyOf(entry[p])
  /\ UNCHANGED <<file, origin, Server, stale>>

\* The program ends, at any point: what it held is gone.
Exit(p) ==
  /\ pc[p] # "off"
  /\ pc[p] # "ready" => Fault /\ shaken' = shaken \cup FamilyOf(entry[p])
       \cup FamilyOf(answer[p].pair)
  /\ pc[p] = "ready" => UNCHANGED <<shaken, used>>
  /\ Hold(p, 0) /\ Settle(p, "off")
  /\ UNCHANGED <<file, origin, Server, stale>>

Verdicts == {"pending", "slow_down", "error"}
Callbacks == {"unopened", "code", "refused", "timeout"}

\* What a call does by itself once begun; each of its waits has a deadline.
Step(p) ==
  \/ ReceivePair(p) \/ Persist(p) \/ RefreshFailed(p) \/ Erase(p) \/ Register(p)
  \/ \E c \in Callbacks : Loopback(p, c)
  \/ WaitToPoll(p) \/ LoginAnswer(p) \/ FinishLogout(p)
Answered(p) ==
  \/ ServerRefresh(p) \/ ServerApproves(p) \/ Lose(p)
  \/ \E v \in Verdicts : ServerDefers(p, v)

Next ==
  \/ \E p \in Procs :
       \/ Step(p) \/ Answered(p)
       \/ StartLogin(p) \/ StartToken(p) \/ PersistFails(p) \/ CacheStays(p) \/ Exit(p)
       \/ \E heard \in BOOLEAN : StartLogout(p, heard)
  \/ \E t \in Pairs : Expire(t)
  \/ ServerRestart

Spec == Init /\ [][Next]_vars

\* A process runs on, and a request is answered or given up after 15 s.
FairSpec == Spec /\ \A p \in Procs : WF_vars(Step(p)) /\ WF_vars(Answered(p))

-----------------------------------------------------------------------------
(* Properties.                                                             *)

TypeOK ==
  /\ file \in [Origins -> 0 .. MaxPairs] /\ origin \in [Procs -> Origins]
  /\ entry \in [Procs -> 0 .. MaxPairs]
  /\ pc \in [Procs -> {"off", "ready", "refresh", "persist", "erase", "register",
                       "browser", "exchange", "wait", "poll", "forget", "unheard"}]
  /\ doing \in [Procs -> {"none", "login", "token", "logout"}]
  /\ snap \in [Procs -> [Origins -> 0 .. MaxPairs]]
  /\ answer \in [Procs -> Answers]
  /\ device \in [Procs -> [spent : Nat, interval : Nat]]
  /\ live \subseteq Pairs /\ rotated \subseteq Pairs /\ stale \subseteq Pairs
  /\ shaken \subseteq Pairs /\ replayed \subseteq shaken

\* A CLI alone on its login, that loses no answer and no write, never replays
\* a refresh token: the server revokes a family for a replay only after a
\* token of it was lost under way, could not be written, was overwritten by a
\* process that had read the cache before, or was held by two processes.
ReplayOnlyAfterLoss == replayed \subseteq shaken

\* A pair the file caches can be refreshed, or its process knows better: the
\* family of an undisturbed login has its one live pair in the file, or in
\* the hands of the process that is about to write it there.
LiveIsReachable ==
  \A t \in live :
    family[t] \notin shaken =>
      \/ \E o \in Origins : file[o] = t
      \/ \E p \in Procs : pc[p] # "off" /\ (entry[p] = t \/ answer[p].pair = t)

\* What is said of /logout: the session this CLI was using is revoked, when
\* the request to revoke it was heard.  The code revokes what the file holds,
\* which another process, or a write that failed, may have made another pair.
\* Not so in the code: see the README.
LogoutRevokes ==
  [][\A p \in Procs : pc[p] = "forget" /\ pc'[p] = "off" /\ entry[p] # 0
       => live' \cap Descendants(family[entry[p]]) = {}]_vars

\* Every call ends: a login in the end holds a pair or has failed, however
\* long the user takes, and a token is returned or is not.
CallEnds == \A p \in Procs : pc[p] \notin {"off", "ready"} ~> pc[p] \in {"off", "ready"}

-----------------------------------------------------------------------------
(* The inductive invariant behind LoginHolds.                              *)

\* Two pairs of one login; and a pair of a login that nothing has disturbed.
SameLogin(t, u) == t # 0 /\ u # 0 /\ family[t] = family[u]
Sound(t) == t # 0 /\ family[t] \notin shaken

\* A pair is issued in a login that began with it or before it, and whatever
\* is held anywhere has been issued.
Issued ==
  /\ family \in Seq(Nat) /\ Len(family) <= MaxPairs
  /\ \A t \in Pairs : family[t] \in 1 .. t
  /\ \A o \in Origins : file[o] \in 0 .. Len(family)
  /\ \A p \in Procs :
       /\ entry[p] \in 0 .. Len(family) /\ answer[p].pair \in 0 .. Len(family)
       /\ \A o \in Origins : snap[p][o] \in 0 .. Len(family)

\* What a process holds at each point of a call.
PlaceOK(p) ==
  /\ pc[p] \in {"off", "register", "browser", "exchange", "wait", "poll", "erase"}
       => entry[p] = 0
  /\ pc[p] \in {"refresh", "persist"} => entry[p] # 0
  /\ pc[p] = "persist" => answer[p].pair = entry[p]
  /\ answer[p].pair # 0 =>
       \/ pc[p] \in Waiting \cup {"persist"}
       \/ pc[p] = "register" /\ family[answer[p].pair] \in shaken
  /\ pc[p] = "refresh" /\ answer[p].pair # 0 =>
       SameLogin(answer[p].pair, entry[p]) /\ entry[p] \notin live
PlacesOK == \A p \in Procs : PlaceOK(p)

\* The pairs of a login are all of one server.
PlacedBy(home) ==
  /\ \A o \in Origins : file[o] # 0 => home[family[file[o]]] = o
  /\ \A p \in Procs :
       /\ entry[p] # 0 => home[family[entry[p]]] = origin[p]
       /\ answer[p].pair # 0 => home[family[answer[p].pair]] = origin[p]
       /\ \A o \in Origins : snap[p][o] # 0 => home[family[snap[p][o]]] = o
Placed == \E home \in [1 .. MaxPairs -> Origins] : PlacedBy(home)

\* The answer to a new login is all there is of it.
FreshLogin ==
  \A p \in Procs : pc[p] \in {"exchange", "poll"} =>
    LET t == answer[p].pair IN
    /\ \A o \in Origins : ~SameLogin(t, file[o])
    /\ \A q \in Procs :
         /\ ~SameLogin(t, entry[q]) /\ (q # p => ~SameLogin(t, answer[q].pair))
         /\ \A o \in Origins : ~SameLogin(t, snap[q][o])

\* An undisturbed login is held by one process,
HeldAlone ==
  \A p, q \in Procs : p # q /\ Sound(entry[p]) => ~SameLogin(entry[p], entry[q])

\* which holds what the file caches, unless a refreshed pair is on its way,
HeldCached ==
  \A p \in Procs :
    pc[p] \in {"ready", "refresh", "forget", "unheard"} /\ Sound(entry[p])
      => file[origin[p]] = entry[p]

\* and the live pair, if there is one,
HeldNewest ==
  \A p \in Procs : Sound(entry[p]) =>
    \A t \in live : SameLogin(t, entry[p]) => t \in {entry[p], answer[p].pair}

\* and a pair refreshed away only while the new one is under way;
HeldUnspent ==
  \A p \in Procs :
    /\ Sound(entry[p]) /\ entry[p] \in rotated => pc[p] = "refresh" /\ answer[p].pair # 0
    /\ Sound(answer[p].pair) => answer[p].pair \notin rotated

\* the file caches such a pair only while a process holds the login;
FileUnspent ==
  \A o \in Origins : Sound(file[o]) /\ file[o] \in rotated =>
    \E p \in Procs : SameLogin(file[o], entry[p])

\* and where a process has read a pair, the file still caches its login.
SnapFollowed ==
  \A p \in Procs, o \in Origins : Sound(snap[p][o]) => SameLogin(snap[p][o], file[o])

TokenInv ==
  /\ TypeOK /\ ReplayOnlyAfterLoss /\ LiveIsReachable
  /\ Issued /\ PlacesOK /\ Placed /\ FreshLogin
  /\ HeldAlone /\ HeldCached /\ HeldNewest /\ HeldUnspent /\ FileUnspent /\ SnapFollowed
=============================================================================

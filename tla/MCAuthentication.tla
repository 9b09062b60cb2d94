-------------------------- MODULE MCAuthentication --------------------------
(***************************************************************************)
(* What runs beside the handlers of the authentication, each in behaviours *)
(* of its own, the others as they begin: the watcher of the token and user *)
(* files; the token endpoint with one handler and room for three tokens;   *)
(* two device codes that expire and are swept.                             *)
(***************************************************************************)
EXTENDS FileWatcher

CONSTANTS v1, v2, bad, k1, k2, s1, s2, None, Refused, t1, c1, c2, d1, d2, u1, u2

VARIABLES part, now, tokens, codes, usedCodes, rotated, active, hook, pc, req,
          nextHash, minted, delivered, reported, lineage, killed,
          deviceNow, devices, userCodes, deviceActive, deviceHook, devicePc,
          deviceReq, deviceMinted, answer, answers, grants

Token == INSTANCE OAuthTokensRefinement WITH
  Threads <- {t1}, Subjects <- {s1}, Codes <- {c1, c2}, MaxHash <- 4, MaxTime <- 2,
  CodeTTL <- 1, AccessTTL <- 1, RefreshTTL <- 2, CodeLimit <- 1, TokenLimit <- 3
Device == INSTANCE DeviceGrant WITH
  Threads <- {t1}, Subjects <- {s1}, Devices <- {d1, d2}, UserCodes <- {u1, u2},
  Colliding <- FALSE, MaxTime <- 2, DeviceTTL <- 1, Interval <- 1, DeviceLimit <- 2,
  now <- deviceNow, active <- deviceActive, hook <- deviceHook, pc <- devicePc,
  req <- deviceReq, minted <- deviceMinted

tokenVars == <<now, tokens, codes, usedCodes, rotated, active, hook, pc, req,
               nextHash, minted, delivered, reported, lineage, killed>>
deviceVars == <<deviceNow, devices, userCodes, deviceActive, deviceHook, devicePc,
                deviceReq, deviceMinted, answer, answers, grants>>

all == <<part, vars, tokenVars, deviceVars>>

AuthInit ==
  /\ Init /\ Token!Init /\ Device!Init
  /\ part \in {"watcher", "tokens", "devices"}
  /\ part # "watcher" => store = v1

\* One of them runs.
Only(what, A) ==
  /\ part = what
  /\ A
  /\ CASE what = "watcher" -> UNCHANGED <<part, tokenVars, deviceVars>>
       [] what = "tokens" -> UNCHANGED <<part, vars, deviceVars>>
       [] what = "devices" -> UNCHANGED <<part, vars, tokenVars>>

AuthNext ==
  Only("watcher", Next) \/ Only("tokens", Token!Next) \/ Only("devices", Device!Next)

\* Each as its own module states it, while it is the one that runs.
AuthFairness ==
  /\ WF_vars(part = "watcher" /\ Watch)
  /\ \A c \in Callbacks :
       SF_vars(part = "watcher" /\ Lock(c)) /\ WF_vars(part = "watcher" /\ Check(c))
  /\ \A s \in Stoppers : WF_vars(part = "watcher" /\ Stopping(s))
  /\ WF_tokenVars(part = "tokens" /\ Token!Continue(t1))
  /\ WF_tokenVars(part = "tokens" /\ Token!Sweep)
  /\ WF_tokenVars(part = "tokens" /\ Token!Tick)
  /\ WF_deviceVars(part = "devices" /\ Device!Continue(t1))
  /\ WF_deviceVars(part = "devices" /\ Device!Sweep)
  /\ WF_deviceVars(part = "devices" /\ Device!Tick)

AuthSpec == AuthInit /\ [][AuthNext]_all /\ AuthFairness

\* What holds of one handler and of user codes that differ: a family that a
\* replay has deleted leaves no token, and a device in the store is the one its
\* user code leads to.  With two handlers the first fails (the run
\* tokens_replay_race), with one user code for two devices the second.
StoresWhole == Token!ReplayRevokesWholeFamily /\ Device!IndexComplete

\* Whoever stops a watcher gets back; every access token that goes is
\* reported; every device code goes.
EverythingEnds == StopReturns /\ Token!EventuallyReported /\ Device!DevicesDrain
=============================================================================

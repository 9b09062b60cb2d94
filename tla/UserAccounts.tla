--------------------------- MODULE UserAccounts ---------------------------
(***************************************************************************)
(* The user accounts of the server: the rows in memory and the YAML file   *)
(* behind them, which the server writes after a login by the tool          *)
(* authenticate_user, and which the administrator's commands edit from a   *)
(* process of their own; the reload after a change of the file; lockout    *)
(* after failed attempts, and the rate limiter on the addresses they come  *)
(* from.                                                                   *)
(*                                                                         *)
(* Each critical section under UserStore.mu or RateLimiter.mu is one step. *)
(* SaveUserStore takes no lock: it reads the rows in two steps (LastLogin  *)
(* and enabled, then failed_attempts, the order of the fields), empties    *)
(* the file and then writes it.  Passwords are right or wrong; a row's     *)
(* other data (password hash, annotation, creation) is one revision, up    *)
(* by one with every edit.  An attempt outside the limiter's window counts *)
(* for no one, so only those inside are kept.                              *)
(***************************************************************************)
EXTENDS Integers, FiniteSets

CONSTANTS
  Users, Callers, Addresses,
  Absent,              \* no such account, no such file content
  MaxFailedAttempts,   \* max_failed_attempts_before_lockout, 0 for none
  MaxAttempts,         \* rate_limit_max_attempts
  MaxRequests, MaxEdits  \* bounds: logins attempted, commands run

VARIABLES
  mem,        \* store.Users
  file,       \* the content of the file
  lastHash,   \* the watcher's record of the content it last loaded
  event,      \* the file has changed since the watcher last looked
  check,      \* the watcher's check: where it is, what it hashed and read
  attempts,   \* per address, the failed attempts inside the window
  req,        \* each caller's login: where it is, whose, from where, what by
  admin,      \* the administrator's command: where it is, its own store
  requests,   \* bound: logins attempted so far
  edits,      \* bound: commands run so far
  reported,   \* history: the hook was called since the account was withdrawn
  everActive, \* history: the account has been usable
  lockedOut   \* history: locked out, and no enable or delete command since

vars == <<mem, file, lastHash, event, check, attempts, req, admin, edits,
          reported, everActive, lockedOut, requests>>

Row == [enabled : BOOLEAN, failed : Nat, login : Nat, rev : Nat]

Content == [Users -> Row \cup {Absent}]

\* The YAML of an emptied file: no error, and no users.
Empty == [u \in Users |-> Absent]

Active(rows, u) == rows[u] # Absent /\ rows[u].enabled

NoCheck == [step |-> "idle", hash |-> Absent, read |-> Absent, report |-> {}]
NoReq   == [step |-> "idle", user |-> Absent, addr |-> Absent, tool |-> FALSE,
            save |-> Absent]
NoAdmin == [step |-> "idle", store |-> Empty, enables |-> {}]

\* The locals of a login, of the watcher's check and of a command.
Login == [step : {"idle", "admitted", "notify", "count", "reset", "half",
                  "marshalled", "emptied"},
          user : Users \cup {Absent}, addr : Addresses \cup {Absent},
          tool : BOOLEAN, save : Content \cup {Absent}]
Check == [step : {"idle", "read", "apply", "notify", "record"},
          hash : Content \cup {Absent}, read : Content \cup {Absent},
          report : SUBSET Users]
Edit  == [step : {"idle", "loaded", "emptied"}, store : Content,
          enables : SUBSET Users]

TypeOK ==
  /\ mem \in Content /\ file \in Content /\ lastHash \in Content
  /\ event \in BOOLEAN
  /\ check \in Check
  /\ attempts \in [Addresses -> Nat]
  /\ req \in [Callers -> Login]
  /\ admin \in Edit
  /\ requests \in 0 .. MaxRequests /\ edits \in 0 .. MaxEdits
  /\ reported \in [Users -> BOOLEAN]
  /\ everActive \in [Users -> BOOLEAN]
  /\ lockedOut \in [Users -> BOOLEAN]

\* The server starts on the file an administrator left.
Init ==
  /\ file \in [Users -> [enabled : BOOLEAN, failed : {0}, login : {0},
                         rev : {0}] \cup {Absent}]
  /\ mem = file
  /\ lastHash = file
  /\ event = FALSE
  /\ check = NoCheck
  /\ attempts = [a \in Addresses |-> 0]
  /\ req = [c \in Callers |-> NoReq]
  /\ admin = NoAdmin
  /\ requests = 0
  /\ edits = 0
  /\ reported = [u \in Users |-> FALSE]
  /\ everActive = [u \in Users |-> Active(file, u)]
  /\ lockedOut = [u \in Users |-> FALSE]

\* What a change of the rows in memory means to the histories.
Witness(rows) ==
  /\ everActive' = [u \in Users |-> everActive[u] \/ Active(rows, u)]
  /\ reported' = [u \in Users |-> reported[u] /\ ~Active(rows, u)]

(***************************************************************************)
(* Logins: the tool authenticate_user, and the OAuth pages                 *)
(***************************************************************************)

Goto(c, step) == req' = [req EXCEPT ![c].step = step]

Return(c) == req' = [req EXCEPT ![c] = NoReq]

\* Mutant: the limit itself is still allowed.
IsAllowed_AtLimit(a) == attempts[a] <= MaxAttempts

\* RateLimiter.IsAllowed. An address of which nothing is recorded is let in,
\* whatever the limit.
IsAllowed(a) == attempts[a] = 0 \/ attempts[a] < MaxAttempts

\* What both kinds of login begin with.
Admit(c, u, a, tool) ==
  /\ req[c].step = "idle"
  /\ requests < MaxRequests
  /\ requests' = requests + 1
  /\ IsAllowed(a)
  /\ req' = [req EXCEPT ![c] = [NoReq EXCEPT !.step = "admitted", !.user = u,
                                !.addr = a, !.tool = tool]]
  /\ UNCHANGED <<mem, file, lastHash, event, check, attempts, admin, edits,
                 reported, everActive, lockedOut>>

\* The tool authenticate_user, whose success the server saves.
LoginByTool(c, u, a) == Admit(c, u, a, TRUE)

\* UserStoreAuthenticator.Authenticate, for the OAuth pages, which saves nothing.
LoginByPage(c, u, a) == Admit(c, u, a, FALSE)

\* AuthenticateUser: an unknown or disabled account.
Refuse(c) ==
  /\ req[c].step = "admitted"
  /\ ~Active(mem, req[c].user)
  /\ Goto(c, "count")
  /\ UNCHANGED <<mem, file, lastHash, event, check, attempts, admin, edits,
                 reported, everActive, lockedOut, requests>>

\* Mutant: a lockout is not reported to the revocation hook.
WrongPassword_Silent(c) ==
  LET u == req[c].user
      failed == mem[u].failed + 1
      locks == MaxFailedAttempts > 0 /\ failed >= MaxFailedAttempts
  IN
  /\ req[c].step = "admitted"
  /\ Active(mem, u)
  /\ mem' = [mem EXCEPT ![u].failed = failed, ![u].enabled = ~locks]
  /\ lockedOut' = [lockedOut EXCEPT ![u] = @ \/ locks]
  /\ Goto(c, "count")
  /\ Witness(mem')
  /\ UNCHANGED <<file, lastHash, event, check, attempts, admin, edits,
                 requests>>

\* AuthenticateUser: a wrong password, and the lockout it may cause.
WrongPassword(c) ==
  LET u == req[c].user
      failed == mem[u].failed + 1
      locks == MaxFailedAttempts > 0 /\ failed >= MaxFailedAttempts
  IN
  /\ req[c].step = "admitted"
  /\ Active(mem, u)
  /\ mem' = [mem EXCEPT ![u].failed = failed, ![u].enabled = ~locks]
  /\ lockedOut' = [lockedOut EXCEPT ![u] = @ \/ locks]
  /\ Goto(c, IF locks THEN "notify" ELSE "count")
  /\ Witness(mem')
  /\ UNCHANGED <<file, lastHash, event, check, attempts, admin, edits,
                 requests>>

\* notifyRevoked, after the lock is released.
NotifyLockout(c) ==
  /\ req[c].step = "notify"
  /\ reported' = [reported EXCEPT ![req[c].user] = ~Active(mem, req[c].user)]
  /\ Goto(c, "count")
  /\ UNCHANGED <<mem, file, lastHash, event, check, attempts, admin, edits,
                 everActive, lockedOut, requests>>

\* RateLimiter.RecordFailedAttempt.
CountFailure(c) ==
  /\ req[c].step = "count"
  /\ attempts' = [attempts EXCEPT ![req[c].addr] = @ + 1]
  /\ Return(c)
  /\ UNCHANGED <<mem, file, lastHash, event, check, admin, edits, reported,
                 everActive, lockedOut, requests>>

\* AuthenticateUser: the right password; the session token is not persisted.
RightPassword(c) ==
  LET u == req[c].user IN
  /\ req[c].step = "admitted"
  /\ Active(mem, u)
  /\ mem' = [mem EXCEPT ![u].failed = 0, ![u].login = @ + 1]
  /\ Goto(c, "reset")
  /\ UNCHANGED <<file, lastHash, event, check, attempts, admin, edits,
                 reported, everActive, lockedOut, requests>>

\* RateLimiter.Reset; a page's login ends here, the tool's goes on to save,
\* and marshals the first half of every row.
ResetAttempts(c) ==
  /\ req[c].step = "reset"
  /\ attempts' = [attempts EXCEPT ![req[c].addr] = 0]
  /\ IF req[c].tool
     THEN req' = [req EXCEPT ![c].step = "half", ![c].save = mem]
     ELSE Return(c)
  /\ UNCHANGED <<mem, file, lastHash, event, check, admin, edits, reported,
                 everActive, lockedOut, requests>>

\* yaml.Marshal, still: failed_attempts of the rows that were there.
MarshalRest(c) ==
  /\ req[c].step = "half"
  /\ req' = [req EXCEPT ![c].step = "marshalled",
       ![c].save = [u \in Users |->
         IF Absent \in {@[u], mem[u]} THEN @[u]
         ELSE [@[u] EXCEPT !.failed = mem[u].failed]]]
  /\ UNCHANGED <<mem, file, lastHash, event, check, attempts, admin, edits,
                 reported, everActive, lockedOut, requests>>

\* os.WriteFile empties the file, then writes it.
Truncate(c) ==
  /\ req[c].step = "marshalled"
  /\ file' = Empty
  /\ event' = TRUE
  /\ Goto(c, "emptied")
  /\ UNCHANGED <<mem, lastHash, check, attempts, admin, edits, reported,
                 everActive, lockedOut, requests>>

Write(c) ==
  /\ req[c].step = "emptied"
  /\ file' = req[c].save
  /\ event' = TRUE
  /\ Return(c)
  /\ UNCHANGED <<mem, lastHash, check, attempts, admin, edits, reported,
                 everActive, lockedOut, requests>>

\* Failed attempts leave the window; cleanup then drops them.
LeaveWindow(a) ==
  /\ attempts[a] > 0
  /\ attempts' = [attempts EXCEPT ![a] = @ - 1]
  /\ UNCHANGED <<mem, file, lastHash, event, check, req, admin, edits,
                 reported, everActive, lockedOut, requests>>

(***************************************************************************)
(* The administrator's commands                                            *)
(***************************************************************************)

\* A command loads the file, talks to the administrator, and edits its row of
\* its own store, in which no hook is installed.
Command(u, row, lifts) ==
  /\ admin.step = "idle"
  /\ edits < MaxEdits
  /\ edits' = edits + 1
  /\ admin' = [step |-> "loaded", store |-> [file EXCEPT ![u] = row],
               enables |-> IF lifts THEN {u} ELSE {}]
  /\ UNCHANGED <<mem, file, lastHash, event, check, attempts, req, reported,
                 everActive, lockedOut, requests>>

AddUser(u) ==
  /\ file[u] = Absent
  /\ Command(u, [enabled |-> TRUE, failed |-> 0, login |-> 0, rev |-> 0], TRUE)

UpdateUser(u) ==
  /\ file[u] # Absent
  /\ Command(u, [file[u] EXCEPT !.rev = @ + 1], FALSE)

DeleteUser(u) ==
  /\ file[u] # Absent
  /\ Command(u, Absent, TRUE)

\* Enabling leaves the count of failed attempts as it is.
EnableUser(u) ==
  /\ file[u] # Absent
  /\ Command(u, [file[u] EXCEPT !.enabled = TRUE], TRUE)

DisableUser(u) ==
  /\ file[u] # Absent
  /\ Command(u, [file[u] EXCEPT !.enabled = FALSE], FALSE)

EmptyFile ==
  /\ admin.step = "loaded"
  /\ admin' = [admin EXCEPT !.step = "emptied"]
  /\ file' = Empty
  /\ event' = TRUE
  /\ UNCHANGED <<mem, lastHash, check, attempts, req, edits, reported,
                 everActive, lockedOut, requests>>

SaveFile ==
  /\ admin.step = "emptied"
  /\ admin' = NoAdmin
  /\ file' = admin.store
  /\ event' = TRUE
  /\ lockedOut' = [u \in Users |-> lockedOut[u] /\ u \notin admin.enables]
  /\ UNCHANGED <<mem, lastHash, check, attempts, req, edits, reported,
                 everActive, requests>>

(***************************************************************************)
(* The watcher's check and Reload                                          *)
(***************************************************************************)

\* hashFile.
HashFile ==
  /\ check.step = "idle"
  /\ event
  /\ event' = FALSE
  /\ check' = IF file = lastHash THEN NoCheck
              ELSE [NoCheck EXCEPT !.step = "read", !.hash = file]
  /\ UNCHANGED <<mem, file, lastHash, attempts, req, admin, edits, reported,
                 everActive, lockedOut, requests>>

\* Reload reads and parses the file outside the lock.
ReadFile ==
  /\ check.step = "read"
  /\ check' = [check EXCEPT !.step = "apply", !.read = file]
  /\ UNCHANGED <<mem, file, lastHash, event, attempts, req, admin, edits,
                 reported, everActive, lockedOut, requests>>

\* The accounts the new rows withdraw access from.
Withdrawn(rows) == {u \in Users : Active(mem, u) /\ ~Active(rows, u)}

\* Under the lock: the accounts withdrawn are noted, the rows replaced.
Apply ==
  /\ check.step = "apply"
  /\ mem' = check.read
  /\ check' = [check EXCEPT !.step = "notify", !.report = Withdrawn(check.read)]
  /\ Witness(check.read)
  /\ UNCHANGED <<file, lastHash, event, attempts, req, admin, edits, lockedOut,
                 requests>>

NotifyReload ==
  /\ check.step = "notify"
  /\ reported' = [u \in Users |->
       IF u \in check.report THEN ~Active(mem, u) ELSE reported[u]]
  /\ check' = [check EXCEPT !.step = "record", !.report = {}]
  /\ UNCHANGED <<mem, file, lastHash, event, attempts, req, admin, edits,
                 everActive, lockedOut, requests>>

RecordHash ==
  /\ check.step = "record"
  /\ lastHash' = check.hash
  /\ check' = NoCheck
  /\ UNCHANGED <<mem, file, event, attempts, req, admin, edits, reported,
                 everActive, lockedOut, requests>>

(***************************************************************************)
(* The specification                                                       *)
(***************************************************************************)

Next ==
  \/ \E c \in Callers :
       \/ \E u \in Users, a \in Addresses :
            LoginByTool(c, u, a) \/ LoginByPage(c, u, a)
       \/ Refuse(c) \/ WrongPassword(c) \/ NotifyLockout(c) \/ CountFailure(c)
       \/ RightPassword(c) \/ ResetAttempts(c) \/ MarshalRest(c) \/ Truncate(c)
       \/ Write(c)
  \/ \E a \in Addresses : LeaveWindow(a)
  \/ \E u \in Users : \/ AddUser(u) \/ UpdateUser(u) \/ DeleteUser(u)
                      \/ EnableUser(u) \/ DisableUser(u)
  \/ EmptyFile \/ SaveFile
  \/ HashFile \/ ReadFile \/ Apply \/ NotifyReload \/ RecordHash

Spec == Init /\ [][Next]_vars

(***************************************************************************)
(* Properties                                                              *)
(***************************************************************************)

\* A withdrawal of access (by a lockout, a command, or an empty file read in
\* the middle of a write) reaches the hook: whoever took an account out of use
\* is about to report it, or the hook has been called since.
WithdrawnReported ==
  \A u \in Users :
    everActive[u] /\ ~Active(mem, u) =>
      \/ reported[u]
      \/ u \in check.report
      \/ \E c \in Callers : req[c].step = "notify" /\ req[c].user = u

\* The logins from an address that IsAllowed let through and that may still
\* record a failed attempt.
PastLimiter(a) ==
  {c \in Callers : req[c].addr = a /\ req[c].step \in {"admitted", "notify", "count"}}

\* The number of failures at which an address is refused, which is never none.
FirstRefused == IF MaxAttempts = 0 THEN 1 ELSE MaxAttempts

\* IsAllowed and RecordFailedAttempt are apart: an address goes past the limit
\* by no more than the logins that were under way together.
OvershootBounded ==
  \A a \in Addresses :
    attempts[a] + Cardinality(PastLimiter(a)) <= FirstRefused - 1 + Cardinality(Callers)

\* "A lockout never expires on its own": an account locked out stays unusable
\* until an administrator enables it, or removes it.
LockoutHolds == \A u \in Users : lockedOut[u] => ~Active(mem, u)

(***************************************************************************)
(* The inductive invariant                                                 *)
(***************************************************************************)

\* A login at a step has what that step uses.
LoginSet(l) ==
  /\ l.step # "idle" => l.user \in Users /\ l.addr \in Addresses
  /\ l.step \in {"half", "marshalled", "emptied"} => l.save \in Content

\* Whoever is at a step has what it uses, and only a check that has replaced
\* the rows has something to report.
LocalsSet ==
  /\ \A c \in Callers : LoginSet(req[c])
  /\ check.step # "idle" => check.hash \in Content
  /\ check.step \in {"apply", "notify", "record"} => check.read \in Content
  /\ check.report # {} => check.step = "notify"

AccountsInv == TypeOK /\ LocalsSet /\ WithdrawnReported /\ OvershootBounded
=============================================================================

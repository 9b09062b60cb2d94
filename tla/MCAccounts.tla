----------------------------- MODULE MCAccounts -----------------------------
(***************************************************************************)
(* The two ends of an account's use, each in behaviours of its own, the    *)
(* other as it begins: the accounts and their file, where it is withdrawn  *)
(* and that is reported; and the database clients of the sessions, which   *)
(* are then released.                                                      *)
(***************************************************************************)
EXTENDS MCClientManager

CONSTANTS
  Users, Addresses, Absent, MaxFailedAttempts, MaxAttempts,  \* of UserAccounts
  MaxLogins, MaxCommands, MaxActs  \* bounds: logins, commands, and both together

VARIABLES part, mem, file, lastHash, event, check, attempts, login, admin, logins,
          commands, reported, everActive, lockedOut

Accounts == INSTANCE UserAccounts WITH
  Callers <- Requests, MaxRequests <- MaxLogins, MaxEdits <- MaxCommands,
  req <- login, requests <- logins, edits <- commands

\* The absent value is no row, and a login needs somebody to make it.
ASSUME AccountsAssumption ==
  /\ Absent \notin Accounts!Row
  /\ IsFiniteSet(Requests) /\ Requests # {}
  /\ MaxFailedAttempts \in Nat /\ MaxAttempts \in Nat
  /\ MaxLogins \in Nat /\ MaxCommands \in Nat

accountVars == <<mem, file, lastHash, event, check, attempts, login, admin, logins,
                 commands, reported, everActive, lockedOut>>
all == <<part, vars, accountVars>>

AccountsInit ==
  /\ part \in {"clients", "accounts"}
  /\ part = "clients" => file = Accounts!Empty
  /\ part = "accounts" => /\ configs = [d \in Databases |-> 0]
                           /\ default = CHOOSE d \in Databases : TRUE
  /\ Init /\ Accounts!Init

AccountsNext ==
  \/ part = "clients" /\ Next /\ UNCHANGED <<part, accountVars>>
  \/ /\ part = "accounts" /\ Accounts!Next /\ UNCHANGED <<part, vars>>
     /\ logins' + commands' <= MaxActs

AccountsSpec == AccountsInit /\ [][AccountsNext]_all

\* See UserAccounts: that the end of an account's use is told, and how far
\* logins under way together go past the limit.
WithdrawnReported == Accounts!TypeOK /\ Accounts!WithdrawnReported
OvershootBounded == Accounts!OvershootBounded
=============================================================================

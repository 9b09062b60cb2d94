-------------------------- MODULE MCClientLiveness --------------------------
(***************************************************************************)
(* Two instances of ClientManager with its fairness, each in behaviours of *)
(* its own: one call at a time on two databases that are reloaded, where   *)
(* every query ends; and two tokens on one database, where those of the    *)
(* first may run for ever.                                                 *)
(***************************************************************************)
CONSTANTS r1, r2, t1, t2, d1, d2, c1, c2, None, NoName, Mu

VARIABLES part, configs, default, current, entry, clients, conn, closing,
  waiting, standing, pc, req, loads, overtaken, late

Ending == INSTANCE ClientManager WITH
  Requests <- {r1}, Tokens <- {t1}, Databases <- {d1, d2}, Clients <- {c1, c2},
  Access <- [t \in {t1} |-> {d1, d2}], Slow <- {}, MaxReloads <- 1
Endless == INSTANCE ClientManager WITH
  Requests <- {r1, r2}, Tokens <- {t1, t2}, Databases <- {d1}, Clients <- {c1},
  Access <- [t \in {t1, t2} |-> {d1}], Slow <- {t1}, MaxReloads <- 0

vars == <<configs, default, current, entry, clients, conn, closing, waiting,
          standing, pc, req, loads, overtaken, late>>

LivenessInit ==
  \/ part = "ending" /\ Ending!Init
  \/ part = "endless" /\ Endless!Init

\* The one that runs takes the step.
Either(A, B) == (part = "ending" /\ A) \/ (part = "endless" /\ B)

LivenessNext == Either(Ending!Next, Endless!Next) /\ UNCHANGED part

\* ClientManager's fairness of the one that runs.
LivenessFairness ==
  /\ SF_vars(Either(Ending!RequestStep(r1), Endless!RequestStep(r1)))
  /\ SF_vars(Either(FALSE, Endless!RequestStep(r2)))
  /\ SF_vars(Either(Ending!Removal, Endless!Removal))
  /\ WF_vars(Either(Ending!EndQuery(r1), req[r1].token # t1 /\ Endless!EndQuery(r1)))
  /\ WF_vars(Either(FALSE, req[r2].token # t1 /\ Endless!EndQuery(r2)))
  /\ WF_vars(Either(Ending!Closing(Mu), Endless!Closing(Mu)))
  /\ WF_vars(Either(Ending!Closing(t1), Endless!Closing(t1)))
  /\ WF_vars(Either(FALSE, Endless!Closing(t2)))

LivenessSpec ==
  LivenessInit /\ [][LivenessNext]_<<part, vars>> /\ LivenessFairness

\* See ClientManager. Every call is served, although operations wait with the
\* manager's lock held for queries to end; where a query may never end, every
\* call of the other sessions is.
Waits(r) == IF r \in DOMAIN pc THEN pc[r] # "idle" ELSE FALSE
Owed(r) == IF part = "endless" THEN Waits(r) /\ req[r].token = t2 ELSE Waits(r)

Served == \A r \in {r1, r2} : Owed(r) ~> ~Waits(r)

\* The clients of a revoked token are closed in the end, but for those that
\* calls created which outlived it.
Revoked == IF part = "ending" THEN standing[t1] = "revoked" ELSE FALSE
Drained ==
  /\ standing[t1] = "removed"
  /\ \A c \in DOMAIN conn :
       conn[c] # None /\ conn[c].token = t1 /\ (conn[c].open \/ conn[c].queries # {})
         => c \in late

RevokedDrain == Revoked ~> Drained
=============================================================================

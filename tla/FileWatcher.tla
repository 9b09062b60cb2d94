---------------------------- MODULE FileWatcher ----------------------------
(***************************************************************************)
(* auth.FileWatcher: the token and the user store are loaded, then watched;*)
(* directory events restart a debounce timer, whose callback hashes the    *)
(* file and reloads the store when the content is not the last one seen;   *)
(* Stop waits for every callback that was scheduled.                       *)
(*                                                                         *)
(* The content of the file is a number; Missing stands for a path that     *)
(* cannot be opened.  The directory's unread events are one flag, as every *)
(* event is handled alike.  A timer's callback is a goroutine of its own.  *)
(***************************************************************************)
EXTENDS Integers, FiniteSets

CONSTANTS
  Contents,     \* contents the file may have
  Unreadable,   \* the contents that reloadFn cannot parse
  Missing,      \* the path does not resolve to a file
  Callbacks,    \* goroutines of fired timers, reused
  Stoppers,     \* goroutines that call Stop
  MaxChanges    \* bound: changes of the file

ASSUME WatcherAssumption ==
  /\ Missing \notin Contents
  /\ Unreadable \subseteq Contents
  /\ Contents \ Unreadable # {}
  /\ MaxChanges \in Nat
  /\ IsFiniteSet(Callbacks)
  /\ IsFiniteSet(Stoppers)

VARIABLES
  file,      \* what the path holds
  store,     \* the content the store was loaded from
  lastHash,  \* the content last recorded, Missing while hasHash is false
  setup,     \* LoadTokenStore, then NewFileWatcher, then Start
  event,     \* an unread directory event
  timer,     \* debounceTimer: none, armed, or fired
  watch,     \* the goroutine watch: unstarted, running, exited
  done,      \* fw.done and the fsnotify watcher are closed
  checkWG,   \* the wait group's counter
  cb,        \* each callback: where it is, the content it hashed or read
  mutex,     \* hashMu: its holder
  stop,      \* where each caller of Stop is
  once,      \* stopOnce: untouched, running, over
  changes,   \* bound: changes made so far
  missed     \* history: a change slipped past the recorded hash

vars == <<file, store, lastHash, setup, event, timer, watch, done, checkWG, cb,
          mutex, stop, once, changes, missed>>

Steps == {"free", "lock", "hash", "read", "record"}
Idle  == [step |-> "free", hash |-> Missing]

TypeOK ==
  /\ file \in Contents \cup {Missing}
  /\ store \in Contents
  /\ lastHash \in Contents \cup {Missing}
  /\ setup \in {"loaded", "created", "started"}
  /\ event \in BOOLEAN
  /\ timer \in {"none", "armed", "fired"}
  /\ watch \in {"unstarted", "running", "exited"}
  /\ done \in BOOLEAN
  /\ checkWG \in Int
  /\ cb \in [Callbacks -> [step : Steps, hash : Contents \cup {Missing}]]
  /\ mutex \in Callbacks \cup {Missing}
  /\ stop \in [Stoppers -> {"idle", "once", "exit", "wait", "returned"}]
  /\ once \in {"untouched", "running", "over"}
  /\ changes \in Nat
  /\ missed \in BOOLEAN

\* LoadTokenStore, LoadUserStore: a store that cannot be read ends the program.
Init ==
  /\ store \in Contents \ Unreadable
  /\ file = store
  /\ lastHash = Missing
  /\ setup = "loaded"
  /\ event = FALSE
  /\ timer = "none"
  /\ watch = "unstarted"
  /\ done = FALSE
  /\ checkWG = 0
  /\ cb = [c \in Callbacks |-> Idle]
  /\ mutex = Missing
  /\ stop = [s \in Stoppers |-> "idle"]
  /\ once = "untouched"
  /\ changes = 0
  /\ missed = FALSE

(***************************************************************************)
(* The file                                                                *)
(***************************************************************************)

\* Someone replaces, deletes or recreates the file: an event, once the
\* directory is watched.  Before, or back to the content recorded while the
\* store holds another, the change leaves no trace the check can see.
Change(content) ==
  /\ changes < MaxChanges
  /\ content # file
  /\ file' = content
  /\ changes' = changes + 1
  /\ event' = (setup # "loaded" /\ ~done)
  /\ missed' = \/ missed
               \/ setup = "loaded"
               \/ content = lastHash /\ store # content
  /\ UNCHANGED <<store, lastHash, setup, timer, watch, done, checkWG, cb, mutex,
                 stop, once>>

(***************************************************************************)
(* NewFileWatcher and Start                                                *)
(***************************************************************************)

\* The directory is added, then the baseline is taken; the file may be gone.
NewFileWatcher ==
  /\ setup = "loaded"
  /\ setup' = "created"
  /\ lastHash' = file
  /\ UNCHANGED <<file, store, event, timer, watch, done, checkWG, cb, mutex,
                 stop, once, changes, missed>>

\* The goroutine that creates a watcher starts it, before anything can stop it.
Start ==
  /\ setup = "created"
  /\ once = "untouched"
  /\ setup' = "started"
  /\ watch' = "running"
  /\ UNCHANGED <<file, store, lastHash, event, timer, done, checkWG, cb, mutex,
                 stop, once, changes, missed>>

(***************************************************************************)
(* watch                                                                   *)
(***************************************************************************)

\* What cancelling the debounce timer makes of the counter: the callback of an
\* armed timer will not run, so its Add is matched here.
Cancelled == IF timer = "armed" THEN checkWG - 1 ELSE checkWG

\* Mutant: only the first event starts the timer.
ReadEvent_StartsOnce ==
  /\ watch = "running"
  /\ event
  /\ event' = FALSE
  /\ timer' = IF timer = "none" THEN "armed" ELSE timer
  /\ checkWG' = IF timer = "none" THEN checkWG + 1 ELSE checkWG
  /\ UNCHANGED <<file, store, lastHash, setup, watch, done, cb, mutex, stop,
                 once, changes, missed>>

\* An event: the timer starts again.
ReadEvent ==
  /\ watch = "running"
  /\ event
  /\ event' = FALSE
  /\ timer' = "armed"
  /\ checkWG' = Cancelled + 1
  /\ UNCHANGED <<file, store, lastHash, setup, watch, done, cb, mutex, stop,
                 once, changes, missed>>

\* done is closed: the timer is cancelled.
SeeDone ==
  /\ watch = "running"
  /\ done
  /\ watch' = "exited"
  /\ timer' = IF timer = "armed" THEN "none" ELSE timer
  /\ checkWG' = Cancelled
  /\ UNCHANGED <<file, store, lastHash, setup, event, done, cb, mutex, stop,
                 once, changes, missed>>

\* The event channel is closed: watch returns and the timer keeps running.
SeeClosed ==
  /\ watch = "running"
  /\ done
  /\ ~event
  /\ watch' = "exited"
  /\ UNCHANGED <<file, store, lastHash, setup, event, timer, done, checkWG, cb,
                 mutex, stop, once, changes, missed>>

(***************************************************************************)
(* The timer's callback: checkAndReload                                    *)
(***************************************************************************)

At(c, step) == cb[c].step = step

Goto(c, step) == cb' = [cb EXCEPT ![c].step = step]

Fire(c) ==
  /\ timer = "armed"
  /\ At(c, "free")
  /\ timer' = "fired"
  /\ Goto(c, "lock")
  /\ UNCHANGED <<file, store, lastHash, setup, event, watch, done, checkWG,
                 mutex, stop, once, changes, missed>>

Lock(c) ==
  /\ At(c, "lock")
  /\ mutex = Missing
  /\ mutex' = c
  /\ Goto(c, "hash")
  /\ UNCHANGED <<file, store, lastHash, setup, event, timer, watch, done,
                 checkWG, stop, once, changes, missed>>

\* The deferred calls: hashMu is released, then the counter goes down.
Leave(c) ==
  /\ mutex' = Missing
  /\ checkWG' = checkWG - 1
  /\ cb' = [cb EXCEPT ![c] = Idle]

\* hashFile: nothing to do for a path that cannot be read, nor for the content
\* that was last recorded.
Hash(c) ==
  /\ At(c, "hash")
  /\ \/ /\ file \in {Missing, lastHash}
        /\ Leave(c)
     \/ /\ file \notin {Missing, lastHash}
        /\ cb' = [cb EXCEPT ![c] = [step |-> "read", hash |-> file]]
        /\ UNCHANGED <<mutex, checkWG>>
  /\ UNCHANGED <<file, store, lastHash, setup, event, timer, watch, done, stop,
                 once, changes, missed>>

\* reloadFn reads the file anew and replaces the store's rows; when it fails
\* the content stays unrecorded, so that the next event tries again.
Read(c) ==
  /\ At(c, "read")
  /\ \/ /\ file \in Unreadable \cup {Missing}
        /\ Leave(c)
        /\ UNCHANGED store
     \/ /\ file \notin Unreadable \cup {Missing}
        /\ store' = file
        /\ Goto(c, "record")
        /\ UNCHANGED <<mutex, checkWG>>
  /\ UNCHANGED <<file, lastHash, setup, event, timer, watch, done, stop, once,
                 changes, missed>>

\* The content recorded is the one hashed, not the one the reload read; a file
\* that is back at it no longer differs.
Record(c) ==
  /\ At(c, "record")
  /\ lastHash' = cb[c].hash
  /\ missed' = (missed \/ (file = cb[c].hash /\ store # file))
  /\ Leave(c)
  /\ UNCHANGED <<file, store, setup, event, timer, watch, done, stop, once,
                 changes>>

(***************************************************************************)
(* Stop                                                                    *)
(***************************************************************************)

\* The first caller closes both, an event may still be taken from the channel;
\* the others wait in stopOnce.
Stop(s) ==
  /\ stop[s] = "idle"
  /\ setup # "loaded"
  /\ \/ /\ once = "untouched"
        /\ once' = "running"
        /\ done' = TRUE
        /\ stop' = [stop EXCEPT ![s] = "exit"]
     \/ /\ once # "untouched"
        /\ stop' = [stop EXCEPT ![s] = "once"]
        /\ UNCHANGED <<once, done>>
  /\ UNCHANGED <<file, store, lastHash, setup, event, timer, watch, checkWG, cb,
                 mutex, changes, missed>>

\* Mutant: Stop does not wait for watch to return.
AwaitExit_Skipped(s) ==
  /\ stop[s] = "exit"
  /\ stop' = [stop EXCEPT ![s] = "wait"]
  /\ UNCHANGED <<file, store, lastHash, setup, event, timer, watch, done,
                 checkWG, cb, mutex, once, changes, missed>>

AwaitExit(s) ==
  /\ stop[s] = "exit"
  /\ watch # "running"
  /\ stop' = [stop EXCEPT ![s] = "wait"]
  /\ UNCHANGED <<file, store, lastHash, setup, event, timer, watch, done,
                 checkWG, cb, mutex, once, changes, missed>>

AwaitChecks(s) ==
  /\ stop[s] = "wait"
  /\ checkWG = 0
  /\ stop' = [stop EXCEPT ![s] = "returned"]
  /\ once' = "over"
  /\ UNCHANGED <<file, store, lastHash, setup, event, timer, watch, done,
                 checkWG, cb, mutex, changes, missed>>

AwaitOnce(s) ==
  /\ stop[s] = "once"
  /\ once = "over"
  /\ stop' = [stop EXCEPT ![s] = "returned"]
  /\ UNCHANGED <<file, store, lastHash, setup, event, timer, watch, done,
                 checkWG, cb, mutex, once, changes, missed>>

(***************************************************************************)
(* The specification                                                       *)
(***************************************************************************)

Check(c) == Fire(c) \/ Lock(c) \/ Hash(c) \/ Read(c) \/ Record(c)

Watch == ReadEvent \/ SeeDone \/ SeeClosed

Stopping(s) == AwaitExit(s) \/ AwaitChecks(s) \/ AwaitOnce(s)

Next ==
  \/ \E content \in Contents \cup {Missing} : Change(content)
  \/ NewFileWatcher
  \/ Start
  \/ Watch
  \/ \E c \in Callbacks : Check(c)
  \/ \E s \in Stoppers : Stop(s) \/ Stopping(s)

Spec == Init /\ [][Next]_vars

\* The runtime schedules every goroutine and fires every timer; nothing makes
\* anyone change the file or call Stop.
Fairness ==
  /\ WF_vars(Watch)
  /\ \A c \in Callbacks : SF_vars(Lock(c)) /\ WF_vars(Check(c))
  /\ \A s \in Stoppers : WF_vars(Stopping(s))

FairSpec == Spec /\ Fairness

(***************************************************************************)
(* Properties                                                              *)
(***************************************************************************)

Busy == {c \in Callbacks : ~At(c, "free")}

\* The wait group counts exactly the armed timer and the callbacks that have
\* not returned, so it never goes negative (a panic) and Wait waits for them all.
CountExact == checkWG = Cardinality(Busy) + (IF timer = "armed" THEN 1 ELSE 0)

\* Once a Stop has returned, no callback runs and none is left to fire: the
\* store is never reloaded after StopWatching.
QuietAfterStop ==
  (\E s \in Stoppers : stop[s] = "returned") => Busy = {} /\ timer # "armed"

\* What StopWatching relies on: the count is right all along, and when Wait has
\* returned on it, the watcher is quiet and stays so.
StopSound == CountExact /\ QuietAfterStop

\* With every event handled and nothing scheduled, the store holds what the
\* file holds, unless the file cannot be loaded or a change escaped the hash:
\* one before the baseline, or a return to the content recorded.
StoreFollowsFile ==
  (/\ watch = "running"
   /\ ~done
   /\ ~event
   /\ timer # "armed"
   /\ Busy = {}
   /\ file \notin Unreadable \cup {Missing}
   /\ ~missed)
  => store = file

\* Every call of Stop returns, whatever events and timers are under way.
StopReturns ==
  \A s \in Stoppers : stop[s] # "idle" ~> stop[s] = "returned"
=============================================================================

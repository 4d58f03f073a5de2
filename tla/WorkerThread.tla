---------------------------- MODULE WorkerThread ----------------------------
(***************************************************************************)
(* The thread of src/worker.rs that runs the synchronizer or the event     *)
(* worker, and the threads that wait for it to end, each inside some close *)
(* call.  One step per access to the completion mutex, its condition       *)
(* variable and the mutex of the join handle.  What the thread runs is     *)
(* external: it returns or panics, and a guard it captured publishes that  *)
(* it is over (the two *OnExit guards).                                    *)
(***************************************************************************)
CONSTANTS
    Waiters,    \* calls of wait
    Patient,    \* those whose timeout does not pass
    Worker,     \* the thread, as the owner of the mutex
    NoThread    \* the mutex is free

ASSUME WaitersAssumption ==
    /\ Patient \subseteq Waiters
    /\ Worker \notin Waiters /\ NoThread \notin Waiters /\ Worker # NoThread

VARIABLES
    thread,      \* where the worker thread is
    panicked,    \* whether what it ran panicked
    published,   \* the captured guard was dropped
    completed, lock, parked,  \* CompletionState: flag, mutex, condition variable
    handle,      \* the join handle is there
    waiter,      \* where each waiter is
    answer,      \* what its wait returned
    dropped      \* the WorkerThread value is gone

threadVars == <<thread, panicked, published>>
waiterVars == <<waiter, answer>>
vars == <<threadVars, completed, lock, parked, handle, waiterVars, dropped>>

Init ==
    /\ thread = "running" /\ panicked = FALSE /\ published = FALSE
    /\ completed = FALSE /\ lock = NoThread /\ parked = {}
    /\ handle = TRUE /\ dropped = FALSE
    /\ waiter = [w \in Waiters |-> "idle"]
    /\ answer = [w \in Waiters |-> "none"]
-----------------------------------------------------------------------------
(***************************************************************************)
(* The thread.  run is called by value, so whatever it captured is dropped *)
(* when it returns and when it unwinds, before the CompletionSignal that   *)
(* the closure around it declared first.                                   *)
(***************************************************************************)
threadOnly == <<handle, waiterVars, dropped>>

ThreadAt(here, next) == thread = here /\ thread' = next

RunEnds ==
    /\ ThreadAt("running", "leaving")
    /\ panicked' \in BOOLEAN
    /\ UNCHANGED <<threadOnly, published, completed, lock, parked>>

(* Seeded fault: unwinding does not run the captured guard.                *)
GuardOnReturn ==
    /\ ThreadAt("leaving", "signalling")
    /\ published' = ~ panicked
    /\ UNCHANGED <<threadOnly, panicked, completed, lock, parked>>

GuardDropped ==
    /\ ThreadAt("leaving", "signalling")
    /\ published' = TRUE
    /\ UNCHANGED <<threadOnly, panicked, completed, lock, parked>>

SignalLocks ==
    /\ ThreadAt("signalling", "locked")
    /\ lock = NoThread /\ lock' = Worker
    /\ UNCHANGED <<threadOnly, panicked, published, completed, parked>>

SignalStores ==
    /\ ThreadAt("locked", "notifying")
    /\ completed' = TRUE
    /\ UNCHANGED <<threadOnly, panicked, published, lock, parked>>

(* Seeded fault: one waiter is notified.                                   *)
NotifyOne ==
    /\ ThreadAt("notifying", "unlocking")
    /\ \/ parked = {} /\ UNCHANGED parked
       \/ \E w \in parked : parked' = parked \ {w}
    /\ UNCHANGED <<threadOnly, panicked, published, completed, lock>>

SignalNotifies ==
    /\ ThreadAt("notifying", "unlocking")
    /\ parked' = {}
    /\ UNCHANGED <<threadOnly, panicked, published, completed, lock>>

SignalUnlocks ==
    /\ ThreadAt("unlocking", "ended")
    /\ lock' = NoThread
    /\ UNCHANGED <<threadOnly, panicked, published, completed, parked>>

CompletionSignal == SignalLocks \/ SignalStores \/ SignalNotifies \/ SignalUnlocks
-----------------------------------------------------------------------------
(***************************************************************************)
(* wait.                                                                   *)
(***************************************************************************)
waiterOnly == <<threadVars, completed, dropped>>

Go(w, here, next) == waiter[w] = here /\ waiter' = [waiter EXCEPT ![w] = next]

Return(w, value) == answer' = [answer EXCEPT ![w] = value]

WaitLocks(w) ==
    /\ ~ dropped
    /\ Go(w, "idle", "check")
    /\ lock = NoThread /\ lock' = w
    /\ UNCHANGED <<waiterOnly, parked, handle, answer>>

WaitChecks(w) ==
    /\ Go(w, "check", IF completed THEN "take" ELSE "park")
    /\ lock' = IF completed THEN NoThread ELSE lock
    /\ UNCHANGED <<waiterOnly, parked, handle, answer>>

(* wait_for releases the mutex and enters the queue in one step.           *)
Park(w) ==
    /\ Go(w, "park", "parked")
    /\ lock' = NoThread /\ parked' = parked \cup {w}
    /\ UNCHANGED <<waiterOnly, handle, answer>>

(* Notified: the wait does not look at the flag again.                     *)
Wake(w) ==
    /\ w \notin parked /\ lock = NoThread
    /\ Go(w, "parked", "take")
    /\ UNCHANGED <<waiterOnly, lock, parked, handle, answer>>

(* The deadline passes: out of the queue, then for the mutex once more.    *)
Expire(w) ==
    /\ w \notin Patient
    /\ w \in parked /\ parked' = parked \ {w}
    /\ Go(w, "parked", "expired")
    /\ UNCHANGED <<waiterOnly, lock, handle, answer>>

(* Seeded fault: a deadline that has passed is believed.                   *)
ExpiredGivesUp(w) ==
    /\ lock = NoThread
    /\ Go(w, "expired", "returned")
    /\ Return(w, "TimedOut")
    /\ UNCHANGED <<waiterOnly, lock, parked, handle>>

(* With the mutex back the flag decides, not the deadline.                 *)
ExpiredChecks(w) ==
    /\ lock = NoThread
    /\ IF completed
       THEN Go(w, "expired", "take") /\ UNCHANGED answer
       ELSE Go(w, "expired", "returned") /\ Return(w, "TimedOut")
    /\ UNCHANGED <<waiterOnly, lock, parked, handle>>

(* The mutex of the handle is held for this one step.                      *)
TakeHandle(w) ==
    /\ IF handle
       THEN Go(w, "take", "join") /\ UNCHANGED answer
       ELSE Go(w, "take", "returned") /\ Return(w, "Completed")
    /\ handle' = FALSE
    /\ UNCHANGED <<waiterOnly, lock, parked>>

(* Seeded fault: the outcome of the join is ignored.                       *)
JoinAnyhow(w) ==
    /\ thread = "ended"
    /\ Go(w, "join", "returned")
    /\ Return(w, "Completed")
    /\ UNCHANGED <<waiterOnly, lock, parked, handle>>

Join(w) ==
    /\ thread = "ended"
    /\ Go(w, "join", "returned")
    /\ Return(w, IF panicked THEN "Panicked" ELSE "Completed")
    /\ UNCHANGED <<waiterOnly, lock, parked, handle>>

Wait(w) ==
    \/ WaitLocks(w) \/ WaitChecks(w) \/ Park(w) \/ Wake(w) \/ Expire(w)
    \/ ExpiredChecks(w) \/ TakeHandle(w) \/ Join(w)
-----------------------------------------------------------------------------
(* The last owner drops the value; nobody waits then.  A thread that is    *)
(* still running is left to itself.                                        *)
DropWorker ==
    /\ ~ dropped /\ \A w \in Waiters : waiter[w] \in {"idle", "returned"}
    /\ dropped' = TRUE /\ handle' = FALSE
    /\ UNCHANGED <<threadVars, completed, lock, parked, waiterVars>>

Next == RunEnds \/ GuardDropped \/ CompletionSignal \/ DropWorker \/ \E w \in Waiters : Wait(w)

Spec == Init /\ [][Next]_vars

(* A thread that is over signals it, a thread in a call goes on, and one   *)
(* that waits for the mutex gets it (SF: parking_lot hands it over before  *)
(* a waiter starves).  What the thread runs need not end, nobody has to    *)
(* wait, and no deadline has to pass.                                      *)
Fairness ==
    /\ WF_vars(GuardDropped) /\ SF_vars(CompletionSignal)
    /\ \A w \in Waiters : SF_vars(waiter[w] # "idle" /\ Wait(w))

FairSpec == Spec /\ Fairness
-----------------------------------------------------------------------------
(* The values every variable may take; only parked threads are queued.     *)
TypeOK ==
    /\ thread \in {"running", "leaving", "signalling", "locked", "notifying", "unlocking",
                   "ended"}
    /\ panicked \in BOOLEAN /\ published \in BOOLEAN /\ completed \in BOOLEAN
    /\ lock \in Waiters \cup {Worker, NoThread}
    /\ parked \subseteq {w \in Waiters : waiter[w] = "parked"}
    /\ handle \in BOOLEAN /\ dropped \in BOOLEAN
    /\ waiter \in [Waiters -> {"idle", "check", "park", "parked", "expired", "take", "join",
                               "returned"}]
    /\ answer \in [Waiters -> {"none", "Completed", "Panicked", "TimedOut"}]

(* wait is the promise AwaitedWorker states: a close call that is told     *)
(* Completed or Panicked finds the worker over, one that is told TimedOut  *)
(* finds it not over, whatever signals and deadlines cross, and no two are *)
(* told of one panic.                                                      *)
Promise ==
    INSTANCE AwaitedWorker WITH
        end <- IF ~ completed THEN "running" ELSE IF panicked THEN "panicked" ELSE "returned"

KeepsPromise == Promise!AwaitSpec

(* Who waited for the worker sees what it published on its way out, after  *)
(* a panic too: `Closed' of the synchronizer, `delivery_stopped' of the    *)
(* event worker.                                                           *)
EndIsPublished ==
    \A w \in Waiters : answer[w] \in {"Completed", "Panicked"} => published

(* No panic goes unnoticed: when all waits are over and one of them        *)
(* outlived the thread, one of them was told.                              *)
PanicIsTold ==
    panicked /\ (\A w \in Waiters : waiter[w] \in {"idle", "returned"}) =>
        \/ \A w \in Waiters : answer[w] \in {"none", "TimedOut"}
        \/ \E w \in Waiters : answer[w] = "Panicked"

(* Every wait that has begun returns once the thread has ended, also when  *)
(* it panicked and whoever else waits, with no help of a deadline.         *)
WaitsEnd ==
    \A w \in Waiters :
        thread # "running" /\ waiter[w] # "idle" ~> waiter[w] = "returned"
=============================================================================

--------------------------- MODULE StatusTracker ---------------------------
(***************************************************************************)
(* The status tracker of src/data_sync/status.rs: threads that publish a   *)
(* status and threads that wait until the client is initialized, with a    *)
(* mutex and a condition variable between them.  Readers outside of the    *)
(* wait read the two atomics without the mutex, so every access to one of  *)
(* them is a step.  A timeout is a choice.                                 *)
(***************************************************************************)
EXTENDS Naturals, FiniteSets

CONSTANTS
    Setters,     \* threads that publish: the worker, threads in close
    Waiters,     \* threads in wait_until_initialized
    NoThread,    \* the mutex is free
    MaxSets,     \* bound: how often a status is published
    MayTimeOut   \* a wait may reach its deadline

ASSUME ThreadsAssumption ==
    /\ Setters \cap Waiters = {} /\ NoThread \notin Setters \cup Waiters
    /\ MaxSets \in Nat /\ MayTimeOut \in BOOLEAN

VARIABLES
    status, initialized,  \* the two atomics
    lock,     \* the holder of wait_lock
    parked,   \* waiters inside wait_condition
    setter,   \* where each set call is
    target,   \* the status it publishes
    waiter,   \* where each wait call is
    answer,   \* what it returned
    sets      \* calls of set so far (bounded)

vars == <<status, initialized, lock, parked, setter, target, waiter, answer, sets>>

Statuses == {"Starting", "Ready", "Stale", "Closed"}

Init ==
    /\ status = "Starting" /\ initialized = FALSE
    /\ lock = NoThread /\ parked = {}
    /\ setter = [s \in Setters |-> "idle"]
    /\ target = [s \in Setters |-> "Closed"]
    /\ waiter = [w \in Waiters |-> "idle"]
    /\ answer = [w \in Waiters |-> FALSE]
    /\ sets = 0
-----------------------------------------------------------------------------
(***************************************************************************)
(* set.  Stale is published only after a data set was (connection.rs).     *)
(***************************************************************************)
SetterAt(s, here, next) == setter[s] = here /\ setter' = [setter EXCEPT ![s] = next]

SetLocks(s) ==
    /\ SetterAt(s, "idle", "locked")
    /\ lock = NoThread /\ lock' = s
    /\ sets < MaxSets /\ sets' = sets + 1
    /\ \E to \in {"Ready", "Closed"} \cup (IF initialized THEN {"Stale"} ELSE {}) :
           target' = [target EXCEPT ![s] = to]
    /\ UNCHANGED <<status, initialized, parked, waiter, answer>>

(* Seeded fault: the status goes first, the flag is left for later.        *)
KeepInitialized(s) ==
    /\ SetterAt(s, "locked", "swap")
    /\ UNCHANGED <<status, initialized, lock, parked, target, waiter, answer, sets>>

StoreInitialized(s) ==
    /\ SetterAt(s, "locked", "swap")
    /\ initialized' = (initialized \/ target[s] = "Ready")
    /\ UNCHANGED <<status, lock, parked, target, waiter, answer, sets>>

(* Seeded fault: only Ready wakes anyone.                                  *)
NotifiesReady(s) == target[s] = "Ready"

Notifies(s) == status # target[s] \/ target[s] = "Ready"

SwapStatus(s) ==
    /\ SetterAt(s, "swap", IF Notifies(s) THEN "notify" ELSE "unlock")
    /\ status' = target[s]
    /\ UNCHANGED <<initialized, lock, parked, target, waiter, answer, sets>>

NotifyAll(s) ==
    /\ SetterAt(s, "notify", "unlock")
    /\ parked' = {}
    /\ UNCHANGED <<status, initialized, lock, target, waiter, answer, sets>>

SetUnlocks(s) ==
    /\ SetterAt(s, "unlock", "idle")
    /\ lock' = NoThread
    /\ UNCHANGED <<status, initialized, parked, target, waiter, answer, sets>>

Set(s) ==
    \/ SetLocks(s) \/ StoreInitialized(s) \/ SwapStatus(s) \/ NotifyAll(s) \/ SetUnlocks(s)
-----------------------------------------------------------------------------
(***************************************************************************)
(* wait_until_initialized.                                                 *)
(***************************************************************************)
waiterOnly == <<status, initialized, setter, target, sets>>

WaiterAt(w, here, next) == waiter[w] = here /\ waiter' = [waiter EXCEPT ![w] = next]

(* The first check takes no lock.                                          *)
WaitChecks(w) ==
    /\ WaiterAt(w, "idle", IF initialized THEN "returned" ELSE "lock")
    /\ answer' = [answer EXCEPT ![w] = initialized]
    /\ UNCHANGED <<waiterOnly, lock, parked>>

WaitLocks(w) ==
    /\ WaiterAt(w, "lock", "loop")
    /\ lock = NoThread /\ lock' = w
    /\ UNCHANGED <<waiterOnly, parked, answer>>

(* Seeded fault: a terminal status does not end the wait.                  *)
InitializedOnly == initialized

WaitIsOver == initialized \/ status = "Closed"

LeaveLoop(w) ==
    /\ WaiterAt(w, "loop", "last")
    /\ WaitIsOver \/ MayTimeOut
    /\ UNCHANGED <<waiterOnly, lock, parked, answer>>

(* wait_for releases the mutex and enters the queue in one step.           *)
Park(w) ==
    /\ WaiterAt(w, "loop", "parked")
    /\ ~ WaitIsOver
    /\ lock' = NoThread /\ parked' = parked \cup {w}
    /\ UNCHANGED <<waiterOnly, answer>>

Wake(w) ==
    /\ WaiterAt(w, "parked", "loop")
    /\ w \notin parked
    /\ lock = NoThread /\ lock' = w
    /\ UNCHANGED <<waiterOnly, parked, answer>>

(* The deadline passes: out of the queue, then for the mutex once more.    *)
Expire(w) ==
    /\ MayTimeOut
    /\ WaiterAt(w, "parked", "expired")
    /\ w \in parked /\ parked' = parked \ {w}
    /\ UNCHANGED <<waiterOnly, lock, answer>>

Relock(w) ==
    /\ WaiterAt(w, "expired", "last")
    /\ lock = NoThread /\ lock' = w
    /\ UNCHANGED <<waiterOnly, parked, answer>>

WaitReturns(w) ==
    /\ WaiterAt(w, "last", "returned")
    /\ answer' = [answer EXCEPT ![w] = initialized]
    /\ lock' = NoThread
    /\ UNCHANGED <<waiterOnly, parked>>

Wait(w) ==
    \/ WaitChecks(w) \/ WaitLocks(w) \/ LeaveLoop(w) \/ Park(w) \/ Wake(w)
    \/ Expire(w) \/ Relock(w) \/ WaitReturns(w)

Next == (\E s \in Setters : Set(s)) \/ (\E w \in Waiters : Wait(w))

Spec == Init /\ [][Next]_vars

(* A thread in a call goes on, and one that waits for the mutex gets it    *)
(* (SF: parking_lot hands it over before a waiter starves).  No deadline   *)
(* has to pass.                                                            *)
WaitUndisturbed(w) ==
    \/ WaitLocks(w) \/ (WaitIsOver /\ LeaveLoop(w)) \/ Park(w) \/ Wake(w)
    \/ Relock(w) \/ WaitReturns(w)

Fairness ==
    /\ \A s \in Setters : WF_vars(setter[s] # "idle" /\ Set(s))
    /\ \A w \in Waiters : SF_vars(WaitUndisturbed(w))

FairSpec == Spec /\ Fairness
-----------------------------------------------------------------------------
(* Every variable has its type; only threads inside the wait are in the    *)
(* queue of the condition variable.                                        *)
TypeOK ==
    /\ status \in Statuses /\ initialized \in BOOLEAN
    /\ lock \in Setters \cup Waiters \cup {NoThread}
    /\ parked \subseteq {w \in Waiters : waiter[w] = "parked"}
    /\ setter \in [Setters -> {"idle", "locked", "swap", "notify", "unlock"}]
    /\ target \in [Setters -> Statuses]
    /\ waiter \in [Waiters -> {"idle", "lock", "loop", "parked", "expired", "last", "returned"}]
    /\ answer \in [Waiters -> BOOLEAN] /\ sets \in 0 .. MaxSets

(* A reader that sees Ready, without the mutex, and then asks for          *)
(* `initialized' is told yes: the client never is ready and uninitialized. *)
ReadyIsInitialized == status = "Ready" => initialized

(* No wakeup is lost: a thread sleeps in the wait only while there is      *)
(* nothing to wake it for, or while the thread that made the change holds  *)
(* the mutex and is about to notify.                                       *)
NoLostWakeup ==
    \A w \in parked :
        WaitIsOver => lock \in Setters /\ setter[lock] \in {"swap", "notify"}

(* A client that waits for its first data set returns from the wait when   *)
(* the data set arrives and when synchronization ends for good.            *)
WaitersReturn ==
    \A w \in Waiters :
        waiter[w] # "idle" /\ (initialized \/ status = "Closed") ~> waiter[w] = "returned"
=============================================================================

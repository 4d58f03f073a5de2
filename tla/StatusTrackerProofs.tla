------------------------ MODULE StatusTrackerProofs ------------------------
(***************************************************************************)
(* Proofs about StatusTracker: no wakeup is lost and Ready is never seen   *)
(* before `initialized', for any number of threads.                        *)
(***************************************************************************)
EXTENDS StatusTracker, TLAPS

(* The threads that hold the mutex, by where they are.                     *)
MutexInv ==
    /\ \A s \in Setters : setter[s] # "idle" => lock = s
    /\ \A w \in Waiters : waiter[w] \in {"loop", "last"} => lock = w

(* A setter of Ready has stored `initialized' before it comes to the swap. *)
StoredInv ==
    /\ status = "Ready" => initialized
    /\ \A s \in Setters : setter[s] = "swap" /\ target[s] = "Ready" => initialized

(* If there is something to wake the parked threads for, then the holder   *)
(* of the mutex is a setter that is bound to notify.                       *)
WakeupInv ==
    \A w \in parked :
        WaitIsOver =>
            /\ lock \in Setters
            /\ \/ setter[lock] = "notify"
               \/ setter[lock] = "swap" /\ target[lock] = "Ready"

IInv == TypeOK /\ MutexInv /\ StoredInv /\ WakeupInv
-----------------------------------------------------------------------------
(* The initial state satisfies the inductive invariant.                    *)
LEMMA InitIInv == Init => IInv
<1> SUFFICES ASSUME Init PROVE IInv
  OBVIOUS
<1>1. TypeOK
  <2>1. answer \in [Waiters -> BOOLEAN]
    BY Zenon DEF Init
  <2>2. sets \in 0 .. MaxSets
    BY ThreadsAssumption DEF Init
  <2>3. initialized \in BOOLEAN
    BY DEF Init
  <2> QED  BY <2>1, <2>2, <2>3 DEF Init, TypeOK, Statuses
<1>2. MutexInv /\ StoredInv
  BY DEF Init, MutexInv, StoredInv
<1>3. WakeupInv
  BY DEF Init, WakeupInv
<1> QED  BY <1>1, <1>2, <1>3 DEF IInv

(* Every access of a set call keeps the types.                             *)
LEMMA SetTypes ==
  ASSUME IInv, NEW s \in Setters, Set(s)
  PROVE  TypeOK'
<1>1. CASE SetLocks(s)
  <2>1. sets' \in 0 .. MaxSets
    BY <1>1, ThreadsAssumption DEF IInv, TypeOK, SetLocks
  <2>2. target' \in [Setters -> Statuses]
    BY <1>1 DEF IInv, TypeOK, SetLocks, Statuses
  <2>3. setter' \in [Setters -> {"idle", "locked", "swap", "notify", "unlock"}]
    BY <1>1 DEF IInv, TypeOK, SetLocks, SetterAt
  <2> QED  BY <1>1, <2>1, <2>2, <2>3 DEF IInv, TypeOK, SetLocks
<1>2. CASE StoreInitialized(s)
  BY <1>2 DEF IInv, TypeOK, StoreInitialized, SetterAt
<1>3. CASE SwapStatus(s)
  BY <1>3 DEF IInv, TypeOK, SwapStatus, SetterAt
<1>4. CASE NotifyAll(s)
  BY <1>4 DEF IInv, TypeOK, NotifyAll, SetterAt
<1>5. CASE SetUnlocks(s)
  BY <1>5 DEF IInv, TypeOK, SetUnlocks, SetterAt
<1> QED  BY <1>1, <1>2, <1>3, <1>4, <1>5 DEF Set

(* Every access of a set call keeps the invariants about mutex and wakeup. *)
LEMMA SetStep ==
  ASSUME IInv, NEW s \in Setters, Set(s)
  PROVE  MutexInv' /\ StoredInv' /\ WakeupInv'
<1> USE DEF IInv, TypeOK, MutexInv, StoredInv, WakeupInv, WaitIsOver, SetterAt
<1>1. CASE SetLocks(s)
  BY <1>1, ThreadsAssumption DEF SetLocks
<1>2. CASE StoreInitialized(s)
  BY <1>2 DEF StoreInitialized
<1>3. CASE SwapStatus(s)
  BY <1>3 DEF SwapStatus, Notifies
<1>4. CASE NotifyAll(s)
  BY <1>4 DEF NotifyAll
<1>5. CASE SetUnlocks(s)
  BY <1>5, ThreadsAssumption DEF SetUnlocks
<1> QED  BY <1>1, <1>2, <1>3, <1>4, <1>5 DEF Set

(* Every access of a wait call keeps the inductive invariant.              *)
LEMMA WaitStep ==
  ASSUME IInv, NEW w \in Waiters, Wait(w)
  PROVE  IInv'
<1> USE DEF IInv, TypeOK, MutexInv, StoredInv, WakeupInv, WaitIsOver, WaiterAt, waiterOnly
<1>1. CASE WaitChecks(w)
  BY <1>1 DEF WaitChecks
<1>2. CASE WaitLocks(w)
  BY <1>2, ThreadsAssumption DEF WaitLocks
<1>3. CASE LeaveLoop(w)
  BY <1>3 DEF LeaveLoop
<1>4. CASE Park(w)
  BY <1>4, ThreadsAssumption DEF Park
<1>5. CASE Wake(w)
  BY <1>5, ThreadsAssumption DEF Wake
<1>6. CASE Expire(w)
  BY <1>6 DEF Expire
<1>7. CASE Relock(w)
  BY <1>7, ThreadsAssumption DEF Relock
<1>8. CASE WaitReturns(w)
  BY <1>8, ThreadsAssumption DEF WaitReturns
<1> QED  BY <1>1, <1>2, <1>3, <1>4, <1>5, <1>6, <1>7, <1>8 DEF Wait

(* The inductive invariant holds in every reachable state.                 *)
LEMMA Invariance == Spec => []IInv
<1>1. IInv /\ [Next]_vars => IInv'
  <2> SUFFICES ASSUME IInv, [Next]_vars PROVE IInv'
    OBVIOUS
  <2>1. CASE \E s \in Setters : Set(s)
    BY <2>1, SetTypes, SetStep DEF IInv
  <2>2. CASE \E w \in Waiters : Wait(w)
    BY <2>2, WaitStep
  <2>3. CASE UNCHANGED vars
    BY <2>3 DEF IInv, TypeOK, MutexInv, StoredInv, WakeupInv, WaitIsOver, vars
  <2> QED  BY <2>1, <2>2, <2>3 DEF Next
<1> QED  BY InitIInv, <1>1, PTL DEF Spec
-----------------------------------------------------------------------------
(* Every variable of the tracker keeps its type.                           *)
THEOREM TypeCorrect == Spec => []TypeOK
<1>1. IInv => TypeOK
  BY DEF IInv
<1> QED  BY Invariance, <1>1, PTL

(* Whoever sees the status Ready finds the client initialized.             *)
THEOREM ReadyAlwaysInitialized == Spec => []ReadyIsInitialized
<1>1. IInv => ReadyIsInitialized
  BY DEF IInv, StoredInv, ReadyIsInitialized
<1> QED  BY Invariance, <1>1, PTL

(* No thread sleeps through the status it waits for.                       *)
THEOREM WakeupsAreNotLost == Spec => []NoLostWakeup
<1>1. IInv => NoLostWakeup
  BY DEF IInv, WakeupInv, NoLostWakeup
<1> QED  BY Invariance, <1>1, PTL
=============================================================================

------------------------- MODULE WorkerThreadProofs -------------------------
(***************************************************************************)
(* Proofs about WorkerThread: it keeps the promise AwaitedWorker states,   *)
(* the end it reports is published, and a panic is told, for any number of *)
(* threads that wait.                                                      *)
(***************************************************************************)
EXTENDS WorkerThread, TLAPS

Signalled == {"notifying", "unlocking", "ended"}

(* The flags say how far the thread has come.                              *)
ThreadInv ==
    /\ completed <=> thread \in Signalled
    /\ published <=> thread \notin {"running", "leaving"}
    /\ panicked => thread # "running"

(* Who is past the condition variable was let through by the flag; a wait  *)
(* has an answer when it has returned.                                     *)
AnswerInv ==
    \A w \in Waiters :
        /\ waiter[w] \in {"take", "join"} => completed
        /\ waiter[w] = "parked" /\ w \notin parked => completed
        /\ answer[w] # "none" => waiter[w] = "returned"
        /\ answer[w] \in {"Completed", "Panicked"} => completed

(* Who has the outcome of the thread to itself.                            *)
Joins(w) == waiter[w] = "join" \/ answer[w] = "Panicked"

(* The handle is taken once, by the end of the thread, and while others    *)
(* wait the one who took it has a panic yet to tell, or has told it.       *)
HandleInv ==
    /\ \A w \in Waiters : Joins(w) => ~ handle
    /\ \A v, w \in Waiters : Joins(v) /\ Joins(w) => v = w
    /\ ~ handle /\ ~ dropped => completed
    /\ ~ handle /\ ~ dropped /\ panicked => \E w \in Waiters : Joins(w)
    /\ dropped => \A w \in Waiters : waiter[w] \in {"idle", "returned"}
    /\ panicked /\ (\E w \in Waiters : answer[w] = "Completed")
           => \E w \in Waiters : Joins(w)

IInv == TypeOK /\ ThreadInv /\ AnswerInv /\ HandleInv
-----------------------------------------------------------------------------
(* The initial state satisfies the inductive invariant.                    *)
LEMMA InitIInv == Init => IInv
  BY DEF Init, IInv, TypeOK, ThreadInv, AnswerInv, HandleInv, Joins, Signalled

(* Every step of the thread keeps it.                                      *)
LEMMA ThreadKeepsIInv ==
  ASSUME IInv, RunEnds \/ GuardDropped \/ CompletionSignal
  PROVE  IInv'
<1> USE DEF IInv, threadOnly, waiterVars, ThreadAt
<1>1. CASE RunEnds
  <2>1. TypeOK'
    BY <1>1 DEF RunEnds, TypeOK
  <2>2. ThreadInv' /\ AnswerInv'
    BY <1>1 DEF RunEnds, ThreadInv, AnswerInv, Signalled, TypeOK
  <2>3. ~ completed
    BY <1>1 DEF RunEnds, ThreadInv, Signalled
  <2>4. HandleInv'
    BY <1>1, <2>3 DEF RunEnds, HandleInv, Joins, AnswerInv
  <2> QED  BY <2>1, <2>2, <2>4
<1>2. CASE GuardDropped
  BY <1>2 DEF GuardDropped, TypeOK, ThreadInv, AnswerInv, HandleInv, Joins, Signalled
<1>3. CASE SignalLocks
  BY <1>3 DEF SignalLocks, TypeOK, ThreadInv, AnswerInv, HandleInv, Joins, Signalled
<1>4. CASE SignalStores
  BY <1>4 DEF SignalStores, TypeOK, ThreadInv, AnswerInv, HandleInv, Joins, Signalled
<1>5. CASE SignalNotifies
  BY <1>5 DEF SignalNotifies, TypeOK, ThreadInv, AnswerInv, HandleInv, Joins, Signalled
<1>6. CASE SignalUnlocks
  BY <1>6 DEF SignalUnlocks, TypeOK, ThreadInv, AnswerInv, HandleInv, Joins, Signalled
<1> QED  BY <1>1, <1>2, <1>3, <1>4, <1>5, <1>6 DEF CompletionSignal

(* Every step of a wait keeps it.                                          *)
LEMMA WaitKeepsIInv ==
  ASSUME IInv, NEW w \in Waiters, Wait(w)
  PROVE  IInv'
<1> USE DEF IInv, waiterOnly, threadVars, Go
<1>1. CASE WaitLocks(w)
  BY <1>1 DEF WaitLocks, TypeOK, ThreadInv, AnswerInv, HandleInv, Joins
<1>2. CASE WaitChecks(w)
  BY <1>2 DEF WaitChecks, TypeOK, ThreadInv, AnswerInv, HandleInv, Joins
<1>3. CASE Park(w)
  BY <1>3 DEF Park, TypeOK, ThreadInv, AnswerInv, HandleInv, Joins
<1>4. CASE Wake(w)
  BY <1>4 DEF Wake, TypeOK, ThreadInv, AnswerInv, HandleInv, Joins
<1>5. CASE Expire(w)
  BY <1>5 DEF Expire, TypeOK, ThreadInv, AnswerInv, HandleInv, Joins
<1>6. CASE ExpiredChecks(w)
  BY <1>6 DEF ExpiredChecks, Return, TypeOK, ThreadInv, AnswerInv, HandleInv, Joins
<1>7. CASE TakeHandle(w)
  <2>1. TypeOK' /\ ThreadInv'
    BY <1>7 DEF TakeHandle, Return, TypeOK, ThreadInv
  <2>2. AnswerInv'
    BY <1>7 DEF TakeHandle, Return, TypeOK, AnswerInv
  <2>3. ~ dropped /\ completed
    BY <1>7 DEF TakeHandle, AnswerInv, HandleInv
  <2>4. ASSUME handle PROVE HandleInv'
    <3>1. waiter' = [waiter EXCEPT ![w] = "join"] /\ UNCHANGED <<answer, dropped>> /\ ~ handle'
      BY <1>7, <2>4 DEF TakeHandle
    <3>2. \A v \in Waiters : ~ Joins(v)
      BY <2>4 DEF HandleInv
    <3>3. \A v \in Waiters : Joins(v)' <=> v = w
      BY <3>1, <3>2 DEF Joins, TypeOK
    <3>4. completed'
      BY <1>7, <2>3 DEF TakeHandle
    <3> QED  BY <2>3, <3>1, <3>3, <3>4 DEF HandleInv
  <2>5. ASSUME ~ handle PROVE HandleInv'
    <3>1. /\ waiter' = [waiter EXCEPT ![w] = "returned"]
          /\ answer' = [answer EXCEPT ![w] = "Completed"]
          /\ waiter[w] = "take" /\ ~ handle' /\ UNCHANGED <<completed, panicked, dropped>>
      BY <1>7, <2>5 DEF TakeHandle, Return
    <3>2. answer[w] # "Panicked"
      BY <3>1 DEF AnswerInv
    <3>3. \A v \in Waiters : Joins(v)' <=> Joins(v)
      BY <3>1, <3>2 DEF Joins, TypeOK
    <3> QED  BY <2>3, <2>5, <3>1, <3>3 DEF HandleInv
  <2> QED  BY <2>1, <2>2, <2>4, <2>5
<1>8. CASE Join(w)
  BY <1>8 DEF Join, Return, TypeOK, ThreadInv, AnswerInv, HandleInv, Joins, Signalled
<1> QED  BY <1>1, <1>2, <1>3, <1>4, <1>5, <1>6, <1>7, <1>8 DEF Wait

(* Every step keeps the inductive invariant.                               *)
LEMMA NextIInv == IInv /\ [Next]_vars => IInv'
<1> SUFFICES ASSUME IInv, [Next]_vars PROVE IInv'
  OBVIOUS
<1>1. CASE RunEnds \/ GuardDropped \/ CompletionSignal
  BY <1>1, ThreadKeepsIInv
<1>2. CASE \E w \in Waiters : Wait(w)
  BY <1>2, WaitKeepsIInv
<1>3. CASE DropWorker
  BY <1>3 DEF DropWorker, threadVars, waiterVars, IInv, TypeOK, ThreadInv, AnswerInv,
              HandleInv, Joins
<1>4. CASE UNCHANGED vars
  BY <1>4 DEF vars, threadVars, waiterVars, IInv, TypeOK, ThreadInv, AnswerInv, HandleInv,
              Joins
<1> QED  BY <1>1, <1>2, <1>3, <1>4 DEF Next

(* The inductive invariant holds in every reachable state.                 *)
THEOREM Invariance == Spec => []IInv
<1>1. Init => IInv
  BY InitIInv
<1>2. IInv /\ [Next]_vars => IInv'
  BY NextIInv
<1> QED  BY <1>1, <1>2, PTL DEF Spec
-----------------------------------------------------------------------------
(* Type correctness.                                                       *)
THEOREM TypeCorrect == Spec => []TypeOK
  BY Invariance, PTL DEF IInv

(* A close call that saw the worker end sees what the worker published.    *)
THEOREM EndPublished == Spec => []EndIsPublished
<1>1. IInv => EndIsPublished
  BY DEF IInv, AnswerInv, ThreadInv, EndIsPublished, Signalled
<1> QED  BY <1>1, Invariance, PTL

(* A panic that somebody outwaited is told to somebody.                    *)
THEOREM PanicTold == Spec => []PanicIsTold
<1>1. IInv => PanicIsTold
  <2> SUFFICES ASSUME IInv, panicked,
                      \A w \in Waiters : waiter[w] \in {"idle", "returned"},
                      \E w \in Waiters : answer[w] \notin {"none", "TimedOut"}
               PROVE  \E w \in Waiters : answer[w] = "Panicked"
    BY DEF PanicIsTold
  <2>1. PICK w \in Waiters : answer[w] \in {"Completed", "Panicked"}
    BY DEF IInv, TypeOK
  <2>2. CASE answer[w] = "Completed"
    BY <2>2 DEF IInv, HandleInv, Joins
  <2> QED  BY <2>1, <2>2
<1> QED  BY <1>1, Invariance, PTL
-----------------------------------------------------------------------------
(* The states of the thread and the promise, step by step.                 *)
LEMMA StepKeepsPromise ==
  ASSUME IInv, IInv', [Next]_vars
  PROVE  [Promise!AwaitNext]_(Promise!waitVars)
<1> USE DEF IInv, Promise!AwaitNext, Promise!waitVars
<1>1. CASE RunEnds \/ GuardDropped \/ SignalLocks \/ SignalNotifies \/ SignalUnlocks
  BY <1>1 DEF RunEnds, GuardDropped, SignalLocks, SignalNotifies, SignalUnlocks, ThreadAt,
              threadOnly, waiterVars, ThreadInv, Signalled
<1>2. CASE SignalStores
  BY <1>2 DEF SignalStores, ThreadAt, threadOnly, waiterVars, ThreadInv, Signalled,
              Promise!WorkerEnds
<1>3. ASSUME NEW w \in Waiters,
             WaitLocks(w) \/ WaitChecks(w) \/ Park(w) \/ Wake(w) \/ Expire(w)
      PROVE  UNCHANGED Promise!waitVars
  BY <1>3 DEF WaitLocks, WaitChecks, Park, Wake, Expire, waiterOnly, threadVars
<1>4. ASSUME NEW w \in Waiters, ExpiredChecks(w)
      PROVE  Promise!AnswerTimedOut(w) \/ UNCHANGED Promise!waitVars
  BY <1>4 DEF ExpiredChecks, Return, Go, waiterOnly, threadVars, AnswerInv, TypeOK,
              Promise!AnswerTimedOut, Promise!Answered
<1>5. ASSUME NEW w \in Waiters, TakeHandle(w)
      PROVE  Promise!AnswerCompleted(w) \/ UNCHANGED Promise!waitVars
  BY <1>5 DEF TakeHandle, Return, Go, waiterOnly, threadVars, AnswerInv, TypeOK,
              Promise!AnswerCompleted, Promise!Answered
<1>6. ASSUME NEW w \in Waiters, Join(w)
      PROVE  Promise!AnswerCompleted(w) \/ Promise!AnswerPanicked(w)
  <2>1. answer[w] = "none" /\ completed /\ Joins(w) /\ UNCHANGED <<completed, panicked>>
    BY <1>6 DEF Join, Go, waiterOnly, threadVars, AnswerInv, TypeOK, Joins
  <2>2. CASE panicked
    <3>1. \A v \in Waiters : answer[v] # "Panicked"
      BY <2>1 DEF HandleInv, Joins
    <3> QED  BY <1>6, <2>1, <2>2, <3>1 DEF Join, Return, Promise!AnswerPanicked,
                                           Promise!Answered
  <2>3. CASE ~ panicked
    BY <1>6, <2>1, <2>3 DEF Join, Return, Promise!AnswerCompleted, Promise!Answered
  <2> QED  BY <2>2, <2>3
<1>7. CASE DropWorker \/ UNCHANGED vars
  BY <1>7 DEF DropWorker, vars, threadVars, waiterVars
<1> QED  BY <1>1, <1>2, <1>3, <1>4, <1>5, <1>6, <1>7 DEF Next, CompletionSignal, Wait

(* WorkerThread implements AwaitedWorker.                                  *)
THEOREM Implements == Spec => KeepsPromise
<1>1. Init => Promise!AwaitInit
  BY DEF Init, Promise!AwaitInit
<1>2. IInv /\ IInv' /\ [Next]_vars => [Promise!AwaitNext]_(Promise!waitVars)
  BY StepKeepsPromise
<1> QED  BY <1>1, <1>2, Invariance, PTL DEF Spec, KeepsPromise, Promise!AwaitSpec
=============================================================================

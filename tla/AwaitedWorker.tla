--------------------------- MODULE AwaitedWorker ---------------------------
(***************************************************************************)
(* What WorkerThread promises to the close calls that wait for a worker:   *)
(* a wait ends only when the worker is over, or gives up while it is not;  *)
(* the panic of a worker is told to one of those that wait.                *)
(***************************************************************************)
CONSTANT Waiters

VARIABLES
    end,     \* how the worker ended, if it has
    answer   \* what each wait was answered

waitVars == <<end, answer>>

Ends == {"running", "returned", "panicked"}

Answers == {"none", "Completed", "Panicked", "TimedOut"}
-----------------------------------------------------------------------------
Answered(w, value) ==
    /\ answer[w] = "none"
    /\ answer' = [answer EXCEPT ![w] = value]
    /\ UNCHANGED end

AwaitInit == end = "running" /\ answer = [w \in Waiters |-> "none"]

WorkerEnds ==
    /\ end = "running"
    /\ end' \in {"returned", "panicked"}
    /\ UNCHANGED answer

AnswerCompleted(w) == end # "running" /\ Answered(w, "Completed")

AnswerPanicked(w) ==
    /\ end = "panicked"
    /\ \A v \in Waiters : answer[v] # "Panicked"
    /\ Answered(w, "Panicked")

AnswerTimedOut(w) == end = "running" /\ Answered(w, "TimedOut")

AwaitNext ==
    WorkerEnds \/ \E w \in Waiters : AnswerCompleted(w) \/ AnswerPanicked(w) \/ AnswerTimedOut(w)

AwaitSpec == AwaitInit /\ [][AwaitNext]_waitVars
=============================================================================

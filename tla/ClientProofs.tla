---------------------------- MODULE ClientProofs ----------------------------
(***************************************************************************)
(* What the options of a client and the client itself promise, for any     *)
(* options, snapshots, callers and closers.                                *)
(*                                                                         *)
(* A call is followed by the set of steps it has left.  Agendas are sorted *)
(* by one rank, so when a step is due nothing of a smaller rank is left,   *)
(* and what a call has established can be said of what it has not left.    *)
(***************************************************************************)
EXTENDS Client, TLAPS
-----------------------------------------------------------------------------
(***************************************************************************)
(* The options: what FbOptionsBuilder accepts, for every draft, the        *)
(* workers can run on.                                                     *)
(***************************************************************************)
(* A list of delays that passes holds one that is longer than nothing.     *)
LEMMA DelaysWait ==
    ASSUME NEW delays \in Seq(Nat), ValidDelays(delays)
    PROVE  delays # <<>> /\ \E i \in DOMAIN delays : delays[i] > 0
<1>1. delays # <<>> BY DEF ValidDelays
<1>2. PICK i \in DOMAIN delays : delays[i] # 0 BY DEF ValidDelays
<1>3. delays[i] \in Nat BY <1>2
<1>4. delays[i] > 0 BY <1>2, <1>3
<1> QED BY <1>1, <1>2, <1>4

(* A capacity that passes is at least one.                                 *)
LEMMA CapacityIsPositive ==
    ASSUME NEW n \in Nat, NEW maximum, ValidCapacity(n, maximum)
    PROVE  1 <= n
BY DEF ValidCapacity

(* Options that build returns are options the two workers and the client   *)
(* make progress with.                                                     *)
THEOREM AcceptedIsRunnable == \A d \in Drafts : Accepts(d) => Runnable(d)
<1> SUFFICES ASSUME NEW d \in Drafts, Accepts(d) PROVE Runnable(d)
  OBVIOUS
<1>1. /\ d.reconnect_delays \in Seq(Nat) /\ d.start_wait \in Nat /\ d.connect_timeout \in Nat
      /\ d.max_events_in_queue \in Nat /\ d.max_event_queue_size_bytes \in Nat
      /\ d.max_events_per_request \in Nat /\ d.max_send_event_attempts \in Nat
  BY DEF Drafts
<1>2. ValidLimits(d) /\ ValidBootstrap(d) BY DEF Accepts
<1>3. d.reconnect_delays # <<>> /\ \E i \in DOMAIN d.reconnect_delays : d.reconnect_delays[i] > 0
  BY <1>1, <1>2, DelaysWait DEF ValidLimits
<1>4. /\ 1 <= d.max_events_in_queue /\ 1 <= d.max_event_queue_size_bytes
      /\ 1 <= d.max_events_per_request /\ 1 <= d.max_send_event_attempts
  BY <1>1, <1>2, CapacityIsPositive DEF ValidLimits
<1>5. 0 < d.connect_timeout /\ d.connect_timeout <= d.start_wait
  BY <1>1, <1>2 DEF ValidLimits, ValidDuration
<1>6. d.bootstrap # "none" => d.offline BY <1>2 DEF ValidBootstrap
<1> QED BY <1>3, <1>4, <1>5, <1>6 DEF Runnable
-----------------------------------------------------------------------------
(***************************************************************************)
(* The client.                                                             *)
(***************************************************************************)

Steps == {"allowed", "live", "accepting", "closed", "initialized", "status",
          "load", "gate", "record", "send", "notify", "observe"}

Rank(s) ==
    CASE s = "allowed" -> 1 [] s = "live" -> 2 [] s = "accepting" -> 3 [] s = "closed" -> 4
      [] s = "initialized" -> 5 [] s = "status" -> 6 [] s = "load" -> 7 [] s = "gate" -> 8
      [] s = "record" -> 9 [] s = "send" -> 10 [] s = "notify" -> 11 [] OTHER -> 12

Left(todo) == {todo[i] : i \in 1 .. Len(todo)}

Sorted(todo) == \A i, j \in 1 .. Len(todo) : i < j => Rank(todo[i]) < Rank(todo[j])

Checks == {"closed", "initialized", "status"}
Permits == {"allowed", "live", "accepting"}

(* The steps of each kind of call.                                         *)
StepsOf(op) ==
    CASE op = "value" -> Checks \cup {"load", "gate", "record", "send", "notify"}
      [] op = "detail" -> Checks \cup {"load", "record", "send", "notify"}
      [] op \in {"raw", "all"} -> Checks \cup {"load"}
      [] op = "complete" -> {"record", "send", "notify"}
      [] op = "retrack" -> Permits \cup Checks \cup {"load", "record", "send"}
      [] OTHER -> Permits \cup {"record", "send"}

Snaps == Snapshots \cup {NoSnapshot}
Errors == {"none", "notReady", "noKey", "missing", "malformed", "mismatch"}
Told == {"value", "detail", "complete"}
Early == Steps \ {"notify", "observe"}

CallRecords ==
    [op : Ops \cup {"none"}, todo : Seq(Steps), keyed : BOOLEAN, late : BOOLEAN, snap : Snaps,
     error : Errors, answer : {"none", "fallback", "value", "false", "true"},
     events : Seq([op : Ops, snap : Snaps]),
     observed : Seq([kind : {"success", "error"}, error : Errors, snap : Snaps])]
-----------------------------------------------------------------------------
(* A call that has not failed has come some way through its agenda: what   *)
(* it has left behind holds.                                               *)
Underway(k, capture) ==
    /\ Left(k.todo) \subseteq StepsOf(k.op)
    /\ "record" \in Left(k.todo) => "send" \in Left(k.todo)
    /\ "load" \in Left(k.todo) /\ "send" \in Left(k.todo) => "record" \in Left(k.todo)
    /\ Left(k.todo) # {} =>
          /\ k.observed = <<>>
          /\ k.op \in Told => "notify" \in Left(k.todo)
          /\ k.op \in Explicit => "send" \in Left(k.todo)
    /\ "load" \in StepsOf(k.op) /\ "load" \notin Left(k.todo) => k.snap.flag = "served"
    /\ k.op \in Evaluations /\ "load" \notin Left(k.todo) => k.answer = "value"
    /\ k.op \in {"track", "complete"} => k.snap.flag = "served" /\ k.snap = capture.snap
    /\ Left(k.todo) \cap Early # {} => k.events = <<>>
    /\ "initialized" \in StepsOf(k.op) /\ "initialized" \notin Left(k.todo) => initialized
    /\ "allowed" \in StepsOf(k.op) /\ "allowed" \notin Left(k.todo) => options.allow_track
    /\ "send" \in Left(k.todo) /\ "record" \notin Left(k.todo) =>
          Recordable(k) /\ ~ options.offline

(* A call that has failed has only the observer to tell.                   *)
HasFailed(k) ==
    /\ k.op # "complete" /\ k.events = <<>>
    /\ k.answer = IF k.op \in Evaluations THEN "fallback" ELSE "false"
    /\ Left(k.todo) \subseteq {"observe"}
    /\ Left(k.todo) # {} => k.observed = <<>> /\ k.op \in {"value", "detail", "raw"}
    /\ k.error \in {"missing", "malformed", "mismatch"} /\ ~ options.offline => k.snap # NoSnapshot

(* What has been recorded and what the observer was told.                  *)
Recorded(k) ==
    /\ Len(k.events) <= 1
    /\ k.events # <<>> =>
          /\ k.events[1].snap = k.snap
          /\ Recordable(k) /\ ~ options.offline /\ k.op \notin {"raw", "all"}
    /\ k.op \in Explicit /\ Left(k.todo) = {} => (k.answer = "true" <=> k.events # <<>>)

ObservedOk(k) ==
    Left(k.todo) = {} =>
        k.observed =
            IF options.observer /\ (k.op \in Told \/ (k.op = "raw" /\ k.error # "none"))
            THEN <<[kind |-> IF k.error = "none" THEN "success" ELSE "error",
                    error |-> k.error, snap |-> k.snap]>>
            ELSE <<>>

(* A late call has the check before it that refuses it.                    *)
IsOver == ended /\ status = "Closed"

Refusable(k) ==
    k.late /\ k.op # "complete" =>
        \/ k.error = "notReady"
        \/ /\ k.error = "none" /\ closed
           /\ (IF k.op \in Evaluations THEN "closed" ELSE "allowed") \in Left(k.todo)
        \/ /\ k.error = "none" /\ IsOver
           /\ (IF k.op \in Evaluations THEN "status" ELSE "live") \in Left(k.todo)

CallInv(k, capture) ==
    IF k.op = "none"
    THEN k = NoCall
    ELSE /\ Sorted(k.todo)
         /\ IF k.error = "none" THEN Underway(k, capture) ELSE HasFailed(k)
         /\ Recorded(k) /\ ObservedOk(k) /\ Refusable(k)

CaptureInv(capture) == capture.from # "none" => capture.snap.flag = "served"
-----------------------------------------------------------------------------
Modes == {Kept(draft) : draft \in Candidates}

(* Before the client is there nobody calls it, and nothing has happened.   *)
PhaseInv ==
    /\ IF phase \in {"draft", "refused"} THEN options \in Candidates ELSE options \in Modes
    /\ phase # "open" =>
          /\ \A c \in Callers : call[c] = NoCall
          /\ \A c \in Closers \cup {Dropper} : closer[c] = "idle"
          /\ ~ syncComplete /\ ~ eventsClosed /\ ~ eventsComplete
    /\ phase \in {"draft", "refused", "built"} =>
          /\ ~ synchronizer /\ ~ initialized /\ ~ ended
          /\ ~ processor /\ ~ accepting /\ ~ eventsEnded
    /\ accepting => ~ options.offline

(* The synchronizer's promise, and a client without one.                   *)
SyncInv ==
    /\ initialized /\ ~ options.offline => snapshot # NoSnapshot
    /\ synchronizer /\ ended => status = "Closed"
    /\ ~ synchronizer /\ phase \in {"waiting", "open"} => ended

(* What each close has done by the place it has reached, of the            *)
(* synchronizer ...                                                        *)
CloseInv ==
    /\ syncComplete /\ ~ gaveUp => IsOver
    /\ \A c \in Closers \cup {Dropper} :
          /\ closer[c] \in {"sync", "waiting", "lateWaiting"} => synchronizer
          /\ closer[c] = "noSync" => ~ synchronizer
          /\ closer[c] \in {"events", "draining", "lateDraining", "returned"} /\ ~ gaveUp => IsOver

(* ... and of the event processor.                                         *)
EventsInv ==
    /\ accepting => processor /\ ~ eventsClosed /\ ~ eventsEnded
    /\ eventsComplete /\ ~ gaveUp => eventsEnded
    /\ \A c \in Closers \cup {Dropper} :
          /\ closer[c] \in {"draining", "lateDraining"} => eventsClosed
          /\ closer[c] = "returned" =>
                ~ accepting /\ (~ gaveUp => (processor => eventsEnded))

Typed ==
    /\ TypeOK
    /\ call \in [Callers -> CallRecords]
    /\ captured \in [Callers -> [from : {"none", "detail", "raw"}, snap : Snaps]]

IInv ==
    /\ Typed /\ PhaseInv /\ SyncInv /\ CloseInv /\ EventsInv
    /\ \A c \in Callers : CallInv(call[c], captured[c]) /\ CaptureInv(captured[c])
-----------------------------------------------------------------------------
(* Taking the step that is due off a sorted agenda.                        *)
LEMMA Popped ==
    ASSUME NEW todo \in Seq(Steps), Sorted(todo), todo # <<>>
    PROVE  /\ Tail(todo) \in Seq(Steps) /\ Sorted(Tail(todo))
           /\ Head(todo) \in Left(todo)
           /\ Left(Tail(todo)) = Left(todo) \ {Head(todo)}
           /\ \A s \in Left(Tail(todo)) : Rank(Head(todo)) < Rank(s)
<1>1. Len(todo) \in Nat /\ Len(todo) >= 1 /\ Head(todo) = todo[1]
  OBVIOUS
<1>2. /\ Tail(todo) \in Seq(Steps) /\ Len(Tail(todo)) = Len(todo) - 1
      /\ \A i \in 1 .. Len(Tail(todo)) : Tail(todo)[i] = todo[i + 1]
  BY <1>1
<1>3. Sorted(Tail(todo))
  <2> SUFFICES ASSUME NEW i \in 1 .. Len(Tail(todo)), NEW j \in 1 .. Len(Tail(todo)), i < j
               PROVE  Rank(Tail(todo)[i]) < Rank(Tail(todo)[j])
    BY DEF Sorted
  <2>1. i + 1 \in 1 .. Len(todo) /\ j + 1 \in 1 .. Len(todo) /\ i + 1 < j + 1
    BY <1>1, <1>2
  <2>2. Rank(todo[i + 1]) < Rank(todo[j + 1])
    BY <2>1 DEF Sorted
  <2> QED BY <1>2, <2>2
<1>4. Head(todo) \in Left(todo)
  BY <1>1 DEF Left
<1>5. \A s \in Left(Tail(todo)) : s \in Left(todo) /\ Rank(Head(todo)) < Rank(s)
  <2> TAKE s \in Left(Tail(todo))
  <2>1. PICK i \in 1 .. Len(Tail(todo)) : s = Tail(todo)[i]
    BY DEF Left
  <2>2. s = todo[i + 1] /\ i + 1 \in 1 .. Len(todo) /\ 1 \in 1 .. Len(todo) /\ 1 < i + 1
    BY <1>1, <1>2, <2>1
  <2>3. Rank(todo[1]) < Rank(todo[i + 1])
    BY <2>2 DEF Sorted
  <2> QED BY <1>1, <2>2, <2>3 DEF Left
<1>6. \A s \in Left(todo) \ {Head(todo)} : s \in Left(Tail(todo))
  <2> TAKE s \in Left(todo) \ {Head(todo)}
  <2>1. PICK i \in 1 .. Len(todo) : s = todo[i]
    BY DEF Left
  <2>2. i # 1
    BY <1>1, <2>1
  <2>3. i - 1 \in 1 .. Len(Tail(todo)) /\ Tail(todo)[i - 1] = todo[i]
    BY <1>1, <1>2, <2>1, <2>2
  <2> QED BY <2>1, <2>3 DEF Left
<1>7. Head(todo) \notin Left(Tail(todo))
  <2> SUFFICES ASSUME Head(todo) \in Left(Tail(todo)) PROVE FALSE
    OBVIOUS
  <2>1. Rank(Head(todo)) < Rank(Head(todo))
    BY <1>5
  <2>2. Head(todo) \in Steps
    BY <1>1
  <2>3. Rank(Head(todo)) \in Nat
    BY <2>2 DEF Rank, Steps
  <2> QED BY <2>1, <2>3
<1> QED BY <1>2, <1>3, <1>4, <1>5, <1>6, <1>7

(* An agenda without steps is the empty one.                               *)
LEMMA NothingLeft ==
    ASSUME NEW todo \in Seq(Steps)
    PROVE  todo = <<>> <=> Left(todo) = {}
<1>1. CASE todo = <<>>
  BY <1>1 DEF Left
<1>2. CASE todo # <<>>
  <2>1. Len(todo) \in Nat /\ 1 \in 1 .. Len(todo)
    BY <1>2
  <2> QED BY <1>2, <2>1 DEF Left
<1> QED BY <1>1, <1>2

(* One agenda after another.                                               *)
LEMMA Joined ==
    ASSUME NEW s \in Seq(Steps), NEW t \in Seq(Steps), Sorted(s), Sorted(t),
           \A x \in Left(s), y \in Left(t) : Rank(x) < Rank(y)
    PROVE  s \o t \in Seq(Steps) /\ Left(s \o t) = Left(s) \cup Left(t) /\ Sorted(s \o t)
<1>1. /\ s \o t \in Seq(Steps) /\ Len(s \o t) = Len(s) + Len(t)
      /\ Len(s) \in Nat /\ Len(t) \in Nat
  OBVIOUS
<1>2. \A i \in 1 .. Len(s) : (s \o t)[i] = s[i]
  OBVIOUS
<1>3. \A i \in Len(s) + 1 .. Len(s) + Len(t) : (s \o t)[i] = t[i - Len(s)]
  OBVIOUS
<1>4. Left(s \o t) \subseteq Left(s) \cup Left(t)
  <2> SUFFICES ASSUME NEW i \in 1 .. Len(s \o t) PROVE (s \o t)[i] \in Left(s) \cup Left(t)
    BY DEF Left
  <2>1. CASE i <= Len(s)
    BY <1>1, <1>2, <2>1 DEF Left
  <2>2. CASE i > Len(s)
    <3>1. i - Len(s) \in 1 .. Len(t) /\ i \in Len(s) + 1 .. Len(s) + Len(t)
      BY <1>1, <2>2
    <3> QED BY <1>3, <3>1 DEF Left
  <2> QED BY <1>1, <2>1, <2>2
<1>5. Left(s) \subseteq Left(s \o t)
  <2> SUFFICES ASSUME NEW i \in 1 .. Len(s) PROVE s[i] \in Left(s \o t)
    BY DEF Left
  <2>1. i \in 1 .. Len(s \o t) /\ (s \o t)[i] = s[i]
    BY <1>1, <1>2
  <2> QED BY <2>1 DEF Left
<1>6. Left(t) \subseteq Left(s \o t)
  <2> SUFFICES ASSUME NEW i \in 1 .. Len(t) PROVE t[i] \in Left(s \o t)
    BY DEF Left
  <2>1. /\ i + Len(s) \in 1 .. Len(s \o t)
        /\ i + Len(s) \in Len(s) + 1 .. Len(s) + Len(t) /\ (i + Len(s)) - Len(s) = i
    BY <1>1
  <2>2. (s \o t)[i + Len(s)] = t[i]
    BY <1>3, <2>1
  <2> QED BY <2>1, <2>2 DEF Left
<1>7. Sorted(s \o t)
  <2> SUFFICES ASSUME NEW i \in 1 .. Len(s \o t), NEW j \in 1 .. Len(s \o t), i < j
               PROVE  Rank((s \o t)[i]) < Rank((s \o t)[j])
    BY DEF Sorted
  <2>1. CASE j <= Len(s)
    <3>1. i \in 1 .. Len(s) /\ j \in 1 .. Len(s)
      BY <1>1, <2>1
    <3> QED BY <1>2, <3>1 DEF Sorted
  <2>2. CASE i <= Len(s) /\ j > Len(s)
    <3>1. i \in 1 .. Len(s) /\ j \in Len(s) + 1 .. Len(s) + Len(t) /\ j - Len(s) \in 1 .. Len(t)
      BY <1>1, <2>2
    <3>2. (s \o t)[i] \in Left(s) /\ (s \o t)[j] \in Left(t)
      BY <1>2, <1>3, <3>1 DEF Left
    <3> QED BY <3>2
  <2>3. CASE i > Len(s)
    <3>1. /\ i \in Len(s) + 1 .. Len(s) + Len(t) /\ i - Len(s) \in 1 .. Len(t)
          /\ j \in Len(s) + 1 .. Len(s) + Len(t) /\ j - Len(s) \in 1 .. Len(t)
          /\ i - Len(s) < j - Len(s)
      BY <1>1, <2>3
    <3> QED BY <1>3, <3>1 DEF Sorted
  <2> QED BY <1>1, <2>1, <2>2, <2>3
<1> QED BY <1>1, <1>4, <1>5, <1>6, <1>7

(* What each call begins with.                                             *)
LEMMA AgendaFacts ==
    ASSUME NEW op \in Ops
    PROVE  /\ Agenda(op) \in Seq(Steps) /\ Sorted(Agenda(op))
           /\ Left(Agenda(op)) = StepsOf(op)
<1> DEFINE Good(s, set) == s \in Seq(Steps) /\ Sorted(s) /\ Left(s) = set
<1>1. Good(Available, Checks)
  BY DEF Available, Checks, Sorted, Left, Rank, Steps
<1>2. Good(Trackable, Permits)
  BY DEF Trackable, Permits, Sorted, Left, Rank, Steps
<1>3. Good(<<"load", "gate", "record", "send", "notify">>, {"load", "gate", "record", "send", "notify"})
  BY DEF Sorted, Left, Rank, Steps
<1>4. Good(<<"load", "record", "send", "notify">>, {"load", "record", "send", "notify"})
  BY DEF Sorted, Left, Rank, Steps
<1>5. Good(<<"load">>, {"load"})
  BY DEF Sorted, Left, Rank, Steps
<1>6. Good(<<"record", "send", "notify">>, {"record", "send", "notify"})
  BY DEF Sorted, Left, Rank, Steps
<1>7. Good(<<"load", "record", "send">>, {"load", "record", "send"})
  BY DEF Sorted, Left, Rank, Steps
<1>8. Good(<<"record", "send">>, {"record", "send"})
  BY DEF Sorted, Left, Rank, Steps
<1>9. ASSUME NEW s, NEW t, NEW a, NEW b, Good(s, a), Good(t, b),
             \A x \in a, y \in b : Rank(x) < Rank(y)
      PROVE  Good(s \o t, a \cup b)
  BY <1>9, Joined
<1> HIDE DEF Good
<1>10. /\ \A x \in Checks, y \in {"load", "gate", "record", "send", "notify"} : Rank(x) < Rank(y)
       /\ \A x \in Permits, y \in Checks \cup {"load", "gate", "record", "send", "notify"} :
             Rank(x) < Rank(y)
  BY DEF Checks, Permits, Rank
<1>11. Good(Available \o <<"load", "gate", "record", "send", "notify">>,
            Checks \cup {"load", "gate", "record", "send", "notify"})
  BY <1>1, <1>3, <1>9, <1>10
<1>12. Good(Available \o <<"load", "record", "send", "notify">>,
            Checks \cup {"load", "record", "send", "notify"})
  BY <1>1, <1>4, <1>9, <1>10
<1>13. Good(Available \o <<"load">>, Checks \cup {"load"})
  BY <1>1, <1>5, <1>9, <1>10
<1>14. Good(Trackable \o Available, Permits \cup Checks)
  BY <1>1, <1>2, <1>9, <1>10
<1>15. \A x \in Permits \cup Checks, y \in {"load", "record", "send"} : Rank(x) < Rank(y)
  BY <1>10
<1>16. Good((Trackable \o Available) \o <<"load", "record", "send">>,
            (Permits \cup Checks) \cup {"load", "record", "send"})
  BY <1>7, <1>9, <1>14, <1>15
<1>17. Good(Trackable \o <<"record", "send">>, Permits \cup {"record", "send"})
  BY <1>2, <1>8, <1>9, <1>10
<1>18. Good(Agenda(op), StepsOf(op))
  <2>1. CASE op = "value" BY <1>11, <2>1 DEF Agenda, StepsOf
  <2>2. CASE op = "detail" BY <1>12, <2>2 DEF Agenda, StepsOf
  <2>3. CASE op \in {"raw", "all"} BY <1>13, <2>3 DEF Agenda, StepsOf
  <2>4. CASE op = "complete" BY <1>6, <2>4 DEF Agenda, StepsOf
  <2>5. CASE op = "retrack" BY <1>16, <2>5 DEF Agenda, StepsOf
  <2>6. CASE op \in {"track", "metric"} BY <1>17, <2>6 DEF Agenda, StepsOf
  <2> QED BY <2>1, <2>2, <2>3, <2>4, <2>5, <2>6 DEF Ops, Evaluations, Explicit
<1> QED BY <1>18 DEF Good

(* What cannot be left when a step is due.                                 *)
LEMMA Behind ==
    ASSUME NEW todo \in Seq(Steps), Sorted(todo), todo # <<>>
    PROVE  /\ Head(todo) \in Steps /\ Left(todo) \subseteq Steps
           /\ Head(todo) \in {"live", "accepting"} \cup Checks => "allowed" \notin Left(todo)
           /\ Head(todo) \in {"accepting"} \cup Checks => "live" \notin Left(todo)
           /\ Head(todo) \in Checks \ {"closed"} => "closed" \notin Left(todo)
           /\ Head(todo) \in {"load", "gate", "record", "send", "notify", "observe"} =>
                 Left(todo) \cap (Permits \cup Checks) = {}
           /\ Head(todo) \in {"gate", "record", "send", "notify", "observe"} => "load" \notin Left(todo)
           /\ Head(todo) \in {"record", "send", "notify", "observe"} => "gate" \notin Left(todo)
           /\ Head(todo) \in {"send", "notify", "observe"} => "record" \notin Left(todo)
           /\ Head(todo) \in {"notify", "observe"} => "send" \notin Left(todo)
<1>1. /\ Rank("allowed") = 1 /\ Rank("live") = 2 /\ Rank("accepting") = 3 /\ Rank("closed") = 4
      /\ Rank("initialized") = 5 /\ Rank("status") = 6 /\ Rank("load") = 7 /\ Rank("gate") = 8
      /\ Rank("record") = 9 /\ Rank("send") = 10 /\ Rank("notify") = 11 /\ Rank("observe") = 12
  BY DEF Rank
<1>2. Head(todo) \in Steps /\ Left(todo) \subseteq Steps
  BY DEF Left
<1>3. \A s \in Left(todo) : s = Head(todo) \/ Rank(Head(todo)) < Rank(s)
  BY Popped
<1> QED BY <1>1, <1>2, <1>3 DEF Steps, Checks, Permits

TypedAnswer(k) ==
    k.answer \in CASE k.op \in Evaluations -> {"none", "fallback", "value"}
                   [] k.op \in Explicit -> {"none", "false", "true"}
                   [] OTHER -> {"none"}

(* A caller takes a step of a call.                                        *)
LEMMA CallMoves ==
    ASSUME IInv, NEW c \in Callers, phase = "open", NEW k \in CallRecords,
           call' = [call EXCEPT ![c] = k],
           captured' \in [Callers -> [from : {"none", "detail", "raw"}, snap : Snaps]],
           \A d \in Callers : d # c => captured'[d] = captured[d],
           calls' \in [Callers -> 0 .. MaxCalls], uses' \in [Callers -> 0 .. MaxUses],
           UNCHANGED <<options, phase, workerVars, closeVars, syncVars>>,
           TypedAnswer(k), CallInv(k, captured'[c]), CaptureInv(captured'[c])
    PROVE  IInv'
<1>1. Typed /\ PhaseInv /\ SyncInv /\ CloseInv /\ EventsInv
  BY DEF IInv
<1>2. /\ options' = options /\ phase' = phase /\ synchronizer' = synchronizer
      /\ processor' = processor /\ accepting' = accepting /\ eventsEnded' = eventsEnded
      /\ closed' = closed /\ syncClosed' = syncClosed /\ eventsClosed' = eventsClosed
      /\ syncComplete' = syncComplete /\ eventsComplete' = eventsComplete /\ closer' = closer /\ gaveUp' = gaveUp
      /\ snapshot' = snapshot /\ status' = status /\ initialized' = initialized
      /\ stop' = stop /\ ended' = ended
  BY DEF workerVars, closeFlags, closeVars, syncVars
<1>3. /\ call' \in [Callers -> CallRecords] /\ call'[c] = k
      /\ \A d \in Callers : d # c => call'[d] = call[d]
  BY <1>1 DEF Typed
<1>4. TypeOK'
  <2>1. \A d \in Callers : /\ call'[d].op \in Ops \cup {"none"}
                           /\ captured'[d].from \in {"none", "detail", "raw"}
    BY <1>3 DEF CallRecords
  <2>2. \A d \in Callers : TypedAnswer(call'[d])
    BY <1>1, <1>3 DEF Typed, TypeOK, TypedAnswer
  <2> QED BY <1>1, <1>2, <2>1, <2>2 DEF Typed, TypeOK, TypedAnswer
<1>5. Typed'
  BY <1>3, <1>4 DEF Typed
<1>6. PhaseInv'
  BY <1>1, <1>2 DEF PhaseInv
<1>7. SyncInv' /\ CloseInv' /\ EventsInv'
  BY <1>1, <1>2 DEF SyncInv, CloseInv, EventsInv, IsOver
<1>8. ASSUME NEW d \in Callers PROVE (CallInv(call[d], captured[d]) /\ CaptureInv(captured[d]))'
  <2>1. CallInv(call'[d], captured'[d]) /\ CaptureInv(captured'[d])
    BY <1>3 DEF IInv
  <2>2. Underway(call'[d], captured'[d]) => Underway(call[d], captured[d])'
    BY <1>2 DEF Underway, Recordable
  <2>3. HasFailed(call'[d]) => HasFailed(call[d])'
    BY <1>2 DEF HasFailed
  <2>4. Recorded(call'[d]) => Recorded(call[d])'
    BY <1>2 DEF Recorded, Recordable
  <2>5. ObservedOk(call'[d]) => ObservedOk(call[d])'
    BY <1>2 DEF ObservedOk
  <2>6. Refusable(call'[d]) => Refusable(call[d])'
    BY <1>2 DEF Refusable, IsOver
  <2> QED BY <2>1, <2>2, <2>3, <2>4, <2>5, <2>6 DEF CallInv, CaptureInv
<1> QED BY <1>5, <1>6, <1>7, <1>8 DEF IInv

(* A step of another thread finds the calls undisturbed: what they rely on *)
(* only grows.                                                             *)
LEMMA CallsUndisturbed ==
    ASSUME IInv, UNCHANGED callVars,
           \/ phase # "open"
           \/ /\ options' = options /\ (initialized => initialized') /\ (closed => closed')
              /\ IsOver => IsOver'
    PROVE  \A c \in Callers : (CallInv(call[c], captured[c]) /\ CaptureInv(captured[c]))'
<1> SUFFICES ASSUME NEW c \in Callers
             PROVE  (CallInv(call[c], captured[c]) /\ CaptureInv(captured[c]))'
  OBVIOUS
<1>1. call' = call /\ captured' = captured
  BY DEF callVars
<1>2. CaptureInv(captured[c])'
  BY <1>1 DEF IInv, CaptureInv
<1>3. CASE phase # "open"
  <2>1. call'[c] = NoCall
    BY <1>1, <1>3 DEF IInv, PhaseInv
  <2>2. call'[c].op = "none"
    BY <2>1 DEF NoCall
  <2> QED BY <1>2, <2>1, <2>2 DEF CallInv
<1>4. CASE /\ options' = options /\ (initialized => initialized') /\ (closed => closed')
           /\ IsOver => IsOver'
  <2>1. CallInv(call[c], captured[c])
    BY DEF IInv
  <2>2. Underway(call[c], captured[c]) => Underway(call[c], captured[c])'
    BY <1>1, <1>4 DEF Underway, Recordable
  <2>3. HasFailed(call[c]) => HasFailed(call[c])'
    BY <1>1, <1>4 DEF HasFailed
  <2>4. Recorded(call[c]) => Recorded(call[c])'
    BY <1>1, <1>4 DEF Recorded, Recordable
  <2>5. ObservedOk(call[c]) => ObservedOk(call[c])'
    BY <1>1, <1>4 DEF ObservedOk
  <2>6. Refusable(call[c]) => Refusable(call[c])'
    BY <1>1, <1>4 DEF Refusable
  <2> QED BY <1>1, <1>2, <2>1, <2>2, <2>3, <2>4, <2>5, <2>6 DEF CallInv
<1> QED BY <1>3, <1>4
-----------------------------------------------------------------------------
LEMMA InitIInv == Init => IInv
<1> SUFFICES ASSUME Init PROVE IInv
  OBVIOUS
<1>1. NoCall \in CallRecords /\ NoCall.op = "none" /\ NoCall.answer = "none"
  BY DEF NoCall, CallRecords, Snaps, Errors, Ops, Steps
<1>2. NoCapture \in [from : {"none", "detail", "raw"}, snap : Snaps] /\ NoCapture.from = "none"
  BY DEF NoCapture, Snaps
<1>3. TypeOK
  <2>1. \A c \in Callers : TypedAnswer(call[c])
    BY <1>1 DEF Init, TypedAnswer, Evaluations, Explicit
  <2>2. calls \in [Callers -> 0 .. MaxCalls] /\ uses \in [Callers -> 0 .. MaxUses]
    BY ClientAssumption DEF Init
  <2>3. /\ closer \in [Closers \cup {Dropper} ->
              {"idle", "sync", "noSync", "waiting", "lateWaiting", "events", "draining",
             "lateDraining", "returned"}]
        /\ \A c \in Callers : /\ call[c].op \in Ops \cup {"none"}
                             /\ captured[c].from \in {"none", "detail", "raw"}
    BY <1>1, <1>2 DEF Init
  <2>4. /\ options \in Candidates /\ phase = "draft" /\ synchronizer = FALSE /\ processor = FALSE
        /\ accepting = FALSE /\ eventsEnded = FALSE
        /\ closed = FALSE /\ syncClosed = FALSE /\ syncComplete = FALSE
        /\ eventsClosed = FALSE /\ eventsComplete = FALSE /\ gaveUp = FALSE
        /\ snapshot = NoSnapshot /\ status = "Starting" /\ initialized = FALSE
        /\ stop = FALSE /\ ended = FALSE
    BY DEF Init, SyncInit
  <2> QED BY <2>1, <2>2, <2>3, <2>4 DEF TypeOK, TypedAnswer
<1>4. Typed
  BY <1>1, <1>2, <1>3 DEF Init, Typed
<1>5. PhaseInv /\ SyncInv /\ CloseInv /\ EventsInv
  BY DEF Init, SyncInit, PhaseInv, SyncInv, CloseInv, EventsInv
<1>6. \A c \in Callers : CallInv(call[c], captured[c]) /\ CaptureInv(captured[c])
  BY <1>1, <1>2 DEF Init, CallInv, CaptureInv
<1> QED BY <1>4, <1>5, <1>6 DEF IInv

(* What the client keeps of its builder.                                   *)
LEMMA KeptFacts ==
    ASSUME NEW mode \in Modes
    PROVE  /\ mode.offline \in BOOLEAN /\ mode.observer \in BOOLEAN
           /\ mode.disable_events \in BOOLEAN /\ mode.allow_track \in BOOLEAN
<1>1. PICK draft \in Candidates : mode = Kept(draft)
  BY DEF Modes
<1>2. draft \in Drafts
  BY ClientAssumption
<1> QED BY <1>1, <1>2 DEF Kept, Drafts

LEMMA StartKeepsIInv == IInv /\ (Build \/ StartOffline \/ StartOnline \/ Open) => IInv'
<1> SUFFICES ASSUME IInv, Build \/ StartOffline \/ StartOnline \/ Open PROVE IInv'
  OBVIOUS
<1> USE DEF workerVars, closeFlags, closeVars, callVars, syncVars
<1>1. Typed /\ PhaseInv /\ SyncInv /\ CloseInv /\ EventsInv
  BY DEF IInv
<1>2. phase # "open" /\ UNCHANGED callVars /\ UNCHANGED closeVars
  BY DEF Build, StartOffline, StartOnline, Open
<1>3. \A c \in Callers : (CallInv(call[c], captured[c]) /\ CaptureInv(captured[c]))'
  BY <1>2, CallsUndisturbed
<1>4. (\A c \in Callers : call[c] = NoCall) /\ (\A c \in Closers \cup {Dropper} : closer[c] = "idle")
      /\ ~ syncComplete /\ ~ eventsClosed /\ ~ eventsComplete
  BY <1>1, <1>2 DEF PhaseInv
<1>5. CloseInv' /\ EventsInv'
  <2>1. CloseInv'
    BY <1>2, <1>4 DEF CloseInv
  <2>2. accepting' => processor' /\ ~ eventsClosed' /\ ~ eventsEnded'
    BY <1>1, <1>2, <1>4
       DEF EventsInv, PhaseInv, Build, StartOffline, StartOnline, Open
  <2> QED BY <1>2, <1>4, <2>1, <2>2 DEF EventsInv
<1>6. CASE Build
  <2>1. options' \in Candidates \cup Modes /\ (phase' = "refused" => options' \in Candidates)
        /\ (phase' = "built" => options' \in Modes) /\ phase' \in {"refused", "built"}
    BY <1>1, <1>6 DEF Build, PhaseInv, Modes
  <2>2. Typed'
    BY <1>1, <1>6, <2>1 DEF Build, Typed, TypeOK, Modes
  <2>3. PhaseInv'
    BY <1>1, <1>4, <1>6, <2>1 DEF Build, PhaseInv
  <2>4. SyncInv'
    BY <1>1, <1>6, <2>1 DEF Build, PhaseInv, SyncInv
  <2> QED BY <1>3, <1>5, <2>2, <2>3, <2>4 DEF IInv
<1>7. CASE StartOffline
  <2>1. Typed'
    BY <1>1, <1>7 DEF StartOffline, Typed, TypeOK
  <2>2. PhaseInv'
    BY <1>1, <1>4, <1>7 DEF StartOffline, PhaseInv
  <2>3. SyncInv'
    BY <1>1, <1>7 DEF StartOffline, PhaseInv, SyncInv
  <2> QED BY <1>3, <1>5, <2>1, <2>2, <2>3 DEF IInv
<1>8. CASE StartOnline
  <2>1. options.disable_events \in BOOLEAN /\ options.allow_track \in BOOLEAN
        /\ options.offline \in BOOLEAN
    BY <1>1, <1>8, KeptFacts DEF StartOnline, PhaseInv
  <2>2. WantsEvents \in BOOLEAN
    BY <2>1 DEF WantsEvents
  <2>3. Typed'
    <3>1. status' \in {"Starting", "Ready", "Stale", "Closed"} /\ initialized' \in BOOLEAN
          /\ ended' \in BOOLEAN /\ stop' \in BOOLEAN /\ synchronizer' \in BOOLEAN
          /\ snapshot' \in Snaps
      BY <1>1, <1>8 DEF StartOnline, Typed, TypeOK, SetStatus, Snaps
    <3> QED BY <1>1, <1>8, <2>2, <3>1 DEF StartOnline, Typed, TypeOK, Snaps
  <2>4. PhaseInv'
    BY <1>1, <1>4, <1>8 DEF StartOnline, PhaseInv
  <2>5. SyncInv'
    <3>1. ~ initialized /\ ~ synchronizer /\ options' = options
      BY <1>1, <1>8 DEF StartOnline, PhaseInv
    <3>2. CASE synchronizer' = TRUE /\ UNCHANGED syncVars
      <4>1. ~ ended
        BY <1>1, <1>8 DEF StartOnline, PhaseInv
      <4> QED BY <3>1, <3>2, <4>1 DEF SyncInv
    <3>3. CASE SetStatus("Closed") /\ ended' = TRUE /\ UNCHANGED <<synchronizer, snapshot, stop>>
      <4>1. ~ initialized'
        BY <3>1, <3>3 DEF SetStatus
      <4> QED BY <3>1, <3>3, <4>1 DEF SyncInv
    <3> QED BY <1>8, <3>2, <3>3 DEF StartOnline
  <2> QED BY <1>3, <1>5, <2>3, <2>4, <2>5 DEF IInv
<1>9. CASE Open
  <2>1. Typed'
    BY <1>1, <1>9 DEF Open, Typed, TypeOK
  <2>2. PhaseInv'
    BY <1>1, <1>9 DEF Open, PhaseInv
  <2>3. SyncInv'
    BY <1>1, <1>9 DEF Open, SyncInv
  <2> QED BY <1>3, <1>5, <2>1, <2>2, <2>3 DEF IInv
<1> QED BY <1>6, <1>7, <1>8, <1>9

LEMMA WorkersKeepIInv == IInv /\ (Worker \/ DeliveryStops \/ EventWorkerEnds) => IInv'
<1> SUFFICES ASSUME IInv, Worker \/ DeliveryStops \/ EventWorkerEnds PROVE IInv'
  OBVIOUS
<1> USE DEF workerVars, closeFlags, closeVars, callVars, syncVars
<1>1. Typed /\ PhaseInv /\ SyncInv /\ CloseInv /\ EventsInv
  BY DEF IInv
<1>2. CASE Worker
  <2>1. /\ snapshot' = snapshot \/ snapshot' \in Snapshots
        /\ status' \in {"Starting", "Ready", "Stale", "Closed"}
        /\ initialized => initialized'
        /\ initialized' \in BOOLEAN /\ ended' \in BOOLEAN /\ stop' = stop
        /\ initialized' => initialized \/ (snapshot # NoSnapshot /\ snapshot' = snapshot)
        /\ ended => ended'
        /\ IsOver => IsOver'
        /\ ended' => status' \in {status, "Closed"} /\ (ended \/ status' = "Closed")
    <3>1. /\ status \in {"Starting", "Ready", "Stale", "Closed"} /\ initialized \in BOOLEAN
          /\ ended \in BOOLEAN
      BY <1>1 DEF Typed, TypeOK
    <3>2. CASE StoreData
      BY <3>1, <3>2 DEF StoreData, IsOver
    <3>3. CASE AnnounceReady
      BY <3>1, <3>3 DEF AnnounceReady, SetStatus, IsOver
    <3>4. CASE AnnounceStale
      BY <3>1, <3>4 DEF AnnounceStale, SetStatus, IsOver
    <3>5. CASE AnnounceClosed
      BY <3>1, <3>5 DEF AnnounceClosed, SetStatus, IsOver
    <3>6. CASE End
      BY <3>1, <3>6 DEF End, SetStatus, IsOver
    <3> QED BY <1>2, <3>2, <3>3, <3>4, <3>5, <3>6 DEF Worker, WorkerTurn
  <2>2. options' = options /\ phase' = phase /\ synchronizer' = synchronizer /\ synchronizer
        /\ processor' = processor /\ accepting' = accepting /\ eventsEnded' = eventsEnded
        /\ UNCHANGED closeVars /\ UNCHANGED callVars
    BY <1>2 DEF Worker
  <2>3. Typed'
    BY <1>1, <2>1, <2>2 DEF Typed, TypeOK
  <2>4. PhaseInv'
    BY <1>1, <2>1, <2>2 DEF PhaseInv
  <2>5. SyncInv'
    <3>1. ended => status = "Closed"
      BY <1>1, <2>2 DEF SyncInv
    <3> QED BY <1>1, <2>1, <2>2, <3>1, ClientAssumption DEF SyncInv, IsOver
  <2>6. CloseInv' /\ EventsInv'
    BY <1>1, <2>1, <2>2 DEF CloseInv, EventsInv
  <2>7. \A c \in Callers : (CallInv(call[c], captured[c]) /\ CaptureInv(captured[c]))'
    BY <2>1, <2>2, CallsUndisturbed
  <2> QED BY <2>3, <2>4, <2>5, <2>6, <2>7 DEF IInv
<1>3. CASE DeliveryStops \/ EventWorkerEnds
  <2>1. /\ ~ accepting' /\ eventsEnded' \in BOOLEAN /\ (eventsEnded => eventsEnded')
        /\ options' = options /\ phase' = phase
        /\ synchronizer' = synchronizer /\ processor' = processor
        /\ (eventsEnded' => eventsEnded \/ processor)
        /\ UNCHANGED closeVars /\ UNCHANGED callVars /\ UNCHANGED syncVars
    <3>1. eventsEnded \in BOOLEAN
      BY <1>1 DEF Typed, TypeOK
    <3>2. CASE DeliveryStops
      BY <3>1, <3>2 DEF DeliveryStops
    <3>3. CASE EventWorkerEnds
      BY <3>1, <3>3 DEF EventWorkerEnds
    <3> QED BY <1>3, <3>2, <3>3
  <2>2. accepting' \in BOOLEAN
    BY <1>3 DEF DeliveryStops, EventWorkerEnds
  <2>3. Typed'
    BY <1>1, <2>1, <2>2 DEF Typed, TypeOK
  <2>4. PhaseInv'
    BY <1>1, <2>1 DEF PhaseInv
  <2>5. SyncInv' /\ CloseInv' /\ EventsInv'
    BY <1>1, <2>1 DEF SyncInv, CloseInv, EventsInv, IsOver
  <2>6. \A c \in Callers : (CallInv(call[c], captured[c]) /\ CaptureInv(captured[c]))'
    BY <2>1, CallsUndisturbed DEF IsOver
  <2> QED BY <2>3, <2>4, <2>5, <2>6 DEF IInv
<1> QED BY <1>2, <1>3

LEMMA CloseKeepsIInv ==
    ASSUME IInv, NEW c \in Closers \cup {Dropper}, CloseBegin(c) \/ Closing(c)
    PROVE  IInv'
<1> USE DEF workerVars, closeFlags, closeVars, callVars, syncVars
<1>1. Typed /\ PhaseInv /\ SyncInv /\ CloseInv /\ EventsInv
  BY DEF IInv
<1>2. UNCHANGED otherThanClose
  BY DEF CloseBegin, Closing, CloseUnsynchronized, CloseFirst, CloseLate, CloseWaited, CloseEvents,
         CloseDrained
<1>3. PICK here \in {"idle", "sync", "noSync", "waiting", "lateWaiting", "events", "draining",
                    "lateDraining"},
           there \in {"sync", "noSync", "waiting", "lateWaiting", "events", "draining",
                     "lateDraining", "returned"} :
        Goto(c, here, there)
  <2>1. CASE CloseBegin(c)
    BY <2>1 DEF CloseBegin
  <2>2. CASE CloseUnsynchronized(c)
    BY <2>2 DEF CloseUnsynchronized
  <2>3. CASE CloseFirst(c)
    BY <2>3 DEF CloseFirst
  <2>4. CASE CloseLate(c)
    BY <2>4 DEF CloseLate
  <2>5. CASE CloseWaited(c)
    BY <2>5 DEF CloseWaited
  <2>6. CASE CloseEvents(c)
    BY <1>1, <2>6 DEF CloseEvents, Typed, TypeOK
  <2>7. CASE CloseDrained(c)
    BY <2>7 DEF CloseDrained
  <2> QED BY <2>1, <2>2, <2>3, <2>4, <2>5, <2>6, <2>7 DEF Closing
<1>4. /\ closer' \in [Closers \cup {Dropper} ->
            {"idle", "sync", "noSync", "waiting", "lateWaiting", "events", "draining",
             "lateDraining", "returned"}]
      /\ closer'[c] = there
      /\ \A d \in Closers \cup {Dropper} : d # c => closer'[d] = closer[d]
  BY <1>1, <1>3 DEF Goto, Typed, TypeOK
<1>5. phase = "open"
  <2>1. phase = "open" \/ closer[c] # "idle"
    BY DEF CloseBegin, MayClose, Closing, CloseUnsynchronized, CloseFirst, CloseLate, CloseWaited,
           CloseEvents, CloseDrained, Goto
  <2> QED BY <1>1, <2>1 DEF PhaseInv
<1>6. /\ status' \in {status, "Closed"} /\ initialized' = initialized /\ snapshot' = snapshot
      /\ stop' \in BOOLEAN /\ ended' = ended /\ (accepting' => accepting)
      /\ accepting' \in BOOLEAN /\ closed' \in BOOLEAN /\ syncClosed' \in BOOLEAN
      /\ syncComplete' \in BOOLEAN /\ eventsClosed' \in BOOLEAN /\ eventsComplete' \in BOOLEAN
      /\ gaveUp' \in BOOLEAN
      /\ (closed => closed') /\ (gaveUp => gaveUp') /\ (eventsClosed => eventsClosed')
  <2>1. CASE CloseBegin(c)
    BY <1>1, <2>1 DEF CloseBegin, otherThanClosed, Typed, TypeOK
  <2>2. CASE CloseUnsynchronized(c)
    BY <1>1, <2>2 DEF CloseUnsynchronized, SetStatus, Typed, TypeOK
  <2>3. CASE CloseFirst(c)
    BY <1>1, <2>3 DEF CloseFirst, RequestStop, Typed, TypeOK
  <2>4. CASE CloseLate(c)
    BY <1>1, <2>4 DEF CloseLate, Typed, TypeOK
  <2>5. CASE CloseWaited(c)
    BY <1>1, <2>5 DEF CloseWaited, SetStatus, Typed, TypeOK
  <2>6. CASE CloseEvents(c)
    BY <1>1, <2>6 DEF CloseEvents, Typed, TypeOK
  <2>7. CASE CloseDrained(c)
    BY <1>1, <2>7 DEF CloseDrained, Typed, TypeOK
  <2> QED BY <2>1, <2>2, <2>3, <2>4, <2>5, <2>6, <2>7 DEF Closing
<1>7. Typed'
  BY <1>1, <1>2, <1>4, <1>6 DEF Typed, TypeOK, otherThanClose
<1>8. PhaseInv'
  BY <1>1, <1>2, <1>5, <1>6 DEF PhaseInv, otherThanClose
<1>9. SyncInv'
  BY <1>1, <1>2, <1>6 DEF SyncInv, otherThanClose
<1>10. IsOver => IsOver'
  BY <1>6 DEF IsOver
<1>11. /\ syncComplete' /\ ~ gaveUp' => IsOver'
       /\ there \in {"sync", "waiting", "lateWaiting"} => synchronizer
       /\ there = "noSync" => ~ synchronizer
       /\ there \in {"events", "draining", "lateDraining", "returned"} /\ ~ gaveUp' => IsOver'
  <2>1. CASE CloseBegin(c)
    BY <1>1, <1>4, <1>10, <2>1 DEF CloseBegin, otherThanClosed, Goto, CloseInv, Typed, TypeOK
  <2>2. CASE CloseUnsynchronized(c)
    <3>1. there = "events" /\ closer[c] = "noSync"
      BY <1>1, <1>4, <2>2 DEF CloseUnsynchronized, Goto, Typed, TypeOK
    <3>2. ended /\ status' = "Closed" /\ ended' = ended
      BY <1>1, <1>5, <2>2, <3>1 DEF CloseUnsynchronized, SetStatus, CloseInv, SyncInv
    <3> QED BY <1>1, <1>10, <2>2, <3>1, <3>2 DEF CloseUnsynchronized, CloseInv, IsOver
  <2>3. CASE CloseFirst(c)
    <3>1. there = "waiting" /\ closer[c] = "sync"
      BY <1>1, <1>4, <2>3 DEF CloseFirst, Goto, Typed, TypeOK
    <3> QED BY <1>1, <1>10, <2>3, <3>1 DEF CloseFirst, CloseInv
  <2>4. CASE CloseLate(c)
    <3>1. there = (IF syncComplete THEN "events" ELSE "lateWaiting") /\ closer[c] = "sync"
      BY <1>1, <1>4, <2>4 DEF CloseLate, Goto, Typed, TypeOK
    <3> QED BY <1>1, <1>10, <2>4, <3>1 DEF CloseLate, CloseInv
  <2>5. CASE CloseWaited(c)
    <3>1. there = "events"
      BY <1>1, <1>4, <2>5 DEF CloseWaited, Goto, Typed, TypeOK
    <3>2. ~ gaveUp' => ended' /\ status' = "Closed"
      BY <1>1, <2>5 DEF CloseWaited, SetStatus, Typed, TypeOK
    <3> QED BY <3>1, <3>2 DEF IsOver
  <2>6. CASE CloseEvents(c) \/ CloseDrained(c)
    <3>1. there \in {"draining", "lateDraining", "returned"}
          /\ closer[c] \in {"events", "draining", "lateDraining"}
          /\ syncComplete' = syncComplete
      BY <1>1, <1>4, <2>6 DEF CloseEvents, CloseDrained, Goto, Typed, TypeOK
    <3> QED BY <1>1, <1>6, <1>10, <3>1 DEF CloseInv
  <2> QED BY <2>1, <2>2, <2>3, <2>4, <2>5, <2>6 DEF Closing
<1>12. CloseInv'
  <2>1. ASSUME NEW d \in Closers \cup {Dropper}
        PROVE  /\ closer'[d] \in {"sync", "waiting", "lateWaiting"} => synchronizer'
               /\ closer'[d] = "noSync" => ~ synchronizer'
               /\ closer'[d] \in {"events", "draining", "lateDraining", "returned"} /\ ~ gaveUp'
                     => IsOver'
    <3>1. CASE d = c
      BY <1>2, <1>4, <1>11, <3>1 DEF otherThanClose
    <3>2. CASE d # c
      BY <1>1, <1>2, <1>4, <1>6, <1>10, <3>2 DEF CloseInv, otherThanClose
    <3> QED BY <3>1, <3>2
  <2> QED BY <1>11, <2>1 DEF CloseInv
<1>13. /\ accepting' => processor /\ ~ eventsClosed' /\ ~ eventsEnded
       /\ eventsComplete' /\ ~ gaveUp' => eventsEnded
       /\ there \in {"draining", "lateDraining"} => eventsClosed'
       /\ there = "returned" => ~ accepting' /\ (~ gaveUp' => (processor => eventsEnded))
  <2>1. CASE \/ CloseBegin(c) \/ CloseUnsynchronized(c) \/ CloseFirst(c) \/ CloseLate(c)
             \/ CloseWaited(c)
    <3>1. there \in {"sync", "noSync", "waiting", "lateWaiting", "events"}
      BY <1>1, <1>4, <2>1
         DEF CloseBegin, CloseUnsynchronized, CloseFirst, CloseLate, CloseWaited, Goto, Typed,
             TypeOK
    <3>2. UNCHANGED <<accepting, eventsClosed, eventsComplete>>
      BY <2>1
         DEF CloseBegin, CloseUnsynchronized, CloseFirst, CloseLate, CloseWaited, otherThanClosed
    <3> QED BY <1>1, <1>6, <3>1, <3>2 DEF EventsInv
  <2>2. CASE CloseEvents(c)
    <3>1. /\ ~ accepting' /\ eventsComplete' = eventsComplete /\ gaveUp' = gaveUp
          /\ eventsClosed' = (eventsClosed \/ processor)
      BY <2>2 DEF CloseEvents
    <3>2. there = CASE ~ processor -> "returned"
                    [] processor /\ ~ eventsClosed -> "draining"
                    [] processor /\ eventsClosed ->
                          IF eventsComplete THEN "returned" ELSE "lateDraining"
      BY <1>1, <1>4, <2>2 DEF CloseEvents, Goto, Typed, TypeOK
    <3>3. CASE ~ processor
      BY <1>1, <3>1, <3>2, <3>3 DEF EventsInv
    <3>4. CASE processor /\ ~ eventsClosed
      <4>1. there = "draining" BY <3>2, <3>4
      <4> QED BY <1>1, <3>1, <3>4, <4>1 DEF EventsInv
    <3>5. CASE processor /\ eventsClosed
      <4>1. there = IF eventsComplete THEN "returned" ELSE "lateDraining" BY <3>2, <3>5
      <4> QED BY <1>1, <3>1, <3>5, <4>1 DEF EventsInv
    <3> QED BY <3>3, <3>4, <3>5
  <2>3. CASE CloseDrained(c)
    <3>1. there = "returned" /\ closer[c] \in {"draining", "lateDraining"}
      BY <1>1, <1>4, <2>3 DEF CloseDrained, Goto, Typed, TypeOK
    <3>2. UNCHANGED <<accepting, eventsClosed>> /\ (gaveUp' <=> gaveUp \/ ~ eventsEnded)
      BY <2>3 DEF CloseDrained
    <3> QED BY <1>1, <3>1, <3>2 DEF EventsInv
  <2> QED BY <2>1, <2>2, <2>3 DEF Closing
<1>14. EventsInv'
  <2>1. processor' = processor /\ eventsEnded' = eventsEnded
    BY <1>2 DEF otherThanClose
  <2>2. ASSUME NEW d \in Closers \cup {Dropper}
        PROVE  /\ closer'[d] \in {"draining", "lateDraining"} => eventsClosed'
               /\ closer'[d] = "returned" =>
                     ~ accepting' /\ (~ gaveUp' => (processor' => eventsEnded'))
    <3>1. CASE d = c
      BY <1>4, <1>13, <2>1, <3>1
    <3>2. CASE d # c
      BY <1>1, <1>4, <1>6, <2>1, <3>2 DEF EventsInv
    <3> QED BY <3>1, <3>2
  <2> QED BY <1>13, <2>1, <2>2 DEF EventsInv
<1>15. \A d \in Callers : (CallInv(call[d], captured[d]) /\ CaptureInv(captured[d]))'
  BY <1>2, <1>6, <1>10, CallsUndisturbed DEF otherThanClose
<1> QED BY <1>7, <1>8, <1>9, <1>12, <1>14, <1>15 DEF IInv
-----------------------------------------------------------------------------
(* A call that has a step to take.                                         *)
LEMMA Due ==
    ASSUME IInv, NEW c \in Callers, call[c].op # "none"
    PROVE  /\ phase = "open" /\ call[c] \in CallRecords /\ call[c].op \in Ops
           /\ CallInv(call[c], captured[c]) /\ CaptureInv(captured[c]) /\ TypedAnswer(call[c])
           /\ captured[c] \in [from : {"none", "detail", "raw"}, snap : Snaps]
           /\ snapshot \in Snaps /\ accepting \in BOOLEAN
           /\ calls \in [Callers -> 0 .. MaxCalls] /\ uses \in [Callers -> 0 .. MaxUses]
           /\ options \in Modes /\ (accepting => ~ options.offline)
           /\ initialized /\ ~ options.offline => snapshot # NoSnapshot
<1>1. phase = "open"
  <2>1. call[c] # NoCall
    BY DEF NoCall
  <2> QED BY <2>1 DEF IInv, PhaseInv
<1>2. call[c] \in CallRecords /\ captured[c] \in [from : {"none", "detail", "raw"}, snap : Snaps]
  BY DEF IInv, Typed
<1>3. call[c].op \in Ops
  BY <1>2 DEF CallRecords
<1>4. CallInv(call[c], captured[c]) /\ CaptureInv(captured[c])
  BY DEF IInv
<1>5. TypedAnswer(call[c]) /\ snapshot \in Snaps /\ accepting \in BOOLEAN
      /\ calls \in [Callers -> 0 .. MaxCalls] /\ uses \in [Callers -> 0 .. MaxUses]
  BY DEF IInv, Typed, TypeOK, TypedAnswer, Snaps
<1>6. options \in Modes /\ (accepting => ~ options.offline)
      /\ (initialized /\ ~ options.offline => snapshot # NoSnapshot)
  BY <1>1 DEF IInv, PhaseInv, SyncInv
<1> QED BY <1>1, <1>2, <1>3, <1>4, <1>5, <1>6

(* The step that is due.                                                   *)
LEMMA DueStep ==
    ASSUME IInv, NEW c \in Callers, NEW step \in Steps, At(c, step)
    PROVE  /\ call[c].op # "none" /\ call[c].todo \in Seq(Steps) /\ Sorted(call[c].todo)
           /\ call[c].todo # <<>> /\ Head(call[c].todo) = step /\ step \in Left(call[c].todo)
           /\ step # "observe" => call[c].error = "none" /\ Underway(call[c], captured[c])
           /\ step = "observe" => call[c].error # "none" /\ HasFailed(call[c])
<1>1. call[c].todo # <<>> /\ Head(call[c].todo) = step
  BY DEF At
<1>2. CallInv(call[c], captured[c])
  BY DEF IInv
<1>3. call[c].op # "none"
  BY <1>1, <1>2 DEF CallInv, NoCall
<1>4. call[c].todo \in Seq(Steps) /\ call[c].op \in Ops
  BY <1>3, Due DEF CallRecords
<1>5. Sorted(call[c].todo)
  BY <1>2, <1>3 DEF CallInv
<1>6. step \in Left(call[c].todo)
  BY <1>1, <1>4, <1>5, Popped
<1>7. step # "observe" => call[c].error = "none"
  BY <1>2, <1>3, <1>6 DEF CallInv, HasFailed
<1>8. step = "observe" => call[c].error # "none"
  BY <1>2, <1>3, <1>4, <1>6 DEF CallInv, Underway, StepsOf, Checks, Permits, Ops, Evaluations, Explicit
<1> QED BY <1>1, <1>2, <1>3, <1>4, <1>5, <1>6, <1>7, <1>8 DEF CallInv

(* A call that fails before it recorded or told anything.                  *)
LEMMA FailedHolds ==
    ASSUME NEW k \in CallRecords, k.op \in Ops \ {"complete"},
           k.events = <<>>, k.observed = <<>>,
           NEW error \in Errors \ {"none"}, k.late => error = "notReady",
           error \in {"missing", "malformed", "mismatch"} /\ ~ options.offline => k.snap # NoSnapshot,
           NEW capture
    PROVE  /\ Failed(k, error) \in CallRecords /\ TypedAnswer(Failed(k, error))
           /\ CallInv(Failed(k, error), capture)
<1> DEFINE f == Failed(k, error)
<1>1. /\ f \in CallRecords /\ f.op = k.op /\ f.error = error /\ f.late = k.late /\ f.snap = k.snap
      /\ f.events = <<>> /\ f.observed = <<>> /\ f.keyed = k.keyed
      /\ f.answer = (IF k.op \in Evaluations THEN "fallback" ELSE "false")
      /\ f.todo = (IF k.op \in {"value", "detail", "raw"} THEN <<"observe">> ELSE <<>>)
  <2>1. f.todo \in Seq(Steps)
    <3>1. <<"observe">> \in Seq(Steps) /\ <<>> \in Seq(Steps)
      BY DEF Steps
    <3> QED BY <3>1 DEF Failed, CallRecords
  <2>2. f.answer \in {"none", "fallback", "value", "false", "true"}
    BY DEF Failed, CallRecords
  <2> QED BY <2>1, <2>2 DEF Failed, CallRecords
<1> HIDE DEF f
<1>2. /\ Sorted(f.todo)
      /\ Left(f.todo) = IF k.op \in {"value", "detail", "raw"} THEN {"observe"} ELSE {}
  <2>1. Sorted(<<"observe">>) /\ Left(<<"observe">>) = {"observe"}
    BY DEF Sorted, Left
  <2>2. Sorted(<<>>) /\ Left(<<>>) = {}
    BY DEF Sorted, Left
  <2> QED BY <1>1, <2>1, <2>2
<1>3. TypedAnswer(f) /\ f.op # "none"
  BY <1>1 DEF TypedAnswer, Ops, Evaluations, Explicit
<1>4. HasFailed(f)
  BY <1>1, <1>2 DEF HasFailed
<1>5. Recorded(f)
  BY <1>1 DEF Recorded
<1>6. ObservedOk(f)
  BY <1>1, <1>2 DEF ObservedOk, Told, Ops, Evaluations, Explicit
<1>7. Refusable(f)
  BY <1>1 DEF Refusable
<1>8. CallInv(f, capture)
  BY <1>1, <1>2, <1>3, <1>4, <1>5, <1>6, <1>7 DEF CallInv
<1> QED BY <1>1, <1>3, <1>8 DEF f

(* A call begins: its agenda is before it.                                 *)
LEMMA BeginKeepsIInv ==
    ASSUME IInv, NEW c \in Callers, BeginFresh(c) \/ BeginUse(c)
    PROVE  IInv'
<1>1. PICK op \in Ops, keyed \in BOOLEAN, snap \in Snaps :
        /\ call' = [call EXCEPT ![c] = Begun(op, keyed, snap)]
        /\ op \in {"track", "complete"} => captured[c].from # "none" /\ snap = captured[c].snap
  <2>1. CASE BeginFresh(c)
    <3>1. PICK op \in Evaluations \cup {"retrack", "metric"}, keyed \in BOOLEAN :
            call' = [call EXCEPT ![c] = Begun(op, keyed, NoSnapshot)]
      BY <2>1 DEF BeginFresh
    <3>2. op \in Ops /\ op \notin {"track", "complete"} /\ NoSnapshot \in Snaps
      BY <3>1 DEF Ops, Evaluations, Explicit, Snaps
    <3> QED BY <3>1, <3>2
  <2>2. CASE BeginUse(c)
    <3>1. PICK op \in {"track", "complete"}, keyed \in BOOLEAN :
            /\ captured[c].from \in (IF op = "track" THEN {"detail", "raw"} ELSE {"raw"})
            /\ call' = [call EXCEPT ![c] = Begun(op, keyed, captured[c].snap)]
      BY <2>2 DEF BeginUse
    <3>2. op \in Ops /\ captured[c].from # "none"
      BY <3>1 DEF Ops, Explicit
    <3>3. captured[c].snap \in Snaps
      BY DEF IInv, Typed
    <3> QED BY <3>1, <3>2, <3>3
  <2> QED BY <2>1, <2>2
<1>2. phase = "open" /\ captured' = captured
      /\ UNCHANGED <<options, phase, workerVars, closeVars, syncVars>>
  BY DEF BeginFresh, BeginUse, Ready
<1>3. calls' \in [Callers -> 0 .. MaxCalls] /\ uses' \in [Callers -> 0 .. MaxUses]
  <2>1. calls \in [Callers -> 0 .. MaxCalls] /\ uses \in [Callers -> 0 .. MaxUses]
    BY DEF IInv, Typed, TypeOK
  <2> QED BY <2>1, ClientAssumption DEF BeginFresh, BeginUse
<1>4. captured \in [Callers -> [from : {"none", "detail", "raw"}, snap : Snaps]]
      /\ CaptureInv(captured[c]) /\ closed \in BOOLEAN /\ ended \in BOOLEAN
  BY DEF IInv, Typed, TypeOK
<1> DEFINE k == Begun(op, keyed, snap)
<1>5. /\ k.op = op /\ k.todo = Agenda(op) /\ k.keyed = keyed /\ k.snap = snap
      /\ k.late = (closed \/ IsOver) /\ k.error = "none" /\ k.answer = "none"
      /\ k.events = <<>> /\ k.observed = <<>>
  BY DEF Begun, NoCall, IsOver
<1>6. Agenda(op) \in Seq(Steps) /\ Sorted(Agenda(op)) /\ Left(Agenda(op)) = StepsOf(op)
  BY AgendaFacts
<1>7. k \in CallRecords
  <2>1. (closed \/ IsOver) \in BOOLEAN
    BY <1>4 DEF IsOver
  <2>2. PICK late \in BOOLEAN : late = (closed \/ (ended /\ status = "Closed"))
    BY <2>1 DEF IsOver
  <2>3. k = [NoCall EXCEPT !.op = op, !.todo = Agenda(op), !.keyed = keyed, !.snap = snap, !.late = late]
    BY <2>2 DEF Begun
  <2>4. k = [op |-> op, todo |-> Agenda(op), keyed |-> keyed, late |-> late, snap |-> snap,
             error |-> "none", answer |-> "none", events |-> <<>>, observed |-> <<>>]
    BY <2>3 DEF NoCall
  <2> QED BY <1>6, <2>4 DEF CallRecords, Errors
<1> HIDE DEF k
<1>8. op # "none" /\ TypedAnswer(k)
  BY <1>5 DEF TypedAnswer, Ops, Evaluations, Explicit
<1>9. Underway(k, captured[c])
  <2>1. /\ "record" \in StepsOf(op) => "send" \in StepsOf(op)
        /\ "send" \in StepsOf(op) => "record" \in StepsOf(op)
        /\ op \in Told => "notify" \in StepsOf(op)
        /\ op \in Explicit => "send" \in StepsOf(op)
        /\ op \in Evaluations => "load" \in StepsOf(op)
    BY DEF StepsOf, Ops, Evaluations, Explicit, Told, Checks, Permits
  <2>2. op \in {"track", "complete"} => snap.flag = "served" /\ snap = captured[c].snap
    BY <1>1, <1>4 DEF CaptureInv
  <2> QED BY <1>5, <1>6, <2>1, <2>2 DEF Underway
<1>10. Recorded(k)
  BY <1>5, <1>8 DEF Recorded, TypedAnswer
<1>11. ObservedOk(k)
  <2>1. StepsOf(op) # {}
    BY DEF StepsOf, Ops, Evaluations, Explicit
  <2> QED BY <1>5, <1>6, <2>1 DEF ObservedOk
<1>12. Refusable(k)
  <2>1. op # "complete" =>
           /\ (IF op \in Evaluations THEN "closed" ELSE "allowed") \in StepsOf(op)
           /\ (IF op \in Evaluations THEN "status" ELSE "live") \in StepsOf(op)
    BY DEF StepsOf, Ops, Evaluations, Explicit, Checks, Permits
  <2> QED BY <1>5, <1>6, <2>1 DEF Refusable
<1>13. CallInv(k, captured[c])
  BY <1>5, <1>6, <1>8, <1>9, <1>10, <1>11, <1>12 DEF CallInv
<1>14. call' = [call EXCEPT ![c] = k]
  BY <1>1 DEF k
<1> QED BY <1>2, <1>3, <1>4, <1>7, <1>8, <1>13, <1>14, CallMoves

(* A check that holds is left behind, one that fails ends the call.        *)
LEMMA CheckKeepsIInv ==
    ASSUME IInv, NEW c \in Callers, Check(c)
    PROVE  IInv'
<1>1. PICK step \in Permits \cup Checks :
        /\ At(c, step)
        /\ call' = [call EXCEPT ![c] = IF Holds(step) THEN GoneOn(@) ELSE Failed(@, "notReady")]
  BY DEF Check, Permits, Checks
<1> DEFINE k == call[c]
<1>2. step \in Steps /\ step # "observe"
  BY DEF Steps, Permits, Checks
<1>3. /\ k.op # "none" /\ k.todo \in Seq(Steps) /\ Sorted(k.todo) /\ k.todo # <<>>
      /\ Head(k.todo) = step /\ step \in Left(k.todo)
      /\ k.error = "none" /\ Underway(k, captured[c])
  BY <1>1, <1>2, DueStep
<1>4. /\ phase = "open" /\ k \in CallRecords /\ k.op \in Ops
      /\ CallInv(k, captured[c]) /\ CaptureInv(captured[c]) /\ TypedAnswer(k)
  BY <1>3, Due
<1>5. /\ captured' = captured /\ calls' = calls /\ uses' = uses
      /\ UNCHANGED <<options, phase, workerVars, closeVars, syncVars>>
  BY DEF Check, otherThanCalls
<1>6. /\ captured \in [Callers -> [from : {"none", "detail", "raw"}, snap : Snaps]]
      /\ calls \in [Callers -> 0 .. MaxCalls] /\ uses \in [Callers -> 0 .. MaxUses]
  BY DEF IInv, Typed, TypeOK
<1>7. call \in [Callers -> CallRecords]
  BY DEF IInv, Typed
<1> HIDE DEF k
<1>8. step \in Left(k.todo) /\ k.events = <<>> /\ k.observed = <<>> /\ k.op # "complete"
  BY <1>3, <1>4 DEF Underway, Early, Steps, StepsOf, Permits, Checks, Ops
<1>9. CASE ~ Holds(step)
  <2>1. /\ Failed(k, "notReady") \in CallRecords /\ TypedAnswer(Failed(k, "notReady"))
        /\ CallInv(Failed(k, "notReady"), captured[c])
    BY <1>4, <1>8, FailedHolds DEF Errors
  <2>2. call' = [call EXCEPT ![c] = Failed(k, "notReady")]
    BY <1>1, <1>9 DEF k
  <2> QED BY <1>4, <1>5, <1>6, <2>1, <2>2, CallMoves
<1>10. CASE Holds(step)
  <2> DEFINE n == GoneOn(k)
  <2>1. /\ n.todo = Tail(k.todo) /\ n.op = k.op /\ n.keyed = k.keyed /\ n.late = k.late
        /\ n.snap = k.snap /\ n.error = k.error /\ n.answer = k.answer /\ n.events = k.events
        /\ n.observed = k.observed
    BY <1>4 DEF GoneOn, CallRecords
  <2>2. /\ Tail(k.todo) \in Seq(Steps) /\ Sorted(Tail(k.todo))
        /\ Left(Tail(k.todo)) = Left(k.todo) \ {step}
    BY <1>3, Popped
  <2>3. n \in CallRecords
    BY <1>4, <2>2 DEF GoneOn, CallRecords
  <2> HIDE DEF n
  <2>4. TypedAnswer(n)
    BY <1>4, <2>1 DEF TypedAnswer
  <2>5. /\ step = "initialized" => initialized
        /\ step = "allowed" => options.allow_track /\ ~ closed
        /\ step = "closed" => ~ closed
        /\ step = "live" => status # "Closed"
        /\ step = "status" => status # "Closed"
    BY <1>10 DEF Holds
  <2>6. step \notin {"load", "send", "record", "notify", "gate", "observe"}
    BY DEF Permits, Checks
  <2>7. Underway(n, captured[c])
    <3>1. Left(k.todo) # {}
      BY <1>3
    <3>2. /\ Left(n.todo) \subseteq StepsOf(n.op)
          /\ "record" \in Left(n.todo) => "send" \in Left(n.todo)
          /\ "load" \in Left(n.todo) /\ "send" \in Left(n.todo) => "record" \in Left(n.todo)
          /\ n.observed = <<>> /\ n.events = <<>>
          /\ n.op \in Told => "notify" \in Left(n.todo)
          /\ n.op \in Explicit => "send" \in Left(n.todo)
      BY <1>3, <1>8, <2>1, <2>2, <2>6, <3>1 DEF Underway
    <3>3. /\ "load" \in StepsOf(n.op) /\ "load" \notin Left(n.todo) => n.snap.flag = "served"
          /\ n.op \in Evaluations /\ "load" \notin Left(n.todo) => n.answer = "value"
          /\ n.op \in {"track", "complete"} => n.snap.flag = "served" /\ n.snap = captured[c].snap
      BY <1>3, <2>1, <2>2, <2>6 DEF Underway
    <3>4. /\ "initialized" \in StepsOf(n.op) /\ "initialized" \notin Left(n.todo) => initialized
          /\ "allowed" \in StepsOf(n.op) /\ "allowed" \notin Left(n.todo) => options.allow_track
      BY <1>3, <2>1, <2>2, <2>5 DEF Underway
    <3>5. "send" \in Left(n.todo) /\ "record" \notin Left(n.todo) =>
             Recordable(n) /\ ~ options.offline
      BY <1>3, <2>1, <2>2, <2>6 DEF Underway, Recordable
    <3> QED BY <3>2, <3>3, <3>4, <3>5 DEF Underway
  <2>8. Recorded(n)
    <3>1. k.op \in Explicit => "send" \in Left(n.todo)
      BY <1>3, <2>1, <2>2, <2>6 DEF Underway
    <3> QED BY <1>8, <2>1, <3>1 DEF Recorded
  <2>9. ObservedOk(n)
    <3>1. k.op \in Told => "notify" \in Left(n.todo)
      BY <1>3, <2>1, <2>2, <2>6 DEF Underway
    <3> QED BY <1>3, <1>8, <2>1, <3>1 DEF ObservedOk
  <2>10. Refusable(n)
    <3>1. Refusable(k)
      BY <1>3, <1>4 DEF CallInv
    <3>2. /\ step \in Checks \ {"closed"} => "closed" \notin Left(k.todo)
          /\ step \in {"live", "accepting"} \cup Checks => "allowed" \notin Left(k.todo)
      BY <1>3, Behind
    <3> QED BY <1>3, <2>1, <2>2, <2>5, <3>1, <3>2 DEF Refusable, IsOver, Permits, Checks
  <2>11. CallInv(n, captured[c])
    BY <1>3, <2>1, <2>2, <2>7, <2>8, <2>9, <2>10 DEF CallInv
  <2>12. call' = [call EXCEPT ![c] = n]
    BY <1>1, <1>10 DEF k, n
  <2> QED BY <1>4, <1>5, <1>6, <2>3, <2>4, <2>11, <2>12, CallMoves
<1> QED BY <1>9, <1>10

(* The snapshot an evaluation finds is the one it answers from.            *)
LEMMA LoadKeepsIInv ==
    ASSUME IInv, NEW c \in Callers, Load(c)
    PROVE  IInv'
<1> DEFINE k == call[c]
           s == [k EXCEPT !.snap = snapshot]
<1>1. /\ k.op # "none" /\ k.todo \in Seq(Steps) /\ Sorted(k.todo) /\ k.todo # <<>>
      /\ Head(k.todo) = "load" /\ "load" \in Left(k.todo)
      /\ k.error = "none" /\ Underway(k, captured[c])
  <2>1. "load" \in Steps /\ "load" # "observe" /\ At(c, "load")
    BY DEF Steps, Load
  <2> QED BY <2>1, DueStep
<1>2. /\ phase = "open" /\ k \in CallRecords /\ k.op \in Ops
      /\ CallInv(k, captured[c]) /\ CaptureInv(captured[c]) /\ TypedAnswer(k)
      /\ snapshot \in Snaps /\ (initialized /\ ~ options.offline => snapshot # NoSnapshot)
  BY <1>1, Due
<1>3. /\ captured \in [Callers -> [from : {"none", "detail", "raw"}, snap : Snaps]]
      /\ calls \in [Callers -> 0 .. MaxCalls] /\ uses \in [Callers -> 0 .. MaxUses]
      /\ call \in [Callers -> CallRecords]
  BY DEF IInv, Typed, TypeOK
<1>4. /\ calls' = calls /\ uses' = uses
      /\ UNCHANGED <<options, phase, workerVars, closeVars, syncVars>>
  BY DEF Load
<1>5. PICK error \in Errors \ {"notReady"} :
        /\ error = "none" => k.keyed /\ snapshot.flag = "served"
        /\ IF error = "none"
           THEN /\ call' = [call EXCEPT ![c] = [GoneOn(s) EXCEPT
                                !.answer = IF s.op \in Evaluations THEN "value" ELSE @]]
                /\ captured' = IF s.op \in {"detail", "raw"}
                               THEN [captured EXCEPT ![c] = [from |-> s.op, snap |-> snapshot]]
                               ELSE captured
           ELSE call' = [call EXCEPT ![c] = Failed(s, error)] /\ UNCHANGED captured
  <2>1. PICK converts \in {TRUE, call[c].op # "detail"} :
          LET error == IF EvalError(snapshot, s.keyed) = "none" /\ ~ converts
                       THEN "mismatch" ELSE EvalError(snapshot, s.keyed)
          IN  IF error = "none"
              THEN /\ call' = [call EXCEPT ![c] = [GoneOn(s) EXCEPT
                                   !.answer = IF s.op \in Evaluations THEN "value" ELSE @]]
                   /\ captured' = IF s.op \in {"detail", "raw"}
                                  THEN [captured EXCEPT ![c] = [from |-> s.op, snap |-> snapshot]]
                                  ELSE captured
              ELSE call' = [call EXCEPT ![c] = Failed(s, error)] /\ UNCHANGED captured
    BY DEF Load
  <2>2. s.keyed = k.keyed /\ k.keyed \in BOOLEAN
    BY <1>2 DEF CallRecords
  <2>3. snapshot.flag \in {"served", "missing", "malformed"}
    BY <1>2, ClientAssumption DEF Snaps
  <2>4. /\ EvalError(snapshot, s.keyed) \in {"none", "noKey", "missing", "malformed"}
        /\ EvalError(snapshot, s.keyed) = "none" => k.keyed /\ snapshot.flag = "served"
    BY <2>2, <2>3 DEF EvalError
  <2> QED BY <2>1, <2>4 DEF Errors
<1>6. /\ s \in CallRecords /\ s.op = k.op /\ s.todo = k.todo /\ s.keyed = k.keyed
      /\ s.late = k.late /\ s.snap = snapshot /\ s.error = k.error /\ s.answer = k.answer
      /\ s.events = k.events /\ s.observed = k.observed
  BY <1>2 DEF CallRecords
<1> HIDE DEF s, k
<1>7. k.events = <<>> /\ k.observed = <<>> /\ k.op # "complete" /\ k.op \notin {"track", "complete"}
  BY <1>1, <1>2 DEF Underway, Early, Steps, StepsOf, Ops, Permits, Checks
<1>8. Left(k.todo) \cap (Permits \cup Checks) = {}
  BY <1>1, Behind
<1>9. ~ k.late
  <2>1. Refusable(k)
    BY <1>1, <1>2 DEF CallInv
  <2> QED BY <1>1, <1>7, <1>8, <2>1 DEF Refusable, Permits, Checks
<1>10. "initialized" \in StepsOf(k.op) /\ "initialized" \notin Left(k.todo)
  BY <1>1, <1>2, <1>8 DEF Underway, StepsOf, Ops, Checks, Permits
<1>11. initialized
  BY <1>1, <1>10 DEF Underway
<1>12. CASE error # "none"
  <2>1. /\ Failed(s, error) \in CallRecords /\ TypedAnswer(Failed(s, error))
        /\ CallInv(Failed(s, error), captured[c])
    BY <1>2, <1>5, <1>6, <1>7, <1>9, <1>11, <1>12, FailedHolds
  <2>2. call' = [call EXCEPT ![c] = Failed(s, error)] /\ captured' = captured
    BY <1>5, <1>12
  <2> QED BY <1>2, <1>3, <1>4, <2>1, <2>2, CallMoves
<1>13. CASE error = "none"
  <2> DEFINE n == [GoneOn(s) EXCEPT !.answer = IF s.op \in Evaluations THEN "value" ELSE @]
  <2>1. /\ n.todo = Tail(k.todo) /\ n.op = k.op /\ n.keyed = k.keyed /\ n.late = k.late
        /\ n.snap = snapshot /\ n.error = "none" /\ n.events = <<>> /\ n.observed = <<>>
        /\ n.answer = IF k.op \in Evaluations THEN "value" ELSE k.answer
    BY <1>1, <1>6, <1>7 DEF GoneOn, CallRecords
  <2>2. /\ Tail(k.todo) \in Seq(Steps) /\ Sorted(Tail(k.todo))
        /\ Left(Tail(k.todo)) = Left(k.todo) \ {"load"}
    BY <1>1, Popped
  <2>3. n \in CallRecords
    BY <1>6, <2>1, <2>2 DEF GoneOn, CallRecords
  <2>4. call' = [call EXCEPT ![c] = n]
        /\ captured' = IF k.op \in {"detail", "raw"}
                       THEN [captured EXCEPT ![c] = [from |-> k.op, snap |-> snapshot]]
                       ELSE captured
    BY <1>5, <1>6, <1>13
  <2> HIDE DEF n
  <2>5. TypedAnswer(n)
    BY <1>2, <2>1 DEF TypedAnswer, Evaluations, Explicit
  <2>6. /\ captured' \in [Callers -> [from : {"none", "detail", "raw"}, snap : Snaps]]
        /\ \A d \in Callers : d # c => captured'[d] = captured[d]
        /\ CaptureInv(captured'[c])
    <3>1. CASE k.op \in {"detail", "raw"}
      BY <1>2, <1>3, <1>5, <1>13, <2>4, <3>1 DEF CaptureInv
    <3>2. CASE k.op \notin {"detail", "raw"}
      BY <1>2, <1>3, <2>4, <3>2 DEF CaptureInv
    <3> QED BY <3>1, <3>2
  <2>7. Underway(n, captured'[c])
    <3>1. /\ Left(n.todo) \subseteq StepsOf(n.op)
          /\ "load" \notin Left(n.todo)
          /\ "record" \in Left(n.todo) => "send" \in Left(n.todo)
          /\ "send" \in Left(n.todo) => "record" \in Left(n.todo)
          /\ n.op \in Told => "notify" \in Left(n.todo)
          /\ n.op \in Explicit => "send" \in Left(n.todo)
          /\ "allowed" \in StepsOf(n.op) => options.allow_track
      BY <1>1, <1>8, <2>1, <2>2 DEF Underway, Permits
    <3> QED BY <1>5, <1>7, <1>11, <1>13, <2>1, <3>1 DEF Underway
  <2>8. Recorded(n)
    <3>1. k.op \in Explicit => Left(n.todo) # {}
      BY <1>1, <2>1, <2>2 DEF Underway
    <3> QED BY <2>1, <3>1 DEF Recorded
  <2>9. ObservedOk(n)
    <3>1. k.op \in Told => Left(n.todo) # {}
      BY <1>1, <2>1, <2>2 DEF Underway
    <3> QED BY <2>1, <3>1 DEF ObservedOk
  <2>10. Refusable(n)
    BY <1>9, <2>1 DEF Refusable
  <2>11. CallInv(n, captured'[c])
    BY <1>1, <2>1, <2>2, <2>7, <2>8, <2>9, <2>10 DEF CallInv
  <2> QED BY <1>2, <1>3, <1>4, <2>3, <2>4, <2>5, <2>6, <2>11, CallMoves
<1> QED BY <1>12, <1>13

(* Whether a value is completed: not when nobody would hear of it.         *)
LEMMA GateKeepsIInv ==
    ASSUME IInv, NEW c \in Callers, Gate(c)
    PROVE  IInv'
<1> DEFINE k == call[c]
           stopped == [k EXCEPT !.todo = <<>>]
<1>1. /\ k.op # "none" /\ k.todo \in Seq(Steps) /\ Sorted(k.todo) /\ k.todo # <<>>
      /\ Head(k.todo) = "gate" /\ "gate" \in Left(k.todo)
      /\ k.error = "none" /\ Underway(k, captured[c])
  <2>1. "gate" \in Steps /\ "gate" # "observe" /\ At(c, "gate")
    BY DEF Steps, Gate
  <2> QED BY <2>1, DueStep
<1>2. /\ phase = "open" /\ k \in CallRecords /\ k.op \in Ops
      /\ CallInv(k, captured[c]) /\ CaptureInv(captured[c]) /\ TypedAnswer(k)
  BY <1>1, Due
<1>3. /\ captured \in [Callers -> [from : {"none", "detail", "raw"}, snap : Snaps]]
      /\ calls \in [Callers -> 0 .. MaxCalls] /\ uses \in [Callers -> 0 .. MaxUses]
  BY DEF IInv, Typed, TypeOK
<1>4. /\ captured' = captured /\ calls' = calls /\ uses' = uses
      /\ UNCHANGED <<options, phase, workerVars, closeVars, syncVars>>
  BY DEF Gate, otherThanCalls
<1>5. \/ call' = [call EXCEPT ![c] = Failed(k, "mismatch")]
      \/ call' = [call EXCEPT ![c] = GoneOn(k)]
      \/ ~ options.observer /\ call' = [call EXCEPT ![c] = stopped]
  BY DEF Gate, CompletionIsDue
<1>6. /\ stopped.op = k.op /\ stopped.todo = <<>> /\ stopped.keyed = k.keyed /\ stopped.late = k.late
      /\ stopped.snap = k.snap /\ stopped.error = k.error /\ stopped.answer = k.answer
      /\ stopped.events = k.events /\ stopped.observed = k.observed /\ stopped \in CallRecords
  <2>1. <<>> \in Seq(Steps)
    OBVIOUS
  <2> QED BY <1>2, <2>1 DEF CallRecords
<1>7. GoneOn(k) \in CallRecords /\ GoneOn(k).op = k.op /\ GoneOn(k).todo = Tail(k.todo)
      /\ GoneOn(k).keyed = k.keyed /\ GoneOn(k).late = k.late /\ GoneOn(k).snap = k.snap
      /\ GoneOn(k).error = k.error /\ GoneOn(k).answer = k.answer
      /\ GoneOn(k).events = k.events /\ GoneOn(k).observed = k.observed
  <2>1. Tail(k.todo) \in Seq(Steps)
    BY <1>1, Popped
  <2> QED BY <1>2, <2>1 DEF GoneOn, CallRecords
<1> HIDE DEF stopped, k
<1>8. k.op = "value"
  BY <1>1, <1>2 DEF Underway, StepsOf, Ops, Evaluations, Explicit, Checks, Permits
<1>9. /\ k.events = <<>> /\ k.observed = <<>> /\ "load" \notin Left(k.todo)
      /\ Left(k.todo) \cap (Permits \cup Checks) = {}
  BY <1>1, Behind DEF Underway, Early, Steps
<1>10. k.snap.flag = "served" /\ k.answer = "value" /\ initialized
  <2>1. "load" \in StepsOf("value") /\ "initialized" \in StepsOf("value")
    BY DEF StepsOf, Checks
  <2> QED BY <1>1, <1>8, <1>9, <2>1 DEF Underway, Checks, Evaluations
<1>11. ~ k.late
  <2>1. Refusable(k)
    BY <1>1, <1>2 DEF CallInv
  <2> QED BY <1>1, <1>8, <1>9, <2>1 DEF Refusable, Permits, Checks
<1>12. CASE call' = [call EXCEPT ![c] = Failed(k, "mismatch")]
  <2>1. k.snap # NoSnapshot
    BY <1>10, ClientAssumption
  <2>2. /\ Failed(k, "mismatch") \in CallRecords /\ TypedAnswer(Failed(k, "mismatch"))
        /\ CallInv(Failed(k, "mismatch"), captured[c])
    BY <1>2, <1>8, <1>9, <1>11, <2>1, FailedHolds DEF Errors
  <2> QED BY <1>2, <1>3, <1>4, <1>12, <2>2, CallMoves
<1>13. CASE call' = [call EXCEPT ![c] = GoneOn(k)]
  <2>1. /\ Sorted(Tail(k.todo)) /\ Left(Tail(k.todo)) = Left(k.todo) \ {"gate"}
    BY <1>1, Popped
  <2>2. "notify" \in Left(Tail(k.todo))
    BY <1>1, <1>8, <2>1 DEF Underway, Told
  <2>3. Underway(GoneOn(k), captured[c])
    BY <1>1, <1>7, <1>9, <1>10, <2>1 DEF Underway, Recordable
  <2>4. Recorded(GoneOn(k)) /\ ObservedOk(GoneOn(k)) /\ Refusable(GoneOn(k))
    BY <1>7, <1>8, <1>9, <1>11, <2>2 DEF Recorded, ObservedOk, Refusable, Explicit
  <2>5. CallInv(GoneOn(k), captured[c]) /\ TypedAnswer(GoneOn(k))
    BY <1>1, <1>2, <1>7, <2>1, <2>3, <2>4 DEF CallInv, TypedAnswer
  <2> QED BY <1>2, <1>3, <1>4, <1>7, <1>13, <2>5, CallMoves
<1>14. CASE ~ options.observer /\ call' = [call EXCEPT ![c] = stopped]
  <2>1. Left(<<>>) = {} /\ Sorted(<<>>)
    BY DEF Left, Sorted
  <2>2. Underway(stopped, captured[c])
    <3>1. "allowed" \notin StepsOf("value")
      BY DEF StepsOf, Checks
    <3> QED BY <1>6, <1>8, <1>9, <1>10, <2>1, <3>1 DEF Underway
  <2>3. Recorded(stopped) /\ ObservedOk(stopped) /\ Refusable(stopped)
    BY <1>6, <1>8, <1>9, <1>11, <1>14, <2>1 DEF Recorded, ObservedOk, Refusable, Explicit
  <2>4. CallInv(stopped, captured[c]) /\ TypedAnswer(stopped)
    BY <1>1, <1>2, <1>6, <2>1, <2>2, <2>3 DEF CallInv, TypedAnswer
  <2>5. call' = [call EXCEPT ![c] = stopped]
    BY <1>14
  <2> QED BY <1>2, <1>3, <1>4, <1>6, <2>4, <2>5, CallMoves
<1> QED BY <1>5, <1>12, <1>13, <1>14

(* An event is due to be sent, or the call goes on without one.            *)
LEMMA RecordKeepsIInv ==
    ASSUME IInv, NEW c \in Callers, Record(c)
    PROVE  IInv'
<1> DEFINE k == call[c]
           refused == Unrecorded(k)
<1>1. /\ k.op # "none" /\ k.todo \in Seq(Steps) /\ Sorted(k.todo) /\ k.todo # <<>>
      /\ Head(k.todo) = "record" /\ "record" \in Left(k.todo)
      /\ k.error = "none" /\ Underway(k, captured[c])
  <2>1. "record" \in Steps /\ "record" # "observe" /\ At(c, "record")
    BY DEF Steps, Record
  <2> QED BY <2>1, DueStep
<1>2. /\ phase = "open" /\ k \in CallRecords /\ k.op \in Ops
      /\ CallInv(k, captured[c]) /\ CaptureInv(captured[c]) /\ TypedAnswer(k)
      /\ (accepting => ~ options.offline)
  BY <1>1, Due
<1>3. /\ captured \in [Callers -> [from : {"none", "detail", "raw"}, snap : Snaps]]
      /\ calls \in [Callers -> 0 .. MaxCalls] /\ uses \in [Callers -> 0 .. MaxUses]
  BY DEF IInv, Typed, TypeOK
<1>4. /\ captured' = captured /\ calls' = calls /\ uses' = uses
      /\ UNCHANGED <<options, phase, workerVars, closeVars, syncVars>>
  BY DEF Record, otherThanCalls
<1>5. \/ Recordable(k) /\ accepting /\ call' = [call EXCEPT ![c] = GoneOn(k)]
      \/ call' = [call EXCEPT ![c] = refused]
  BY DEF Record
<1>6. /\ Tail(k.todo) \in Seq(Steps) /\ Sorted(Tail(k.todo))
      /\ Left(Tail(k.todo)) = Left(k.todo) \ {"record"}
      /\ \A s \in Left(Tail(k.todo)) : Rank("record") < Rank(s)
  BY <1>1, Popped
<1>7. "send" \in Left(Tail(k.todo))
  BY <1>1, <1>6 DEF Underway
<1>8. Tail(k.todo) # <<>>
  BY <1>6, <1>7, NothingLeft
<1>9. Head(Tail(k.todo)) = "send"
  <2> DEFINE t == Tail(k.todo)
  <2>1. t \in Seq(Steps) /\ Sorted(t) /\ t # <<>> /\ "send" \in Left(t)
    BY <1>6, <1>7, <1>8
  <2>2. /\ Head(t) \in Left(t) /\ Left(Tail(t)) = Left(t) \ {Head(t)}
        /\ \A s \in Left(Tail(t)) : Rank(Head(t)) < Rank(s)
    <3> HIDE DEF t
    <3> QED BY <2>1, Popped
  <2>3. Head(t) = "send" \/ Rank(Head(t)) < Rank("send")
    BY <2>1, <2>2
  <2>4. Rank("record") < Rank(Head(t)) /\ Head(t) \in Steps
    BY <1>6, <2>1, <2>2
  <2> HIDE DEF t
  <2>5. Head(t) = "send"
    BY <2>3, <2>4 DEF Rank, Steps
  <2> QED BY <2>5 DEF t
<1>10. /\ Tail(Tail(k.todo)) \in Seq(Steps) /\ Sorted(Tail(Tail(k.todo)))
       /\ Left(Tail(Tail(k.todo))) = Left(k.todo) \ {"record", "send"}
  <2>1. /\ Tail(Tail(k.todo)) \in Seq(Steps) /\ Sorted(Tail(Tail(k.todo)))
        /\ Left(Tail(Tail(k.todo))) = Left(Tail(k.todo)) \ {"send"}
    BY <1>6, <1>8, <1>9, Popped
  <2> QED BY <1>6, <2>1
<1>11. /\ refused.op = k.op /\ refused.todo = Tail(Tail(k.todo)) /\ refused.keyed = k.keyed
       /\ refused.late = k.late /\ refused.snap = k.snap /\ refused.error = k.error
       /\ refused.answer = (IF k.op \in Explicit THEN "false" ELSE k.answer)
       /\ refused.events = k.events /\ refused.observed = k.observed /\ refused \in CallRecords
  BY <1>2, <1>10 DEF CallRecords, Unrecorded
<1>12. /\ GoneOn(k) \in CallRecords /\ GoneOn(k).op = k.op /\ GoneOn(k).todo = Tail(k.todo)
       /\ GoneOn(k).keyed = k.keyed /\ GoneOn(k).late = k.late /\ GoneOn(k).snap = k.snap
       /\ GoneOn(k).error = k.error /\ GoneOn(k).answer = k.answer
       /\ GoneOn(k).events = k.events /\ GoneOn(k).observed = k.observed
  BY <1>2, <1>6 DEF GoneOn, CallRecords
<1> HIDE DEF refused, k
<1>13. /\ k.events = <<>> /\ k.observed = <<>>
       /\ Left(k.todo) \cap (Permits \cup Checks \cup {"load", "gate"}) = {}
  <2>1. Left(k.todo) \cap Early # {}
    BY <1>1 DEF Early, Steps
  <2>2. k.events = <<>> /\ k.observed = <<>>
    BY <1>1, <2>1 DEF Underway
  <2>3. Left(k.todo) \cap (Permits \cup Checks) = {} /\ "load" \notin Left(k.todo)
        /\ "gate" \notin Left(k.todo)
    BY <1>1, Behind
  <2> QED BY <2>2, <2>3
<1>14. k.op = "complete" \/ ~ k.late
  <2>1. Refusable(k)
    BY <1>1, <1>2 DEF CallInv
  <2> QED BY <1>1, <1>13, <2>1 DEF Refusable, Permits, Checks
<1>15. CASE Recordable(k) /\ accepting /\ call' = [call EXCEPT ![c] = GoneOn(k)]
  <2>1. Underway(GoneOn(k), captured[c])
    <3>1. Recordable(GoneOn(k)) /\ ~ options.offline
      BY <1>2, <1>12, <1>15 DEF Recordable
    <3>2. Left(k.todo) # {}
      BY <1>1
    <3> QED BY <1>1, <1>6, <1>12, <1>13, <3>1, <3>2 DEF Underway
  <2>2. Recorded(GoneOn(k)) /\ ObservedOk(GoneOn(k)) /\ Refusable(GoneOn(k))
    BY <1>7, <1>12, <1>13, <1>14 DEF Recorded, ObservedOk, Refusable
  <2>3. CallInv(GoneOn(k), captured[c]) /\ TypedAnswer(GoneOn(k))
    BY <1>1, <1>2, <1>6, <1>12, <2>1, <2>2 DEF CallInv, TypedAnswer
  <2>4. call' = [call EXCEPT ![c] = GoneOn(k)]
    BY <1>15
  <2> QED BY <1>2, <1>3, <1>4, <1>12, <2>3, <2>4, CallMoves
<1>16. CASE call' = [call EXCEPT ![c] = refused]
  <2>1. k.op \in Explicit => Left(refused.todo) = {}
    <3>1. k.op \in Explicit =>
             StepsOf(k.op) \subseteq Permits \cup Checks \cup {"load", "record", "send"}
      BY DEF StepsOf, Explicit
    <3> QED BY <1>1, <1>10, <1>11, <1>13, <3>1 DEF Underway
  <2>2. k.op \notin {"raw", "all"}
    BY <1>1 DEF Underway, StepsOf, Checks
  <2>3. Underway(refused, captured[c])
    <3>1. /\ Left(refused.todo) \subseteq StepsOf(k.op)
          /\ Left(refused.todo) \cap {"record", "send", "load"} = {}
          /\ Left(refused.todo) # {} => k.op \notin Explicit
          /\ k.op \in Told => "notify" \in Left(refused.todo)
      BY <1>1, <1>10, <1>11, <1>13, <2>1 DEF Underway
    <3>2. k.op \in Evaluations => refused.answer = k.answer
      BY <1>11 DEF Evaluations, Explicit
    <3>3. /\ "load" \in StepsOf(k.op) => k.snap.flag = "served"
          /\ k.op \in Evaluations => k.answer = "value"
          /\ "initialized" \in StepsOf(k.op) => initialized
          /\ "allowed" \in StepsOf(k.op) => options.allow_track
          /\ k.op \in {"track", "complete"} => k.snap.flag = "served" /\ k.snap = captured[c].snap
      BY <1>1, <1>13 DEF Underway, Permits, Checks
    <3> QED BY <1>11, <1>13, <3>1, <3>2, <3>3 DEF Underway
  <2>4. Recorded(refused)
    BY <1>11, <1>13 DEF Recorded
  <2>5. ObservedOk(refused)
    <3>1. k.op \in Told => Left(refused.todo) # {}
      BY <1>1, <1>10, <1>11 DEF Underway
    <3> QED BY <1>11, <1>13, <2>2, <3>1 DEF ObservedOk
  <2>6. Refusable(refused)
    BY <1>11, <1>14 DEF Refusable
  <2>7. CallInv(refused, captured[c]) /\ TypedAnswer(refused)
    <3>1. TypedAnswer(refused)
      BY <1>2, <1>11 DEF TypedAnswer, Evaluations, Explicit
    <3> QED BY <1>1, <1>10, <1>11, <2>3, <2>4, <2>5, <2>6, <3>1 DEF CallInv
  <2> QED BY <1>2, <1>3, <1>4, <1>11, <1>16, <2>7, CallMoves
<1> QED BY <1>5, <1>15, <1>16

(* An event is sent when there is room for it.                             *)
LEMMA SendKeepsIInv ==
    ASSUME IInv, NEW c \in Callers, Send(c)
    PROVE  IInv'
<1> DEFINE k == call[c]
<1>1. /\ k.op # "none" /\ k.todo \in Seq(Steps) /\ Sorted(k.todo) /\ k.todo # <<>>
      /\ Head(k.todo) = "send" /\ "send" \in Left(k.todo)
      /\ k.error = "none" /\ Underway(k, captured[c])
  <2>1. "send" \in Steps /\ "send" # "observe" /\ At(c, "send")
    BY DEF Steps, Send
  <2> QED BY <2>1, DueStep
<1>2. /\ phase = "open" /\ k \in CallRecords /\ k.op \in Ops
      /\ CallInv(k, captured[c]) /\ CaptureInv(captured[c]) /\ TypedAnswer(k)
  BY <1>1, Due
<1>3. /\ captured \in [Callers -> [from : {"none", "detail", "raw"}, snap : Snaps]]
      /\ calls \in [Callers -> 0 .. MaxCalls] /\ uses \in [Callers -> 0 .. MaxUses]
  BY DEF IInv, Typed, TypeOK
<1>4. /\ captured' = captured /\ calls' = calls /\ uses' = uses
      /\ UNCHANGED <<options, phase, workerVars, closeVars, syncVars>>
  BY DEF Send, otherThanCalls
<1> DEFINE event == [op |-> k.op, snap |-> k.snap]
<1>5. PICK room \in BOOLEAN : call' = [call EXCEPT ![c] = Sent(k, room)]
  BY DEF Send
<1> DEFINE n == Sent(k, room)
<1>6. call' = [call EXCEPT ![c] = n]
  BY <1>5
<1> HIDE DEF k
<1>7. /\ k.events = <<>> /\ k.observed = <<>> /\ Recordable(k) /\ ~ options.offline
      /\ Left(k.todo) \cap (Permits \cup Checks \cup {"load", "gate", "record"}) = {}
  <2>1. Left(k.todo) \cap (Permits \cup Checks) = {} /\ "load" \notin Left(k.todo)
        /\ "gate" \notin Left(k.todo) /\ "record" \notin Left(k.todo)
    BY <1>1, Behind
  <2>2. Left(k.todo) \cap Early # {}
    BY <1>1 DEF Early, Steps
  <2> QED BY <1>1, <2>1, <2>2 DEF Underway
<1>8. /\ Tail(k.todo) \in Seq(Steps) /\ Sorted(Tail(k.todo))
      /\ Left(Tail(k.todo)) = Left(k.todo) \ {"send"}
  BY <1>1, Popped
<1>9. event \in [op : Ops, snap : Snaps] /\ event.snap = k.snap
  BY <1>2 DEF CallRecords
<1> HIDE DEF event
<1>10. /\ Append(<<>>, event) = <<event>> /\ Len(<<event>>) = 1 /\ <<event>>[1] = event
       /\ <<event>> # <<>> /\ <<event>> \in Seq([op : Ops, snap : Snaps])
       /\ <<>> \in Seq([op : Ops, snap : Snaps])
  BY <1>9
<1>11. /\ n.op = k.op /\ n.todo = Tail(k.todo) /\ n.keyed = k.keyed /\ n.late = k.late
       /\ n.snap = k.snap /\ n.error = "none" /\ n.observed = <<>>
       /\ n.events = (IF room THEN <<event>> ELSE <<>>)
       /\ n.answer = IF k.op \notin Explicit THEN k.answer
                     ELSE IF room THEN "true" ELSE "false"
  <2>1. EventOf(k) = event
    BY DEF EventOf, event
  <2> QED BY <1>1, <1>2, <1>7, <1>10, <2>1 DEF CallRecords, Sent
<1>12. n \in CallRecords
  <2>1. n.events \in Seq([op : Ops, snap : Snaps])
    BY <1>10, <1>11
  <2>2. n.answer \in {"none", "fallback", "value", "false", "true"}
    BY <1>2, <1>11 DEF CallRecords
  <2> QED BY <1>2, <1>8, <2>1, <2>2 DEF CallRecords, Sent
<1> HIDE DEF n
<1>13. k.op \notin {"raw", "all"}
  BY <1>1 DEF Underway, StepsOf, Checks
<1>14. k.op = "complete" \/ ~ k.late
  <2>1. Refusable(k)
    BY <1>1, <1>2 DEF CallInv
  <2> QED BY <1>1, <1>7, <2>1 DEF Refusable, Permits, Checks
<1>15. k.op \in Explicit => Left(n.todo) = {}
  <2>1. k.op \in Explicit =>
           StepsOf(k.op) \subseteq Permits \cup Checks \cup {"load", "record", "send"}
    BY DEF StepsOf, Explicit
  <2> QED BY <1>1, <1>7, <1>8, <1>11, <2>1 DEF Underway
<1>16. Underway(n, captured[c])
  <2>1. /\ Left(n.todo) \subseteq StepsOf(k.op)
        /\ Left(n.todo) \cap {"record", "send", "load"} = {}
        /\ Left(n.todo) # {} => k.op \notin Explicit
        /\ k.op \in Told => "notify" \in Left(n.todo)
    BY <1>1, <1>7, <1>8, <1>11, <1>15 DEF Underway
  <2>2. k.op \in Evaluations => n.answer = k.answer
    BY <1>11 DEF Evaluations, Explicit
  <2>3. /\ "load" \in StepsOf(k.op) => k.snap.flag = "served"
        /\ k.op \in Evaluations => k.answer = "value"
        /\ "initialized" \in StepsOf(k.op) => initialized
        /\ "allowed" \in StepsOf(k.op) => options.allow_track
        /\ k.op \in {"track", "complete"} => k.snap.flag = "served" /\ k.snap = captured[c].snap
    BY <1>1, <1>7 DEF Underway, Permits, Checks
  <2>4. Left(n.todo) \cap Early = {}
    BY <1>1, <1>7, <1>8, <1>11, Behind DEF Early, Steps, Permits, Checks
  <2> QED BY <1>11, <2>1, <2>2, <2>3, <2>4 DEF Underway
<1>17. Recorded(n)
  <2>1. Recordable(n)
    BY <1>7, <1>11 DEF Recordable
  <2>2. CASE room
    BY <1>7, <1>9, <1>10, <1>11, <1>13, <2>1, <2>2 DEF Recorded
  <2>3. CASE ~ room
    BY <1>7, <1>11, <2>3 DEF Recorded
  <2> QED BY <2>2, <2>3
<1>18. ObservedOk(n)
  <2>1. k.op \in Told => Left(n.todo) # {}
    BY <1>1, <1>8, <1>11 DEF Underway
  <2> QED BY <1>11, <1>13, <2>1 DEF ObservedOk
<1>19. Refusable(n)
  BY <1>11, <1>14 DEF Refusable
<1>20. TypedAnswer(n)
  BY <1>2, <1>11 DEF TypedAnswer, Evaluations, Explicit
<1>21. CallInv(n, captured[c])
  BY <1>1, <1>8, <1>11, <1>16, <1>17, <1>18, <1>19 DEF CallInv
<1> QED BY <1>2, <1>3, <1>4, <1>6, <1>12, <1>20, <1>21, CallMoves

(* The observer is told, and the call is over.                             *)
LEMMA NotifyKeepsIInv ==
    ASSUME IInv, NEW c \in Callers, Notify(c)
    PROVE  IInv'
<1>1. PICK kind \in {"success", "error"} :
        /\ At(c, IF kind = "success" THEN "notify" ELSE "observe")
        /\ call' = [call EXCEPT ![c] = [GoneOn(@) EXCEPT !.observed = Observation(call[c], kind)]]
  BY DEF Notify
<1> DEFINE k == call[c]
           step == IF kind = "success" THEN "notify" ELSE "observe"
           n == [GoneOn(k) EXCEPT !.observed = Observation(k, kind)]
<1>2. /\ k.op # "none" /\ k.todo \in Seq(Steps) /\ Sorted(k.todo) /\ k.todo # <<>>
      /\ Head(k.todo) = step /\ step \in Left(k.todo)
      /\ kind = "success" <=> k.error = "none"
  <2>1. step \in Steps /\ At(c, step) /\ (kind = "success" <=> step # "observe")
    BY <1>1 DEF Steps
  <2> QED BY <2>1, DueStep
<1>3. /\ phase = "open" /\ k \in CallRecords /\ k.op \in Ops
      /\ CallInv(k, captured[c]) /\ CaptureInv(captured[c]) /\ TypedAnswer(k)
      /\ options \in Modes
  BY <1>2, Due
<1>4. /\ captured \in [Callers -> [from : {"none", "detail", "raw"}, snap : Snaps]]
      /\ calls \in [Callers -> 0 .. MaxCalls] /\ uses \in [Callers -> 0 .. MaxUses]
  BY DEF IInv, Typed, TypeOK
<1>5. /\ captured' = captured /\ calls' = calls /\ uses' = uses
      /\ UNCHANGED <<options, phase, workerVars, closeVars, syncVars>>
  BY DEF Notify, otherThanCalls
<1>6. call' = [call EXCEPT ![c] = n]
  BY <1>1
<1> HIDE DEF k
<1>7. /\ Tail(k.todo) \in Seq(Steps) /\ Sorted(Tail(k.todo))
      /\ Left(Tail(k.todo)) = Left(k.todo) \ {step}
  BY <1>2, Popped
<1>8. IF k.error = "none" THEN Underway(k, captured[c]) ELSE HasFailed(k)
  BY <1>2, <1>3 DEF CallInv
<1>9. k.observed = <<>>
  BY <1>2, <1>8 DEF Underway, HasFailed
<1>10. k.op # "none" /\ (IF k.error = "none" THEN k.op \in Told ELSE k.op \in {"value", "detail", "raw"})
  <2>1. ASSUME "notify" \in StepsOf(k.op) PROVE k.op \in Told
    BY <1>3, <2>1 DEF StepsOf, Told, Ops, Evaluations, Explicit, Checks, Permits
  <2> QED BY <1>2, <1>8, <2>1 DEF Underway, HasFailed
<1>11. Left(Tail(k.todo)) = {}
  <2>1. Left(k.todo) \cap (Permits \cup Checks \cup {"load", "gate", "record", "send"}) = {}
        /\ Left(k.todo) \subseteq Steps
    BY <1>2, Behind
  <2>2. CASE kind = "success"
    <3>1. "observe" \notin Left(k.todo)
      BY <1>2, <1>3, <1>8, <2>2 DEF Underway, StepsOf, Checks, Permits, Ops
    <3> QED BY <1>7, <2>1, <2>2, <3>1 DEF Steps, Permits, Checks
  <2>3. CASE kind = "error"
    BY <1>2, <1>7, <1>8, <2>3 DEF HasFailed
  <2> QED BY <2>2, <2>3
<1> DEFINE told == [kind |-> kind, error |-> k.error, snap |-> k.snap]
<1>12. told \in [kind : {"success", "error"}, error : Errors, snap : Snaps]
       /\ told = [kind |-> IF k.error = "none" THEN "success" ELSE "error",
                  error |-> k.error, snap |-> k.snap]
  BY <1>2, <1>3 DEF CallRecords
<1>13. Observation(k, kind) = IF options.observer THEN <<told>> ELSE <<>>
  <2>1. Append(<<>>, told) = <<told>>
    OBVIOUS
  <2> QED BY <1>9, <2>1 DEF Observation
<1>14. /\ n.op = k.op /\ n.todo = Tail(k.todo) /\ n.keyed = k.keyed /\ n.late = k.late
       /\ n.snap = k.snap /\ n.error = k.error /\ n.answer = k.answer /\ n.events = k.events
       /\ n.observed = IF options.observer THEN <<told>> ELSE <<>>
  BY <1>3, <1>13 DEF GoneOn, CallRecords
<1>15. n \in CallRecords
  <2> HIDE DEF told
  <2>1. <<told>> \in Seq([kind : {"success", "error"}, error : Errors, snap : Snaps])
        /\ <<>> \in Seq([kind : {"success", "error"}, error : Errors, snap : Snaps])
    BY <1>12
  <2>2. n.observed \in Seq([kind : {"success", "error"}, error : Errors, snap : Snaps])
    BY <1>14, <2>1
  <2> QED BY <1>3, <1>7, <2>2 DEF GoneOn, CallRecords
<1> HIDE DEF n, step
<1>16. CASE k.error = "none"
  <2>1. Underway(n, captured[c])
    <3>1. Underway(k, captured[c]) /\ Left(n.todo) = {}
      BY <1>8, <1>11, <1>14, <1>16
    <3>2. Left(k.todo) \cap (Permits \cup Checks \cup {"load"}) = {}
      <4>1. step \in {"notify", "observe"}
        BY DEF step
      <4> QED BY <1>2, <4>1, Behind
    <3> QED BY <1>14, <3>1, <3>2 DEF Underway, Permits, Checks
  <2>2. Recorded(n)
    BY <1>2, <1>3, <1>10, <1>14, <1>16 DEF CallInv, Recorded, Recordable, Told, Explicit
  <2>3. ObservedOk(n)
    BY <1>10, <1>12, <1>14, <1>16 DEF ObservedOk
  <2>4. Refusable(n)
    <3>1. Refusable(k)
      BY <1>2, <1>3 DEF CallInv
    <3>2. Left(k.todo) \cap (Permits \cup Checks) = {}
      <4>1. step \in {"notify", "observe"}
        BY DEF step
      <4> QED BY <1>2, <4>1, Behind
    <3> QED BY <1>14, <1>16, <3>1, <3>2 DEF Refusable, Permits, Checks
  <2>5. CallInv(n, captured[c]) /\ TypedAnswer(n)
    BY <1>3, <1>7, <1>10, <1>14, <1>16, <2>1, <2>2, <2>3, <2>4 DEF CallInv, TypedAnswer
  <2> QED BY <1>3, <1>4, <1>5, <1>6, <1>15, <2>5, CallMoves
<1>17. CASE k.error # "none"
  <2>1. HasFailed(n)
    BY <1>8, <1>11, <1>14, <1>17 DEF HasFailed
  <2>2. Recorded(n)
    BY <1>2, <1>3, <1>10, <1>14, <1>17 DEF CallInv, Recorded, Recordable, Explicit
  <2>3. ObservedOk(n)
    BY <1>10, <1>12, <1>14, <1>17 DEF ObservedOk, Told
  <2>4. Refusable(n)
    <3>1. Refusable(k)
      BY <1>2, <1>3 DEF CallInv
    <3> QED BY <1>14, <1>17, <3>1 DEF Refusable
  <2>5. CallInv(n, captured[c]) /\ TypedAnswer(n)
    BY <1>3, <1>7, <1>10, <1>14, <1>17, <2>1, <2>2, <2>3, <2>4 DEF CallInv, TypedAnswer
  <2> QED BY <1>3, <1>4, <1>5, <1>6, <1>15, <2>5, CallMoves
<1> QED BY <1>16, <1>17

LEMMA ReturnKeepsIInv ==
    ASSUME IInv, NEW c \in Callers, Return(c)
    PROVE  IInv'
<1>1. call[c].op # "none" /\ call' = [call EXCEPT ![c] = NoCall]
  BY DEF Return, Over
<1>2. phase = "open" /\ CaptureInv(captured[c])
  BY <1>1, Due
<1>3. /\ captured \in [Callers -> [from : {"none", "detail", "raw"}, snap : Snaps]]
      /\ calls \in [Callers -> 0 .. MaxCalls] /\ uses \in [Callers -> 0 .. MaxUses]
  BY DEF IInv, Typed, TypeOK
<1>4. /\ captured' = captured /\ calls' = calls /\ uses' = uses
      /\ UNCHANGED <<options, phase, workerVars, closeVars, syncVars>>
  BY DEF Return, otherThanCalls
<1>5. NoCall \in CallRecords /\ CallInv(NoCall, captured[c]) /\ TypedAnswer(NoCall)
  BY DEF NoCall, CallRecords, Snaps, Errors, Ops, Steps, CallInv, TypedAnswer, Evaluations, Explicit
<1> QED BY <1>1, <1>2, <1>3, <1>4, <1>5, CallMoves
-----------------------------------------------------------------------------
LEMMA NextKeepsIInv == IInv /\ [Next]_vars => IInv'
<1> SUFFICES ASSUME IInv, [Next]_vars PROVE IInv'
  OBVIOUS
<1>1. CASE Build \/ StartOffline \/ StartOnline \/ Open
  BY <1>1, StartKeepsIInv
<1>2. CASE Worker \/ DeliveryStops \/ EventWorkerEnds
  BY <1>2, WorkersKeepIInv
<1>3. ASSUME NEW c \in Callers, Call(c) PROVE IInv'
  BY <1>3, BeginKeepsIInv, CheckKeepsIInv, LoadKeepsIInv, GateKeepsIInv, RecordKeepsIInv,
     SendKeepsIInv, NotifyKeepsIInv, ReturnKeepsIInv DEF Call
<1>4. ASSUME NEW c \in Closers \cup {Dropper}, CloseBegin(c) \/ Closing(c) PROVE IInv'
  BY <1>4, CloseKeepsIInv
<1>5. CASE UNCHANGED vars
  <2>1. UNCHANGED callVars /\ UNCHANGED closeVars /\ UNCHANGED syncVars /\ UNCHANGED workerVars
        /\ options' = options /\ phase' = phase
    BY <1>5 DEF vars
  <2>2. \A c \in Callers : (CallInv(call[c], captured[c]) /\ CaptureInv(captured[c]))'
    BY <2>1, CallsUndisturbed DEF workerVars, closeFlags, closeVars, syncVars, IsOver
  <2>3. Typed' /\ PhaseInv' /\ SyncInv' /\ CloseInv' /\ EventsInv'
    <3> USE DEF callVars, workerVars, closeFlags, closeVars, syncVars
    <3>1. Typed'
      BY <2>1 DEF IInv, Typed, TypeOK
    <3>2. PhaseInv'
      BY <2>1 DEF IInv, PhaseInv
    <3>3. SyncInv' /\ CloseInv' /\ EventsInv'
      BY <2>1 DEF IInv, SyncInv, CloseInv, EventsInv, IsOver
    <3> QED BY <3>1, <3>2, <3>3
  <2> QED BY <2>2, <2>3 DEF IInv
<1> QED BY <1>1, <1>2, <1>3, <1>4, <1>5 DEF Next

(* The invariant that everything below follows from: the types, the phases *)
(* of the client, the synchronizer's promise, what each close has done and *)
(* what each call has left behind.                                         *)
THEOREM Invariance == Spec => []IInv
BY InitIInv, NextKeepsIInv, PTL DEF Spec

(* Type correctness.                                                       *)
THEOREM TypeCorrect == Spec => []TypeOK
<1>1. IInv => TypeOK
  BY DEF IInv, Typed
<1> QED BY <1>1, Invariance, PTL

(* A call that begins when the client is closed, or its synchronizer over, *)
(* falls back or is refused, and leaves no event.                          *)
THEOREM ClosedCallsFallBack == Spec => []ClosedFallsBack
<1>1. IInv => ClosedFallsBack
  <2> SUFFICES ASSUME IInv, NEW c \in Callers, Over(c), call[c].late, call[c].op # "complete"
               PROVE  /\ call[c].answer \in {"fallback", "false"} /\ call[c].error = "notReady"
                      /\ call[c].events = <<>>
    BY DEF ClosedFallsBack
  <2>1. call[c].op # "none" /\ call[c].todo = <<>>
    BY DEF Over
  <2>2. Left(call[c].todo) = {}
    BY <2>1 DEF Left
  <2>3. Refusable(call[c]) /\ (call[c].error = "none" \/ HasFailed(call[c]))
    BY <2>1 DEF IInv, CallInv
  <2> QED BY <2>2, <2>3 DEF Refusable, HasFailed
<1> QED BY <1>1, Invariance, PTL

(* An evaluation of an online client that got past its checks read a data  *)
(* set: no interleaving with the synchronizer shows it the empty store.    *)
THEOREM DataIsPublished == Spec => []EvaluatesPublishedData
<1>1. IInv => EvaluatesPublishedData
  BY DEF IInv, CallInv, HasFailed, EvaluatesPublishedData
<1> QED BY <1>1, Invariance, PTL

(* Every recorded event shows the value its call answered with or was      *)
(* handed, and is one the options and the flag ask for.                    *)
THEOREM EventsShowValues == Spec => []EventIsOfValue
<1>1. IInv => EventIsOfValue
  <2> SUFFICES ASSUME IInv, NEW c \in Callers
               PROVE  LET k == call[c] IN
                      /\ Len(k.events) <= 1
                      /\ k.op \in Explicit /\ Over(c) => (k.answer = "true" <=> k.events # <<>>)
                      /\ \A i \in DOMAIN k.events :
                            /\ k.events[i].snap = k.snap
                            /\ k.op # "metric" => k.snap.flag = "served" /\ k.snap.insights
                            /\ k.op \in {"track", "complete"} => k.snap = captured[c].snap
                            /\ IF k.op \in Explicit THEN options.allow_track
                               ELSE ~ options.disable_events
                            /\ k.op \notin {"all", "raw"} /\ ~ options.offline
    BY DEF EventIsOfValue
  <2> DEFINE k == call[c]
  <2>1. CASE k.op = "none"
    <3>1. k = NoCall
      BY <2>1 DEF IInv, CallInv
    <3>2. k.events = <<>>
      BY <3>1 DEF NoCall
    <3> QED BY <2>1, <3>2 DEF Explicit
  <2>2. CASE k.op # "none"
    <3>1. /\ CallInv(k, captured[c]) /\ k \in CallRecords /\ k.op \in Ops
          /\ Over(c) => Left(k.todo) = {}
      BY <2>2, Due DEF Over, Left
    <3> HIDE DEF k
    <3>2. /\ Recorded(k)
          /\ IF k.error = "none" THEN Underway(k, captured[c]) ELSE HasFailed(k)
      BY <2>2, <3>1 DEF CallInv
    <3>3. Len(k.events) <= 1
          /\ (k.op \in Explicit /\ Over(c) => (k.answer = "true" <=> k.events # <<>>))
      BY <3>1, <3>2 DEF Recorded
    <3>4. ASSUME NEW i \in DOMAIN k.events
          PROVE  /\ k.events[i].snap = k.snap
                 /\ k.op # "metric" => k.snap.flag = "served" /\ k.snap.insights
                 /\ k.op \in {"track", "complete"} => k.snap = captured[c].snap
                 /\ IF k.op \in Explicit THEN options.allow_track ELSE ~ options.disable_events
                 /\ k.op \notin {"all", "raw"} /\ ~ options.offline
      <4>1. k.events \in Seq([op : Ops, snap : Snaps])
        BY <3>1 DEF CallRecords
      <4>2. k.events # <<>> /\ i = 1
        BY <3>3, <4>1
      <4>3. Underway(k, captured[c]) /\ Left(k.todo) \cap Early = {}
        BY <3>2, <4>2 DEF HasFailed, Underway
      <4>4. "load" \notin Left(k.todo) /\ "allowed" \notin Left(k.todo)
        BY <4>3 DEF Early, Steps
      <4>5. k.op # "metric" /\ k.op \notin {"track", "complete"} => "load" \in StepsOf(k.op)
        BY <3>1 DEF StepsOf, Ops, Evaluations, Explicit
      <4>6. k.op \in Explicit => "allowed" \in StepsOf(k.op)
        BY DEF StepsOf, Explicit, Permits
      <4> QED BY <3>2, <4>2, <4>3, <4>4, <4>5, <4>6 DEF Recorded, Recordable, Underway
    <3> QED BY <3>3, <3>4 DEF k
  <2> QED BY <2>1, <2>2
<1> QED BY <1>1, Invariance, PTL

(* The observer is told once of each evaluation that is its concern, of    *)
(* its value or of its error: not of all_variations, not of what a         *)
(* tracking call evaluates again, not of an uncompleted raw evaluation.    *)
THEOREM ObserverHearsOnce == Spec => []ObservedOnce
<1>1. IInv => ObservedOnce
  <2> SUFFICES ASSUME IInv, NEW c \in Callers, Over(c)
               PROVE  call[c].observed =
                        IF options.observer
                           /\ (call[c].op \in Told \/ (call[c].op = "raw" /\ call[c].error # "none"))
                        THEN <<[kind |-> IF call[c].error = "none" THEN "success" ELSE "error",
                                error |-> call[c].error, snap |-> call[c].snap]>>
                        ELSE <<>>
    BY DEF ObservedOnce, Told
  <2>1. ObservedOk(call[c]) /\ Left(call[c].todo) = {}
    BY DEF Over, IInv, CallInv, Left
  <2> QED BY <2>1 DEF ObservedOk
<1> QED BY <1>1, Invariance, PTL

(* When a close has returned and none gave up waiting, both workers'       *)
(* threads are over, no event is accepted and the status is Closed,        *)
(* however many threads close at once.                                     *)
THEOREM ClosesAreComplete == Spec => []CloseIsComplete
<1>1. IInv => CloseIsComplete
  BY DEF IInv, CloseInv, EventsInv, IsOver, CloseIsComplete
<1> QED BY <1>1, Invariance, PTL

(* A client is only ever made of options its workers can run on.           *)
THEOREM BuiltAlwaysRunnable == Spec => BuiltIsRunnable
<1>1. IInv /\ [Next]_vars => (phase = "draft" /\ phase' = "built" => Runnable(options))
  <2> SUFFICES ASSUME IInv, [Next]_vars, phase = "draft", phase' = "built"
               PROVE  Runnable(options)
    OBVIOUS
  <2>1. options \in Candidates
    BY DEF IInv, PhaseInv
  <2>2. Build
    <3>1. \A c \in Callers : Call(c) => phase' = phase
      BY DEF Call, BeginFresh, BeginUse, Check, Load, Gate, Record, Send, Notify, Return,
             otherThanCalls
    <3>2. \A c \in Closers \cup {Dropper} : CloseBegin(c) \/ Closing(c) => phase' = phase
      BY DEF Closing, CloseBegin, CloseUnsynchronized, CloseFirst, CloseLate, CloseWaited,
             CloseEvents, CloseDrained, otherThanClose
    <3> QED
      BY <3>1, <3>2
         DEF Next, StartOffline, StartOnline, Open, Worker, DeliveryStops, EventWorkerEnds, vars
  <2>3. Accepts(options) /\ options \in Drafts
    BY <2>1, <2>2, ClientAssumption DEF Build
  <2> QED BY <2>3, AcceptedIsRunnable
<1> QED BY <1>1, Invariance, PTL DEF Spec, BuiltIsRunnable
=============================================================================

------------------------ MODULE EventProcessorProofs ------------------------
(***************************************************************************)
(* What the event processor promises, for any events, callers and limits.  *)
(*                                                                         *)
(* The invariant follows an event: its call holds a slot and then bytes,   *)
(* the queue holds it, the worker receives it, buffers it and takes it     *)
(* into a flush.  The places are disjoint, so the counters are measures of *)
(* their union, and an event that has left them all was in a request whose *)
(* failure somebody will be told, unless delivery has ended.               *)
(***************************************************************************)
EXTENDS EventProcessor, FiniteSetTheorems, SequenceTheorems, TLAPS

Messages == {Event(p) : p \in Producers} \cup {Flush(f) : f \in Flushers \cup Pokers}

Jobs == [batch : Seq(Producers), todo : Seq(Producers), attempt : 1 .. MaxAttempts,
         ok : BOOLEAN, cancelled : BOOLEAN, why : {"none", "flush", "batch", "auto", "final"},
         to : SUBSET Flushers]

InLoop == {"top", "select", "received", "sending", "retrying", "releasing", "flushed"}
InFlush == {"sending", "retrying", "releasing", "flushed"}
Leaving == {"exiting", "stopping", "discarding", "signal", "done"}

(* The flags and the places, and the messages and the job by their parts.  *)
Typed ==
    /\ producer \in [Producers -> {"idle", "load", "check", "slot", "bytes", "rollback",
                                   "send", "accepted", "rejected"}]
    /\ queue \in Seq(Messages) /\ Len(queue) <= MaxEvents
    /\ flusher \in [Flushers \cup Pokers -> {"idle", "load", "send", "await", "returned"}]
    /\ reply \in [Flushers -> {"none", "true", "false"}]
    /\ result \in [Flushers -> {"none", "true", "false"}]
    /\ covered \in [Flushers -> SUBSET Producers]
    /\ closed \in BOOLEAN /\ closeComplete \in BOOLEAN /\ abort \in BOOLEAN
    /\ senderOpen \in BOOLEAN /\ deliveryStopped \in BOOLEAN /\ closing \in BOOLEAN
    /\ stopped \in BOOLEAN /\ unreported \in BOOLEAN /\ panicked \in BOOLEAN
    /\ worker \in InLoop \cup Leaving
    /\ buffer \in Seq(Producers) /\ Len(buffer) < MaxPerRequest
    /\ job \in Jobs
    /\ acked \subseteq Producers /\ offered \subseteq Producers /\ reported \subseteq Producers

(* One closer leads, and it has sent what its place says.                  *)
Leading == {"take", "ask", "graceful", "abort", "aborted"}

CloseInv ==
    /\ closer \in [Closers -> Leading \cup {"idle", "second", "returned"}]
    /\ shutdown \in Seq({"graceful", "abort"}) /\ Len(shutdown) <= 2
    /\ ~ closed => shutdown = <<>>
    /\ "abort" \in ToSet(shutdown) => abort
    /\ \A c \in Closers :
          /\ ~ closed => closer[c] = "idle"
          /\ closer[c] \in {"take", "ask"} => shutdown = <<>>
          /\ closer[c] \in {"graceful", "abort"} => Len(shutdown) <= 1
          /\ closer[c] \in {"abort", "aborted"} => abort
          /\ \A d \in Closers : closer[c] \in Leading /\ closer[d] \in Leading => c = d

(* What the worker holds at each of its places.                            *)
WorkerInv ==
    /\ worker \notin InFlush \cup {"received"} => job = NoJob
    /\ worker = "received" => \E p \in Producers : job = [NoJob EXCEPT !.batch = <<p>>]
    /\ worker \in InFlush => buffer = <<>> /\ job.why # "none"
    /\ worker \in {"sending", "retrying"} =>
          /\ job.todo # <<>> /\ ToSet(job.todo) \subseteq ToSet(job.batch)
          /\ ~ stopped /\ ~ job.cancelled
    /\ worker = "retrying" => job.attempt < MaxAttempts
    /\ worker \in {"releasing", "flushed"} =>
          job.todo = <<>> /\ (stopped \/ job.cancelled => ~ job.ok)
    /\ worker = "flushed" => job.batch = <<>>
    /\ worker \in {"stopping", "discarding", "signal", "done"} => buffer = <<>>
    /\ ReceiverGone => queue = <<>>
    /\ job.cancelled => abort
    /\ panicked => worker \notin InLoop

(* No event is in a place twice, or in two places.                         *)
UniqueEvents(s) ==
    \A i, j \in 1 .. Len(s) : s[i].kind = "event" /\ s[i] = s[j] => i = j

Buffered == ToSet(buffer)
Batch == ToSet(job.batch)
Todo == ToSet(job.todo)

PlacesInv ==
    /\ UniqueEvents(queue) /\ IsInjective(buffer) /\ IsInjective(job.todo)
    /\ QueuedEvents \cup Buffered \cup Batch \subseteq Accepted
    /\ QueuedEvents \cap Buffered = {} /\ QueuedEvents \cap Batch = {}
    /\ Buffered \cap Batch = {}

CountersInv ==
    /\ queued = Cardinality(HoldingSlot) /\ queued <= MaxEvents
    /\ retained = BytesOf[HoldingBytes] /\ retained <= MaxBytes

(* The events the worker has still to send.                                *)
Unsent == QueuedEvents \cup Buffered \cup Receiving \cup Todo

AckedInv == acked \subseteq Accepted /\ acked \cap Unsent = {}

(* Nothing leaves the worker unsent while delivery goes on, and the loop   *)
(* is left for good.                                                       *)
DrainInv ==
    /\ worker \in InLoop /\ ~ stopped /\ ~ job.cancelled => Accepted \subseteq offered \cup Unsent
    /\ ~ abort /\ ~ stopped /\ ~ panicked =>
          /\ Accepted \subseteq offered \cup Unsent
          /\ worker \in Leaving \/ job.why = "final" =>
                Disconnected /\ queue = <<>> /\ buffer = <<>>

(* A failure is told to a waiting caller or remembered for the next one.   *)
FailureInv ==
    worker \in InLoop /\ ~ stopped /\ ~ job.cancelled =>
        unreported \/ ~ job.ok \/ Accepted \subseteq acked \cup Unsent \cup reported

(* What a flush call answers for is ahead of it in the queue.              *)
Ahead(f) ==
    \A i, j \in 1 .. Len(queue), p \in covered[f] :
        queue[i] = Flush(f) /\ queue[j] = Event(p) => j < i

FlushInv ==
    /\ job.why = "flush" => job.to # {}
    /\ \A f \in Flushers :
          /\ covered[f] \subseteq Accepted
          /\ flusher[f] \in {"idle", "load", "send"} =>
                /\ Flush(f) \notin ToSet(queue) /\ f \notin job.to
                /\ reply[f] = "none" /\ result[f] = "none"
          /\ Ahead(f)
          /\ f \in job.to => covered[f] \cap QueuedEvents = {}
          /\ reply[f] = "true" \/ result[f] = "true" => covered[f] \subseteq acked \cup reported

Safe == Typed /\ CloseInv /\ WorkerInv /\ PlacesInv

IInv == Safe /\ CountersInv /\ AckedInv /\ DrainInv
-----------------------------------------------------------------------------
(***************************************************************************)
(* Sequences and the sets of their elements.                               *)
(***************************************************************************)
(* Appending an element.                                                   *)
LEMMA Appended ==
    ASSUME NEW S, NEW s \in Seq(S), NEW e \in S
    PROVE  /\ Append(s, e) \in Seq(S) /\ Len(Append(s, e)) = Len(s) + 1
           /\ Append(s, e)[Len(s) + 1] = e /\ \A i \in 1 .. Len(s) : Append(s, e)[i] = s[i]
           /\ ToSet(Append(s, e)) = ToSet(s) \cup {e}
<1>1. /\ Append(s, e) \in Seq(S) /\ Len(Append(s, e)) = Len(s) + 1 /\ Len(s) \in Nat
      /\ Append(s, e)[Len(s) + 1] = e /\ \A i \in 1 .. Len(s) : Append(s, e)[i] = s[i]
      /\ DOMAIN s = 1 .. Len(s) /\ DOMAIN Append(s, e) = 1 .. Len(s) + 1
  OBVIOUS
<1>2. ToSet(Append(s, e)) \subseteq ToSet(s) \cup {e}
  <2> SUFFICES ASSUME NEW i \in 1 .. Len(s) + 1 PROVE Append(s, e)[i] \in ToSet(s) \cup {e}
    BY <1>1 DEF ToSet
  <2>1. i = Len(s) + 1 \/ i \in 1 .. Len(s)
    BY <1>1
  <2> QED BY <1>1, <2>1 DEF ToSet
<1>3. ToSet(s) \subseteq ToSet(Append(s, e))
  <2> SUFFICES ASSUME NEW i \in 1 .. Len(s) PROVE s[i] \in ToSet(Append(s, e))
    BY <1>1 DEF ToSet
  <2>1. i \in 1 .. Len(s) + 1
    BY <1>1
  <2> QED BY <1>1, <2>1 DEF ToSet
<1>4. e \in ToSet(Append(s, e))
  <2>1. Len(s) + 1 \in 1 .. Len(s) + 1
    BY <1>1
  <2> QED BY <1>1, <2>1 DEF ToSet
<1> QED BY <1>1, <1>2, <1>3, <1>4

(* Taking the first element away.                                          *)
LEMMA Taken ==
    ASSUME NEW S, NEW s \in Seq(S), s # <<>>
    PROVE  /\ Tail(s) \in Seq(S) /\ Len(Tail(s)) = Len(s) - 1 /\ Head(s) = s[1]
           /\ \A i \in 1 .. Len(Tail(s)) : i + 1 \in 1 .. Len(s) /\ Tail(s)[i] = s[i + 1]
           /\ 1 \in 1 .. Len(s) /\ Head(s) \in S
           /\ ToSet(s) = ToSet(Tail(s)) \cup {Head(s)}
<1>1. /\ Tail(s) \in Seq(S) /\ Len(Tail(s)) = Len(s) - 1 /\ Head(s) = s[1] /\ Head(s) \in S
      /\ \A i \in 1 .. Len(Tail(s)) : Tail(s)[i] = s[i + 1]
      /\ Len(s) \in Nat /\ Len(s) >= 1
      /\ DOMAIN s = 1 .. Len(s) /\ DOMAIN Tail(s) = 1 .. Len(s) - 1
  OBVIOUS
<1>2. 1 \in 1 .. Len(s) /\ \A i \in 1 .. Len(Tail(s)) : i + 1 \in 1 .. Len(s)
  BY <1>1
<1>3. ToSet(Tail(s)) \cup {Head(s)} \subseteq ToSet(s)
  BY <1>1, <1>2 DEF ToSet
<1>4. ToSet(s) \subseteq ToSet(Tail(s)) \cup {Head(s)}
  <2> SUFFICES ASSUME NEW i \in 1 .. Len(s), i # 1 PROVE s[i] \in ToSet(Tail(s))
    BY <1>1 DEF ToSet
  <2>1. i - 1 \in 1 .. Len(s) - 1 /\ (i - 1) + 1 = i
    BY <1>1
  <2> QED BY <1>1, <2>1 DEF ToSet
<1> QED BY <1>1, <1>2, <1>3, <1>4

(* One sequence after another.                                             *)
LEMMA Joined ==
    ASSUME NEW S, NEW s \in Seq(S), NEW e \in S
    PROVE  /\ s \o <<e>> \in Seq(S) /\ Len(s \o <<e>>) = Len(s) + 1
           /\ ToSet(s \o <<e>>) = ToSet(s) \cup {e}
           /\ IsInjective(s) /\ e \notin ToSet(s) => IsInjective(s \o <<e>>)
<1>1. s \o <<e>> = Append(s, e)
  OBVIOUS
<1>2. IsInjective(s) /\ e \notin ToSet(s) => IsInjective(Append(s, e))
  <2> SUFFICES ASSUME IsInjective(s), e \notin ToSet(s),
                      NEW i \in DOMAIN Append(s, e), NEW j \in DOMAIN Append(s, e),
                      Append(s, e)[i] = Append(s, e)[j]
               PROVE  i = j
    BY DEF IsInjective
  <2>1. DOMAIN s = 1 .. Len(s) /\ DOMAIN Append(s, e) = 1 .. Len(s) + 1 /\ Len(s) \in Nat
    BY Appended
  <2>2. \A k \in 1 .. Len(s) : Append(s, e)[k] # e
    BY <2>1, Appended DEF ToSet
  <2>3. (i \in 1 .. Len(s) \/ i = Len(s) + 1) /\ (j \in 1 .. Len(s) \/ j = Len(s) + 1)
    BY <2>1
  <2> QED BY <2>1, <2>2, <2>3, Appended DEF IsInjective
<1>3. /\ Append(s, e) \in Seq(S) /\ Len(Append(s, e)) = Len(s) + 1
      /\ ToSet(Append(s, e)) = ToSet(s) \cup {e}
  BY Appended
<1> QED BY <1>1, <1>2, <1>3

(* The elements of nothing and of one.                                     *)
LEMMA Few ==
    /\ ToSet(<<>>) = {} /\ IsInjective(<<>>)
    /\ \A e : ToSet(<<e>>) = {e}
    /\ \A S : \A s \in Seq(S) : ToSet(s) \subseteq S /\ (ToSet(s) = {} => s = <<>>)
<1>1. \A e : ToSet(<<e>>) = {e}
  BY DEF ToSet
<1>2. ASSUME NEW S, NEW s \in Seq(S) PROVE ToSet(s) \subseteq S /\ (ToSet(s) = {} => s = <<>>)
  <2>1. DOMAIN s = 1 .. Len(s) /\ Len(s) \in Nat /\ \A i \in 1 .. Len(s) : s[i] \in S
    OBVIOUS
  <2>2. s # <<>> => 1 \in DOMAIN s
    BY <2>1
  <2> QED BY <2>1, <2>2 DEF ToSet
<1> QED BY <1>1, <1>2 DEF ToSet, IsInjective

(* Cutting a sequence in two.                                              *)
LEMMA Cut ==
    ASSUME NEW S, NEW s \in Seq(S), NEW n \in 0 .. Len(s)
    PROVE  LET front == SubSeq(s, 1, n)  back == SubSeq(s, n + 1, Len(s)) IN
           /\ front \in Seq(S) /\ back \in Seq(S)
           /\ ToSet(s) = ToSet(front) \cup ToSet(back)
           /\ IsInjective(s) => ToSet(front) \cap ToSet(back) = {} /\ IsInjective(back)
<1> DEFINE front == SubSeq(s, 1, n)
           back == SubSeq(s, n + 1, Len(s))
<1>1. Len(s) \in Nat /\ DOMAIN s = 1 .. Len(s) /\ n \in Nat /\ n <= Len(s)
  OBVIOUS
<1>2. front \in Seq(S) /\ Len(front) = n /\ \A i \in 1 .. n : front[i] = s[i]
  BY <1>1
<1>3. /\ back \in Seq(S) /\ Len(back) = Len(s) - n
      /\ \A i \in 1 .. Len(s) - n : back[i] = s[n + i]
  <2> DEFINE m == n + 1
             k == Len(s)
  <2>1. m \in Int /\ k \in Int /\ m = n + 1 /\ k = Len(s) /\ \A i \in m .. k : s[i] \in S
    BY <1>1
  <2>2. back = SubSeq(s, m, k)
    OBVIOUS
  <2> HIDE DEF m, k, back
  <2>3. /\ SubSeq(s, m, k) \in Seq(S)
        /\ Len(SubSeq(s, m, k)) = IF m <= k THEN k - m + 1 ELSE 0
        /\ \A i \in 1 .. k - m + 1 : SubSeq(s, m, k)[i] = s[m + i - 1]
    BY <2>1, SubSeqProperties
  <2>4. n \in Int /\ k - m + 1 = k - n /\ (~ m <= k => k - n = 0)
    <3>1. n \in Int /\ m = n + 1 /\ k \in Int /\ n <= k
      BY <1>1, <2>1
    <3>2. k - m + 1 = k - n
      BY <3>1
    <3>3. ASSUME ~ m <= k PROVE k - n = 0
      BY <3>1, <3>3
    <3> QED BY <3>1, <3>2, <3>3
  <2>5. \A i \in 1 .. Len(s) - n : m + i - 1 = n + i
    BY <1>1, <2>1
  <2> QED BY <1>1, <2>1, <2>2, <2>3, <2>4, <2>5
<1>4. DOMAIN front = 1 .. n /\ DOMAIN back = 1 .. Len(s) - n
  BY <1>2, <1>3
<1>5. \A i \in 1 .. n : i \in 1 .. Len(s)
  BY <1>1
<1>6. \A i \in 1 .. Len(s) - n : n + i \in 1 .. Len(s) /\ n + i > n
  BY <1>1
<1>7. \A i \in 1 .. Len(s) : i \in 1 .. n \/ (i - n \in 1 .. Len(s) - n /\ n + (i - n) = i)
  BY <1>1
<1> HIDE DEF front, back
<1>8. ToSet(s) = ToSet(front) \cup ToSet(back)
  <2>1. \A i \in 1 .. Len(s) : s[i] \in ToSet(front) \cup ToSet(back)
    <3> TAKE i \in 1 .. Len(s)
    <3>1. CASE i \in 1 .. n BY <1>2, <1>4, <3>1 DEF ToSet
    <3>2. CASE i - n \in 1 .. Len(s) - n /\ n + (i - n) = i
      <4>1. back[i - n] = s[i]
        BY <1>3, <3>2
      <4> QED BY <1>4, <3>2, <4>1 DEF ToSet
    <3> QED BY <1>7, <3>1, <3>2
  <2>2. \A i \in 1 .. n : front[i] \in ToSet(s)
    BY <1>1, <1>2, <1>5 DEF ToSet
  <2>3. \A i \in 1 .. Len(s) - n : back[i] \in ToSet(s)
    BY <1>1, <1>3, <1>6 DEF ToSet
  <2> QED BY <1>1, <1>4, <2>1, <2>2, <2>3 DEF ToSet
<1>9. ASSUME IsInjective(s) PROVE ToSet(front) \cap ToSet(back) = {} /\ IsInjective(back)
  <2>1. \A i \in 1 .. n, j \in 1 .. Len(s) - n : front[i] # back[j]
    <3> TAKE i \in 1 .. n, j \in 1 .. Len(s) - n
    <3>1. i # n + j /\ i \in DOMAIN s /\ n + j \in DOMAIN s
      BY <1>1, <1>5, <1>6
    <3> QED BY <1>2, <1>3, <1>9, <3>1 DEF IsInjective
  <2>2. \A i, j \in 1 .. Len(s) - n : back[i] = back[j] => i = j
    <3> TAKE i, j \in 1 .. Len(s) - n
    <3>1. n + i \in DOMAIN s /\ n + j \in DOMAIN s /\ (n + i = n + j => i = j)
      BY <1>1, <1>6
    <3> QED BY <1>3, <1>9, <3>1 DEF IsInjective
  <2> QED BY <1>4, <2>1, <2>2 DEF ToSet, IsInjective
<1> QED BY <1>2, <1>3, <1>8, <1>9 DEF front, back
-----------------------------------------------------------------------------
(***************************************************************************)
(* The queue and the events in it.                                         *)
(***************************************************************************)
EventsIn(q) == {p \in Producers : Event(p) \in ToSet(q)}

LEMMA QueuedAreIn == QueuedEvents = EventsIn(queue) /\ EventsIn(<<>>) = {}
BY Few DEF QueuedEvents, EventsIn

(* A message is an event or a flush, and says which.                       *)
LEMMA MessageFacts ==
    /\ \A p, x : Event(p) # Flush(x) /\ (Event(p) = Event(x) => p = x)
                /\ Event(p).kind = "event" /\ Flush(x).kind = "flush"
                /\ Event(p).of = p /\ Flush(x).of = x /\ (Flush(p) = Flush(x) => p = x)
    /\ \A m \in Messages :
          \/ m.kind = "event" /\ m.of \in Producers /\ m = Event(m.of)
          \/ m.kind = "flush" /\ m.of \in Flushers \cup Pokers /\ m = Flush(m.of)
BY DEF Event, Flush, Messages

(* What sending an event or a flush does.                                  *)
LEMMA QueueGrows ==
    ASSUME NEW q \in Seq(Messages), UniqueEvents(q), NEW m \in Messages,
           m.kind = "event" => m \notin ToSet(q)
    PROVE  /\ UniqueEvents(Append(q, m))
           /\ EventsIn(Append(q, m)) =
                  IF m.kind = "event" THEN EventsIn(q) \cup {m.of} ELSE EventsIn(q)
<1>1. /\ Append(q, m) \in Seq(Messages) /\ Len(Append(q, m)) = Len(q) + 1 /\ Len(q) \in Nat
      /\ Append(q, m)[Len(q) + 1] = m /\ \A i \in 1 .. Len(q) : Append(q, m)[i] = q[i]
      /\ ToSet(Append(q, m)) = ToSet(q) \cup {m}
  BY Appended
<1>2. \A i \in 1 .. Len(q) + 1 : i \in 1 .. Len(q) \/ i = Len(q) + 1
  BY <1>1
<1>3. \A i \in 1 .. Len(q) : q[i] \in ToSet(q)
  BY DEF ToSet
<1>4. UniqueEvents(Append(q, m))
  <2> SUFFICES ASSUME NEW i \in 1 .. Len(q) + 1, NEW j \in 1 .. Len(q) + 1,
                      Append(q, m)[i].kind = "event", Append(q, m)[i] = Append(q, m)[j]
               PROVE  i = j
    BY <1>1 DEF UniqueEvents
  <2>1. CASE i \in 1 .. Len(q) /\ j \in 1 .. Len(q) BY <1>1, <2>1 DEF UniqueEvents
  <2>2. CASE i = Len(q) + 1 /\ j = Len(q) + 1 BY <2>2
  <2>3. CASE i \in 1 .. Len(q) /\ j = Len(q) + 1 BY <1>1, <1>3, <2>3
  <2>4. CASE i = Len(q) + 1 /\ j \in 1 .. Len(q) BY <1>1, <1>3, <2>4
  <2> QED BY <1>2, <2>1, <2>2, <2>3, <2>4
<1>5. CASE m.kind = "event"
  <2>1. m.of \in Producers /\ m = Event(m.of)
    BY <1>5, MessageFacts
  <2>2. \A p \in Producers : Event(p) = m <=> p = m.of
    BY <2>1, MessageFacts
  <2> QED BY <1>1, <1>4, <1>5, <2>1, <2>2 DEF EventsIn
<1>6. CASE m.kind # "event"
  <2>1. \A p \in Producers : Event(p) # m
    BY <1>6, MessageFacts
  <2> QED BY <1>1, <1>4, <1>6, <2>1 DEF EventsIn
<1> QED BY <1>5, <1>6

(* What receiving its first message does.                                  *)
LEMMA QueueShrinks ==
    ASSUME NEW q \in Seq(Messages), UniqueEvents(q), q # <<>>
    PROVE  /\ UniqueEvents(Tail(q))
           /\ Head(q).kind = "event" =>
                 /\ Head(q).of \in EventsIn(q) /\ Head(q) = Event(Head(q).of)
                 /\ EventsIn(Tail(q)) = EventsIn(q) \ {Head(q).of}
           /\ Head(q).kind # "event" =>
                 /\ Head(q).of \in Flushers \cup Pokers /\ Head(q) = Flush(Head(q).of)
                 /\ EventsIn(Tail(q)) = EventsIn(q)
<1> DEFINE h == Head(q)
           t == Tail(q)
<1>1. /\ t \in Seq(Messages) /\ Len(t) = Len(q) - 1 /\ h = q[1] /\ h \in Messages
      /\ \A i \in 1 .. Len(t) : i + 1 \in 1 .. Len(q) /\ t[i] = q[i + 1]
      /\ 1 \in 1 .. Len(q) /\ ToSet(q) = ToSet(t) \cup {h}
  BY Taken
<1>2. Len(t) \in Nat /\ DOMAIN t = 1 .. Len(t)
  BY <1>1
<1> HIDE DEF h, t
<1>3. UniqueEvents(t)
  <2> SUFFICES ASSUME NEW i \in 1 .. Len(t), NEW j \in 1 .. Len(t), t[i].kind = "event", t[i] = t[j]
               PROVE  i = j
    BY DEF UniqueEvents
  <2>1. i + 1 = j + 1
    BY <1>1 DEF UniqueEvents
  <2> QED BY <1>2, <2>1
<1>4. h.kind = "event" => h \notin ToSet(t)
  <2> SUFFICES ASSUME h.kind = "event", NEW i \in 1 .. Len(t), t[i] = h PROVE FALSE
    BY <1>2 DEF ToSet
  <2>1. 1 = i + 1
    BY <1>1 DEF UniqueEvents
  <2> QED BY <1>2, <2>1
<1>5. CASE h.kind = "event"
  <2>1. h.of \in Producers /\ h = Event(h.of) /\ \A p \in Producers : Event(p) = h <=> p = h.of
    BY <1>1, <1>5, MessageFacts
  <2> QED BY <1>1, <1>3, <1>4, <1>5, <2>1 DEF EventsIn, h, t
<1>6. CASE h.kind # "event"
  <2>1. h.of \in Flushers \cup Pokers /\ h = Flush(h.of) /\ \A p \in Producers : Event(p) # h
    BY <1>1, <1>6, MessageFacts
  <2> QED BY <1>1, <1>3, <1>6, <2>1 DEF EventsIn, h, t
<1> QED BY <1>5, <1>6 DEF h
-----------------------------------------------------------------------------
(***************************************************************************)
(* Measures of sets of events.                                             *)
(***************************************************************************)
(* The bytes of nothing, of a set and of what is left of it.               *)
LEMMA Bytes ==
    /\ BytesOf[{}] = 0
    /\ \A s \in SUBSET Producers : BytesOf[s] \in Nat
    /\ \A s, t \in SUBSET Producers :
          /\ s \cap t = {} => BytesOf[s \cup t] = BytesOf[s] + BytesOf[t]
          /\ t \subseteq s => BytesOf[s \ t] = BytesOf[s] - BytesOf[t]
<1>1. \A s \in SUBSET Producers : BytesOf[s] \in Nat
  BY LimitsAssumption
<1>2. \A s, t \in SUBSET Producers :
         s \cap t = {} => BytesOf[s \cup t] = BytesOf[s] + BytesOf[t]
  BY LimitsAssumption
<1>3. BytesOf[{}] = 0
  <2>1. {} \in SUBSET Producers /\ {} \cap {} = {} /\ {} \cup {} = {}
    OBVIOUS
  <2>2. BytesOf[{}] = BytesOf[{}] + BytesOf[{}]
    BY <1>2, <2>1
  <2> QED BY <1>1, <2>1, <2>2
<1>4. ASSUME NEW s \in SUBSET Producers, NEW t \in SUBSET Producers, t \subseteq s
      PROVE  BytesOf[s \ t] = BytesOf[s] - BytesOf[t]
  <2>1. s \ t \in SUBSET Producers /\ (s \ t) \cap t = {} /\ (s \ t) \cup t = s
    BY <1>4
  <2>2. BytesOf[s] = BytesOf[s \ t] + BytesOf[t]
    BY <1>2, <2>1
  <2> QED BY <1>1, <2>1, <2>2
<1> QED BY <1>1, <1>2, <1>3, <1>4

(* The slots of a set, and of what is left of it.                          *)
LEMMA Slots ==
    /\ Cardinality({}) = 0
    /\ \A s \in SUBSET Producers : Cardinality(s) \in Nat
    /\ \A s \in SUBSET Producers, p \in Producers :
          /\ p \notin s => Cardinality(s \cup {p}) = Cardinality(s) + 1
          /\ p \in s => Cardinality(s \ {p}) = Cardinality(s) - 1
    /\ \A s, t \in SUBSET Producers :
          /\ t \subseteq s => Cardinality(s \ t) = Cardinality(s) - Cardinality(t)
          /\ t \subseteq s => Cardinality(t) <= Cardinality(s)
<1>1. \A s \in SUBSET Producers : IsFiniteSet(s) /\ Cardinality(s) \in Nat
  BY FS_Subset, FS_CardinalityType, LimitsAssumption
<1>2. ASSUME NEW s \in SUBSET Producers, NEW t \in SUBSET Producers, t \subseteq s
      PROVE  /\ Cardinality(s \ t) = Cardinality(s) - Cardinality(t)
             /\ Cardinality(t) <= Cardinality(s)
  <2>1. s \cap t = t
    BY <1>2
  <2>2. Cardinality(s \ t) = Cardinality(s) - Cardinality(s \cap t)
    BY <1>1, FS_Difference
  <2> QED BY <1>1, <1>2, <2>1, <2>2, FS_Subset
<1> QED BY <1>1, <1>2, FS_EmptySet, FS_AddElement, FS_RemoveElement
-----------------------------------------------------------------------------
(***************************************************************************)
(* Types.                                                                  *)
(***************************************************************************)
LEMMA NoJobIsAJob == NoJob \in Jobs
<1>1. 1 \in 1 .. MaxAttempts /\ <<>> \in Seq(Producers)
  BY LimitsAssumption
<1> QED BY <1>1 DEF NoJob, Jobs

LEMMA TypedInit == Init => Typed
<1>1. Len(<<>>) <= MaxEvents /\ Len(<<>>) < MaxPerRequest
  BY LimitsAssumption
<1>2. <<>> \in Seq(Messages) /\ <<>> \in Seq(Producers)
  OBVIOUS
<1>3. SUFFICES ASSUME Init PROVE Typed
  OBVIOUS
<1>4. /\ queue \in Seq(Messages) /\ Len(queue) <= MaxEvents
      /\ buffer \in Seq(Producers) /\ Len(buffer) < MaxPerRequest
      /\ job \in Jobs /\ worker \in InLoop
  BY <1>1, <1>2, <1>3, NoJobIsAJob DEF Init, InLoop
<1> QED BY <1>3, <1>4 DEF Init, Typed

LEMMA TypedRecord ==
    ASSUME Typed, NEW p \in Producers, Record(p)
    PROVE  Typed'
<1> USE DEF Typed, Go, producerOnly, closeVars, workerVars, history, capacityVars
<1>1. CASE RecordChecks(p) BY <1>1 DEF RecordChecks
<1>2. CASE RecordLoads(p) BY <1>2 DEF RecordLoads
<1>3. CASE RecordSeesRoom(p) BY <1>3 DEF RecordSeesRoom
<1>4. CASE ReserveSlot(p) BY <1>4 DEF ReserveSlot
<1>5. CASE ReserveBytes(p) BY <1>5 DEF ReserveBytes
<1>6. CASE RollbackSlot(p) BY <1>6 DEF RollbackSlot
<1>7. CASE RecordSends(p)
  <2>1. CASE ReceiverGone \/ Len(queue) >= MaxEvents BY <1>7, <2>1 DEF RecordSends
  <2>2. CASE ~ (ReceiverGone \/ Len(queue) >= MaxEvents)
    <3>1. Event(p) \in Messages
      BY DEF Messages
    <3>2. queue' = Append(queue, Event(p)) /\ queue \in Seq(Messages)
      BY <1>7, <2>2 DEF RecordSends
    <3>3. queue' \in Seq(Messages) /\ Len(queue') = Len(queue) + 1 /\ Len(queue) \in Nat
      BY <3>1, <3>2, Appended
    <3>4. Len(queue') <= MaxEvents
      <4>1. MaxEvents \in Nat /\ ~ Len(queue) >= MaxEvents
        BY <2>2, LimitsAssumption
      <4> QED BY <3>3, <4>1
    <3> QED BY <1>7, <2>2, <3>3, <3>4 DEF RecordSends
  <2> QED BY <2>1, <2>2
<1> QED BY <1>1, <1>2, <1>3, <1>4, <1>5, <1>6, <1>7 DEF Record

LEMMA TypedFlush ==
    ASSUME Typed, NEW f \in Flushers \cup Pokers, FlushCall(f)
    PROVE  Typed'
<1> USE DEF Typed, MoveTo, ReturnWith, flusherOnly, closeVars, workerVars, history, capacityVars
<1>0. Accepted \subseteq Producers
  BY DEF Accepted
<1>1. CASE FlushChecks(f) BY <1>0, <1>1 DEF FlushChecks
<1>2. CASE FlushLoads(f) BY <1>2 DEF FlushLoads
<1>3. CASE FlushSends(f)
  <2>1. Flush(f) \in Messages
    BY DEF Messages
  <2>2. /\ queue' = Append(queue, Flush(f)) /\ queue' \in Seq(Messages)
        /\ Len(queue') = Len(queue) + 1 /\ Len(queue) \in Nat
    BY <1>3, <2>1, Appended DEF FlushSends
  <2>3. Len(queue') <= MaxEvents
    BY <1>3, <2>2, LimitsAssumption DEF FlushSends
  <2> QED BY <1>3, <2>2, <2>3 DEF FlushSends
<1>4. CASE FlushNotSent(f) BY <1>4 DEF FlushNotSent
<1>5. CASE FlushAnswered(f)
  <2>1. f \in Flushers => reply[f] \in {"none", "true", "false"}
    OBVIOUS
  <2> QED BY <1>5, <2>1 DEF FlushAnswered
<1>6. CASE FlushTimesOut(f) BY <1>6 DEF FlushTimesOut
<1> QED BY <1>1, <1>2, <1>3, <1>4, <1>5, <1>6 DEF FlushCall

LEMMA TypedClose ==
    ASSUME Typed, NEW c \in Closers, Close(c)
    PROVE  Typed'
<1> USE DEF Typed, Place, closeOnly, callVars, workerVars, history, capacityVars
<1>1. CASE CloseSwap(c) BY <1>1 DEF CloseSwap
<1>2. CASE CloseTakesSender(c) BY <1>2 DEF CloseTakesSender
<1>3. CASE CloseAsks(c) BY <1>3 DEF CloseAsks
<1>4. CASE CloseSignalsAbort(c) BY <1>4 DEF CloseSignalsAbort
<1>5. CASE CloseSendsAbort(c) BY <1>5 DEF CloseSendsAbort
<1>6. CASE CloseCompletes(c) BY <1>6 DEF CloseCompletes
<1>7. CASE CloseSecond(c) BY <1>7 DEF CloseSecond
<1> QED BY <1>1, <1>2, <1>3, <1>4, <1>5, <1>6, <1>7 DEF Close

(* What a flush begins with.                                               *)
LEMMA Begun ==
    ASSUME Typed, NEW why \in {"flush", "batch", "auto", "final"}, NEW to \in SUBSET Flushers,
           NEW events \in Seq(Producers), BeginFlush(why, to, events)
    PROVE  /\ buffer' = <<>> /\ job' \in Jobs /\ worker' \in InFlush
           /\ job'.batch = events /\ job'.why = why /\ job'.to = to
           /\ ~ job'.cancelled /\ job'.attempt = 1
           /\ IF stopped THEN worker' = "releasing" /\ job'.todo = <<>> /\ ~ job'.ok
              ELSE /\ job'.todo = events /\ job'.ok
                   /\ worker' = IF events = <<>> THEN "flushed" ELSE "sending"
<1>1. 1 \in 1 .. MaxAttempts /\ <<>> \in Seq(Producers)
  BY LimitsAssumption
<1>2. CASE stopped
  <2>1. job' = [batch |-> events, todo |-> <<>>, attempt |-> 1, ok |-> FALSE,
                cancelled |-> FALSE, why |-> why, to |-> to]
    BY <1>2 DEF BeginFlush, NoJob
  <2> QED BY <1>1, <1>2, <2>1 DEF BeginFlush, Jobs, InFlush
<1>3. CASE ~ stopped
  <2>1. job' = [batch |-> events, todo |-> events, attempt |-> 1, ok |-> TRUE,
                cancelled |-> FALSE, why |-> why, to |-> to]
    BY <1>3 DEF BeginFlush, NoJob
  <2> QED BY <1>1, <1>3, <2>1 DEF BeginFlush, Jobs, InFlush
<1> QED BY <1>2, <1>3

(* The events of the next request and those after it.                      *)
LEMMA ChunkFacts ==
    ASSUME Typed
    PROVE  /\ Chunk \in Seq(Producers) /\ Rest \in Seq(Producers)
           /\ ToSet(job.todo) = ToSet(Chunk) \cup ToSet(Rest)
           /\ IsInjective(job.todo) => ToSet(Chunk) \cap ToSet(Rest) = {} /\ IsInjective(Rest)
           /\ ToSet(Chunk) \subseteq Producers
<1>1. job.todo \in Seq(Producers) /\ Len(job.todo) \in Nat
  BY DEF Typed, Jobs
<1>2. ChunkLength \in 0 .. Len(job.todo)
  BY <1>1, LimitsAssumption DEF ChunkLength
<1>3. /\ Chunk \in Seq(Producers) /\ Rest \in Seq(Producers)
      /\ ToSet(job.todo) = ToSet(Chunk) \cup ToSet(Rest)
      /\ IsInjective(job.todo) => ToSet(Chunk) \cap ToSet(Rest) = {} /\ IsInjective(Rest)
  BY <1>1, <1>2, Cut DEF Chunk, Rest
<1> QED BY <1>3, Few

(* What the end of a chunk leaves.                                         *)
LEMMA ChunkEnds ==
    ASSUME Typed, NEW outcome \in BOOLEAN, NextChunk(outcome)
    PROVE  /\ job' \in Jobs /\ worker' \in {"releasing", "sending"}
           /\ job'.todo = Rest /\ (job'.ok <=> job.ok /\ outcome)
           /\ job'.batch = job.batch /\ job'.cancelled = job.cancelled /\ job'.why = job.why
           /\ job'.to = job.to /\ (worker' = "releasing" <=> Rest = <<>>)
<1>1. job \in Jobs /\ Rest \in Seq(Producers) /\ 1 \in 1 .. MaxAttempts
  BY ChunkFacts, LimitsAssumption DEF Typed
<1>2. PICK b \in BOOLEAN : (b <=> job.ok /\ outcome)
  OBVIOUS
<1>3. (job.ok /\ outcome) = b
  BY <1>1, <1>2, Zenon DEF Jobs
<1>4. job' = [job EXCEPT !.todo = Rest, !.attempt = 1, !.ok = b]
  BY <1>3 DEF NextChunk
<1> QED BY <1>1, <1>2, <1>4 DEF NextChunk, Jobs

LEMMA TypedWorker ==
    ASSUME Typed, WorkerInv, Worker
    PROVE  Typed'
<1> USE DEF Typed, workerOnly, sendingOnly, exitOnly, callVars, capacityVars, closeVars, history,
            InLoop, Leaving, InFlush
<1>1. CASE TopPoll BY <1>1 DEF TopPoll, ReadShutdown, AfterShutdown
<1>2. CASE SelectShutdown BY <1>2 DEF SelectShutdown, ReadShutdown, AfterShutdown
<1> DEFINE TookOne == queue # <<>> /\ queue' = Tail(queue)
<1>3. ASSUME TookOne
      PROVE  queue' \in Seq(Messages) /\ Len(queue') <= MaxEvents /\ Head(queue) \in Messages
  <2>1. /\ queue' \in Seq(Messages) /\ Len(queue') = Len(queue) - 1 /\ Len(queue) \in Nat
        /\ Head(queue) \in Messages
    BY <1>3, Taken
  <2> QED BY <2>1, LimitsAssumption
<1>4. Len(<<>>) < MaxPerRequest /\ <<>> \in Seq(Producers) /\ <<>> \in Seq(Messages)
      /\ Len(<<>>) <= MaxEvents
  BY LimitsAssumption
<1>5. CASE SelectEvent
  <2>1. Head(queue).of \in Producers
    BY <1>3, <1>5, MessageFacts DEF SelectEvent
  <2>2. <<Head(queue).of>> \in Seq(Producers)
    BY <2>1
  <2>3. job' \in Jobs
    BY <1>5, <2>2, NoJobIsAJob DEF SelectEvent, Jobs
  <2> QED BY <1>3, <1>5, <2>3 DEF SelectEvent
<1>6. CASE ProcessEvent
  <2>1. PICK p \in Producers : job = [NoJob EXCEPT !.batch = <<p>>]
    BY <1>6 DEF ProcessEvent, WorkerInv
  <2>2. job.batch = <<p>>
    BY <2>1 DEF NoJob
  <2>3. buffer \o job.batch \in Seq(Producers) /\ Len(buffer \o job.batch) = Len(buffer) + 1
    BY <2>2, Joined
  <2>4. CASE stopped BY <1>6, <2>4, NoJobIsAJob DEF ProcessEvent
  <2>5. CASE ~ stopped /\ Len(buffer) + 1 >= MaxPerRequest
    <3>1. BeginFlush("batch", {}, buffer \o job.batch)
      BY <1>6, <2>5 DEF ProcessEvent
    <3>2. buffer' = <<>> /\ job' \in Jobs /\ worker' \in InFlush
      BY <2>3, <3>1, Begun
    <3> QED BY <1>4, <1>6, <3>2 DEF ProcessEvent
  <2>6. CASE ~ stopped /\ ~ Len(buffer) + 1 >= MaxPerRequest
    <3>1. Len(buffer) + 1 < MaxPerRequest
      BY <2>6, LimitsAssumption
    <3> QED BY <1>6, <2>3, <2>6, <3>1, NoJobIsAJob DEF ProcessEvent
  <2> QED BY <2>4, <2>5, <2>6
<1>7. CASE SelectFlush
  <2>1. buffer' = <<>> /\ job' \in Jobs /\ worker' \in InFlush
    BY <1>7, Begun DEF SelectFlush
  <2> QED BY <1>3, <1>4, <1>7, <2>1 DEF SelectFlush
<1>8. CASE FinalFlush
  <2>1. buffer' = <<>> /\ job' \in Jobs /\ worker' \in InFlush
    BY <1>8, Begun DEF FinalFlush
  <2> QED BY <1>4, <1>8, <2>1 DEF FinalFlush
<1>9. CASE AutoFlush
  <2>1. buffer' = <<>> /\ job' \in Jobs /\ worker' \in InFlush
    BY <1>9, Begun DEF AutoFlush
  <2> QED BY <1>4, <1>9, <2>1 DEF AutoFlush
<1>10. ToSet(Chunk) \subseteq Producers
  BY ChunkFacts
<1>11. CASE RequestSucceeds
  <2>1. job' \in Jobs /\ worker' \in {"releasing", "sending"}
    BY <1>11, ChunkEnds DEF RequestSucceeds
  <2> QED BY <1>10, <1>11, <2>1 DEF RequestSucceeds, Requested
<1>12. CASE RequestFails
  <2>1. job' \in Jobs /\ worker' \in {"releasing", "sending", "retrying"}
    BY <1>12, ChunkEnds DEF RequestFails
  <2> QED BY <1>10, <1>12, <2>1 DEF RequestFails, Requested
<1>13. CASE Retry
  <2>1. job.attempt + 1 \in 1 .. MaxAttempts
    BY <1>13, LimitsAssumption DEF Retry, WorkerInv, Jobs
  <2> QED BY <1>13, <2>1 DEF Retry, Jobs
<1>14. CASE RequestRejected BY <1>10, <1>4, <1>14 DEF RequestRejected, Requested, Jobs
<1>15. CASE Cancelled BY <1>4, <1>15 DEF Cancelled, Jobs
<1>16. CASE Release BY <1>4, <1>16 DEF Release, Jobs
<1>17. CASE EndFlush
  <2>1. reply' \in [Flushers -> {"none", "true", "false"}]
    BY <1>17 DEF EndFlush, Reply
  <2>2. unreported' \in BOOLEAN /\ reported' \subseteq Producers
    BY <1>17 DEF EndFlush, Lost, RememberFailure, Jobs
  <2> QED BY <1>17, <2>1, <2>2, NoJobIsAJob DEF EndFlush
<1>18. CASE Exit BY <1>4, <1>18 DEF Exit
<1>19. CASE StoppedOnExit BY <1>19 DEF StoppedOnExit
<1>20. CASE DiscardQueue
  <2>1. reply' \in [Flushers -> {"none", "true", "false"}]
    BY <1>20 DEF DiscardQueue
  <2> QED BY <1>4, <1>20, <2>1 DEF DiscardQueue
<1>21. CASE Signal BY <1>21 DEF Signal
<1>22. CASE Panic
  <2>1. reply' \in [Flushers -> {"none", "true", "false"}]
    BY <1>22 DEF Panic
  <2> QED BY <1>4, <1>22, <2>1, NoJobIsAJob DEF Panic
<1> QED BY <1>1, <1>2, <1>5, <1>6, <1>7, <1>8, <1>9, <1>11, <1>12, <1>13, <1>14, <1>15, <1>16,
           <1>17, <1>18, <1>19, <1>20, <1>21, <1>22 DEF Worker, Run
-----------------------------------------------------------------------------
(***************************************************************************)
(* The leading closer and its messages.                                    *)
(***************************************************************************)
LEMMA CloseInit == Init => CloseInv
BY Few DEF Init, CloseInv, Leading

LEMMA CloseStays ==
    ASSUME CloseInv, UNCHANGED closeVars
    PROVE  CloseInv'
BY DEF CloseInv, closeVars

(* What the worker leaves of the close alone.                              *)
LEMMA WorkerAndClose ==
    ASSUME Worker
    PROVE  /\ UNCHANGED <<closed, closeComplete, abort, closer, senderOpen, producer, flusher,
                          result, covered>>
           /\ UNCHANGED shutdown \/ (shutdown # <<>> /\ shutdown' = Tail(shutdown))
<1> USE DEF workerOnly, callVars, sendingOnly, exitOnly, closeVars
<1>1. CASE TopPoll BY <1>1 DEF TopPoll, ReadShutdown
<1>2. CASE SelectShutdown BY <1>2 DEF SelectShutdown, ReadShutdown
<1>3. CASE SelectEvent BY <1>3 DEF SelectEvent
<1>4. CASE ProcessEvent BY <1>4 DEF ProcessEvent
<1>5. CASE SelectFlush BY <1>5 DEF SelectFlush
<1>6. CASE FinalFlush BY <1>6 DEF FinalFlush
<1>7. CASE AutoFlush BY <1>7 DEF AutoFlush
<1>8. CASE RequestSucceeds BY <1>8 DEF RequestSucceeds
<1>9. CASE RequestFails BY <1>9 DEF RequestFails
<1>10. CASE Retry BY <1>10 DEF Retry
<1>11. CASE RequestRejected BY <1>11 DEF RequestRejected
<1>12. CASE Cancelled BY <1>12 DEF Cancelled
<1>13. CASE Release BY <1>13 DEF Release
<1>14. CASE EndFlush BY <1>14 DEF EndFlush
<1>15. CASE Exit BY <1>15 DEF Exit
<1>16. CASE StoppedOnExit BY <1>16 DEF StoppedOnExit
<1>17. CASE DiscardQueue BY <1>17 DEF DiscardQueue
<1>18. CASE Signal BY <1>18 DEF Signal
<1>19. CASE Panic BY <1>19 DEF Panic
<1> QED BY <1>1, <1>2, <1>3, <1>4, <1>5, <1>6, <1>7, <1>8, <1>9, <1>10, <1>11, <1>12, <1>13, <1>14,
           <1>15, <1>16, <1>17, <1>18, <1>19 DEF Worker, Run

LEMMA CloseInvWorker ==
    ASSUME CloseInv, Worker
    PROVE  CloseInv'
<1>1. CASE UNCHANGED shutdown
  BY <1>1, WorkerAndClose DEF CloseInv
<1>2. CASE shutdown # <<>> /\ shutdown' = Tail(shutdown)
  <2>1. shutdown \in Seq({"graceful", "abort"}) /\ Len(shutdown) \in Nat
    BY DEF CloseInv
  <2>2. /\ shutdown' \in Seq({"graceful", "abort"}) /\ Len(shutdown') = Len(shutdown) - 1
        /\ ToSet(shutdown') \subseteq ToSet(shutdown)
    BY <1>2, <2>1, Taken
  <2>3. Len(shutdown') <= 2 /\ (Len(shutdown) <= 1 => Len(shutdown') <= 1)
    BY <2>1, <2>2 DEF CloseInv
  <2> QED BY <1>2, <2>2, <2>3, WorkerAndClose DEF CloseInv
<1> QED BY <1>1, <1>2, WorkerAndClose

LEMMA CloseInvClose ==
    ASSUME CloseInv, Typed, NEW c \in Closers, Close(c)
    PROVE  CloseInv'
<1> USE DEF CloseInv, Place, Leading
<1>0. closed \in BOOLEAN
  BY DEF Typed
<1>1. CASE CloseSwap(c) BY <1>0, <1>1 DEF CloseSwap
<1>2. CASE CloseTakesSender(c) BY <1>2 DEF CloseTakesSender
<1>3. ASSUME NEW m \in {"graceful", "abort"}, m = "abort" => abort, Len(shutdown) <= 1, closed,
             shutdown' = Append(shutdown, m), UNCHANGED abort
      PROVE  /\ shutdown' \in Seq({"graceful", "abort"}) /\ Len(shutdown') <= 2
             /\ "abort" \in ToSet(shutdown') => abort'
             /\ shutdown = <<>> => Len(shutdown') <= 1
  <2>1. /\ shutdown' \in Seq({"graceful", "abort"}) /\ Len(shutdown') = Len(shutdown) + 1
        /\ ToSet(shutdown') = ToSet(shutdown) \cup {m} /\ Len(shutdown) \in Nat
    BY <1>3, Appended
  <2>2. Len(shutdown') <= 2 /\ (shutdown = <<>> => Len(shutdown') <= 1)
    BY <1>3, <2>1
  <2> QED BY <1>3, <2>1, <2>2
<1>4. CASE CloseAsks(c)
  <2>1. shutdown = <<>> /\ Len(shutdown) <= 1 /\ closed /\ UNCHANGED abort
    BY <1>0, <1>4 DEF CloseAsks
  <2>2. CASE ReceiverGone BY <1>4, <2>1, <2>2 DEF CloseAsks
  <2>3. CASE ~ ReceiverGone
    <3>1. /\ shutdown' \in Seq({"graceful", "abort"}) /\ Len(shutdown') <= 2
          /\ "abort" \in ToSet(shutdown') => abort' /\ Len(shutdown') <= 1
      BY <1>3, <1>4, <2>1, <2>3 DEF CloseAsks
    <3> QED BY <1>4, <2>1, <3>1 DEF CloseAsks
  <2> QED BY <2>2, <2>3
<1>5. CASE CloseSignalsAbort(c) BY <1>5 DEF CloseSignalsAbort
<1>6. CASE CloseSendsAbort(c)
  <2>1. Len(shutdown) <= 1 /\ closed /\ abort /\ UNCHANGED abort
    BY <1>0, <1>6 DEF CloseSendsAbort
  <2>2. CASE ReceiverGone BY <1>6, <2>1, <2>2 DEF CloseSendsAbort
  <2>3. CASE ~ ReceiverGone
    <3>1. /\ shutdown' \in Seq({"graceful", "abort"}) /\ Len(shutdown') <= 2
          /\ "abort" \in ToSet(shutdown') => abort'
      BY <1>3, <1>6, <2>1, <2>3 DEF CloseSendsAbort
    <3> QED BY <1>6, <2>1, <3>1 DEF CloseSendsAbort
  <2> QED BY <2>2, <2>3
<1>7. CASE CloseCompletes(c) BY <1>7 DEF CloseCompletes
<1>8. CASE CloseSecond(c) BY <1>8 DEF CloseSecond
<1> QED BY <1>1, <1>2, <1>4, <1>5, <1>6, <1>7, <1>8 DEF Close
-----------------------------------------------------------------------------
(***************************************************************************)
(* The places of the worker.                                               *)
(***************************************************************************)
LEMMA WorkerInit == Init => WorkerInv
BY DEF Init, WorkerInv, NoJob, InFlush, ReceiverGone, InLoop

(* A call of an application changes the queue, if the worker is there to   *)
(* receive, and nothing else of the worker.                                *)
LEMMA CallsAndWorker ==
    ASSUME \/ \E p \in Producers : Record(p)
           \/ \E f \in Flushers \cup Pokers : FlushCall(f)
    PROVE  /\ UNCHANGED <<closeVars, workerVars, history, senderOpen, deliveryStopped>>
           /\ UNCHANGED queue \/ ~ ReceiverGone
<1> USE DEF producerOnly, flusherOnly
<1>1. ASSUME NEW p \in Producers, Record(p)
      PROVE  /\ UNCHANGED <<closeVars, workerVars, history, senderOpen, deliveryStopped>>
             /\ UNCHANGED queue \/ ~ ReceiverGone
  BY <1>1 DEF Record, RecordChecks, RecordLoads, RecordSeesRoom, ReserveSlot, ReserveBytes,
              RollbackSlot, RecordSends
<1>2. ASSUME NEW f \in Flushers \cup Pokers, FlushCall(f)
      PROVE  /\ UNCHANGED <<closeVars, workerVars, history, senderOpen, deliveryStopped>>
             /\ UNCHANGED queue \/ ~ ReceiverGone
  BY <1>2 DEF FlushCall, FlushChecks, FlushLoads, FlushSends, FlushNotSent, FlushAnswered,
              FlushTimesOut
<1> QED BY <1>1, <1>2

LEMMA WorkerInvCalls ==
    ASSUME WorkerInv, UNCHANGED <<closeVars, workerVars, history>>,
           UNCHANGED queue \/ ~ ReceiverGone
    PROVE  WorkerInv'
BY DEF WorkerInv, closeVars, workerVars, history, ReceiverGone

LEMMA WorkerInvClose ==
    ASSUME WorkerInv, CloseInv, Typed, NEW c \in Closers, Close(c)
    PROVE  WorkerInv'
<1>1. UNCHANGED <<queue, workerVars, history>> /\ (abort => abort')
  BY DEF Close, CloseSwap, CloseTakesSender, CloseAsks, CloseSignalsAbort, CloseSendsAbort,
         CloseCompletes, CloseSecond, closeOnly
<1> QED BY <1>1 DEF WorkerInv, workerVars, history, ReceiverGone

LEMMA WorkerInvWorker ==
    ASSUME WorkerInv, Typed, CloseInv, Worker
    PROVE  WorkerInv'
<1> USE DEF WorkerInv, workerOnly, sendingOnly, exitOnly, callVars, capacityVars, history,
            InLoop, Leaving, InFlush, ReceiverGone
<1>0. /\ job \in Jobs /\ stopped \in BOOLEAN /\ abort \in BOOLEAN /\ UNCHANGED abort
      /\ worker \in InLoop \cup Leaving
  BY WorkerAndClose DEF Typed
<1>1. CASE TopPoll BY <1>0, <1>1 DEF TopPoll, ReadShutdown, AfterShutdown
<1>2. CASE SelectShutdown BY <1>0, <1>2 DEF SelectShutdown, ReadShutdown, AfterShutdown
<1>3. CASE SelectEvent
  <2>1. Head(queue).of \in Producers
    BY <1>3, Taken, MessageFacts DEF SelectEvent, Typed
  <2> QED BY <1>0, <1>3, <2>1 DEF SelectEvent, NoJob
<1>4. ASSUME NEW why \in {"flush", "batch", "auto", "final"}, NEW to \in SUBSET Flushers,
             NEW events \in Seq(Producers), BeginFlush(why, to, events),
             worker \in {"select", "received"}, UNCHANGED <<stopped, panicked>>
      PROVE  WorkerInv'
  <2>1. /\ buffer' = <<>> /\ job' \in Jobs /\ worker' \in InFlush
        /\ job'.batch = events /\ job'.why = why /\ ~ job'.cancelled /\ job'.attempt = 1
        /\ IF stopped THEN worker' = "releasing" /\ job'.todo = <<>> /\ ~ job'.ok
           ELSE /\ job'.todo = events /\ job'.ok
                /\ worker' = IF events = <<>> THEN "flushed" ELSE "sending"
    BY <1>4, Begun
  <2>2. CASE stopped BY <1>0, <1>4, <2>1, <2>2
  <2>3. CASE ~ stopped BY <1>0, <1>4, <2>1, <2>3
  <2> QED BY <1>0, <2>2, <2>3
<1>5. CASE ProcessEvent
  <2>1. PICK p \in Producers : job.batch = <<p>>
    BY <1>5 DEF ProcessEvent, NoJob
  <2>2. buffer \o job.batch \in Seq(Producers)
    BY <2>1, Joined DEF Typed
  <2>3. CASE stopped BY <1>0, <1>5, <2>3 DEF ProcessEvent, NoJob
  <2>4. CASE ~ stopped /\ Len(buffer) + 1 >= MaxPerRequest
    <3>1. /\ BeginFlush("batch", {}, buffer \o job.batch) /\ worker = "received"
          /\ UNCHANGED <<stopped, panicked>>
      BY <1>5, <2>4 DEF ProcessEvent
    <3> QED BY <1>4, <2>2, <3>1
  <2>5. CASE ~ stopped /\ ~ Len(buffer) + 1 >= MaxPerRequest
    BY <1>0, <1>5, <2>5 DEF ProcessEvent, NoJob
  <2> QED BY <1>0, <2>3, <2>4, <2>5
<1>6. CASE SelectFlush
  <2>1. buffer \in Seq(Producers) /\ {Head(queue).of} \cap Flushers \in SUBSET Flushers
    BY DEF Typed
  <2>2. /\ BeginFlush("flush", {Head(queue).of} \cap Flushers, buffer)
        /\ worker = "select" /\ UNCHANGED <<stopped, panicked>>
    BY <1>6 DEF SelectFlush
  <2> QED BY <1>4, <2>1, <2>2
<1>7. CASE FinalFlush
  <2>1. BeginFlush("final", {}, buffer) /\ worker = "select" /\ UNCHANGED <<stopped, panicked>>
    BY <1>7 DEF FinalFlush
  <2> QED BY <1>4, <2>1 DEF Typed
<1>8. CASE AutoFlush
  <2>1. BeginFlush("auto", {}, buffer) /\ worker = "select" /\ UNCHANGED <<stopped, panicked>>
    BY <1>8 DEF AutoFlush
  <2> QED BY <1>4, <2>1 DEF Typed
<1>9. ASSUME NEW outcome \in BOOLEAN, NextChunk(outcome), worker = "sending",
             UNCHANGED <<stopped, panicked, buffer>>
      PROVE  WorkerInv'
  <2>1. /\ job' \in Jobs /\ worker' \in {"releasing", "sending"} /\ job'.todo = Rest
        /\ job'.batch = job.batch /\ job'.cancelled = job.cancelled /\ job'.why = job.why
        /\ (worker' = "releasing" <=> Rest = <<>>)
    BY <1>9, ChunkEnds
  <2>2. ToSet(Rest) \subseteq ToSet(job.todo)
    BY ChunkFacts
  <2> QED BY <1>0, <1>9, <2>1, <2>2
<1>10. CASE RequestSucceeds BY <1>9, <1>10 DEF RequestSucceeds, Requested
<1>11. CASE RequestFails
  <2>1. CASE job.attempt < MaxAttempts BY <1>0, <1>11, <2>1 DEF RequestFails, Requested
  <2>2. CASE ~ job.attempt < MaxAttempts
    BY <1>9, <1>11, <2>2 DEF RequestFails, Requested
  <2> QED BY <2>1, <2>2
<1>12. CASE Retry BY <1>0, <1>12 DEF Retry, Jobs
<1>13. CASE RequestRejected BY <1>0, <1>13 DEF RequestRejected, Requested, Jobs
<1>14. CASE Cancelled BY <1>0, <1>14 DEF Cancelled, Jobs
<1>15. CASE Release BY <1>0, <1>15 DEF Release, Jobs
<1>16. CASE EndFlush BY <1>0, <1>16 DEF EndFlush, NoJob
<1>17. CASE Exit BY <1>0, <1>17 DEF Exit, NoJob
<1>18. CASE StoppedOnExit BY <1>0, <1>18 DEF StoppedOnExit
<1>19. CASE DiscardQueue BY <1>0, <1>19 DEF DiscardQueue
<1>20. CASE Signal BY <1>0, <1>20 DEF Signal
<1>21. CASE Panic BY <1>0, <1>21 DEF Panic, NoJob
<1> QED BY <1>1, <1>2, <1>3, <1>5, <1>6, <1>7, <1>8, <1>10, <1>11, <1>12, <1>13, <1>14, <1>15,
           <1>16, <1>17, <1>18, <1>19, <1>20, <1>21 DEF Worker, Run
-----------------------------------------------------------------------------
(***************************************************************************)
(* What the steps of the worker do to the places of the events.            *)
(***************************************************************************)
Counts == <<queued, retained>>

(* These steps move no event.                                              *)
Rests == TopPoll \/ SelectShutdown \/ Retry \/ EndFlush \/ StoppedOnExit \/ Signal

LEMMA Resting ==
    ASSUME Typed, WorkerInv, Rests
    PROVE  /\ UNCHANGED <<queue, buffer, QueuedEvents, Buffered, Batch, Todo, Receiving, acked,
                          offered, Counts>>
           /\ Receiving = {} /\ job'.todo = job.todo
<1> USE DEF workerOnly, sendingOnly, exitOnly, callVars, capacityVars, history
<1>1. ASSUME UNCHANGED <<queue, buffer, acked, offered, queued, retained>>, job'.batch = job.batch,
             job'.todo = job.todo, worker # "received", worker' # "received"
      PROVE  /\ UNCHANGED <<queue, buffer, QueuedEvents, Buffered, Batch, Todo, Receiving, acked,
                            offered, Counts>>
             /\ Receiving = {} /\ job'.todo = job.todo
  BY <1>1 DEF QueuedEvents, Buffered, Batch, Todo, Receiving, Counts
<1>2. CASE TopPoll BY <1>1, <1>2 DEF TopPoll, ReadShutdown, AfterShutdown
<1>3. CASE SelectShutdown BY <1>1, <1>3 DEF SelectShutdown, ReadShutdown, AfterShutdown
<1>4. CASE Retry BY <1>1, <1>4 DEF Retry, Typed, Jobs
<1>5. CASE EndFlush BY <1>1, <1>5 DEF EndFlush, WorkerInv, NoJob
<1>6. CASE StoppedOnExit BY <1>1, <1>6 DEF StoppedOnExit
<1>7. CASE Signal BY <1>1, <1>7 DEF Signal
<1> QED BY <1>2, <1>3, <1>4, <1>5, <1>6, <1>7 DEF Rests

(* The first event of the queue is received.                               *)
LEMMA Receives ==
    ASSUME Typed, WorkerInv, PlacesInv, SelectEvent
    PROVE  \E p \in QueuedEvents :
              /\ queue # <<>> /\ queue' = Tail(queue) /\ UNCHANGED buffer /\ UniqueEvents(queue')
              /\ QueuedEvents' = QueuedEvents \ {p} /\ Buffered' = Buffered
              /\ Batch = {} /\ Batch' = {p} /\ Todo = {} /\ Todo' = {} /\ job'.todo = <<>>
              /\ Receiving = {} /\ Receiving' = {p} /\ job = NoJob /\ job'.to = {}
              /\ UNCHANGED <<acked, offered, Counts>>
<1> DEFINE p == Head(queue).of
<1>1. /\ queue \in Seq(Messages) /\ queue # <<>> /\ Head(queue).kind = "event"
      /\ queue' = Tail(queue) /\ UniqueEvents(queue)
  BY DEF SelectEvent, Typed, PlacesInv
<1>2. /\ UniqueEvents(queue') /\ p \in EventsIn(queue)
      /\ EventsIn(queue') = EventsIn(queue) \ {p}
  BY <1>1, QueueShrinks
<1>3. QueuedEvents = EventsIn(queue) /\ QueuedEvents' = EventsIn(queue')
  BY DEF QueuedEvents, EventsIn
<1>4. job = NoJob
  BY DEF SelectEvent, WorkerInv, InFlush
<1>5. /\ job'.batch = <<p>> /\ job'.todo = <<>> /\ job.batch = <<>> /\ job.todo = <<>>
      /\ job'.to = {}
  BY <1>4 DEF SelectEvent, NoJob
<1>6. Batch = {} /\ Batch' = {p} /\ Todo = {} /\ Todo' = {}
  BY <1>5, Few DEF Batch, Todo
<1>7. Receiving = {} /\ Receiving' = {p}
  BY <1>6 DEF SelectEvent, Receiving, Batch
<1> QED BY <1>1, <1>2, <1>3, <1>4, <1>5, <1>6, <1>7
        DEF SelectEvent, Buffered, Counts, capacityVars, history

(* The event received is dropped, buffered or taken into a flush.          *)
LEMMA Processes ==
    ASSUME Typed, WorkerInv, PlacesInv, ProcessEvent
    PROVE  \E p \in Accepted :
              /\ UNCHANGED <<queue, QueuedEvents>> /\ p \notin QueuedEvents /\ p \notin Buffered
              /\ Batch = {p} /\ Receiving = {p} /\ Receiving' = {} /\ Todo = {}
              /\ job'.to = {} /\ job'.why # "flush"
              /\ IsInjective(buffer') /\ IsInjective(job'.todo)
              /\ UNCHANGED <<acked, offered>> /\ queued' = queued - 1
              /\ \/ /\ stopped /\ Buffered' = Buffered /\ Batch' = {} /\ Todo' = {}
                    /\ retained' = retained - BytesOf[{p}]
                 \/ /\ ~ stopped /\ Buffered' = Buffered \cup {p} /\ Batch' = {} /\ Todo' = {}
                    /\ job' = NoJob /\ UNCHANGED retained
                 \/ /\ ~ stopped /\ Buffered' = {} /\ Batch' = Buffered \cup {p} /\ Todo' = Batch'
                    /\ job'.ok /\ ~ job'.cancelled /\ job'.why # "final" /\ UNCHANGED retained
<1>1. PICK p \in Producers : job = [NoJob EXCEPT !.batch = <<p>>]
  BY DEF ProcessEvent, WorkerInv
<1>2. job.batch = <<p>> /\ job.todo = <<>>
  BY <1>1 DEF NoJob
<1>3. Batch = {p} /\ Receiving = {p} /\ Todo = {}
  BY <1>2, Few DEF ProcessEvent, Batch, Todo, Receiving
<1>4. p \in Accepted /\ p \notin QueuedEvents /\ p \notin Buffered
  BY <1>3 DEF PlacesInv
<1>5. /\ buffer \o job.batch \in Seq(Producers) /\ IsInjective(buffer \o job.batch)
      /\ ToSet(buffer \o job.batch) = Buffered \cup {p}
  BY <1>2, <1>4, Joined DEF Typed, PlacesInv, Buffered
<1>6. /\ UNCHANGED <<queue, QueuedEvents, acked, offered>> /\ queued' = queued - 1
      /\ worker = "received"
  BY DEF ProcessEvent, QueuedEvents, history
<1>7. NoJob.batch = <<>> /\ NoJob.todo = <<>> /\ NoJob.to = {} /\ NoJob.why = "none"
  BY DEF NoJob
<1>8. IsInjective(buffer)
  BY DEF PlacesInv
<1>9. CASE stopped
  <2>1. job' = NoJob /\ worker' = "top" /\ buffer' = buffer /\ retained' = retained - BytesOf[{p}]
    BY <1>3, <1>9 DEF ProcessEvent, Batch
  <2>2. Buffered' = Buffered /\ Batch' = {} /\ Todo' = {} /\ Receiving' = {}
    BY <1>7, <2>1, Few DEF Buffered, Batch, Todo, Receiving
  <2> QED BY <1>3, <1>4, <1>6, <1>7, <1>8, <1>9, <2>1, <2>2, Few
<1>10. CASE ~ stopped /\ Len(buffer) + 1 >= MaxPerRequest
  <2>1. BeginFlush("batch", {}, buffer \o job.batch) /\ UNCHANGED retained
    BY <1>10 DEF ProcessEvent
  <2> DEFINE events == buffer \o job.batch
  <2>2. events \in Seq(Producers)
    BY <1>5
  <2> HIDE DEF events
  <2>3. BeginFlush("batch", {}, events)
    BY <2>1 DEF events
  <2>4. /\ buffer' = <<>> /\ worker' \in InFlush /\ job'.batch = events
        /\ job'.todo = events /\ job'.ok /\ ~ job'.cancelled
        /\ job'.why = "batch" /\ job'.to = {}
    BY <1>10, <2>2, <2>3, Begun
  <2> USE DEF events
  <2>5. /\ Buffered' = {} /\ Batch' = Buffered \cup {p} /\ Todo' = Batch' /\ Receiving' = {}
    BY <1>5, <2>4, Few DEF Buffered, Batch, Todo, Receiving, InFlush
  <2> QED BY <1>3, <1>4, <1>5, <1>6, <1>10, <2>1, <2>4, <2>5, Few
<1>11. CASE ~ stopped /\ ~ Len(buffer) + 1 >= MaxPerRequest
  <2>1. job' = NoJob /\ worker' = "top" /\ buffer' = buffer \o job.batch /\ UNCHANGED retained
    BY <1>11 DEF ProcessEvent
  <2>2. Buffered' = Buffered \cup {p} /\ Batch' = {} /\ Todo' = {} /\ Receiving' = {}
    BY <1>5, <1>7, <2>1, Few DEF Buffered, Batch, Todo, Receiving
  <2> QED BY <1>3, <1>4, <1>5, <1>6, <1>7, <1>11, <2>1, <2>2, Few
<1> QED BY <1>9, <1>10, <1>11

(* A flush takes the buffer.                                               *)
LEMMA TakesBuffer ==
    ASSUME Typed, WorkerInv, PlacesInv, SelectFlush \/ FinalFlush \/ AutoFlush
    PROVE  /\ QueuedEvents' = QueuedEvents /\ Buffered' = {} /\ Batch = {} /\ Batch' = Buffered
           /\ Todo = {} /\ Todo' = (IF stopped THEN {} ELSE Buffered)
           /\ Receiving = {} /\ Receiving' = {} /\ job = NoJob
           /\ UniqueEvents(queue') /\ IsInjective(buffer') /\ IsInjective(job'.todo)
           /\ UNCHANGED <<acked, offered, Counts, stopped, unreported, reported>>
           /\ worker = "select" /\ worker' \in InFlush
           /\ ~ job'.cancelled /\ (job'.ok <=> ~ stopped) /\ buffer' = <<>>
           /\ job'.why = "final" => FinalFlush
           /\ SelectFlush \/ (UNCHANGED queue /\ job'.to = {} /\ job'.why # "flush")
           /\ SelectFlush =>
                 /\ queue # <<>> /\ queue' = Tail(queue) /\ Head(queue) = Flush(Head(queue).of)
                 /\ Head(queue).of \in Flushers \cup Pokers
                 /\ job'.to = {Head(queue).of} \cap Flushers
<1>1. /\ queue \in Seq(Messages) /\ UniqueEvents(queue) /\ IsInjective(buffer)
      /\ buffer \in Seq(Producers) /\ worker = "select" /\ job = NoJob /\ stopped \in BOOLEAN
  BY DEF Typed, PlacesInv, SelectFlush, FinalFlush, AutoFlush, WorkerInv, InFlush
<1>2. UNCHANGED <<acked, offered, Counts, stopped, unreported, reported>>
  BY DEF SelectFlush, FinalFlush, AutoFlush, history, capacityVars, Counts
<1>3. QueuedEvents = EventsIn(queue) /\ QueuedEvents' = EventsIn(queue')
  BY DEF QueuedEvents, EventsIn
<1>4. NoJob.batch = <<>> /\ NoJob.todo = <<>>
  BY DEF NoJob
<1>5. Batch = {} /\ Todo = {} /\ Receiving = {}
  BY <1>1, <1>4, Few DEF Batch, Todo, Receiving
<1>6. ASSUME NEW why \in {"flush", "batch", "auto", "final"}, NEW to \in SUBSET Flushers,
             BeginFlush(why, to, buffer)
      PROVE  /\ Buffered' = {} /\ Batch' = Buffered /\ Receiving' = {}
             /\ Todo' = (IF stopped THEN {} ELSE Buffered)
             /\ IsInjective(buffer') /\ IsInjective(job'.todo)
             /\ worker' \in InFlush /\ ~ job'.cancelled /\ (job'.ok <=> ~ stopped)
             /\ buffer' = <<>> /\ job'.why = why /\ job'.to = to
  <2>1. /\ buffer' = <<>> /\ worker' \in InFlush /\ job'.batch = buffer /\ job'.why = why
        /\ job'.to = to /\ ~ job'.cancelled
        /\ IF stopped THEN job'.todo = <<>> /\ ~ job'.ok ELSE job'.todo = buffer /\ job'.ok
    BY <1>1, <1>6, Begun
  <2> QED BY <1>1, <2>1, Few DEF Buffered, Batch, Todo, Receiving, InFlush
<1>7. CASE SelectFlush
  <2>1. /\ BeginFlush("flush", {Head(queue).of} \cap Flushers, buffer)
        /\ {Head(queue).of} \cap Flushers \in SUBSET Flushers
        /\ queue # <<>> /\ queue' = Tail(queue) /\ Head(queue).kind = "flush"
    BY <1>7 DEF SelectFlush
  <2>2. /\ UniqueEvents(queue') /\ QueuedEvents' = QueuedEvents
        /\ Head(queue) = Flush(Head(queue).of) /\ Head(queue).of \in Flushers \cup Pokers
    BY <1>1, <1>3, <2>1, QueueShrinks
  <2>3. "flush" \in {"flush", "batch", "auto", "final"}
    OBVIOUS
  <2> QED BY <1>1, <1>2, <1>5, <1>6, <1>7, <2>1, <2>2, <2>3
<1>8. CASE FinalFlush
  <2>1. BeginFlush("final", {}, buffer) /\ UNCHANGED queue
    BY <1>8 DEF FinalFlush
  <2>2. ~ SelectFlush
    BY <1>8 DEF FinalFlush, SelectFlush
  <2> QED BY <1>1, <1>2, <1>3, <1>5, <1>6, <1>8, <2>1, <2>2
<1>9. CASE AutoFlush
  <2>1. BeginFlush("auto", {}, buffer) /\ UNCHANGED queue
    BY <1>9 DEF AutoFlush
  <2>2. ~ SelectFlush
    BY <1>9 DEF AutoFlush, SelectFlush
  <2> QED BY <1>1, <1>2, <1>3, <1>5, <1>6, <1>9, <2>1, <2>2
<1> QED BY <1>7, <1>8, <1>9

(* A request, and what it means for the events in it.                      *)
Sends == RequestSucceeds \/ RequestFails \/ RequestRejected \/ Cancelled

LEMMA Sending ==
    ASSUME Typed, WorkerInv, PlacesInv, Sends
    PROVE  /\ UNCHANGED <<queue, buffer, QueuedEvents, Buffered, Batch, Counts, unreported, reported>>
           /\ Receiving = {} /\ Receiving' = {} /\ IsInjective(job'.todo)
           /\ Todo' \subseteq Todo /\ worker \in InFlush /\ worker' \in InFlush
           /\ job'.why = job.why /\ job'.to = job.to /\ (job'.ok => job.ok)
           /\ \/ \E sent \in SUBSET Todo :
                    /\ acked' = acked \cup sent /\ offered' = offered \cup sent
                    /\ Todo' = Todo \ sent /\ (job'.ok <=> job.ok)
                    /\ UNCHANGED stopped /\ job'.cancelled = job.cancelled
              \/ \E sent \in SUBSET Todo :
                    /\ UNCHANGED acked /\ offered' = offered \cup sent
                    /\ Todo \ sent \subseteq Todo' /\ (job'.ok => Todo' = Todo)
                    /\ UNCHANGED stopped /\ job'.cancelled = job.cancelled
              \/ /\ UNCHANGED acked /\ stopped' /\ Todo' = {}
              \/ /\ UNCHANGED <<acked, offered>> /\ job'.cancelled /\ Todo' = {} /\ abort
<1> DEFINE sent == ToSet(Chunk)
<1>1. /\ job \in Jobs /\ worker \in {"sending", "retrying"} /\ IsInjective(job.todo)
  BY DEF Typed, PlacesInv, Sends, RequestSucceeds, RequestFails, RequestRejected, Cancelled, Requested
<1>2. UNCHANGED <<queue, buffer, QueuedEvents, Buffered, Counts, unreported, reported>>
  BY DEF Sends, RequestSucceeds, RequestFails, RequestRejected, Cancelled, sendingOnly,
         capacityVars, Counts, QueuedEvents, Buffered
<1>3. /\ Todo = sent \cup ToSet(Rest) /\ sent \cap ToSet(Rest) = {} /\ IsInjective(Rest)
      /\ sent \subseteq Producers
  BY <1>1, ChunkFacts DEF Todo
<1>4. Todo \ sent = ToSet(Rest) /\ sent \in SUBSET Todo
  BY <1>3
<1>5. ASSUME NEW outcome \in BOOLEAN, NextChunk(outcome)
      PROVE  /\ Batch' = Batch /\ Receiving' = {} /\ worker' \in InFlush
             /\ IsInjective(job'.todo) /\ Todo' = Todo \ sent
             /\ job'.why = job.why /\ job'.to = job.to /\ (job'.ok <=> job.ok /\ outcome)
             /\ job'.cancelled = job.cancelled
  <2>1. /\ worker' \in {"releasing", "sending"} /\ job'.todo = Rest /\ job'.batch = job.batch
        /\ job'.cancelled = job.cancelled /\ job'.why = job.why /\ job'.to = job.to
        /\ (job'.ok <=> job.ok /\ outcome)
    BY <1>5, ChunkEnds
  <2> QED BY <1>3, <1>4, <2>1 DEF Batch, Todo, Receiving, InFlush
<1>6. Receiving = {} /\ worker \in InFlush
  BY <1>1 DEF Receiving, InFlush
<1>7. CASE RequestSucceeds
  <2>1. /\ NextChunk(TRUE) /\ acked' = acked \cup sent /\ offered' = offered \cup sent
        /\ UNCHANGED stopped
    BY <1>7 DEF RequestSucceeds, Requested
  <2> HIDE DEF sent
  <2>2. /\ Batch' = Batch /\ Receiving' = {} /\ worker' \in InFlush
        /\ IsInjective(job'.todo) /\ Todo' = Todo \ sent
        /\ job'.why = job.why /\ job'.to = job.to /\ (job'.ok <=> job.ok)
        /\ job'.cancelled = job.cancelled
    BY <1>5, <2>1
  <2> QED BY <1>2, <1>4, <1>6, <2>1, <2>2
<1>8. CASE RequestFails
  <2>1. UNCHANGED acked /\ offered' = offered \cup sent /\ UNCHANGED stopped
    BY <1>8 DEF RequestFails, Requested
  <2>2. CASE job.attempt < MaxAttempts
    <3>1. UNCHANGED job /\ worker' = "retrying"
      BY <1>8, <2>2 DEF RequestFails
    <3>2. Todo' = Todo /\ Batch' = Batch /\ Receiving' = {} /\ worker' \in InFlush
      BY <3>1 DEF Todo, Batch, Receiving, InFlush
    <3> HIDE DEF sent
    <3>3. Todo \ sent \subseteq Todo'
      BY <3>2
    <3> QED BY <1>1, <1>2, <1>4, <1>6, <2>1, <3>1, <3>2, <3>3
  <2>3. CASE ~ job.attempt < MaxAttempts
    <3>1. NextChunk(FALSE)
      BY <1>8, <2>3 DEF RequestFails
    <3> HIDE DEF sent
    <3>2. /\ Batch' = Batch /\ Receiving' = {} /\ worker' \in InFlush
          /\ IsInjective(job'.todo) /\ Todo' = Todo \ sent
          /\ job'.why = job.why /\ job'.to = job.to /\ ~ job'.ok
          /\ job'.cancelled = job.cancelled
      BY <1>5, <3>1
    <3> QED BY <1>2, <1>4, <1>6, <2>1, <3>2
  <2> QED BY <2>2, <2>3
<1>9. ASSUME job'.todo = <<>>, job'.batch = job.batch, worker' = "releasing"
      PROVE  Batch' = Batch /\ Receiving' = {} /\ worker' \in InFlush /\ IsInjective(job'.todo)
             /\ Todo' = {} /\ Todo' \subseteq Todo
  BY <1>9, Few DEF Batch, Receiving, InFlush, Todo
<1>10. CASE RequestRejected
  <2>1. /\ job'.todo = <<>> /\ job'.batch = job.batch /\ worker' = "releasing"
        /\ job'.why = job.why /\ job'.to = job.to /\ ~ job'.ok /\ stopped' /\ UNCHANGED acked
    BY <1>1, <1>10 DEF RequestRejected, Jobs
  <2> QED BY <1>2, <1>6, <1>9, <2>1
<1>11. CASE Cancelled
  <2>1. /\ job'.todo = <<>> /\ job'.batch = job.batch /\ worker' = "releasing"
        /\ job'.why = job.why /\ job'.to = job.to /\ ~ job'.ok /\ job'.cancelled /\ abort
        /\ UNCHANGED <<acked, offered>>
    BY <1>1, <1>11 DEF Cancelled, Jobs
  <2> QED BY <1>2, <1>6, <1>9, <2>1
<1> QED BY <1>7, <1>8, <1>10, <1>11 DEF Sends

(* The events of a flush, of the buffer, of the queue and of a panicking   *)
(* worker are dropped.                                                     *)
LEMMA Releasing ==
    ASSUME Typed, WorkerInv, Release
    PROVE  /\ UNCHANGED <<queue, buffer, QueuedEvents, Buffered, Todo, acked, offered, queued>>
           /\ Receiving = {} /\ Receiving' = {} /\ Batch' = {} /\ job'.todo = job.todo
           /\ retained' = retained - BytesOf[Batch]
           /\ worker = "releasing" /\ worker' = "flushed" /\ job'.cancelled = job.cancelled
           /\ job'.ok = job.ok /\ job'.why = job.why /\ job'.to = job.to
           /\ UNCHANGED <<stopped, unreported, reported>>
BY Few DEF Release, Typed, Jobs, QueuedEvents, Buffered, Todo, Receiving, Batch, history

LEMMA Exiting ==
    ASSUME WorkerInv, Exit
    PROVE  /\ UNCHANGED <<queue, QueuedEvents, Batch, Todo, acked, offered, queued, job>>
           /\ Receiving = {} /\ Receiving' = {} /\ Buffered' = {} /\ buffer' = <<>>
           /\ Batch = {} /\ Todo = {} /\ retained' = retained - BytesOf[Buffered]
           /\ worker = "exiting" /\ worker' = "stopping"
<1>1. job = NoJob /\ NoJob.batch = <<>> /\ NoJob.todo = <<>>
  BY DEF WorkerInv, Exit, InFlush, NoJob
<1> QED BY <1>1, Few
        DEF Exit, exitOnly, QueuedEvents, Buffered, Todo, Receiving, Batch, history

LEMMA Discarding ==
    ASSUME WorkerInv, DiscardQueue
    PROVE  /\ UNCHANGED <<buffer, Buffered, Batch, Todo, acked, offered, job>>
           /\ Receiving = {} /\ Receiving' = {} /\ QueuedEvents' = {} /\ queue' = <<>>
           /\ Buffered = {} /\ Batch = {} /\ Todo = {}
           /\ queued' = queued - Cardinality(QueuedEvents)
           /\ retained' = retained - BytesOf[QueuedEvents]
           /\ worker = "discarding" /\ worker' = "signal"
<1>1. job = NoJob /\ NoJob.batch = <<>> /\ NoJob.todo = <<>> /\ buffer = <<>>
  BY DEF WorkerInv, DiscardQueue, InFlush, NoJob
<1>2. QueuedEvents' = {}
  BY QueuedAreIn, Few DEF DiscardQueue, QueuedEvents
<1> QED BY <1>1, <1>2, Few DEF DiscardQueue, Buffered, Todo, Receiving, Batch, history

LEMMA Panicking ==
    ASSUME WorkerInv, Panic
    PROVE  /\ UNCHANGED <<queue, QueuedEvents, acked, offered>> /\ worker \in InLoop
           /\ Receiving' = {} /\ Buffered' = {} /\ Batch' = {} /\ Todo' = {}
           /\ buffer' = <<>> /\ job' = NoJob /\ job'.todo = <<>>
           /\ queued' = IF worker = "received" THEN queued - 1 ELSE queued
           /\ retained' = retained - BytesOf[Buffered] - BytesOf[Batch]
           /\ worker' = "stopping" /\ panicked'
<1>1. NoJob.batch = <<>> /\ NoJob.todo = <<>>
  BY DEF NoJob
<1> QED BY <1>1, Few DEF Panic, InLoop, QueuedEvents, Buffered, Todo, Receiving, Batch, history
-----------------------------------------------------------------------------
(***************************************************************************)
(* What the calls of an application do to the places of the events.        *)
(***************************************************************************)
(* A call that accepts its event puts it into the queue; the others leave  *)
(* the places alone.                                                       *)
LEMMA Recording ==
    ASSUME Typed, PlacesInv, NEW p \in Producers, Record(p)
    PROVE  /\ UNCHANGED <<Buffered, Batch, Todo, Receiving, flusher, reply, result, covered>>
           /\ UniqueEvents(queue') /\ producer[p] \notin {"accepted", "rejected"}
           /\ \/ /\ UNCHANGED <<queue, QueuedEvents, Accepted>>
              \/ /\ producer[p] = "send" /\ ~ ReceiverGone /\ producer' = [producer EXCEPT ![p] = "accepted"]
                 /\ queue' = Append(queue, Event(p)) /\ Len(queue) < MaxEvents
                 /\ QueuedEvents' = QueuedEvents \cup {p} /\ Accepted' = Accepted \cup {p}
                 /\ UNCHANGED Counts
           /\ p \notin Accepted
<1>1. /\ UNCHANGED <<workerVars, flusher, reply, result, covered>>
      /\ producer[p] \notin {"accepted", "rejected"}
  BY DEF Record, RecordChecks, RecordLoads, RecordSeesRoom, ReserveSlot, ReserveBytes,
         RollbackSlot, RecordSends, producerOnly
<1>2. UNCHANGED <<Buffered, Batch, Todo, Receiving>>
  BY <1>1 DEF Buffered, Batch, Todo, Receiving, workerVars
<1>3. p \notin Accepted
  BY <1>1 DEF Accepted
<1>4. CASE RecordSends(p) /\ ~ (ReceiverGone \/ Len(queue) >= MaxEvents)
  <2>1. /\ queue' = Append(queue, Event(p)) /\ producer' = [producer EXCEPT ![p] = "accepted"]
        /\ producer[p] = "send" /\ UNCHANGED Counts
    BY <1>4 DEF RecordSends, Go, Counts, capacityVars
  <2>2. Accepted' = Accepted \cup {p}
    BY <2>1 DEF Accepted, Typed
  <2>3. /\ Event(p) \in Messages /\ Event(p).kind = "event" /\ Event(p).of = p
        /\ queue \in Seq(Messages) /\ UniqueEvents(queue)
    BY MessageFacts DEF Messages, Typed, PlacesInv
  <2>4. Event(p) \notin ToSet(queue)
    BY <1>3 DEF PlacesInv, QueuedEvents
  <2>5. UniqueEvents(queue') /\ EventsIn(queue') = EventsIn(queue) \cup {p}
    BY <2>1, <2>3, <2>4, QueueGrows
  <2>6. QueuedEvents' = QueuedEvents \cup {p}
    BY <2>5 DEF QueuedEvents, EventsIn
  <2>7. Len(queue) < MaxEvents
    <3>1. Len(queue) \in Nat /\ MaxEvents \in Nat
      BY <2>3, LimitsAssumption
    <3> QED BY <1>4, <3>1
  <2> QED BY <1>1, <1>2, <1>3, <1>4, <2>1, <2>2, <2>5, <2>6, <2>7
<1>5. CASE ~ (RecordSends(p) /\ ~ (ReceiverGone \/ Len(queue) >= MaxEvents))
  <2>1. UNCHANGED queue /\ \E place \in {"load", "check", "slot", "bytes", "rollback", "send", "rejected"} :
           producer' = [producer EXCEPT ![p] = place]
    BY <1>5 DEF Record, RecordChecks, RecordLoads, RecordSeesRoom, ReserveSlot, ReserveBytes,
                RollbackSlot, RecordSends, Go
  <2>2. Accepted' = Accepted
    BY <1>1, <2>1 DEF Accepted, Typed
  <2> QED BY <1>1, <1>2, <1>3, <2>1, <2>2 DEF QueuedEvents, PlacesInv
<1> QED BY <1>4, <1>5

(* A flush call sends a message that is no event.                          *)
LEMMA Flushing ==
    ASSUME Typed, PlacesInv, NEW f \in Flushers \cup Pokers, FlushCall(f)
    PROVE  /\ UNCHANGED <<Buffered, Batch, Todo, Receiving, QueuedEvents, Accepted, Counts, producer, reply>>
           /\ UniqueEvents(queue')
           /\ \/ UNCHANGED queue
              \/ /\ FlushSends(f) /\ queue' = Append(queue, Flush(f)) /\ ~ ReceiverGone
                 /\ queue' # <<>>
<1>1. /\ UNCHANGED <<workerVars, producer, Counts, reply>>
      /\ UNCHANGED queue \/ (FlushSends(f) /\ queue' = Append(queue, Flush(f)) /\ ~ ReceiverGone)
  BY DEF FlushCall, FlushChecks, FlushLoads, FlushSends, FlushNotSent, FlushAnswered,
         FlushTimesOut, flusherOnly, capacityVars, Counts
<1>2. UNCHANGED <<Buffered, Batch, Todo, Receiving, Accepted>>
  BY <1>1 DEF Buffered, Batch, Todo, Receiving, Accepted, workerVars
<1>3. CASE UNCHANGED queue BY <1>1, <1>2, <1>3 DEF QueuedEvents, PlacesInv
<1>4. CASE queue' = Append(queue, Flush(f))
  <2>1. /\ Flush(f) \in Messages /\ Flush(f).kind # "event"
        /\ queue \in Seq(Messages) /\ UniqueEvents(queue)
    BY MessageFacts DEF Messages, Typed, PlacesInv
  <2>2. UniqueEvents(queue') /\ EventsIn(queue') = EventsIn(queue) /\ queue' # <<>>
    BY <1>4, <2>1, QueueGrows
  <2> QED BY <1>1, <1>2, <1>4, <2>2 DEF QueuedEvents, EventsIn
<1> QED BY <1>1, <1>3, <1>4

(* A close leaves them all alone.                                          *)
LEMMA Closing ==
    ASSUME NEW c \in Closers, Close(c)
    PROVE  /\ UNCHANGED <<producer, queue, Counts, workerVars, history, flusher, reply, result, covered>>
           /\ UNCHANGED <<Buffered, Batch, Todo, Receiving, QueuedEvents, Accepted>>
           /\ (abort => abort') /\ (senderOpen' => senderOpen)
<1>1. /\ UNCHANGED <<producer, queue, Counts, workerVars, history, flusher, reply, result, covered>>
      /\ (abort => abort') /\ (senderOpen' => senderOpen)
  BY DEF Close, CloseSwap, CloseTakesSender, CloseAsks, CloseSignalsAbort, CloseSendsAbort,
         CloseCompletes, CloseSecond, closeOnly, callVars, capacityVars, Counts
<1> QED BY <1>1 DEF Buffered, Batch, Todo, Receiving, QueuedEvents, Accepted, workerVars

(* A step of the worker accepts nothing.                                   *)
LEMMA Working ==
    ASSUME Worker
    PROVE  /\ UNCHANGED <<producer, Accepted, flusher, result, covered, abort, senderOpen>>
           /\ \/ Rests \/ Sends \/ SelectEvent \/ ProcessEvent \/ Release \/ Exit \/ DiscardQueue
              \/ Panic \/ SelectFlush \/ FinalFlush \/ AutoFlush
BY WorkerAndClose DEF Worker, Run, Rests, Sends, Accepted

-----------------------------------------------------------------------------
(***************************************************************************)
(* The places of the events.                                               *)
(***************************************************************************)
LEMMA PlacesInit == Init => PlacesInv
BY Few DEF Init, PlacesInv, UniqueEvents, QueuedEvents, Buffered, Batch, NoJob

LEMMA PlacesCalls ==
    ASSUME Typed, PlacesInv,
           \/ \E p \in Producers : Record(p)
           \/ \E f \in Flushers \cup Pokers : FlushCall(f)
           \/ \E c \in Closers : Close(c)
    PROVE  PlacesInv'
<1>0. UNCHANGED <<buffer, job>>
  BY CallsAndWorker, Closing DEF workerVars
<1>1. ASSUME NEW p \in Producers, Record(p) PROVE PlacesInv'
  <2>1. /\ UNCHANGED <<Buffered, Batch>> /\ UniqueEvents(queue') /\ p \notin Accepted
        /\ \/ UNCHANGED <<QueuedEvents, Accepted>>
           \/ QueuedEvents' = QueuedEvents \cup {p} /\ Accepted' = Accepted \cup {p}
    BY <1>1, Recording
  <2> QED BY <1>0, <2>1 DEF PlacesInv
<1>2. ASSUME NEW f \in Flushers \cup Pokers, FlushCall(f) PROVE PlacesInv'
  BY <1>0, <1>2, Flushing DEF PlacesInv
<1>3. ASSUME NEW c \in Closers, Close(c) PROVE PlacesInv'
  BY <1>0, <1>3, Closing DEF PlacesInv
<1> QED BY <1>1, <1>2, <1>3

LEMMA PlacesWorker ==
    ASSUME Typed, WorkerInv, PlacesInv, Worker
    PROVE  PlacesInv'
<1>0. UNCHANGED Accepted
  BY Working
<1>1. CASE Rests BY <1>0, <1>1, Resting DEF PlacesInv
<1>2. CASE SelectEvent
  <2>1. PICK p \in QueuedEvents :
           /\ UNCHANGED buffer /\ UniqueEvents(queue')
           /\ QueuedEvents' = QueuedEvents \ {p} /\ Buffered' = Buffered
           /\ Batch' = {p} /\ job'.todo = <<>>
    BY <1>2, Receives
  <2> QED BY <1>0, <2>1, Few DEF PlacesInv
<1>3. CASE ProcessEvent
  <2>1. PICK p \in Accepted :
           /\ UNCHANGED <<queue, QueuedEvents>> /\ p \notin QueuedEvents /\ p \notin Buffered
           /\ IsInjective(buffer') /\ IsInjective(job'.todo)
           /\ \/ Buffered' = Buffered /\ Batch' = {}
              \/ Buffered' = Buffered \cup {p} /\ Batch' = {}
              \/ Buffered' = {} /\ Batch' = Buffered \cup {p}
    BY <1>3, Processes
  <2> QED BY <1>0, <2>1 DEF PlacesInv
<1>4. CASE SelectFlush \/ FinalFlush \/ AutoFlush
  <2>1. /\ QueuedEvents' = QueuedEvents /\ Buffered' = {} /\ Batch' = Buffered
        /\ UniqueEvents(queue') /\ IsInjective(buffer') /\ IsInjective(job'.todo)
    BY <1>4, TakesBuffer
  <2> QED BY <1>0, <2>1 DEF PlacesInv
<1>5. CASE Sends
  <2>1. /\ UNCHANGED <<queue, buffer, QueuedEvents, Buffered, Batch>> /\ IsInjective(job'.todo)
    BY <1>5, Sending
  <2> QED BY <1>0, <2>1 DEF PlacesInv
<1>6. CASE Release
  <2>1. UNCHANGED <<queue, buffer, QueuedEvents, Buffered>> /\ Batch' = {} /\ job'.todo = job.todo
    BY <1>6, Releasing
  <2> QED BY <1>0, <2>1 DEF PlacesInv
<1>7. CASE Exit
  <2>1. UNCHANGED <<queue, QueuedEvents, Batch, job>> /\ Buffered' = {} /\ buffer' = <<>>
    BY <1>7, Exiting
  <2> QED BY <1>0, <2>1, Few DEF PlacesInv
<1>8. CASE DiscardQueue
  <2>1. /\ UNCHANGED <<buffer, Buffered, Batch, job>> /\ QueuedEvents' = {} /\ queue' = <<>>
    BY <1>8, Discarding
  <2>2. UniqueEvents(queue')
    BY <2>1 DEF UniqueEvents
  <2> QED BY <1>0, <2>1, <2>2 DEF PlacesInv
<1>9. CASE Panic
  <2>1. /\ UNCHANGED <<queue, QueuedEvents>> /\ Buffered' = {} /\ Batch' = {}
        /\ buffer' = <<>> /\ job'.todo = <<>>
    BY <1>9, Panicking
  <2> QED BY <1>0, <2>1, Few DEF PlacesInv
<1> QED BY <1>1, <1>2, <1>3, <1>4, <1>5, <1>6, <1>7, <1>8, <1>9, Working
-----------------------------------------------------------------------------
(***************************************************************************)
(* The counters are measures of what holds a slot and what holds bytes.    *)
(***************************************************************************)
Reserving == {p \in Producers : producer[p] \in {"bytes", "rollback", "send"}}
Paying == {p \in Producers : producer[p] = "send"}

LEMMA HoldingFacts ==
    ASSUME Typed
    PROVE  /\ HoldingSlot = Reserving \cup QueuedEvents \cup Receiving
           /\ HoldingBytes = Paying \cup QueuedEvents \cup Buffered \cup Batch
           /\ HoldingSlot \in SUBSET Producers /\ HoldingBytes \in SUBSET Producers
           /\ QueuedEvents \in SUBSET Producers /\ Receiving \in SUBSET Producers
           /\ Buffered \in SUBSET Producers /\ Batch \in SUBSET Producers
           /\ Receiving \subseteq Batch /\ Paying \subseteq Reserving
           /\ Reserving \cap Accepted = {} /\ Paying \cap Accepted = {}
<1>1. Buffered \in SUBSET Producers /\ Batch \in SUBSET Producers
  BY Few DEF Buffered, Batch, Typed, Jobs
<1>2. Receiving \subseteq Batch
  BY DEF Receiving, Batch
<1> QED BY <1>1, <1>2 DEF HoldingSlot, HoldingBytes, Reserving, Paying, QueuedEvents, Buffered,
                          Batch, Accepted

(* Where the counters are after a step, from where the events are.         *)
LEMMA CountedBy ==
    ASSUME Typed, CountersInv, queued' \in Int, retained' \in Int,
           queued' = Cardinality(HoldingSlot'), queued' <= queued \/ queued' <= MaxEvents,
           retained' = BytesOf[HoldingBytes'], retained' <= retained \/ retained' <= MaxBytes
    PROVE  CountersInv'
<1>1. /\ queued \in Nat /\ retained \in Nat /\ MaxEvents \in Nat /\ MaxBytes \in Nat
      /\ queued <= MaxEvents /\ retained <= MaxBytes
  BY HoldingFacts, Slots, Bytes, LimitsAssumption DEF CountersInv
<1>2. queued' <= MaxEvents /\ retained' <= MaxBytes
  BY <1>1
<1> QED BY <1>2 DEF CountersInv

LEMMA CountersInit == Init => CountersInv
<1>1. ASSUME Init PROVE HoldingSlot = {} /\ HoldingBytes = {}
  BY <1>1, Few DEF Init, HoldingSlot, HoldingBytes, QueuedEvents, Receiving, NoJob
<1>2. Cardinality({}) = 0 /\ BytesOf[{}] = 0 /\ 0 <= MaxEvents /\ 0 <= MaxBytes
  BY Slots, Bytes, LimitsAssumption
<1> QED BY <1>1, <1>2 DEF Init, CountersInv

(* A step that moves nothing from one holder to another.                   *)
LEMMA NothingHeld ==
    ASSUME CountersInv, UNCHANGED <<Counts, HoldingSlot, HoldingBytes>>
    PROVE  CountersInv'
BY DEF CountersInv, Counts

(* The slot and the bytes of one event.                                    *)
LEMMA OneEvent ==
    ASSUME NEW s \in SUBSET Producers, NEW p \in Producers
    PROVE  /\ p \notin s => /\ Cardinality(s \cup {p}) = Cardinality(s) + 1
                            /\ BytesOf[s \cup {p}] = BytesOf[s] + SizeOf[p]
           /\ p \in s => /\ Cardinality(s \ {p}) = Cardinality(s) - 1
                         /\ BytesOf[s \ {p}] = BytesOf[s] - SizeOf[p]
           /\ SizeOf[p] \in Nat /\ SizeOf[p] = BytesOf[{p}]
<1>1. {p} \in SUBSET Producers /\ SizeOf[p] = BytesOf[{p}]
  BY DEF SizeOf
<1>2. SizeOf[p] \in Nat
  BY <1>1, Bytes
<1>3. p \notin s => BytesOf[s \cup {p}] = BytesOf[s] + SizeOf[p]
  <2>1. p \notin s => s \cap {p} = {}
    OBVIOUS
  <2> QED BY <1>1, <2>1, Bytes
<1>4. p \in s => BytesOf[s \ {p}] = BytesOf[s] - SizeOf[p]
  <2>1. p \in s => {p} \subseteq s
    OBVIOUS
  <2> QED BY <1>1, <2>1, Bytes
<1> QED BY <1>1, <1>2, <1>3, <1>4, Slots

LEMMA CountersRecord ==
    ASSUME Typed, Typed', PlacesInv, CountersInv, NEW p \in Producers, Record(p)
    PROVE  CountersInv'
<1>0. /\ queued = Cardinality(HoldingSlot) /\ queued \in Nat /\ queued <= MaxEvents
      /\ retained = BytesOf[HoldingBytes] /\ retained \in Nat /\ retained <= MaxBytes
      /\ MaxEvents \in Nat /\ MaxBytes \in Nat
  BY HoldingFacts, Slots, Bytes, LimitsAssumption DEF CountersInv
<1>1. /\ p \notin Accepted /\ UNCHANGED <<Buffered, Batch, Receiving>>
      /\ \/ UNCHANGED QueuedEvents
         \/ /\ producer[p] = "send" /\ producer' = [producer EXCEPT ![p] = "accepted"]
            /\ QueuedEvents' = QueuedEvents \cup {p} /\ UNCHANGED Counts
  BY Recording
<1>2. p \notin QueuedEvents /\ p \notin Buffered /\ p \notin Batch /\ p \notin Receiving
  BY <1>1, HoldingFacts DEF PlacesInv
<1>3. /\ HoldingSlot = Reserving \cup QueuedEvents \cup Receiving
      /\ HoldingBytes = Paying \cup QueuedEvents \cup Buffered \cup Batch
      /\ HoldingSlot' = Reserving' \cup QueuedEvents' \cup Receiving'
      /\ HoldingBytes' = Paying' \cup QueuedEvents' \cup Buffered' \cup Batch'
  BY HoldingFacts DEF HoldingSlot, HoldingBytes, Reserving, Paying, Buffered, Batch
<1>10. HoldingSlot \in SUBSET Producers /\ HoldingBytes \in SUBSET Producers
  BY HoldingFacts
<1>4. CASE RecordChecks(p) \/ RecordLoads(p) \/ RecordSeesRoom(p)
  <2>1. /\ UNCHANGED <<queue, Counts>> /\ producer[p] \in {"idle", "load", "check"}
        /\ \E place \in {"load", "check", "slot", "rejected"} :
              producer' = [producer EXCEPT ![p] = place]
    BY <1>4 DEF RecordChecks, RecordLoads, RecordSeesRoom, Go, capacityVars, Counts
  <2>2. Reserving' = Reserving /\ Paying' = Paying /\ QueuedEvents' = QueuedEvents
    BY <2>1 DEF Reserving, Paying, QueuedEvents, Typed
  <2>3. HoldingSlot' = HoldingSlot /\ HoldingBytes' = HoldingBytes
    BY <1>1, <1>3, <2>2
  <2> QED BY <2>1, <2>3, NothingHeld
<1>5. CASE ReserveSlot(p)
  <2>1. QueuedEvents' = QueuedEvents /\ UNCHANGED retained /\ producer[p] = "slot"
    BY <1>5 DEF ReserveSlot, QueuedEvents
  <2>2. CASE queued + 1 > MaxEvents
    <3>1. producer' = [producer EXCEPT ![p] = "rejected"] /\ UNCHANGED queued
      BY <1>5, <2>2 DEF ReserveSlot, Go
    <3>2. Reserving' = Reserving /\ Paying' = Paying
      BY <2>1, <3>1 DEF Reserving, Paying, Typed
    <3>3. HoldingSlot' = HoldingSlot /\ HoldingBytes' = HoldingBytes
      BY <1>1, <1>3, <2>1, <3>2
    <3> QED BY <2>1, <3>1, <3>3, NothingHeld DEF Counts
  <2>3. CASE ~ queued + 1 > MaxEvents
    <3>1. producer' = [producer EXCEPT ![p] = "bytes"] /\ queued' = queued + 1
      BY <1>5, <2>3 DEF ReserveSlot, Go
    <3>2. Reserving' = Reserving \cup {p} /\ Paying' = Paying /\ p \notin Reserving
      BY <2>1, <3>1 DEF Reserving, Paying, Typed
    <3>3. HoldingSlot' = HoldingSlot \cup {p} /\ p \notin HoldingSlot /\ HoldingBytes' = HoldingBytes
      BY <1>1, <1>2, <1>3, <2>1, <3>2
    <3>4. queued' = Cardinality(HoldingSlot') /\ queued' <= MaxEvents /\ queued' \in Int
      <4>1. Cardinality(HoldingSlot') = Cardinality(HoldingSlot) + 1
        BY <1>10, <3>3, OneEvent
      <4>2. queued' = Cardinality(HoldingSlot')
        BY <1>0, <3>1, <4>1
      <4> QED BY <1>0, <2>3, <3>1, <4>2
    <3> QED BY <1>0, <2>1, <3>3, <3>4, CountedBy
  <2> QED BY <2>2, <2>3
<1>6. CASE ReserveBytes(p)
  <2>1. QueuedEvents' = QueuedEvents /\ UNCHANGED queued /\ producer[p] = "bytes"
    BY <1>6 DEF ReserveBytes, QueuedEvents
  <2>2. CASE retained + SizeOf[p] > MaxBytes
    <3>1. producer' = [producer EXCEPT ![p] = "rollback"] /\ UNCHANGED retained
      BY <1>6, <2>2 DEF ReserveBytes, Go
    <3>2. Reserving' = Reserving /\ Paying' = Paying
      BY <2>1, <3>1 DEF Reserving, Paying, Typed
    <3>3. HoldingSlot' = HoldingSlot /\ HoldingBytes' = HoldingBytes
      BY <1>1, <1>3, <2>1, <3>2
    <3> QED BY <2>1, <3>1, <3>3, NothingHeld DEF Counts
  <2>3. CASE ~ retained + SizeOf[p] > MaxBytes
    <3>1. producer' = [producer EXCEPT ![p] = "send"] /\ retained' = retained + SizeOf[p]
      BY <1>6, <2>3 DEF ReserveBytes, Go
    <3>2. Reserving' = Reserving /\ Paying' = Paying \cup {p} /\ p \notin Paying
      BY <2>1, <3>1 DEF Reserving, Paying, Typed
    <3>3. /\ HoldingSlot' = HoldingSlot /\ HoldingBytes' = HoldingBytes \cup {p}
          /\ p \notin HoldingBytes
      BY <1>1, <1>2, <1>3, <2>1, <3>2
    <3>4. SizeOf[p] \in Nat /\ retained' = BytesOf[HoldingBytes']
      <4>1. SizeOf[p] \in Nat /\ BytesOf[HoldingBytes'] = BytesOf[HoldingBytes] + SizeOf[p]
        BY <1>10, <3>3, OneEvent
      <4> QED BY <1>0, <3>1, <4>1
    <3>5. retained' <= MaxBytes /\ retained' \in Int
      BY <1>0, <2>3, <3>1, <3>4
    <3> QED BY <1>0, <2>1, <3>3, <3>4, <3>5, CountedBy
  <2> QED BY <2>2, <2>3
<1>7. ASSUME p \in Reserving, producer' = [producer EXCEPT ![p] = "rejected"], UNCHANGED queue,
             queued' = queued - 1,
             retained' = IF p \in Paying THEN retained - SizeOf[p] ELSE retained
      PROVE  CountersInv'
  <2>1. Reserving' = Reserving \ {p} /\ Paying' = Paying \ {p} /\ QueuedEvents' = QueuedEvents
    BY <1>7 DEF Reserving, Paying, Typed, QueuedEvents
  <2>2. /\ HoldingSlot' = HoldingSlot \ {p} /\ p \in HoldingSlot
        /\ HoldingBytes' = HoldingBytes \ {p} /\ (p \in HoldingBytes <=> p \in Paying)
    BY <1>1, <1>2, <1>3, <1>7, <2>1
  <2>3. queued' = Cardinality(HoldingSlot') /\ queued' <= queued /\ queued' \in Int
    <3>1. Cardinality(HoldingSlot') = Cardinality(HoldingSlot) - 1
      BY <1>10, <2>2, OneEvent
    <3>2. queued' = Cardinality(HoldingSlot')
      BY <1>0, <1>7, <3>1
    <3> QED BY <1>0, <1>7, <3>2
  <2>4. CASE p \in Paying
    <3>1. retained' = BytesOf[HoldingBytes'] /\ SizeOf[p] \in Nat
      <4>1. SizeOf[p] \in Nat /\ BytesOf[HoldingBytes'] = BytesOf[HoldingBytes] - SizeOf[p]
        BY <1>10, <2>2, <2>4, OneEvent
      <4> QED BY <1>0, <1>7, <2>4, <4>1
    <3>2. retained' <= retained /\ retained' \in Int
      BY <1>0, <1>7, <2>4, <3>1
    <3> QED BY <2>3, <3>1, <3>2, CountedBy
  <2>5. CASE p \notin Paying
    <3>1. HoldingBytes' = HoldingBytes
      BY <2>2, <2>5
    <3> QED BY <1>0, <1>7, <2>3, <2>5, <3>1, CountedBy
  <2> QED BY <2>4, <2>5
<1>8. CASE RollbackSlot(p)
  <2>1. p \in Reserving /\ p \notin Paying
    BY <1>8 DEF RollbackSlot, Reserving, Paying
  <2> QED BY <1>7, <1>8, <2>1 DEF RollbackSlot, Go
<1>9. CASE RecordSends(p)
  <2>1. p \in Reserving /\ p \in Paying
    BY <1>9 DEF RecordSends, Reserving, Paying
  <2>2. CASE ReceiverGone \/ Len(queue) >= MaxEvents
    BY <1>7, <1>9, <2>1, <2>2 DEF RecordSends, Go
  <2>3. CASE ~ (ReceiverGone \/ Len(queue) >= MaxEvents)
    <3>1. /\ producer' = [producer EXCEPT ![p] = "accepted"] /\ UNCHANGED Counts
          /\ queue' = Append(queue, Event(p))
      BY <1>9, <2>3 DEF RecordSends, Go, capacityVars, Counts
    <3>2. Reserving' = Reserving \ {p} /\ Paying' = Paying \ {p} /\ p \in Accepted'
      BY <3>1 DEF Reserving, Paying, Typed, Accepted
    <3>3. QueuedEvents' = QueuedEvents \cup {p}
      <4>1. /\ queue \in Seq(Messages) /\ Event(p) \in Messages
        BY DEF Typed, Messages
      <4>2. ToSet(queue') = ToSet(queue) \cup {Event(p)}
        BY <3>1, <4>1, Appended
      <4> QED BY <4>2, MessageFacts DEF QueuedEvents
    <3>4. HoldingSlot' = HoldingSlot /\ HoldingBytes' = HoldingBytes
      BY <1>1, <1>3, <2>1, <3>2, <3>3
    <3> QED BY <1>0, <3>1, <3>4, CountedBy DEF Counts
  <2> QED BY <2>2, <2>3
<1> QED BY <1>4, <1>5, <1>6, <1>8, <1>9 DEF Record

LEMMA CountersCalls ==
    ASSUME Typed, Typed', PlacesInv, CountersInv,
           \/ \E p \in Producers : Record(p)
           \/ \E f \in Flushers \cup Pokers : FlushCall(f)
           \/ \E c \in Closers : Close(c)
    PROVE  CountersInv'
<1>1. ASSUME NEW p \in Producers, Record(p) PROVE CountersInv'
  BY <1>1, CountersRecord
<1>2. ASSUME UNCHANGED <<producer, Counts, Buffered, Batch, Receiving, QueuedEvents>>
      PROVE  CountersInv'
  <2>1. UNCHANGED <<HoldingSlot, HoldingBytes>>
    BY <1>2 DEF HoldingSlot, HoldingBytes, Buffered, Batch
  <2> QED BY <1>2, <2>1, NothingHeld
<1>3. ASSUME NEW f \in Flushers \cup Pokers, FlushCall(f) PROVE CountersInv'
  BY <1>2, <1>3, Flushing
<1>4. ASSUME NEW c \in Closers, Close(c) PROVE CountersInv'
  BY <1>2, <1>4, Closing
<1> QED BY <1>1, <1>3, <1>4

(* The worker lets go of events.                                           *)
LEMMA LettingGo ==
    ASSUME Typed, CountersInv, NEW slots \in SUBSET HoldingSlot, NEW bytes \in SUBSET HoldingBytes,
           HoldingSlot' = HoldingSlot \ slots, HoldingBytes' = HoldingBytes \ bytes,
           queued' = queued - Cardinality(slots), retained' = retained - BytesOf[bytes]
    PROVE  CountersInv'
<1>1. /\ HoldingSlot \in SUBSET Producers /\ HoldingBytes \in SUBSET Producers
      /\ slots \in SUBSET Producers /\ bytes \in SUBSET Producers
  BY HoldingFacts
<1>2. Cardinality(slots) \in Nat /\ BytesOf[bytes] \in Nat
  BY <1>1, Slots, Bytes
<1>3. Cardinality(HoldingSlot') = Cardinality(HoldingSlot) - Cardinality(slots)
  BY <1>1, Slots
<1>4. BytesOf[HoldingBytes'] = BytesOf[HoldingBytes] - BytesOf[bytes]
  BY <1>1, Bytes
<1>5. queued = Cardinality(HoldingSlot) /\ queued \in Nat
  BY <1>1, Slots DEF CountersInv
<1>6. retained = BytesOf[HoldingBytes] /\ retained \in Nat
  BY <1>1, Bytes DEF CountersInv
<1>7. queued' = Cardinality(HoldingSlot') /\ queued' <= queued /\ queued' \in Int
  BY <1>2, <1>3, <1>5
<1>8. retained' = BytesOf[HoldingBytes'] /\ retained' <= retained /\ retained' \in Int
  BY <1>2, <1>4, <1>6
<1> QED BY <1>7, <1>8, CountedBy

LEMMA CountersWorker ==
    ASSUME Typed, WorkerInv, PlacesInv, CountersInv, Worker
    PROVE  CountersInv'
<1>0. /\ HoldingSlot = Reserving \cup QueuedEvents \cup Receiving
      /\ HoldingBytes = Paying \cup QueuedEvents \cup Buffered \cup Batch
      /\ HoldingSlot' = Reserving' \cup QueuedEvents' \cup Receiving'
      /\ HoldingBytes' = Paying' \cup QueuedEvents' \cup Buffered' \cup Batch'
  BY HoldingFacts DEF HoldingSlot, HoldingBytes, Reserving, Paying, Buffered, Batch
<1>1. UNCHANGED <<Reserving, Paying>>
  BY Working DEF Reserving, Paying
<1>2. queued \in Nat /\ retained \in Nat /\ Cardinality({}) = 0 /\ BytesOf[{}] = 0
  BY HoldingFacts, Slots, Bytes DEF CountersInv
<1>3. /\ Reserving \cap Accepted = {} /\ Paying \cap Accepted = {}
      /\ QueuedEvents \cup Buffered \cup Batch \subseteq Accepted
      /\ QueuedEvents \cap Buffered = {} /\ QueuedEvents \cap Batch = {}
      /\ Buffered \cap Batch = {} /\ Receiving \subseteq Batch
  BY HoldingFacts DEF PlacesInv
<1>4. CASE Rests
  <2>1. UNCHANGED <<QueuedEvents, Buffered, Batch, Receiving, Counts>>
    BY <1>4, Resting
  <2>2. UNCHANGED <<HoldingSlot, HoldingBytes>>
    BY <1>0, <1>1, <2>1
  <2> QED BY <2>1, <2>2, NothingHeld
<1>5. CASE SelectEvent
  <2>1. PICK p \in QueuedEvents :
           /\ QueuedEvents' = QueuedEvents \ {p} /\ Buffered' = Buffered
           /\ Batch = {} /\ Batch' = {p} /\ Receiving = {} /\ Receiving' = {p}
           /\ UNCHANGED Counts
    BY <1>5, Receives
  <2>2. UNCHANGED <<HoldingSlot, HoldingBytes>>
    BY <1>0, <1>1, <2>1
  <2> QED BY <2>1, <2>2, NothingHeld
<1>6. CASE ProcessEvent
  <2>1. PICK p \in Accepted :
           /\ UNCHANGED QueuedEvents /\ p \notin QueuedEvents /\ p \notin Buffered
           /\ Batch = {p} /\ Receiving = {p} /\ Receiving' = {} /\ queued' = queued - 1
           /\ \/ /\ Buffered' = Buffered /\ Batch' = {} /\ retained' = retained - BytesOf[{p}]
              \/ Buffered' = Buffered \cup {p} /\ Batch' = {} /\ UNCHANGED retained
              \/ Buffered' = {} /\ Batch' = Buffered \cup {p} /\ UNCHANGED retained
    BY <1>6, Processes
  <2>2. p \notin Reserving /\ p \notin Paying /\ Cardinality({p}) = 1
    BY <1>3, FS_Singleton
  <2>3. HoldingSlot' = HoldingSlot \ {p} /\ {p} \in SUBSET HoldingSlot
    BY <1>0, <1>1, <2>1, <2>2
  <2>4. queued' = queued - Cardinality({p})
    BY <2>1, <2>2
  <2>5. CASE Buffered' = Buffered /\ Batch' = {} /\ retained' = retained - BytesOf[{p}]
    <3>1. HoldingBytes' = HoldingBytes \ {p} /\ {p} \in SUBSET HoldingBytes
      BY <1>0, <1>1, <2>1, <2>2, <2>5
    <3> QED BY <2>3, <2>4, <2>5, <3>1, LettingGo
  <2>6. CASE UNCHANGED retained /\ \/ Buffered' = Buffered \cup {p} /\ Batch' = {}
                                   \/ Buffered' = {} /\ Batch' = Buffered \cup {p}
    <3>1. HoldingBytes' = HoldingBytes \ {} /\ {} \in SUBSET HoldingBytes
      BY <1>0, <1>1, <2>1, <2>6
    <3>2. retained' = retained - BytesOf[{}]
      BY <1>2, <2>6
    <3> QED BY <2>3, <2>4, <3>1, <3>2, LettingGo
  <2> QED BY <2>1, <2>5, <2>6
<1>7. CASE SelectFlush \/ FinalFlush \/ AutoFlush
  <2>1. /\ QueuedEvents' = QueuedEvents /\ Buffered' = {} /\ Batch = {} /\ Batch' = Buffered
        /\ Receiving = {} /\ Receiving' = {} /\ UNCHANGED Counts
    BY <1>7, TakesBuffer
  <2>2. UNCHANGED <<HoldingSlot, HoldingBytes>>
    BY <1>0, <1>1, <2>1
  <2> QED BY <2>1, <2>2, NothingHeld
<1>8. CASE Sends
  <2>1. /\ UNCHANGED <<QueuedEvents, Buffered, Batch, Counts>> /\ Receiving = {} /\ Receiving' = {}
    BY <1>8, Sending
  <2>2. UNCHANGED <<HoldingSlot, HoldingBytes>>
    BY <1>0, <1>1, <2>1
  <2> QED BY <2>1, <2>2, NothingHeld
<1>9. ASSUME HoldingSlot' = HoldingSlot, UNCHANGED queued, NEW bytes \in SUBSET HoldingBytes,
             HoldingBytes' = HoldingBytes \ bytes, retained' = retained - BytesOf[bytes]
      PROVE  CountersInv'
  <2>1. /\ HoldingSlot' = HoldingSlot \ {} /\ {} \in SUBSET HoldingSlot
        /\ queued' = queued - Cardinality({})
    BY <1>2, <1>9
  <2> QED BY <1>9, <2>1, LettingGo
<1>10. CASE Release
  <2>1. /\ UNCHANGED <<QueuedEvents, Buffered, queued>> /\ Receiving = {} /\ Receiving' = {}
        /\ Batch' = {} /\ retained' = retained - BytesOf[Batch]
    BY <1>10, Releasing
  <2>2. /\ HoldingSlot' = HoldingSlot /\ HoldingBytes' = HoldingBytes \ Batch
        /\ Batch \in SUBSET HoldingBytes
    BY <1>0, <1>1, <1>3, <2>1
  <2> QED BY <1>9, <2>1, <2>2
<1>11. CASE Exit
  <2>1. /\ UNCHANGED <<QueuedEvents, Batch, queued>> /\ Receiving = {} /\ Receiving' = {}
        /\ Buffered' = {} /\ retained' = retained - BytesOf[Buffered]
    BY <1>11, Exiting
  <2>2. /\ HoldingSlot' = HoldingSlot /\ HoldingBytes' = HoldingBytes \ Buffered
        /\ Buffered \in SUBSET HoldingBytes
    BY <1>0, <1>1, <1>3, <2>1
  <2> QED BY <1>9, <2>1, <2>2
<1>12. CASE DiscardQueue
  <2>1. /\ Receiving = {} /\ Receiving' = {} /\ QueuedEvents' = {}
        /\ UNCHANGED <<Buffered, Batch>>
        /\ queued' = queued - Cardinality(QueuedEvents)
        /\ retained' = retained - BytesOf[QueuedEvents]
    BY <1>12, Discarding
  <2>2. /\ HoldingSlot' = HoldingSlot \ QueuedEvents /\ QueuedEvents \in SUBSET HoldingSlot
        /\ HoldingBytes' = HoldingBytes \ QueuedEvents /\ QueuedEvents \in SUBSET HoldingBytes
    BY <1>0, <1>1, <1>3, <2>1
  <2> QED BY <2>1, <2>2, LettingGo
<1>13. CASE Panic
  <2>1. /\ UNCHANGED QueuedEvents /\ Receiving' = {} /\ Buffered' = {} /\ Batch' = {}
        /\ queued' = IF worker = "received" THEN queued - 1 ELSE queued
        /\ retained' = retained - BytesOf[Buffered] - BytesOf[Batch]
    BY <1>13, Panicking
  <2> DEFINE lost == Buffered \cup Batch
  <2>2. lost \in SUBSET HoldingBytes /\ HoldingBytes' = HoldingBytes \ lost
    BY <1>0, <1>1, <1>3, <2>1
  <2>3. /\ Buffered \in SUBSET Producers /\ Batch \in SUBSET Producers
        /\ BytesOf[Buffered] \in Nat /\ BytesOf[Batch] \in Nat
    BY HoldingFacts, Bytes
  <2>4. BytesOf[lost] = BytesOf[Buffered] + BytesOf[Batch]
    BY <1>3, <2>3, Bytes
  <2>5. retained' = retained - BytesOf[lost]
    BY <1>2, <2>1, <2>3, <2>4
  <2> HIDE DEF lost
  <2>6. HoldingSlot' = HoldingSlot \ Receiving /\ Receiving \in SUBSET HoldingSlot
    BY <1>0, <1>1, <1>3, <2>1
  <2>7. queued' = queued - Cardinality(Receiving)
    <3>1. CASE worker = "received"
      <4>1. PICK p \in Producers : job = [NoJob EXCEPT !.batch = <<p>>]
        BY <3>1 DEF WorkerInv
      <4>2. job.batch = <<p>>
        BY <4>1 DEF NoJob
      <4>3. Receiving = {p} /\ Cardinality({p}) = 1
        BY <3>1, <4>2, Few, FS_Singleton DEF Receiving
      <4> QED BY <2>1, <3>1, <4>3
    <3>2. CASE worker # "received"
      <4>1. Receiving = {}
        BY <3>2 DEF Receiving
      <4> QED BY <1>2, <2>1, <3>2, <4>1
    <3> QED BY <3>1, <3>2
  <2> QED BY <2>2, <2>5, <2>6, <2>7, LettingGo
<1> QED BY <1>4, <1>5, <1>6, <1>7, <1>8, <1>10, <1>11, <1>12, <1>13, Working
-----------------------------------------------------------------------------
(***************************************************************************)
(* What was acknowledged is not sent again.                                *)
(***************************************************************************)
(* The worker's steps take events out of Unsent: into a request, or with   *)
(* the end of delivery or of the worker.                                   *)
LEMMA UnsentSteps ==
    ASSUME Typed, WorkerInv, PlacesInv, Worker
    PROVE  /\ Unsent' \subseteq Unsent /\ offered \subseteq offered'
           /\ \/ UNCHANGED <<acked, Unsent>>
              \/ \E sent \in SUBSET Todo :
                    /\ acked' = acked \cup sent /\ offered' = offered \cup sent
                    /\ Unsent' = Unsent \ sent /\ RequestSucceeds
              \/ UNCHANGED acked /\ Unsent \ Unsent' \subseteq offered' /\ Sends /\ ~ job'.ok
              \/ UNCHANGED acked /\ (stopped' \/ job'.cancelled \/ panicked')
              \/ UNCHANGED acked /\ (Exit \/ DiscardQueue)
<1>0. /\ Unsent = QueuedEvents \cup Buffered \cup Receiving \cup Todo
      /\ Unsent' = QueuedEvents' \cup Buffered' \cup Receiving' \cup Todo'
      /\ QueuedEvents \cap Buffered = {} /\ QueuedEvents \cap Batch = {} /\ Buffered \cap Batch = {}
  BY DEF Unsent, PlacesInv
<1>1. CASE Rests
  <2>1. UNCHANGED <<QueuedEvents, Buffered, Todo, Receiving, acked, offered>>
    BY <1>1, Resting
  <2> QED BY <1>0, <2>1
<1>2. CASE SelectEvent
  <2>1. PICK p \in QueuedEvents :
           /\ QueuedEvents' = QueuedEvents \ {p} /\ Buffered' = Buffered
           /\ Todo = {} /\ Todo' = {} /\ Receiving = {} /\ Receiving' = {p}
           /\ UNCHANGED <<acked, offered>>
    BY <1>2, Receives
  <2> QED BY <1>0, <2>1
<1>3. CASE ProcessEvent
  <2>1. PICK p \in Accepted :
           /\ UNCHANGED QueuedEvents /\ Receiving = {p} /\ Receiving' = {} /\ Todo = {}
           /\ UNCHANGED <<acked, offered>>
           /\ \/ stopped /\ Buffered' = Buffered /\ Todo' = {}
              \/ Buffered' = Buffered \cup {p} /\ Todo' = {}
              \/ Buffered' = {} /\ Todo' = Buffered \cup {p}
    BY <1>3, Processes
  <2>2. UNCHANGED stopped
    BY <1>3 DEF ProcessEvent
  <2>3. CASE stopped /\ Buffered' = Buffered /\ Todo' = {}
    BY <1>0, <2>1, <2>2, <2>3
  <2>4. CASE \/ Buffered' = Buffered \cup {p} /\ Todo' = {}
             \/ Buffered' = {} /\ Todo' = Buffered \cup {p}
    <3>1. Unsent' = Unsent
      BY <1>0, <2>1, <2>4
    <3> QED BY <2>1, <3>1
  <2> QED BY <2>1, <2>3, <2>4
<1>4. CASE SelectFlush \/ FinalFlush \/ AutoFlush
  <2>1. /\ QueuedEvents' = QueuedEvents /\ Buffered' = {} /\ Todo = {}
        /\ Todo' = (IF stopped THEN {} ELSE Buffered) /\ Receiving = {} /\ Receiving' = {}
        /\ UNCHANGED <<acked, offered, stopped>>
    BY <1>4, TakesBuffer
  <2>2. CASE stopped BY <1>0, <2>1, <2>2
  <2>3. CASE ~ stopped
    <3>1. Unsent' = Unsent
      BY <1>0, <2>1, <2>3
    <3> QED BY <2>1, <3>1
  <2> QED BY <2>2, <2>3
<1>5. CASE Sends
  <2>1. /\ UNCHANGED <<QueuedEvents, Buffered>> /\ Receiving = {} /\ Receiving' = {}
        /\ Todo' \subseteq Todo
    BY <1>5, Sending
  <2>2. Todo \subseteq Batch
    BY <1>5 DEF Sends, RequestSucceeds, RequestFails, RequestRejected, Cancelled, Requested,
                WorkerInv, Todo, Batch
  <2>3. Unsent' \subseteq Unsent
    BY <1>0, <2>1
  <2>4. CASE RequestSucceeds
    <3> DEFINE sent == ToSet(Chunk)
    <3>1. /\ acked' = acked \cup sent /\ offered' = offered \cup sent /\ NextChunk(TRUE)
          /\ IsInjective(job.todo)
      BY <2>4 DEF RequestSucceeds, Requested, PlacesInv
    <3>2. job'.todo = Rest
      BY <3>1, ChunkEnds
    <3>3. Todo' = Todo \ sent /\ sent \in SUBSET Todo
      BY <3>1, <3>2, ChunkFacts DEF Todo
    <3> HIDE DEF sent
    <3>4. Unsent' = Unsent \ sent
      BY <1>0, <2>1, <2>2, <3>3
    <3> QED BY <2>3, <2>4, <3>1, <3>3, <3>4
  <2>5. CASE RequestFails
    <3>1. UNCHANGED acked /\ offered' = offered \cup ToSet(Chunk)
      BY <2>5 DEF RequestFails, Requested
    <3>2. CASE job.attempt < MaxAttempts
      <4>1. Todo' = Todo
        BY <2>5, <3>2 DEF RequestFails, Todo
      <4>2. Unsent' = Unsent
        BY <1>0, <2>1, <4>1
      <4> QED BY <2>3, <3>1, <4>2
    <3>3. CASE ~ job.attempt < MaxAttempts
      <4>1. NextChunk(FALSE) /\ IsInjective(job.todo)
        BY <2>5, <3>3 DEF RequestFails, PlacesInv
      <4>2. job'.todo = Rest /\ ~ job'.ok
        BY <4>1, ChunkEnds
      <4>3. Todo \ Todo' \subseteq ToSet(Chunk)
        BY <4>2, ChunkFacts DEF Todo
      <4>4. Unsent \ Unsent' \subseteq offered'
        BY <1>0, <2>1, <3>1, <4>3
      <4> QED BY <1>5, <2>3, <3>1, <4>2, <4>4
    <3> QED BY <3>2, <3>3
  <2>6. CASE RequestRejected
    <3>1. UNCHANGED acked /\ stopped' /\ offered \subseteq offered'
      BY <2>6 DEF RequestRejected, Requested
    <3> QED BY <2>3, <3>1
  <2>7. CASE Cancelled
    <3>1. UNCHANGED <<acked, offered>> /\ job'.cancelled
      BY <2>7 DEF Cancelled, Typed, Jobs
    <3> QED BY <2>3, <3>1
  <2> QED BY <1>5, <2>4, <2>5, <2>6, <2>7 DEF Sends
<1>6. CASE Release
  <2>1. UNCHANGED <<QueuedEvents, Buffered, Todo, acked, offered>> /\ Receiving = {} /\ Receiving' = {}
    BY <1>6, Releasing
  <2>2. Unsent' = Unsent
    BY <1>0, <2>1
  <2> QED BY <2>1, <2>2
<1>7. CASE Exit
  <2>1. /\ UNCHANGED <<QueuedEvents, Todo, acked, offered>> /\ Receiving' = {} /\ Buffered' = {}
    BY <1>7, Exiting
  <2> QED BY <1>0, <1>7, <2>1
<1>8. CASE DiscardQueue
  <2>1. UNCHANGED <<Buffered, Todo, acked, offered>> /\ Receiving' = {} /\ QueuedEvents' = {}
    BY <1>8, Discarding
  <2> QED BY <1>0, <1>8, <2>1
<1>9. CASE Panic
  <2>1. /\ UNCHANGED <<QueuedEvents, acked, offered>> /\ panicked'
        /\ Receiving' = {} /\ Buffered' = {} /\ Todo' = {}
    BY <1>9, Panicking
  <2> QED BY <1>0, <2>1
<1> QED BY <1>1, <1>2, <1>3, <1>4, <1>5, <1>6, <1>7, <1>8, <1>9, Working

(* An accepted event is one more to send.                                  *)
LEMMA UnsentCalls ==
    ASSUME Typed, PlacesInv,
           \/ \E p \in Producers : Record(p)
           \/ \E f \in Flushers \cup Pokers : FlushCall(f)
           \/ \E c \in Closers : Close(c)
    PROVE  \/ UNCHANGED <<Accepted, Unsent, QueuedEvents>>
           \/ \E p \in Producers :
                 /\ Accepted' = Accepted \cup {p} /\ Unsent' = Unsent \cup {p} /\ p \notin Accepted
                 /\ QueuedEvents' = QueuedEvents \cup {p} /\ queue' = Append(queue, Event(p))
                 /\ producer[p] = "send" /\ UNCHANGED <<flusher, reply, result, covered>>
<1>1. ASSUME NEW p \in Producers, Record(p)
      PROVE  \/ UNCHANGED <<Accepted, Unsent, QueuedEvents>>
             \/ /\ Accepted' = Accepted \cup {p} /\ Unsent' = Unsent \cup {p} /\ p \notin Accepted
                /\ QueuedEvents' = QueuedEvents \cup {p} /\ queue' = Append(queue, Event(p))
                /\ producer[p] = "send" /\ UNCHANGED <<flusher, reply, result, covered>>
  <2>1. /\ UNCHANGED <<Buffered, Todo, Receiving, flusher, reply, result, covered>> /\ p \notin Accepted
        /\ \/ UNCHANGED <<QueuedEvents, Accepted>>
           \/ /\ QueuedEvents' = QueuedEvents \cup {p} /\ Accepted' = Accepted \cup {p}
              /\ queue' = Append(queue, Event(p)) /\ producer[p] = "send"
    BY <1>1, Recording
  <2> QED BY <2>1 DEF Unsent
<1>2. ASSUME NEW f \in Flushers \cup Pokers, FlushCall(f)
      PROVE  UNCHANGED <<Accepted, Unsent, QueuedEvents>>
  BY <1>2, Flushing DEF Unsent
<1>3. ASSUME NEW c \in Closers, Close(c) PROVE UNCHANGED <<Accepted, Unsent, QueuedEvents>>
  BY <1>3, Closing DEF Unsent
<1> QED BY <1>1, <1>2, <1>3

LEMMA AckedInit == Init => AckedInv
BY DEF Init, AckedInv

LEMMA AckedCalls ==
    ASSUME Typed, PlacesInv, AckedInv,
           \/ \E p \in Producers : Record(p)
           \/ \E f \in Flushers \cup Pokers : FlushCall(f)
           \/ \E c \in Closers : Close(c)
    PROVE  AckedInv'
<1>1. UNCHANGED acked
  BY CallsAndWorker, Closing DEF history
<1>2. CASE UNCHANGED <<Accepted, Unsent>> BY <1>1, <1>2 DEF AckedInv
<1>3. ASSUME NEW p \in Producers, Accepted' = Accepted \cup {p}, Unsent' = Unsent \cup {p},
             p \notin Accepted
      PROVE  AckedInv'
  BY <1>1, <1>3 DEF AckedInv
<1> QED BY <1>2, <1>3, UnsentCalls

LEMMA AckedWorker ==
    ASSUME Typed, WorkerInv, PlacesInv, AckedInv, Worker
    PROVE  AckedInv'
<1>1. UNCHANGED Accepted
  BY Working
<1>2. CASE UNCHANGED acked /\ Unsent' \subseteq Unsent BY <1>1, <1>2 DEF AckedInv
<1>3. ASSUME NEW sent \in SUBSET Todo, acked' = acked \cup sent, Unsent' = Unsent \ sent,
             RequestSucceeds
      PROVE  AckedInv'
  <2>1. Todo \subseteq Accepted
    BY <1>3 DEF RequestSucceeds, Requested, WorkerInv, Todo, Batch, PlacesInv
  <2> QED BY <1>1, <1>3, <2>1 DEF AckedInv
<1> QED BY <1>2, <1>3, UnsentSteps
-----------------------------------------------------------------------------
(***************************************************************************)
(* Every accepted event has been in a request or is still to be sent,      *)
(* until delivery ends.                                                    *)
(***************************************************************************)
(* Once nobody can send, nobody can send again, and nothing is sent.       *)
LEMMA StaysDisconnected ==
    ASSUME Typed, Disconnected,
           \/ \E p \in Producers : Record(p)
           \/ \E f \in Flushers \cup Pokers : FlushCall(f)
           \/ \E c \in Closers : Close(c)
    PROVE  Disconnected' /\ UNCHANGED queue
<1>1. /\ ~ senderOpen
      /\ \A p \in Producers : producer[p] \notin {"check", "slot", "bytes", "rollback", "send"}
      /\ \A f \in Flushers \cup Pokers : flusher[f] \notin {"send", "await"}
  BY DEF Disconnected, SenderHeld
<1>2. ASSUME NEW p \in Producers, Record(p) PROVE Disconnected' /\ UNCHANGED queue
  <2>1. RecordChecks(p) \/ RecordLoads(p)
    BY <1>1, <1>2 DEF Record, RecordChecks, RecordLoads, RecordSeesRoom, ReserveSlot, ReserveBytes,
                      RollbackSlot, RecordSends
  <2>2. /\ UNCHANGED <<queue, senderOpen, flusher>>
        /\ \E place \in {"load", "rejected"} : producer' = [producer EXCEPT ![p] = place]
    BY <1>1, <2>1 DEF RecordChecks, RecordLoads, Go, producerOnly
  <2> QED BY <1>1, <2>2 DEF Disconnected, SenderHeld, Typed
<1>3. ASSUME NEW f \in Flushers \cup Pokers, FlushCall(f) PROVE Disconnected' /\ UNCHANGED queue
  <2>1. FlushChecks(f) \/ FlushLoads(f)
    BY <1>1, <1>3 DEF FlushCall, FlushChecks, FlushLoads, FlushSends, FlushNotSent, FlushAnswered,
                      FlushTimesOut
  <2>2. /\ UNCHANGED <<queue, senderOpen, producer>>
        /\ \E place \in {"load", "returned"} : flusher' = [flusher EXCEPT ![f] = place]
    BY <1>1, <2>1 DEF FlushChecks, FlushLoads, MoveTo, ReturnWith, flusherOnly
  <2> QED BY <1>1, <2>2 DEF Disconnected, SenderHeld, Typed
<1>4. ASSUME NEW c \in Closers, Close(c) PROVE Disconnected' /\ UNCHANGED queue
  <2>1. UNCHANGED <<queue, producer, flusher>> /\ (senderOpen' => senderOpen)
    BY <1>4, Closing
  <2> QED BY <1>1, <2>1 DEF Disconnected, SenderHeld
<1> QED BY <1>2, <1>3, <1>4

(* The worker does not come back to its loop, and delivery not to life.    *)
LEMMA Onwards ==
    ASSUME Typed, WorkerInv, CloseInv, Worker
    PROVE  /\ stopped => stopped'
           /\ panicked => panicked'
           /\ worker' \in InLoop => worker \in InLoop /\ (job.cancelled => job'.cancelled)
           /\ panicked' = panicked \/ Panic
           /\ (Disconnected' <=> Disconnected)
           /\ worker' \in Leaving \/ job'.why = "final" =>
                 \/ worker \in Leaving \/ job.why = "final"
                 \/ abort \/ panicked' \/ FinalFlush
<1> USE DEF InLoop, Leaving, history
<1>0. /\ UNCHANGED <<producer, flusher, senderOpen>> /\ (Disconnected' <=> Disconnected)
      /\ job \in Jobs /\ NoJob.why = "none" /\ ~ NoJob.cancelled
  BY WorkerAndClose DEF Disconnected, SenderHeld, Typed, NoJob
<1>1. ASSUME shutdown # <<>>, Head(shutdown) = "abort" PROVE abort
  <2>1. Head(shutdown) \in ToSet(shutdown)
    BY <1>1, Taken DEF CloseInv
  <2> QED BY <1>1, <2>1 DEF CloseInv
<1>2. CASE TopPoll BY <1>0, <1>1, <1>2 DEF TopPoll, ReadShutdown, AfterShutdown
<1>3. CASE SelectShutdown BY <1>0, <1>1, <1>3 DEF SelectShutdown, ReadShutdown, AfterShutdown
<1>4. CASE SelectEvent BY <1>0, <1>4 DEF SelectEvent, WorkerInv, InFlush, NoJob
<1>5. ASSUME NEW why \in {"flush", "batch", "auto", "final"}, NEW to \in SUBSET Flushers,
             NEW events \in Seq(Producers), BeginFlush(why, to, events)
      PROVE  worker' \in {"releasing", "flushed", "sending"} /\ job'.why = why
  BY <1>5, Begun DEF BeginFlush
<1>6. CASE ProcessEvent
  <2>1. job.cancelled = FALSE /\ UNCHANGED <<stopped, panicked>> /\ worker = "received"
    BY <1>6 DEF ProcessEvent, WorkerInv, NoJob
  <2>2. CASE job' = NoJob /\ worker' = "top"
    BY <1>0, <2>1, <2>2
  <2>3. CASE ~ stopped /\ Len(buffer) + 1 >= MaxPerRequest
    <3>1. PICK p \in Producers : job = [NoJob EXCEPT !.batch = <<p>>]
      BY <1>6 DEF ProcessEvent, WorkerInv
    <3>2. job.batch = <<p>>
      BY <3>1 DEF NoJob
    <3>3. buffer \o job.batch \in Seq(Producers)
      BY <3>2, Joined DEF Typed
    <3>4. BeginFlush("batch", {}, buffer \o job.batch)
      BY <1>6, <2>3 DEF ProcessEvent
    <3>5. worker' \in {"releasing", "flushed", "sending"} /\ job'.why = "batch"
      BY <1>5, <3>3, <3>4
    <3> QED BY <1>0, <2>1, <3>5
  <2> QED BY <1>6, <2>2, <2>3 DEF ProcessEvent
<1>7. CASE SelectFlush \/ FinalFlush \/ AutoFlush
  <2>1. /\ worker = "select" /\ job = NoJob /\ UNCHANGED <<stopped, panicked>>
    BY <1>7 DEF SelectFlush, FinalFlush, AutoFlush, WorkerInv, InFlush
  <2>2. buffer \in Seq(Producers) /\ {Head(queue).of} \cap Flushers \in SUBSET Flushers
    BY DEF Typed
  <2>3. CASE SelectFlush
    <3>1. BeginFlush("flush", {Head(queue).of} \cap Flushers, buffer)
      BY <2>3 DEF SelectFlush
    <3>2. worker' \in {"releasing", "flushed", "sending"} /\ job'.why = "flush"
      BY <1>5, <2>2, <3>1
    <3> QED BY <1>0, <2>1, <3>2
  <2>4. CASE AutoFlush
    <3>1. BeginFlush("auto", {}, buffer)
      BY <2>4 DEF AutoFlush
    <3>2. worker' \in {"releasing", "flushed", "sending"} /\ job'.why = "auto"
      BY <1>5, <2>2, <3>1
    <3> QED BY <1>0, <2>1, <3>2
  <2>5. CASE FinalFlush BY <1>0, <2>1, <2>5
  <2> QED BY <1>7, <2>3, <2>4, <2>5
<1>8. ASSUME NEW outcome \in BOOLEAN, NextChunk(outcome)
      PROVE  /\ worker' \in {"releasing", "sending"}
             /\ job'.cancelled = job.cancelled /\ job'.why = job.why
  BY <1>8, ChunkEnds
<1>9. CASE RequestSucceeds
  <2>1. NextChunk(TRUE) /\ UNCHANGED <<stopped, panicked>> /\ worker = "sending"
    BY <1>9 DEF RequestSucceeds, Requested, sendingOnly
  <2> QED BY <1>0, <1>8, <2>1
<1>10. CASE RequestFails
  <2>1. UNCHANGED <<stopped, panicked>> /\ worker = "sending"
    BY <1>10 DEF RequestFails, Requested, sendingOnly
  <2>2. CASE job.attempt < MaxAttempts BY <1>0, <1>10, <2>1, <2>2 DEF RequestFails
  <2>3. CASE ~ job.attempt < MaxAttempts
    <3>1. NextChunk(FALSE)
      BY <1>10, <2>3 DEF RequestFails
    <3> QED BY <1>0, <1>8, <2>1, <3>1
  <2> QED BY <2>2, <2>3
<1>11. CASE Retry BY <1>0, <1>11 DEF Retry, sendingOnly, Jobs
<1>12. CASE RequestRejected BY <1>0, <1>12 DEF RequestRejected, Requested, sendingOnly, Jobs
<1>13. CASE Cancelled BY <1>0, <1>13 DEF Cancelled, sendingOnly, Jobs
<1>14. CASE Release BY <1>0, <1>14 DEF Release, Jobs
<1>15. CASE EndFlush BY <1>0, <1>15 DEF EndFlush, WorkerInv
<1>16. CASE Exit BY <1>0, <1>16 DEF Exit, exitOnly
<1>17. CASE StoppedOnExit BY <1>0, <1>17 DEF StoppedOnExit, exitOnly
<1>18. CASE DiscardQueue BY <1>0, <1>18 DEF DiscardQueue
<1>19. CASE Signal BY <1>0, <1>19 DEF Signal, exitOnly
<1>20. CASE Panic BY <1>0, <1>20 DEF Panic
<1> QED BY <1>2, <1>3, <1>4, <1>6, <1>7, <1>9, <1>10, <1>11, <1>12, <1>13, <1>14, <1>15, <1>16,
           <1>17, <1>18, <1>19, <1>20 DEF Worker, Run

LEMMA DrainInit == Init => DrainInv
BY Few DEF Init, DrainInv, Accepted, InLoop, Leaving, NoJob

LEMMA DrainCalls ==
    ASSUME Typed, PlacesInv, DrainInv,
           \/ \E p \in Producers : Record(p)
           \/ \E f \in Flushers \cup Pokers : FlushCall(f)
           \/ \E c \in Closers : Close(c)
    PROVE  DrainInv'
<1>1. UNCHANGED <<workerVars, history>> /\ (abort => abort')
  BY CallsAndWorker, Closing DEF closeVars
<1>2. Accepted \subseteq offered \cup Unsent => Accepted' \subseteq offered' \cup Unsent'
  <2>1. UNCHANGED offered
    BY <1>1 DEF history
  <2> QED BY <2>1, UnsentCalls
<1>3. Disconnected => Disconnected' /\ UNCHANGED queue
  BY StaysDisconnected
<1> QED BY <1>1, <1>2, <1>3 DEF DrainInv, workerVars, history

LEMMA DrainWorker ==
    ASSUME Typed, WorkerInv, WorkerInv', CloseInv, PlacesInv, DrainInv, Worker
    PROVE  DrainInv'
<1> DEFINE Kept == Accepted \subseteq offered \cup Unsent
           Going == ~ abort /\ ~ stopped /\ ~ panicked
           Ended == Disconnected /\ queue = <<>> /\ buffer = <<>>
<1>0. /\ UNCHANGED <<Accepted, abort>> /\ (stopped => stopped') /\ (panicked => panicked')
      /\ worker' \in InLoop => worker \in InLoop /\ (job.cancelled => job'.cancelled)
      /\ worker' \in Leaving \/ job'.why = "final" =>
            \/ worker \in Leaving \/ job.why = "final"
            \/ abort \/ panicked' \/ FinalFlush
      /\ (Disconnected' <=> Disconnected)
  BY Onwards, Working
<1>1. panicked' => worker' \notin InLoop
  BY DEF WorkerInv
<1>2. ASSUME Kept, ~ Exit, ~ DiscardQueue
      PROVE  Kept' \/ stopped' \/ job'.cancelled \/ panicked'
  <2>1. /\ Unsent' \subseteq Unsent /\ offered \subseteq offered'
        /\ \/ UNCHANGED Unsent
           \/ \E sent \in SUBSET Todo : offered' = offered \cup sent /\ Unsent' = Unsent \ sent
           \/ Unsent \ Unsent' \subseteq offered'
           \/ stopped' \/ job'.cancelled \/ panicked'
    BY <1>2, UnsentSteps
  <2>2. Unsent \ Unsent' \subseteq offered' \/ stopped' \/ job'.cancelled \/ panicked'
    BY <2>1
  <2> QED BY <1>0, <1>2, <2>1, <2>2
<1>3. Going' => Going
  BY <1>0
<1>4. ASSUME Going' PROVE Kept' /\ (worker' \in Leaving \/ job'.why = "final" => Ended')
  <2>1. Kept /\ (worker \in Leaving \/ job.why = "final" => Ended)
    BY <1>3, <1>4 DEF DrainInv
  <2>2. ~ job'.cancelled
    BY <1>4 DEF WorkerInv
  <2>3. CASE Exit \/ DiscardQueue
    <3>1. Ended /\ worker' \in Leaving
      BY <2>1, <2>3 DEF Exit, DiscardQueue, Leaving
    <3>2. QueuedEvents = {} /\ Buffered = {}
      BY <3>1, QueuedAreIn, Few DEF Buffered
    <3>3. queue' = <<>> /\ buffer' = <<>>
      BY <2>3, <3>1, Exiting, Discarding
    <3>4. QueuedEvents' = {} /\ Buffered' = {}
      BY <3>3, Few DEF QueuedEvents, Buffered
    <3>5. UNCHANGED <<Todo, offered>> /\ Receiving = {} /\ Receiving' = {}
      BY <2>3, Exiting, Discarding
    <3>6. Kept'
      BY <1>0, <2>1, <3>2, <3>4, <3>5 DEF Unsent
    <3> QED BY <1>0, <3>1, <3>3, <3>6
  <2>4. CASE ~ Exit /\ ~ DiscardQueue
    <3>1. Kept'
      BY <1>2, <1>4, <2>1, <2>2, <2>4
    <3>2. ASSUME worker' \in Leaving \/ job'.why = "final" PROVE Ended'
      <4>1. CASE FinalFlush
        <5>1. Disconnected /\ queue = <<>> /\ UNCHANGED queue /\ buffer' = <<>>
          BY <4>1 DEF FinalFlush, BeginFlush
        <5> QED BY <1>0, <5>1
      <4>2. CASE worker \in Leaving \/ job.why = "final"
        <5>1. Ended
          BY <2>1, <4>2
        <5>2. worker \notin {"top", "select", "received"}
          BY <4>2 DEF WorkerInv, Leaving, InFlush, NoJob
        <5>3. CASE Rests BY <1>0, <5>1, <5>3, Resting
        <5>4. CASE Sends BY <1>0, <5>1, <5>4, Sending
        <5>5. CASE Release BY <1>0, <5>1, <5>5, Releasing
        <5>6. CASE Panic BY <1>4, <5>6, Panicking
        <5> QED BY <2>4, <5>2, <5>3, <5>4, <5>5, <5>6, Working
                DEF SelectEvent, ProcessEvent, SelectFlush, FinalFlush, AutoFlush
      <4> QED BY <1>0, <1>4, <3>2, <4>1, <4>2
    <3> QED BY <3>1, <3>2
  <2> QED BY <2>3, <2>4
<1>5. ASSUME worker' \in InLoop, ~ stopped', ~ job'.cancelled PROVE Kept'
  <2>1. Kept /\ ~ panicked'
    BY <1>0, <1>1, <1>5 DEF DrainInv
  <2>2. ~ Exit /\ ~ DiscardQueue
    BY <1>5 DEF Exit, DiscardQueue, InLoop
  <2> QED BY <1>2, <1>5, <2>1, <2>2
<1> QED BY <1>4, <1>5 DEF DrainInv
-----------------------------------------------------------------------------
(***************************************************************************)
(* The invariant, and what follows from it.                                *)
(***************************************************************************)
THEOREM Invariance == Spec => []IInv
<1>1. Init => IInv
  BY TypedInit, CloseInit, WorkerInit, PlacesInit, CountersInit, AckedInit, DrainInit DEF IInv, Safe
<1>2. IInv /\ [Next]_vars => IInv'
  <2> SUFFICES ASSUME IInv, [Next]_vars PROVE IInv'
    OBVIOUS
  <2>0. Typed /\ CloseInv /\ WorkerInv /\ PlacesInv /\ CountersInv /\ AckedInv /\ DrainInv
    BY DEF IInv, Safe
  <2>1. CASE \/ \E p \in Producers : Record(p)
             \/ \E f \in Flushers \cup Pokers : FlushCall(f)
    <3>1. Typed'
      BY <2>0, <2>1, TypedRecord, TypedFlush
    <3>2. CloseInv' /\ WorkerInv'
      BY <2>0, <2>1, CallsAndWorker, CloseStays, WorkerInvCalls
    <3>3. PlacesInv' /\ AckedInv' /\ DrainInv'
      BY <2>0, <2>1, PlacesCalls, AckedCalls, DrainCalls
    <3>4. CountersInv'
      BY <2>0, <2>1, <3>1, CountersCalls
    <3> QED BY <3>1, <3>2, <3>3, <3>4 DEF IInv, Safe
  <2>2. CASE \E c \in Closers : Close(c)
    <3>1. Typed' /\ CloseInv' /\ WorkerInv'
      BY <2>0, <2>2, TypedClose, CloseInvClose, WorkerInvClose
    <3>2. PlacesInv' /\ AckedInv' /\ DrainInv'
      BY <2>0, <2>2, PlacesCalls, AckedCalls, DrainCalls
    <3>3. CountersInv'
      BY <2>0, <2>2, <3>1, CountersCalls
    <3> QED BY <3>1, <3>2, <3>3 DEF IInv, Safe
  <2>3. CASE Worker
    <3>1. Typed' /\ CloseInv' /\ WorkerInv'
      BY <2>0, <2>3, TypedWorker, CloseInvWorker, WorkerInvWorker
    <3>2. PlacesInv' /\ AckedInv' /\ CountersInv'
      BY <2>0, <2>3, PlacesWorker, AckedWorker, CountersWorker
    <3>3. DrainInv'
      BY <2>0, <2>3, <3>1, DrainWorker
    <3> QED BY <3>1, <3>2, <3>3 DEF IInv, Safe
  <2>4. CASE UNCHANGED vars
    <3> USE <2>4 DEF vars, callVars, capacityVars, closeVars, workerVars, history
    <3>1. Typed' BY <2>0 DEF Typed
    <3>2. CloseInv' BY <2>0 DEF CloseInv
    <3>3. WorkerInv' BY <2>0 DEF WorkerInv, ReceiverGone
    <3>4. UNCHANGED <<Accepted, QueuedEvents, Buffered, Batch, Todo, Receiving, Unsent, HoldingSlot,
                      HoldingBytes, Counts>>
      BY DEF Accepted, QueuedEvents, Buffered, Batch, Todo, Receiving, Unsent, HoldingSlot,
             HoldingBytes, Counts
    <3>5. PlacesInv' BY <2>0, <3>4 DEF PlacesInv
    <3>6. CountersInv' BY <2>0, <3>4, NothingHeld
    <3>7. AckedInv' BY <2>0, <3>4 DEF AckedInv
    <3>8. DrainInv' BY <2>0, <3>4 DEF DrainInv, Disconnected, SenderHeld
    <3> QED BY <3>1, <3>2, <3>3, <3>5, <3>6, <3>7, <3>8 DEF IInv, Safe
  <2> QED BY <2>1, <2>2, <2>3, <2>4 DEF Next
<1> QED BY <1>1, <1>2, PTL DEF Spec

(* Every variable keeps its type.                                          *)
THEOREM TypeCorrect == Spec => []TypeOK
<1>1. IInv => TypeOK
  <2> SUFFICES ASSUME IInv PROVE TypeOK
    OBVIOUS
  <2>1. Typed /\ CloseInv /\ CountersInv
    BY DEF IInv, Safe
  <2>2. Messages \subseteq [kind : {"event", "flush"}, of : Producers \cup Flushers \cup Pokers]
    BY DEF Messages, Event, Flush
  <2>3. queue \in Seq([kind : {"event", "flush"}, of : Producers \cup Flushers \cup Pokers])
    BY <2>1, <2>2, SeqMonotonic DEF Typed
  <2>4. queued \in Nat /\ retained \in Nat
    BY <2>1, HoldingFacts, Slots, Bytes DEF CountersInv
  <2>5. /\ job.batch \in Seq(Producers) /\ job.todo \in Seq(Producers)
        /\ job.attempt \in 1 .. MaxAttempts
    BY <2>1 DEF Typed, Jobs
  <2>6. {closed, closeComplete, abort, senderOpen, deliveryStopped, closing, stopped,
         unreported, panicked} \subseteq BOOLEAN
    BY <2>1 DEF Typed
  <2>7. worker \in {"top", "select", "received", "sending", "retrying", "releasing",
                    "flushed", "exiting", "stopping", "discarding", "signal", "done"}
    BY <2>1 DEF Typed, InLoop, Leaving
  <2>8. closer \in [Closers -> {"idle", "take", "ask", "graceful", "abort", "aborted",
                                "second", "returned"}]
    BY <2>1 DEF CloseInv, Leading
  <2> QED BY <2>1, <2>3, <2>4, <2>5, <2>6, <2>7, <2>8 DEF TypeOK, Typed, CloseInv
<1> QED BY <1>1, Invariance, PTL

(* The counters count what the live events hold, within the limits.        *)
THEOREM CountersAreExact == Spec => []CapacityExact
<1>1. IInv => CapacityExact
  BY DEF IInv, CountersInv, CapacityExact
<1> QED BY <1>1, Invariance, PTL

(* An acknowledged event is in no later request.                           *)
THEOREM AckedStaysAcked == Spec => []AckedIsNotResent
<1>1. IInv => AckedIsNotResent
  BY DEF IInv, AckedInv, AckedIsNotResent, Unsent, Todo
<1> QED BY <1>1, Invariance, PTL

(* A close without abort, panic and rejection leaves nothing unsent.       *)
THEOREM CloseDrains == Spec => []GracefulDrains
<1>1. IInv => GracefulDrains
  <2> SUFFICES ASSUME IInv, worker = "done", ~ abort, ~ stopped, ~ panicked
               PROVE  Accepted \subseteq offered
    BY DEF GracefulDrains
  <2>1. Accepted \subseteq offered \cup Unsent /\ queue = <<>> /\ buffer = <<>> /\ job = NoJob
    BY DEF IInv, Safe, DrainInv, WorkerInv, Leaving, InFlush
  <2>2. QueuedEvents = {} /\ Buffered = {} /\ Receiving = {} /\ Todo = {}
    BY <2>1, QueuedAreIn, Few DEF Buffered, Receiving, Todo, NoJob
  <2> QED BY <2>1, <2>2 DEF Unsent
<1> QED BY <1>1, Invariance, PTL

(* With a slot reserved, a channel of events alone has room.               *)
THEOREM FullOfFlushes == Spec => []FullOnlyByFlushes
<1>1. IInv => FullOnlyByFlushes
  <2> SUFFICES ASSUME IInv, NEW p \in Producers, producer[p] = "send", Len(queue) >= MaxEvents,
                      \A f \in Flushers \cup Pokers : Flush(f) \notin ToSet(queue)
               PROVE  FALSE
    BY DEF FullOnlyByFlushes
  <2>1. Typed /\ PlacesInv /\ CountersInv
    BY DEF IInv, Safe
  <2>2. queue \in Seq(Messages) /\ Len(queue) \in Nat /\ DOMAIN queue = 1 .. Len(queue)
    BY <2>1 DEF Typed
  <2>3. ASSUME NEW i \in 1 .. Len(queue)
        PROVE  queue[i].kind = "event" /\ queue[i] = Event(queue[i].of) /\ queue[i].of \in QueuedEvents
    <3>1. queue[i] \in Messages /\ queue[i] \in ToSet(queue)
      BY <2>2 DEF ToSet
    <3>2. /\ queue[i].kind = "event" /\ queue[i] = Event(queue[i].of)
          /\ queue[i].of \in Producers
      BY <3>1, MessageFacts
    <3> QED BY <3>1, <3>2 DEF QueuedEvents
  <2> DEFINE at == [i \in 1 .. Len(queue) |-> queue[i].of]
  <2>4. at \in Injection(1 .. Len(queue), QueuedEvents)
    <3>1. at \in [1 .. Len(queue) -> QueuedEvents]
      BY <2>3
    <3>2. ASSUME NEW i \in 1 .. Len(queue), NEW j \in 1 .. Len(queue), at[i] = at[j] PROVE i = j
      <4>1. queue[i] = queue[j] /\ queue[i].kind = "event"
        BY <2>3, <3>2
      <4> QED BY <2>1, <4>1 DEF PlacesInv, UniqueEvents
    <3> QED BY <3>1, <3>2 DEF Injection, IsInjective
  <2>5. IsFiniteSet(QueuedEvents) /\ QueuedEvents \in SUBSET Producers
    BY FS_Subset, LimitsAssumption DEF QueuedEvents
  <2> HIDE DEF at
  <2>6. Cardinality(1 .. Len(queue)) <= Cardinality(QueuedEvents)
    BY <2>4, <2>5, FS_Injection
  <2>7. Cardinality(1 .. Len(queue)) = Len(queue)
    <3>1. 1 \in Int /\ Len(queue) \in Int
      BY <2>2
    <3>2. Cardinality(1 .. Len(queue)) = IF 1 > Len(queue) THEN 0 ELSE Len(queue) - 1 + 1
      BY <3>1, FS_Interval
    <3> QED BY <2>2, <3>2
  <2>8. p \notin QueuedEvents /\ QueuedEvents \cup {p} \subseteq HoldingSlot
    BY <2>1, HoldingFacts DEF PlacesInv, Reserving, Accepted
  <2>9. Cardinality(QueuedEvents \cup {p}) = Cardinality(QueuedEvents) + 1
    BY <2>5, <2>8, Slots
  <2>10. HoldingSlot \in SUBSET Producers /\ QueuedEvents \cup {p} \in SUBSET Producers
    BY <2>1, <2>5, HoldingFacts
  <2>11. Cardinality(QueuedEvents \cup {p}) <= Cardinality(HoldingSlot)
    BY <2>8, <2>10, Slots
  <2>12. Cardinality(HoldingSlot) <= MaxEvents
    BY <2>1 DEF CountersInv
  <2>13. /\ Cardinality(QueuedEvents) \in Nat /\ Cardinality(HoldingSlot) \in Nat
         /\ MaxEvents \in Nat
    BY <2>5, <2>10, Slots, LimitsAssumption
  <2> QED BY <2>2, <2>6, <2>7, <2>9, <2>11, <2>12, <2>13
<1> QED BY <1>1, Invariance, PTL
-----------------------------------------------------------------------------
(***************************************************************************)
(* What a waiting flush call is told.                                      *)
(***************************************************************************)
LEMMA FailureInit == Init => FailureInv
BY DEF Init, FailureInv, Accepted

LEMMA FailureCalls ==
    ASSUME Typed, PlacesInv, FailureInv,
           \/ \E p \in Producers : Record(p)
           \/ \E f \in Flushers \cup Pokers : FlushCall(f)
           \/ \E c \in Closers : Close(c)
    PROVE  FailureInv'
<1>1. UNCHANGED <<workerVars, history>>
  BY CallsAndWorker, Closing DEF closeVars
<1>2. Accepted \subseteq acked \cup Unsent \cup reported
         => Accepted' \subseteq acked' \cup Unsent' \cup reported'
  <2>1. UNCHANGED <<acked, reported>>
    BY <1>1 DEF history
  <2> QED BY <2>1, UnsentCalls
<1> QED BY <1>1, <1>2 DEF FailureInv, workerVars, history

(* Only the end of a flush changes what is remembered of the failures.     *)
LEMMA Remembers ==
    ASSUME Typed, WorkerInv, PlacesInv, Worker, ~ EndFlush, worker' \in InLoop
    PROVE  UNCHANGED <<unreported, reported>> /\ (job'.ok => job.ok)
<1>0. NoJob.ok /\ (worker \notin InFlush => job.ok) /\ job \in Jobs
  BY DEF NoJob, WorkerInv, Typed
<1>1. CASE Rests
  BY <1>0, <1>1 DEF Rests, TopPoll, SelectShutdown, Retry, StoppedOnExit, Signal, workerOnly,
                    sendingOnly, exitOnly, history, Jobs
<1>2. CASE SelectEvent \/ ProcessEvent
  <2>1. worker \notin InFlush
    BY <1>2 DEF SelectEvent, ProcessEvent, InFlush
  <2> QED BY <1>0, <1>2, <2>1 DEF SelectEvent, ProcessEvent, history
<1>3. CASE SelectFlush \/ FinalFlush \/ AutoFlush
  <2>1. worker \notin InFlush /\ UNCHANGED <<unreported, reported>>
    BY <1>3, TakesBuffer DEF InFlush
  <2> QED BY <1>0, <2>1
<1>4. CASE Sends BY <1>4, Sending
<1>5. CASE Release BY <1>5, Releasing
<1>6. CASE Exit \/ DiscardQueue \/ Panic
  BY <1>6 DEF Exit, DiscardQueue, Panic, InLoop
<1> QED BY <1>1, <1>2, <1>3, <1>4, <1>5, <1>6, Working DEF Rests

LEMMA FailureWorker ==
    ASSUME Typed, WorkerInv, WorkerInv', CloseInv, PlacesInv, DrainInv, FailureInv, FlushInv, Worker
    PROVE  FailureInv'
<1> SUFFICES ASSUME worker' \in InLoop, ~ stopped', ~ job'.cancelled, ~ unreported', job'.ok
             PROVE  Accepted' \subseteq acked' \cup Unsent' \cup reported'
  BY DEF FailureInv
<1>1. /\ UNCHANGED Accepted /\ worker \in InLoop /\ ~ stopped /\ ~ job.cancelled /\ ~ panicked'
      /\ ~ Exit /\ ~ DiscardQueue
  BY Onwards, Working DEF WorkerInv, Exit, DiscardQueue, InLoop
<1>2. /\ Accepted \subseteq offered \cup Unsent
      /\ unreported \/ ~ job.ok \/ Accepted \subseteq acked \cup Unsent \cup reported
  BY <1>1 DEF DrainInv, FailureInv
<1>3. CASE EndFlush
  <2>1. UNCHANGED <<acked, Unsent>>
    BY <1>3, Resting DEF Rests, Unsent
  <2>2. CASE job.why = "flush" /\ ~ Delivered
    <3>1. reported' = reported \cup Lost
      BY <1>3, <2>2 DEF EndFlush, FlushInv
    <3> QED BY <1>1, <1>2, <2>1, <3>1 DEF Lost
  <2>3. CASE job.why = "flush" /\ Delivered
    BY <1>1, <1>2, <1>3, <2>1, <2>3 DEF EndFlush, Delivered
  <2>4. CASE job.why # "flush"
    BY <1>1, <1>2, <1>3, <2>1, <2>4 DEF EndFlush, RememberFailure, InLoop
  <2> QED BY <2>2, <2>3, <2>4
<1>4. CASE ~ EndFlush
  <2>1. UNCHANGED reported /\ Accepted \subseteq acked \cup Unsent \cup reported
    BY <1>2, <1>4, Remembers
  <2>2. \/ UNCHANGED <<acked, Unsent>>
        \/ \E sent \in SUBSET Todo : acked' = acked \cup sent /\ Unsent' = Unsent \ sent
    BY <1>1, UnsentSteps
  <2> QED BY <1>1, <2>1, <2>2
<1> QED BY <1>3, <1>4

(* What the steps of the worker do to the replies and to the flush in hand. *)
LEMMA Replies ==
    ASSUME Typed, WorkerInv, PlacesInv, Worker
    PROVE  /\ acked \subseteq acked' /\ reported \subseteq reported'
           /\ UNCHANGED queue \/ queue' = <<>> \/ (queue # <<>> /\ queue' = Tail(queue))
           /\ QueuedEvents' \subseteq QueuedEvents
           /\ (job'.to = job.to /\ job'.why = job.why)
                 \/ (job'.to = {} /\ job'.why # "flush") \/ SelectFlush
           /\ \A f \in Flushers :
                 \/ reply'[f] = reply[f]
                 \/ reply'[f] = "false" /\ (f \in job.to \/ Flush(f) \in ToSet(queue))
                 \/ reply'[f] = "true" /\ f \in job.to /\ EndFlush /\ Delivered
<1>0. NoJob.to = {} /\ NoJob.why = "none" /\ job \in Jobs /\ reply \in [Flushers -> {"none", "true", "false"}]
  BY DEF NoJob, Typed
<1>1. CASE Rests /\ ~ EndFlush
  <2>1. UNCHANGED <<acked, reported, queue, reply>>
    BY <1>1 DEF Rests, TopPoll, SelectShutdown, Retry, StoppedOnExit, Signal, workerOnly, callVars,
                sendingOnly, exitOnly, history
  <2>2. job'.to = job.to /\ job'.why = job.why
    BY <1>0, <1>1 DEF Rests, TopPoll, SelectShutdown, Retry, StoppedOnExit, Signal, sendingOnly,
                      exitOnly, Jobs
  <2>3. UNCHANGED QueuedEvents
    BY <1>1, Resting
  <2> QED BY <2>1, <2>2, <2>3
<1>2. CASE EndFlush
  <2>1. /\ UNCHANGED <<acked, queue>> /\ reported \subseteq reported' /\ job' = NoJob
        /\ reply' = Reply \/ UNCHANGED reply
    BY <1>2 DEF EndFlush
  <2>2. UNCHANGED QueuedEvents
    BY <1>2, Resting DEF Rests
  <2> QED BY <1>0, <1>2, <2>1, <2>2 DEF Reply
<1>3. CASE SelectEvent
  <2>1. /\ queue # <<>> /\ queue' = Tail(queue) /\ job'.to = {} /\ job'.why # "flush"
        /\ UNCHANGED <<acked, reported, reply>>
    BY <1>3 DEF SelectEvent, NoJob, history, workerOnly, callVars
  <2>2. QueuedEvents' \subseteq QueuedEvents
    BY <1>3, Receives
  <2> QED BY <2>1, <2>2
<1>4. CASE ProcessEvent
  <2>1. UNCHANGED <<acked, reported, reply, queue>>
    BY <1>4 DEF ProcessEvent, history, workerOnly, callVars
  <2>2. UNCHANGED QueuedEvents /\ job'.to = {} /\ job'.why # "flush"
    BY <1>4, Processes
  <2> QED BY <2>1, <2>2
<1>5. CASE SelectFlush \/ FinalFlush \/ AutoFlush
  <2>1. UNCHANGED reply
    BY <1>5 DEF SelectFlush, FinalFlush, AutoFlush, workerOnly, callVars
  <2>2. /\ UNCHANGED <<acked, reported, QueuedEvents>>
        /\ \/ SelectFlush /\ queue # <<>> /\ queue' = Tail(queue)
           \/ UNCHANGED queue /\ job'.to = {} /\ job'.why # "flush"
    BY <1>5, TakesBuffer
  <2> QED BY <2>1, <2>2
<1>6. CASE Sends
  <2>1. UNCHANGED reply
    BY <1>6 DEF Sends, RequestSucceeds, RequestFails, RequestRejected, Cancelled, sendingOnly,
                workerOnly, callVars
  <2>2. /\ UNCHANGED <<queue, QueuedEvents, reported>> /\ job'.why = job.why /\ job'.to = job.to
        /\ acked \subseteq acked'
    BY <1>6, Sending
  <2> QED BY <2>1, <2>2
<1>7. CASE Release
  <2>1. UNCHANGED reply
    BY <1>7 DEF Release, workerOnly, callVars
  <2> QED BY <1>7, <2>1, Releasing
<1>8. CASE Exit
  <2>1. UNCHANGED <<reply, reported>>
    BY <1>8 DEF Exit, exitOnly, workerOnly, callVars, history
  <2> QED BY <1>8, <2>1, Exiting
<1>9. CASE DiscardQueue
  <2>1. /\ UNCHANGED reported
        /\ reply' = [f \in Flushers |-> IF Flush(f) \in ToSet(queue) THEN "false" ELSE reply[f]]
    BY <1>9 DEF DiscardQueue, history
  <2> QED BY <1>9, <2>1, Discarding
<1>10. CASE Panic
  <2>1. /\ UNCHANGED reported
        /\ reply' = [f \in Flushers |-> IF f \in job.to THEN "false" ELSE reply[f]]
    BY <1>10 DEF Panic
  <2>2. /\ UNCHANGED <<queue, QueuedEvents, acked>> /\ job' = NoJob
    BY <1>10, Panicking
  <2> QED BY <1>0, <2>1, <2>2
<1> QED BY <1>1, <1>2, <1>3, <1>4, <1>5, <1>6, <1>7, <1>8, <1>9, <1>10, Working DEF Rests

LEMMA FlushInit == Init => FlushInv
<1> SUFFICES ASSUME Init PROVE FlushInv
  OBVIOUS
<1>1. NoJob.to = {} /\ NoJob.why = "none"
  BY DEF NoJob
<1>2. \A f \in Flushers : Ahead(f) /\ Flush(f) \notin ToSet(queue) /\ covered[f] = {}
  BY Few DEF Init, Ahead
<1> QED BY <1>1, <1>2 DEF Init, FlushInv

(* An order that holds of a queue holds of what is left of it, and of it   *)
(* and a message that is new.                                              *)
InOrder(q, f, s) ==
    \A i, j \in 1 .. Len(q), p \in s : q[i] = Flush(f) /\ q[j] = Event(p) => j < i

LEMMA StaysInOrder ==
    ASSUME NEW q \in Seq(Messages), NEW f, NEW s, InOrder(q, f, s)
    PROVE  /\ InOrder(<<>>, f, s)
           /\ q # <<>> => InOrder(Tail(q), f, s)
           /\ \A m \in Messages : (\A p \in s : m # Event(p)) => InOrder(Append(q, m), f, s)
<1>1. InOrder(<<>>, f, s)
  BY DEF InOrder
<1>2. ASSUME q # <<>> PROVE InOrder(Tail(q), f, s)
  <2> SUFFICES ASSUME NEW i \in 1 .. Len(Tail(q)), NEW j \in 1 .. Len(Tail(q)), NEW p \in s,
                      Tail(q)[i] = Flush(f), Tail(q)[j] = Event(p)
               PROVE  j < i
    BY DEF InOrder
  <2>1. /\ i + 1 \in 1 .. Len(q) /\ q[i + 1] = Flush(f)
        /\ j + 1 \in 1 .. Len(q) /\ q[j + 1] = Event(p)
    BY <1>2, Taken
  <2>2. j + 1 < i + 1
    BY <2>1 DEF InOrder
  <2>3. i \in Int /\ j \in Int
    OBVIOUS
  <2> QED BY <2>2, <2>3
<1>3. ASSUME NEW m \in Messages, \A p \in s : m # Event(p)
      PROVE  InOrder(Append(q, m), f, s)
  <2> SUFFICES ASSUME NEW i \in 1 .. Len(Append(q, m)), NEW j \in 1 .. Len(Append(q, m)),
                      NEW p \in s, Append(q, m)[i] = Flush(f), Append(q, m)[j] = Event(p)
               PROVE  j < i
    BY DEF InOrder
  <2>1. /\ Len(Append(q, m)) = Len(q) + 1 /\ Append(q, m)[Len(q) + 1] = m /\ Len(q) \in Nat
        /\ \A k \in 1 .. Len(q) : Append(q, m)[k] = q[k]
    BY Appended
  <2>2. (i \in 1 .. Len(q) \/ i = Len(q) + 1) /\ (j \in 1 .. Len(q) \/ j = Len(q) + 1)
    BY <2>1
  <2>3. j \in 1 .. Len(q)
    BY <1>3, <2>1, <2>2
  <2>4. CASE i \in 1 .. Len(q)
    BY <2>1, <2>3, <2>4 DEF InOrder
  <2>5. CASE i = Len(q) + 1
    BY <2>1, <2>3, <2>5
  <2> QED BY <2>2, <2>4, <2>5
<1> QED BY <1>1, <1>2, <1>3

(* A recorded event is covered by no call before it.                       *)
LEMMA FlushRecord ==
    ASSUME Typed, PlacesInv, FlushInv, NEW p \in Producers, Record(p)
    PROVE  FlushInv'
<1>0. UNCHANGED <<workerVars, history, flusher, reply, result, covered>> /\ p \notin Accepted
  BY CallsAndWorker, Recording
<1>1. UNCHANGED <<job, acked, reported>>
  BY <1>0 DEF workerVars, history
<1>2. \/ UNCHANGED <<queue, QueuedEvents, Accepted>>
      \/ /\ queue' = Append(queue, Event(p))
         /\ QueuedEvents' = QueuedEvents \cup {p} /\ Accepted' = Accepted \cup {p}
  BY Recording
<1>3. queue \in Seq(Messages) /\ Event(p) \in Messages
  BY DEF Typed, Messages
<1>4. ASSUME NEW f \in Flushers
      PROVE  /\ covered[f] \subseteq Accepted'
             /\ Flush(f) \in ToSet(queue') => Flush(f) \in ToSet(queue)
             /\ InOrder(queue', f, covered[f])
             /\ covered[f] \cap QueuedEvents' \subseteq covered[f] \cap QueuedEvents
  <2>1. covered[f] \subseteq Accepted /\ InOrder(queue, f, covered[f])
    BY DEF FlushInv, Ahead, InOrder
  <2>2. CASE UNCHANGED <<queue, QueuedEvents, Accepted>>
    BY <2>1, <2>2
  <2>3. CASE /\ queue' = Append(queue, Event(p))
             /\ QueuedEvents' = QueuedEvents \cup {p} /\ Accepted' = Accepted \cup {p}
    <3>1. \A x \in covered[f] : Event(p) # Event(x)
      BY <1>0, <2>1, MessageFacts
    <3>2. InOrder(queue', f, covered[f])
      BY <1>3, <2>1, <2>3, <3>1, StaysInOrder
    <3>3. Flush(f) \in ToSet(queue') => Flush(f) \in ToSet(queue)
      BY <1>3, <2>3, Appended, MessageFacts
    <3> QED BY <1>0, <2>1, <2>3, <3>2, <3>3
  <2> QED BY <1>2, <2>2, <2>3
<1>5. ASSUME NEW f \in Flushers PROVE Ahead(f)'
  BY <1>0, <1>4 DEF Ahead, InOrder
<1> QED BY <1>0, <1>1, <1>4, <1>5 DEF FlushInv

(* What FlushInv says of one call.                                         *)
FlushOf(f) ==
    /\ covered[f] \subseteq Accepted
    /\ flusher[f] \in {"idle", "load", "send"} =>
          /\ Flush(f) \notin ToSet(queue) /\ f \notin job.to
          /\ reply[f] = "none" /\ result[f] = "none"
    /\ Ahead(f)
    /\ f \in job.to => covered[f] \cap QueuedEvents = {}
    /\ reply[f] = "true" \/ result[f] = "true" => covered[f] \subseteq acked \cup reported

(* A call covers what is accepted when it starts, which is ahead of the    *)
(* message it sends then, and it returns what it was answered.             *)
LEMMA FlushFlush ==
    ASSUME Typed, PlacesInv, FlushInv, NEW g \in Flushers \cup Pokers, FlushCall(g)
    PROVE  FlushInv'
<1>1. UNCHANGED <<workerVars, history, QueuedEvents, Accepted, reply>>
  BY CallsAndWorker, Flushing
<1>2. UNCHANGED <<job, acked, reported, QueuedEvents, Accepted, reply>>
  BY <1>1 DEF workerVars, history
<1>3. UNCHANGED queue \/ (FlushSends(g) /\ queue' = Append(queue, Flush(g)))
  BY Flushing
<1>4. queue \in Seq(Messages) /\ Flush(g) \in Messages
  BY DEF Typed, Messages
<1>5. /\ flusher \in [Flushers \cup Pokers -> {"idle", "load", "send", "await", "returned"}]
      /\ result \in [Flushers -> {"none", "true", "false"}]
      /\ covered \in [Flushers -> SUBSET Producers]
      /\ reply \in [Flushers -> {"none", "true", "false"}]
  BY DEF Typed
<1>6. ASSUME NEW f \in Flushers PROVE FlushOf(f)'
  <2>0. FlushOf(f) /\ f \in Flushers \cup Pokers
    BY DEF FlushInv, FlushOf
  <2>1. UNCHANGED queue => /\ UNCHANGED ToSet(queue)
                           /\ covered'[f] = covered[f] => Ahead(f)'
    BY <2>0 DEF FlushOf, Ahead
  <2>2. CASE FlushChecks(g)
    <3>1. /\ UNCHANGED <<queue, reply>> /\ flusher[g] = "idle"
          /\ \E place \in {"load", "returned"} : flusher' = [flusher EXCEPT ![g] = place]
          /\ result' = result \/ (g \in Flushers /\ result' = [result EXCEPT ![g] = "false"])
          /\ covered' = IF g \in Flushers THEN [covered EXCEPT ![g] = Accepted] ELSE covered
          /\ flusher' = [flusher EXCEPT ![g] = "load"] => result' = result
      BY <2>2, <1>5 DEF FlushChecks, ReturnWith, MoveTo
    <3>2. CASE f = g
      <4>1. /\ covered'[f] = Accepted /\ Flush(f) \notin ToSet(queue) /\ f \notin job.to
            /\ reply[f] = "none" /\ result'[f] # "true" /\ flusher'[f] \in {"load", "returned"}
            /\ flusher'[f] = "load" => result'[f] = "none"
        BY <1>5, <2>0, <3>1, <3>2 DEF FlushOf
      <4>2. Ahead(f)'
        <5>1. \A i \in 1 .. Len(queue) : queue[i] # Flush(f)
          BY <1>4, <4>1 DEF ToSet
        <5> QED BY <3>1, <5>1 DEF Ahead
      <4> QED BY <1>2, <2>1, <3>1, <4>1, <4>2 DEF FlushOf
    <3>3. CASE f # g
      <4>1. covered'[f] = covered[f] /\ flusher'[f] = flusher[f] /\ result'[f] = result[f]
        BY <1>5, <2>0, <3>1, <3>3
      <4> QED BY <1>2, <2>0, <2>1, <3>1, <4>1 DEF FlushOf
    <3> QED BY <3>2, <3>3
  <2>3. CASE FlushSends(g)
    <3>1. /\ queue' = Append(queue, Flush(g)) /\ flusher[g] = "send" /\ UNCHANGED <<result, covered>>
          /\ flusher' = [flusher EXCEPT ![g] = IF g \in Flushers THEN "await" ELSE "returned"]
      BY <2>3 DEF FlushSends, MoveTo
    <3>2. Ahead(f)'
      <4>1. \A p \in covered[f] : Flush(g) # Event(p)
        BY MessageFacts
      <4>2. InOrder(queue, f, covered[f])
        BY <2>0 DEF FlushOf, Ahead, InOrder
      <4>3. InOrder(queue', f, covered[f])
        BY <1>4, <3>1, <4>1, <4>2, StaysInOrder
      <4> QED BY <3>1, <4>3 DEF Ahead, InOrder
    <3>3. flusher'[f] \in {"idle", "load", "send"} => f # g /\ flusher'[f] = flusher[f]
      BY <1>5, <2>0, <3>1
    <3>4. f # g => (Flush(f) \in ToSet(queue') => Flush(f) \in ToSet(queue))
      BY <1>4, <3>1, Appended, MessageFacts
    <3> QED BY <1>2, <2>0, <3>1, <3>2, <3>3, <3>4 DEF FlushOf
  <2>4. CASE FlushLoads(g) \/ FlushNotSent(g) \/ FlushAnswered(g) \/ FlushTimesOut(g)
    <3>1. UNCHANGED <<queue, covered>>
      BY <2>4 DEF FlushLoads, FlushNotSent, FlushAnswered, FlushTimesOut
    <3>2. /\ flusher'[f] \in {"idle", "load", "send"} =>
                flusher[f] \in {"idle", "load", "send"} /\ result'[f] = result[f]
          /\ result'[f] = "true" => result[f] = "true" \/ reply[f] = "true"
      BY <1>5, <2>0, <2>4 DEF FlushLoads, FlushNotSent, FlushAnswered, FlushTimesOut,
                              ReturnWith, MoveTo
    <3> QED BY <1>2, <2>0, <2>1, <3>1, <3>2 DEF FlushOf
  <2> QED BY <2>2, <2>3, <2>4 DEF FlushCall
<1> QED BY <1>2, <1>6 DEF FlushInv, FlushOf

(* A flush is answered TRUE when nothing it covers is left to send and no  *)
(* failure is left to tell.                                                *)
LEMMA FlushWorker ==
    ASSUME Typed, WorkerInv, PlacesInv, FailureInv, FlushInv, Worker, Pokers = {}
    PROVE  FlushInv'
<1>1. /\ acked \subseteq acked' /\ reported \subseteq reported'
      /\ UNCHANGED queue \/ queue' = <<>> \/ (queue # <<>> /\ queue' = Tail(queue))
      /\ QueuedEvents' \subseteq QueuedEvents
      /\ (job'.to = job.to /\ job'.why = job.why)
            \/ (job'.to = {} /\ job'.why # "flush") \/ SelectFlush
      /\ \A f \in Flushers :
            \/ reply'[f] = reply[f]
            \/ reply'[f] = "false" /\ (f \in job.to \/ Flush(f) \in ToSet(queue))
            \/ reply'[f] = "true" /\ f \in job.to /\ EndFlush /\ Delivered
  BY Replies
<1>2. UNCHANGED <<Accepted, flusher, result, covered>>
  BY Working
<1>3. queue \in Seq(Messages)
  BY DEF Typed
<1>4. ASSUME SelectFlush
      PROVE  \E g \in Flushers : queue # <<>> /\ Head(queue) = Flush(g) /\ job'.to = {g}
  <2>1. queue # <<>> /\ Head(queue).kind = "flush" /\ job'.to = {Head(queue).of} \cap Flushers
    BY <1>4 DEF SelectFlush, BeginFlush, NoJob
  <2>2. Head(queue) \in Messages
    BY <1>3, <2>1, Taken
  <2>3. Head(queue).of \in Flushers /\ Head(queue) = Flush(Head(queue).of)
    BY <2>1, <2>2, MessageFacts
  <2> QED BY <2>1, <2>3
<1>5. job'.why = "flush" => job'.to # {}
  BY <1>1, <1>4 DEF FlushInv
<1>6. ASSUME NEW f \in Flushers PROVE FlushOf(f)'
  <2>0. FlushOf(f)
    BY DEF FlushInv, FlushOf
  <2>1. ToSet(queue') \subseteq ToSet(queue)
    <3>1. queue # <<>> => ToSet(Tail(queue)) \subseteq ToSet(queue)
      BY <1>3, Taken
    <3>2. ToSet(<<>>) = {}
      BY Few
    <3>3. CASE UNCHANGED queue BY <3>3
    <3>4. CASE queue' = <<>> BY <3>2, <3>4
    <3>5. CASE queue # <<>> /\ queue' = Tail(queue) BY <3>1, <3>5
    <3> QED BY <1>1, <3>3, <3>4, <3>5
  <2>2. Ahead(f)'
    <3>1. InOrder(queue, f, covered[f])
      BY <2>0 DEF FlushOf, Ahead, InOrder
    <3>2. InOrder(queue', f, covered[f])
      BY <1>1, <1>3, <3>1, StaysInOrder
    <3> QED BY <1>2, <3>2 DEF Ahead, InOrder
  <2>3. CASE SelectFlush
    <3>1. PICK g \in Flushers : queue # <<>> /\ Head(queue) = Flush(g) /\ job'.to = {g}
      BY <1>4, <2>3
    <3>2. 1 \in 1 .. Len(queue) /\ queue[1] = Flush(g) /\ Flush(g) \in ToSet(queue)
      BY <1>3, <3>1, Taken
    <3>3. f = g => covered[f] \cap QueuedEvents = {}
      <4> SUFFICES ASSUME f = g, NEW p \in covered[f], Event(p) \in ToSet(queue) PROVE FALSE
        BY DEF QueuedEvents
      <4>1. PICK j \in 1 .. Len(queue) : queue[j] = Event(p)
        BY <1>3 DEF ToSet
      <4>2. j < 1
        BY <2>0, <3>2, <4>1 DEF FlushOf, Ahead
      <4> QED BY <4>2
    <3>4. UNCHANGED reply
      BY <2>3 DEF SelectFlush, workerOnly, callVars
    <3> QED BY <1>1, <1>2, <2>0, <2>1, <2>2, <3>1, <3>2, <3>3, <3>4 DEF FlushOf
  <2>4. CASE ~ SelectFlush
    <3>1. job'.to \subseteq job.to
      BY <1>1, <2>4
    <3>2. CASE reply'[f] = "true" /\ f \in job.to /\ EndFlush /\ Delivered
      <4>1. /\ worker = "flushed" /\ job.ok /\ ~ unreported /\ covered[f] \cap QueuedEvents = {}
            /\ covered[f] \subseteq Accepted
        BY <2>0, <3>2 DEF EndFlush, Delivered, FlushOf
      <4>2. Accepted \subseteq acked \cup Unsent \cup reported
        BY <4>1 DEF FailureInv, WorkerInv, InLoop
      <4>3. buffer = <<>> /\ job.todo = <<>>
        BY <4>1 DEF WorkerInv, InFlush
      <4>4. Unsent = QueuedEvents
        BY <4>1, <4>3, Few DEF Unsent, Buffered, Receiving, Todo
      <4>5. covered[f] \subseteq acked \cup reported
        BY <4>1, <4>2, <4>4
      <4>6. flusher[f] \notin {"idle", "load", "send"}
        BY <2>0, <3>2 DEF FlushOf
      <4> QED BY <1>1, <1>2, <2>0, <2>1, <2>2, <3>1, <4>5, <4>6 DEF FlushOf
    <3>3. CASE \/ reply'[f] = reply[f]
               \/ reply'[f] = "false" /\ (f \in job.to \/ Flush(f) \in ToSet(queue))
      BY <1>1, <1>2, <2>0, <2>1, <2>2, <3>1, <3>3 DEF FlushOf
    <3> QED BY <1>1, <3>2, <3>3
  <2> QED BY <2>3, <2>4
<1> QED BY <1>5, <1>6 DEF FlushInv, FlushOf

(* A flush call that is answered TRUE is told the truth, where somebody    *)
(* waits for every flush: one nobody waits for forgets the failures before *)
(* it.                                                                     *)
THEOREM FlushAnswersAreTrue == ASSUME Pokers = {} PROVE Spec => []FlushTruth
<1> DEFINE FInv == FailureInv /\ FlushInv
<1>1. Init => FInv
  BY FailureInit, FlushInit
<1>2. IInv /\ IInv' /\ FInv /\ [Next]_vars => FInv'
  <2> SUFFICES ASSUME IInv, IInv', FailureInv, FlushInv, [Next]_vars PROVE FailureInv' /\ FlushInv'
    OBVIOUS
  <2>0. Typed /\ CloseInv /\ WorkerInv /\ WorkerInv' /\ PlacesInv /\ DrainInv
    BY DEF IInv, Safe
  <2>1. CASE \E p \in Producers : Record(p)
    BY <2>0, <2>1, FailureCalls, FlushRecord
  <2>2. CASE \E f \in Flushers \cup Pokers : FlushCall(f)
    BY <2>0, <2>2, FailureCalls, FlushFlush
  <2>3. CASE \E c \in Closers : Close(c)
    <3>1. FailureInv'
      BY <2>0, <2>3, FailureCalls
    <3>2. /\ UNCHANGED <<queue, workerVars, history, flusher, reply, result, covered>>
          /\ UNCHANGED <<QueuedEvents, Accepted>>
      BY <2>3, Closing
    <3> QED BY <3>1, <3>2 DEF FlushInv, Ahead, workerVars, history
  <2>4. CASE Worker
    BY <2>0, <2>4, FailureWorker, FlushWorker
  <2>5. CASE UNCHANGED vars
    <3> USE <2>5 DEF vars, callVars, capacityVars, closeVars, workerVars, history
    <3>1. UNCHANGED <<Accepted, QueuedEvents, Unsent>>
      BY DEF Accepted, QueuedEvents, Buffered, Todo, Receiving, Unsent
    <3>2. FailureInv' BY <3>1 DEF FailureInv
    <3>3. FlushInv' BY <3>1 DEF FlushInv, Ahead
    <3> QED BY <3>2, <3>3
  <2> QED BY <2>1, <2>2, <2>3, <2>4, <2>5 DEF Next
<1>3. FInv => FlushTruth
  BY DEF FlushInv, FlushTruth
<1> QED BY <1>1, <1>2, <1>3, Invariance, PTL DEF Spec
=============================================================================

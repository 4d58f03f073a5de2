--------------------------- MODULE DataSyncProofs ---------------------------
(***************************************************************************)
(* Proofs about DataSync, for every number of flags, segments, stamps,     *)
(* closers, failures and messages: what the published status promises      *)
(* about the snapshot, and that the full data set a conflict calls for     *)
(* stays owed.                                                             *)
(*                                                                         *)
(* The server is external, so of its messages the proofs use only that     *)
(* they arrive in order; in particular nothing is assumed of their data.   *)
(***************************************************************************)
EXTENDS DataSync, StoreDataProofs, FiniteSetTheorems

(* Appending keeps what is there.                                          *)
LEMMA AppendSequence ==
  ASSUME NEW S, NEW s \in Seq(S), NEW e
  PROVE  /\ Append(s, e) \in Seq(S \cup {e})
         /\ \A i \in DOMAIN s : i \in DOMAIN Append(s, e) /\ Append(s, e)[i] = s[i]
         /\ Len(s) + 1 \in DOMAIN Append(s, e) /\ Append(s, e)[Len(s) + 1] = e
<1>1. s \in Seq(S \cup {e})
  OBVIOUS
<1> QED  BY <1>1

(* Taking the head keeps everything else.                                  *)
LEMMA TailSequence ==
  ASSUME NEW S, NEW s \in Seq(S), s # <<>>
  PROVE  /\ Tail(s) \in Seq(S)
         /\ \A i \in DOMAIN s : s[i] = Head(s) \/ \E j \in DOMAIN Tail(s) : Tail(s)[j] = s[i]
<1>1. Tail(s) \in Seq(S) /\ s[1] = Head(s)
  OBVIOUS
<1>2. \A i \in 2 .. Len(s) : i - 1 \in DOMAIN Tail(s) /\ Tail(s)[i - 1] = s[i]
  OBVIOUS
<1>3. \A i \in DOMAIN s : i = 1 \/ i \in 2 .. Len(s)
  OBVIOUS
<1> QED  BY <1>1, <1>2, <1>3
-----------------------------------------------------------------------------
(***************************************************************************)
(* The inductive invariant.                                                *)
(***************************************************************************)
(* The two directions of the connection are sequences of anything.         *)
SessionInv ==
    \E R, M : session \in [requests : Seq(R), inbox : Seq(M), subscribed : BOOLEAN,
                           delivered : BOOLEAN]

FlagsInv ==
    /\ initialized \in BOOLEAN /\ force \in BOOLEAN /\ awaiting \in BOOLEAN
    /\ unresolved \in BOOLEAN

(* The server still has to answer with a full data set, or has answered.   *)
Pending ==
    \/ \E i \in DOMAIN session.requests : session.requests[i] = 0
    \/ \E i \in DOMAIN session.inbox : session.inbox[i].type = "full"

(* Data comes before Ready, and Ready before `initialized'.                *)
DataInv ==
    /\ initialized => store.populated
    /\ status = "Ready" => initialized
    /\ worker = "announce" => store.populated

(* Where the obligation to fetch a full data set is kept: in `force'       *)
(* between two connections, in `awaiting' and on the wire within one.      *)
OwedInv ==
    /\ worker \in {"top", "connecting", "requesting", "backoff", "delaying"} /\ unresolved
           => force
    /\ worker = "connected" => (unresolved => awaiting) /\ (awaiting => Pending)
    /\ worker \in {"announce", "handle"} =>
           /\ awaiting /\ outcome # "full" => Pending
           /\ outcome = "full" => ~ unresolved
           /\ outcome = "conflict" => unresolved
           /\ unresolved /\ ~ awaiting => outcome = "conflict"

(* Where the status is known not to be Ready.                              *)
NotReadyInv ==
    /\ status = "Ready" => session.delivered \/ worker \in {"backoff", "exit", "signal"}
    /\ worker = "announce" => session.delivered
    /\ worker \in {"connecting", "requesting", "delaying", "resyncing"} => status # "Ready"
    /\ worker = "connected" /\ unresolved => status # "Ready"
    /\ worker = "handle" /\ unresolved /\ ~ awaiting => status # "Ready"

IInv == SessionInv /\ FlagsInv /\ DataInv /\ OwedInv /\ NotReadyInv

(* The initial state satisfies the inductive invariant.                    *)
LEMMA InitIInv == Init => IInv
<1> SUFFICES ASSUME Init PROVE IInv
  OBVIOUS
<1>1. session \in [requests : Seq({}), inbox : Seq({}), subscribed : BOOLEAN,
                   delivered : BOOLEAN]
  BY DEF Init, NoSession
<1>2. SessionInv
  BY <1>1 DEF SessionInv
<1>3. FlagsInv /\ DataInv /\ OwedInv /\ NotReadyInv
  BY DEF Init, FlagsInv, DataInv, OwedInv, NotReadyInv
<1> QED  BY <1>2, <1>3 DEF IInv
-----------------------------------------------------------------------------
(***************************************************************************)
(* What the steps do to the connection.                                    *)
(***************************************************************************)
(* A dropped connection is one.                                            *)
LEMMA DropSession ==
  ASSUME session' = NoSession
  PROVE  SessionInv'
<1>1. session' \in [requests : Seq({}), inbox : Seq({}), subscribed : BOOLEAN,
                    delivered : BOOLEAN]
  BY DEF NoSession
<1> QED  BY <1>1 DEF SessionInv

(* A message from the server leaves what is pending pending.               *)
LEMMA InboxGrows ==
  ASSUME SessionInv, NEW m, session' = [session EXCEPT !.inbox = Append(@, m)]
  PROVE  SessionInv' /\ (Pending => Pending') /\ session'.delivered = session.delivered
<1> PICK R, M : session \in [requests : Seq(R), inbox : Seq(M), subscribed : BOOLEAN,
                             delivered : BOOLEAN]
  BY DEF SessionInv
<1>1. session' \in [requests : Seq(R), inbox : Seq(M \cup {m}), subscribed : BOOLEAN,
                    delivered : BOOLEAN]
  BY AppendSequence
<1>2. session'.inbox = Append(session.inbox, m) /\ session'.requests = session.requests
      /\ session'.delivered = session.delivered
  OBVIOUS
<1>3. Pending => Pending'
  BY <1>2, AppendSequence DEF Pending
<1> QED  BY <1>1, <1>2, <1>3 DEF SessionInv

(* A request for everything is pending once it is sent.                    *)
LEMMA RequestGrows ==
  ASSUME SessionInv, NEW v, session' = [session EXCEPT !.requests = Append(@, v)]
  PROVE  SessionInv' /\ (v = 0 => Pending') /\ session'.delivered = session.delivered
<1> PICK R, M : session \in [requests : Seq(R), inbox : Seq(M), subscribed : BOOLEAN,
                             delivered : BOOLEAN]
  BY DEF SessionInv
<1>1. session' \in [requests : Seq(R \cup {v}), inbox : Seq(M), subscribed : BOOLEAN,
                    delivered : BOOLEAN]
  BY AppendSequence
<1>2. session'.requests = Append(session.requests, v) /\ session'.delivered = session.delivered
  OBVIOUS
<1>3. v = 0 => Pending'
  BY <1>2, AppendSequence DEF Pending
<1> QED  BY <1>1, <1>2, <1>3 DEF SessionInv

(* A message that is no full data set is not the pending one.              *)
LEMMA InboxShrinks ==
  ASSUME SessionInv, session.inbox # <<>>, NEW data \in BOOLEAN,
         session' = [session EXCEPT !.inbox = Tail(@), !.delivered = @ \/ data]
  PROVE  /\ SessionInv' /\ (Pending /\ Head(session.inbox).type # "full" => Pending')
         /\ session'.delivered <=> session.delivered \/ data
<1> PICK R, M : session \in [requests : Seq(R), inbox : Seq(M), subscribed : BOOLEAN,
                             delivered : BOOLEAN]
  BY DEF SessionInv
<1>1. session' \in [requests : Seq(R), inbox : Seq(M), subscribed : BOOLEAN,
                    delivered : BOOLEAN]
  BY TailSequence
<1>2. session'.inbox = Tail(session.inbox) /\ session'.requests = session.requests
      /\ (session'.delivered <=> session.delivered \/ data)
  OBVIOUS
<1>3. Pending /\ Head(session.inbox).type # "full" => Pending'
  BY <1>2, TailSequence DEF Pending
<1> QED  BY <1>1, <1>2, <1>3 DEF SessionInv

(* The server answers a request for everything with a full data set.       *)
LEMMA AnswerStep ==
  ASSUME SessionInv, ServerAnswers
  PROVE  SessionInv' /\ (Pending => Pending') /\ session'.delivered = session.delivered
<1> PICK R, M : session \in [requests : Seq(R), inbox : Seq(M), subscribed : BOOLEAN,
                             delivered : BOOLEAN]
  BY DEF SessionInv
<1> DEFINE stamp == Head(session.requests)
           reply == [type |-> IF stamp = 0 THEN "full" ELSE "patch",
                     data |-> EntriesNewerThan(stamp)]
<1>1. /\ session.requests # <<>>
      /\ session' = [session EXCEPT !.requests = Tail(@), !.inbox = Append(@, reply),
                                    !.subscribed = TRUE]
  BY DEF ServerAnswers
<1>2. stamp = 0 => reply.type = "full"
  OBVIOUS
<1> HIDE DEF reply
<1>3. session' \in [requests : Seq(R), inbox : Seq(M \cup {reply}), subscribed : BOOLEAN,
                    delivered : BOOLEAN]
  BY <1>1, AppendSequence, TailSequence
<1>4. session'.requests = Tail(session.requests)
      /\ session'.inbox = Append(session.inbox, reply) /\ session'.delivered = session.delivered
  BY <1>1
<1>5. ASSUME Pending PROVE Pending'
  <2>1. CASE \E i \in DOMAIN session.requests : session.requests[i] = 0
    <3>1. stamp = 0 \/ \E j \in DOMAIN Tail(session.requests) : Tail(session.requests)[j] = 0
      BY <1>1, <2>1, TailSequence
    <3> QED  BY <3>1, <1>2, <1>4, AppendSequence DEF Pending
  <2>2. CASE \E i \in DOMAIN session.inbox : session.inbox[i].type = "full"
    BY <2>2, <1>4, AppendSequence DEF Pending
  <2> QED  BY <1>5, <2>1, <2>2 DEF Pending
<1> QED  BY <1>3, <1>4, <1>5 DEF SessionInv
-----------------------------------------------------------------------------
(***************************************************************************)
(* Every step keeps the inductive invariant.                               *)
(***************************************************************************)
(* The steps of the server.                                                *)
LEMMA ServerStepIInv ==
  ASSUME IInv, ServerStep
  PROVE  IInv'
<1>1. UNCHANGED <<worker, loopVars, statusVars, store, unresolved>>
  BY DEF ServerStep, ServerAnswers, ServerEdits, ServerChatters, history
<1>2. SessionInv' /\ (Pending => Pending') /\ session'.delivered = session.delivered
  <2>1. CASE ServerAnswers
    BY <2>1, AnswerStep DEF IInv
  <2>2. CASE ServerEdits
    <3>1. PICK id \in Ids, at \in Stamps, body \in Bodies :
              Push([type |-> "patch", data |-> <<[id |-> id, at |-> at, body |-> body]>>])
      BY <2>2 DEF ServerEdits
    <3>2. CASE session' = session
      BY <3>2 DEF IInv, SessionInv, Pending
    <3>3. CASE session' # session
      BY <3>1, <3>3, InboxGrows DEF Push, IInv
    <3> QED  BY <3>2, <3>3
  <2>3. CASE ServerChatters
    BY <2>3, InboxGrows DEF ServerChatters, IInv
  <2> QED  BY <2>1, <2>2, <2>3 DEF ServerStep
<1> QED
  BY <1>1, <1>2
     DEF IInv, FlagsInv, DataInv, OwedInv, NotReadyInv, loopVars, statusVars

(* The steps of a thread in close publish Closed at most.                  *)
LEMMA CloserStepIInv ==
  ASSUME IInv, NEW c \in Closers, CloserStep(c)
  PROVE  IInv'
<1>1. UNCHANGED notClosing /\ (UNCHANGED statusVars \/ SetStatus("Closed"))
  BY DEF CloserStep, CloseSwap, CloseStop, CloseLate, CloseWaited, CloseMark, CloseComplete
<1>2. SessionInv' /\ (Pending <=> Pending') /\ session'.delivered = session.delivered
  BY <1>1 DEF notClosing, IInv, SessionInv, Pending
<1> QED
  BY <1>1, <1>2
     DEF IInv, FlagsInv, DataInv, OwedInv, NotReadyInv, notClosing, loopVars, statusVars,
         history, SetStatus

(* The steps of the worker that keep the connection as it is.              *)
LEMMA QuietStepIInv ==
  ASSUME IInv,
         \/ LoopTop \/ ConnectOk \/ ConnectFails \/ Announce \/ Handle
         \/ Backoff \/ DelayEnds \/ Exit \/ Signal
  PROVE  IInv'
<1>1. session' = session
  BY DEF LoopTop, ConnectOk, ConnectFails, Announce, Handle, Backoff, DelayEnds, Exit, Signal
<1>2. SessionInv' /\ (Pending <=> Pending') /\ session'.delivered = session.delivered
  BY <1>1 DEF IInv, SessionInv, Pending
<1> USE DEF IInv, FlagsInv, DataInv, OwedInv, NotReadyInv, loopVars, statusVars, history,
            SetStatus, SetStaleIfInitialized
<1>3. CASE LoopTop
  BY <1>2, <1>3 DEF LoopTop
<1>4. CASE ConnectOk
  BY <1>2, <1>4 DEF ConnectOk
<1>5. CASE ConnectFails
  BY <1>2, <1>5 DEF ConnectFails
<1>6. CASE Announce
  BY <1>2, <1>6 DEF Announce
<1>7. CASE Handle
  BY <1>2, <1>7 DEF Handle, KeepStale
<1>8. CASE Backoff
  BY <1>2, <1>8 DEF Backoff
<1>9. CASE DelayEnds
  BY <1>2, <1>9 DEF DelayEnds
<1>10. CASE Exit
  BY <1>2, <1>10 DEF Exit
<1>11. CASE Signal
  BY <1>2, <1>11 DEF Signal
<1> QED  BY <1>3, <1>4, <1>5, <1>6, <1>7, <1>8, <1>9, <1>10, <1>11

(* The steps of the worker that send a request.                            *)
LEMMA SendStepIInv ==
  ASSUME IInv, RequestSent \/ ResyncSent
  PROVE  IInv'
<1> USE DEF FlagsInv, DataInv, OwedInv, NotReadyInv, loopVars, statusVars, history
<1>1. CASE RequestSent
  <2>1. SessionInv' /\ (RequestedVersion = 0 => Pending') /\ session'.delivered = session.delivered
    BY <1>1, RequestGrows DEF RequestSent, IInv
  <2>2. force => RequestedVersion = 0
    BY DEF RequestedVersion
  <2> HIDE DEF RequestedVersion
  <2>3. /\ worker = "requesting" /\ worker' = "connected" /\ awaiting' = force
        /\ UNCHANGED <<force, outcome, status, initialized, store, unresolved>>
    BY <1>1 DEF RequestSent
  <2>4. FlagsInv' /\ DataInv' /\ OwedInv'
    BY <2>1, <2>2, <2>3 DEF IInv
  <2>5. NotReadyInv'
    BY <2>1, <2>3 DEF IInv
  <2> QED  BY <2>1, <2>4, <2>5 DEF IInv
<1>2. CASE ResyncSent
  <2>1. SessionInv' /\ Pending' /\ session'.delivered = session.delivered
    BY <1>2, RequestGrows DEF ResyncSent, IInv
  <2> QED  BY <1>2, <2>1 DEF ResyncSent, IInv
<1> QED  BY <1>1, <1>2

(* The steps of the worker that drop the connection.                       *)
LEMMA DropStepIInv ==
  ASSUME IInv, RequestFails \/ StopSeen \/ ResyncFails \/ SessionLost \/ Refused \/ Panic
  PROVE  IInv'
<1>1. SessionInv'
  BY DropSession
     DEF RequestFails, StopSeen, ResyncFails, SessionLost, Refused, Panic, EndConnection
<1> USE DEF IInv, FlagsInv, DataInv, OwedInv, NotReadyInv, loopVars, statusVars, history
<1>2. CASE RequestFails
  BY <1>1, <1>2 DEF RequestFails
<1>3. CASE StopSeen
  BY <1>1, <1>3 DEF StopSeen
<1>4. CASE ResyncFails
  BY <1>1, <1>4 DEF ResyncFails, EndConnection
<1>5. CASE SessionLost
  BY <1>1, <1>5 DEF SessionLost, EndConnection, ReconnectEnd
<1>6. CASE Refused
  BY <1>1, <1>6 DEF Refused, SetStatus
<1>7. CASE Panic
  BY <1>1, <1>7 DEF Panic
<1> QED  BY <1>2, <1>3, <1>4, <1>5, <1>6, <1>7

(* A message reaches the store.                                            *)
LEMMA ReceiveStepIInv ==
  ASSUME IInv, Receive
  PROVE  IInv'
<1> DEFINE message == Head(session.inbox)
<1>1. /\ SessionInv' /\ (Pending /\ message.type # "full" => Pending')
      /\ session'.delivered <=> session.delivered \/ outcome' # "ignored"
  BY InboxShrinks DEF Receive, IInv
<1>2. outcome' \in {"full", "patch", "conflict", "ignored"}
      /\ (outcome' = "full" <=> message.type = "full")
      /\ (outcome' # "ignored" <=> message.type \in {"full", "patch"})
  BY DEF Receive, OutcomeOf
<1>3. /\ message.type \in {"full", "patch"} => store'.populated
      /\ store.populated => store'.populated
  <2>1. message.type = "full" => store'.populated
    BY DEF Receive, PopulatedStore
  <2>2. message.type = "patch" => store'.populated
    <3> HAVE message.type = "patch"
    <3>1. store' = PatchedStore(store, message.data)
      BY DEF Receive
    <3> QED  BY <3>1 DEF PatchedStore
  <2>3. message.type \notin {"full", "patch"} => store' = store
    BY DEF Receive
  <2> QED  BY <2>1, <2>2, <2>3
<1>4. /\ worker = "connected" /\ UNCHANGED <<force, awaiting, statusVars>>
      /\ worker' = IF outcome' = "ignored" THEN "handle" ELSE "announce"
      /\ unresolved' = (outcome' = "conflict" \/ (unresolved /\ outcome' # "full"))
  BY DEF Receive
<1> HIDE DEF message
<1>5. FlagsInv' /\ DataInv'
  BY <1>2, <1>3, <1>4 DEF IInv, FlagsInv, DataInv, statusVars
<1>6. OwedInv' /\ NotReadyInv'
  BY <1>1, <1>2, <1>4 DEF IInv, FlagsInv, OwedInv, NotReadyInv, statusVars
<1> QED  BY <1>1, <1>5, <1>6 DEF IInv

(* The inductive invariant holds in every reachable state.                 *)
LEMMA Invariance == Spec => []IInv
<1>1. IInv /\ [Next]_vars => IInv'
  <2> SUFFICES ASSUME IInv, [Next]_vars PROVE IInv'
    OBVIOUS
  <2>1. CASE WorkerStep
    BY <2>1, QuietStepIInv, SendStepIInv, DropStepIInv, ReceiveStepIInv DEF WorkerStep
  <2>2. CASE ServerStep
    BY <2>2, ServerStepIInv
  <2>3. CASE \E c \in Closers : CloserStep(c)
    BY <2>3, CloserStepIInv
  <2>4. CASE UNCHANGED vars
    BY <2>4 DEF vars, loopVars, statusVars, history, IInv, SessionInv, FlagsInv, DataInv,
                OwedInv, NotReadyInv, Pending
  <2> QED  BY <2>1, <2>2, <2>3, <2>4 DEF Next
<1> QED  BY InitIInv, <1>1, PTL DEF Spec
-----------------------------------------------------------------------------
(* A client that counts as initialized evaluates from a data set.          *)
THEOREM InitializedHasData == Spec => []InitializedIsPopulated
<1>1. IInv => InitializedIsPopulated
  BY DEF IInv, DataInv, InitializedIsPopulated
<1> QED  BY Invariance, <1>1, PTL

(* While a connection is sought or has not brought a data set yet, and     *)
(* from the moment its loss is published, the client is never Ready, over  *)
(* any number of connections and messages.                                 *)
THEOREM DisconnectedNeverReady == Spec => []DisconnectedIsNotReady
<1>1. IInv => DisconnectedIsNotReady
  BY DEF IInv, NotReadyInv, DisconnectedIsNotReady
<1> QED  BY Invariance, <1>1, PTL

(* Between two messages an unresolved conflict keeps the client from being *)
(* Ready.                                                                  *)
THEOREM ConflictNeverReady == Spec => []ConflictIsNotReady
<1>1. IInv => ConflictIsNotReady
  BY DEF IInv, NotReadyInv, ConflictIsNotReady
<1> QED  BY Invariance, <1>1, PTL

(* The full data set a conflict calls for is never forgotten.              *)
THEOREM FullStaysOwed == Spec => []FullIsOwed
<1>1. IInv => FullIsOwed
  BY DEF IInv, OwedInv, Pending, FullIsOwed
<1> QED  BY Invariance, <1>1, PTL
-----------------------------------------------------------------------------
(***************************************************************************)
(* Types.  The server lists a finite set of objects, so its answers are    *)
(* data sets, and the effect of a data set on a store is a store.          *)
(***************************************************************************)
(* A finite set can be listed.                                             *)
LEMMA ListTypes ==
  ASSUME NEW S, IsFiniteSet(S)
  PROVE  SetToSeq(S) \in Seq(S)
<1>1. Cardinality(S) \in Nat
  BY FS_CardinalityType
<1>2. PICK f : f \in Bijection(1 .. Cardinality(S), S)
  BY FS_CardinalityType DEF ExistsBijection
<1>3. f \in [1 .. Cardinality(S) -> S] /\ IsInjective(f)
  BY <1>2 DEF Bijection, Injection, IsInjective
<1>4. SetToSeq(S) \in [1 .. Cardinality(S) -> S]
  BY <1>3 DEF SetToSeq
<1> QED  BY <1>1, <1>4

(* What the server answers is a data set.                                  *)
LEMMA AnswerTypes ==
  ASSUME truth \in ItemMaps, NEW stamp
  PROVE  EntriesNewerThan(stamp) \in Seq(Entry)
<1> DEFINE N == {i \in Stored(truth) : stamp = 0 \/ truth[i].at > stamp}
           E == {[id |-> id, at |-> truth[id].at, body |-> truth[id].body] : id \in N}
<1>1. IsFiniteSet(Ids)
  BY IdsAssumption, FS_Union DEF Ids
<1>2. N \subseteq Ids
  BY DEF Stored
<1>3. IsFiniteSet(E)
  <2> DEFINE f == [id \in N |-> [id |-> id, at |-> truth[id].at, body |-> truth[id].body]]
  <2>1. IsFiniteSet(N)
    BY <1>1, <1>2, FS_Subset
  <2>2. f \in Surjection(N, E)
    BY DEF Surjection
  <2> QED  BY <2>1, <2>2, FS_Surjection
<1>4. E \subseteq Entry
  BY DEF Stored, ItemMaps, Object, Entry
<1>5. SetToSeq(E) \in Seq(E)
  BY <1>3, ListTypes
<1> QED  BY <1>4, <1>5 DEF EntriesNewerThan

(* The stamp a connection asks for is one.                                 *)
LEMMA RequestTypes ==
  ASSUME TypeOK
  PROVE  RequestedVersion \in Stamps
<1>1. store.version \in Stamps /\ 0 \in Stamps
  BY StampsAreIntegers DEF TypeOK
<1> QED  BY <1>1, GreaterStamp DEF RequestedVersion

(* The attempt is a position of the list of delays, and so is the next.    *)
LEMMA AttemptTypes ==
  ASSUME TypeOK
  PROVE  /\ Len(Delays) \in Nat \ {0} /\ retry \in Nat /\ retry < Len(Delays)
         /\ retry + 1 \in DOMAIN Delays /\ NextAttempt \in 0 .. Len(Delays) - 1
         /\ retry + 1 < Len(Delays) => NextAttempt = retry + 1
         /\ retry + 1 = Len(Delays) => NextAttempt = 0
<1>1. Len(Delays) \in Nat \ {0} /\ DOMAIN Delays = 1 .. Len(Delays)
  BY DelaysAssumption
<1>2. retry \in Nat /\ retry < Len(Delays)
  BY <1>1 DEF TypeOK
<1>3. retry + 1 \in DOMAIN Delays
  BY <1>1, <1>2
<1>4. retry + 1 < Len(Delays) => NextAttempt = retry + 1
  BY <1>1, <1>2 DEF NextAttempt
<1>5. retry + 1 = Len(Delays) => NextAttempt = 0
  BY <1>1, <1>2 DEF NextAttempt
<1>6. NextAttempt \in 0 .. Len(Delays) - 1
  <2> DEFINE n == Len(Delays)
  <2>1. n \in Nat \ {0} /\ retry \in Nat /\ retry < n
        /\ (retry + 1 < n => NextAttempt = retry + 1) /\ (retry + 1 = n => NextAttempt = 0)
    BY <1>1, <1>2, <1>4, <1>5
  <2> HIDE DEF n
  <2>2. NextAttempt \in 0 .. n - 1
    BY <2>1
  <2> QED  BY <2>2 DEF n
<1> QED  BY <1>1, <1>2, <1>3, <1>4, <1>5, <1>6

(* No connection is one with nothing on its way.                           *)
LEMMA NoSessionTypes ==
  NoSession \in [requests : Seq(Stamps), inbox : Seq(Messages), subscribed : BOOLEAN,
                 delivered : BOOLEAN]
  BY DEF NoSession

(* The first state is typed.                                               *)
LEMMA InitTypes == Init => TypeOK
<1> SUFFICES ASSUME Init PROVE TypeOK
  OBVIOUS
<1>1. EmptyStore \in [items : ItemMaps, version : Stamps, populated : BOOLEAN]
  BY EmptyItems, StampsAreIntegers DEF EmptyStore
<1>2. retry \in 0 .. Len(Delays) - 1 /\ failures \in 0 .. MaxFailures /\ zeroRun \in Nat
  BY DelaysAssumption, BoundsAssumption DEF Init
<1>3. /\ store \in [items : ItemMaps, version : Stamps, populated : BOOLEAN]
      /\ session \in [requests : Seq(Stamps), inbox : Seq(Messages), subscribed : BOOLEAN,
                      delivered : BOOLEAN]
      /\ truth \in ItemMaps
  BY <1>1, EmptyItems, NoSessionTypes DEF Init
<1> QED
  BY <1>2, <1>3 DEF Init, TypeOK, Statuses

(* The steps of the worker that keep store and connection.                 *)
LEMMA QuietStepTypes ==
  ASSUME TypeOK,
         \/ LoopTop \/ ConnectOk \/ ConnectFails \/ Announce \/ Handle
         \/ Backoff \/ DelayEnds \/ Exit \/ Signal
  PROVE  TypeOK'
<1> USE DEF TypeOK, Statuses, loopVars, statusVars, closeVars, history, SetStatus,
            SetStaleIfInitialized, Fail
<1>1. CASE LoopTop
  BY <1>1 DEF LoopTop
<1>2. CASE ConnectOk
  BY <1>2 DEF ConnectOk
<1>3. CASE ConnectFails
  BY <1>3, BoundsAssumption DEF ConnectFails
<1>4. CASE Announce
  BY <1>4 DEF Announce
<1>5. CASE Handle
  BY <1>5 DEF Handle, KeepStale
<1>6. CASE Backoff
  BY <1>6, AttemptTypes DEF Backoff
<1>7. CASE DelayEnds
  BY <1>7 DEF DelayEnds
<1>8. CASE Exit
  BY <1>8 DEF Exit
<1>9. CASE Signal
  BY <1>9 DEF Signal
<1> QED  BY <1>1, <1>2, <1>3, <1>4, <1>5, <1>6, <1>7, <1>8, <1>9

(* The steps of the worker that send a request.                            *)
LEMMA SendStepTypes ==
  ASSUME TypeOK, RequestSent \/ ResyncSent
  PROVE  TypeOK'
<1>1. PICK v \in Stamps : session' = [session EXCEPT !.requests = Append(@, v)]
  BY RequestTypes, StampsAreIntegers DEF RequestSent, ResyncSent
<1>2. session' \in [requests : Seq(Stamps), inbox : Seq(Messages), subscribed : BOOLEAN,
                    delivered : BOOLEAN]
  <2>1. session \in [requests : Seq(Stamps), inbox : Seq(Messages), subscribed : BOOLEAN,
                     delivered : BOOLEAN]
    BY DEF TypeOK
  <2>2. Append(session.requests, v) \in Seq(Stamps)
    BY <1>1, <2>1
  <2> QED  BY <1>1, <2>1, <2>2
<1> QED
  BY <1>2 DEF RequestSent, ResyncSent, TypeOK, statusVars, closeVars, history

(* The steps of the worker that drop the connection.                       *)
LEMMA DropStepTypes ==
  ASSUME TypeOK, RequestFails \/ StopSeen \/ ResyncFails \/ SessionLost \/ Refused \/ Panic
  PROVE  TypeOK'
<1> USE NoSessionTypes, BoundsAssumption
    DEF TypeOK, Statuses, loopVars, statusVars, closeVars, history, SetStatus, Fail
<1>1. CASE RequestFails
  BY <1>1 DEF RequestFails
<1>2. CASE StopSeen
  BY <1>2 DEF StopSeen
<1>3. 0 \in 0 .. Len(Delays) - 1
  BY DelaysAssumption
<1>4. CASE ResyncFails
  BY <1>3, <1>4 DEF ResyncFails, EndConnection
<1>5. CASE SessionLost
  BY <1>3, <1>5 DEF SessionLost, EndConnection, ReconnectEnd
<1>6. CASE Refused
  BY <1>6 DEF Refused
<1>7. CASE Panic
  BY <1>7 DEF Panic
<1> QED  BY <1>1, <1>2, <1>4, <1>5, <1>6, <1>7

(* A message reaches the store.                                            *)
LEMMA ReceiveStepTypes ==
  ASSUME TypeOK, Receive
  PROVE  TypeOK'
<1> DEFINE message == Head(session.inbox)
<1>1. message \in Messages /\ Tail(session.inbox) \in Seq(Messages)
  BY DEF Receive, TypeOK
<1>2. message.data \in Seq(Entry)
  BY <1>1 DEF Messages
<1>3. store' \in [items : ItemMaps, version : Stamps, populated : BOOLEAN]
  <2>1. CASE message.type = "full"
    <3>1. store' = PopulatedStore(message.data)
      BY <2>1 DEF Receive
    <3> QED  BY <3>1, <1>2, StoreTypes DEF TypeOK
  <2>2. CASE message.type = "patch"
    <3>1. store' = PatchedStore(store, message.data)
      BY <2>2 DEF Receive
    <3> QED  BY <3>1, <1>2, StoreTypes DEF TypeOK
  <2>3. CASE message.type \notin {"full", "patch"}
    BY <2>3 DEF Receive, TypeOK
  <2> QED  BY <2>1, <2>2, <2>3
<1>4. outcome' \in {"full", "patch", "ignored", "conflict"}
  BY DEF Receive, OutcomeOf
<1>5. session' \in [requests : Seq(Stamps), inbox : Seq(Messages), subscribed : BOOLEAN,
                    delivered : BOOLEAN]
  BY <1>1 DEF Receive, TypeOK
<1>6. unresolved' \in BOOLEAN /\ worker' \in {"announce", "handle"}
  BY DEF Receive, TypeOK
<1>7. UNCHANGED <<retry, force, awaiting, statusVars, truth, failures, closeVars, zeroRun>>
  BY DEF Receive
<1> QED
  BY <1>3, <1>4, <1>5, <1>6, <1>7 DEF TypeOK, statusVars, closeVars

(* The steps of the server.                                                *)
LEMMA ServerStepTypes ==
  ASSUME TypeOK, ServerStep
  PROVE  TypeOK'
<1> DEFINE Sessions == [requests : Seq(Stamps), inbox : Seq(Messages), subscribed : BOOLEAN,
                        delivered : BOOLEAN]
<1>1. ASSUME NEW m \in Messages, session' = [session EXCEPT !.inbox = Append(@, m)]
      PROVE  session' \in Sessions
  <2>1. session \in Sessions
    BY DEF TypeOK
  <2>2. Append(session.inbox, m) \in Seq(Messages)
    BY <1>1, <2>1
  <2> QED  BY <1>1, <2>1, <2>2
<1>2. session' \in Sessions /\ truth' \in ItemMaps
  <2>1. CASE ServerAnswers
    <3> DEFINE stamp == Head(session.requests)
               reply == [type |-> IF stamp = 0 THEN "full" ELSE "patch",
                         data |-> EntriesNewerThan(stamp)]
    <3>1. EntriesNewerThan(stamp) \in Seq(Entry)
      BY AnswerTypes DEF TypeOK
    <3>2. reply \in Messages
      BY <3>1 DEF Messages
    <3>3. session' = [session EXCEPT !.requests = Tail(@), !.inbox = Append(@, reply),
                                     !.subscribed = TRUE]
          /\ session.requests # <<>> /\ truth' = truth
      BY <2>1 DEF ServerAnswers
    <3> HIDE DEF reply
    <3>4. Tail(session.requests) \in Seq(Stamps) /\ Append(session.inbox, reply) \in Seq(Messages)
      <4>1. session.requests \in Seq(Stamps) /\ session.inbox \in Seq(Messages)
        BY DEF TypeOK
      <4> QED  BY <3>2, <3>3, <4>1
    <3>5. session \in Sessions
      BY DEF TypeOK
    <3>6. session' \in Sessions
      BY <3>3, <3>4, <3>5
    <3> QED  BY <3>3, <3>6 DEF TypeOK
  <2>2. CASE ServerEdits
    <3>1. PICK id \in Ids, at \in Stamps, body \in Bodies :
              /\ truth' = [truth EXCEPT ![id] = [at |-> at, body |-> body]]
              /\ Push([type |-> "patch", data |-> <<[id |-> id, at |-> at, body |-> body]>>])
      BY <2>2 DEF ServerEdits
    <3> DEFINE m == [type |-> "patch", data |-> <<[id |-> id, at |-> at, body |-> body]>>]
    <3>2. [id |-> id, at |-> at, body |-> body] \in Entry
      BY DEF Entry
    <3>3. m \in Messages
      BY <3>2 DEF Messages
    <3>4. session' = session \/ session' = [session EXCEPT !.inbox = Append(@, m)]
      BY <3>1 DEF Push
    <3>5. [at |-> at, body |-> body] \in Object
      BY DEF Object
    <3> HIDE DEF m
    <3>6. session' \in Sessions
      <4>1. CASE session' = session
        BY <4>1 DEF TypeOK
      <4>2. CASE session' = [session EXCEPT !.inbox = Append(@, m)]
        BY <1>1, <3>3, <4>2
      <4> QED  BY <3>4, <4>1, <4>2
    <3>7. truth' \in ItemMaps
      BY <3>1, <3>5 DEF TypeOK, ItemMaps
    <3> QED  BY <3>6, <3>7
  <2>3. CASE ServerChatters
    <3>1. [type |-> "other", data |-> <<>>] \in Messages
      BY DEF Messages
    <3> QED  BY <1>1, <2>3, <3>1 DEF ServerChatters, TypeOK
  <2> QED  BY <2>1, <2>2, <2>3 DEF ServerStep
<1>3. UNCHANGED <<worker, loopVars, statusVars, store, failures, closeVars, history>>
  BY DEF ServerStep, ServerAnswers, ServerEdits, ServerChatters
<1> QED
  BY <1>2, <1>3 DEF TypeOK, loopVars, statusVars, closeVars, history

(* The steps of a thread in close.                                         *)
LEMMA CloserStepTypes ==
  ASSUME TypeOK, NEW c \in Closers, CloserStep(c)
  PROVE  TypeOK'
<1>1. UNCHANGED notClosing
  BY DEF CloserStep, CloseSwap, CloseStop, CloseLate, CloseWaited, CloseMark, CloseComplete
<1>2. /\ closer' \in [Closers -> {"idle", "first", "late", "waiting", "lateWaiting", "marking",
                                  "lateMarking", "completing", "returned"}]
      /\ stop' \in BOOLEAN /\ closed' \in BOOLEAN /\ closeComplete' \in BOOLEAN
      /\ gaveUp' \in BOOLEAN /\ status' \in Statuses /\ initialized' \in BOOLEAN
  <2> USE DEF TypeOK, statusVars, SetStatus, Statuses
  <2>1. CASE CloseSwap(c)
    BY <2>1 DEF CloseSwap
  <2>2. CASE CloseStop(c)
    BY <2>2 DEF CloseStop
  <2>3. CASE CloseLate(c)
    BY <2>3 DEF CloseLate
  <2>4. CASE CloseWaited(c)
    BY <2>4 DEF CloseWaited
  <2>5. CASE CloseMark(c)
    BY <2>5 DEF CloseMark
  <2>6. CASE CloseComplete(c)
    BY <2>6 DEF CloseComplete
  <2> QED  BY <2>1, <2>2, <2>3, <2>4, <2>5, <2>6 DEF CloserStep
<1> QED
  BY <1>1, <1>2 DEF TypeOK, notClosing, loopVars, history

(* Every variable keeps its type, whatever the server sends.               *)
THEOREM TypeCorrect == Spec => []TypeOK
<1>1. TypeOK /\ [Next]_vars => TypeOK'
  <2> SUFFICES ASSUME TypeOK, [Next]_vars PROVE TypeOK'
    OBVIOUS
  <2>1. CASE WorkerStep
    BY <2>1, QuietStepTypes, SendStepTypes, DropStepTypes, ReceiveStepTypes DEF WorkerStep
  <2>2. CASE ServerStep
    BY <2>2, ServerStepTypes
  <2>3. CASE \E c \in Closers : CloserStep(c)
    BY <2>3, CloserStepTypes
  <2>4. CASE UNCHANGED vars
    BY <2>4 DEF vars, loopVars, statusVars, closeVars, history, TypeOK
  <2> QED  BY <2>1, <2>2, <2>3, <2>4 DEF Next
<1> QED  BY InitTypes, <1>1, PTL DEF Spec
-----------------------------------------------------------------------------
(***************************************************************************)
(* The delays.  `retry' is the position, from 0, of the delay that comes   *)
(* next, so the zeroRun delays before it, around the end of the list, are  *)
(* those waited since the last one that was not zero.                      *)
(***************************************************************************)
InRun(n, r, z, j) == (r - z < j /\ j =< r) \/ n + r - z < j

RoundInv ==
    /\ zeroRun < Len(Delays)
    /\ \A j \in 1 .. Len(Delays) :
           InRun(Len(Delays), retry, zeroRun, j) => Delays[j] = "zero"

(* Starting over, nothing is known of any delay.                           *)
LEMMA FreshRound ==
  ASSUME NEW n \in Nat \ {0}
  PROVE  0 < n /\ \A r \in 0 .. n - 1, j \in 1 .. n : ~ InRun(n, r, 0, j)
  BY DEF InRun

(* A zero delay makes the run longer; a run through all of them is none,   *)
(* for one of them is not zero.                                            *)
LEMMA BackoffRound ==
  ASSUME TypeOK, RoundInv, Backoff
  PROVE  RoundInv'
<1> DEFINE n == Len(Delays)
           Zeros(r, z) == \A j \in 1 .. n : InRun(n, r, z, j) => Delays[j] = "zero"
<1>1. /\ n \in Nat \ {0} /\ retry \in Nat /\ retry < n /\ retry + 1 \in 1 .. n
      /\ retry + 1 < n => retry' = retry + 1
      /\ retry + 1 = n => retry' = 0
  BY AttemptTypes, DelaysAssumption DEF Backoff
<1>2. zeroRun \in Nat /\ zeroRun < n /\ Zeros(retry, zeroRun)
  BY DEF TypeOK, RoundInv
<1>3. zeroRun' = IF Delays[retry + 1] = "zero" THEN zeroRun + 1 ELSE 0
  BY DEF Backoff
<1>4. PICK k \in 1 .. n : Delays[k] # "zero"
  BY DelaysAssumption
<1> HIDE DEF n, Zeros
<1>5. CASE Delays[retry + 1] = "zero"
  <2>1. zeroRun' = zeroRun + 1
    BY <1>3, <1>5
  <2>2. zeroRun + 1 < n
    <3>1. SUFFICES ASSUME zeroRun = n - 1 PROVE FALSE
      BY <1>1, <1>2
    <3>2. ASSUME NEW j \in 1 .. n PROVE Delays[j] = "zero"
      <4>1. CASE j = retry + 1
        BY <1>5, <4>1
      <4>2. CASE j # retry + 1
        <5>1. InRun(n, retry, zeroRun, j)
          BY <1>1, <1>2, <3>1, <4>2 DEF InRun
        <5> QED  BY <1>2, <5>1 DEF Zeros
      <4> QED  BY <4>1, <4>2
    <3> QED  BY <1>4, <3>2
  <2>3. Zeros(retry', zeroRun + 1)
    <3>1. SUFFICES ASSUME NEW j \in 1 .. n, InRun(n, retry', zeroRun + 1, j)
                   PROVE  Delays[j] = "zero"
      BY DEF Zeros
    <3>2. CASE j = retry + 1
      BY <1>5, <3>2
    <3>3. CASE j # retry + 1
      <4>1. retry + 1 < n \/ retry + 1 = n
        BY <1>1
      <4>2. InRun(n, retry, zeroRun, j)
        <5>1. CASE retry + 1 < n
          BY <1>1, <1>2, <3>1, <3>3, <5>1 DEF InRun
        <5>2. CASE retry + 1 = n
          BY <1>1, <1>2, <3>1, <3>3, <5>2 DEF InRun
        <5> QED  BY <4>1, <5>1, <5>2
      <4> QED  BY <1>2, <4>2 DEF Zeros
    <3> QED  BY <3>2, <3>3
  <2> QED  BY <2>1, <2>2, <2>3 DEF RoundInv, Zeros, n
<1>6. CASE Delays[retry + 1] # "zero"
  <2>1. zeroRun' = 0 /\ retry' \in Nat
    BY <1>1, <1>3, <1>6
  <2>2. 0 < n /\ Zeros(retry', 0)
    <3>1. retry' \in 0 .. n - 1
      BY <1>1, <2>1
    <3> QED  BY <1>1, <3>1, FreshRound DEF Zeros
  <2> QED  BY <2>1, <2>2 DEF RoundInv, Zeros, n
<1> QED  BY <1>5, <1>6

(* The end of a connection starts over or leaves the run as it is.         *)
LEMMA EndRound ==
  ASSUME TypeOK, RoundInv, ResyncFails \/ SessionLost
  PROVE  RoundInv'
<1>1. PICK lasted \in BOOLEAN :
          /\ retry' = IF Healthy(lasted) THEN 0 ELSE retry
          /\ zeroRun' = IF status = "Ready" /\ lasted THEN 0 ELSE zeroRun
  BY DEF ResyncFails, SessionLost, EndConnection
<1>2. CASE Healthy(lasted)
  <2>1. retry' = 0 /\ zeroRun' = 0
    BY <1>1, <1>2 DEF Healthy
  <2>2. Len(Delays) \in Nat \ {0} /\ 0 \in 0 .. Len(Delays) - 1
    BY AttemptTypes
  <2> QED  BY <2>1, <2>2, FreshRound DEF RoundInv
<1>3. CASE ~ Healthy(lasted)
  <2>1. retry' = retry /\ zeroRun' = zeroRun
    BY <1>1, <1>3 DEF Healthy
  <2> QED  BY <2>1 DEF RoundInv
<1> QED  BY <1>2, <1>3

(* Without a healthy session in between, a delay of every round through    *)
(* the list is waited: no server can make the client reconnect without a   *)
(* pause for good.                                                         *)
THEOREM DelaysAreWaited == Spec => []ZeroDelaysAreBounded
<1>1. Init => RoundInv
  <2> SUFFICES ASSUME Init PROVE RoundInv
    OBVIOUS
  <2>1. /\ Len(Delays) \in Nat \ {0} /\ 0 \in 0 .. Len(Delays) - 1
        /\ retry = 0 /\ zeroRun = 0
    BY DelaysAssumption DEF Init
  <2> QED  BY <2>1, FreshRound DEF RoundInv
<1>2. TypeOK /\ RoundInv /\ [Next]_vars => RoundInv'
  <2> SUFFICES ASSUME TypeOK, RoundInv, [Next]_vars PROVE RoundInv'
    OBVIOUS
  <2>1. CASE Backoff
    BY <2>1, BackoffRound
  <2>2. CASE ResyncFails \/ SessionLost
    BY <2>2, EndRound
  <2>3. CASE ~ Backoff /\ ~ ResyncFails /\ ~ SessionLost
    <3>1. UNCHANGED <<retry, zeroRun>>
      <4>1. CASE WorkerStep
        BY <2>3, <4>1
           DEF WorkerStep, LoopTop, ConnectOk, ConnectFails, RequestSent, RequestFails, StopSeen,
               Receive, Announce, Handle, ResyncSent, Refused, DelayEnds, Exit, Panic, Signal,
               loopVars, history
      <4>2. CASE ServerStep
        BY <4>2
           DEF ServerStep, ServerAnswers, ServerEdits, ServerChatters, loopVars, history
      <4>3. CASE \E c \in Closers : CloserStep(c)
        BY <4>3
           DEF CloserStep, CloseSwap, CloseStop, CloseLate, CloseWaited, CloseMark,
               CloseComplete, notClosing, loopVars, history
      <4>4. CASE UNCHANGED vars
        BY <4>4 DEF vars, loopVars, history
      <4> QED  BY <4>1, <4>2, <4>3, <4>4 DEF Next
    <3> QED  BY <3>1 DEF RoundInv
  <2> QED  BY <2>1, <2>2, <2>3
<1>3. RoundInv => ZeroDelaysAreBounded
  BY DEF RoundInv, ZeroDelaysAreBounded
<1> QED  BY <1>1, <1>2, <1>3, TypeCorrect, PTL DEF Spec
-----------------------------------------------------------------------------
(***************************************************************************)
(* close.  What a closing thread knows of the worker lies behind its wait: *)
(* the worker was done then, and it stays done.                            *)
(***************************************************************************)
Waited == {"marking", "lateMarking", "completing", "returned"}

CloseInv ==
    /\ worker = "done" => status = "Closed"
    /\ ~ gaveUp /\ closeComplete => worker = "done"
    /\ \A c \in Closers : ~ gaveUp /\ closer[c] \in Waited => worker = "done"

(* The worker's last step says Closed, and after it there is none.         *)
LEMMA WorkerStepClose ==
  ASSUME CloseInv, WorkerStep
  PROVE  CloseInv'
<1>1. worker # "done" /\ UNCHANGED closeVars
  BY DEF WorkerStep, LoopTop, ConnectOk, ConnectFails, RequestSent, RequestFails, StopSeen,
         Receive, Announce, Handle, ResyncSent, ResyncFails, SessionLost, Refused, Backoff,
         DelayEnds, Exit, Panic, Signal
<1>2. worker' = "done" => status' = "Closed"
  <2> SUFFICES ASSUME worker' = "done" PROVE status' = "Closed"
    OBVIOUS
  <2>1. Signal
    BY DEF WorkerStep, LoopTop, ConnectOk, ConnectFails, RequestSent, RequestFails, StopSeen,
           Receive, Announce, Handle, ResyncSent, ResyncFails, SessionLost, Refused, Backoff,
           DelayEnds, Exit, Panic, Signal, EndConnection
  <2> QED  BY <2>1 DEF Signal, SetStatus
<1> QED  BY <1>1, <1>2 DEF CloseInv, closeVars

(* A thread in close goes on once the worker is done, or gives up.         *)
LEMMA CloserStepClose ==
  ASSUME TypeOK, CloseInv, NEW c \in Closers, CloserStep(c)
  PROVE  CloseInv'
<1>1. worker' = worker /\ (status' = status \/ status' = "Closed")
  BY DEF CloserStep, CloseSwap, CloseStop, CloseLate, CloseWaited, CloseMark, CloseComplete,
         notClosing, statusVars, SetStatus
<1>2. \A d \in Closers \ {c} : closer'[d] = closer[d]
  BY DEF TypeOK, CloserStep, CloseSwap, CloseStop, CloseLate, CloseWaited, CloseMark,
         CloseComplete
<1>3. /\ ~ gaveUp' => ~ gaveUp
      /\ ~ gaveUp' /\ closeComplete' => worker = "done"
      /\ ~ gaveUp' /\ closer'[c] \in Waited => worker = "done"
  <2> USE DEF CloseInv, TypeOK, Waited
  <2>1. CASE CloseSwap(c)
    BY <2>1 DEF CloseSwap
  <2>2. CASE CloseStop(c)
    BY <2>2 DEF CloseStop
  <2>3. CASE CloseLate(c)
    BY <2>3 DEF CloseLate
  <2>4. CASE CloseWaited(c)
    BY <2>4 DEF CloseWaited
  <2>5. CASE CloseMark(c)
    BY <2>5 DEF CloseMark
  <2>6. CASE CloseComplete(c)
    BY <2>6 DEF CloseComplete
  <2> QED  BY <2>1, <2>2, <2>3, <2>4, <2>5, <2>6 DEF CloserStep
<1> QED  BY <1>1, <1>2, <1>3 DEF CloseInv

(* The invariant of close holds in every reachable state.                  *)
LEMMA CloseInvariance == Spec => []CloseInv
<1>1. Init => CloseInv
  BY DEF Init, CloseInv, Waited
<1>2. TypeOK /\ CloseInv /\ [Next]_vars => CloseInv'
  <2> SUFFICES ASSUME TypeOK, CloseInv, [Next]_vars PROVE CloseInv'
    OBVIOUS
  <2>1. CASE WorkerStep
    BY <2>1, WorkerStepClose
  <2>2. CASE ServerStep
    BY <2>2
       DEF ServerStep, ServerAnswers, ServerEdits, ServerChatters, CloseInv, statusVars, closeVars
  <2>3. CASE \E c \in Closers : CloserStep(c)
    BY <2>3, CloserStepClose
  <2>4. CASE UNCHANGED vars
    BY <2>4 DEF vars, statusVars, closeVars, CloseInv
  <2> QED  BY <2>1, <2>2, <2>3, <2>4 DEF Next
<1> QED  BY <1>1, <1>2, TypeCorrect, PTL DEF Spec

(* For each of any number of threads that close: when it returns and no    *)
(* close gave up on the worker, the worker is gone and the status Closed.  *)
THEOREM CloseWaits == Spec => []CloseWaitsForWorker
<1>1. CloseInv => CloseWaitsForWorker
  BY DEF CloseInv, CloseWaitsForWorker, Waited
<1> QED  BY CloseInvariance, <1>1, PTL
-----------------------------------------------------------------------------
(***************************************************************************)
(* The synchronizer implements what Synchronizer promises.  Ready and      *)
(* Stale are announced from data, so wherever the worker is about to       *)
(* announce, the store has some.                                           *)
(***************************************************************************)
OwedHasData ==
    /\ awaiting \/ force => store.populated
    /\ worker = "resyncing" => store.populated
    /\ worker \in {"announce", "handle"} /\ outcome = "conflict" => store.populated

(* The obligation to fetch a full data set arises from a data set.         *)
LEMMA OwedHasDataStep ==
  ASSUME TypeOK, IInv, OwedHasData, [Next]_vars
  PROVE  OwedHasData'
<1> USE DEF OwedHasData
<1>1. CASE WorkerStep
  <2>1. CASE Receive
    <3> DEFINE message == Head(session.inbox)
    <3>1. /\ message.type = "full" => store' = PopulatedStore(message.data)
          /\ message.type = "patch" => store' = PatchedStore(store, message.data)
          /\ message.type \notin {"full", "patch"} => store' = store
      BY <2>1 DEF Receive
    <3>2. outcome' = "conflict" => message.type = "patch"
      BY <2>1 DEF Receive, OutcomeOf
    <3>3. message.type = "full" => store'.populated
      BY <3>1 DEF PopulatedStore
    <3>4. message.type = "patch" => store'.populated
      <4> HAVE message.type = "patch"
      <4>1. store' = PatchedStore(store, message.data)
        BY <3>1
      <4> QED  BY <4>1 DEF PatchedStore
    <3>5. UNCHANGED <<awaiting, force>> /\ worker' # "resyncing"
      BY <2>1 DEF Receive
    <3> HIDE DEF message
    <3> QED  BY <3>1, <3>2, <3>3, <3>4, <3>5
  <2>2. CASE Handle
    BY <2>2 DEF Handle, KeepStale, IInv, DataInv
  <2>3. CASE ~ Receive /\ ~ Handle
    BY <1>1, <2>3
       DEF WorkerStep, LoopTop, ConnectOk, ConnectFails, RequestSent, RequestFails, StopSeen,
           Announce, ResyncSent, ResyncFails, SessionLost, Refused, Backoff, DelayEnds, Exit,
           Panic, Signal, EndConnection, ReconnectEnd, loopVars, SetStatus
  <2> QED  BY <2>1, <2>2, <2>3
<1>2. CASE ServerStep
  BY <1>2 DEF ServerStep, ServerAnswers, ServerEdits, ServerChatters, loopVars
<1>3. CASE \E c \in Closers : CloserStep(c)
  BY <1>3
     DEF CloserStep, CloseSwap, CloseStop, CloseLate, CloseWaited, CloseMark, CloseComplete,
         notClosing, loopVars
<1>4. CASE UNCHANGED vars
  BY <1>4 DEF vars, loopVars
<1> QED  BY <1>1, <1>2, <1>3, <1>4 DEF Next

(* The variables Synchronizer sees.                                        *)
SyncView == <<store, status, initialized, stop, worker = "done">>

Stores == [items : ItemMaps, version : Stamps, populated : {TRUE}]

(* A store with data is not the empty one.                                 *)
LEMMA PopulatedIsNotEmpty == store.populated => store # EmptyStore
  BY DEF EmptyStore

(* To say Stale of a snapshot that was served, or to say nothing.          *)
LEMMA StaleRefines ==
  ASSUME IInv, worker # "done", worker' # "done", UNCHANGED <<store, stop>>,
         SetStaleIfInitialized
  PROVE  Promised!AnnounceStale \/ UNCHANGED SyncView
<1>1. CASE initialized
  <2>1. store # EmptyStore
    BY <1>1, PopulatedIsNotEmpty DEF IInv, DataInv
  <2>2. status' = "Stale" /\ initialized' = (initialized \/ "Stale" = "Ready")
    BY <1>1 DEF SetStaleIfInitialized
  <2> QED  BY <2>1, <2>2 DEF Promised!AnnounceStale, Promised!SetStatus
<1>2. CASE ~ initialized
  BY <1>2 DEF SetStaleIfInitialized, SyncView
<1> QED  BY <1>1, <1>2

(* The worker's steps but the last.                                        *)
LEMMA WorkerRefines ==
  ASSUME TypeOK, IInv, OwedHasData, WorkerStep, ~ Signal
  PROVE  [Promised!SyncNext]_SyncView
<1>1. worker # "done" /\ worker' # "done" /\ stop' = stop
  BY DEF WorkerStep, LoopTop, ConnectOk, ConnectFails, RequestSent, RequestFails, StopSeen,
         Receive, Announce, Handle, ResyncSent, ResyncFails, SessionLost, Refused, Backoff,
         DelayEnds, Exit, Panic, EndConnection, closeVars
<1>2. CASE LoopTop \/ Backoff
  <2>1. store' = store /\ (SetStaleIfInitialized \/ UNCHANGED statusVars)
    BY <1>2 DEF LoopTop, Backoff
  <2>2. CASE SetStaleIfInitialized
    BY <1>1, <2>1, <2>2, StaleRefines DEF Promised!SyncNext, Promised!WorkerTurn
  <2>3. CASE UNCHANGED statusVars
    BY <1>1, <2>1, <2>3 DEF statusVars, SyncView
  <2> QED  BY <2>1, <2>2, <2>3
<1>3. CASE Receive
  <2> DEFINE message == Head(session.inbox)
  <2>1. UNCHANGED <<status, initialized>>
    BY <1>3 DEF Receive, statusVars
  <2>2. store' = store \/ store' \in Stores
    <3>1. message.data \in Seq(Entry)
      <4>1. message \in Messages
        BY <1>3 DEF Receive, TypeOK
      <4> QED  BY <4>1 DEF Messages
    <3>2. store \in [items : ItemMaps, version : Stamps, populated : BOOLEAN]
      BY DEF TypeOK
    <3>3. CASE message.type = "full"
      <4>1. store' = PopulatedStore(message.data)
        BY <1>3, <3>3 DEF Receive
      <4> QED  BY <3>1, <3>2, <4>1, StoreTypes DEF Stores
    <3>4. CASE message.type = "patch"
      <4>1. store' = PatchedStore(store, message.data)
        BY <1>3, <3>4 DEF Receive
      <4> QED  BY <3>1, <3>2, <4>1, StoreTypes DEF Stores
    <3>5. CASE message.type \notin {"full", "patch"}
      BY <1>3, <3>5 DEF Receive
    <3> QED  BY <3>3, <3>4, <3>5
  <2>3. CASE store' = store
    BY <1>1, <2>1, <2>3 DEF SyncView
  <2>4. CASE store' \in Stores
    <3>1. Promised!StoreData
      BY <1>1, <2>1, <2>4 DEF Promised!StoreData, Stores
    <3> QED  BY <3>1 DEF Promised!SyncNext, Promised!WorkerTurn
  <2> QED  BY <2>2, <2>3, <2>4
<1>4. CASE Announce
  <2>1. store' = store /\ store # EmptyStore
        /\ (SetStatus("Stale") \/ SetStatus("Ready"))
    BY <1>4, PopulatedIsNotEmpty DEF Announce, IInv, DataInv
  <2> QED
    BY <1>1, <2>1
       DEF SetStatus, Promised!AnnounceReady, Promised!AnnounceStale, Promised!SetStatus,
           Promised!SyncNext, Promised!WorkerTurn
<1>5. CASE Handle
  <2>1. store' = store /\ KeepStale
    BY <1>5 DEF Handle
  <2>2. CASE awaiting /\ outcome # "full"
    <3>1. store # EmptyStore /\ SetStatus("Stale")
      BY <2>1, <2>2, PopulatedIsNotEmpty DEF KeepStale, OwedHasData
    <3> QED
      BY <1>1, <2>1, <3>1
         DEF SetStatus, Promised!AnnounceStale, Promised!SetStatus,
             Promised!SyncNext, Promised!WorkerTurn
  <2>3. CASE ~ (awaiting /\ outcome # "full")
    BY <1>1, <2>1, <2>3 DEF KeepStale, statusVars, SyncView
  <2> QED  BY <2>2, <2>3
<1>6. CASE Refused \/ Exit
  <2>1. store' = store /\ SetStatus("Closed")
    BY <1>6 DEF Refused, Exit
  <2> QED
    BY <1>1, <2>1
       DEF SetStatus, Promised!AnnounceClosed, Promised!SetStatus, Promised!SyncNext,
           Promised!WorkerTurn
<1>7. CASE \/ ConnectOk \/ ConnectFails \/ RequestSent \/ RequestFails \/ StopSeen
           \/ ResyncSent \/ ResyncFails \/ SessionLost \/ DelayEnds \/ Panic
  <2>1. UNCHANGED <<store, status, initialized>>
    BY <1>7
       DEF ConnectOk, ConnectFails, RequestSent, RequestFails, StopSeen, ResyncSent, ResyncFails,
           SessionLost, DelayEnds, Panic, EndConnection, statusVars
  <2> QED  BY <1>1, <2>1 DEF SyncView
<1> QED  BY <1>2, <1>3, <1>4, <1>5, <1>6, <1>7 DEF WorkerStep

(* The worker's last step is the promised end.                             *)
LEMMA SignalRefines ==
  ASSUME Signal
  PROVE  Promised!SyncNext
<1>1. /\ worker = "signal" /\ worker' = "done" /\ UNCHANGED <<store, stop>>
      /\ SetStatus("Closed")
  BY DEF Signal, closeVars
<1> QED
  BY <1>1 DEF SetStatus, Promised!End, Promised!SetStatus, Promised!SyncNext, Promised!WorkerTurn

(* A thread in close sets the stop signal, says Closed, or does nothing    *)
(* the client sees.                                                        *)
LEMMA CloserRefines ==
  ASSUME NEW c \in Closers, CloserStep(c)
  PROVE  [Promised!SyncNext]_SyncView
<1>1. worker' = worker /\ store' = store
  BY DEF CloserStep, CloseSwap, CloseStop, CloseLate, CloseWaited, CloseMark, CloseComplete,
         notClosing
<1>2. CASE CloseStop(c)
  <2>1. stop' = TRUE /\ UNCHANGED <<status, initialized>>
    BY <1>2 DEF CloseStop, statusVars
  <2> QED  BY <1>1, <2>1 DEF Promised!RequestStop, Promised!SyncNext
<1>3. CASE CloseMark(c)
  <2>1. stop' = stop /\ SetStatus("Closed")
    BY <1>3 DEF CloseMark
  <2> QED
    BY <1>1, <2>1
       DEF SetStatus, Promised!AnnounceClosed, Promised!SetStatus, Promised!SyncNext,
           Promised!WorkerTurn
<1>4. CASE CloseSwap(c) \/ CloseLate(c) \/ CloseWaited(c) \/ CloseComplete(c)
  <2>1. UNCHANGED <<stop, status, initialized>>
    BY <1>4 DEF CloseSwap, CloseLate, CloseWaited, CloseComplete, statusVars
  <2> QED  BY <1>1, <2>1 DEF SyncView
<1> QED  BY <1>2, <1>3, <1>4 DEF CloserStep

(* What the client is built on is what the synchronizer does: it says      *)
(* Ready and Stale of data only, and Closed when its worker is over.       *)
THEOREM KeepsPromise == Spec => ImplementsSynchronizer
<1>1. Init => Promised!SyncInit
  BY DEF Init, Promised!SyncInit
<1>2. Init => OwedHasData
  BY DEF Init, OwedHasData
<1>3. TypeOK /\ IInv /\ OwedHasData /\ [Next]_vars => [Promised!SyncNext]_(Promised!syncVars)
  <2> SUFFICES ASSUME TypeOK, IInv, OwedHasData, [Next]_vars
               PROVE  [Promised!SyncNext]_SyncView
    BY DEF SyncView, Promised!syncVars
  <2>1. CASE WorkerStep /\ ~ Signal
    BY <2>1, WorkerRefines
  <2>2. CASE Signal
    BY <2>2, SignalRefines
  <2>3. CASE ServerStep
    BY <2>3 DEF ServerStep, ServerAnswers, ServerEdits, ServerChatters, statusVars, closeVars,
                SyncView
  <2>4. CASE \E c \in Closers : CloserStep(c)
    BY <2>4, CloserRefines
  <2>5. CASE UNCHANGED vars
    BY <2>5 DEF vars, statusVars, closeVars, SyncView
  <2> QED  BY <2>1, <2>2, <2>3, <2>4, <2>5 DEF Next
<1> QED
  BY <1>1, <1>2, <1>3, OwedHasDataStep, Invariance, TypeCorrect, PTL
     DEF Spec, ImplementsSynchronizer, Promised!SyncSafety
=============================================================================

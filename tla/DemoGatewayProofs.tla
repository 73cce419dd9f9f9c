--------------------------- MODULE DemoGatewayProofs ---------------------------
(* Theorems of DemoGateway for every set of groups, volume and bound. *)
EXTENDS DemoGateway, TLAPS

\* An order names its group, and a leg of a group is an order.
LEMMA OrderFacts ==
  /\ \A o \in Orders : o[1] \in Groups /\ o \in OrdersOf(o[1])
  /\ \A g \in Groups : OrdersOf(g) \subseteq Orders /\ First(g) \in OrdersOf(g)
  /\ \A g \in Oco : g \in Groups /\ Second(g) \in OrdersOf(g)
BY GatewayAssumption DEF Orders, OrdersOf, Legs, First, Second

\* stateFromOrder never leaves the states of the contract.
LEMMA StateOfType ==
  \A status \in {"working"} \cup Terminal, v \in 0 .. Volume : StateOf(status, v) \in States
BY DEF StateOf, States, Terminal

LEMMA NextStateType == \A e \in Events : NextState(e) \in States
<1>1. \A kind \in Kinds : Status(kind) \in {"working"} \cup Terminal
  BY DEF Kinds, Status, Terminal
<1> QED BY <1>1, StateOfType DEF NextState, Events

\* applyExecution keeps the tracked orders and the latches in their types.
LEMMA ApplyType ==
  ASSUME TypeOK, NEW e \in Events \cup {NoEvent}
  PROVE  /\ OrderAfter(e) \in [Orders -> [id : BOOLEAN, state : States, filled : 0 .. Volume]]
         /\ LatchAfter(e) \in Latches
         /\ SlipAfter(e) \in Groups \cup {NoGroup}
<1>1. CASE e \in Events
  BY <1>1, NextStateType, OrderFacts DEF TypeOK, OrderAfter, LatchAfter, SlipAfter, Events, Latches
<1>2. CASE e = NoEvent
  <2>1. e.order \notin Orders
    BY <1>2, OrderFacts, GatewayAssumption DEF NoEvent
  <2> QED BY <2>1 DEF TypeOK, OrderAfter, LatchAfter, SlipAfter, Applies
<1> QED BY <1>1, <1>2


-----------------------------------------------------------------------------
(* Type correctness *)

OrderRecords == [Orders -> [id : BOOLEAN, state : States, filled : 0 .. Volume]]
PlaceRecords == [at : Steps, group : Groups \cup {NoGroup}]
CallRecords == [Calls -> [at : {"none", "sent", "answered", "failed", "settling"},
                             event : Events \cup {NoEvent}]]

LEMMA GoToType ==
  ASSUME TypeOK, NEW step \in Steps, GoTo(step)
  PROVE  place' \in PlaceRecords
BY DEF TypeOK, GoTo, PlaceRecords

LEMMA ReturnType ==
  ASSUME TypeOK, Return \/ Throw
  PROVE  place' \in PlaceRecords
BY DEF TypeOK, Return, Throw, GoTo, Steps, Ready, PlaceRecords

LEMMA RejectType ==
  ASSUME TypeOK, NEW S, Reject(S)
  PROVE  order' \in OrderRecords
BY DEF TypeOK, Reject, OrderRecords, States, Terminal

\* Issuing, settling and forgetting a promise.
LEMMA CallTypes ==
  ASSUME NEW calls \in CallRecords, NEW r \in Calls, NEW sent \in BOOLEAN
  PROVE  /\ Issued(calls, r, sent) \in CallRecords
         /\ Forget(calls, r) \in CallRecords
         /\ \A peers : PeerCalls(calls, peers, sent) \in CallRecords
BY DEF CallRecords, Issued, Forget, PeerCalls, Quiet

LEMMA RequestOf ==
  \A o \in Orders, op \in {"place", "undo", "peer", "cancel", "stray"} : <<op, o>> \in Calls
BY DEF Calls

LEMMA WireType ==
  ASSUME TypeOK, NEW sent \in BOOLEAN
  PROVE  /\ \A r \in Calls : OnWire(r, sent) \subseteq Calls
         /\ \A peers \in SUBSET Orders : PeerWire(peers, sent) \subseteq Calls
<1>1. wire \subseteq Calls
  BY DEF TypeOK
<1> QED BY <1>1, RequestOf DEF OnWire, PeerWire

LEMMA DispatchType ==
  ASSUME TypeOK, NEW o \in Orders, Dispatch(o)
  PROVE  call' \in CallRecords /\ wire' \subseteq Calls /\ sends' \in [Orders -> Nat]
<1>1. PICK sent \in BOOLEAN :
        /\ call' = Issued(call, <<"place", o>>, sent)
        /\ wire' = OnWire(<<"place", o>>, sent)
        /\ sends' = IF sent THEN [sends EXCEPT ![o] = @ + 1] ELSE sends
  BY DEF Dispatch, Sendable
<1>2. <<"place", o>> \in Calls /\ call \in CallRecords
  BY RequestOf DEF TypeOK, CallRecords
<1>3. call' \in CallRecords
  BY <1>1, <1>2, CallTypes
<1>4. wire' \subseteq Calls
  BY <1>1, <1>2, WireType
<1>5. sends' \in [Orders -> Nat]
  BY <1>1 DEF TypeOK
<1> QED BY <1>3, <1>4, <1>5

LEMMA UndoType ==
  ASSUME TypeOK, NEW o \in Orders, NEW calls \in CallRecords, Undo(calls, o)
  PROVE  call' \in CallRecords /\ wire' \subseteq Calls
<1>1. PICK sent \in BOOLEAN :
        /\ call' = Issued(calls, <<"undo", o>>, sent)
        /\ wire' = OnWire(<<"undo", o>>, sent)
  BY DEF Undo, Sendable
<1>2. <<"undo", o>> \in Calls
  BY RequestOf
<1>3. call' \in CallRecords
  BY <1>1, <1>2, CallTypes
<1>4. wire' \subseteq Calls
  BY <1>1, <1>2, WireType
<1> QED BY <1>3, <1>4

\* TypeOK with its record sets named.
LEMMA TypeParts ==
  TypeOK <=>
    /\ groups \subseteq Groups /\ tracked \subseteq Orders /\ order \in OrderRecords
    /\ latch \in Latches /\ slip \in Groups \cup {NoGroup} /\ place \in PlaceRecords
    /\ snap \in [working : SUBSET Orders, filled : [Orders -> 0 .. Volume], flat : BOOLEAN]
    /\ call \in CallRecords /\ sends \in [Orders -> Nat]
    /\ wire \subseteq Calls /\ feed \in Seq(Events) /\ up \in BOOLEAN
    /\ book \in [Orders -> [status : {"none", "working"} \cup Terminal, filled : 0 .. Volume]]
    /\ exposed \subseteq Orders /\ heard \subseteq Orders
    /\ drops \in Nat /\ restarts \in Nat
BY DEF TypeOK, OrderRecords, PlaceRecords, CallRecords

\* A call under way is about a group, and about a pair once it is past its first leg.
PairSteps == {"session3", "undoClosed", "closing", "placing2", "settle2", "undoFailed", "failing"}
PlaceInv ==
  /\ place.at \notin Ready => place.group \in Groups
  /\ place.at \in PairSteps => place.group \in Oco
TypeInv == TypeOK /\ PlaceInv

\* The steps before the first dispatch.
LEMMA PreflightType ==
  ASSUME TypeInv, Snapshot \/ Check1 \/ Session1 \/ Check2 \/ Readiness \/ SnapshotFails
  PROVE  TypeOK'
<1> USE DEF memory, socket, broker, history, TypeInv
<1>1. CASE Snapshot
  <2>1. place' \in PlaceRecords
    BY <1>1, GoToType DEF Snapshot, Steps
  <2>2. snap' \in [working : SUBSET Orders, filled : [Orders -> 0 .. Volume], flat : BOOLEAN]
    BY <1>1 DEF Snapshot, TypeOK
  <2> QED BY <1>1, <2>1, <2>2 DEF Snapshot, TypeOK, PlaceRecords
<1>2. CASE Check1
  <2> DEFINE g == place.group
             seen == OrdersOf(g) \cap snap.working
  <2>0. g \in Groups
    BY <1>2 DEF Check1, At, PlaceInv, Ready
  <2>1. place' \in PlaceRecords
    BY <1>2, GoToType, ReturnType DEF Check1, Steps
  <2>2. order' \in OrderRecords
    <3>1. CASE order' = order
      BY <3>1 DEF TypeOK, OrderRecords
    <3>2. CASE order' = [o \in Orders |-> IF o \in OrdersOf(g) THEN Fresh ELSE order[o]]
      BY <3>2, GatewayAssumption DEF TypeOK, OrderRecords, Fresh, States
    <3>3. CASE order' = [o \in Orders |->
                           IF o \in seen
                           THEN [id |-> TRUE, state |-> StateOf("working", snap.filled[o]),
                                 filled |-> snap.filled[o]]
                           ELSE order[o]]
      <4>1. \A o \in Orders : snap.filled[o] \in 0 .. Volume
        BY DEF TypeOK
      <4>2. \A o \in Orders : StateOf("working", snap.filled[o]) \in States
        BY <4>1, StateOfType
      <4> QED BY <3>3, <4>1, <4>2 DEF TypeOK, OrderRecords
    <3> QED BY <1>2, <3>1, <3>2, <3>3 DEF Check1
  <2>3. latch' \in Latches
    BY <1>2 DEF Check1, TypeOK, Latches
  <2>4. groups' \subseteq Groups /\ tracked' \subseteq Orders
    BY <1>2, <2>0, OrderFacts DEF Check1, TypeOK
  <2>5. snap' \in [working : SUBSET Orders, filled : [Orders -> 0 .. Volume], flat : BOOLEAN]
    BY <1>2, GatewayAssumption DEF Check1, Nothing
  <2> QED BY <1>2, <2>1, <2>2, <2>3, <2>4, <2>5 DEF Check1, TypeOK, PlaceRecords, OrderRecords
<1>3. CASE Session1
  <2>1. place' \in PlaceRecords
    BY <1>3, GoToType, ReturnType DEF Session1, Steps
  <2>2. order' \in OrderRecords
    BY <1>3, RejectType DEF Session1, TypeOK, OrderRecords
  <2> QED BY <1>3, <2>1, <2>2 DEF Session1, TypeOK, PlaceRecords, OrderRecords
<1>4. CASE Check2
  <2>1. place' \in PlaceRecords
    BY <1>4, GoToType, ReturnType DEF Check2, Steps
  <2>2. order' \in OrderRecords
    BY <1>4, RejectType DEF Check2, TypeOK, OrderRecords
  <2>3. snap' \in [working : SUBSET Orders, filled : [Orders -> 0 .. Volume], flat : BOOLEAN]
    BY <1>4, GatewayAssumption DEF Check2, Nothing
  <2> QED BY <1>4, <2>1, <2>2, <2>3 DEF Check2, TypeOK, PlaceRecords, OrderRecords
<1>5. CASE Readiness
  <2>1. place' \in PlaceRecords
    BY <1>5, GoToType, ReturnType DEF Readiness, Steps
  <2>2. order' \in OrderRecords
    BY <1>5, RejectType DEF Readiness, TypeOK, OrderRecords
  <2> QED BY <1>5, <2>1, <2>2 DEF Readiness, TypeOK, PlaceRecords, OrderRecords
<1>6. CASE SnapshotFails
  <2>1. place' \in PlaceRecords
    BY <1>6, ReturnType DEF SnapshotFails
  <2>2. order' \in OrderRecords
    BY <1>6, RejectType DEF SnapshotFails, TypeOK, OrderRecords
  <2> QED BY <1>6, <2>1, <2>2 DEF SnapshotFails, TypeOK, PlaceRecords, OrderRecords
<1> QED BY <1>1, <1>2, <1>3, <1>4, <1>5, <1>6

\* A promise handled: the call it settles holds an event ApplyExecution may take.
LEMMA AnswerType ==
  ASSUME TypeOK, NEW r \in Calls
  PROVE  /\ call[r].event \in Events \cup {NoEvent}
         /\ Forget(call, r) \in CallRecords
<1>1. call \in CallRecords
  BY TypeParts
<1>2. call[r].event \in Events \cup {NoEvent}
  BY <1>1 DEF CallRecords
<1>3. Forget(call, r) \in CallRecords
  BY <1>1, CallTypes
<1> QED BY <1>2, <1>3

\* What an answer does to the memory it may touch.
LEMMA EvidenceType ==
  ASSUME TypeOK, NEW e \in Events \cup {NoEvent}, ApplyExecution(e)
  PROVE  order' \in OrderRecords /\ latch' \in Latches /\ slip' \in Groups \cup {NoGroup}
BY ApplyType DEF ApplyExecution, OrderRecords

\* The steps from the first dispatch on.
LEMMA DispatchedType ==
  ASSUME TypeInv, Session2 \/ Placed1 \/ Settled1 \/ Session3 \/ UndoneClosed
                  \/ Placed2 \/ Settled2 \/ UndoneFailed \/ Thrown
  PROVE  TypeOK'
<1> USE DEF memory, socket, broker, history, TypeInv
<1> DEFINE g == place.group
<1>0. TypeOK /\ call \in CallRecords /\ order \in OrderRecords /\ wire \subseteq Calls
      /\ latch \in Latches
  BY TypeParts
<1>1. CASE Session2
  <2>1. First(g) \in Orders
    BY <1>1, OrderFacts DEF Session2, At, PlaceInv, Ready
  <2>2. place' \in PlaceRecords
    BY <1>1, GoToType, ReturnType DEF Session2, Steps
  <2>3. order' \in OrderRecords
    BY <1>0, <1>1, RejectType DEF Session2
  <2>4. call' \in CallRecords /\ wire' \subseteq Calls /\ sends' \in [Orders -> Nat]
    <3>1. CASE Dispatch(First(g))
      BY <2>1, <3>1, DispatchType
    <3>2. CASE UNCHANGED <<call, wire, sends>>
      BY <3>2 DEF TypeOK, CallRecords
    <3> QED BY <1>1, <3>1, <3>2 DEF Session2
  <2> QED BY <1>1, <2>2, <2>3, <2>4 DEF Session2, TypeOK, PlaceRecords, OrderRecords, CallRecords
<1>2. CASE Placed1
  <2> DEFINE r == <<"place", First(g)>>
  <2>1. r \in Calls
    BY <1>2, OrderFacts, RequestOf DEF Placed1, At, PlaceInv, Ready
  <2>2. place' \in PlaceRecords
    BY <1>2, GoToType, ReturnType DEF Placed1, Steps
  <2>3. order' \in OrderRecords /\ latch' \in Latches /\ slip' \in Groups \cup {NoGroup}
    <3>1. CASE ApplyExecution(call[r].event)
      BY <2>1, <3>1, AnswerType, EvidenceType
    <3>2. CASE UNCHANGED <<order, latch, slip>>
      BY <3>2 DEF TypeOK, OrderRecords
    <3> QED BY <1>2, <3>1, <3>2 DEF Placed1
  <2>4. call' \in CallRecords
    BY <1>2, <2>1, AnswerType DEF Placed1
  <2> QED BY <1>2, <2>2, <2>3, <2>4 DEF Placed1, TypeOK, PlaceRecords, OrderRecords, CallRecords
<1>3. CASE Settled1
  <2>1. place' \in PlaceRecords
    BY <1>3, GoToType, ReturnType DEF Settled1, Steps
  <2> QED BY <1>3, <2>1 DEF Settled1, TypeOK, PlaceRecords
<1>4. CASE Session3
  <2>1. First(g) \in Orders /\ Second(g) \in Orders
    BY <1>4, OrderFacts DEF Session3, At, PlaceInv, PairSteps
  <2>2. place' \in PlaceRecords
    BY <1>4, GoToType, ReturnType DEF Session3, Steps
  <2>3. order' \in OrderRecords
    BY <1>0, <1>4, RejectType DEF Session3
  <2>4. call' \in CallRecords /\ wire' \subseteq Calls /\ sends' \in [Orders -> Nat]
    <3>1. CASE Dispatch(Second(g))
      BY <2>1, <3>1, DispatchType
    <3>2. CASE Undo(call, First(g)) /\ UNCHANGED sends
      BY <1>0, <2>1, <3>2, UndoType DEF TypeOK
    <3>3. CASE UNCHANGED <<call, wire, sends>>
      BY <3>3 DEF TypeOK, CallRecords
    <3> QED BY <1>4, <3>1, <3>2, <3>3 DEF Session3
  <2> QED BY <1>4, <2>2, <2>3, <2>4 DEF Session3, TypeOK, PlaceRecords, OrderRecords, CallRecords
<1>5. CASE UndoneClosed \/ UndoneFailed
  <2> DEFINE r == <<"undo", First(g)>>
  <2>1. r \in Calls
    BY <1>5, OrderFacts, RequestOf DEF UndoneClosed, UndoneFailed, At, PlaceInv, Ready
  <2>2. place' \in PlaceRecords
    BY <1>5, GoToType DEF UndoneClosed, UndoneFailed, Steps
  <2>3. order' \in OrderRecords /\ latch' \in Latches /\ slip' \in Groups \cup {NoGroup}
    <3>1. CASE ApplyExecution(call[r].event)
      BY <2>1, <3>1, AnswerType, EvidenceType
    <3>2. CASE latch' = "SECOND_LEG_CANCELLATION" /\ UNCHANGED <<order, slip>>
      BY <3>2 DEF TypeOK, OrderRecords, Latches
    <3> QED BY <1>5, <3>1, <3>2 DEF UndoneClosed, UndoneFailed
  <2>4. call' \in CallRecords
    BY <1>5, <2>1, AnswerType DEF UndoneClosed, UndoneFailed
  <2> QED BY <1>5, <2>2, <2>3, <2>4
          DEF UndoneClosed, UndoneFailed, TypeOK, PlaceRecords, OrderRecords, CallRecords
<1>6. CASE Placed2
  <2> DEFINE r == <<"place", Second(g)>>
  <2>1. r \in Calls /\ g \in Oco
    BY <1>6, OrderFacts, RequestOf DEF Placed2, At, PlaceInv, PairSteps
  <2>2. First(g) \in Orders /\ OrdersOf(g) \subseteq Orders
    BY <2>1, OrderFacts
  <2>3. CASE Unwind(Forget(call, r)) /\ UNCHANGED <<order, latch, slip>>
    <3>1. call' \in CallRecords /\ wire' \subseteq Calls
      BY <1>0, <2>1, <2>2, <2>3, UndoType, AnswerType DEF Unwind
    <3>2. place' \in PlaceRecords
      BY <2>3, GoToType DEF Unwind, Steps
    <3> QED BY <1>6, <2>3, <3>1, <3>2 DEF Placed2, TypeOK, PlaceRecords, OrderRecords, CallRecords
  <2>4. ASSUME ApplyExecution(call[r].event), GoTo("settle2"),
               NEW sent \in BOOLEAN, NEW peers \in SUBSET Orders,
               call' = PeerCalls(Forget(call, r), peers, sent),
               wire' = PeerWire(peers, sent)
        PROVE  TypeOK'
    <3>1. order' \in OrderRecords /\ latch' \in Latches /\ slip' \in Groups \cup {NoGroup}
      BY <2>1, <2>4, AnswerType, EvidenceType
    <3>2. call' \in CallRecords
      BY <2>1, <2>4, AnswerType, CallTypes
    <3>3. wire' \subseteq Calls
      BY <2>4, WireType
    <3>4. place' \in PlaceRecords
      BY <2>4, GoToType DEF Steps
    <3> QED BY <1>6, <3>1, <3>2, <3>3, <3>4 DEF Placed2, TypeOK, PlaceRecords, OrderRecords, CallRecords
  <2>5. PeersToCancel(g, OrderAfter(call[r].event)) \in SUBSET Orders
    BY <2>2 DEF PeersToCancel
  <2>6. Sendable \subseteq BOOLEAN
    BY DEF Sendable
  <2> QED BY <1>6, <2>3, <2>4, <2>5, <2>6 DEF Placed2
<1>7. CASE Settled2
  <2>1. First(g) \in Orders
    BY <1>7, OrderFacts DEF Settled2, At, PlaceInv, PairSteps
  <2>2. place' \in PlaceRecords
    BY <1>7, GoToType, ReturnType DEF Settled2, Unwind, Steps
  <2>3. call' \in CallRecords /\ wire' \subseteq Calls
    BY <1>0, <1>7, <2>1, UndoType DEF Settled2, Unwind
  <2> QED BY <1>7, <2>2, <2>3 DEF Settled2, TypeOK, PlaceRecords, CallRecords
<1>8. CASE Thrown
  <2>1. place' \in PlaceRecords
    BY <1>8, ReturnType DEF Thrown
  <2> QED BY <1>8, <2>1 DEF Thrown, TypeOK, PlaceRecords
<1> QED BY <1>1, <1>2, <1>3, <1>4, <1>5, <1>6, <1>7, <1>8

\* What the broker sends is an event, and a socket holds no more than it can.
LEMMA EmitType ==
  ASSUME TypeOK, NEW e \in Events, Emit(<<e>>)
  PROVE  feed' \in Seq(Events)
<1>1. feed \in Seq(Events) /\ <<e>> \in Seq(Events)
  BY DEF TypeOK
<1> QED BY <1>1 DEF Emit

LEMMA EventType ==
  \A o \in Orders, kind \in Kinds, v \in 0 .. Volume, price \in {"within"} \cup Prices,
     r \in Calls \cup {NoRequest} : Event(o, kind, v, price, r) \in Events
BY DEF Event, Events

\* Callbacks, cancellations, acknowledgements, timeouts, and the process itself.
LEMMA CallbackType ==
  ASSUME TypeInv, NEW o \in Orders, NEW g \in Groups, NEW r \in Calls,
         PlaceCall(g) \/ PeerAnswered(o) \/ PeerDone(o) \/ CancelAnswered(o)
         \/ CancelCall(o) \/ AcknowledgeTerminal(g) \/ Timeout(r)
  PROVE  TypeOK'
<1> USE DEF memory, socket, broker, history, TypeInv
<1>0. call \in CallRecords /\ order \in OrderRecords /\ latch \in Latches
      /\ slip \in Groups \cup {NoGroup}
  BY TypeParts
<1>1. CASE PlaceCall(g)
  BY <1>1 DEF PlaceCall, TypeOK, Steps
<1>2. CASE PeerAnswered(o)
  <2>1. <<"peer", o>> \in Calls
    BY RequestOf
  <2>2. order' \in OrderRecords /\ latch' \in Latches /\ slip' \in Groups \cup {NoGroup}
    BY <1>2, <2>1, AnswerType, EvidenceType DEF PeerAnswered
  <2>3. call' \in CallRecords
    BY <1>0, <1>2, <2>1 DEF PeerAnswered, CallRecords
  <2> QED BY <1>2, <2>2, <2>3 DEF PeerAnswered, TypeOK, OrderRecords, CallRecords
<1>3. CASE PeerDone(o)
  <2>1. call' \in CallRecords
    BY <1>3, AnswerType, RequestOf DEF PeerDone
  <2> QED BY <1>3, <2>1 DEF PeerDone, TypeOK, CallRecords, Latches
<1>4. CASE CancelAnswered(o)
  <2>1. <<"cancel", o>> \in Calls /\ <<"stray", o>> \in Calls
    BY RequestOf
  <2>2. order' \in OrderRecords /\ latch' \in Latches /\ slip' \in Groups \cup {NoGroup}
    BY <1>0, <1>4, <2>1, AnswerType, EvidenceType DEF CancelAnswered
  <2>3. call' \in CallRecords
    BY <1>4, <2>1, AnswerType DEF CancelAnswered
  <2> QED BY <1>4, <2>2, <2>3 DEF CancelAnswered, TypeOK, OrderRecords, CallRecords
<1>5. CASE CancelCall(o)
  <2> DEFINE s == <<IF o \in tracked THEN "cancel" ELSE "stray", o>>
  <2>1. s \in Calls
    BY RequestOf
  <2>2. PICK sent \in BOOLEAN : call' = Issued(call, s, sent) /\ wire' = OnWire(s, sent)
    BY <1>5 DEF CancelCall, Sendable
  <2> HIDE DEF s
  <2>3. call' \in CallRecords /\ wire' \subseteq Calls
    BY <1>0, <2>1, <2>2, CallTypes, WireType
  <2> QED BY <1>5, <2>3 DEF CancelCall, TypeOK, CallRecords
<1>6. CASE AcknowledgeTerminal(g)
  <2>1. \A p \in OrdersOf(g) : p \in Orders
    BY OrderFacts
  <2>2. \A p \in OrdersOf(g) : order[p].id => book[p].status \in Terminal
    BY <1>6 DEF AcknowledgeTerminal, Proved, Terminal
  <2>3. order' \in OrderRecords
    BY <1>0, <1>6, <2>1, <2>2, GatewayAssumption
       DEF AcknowledgeTerminal, OrderRecords, States, Terminal, TypeOK
  <2>4. tracked' \subseteq Orders /\ latch' \in Latches /\ slip' \in Groups \cup {NoGroup}
    BY <1>0, <1>6 DEF AcknowledgeTerminal, TypeOK, Latches
  <2> QED BY <1>6, <2>3, <2>4 DEF AcknowledgeTerminal, TypeOK, OrderRecords
<1>7. CASE Timeout(r)
  <2>1. call' \in CallRecords
    BY <1>0, <1>7 DEF Timeout, CallRecords
  <2> QED BY <1>7, <2>1 DEF Timeout, TypeOK, CallRecords
<1> QED BY <1>1, <1>2, <1>3, <1>4, <1>5, <1>6, <1>7

LEMMA DeliverType ==
  ASSUME TypeInv, Deliver
  PROVE  TypeOK'
<1> USE DEF memory, socket, broker, history, TypeInv
<1> DEFINE e == Head(feed)
           settled == IF e.answers \in Calls /\ call[e.answers].at = "sent"
                      THEN [call EXCEPT ![e.answers] =
                              [at |-> IF e.kind = "error" THEN "failed" ELSE "answered",
                               event |-> IF e.kind = "error" THEN NoEvent ELSE e]]
                      ELSE call
           peers == IF e.kind # "error" /\ e.order \in tracked
                    THEN {p \in PeersToCancel(e.order[1], OrderAfter(e)) :
                            settled[<<"peer", p>>].at = "none"}
                    ELSE {}
<1>1. e \in Events /\ Tail(feed) \in Seq(Events)
  BY DEF Deliver, TypeOK
<1>2. e.order \in Orders /\ e.order[1] \in Groups
  BY <1>1, OrderFacts DEF Events
<1>3. settled \in CallRecords
  BY <1>1 DEF TypeOK, CallRecords
<1>4. peers \in SUBSET Orders
  <2>1. OrdersOf(e.order[1]) \subseteq Orders
    BY <1>2, OrderFacts
  <2> QED BY <2>1 DEF PeersToCancel
<1>5. PICK sent \in BOOLEAN : /\ call' = PeerCalls(settled, peers, sent)
                              /\ wire' = PeerWire(peers, sent)
  BY DEF Deliver, Sendable
<1>6. wire' \subseteq Calls
  BY <1>4, <1>5, WireType
<1>7. call' \in CallRecords
  <2> HIDE DEF settled, peers
  <2>1. PICK r \in Calls : TRUE
    BY <1>2, RequestOf
  <2> QED BY <1>3, <1>5, <2>1, CallTypes
<1>8. order' \in OrderRecords /\ latch' \in Latches /\ slip' \in Groups \cup {NoGroup}
  <2>1. CASE ApplyExecution(e)
    BY <1>1, <2>1, EvidenceType
  <2>2. CASE UNCHANGED <<order, latch, slip>>
    BY <2>2 DEF TypeOK, OrderRecords
  <2> QED BY <2>1, <2>2 DEF Deliver
<1>9. heard' \subseteq Orders /\ feed' \in Seq(Events)
  BY <1>1, <1>2 DEF Deliver, TypeOK
<1> HIDE DEF settled, peers
<1>10. UNCHANGED <<groups, tracked, place, snap, sends, up, book, exposed, drops, restarts>>
  BY DEF Deliver
<1> QED BY <1>6, <1>7, <1>8, <1>9, <1>10 DEF TypeOK, CallRecords, OrderRecords

\* The socket and the process.
LEMMA ProcessType ==
  ASSUME TypeInv, Disconnect \/ Restart \/ Connect
  PROVE  TypeOK'
<1> USE DEF memory, socket, broker, history, TypeInv
<1>0. call \in CallRecords /\ <<>> \in Seq(Events) /\ wire \subseteq Calls
  BY TypeParts
<1>1. CASE Disconnect
  <2>1. call' \in CallRecords
    BY <1>0, <1>1 DEF Disconnect, CallRecords
  <2>2. /\ wire' \subseteq Calls /\ feed' \in Seq(Events)
        /\ up' \in BOOLEAN /\ drops' \in Nat
    <3>1. wire' \subseteq Calls
      BY <1>0, <1>1 DEF Disconnect
    <3>2. feed' \in Seq(Events)
      BY <1>0, <1>1 DEF Disconnect
    <3>3. up' \in BOOLEAN
      BY <1>1 DEF Disconnect
    <3>4. drops' \in Nat
      BY <1>1 DEF Disconnect, TypeOK
    <3> QED BY <3>1, <3>2, <3>3, <3>4
  <2>3. UNCHANGED <<groups, tracked, order, latch, slip, place, snap, sends, book, exposed,
                    heard, restarts>>
    BY <1>1 DEF Disconnect
  <2> QED BY <2>1, <2>2, <2>3 DEF TypeOK, CallRecords
<1>2. CASE Restart
  <2>1. call' \in CallRecords
    BY <1>2 DEF Restart, CallRecords, Quiet
  <2>2. order' \in OrderRecords
    BY <1>2, GatewayAssumption DEF Restart, OrderRecords, Fresh, States
  <2>3. snap' \in [working : SUBSET Orders, filled : [Orders -> 0 .. Volume], flat : BOOLEAN]
    BY <1>2, GatewayAssumption DEF Restart, Nothing
  <2>4. place' \in PlaceRecords
    BY <1>2 DEF Restart, PlaceRecords, Idle, Steps, Ready
  <2>5. /\ wire' \subseteq Calls /\ feed' \in Seq(Events)
        /\ up' \in BOOLEAN /\ restarts' \in Nat
    <3>1. wire' \subseteq Calls
      BY <1>0, <1>2 DEF Restart
    <3>2. feed' \in Seq(Events)
      BY <1>0, <1>2 DEF Restart
    <3>3. up' \in BOOLEAN
      BY <1>2 DEF Restart
    <3>4. restarts' \in Nat
      BY <1>2 DEF Restart, TypeOK
    <3> QED BY <3>1, <3>2, <3>3, <3>4
  <2>6. /\ groups' = {} /\ tracked' = {} /\ heard' = {}
        /\ latch' \in Latches /\ slip' \in Groups \cup {NoGroup}
    BY <1>2 DEF Restart, Latches
  <2>7. sends' \in [Orders -> Nat]
    BY <1>2 DEF Restart
  <2>8. UNCHANGED <<book, exposed, drops>>
    BY <1>2 DEF Restart
  <2> QED BY <2>1, <2>2, <2>3, <2>4, <2>5, <2>6, <2>7, <2>8
          DEF TypeOK, CallRecords, OrderRecords, PlaceRecords
<1>3. CASE Connect
  BY <1>3 DEF Connect, TypeOK
<1> QED BY <1>1, <1>2, <1>3

BookRecords == [Orders -> [status : {"none", "working"} \cup Terminal, filled : 0 .. Volume]]

LEMMA BrokerType ==
  ASSUME TypeInv, NEW o \in Orders, NEW r \in Calls, r[2] = o,
         BrokerPlace(o) \/ BrokerCancel(r) \/ BrokerFill(o) \/ BrokerExpire(o) \/ BrokerClose(o)
  PROVE  TypeOK'
<1> USE DEF memory, socket, broker, history, TypeInv
<1>0. /\ book \in BookRecords /\ book[o].filled \in 0 .. Volume
      /\ wire \subseteq Calls /\ exposed \subseteq Orders
      /\ 0 \in 0 .. Volume /\ NoRequest \in Calls \cup {NoRequest}
  BY TypeParts, GatewayAssumption DEF BookRecords
<1>1. CASE BrokerPlace(o)
  <2>1. book' \in BookRecords
    BY <1>0, <1>1 DEF BrokerPlace, BookRecords, Terminal
  <2>2. feed' \in Seq(Events)
    <3>1. \A kind \in Kinds : Event(o, kind, 0, "within", <<"place", o>>) \in Events
      BY <1>0, EventType, RequestOf
    <3> QED BY <1>1, <3>1, EmitType DEF BrokerPlace, Kinds
  <2> QED BY <1>0, <1>1, <2>1, <2>2 DEF BrokerPlace, TypeOK, BookRecords
<1>2. CASE BrokerCancel(r)
  <2>1. book' \in BookRecords
    BY <1>0, <1>2 DEF BrokerCancel, BookRecords, Terminal
  <2>2. feed' \in Seq(Events)
    <3>1. \A kind \in Kinds, v \in 0 .. Volume : Event(o, kind, v, "within", r) \in Events
      BY EventType
    <3>2. Emit(<<Event(o, "cancelled", book[o].filled, "within", r)>>)
          \/ Emit(<<Event(o, "error", 0, "within", r)>>)
      BY <1>2 DEF BrokerCancel
    <3> QED BY <1>0, <3>1, <3>2, EmitType DEF Kinds
  <2> QED BY <1>0, <1>2, <2>1, <2>2 DEF BrokerCancel, TypeOK, BookRecords
<1>3. CASE BrokerFill(o)
  <2>1. PICK v \in (book[o].filled + 1) .. Volume, price \in Prices :
          /\ book' = [book EXCEPT ![o] =
                        [status |-> IF v = Volume THEN "FILLED" ELSE "working", filled |-> v]]
          /\ Emit(<<Event(o, IF v = Volume THEN "filled" ELSE "partial", v, price, NoRequest)>>)
    BY <1>3 DEF BrokerFill
  <2>2. v \in 0 .. Volume
    BY <1>0, <2>1, GatewayAssumption
  <2>3. book' \in BookRecords
    BY <1>0, <2>1, <2>2 DEF BookRecords, Terminal
  <2>4. Event(o, IF v = Volume THEN "filled" ELSE "partial", v, price, NoRequest) \in Events
    BY <2>2, EventType DEF Kinds
  <2>5. feed' \in Seq(Events)
    BY <2>1, <2>4, EmitType
  <2> QED BY <1>0, <1>3, <2>3, <2>5 DEF BrokerFill, TypeOK, BookRecords
<1>4. CASE BrokerExpire(o)
  <2>1. book' \in BookRecords
    BY <1>0, <1>4 DEF BrokerExpire, BookRecords, Terminal
  <2>2. Event(o, "expired", book[o].filled, "within", NoRequest) \in Events
    BY <1>0, EventType DEF Kinds
  <2>3. feed' \in Seq(Events)
    BY <1>4, <2>2, EmitType DEF BrokerExpire
  <2> QED BY <1>0, <1>4, <2>1, <2>3 DEF BrokerExpire, TypeOK, BookRecords
<1>5. CASE BrokerClose(o)
  BY <1>0, <1>5 DEF BrokerClose, TypeOK
<1> QED BY <1>1, <1>2, <1>3, <1>4, <1>5

\* A step of Next is an instance of one of the actions the lemmas are about.
LEMMA NextCases ==
  ASSUME Next
  PROVE  \/ Placement
         \/ Deliver
         \/ Disconnect \/ Restart \/ Connect
         \/ \E g \in Groups : PlaceCall(g) \/ AcknowledgeTerminal(g)
         \/ \E o \in Orders : PeerAnswered(o) \/ PeerDone(o) \/ CancelAnswered(o) \/ CancelCall(o)
         \/ \E r \in Calls : Timeout(r)
         \/ \E o \in Orders, r \in Calls :
              /\ r[2] = o
              /\ BrokerPlace(o) \/ BrokerCancel(r) \/ BrokerFill(o) \/ BrokerExpire(o) \/ BrokerClose(o)
<1>1. CASE Broker
  <2>1. PICK o \in Orders :
          \/ BrokerPlace(o) \/ BrokerFill(o) \/ BrokerExpire(o) \/ BrokerClose(o)
          \/ \E op \in {"undo", "peer", "cancel", "stray"} : BrokerCancel(<<op, o>>)
    BY <1>1 DEF Broker
  <2>2. \A op \in {"undo", "peer", "cancel", "stray"} : <<op, o>> \in Calls /\ <<op, o>>[2] = o
    BY RequestOf
  <2> QED BY <2>1, <2>2
<1> QED BY <1>1 DEF Next, Cancellation

\* Only a new call names a group, only a registered pair passes its first leg.
LEMMA PlaceInvStep ==
  ASSUME TypeInv, Next
  PROVE  PlaceInv'
<1> USE DEF memory, socket, broker, history, TypeInv, PlaceInv, PairSteps, Ready
<1>0. NoGroup \notin Groups /\ Oco \subseteq Groups
  BY GatewayAssumption
<1>1. CASE \E g \in Groups : PlaceCall(g)
  BY <1>0, <1>1 DEF PlaceCall
<1>2. CASE Placement
  <2>1. CASE Snapshot \/ Check1 \/ Session1 \/ Check2 \/ Readiness
    BY <1>0, <2>1 DEF Snapshot, Check1, Session1, Check2, Readiness, At, GoTo, Return, Throw
  <2>2. CASE Session2 \/ SnapshotFails \/ Placed1
    BY <1>0, <2>2 DEF Session2, SnapshotFails, Placed1, At, GoTo, Return, Throw
  <2>3. CASE Settled1 \/ Session3 \/ UndoneClosed
    BY <1>0, <2>3 DEF Settled1, Session3, UndoneClosed, At, GoTo, Return, Throw
  <2>4. CASE Placed2 \/ Settled2
    BY <1>0, <2>4 DEF Placed2, Settled2, Unwind, At, GoTo, Return, Throw
  <2>5. CASE UndoneFailed \/ Thrown
    BY <1>0, <2>5 DEF UndoneFailed, Thrown, At, GoTo, Return, Throw
  <2> QED BY <1>2, <2>1, <2>2, <2>3, <2>4, <2>5 DEF Placement
<1>3. CASE Restart
  BY <1>0, <1>3 DEF Restart, Idle
<1>4. CASE UNCHANGED place
  BY <1>4
<1>5. ASSUME ~(\E g \in Groups : PlaceCall(g)), ~Placement, ~Restart
      PROVE  UNCHANGED place
  BY <1>5, NextCases
     DEF Deliver, Disconnect, Connect, AcknowledgeTerminal, PeerAnswered, PeerDone,
         CancelAnswered, CancelCall, Timeout, BrokerPlace, BrokerCancel, BrokerFill,
         BrokerExpire, BrokerClose
<1> QED BY <1>1, <1>2, <1>3, <1>4, <1>5

\* Every step keeps the types.
LEMMA TypeStep ==
  ASSUME TypeInv, [Next]_vars
  PROVE  TypeInv'
<1>1. CASE Next
  <2>1. TypeOK'
    <3>1. CASE Placement
      BY <1>1, <3>1, PreflightType, DispatchedType DEF Placement
    <3>2. CASE \E g \in Groups : PlaceCall(g) \/ AcknowledgeTerminal(g)
      <4>1. PICK g \in Groups : PlaceCall(g) \/ AcknowledgeTerminal(g)
        BY <3>2
      <4>2. First(g) \in Orders /\ <<"place", First(g)>> \in Calls
        BY OrderFacts, RequestOf
      <4> QED BY <4>1, <4>2, CallbackType
    <3>3. CASE \E o \in Orders : PeerAnswered(o) \/ PeerDone(o) \/ CancelAnswered(o) \/ CancelCall(o)
      <4>1. PICK o \in Orders : PeerAnswered(o) \/ PeerDone(o) \/ CancelAnswered(o) \/ CancelCall(o)
        BY <3>3
      <4>2. o[1] \in Groups /\ <<"place", o>> \in Calls
        BY OrderFacts, RequestOf
      <4> QED BY <4>1, <4>2, CallbackType
    <3>4. CASE \E r \in Calls : Timeout(r)
      <4>1. PICK r \in Calls : Timeout(r)
        BY <3>4
      <4>2. r[2] \in Orders /\ r[2][1] \in Groups
        BY OrderFacts DEF Calls
      <4> QED BY <4>1, <4>2, CallbackType
    <3>5. CASE Deliver \/ Disconnect \/ Restart \/ Connect
      BY <3>5, DeliverType, ProcessType
    <3>6. CASE \E o \in Orders, r \in Calls :
                 /\ r[2] = o
                 /\ BrokerPlace(o) \/ BrokerCancel(r) \/ BrokerFill(o)
                    \/ BrokerExpire(o) \/ BrokerClose(o)
      BY <3>6, BrokerType
    <3> QED BY <1>1, <3>1, <3>2, <3>3, <3>4, <3>5, <3>6, NextCases
  <2> QED BY <1>1, <2>1, PlaceInvStep DEF TypeInv
<1>2. CASE UNCHANGED vars
  BY <1>2 DEF vars, memory, socket, broker, history, TypeInv, TypeOK, PlaceInv
<1> QED BY <1>1, <1>2

LEMMA TypeInit == Init => TypeInv
<1> SUFFICES ASSUME Init
             PROVE  TypeInv
  OBVIOUS
<1>1. PlaceInv
  BY DEF Init, PlaceInv, PairSteps, Idle, Ready
<1>2. order \in OrderRecords /\ call \in CallRecords /\ place \in PlaceRecords
  BY GatewayAssumption
     DEF Init, OrderRecords, CallRecords, PlaceRecords, Fresh, Quiet, Idle, States, Steps, Ready
<1>3. snap \in [working : SUBSET Orders, filled : [Orders -> 0 .. Volume], flat : BOOLEAN]
  BY GatewayAssumption DEF Init, Nothing
<1>4. book \in [Orders -> [status : {"none", "working"} \cup Terminal, filled : 0 .. Volume]]
  BY GatewayAssumption DEF Init, Unlisted
<1>5. /\ groups = {} /\ tracked = {} /\ exposed = {} /\ heard = {} /\ wire = {}
      /\ latch \in Latches /\ slip \in Groups \cup {NoGroup} /\ up \in BOOLEAN
      /\ sends \in [Orders -> Nat] /\ drops \in Nat /\ restarts \in Nat
  BY DEF Init, Latches
<1>6. feed \in Seq(Events)
  BY DEF Init
<1> QED BY <1>1, <1>2, <1>3, <1>4, <1>5, <1>6, TypeParts DEF TypeInv

\* The gateway's objects, promises, messages and the broker's book keep their types
\* in every interleaving of placements, callbacks, timeouts and restarts.
THEOREM TypeCorrect == Spec => []TypeOK
<1>1. TypeInv => TypeOK
  BY DEF TypeInv
<1> QED BY <1>1, TypeInit, TypeStep, PTL DEF Spec

-----------------------------------------------------------------------------
(* SentOnce *)

Unregistered == {"snapshot1", "check1"}
Preflight == {"session1", "snapshot2", "check2", "readiness", "session2"}
FirstLeg == {"placing1", "settle1", "session3"}
Rest == PairSteps \ {"session3"}

\* SentOnce is not inductive: a leg is sent from a step its placement passes once,
\* because the key was new when the call began and stays registered from then on.
SentInv ==
  /\ \A o \in Orders : o[1] \notin groups => sends[o] = 0
  /\ place.at \in Unregistered => place.group \notin groups
  /\ place.at \in Preflight => /\ place.group \in groups
                               /\ \A o \in OrdersOf(place.group) : sends[o] = 0
  /\ place.at \in FirstLeg => /\ place.group \in groups
                              /\ place.group \in Oco => sends[Second(place.group)] = 0
  /\ SentOnce

LEMMA DispatchCounts ==
  ASSUME TypeOK, NEW o \in Orders, Dispatch(o)
  PROVE  /\ sends'[o] <= sends[o] + 1
         /\ \A p \in Orders \ {o} : sends'[p] = sends[p]
<1>1. sends \in [Orders -> Nat]
  BY DEF TypeOK
<1>2. sends' = [sends EXCEPT ![o] = @ + 1] \/ sends' = sends
  BY DEF Dispatch
<1> QED BY <1>1, <1>2

\* What only calls, placements and restarts touch.
LEMMA ElsewhereUnchanged ==
  ASSUME Next, ~(\E g \in Groups : PlaceCall(g)), ~Placement, ~Restart
  PROVE  UNCHANGED <<groups, place, sends>>
BY NextCases
   DEF Deliver, Disconnect, Connect, AcknowledgeTerminal, PeerAnswered, PeerDone,
       CancelAnswered, CancelCall, Timeout, BrokerPlace, BrokerCancel, BrokerFill,
       BrokerExpire, BrokerClose, memory

\* The control of a placement: it stays in its phase, registers its group, sends a
\* leg, or is past the legs it sends.
PhaseKept ==
  /\ UNCHANGED <<groups, sends>>
  /\ \/ place'.at \in Ready \cup Rest
     \/ \E phase \in {Unregistered, Preflight, FirstLeg} : place.at \in phase /\ place'.at \in phase
Registered ==
  /\ UNCHANGED sends /\ groups' = groups \cup {place.group}
  /\ place.at = "check1" /\ place'.at \in {"returned", "session1"}
Sent1 ==
  /\ UNCHANGED groups /\ Dispatch(First(place.group))
  /\ place.at = "session2" /\ place'.at = "placing1"
Sent2 ==
  /\ UNCHANGED groups /\ Dispatch(Second(place.group))
  /\ place.at = "session3" /\ place'.at = "placing2"

LEMMA PlacementControl ==
  ASSUME Placement
  PROVE  place'.group = place.group /\ (PhaseKept \/ Registered \/ Sent1 \/ Sent2)
<1> USE DEF PhaseKept, Registered, Sent1, Sent2, Unregistered, Preflight, FirstLeg, Rest,
            PairSteps, Ready, At, GoTo, Return, Throw
<1>1. CASE Snapshot \/ Session1 \/ Check2 \/ Readiness \/ SnapshotFails
  BY <1>1 DEF Snapshot, Session1, Check2, Readiness, SnapshotFails
<1>2. CASE Check1
  BY <1>2 DEF Check1
<1>3. CASE Session2
  BY <1>3 DEF Session2
<1>4. CASE Placed1 \/ Settled1 \/ UndoneClosed \/ UndoneFailed \/ Thrown
  BY <1>4 DEF Placed1, Settled1, UndoneClosed, UndoneFailed, Thrown
<1>5. CASE Session3
  BY <1>5 DEF Session3
<1>6. CASE Placed2 \/ Settled2
  BY <1>6 DEF Placed2, Settled2, Unwind
<1> QED BY <1>1, <1>2, <1>3, <1>4, <1>5, <1>6 DEF Placement

LEMMA SentStep ==
  ASSUME TypeInv, SentInv, Next
  PROVE  SentInv'
<1> DEFINE g == place.group
<1> USE DEF Unregistered, Preflight, FirstLeg, Ready, Rest, PairSteps
<1>0. /\ TypeOK /\ sends \in [Orders -> Nat]
      /\ NoGroup \notin Groups /\ Oco \subseteq Groups
  BY TypeParts, GatewayAssumption DEF TypeInv
<1>1. CASE \E h \in Groups : PlaceCall(h)
  <2>1. PICK h \in Groups : PlaceCall(h)
    BY <1>1
  <2> QED BY <2>1 DEF PlaceCall, SentInv, SentOnce
<1>2. CASE Restart
  BY <1>2 DEF Restart, SentInv, SentOnce, Idle
<1>3. CASE UNCHANGED <<groups, place, sends>>
  BY <1>3 DEF SentInv, SentOnce
<1>4. CASE Placement
  <2>0. place'.group = g
    BY <1>4, PlacementControl
  <2>1. CASE PhaseKept
    BY <2>0, <2>1 DEF PhaseKept, SentInv, SentOnce
  <2>2. CASE Registered
    <3>1. g \in Groups /\ g \notin groups
      BY <2>2 DEF Registered, TypeInv, PlaceInv, SentInv
    <3>2. \A o \in OrdersOf(g) : o \in Orders /\ o[1] = g
      BY <3>1, OrderFacts DEF OrdersOf
    <3>3. \A o \in OrdersOf(g) : sends[o] = 0
      BY <3>1, <3>2 DEF SentInv
    <3> QED BY <2>0, <2>2, <3>3 DEF Registered, SentInv, SentOnce
  <2>3. CASE Sent1
    <3>1. g \in Groups /\ g \in groups
      BY <2>3 DEF Sent1, TypeInv, PlaceInv, SentInv
    <3>2. First(g) \in Orders /\ sends[First(g)] = 0
      BY <2>3, <3>1, OrderFacts DEF Sent1, SentInv
    <3>3. /\ sends'[First(g)] <= 1
          /\ \A p \in Orders \ {First(g)} : sends'[p] = sends[p]
      BY <1>0, <2>3, <3>2, DispatchCounts DEF Sent1
    <3>4. g \in Oco => Second(g) \in Orders /\ Second(g) # First(g) /\ sends[Second(g)] = 0
      BY <2>3, OrderFacts DEF Sent1, SentInv, First, Second
    <3>5. First(g)[1] = g
      BY DEF First
    <3>6. SentOnce'
      BY <3>3 DEF SentInv, SentOnce
    <3>7. \A o \in Orders : o[1] \notin groups => sends'[o] = 0
      BY <3>1, <3>3, <3>5 DEF SentInv
    <3> QED BY <2>0, <2>3, <3>1, <3>3, <3>4, <3>6, <3>7 DEF Sent1, SentInv
  <2>4. CASE Sent2
    <3>1. g \in Oco /\ g \in groups
      BY <2>4 DEF Sent2, TypeInv, PlaceInv, SentInv
    <3>2. Second(g) \in Orders /\ sends[Second(g)] = 0 /\ Second(g)[1] = g
      BY <2>4, <3>1, OrderFacts DEF Sent2, SentInv, Second
    <3>3. /\ sends'[Second(g)] <= 1
          /\ \A p \in Orders \ {Second(g)} : sends'[p] = sends[p]
      BY <1>0, <2>4, <3>2, DispatchCounts DEF Sent2
    <3>4. SentOnce'
      BY <3>3 DEF SentInv, SentOnce
    <3>5. \A o \in Orders : o[1] \notin groups => sends'[o] = 0
      BY <3>1, <3>2, <3>3 DEF SentInv
    <3> QED BY <2>0, <2>4, <3>4, <3>5 DEF Sent2, SentInv
  <2> QED BY <1>4, <2>1, <2>2, <2>3, <2>4, PlacementControl
<1> QED BY <1>1, <1>2, <1>3, <1>4, ElsewhereUnchanged

\* A process hands a client order to the transport at most once, whatever times
\* out, is withheld, is asked for again or is retired.
THEOREM NeverSentTwice == Spec => []SentOnce
<1>1. Init => SentInv
  BY DEF Init, SentInv, SentOnce, Idle, Unregistered, Preflight, FirstLeg
<1>2. TypeInv /\ SentInv /\ [Next]_vars => SentInv'
  <2>1. ASSUME SentInv, UNCHANGED vars
        PROVE  SentInv'
    BY <2>1 DEF vars, memory, SentInv, SentOnce
  <2> QED BY <2>1, SentStep
<1>3. SentInv => SentOnce
  BY DEF SentInv
<1> QED BY <1>1, <1>2, <1>3, TypeInit, TypeStep, PTL DEF Spec

-----------------------------------------------------------------------------
(* NeverErased and NoBlindSecondLeg *)

\* An order keeps its evidence: no fill shrinks and no end becomes pending again.
Kept(o) ==
  /\ order'[o].filled >= order[o].filled
  /\ order[o].state \in Terminal =>
       /\ order'[o].state # "PENDING"
       /\ order'[o].state \in Terminal \/ order'[o].filled > 0

\* A volume above zero or an end is what evidence beyond an acceptance says.
Over(o) == order[o].state \in Terminal \/ order[o].filled > 0

LEMMA NextStateCases ==
  ASSUME NEW e \in Events
  PROVE  /\ NextState(e) \in Terminal \cup {"PENDING"} \/ e.volume > 0
         /\ e.kind \in {"filled", "cancelled", "expired", "rejected"} =>
              NextState(e) \in Terminal \/ e.volume > 0
BY GatewayAssumption DEF Events, NextState, StateOf, Status, Terminal

LEMMA ApplyKept ==
  ASSUME TypeOK, NEW e \in Events \cup {NoEvent}, order' = OrderAfter(e), NEW o \in Orders
  PROVE  Kept(o)
<1>1. order \in OrderRecords
  BY TypeParts
<1>2. CASE ~Applies(e)
  BY <1>1, <1>2, GatewayAssumption DEF OrderAfter, Kept, OrderRecords, Terminal
<1>3. CASE Applies(e)
  <2>1. e \in Events
    BY <1>3, OrderFacts, GatewayAssumption DEF Applies, NoEvent, TypeOK
  <2>2. e.volume \in 0 .. Volume /\ e.order \in Orders
    BY <2>1 DEF Events
  <2>3. order' = [order EXCEPT ![e.order] =
                    [id |-> TRUE, state |-> NextState(e), filled |-> e.volume]]
    BY <1>3 DEF OrderAfter
  <2>4. CASE o # e.order
    BY <1>1, <2>3, <2>4, GatewayAssumption DEF Kept, OrderRecords, Terminal
  <2>5. CASE o = e.order
    BY <1>1, <1>3, <2>1, <2>2, <2>3, <2>5, NextStateCases, GatewayAssumption
       DEF Kept, OrderRecords, Applies, Terminal
  <2> QED BY <2>4, <2>5
<1> QED BY <1>2, <1>3

LEMMA RejectKept ==
  ASSUME TypeOK, NEW S, Reject(S), NEW o \in Orders
  PROVE  Kept(o)
BY TypeParts, GatewayAssumption DEF Reject, Kept, OrderRecords, Terminal

LEMMA SameKept ==
  ASSUME TypeOK, UNCHANGED order, NEW o \in Orders
  PROVE  Kept(o)
BY TypeParts, GatewayAssumption DEF Kept, OrderRecords, Terminal

\* Every step but a restart, an acknowledgement and the registration of a group
\* keeps the evidence of every order.
LEMMA KeptStep ==
  ASSUME TypeInv, Next, ~Restart, ~Check1, ~(\E g \in Groups : AcknowledgeTerminal(g)),
         NEW o \in Orders
  PROVE  Kept(o)
<1> USE DEF TypeInv
<1>0. TypeOK /\ \A r \in Calls : call[r].event \in Events \cup {NoEvent}
  BY AnswerType
<1>1. CASE Placement
  <2> DEFINE g == place.group
  <2>1. g \in Groups \/ place.at \in Ready
    BY DEF PlaceInv
  <2>2. First(g) \in Orders \/ place.at \in Ready
    BY <2>1, OrderFacts
  <2>3. CASE Snapshot \/ Session1 \/ Check2 \/ Readiness \/ SnapshotFails \/ Session2
             \/ Settled1 \/ Session3 \/ Settled2 \/ Thrown
    <3>1. UNCHANGED order \/ \E S : Reject(S)
      BY <2>3 DEF Snapshot, Session1, Check2, Readiness, SnapshotFails, Session2,
                  Settled1, Session3, Settled2, Thrown
    <3> QED BY <1>0, <3>1, RejectKept, SameKept
  <2>4. CASE Placed1
    <3>1. <<"place", First(g)>> \in Calls
      BY <2>2, <2>4, RequestOf DEF Placed1, At, Ready
    <3> QED BY <1>0, <2>4, <3>1, ApplyKept, SameKept DEF Placed1, ApplyExecution
  <2>5. CASE Placed2
    <3>1. <<"place", Second(g)>> \in Calls
      BY <2>5, OrderFacts, RequestOf DEF Placed2, At, PlaceInv, PairSteps
    <3> QED BY <1>0, <2>5, <3>1, ApplyKept, SameKept DEF Placed2, ApplyExecution
  <2>6. CASE UndoneClosed \/ UndoneFailed
    <3>1. <<"undo", First(g)>> \in Calls
      BY <2>2, <2>6, RequestOf DEF UndoneClosed, UndoneFailed, At, Ready
    <3> QED BY <1>0, <2>6, <3>1, ApplyKept, SameKept DEF UndoneClosed, UndoneFailed, ApplyExecution
  <2> QED BY <1>1, <2>3, <2>4, <2>5, <2>6 DEF Placement
<1>2. CASE Deliver
  <2>1. Head(feed) \in Events
    BY <1>2 DEF Deliver, TypeOK
  <2>2. UNCHANGED order \/ order' = OrderAfter(Head(feed))
    BY <1>2 DEF Deliver, ApplyExecution
  <2> QED BY <1>0, <2>1, <2>2, ApplyKept, SameKept
<1>3. CASE \E p \in Orders : PeerAnswered(p) \/ CancelAnswered(p)
  <2>1. PICK p \in Orders : PeerAnswered(p) \/ CancelAnswered(p)
    BY <1>3
  <2>2. <<"peer", p>> \in Calls /\ <<"cancel", p>> \in Calls
    BY RequestOf
  <2> QED BY <1>0, <2>1, <2>2, ApplyKept, SameKept DEF PeerAnswered, CancelAnswered, ApplyExecution
<1>4. ASSUME ~Placement, ~Deliver, ~(\E p \in Orders : PeerAnswered(p) \/ CancelAnswered(p))
      PROVE  UNCHANGED order
  BY <1>4, NextCases
     DEF PlaceCall, PeerDone, CancelCall, Timeout, Disconnect, Connect, BrokerPlace, BrokerCancel,
         BrokerFill, BrokerExpire, BrokerClose, memory
<1> QED BY <1>0, <1>1, <1>2, <1>3, <1>4, SameKept

\* What the broker may say of an order: an acceptance reports no fill, a partial fill is
\* neither empty nor whole, and only a NEW_ORDER is answered by an acceptance.
Sound(e) ==
  /\ e.kind = "accepted" => e.volume = 0
  /\ e.kind = "partial" => 0 < e.volume /\ e.volume < Volume
  /\ e.answers \in Calls => /\ e.order = e.answers[2]
                            /\ e.answers[1] # "place" => e.kind # "accepted"

\* What was heard stays visible in memory, every tracked order belongs to a
\* registered group, and what is in flight is sound.
HeardInv ==
  /\ \A o \in heard : o[1] \in groups /\ Over(o)
  /\ \A o \in tracked : o[1] \in groups
FeedInv == \A i \in 1 .. Len(feed) : Sound(feed[i])
GatewayInv == TypeInv /\ SentInv /\ HeardInv /\ FeedInv

LEMMA OverKept ==
  ASSUME TypeOK, TypeOK', NEW o \in Orders, Kept(o), Over(o)
  PROVE  Over(o)'
<1>1. order[o].filled \in 0 .. Volume /\ order'[o].filled \in 0 .. Volume
  BY DEF TypeOK
<1> QED BY <1>1, GatewayAssumption DEF Kept, Over

\* Delivered evidence of a fill or an end is visible afterwards, whether it was
\* applied or older than what the gateway already knew.
LEMMA DeliverHeard ==
  ASSUME TypeInv, FeedInv, Deliver, NEW o \in tracked, o = Head(feed).order,
         Head(feed).kind \notin {"accepted", "error"}
  PROVE  Over(o)'
<1> DEFINE e == Head(feed)
<1>1. e \in Events /\ e = feed[1] /\ 1 \in 1 .. Len(feed)
  BY DEF Deliver, TypeInv, TypeOK
<1>2. e.kind = "partial" => 0 < e.volume
  BY <1>1 DEF FeedInv, Sound
<1>3. /\ e.order = o /\ e.kind \notin {"accepted", "error"}
      /\ order \in OrderRecords /\ order' = OrderAfter(e)
  BY TypeParts DEF Deliver, ApplyExecution, TypeInv
<1> HIDE DEF e
<1>4. o \in Orders /\ e.volume \in 0 .. Volume /\ e.kind \in Kinds
  BY <1>1, <1>3 DEF Events
<1>5. NextState(e) \in Terminal \/ e.volume > 0
  BY <1>1, <1>2, <1>3, <1>4, NextStateCases DEF Kinds
<1>6. CASE Applies(e)
  <2>1. order'[o] = [id |-> TRUE, state |-> NextState(e), filled |-> e.volume]
    BY <1>3, <1>4, <1>6 DEF OrderAfter, OrderRecords
  <2> QED BY <1>5, <2>1 DEF Over
<1>7. CASE ~Applies(e)
  <2>1. order' = order
    BY <1>3, <1>7 DEF OrderAfter
  <2>2. order[o].filled \in 0 .. Volume
    BY <1>3, <1>4 DEF OrderRecords
  <2>3. order[o].filled > e.volume \/ order[o].state \in Terminal
    BY <1>3, <1>4, <1>7, <2>2, GatewayAssumption DEF Applies
  <2> QED BY <1>4, <2>1, <2>2, <2>3, GatewayAssumption DEF Over
<1> QED BY <1>6, <1>7

LEMMA FeedStep ==
  ASSUME TypeInv, FeedInv, Next
  PROVE  FeedInv'
<1> USE DEF memory, socket, broker, history, TypeInv
<1>0. feed \in Seq(Events)
  BY TypeParts
<1>1. ASSUME NEW e \in Events, Emit(<<e>>), Sound(e)
      PROVE  FeedInv'
  BY <1>0, <1>1 DEF Emit, FeedInv
<1>2. CASE Deliver
  BY <1>0, <1>2 DEF Deliver, FeedInv
<1>3. CASE feed' = <<>>
  BY <1>3 DEF FeedInv
<1>4. CASE UNCHANGED feed
  BY <1>4 DEF FeedInv
<1>5. CASE \E o \in Orders, r \in Calls :
             r[2] = o /\ (BrokerPlace(o) \/ BrokerCancel(r) \/ BrokerFill(o) \/ BrokerExpire(o))
  <2>1. PICK o \in Orders, r \in Calls :
               r[2] = o /\ (BrokerPlace(o) \/ BrokerCancel(r) \/ BrokerFill(o) \/ BrokerExpire(o))
    BY <1>5
  <2>2. <<"place", o>> \in Calls /\ book[o].filled \in 0 .. Volume /\ 0 \in 0 .. Volume
    <3>1. <<"place", o>> \in Calls
      BY RequestOf
    <3>2. book[o].filled \in 0 .. Volume
      BY TypeParts
    <3> QED BY <3>1, <3>2, GatewayAssumption
  <2>3. CASE BrokerFill(o)
    <3>1. PICK v \in (book[o].filled + 1) .. Volume, price \in Prices :
            Emit(<<Event(o, IF v = Volume THEN "filled" ELSE "partial", v, price, NoRequest)>>)
      BY <2>3 DEF BrokerFill
    <3>2. v \in 0 .. Volume /\ v > 0
      BY <2>2, <3>1, GatewayAssumption
    <3>3. Event(o, IF v = Volume THEN "filled" ELSE "partial", v, price, NoRequest) \in Events
      BY <3>2, EventType DEF Kinds
    <3>4. NoRequest \notin Calls
      BY DEF NoRequest, Calls
    <3>5. Sound(Event(o, IF v = Volume THEN "filled" ELSE "partial", v, price, NoRequest))
      BY <3>2, <3>4, GatewayAssumption DEF Event, Sound
    <3> QED BY <1>1, <3>1, <3>3, <3>5
  <2>4. CASE BrokerPlace(o) \/ BrokerCancel(r) \/ BrokerExpire(o)
    <3>0. NoRequest \notin Calls /\ <<"place", o>>[1] = "place" /\ <<"place", o>>[2] = o
      BY DEF NoRequest, Calls
    <3>1. PICK kind \in Kinds \ {"partial"}, v \in 0 .. Volume, s \in Calls \cup {NoRequest} :
            /\ Emit(<<Event(o, kind, v, "within", s)>>)
            /\ kind = "accepted" => v = 0
            /\ s \in Calls => s[2] = o /\ (s[1] # "place" => kind # "accepted")
      <4>1. CASE BrokerPlace(o)
        BY <2>2, <3>0, <4>1 DEF BrokerPlace, Kinds
      <4>2. CASE BrokerCancel(r)
        BY <2>1, <2>2, <4>2 DEF BrokerCancel, Kinds
      <4>3. CASE BrokerExpire(o)
        BY <2>2, <3>0, <4>3 DEF BrokerExpire, Kinds
      <4> QED BY <2>4, <4>1, <4>2, <4>3
    <3>2. Event(o, kind, v, "within", s) \in Events
      BY <3>1, EventType
    <3>3. Sound(Event(o, kind, v, "within", s))
      BY <3>1 DEF Event, Sound
    <3> QED BY <1>1, <3>1, <3>2, <3>3
  <2> QED BY <2>1, <2>3, <2>4
<1>6. ASSUME ~Deliver, feed' # <<>>,
             ~(\E o \in Orders, r \in Calls :
                 r[2] = o /\ (BrokerPlace(o) \/ BrokerCancel(r) \/ BrokerFill(o) \/ BrokerExpire(o)))
      PROVE  UNCHANGED feed
  <2>1. CASE Placement
    BY <2>1 DEF Placement, Snapshot, Check1, Session1, Check2, Readiness, Session2, SnapshotFails,
                Placed1, Settled1, Session3, UndoneClosed, Placed2, Settled2, UndoneFailed, Thrown
  <2> QED BY <1>6, <2>1, NextCases
          DEF PlaceCall, AcknowledgeTerminal, PeerAnswered, PeerDone, CancelAnswered, CancelCall,
              Timeout, Disconnect, Restart, Connect, BrokerClose
<1> QED BY <1>2, <1>3, <1>4, <1>5, <1>6

LEMMA HeardStep ==
  ASSUME TypeInv, TypeOK', SentInv, HeardInv, FeedInv, Next
  PROVE  HeardInv'
<1> USE DEF memory, socket, broker, history, TypeInv
<1>0. heard \subseteq Orders /\ tracked \subseteq Orders
  BY TypeParts
<1>1. CASE Restart
  BY <1>1 DEF Restart, HeardInv
<1>2. CASE Check1
  <2> DEFINE g == place.group
  <2>1. g \in Groups /\ g \notin groups
    BY <1>2 DEF Check1, At, PlaceInv, SentInv, Ready, Unregistered
  <2>2. \A o \in OrdersOf(g) : o[1] = g
    BY DEF OrdersOf
  <2>3. \A o \in heard : order'[o] = order[o]
    BY <1>0, <1>2, <2>1, <2>2 DEF Check1, HeardInv
  <2>4. /\ UNCHANGED heard /\ groups \subseteq groups'
        /\ \/ UNCHANGED tracked
           \/ tracked' = tracked \cup OrdersOf(g) /\ g \in groups'
    BY <1>2 DEF Check1
  <2> QED BY <2>2, <2>3, <2>4 DEF HeardInv, Over
<1>3. CASE \E g \in Groups : AcknowledgeTerminal(g)
  <2>1. PICK g \in Groups : AcknowledgeTerminal(g)
    BY <1>3
  <2>2. \A o \in OrdersOf(g) : order[o].id => book[o].status \in Terminal
    BY <2>1 DEF AcknowledgeTerminal, Proved, Terminal
  <2>3. \A o \in heard : Over(o)'
    BY <1>0, <2>1, <2>2 DEF AcknowledgeTerminal, HeardInv, Over, Terminal
  <2> QED BY <2>1, <2>3 DEF AcknowledgeTerminal, HeardInv
<1>4. ASSUME ~Restart, ~Check1, ~(\E g \in Groups : AcknowledgeTerminal(g))
      PROVE  HeardInv'
  <2>1. \A o \in Orders : Kept(o)
    BY <1>4, KeptStep
  <2>2. \A o \in heard : Over(o)'
    BY <1>0, <2>1, OverKept DEF HeardInv
  <2>3. UNCHANGED <<groups, tracked>>
    <3>1. CASE Placement
      BY <1>4, <3>1 DEF Placement, Snapshot, Session1, Check2, Readiness, Session2, SnapshotFails,
                  Placed1, Settled1, Session3, UndoneClosed, Placed2, Settled2, UndoneFailed, Thrown
    <3> QED BY <1>4, <3>1, NextCases
            DEF Deliver, PlaceCall, PeerAnswered, PeerDone, CancelAnswered, CancelCall, Timeout,
                Disconnect, Connect, BrokerPlace, BrokerCancel, BrokerFill, BrokerExpire, BrokerClose
  <2>4. CASE Deliver
    <3>1. heard' \subseteq heard \cup
            (IF Head(feed).order \in tracked /\ Head(feed).kind \notin {"accepted", "error"}
             THEN {Head(feed).order} ELSE {})
      BY <2>4 DEF Deliver
    <3> QED BY <2>2, <2>3, <2>4, <3>1, DeliverHeard DEF HeardInv
  <2>5. ASSUME ~Deliver
        PROVE  UNCHANGED heard
    <3>1. CASE Placement
      BY <1>4, <3>1 DEF Placement, Snapshot, Session1, Check2, Readiness, Session2, SnapshotFails,
                  Placed1, Settled1, Session3, UndoneClosed, Placed2, Settled2, UndoneFailed, Thrown
    <3> QED BY <1>4, <2>5, <3>1, NextCases
            DEF PlaceCall, PeerAnswered, PeerDone, CancelAnswered, CancelCall, Timeout,
                Disconnect, Connect, BrokerPlace, BrokerCancel, BrokerFill, BrokerExpire, BrokerClose
  <2> QED BY <2>2, <2>3, <2>4, <2>5 DEF HeardInv
<1> QED BY <1>1, <1>2, <1>3, <1>4

LEMMA GatewayInit == Init => GatewayInv
<1>1. Init => SentInv
  BY DEF Init, SentInv, SentOnce, Idle, Unregistered, Preflight, FirstLeg
<1>2. Init => HeardInv /\ FeedInv
  BY DEF Init, HeardInv, FeedInv
<1> QED BY <1>1, <1>2, TypeInit DEF GatewayInv

LEMMA GatewayStep == GatewayInv /\ [Next]_vars => GatewayInv'
<1>1. ASSUME GatewayInv, Next
      PROVE  GatewayInv'
  <2>1. TypeInv'
    BY <1>1, TypeStep DEF GatewayInv
  <2> QED BY <1>1, <2>1, SentStep, HeardStep, FeedStep DEF GatewayInv, TypeInv
<1>2. ASSUME GatewayInv, UNCHANGED vars
      PROVE  GatewayInv'
  <2>1. TypeInv'
    BY <1>2, TypeStep DEF GatewayInv
  <2> QED BY <1>2, <2>1
          DEF GatewayInv, vars, memory, socket, history, SentInv, SentOnce, HeardInv, FeedInv, Over
<1> QED BY <1>1, <1>2

LEMMA GatewayInvariant == Spec => []GatewayInv
BY GatewayInit, GatewayStep, PTL DEF Spec

\* The evidence the gateway holds of a tracked order never goes backwards, in
\* whatever order responses and callbacks arrive.
THEOREM EvidenceNeverErased == Spec => NeverErased
<1>1. GatewayInv /\ [Next]_vars => [EvidenceMonotone]_vars
  <2> SUFFICES ASSUME GatewayInv, Next, NEW o \in tracked \cap tracked', groups \subseteq groups'
               PROVE  Kept(o)
    BY DEF EvidenceMonotone, Kept
  <2> USE DEF GatewayInv, TypeInv
  <2>1. o \in Orders /\ o[1] \in groups
    BY TypeParts DEF HeardInv
  <2>2. CASE Restart
    BY <2>2 DEF Restart
  <2>3. CASE Check1
    <3>1. place.group \notin groups
      BY <2>3 DEF Check1, At, SentInv, Unregistered
    <3>2. o \notin OrdersOf(place.group)
      BY <2>1, <3>1 DEF OrdersOf
    <3>3. order'[o] = order[o]
      BY <2>1, <2>3, <3>2 DEF Check1
    <3>4. order[o].filled \in 0 .. Volume
      BY <2>1 DEF TypeOK
    <3> QED BY <3>3, <3>4, GatewayAssumption DEF Kept, Terminal
  <2>4. CASE \E g \in Groups : AcknowledgeTerminal(g)
    <3>1. PICK g \in Groups : AcknowledgeTerminal(g)
      BY <2>4
    <3>2. o \notin OrdersOf(g)
      BY <3>1 DEF AcknowledgeTerminal
    <3>3. order'[o] = order[o]
      BY <2>1, <3>1, <3>2 DEF AcknowledgeTerminal
    <3>4. order[o].filled \in 0 .. Volume
      BY <2>1 DEF TypeOK
    <3> QED BY <3>3, <3>4, GatewayAssumption DEF Kept, Terminal
  <2> QED BY <2>1, <2>2, <2>3, <2>4, KeptStep
<1> QED BY <1>1, GatewayInvariant, PTL DEF Spec, NeverErased

\* The second leg of a pair is dispatched neither after a delivered fill or end of
\* the first leg nor over a latched uncertainty.
THEOREM SecondLegNeverBlind == Spec => NoBlindSecondLeg
<1>1. GatewayInv /\ [Next]_vars => [SecondLegClear]_vars
  <2> SUFFICES ASSUME GatewayInv, Next, NEW g \in Oco, sends'[Second(g)] > sends[Second(g)]
               PROVE  First(g) \notin heard /\ latch = "none"
    BY DEF SecondLegClear
  <2> USE DEF GatewayInv, TypeInv
  <2>0. Second(g) \in Orders /\ sends \in [Orders -> Nat]
    BY OrderFacts DEF TypeOK
  <2>1. ~(UNCHANGED sends)
    BY <2>0
  <2>2. ~Restart
    BY <2>0 DEF Restart
  <2>3. Placement
    BY <2>1, <2>2, ElsewhereUnchanged DEF PlaceCall
  <2>4. Sent1 \/ Sent2
    BY <2>1, <2>3, PlacementControl DEF PhaseKept, Registered
  <2>5. ASSUME Sent1
        PROVE  FALSE
    <3>1. First(place.group) \in Orders /\ Second(g) # First(place.group)
      BY <2>5, OrderFacts DEF Sent1, PlaceInv, Ready, First, Second
    <3> QED BY <2>0, <2>5, <3>1, DispatchCounts DEF Sent1
  <2>6. Sent2 /\ g = place.group
    <3>1. place.group \in Oco
      BY <2>4, <2>5 DEF Sent2, PlaceInv, PairSteps
    <3>2. Second(place.group) \in Orders
      BY <3>1, OrderFacts
    <3>3. Second(g) = Second(place.group)
      BY <2>0, <2>4, <2>5, <3>2, DispatchCounts DEF Sent2
    <3> QED BY <2>4, <2>5, <3>3 DEF Second
  <2>7. Session3
    BY <2>3, <2>6 DEF Sent2, Placement, At, Snapshot, Check1, Session1, Check2, Readiness, Session2,
         SnapshotFails, Placed1, Settled1, UndoneClosed, Placed2, Settled2, UndoneFailed, Thrown
  <2>8. order[First(g)].state = "PENDING" /\ order[First(g)].filled = 0 /\ latch = "none"
    BY <2>1, <2>6, <2>7 DEF Session3
  <2> QED BY <2>8 DEF HeardInv, Over, Terminal
<1> QED BY <1>1, GatewayInvariant, PTL DEF Spec, NoBlindSecondLeg

-----------------------------------------------------------------------------
(* PursuitKept and PeerPursued *)

Early == {"PENDING", "UNKNOWN"}

\* An order that waits has no fill and, once pending, its broker id; a partial state
\* has a fill.
Coherent(known) ==
  /\ known.state \in Early => known.filled = 0
  /\ known.state = "PENDING" => known.id
  /\ known.state = "PARTIALLY_FILLED" => known.filled > 0

\* What a response says of a tracked order the gateway already knows: the socket
\* handed it to handleExecution in the turn that settled the promise.
Absorbed(e) ==
  e.order \in tracked =>
    /\ order[e.order].filled >= e.volume /\ order[e.order].state # "UNKNOWN"
    /\ e.kind # "accepted" => order[e.order].state # "PENDING"

StatesInv == \A o \in tracked : Coherent(order[o])
AnswersInv ==
  \A r \in Calls : r[1] # "stray" /\ call[r].at = "answered" =>
    LET e == call[r].event
    IN /\ e \in Events /\ Sound(e) /\ e.order = r[2] /\ e.kind # "error"
       /\ r[1] # "place" => e.kind # "accepted"
       /\ Absorbed(e)
SettlingInv ==
  \A p \in tracked : call[<<"peer", p>>].at = "settling" => order[p].state \notin Early

\* The gateway tracks whole groups, of a group it has not registered it awaits nothing, and
\* an order that works, or that a recovery is about to read as working, has volume left.
RegistryInv ==
  /\ \A o \in tracked : OrdersOf(o[1]) \subseteq tracked
  /\ place.at \notin Ready \cup Unregistered => place.group \in groups
UnaskedInv ==
  \A o \in Orders : o[1] \notin groups =>
    \A op \in {"place", "undo", "peer", "cancel"} : call[<<op, o>>].at = "none"
WorkingInv ==
  /\ \A o \in Orders : book[o].status = "working" => book[o].filled < Volume
  /\ \A o \in snap.working : snap.filled[o] < Volume

\* That no leg is left alone is not inductive: a response applied late must be no news, and
\* the end of a peer cancellation must have moved its order.
PeerInv == StatesInv /\ AnswersInv /\ SettlingInv /\ RegistryInv /\ UnaskedInv /\ WorkingInv

\* Until the process restarts, of a group that is not registered nothing was sent either, so
\* none is recovered from the broker's book, and every fill in memory was heard.
UnusedInv ==
  /\ \A o \in Orders : o[1] \notin groups =>
       book[o].status # "working" /\ <<"place", o>> \notin wire
  /\ At("check1") => OrdersOf(place.group) \cap snap.working = {}
FilledHeard == \A o \in tracked : order[o].filled > 0 => o \in heard

\* A step leads an order onward, or, calm, tells the gateway nothing that would
\* call for a cancellation.
Onward(o) ==
  /\ order'[o].filled >= order[o].filled
  /\ order'[o].state = "UNKNOWN" => order[o].state = "UNKNOWN"
  /\ order'[o].state = "PENDING" => order[o].state \in Early
  /\ Coherent(order'[o])
Calm(o) ==
  /\ order'[o].filled = order[o].filled
  /\ order'[o].state = "PENDING" => order[o].state = "PENDING"

LEMMA SoundState ==
  ASSUME NEW e \in Events, Sound(e), e.kind # "error"
  PROVE  /\ NextState(e) # "UNKNOWN"
         /\ NextState(e) = "PENDING" => e.kind = "accepted" /\ e.volume = 0
         /\ NextState(e) = "PARTIALLY_FILLED" => e.volume > 0
<1>1. e.kind \in Kinds /\ e.volume \in 0 .. Volume
  BY DEF Events
<1> QED BY <1>1, GatewayAssumption DEF Sound, NextState, StateOf, Status, Kinds

LEMMA ApplyOnward ==
  ASSUME TypeOK, NEW e \in Events, Sound(e), e.kind # "error", order' = OrderAfter(e),
         NEW o \in Orders, Coherent(order[o])
  PROVE  Onward(o)
<1>1. order \in OrderRecords
  BY TypeParts
<1>2. order[o].filled \in 0 .. Volume /\ order[o].state \in States
  BY <1>1 DEF OrderRecords
<1>3. CASE ~Applies(e) \/ o # e.order
  <2>1. order'[o] = order[o]
    BY <1>1, <1>3 DEF OrderAfter, OrderRecords
  <2> QED BY <1>2, <2>1, GatewayAssumption DEF Onward, Early
<1>4. CASE Applies(e) /\ o = e.order
  <2>1. order'[o] = [id |-> TRUE, state |-> NextState(e), filled |-> e.volume]
    BY <1>1, <1>4 DEF OrderAfter, OrderRecords
  <2>2. e.volume >= order[o].filled /\ e.volume \in 0 .. Volume
    BY <1>4 DEF Applies, Events
  <2>3. NextState(e) = "PENDING" => order[o].state \in Early
    <3>1. ASSUME NextState(e) = "PENDING"
          PROVE  order[o].state \in Early
      <4>1. order[o].filled = 0
        BY <1>2, <2>2, <3>1, SoundState, GatewayAssumption
      <4> QED BY <1>2, <1>4, <3>1, <4>1 DEF Applies, Coherent, States, Early
    <3> QED BY <3>1
  <2> QED BY <2>1, <2>2, <2>3, SoundState DEF Onward, Coherent, Early
<1> QED BY <1>3, <1>4

LEMMA AbsorbedCalm ==
  ASSUME TypeOK, NEW e \in Events, Sound(e), e.kind # "error", order' = OrderAfter(e),
         Absorbed(e), NEW o \in tracked, Coherent(order[o])
  PROVE  Calm(o)
<1>1. order \in OrderRecords /\ o \in Orders
  BY TypeParts
<1>2. order[o].filled \in 0 .. Volume /\ order[o].state \in States
  BY <1>1 DEF OrderRecords
<1>3. CASE ~Applies(e) \/ o # e.order
  <2>1. order'[o] = order[o]
    BY <1>1, <1>3 DEF OrderAfter, OrderRecords
  <2> QED BY <2>1 DEF Calm
<1>4. CASE Applies(e) /\ o = e.order
  <2>1. order'[o] = [id |-> TRUE, state |-> NextState(e), filled |-> e.volume]
    BY <1>1, <1>4 DEF OrderAfter, OrderRecords
  <2>2. e.volume = order[o].filled
    <3>1. e.volume >= order[o].filled /\ order[o].filled >= e.volume /\ e.volume \in 0 .. Volume
      BY <1>4 DEF Applies, Absorbed, Events
    <3> QED BY <1>2, <3>1, GatewayAssumption
  <2>3. NextState(e) = "PENDING" => order[o].state \in Early
    BY <1>1, <2>1, ApplyOnward DEF Onward
  <2>4. order[o].state # "UNKNOWN"
    BY <1>4 DEF Absorbed
  <2> QED BY <2>1, <2>2, <2>3, <2>4 DEF Calm, Early
<1> QED BY <1>3, <1>4

LEMMA RejectCalm ==
  ASSUME TypeOK, NEW S, Reject(S) \/ UNCHANGED order, NEW o \in Orders, Coherent(order[o])
  PROVE  Onward(o) /\ Calm(o)
<1>1. order[o].filled \in 0 .. Volume /\ order[o].state \in States
  BY TypeParts DEF OrderRecords
<1>2. \/ order'[o] = order[o]
      \/ order'[o] = [id |-> order[o].id, state |-> "REJECTED", filled |-> order[o].filled]
  BY DEF Reject
<1> QED BY <1>1, <1>2, GatewayAssumption DEF Onward, Calm, Coherent, Early

\* An answer applied where its promise is awaited is no news.
LEMMA AnswerCalm ==
  ASSUME TypeOK, StatesInv, AnswersInv, NEW r \in Calls, r[1] # "stray",
         call[r].at = "answered", order' = OrderAfter(call[r].event), NEW o \in tracked
  PROVE  Onward(o) /\ Calm(o)
<1> DEFINE e == call[r].event
<1>1. e \in Events /\ Sound(e) /\ e.kind # "error" /\ Absorbed(e)
  BY DEF AnswersInv
<1>2. o \in Orders /\ Coherent(order[o])
  BY TypeParts DEF StatesInv
<1> HIDE DEF e
<1>3. order' = OrderAfter(e)
  BY DEF e
<1> QED BY <1>1, <1>2, <1>3, ApplyOnward, AbsorbedCalm

\* Every step but a restart, an acknowledgement and the registration of a group
\* leads the tracked orders onward, and none but a delivery tells anything new.
LEMMA OnwardStep ==
  ASSUME TypeInv, FeedInv, StatesInv, AnswersInv, Next, ~Restart, ~Check1,
         ~(\E g \in Groups : AcknowledgeTerminal(g)), NEW o \in tracked
  PROVE  Onward(o) /\ (Deliver \/ Calm(o))
<1> USE DEF TypeInv
<1>0. TypeOK /\ o \in Orders /\ Coherent(order[o])
  BY TypeParts DEF StatesInv
<1>1. CASE Placement
  <2> DEFINE g == place.group
  <2>1. g \in Groups \/ place.at \in Ready
    BY DEF PlaceInv
  <2>2. First(g) \in Orders \/ place.at \in Ready
    BY <2>1, OrderFacts
  <2>3. CASE Snapshot \/ Session1 \/ Check2 \/ Readiness \/ SnapshotFails \/ Session2
             \/ Settled1 \/ Session3 \/ Settled2 \/ Thrown
    <3>1. UNCHANGED order \/ \E S : Reject(S)
      BY <2>3 DEF Snapshot, Session1, Check2, Readiness, SnapshotFails, Session2,
                  Settled1, Session3, Settled2, Thrown
    <3> QED BY <1>0, <3>1, RejectCalm
  <2>4. CASE Placed1
    <3> DEFINE r == <<"place", First(g)>>
    <3>1. r \in Calls /\ r[1] # "stray"
      BY <2>2, <2>4, RequestOf DEF Placed1, At, Ready
    <3>2. UNCHANGED order \/ (call[r].at = "answered" /\ order' = OrderAfter(call[r].event))
      BY <2>4 DEF Placed1, ApplyExecution
    <3> HIDE DEF r
    <3> QED BY <1>0, <3>1, <3>2, AnswerCalm, RejectCalm
  <2>5. CASE Placed2
    <3> DEFINE r == <<"place", Second(g)>>
    <3>1. r \in Calls /\ r[1] # "stray"
      BY <2>5, OrderFacts, RequestOf DEF Placed2, At, PlaceInv, PairSteps
    <3>2. UNCHANGED order \/ (call[r].at = "answered" /\ order' = OrderAfter(call[r].event))
      BY <2>5 DEF Placed2, ApplyExecution
    <3> HIDE DEF r
    <3> QED BY <1>0, <3>1, <3>2, AnswerCalm, RejectCalm
  <2>6. CASE UndoneClosed \/ UndoneFailed
    <3> DEFINE r == <<"undo", First(g)>>
    <3>1. r \in Calls /\ r[1] # "stray"
      BY <2>2, <2>6, RequestOf DEF UndoneClosed, UndoneFailed, At, Ready
    <3>2. UNCHANGED order \/ (call[r].at = "answered" /\ order' = OrderAfter(call[r].event))
      BY <2>6 DEF UndoneClosed, UndoneFailed, ApplyExecution
    <3> HIDE DEF r
    <3> QED BY <1>0, <3>1, <3>2, AnswerCalm, RejectCalm
  <2> QED BY <1>1, <2>3, <2>4, <2>5, <2>6 DEF Placement
<1>2. CASE Deliver
  <2> DEFINE e == Head(feed)
  <2>1. e \in Events /\ e = feed[1] /\ 1 \in 1 .. Len(feed)
    BY <1>2 DEF Deliver, TypeOK
  <2>2. Sound(e)
    BY <2>1 DEF FeedInv
  <2>3. UNCHANGED order \/ (e.kind # "error" /\ order' = OrderAfter(e))
    BY <1>2 DEF Deliver, ApplyExecution
  <2> HIDE DEF e
  <2> QED BY <1>0, <1>2, <2>1, <2>2, <2>3, ApplyOnward, RejectCalm
<1>3. CASE \E p \in Orders : PeerAnswered(p) \/ CancelAnswered(p)
  <2>1. PICK p \in Orders : PeerAnswered(p) \/ CancelAnswered(p)
    BY <1>3
  <2>2. PICK r \in Calls : /\ r[1] # "stray"
                           /\ \/ UNCHANGED order
                              \/ call[r].at = "answered" /\ order' = OrderAfter(call[r].event)
    <3>1. /\ <<"peer", p>> \in Calls /\ <<"cancel", p>> \in Calls
          /\ <<"peer", p>>[1] # "stray" /\ <<"cancel", p>>[1] # "stray"
      BY RequestOf
    <3> QED BY <2>1, <3>1 DEF PeerAnswered, CancelAnswered, ApplyExecution
  <2> QED BY <1>0, <2>2, AnswerCalm, RejectCalm
<1>4. ASSUME ~Placement, ~Deliver, ~(\E p \in Orders : PeerAnswered(p) \/ CancelAnswered(p))
      PROVE  UNCHANGED order
  BY <1>4, NextCases
     DEF PlaceCall, PeerDone, CancelCall, Timeout, Disconnect, Connect, BrokerPlace, BrokerCancel,
         BrokerFill, BrokerExpire, BrokerClose, memory
<1> QED BY <1>0, <1>1, <1>2, <1>3, <1>4, RejectCalm

\* A delivery: the promise it settles, the evidence it applies, and the peers it
\* begins to cancel.
Settles(e) ==
  IF e.answers \in Calls /\ call[e.answers].at = "sent"
  THEN [call EXCEPT ![e.answers] =
          [at |-> IF e.kind = "error" THEN "failed" ELSE "answered",
           event |-> IF e.kind = "error" THEN NoEvent ELSE e]]
  ELSE call
Peers(e) ==
  IF e.kind # "error" /\ e.order \in tracked
  THEN {p \in PeersToCancel(e.order[1], OrderAfter(e)) : Settles(e)[<<"peer", p>>].at = "none"}
  ELSE {}

LEMMA DeliverParts ==
  ASSUME TypeInv, FeedInv, Deliver
  PROVE  \E e \in Events, sent \in BOOLEAN :
           /\ Sound(e)
           /\ IF e.kind = "error" THEN UNCHANGED <<order, latch, slip>> ELSE ApplyExecution(e)
           /\ call' = PeerCalls(Settles(e), Peers(e), sent)
           /\ wire' = PeerWire(Peers(e), sent)
           /\ UNCHANGED <<groups, tracked, place, snap, sends, book, restarts>>
           /\ heard' = IF e.order \in tracked /\ e.kind \notin {"accepted", "error"}
                       THEN heard \cup {e.order} ELSE heard
<1> DEFINE e == Head(feed)
<1>1. e \in Events /\ e = feed[1] /\ 1 \in 1 .. Len(feed)
  BY DEF Deliver, TypeInv, TypeOK
<1>2. Sound(e)
  BY <1>1 DEF FeedInv
<1>3. PICK sent \in BOOLEAN : /\ call' = PeerCalls(Settles(e), Peers(e), sent)
                              /\ wire' = PeerWire(Peers(e), sent)
  BY DEF Deliver, Sendable, Settles, Peers
<1>4. /\ IF e.kind = "error" THEN UNCHANGED <<order, latch, slip>> ELSE ApplyExecution(e)
      /\ UNCHANGED <<groups, tracked, place, snap, sends, book, restarts>>
      /\ heard' = IF e.order \in tracked /\ e.kind \notin {"accepted", "error"}
                  THEN heard \cup {e.order} ELSE heard
  BY DEF Deliver, broker
<1> HIDE DEF e
<1> QED BY <1>1, <1>2, <1>3, <1>4

\* What a delivery does to each promise.
LEMMA DeliverCalls ==
  ASSUME TypeOK, NEW e \in Events, NEW sent \in BOOLEAN,
         call' = PeerCalls(Settles(e), Peers(e), sent), NEW r \in Calls
  PROVE  /\ \/ call'[r] = call[r]
            \/ r[1] = "peer" /\ r[2] \in Peers(e) /\ call'[r].at \in {"sent", "failed"}
            \/ r = e.answers /\ call[r].at = "sent"
               /\ call'[r].at = (IF e.kind = "error" THEN "failed" ELSE "answered")
               /\ (e.kind # "error" => call'[r].event = e)
         /\ r[1] = "peer" /\ r[2] \in Peers(e) => call'[r].at # "none"
BY TypeParts DEF CallRecords, PeerCalls, Settles

\* The delivered evidence is old news from then on.
LEMMA DeliverAbsorbs ==
  ASSUME TypeOK, StatesInv, NEW e \in Events, Sound(e), e.kind # "error",
         ApplyExecution(e), UNCHANGED tracked
  PROVE  Absorbed(e)'
<1> SUFFICES ASSUME e.order \in tracked
             PROVE  /\ order'[e.order].filled >= e.volume /\ order'[e.order].state # "UNKNOWN"
                    /\ e.kind # "accepted" => order'[e.order].state # "PENDING"
  BY DEF Absorbed
<1>1. order \in OrderRecords /\ e.order \in Orders /\ e.volume \in 0 .. Volume
      /\ order' = OrderAfter(e) /\ Coherent(order[e.order])
  BY TypeParts DEF Events, ApplyExecution, StatesInv
<1>2. order[e.order].filled \in 0 .. Volume
  BY <1>1 DEF OrderRecords
<1>3. CASE Applies(e)
  <2>1. order'[e.order] = [id |-> TRUE, state |-> NextState(e), filled |-> e.volume]
    BY <1>1, <1>3 DEF OrderAfter, OrderRecords
  <2> QED BY <1>1, <2>1, SoundState, GatewayAssumption
<1>4. CASE ~Applies(e)
  <2>1. order' = order
    BY <1>1, <1>4 DEF OrderAfter
  <2>2. \/ order[e.order].filled > e.volume
        \/ NextState(e) = "PENDING" /\ order[e.order].state \in Terminal
    BY <1>1, <1>2, <1>4, GatewayAssumption DEF Applies
  <2>3. CASE order[e.order].filled > e.volume
    BY <1>1, <1>2, <2>1, <2>3, GatewayAssumption DEF Coherent, Early
  <2>4. CASE NextState(e) = "PENDING" /\ order[e.order].state \in Terminal
    BY <1>1, <1>2, <2>1, <2>4, SoundState, GatewayAssumption DEF Terminal
  <2> QED BY <2>2, <2>3, <2>4
<1> QED BY <1>3, <1>4

\* Elsewhere a promise is only issued, timed out, forgotten or taken to its last await,
\* and a group that is not registered has none issued.
CallKept(r) ==
  /\ call'[r].at = "answered" => call'[r] = call[r]
  /\ call'[r].at = "settling" =>
       call'[r] = call[r] \/ \E p \in Orders : r = <<"peer", p>> /\ PeerAnswered(p)
  /\ r[1] = "peer" /\ call'[r].at = "none" =>
       call[r].at = "none" \/ \E p \in Orders : r = <<"peer", p>> /\ PeerDone(p)
  /\ r[1] # "stray" /\ call[r].at = "none" /\ call'[r].at # "none" => r[2][1] \in groups

LEMMA ForgetShape ==
  ASSUME NEW calls \in CallRecords, NEW s \in Calls, NEW r \in Calls
  PROVE  IF r = s THEN Forget(calls, s)[r].at = "none" ELSE Forget(calls, s)[r] = calls[r]
BY DEF CallRecords, Forget, Quiet

LEMMA CallShapes ==
  ASSUME NEW calls \in CallRecords, NEW s \in Calls, NEW sent \in BOOLEAN, NEW r \in Calls
  PROVE  /\ IF r = s THEN Issued(calls, s, sent)[r].at \in {"sent", "failed"}
                     ELSE Issued(calls, s, sent)[r] = calls[r]
         /\ \A peers : IF r[1] = "peer" /\ r[2] \in peers
                       THEN PeerCalls(calls, peers, sent)[r].at \in {"sent", "failed"}
                       ELSE PeerCalls(calls, peers, sent)[r] = calls[r]
BY DEF CallRecords, Issued, PeerCalls

\* An order of a registered group has its request issued, here or by Unwind.
LEMMA IssueKept ==
  ASSUME TypeOK, NEW calls \in CallRecords, NEW s \in Calls, NEW sent \in BOOLEAN,
         s[2][1] \in groups \/ s[1] = "stray", call' = Issued(calls, s, sent), NEW r \in Calls,
         calls[r] = call[r] \/ (r[1] # "peer" /\ calls[r].at = "none")
  PROVE  CallKept(r)
BY CallShapes DEF CallKept

LEMMA ForgetKept ==
  ASSUME TypeOK, NEW s \in Calls, s[1] # "peer", call' = Forget(call, s), NEW r \in Calls
  PROVE  CallKept(r)
<1>1. call \in CallRecords
  BY TypeParts
<1>2. IF r = s THEN call'[r].at = "none" ELSE call'[r] = call[r]
  BY <1>1, ForgetShape
<1> QED BY <1>2 DEF CallKept

LEMMA CallStep ==
  ASSUME TypeInv, RegistryInv, HeardInv, Next, ~Restart, ~Deliver, NEW r \in Calls
  PROVE  CallKept(r)
<1> USE DEF TypeInv, memory, socket, broker, history
<1> DEFINE g == place.group
<1>0. call \in CallRecords /\ TypeOK
  BY TypeParts
<1>1. CASE UNCHANGED call
  BY <1>1 DEF CallKept
<1>2. CASE Session2 \/ Session3
  <2>1. g \in groups /\ g \in Groups /\ First(g) \in Orders /\ First(g)[1] = g /\ Second(g)[1] = g
    BY <1>2, OrderFacts DEF Session2, Session3, At, PlaceInv, RegistryInv, Ready, Unregistered,
                            First, Second
  <2>2. Session3 => Second(g) \in Orders
    BY OrderFacts DEF Session3, At, PlaceInv, PairSteps
  <2>3. UNCHANGED call \/ \E s \in Calls, sent \in BOOLEAN :
                            s[2][1] \in groups /\ call' = Issued(call, s, sent)
    <3>1. CASE Dispatch(First(g))
      BY <2>1, <3>1, RequestOf DEF Dispatch, Sendable
    <3>2. CASE Session3 /\ Dispatch(Second(g))
      BY <2>1, <2>2, <3>2, RequestOf DEF Dispatch, Sendable
    <3>3. CASE Undo(call, First(g))
      BY <2>1, <3>3, RequestOf DEF Undo, Sendable
    <3> QED BY <1>2, <3>1, <3>2, <3>3 DEF Session2, Session3
  <2> QED BY <1>0, <1>1, <2>3, IssueKept
<1>3. CASE Placed1 \/ UndoneClosed \/ UndoneFailed
  <2>1. First(g) \in Orders
    BY <1>3, OrderFacts DEF Placed1, UndoneClosed, UndoneFailed, At, PlaceInv, Ready
  <2>2. \E s \in Calls : s[1] # "peer" /\ call' = Forget(call, s)
    BY <1>3, <2>1, RequestOf DEF Placed1, UndoneClosed, UndoneFailed
  <2> QED BY <1>0, <2>2, ForgetKept
<1>4. CASE Placed2 \/ Settled2
  <2>1. g \in groups /\ g \in Oco /\ First(g) \in Orders /\ Second(g) \in Orders /\ First(g)[1] = g
    BY <1>4, OrderFacts DEF Placed2, Settled2, At, PlaceInv, PairSteps, RegistryInv, Ready,
                            Unregistered, First
  <2> DEFINE s == <<"place", Second(g)>>
             u == <<"undo", First(g)>>
  <2>2. s \in Calls /\ u \in Calls /\ s[1] = "place" /\ u[2][1] \in groups
    BY <2>1, RequestOf
  <2>3. PICK calls \in {call, Forget(call, s)}, sent \in BOOLEAN, peers \in SUBSET OrdersOf(g) :
          call' = calls \/ call' = Issued(calls, u, sent) \/ call' = PeerCalls(calls, peers, sent)
    BY <1>4 DEF Placed2, Settled2, Unwind, Undo, Sendable, PeersToCancel
  <2>4. calls \in CallRecords /\ (calls[r] = call[r] \/ (r[1] # "peer" /\ calls[r].at = "none"))
    <3>1. IF r = s THEN Forget(call, s)[r].at = "none" ELSE Forget(call, s)[r] = call[r]
      BY <1>0, <2>2, ForgetShape
    <3>2. Forget(call, s) \in CallRecords
      BY <1>0, <2>2, AnswerType
    <3> QED BY <1>0, <2>2, <3>1, <3>2
  <2> HIDE DEF s, u
  <2>5. CASE call' = calls
    BY <2>4, <2>5 DEF CallKept
  <2>6. CASE call' = Issued(calls, u, sent)
    BY <1>0, <2>2, <2>4, <2>6, IssueKept
  <2>7. CASE call' = PeerCalls(calls, peers, sent)
    <3>1. IF r[1] = "peer" /\ r[2] \in peers
          THEN call'[r].at \in {"sent", "failed"} ELSE call'[r] = calls[r]
      BY <2>2, <2>4, <2>7, CallShapes
    <3>2. r[2] \in peers => r[2][1] \in groups
      BY <2>1 DEF OrdersOf
    <3> QED BY <2>4, <3>1, <3>2 DEF CallKept
  <2> QED BY <2>3, <2>5, <2>6, <2>7
<1>5. CASE \E o \in Orders : PeerAnswered(o) \/ PeerDone(o)
  <2>1. PICK o \in Orders : PeerAnswered(o) \/ PeerDone(o)
    BY <1>5
  <2>2. <<"peer", o>> \in Calls
    BY RequestOf
  <2>3. CASE PeerAnswered(o)
    BY <1>0, <2>1, <2>2, <2>3 DEF PeerAnswered, CallRecords, CallKept
  <2>4. CASE PeerDone(o)
    <3>1. call' = Forget(call, <<"peer", o>>)
      BY <2>4 DEF PeerDone
    <3>2. r # <<"peer", o>> => call'[r] = call[r]
      BY <1>0, <2>2, <3>1, ForgetShape
    <3>3. r = <<"peer", o>> => call'[r].at = "none"
      BY <1>0, <2>2, <3>1, ForgetShape
    <3> QED BY <2>4, <3>2, <3>3 DEF CallKept
  <2> QED BY <2>1, <2>3, <2>4
<1>6. CASE \E o \in Orders : CancelAnswered(o)
  <2>1. PICK o \in Orders : CancelAnswered(o)
    BY <1>6
  <2>2. \E s \in Calls : s[1] # "peer" /\ call' = Forget(call, s)
    BY <2>1, RequestOf DEF CancelAnswered
  <2> QED BY <1>0, <2>2, ForgetKept
<1>7. CASE \E o \in Orders : CancelCall(o)
  <2>1. PICK o \in Orders : CancelCall(o)
    BY <1>7
  <2> DEFINE s == <<IF o \in tracked THEN "cancel" ELSE "stray", o>>
  <2>2. PICK sent \in BOOLEAN : call' = Issued(call, s, sent)
    BY <2>1 DEF CancelCall, Sendable
  <2>3. s \in Calls /\ (s[2][1] \in groups \/ s[1] = "stray")
    BY RequestOf DEF HeardInv
  <2> HIDE DEF s
  <2> QED BY <1>0, <2>2, <2>3, IssueKept
<1>8. CASE \E s \in Calls : Timeout(s)
  BY <1>0, <1>8 DEF Timeout, CallRecords, CallKept
<1>9. CASE Disconnect
  BY <1>0, <1>9 DEF Disconnect, CallRecords, CallKept
<1>10. CASE Snapshot \/ Check1 \/ Session1 \/ Check2 \/ Readiness \/ SnapshotFails \/ Settled1
            \/ Thrown
  BY <1>1, <1>10 DEF Snapshot, Check1, Session1, Check2, Readiness, SnapshotFails, Settled1, Thrown
<1>11. ASSUME ~Placement, ~Disconnect, ~(\E s \in Calls : Timeout(s)),
              ~(\E o \in Orders : PeerAnswered(o) \/ PeerDone(o) \/ CancelAnswered(o)
                                  \/ CancelCall(o))
       PROVE  UNCHANGED call
  BY <1>11, NextCases
     DEF PlaceCall, AcknowledgeTerminal, Connect, BrokerPlace, BrokerCancel, BrokerFill,
         BrokerExpire, BrokerClose
<1> QED BY <1>1, <1>2, <1>3, <1>4, <1>5, <1>6, <1>7, <1>8, <1>9, <1>10, <1>11 DEF Placement

\* A group that is registered stays so, and Check1 registers one whose orders the broker
\* has never been sent, as fresh orders.
LEMMA GroupsGrow ==
  ASSUME Next, ~Restart
  PROVE  /\ groups \subseteq groups'
         /\ ~Check1 => UNCHANGED groups /\ tracked' \subseteq tracked
         /\ ~Check1 /\ ~(\E g \in Groups : AcknowledgeTerminal(g)) => UNCHANGED tracked
<1> USE DEF memory
<1>1. CASE Placement
  BY <1>1 DEF Placement, Snapshot, Check1, Session1, Check2, Readiness, Session2, SnapshotFails,
              Placed1, Settled1, Session3, UndoneClosed, Placed2, Settled2, UndoneFailed, Thrown
<1>2. CASE ~Placement
  BY <1>2, NextCases
     DEF Deliver, PlaceCall, PeerAnswered, PeerDone, CancelAnswered, CancelCall, Timeout,
         AcknowledgeTerminal, Disconnect, Connect, BrokerPlace, BrokerCancel, BrokerFill,
         BrokerExpire, BrokerClose
<1> QED BY <1>1, <1>2

LEMMA Registers ==
  ASSUME TypeInv, SentInv, WorkingInv, Check1
  PROVE  /\ place.group \in Groups /\ place.group \notin groups
         /\ groups' \subseteq groups \cup {place.group}
         /\ tracked' \subseteq tracked \cup OrdersOf(place.group)
         /\ \A o \in Orders \ OrdersOf(place.group) : order'[o] = order[o]
         /\ place.group \in groups' => \A o \in OrdersOf(place.group) : Coherent(order'[o])
         /\ tracked' # tracked => place.group \in groups'
<1> DEFINE g == place.group
           seen == OrdersOf(g) \cap snap.working
<1>1. g \in Groups /\ g \notin groups
  BY DEF Check1, At, TypeInv, PlaceInv, SentInv, Ready, Unregistered
<1>2. OrdersOf(g) \subseteq Orders
  BY <1>1, OrderFacts
<1>3. CASE UNCHANGED <<groups, tracked, order>>
  BY <1>1, <1>3
<1>4. CASE /\ groups' = groups \cup {g}
           /\ tracked' = tracked \cup OrdersOf(g)
           /\ order' = [o \in Orders |-> IF o \in OrdersOf(g) THEN Fresh ELSE order[o]]
  BY <1>1, <1>2, <1>4 DEF Coherent, Fresh, Early
<1>5. CASE /\ seen = OrdersOf(g)
           /\ groups' = groups \cup {g}
           /\ tracked' = tracked \cup OrdersOf(g)
           /\ order' = [o \in Orders |->
                          IF o \in seen
                          THEN [id |-> TRUE, state |-> StateOf("working", snap.filled[o]),
                                filled |-> snap.filled[o]]
                          ELSE order[o]]
  <2>1. ASSUME NEW o \in OrdersOf(g)
        PROVE  Coherent(order'[o])
    <3>1. o \in Orders /\ o \in snap.working
      BY <1>2, <1>5, <2>1
    <3>2. order'[o] = [id |-> TRUE, state |-> StateOf("working", snap.filled[o]),
                       filled |-> snap.filled[o]]
      BY <1>5, <2>1, <3>1
    <3>3. snap.filled[o] \in 0 .. Volume /\ snap.filled[o] < Volume
      BY <3>1 DEF TypeInv, TypeOK, WorkingInv
    <3> QED BY <3>2, <3>3, GatewayAssumption DEF Coherent, StateOf, Early
  <2> QED BY <1>1, <1>2, <1>5, <2>1
<1>6. \/ UNCHANGED <<groups, tracked, order>>
      \/ /\ groups' = groups \cup {g}
         /\ tracked' = tracked \cup OrdersOf(g)
         /\ order' = [o \in Orders |-> IF o \in OrdersOf(g) THEN Fresh ELSE order[o]]
      \/ /\ seen = OrdersOf(g)
         /\ groups' = groups \cup {g}
         /\ tracked' = tracked \cup OrdersOf(g)
         /\ order' = [o \in Orders |->
                        IF o \in seen
                        THEN [id |-> TRUE, state |-> StateOf("working", snap.filled[o]),
                              filled |-> snap.filled[o]]
                        ELSE order[o]]
  BY DEF Check1
<1> QED BY <1>3, <1>4, <1>5, <1>6

\* In the first life of the process it registers fresh orders only.
LEMMA RegistersFresh ==
  ASSUME TypeInv, SentInv, UnusedInv, Check1, place.group \in groups',
         NEW o \in OrdersOf(place.group)
  PROVE  order'[o] = Fresh
<1> DEFINE g == place.group
<1>1. g \in Groups /\ g \notin groups /\ OrdersOf(g) \cap snap.working = {}
  BY DEF Check1, At, TypeInv, PlaceInv, SentInv, Ready, Unregistered, UnusedInv
<1>2. First(g) \in OrdersOf(g) /\ OrdersOf(g) \subseteq Orders
  BY <1>1, OrderFacts
<1>3. OrdersOf(g) \cap snap.working # OrdersOf(g)
  BY <1>1, <1>2
<1>4. \/ UNCHANGED <<groups, tracked, order>>
      \/ order' = [p \in Orders |-> IF p \in OrdersOf(g) THEN Fresh ELSE order[p]]
  BY <1>3 DEF Check1
<1> QED BY <1>1, <1>2, <1>4

\* An order of a group registered before the step was tracked before it, and the step
\* led it onward.
LEMMA TrackedOnward ==
  ASSUME GatewayInv, PeerInv, Next, ~Restart, NEW o \in tracked', o[1] \in groups, o \in Orders
  PROVE  o \in tracked /\ Onward(o) /\ (Deliver \/ Calm(o))
<1> USE DEF GatewayInv, PeerInv
<1>0. TypeOK
  BY DEF TypeInv
<1>1. CASE Check1
  <2>1. o \notin OrdersOf(place.group)
    BY <1>1, Registers DEF OrdersOf
  <2>2. o \in tracked /\ order'[o] = order[o]
    BY <1>1, <2>1, Registers
  <2>3. Coherent(order[o]) /\ order[o].filled \in 0 .. Volume
    BY <2>2 DEF StatesInv, TypeInv, TypeOK
  <2> QED BY <2>2, <2>3, GatewayAssumption DEF Onward, Calm, Early
<1>2. CASE \E g \in Groups : AcknowledgeTerminal(g)
  <2>1. PICK g \in Groups : AcknowledgeTerminal(g)
    BY <1>2
  <2>2. o \in tracked /\ order'[o] = order[o]
    BY <2>1 DEF AcknowledgeTerminal
  <2>3. Coherent(order[o]) /\ order[o].filled \in 0 .. Volume
    BY <2>2 DEF StatesInv, TypeInv, TypeOK
  <2> QED BY <2>2, <2>3, GatewayAssumption DEF Onward, Calm, Early
<1>3. CASE ~Check1 /\ ~(\E g \in Groups : AcknowledgeTerminal(g))
  BY <1>3, GroupsGrow, OnwardStep
<1> QED BY <1>1, <1>2, <1>3

LEMMA StatesStep ==
  ASSUME GatewayInv, PeerInv, TypeInv', HeardInv', Next, ~Restart
  PROVE  StatesInv'
<1> SUFFICES ASSUME NEW o \in tracked'
             PROVE  Coherent(order'[o])
  BY DEF StatesInv
<1>1. o \in Orders /\ o[1] \in groups'
  BY TypeParts DEF HeardInv, TypeInv, TypeOK
<1>2. CASE o[1] \in groups
  BY <1>1, <1>2, TrackedOnward DEF Onward
<1>3. CASE o[1] \notin groups
  <2>1. Check1
    BY <1>1, <1>3, GroupsGrow
  <2>2. o[1] = place.group /\ o \in OrdersOf(place.group)
    BY <1>1, <1>3, <2>1, Registers, OrderFacts DEF GatewayInv, PeerInv
  <2> QED BY <1>1, <2>1, <2>2, Registers DEF GatewayInv, PeerInv
<1> QED BY <1>2, <1>3

LEMMA AnswersStep ==
  ASSUME GatewayInv, PeerInv, TypeInv', Next, ~Restart
  PROVE  AnswersInv'
<1> USE DEF GatewayInv, PeerInv, TypeInv
<1>1. ASSUME NEW e \in Events, Absorbed(e), e.order[1] \in groups
      PROVE  Absorbed(e)'
  <2> SUFFICES ASSUME e.order \in tracked'
               PROVE  /\ order'[e.order].filled >= e.volume /\ order'[e.order].state # "UNKNOWN"
                      /\ e.kind # "accepted" => order'[e.order].state # "PENDING"
    BY DEF Absorbed
  <2> DEFINE o == e.order
             v == e.volume
             accepted == e.kind = "accepted"
  <2>1. o \in Orders /\ v \in 0 .. Volume
    BY DEF Events
  <2>2. o \in tracked /\ Onward(o)
    BY <1>1, <2>1, TrackedOnward
  <2>3. order[o].filled >= v /\ order[o].state # "UNKNOWN"
        /\ (~accepted => order[o].state # "PENDING")
    BY <1>1, <2>2 DEF Absorbed
  <2>4. order[o].filled \in 0 .. Volume /\ order'[o].filled \in 0 .. Volume
    BY <2>1 DEF TypeOK
  <2> HIDE DEF o, v, accepted
  <2>5. /\ order'[o].filled >= v /\ order'[o].state # "UNKNOWN"
        /\ ~accepted => order'[o].state # "PENDING"
    BY <2>1, <2>2, <2>3, <2>4, GatewayAssumption DEF Onward, Early
  <2> QED BY <2>5 DEF o, v, accepted
<1>2. ASSUME NEW r \in Calls, r[1] # "stray", call'[r].at = "answered", call'[r] = call[r]
      PROVE  \E e \in Events :
               /\ call'[r].event = e /\ Sound(e) /\ e.order = r[2] /\ e.kind # "error"
               /\ r[1] # "place" => e.kind # "accepted"
               /\ Absorbed(e)'
  <2>1. PICK e \in Events :
               /\ call'[r].event = e /\ Sound(e) /\ e.order = r[2] /\ e.kind # "error"
               /\ r[1] # "place" => e.kind # "accepted"
               /\ Absorbed(e)
    BY <1>2 DEF AnswersInv
  <2>2. r[2] \in Orders /\ r[1] \in {"place", "undo", "peer", "cancel"} /\ r = <<r[1], r[2]>>
    BY <1>2 DEF Calls
  <2>3. r[2][1] \in groups
    BY <1>2, <2>2 DEF UnaskedInv
  <2>4. Absorbed(e)'
    BY <1>1, <2>1, <2>3
  <2> QED BY <2>1, <2>4
<1>3. ASSUME NEW r \in Calls, r[1] # "stray", call'[r].at = "answered", call'[r] # call[r]
      PROVE  \E e \in Events :
               /\ call'[r].event = e /\ Sound(e) /\ e.order = r[2] /\ e.kind # "error"
               /\ r[1] # "place" => e.kind # "accepted"
               /\ Absorbed(e)'
  <2>1. Deliver
    BY <1>3, CallStep DEF CallKept
  <2>2. PICK e \in Events, sent \in BOOLEAN :
          /\ Sound(e)
          /\ IF e.kind = "error" THEN UNCHANGED <<order, latch, slip>> ELSE ApplyExecution(e)
          /\ call' = PeerCalls(Settles(e), Peers(e), sent)
          /\ UNCHANGED tracked
    BY <2>1, DeliverParts
  <2>3. r = e.answers /\ e.kind # "error" /\ call'[r].event = e
    BY <1>3, <2>2, DeliverCalls
  <2>4. Absorbed(e)'
    BY <2>2, <2>3, DeliverAbsorbs
  <2> QED BY <1>3, <2>2, <2>3, <2>4 DEF Sound
<1>4. ASSUME NEW r \in Calls, r[1] # "stray", call'[r].at = "answered"
      PROVE  LET e == call'[r].event
             IN /\ e \in Events /\ Sound(e) /\ e.order = r[2] /\ e.kind # "error"
                /\ r[1] # "place" => e.kind # "accepted"
                /\ e.order \in tracked' =>
                     /\ order'[e.order].filled >= e.volume /\ order'[e.order].state # "UNKNOWN"
                     /\ e.kind # "accepted" => order'[e.order].state # "PENDING"
  <2>1. PICK e \in Events :
               /\ call'[r].event = e /\ Sound(e) /\ e.order = r[2] /\ e.kind # "error"
               /\ r[1] # "place" => e.kind # "accepted"
               /\ Absorbed(e)'
    BY <1>2, <1>3, <1>4
  <2> QED BY <2>1 DEF Absorbed
<1> QED BY <1>4 DEF AnswersInv, Absorbed, Sound

LEMMA SettlingStep ==
  ASSUME GatewayInv, PeerInv, TypeInv', Next, ~Restart
  PROVE  SettlingInv'
<1> USE DEF GatewayInv, PeerInv, TypeInv
<1> SUFFICES ASSUME NEW p \in tracked', call'[<<"peer", p>>].at = "settling"
             PROVE  order'[p].state \notin Early
  BY DEF SettlingInv
<1> DEFINE r == <<"peer", p>>
<1>1. p \in Orders /\ r \in Calls /\ r[1] = "peer" /\ r[2] = p
  BY RequestOf DEF TypeOK
<1>2. call[r].at = "settling" \/ (call[r].at = "answered" /\ ~Deliver)
  <2>1. CASE Deliver
    <3>1. PICK e \in Events, sent \in BOOLEAN : call' = PeerCalls(Settles(e), Peers(e), sent)
      BY <2>1, DeliverParts
    <3> QED BY <1>1, <3>1, DeliverCalls
  <2>2. CASE ~Deliver
    <3>1. CallKept(r)
      BY <1>1, <2>2, CallStep
    <3>2. \A q \in Orders : r = <<"peer", q>> => q = p
      OBVIOUS
    <3> QED BY <2>2, <3>1, <3>2 DEF CallKept, PeerAnswered
  <2> QED BY <2>1, <2>2
<1>3. p[1] \in groups
  BY <1>1, <1>2 DEF UnaskedInv
<1>4. p \in tracked /\ Onward(p)
  BY <1>1, <1>3, TrackedOnward
<1>5. order[p].state \notin Early
  <2>1. CASE call[r].at = "settling"
    BY <1>4, <2>1 DEF SettlingInv
  <2>2. CASE call[r].at = "answered"
    BY <1>1, <1>4, <2>2 DEF AnswersInv, Absorbed, Early
  <2> QED BY <1>2, <2>1, <2>2
<1> QED BY <1>4, <1>5 DEF Onward, Early

LEMMA RegistryStep ==
  ASSUME TypeInv, SentInv, RegistryInv, Next, ~Restart
  PROVE  RegistryInv'
<1> USE DEF memory, socket, broker, history
<1>1. \A o \in tracked' : OrdersOf(o[1]) \subseteq tracked'
  <2>1. CASE Check1
    <3>1. \A o \in OrdersOf(place.group) : o[1] = place.group
      BY DEF OrdersOf
    <3> QED BY <2>1, <3>1 DEF Check1, RegistryInv
  <2>2. CASE \E g \in Groups : AcknowledgeTerminal(g)
    <3>1. PICK g \in Groups : AcknowledgeTerminal(g)
      BY <2>2
    <3>2. tracked' = tracked \ OrdersOf(g)
      BY <3>1 DEF AcknowledgeTerminal
    <3>3. ASSUME NEW o \in tracked', NEW p \in OrdersOf(o[1])
          PROVE  p \in tracked'
      <4>1. o \in Orders /\ o \in OrdersOf(o[1])
        BY <3>2, OrderFacts DEF TypeInv, TypeOK
      <4>2. o[1] # g /\ p[1] = o[1]
        BY <3>2, <3>3, <4>1 DEF OrdersOf
      <4> QED BY <3>2, <3>3, <4>2 DEF RegistryInv, OrdersOf
    <3> QED BY <3>3
  <2>3. CASE UNCHANGED tracked
    BY <2>3 DEF RegistryInv
  <2> QED BY <2>1, <2>2, <2>3, GroupsGrow
<1>2. place'.at \notin Ready \cup Unregistered => place'.group \in groups'
  <2> USE DEF Ready, Unregistered, RegistryInv
  <2>1. CASE UNCHANGED place
    BY <2>1, GroupsGrow
  <2>2. CASE \E g \in Groups : PlaceCall(g)
    BY <2>2 DEF PlaceCall
  <2>3. CASE Placement
    <3> USE DEF At, GoTo, Return, Throw
    <3>1. CASE Snapshot \/ Check1 \/ Session1 \/ Check2 \/ Readiness
      BY <3>1 DEF Snapshot, Check1, Session1, Check2, Readiness
    <3>2. CASE Session2 \/ SnapshotFails \/ Placed1 \/ Settled1
      BY <3>2 DEF Session2, SnapshotFails, Placed1, Settled1
    <3>3. CASE Session3 \/ UndoneClosed \/ UndoneFailed \/ Thrown
      BY <3>3 DEF Session3, UndoneClosed, UndoneFailed, Thrown
    <3>4. CASE Placed2 \/ Settled2
      BY <3>4 DEF Placed2, Settled2, Unwind
    <3> QED BY <2>3, <3>1, <3>2, <3>3, <3>4 DEF Placement
  <2> QED BY <2>1, <2>2, <2>3, ElsewhereUnchanged
<1> QED BY <1>1, <1>2 DEF RegistryInv

\* Only a placement past its registration hands a NEW_ORDER to the socket, and only a
\* NEW_ORDER on the wire becomes a working order.
LEMMA WireStep ==
  ASSUME TypeInv, RegistryInv, FeedInv, Next, ~Restart, NEW o \in Orders,
         <<"place", o>> \in wire'
  PROVE  <<"place", o>> \in wire \/ o[1] \in groups
<1> USE DEF memory, socket, broker, history, TypeInv
<1> DEFINE g == place.group
           r == <<"place", o>>
<1>0. r[1] = "place" /\ \A p : <<"peer", p>> # r /\ <<"undo", p>> # r
  OBVIOUS
<1>1. CASE UNCHANGED wire \/ wire' \subseteq wire
  BY <1>1
<1>2. CASE Session2 \/ Session3
  <2>1. g \in groups /\ First(g)[1] = g /\ Second(g)[1] = g
    BY <1>2 DEF Session2, Session3, At, RegistryInv, Ready, Unregistered, First, Second
  <2>2. wire' = wire \/ \E p : wire' \subseteq wire \cup {<<"place", p>>, <<"undo", First(g)>>}
                                /\ p[1] = g
    BY <1>2, <2>1 DEF Session2, Session3, Dispatch, Undo, OnWire
  <2> QED BY <2>1, <2>2
<1>3. CASE Placed2 \/ Settled2
  <2>1. \A S : PeerWire(S, TRUE) = wire \cup {<<"peer", p>> : p \in S} /\ PeerWire(S, FALSE) = wire
    BY DEF PeerWire
  <2>2. Sendable \subseteq BOOLEAN
    BY DEF Sendable
  <2>3. \/ wire' = wire \/ wire' = wire \cup {<<"undo", First(g)>>}
        \/ \E S : wire' = wire \cup {<<"peer", p>> : p \in S}
    BY <1>3, <2>1, <2>2 DEF Placed2, Settled2, Unwind, Undo, OnWire
  <2> QED BY <1>0, <2>3
<1>4. CASE Deliver
  <2>1. PICK e \in Events, sent \in BOOLEAN : wire' = PeerWire(Peers(e), sent)
    BY <1>4, DeliverParts
  <2> QED BY <1>0, <2>1 DEF PeerWire
<1>5. CASE \E p \in Orders : CancelCall(p)
  <2>1. PICK p \in Orders : CancelCall(p)
    BY <1>5
  <2>2. wire' \subseteq wire \cup {<<"cancel", p>>, <<"stray", p>>}
    BY <2>1 DEF CancelCall, OnWire
  <2> QED BY <2>2
<1>6. CASE Snapshot \/ Check1 \/ Session1 \/ Check2 \/ Readiness \/ SnapshotFails \/ Settled1
           \/ Placed1 \/ UndoneClosed \/ UndoneFailed \/ Thrown
  BY <1>1, <1>6 DEF Snapshot, Check1, Session1, Check2, Readiness, SnapshotFails, Settled1,
                    Placed1, UndoneClosed, UndoneFailed, Thrown
<1>7. ASSUME ~Placement, ~Deliver, ~(\E p \in Orders : CancelCall(p))
      PROVE  wire' \subseteq wire
  BY <1>7, NextCases
     DEF PlaceCall, AcknowledgeTerminal, PeerAnswered, PeerDone, CancelAnswered, Timeout,
         Disconnect, Connect, BrokerPlace, BrokerCancel, BrokerFill, BrokerExpire, BrokerClose
<1> QED BY <1>1, <1>2, <1>3, <1>4, <1>5, <1>6, <1>7 DEF Placement

LEMMA BookStep ==
  ASSUME TypeInv, Next, NEW o \in Orders, book'[o].status = "working"
  PROVE  book[o].status = "working" \/ <<"place", o>> \in wire
<1> USE DEF memory, socket, broker, history, TypeInv
<1>0. book \in BookRecords
  BY TypeParts DEF BookRecords
<1>1. CASE \E p \in Orders, r \in Calls :
             /\ r[2] = p
             /\ BrokerPlace(p) \/ BrokerCancel(r) \/ BrokerFill(p) \/ BrokerExpire(p)
  <2>1. PICK p \in Orders, r \in Calls :
             /\ r[2] = p
             /\ BrokerPlace(p) \/ BrokerCancel(r) \/ BrokerFill(p) \/ BrokerExpire(p)
    BY <1>1
  <2>2. CASE BrokerPlace(p)
    BY <1>0, <2>2 DEF BrokerPlace, BookRecords
  <2>3. CASE BrokerCancel(r)
    BY <1>0, <2>1, <2>3 DEF BrokerCancel, BookRecords
  <2>4. CASE BrokerFill(p)
    BY <1>0, <2>4 DEF BrokerFill, BookRecords
  <2>5. CASE BrokerExpire(p)
    BY <1>0, <2>5 DEF BrokerExpire, BookRecords
  <2> QED BY <2>1, <2>2, <2>3, <2>4, <2>5
<1>2. ASSUME ~(\E p \in Orders, r \in Calls :
                 /\ r[2] = p
                 /\ BrokerPlace(p) \/ BrokerCancel(r) \/ BrokerFill(p) \/ BrokerExpire(p))
      PROVE  UNCHANGED book
  <2>1. CASE Placement
    BY <2>1 DEF Placement, Snapshot, Check1, Session1, Check2, Readiness, Session2, SnapshotFails,
                Placed1, Settled1, Session3, UndoneClosed, Placed2, Settled2, UndoneFailed, Thrown
  <2> QED BY <1>2, <2>1, NextCases
          DEF Deliver, PlaceCall, AcknowledgeTerminal, PeerAnswered, PeerDone, CancelAnswered,
              CancelCall, Timeout, Disconnect, Restart, Connect, BrokerClose
<1> QED BY <1>1, <1>2

LEMMA UnaskedStep ==
  ASSUME GatewayInv, PeerInv, Next, ~Restart
  PROVE  UnaskedInv'
<1> USE DEF GatewayInv, PeerInv
<1> SUFFICES ASSUME NEW o \in Orders, o[1] \notin groups'
             PROVE  \A op \in {"place", "undo", "peer", "cancel"} : call'[<<op, o>>].at = "none"
  BY DEF UnaskedInv
<1>0. o[1] \notin groups
  BY GroupsGrow
<1>1. ASSUME NEW op \in {"place", "undo", "peer", "cancel"}
      PROVE  call'[<<op, o>>].at = "none"
  <2> DEFINE r == <<op, o>>
  <2>1. r \in Calls /\ r[1] # "stray" /\ r[2] = o /\ call[r].at = "none"
    BY <1>0, RequestOf DEF UnaskedInv
  <2> HIDE DEF r
  <2>2. ASSUME ~Deliver
        PROVE  call'[r].at = "none"
    BY <1>0, <2>1, <2>2, CallStep DEF CallKept
  <2>3. ASSUME Deliver
        PROVE  call'[r].at = "none"
    <3>1. PICK e \in Events, sent \in BOOLEAN : call' = PeerCalls(Settles(e), Peers(e), sent)
      BY <2>3, DeliverParts
    <3>2. o \notin Peers(e)
      <4>1. ASSUME o \in Peers(e)
            PROVE  FALSE
        <5>1. e.order \in tracked /\ o \in OrdersOf(e.order[1])
          BY <4>1 DEF Peers, PeersToCancel
        <5>2. o[1] = e.order[1]
          BY <5>1 DEF OrdersOf
        <5> QED BY <1>0, <5>1, <5>2 DEF HeardInv
      <4> QED BY <4>1
    <3>3. TypeOK
      BY DEF TypeInv
    <3> QED BY <2>1, <3>1, <3>2, <3>3, DeliverCalls
  <2>4. call'[r].at = "none"
    BY <2>2, <2>3
  <2> QED BY <2>4 DEF r
<1> QED BY <1>1

LEMMA UnusedStep ==
  ASSUME GatewayInv, PeerInv, UnusedInv, Next, ~Restart
  PROVE  UnusedInv'
<1> USE DEF GatewayInv, PeerInv
<1>1. ASSUME NEW o \in Orders, o[1] \notin groups'
      PROVE  book'[o].status # "working" /\ <<"place", o>> \notin wire'
  <2>0. o[1] \notin groups
    BY <1>1, GroupsGrow
  <2> QED BY <2>0, BookStep, WireStep DEF UnusedInv
<1>2. At("check1")' => OrdersOf(place'.group) \cap snap'.working = {}
  <2> SUFFICES ASSUME place'.at = "check1"
               PROVE  OrdersOf(place'.group) \cap snap'.working = {}
    BY DEF At
  <2> USE DEF At, GoTo, Return, Throw
  <2>1. CASE Snapshot
    <3>1. place.group \in Groups /\ place.group \notin groups /\ place'.group = place.group
          /\ snap'.working = {o \in Orders : book[o].status = "working"}
      BY <2>1 DEF Snapshot, TypeInv, PlaceInv, SentInv, Ready, Unregistered
    <3>2. \A o \in OrdersOf(place.group) : o \in Orders /\ o[1] = place.group
      BY <3>1, OrderFacts DEF OrdersOf
    <3> QED BY <3>1, <3>2 DEF UnusedInv
  <2>2. CASE UNCHANGED <<place, snap>>
    BY <2>2 DEF UnusedInv
  <2>3. CASE Placement /\ ~Snapshot
    BY <2>3 DEF Placement, Check1, Session1, Check2, Readiness, Session2, SnapshotFails, Ready,
                Placed1, Settled1, Session3, UndoneClosed, Placed2, Settled2, Unwind,
                UndoneFailed, Thrown
  <2>4. CASE \E g \in Groups : PlaceCall(g)
    BY <2>4 DEF PlaceCall
  <2>5. ASSUME ~Placement, ~(\E g \in Groups : PlaceCall(g))
        PROVE  UNCHANGED <<place, snap>>
    BY <2>5, NextCases
       DEF Deliver, AcknowledgeTerminal, PeerAnswered, PeerDone, CancelAnswered,
           CancelCall, Timeout, Disconnect, Connect, BrokerPlace, BrokerCancel, BrokerFill,
           BrokerExpire, BrokerClose, memory
  <2> QED BY <2>1, <2>2, <2>3, <2>4, <2>5
<1> QED BY <1>1, <1>2 DEF UnusedInv

\* What works at the broker, or is read by a snapshot as working, is not filled entirely.
LEMMA WorkingStep ==
  ASSUME TypeInv, WorkingInv, Next
  PROVE  WorkingInv'
<1> USE DEF memory, socket, broker, history, TypeInv
<1>0. book \in BookRecords
  BY TypeParts DEF BookRecords
<1>1. ASSUME NEW o \in Orders, book'[o].status = "working"
      PROVE  book'[o].filled < Volume
  <2>1. CASE UNCHANGED book
    BY <1>1, <2>1 DEF WorkingInv
  <2>2. CASE \E p \in Orders, r \in Calls :
               /\ r[2] = p
               /\ BrokerPlace(p) \/ BrokerCancel(r) \/ BrokerFill(p) \/ BrokerExpire(p)
    <3>1. PICK p \in Orders, r \in Calls :
               /\ r[2] = p
               /\ BrokerPlace(p) \/ BrokerCancel(r) \/ BrokerFill(p) \/ BrokerExpire(p)
      BY <2>2
    <3>2. book[o].status = "working" => book[o].filled < Volume
      BY DEF WorkingInv
    <3>3. CASE BrokerPlace(p)
      BY <1>0, <1>1, <3>2, <3>3, GatewayAssumption DEF BrokerPlace, BookRecords
    <3>4. CASE BrokerCancel(r)
      BY <1>0, <1>1, <3>1, <3>2, <3>4 DEF BrokerCancel, BookRecords
    <3>5. CASE BrokerFill(p)
      <4>1. PICK v \in (book[p].filled + 1) .. Volume :
              book' = [book EXCEPT ![p] =
                        [status |-> IF v = Volume THEN "FILLED" ELSE "working", filled |-> v]]
        BY <3>5 DEF BrokerFill
      <4>2. o # p => book'[o] = book[o]
        BY <1>0, <4>1 DEF BookRecords
      <4>3. o = p => book'[o].filled = v /\ v # Volume
        BY <1>0, <1>1, <4>1 DEF BookRecords
      <4>4. book[p].filled \in Nat
        BY <1>0 DEF BookRecords
      <4> QED BY <1>1, <3>2, <4>1, <4>2, <4>3, <4>4, GatewayAssumption
    <3>6. CASE BrokerExpire(p)
      BY <1>0, <1>1, <3>2, <3>6 DEF BrokerExpire, BookRecords
    <3> QED BY <3>1, <3>3, <3>4, <3>5, <3>6
  <2>3. ASSUME ~(\E p \in Orders, r \in Calls :
                   /\ r[2] = p
                   /\ BrokerPlace(p) \/ BrokerCancel(r) \/ BrokerFill(p) \/ BrokerExpire(p))
        PROVE  UNCHANGED book
    <3>1. CASE Placement
      BY <3>1 DEF Placement, Snapshot, Check1, Session1, Check2, Readiness, Session2,
                  SnapshotFails, Placed1, Settled1, Session3, UndoneClosed, Placed2, Settled2,
                  UndoneFailed, Thrown
    <3> QED BY <2>3, <3>1, NextCases
            DEF Deliver, PlaceCall, AcknowledgeTerminal, PeerAnswered, PeerDone, CancelAnswered,
                CancelCall, Timeout, Disconnect, Restart, Connect, BrokerClose
  <2> QED BY <2>1, <2>2, <2>3
<1>2. \A o \in snap'.working : snap'.filled[o] < Volume
  <2>1. CASE Snapshot
    BY <2>1 DEF Snapshot, WorkingInv
  <2>2. CASE snap' = Nothing \/ UNCHANGED snap
    BY <2>2 DEF Nothing, WorkingInv
  <2>3. CASE Placement /\ ~Snapshot
    BY <2>2, <2>3 DEF Placement, Check1, Session1, Check2, Readiness, Session2, SnapshotFails,
                Placed1, Settled1, Session3, UndoneClosed, Placed2, Settled2, UndoneFailed, Thrown
  <2>4. ASSUME ~Placement
        PROVE  snap' = Nothing \/ UNCHANGED snap
    BY <2>4, NextCases
       DEF Deliver, PlaceCall, AcknowledgeTerminal, PeerAnswered, PeerDone, CancelAnswered,
           CancelCall, Timeout, Disconnect, Restart, Connect, BrokerPlace, BrokerCancel,
           BrokerFill, BrokerExpire, BrokerClose
  <2> QED BY <2>1, <2>2, <2>3, <2>4
<1> QED BY <1>1, <1>2 DEF WorkingInv

\* A latch is only cleared by the acknowledgement of the group that slipped, and only
\* a price over the cap latches slippage.
LatchInv == "exceeded" \notin Prices => latch # "SLIPPAGE_EXCEEDED"

LEMMA LatchStep ==
  ASSUME GatewayInv, Next, ~Restart
  PROVE  /\ "exceeded" \notin Prices /\ latch' = "SLIPPAGE_EXCEEDED" => latch = "SLIPPAGE_EXCEEDED"
         /\ ~(\E g \in Groups : AcknowledgeTerminal(g)) /\ latch # "none" => latch' # "none"
<1> USE DEF GatewayInv, TypeInv, memory
<1>0. TypeOK /\ \A r \in Calls : call[r].event \in Events \cup {NoEvent}
  BY AnswerType
<1>1. ASSUME NEW e \in Events \cup {NoEvent}, ApplyExecution(e)
      PROVE  /\ "exceeded" \notin Prices /\ latch' = "SLIPPAGE_EXCEEDED"
                => latch = "SLIPPAGE_EXCEEDED"
             /\ latch # "none" => latch' # "none"
  <2>1. "exceeded" \notin Prices => e.price # "exceeded"
    BY DEF Events, NoEvent
  <2>2. e.price \in {"within", "exceeded", "missing"}
    <3>1. Prices \subseteq {"within", "exceeded", "missing"}
      BY GatewayAssumption
    <3>2. CASE e \in Events
      BY <3>1, <3>2 DEF Events
    <3>3. CASE e = NoEvent
      BY <3>3 DEF NoEvent
    <3> QED BY <3>2, <3>3
  <2> QED BY <1>1, <2>1, <2>2 DEF ApplyExecution, LatchAfter
<1>2. CASE UNCHANGED latch
  BY <1>2
<1>3. CASE Placement
  <2>1. place.at \in Ready \/ First(place.group) \in Orders
    BY OrderFacts DEF PlaceInv
  <2>2. place.at \in PairSteps => Second(place.group) \in Orders
    BY OrderFacts DEF PlaceInv
  <2>3. \/ latch' \in {latch, "PARTIAL_RECOVERY", "SECOND_LEG_CANCELLATION"}
        \/ \E r \in Calls : ApplyExecution(call[r].event)
    <3>1. CASE Snapshot \/ Check1 \/ Session1 \/ Check2 \/ Readiness \/ SnapshotFails
               \/ Session2 \/ Settled1 \/ Session3 \/ Settled2 \/ Thrown
      BY <3>1 DEF Snapshot, Check1, Session1, Check2, Readiness, SnapshotFails, Session2,
                  Settled1, Session3, Settled2, Thrown
    <3>2. CASE Placed1
      BY <2>1, <3>2, RequestOf DEF Placed1, At, Ready
    <3>3. CASE UndoneClosed \/ UndoneFailed
      BY <2>1, <3>3, RequestOf DEF UndoneClosed, UndoneFailed, At, Ready
    <3>4. CASE Placed2
      BY <2>2, <3>4, RequestOf DEF Placed2, At, PairSteps
    <3> QED BY <1>3, <3>1, <3>2, <3>3, <3>4 DEF Placement
  <2> QED BY <1>0, <1>1, <2>3
<1>4. CASE Deliver
  <2>1. \E e \in Events : ApplyExecution(e) \/ UNCHANGED latch
    BY <1>4, DeliverParts
  <2> QED BY <1>1, <2>1
<1>5. CASE \E o \in Orders : PeerAnswered(o) \/ PeerDone(o) \/ CancelAnswered(o)
  <2>1. \/ latch' \in {latch, "OCO_CANCELLATION"}
        \/ \E r \in Calls : ApplyExecution(call[r].event)
    BY <1>5, RequestOf DEF PeerAnswered, PeerDone, CancelAnswered
  <2> QED BY <1>0, <1>1, <2>1
<1>6. CASE \E g \in Groups : AcknowledgeTerminal(g)
  BY <1>6 DEF AcknowledgeTerminal
<1>7. ASSUME ~Placement, ~Deliver,
             ~(\E o \in Orders : PeerAnswered(o) \/ PeerDone(o) \/ CancelAnswered(o)),
             ~(\E g \in Groups : AcknowledgeTerminal(g))
      PROVE  UNCHANGED latch
  BY <1>7, NextCases
     DEF PlaceCall, CancelCall, Timeout, Disconnect, Connect, BrokerPlace, BrokerCancel,
         BrokerFill, BrokerExpire, BrokerClose
<1> QED BY <1>2, <1>3, <1>4, <1>5, <1>6, <1>7

LEMMA LatchHeld ==
  ASSUME GatewayInv, Next, ~Restart, latch # "none", latch' = "none",
         NEW o \in tracked', o \in Orders
  PROVE  \E h \in Groups \ {o[1]} :
           slip = h /\ latch = "SLIPPAGE_EXCEEDED" /\ AcknowledgeTerminal(h)
<1>1. PICK h \in Groups : AcknowledgeTerminal(h)
  BY LatchStep
<1>2. o[1] # h
  BY <1>1, OrderFacts DEF AcknowledgeTerminal
<1> QED BY <1>1, <1>2 DEF AcknowledgeTerminal

\* A delivery that touches a pair cancels the pending peer of its filled leg.
LEMMA DeliverPursues ==
  ASSUME TypeOK, NEW e \in Events, e.kind # "error", e.order \in tracked, order' = OrderAfter(e),
         NEW sent \in BOOLEAN, call' = PeerCalls(Settles(e), Peers(e), sent),
         NEW g \in Oco, e.order[1] = g, NEW o \in OrdersOf(g), Coherent(order'[Other(o)]),
         order'[o].filled > 0, order'[Other(o)].id, order'[Other(o)].state = "PENDING"
  PROVE  call'[<<"peer", Other(o)>>].at # "none"
<1> DEFINE p == Other(o)
           r == <<"peer", p>>
<1>1. /\ OrdersOf(g) = {First(g), Second(g)} /\ First(g) # Second(g)
      /\ Other(First(g)) = Second(g) /\ Other(Second(g)) = First(g)
  BY DEF OrdersOf, Legs, First, Second, Other
<1>2. g \in Groups /\ p \in OrdersOf(g) \ {o} /\ p \in Orders /\ r \in Calls
  <2>1. g \in Groups /\ OrdersOf(g) \subseteq Orders
    BY OrderFacts
  <2>2. p \in OrdersOf(g) \ {o}
    BY <1>1
  <2> QED BY <2>1, <2>2, RequestOf
<1>3. order'[p].filled = 0
  BY DEF Coherent, Early
<1>4. call[r].at = "none" => p \in PeersToCancel(g, OrderAfter(e))
  <2>1. ~(\A q \in OrdersOf(g) : order'[q].filled = 0)
    OBVIOUS
  <2>2. CASE o = First(g)
    BY <1>2, <2>1, <2>2 DEF PeersToCancel
  <2>3. CASE o = Second(g)
    BY <1>1, <1>2, <1>3, <2>1, <2>3 DEF PeersToCancel
  <2> QED BY <1>1, <2>2, <2>3
<1>5. Settles(e)[r].at = "none" => call[r].at = "none"
  BY <1>2, TypeParts DEF Settles, CallRecords
<1>6. Settles(e)[r].at = "none" => p \in Peers(e)
  BY <1>4, <1>5 DEF Peers
<1>7. CASE p \in Peers(e)
  BY <1>2, <1>7 DEF PeerCalls
<1>8. CASE p \notin Peers(e)
  BY <1>2, <1>6, <1>8 DEF PeerCalls
<1> QED BY <1>7, <1>8

\* What is heard of orders: only a delivery adds to it, and only a restart forgets.
LEMMA HistoryKept ==
  ASSUME Next, ~Restart
  PROVE  UNCHANGED restarts /\ (~Deliver => UNCHANGED heard)
<1>1. CASE Placement
  BY <1>1 DEF Placement, Snapshot, Check1, Session1, Check2, Readiness, Session2, SnapshotFails,
              Placed1, Settled1, Session3, UndoneClosed, Placed2, Settled2, UndoneFailed, Thrown,
              history
<1> QED BY <1>1, NextCases
        DEF Deliver, PlaceCall, PeerAnswered, PeerDone, CancelAnswered, CancelCall, Timeout,
            AcknowledgeTerminal, Disconnect, Connect, BrokerPlace, BrokerCancel, BrokerFill,
            BrokerExpire, BrokerClose, history

LEMMA PursuitStep ==
  ASSUME GatewayInv, PeerInv, TypeInv', HeardInv', RegistryInv', StatesInv', Next, ~Restart,
         NEW g \in Oco, NEW o \in OrdersOf(g), LeftAlone(o)', latch' = "none"
  PROVE  \/ LeftAlone(o) /\ latch = "none"
         \/ \E h \in Groups \ {g} :
              slip = h /\ latch = "SLIPPAGE_EXCEEDED" /\ AcknowledgeTerminal(h)
<1> USE DEF GatewayInv, PeerInv, TypeInv
<1> DEFINE p == Other(o)
           r == <<"peer", p>>
<1>0. /\ o \in tracked' /\ o \in heard' /\ order'[o].filled > 0
      /\ order'[p].id /\ order'[p].state = "PENDING" /\ call'[r].at = "none"
  BY DEF LeftAlone
<1>1. /\ o \in Orders /\ o[1] = g /\ p \in OrdersOf(g) /\ p[1] = g /\ p \in Orders
      /\ p \in tracked' /\ r \in Calls
  <2>1. o \in Orders /\ o[1] = g /\ p \in OrdersOf(g) /\ p[1] = g
    BY OrderFacts DEF OrdersOf, Legs, Other
  <2>2. p \in Orders /\ p \in tracked'
    BY <1>0, <2>1, OrderFacts DEF RegistryInv
  <2> QED BY <2>1, <2>2, RequestOf
<1>2. TypeOK
  OBVIOUS
<1>3. g \in groups
  <2>1. ASSUME g \notin groups
        PROVE  FALSE
    <3>1. g \in groups'
      BY <1>0, <1>1 DEF HeardInv
    <3>2. Check1
      BY <2>1, <3>1, GroupsGrow
    <3>3. ~Deliver
      BY <2>1, <3>1 DEF Deliver
    <3>4. o \in heard
      BY <1>0, <3>3, HistoryKept
    <3> QED BY <1>1, <2>1, <3>4 DEF HeardInv
  <2> QED BY <2>1
<1>4. /\ o \in tracked /\ Onward(o) /\ (Deliver \/ Calm(o))
      /\ p \in tracked /\ Onward(p) /\ (Deliver \/ Calm(p))
  BY <1>0, <1>1, <1>3, TrackedOnward
<1>5. CASE latch # "none"
  BY <1>0, <1>1, <1>5, LatchHeld
<1>6. ASSUME latch = "none", ~Deliver
      PROVE  LeftAlone(o)
  <2>1. order[o].filled > 0 /\ order[p].state = "PENDING" /\ o \in heard
    BY <1>0, <1>4, <1>6, HistoryKept DEF Calm
  <2>2. order[p].id
    BY <1>4, <2>1 DEF StatesInv, Coherent
  <2>3. call[r].at = "none"
    <3>1. CallKept(r)
      BY <1>1, <1>6, CallStep
    <3>2. ASSUME NEW q \in Orders, r = <<"peer", q>>, PeerDone(q)
          PROVE  FALSE
      <4>1. q = p
        BY <3>2
      <4>2. call[r].at # "settling"
        BY <1>4, <2>1 DEF SettlingInv, Early
      <4> QED BY <3>2, <4>1, <4>2 DEF PeerDone
    <3> QED BY <1>0, <1>1, <3>1, <3>2 DEF CallKept
  <2> QED BY <1>4, <2>1, <2>2, <2>3 DEF LeftAlone
<1>7. ASSUME Deliver
      PROVE  LeftAlone(o)
  <2>1. PICK e \in Events, sent \in BOOLEAN :
          /\ IF e.kind = "error" THEN UNCHANGED <<order, latch, slip>> ELSE ApplyExecution(e)
          /\ call' = PeerCalls(Settles(e), Peers(e), sent)
          /\ heard' = IF e.order \in tracked /\ e.kind \notin {"accepted", "error"}
                      THEN heard \cup {e.order} ELSE heard
    BY <1>7, DeliverParts
  <2>2. ASSUME e.kind # "error", e.order \in tracked, e.order[1] = g
        PROVE  FALSE
    <3>1. order' = OrderAfter(e) /\ Coherent(order'[p])
      BY <1>1, <2>1, <2>2 DEF ApplyExecution, StatesInv
    <3>2. call'[<<"peer", Other(o)>>].at # "none"
      BY <1>0, <1>2, <2>1, <2>2, <3>1, DeliverPursues
    <3> QED BY <1>0, <3>2
  <2>3. order'[o] = order[o] /\ order'[p] = order[p]
    BY <1>1, <2>1, <2>2, TypeParts DEF ApplyExecution, OrderAfter, Applies, OrderRecords
  <2>4. o \in heard
    BY <1>0, <1>1, <2>1, <2>2
  <2>5. call[r].at = "none"
    BY <1>0, <1>1, <1>2, <2>1, DeliverCalls
  <2> QED BY <1>0, <1>4, <2>3, <2>4, <2>5 DEF LeftAlone
<1> QED BY <1>5, <1>6, <1>7

\* The first life of the process.
LEMMA FilledStep ==
  ASSUME GatewayInv, PeerInv, UnusedInv, FilledHeard, TypeInv', HeardInv', Next, ~Restart
  PROVE  FilledHeard'
<1> USE DEF GatewayInv, PeerInv, TypeInv
<1> SUFFICES ASSUME NEW o \in tracked', order'[o].filled > 0
             PROVE  o \in heard'
  BY DEF FilledHeard
<1>1. o \in Orders /\ o[1] \in groups'
  BY DEF HeardInv, TypeOK
<1>2. o[1] \in groups
  <2>1. ASSUME o[1] \notin groups
        PROVE  FALSE
    <3>1. Check1 /\ o[1] = place.group
      BY <1>1, <2>1, GroupsGrow, Registers
    <3>2. order'[o] = Fresh
      BY <1>1, <3>1, RegistersFresh, OrderFacts
    <3> QED BY <3>2 DEF Fresh
  <2> QED BY <2>1
<1>3. o \in tracked /\ (Deliver \/ Calm(o))
  BY <1>1, <1>2, TrackedOnward
<1>4. CASE ~Deliver
  BY <1>3, <1>4, HistoryKept DEF Calm, FilledHeard
<1>5. CASE Deliver
  <2>1. PICK e \in Events, sent \in BOOLEAN :
          /\ Sound(e)
          /\ IF e.kind = "error" THEN UNCHANGED <<order, latch, slip>> ELSE ApplyExecution(e)
          /\ heard' = IF e.order \in tracked /\ e.kind \notin {"accepted", "error"}
                      THEN heard \cup {e.order} ELSE heard
    BY <1>5, DeliverParts
  <2>2. CASE order'[o] = order[o]
    BY <1>3, <2>1, <2>2 DEF FilledHeard
  <2>3. CASE order'[o] # order[o]
    <3>1. e.kind # "error" /\ Applies(e) /\ o = e.order
      BY <1>1, <2>1, <2>3, TypeParts DEF ApplyExecution, OrderAfter, OrderRecords
    <3>2. order'[o].filled = e.volume
      BY <1>1, <2>1, <3>1, TypeParts DEF ApplyExecution, OrderAfter, OrderRecords
    <3>3. e.kind # "accepted"
      BY <2>1, <3>2 DEF Sound
    <3> QED BY <1>3, <2>1, <3>1, <3>3
  <2> QED BY <2>2, <2>3
<1> QED BY <1>4, <1>5

LEMMA PeerInit == Init => PeerInv /\ UnusedInv /\ FilledHeard
  BY DEF Init, PeerInv, StatesInv, AnswersInv, SettlingInv, RegistryInv, UnaskedInv, WorkingInv,
         UnusedInv, FilledHeard, Idle, Ready, At, Quiet, Calls, Unlisted, Nothing

LEMMA PeerStep == GatewayInv /\ PeerInv /\ [Next]_vars => PeerInv'
<1>1. ASSUME GatewayInv, PeerInv, Next, ~Restart
      PROVE  PeerInv'
  <2>1. TypeInv' /\ HeardInv'
    BY <1>1, GatewayStep DEF GatewayInv
  <2> QED BY <1>1, <2>1, StatesStep, AnswersStep, SettlingStep, RegistryStep, UnaskedStep,
             WorkingStep DEF GatewayInv, PeerInv
<1>2. ASSUME GatewayInv, PeerInv, Next, Restart
      PROVE  PeerInv'
  <2>1. WorkingInv'
    BY <1>2, WorkingStep DEF GatewayInv, PeerInv
  <2>2. /\ tracked' = {} /\ place' = Idle
        /\ \A r \in Calls : call'[r].at = "none"
    BY <1>2 DEF Restart, Quiet
  <2>3. UnaskedInv'
    BY <2>2, RequestOf DEF UnaskedInv
  <2> QED BY <2>1, <2>2, <2>3
          DEF PeerInv, StatesInv, AnswersInv, SettlingInv, RegistryInv, Idle, Ready
<1>3. ASSUME PeerInv, UNCHANGED vars
      PROVE  PeerInv'
  BY <1>3 DEF vars, memory, socket, broker, history, PeerInv, StatesInv, AnswersInv, SettlingInv,
              RegistryInv, UnaskedInv, WorkingInv, Absorbed
<1> QED BY <1>1, <1>2, <1>3

LEMMA PeerInvariant == Spec => [](GatewayInv /\ PeerInv)
BY GatewayInit, GatewayStep, PeerInit, PeerStep, PTL DEF Spec

\* Over any number of restarts, whatever responses, callbacks, timeouts and lost connections
\* interleave: no step lets go of the peer of a leg whose fill the gateway has heard, except
\* by the acknowledgement of another group.
THEOREM PursuitsKept == Spec => PursuitKept
<1>1. GatewayInv /\ PeerInv /\ GatewayInv' /\ PeerInv' /\ [Next]_vars =>
        [\A g \in Oco : \A o \in OrdersOf(g) :
           LeftAlone(o)' /\ latch' = "none" =>
             \/ LeftAlone(o) /\ latch = "none"
             \/ \E h \in Groups \ {g} : slip = h /\ AcknowledgeTerminal(h)]_vars
  <2> SUFFICES ASSUME GatewayInv, PeerInv, GatewayInv', PeerInv', Next,
                      NEW g \in Oco, NEW o \in OrdersOf(g), LeftAlone(o)', latch' = "none"
               PROVE  \/ LeftAlone(o) /\ latch = "none"
                      \/ \E h \in Groups \ {g} : slip = h /\ AcknowledgeTerminal(h)
    OBVIOUS
  <2>1. CASE Restart
    BY <2>1 DEF Restart, LeftAlone
  <2>2. CASE ~Restart
    BY <2>2, PursuitStep DEF GatewayInv, PeerInv
  <2> QED BY <2>1, <2>2
<1> QED BY <1>1, PeerInvariant, PTL DEF Spec, PursuitKept

\* The acknowledgement that clears a slippage latch ends the group it was latched for:
\* no other group may be waiting for its own cancellation.
ClearsItsOwn == "exceeded" \notin Prices \/ \A g, h \in Groups : g = h

\* No leg is left alone while the gateway is open.
NoneLeftAlone == \A g \in Oco : \A o \in OrdersOf(g) : LeftAlone(o) => latch # "none"

LEMMA NoneLeftStep ==
  ASSUME ClearsItsOwn, GatewayInv, PeerInv, GatewayInv', PeerInv', LatchInv, NoneLeftAlone,
         [Next]_vars
  PROVE  LatchInv' /\ NoneLeftAlone'
<1>1. CASE UNCHANGED vars
  BY <1>1 DEF vars, memory, history, LatchInv, NoneLeftAlone, LeftAlone
<1>2. CASE Next /\ Restart
  BY <1>2 DEF Restart, LatchInv, NoneLeftAlone, LeftAlone
<1>3. CASE Next /\ ~Restart
  <2>1. LatchInv'
    BY <1>3, LatchStep DEF LatchInv
  <2>2. ASSUME NEW g \in Oco, NEW o \in OrdersOf(g), LeftAlone(o)', latch' = "none"
        PROVE  FALSE
    <3>1. PICK h \in Groups \ {g} : latch = "SLIPPAGE_EXCEEDED" /\ AcknowledgeTerminal(h)
      BY <1>3, <2>2, PursuitStep DEF NoneLeftAlone, GatewayInv, PeerInv
    <3>2. g \in Groups
      BY OrderFacts
    <3> QED BY <3>1, <3>2 DEF ClearsItsOwn, LatchInv
  <2> QED BY <2>1, <2>2 DEF NoneLeftAlone
<1> QED BY <1>1, <1>2, <1>3

\* Where no slippage latch can be cleared while another group is open, a heard fill always has
\* its pending peer cancelled or the gateway latched, after restarts too.
THEOREM NeverLeftAlone ==
  ASSUME ClearsItsOwn
  PROVE  Spec => []NoneLeftAlone
<1>1. Init => LatchInv /\ NoneLeftAlone
  BY DEF Init, LatchInv, NoneLeftAlone, LeftAlone
<1>2. /\ GatewayInv /\ PeerInv /\ GatewayInv' /\ PeerInv' /\ LatchInv /\ NoneLeftAlone /\ [Next]_vars
      => LatchInv' /\ NoneLeftAlone'
  BY NoneLeftStep
<1> QED BY <1>1, <1>2, PeerInvariant, PTL DEF Spec

\* Until the process restarts, once the gateway knows of a fill at all, a peer it knows to be
\* pending is being cancelled or the gateway is latched, under the same condition.
THEOREM PeersPursued ==
  ASSUME ClearsItsOwn
  PROVE  Spec => [](restarts = 0 => PeerPursued)
<1> DEFINE Inv == restarts = 0 => UnusedInv /\ FilledHeard
<1>1. Init => Inv
  BY PeerInit
<1>2. GatewayInv /\ PeerInv /\ GatewayInv' /\ Inv /\ [Next]_vars => Inv'
  <2>1. ASSUME GatewayInv, PeerInv, GatewayInv', Inv, Next, restarts' = 0
        PROVE  UnusedInv' /\ FilledHeard'
    <3>1. ~Restart
      BY <2>1 DEF GatewayInv, TypeInv, TypeOK, Restart
    <3>2. UnusedInv /\ FilledHeard
      BY <2>1, <3>1, HistoryKept
    <3> QED BY <2>1, <3>1, <3>2, UnusedStep, FilledStep DEF GatewayInv
  <2>2. ASSUME Inv, UNCHANGED vars
        PROVE  Inv'
    BY <2>2 DEF vars, memory, socket, broker, history, UnusedInv, FilledHeard, At
  <2> QED BY <2>1, <2>2
<1>3. GatewayInv /\ PeerInv /\ NoneLeftAlone /\ Inv => (restarts = 0 => PeerPursued)
  BY DEF NoneLeftAlone, LeftAlone, PeerPursued, FilledHeard
<1> QED BY <1>1, <1>2, <1>3, PeerInvariant, NeverLeftAlone, PTL DEF Spec
=============================================================================

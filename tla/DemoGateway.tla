------------------------------ MODULE DemoGateway ------------------------------
(***************************************************************************)
(* CTraderDemoGateway: how one entry (a directional order, or an OCO pair) *)
(* reaches the broker across the awaits of placeDirectional and placeOco,  *)
(* while execution callbacks, peer cancellations, maintenance cancels,     *)
(* terminal acknowledgements, timeouts, reconnects and restarts interleave.*)
(*                                                                         *)
(* Every action runs to the next await of the code, as one turn of the     *)
(* event loop does.  The broker and the socket are external.               *)
(***************************************************************************)
EXTENDS Naturals, Sequences, FiniteSets

CONSTANTS Groups,     \* the order groups a caller may place (idempotency keys)
          Oco,        \* the groups placed with placeOco; the others are directional
          Volume,     \* the requested volume of every order
          NoGroup,    \* no group
          Prices,     \* the fill prices that occur: see applyExecution
          Maintained, \* the groups whose orders maintenance may cancel
          MaxDrops,   \* bound on lost connections
          MaxRestarts, \* bound on process restarts
          MaxFeed     \* bound on the events the broker has in flight

ASSUME GatewayAssumption ==
  /\ Oco \subseteq Groups
  /\ NoGroup \notin Groups
  /\ Volume \in Nat \ {0}
  /\ Maintained \subseteq Groups
  /\ Prices \subseteq {"within", "exceeded", "missing"}
  /\ MaxDrops \in Nat
  /\ MaxRestarts \in Nat
  /\ MaxFeed \in Nat \ {0}

Legs(g) == IF g \in Oco THEN {1, 2} ELSE {1}
OrdersOf(g) == {<<g, i>> : i \in Legs(g)}
Orders == UNION {OrdersOf(g) : g \in Groups}
First(g) == <<g, 1>>
Second(g) == <<g, 2>>
Other(o) == <<o[1], 3 - o[2]>>

Terminal == {"FILLED", "CANCELLED", "EXPIRED", "REJECTED"}
States == Terminal \cup {"UNKNOWN", "PENDING", "PARTIALLY_FILLED"}

\* A request the client has a promise for: the placement of an order, the
\* cancellation placeOco itself issues for its first leg ("undo"), the one
\* cancelPendingPeer issues ("peer"), and the ones maintenance asks for, of a tracked
\* order ("cancel") or of one only the broker lists ("stray").
Calls == {"place", "undo", "peer", "cancel", "stray"} \X Orders
NoRequest == <<"none", <<NoGroup, 1>>>>

Kinds == {"accepted", "partial", "filled", "cancelled", "expired", "rejected", "error"}
Events == [order : Orders, kind : Kinds, volume : 0 .. Volume, price : {"within"} \cup Prices,
           answers : Calls \cup {NoRequest}]
NoEvent == [order |-> <<NoGroup, 1>>, kind |-> "error", volume |-> 0,
            price |-> "within", answers |-> NoRequest]

Latches == {"none", "PRICE_MISSING", "SLIPPAGE_EXCEEDED", "OCO_CANCELLATION",
            "SECOND_LEG_CANCELLATION", "PARTIAL_RECOVERY"}

Ready == {"idle", "returned", "threw"}
Steps == Ready \cup {"snapshot1", "check1", "session1", "snapshot2", "check2",
          "readiness", "session2", "placing1", "settle1", "session3",
          "undoClosed", "closing", "placing2", "settle2", "undoFailed", "failing"}

VARIABLES
  groups,   \* keys of #groups: survives retirement, lost in a restart
  tracked,  \* keys of #orders
  order,    \* the TrackedOrder objects
  latch,    \* #uncertainReason
  slip,     \* #slippageOrderGroupId
  place,    \* the one placement call and the await it is at
  snap,     \* the reconcileRaw answer that call is about to read
  call,     \* the client's pending promises, and #cancelInFlight
  sends,    \* history: NEW_ORDER requests this process handed to the transport
  wire,     \* requests sent and not yet seen by the broker
  feed,     \* events the broker sent and the socket has not delivered
  up,       \* the session is connected and authenticated
  book,     \* the broker's orders
  exposed,  \* orders whose position is open at the broker
  heard,    \* history: tracked orders with a delivered fill or terminal event
  drops,    \* lost connections so far
  restarts  \* process restarts so far

memory == <<groups, tracked, order, latch, slip, place, snap, call, sends>>
socket == <<wire, feed, up>>
broker == <<book, exposed>>
history == <<heard, drops, restarts>>
vars == <<memory, socket, broker, history>>

Fresh == [id |-> FALSE, state |-> "UNKNOWN", filled |-> 0]
Quiet == [at |-> "none", event |-> NoEvent]
Idle == [at |-> "idle", group |-> NoGroup]
Unlisted == [status |-> "none", filled |-> 0]
Nothing == [working |-> {}, filled |-> [o \in Orders |-> 0], flat |-> TRUE]

TypeOK ==
  /\ groups \subseteq Groups
  /\ tracked \subseteq Orders
  /\ order \in [Orders -> [id : BOOLEAN, state : States, filled : 0 .. Volume]]
  /\ latch \in Latches
  /\ slip \in Groups \cup {NoGroup}
  /\ place \in [at : Steps, group : Groups \cup {NoGroup}]
  /\ snap \in [working : SUBSET Orders, filled : [Orders -> 0 .. Volume], flat : BOOLEAN]
  /\ call \in [Calls -> [at : {"none", "sent", "answered", "failed", "settling"},
                            event : Events \cup {NoEvent}]]
  /\ sends \in [Orders -> Nat]
  /\ wire \subseteq Calls
  /\ feed \in Seq(Events)
  /\ up \in BOOLEAN
  /\ book \in [Orders -> [status : {"none", "working"} \cup Terminal, filled : 0 .. Volume]]
  /\ exposed \subseteq Orders
  /\ heard \subseteq Orders
  /\ drops \in Nat
  /\ restarts \in Nat

Init ==
  /\ groups = {} /\ tracked = {}
  /\ order = [o \in Orders |-> Fresh]
  /\ latch = "none" /\ slip = NoGroup
  /\ place = Idle /\ snap = Nothing
  /\ call = [r \in Calls |-> Quiet]
  /\ sends = [o \in Orders |-> 0]
  /\ wire = {} /\ feed = <<>> /\ up = TRUE
  /\ book = [o \in Orders |-> Unlisted] /\ exposed = {}
  /\ heard = {} /\ drops = 0 /\ restarts = 0

-----------------------------------------------------------------------------
(* Execution evidence *)

\* Mutant of StateOf: a working order keeps the broker's name for its status.
StateOfRaw(status, filled) ==
  IF 0 < filled /\ filled < Volume THEN "PARTIALLY_FILLED" ELSE status

\* stateFromOrder: an executed volume short of the total wins over the status.
StateOf(status, filled) ==
  IF 0 < filled /\ filled < Volume THEN "PARTIALLY_FILLED"
  ELSE IF status = "working" THEN "PENDING" ELSE status

Status(kind) ==
  IF kind = "filled" THEN "FILLED"
  ELSE IF kind = "cancelled" THEN "CANCELLED"
  ELSE IF kind = "expired" THEN "EXPIRED"
  ELSE IF kind = "rejected" THEN "REJECTED"
  ELSE "working"

NextState(e) == StateOf(Status(e.kind), e.volume)

\* Mutant of Applies: whatever arrives last wins.
AppliesLast(e) == e.order \in tracked

\* The guard of applyExecution: an older acceptance never erases a fill or a
\* terminal state, and untracked orders are ignored.
Applies(e) ==
  /\ e.order \in tracked
  /\ e.volume >= order[e.order].filled
  /\ ~(NextState(e) = "PENDING" /\ order[e.order].state \in Terminal)

IsFill(e) == e.kind \in {"partial", "filled"}

\* applyExecution, as the values it leaves in #orders and in the two latches.
OrderAfter(e) ==
  IF Applies(e)
  THEN [order EXCEPT ![e.order] =
          [id |-> TRUE, state |-> NextState(e), filled |-> e.volume]]
  ELSE order

LatchAfter(e) ==
  IF Applies(e) /\ IsFill(e) /\ e.price # "within"
  THEN IF e.price = "missing" THEN "PRICE_MISSING" ELSE "SLIPPAGE_EXCEEDED"
  ELSE latch

SlipAfter(e) ==
  IF Applies(e) /\ IsFill(e) /\ e.price = "exceeded" THEN e.order[1] ELSE slip

ApplyExecution(e) ==
  /\ order' = OrderAfter(e)
  /\ latch' = LatchAfter(e)
  /\ slip' = SlipAfter(e)

-----------------------------------------------------------------------------
(* Calls of the client: a promise, and the message if it is sent at all    *)

\* request(): not sent when the session is down, and perhaps not when it is up (a
\* rate-limit cooldown, a submission deadline).  A request the pacing queue still
\* holds counts as sent: only its timeout or a closed connection withdraws it, and
\* the broker may as well have seen it.
Sendable == IF up THEN BOOLEAN ELSE {FALSE}
Issued(calls, r, sent) ==
  [calls EXCEPT ![r] = [at |-> IF sent THEN "sent" ELSE "failed", event |-> NoEvent]]
OnWire(r, sent) == IF sent THEN wire \cup {r} ELSE wire
Forget(calls, r) == [calls EXCEPT ![r] = Quiet]

\* Mutant of PeersToCancel: only a fill of the first leg cancels its peer.
PeersOfFirst(g, ord) ==
  {p \in OrdersOf(g) \ {First(g)} :
     /\ ord[First(g)].filled > 0
     /\ ord[p].id /\ ord[p].state = "PENDING" /\ call[<<"peer", p>>].at = "none"}

\* cancelPendingPeer for the legs as ord has them: the peers to cancel now.  The
\* first leg with a fill decides; its peer must be pending under a known broker
\* id, with no cancellation already in flight.
PeersToCancel(g, ord) ==
  IF \A o \in OrdersOf(g) : ord[o].filled = 0 THEN {}
  ELSE LET filled == IF ord[First(g)].filled > 0 THEN First(g) ELSE Second(g)
       IN  {p \in OrdersOf(g) \ {filled} :
              ord[p].id /\ ord[p].state = "PENDING" /\ call[<<"peer", p>>].at = "none"}

PeerCalls(calls, peers, sent) ==
  [r \in Calls |->
     IF r[1] = "peer" /\ r[2] \in peers
     THEN [at |-> IF sent THEN "sent" ELSE "failed", event |-> NoEvent]
     ELSE calls[r]]
PeerWire(peers, sent) == IF sent THEN wire \cup {<<"peer", p>> : p \in peers} ELSE wire

-----------------------------------------------------------------------------
(* placeDirectional and placeOco *)

At(step) == place.at = step
GoTo(step) == place' = [at |-> step, group |-> place.group]
Return == GoTo("returned")
Throw == GoTo("threw")

\* A local rejection: rejectClosedSession, a withheld preflight or a withheld peer.
Reject(orders) ==
  order' = [o \in Orders |->
              IF o \in orders
              THEN [id |-> order[o].id, state |-> "REJECTED", filled |-> order[o].filled]
              ELSE order[o]]

\* The NEW_ORDER of a leg.
Dispatch(o) == \E sent \in Sendable :
  /\ call' = Issued(call, <<"place", o>>, sent)
  /\ wire' = OnWire(<<"place", o>>, sent)
  /\ sends' = IF sent THEN [sends EXCEPT ![o] = @ + 1] ELSE sends

\* placeOco cancels its own first leg.
Undo(calls, o) == \E sent \in Sendable :
  /\ call' = Issued(calls, <<"undo", o>>, sent)
  /\ wire' = OnWire(<<"undo", o>>, sent)

\* Mutant of PlaceCall: the known-key replay is forgotten.
PlaceCallAgain(g) ==
  /\ place.at \in Ready /\ latch = "none" /\ g \in Groups
  /\ place' = [at |-> "snapshot1", group |-> g]
  /\ UNCHANGED <<groups, tracked, order, latch, slip, snap, call, sends>>
  /\ UNCHANGED <<socket, broker, history>>

\* The call, up to its first reconcileRaw.  A latch throws, and a known key is an
\* idempotent replay that changes nothing: neither is a step.
PlaceCall(g) ==
  /\ place.at \in Ready /\ latch = "none" /\ g \notin groups
  /\ place' = [at |-> "snapshot1", group |-> g]
  /\ UNCHANGED <<groups, tracked, order, latch, slip, snap, call, sends>>
  /\ UNCHANGED <<socket, broker, history>>

\* The broker answers the reconcileRaw a placement awaits.
Snapshot ==
  /\ up
  /\ \/ At("snapshot1") /\ GoTo("check1")
     \/ At("snapshot2") /\ GoTo("check2")
  /\ snap' = [working |-> {o \in Orders : book[o].status = "working"},
              filled |-> [o \in Orders |-> book[o].filled],
              flat |-> exposed = {}]
  /\ UNCHANGED <<groups, tracked, order, latch, slip, call, sends>>
  /\ UNCHANGED <<socket, broker, history>>

Flat == snap.working = {} /\ snap.flat

\* recoverIdempotent, assertNoRelevantState and the registration of the group.
Check1 ==
  LET g == place.group
      seen == OrdersOf(g) \cap snap.working
  IN /\ At("check1")
     /\ snap' = Nothing
     /\ \/ /\ seen = {} /\ ~Flat
           /\ Throw
           /\ UNCHANGED <<groups, tracked, order, latch>>
        \/ /\ seen = {} /\ Flat
           /\ groups' = groups \cup {g}
           /\ tracked' = tracked \cup OrdersOf(g)
           /\ order' = [o \in Orders |-> IF o \in OrdersOf(g) THEN Fresh ELSE order[o]]
           /\ GoTo("session1")
           /\ UNCHANGED latch
        \/ /\ seen # {} /\ seen # OrdersOf(g)
           /\ latch' = "PARTIAL_RECOVERY"
           /\ Throw
           /\ UNCHANGED <<groups, tracked, order>>
        \/ /\ seen = OrdersOf(g)
           /\ groups' = groups \cup {g}
           /\ tracked' = tracked \cup OrdersOf(g)
           /\ order' = [o \in Orders |->
                          IF o \in seen
                          THEN [id |-> TRUE, state |-> StateOf("working", snap.filled[o]),
                                filled |-> snap.filled[o]]
                          ELSE order[o]]
           /\ Return
           /\ UNCHANGED latch
     /\ UNCHANGED <<slip, call, sends>> /\ UNCHANGED <<socket, broker, history>>

\* marketSession answers before the second snapshot: anything but OPEN rejects.
Session1 ==
  /\ At("session1")
  /\ \/ GoTo("snapshot2") /\ UNCHANGED order
     \/ Reject(OrdersOf(place.group)) /\ Return
  /\ UNCHANGED <<groups, tracked, latch, slip, snap, call, sends>>
  /\ UNCHANGED <<socket, broker, history>>

\* assertNoRelevantState on the second snapshot, which admits what happened
\* while the session was read; its failure withholds the group.
Check2 ==
  /\ At("check2")
  /\ snap' = Nothing
  /\ \/ Flat /\ GoTo("readiness") /\ UNCHANGED order
     \/ ~Flat /\ Reject(OrdersOf(place.group)) /\ Return
  /\ UNCHANGED <<groups, tracked, latch, slip, call, sends>>
  /\ UNCHANGED <<socket, broker, history>>

\* placementReadiness: the durable journal is certain, or the group is withheld.
Readiness ==
  /\ At("readiness")
  /\ \/ GoTo("session2") /\ UNCHANGED order
     \/ Reject(OrdersOf(place.group)) /\ Return
  /\ UNCHANGED <<groups, tracked, latch, slip, snap, call, sends>>
  /\ UNCHANGED <<socket, broker, history>>

\* The last session check, the rechecked latch and deadline, and the dispatch of
\* the first leg, with no await in between.
Session2 ==
  /\ At("session2")
  /\ \/ latch = "none" /\ Dispatch(First(place.group)) /\ GoTo("placing1") /\ UNCHANGED order
     \/ Reject(OrdersOf(place.group)) /\ Return /\ UNCHANGED <<call, wire, sends>>
  /\ UNCHANGED <<groups, tracked, latch, slip, snap>>
  /\ UNCHANGED <<feed, up, broker, history>>

\* A reconcileRaw of a placement rejects: before the registration the call
\* throws, within the preflight it withholds the group, after the first leg it
\* throws, and after the second leg it unwinds.
SnapshotFails ==
  /\ \/ place.at \in {"snapshot1", "settle1"} /\ Throw /\ UNCHANGED order
     \/ At("snapshot2") /\ Reject(OrdersOf(place.group)) /\ Return
  /\ UNCHANGED <<groups, tracked, latch, slip, snap, call, sends>>
  /\ UNCHANGED <<socket, broker, history>>

\* The placement response of the first leg: applied, or thrown to the caller
\* with the order left as it is, never to be resent.  An acknowledgement of
\* another type or lifetime than the command's throws as well.
Placed1 ==
  LET r == <<"place", First(place.group)>>
  IN /\ At("placing1")
     /\ \/ call[r].at = "answered" /\ ApplyExecution(call[r].event) /\ GoTo("settle1")
        \/ call[r].at \in {"answered", "failed"} /\ Throw /\ UNCHANGED <<order, latch, slip>>
     /\ call' = Forget(call, r)
     /\ UNCHANGED <<groups, tracked, snap, sends>> /\ UNCHANGED <<socket, broker, history>>

\* The reconcileRaw after the first leg: a directional placement returns.
Settled1 ==
  /\ At("settle1") /\ up
  /\ IF place.group \in Oco THEN GoTo("session3") ELSE Return
  /\ UNCHANGED <<groups, tracked, order, latch, slip, snap, call, sends>>
  /\ UNCHANGED <<socket, broker, history>>

Live(o) == order[o].id /\ order[o].state \in {"PENDING", "PARTIALLY_FILLED"}

\* The session check before the second leg.  Closed: the second leg is rejected
\* and a live first leg is cancelled.  Open: the second leg is withheld unless the
\* first is pending, unfilled and nothing is uncertain; then it is dispatched.
Session3 ==
  LET g == place.group
      one == First(g)
  IN /\ At("session3")
     /\ \/ /\ Reject({Second(g)})
           /\ IF Live(one)
              THEN Undo(call, one) /\ GoTo("undoClosed")
              ELSE GoTo("closing") /\ UNCHANGED <<call, wire>>
           /\ UNCHANGED sends
        \/ /\ ~(order[one].state = "PENDING" /\ order[one].filled = 0 /\ latch = "none")
           /\ Reject({Second(g)}) /\ Return
           /\ UNCHANGED <<call, wire, sends>>
        \/ /\ order[one].state = "PENDING" /\ order[one].filled = 0 /\ latch = "none"
           /\ Dispatch(Second(g)) /\ GoTo("placing2")
           /\ UNCHANGED order
     /\ UNCHANGED <<groups, tracked, latch, slip, snap>>
     /\ UNCHANGED <<feed, up, broker, history>>

\* The answer to the cancellation of the first leg after a closed session.
UndoneClosed ==
  LET r == <<"undo", First(place.group)>>
  IN /\ At("undoClosed")
     /\ \/ call[r].at = "answered" /\ ApplyExecution(call[r].event)
        \/ call[r].at = "failed" /\ latch' = "SECOND_LEG_CANCELLATION" /\ UNCHANGED <<order, slip>>
     /\ call' = Forget(call, r)
     /\ GoTo("closing")
     /\ UNCHANGED <<groups, tracked, snap, sends>> /\ UNCHANGED <<socket, broker, history>>

\* The catch block of placeOco: cancel a pending first leg, then throw.
Unwind(calls) ==
  LET one == First(place.group)
  IN IF order[one].id /\ order[one].state = "PENDING"
     THEN Undo(calls, one) /\ GoTo("undoFailed")
     ELSE call' = calls /\ GoTo("failing") /\ UNCHANGED wire

\* The placement response of the second leg, applied and followed by
\* cancelPendingPeer; its failure unwinds.
Placed2 ==
  LET g == place.group
      r == <<"place", Second(g)>>
  IN /\ At("placing2")
     /\ \/ /\ call[r].at = "answered"
           /\ ApplyExecution(call[r].event)
           /\ LET peers == PeersToCancel(g, OrderAfter(call[r].event))
              IN \E sent \in Sendable :
                   /\ call' = PeerCalls(Forget(call, r), peers, sent)
                   /\ wire' = PeerWire(peers, sent)
           /\ GoTo("settle2")
        \/ /\ call[r].at \in {"answered", "failed"}
           /\ Unwind(Forget(call, r))
           /\ UNCHANGED <<order, latch, slip>>
     /\ UNCHANGED <<groups, tracked, snap, sends>> /\ UNCHANGED <<feed, up, broker, history>>

\* The last reconcileRaw of a placement: return, or unwind inside the try block.
Settled2 ==
  /\ \/ At("settle2") \/ At("closing")
  /\ \/ up /\ Return /\ UNCHANGED <<call, wire>>
     \/ Unwind(call)
  /\ UNCHANGED <<groups, tracked, order, latch, slip, snap, sends>>
  /\ UNCHANGED <<feed, up, broker, history>>

\* The answer to the cancellation the catch block issued.
UndoneFailed ==
  LET r == <<"undo", First(place.group)>>
  IN /\ At("undoFailed")
     /\ \/ call[r].at = "answered" /\ ApplyExecution(call[r].event)
        \/ call[r].at = "failed" /\ latch' = "SECOND_LEG_CANCELLATION" /\ UNCHANGED <<order, slip>>
     /\ call' = Forget(call, r)
     /\ GoTo("failing")
     /\ UNCHANGED <<groups, tracked, snap, sends>> /\ UNCHANGED <<socket, broker, history>>

\* The catch block ends in a reconcileRaw and a throw, whatever it answered.
Thrown ==
  /\ At("failing") /\ Throw
  /\ UNCHANGED <<groups, tracked, order, latch, slip, snap, call, sends>>
  /\ UNCHANGED <<socket, broker, history>>

-----------------------------------------------------------------------------
(* Execution callbacks, peer cancellations and maintenance cancels *)

\* The socket delivers the next message: the promise it answers settles first,
\* then every handler runs.  handleExecution applies the evidence and revisits the
\* peer of the order's group.  An error answers a request and is no execution.
Deliver ==
  LET e == Head(feed)
      settled == IF e.answers \in Calls /\ call[e.answers].at = "sent"
                 THEN [call EXCEPT ![e.answers] =
                         [at |-> IF e.kind = "error" THEN "failed" ELSE "answered",
                          event |-> IF e.kind = "error" THEN NoEvent ELSE e]]
                 ELSE call
      peers == IF e.kind # "error" /\ e.order \in tracked
               THEN {p \in PeersToCancel(e.order[1], OrderAfter(e)) :
                       settled[<<"peer", p>>].at = "none"}
               ELSE {}
  IN /\ feed # <<>> /\ up
     /\ feed' = Tail(feed)
     /\ IF e.kind = "error" THEN UNCHANGED <<order, latch, slip>> ELSE ApplyExecution(e)
     /\ \E sent \in IF peers = {} THEN {FALSE} ELSE Sendable :
          /\ call' = PeerCalls(settled, peers, sent)
          /\ wire' = PeerWire(peers, sent)
     /\ heard' = IF e.order \in tracked /\ e.kind \notin {"accepted", "error"}
                 THEN heard \cup {e.order} ELSE heard
     /\ UNCHANGED <<groups, tracked, place, snap, sends, up>>
     /\ UNCHANGED <<broker, drops, restarts>>

\* cancelPendingPeer's then-branch: apply the answer, then await reconcileRaw.
PeerAnswered(o) ==
  LET r == <<"peer", o>>
  IN /\ call[r].at = "answered"
     /\ ApplyExecution(call[r].event)
     /\ call' = [call EXCEPT ![r] = [at |-> "settling", event |-> NoEvent]]
     /\ UNCHANGED <<groups, tracked, place, snap, sends>>
     /\ UNCHANGED <<socket, broker, history>>

\* Mutant of PeerDone: a failed cancellation is swallowed.
PeerDoneSilently(o) ==
  LET r == <<"peer", o>>
  IN /\ call[r].at \in {"settling", "failed"}
     /\ call' = Forget(call, r)
     /\ UNCHANGED <<groups, tracked, order, latch, slip, place, snap, sends>>
     /\ UNCHANGED <<socket, broker, history>>

\* Its end: the cancellation leaves #cancelInFlight; any failure on the way, of
\* the cancellation or of the reconcileRaw after it, latches uncertainty.
PeerDone(o) ==
  LET r == <<"peer", o>>
  IN /\ \/ call[r].at = "settling" /\ up /\ UNCHANGED latch
        \/ call[r].at \in {"settling", "failed"} /\ latch' = "OCO_CANCELLATION"
     /\ call' = Forget(call, r)
     /\ UNCHANGED <<groups, tracked, order, slip, place, snap, sends>>
     /\ UNCHANGED <<socket, broker, history>>

\* cancelStrategyOrder, as order maintenance calls it: one order at a time.  A
\* tracked order needs its broker id and a live state; an untracked one is taken
\* from the broker's own list of working orders (cancelRecoveredOrder).  That answer
\* and the request after it are one step: the order may end in between, and so it may
\* while the request is on the wire.
CancelCall(o) ==
  LET r == <<IF o \in tracked THEN "cancel" ELSE "stray", o>>
  IN /\ \A p \in Orders : call[<<"cancel", p>>].at = "none" /\ call[<<"stray", p>>].at = "none"
     /\ o[1] \in Maintained
     /\ IF o \in tracked THEN Live(o) ELSE up /\ book[o].status = "working"
     /\ \E sent \in Sendable : call' = Issued(call, r, sent) /\ wire' = OnWire(r, sent)
     /\ UNCHANGED <<groups, tracked, order, latch, slip, place, snap, sends>>
     /\ UNCHANGED <<feed, up, broker, history>>

\* Its end: only the answer for a tracked order is applied here.
CancelAnswered(o) ==
  LET r == <<"cancel", o>>
      stray == <<"stray", o>>
  IN /\ \/ call[r].at = "answered" /\ ApplyExecution(call[r].event) /\ call' = Forget(call, r)
        \/ call[r].at = "failed" /\ UNCHANGED <<order, latch, slip>> /\ call' = Forget(call, r)
        \/ /\ call[stray].at \in {"answered", "failed"} /\ call' = Forget(call, stray)
           /\ UNCHANGED <<order, latch, slip>>
     /\ UNCHANGED <<groups, tracked, place, snap, sends>>
     /\ UNCHANGED <<socket, broker, history>>

\* acknowledgeCertainTerminalRecovery: the durable proof names every order of the
\* group under the broker id the gateway knows, terminal, and filled entirely or
\* not at all; an order without one is proved unsent once its placement returned.
\* The group has had a position and that position is closed.
Proved(o) == IF order[o].id
             THEN \/ book[o].status = "FILLED" /\ book[o].filled = Volume
                  \/ book[o].status \in Terminal \ {"FILLED"} /\ book[o].filled = 0
             ELSE sends[o] = 0 /\ order[o].state = "REJECTED"
                  /\ (place.group = o[1] => place.at = "returned")

AcknowledgeTerminal(g) ==
  /\ g \in groups
  /\ \E o \in OrdersOf(g) : book[o].status = "FILLED"
  /\ \A o \in OrdersOf(g) : Proved(o) /\ o \notin exposed
  /\ order' = [o \in Orders |->
                 IF o \in OrdersOf(g)
                 THEN IF order[o].id
                      THEN [id |-> TRUE, state |-> book[o].status, filled |-> book[o].filled]
                      ELSE [id |-> FALSE, state |-> "REJECTED", filled |-> 0]
                 ELSE order[o]]
  /\ tracked' = tracked \ OrdersOf(g)
  /\ IF latch = "SLIPPAGE_EXCEEDED" /\ slip = g
     THEN latch' = "none" /\ slip' = NoGroup
     ELSE UNCHANGED <<latch, slip>>
  /\ UNCHANGED <<groups, place, snap, call, sends>>
  /\ UNCHANGED <<socket, broker, history>>

-----------------------------------------------------------------------------
(* The socket and the process *)

\* Mutant of Timeout: only cancellations have a timer.
TimeoutOfCancels(r) ==
  /\ r[1] # "place" /\ call[r].at = "sent"
  /\ call' = [call EXCEPT ![r] = [at |-> "failed", event |-> NoEvent]]
  /\ UNCHANGED <<groups, tracked, order, latch, slip, place, snap, sends>>
  /\ UNCHANGED <<socket, broker, history>>

\* The promise times out; the request may still reach the broker.
Timeout(r) ==
  /\ call[r].at = "sent"
  /\ call' = [call EXCEPT ![r] = [at |-> "failed", event |-> NoEvent]]
  /\ UNCHANGED <<groups, tracked, order, latch, slip, place, snap, sends>>
  /\ UNCHANGED <<socket, broker, history>>

\* The connection closes: pending promises reject, undelivered events are lost,
\* and requests already sent reach the broker or do not.
Disconnect ==
  /\ up /\ drops < MaxDrops
  /\ up' = FALSE /\ drops' = drops + 1 /\ UNCHANGED <<heard, restarts>>
  /\ feed' = <<>>
  /\ wire' \in SUBSET wire
  /\ call' = [r \in Calls |-> IF call[r].at = "sent"
                                 THEN [at |-> "failed", event |-> NoEvent] ELSE call[r]]
  /\ UNCHANGED <<groups, tracked, order, latch, slip, place, snap, sends, broker>>

\* The process dies: the gateway is rebuilt empty.
Restart ==
  /\ restarts < MaxRestarts
  /\ up' = FALSE /\ restarts' = restarts + 1 /\ heard' = {} /\ UNCHANGED drops
  /\ feed' = <<>>
  /\ wire' \in SUBSET wire
  /\ groups' = {} /\ tracked' = {}
  /\ order' = [o \in Orders |-> Fresh]
  /\ latch' = "none" /\ slip' = NoGroup
  /\ place' = Idle /\ snap' = Nothing
  /\ call' = [r \in Calls |-> Quiet]
  /\ sends' = [o \in Orders |-> 0]
  /\ UNCHANGED broker

Connect ==
  /\ ~up /\ up' = TRUE
  /\ UNCHANGED <<memory, wire, feed, broker, history>>

-----------------------------------------------------------------------------
(* The broker: external *)

Emit(events) ==
  IF up THEN /\ Len(feed) + Len(events) <= MaxFeed
             /\ feed' = feed \o events
  ELSE UNCHANGED feed

Event(o, kind, filled, price, answers) ==
  [order |-> o, kind |-> kind, volume |-> filled, price |-> price, answers |-> answers]

\* A NEW_ORDER becomes a working order, or is refused by an execution or an error.
BrokerPlace(o) ==
  LET r == <<"place", o>>
  IN /\ r \in wire /\ wire' = wire \ {r}
     /\ \/ /\ book' = [book EXCEPT ![o] = [status |-> "working", filled |-> 0]]
           /\ Emit(<<Event(o, "accepted", 0, "within", r)>>)
        \/ /\ book' = [book EXCEPT ![o] = [status |-> "REJECTED", filled |-> 0]]
           /\ \E kind \in {"rejected", "error"} : Emit(<<Event(o, kind, 0, "within", r)>>)
     /\ UNCHANGED <<memory, up, exposed, history>>

\* A cancellation cancels a working order and is refused for any other.
BrokerCancel(r) ==
  LET o == r[2]
  IN /\ r[1] # "place" /\ r \in wire /\ wire' = wire \ {r}
     /\ IF book[o].status = "working"
        THEN /\ book' = [book EXCEPT ![o] = [status |-> "CANCELLED", filled |-> book[o].filled]]
             /\ Emit(<<Event(o, "cancelled", book[o].filled, "within", r)>>)
        ELSE /\ Emit(<<Event(o, "error", 0, "within", r)>>)
             /\ UNCHANGED book
     /\ UNCHANGED <<memory, up, exposed, history>>

BrokerFill(o) ==
  /\ book[o].status = "working"
  /\ \E v \in (book[o].filled + 1) .. Volume, price \in Prices :
       /\ book' = [book EXCEPT ![o] =
                     [status |-> IF v = Volume THEN "FILLED" ELSE "working", filled |-> v]]
       /\ Emit(<<Event(o, IF v = Volume THEN "filled" ELSE "partial", v, price, NoRequest)>>)
  /\ exposed' = exposed \cup {o}
  /\ UNCHANGED <<memory, wire, up, history>>

BrokerExpire(o) ==
  /\ book[o].status = "working"
  /\ book' = [book EXCEPT ![o] = [status |-> "EXPIRED", filled |-> book[o].filled]]
  /\ Emit(<<Event(o, "expired", book[o].filled, "within", NoRequest)>>)
  /\ UNCHANGED <<memory, wire, up, exposed, history>>

\* The native protection closes the position; its events carry a closing order,
\* which the gateway ignores.
BrokerClose(o) ==
  /\ o \in exposed /\ exposed' = exposed \ {o}
  /\ UNCHANGED <<memory, socket, book, history>>

-----------------------------------------------------------------------------

Placement ==
  \/ Snapshot \/ Check1 \/ Session1 \/ Check2 \/ Readiness \/ Session2
  \/ SnapshotFails \/ Placed1 \/ Settled1 \/ Session3 \/ UndoneClosed
  \/ Placed2 \/ Settled2 \/ UndoneFailed \/ Thrown

Cancellation == \E o \in Orders : PeerAnswered(o) \/ PeerDone(o) \/ CancelAnswered(o)

Broker ==
  \E o \in Orders :
    \/ BrokerPlace(o) \/ BrokerFill(o) \/ BrokerExpire(o) \/ BrokerClose(o)
    \/ \E op \in {"undo", "peer", "cancel", "stray"} : BrokerCancel(<<op, o>>)

Next ==
  \/ \E g \in Groups : PlaceCall(g) \/ AcknowledgeTerminal(g)
  \/ Placement
  \/ Cancellation
  \/ \E o \in Orders : CancelCall(o)
  \/ \E r \in Calls : Timeout(r)
  \/ Deliver
  \/ Disconnect \/ Restart \/ Connect
  \/ Broker

Spec == Init /\ [][Next]_vars

\* What the event loop, the client's timers and the reconnect timer guarantee: the
\* continuations run, a promise settles or times out, delivered messages are
\* handled and a lost session is opened again.  Nothing is assumed of the broker.
Fairness ==
  /\ WF_vars(Placement)
  /\ \A o \in Orders : WF_vars(PeerAnswered(o)) /\ WF_vars(PeerDone(o)) /\ WF_vars(CancelAnswered(o))
  /\ \A r \in Calls : WF_vars(Timeout(r))
  /\ WF_vars(Deliver)
  /\ WF_vars(Connect)

FairSpec == Spec /\ Fairness

-----------------------------------------------------------------------------
(* Properties *)

\* "An unknown dispatch remains durably claimed; never resend the command", and
\* "retirement must never permit resubmission": whatever times out, is withheld,
\* is retried or is retired, a process hands a client order to the transport once.
SentOnce == \A o \in Orders : sends[o] <= 1

\* "Never let an older acceptance erase a fill/terminal state": while an order is
\* tracked its filled volume never decreases, and no terminal state goes back to
\* pending, in whatever order responses and callbacks are applied.
EvidenceMonotone ==
  \A o \in tracked \cap tracked' :
    groups \subseteq groups' =>
      /\ order'[o].filled >= order[o].filled
      /\ order[o].state \in Terminal => order'[o].state # "PENDING"
NeverErased == [][EvidenceMonotone]_vars

\* "Callbacks can change the first leg during reconciliation/session IO": the second
\* leg of a pair is never dispatched once the socket has delivered a fill or an end
\* of the first, whatever response or older callback was applied after it, nor over
\* a latched uncertainty.
SecondLegClear ==
  \A g \in Oco :
    sends'[Second(g)] > sends[Second(g)] => First(g) \notin heard /\ latch = "none"
NoBlindSecondLeg == [][SecondLegClear]_vars

\* cancelPendingPeer, revisited on acceptance and on fill: once the gateway knows
\* of a fill, a peer it knows to be pending is being cancelled or the gateway is
\* latched, so the other leg of a pair is never just left working.
PeerPursued ==
  \A g \in groups \cap Oco :
    \A o \in OrdersOf(g) :
      /\ o \in tracked /\ order[o].filled > 0
      /\ order[Other(o)].id /\ order[Other(o)].state = "PENDING"
      => call[<<"peer", Other(o)>>].at # "none" \/ latch # "none"

\* A leg whose fill or end the socket has delivered since the process began is known to be
\* filled, and its peer, which is known to be pending, is not being cancelled.
LeftAlone(o) ==
  /\ o \in tracked \cap heard /\ order[o].filled > 0
  /\ order[Other(o)].id /\ order[Other(o)].state = "PENDING"
  /\ call[<<"peer", Other(o)>>].at = "none"

\* A peer is let go in one way only. Whatever is answered, fails, is lost or is done again
\* after a restart, no step leaves a leg alone under an open gateway that was not so
\* before, but the acknowledgement of another group, which clears the latch of that
\* group's slippage, and with it the uncertainty this one had replaced (#blockUncertain).
PursuitKept ==
  [][\A g \in Oco : \A o \in OrdersOf(g) :
       LeftAlone(o)' /\ latch' = "none" =>
         \/ LeftAlone(o) /\ latch = "none"
         \/ \E h \in Groups \ {g} : slip = h /\ AcknowledgeTerminal(h)]_vars

\* Every await of a placement ends: the call returns or throws, whatever the
\* broker, the session or the journal answers, or if they never answer.
PlacementEnds == place.at \notin Ready ~> place.at \in Ready

\* Once the gateway knows a leg is filled, its pending peer does not stay pending
\* in silence: it reaches another state, the gateway latches, or the group retires.
PeerSettles ==
  \A g \in Oco : \A o \in OrdersOf(g) :
    (o \in tracked /\ order[o].filled > 0 /\ order[Other(o)].id /\ order[Other(o)].state = "PENDING")
      ~> (order[Other(o)].state # "PENDING" \/ latch # "none" \/ o \notin tracked)

=============================================================================

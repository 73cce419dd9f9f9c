--------------------------- MODULE TransportProofs ---------------------------
(***************************************************************************)
(* Proofs about Transport, for any set of requests and any number of       *)
(* faults, with or without SessionRecovery; the last is that it implements *)
(* RequestPromise.                                                         *)
(***************************************************************************)
EXTENDS Transport, SequenceTheorems, TLAPS

-----------------------------------------------------------------------------
(* The invariant.                                                          *)

\* A socket in use carries the generation in force; none is in use while a timer is armed,
\* and none is, nor will be before connect(), while a recovery waits for its close().
Named ==
  /\ conn.socket # None <=> conn.state # "none"
  /\ conn.socket # None => conn.socket = conn.generation
  /\ conn.retry # None => conn.socket = None
  /\ recovery.at = "closing" => conn.closed /\ conn.socket = None /\ conn.retry = None

\* Sockets that were given up are of earlier generations.
Earlier == \A s \in leaving : s < conn.generation

\* A caller that waits for an answer asked, on the socket in use.
Waiting ==
  \A m \in wire : /\ asked[m[1]] # Unasked
                  /\ m[1] \in pending => m[2] = conn.socket /\ conn.socket # None

\* A connection that no reconnect is opening is opened by a client without subscriptions.
Forgotten ==
  /\ conn.state = "opening" /\ subscribed => \E k \in reconnects : k.attempt = conn.generation
  /\ BelievesOnlyFed

TransportInv == TypeOK /\ Named /\ Earlier /\ Waiting /\ Forgotten

-----------------------------------------------------------------------------

LEMMA InitInv == Init => TransportInv
<1> SUFFICES ASSUME Init PROVE TransportInv
  OBVIOUS
<1>1. TypeOK
  <2>1. conn \in Connections /\ recovery \in Recoveries
    BY DEF Init, Connections, Recoveries, None
  <2>2. asked \in [Requests -> Nat] /\ queue \in Seq(Requests)
    BY DEF Init, Unasked
  <2>3. /\ pending \subseteq Requests /\ wire \subseteq Requests \X Nat
        /\ reconnects \subseteq Reconnects /\ leaving \subseteq Nat /\ fed \subseteq Nat
    BY DEF Init
  <2>4. faults \in 0 .. MaxFaults
    BY TransportAssumption DEF Init
  <2> QED BY <2>1, <2>2, <2>3, <2>4 DEF Init, TypeOK
<1>2. Named /\ Earlier /\ Waiting /\ Forgotten
  BY DEF Init, Named, Earlier, Waiting, Forgotten, BelievesOnlyFed, None, Connected
<1> QED BY <1>1, <1>2 DEF TransportInv

\* The steps that leave the connection and what is kept for it alone.
LEMMA Untouched ==
  ASSUME TransportInv, UNCHANGED <<conn, leaving, recovery, session, reconnects>>
  PROVE  Named' /\ Earlier' /\ Forgotten'
  BY DEF TransportInv, Named, Earlier, Forgotten, BelievesOnlyFed, session, Connected, None

\* Callers are told of a failure and nothing else changes for them.
LEMMA FewerWait ==
  ASSUME TransportInv, UNCHANGED <<conn, asked>>, wire' \subseteq wire, pending' \subseteq pending
  PROVE  Waiting'
  BY DEF TransportInv, Waiting, None

\* The connection is given up and nobody waits any more.
LEMMA NobodyWaits ==
  ASSUME TransportInv, UNCHANGED requests, pending' = AfterRejection
  PROVE  Waiting'
  BY DEF TransportInv, Waiting, requests, AfterRejection

\* The values conn takes are those of its type.
LEMMA ConnTyped ==
  ASSUME conn \in Connections
  PROVE  Opening(conn) \in Connections /\ Lost(conn) \in Connections /\ Closed(conn) \in Connections
<1> /\ conn.generation \in Nat /\ conn.generation + 1 \in Nat \ {0}
    /\ conn.retry \in Nat /\ conn.closed \in BOOLEAN
  BY DEF Connections
<1>1. Opening(conn) \in Connections
  BY DEF Connections, Opening, None
<1>2. Lost(conn) \in Connections
  BY DEF Connections, Lost, None
<1>3. Closed(conn) \in Connections
  BY DEF Connections, Closed, None
<1> QED BY <1>1, <1>2, <1>3

\* What the queue is after its head has left.
LEMMA TailTyped == ASSUME queue \in Seq(Requests), queue # <<>>
                   PROVE  Tail(queue) \in Seq(Requests) /\ Head(queue) \in Requests
  OBVIOUS

LEMMA RetryFiresInv == TransportInv /\ RetryFires => TransportInv'
<1> SUFFICES ASSUME TransportInv, RetryFires PROVE TransportInv'
  OBVIOUS
<1>1. CASE conn' = [conn EXCEPT !.retry = None] /\ UNCHANGED reconnects
  BY <1>1 DEF RetryFires, TransportInv, TypeOK, Named, Earlier, Waiting, Forgotten, BelievesOnlyFed,
         Connections, session, requests, None, Connected
<1>2. CASE /\ conn' = Opening(conn) /\ conn.retry = conn.generation
           /\ reconnects' = reconnects \cup
                {[attempt |-> conn.generation + 1, stage |-> "connecting", want |-> FALSE]}
  <2> DEFINE k == [attempt |-> conn.generation + 1, stage |-> "connecting", want |-> FALSE]
  <2>1. TypeOK'
    <3>1. conn.generation \in Nat /\ conn.generation + 1 \in Nat
      BY DEF TransportInv, TypeOK, Connections
    <3>2. k \in Reconnects
      BY <3>1 DEF Reconnects, Stages
    <3>3. conn' \in Connections
      BY <1>2, ConnTyped DEF TransportInv, TypeOK
    <3>4. reconnects' \subseteq Reconnects
      BY <1>2, <3>2 DEF TransportInv, TypeOK
    <3> QED BY <3>3, <3>4 DEF RetryFires, TransportInv, TypeOK, session, requests
  <2>2. Named' /\ Earlier'
    BY <1>2 DEF RetryFires, TransportInv, TypeOK, Named, Earlier, Connections, Opening, None
  <2>4. Forgotten'
    <3>1. k \in reconnects' /\ k.attempt = conn'.generation
      BY <1>2 DEF Opening
    <3>2. ~ Connected'
      BY <1>2 DEF Opening, Connected
    <3> QED BY <3>1, <3>2 DEF Forgotten, BelievesOnlyFed
  <2>3. Waiting'
    BY <1>2 DEF RetryFires, TransportInv, TypeOK, Named, Waiting, requests, None
  <2> QED BY <2>1, <2>2, <2>3, <2>4 DEF TransportInv
<1> QED BY <1>1, <1>2 DEF RetryFires

LEMMA OpensInv == TransportInv /\ Opens => TransportInv'
<1> SUFFICES ASSUME TransportInv, Opens PROVE TransportInv'
  OBVIOUS
<1> DEFINE resumed == {k \in reconnects : k.attempt = conn.generation}
<1>1. /\ conn' = [conn EXCEPT !.state = "open"] /\ conn.state = "opening"
      /\ reconnects' = (reconnects \ resumed) \cup
           {[k EXCEPT !.stage = "authorizing", !.want = subscribed] : k \in resumed}
      /\ UNCHANGED <<leaving, recovery, fed, pending, requests, faults>>
  BY DEF Opens
<1>2. TypeOK'
  <2>1. \A k \in resumed : [k EXCEPT !.stage = "authorizing", !.want = subscribed] \in Reconnects
    BY DEF TransportInv, TypeOK, Reconnects, Stages
  <2>2. reconnects' \subseteq Reconnects
    BY <1>1, <2>1 DEF TransportInv, TypeOK
  <2>3. conn' \in Connections
    BY <1>1 DEF TransportInv, TypeOK, Connections
  <2>4. authenticated' \in BOOLEAN /\ subscribed' \in BOOLEAN
    BY DEF Opens, StartsOver, TransportInv, TypeOK
  <2> QED BY <1>1, <2>2, <2>3, <2>4 DEF TransportInv, TypeOK, requests
<1>3. Named' /\ Earlier' /\ Waiting'
  BY <1>1 DEF TransportInv, TypeOK, Connections, Named, Earlier, Waiting, requests, None
<1>4. ~ subscribed'
  <2>1. CASE resumed = {}
    BY <2>1 DEF Opens, TransportInv, Forgotten
  <2>2. CASE resumed # {}
    BY <2>2 DEF Opens, StartsOver
  <2> QED BY <2>1, <2>2
<1>5. Forgotten'
  BY <1>1, <1>4 DEF Forgotten, BelievesOnlyFed
<1> QED BY <1>2, <1>3, <1>5 DEF TransportInv

LEMMA RefusedInv == TransportInv /\ Refused => TransportInv'
<1> SUFFICES ASSUME TransportInv, Refused PROVE TransportInv'
  OBVIOUS
<1>1. TypeOK'
  BY ConnTyped, TransportAssumption
     DEF Refused, Fault, TransportInv, TypeOK, session, requests, AfterRejection
<1>2. Named' /\ Earlier' /\ Forgotten'
  BY DEF Refused, TransportInv, TypeOK, Named, Earlier, Forgotten, BelievesOnlyFed,
         Connections, Lost, session, None, Connected
<1>3. Waiting'
  BY NobodyWaits DEF Refused
<1> QED BY <1>1, <1>2, <1>3 DEF TransportInv

LEMMA HandshakeTimesOutInv == TransportInv /\ HandshakeTimesOut => TransportInv'
<1> SUFFICES ASSUME TransportInv, HandshakeTimesOut PROVE TransportInv'
  OBVIOUS
<1>1. TypeOK'
  <2>1. conn' \in Connections
    <3> conn.generation + 1 \in Nat \ {0}
      BY DEF TransportInv, TypeOK, Connections
    <3> QED BY DEF HandshakeTimesOut, TransportInv, TypeOK, Connections, None
  <2>2. leaving' \subseteq Nat
    BY DEF HandshakeTimesOut, TransportInv, TypeOK, Connections
  <2> QED BY <2>1, <2>2, TransportAssumption
          DEF HandshakeTimesOut, Fault, TransportInv, TypeOK, session, requests, AfterRejection
<1>2. Named' /\ Earlier' /\ Forgotten'
  BY DEF HandshakeTimesOut, TransportInv, TypeOK, Named, Earlier, Forgotten, BelievesOnlyFed,
         Connections, session, None, Connected
<1>3. Waiting'
  BY NobodyWaits DEF HandshakeTimesOut
<1> QED BY <1>1, <1>2, <1>3 DEF TransportInv

LEMMA BreaksInv == TransportInv /\ Breaks => TransportInv'
<1> SUFFICES ASSUME TransportInv, Breaks PROVE TransportInv'
  OBVIOUS
<1>1. TypeOK'
  <2>1. conn' \in Connections
    BY DEF Breaks, TransportInv, TypeOK, Connections
  <2> QED BY <2>1, TransportAssumption DEF Breaks, Fault, TransportInv, TypeOK, session, requests
<1>2. Named' /\ Earlier' /\ Waiting' /\ Forgotten'
  BY DEF Breaks, TransportInv, TypeOK, Named, Earlier, Waiting, Forgotten, BelievesOnlyFed,
         Connections, session, requests, None, Connected
<1> QED BY <1>1, <1>2 DEF TransportInv

LEMMA CloseEventInv ==
  ASSUME TransportInv, NEW s, CloseEvent(s)
  PROVE  TransportInv'
<1>1. TypeOK'
  BY ConnTyped DEF CloseEvent, TransportInv, TypeOK, session, requests, AfterRejection
<1>2. CASE Current(s)
  <2>1. conn' = Lost(conn) /\ pending' = AfterRejection
    BY <1>2 DEF CloseEvent
  <2>2. Named' /\ Earlier' /\ Forgotten'
    BY <2>1, <1>2 DEF CloseEvent, Current, TransportInv, TypeOK, Named, Earlier, Forgotten, BelievesOnlyFed,
           Connections, Lost, session, None, Connected
  <2>3. Waiting'
    BY <2>1, NobodyWaits DEF CloseEvent
  <2> QED BY <1>1, <2>2, <2>3 DEF TransportInv
<1>3. CASE ~ Current(s)
  BY <1>1, <1>3 DEF CloseEvent, TransportInv, Named, Earlier, Waiting, Forgotten, BelievesOnlyFed,
         session, requests, None, Connected
<1> QED BY <1>2, <1>3

LEMMA HandlerInv ==
  ASSUME TransportInv, NEW k, Handler(k)
  PROVE  TransportInv'
<1>1. /\ k \in reconnects /\ Connected
      /\ UNCHANGED <<conn, leaving, recovery, pending, requests, faults>>
  BY DEF Handler, HandlerAuthorizes, HandlerSubscribes, HandlerReconciles, Advances
<1>2. TypeOK'
  <2>1. \A stage \in Stages : [k EXCEPT !.stage = stage] \in Reconnects
    BY <1>1 DEF TransportInv, TypeOK, Reconnects
  <2>2. reconnects' \subseteq Reconnects
    BY <1>1, <2>1 DEF Handler, HandlerAuthorizes, HandlerSubscribes, HandlerReconciles, Resumes, Stages,
           TransportInv, TypeOK
  <2>3. authenticated' \in BOOLEAN /\ subscribed' \in BOOLEAN /\ fed' \subseteq Nat
    BY <1>1 DEF Handler, HandlerAuthorizes, HandlerSubscribes, HandlerReconciles, session,
           TransportInv, TypeOK, Connections
  <2> QED BY <1>1, <2>2, <2>3 DEF TransportInv, TypeOK, requests
<1>3. Named' /\ Earlier' /\ Waiting'
  BY <1>1 DEF TransportInv, Named, Earlier, Waiting, requests, None
<1>4. Forgotten'
  BY <1>1 DEF Handler, HandlerAuthorizes, HandlerSubscribes, HandlerReconciles, session,
         TransportInv, Forgotten, BelievesOnlyFed, Connected
<1> QED BY <1>2, <1>3, <1>4 DEF TransportInv

LEMMA ReconnectFailsInv ==
  ASSUME TransportInv, NEW k, ReconnectFails(k)
  PROVE  TransportInv'
<1>1. /\ k \in reconnects /\ reconnects' = reconnects \ {k} /\ conn' = Recovers(k)
      /\ UNCHANGED <<leaving, recovery, session, requests>>
      /\ pending' = IF conn'.generation = conn.generation THEN pending ELSE AfterRejection
      /\ faults' \in 0 .. MaxFaults
  BY TransportAssumption DEF ReconnectFails, Fault, TransportInv, TypeOK
<1>2. conn.state = "opening" => k.attempt # conn.generation
  BY DEF ReconnectFails, Doomed, Connected
<1>3. CASE conn' = conn
  <2>1. conn.state = "opening" /\ subscribed => \E j \in reconnects' : j.attempt = conn.generation
    BY <1>1, <1>2 DEF TransportInv, Forgotten
  <2> QED BY <1>1, <1>3, <2>1
          DEF TransportInv, TypeOK, Named, Earlier, Waiting, Forgotten, BelievesOnlyFed,
              session, requests, Connected
<1>4. CASE conn' = [conn EXCEPT !.state = "closing"] /\ conn.socket # None
  <2>1. conn' \in Connections /\ pending' = pending
    BY <1>1, <1>4 DEF TransportInv, TypeOK, Connections
  <2>2. TypeOK'
    BY <1>1, <2>1 DEF TransportInv, TypeOK, session, requests
  <2>3. Named' /\ Earlier' /\ Waiting' /\ Forgotten'
    BY <1>1, <1>4, <2>1 DEF TransportInv, TypeOK, Connections, Named, Earlier, Waiting, Forgotten,
           BelievesOnlyFed, session, requests, None, Connected
  <2> QED BY <2>2, <2>3 DEF TransportInv
<1>5. CASE conn' = Lost(conn) /\ conn.socket = None /\ ~ conn.closed
  <2>1. conn' \in Connections /\ pending' = AfterRejection
    BY <1>1, <1>5, ConnTyped DEF TransportInv, TypeOK, Connections, Lost
  <2>2. TypeOK'
    BY <1>1, <2>1 DEF TransportInv, TypeOK, session, requests, AfterRejection
  <2>3. Named' /\ Earlier' /\ Forgotten'
    BY <1>1, <1>5 DEF TransportInv, TypeOK, Connections, Lost, Named, Earlier, Forgotten,
           BelievesOnlyFed, session, None, Connected
  <2>4. Waiting'
    BY <1>1, <2>1, NobodyWaits
  <2> QED BY <2>2, <2>3, <2>4 DEF TransportInv
<1> QED BY <1>1, <1>3, <1>4, <1>5 DEF Recovers

LEMMA RecoveryClosesInv == TransportInv /\ RecoveryCloses => TransportInv'
<1> SUFFICES ASSUME TransportInv, RecoveryCloses PROVE TransportInv'
  OBVIOUS
<1>1. TypeOK'
  <2>1. recovery' \in Recoveries
    BY DEF RecoveryCloses, TransportInv, TypeOK, Recoveries
  <2>2. conn' \in Connections /\ leaving' \subseteq Nat
    BY ConnTyped DEF RecoveryCloses, Abandoned, TransportInv, TypeOK, Connections
  <2>3. faults' \in 0 .. MaxFaults
    BY TransportAssumption DEF RecoveryCloses, Fault, TransportInv, TypeOK
  <2> QED BY <2>1, <2>2, <2>3
          DEF RecoveryCloses, TransportInv, TypeOK, requests, AfterRejection
<1>2. Named' /\ Earlier' /\ Forgotten'
  BY DEF RecoveryCloses, Abandoned, TransportInv, TypeOK, Connections, Recoveries, Closed, Named,
         Earlier, Forgotten, BelievesOnlyFed, None, Connected
<1>3. Waiting'
  BY NobodyWaits DEF RecoveryCloses
<1> QED BY <1>1, <1>2, <1>3 DEF TransportInv

LEMMA RecoveryConnectsInv == TransportInv /\ RecoveryConnects => TransportInv'
<1> SUFFICES ASSUME TransportInv, RecoveryConnects PROVE TransportInv'
  OBVIOUS
<1>1. TypeOK'
  <2>1. recovery' \in Recoveries
    BY DEF RecoveryConnects, TransportInv, TypeOK, Connections, Recoveries
  <2> QED BY <2>1, ConnTyped DEF RecoveryConnects, TransportInv, TypeOK, requests
<1>2. Named' /\ Earlier' /\ Forgotten'
  BY DEF RecoveryConnects, TransportInv, TypeOK, Connections, Recoveries, Opening, Named,
         Earlier, Forgotten, BelievesOnlyFed, None, Connected
<1>3. Waiting'
  BY DEF RecoveryConnects, TransportInv, Named, Waiting, requests, None
<1> QED BY <1>1, <1>2, <1>3 DEF TransportInv

\* The steps of a recovery after its connect().
LEMMA RecoveryInv == TransportInv /\ Recovery => TransportInv'
<1> SUFFICES ASSUME TransportInv, RecoveryOpened \/ RecoveryAuthorizes \/ RecoveryFails
             PROVE  TransportInv'
  BY RecoveryConnectsInv DEF Recovery
<1>1. /\ UNCHANGED <<conn, leaving, reconnects, subscribed, fed, pending, requests>>
      /\ authenticated' \in BOOLEAN /\ faults' \in 0 .. MaxFaults
      /\ recovery'.at # "closing"
      /\ recovery' \in Recoveries
  <2> recovery.attempt \in Nat
    BY DEF TransportInv, TypeOK, Recoveries
  <2>1. CASE RecoveryOpened
    BY <2>1 DEF RecoveryOpened, TransportInv, TypeOK, Recoveries, session
  <2>2. CASE RecoveryAuthorizes
    BY <2>2 DEF RecoveryAuthorizes, TransportInv, TypeOK, Recoveries, None
  <2>3. CASE RecoveryFails
    BY <2>3, TransportAssumption DEF RecoveryFails, Fault, TransportInv, TypeOK, Recoveries, None, session
  <2> QED BY <2>1, <2>2, <2>3
<1>2. TypeOK'
  BY <1>1 DEF TransportInv, TypeOK, requests
<1>3. Named' /\ Earlier' /\ Waiting' /\ Forgotten'
  BY <1>1 DEF TransportInv, Named, Earlier, Waiting, Forgotten, BelievesOnlyFed, requests, Connected
<1> QED BY <1>2, <1>3 DEF TransportInv

LEMMA SubscribeInv == TransportInv /\ Subscribe => TransportInv'
<1> SUFFICES ASSUME TransportInv, Subscribe PROVE TransportInv'
  OBVIOUS
<1>1. TypeOK'
  BY DEF Subscribe, TransportInv, TypeOK, Connections, requests
<1>2. Named' /\ Earlier' /\ Waiting' /\ Forgotten'
  BY DEF Subscribe, TransportInv, Named, Earlier, Waiting, Forgotten, BelievesOnlyFed, requests, Connected
<1> QED BY <1>1, <1>2 DEF TransportInv

LEMMA AskInv ==
  ASSUME TransportInv, NEW r \in Requests, Ask(r)
  PROVE  TransportInv'
<1>1. TypeOK'
  <2>1. asked' \in [Requests -> Nat]
    BY DEF Ask, TransportInv, TypeOK, Connections
  <2>2. queue' \in Seq(Requests)
    BY DEF Ask, TransportInv, TypeOK
  <2> QED BY <2>1, <2>2 DEF Ask, TransportInv, TypeOK, session
<1>2. Waiting'
  <2>1. \A m \in wire : m[1] \in Requests /\ m[1] # r
    BY DEF Ask, TransportInv, TypeOK, Waiting
  <2>2. \A m \in wire : asked'[m[1]] = asked[m[1]]
    BY <2>1 DEF Ask, TransportInv, TypeOK
  <2> QED BY <2>1, <2>2 DEF Ask, TransportInv, Waiting
<1>3. Named' /\ Earlier' /\ Forgotten'
  BY Untouched DEF Ask
<1> QED BY <1>1, <1>2, <1>3 DEF TransportInv

LEMMA AdmitInv == TransportInv /\ Admit => TransportInv'
<1> SUFFICES ASSUME TransportInv, Admit PROVE TransportInv'
  OBVIOUS
<1>1. TypeOK'
  BY TailTyped DEF Admit, Refuse, TransportInv, TypeOK, session
<1>2. Waiting'
  BY FewerWait DEF Admit, Refuse
<1>3. Named' /\ Earlier' /\ Forgotten'
  BY Untouched DEF Admit
<1> QED BY <1>1, <1>2, <1>3 DEF TransportInv

LEMMA DispatchInv == TransportInv /\ Dispatch => TransportInv'
<1> SUFFICES ASSUME TransportInv, Dispatch PROVE TransportInv'
  OBVIOUS
<1> DEFINE r == Head(queue)
<1>1. r \in Requests /\ Tail(queue) \in Seq(Requests)
  BY TailTyped DEF Dispatch, TransportInv, TypeOK
<1>2. Named' /\ Earlier' /\ Forgotten'
  BY Untouched DEF Dispatch
<1>3. CASE Ready(r) /\ Connected
  <2>1. wire' = wire \cup {<<r, conn.socket>>} /\ UNCHANGED <<conn, asked, pending>>
    BY <1>3 DEF Dispatch
  <2>2. asked[r] # Unasked /\ conn.socket # None
    BY <1>3 DEF Ready, Valid, TransportInv, TypeOK, Connections, Named, Connected, Unasked
  <2>3. Waiting'
    BY <2>1, <2>2 DEF TransportInv, Waiting
  <2>4. wire' \subseteq Requests \X Nat
    BY <1>1, <2>1 DEF TransportInv, TypeOK, Connections
  <2>5. TypeOK'
    BY <1>1, <1>3, <2>1, <2>4 DEF Dispatch, TransportInv, TypeOK, session
  <2> QED BY <1>2, <2>3, <2>5 DEF TransportInv
<1>4. CASE ~ (Ready(r) /\ Connected)
  <2>1. Refuse(r) /\ UNCHANGED <<wire, conn, asked>>
    BY <1>4 DEF Dispatch
  <2>2. Waiting'
    BY <2>1, FewerWait DEF Refuse
  <2>3. TypeOK'
    BY <1>1, <2>1 DEF Dispatch, Refuse, TransportInv, TypeOK, session
  <2> QED BY <1>2, <2>2, <2>3 DEF TransportInv
<1> QED BY <1>3, <1>4

LEMMA EndedInv ==
  ASSUME TransportInv, NEW r, NEW s, NEW limited \in BOOLEAN,
         Deadline(r) \/ Receive(r, s, limited) \/ CooldownEnds
  PROVE  TransportInv'
<1>1. /\ UNCHANGED <<conn, leaving, recovery, session, reconnects, asked, queue, paced, faults>>
      /\ wire' \subseteq wire /\ pending' \subseteq pending /\ cooling' \in BOOLEAN
  BY DEF Deadline, Receive, CooldownEnds, requests, TransportInv, TypeOK
<1>2. Named' /\ Earlier' /\ Forgotten' /\ Waiting'
  BY <1>1, Untouched, FewerWait
<1>3. TypeOK'
  BY <1>1 DEF TransportInv, TypeOK, session
<1> QED BY <1>2, <1>3 DEF TransportInv

LEMMA StutterInv == TransportInv /\ UNCHANGED vars => TransportInv'
  BY DEF TransportInv, TypeOK, Named, Earlier, Waiting, Forgotten, BelievesOnlyFed, vars, session,
         requests, Connected

LEMMA InvariantStep == TransportInv /\ [Next]_vars => TransportInv'
  BY RetryFiresInv, OpensInv, RefusedInv, HandshakeTimesOutInv, BreaksInv, CloseEventInv, HandlerInv,
     ReconnectFailsInv, RecoveryClosesInv, RecoveryInv, SubscribeInv, AskInv, AdmitInv, DispatchInv,
     EndedInv, StutterInv
     DEF Next

LEMMA Invariant == Spec => []TransportInv
  BY InitInv, InvariantStep, PTL DEF Spec

-----------------------------------------------------------------------------
(* The theorems.                                                           *)

\* Every variable keeps its type.
THEOREM TypeCorrect == Spec => []TypeOK
<1>1. TransportInv => TypeOK
  BY DEF TransportInv
<1> QED BY <1>1, Invariant, PTL

\* #rejectPending reaches every request of a connection that is given up.
THEOREM NobodyWaitsOnTheDead == Spec => []NoneWaitsOnTheDead
<1>1. TransportInv => NoneWaitsOnTheDead
  BY DEF TransportInv, Waiting, NoneWaitsOnTheDead
<1> QED BY <1>1, Invariant, PTL

\* What the client believes it is subscribed to, the broker sends on the socket in use.
THEOREM SubscriptionsTrue == Spec => []BelievesOnlyFed
<1>1. TransportInv => BelievesOnlyFed
  BY DEF TransportInv, Forgotten
<1> QED BY <1>1, Invariant, PTL

\* Only Dispatch puts a request on a socket.
LEMMA SendsStep ==
  TransportInv /\ [Next]_vars =>
    \A m \in wire' \ wire : m[1] \in pending /\ asked[m[1]] = m[2] /\ Current(m[2]) /\ ~ cooling
<1> SUFFICES ASSUME TransportInv, [Next]_vars, NEW m \in wire' \ wire
             PROVE  m[1] \in pending /\ asked[m[1]] = m[2] /\ Current(m[2]) /\ ~ cooling
  OBVIOUS
<1>1. Dispatch
  BY DEF Next, vars, requests, RetryFires, Opens, Refused, HandshakeTimesOut, Breaks, CloseEvent,
         Handler, HandlerAuthorizes, HandlerSubscribes, HandlerReconciles, ReconnectFails,
         RecoveryCloses, Recovery, RecoveryConnects, RecoveryOpened, RecoveryAuthorizes,
         RecoveryFails, Subscribe, Ask, Deadline, Admit, Receive, CooldownEnds
<1>2. m = <<Head(queue), conn.socket>> /\ Ready(Head(queue)) /\ Connected
  BY <1>1 DEF Dispatch
<1> QED BY <1>2 DEF Ready, Valid, Current, TransportInv, Named, Connected

\* Stale work is never sent after a reconnect, after its caller was told that it failed, or
\* during a cooldown.
THEOREM OnlyLiveRequestsSent == Spec => SendsOnlyLive
<1>1. TransportInv /\ [Next]_vars =>
        [\A m \in wire' \ wire :
           m[1] \in pending /\ asked[m[1]] = m[2] /\ Current(m[2]) /\ ~ cooling]_vars
  BY SendsStep
<1> QED BY <1>1, Invariant, PTL DEF Spec, SendsOnlyLive

\* Which steps forget a given-up socket or end a continuation of an earlier attempt.
LEMMA StaleStep ==
  ASSUME TransportInv, [Next]_vars, conn.state \in {"opening", "open"},
         \/ leaving \ leaving' # {}
         \/ \E k \in reconnects \ reconnects' : k.attempt # conn.generation
  PROVE  conn' = conn /\ pending' = pending
<1>1. CASE \E s \in leaving \cup {conn.socket} : CloseEvent(s)
  <2>1. PICK s \in leaving \cup {conn.socket} : CloseEvent(s)
    BY <1>1
  <2>2. s \in leaving
    BY <2>1 DEF CloseEvent
  <2>3. ~ Current(s)
    BY <2>2 DEF Current, TransportInv, TypeOK, Connections, Earlier
  <2> QED BY <2>1, <2>3 DEF CloseEvent
<1>2. CASE \E k \in reconnects : ReconnectFails(k)
  <2>1. PICK k \in reconnects : ReconnectFails(k)
    BY <1>2
  <2>2. k.attempt # conn.generation
    BY <2>1 DEF ReconnectFails, session
  <2>3. conn.socket # None
    BY DEF TransportInv, Named
  <2> QED BY <2>1, <2>2, <2>3 DEF ReconnectFails, Recovers
<1>3. CASE \E k \in reconnects : Handler(k)
  BY <1>3 DEF Handler, HandlerAuthorizes, HandlerSubscribes, HandlerReconciles
<1>4. CASE Opens
  <2>1. leaving' = leaving /\ \A k \in reconnects \ reconnects' : k.attempt = conn.generation
    BY <1>4 DEF Opens
  <2> QED BY <2>1
<1>5. CASE \/ RetryFires \/ Refused \/ HandshakeTimesOut \/ Breaks \/ RecoveryCloses \/ Recovery
           \/ Subscribe \/ Admit \/ Dispatch \/ CooldownEnds \/ UNCHANGED vars
           \/ \E r \in Requests : Ask(r) \/ Deadline(r)
           \/ \E m \in wire, limited \in BOOLEAN : Receive(m[1], m[2], limited)
  BY <1>5 DEF vars, RetryFires, Refused, HandshakeTimesOut, Breaks,
         RecoveryCloses, Recovery, RecoveryConnects, RecoveryOpened, RecoveryAuthorizes,
         RecoveryFails, Subscribe, Ask, Deadline, Admit, Dispatch, Receive, CooldownEnds
<1> QED BY <1>1, <1>2, <1>3, <1>4, <1>5 DEF Next

\* A late close event, or the failure of an earlier reconnect, leaves the newer connection
\* and its requests alone.
THEOREM StaleLeftAlone == Spec => StaleNeverDisturbs
<1>1. TransportInv /\ [Next]_vars =>
        [/\ conn.state \in {"opening", "open"}
         /\ \/ leaving \ leaving' # {}
            \/ \E k \in reconnects \ reconnects' : k.attempt # conn.generation
         => conn' = conn /\ pending' = pending]_vars
  BY StaleStep
<1> QED BY <1>1, Invariant, PTL DEF Spec, StaleNeverDisturbs

-----------------------------------------------------------------------------
(* RequestPromise.                                                         *)

\* A request that has left the queue does not come back to it, and one on the wire is there
\* once: the queue holds requests that were asked, each once, and none that is on the wire.
QueueInv ==
  /\ \A i \in 1 .. Len(queue) : asked[queue[i]] # Unasked
  /\ \A i, j \in 1 .. Len(queue) : queue[i] = queue[j] => i = j
  /\ \A m \in wire : asked[m[1]] # Unasked /\ ~ Queued(m[1])
  /\ \A m, n \in wire : m[1] = n[1] => m = n
  /\ paced => queue # <<>>

Phases == [r \in Requests |-> Phase(r)]

\* The steps of the connection, which touch no request but to reject it.
LEMMA ElsewhereStep ==
  ASSUME TransportInv, [Next]_vars, ~ Admit, ~ Dispatch,
         ~(\E r \in Requests : Ask(r)),
         ~(\E m \in wire, limited \in BOOLEAN : Receive(m[1], m[2], limited))
  PROVE  UNCHANGED <<asked, queue, paced, wire>> /\ pending' \subseteq pending
<1> USE DEF requests, AfterRejection
<1>1. CASE RetryFires \/ Opens \/ Refused \/ HandshakeTimesOut \/ Breaks
  BY <1>1 DEF RetryFires, Opens, Refused, HandshakeTimesOut, Breaks
<1>2. CASE \E s \in leaving \cup {conn.socket} : CloseEvent(s)
  BY <1>2 DEF CloseEvent
<1>3. CASE \E k \in reconnects : Handler(k) \/ ReconnectFails(k)
  BY <1>3 DEF Handler, HandlerAuthorizes, HandlerSubscribes, HandlerReconciles, ReconnectFails
<1>4. CASE RecoveryCloses \/ Recovery \/ Subscribe \/ CooldownEnds \/ UNCHANGED vars
  BY <1>4 DEF RecoveryCloses, Recovery, RecoveryConnects, RecoveryOpened, RecoveryAuthorizes,
              RecoveryFails, Subscribe, CooldownEnds, vars
<1>5. CASE \E r \in Requests : Deadline(r)
  BY <1>5 DEF Deadline
<1> QED BY <1>1, <1>2, <1>3, <1>4, <1>5 DEF Next

\* After its head has left, the queue holds the others, in their order.
LEMMA HeadLeaves ==
  ASSUME queue \in Seq(Requests), queue # <<>>, QueueInv, queue' = Tail(queue),
         NEW r, r = Head(queue)
  PROVE  /\ Queued(r) /\ ~ Queued(r)' /\ \A q : q # r => (Queued(q)' <=> Queued(q))
         /\ \A i \in 1 .. Len(queue') : queue'[i] = queue[i + 1] /\ i + 1 \in 1 .. Len(queue)
<1>1. /\ Len(queue) \in Nat \ {0} /\ Len(queue') = Len(queue) - 1 /\ Head(queue) = queue[1]
      /\ \A i \in 1 .. Len(queue') : queue'[i] = queue[i + 1]
  BY HeadTailProperties, EmptySeq
<1>2. 1 \in 1 .. Len(queue) /\ \A i \in 1 .. Len(queue') : i + 1 \in 1 .. Len(queue) /\ i + 1 # 1
  BY <1>1
<1>3. ~ Queued(r)'
  BY <1>1, <1>2 DEF Queued, QueueInv
<1>4. ASSUME NEW q, q # r
      PROVE  Queued(q)' <=> Queued(q)
  <2>1. ASSUME NEW i \in 1 .. Len(queue), queue[i] = q
        PROVE  \E j \in 1 .. Len(queue') : queue'[j] = q
    <3>1. i # 1
      BY <1>1, <1>4, <2>1
    <3>2. i - 1 \in 1 .. Len(queue') /\ (i - 1) + 1 = i
      BY <1>1, <2>1, <3>1
    <3> QED BY <1>1, <2>1, <3>2
  <2> QED BY <1>1, <1>2, <2>1 DEF Queued
<1> QED BY <1>1, <1>2, <1>3, <1>4 DEF Queued

LEMMA QueueInit == Init => QueueInv
  BY DEF Init, QueueInv, Queued

\* Each kind of step on a request, as the promise sees it and on the invariant.
LEMMA AskStep ==
  ASSUME TransportInv, QueueInv, NEW r \in Requests, Ask(r)
  PROVE  QueueInv' /\ Promise!Ask(r)
<1>1. /\ queue \in Seq(Requests) /\ Len(queue) \in Nat /\ wire \subseteq Requests \X Nat
      /\ asked \in [Requests -> Nat] /\ conn.generation # 0
  BY DEF TransportInv, TypeOK, Connections
<1>2. /\ Len(queue') = Len(queue) + 1 /\ queue'[Len(queue) + 1] = r
      /\ \A i \in 1 .. Len(queue) : queue'[i] = queue[i]
  BY <1>1, AppendProperties DEF Ask
<1>3. asked' = [asked EXCEPT ![r] = conn.generation] /\ asked[r] = Unasked /\ wire' = wire
      /\ pending' = pending \cup {r} /\ paced' = paced
  BY DEF Ask
<1>4. asked'[r] # Unasked /\ \A q \in Requests \ {r} : asked'[q] = asked[q]
  BY <1>1, <1>3 DEF Unasked
<1>5. ~ Queued(r) /\ ~(\E m \in wire : m[1] = r)
  BY <1>3 DEF QueueInv, Queued
<1>6. \A q : Queued(q)' <=> Queued(q) \/ q = r
  <2>1. \A i \in 1 .. Len(queue') : i \in 1 .. Len(queue) \/ i = Len(queue) + 1
    BY <1>1, <1>2
  <2>2. Len(queue) + 1 \in 1 .. Len(queue') /\ \A i \in 1 .. Len(queue) : i \in 1 .. Len(queue')
    BY <1>1, <1>2
  <2> QED BY <1>2, <2>1, <2>2 DEF Queued
<1>7. QueueInv'
  <2>1. \A i \in 1 .. Len(queue) : queue[i] \in Requests
    BY <1>1
  <2>2. \A i \in 1 .. Len(queue') : asked'[queue'[i]] # Unasked
    BY <1>1, <1>2, <1>4, <2>1 DEF QueueInv
  <2>3. \A i, j \in 1 .. Len(queue') : queue'[i] = queue'[j] => i = j
    BY <1>1, <1>2, <1>5 DEF QueueInv, Queued
  <2>4. \A m \in wire' : asked'[m[1]] # Unasked /\ ~ Queued(m[1])'
    BY <1>1, <1>3, <1>4, <1>5, <1>6 DEF QueueInv
  <2>5. queue' # <<>>
    BY <1>1, <1>2
  <2> QED BY <1>3, <2>2, <2>3, <2>4, <2>5 DEF QueueInv
<1>8. Phases' = [Phases EXCEPT ![r] = "queued"] /\ Phases[r] = "unasked"
  <2>1. \A q \in Requests : Phase(q)' = IF q = r THEN "queued" ELSE Phase(q)
    BY <1>3, <1>4, <1>6 DEF Phase
  <2> QED BY <1>3, <2>1 DEF Phases, Phase
<1> QED BY <1>3, <1>7, <1>8 DEF Promise!Ask, Promise!Moves, Phases

\* The head of the queue leaves it, for the wire or refused.
LEMMA LeaveStep ==
  ASSUME TransportInv, QueueInv, queue # <<>>, UNCHANGED asked, queue' = Tail(queue),
         paced' = FALSE, NEW r \in Requests, r = Head(queue),
         NEW s, wire' = wire \/ wire' = wire \cup {<<r, s>>}
  PROVE  /\ QueueInv' /\ Phases[r] = "queued" /\ <<r, s>> \notin wire
         /\ Phases' = [Phases EXCEPT ![r] = IF wire' = wire THEN "over" ELSE "sent"]
<1>1. queue \in Seq(Requests) /\ wire \subseteq Requests \X Nat
  BY DEF TransportInv, TypeOK
<1>2. /\ Queued(r) /\ ~ Queued(r)' /\ \A q : q # r => (Queued(q)' <=> Queued(q))
      /\ \A i \in 1 .. Len(queue') : queue'[i] = queue[i + 1] /\ i + 1 \in 1 .. Len(queue)
  BY <1>1, HeadLeaves
<1>3. asked[r] # Unasked /\ ~(\E m \in wire : m[1] = r)
  BY <1>2 DEF QueueInv, Queued
<1>4. /\ \A m \in wire' : m \in wire \/ m[1] = r
      /\ \A m, n \in wire' : m[1] = r /\ n[1] = r => m = n
      /\ wire \subseteq wire'
      /\ wire' # wire => \E m \in wire' : m[1] = r
  <2>1. CASE wire' = wire
    BY <1>3, <2>1
  <2>2. CASE wire' = wire \cup {<<r, s>>}
    <3>1. <<r, s>>[1] = r /\ \A m : m \in wire' <=> m \in wire \/ m = <<r, s>>
      BY <2>2
    <3>2. \A m \in wire' : m[1] = r => m = <<r, s>>
      BY <1>3, <3>1
    <3>3. <<r, s>> \in wire' /\ wire \subseteq wire'
      BY <3>1
    <3>4. \A m \in wire' : m \in wire \/ m[1] = r
      BY <3>1
    <3> QED BY <3>1, <3>2, <3>3, <3>4
  <2> QED BY <2>1, <2>2
<1>5. QueueInv'
  <2>1. \A i, j \in 1 .. Len(queue') : queue'[i] = queue'[j] => i = j
    <3>1. Len(queue') \in Nat
      BY <1>1, HeadTailProperties
    <3> SUFFICES ASSUME NEW i \in 1 .. Len(queue'), NEW j \in 1 .. Len(queue'),
                        queue'[i] = queue'[j]
                 PROVE  i = j
      OBVIOUS
    <3>2. i + 1 = j + 1
      BY <1>2 DEF QueueInv
    <3> QED BY <3>1, <3>2
  <2>2. \A i \in 1 .. Len(queue') : asked'[queue'[i]] # Unasked
    BY <1>2 DEF QueueInv
  <2>3. \A m \in wire' : asked'[m[1]] # Unasked /\ ~ Queued(m[1])'
    BY <1>2, <1>3, <1>4 DEF QueueInv
  <2>4. \A m, n \in wire' : m[1] = n[1] => m = n
    BY <1>4 DEF QueueInv
  <2> QED BY <2>1, <2>2, <2>3, <2>4 DEF QueueInv
<1>6. \A q \in Requests : Phase(q)' = IF q = r THEN IF wire' = wire THEN "over" ELSE "sent"
                                               ELSE Phase(q)
  <2>1. \A q \in Requests : q # r => ((\E m \in wire' : m[1] = q) <=> (\E m \in wire : m[1] = q))
    BY <1>4
  <2> QED BY <1>2, <1>3, <1>4, <2>1 DEF Phase
<1>7. Phase(r) = "queued"
  BY <1>2, <1>3 DEF Phase
<1> QED BY <1>3, <1>5, <1>6, <1>7 DEF Phases

LEMMA AnswerStep ==
  ASSUME TransportInv, QueueInv, NEW m \in wire, NEW limited \in BOOLEAN,
         Receive(m[1], m[2], limited)
  PROVE  QueueInv' /\ m[1] \in Requests /\ Promise!Answer(m[1])
<1> DEFINE r == m[1]
<1>1. r \in Requests /\ m = <<m[1], m[2]>>
  BY DEF TransportInv, TypeOK
<1>2. /\ wire' = wire \ {m} /\ UNCHANGED <<asked, queue, paced>>
      /\ pending' \in {pending, pending \ {r}}
  BY <1>1 DEF Receive
<1>3. QueueInv'
  BY <1>2 DEF QueueInv, Queued
<1>4. asked[r] # Unasked /\ ~ Queued(r) /\ ~(\E n \in wire' : n[1] = r)
  BY <1>2 DEF QueueInv
<1>5. \A q \in Requests : Phase(q)' = IF q = r THEN "over" ELSE Phase(q)
  BY <1>2, <1>4 DEF Phase, Queued
<1>6. Phase(r) = "sent"
  BY <1>4 DEF Phase
<1> QED BY <1>1, <1>2, <1>3, <1>5, <1>6 DEF Promise!Answer, Promise!Moves, Phases

LEMMA PromiseStep ==
  ASSUME TransportInv, QueueInv, [Next]_vars
  PROVE  QueueInv' /\ [Promise!Next]_<<Phases, pending>>
<1>1. CASE \E r \in Requests : Ask(r)
  BY <1>1, AskStep DEF Promise!Next
<1>2. CASE \E m \in wire, limited \in BOOLEAN : Receive(m[1], m[2], limited)
  BY <1>2, AnswerStep DEF Promise!Next
<1>3. CASE Admit \/ Dispatch
  <2>0. queue # <<>>
    BY <1>3 DEF Admit, Dispatch
  <2>1. PICK r \in Requests : r = Head(queue)
    BY <2>0, TailTyped DEF TransportInv, TypeOK
  <2>2. PICK s : s = conn.socket
    OBVIOUS
  <2>3. CASE UNCHANGED <<asked, queue, pending, wire>> /\ paced'
    BY <2>0, <2>3 DEF QueueInv, Queued, Phases, Phase
  <2>4. CASE Refuse(r) /\ UNCHANGED <<asked, wire>>
    <3>1. /\ QueueInv' /\ Phases[r] = "queued"
          /\ Phases' = [Phases EXCEPT ![r] = "over"]
      BY <2>0, <2>1, <2>4, LeaveStep DEF Refuse
    <3>2. Promise!Withdraw(r)
      BY <2>4, <3>1 DEF Refuse, Promise!Withdraw, Promise!Moves, Phases
    <3> QED BY <3>1, <3>2 DEF Promise!Next
  <2>5. CASE /\ Ready(r) /\ wire' = wire \cup {<<r, s>>}
             /\ queue' = Tail(queue) /\ paced' = FALSE /\ UNCHANGED <<asked, pending>>
    <3>1. /\ QueueInv' /\ Phases[r] = "queued" /\ <<r, s>> \notin wire
          /\ Phases' = [Phases EXCEPT ![r] = IF wire' = wire THEN "over" ELSE "sent"]
      BY <2>0, <2>1, <2>5, LeaveStep
    <3>2. Promise!Send(r)
      BY <2>5, <3>1 DEF Promise!Send, Promise!Moves, Phases, Ready, Valid
    <3> QED BY <3>1, <3>2 DEF Promise!Next
  <2> QED BY <1>3, <2>1, <2>2, <2>3, <2>4, <2>5 DEF Admit, Dispatch
<1>4. CASE /\ ~ Admit /\ ~ Dispatch /\ ~(\E r \in Requests : Ask(r))
           /\ ~(\E m \in wire, limited \in BOOLEAN : Receive(m[1], m[2], limited))
  <2>1. UNCHANGED <<asked, queue, paced, wire>> /\ pending' \subseteq pending
    BY <1>4, ElsewhereStep
  <2>2. QueueInv' /\ UNCHANGED Phases
    BY <2>1 DEF QueueInv, Queued, Phases, Phase
  <2> QED BY <2>1, <2>2 DEF Promise!Next, Promise!GiveUp, Phases
<1> QED BY <1>1, <1>2, <1>3, <1>4

\* Over any number of lost and replaced connections, a request is put on a socket once at
\* most, while its caller waits, and no caller is left or settled twice by the queue.
THEOREM RequestsPromised == Spec => PromisesKept
<1>1. Init => QueueInv /\ Promise!Init
  <2>1. Init => [r \in Requests |-> Phase(r)] = [r \in Requests |-> "unasked"]
    BY DEF Init, Phase
  <2> QED BY <2>1, QueueInit DEF Init, Promise!Init
<1>2. TransportInv /\ QueueInv /\ [Next]_vars => QueueInv' /\ [Promise!Next]_<<Phases, pending>>
  BY PromiseStep
<1> QED
  BY <1>1, <1>2, Invariant, PTL DEF Spec, PromisesKept, Promise!Spec, Phases
=============================================================================

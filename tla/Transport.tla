------------------------------ MODULE Transport ------------------------------
(***************************************************************************)
(* CTraderJsonTransport and the session CTraderOpenApiClient keeps on it:  *)
(* one WebSocket, replaced after a loss; requests that wait in a paced     *)
(* queue; and continuations that outlive the socket they were started for. *)
(* Each connection attempt takes a new generation, and a socket is named   *)
(* by the generation it was opened under.                                  *)
(*                                                                         *)
(* A failed attempt, and a request that is rejected, resume their callers  *)
(* in microtasks, before the next event of a socket or a timer: Drained.   *)
(***************************************************************************)
EXTENDS Naturals, Sequences, FiniteSets

CONSTANTS Requests,    \* the requests callers of the client may make
          Supervised,  \* market-data-service runs SessionRecovery, execution-service does not
          MaxFaults    \* bound on lost connections, failed attempts and refused logins

ASSUME TransportAssumption == Supervised \in BOOLEAN /\ MaxFaults \in Nat

VARIABLES
  conn,          \* the transport: #generation, #socket and its state, #explicitClose, and
                 \* the generation the armed reconnect timer captured
  leaving,       \* replaced or dropped sockets whose close event is still to come
  reconnects,    \* the continuations of reconnect timers: connect().then(handler).catch(...)
  recovery,      \* SessionRecovery's reconnect: where it is, and the generation it opened
  authenticated, \* the client's #authenticated
  subscribed,    \* the client's #subscribedSpots holds the symbol
  fed,           \* sockets on which the broker has the subscription
  asked,         \* request(): the generation captured when it was made
  pending,       \* #pending
  queue,         \* the #admission chain
  paced,         \* its head has passed the first check and waits for its turn
  cooling,       \* before #rateLimitBlockedUntil
  wire,          \* requests at the broker, with the socket that carried them
  faults         \* bounded by MaxFaults

session == <<authenticated, subscribed, fed>>
requests == <<asked, queue, paced, cooling, wire>>
vars == <<conn, leaving, reconnects, recovery, session, pending, requests, faults>>

None == 0
Unasked == 0

Connections ==
  [generation : Nat \ {0}, socket : Nat, state : {"none", "opening", "open", "closing"},
   retry : Nat, closed : BOOLEAN]
Stages == {"connecting", "authorizing", "subscribing", "reconciling"}
Reconnects == [attempt : Nat, stage : Stages, want : BOOLEAN]
Recoveries == [at : {"idle", "closing", "connecting", "authorizing"}, attempt : Nat]

TypeOK ==
  /\ conn \in Connections
  /\ leaving \subseteq Nat
  /\ reconnects \subseteq Reconnects
  /\ recovery \in Recoveries
  /\ authenticated \in BOOLEAN
  /\ subscribed \in BOOLEAN
  /\ fed \subseteq Nat
  /\ asked \in [Requests -> Nat]
  /\ pending \subseteq Requests
  /\ queue \in Seq(Requests)
  /\ paced \in BOOLEAN
  /\ cooling \in BOOLEAN
  /\ wire \subseteq Requests \X Nat
  /\ faults \in 0 .. MaxFaults

(***************************************************************************)
(* The service has made its startup connect(), and nothing else yet.       *)
(***************************************************************************)
Init ==
  /\ conn = [generation |-> 1, socket |-> 1, state |-> "open", retry |-> None, closed |-> FALSE]
  /\ leaving = {}
  /\ reconnects = {}
  /\ recovery = [at |-> "idle", attempt |-> None]
  /\ authenticated = TRUE
  /\ subscribed = FALSE
  /\ fed = {}
  /\ asked = [r \in Requests |-> Unasked]
  /\ pending = {}
  /\ queue = <<>>
  /\ paced = FALSE
  /\ cooling = FALSE
  /\ wire = {}
  /\ faults = 0

-----------------------------------------------------------------------------
(* The transport's own operations, each on the value of conn.              *)

Connected == conn.state = "open"

\* current() of the socket opened under generation s.
Current(s) == conn.socket = s /\ conn.generation = s

\* connect(), when nothing is open and no attempt is under way: the timer is cancelled,
\* and a socket is opened under the next generation.
Opening(c) ==
  [generation |-> c.generation + 1, socket |-> c.generation + 1, state |-> "opening",
   retry |-> None, closed |-> FALSE]

\* #closed: the socket is forgotten, and a timer is armed for this generation unless one
\* is already armed.
Lost(c) ==
  [generation |-> c.generation + 1, socket |-> None, state |-> "none",
   retry |-> IF c.closed \/ c.retry # None THEN c.retry ELSE c.generation + 1,
   closed |-> c.closed]

\* close()
Closed(c) ==
  [generation |-> c.generation + 1, socket |-> None, state |-> "none",
   retry |-> None, closed |-> TRUE]

\* Sockets whose close event is to come, once the connection in use is given up.
Abandoned == IF conn.socket = None THEN {} ELSE {conn.socket}

\* #rejectPending for what was not sent yet only.
AfterRejectionOfQueued == {r \in pending : \E m \in wire : m[1] = r}

\* The callers that still wait after #rejectPending.
AfterRejection == {}

\* The attempt or the login this continuation waits for has been rejected.
Doomed(k) == k.attempt # conn.generation
Drained == \A k \in reconnects : ~ Doomed(k)

Fault == faults < MaxFaults /\ faults' = faults + 1

-----------------------------------------------------------------------------
(* The events of sockets and timers.                                       *)

\* The reconnect timer: it acts only if the generation it captured is still in force.
RetryFires ==
  /\ conn.retry # None /\ Drained
  /\ IF conn.retry # conn.generation \/ conn.closed
     THEN conn' = [conn EXCEPT !.retry = None] /\ UNCHANGED reconnects
     ELSE /\ conn' = Opening(conn)
          /\ reconnects' = reconnects \cup
               {[attempt |-> conn.generation + 1, stage |-> "connecting", want |-> FALSE]}
  /\ UNCHANGED <<leaving, recovery, session, pending, requests, faults>>

\* The handler without its subscribedSpots.clear().
StartsOverSubscribed == authenticated' = FALSE /\ UNCHANGED subscribed

\* The reconnect handler, up to its first await.
StartsOver == authenticated' = FALSE /\ subscribed' = FALSE

\* The handshake succeeds. A reconnect goes on at once into the client's handler, which
\* forgets what it was logged in to and subscribed to, and starts over.
Opens ==
  /\ conn.state = "opening" /\ Drained
  /\ conn' = [conn EXCEPT !.state = "open"]
  /\ LET resumed == {k \in reconnects : k.attempt = conn.generation} IN
       /\ reconnects' = (reconnects \ resumed) \cup
            {[k EXCEPT !.stage = "authorizing", !.want = subscribed] : k \in resumed}
       /\ IF resumed = {} THEN UNCHANGED <<authenticated, subscribed>> ELSE StartsOver
  /\ UNCHANGED <<leaving, recovery, fed, pending, requests, faults>>

\* The handshake fails: the socket emits "error" and "close", and the latter is #closed.
Refused ==
  /\ conn.state = "opening" /\ Drained /\ Fault
  /\ conn' = Lost(conn)
  /\ pending' = AfterRejection
  /\ UNCHANGED <<leaving, reconnects, recovery, session, requests>>

\* The handshake takes too long: #open gives the socket up by itself.
HandshakeTimesOut ==
  /\ conn.state = "opening" /\ Drained /\ Fault
  /\ conn' = [conn EXCEPT !.generation = @ + 1, !.socket = None, !.state = "none"]
  /\ leaving' = leaving \cup {conn.socket}
  /\ pending' = AfterRejection
  /\ UNCHANGED <<reconnects, recovery, session, requests>>

\* The connection breaks: it cannot be used from here on, its close event comes later.
Breaks ==
  /\ Connected /\ Drained /\ Fault
  /\ conn' = [conn EXCEPT !.state = "closing"]
  /\ UNCHANGED <<leaving, reconnects, recovery, session, pending, requests>>

\* The close event of the socket in use, or of one that was given up before.
CloseEvent(s) ==
  /\ Drained
  /\ \/ s \in leaving
     \/ s = conn.socket /\ conn.state = "closing"
  /\ leaving' = leaving \ {s}
  /\ IF Current(s) THEN conn' = Lost(conn) /\ pending' = AfterRejection
                   ELSE UNCHANGED <<conn, pending>>
  /\ UNCHANGED <<reconnects, recovery, session, requests, faults>>

-----------------------------------------------------------------------------
(* The continuation of a reconnect timer.                                  *)

\* Its handler advances while the connection it was started for is in use.
Advances(k) == k \in reconnects /\ ~ Doomed(k) /\ Connected

Resumes(k, stage) == reconnects' = (reconnects \ {k}) \cup {[k EXCEPT !.stage = stage]}

\* #authorize
HandlerAuthorizes(k) ==
  /\ Advances(k) /\ k.stage = "authorizing"
  /\ authenticated' = TRUE
  /\ Resumes(k, "subscribing")
  /\ UNCHANGED <<conn, leaving, recovery, subscribed, fed, pending, requests, faults>>

\* #subscribeSpot for the symbols held before; one a caller has subscribed since is skipped.
HandlerSubscribes(k) ==
  /\ Advances(k) /\ k.stage = "subscribing"
  /\ IF k.want /\ ~ subscribed
     THEN subscribed' = TRUE /\ fed' = fed \cup {conn.socket}
     ELSE UNCHANGED <<subscribed, fed>>
  /\ Resumes(k, "reconciling")
  /\ UNCHANGED <<conn, leaving, recovery, authenticated, pending, requests, faults>>

\* reconcileRaw and the synchronization handlers.
HandlerReconciles(k) ==
  /\ Advances(k) /\ k.stage = "reconciling"
  /\ reconnects' = reconnects \ {k}
  /\ UNCHANGED <<conn, leaving, recovery, session, pending, requests, faults>>

\* The catch with the check of the attempt's generation missing.
RecoversAny(k) ==
  IF conn.closed THEN conn
  ELSE IF conn.socket # None THEN [conn EXCEPT !.state = "closing"]
  ELSE Lost(conn)

\* The catch of the timer's promise. It gives up the connection it was started for, or
\* treats a missing one as lost; it is not to touch one that was opened since.
Recovers(k) ==
  IF conn.closed \/ conn.generation > k.attempt + 1 THEN conn
  ELSE IF conn.socket # None /\ conn.generation = k.attempt
       THEN [conn EXCEPT !.state = "closing"]
  ELSE IF conn.socket = None THEN Lost(conn) ELSE conn

\* A continuation fails: its attempt or a request of its handler was rejected, cannot be
\* sent on a breaking connection, or is refused by the broker.
ReconnectFails(k) ==
  /\ k \in reconnects
  /\ \/ Doomed(k) /\ UNCHANGED faults
     \/ ~ Doomed(k) /\ conn.state = "closing" /\ UNCHANGED faults
     \/ ~ Doomed(k) /\ Connected /\ Fault
  /\ conn' = Recovers(k)
  /\ reconnects' = reconnects \ {k}
  /\ pending' = IF conn'.generation = conn.generation THEN pending ELSE AfterRejection
  /\ UNCHANGED <<leaving, recovery, session, requests>>

-----------------------------------------------------------------------------
(* market-data-service: probes of the session, and the reconnect after     *)
(* three that failed.                                                      *)

Healthy == Connected /\ authenticated

\* disconnect(): close() waits for the socket, or for two seconds.
RecoveryCloses ==
  /\ Supervised /\ recovery.at = "idle"
  /\ IF Healthy THEN Fault ELSE UNCHANGED faults
  /\ recovery' = [recovery EXCEPT !.at = "closing"]
  /\ authenticated' = FALSE
  /\ conn' = Closed(conn)
  /\ leaving' = leaving \cup Abandoned
  /\ pending' = AfterRejection
  /\ UNCHANGED <<reconnects, subscribed, fed, requests>>

\* The rest of disconnect(), then connect().
RecoveryConnects ==
  /\ recovery.at = "closing"
  /\ subscribed' = FALSE
  /\ conn' = Opening(conn)
  /\ recovery' = [at |-> "connecting", attempt |-> conn.generation + 1]
  /\ UNCHANGED <<leaving, reconnects, authenticated, fed, pending, requests, faults>>

\* The attempt has opened, then #authorize is answered.
RecoveryOpened ==
  /\ recovery.at = "connecting" /\ recovery.attempt = conn.generation /\ Connected
  /\ recovery' = [recovery EXCEPT !.at = "authorizing"]
  /\ UNCHANGED <<conn, leaving, reconnects, session, pending, requests, faults>>

RecoveryAuthorizes ==
  /\ recovery.at = "authorizing" /\ recovery.attempt = conn.generation /\ Connected
  /\ authenticated' = TRUE
  /\ recovery' = [at |-> "idle", attempt |-> None]
  /\ UNCHANGED <<conn, leaving, reconnects, subscribed, fed, pending, requests, faults>>

\* connect() that does not settle when its handshake fails.
RecoveryFailsOpen ==
  /\ recovery.at \in {"connecting", "authorizing"}
  /\ recovery.attempt = conn.generation /\ recovery.at = "authorizing" /\ Fault
  /\ recovery' = [at |-> "idle", attempt |-> None]
  /\ UNCHANGED <<conn, leaving, reconnects, session, pending, requests>>

\* The attempt or the login failed: the next probe finds the session unhealthy.
RecoveryFails ==
  /\ recovery.at \in {"connecting", "authorizing"}
  /\ IF recovery.attempt = conn.generation /\ conn.state \in {"opening", "open"}
     THEN recovery.at = "authorizing" /\ Fault
     ELSE UNCHANGED faults
  /\ recovery' = [at |-> "idle", attempt |-> None]
  /\ UNCHANGED <<conn, leaving, reconnects, session, pending, requests>>

-----------------------------------------------------------------------------
(* Callers of the client.                                                  *)

\* #subscribeSpot, from a caller that needs a quote.
Subscribe ==
  /\ authenticated /\ ~ subscribed /\ Connected
  /\ subscribed' = TRUE
  /\ fed' = fed \cup {conn.socket}
  /\ UNCHANGED <<conn, leaving, reconnects, recovery, authenticated, pending, requests, faults>>

\* request(): registered before it is paced, so that a loss or its deadline ends it too.
Ask(r) ==
  /\ asked[r] = Unasked
  /\ asked' = [asked EXCEPT ![r] = conn.generation]
  /\ pending' = pending \cup {r}
  /\ queue' = Append(queue, r)
  /\ UNCHANGED <<conn, leaving, reconnects, recovery, session, paced, cooling, wire, faults>>

\* valid(): the caller still waits, and the connection is the one it asked under.
Valid(r) == r \in pending /\ asked[r] = conn.generation

\* Refuse for a caller that is left to its deadline.
RefuseUntold(r) == queue' = Tail(queue) /\ paced' = FALSE /\ UNCHANGED pending

\* The head of the queue is refused: its caller is told, unless it was already.
Refuse(r) ==
  /\ queue' = Tail(queue)
  /\ paced' = FALSE
  /\ pending' = pending \ {r}

\* #rateLimit, up to the wait for the next free slot.
Admit ==
  /\ queue # <<>> /\ ~ paced
  /\ IF Valid(Head(queue)) /\ ~ cooling
     THEN paced' = TRUE /\ UNCHANGED <<queue, pending>>
     ELSE Refuse(Head(queue))
  /\ UNCHANGED <<conn, leaving, reconnects, recovery, session, asked, cooling, wire, faults>>

\* The checks made only before the wait.
ReadyUnchecked(r) == TRUE

\* #rateLimit after the wait, which repeats its checks; then request() sends.
Ready(r) == Valid(r) /\ ~ cooling

Dispatch ==
  /\ queue # <<>> /\ paced
  /\ LET r == Head(queue) IN
       IF Ready(r) /\ Connected
       THEN /\ wire' = wire \cup {<<r, conn.socket>>}
            /\ queue' = Tail(queue) /\ paced' = FALSE
            /\ UNCHANGED pending
       ELSE Refuse(r) /\ UNCHANGED wire
  /\ UNCHANGED <<conn, leaving, reconnects, recovery, session, asked, cooling, faults>>

\* The deadline of a request.
Deadline(r) ==
  /\ r \in pending
  /\ pending' = pending \ {r}
  /\ UNCHANGED <<conn, leaving, reconnects, recovery, session, requests, faults>>

\* #receive: an answer settles the caller that still waits for it, and one that says the
\* rate limit is exceeded starts a cooldown. A message of an older socket is ignored.
Receive(r, s, limited) ==
  /\ <<r, s>> \in wire
  /\ wire' = wire \ {<<r, s>>}
  /\ IF Current(s) /\ Connected /\ r \in pending
     THEN pending' = pending \ {r} /\ cooling' = (cooling \/ limited)
     ELSE UNCHANGED <<pending, cooling>>
  /\ UNCHANGED <<conn, leaving, reconnects, recovery, session, asked, queue, paced, faults>>

CooldownEnds ==
  /\ cooling
  /\ cooling' = FALSE
  /\ UNCHANGED <<conn, leaving, reconnects, recovery, session, pending, asked, queue, paced,
                 wire, faults>>

-----------------------------------------------------------------------------

Handler(k) == HandlerAuthorizes(k) \/ HandlerSubscribes(k) \/ HandlerReconciles(k)

Recovery ==
  RecoveryConnects \/ RecoveryOpened \/ RecoveryAuthorizes \/ RecoveryFails

Next ==
  \/ RetryFires \/ Opens \/ Refused \/ HandshakeTimesOut \/ Breaks
  \/ \E s \in leaving \cup {conn.socket} : CloseEvent(s)
  \/ \E k \in reconnects : Handler(k) \/ ReconnectFails(k)
  \/ RecoveryCloses \/ Recovery
  \/ Subscribe
  \/ \E r \in Requests : Ask(r) \/ Deadline(r)
  \/ Admit \/ Dispatch
  \/ \E m \in wire, limited \in BOOLEAN : Receive(m[1], m[2], limited)
  \/ CooldownEnds

\* Timers fire, a handshake ends by its timeout at the latest, a breaking socket emits its
\* close event, continuations run, and a session that fails its probes is recovered.
Fairness ==
  /\ WF_vars(RetryFires)
  /\ WF_vars(Opens \/ Refused \/ HandshakeTimesOut)
  /\ WF_vars(CloseEvent(conn.socket))
  /\ WF_vars(\E k \in reconnects : Handler(k) \/ ReconnectFails(k))
  /\ WF_vars(~ Healthy /\ RecoveryCloses)
  /\ WF_vars(Recovery)

Spec == Init /\ [][Next]_vars /\ Fairness
-----------------------------------------------------------------------------
(* Correctness.                                                            *)

\* A caller that still waits for an answer waits on the socket in use: when a connection is
\* given up, every request on it is rejected, and none is left to its deadline.
NoneWaitsOnTheDead ==
  \A m \in wire : m[1] \in pending => m[2] = conn.socket

\* What is put on a socket is a request whose caller was not told otherwise, made for that
\* connection and no other, and never during a cooldown: a command is not replayed after a
\* reconnect, nor sent after its deadline.
SendsOnlyLive ==
  [][\A m \in wire' \ wire :
       m[1] \in pending /\ asked[m[1]] = m[2] /\ Current(m[2]) /\ ~ cooling]_vars

\* A close event, or a continuation, of an earlier attempt never disturbs the connection
\* that is open or being opened, or the requests made on it.
StaleNeverDisturbs ==
  [][/\ conn.state \in {"opening", "open"}
     /\ \/ leaving \ leaving' # {}
        \/ \E k \in reconnects \ reconnects' : k.attempt # conn.generation
     => conn' = conn /\ pending' = pending]_vars

\* A client that believes it is subscribed, and so will not subscribe again, receives the
\* symbol's quotes on the connection in use.
BelievesOnlyFed == Connected /\ subscribed => conn.socket \in fed

\* Where a request is: in the queue, at the broker, or neither any more.
Queued(r) == \E i \in 1 .. Len(queue) : queue[i] = r
Phase(r) ==
  IF asked[r] = Unasked THEN "unasked"
  ELSE IF Queued(r) THEN "queued"
  ELSE IF \E m \in wire : m[1] = r THEN "sent" ELSE "over"

\* The promise of RequestPromise to the callers: across lost and replaced connections a
\* request is put on a socket once at most, while its caller waits, and a caller whose
\* promise has settled is not settled again.
Promise == INSTANCE RequestPromise WITH
             phase <- [r \in Requests |-> Phase(r)], waiting <- pending
PromisesKept == Promise!Spec

\* A lost connection is replaced by one that is logged in.
Reopens == conn.state # "open" ~> Healthy
=============================================================================

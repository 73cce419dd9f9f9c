# A TLA+ model of the scalping bot's execution core

The bot trades one symbol on one demo account. Once per interval it collects
candles and quotes, asks a model for a proposal, validates and sizes it, and
places one entry at the broker: a single directional order, or an OCO pair of
pending orders of which only one may fill. The broker holds the stop and the
target. Every two seconds an independent timer repairs missing protection and
cancels what has to be cancelled. Broker callbacks are written to a PostgreSQL
journal, and nothing new is placed unless gateway, journal and broker agree.

This directory models the parts in which a wrong interleaving costs money: how much an
entry may risk, how it is admitted, how it reaches the broker, how its order rows are kept, how
broker callbacks become durable, how an unprotected position is repaired or
closed, which request to the planner an entry may rest on, and the session all of them share. Paths below are relative to
`apps/execution-service/src` unless they start with another directory.

| module | models | checked by | proved in |
|---|---|---|---|
| `DemoGateway` | `demo-gateway.ts`, with the socket and the broker | `gateway_*`, `transport_orders` | `DemoGatewayProofs` |
| `EntryPromise` | what admission promises: one entry at a time, each sent once | `admission` | `EntryAdmissionProofs` |
| `EntryAdmission` | `coordinator.ts`, `safety()` and the tick of `index.ts`, the gates, `entry-mode-coordinator.ts`, the trail | `admission*` | `EntryAdmissionProofs` |
| `OrderLedger` | the rows of orders, positions, trades and groups under `order-maintenance.ts`, `postgres-trail.ts`, `demo-execution-store.ts`, `demo-execution-recovery.ts` | `ledger` | `OrderLedgerProofs` |
| `LossLimits` | `daily-risk-store.ts`, `capital-risk-store.ts`, `packages/risk-engine/src/capital.ts`, the accounting of `safety()` | `recorder_risk` | `RiskProofs` |
| `SetupRisk` | `oco-risk-evaluator.ts`, the sizing of `packages/risk-engine/src/risk.ts`, the coordinator's risk checks | `recorder_risk`, `pair_risk` | `RiskProofs` |
| `ExecutionRecorder` | the recorder of `demo-execution.ts`, `runDemoRecovery` of `index.ts` | `recorder_*` | `ExecutionRecorderProofs` |
| `PositionProtection` | `position-protection.ts`, `postgres-position-protection.ts` | `protection_*` | `PositionProtectionProofs` |
| `ProtectionPlan` | the prices of `protectionPlan` | `protection_claims` | `PositionProtectionProofs` |
| `EntryContexts` | `scenario-context.ts`, with the triggers of its table and the intent of `postgres-trail.ts` | `protection_*` | `EntryContextsProofs` |
| `RequestPromise` | what the transport promises its callers: on a socket once at most, while they wait | `transport_orders` | `TransportProofs` |
| `Transport` | `packages/ctrader-client/src/transport.ts`, the session part of `client.ts`, `SessionRecovery` of the market-data service | `transport_*` | `TransportProofs` |

`EntryAdmission` implements `EntryPromise`, and `Transport` implements `RequestPromise` (INSTANCE
with a refinement mapping). The
other modules meet at named seams: `OrderLedger` begins where the placement of
`DemoGateway` returned, `DemoGateway` takes the readiness that `ExecutionRecorder` computes,
`PositionProtection` takes the verdict of `ProtectionPlan`, `SetupRisk` extends `LossLimits`, whose
calls of `safety()` it awaits, and the sessions, timeouts and
reconnects that `DemoGateway` assumes are those of `Transport`.

The `MC*` modules name the constants the configurations use; `MCRecorderRisk`,
`MCTransportOrders` and `MCPositionProtection` also check parts that share no state side by side: a behaviour moves one of
them, chosen at its beginning, so each is explored as if alone. To run one:
`tlc -config GatewayPair.cfg MCDemoGateway`. To check the proofs:
`tlapm DemoGatewayProofs.tla`.

## Inventory

The components, the state each keeps, what it does, and what makes it correct.
Everything is TypeScript unless noted.

| component | state | operations | hard behaviour | correct when |
|---|---|---|---|---|
| Demo gateway (`demo-gateway.ts`) | in memory: known groups, tracked orders, the uncertainty latch, cancellations in flight | `placeDirectional`, `placeOco`, `handleExecution`, `cancelStrategyOrder`, `acknowledgeCertainTerminalRecovery`, `reconcile` | up to ten awaits per placement with callbacks in between; timeouts of sent orders; restarts | an order is sent once, evidence is not undone, the peer of a filled leg is pursued, a placement ends |
| Position protection (`position-protection.ts`, `postgres-position-protection.ts`) | durable row per position: status, repair attempts, time of the last command, close claim | one pass over the owned positions; claim and send an amendment or a close | overlapping processes, lost sessions, commands with unknown outcome | commands are bounded, and an unprotected position does not stay unattended |
| Execution recorder (`demo-execution.ts`) | in memory: queue, chain of drains, latched reasons, acknowledged proofs | `enqueue`, `flush`, `acknowledgeCertainTerminalRecovery` | callbacks during a flush, several flushes, failures during a recovery | "certain" means everything before is handled; an acknowledgement clears only what it proves |
| Execution journal (`demo-execution-store.ts`) | durable events, fills, positions, trades, terminal evidence | `persist`, `readiness`, `reconcileTerminalEvidence` | duplicate and conflicting events, out-of-order executions | one fill is counted once, a conflict blocks |
| Demo recovery (`demo-execution-recovery.ts`, `demo-execution-recovery-runner.ts`) | the attempt in flight, its last result | search the broker history for terminal proof | retries, joined attempts | terminal only on exact proof |
| cTrader transport and client (`packages/ctrader-client`) | socket, generation, pending requests, pacing, cool-down | `request`, `connect`, `close`, heartbeat, reconnect | late answers, stale generations, reconnection during authentication | a request settles once, on its own connection |
| Coordinator and safety gates (`coordinator.ts`, `safety-gates.ts`, `state-machine.ts`) | one running cycle, the analysis state | `runOnce`: gates, model, validation, intent, placement, record | gates on a snapshot that ages; failure after the order is out | at most one live entry; no order without an intent |
| Decision trail (`postgres-trail.ts`) | durable analyses, groups, orders | `intent`, `placement`, `reconciliation` | writes of old snapshots over newer states | a terminal row stays terminal |
| Order maintenance (`order-maintenance.ts`) | none of its own; the durable orders | expire, cancel peers, emergency cancel | races with fills | a fill is never overwritten |
| Entry contexts (`scenario-context.ts`) | durable requests to the planner: state, expiry, parent and ground of an early request, retirement, the order group that names one; in memory: the task awaiting an answer | `prepare`, claim, `finish`, `retireEntryContext`, the intent's check | overlapping processes, a cycle that holds a map others retire, trade or replace; answers that never come | a paid request is not repeated within its cooldown, a map is traded or given up, and backing off ends |
| Entry mode and predispatch recovery (`entry-mode-*`, `entry-recovery-store.ts`, `predispatch-*`) | mode revision, retirements, incident proofs | change mode, retire an unsent entry | a change during a cycle | a retired entry was never sent |
| Scheduling and campaigns (`automatic-analysis-*`, `automatic-trade-campaign.ts`) | durable intervals and campaigns | claim, complete, watch | crash between claim and completion | one analysis per interval |
| Risk stores (`capital-risk-store.ts`, `daily-risk-store.ts`, `packages/risk-engine/src/capital.ts`) | durable: a row per day (baseline, lock), one per account (high water, multiplier, lock); in memory: the capacity of the next setup, the cached payments of the day | reconcile both rows, admit; the operator's baseline | overlapping calls of `safety()`, observations out of order, payments in between | a lock is never lifted, a reduction ends only below both thresholds |
| Sizing (`oco-risk-evaluator.ts`, `packages/risk-engine/src/risk.ts`) | none beyond one evaluation | bound the stops, size, confirm the margin, check before the placement | the capacity changes between the awaits, margins are not linear | the largest volume within the risk and the margin, and never more than is allowed when it is placed |
| Observability outbox (`observability-outbox.ts`) | durable rows with lease and attempt count | claim, deliver, retry | lease ends while sending | at least once, in the end |
| Terminal evidence (`terminal-*`, `*-close-evidence.ts`, `account-reconciliation.ts`) | none | predicates over broker history | incomplete histories | no proof from partial evidence |
| Paper, shadow and live-compatible gateways | simulated books | place, fill, reconcile | none that the deployment meets | same contract as the demo gateway |
| Main loop (`index.ts`, `server.ts`, `config.ts`) | timers, latest snapshots | wiring, HTTP, shutdown | overlapping timers | maintenance never waits for inference |
| Market data, scenario engine, candidates, model clients, database package, dashboard and offline Python | caches, archives, reports | collect, plan, report | none that reaches an order | deterministic for their inputs |

Interactions. The main loop's tick runs the coordinator, which asks the gates,
writes the intent, calls the gateway and records the placement. The client hands
each broker message first to the promise waiting for it and then to its
handlers: the gateway's `handleExecution` and the recorder's `enqueue`. The gateway
asks the journal for readiness, through the recorder's flush, before it
dispatches. The protective timer calls position protection, order maintenance
and the recovery; the recovery acknowledges a proof to the recorder and to the
gateway. Everything in one process runs on one event loop, so a step of the
models runs from one `await` to the next; two processes may overlap during a
release and share only the database and the broker.

## What is modelled, and how it corresponds

### DemoGateway

`groups`, `tracked`, `order`, `latch` and `slip` are the fields `#groups`,
`#orders`, the tracked orders, `#uncertainReason` and `#slippageOrderGroupId`.
`place` is the one placement the coordinator may have under way (it runs one
cycle at a time) and the await it is at; `call` holds the promises of the client,
which include `#cancelInFlight`. `wire` and `feed` are requests and events in
flight, `book` and `exposed` the broker's orders and positions. `sends` and
`heard` are history.

A placement is the chain `PlaceCall`, `Snapshot`/`Check1` (first reconcile,
recovery, registration), `Session1`, `Snapshot`/`Check2` (second reconcile),
`Readiness`, `Session2` (last check and dispatch), `Placed1`, `Settled1`, for a
pair `Session3`, `Placed2`, `Settled2`, and `UndoneClosed`, `UndoneFailed`,
`Thrown` on the error paths. `Deliver` is one broker message: the promise it
answers, then `handleExecution`, `applyExecution` and `cancelPendingPeer`.
`PeerAnswered` and `PeerDone` are the detached continuation of a peer
cancellation, `CancelCall` and `CancelAnswered` the cancellations of order
maintenance, `AcknowledgeTerminal` the retirement of a proven group. `Timeout`,
`Disconnect`, `Connect` and `Restart` are the client and the process.

The broker is external: it may accept, refuse, fill in part or whole, expire or
cancel an order at any time, and never has to answer. A fill price is "within"
the slippage limit, "exceeded" or "missing", which is all `applyExecution` asks.
A request in the pacing queue counts as sent, since it can no longer be
withdrawn except by its timeout or a closed connection. `reconcile()` and
`order()` of the gateway change nothing and are left out; validation of the
commands is assumed to have succeeded. `sends` counts what one process hands to
the transport; that a second process does not repeat it is the business of the
intents: `KeepsPromise` of `EntryAdmission`, over any number of restarts.

### PositionProtection

`row` is the table `position_protection` (`migrations/0022_position_protection.sql`):
`cooling` says `command_at` is less than five seconds old, `closing` that
`close_requested_at` is set. `journal` says the journal has the position open,
`lock` is the advisory lock, and `pass` is where a pass is, what is left of its
list, and what it read of the rows. Each await of `maintain` and
`closeUnprotected` is an action: `Read`, `Observe`, `Quote`, `Confirm`,
`ClaimRepair`, `Amend`, `AmendEnds`, `Recheck`, `Require`, `ClaimClose`, `Close`,
`CloseEnds`, `Acknowledge`, `Failed`. `Fault` lets any await reject, `Crash` ends a
process, `LoseSession` and `Severed` end a database session without ending the
process. The broker's protection of a position is "missing", "wide" (to be
repaired), "exact" or "closed". `claimProfitClose`, which nothing in the repository
calls, is not modelled.

### ProtectionPlan

The verdict itself: the distances of the approved order, taken from the average
price of the fills, rounded to the tick towards the price, and never looser than what the
broker holds (`Restored`). decimal.js computes these exactly, so prices are whole
numbers of a unit that divides the tick and every price. `PositionProtection` extends
the module and has its verdicts: an amendment that it lets the broker execute must be one
that `ProtectionPlan` finds exact afterwards, whatever it was planned from (`AmendmentsRestore`, over the
`Approved` orders and the `Holdings` of the broker).

One race remains as the code has it. An amendment planned before a native stop arrived
replaces that stop, even by a looser one: `RepairsAgree` says that all amendments of
a missing or wide stop carry the same price, not that the broker held nothing tighter
when one arrived. The window is a freshness of two seconds.

### EntryContexts

`context` holds the rows of `scenario_contexts` in the order of their claims: each with its state,
the minute it was requested, its expiry, the kind of its plan, its parent with the ground of an
early request, whether it has a row in `context_entry_retirements`, and what became of the order group that
names it. `cycle` is what the cycle of each process is doing and to which context, `task` the
answer a process awaits apart from its cycles, `minute` the database's clock.

`Reuse` and `Ask` are the two ways out of `prepare`; `Claim` is the claiming statement under the advisory
lock of the scope, with `Admits` for its four grounds (a first request or one after the cooldown, one after a setup traded to
its end, one for a retired map, one for a wait); `Answer` is `finish`, or its failure, after which the row stays
REQUESTING; `RecheckReturn` and `RetireStale` retire a map whose prices are too close, on the provider's return and at a
reuse. `Intend` and `Commit` are the transaction of `trail.intent`, in which the triggers hold the
row of the context (`Locked`) and check it again (`Authorized`); `Reject` is every refusal of the
coordinator. `Conclude` is the end of a setup, with the terminal evidence the claim asks for or without;
`Restart` loses the cycle and the task. Between two of these, other processes act and `Tick` passes a
minute.

Times are whole minutes: the cooldown, the minute of the local circuit and of a wait, and the reserve of
65 seconds before the expiry of a pair are the units the rules compare. What the prices of a map are,
and when they are too close, is a choice. The delays of `nextEvaluationAt` postpone a cycle
and are left out.

### EntryAdmission and EntryPromise

`EntryPromise` has two variables: the groups never sent, and those on their way to
the broker or working there. A group is sent only while no other is.

`EntryAdmission` has the callers (the scheduler's tick and `POST /v1/cycle`), each at a stage
of `runOnce` and, in three of them, at one of the three awaits of `safety()`: it reads the
controls and the gateway (`SafetyReads`), writes that report over the rows
(`SafetyWrites`), and counts what the journal says (`SafetyAnswers`). Between two of these steps
anything else happens: the other caller, the broker, the recorder (`Projects`), order
maintenance (`Settles`), the operator (`Stops`, `Selects`), a crash. `running` is
`EntryModeCoordinator`'s `#running`. What the market, the model and the risk rules decide is a
choice; that the account is read again is not, and `Refreshes` has it, for it sees a position the
journal does not. `Sends` is the gateway's dispatch, whose inside is `DemoGateway`.

`Covered` is about entries on their way only ("sent"). An entry working at the
broker may for a while have no open row: filled, its order row is FILLED and its
position is not stored yet. Then the gateway's report is what forbids the next entry,
which is why the promise needs both. The orphan rows a crash leaves between intent and send are
reached: they block later entries until the operator resolves them. A stop set after
`Admits` read the controls for the last time does not hold the entry back;
`OperatorObeyed` is about what was decided by the end of the refresh.

### LossLimits

`daily` and `capital` are the tables `daily_risk_state` and `capital_risk_state`, `cached` is
`cashFlowCache`, `capacity` the pair `capitalMultiplier`, `capitalRiskCap`. Each call of `safety()`
is an element of `Accountants` and holds what it has read in `audit`: it reads the account
(`ReadsAccount`), the payments of the day (`ReadsFlows`), the row of the day (`ReadsRow`), writes it
(`WritesDaily`), reconciles the account's row in its one transaction (`WritesCapital`) and leaves
the capacity (`Admits`), or throws at any of those and leaves none (`FailsAccounting`). Every other
call, payments, the end of the day, the operator's baseline and restarts come in between. `Results`
is what the account may be worth apart from payments; `read` numbers the readings as `observed_at`
orders them. Percentages are hundredths, where the code keeps eight or ten decimals; the roundings
keep their direction. A reading older than ten seconds is a failure.

### SetupRisk

`setup` is one run of the coordinator from the account it reads after the model answered to the
call of the gateway: `Constrains` (the stops the smallest volume affords), `EvaluatesSingle` or
`EvaluatesPair`, `MinimumAnswers` and `Confirms` (the awaits of the margin estimates), `AsksSafety`,
`Rechecks`, `Places`. `sized` is the percentage the volumes were computed with and `reported` the one
handed to the final check. A stop is its distance in ticks; prices are left out, so a commission is
what it is at the highest price the code reserves for. `Rates` are what the broker may ask for a
volume of one, anew at each estimate, so that tiers may cost more or less. `Sized` is `sizePosition`
with its binary search; the cap of the notional value is null in the policy.

### OrderLedger

One placed pair. `live`, `status`, `done`, `held` are the broker; `log` the executions it sent and
what became of each; `row`, `position`, `trades`, `group` the tables. `Records` is one turn of the
recorder's queue (`persist`), `RecoveryReads`/`RecoveryWrites`/`RecoversClose` the recovery from the broker
history, `PlacementWrites` what `trail.placement` writes once, `SafetyWrites` the unconditional write
of `safety()`, and
`Selects`, `Marks`, `Cancels`, `CancelFails`, `Reconciles`, `WritesRow`, `WritesGroup` one run of order
maintenance, query by query. All of these but the journal write what they read before an await.

Any number of calls of `safety()` overlap. Each has reconciled at some moment, with a list of the broker and, of
orders not in it, what the gateway had heard, then waited for the executions queued before its flush.
So at any time one may write of each order any report of an execution already dealt with (`Snapshots`
over `Flushed`); the read needs no state of its own. The theorems use of such a report only that it was so once.
An execution of an order stored without a position is "detached": its fill counts as a fill of the
group (`Unfilled`) and not for the trade, which sums by position (`Recorded`).

Assumed: the gateway has seen the executions in the order in which the broker sent them; the broker's list
holds nothing whose execution is still to come when the flush begins; a position
closes only after its order has ended; the recovery takes only executions whose `persist`
failed, where the code also reads again those not mapped or without a deal (`demo-execution-recovery.ts:300`). Left out: executions of other groups, redelivered and conflicting payloads, ambiguous
orders, partial and manual closes: each of those blocks the journal and changes no row of the
group. Left out, too, is a restart, after which the gateway says nothing of an ended order. The expiry of a group and a stop may come at any time.

### Transport and RequestPromise

`conn` is `#generation`, `#socket` with its state, `#explicitClose` and the armed timer with
the generation it captured; a socket is named by its generation. `reconnects` are the continuations of
reconnect timers, `recovery` the reconnect of the market-data service, `leaving` the sockets whose close
event is still to come. `queue`, `paced` and `cooling` are the pacing chain and the rate-limit
cool-down, `pending` and `wire` the requests. `Supervised` tells the market-data
service, which runs `SessionRecovery`, from the execution service, which does not.

`Drained`: a rejected promise resumes its `catch` in a microtask, before the next event of a
socket or timer, so such an event waits until no continuation of a rejected attempt is left.
Left out: the heartbeat (its failure is `Breaks`), the length of the backoff, the
access token read during a login, and a subscription request in flight when the connection
breaks, which is taken as one step with its answer.

`RequestPromise` is one of these requests without connections, pacing or cool-down: `phase` says whether it is still to be sent,
on a socket or over, `waiting` whose callers wait. `Ask` is `request`, `Send` its dispatch, `Withdraw` its `catch`,
`Answer` what `#receive` takes or ignores, `GiveUp` a deadline or `#rejectPending`.

### ExecutionRecorder

`pending`, `tail`/`done`, `codes`, `sequence`, `proofs` and `remembered` are the fields
of `DurableDemoExecutionRecorder`; the promise chain `#tail` is a count of chained
and ended drains. `Flush`, `Drained`, `Readiness`, `Answered` and `ReadinessFails` are one
call of `flush`; `Take`, `Persisted` and `DrainEnds` the drain. `Recover`, `Prove`,
`NoProof`, `Acknowledge` and `AcknowledgeUncertain` are `runDemoRecovery`, which
takes its checkpoint when its first flush returns. `fate` and `failure` are history.

Two simplifications: a terminal proof is identified with its deal, and a failed
persist latches one code per execution. Normalization is represented by its
outcomes: not of this strategy, a failure with some code, or an event to persist.

## What the runs check

| run | bounds | properties | what it shows |
|---|---|---|---|
| `gateway_pair` | one pair, volume 2, one event in flight, no drop | `TypeOK`, `SentOnce`, `PeerPursued`, `NeverErased`, `NoBlindSecondLeg` | with partial fills of both legs and every order of responses, callbacks, peer and maintenance cancellations: evidence is not undone, a leg is not handed over twice, the second leg is not sent into a decided or uncertain pair, a pending peer of a filled leg is being cancelled or the gateway is latched |
| `gateway_recovery` | one pair, one restart or one lost connection, no maintenance, fairness | `PeerSettles`, `PlacementEnds`, `PursuitKept` | a pending peer of a filled leg is settled, latched or retired, and no step lets go of it, over the restart too; every placement returns or throws, also the recovery of a pair from the broker's book |
| `admission` | two analyses, a scheduler and a request, any number of crashes, fairness | `Covered`, `KeepsPromise`, `OperatorObeyed`, `AnalysesEnd` | one entry at a time, each sent once and covered by a row while it is on its way; the operator's word holds; no cycle, and no run after a restart, blocks for ever |
| `admission_outage` | one analysis | `NoPermanentLoop` (violated) | finding 2 |
| `ledger` | a pair with volumes 2 and 1, three executions, one missed, one maintenance run | `RowsNeverLead`, `EndedIsFlat`, `TradesComplete`, `ClosedStays`, `IntactPairKept` | rows never say more than the broker did; an ended group is over; a trade is whole; a closed position stays closed; an intact pair is not taken apart |
| `recorder_risk`, recorder | two executions (one with a deal), a caller and the recovery, five flushes | `TypeOK`, `FlushCovers`, `OnlyEarlierFailures` | a certain flush has handled what was queued before it; an acknowledgement clears nothing newer than its checkpoint |
| `recorder_risk`, losses | two calls of `safety()`, three readings of an account that may lose 5.5%, a withdrawal of 3%, two days, restarts, any number of failures | `DailyLockHolds`, `CapitalRatchets` | overlapping calls never lift a lock of the day and answer by it; the account's row only follows newer observations, and its reduction ends only below both thresholds |
| `recorder_risk`, setup | stops of 3 and 8 ticks, margin used or not, two rates, both modes, any of five capacities between any two awaits | `LargestVolume`, `LossStaysFree`, `NeverEnlarged`, `SingleCapped` | the binary search finds the largest volume on the grid within risk and margin; revised margins never enlarge it; one full loss stays free; a single order is within the risk allowed when it is placed |
| `pair_risk` | an account that may lose 3%, two calls of `safety()`, one stop | `PairCapped` (violated) | finding 4 |
| `recorder_proofs` | three executions, two of one deal, four flushes | `LateDuplicateOnly` (violated) | finding 1 |
| `protection_claims` | one position, two processes, one fault, one crash, one lost session; 2060 plans on a tick of three units | `CommandsBounded`, `AmendmentsRestore` | at most two amendments and one close are sent, over both processes; an executed amendment leaves an exact position |
| `protection_claims`, contexts | two processes, two requests, a cooldown of two minutes, any number of restarts | `SpacedRequests`, `TradedOrReplaced`, `ScalpTradedNewest` | a request within the cooldown of another follows an answer, or a refusal before any dispatch, and within a minute the end or the retirement of a map; a map that is traded is neither retired nor replaced; a scalp map is traded only while it is the newest |
| `protection_liveness` | two positions, one malformed, one process, one fault, one crash, fairness | `UnprotectedHandled` | a position without a stop gets one, ends, or has its close claimed, whatever its neighbour or the quote does |
| `protection_liveness`, contexts | one process, two requests, fairness | `RequestsResume` | after a failed, lost, refused, expired or twice retired request another is made, unless a setup is open |
| `transport_orders`, transport | two requests, two faults, fairness | `NoneWaitsOnTheDead`, `BelievesOnlyFed`, `SendsOnlyLive`, `StaleNeverDisturbs`, `PromisesKept`, `Reopens` | requests end with their connection, none is sent on another one, each is on a socket once at most, and a caller once answered or refused is left alone; old continuations leave the new connection alone; a lost connection is opened and logged in again |
| `transport_orders`, orders | two directional orders of `DemoGateway`, every price class, one lost connection | `SentOnce` | an order is handed to the transport once although its answer times out, its group is refused, retired or asked for again |
| `transport_alone` | one request, two faults, no `SessionRecovery`, fairness | `Reopens` (violated) | finding 3 |

Bounds. `Groups`, `Volume`, `MaxDrops`, `MaxRestarts`, `MaxFeed` and `Maintained`
(groups maintenance may cancel) bound the gateway; `MaxFaults`, `MaxCrashes`, `MaxLosses` the
protection; `MaxContexts` the requests to the planner; `MaxFlushes` the recorder; `Groups` the admission; `MaxSent`, `MaxFaults`, `MaxMisses` the ledger;
`MaxFaults` the transport; `MaxDays` and `MaxReadings` the accounting. `OneFault` lets `gateway_recovery` have
a restart or a lost connection, not both. The gateway shares nothing between groups
but the latch, the broker's flatness and the one placement, so one pair carries
the interplay of legs, and two orders the interplay of groups. Volume 2 is the
least with a partial fill. One event in flight is enough for reordering: a
response already handed to its promise resumes after any number of later events.
Two processes are what a release overlaps; two repair attempts are a constant of
the code, and the theorem covers any number of processes. Five flushes let the recovery run
twice, once with a caller in between. A second execution of a deal already stored is skipped only in
`recorder_proofs`, which has two of one deal; the theorems cover it for any number. Two analyses are the least between which an entry can be
admitted over another, and two callers what the service has. Three executions
let the ledger have a partial fill, the rest or an end, and a close; it was also run with
four of them and, apart, with a failing cancellation (`MaxFaults` 1), which take longer and
show nothing else. Two requests are the least between which a rule of `EntryContexts` can fail: each
compares a request with the one before it, or a map with its successor, and the theorems are about
any number. A cooldown of two minutes is the least that differs from the one minute of the
local circuit. Two faults let the transport lose a connection and then the reconnect.
Two directional orders are interchangeable, so `MCTransportOrders` places the second after the
first. The only symmetry is of the two calls of `safety()` in `recorder_risk`, a run of safety properties.

The accounting of `recorder_risk` runs in demo, where the operator may set a baseline, too: its two
properties read nothing that the mode changes, and demo has every other step. Two calls are the
least that overlap, two days the least over which a lock must end and a reduction must not, and three
readings let a call be overtaken and answer again. 5.5% is beyond both limits, 3% between the
thresholds. The setup of that run meets a capacity that may change to any of five at any moment, which is more than
`safety()` does, so what holds there holds beside the accounting; `pair_risk` runs both together
for its counterexample to be a real one. With six volumes the search has three levels.

`CHECK_DEADLOCK FALSE` is set everywhere because the models may stop: all groups are
placed and settled and no callback is left, no position is open, or the bound on
flushes, executions or faults is used up. That placements, passes and cycles do not hang is what
the liveness properties say.

`PeerPursued` is checked without a restart and with one pair, and its theorem names both conditions. After a restart, a pair recovered with a
part-filled first leg gets no peer cancellation from the gateway until that leg's
next execution; order maintenance cancels the peer once the fill is stored (`FilledPeer`). So
`gateway_recovery` has volume 1: with volume 2, run by hand, `PeerSettles` is violated by that recovery. With a
second group, a slippage latch may take the place of an uncertainty, and the terminal
acknowledgement of the slipped group clears it (`demo-gateway.ts:915`, `:672`). `PursuitKept` holds
with both: it speaks of the fills the process has heard of, and excepts that acknowledgement by name.

## Fairness

`DemoGateway`: continuations of the event loop run, `Timeout` (the client's
ten-second timer on every request), `Deliver` (a message that arrived is handled)
and `Connect` (the reconnect timer retries for ever). Nothing is assumed of the
broker: it may never answer, fill or cancel, and only weak fairness is used.
`PositionProtection`: the two-second timer fires, a pass goes on, and `command_at`
grows older. That every request to the broker ends follows from the
client's timers. That every query ends is an assumption: the pool bounds connecting
to ten seconds (`packages/database/src/index.ts:83`), but the queries of a pass run
without a statement timeout, and a query that never ends would hold up every later
pass of the process. Faults and crashes are bounded; with infinitely many of them
no pass need ever finish. `BrokerActs` and `BrokerMoves` have no fairness.
`EntryContexts`: cycles recur, the planner answers within its timeout, transactions end, and time passes. A process
that dies over and over, each time before it does anything itself, makes no requests: `RequestsResume` is about
behaviours with finitely many such restarts (`Interrupts`).
`EntryAdmission`: every await of a caller answers or throws, and a process that died is
started again; the scheduler need not call, and neither the broker nor the journal's other
writers ever need to act. `AnalysesEnd` adds that the process dies now and then, because
only a restart ends the runs a database fault left active (finding 2).
`Transport`: timers fire, a handshake succeeds, fails or times out, a breaking socket emits its
close event, continuations run, and the supervisor's probes recover an unhealthy session.
`Connect` of `DemoGateway` rests on this: for the execution service it holds except in the
circumstances of finding 3, after which the socket stays down and the liveness properties of the
gateway that need an answer say nothing. `PlacementEnds` does not need one: its awaits time out,
and the two reconciles of a disconnected session fail (`SnapshotFails`).
`ExecutionRecorder` and `OrderLedger` have only safety properties.

## What is proved

All for every value of the constants, under the named assumptions of the modules
(`GatewayAssumption`, `LossAssumption`, `SetupAssumption`, `ProtectionAssumption`, `RecorderAssumption`, `AdmissionAssumption`,
`LedgerAssumption`, `TransportAssumption`, `ContextAssumption`, `PlanAssumption`), which state the types of the constants and that
the null values are none of the others.

- `DemoGatewayProofs`. `TypeCorrect`: `TypeInv` adds to the types that a placement
  under way has a group, and a pair once it is past its first leg (`PlaceInv`).
  `NeverSentTwice`: `SentInv` relates `sends` to the phase of the placement. An unknown
  group has nothing sent; a placement begins with an unknown group; until its
  dispatch a leg has not been sent. `SentOnce` alone is not inductive, because it
  does not exclude a placement about to dispatch an order already sent.
  `SecondLegNeverBlind` needs `HeardInv`: a delivered fill or end of a tracked order
  has left a trace in its state that no later response removes, so the check before
  the second dispatch sees it. That in turn needs `FeedInv`, that a partial fill
  reported by the broker is not empty. `EvidenceNeverErased` uses the same
  invariant, by which no registration resets an order that is already tracked;
  every other writer of `order` goes through `Applies` or a rejection.
  `SentOnce` of `transport_orders` is that property of an instance of the module.

  `PursuitsKept` is about the peers, with any groups, prices and restarts: no step leaves a leg whose fill
  was heard alone with a pending peer (`LeftAlone`), except by an acknowledgement of another group. Where
  there can be none (`ClearsItsOwn`: no price is beyond the slippage limit, or there is one group), `NeverLeftAlone`
  makes an invariant of it. What both need is `PeerInv`, that nothing a later step applies is news. A response is applied
  twice, when it is delivered and when its promise resumes; `AnswersInv` says that what a promise still holds is
  already in the state of its order, so the second application fills nothing and needs no
  cancellation of its own. `SettlingInv`: a peer cancellation that ends has moved its order, or
  latches. `RegistryInv` and `UnaskedInv`: groups are tracked whole, and of one that is not registered no
  request is awaited, so a registration brings no filled leg along. `StatesInv`, `WorkingInv` and `LatchInv` say which
  states of an order, of the book and of the latch go together. What is left is `Deliver`: the step by which a leg becomes
  filled also asks for its peer (`DeliverPursues`). All of this holds over restarts, because a process that
  starts has nothing in memory.

  `PeersPursued` is `PeerPursued` while no restart has happened, also under `ClearsItsOwn`. Until then every fill in memory
  was heard (`FilledHeard`), because no group the process has not registered has anything working to be
  recovered from (`UnusedInv`). Both fail after a restart, and so does `PeerPursued`.
- `PositionProtectionProofs`. `CommandsEverBounded`: `CommandsInv` says the durable
  row runs ahead of the commands. The attempts counted cover the amendments sent
  plus those claimed and not yet sent by any process, and a claimed close is
  the only one. The bound follows from the claim and does not depend on the
  advisory lock: two processes may hold claims at once. `TypeCorrect` includes the
  table's CHECK on `repair_attempts`.
- `ExecutionRecorderProofs`. `FlushesCover`: `FlushInv` follows an execution queued
  before a flush through the drains chained on `#tail`: while the flush drains, a
  pending one is covered by a drain that has not ended; after it none is pending.
  Rows and failures of the journal are those of the executions (`Journalled`), and an
  uncleared failure is on record under an entry at least as new (`OnRecord`), which also gives
  `LaterFailuresStay`. `DuplicatesOfOwnCodes` bounds finding 1: the entry of a code carries the deal of one of its failures
  (`Owned`), so where no code is shared between deals, a known proof clears the failures of its own. `TypeCorrect` includes that an execution is queued exactly as long
  as nothing became of it.

- `EntryAdmissionProofs`. `EntriesCovered`: an entry being sent has its intent (`Intended`), and no
  later write hides it, because no report or result calls an order over before the
  broker does (`Reporting`, `Answered`). `PromiseKept` is the refinement of `EntryPromise`:
  only `Sends` opens a group, and then nothing else is exposed. That is `Alone`: a cycle
  past a clear check finds the broker empty of live entries, and of entries on their way
  because those are counted by their rows; `#running` (`Locked`) keeps
  a second cycle from sending in between. `OneEntryExposed` is what follows for the account.
  `OperatorAlwaysObeyed`: `Overruling`, an overruled caller is between its
  refresh and its last read of the controls, which refuses it. `OnlyFaultsAbandon` bounds finding 2: an active
  analysis loses its cycle only by a crash, after which the restart ends it, or by a refusal the database does not take; a caller
  has a group only in a cycle that has started it (`Ungrouped`).
- `OrderLedgerProofs`. The broker's facts are stable: volume only grows, an ended order stays ended with
  its state. So a report that was true when it was read stays true of the past, and writing
  it late lags but never leads: `Reads` says that every report a writer still holds
  lags (`Lags`), which gives `RowsFollowBroker` without any order among the writers, and with it
  `PairsKept`. `EndedGroupsFlat` needs `Sure`: a maintenance run that found its group certain has
  found the broker flat, and flat is stable too; the journal's EXPIRED and FAILED follow
  from rows that do not lead. `ClosedPositionsStay` needs `Timely`: times in rows are positions in the
  broker's log, and what a recovery holds of an order is older than the close.
  `TradesAccount` is `TradesComplete`. `SentInv` says that the executions of a leg, stored or not, bring all its volume
  (`Sent`), and that a close brings none and reports all of it. The fills rows are some of the executions; if
  they bring as much as all of them, an execution without its row brings nothing (`TotalsCompare`), so
  whatever is stored after the trade adds nothing to it. The facts about sums are proved for every
  length, by a least counterexample.
- `RiskProofs`. `DailyLocked` and `CapitalRatcheted` need only that a locked day has a row, that a
  call past the account carries a day that began, and the types (`LossInv`): the OR of the upsert and
  the lock of the transaction do the rest, for any number of calls, days and payments.
  `SetupsKeepAccounting` carries both over to `RiskSpec`. `SinglesWithinPercent` is the part of
  `SingleCapped` that is about interleavings: what a single order reports to the final check is what
  it was sized with (`PercentKept`), so a lowered percentage refuses it. The other part is that the
  volume costs at most its half of the risk.

  That rests on the search. `SearchFinds`: halving any range ends at its top, the largest
  step of the grid that fits, because a larger volume costs more (`TopHalved`), and the recursive function that halves is the
  one that chooses the top of each range, for at the shortest range where they differed its
  halves would differ already. `SizedIsLargest` is what it means for `sizePosition`. `SetupInv` then follows a setup through its
  awaits: its volumes were sized from the fields it still holds, and its margin is what the last answer
  asked for them. From it follow `VolumesLargest`, `LossReserved` (the margin was compared with what is free after
  one loss), `VolumesNeverEnlarged` (a revised rate only removes steps that fit) and `SingleLossCapped`.
  `PairLossWithinSized` bounds finding 4: a pair's loss is within the percentage it was sized with, so a
  pair that costs more than is allowed has reported a lower one.
- `TransportProofs`. A socket is named by its generation (`Named`), those being left are older
  (`Earlier`), what is on the wire for a waiting caller is on the socket in use (`Waiting`), and a connection that
  no reconnect handler waits for is opened by a client without subscriptions (`Forgotten`). `OnlyLiveRequestsSent` and `StaleLeftAlone` are
  action properties from it. None of them needs the bound on faults, or `Supervised`.
  `RequestsPromised` is the refinement of `RequestPromise`. Where a request is follows from `queue` and `wire` (`Phase`), and
  `QueueInv` says that it is in one place, once: the queue has no repetition, what is queued is not on the
  wire, and the wire carries no request twice. Then the head that leaves the queue moves one request (`LeaveStep`), and lost
  and replaced connections only end the waiting of some.
- `PositionProtectionProofs`, of the prices, for all prices and ticks: a plan never widens (`NeverWidens`) and never risks more than
  was approved (`RiskAsApproved`), because both roundings go towards the price; what it commands is
  exact (`AmendmentsExact`), because a rounded price is a multiple of the tick and a second
  rounding changes nothing; amendments of a missing or wide stop agree (`RepairsAgree`).
  `AmendmentsRestored` carries the first three over to the passes: only the broker takes a command from the wire.

- `EntryContextsProofs`, for any processes, cooldown and number of requests. What a claim found of the context before it
  is never undone (`Stable`): an answer stays, a retirement stays, a setup that ended stays ended. So `Follows` still
  holds of a request at any later time: it is ordinary and came after the cooldown, or its ground holds of its
  parent, the request just before it. `Kept` says that a traded map is not retired, because retirement and intent
  exclude each other by the row (`Locked`, `Exclusive`). From these `RequestsSpaced`, `NeverTradedAndReplaced` and
  `ScalpsNewest`: at the intent of a scalp map that is not the newest, its successor's ground would make it expired,
  traded or given up.

Every safety and action property of a passing run is the property of a theorem, `PeerPursued` under the
two conditions above; `SentOnce` of `MCTransportOrders` is that of `DemoGateway` for its constants. Only model-checked are the liveness properties: `PeerSettles`,
`PlacementEnds`, `UnprotectedHandled`, `RequestsResume`, `AnalysesEnd` and `Reopens`. TLAPS does not prove
liveness under fairness.

## Findings

1. `recorder_proofs` violates `LateDuplicateOnly`. `#recordFailure`
   (`demo-execution.ts:667`) keeps one entry per reason code, and a newer failure takes
   over its sequence and its deal. If an unrelated execution fails under some
   code and a late duplicate of an already proven deal then fails under the same
   code, the entry belongs to the duplicate; the next acknowledgement with the
   old proof deletes it, and with it the failure of the unrelated execution. The test
   "reuses exact terminal fill proof for a late duplicate failure only" gives each
   failure a code of its own and does not meet the case.
2. `admission_outage` violates `NoPermanentLoop`. `docs/implementation-report.md:2178` says that
   the startup's recovery of interrupted analyses prevents "a process/database fault from creating a
   permanent `PREVIOUS_ANALYSIS_ACTIVE` loop". It does so after a crash. After a database
   fault the process stays up: `reject()` (`coordinator.ts:545`) throws with the transition it
   writes, the run keeps its active state without a `valid_until`, and every later cycle finds it
   active until somebody restarts the process.
3. `transport_alone` violates `Reopens`. `docs/operations-runbook.md:546` says of a disconnect "reconnect with
   bounded jitter". A reconnect that is refused, or lost during its login, counts as lost
   twice: by the socket's close event, which arms the next timer, and by the `catch` of the timer
   that started it (`transport.ts:419`), which takes another generation. The armed timer then finds a
   generation that is not its own (`transport.ts:401`) and returns without a successor. The market-data
   service is saved by `SessionRecovery` (`transport_orders`); the execution service calls
   `connect()` only at its startup.
4. `pair_risk` violates `PairCapped`. `docs/risk-model.md:283` says that the remaining budget "caps every new
   setup, including a final risk-cap check". A pair is sized with the percentage read before its
   margin is confirmed (`oco-risk-evaluator.ts:213`), but reports the one read after
   (`oco-risk-evaluator.ts:390`), and the final check (`coordinator.ts:1532`) compares the reported one. If another
   `safety()`, of the status endpoint for instance, lowers the multiplier or the cap in between,
   the check passes and the pair is placed with the older, larger risk. It needs a mode that
   enforces the loss limits and an entry mode that places a pair; a single order reports what it was
   sized with (`SingleCapped`).

## Limits of the models

- A close that was claimed and then not sent, because the process died in
  between, is never sent: at most once by design
  (`docs/missing-stop-recovery-report.md`). `UnprotectedHandled` counts the claim.
- `SentOnce` is about one process, and a hand-over to the transport is not yet a
  message on the wire; `KeepsPromise` is about all of them.
- The broker's answers to `reconcileRaw` are taken at one moment; an old answer is
  represented by the steps between `Snapshot` and `Check1` or `Check2`. The cancellation of an order the
  gateway does not track reads that answer and is sent in one step (`CancelCall`): an order that ends in between
  is met by the request as one that ends while the request is on the wire.
- `AcknowledgeTerminal` takes the result of the terminal proofs, not their search.
- `EntryAdmission` takes the capacity as a choice. `SetupRisk` has it as state, up to the final check; a
  `safety()` that lowers it between that check and the send is not seen, nor is it by the code.
- The payments of the day are cached for ten seconds and the account is not (`index.ts:1018`). After a
  withdrawal `LossLimits` reaches a lock of the day although nothing was lost. The lock then holds
  as it should; that it came about so is fail-closed, and no property speaks of it.
- The capacity is written when a call ends, not by the order of the observations: an older call that
  ends later leaves its own (`index.ts:1142`). `capital` itself refuses the older observation.
- The group's row of `OrderLedger` says less than one may expect, and no property is
  stated of it beyond `EndedIsFlat`. Runs by hand reach three states that a reader may not
  expect: a group CLOSED while the other leg has an open position, which the journal does not
  know yet; a CLOSED group that `trail.placement` or a maintenance run, writing late, makes
  ACTIVE or RECONCILIATION_REQUIRED again, which blocks entries (`index.ts:1213`), although the
  journal "owns the subsequent position/trade/group terminal transition" by the comment at
  `order-maintenance.ts:203`; and a group EXPIRED beside a trade of its first leg, filled and closed
  while a maintenance run was under way.

## Not modelled

Listed in `PROJECT.json` with their reasons. Pure computation without shared state: the scenario
engine and strategy candidates, terminal evidence, performance contexts, and of the risk the
prices, the coverage of fees by the target and the semantic rules of a proposal. I/O and presentation:
market data collection, tokens, the database package, dashboard, logging, offline
Python. Telemetry that no trade depends on: the outbox. Gateways the deployment does not
use: paper, shadow, live-compatible. Partly modelled are the scheduling (a tick may decline for
any reason; the claims of intervals and campaigns are not modelled; a claim that a crash leaves behind
is never analysed, at most once by intent), the operator's entry
recovery (its orphan intents are reached, its proofs are not), the market-data service
(its session only) and the client (its session only; payloads and parsing are not).

## Plan

Done: the gateway, position protection, the recorder, admission with its
refinement, the ledger with order maintenance and recovery, the transport with its refinement, the prices of protection,
the loss limits, the sizing of a setup and the contexts of entries, each with its proofs. What would add most next:

1. A composition of `DemoGateway` and `OrderLedger` over a restart, where the gap of
   `PeerPursued` is closed by order maintenance: a liveness property of both.
2. Redelivered and conflicting executions in `OrderLedger`, with the uniqueness of a deal.
3. `ObservabilityOutbox` (leases and attempts) and the interval claims of the scheduler.
4. The terminal evidence as predicates over a broker history that may be incomplete.
5. A document or a decision on which reason should win when a slippage latch meets another uncertainty; then
   `PeersPursued` without `ClearsItsOwn`; `PursuitKept` names the exception until then.

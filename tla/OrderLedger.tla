------------------------------- MODULE OrderLedger -------------------------------
(***************************************************************************)
(* The rows of one placed pair (or single order): orders, positions,       *)
(* trades and order_groups. Four writers share them and none knows of the  *)
(* others: placement writes the answer of placeOco, safety() writes the    *)
(* report of the gateway's reconcile, order maintenance writes what its    *)
(* cancellations answered, and the execution journal writes each broker    *)
(* execution in its turn. All but the journal write what they read before  *)
(* an await, without a condition on the row.                               *)
(*                                                                         *)
(* The module begins where placeOco returns, its orders accepted. The      *)
(* broker fills, cancels and closes meanwhile, and the gateway cancels the *)
(* peer of a fill: to the rows that is a cancellation like any other.      *)
(***************************************************************************)
EXTENDS Naturals, Sequences, FiniteSets

CONSTANTS Legs,       \* the orders of the group
          NoLeg,
          Volume,     \* the volume of each
          Ends,       \* how an order may end unfilled without maintenance
          Workers,    \* runs of order maintenance that may overlap
          MaxSent,    \* bound on the executions of the broker
          MaxFaults,  \* bound on the requests that fail
          MaxMisses   \* bound on the executions whose persist fails

ASSUME LedgerAssumption ==
  NoLeg \notin Legs /\ IsFiniteSet(Legs) /\ Ends \subseteq {"CANCELLED", "EXPIRED"}
  /\ Volume \in [Legs -> Nat \ {0}] /\ MaxSent \in Nat /\ MaxFaults \in Nat /\ MaxMisses \in Nat

VARIABLES
  live,     \* legs working at the broker
  status,   \* orderStatus at the broker
  done,     \* executedVolume at the broker
  held,     \* the broker's position of a leg
  log,      \* the executions sent by the broker, with what became of them
  row,      \* orders: state, filled_volume, broker_updated_at
  position, \* positions: state, updated_at
  trades,   \* legs whose position has its row in trades
  group,    \* order_groups.state
  placing,  \* placeOco's answer is not written yet
  work,     \* what each run of order maintenance is doing
  recovery, \* what recoverDemoExecutions has read of the broker and not stored yet
  faults, misses

broker == <<live, status, done, held>>
journal == <<row, position, trades, group>>
budget == <<faults, misses>>
vars == <<broker, log, journal, placing, work, recovery, budget>>

Working == {"PENDING", "PARTIALLY_FILLED"}
Ended == {"CANCELLED", "EXPIRED", "REJECTED"}
RowStates == {"INTENT", "PENDING", "PARTIALLY_FILLED", "FILLED", "CANCELLED", "EXPIRED",
              "CANCEL_PENDING"}
Reports == [state : RowStates \ {"INTENT", "CANCEL_PENDING"}, filled : Nat]
Reasons == {"OCO_PEER_FILLED", "OCO_PEER_UNFILLED_TERMINAL", "ANALYSIS_EXPIRED"}
Final == {"CLOSED", "EXPIRED", "FAILED"}
Fates == {"queued", "mapped", "detached", "unmatched", "missed"}

\* stateFromOrder: an order filled in part is PARTIALLY_FILLED, whatever ended it.
Report(l, s, volume) ==
  [state |-> IF volume \in 1 .. Volume[l] - 1 THEN "PARTIALLY_FILLED" ELSE s, filled |-> volume]

Now(l) == Report(l, status[l], done[l])

\* What placeOco answered: both orders accepted.
Accepted == [state |-> "PENDING", filled |-> 0]

Resting == [at |-> "idle", reason |-> "ANALYSIS_EXPIRED", todo |-> {}, leg |-> NoLeg,
            got |-> {}, answer |-> [l \in Legs |-> Accepted], failed |-> FALSE, certain |-> FALSE]
NoRecovery == [deal |-> 0, report |-> Accepted, time |-> 0, opens |-> FALSE]

Init ==
  /\ live = Legs /\ status = [l \in Legs |-> "PENDING"] /\ done = [l \in Legs |-> 0]
  /\ held = [l \in Legs |-> "none"] /\ log = <<>>
  /\ row = [l \in Legs |-> [state |-> "INTENT", filled |-> 0, at |-> 0]]
  /\ position = [l \in Legs |-> [state |-> "none", at |-> 0]] /\ trades = {}
  /\ group = "INTENT_RECORDED"
  /\ placing = TRUE /\ recovery = NoRecovery
  /\ work = [w \in Workers |-> Resting]
  /\ faults = 0 /\ misses = 0

-----------------------------------------------------------------------------
(* The broker *)

Sends(l, report, fill, closes) ==
  log' = Append(log, [leg |-> l, report |-> report, fill |-> fill, closes |-> closes,
                      fate |-> "queued"])

Fills(l, volume) ==
  /\ l \in live /\ volume \in 1 .. Volume[l] - done[l]
  /\ done' = [done EXCEPT ![l] = @ + volume]
  /\ held' = [held EXCEPT ![l] = "open"]
  /\ live' = IF done'[l] = Volume[l] THEN live \ {l} ELSE live
  /\ status' = [status EXCEPT ![l] = IF done'[l] = Volume[l] THEN "FILLED" ELSE @]
  /\ Sends(l, Report(l, status'[l], done'[l]), volume, FALSE)

Stops(l, end) ==
  /\ l \in live /\ live' = live \ {l} /\ status' = [status EXCEPT ![l] = end]
  /\ Sends(l, Report(l, end, done[l]), 0, FALSE)
  /\ UNCHANGED <<done, held>>

\* The stop, the target or a close of the position, after its order ended.
Closes(l) ==
  /\ l \notin live /\ held[l] = "open" /\ held' = [held EXCEPT ![l] = "closed"]
  /\ Sends(l, Now(l), 0, TRUE)
  /\ UNCHANGED <<live, status, done>>

BrokerMoves ==
  /\ Len(log) < MaxSent
  /\ \E l \in Legs :
       \/ \E volume \in 1 .. Volume[l] : Fills(l, volume)
       \/ \E end \in Ends : Stops(l, end)
       \/ Closes(l)
  /\ UNCHANGED <<journal, placing, work, recovery, budget>>

-----------------------------------------------------------------------------
(* The execution journal: DurableDemoExecutionStore.persist *)

Fate(i, fate) == log' = [log EXCEPT ![i].fate = fate]

\* The first n numbers of a sequence, together.
Total(numbers, n) ==
  LET sum[k \in 0 .. n] == IF k = 0 THEN 0 ELSE sum[k - 1] + numbers[k]
  IN  sum[n]

\* The volume of an execution that has its fills row with the position.
Stored(l) ==
  [i \in DOMAIN log |-> IF log[i].leg = l /\ log[i].fate = "mapped" THEN log[i].fill ELSE 0]

\* Volumes of the fills rows of a leg's position.
Recorded(l) == Total(Stored(l), Len(log))

RowsIn(states, rows) == {l \in Legs : rows[l].state \in states}

\* The state of the group after an execution was stored.
Regrouped(rows, positions, traded) ==
  LET closed == {l \in Legs : positions[l].state = "CLOSED"}
      open == {l \in Legs : positions[l].state = "OPEN"}
      waiting == RowsIn({"INTENT", "PENDING"}, rows)
      doubtful == RowsIn({"PARTIALLY_FILLED", "CANCEL_PENDING"}, rows)
      filled == RowsIn({"FILLED"}, rows)
  IN  IF traded # {} /\ open = {} /\ waiting \cup doubtful = {} /\ closed \subseteq traded THEN "CLOSED"
      ELSE IF closed # {} \/ doubtful # {} THEN "RECONCILIATION_REQUIRED"
      ELSE IF filled # {} THEN IF waiting # {} THEN "CANCELLING_PEER" ELSE "POSITION_OPEN"
      ELSE IF waiting # {} THEN "ACTIVE"
      ELSE IF RowsIn({"EXPIRED"}, rows) # {} THEN "EXPIRED"
      ELSE "FAILED"

\* WHERE state NOT IN ('CLOSED','EXPIRED')
Regroups(rows, positions, traded) ==
  group' = IF group \in {"CLOSED", "EXPIRED"} THEN group ELSE Regrouped(rows, positions, traded)

\* The row of an order after a report of the broker's time t: its state by that time,
\* its volume by the greater one.
Updated(r, report, t) ==
  [state |-> IF t >= r.at THEN report.state ELSE r.state,
   filled |-> IF report.filled > r.filled THEN report.filled ELSE r.filled,
   at |-> IF t > r.at THEN t ELSE r.at]

\* Mutant: the position takes the state of whatever execution is stored last.
UpsertedLast(p, t, state) == [state |-> state, at |-> t]

Upserted(p, t, state) == IF t >= p.at THEN [state |-> state, at |-> t] ELSE p

\* An execution i of an order, reported as of time t, with a position or without: then
\* its fill is stored, too, but belongs to no position.
StoresOrder(i, report, t, opens) ==
  LET l == log[i].leg
  IN  /\ ~log[i].closes
      /\ row' = [row EXCEPT ![l] = Updated(@, report, t)]
      /\ position' = IF opens THEN [position EXCEPT ![l] = Upserted(@, t, "OPEN")] ELSE position
      /\ Regroups(row', position', trades)
      /\ Fate(i, IF opens \/ log[i].fill = 0 THEN "mapped" ELSE "detached")
      /\ UNCHANGED trades

\* Mutant: the closed volume is not compared with the fills.
ClosesAny(l, i) == TRUE

\* The closed volume is the volume of the recorded fills.
ClosesRecorded(l, i) == Recorded(l) = log[i].report.filled

\* A close of a known position, with the trade if the fills account for it.
StoresClose(i) ==
  LET l == log[i].leg
  IN  /\ log[i].closes /\ position[l].state # "none"
      /\ position' = [position EXCEPT ![l] = Upserted(@, i, "CLOSED")]
      /\ trades' = IF ClosesRecorded(l, i) THEN trades \cup {l} ELSE trades
      /\ Regroups(row, position', trades')
      /\ Fate(i, "mapped")
      /\ UNCHANGED row

\* A close of no known position: its order is nobody's.
StoresStray(i) ==
  /\ log[i].closes /\ position[log[i].leg].state = "none"
  /\ Fate(i, "unmatched")
  /\ UNCHANGED journal

Persists(i) ==
  StoresOrder(i, log[i].report, i, log[i].fill > 0) \/ StoresClose(i) \/ StoresStray(i)

Queued == {i \in DOMAIN log : log[i].fate = "queued"}

\* The recorder's queue: executions in their order, each stored or failed.
Records ==
  /\ \E i \in Queued :
       /\ \A j \in Queued : i <= j
       /\ \/ Persists(i) /\ UNCHANGED misses
          \/ misses < MaxMisses /\ misses' = misses + 1 /\ Fate(i, "missed") /\ UNCHANGED journal
  /\ UNCHANGED <<broker, placing, work, recovery, faults>>

-----------------------------------------------------------------------------
(* The recovery from the broker's history: recoverDemoExecutions *)

\* The broker's time of an order's last change.
LatestOf(l, t) ==
  /\ log[t].leg = l /\ ~log[t].closes
  /\ \A j \in DOMAIN log : log[j].leg = l /\ ~log[j].closes => j <= t

\* It reads an execution that failed to be stored: a fill, or the end of an order
\* without one, with the order's state of now and its position.
RecoveryReads ==
  /\ recovery.deal = 0 /\ group \notin Final
  /\ \E i, t \in DOMAIN log :
       LET l == log[i].leg
       IN  /\ log[i].fate = "missed" /\ ~log[i].closes /\ (log[i].fill > 0 \/ done[l] = 0)
           /\ LatestOf(l, t)
           /\ recovery' = [deal |-> i, report |-> Now(l), time |-> t,
                            opens |-> held[l] = "open" \/ position[l].state = "OPEN"]
  /\ UNCHANGED <<broker, log, journal, placing, work, budget>>

RecoveryWrites ==
  /\ recovery.deal # 0
  /\ StoresOrder(recovery.deal, recovery.report, recovery.time,
                 recovery.opens /\ log[recovery.deal].fill > 0)
  /\ recovery' = NoRecovery
  /\ UNCHANGED <<broker, placing, work, budget>>

\* The close of a position the journal holds open; the broker's history is final here.
RecoversClose ==
  /\ recovery.deal = 0 /\ group \notin Final
  /\ \E i \in DOMAIN log :
       log[i].fate = "missed" /\ position[log[i].leg].state = "OPEN" /\ StoresClose(i)
  /\ UNCHANGED <<broker, placing, work, recovery, budget>>

-----------------------------------------------------------------------------
(* The writers of older reads *)

\* A report over a row, whatever the row says; broker_updated_at is left alone.
Overwritten(r, report) == [r EXCEPT !.state = report.state, !.filled = report.filled]

\* trail.placement, with what placeOco answered.
PlacementWrites ==
  /\ placing /\ placing' = FALSE
  /\ row' = [l \in Legs |-> Overwritten(row[l], Accepted)]
  /\ group' = "ACTIVE"
  /\ UNCHANGED <<broker, log, position, trades, work, recovery, budget>>

\* The executions that a safety() may have waited for in its flush: those before which
\* nothing is queued.
Flushed == {i \in DOMAIN log : \A j \in Queued : i < j}

\* What its reconcile, before the flush, said of an order: the broker's list of that
\* moment or, of an order it does not list, what the gateway had heard. Calls overlap,
\* so whatever was so by then may be written now.
Said(l) ==
  {Accepted} \cup {log[i].report : i \in {j \in Flushed : log[j].leg = l /\ ~log[j].closes}}

Snapshots ==
  {report \in [Legs -> UNION {Said(l) : l \in Legs}] : \A l \in Legs : report[l] \in Said(l)}

\* The state of the group in trail.reconciliation.
Reconciled(rows) ==
  LET waiting == RowsIn({"INTENT", "PENDING"}, rows)
      filled == RowsIn({"FILLED"}, rows)
  IN  IF RowsIn({"PARTIALLY_FILLED", "CANCEL_PENDING"}, rows) # {} THEN "RECONCILIATION_REQUIRED"
      ELSE IF filled # {} THEN IF waiting # {} THEN "RECONCILIATION_REQUIRED" ELSE "POSITION_OPEN"
      ELSE IF waiting # {} THEN "ACTIVE"
      ELSE IF RowsIn({"EXPIRED"}, rows) # {} THEN "EXPIRED"
      ELSE "FAILED"

Doubted(state, certain) == IF state \in Final \/ certain THEN state ELSE "RECONCILIATION_REQUIRED"

\* safety(): the reconcile, the flush and, over whatever the rows say by now,
\* trail.reconciliation; the report was certain or not.
SafetyWrites ==
  /\ \E report \in Snapshots : row' = [l \in Legs |-> Overwritten(row[l], report[l])]
  /\ \E certain \in BOOLEAN :
       group' = Doubted(IF group \in Final THEN group ELSE Reconciled(row'), certain)
  /\ UNCHANGED <<broker, log, position, trades, placing, work, recovery, budget>>

-----------------------------------------------------------------------------
(* Order maintenance: expireAndReconcile, cancelAll and #cancelRows *)

\* Mutant: an order filled in part counts as its own peer.
FilledPeerOrItself ==
  {l \in RowsIn(Working \cup {"CANCEL_PENDING"}, row) :
     \E peer \in Legs :
       row[peer].state \in {"FILLED", "PARTIALLY_FILLED"} \/ row[peer].filled > 0}

\* Orders whose peer is filled, at least in part.
FilledPeer ==
  {l \in RowsIn(Working \cup {"CANCEL_PENDING"}, row) :
     \E peer \in Legs \ {l} :
       row[peer].state \in {"FILLED", "PARTIALLY_FILLED"} \/ row[peer].filled > 0}

\* No position and no fill of the group is recorded.
Unfilled ==
  /\ \A l \in Legs : position[l].state = "none"
  /\ \A i \in DOMAIN log : log[i].fate \in {"mapped", "detached"} => log[i].fill = 0

\* Orders without a fill whose peer the broker ended without one, by the row and by an
\* execution in the journal.
IncompletePair ==
  IF group \in Final \/ Cardinality(Legs) # 2 \/ ~Unfilled THEN {}
  ELSE {l \in RowsIn({"PENDING", "CANCEL_PENDING"}, row) :
          /\ row[l].filled = 0
          /\ \E peer \in Legs \ {l} :
               /\ row[peer].state \in Ended /\ row[peer].filled = 0
               /\ \E i \in DOMAIN log : log[i].leg = peer /\ log[i].fate = "mapped"
                                        /\ log[i].report.state = row[peer].state}

Selected(reason) ==
  CASE reason = "OCO_PEER_FILLED" -> FilledPeer
    [] reason = "OCO_PEER_UNFILLED_TERMINAL" -> IncompletePair
    [] OTHER -> RowsIn({"INTENT", "CANCEL_PENDING"} \cup Working, row)

\* One of the selects, when it finds rows: the GTD expiry or a stop may come at any time.
Selects(w) ==
  /\ work[w].at = "idle"
  /\ \E reason \in Reasons :
       /\ Selected(reason) # {}
       /\ work' = [work EXCEPT ![w] = [Resting EXCEPT !.at = "marking", !.reason = reason,
                                                      !.todo = Selected(reason)]]
  /\ UNCHANGED <<broker, log, journal, placing, recovery, budget>>

\* Mutant: the row is written as cancelled before the broker has cancelled.
MarkedCancelled(r) == [r EXCEPT !.state = "CANCELLED"]

Marked(r) == [r EXCEPT !.state = "CANCEL_PENDING"]

\* A row in turn: CANCEL_PENDING, then the request.
Marks(w) ==
  /\ work[w].at = "marking" /\ work[w].todo # {}
  /\ \E l \in work[w].todo :
       /\ row' = [row EXCEPT ![l] = Marked(@)]
       /\ work' = [work EXCEPT ![w].at = "cancelling", ![w].leg = l, ![w].todo = @ \ {l}]
  /\ UNCHANGED <<broker, log, position, trades, group, placing, recovery, budget>>

Answered(w, report) ==
  work' = [work EXCEPT ![w].at = "marking", ![w].leg = NoLeg,
             ![w].got = @ \cup {work[w].leg}, ![w].answer[work[w].leg] = report]

\* cancelStrategyOrder cancels a working order; or finds it ended, as the gateway knows.
Cancels(w) ==
  /\ work[w].at = "cancelling"
  /\ LET l == work[w].leg
     IN  IF l \in live
         THEN /\ Stops(l, "CANCELLED") /\ Answered(w, Report(l, "CANCELLED", done[l]))
         ELSE /\ Now(l).state \notin Working /\ Answered(w, Now(l))
              /\ UNCHANGED <<broker, log>>
  /\ UNCHANGED <<journal, placing, recovery, budget>>

\* It throws: the request fails, or finds at the broker no working order, where the
\* gateway has not heard of its end or holds it for filled in part.
CancelFails(w) ==
  /\ work[w].at = "cancelling"
  /\ work' = [work EXCEPT ![w].at = "marking", ![w].leg = NoLeg, ![w].failed = TRUE]
  /\ IF work[w].leg \in live THEN faults < MaxFaults /\ faults' = faults + 1
                             ELSE UNCHANGED faults
  /\ UNCHANGED <<broker, log, journal, placing, recovery, misses>>

\* Mutant: the broker's positions are not counted.
CertainFlatOrNot(w) ==
  work[w].reason # "OCO_PEER_FILLED" /\ ~work[w].failed
  /\ \A l \in Legs : Now(l).state \notin Working

\* What the gateway's reconcile says of the group's end.
Certain(w) ==
  /\ work[w].reason # "OCO_PEER_FILLED" /\ ~work[w].failed
  /\ \A l \in Legs : Now(l).state \notin Working /\ held[l] # "open"

\* After the last row, reconcile; an uncertainty of the gateway, or a failure, forbids.
Reconciles(w) ==
  /\ work[w].at = "marking" /\ work[w].todo = {}
  /\ \E certain \in {FALSE, Certain(w)} :
       work' = [work EXCEPT ![w].at = "writing", ![w].failed = FALSE, ![w].certain = certain]
  /\ UNCHANGED <<broker, log, journal, placing, recovery, budget>>

\* The answers over their rows, one by one.
WritesRow(w) ==
  /\ work[w].at = "writing"
  /\ \E l \in work[w].got :
       /\ row' = [row EXCEPT ![l] = Overwritten(@, work[w].answer[l])]
       /\ work' = [work EXCEPT ![w].got = @ \ {l}, ![w].answer[l] = Accepted]
  /\ UNCHANGED <<broker, log, position, trades, group, placing, recovery, budget>>

\* The journal, too, must hold no fill when a pair ends unfilled.
EndsUnfilled == Unfilled /\ \A l \in Legs : row[l].state \in Ended /\ row[l].filled = 0

\* The group last, whatever its state is now. (The reasons are kept apart from
\* executions of other groups, which may make the second query uncertain.)
WritesGroup(w) ==
  /\ work[w].at = "writing" /\ work[w].got = {}
  /\ LET unfilled == work[w].reason = "OCO_PEER_UNFILLED_TERMINAL"
     IN  group' = IF ~work[w].certain \/ (unfilled /\ ~EndsUnfilled) THEN "RECONCILIATION_REQUIRED"
                  ELSE IF unfilled THEN "FAILED" ELSE "EXPIRED"
  /\ work' = [work EXCEPT ![w] = Resting]
  /\ UNCHANGED <<broker, log, row, position, trades, placing, recovery, budget>>

Maintains(w) ==
  Selects(w) \/ Marks(w) \/ Cancels(w) \/ CancelFails(w) \/ Reconciles(w) \/ WritesRow(w) \/ WritesGroup(w)

Recovers == RecoveryReads \/ RecoveryWrites \/ RecoversClose

Next ==
  \/ BrokerMoves \/ Records \/ Recovers \/ PlacementWrites \/ SafetyWrites
  \/ \E w \in Workers : Maintains(w)

Spec == Init /\ [][Next]_vars

-----------------------------------------------------------------------------
(* Properties *)

TypeOK ==
  /\ live \subseteq Legs /\ status \in [Legs -> {"PENDING", "FILLED", "CANCELLED", "EXPIRED"}]
  /\ done \in [Legs -> Nat] /\ held \in [Legs -> {"none", "open", "closed"}]
  /\ log \in Seq([leg : Legs, report : Reports, fill : Nat, closes : BOOLEAN, fate : Fates])
  /\ row \in [Legs -> [state : RowStates, filled : Nat, at : Nat]]
  /\ position \in [Legs -> [state : {"none", "OPEN", "CLOSED"}, at : Nat]]
  /\ trades \subseteq Legs
  /\ group \in Final \cup {"INTENT_RECORDED", "ACTIVE", "CANCELLING_PEER", "POSITION_OPEN",
                          "RECONCILIATION_REQUIRED"}
  /\ placing \in BOOLEAN
  /\ work \in [Workers -> [at : {"idle", "marking", "cancelling", "writing"}, reason : Reasons,
                           todo : SUBSET Legs, leg : Legs \cup {NoLeg},
                           got : SUBSET Legs, answer : [Legs -> Reports],
                           failed : BOOLEAN, certain : BOOLEAN]]
  /\ recovery \in [deal : Nat, report : Reports, time : Nat, opens : BOOLEAN]
  /\ faults \in 0 .. MaxFaults /\ misses \in 0 .. MaxMisses

\* What is said of an order was so at the broker, now or earlier.
Lags(l, said) ==
  /\ said.filled <= done[l]
  /\ said.state \in Ended \cup {"FILLED"} => l \notin live /\ said.state = Now(l).state
  /\ said.state = "PARTIALLY_FILLED" => done[l] > 0

\* The rows may lag behind the broker and never lead it: no writer, however old what
\* it read, lets a row say of an order a fill or an end that did not happen, which is
\* what maintenance cancels the peer for.
RowsNeverLead == \A l \in Legs : Lags(l, row[l])

\* A group that is EXPIRED or FAILED is over at the broker, too: no order of it works
\* and no position of it is open, although neither the journal nor safety() asks the
\* broker when they write the state, and later writers leave it.
EndedIsFlat ==
  group \in {"EXPIRED", "FAILED"} => live = {} /\ \A l \in Legs : held[l] # "open"

\* A trade stands for all that was filled: the close is not turned into a trade while
\* a fill of the position is missing in the journal.
TradesComplete ==
  \A l \in trades : held[l] = "closed" /\ Recorded(l) = done[l]

\* A recovery that read the broker before the close was stored does not open the
\* position again in the journal.
ClosedStays ==
  [][\A l \in Legs : position[l].state = "CLOSED" => position'[l].state = "CLOSED"]_vars

\* "GTC preserves an intact pair": maintenance, on account of its peer, cancels no
\* order whose peer is still working unfilled, however old the rows it selects by.
IntactPairKept ==
  [][\A w \in Workers :
       work[w].at = "idle" /\ work'[w].at = "marking" /\ work'[w].reason # "ANALYSIS_EXPIRED" =>
         \A l \in work'[w].todo : \E peer \in Legs \ {l} : done[peer] > 0 \/ peer \notin live]_vars

===============================================================================

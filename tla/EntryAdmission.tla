---------------------------- MODULE EntryAdmission ----------------------------
(***************************************************************************)
(* AnalysisCoordinator.runOnce, from the scheduler or the control API:     *)
(* three passes of safety(), each an await after the other, the analysis   *)
(* between them, and the admission that records an intent and sends it.    *)
(* Rows of the journal are written by all of them, from what they read     *)
(* earlier; the process may crash anywhere, the database may refuse, and   *)
(* the operator stops, pauses or changes the entry mode at any time.       *)
(*                                                                         *)
(* One group stands for the analysis, its orders and its position, and for *)
(* their rows: "open" while one of them counts for safety(), "over" when   *)
(* none does, as for a filled order whose position is not stored yet.      *)
(***************************************************************************)
EXTENDS Naturals, FiniteSets

CONSTANTS Groups,       \* the analyses that may be run, numbered as they are started,
                        \* each with its order group
          NoGroup,
          Callers,      \* concurrent calls that may run a cycle
          Schedulers,   \* the ones of the scheduler; the others come by the API
          Nobody

ASSUME AdmissionAssumption ==
  /\ Groups \subseteq Nat /\ NoGroup \notin Groups /\ Nobody \notin Callers
  /\ Schedulers \subseteq Callers

VARIABLES
  up,       \* the process is past its startup
  running,  \* the caller that holds EntryModeCoordinator's #running
  at, step, \* where a caller is, and in which part of safety()
  group,    \* the analysis a caller runs
  outdated, \* callers whose cycle runs under an entry mode that was changed since
  seen,     \* safety(): the gateway's report, written to the journal later
  clear,    \* nothing that safety(), or the account after it, has read so far forbids
            \* an entry
  result,   \* placeOco's answer, written to the journal later
  known,    \* groups the gateway of this process tracks
  run,      \* analysis_runs.state
  row,      \* the order rows of a group
  broker,   \* the broker's side of a group
  stop,     \* an emergency stop or a pause is set
  overruled \* history: callers against which the operator had decided at their refresh

data == <<running, group, outdated, seen, clear, result>>
calls == <<at, step, data>>
journal == <<run, row>>
vars == <<up, calls, known, journal, broker, stop, overruled>>

\* Where safety() is called, and the stages of a cycle that hold #running.
Gates == {"gate", "preflight", "final"}
BeforeStart == {"preflight", "starting"}
Started == {"collecting", "collected", "featured", "modelling", "validating", "final",
            "refresh", "controls", "intending", "placing", "awaiting", "placed", "accepting"}
Cycle == BeforeStart \cup Started
Stages == {"idle", "gate", "due"} \cup Cycle

\* analysis_runs.state, PENDING being the state trail.start writes. "ended": REJECTED,
\* DEFERRED or EXPIRED; or ACCEPTED, whose valid_until is stored.
Interrupted == {"PENDING", "COLLECTING", "FEATURED", "MODEL_PENDING", "VALIDATING"}
Runs == {"none", "ended"} \cup Interrupted
Reports == {"absent", "open", "filled", "over"}

Absent == [g \in Groups |-> "absent"]

Init ==
  /\ up = TRUE /\ running = Nobody /\ known = {}
  /\ at = [c \in Callers |-> "idle"] /\ step = [c \in Callers |-> "none"]
  /\ group = [c \in Callers |-> NoGroup] /\ outdated = {}
  /\ seen = [c \in Callers |-> Absent]
  /\ clear = [c \in Callers |-> FALSE] /\ result = [c \in Callers |-> "absent"]
  /\ run = [g \in Groups |-> "none"]
  /\ row = [g \in Groups |-> "none"] /\ broker = [g \in Groups |-> "none"]
  /\ stop = FALSE /\ overruled = {}

\* An analysis that counts as active whatever the time is: no valid_until is stored.
\* (One that has it counts or not by the clock.)
Blocks(g) == run[g] \in {"PENDING", "COLLECTING", "FEATURED", "MODEL_PENDING"}
\* Groups on their way to the broker, or working there.
Exposed == {g \in Groups : broker[g] \in {"sent", "live"}}

Goes(c, stage) ==
  /\ at' = [at EXCEPT ![c] = stage]
  /\ step' = [step EXCEPT ![c] = IF stage \in Gates THEN "read" ELSE "none"]

\* runOnce returns or throws: #running is released.
Leaves(c) ==
  /\ Goes(c, "idle") /\ running' = Nobody
  /\ group' = [group EXCEPT ![c] = NoGroup] /\ outdated' = outdated \ {c}
  /\ clear' = [clear EXCEPT ![c] = FALSE] /\ result' = [result EXCEPT ![c] = "absent"]
  /\ overruled' = overruled \ {c}

-----------------------------------------------------------------------------
(* safety() *)

\* What the gateway may say of a group: an order on its way is UNKNOWN if this
\* process sent it; the end of an order it tracks reaches it late.
Reported(g) ==
  CASE broker[g] = "live" -> {"open", "filled"}
    [] broker[g] = "sent" -> IF g \in known THEN {"open"} ELSE {"absent"}
    [] broker[g] = "over" /\ g \in known -> {"absent", "open", "over"}
    [] OTHER -> {"absent"}

\* The controls and the gateway's reconcile, nothing written yet.
SafetyReads(c) ==
  /\ step[c] = "read"
  /\ step' = [step EXCEPT ![c] = "write"]
  /\ clear' = [clear EXCEPT ![c] = ~stop]
  /\ \E report \in [Groups -> Reports] :
       /\ \A g \in Groups : report[g] \in Reported(g)
       /\ seen' = [seen EXCEPT ![c] = report]
  /\ UNCHANGED <<up, running, at, group, outdated, result, known, journal, broker, stop,
                 overruled>>

\* What a report leaves of the rows: the position of a filled order is for the recorder.
Stored(report) == IF report = "open" THEN "open" ELSE "over"

\* What the report allows, and what was read before it.
Heeds(c) ==
  /\ clear' = [clear EXCEPT ![c] = @ /\ \A g \in Groups : seen[c][g] \notin {"open", "filled"}]
  /\ seen' = [seen EXCEPT ![c] = Absent]

\* trail.reconciliation: the rows take the states read before, without a condition.
\* (Its failure, and any other doubt, refuses: see Refuses.)
SafetyWrites(c) ==
  /\ step[c] = "write"
  /\ step' = [step EXCEPT ![c] = "count"]
  /\ row' = [g \in Groups |-> IF seen[c][g] = "absent" \/ row[g] = "none"
                              THEN row[g] ELSE Stored(seen[c][g])]
  /\ Heeds(c)
  /\ UNCHANGED <<up, running, at, group, outdated, result, known, run, broker, stop,
                 overruled>>

\* Mutant: the gateway's report is enough, the journal's rows are not counted.
ObstructedAtBroker(c) ==
  \/ ~clear[c]
  \/ at[c] # "final" /\ \E g \in Groups : Blocks(g)

\* The gates on what was read and on what the journal counts; the analysis in hand
\* is itself active at the final one.
Obstructed(c) ==
  \/ ~clear[c]
  \/ \E g \in Groups : row[g] = "open"
  \/ at[c] # "final" /\ \E g \in Groups : Blocks(g)

\* The scheduler needs the gates open; the API only reads the status.
SafetyAnswers(c) ==
  /\ step[c] = "count"
  /\ \/ /\ at[c] = "gate" /\ clear' = [clear EXCEPT ![c] = FALSE]
        /\ \/ Goes(c, "idle")
           \/ (Obstructed(c) => c \notin Schedulers) /\ Goes(c, "due")
        /\ UNCHANGED <<running, group, outdated, result, overruled>>
     \/ /\ at[c] = "preflight" /\ ~Obstructed(c) /\ clear' = [clear EXCEPT ![c] = FALSE]
        /\ Goes(c, "starting") /\ UNCHANGED <<running, group, outdated, result, overruled>>
     \/ at[c] = "preflight" /\ Obstructed(c) /\ Leaves(c)
     \/ /\ at[c] = "final" /\ clear' = [clear EXCEPT ![c] = ~Obstructed(c)]
        /\ Goes(c, "refresh") /\ UNCHANGED <<running, group, outdated, result, overruled>>
  /\ UNCHANGED <<up, seen, known, journal, broker, stop>>

-----------------------------------------------------------------------------
(* The cycle *)

\* The scheduler's tick, or a request: both call safety() first.
Calls(c) ==
  /\ up /\ at[c] = "idle" /\ Goes(c, "gate")
  /\ UNCHANGED <<up, data, known, journal, broker, stop, overruled>>

\* EntryModeCoordinator.runOnce: one cycle at a time, under the mode it reads.
RunsOnce(c) ==
  /\ at[c] = "due" /\ running = Nobody
  /\ Goes(c, "preflight") /\ running' = c
  /\ UNCHANGED <<up, group, outdated, seen, clear, result, known, journal, broker, stop,
                 overruled>>

\* ANALYSIS_CYCLE_ALREADY_RUNNING; or the campaign, the window, the claim of the
\* interval or a fault keeps the scheduler from it.
Declines(c) ==
  /\ at[c] = "due" /\ Goes(c, "idle")
  /\ UNCHANGED <<up, data, known, journal, broker, stop, overruled>>

Moves(c, from, to) == at[c] = from /\ Goes(c, to)

\* recordTransition: AnalysisStateMachine and trail.transition.
Transits(c, from, to, state) ==
  /\ Moves(c, from, to) /\ run' = [run EXCEPT ![group[c]] = state]
  /\ UNCHANGED <<up, data, known, row, broker, stop, overruled>>

\* trail.start: the session is open, a run is stored as PENDING.
Starts(c) ==
  /\ Moves(c, "starting", "collecting")
  /\ \E g \in Groups : /\ run[g] = "none" /\ \A h \in Groups : h < g => run[h] # "none"
                       /\ group' = [group EXCEPT ![c] = g]
                       /\ run' = [run EXCEPT ![g] = "PENDING"]
  /\ UNCHANGED <<up, running, outdated, seen, clear, result, known, row, broker, stop,
                 overruled>>

Collects(c) == Transits(c, "collecting", "collected", "COLLECTING")

\* The market, the analytics, the spread and the account's constraints pass.
Features(c) == Transits(c, "collected", "featured", "FEATURED")

\* The provider's prompt is built, the session open; the model is asked.
Asks(c) == Transits(c, "featured", "modelling", "MODEL_PENDING")

\* The answer and its valid_until are stored.
Validates(c) == Transits(c, "modelling", "validating", "VALIDATING")

\* model.prepare waits for a plan: the cycle ends without an entry.
Defers(c) ==
  /\ at[c] = "featured" /\ run' = [run EXCEPT ![group[c]] = "ended"] /\ Leaves(c)
  /\ UNCHANGED <<up, seen, known, row, broker, stop>>

\* The decision market, the semantics, the exit policy and the risk pass.
Decides(c) ==
  /\ Moves(c, "validating", "final")
  /\ UNCHANGED <<up, data, known, journal, broker, stop, overruled>>

\* What the operator decided, and has not taken back, when the market is refreshed.
Overruled(c) == stop \/ c \in outdated

\* The account, then the market and the semantics again.
Refreshes(c) ==
  /\ Moves(c, "refresh", "controls")
  /\ clear' = [clear EXCEPT ![c] = @ /\ \A g \in Groups : broker[g] # "live"]
  /\ overruled' = IF Overruled(c) THEN overruled \cup {c} ELSE overruled \ {c}
  /\ UNCHANGED <<up, running, group, outdated, seen, result, known, journal, broker,
                 stop>>

\* Mutant: the controls of the final safety() are trusted.
AdmitsUnread(c) ==
  /\ clear[c] /\ Moves(c, "controls", "intending")
  /\ UNCHANGED <<up, data, known, journal, broker, stop, overruled>>

\* placementControls are read once more, and the placement gate is evaluated.
Admits(c) ==
  /\ clear[c] /\ ~stop /\ c \notin outdated /\ Moves(c, "controls", "intending")
  /\ UNCHANGED <<up, data, known, journal, broker, stop, overruled>>

\* Mutant: the intent is left to the journal's next write.
IntendsNothing(c) ==
  /\ Moves(c, "intending", "placing")
  /\ UNCHANGED <<up, data, known, journal, broker, stop, overruled>>

\* trail.intent: the group and its INTENT rows, in one transaction.
Intends(c) ==
  /\ Moves(c, "intending", "placing") /\ row' = [row EXCEPT ![group[c]] = "open"]
  /\ UNCHANGED <<up, data, known, run, broker, stop, overruled>>

\* The gateway hands the entry to the transport.
Sends(c) ==
  /\ Moves(c, "placing", "awaiting")
  /\ broker' = [broker EXCEPT ![group[c]] = "sent"] /\ known' = known \cup {group[c]}
  /\ UNCHANGED <<up, data, journal, stop, overruled>>

\* The gateway rejects every order itself: the session is closed.
RejectsLocally(c) ==
  /\ Moves(c, "placing", "placed") /\ result' = [result EXCEPT ![c] = "over"]
  /\ UNCHANGED <<up, running, group, outdated, seen, clear, known, journal, broker, stop,
                 overruled>>

\* Its answer: rejected by the broker, or working, filled or UNKNOWN.
Answers(c) ==
  /\ Moves(c, "awaiting", "placed")
  /\ \E r \in {"open", "filled", "over"} :
       /\ r = "over" => broker[group[c]] = "over"
       /\ r = "filled" => broker[group[c]] # "sent"
       /\ result' = [result EXCEPT ![c] = r]
  /\ UNCHANGED <<up, running, group, outdated, seen, clear, known, journal, broker, stop,
                 overruled>>

\* trail.placement writes that answer over the rows.
Places(c) ==
  /\ Moves(c, "placed", "accepting") /\ row' = [row EXCEPT ![group[c]] = Stored(result[c])]
  /\ UNCHANGED <<up, data, known, run, broker, stop, overruled>>

Accepts(c) ==
  /\ at[c] = "accepting" /\ run' = [run EXCEPT ![group[c]] = "ended"] /\ Leaves(c)
  /\ UNCHANGED <<up, seen, known, row, broker, stop>>

\* Any gate, and any await that throws: the analysis, once started, is rejected,
\* unless the database refuses that too.
Refuses(c) ==
  /\ at[c] \in Cycle /\ Leaves(c)
  /\ seen' = [seen EXCEPT ![c] = Absent]
  /\ \/ UNCHANGED run
     \/ at[c] \in Started /\ run' = [run EXCEPT ![group[c]] = "ended"]
  /\ UNCHANGED <<up, known, row, broker, stop>>

-----------------------------------------------------------------------------
(* The journal's other writers, the broker, the operator and the process *)

\* The recorder stores the position of a fill.
Projects(g) ==
  /\ broker[g] = "live" /\ row[g] = "over" /\ row' = [row EXCEPT ![g] = "open"]
  /\ UNCHANGED <<up, calls, known, run, broker, stop, overruled>>

\* Order maintenance, or the recorder, stores the end of a group's orders and position.
Settles(g) ==
  /\ broker[g] = "over" /\ row[g] = "open" /\ row' = [row EXCEPT ![g] = "over"]
  /\ UNCHANGED <<up, calls, known, run, broker, stop, overruled>>

\* The broker takes the entry; or refuses it, or the connection loses it; or it ends.
BrokerMoves(g) ==
  /\ \/ broker[g] = "sent" /\ broker' = [broker EXCEPT ![g] = "live"]
     \/ broker[g] \in {"sent", "live"} /\ broker' = [broker EXCEPT ![g] = "over"]
  /\ UNCHANGED <<up, calls, known, journal, stop, overruled>>

\* A stop or a pause is set or lifted: what is lifted overrules nobody any more.
Stops ==
  /\ stop' = ~stop
  /\ overruled' = IF stop THEN overruled \cap outdated ELSE overruled
  /\ UNCHANGED <<up, calls, known, journal, broker>>

\* EntryModeStore.select: a new revision.
Selects ==
  /\ outdated' = {c \in Callers : at[c] \in Cycle}
  /\ UNCHANGED <<up, running, at, step, group, seen, clear, result, known, journal,
                 broker, stop, overruled>>

\* The process dies: what it held in memory is gone, what it sent is not.
Crashes ==
  /\ up /\ up' = FALSE /\ running' = Nobody /\ known' = {}
  /\ at' = [c \in Callers |-> "idle"] /\ step' = [c \in Callers |-> "none"]
  /\ group' = [c \in Callers |-> NoGroup] /\ outdated' = {}
  /\ seen' = [c \in Callers |-> Absent]
  /\ clear' = [c \in Callers |-> FALSE] /\ result' = [c \in Callers |-> "absent"]
  /\ overruled' = {}
  /\ UNCHANGED <<journal, broker, stop>>

\* Mutant: only the runs that reached the model are recovered.
RestartsLate ==
  /\ ~up /\ up' = TRUE
  /\ run' = [g \in Groups |-> IF run[g] \in {"MODEL_PENDING", "VALIDATING"} THEN "ended"
                              ELSE run[g]]
  /\ UNCHANGED <<calls, known, row, broker, stop, overruled>>

\* trail.recoverInterruptedAnalyses, before anything else runs.
Restarts ==
  /\ ~up /\ up' = TRUE
  /\ run' = [g \in Groups |-> IF run[g] \in Interrupted THEN "ended" ELSE run[g]]
  /\ UNCHANGED <<calls, known, row, broker, stop, overruled>>

-----------------------------------------------------------------------------
Safety(c) == SafetyReads(c) \/ SafetyWrites(c) \/ SafetyAnswers(c)
Advances(c) ==
  \/ Starts(c) \/ Collects(c) \/ Features(c) \/ Asks(c) \/ Defers(c) \/ Validates(c)
  \/ Decides(c) \/ Refreshes(c) \/ Admits(c) \/ Intends(c) \/ Sends(c) \/ RejectsLocally(c)
  \/ Answers(c) \/ Places(c) \/ Accepts(c) \/ Refuses(c)

Next ==
  \/ \E c \in Callers : Calls(c) \/ RunsOnce(c) \/ Declines(c) \/ Safety(c) \/ Advances(c)
  \/ \E g \in Groups : Projects(g) \/ Settles(g) \/ BrokerMoves(g)
  \/ Stops \/ Selects \/ Crashes \/ Restarts

\* Every await of a call answers or throws in the end; a process that died is
\* started again.
Fairness ==
  /\ \A c \in Callers : WF_vars(Safety(c) \/ RunsOnce(c) \/ Declines(c) \/ Advances(c))
  /\ WF_vars(Restarts)

Spec == Init /\ [][Next]_vars /\ Fairness

-----------------------------------------------------------------------------
TypeOK ==
  /\ up \in BOOLEAN /\ stop \in BOOLEAN
  /\ running \in Callers \cup {Nobody} /\ known \subseteq Groups
  /\ at \in [Callers -> Stages] /\ step \in [Callers -> {"none", "read", "write", "count"}]
  /\ group \in [Callers -> Groups \cup {NoGroup}] /\ outdated \subseteq Callers
  /\ clear \in [Callers -> BOOLEAN]
  /\ seen \in [Callers -> [Groups -> Reports]] /\ result \in [Callers -> Reports]
  /\ run \in [Groups -> Runs]
  /\ row \in [Groups -> {"none", "open", "over"}]
  /\ broker \in [Groups -> {"none", "sent", "live", "over"}]
  /\ overruled \subseteq Callers

\* Whatever is on its way to the broker is counted by the journal, in every state a crash
\* may leave: nothing else knows of it (trail.intent before the gateway; the rows that
\* trail.reconciliation, trail.placement and maintenance write from older reads).
Covered == \A g \in Groups : broker[g] = "sent" => row[g] = "open"

\* Admission keeps the promise of EntryPromise: one entry at a time, each sent once.
Promise == INSTANCE EntryPromise WITH
  fresh <- {g \in Groups : broker[g] = "none"}, live <- Exposed
KeepsPromise == Promise!Spec

\* "a pause/emergency arriving during the market refresh still blocks orders"
\* (coordinator.ts:1538), and so does a changed entry mode: an entry is never sent
\* against what the operator decided by the end of the refresh and never took back.
OperatorObeyed == [][\A c \in overruled : ~Sends(c)]_vars

\* No cycle holds #running for ever, whatever throws in it; and while the process is
\* restarted now and then, no run that a fault left active blocks the entries for ever
\* (trail.recoverInterruptedAnalyses).
AnalysesEnd ==
  /\ running # Nobody ~> running = Nobody
  /\ []<>~up => \A g \in Groups : Blocks(g) ~> ~Blocks(g)

\* "preventing a process/database fault from creating a permanent
\* PREVIOUS_ANALYSIS_ACTIVE loop" (docs/implementation-report.md:2178).
NoPermanentLoop == \A g \in Groups : Blocks(g) ~> ~Blocks(g)
=============================================================================

------------------------- MODULE EntryAdmissionProofs -------------------------
(***************************************************************************)
(* Proofs about EntryAdmission, for any number of analyses and callers:    *)
(* types; that what is sent is a counted row; that admission implements   *)
(* EntryPromise; that no entry is sent against the operator; and who       *)
(* leaves an analysis active.                                              *)
(***************************************************************************)
EXTENDS EntryAdmission, TLAPS

\* #running is held by the one caller that is in a cycle.
Locked == \A c \in Callers : at[c] \in Cycle <=> running = c

\* Only a gate is in the middle of safety().
Stepping == \A c \in Callers : step[c] # "none" => at[c] \in Gates

\* A cycle past trail.start has a group of its own, whose run is stored.
Chosen == \A c \in Callers :
            at[c] \in Started => group[c] \in Groups /\ run[group[c]] # "none"

\* The stages of a cycle that has sent nothing yet.
Unplaced == Started \ {"awaiting", "placed", "accepting"}

\* No entry was sent for a run that is not stored, nor for the run of such a cycle.
Unsent ==
  /\ \A g \in Groups : run[g] = "none" => broker[g] = "none"
  /\ \A c \in Callers : at[c] \in Unplaced => broker[group[c]] = "none"

\* A report names what was sent, and a fill or an end it reports has happened.
Reporting ==
  \A c \in Callers : \A g \in Groups :
    /\ seen[c][g] # "absent" => broker[g] # "none"
    /\ seen[c][g] \in {"filled", "over"} => broker[g] # "sent"

\* So does the gateway's answer to the entry.
Answered ==
  \A c \in Callers : at[c] = "placed" /\ result[c] # "open" => broker[group[c]] # "sent"

\* The stages from the account read to the send.
Lonely(c) == (at[c] = "controls" /\ clear[c]) \/ at[c] \in {"intending", "placing"}

\* What the final safety() found, and then the account, stays true until the entry is sent.
Alone ==
  \A c \in Callers :
    /\ at[c] = "refresh" /\ clear[c] => \A g \in Groups : broker[g] # "sent"
    /\ Lonely(c) => Exposed = {}

Intended == \A c \in Callers : at[c] = "placing" => row[group[c]] = "open"

\* A caller the operator overruled is still before the last read of the controls.
Overruling == \A c \in overruled : at[c] = "controls" /\ Overruled(c)

AdmissionInv ==
  /\ TypeOK /\ Covered
  /\ Locked /\ Stepping /\ Chosen /\ Unsent /\ Reporting /\ Answered /\ Alone /\ Intended /\ Overruling

-----------------------------------------------------------------------------
(* Types *)

LEMMA StagesApart ==
  /\ Gates \subseteq Stages /\ Cycle \subseteq Stages /\ Started \subseteq Cycle
  /\ Unplaced \subseteq Started /\ "starting" \in Cycle
  BY DEF Gates, Stages, Cycle, Started, BeforeStart, Unplaced

LEMMA GoesTyped ==
  ASSUME TypeOK, NEW c \in Callers, NEW s \in Stages, Goes(c, s)
  PROVE  /\ at' \in [Callers -> Stages]
         /\ step' \in [Callers -> {"none", "read", "write", "count"}]
         /\ at'[c] = s /\ \A d \in Callers \ {c} : at'[d] = at[d]
  BY DEF TypeOK, Goes

LEMMA AbsentTyped == Absent \in [Groups -> Reports]
  BY DEF Absent, Reports

LEMMA LeavesTyped ==
  ASSUME TypeOK, NEW c \in Callers, Leaves(c)
  PROVE  /\ at' \in [Callers -> Stages]
         /\ step' \in [Callers -> {"none", "read", "write", "count"}]
         /\ running' = Nobody /\ group' \in [Callers -> Groups \cup {NoGroup}]
         /\ outdated' \subseteq Callers /\ clear' \in [Callers -> BOOLEAN]
         /\ result' \in [Callers -> Reports] /\ overruled' \subseteq Callers
         /\ at'[c] = "idle" /\ \A d \in Callers \ {c} : at'[d] = at[d]
<1>1. "idle" \in Stages
  BY DEF Stages
<1>2. Goes(c, "idle")
  BY DEF Leaves
<1> QED
  BY <1>1, <1>2, GoesTyped DEF Leaves, TypeOK, Reports

LEMMA InitInv == Init => AdmissionInv
<1> SUFFICES ASSUME Init PROVE AdmissionInv
  OBVIOUS
<1>1. TypeOK
  BY AbsentTyped DEF Init, TypeOK, Stages, Runs, Reports
<1>2. Exposed = {} /\ Covered
  BY DEF Init, Covered, Exposed
<1>3. Locked /\ Stepping /\ Chosen /\ Unsent /\ Answered /\ Intended /\ Overruling
  BY AdmissionAssumption
  DEF Init, Locked, Stepping, Chosen, Unsent, Answered, Intended, Overruling,
      Cycle, BeforeStart, Started, Unplaced
<1>4. Reporting /\ Alone
  BY DEF Init, Reporting, Alone, Lonely, Absent
<1> QED BY <1>1, <1>2, <1>3, <1>4 DEF AdmissionInv

LEMMA SafetyTyped ==
  ASSUME TypeOK, NEW c \in Callers, Safety(c)
  PROVE  TypeOK'
<1>1. CASE SafetyReads(c)
  BY <1>1 DEF SafetyReads, TypeOK, journal
<1>2. CASE SafetyWrites(c)
  <2>1. row' \in [Groups -> {"none", "open", "over"}]
    BY <1>2 DEF SafetyWrites, TypeOK, Stored
  <2> QED BY <1>2, <2>1, AbsentTyped DEF SafetyWrites, Heeds, TypeOK
<1>3. CASE SafetyAnswers(c)
  <2>1. seen' \in [Callers -> [Groups -> Reports]]
    BY <1>3, AbsentTyped DEF SafetyAnswers, TypeOK
  <2>2. /\ up' \in BOOLEAN /\ stop' \in BOOLEAN /\ known' \subseteq Groups
        /\ run' \in [Groups -> Runs] /\ row' \in [Groups -> {"none", "open", "over"}]
        /\ broker' \in [Groups -> {"none", "sent", "live", "over"}]
    BY <1>3 DEF SafetyAnswers, TypeOK, journal
  <2>3. CASE Leaves(c)
    BY <2>1, <2>2, <2>3, LeavesTyped DEF TypeOK
  <2>4. CASE \E s \in {"idle", "due", "starting", "refresh"} :
               /\ Goes(c, s) /\ UNCHANGED <<running, group, outdated, result, overruled>>
               /\ clear' \in [Callers -> BOOLEAN]
    <3>1. {"idle", "due", "starting", "refresh"} \subseteq Stages
      BY DEF Stages, Cycle, BeforeStart, Started
    <3> QED BY <2>1, <2>2, <2>4, <3>1, GoesTyped DEF TypeOK
  <2>5. Obstructed(c) \in BOOLEAN
    BY DEF Obstructed, TypeOK
  <2>6. /\ [clear EXCEPT ![c] = FALSE] \in [Callers -> BOOLEAN]
        /\ [clear EXCEPT ![c] = ~Obstructed(c)] \in [Callers -> BOOLEAN]
    BY <2>5 DEF TypeOK
  <2> QED BY <1>3, <2>3, <2>4, <2>6 DEF SafetyAnswers
<1> QED BY <1>1, <1>2, <1>3 DEF Safety

LEMMA CallsTyped ==
  ASSUME TypeOK, NEW c \in Callers, Calls(c) \/ RunsOnce(c) \/ Declines(c)
  PROVE  TypeOK'
<1>1. {"gate", "preflight", "idle"} \subseteq Stages
  BY DEF Stages, Cycle, BeforeStart
<1> QED
  BY <1>1, GoesTyped DEF Calls, RunsOnce, Declines, TypeOK, data, journal

LEMMA AdvancesTyped ==
  ASSUME TypeOK, Chosen, NEW c \in Callers, Advances(c)
  PROVE  TypeOK'
<1>1. Started \subseteq Stages
  BY StagesApart
<1>2. \A t \in Runs : at[c] \in Started => [run EXCEPT ![group[c]] = t] \in [Groups -> Runs]
  BY DEF TypeOK
<1>3. CASE Starts(c)
  <2>1. PICK g \in Groups : /\ group' = [group EXCEPT ![c] = g]
                            /\ run' = [run EXCEPT ![g] = "PENDING"]
    BY <1>3 DEF Starts
  <2>2. /\ group' \in [Callers -> Groups \cup {NoGroup}] /\ run' \in [Groups -> Runs]
        /\ "collecting" \in Stages
    BY <1>1, <2>1 DEF TypeOK, Runs, Interrupted, Started
  <2> QED BY <1>3, <2>2, GoesTyped DEF Starts, Moves, TypeOK
<1>4. CASE Collects(c) \/ Features(c) \/ Asks(c) \/ Validates(c)
  <2>1. PICK from \in Started, to \in Started, state \in Runs : Transits(c, from, to, state)
    BY <1>4 DEF Collects, Features, Asks, Validates, Started, Runs, Interrupted
  <2>2. run' \in [Groups -> Runs]
    BY <1>2, <2>1 DEF Transits, Moves
  <2> QED BY <1>1, <2>1, <2>2, GoesTyped DEF Transits, Moves, TypeOK, data
<1>5. CASE Defers(c) \/ Accepts(c) \/ Refuses(c)
  <2>1. Leaves(c)
    BY <1>5 DEF Defers, Accepts, Refuses
  <2>2. run' \in [Groups -> Runs]
    BY <1>2, <1>5 DEF Defers, Accepts, Refuses, Started, Runs, TypeOK
  <2>3. seen' \in [Callers -> [Groups -> Reports]]
    BY <1>5, AbsentTyped DEF Defers, Accepts, Refuses, TypeOK
  <2> QED BY <1>5, <2>1, <2>2, <2>3, LeavesTyped DEF Defers, Accepts, Refuses, TypeOK
<1>6. CASE Decides(c) \/ Admits(c)
  <2>1. "final" \in Stages /\ "intending" \in Stages
    BY <1>1 DEF Started
  <2> QED BY <1>6, <2>1, GoesTyped DEF Decides, Admits, Moves, TypeOK, data, journal
<1>7. CASE Refreshes(c)
  <2>1. "controls" \in Stages
    BY <1>1 DEF Started
  <2>2. clear' \in [Callers -> BOOLEAN] /\ overruled' \subseteq Callers
    BY <1>7 DEF Refreshes, TypeOK
  <2> QED BY <1>7, <2>1, <2>2, GoesTyped DEF Refreshes, Moves, TypeOK, journal
<1>8. CASE Intends(c) \/ Places(c)
  <2>1. "placing" \in Stages /\ "accepting" \in Stages
    BY <1>1 DEF Started
  <2>2. CASE Intends(c)
    BY <2>1, <2>2, GoesTyped DEF Intends, Moves, TypeOK, data
  <2>3. CASE Places(c)
    BY <2>1, <2>3, GoesTyped DEF Places, Moves, TypeOK, data, Stored
  <2> QED BY <1>8, <2>2, <2>3
<1>9. CASE Sends(c)
  <2>1. "awaiting" \in Stages /\ at[c] \in Started
    BY <1>1, <1>9 DEF Started, Sends, Moves
  <2> QED BY <1>9, <2>1, GoesTyped DEF Sends, Moves, TypeOK, data, journal, Chosen
<1>10. CASE RejectsLocally(c) \/ Answers(c)
  <2>1. "placed" \in Stages /\ {"open", "filled", "over"} \subseteq Reports
    BY <1>1 DEF Started, Reports
  <2>2. result' \in [Callers -> Reports]
    BY <1>10, <2>1 DEF RejectsLocally, Answers, TypeOK
  <2> QED BY <1>10, <2>1, <2>2, GoesTyped DEF RejectsLocally, Answers, Moves, TypeOK, journal
<1> QED BY <1>3, <1>4, <1>5, <1>6, <1>7, <1>8, <1>9, <1>10 DEF Advances

LEMMA OthersTyped ==
  ASSUME TypeOK,
         \/ \E g \in Groups : Projects(g) \/ Settles(g) \/ BrokerMoves(g)
         \/ Stops \/ Selects \/ Crashes \/ Restarts
  PROVE  TypeOK'
<1>1. CASE \E g \in Groups : Projects(g) \/ Settles(g) \/ BrokerMoves(g)
  BY <1>1 DEF Projects, Settles, BrokerMoves, TypeOK, calls, data, journal
<1>2. CASE Stops \/ Selects
  BY <1>2 DEF Stops, Selects, TypeOK, calls, data, journal
<1>3. CASE Crashes
  BY <1>3, AbsentTyped DEF Crashes, TypeOK, journal, Stages, Reports
<1>4. CASE Restarts
  BY <1>4 DEF Restarts, TypeOK, calls, data, Runs
<1> QED BY <1>1, <1>2, <1>3, <1>4

LEMMA StutterTyped == TypeOK /\ UNCHANGED vars => TypeOK'
  BY DEF TypeOK, vars, calls, data, journal

LEMMA NextTyped == TypeOK /\ Chosen /\ [Next]_vars => TypeOK'
  BY SafetyTyped, CallsTyped, AdvancesTyped, OthersTyped, StutterTyped DEF Next

-----------------------------------------------------------------------------
(* Who is where: each step of a caller moves that caller alone. *)

\* What a caller's step, outside the cycle and in it, does to the lock.
LEMMA LockedKept ==
  ASSUME TypeOK, Locked, [Next]_vars
  PROVE  Locked'
<1> USE DEF Locked, TypeOK, Goes, Leaves, Moves, Transits, data
<1>0. /\ "idle" \notin Cycle /\ "gate" \notin Cycle /\ "due" \notin Cycle
      /\ \A s \in Started : s \in Cycle
      /\ "preflight" \in Cycle /\ "starting" \in Cycle /\ Nobody \notin Callers
  BY AdmissionAssumption DEF Cycle, BeforeStart, Started
<1>1. ASSUME NEW c \in Callers, Safety(c) PROVE Locked'
  BY <1>0, <1>1 DEF Safety, SafetyReads, SafetyWrites, SafetyAnswers, Started
<1>2. ASSUME NEW c \in Callers, Calls(c) \/ RunsOnce(c) \/ Declines(c) PROVE Locked'
  BY <1>0, <1>2 DEF Calls, RunsOnce, Declines
<1>3. ASSUME NEW c \in Callers, Defers(c) \/ Accepts(c) \/ Refuses(c) PROVE Locked'
  BY <1>0, <1>3 DEF Defers, Accepts, Refuses, Started
<1>4. ASSUME NEW c \in Callers, Starts(c) \/ Collects(c) \/ Features(c) \/ Asks(c) \/ Validates(c)
      PROVE  Locked'
  BY <1>0, <1>4 DEF Starts, Collects, Features, Asks, Validates, Started
<1>5. ASSUME NEW c \in Callers,
             Decides(c) \/ Refreshes(c) \/ Admits(c) \/ Intends(c) \/ Sends(c)
             \/ RejectsLocally(c) \/ Answers(c) \/ Places(c)
      PROVE  Locked'
  BY <1>0, <1>5 DEF Decides, Refreshes, Admits, Intends, Sends, RejectsLocally, Answers,
                    Places, Started
<1>6. ASSUME NEW g \in Groups, Projects(g) \/ Settles(g) \/ BrokerMoves(g) PROVE Locked'
  BY <1>6 DEF Projects, Settles, BrokerMoves, calls
<1>7. CASE Stops \/ Selects \/ Restarts
  BY <1>7 DEF Stops, Selects, Restarts, calls
<1>8. CASE Crashes
  BY <1>0, <1>8 DEF Crashes
<1>9. CASE UNCHANGED vars
  BY <1>9 DEF vars, calls
<1> QED
  BY <1>1, <1>2, <1>3, <1>4, <1>5, <1>6, <1>7, <1>8, <1>9 DEF Next, Advances

\* No two callers are in a cycle.
LEMMA Sole ==
  ASSUME Locked, NEW c \in Callers, NEW d \in Callers, at[c] \in Cycle, at[d] \in Cycle
  PROVE  c = d
  BY DEF Locked

LEMMA ChosenKept ==
  ASSUME TypeOK, Chosen, Locked, [Next]_vars
  PROVE  Chosen'
<1> USE DEF Chosen, TypeOK, Goes, Leaves, Moves, Transits, data, journal, Started, Runs, Interrupted
<1>1. ASSUME NEW c \in Callers, Safety(c) PROVE Chosen'
  BY <1>1 DEF Safety, SafetyReads, SafetyWrites, SafetyAnswers, Gates
<1>2. ASSUME NEW c \in Callers, Calls(c) \/ RunsOnce(c) \/ Declines(c) PROVE Chosen'
  BY <1>2 DEF Calls, RunsOnce, Declines
<1>3. ASSUME NEW c \in Callers, Defers(c) \/ Accepts(c) \/ Refuses(c) PROVE Chosen'
  <2>1. /\ at'[c] = "idle"
        /\ \A d \in Callers \ {c} : at'[d] = at[d] /\ group'[d] = group[d]
    BY <1>3 DEF Defers, Accepts, Refuses
  <2>2. \A g \in Groups : run'[g] = "none" => run[g] = "none"
    BY <1>3 DEF Defers, Accepts, Refuses
  <2> QED BY <2>1, <2>2
<1>4. ASSUME NEW c \in Callers, Collects(c) \/ Features(c) \/ Asks(c) \/ Validates(c)
      PROVE  Chosen'
  BY <1>4 DEF Collects, Features, Asks, Validates
<1>5. ASSUME NEW c \in Callers, Starts(c) PROVE Chosen'
  BY <1>5 DEF Starts
<1>6. ASSUME NEW c \in Callers,
             Decides(c) \/ Refreshes(c) \/ Admits(c) \/ Intends(c) \/ Sends(c)
             \/ RejectsLocally(c) \/ Answers(c) \/ Places(c)
      PROVE  Chosen'
  BY <1>6 DEF Decides, Refreshes, Admits, Intends, Sends, RejectsLocally, Answers, Places
<1>7. ASSUME NEW g \in Groups, Projects(g) \/ Settles(g) \/ BrokerMoves(g) PROVE Chosen'
  BY <1>7 DEF Projects, Settles, BrokerMoves, calls
<1>8. CASE Stops \/ Selects \/ Restarts \/ Crashes
  BY <1>8 DEF Stops, Selects, Restarts, Crashes, calls
<1>9. CASE UNCHANGED vars
  BY <1>9 DEF vars, calls
<1> QED
  BY <1>1, <1>2, <1>3, <1>4, <1>5, <1>6, <1>7, <1>8, <1>9 DEF Next, Advances

-----------------------------------------------------------------------------
(* What was sent, and what the reports and the answers say of it. *)

LEMMA UnsentKept ==
  ASSUME TypeOK, Chosen, Locked, Unsent, [Next]_vars
  PROVE  Unsent'
<1> USE DEF Unsent, Chosen, TypeOK, Goes, Leaves, Moves, Transits, data, journal, Started, Unplaced,
            Runs, Interrupted
<1>1. ASSUME NEW c \in Callers, Safety(c) PROVE Unsent'
  BY <1>1 DEF Safety, SafetyReads, SafetyWrites, SafetyAnswers, Gates
<1>2. ASSUME NEW c \in Callers, Calls(c) \/ RunsOnce(c) \/ Declines(c) PROVE Unsent'
  BY <1>2 DEF Calls, RunsOnce, Declines
<1>3. ASSUME NEW c \in Callers, Defers(c) \/ Accepts(c) \/ Refuses(c) PROVE Unsent'
  <2>1. /\ at'[c] = "idle"
        /\ \A d \in Callers \ {c} : at'[d] = at[d] /\ group'[d] = group[d]
    BY <1>3 DEF Defers, Accepts, Refuses
  <2>2. \A g \in Groups : run'[g] = "none" => run[g] = "none"
    BY <1>3 DEF Defers, Accepts, Refuses
  <2>3. broker' = broker
    BY <1>3 DEF Defers, Accepts, Refuses
  <2> QED BY <2>1, <2>2, <2>3
<1>4. ASSUME NEW c \in Callers, Collects(c) \/ Features(c) \/ Asks(c) \/ Validates(c)
      PROVE  Unsent'
  BY <1>4 DEF Collects, Features, Asks, Validates
<1>5. ASSUME NEW c \in Callers, Starts(c) PROVE Unsent'
  BY <1>5 DEF Starts
<1>6. ASSUME NEW c \in Callers,
             Decides(c) \/ Refreshes(c) \/ Admits(c) \/ Intends(c)
             \/ RejectsLocally(c) \/ Answers(c) \/ Places(c)
      PROVE  Unsent'
  BY <1>6 DEF Decides, Refreshes, Admits, Intends, RejectsLocally, Answers, Places
<1>7. ASSUME NEW c \in Callers, Sends(c) PROVE Unsent'
  <2>1. \A d \in Callers \ {c} : at'[d] \notin Unplaced
    BY <1>7, Sole DEF Sends, Cycle
  <2>2. at'[c] \notin Unplaced /\ run[group[c]] # "none" /\ run' = run
    BY <1>7 DEF Sends
  <2> QED BY <1>7, <2>1, <2>2 DEF Sends
<1>8. ASSUME NEW g \in Groups, Projects(g) \/ Settles(g) \/ BrokerMoves(g) PROVE Unsent'
  BY <1>8 DEF Projects, Settles, BrokerMoves, calls
<1>9. CASE Stops \/ Selects \/ Restarts \/ Crashes
  BY <1>9 DEF Stops, Selects, Restarts, Crashes, calls
<1>10. CASE UNCHANGED vars
  BY <1>10 DEF vars, calls
<1> QED
  BY <1>1, <1>2, <1>3, <1>4, <1>5, <1>6, <1>7, <1>8, <1>9, <1>10 DEF Next, Advances

\* A report is true when it is read, and what it says of an end stays true.
LEMMA ReportingKept ==
  ASSUME TypeOK, Chosen, Unsent, Reporting, [Next]_vars
  PROVE  Reporting'
<1>0. /\ \A c \in Callers : seen[c] \in [Groups -> Reports]
      /\ \A g \in Groups : Absent[g] = "absent"
  BY DEF TypeOK, Absent
<1>1. CASE UNCHANGED <<seen, broker>>
  BY <1>1 DEF Reporting
<1>2. ASSUME NEW c \in Callers, SafetyReads(c) PROVE Reporting'
  <2>1. PICK report \in [Groups -> Reports] :
          /\ \A g \in Groups : report[g] \in Reported(g)
          /\ seen' = [seen EXCEPT ![c] = report]
    BY <1>2 DEF SafetyReads
  <2>2. \A g \in Groups : /\ report[g] # "absent" => broker[g] # "none"
                          /\ report[g] \in {"filled", "over"} => broker[g] # "sent"
    BY <2>1 DEF Reported, TypeOK
  <2> QED BY <1>2, <2>1, <2>2 DEF SafetyReads, Reporting, TypeOK
<1>3. ASSUME NEW c \in Callers, SafetyWrites(c) \/ Refuses(c) PROVE Reporting'
  BY <1>0, <1>3 DEF SafetyWrites, Heeds, Refuses, Reporting, TypeOK
<1>4. ASSUME NEW c \in Callers, Sends(c) PROVE Reporting'
  <2>1. at[c] \in Unplaced /\ at[c] \in Started
    BY <1>4 DEF Sends, Moves, Unplaced, Started
  <2>2. \A d \in Callers : seen[d][group[c]] = "absent"
    BY <2>1 DEF Chosen, Unsent, Reporting
  <2> QED BY <1>4, <2>1, <2>2 DEF Sends, Reporting, TypeOK, data, Chosen
<1>5. ASSUME NEW g \in Groups, BrokerMoves(g) PROVE Reporting'
  BY <1>5 DEF BrokerMoves, calls, data, Reporting, TypeOK
<1>6. CASE Crashes
  BY <1>0, <1>6 DEF Crashes, Reporting
<1>7. ASSUME NEW c \in Callers,
             SafetyAnswers(c) \/ Calls(c) \/ RunsOnce(c) \/ Declines(c) \/ Starts(c)
             \/ Collects(c) \/ Features(c) \/ Asks(c) \/ Validates(c) \/ Defers(c)
             \/ Decides(c) \/ Refreshes(c) \/ Admits(c) \/ Intends(c) \/ RejectsLocally(c)
             \/ Answers(c) \/ Places(c) \/ Accepts(c)
      PROVE  UNCHANGED <<seen, broker>>
  BY <1>7 DEF SafetyAnswers, Calls, RunsOnce, Declines, Starts, Collects, Features, Asks,
              Validates, Defers, Decides, Refreshes, Admits, Intends, RejectsLocally, Answers,
              Places, Accepts, Transits, data
<1>8. ASSUME Stops \/ Selects \/ Restarts \/ (\E g \in Groups : Projects(g) \/ Settles(g)) \/ UNCHANGED vars
      PROVE  UNCHANGED <<seen, broker>>
  BY <1>8 DEF Stops, Selects, Restarts, Projects, Settles, vars, calls, data
<1> QED
  BY <1>1, <1>2, <1>3, <1>4, <1>5, <1>6, <1>7, <1>8 DEF Next, Safety, Advances

LEMMA AnsweredKept ==
  ASSUME TypeOK, Chosen, Locked, Unsent, Answered, [Next]_vars
  PROVE  Answered'
<1>1. ASSUME NEW c \in Callers, at'[c] # "placed", UNCHANGED broker,
             \A d \in Callers \ {c} : /\ at'[d] = at[d] /\ group'[d] = group[d]
                                     /\ result'[d] = result[d]
      PROVE  Answered'
  BY <1>1 DEF Answered
<1>2. ASSUME NEW c \in Callers,
             Calls(c) \/ RunsOnce(c) \/ Declines(c) \/ Safety(c) \/ Starts(c) \/ Collects(c)
             \/ Features(c) \/ Asks(c) \/ Validates(c) \/ Decides(c) \/ Refreshes(c) \/ Admits(c)
             \/ Intends(c) \/ Places(c) \/ Defers(c) \/ Accepts(c) \/ Refuses(c)
      PROVE  Answered'
  <2>1. CASE SafetyReads(c) \/ SafetyWrites(c)
    BY <2>1 DEF SafetyReads, SafetyWrites, Answered, journal
  <2>2. CASE Defers(c) \/ Accepts(c) \/ Refuses(c) \/ (SafetyAnswers(c) /\ Leaves(c))
    BY <1>1, <2>2 DEF Defers, Accepts, Refuses, SafetyAnswers, Leaves, Goes, TypeOK
  <2>3. CASE Starts(c)
    BY <1>1, <2>3 DEF Starts, Moves, Goes, TypeOK
  <2>4. CASE SafetyAnswers(c) /\ ~Leaves(c)
    BY <1>1, <2>4 DEF SafetyAnswers, Goes, TypeOK
  <2>5. CASE Calls(c) \/ RunsOnce(c) \/ Declines(c) \/ Collects(c) \/ Features(c) \/ Asks(c)
             \/ Validates(c) \/ Decides(c) \/ Refreshes(c) \/ Admits(c) \/ Intends(c) \/ Places(c)
    BY <1>1, <2>5 DEF Calls, RunsOnce, Declines, Collects, Features, Asks, Validates, Decides,
                      Refreshes, Admits, Intends, Places, Transits, Moves, Goes, TypeOK, data
  <2> QED BY <1>2, <2>1, <2>2, <2>3, <2>4, <2>5 DEF Safety
<1>3. ASSUME NEW c \in Callers, Sends(c) PROVE Answered'
  <2>1. \A d \in Callers : at'[d] # "placed"
    BY <1>3, Sole DEF Sends, Moves, Goes, TypeOK, Cycle, Started
  <2> QED BY <2>1 DEF Answered
<1>4. ASSUME NEW c \in Callers, RejectsLocally(c) \/ Answers(c) PROVE Answered'
  <2>1. at[c] = "placing" => broker[group[c]] = "none"
    BY DEF Unsent, Unplaced, Started
  <2> QED BY <1>4, <2>1 DEF RejectsLocally, Answers, Answered, TypeOK, Goes, Moves
<1>5. ASSUME NEW g \in Groups, Projects(g) \/ Settles(g) \/ BrokerMoves(g) PROVE Answered'
  <2>1. \A h \in Groups : broker[h] # "sent" => broker'[h] # "sent"
    BY <1>5 DEF Projects, Settles, BrokerMoves, TypeOK
  <2>2. UNCHANGED <<at, group, result>>
    BY <1>5 DEF Projects, Settles, BrokerMoves, calls, data
  <2> QED BY <2>1, <2>2 DEF Answered, Chosen, Started
<1>6. CASE Stops \/ Selects \/ Crashes \/ Restarts \/ UNCHANGED vars
  BY <1>6 DEF Stops, Selects, Crashes, Restarts, Answered, vars, calls, data
<1> QED
  BY <1>2, <1>3, <1>4, <1>5, <1>6 DEF Next, Advances

-----------------------------------------------------------------------------
(* The rows of the journal and the broker *)

\* No write of the journal closes the row of an entry that is exposed, or about to be.
LEMMA RowKept ==
  ASSUME TypeOK, Locked, Chosen, Unsent, Reporting, Answered, [Next]_vars,
         NEW g \in Groups, row[g] = "open", broker[g] \in {"none", "sent"},
         \A c \in Callers : at[c] = "placed" => group[c] # g \/ result[c] = "open"
  PROVE  row'[g] = "open"
<1>1. ASSUME NEW c \in Callers, SafetyWrites(c) PROVE row'[g] = "open"
  BY <1>1 DEF SafetyWrites, Stored, Reporting, TypeOK, Reports
<1>2. ASSUME NEW c \in Callers, Intends(c) \/ Places(c) PROVE row'[g] = "open"
  BY <1>2 DEF Intends, Places, Stored, Moves, TypeOK
<1>3. ASSUME NEW h \in Groups, Projects(h) \/ Settles(h) PROVE row'[g] = "open"
  BY <1>3 DEF Projects, Settles, TypeOK
<1>4. ASSUME NEW c \in Callers,
             Calls(c) \/ RunsOnce(c) \/ Declines(c) \/ SafetyReads(c) \/ SafetyAnswers(c)
             \/ Starts(c) \/ Collects(c) \/ Features(c) \/ Asks(c) \/ Validates(c) \/ Decides(c)
             \/ Refreshes(c) \/ Admits(c) \/ Sends(c) \/ RejectsLocally(c) \/ Answers(c)
             \/ Defers(c) \/ Accepts(c) \/ Refuses(c)
      PROVE  row' = row
  BY <1>4 DEF Calls, RunsOnce, Declines, SafetyReads, SafetyAnswers, Starts, Collects, Features,
              Asks, Validates, Decides, Refreshes, Admits, Sends, RejectsLocally, Answers, Defers,
              Accepts, Refuses, Transits, journal
<1>5. ASSUME Stops \/ Selects \/ Crashes \/ Restarts \/ (\E h \in Groups : BrokerMoves(h))
             \/ UNCHANGED vars
      PROVE  row' = row
  BY <1>5 DEF Stops, Selects, Crashes, Restarts, BrokerMoves, vars, journal
<1> QED
  BY <1>1, <1>2, <1>3, <1>4, <1>5 DEF Next, Safety, Advances

\* The broker's side changes by Sends and by the broker alone.
LEMMA BrokerKept ==
  ASSUME [Next]_vars
  PROVE  \/ broker' = broker
         \/ \E c \in Callers : Sends(c)
         \/ \E g \in Groups : BrokerMoves(g)
<1>1. ASSUME NEW c \in Callers,
             Calls(c) \/ RunsOnce(c) \/ Declines(c) \/ Safety(c) \/ Starts(c) \/ Collects(c)
             \/ Features(c) \/ Asks(c) \/ Validates(c) \/ Decides(c) \/ Refreshes(c) \/ Admits(c)
             \/ Intends(c) \/ Places(c) \/ RejectsLocally(c) \/ Answers(c) \/ Defers(c)
             \/ Accepts(c) \/ Refuses(c)
      PROVE  broker' = broker
  BY <1>1 DEF Calls, RunsOnce, Declines, Safety, SafetyReads, SafetyWrites, SafetyAnswers, Starts,
              Collects, Features, Asks, Validates, Decides, Refreshes, Admits, Intends, Places,
              RejectsLocally, Answers, Defers, Accepts, Refuses, Transits
<1>2. ASSUME Stops \/ Selects \/ Crashes \/ Restarts \/ (\E g \in Groups : Projects(g) \/ Settles(g))
             \/ UNCHANGED vars
      PROVE  broker' = broker
  BY <1>2 DEF Stops, Selects, Crashes, Restarts, Projects, Settles, vars
<1> QED BY <1>1, <1>2 DEF Next, Advances

LEMMA CoveredKept ==
  ASSUME TypeOK, Covered, Locked, Chosen, Unsent, Reporting, Answered, Intended, [Next]_vars
  PROVE  Covered'
<1> SUFFICES ASSUME NEW g \in Groups, broker'[g] = "sent"
             PROVE  row'[g] = "open"
  BY DEF Covered
<1>1. CASE broker[g] = "sent"
  <2>1. row[g] = "open"
    BY <1>1 DEF Covered
  <2>2. \A c \in Callers : at[c] = "placed" => group[c] # g \/ result[c] = "open"
    BY <1>1 DEF Answered
  <2> QED BY <1>1, <2>1, <2>2, RowKept
<1>2. CASE broker[g] # "sent"
  <2>1. PICK c \in Callers : Sends(c) /\ group[c] = g
    BY <1>2, BrokerKept DEF Sends, BrokerMoves, TypeOK
  <2> QED BY <2>1 DEF Sends, Moves, Intended, journal
<1> QED BY <1>1, <1>2

LEMMA IntendedKept ==
  ASSUME TypeOK, Locked, Chosen, Unsent, Reporting, Answered, Intended, [Next]_vars
  PROVE  Intended'
<1> SUFFICES ASSUME NEW c \in Callers, at'[c] = "placing"
             PROVE  row'[group'[c]] = "open"
  BY DEF Intended
<1>1. ASSUME at[c] = "placing", group'[c] = group[c]
      PROVE  row'[group'[c]] = "open"
  <2>1. row[group[c]] = "open" /\ broker[group[c]] = "none" /\ group[c] \in Groups
    BY <1>1 DEF Intended, Unsent, Chosen, Unplaced, Started
  <2>2. \A d \in Callers : at[d] # "placed"
    BY <1>1, Sole DEF Cycle, Started
  <2> QED BY <1>1, <2>1, <2>2, RowKept
<1>2. CASE \E d \in Callers : Intends(d)
  BY <1>1, <1>2 DEF Intends, Moves, Goes, TypeOK, data, Chosen, Started
<1>3. ASSUME ~\E d \in Callers : Intends(d)
      PROVE  at[c] = "placing" /\ group'[c] = group[c]
  <2>1. ASSUME NEW d \in Callers,
               Calls(d) \/ RunsOnce(d) \/ Declines(d) \/ Safety(d) \/ Starts(d) \/ Collects(d)
               \/ Features(d) \/ Asks(d) \/ Validates(d) \/ Decides(d) \/ Refreshes(d)
               \/ Admits(d) \/ Sends(d) \/ Places(d) \/ RejectsLocally(d) \/ Answers(d)
               \/ Defers(d) \/ Accepts(d) \/ Refuses(d)
        PROVE  at[c] = "placing" /\ group'[c] = group[c]
    BY <2>1 DEF Calls, RunsOnce, Declines, Safety, SafetyReads, SafetyWrites, SafetyAnswers, Starts,
                Collects, Features, Asks, Validates, Decides, Refreshes, Admits, Sends, Places,
                RejectsLocally, Answers, Defers, Accepts, Refuses, TypeOK, Goes, Leaves, Moves,
                Transits, data
  <2>2. ASSUME Stops \/ Selects \/ Crashes \/ Restarts \/ UNCHANGED vars
               \/ (\E g \in Groups : Projects(g) \/ Settles(g) \/ BrokerMoves(g))
        PROVE  at[c] = "placing" /\ group'[c] = group[c]
    BY <2>2 DEF Stops, Selects, Crashes, Restarts, Projects, Settles, BrokerMoves, vars, calls, data
  <2> QED BY <1>3, <2>1, <2>2 DEF Next, Advances
<1> QED BY <1>1, <1>2, <1>3

-----------------------------------------------------------------------------
(* Nothing is exposed between the final safety() and the send. *)

\* A caller enters a stage where safety() is called at its first step, and stays there.
LEMMA Entered ==
  ASSUME TypeOK, NEW c \in Callers, NEW s, Goes(c, s)
  PROVE  /\ at'[c] = s /\ (step'[c] # "none" => s \in Gates)
         /\ \A d \in Callers \ {c} : at'[d] = at[d] /\ step'[d] = step[d]
  BY DEF TypeOK, Goes

LEMMA SteppingKept ==
  ASSUME TypeOK, Stepping, [Next]_vars
  PROVE  Stepping'
<1>1. ASSUME NEW c \in Callers, SafetyReads(c) \/ SafetyWrites(c) PROVE Stepping'
  BY <1>1 DEF SafetyReads, SafetyWrites, Stepping, TypeOK
<1>2. ASSUME NEW c \in Callers, NEW s, Goes(c, s) PROVE Stepping'
  BY <1>2, Entered DEF Stepping
<1>3. ASSUME NEW c \in Callers,
             Calls(c) \/ RunsOnce(c) \/ Declines(c) \/ SafetyAnswers(c) \/ Starts(c) \/ Collects(c)
             \/ Features(c) \/ Asks(c) \/ Validates(c) \/ Decides(c) \/ Refreshes(c) \/ Admits(c)
             \/ Intends(c) \/ Sends(c) \/ RejectsLocally(c) \/ Answers(c) \/ Places(c)
             \/ Defers(c) \/ Accepts(c) \/ Refuses(c)
      PROVE  \E s : Goes(c, s)
  BY <1>3 DEF Calls, RunsOnce, Declines, SafetyAnswers, Starts, Collects, Features, Asks, Validates,
              Decides, Refreshes, Admits, Intends, Sends, RejectsLocally, Answers, Places,
              Defers, Accepts, Refuses, Transits, Moves, Leaves
<1>4. ASSUME Stops \/ Selects \/ Restarts \/ UNCHANGED vars
             \/ (\E g \in Groups : Projects(g) \/ Settles(g) \/ BrokerMoves(g))
      PROVE  Stepping'
  BY <1>4 DEF Stops, Selects, Restarts, Projects, Settles, BrokerMoves, vars, calls, data, Stepping
<1>5. CASE Crashes
  BY <1>5 DEF Crashes, Stepping
<1> QED BY <1>1, <1>2, <1>3, <1>4, <1>5 DEF Next, Safety, Advances

\* A caller comes to the refresh from the final safety() alone, with what it found; and to
\* the stages after it from the refresh, with what the account read found.
LEMMA LonelyKept ==
  ASSUME TypeOK, Stepping, [Next]_vars, NEW d \in Callers
  PROVE  /\ (at[d] = "refresh" /\ clear[d])' =>
              \/ at[d] = "refresh" /\ clear[d]
              \/ SafetyAnswers(d) /\ at[d] = "final" /\ ~Obstructed(d)
         /\ Lonely(d)' =>
              \/ Lonely(d)
              \/ /\ Refreshes(d) /\ at[d] = "refresh" /\ clear[d]
                 /\ \A g \in Groups : broker[g] # "live"
<1> DEFINE P == /\ (at[d] = "refresh" /\ clear[d])' =>
                     \/ at[d] = "refresh" /\ clear[d]
                     \/ SafetyAnswers(d) /\ at[d] = "final" /\ ~Obstructed(d)
                /\ Lonely(d)' =>
                     \/ Lonely(d)
                     \/ /\ Refreshes(d) /\ at[d] = "refresh" /\ clear[d]
                        /\ \A g \in Groups : broker[g] # "live"
<1>1. ASSUME NEW c \in Callers, SafetyReads(c) \/ SafetyWrites(c) PROVE P
  BY <1>1 DEF SafetyReads, SafetyWrites, Heeds, Stepping, Gates, Lonely, TypeOK
<1>2. ASSUME NEW c \in Callers,
             Calls(c) \/ RunsOnce(c) \/ Declines(c) \/ SafetyAnswers(c) \/ Starts(c) \/ Collects(c)
             \/ Features(c) \/ Asks(c) \/ Validates(c) \/ Decides(c) \/ Refreshes(c) \/ Admits(c)
             \/ Intends(c) \/ Sends(c) \/ RejectsLocally(c) \/ Answers(c) \/ Places(c)
             \/ Defers(c) \/ Accepts(c) \/ Refuses(c)
      PROVE  P
  <2>1. CASE c # d
    <3>1. at'[d] = at[d] /\ clear'[d] = clear[d]
      BY <1>2, <2>1, Entered DEF Calls, RunsOnce, Declines, SafetyAnswers, Starts, Collects, Features, Asks, Validates,
              Decides, Refreshes, Admits, Intends, Sends, RejectsLocally, Answers, Places,
              Defers, Accepts, Refuses, Transits, Moves, Leaves, data, TypeOK
    <3> QED BY <3>1 DEF Lonely
  <2>2. CASE c = d
    <3>1. CASE SafetyAnswers(c)
      BY <2>2, <3>1 DEF SafetyAnswers, Lonely, Goes, Leaves, TypeOK
    <3>2. CASE Refreshes(c)
      BY <2>2, <3>2 DEF Refreshes, Lonely, Moves, Goes, TypeOK
    <3>3. CASE Admits(c) \/ Intends(c)
      BY <2>2, <3>3 DEF Admits, Intends, Lonely, Moves, Goes, TypeOK, data
    <3>4. CASE ~(SafetyAnswers(c) \/ Refreshes(c) \/ Admits(c) \/ Intends(c))
      <4>1. at'[c] \notin {"refresh", "controls", "intending", "placing"}
        BY <1>2, <3>4, Entered DEF Calls, RunsOnce, Declines, SafetyAnswers, Starts, Collects, Features, Asks, Validates,
              Decides, Refreshes, Admits, Intends, Sends, RejectsLocally, Answers, Places,
              Defers, Accepts, Refuses, Transits, Moves, Leaves
      <4> QED BY <2>2, <4>1 DEF Lonely
    <3> QED BY <3>1, <3>2, <3>3, <3>4
  <2> QED BY <2>1, <2>2
<1>3. ASSUME Stops \/ Selects \/ Crashes \/ Restarts \/ UNCHANGED vars
             \/ (\E g \in Groups : Projects(g) \/ Settles(g) \/ BrokerMoves(g))
      PROVE  P
  BY <1>3 DEF Stops, Selects, Crashes, Restarts, Projects, Settles, BrokerMoves, vars, calls, data,
              Lonely
<1> QED BY <1>1, <1>2, <1>3 DEF Next, Safety, Advances

LEMMA AloneKept ==
  ASSUME TypeOK, Covered, Locked, Stepping, Alone, [Next]_vars
  PROVE  Alone'
<1>1. ASSUME NEW d \in Callers, at[d] \in {"final", "refresh"} \/ Lonely(d),
             at'[d] # "awaiting"
      PROVE  \/ broker' = broker
             \/ \E g \in Groups : BrokerMoves(g)
  <2>1. ASSUME NEW c \in Callers, Sends(c) PROVE FALSE
    <3>1. at[c] = "placing" /\ at'[c] = "awaiting"
      BY <2>1 DEF Sends, Moves, Goes, TypeOK
    <3>2. c = d
      BY <1>1, <3>1, Sole DEF Lonely, Cycle, Started
    <3> QED BY <1>1, <3>1, <3>2
  <2> QED BY <2>1, BrokerKept
<1>2. ASSUME NEW d \in Callers, (at[d] = "refresh" /\ clear[d])'
      PROVE  \A g \in Groups : broker'[g] # "sent"
  <2>1. \A g \in Groups : broker[g] # "sent"
    BY <1>2, LonelyKept DEF Alone, Obstructed, Covered
  <2>2. at[d] \in {"final", "refresh"}
    BY <1>2, LonelyKept
  <2> QED BY <1>1, <1>2, <2>1, <2>2 DEF BrokerMoves, TypeOK
<1>3. ASSUME NEW d \in Callers, Lonely(d)' PROVE (Exposed = {})'
  <2>1. Exposed = {}
    BY <1>3, LonelyKept DEF Alone, Exposed
  <2>2. Lonely(d) \/ at[d] = "refresh"
    BY <1>3, LonelyKept
  <2>3. at'[d] # "awaiting"
    BY <1>3 DEF Lonely
  <2> QED BY <1>1, <2>1, <2>2, <2>3 DEF BrokerMoves, Exposed
<1> QED BY <1>2, <1>3 DEF Alone

-----------------------------------------------------------------------------
(* The operator *)

LEMMA OverrulingKept ==
  ASSUME TypeOK, Locked, Stepping, Overruling, [Next]_vars
  PROVE  Overruling'
<1> USE DEF Overruling, Overruled
<1>1. ASSUME NEW c \in Callers, Leaves(c), stop' = stop PROVE Overruling'
  BY <1>1 DEF Leaves, Goes, TypeOK
<1>2. ASSUME NEW c \in Callers, NEW s, Goes(c, s), UNCHANGED <<stop, outdated, overruled>>,
             at[c] # "controls"
      PROVE  Overruling'
  BY <1>2 DEF Goes, TypeOK
<1>3. ASSUME NEW c \in Callers, SafetyReads(c) \/ SafetyWrites(c) PROVE Overruling'
  BY <1>3 DEF SafetyReads, SafetyWrites
<1>4. ASSUME NEW c \in Callers, Defers(c) \/ Accepts(c) \/ Refuses(c) PROVE Overruling'
  BY <1>1, <1>4 DEF Defers, Accepts, Refuses
<1>5. ASSUME NEW c \in Callers, SafetyAnswers(c) PROVE Overruling'
  BY <1>1, <1>2, <1>5 DEF SafetyAnswers
<1>6. ASSUME NEW c \in Callers,
             Calls(c) \/ RunsOnce(c) \/ Declines(c) \/ Starts(c) \/ Collects(c) \/ Features(c)
             \/ Asks(c) \/ Validates(c) \/ Decides(c) \/ Intends(c) \/ Sends(c)
             \/ RejectsLocally(c) \/ Answers(c) \/ Places(c)
      PROVE  Overruling'
  BY <1>2, <1>6 DEF Calls, RunsOnce, Declines, Starts, Collects, Features, Asks, Validates, Decides,
                    Intends, Sends, RejectsLocally, Answers, Places, Transits, Moves, data
<1>7. ASSUME NEW c \in Callers, Refreshes(c) PROVE Overruling'
  BY <1>7 DEF Refreshes, Moves, Goes, TypeOK
<1>8. ASSUME NEW c \in Callers, Admits(c) PROVE Overruling'
  BY <1>8 DEF Admits, Moves, Goes, TypeOK, data
<1>9. CASE Stops
  BY <1>9 DEF Stops, calls, data
<1>10. CASE Selects
  BY <1>10 DEF Selects, TypeOK, Cycle, Started
<1>11. CASE Crashes
  BY <1>11 DEF Crashes
<1>12. ASSUME Restarts \/ UNCHANGED vars \/ (\E g \in Groups : Projects(g) \/ Settles(g) \/ BrokerMoves(g))
       PROVE  Overruling'
  BY <1>12 DEF Restarts, Projects, Settles, BrokerMoves, vars, calls, data
<1> QED
  BY <1>3, <1>4, <1>5, <1>6, <1>7, <1>8, <1>9, <1>10, <1>11, <1>12 DEF Next, Safety, Advances

-----------------------------------------------------------------------------
(* The theorems *)

LEMMA NextInv == AdmissionInv /\ [Next]_vars => AdmissionInv'
  BY NextTyped, CoveredKept, LockedKept, SteppingKept, ChosenKept, UnsentKept, ReportingKept,
     AnsweredKept, AloneKept, IntendedKept, OverrulingKept
  DEF AdmissionInv

LEMMA Invariance == Spec => []AdmissionInv
  BY InitInv, NextInv, PTL DEF Spec

\* Callers, reports, rows and runs keep their types, whoever stops or dies when.
THEOREM TypeCorrect == Spec => []TypeOK
  BY Invariance, PTL DEF AdmissionInv

\* An entry on its way to the broker is counted by the journal, whatever the older reads
\* that trail.placement and trail.reconciliation write.
THEOREM EntriesCovered == Spec => []Covered
  BY Invariance, PTL DEF AdmissionInv

\* The first send of a group, alone at the broker; or the end of what was sent; or nothing
\* that the promise sees.
LEMMA PromiseStep ==
  AdmissionInv /\ [Next]_vars =>
    [Promise!Next]_<<{g \in Groups : broker[g] = "none"}, Exposed>>
<1> SUFFICES ASSUME AdmissionInv, [Next]_vars
             PROVE  [Promise!Next]_<<{g \in Groups : broker[g] = "none"}, Exposed>>
  OBVIOUS
<1> USE DEF Exposed, Promise!Next, Promise!Open, Promise!Close
<1>1. CASE broker' = broker
  BY <1>1
<1>2. ASSUME NEW c \in Callers, Sends(c)
      PROVE  \E g \in Groups : Promise!Open(g)
  <2>1. at[c] = "placing" /\ group[c] \in Groups /\ broker[group[c]] = "none"
    BY <1>2 DEF Sends, Moves, AdmissionInv, Chosen, Unsent, Unplaced, Started
  <2>2. Exposed = {}
    BY <2>1 DEF AdmissionInv, Alone, Lonely
  <2>3. broker' = [broker EXCEPT ![group[c]] = "sent"]
    BY <1>2 DEF Sends
  <2>4. Promise!Open(group[c])
    BY <2>1, <2>2, <2>3 DEF AdmissionInv, TypeOK
  <2> QED BY <2>1, <2>4
<1>3. ASSUME NEW g \in Groups, BrokerMoves(g)
      PROVE  \/ Promise!Close(g)
             \/ UNCHANGED <<{h \in Groups : broker[h] = "none"}, Exposed>>
  BY <1>3 DEF BrokerMoves, AdmissionInv, TypeOK
<1> QED BY <1>1, <1>2, <1>3, BrokerKept

\* Admission implements its promise: each entry is sent once, while no other is exposed,
\* for the three passes of safety() and any callers, faults, crashes and delays.
THEOREM PromiseKept == Spec => KeepsPromise
<1>1. Init => Promise!Init
  BY DEF Init, Promise!Init, Exposed
<1> QED
  BY <1>1, PromiseStep, Invariance, PTL DEF Spec, KeepsPromise, Promise!Spec

\* No entry is sent against what the operator had decided by the end of the refresh.
THEOREM OperatorAlwaysObeyed == Spec => OperatorObeyed
<1>1. AdmissionInv /\ [Next]_vars => [\A c \in overruled : ~Sends(c)]_vars
  BY DEF AdmissionInv, Overruling, Sends, Moves
<1> QED
  BY <1>1, Invariance, PTL DEF Spec, OperatorObeyed

\* What the promise is worth: never two entries exposed, which RELEVANT_PENDING_ORDER_EXISTS
\* and RELEVANT_POSITION_EXISTS of the placement gate are for.
THEOREM OneEntryExposed == Spec => [](\A g, h \in Exposed : g = h)
<1> DEFINE One == \A g, h \in Exposed : g = h
<1>1. Init => One
  BY DEF Init, Exposed
<1>2. One /\ [Promise!Next]_<<{g \in Groups : broker[g] = "none"}, Exposed>> => One'
  BY DEF Promise!Next, Promise!Open, Promise!Close
<1>3. One /\ AdmissionInv /\ [Next]_vars => One'
  BY <1>2, PromiseStep
<1> QED
  BY <1>1, <1>3, Invariance, PTL DEF Spec

-----------------------------------------------------------------------------
(* Who leaves an analysis active *)

\* A caller has a group only in a cycle that has started it.
Ungrouped == \A c \in Callers : at[c] \notin Started => group[c] = NoGroup

\* A run that blocks the entries, and no cycle goes on with it.
Abandoned(g) == Blocks(g) /\ \A c \in Callers : at[c] \in Cycle => group[c] # g

LEMMA UngroupedKept == AdmissionInv /\ Ungrouped /\ [Next]_vars => Ungrouped'
<1> SUFFICES ASSUME AdmissionInv, Ungrouped, [Next]_vars PROVE Ungrouped'
  OBVIOUS
<1>1. TypeOK
  BY DEF AdmissionInv
<1> USE DEF Ungrouped, Started, TypeOK, Gates, Goes
<1>2. ASSUME NEW c \in Callers, Calls(c) \/ RunsOnce(c) \/ Declines(c)
      PROVE  Ungrouped'
  BY <1>1, <1>2 DEF Calls, RunsOnce, Declines, data
<1>3. ASSUME NEW c \in Callers, Leaves(c)
      PROVE  Ungrouped'
  BY <1>1, <1>3 DEF Leaves
<1>4. ASSUME NEW c \in Callers, Safety(c)
      PROVE  Ungrouped'
  BY <1>1, <1>3, <1>4 DEF Safety, SafetyReads, SafetyWrites, SafetyAnswers
<1>5. ASSUME NEW c \in Callers, Starts(c)
      PROVE  Ungrouped'
  BY <1>1, <1>5 DEF Starts, Moves
<1>6. ASSUME NEW c \in Callers, Collects(c) \/ Features(c) \/ Asks(c) \/ Validates(c) \/ Decides(c)
      PROVE  Ungrouped'
  BY <1>1, <1>6 DEF Collects, Features, Asks, Validates, Decides, Transits, Moves, data
<1>7. ASSUME NEW c \in Callers, Defers(c) \/ Accepts(c) \/ Refuses(c)
      PROVE  Ungrouped'
  BY <1>3, <1>7 DEF Defers, Accepts, Refuses
<1>8. ASSUME NEW c \in Callers, \/ Refreshes(c) \/ Admits(c) \/ Intends(c) \/ Sends(c)
                                \/ RejectsLocally(c) \/ Answers(c) \/ Places(c)
      PROVE  Ungrouped'
  BY <1>1, <1>8 DEF Refreshes, Admits, Intends, Sends, RejectsLocally, Answers, Places, Moves, data
<1>9. ASSUME Crashes PROVE Ungrouped'
  BY <1>9 DEF Crashes
<1>10. CASE \/ \E g \in Groups : Projects(g) \/ Settles(g) \/ BrokerMoves(g)
            \/ Stops \/ Selects \/ Restarts \/ UNCHANGED vars
  BY <1>10 DEF Projects, Settles, BrokerMoves, Stops, Selects, Restarts, calls, data, vars
<1> QED BY <1>2, <1>4, <1>5, <1>6, <1>7, <1>8, <1>9, <1>10 DEF Next, Advances

LEMMA UngroupedInvariance == Spec => []Ungrouped
<1>1. Init => Ungrouped
  BY DEF Init, Ungrouped
<1> QED BY <1>1, UngroupedKept, Invariance, PTL DEF Spec

\* An active analysis is left without a cycle only by a crash, or by a refusal that the
\* database does not take (coordinator.ts:545); no decline, deferral, acceptance or stored refusal does
\* it. And recoverInterruptedAnalyses, run at the start, leaves none that blocks.
THEOREM OnlyFaultsAbandon ==
  Spec => [][/\ \A g \in Groups : ~ Abandoned(g) /\ Abandoned(g)' =>
                  \/ Crashes
                  \/ \E c \in Callers : Refuses(c) /\ at[c] \in Started /\ group[c] = g /\ run' = run
             /\ ~ up /\ up' => \A g \in Groups : ~ Blocks(g)']_vars
<1> DEFINE Faulty(g) ==
             \/ Crashes
             \/ \E c \in Callers : Refuses(c) /\ at[c] \in Started /\ group[c] = g /\ run' = run
<1>1. AdmissionInv /\ Ungrouped /\ [Next]_vars =>
        [\A g \in Groups : ~ Abandoned(g) /\ Abandoned(g)' => Faulty(g)]_vars
  <2> SUFFICES ASSUME AdmissionInv, Ungrouped, Next, NEW g \in Groups,
                      ~ Abandoned(g), Abandoned(g)', ~ Faulty(g)
               PROVE  FALSE
    OBVIOUS
  <2>1. TypeOK /\ g # NoGroup
    BY AdmissionAssumption DEF AdmissionInv
  <2>2. \A d \in Callers : at'[d] \in Started => group'[d] # g
    BY StagesApart DEF Abandoned
  <2>3. Blocks(g)' /\ (Blocks(g) => \E d \in Callers : at[d] \in Started /\ group[d] = g)
    BY <2>1 DEF Abandoned, Ungrouped
  <2> USE DEF TypeOK, Goes
  \* A step that stores no run and leaves every started cycle its group.
  <2>4. ASSUME run' = run,
               \A d \in Callers : at[d] \in Started => at'[d] \in Started /\ group'[d] = group[d]
        PROVE  FALSE
    BY <2>2, <2>3, <2>4 DEF Blocks
  \* One that stores the run of a caller which goes on with it.
  <2>5. ASSUME NEW c \in Callers, at'[c] \in Started, \A h \in Groups : h # group'[c] => run'[h] = run[h],
               \A d \in Callers : at[d] \in Started => at'[d] \in Started /\ group'[d] = group[d]
        PROVE  FALSE
    BY <2>2, <2>3, <2>5 DEF Blocks
  \* One that ends the run of a caller which leaves it.
  <2>6. ASSUME NEW c \in Callers, run' = [run EXCEPT ![group[c]] = "ended"],
               \A d \in Callers \ {c} : at'[d] = at[d] /\ group'[d] = group[d]
        PROVE  FALSE
    <3>1. \A h \in Groups : run'[h] = IF h = group[c] THEN "ended" ELSE run[h]
      BY <2>1, <2>6
    <3>2. g # group[c] /\ Blocks(g)
      BY <2>3, <3>1 DEF Blocks
    <3> QED BY <2>2, <2>3, <2>6, <3>2
  <2>7. ASSUME NEW c \in Callers, Leaves(c)
        PROVE  \A d \in Callers \ {c} : at'[d] = at[d] /\ group'[d] = group[d]
    BY <2>1, <2>7 DEF Leaves
  <2>8. ASSUME NEW c \in Callers, Calls(c) \/ RunsOnce(c) \/ Declines(c)
        PROVE  FALSE
    BY <2>1, <2>4, <2>8 DEF Calls, RunsOnce, Declines, data, journal, Started
  <2>9. ASSUME NEW c \in Callers, Safety(c)
        PROVE  FALSE
    <3>1. run' = run
      BY <2>9 DEF Safety, SafetyReads, SafetyWrites, SafetyAnswers, journal
    <3>2. \/ at' = at /\ group' = group
          \/ at[c] \notin Started /\ \A d \in Callers \ {c} : at'[d] = at[d] /\ group'[d] = group[d]
          \/ Goes(c, "refresh") /\ group' = group
      BY <2>1, <2>7, <2>9 DEF Safety, SafetyReads, SafetyWrites, SafetyAnswers, Started
    <3> QED BY <2>1, <2>4, <3>1, <3>2 DEF Started
  <2>10. ASSUME NEW c \in Callers, Starts(c)
         PROVE  FALSE
    <3>1. PICK h \in Groups : group' = [group EXCEPT ![c] = h] /\ run' = [run EXCEPT ![h] = "PENDING"]
      BY <2>10 DEF Starts
    <3>2. at[c] = "starting" /\ at' = [at EXCEPT ![c] = "collecting"]
      BY <2>10 DEF Starts, Moves
    <3> QED BY <2>1, <2>5, <3>1, <3>2 DEF Started
  <2>11. ASSUME NEW c \in Callers, Collects(c) \/ Features(c) \/ Asks(c) \/ Validates(c)
         PROVE  FALSE
    <3>1. \E to \in Started : at' = [at EXCEPT ![c] = to]
      BY <2>11 DEF Collects, Features, Asks, Validates, Transits, Moves, Started
    <3>2. group' = group /\ \E state : run' = [run EXCEPT ![group[c]] = state]
      BY <2>11 DEF Collects, Features, Asks, Validates, Transits, data
    <3> QED BY <2>1, <2>5, <3>1, <3>2
  <2>12. ASSUME NEW c \in Callers, \/ Decides(c) \/ Refreshes(c) \/ Admits(c) \/ Intends(c) \/ Sends(c)
                                   \/ RejectsLocally(c) \/ Answers(c) \/ Places(c)
         PROVE  FALSE
    <3>1. \E to \in Started : at' = [at EXCEPT ![c] = to]
      BY <2>12 DEF Decides, Refreshes, Admits, Intends, Sends, RejectsLocally, Answers, Places,
                   Moves, Started
    <3>2. group' = group /\ run' = run
      BY <2>12 DEF Decides, Refreshes, Admits, Intends, Sends, RejectsLocally, Answers, Places,
                   data, journal
    <3> QED BY <2>1, <2>4, <3>1, <3>2
  <2>13. ASSUME NEW c \in Callers, Defers(c) \/ Accepts(c)
         PROVE  FALSE
    BY <2>6, <2>7, <2>13 DEF Defers, Accepts
  <2>14. ASSUME NEW c \in Callers, Refuses(c)
         PROVE  FALSE
    <3>1. \A d \in Callers \ {c} : at'[d] = at[d] /\ group'[d] = group[d]
      BY <2>7, <2>14 DEF Refuses
    <3>2. CASE run' = run
      <4>1. ~(at[c] \in Started /\ group[c] = g)
        BY <2>14, <3>2
      <4> QED BY <2>2, <2>3, <3>1, <3>2, <4>1 DEF Blocks
    <3>3. CASE run' = [run EXCEPT ![group[c]] = "ended"]
      BY <2>6, <3>1, <3>3
    <3> QED BY <2>14, <3>2, <3>3 DEF Refuses
  <2>15. ASSUME \/ \E h \in Groups : Projects(h) \/ Settles(h) \/ BrokerMoves(h)
                \/ Stops \/ Selects
         PROVE  FALSE
    <3>1. UNCHANGED <<run, at, group>>
      BY <2>15 DEF Projects, Settles, BrokerMoves, Stops, Selects, calls, data, journal
    <3> QED BY <2>4, <3>1
  <2>16. ASSUME Restarts PROVE FALSE
    BY <2>1, <2>3, <2>16 DEF Restarts, Blocks, Interrupted
  <2> QED
    BY <2>8, <2>9, <2>10, <2>11, <2>12, <2>13, <2>14, <2>15, <2>16 DEF Next, Advances
<1>2. AdmissionInv /\ [Next]_vars => [~ up /\ up' => \A g \in Groups : ~ Blocks(g)']_vars
  <2> SUFFICES ASSUME AdmissionInv, Next, ~ up, up', NEW g \in Groups
               PROVE  ~ Blocks(g)'
    OBVIOUS
  <2>1. Restarts
    <3>1. \A c \in Callers : Calls(c) \/ RunsOnce(c) \/ Declines(c) \/ Safety(c) \/ Advances(c) => up' = up
      BY DEF Calls, RunsOnce, Declines, Safety, SafetyReads, SafetyWrites, SafetyAnswers, Advances,
             Starts, Collects, Features, Asks, Defers, Validates, Decides, Refreshes, Admits, Intends,
             Sends, RejectsLocally, Answers, Places, Accepts, Refuses, Transits
    <3>2. (\E g2 \in Groups : Projects(g2) \/ Settles(g2) \/ BrokerMoves(g2)) \/ Stops \/ Selects => up' = up
      BY DEF Projects, Settles, BrokerMoves, Stops, Selects
    <3>3. ~ Crashes
      BY DEF Crashes
    <3> QED BY <3>1, <3>2, <3>3 DEF Next
  <2> QED BY <2>1 DEF Restarts, Blocks, Interrupted, AdmissionInv, TypeOK
<1> QED
  BY <1>1, <1>2, Invariance, UngroupedInvariance, PTL DEF Spec
=============================================================================

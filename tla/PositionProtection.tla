-------------------------- MODULE PositionProtection --------------------------
(***************************************************************************)
(* PositionProtectionMaintenance over PostgresPositionProtection: every two *)
(* seconds a pass takes a session lock, reads the owned positions and      *)
(* repairs, or closes, those whose broker-held stop is missing or wide.    *)
(*                                                                         *)
(* Several processes may run it (an overlapping release), each one pass at *)
(* a time; a process dies or loses its database session between any two    *)
(* awaits, and a command may reach the broker late or never.  Times are    *)
(* abstracted to what they decide: whether command_at is under 5 s old.    *)
(***************************************************************************)
EXTENDS Naturals, ProtectionPlan

CONSTANTS Positions,   \* the strategy-owned positions
          Malformed,   \* those protectionPlan refuses: volume, price, label or tick
          Processes,   \* the service processes
          NoProcess, NoPosition,
          MaxFaults,   \* bound on awaits that reject: broker, quote age, query
          MaxCrashes,  \* bound on process deaths
          MaxLosses    \* bound on lost database sessions

ASSUME ProtectionAssumption ==
  /\ Malformed \subseteq Positions
  /\ NoProcess \notin Processes
  /\ NoPosition \notin Positions
  /\ MaxFaults \in Nat /\ MaxCrashes \in Nat /\ MaxLosses \in Nat

\* What the broker holds: no stop, a stop to repair (too wide, or no target), the
\* approved protection, or no position any more.
Stops == {"missing", "wide", "exact", "closed"}
Statuses == {"NONE", "VERIFIED", "REPAIR_REQUIRED", "REPAIR_SENT", "UNCERTAIN",
             "CLOSE_REQUIRED", "CLOSE_SENT"}
Commands == {"amend", "close"} \X Positions \X Nat

\* The awaits of a pass, and those of them that are queries of its session.
Queries == {"rows", "observe", "claimRepair", "require", "claimClose", "acknowledge", "failed"}
Steps == Queries \cup {"idle", "next", "read", "quote", "confirm", "amend", "amended",
                       "recheck", "close", "closed"}

VARIABLES row,      \* position_protection, durable
          journal,  \* the journal has the position open, durable
          lock,     \* the process whose session holds the advisory lock
          pass,     \* each process: where its pass is, and what it has read
          stop,     \* the broker's protection of each position
          wire,     \* commands the broker may still act on
          sent,     \* how many commands of each kind left a process (history)
          faults, crashes, losses

durable == <<row, journal>>
broker == <<stop, wire>>
bounds == <<faults, crashes, losses>>
vars == <<durable, lock, pass, broker, sent, bounds>>

Rows == [status : Statuses, attempts : 0 .. 2, cooling : BOOLEAN, closing : BOOLEAN]
NoRow == [status |-> "NONE", attempts |-> 0, cooling |-> FALSE, closing |-> FALSE]
Views == [attempts : 0 .. 2, cooling : BOOLEAN, closing : BOOLEAN]
Passes == [at : Steps, todo : SUBSET Positions, x : Positions \cup {NoPosition},
           plan : Stops, seen : [Positions -> Views]]
\* What a pass keeps of a row it has read.
Known(r) == [attempts |-> r.attempts, cooling |-> r.cooling, closing |-> r.closing]
Resting == [at |-> "idle", todo |-> {}, x |-> NoPosition, plan |-> "missing",
            seen |-> [x \in Positions |-> Known(NoRow)]]

Init ==
  /\ row = [x \in Positions |-> NoRow]
  /\ journal = [x \in Positions |-> TRUE]
  /\ lock = NoProcess
  /\ pass = [p \in Processes |-> Resting]
  /\ stop \in [Positions -> {"missing", "wide"}]
  /\ wire = {}
  /\ sent = [k \in {"amend", "close"} \X Positions |-> 0]
  /\ faults = 0 /\ crashes = 0 /\ losses = 0

At(p, step) == pass[p].at = step
Goto(p, step) == pass' = [pass EXCEPT ![p].at = step]
\* A query of the pass: its session still holds the lock it began with.
Query(p, step) == At(p, step) /\ lock = p
X(p) == pass[p].x
Seen(p) == pass[p].seen[X(p)]
Plan(p) == pass[p].plan
\* reconcileRaw lists the position once and protectionPlan accepts it.
Matches(x) == x \notin Malformed /\ stop[x] # "closed"

-----------------------------------------------------------------------------
(* A pass *)

\* The timer fires; a held lock ends the pass at once.
Lock(p) ==
  /\ At(p, "idle") /\ lock = NoProcess
  /\ lock' = p /\ Goto(p, "rows")
  /\ UNCHANGED <<durable, broker, sent, bounds>>

ReadRows(p) ==
  /\ Query(p, "rows")
  /\ pass' = [pass EXCEPT ![p] =
       [at |-> "next", todo |-> {x \in Positions : journal[x]}, x |-> NoPosition,
        plan |-> "missing", seen |-> [x \in Positions |-> Known(row[x])]]]
  /\ UNCHANGED <<durable, lock, broker, sent, bounds>>

NextPosition(p) ==
  /\ At(p, "next")
  /\ \E x \in pass[p].todo :
       pass' = [pass EXCEPT ![p].at = "read", ![p].x = x, ![p].todo = @ \ {x}]
  /\ UNCHANGED <<durable, lock, broker, sent, bounds>>

Unlock(p) ==
  /\ Query(p, "next") /\ pass[p].todo = {}
  /\ lock' = NoProcess /\ pass' = [pass EXCEPT ![p] = Resting]
  /\ UNCHANGED <<durable, broker, sent, bounds>>

\* maintain: a fresh broker snapshot and the plan drawn from it.
Read(p) ==
  /\ At(p, "read")
  /\ IF Matches(X(p))
     THEN pass' = [pass EXCEPT ![p].at = "observe", ![p].plan = stop[X(p)]]
     ELSE Goto(p, "failed")
  /\ UNCHANGED <<durable, lock, broker, sent, bounds>>

\* Where maintain goes once the observation is stored: a claimed close is never
\* sent again, a command that was recent when the rows were read, and still is, gets
\* time to show, two amendments are enough.
AfterObserve(p) ==
  IF Seen(p).closing \/ Plan(p) = "exact" \/ (Seen(p).cooling /\ row[X(p)].cooling)
  THEN "next"
  ELSE IF Seen(p).attempts < 2 THEN "quote"
  ELSE IF Plan(p) = "missing" THEN "recheck" ELSE "next"

Observe(p) ==
  /\ Query(p, "observe")
  /\ row' = [row EXCEPT ![X(p)].status = IF Seen(p).closing THEN "CLOSE_SENT"
                                         ELSE IF Plan(p) = "exact" THEN "VERIFIED"
                                         ELSE "REPAIR_REQUIRED"]
  /\ Goto(p, AfterObserve(p))
  /\ UNCHANGED <<journal, lock, broker, sent, bounds>>

\* The quote allows the repair, has crossed it, or cannot be had; without a stop
\* the last two lead to a close.
Quote(p) ==
  /\ At(p, "quote")
  /\ \/ Goto(p, "confirm")
     \/ Goto(p, IF Plan(p) = "missing" THEN "recheck" ELSE "next")
     \/ Goto(p, IF Plan(p) = "missing" THEN "recheck" ELSE "failed")
  /\ UNCHANGED <<durable, lock, broker, sent, bounds>>

\* The second snapshot: a plan that changed is left to the next pass.
Confirm(p) ==
  /\ At(p, "confirm")
  /\ Goto(p, IF ~Matches(X(p)) THEN "failed"
             ELSE IF stop[X(p)] = Plan(p) THEN "claimRepair" ELSE "next")
  /\ UNCHANGED <<durable, lock, broker, sent, bounds>>

\* One statement tests and takes a repair: at most two, five seconds apart, none
\* after a close.
ClaimRepair(p) ==
  LET x == X(p) IN
  /\ Query(p, "claimRepair")
  /\ IF row[x].attempts < 2 /\ ~row[x].closing /\ ~row[x].cooling /\ journal[x]
     THEN /\ row' = [row EXCEPT ![x].attempts = @ + 1, ![x].cooling = TRUE,
                                ![x].status = "REPAIR_SENT"]
          /\ Goto(p, "amend")
     ELSE UNCHANGED row /\ Goto(p, "next")
  /\ UNCHANGED <<journal, lock, broker, sent, bounds>>

Send(p, kind) ==
  /\ wire' = wire \cup {<<kind, X(p), sent[<<kind, X(p)>>]>>}
  /\ sent' = [sent EXCEPT ![<<kind, X(p)>>] = @ + 1]

Amend(p) ==
  /\ At(p, "amend")
  /\ Send(p, "amend") /\ Goto(p, "amended")
  /\ UNCHANGED <<durable, lock, stop, bounds>>

\* The answer, an error or a timeout: none is proof of anything.
AmendEnds(p) ==
  /\ At(p, "amended")
  /\ Goto(p, "next") \/ Goto(p, "failed")
  /\ UNCHANGED <<durable, lock, broker, sent, bounds>>

\* closeUnprotected: a stop that arrived meanwhile is left alone.
Recheck(p) ==
  /\ At(p, "recheck")
  /\ Goto(p, IF ~Matches(X(p)) THEN "failed"
             ELSE IF stop[X(p)] = "missing" THEN "require" ELSE "next")
  /\ UNCHANGED <<durable, lock, broker, sent, bounds>>

Require(p) ==
  /\ Query(p, "require")
  /\ row' = [row EXCEPT ![X(p)].status = "CLOSE_REQUIRED"] /\ Goto(p, "claimClose")
  /\ UNCHANGED <<journal, lock, broker, sent, bounds>>

\* Mutant: the close is sent first, and its row waits for the acknowledgement.
ClaimCloseLater(p) ==
  /\ Query(p, "claimClose")
  /\ Goto(p, IF ~row[X(p)].closing /\ journal[X(p)] THEN "close" ELSE "next")
  /\ UNCHANGED <<durable, lock, broker, sent, bounds>>

ClaimClose(p) ==
  LET x == X(p) IN
  /\ Query(p, "claimClose")
  /\ IF ~row[x].closing /\ row[x].status = "CLOSE_REQUIRED" /\ journal[x]
     THEN /\ row' = [row EXCEPT ![x].closing = TRUE, ![x].cooling = TRUE,
                                ![x].status = "CLOSE_SENT"]
          /\ Goto(p, "close")
     ELSE UNCHANGED row /\ Goto(p, "next")
  /\ UNCHANGED <<journal, lock, broker, sent, bounds>>

Close(p) ==
  /\ At(p, "close")
  /\ Send(p, "close") /\ Goto(p, "closed")
  /\ UNCHANGED <<durable, lock, stop, bounds>>

\* A matching acknowledgement is stored (closeAcknowledged); anything else throws.
CloseEnds(p) ==
  /\ At(p, "closed")
  /\ Goto(p, "acknowledge") \/ Goto(p, "failed")
  /\ UNCHANGED <<durable, lock, broker, sent, bounds>>

Acknowledge(p) ==
  /\ Query(p, "acknowledge") /\ Goto(p, "next")
  /\ UNCHANGED <<durable, lock, broker, sent, bounds>>

\* Mutant: the first failure ends the loop.
FailedAborts(p) ==
  /\ Query(p, "failed")
  /\ pass' = [pass EXCEPT ![p].at = "next", ![p].todo = {}]
  /\ UNCHANGED <<durable, lock, broker, sent, bounds>>

\* run: a position that failed is stored as uncertain, and the loop goes on.
Failed(p) ==
  /\ Query(p, "failed")
  /\ row' = [row EXCEPT ![X(p)].status = "UNCERTAIN"] /\ Goto(p, "next")
  /\ UNCHANGED <<journal, lock, broker, sent, bounds>>

\* Any await may reject: in the list of positions or in the catch itself the pass
\* ends, elsewhere the position fails; a claimed command may so never be sent.
Fault(p) ==
  /\ faults < MaxFaults /\ faults' = faults + 1
  /\ pass[p].at \notin {"idle", "next", "quote"}
  /\ pass' = IF pass[p].at \in {"rows", "failed"}
             THEN [pass EXCEPT ![p].at = "next", ![p].todo = {}]
             ELSE [pass EXCEPT ![p].at = "failed"]
  /\ UNCHANGED <<durable, lock, broker, sent, crashes, losses>>

\* The database ends the session, and with it the advisory lock.
LoseSession(p) ==
  /\ lock = p /\ losses < MaxLosses /\ losses' = losses + 1
  /\ lock' = NoProcess
  /\ UNCHANGED <<durable, pass, broker, sent, faults, crashes>>

\* A pass without its session: the next query rejects, and so do the catch's and
\* the unlock's; a claim may have committed although its answer was lost.
Severed(p) ==
  /\ lock # p
  /\ pass[p].at \in Queries \cup {"next", "amend", "close"}
  /\ pass' = [pass EXCEPT ![p] = Resting]
  /\ UNCHANGED <<durable, lock, broker, sent, bounds>>

Crash(p) ==
  /\ crashes < MaxCrashes /\ crashes' = crashes + 1
  /\ pass' = [pass EXCEPT ![p] = Resting]
  /\ lock' = IF lock = p THEN NoProcess ELSE lock
  /\ UNCHANGED <<durable, broker, sent, faults, losses>>

-----------------------------------------------------------------------------
(* Time, and the broker: external *)

\* command_at becomes five seconds old.
Elapse(x) ==
  /\ row[x].cooling /\ row' = [row EXCEPT ![x].cooling = FALSE]
  /\ UNCHANGED <<journal, lock, pass, broker, sent, bounds>>

\* The execution journal learns that the position is closed.
JournalClosed(x) ==
  /\ stop[x] = "closed" /\ journal[x] /\ journal' = [journal EXCEPT ![x] = FALSE]
  /\ UNCHANGED <<row, lock, pass, broker, sent, bounds>>

\* The broker executes a command, or refuses or never gets it.
BrokerActs(c) ==
  /\ c \in wire /\ wire' = wire \ {c}
  /\ \/ stop' = [stop EXCEPT ![c[2]] = IF @ = "closed" \/ c[1] = "close" THEN "closed" ELSE "exact"]
     \/ UNCHANGED stop
  /\ UNCHANGED <<durable, lock, pass, sent, bounds>>

\* A native stop arrives late, or the position ends by itself.
BrokerMoves(x) ==
  /\ \/ stop[x] = "missing" /\ \E s \in {"wide", "exact"} : stop' = [stop EXCEPT ![x] = s]
     \/ stop[x] # "closed" /\ stop' = [stop EXCEPT ![x] = "closed"]
  /\ UNCHANGED <<durable, lock, pass, wire, sent, bounds>>

-----------------------------------------------------------------------------

Step(p) ==
  \/ ReadRows(p) \/ NextPosition(p) \/ Unlock(p) \/ Read(p) \/ Observe(p) \/ Quote(p)
  \/ Confirm(p) \/ ClaimRepair(p) \/ Amend(p) \/ AmendEnds(p) \/ Recheck(p) \/ Require(p)
  \/ ClaimClose(p) \/ Close(p) \/ CloseEnds(p) \/ Acknowledge(p) \/ Failed(p) \/ Severed(p)

Next ==
  \/ \E p \in Processes : Lock(p) \/ Step(p) \/ Fault(p) \/ LoseSession(p) \/ Crash(p)
  \/ \E x \in Positions : Elapse(x) \/ JournalClosed(x) \/ BrokerMoves(x)
  \/ \E c \in wire : BrokerActs(c)

Spec == Init /\ [][Next]_vars

\* The timers fire, continuations run and every await of the client, the quote
\* service and the pool ends by itself or by a timeout.  Nothing of the broker.
Fairness ==
  /\ \A p \in Processes : WF_vars(Lock(p)) /\ WF_vars(Step(p))
  /\ \A x \in Positions : WF_vars(Elapse(x))

FairSpec == Spec /\ Fairness

-----------------------------------------------------------------------------
(* Properties *)

\* The rows are those the table's CHECKs admit (repair_attempts is 0, 1 or 2), and
\* passes, commands and counters keep their types; proved for every instance.
TypeOK ==
  /\ row \in [Positions -> Rows]
  /\ journal \in [Positions -> BOOLEAN]
  /\ lock \in Processes \cup {NoProcess}
  /\ pass \in [Processes -> Passes]
  /\ stop \in [Positions -> Stops]
  /\ wire \subseteq Commands
  /\ sent \in [{"amend", "close"} \X Positions -> Nat]
  /\ faults \in 0 .. MaxFaults /\ crashes \in 0 .. MaxCrashes /\ losses \in 0 .. MaxLosses

\* "One durable, position-specific close", and "bounded durable repair attempts":
\* whatever times out, restarts, overlaps or loses its session, a position is sent
\* at most two amendments and one close.
CommandsBounded ==
  \A x \in Positions : sent[<<"amend", x>>] <= 2 /\ sent[<<"close", x>>] <= 1

\* "Restore approved distances from actual VWAP" (position-protection.ts:95): an amendment
\* the broker executes, however late and whatever it was planned from, leaves a position
\* that no pass repairs again, at no greater loss than was approved.
AmendmentsRestore ==
  [][\A c \in wire \ wire' : c[1] = "amend" /\ stop' # stop =>
       \A o \in Amended : o.verdict = stop'[c[2]] /\ o.within]_vars

\* "Repair missing SL when executable; use one durable close when missing SL cannot
\* be repaired", and "one malformed position must not starve another": a position
\* without a stop gets one, ends, or has its close claimed.
UnprotectedHandled ==
  \A x \in Positions \ Malformed :
    stop[x] = "missing" ~> stop[x] # "missing" \/ row[x].closing

=============================================================================

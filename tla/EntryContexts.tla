----------------------------- MODULE EntryContexts -----------------------------
(***************************************************************************)
(* ReusableScenarioModel over PostgresContextStore: the paid requests for  *)
(* an entry plan, and what a returned plan may still be used for.          *)
(*                                                                         *)
(* A context is requested by a claim under the advisory lock of its scope, *)
(* answered by a task of the process that claimed it, reused by the cycles *)
(* of every process while it is neither expired, retired nor traded, and   *)
(* traded when a cycle stores an order group that names it. Several        *)
(* processes may run (an overlapping release, an older worker), each one   *)
(* cycle at a time; what a cycle read of the latest context may be old     *)
(* when it acts. Time passes in minutes between any two steps; delays of   *)
(* seconds (nextEvaluationAt) only postpone a cycle and are left out.      *)
(***************************************************************************)
EXTENDS Naturals

CONSTANTS Workers,      \* the service processes
          MaxContexts,  \* bound on the requests
          Cooldown      \* dispatchCooldownMs, in minutes

ASSUME ContextAssumption ==
  MaxContexts \in Nat /\ Cooldown \in Nat \ {0}

\* localCircuitRecheckMs, the age of a wait before its successor, and the 65 seconds kept
\* for submitting a reused plan, in minutes.
Minute == 1
Reserve(plan) == IF plan = "scalp" THEN 0 ELSE Minute

\* A context is claimed for itself or as the one successor of a traded, retired or waiting one.
Grounds == {"ordinary", "terminal", "entry", "wait"}
Ids == 1 .. MaxContexts

Contexts ==
  [state : {"ABSENT", "REQUESTING", "READY", "FAILED", "REJECTED"}, \* REJECTED: AI_CIRCUIT_OPEN
   requested : Nat, available : Nat, until : Nat,
   plan : {"none", "pair", "scalp", "wait"},
   ground : Grounds, parent : 0 .. MaxContexts,
   retired : BOOLEAN,                                 \* has its context_entry_retirements
   setup : {"none", "open", "ended", "unproven"}]     \* the order group that names it
NoContext ==
  [state |-> "ABSENT", requested |-> 0, available |-> 0, until |-> 0, plan |-> "none",
   ground |-> "ordinary", parent |-> 0, retired |-> FALSE, setup |-> "none"]

VARIABLES
  context,   \* scenario_contexts in the order of their claims, with what hangs on each
  claimed,   \* how many there are
  minute,    \* the database's clock
  cycle,     \* what each process's cycle is doing, and to which context
  task       \* the context whose answer a process awaits, or 0

contextVars == <<context, claimed, minute, cycle, task>>

Cycles == [at : {"idle", "retire", "claim", "prepared", "intent"},
           on : 0 .. MaxContexts, ground : Grounds]
NoCycle == [at |-> "idle", on |-> 0, ground |-> "ordinary"]

ContextInit ==
  /\ context = [i \in Ids |-> NoContext]
  /\ claimed = 0 /\ minute = 0
  /\ cycle = [w \in Workers |-> NoCycle]
  /\ task = [w \in Workers |-> 0]

Doing(w, step) == cycle[w].at = step
Does(w, step, i, g) == cycle' = [cycle EXCEPT ![w] = [at |-> step, on |-> i, ground |-> g]]
Rests(w) == cycle' = [cycle EXCEPT ![w] = NoCycle]

Latest == IF claimed = 0 THEN NoContext ELSE context[claimed]
Requests == 1 .. claimed
Recent(i) == minute < context[i].requested + Cooldown
\* Mutant of Locked: the intent does not hold the row.
LockedNever(i) == FALSE
\* An uncommitted intent holds the row of its context (guard_entry_context_transition).
Locked(i) == \E w \in Workers : Doing(w, "intent") /\ cycle[w].on = i
-----------------------------------------------------------------------------
(* What a cycle makes of the latest context: prepare *)

Reusable(r) ==
  /\ r.state = "READY" /\ r.plan \in {"pair", "scalp"}
  /\ r.setup = "none" /\ ~r.retired
  /\ minute + Reserve(r.plan) < r.until
Waiting(r) == r.state = "READY" /\ r.plan = "wait" /\ r.setup = "none"
Concluded(r) == r.state = "READY" /\ r.setup = "ended"
Replaceable(r) ==
  /\ r.state = "READY" /\ r.setup = "none" /\ r.retired /\ r.ground # "entry"
  /\ minute < r.requested + Cooldown
Elapsed(r) ==
  \/ r.state = "ABSENT"
  \/ minute >= r.requested + (IF r.state = "REJECTED" THEN Minute ELSE Cooldown)

\* The ground on which prepare asks for a successor of r, if it asks at all.
Asks(r, g) ==
  CASE Waiting(r) -> g = "wait" /\ minute >= r.available + Minute
    [] Concluded(r) -> g = "terminal"
    [] Replaceable(r) -> g = "entry"
    [] OTHER -> g = "ordinary" /\ Elapsed(r)

\* The map is handed to the coordinator, or (a pair only) its prices are too close by now.
Reuse(w) ==
  /\ Doing(w, "idle") /\ Reusable(Latest)
  /\ \/ Does(w, "prepared", claimed, "ordinary")
     \/ Latest.plan = "pair" /\ Does(w, "retire", claimed, "ordinary")
  /\ UNCHANGED <<context, claimed, minute, task>>

Ask(w) ==
  /\ Doing(w, "idle") /\ ~Reusable(Latest) /\ task[w] = 0
  /\ \E g \in Grounds : Asks(Latest, g) /\ Does(w, "claim", claimed, g)
  /\ UNCHANGED <<context, claimed, minute, task>>
-----------------------------------------------------------------------------
(* The claim, one statement under the advisory lock *)

NoneActive == \A i \in Requests : context[i].setup # "open"
\* READY, or refused by the local circuit before any request was dispatched.
Accounted(i) == context[i].state \in {"READY", "REJECTED"}
NoneWithinMinute == \A i \in Requests : context[i].requested + Minute <= minute
Successor(p, g) == \E i \in Requests : context[i].parent = p /\ context[i].ground = g
\* The parent of an early request: answered, the newest, and without a successor of its kind.
Parents(p, g) == p # 0 /\ p = claimed /\ context[p].state = "READY" /\ ~Successor(p, g)

\* Mutants of AdmitsOrdinary: a failed call is not waited for; an unanswered one for ever.
AdmitsOrdinaryForgiving ==
  NoneWithinMinute /\ \A i \in Requests : Recent(i) => context[i].state \in {"FAILED", "REJECTED"}
AdmitsOrdinaryPatient ==
  /\ NoneWithinMinute
  /\ \A i \in Requests : context[i].state = "REQUESTING" \/ Recent(i) => context[i].state = "REJECTED"
AdmitsOrdinary ==
  NoneWithinMinute /\ \A i \in Requests : Recent(i) => context[i].state = "REJECTED"
AdmitsTerminal(p) == Parents(p, "terminal") /\ context[p].setup = "ended"
AdmitsEntry(p) ==
  /\ Parents(p, "entry") /\ Recent(p)
  /\ context[p].plan = "pair" /\ context[p].ground # "entry"
  /\ context[p].retired /\ context[p].setup = "none"
  /\ \A i \in Requests : Recent(i) => Accounted(i)
AdmitsWait(p) ==
  /\ Parents(p, "wait") /\ context[p].plan = "wait" /\ context[p].setup = "none"
  /\ context[p].available + Minute <= minute
  /\ NoneWithinMinute /\ \A i \in Requests : Recent(i) => Accounted(i)

Admits(g, p) ==
  /\ NoneActive
  /\ \/ g = "ordinary" /\ AdmitsOrdinary
     \/ g = "terminal" /\ AdmitsTerminal(p)
     \/ g = "entry" /\ AdmitsEntry(p)
     \/ g = "wait" /\ AdmitsWait(p)

Claims(w, g, p) ==
  /\ claimed < MaxContexts
  /\ claimed' = claimed + 1
  /\ context' = [context EXCEPT ![claimed + 1] =
       [NoContext EXCEPT !.state = "REQUESTING", !.requested = minute,
          !.until = minute + Cooldown, !.ground = g,
          !.parent = IF g = "ordinary" THEN 0 ELSE p]]
  /\ task' = [task EXCEPT ![w] = claimed + 1]

Claim(w) ==
  /\ Doing(w, "claim")
  /\ IF Admits(cycle[w].ground, cycle[w].on)
     THEN Claims(w, cycle[w].ground, cycle[w].on)
     ELSE UNCHANGED <<context, claimed, task>>
  /\ Rests(w)
  /\ UNCHANGED minute
-----------------------------------------------------------------------------
(* The detached task: finish, then the recheck on the provider's return *)

Awaits(w, i) == task[w] = i /\ i # 0 /\ context[i].state = "REQUESTING"

\* A plan that validates; a scalp brings an expiry of its own.
Answered(w, i) ==
  \E plan \in {"pair", "scalp", "wait"}, until \in minute + 1 .. context[i].until :
    /\ plan # "scalp" => until = context[i].until
    /\ context' = [context EXCEPT ![i].state = "READY", ![i].plan = plan,
                     ![i].until = until, ![i].available = minute]
    /\ UNCHANGED task
Refused(w, i) ==
  /\ \E s \in {"FAILED", "REJECTED"} : context' = [context EXCEPT ![i].state = s]
  /\ task' = [task EXCEPT ![w] = 0]
\* SCENARIO_JOURNAL_UNAVAILABLE: the context stays REQUESTING.
Unrecorded(w) == task' = [task EXCEPT ![w] = 0] /\ UNCHANGED context

Answer(w) ==
  \E i \in Requests :
    /\ Awaits(w, i)
    /\ Answered(w, i) \/ Refused(w, i) \/ Unrecorded(w)
    /\ UNCHANGED <<claimed, minute, cycle>>

\* retireEntryContext: waits for the row, then refuses a context that an intent names.
Retirable(i) == context[i].state = "READY" /\ context[i].plan = "pair" /\ context[i].setup = "none"
Retires(i) ==
  /\ ~Locked(i)
  /\ context' = [context EXCEPT ![i].retired = @ \/ Retirable(i)]

RecheckReturn(w) ==
  \E i \in Requests :
    /\ task[w] = i /\ context[i].state = "READY"
    /\ (i = claimed /\ Retires(i)) \/ UNCHANGED context
    /\ task' = [task EXCEPT ![w] = 0]
    /\ UNCHANGED <<claimed, minute, cycle>>
-----------------------------------------------------------------------------
(* A cycle that reuses the map *)

\* LOCAL_REUSE: a retired map may be replaced by the same cycle.
RetireStale(w) ==
  LET i == cycle[w].on IN
  /\ Doing(w, "retire") /\ Retires(i)
  /\ IF Retirable(i) /\ context[i].ground # "entry" /\ task[w] = 0
     THEN Does(w, "claim", i, "entry") ELSE Rests(w)
  /\ UNCHANGED <<claimed, minute, task>>

\* The coordinator rejects the decision; POST_MODEL and later, it retires prices too close.
Reject(w) ==
  LET i == cycle[w].on IN
  /\ Doing(w, "prepared") /\ Rests(w)
  /\ (i = claimed /\ Retires(i)) \/ UNCHANGED context
  /\ UNCHANGED <<claimed, minute, task>>

\* Mutant of Authorized: the expiry of the map is left to the broker.
AuthorizedLate(i) ==
  context[i].state = "READY" /\ context[i].setup = "none" /\ ~context[i].retired

\* trail.intent: the group is inserted, its triggers hold and check the context.
Authorized(i) ==
  /\ context[i].state = "READY" /\ context[i].setup = "none" /\ ~context[i].retired
  /\ context[i].plan = "scalp" => minute < context[i].until
Intend(w) ==
  LET i == cycle[w].on IN
  /\ Doing(w, "prepared") /\ ~Locked(i)
  /\ IF Authorized(i) THEN Does(w, "intent", i, "ordinary") ELSE Rests(w)
  /\ UNCHANGED <<context, claimed, minute, task>>

\* The transaction commits, or is rolled back.
Commit(w) ==
  /\ Doing(w, "intent") /\ Rests(w)
  /\ \/ context' = [context EXCEPT ![cycle[w].on].setup = "open"]
     \/ UNCHANGED context
  /\ UNCHANGED <<claimed, minute, task>>

\* The setup ends with the evidence latest and claim ask for, or (for a while) without.
Conclude ==
  \E i \in Requests :
    /\ \/ context[i].setup = "open" /\
          \E s \in {"ended", "unproven"} : context' = [context EXCEPT ![i].setup = s]
       \/ context[i].setup = "unproven" /\ context' = [context EXCEPT ![i].setup = "ended"]
    /\ UNCHANGED <<claimed, minute, cycle, task>>

\* Before the first request, and beyond the cooldown of the latest, the clock decides nothing.
Tick ==
  /\ claimed > 0 /\ minute <= Latest.requested + Cooldown
  /\ minute' = minute + 1
  /\ UNCHANGED <<context, claimed, cycle, task>>

\* The process dies: its transaction is rolled back, its answer is never recorded.
Restart(w) ==
  /\ Rests(w) /\ task' = [task EXCEPT ![w] = 0]
  /\ UNCHANGED <<context, claimed, minute>>

Cycling(w) == Reuse(w) \/ Ask(w) \/ Claim(w) \/ RetireStale(w) \/ Reject(w) \/ Intend(w) \/ Commit(w)
Tasks(w) == Answer(w) \/ RecheckReturn(w)
ContextNext ==
  \/ \E w \in Workers : Cycling(w) \/ Tasks(w) \/ Restart(w)
  \/ Conclude \/ Tick
ContextSpec == ContextInit /\ [][ContextNext]_contextVars
-----------------------------------------------------------------------------
ContextTyped ==
  /\ context \in [Ids -> Contexts] /\ claimed \in 0 .. MaxContexts
  /\ minute \in Nat
  /\ cycle \in [Workers -> Cycles] /\ task \in [Workers -> 0 .. MaxContexts]

\* "at most one potentially dispatched refresh per account/symbol/mode per five minutes ...
\* for failed/unknown or unconsumed contexts" (docs/architecture.md:283): another request
\* within the cooldown means that every earlier one was answered, or never left; and within
\* a minute, that it succeeds a map that was traded to its end or retired.
SpacedRequests ==
  \A i, j \in Requests :
    i < j /\ context[j].requested < context[i].requested + Cooldown =>
      /\ Accounted(i)
      /\ context[j].requested < context[i].requested + Minute =>
           \E k \in i + 1 .. j : context[k].ground \in {"terminal", "entry"}

\* A map is traded or given up, never both, whatever process did the other in between: an
\* early replacement stands for a map no order group names now or later.
TradedOrReplaced ==
  \A i \in Requests : context[i].setup # "none" =>
    /\ ~context[i].retired
    /\ ~Successor(i, "entry") /\ ~Successor(i, "wait")

\* "old prices are not repeatedly evaluated" (docs/architecture.md:234): however long a
\* cycle held a scalp map, its intent is not stored once another map was requested.
ScalpTradedNewest ==
  [][\A w \in Workers :
       ~Doing(w, "intent") /\ Doing(w, "intent")' /\ context[cycle'[w].on].plan = "scalp" =>
         cycle'[w].on = claimed]_contextVars

\* Cycles recur, the planner answers within its timeout, transactions end, time passes.
ContextFairness ==
  /\ \A w \in Workers : WF_contextVars(Cycling(w)) /\ WF_contextVars(Tasks(w))
  /\ WF_contextVars(Tick)
ContextFairSpec == ContextSpec /\ ContextFairness

\* A restart that does what no step of the process does itself.
Interrupts(w) == Restart(w) /\ ~Cycling(w) /\ ~Tasks(w)

\* Backing off ends: whatever became of the latest request (failed, lost with its process,
\* retired twice, expired untraded), another is made, unless a setup is open or processes
\* are restarted for ever.
RequestsResume ==
  <>[][~\E w \in Workers : Interrupts(w)]_contextVars =>
  \A i \in 1 .. MaxContexts - 1 :
    claimed = i ~> claimed > i \/ ~NoneActive
=============================================================================

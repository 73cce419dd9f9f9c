-------------------------- MODULE EntryContextsProofs --------------------------
(***************************************************************************)
(* Proofs about EntryContexts, for any processes, any cooldown and any     *)
(* number of requests: type correctness, the spacing of the requests, that *)
(* a map is traded or given up but never both, and that a scalp map is     *)
(* traded only while it is the newest.                                     *)
(*                                                                         *)
(* What no step undoes (Stable) carries the facts on which a context was   *)
(* once admitted (Follows) to the moment an older one is traded.           *)
(***************************************************************************)
EXTENDS EntryContexts, TLAPS

\* What a context keeps, whatever a cycle still believes of it.
Kept(i) ==
  LET r == context[i] IN
  /\ r.requested <= minute /\ r.until <= r.requested + Cooldown
  /\ r.plan # "none" => r.state = "READY"
  /\ r.setup # "none" => r.state = "READY" /\ r.plan \in {"pair", "scalp"} /\ ~r.retired /\ ~Locked(i)
  /\ r.retired => r.state = "READY" /\ r.plan = "pair" /\ ~Locked(i)

\* The ground of a request still holds of the context before it.
Follows(j) ==
  LET r == context[j]  p == context[j - 1] IN
  /\ r.ground = "ordinary" => j = 1 \/ r.requested >= p.requested + Cooldown \/ p.state = "REJECTED"
  /\ r.ground # "ordinary" => j > 1 /\ r.parent = j - 1
  /\ r.ground = "terminal" => p.setup = "ended"
  /\ r.ground = "entry" => p.retired
  /\ r.ground = "wait" => p.plan = "wait"

\* A cycle holds a map that was answered, or nothing.
Held(w) ==
  /\ cycle[w].on \in 0 .. claimed
  /\ cycle[w].at \in {"retire", "prepared", "intent"} =>
       /\ cycle[w].on \in Requests
       /\ context[cycle[w].on].state = "READY" /\ context[cycle[w].on].plan \in {"pair", "scalp"}

\* The row of a context is held by one transaction.
Exclusive == \A v, w \in Workers :
  Doing(v, "intent") /\ Doing(w, "intent") /\ cycle[v].on = cycle[w].on => v = w

ContextsInv ==
  /\ ContextTyped
  /\ \A i \in Requests : Kept(i)
  /\ \A j \in Requests : Follows(j)
  /\ \A w \in Workers : Held(w)
  /\ Exclusive /\ SpacedRequests

-----------------------------------------------------------------------------
(* Types *)

LEMMA NoContextTyped == NoContext \in Contexts
BY ContextAssumption DEF NoContext, Contexts, Grounds

LEMMA ZeroTask == 0 \in 0 .. MaxContexts
BY ContextAssumption

LEMMA NoCycleTyped == NoCycle \in Cycles
BY ContextAssumption DEF NoCycle, Cycles, Grounds

\* A step of a cycle leaves the cycles typed.
LEMMA DoesTyped ==
  ASSUME ContextTyped, NEW w \in Workers, NEW i \in 0 .. MaxContexts, NEW g \in Grounds,
         NEW step \in {"idle", "retire", "claim", "prepared", "intent"},
         Does(w, step, i, g) \/ Rests(w)
  PROVE  cycle' \in [Workers -> Cycles]
<1>1. [at |-> step, on |-> i, ground |-> g] \in Cycles
  BY DEF Cycles
<1>2. QED BY <1>1, NoCycleTyped DEF Does, Rests, ContextTyped

\* An index without a context changes nothing.
LEMMA RetiresTyped ==
  ASSUME ContextTyped, NEW i, Retires(i)
  PROVE  context' \in [Ids -> Contexts]
<1>1. CASE i \in Ids
  <2>1. context[i].retired \/ Retirable(i) \in BOOLEAN
    BY <1>1 DEF ContextTyped, Contexts, Retirable
  <2>2. [context[i] EXCEPT !.retired = @ \/ Retirable(i)] \in Contexts
    BY <1>1, <2>1 DEF ContextTyped, Contexts
  <2>3. QED BY <1>1, <2>2 DEF Retires, ContextTyped
<1>2. CASE i \notin Ids
  BY <1>2 DEF Retires, ContextTyped
<1>3. QED BY <1>1, <1>2

LEMMA ClaimsTyped ==
  ASSUME ContextTyped, NEW w \in Workers, NEW g \in Grounds, NEW p \in 0 .. MaxContexts,
         Claims(w, g, p)
  PROVE  /\ context' \in [Ids -> Contexts] /\ claimed' \in 0 .. MaxContexts
         /\ task' \in [Workers -> 0 .. MaxContexts]
<1>1. claimed + 1 \in Ids /\ claimed + 1 \in 0 .. MaxContexts
  BY ContextAssumption DEF Claims, ContextTyped, Ids
<1>2. (IF g = "ordinary" THEN 0 ELSE p) \in 0 .. MaxContexts /\ minute + Cooldown \in Nat
  BY ContextAssumption DEF ContextTyped
<1>3. [NoContext EXCEPT !.state = "REQUESTING", !.requested = minute,
         !.until = minute + Cooldown, !.ground = g,
         !.parent = IF g = "ordinary" THEN 0 ELSE p] \in Contexts
  BY <1>2, NoContextTyped DEF Contexts, ContextTyped
<1>4. QED BY <1>1, <1>3 DEF Claims, ContextTyped

\* No step of a cycle breaks a type.
LEMMA CyclingTyped ==
  ASSUME ContextTyped, NEW w \in Workers, Cycling(w)
  PROVE  ContextTyped'
<1>1. /\ claimed \in 0 .. MaxContexts /\ cycle[w].on \in 0 .. MaxContexts
      /\ cycle[w].ground \in Grounds /\ "ordinary" \in Grounds /\ "entry" \in Grounds
  BY DEF ContextTyped, Cycles, Grounds
<1>2. CASE Reuse(w)
  BY <1>1, <1>2, DoesTyped DEF Reuse, ContextTyped
<1>3. CASE Ask(w)
  <2>1. PICK g \in Grounds : Does(w, "claim", claimed, g)
    BY <1>3 DEF Ask
  <2>2. QED BY <1>1, <1>3, <2>1, DoesTyped DEF Ask, ContextTyped
<1>4. CASE Claim(w)
  <2>1. /\ context' \in [Ids -> Contexts] /\ claimed' \in 0 .. MaxContexts
        /\ task' \in [Workers -> 0 .. MaxContexts]
    <3>1. CASE Claims(w, cycle[w].ground, cycle[w].on)
      BY <1>1, <3>1, ClaimsTyped
    <3>2. QED BY <1>4, <3>1 DEF Claim, ContextTyped
  <2>2. cycle' \in [Workers -> Cycles]
    BY <1>1, <1>4, DoesTyped DEF Claim
  <2>3. QED BY <1>4, <2>1, <2>2 DEF Claim, ContextTyped
<1>5. CASE RetireStale(w)
  BY <1>1, <1>5, DoesTyped, RetiresTyped DEF RetireStale, ContextTyped, Retirable
<1>6. CASE Reject(w)
  BY <1>1, <1>6, DoesTyped, RetiresTyped DEF Reject, ContextTyped
<1>7. CASE Intend(w)
  BY <1>1, <1>7, DoesTyped DEF Intend, ContextTyped
<1>8. CASE Commit(w)
  <2>1. cycle' \in [Workers -> Cycles]
    BY <1>1, <1>8, DoesTyped DEF Commit
  <2>2. context' \in [Ids -> Contexts]
    BY <1>8 DEF Commit, ContextTyped, Contexts
  <2>3. QED BY <1>8, <2>1, <2>2 DEF Commit, ContextTyped
<1>9. QED BY <1>2, <1>3, <1>4, <1>5, <1>6, <1>7, <1>8 DEF Cycling

LEMMA TasksTyped ==
  ASSUME ContextTyped, NEW w \in Workers, Tasks(w)
  PROVE  ContextTyped'
<1>1. CASE Answer(w)
  <2>1. PICK i \in Requests : /\ Awaits(w, i)
                              /\ Answered(w, i) \/ Refused(w, i) \/ Unrecorded(w)
                              /\ UNCHANGED <<claimed, minute, cycle>>
    BY <1>1 DEF Answer
  <2>2. i \in Ids
    BY ContextAssumption DEF Requests, Ids, ContextTyped
  <2>3. CASE Answered(w, i)
    <3>1. PICK plan \in {"pair", "scalp", "wait"}, until \in minute + 1 .. context[i].until :
            context' = [context EXCEPT ![i].state = "READY", ![i].plan = plan,
                          ![i].until = until, ![i].available = minute]
      BY <2>3 DEF Answered
    <3>2. context[i].until \in Nat /\ until \in Nat
      BY <2>2 DEF ContextTyped, Contexts
    <3>3. [context[i] EXCEPT !.state = "READY", !.plan = plan, !.until = until,
             !.available = minute] \in Contexts
      BY <2>2, <3>2 DEF ContextTyped, Contexts
    <3> context' \in [Ids -> Contexts]
      BY <2>2, <3>1, <3>3 DEF ContextTyped
    <3>4. QED BY <2>1, <2>3 DEF Answered, ContextTyped
  <2>4. CASE Refused(w, i)
    <3>1. PICK s \in {"FAILED", "REJECTED"} : context' = [context EXCEPT ![i].state = s]
      BY <2>4 DEF Refused
    <3>2. context' \in [Ids -> Contexts]
      BY <2>2, <3>1 DEF ContextTyped, Contexts
    <3>3. QED BY <2>1, <2>4, <3>2, ZeroTask DEF Refused, ContextTyped
  <2>5. CASE Unrecorded(w)
    BY <2>1, <2>5, ZeroTask DEF Unrecorded, ContextTyped
  <2>6. QED BY <2>1, <2>3, <2>4, <2>5
<1>2. CASE RecheckReturn(w)
  BY <1>2, RetiresTyped, ZeroTask DEF RecheckReturn, ContextTyped
<1>3. QED BY <1>1, <1>2 DEF Tasks

LEMMA ContextNextTyped == ContextTyped /\ [ContextNext]_contextVars => ContextTyped'
<1> SUFFICES ASSUME ContextTyped, [ContextNext]_contextVars PROVE ContextTyped'
  OBVIOUS
<1>1. ASSUME NEW w \in Workers, Restart(w) PROVE ContextTyped'
  BY <1>1, NoCycleTyped, ZeroTask DEF Restart, Rests, ContextTyped
<1>2. CASE Conclude
  <2>1. PICK i \in Requests : \/ \E s \in {"ended", "unproven"} :
                                   context' = [context EXCEPT ![i].setup = s]
                              \/ context' = [context EXCEPT ![i].setup = "ended"]
    BY <1>2 DEF Conclude
  <2>2. context' \in [Ids -> Contexts]
    BY <2>1 DEF ContextTyped, Contexts
  <2>3. QED BY <1>2, <2>2 DEF Conclude, ContextTyped
<1>3. CASE Tick
  BY <1>3 DEF Tick, ContextTyped
<1>4. CASE UNCHANGED contextVars
  BY <1>4 DEF contextVars, ContextTyped
<1>5. QED BY <1>1, <1>2, <1>3, <1>4, CyclingTyped, TasksTyped DEF ContextNext

\* Contexts, their number, the clock, the cycles and the tasks keep their types, whatever
\* processes claim, answer, retire, trade or restart.
THEOREM ContextsTyped == ContextSpec => []ContextTyped
<1>1. ContextInit => ContextTyped
  BY NoContextTyped, NoCycleTyped, ContextAssumption DEF ContextInit, ContextTyped
<1>2. QED BY <1>1, ContextNextTyped, PTL DEF ContextSpec
-----------------------------------------------------------------------------
(* What no step undoes *)

\* A request keeps its time, ground and parent; an answer, an end and a retirement stay.
Stable(i) ==
  /\ context'[i].requested = context[i].requested
  /\ context'[i].ground = context[i].ground /\ context'[i].parent = context[i].parent
  /\ context[i].state # "REQUESTING" =>
       context'[i].state = context[i].state /\ context'[i].plan = context[i].plan
  /\ context[i].setup = "ended" => context'[i].setup = "ended"
  /\ context[i].retired => context'[i].retired

LEMMA RequestsTyped ==
  ASSUME ContextTyped, NEW i \in Requests
  PROVE  i \in Ids /\ i \in Nat /\ context[i] \in Contexts /\ claimed \in Nat
BY ContextAssumption DEF Requests, Ids, ContextTyped

LEMMA UnchangedStable ==
  ASSUME UNCHANGED context, NEW i
  PROVE  Stable(i)
BY DEF Stable

LEMMA ClaimStable ==
  ASSUME ContextTyped, NEW w \in Workers, Claim(w), NEW i \in Requests
  PROVE  Stable(i)
<1>1. i \in Ids /\ i # claimed + 1
  BY RequestsTyped DEF Requests
<1>2. context'[i] = context[i]
  BY <1>1 DEF Claim, Claims, ContextTyped
<1>3. QED BY <1>2 DEF Stable

LEMMA AnswerStable ==
  ASSUME ContextTyped, NEW w \in Workers, Answer(w), NEW i \in Requests
  PROVE  Stable(i)
<1>1. PICK k \in Requests : /\ Awaits(w, k)
                            /\ Answered(w, k) \/ Refused(w, k) \/ Unrecorded(w)
  BY DEF Answer
<1>2. k \in Ids /\ i \in Ids /\ context[i] \in Contexts /\ context[k] \in Contexts
  BY RequestsTyped
<1>3. \/ context' = context
      \/ \E s \in {"FAILED", "REJECTED"} : context' = [context EXCEPT ![k].state = s]
      \/ \E plan, until :
           context' = [context EXCEPT ![k].state = "READY", ![k].plan = plan,
                         ![k].until = until, ![k].available = minute]
  BY <1>1 DEF Answered, Refused, Unrecorded
<1>4. CASE i = k
  <2>1. context[i].state = "REQUESTING"
    BY <1>1, <1>4 DEF Awaits
  <2>2. ASSUME NEW s, context' = [context EXCEPT ![k].state = s] PROVE Stable(i)
    BY <1>2, <1>4, <2>1, <2>2 DEF Stable, ContextTyped, Contexts
  <2>3. ASSUME NEW plan, NEW until,
               context' = [context EXCEPT ![k].state = "READY", ![k].plan = plan,
                             ![k].until = until, ![k].available = minute]
        PROVE  Stable(i)
    <3>1. context'[i] = [context[i] EXCEPT !.state = "READY", !.plan = plan,
                           !.until = until, !.available = minute]
      BY <1>2, <1>4, <2>3 DEF ContextTyped
    <3>2. QED BY <1>2, <2>1, <3>1 DEF Stable, Contexts
  <2>4. QED BY <1>3, <2>2, <2>3, UnchangedStable
<1>5. CASE i # k
  <2>1. context'[i] = context[i]
    BY <1>2, <1>3, <1>5 DEF ContextTyped
  <2>2. QED BY <2>1 DEF Stable
<1>6. QED BY <1>4, <1>5

LEMMA RetiresStable ==
  ASSUME ContextTyped, NEW k, Retires(k), NEW i \in Requests
  PROVE  Stable(i)
<1>1. i \in Ids /\ context[i] \in Contexts
  BY RequestsTyped
<1>2. CASE i = k
  <2>1. context'[i] = [context[i] EXCEPT !.retired = context[i].retired \/ Retirable(i)]
    BY <1>1, <1>2 DEF Retires, ContextTyped
  <2>2. context[i].retired => context'[i].retired
    BY <1>1, <2>1 DEF Contexts
  <2>3. QED BY <1>1, <2>1, <2>2 DEF Stable, Contexts
<1>3. CASE i # k
  BY <1>1, <1>3 DEF Retires, Stable, ContextTyped
<1>4. QED BY <1>2, <1>3

LEMMA CommitStable ==
  ASSUME ContextsInv, NEW w \in Workers, Commit(w), NEW i \in Requests
  PROVE  Stable(i)
<1>1. i \in Ids /\ context[i] \in Contexts /\ ContextTyped
  BY RequestsTyped DEF ContextsInv
<1>2. CASE i = cycle[w].on
  <2>1. context[i].setup = "none"
    BY <1>2 DEF ContextsInv, Kept, Locked, Commit
  <2>2. QED BY <1>1, <1>2, <2>1 DEF Commit, Stable, ContextTyped, Contexts
<1>3. CASE i # cycle[w].on
  BY <1>1, <1>3 DEF Commit, Stable, ContextTyped
<1>4. QED BY <1>2, <1>3

LEMMA ConcludeStable ==
  ASSUME ContextTyped, Conclude, NEW i \in Requests
  PROVE  Stable(i)
<1>1. PICK k \in Requests :
        \/ context[k].setup = "open" /\
             \E s \in {"ended", "unproven"} : context' = [context EXCEPT ![k].setup = s]
        \/ context[k].setup = "unproven" /\ context' = [context EXCEPT ![k].setup = "ended"]
  BY DEF Conclude
<1>2. i \in Ids /\ context[i] \in Contexts
  BY RequestsTyped
<1>3. CASE i = k
  BY <1>1, <1>2, <1>3 DEF Stable, ContextTyped, Contexts
<1>4. CASE i # k
  BY <1>1, <1>2, <1>4 DEF Stable, ContextTyped
<1>5. QED BY <1>3, <1>4

\* Every step is stable, moves the clock forward, and adds at most one request.
LEMMA NextStable ==
  ASSUME ContextsInv, [ContextNext]_contextVars
  PROVE  /\ \A i \in Requests : Stable(i)
         /\ minute' >= minute
         /\ claimed' = claimed \/ \E w \in Workers : Claim(w)
<1>1. ContextTyped /\ minute \in Nat
  BY DEF ContextsInv, ContextTyped
<1>2. ASSUME NEW w \in Workers, Cycling(w) \/ Tasks(w) \/ Restart(w)
      PROVE  /\ \A i \in Requests : Stable(i)
             /\ minute' = minute
             /\ claimed' = claimed \/ Claim(w)
  <2>1. CASE Claim(w)
    BY <1>1, <2>1, ClaimStable DEF Claim
  <2>2. CASE Commit(w)
    BY <2>2, CommitStable DEF Commit
  <2>3. CASE Answer(w)
    BY <1>1, <2>3, AnswerStable DEF Answer
  <2>4. CASE Reuse(w) \/ Ask(w) \/ Intend(w) \/ Restart(w)
    BY <2>4, UnchangedStable DEF Reuse, Ask, Intend, Restart
  <2>5. CASE RetireStale(w)
    BY <1>1, <2>5, RetiresStable DEF RetireStale
  <2>6. CASE Reject(w)
    BY <1>1, <2>6, RetiresStable, UnchangedStable DEF Reject
  <2>7. CASE RecheckReturn(w)
    BY <1>1, <2>7, RetiresStable, UnchangedStable DEF RecheckReturn
  <2>8. QED BY <1>2, <2>1, <2>2, <2>3, <2>4, <2>5, <2>6, <2>7 DEF Cycling, Tasks
<1>3. CASE Conclude
  BY <1>1, <1>3, ConcludeStable DEF Conclude
<1>4. CASE Tick \/ UNCHANGED contextVars
  BY <1>1, <1>4, UnchangedStable DEF Tick, contextVars
<1>5. QED BY <1>1, <1>2, <1>3, <1>4 DEF ContextNext

-----------------------------------------------------------------------------
(* A new request, and its spacing from the others *)

\* The context a claim adds.
New(r, g, p) ==
  /\ r.state = "REQUESTING" /\ r.requested = minute /\ r.until = minute + Cooldown
  /\ r.plan = "none" /\ r.setup = "none" /\ r.retired = FALSE
  /\ r.ground = g /\ r.parent = (IF g = "ordinary" THEN 0 ELSE p)

LEMMA ClaimAdds ==
  ASSUME ContextTyped, NEW w \in Workers, Claim(w), claimed' # claimed
  PROVE  /\ Admits(cycle[w].ground, cycle[w].on) /\ cycle[w].ground \in Grounds
         /\ claimed' = claimed + 1 /\ minute' = minute
         /\ New(context'[claimed + 1], cycle[w].ground, cycle[w].on)
         /\ \A i \in Requests : context'[i] = context[i]
<1>1. /\ Admits(cycle[w].ground, cycle[w].on)
      /\ Claims(w, cycle[w].ground, cycle[w].on) /\ minute' = minute
  BY DEF Claim
<1>2. claimed + 1 \in Ids /\ claimed' = claimed + 1 /\ cycle[w].ground \in Grounds
  BY <1>1, ContextAssumption DEF Claims, Ids, ContextTyped, Cycles
<1>3. New(context'[claimed + 1], cycle[w].ground, cycle[w].on)
  BY <1>1, <1>2 DEF Claims, ContextTyped, New, NoContext
<1>4. ASSUME NEW i \in Requests PROVE context'[i] = context[i]
  <2>1. i \in Ids /\ i # claimed + 1
    BY RequestsTyped DEF Requests
  <2>2. QED BY <1>1, <2>1 DEF Claims, ContextTyped
<1>5. QED BY <1>1, <1>2, <1>3, <1>4

\* What a claim checks under the lock of every earlier request.
LEMMA AdmittedSpaced ==
  ASSUME ContextsInv, NEW g \in Grounds, NEW p, Admits(g, p), NEW i \in Requests, Recent(i)
  PROVE  /\ Accounted(i)
         /\ minute < context[i].requested + Minute => g \in {"terminal", "entry"}
<1>1. context[i].requested \in Nat /\ minute \in Nat /\ ContextTyped /\ i \in Nat /\ claimed \in Nat
  BY RequestsTyped DEF ContextsInv, ContextTyped, Contexts
<1>2. CASE g = "ordinary"
  BY <1>1, <1>2 DEF Admits, AdmitsOrdinary, NoneWithinMinute, Accounted, Minute
<1>3. CASE g = "terminal"
  <2>1. p \in Requests /\ p = claimed /\ context[p].state = "READY"
    BY <1>1, <1>3 DEF Admits, AdmitsTerminal, Parents, Requests
  <2>2. CASE i = p
    BY <1>3, <2>1, <2>2 DEF Accounted
  <2>3. CASE i # p
    <3>1. i < p /\ context[p].requested <= minute /\ context[p].requested \in Nat
      BY <1>1, <2>1, <2>3, RequestsTyped DEF Requests, ContextsInv, Kept, Contexts
    <3>2. context[p].requested < context[i].requested + Cooldown
      BY <1>1, <3>1, ContextAssumption DEF Recent
    <3>3. QED BY <1>3, <2>1, <3>1, <3>2 DEF ContextsInv, SpacedRequests
  <2>4. QED BY <2>2, <2>3
<1>4. CASE g = "entry"
  BY <1>4 DEF Admits, AdmitsEntry
<1>5. CASE g = "wait"
  BY <1>1, <1>5 DEF Admits, AdmitsWait, NoneWithinMinute, Minute
<1>6. QED BY <1>2, <1>3, <1>4, <1>5 DEF Grounds

LEMMA SpacedStep ==
  ASSUME ContextsInv, [ContextNext]_contextVars
  PROVE  SpacedRequests'
<1> SUFFICES ASSUME NEW i \in Requests', NEW j \in Requests', i < j,
                    context'[j].requested < context'[i].requested + Cooldown
             PROVE  /\ Accounted(i)'
                    /\ context'[j].requested < context'[i].requested + Minute =>
                         \E k \in i + 1 .. j : context'[k].ground \in {"terminal", "entry"}
  BY DEF SpacedRequests, Minute
<1>1. ContextTyped /\ claimed \in Nat /\ i \in Nat /\ j \in Nat
  BY ContextAssumption DEF ContextsInv, ContextTyped, Requests
<1>2. CASE j \in Requests
  <2>1. i \in Requests /\ \A k \in i + 1 .. j : k \in Requests
    BY <1>1, <1>2 DEF Requests
  <2>2. \A k \in i .. j : Stable(k)
    BY <1>1, <2>1, NextStable DEF Requests
  <2>3. /\ Accounted(i)
        /\ context[j].requested < context[i].requested + Minute =>
             \E k \in i + 1 .. j : context[k].ground \in {"terminal", "entry"}
    <3>1. context[j].requested < context[i].requested + Cooldown
      BY <1>1, <2>2 DEF Stable
    <3>2. QED BY <1>2, <2>1, <3>1 DEF ContextsInv, SpacedRequests
  <2>4. Accounted(i)'
    BY <1>1, <2>2, <2>3 DEF Stable, Accounted
  <2>5. QED BY <1>1, <2>2, <2>3, <2>4 DEF Stable
<1>3. CASE j \notin Requests
  <2>1. claimed' # claimed
    BY <1>3 DEF Requests
  <2>2. PICK w \in Workers : Claim(w)
    BY <2>1, NextStable
  <2>3. /\ Admits(cycle[w].ground, cycle[w].on) /\ cycle[w].ground \in Grounds
        /\ claimed' = claimed + 1
        /\ New(context'[claimed + 1], cycle[w].ground, cycle[w].on)
        /\ \A k \in Requests : context'[k] = context[k]
    BY <1>1, <2>1, <2>2, ClaimAdds
  <2>4. j = claimed + 1 /\ i \in Requests
    BY <1>1, <1>3, <2>3 DEF Requests
  <2>5. Recent(i) /\ context'[j].requested = minute /\ context'[i] = context[i]
    BY <2>3, <2>4 DEF New, Recent
  <2>6. /\ Accounted(i)
        /\ minute < context[i].requested + Minute => cycle[w].ground \in {"terminal", "entry"}
    BY <2>3, <2>4, <2>5, AdmittedSpaced
  <2>7. j \in i + 1 .. j
    BY <1>1
  <2>8. QED BY <2>3, <2>4, <2>5, <2>6, <2>7 DEF New, Accounted
<1>4. QED BY <1>2, <1>3

-----------------------------------------------------------------------------
(* The ground of a request goes on holding *)

LEMMA FollowsStep ==
  ASSUME ContextsInv, [ContextNext]_contextVars, NEW j \in Requests'
  PROVE  Follows(j)'
<1>1. ContextTyped /\ claimed \in Nat /\ j \in Nat /\ claimed' \in Nat
  BY ContextAssumption, ContextNextTyped DEF ContextsInv, ContextTyped, Requests
<1>2. CASE j \in Requests
  <2>1. Follows(j) /\ Stable(j)
    BY <1>2, NextStable DEF ContextsInv
  <2>2. CASE j = 1
    BY <2>1, <2>2 DEF Follows, Stable
  <2>3. CASE j # 1
    <3>1. j - 1 \in Requests
      BY <1>1, <1>2, <2>3 DEF Requests
    <3>2. Stable(j - 1) /\ Kept(j - 1)
      BY <3>1, NextStable DEF ContextsInv
    <3>3. QED BY <2>1, <2>3, <3>2 DEF Follows, Stable, Kept
  <2>4. QED BY <2>2, <2>3
<1>3. CASE j \notin Requests
  <2>1. claimed' # claimed
    BY <1>3 DEF Requests
  <2>2. PICK w \in Workers : Claim(w)
    BY <2>1, NextStable
  <2> DEFINE g == cycle[w].ground  p == cycle[w].on
  <2>3. /\ Admits(g, p) /\ g \in Grounds /\ claimed' = claimed + 1
        /\ New(context'[claimed + 1], g, p)
        /\ \A k \in Requests : context'[k] = context[k]
    BY <1>1, <2>1, <2>2, ClaimAdds
  <2>4. j = claimed + 1
    BY <1>1, <1>3, <2>3 DEF Requests
  <2>5. CASE g = "ordinary"
    <3>1. CASE j # 1
      <4>1. claimed \in Requests /\ context'[j - 1] = context[claimed]
        BY <1>1, <2>3, <2>4, <3>1 DEF Requests
      <4>2. context[claimed].requested \in Nat /\ minute \in Nat
        BY <1>1, <4>1, RequestsTyped DEF Contexts, ContextTyped
      <4>3. minute >= context[claimed].requested + Cooldown \/ context[claimed].state = "REJECTED"
        BY <2>3, <2>5, <4>1, <4>2, ContextAssumption DEF Admits, AdmitsOrdinary, Recent
      <4>4. QED BY <2>3, <2>4, <2>5, <4>1, <4>3 DEF Follows, New
    <3>2. QED BY <2>3, <2>4, <2>5, <3>1 DEF Follows, New
  <2>6. CASE g # "ordinary"
    <3>1. p # 0 /\ p = claimed /\ claimed \in Requests
      BY <1>1, <2>3, <2>6 DEF Admits, AdmitsTerminal, AdmitsEntry, AdmitsWait, Parents, Grounds, Requests
    <3>2. j > 1 /\ j - 1 = p /\ context'[j - 1] = context[p]
      BY <1>1, <2>3, <2>4, <3>1
    <3>3. QED
      BY <2>3, <2>4, <2>6, <3>1, <3>2 DEF Admits, AdmitsTerminal, AdmitsEntry, AdmitsWait, Follows, New
  <2>7. QED BY <2>5, <2>6
<1>4. QED BY <1>2, <1>3

-----------------------------------------------------------------------------
(* What the cycles hold *)

\* A cycle comes to nothing, to a claim, or to a map that was answered.
Holds(v, c) ==
  /\ c.on \in 0 .. claimed
  /\ c.at \in {"retire", "prepared", "intent"} =>
       c.on \in Requests /\ context[c.on].state = "READY" /\ context[c.on].plan \in {"pair", "scalp"}
  /\ c.at = "intent" => Intend(v)

LEMMA CyclingMoves ==
  ASSUME ContextsInv, NEW w \in Workers, Cycling(w) \/ Restart(w)
  PROVE  Holds(w, cycle'[w]) /\ \A v \in Workers \ {w} : cycle'[v] = cycle[v]
<1>1. /\ ContextTyped /\ Held(w) /\ 0 \in 0 .. claimed /\ claimed \in 0 .. claimed
      /\ claimed \in Nat
  BY ContextAssumption DEF ContextsInv, ContextTyped
<1>2. ASSUME Rests(w) PROVE Holds(w, cycle'[w]) /\ \A v \in Workers \ {w} : cycle'[v] = cycle[v]
  BY <1>1, <1>2 DEF Rests, NoCycle, Holds, ContextTyped
<1>3. ASSUME NEW step \in {"retire", "claim", "prepared", "intent"}, NEW i, NEW g, Does(w, step, i, g)
      PROVE  /\ cycle'[w].at = step /\ cycle'[w].on = i
             /\ \A v \in Workers \ {w} : cycle'[v] = cycle[v]
  BY <1>1, <1>3 DEF Does, ContextTyped
<1>4. CASE Reuse(w)
  <2>1. Latest.state = "READY" /\ Latest.plan \in {"pair", "scalp"}
    BY <1>4 DEF Reuse, Reusable
  <2>2. claimed \in Requests /\ Latest = context[claimed]
    BY <1>1, <2>1 DEF Latest, NoContext, Requests
  <2>3. PICK step \in {"retire", "prepared"} : Does(w, step, claimed, "ordinary")
    BY <1>4 DEF Reuse
  <2>4. QED BY <1>1, <1>3, <2>1, <2>2, <2>3 DEF Holds
<1>5. CASE Ask(w)
  <2>1. PICK g \in Grounds : Does(w, "claim", claimed, g)
    BY <1>5 DEF Ask
  <2>2. QED BY <1>1, <1>3, <2>1 DEF Holds
<1>6. CASE Claim(w) \/ Reject(w) \/ Commit(w) \/ Restart(w)
  BY <1>2, <1>6 DEF Claim, Reject, Commit, Restart
<1>7. CASE RetireStale(w)
  <2>1. Does(w, "claim", cycle[w].on, "entry") \/ Rests(w)
    BY <1>7 DEF RetireStale
  <2>2. QED BY <1>1, <1>2, <1>3, <2>1 DEF Held, Holds
<1>8. CASE Intend(w)
  <2>1. Does(w, "intent", cycle[w].on, "ordinary") \/ Rests(w)
    BY <1>8 DEF Intend
  <2>2. cycle[w].at = "prepared"
    BY <1>8 DEF Intend, Doing
  <2>3. QED BY <1>1, <1>2, <1>3, <1>8, <2>1, <2>2 DEF Held, Holds
<1>9. QED BY <1>4, <1>5, <1>6, <1>7, <1>8 DEF Cycling

LEMMA CyclesMove ==
  ASSUME ContextsInv, [ContextNext]_contextVars, NEW v \in Workers
  PROVE  cycle'[v] = cycle[v] \/ Holds(v, cycle'[v])
<1>1. ASSUME NEW w \in Workers, Cycling(w) \/ Restart(w)
      PROVE  cycle'[v] = cycle[v] \/ Holds(v, cycle'[v])
  BY <1>1, CyclingMoves
<1>2. ASSUME NEW w \in Workers, Tasks(w) PROVE cycle' = cycle
  BY <1>2 DEF Tasks, Answer, RecheckReturn
<1>3. CASE Conclude \/ Tick \/ UNCHANGED contextVars
  BY <1>3 DEF Conclude, Tick, contextVars
<1>4. QED BY <1>1, <1>2, <1>3 DEF ContextNext

LEMMA HeldStep ==
  ASSUME ContextsInv, [ContextNext]_contextVars, NEW v \in Workers
  PROVE  Held(v)'
<1>1. claimed \in Nat /\ claimed' \in Nat /\ claimed' >= claimed
  <2>1. ContextTyped /\ ContextTyped'
    BY ContextNextTyped DEF ContextsInv
  <2>2. claimed' = claimed \/ claimed' = claimed + 1
    BY <2>1, NextStable, ClaimAdds
  <2>3. QED BY <2>1, <2>2, ContextAssumption DEF ContextTyped
<1>2. \A i \in Requests : i \in Requests' /\ Stable(i)
  BY <1>1, NextStable DEF Requests
<1>3. Held(v)
  BY DEF ContextsInv
<1>4. CASE cycle'[v] = cycle[v]
  BY <1>1, <1>2, <1>3, <1>4 DEF Held, Stable
<1>5. CASE Holds(v, cycle'[v])
  BY <1>1, <1>2, <1>5 DEF Held, Holds, Stable
<1>6. QED BY <1>4, <1>5, CyclesMove

LEMMA ExclusiveStep ==
  ASSUME ContextsInv, [ContextNext]_contextVars
  PROVE  Exclusive'
<1> SUFFICES ASSUME NEW v \in Workers, NEW w \in Workers, v # w,
                    cycle'[v].at = "intent", cycle'[w].at = "intent",
                    cycle'[v].on = cycle'[w].on
             PROVE  FALSE
  BY DEF Exclusive, Doing
<1>1. \A x, y \in Workers : x # y /\ Intend(x) => cycle'[y] = cycle[y]
  BY CyclingMoves DEF Cycling
<1>2. \A x \in Workers : Intend(x) /\ cycle'[x].at = "intent" => ~Locked(cycle'[x].on)
  <2> SUFFICES ASSUME NEW x \in Workers, Intend(x), cycle'[x].at = "intent"
               PROVE  ~Locked(cycle'[x].on)
    OBVIOUS
  <2>1. cycle'[x] = NoCycle \/ cycle'[x].on = cycle[x].on
    BY DEF Intend, Does, Rests, ContextsInv, ContextTyped
  <2>2. QED BY <2>1 DEF Intend, NoCycle
<1>3. CASE cycle'[v] = cycle[v] /\ cycle'[w] = cycle[w]
  BY <1>3 DEF ContextsInv, Exclusive, Doing
<1>4. CASE Intend(v)
  BY <1>1, <1>2, <1>4 DEF Locked, Doing
<1>5. CASE Intend(w)
  BY <1>1, <1>2, <1>5 DEF Locked, Doing
<1>6. QED BY <1>3, <1>4, <1>5, CyclesMove DEF Holds

-----------------------------------------------------------------------------
(* What a context keeps *)

\* A row is locked by the intent that found it untraded and not given up.
LEMMA LockedBy ==
  ASSUME ContextsInv, [ContextNext]_contextVars, NEW i, Locked(i)'
  PROVE  Locked(i) \/ (Authorized(i) /\ \E v \in Workers : Intend(v))
<1>1. PICK v \in Workers : cycle'[v].at = "intent" /\ cycle'[v].on = i
  BY DEF Locked, Doing
<1>2. CASE cycle'[v] = cycle[v]
  BY <1>1, <1>2 DEF Locked, Doing
<1>3. CASE Intend(v)
  <2>1. cycle'[v].on = cycle[v].on /\ Authorized(cycle[v].on)
    BY <1>1, <1>3 DEF Intend, Does, Rests, NoCycle, ContextsInv, ContextTyped
  <2>2. QED BY <1>1, <1>3, <2>1
<1>4. QED BY <1>1, <1>2, <1>3, CyclesMove DEF Holds

LEMMA KeptUnchanged ==
  ASSUME ContextsInv, [ContextNext]_contextVars, NEW i \in Requests, context'[i] = context[i]
  PROVE  Kept(i)'
<1>1. Kept(i) /\ minute' >= minute /\ minute \in Nat /\ context[i] \in Contexts
  BY NextStable, RequestsTyped DEF ContextsInv, ContextTyped
<1>2. minute' \in Nat /\ context[i].requested <= minute'
  BY <1>1, ContextNextTyped DEF ContextsInv, ContextTyped, Kept, Contexts
<1>3. Locked(i)' => Locked(i) \/ Authorized(i)
  BY LockedBy
<1>4. QED BY <1>1, <1>2, <1>3 DEF Kept, Authorized

LEMMA KeptAnswered ==
  ASSUME ContextsInv, [ContextNext]_contextVars, NEW i \in Requests, NEW w \in Workers, Answer(w)
  PROVE  Kept(i)'
<1>1. PICK k \in Requests : /\ Awaits(w, k)
                            /\ Answered(w, k) \/ Refused(w, k) \/ Unrecorded(w)
                            /\ UNCHANGED <<claimed, minute, cycle>>
  BY DEF Answer
<1>2. ContextTyped /\ i \in Ids /\ k \in Ids /\ context[k] \in Contexts
  BY RequestsTyped DEF ContextsInv
<1>3. Kept(k) /\ context[k].state = "REQUESTING"
  BY <1>1 DEF ContextsInv, Awaits
<1>4. context[k].setup = "none" /\ context[k].plan = "none" /\ ~context[k].retired
  BY <1>3 DEF Kept
<1>5. CASE i # k \/ Unrecorded(w)
  <2>1. context'[i] = context[i]
    BY <1>1, <1>2, <1>5 DEF Answered, Refused, Unrecorded, ContextTyped
  <2>2. QED BY <2>1, KeptUnchanged
<1>6. CASE i = k /\ Refused(w, k)
  <2>1. PICK s : context' = [context EXCEPT ![k].state = s]
    BY <1>6 DEF Refused
  <2>2. QED BY <1>1, <1>2, <1>3, <1>4, <1>6, <2>1 DEF Kept, ContextTyped, Contexts
<1>7. CASE i = k /\ Answered(w, k)
  <2>1. PICK plan \in {"pair", "scalp", "wait"}, until \in minute + 1 .. context[k].until :
          context' = [context EXCEPT ![k].state = "READY", ![k].plan = plan,
                        ![k].until = until, ![k].available = minute]
    BY <1>7 DEF Answered
  <2>2. context'[k] = [context[k] EXCEPT !.state = "READY", !.plan = plan, !.until = until,
                         !.available = minute]
    BY <1>2, <2>1 DEF ContextTyped
  <2>3. until <= context[k].requested + Cooldown
    BY <1>2, <1>3, ContextAssumption DEF Kept, Contexts, ContextTyped
  <2>4. QED BY <1>1, <1>2, <1>3, <1>4, <1>7, <2>2, <2>3 DEF Kept, Contexts
<1>8. QED BY <1>1, <1>5, <1>6, <1>7

LEMMA KeptRetired ==
  ASSUME ContextsInv, [ContextNext]_contextVars, NEW i \in Requests, NEW k, Retires(k),
         \A v \in Workers : ~Intend(v), minute' = minute
  PROVE  Kept(i)'
<1>1. ContextTyped /\ i \in Ids /\ context[i] \in Contexts /\ Kept(i)
  BY RequestsTyped DEF ContextsInv
<1>2. CASE context'[i] = context[i]
  BY <1>2, KeptUnchanged
<1>3. CASE context'[i] # context[i]
  <2>1. i = k
    BY <1>1, <1>3 DEF Retires, ContextTyped
  <2>2. context'[i] = [context[i] EXCEPT !.retired = context[i].retired \/ Retirable(i)]
    BY <1>1, <2>1 DEF Retires, ContextTyped
  <2>3. ~Locked(i) /\ ~Locked(i)'
    BY <2>1, LockedBy DEF Retires
  <2>4. context'[i].retired => context[i].retired \/ Retirable(i)
    BY <1>1, <2>2 DEF Contexts
  <2>5. CASE Retirable(i)
    BY <1>1, <2>2, <2>3, <2>5 DEF Retirable, Kept, Contexts
  <2>6. CASE ~Retirable(i)
    BY <1>1, <2>2, <2>3, <2>4, <2>6 DEF Kept, Contexts
  <2>7. QED BY <2>5, <2>6
<1>4. QED BY <1>2, <1>3

LEMMA KeptTraded ==
  ASSUME ContextsInv, [ContextNext]_contextVars, NEW i \in Requests, NEW w \in Workers, Commit(w)
  PROVE  Kept(i)'
<1>1. ContextTyped /\ i \in Ids /\ context[i] \in Contexts /\ Kept(i)
  BY RequestsTyped DEF ContextsInv
<1>2. CASE context'[i] = context[i]
  BY <1>2, KeptUnchanged
<1>3. CASE context'[i] # context[i]
  <2>1. i = cycle[w].on /\ cycle[w].at = "intent"
    BY <1>1, <1>3 DEF Commit, Doing, ContextTyped
  <2>2. context'[i] = [context[i] EXCEPT !.setup = "open"]
    BY <1>1, <1>3, <2>1 DEF Commit, ContextTyped
  <2>3. Locked(i) /\ context[i].state = "READY" /\ context[i].plan \in {"pair", "scalp"}
    BY <2>1 DEF Locked, Doing, ContextsInv, Held
  <2>4. ~Locked(i)'
    <3> SUFFICES ASSUME NEW v \in Workers, cycle'[v].at = "intent", cycle'[v].on = i PROVE FALSE
      BY DEF Locked, Doing
    <3>1. v # w
      BY <1>1 DEF Commit, Rests, NoCycle, ContextTyped
    <3>2. cycle'[v] = cycle[v]
      BY <1>1, <3>1 DEF Commit, Rests, ContextTyped
    <3>3. QED BY <2>1, <3>1, <3>2 DEF ContextsInv, Exclusive, Doing
  <2>5. minute' = minute
    BY DEF Commit
  <2>6. QED BY <1>1, <2>2, <2>3, <2>4, <2>5 DEF Kept, Contexts
<1>4. QED BY <1>2, <1>3

LEMMA KeptConcluded ==
  ASSUME ContextsInv, [ContextNext]_contextVars, NEW i \in Requests, Conclude
  PROVE  Kept(i)'
<1>1. ContextTyped /\ i \in Ids /\ context[i] \in Contexts /\ Kept(i)
  BY RequestsTyped DEF ContextsInv
<1>2. CASE context'[i] = context[i]
  BY <1>2, KeptUnchanged
<1>3. CASE context'[i] # context[i]
  <2>1. PICK s \in {"ended", "unproven"} :
          context[i].setup # "none" /\ context'[i] = [context[i] EXCEPT !.setup = s]
    BY <1>1, <1>3 DEF Conclude, ContextTyped
  <2>2. cycle' = cycle /\ minute' = minute
    BY DEF Conclude
  <2>3. Locked(i)' <=> Locked(i)
    BY <2>2 DEF Locked, Doing
  <2>4. QED BY <1>1, <2>1, <2>2, <2>3 DEF Kept, Contexts
<1>4. QED BY <1>2, <1>3

LEMMA KeptStep ==
  ASSUME ContextsInv, [ContextNext]_contextVars, NEW i \in Requests'
  PROVE  Kept(i)'
<1>1. CASE i \in Requests
  <2>1. CASE \E w \in Workers : Answer(w)
    BY <1>1, <2>1, KeptAnswered
  <2>2. CASE \E w \in Workers : Commit(w)
    BY <1>1, <2>2, KeptTraded
  <2>3. CASE Conclude
    BY <1>1, <2>3, KeptConcluded
  <2>4. ASSUME NEW w \in Workers, RetireStale(w) \/ Reject(w) \/ RecheckReturn(w) PROVE Kept(i)'
    <3>1. CASE context' = context
      BY <1>1, <3>1, KeptUnchanged
    <3>2. CASE context' # context
      <4>1. PICK k : Retires(k)
        BY <2>4, <3>2 DEF RetireStale, Reject, RecheckReturn
      <4>2. \A v \in Workers : ~Intend(v)
        BY <3>2 DEF Intend
      <4>3. minute' = minute
        BY <2>4 DEF RetireStale, Reject, RecheckReturn
      <4>4. QED BY <1>1, <4>1, <4>2, <4>3, KeptRetired
    <3>3. QED BY <3>1, <3>2
  <2>5. ASSUME NEW w \in Workers, Reuse(w) \/ Ask(w) \/ Intend(w) \/ Restart(w) PROVE Kept(i)'
    BY <1>1, <2>5, KeptUnchanged DEF Reuse, Ask, Intend, Restart
  <2>6. ASSUME NEW w \in Workers, Claim(w) PROVE Kept(i)'
    <3>1. ContextTyped
      BY DEF ContextsInv
    <3>2. CASE claimed' # claimed
      BY <1>1, <2>6, <3>1, <3>2, ClaimAdds, KeptUnchanged
    <3>3. CASE claimed' = claimed
      <4>1. claimed \in Nat
        BY <3>1, ContextAssumption DEF ContextTyped
      <4>2. context' = context
        BY <2>6, <3>3, <4>1 DEF Claim, Claims
      <4>3. QED BY <1>1, <4>2, KeptUnchanged
    <3>4. QED BY <3>2, <3>3
  <2>7. CASE Tick \/ UNCHANGED contextVars
    BY <1>1, <2>7, KeptUnchanged DEF Tick, contextVars
  <2>8. QED BY <2>1, <2>2, <2>3, <2>4, <2>5, <2>6, <2>7 DEF ContextNext, Cycling, Tasks
<1>2. CASE i \notin Requests
  <2>1. ContextTyped /\ claimed' # claimed
    BY <1>2 DEF Requests, ContextsInv
  <2>2. PICK w \in Workers : Claim(w)
    BY <2>1, NextStable
  <2>3. /\ claimed' = claimed + 1 /\ minute' = minute
        /\ New(context'[claimed + 1], cycle[w].ground, cycle[w].on)
    BY <2>1, <2>2, ClaimAdds
  <2>4. i = claimed + 1 /\ minute \in Nat
    BY <1>2, <2>1, <2>3, ContextAssumption DEF Requests, ContextTyped
  <2>5. QED BY <2>3, <2>4, ContextAssumption DEF New, Kept
<1>3. QED BY <1>1, <1>2

-----------------------------------------------------------------------------
(* The invariant, and the properties it carries *)

THEOREM ContextsInvariant == ContextSpec => []ContextsInv
<1>1. ContextInit => ContextsInv
  <2> SUFFICES ASSUME ContextInit PROVE ContextsInv
    OBVIOUS
  <2>1. ContextTyped /\ Requests = {}
    BY NoContextTyped, NoCycleTyped, ContextAssumption DEF ContextInit, ContextTyped, Requests
  <2>2. \A w \in Workers : cycle[w] = NoCycle
    BY DEF ContextInit
  <2>3. ASSUME NEW w \in Workers PROVE Held(w)
    <3>1. cycle[w].at = "idle" /\ cycle[w].on = 0 /\ claimed = 0 /\ 0 \in 0 .. 0
      BY <2>2 DEF ContextInit, NoCycle
    <3>2. QED BY <3>1 DEF Held
  <2>4. Exclusive
    BY <2>2 DEF Exclusive, Doing, NoCycle
  <2>5. QED BY <2>1, <2>3, <2>4 DEF ContextsInv, SpacedRequests
<1>2. ContextsInv /\ [ContextNext]_contextVars => ContextsInv'
  <2> SUFFICES ASSUME ContextsInv, [ContextNext]_contextVars PROVE ContextsInv'
    OBVIOUS
  <2>1. ContextTyped'
    BY ContextNextTyped DEF ContextsInv
  <2>2. \A i \in Requests' : Kept(i)' /\ Follows(i)'
    BY KeptStep, FollowsStep
  <2>3. \A w \in Workers : Held(w)'
    BY HeldStep
  <2>4. QED BY <2>1, <2>2, <2>3, ExclusiveStep, SpacedStep DEF ContextsInv
<1>3. QED BY <1>1, <1>2, PTL DEF ContextSpec

\* docs/architecture.md:283, for any processes and any cooldown: a claim checks under the lock
\* what it needs of every earlier request, and nothing takes an answer back.
THEOREM RequestsSpaced == ContextSpec => []SpacedRequests
<1>1. ContextsInv => SpacedRequests
  BY DEF ContextsInv
<1>2. QED BY <1>1, ContextsInvariant, PTL

\* A map that an order group names is not retired, and no later request stands for it as a
\* map given up: retirement and intent exclude each other by the row, and a successor rests
\* on a retirement or a wait that no step undoes.
THEOREM NeverTradedAndReplaced == ContextSpec => []TradedOrReplaced
<1>1. ContextsInv => TradedOrReplaced
  <2> SUFFICES ASSUME ContextsInv, NEW i \in Requests, context[i].setup # "none"
               PROVE  ~context[i].retired /\ ~Successor(i, "entry") /\ ~Successor(i, "wait")
    BY DEF TradedOrReplaced
  <2>1. ~context[i].retired /\ context[i].plan # "wait"
    BY DEF ContextsInv, Kept
  <2>2. ASSUME NEW j \in Requests, context[j].parent = i, context[j].ground \in {"entry", "wait"}
        PROVE  FALSE
    <3>1. Follows(j) /\ j \in Nat /\ i \in Nat
      BY RequestsTyped DEF ContextsInv
    <3>2. j - 1 = i
      BY <2>2, <3>1 DEF Follows
    <3>3. QED BY <2>1, <2>2, <3>1, <3>2 DEF Follows
  <2>3. QED BY <2>1, <2>2 DEF Successor
<1>2. QED BY <1>1, ContextsInvariant, PTL

\* docs/architecture.md:234: whatever request came after the map of a cycle, the ground on which
\* it was admitted still holds at the intent, and leaves the map expired, traded or given up.
THEOREM ScalpsNewest == ContextSpec => ScalpTradedNewest
<1>1. ASSUME ContextsInv, [ContextNext]_contextVars, NEW w \in Workers,
             ~Doing(w, "intent"), Doing(w, "intent")', context[cycle'[w].on].plan = "scalp"
      PROVE  cycle'[w].on = claimed
  <2> DEFINE i == cycle'[w].on  j == i + 1
  <2>1. i \in Requests /\ Intend(w)
    BY <1>1, CyclesMove DEF Doing, Holds
  <2>2. i = cycle[w].on /\ Authorized(i)
    BY <1>1, <2>1 DEF Intend, Does, Rests, NoCycle, Doing, ContextsInv, ContextTyped
  <2>3. /\ context[i].state = "READY" /\ context[i].setup = "none" /\ ~context[i].retired
        /\ minute < context[i].until
    BY <1>1, <2>2 DEF Authorized
  <2>4. ASSUME i # claimed PROVE FALSE
    <3>1. j \in Requests /\ j # 1 /\ j - 1 = i /\ i \in Nat
      BY <1>1, <2>1, <2>4, RequestsTyped DEF Requests, ContextsInv
    <3>2. Follows(j) /\ Kept(i) /\ Kept(j)
      BY <1>1, <2>1, <3>1 DEF ContextsInv
    <3>3. context[j].ground \in Grounds /\ context[j].requested \in Nat
          /\ context[i].requested \in Nat /\ context[i].until \in Nat /\ minute \in Nat
      BY <1>1, <2>1, <3>1, RequestsTyped DEF ContextsInv, ContextTyped, Contexts
    <3>4. context[j].requested < context[i].requested + Cooldown
      BY <2>3, <3>2, <3>3, ContextAssumption DEF Kept
    <3>5. context[j].ground = "ordinary" => FALSE
      BY <2>3, <3>1, <3>2, <3>3, <3>4, ContextAssumption DEF Follows
    <3>6. QED BY <1>1, <2>3, <3>1, <3>2, <3>3, <3>5 DEF Follows, Grounds
  <2>5. QED BY <2>4
<1>2. ContextsInv /\ [ContextNext]_contextVars =>
        [\A w \in Workers :
           ~Doing(w, "intent") /\ Doing(w, "intent")' /\ context[cycle'[w].on].plan = "scalp" =>
             cycle'[w].on = claimed]_contextVars
  BY <1>1
<1>3. QED BY <1>2, ContextsInvariant, PTL DEF ContextSpec, ScalpTradedNewest
=============================================================================

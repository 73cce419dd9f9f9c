--------------------------- MODULE ExecutionRecorder ---------------------------
(***************************************************************************)
(* DurableDemoExecutionRecorder: broker callbacks are queued as they come  *)
(* and persisted by a chain of drains that several callers flush; what     *)
(* cannot be persisted latches a reason, which only a certain terminal     *)
(* recovery may clear.  Recovery is one of the callers: it flushes, takes  *)
(* a checkpoint, reconciles with the broker, acknowledges, flushes again.  *)
(***************************************************************************)
EXTENDS Naturals, Sequences

CONSTANTS Events,        \* the executions the broker reports, each delivered once
          Fills,         \* broker deal ids; a terminal proof is known by its deal
          NoFill,
          FillOf,        \* the deal an execution carries, several may carry one
          Codes,         \* the reason codes a failure is recorded under
          ReadinessCode, \* the one of a failed readiness query
          Callers,       \* who flushes: placement, safety, maintenance, the coordinator
          Recovery,      \* and runDemoRecovery
          NoEvent,
          MaxFlushes     \* bound on the calls of flush

ASSUME RecorderAssumption ==
  /\ NoFill \notin Fills /\ NoEvent \notin Events
  /\ FillOf \in [Events -> Fills \cup {NoFill}]
  /\ ReadinessCode \in Codes
  /\ Recovery \notin Callers
  /\ MaxFlushes \in Nat

VARIABLES pending,      \* #pending
          busy,         \* the execution whose persist is awaited
          tail, done,   \* drains chained on #tail, and those that ended
          codes,        \* #reasonCodes
          sequence,     \* #failureSequence
          proofs,       \* #acknowledgedTerminalProofKeys
          remembered,   \* #persistedBrokerFillIds
          unresolved,   \* executions the journal holds with open reasons, durable
          call,         \* the calls of flush
          phase, checkpoint, \* runDemoRecovery, and its failureCheckpoint
          fate, failure \* what became of each execution, and its failure (history)

queue == <<pending, busy, tail, done>>
latches == <<codes, sequence, proofs, remembered>>
recovery == <<phase, checkpoint>>
history == <<fate, failure>>
vars == <<queue, latches, unresolved, call, recovery, history>>

Flushers == Callers \cup {Recovery}
Unset == [sequence |-> 0, fill |-> NoFill]
Idle == [at |-> "idle", waits |-> 0, ready |-> FALSE, before |-> {}]
Calls == [at : {"idle", "draining", "readiness", "answering", "certain", "uncertain"},
          waits : 0 .. MaxFlushes, ready : BOOLEAN, before : SUBSET Events]
Fates == {"coming", "pending", "settled", "unresolved", "failed", "cleared"}

Init ==
  /\ pending = <<>> /\ busy = NoEvent /\ tail = 0 /\ done = 0
  /\ codes = [c \in Codes |-> Unset] /\ sequence = 0 /\ proofs = {} /\ remembered = {}
  /\ unresolved = {}
  /\ call = [f \in Flushers |-> Idle]
  /\ phase = "idle" /\ checkpoint = 0
  /\ fate = [e \in Events |-> "coming"]
  /\ failure = [e \in Events |-> [code |-> ReadinessCode, sequence |-> 0]]

\* Reasons that make a flush uncertain.
Latched == {c \in Codes : codes[c].sequence > 0}

-----------------------------------------------------------------------------
(* The queue and its drains *)

\* The broker client's callback.
Enqueue(e) ==
  /\ fate[e] = "coming" /\ fate' = [fate EXCEPT ![e] = "pending"]
  /\ pending' = Append(pending, e)
  /\ UNCHANGED <<busy, tail, done, latches, unresolved, call, recovery, failure>>

\* Mutant: a code that is on record keeps its first failure.
RecordedFirst(c, fill) ==
  /\ sequence' = sequence + 1
  /\ codes' = IF c \in Latched THEN codes
              ELSE [codes EXCEPT ![c] = [sequence |-> sequence + 1, fill |-> fill]]

\* #recordFailure: the newest failure of a code takes its place.
Recorded(c, fill) ==
  /\ sequence' = sequence + 1
  /\ codes' = [codes EXCEPT ![c] = [sequence |-> sequence + 1, fill |-> fill]]

Fails(e) ==
  \E c \in Codes \ {ReadinessCode} :
    /\ Recorded(c, FillOf[e])
    /\ fate' = [fate EXCEPT ![e] = "failed"]
    /\ failure' = [failure EXCEPT ![e] = [code |-> c, sequence |-> sequence + 1]]
    /\ UNCHANGED <<proofs, remembered>>

Settles(e) ==
  /\ fate' = [fate EXCEPT ![e] = "settled"]
  /\ UNCHANGED <<codes, sequence, proofs, failure>>

\* Mutant: what a drain takes stays at the head of the queue until it is persisted.
TakePeek ==
  LET e == Head(pending) IN
  /\ busy = NoEvent /\ done < tail /\ pending # <<>> /\ busy' = e
  /\ UNCHANGED <<pending, tail, done, latches, unresolved, call, recovery, history>>

\* One turn of #drain: a deal already stored is skipped; what does not normalize
\* fails, what is not the strategy's is ignored, the rest is persisted.
Take ==
  LET e == Head(pending) IN
  /\ busy = NoEvent /\ done < tail /\ pending # <<>> /\ pending' = Tail(pending)
  /\ \/ FillOf[e] \in remembered /\ Settles(e) /\ UNCHANGED <<busy, remembered>>
     \/ /\ FillOf[e] \notin remembered
        /\ \/ Fails(e) /\ UNCHANGED busy
           \/ Settles(e) /\ UNCHANGED <<busy, remembered>>
           \/ busy' = e /\ UNCHANGED <<latches, history>>
  /\ UNCHANGED <<tail, done, unresolved, call, recovery>>

\* store.persist answers: mapped; mapped with open reasons; or it throws, or says
\* uncertain without a reason, which latches one.
Persisted ==
  /\ busy # NoEvent /\ busy' = NoEvent
  /\ \/ /\ Settles(busy) /\ remembered' = remembered \cup ({FillOf[busy]} \ {NoFill})
        /\ UNCHANGED unresolved
     \/ /\ unresolved' = unresolved \cup {busy}
        /\ fate' = [fate EXCEPT ![busy] = "unresolved"] /\ UNCHANGED <<latches, failure>>
     \/ Fails(busy) /\ UNCHANGED unresolved
  /\ UNCHANGED <<pending, tail, done, call, recovery>>

DrainEnds ==
  /\ busy = NoEvent /\ done < tail /\ pending = <<>> /\ done' = done + 1
  /\ UNCHANGED <<pending, busy, tail, latches, unresolved, call, recovery, history>>

-----------------------------------------------------------------------------
(* flush *)

Enqueued == {e \in Events : fate[e] # "coming"}

\* Chain a drain, and wait for the end of the chain.
BeginFlush(f) ==
  /\ tail < MaxFlushes /\ tail' = tail + 1
  /\ call' = [call EXCEPT ![f] =
       [at |-> "draining", waits |-> tail + 1, ready |-> FALSE, before |-> Enqueued]]

Flush(f) ==
  /\ call[f].at \in {"idle", "certain", "uncertain"} /\ BeginFlush(f)
  /\ UNCHANGED <<pending, busy, done, latches, unresolved, recovery, history>>

\* Mutant: the chain of drains is not awaited.
DrainedUnawaited(f) ==
  /\ call[f].at = "draining" /\ call' = [call EXCEPT ![f].at = "readiness"]
  /\ UNCHANGED <<queue, latches, unresolved, recovery, history>>

\* A drain chained meanwhile is waited for too.
Drained(f) ==
  /\ call[f].at = "draining" /\ done >= call[f].waits
  /\ call' = IF tail = call[f].waits THEN [call EXCEPT ![f].at = "readiness"]
                                     ELSE [call EXCEPT ![f].waits = tail]
  /\ UNCHANGED <<queue, latches, unresolved, recovery, history>>

\* store.readiness reads the open reasons of the journal.
Readiness(f) ==
  /\ call[f].at = "readiness"
  /\ call' = [call EXCEPT ![f].at = "answering", ![f].ready = unresolved = {}]
  /\ UNCHANGED <<queue, latches, unresolved, recovery, history>>

Return(f, ready) ==
  /\ call' = [call EXCEPT ![f].at = IF ready /\ codes' = [c \in Codes |-> Unset]
                                    THEN "certain" ELSE "uncertain"]
  /\ IF f = Recovery
     THEN IF phase = "first" THEN phase' = "reconciling" /\ checkpoint' = sequence'
                             ELSE phase' = "idle" /\ UNCHANGED checkpoint
     ELSE UNCHANGED recovery
  /\ UNCHANGED <<queue, proofs, remembered, unresolved, history>>

\* The answer, together with the reasons latched by then.
Answered(f) ==
  /\ call[f].at = "answering" /\ UNCHANGED <<codes, sequence>>
  /\ Return(f, call[f].ready)

\* The query rejects: a reason of its own.
ReadinessFails(f) ==
  /\ call[f].at = "readiness" /\ Recorded(ReadinessCode, NoFill)
  /\ Return(f, FALSE)

-----------------------------------------------------------------------------
(* runDemoRecovery *)

Recover ==
  /\ phase = "idle" /\ phase' = "first" /\ BeginFlush(Recovery)
  /\ UNCHANGED <<pending, busy, done, latches, unresolved, checkpoint, history>>

\* Reconciliation with the broker proves nothing, or fails.
NoProof ==
  /\ phase = "reconciling" /\ phase' = "idle"
  /\ UNCHANGED <<queue, latches, unresolved, call, checkpoint, history>>

\* The reasons acknowledgeCertainTerminalRecovery clears: those no newer than the
\* checkpoint, and for a proof seen before those of its own deal.
Cleared(fill) ==
  {c \in Latched : codes[c].sequence <= checkpoint
                   /\ (fill \in proofs => codes[c].fill = fill)}

\* Reconciliation ends with a certain readiness query and a terminal proof.
Prove ==
  /\ phase = "reconciling" /\ unresolved = {} /\ phase' = "proved"
  /\ UNCHANGED <<queue, latches, unresolved, call, checkpoint, history>>

\* A certain recovery acknowledges its proof, and flushes again.
Acknowledge(fill) ==
  /\ phase = "proved" /\ phase' = "second"
  /\ codes' = [c \in Codes |-> IF c \in Cleared(fill) THEN Unset ELSE codes[c]]
  /\ proofs' = proofs \cup {fill}
  /\ fate' = [e \in Events |-> IF fate[e] = "failed" /\ failure[e].code \in Cleared(fill)
                               THEN "cleared" ELSE fate[e]]
  /\ BeginFlush(Recovery)
  /\ UNCHANGED <<pending, busy, done, sequence, remembered, unresolved, checkpoint, failure>>

\* An uncertain one changes nothing, and flushes again.
AcknowledgeUncertain ==
  /\ phase = "reconciling" /\ phase' = "second" /\ BeginFlush(Recovery)
  /\ UNCHANGED <<pending, busy, done, latches, unresolved, checkpoint, history>>

\* The terminal evidence resolves a row of the journal (reconcileTerminalEvidence).
Resolve(e) ==
  /\ e \in unresolved /\ unresolved' = unresolved \ {e}
  /\ fate' = [fate EXCEPT ![e] = "settled"]
  /\ UNCHANGED <<queue, latches, call, recovery, failure>>

-----------------------------------------------------------------------------

Next ==
  \/ \E e \in Events : Enqueue(e) \/ Resolve(e)
  \/ Take \/ Persisted \/ DrainEnds
  \/ \E f \in Callers : Flush(f)
  \/ \E f \in Flushers : Drained(f) \/ Readiness(f) \/ Answered(f) \/ ReadinessFails(f)
  \/ Recover \/ NoProof \/ Prove \/ AcknowledgeUncertain
  \/ \E fill \in Fills : Acknowledge(fill)

Spec == Init /\ [][Next]_vars

-----------------------------------------------------------------------------
(* Properties *)

\* Besides the types: an execution waits in #pending or is being persisted as long as
\* nothing became of it, drains end in turn, and no checkpoint is of the future, so
\* that acknowledgeCertainTerminalRecovery never throws.
TypeOK ==
  /\ pending \in Seq(Events) /\ busy \in Events \cup {NoEvent}
  /\ \A e \in Events : fate[e] = "pending" <=> busy = e \/ \E i \in DOMAIN pending : pending[i] = e
  /\ tail \in 0 .. MaxFlushes /\ done \in 0 .. tail
  /\ codes \in [Codes -> [sequence : 0 .. sequence, fill : Fills \cup {NoFill}]]
  /\ sequence \in Nat /\ checkpoint \in 0 .. sequence
  /\ proofs \subseteq Fills /\ remembered \subseteq Fills /\ unresolved \subseteq Events
  /\ call \in [Flushers -> Calls]
  /\ phase \in {"idle", "first", "reconciling", "proved", "second"}
  /\ fate \in [Events -> Fates]
  /\ failure \in [Events -> [code : Codes, sequence : 0 .. sequence]]

\* "Serializes callback persistence before reporting certainty": a flush that
\* answers certain (DurableDemoExecutionRecorder.flush) has handled every execution
\* queued before it was called, and each is stored, ignored, or failed with its
\* failure cleared since; a failure still on record, or an open row, is uncertain.
FlushCovers ==
  [][\A f \in Flushers :
       call[f].at # "certain" /\ call'[f].at = "certain" =>
         \A e \in call[f].before : fate[e] \in {"settled", "cleared"}]_vars

\* "Acknowledge only process-local callback failures that existed before that
\* recovery checkpoint": acknowledgeCertainTerminalRecovery clears a failure only if
\* it came before the checkpoint, however often its code was recorded again.
OnlyEarlierFailures ==
  [][\A e \in Events :
       fate[e] = "failed" /\ fate'[e] = "cleared" => failure[e].sequence <= checkpoint]_vars

\* "Reuses exact terminal fill proof for a late duplicate failure only": when
\* acknowledgeCertainTerminalRecovery meets a proof it knows, it clears no failure
\* of another deal.
LateDuplicateOnly ==
  [][\A fill \in proofs, e \in Events :
       Acknowledge(fill) /\ fate[e] = "failed" /\ fate'[e] = "cleared" => FillOf[e] = fill]_vars

=============================================================================

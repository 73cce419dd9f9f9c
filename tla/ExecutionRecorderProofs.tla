------------------------ MODULE ExecutionRecorderProofs ------------------------
(***************************************************************************)
(* Proofs about ExecutionRecorder: type correctness, that a certain flush  *)
(* has handled what was queued before it, that an acknowledgement clears   *)
(* no failure newer than its checkpoint, and which failures a known proof  *)
(* clears, for any number of executions, codes, callers and flushes.       *)
(***************************************************************************)
EXTENDS ExecutionRecorder, TLAPS

\* An execution is queued once, and not while it is being persisted.
NoRepeat ==
  /\ \A i, j \in 1 .. Len(pending) : pending[i] = pending[j] => i = j
  /\ \A i \in 1 .. Len(pending) : pending[i] # busy

\* A failure nothing cleared is on record, under an entry at least as new.
OnRecord ==
  \A e \in Events : fate[e] = "failed" => failure[e].sequence <= codes[failure[e].code].sequence

RecorderInv == TypeOK /\ NoRepeat /\ OnRecord

\* The open rows of the journal, and the failures, are those of the executions.
Journalled ==
  \A e \in Events :
    /\ e \in unresolved <=> fate[e] = "unresolved"
    /\ fate[e] = "failed" => failure[e].sequence >= 1

\* What a flush still waits for of the executions queued before it.
Awaited ==
  \A f \in Flushers, e \in Events : e \in call[f].before =>
    /\ fate[e] # "coming"
    /\ call[f].at = "draining" /\ fate[e] = "pending" => done < call[f].waits
    /\ call[f].at \in {"readiness", "answering"} => fate[e] # "pending"
    /\ call[f].at = "answering" /\ call[f].ready => fate[e] # "unresolved"

FlushInv == RecorderInv /\ Journalled /\ Awaited
-----------------------------------------------------------------------------
(* Types *)

\* What #recordFailure leaves behind.
LEMMA RecordedTyped ==
  ASSUME TypeOK, NEW c \in Codes, NEW fill \in Fills \cup {NoFill}, Recorded(c, fill)
  PROVE  /\ sequence' = sequence + 1 /\ sequence' \in Nat
         /\ codes' \in [Codes -> [sequence : 0 .. sequence', fill : Fills \cup {NoFill}]]
         /\ codes'[c].sequence = sequence'
         /\ \A d \in Codes : codes[d].sequence <= codes'[d].sequence
<1> DEFINE r == [sequence |-> sequence + 1, fill |-> fill]
<1>1. codes' = [codes EXCEPT ![c] = r] /\ sequence' = sequence + 1
  BY DEF Recorded
<1>2. sequence' \in Nat /\ r \in [sequence : 0 .. sequence', fill : Fills \cup {NoFill}]
  BY <1>1 DEF TypeOK
<1>3. \A d \in Codes :
        /\ codes[d] \in [sequence : 0 .. sequence, fill : Fills \cup {NoFill}]
        /\ codes[d] \in [sequence : 0 .. sequence', fill : Fills \cup {NoFill}]
  BY <1>1, <1>2 DEF TypeOK
<1>4. codes' \in [Codes -> [sequence : 0 .. sequence', fill : Fills \cup {NoFill}]]
  BY <1>1, <1>2, <1>3 DEF TypeOK
<1>5. codes'[c] = r /\ \A d \in Codes \ {c} : codes'[d] = codes[d]
  BY <1>1 DEF TypeOK
<1>6. codes'[c].sequence = sequence' /\ \A d \in Codes : codes[d].sequence <= codes'[d].sequence
  BY <1>1, <1>2, <1>3, <1>5
<1> QED
  BY <1>1, <1>2, <1>4, <1>6

\* A failure of an execution, recorded under a code.
LEMMA FailsTyped ==
  ASSUME TypeOK, OnRecord, NEW e \in Events, Fails(e)
  PROVE  /\ sequence' \in Nat /\ sequence <= sequence'
         /\ codes' \in [Codes -> [sequence : 0 .. sequence', fill : Fills \cup {NoFill}]]
         /\ fate' \in [Events -> Fates] /\ fate'[e] # "pending"
         /\ \A x \in Events \ {e} : fate'[x] = fate[x]
         /\ failure' \in [Events -> [code : Codes, sequence : 0 .. sequence']]
         /\ proofs' = proofs /\ remembered' = remembered
         /\ OnRecord'
<1>1. PICK c \in Codes \ {ReadinessCode} :
        /\ Recorded(c, FillOf[e])
        /\ fate' = [fate EXCEPT ![e] = "failed"]
        /\ failure' = [failure EXCEPT ![e] = [code |-> c, sequence |-> sequence + 1]]
        /\ UNCHANGED <<proofs, remembered>>
  BY DEF Fails
<1>2. FillOf[e] \in Fills \cup {NoFill}
  BY RecorderAssumption
<1>3. /\ sequence' = sequence + 1 /\ sequence' \in Nat
      /\ codes' \in [Codes -> [sequence : 0 .. sequence', fill : Fills \cup {NoFill}]]
      /\ codes'[c].sequence = sequence'
      /\ \A d \in Codes : codes[d].sequence <= codes'[d].sequence
  BY <1>1, <1>2, RecordedTyped
<1> DEFINE r == [code |-> c, sequence |-> sequence + 1]
<1>4. r \in [code : Codes, sequence : 0 .. sequence'] /\ r.code = c /\ r.sequence = sequence'
  BY <1>3
<1>5. failure'[e] = r /\ \A x \in Events \ {e} : failure'[x] = failure[x] /\ fate'[x] = fate[x]
  BY <1>1 DEF TypeOK
<1>6. \A x \in Events : failure[x] \in [code : Codes, sequence : 0 .. sequence']
  BY <1>3 DEF TypeOK
<1>7. failure' \in [Events -> [code : Codes, sequence : 0 .. sequence']]
  BY <1>1, <1>4, <1>6 DEF TypeOK
<1>8. OnRecord'
  <2> SUFFICES ASSUME NEW x \in Events, fate'[x] = "failed"
               PROVE  failure'[x].sequence <= codes'[failure'[x].code].sequence
    BY DEF OnRecord
  <2>1. CASE x = e
    BY <1>3, <1>4, <1>5, <2>1
  <2>2. CASE x # e
    <3>1. failure[x].sequence <= codes[failure[x].code].sequence /\ failure[x].code \in Codes
      BY <1>5, <2>2 DEF OnRecord, TypeOK
    <3>2. codes[failure[x].code].sequence <= codes'[failure[x].code].sequence
      BY <1>3, <3>1
    <3>3. /\ failure[x].sequence \in Nat /\ codes[failure[x].code].sequence \in Nat
          /\ codes'[failure[x].code].sequence \in Nat
      BY <1>3, <3>1 DEF TypeOK
    <3> QED BY <1>5, <2>2, <3>1, <3>2, <3>3
  <2> QED BY <2>1, <2>2
<1>9. fate' \in [Events -> Fates] /\ fate'[e] = "failed"
  BY <1>1 DEF TypeOK, Fates
<1>10. sequence <= sequence'
  BY <1>3 DEF TypeOK
<1> QED
  BY <1>1, <1>3, <1>5, <1>7, <1>8, <1>9, <1>10

-----------------------------------------------------------------------------
(* The queue *)

LEMMA EnqueueStep ==
  ASSUME RecorderInv, NEW e \in Events, Enqueue(e)
  PROVE  RecorderInv'
<1> USE DEF RecorderInv
<1>1. /\ fate[e] = "coming" /\ fate' = [fate EXCEPT ![e] = "pending"]
      /\ pending' = Append(pending, e)
      /\ UNCHANGED <<busy, tail, done, latches, unresolved, call, recovery, failure>>
  BY DEF Enqueue
<1>2. /\ pending' \in Seq(Events) /\ Len(pending') = Len(pending) + 1
      /\ Len(pending) \in Nat /\ pending'[Len(pending) + 1] = e
      /\ \A i \in 1 .. Len(pending) : pending'[i] = pending[i]
  BY <1>1 DEF TypeOK
<1>3. /\ DOMAIN pending = 1 .. Len(pending)
      /\ DOMAIN pending' = 1 .. Len(pending')
  BY <1>2 DEF TypeOK
<1>4. busy # e /\ \A i \in 1 .. Len(pending) : pending[i] # e
  BY <1>1, <1>3 DEF TypeOK
<1>5. \A i \in 1 .. Len(pending') : i \in 1 .. Len(pending) \/ i = Len(pending) + 1
  BY <1>2
<1>6. NoRepeat'
  BY <1>1, <1>2, <1>4, <1>5 DEF NoRepeat
<1>7. \A x \in Events : fate'[x] = "pending" <=> busy' = x \/ \E i \in DOMAIN pending' : pending'[i] = x
  <2> SUFFICES ASSUME NEW x \in Events
               PROVE fate'[x] = "pending" <=> busy' = x \/ \E i \in DOMAIN pending' : pending'[i] = x
    OBVIOUS
  <2>1. CASE x = e
    <3>1. fate'[e] = "pending"
      BY <1>1 DEF TypeOK
    <3>2. Len(pending) + 1 \in DOMAIN pending' /\ pending'[Len(pending) + 1] = e
      BY <1>2, <1>3
    <3> QED BY <2>1, <3>1, <3>2
  <2>2. CASE x # e
    <3>1. fate'[x] = fate[x]
      BY <1>1, <2>2 DEF TypeOK
    <3>2. (\E i \in 1 .. Len(pending) : pending[i] = x) <=> (\E i \in 1 .. Len(pending') : pending'[i] = x)
      BY <1>2, <1>5, <2>2
    <3>3. fate[x] = "pending" <=> busy = x \/ \E i \in 1 .. Len(pending) : pending[i] = x
      BY <1>3 DEF TypeOK
    <3>4. busy' = busy
      BY <1>1
    <3> QED BY <1>3, <3>1, <3>2, <3>3, <3>4
  <2> QED BY <2>1, <2>2
<1>8. OnRecord'
  BY <1>1 DEF OnRecord, TypeOK, latches
<1>9. TypeOK'
  BY <1>1, <1>2, <1>7 DEF TypeOK, latches, recovery, Fates
<1> QED BY <1>6, <1>8, <1>9

\* What is left of the queue when its head is taken.
LEMMA TailFacts ==
  ASSUME RecorderInv, pending # <<>>, pending' = Tail(pending)
  PROVE  /\ Head(pending) \in Events /\ fate[Head(pending)] = "pending" /\ busy # Head(pending)
         /\ pending' \in Seq(Events)
         /\ \A i \in 1 .. Len(pending') : pending'[i] # Head(pending) /\ pending'[i] # busy
         /\ \A i, j \in 1 .. Len(pending') : pending'[i] = pending'[j] => i = j
         /\ DOMAIN pending' = 1 .. Len(pending')
         /\ \A x \in Events \ {Head(pending)} :
              fate[x] = "pending" <=> busy = x \/ \E i \in DOMAIN pending' : pending'[i] = x
<1> USE DEF RecorderInv
<1>1. /\ Len(pending) \in Nat \ {0} /\ DOMAIN pending = 1 .. Len(pending)
      /\ Head(pending) = pending[1] /\ pending[1] \in Events
      /\ pending' \in Seq(Events) /\ Len(pending') = Len(pending) - 1
      /\ \A i \in 1 .. Len(pending') : pending'[i] = pending[i + 1]
      /\ DOMAIN pending' = 1 .. Len(pending')
  BY DEF TypeOK
<1>2. \A i \in 1 .. Len(pending') : i + 1 \in 1 .. Len(pending) /\ i + 1 # 1
  BY <1>1
<1>3. \A i \in 1 .. Len(pending') : pending'[i] # Head(pending) /\ pending'[i] # busy
  BY <1>1, <1>2 DEF NoRepeat
<1>4. \A i, j \in 1 .. Len(pending') : pending'[i] = pending'[j] => i = j
  BY <1>1, <1>2 DEF NoRepeat
<1>5. fate[Head(pending)] = "pending" /\ busy # Head(pending)
  <2>1. 1 \in DOMAIN pending /\ 1 \in 1 .. Len(pending) /\ pending[1] = Head(pending)
    BY <1>1
  <2>2. fate[Head(pending)] = "pending"
    BY <1>1, <2>1 DEF TypeOK
  <2>3. busy # Head(pending)
    BY <2>1 DEF NoRepeat
  <2> QED BY <2>2, <2>3
<1>6. ASSUME NEW x \in Events \ {Head(pending)}
      PROVE  (\E i \in 1 .. Len(pending) : pending[i] = x) <=> (\E i \in 1 .. Len(pending') : pending'[i] = x)
  <2>1. ASSUME NEW i \in 1 .. Len(pending), pending[i] = x
        PROVE  \E k \in 1 .. Len(pending') : pending'[k] = x
    <3>1. i # 1 /\ i - 1 \in 1 .. Len(pending')
      BY <1>1, <1>6, <2>1
    <3> QED BY <1>1, <2>1, <3>1
  <2>2. ASSUME NEW i \in 1 .. Len(pending'), pending'[i] = x
        PROVE  \E k \in 1 .. Len(pending) : pending[k] = x
    BY <1>1, <1>2, <2>2
  <2> QED BY <2>1, <2>2
<1>7. \A x \in Events \ {Head(pending)} :
        fate[x] = "pending" <=> busy = x \/ \E i \in DOMAIN pending' : pending'[i] = x
  BY <1>1, <1>6 DEF TypeOK
<1> QED BY <1>1, <1>3, <1>4, <1>5, <1>7

LEMMA TakeStep ==
  ASSUME RecorderInv, Take
  PROVE  RecorderInv'
<1> USE DEF RecorderInv
<1> DEFINE e == Head(pending)
<1>1. /\ busy = NoEvent /\ pending # <<>> /\ pending' = Tail(pending)
      /\ UNCHANGED <<tail, done, unresolved, call, phase, checkpoint>>
  BY DEF Take, recovery
<1>2. /\ e \in Events /\ fate[e] = "pending" /\ e # NoEvent
      /\ pending' \in Seq(Events)
      /\ \A i \in 1 .. Len(pending') : pending'[i] # e /\ pending'[i] # NoEvent
      /\ \A i, j \in 1 .. Len(pending') : pending'[i] = pending'[j] => i = j
      /\ DOMAIN pending' = 1 .. Len(pending')
      /\ \A x \in Events \ {e} :
           fate[x] = "pending" <=> \E i \in DOMAIN pending' : pending'[i] = x
  BY <1>1, TailFacts, RecorderAssumption
<1>3. CASE /\ Fails(e) \/ (Settles(e) /\ remembered' = remembered)
           /\ busy' = busy
  <2>1. /\ sequence' \in Nat /\ sequence <= sequence'
        /\ codes' \in [Codes -> [sequence : 0 .. sequence', fill : Fills \cup {NoFill}]]
        /\ fate' \in [Events -> Fates]
        /\ fate'[e] # "pending" /\ \A x \in Events \ {e} : fate'[x] = fate[x]
        /\ failure' \in [Events -> [code : Codes, sequence : 0 .. sequence']]
        /\ proofs' = proofs /\ remembered' = remembered
        /\ OnRecord'
    <3>1. CASE Fails(e)
      BY <1>2, <3>1, FailsTyped
    <3>2. CASE Settles(e) /\ remembered' = remembered
      <4>1. /\ fate' = [fate EXCEPT ![e] = "settled"] /\ remembered' = remembered
            /\ codes' = codes /\ sequence' = sequence /\ proofs' = proofs /\ failure' = failure
        BY <3>2 DEF Settles
      <4> QED BY <1>2, <4>1 DEF TypeOK, Fates, OnRecord
    <3> QED BY <1>3, <3>1, <3>2
  <2>2. \A x \in Events : fate'[x] = "pending" <=> busy' = x \/ \E i \in DOMAIN pending' : pending'[i] = x
    <3> SUFFICES ASSUME NEW x \in Events
                 PROVE fate'[x] = "pending" <=> busy' = x \/ \E i \in DOMAIN pending' : pending'[i] = x
      OBVIOUS
    <3>1. busy' # x
      BY <1>1, <1>3, RecorderAssumption
    <3>2. CASE x = e
      BY <1>2, <2>1, <3>1, <3>2
    <3>3. CASE x # e
      BY <1>2, <2>1, <3>1, <3>3
    <3> QED BY <3>2, <3>3
  <2>3. NoRepeat'
    BY <1>1, <1>2, <1>3 DEF NoRepeat
  <2>4. checkpoint' \in 0 .. sequence'
    BY <1>1, <2>1 DEF TypeOK
  <2>5. TypeOK'
    BY <1>1, <1>2, <1>3, <2>1, <2>2, <2>4 DEF TypeOK
  <2> QED BY <2>1, <2>3, <2>5
<1>4. CASE busy' = e /\ UNCHANGED <<latches, history>>
  <2>1. UNCHANGED <<codes, sequence, proofs, remembered, fate, failure>>
    BY <1>4 DEF latches, history
  <2>2. NoRepeat'
    BY <1>2, <1>4 DEF NoRepeat
  <2>3. \A x \in Events : fate'[x] = "pending" <=> busy' = x \/ \E i \in DOMAIN pending' : pending'[i] = x
    BY <1>2, <1>4, <2>1
  <2>4. TypeOK'
    BY <1>1, <1>2, <1>4, <2>1, <2>3 DEF TypeOK
  <2> QED BY <2>1, <2>2, <2>4 DEF OnRecord
<1>5. \/ (Fails(e) \/ (Settles(e) /\ remembered' = remembered)) /\ busy' = busy
      \/ busy' = e /\ UNCHANGED <<latches, history>>
  BY DEF Take
<1> QED BY <1>3, <1>4, <1>5

LEMMA PersistedStep ==
  ASSUME RecorderInv, Persisted
  PROVE  RecorderInv'
<1> USE DEF RecorderInv
<1>1. /\ busy \in Events /\ busy' = NoEvent /\ pending' = pending
      /\ UNCHANGED <<tail, done, call, phase, checkpoint>>
  BY DEF Persisted, recovery, TypeOK
<1>2. DOMAIN pending = 1 .. Len(pending) /\ \A i \in 1 .. Len(pending) : pending[i] # busy /\ pending[i] # NoEvent
  BY RecorderAssumption DEF TypeOK, NoRepeat
<1>3. /\ sequence' \in Nat /\ sequence <= sequence'
      /\ codes' \in [Codes -> [sequence : 0 .. sequence', fill : Fills \cup {NoFill}]]
      /\ fate' \in [Events -> Fates]
      /\ fate'[busy] # "pending" /\ \A x \in Events \ {busy} : fate'[x] = fate[x]
      /\ failure' \in [Events -> [code : Codes, sequence : 0 .. sequence']]
      /\ proofs' = proofs /\ remembered' \subseteq Fills /\ unresolved' \subseteq Events
      /\ OnRecord'
  <2>1. CASE Settles(busy) /\ remembered' = remembered \cup ({FillOf[busy]} \ {NoFill}) /\ unresolved' = unresolved
    <3>1. /\ fate' = [fate EXCEPT ![busy] = "settled"]
          /\ codes' = codes /\ sequence' = sequence /\ proofs' = proofs /\ failure' = failure
      BY <2>1 DEF Settles
    <3>2. remembered' \subseteq Fills
      BY <1>1, <2>1, RecorderAssumption DEF TypeOK
    <3> QED BY <1>1, <2>1, <3>1, <3>2 DEF TypeOK, Fates, OnRecord
  <2>2. CASE /\ unresolved' = unresolved \cup {busy}
             /\ fate' = [fate EXCEPT ![busy] = "unresolved"] /\ UNCHANGED <<latches, failure>>
    BY <1>1, <2>2 DEF TypeOK, Fates, OnRecord, latches
  <2>3. CASE Fails(busy) /\ unresolved' = unresolved
    <3>1. remembered \subseteq Fills /\ unresolved' \subseteq Events
      BY <2>3 DEF TypeOK
    <3> QED BY <1>1, <2>3, <3>1, FailsTyped
  <2> QED BY <2>1, <2>2, <2>3 DEF Persisted
<1>4. \A x \in Events : fate'[x] = "pending" <=> busy' = x \/ \E i \in DOMAIN pending' : pending'[i] = x
  <2> SUFFICES ASSUME NEW x \in Events
               PROVE fate'[x] = "pending" <=> busy' = x \/ \E i \in DOMAIN pending' : pending'[i] = x
    OBVIOUS
  <2>1. fate[x] = "pending" <=> busy = x \/ \E i \in DOMAIN pending : pending[i] = x
    BY DEF TypeOK
  <2>2. busy' # x
    BY <1>1, RecorderAssumption
  <2> QED BY <1>1, <1>2, <1>3, <2>1, <2>2
<1>5. NoRepeat'
  BY <1>1, <1>2 DEF NoRepeat
<1>6. checkpoint' \in 0 .. sequence'
  BY <1>1, <1>3 DEF TypeOK
<1>7. TypeOK'
  BY <1>1, <1>3, <1>4, <1>6 DEF TypeOK
<1> QED BY <1>3, <1>5, <1>7

-----------------------------------------------------------------------------
(* Flushes *)

LEMMA BeginFlushTyped ==
  ASSUME TypeOK, NEW f \in Flushers, BeginFlush(f)
  PROVE  /\ call' \in [Flushers -> Calls] /\ tail' \in 0 .. MaxFlushes /\ tail <= tail'
         /\ \A d \in 0 .. tail : d \in 0 .. tail'
<1>1. /\ tail < MaxFlushes /\ tail' = tail + 1
      /\ call' = [call EXCEPT ![f] =
           [at |-> "draining", waits |-> tail + 1, ready |-> FALSE, before |-> Enqueued]]
  BY DEF BeginFlush
<1>2. tail \in Nat /\ tail' \in 0 .. MaxFlushes
  BY <1>1, RecorderAssumption DEF TypeOK
<1>3. [at |-> "draining", waits |-> tail + 1, ready |-> FALSE, before |-> Enqueued] \in Calls
  BY <1>1, <1>2 DEF Calls, Enqueued
<1>4. call' \in [Flushers -> Calls]
  BY <1>1, <1>3 DEF TypeOK
<1> QED BY <1>1, <1>2, <1>4

\* A call that goes on keeps the shape of a call.
LEMMA CallMoved ==
  ASSUME TypeOK, NEW f \in Flushers, NEW r \in Calls, call' = [call EXCEPT ![f] = r]
  PROVE  call' \in [Flushers -> Calls]
  BY DEF TypeOK

LEMMA CallsClosed ==
  ASSUME NEW r \in Calls,
         NEW s \in {"idle", "draining", "readiness", "answering", "certain", "uncertain"}
  PROVE  /\ [r EXCEPT !.at = s] \in Calls
         /\ \A n \in 0 .. MaxFlushes : [r EXCEPT !.waits = n] \in Calls
         /\ \A b \in BOOLEAN : [r EXCEPT !.at = s, !.ready = b] \in Calls
  BY DEF Calls

LEMMA DrainEndsStep ==
  ASSUME RecorderInv, DrainEnds
  PROVE  RecorderInv'
<1>1. /\ done < tail /\ done' = done + 1
      /\ UNCHANGED <<pending, busy, tail, latches, unresolved, call, recovery, history>>
  BY DEF DrainEnds
<1>2. done' \in 0 .. tail'
  BY <1>1 DEF RecorderInv, TypeOK
<1> QED BY <1>1, <1>2 DEF RecorderInv, TypeOK, NoRepeat, OnRecord, latches, recovery, history

LEMMA FlushStep ==
  ASSUME RecorderInv, NEW f \in Callers, Flush(f)
  PROVE  RecorderInv'
<1>1. /\ BeginFlush(f)
      /\ UNCHANGED <<pending, busy, done, latches, unresolved, recovery, history>>
  BY DEF Flush
<1>2. /\ call' \in [Flushers -> Calls] /\ tail' \in 0 .. MaxFlushes
      /\ done' \in 0 .. tail'
  BY <1>1, BeginFlushTyped DEF RecorderInv, TypeOK, Flushers
<1> QED BY <1>1, <1>2 DEF RecorderInv, TypeOK, NoRepeat, OnRecord, latches, recovery, history

LEMMA DrainedStep ==
  ASSUME RecorderInv, NEW f \in Flushers, Drained(f) \/ Readiness(f)
  PROVE  RecorderInv'
<1>1. UNCHANGED <<queue, latches, unresolved, recovery, history>>
  BY DEF Drained, Readiness
<1>2. call' \in [Flushers -> Calls]
  <2> USE DEF RecorderInv
  <2>1. CASE Drained(f)
    <3>1. \/ call' = [call EXCEPT ![f] = [call[f] EXCEPT !.at = "readiness"]]
          \/ call' = [call EXCEPT ![f] = [call[f] EXCEPT !.waits = tail]]
      BY <2>1 DEF Drained
    <3>2. tail \in 0 .. MaxFlushes /\ call[f] \in Calls
      BY DEF TypeOK
    <3>3. [call[f] EXCEPT !.at = "readiness"] \in Calls /\ [call[f] EXCEPT !.waits = tail] \in Calls
      BY <3>2, CallsClosed
    <3> QED BY <3>1, <3>3, CallMoved
  <2>2. CASE Readiness(f)
    <3> DEFINE b == unresolved = {}
    <3>1. call' = [call EXCEPT ![f] = [call[f] EXCEPT !.at = "answering", !.ready = b]]
      BY <2>2 DEF Readiness
    <3>2. b \in BOOLEAN /\ call[f] \in Calls
      BY DEF TypeOK
    <3> HIDE DEF b
    <3>3. [call[f] EXCEPT !.at = "answering", !.ready = b] \in Calls
      BY <3>2, CallsClosed
    <3> QED BY <3>1, <3>3, CallMoved
  <2> QED BY <2>1, <2>2
<1> QED BY <1>1, <1>2 DEF RecorderInv, TypeOK, NoRepeat, OnRecord, queue, latches, recovery, history

\* A flush answers: the caller goes on, and recovery takes its checkpoint.
LEMMA ReturnStep ==
  ASSUME RecorderInv, NEW f \in Flushers, Answered(f) \/ ReadinessFails(f)
  PROVE  RecorderInv'
<1>1. PICK ready \in BOOLEAN : Return(f, ready)
  BY DEF Answered, ReadinessFails, RecorderInv, TypeOK, Calls
<1>2. /\ sequence' \in Nat /\ sequence <= sequence'
      /\ codes' \in [Codes -> [sequence : 0 .. sequence', fill : Fills \cup {NoFill}]]
      /\ \A d \in Codes : codes[d].sequence <= codes'[d].sequence
  <2>1. CASE Answered(f)
    <3>1. codes' = codes /\ sequence' = sequence
      BY <2>1 DEF Answered
    <3> QED BY <3>1 DEF RecorderInv, TypeOK
  <2>2. CASE ReadinessFails(f)
    <3>1. Recorded(ReadinessCode, NoFill)
      BY <2>2 DEF ReadinessFails
    <3> QED BY <3>1, RecordedTyped, RecorderAssumption DEF RecorderInv, TypeOK
  <2> QED BY <2>1, <2>2
<1>3. UNCHANGED <<queue, proofs, remembered, unresolved, history>>
  BY <1>1 DEF Return
<1>4. call' \in [Flushers -> Calls]
  <2>1. PICK s \in {"certain", "uncertain"} : call' = [call EXCEPT ![f] = [call[f] EXCEPT !.at = s]]
    BY <1>1 DEF Return
  <2>2. call[f] \in Calls
    BY DEF RecorderInv, TypeOK
  <2>3. [call[f] EXCEPT !.at = s] \in Calls
    BY <2>2, CallsClosed
  <2> QED BY <2>1, <2>3, CallMoved DEF RecorderInv
<1>5. /\ phase' \in {"idle", "first", "reconciling", "proved", "second"}
      /\ checkpoint' \in 0 .. sequence'
  BY <1>1, <1>2 DEF Return, RecorderInv, TypeOK, recovery
<1>6. OnRecord'
  <2> SUFFICES ASSUME NEW x \in Events, fate[x] = "failed"
               PROVE  failure[x].sequence <= codes'[failure[x].code].sequence
    BY <1>3 DEF OnRecord, history
  <2>1. failure[x].sequence <= codes[failure[x].code].sequence /\ failure[x].code \in Codes
    BY DEF RecorderInv, OnRecord, TypeOK
  <2>2. /\ failure[x].sequence \in Nat /\ codes[failure[x].code].sequence \in Nat
        /\ codes'[failure[x].code].sequence \in Nat
    BY <1>2, <2>1 DEF RecorderInv, TypeOK
  <2> QED BY <1>2, <2>1, <2>2
<1>7. failure' \in [Events -> [code : Codes, sequence : 0 .. sequence']]
  <2>1. \A x \in Events : failure[x] \in [code : Codes, sequence : 0 .. sequence']
    BY <1>2 DEF RecorderInv, TypeOK
  <2> QED BY <1>3, <2>1 DEF RecorderInv, TypeOK, history
<1> QED BY <1>2, <1>3, <1>4, <1>5, <1>6, <1>7 DEF RecorderInv, TypeOK, NoRepeat, queue, history

-----------------------------------------------------------------------------
(* Recovery *)

LEMMA RecoverStep ==
  ASSUME RecorderInv, Recover \/ NoProof \/ Prove \/ AcknowledgeUncertain
  PROVE  RecorderInv'
<1>1. /\ UNCHANGED <<pending, busy, done, latches, unresolved, checkpoint, history>>
      /\ phase' \in {"idle", "first", "proved", "second"}
      /\ BeginFlush(Recovery) \/ UNCHANGED <<tail, call>>
  BY DEF Recover, NoProof, Prove, AcknowledgeUncertain, queue
<1>2. /\ call' \in [Flushers -> Calls] /\ tail' \in 0 .. MaxFlushes
      /\ done' \in 0 .. tail'
  <2>1. CASE BeginFlush(Recovery)
    BY <1>1, <2>1, BeginFlushTyped DEF RecorderInv, TypeOK, Flushers
  <2>2. CASE UNCHANGED <<tail, call>>
    BY <1>1, <2>2 DEF RecorderInv, TypeOK
  <2> QED BY <1>1, <2>1, <2>2
<1> QED BY <1>1, <1>2 DEF RecorderInv, TypeOK, NoRepeat, OnRecord, latches, history

\* What is cleared is excused with its entry; what stays on record keeps its entry.
LEMMA AcknowledgeStep ==
  ASSUME RecorderInv, NEW fill \in Fills, Acknowledge(fill)
  PROVE  RecorderInv'
<1>1. /\ phase' = "second"
      /\ codes' = [c \in Codes |-> IF c \in Cleared(fill) THEN Unset ELSE codes[c]]
      /\ proofs' = proofs \cup {fill}
      /\ fate' = [e \in Events |-> IF fate[e] = "failed" /\ failure[e].code \in Cleared(fill)
                                    THEN "cleared" ELSE fate[e]]
      /\ BeginFlush(Recovery)
      /\ UNCHANGED <<pending, busy, done, sequence, remembered, unresolved, checkpoint, failure>>
  BY DEF Acknowledge
<1>2. /\ call' \in [Flushers -> Calls] /\ tail' \in 0 .. MaxFlushes
      /\ done' \in 0 .. tail'
  BY <1>1, BeginFlushTyped DEF RecorderInv, TypeOK, Flushers
<1>3. codes' \in [Codes -> [sequence : 0 .. sequence', fill : Fills \cup {NoFill}]]
  BY <1>1 DEF RecorderInv, TypeOK, Unset
<1>4. fate' \in [Events -> Fates] /\ \A x \in Events : fate'[x] = "pending" <=> fate[x] = "pending"
  BY <1>1 DEF RecorderInv, TypeOK, Fates
<1>5. OnRecord'
  <2> SUFFICES ASSUME NEW x \in Events, fate'[x] = "failed"
               PROVE  failure[x].sequence <= codes'[failure[x].code].sequence
    BY <1>1 DEF OnRecord
  <2>1. fate[x] = "failed" /\ failure[x].code \notin Cleared(fill) /\ failure[x].code \in Codes
    BY <1>1 DEF RecorderInv, TypeOK
  <2> QED BY <1>1, <2>1 DEF RecorderInv, OnRecord
<1>6. TypeOK'
  BY <1>1, <1>2, <1>3, <1>4 DEF RecorderInv, TypeOK
<1> QED BY <1>1, <1>5, <1>6 DEF RecorderInv, NoRepeat

LEMMA ResolveStep ==
  ASSUME RecorderInv, NEW e \in Events, Resolve(e), fate[e] # "pending"
  PROVE  RecorderInv'
<1>1. /\ unresolved' = unresolved \ {e} /\ fate' = [fate EXCEPT ![e] = "settled"]
      /\ UNCHANGED <<queue, latches, call, recovery, failure>>
  BY DEF Resolve
<1>2. /\ fate' \in [Events -> Fates] /\ unresolved' \subseteq Events
      /\ \A x \in Events : fate'[x] = "pending" <=> fate[x] = "pending"
      /\ \A x \in Events : fate'[x] = "failed" => fate[x] = "failed"
  BY <1>1 DEF RecorderInv, TypeOK, Fates
<1> QED BY <1>1, <1>2 DEF RecorderInv, TypeOK, NoRepeat, OnRecord, queue, latches, recovery

-----------------------------------------------------------------------------
(* What becomes of an execution *)

Over == {"settled", "cleared", "failed"}

\* An execution goes from queued to stored, open, ignored or failed, and stays there
\* but for the resolution of its row and the acknowledgement of its failure.
Onward(e) ==
  /\ fate[e] # "coming" => fate'[e] # "coming"
  /\ fate[e] \notin {"coming", "pending"} => fate'[e] # "pending"
  /\ fate[e] \in Over => fate'[e] \in Over

LEMMA FatesMove ==
  ASSUME RecorderInv, Journalled, Next
  PROVE  Journalled' /\ \A e \in Events : Onward(e)
<1> USE DEF RecorderInv
\* One execution, queued or being persisted, fails.
<1>1. ASSUME NEW e \in Events, fate[e] = "pending", Fails(e), unresolved' = unresolved
      PROVE  Journalled' /\ \A x \in Events : Onward(x)
  <2>1. PICK c \in Codes :
          /\ fate' = [fate EXCEPT ![e] = "failed"]
          /\ failure' = [failure EXCEPT ![e] = [code |-> c, sequence |-> sequence + 1]]
    BY <1>1 DEF Fails
  <2>2. fate'[e] = "failed" /\ \A x \in Events \ {e} : fate'[x] = fate[x] /\ failure'[x] = failure[x]
    BY <2>1 DEF TypeOK
  <2>3. failure'[e].sequence >= 1
    BY <2>1 DEF TypeOK
  <2> QED BY <1>1, <2>2, <2>3 DEF Journalled, Onward, Over
\* One execution settles.
<1>2. ASSUME NEW e \in Events, fate[e] = "pending" \/ e \in unresolved,
             fate' = [fate EXCEPT ![e] = "settled"], failure' = failure, unresolved' = unresolved \ {e}
      PROVE  Journalled' /\ \A x \in Events : Onward(x)
  <2>1. fate'[e] = "settled" /\ \A x \in Events \ {e} : fate'[x] = fate[x]
    BY <1>2 DEF TypeOK
  <2> QED BY <1>2, <2>1 DEF Journalled, Onward, Over
\* Nothing becomes of any.
<1>3. ASSUME UNCHANGED <<fate, failure, unresolved>>
      PROVE  Journalled' /\ \A x \in Events : Onward(x)
  BY <1>3 DEF Journalled, Onward
<1>4. CASE \E e \in Events : Enqueue(e)
  <2>1. PICK e \in Events : Enqueue(e)
    BY <1>4
  <2>2. /\ fate[e] = "coming" /\ fate'[e] = "pending" /\ failure' = failure /\ unresolved' = unresolved
        /\ \A x \in Events \ {e} : fate'[x] = fate[x]
    BY <2>1 DEF Enqueue, TypeOK
  <2> QED BY <2>2 DEF Journalled, Onward, Over
<1>5. CASE \E e \in Events : Resolve(e)
  BY <1>2, <1>5 DEF Resolve
<1>6. CASE Take
  <2> DEFINE e == Head(pending)
  <2>1. e \in Events /\ fate[e] = "pending" /\ unresolved' = unresolved
    BY <1>6, TailFacts DEF Take
  <2>2. e \notin unresolved
    BY <2>1 DEF Journalled
  <2>3. CASE Fails(e)
    BY <1>1, <2>1, <2>3
  <2>4. CASE Settles(e)
    <3>1. unresolved' = unresolved \ {e}
      BY <2>1, <2>2
    <3> QED BY <1>2, <2>1, <2>4, <3>1 DEF Settles
  <2>5. CASE UNCHANGED <<latches, history>>
    BY <1>3, <2>1, <2>5 DEF history
  <2> QED BY <1>6, <2>3, <2>4, <2>5 DEF Take
<1>7. CASE Persisted
  <2>1. busy \in Events /\ fate[busy] = "pending"
    BY <1>7 DEF Persisted, TypeOK
  <2>2. busy \notin unresolved
    BY <2>1 DEF Journalled
  <2>3. CASE Settles(busy) /\ unresolved' = unresolved
    <3>1. unresolved' = unresolved \ {busy}
      BY <2>2, <2>3
    <3> QED BY <1>2, <2>1, <2>3, <3>1 DEF Settles
  <2>4. CASE Fails(busy) /\ unresolved' = unresolved
    BY <1>1, <2>1, <2>4
  <2>5. CASE /\ unresolved' = unresolved \cup {busy} /\ failure' = failure
             /\ fate' = [fate EXCEPT ![busy] = "unresolved"]
    <3>1. fate'[busy] = "unresolved" /\ \A x \in Events \ {busy} : fate'[x] = fate[x]
      BY <2>1, <2>5 DEF TypeOK
    <3> QED BY <2>1, <2>5, <3>1 DEF Journalled, Onward, Over
  <2> QED BY <1>7, <2>3, <2>4, <2>5 DEF Persisted
<1>8. CASE \E fill \in Fills : Acknowledge(fill)
  <2>1. PICK fill \in Fills : Acknowledge(fill)
    BY <1>8
  <2>2. /\ \A x \in Events : fate'[x] = fate[x] \/ (fate[x] = "failed" /\ fate'[x] = "cleared")
        /\ failure' = failure /\ unresolved' = unresolved
    BY <2>1 DEF Acknowledge
  <2> QED BY <2>2 DEF Journalled, Onward, Over
<1>9. CASE \/ DrainEnds \/ \E f \in Callers : Flush(f)
           \/ \E f \in Flushers : Drained(f) \/ Readiness(f) \/ Answered(f) \/ ReadinessFails(f)
           \/ Recover \/ NoProof \/ Prove \/ AcknowledgeUncertain
  <2>1. UNCHANGED <<fate, failure, unresolved>>
    BY <1>9 DEF DrainEnds, Flush, Drained, Readiness, Answered, ReadinessFails, Return,
                Recover, NoProof, Prove, AcknowledgeUncertain, history
  <2> QED BY <1>3, <2>1
<1> QED BY <1>4, <1>5, <1>6, <1>7, <1>8, <1>9 DEF Next

-----------------------------------------------------------------------------
(* What a flush waits for *)

\* A step that leaves the calls and the drains alone.
LEMMA AwaitedKept ==
  ASSUME TypeOK, Awaited, \A e \in Events : Onward(e), UNCHANGED <<call, done>>
  PROVE  Awaited'
<1> SUFFICES ASSUME NEW f \in Flushers, NEW e \in Events, e \in call[f].before
             PROVE  /\ fate'[e] # "coming"
                    /\ call[f].at = "draining" /\ fate'[e] = "pending" => done < call[f].waits
                    /\ call[f].at \in {"readiness", "answering"} => fate'[e] # "pending"
                    /\ call[f].at = "answering" /\ call[f].ready => fate'[e] # "unresolved"
  BY DEF Awaited
<1>1. fate[e] # "coming" /\ fate'[e] # "coming"
  BY DEF Awaited, Onward
<1>2. fate'[e] = "pending" => fate[e] = "pending"
  BY <1>1 DEF Onward
<1>3. ASSUME call[f].at = "answering", call[f].ready
      PROVE  fate'[e] # "unresolved"
  <2>1. fate[e] \in Over
    BY <1>3 DEF Awaited, TypeOK, Fates, Over
  <2> QED BY <2>1 DEF Onward, Over
<1> QED BY <1>1, <1>2, <1>3 DEF Awaited

\* A flush begins: what was queued before it waits for the drain it chains.
LEMMA AwaitedAtBegin ==
  ASSUME TypeOK, Awaited, \A e \in Events : fate'[e] = fate[e] \/ (fate[e] = "failed" /\ fate'[e] = "cleared"),
         done' = done, NEW f \in Flushers, BeginFlush(f)
  PROVE  Awaited'
<1>1. /\ done < tail + 1 /\ call' \in [Flushers -> Calls]
      /\ call'[f] = [at |-> "draining", waits |-> tail + 1, ready |-> FALSE, before |-> Enqueued]
      /\ \A g \in Flushers \ {f} : call'[g] = call[g]
  <2>1. done < tail + 1
    BY RecorderAssumption DEF TypeOK
  <2>2. /\ call' = [call EXCEPT ![f] =
             [at |-> "draining", waits |-> tail + 1, ready |-> FALSE, before |-> Enqueued]]
        /\ call \in [Flushers -> Calls]
    BY DEF BeginFlush, TypeOK
  <2> QED BY <2>1, <2>2, BeginFlushTyped
<1>2. \A e \in Enqueued : fate[e] # "coming" /\ fate'[e] # "coming"
  BY DEF Enqueued
<1>3. \A e \in Events :
        /\ fate[e] # "coming" => fate'[e] # "coming"
        /\ fate'[e] = "pending" => fate[e] = "pending"
        /\ fate'[e] = "unresolved" => fate[e] = "unresolved"
  OBVIOUS
<1> SUFFICES ASSUME NEW g \in Flushers, NEW e \in Events, e \in call'[g].before
             PROVE  /\ fate'[e] # "coming"
                    /\ call'[g].at = "draining" /\ fate'[e] = "pending" => done < call'[g].waits
                    /\ call'[g].at \in {"readiness", "answering"} => fate'[e] # "pending"
                    /\ call'[g].at = "answering" /\ call'[g].ready => fate'[e] # "unresolved"
  BY DEF Awaited
<1>4. CASE g = f
  BY <1>1, <1>2, <1>4
<1>5. CASE g # f
  BY <1>1, <1>3, <1>5 DEF Awaited
<1> QED BY <1>4, <1>5

\* The steps of a call in progress: the drains have ended when it reads the journal,
\* and a certain journal has no open row of what it waited for.
LEMMA AwaitedOnward ==
  ASSUME TypeOK, Journalled, Awaited, UNCHANGED <<fate, done>>, NEW f \in Flushers,
         Drained(f) \/ Readiness(f) \/ Answered(f) \/ ReadinessFails(f)
  PROVE  Awaited'
<1>1. \A g \in Flushers \ {f} : call'[g] = call[g]
  BY DEF Drained, Readiness, Answered, ReadinessFails, Return, TypeOK
<1>2. call[f] \in Calls /\ done \in Nat
  BY RecorderAssumption DEF TypeOK
<1>3. \/ /\ call[f].at = "draining" /\ done >= call[f].waits
         /\ \/ call'[f] = [call[f] EXCEPT !.at = "readiness"]
            \/ call'[f] = [call[f] EXCEPT !.waits = tail]
      \/ /\ call[f].at = "readiness"
         /\ call'[f] = [call[f] EXCEPT !.at = "answering", !.ready = unresolved = {}]
      \/ call'[f] = [call[f] EXCEPT !.at = "certain"]
      \/ call'[f] = [call[f] EXCEPT !.at = "uncertain"]
  BY DEF Drained, Readiness, Answered, ReadinessFails, Return, TypeOK
<1> SUFFICES ASSUME NEW g \in Flushers, NEW e \in Events, e \in call'[g].before
             PROVE  /\ fate[e] # "coming"
                    /\ call'[g].at = "draining" /\ fate[e] = "pending" => done < call'[g].waits
                    /\ call'[g].at \in {"readiness", "answering"} => fate[e] # "pending"
                    /\ call'[g].at = "answering" /\ call'[g].ready => fate[e] # "unresolved"
  BY DEF Awaited
<1>4. CASE g # f
  BY <1>1, <1>4 DEF Awaited
<1>5. CASE g = f
  <2>1. call'[f].before = call[f].before
    BY <1>2, <1>3 DEF Calls
  <2>2. fate[e] # "coming"
    BY <1>5, <2>1 DEF Awaited
  <2>3. CASE /\ call[f].at = "draining" /\ done >= call[f].waits
             /\ \/ call'[f] = [call[f] EXCEPT !.at = "readiness"]
                \/ call'[f] = [call[f] EXCEPT !.waits = tail]
    <3>1. fate[e] # "pending"
      BY <1>2, <1>5, <2>1, <2>3 DEF Awaited, Calls
    <3>2. call'[f].at \in {"draining", "readiness"}
      BY <1>2, <2>3 DEF Calls
    <3> QED BY <1>5, <2>2, <3>1, <3>2
  <2>4. CASE /\ call[f].at = "readiness"
             /\ call'[f] = [call[f] EXCEPT !.at = "answering", !.ready = unresolved = {}]
    <3>1. fate[e] # "pending"
      BY <1>5, <2>1, <2>4 DEF Awaited
    <3>2. call'[f].at = "answering" /\ (call'[f].ready => unresolved = {})
      BY <1>2, <2>4 DEF Calls
    <3>3. call'[f].ready => fate[e] # "unresolved"
      BY <3>2 DEF Journalled
    <3> QED BY <1>5, <2>2, <3>1, <3>2, <3>3
  <2>5. CASE \/ call'[f] = [call[f] EXCEPT !.at = "certain"]
             \/ call'[f] = [call[f] EXCEPT !.at = "uncertain"]
    <3>1. call'[f].at \in {"certain", "uncertain"}
      BY <1>2, <2>5 DEF Calls
    <3> QED BY <1>5, <2>2, <3>1
  <2> QED BY <1>3, <2>3, <2>4, <2>5
<1> QED BY <1>4, <1>5

LEMMA AwaitedStep ==
  ASSUME FlushInv, Next, \A e \in Events : Onward(e)
  PROVE  Awaited'
<1> USE DEF FlushInv, RecorderInv
<1>1. CASE \/ \E e \in Events : Enqueue(e) \/ Resolve(e)
           \/ Take \/ Persisted \/ NoProof \/ Prove
  <2>1. UNCHANGED <<call, done>>
    BY <1>1 DEF Enqueue, Resolve, Take, Persisted, NoProof, Prove, queue
  <2> QED BY <2>1, AwaitedKept
\* A drain ends with the queue empty and nothing being persisted.
<1>2. CASE DrainEnds
  <2>1. /\ busy = NoEvent /\ pending = <<>> /\ done' = done + 1 /\ call' = call /\ fate' = fate
    BY <1>2 DEF DrainEnds, history
  <2>2. \A e \in Events : fate[e] # "pending"
    BY <2>1, RecorderAssumption DEF TypeOK
  <2> QED BY <2>1, <2>2 DEF Awaited
<1>3. CASE \E f \in Flushers : Drained(f) \/ Readiness(f) \/ Answered(f) \/ ReadinessFails(f)
  <2>1. UNCHANGED <<fate, done>>
    BY <1>3 DEF Drained, Readiness, Answered, ReadinessFails, Return, queue, history
  <2> QED BY <1>3, <2>1, AwaitedOnward
<1>4. CASE \/ \E f \in Callers : Flush(f)
           \/ Recover \/ AcknowledgeUncertain \/ \E fill \in Fills : Acknowledge(fill)
  <2>1. \E f \in Flushers : BeginFlush(f)
    BY <1>4 DEF Flush, Recover, AcknowledgeUncertain, Acknowledge, Flushers
  <2>2. /\ done' = done
        /\ \A e \in Events : fate'[e] = fate[e] \/ (fate[e] = "failed" /\ fate'[e] = "cleared")
    <3>1. CASE \/ \E f \in Callers : Flush(f)
               \/ Recover \/ AcknowledgeUncertain
      BY <3>1 DEF Flush, Recover, AcknowledgeUncertain, history
    <3>2. CASE \E fill \in Fills : Acknowledge(fill)
      <4>1. PICK fill \in Fills : Acknowledge(fill)
        BY <3>2
      <4>2. done' = done /\ fate' = [e \in Events |-> IF fate[e] = "failed" /\ failure[e].code \in Cleared(fill)
                                                       THEN "cleared" ELSE fate[e]]
        BY <4>1 DEF Acknowledge
      <4> QED BY <4>2
    <3> QED BY <1>4, <3>1, <3>2
  <2> QED BY <2>1, <2>2, AwaitedAtBegin
<1> QED BY <1>1, <1>2, <1>3, <1>4 DEF Next

-----------------------------------------------------------------------------
(* Theorems *)

LEMMA FlushInvInit == Init => FlushInv
<1> SUFFICES ASSUME Init PROVE FlushInv
  OBVIOUS
<1>1. Idle \in Calls
  BY RecorderAssumption DEF Idle, Calls
<1>2. TypeOK
  BY <1>1, RecorderAssumption DEF Init, TypeOK, Unset, Fates
<1>3. NoRepeat /\ OnRecord /\ Journalled /\ Awaited
  BY DEF Init, NoRepeat, OnRecord, Journalled, Awaited, Idle
<1> QED BY <1>2, <1>3 DEF FlushInv, RecorderInv

LEMMA FlushInvStep == FlushInv /\ [Next]_vars => FlushInv'
<1> SUFFICES ASSUME FlushInv, [Next]_vars PROVE FlushInv'
  OBVIOUS
<1>1. CASE Next
  <2>1. RecorderInv /\ Journalled /\ Awaited
    BY DEF FlushInv
  <2>2. Journalled' /\ \A e \in Events : Onward(e)
    BY <1>1, <2>1, FatesMove
  <2>3. RecorderInv'
    <3>1. ASSUME NEW e \in Events, Resolve(e) PROVE RecorderInv'
      <4>1. fate[e] # "pending"
        BY <2>1, <3>1 DEF Journalled, Resolve
      <4> QED BY <2>1, <3>1, <4>1, ResolveStep
    <3>2. ASSUME NEW f \in Flushers, Drained(f) \/ Readiness(f) \/ Answered(f) \/ ReadinessFails(f)
          PROVE  RecorderInv'
      BY <2>1, <3>2, DrainedStep, ReturnStep
    <3> QED BY <1>1, <2>1, <3>1, <3>2, EnqueueStep, TakeStep, PersistedStep, DrainEndsStep,
               FlushStep, RecoverStep, AcknowledgeStep DEF Next
  <2>4. Awaited'
    BY <1>1, <2>2, AwaitedStep
  <2> QED BY <2>2, <2>3, <2>4 DEF FlushInv
<1>2. CASE UNCHANGED vars
  BY <1>2 DEF FlushInv, RecorderInv, TypeOK, NoRepeat, OnRecord, Journalled, Awaited,
              vars, queue, latches, recovery, history
<1> QED BY <1>1, <1>2

LEMMA RecorderInvariant == Spec => []FlushInv
  BY FlushInvInit, FlushInvStep, PTL DEF Spec

\* The recorder keeps its types: in particular an execution is queued exactly as long
\* as nothing became of it, and no checkpoint lies in the future.
THEOREM TypeCorrect == Spec => []TypeOK
<1>1. FlushInv => TypeOK
  BY DEF FlushInv, RecorderInv
<1> QED BY <1>1, RecorderInvariant, PTL

\* A flush that reports certainty (DurableDemoExecutionRecorder.flush) has handled
\* every execution queued before it was called, and none of them is uncertain.
THEOREM FlushesCover == Spec => FlushCovers
<1> DEFINE Covers ==
      \A f \in Flushers :
        call[f].at # "certain" /\ call'[f].at = "certain" =>
          \A e \in call[f].before : fate[e] \in {"settled", "cleared"}
<1>1. FlushInv /\ [Next]_vars => Covers
  <2> SUFFICES ASSUME FlushInv, [Next]_vars, NEW f \in Flushers,
                      call[f].at # "certain", call'[f].at = "certain", NEW e \in call[f].before
               PROVE  fate[e] \in {"settled", "cleared"}
    OBVIOUS
  <2> USE DEF FlushInv, RecorderInv
  <2>1. Answered(f) \/ ReadinessFails(f)
    <3>1. \A g \in Flushers : BeginFlush(g) => call'[f] = call[f] \/ call'[f].at = "draining"
      BY DEF BeginFlush, TypeOK
    <3>2. \A g \in Flushers : Drained(g) \/ Readiness(g) =>
            call'[f] = call[f] \/ call'[f].at \in {"draining", "readiness", "answering"}
      BY DEF Drained, Readiness, TypeOK, Calls
    <3>3. \A g \in Flushers : Answered(g) \/ ReadinessFails(g) => g = f \/ call'[f] = call[f]
      BY DEF Answered, ReadinessFails, Return, TypeOK
    <3>4. \/ call' = call
          \/ \E g \in Flushers : BeginFlush(g) \/ Drained(g) \/ Readiness(g) \/ Answered(g) \/ ReadinessFails(g)
      BY DEF Next, Enqueue, Resolve, Take, Persisted, DrainEnds, Flush, Recover, NoProof, Prove,
             AcknowledgeUncertain, Acknowledge, Flushers, vars
    <3> QED BY <3>1, <3>2, <3>3, <3>4
  <2>2. /\ call[f].at = "answering" /\ call[f].ready
        /\ codes = [c \in Codes |-> Unset]
    <3>1. CASE Answered(f)
      BY <3>1 DEF Answered, Return, TypeOK, Calls
    <3>2. CASE ReadinessFails(f)
      BY <3>2 DEF ReadinessFails, Return, TypeOK, Calls
    <3> QED BY <2>1, <3>1, <3>2
  <2>3. e \in Events /\ fate[e] \notin {"coming", "pending", "unresolved"}
    BY <2>2 DEF Awaited, TypeOK, Calls
  <2>4. fate[e] # "failed"
    <3> SUFFICES ASSUME fate[e] = "failed" PROVE FALSE
      OBVIOUS
    <3>1. failure[e].sequence <= codes[failure[e].code].sequence /\ failure[e].code \in Codes
      BY <2>3 DEF OnRecord, TypeOK
    <3>2. codes[failure[e].code].sequence = 0
      BY <2>2, <3>1 DEF Unset
    <3>3. failure[e].sequence >= 1 /\ failure[e].sequence \in Nat
      BY <2>3 DEF Journalled, TypeOK
    <3> QED BY <3>1, <3>2, <3>3
  <2> QED BY <2>3, <2>4 DEF TypeOK, Fates
<1>2. [][Next]_vars /\ []FlushInv => [][Covers]_vars
  BY <1>1, PTL
<1> QED BY <1>2, RecorderInvariant DEF Spec, FlushCovers

\* An acknowledgement (acknowledgeCertainTerminalRecovery) clears no failure that was
\* recorded after the checkpoint of its recovery.
THEOREM LaterFailuresStay == Spec => OnlyEarlierFailures
<1> DEFINE Earlier ==
      \A e \in Events :
        fate[e] = "failed" /\ fate'[e] = "cleared" => failure[e].sequence <= checkpoint
<1>1. FlushInv /\ [Next]_vars => Earlier
  <2> SUFFICES ASSUME FlushInv, [Next]_vars, NEW e \in Events, fate[e] = "failed", fate'[e] = "cleared"
               PROVE  failure[e].sequence <= checkpoint
    OBVIOUS
  <2> USE DEF FlushInv, RecorderInv
  <2>1. \E fill \in Fills : Acknowledge(fill)
    BY DEF Next, Enqueue, Resolve, Take, Persisted, Fails, Settles, DrainEnds, Flush, Drained,
           Readiness, Answered, ReadinessFails, Return, Recover, NoProof, Prove,
           AcknowledgeUncertain, history, vars, TypeOK
  <2>2. PICK fill \in Fills : Acknowledge(fill)
    BY <2>1
  <2>3. failure[e].code \in Cleared(fill)
    BY <2>2 DEF Acknowledge
  <2>4. codes[failure[e].code].sequence <= checkpoint /\ failure[e].code \in Codes
    BY <2>3 DEF Cleared, Latched
  <2>5. /\ failure[e].sequence <= codes[failure[e].code].sequence
        /\ failure[e].sequence \in Nat /\ codes[failure[e].code].sequence \in Nat /\ checkpoint \in Nat
    BY <2>4 DEF OnRecord, TypeOK
  <2> QED BY <2>4, <2>5
<1>2. [][Next]_vars /\ []FlushInv => [][Earlier]_vars
  BY <1>1, PTL
<1> QED BY <1>2, RecorderInvariant DEF Spec, OnlyEarlierFailures

-----------------------------------------------------------------------------
(* Late duplicates *)

\* The entry of a code carries the deal of one of the failures it stands for.
Owned ==
  /\ \A e \in Events : fate[e] = "failed" => failure[e].code # ReadinessCode
  /\ \A c \in Latched \ {ReadinessCode} :
       \E e \in Events : fate[e] = "failed" /\ failure[e].code = c /\ codes[c].fill = FillOf[e]

\* A failure of an execution that had not failed before: it owns the entry of its code.
LEMMA OwnedByFailure ==
  ASSUME TypeOK, Owned, NEW e \in Events, fate[e] # "failed", Fails(e)
  PROVE  Owned'
<1>1. PICK c \in Codes \ {ReadinessCode} :
        /\ Recorded(c, FillOf[e])
        /\ fate' = [fate EXCEPT ![e] = "failed"]
        /\ failure' = [failure EXCEPT ![e] = [code |-> c, sequence |-> sequence + 1]]
  BY DEF Fails
<1>2. /\ fate'[e] = "failed" /\ failure'[e].code = c
      /\ codes'[c].fill = FillOf[e] /\ \A d \in Codes \ {c} : codes'[d] = codes[d]
      /\ \A x \in Events \ {e} : fate'[x] = fate[x] /\ failure'[x] = failure[x]
  BY <1>1 DEF Recorded, TypeOK
<1>3. ASSUME NEW x \in Events, fate'[x] = "failed"
      PROVE  failure'[x].code # ReadinessCode
  BY <1>2, <1>3 DEF Owned
<1>4. ASSUME NEW d \in Latched' \ {ReadinessCode}
      PROVE  \E x \in Events : fate'[x] = "failed" /\ failure'[x].code = d /\ codes'[d].fill = FillOf[x]
  <2>1. CASE d = c
    BY <1>2, <2>1
  <2>2. CASE d # c
    <3>1. d \in Latched \ {ReadinessCode} /\ codes'[d] = codes[d]
      BY <1>2, <1>4, <2>2 DEF Latched
    <3>2. PICK x \in Events : fate[x] = "failed" /\ failure[x].code = d /\ codes[d].fill = FillOf[x]
      BY <3>1 DEF Owned
    <3> QED BY <1>2, <3>1, <3>2
  <2> QED BY <2>1, <2>2
<1> QED BY <1>3, <1>4 DEF Owned

\* A step that touches neither the codes nor who failed.
LEMMA OwnedKept ==
  ASSUME Owned, UNCHANGED <<codes, failure>>,
         \A e \in Events : fate'[e] = "failed" <=> fate[e] = "failed"
  PROVE  Owned'
  BY DEF Owned, Latched

\* Only an execution on its way fails, and only a failure is cleared: with its entry.
LEMMA OwnedStep == FlushInv /\ Owned /\ [Next]_vars => Owned'
<1> SUFFICES ASSUME FlushInv, Owned, [Next]_vars PROVE Owned'
  OBVIOUS
<1> USE DEF FlushInv, RecorderInv
<1>1. CASE Take
  <2>1. pending # <<>> /\ pending' = Tail(pending) /\ Head(pending) \in Events /\ fate[Head(pending)] = "pending"
    BY <1>1, TailFacts DEF Take
  <2>2. CASE Fails(Head(pending))
    BY <2>1, <2>2, OwnedByFailure
  <2>3. CASE Settles(Head(pending))
    BY <2>1, <2>3, OwnedKept DEF Settles, TypeOK
  <2>4. CASE UNCHANGED <<latches, history>>
    BY <2>4, OwnedKept DEF latches, history
  <2> QED BY <1>1, <2>2, <2>3, <2>4 DEF Take
<1>2. CASE Persisted
  <2>1. busy \in Events /\ fate[busy] = "pending"
    BY <1>2 DEF Persisted, TypeOK
  <2>2. CASE Fails(busy)
    BY <2>1, <2>2, OwnedByFailure
  <2>3. CASE Settles(busy)
    BY <2>1, <2>3, OwnedKept DEF Settles, TypeOK
  <2>4. CASE fate' = [fate EXCEPT ![busy] = "unresolved"] /\ UNCHANGED <<latches, failure>>
    BY <2>1, <2>4, OwnedKept DEF latches, TypeOK
  <2> QED BY <1>2, <2>2, <2>3, <2>4 DEF Persisted
<1>3. CASE \E e \in Events : Enqueue(e) \/ Resolve(e)
  BY <1>3, OwnedKept DEF Enqueue, Resolve, latches, TypeOK, Journalled
<1>4. CASE \E f \in Flushers : ReadinessFails(f)
  <2>1. /\ UNCHANGED <<fate, failure>>
        /\ \A c \in Codes \ {ReadinessCode} : codes'[c] = codes[c]
    BY <1>4 DEF ReadinessFails, Recorded, Return, history, TypeOK
  <2> QED BY <2>1 DEF Owned, Latched
<1>5. CASE \E fill \in Fills : Acknowledge(fill)
  <2>1. PICK fill \in Fills : Acknowledge(fill)
    BY <1>5
  <2> DEFINE cleared == Cleared(fill)
  <2>2. /\ codes' = [c \in Codes |-> IF c \in cleared THEN Unset ELSE codes[c]]
        /\ fate' = [e \in Events |-> IF fate[e] = "failed" /\ failure[e].code \in cleared
                                     THEN "cleared" ELSE fate[e]]
        /\ failure' = failure
    BY <2>1 DEF Acknowledge
  <2> HIDE DEF cleared
  <2>3. \A e \in Events : fate'[e] = "failed" <=> fate[e] = "failed" /\ failure[e].code \notin cleared
    BY <2>2
  <2>4. \A c \in Latched' : c \in Latched /\ c \notin cleared /\ codes'[c] = codes[c]
    BY <2>2 DEF Latched, Unset
  <2>5. ASSUME NEW c \in Latched' \ {ReadinessCode}
        PROVE  \E e \in Events : fate'[e] = "failed" /\ failure'[e].code = c /\ codes'[c].fill = FillOf[e]
    <3>1. PICK e \in Events : fate[e] = "failed" /\ failure[e].code = c /\ codes[c].fill = FillOf[e]
      BY <2>4, <2>5 DEF Owned
    <3> QED BY <2>2, <2>3, <2>4, <2>5, <3>1
  <2>6. \A e \in Events : fate'[e] = "failed" => failure'[e].code # ReadinessCode
    BY <2>2, <2>3 DEF Owned
  <2> QED BY <2>5, <2>6 DEF Owned
<1>6. CASE \/ DrainEnds \/ \E f \in Callers : Flush(f)
           \/ \E f \in Flushers : Drained(f) \/ Readiness(f) \/ Answered(f)
           \/ Recover \/ NoProof \/ Prove \/ AcknowledgeUncertain \/ UNCHANGED vars
  <2>1. UNCHANGED <<codes, fate, failure>>
    BY <1>6 DEF DrainEnds, Flush, Drained, Readiness, Answered, Return, Recover, NoProof, Prove,
                AcknowledgeUncertain, latches, history, vars
  <2> QED BY <2>1, OwnedKept
<1> QED BY <1>1, <1>2, <1>3, <1>4, <1>5, <1>6 DEF Next

LEMMA OwnedInvariant == Spec => []Owned
<1>1. Init => Owned
  BY DEF Init, Owned, Latched, Unset
<1> QED BY <1>1, OwnedStep, RecorderInvariant, PTL DEF Spec

\* No two deals have failures on record under the same reason code.
OwnCodes ==
  \A e, x \in Events :
    fate[e] = "failed" /\ fate[x] = "failed" /\ failure[e].code = failure[x].code => FillOf[e] = FillOf[x]

\* What LateDuplicateOnly says holds of every acknowledgement that finds no reason code shared
\* between deals: then a known proof clears no failure of another deal. The
\* failure that #recordFailure (demo-execution.ts:667) loses is always one that shared its code.
THEOREM DuplicatesOfOwnCodes ==
  Spec => [][OwnCodes => \A fill \in proofs, e \in Events :
               Acknowledge(fill) /\ fate[e] = "failed" /\ fate'[e] = "cleared" => FillOf[e] = fill]_vars
<1> DEFINE Only == OwnCodes => \A fill \in proofs, e \in Events :
             Acknowledge(fill) /\ fate[e] = "failed" /\ fate'[e] = "cleared" => FillOf[e] = fill
<1>1. FlushInv /\ Owned => Only
  <2> SUFFICES ASSUME Owned, OwnCodes, NEW fill \in proofs, NEW e \in Events, Acknowledge(fill),
                      fate[e] = "failed", fate'[e] = "cleared"
               PROVE  FillOf[e] = fill
    OBVIOUS
  <2>1. failure[e].code \in Cleared(fill)
    BY DEF Acknowledge
  <2>2. PICK c : c = failure[e].code
    OBVIOUS
  <2>3. c \in Latched /\ codes[c].fill = fill /\ c # ReadinessCode
    BY <2>1, <2>2 DEF Cleared, Owned
  <2>4. PICK x \in Events : fate[x] = "failed" /\ failure[x].code = c /\ codes[c].fill = FillOf[x]
    BY <2>3 DEF Owned
  <2> QED BY <2>2, <2>3, <2>4 DEF OwnCodes
<1>2. [][Next]_vars /\ []FlushInv /\ []Owned => [][Only]_vars
  BY <1>1, PTL
<1> QED BY <1>2, RecorderInvariant, OwnedInvariant DEF Spec
=============================================================================

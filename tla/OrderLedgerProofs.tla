--------------------------- MODULE OrderLedgerProofs ---------------------------
(***************************************************************************)
(* The rows of a group never say more than the broker did, for any number  *)
(* of legs and of overlapping maintenance runs and for any bounds. The     *)
(* broker's facts are stable: a fill is not undone and an ended order does *)
(* not work again. So whatever was read of an order stays true, however    *)
(* late it is written; Reads says it of every report a writer holds. The   *)
(* last section is about the trades, and the sums they rest on.            *)
(***************************************************************************)
EXTENDS OrderLedger, WellFoundedInduction, TLAPS

Flat == live = {} /\ \A l \in Legs : held[l] # "open"

BrokerOK ==
  \A l \in Legs :
    /\ done[l] <= Volume[l]
    /\ l \in live => status[l] = "PENDING" /\ done[l] < Volume[l]
    /\ l \notin live => status[l] # "PENDING"
    /\ status[l] = "FILLED" <=> done[l] = Volume[l]
    /\ held[l] # "none" <=> done[l] > 0

\* Whatever a writer holds of an order was so at the broker.
Reads ==
  /\ \A i \in DOMAIN log : Lags(log[i].leg, log[i].report)
  /\ \A w \in Workers : \A l \in Legs : Lags(l, work[w].answer[l])
  /\ recovery.deal # 0 =>
       /\ recovery.deal \in DOMAIN log /\ recovery.time \in DOMAIN log
       /\ log[recovery.deal].leg = log[recovery.time].leg
       /\ ~log[recovery.deal].closes /\ ~log[recovery.time].closes
       /\ Lags(log[recovery.deal].leg, recovery.report)

\* Maintenance is certain of a group only when the broker is done with it.
Sure ==
  \A w \in Workers :
    /\ work[w].certain => Flat
    /\ work[w].at = "cancelling" => work[w].leg \in Legs

\* The executions of an order come before the close of its position.
Timely ==
  /\ \A i \in DOMAIN log : log[i].closes => log[i].leg \notin live
  /\ \A i, j \in DOMAIN log :
       log[i].leg = log[j].leg /\ log[i].closes /\ ~log[j].closes => j < i
  /\ \A l \in Legs :
       position[l].state = "CLOSED" =>
         /\ position[l].at \in DOMAIN log
         /\ log[position[l].at].leg = l /\ log[position[l].at].closes

LedgerInv ==
  TypeOK /\ BrokerOK /\ Reads /\ Sure /\ Timely /\ RowsNeverLead /\ EndedIsFlat

Entries == [leg : Legs, report : Reports, fill : Nat, closes : BOOLEAN, fate : Fates]

-----------------------------------------------------------------------------
(* The broker's side *)

\* What Report says, and when it says an end.
LEMMA ReportLemma ==
  ASSUME LedgerAssumption, NEW l \in Legs, NEW s \in {"PENDING", "FILLED", "CANCELLED", "EXPIRED"},
         NEW n \in Nat
  PROVE  /\ Report(l, s, n) \in Reports
         /\ Report(l, s, n).filled = n
         /\ Report(l, s, n).state \in {s, "PARTIALLY_FILLED"}
         /\ Report(l, s, n).state = "PARTIALLY_FILLED" <=> n > 0 /\ n < Volume[l]
  <1>1. Volume[l] \in Nat \ {0}
    BY DEF LedgerAssumption
  <1> QED
    BY <1>1 DEF Report, Reports, RowStates

\* A broker that is itself in order reports what Lags allows.
LEMMA NowLemma ==
  ASSUME LedgerAssumption, TypeOK, BrokerOK, NEW l \in Legs
  PROVE  /\ Now(l) \in Reports /\ Lags(l, Now(l))
         /\ l \in live => Now(l).state \in Working
         /\ Lags(l, Accepted) /\ Accepted \in Reports
  <1>1. status[l] \in {"PENDING", "FILLED", "CANCELLED", "EXPIRED"} /\ done[l] \in Nat
    BY DEF TypeOK
  <1>2. Now(l) = Report(l, status[l], done[l])
    BY DEF Now
  <1>3. /\ Now(l) \in Reports /\ Now(l).filled = done[l]
        /\ Now(l).state \in {status[l], "PARTIALLY_FILLED"}
        /\ Now(l).state = "PARTIALLY_FILLED" <=> done[l] > 0 /\ done[l] < Volume[l]
    BY <1>1, <1>2, ReportLemma
  <1>4. l \in live => status[l] = "PENDING"
    BY DEF BrokerOK
  <1>5. l \in live => Now(l).state \in Working
    BY <1>3, <1>4 DEF Working
  <1>6. Lags(l, Now(l))
    BY <1>1, <1>3, <1>5 DEF Lags, Ended, Working
  <1>7. Lags(l, Accepted) /\ Accepted \in Reports
    BY <1>1 DEF Lags, Accepted, Ended, Reports, RowStates
  <1> QED
    BY <1>3, <1>5, <1>6, <1>7

\* A step of the broker on one order: what was so of an order stays so.
Steps(l) ==
  (\E volume \in 1 .. Volume[l] : Fills(l, volume)) \/ (\E end \in {"CANCELLED", "EXPIRED"} : Stops(l, end)) \/ Closes(l)

LEMMA StepLemma ==
  ASSUME LedgerAssumption, TypeOK, BrokerOK, NEW k \in Legs, Steps(k)
  PROVE  /\ live' \subseteq live /\ live' \subseteq Legs
         /\ status' \in [Legs -> {"PENDING", "FILLED", "CANCELLED", "EXPIRED"}]
         /\ done' \in [Legs -> Nat] /\ held' \in [Legs -> {"none", "open", "closed"}]
         /\ BrokerOK'
         /\ \A l \in Legs : done[l] <= done'[l]
         /\ \A l \in Legs : l \notin live => status'[l] = status[l] /\ done'[l] = done[l]
         /\ Flat => Flat'
  <1> USE DEF LedgerAssumption
  <1>1. CASE \E volume \in 1 .. Volume[k] : Fills(k, volume)
    <2>1. PICK volume \in 1 .. Volume[k] : Fills(k, volume)
      BY <1>1
    <2>2. /\ volume \in Nat /\ volume > 0 /\ Volume[k] \in Nat /\ done[k] \in Nat
          /\ k \in live /\ done[k] + volume <= Volume[k] /\ status[k] = "PENDING"
          /\ \A l \in Legs : Volume[l] \in Nat /\ Volume[l] > 0
      BY <2>1 DEF Fills, TypeOK, BrokerOK
    <2>3. /\ done' = [done EXCEPT ![k] = @ + volume] /\ held' = [held EXCEPT ![k] = "open"]
          /\ done'[k] = done[k] + volume
          /\ live' = IF done'[k] = Volume[k] THEN live \ {k} ELSE live
          /\ status' = [status EXCEPT ![k] = IF done'[k] = Volume[k] THEN "FILLED" ELSE @]
      BY <2>1 DEF Fills, TypeOK
    <2>5. /\ live \subseteq Legs /\ done \in [Legs -> Nat]
          /\ status \in [Legs -> {"PENDING", "FILLED", "CANCELLED", "EXPIRED"}]
          /\ held \in [Legs -> {"none", "open", "closed"}]
      BY DEF TypeOK
    <2>6. /\ live' \subseteq live /\ done' \in [Legs -> Nat]
          /\ status' \in [Legs -> {"PENDING", "FILLED", "CANCELLED", "EXPIRED"}]
          /\ held' \in [Legs -> {"none", "open", "closed"}]
          /\ done'[k] = done[k] + volume /\ held'[k] = "open"
          /\ status'[k] = IF done'[k] = Volume[k] THEN "FILLED" ELSE status[k]
          /\ \A l \in Legs \ {k} :
               done'[l] = done[l] /\ status'[l] = status[l] /\ held'[l] = held[l]
      BY <2>2, <2>3, <2>5
    <2>4. BrokerOK'
      <3> SUFFICES ASSUME NEW l \in Legs
                   PROVE  /\ done'[l] <= Volume[l]
                          /\ l \in live' => status'[l] = "PENDING" /\ done'[l] < Volume[l]
                          /\ l \notin live' => status'[l] # "PENDING"
                          /\ status'[l] = "FILLED" <=> done'[l] = Volume[l]
                          /\ held'[l] # "none" <=> done'[l] > 0
        BY DEF BrokerOK
      <3>1. CASE l = k
        BY <2>2, <2>3, <2>6, <3>1
      <3>2. CASE l # k
        BY <2>3, <2>6, <3>2 DEF BrokerOK
      <3> QED
        BY <3>1, <3>2
    <2> QED
      BY <2>2, <2>3, <2>4, <2>5, <2>6 DEF Flat
  <1>2. CASE \E end \in {"CANCELLED", "EXPIRED"} : Stops(k, end)
    BY <1>2 DEF Stops, TypeOK, BrokerOK, Flat
  <1>3. CASE Closes(k)
    BY <1>3 DEF Closes, TypeOK, BrokerOK, Flat
  <1> QED
    BY <1>1, <1>2, <1>3 DEF Steps

LEMMA LagsStay ==
  ASSUME LedgerAssumption, TypeOK, BrokerOK, NEW k \in Legs, Steps(k),
         NEW l \in Legs, NEW said, said.filled \in Nat, Lags(l, said)
  PROVE  Lags(l, said)'
  <1>1. /\ live' \subseteq live /\ done[l] <= done'[l]
        /\ done[l] \in Nat /\ done'[l] \in Nat
        /\ l \notin live => status'[l] = status[l] /\ done'[l] = done[l]
    BY StepLemma DEF TypeOK
  <1>2. l \notin live => Now(l)' = Now(l)
    BY <1>1 DEF Now, Report
  <1> QED
    BY <1>1, <1>2 DEF Lags

\* The execution a step of the broker sends.
LEMMA SendLemma ==
  ASSUME LedgerAssumption, TypeOK, BrokerOK, NEW k \in Legs, Steps(k)
  PROVE  \E e \in Entries :
           /\ log' = Append(log, e) /\ e.leg = k /\ Lags(k, e.report)'
           /\ e.fate = "queued" /\ done' = [done EXCEPT ![k] = @ + e.fill]
           /\ e.closes => /\ k \notin live /\ held[k] = "open" /\ held'[k] = "closed"
                          /\ e.fill = 0 /\ e.report.filled = done'[k]
           /\ ~e.closes => k \in live /\ held'[k] \in {held[k], "open"}
  <1> USE DEF LedgerAssumption
  <1>1. /\ BrokerOK' /\ live' \subseteq live /\ done' \in [Legs -> Nat]
        /\ status' \in [Legs -> {"PENDING", "FILLED", "CANCELLED", "EXPIRED"}]
    BY StepLemma
  <1>2. PICK said \in Reports : /\ said = Report(k, status'[k], done'[k]) /\ Lags(k, said)'
                                /\ said.filled = done'[k]
    <2>1. PICK said : said = Report(k, status'[k], done'[k])
      OBVIOUS
    <2>2. status'[k] \in {"PENDING", "FILLED", "CANCELLED", "EXPIRED"} /\ done'[k] \in Nat
      BY <1>1
    <2>3. /\ said \in Reports /\ said.filled = done'[k]
          /\ said.state \in {status'[k], "PARTIALLY_FILLED"}
          /\ said.state = "PARTIALLY_FILLED" <=> done'[k] > 0 /\ done'[k] < Volume[k]
      BY <2>1, <2>2, ReportLemma
    <2>4. Now(k)' = said
      BY <2>1 DEF Now, Report
    <2>5. k \in live' => status'[k] = "PENDING"
      BY <1>1 DEF BrokerOK
    <2>6. Lags(k, said)'
      BY <2>2, <2>3, <2>4, <2>5 DEF Lags, Ended
    <2> QED
      BY <2>1, <2>3, <2>6
  <1>3. CASE \E volume \in 1 .. Volume[k] : Fills(k, volume)
    <2>1. PICK volume \in 1 .. Volume[k] : Fills(k, volume)
      BY <1>3
    <2> DEFINE e == [leg |-> k, report |-> said, fill |-> volume,
                     closes |-> FALSE, fate |-> "queued"]
    <2>2. log' = Append(log, e) /\ k \in live
      BY <1>2, <2>1 DEF Fills, Sends
    <2>3. e \in Entries
      BY DEF Entries, Fates
    <2>4. done' = [done EXCEPT ![k] = @ + e.fill] /\ held'[k] = "open"
      BY <2>1 DEF Fills, TypeOK
    <2> QED
      BY <1>2, <2>2, <2>3, <2>4
  <1>4. CASE \E end \in {"CANCELLED", "EXPIRED"} : Stops(k, end)
    <2>1. PICK end \in {"CANCELLED", "EXPIRED"} : Stops(k, end)
      BY <1>4
    <2> DEFINE e == [leg |-> k, report |-> said, fill |-> 0,
                     closes |-> FALSE, fate |-> "queued"]
    <2>2. status'[k] = end /\ done' = done
      BY <2>1 DEF Stops, TypeOK
    <2>3. log' = Append(log, e) /\ k \in live
      BY <1>2, <2>1, <2>2 DEF Stops, Sends
    <2>4. e \in Entries
      BY DEF Entries, Fates
    <2>5. done' = [done EXCEPT ![k] = @ + e.fill] /\ held'[k] = held[k]
      BY <2>1 DEF Stops, TypeOK
    <2> QED
      BY <1>2, <2>3, <2>4, <2>5
  <1>5. CASE Closes(k)
    <2> DEFINE e == [leg |-> k, report |-> said, fill |-> 0, closes |-> TRUE, fate |-> "queued"]
    <2>1. log' = Append(log, e) /\ k \notin live
      BY <1>2, <1>5 DEF Closes, Sends, Now
    <2>2. e \in Entries
      BY DEF Entries, Fates
    <2>3. done' = [done EXCEPT ![k] = @ + e.fill] /\ held[k] = "open" /\ held'[k] = "closed"
      BY <1>5 DEF Closes, TypeOK
    <2> QED
      BY <1>2, <2>1, <2>2, <2>3
  <1> QED
    BY <1>3, <1>4, <1>5 DEF Steps

\* Of the invariant, what a step of the broker can disturb besides its own state.
LEMMA BrokerLemma ==
  ASSUME LedgerAssumption, LedgerInv, NEW k \in Legs, Steps(k),
         UNCHANGED <<row, position, group, recovery>>
  PROVE  /\ log' \in Seq(Entries)
         /\ \A l \in Legs, said \in Reports : Lags(l, said) => Lags(l, said)'
         /\ (\A i \in DOMAIN log : Lags(log[i].leg, log[i].report))'
         /\ (recovery.deal # 0 =>
              /\ recovery.deal \in DOMAIN log /\ recovery.time \in DOMAIN log
              /\ log[recovery.deal].leg = log[recovery.time].leg
              /\ ~log[recovery.deal].closes /\ ~log[recovery.time].closes
              /\ Lags(log[recovery.deal].leg, recovery.report))'
         /\ Timely' /\ RowsNeverLead' /\ EndedIsFlat'
  <1> USE DEF LedgerInv
  <1>1. PICK e \in Entries : /\ log' = Append(log, e) /\ e.leg = k /\ Lags(k, e.report)'
                             /\ e.closes => k \notin live
                             /\ ~e.closes => k \in live
    BY SendLemma
  <1>2. log \in Seq(Entries)
    BY DEF TypeOK, Entries
  <1>3. /\ log' \in Seq(Entries) /\ Len(log') = Len(log) + 1
        /\ DOMAIN log = 1 .. Len(log) /\ DOMAIN log' = 1 .. Len(log) + 1
        /\ \A i \in DOMAIN log : log'[i] = log[i]
        /\ log'[Len(log) + 1] = e
        /\ \A i \in DOMAIN log : log[i] \in Entries
    BY <1>1, <1>2
  <1>4. \A l \in Legs, said \in Reports : Lags(l, said) => Lags(l, said)'
    BY LagsStay DEF Reports
  <1>5. (\A i \in DOMAIN log : Lags(log[i].leg, log[i].report))'
    <2> SUFFICES ASSUME NEW i \in DOMAIN log'
                 PROVE  Lags(log[i].leg, log[i].report)'
      OBVIOUS
    <2>1. CASE i \in DOMAIN log
      <3>1. Lags(log[i].leg, log[i].report) /\ log[i].leg \in Legs /\ log[i].report \in Reports
        BY <1>3, <2>1 DEF Reads, Entries
      <3>2. PICK l \in Legs, said \in Reports : l = log[i].leg /\ said = log[i].report
        BY <3>1
      <3>3. Lags(l, said)'
        BY <1>4, <3>1, <3>2
      <3>4. log'[i].leg = l /\ log'[i].report = said
        BY <1>3, <2>1, <3>2
      <3> QED
        BY <3>3, <3>4 DEF Lags, Now, Report
    <2>2. CASE i \notin DOMAIN log
      <3>1. log'[i] = e
        BY <1>3, <2>2
      <3> QED
        BY <1>1, <3>1 DEF Lags, Now, Report
    <2> QED
      BY <2>1, <2>2
  <1>8. (recovery.deal # 0 =>
          /\ recovery.deal \in DOMAIN log /\ recovery.time \in DOMAIN log
          /\ log[recovery.deal].leg = log[recovery.time].leg
          /\ ~log[recovery.deal].closes /\ ~log[recovery.time].closes
          /\ Lags(log[recovery.deal].leg, recovery.report))'
    <2> SUFFICES ASSUME recovery.deal # 0
                 PROVE  /\ recovery.deal \in DOMAIN log' /\ recovery.time \in DOMAIN log'
                        /\ log'[recovery.deal].leg = log'[recovery.time].leg
                        /\ ~log'[recovery.deal].closes /\ ~log'[recovery.time].closes
                        /\ Lags(log[recovery.deal].leg, recovery.report)'
      OBVIOUS
    <2>1. recovery.deal \in DOMAIN log /\ recovery.time \in DOMAIN log
      BY DEF Reads
    <2>2. PICK l \in Legs, said \in Reports : l = log[recovery.deal].leg /\ said = recovery.report
      BY <1>3, <2>1 DEF TypeOK, Entries
    <2>3. Lags(l, said)'
      BY <1>4, <2>2 DEF Reads
    <2>4. log'[recovery'.deal].leg = l /\ recovery'.report = said
      BY <1>3, <2>1, <2>2
    <2>5. Lags(log[recovery.deal].leg, recovery.report)'
      BY <2>3, <2>4 DEF Lags, Now, Report
    <2> QED
      BY <1>3, <2>1, <2>5 DEF Reads
  <1>9. Timely'
    <2>1. live' \subseteq live
      BY StepLemma
    <2> QED
      BY <1>1, <1>3, <2>1 DEF Timely
  <1>10. RowsNeverLead'
    <2> SUFFICES ASSUME NEW l \in Legs
                 PROVE  Lags(l, row[l])'
      BY DEF RowsNeverLead
    <2>1. PICK said : said = row[l]
      OBVIOUS
    <2>2. said.filled \in Nat /\ Lags(l, said)
      BY <2>1 DEF TypeOK, RowsNeverLead
    <2>3. Lags(l, said)'
      BY <2>2, LagsStay
    <2> QED
      BY <2>1, <2>3 DEF Lags
  <1>11. EndedIsFlat'
    <2>1. Flat => Flat'
      BY StepLemma
    <2> QED
      BY <2>1 DEF EndedIsFlat, Flat
  <1> QED
    BY <1>3, <1>4, <1>5, <1>8, <1>9, <1>10, <1>11

-----------------------------------------------------------------------------
(* The rows *)

Rows == [state : RowStates, filled : Nat, at : Nat]
Groups == Final \cup {"INTENT_RECORDED", "ACTIVE", "CANCELLING_PEER", "POSITION_OPEN",
                      "RECONCILIATION_REQUIRED"}

\* Nothing that is said of an order changes while the broker stands still.
LEMMA StillLemma ==
  ASSUME UNCHANGED broker, NEW l, NEW said
  PROVE  /\ Lags(l, said)' <=> Lags(l, said)
         /\ Flat' <=> Flat
  BY DEF broker, Lags, Now, Report, Flat

\* A group whose rows are all ended without a fill is over at the broker.
LEMMA EndedRowsLemma ==
  ASSUME LedgerAssumption, TypeOK, BrokerOK, NEW rows \in [Legs -> Rows],
         \A l \in Legs : Lags(l, rows[l]),
         \A l \in Legs : rows[l].state \in {"CANCELLED", "EXPIRED"}
  PROVE  Flat
  <1> SUFFICES ASSUME NEW l \in Legs
               PROVE  l \notin live /\ held[l] # "open"
    BY DEF Flat, TypeOK
  <1>1. l \notin live /\ rows[l].state = Now(l).state
    BY DEF Lags, Ended
  <1>2. /\ status[l] \in {"PENDING", "FILLED", "CANCELLED", "EXPIRED"}
        /\ done[l] \in Nat /\ Volume[l] \in Nat
    BY DEF TypeOK, LedgerAssumption
  <1>3. /\ Report(l, status[l], done[l]).state \in {status[l], "PARTIALLY_FILLED"}
        /\ Report(l, status[l], done[l]).state = "PARTIALLY_FILLED"
             <=> done[l] > 0 /\ done[l] < Volume[l]
    BY <1>2, ReportLemma
  <1>4. status[l] \in {"CANCELLED", "EXPIRED"} /\ ~(done[l] > 0 /\ done[l] < Volume[l])
    BY <1>1, <1>3 DEF Now
  <1>5. done[l] = 0
    BY <1>2, <1>4 DEF BrokerOK
  <1> QED
    BY <1>1, <1>5 DEF BrokerOK

LEMMA RegroupedLemma ==
  ASSUME LedgerAssumption, TypeOK, BrokerOK, NEW rows \in [Legs -> Rows],
         \A l \in Legs : Lags(l, rows[l]), NEW positions, NEW traded
  PROVE  /\ Regrouped(rows, positions, traded) \in Groups
         /\ Regrouped(rows, positions, traded) \in {"EXPIRED", "FAILED"} => Flat
  <1>1. Regrouped(rows, positions, traded) \in Groups
    BY DEF Regrouped, Groups, Final
  <1>2. ASSUME Regrouped(rows, positions, traded) \in {"EXPIRED", "FAILED"}
        PROVE  Flat
    <2>1. /\ RowsIn({"INTENT", "PENDING"}, rows) = {} /\ RowsIn({"FILLED"}, rows) = {}
          /\ RowsIn({"PARTIALLY_FILLED", "CANCEL_PENDING"}, rows) = {}
      BY <1>2 DEF Regrouped
    <2>2. \A l \in Legs : rows[l].state \in {"CANCELLED", "EXPIRED"}
      BY <2>1 DEF RowsIn, Rows, RowStates
    <2> QED
      BY <2>2, EndedRowsLemma
  <1> QED
    BY <1>1, <1>2

LEMMA ReconciledLemma ==
  ASSUME LedgerAssumption, TypeOK, BrokerOK, NEW rows \in [Legs -> Rows],
         \A l \in Legs : Lags(l, rows[l])
  PROVE  /\ Reconciled(rows) \in Groups
         /\ Reconciled(rows) \in {"EXPIRED", "FAILED"} => Flat
  <1>1. Reconciled(rows) \in Groups
    BY DEF Reconciled, Groups, Final
  <1>2. ASSUME Reconciled(rows) \in {"EXPIRED", "FAILED"}
        PROVE  Flat
    <2>1. /\ RowsIn({"INTENT", "PENDING"}, rows) = {} /\ RowsIn({"FILLED"}, rows) = {}
          /\ RowsIn({"PARTIALLY_FILLED", "CANCEL_PENDING"}, rows) = {}
      BY <1>2 DEF Reconciled
    <2>2. \A l \in Legs : rows[l].state \in {"CANCELLED", "EXPIRED"}
      BY <2>1 DEF RowsIn, Rows, RowStates
    <2> QED
      BY <2>2, EndedRowsLemma
  <1> QED
    BY <1>1, <1>2

\* A report that lags, over a row.
LEMMA OverwrittenLemma ==
  ASSUME NEW l \in Legs, NEW r \in Rows, NEW said \in Reports, Lags(l, said)
  PROVE  Overwritten(r, said) \in Rows /\ Lags(l, Overwritten(r, said))
  <1>1. /\ Overwritten(r, said) \in Rows
        /\ Overwritten(r, said).state = said.state /\ Overwritten(r, said).filled = said.filled
    BY DEF Rows, Reports, Overwritten
  <1> QED
    BY <1>1 DEF Lags

-----------------------------------------------------------------------------
(* The journal *)

LEMMA FateLemma ==
  ASSUME TypeOK, NEW i \in DOMAIN log, NEW fate \in Fates, Fate(i, fate)
  PROVE  /\ log' \in Seq(Entries) /\ DOMAIN log' = DOMAIN log
         /\ \A j \in DOMAIN log : /\ log'[j].leg = log[j].leg
                                  /\ log'[j].report = log[j].report
                                  /\ log'[j].closes = log[j].closes
  <1>1. log \in Seq(Entries)
    BY DEF TypeOK, Entries
  <1>2. \A j \in DOMAIN log : log[j] \in Entries
    BY <1>1
  <1>3. log' = [log EXCEPT ![i] = [@ EXCEPT !.fate = fate]]
    BY DEF Fate
  <1>4. [log[i] EXCEPT !.fate = fate] \in Entries
    BY <1>2 DEF Entries
  <1>5. log' \in Seq(Entries)
    BY <1>1, <1>3, <1>4
  <1> QED
    BY <1>2, <1>3, <1>5 DEF Entries

\* What the invariant says of the log, the reads and the closes is kept by a change of
\* fate, if the positions keep their closes.
LEMMA FatesKeep ==
  ASSUME LedgerInv, UNCHANGED broker, UNCHANGED work,
         NEW i \in DOMAIN log, NEW fate \in Fates, Fate(i, fate),
         recovery' \in {recovery, NoRecovery},
         \A l \in Legs :
           position'[l].state = "CLOSED" =>
             /\ position'[l].at \in DOMAIN log
             /\ log[position'[l].at].leg = l /\ log[position'[l].at].closes
  PROVE  log' \in Seq(Entries) /\ Reads' /\ Timely' /\ BrokerOK' /\ Sure'
  <1> USE DEF LedgerInv
  <1>1. /\ log' \in Seq(Entries) /\ DOMAIN log' = DOMAIN log
        /\ \A j \in DOMAIN log : /\ log'[j].leg = log[j].leg
                                 /\ log'[j].report = log[j].report
                                 /\ log'[j].closes = log[j].closes
    BY FateLemma
  <1>2. live' = live /\ status' = status /\ done' = done /\ held' = held
    BY DEF broker
  <1>3. BrokerOK' /\ Sure'
    BY <1>2 DEF BrokerOK, Sure, Flat
  <1>4. Timely'
    BY <1>1, <1>2 DEF Timely
  <1>5. Reads'
    <2>1. (\A j \in DOMAIN log : Lags(log[j].leg, log[j].report))'
      BY <1>1, <1>2 DEF Reads, Lags, Now, Report
    <2>3. (\A w \in Workers : \A l \in Legs : Lags(l, work[w].answer[l]))'
      BY <1>2 DEF Reads, Lags, Now, Report
    <2>4. CASE recovery' = NoRecovery
      BY <2>1, <2>3, <2>4 DEF Reads, NoRecovery
    <2>5. CASE recovery' = recovery
      BY <1>1, <1>2, <2>1, <2>3, <2>5 DEF Reads, Lags, Now, Report
    <2> QED
      BY <2>4, <2>5
  <1> QED
    BY <1>1, <1>3, <1>4, <1>5

\* An execution of an order, from the recorder or from the recovery.
LEMMA OrderLemma ==
  ASSUME LedgerAssumption, LedgerInv, UNCHANGED broker, UNCHANGED work,
         recovery' \in {recovery, NoRecovery},
         NEW i \in DOMAIN log, NEW said \in Reports, NEW t \in DOMAIN log, NEW opens \in BOOLEAN,
         Lags(log[i].leg, said), log[t].leg = log[i].leg, ~log[t].closes,
         StoresOrder(i, said, t, opens)
  PROVE  /\ log' \in Seq(Entries) /\ Reads' /\ Timely' /\ BrokerOK' /\ Sure'
         /\ row' \in [Legs -> Rows] /\ group' \in Groups /\ trades' = trades
         /\ position' \in [Legs -> [state : {"none", "OPEN", "CLOSED"}, at : Nat]]
         /\ RowsNeverLead' /\ EndedIsFlat'
         /\ \A l \in Legs : position[l].state = "CLOSED" => position'[l].state = "CLOSED"
  <1> USE DEF LedgerInv
  <1> DEFINE l == log[i].leg
  <1>1. /\ row' = [row EXCEPT ![l] = Updated(row[l], said, t)]
        /\ position' = IF opens THEN [position EXCEPT ![l] = Upserted(position[l], t, "OPEN")]
                                ELSE position
        /\ Regroups(row', position', trades) /\ trades' = trades
        /\ Fate(i, IF opens \/ log[i].fill = 0 THEN "mapped" ELSE "detached")
    BY DEF StoresOrder
  <1>2. log \in Seq(Entries) /\ l \in Legs /\ t \in Nat /\ DOMAIN log \subseteq Nat
    <2>1. log \in Seq(Entries)
      BY DEF TypeOK, Entries
    <2>2. log[i] \in Entries
      BY <2>1
    <2> QED
      BY <2>1, <2>2 DEF Entries
  <1>3. row \in [Legs -> Rows] /\ said.filled \in Nat /\ said.state \in RowStates
    BY DEF TypeOK, Rows, Reports
  <1>4. row' \in [Legs -> Rows]
    BY <1>1, <1>2, <1>3 DEF Updated, Rows
  <1>5. \A k \in Legs : Lags(k, row'[k])
    <2> SUFFICES ASSUME NEW k \in Legs PROVE Lags(k, row'[k])
      OBVIOUS
    <2>1. Lags(k, row[k]) /\ done[k] \in Nat
      BY DEF RowsNeverLead, TypeOK
    <2>2. CASE k = l
      <3>1. row'[k] = Updated(row[k], said, t)
        BY <1>1, <1>3, <2>2
      <3>2. /\ row'[k].state \in {said.state, row[k].state}
            /\ row'[k].filled \in {said.filled, row[k].filled}
        BY <3>1 DEF Updated
      <3>3. Lags(k, said)
        BY <2>2
      <3> QED
        BY <2>1, <3>2, <3>3 DEF Lags
    <2>3. CASE k # l
      BY <1>1, <1>3, <2>1, <2>3
    <2> QED
      BY <2>2, <2>3
  <1>6. RowsNeverLead'
    BY <1>5, StillLemma DEF RowsNeverLead, Lags, broker, Now, Report
  <1>7. position' \in [Legs -> [state : {"none", "OPEN", "CLOSED"}, at : Nat]]
    BY <1>1, <1>2 DEF TypeOK, Upserted
  <1>8. ASSUME NEW k \in Legs, position[k].state = "CLOSED"
        PROVE  position'[k] = position[k]
    <2>1. CASE opens /\ k = l
      <3>1. position'[k] = Upserted(position[k], t, "OPEN")
        BY <1>1, <2>1 DEF TypeOK
      <3>2. /\ position[k].at \in DOMAIN log
            /\ log[position[k].at].leg = k /\ log[position[k].at].closes
        BY <1>8 DEF Timely
      <3>3. t < position[k].at
        BY <2>1, <3>2 DEF Timely
      <3> QED
        BY <1>2, <3>1, <3>2, <3>3 DEF Upserted
    <2>2. CASE ~(opens /\ k = l)
      BY <1>1, <2>2 DEF TypeOK
    <2> QED
      BY <2>1, <2>2
  <1>9. \A k \in Legs : position'[k].state = "CLOSED" => position[k].state = "CLOSED"
    BY <1>1, <1>2 DEF TypeOK, Upserted
  <1>10. \A k \in Legs :
           position'[k].state = "CLOSED" =>
             /\ position'[k].at \in DOMAIN log
             /\ log[position'[k].at].leg = k /\ log[position'[k].at].closes
    BY <1>8, <1>9 DEF Timely
  <1>11. log' \in Seq(Entries) /\ Reads' /\ Timely' /\ BrokerOK' /\ Sure'
    BY <1>1, <1>10, FatesKeep DEF Fates
  <1>12. group' \in Groups /\ EndedIsFlat'
    <2>1. group' = group \/ group' = Regrouped(row', position', trades)
      BY <1>1 DEF Regroups
    <2>2. group \in Groups
      BY DEF TypeOK, Groups
    <2>3. /\ Regrouped(row', position', trades) \in Groups
          /\ Regrouped(row', position', trades) \in {"EXPIRED", "FAILED"} => Flat
      BY <1>4, <1>5, RegroupedLemma
    <2> QED
      BY <2>1, <2>2, <2>3 DEF EndedIsFlat, Flat, broker
  <1> QED
    BY <1>1, <1>4, <1>6, <1>7, <1>8, <1>11, <1>12

\* The close of a position.
LEMMA CloseLemma ==
  ASSUME LedgerAssumption, LedgerInv, UNCHANGED broker, UNCHANGED work,
         UNCHANGED recovery, NEW i \in DOMAIN log, StoresClose(i)
  PROVE  /\ log' \in Seq(Entries) /\ Reads' /\ Timely' /\ BrokerOK' /\ Sure'
         /\ row' = row /\ group' \in Groups /\ trades' \subseteq Legs
         /\ position' \in [Legs -> [state : {"none", "OPEN", "CLOSED"}, at : Nat]]
         /\ RowsNeverLead' /\ EndedIsFlat'
         /\ \A l \in Legs : position[l].state = "CLOSED" => position'[l].state = "CLOSED"
  <1> USE DEF LedgerInv
  <1> DEFINE l == log[i].leg
  <1>1. /\ log[i].closes /\ position' = [position EXCEPT ![l] = Upserted(position[l], i, "CLOSED")]
        /\ trades' \in {trades, trades \cup {l}} /\ row' = row
        /\ Regroups(row, position', trades') /\ Fate(i, "mapped")
    BY DEF StoresClose
  <1>2. l \in Legs /\ i \in Nat
    <2>1. log \in Seq(Entries)
      BY DEF TypeOK, Entries
    <2>2. log[i] \in Entries /\ i \in Nat
      BY <2>1
    <2> QED
      BY <2>2 DEF Entries
  <1>3. position' \in [Legs -> [state : {"none", "OPEN", "CLOSED"}, at : Nat]]
    BY <1>1, <1>2 DEF TypeOK, Upserted
  <1>4. \A k \in Legs : position'[k] = position[k] \/ (k = l /\ position'[k] = [state |-> "CLOSED", at |-> i])
    BY <1>1, <1>2 DEF TypeOK, Upserted
  <1>5. \A k \in Legs :
          position'[k].state = "CLOSED" =>
            /\ position'[k].at \in DOMAIN log
            /\ log[position'[k].at].leg = k /\ log[position'[k].at].closes
    BY <1>1, <1>4 DEF Timely
  <1>6. log' \in Seq(Entries) /\ Reads' /\ Timely' /\ BrokerOK' /\ Sure'
    BY <1>1, <1>5, FatesKeep DEF Fates
  <1>7. RowsNeverLead'
    BY <1>1 DEF RowsNeverLead, Lags, broker, Now, Report
  <1>8. group' \in Groups /\ EndedIsFlat'
    <2>1. group' = group \/ group' = Regrouped(row, position', trades')
      BY <1>1 DEF Regroups
    <2>2. group \in Groups /\ row \in [Legs -> Rows]
      BY DEF TypeOK, Groups, Rows
    <2>3. \A k \in Legs : Lags(k, row[k])
      BY DEF RowsNeverLead
    <2>4. /\ Regrouped(row, position', trades') \in Groups
          /\ Regrouped(row, position', trades') \in {"EXPIRED", "FAILED"} => Flat
      BY <2>2, <2>3, RegroupedLemma
    <2> QED
      BY <2>1, <2>2, <2>4 DEF EndedIsFlat, Flat, broker
  <1>9. trades' \subseteq Legs
    BY <1>1, <1>2 DEF TypeOK
  <1> QED
    BY <1>1, <1>3, <1>4, <1>6, <1>7, <1>8, <1>9

\* A fate alone: a stray close, or an execution that is missed.
LEMMA FateOnlyLemma ==
  ASSUME LedgerAssumption, LedgerInv, UNCHANGED broker, UNCHANGED work,
         UNCHANGED recovery, UNCHANGED journal, NEW i \in DOMAIN log, NEW fate \in Fates,
         Fate(i, fate)
  PROVE  /\ log' \in Seq(Entries) /\ Reads' /\ Timely' /\ BrokerOK' /\ Sure'
         /\ RowsNeverLead' /\ EndedIsFlat'
  <1> USE DEF LedgerInv
  <1>1. position' = position /\ row' = row /\ group' = group
    BY DEF journal
  <1>2. log' \in Seq(Entries) /\ Reads' /\ Timely' /\ BrokerOK' /\ Sure'
    BY <1>1, FatesKeep DEF Timely
  <1> QED
    BY <1>1, <1>2 DEF RowsNeverLead, EndedIsFlat, Lags, Now, Report, broker

\* One execution in its turn.
LEMMA PersistLemma ==
  ASSUME LedgerAssumption, LedgerInv, UNCHANGED broker, UNCHANGED work,
         UNCHANGED recovery, NEW i \in DOMAIN log, Persists(i)
  PROVE  /\ log' \in Seq(Entries) /\ Reads' /\ Timely' /\ BrokerOK' /\ Sure'
         /\ row' \in [Legs -> Rows] /\ group' \in Groups /\ trades' \subseteq Legs
         /\ position' \in [Legs -> [state : {"none", "OPEN", "CLOSED"}, at : Nat]]
         /\ RowsNeverLead' /\ EndedIsFlat'
         /\ \A l \in Legs : position[l].state = "CLOSED" => position'[l].state = "CLOSED"
  <1> USE DEF LedgerInv
  <1>1. row \in [Legs -> Rows] /\ trades \subseteq Legs /\ group \in Groups
    BY DEF TypeOK, Rows, Groups
  <1>2. CASE StoresOrder(i, log[i].report, i, log[i].fill > 0)
    <2>1. log \in Seq(Entries)
      BY DEF TypeOK, Entries
    <2>2. log[i] \in Entries
      BY <2>1
    <2>3. log[i].report \in Reports /\ (log[i].fill > 0) \in BOOLEAN
      BY <2>2 DEF Entries
    <2>4. Lags(log[i].leg, log[i].report) /\ ~log[i].closes
      BY <1>2 DEF Reads, StoresOrder
    <2>5. PICK said \in Reports, opens \in BOOLEAN : said = log[i].report /\ opens = (log[i].fill > 0)
      BY <2>3
    <2>6. StoresOrder(i, said, i, opens) /\ Lags(log[i].leg, said)
      BY <1>2, <2>4, <2>5
    <2> QED
      BY <1>1, <2>4, <2>6, OrderLemma
  <1>3. CASE StoresClose(i)
    BY <1>1, <1>3, CloseLemma
  <1>4. CASE StoresStray(i)
    <2>1. Fate(i, "unmatched") /\ UNCHANGED journal
      BY <1>4 DEF StoresStray
    <2>2. /\ log' \in Seq(Entries) /\ Reads' /\ Timely' /\ BrokerOK' /\ Sure'
          /\ RowsNeverLead' /\ EndedIsFlat'
      BY <2>1, FateOnlyLemma DEF Fates
    <2>3. row' = row /\ position' = position /\ trades' = trades /\ group' = group
      BY <2>1 DEF journal
    <2>4. position \in [Legs -> [state : {"none", "OPEN", "CLOSED"}, at : Nat]]
      BY DEF TypeOK
    <2> QED
      BY <1>1, <2>2, <2>3, <2>4
  <1> QED
    BY <1>2, <1>3, <1>4 DEF Persists

-----------------------------------------------------------------------------
(* The invariant *)

\* TypeOK, in the words of the lemmas.
LEMMA TypeLemma ==
  TypeOK <=>
    /\ live \subseteq Legs /\ status \in [Legs -> {"PENDING", "FILLED", "CANCELLED", "EXPIRED"}]
    /\ done \in [Legs -> Nat] /\ held \in [Legs -> {"none", "open", "closed"}]
    /\ log \in Seq(Entries) /\ row \in [Legs -> Rows]
    /\ position \in [Legs -> [state : {"none", "OPEN", "CLOSED"}, at : Nat]]
    /\ trades \subseteq Legs /\ group \in Groups /\ placing \in BOOLEAN
    /\ work \in [Workers -> [at : {"idle", "marking", "cancelling", "writing"}, reason : Reasons,
                             todo : SUBSET Legs, leg : Legs \cup {NoLeg},
                             got : SUBSET Legs, answer : [Legs -> Reports],
                             failed : BOOLEAN, certain : BOOLEAN]]
    /\ recovery \in [deal : Nat, report : Reports, time : Nat, opens : BOOLEAN]
    /\ faults \in 0 .. MaxFaults /\ misses \in 0 .. MaxMisses
  BY DEF TypeOK, Entries, Rows, Groups

LEMMA InitLemma ==
  ASSUME LedgerAssumption, Init
  PROVE  LedgerInv
  <1> USE DEF LedgerAssumption
  <1>1. Accepted \in Reports
    BY DEF Accepted, Reports, RowStates
  <1>2. TypeOK
    BY <1>1 DEF Init, TypeOK, NoRecovery, Resting, Reasons, RowStates, Final
  <1>3. BrokerOK
    BY DEF Init, BrokerOK
  <1>4. \A l \in Legs : Lags(l, Accepted)
    BY <1>2, <1>3, NowLemma
  <1>5. Reads
    BY <1>4 DEF Init, Reads, NoRecovery, Resting
  <1>6. Sure /\ Timely /\ EndedIsFlat
    BY DEF Init, Sure, Resting, Timely, EndedIsFlat
  <1>7. RowsNeverLead
    BY DEF Init, RowsNeverLead, Lags, Ended
  <1> QED
    BY <1>2, <1>3, <1>5, <1>6, <1>7 DEF LedgerInv

Passes == [at : {"idle", "marking", "cancelling", "writing"}, reason : Reasons,
           todo : SUBSET Legs, leg : Legs \cup {NoLeg},
           got : SUBSET Legs, answer : [Legs -> Reports],
           failed : BOOLEAN, certain : BOOLEAN]

Quiet == UNCHANGED <<broker, log, position, trades, placing, recovery, misses>>

\* A step of one maintenance run that leaves the broker and the log alone.
LEMMA PassLemma ==
  ASSUME LedgerAssumption, LedgerInv, Quiet, faults' \in 0 .. MaxFaults,
         NEW w \in Workers, NEW pass \in Passes, work' = [work EXCEPT ![w] = pass],
         \A l \in Legs : Lags(l, pass.answer[l]),
         pass.certain => Flat, pass.at = "cancelling" => pass.leg \in Legs,
         row' \in [Legs -> Rows], \A l \in Legs : Lags(l, row'[l]),
         group' \in Groups, group' \in {"EXPIRED", "FAILED"} => Flat
  PROVE  LedgerInv'
  <1> USE DEF LedgerInv
  <1>1. /\ live' = live /\ status' = status /\ done' = done /\ held' = held /\ log' = log
        /\ position' = position /\ trades' = trades /\ placing' = placing
        /\ recovery' = recovery /\ misses' = misses
    BY DEF broker, Quiet
  <1>2. work \in [Workers -> Passes] /\ work' \in [Workers -> Passes]
    BY DEF TypeOK, Passes
  <1>3. TypeOK'
    BY <1>1, <1>2, TypeLemma DEF TypeOK, Passes, Rows, Groups
  <1>4. \A v \in Workers : \A l \in Legs : Lags(l, work'[v].answer[l])
    BY <1>2 DEF Reads
  <1>5. Reads'
    BY <1>1, <1>4 DEF Reads, Lags, Now, Report
  <1>6. \A v \in Workers : /\ work'[v].certain => Flat
                           /\ work'[v].at = "cancelling" => work'[v].leg \in Legs
    BY <1>2 DEF Sure
  <1>7. Sure' /\ BrokerOK' /\ Timely' /\ EndedIsFlat'
    BY <1>1, <1>6 DEF Sure, BrokerOK, Timely, EndedIsFlat, Flat
  <1>8. RowsNeverLead'
    BY <1>1 DEF RowsNeverLead, Lags, Now, Report
  <1> QED
    BY <1>3, <1>5, <1>7, <1>8

\* Order maintenance, action by action.
LEMMA MaintenanceLemma ==
  ASSUME LedgerAssumption, LedgerInv, NEW w \in Workers, Maintains(w)
  PROVE  LedgerInv'
  <1> USE DEF LedgerInv
  <1>1. /\ work[w] \in Passes /\ work \in [Workers -> Passes] /\ faults \in 0 .. MaxFaults
        /\ row \in [Legs -> Rows] /\ group \in Groups /\ MaxFaults \in Nat
        /\ \A l \in Legs : Lags(l, row[l]) /\ Lags(l, work[w].answer[l])
    BY DEF TypeOK, Passes, Rows, Groups, RowsNeverLead, Reads, LedgerAssumption
  <1>2. group \in {"EXPIRED", "FAILED"} => Flat
    BY DEF EndedIsFlat, Flat
  <1>3. \A l \in Legs : Lags(l, Accepted) /\ Now(l) \in Reports /\ Lags(l, Now(l))
    BY NowLemma
  <1>4. Resting \in Passes /\ Accepted \in Reports
    BY DEF Resting, Passes, Accepted, Reports, RowStates, Reasons
  <1>5. CASE Selects(w)
    <2>1. PICK reason \in Reasons :
            work' = [work EXCEPT ![w] = [Resting EXCEPT !.at = "marking", !.reason = reason,
                                                        !.todo = Selected(reason)]]
      BY <1>5 DEF Selects
    <2>2. Selected(reason) \subseteq Legs
      BY DEF Selected, FilledPeer, IncompletePair, RowsIn, Reasons
    <2> DEFINE pass == [Resting EXCEPT !.at = "marking", !.reason = reason, !.todo = Selected(reason)]
    <2>3. pass \in Passes /\ ~pass.certain /\ pass.answer = [l \in Legs |-> Accepted]
      BY <1>4, <2>2 DEF Passes, Resting
    <2>4. Quiet /\ row' = row /\ group' = group /\ faults' = faults
      BY <1>5 DEF Selects, Quiet, journal, budget
    <2>5. \A l \in Legs : Lags(l, pass.answer[l])
      BY <1>3, <2>3
    <2>6. pass.at # "cancelling" /\ work' = [work EXCEPT ![w] = pass]
      BY <2>1 DEF Resting
    <2> HIDE DEF pass
    <2> QED
      BY <1>1, <1>2, <2>3, <2>4, <2>5, <2>6, PassLemma
  <1>6. CASE Marks(w)
    <2>1. PICK l \in work[w].todo :
            /\ row' = [row EXCEPT ![l] = Marked(row[l])]
            /\ work' = [work EXCEPT ![w].at = "cancelling", ![w].leg = l, ![w].todo = @ \ {l}]
      BY <1>6 DEF Marks
    <2>2. l \in Legs
      BY <1>1 DEF Passes
    <2> DEFINE pass == [work[w] EXCEPT !.at = "cancelling", !.leg = l, !.todo = @ \ {l}]
    <2>3. work' = [work EXCEPT ![w] = pass]
      BY <1>1, <2>1
    <2>4. pass \in Passes /\ pass.certain = work[w].certain /\ pass.answer = work[w].answer
      BY <1>1, <2>2 DEF Passes
    <2>5. row' \in [Legs -> Rows] /\ \A k \in Legs : Lags(k, row'[k])
      BY <1>1, <2>1, <2>2 DEF Rows, RowStates, Marked, Lags, Ended
    <2>6. pass.certain => Flat
      BY <2>4 DEF Sure
    <2>7. Quiet /\ group' = group /\ faults' = faults
      BY <1>6 DEF Marks, Quiet, budget
    <2>8. pass.leg \in Legs
      BY <1>1, <2>2 DEF Passes
    <2> HIDE DEF pass
    <2> QED
      BY <1>1, <1>2, <2>3, <2>4, <2>5, <2>6, <2>7, <2>8, PassLemma
  <1>7. CASE Cancels(w) /\ work[w].leg \in live
    <2>1. PICK l \in Legs :
            /\ l = work[w].leg /\ l \in live
            /\ Stops(l, "CANCELLED") /\ Answered(w, Report(l, "CANCELLED", done[l]))
      BY <1>7 DEF Cancels, TypeOK
    <2>2. Steps(l) /\ UNCHANGED <<journal, placing, recovery, budget>>
      BY <1>7, <2>1 DEF Steps, Cancels
    <2>3. /\ log' \in Seq(Entries)
          /\ \A k \in Legs, said \in Reports : Lags(k, said) => Lags(k, said)'
          /\ (\A i \in DOMAIN log : Lags(log[i].leg, log[i].report))'
          /\ (recovery.deal # 0 =>
               /\ recovery.deal \in DOMAIN log /\ recovery.time \in DOMAIN log
               /\ log[recovery.deal].leg = log[recovery.time].leg
               /\ ~log[recovery.deal].closes /\ ~log[recovery.time].closes
               /\ Lags(log[recovery.deal].leg, recovery.report))'
          /\ Timely' /\ RowsNeverLead' /\ EndedIsFlat'
      BY <2>1, <2>2, BrokerLemma DEF journal
    <2>4. /\ live' \subseteq Legs /\ BrokerOK' /\ (Flat => Flat')
          /\ status' \in [Legs -> {"PENDING", "FILLED", "CANCELLED", "EXPIRED"}]
          /\ done' \in [Legs -> Nat] /\ held' \in [Legs -> {"none", "open", "closed"}]
      BY <2>1, <2>2, StepLemma
    <2>5. PICK said \in Reports :
            /\ said = Report(l, "CANCELLED", done[l]) /\ said.filled = done[l] /\ done[l] \in Nat
            /\ said.state \in {"CANCELLED", "PARTIALLY_FILLED"}
            /\ said.state = "PARTIALLY_FILLED" <=> done[l] > 0 /\ done[l] < Volume[l]
      <3>1. done[l] \in Nat
        BY <2>1 DEF TypeOK
      <3> QED
        BY <2>1, <3>1, ReportLemma
    <2>6. Now(l)' = said /\ l \notin live' /\ done' = done
      <3>1. status'[l] = "CANCELLED" /\ done' = done /\ l \notin live'
        BY <2>1 DEF Stops, TypeOK
      <3> QED
        BY <2>5, <3>1 DEF Now, Report
    <2> DEFINE pass == [work[w] EXCEPT !.at = "marking", !.leg = NoLeg,
                          !.got = @ \cup {l}, !.answer = [@ EXCEPT ![l] = said]]
    <2>7. work' = [work EXCEPT ![w] = pass] /\ pass \in Passes /\ work' \in [Workers -> Passes]
      BY <1>1, <2>1, <2>5 DEF Answered, Passes
    <2>8. (\A v \in Workers : \A k \in Legs : Lags(k, work[v].answer[k]))'
      <3> SUFFICES ASSUME NEW v \in Workers, NEW k \in Legs
                   PROVE  Lags(k, work[v].answer[k])'
        OBVIOUS
      <3>1. CASE v = w /\ k = l
        <4>1. work'[v].answer[k] = said
          BY <1>1, <2>1, <2>7, <3>1 DEF Passes
        <4>2. Lags(l, said)'
          BY <2>5, <2>6 DEF Lags
        <4> QED
          BY <3>1, <4>1, <4>2 DEF Lags
      <3>2. CASE ~(v = w /\ k = l)
        <4>1. work'[v].answer[k] = work[v].answer[k]
          BY <1>1, <2>1, <2>7, <3>2 DEF Passes
        <4>2. work[v].answer[k] \in Reports /\ Lags(k, work[v].answer[k])
          BY <1>1 DEF Reads, Passes
        <4>3. PICK old \in Reports : old = work[v].answer[k]
          BY <4>2
        <4>4. Lags(k, old)'
          BY <2>3, <4>2, <4>3
        <4> QED
          BY <4>1, <4>3, <4>4 DEF Lags
      <3> QED
        BY <3>1, <3>2
    <2>9. Reads'
      BY <2>3, <2>8 DEF Reads
    <2>10. \A v \in Workers : /\ work'[v].certain = work[v].certain
                              /\ work'[v].at = "cancelling" => work'[v] = work[v]
      BY <1>1, <2>7 DEF Passes
    <2>11. Sure'
      BY <2>4, <2>10 DEF Sure
    <2>12. TypeOK'
      BY <2>2, <2>3, <2>4, <2>7, TypeLemma DEF TypeOK, journal, budget, Entries, Passes
    <2> QED
      BY <2>3, <2>4, <2>9, <2>11, <2>12
  <1>8. CASE Cancels(w) /\ work[w].leg \notin live
    <2> DEFINE l == work[w].leg
    <2>1. /\ Answered(w, Now(l)) /\ UNCHANGED <<broker, log>>
          /\ UNCHANGED <<journal, placing, recovery, budget>>
      BY <1>8 DEF Cancels
    <2>2. l \in Legs
      BY <1>8 DEF Sure, Cancels
    <2> QED
      <3> DEFINE pass == [work[w] EXCEPT !.at = "marking", !.leg = NoLeg,
                            !.got = @ \cup {l}, !.answer = [@ EXCEPT ![l] = Now(l)]]
      <3>1. work' = [work EXCEPT ![w] = pass]
        BY <1>1, <2>1 DEF Answered, Passes
      <3>2. pass \in Passes /\ pass.certain = work[w].certain
        BY <1>1, <1>3, <2>2 DEF Passes
      <3>3. \A k \in Legs : Lags(k, pass.answer[k])
        BY <1>1, <1>3, <2>2 DEF Passes
      <3>4. pass.certain => Flat
        BY <3>2 DEF Sure
      <3>5. Quiet /\ row' = row /\ group' = group /\ faults' = faults
        BY <2>1 DEF Quiet, journal, budget
      <3>6. pass.at # "cancelling"
        BY <1>1 DEF Passes
      <3> HIDE DEF pass
      <3> QED
        BY <1>1, <1>2, <3>1, <3>2, <3>3, <3>4, <3>5, <3>6, PassLemma
  <1>9. CASE CancelFails(w)
    <2> DEFINE pass == [work[w] EXCEPT !.at = "marking", !.leg = NoLeg, !.failed = TRUE]
    <2>1. work' = [work EXCEPT ![w] = pass]
      BY <1>1, <1>9 DEF CancelFails, Passes
    <2>7. faults' \in 0 .. MaxFaults
      BY <1>1, <1>9 DEF CancelFails
    <2>2. pass \in Passes /\ pass.certain = work[w].certain /\ pass.answer = work[w].answer
      BY <1>1 DEF Passes
    <2>3. pass.certain => Flat
      BY <2>2 DEF Sure
    <2>4. Quiet /\ row' = row /\ group' = group
      BY <1>9 DEF CancelFails, Quiet, journal
    <2>5. pass.at # "cancelling"
      BY <1>1 DEF Passes
    <2> HIDE DEF pass
    <2> QED
      BY <1>1, <1>2, <2>1, <2>2, <2>3, <2>4, <2>5, <2>7, PassLemma
  <1>10. CASE Reconciles(w)
    <2>1. PICK certain \in {FALSE, Certain(w)} :
            work' = [work EXCEPT ![w].at = "writing", ![w].failed = FALSE, ![w].certain = certain]
      BY <1>10 DEF Reconciles
    <2> DEFINE pass == [work[w] EXCEPT !.at = "writing", !.failed = FALSE, !.certain = certain]
    <2>2. certain \in BOOLEAN
      BY DEF Certain
    <2>3. work' = [work EXCEPT ![w] = pass] /\ pass \in Passes /\ pass.certain = certain
          /\ pass.answer = work[w].answer
      BY <1>1, <2>1, <2>2 DEF Passes
    <2>4. certain => Flat
      <3>1. \A l \in live : Now(l).state \in Working
        BY NowLemma DEF TypeOK
      <3> QED
        BY <2>1, <3>1 DEF Certain, Flat, TypeOK
    <2>5. Quiet /\ row' = row /\ group' = group /\ faults' = faults
      BY <1>10 DEF Reconciles, Quiet, journal, budget
    <2>6. pass.at # "cancelling"
      BY <1>1 DEF Passes
    <2> HIDE DEF pass
    <2> QED
      BY <1>1, <1>2, <2>3, <2>4, <2>5, <2>6, PassLemma
  <1>11. CASE WritesRow(w)
    <2>1. PICK l \in work[w].got :
            /\ row' = [row EXCEPT ![l] = Overwritten(row[l], work[w].answer[l])]
            /\ work' = [work EXCEPT ![w].got = @ \ {l}, ![w].answer[l] = Accepted]
      BY <1>11 DEF WritesRow
    <2>2. l \in Legs /\ work[w].answer[l] \in Reports
      BY <1>1 DEF Passes
    <2> DEFINE pass == [work[w] EXCEPT !.got = @ \ {l}, !.answer = [@ EXCEPT ![l] = Accepted]]
    <2>3. work' = [work EXCEPT ![w] = pass]
      BY <1>1, <2>1, <2>2 DEF Passes
    <2>4. pass \in Passes /\ pass.certain = work[w].certain
      BY <1>1, <1>4, <2>2 DEF Passes
    <2>5. \A k \in Legs : Lags(k, pass.answer[k])
      BY <1>1, <1>3, <2>2 DEF Passes
    <2>6. row' \in [Legs -> Rows] /\ \A k \in Legs : Lags(k, row'[k])
      <3>1. PICK over : over = Overwritten(row[l], work[w].answer[l])
        OBVIOUS
      <3>2. row \in [Legs -> Rows] /\ Lags(l, work[w].answer[l]) /\ \A k \in Legs : Lags(k, row[k])
        BY <1>1, <2>2
      <3>3. over \in Rows /\ Lags(l, over)
        BY <2>2, <3>1, <3>2, OverwrittenLemma
      <3>4. row' = [row EXCEPT ![l] = over]
        BY <2>1, <3>1
      <3> QED
        BY <2>2, <3>2, <3>3, <3>4
    <2>7. pass.certain => Flat
      BY <2>4 DEF Sure
    <2>8. Quiet /\ group' = group /\ faults' = faults
      BY <1>11 DEF WritesRow, Quiet, budget
    <2>9. pass.at # "cancelling"
      BY <1>1, <1>11 DEF Passes, WritesRow
    <2> HIDE DEF pass
    <2> QED
      BY <1>1, <1>2, <2>3, <2>4, <2>5, <2>6, <2>7, <2>8, <2>9, PassLemma
  <1>12. CASE WritesGroup(w)
    <2>1. work' = [work EXCEPT ![w] = Resting] /\ row' = row
      BY <1>12 DEF WritesGroup
    <2>2. group' \in Groups /\ (group' \in {"EXPIRED", "FAILED"} => work[w].certain)
      BY <1>12 DEF WritesGroup, Groups, Final
    <2>3. group' \in {"EXPIRED", "FAILED"} => Flat
      BY <2>2 DEF Sure
    <2>4. ~Resting.certain /\ \A l \in Legs : Lags(l, Resting.answer[l])
      BY <1>3 DEF Resting
    <2>5. Quiet /\ faults' = faults /\ Resting.at # "cancelling"
      BY <1>12 DEF WritesGroup, Quiet, budget, Resting
    <2> QED
      BY <1>1, <1>4, <2>1, <2>2, <2>3, <2>4, <2>5, PassLemma
  <1> QED
    BY <1>5, <1>6, <1>7, <1>8, <1>9, <1>10, <1>11, <1>12 DEF Maintains

-----------------------------------------------------------------------------
(* Every step *)

\* A position whose close was stored is still closed after the step.
Kept == \A l \in Legs : position[l].state = "CLOSED" => position'[l].state = "CLOSED"

LEMMA BrokerMovesLemma ==
  ASSUME LedgerAssumption, LedgerInv, BrokerMoves
  PROVE  LedgerInv' /\ Kept
  <1> USE DEF LedgerInv
  <1>1. UNCHANGED <<journal, placing, work, recovery, budget>>
    BY DEF BrokerMoves
  <1>2. PICK k \in Legs : Steps(k)
    BY DEF BrokerMoves, Steps, LedgerAssumption
  <1>3. /\ log' \in Seq(Entries)
        /\ \A k_1 \in Legs, said \in Reports : Lags(k_1, said) => Lags(k_1, said)'
        /\ (\A i \in DOMAIN log : Lags(log[i].leg, log[i].report))'
        /\ (recovery.deal # 0 =>
             /\ recovery.deal \in DOMAIN log /\ recovery.time \in DOMAIN log
             /\ log[recovery.deal].leg = log[recovery.time].leg
             /\ ~log[recovery.deal].closes /\ ~log[recovery.time].closes
             /\ Lags(log[recovery.deal].leg, recovery.report))'
        /\ Timely' /\ RowsNeverLead' /\ EndedIsFlat'
    BY <1>1, <1>2, BrokerLemma DEF journal
  <1>4. /\ live' \subseteq Legs /\ BrokerOK' /\ (Flat => Flat')
        /\ status' \in [Legs -> {"PENDING", "FILLED", "CANCELLED", "EXPIRED"}]
        /\ done' \in [Legs -> Nat] /\ held' \in [Legs -> {"none", "open", "closed"}]
    BY <1>2, StepLemma
  <1>5. (\A v \in Workers : \A l \in Legs : Lags(l, work[v].answer[l]))'
    <2> SUFFICES ASSUME NEW v \in Workers, NEW l \in Legs
                 PROVE  Lags(l, work[v].answer[l])'
      OBVIOUS
    <2>1. work[v].answer[l] \in Reports /\ Lags(l, work[v].answer[l])
      BY DEF TypeOK, Reads
    <2>2. PICK old \in Reports : old = work[v].answer[l]
      BY <2>1
    <2>3. Lags(l, old)'
      BY <1>3, <2>1, <2>2
    <2>4. work'[v].answer[l] = old
      BY <1>1, <2>2
    <2> QED
      BY <2>3, <2>4 DEF Lags
  <1>6. Reads'
    BY <1>3, <1>5 DEF Reads
  <1>7. Sure'
    BY <1>1, <1>4 DEF Sure
  <1>8. TypeOK'
    BY <1>1, <1>3, <1>4, TypeLemma DEF TypeOK, journal, budget, Entries
  <1>9. Kept
    BY <1>1 DEF Kept, journal
  <1> QED
    BY <1>3, <1>4, <1>6, <1>7, <1>8, <1>9

LEMMA RecordsLemma ==
  ASSUME LedgerAssumption, LedgerInv, Records
  PROVE  LedgerInv' /\ Kept
  <1> USE DEF LedgerInv
  <1>1. UNCHANGED <<broker, placing, work, recovery, faults>>
    BY DEF Records
  <1>2. PICK i \in Queued :
          \/ Persists(i) /\ UNCHANGED misses
          \/ misses < MaxMisses /\ misses' = misses + 1 /\ Fate(i, "missed") /\ UNCHANGED journal
    BY DEF Records
  <1>3. i \in DOMAIN log
    BY DEF Queued
  <1>4. CASE Persists(i) /\ UNCHANGED misses
    <2>1. /\ log' \in Seq(Entries) /\ Reads' /\ Timely' /\ BrokerOK' /\ Sure'
          /\ row' \in [Legs -> Rows] /\ group' \in Groups /\ trades' \subseteq Legs
          /\ position' \in [Legs -> [state : {"none", "OPEN", "CLOSED"}, at : Nat]]
          /\ RowsNeverLead' /\ EndedIsFlat'
          /\ \A l \in Legs : position[l].state = "CLOSED" => position'[l].state = "CLOSED"
      BY <1>1, <1>3, <1>4, PersistLemma
    <2>2. TypeOK'
      BY <1>1, <1>4, <2>1, TypeLemma DEF TypeOK, broker, Entries, Rows, Groups
    <2> QED
      BY <2>1, <2>2 DEF Kept
  <1>5. CASE misses < MaxMisses /\ misses' = misses + 1 /\ Fate(i, "missed") /\ UNCHANGED journal
    <2>1. /\ log' \in Seq(Entries) /\ Reads' /\ Timely' /\ BrokerOK' /\ Sure'
          /\ RowsNeverLead' /\ EndedIsFlat'
      BY <1>1, <1>3, <1>5, FateOnlyLemma DEF Fates
    <2>2. misses' \in 0 .. MaxMisses
      BY <1>5 DEF TypeOK, LedgerAssumption
    <2>3. TypeOK'
      BY <1>1, <1>5, <2>1, <2>2, TypeLemma DEF TypeOK, broker, journal, Entries
    <2> QED
      BY <1>5, <2>1, <2>3 DEF Kept, journal
  <1> QED
    BY <1>2, <1>4, <1>5

LEMMA RecoversLemma ==
  ASSUME LedgerAssumption, LedgerInv, Recovers
  PROVE  LedgerInv' /\ Kept
  <1> USE DEF LedgerInv
  <1>0. log \in Seq(Entries)
    BY DEF TypeOK, Entries
  <1>1. \A j \in DOMAIN log : log[j] \in Entries /\ j \in Nat \ {0}
    BY <1>0
  <1>2. CASE RecoveryReads
    <2>1. UNCHANGED <<broker, log, journal, placing, work, budget>>
      BY <1>2 DEF RecoveryReads
    <2>2. PICK i \in DOMAIN log, t \in DOMAIN log :
            /\ ~log[i].closes /\ LatestOf(log[i].leg, t)
            /\ recovery' = [deal |-> i, report |-> Now(log[i].leg), time |-> t,
                            opens |-> held[log[i].leg] = "open" \/ position[log[i].leg].state = "OPEN"]
      BY <1>2 DEF RecoveryReads
    <2>3. PICK l \in Legs : l = log[i].leg
      BY <1>1 DEF Entries
    <2>4. Now(l) \in Reports /\ Lags(l, Now(l))
      BY NowLemma
    <2>5. PICK said \in Reports : said = Now(l) /\ Lags(l, said)
      BY <2>4
    <2>6. /\ recovery'.deal = i /\ recovery'.report = said /\ recovery'.time = t
          /\ recovery' \in [deal : Nat, report : Reports, time : Nat, opens : BOOLEAN]
      BY <1>1, <2>2, <2>3, <2>5
    <2>7. log[t].leg = l /\ ~log[t].closes
      BY <2>2, <2>3 DEF LatestOf
    <2>8. Lags(l, said)'
      BY <2>1, <2>5, StillLemma
    <2>9. (recovery.deal # 0 =>
            /\ recovery.deal \in DOMAIN log /\ recovery.time \in DOMAIN log
            /\ log[recovery.deal].leg = log[recovery.time].leg
            /\ ~log[recovery.deal].closes /\ ~log[recovery.time].closes
            /\ Lags(log[recovery.deal].leg, recovery.report))'
      BY <2>1, <2>2, <2>3, <2>6, <2>7, <2>8 DEF Lags
    <2>10. Reads'
      BY <2>1, <2>9 DEF Reads, Lags, Now, Report, broker
    <2>11. TypeOK'
      BY <2>1, <2>6 DEF TypeOK, broker, journal, budget
    <2> QED
      BY <2>1, <2>10, <2>11
      DEF broker, journal, BrokerOK, Sure, Flat, Timely, RowsNeverLead, EndedIsFlat,
          Lags, Now, Report, Kept
  <1>3. CASE RecoveryWrites
    <2>1. UNCHANGED <<broker, placing, work, budget>> /\ recovery' = NoRecovery
      BY <1>3 DEF RecoveryWrites
    <2>2. PICK i \in DOMAIN log, t \in DOMAIN log, said \in Reports, opens \in BOOLEAN :
            /\ i = recovery.deal /\ t = recovery.time /\ said = recovery.report
            /\ opens = (recovery.opens /\ log[i].fill > 0)
            /\ Lags(log[i].leg, said) /\ log[t].leg = log[i].leg /\ ~log[t].closes
            /\ StoresOrder(i, said, t, opens)
      BY <1>3 DEF RecoveryWrites, Reads, TypeOK
    <2>3. /\ log' \in Seq(Entries) /\ Reads' /\ Timely' /\ BrokerOK' /\ Sure'
          /\ row' \in [Legs -> Rows] /\ group' \in Groups /\ trades' = trades
          /\ position' \in [Legs -> [state : {"none", "OPEN", "CLOSED"}, at : Nat]]
          /\ RowsNeverLead' /\ EndedIsFlat'
          /\ \A l \in Legs : position[l].state = "CLOSED" => position'[l].state = "CLOSED"
      BY <2>1, <2>2, OrderLemma
    <2>4. recovery' \in [deal : Nat, report : Reports, time : Nat, opens : BOOLEAN]
      BY <2>1 DEF NoRecovery, Accepted, Reports, RowStates
    <2>5. TypeOK'
      BY <2>1, <2>3, <2>4, TypeLemma DEF TypeOK, broker, budget, Entries, Rows, Groups
    <2> QED
      BY <2>3, <2>5 DEF Kept
  <1>4. CASE RecoversClose
    <2>1. UNCHANGED <<broker, placing, work, recovery, budget>>
      BY <1>4 DEF RecoversClose
    <2>2. PICK i \in DOMAIN log : StoresClose(i)
      BY <1>4 DEF RecoversClose
    <2>3. /\ log' \in Seq(Entries) /\ Reads' /\ Timely' /\ BrokerOK' /\ Sure'
          /\ row' = row /\ group' \in Groups /\ trades' \subseteq Legs
          /\ position' \in [Legs -> [state : {"none", "OPEN", "CLOSED"}, at : Nat]]
          /\ RowsNeverLead' /\ EndedIsFlat'
          /\ \A l \in Legs : position[l].state = "CLOSED" => position'[l].state = "CLOSED"
      BY <2>1, <2>2, CloseLemma
    <2>4. TypeOK'
      BY <2>1, <2>3, TypeLemma DEF TypeOK, broker, budget, Entries, Rows, Groups
    <2> QED
      BY <2>3, <2>4 DEF Kept
  <1> QED
    BY <1>2, <1>3, <1>4 DEF Recovers

\* Whatever safety() writes of an order, it was so.
LEMMA SnapshotLemma ==
  ASSUME LedgerAssumption, LedgerInv, NEW report \in Snapshots
  PROVE  \A l \in Legs : report[l] \in Reports /\ Lags(l, report[l])
  <1> USE DEF LedgerInv
  <1> SUFFICES ASSUME NEW l \in Legs
               PROVE  report[l] \in Reports /\ Lags(l, report[l])
    OBVIOUS
  <1>1. report[l] \in Said(l)
    BY DEF Snapshots
  <1>2. CASE report[l] = Accepted
    BY <1>2, NowLemma
  <1>3. CASE report[l] # Accepted
    <2>1. PICK i \in DOMAIN log : log[i].leg = l /\ report[l] = log[i].report
      BY <1>1, <1>3 DEF Said, Flushed
    <2>2. log[i] \in Entries
      BY TypeLemma
    <2> QED
      BY <2>1, <2>2 DEF Reads, Entries
  <1> QED
    BY <1>2, <1>3

LEMMA OlderReadsLemma ==
  ASSUME LedgerAssumption, LedgerInv, PlacementWrites \/ SafetyWrites
  PROVE  LedgerInv' /\ Kept
  <1> USE DEF LedgerInv
  <1>1. row \in [Legs -> Rows]
    BY DEF TypeOK, Rows
  <1>5. Accepted \in Reports /\ \A l \in Legs : Lags(l, Accepted)
    BY NowLemma DEF Accepted, Reports, RowStates
  <1>2. CASE PlacementWrites
    <2>1. UNCHANGED <<broker, log, position, trades, work, recovery, budget>>
      BY <1>2 DEF PlacementWrites
    <2>2. row' = [l \in Legs |-> Overwritten(row[l], Accepted)] /\ group' = "ACTIVE" /\ placing' = FALSE
      BY <1>2 DEF PlacementWrites
    <2>3. row' \in [Legs -> Rows] /\ \A l \in Legs : Lags(l, row'[l])
      BY <1>1, <1>5, <2>2, OverwrittenLemma
    <2>4. TypeOK'
      BY <2>1, <2>2, <2>3, TypeLemma DEF TypeOK, broker, budget, Rows, Groups
    <2>5. RowsNeverLead'
      BY <2>1, <2>3 DEF RowsNeverLead, Lags, Now, Report, broker
    <2> QED
      BY <2>1, <2>2, <2>4, <2>5
      DEF broker, BrokerOK, Reads, Sure, Flat, Timely, EndedIsFlat, Lags, Now, Report, Kept
  <1>4. CASE SafetyWrites
    <2>1. UNCHANGED <<broker, log, position, trades, placing, work, recovery, budget>>
      BY <1>4 DEF SafetyWrites
    <2>11. PICK report \in Snapshots : row' = [l \in Legs |-> Overwritten(row[l], report[l])]
      BY <1>4 DEF SafetyWrites
    <2>12. \A l \in Legs : report[l] \in Reports /\ Lags(l, report[l])
      BY SnapshotLemma
    <2> DEFINE over == [l \in Legs |-> Overwritten(row[l], report[l])]
    <2>10. PICK rows : rows = over
      OBVIOUS
    <2>2. PICK certain \in BOOLEAN :
            /\ rows = over /\ row' = rows
            /\ group' = Doubted(IF group \in Final THEN group ELSE Reconciled(rows), certain)
      BY <1>4, <2>10, <2>11 DEF SafetyWrites
    <2>3. rows \in [Legs -> Rows] /\ \A l \in Legs : Lags(l, rows[l])
      BY <1>1, <2>2, <2>12, OverwrittenLemma
    <2>4. /\ Reconciled(rows) \in Groups
          /\ Reconciled(rows) \in {"EXPIRED", "FAILED"} => Flat
      BY <2>3, ReconciledLemma
    <2>5. group' \in Groups /\ (group' \in {"EXPIRED", "FAILED"} => Flat)
      BY <2>2, <2>4 DEF Doubted, TypeOK, Groups, Final, EndedIsFlat, Flat
    <2>7. TypeOK'
      BY <2>1, <2>2, <2>3, <2>5, TypeLemma DEF TypeOK, broker, budget, Rows, Groups
    <2>8. Reads'
      BY <2>1 DEF Reads, Lags, Now, Report, broker
    <2>9. RowsNeverLead' /\ EndedIsFlat'
      BY <2>1, <2>2, <2>3, <2>5 DEF RowsNeverLead, EndedIsFlat, Flat, Lags, Now, Report, broker
    <2> QED
      BY <2>1, <2>7, <2>8, <2>9 DEF broker, BrokerOK, Sure, Flat, Timely, Kept
  <1> QED
    BY <1>2, <1>4

LEMMA StutterLemma ==
  ASSUME LedgerInv, UNCHANGED vars
  PROVE  LedgerInv' /\ Kept
  BY DEF vars, broker, journal, budget, LedgerInv, TypeOK, BrokerOK, Reads, Sure, Flat, Timely,
         RowsNeverLead, EndedIsFlat, Lags, Now, Report, Kept

LEMMA NextLemma ==
  ASSUME LedgerAssumption, LedgerInv, [Next]_vars
  PROVE  LedgerInv' /\ Kept
  <1>1. CASE \E w \in Workers : Maintains(w)
    <2>1. PICK w \in Workers : Maintains(w)
      BY <1>1
    <2>2. position' = position
      BY <2>1 DEF Maintains, Selects, Marks, Cancels, CancelFails, Reconciles, WritesRow,
                  WritesGroup, journal
    <2> QED
      BY <2>1, <2>2, MaintenanceLemma DEF Kept
  <1> QED
    BY <1>1, BrokerMovesLemma, RecordsLemma, RecoversLemma, OlderReadsLemma, StutterLemma DEF Next

-----------------------------------------------------------------------------
(* The theorems *)

\* The invariant holds of every behaviour of the four writers and the broker.
THEOREM Invariance == Spec => []LedgerInv
  <1>1. Init => LedgerInv
    BY InitLemma, LedgerAssumption
  <1>2. LedgerInv /\ [Next]_vars => LedgerInv'
    BY NextLemma, LedgerAssumption
  <1> QED
    BY <1>1, <1>2, PTL DEF Spec

\* Every row and every report a writer holds is of its type.
THEOREM TypeCorrect == Spec => []TypeOK
  <1>1. LedgerInv => TypeOK
    BY DEF LedgerInv
  <1> QED
    BY <1>1, Invariance, PTL

\* The rows of orders never lead the broker (order maintenance cancels by them).
THEOREM RowsFollowBroker == Spec => []RowsNeverLead
  <1>1. LedgerInv => RowsNeverLead
    BY DEF LedgerInv
  <1> QED
    BY <1>1, Invariance, PTL

\* A group that is EXPIRED or FAILED, whoever wrote it, is over at the broker.
THEOREM EndedGroupsFlat == Spec => []EndedIsFlat
  <1>1. LedgerInv => EndedIsFlat
    BY DEF LedgerInv
  <1> QED
    BY <1>1, Invariance, PTL

\* The recovery never reopens a position whose close the journal holds.
THEOREM ClosedPositionsStay == Spec => ClosedStays
  <1>1. LedgerInv /\ [Next]_vars =>
          [\A l \in Legs : position[l].state = "CLOSED" => position'[l].state = "CLOSED"]_vars
    BY NextLemma, LedgerAssumption DEF Kept
  <1> QED
    BY <1>1, Invariance, PTL DEF Spec, ClosedStays

\* What a select of maintenance finds: the peer of each row has a fill or has ended.
Apart(w) ==
  work[w].at = "idle" /\ work'[w].at = "marking" /\ work'[w].reason # "ANALYSIS_EXPIRED" =>
    \A l \in work'[w].todo : \E peer \in Legs \ {l} : done[peer] > 0 \/ peer \notin live

LEMMA SelectLemma ==
  ASSUME LedgerAssumption, LedgerInv, NEW v \in Workers, Maintains(v), NEW w \in Workers
  PROVE  Apart(w)
  <1> USE DEF LedgerInv
  <1>1. work \in [Workers -> Passes] /\ done \in [Legs -> Nat]
    BY DEF TypeOK, Passes
  <1>2. CASE Selects(v) /\ v = w
    <2>1. PICK reason \in Reasons :
            work' = [work EXCEPT ![w] = [Resting EXCEPT !.at = "marking", !.reason = reason,
                                                        !.todo = Selected(reason)]]
      BY <1>2 DEF Selects
    <2>2. work'[w].reason = reason /\ work'[w].todo = Selected(reason)
      BY <1>1, <2>1 DEF Resting
    <2>3. ASSUME NEW l \in Selected(reason), reason # "ANALYSIS_EXPIRED"
          PROVE  \E peer \in Legs \ {l} : done[peer] > 0 \/ peer \notin live
      <3>1. CASE reason = "OCO_PEER_FILLED"
        <4>1. PICK peer \in Legs \ {l} :
                row[peer].state \in {"FILLED", "PARTIALLY_FILLED"} \/ row[peer].filled > 0
          BY <2>3, <3>1 DEF Selected, FilledPeer
        <4>2. Lags(peer, row[peer]) /\ row[peer].filled \in Nat /\ done[peer] \in Nat
          BY <1>1 DEF RowsNeverLead, TypeOK
        <4> QED
          BY <4>1, <4>2 DEF Lags
      <3>2. CASE reason = "OCO_PEER_UNFILLED_TERMINAL"
        <4>1. l \in IncompletePair
          BY <2>3, <3>2 DEF Selected
        <4>2. PICK peer \in Legs \ {l} : row[peer].state \in Ended
          BY <4>1 DEF IncompletePair
        <4>3. Lags(peer, row[peer])
          BY DEF RowsNeverLead
        <4> QED
          BY <4>2, <4>3 DEF Lags
      <3> QED
        BY <2>3, <3>1, <3>2 DEF Reasons
    <2> QED
      BY <2>2, <2>3 DEF Apart
  <1>3. CASE Selects(v) /\ v # w
    BY <1>1, <1>3 DEF Selects, Apart
  <1>4. CASE Marks(v) \/ Cancels(v) \/ CancelFails(v) \/ Reconciles(v) \/ WritesRow(v) \/ WritesGroup(v)
    <2>1. work[v].at # "idle"
      BY <1>4 DEF Marks, Cancels, CancelFails, Reconciles, WritesRow, WritesGroup
    <2>2. v # w => work'[w] = work[w]
      BY <1>1, <1>4 DEF Marks, Cancels, CancelFails, Reconciles, WritesRow, WritesGroup, Answered
    <2> QED
      BY <2>1, <2>2 DEF Apart
  <1> QED
    BY <1>2, <1>3, <1>4 DEF Maintains

\* Maintenance takes a pair apart only when one of its orders is filled or ended.
THEOREM PairsKept == Spec => IntactPairKept
  <1>1. ASSUME LedgerInv, [Next]_vars
        PROVE  [\A w \in Workers : Apart(w)]_vars
    <2>1. CASE \E v \in Workers : Maintains(v)
      BY <1>1, <2>1, SelectLemma, LedgerAssumption
    <2>2. CASE UNCHANGED vars
      BY <2>2
    <2>3. CASE BrokerMoves \/ Records \/ Recovers \/ PlacementWrites \/ SafetyWrites
      <3>1. work' = work
        BY <2>3 DEF BrokerMoves, Records, Recovers, RecoveryReads, RecoveryWrites, RecoversClose,
                    PlacementWrites, SafetyWrites
      <3> QED
        BY <3>1 DEF Apart
    <2> QED
      BY <1>1, <2>1, <2>2, <2>3 DEF Next
  <1>2. LedgerInv /\ [Next]_vars =>
          [\A w \in Workers :
             work[w].at = "idle" /\ work'[w].at = "marking" /\ work'[w].reason # "ANALYSIS_EXPIRED" =>
               \A l \in work'[w].todo : \E peer \in Legs \ {l} : done[peer] > 0 \/ peer \notin live]_vars
    BY <1>1 DEF Apart
  <1> QED
    BY <1>2, Invariance, PTL DEF Spec, IntactPairKept

-----------------------------------------------------------------------------
(* The sums of the fills rows *)

LEMMA Induction ==
  ASSUME NEW S, 0 \in S, \A n \in Nat : n \in S => n + 1 \in S
  PROVE  Nat \subseteq S
  <1> DEFINE T == {n \in Nat : n \notin S}
  <1>1. SUFFICES ASSUME T # {}
                 PROVE  FALSE
    OBVIOUS
  <1>2. PICK m \in T : \A k \in T : <<k, m>> \notin OpToRel(<, Nat)
    <2>1. T \subseteq Nat
      OBVIOUS
    <2> HIDE DEF T
    <2> QED
      BY <1>1, <2>1, WFMin, NatLessThanWellFounded, Zenon
  <1>3. m \in Nat /\ m # 0
    OBVIOUS
  <1>4. m - 1 \in Nat /\ m - 1 < m /\ (m - 1) + 1 = m
    BY <1>3
  <1>5. m - 1 \in T
    BY <1>4
  <1>6. <<m - 1, m>> \notin OpToRel(<, Nat)
    BY <1>2, <1>5
  <1> QED
    BY <1>3, <1>4, <1>6 DEF OpToRel

Sums(sum, numbers, n) ==
  sum = [k \in 0 .. n |-> IF k = 0 THEN 0 ELSE sum[k - 1] + numbers[k]]

LEMMA SumsExist ==
  ASSUME NEW numbers, NEW n \in Nat
  PROVE  \E sum : Sums(sum, numbers, n)
  <1> DEFINE S == {m \in Nat : \E sum : Sums(sum, numbers, m)}
  <1>1. 0 \in S
    <2>1. Sums([k \in 0 .. 0 |-> 0], numbers, 0)
      BY DEF Sums
    <2> QED
      BY <2>1
  <1>2. ASSUME NEW m \in Nat, m \in S
        PROVE  m + 1 \in S
    <2>1. PICK sum : Sums(sum, numbers, m)
      BY <1>2
    <2> DEFINE next == [k \in 0 .. m + 1 |-> IF k <= m THEN sum[k] ELSE sum[m] + numbers[m + 1]]
    <2>2. ASSUME NEW k \in 0 .. m + 1
          PROVE  next[k] = IF k = 0 THEN 0 ELSE next[k - 1] + numbers[k]
      <3>1. CASE k = m + 1
        <4>1. next[k] = sum[m] + numbers[m + 1] /\ k # 0 /\ k - 1 = m
          BY <3>1
        <4>2. next[m] = sum[m]
          OBVIOUS
        <4> QED
          BY <3>1, <4>1, <4>2
      <3>2. CASE k # m + 1
        <4>1. k \in 0 .. m
          BY <3>2
        <4>2. sum[k] = IF k = 0 THEN 0 ELSE sum[k - 1] + numbers[k]
          BY <2>1, <4>1 DEF Sums
        <4>3. next[k] = sum[k] /\ (k # 0 => next[k - 1] = sum[k - 1])
          BY <4>1
        <4> QED
          BY <4>2, <4>3
      <3> QED
        BY <3>1, <3>2
    <2>3. next = [k \in 0 .. m + 1 |-> next[k]]
      OBVIOUS
    <2> HIDE DEF next
    <2>4. Sums(next, numbers, m + 1)
      BY <2>2, <2>3 DEF Sums
    <2> QED
      BY <2>4
  <1> HIDE DEF S
  <1>3. n \in S
    BY <1>1, <1>2, Induction
  <1> QED
    BY <1>3 DEF S

\* What Total is made of: nothing of none, and each number upon those before it.
LEMMA TotalSteps ==
  ASSUME NEW numbers
  PROVE  /\ Total(numbers, 0) = 0
         /\ \A n \in Nat : Total(numbers, n + 1) = Total(numbers, n) + numbers[n + 1]
  <1> DEFINE sum(n) == CHOOSE s : Sums(s, numbers, n)
  <1>1. ASSUME NEW n \in Nat
        PROVE  Sums(sum(n), numbers, n)
    BY SumsExist
  <1>2. ASSUME NEW n
        PROVE  Total(numbers, n) = sum(n)[n]
    BY DEF Total, Sums
  <1> HIDE DEF sum
  <1>3. ASSUME NEW n \in Nat
        PROVE  \A k \in Nat : k <= n => sum(n)[k] = sum(n + 1)[k]
    <2> DEFINE S == {k \in Nat : k <= n => sum(n)[k] = sum(n + 1)[k]}
    <2>1. Sums(sum(n), numbers, n) /\ Sums(sum(n + 1), numbers, n + 1)
      BY <1>1
    <2>2. PICK s, t : /\ s = sum(n) /\ t = sum(n + 1)
                      /\ Sums(s, numbers, n) /\ Sums(t, numbers, n + 1)
      BY <2>1
    <2>3. s[0] = 0 /\ t[0] = 0
      BY <2>2 DEF Sums
    <2>4. \A k \in Nat : k + 1 <= n =>
            s[k + 1] = s[k] + numbers[k + 1] /\ t[k + 1] = t[k] + numbers[k + 1]
      <3> SUFFICES ASSUME NEW k \in Nat, k + 1 <= n
                   PROVE  s[k + 1] = s[k] + numbers[k + 1] /\ t[k + 1] = t[k] + numbers[k + 1]
        OBVIOUS
      <3>1. k + 1 \in 0 .. n /\ k + 1 \in 0 .. n + 1 /\ k + 1 # 0 /\ (k + 1) - 1 = k
        OBVIOUS
      <3>2. s[k + 1] = IF k + 1 = 0 THEN 0 ELSE s[(k + 1) - 1] + numbers[k + 1]
        BY <2>2, <3>1 DEF Sums
      <3>3. t[k + 1] = IF k + 1 = 0 THEN 0 ELSE t[(k + 1) - 1] + numbers[k + 1]
        BY <2>2, <3>1 DEF Sums
      <3> QED
        BY <3>1, <3>2, <3>3
    <2>5. 0 \in S
      BY <2>2, <2>3
    <2>6. ASSUME NEW k \in Nat, k \in S
          PROVE  k + 1 \in S
      BY <2>2, <2>4, <2>6
    <2> HIDE DEF S
    <2>7. Nat \subseteq S
      BY <2>5, <2>6, Induction
    <2> QED
      BY <2>7 DEF S
  <1>4. Total(numbers, 0) = 0
    <2>1. PICK s : s = sum(0) /\ Sums(s, numbers, 0)
      BY <1>1
    <2>2. s[0] = 0
      BY <2>1 DEF Sums
    <2> QED
      BY <1>2, <2>1, <2>2
  <1>5. ASSUME NEW n \in Nat
        PROVE  Total(numbers, n + 1) = Total(numbers, n) + numbers[n + 1]
    <2>1. PICK s : s = sum(n + 1) /\ Sums(s, numbers, n + 1)
      BY <1>1
    <2>2. s[n + 1] = s[n] + numbers[n + 1]
      <3>1. n + 1 \in 0 .. n + 1 /\ n + 1 # 0 /\ (n + 1) - 1 = n
        OBVIOUS
      <3>2. s[n + 1] = IF n + 1 = 0 THEN 0 ELSE s[(n + 1) - 1] + numbers[n + 1]
        BY <2>1, <3>1 DEF Sums
      <3> QED
        BY <3>1, <3>2
    <2>3. sum(n)[n] = s[n]
      BY <1>3, <2>1
    <2> QED
      BY <1>2, <2>1, <2>2, <2>3
  <1> QED
    BY <1>4, <1>5

\* Of two sequences, the one that is nowhere larger has no larger sum, and the same sum
\* only if it is the same.
LEMMA TotalsCompare ==
  ASSUME NEW few, NEW many, NEW n \in Nat,
         \A k \in 1 .. n : few[k] \in Nat /\ many[k] \in Nat /\ few[k] <= many[k]
  PROVE  /\ Total(few, n) \in Nat /\ Total(many, n) \in Nat
         /\ Total(few, n) <= Total(many, n)
         /\ Total(few, n) = Total(many, n) => \A k \in 1 .. n : few[k] = many[k]
  <1> DEFINE Holds(m) ==
               /\ Total(few, m) \in Nat /\ Total(many, m) \in Nat
               /\ Total(few, m) <= Total(many, m)
               /\ Total(few, m) = Total(many, m) => \A k \in 1 .. m : few[k] = many[k]
             S == {m \in Nat : m <= n => Holds(m)}
  <1>1. 0 \in S
    BY TotalSteps
  <1>2. ASSUME NEW m \in Nat, m \in S
        PROVE  m + 1 \in S
    <2> SUFFICES ASSUME m + 1 <= n
                 PROVE  Holds(m + 1)
      OBVIOUS
    <2>1. Holds(m)
      BY <1>2
    <2>2. few[m + 1] \in Nat /\ many[m + 1] \in Nat /\ few[m + 1] <= many[m + 1]
      OBVIOUS
    <2>3. /\ Total(few, m + 1) = Total(few, m) + few[m + 1]
          /\ Total(many, m + 1) = Total(many, m) + many[m + 1]
      BY TotalSteps
    <2>4. Total(few, m + 1) = Total(many, m + 1) =>
            Total(few, m) = Total(many, m) /\ few[m + 1] = many[m + 1]
      BY <2>1, <2>2, <2>3
    <2>5. ASSUME NEW k \in 1 .. m + 1, k # m + 1
          PROVE  k \in 1 .. m
      BY <2>5
    <2> QED
      BY <2>1, <2>2, <2>3, <2>4, <2>5
  <1> HIDE DEF S
  <1>3. n \in S
    BY <1>1, <1>2, Induction
  <1> HIDE DEF Holds
  <1>4. Holds(n)
    BY <1>3 DEF S
  <1> QED
    BY <1>4 DEF Holds

LEMMA TotalSame ==
  ASSUME NEW some, NEW others, NEW n \in Nat,
         \A k \in 1 .. n : some[k] = others[k]
  PROVE  Total(some, n) = Total(others, n)
  <1> DEFINE S == {m \in Nat : m <= n => Total(some, m) = Total(others, m)}
  <1>1. 0 \in S
    BY TotalSteps
  <1>2. ASSUME NEW m \in Nat, m \in S
        PROVE  m + 1 \in S
    <2>1. /\ Total(some, m + 1) = Total(some, m) + some[m + 1]
          /\ Total(others, m + 1) = Total(others, m) + others[m + 1]
      BY TotalSteps
    <2> QED
      BY <1>2, <2>1
  <1> HIDE DEF S
  <1>3. n \in S
    BY <1>1, <1>2, Induction
  <1> QED
    BY <1>3 DEF S

-----------------------------------------------------------------------------
(* The trades *)

\* The volume of an execution of a leg's order, in the journal or not.
Sent(l) == [i \in DOMAIN log |-> IF log[i].leg = l THEN log[i].fill ELSE 0]

\* The executions of a leg bring all its volume, and none after the close of its position;
\* what the recovery read to store is still to be stored.
SentInv ==
  /\ \A l \in Legs : Total(Sent(l), Len(log)) = done[l]
  /\ \A l \in Legs : held[l] = "closed" => l \notin live
  /\ \A i \in DOMAIN log :
       log[i].closes => /\ held[log[i].leg] = "closed" /\ log[i].fill = 0
                        /\ log[i].report.filled = done[log[i].leg]
  /\ recovery.deal # 0 => log[recovery.deal].fate = "missed"

TradesInv == SentInv /\ TradesComplete

\* Where the fills rows account for all the volume, no execution is left that would add to them.
LEMMA StoredAll ==
  ASSUME log \in Seq(Entries), SentInv, NEW l \in Legs, Recorded(l) = done[l],
         NEW i \in DOMAIN log, log[i].leg = l, log[i].fate # "mapped"
  PROVE  log[i].fill = 0
  <1>1. Len(log) \in Nat /\ DOMAIN log = 1 .. Len(log) /\ \A k \in DOMAIN log : log[k].fill \in Nat
    <2>1. \A k \in DOMAIN log : log[k] \in Entries
      OBVIOUS
    <2> QED
      BY <2>1 DEF Entries
  <1>2. \A k \in 1 .. Len(log) :
          Stored(l)[k] \in Nat /\ Sent(l)[k] \in Nat /\ Stored(l)[k] <= Sent(l)[k]
    BY <1>1 DEF Stored, Sent
  <1>3. Total(Stored(l), Len(log)) = Total(Sent(l), Len(log))
    BY DEF Recorded, SentInv
  <1>4. Stored(l)[i] = Sent(l)[i]
    BY <1>1, <1>2, <1>3, TotalsCompare
  <1> QED
    BY <1>4 DEF Stored, Sent

\* A step of the broker adds the volume of its execution, and touches no closed position.
LEMMA BrokerTrades ==
  ASSUME LedgerAssumption, LedgerInv, TradesInv, NEW k \in Legs, Steps(k),
         UNCHANGED <<trades, recovery>>
  PROVE  TradesInv'
  <1> USE DEF LedgerInv
  <1>1. log \in Seq(Entries) /\ done \in [Legs -> Nat] /\ held \in [Legs -> {"none", "open", "closed"}]
        /\ trades \subseteq Legs
    BY DEF TypeOK, Entries
  <1>2. PICK e \in Entries :
          /\ log' = Append(log, e) /\ e.leg = k /\ e.fate = "queued" /\ held[k] # "closed"
          /\ done' = [done EXCEPT ![k] = @ + e.fill]
          /\ live' \subseteq live /\ \A l \in Legs : l # k => held'[l] = held[l]
          /\ held'[k] = "closed" => k \notin live'
          /\ e.closes => held'[k] = "closed" /\ e.fill = 0 /\ e.report.filled = done'[k]
    <2>1. PICK e \in Entries :
            /\ log' = Append(log, e) /\ e.leg = k /\ e.fate = "queued"
            /\ done' = [done EXCEPT ![k] = @ + e.fill]
            /\ e.closes => /\ k \notin live /\ held[k] = "open" /\ held'[k] = "closed"
                           /\ e.fill = 0 /\ e.report.filled = done'[k]
            /\ ~e.closes => k \in live /\ held'[k] \in {held[k], "open"}
      BY SendLemma
    <2>2. \A l \in Legs : l # k => held'[l] = held[l]
      BY <1>1 DEF Steps, Fills, Stops, Closes
    <2>3. live' \subseteq live
      BY StepLemma
    <2>4. held[k] = "closed" => k \notin live
      BY DEF TradesInv, SentInv
    <2>5. held[k] # "closed" /\ (held'[k] = "closed" => k \notin live')
      BY <2>1, <2>3, <2>4
    <2> QED
      BY <2>1, <2>2, <2>3, <2>5
  <1> DEFINE n == Len(log)
  <1>3. /\ n \in Nat /\ Len(log') = n + 1 /\ DOMAIN log = 1 .. n /\ DOMAIN log' = 1 .. n + 1
        /\ \A i \in 1 .. n : log'[i] = log[i] /\ log[i] \in Entries
        /\ log'[n + 1] = e
    BY <1>1, <1>2
  <1> HIDE DEF n
  <1>4. ASSUME NEW l \in Legs
        PROVE  (Total(Sent(l), Len(log)) = done[l])'
    <2>1. PICK before, after : before = Sent(l) /\ after = Sent(l)'
      OBVIOUS
    <2>2. \A i \in 1 .. n : after[i] = before[i]
      BY <1>3, <2>1 DEF Sent
    <2>3. after[n + 1] = IF l = k THEN e.fill ELSE 0
      BY <1>2, <1>3, <2>1 DEF Sent
    <2>4. Total(after, n + 1) = Total(after, n) + after[n + 1] /\ Total(after, n) = Total(before, n)
      <3>1. Total(after, n) = Total(before, n)
        BY <1>3, <2>2, TotalSame
      <3> QED
        BY <1>3, <3>1, TotalSteps
    <2>5. Total(before, n) = done[l]
      BY <2>1 DEF TradesInv, SentInv, n
    <2>6. done'[l] = done[l] + after[n + 1]
      BY <1>1, <1>2, <2>3
    <2>7. Total(after, n + 1) = done'[l]
      BY <2>4, <2>5, <2>6
    <2>8. PICK m : m = Len(log') /\ m = n + 1
      BY <1>3
    <2> QED
      BY <2>1, <2>7, <2>8
  <1>5. ASSUME NEW l \in trades
        PROVE  held'[l] = "closed" /\ (Recorded(l) = done[l])'
    <2>1. held[l] = "closed" /\ Recorded(l) = done[l] /\ l # k /\ l \in Legs
      BY <1>1, <1>2 DEF TradesInv, TradesComplete
    <2>2. PICK before, after : before = Stored(l) /\ after = Stored(l)'
      OBVIOUS
    <2>3. \A i \in 1 .. n : after[i] = before[i]
      BY <1>3, <2>2 DEF Stored
    <2>4. after[n + 1] = 0
      BY <1>2, <1>3, <2>1, <2>2 DEF Stored
    <2>5. Total(after, n + 1) = Total(after, n) + after[n + 1] /\ Total(after, n) = Total(before, n)
      <3>1. Total(after, n) = Total(before, n)
        BY <1>3, <2>3, TotalSame
      <3> QED
        BY <1>3, <3>1, TotalSteps
    <2>6. Total(before, n) = done[l] /\ done'[l] = done[l] /\ done[l] \in Nat
      BY <1>1, <1>2, <2>1, <2>2 DEF Recorded, n
    <2>7. Total(after, n + 1) = done'[l]
      BY <2>4, <2>5, <2>6
    <2>8. PICK m : m = Len(log') /\ m = n + 1
      BY <1>3
    <2>9. (Recorded(l) = done[l])'
      BY <2>2, <2>7, <2>8 DEF Recorded
    <2> QED
      BY <1>2, <2>1, <2>9
  <1>6. \A l \in Legs : held'[l] = "closed" => l \notin live'
    BY <1>2 DEF TradesInv, SentInv
  <1>7. ASSUME NEW i \in DOMAIN log', log'[i].closes
        PROVE  /\ held'[log'[i].leg] = "closed" /\ log'[i].fill = 0
               /\ log'[i].report.filled = done'[log'[i].leg]
    <2>1. CASE i = n + 1
      BY <1>2, <1>3, <1>7, <2>1
    <2>2. CASE i # n + 1
      <3>1. i \in 1 .. n /\ log'[i] = log[i] /\ log[i].leg \in Legs
        BY <1>3, <2>2 DEF Entries
      <3>2. /\ held[log[i].leg] = "closed" /\ log[i].fill = 0
            /\ log[i].report.filled = done[log[i].leg]
        BY <1>3, <1>7, <3>1 DEF TradesInv, SentInv
      <3>3. log[i].leg # k
        BY <1>2, <3>2
      <3> QED
        BY <1>1, <1>2, <3>1, <3>2, <3>3
    <2> QED
      BY <2>1, <2>2
  <1>8. recovery'.deal # 0 => log'[recovery'.deal].fate = "missed"
    <2>1. recovery.deal # 0 => recovery.deal \in DOMAIN log /\ log[recovery.deal].fate = "missed"
      BY DEF Reads, TradesInv, SentInv
    <2> QED
      BY <1>3, <2>1
  <1>9. SentInv'
    BY <1>4, <1>6, <1>7, <1>8 DEF SentInv
  <1>10. TradesComplete'
    BY <1>5 DEF TradesComplete
  <1> QED
    BY <1>9, <1>10 DEF TradesInv

\* An execution that is dealt with changes neither the sums nor the trades there are; a new
\* trade is of a close whose volume the fills rows account for.
LEMMA FateTrades ==
  ASSUME LedgerInv, TradesInv, UNCHANGED broker,
         NEW i \in DOMAIN log, log[i].fate # "mapped", NEW fate \in Fates, Fate(i, fate),
         \A l \in trades' \ trades :
           l = log[i].leg /\ log[i].closes /\ Recorded(l) = log[i].report.filled,
         recovery'.deal # 0 => recovery' = recovery /\ recovery.deal # i
  PROVE  TradesInv'
  <1> USE DEF LedgerInv
  <1>1. log \in Seq(Entries) /\ done' = done /\ held' = held /\ live' = live
        /\ done \in [Legs -> Nat]
    BY DEF TypeOK, Entries, broker
  <1> DEFINE n == Len(log)
  <1>2. n \in Nat /\ DOMAIN log = 1 .. n /\ \A j \in DOMAIN log : log[j] \in Entries
    BY <1>1
  <1>3. /\ Len(log') = n /\ DOMAIN log' = 1 .. n
        /\ \A j \in 1 .. n : /\ log'[j].leg = log[j].leg /\ log'[j].fill = log[j].fill
                             /\ log'[j].report = log[j].report /\ log'[j].closes = log[j].closes
                             /\ j # i => log'[j] = log[j]
    <2>1. log' = [log EXCEPT ![i] = [@ EXCEPT !.fate = fate]]
      BY DEF Fate
    <2>2. [log[i] EXCEPT !.fate = fate] \in Entries
      BY <1>2 DEF Entries
    <2> QED
      BY <1>1, <1>2, <2>1, <2>2 DEF Entries
  <1> HIDE DEF n
  <1>4. ASSUME NEW l \in Legs
        PROVE  (Total(Sent(l), Len(log)) = done[l])'
    <2>1. Sent(l)' = Sent(l)
      BY <1>2, <1>3 DEF Sent
    <2>2. Total(Sent(l), n) = done[l]
      BY DEF TradesInv, SentInv, n
    <2>3. PICK sent, m : sent = Sent(l) /\ m = n
      OBVIOUS
    <2>4. sent = Sent(l)' /\ m = Len(log') /\ Total(sent, m) = done'[l]
      BY <1>1, <1>3, <2>1, <2>2, <2>3
    <2> QED
      BY <2>4
  <1>5. ASSUME NEW l \in Legs, Recorded(l) = done[l]
        PROVE  (Recorded(l) = done[l])'
    <2>1. log[i].leg = l => log[i].fill = 0
      BY <1>1, <1>5, StoredAll DEF TradesInv
    <2>2. Stored(l)' = Stored(l)
      BY <1>2, <1>3, <2>1 DEF Stored
    <2>3. PICK stored, m : stored = Stored(l) /\ m = n
      OBVIOUS
    <2>4. stored = Stored(l)' /\ m = Len(log') /\ Total(stored, m) = done'[l]
      BY <1>1, <1>3, <1>5, <2>2, <2>3 DEF Recorded, n
    <2> QED
      BY <2>4 DEF Recorded
  <1>6. ASSUME NEW l \in trades'
        PROVE  held'[l] = "closed" /\ (Recorded(l) = done[l])'
    <2>1. l \in Legs /\ held[l] = "closed" /\ Recorded(l) = done[l]
      <3>1. CASE l \in trades
        BY <3>1 DEF TypeOK, TradesInv, TradesComplete
      <3>2. CASE l \notin trades
        <4>1. l = log[i].leg /\ log[i].closes /\ Recorded(l) = log[i].report.filled
          BY <1>6, <3>2
        <4> QED
          BY <1>2, <4>1 DEF Entries, TradesInv, SentInv
      <3> QED
        BY <3>1, <3>2
    <2> QED
      BY <1>1, <1>5, <2>1
  <1>7. recovery'.deal # 0 => log'[recovery'.deal].fate = "missed"
    <2>1. recovery.deal # 0 => recovery.deal \in DOMAIN log /\ log[recovery.deal].fate = "missed"
      BY DEF Reads, TradesInv, SentInv
    <2> QED
      BY <1>2, <1>3, <2>1
  <1>8. \A j \in DOMAIN log' :
          log'[j].closes => /\ held'[log'[j].leg] = "closed" /\ log'[j].fill = 0
                            /\ log'[j].report.filled = done'[log'[j].leg]
    BY <1>1, <1>2, <1>3 DEF TradesInv, SentInv
  <1>9. \A l \in Legs : held'[l] = "closed" => l \notin live'
    BY <1>1 DEF TradesInv, SentInv
  <1>10. SentInv'
    BY <1>4, <1>7, <1>8, <1>9 DEF SentInv
  <1>11. TradesComplete'
    BY <1>6 DEF TradesComplete
  <1> QED
    BY <1>10, <1>11 DEF TradesInv

\* A step that neither executes nor stores leaves it all.
LEMMA QuietTrades ==
  ASSUME LedgerInv, TradesInv, UNCHANGED <<broker, log, trades>>,
         \/ recovery' = recovery
         \/ recovery'.deal \in DOMAIN log /\ log[recovery'.deal].fate = "missed"
  PROVE  TradesInv'
  <1>1. done' = done /\ held' = held /\ live' = live /\ log' = log /\ trades' = trades
    BY DEF broker
  <1>2. trades \subseteq Legs
    BY DEF LedgerInv, TypeOK
  <1>3. recovery'.deal # 0 => log'[recovery'.deal].fate = "missed"
    BY DEF TradesInv, SentInv
  <1>4. ASSUME NEW l \in Legs
        PROVE  /\ (Total(Sent(l), Len(log)) = done[l])'
               /\ Recorded(l) = done[l] => (Recorded(l) = done[l])'
    <2>1. PICK sent, stored, m : sent = Sent(l) /\ stored = Stored(l) /\ m = Len(log)
      OBVIOUS
    <2>2. Sent(l)' = sent /\ Stored(l)' = stored /\ Len(log') = m
      BY <1>1, <2>1 DEF Sent, Stored
    <2>3. Total(sent, m) = done'[l]
      BY <1>1, <2>1 DEF TradesInv, SentInv
    <2>4. Recorded(l) = done[l] => Total(stored, m) = done'[l]
      BY <1>1, <2>1 DEF Recorded
    <2> QED
      BY <2>2, <2>3, <2>4 DEF Recorded
  <1>5. SentInv'
    BY <1>1, <1>3, <1>4 DEF TradesInv, SentInv
  <1>6. TradesComplete'
    BY <1>1, <1>2, <1>4 DEF TradesInv, TradesComplete
  <1> QED
    BY <1>5, <1>6 DEF TradesInv

LEMMA MaintenanceTrades ==
  ASSUME LedgerAssumption, LedgerInv, TradesInv, NEW w \in Workers, Maintains(w)
  PROVE  TradesInv'
  <1>1. UNCHANGED <<trades, recovery>>
    BY DEF Maintains, Selects, Marks, Cancels, CancelFails, Reconciles, WritesRow, WritesGroup, journal
  <1>2. CASE Cancels(w) /\ work[w].leg \in live
    <2>1. PICK l : l = work[w].leg /\ l \in live
      BY <1>2
    <2>2. Stops(l, "CANCELLED") /\ l \in Legs
      BY <1>2, <2>1 DEF Cancels, LedgerInv, TypeOK
    <2>3. Steps(l)
      BY <2>2 DEF Steps
    <2> QED
      BY <1>1, <2>2, <2>3, BrokerTrades
  <1>3. CASE ~(Cancels(w) /\ work[w].leg \in live)
    <2>1. UNCHANGED <<broker, log>>
      <3>1. CASE Cancels(w)
        BY <1>3, <3>1 DEF Cancels, Stops, Sends, broker
      <3>2. CASE ~Cancels(w)
        BY <3>2 DEF Maintains, Selects, Marks, CancelFails, Reconciles, WritesRow, WritesGroup
      <3> QED
        BY <3>1, <3>2
    <2> QED
      BY <1>1, <2>1, QuietTrades
  <1> QED
    BY <1>2, <1>3

LEMMA RecordsTrades ==
  ASSUME LedgerInv, TradesInv, Records
  PROVE  TradesInv'
  <1>1. UNCHANGED broker /\ recovery' = recovery
    BY DEF Records
  <1>2. PICK i \in Queued : Persists(i) \/ (Fate(i, "missed") /\ UNCHANGED journal)
    BY DEF Records
  <1>3. i \in DOMAIN log /\ log[i].fate = "queued"
    BY DEF Queued
  <1>4. recovery'.deal # 0 => recovery' = recovery /\ recovery.deal # i
    BY <1>1, <1>3 DEF TradesInv, SentInv
  <1>5. PICK fate \in Fates : Fate(i, fate)
    BY <1>2 DEF Persists, StoresOrder, StoresClose, StoresStray, Fates
  <1>6. \A l \in trades' \ trades :
          l = log[i].leg /\ log[i].closes /\ Recorded(l) = log[i].report.filled
    BY <1>2 DEF Persists, StoresOrder, StoresClose, StoresStray, ClosesRecorded, journal
  <1> QED
    BY <1>1, <1>3, <1>4, <1>5, <1>6, FateTrades

LEMMA RecoversTrades ==
  ASSUME LedgerInv, TradesInv, Recovers
  PROVE  TradesInv'
  <1>1. CASE RecoveryReads
    <2>1. UNCHANGED <<broker, log, trades>>
      BY <1>1 DEF RecoveryReads, journal
    <2>2. PICK i \in DOMAIN log : log[i].fate = "missed" /\ recovery'.deal = i
      BY <1>1 DEF RecoveryReads
    <2> QED
      BY <2>1, <2>2, QuietTrades
  <1>2. CASE RecoveryWrites
    <2>1. PICK i : i = recovery.deal
      OBVIOUS
    <2>2. /\ i \in DOMAIN log /\ log[i].fate = "missed" /\ \E fate \in Fates : Fate(i, fate)
          /\ trades' = trades /\ UNCHANGED broker /\ recovery'.deal = 0
      BY <1>2, <2>1
      DEF RecoveryWrites, StoresOrder, LedgerInv, Reads, TradesInv, SentInv, NoRecovery, Fates
    <2> QED
      BY <2>2, FateTrades
  <1>3. CASE RecoversClose
    <2>1. PICK i \in DOMAIN log : log[i].fate = "missed" /\ StoresClose(i)
      BY <1>3 DEF RecoversClose
    <2>2. UNCHANGED broker /\ recovery'.deal = 0 /\ Fate(i, "mapped")
      BY <1>3, <2>1 DEF RecoversClose, StoresClose
    <2>3. \A l \in trades' \ trades :
            l = log[i].leg /\ log[i].closes /\ Recorded(l) = log[i].report.filled
      BY <2>1 DEF StoresClose, ClosesRecorded
    <2> QED
      BY <2>1, <2>2, <2>3, FateTrades DEF Fates
  <1> QED
    BY <1>1, <1>2, <1>3 DEF Recovers

LEMMA TradesLemma ==
  ASSUME LedgerAssumption, LedgerInv, TradesInv, [Next]_vars
  PROVE  TradesInv'
  <1>1. CASE BrokerMoves
    <2>1. PICK l \in Legs :
            \/ \E volume \in 1 .. Volume[l] : Fills(l, volume)
            \/ \E end \in Ends : Stops(l, end)
            \/ Closes(l)
      BY <1>1 DEF BrokerMoves
    <2>2. Steps(l)
      BY <2>1 DEF Steps, LedgerAssumption
    <2>3. UNCHANGED <<trades, recovery>>
      BY <1>1 DEF BrokerMoves, journal
    <2> QED
      BY <2>2, <2>3, BrokerTrades
  <1>2. CASE PlacementWrites \/ SafetyWrites
    <2>1. UNCHANGED <<broker, log, trades>> /\ recovery' = recovery
      BY <1>2 DEF PlacementWrites, SafetyWrites, journal
    <2> QED
      BY <2>1, QuietTrades
  <1>3. CASE UNCHANGED vars
    <2>1. UNCHANGED <<broker, log, trades>> /\ recovery' = recovery
      BY <1>3 DEF vars, journal
    <2> QED
      BY <2>1, QuietTrades
  <1> QED
    BY <1>1, <1>2, <1>3, RecordsTrades, RecoversTrades, MaintenanceTrades DEF Next

\* A trade stands for the whole of its position: what the journal recorded when it wrote the
\* trade is all that was filled, and nothing stored later adds to it.
THEOREM TradesAccount == Spec => []TradesComplete
  <1>1. Init => TradesInv
    <2> SUFFICES ASSUME Init
                 PROVE  TradesInv
      OBVIOUS
    <2>1. log = <<>> /\ trades = {} /\ done = [l \in Legs |-> 0] /\ held = [l \in Legs |-> "none"]
          /\ recovery.deal = 0
      BY DEF Init, NoRecovery
    <2>2. \A l \in Legs : Total(Sent(l), Len(log)) = done[l]
      <3>1. Len(log) = 0
        BY <2>1
      <3>2. \A l \in Legs : Total(Sent(l), 0) = 0
        BY TotalSteps
      <3> QED
        BY <2>1, <3>1, <3>2
    <2>3. DOMAIN log = {}
      BY <2>1
    <2> QED
      BY <2>1, <2>2, <2>3 DEF TradesInv, SentInv, TradesComplete
  <1>2. LedgerInv /\ TradesInv /\ [Next]_vars => TradesInv'
    BY TradesLemma, LedgerAssumption
  <1>3. TradesInv => TradesComplete
    BY DEF TradesInv
  <1> QED
    BY <1>1, <1>2, <1>3, Invariance, PTL DEF Spec

===============================================================================

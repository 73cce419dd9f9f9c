------------------------------ MODULE RiskProofs ------------------------------
(***************************************************************************)
(* Proofs about LossLimits and SetupRisk, for any number of overlapping    *)
(* calls, days and readings, whatever the account is worth, whatever is    *)
(* paid, and whatever the costs, stops, rates and volumes are.             *)
(*                                                                         *)
(* The binary search of sizePosition is a recursive function. What it      *)
(* finds is proved by its least counterexample: of the ranges it would     *)
(* search wrongly, one is shortest, and its halves are shorter.            *)
(***************************************************************************)
EXTENDS SetupRisk, TLAPS, WellFoundedInduction

Multipliers == {0, 1, 2, 4}
DailyRows == [known : BOOLEAN, baseline : Int, locked : BOOLEAN]
CapitalRows == [known : BOOLEAN, paid : Int, high : Int, multiplier : Multipliers,
                locked : BOOLEAN, read : Nat]
Calls == [at : {"idle", "account", "flows", "daily", "capital", "admission"}, equity : Int,
          paid : Int, read : Nat, day : Int, flows : Int, baseline : Int, locked : BOOLEAN,
          referred : BOOLEAN, multiplier : Multipliers]

LossTypeOK ==
  /\ enforced \in BOOLEAN /\ paid \in Int /\ opening \in Int /\ today \in 1 .. MaxDays
  /\ readings \in Nat /\ cached \in [day : Int, flows : Int]
  /\ daily \in [1 .. MaxDays -> DailyRows] /\ capital \in CapitalRows
  /\ audit \in [Accountants -> Calls] /\ capacity \in [multiplier : Multipliers, cap : Int]

\* A call past the account carries a day that began, and past the row a baseline.
Dated ==
  \A c \in Accountants : audit[c].at \in {"flows", "daily", "capital", "admission"}
                           => audit[c].day \in 1 .. MaxDays

\* A day that is locked has a row.
Known == \A d \in 1 .. MaxDays : daily[d].locked => daily[d].known

\* A locked account has no multiplier.
LockedHasNone == capital.locked => capital.multiplier = 0

LossInv == LossTypeOK /\ Dated /\ Known /\ LockedHasNone

LEMMA LossInitial == LossInit => LossInv
  BY LossAssumption DEF LossInit, LossInv, LossTypeOK, Dated, Known, LockedHasNone, Multipliers,
     DailyRows, CapitalRows, Calls, Unstored, Unreferenced, Unread, NoCapacity

\* The multiplier of a setup is one of the four, and none once the account is locked.
LEMMA CapitalTyped ==
  ASSUME LossInv, NEW c \in Accountants
  PROVE  /\ CapitalAfter(c) \in CapitalRows
         /\ CapitalAfter(c).locked => CapitalAfter(c).multiplier = 0
<1>1. capital \in CapitalRows /\ audit[c] \in Calls
  BY DEF LossInv, LossTypeOK
<1>2. Adjusted(c) \in Int
  BY <1>1 DEF Adjusted, CapitalRows, Calls
<1> DEFINE high == IF capital.known THEN Greater(capital.high, Adjusted(c)) ELSE Adjusted(c)
           fall == high - Adjusted(c)
           locked == (capital.known /\ capital.locked) \/ Reaches(fall, high, DrawdownLimit)
           lifted == LiftsReduction(c, fall, high)
<1>3. high \in Int /\ locked \in BOOLEAN
  BY <1>1, <1>2 DEF Greater, CapitalRows, Reaches
<1>4. Reduced(c, fall, high) \in Multipliers /\ capital.multiplier \in Multipliers
  BY <1>1 DEF Reduced, Multipliers, CapitalRows
<1>5. Lesser(Reduced(c, fall, high), capital.multiplier) \in Multipliers
  BY <1>4 DEF Lesser
<1> DEFINE multiplier == IF locked THEN 0 ELSE IF capital.known /\ ~lifted
                         THEN Lesser(Reduced(c, fall, high), capital.multiplier)
                         ELSE Reduced(c, fall, high)
<1>6. multiplier \in Multipliers /\ (locked => multiplier = 0)
  <2> HIDE DEF locked, lifted, high, fall
  <2> QED BY <1>4, <1>5 DEF Multipliers
<1>7. CapitalAfter(c) = [known |-> TRUE, paid |-> IF capital.known THEN capital.paid ELSE audit[c].paid,
                         high |-> high, locked |-> locked, read |-> audit[c].read,
                         multiplier |-> multiplier]
  BY DEF CapitalAfter
<1> HIDE DEF locked, high, multiplier
<1> QED BY <1>1, <1>3, <1>6, <1>7 DEF CapitalRows, Calls

\* Every step keeps it, one action at a time.
LEMMA LossStep == LossInv /\ [LossNext]_lossVars => LossInv'
<1> SUFFICES ASSUME LossInv, [LossNext]_lossVars PROVE LossInv'
  OBVIOUS
<1> USE DEF LossInv, LossTypeOK, Dated, Known, LockedHasNone
<1>0. ASSUME NEW c \in Accountants, NEW r \in Calls, audit' = [audit EXCEPT ![c] = r],
             r.at \in {"flows", "daily", "capital", "admission"} => r.day \in 1 .. MaxDays
      PROVE  audit' \in [Accountants -> Calls] /\ Dated'
  BY <1>0
<1> Unread \in Calls /\ Unread.at = "idle"
  BY DEF Unread, Calls, Multipliers
<1>1. ASSUME NEW c \in Accountants, ReadsAccount(c) PROVE LossInv'
  <2>1. PICK result \in Int :
          audit' = [audit EXCEPT ![c] = [Unread EXCEPT !.at = "account", !.equity = result + paid,
                                                  !.paid = paid, !.read = readings']]
    BY <1>1, LossAssumption DEF ReadsAccount
  <2> DEFINE r == [Unread EXCEPT !.at = "account", !.equity = result + paid, !.paid = paid,
                                 !.read = readings']
  <2>2. r \in Calls /\ r.at = "account" /\ readings' \in Nat
    <3>1. result + paid \in Int /\ readings' \in Nat
      BY <1>1 DEF ReadsAccount
    <3>2. QED BY <3>1 DEF Unread, Calls, Multipliers
  <2> HIDE DEF r
  <2>3. audit' \in [Accountants -> Calls] /\ Dated'
    BY <1>0, <2>1, <2>2 DEF r
  <2>4. QED BY <1>1, <2>2, <2>3 DEF ReadsAccount, account, tables
<1>2. ASSUME NEW c \in Accountants, ReadsFlows(c) PROVE LossInv'
  <2>1. PICK flows \in {paid - opening} \cup {cached.flows : d \in {cached.day} \cap {today}} :
           /\ cached' = [day |-> today, flows |-> flows]
           /\ audit' = [audit EXCEPT ![c] = [@ EXCEPT !.at = "flows", !.day = today, !.flows = flows]]
    BY <1>2 DEF ReadsFlows
  <2>2. flows = paid - opening \/ flows = cached.flows
    BY <2>1
  <2>3. flows \in Int
    BY <2>2
  <2> DEFINE r == [audit[c] EXCEPT !.at = "flows", !.day = today, !.flows = flows]
  <2>4. r \in Calls /\ r.day \in 1 .. MaxDays
    <3>1. r.at = "flows" /\ r.day = today /\ today \in 1 .. MaxDays /\ today \in Int
      BY LossAssumption DEF Calls
    <3>2. r \in Calls
      BY <2>3, <3>1 DEF Calls
    <3>3. QED BY <3>1, <3>2
  <2>5. audit' = [audit EXCEPT ![c] = r] /\ cached' \in [day : Int, flows : Int]
    BY <2>1, <2>3
  <2> HIDE DEF r
  <2>6. audit' \in [Accountants -> Calls] /\ Dated'
    BY <1>0, <2>4, <2>5
  <2>7. QED BY <1>2, <2>5, <2>6 DEF ReadsFlows, account, tables
<1>3. ASSUME NEW c \in Accountants, ReadsRow(c) PROVE LossInv'
  <2> DEFINE row == daily[audit[c].day]
             baseline == IF row.known THEN row.baseline ELSE audit[c].equity - audit[c].flows
             r == [audit[c] EXCEPT !.at = "daily", !.baseline = baseline, !.locked = row.locked]
  <2>1. audit[c].day \in 1 .. MaxDays /\ audit[c] \in Calls
    BY <1>3 DEF ReadsRow
  <2>2. row \in DailyRows
    BY <2>1
  <2>3. baseline \in Int /\ row.locked \in BOOLEAN
    BY <2>1, <2>2 DEF DailyRows, Calls
  <2>4. audit' = [audit EXCEPT ![c] = r]
    BY <1>3 DEF ReadsRow
  <2>5. r \in Calls /\ r.day \in 1 .. MaxDays
    <3> HIDE DEF row, baseline
    <3> QED BY <2>1, <2>3 DEF Calls
  <2> HIDE DEF row, baseline, r
  <2>6. audit' \in [Accountants -> Calls] /\ Dated'
    BY <1>0, <2>4, <2>5
  <2>7. QED BY <1>3, <2>6 DEF ReadsRow, account, tables
<1>4. ASSUME NEW c \in Accountants, WritesDaily(c) PROVE LossInv'
  <2>1. audit[c].day \in 1 .. MaxDays /\ audit[c] \in Calls
    BY <1>4 DEF WritesDaily
  <2>2. daily[audit[c].day] \in DailyRows
    BY <2>1
  <2>3. LockFound(c) \in BOOLEAN /\ LockReturned(c) \in BOOLEAN
    BY <2>1, <2>2 DEF LockFound, LockReturned, LossReaches, Reaches, Calls, DailyRows
  <2> DEFINE stored == [known |-> TRUE,
                        baseline |-> IF daily[audit[c].day].known THEN daily[audit[c].day].baseline
                                     ELSE audit[c].baseline,
                        locked |-> daily[audit[c].day].locked \/ LockFound(c)]
             r == [audit[c] EXCEPT !.at = "capital", !.locked = LockReturned(c),
                                  !.referred = capital.known]
  <2>4. stored \in DailyRows
    BY <2>1, <2>2, <2>3 DEF DailyRows, Calls
  <2>5. daily' = [daily EXCEPT ![audit[c].day] = stored] /\ audit' = [audit EXCEPT ![c] = r]
    BY <1>4 DEF WritesDaily
  <2>6. capital.known \in BOOLEAN
    BY DEF CapitalRows
  <2>7. r \in Calls /\ r.day \in 1 .. MaxDays
    BY <2>1, <2>3, <2>6 DEF Calls
  <2> HIDE DEF stored, r
  <2>8. audit' \in [Accountants -> Calls] /\ Dated'
    BY <1>0, <2>5, <2>7
  <2>9. daily' \in [1 .. MaxDays -> DailyRows]
    BY <2>4, <2>5
  <2>10. QED BY <1>4, <2>8, <2>9 DEF WritesDaily, account
<1>5. ASSUME NEW c \in Accountants, WritesCapital(c) PROVE LossInv'
  <2>1. capital' \in CapitalRows /\ LockedHasNone'
    BY <1>5, CapitalTyped DEF WritesCapital
  <2> DEFINE r == [audit[c] EXCEPT !.at = "admission", !.multiplier = capital'.multiplier]
  <2>2. capital'.multiplier \in Multipliers /\ audit[c] \in Calls
    BY <2>1 DEF CapitalRows
  <2>3. audit' = [audit EXCEPT ![c] = r] /\ audit[c].day \in 1 .. MaxDays
    BY <1>5 DEF WritesCapital
  <2>4. r \in Calls /\ r.day \in 1 .. MaxDays
    BY <2>2, <2>3 DEF Calls
  <2> HIDE DEF r
  <2>5. audit' \in [Accountants -> Calls] /\ Dated'
    BY <1>0, <2>3, <2>4
  <2>6. QED BY <1>5, <2>1, <2>5 DEF WritesCapital, account
<1>6. ASSUME NEW c \in Accountants, Admits(c) PROVE LossInv'
  <2>1. audit[c] \in Calls
    OBVIOUS
  <2>2. Remaining(c) \in Int
    <3>1. Loss(audit[c].baseline, audit[c].flows, audit[c].equity) \in Int /\ audit[c].baseline \in Int
      BY <2>1 DEF Loss, Positive, Calls
    <3> HIDE DEF LossInv
    <3>2. \A x, y \in Int : Positive(DailyLimit * x - 10000 * y) \in Int
      BY DEF Positive, DailyLimit
    <3>3. \A z \in Int : z \div 100 \in Int
      OBVIOUS
    <3>4. Positive(DailyLimit * audit[c].baseline
                - 10000 * Loss(audit[c].baseline, audit[c].flows, audit[c].equity)) \div 100 \in Int
      BY <3>1, <3>2, <3>3
    <3>5. QED BY <3>4 DEF Remaining
  <2>3. Available(c) \in Int /\ DemoCap \in Int
    <3>1. 100 * Remaining(c) \in Int /\ audit[c].equity \in Int /\ audit[c].equity > 0
      BY <1>6, <2>1, <2>2 DEF Admits, Calls
    <3> HIDE DEF LossInv
    <3>2. \A x, y \in Int : y > 0 => x \div y \in Int
      OBVIOUS
    <3>3. (100 * Remaining(c)) \div audit[c].equity \in Int
      BY <3>1, <3>2
    <3>4. QED BY <3>3 DEF Available, Lesser, DemoCap
  <2>4. capacity' \in [multiplier : Multipliers, cap : Int]
    <3>1. 4 \in Multipliers /\ audit[c].multiplier \in Multipliers
      BY <2>1 DEF Multipliers, Calls
    <3>2. QED BY <1>6, <2>3, <3>1 DEF Admits
  <2>5. audit' \in [Accountants -> Calls] /\ Dated'
    BY <1>0, <1>6 DEF Admits
  <2>6. QED BY <1>6, <2>4, <2>5 DEF Admits, account, tables
<1>7. ASSUME NEW c \in Accountants, FailsAccounting(c) PROVE LossInv'
  <2>1. audit' \in [Accountants -> Calls] /\ Dated'
    BY <1>0, <1>7 DEF FailsAccounting
  <2>2. QED BY <1>7, <2>1 DEF FailsAccounting, NoCapacity, Multipliers, account, tables
<1>8. CASE Pays
  BY <1>8, LossAssumption DEF Pays, tables
<1>9. CASE DayEnds
  BY <1>9, LossAssumption DEF DayEnds, tables
<1>10. CASE InitializesBaseline
  <2>1. PICK result \in Int : daily' = [daily EXCEPT ![today] = InitialRow(result)]
    BY <1>10, LossAssumption DEF InitializesBaseline
  <2>2. InitialRow(result) \in DailyRows
    BY DEF InitialRow, DailyRows
  <2>3. daily' \in [1 .. MaxDays -> DailyRows]
    BY <2>1, <2>2
  <2>4. Known' /\ LockedHasNone'
    BY <1>0, <1>10, <2>1 DEF InitializesBaseline, InitialRow
  <2>5. QED BY <1>10, <2>3, <2>4 DEF InitializesBaseline, account
<1>11. CASE ProcessRestarts
  BY <1>11 DEF ProcessRestarts, Unread, NoCapacity, Calls, Multipliers, account, tables
<1>12. CASE UNCHANGED lossVars
  BY <1>12 DEF lossVars, account, tables
<1>13. QED
  BY <1>1, <1>2, <1>3, <1>4, <1>5, <1>6, <1>7, <1>8, <1>9, <1>10, <1>11, <1>12 DEF LossNext, LossMoves

\* Whatever calls of safety() overlap, the rows of both stores and what each call has read of
\* them stay well formed.
THEOREM LossInvariant == LossSpec => []LossInv
<1>1. LossInit => LossInv
  BY LossInitial
<1>2. LossInv /\ [LossNext]_lossVars => LossInv'
  BY LossStep
<1>3. QED BY <1>1, <1>2, PTL DEF LossSpec

-----------------------------------------------------------------------------
(* The lock of the day.                                                    *)

\* A day that is locked stays so.
LEMMA LockStays ==
  ASSUME LossInv, LossNext, NEW d \in 1 .. MaxDays, daily[d].locked
  PROVE  daily'[d].locked
<1>1. daily \in [1 .. MaxDays -> DailyRows]
  BY DEF LossInv, LossTypeOK
<1>2. ASSUME NEW c \in Accountants, WritesDaily(c) PROVE daily'[d].locked
  BY <1>1, <1>2 DEF WritesDaily
<1>3. ASSUME InitializesBaseline PROVE daily'[d].locked
  <2>1. PICK result \in Results : daily' = [daily EXCEPT ![today] = InitialRow(result)]
    BY <1>3 DEF InitializesBaseline
  <2>2. d # today
    BY <1>3 DEF InitializesBaseline, LossInv, Known
  <2>3. QED BY <1>1, <2>1, <2>2
<1>4. CASE daily' = daily
  BY <1>4
<1>5. QED
  BY <1>2, <1>3, <1>4 DEF LossNext, LossMoves, ReadsAccount, ReadsFlows, ReadsRow, WritesCapital, Admits,
     FailsAccounting, Pays, DayEnds, ProcessRestarts, tables

\* Whoever writes a locked day answers that it is locked.
LEMMA LockAnswered ==
  ASSUME LossInv, LossNext, NEW c \in Accountants,
         audit[c].at = "daily", audit'[c].at = "capital", daily[audit[c].day].locked
  PROVE  Remaining(c)' = 0
<1>1. audit \in [Accountants -> Calls] /\ audit'[c] # audit[c]
  BY DEF LossInv, LossTypeOK
<1>2. PICK e \in Accountants : WritesDaily(e)
  <2>1. ASSUME NEW e \in Accountants, ReadsAccount(e) \/ ReadsFlows(e) \/ ReadsRow(e)
        PROVE  FALSE
    BY <1>1, <2>1 DEF ReadsAccount, ReadsFlows, ReadsRow, Unread, Calls
  <2>2. ASSUME NEW e \in Accountants, WritesCapital(e) \/ Admits(e) \/ FailsAccounting(e)
        PROVE  FALSE
    BY <1>1, <2>2 DEF WritesCapital, Admits, FailsAccounting, Unread, Calls
  <2>3. ~ProcessRestarts /\ ~Pays /\ ~DayEnds /\ ~InitializesBaseline
    BY <1>1 DEF ProcessRestarts, Pays, DayEnds, InitializesBaseline, Unread
  <2>4. QED BY <2>1, <2>2, <2>3 DEF LossNext, LossMoves
<1>3. e = c
  BY <1>1, <1>2 DEF WritesDaily
<1>4. audit'[c].locked = LockReturned(c)
  BY <1>1, <1>2, <1>3 DEF WritesDaily, Calls
<1>5. audit'[c].locked
  BY <1>4 DEF LockReturned
<1>6. Remaining(c)' = IF audit'[c].locked THEN 0
                      ELSE (Positive(DailyLimit * audit[c].baseline
                - 10000 * Loss(audit[c].baseline, audit[c].flows, audit[c].equity)) \div 100)'
  BY DEF Remaining
<1>7. QED BY <1>5, <1>6

\* The lock of a day outlives every overlapping reconciler, and each answers by it
\* (daily-risk-store.ts:256, 285).
THEOREM DailyLocked == LossSpec => DailyLockHolds
<1>1. LossInv /\ [LossNext]_lossVars =>
        [/\ \A d \in 1 .. MaxDays : daily[d].locked => daily'[d].locked
         /\ \A c \in Accountants :
              audit[c].at = "daily" /\ audit'[c].at = "capital" /\ daily[audit[c].day].locked
                => Remaining(c)' = 0]_lossVars
  BY LockStays, LockAnswered
<1>2. QED BY <1>1, LossInvariant, PTL DEF LossSpec, DailyLockHolds

-----------------------------------------------------------------------------
(* The high water and the multiplier.                                      *)

\* A write keeps the reference and the lock, and raises the high water or keeps it.
LEMMA WriteRatchets ==
  ASSUME LossInv, NEW c \in Accountants, WritesCapital(c), capital.known
  PROVE  /\ capital'.known /\ capital'.paid = capital.paid
         /\ capital'.read >= capital.read /\ capital'.high >= capital.high
         /\ capital.locked => capital'.locked /\ capital'.multiplier = 0
         /\ capital'.multiplier > capital.multiplier =>
              LiftsReduction(c, capital'.high - Adjusted(c), capital'.high)
<1>1. capital \in CapitalRows /\ audit[c] \in Calls
  BY DEF LossInv, LossTypeOK
<1>2. capital' = CapitalAfter(c) /\ audit[c].read >= capital.read
  BY <1>1 DEF WritesCapital, Regressed, CapitalRows, Calls
<1>3. Adjusted(c) \in Int
  BY <1>1 DEF Adjusted, CapitalRows, Calls
<1> DEFINE high == Greater(capital.high, Adjusted(c))
           fall == high - Adjusted(c)
           reduced == Reduced(c, fall, high)
           locked == capital.locked \/ Reaches(fall, high, DrawdownLimit)
           lifted == LiftsReduction(c, fall, high)
<1>4. capital'.known /\ capital'.paid = capital.paid /\ capital'.read = audit[c].read
      /\ capital'.high = high /\ capital'.locked = locked
      /\ capital'.multiplier = IF locked THEN 0 ELSE IF ~lifted THEN Lesser(reduced, capital.multiplier)
                              ELSE reduced
  BY <1>2 DEF CapitalAfter
<1>5. high >= capital.high
  BY <1>1, <1>3 DEF Greater, CapitalRows
<1>6. reduced \in Nat /\ capital.multiplier \in Nat
  BY <1>1 DEF Reduced, CapitalRows, Multipliers
<1>7. capital'.multiplier > capital.multiplier => lifted
  <2> HIDE DEF reduced, locked, lifted
  <2> QED BY <1>4, <1>6 DEF Lesser
<1>8. QED BY <1>2, <1>4, <1>5, <1>7

\* CapitalRiskStore never forgets: neither the high water, the reduction nor the lock
\* (capital.ts:89, 110).
THEOREM CapitalRatcheted == LossSpec => CapitalRatchets
<1> DEFINE Ratchets ==
      capital.known =>
       /\ capital'.known /\ capital'.paid = capital.paid
       /\ capital'.read >= capital.read /\ capital'.high >= capital.high
       /\ capital.locked => capital'.locked /\ capital'.multiplier = 0
       /\ capital'.multiplier > capital.multiplier =>
            \E c \in Accountants :
              /\ audit[c].read = capital'.read /\ ~LossReaches(c, 125)
              /\ ~Reaches(capital'.high - Adjusted(c), capital'.high, 100)
<1>1. ASSUME LossInv, NEW c \in Accountants, WritesCapital(c) PROVE Ratchets
  BY <1>1, WriteRatchets DEF LiftsReduction, WritesCapital, CapitalAfter
<1>2. ASSUME LossInv, capital' = capital PROVE Ratchets
  BY <1>2 DEF LossInv, LossTypeOK, LockedHasNone, CapitalRows, Multipliers
<1>3. LossInv /\ [LossNext]_lossVars => [Ratchets]_lossVars
  <2> HIDE DEF Ratchets
  <2> QED
    BY <1>1, <1>2 DEF LossNext, LossMoves, ReadsAccount, ReadsFlows, ReadsRow, WritesDaily, Admits,
       FailsAccounting, Pays, DayEnds, InitializesBaseline, ProcessRestarts, tables
<1>4. QED BY <1>3, LossInvariant, PTL DEF LossSpec, CapitalRatchets

-----------------------------------------------------------------------------
(* The runs of the coordinator beside the accounting.                      *)

\* Sizing a setup moves nothing of the accounting; asking for safety() is one of its calls.
THEOREM SetupsKeepAccounting == RiskSpec => LossSpec
<1>1. [RiskNext]_riskVars => [LossNext]_lossVars
  BY DEF RiskNext, riskVars, Sizes, AsksSafety, LossNext, LossMoves
<1>2. QED BY <1>1, PTL DEF RiskSpec, LossSpec

Evaluated == {"minimum", "exact", "refused", "sized", "asked", "checked", "placed"}

Fields == {"at", "legs", "equity", "used", "stop", "rate", "volume", "margin", "sized", "reported",
           "attempt", "auditor"}

\* What a single order reports is what it was sized with.
PercentKept ==
  /\ DOMAIN setup = Fields
  /\ setup.at \in Evaluated /\ ~IsPair(setup) => setup.reported = setup.sized

LEMMA NoSetupFields == DOMAIN NoSetup = Fields /\ NoSetup.at = "idle"
  BY DEF NoSetup, Fields

LEMMA PercentKeptAtFirst == SetupInit => PercentKept
  BY NoSetupFields DEF SetupInit, PercentKept, Evaluated

LEMMA PercentKeptByStep == PercentKept /\ [RiskNext]_riskVars => PercentKept'
<1> SUFFICES ASSUME PercentKept, [RiskNext]_riskVars PROVE PercentKept'
  OBVIOUS
<1> USE DEF PercentKept, Evaluated, IsPair, Fields
<1>1. CASE setup' = NoSetup
  BY <1>1, NoSetupFields
<1>2. CASE Constrains
  <2>1. PICK result, used, stop :
          setup' = [NoSetup EXCEPT !.at = "constrained", !.equity = result + paid, !.used = used,
                                   !.stop = stop]
    BY <1>2 DEF Constrains
  <2>2. DOMAIN setup' = Fields /\ setup'.at = "constrained"
    BY <2>1, NoSetupFields
  <2>3. QED BY <2>2
<1>3. ASSUME NEW side \in Sides, EvaluatesSingle(side) PROVE PercentKept'
  BY <1>3 DEF EvaluatesSingle
<1>4. CASE EvaluatesPair
  BY <1>4 DEF EvaluatesPair
<1>5. ASSUME NEW s, DOMAIN s = Fields, ~IsPair(s) => s.reported = s.sized, setup' = WithVolumes(s)
      PROVE  PercentKept'
  BY <1>5 DEF WithVolumes
<1>6. CASE MinimumAnswers
  <2>1. PICK rate : LET asked == [setup EXCEPT !.rate = rate]
                    IN IF IsPair(setup)
                       THEN setup' = WithVolumes([asked EXCEPT !.sized = EffectiveRisk])
                       ELSE setup' = WithVolumes(asked)
    BY <1>6 DEF MinimumAnswers
  <2>2. QED BY <1>5, <1>6, <2>1 DEF MinimumAnswers
<1>7. CASE Confirms
  <2>1. PICK margin : LET known == [setup EXCEPT !.margin = margin]
                      IN \/ setup' = [known EXCEPT !.at = "sized", !.reported = ReportedBy(setup)]
                         \/ setup' = WithVolumes([known EXCEPT !.attempt = @ + 1,
                                                              !.rate = Raised(setup, margin)])
    BY <1>7 DEF Confirms
  <2>2. QED BY <1>5, <1>7, <2>1 DEF Confirms, ReportedBy
<1>8. ASSUME NEW c \in Accountants, AsksSafety(c) PROVE PercentKept'
  BY <1>8 DEF AsksSafety
<1>9. CASE Rechecks \/ Places
  BY <1>9 DEF Rechecks, Places
<1>10. CASE setup' = setup
  BY <1>10
<1>11. QED
  BY <1>1, <1>2, <1>3, <1>4, <1>6, <1>7, <1>8, <1>9, <1>10
  DEF RiskNext, Sizes, Rejects, riskVars

\* The one step that places.
LEMMA OnlyPlaces == PercentKept /\ RiskNext /\ Placed => Places
<1> SUFFICES ASSUME PercentKept, RiskNext, Placed PROVE Places
  OBVIOUS
<1> USE DEF PercentKept, Placed, Fields
<1>1. ASSUME setup' = NoSetup PROVE FALSE
  BY <1>1, NoSetupFields
<1>2. ASSUME Constrains PROVE FALSE
  BY <1>2, NoSetupFields DEF Constrains
<1>3. ASSUME NEW side \in Sides, EvaluatesSingle(side) PROVE FALSE
  BY <1>3 DEF EvaluatesSingle
<1>4. ASSUME EvaluatesPair \/ Rechecks PROVE FALSE
  BY <1>4 DEF EvaluatesPair, Rechecks
<1>5. ASSUME NEW s, DOMAIN s = Fields, setup' = WithVolumes(s) PROVE FALSE
  BY <1>5 DEF WithVolumes
<1>6. ASSUME MinimumAnswers PROVE FALSE
  <2>1. PICK rate : LET asked == [setup EXCEPT !.rate = rate]
                    IN IF IsPair(setup)
                       THEN setup' = WithVolumes([asked EXCEPT !.sized = EffectiveRisk])
                       ELSE setup' = WithVolumes(asked)
    BY <1>6 DEF MinimumAnswers
  <2>2. QED BY <1>5, <2>1
<1>7. ASSUME Confirms PROVE FALSE
  <2>1. PICK margin : LET known == [setup EXCEPT !.margin = margin]
                      IN \/ setup' = [known EXCEPT !.at = "sized", !.reported = ReportedBy(setup)]
                         \/ setup' = WithVolumes([known EXCEPT !.attempt = @ + 1,
                                                              !.rate = Raised(setup, margin)])
    BY <1>7 DEF Confirms
  <2>2. QED BY <1>5, <2>1
<1>8. ASSUME NEW c \in Accountants, AsksSafety(c) PROVE FALSE
  BY <1>8 DEF AsksSafety
<1>9. QED
  BY <1>1, <1>2, <1>3, <1>4, <1>6, <1>7, <1>8 DEF RiskNext, Sizes, Rejects

\* A single order is placed only while the accounting allows the percentage it was sized with:
\* the final check compares the current one with what was read before the margin was asked.
THEOREM SinglesWithinPercent ==
  RiskSpec => [][Placed /\ ~IsPair(setup) => setup.sized <= EffectiveRisk]_setup
<1>1. PercentKept /\ [RiskNext]_riskVars
        => [Placed /\ ~IsPair(setup) => setup.sized <= EffectiveRisk]_setup
  <2> SUFFICES ASSUME PercentKept, RiskNext, Placed, ~IsPair(setup)
               PROVE  setup.sized <= EffectiveRisk
    BY DEF riskVars
  <2>1. Places
    BY OnlyPlaces
  <2>2. QED BY <2>1 DEF Places, PercentKept, Evaluated
<1>2. QED BY <1>1, PercentKeptAtFirst, PercentKeptByStep, PTL DEF RiskSpec

-----------------------------------------------------------------------------
(* What the binary search finds. *)

\* A set of naturals has a least element, and a bounded one a greatest.
LEMMA Least ==
  ASSUME NEW T, T \subseteq Nat, T # {}
  PROVE  \E m \in T : \A k \in T : m <= k
<1>1. PICK m \in T : \A k \in T : <<k, m>> \notin OpToRel(<, Nat)
  BY WFMin, NatLessThanWellFounded, Zenon
<1>2. \A k \in T : ~(k < m)
  BY <1>1, Zenon DEF OpToRel
<1>3. QED BY <1>2

LEMMA Greatest ==
  ASSUME NEW high \in Nat, NEW T, T \subseteq 0 .. high, T # {}
  PROVE  \E m \in T : \A k \in T : k <= m
<1> DEFINE gaps == {n \in Nat : high - n \in T}
<1>1. gaps # {}
  <2>1. PICK k : k \in T
    OBVIOUS
  <2>2. high - k \in Nat /\ high - (high - k) = k
    BY <2>1
  <2>3. QED BY <2>1, <2>2
<1>2. PICK n \in gaps : \A k \in gaps : n <= k
  <2> HIDE DEF gaps
  <2>1. gaps \subseteq Nat
    BY DEF gaps
  <2>2. QED BY <1>1, <2>1, Least
<1>3. ASSUME NEW k \in T PROVE k <= high - n
  <2>1. high - k \in Nat /\ high - (high - k) = k
    BY <1>3
  <2>2. high - k \in gaps
    BY <1>3, <2>1
  <2>3. n <= high - k
    BY <1>2, <2>2
  <2>4. QED BY <2>1, <2>3
<1>4. QED BY <1>2, <1>3

\* What the search is to find between low and high: low, or a step that fits, and none above.
Top(fits, low, high, m) ==
  /\ m \in low .. high
  /\ m = low \/ m \in fits
  /\ \A k \in m + 1 .. high : k \notin fits

\* There is at most one, and one if the range is not empty.
LEMMA TopUnique ==
  ASSUME NEW fits, NEW low \in Nat, NEW high \in Nat, NEW m, NEW n,
         Top(fits, low, high, m), Top(fits, low, high, n)
  PROVE  m = n
<1>1. m \in Int /\ n \in Int /\ m >= low /\ n >= low /\ m <= high /\ n <= high
  BY DEF Top
<1>2. ~(m < n)
  BY <1>1 DEF Top
<1>3. ~(n < m)
  BY <1>1 DEF Top
<1>4. QED BY <1>1, <1>2, <1>3

LEMMA TopExists ==
  ASSUME NEW fits, NEW low \in Nat, NEW high \in Nat, low <= high
  PROVE  \E m : Top(fits, low, high, m)
<1> DEFINE T == {k \in low .. high : k = low \/ k \in fits}
<1>1. T \subseteq 0 .. high /\ low \in T
  OBVIOUS
<1> HIDE DEF T
<1>2. PICK m \in T : \A k \in T : k <= m
  BY <1>1, Greatest
<1>3. m \in low .. high /\ (m = low \/ m \in fits)
  BY <1>2 DEF T
<1>4. ASSUME NEW k \in m + 1 .. high PROVE k \notin fits
  <2>1. k \in low .. high /\ ~(k <= m)
    BY <1>3
  <2>2. k \notin T
    BY <1>2, <2>1
  <2>3. QED BY <2>1, <2>2 DEF T
<1>5. QED BY <1>3, <1>4 DEF Top

\* Halving narrows the range and keeps the top in it.
LEMMA TopHalved ==
  ASSUME NEW low \in Nat, NEW high \in Nat, low < high, NEW fits,
         \A k, l \in low .. high : k <= l /\ l \in fits => k \in fits,
         NEW mid \in low + 1 .. high, NEW m, NEW n,
         Top(fits, mid, high, m), Top(fits, low, mid - 1, n)
  PROVE  Top(fits, low, high, IF mid \in fits THEN m ELSE n)
<1>1. CASE mid \in fits
  BY <1>1 DEF Top
<1>2. CASE mid \notin fits
  <2>1. n \in low .. high
    BY DEF Top
  <2>2. ASSUME NEW k \in n + 1 .. high PROVE k \notin fits
    <3>1. CASE k < mid
      BY <3>1, <2>1 DEF Top
    <3>2. CASE mid <= k
      BY <1>2, <3>2, <2>1
    <3>3. QED BY <3>1, <3>2, <2>1
  <2>3. QED BY <1>2, <2>1, <2>2 DEF Top
<1>3. QED BY <1>1, <1>2

\* The search finds the top: some function is what Halved makes of itself, and whichever is,
\* has the top of every range.
LEMMA SearchFinds ==
  ASSUME NEW budget, NEW stop, NEW most \in Nat, NEW fits,
         fits = {k \in 0 .. most : TotalLoss(OnGrid(k), stop) <= budget},
         \A k, l \in 0 .. most : k <= l /\ l \in fits => k \in fits
  PROVE  Top(fits, 0, most, Search(budget, stop, most))
<1> DEFINE Ranges == (0 .. most) \X (0 .. most)
           Solves(t) == t = [range \in Ranges |-> Halved(t, range, budget, stop)]
           search == CHOOSE t : t = [range \in Ranges |-> Halved(t, range, budget, stop)]
<1>1. Search(budget, stop, most) = search[<<0, most>>]
  BY Zenon DEF Search
<1>2. ASSUME NEW t, NEW low \in 0 .. most, NEW high \in 0 .. most, low < high,
             NEW mid, mid = (low + high + 1) \div 2
      PROVE  Halved(t, <<low, high>>, budget, stop) =
               IF mid \in fits THEN t[<<mid, high>>] ELSE t[<<low, mid - 1>>]
  <2>1. mid \in 0 .. most /\ ~(low >= high)
    BY <1>2
  <2>2. QED BY <1>2, <2>1 DEF Halved
<1>3. ASSUME NEW low \in 0 .. most, NEW high \in 0 .. most, low < high,
             NEW mid \in low + 1 .. high, NEW m, NEW n,
             Top(fits, mid, high, m), Top(fits, low, mid - 1, n)
      PROVE  Top(fits, low, high, IF mid \in fits THEN m ELSE n)
  <2>1. /\ low \in Nat /\ high \in Nat
        /\ \A k, l \in low .. high : k <= l /\ l \in fits => k \in fits
    BY <1>3
  <2>2. QED BY <1>3, <2>1, TopHalved
<1>4. \E t : Solves(t)
  <2> DEFINE t == [range \in Ranges |-> IF range[1] > range[2] THEN range[1]
                                        ELSE CHOOSE m : Top(fits, range[1], range[2], m)]
  <2>1. ASSUME NEW low \in 0 .. most, NEW high \in 0 .. most, low <= high
        PROVE  Top(fits, low, high, t[<<low, high>>])
    <3>1. \E m : Top(fits, low, high, m)
      BY <2>1, TopExists
    <3>2. t[<<low, high>>] = CHOOSE m : Top(fits, low, high, m)
      BY <2>1
    <3>3. QED BY <3>1, <3>2, Zenon
  <2>2. ASSUME NEW low \in 0 .. most, NEW high \in 0 .. most
        PROVE  t[<<low, high>>] = Halved(t, <<low, high>>, budget, stop)
    <3>1. CASE low > high
      BY <3>1 DEF Halved
    <3>2. CASE low = high
      <4> HIDE DEF t
      <4>1. Top(fits, low, high, t[<<low, high>>])
        BY <2>1, <3>2
      <4>2. t[<<low, high>>] = low
        BY <4>1, <3>2 DEF Top
      <4>3. QED BY <4>2, <3>2 DEF Halved
    <3>3. CASE low < high
      <4> HIDE DEF t
      <4>0. PICK mid : mid = (low + high + 1) \div 2
        OBVIOUS
      <4>1. Top(fits, low, high, t[<<low, high>>])
        BY <2>1, <3>3
      <4>2. mid \in low + 1 .. high
        BY <3>3, <4>0
      <4>3. Top(fits, mid, high, t[<<mid, high>>]) /\ Top(fits, low, mid - 1, t[<<low, mid - 1>>])
        <5>1. mid \in 0 .. most /\ mid - 1 \in 0 .. most /\ mid <= high /\ low <= mid - 1
          BY <4>2
        <5>2. QED BY <5>1, <2>1
      <4>4. Halved(t, <<low, high>>, budget, stop)
              = IF mid \in fits THEN t[<<mid, high>>] ELSE t[<<low, mid - 1>>]
        BY <1>2, <3>3, <4>0
      <4>5. Top(fits, low, high, IF mid \in fits THEN t[<<mid, high>>] ELSE t[<<low, mid - 1>>])
        BY <1>3, <3>3, <4>2, <4>3
      <4>6. QED BY <4>1, <4>4, <4>5, TopUnique
    <3>4. QED BY <3>1, <3>2, <3>3
  <2>3. t = [range \in Ranges |-> t[range]]
    OBVIOUS
  <2> HIDE DEF t
  <2>4. \A range \in Ranges : t[range] = Halved(t, range, budget, stop)
    <3> SUFFICES ASSUME NEW range \in Ranges PROVE t[range] = Halved(t, range, budget, stop)
      OBVIOUS
    <3>1. PICK low \in 0 .. most, high \in 0 .. most : range = <<low, high>>
      OBVIOUS
    <3>2. QED BY <2>2, <3>1
  <2>5. Solves(t)
    <3> HIDE DEF Halved
    <3> QED BY <2>3, <2>4, Zenon
  <2>6. QED BY <2>5
<1>5. search = [range \in Ranges |-> Halved(search, range, budget, stop)]
  BY <1>4, Zenon
<1> HIDE DEF search, Solves
<1>6. ASSUME NEW low \in 0 .. most, NEW high \in 0 .. most
      PROVE  search[<<low, high>>] = Halved(search, <<low, high>>, budget, stop)
  <2>1. <<low, high>> \in Ranges
    BY <1>4
  <2> HIDE DEF Ranges
  <2>2. QED BY <1>5, <2>1, Zenon
<1> DEFINE Wrong(n) == \E low, high \in 0 .. most :
                         low <= high /\ n = high - low /\ ~Top(fits, low, high, search[<<low, high>>])
           wrong == {n \in Nat : Wrong(n)}
<1>7. wrong = {}
  <2> SUFFICES ASSUME wrong # {} PROVE FALSE
    OBVIOUS
  <2>1. PICK n \in wrong : \A k \in wrong : n <= k
    <3>1. wrong \subseteq Nat
      OBVIOUS
    <3> HIDE DEF wrong
    <3>2. QED BY <3>1, Least
  <2>2. PICK low \in 0 .. most, high \in 0 .. most :
          low <= high /\ n = high - low /\ ~Top(fits, low, high, search[<<low, high>>])
    BY <2>1
  <2>3. ASSUME NEW a \in 0 .. most, NEW b \in 0 .. most, a <= b, b - a < high - low
        PROVE  Top(fits, a, b, search[<<a, b>>])
    <3>1. b - a \in Nat /\ ~(n <= b - a)
      BY <2>2, <2>3
    <3>2. b - a \notin wrong
      BY <2>1, <3>1
    <3>3. QED BY <3>1, <3>2, <2>3
  <2>4. CASE low = high
    <3> HIDE DEF wrong
    <3>1. Halved(search, <<low, high>>, budget, stop) = low
      BY <2>4 DEF Halved
    <3>2. search[<<low, high>>] = low
      BY <1>6, <3>1
    <3>3. QED BY <2>2, <2>4, <3>2 DEF Top
  <2>5. CASE low < high
    <3> HIDE DEF wrong
    <3>0. PICK mid : mid = (low + high + 1) \div 2
      OBVIOUS
    <3>1. mid \in low + 1 .. high
      BY <2>5, <3>0
    <3>2. Top(fits, mid, high, search[<<mid, high>>]) /\ Top(fits, low, mid - 1, search[<<low, mid - 1>>])
      <4>1. mid \in 0 .. most /\ mid - 1 \in 0 .. most /\ mid <= high /\ low <= mid - 1
            /\ high - mid < high - low /\ (mid - 1) - low < high - low
        BY <3>1
      <4>2. QED BY <4>1, <2>3
    <3>3. search[<<low, high>>]
            = IF mid \in fits THEN search[<<mid, high>>] ELSE search[<<low, mid - 1>>]
      BY <1>2, <1>6, <2>5, <3>0
    <3>4. Top(fits, low, high,
              IF mid \in fits THEN search[<<mid, high>>] ELSE search[<<low, mid - 1>>])
      BY <1>3, <2>5, <3>1, <3>2
    <3>5. QED BY <2>2, <3>3, <3>4
  <2>6. QED BY <2>2, <2>4, <2>5
<1>8. Top(fits, 0, most, search[<<0, most>>])
  <2>1. most \notin wrong
    BY <1>7 DEF wrong
  <2>2. Wrong(most) <=> \E low, high \in 0 .. most :
          low <= high /\ most = high - low /\ ~Top(fits, low, high, search[<<low, high>>])
    OBVIOUS
  <2>3. ~Wrong(most)
    BY <2>1 DEF wrong
  <2> HIDE DEF wrong, Wrong
  <2>4. 0 \in 0 .. most /\ most \in 0 .. most /\ 0 <= most /\ most = most - 0
    OBVIOUS
  <2>5. QED BY <2>2, <2>3, <2>4
<1>9. QED BY <1>1, <1>8

-----------------------------------------------------------------------------
(* What sizePosition finds. *)

\* Arithmetic: products are monotone, and a quotient is the largest factor that fits.
LEMMA Product ==
  ASSUME NEW x \in Int, NEW y \in Int, x <= y, NEW c \in Nat
  PROVE  c * x <= c * y /\ x * c <= y * c
  OBVIOUS

LEMMA Quotient ==
  ASSUME NEW a \in Int, NEW b \in Nat \ {0}
  PROVE  /\ a \div b \in Int
         /\ \A k \in Int : k * b <= a <=> k <= a \div b
<1> DEFINE q == a \div b
<1>1. q \in Int /\ b * q <= a /\ a < b * (q + 1)
  OBVIOUS
<1> HIDE DEF q
<1>2. ASSUME NEW k \in Int PROVE k * b <= a <=> k <= q
  <2>1. ASSUME k <= q PROVE k * b <= a
    <3>1. k * b <= q * b
      BY <1>1, <2>1, Product
    <3>2. QED BY <1>1, <3>1
  <2>2. ASSUME ~(k <= q) PROVE ~(k * b <= a)
    <3>1. (q + 1) * b <= k * b
      <4>1. q + 1 \in Int /\ q + 1 <= k
        BY <1>1, <2>2
      <4> HIDE DEF q
      <4>2. QED BY <4>1, Product
    <3>2. QED BY <1>1, <3>1
  <2>3. QED BY <2>1, <2>2
<1>3. QED BY <1>1, <1>2 DEF q

\* The grid of volumes starts at the minimum, and StepsWithin counts its steps.
LEMMA Grid ==
  ASSUME NEW v \in Int
  PROVE  /\ StepsWithin(v) \in Int
         /\ v >= MinVolume => StepsWithin(v) \in Nat
         /\ \A k \in Nat : /\ OnGrid(k) \in Nat \ {0} /\ OnGrid(k) >= MinVolume
                           /\ OnGrid(k) <= v <=> k <= StepsWithin(v)
<1>1. MinVolume \in Nat \ {0} /\ VolumeStep \in Nat \ {0}
  BY SetupAssumption
<1>2. v - MinVolume \in Int
  BY <1>1
<1>3. /\ StepsWithin(v) \in Int
      /\ \A k \in Int : k * VolumeStep <= v - MinVolume <=> k <= StepsWithin(v)
  BY <1>1, <1>2, Quotient DEF StepsWithin
<1>4. ASSUME v >= MinVolume PROVE StepsWithin(v) \in Nat
  <2>1. 0 * VolumeStep <= v - MinVolume
    BY <1>1, <1>4
  <2>2. QED BY <1>3, <2>1
<1>5. ASSUME NEW k \in Nat
      PROVE  /\ OnGrid(k) \in Nat \ {0} /\ OnGrid(k) >= MinVolume
             /\ OnGrid(k) <= v <=> k <= StepsWithin(v)
  <2>1. k * VolumeStep \in Nat
    BY <1>1
  <2>2. OnGrid(k) <= v <=> k * VolumeStep <= v - MinVolume
    BY <1>1, <2>1 DEF OnGrid
  <2>3. k * VolumeStep <= v - MinVolume <=> k <= StepsWithin(v)
    BY <1>3
  <2>4. OnGrid(k) \in Nat \ {0} /\ OnGrid(k) >= MinVolume
    BY <1>1, <2>1 DEF OnGrid
  <2>5. QED BY <2>2, <2>3, <2>4
<1>6. QED BY <1>3, <1>4, <1>5

\* More volume never costs less, and a volume costs at least its stop.
LEMMA LossGrows ==
  ASSUME NEW v \in Nat, NEW w \in Nat, v <= w, NEW stop \in Nat
  PROVE  /\ TotalLoss(v, stop) \in Nat /\ v * (TickMoney * stop) <= TotalLoss(v, stop)
         /\ TotalLoss(v, stop) <= TotalLoss(w, stop)
<1>1. /\ TickMoney \in Nat \ {0} /\ Conversion \in Nat /\ Slip \in Nat /\ Fee \in Nat /\ MinimumFee \in Nat
  BY SetupAssumption
<1> DEFINE each == TickMoney * Slip + Conversion * (stop + Slip)
           tick == TickMoney * stop
<1>2. each \in Nat /\ tick \in Nat
  BY <1>1
<1>3. ASSUME NEW u \in Nat PROVE TotalLoss(u, stop) = u * tick + 2 * Greater(Fee * u, MinimumFee) + u * each
  <2>1. u * TickMoney * stop = u * tick
    BY <1>1
  <2>2. TotalLoss(u, stop) = u * TickMoney * stop + (2 * Greater(Fee * u, MinimumFee) + u * each)
    BY Zenon DEF TotalLoss, StopCosts
  <2> HIDE DEF tick, each
  <2>3. u * tick \in Nat /\ u * each \in Nat /\ Fee * u \in Nat
    BY <1>1, <1>2
  <2>4. Greater(Fee * u, MinimumFee) \in Nat
    BY <1>1, <2>3 DEF Greater
  <2>5. QED BY <2>1, <2>2, <2>3, <2>4
<1> HIDE DEF each, tick
<1>4. Fee * v <= Fee * w /\ v * tick <= w * tick /\ v * each <= w * each
  BY <1>1, <1>2, Product
<1>5. /\ Fee * v \in Nat /\ Fee * w \in Nat /\ v * tick \in Nat /\ w * tick \in Nat
      /\ v * each \in Nat /\ w * each \in Nat
  BY <1>1, <1>2
<1>6. /\ Greater(Fee * v, MinimumFee) \in Nat /\ Greater(Fee * w, MinimumFee) \in Nat
      /\ Greater(Fee * v, MinimumFee) <= Greater(Fee * w, MinimumFee)
  BY <1>1, <1>4, <1>5 DEF Greater
<1>7. QED BY <1>3, <1>4, <1>5, <1>6 DEF tick

\* Affordable, of the four numbers it depends on.
Within(budget, stop, rate, margin) ==
  {volume \in {OnGrid(steps) : steps \in 0 .. StepsWithin(MaxVolume)} :
     TotalLoss(volume, stop) <= budget /\ volume * rate <= margin}

\* sizePosition: nothing if no volume is within both, otherwise the largest that is.
LEMMA SizedIsLargest ==
  ASSUME NEW budget \in Int, NEW stop \in Nat \ {0}, NEW rate \in Nat \ {0}, NEW margin \in Int
  PROVE  IF Within(budget, stop, rate, margin) = {} THEN Sized(budget, stop, rate, margin) = 0
         ELSE /\ Sized(budget, stop, rate, margin) \in Within(budget, stop, rate, margin)
              /\ \A v \in Within(budget, stop, rate, margin) : v <= Sized(budget, stop, rate, margin)
<1> DEFINE tick == TickMoney * stop
           raw == budget \div tick
           bound == Lesser(raw, MaxVolume)
           lots == margin \div rate
           most == Lesser(StepsWithin(bound), StepsWithin(lots))
           fits == {k \in 0 .. most : TotalLoss(OnGrid(k), stop) <= budget}
           within == Within(budget, stop, rate, margin)
           top == Search(budget, stop, most)
<1>1. /\ MinVolume \in Nat \ {0} /\ VolumeStep \in Nat \ {0} /\ MaxVolume \in Nat
      /\ MaxVolume >= MinVolume /\ TickMoney \in Nat \ {0}
  BY SetupAssumption
<1>2. tick \in Nat \ {0}
  BY <1>1
<1>3. raw \in Int /\ lots \in Int /\ bound \in Int
  <2>1. raw \in Int
    <3> HIDE DEF tick
    <3> QED BY <1>2, Quotient
  <2>2. lots \in Int
    BY Quotient
  <2>3. QED BY <1>1, <2>1, <2>2 DEF Lesser
<1>4. ASSUME NEW v \in Nat PROVE (v <= raw <=> v * tick <= budget) /\ (v <= lots <=> v * rate <= margin)
  <2> HIDE DEF tick
  <2> QED BY <1>2, Quotient
<1>5. OnGrid(0) = MinVolume
  BY <1>1 DEF OnGrid
<1>6. ASSUME NEW k \in Nat
      PROVE  /\ OnGrid(k) \in Nat \ {0} /\ OnGrid(k) >= MinVolume
             /\ TotalLoss(OnGrid(k), stop) <= budget => OnGrid(k) <= raw
             /\ k <= StepsWithin(bound) <=> OnGrid(k) <= bound
             /\ k <= StepsWithin(lots) <=> OnGrid(k) <= lots
             /\ k <= StepsWithin(MaxVolume) <=> OnGrid(k) <= MaxVolume
  <2>1. OnGrid(k) \in Nat \ {0} /\ OnGrid(k) >= MinVolume
    BY <1>1, Grid
  <2>2. OnGrid(k) * tick <= TotalLoss(OnGrid(k), stop) /\ TotalLoss(OnGrid(k), stop) \in Nat
    <3>1. OnGrid(k) \in Nat /\ OnGrid(k) <= OnGrid(k) /\ stop \in Nat
      BY <2>1
    <3>2. QED BY <3>1, LossGrows DEF tick
  <2>3. TotalLoss(OnGrid(k), stop) <= budget => OnGrid(k) <= raw
    <3>1. OnGrid(k) * tick \in Nat
      BY <1>2, <2>1
    <3> HIDE DEF tick, raw
    <3>2. QED BY <1>4, <2>1, <2>2, <3>1
  <2> HIDE DEF bound, lots, raw, tick
  <2>4. QED BY <1>1, <1>3, <2>1, <2>3, Grid
<1> HIDE DEF tick, raw, bound, lots
<1>7. ASSUME NEW k \in Nat, NEW l \in Nat, k <= l, TotalLoss(OnGrid(l), stop) <= budget
      PROVE  TotalLoss(OnGrid(k), stop) <= budget
  <2>1. OnGrid(k) <= OnGrid(l)
    <3>1. k * VolumeStep <= l * VolumeStep
      BY <1>1, <1>7, Product
    <3>2. k * VolumeStep \in Nat /\ l * VolumeStep \in Nat
      BY <1>1
    <3>3. QED BY <1>1, <3>1, <3>2 DEF OnGrid
  <2>2. OnGrid(k) \in Nat /\ OnGrid(l) \in Nat /\ stop \in Nat
    BY <1>6
  <2>3. TotalLoss(OnGrid(k), stop) <= TotalLoss(OnGrid(l), stop)
    BY <2>1, <2>2, LossGrows
  <2>4. TotalLoss(OnGrid(k), stop) \in Nat /\ TotalLoss(OnGrid(l), stop) \in Nat
    <3>1. \A v \in Nat : v <= v
      OBVIOUS
    <3>2. QED BY <2>2, <3>1, LossGrows
  <2>5. QED BY <1>7, <2>3, <2>4
<1>8. CASE raw < MinVolume \/ margin < MinVolume * rate \/ TotalLoss(MinVolume, stop) > budget
  <2>1. Sized(budget, stop, rate, margin) = 0
    BY <1>8 DEF Sized, raw, tick
  <2>2. ASSUME NEW v \in within PROVE FALSE
    <3>1. PICK k \in 0 .. StepsWithin(MaxVolume) : v = OnGrid(k)
      BY <2>2 DEF Within
    <3>2. k \in Nat /\ 0 \in Nat /\ 0 <= k
      BY <1>1, Grid
    <3>3. TotalLoss(v, stop) <= budget /\ v * rate <= margin
      BY <2>2 DEF Within
    <3>4. TotalLoss(MinVolume, stop) <= budget /\ TotalLoss(MinVolume, stop) \in Nat
      BY <1>1, <1>5, <1>7, <3>1, <3>2, <3>3, LossGrows
    <3>5. MinVolume <= raw
      BY <1>5, <1>6, <3>2, <3>4
    <3>6. MinVolume * rate <= margin
      <4>1. MinVolume <= v /\ v \in Nat
        BY <1>6, <3>1, <3>2
      <4>2. MinVolume * rate <= v * rate
        BY <1>1, <4>1, Product
      <4>3. MinVolume * rate \in Nat /\ v * rate \in Nat
        BY <1>1, <4>1
      <4>4. QED BY <3>3, <4>2, <4>3
    <3>7. MinVolume * rate \in Nat
      BY <1>1
    <3>8. QED BY <1>1, <1>3, <1>8, <3>4, <3>5, <3>6, <3>7
  <2>3. within = {}
    BY <2>2
  <2>4. QED BY <2>1, <2>3
<1>9. CASE ~(raw < MinVolume \/ margin < MinVolume * rate \/ TotalLoss(MinVolume, stop) > budget)
  <2>1. Sized(budget, stop, rate, margin) = OnGrid(top)
    BY <1>9 DEF Sized, raw, tick, bound, lots
  <2>2. MinVolume <= raw /\ MinVolume <= lots /\ MinVolume <= bound
    <3>1. MinVolume * rate \in Nat
      BY <1>1
    <3>2. QED BY <1>1, <1>3, <1>4, <1>9, <3>1 DEF bound, Lesser
  <2>3. most \in Nat /\ \A k \in Nat : k <= most <=> k <= StepsWithin(bound) /\ k <= StepsWithin(lots)
    <3>1. StepsWithin(bound) \in Nat /\ StepsWithin(lots) \in Nat
      BY <1>3, <2>2, Grid
    <3>2. QED BY <3>1 DEF Lesser
  <2>4. Top(fits, 0, most, top)
    <3>1. \A k, l \in 0 .. most : k <= l /\ l \in fits => k \in fits
      BY <1>7, <2>3
    <3> HIDE DEF most
    <3>2. QED BY <2>3, <3>1, SearchFinds
  <2>5. 0 \in fits
    <3>1. TotalLoss(MinVolume, stop) <= budget
      <4>1. TotalLoss(MinVolume, stop) \in Nat
        BY <1>1, LossGrows
      <4>2. QED BY <1>9, <4>1
    <3>2. QED BY <1>5, <2>3, <3>1
  <2> HIDE DEF most, top
  <2>6. top \in fits
    BY <2>4, <2>5 DEF Top
  <2>7. top \in Nat /\ \A k \in fits : k <= top
    BY <2>3, <2>4, <2>6 DEF Top
  <2>8. ASSUME NEW k \in Nat
        PROVE  k \in fits <=> /\ k <= StepsWithin(MaxVolume)
                              /\ TotalLoss(OnGrid(k), stop) <= budget /\ OnGrid(k) * rate <= margin
    <3>1. OnGrid(k) <= lots <=> OnGrid(k) * rate <= margin
      BY <1>4, <1>6
    <3>2. OnGrid(k) <= bound <=> OnGrid(k) <= raw /\ OnGrid(k) <= MaxVolume
      BY <1>1, <1>3, <1>6 DEF bound, Lesser
    <3>3. k \in fits <=> k <= most /\ TotalLoss(OnGrid(k), stop) <= budget
      BY <2>3
    <3>4. k <= most <=> OnGrid(k) <= bound /\ OnGrid(k) <= lots
      BY <1>6, <2>3
    <3> HIDE DEF fits
    <3>5. QED BY <1>6, <3>1, <3>2, <3>3, <3>4
  <2> HIDE DEF fits
  <2>9. OnGrid(top) \in within
    <3>1. top \in 0 .. StepsWithin(MaxVolume)
      BY <2>6, <2>7, <2>8
    <3>2. QED BY <2>6, <2>7, <2>8, <3>1 DEF Within
  <2>10. ASSUME NEW v \in within PROVE v <= OnGrid(top)
    <3>1. PICK k \in 0 .. StepsWithin(MaxVolume) : v = OnGrid(k)
      BY DEF Within
    <3>2. k \in Nat /\ k <= StepsWithin(MaxVolume)
      BY <1>1, Grid
    <3>3. k \in fits
      BY <2>8, <3>1, <3>2 DEF Within
    <3>4. k <= top
      BY <2>7, <3>3
    <3>5. k * VolumeStep <= top * VolumeStep
      BY <1>1, <2>7, <3>2, <3>4, Product
    <3>6. k * VolumeStep \in Nat /\ top * VolumeStep \in Nat
      BY <1>1, <2>7, <3>2
    <3>7. QED BY <1>1, <3>1, <3>5, <3>6 DEF OnGrid
  <2> HIDE DEF within
  <2>11. QED BY <2>1, <2>9, <2>10 DEF within
<1>10. QED BY <1>8, <1>9

-----------------------------------------------------------------------------
(* The invariant of a setup. *)

Stages == Evaluated \cup {"idle", "constrained"}
Setups == [at : Stages, legs : SUBSET Sides, equity : Int, used : Nat, stop : [Sides -> Nat],
           rate : [Sides -> Nat], volume : [Sides -> Nat], margin : [Sides -> Nat], sized : Int,
           reported : Int, attempt : Nat, auditor : Accountants \cup {"none"}]

\* The account is worth more than other symbols hold of it, and every stop has a distance.
Proposed == setup.at # "idle" => setup.equity > setup.used /\ \A side \in Sides : setup.stop[side] > 0

\* What is evaluated is an order or a pair, with a percentage once it has been read.
Legged ==
  setup.at \in Evaluated =>
    /\ setup.legs \in {Sides, {"BUY"}, {"SELL"}}
    /\ setup.sized > 0 \/ (IsPair(setup) /\ setup.at = "minimum")

\* The volumes are those sizePosition gives at the rates known, none of them 0 unless refused.
VolumesSized ==
  setup.at \in {"exact", "refused"} =>
    \A side \in setup.legs :
      /\ setup.rate[side] > 0
      /\ setup.volume[side] = Sized(LegBudget(setup.equity, setup.sized), setup.stop[side],
                                    setup.rate[side], LegMargin(setup))
      /\ setup.at = "exact" => setup.volume[side] > 0

\* Once confirmed, their margin is allowed, and each is within its half of the risk.
Confirmed ==
  setup.at \in {"sized", "asked", "checked", "placed"} =>
    /\ MarginOf(setup) > 0 /\ MarginOf(setup) <= AllowedMargin(setup)
    /\ \A side \in setup.legs :
         TotalLoss(setup.volume[side], setup.stop[side]) <= LegBudget(setup.equity, setup.sized)

\* Together they are inductive.
SetupInv == setup \in Setups /\ Proposed /\ Legged /\ VolumesSized /\ Confirmed

\* Stops and rates are positive, and the percentage is a number.
LEMMA Positives == /\ \A x \in Stops : x \in Nat /\ x > 0
                   /\ \A x \in Rates : x \in Nat /\ x > 0
  BY SetupAssumption

LEMMA EffectiveRiskTyped == LossInv => EffectiveRisk \in Int
<1> SUFFICES ASSUME LossInv PROVE EffectiveRisk \in Int
  OBVIOUS
<1>1. capacity.multiplier \in Int /\ capacity.cap \in Int
  BY DEF LossInv, LossTypeOK, Multipliers
<1>2. (IF enforced THEN 100 ELSE DemoCap) * capacity.multiplier \in Int
  BY <1>1 DEF DemoCap
<1>3. \A x \in Int : x \div 4 \in Int
  OBVIOUS
<1>4. QED BY <1>1, <1>2, <1>3 DEF EffectiveRisk, Lesser

\* The budget and the margins are numbers, however the account stands.
LEMMA LimitsTyped ==
  ASSUME NEW s \in Setups
  PROVE  /\ LegBudget(s.equity, s.sized) \in Int /\ FreeMargin(s) \in Int
         /\ AllowedMargin(s) \in Int /\ LegMargin(s) \in Int
<1>1. s.equity \in Int /\ s.used \in Int /\ s.sized \in Int /\ MarginUsage \in Int
  BY SetupAssumption DEF Setups
<1>2. \A x \in Int : x \div 200 \in Int /\ x \div 100 \in Int /\ x \div 2 \in Int
  OBVIOUS
<1>3. s.equity * s.sized \in Int /\ s.equity * MarginUsage \in Int
  BY <1>1
<1>4. LegBudget(s.equity, s.sized) \in Int
  BY <1>2, <1>3 DEF LegBudget
<1>5. FreeMargin(s) \in Int
  <2>1. (s.equity * s.sized + 99) \div 100 \in Int
    BY <1>2, <1>3
  <2>2. QED BY <1>1, <2>1 DEF FreeMargin, Positive
<1>6. AllowedMargin(s) \in Int
  BY <1>1, <1>3, <1>5 DEF AllowedMargin, Lesser
<1>7. QED BY <1>2, <1>4, <1>5, <1>6 DEF LegMargin

\* A volume of sizePosition is a number, and positive if it is within both limits.
LEMMA SizedTyped ==
  ASSUME NEW budget \in Int, NEW stop \in Nat \ {0}, NEW rate \in Nat \ {0}, NEW margin \in Int
  PROVE  /\ Sized(budget, stop, rate, margin) \in Nat
         /\ Sized(budget, stop, rate, margin) > 0 =>
              TotalLoss(Sized(budget, stop, rate, margin), stop) <= budget
         /\ \A v \in Within(budget, stop, rate, margin) : v \in Nat \ {0}
<1>1. ASSUME NEW v \in Within(budget, stop, rate, margin) PROVE v \in Nat \ {0} /\ TotalLoss(v, stop) <= budget
  <2>1. PICK steps \in 0 .. StepsWithin(MaxVolume) : v = OnGrid(steps)
    BY DEF Within
  <2>2. StepsWithin(MaxVolume) \in Int /\ steps \in Nat
    BY SetupAssumption, Grid
  <2>3. v \in Nat \ {0}
    BY SetupAssumption, <2>1, <2>2, Grid
  <2>4. QED BY <2>3 DEF Within
<1>2. QED BY <1>1, SizedIsLargest

\* Sizing again what the account, the stops and the legs were, at rates that are positive.
LEMMA VolumesKept ==
  ASSUME NEW s \in Setups, s.equity > s.used, \A side \in Sides : s.stop[side] > 0,
         s.legs \in {Sides, {"BUY"}, {"SELL"}}, s.sized > 0, \A side \in s.legs : s.rate[side] > 0,
         setup' = WithVolumes(s)
  PROVE  SetupInv'
<1> DEFINE volume == [side \in Sides |->
              IF side \in s.legs
              THEN Sized(LegBudget(s.equity, s.sized), s.stop[side], s.rate[side], LegMargin(s)) ELSE 0]
           at == IF LegMargin(s) > 0 /\ \A side \in s.legs : volume[side] > 0
                 THEN "exact" ELSE "refused"
<1>1. setup' = [s EXCEPT !.volume = volume, !.at = at]
  BY DEF WithVolumes
<1>2. volume \in [Sides -> Nat]
  <2>1. ASSUME NEW side \in s.legs
        PROVE  Sized(LegBudget(s.equity, s.sized), s.stop[side], s.rate[side], LegMargin(s)) \in Nat
    <3>1. s.stop[side] \in Nat \ {0} /\ s.rate[side] \in Nat \ {0}
      BY DEF Setups
    <3>2. QED BY <3>1, LimitsTyped, SizedTyped
  <2>2. QED BY <2>1
<1>3. \A side \in s.legs : volume[side] = Sized(LegBudget(s.equity, s.sized), s.stop[side],
                                                s.rate[side], LegMargin(s))
  BY DEF Setups
<1>4. at \in {"exact", "refused"} /\ (at = "exact" => \A side \in s.legs : volume[side] > 0)
  OBVIOUS
<1> HIDE DEF volume, at
<1>5. /\ setup' \in Setups /\ setup'.at = at /\ setup'.volume = volume
      /\ setup'.equity = s.equity /\ setup'.used = s.used /\ setup'.sized = s.sized
      /\ setup'.legs = s.legs /\ setup'.stop = s.stop /\ setup'.rate = s.rate
  BY <1>1, <1>2, <1>4 DEF Setups, Stages, Evaluated
<1>6. LegMargin(setup)' = LegMargin(s)
  BY <1>5 DEF LegMargin, AllowedMargin, FreeMargin, IsPair
<1>7. Proposed' /\ Legged' /\ Confirmed'
  BY <1>4, <1>5 DEF Proposed, Legged, Confirmed
<1>8. VolumesSized'
  <2>1. ASSUME NEW side \in s.legs
        PROVE  /\ s.rate[side] > 0
               /\ volume[side] = Sized(LegBudget(s.equity, s.sized), s.stop[side], s.rate[side],
                                       LegMargin(setup)')
               /\ at = "exact" => volume[side] > 0
    BY <1>3, <1>4, <1>6
  <2>2. QED BY <1>5, <2>1 DEF VolumesSized
<1>9. QED BY <1>5, <1>7, <1>8 DEF SetupInv

\* What the broker asks for exact volumes is something, and nothing for the other side.
LEMMA EstimateTyped ==
  ASSUME NEW s \in Setups, s.legs \in {Sides, {"BUY"}, {"SELL"}}, \A side \in s.legs : s.volume[side] > 0,
         NEW margin \in Estimates(s)
  PROVE  margin \in [Sides -> Nat] /\ margin["BUY"] + margin["SELL"] > 0
<1>1. PICK rate \in [s.legs -> Rates] :
        margin = [side \in Sides |-> IF side \in s.legs THEN s.volume[side] * rate[side] ELSE 0]
  BY DEF Estimates
<1>2. ASSUME NEW side \in s.legs PROVE s.volume[side] * rate[side] \in Nat \ {0}
  <2>1. \A x, y \in Nat \ {0} : x * y \in Nat \ {0}
    OBVIOUS
  <2>2. s.volume[side] \in Nat \ {0} /\ rate[side] \in Nat \ {0}
    BY Positives DEF Setups
  <2>3. QED BY <2>1, <2>2
<1>3. \A side \in Sides : margin[side] \in Nat /\ (side \in s.legs => margin[side] > 0)
  BY <1>1, <1>2
<1>4. margin \in [Sides -> Nat]
  BY <1>1, <1>3
<1>5. QED BY <1>3, <1>4 DEF Sides

\* Revised rates are none that was lower.
LEMMA RatesRise ==
  ASSUME NEW s \in Setups, \A side \in s.legs : s.rate[side] > 0 /\ s.volume[side] > 0,
         NEW margin \in [Sides -> Nat]
  PROVE  /\ Raised(s, margin) \in [Sides -> Nat]
         /\ \A side \in s.legs : Raised(s, margin)[side] > 0 /\ Raised(s, margin)[side] >= s.rate[side]
<1>1. ASSUME NEW side \in s.legs
      PROVE  /\ Greater(s.rate[side], margin[side] \div s.volume[side]) \in Nat
             /\ Greater(s.rate[side], margin[side] \div s.volume[side]) >= s.rate[side]
  <2>1. s.rate[side] \in Nat /\ margin[side] \in Nat /\ s.volume[side] \in Nat \ {0}
    BY DEF Setups
  <2>2. margin[side] \div s.volume[side] \in Int
    BY <2>1, Quotient
  <2>3. QED BY <2>1, <2>2 DEF Greater
<1>2. s.legs \subseteq Sides /\ s.rate \in [Sides -> Nat]
  BY DEF Setups
<1>3. QED BY <1>1, <1>2 DEF Raised

\* A run that ended knows nothing.
LEMMA NoSetupInv == setup' = NoSetup => SetupInv'
  BY DEF NoSetup, Neither, SetupInv, Setups, Stages, Evaluated, Proposed, Legged, VolumesSized,
     Confirmed

\* Every step keeps it, one action at a time.
LEMMA SetupStep == LossInv /\ SetupInv /\ [RiskNext]_riskVars => SetupInv'
<1> SUFFICES ASSUME LossInv, SetupInv, [RiskNext]_riskVars PROVE SetupInv'
  OBVIOUS
<1>1. /\ setup \in Setups /\ setup.at \in Stages /\ setup.legs \subseteq Sides
      /\ paid \in Int /\ EffectiveRisk \in Int
  BY EffectiveRiskTyped DEF SetupInv, Setups, LossInv, LossTypeOK
<1>2. CASE Constrains
  <2>1. PICK result \in Results, used \in Used, stop \in [Sides -> Stops] :
          /\ result + paid > used
          /\ setup' = [NoSetup EXCEPT !.at = "constrained", !.equity = result + paid, !.used = used,
                                      !.stop = stop]
    BY <1>2 DEF Constrains
  <2>2. result \in Int /\ used \in Nat
    BY LossAssumption, SetupAssumption
  <2>3. stop \in [Sides -> Nat] /\ \A side \in Sides : stop[side] > 0
    BY Positives
  <2>4. setup' \in Setups /\ Proposed'
    <3>1. NoSetup \in Setups
      BY DEF NoSetup, Neither, Setups, Stages, Evaluated
    <3>2. ASSUME NEW k \in Setups, NEW e \in Int
          PROVE  LET s == [k EXCEPT !.at = "constrained", !.equity = e, !.used = used, !.stop = stop]
                 IN s \in Setups /\ s.equity = e /\ s.used = used /\ s.stop = stop
      BY <2>2, <2>3 DEF Setups, Stages
    <3>3. result + paid \in Int
      BY <1>1, <2>2
    <3>4. QED BY <2>1, <2>3, <3>1, <3>2, <3>3 DEF Proposed
  <2>5. setup'.at = "constrained"
    BY <2>1 DEF NoSetup
  <2>6. QED BY <2>4, <2>5 DEF SetupInv, Legged, VolumesSized, Confirmed, Evaluated
<1>3. ASSUME NEW side \in Sides, EvaluatesSingle(side) PROVE SetupInv'
  BY <1>1, <1>3 DEF EvaluatesSingle, SetupInv, Setups, Stages, Evaluated, Proposed, Legged, VolumesSized,
     Confirmed, Sides
<1>4. CASE EvaluatesPair
  BY <1>1, <1>4 DEF EvaluatesPair, SetupInv, Setups, Stages, Evaluated, Proposed, Legged, VolumesSized,
     Confirmed, IsPair
<1>5. CASE MinimumAnswers
  <2>1. PICK rate \in [setup.legs -> Rates] :
          LET asked == [setup EXCEPT !.rate = [side \in Sides |->
                                                 IF side \in setup.legs THEN rate[side] ELSE 0]]
          IN IF IsPair(setup)
             THEN EffectiveRisk > 0 /\ setup' = WithVolumes([asked EXCEPT !.sized = EffectiveRisk])
             ELSE setup' = WithVolumes(asked)
    BY <1>5 DEF MinimumAnswers
  <2> DEFINE rates == [side \in Sides |-> IF side \in setup.legs THEN rate[side] ELSE 0]
             asked == [setup EXCEPT !.rate = rates]
  <2>2. rates \in [Sides -> Nat] /\ \A side \in setup.legs : rates[side] > 0
    BY <1>1, Positives
  <2> HIDE DEF rates
  <2>3. setup.legs \in {Sides, {"BUY"}, {"SELL"}} /\ (IsPair(setup) \/ setup.sized > 0)
        /\ setup.equity > setup.used /\ \A side \in Sides : setup.stop[side] > 0
    BY <1>5 DEF MinimumAnswers, SetupInv, Legged, Proposed, Evaluated
  <2>4. CASE IsPair(setup)
    <3> DEFINE s == [asked EXCEPT !.sized = EffectiveRisk]
    <3>1. /\ s \in Setups /\ s.equity = setup.equity /\ s.used = setup.used /\ s.stop = setup.stop
          /\ s.legs = setup.legs /\ s.sized = EffectiveRisk /\ s.rate = rates
      BY <1>1, <2>2 DEF Setups
    <3>2. EffectiveRisk > 0 /\ setup' = WithVolumes(s)
      BY <2>1, <2>4 DEF rates
    <3> HIDE DEF s
    <3>3. QED BY <2>2, <2>3, <3>1, <3>2, VolumesKept
  <2>5. CASE ~IsPair(setup)
    <3>1. /\ asked \in Setups /\ asked.equity = setup.equity /\ asked.used = setup.used
          /\ asked.stop = setup.stop /\ asked.legs = setup.legs /\ asked.sized = setup.sized
          /\ asked.rate = rates
      BY <1>1, <2>2 DEF Setups
    <3>2. setup' = WithVolumes(asked)
      BY <2>1, <2>5 DEF rates
    <3> HIDE DEF asked
    <3>3. QED BY <2>2, <2>3, <2>5, <3>1, <3>2, VolumesKept
  <2>6. QED BY <2>4, <2>5
<1>6. CASE Confirms
  <2>1. PICK margin \in Estimates(setup) :
          LET known == [setup EXCEPT !.margin = margin]
          IN IF MarginOf(known) <= AllowedMargin(setup)
             THEN setup' = [known EXCEPT !.at = "sized", !.reported = ReportedBy(setup)]
             ELSE setup' = WithVolumes([known EXCEPT !.attempt = @ + 1,
                                                     !.rate = Raised(setup, margin)])
    BY <1>6 DEF Confirms
  <2>2. /\ setup.at = "exact" /\ setup.legs \in {Sides, {"BUY"}, {"SELL"}} /\ setup.sized > 0
        /\ setup.equity > setup.used /\ \A side \in Sides : setup.stop[side] > 0
        /\ \A side \in setup.legs : setup.rate[side] > 0 /\ setup.volume[side] > 0
    BY <1>6 DEF Confirms, SetupInv, Legged, Proposed, VolumesSized, Evaluated
  <2>3. margin \in [Sides -> Nat] /\ margin["BUY"] + margin["SELL"] > 0
    BY <1>1, <2>2, EstimateTyped
  <2> DEFINE known == [setup EXCEPT !.margin = margin]
  <2>4. CASE MarginOf(known) <= AllowedMargin(setup)
    <3>1. setup' = [known EXCEPT !.at = "sized", !.reported = ReportedBy(setup)]
      BY <2>1, <2>4
    <3>2. ReportedBy(setup) \in Int
      BY <1>1 DEF ReportedBy, Setups
    <3>3. /\ setup' \in Setups /\ setup'.at = "sized" /\ setup'.margin = margin
          /\ setup'.equity = setup.equity /\ setup'.used = setup.used /\ setup'.stop = setup.stop
          /\ setup'.legs = setup.legs /\ setup'.sized = setup.sized /\ setup'.volume = setup.volume
      BY <1>1, <2>3, <3>1, <3>2 DEF Setups, Stages, Evaluated
    <3>4. MarginOf(known) = margin["BUY"] + margin["SELL"]
      BY <1>1 DEF MarginOf, Setups
    <3>5. MarginOf(setup)' > 0 /\ MarginOf(setup)' <= AllowedMargin(setup)'
      BY <2>3, <2>4, <3>3, <3>4 DEF MarginOf, AllowedMargin, FreeMargin
    <3>6. \A side \in setup.legs :
            TotalLoss(setup.volume[side], setup.stop[side]) <= LegBudget(setup.equity, setup.sized)
      <4> SUFFICES ASSUME NEW side \in setup.legs
                   PROVE  TotalLoss(setup.volume[side], setup.stop[side])
                            <= LegBudget(setup.equity, setup.sized)
        OBVIOUS
      <4>1. setup.stop[side] \in Nat \ {0} /\ setup.rate[side] \in Nat \ {0}
        BY <1>1, <2>2 DEF Setups
      <4>2. setup.volume[side] = Sized(LegBudget(setup.equity, setup.sized), setup.stop[side],
                                       setup.rate[side], LegMargin(setup))
        BY <2>2 DEF SetupInv, VolumesSized
      <4>3. setup.volume[side] > 0
        BY <2>2
      <4>4. LegBudget(setup.equity, setup.sized) \in Int /\ LegMargin(setup) \in Int
        BY <1>1, LimitsTyped
      <4>5. QED BY <4>1, <4>2, <4>3, <4>4, SizedTyped
    <3>7. Confirmed'
      BY <3>3, <3>5, <3>6 DEF Confirmed
    <3>8. QED BY <2>2, <3>3, <3>7 DEF SetupInv, Proposed, Legged, VolumesSized
  <2>5. CASE ~(MarginOf(known) <= AllowedMargin(setup))
    <3> DEFINE s == [known EXCEPT !.attempt = @ + 1, !.rate = Raised(setup, margin)]
    <3>1. /\ Raised(setup, margin) \in [Sides -> Nat]
          /\ \A side \in setup.legs : Raised(setup, margin)[side] > 0
      BY <1>1, <2>2, <2>3, RatesRise
    <3>2. /\ s \in Setups /\ s.equity = setup.equity /\ s.used = setup.used /\ s.stop = setup.stop
          /\ s.legs = setup.legs /\ s.sized = setup.sized /\ s.rate = Raised(setup, margin)
      <4>1. known \in Setups /\ known.attempt \in Nat
        BY <1>1, <2>3 DEF Setups
      <4>2. known.equity = setup.equity /\ known.used = setup.used /\ known.stop = setup.stop
            /\ known.legs = setup.legs /\ known.sized = setup.sized
        BY <1>1 DEF Setups
      <4> HIDE DEF known
      <4>3. PICK rates, n : rates = Raised(setup, margin) /\ n = known.attempt + 1
        OBVIOUS
      <4>4. s = [known EXCEPT !.attempt = n, !.rate = rates]
        BY <4>1, <4>3
      <4>5. n \in Nat /\ rates \in [Sides -> Nat]
        BY <3>1, <4>1, <4>3
      <4> HIDE DEF s
      <4>6. /\ s \in Setups /\ s.equity = known.equity /\ s.used = known.used /\ s.stop = known.stop
            /\ s.legs = known.legs /\ s.sized = known.sized /\ s.rate = rates
        BY <4>1, <4>4, <4>5 DEF Setups
      <4>7. QED BY <4>2, <4>3, <4>6
    <3>3. setup' = WithVolumes(s)
      BY <2>1, <2>5
    <3> HIDE DEF s
    <3>4. QED BY <2>2, <3>1, <3>2, <3>3, VolumesKept
  <2>6. QED BY <2>4, <2>5
<1>7. ASSUME setup' \in Setups, setup.at \in {"sized", "asked", "checked"},
             setup'.at \in {"asked", "checked", "placed"},
             setup'.equity = setup.equity, setup'.used = setup.used, setup'.stop = setup.stop,
             setup'.legs = setup.legs, setup'.sized = setup.sized, setup'.volume = setup.volume,
             setup'.margin = setup.margin
      PROVE  SetupInv'
  <2>1. Proposed' /\ Legged' /\ VolumesSized'
    BY <1>7 DEF SetupInv, Proposed, Legged, VolumesSized, Evaluated, IsPair
  <2>2. Confirmed'
    BY <1>7 DEF SetupInv, Confirmed, MarginOf, AllowedMargin, FreeMargin
  <2>3. QED BY <1>7, <2>1, <2>2 DEF SetupInv
<1>8. ASSUME NEW c \in Accountants, AsksSafety(c) PROVE SetupInv'
  BY <1>1, <1>7, <1>8 DEF AsksSafety, Setups, Stages, Evaluated
<1>9. CASE Rechecks \/ Places
  BY <1>1, <1>7, <1>9 DEF Rechecks, Places, Setups, Stages, Evaluated
<1>10. CASE setup' = setup
  BY <1>10 DEF SetupInv, Proposed, Legged, VolumesSized, Confirmed, IsPair, LegMargin, AllowedMargin,
     FreeMargin, MarginOf
<1>11. CASE setup' = NoSetup
  BY <1>11, NoSetupInv
<1>12. QED
  BY <1>2, <1>3, <1>4, <1>5, <1>6, <1>8, <1>9, <1>10, <1>11 DEF RiskNext, Sizes, Rejects, riskVars

-----------------------------------------------------------------------------
(* What is sized, confirmed and placed. *)

LEMMA SetupInitial == SetupInit => SetupInv
<1>1. ASSUME setup = NoSetup PROVE SetupInv
  BY <1>1 DEF NoSetup, Neither, SetupInv, Setups, Stages, Evaluated, Proposed, Legged, VolumesSized,
     Confirmed
<1>2. QED BY <1>1 DEF SetupInit

\* The accounting keeps its invariant beside the setups.
LEMMA AccountingKept == RiskSpec => []LossInv
  BY SetupsKeepAccounting, LossInvariant, PTL

\* Whatever the account, the capacity, the stops and the broker's rates are, and whenever
\* safety() changes the capacity, a setup is sized from what it read and confirmed for its margin.
THEOREM SetupInvariant == RiskSpec => []SetupInv
<1>1. LossInv /\ SetupInv /\ [RiskNext]_riskVars => SetupInv'
  BY SetupStep
<1>2. QED BY <1>1, SetupInitial, AccountingKept, PTL DEF RiskSpec

\* sizePosition finds the largest volume that the risk and the margin allow, or refuses for
\* there is none (risk.ts:243), whatever the grid and the costs.
THEOREM VolumesLargest == RiskSpec => []LargestVolume
<1>1. SetupInv => LargestVolume
  <2> SUFFICES ASSUME SetupInv, setup.at \in {"exact", "refused"}, NEW side \in setup.legs
               PROVE  LET within == Affordable(setup, side)
                      IN IF within = {} THEN setup.volume[side] = 0
                         ELSE /\ setup.volume[side] \in within
                              /\ \A volume \in within : volume <= setup.volume[side]
    BY DEF LargestVolume
  <2>1. setup \in Setups /\ setup.stop[side] \in Nat \ {0} /\ setup.rate[side] \in Nat \ {0}
    BY DEF SetupInv, Proposed, VolumesSized, Setups
  <2>2. setup.volume[side] = Sized(LegBudget(setup.equity, setup.sized), setup.stop[side],
                                   setup.rate[side], LegMargin(setup))
    BY DEF SetupInv, VolumesSized
  <2>3. Affordable(setup, side) = Within(LegBudget(setup.equity, setup.sized), setup.stop[side],
                                         setup.rate[side], LegMargin(setup))
    BY DEF Affordable, Within
  <2>4. LegBudget(setup.equity, setup.sized) \in Int /\ LegMargin(setup) \in Int
    BY <2>1, LimitsTyped
  <2>5. QED BY <2>1, <2>2, <2>3, <2>4, SizedIsLargest
<1>2. QED BY <1>1, SetupInvariant, PTL

\* The loss of a confirmed setup: of an order, half of the risk; of a pair, all of it.
LEMMA LossesBounded ==
  ASSUME SetupInv, setup.at \in {"sized", "asked", "checked", "placed"}
  PROVE  /\ Losses(setup) \in Nat
         /\ Losses(setup) <= 2 * LegBudget(setup.equity, setup.sized)
         /\ ~IsPair(setup) => Losses(setup) <= LegBudget(setup.equity, setup.sized)
<1> DEFINE budget == LegBudget(setup.equity, setup.sized)
           loss(side) == IF side \in setup.legs THEN TotalLoss(setup.volume[side], setup.stop[side]) ELSE 0
<1>1. setup \in Setups /\ setup.legs \in {Sides, {"BUY"}, {"SELL"}} /\ budget \in Int
  BY LimitsTyped DEF SetupInv, Legged, Evaluated
<1>2. ASSUME NEW side \in setup.legs PROVE loss(side) \in Nat /\ loss(side) <= budget
  <2>1. setup.volume[side] \in Nat /\ setup.stop[side] \in Nat
    BY <1>1 DEF Setups
  <2>2. \A v \in Nat : v <= v
    OBVIOUS
  <2>3. TotalLoss(setup.volume[side], setup.stop[side]) \in Nat
    BY <2>1, <2>2, LossGrows
  <2>4. TotalLoss(setup.volume[side], setup.stop[side]) <= budget
    BY DEF SetupInv, Confirmed
  <2>5. QED BY <2>3, <2>4
<1>3. ASSUME NEW side \in Sides, side \notin setup.legs PROVE loss(side) = 0
  BY <1>3
<1>4. Losses(setup) = loss("BUY") + loss("SELL")
  BY DEF Losses
<1> HIDE DEF budget, loss
<1>5. CASE setup.legs = Sides
  BY <1>1, <1>2, <1>4, <1>5 DEF Sides, IsPair, budget
<1>6. CASE setup.legs = {"BUY"}
  BY <1>1, <1>2, <1>3, <1>4, <1>6 DEF Sides, IsPair, budget
<1>7. CASE setup.legs = {"SELL"}
  BY <1>1, <1>2, <1>3, <1>4, <1>7 DEF Sides, IsPair, budget
<1>8. QED BY <1>1, <1>5, <1>6, <1>7

\* Whatever the broker asked for the exact volumes, the orders' margin and their loss fit into
\* what is free (oco-risk-evaluator.ts:203).
THEOREM LossReserved == RiskSpec => []LossStaysFree
<1>1. SetupInv => LossStaysFree
  <2> SUFFICES ASSUME SetupInv, setup.at \in {"sized", "asked", "checked", "placed"}
               PROVE  MarginOf(setup) + Losses(setup) <= 100 * (setup.equity - setup.used)
    BY DEF LossStaysFree
  <2> DEFINE risk == setup.equity * setup.sized
             free == 100 * (setup.equity - setup.used)
  <2>1. setup \in Setups /\ risk \in Int /\ free \in Int /\ MarginOf(setup) \in Int
    BY DEF SetupInv, Setups, Sides, MarginOf
  <2>2. MarginOf(setup) > 0 /\ MarginOf(setup) <= AllowedMargin(setup)
    BY DEF SetupInv, Confirmed
  <2>3. AllowedMargin(setup) <= FreeMargin(setup) /\ FreeMargin(setup) \in Int /\ AllowedMargin(setup) \in Int
    BY <2>1, LimitsTyped DEF AllowedMargin, Lesser
  <2>4. FreeMargin(setup) = Positive(free - (risk + 99) \div 100)
    BY DEF FreeMargin
  <2>5. Losses(setup) \in Nat /\ Losses(setup) <= 2 * (risk \div 200)
    BY LossesBounded DEF LegBudget
  <2> HIDE DEF risk, free
  <2>6. 2 * (risk \div 200) <= (risk + 99) \div 100 /\ (risk + 99) \div 100 \in Int /\ risk \div 200 \in Int
    BY <2>1
  <2>7. FreeMargin(setup) = free - (risk + 99) \div 100
    BY <2>1, <2>2, <2>3, <2>4, <2>6 DEF Positive
  <2>8. QED BY <2>1, <2>2, <2>3, <2>5, <2>6, <2>7 DEF free
<1>2. QED BY <1>1, SetupInvariant, PTL

\* A single order's modeled loss is within half of the risk that is allowed when it is placed
\* (docs/risk-model.md:283).
THEOREM SingleLossCapped == RiskSpec => SingleCapped
<1>1. LossInv /\ SetupInv /\ PercentKept /\ [RiskNext]_riskVars
        => [Placed /\ ~IsPair(setup) => 200 * Losses(setup) <= setup.equity * EffectiveRisk]_setup
  <2> SUFFICES ASSUME LossInv, SetupInv, PercentKept, RiskNext, Placed, ~IsPair(setup)
               PROVE  200 * Losses(setup) <= setup.equity * EffectiveRisk
    BY DEF riskVars
  <2>1. setup.at = "checked" /\ setup.sized <= EffectiveRisk
    BY OnlyPlaces DEF Places, PercentKept, Evaluated
  <2>2. setup.equity \in Nat /\ setup.sized \in Int /\ EffectiveRisk \in Int
    BY <2>1, EffectiveRiskTyped DEF SetupInv, Setups, Proposed
  <2>3. Losses(setup) \in Nat /\ Losses(setup) <= (setup.equity * setup.sized) \div 200
    BY <2>1, LossesBounded DEF LegBudget
  <2>4. setup.equity * setup.sized <= setup.equity * EffectiveRisk
    BY <2>1, <2>2, Product
  <2>5. QED BY <2>2, <2>3, <2>4
<1>2. QED BY <1>1, PercentKeptAtFirst, PercentKeptByStep, SetupInvariant, AccountingKept, PTL
          DEF RiskSpec, SingleCapped

\* A pair's modeled loss is within the percentage its volumes were sized with, whatever the
\* accounting did since; and if the one it reports (oco-risk-evaluator.ts:390), read again after
\* the margin was confirmed, is no lower, the loss is within the risk allowed when it is placed.
\* A pair that breaks PairCapped reported less than it was sized with.
THEOREM PairLossWithinSized ==
  RiskSpec => [][Placed /\ IsPair(setup) =>
                   /\ 100 * Losses(setup) <= setup.equity * setup.sized
                   /\ setup.sized <= setup.reported =>
                        100 * Losses(setup) <= setup.equity * EffectiveRisk]_setup
<1>1. LossInv /\ SetupInv /\ PercentKept /\ [RiskNext]_riskVars
        => [Placed /\ IsPair(setup) =>
              /\ 100 * Losses(setup) <= setup.equity * setup.sized
              /\ setup.sized <= setup.reported =>
                   100 * Losses(setup) <= setup.equity * EffectiveRisk]_setup
  <2> SUFFICES ASSUME LossInv, SetupInv, PercentKept, RiskNext, Placed, IsPair(setup)
               PROVE  /\ 100 * Losses(setup) <= setup.equity * setup.sized
                      /\ setup.sized <= setup.reported =>
                           100 * Losses(setup) <= setup.equity * EffectiveRisk
    BY DEF riskVars
  <2>1. setup.at = "checked" /\ setup.reported <= EffectiveRisk
    BY OnlyPlaces DEF Places
  <2>2. /\ setup.equity \in Nat /\ setup.sized \in Int /\ setup.reported \in Int
        /\ EffectiveRisk \in Int
    BY <2>1, EffectiveRiskTyped DEF SetupInv, Setups, Proposed
  <2>3. Losses(setup) \in Nat /\ Losses(setup) <= 2 * ((setup.equity * setup.sized) \div 200)
    BY <2>1, LossesBounded DEF LegBudget
  <2>4. 100 * Losses(setup) <= setup.equity * setup.sized
    <3> DEFINE risk == setup.equity * setup.sized
    <3>1. risk \in Int /\ Losses(setup) <= 2 * (risk \div 200)
      BY <2>2, <2>3
    <3> HIDE DEF risk
    <3>2. 200 * (risk \div 200) <= risk /\ risk \div 200 \in Int
      BY <3>1
    <3> QED BY <2>3, <3>1, <3>2 DEF risk
  <2>5. ASSUME setup.sized <= setup.reported
        PROVE  100 * Losses(setup) <= setup.equity * EffectiveRisk
    <3>1. setup.equity * setup.sized <= setup.equity * EffectiveRisk
      BY <2>1, <2>2, <2>5, Product
    <3> QED BY <2>2, <2>3, <2>4, <3>1
  <2>6. QED BY <2>4, <2>5
<1>2. QED BY <1>1, PercentKeptAtFirst, PercentKeptByStep, SetupInvariant, AccountingKept, PTL
          DEF RiskSpec

\* What is within reach at higher rates is within reach at lower ones.
LEMMA DearerIsNoLarger ==
  ASSUME NEW budget \in Int, NEW stop \in Nat \ {0}, NEW margin \in Int,
         NEW rate \in Nat \ {0}, NEW raised \in Nat, raised >= rate
  PROVE  Sized(budget, stop, raised, margin) <= Sized(budget, stop, rate, margin)
<1>1. raised \in Nat \ {0}
  OBVIOUS
<1>2. ASSUME NEW v \in Within(budget, stop, raised, margin)
      PROVE  v \in Within(budget, stop, rate, margin)
  <2>1. v \in Nat
    BY <1>1, SizedTyped
  <2>2. v * rate <= v * raised /\ v * rate \in Int /\ v * raised \in Int
    BY <2>1, Product
  <2>3. v * raised <= margin
    BY DEF Within
  <2>4. v * rate <= margin
    BY <2>2, <2>3
  <2>5. QED BY <2>4 DEF Within
<1>3. Sized(budget, stop, raised, margin) \in Nat /\ Sized(budget, stop, rate, margin) \in Nat
  BY <1>1, SizedTyped
<1>4. CASE Within(budget, stop, raised, margin) = {}
  BY <1>1, <1>3, <1>4, SizedIsLargest
<1>5. CASE Within(budget, stop, raised, margin) # {}
  <2>1. Sized(budget, stop, raised, margin) \in Within(budget, stop, raised, margin)
    BY <1>1, <1>5, SizedIsLargest
  <2>2. QED BY <1>2, <2>1, SizedIsLargest
<1>6. QED BY <1>4, <1>5

\* Only an answer of the broker leads to another attempt.
LEMMA AttemptsAgain ==
  ASSUME SetupInv, RiskNext, setup'.attempt > setup.attempt
  PROVE  \E margin \in Estimates(setup) :
           /\ setup.at = "exact"
           /\ setup' = WithVolumes([[setup EXCEPT !.margin = margin] EXCEPT !.attempt = @ + 1,
                                                !.rate = Raised(setup, margin)])
<1>1. setup \in Setups
  BY DEF SetupInv
<1>2. setup.attempt \in Nat /\ setup'.attempt # setup.attempt /\ DOMAIN setup = Fields
  BY <1>1 DEF Setups, Fields
<1>3. setup' # NoSetup /\ ~Constrains
  <2>1. NoSetup.attempt = 0 /\ DOMAIN NoSetup = Fields
    BY NoSetupFields DEF NoSetup
  <2>2. ASSUME Constrains PROVE FALSE
    <3>1. PICK equity, used, stop :
            setup' = [NoSetup EXCEPT !.at = "constrained", !.equity = equity, !.used = used, !.stop = stop]
      BY <2>2 DEF Constrains
    <3>2. setup'.attempt = 0
      BY <2>1, <3>1 DEF Fields
    <3>3. QED BY <1>2, <3>2
  <2>3. QED BY <1>2, <2>1, <2>2
<1>4. ASSUME NEW side \in Sides, EvaluatesSingle(side) PROVE FALSE
  BY <1>2, <1>4 DEF EvaluatesSingle, Fields
<1>5. ASSUME EvaluatesPair \/ Rechecks \/ Places PROVE FALSE
  BY <1>2, <1>5 DEF EvaluatesPair, Rechecks, Places, Fields
<1>6. ASSUME NEW c \in Accountants, AsksSafety(c) PROVE FALSE
  BY <1>2, <1>6 DEF AsksSafety, Fields
<1>7. ~MinimumAnswers
  <2> SUFFICES ASSUME MinimumAnswers PROVE FALSE
    OBVIOUS
  <2>1. PICK rates : LET asked == [setup EXCEPT !.rate = rates]
                     IN IF IsPair(setup)
                        THEN setup' = WithVolumes([asked EXCEPT !.sized = EffectiveRisk])
                        ELSE setup' = WithVolumes(asked)
    BY DEF MinimumAnswers
  <2>2. ASSUME NEW s, setup' = WithVolumes(s), s.attempt = setup.attempt,
               DOMAIN s = DOMAIN setup PROVE FALSE
    BY <1>2, <2>2 DEF WithVolumes, Fields
  <2>3. QED BY <1>2, <2>1, <2>2 DEF Fields
<1>8. Confirms
  BY <1>2, <1>3, <1>4, <1>5, <1>6, <1>7 DEF RiskNext, Sizes, Rejects
<1>9. PICK margin \in Estimates(setup) :
        \/ setup' = [[setup EXCEPT !.margin = margin] EXCEPT !.at = "sized", !.reported = ReportedBy(setup)]
        \/ setup' = WithVolumes([[setup EXCEPT !.margin = margin] EXCEPT !.attempt = @ + 1,
                                                                      !.rate = Raised(setup, margin)])
  BY <1>8 DEF Confirms
<1>10. setup' # [[setup EXCEPT !.margin = margin] EXCEPT !.at = "sized", !.reported = ReportedBy(setup)]
  BY <1>2 DEF Fields
<1>11. QED BY <1>8, <1>9, <1>10 DEF Confirms

\* Revised estimates never enlarge a volume (oco-risk-evaluator.ts:262).
THEOREM VolumesNeverEnlarged == RiskSpec => NeverEnlarged
<1>1. SetupInv /\ [RiskNext]_riskVars
        => [setup'.attempt > setup.attempt =>
              \A side \in setup.legs : setup'.volume[side] <= setup.volume[side]]_setup
  <2> SUFFICES ASSUME SetupInv, RiskNext, setup'.attempt > setup.attempt, NEW side \in setup.legs
               PROVE  setup'.volume[side] <= setup.volume[side]
    BY DEF riskVars
  <2>1. PICK margin \in Estimates(setup) :
          /\ setup.at = "exact"
          /\ setup' = WithVolumes([[setup EXCEPT !.margin = margin] EXCEPT !.attempt = @ + 1,
                                               !.rate = Raised(setup, margin)])
    BY AttemptsAgain
  <2> DEFINE s == [[setup EXCEPT !.margin = margin] EXCEPT !.attempt = @ + 1, !.rate = Raised(setup, margin)]
             budget == LegBudget(setup.equity, setup.sized)
             raised == Raised(setup, margin)[side]
  <2>2. /\ setup \in Setups /\ setup.legs \in {Sides, {"BUY"}, {"SELL"}} /\ side \in Sides
        /\ \A x \in setup.legs : setup.rate[x] > 0 /\ setup.volume[x] > 0
        /\ setup.stop[side] > 0
        /\ setup.volume[side] = Sized(budget, setup.stop[side], setup.rate[side], LegMargin(setup))
    BY <2>1 DEF SetupInv, Setups, Legged, VolumesSized, Proposed, Evaluated
  <2>3. margin \in [Sides -> Nat]
    BY <2>2, EstimateTyped
  <2>4. raised \in Nat /\ raised >= setup.rate[side]
    BY <2>2, <2>3, RatesRise
  <2>5. /\ s.legs = setup.legs /\ s.equity = setup.equity /\ s.used = setup.used /\ s.sized = setup.sized
        /\ s.stop = setup.stop /\ s.rate = Raised(setup, margin) /\ DOMAIN s = DOMAIN setup
    BY <2>2 DEF Setups
  <2> HIDE DEF s, raised
  <2>6. LegMargin(s) = LegMargin(setup)
    BY <2>5 DEF LegMargin, AllowedMargin, FreeMargin, IsPair
  <2>7. setup'.volume = [x \in Sides |->
            IF x \in s.legs
            THEN Sized(LegBudget(s.equity, s.sized), s.stop[x], s.rate[x], LegMargin(s)) ELSE 0]
    BY <2>1, <2>2, <2>5 DEF WithVolumes, Setups, s
  <2>8. setup'.volume[side] = Sized(budget, setup.stop[side], raised, LegMargin(setup))
    BY <2>2, <2>5, <2>6, <2>7 DEF raised
  <2>9. /\ budget \in Int /\ LegMargin(setup) \in Int
        /\ setup.stop[side] \in Nat \ {0} /\ setup.rate[side] \in Nat \ {0}
    BY <2>2, LimitsTyped DEF Setups
  <2> HIDE DEF budget
  <2>10. Sized(budget, setup.stop[side], raised, LegMargin(setup))
          <= Sized(budget, setup.stop[side], setup.rate[side], LegMargin(setup))
    BY <2>4, <2>9, DearerIsNoLarger
  <2>11. QED BY <2>2, <2>8, <2>10
<1>2. QED BY <1>1, SetupInvariant, PTL DEF RiskSpec, NeverEnlarged
===============================================================================

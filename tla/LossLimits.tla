------------------------------ MODULE LossLimits ------------------------------
(***************************************************************************)
(* What safety() does to the money management: it reads the account, then  *)
(* reconciles the daily loss (DailyRiskStore), then the high water         *)
(* (CapitalRiskStore), and leaves the multiplier and the cap of the next   *)
(* setup in the memory of the process. Several calls overlap, each with    *)
(* the account as it was read, while money is paid in and out, the day     *)
(* ends and the process restarts. Between two readings the account trades: *)
(* a reading finds it worth any of Results, and what was paid in.          *)
(*                                                                         *)
(* Percentages are in hundredths of a percent, money that is less than the *)
(* account in hundredths, a multiplier in quarters.                        *)
(***************************************************************************)
EXTENDS Integers

CONSTANTS Accountants,  \* the calls of safety() that overlap
          Results,      \* what the account may be worth, but for what was paid in or out
          Payments,     \* what may be paid in (or out, if negative)
          MaxDays,      \* bound on the trading days
          MaxReadings   \* bound on the readings of the account

ASSUME LossAssumption == Results \subseteq Int /\ Payments \subseteq Int /\ MaxDays \in Nat \ {0}

\* The policy: policy.ts, MONEY_MANAGEMENT and DEMO_SETUP_RISK_PERCENT.
DailyLimit == 500
DrawdownLimit == 500
DemoCap == 500

Unstored == [known |-> FALSE, baseline |-> 0, locked |-> FALSE]
Unreferenced == [known |-> FALSE, paid |-> 0, high |-> 0, multiplier |-> 0, locked |-> FALSE,
                 read |-> 0]
Unread == [at |-> "idle", equity |-> 0, paid |-> 0, read |-> 0, day |-> 0, flows |-> 0,
           baseline |-> 0, locked |-> FALSE, referred |-> FALSE, multiplier |-> 0]
\* What the process starts with, and what any failure leaves.
NoCapacity == [multiplier |-> 0, cap |-> 0]

VARIABLES
  enforced, \* enforcesLossLimits: the mode is not demo
  paid,     \* what was paid in, less what was paid out
  opening,  \* what had been, when the day began
  today,
  readings, \* readings of the account so far
  cached,   \* cashFlowCache: the day, and its flows, last asked of the broker
  daily,    \* daily_risk_state, a row for each day
  capital,  \* capital_risk_state, the row of the account
  audit,    \* what each safety() has read so far
  capacity  \* capitalMultiplier and capitalRiskCap

account == <<paid, opening, today>>
tables == <<daily, capital>>
lossVars == <<enforced, account, readings, cached, tables, audit, capacity>>

LossInit ==
  /\ enforced \in BOOLEAN
  /\ paid = 0 /\ opening = 0 /\ today = 1
  /\ readings = 0 /\ cached = [day |-> 0, flows |-> 0]
  /\ daily = [d \in 1 .. MaxDays |-> Unstored] /\ capital = Unreferenced
  /\ audit = [c \in Accountants |-> Unread] /\ capacity = NoCapacity

Positive(x) == IF x > 0 THEN x ELSE 0
Lesser(x, y) == IF x < y THEN x ELSE y
Greater(x, y) == IF x > y THEN x ELSE y

\* part is at least percent of whole, in hundredths of a percent.
Reaches(part, whole, percent) == 10000 * part >= percent * whole

-----------------------------------------------------------------------------
(* dailyLoss and DailyRiskStore.reconcile *)

\* dailyLoss: what is missing of the baseline, payments set aside.
Loss(baseline, flows, equity) == Positive(baseline + flows - equity)

\* reconcileAccountSafely: the account, as it is now.
ReadsAccount(c) ==
  /\ audit[c].at = "idle" /\ readings < MaxReadings /\ readings' = readings + 1
  /\ \E result \in Results :
       audit' = [audit EXCEPT ![c] = [Unread EXCEPT !.at = "account", !.equity = result + paid,
                                                  !.paid = paid, !.read = readings']]
  /\ UNCHANGED <<enforced, account, cached, tables, capacity>>

\* dailyNetFlows: from the cache of the day, ten seconds old at most, or from the broker.
ReadsFlows(c) ==
  /\ audit[c].at = "account"
  /\ \E flows \in {paid - opening} \cup {cached.flows : d \in {cached.day} \cap {today}} :
       /\ cached' = [day |-> today, flows |-> flows]
       /\ audit' = [audit EXCEPT ![c] = [@ EXCEPT !.at = "flows", !.day = today, !.flows = flows]]
  /\ UNCHANGED <<enforced, account, readings, tables, capacity>>

\* The row of the day. Without one, and within the grace of the day's beginning, the
\* account as it was read makes a baseline.
ReadsRow(c) ==
  /\ audit[c].at = "flows"
  /\ LET row == daily[audit[c].day]
         baseline == IF row.known THEN row.baseline ELSE audit[c].equity - audit[c].flows
     IN /\ baseline > 0
        /\ audit' = [audit EXCEPT ![c] = [@ EXCEPT !.at = "daily", !.baseline = baseline,
                                          !.locked = row.locked]]
  /\ UNCHANGED <<enforced, account, readings, cached, tables, capacity>>

LossReaches(c, percent) ==
  Reaches(Loss(audit[c].baseline, audit[c].flows, audit[c].equity), audit[c].baseline, percent)

\* What the statement is given for the lock: the row as it was read, or the loss.
LockFound(c) == audit[c].locked \/ LossReaches(c, DailyLimit)

\* Mutant of LockReturned: the answer is the lock found.
LockAsFound(c) == LockFound(c)

\* RETURNING locked_out: of the row as it is now, or the lock found.
LockReturned(c) == daily[audit[c].day].locked \/ LockFound(c)

\* INSERT ... ON CONFLICT: the first to store the day stores its baseline. Then the
\* reference of the account is read: nothing another call may do tells the two apart.
WritesDaily(c) ==
  /\ audit[c].at = "daily"
  /\ daily' = [daily EXCEPT ![audit[c].day] =
                 [known |-> TRUE, baseline |-> IF @.known THEN @.baseline ELSE audit[c].baseline,
                  locked |-> @.locked \/ LockFound(c)]]
  /\ audit' = [audit EXCEPT ![c] = [@ EXCEPT !.at = "capital", !.locked = LockReturned(c),
                                           !.referred = capital.known]]
  /\ UNCHANGED <<enforced, account, readings, cached, capital, capacity>>

\* remainingLossBudget: the loss the day has left, by that answer.
Remaining(c) ==
  IF audit[c].locked THEN 0
  ELSE Positive(DailyLimit * audit[c].baseline
                - 10000 * Loss(audit[c].baseline, audit[c].flows, audit[c].equity)) \div 100

-----------------------------------------------------------------------------
(* capitalRisk, CapitalRiskStore.reconcile and capitalAdmission *)

\* The multiplier by the drawdown and the loss of the day alone.
Reduced(c, fall, high) ==
  IF Reaches(fall, high, 400) \/ LossReaches(c, 375) THEN 1
  ELSE IF Reaches(fall, high, 200) \/ LossReaches(c, 250) THEN 2 ELSE 4

\* Mutant of LiftsReduction: below either threshold is enough.
LiftsEither(c, fall, high) == ~Reaches(fall, high, 100) \/ ~LossReaches(c, 125)

\* A reduction ends only below both.
LiftsReduction(c, fall, high) == ~Reaches(fall, high, 100) /\ ~LossReaches(c, 125)

\* capitalRisk: what was paid since the reference is no result.
Adjusted(c) ==
  audit[c].equity - (IF capital.known /\ audit[c].referred THEN audit[c].paid - capital.paid ELSE 0)

CapitalAfter(c) ==
  LET high == IF capital.known THEN Greater(capital.high, Adjusted(c)) ELSE Adjusted(c)
      fall == high - Adjusted(c)
      locked == (capital.known /\ capital.locked) \/ Reaches(fall, high, DrawdownLimit)
  IN [known |-> TRUE, paid |-> IF capital.known THEN capital.paid ELSE audit[c].paid,
      high |-> high, locked |-> locked, read |-> audit[c].read,
      multiplier |->
        IF locked THEN 0
        ELSE IF capital.known /\ ~LiftsReduction(c, fall, high)
             THEN Lesser(Reduced(c, fall, high), capital.multiplier)
             ELSE Reduced(c, fall, high)]

\* CAPITAL_OBSERVATION_REGRESSED: the account was read before what is stored.
Regressed(c) == capital.known /\ audit[c].read < capital.read

\* CapitalRiskStore.reconcile: one transaction, under the advisory lock of the account.
WritesCapital(c) ==
  /\ audit[c].at = "capital" /\ ~Regressed(c) /\ Adjusted(c) >= 0
  /\ capital' = CapitalAfter(c)
  /\ audit' = [audit EXCEPT ![c] = [@ EXCEPT !.at = "admission", !.multiplier = capital'.multiplier]]
  /\ UNCHANGED <<enforced, account, readings, cached, daily, capacity>>

\* availableCapitalRiskPercent: what the day has left, of the account as it was read.
Available(c) == Lesser(10000, (100 * Remaining(c)) \div audit[c].equity)

\* capitalAdmission: demo measures the losses, and sizes by the account alone.
Admits(c) ==
  /\ audit[c].at = "admission" /\ audit[c].equity > 0
  /\ capacity' = IF enforced THEN [multiplier |-> audit[c].multiplier, cap |-> Available(c)]
                 ELSE [multiplier |-> 4, cap |-> DemoCap]
  /\ audit' = [audit EXCEPT ![c] = Unread]
  /\ UNCHANGED <<enforced, account, readings, cached, tables>>

\* Any of it throws, an older observation too: no capacity.
FailsAccounting(c) ==
  /\ audit[c].at # "idle"
  /\ audit' = [audit EXCEPT ![c] = Unread] /\ capacity' = NoCapacity
  /\ UNCHANGED <<enforced, account, readings, cached, tables>>

-----------------------------------------------------------------------------
(* The account, the day, the operator and the process *)

\* Money is paid in or out once.
Pays ==
  /\ paid = 0 /\ paid' \in Payments
  /\ UNCHANGED <<enforced, opening, today, readings, cached, tables, audit, capacity>>

DayEnds ==
  /\ today < MaxDays /\ today' = today + 1 /\ opening' = paid
  /\ UNCHANGED <<enforced, paid, readings, cached, tables, audit, capacity>>

\* initializeReconciledBaseline: the account as it is, without what was paid since.
InitialRow(result) == [known |-> TRUE, baseline |-> result + opening, locked |-> FALSE]

\* initializeDailyRiskBaseline: demo's operator, on a day without a row, a deal or a position.
InitializesBaseline ==
  /\ ~enforced /\ ~daily[today].known
  /\ \E result \in Results :
       result + opening > 0 /\ daily' = [daily EXCEPT ![today] = InitialRow(result)]
  /\ UNCHANGED <<enforced, account, readings, cached, capital, audit, capacity>>

ProcessRestarts ==
  /\ cached' = [day |-> 0, flows |-> 0] /\ capacity' = NoCapacity
  /\ audit' = [c \in Accountants |-> Unread]
  /\ UNCHANGED <<enforced, account, readings, tables>>

LossMoves ==
  \/ \E c \in Accountants : ReadsAccount(c) \/ ReadsFlows(c) \/ ReadsRow(c) \/ WritesDaily(c)
                            \/ WritesCapital(c) \/ Admits(c) \/ FailsAccounting(c)
  \/ Pays \/ DayEnds \/ InitializesBaseline

LossNext == LossMoves \/ ProcessRestarts

LossSpec == LossInit /\ [][LossNext]_lossVars

-----------------------------------------------------------------------------
\* "Daily lockout is durable until the next valid day; neither AI, a policy update, nor
\* restart resets it. The returned admission budget uses the persisted lock, including a
\* lock latched by an overlapping reconciler" (docs/risk-model.md:285): no write unlocks a
\* day, whatever was read before it, and whoever writes a locked day has nothing left of it.
DailyLockHolds ==
  [][/\ \A d \in 1 .. MaxDays : daily[d].locked => daily'[d].locked
     /\ \A c \in Accountants :
          audit[c].at = "daily" /\ audit'[c].at = "capital" /\ daily[audit[c].day].locked
            => Remaining(c)' = 0]_lossVars

\* "A transaction/advisory lock protects the high water and persisted reduction state"; a
\* reduction "recovers only below both 1% drawdown and 1.25% daily loss", the lock never
\* (docs/risk-model.md:297): whatever calls overlap and whenever the process restarts, the
\* row of the account follows ever newer observations, its high water never falls and its
\* multiplier rises only by an observation below both thresholds.
CapitalRatchets ==
  [][capital.known =>
       /\ capital'.known /\ capital'.paid = capital.paid
       /\ capital'.read >= capital.read /\ capital'.high >= capital.high
       /\ capital.locked => capital'.locked /\ capital'.multiplier = 0
       /\ capital'.multiplier > capital.multiplier =>
            \E c \in Accountants :
              /\ audit[c].read = capital'.read /\ ~LossReaches(c, 125)
              /\ ~Reaches(capital'.high - Adjusted(c), capital'.high, 100)]_lossVars
=============================================================================

------------------------------ MODULE SetupRisk -------------------------------
(***************************************************************************)
(* From the account and the capacity LossLimits leaves to the volumes of   *)
(* an entry: the coordinator bounds the stops, OcoRiskEvaluator sizes one  *)
(* order or a pair and confirms their margin with the broker, and the      *)
(* coordinator checks stops, account and percentage again before it places *)
(* them. safety() runs between any two of those awaits and may change the  *)
(* capacity; each step says when it reads it.                              *)
(*                                                                         *)
(* A stop is its distance in ticks. Prices are left out: the commission of *)
(* a volume is what it is at the highest price the stop allows for.        *)
(***************************************************************************)
EXTENDS LossLimits, FiniteSets

CONSTANTS Stops,       \* the stops the model may propose
          Used,        \* margin other symbols may hold
          Rates,       \* what the broker may ask for a volume of one
          MarginUsage, \* maxMarginUsagePercent
          TickMoney,   \* what one tick costs a volume of one
          Conversion,  \* what converting that loss costs
          Slip,        \* adverseSlippagePoints
          Fee,         \* commission of a volume of one, one way
          MinimumFee,  \* and its minimum
          MinVolume, VolumeStep, MaxVolume

ASSUME SetupAssumption ==
  /\ Stops \subseteq Nat \ {0} /\ Used \subseteq Nat /\ Rates \subseteq Nat \ {0}
  /\ MarginUsage \in 1 .. 100 /\ TickMoney \in Nat \ {0} /\ Conversion \in Nat /\ Slip \in Nat
  /\ Fee \in Nat /\ MinimumFee \in Nat
  /\ MinVolume \in Nat \ {0} /\ VolumeStep \in Nat \ {0} /\ MaxVolume \in Nat /\ MaxVolume >= MinVolume

Sides == {"BUY", "SELL"}
Neither == [side \in Sides |-> 0]
NoSetup == [at |-> "idle", legs |-> {}, equity |-> 0, used |-> 0, stop |-> Neither, rate |-> Neither,
            volume |-> Neither, margin |-> Neither, sized |-> 0, reported |-> 0, attempt |-> 0,
            auditor |-> "none"]

\* The run of the coordinator, what evaluate knows at its awaits, and the call of safety() that
\* is awaited.
VARIABLE setup

SetupInit == setup = NoSetup

-----------------------------------------------------------------------------
(* sizePosition and maximumAffordableStopDistance *)

\* A leg's half of the risk of the setup.
LegBudget(equity, percent) == (equity * percent) \div 200

\* stopCostReserve: both commissions, the slippage, and the conversion of the loss.
StopCosts(volume, stop) ==
  2 * Greater(Fee * volume, MinimumFee) + volume * (TickMoney * Slip + Conversion * (stop + Slip))

TotalLoss(volume, stop) == volume * TickMoney * stop + StopCosts(volume, stop)

\* proposalConstraints: the stop the smallest volume can afford, 0 if none. The costs are
\* those of the stop it could afford without any.
MaxStop(equity, percent) ==
  LET budget == LegBudget(equity, percent)
      affordable == budget \div (TickMoney * MinVolume)
      left == budget - StopCosts(MinVolume, affordable)
  IN IF affordable < 1 THEN 0 ELSE Positive(left) \div (TickMoney * MinVolume)

\* Steps of the native grid above the minimum that a volume allows.
StepsWithin(volume) == (volume - MinVolume) \div VolumeStep
OnGrid(steps) == MinVolume + steps * VolumeStep

\* A step of the binary search for the largest volume the budget affords: what it finds between
\* the two ends of range, if search is what it finds between others.
Halved(search, range, budget, stop) ==
  LET mid == (range[1] + range[2] + 1) \div 2
  IN IF range[1] >= range[2] THEN range[1]
     ELSE IF TotalLoss(OnGrid(mid), stop) <= budget THEN search[<<mid, range[2]>>]
     ELSE search[<<range[1], mid - 1>>]

Search(budget, stop, most) ==
  LET search[range \in (0 .. most) \X (0 .. most)] == Halved(search, range, budget, stop)
  IN search[<<0, most>>]

\* Mutant of Sized: the volume is rounded to the grid with its costs left out.
SizedWithoutCosts(budget, stop, rate, margin) ==
  LET raw == budget \div (TickMoney * stop)
  IN IF raw < MinVolume \/ margin < MinVolume * rate THEN 0
     ELSE OnGrid(Lesser(StepsWithin(Lesser(raw, MaxVolume)), StepsWithin(margin \div rate)))

\* sizePosition: the volume, 0 if it rejects. Its last checks repeat what the search keeps.
Sized(budget, stop, rate, margin) ==
  LET raw == budget \div (TickMoney * stop)
      most == Lesser(StepsWithin(Lesser(raw, MaxVolume)), StepsWithin(margin \div rate))
  IN IF raw < MinVolume \/ margin < MinVolume * rate \/ TotalLoss(MinVolume, stop) > budget THEN 0
     ELSE OnGrid(Search(budget, stop, most))

-----------------------------------------------------------------------------
(* OcoRiskEvaluator *)

\* #effectiveRisk: 0 if it throws.
EffectiveRisk ==
  Lesser(((IF enforced THEN 100 ELSE DemoCap) * capacity.multiplier) \div 4, capacity.cap)

\* Mutant of FreeMargin: all that is free.
AllFree(s) == 100 * (s.equity - s.used)

\* Margin free after one loss of the setup, and what the usage limit leaves of it.
FreeMargin(s) == Positive(100 * (s.equity - s.used) - (s.equity * s.sized + 99) \div 100)
AllowedMargin(s) == Lesser(FreeMargin(s), s.equity * MarginUsage - 100 * s.used)

IsPair(s) == s.legs = Sides

\* sizeOcoPair gives each leg half of the margin.
LegMargin(s) == IF IsPair(s) THEN AllowedMargin(s) \div 2 ELSE AllowedMargin(s)

\* The volumes at these rates; one that is refused refuses the setup.
WithVolumes(s) ==
  LET volume == [side \in Sides |->
        IF side \in s.legs
        THEN Sized(LegBudget(s.equity, s.sized), s.stop[side], s.rate[side], LegMargin(s)) ELSE 0]
  IN [s EXCEPT !.volume = volume,
               !.at = IF LegMargin(s) > 0 /\ \A side \in s.legs : volume[side] > 0
                      THEN "exact" ELSE "refused"]

-----------------------------------------------------------------------------
(* The steps of the coordinator. Any rejection ends the run. *)

Rejects == setup.at \notin {"idle", "placed"} /\ setup' = NoSetup

\* The account and its constraints, after the model answered: the proposal's stops fit.
Constrains ==
  /\ setup.at = "idle" /\ EffectiveRisk > 0
  /\ \E result \in Results, used \in Used :
       LET equity == result + paid
       IN \E stop \in [Sides -> {x \in Stops : x <= MaxStop(equity, EffectiveRisk)}] :
            /\ equity > used
            /\ setup' = [NoSetup EXCEPT !.at = "constrained", !.equity = equity, !.used = used,
                                        !.stop = stop]

\* evaluate: one side reads the percentage before it asks for the margin of the minimum.
EvaluatesSingle(side) ==
  /\ setup.at = "constrained" /\ EffectiveRisk > 0
  /\ setup' = [setup EXCEPT !.at = "minimum", !.legs = {side}, !.sized = EffectiveRisk,
                            !.reported = EffectiveRisk]

EvaluatesPair ==
  /\ setup.at = "constrained"
  /\ setup' = [setup EXCEPT !.at = "minimum", !.legs = Sides]

\* The margin of the minimum: a pair reads the percentage now.
MinimumAnswers ==
  /\ setup.at = "minimum"
  /\ \E rate \in [setup.legs -> Rates] :
       LET asked == [setup EXCEPT !.rate = [side \in Sides |->
                                              IF side \in setup.legs THEN rate[side] ELSE 0]]
       IN IF IsPair(setup)
          THEN EffectiveRisk > 0 /\ setup' = WithVolumes([asked EXCEPT !.sized = EffectiveRisk])
          ELSE setup' = WithVolumes(asked)

MarginOf(s) == s.margin["BUY"] + s.margin["SELL"]

\* What the broker asks for the exact volumes.
Estimates(s) ==
  {[side \in Sides |-> IF side \in s.legs THEN s.volume[side] * rate[side] ELSE 0] :
     rate \in [s.legs -> Rates]}

\* Mutant of Raised: the estimate replaces the rate.
RaisedOrNot(s, margin) ==
  [side \in Sides |-> IF side \in s.legs THEN margin[side] \div s.volume[side] ELSE 0]

\* Revised estimates only increase.
Raised(s, margin) ==
  [side \in Sides |-> IF side \in s.legs
                      THEN Greater(s.rate[side], margin[side] \div s.volume[side]) ELSE 0]

\* Mutant of ReportedBy: a single order, too, reads the percentage again.
ReportedNow(s) == EffectiveRisk

\* perLegRiskPercent, twice: a pair reads the percentage again, after the awaits.
ReportedBy(s) == IF IsPair(s) THEN EffectiveRisk ELSE s.reported

\* The exact volumes' margin: enough, or sized again with the rates raised, twice at most.
Confirms ==
  /\ setup.at = "exact"
  /\ \E margin \in Estimates(setup) :
       LET known == [setup EXCEPT !.margin = margin]
       IN IF MarginOf(known) <= AllowedMargin(setup)
          THEN /\ ReportedBy(setup) > 0
               /\ setup' = [known EXCEPT !.at = "sized", !.reported = ReportedBy(setup)]
          ELSE /\ setup.attempt < 2
               /\ setup' = WithVolumes([known EXCEPT !.attempt = @ + 1,
                                                     !.rate = Raised(setup, margin)])

\* safety(), before the final refresh of the market.
AsksSafety(c) ==
  /\ setup.at = "sized" /\ ReadsAccount(c)
  /\ setup' = [setup EXCEPT !.at = "asked", !.auditor = c]

\* The account is as it was, and the constraints still hold.
Rechecks ==
  /\ setup.at = "asked" /\ audit[setup.auditor].at = "idle" /\ EffectiveRisk > 0
  /\ setup.equity - paid \in Results
  /\ \A side \in setup.legs : setup.stop[side] <= MaxStop(setup.equity, EffectiveRisk)
  /\ setup' = [setup EXCEPT !.at = "checked"]

\* CAPITAL_RISK_CHANGED_BEFORE_PLACEMENT: none, and the orders go to the gateway.
Places ==
  /\ setup.at = "checked" /\ EffectiveRisk > 0 /\ setup.reported <= EffectiveRisk
  /\ setup' = [setup EXCEPT !.at = "placed"]

Sizes ==
  /\ Rejects \/ Constrains \/ EvaluatesPair \/ (\E side \in Sides : EvaluatesSingle(side))
     \/ MinimumAnswers \/ Confirms \/ Rechecks \/ Places
  /\ UNCHANGED lossVars

\* The accounting goes on meanwhile.
RiskNext ==
  \/ Sizes
  \/ \E c \in Accountants : AsksSafety(c)
  \/ LossMoves /\ UNCHANGED setup
  \/ ProcessRestarts /\ setup' = NoSetup

riskVars == <<lossVars, setup>>
RiskSpec == LossInit /\ SetupInit /\ [][RiskNext]_riskVars

-----------------------------------------------------------------------------
\* "Binary search the monotone cost-inclusive loss on the native volume grid; rounding up to
\* broker minimum is never allowed" (risk.ts:243): each leg has the largest volume whose loss
\* with all costs is within its half of the risk, and whose margin within its share, at the
\* rates known so far. There is none exactly when the setup is refused for it.
Affordable(s, side) ==
  {volume \in {OnGrid(steps) : steps \in 0 .. StepsWithin(MaxVolume)} :
     /\ TotalLoss(volume, s.stop[side]) <= LegBudget(s.equity, s.sized)
     /\ volume * s.rate[side] <= LegMargin(s)}

LargestVolume ==
  setup.at \in {"exact", "refused"} =>
    \A side \in setup.legs :
      LET within == Affordable(setup, side)
      IN IF within = {} THEN setup.volume[side] = 0
         ELSE /\ setup.volume[side] \in within
              /\ \A volume \in within : volume <= setup.volume[side]

\* "Reserve one full modeled setup loss in free margin" (oco-risk-evaluator.ts:203): whatever
\* the broker asked in the end, the margin of the orders and their loss fit into what is free.
Losses(s) ==
  LET loss(side) == IF side \in s.legs THEN TotalLoss(s.volume[side], s.stop[side]) ELSE 0
  IN loss("BUY") + loss("SELL")

LossStaysFree ==
  setup.at \in {"sized", "asked", "checked", "placed"} =>
    MarginOf(setup) + Losses(setup) <= 100 * (setup.equity - setup.used)

\* "At most three exact-volume confirmations; revised estimates only increase, and never
\* enlarge size" (oco-risk-evaluator.ts:262).
NeverEnlarged ==
  [][setup'.attempt > setup.attempt =>
       \A side \in setup.legs : setup'.volume[side] <= setup.volume[side]]_setup

\* "The remaining monetary budget is rounded down and caps every new setup, including a final
\* risk-cap check" (docs/risk-model.md:283): the loss of what is placed is within the risk
\* the accounting allows then; of one order, within half of it.
Placed == setup.at # "placed" /\ setup'.at = "placed"
SingleCapped ==
  [][Placed /\ ~IsPair(setup) => 200 * Losses(setup) <= setup.equity * EffectiveRisk]_setup
PairCapped ==
  [][Placed /\ IsPair(setup) => Losses(setup) * 100 <= setup.equity * EffectiveRisk]_setup
=============================================================================

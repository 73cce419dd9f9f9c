---------------------------- MODULE ProtectionPlan ----------------------------
(***************************************************************************)
(* protectionPlan: the stop and the target a position should have, from    *)
(* the approved order, the average price of its fills and what the broker  *)
(* holds for it. PositionProtection takes the verdict; here is how it      *)
(* comes about.                                                            *)
(*                                                                         *)
(* Prices are whole numbers of a unit that divides them all, the tick      *)
(* included: decimal.js adds, compares and rounds them exactly.            *)
(***************************************************************************)
EXTENDS Integers

\* The approved order, and the price of the position (often between two ticks).
Intents == [side : {"BUY", "SELL"}, structural : BOOLEAN, tick : Nat \ {0},
            orderEntry : Nat \ {0}, orderStop : Nat \ {0}, orderTarget : Nat \ {0},
            price : Nat \ {0}]
Missing == 0
\* What the broker holds.
Protections == [stop : Nat, target : Nat]

CONSTANTS Approved,  \* the approved orders, each with the price of its position
          Holdings   \* what the broker may hold when a pass reads it

ASSUME PlanAssumption == Approved \subseteq Intents /\ Holdings \subseteq Protections

Lower(a, b) == IF a < b THEN a ELSE b
Higher(a, b) == IF a < b THEN b ELSE a

\* ROUND_FLOOR and ROUND_CEIL to the tick.
Floor(x, tick) == x - (x % tick)
Ceil(x, tick) == x + ((-x) % tick)

Buy(p) == p.side = "BUY"

\* What the order risks and hopes for, as a distance from its entry.
StopDistance(p) == IF Buy(p) THEN p.orderEntry - p.orderStop ELSE p.orderStop - p.orderEntry
TargetDistance(p) == IF Buy(p) THEN p.orderTarget - p.orderEntry
                               ELSE p.orderEntry - p.orderTarget

\* Those distances from the price of the position; a structural strategy keeps its levels.
ApprovedStop(p) ==
  IF p.structural THEN p.orderStop
  ELSE IF Buy(p) THEN p.price - StopDistance(p) ELSE p.price + StopDistance(p)
ApprovedTarget(p) ==
  IF p.structural THEN p.orderTarget
  ELSE IF Buy(p) THEN p.price + TargetDistance(p) ELSE p.price - TargetDistance(p)

\* Mutant: the stop is rounded away from the price.
RoundedStopAway(p) ==
  IF Buy(p) THEN Floor(ApprovedStop(p), p.tick) ELSE Ceil(ApprovedStop(p), p.tick)

\* Rounded towards the price, the stop and the target alike.
RoundedStop(p) ==
  IF Buy(p) THEN Ceil(ApprovedStop(p), p.tick) ELSE Floor(ApprovedStop(p), p.tick)
RoundedTarget(p) ==
  IF Buy(p) THEN Floor(ApprovedTarget(p), p.tick) ELSE Ceil(ApprovedTarget(p), p.tick)

\* What the broker holds closer to the price is kept.
Restored(p, held) ==
  [stop |-> IF held.stop = Missing THEN RoundedStop(p)
            ELSE IF Buy(p) THEN Higher(held.stop, RoundedStop(p))
                           ELSE Lower(held.stop, RoundedStop(p)),
   target |-> IF held.target = Missing THEN RoundedTarget(p)
              ELSE IF Buy(p) THEN Lower(held.target, RoundedTarget(p))
                             ELSE Higher(held.target, RoundedTarget(p))]

\* The plan is not refused. (A wrong owner, label, volume or state is among the Malformed
\* of PositionProtection.)
Accepts(p, held) ==
  /\ StopDistance(p) > 0 /\ TargetDistance(p) > 0
  /\ held.stop % p.tick = 0 /\ held.target % p.tick = 0
  /\ Restored(p, held).stop > 0 /\ Restored(p, held).target > 0

Verdict(p, held) ==
  IF ~Accepts(p, held) THEN "refused"
  ELSE IF held.stop = Missing THEN "missing"
  ELSE IF held # Restored(p, held) THEN "wide" ELSE "exact"

-----------------------------------------------------------------------------
\* What the position loses at its stop, and gains at its target.
Loss(p, held) == IF Buy(p) THEN p.price - held.stop ELSE held.stop - p.price
Gain(p, held) == IF Buy(p) THEN held.target - p.price ELSE p.price - held.target

\* Where an amendment leaves the broker, by the observation it was planned from.
Amended ==
  LET planned == {o \in Approved \X Holdings : Verdict(o[1], o[2]) \in {"missing", "wide"}}
  IN  {[verdict |-> Verdict(o[1], Restored(o[1], o[2])),
        within |-> o[1].structural \/ Loss(o[1], Restored(o[1], o[2])) <= StopDistance(o[1])]
       : o \in planned}
=============================================================================

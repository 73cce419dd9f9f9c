----------------------------- MODULE MCSetupRisk -----------------------------
(* SetupRisk with the accounting of LossLimits, on an account that may     *)
(* have lost 3% or 5.5% of what it had.                                    *)
EXTENDS SetupRisk, TLC

CONSTANTS first, second

MCAccountants == {first, second}
MCResults == {1000, 945}
MCReduced == {1000, 970}
MCPayments == {-30}
MCNone == {}
MCStops == {3, 8}
MCShort == {3}
MCUsed == {0, 400}
MCUnused == {0}
MCRates == {10000, 24000}
MCRate == {10000}
=============================================================================

---------------------------- MODULE MCRecorderRisk ----------------------------
(***************************************************************************)
(* Three parts checked side by side. They share no state here: a behaviour *)
(* moves one of them, chosen at the beginning.                             *)
(*   "recorder"  ExecutionRecorder, on executions with and without a deal; *)
(*   "losses"    LossLimits, on an account that loses 5.5% of what it had  *)
(*               and a withdrawal of 3%, in demo, where the operator may   *)
(*               set a baseline, too;                                      *)
(*   "setup"     SetupRisk, with any capacity safety() may leave.          *)
(***************************************************************************)
EXTENDS MCExecutionRecorder, MCSetupRisk

VARIABLE moving

MCSymmetry == Permutations(MCAccountants)

MCInit ==
  /\ Init /\ LossInit /\ SetupInit
  /\ moving \in {"recorder", "losses", "setup"}
  /\ moving # "setup" => ~enforced

Capacities ==
  IF enforced THEN {NoCapacity} \cup [multiplier : {1, 4}, cap : {30, 500}]
  ELSE {NoCapacity, [multiplier |-> 4, cap |-> DemoCap]}

\* The calls of safety() have ended, the last with any capacity.
SafetyEnds ==
  /\ capacity' \in Capacities /\ audit' = [c \in Accountants |-> Unread]
  /\ UNCHANGED <<enforced, account, readings, cached, tables, setup>>

RecorderMoves == moving = "recorder" /\ Next /\ UNCHANGED riskVars
LossesMove == moving = "losses" /\ LossNext /\ UNCHANGED <<vars, setup>>
SetupMoves ==
  /\ moving = "setup" /\ UNCHANGED vars
  /\ Sizes \/ SafetyEnds \/ (readings = 0 /\ AsksSafety(first))

MCNext == (RecorderMoves \/ LossesMove \/ SetupMoves) /\ UNCHANGED moving
MCSpec == MCInit /\ [][MCNext]_<<vars, riskVars, moving>>
=============================================================================

------------------------- MODULE MCExecutionRecorder -------------------------
(* ExecutionRecorder: executions with and without a deal, two reason codes. *)
EXTENDS ExecutionRecorder, TLC

CONSTANTS late, again, plain, deal, readiness, code, safety

MCFills == {deal}
MCFillOf == late :> deal @@ again :> deal @@ plain :> NoFill
MCFillOfTwo == late :> deal @@ plain :> NoFill
MCEvents == DOMAIN MCFillOf
MCTwoEvents == DOMAIN MCFillOfTwo
MCCodes == {readiness, code}
MCCallers == {safety}
=============================================================================

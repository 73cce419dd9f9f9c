------------------------- MODULE MCPositionProtection -------------------------
(* Parts checked side by side; a behaviour moves one of them, chosen at the   *)
(* beginning.                                                                 *)
(*   "protection"  PositionProtection on one or two positions and processes,  *)
(*                 with the prices its verdicts stand for;                    *)
(*   "contexts"    EntryContexts, in one process or two.                      *)
EXTENDS PositionProtection, EntryContexts, TLC

CONSTANTS odd, even, old, new

MCBoth == {odd, even}
MCOdd == {odd}
MCEven == {even}
MCNone == {}
MCOverlap == {old, new}
MCSingle == {new}
MCSymmetry == Permutations(MCOverlap)

\* A tick of three units, an entry at 12, fills around it, and whatever the broker may hold.
MCTicks == {6, 9, 15, 18}
MCIntents == [side : {"BUY", "SELL"}, structural : BOOLEAN, tick : {3}, orderEntry : {12},
              orderStop : MCTicks, orderTarget : MCTicks, price : 10 .. 14]
MCHeld == [stop : {Missing, 3, 12} \cup MCTicks, target : {Missing, 12, 21} \cup MCTicks]
-----------------------------------------------------------------------------
VARIABLE moving
mcVars == <<vars, contextVars, moving>>

MCInit ==
  /\ Init /\ ContextInit
  /\ moving \in {"protection", "contexts"}
  /\ moving = "contexts" => \A x \in Positions : stop[x] = "wide"

ProtectionMoves == moving = "protection" /\ Next /\ UNCHANGED contextVars
ContextsMove == moving = "contexts" /\ ContextNext /\ UNCHANGED vars

MCNext == (ProtectionMoves \/ ContextsMove) /\ UNCHANGED moving
MCSpec == MCInit /\ [][MCNext]_mcVars

\* The fairness of each part, owed by the part that moves.
MCFairSpec ==
  /\ MCSpec
  /\ \A p \in Processes : /\ WF_vars(moving = "protection" /\ Lock(p))
                          /\ WF_vars(moving = "protection" /\ Step(p))
  /\ \A x \in Positions : WF_vars(moving = "protection" /\ Elapse(x))
  /\ \A w \in Workers : /\ WF_contextVars(moving = "contexts" /\ Cycling(w))
                        /\ WF_contextVars(moving = "contexts" /\ Tasks(w))
  /\ WF_contextVars(moving = "contexts" /\ Tick)
=============================================================================

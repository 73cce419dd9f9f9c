---------------------------- MODULE MCOrderLedger ----------------------------
(* OrderLedger: the two orders of a pair, the buy filled at once or in two parts. *)
EXTENDS OrderLedger, TLC

CONSTANTS buy, sell, loop

MCPair == {buy, sell}
MCOne == {loop}
MCExpires == {"EXPIRED"}
MCVolume == buy :> 2 @@ sell :> 1
=============================================================================

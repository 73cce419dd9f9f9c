---------------------------- MODULE MCDemoGateway ----------------------------
(* DemoGateway on one OCO pair. *)
EXTENDS DemoGateway, TLC

CONSTANT pair

MCPair == {pair}
MCNone == {}
MCWithin == {"within"}

\* One fault: the connection is lost, or the process restarts.
OneFault == drops + restarts <= 1
=============================================================================

--------------------------- MODULE MCTransportOrders ---------------------------
(***************************************************************************)
(* Transport with two requests and, beside it, DemoGateway on two          *)
(* directional orders, the second placed after the first. They share no    *)
(* state here: a behaviour moves one of them, chosen at the beginning.     *)
(***************************************************************************)
EXTENDS MCTransport

CONSTANTS NoGroup, first, second

VARIABLES moving, \* the part that moves
          groups, tracked, leg, latch, slip, place, snap, call, sends, sent, feed, up, book,
          exposed, heard, drops, restarts \* of DemoGateway: leg is its order, sent its wire

gateway == <<groups, tracked, leg, latch, slip, place, snap, call, sends, sent, feed, up, book,
             exposed, heard, drops, restarts>>

Directional ==
  INSTANCE DemoGateway WITH
    Groups <- {first, second}, Oco <- {}, Volume <- 1, Prices <- {"within", "exceeded", "missing"},
    Maintained <- {first, second}, MaxDrops <- 1, MaxRestarts <- 0, MaxFeed <- 1,
    order <- leg, wire <- sent

\* Each order is handed to the transport once at most: see DemoGateway.
SentOnce == Directional!SentOnce

MCInit == Init /\ Directional!Init /\ moving \in {"transport", "orders"}

TransportMoves == moving = "transport" /\ Next /\ UNCHANGED gateway
OrdersMove ==
  /\ moving = "orders" /\ Directional!Next /\ UNCHANGED vars
  /\ second \in groups' => first \in groups'

MCNext == (TransportMoves \/ OrdersMove) /\ UNCHANGED moving
MCSpec == MCInit /\ [][MCNext]_<<vars, gateway, moving>> /\ Fairness
=============================================================================

----------------------------- MODULE MCTransport -----------------------------
(* Transport with one or two requests.                                     *)
EXTENDS Transport, TLC

CONSTANTS order, query

MCRequests == {order, query}
MCOrder == {order}
=============================================================================

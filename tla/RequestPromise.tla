---------------------------- MODULE RequestPromise ----------------------------
(***************************************************************************)
(* What the transport promises its callers: a request is put on a          *)
(* connection once at most, only while its caller waits for it, and a      *)
(* caller who was answered or refused is left alone from then on, however  *)
(* many connections are lost in between.                                   *)
(***************************************************************************)
CONSTANT Requests  \* the requests callers may make

VARIABLES phase,   \* where each request is
          waiting  \* the requests whose callers wait

Phases == {"unasked", "queued", "sent", "over"}
TypeOK == phase \in [Requests -> Phases] /\ waiting \subseteq Requests

Init == phase = [r \in Requests |-> "unasked"] /\ waiting = {}

Moves(r, from, to) == phase[r] = from /\ phase' = [phase EXCEPT ![r] = to]

Ask(r) == Moves(r, "unasked", "queued") /\ waiting' = waiting \cup {r}

Send(r) == Moves(r, "queued", "sent") /\ r \in waiting /\ UNCHANGED waiting

\* It is not sent after all, and its caller is told.
Withdraw(r) == Moves(r, "queued", "over") /\ waiting' = waiting \ {r}

\* Its answer arrives, for a caller who may have stopped waiting, or is not taken.
Answer(r) == Moves(r, "sent", "over") /\ waiting' \in {waiting, waiting \ {r}}

\* A deadline, or a lost connection, ends the waiting of some.
GiveUp == waiting' \subseteq waiting /\ UNCHANGED phase

Next == GiveUp \/ \E r \in Requests : Ask(r) \/ Send(r) \/ Withdraw(r) \/ Answer(r)

Spec == Init /\ [][Next]_<<phase, waiting>>

=============================================================================

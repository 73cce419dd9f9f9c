----------------------------- MODULE EntryPromise -----------------------------
(***************************************************************************)
(* What admission promises the account: a strategy entry is sent to the    *)
(* broker once, and only while no other strategy entry is on its way or    *)
(* working there, whatever the callers, the restarts and the delays are.   *)
(***************************************************************************)
CONSTANT Groups  \* the order groups a strategy may send

VARIABLES fresh, \* the groups never sent
          live   \* the groups on their way to the broker, or working there

TypeOK == fresh \subseteq Groups /\ live \subseteq Groups

Init == fresh = Groups /\ live = {}

\* A group is sent.
Open(g) == g \in fresh /\ live = {} /\ fresh' = fresh \ {g} /\ live' = {g}

\* The broker ends it: refused, lost, cancelled, expired, or its position closed.
Close(g) == g \in live /\ live' = live \ {g} /\ UNCHANGED fresh

Next == \E g \in Groups : Open(g) \/ Close(g)

Spec == Init /\ [][Next]_<<fresh, live>>

-----------------------------------------------------------------------------
\* Never two entries exposed at the same time (RELEVANT_PENDING_ORDER_EXISTS,
\* RELEVANT_POSITION_EXISTS).
AtMostOne == \A g, h \in live : g = h
=============================================================================

----------------------- MODULE PositionProtectionProofs -----------------------
(***************************************************************************)
(* Proofs about PositionProtection: type correctness, and the bound on the *)
(* commands a position is ever sent, for any number of positions and       *)
(* processes and any number of faults, crashes and lost sessions. Then     *)
(* about ProtectionPlan, for every price, tick and approved order, and     *)
(* whatever the broker holds: a plan never widens, restores what was       *)
(* approved, and commands nothing that a later plan would command          *)
(* otherwise.                                                              *)
(***************************************************************************)
EXTENDS PositionProtection, TLAPS

\* Process p has claimed a command of this kind for position x and not sent it yet.
Holds(p, kind, x) == pass[p].at = kind /\ pass[p].x = x

\* The durable row runs ahead of the commands sent: every amendment still to be
\* sent has an attempt of its own, and a close to be sent is the only one.
RepairsClaimed(x) ==
  /\ sent[<<"amend", x>>] <= row[x].attempts
  /\ \A p \in Processes :
       Holds(p, "amend", x) => sent[<<"amend", x>>] + 1 <= row[x].attempts
  /\ \A p, q \in Processes :
       p # q /\ Holds(p, "amend", x) /\ Holds(q, "amend", x) =>
         sent[<<"amend", x>>] + 2 <= row[x].attempts
  /\ \A p, q, r \in Processes :
       ~(p # q /\ q # r /\ p # r /\ Holds(p, "amend", x) /\ Holds(q, "amend", x) /\ Holds(r, "amend", x))

ClosesClaimed(x) ==
  /\ sent[<<"close", x>>] <= 1
  /\ sent[<<"close", x>>] = 1 => row[x].closing
  /\ \A p \in Processes :
       Holds(p, "close", x) => row[x].closing /\ sent[<<"close", x>>] = 0
  /\ \A p, q \in Processes :
       Holds(p, "close", x) /\ Holds(q, "close", x) => p = q

Claims == \A x \in Positions : RepairsClaimed(x) /\ ClosesClaimed(x)

\* A pass outside its list of positions has one of them in hand.
HasPosition ==
  \A p \in Processes : pass[p].at \notin {"idle", "rows", "next"} => pass[p].x \in Positions

CommandsInv == TypeOK /\ HasPosition /\ Claims
-----------------------------------------------------------------------------
(* Types *)

LEMMA InitTyped == Init => TypeOK /\ HasPosition
<1> SUFFICES ASSUME Init PROVE TypeOK /\ HasPosition
  OBVIOUS
<1>1. NoRow \in Rows
  BY DEF NoRow, Rows, Statuses
<1>2. Resting \in Passes
  BY DEF Resting, Known, NoRow, Passes, Views, Steps, Queries, Stops
<1>3. Resting.at = "idle"
  BY DEF Resting
<1> QED
  BY <1>1, <1>2, <1>3, ProtectionAssumption DEF Init, TypeOK, HasPosition, Stops, Commands

\* A pass that only goes on keeps everything else it holds.
LEMMA Moved ==
  ASSUME TypeOK, NEW p \in Processes, NEW s \in Steps, Goto(p, s)
  PROVE  /\ pass' \in [Processes -> Passes]
         /\ pass'[p].at = s
         /\ \A q \in Processes : pass'[q].x = pass[q].x
         /\ \A q \in Processes \ {p} : pass'[q] = pass[q]
  BY DEF Goto, TypeOK, Passes

LEMMA Rested ==
  ASSUME TypeOK, NEW p \in Processes, pass' = [pass EXCEPT ![p] = Resting]
  PROVE  /\ pass' \in [Processes -> Passes]
         /\ pass'[p].at = "idle"
         /\ \A q \in Processes \ {p} : pass'[q] = pass[q]
<1>1. Resting \in Passes /\ Resting.at = "idle"
  BY DEF Resting, Known, NoRow, Passes, Views, Steps, Queries, Stops
<1> QED
  BY <1>1 DEF TypeOK

\* A query that rewrites the row of the position in hand, and goes on.
LEMMA Stored ==
  ASSUME TypeOK, HasPosition, NEW p \in Processes, NEW s \in Steps, Goto(p, s),
         pass[p].at \notin {"idle", "rows", "next"},
         row' \in [Positions -> Rows],
         UNCHANGED <<journal, lock, stop, wire, sent, faults, crashes, losses>>
  PROVE  TypeOK' /\ HasPosition'
  BY Moved DEF TypeOK, HasPosition

\* A step that touches no row, and goes on.
LEMMA Stepped ==
  ASSUME TypeOK, HasPosition, NEW p \in Processes, NEW s \in Steps, Goto(p, s),
         pass[p].at \notin {"idle", "rows", "next"},
         UNCHANGED <<row, journal, lock, stop, wire, sent, faults, crashes, losses>>
  PROVE  TypeOK' /\ HasPosition'
  BY Moved DEF TypeOK, HasPosition
LEMMA StepTyped ==
  ASSUME TypeOK, HasPosition, NEW p \in Processes, Step(p) \/ Lock(p)
  PROVE  TypeOK' /\ HasPosition'
<1> USE DEF At, Query, X, durable, broker, bounds
<1> DEFINE x == pass[p].x
<1>0. pass[p] \in Passes /\ (pass[p].at \notin {"idle", "rows", "next"} => x \in Positions /\ row[x] \in Rows)
  BY DEF TypeOK, HasPosition
<1>1. CASE Lock(p)
  BY <1>1, Moved DEF Lock, TypeOK, HasPosition, Steps, Queries
<1>2. CASE ReadRows(p)
  <2> DEFINE r == [at |-> "next", todo |-> {y \in Positions : journal[y]}, x |-> NoPosition,
                   plan |-> "missing", seen |-> [y \in Positions |-> Known(row[y])]]
  <2>1. \A y \in Positions : Known(row[y]) \in Views
    BY DEF TypeOK, Known, Rows, Views
  <2>2. r \in Passes /\ r.at = "next"
    BY <2>1 DEF Passes, Steps, Stops
  <2>3. pass' = [pass EXCEPT ![p] = r]
    BY <1>2 DEF ReadRows
  <2> QED BY <1>2, <2>2, <2>3 DEF ReadRows, TypeOK, HasPosition
<1>3. CASE NextPosition(p)
  <2>1. PICK y \in pass[p].todo :
          pass' = [pass EXCEPT ![p].at = "read", ![p].x = y, ![p].todo = @ \ {y}]
    BY <1>3 DEF NextPosition
  <2>2. y \in Positions
    BY <1>0, <2>1 DEF Passes
  <2>3. pass' \in [Processes -> Passes] /\ pass'[p].x = y
    BY <1>0, <2>1, <2>2 DEF TypeOK, Passes, Steps
  <2>4. \A q \in Processes \ {p} : pass'[q] = pass[q]
    BY <2>1 DEF TypeOK
  <2> QED BY <1>3, <2>2, <2>3, <2>4 DEF NextPosition, TypeOK, HasPosition
<1>4. CASE Unlock(p)
  BY <1>4, Rested DEF Unlock, TypeOK, HasPosition
<1>5. CASE Read(p)
  <2>1. CASE Matches(x)
    <3>1. pass' = [pass EXCEPT ![p].at = "observe", ![p].plan = stop[x]]
      BY <1>5, <2>1 DEF Read
    <3>2. stop[x] \in Stops /\ x \in Positions
      BY <1>0, <1>5 DEF Read, TypeOK
    <3>3. pass' \in [Processes -> Passes] /\ pass'[p].x = x
      BY <1>0, <3>1, <3>2 DEF TypeOK, Passes, Steps, Queries
    <3>4. \A q \in Processes \ {p} : pass'[q] = pass[q]
      BY <3>1 DEF TypeOK
    <3> QED BY <1>5, <3>2, <3>3, <3>4 DEF Read, TypeOK, HasPosition
  <2>2. CASE ~Matches(x)
    BY <1>5, <2>2, Stepped DEF Read, Steps, Queries
  <2> QED BY <2>1, <2>2
<1>6. CASE Observe(p)
  <2>1. PICK s \in Statuses : row' = [row EXCEPT ![x] = [row[x] EXCEPT !.status = s]]
    BY <1>6 DEF Observe, Statuses
  <2>2. row' \in [Positions -> Rows]
    BY <1>0, <1>6, <2>1 DEF Observe, TypeOK, Rows
  <2>3. AfterObserve(p) \in Steps
    BY DEF AfterObserve, Steps
  <2> QED BY <1>6, <2>2, <2>3, Stored DEF Observe
<1>7. CASE Quote(p) \/ Confirm(p) \/ AmendEnds(p) \/ Recheck(p) \/ CloseEnds(p) \/ Acknowledge(p)
  <2>1. /\ pass[p].at \in {"quote", "confirm", "amended", "recheck", "closed", "acknowledge"}
        /\ UNCHANGED <<row, journal, lock, stop, wire, sent, faults, crashes, losses>>
    BY <1>7 DEF Quote, Confirm, AmendEnds, Recheck, CloseEnds, Acknowledge
  <2>2. PICK s \in {"confirm", "recheck", "next", "failed", "claimRepair", "require", "acknowledge"} :
          Goto(p, s)
    BY <1>7 DEF Quote, Confirm, AmendEnds, Recheck, CloseEnds, Acknowledge
  <2>3. s \in Steps
    BY <2>2 DEF Steps, Queries
  <2> QED BY <2>1, <2>2, <2>3, Stepped
<1>8. CASE ClaimRepair(p)
  <2>1. CASE row' = row
    BY <1>8, <2>1, Stepped DEF ClaimRepair, Steps
  <2>2. CASE row' # row
    <3>1. row' \in [Positions -> Rows]
      BY <1>0, <1>8, <2>2 DEF ClaimRepair, TypeOK, Rows, Statuses
    <3> QED BY <1>8, <2>2, <3>1, Stored DEF ClaimRepair, Steps
  <2> QED BY <2>1, <2>2
<1>9. CASE Amend(p)
  <2>1. sent[<<"amend", x>>] \in Nat /\ x \in Positions
    BY <1>0, <1>9 DEF Amend, TypeOK
  <2>2. sent' \in [{"amend", "close"} \X Positions -> Nat] /\ wire' \subseteq Commands
    BY <1>9, <2>1 DEF Amend, Send, TypeOK, Commands
  <2> QED BY <1>9, <2>1, <2>2, Moved DEF Amend, TypeOK, HasPosition, Steps
<1>10. CASE Require(p)
  <2>1. row' \in [Positions -> Rows]
    BY <1>0, <1>10 DEF Require, TypeOK, Rows, Statuses
  <2> QED BY <1>10, <2>1, Stored DEF Require, Steps, Queries
<1>11. CASE ClaimClose(p)
  <2>1. CASE row' = row
    BY <1>11, <2>1, Stepped DEF ClaimClose, Steps
  <2>2. CASE row' # row
    <3>1. row' \in [Positions -> Rows]
      BY <1>0, <1>11, <2>2 DEF ClaimClose, TypeOK, Rows, Statuses
    <3> QED BY <1>11, <2>2, <3>1, Stored DEF ClaimClose, Steps
  <2> QED BY <2>1, <2>2
<1>12. CASE Close(p)
  <2>1. sent[<<"close", x>>] \in Nat /\ x \in Positions
    BY <1>0, <1>12 DEF Close, TypeOK
  <2>2. sent' \in [{"amend", "close"} \X Positions -> Nat] /\ wire' \subseteq Commands
    BY <1>12, <2>1 DEF Close, Send, TypeOK, Commands
  <2> QED BY <1>12, <2>1, <2>2, Moved DEF Close, TypeOK, HasPosition, Steps
<1>13. CASE Failed(p)
  <2>1. row' \in [Positions -> Rows]
    BY <1>0, <1>13 DEF Failed, TypeOK, Rows, Statuses
  <2> QED BY <1>13, <2>1, Stored DEF Failed, Steps
<1>14. CASE Severed(p)
  BY <1>14, Rested DEF Severed, TypeOK, HasPosition
<1> QED
  BY <1>1, <1>2, <1>3, <1>4, <1>5, <1>6, <1>7, <1>8, <1>9, <1>10, <1>11, <1>12, <1>13, <1>14 DEF Step

LEMMA EnvironmentTyped ==
  ASSUME TypeOK, HasPosition,
         \/ \E p \in Processes : Fault(p) \/ LoseSession(p) \/ Crash(p)
         \/ \E x \in Positions : Elapse(x) \/ JournalClosed(x) \/ BrokerMoves(x)
         \/ \E c \in wire : BrokerActs(c)
  PROVE  TypeOK' /\ HasPosition'
<1> USE DEF durable, broker, bounds
<1>1. ASSUME NEW p \in Processes, Fault(p) PROVE TypeOK' /\ HasPosition'
  <2>1. faults' \in 0 .. MaxFaults
    BY <1>1, ProtectionAssumption DEF Fault, TypeOK
  <2>2. pass' \in [Processes -> Passes] /\ HasPosition'
    <3>1. CASE pass[p].at \in {"rows", "failed"}
      <4>1. pass' = [pass EXCEPT ![p].at = "next", ![p].todo = {}]
        BY <1>1, <3>1 DEF Fault
      <4>2. {} \in SUBSET Positions /\ "next" \in Steps
        BY DEF Steps
      <4>3. pass' \in [Processes -> Passes] /\ pass'[p].at = "next"
        BY <4>1, <4>2 DEF TypeOK, Passes
      <4> QED BY <4>1, <4>3 DEF TypeOK, HasPosition
    <3>2. CASE pass[p].at \notin {"rows", "failed"}
      <4>1. Goto(p, "failed") /\ "failed" \in Steps
        BY <1>1, <3>2 DEF Fault, Goto, Steps, Queries
      <4> QED BY <1>1, <3>2, <4>1, Moved DEF Fault, HasPosition
    <3> QED BY <3>1, <3>2
  <2> QED BY <1>1, <2>1, <2>2 DEF Fault, TypeOK
<1>2. ASSUME NEW p \in Processes, LoseSession(p) PROVE TypeOK' /\ HasPosition'
  <2>1. losses' \in 0 .. MaxLosses
    BY <1>2, ProtectionAssumption DEF LoseSession, TypeOK
  <2> QED BY <1>2, <2>1 DEF LoseSession, TypeOK, HasPosition
<1>3. ASSUME NEW p \in Processes, Crash(p) PROVE TypeOK' /\ HasPosition'
  <2>1. crashes' \in 0 .. MaxCrashes
    BY <1>3, ProtectionAssumption DEF Crash, TypeOK
  <2> QED BY <1>3, <2>1, Rested DEF Crash, TypeOK, HasPosition
<1>4. ASSUME NEW x \in Positions, Elapse(x) PROVE TypeOK' /\ HasPosition'
  <2>1. row' \in [Positions -> Rows]
    BY <1>4 DEF Elapse, TypeOK, Rows
  <2> QED BY <1>4, <2>1 DEF Elapse, TypeOK, HasPosition
<1>5. ASSUME NEW x \in Positions, JournalClosed(x) PROVE TypeOK' /\ HasPosition'
  BY <1>5 DEF JournalClosed, TypeOK, HasPosition
<1>6. ASSUME NEW x \in Positions, BrokerMoves(x) PROVE TypeOK' /\ HasPosition'
  <2>1. stop' \in [Positions -> Stops]
    BY <1>6 DEF BrokerMoves, TypeOK, Stops
  <2> QED BY <1>6, <2>1 DEF BrokerMoves, TypeOK, HasPosition
<1>7. ASSUME NEW c \in wire, BrokerActs(c) PROVE TypeOK' /\ HasPosition'
  <2>1. stop' \in [Positions -> Stops] /\ wire' \subseteq Commands
    BY <1>7 DEF BrokerActs, TypeOK, Stops
  <2> QED BY <1>7, <2>1 DEF BrokerActs, TypeOK, HasPosition
<1> QED
  BY <1>1, <1>2, <1>3, <1>4, <1>5, <1>6, <1>7

LEMMA NextTyped == TypeOK /\ HasPosition /\ [Next]_vars => TypeOK' /\ HasPosition'
<1>1. TypeOK /\ HasPosition /\ Next => TypeOK' /\ HasPosition'
  BY StepTyped, EnvironmentTyped DEF Next
<1>2. TypeOK /\ HasPosition /\ UNCHANGED vars => TypeOK' /\ HasPosition'
  BY DEF TypeOK, HasPosition, vars, durable, broker, bounds
<1> QED BY <1>1, <1>2

\* Every variable keeps its type through passes, faults, crashes and broker moves.
THEOREM TypeCorrect == Spec => []TypeOK
<1>1. TypeOK /\ HasPosition /\ [Next]_vars => (TypeOK /\ HasPosition)'
  BY NextTyped
<1> QED BY InitTyped, <1>1, PTL DEF Spec

-----------------------------------------------------------------------------
(* Claims and commands *)

LEMMA RepairsKept ==
  ASSUME NEW x \in Positions, RepairsClaimed(x),
         sent'[<<"amend", x>>] = sent[<<"amend", x>>], row'[x].attempts = row[x].attempts,
         \A q \in Processes : Holds(q, "amend", x)' => Holds(q, "amend", x)
  PROVE  RepairsClaimed(x)'
  BY DEF RepairsClaimed

LEMMA ClosesKept ==
  ASSUME NEW x \in Positions, ClosesClaimed(x),
         sent'[<<"close", x>>] = sent[<<"close", x>>], row'[x].closing = row[x].closing,
         \A q \in Processes : Holds(q, "close", x)' => Holds(q, "close", x)
  PROVE  ClosesClaimed(x)'
  BY DEF ClosesClaimed

\* A pass that goes elsewhere than to a sending, and stores no claim, keeps all.
LEMMA ClaimsKept ==
  ASSUME Claims, sent' = sent, NEW p \in Processes, pass'[p].at \notin {"amend", "close"},
         \A q \in Processes \ {p} : pass'[q] = pass[q],
         \A x \in Positions : row'[x].attempts = row[x].attempts /\ row'[x].closing = row[x].closing
  PROVE  Claims'
<1>1. ASSUME NEW x \in Positions, NEW q \in Processes
      PROVE  /\ Holds(q, "amend", x)' => Holds(q, "amend", x)
             /\ Holds(q, "close", x)' => Holds(q, "close", x)
  BY DEF Holds
<1>2. ASSUME NEW x \in Positions PROVE RepairsClaimed(x)' /\ ClosesClaimed(x)'
  BY <1>1, RepairsKept, ClosesKept DEF Claims
<1> QED BY <1>2 DEF Claims

LEMMA RepairClaimed ==
  ASSUME TypeOK, HasPosition, Claims, NEW p \in Processes, ClaimRepair(p)
  PROVE  Claims'
<1> USE DEF At, Query, X
<1>0. pass[p].at = "claimRepair" /\ pass[p].x \in Positions /\ sent' = sent
  BY DEF ClaimRepair, HasPosition, TypeOK
<1>1. PICK x \in Positions : x = pass[p].x
  BY <1>0
<1>2. CASE row' = row /\ Goto(p, "next")
  BY <1>0, <1>2, Moved, ClaimsKept DEF Steps
<1>3. CASE ~(row' = row /\ Goto(p, "next"))
  <2>1. /\ row[x].attempts < 2 /\ Goto(p, "amend")
        /\ row'[x].attempts = row[x].attempts + 1
        /\ row[x].attempts \in 0 .. 2
        /\ \A y \in Positions : row'[y].closing = row[y].closing
        /\ \A y \in Positions \ {x} : row'[y].attempts = row[y].attempts
    BY <1>0, <1>1, <1>3 DEF ClaimRepair, TypeOK, Rows
  <2>2. /\ pass'[p].at = "amend" /\ pass'[p].x = x
        /\ \A q \in Processes \ {p} : pass'[q] = pass[q]
    BY <1>1, <2>1, Moved DEF Steps
  <2>3. ASSUME NEW q \in Processes, NEW y \in Positions
        PROVE  /\ Holds(q, "close", y)' => Holds(q, "close", y)
               /\ y # x \/ q # p => (Holds(q, "amend", y)' => Holds(q, "amend", y))
    BY <2>2 DEF Holds
  <2>4. ASSUME NEW y \in Positions PROVE ClosesClaimed(y)'
    BY <1>0, <2>1, <2>3, ClosesKept DEF Claims
  <2>5. ASSUME NEW y \in Positions, y # x PROVE RepairsClaimed(y)'
    BY <1>0, <2>1, <2>3, <2>5, RepairsKept DEF Claims
  <2>6. RepairsClaimed(x)'
    <3> DEFINE n == sent[<<"amend", x>>]
               a == row[x].attempts
    <3>1. n \in Nat /\ RepairsClaimed(x)
      BY DEF TypeOK, Claims
    <3>2. n <= a /\ a < 2 /\ a \in 0 .. 2
      BY <2>1, <3>1 DEF RepairsClaimed
    <3>3. \A q \in Processes : Holds(q, "amend", x) => n + 1 <= a
      BY <3>1 DEF RepairsClaimed
    <3>4. \A q, r \in Processes :
            q # r /\ Holds(q, "amend", x) /\ Holds(r, "amend", x) => FALSE
      BY <3>1, <3>2 DEF RepairsClaimed
    <3>5. \A q \in Processes : q # p => (Holds(q, "amend", x)' => Holds(q, "amend", x))
      BY <2>3
    <3>6. /\ n + 1 <= a + 1
          /\ \A q \in Processes : Holds(q, "amend", x) => n + 2 <= a + 1
      BY <3>1, <3>2, <3>3
    <3>7. sent'[<<"amend", x>>] = n /\ row'[x].attempts = a + 1 /\ n <= a + 1
      BY <1>0, <2>1, <3>1, <3>2
    <3>8. \A q, r \in Processes :
            q # r /\ Holds(q, "amend", x)' /\ Holds(r, "amend", x)' => n + 2 <= a + 1
      BY <3>5, <3>6
    <3>9. \A q, r, t \in Processes :
            ~(q # r /\ r # t /\ q # t /\ Holds(q, "amend", x)' /\ Holds(r, "amend", x)'
              /\ Holds(t, "amend", x)')
      BY <3>4, <3>5
    <3> HIDE DEF n, a
    <3> QED BY <3>6, <3>7, <3>8, <3>9 DEF RepairsClaimed
  <2> QED BY <2>4, <2>5, <2>6 DEF Claims
<1> QED BY <1>2, <1>3

LEMMA CloseClaimed ==
  ASSUME TypeOK, HasPosition, Claims, NEW p \in Processes, ClaimClose(p)
  PROVE  Claims'
<1> USE DEF At, Query, X
<1>0. pass[p].at = "claimClose" /\ pass[p].x \in Positions /\ sent' = sent
  BY DEF ClaimClose, HasPosition, TypeOK
<1>1. PICK x \in Positions : x = pass[p].x
  BY <1>0
<1>2. CASE row' = row /\ Goto(p, "next")
  BY <1>0, <1>2, Moved, ClaimsKept DEF Steps
<1>3. CASE ~(row' = row /\ Goto(p, "next"))
  <2>1. /\ ~row[x].closing /\ Goto(p, "close") /\ row'[x].closing
        /\ \A y \in Positions : row'[y].attempts = row[y].attempts
        /\ \A y \in Positions \ {x} : row'[y].closing = row[y].closing
    BY <1>0, <1>1, <1>3 DEF ClaimClose, TypeOK, Rows
  <2>2. /\ pass'[p].at = "close" /\ pass'[p].x = x
        /\ \A q \in Processes \ {p} : pass'[q] = pass[q]
    BY <1>1, <2>1, Moved DEF Steps
  <2>3. ASSUME NEW q \in Processes, NEW y \in Positions
        PROVE  /\ Holds(q, "amend", y)' => Holds(q, "amend", y)
               /\ y # x \/ q # p => (Holds(q, "close", y)' => Holds(q, "close", y))
    BY <2>2 DEF Holds
  <2>4. ASSUME NEW y \in Positions PROVE RepairsClaimed(y)'
    BY <1>0, <2>1, <2>3, RepairsKept DEF Claims
  <2>5. ASSUME NEW y \in Positions, y # x PROVE ClosesClaimed(y)'
    BY <1>0, <2>1, <2>3, <2>5, ClosesKept DEF Claims
  <2>6. ClosesClaimed(x)'
    <3>1. sent[<<"close", x>>] = 0 /\ \A q \in Processes : ~Holds(q, "close", x)
      <4>1. ClosesClaimed(x) /\ sent[<<"close", x>>] \in Nat
        BY DEF Claims, TypeOK
      <4>2. sent[<<"close", x>>] # 1 /\ sent[<<"close", x>>] <= 1
        BY <2>1, <4>1 DEF ClosesClaimed
      <4>3. sent[<<"close", x>>] = 0
        BY <4>1, <4>2
      <4> QED BY <2>1, <4>1, <4>3 DEF ClosesClaimed
    <3>2. \A q \in Processes : Holds(q, "close", x)' => q = p
      BY <2>3, <3>1
    <3>3. sent'[<<"close", x>>] = 0 /\ row'[x].closing
      BY <1>0, <2>1, <3>1
    <3> QED BY <3>2, <3>3 DEF ClosesClaimed
  <2> QED BY <2>4, <2>5, <2>6 DEF Claims
<1> QED BY <1>2, <1>3

LEMMA AmendSent ==
  ASSUME TypeOK, HasPosition, Claims, NEW p \in Processes, Amend(p)
  PROVE  Claims'
<1> USE DEF At, X
<1>1. PICK x \in Positions : x = pass[p].x /\ pass[p].at = "amend"
  BY DEF Amend, HasPosition
<1>2. /\ row' = row
      /\ sent'[<<"amend", x>>] = sent[<<"amend", x>>] + 1
      /\ \A y \in Positions \ {x} : sent'[<<"amend", y>>] = sent[<<"amend", y>>]
      /\ \A y \in Positions : sent'[<<"close", y>>] = sent[<<"close", y>>]
  BY <1>1 DEF Amend, Send, TypeOK, durable
<1>3. pass'[p].at = "amended" /\ \A q \in Processes \ {p} : pass'[q] = pass[q]
  BY Moved DEF Amend, Steps
<1>4. ASSUME NEW q \in Processes, NEW y \in Positions
      PROVE  /\ Holds(q, "close", y)' => Holds(q, "close", y)
             /\ Holds(q, "amend", y)' => Holds(q, "amend", y) /\ q # p
  BY <1>3 DEF Holds
<1>5. ASSUME NEW y \in Positions PROVE ClosesClaimed(y)'
  BY <1>2, <1>4, ClosesKept DEF Claims
<1>6. ASSUME NEW y \in Positions, y # x PROVE RepairsClaimed(y)'
  BY <1>2, <1>4, <1>6, RepairsKept DEF Claims
<1>7. RepairsClaimed(x)'
  <2>1. /\ sent[<<"amend", x>>] \in Nat /\ row[x].attempts \in 0 .. 2
        /\ RepairsClaimed(x) /\ Holds(p, "amend", x)
    BY <1>1 DEF TypeOK, Rows, Claims, Holds
  <2> QED BY <1>2, <1>4, <2>1 DEF RepairsClaimed
<1> QED BY <1>5, <1>6, <1>7 DEF Claims

LEMMA CloseSent ==
  ASSUME TypeOK, HasPosition, Claims, NEW p \in Processes, Close(p)
  PROVE  Claims'
<1> USE DEF At, X
<1>1. PICK x \in Positions : x = pass[p].x /\ pass[p].at = "close"
  BY DEF Close, HasPosition
<1>2. /\ row' = row
      /\ sent'[<<"close", x>>] = sent[<<"close", x>>] + 1
      /\ \A y \in Positions \ {x} : sent'[<<"close", y>>] = sent[<<"close", y>>]
      /\ \A y \in Positions : sent'[<<"amend", y>>] = sent[<<"amend", y>>]
  BY <1>1 DEF Close, Send, TypeOK, durable
<1>3. pass'[p].at = "closed" /\ \A q \in Processes \ {p} : pass'[q] = pass[q]
  BY Moved DEF Close, Steps
<1>4. ASSUME NEW q \in Processes, NEW y \in Positions
      PROVE  /\ Holds(q, "amend", y)' => Holds(q, "amend", y)
             /\ Holds(q, "close", y)' => Holds(q, "close", y) /\ q # p
  BY <1>3 DEF Holds
<1>5. ASSUME NEW y \in Positions PROVE RepairsClaimed(y)'
  BY <1>2, <1>4, RepairsKept DEF Claims
<1>6. ASSUME NEW y \in Positions, y # x PROVE ClosesClaimed(y)'
  BY <1>2, <1>4, <1>6, ClosesKept DEF Claims
<1>7. ClosesClaimed(x)'
  <2>1. ClosesClaimed(x) /\ Holds(p, "close", x)
    BY <1>1 DEF Claims, Holds
  <2> QED BY <1>2, <1>4, <2>1 DEF ClosesClaimed
<1> QED BY <1>5, <1>6, <1>7 DEF Claims

LEMMA ClaimsStep == TypeOK /\ HasPosition /\ Claims /\ [Next]_vars => Claims'
<1> SUFFICES ASSUME TypeOK, HasPosition, Claims, [Next]_vars PROVE Claims'
  OBVIOUS
<1> USE DEF durable, broker, bounds
<1>1. ASSUME NEW p \in Processes, Step(p) \/ Lock(p) PROVE Claims'
  <2>1. CASE ClaimRepair(p) \/ ClaimClose(p) \/ Amend(p) \/ Close(p)
    BY <2>1, RepairClaimed, CloseClaimed, AmendSent, CloseSent
  <2>2. CASE Lock(p) \/ ReadRows(p) \/ NextPosition(p) \/ Unlock(p) \/ Read(p) \/ Severed(p)
    <3>1. UNCHANGED <<row, sent>>
      BY <2>2 DEF Lock, ReadRows, NextPosition, Unlock, Read, Severed
    <3>2. /\ pass'[p].at \notin {"amend", "close"}
          /\ \A q \in Processes \ {p} : pass'[q] = pass[q]
      <4>1. CASE Unlock(p) \/ Severed(p)
        BY <4>1, Rested DEF Unlock, Severed
      <4>2. CASE Lock(p)
        BY <4>2, Moved DEF Lock, Steps, Queries
      <4>3. CASE ReadRows(p)
        BY <4>3 DEF ReadRows, TypeOK
      <4>4. CASE NextPosition(p)
        BY <4>4 DEF NextPosition, TypeOK, Passes
      <4>5. CASE Read(p)
        BY <4>5 DEF Read, Goto, TypeOK, Passes
      <4> QED BY <2>2, <4>1, <4>2, <4>3, <4>4, <4>5
    <3> QED BY <3>1, <3>2, ClaimsKept
  <2>3. CASE Quote(p) \/ Confirm(p) \/ AmendEnds(p) \/ Recheck(p) \/ CloseEnds(p) \/ Acknowledge(p)
    <3>1. PICK s \in {"confirm", "recheck", "next", "failed", "claimRepair", "require", "acknowledge"} :
            Goto(p, s)
      BY <2>3 DEF Quote, Confirm, AmendEnds, Recheck, CloseEnds, Acknowledge
    <3>2. s \in Steps /\ UNCHANGED <<row, sent>>
      BY <2>3, <3>1 DEF Steps, Queries, Quote, Confirm, AmendEnds, Recheck, CloseEnds, Acknowledge
    <3>3. pass'[p].at = s /\ \A q \in Processes \ {p} : pass'[q] = pass[q]
      BY <3>1, <3>2, Moved
    <3> QED BY <3>1, <3>2, <3>3, ClaimsKept
  <2>4. CASE Observe(p) \/ Require(p) \/ Failed(p)
    <3>1. PICK s \in {"next", "quote", "recheck", "claimClose"} : Goto(p, s)
      BY <2>4 DEF Observe, AfterObserve, Require, Failed
    <3>2. s \in Steps /\ sent' = sent
      BY <2>4, <3>1 DEF Steps, Queries, Observe, Require, Failed
    <3>3. pass'[p].at = s /\ \A q \in Processes \ {p} : pass'[q] = pass[q]
      BY <3>1, <3>2, Moved
    <3>4. \A x \in Positions : row'[x].attempts = row[x].attempts /\ row'[x].closing = row[x].closing
      BY <2>4 DEF Observe, Require, Failed, TypeOK, Rows
    <3> QED BY <3>1, <3>2, <3>3, <3>4, ClaimsKept
  <2> QED BY <1>1, <2>1, <2>2, <2>3, <2>4 DEF Step
<1>2. ASSUME NEW p \in Processes, Fault(p) \/ Crash(p) PROVE Claims'
  <2>1. UNCHANGED <<row, sent>> /\ \A q \in Processes \ {p} : pass'[q] = pass[q]
    BY <1>2 DEF Fault, Crash, TypeOK
  <2>2. pass'[p].at \in {"next", "failed", "idle"}
    BY <1>2 DEF Fault, Crash, Resting, TypeOK, Passes
  <2> QED BY <2>1, <2>2, ClaimsKept
<1>3. ASSUME UNCHANGED <<pass, sent>>,
             \A x \in Positions : row'[x].attempts = row[x].attempts /\ row'[x].closing = row[x].closing
      PROVE  Claims'
  <2>1. ASSUME NEW q \in Processes, NEW x \in Positions
        PROVE  /\ Holds(q, "amend", x)' => Holds(q, "amend", x)
               /\ Holds(q, "close", x)' => Holds(q, "close", x)
    BY <1>3 DEF Holds
  <2>2. ASSUME NEW x \in Positions PROVE RepairsClaimed(x)' /\ ClosesClaimed(x)'
    BY <1>3, <2>1, RepairsKept, ClosesKept DEF Claims
  <2> QED BY <2>2 DEF Claims
<1>4. CASE \/ \E p \in Processes : LoseSession(p)
           \/ \E x \in Positions : JournalClosed(x) \/ BrokerMoves(x)
           \/ \E c \in wire : BrokerActs(c)
           \/ UNCHANGED vars
  BY <1>3, <1>4 DEF LoseSession, JournalClosed, BrokerMoves, BrokerActs, vars
<1>5. ASSUME NEW x \in Positions, Elapse(x) PROVE Claims'
  <2>1. \A y \in Positions : row'[y].attempts = row[y].attempts /\ row'[y].closing = row[y].closing
    BY <1>5 DEF Elapse, TypeOK, Rows
  <2> QED BY <1>3, <1>5, <2>1 DEF Elapse
<1> QED BY <1>1, <1>2, <1>4, <1>5 DEF Next

\* The inductive invariant: types, the position in hand, and the claims.
LEMMA ProtectionInvariant == Spec => []CommandsInv
<1>1. Init => CommandsInv
  <2> SUFFICES ASSUME Init PROVE Claims
    BY InitTyped DEF CommandsInv
  <2>1. \A p \in Processes, x \in Positions : ~Holds(p, "amend", x) /\ ~Holds(p, "close", x)
    BY DEF Init, Resting, Holds
  <2>2. \A x \in Positions : /\ sent[<<"amend", x>>] = 0 /\ sent[<<"close", x>>] = 0
                             /\ row[x].attempts = 0
    BY DEF Init, NoRow
  <2>3. ASSUME NEW x \in Positions PROVE RepairsClaimed(x) /\ ClosesClaimed(x)
    <3>1. \A p \in Processes : ~Holds(p, "amend", x) /\ ~Holds(p, "close", x)
      BY <2>1
    <3>2. /\ sent[<<"amend", x>>] <= row[x].attempts
          /\ sent[<<"close", x>>] <= 1 /\ sent[<<"close", x>>] # 1
      BY <2>2
    <3> QED BY <3>1, <3>2 DEF RepairsClaimed, ClosesClaimed
  <2> QED BY <2>3 DEF Claims
<1>2. CommandsInv /\ [Next]_vars => CommandsInv'
  BY NextTyped, ClaimsStep DEF CommandsInv
<1> QED BY <1>1, <1>2, PTL DEF Spec

\* "One durable, position-specific close" and "bounded durable repair attempts",
\* for any number of processes, faults, crashes and lost sessions: because the row
\* is claimed before the command is sent, and nothing ever takes a claim back.
THEOREM CommandsEverBounded == Spec => []CommandsBounded
<1>1. CommandsInv => CommandsBounded
  <2> SUFFICES ASSUME CommandsInv, NEW x \in Positions
               PROVE  sent[<<"amend", x>>] <= 2 /\ sent[<<"close", x>>] <= 1
    BY DEF CommandsBounded
  <2>1. /\ sent[<<"amend", x>>] \in Nat /\ row[x].attempts \in 0 .. 2
        /\ RepairsClaimed(x) /\ ClosesClaimed(x)
    BY DEF CommandsInv, TypeOK, Rows, Claims
  <2> QED BY <2>1 DEF RepairsClaimed, ClosesClaimed
<1> QED BY <1>1, ProtectionInvariant, PTL

-----------------------------------------------------------------------------
(* The plan: the arithmetic of the two roundings; the rest is comparisons *)

\* Rounding stays within a tick, and on the side it is named for.
LEMMA Rounding ==
  ASSUME NEW x \in Int, NEW t \in Nat \ {0}
  PROVE  /\ Floor(x, t) \in Int /\ Floor(x, t) <= x /\ x < Floor(x, t) + t
         /\ Ceil(x, t) \in Int /\ x <= Ceil(x, t) /\ Ceil(x, t) < x + t
<1>1. (x % t) \in 0 .. (t - 1) /\ ((-x) % t) \in 0 .. (t - 1)
  OBVIOUS
<1>2. QED BY <1>1 DEF Floor, Ceil

\* A multiple of the tick, in the form the solver can use.
LEMMA Multiples ==
  ASSUME NEW x \in Int, NEW t \in Nat \ {0}
  PROVE  x % t = 0 <=> \E q \in Int : x = t * q
<1>1. ASSUME x % t = 0 PROVE \E q \in Int : x = t * q
  <2>1. x = (t * (x \div t)) + (x % t) /\ x \div t \in Int
    OBVIOUS
  <2>2. QED BY <1>1, <2>1
<1>2. ASSUME NEW q \in Int, x = t * q PROVE x % t = 0
  BY <1>2
<1>3. QED BY <1>1, <1>2

\* The rounded prices are multiples of the tick.
LEMMA RoundedAligned ==
  ASSUME NEW x \in Int, NEW t \in Nat \ {0}
  PROVE  Floor(x, t) % t = 0 /\ Ceil(x, t) % t = 0
<1>1. \A y \in Int : (y - (y % t)) \in Int /\ (y - (y % t)) % t = 0
  OBVIOUS
<1>2. ASSUME NEW z \in Int, z % t = 0 PROVE (-z) % t = 0
  <2>1. PICK q \in Int : z = t * q
    BY <1>2, Multiples
  <2>2. -z = t * (-q) /\ -q \in Int /\ -z \in Int
    BY <2>1
  <2>3. QED BY <2>2, Multiples
<1>3. (-((-x) - ((-x) % t))) % t = 0
  <2>1. -x \in Int
    OBVIOUS
  <2>2. QED BY <1>1, <1>2, <2>1
<1>4. -((-x) - ((-x) % t)) = x + ((-x) % t)
  <2>1. (-x) % t \in Int
    OBVIOUS
  <2>2. QED BY <2>1
<1>5. QED BY <1>1, <1>3, <1>4 DEF Floor, Ceil

\* The distances, the approved prices and the rounded ones are numbers, and the rounded
\* ones are multiples of the tick.
LEMMA Rounded ==
  ASSUME NEW p \in Intents
  PROVE  /\ ApprovedStop(p) \in Int /\ ApprovedTarget(p) \in Int
         /\ StopDistance(p) \in Int /\ TargetDistance(p) \in Int
         /\ RoundedStop(p) \in Int /\ RoundedTarget(p) \in Int
         /\ RoundedStop(p) % p.tick = 0 /\ RoundedTarget(p) % p.tick = 0
         /\ Buy(p) => ApprovedStop(p) <= RoundedStop(p) /\ RoundedTarget(p) <= ApprovedTarget(p)
         /\ ~Buy(p) => RoundedStop(p) <= ApprovedStop(p) /\ ApprovedTarget(p) <= RoundedTarget(p)
<1>1. p.tick \in Nat \ {0} BY DEF Intents
<1>2. /\ StopDistance(p) \in Int /\ TargetDistance(p) \in Int
      /\ ApprovedStop(p) \in Int /\ ApprovedTarget(p) \in Int
  BY DEF Intents, StopDistance, TargetDistance, ApprovedStop, ApprovedTarget
<1>3. QED BY <1>1, <1>2, Rounding, RoundedAligned DEF RoundedStop, RoundedTarget

\* What a plan commands has the form of what the broker holds.
LEMMA RestoredTyped ==
  ASSUME NEW p \in Intents, NEW h \in Protections
  PROVE  /\ Restored(p, h).stop \in Int /\ Restored(p, h).target \in Int
         /\ Restored(p, h) = [stop |-> Restored(p, h).stop, target |-> Restored(p, h).target]
         /\ Accepts(p, h) => Restored(p, h) \in Protections
BY Rounded DEF Restored, Accepts, Protections, Higher, Lower, Missing

-----------------------------------------------------------------------------
\* "Never widen existing protection" (position-protection.ts:95): a plan that is accepted
\* leaves a held stop and a held target, or moves them closer.
THEOREM NeverWidens ==
  ASSUME NEW p \in Intents, NEW h \in Protections, Accepts(p, h)
  PROVE  /\ h.stop # Missing => Loss(p, Restored(p, h)) <= Loss(p, h)
         /\ h.target # Missing => Gain(p, Restored(p, h)) <= Gain(p, h)
<1>1. p.price \in Int /\ h.stop \in Int /\ h.target \in Int
  BY DEF Intents, Protections
<1>2. QED BY <1>1, Rounded DEF Restored, Higher, Lower, Loss, Gain, Missing

\* "Restore approved distances from actual VWAP" (position-protection.ts:95): the position
\* risks no more than the order was approved for, at whatever price it was filled.
THEOREM RiskAsApproved ==
  ASSUME NEW p \in Intents, NEW h \in Protections, Accepts(p, h), ~p.structural
  PROVE  /\ Loss(p, Restored(p, h)) <= StopDistance(p)
         /\ Gain(p, Restored(p, h)) <= TargetDistance(p)
<1>1. p.price \in Int /\ h.stop \in Int /\ h.target \in Int
  BY DEF Intents, Protections
<1>2. /\ Buy(p) => Restored(p, h).stop >= RoundedStop(p)
                   /\ Restored(p, h).target <= RoundedTarget(p)
      /\ ~Buy(p) => Restored(p, h).stop <= RoundedStop(p)
                    /\ Restored(p, h).target >= RoundedTarget(p)
  BY <1>1, Rounded DEF Restored, Higher, Lower
<1>3. /\ Buy(p) => ApprovedStop(p) = p.price - StopDistance(p)
                   /\ ApprovedTarget(p) = p.price + TargetDistance(p)
      /\ ~Buy(p) => ApprovedStop(p) = p.price + StopDistance(p)
                    /\ ApprovedTarget(p) = p.price - TargetDistance(p)
  BY DEF ApprovedStop, ApprovedTarget
<1>4. QED BY <1>1, <1>2, <1>3, Rounded, RestoredTyped DEF Loss, Gain

\* An amendment ends the repairs: what it leaves at the broker is accepted and in need of
\* nothing, so that the next pass verifies it (position-protection.ts:190).
THEOREM AmendmentsExact ==
  ASSUME NEW p \in Intents, NEW h \in Protections, Accepts(p, h)
  PROVE  Verdict(p, Restored(p, h)) = "exact"
<1> DEFINE r == Restored(p, h)
<1>1. r \in Protections /\ r.stop > 0 /\ r.target > 0
  BY RestoredTyped DEF Accepts
<1>2. r.stop % p.tick = 0 /\ r.target % p.tick = 0
  BY Rounded DEF Restored, Accepts, Higher, Lower, Missing
<1>3. Restored(p, r) = r
  <2>1. h.stop \in Int /\ h.target \in Int
    BY DEF Protections
  <2>2. Restored(p, r).stop = r.stop
    BY <1>1, <2>1, Rounded DEF Restored, Higher, Lower, Missing
  <2>3. Restored(p, r).target = r.target
    BY <1>1, <2>1, Rounded DEF Restored, Higher, Lower, Missing
  <2>4. QED BY <1>1, <2>2, <2>3, RestoredTyped DEF Protections
<1>4. Accepts(p, r)
  BY <1>1, <1>2, <1>3 DEF Accepts
<1>5. QED BY <1>1, <1>3, <1>4 DEF Verdict, Missing

\* Amendments planned from different observations of a missing or too wide stop, by
\* whatever processes and however late (position-protection.ts:344), command one stop.
THEOREM RepairsAgree ==
  ASSUME NEW p \in Intents, NEW g \in Protections, NEW h \in Protections,
         g.stop = Missing \/ Restored(p, g).stop # g.stop,
         h.stop = Missing \/ Restored(p, h).stop # h.stop
  PROVE  Restored(p, g).stop = Restored(p, h).stop
<1>1. Restored(p, g).stop = RoundedStop(p)
  BY DEF Restored, Higher, Lower
<1>2. Restored(p, h).stop = RoundedStop(p)
  BY DEF Restored, Higher, Lower
<1>3. QED BY <1>1, <1>2

-----------------------------------------------------------------------------
(* The commands and their plans *)

\* Only the broker takes a command from the wire, and an amendment that it executes protects.
LEMMA OnlyBrokerTakes ==
  ASSUME TypeOK, Next, NEW c \in wire \ wire', c[1] = "amend", stop' # stop
  PROVE  stop'[c[2]] = "exact"
<1>1. CASE \E d \in wire : BrokerActs(d)
  <2>1. PICK d \in wire : BrokerActs(d)
    BY <1>1
  <2>2. d = c
    BY <2>1 DEF BrokerActs
  <2>3. c[2] \in Positions /\ stop \in [Positions -> Stops]
    BY DEF TypeOK, Commands
  <2>4. stop' = [stop EXCEPT ![c[2]] = IF @ = "closed" THEN "closed" ELSE "exact"]
    BY <2>1, <2>2, <2>3 DEF BrokerActs
  <2>5. QED BY <2>3, <2>4
<1>2. CASE \E x \in Positions : Elapse(x) \/ JournalClosed(x) \/ BrokerMoves(x)
  BY <1>2 DEF Elapse, JournalClosed, BrokerMoves, broker
<1>3. CASE \E p \in Processes : Lock(p) \/ Fault(p) \/ LoseSession(p) \/ Crash(p)
  BY <1>3 DEF Lock, Fault, LoseSession, Crash, broker
<1>4. CASE \E p \in Processes : Step(p)
  <2>1. PICK p \in Processes : Step(p)
    BY <1>4
  <2>2. wire \subseteq wire'
    BY <2>1
    DEF Step, ReadRows, NextPosition, Unlock, Read, Observe, Quote, Confirm, ClaimRepair, Amend,
        AmendEnds, Recheck, Require, ClaimClose, Close, CloseEnds, Acknowledge, Failed, Severed,
        Send, broker
  <2>3. QED BY <2>2
<1>5. QED BY <1>1, <1>2, <1>3, <1>4 DEF Next

\* An executed amendment leaves a position that no pass repairs again, at no greater loss than
\* was approved, for whatever orders are approved and whatever the broker may hold.
THEOREM AmendmentsRestored == Spec => AmendmentsRestore
<1>1. ASSUME NEW o \in Amended
      PROVE  o.verdict = "exact" /\ o.within
  <2>1. PICK p \in Approved, h \in Holdings :
          /\ Verdict(p, h) \in {"missing", "wide"}
          /\ o = [verdict |-> Verdict(p, Restored(p, h)),
                  within |-> p.structural \/ Loss(p, Restored(p, h)) <= StopDistance(p)]
    BY DEF Amended
  <2>2. p \in Intents /\ h \in Protections /\ Accepts(p, h)
    BY <2>1, PlanAssumption DEF Verdict
  <2>3. Verdict(p, Restored(p, h)) = "exact"
    BY <2>2, AmendmentsExact
  <2>4. p.structural \/ Loss(p, Restored(p, h)) <= StopDistance(p)
    BY <2>2, RiskAsApproved
  <2>5. QED BY <2>1, <2>3, <2>4
<1>2. TypeOK /\ [Next]_vars
        => [\A c \in wire \ wire' : c[1] = "amend" /\ stop' # stop =>
              \A o \in Amended : o.verdict = stop'[c[2]] /\ o.within]_vars
  <2> SUFFICES ASSUME TypeOK, Next, NEW c \in wire \ wire', c[1] = "amend", stop' # stop,
                      NEW o \in Amended
               PROVE  o.verdict = stop'[c[2]] /\ o.within
    OBVIOUS
  <2>1. stop'[c[2]] = "exact"
    BY OnlyBrokerTakes
  <2>2. QED BY <1>1, <2>1
<1>3. QED BY <1>2, TypeCorrect, PTL DEF Spec, AmendmentsRestore

=============================================================================

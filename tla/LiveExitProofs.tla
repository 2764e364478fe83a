--------------------------- MODULE LiveExitProofs ---------------------------
(***************************************************************************)
(* Proofs about LiveExit for a position of any size, any number of orders  *)
(* and of loops in the middle of a pass, any ceilings, any failures and    *)
(* any reading of the wallet.                                              *)
(***************************************************************************)
EXTENDS LiveExit, SumTheorems

(***************************************************************************)
(* What holds of an exit record, a row, and a pass, wherever it is kept,   *)
(* when the wallet holds n shares.                                         *)
(***************************************************************************)

\* A submitted exit names its order and can still be retried; an exit that is not
\* blocked has had less than StreakLimit failures in a row.
Sane(e) ==
    /\ e \in Exits
    /\ e.status = "submitted" => e.order \in OrderIds
    /\ e.status \in {"none", "submitted"} => e.retry < HardCeiling
    /\ e.status \in {"none", "submitted", "failed"} => e.streak < StreakLimit

\* The row claims no more than was sold.
RowFits(r, n) ==
    /\ r \in Rows /\ Sane(r.exit)
    /\ r.exit.filled <= Shares - n /\ r.closed <= Shares - n

PassType == [pc : {"idle", "cancel", "place", "write"}, row : Rows, plan : Plans,
             size : 0..Shares, bypass : BOOLEAN]

\* What a pass is about to order is ordered for the state its copy is in.
PlanFits(p) ==
    /\ p.size > 0
    /\ p.pc = "cancel" => p.plan = "requote"
    /\ p.plan \in {"fresh", "retry", "requote"}
    /\ p.plan = "fresh" => p.row.exit.status = "none"
    /\ p.plan = "requote" => p.row.exit.status = "submitted"
    /\ p.plan = "retry" => /\ p.row.exit.status = "failed" /\ p.row.exit.retry < HardCeiling
                           /\ ~p.bypass => p.row.exit.retry < MaxRetries

\* A pass that is under way.
Pending(p, n) ==
    /\ p \in PassType /\ p.pc # "idle" /\ RowFits(p.row, n)
    /\ p.pc \in {"cancel", "place"} => PlanFits(p)

PassFits(p, n) == p = Idle \/ Pending(p, n)

(***************************************************************************)
(* The venue.                                                              *)
(***************************************************************************)

OrderType == [left : 0..Shares, filled : 0..Shares, state : OrderState]

\* What the orders may still sell.
LeftOf(O) == [o \in OrderIds |-> O[o].left]

\* One order: while it works there is something left, and what it has filled is
\* part of what was sold.
OrderFits(ord, n) ==
    /\ ord \in OrderType
    /\ ord.filled <= Shares - n
    /\ ord.state = "working" => ord.left > 0

\* The working orders share what the wallet holds; the history of the wallet
\* shows no more than was sold.
VenueFits(O, n, last) ==
    /\ n \in 0..Shares
    /\ last \in Nat /\ last <= Shares - n
    /\ O \in [OrderIds -> OrderType]
    /\ \A o \in OrderIds : OrderFits(O[o], n)
    /\ SumFunctionOnSet(LeftOf(O), OrderIds) <= n

VenueInv == VenueFits(orders, shares, trade)

LoopsInv ==
    /\ RowFits(row, shares)
    /\ pass \in [Loops -> PassType]
    /\ \A a \in Loops : PassFits(pass[a], shares)

\* Nothing is assumed of what the wallet's reading shows.
Reading == seen \in 0..Shares

ExitInv == VenueInv /\ LoopsInv /\ Reading

(***************************************************************************)
(* Sums over the orders.                                                   *)
(***************************************************************************)

LEMMA OrderIdsFinite == IsFiniteSet(OrderIds) /\ OrderIds \in SUBSET Nat
BY FS_Interval, LiveExitAssumption DEF OrderIds

LEMMA OrderNumbers ==
    ASSUME NEW ord \in OrderType
    PROVE  ord.left \in Nat /\ ord.filled \in Nat /\ ord.left <= Shares /\ ord.filled <= Shares
<1>1. Shares \in Nat
  BY LiveExitAssumption
<1> QED
  BY <1>1 DEF OrderType

\* One order changes, and the sum of what is left moves with it.
LEMMA OneOrderMoves ==
    ASSUME NEW O \in [OrderIds -> OrderType], NEW o \in OrderIds, NEW e \in OrderType,
           NEW P, P = [O EXCEPT ![o] = e]
    PROVE  /\ SumFunctionOnSet(LeftOf(O), OrderIds) \in Int
           /\ SumFunctionOnSet(LeftOf(P), OrderIds)
                = SumFunctionOnSet(LeftOf(O), OrderIds) - O[o].left + e.left
<1>1. /\ P \in [OrderIds -> OrderType] /\ P[o] = e
      /\ \A x \in OrderIds : x # o => P[x] = O[x]
  OBVIOUS
<1>2. PICK f, g : f = LeftOf(O) /\ g = LeftOf(P)
  OBVIOUS
<1>3. \A x \in OrderIds : f[x] = O[x].left /\ g[x] = P[x].left
  BY <1>2 DEF LeftOf
<1>4. \A x \in OrderIds : O[x].left \in Nat /\ P[x].left \in Nat
  BY <1>1, OrderNumbers
<1>5. IntOn(f, OrderIds) /\ IntOn(g, OrderIds) /\ \A y \in OrderIds \ {o} : f[y] = g[y]
  BY <1>1, <1>3, <1>4 DEF IntOn
<1>6. SumFunctionOnSet(g, OrderIds) = SumFunctionOnSet(f, OrderIds) - f[o] + g[o]
  <2>1. IsFiniteSet(OrderIds)
    BY OrderIdsFinite
  <2> QED
    BY <1>5, <2>1, SumChange
<1>7. SumFunctionOnSet(f, OrderIds) \in Int
  BY <1>5, SumRemove, OrderIdsFinite
<1> QED
  BY <1>1, <1>2, <1>3, <1>6, <1>7

\* What is left of one order is at most the sum.
LEMMA LeftIsPart ==
    ASSUME NEW O \in [OrderIds -> OrderType], NEW o \in OrderIds
    PROVE  /\ O[o].left <= SumFunctionOnSet(LeftOf(O), OrderIds)
           /\ SumFunctionOnSet(LeftOf(O), OrderIds) \in Nat
<1>1. PICK f : f = LeftOf(O)
  OBVIOUS
<1>2. \A x \in OrderIds : f[x] = O[x].left /\ O[x].left \in Nat
  BY <1>1, OrderNumbers DEF LeftOf
<1>3. NatOn(f, OrderIds) /\ IntOn(f, OrderIds)
  BY <1>2 DEF NatOn, IntOn
<1>4. SumFunctionOnSet(f, OrderIds) = f[o] + SumFunctionOnSet(f, OrderIds \ {o})
  BY <1>3, SumRemove, OrderIdsFinite
<1>5. SumFunctionOnSet(f, OrderIds \ {o}) \in Nat /\ SumFunctionOnSet(f, OrderIds) \in Nat
  BY <1>3, SumMonotone, OrderIdsFinite
<1> QED
  BY <1>1, <1>2, <1>4, <1>5

(***************************************************************************)
(* What the venue does.                                                    *)
(***************************************************************************)

LEMMA VenueNumbers ==
    ASSUME NEW O, NEW n, NEW t, VenueFits(O, n, t), NEW o \in OrderIds
    PROVE  /\ Shares \in Nat \ {0} /\ n \in Nat /\ n <= Shares
           /\ t \in Nat /\ t <= Shares - n /\ O \in [OrderIds -> OrderType]
           /\ O[o] \in OrderType /\ OrderFits(O[o], n)
           /\ O[o].left \in Nat /\ O[o].left <= Shares
           /\ O[o].filled \in Nat /\ O[o].filled <= Shares - n
           /\ SumFunctionOnSet(LeftOf(O), OrderIds) \in Nat
           /\ SumFunctionOnSet(LeftOf(O), OrderIds) <= n
           /\ O[o].left <= SumFunctionOnSet(LeftOf(O), OrderIds)
<1>1. /\ Shares \in Nat \ {0} /\ O \in [OrderIds -> OrderType] /\ n \in Nat /\ n <= Shares
      /\ t \in Nat /\ t <= Shares - n /\ OrderFits(O[o], n)
      /\ SumFunctionOnSet(LeftOf(O), OrderIds) <= n
  BY LiveExitAssumption DEF VenueFits
<1>2. O[o] \in OrderType /\ O[o].filled <= Shares - n
  BY <1>1 DEF OrderFits
<1> QED
  BY <1>1, <1>2, LeftIsPart, OrderNumbers

\* One order changes, within what the wallet held.
LEMMA OneOrderFits ==
    ASSUME NEW O, NEW n, NEW t, VenueFits(O, n, t),
           NEW o \in OrderIds, NEW e, NEW m \in Nat, m <= n, OrderFits(e, m),
           SumFunctionOnSet(LeftOf(O), OrderIds) - O[o].left + e.left <= m,
           NEW u \in Nat, u <= Shares - m
    PROVE  VenueFits([O EXCEPT ![o] = e], m, u)
<1>0. /\ Shares \in Nat /\ O \in [OrderIds -> OrderType] /\ e \in OrderType
      /\ n \in Nat /\ n <= Shares
  BY LiveExitAssumption DEF VenueFits, OrderFits
<1>1. PICK P : P = [O EXCEPT ![o] = e]
  OBVIOUS
<1>2. /\ P \in [OrderIds -> OrderType] /\ P[o] = e
      /\ \A x \in OrderIds : x # o => P[x] = O[x]
  BY <1>0, <1>1
<1>3. SumFunctionOnSet(LeftOf(P), OrderIds) <= m
  BY <1>0, <1>1, OneOrderMoves
<1>4. ASSUME NEW x \in OrderIds PROVE OrderFits(P[x], m)
  <2>1. CASE x = o
    BY <1>2, <2>1
  <2>2. CASE x # o
    <3>1. OrderFits(O[x], n) /\ P[x] = O[x] /\ O[x].filled \in Nat
      BY <1>0, <1>2, <2>2, OrderNumbers DEF VenueFits
    <3>2. O[x].filled <= Shares - m
      BY <1>0, <3>1 DEF OrderFits
    <3> QED
      BY <3>1, <3>2 DEF OrderFits
  <2> QED
    BY <2>1, <2>2
<1>5. m \in 0..Shares
  BY <1>0
<1> QED
  BY <1>1, <1>2, <1>3, <1>4, <1>5 DEF VenueFits

LEMMA FillKeepsVenue ==
    ASSUME VenueInv, NEW o \in OrderIds, Fill(o)
    PROVE  VenueInv' /\ shares' \in Nat /\ shares' <= shares
<1>0. PICK O, n, t : O = orders /\ n = shares /\ t = trade
  OBVIOUS
<1>1. VenueFits(O, n, t)
  BY <1>0 DEF VenueInv
<1>2. /\ O \in [OrderIds -> OrderType] /\ O[o] \in OrderType
      /\ O[o].left \in Nat /\ O[o].filled \in Nat /\ O[o].left <= Shares
      /\ n \in Nat /\ Shares \in Nat /\ n <= Shares /\ O[o].filled <= Shares - n
      /\ SumFunctionOnSet(LeftOf(O), OrderIds) \in Nat
      /\ SumFunctionOnSet(LeftOf(O), OrderIds) <= n
      /\ O[o].left <= SumFunctionOnSet(LeftOf(O), OrderIds)
  BY <1>1, VenueNumbers
<1>3. O[o].state = "working" /\ O[o].left > 0
  BY <1>0, <1>1, VenueNumbers DEF Fill, OrderFits
<1>4. PICK g \in 0..Shares, k \in 0..Shares, st \in OrderState :
         /\ g = O[o].filled + 1 /\ k = O[o].left - 1
         /\ st = IF O[o].left = 1 THEN "filled" ELSE "working"
  BY <1>2, <1>3 DEF OrderState
<1>5. PICK e : e = [O[o] EXCEPT !.filled = g, !.left = k, !.state = st]
  OBVIOUS
<1>6. e \in OrderType /\ e.filled = g /\ e.left = k /\ e.state = st
  BY <1>2, <1>5 DEF OrderType
<1>7. orders' = [O EXCEPT ![o] = e] /\ shares' = n - 1 /\ trade' = 1
  BY <1>0, <1>2, <1>4, <1>5 DEF Fill
<1>8. n - 1 \in Nat /\ n - 1 <= n /\ 1 <= Shares - (n - 1)
  BY <1>2, <1>3
<1>9. OrderFits(e, n - 1)
  BY <1>2, <1>3, <1>4, <1>6 DEF OrderFits
<1>10. SumFunctionOnSet(LeftOf(O), OrderIds) - O[o].left + e.left <= n - 1
  BY <1>2, <1>4, <1>6
<1>11. VenueFits([O EXCEPT ![o] = e], n - 1, 1)
  BY <1>1, <1>8, <1>9, <1>10, OneOrderFits
<1> QED
  BY <1>0, <1>7, <1>8, <1>11 DEF VenueInv

\* An order is cancelled, by the requote or by the venue.
LEMMA CancelKeepsVenue ==
    ASSUME VenueInv, NEW o \in OrderIds,
           orders' = [orders EXCEPT ![o].state = "cancelled", ![o].left = 0],
           UNCHANGED <<shares, trade>>
    PROVE  VenueInv'
<1>0. PICK O, n, t : O = orders /\ n = shares /\ t = trade
  OBVIOUS
<1>1. VenueFits(O, n, t)
  BY <1>0 DEF VenueInv
<1>2. /\ O \in [OrderIds -> OrderType] /\ O[o] \in OrderType /\ O[o].left \in Nat
      /\ n \in Nat /\ Shares \in Nat /\ t \in Nat /\ t <= Shares - n
      /\ O[o].filled <= Shares - n
      /\ SumFunctionOnSet(LeftOf(O), OrderIds) \in Nat
      /\ SumFunctionOnSet(LeftOf(O), OrderIds) <= n
  BY <1>1, VenueNumbers
<1>3a. PICK z \in 0..Shares : z = 0
  BY <1>2
<1>3. PICK e : e = [O[o] EXCEPT !.state = "cancelled", !.left = z]
  OBVIOUS
<1>4. e \in OrderType /\ e.filled = O[o].filled /\ e.left = 0 /\ e.state = "cancelled"
  <2>1. "cancelled" \in OrderState
    BY DEF OrderState
  <2> QED
    BY <1>2, <1>3, <1>3a, <2>1 DEF OrderType
<1>5. orders' = [O EXCEPT ![o] = e]
  BY <1>0, <1>2, <1>3, <1>3a
<1>6. OrderFits(e, n)
  BY <1>2, <1>4 DEF OrderFits
<1>7. SumFunctionOnSet(LeftOf(O), OrderIds) - O[o].left + e.left <= n
  BY <1>2, <1>4
<1>8. VenueFits([O EXCEPT ![o] = e], n, t)
  <2>1. n <= n
    BY <1>2
  <2> QED
    BY <1>1, <1>2, <1>6, <1>7, <2>1, OneOrderFits
<1> QED
  BY <1>0, <1>5, <1>8 DEF VenueInv

LEMMA NextSlotFree ==
    ASSUME FreeSlots # {}
    PROVE  NextSlot \in FreeSlots /\ NextSlot \in OrderIds
<1>1. FreeSlots \in SUBSET Nat
  BY OrderIdsFinite DEF FreeSlots
<1>2. \E x \in FreeSlots : \A y \in FreeSlots : x <= y
  BY <1>1, SmallestNat
<1> QED
  BY <1>2 DEF NextSlot, Min, FreeSlots

\* An order that reaches the venue asks for no more than is free.
LEMMA AcceptKeepsVenue ==
    ASSUME VenueInv, NEW n \in 1..Shares, NEW f \in 0..Shares, NEW rapid,
           NEW state \in {"working", "filled"}, Accept(n, f, state, rapid)
    PROVE  /\ VenueInv' /\ shares' = shares - f /\ f <= shares
           /\ NextSlot \in OrderIds
<1>0. PICK O, m, t : O = orders /\ m = shares /\ t = trade
  OBVIOUS
<1>1. VenueFits(O, m, t)
  BY <1>0 DEF VenueInv
<1>2. PICK o \in OrderIds : o = NextSlot
  BY NextSlotFree DEF Accept
<1>3. /\ O \in [OrderIds -> OrderType] /\ O[o].left \in Nat
      /\ m \in Nat /\ Shares \in Nat /\ m <= Shares /\ t \in Nat /\ t <= Shares - m
      /\ n \in Nat /\ f \in Nat /\ 1 <= n /\ n <= Shares /\ f <= Shares
      /\ SumFunctionOnSet(LeftOf(O), OrderIds) \in Nat
  BY <1>1, VenueNumbers
<1>4. n <= m - SumFunctionOnSet(LeftOf(O), OrderIds) /\ f <= n
  BY <1>0 DEF Accept, FreeShares, LeftOf
<1>5. state = "working" => f < n
  <2>1. f = n => state = "filled"
    BY DEF Accept
  <2> QED
    BY <1>3, <1>4, <2>1
<1>6. PICK k \in 0..Shares : k = IF state = "working" THEN n - f ELSE 0
  <2>1. n - f \in 0..Shares /\ 0 \in 0..Shares
    BY <1>3, <1>4
  <2> QED
    BY <2>1
<1>7. PICK e : e = [left |-> k, filled |-> f, state |-> state]
  OBVIOUS
<1>8. e \in OrderType /\ e.left = k /\ e.filled = f /\ e.state = state
  BY <1>7 DEF OrderType, OrderState
<1>9. orders' = [O EXCEPT ![o] = e] /\ shares' = m - f /\ trade' = IF f > 0 THEN f ELSE t
  BY <1>0, <1>2, <1>6, <1>7 DEF Accept
<1>10. m - f \in Nat /\ m - f <= m /\ f <= m
  BY <1>3, <1>4
<1>11. OrderFits(e, m - f)
  BY <1>3, <1>5, <1>6, <1>8, <1>10 DEF OrderFits
<1>12. SumFunctionOnSet(LeftOf(O), OrderIds) - O[o].left + e.left <= m - f
  BY <1>3, <1>4, <1>6, <1>8
<1>13. PICK u \in Nat : u = IF f > 0 THEN f ELSE t
  BY <1>3
<1>14. u <= Shares - (m - f)
  BY <1>3, <1>13
<1>15. VenueFits([O EXCEPT ![o] = e], m - f, u)
  BY <1>1, <1>10, <1>11, <1>12, <1>14, OneOrderFits
<1> QED
  BY <1>0, <1>2, <1>9, <1>10, <1>13, <1>15 DEF VenueInv

(***************************************************************************)
(* Exit records and rows.                                                  *)
(***************************************************************************)

LEMMA ExitFields ==
    ASSUME NEW e \in Exits
    PROVE  /\ e.status \in ExitStatus /\ e.order \in {NoOrder} \cup OrderIds /\ e.prov \in OrderState
           /\ e.filled \in Nat /\ e.filled <= Shares /\ e.retry \in Nat /\ e.retry <= HardCeiling
           /\ e.streak \in Nat /\ e.streak <= StreakLimit
           /\ e.reprices \in Nat /\ e.reprices <= MaxReprices /\ e.rapid \in BOOLEAN
<1>1. /\ e.filled \in 0..Shares /\ e.retry \in 0..HardCeiling /\ e.streak \in 0..StreakLimit
      /\ e.reprices \in 0..MaxReprices /\ e.status \in ExitStatus
      /\ e.order \in {NoOrder} \cup OrderIds /\ e.prov \in OrderState
  BY DEF Exits
<1>2. e.rapid \in BOOLEAN
  BY DEF Exits
<1> QED
  BY <1>1, <1>2, LiveExitAssumption

LEMMA ExitUpdates ==
    ASSUME NEW e \in Exits
    PROVE  /\ \A st \in ExitStatus, n \in 0..HardCeiling :
                 /\ [e EXCEPT !.status = st] \in Exits
                 /\ [e EXCEPT !.status = st, !.retry = n] \in Exits
                 /\ \A k \in 0..StreakLimit : [e EXCEPT !.status = st, !.retry = n, !.streak = k] \in Exits
           /\ \A st \in ExitStatus, k \in 0..StreakLimit : [e EXCEPT !.status = st, !.streak = k] \in Exits
           /\ \A p \in OrderState, f \in 0..Shares : [e EXCEPT !.prov = p, !.filled = f] \in Exits
           /\ \A n \in 0..MaxReprices : [e EXCEPT !.reprices = n] \in Exits
           /\ \A st \in ExitStatus, o \in OrderIds, f \in 0..Shares :
                 [e EXCEPT !.status = st, !.order = o, !.filled = f] \in Exits
           /\ \A st \in ExitStatus, o \in OrderIds : [e EXCEPT !.status = st, !.order = o] \in Exits
BY DEF Exits

LEMMA NoExitSane ==
    /\ Sane(NoExit) /\ NoExit.status = "none" /\ NoExit.filled = 0
    /\ \A rapid \in BOOLEAN : Sane([NoExit EXCEPT !.rapid = rapid])
<1>1. /\ 0 \in 0..Shares /\ 0 \in 0..HardCeiling /\ 0 \in 0..StreakLimit /\ 0 \in 0..MaxReprices
      /\ 0 < HardCeiling /\ 0 < StreakLimit
  BY LiveExitAssumption
<1>2. NoExit \in Exits /\ \A rapid \in BOOLEAN : [NoExit EXCEPT !.rapid = rapid] \in Exits
  BY <1>1 DEF NoExit, Exits, ExitStatus, OrderState
<1> QED
  BY <1>1, <1>2 DEF Sane, NoExit

LEMMA IdleFits ==
    /\ Idle \in PassType /\ Idle.pc = "idle" /\ Idle.row \in Rows
    /\ Idle.row.exit.filled = 0 /\ Idle.row.exit.order = NoOrder
<1>1. 0 \in 0..Shares
  BY LiveExitAssumption
<1>2. NoExit \in Exits
  BY NoExitSane DEF Sane
<1>3. Idle.row \in Rows
  BY <1>1, <1>2 DEF Idle, Rows
<1> QED
  BY <1>1, <1>3 DEF Idle, PassType, Plans, NoExit

\* Selling more harms no row and no pass.
LEMMA FitsStays ==
    ASSUME NEW n \in 0..Shares, NEW m \in Nat, m <= n
    PROVE  /\ \A r : RowFits(r, n) => RowFits(r, m)
           /\ \A p : PassFits(p, n) => PassFits(p, m)
<1>0. Shares \in Nat /\ n \in Nat
  BY LiveExitAssumption
<1>1. ASSUME NEW r, RowFits(r, n) PROVE RowFits(r, m)
  <2>1. r.exit.filled \in Nat /\ r.closed \in Nat
    BY <1>0, <1>1 DEF RowFits, Rows, Exits
  <2>2. r.exit.filled <= Shares - m /\ r.closed <= Shares - m
    BY <1>0, <1>1, <2>1 DEF RowFits
  <2> QED
    BY <1>1, <2>2 DEF RowFits
<1> QED
  BY <1>1 DEF PassFits, Pending

\* A record that has not failed too often is rescheduled.
LEMMA RescheduleSane ==
    ASSUME NEW e, Sane(e), e.status \in {"none", "submitted", "failed"}, e.retry < HardCeiling
    PROVE  Sane(Reschedule(e)) /\ Reschedule(e).filled = e.filled
<1>1. e \in Exits /\ e.retry \in Nat /\ HardCeiling \in Nat
  BY ExitFields, LiveExitAssumption DEF Sane
<1>2. PICK n \in 0..HardCeiling : n = e.retry + 1
  BY <1>1
<1>3. Reschedule(e) = [e EXCEPT !.status = "failed", !.retry = n]
  BY <1>2 DEF Reschedule
<1>4. PICK x : x = [e EXCEPT !.status = "failed", !.retry = n]
  OBVIOUS
<1>5. x \in Exits
  BY <1>1, <1>4, ExitUpdates DEF ExitStatus
<1>6. x.status = "failed" /\ x.streak = e.streak /\ x.filled = e.filled
  BY <1>1, <1>4 DEF Exits
<1> QED
  BY <1>3, <1>4, <1>5, <1>6 DEF Sane

LEMMA FailedExitSane ==
    ASSUME NEW e, Sane(e), e.status \in {"none", "submitted", "failed"},
           NEW error, NEW n \in 0..HardCeiling
    PROVE  Sane(FailedExit(e, error, n)) /\ FailedExit(e, error, n).filled = e.filled
<1>1. e \in Exits /\ e.streak \in Nat /\ StreakLimit \in Nat \ {0} /\ e.streak < StreakLimit
  BY ExitFields, LiveExitAssumption DEF Sane
<1>2. PICK k \in Nat : k = IF error = "blocked" THEN e.streak + 1 ELSE 0
  BY <1>1
<1>3. k \in 0..StreakLimit
  BY <1>1, <1>2
<1>4. PICK st : st = CASE error = "zero" -> "noInventory"
                       [] error = "blocked" /\ k >= StreakLimit -> "timeout"
                       [] OTHER -> "failed"
  OBVIOUS
<1>5. /\ st \in {"noInventory", "timeout", "failed"}
      /\ st = "failed" => k < StreakLimit
  BY <1>1, <1>2, <1>4
<1>6. PICK x : x = [e EXCEPT !.status = st, !.retry = n, !.streak = k]
  OBVIOUS
<1>7. FailedExit(e, error, n) = x
  BY <1>2, <1>4, <1>6 DEF FailedExit
<1>8. x \in Exits
  <2>1. st \in ExitStatus
    BY <1>5 DEF ExitStatus
  <2> QED
    BY <1>1, <1>3, <1>6, <2>1, ExitUpdates
<1>9. x.status = st /\ x.streak = k /\ x.filled = e.filled
  BY <1>1, <1>6 DEF Exits
<1> QED
  BY <1>5, <1>7, <1>8, <1>9 DEF Sane

\* A row is closed with no more than was sold.
LEMMA ClosedFits ==
    ASSUME NEW r, r \in Rows, NEW m \in 0..Shares, NEW n \in Nat, n <= Shares - m,
           r.exit.filled <= Shares - m
    PROVE  RowFits(Closed(r, n), m)
<1>1. /\ Shares \in Nat /\ m \in Nat /\ r.exit \in Exits
      /\ 0 \in 0..StreakLimit /\ 0 \in 0..HardCeiling /\ 0 \in 0..MaxReprices
  BY LiveExitAssumption DEF Rows
<1>2. PICK x : x = [NoExit EXCEPT !.status = "done", !.order = r.exit.order, !.filled = r.exit.filled]
  OBVIOUS
<1>3. /\ r.exit.order \in {NoOrder} \cup OrderIds /\ r.exit.filled \in Nat
      /\ r.exit.filled \in 0..Shares /\ n \in 0..Shares
  BY <1>1, ExitFields
<1>4. x \in Exits /\ x.status = "done" /\ x.filled = r.exit.filled
  BY <1>1, <1>2, <1>3 DEF NoExit, Exits, ExitStatus, OrderState
<1>5. Sane(x)
  BY <1>4 DEF Sane
<1>6. PICK q : q = Closed(r, n)
  OBVIOUS
<1>7. q.exit = x /\ q.closed = n /\ q.open = FALSE /\ q = [open |-> FALSE, closed |-> n, exit |-> x]
  BY <1>2, <1>6 DEF Closed
<1>8. q \in Rows
  BY <1>3, <1>4, <1>7 DEF Rows
<1> QED
  BY <1>4, <1>5, <1>6, <1>7, <1>8 DEF RowFits

(***************************************************************************)
(* What a loop may decide.                                                 *)
(***************************************************************************)

LEMMA WritePending ==
    ASSUME NEW r, NEW n, RowFits(r, n)
    PROVE  Pending(Write(r), n)
<1>1. r \in Rows /\ Idle \in PassType
  BY IdleFits DEF RowFits
<1>2. PICK p : p = Write(r)
  OBVIOUS
<1>3. p \in PassType /\ p.pc = "write" /\ p.row = r
  BY <1>1, <1>2 DEF Write, PassType
<1> QED
  BY <1>2, <1>3 DEF Pending

\* The row with another exit record.
LEMMA NewExitFits ==
    ASSUME NEW r, NEW n \in 0..Shares, RowFits(r, n), NEW e, Sane(e), e.filled <= Shares - n
    PROVE  RowFits([r EXCEPT !.exit = e], n) /\ [r EXCEPT !.exit = e].exit = e
<1>1. r \in Rows /\ e \in Exits
  BY DEF RowFits, Sane
<1>2. PICK q : q = [r EXCEPT !.exit = e]
  OBVIOUS
<1>3. q \in Rows /\ q.exit = e /\ q.closed = r.closed /\ q.open = r.open
  BY <1>1, <1>2 DEF Rows
<1> QED
  BY <1>2, <1>3 DEF RowFits

LEMMA WriteExitPending ==
    ASSUME shares \in 0..Shares, RowFits(row, shares), NEW e, Sane(e), e.filled <= Shares - shares
    PROVE  Pending(WriteExit(e), shares)
BY NewExitFits, WritePending DEF WriteExit

LEMMA OrderPending ==
    ASSUME shares \in 0..Shares, RowFits(row, shares), NEW e, Sane(e), e.filled <= Shares - shares,
           NEW n \in 1..Shares, NEW pc \in {"cancel", "place"},
           NEW plan \in {"fresh", "retry", "requote"}, pc = "cancel" => plan = "requote",
           plan = "fresh" => e.status = "none", plan = "requote" => e.status = "submitted",
           plan = "retry" => /\ e.status = "failed" /\ e.retry < HardCeiling
                             /\ e.retry >= MaxRetries => seen > 0
    PROVE  Pending(Order(pc, e, plan, n), shares)
<1>1. RowFits([row EXCEPT !.exit = e], shares) /\ [row EXCEPT !.exit = e].exit = e
  BY NewExitFits
<1>2. PICK b \in BOOLEAN :
         b = (plan = "retry" /\ e.retry \in MaxRetries..(HardCeiling - 1) /\ seen > 0)
  <2>1. (plan = "retry" /\ e.retry \in MaxRetries..(HardCeiling - 1) /\ seen > 0) \in BOOLEAN
    BY Zenon
  <2> QED
    BY <2>1, Zenon
<1>3. PICK r : r = [row EXCEPT !.exit = e]
  OBVIOUS
<1>4. PICK p : p = Order(pc, e, plan, n)
  OBVIOUS
<1>5. p = [pc |-> pc, row |-> r, plan |-> plan, size |-> n, bypass |-> b]
  BY <1>2, <1>3, <1>4, Zenon DEF Order
<1>6. n \in 0..Shares /\ n > 0 /\ r \in Rows
  BY <1>1, <1>3, LiveExitAssumption DEF RowFits
<1>7. p \in PassType
  <2>1. pc \in {"idle", "cancel", "place", "write"} /\ plan \in Plans
    BY DEF Plans
  <2> QED
    BY <1>2, <1>5, <1>6, <2>1 DEF PassType
<1>8. p.pc = pc /\ p.row = r /\ p.plan = plan /\ p.size = n /\ p.bypass = b
  BY <1>5
<1>9. ASSUME plan = "retry", ~b PROVE e.retry < MaxRetries
  <2>1. e.retry \in Nat /\ MaxRetries \in Nat /\ HardCeiling \in Nat
    BY ExitFields, LiveExitAssumption DEF Sane
  <2>2. ~(e.retry \in MaxRetries..(HardCeiling - 1) /\ seen > 0)
    BY <1>2, <1>9, Zenon
  <2> QED
    BY <1>9, <2>1, <2>2
<1>10. PlanFits(p)
  BY <1>1, <1>3, <1>6, <1>8, <1>9 DEF PlanFits
<1> QED
  BY <1>1, <1>3, <1>4, <1>7, <1>8, <1>10 DEF Pending

\* What is left to sell.
LEMMA RemainingSize ==
    ASSUME NEW f \in 0..Shares, NEW w \in 0..Shares
    PROVE  /\ RemainingExitSize(f, w) \in 0..Shares
           /\ f < Shares => RemainingExitSize(f, w) \in 1..Shares
<1>1. Shares \in Nat /\ f \in Nat /\ f <= Shares /\ w \in Nat /\ w <= Shares
  BY LiveExitAssumption
<1>2. PICK left \in Nat : left = Shares - f
  BY <1>1
<1>3. Min({left, w}) \in {left, w}
  <2>1. \E x \in {left, w} : \A y \in {left, w} : x <= y
    BY <1>1
  <2> QED
    BY <2>1 DEF Min
<1>4. RemainingExitSize(f, w) = IF w = 0 THEN left ELSE IF left = 0 THEN w ELSE Min({left, w})
  BY <1>2 DEF RemainingExitSize
<1> QED
  BY <1>1, <1>2, <1>3, <1>4

\* What a loop finds when it starts.
Found == VenueInv /\ RowFits(row, shares) /\ row.open /\ Reading

LEMMA FoundNumbers ==
    ASSUME Found
    PROVE  /\ shares \in 0..Shares /\ seen \in 0..Shares /\ Shares \in Nat \ {0}
           /\ shares \in Nat /\ shares <= Shares /\ seen \in Nat
           /\ trade \in Nat /\ trade <= Shares - shares
           /\ Sane(row.exit) /\ row.exit \in Exits /\ row \in Rows /\ row.exit.filled \in Nat
           /\ row.exit.filled <= Shares - shares
<1>1. /\ shares \in 0..Shares /\ seen \in 0..Shares /\ Shares \in Nat \ {0}
      /\ trade \in Nat /\ trade <= Shares - shares
  BY LiveExitAssumption DEF Found, VenueInv, VenueFits, Reading
<1>2. Sane(row.exit) /\ row.exit \in Exits /\ row \in Rows /\ row.exit.filled <= Shares - shares
  BY DEF Found, RowFits, Sane
<1> QED
  BY <1>1, <1>2, ExitFields

\* Closing a row with fills that were sold.
LEMMA ClosePending ==
    ASSUME Found, NEW r \in Rows, r.exit.filled <= Shares - shares,
           NEW n \in Nat, n <= Shares - shares
    PROVE  Pending(Write(Closed(r, n)), shares)
BY FoundNumbers, ClosedFits, WritePending

\* A trade of the whole position shows that it was sold.
LEMMA FlattenPending ==
    ASSUME Found, NEW reading, NEW p \in ExternalFlatten(reading)
    PROVE  Pending(p, shares)
<1>1. /\ Shares \in Nat /\ shares \in Nat /\ shares <= Shares /\ row \in Rows
      /\ trade \in Nat /\ trade <= Shares - shares /\ row.exit.filled <= Shares - shares
  BY FoundNumbers
<1>2. \/ trade >= Shares /\ p = Write(Closed(row, Shares))
      \/ p = Write(Closed(row, 0))
  BY DEF ExternalFlatten, When
<1>3. trade >= Shares => Pending(Write(Closed(row, Shares)), shares)
  <2>1. trade >= Shares => Shares <= Shares - shares
    BY <1>1
  <2> QED
    BY <1>1, <2>1, ClosePending
<1>4. Pending(Write(Closed(row, 0)), shares)
  <2>1. 0 \in Nat /\ 0 <= Shares - shares
    BY <1>1
  <2> QED
    BY <1>1, <2>1, ClosePending
<1> QED
  BY <1>2, <1>3, <1>4

LEMMA BlockedPending ==
    ASSUME Found, NEW reading, NEW p \in BlockedExit(reading)
    PROVE  Pending(p, shares)
<1>1. /\ Shares \in Nat /\ shares \in Nat /\ row \in Rows /\ row.exit.filled \in Nat
      /\ row.exit.filled <= Shares - shares
  BY FoundNumbers
<1>2. row.exit.filled >= Shares /\ p = Write(Closed(row, Shares))
  BY DEF BlockedExit, When
<1>3. Shares <= Shares - shares
  BY <1>1, <1>2
<1> QED
  BY <1>1, <1>2, <1>3, ClosePending

LEMMA FreshPending ==
    ASSUME Found, NEW p \in FreshExit
    PROVE  Pending(p, shares)
<1>0. /\ shares \in 0..Shares /\ seen \in 0..Shares /\ Shares \in Nat \ {0} /\ shares <= Shares
      /\ RowFits(row, shares)
  BY FoundNumbers DEF Found
<1>1. PICK rapid \in BOOLEAN :
         p = Order("place", [NoExit EXCEPT !.rapid = rapid], "fresh", RemainingExitSize(0, seen))
  BY LiveExitAssumption DEF FreshExit
<1>2. PICK e : e = [NoExit EXCEPT !.rapid = rapid]
  OBVIOUS
<1>3. Sane(e) /\ e.status = "none" /\ e.filled = 0
  BY <1>2, NoExitSane DEF NoExit
<1>4. PICK n \in 1..Shares : n = RemainingExitSize(0, seen)
  BY <1>0, RemainingSize
<1>5. Pending(Order("place", e, "fresh", n), shares)
  BY <1>0, <1>3, <1>4, OrderPending
<1> QED
  BY <1>1, <1>2, <1>4, <1>5

\* The failed branch.
LEMMA RetryPending ==
    ASSUME Found, row.exit.status = "failed", NEW p \in FailedRetry
    PROVE  Pending(p, shares)
<1>0. /\ shares \in 0..Shares /\ seen \in 0..Shares /\ seen \in Nat /\ RowFits(row, shares)
      /\ Sane(row.exit) /\ row.exit.filled <= Shares - shares
  BY FoundNumbers DEF Found
<1>1. PICK e : e = row.exit
  OBVIOUS
<1>2. /\ e \in Exits /\ e.status = "failed" /\ e.retry \in Nat /\ e.retry <= HardCeiling
      /\ HardCeiling \in Nat /\ MaxRetries \in Nat /\ e.filled \in 0..Shares
  BY <1>0, <1>1, ExitFields, LiveExitAssumption DEF Sane
<1>3. PICK n \in 0..Shares : n = RemainingExitSize(e.filled, seen)
  BY <1>0, <1>2, RemainingSize
<1>4. \/ p = WriteExit([e EXCEPT !.status = "hard"])
      \/ p = WriteExit([e EXCEPT !.status = "exhausted"])
      \/ /\ n > 0 /\ e.retry < HardCeiling
         /\ ~(e.retry \in MaxRetries..(HardCeiling - 1) /\ seen = 0)
         /\ p = Order("place", e, "retry", n)
      \/ e.retry < HardCeiling /\ p = WriteExit(Reschedule(e))
  BY <1>1, <1>2, <1>3 DEF FailedRetry
<1>5. ASSUME NEW st \in {"hard", "exhausted"} PROVE Pending(WriteExit([e EXCEPT !.status = st]), shares)
  <2>1. PICK x : x = [e EXCEPT !.status = st]
    OBVIOUS
  <2>2. x \in Exits /\ x.status = st /\ x.filled = e.filled
    BY <1>2, <2>1, <1>5 DEF Exits, ExitStatus
  <2>3. Sane(x)
    BY <2>2, <1>5 DEF Sane
  <2>4. Pending(WriteExit(x), shares)
    BY <1>0, <1>1, <2>2, <2>3, WriteExitPending
  <2> QED
    BY <2>1, <2>4
<1>6. ASSUME e.retry < HardCeiling PROVE Pending(WriteExit(Reschedule(e)), shares)
  <2>1. Sane(Reschedule(e)) /\ Reschedule(e).filled = e.filled
    BY <1>0, <1>1, <1>2, <1>6, RescheduleSane
  <2> QED
    BY <1>0, <1>1, <2>1, WriteExitPending
<1>7. ASSUME n > 0, e.retry < HardCeiling, ~(e.retry \in MaxRetries..(HardCeiling - 1) /\ seen = 0)
      PROVE  Pending(Order("place", e, "retry", n), shares)
  <2>1. e.retry >= MaxRetries => seen > 0
    BY <1>0, <1>2, <1>7
  <2>2. n \in 1..Shares
    BY <1>7, LiveExitAssumption
  <2> QED
    BY <1>0, <1>1, <1>2, <1>7, <2>1, <2>2, OrderPending
<1> QED
  BY <1>4, <1>5, <1>6, <1>7

\* The snapshot of an order is merged into a record.
LEMMA MergeSane ==
    ASSUME NEW e, Sane(e), NEW n \in 0..Shares, e.filled <= Shares - n, NEW o, OrderFits(o, n)
    PROVE  /\ Sane(MergeSnapshot(e, o)) /\ MergeSnapshot(e, o).filled <= Shares - n
           /\ MergeSnapshot(e, o).status = e.status /\ MergeSnapshot(e, o).retry = e.retry
<1>1. e \in Exits /\ o \in OrderType /\ o.filled <= Shares - n
  BY DEF Sane, OrderFits
<1>2. o.filled \in 0..Shares /\ o.state \in OrderState /\ e.filled \in 0..Shares
  BY <1>1, LiveExitAssumption DEF OrderType, Exits
<1>3. PICK f \in 0..Shares : f = IF o.filled > 0 THEN o.filled ELSE e.filled
  BY <1>2
<1>4. PICK x : x = [e EXCEPT !.prov = o.state, !.filled = f]
  OBVIOUS
<1>5. x = MergeSnapshot(e, o)
  BY <1>1, <1>3, <1>4 DEF MergeSnapshot, Exits
<1>6. x \in Exits
  BY <1>1, <1>2, <1>4, ExitUpdates
<1>7. /\ x.status = e.status /\ x.retry = e.retry /\ x.streak = e.streak /\ x.order = e.order
      /\ x.filled = f
  BY <1>1, <1>4 DEF Exits
<1> QED
  BY <1>1, <1>3, <1>5, <1>6, <1>7 DEF Sane

\* The submitted branch.
LEMMA SubmittedPending ==
    ASSUME Found, row.exit.status = "submitted", NEW reading, NEW snapshot \in BOOLEAN,
           NEW p \in SubmittedExit(reading, snapshot)
    PROVE  Pending(p, shares)
<1>0. /\ shares \in 0..Shares /\ seen \in 0..Shares /\ seen \in Nat /\ RowFits(row, shares)
      /\ Sane(row.exit) /\ row.exit.filled <= Shares - shares /\ row \in Rows /\ Shares \in Nat
  BY FoundNumbers DEF Found
<1>1. PICK o \in OrderIds : o = row.exit.order
  BY <1>0 DEF Sane
<1>2. OrderFits(orders[o], shares)
  BY <1>1 DEF Found, VenueInv, VenueFits
<1>3. PICK e : e = IF snapshot THEN MergeSnapshot(row.exit, orders[o]) ELSE row.exit
  OBVIOUS
<1>4. Sane(e) /\ e.filled <= Shares - shares /\ e.status = "submitted"
  BY <1>0, <1>2, <1>3, MergeSane
<1>5. /\ e \in Exits /\ e.filled \in 0..Shares /\ e.filled \in Nat /\ e.retry \in Nat
      /\ e.retry < HardCeiling /\ e.reprices \in Nat /\ MaxReprices \in Nat
  BY <1>4, ExitFields, LiveExitAssumption DEF Sane
<1>6. \/ p = Write(Closed([row EXCEPT !.exit = e], e.filled))
      \/ p = WriteExit(Reschedule(e))
      \/ p = WriteExit(e)
      \/ /\ Below(e.filled, e) /\ e.reprices < MaxReprices
         /\ p = Order("cancel", [e EXCEPT !.reprices = @ + 1], "requote",
                      RemainingExitSize(e.filled, seen))
  BY <1>1, <1>3 DEF SubmittedExit, When
<1>7. Pending(Write(Closed([row EXCEPT !.exit = e], e.filled)), shares)
  <2>1. PICK r : r = [row EXCEPT !.exit = e]
    OBVIOUS
  <2>2. r \in Rows /\ r.exit = e
    BY <1>0, <1>5, <2>1 DEF Rows
  <2>3. Pending(Write(Closed(r, e.filled)), shares)
    BY <1>4, <1>5, <2>2, ClosePending
  <2> QED
    BY <2>1, <2>3
<1>8. Pending(WriteExit(Reschedule(e)), shares)
  <2>1. Sane(Reschedule(e)) /\ Reschedule(e).filled = e.filled
    BY <1>4, <1>5, RescheduleSane
  <2> QED
    BY <1>0, <1>4, <2>1, WriteExitPending
<1>9. Pending(WriteExit(e), shares)
  BY <1>0, <1>4, WriteExitPending
<1>10. ASSUME Below(e.filled, e), e.reprices < MaxReprices
       PROVE  Pending(Order("cancel", [e EXCEPT !.reprices = @ + 1], "requote",
                            RemainingExitSize(e.filled, seen)), shares)
  <2>1. PICK k \in 0..MaxReprices : k = e.reprices + 1
    BY <1>5, <1>10
  <2>2. PICK x : x = [e EXCEPT !.reprices = k]
    OBVIOUS
  <2>3. x = [e EXCEPT !.reprices = @ + 1]
    BY <1>5, <2>1, <2>2 DEF Exits
  <2>4. x \in Exits
    BY <1>5, <2>2, ExitUpdates
  <2>5. /\ x.status = e.status /\ x.retry = e.retry /\ x.streak = e.streak /\ x.order = e.order
        /\ x.filled = e.filled
    BY <1>5, <2>2 DEF Exits
  <2>6. Sane(x)
    BY <1>4, <2>4, <2>5 DEF Sane
  <2>7. e.filled < Shares
    <3>1. FillThreshold(e) \in {85, 88}
      BY DEF FillThreshold
    <3>2. e.filled * 100 < Shares * 85 \/ e.filled * 100 < Shares * 88
      BY <1>10, <3>1 DEF Below
    <3> QED
      BY <1>0, <1>5, <3>2
  <2>8. PICK n \in 1..Shares : n = RemainingExitSize(e.filled, seen)
    BY <1>0, <1>5, <2>7, RemainingSize
  <2>9. Pending(Order("cancel", x, "requote", n), shares)
    BY <1>0, <1>4, <2>5, <2>6, <2>8, OrderPending
  <2> QED
    BY <2>3, <2>8, <2>9
<1> QED
  BY <1>6, <1>7, <1>8, <1>9, <1>10

\* Every decision of the candidate loop is a pass in order.
LEMMA CandidatePending ==
    ASSUME Found, NEW reading, NEW history, NEW snapshot \in BOOLEAN, NEW aged,
           NEW p \in Candidate(reading, history, snapshot, aged)
    PROVE  Pending(p, shares)
<1>1. CASE p \in ExternalFlatten(reading)
  BY <1>1, FlattenPending
<1>2. CASE p = Write(Closed(row, 0))
  <2>1. 0 \in Nat /\ 0 <= Shares - shares /\ row \in Rows /\ row.exit.filled <= Shares - shares
    BY LiveExitAssumption, FoundNumbers
  <2> QED
    BY <1>2, <2>1, ClosePending
<1>3. CASE row.exit.status = "submitted" /\ p \in SubmittedExit(reading, snapshot)
  BY <1>3, SubmittedPending
<1>4. CASE row.exit.status = "failed" /\ p \in FailedRetry
  BY <1>4, RetryPending
<1>5. CASE row.exit.status = "timeout" /\ p = WriteExit(ClearTimeout(row.exit))
  <2>0. /\ shares \in 0..Shares /\ RowFits(row, shares) /\ row.exit \in Exits /\ Sane(row.exit)
        /\ row.exit.filled <= Shares - shares
    BY FoundNumbers DEF Found
  <2>1. PICK x : x = [row.exit EXCEPT !.status = "failed", !.streak = 0]
    OBVIOUS
  <2>2. x = ClearTimeout(row.exit)
    BY <1>5, <2>1 DEF ClearTimeout
  <2>. 0 \in 0..StreakLimit /\ "failed" \in ExitStatus
    BY LiveExitAssumption DEF ExitStatus
  <2>3. x \in Exits
    BY <2>0, <2>1, ExitUpdates
  <2>4. x.status = "failed" /\ x.streak = 0 /\ x.filled = row.exit.filled
    BY <2>0, <2>1 DEF Exits
  <2>5. Sane(x)
    BY <2>3, <2>4, LiveExitAssumption DEF Sane
  <2>6. Pending(WriteExit(x), shares)
    BY <2>0, <2>4, <2>5, WriteExitPending
  <2> QED
    BY <1>5, <2>2, <2>6
<1>6. CASE p \in BlockedExit(reading)
  BY <1>6, BlockedPending
<1>7. CASE p \in FreshExit
  BY <1>7, FreshPending
<1> QED
  BY <1>1, <1>2, <1>3, <1>4, <1>5, <1>6, <1>7 DEF Candidate, When

(***************************************************************************)
(* The record after the order call.                                        *)
(***************************************************************************)

\* What is known of a loop that is about to order, when the wallet holds n.
LEMMA OrderingFields ==
    ASSUME NEW p, NEW n, Pending(p, n), p.pc \in {"cancel", "place"}
    PROVE  /\ p \in PassType /\ RowFits(p.row, n) /\ PlanFits(p)
           /\ Sane(p.row.exit) /\ p.row.exit \in Exits /\ p.row.exit.filled <= Shares - n
           /\ p.row.exit.status \in {"none", "submitted", "failed"}
           /\ p.row.exit.retry \in Nat /\ p.row.exit.retry < HardCeiling
           /\ p.row.exit.streak < StreakLimit
           /\ p.row.exit.rapid \in BOOLEAN /\ p.size \in 1..Shares
<1>1. p \in PassType /\ RowFits(p.row, n) /\ PlanFits(p)
  BY DEF Pending
<1>2. Sane(p.row.exit) /\ p.row.exit \in Exits /\ p.row.exit.filled <= Shares - n
  BY <1>1 DEF RowFits, Sane
<1>3. p.row.exit.status \in {"none", "submitted", "failed"}
  BY <1>1 DEF PlanFits
<1>4. p.row.exit.retry \in Nat /\ p.row.exit.rapid \in BOOLEAN
  BY <1>2, ExitFields
<1>5. p.row.exit.retry < HardCeiling /\ p.row.exit.streak < StreakLimit
  BY <1>1, <1>2, <1>3 DEF PlanFits, Sane
<1>6. p.size \in 0..Shares /\ p.size > 0
  BY <1>1 DEF PassType, PlanFits
<1> QED
  BY <1>1, <1>2, <1>3, <1>4, <1>5, <1>6, LiveExitAssumption

\* A record whose order was taken: a requote adds what it traded at once.
LEMMA PlacedSane ==
    ASSUME NEW a \in Loops, shares \in 0..Shares, Pending(pass[a], shares), pass[a].pc = "place",
           NEW o \in OrderIds, NEW f \in Nat, f <= shares, NEW state \in {"working", "filled"}
    PROVE  /\ Sane(Placed(a, o, f, state))
           /\ Placed(a, o, f, state).filled <= Shares - (shares - f)
<1>0. PICK e, n, b, plan : e = Copy(a).exit /\ n = shares /\ b = pass[a].bypass /\ plan = pass[a].plan
  OBVIOUS
<1>1. /\ e \in Exits /\ Sane(e) /\ e.filled <= Shares - n /\ e.retry \in Nat /\ e.retry < HardCeiling
      /\ e.streak < StreakLimit /\ e.filled \in Nat /\ e.filled <= Shares
      /\ n \in Nat /\ n <= Shares /\ f <= n /\ Shares \in Nat
      /\ HardCeiling \in Nat /\ MaxRetries \in Nat /\ MaxRetries < HardCeiling
  BY <1>0, OrderingFields, ExitFields, LiveExitAssumption DEF Copy
<1>2. /\ plan \in {"fresh", "retry", "requote"}
      /\ plan = "retry" => (~b => e.retry < MaxRetries)
  BY <1>0, OrderingFields DEF PlanFits, Copy
<1>3. PICK s : s = [e EXCEPT !.status = "submitted", !.order = o]
  OBVIOUS
<1>4. /\ s \in Exits /\ s.status = "submitted" /\ s.order = o /\ s.retry = e.retry
      /\ s.streak = e.streak /\ s.filled = e.filled
  BY <1>1, <1>3 DEF Exits, ExitStatus
<1>5. e.filled <= Shares - (n - f)
  BY <1>1
<1>6. CASE plan = "fresh"
  <2>1. Placed(a, o, f, state) = s
    BY <1>0, <1>3, <1>6 DEF Placed
  <2> QED
    BY <1>0, <1>1, <1>4, <1>5, <2>1 DEF Sane
<1>7. CASE plan = "retry"
  <2>1. PICK k \in 0..HardCeiling : k = (IF b THEN e.retry ELSE e.retry + 1) /\ k < HardCeiling
    BY <1>1, <1>2, <1>7
  <2>2. PICK x : x = [s EXCEPT !.retry = k]
    OBVIOUS
  <2>3. Placed(a, o, f, state) = x
    BY <1>0, <1>3, <1>7, <2>1, <2>2 DEF Placed
  <2>4. x \in Exits /\ x.status = "submitted" /\ x.order = o /\ x.retry = k
        /\ x.streak = e.streak /\ x.filled = e.filled
    BY <1>4, <2>1, <2>2 DEF Exits
  <2> QED
    BY <1>0, <1>1, <1>5, <2>1, <2>3, <2>4 DEF Sane
<1>8. CASE plan = "requote"
  <2>1. PICK g \in 0..Shares : g = e.filled + f
    <3>1. e.filled + f \in 0..Shares
      BY <1>1
    <3> QED
      BY <3>1
  <2>2. state \in OrderState
    BY DEF OrderState
  <2>3. PICK x : x = [s EXCEPT !.prov = state, !.filled = g]
    OBVIOUS
  <2>4. Placed(a, o, f, state) = x
    BY <1>0, <1>3, <1>8, <2>1, <2>3 DEF Placed
  <2>5. x \in Exits /\ x.status = "submitted" /\ x.order = o /\ x.retry = e.retry
        /\ x.streak = e.streak /\ x.filled = g
    BY <1>4, <2>1, <2>2, <2>3 DEF Exits
  <2>6. g <= Shares - (n - f)
    BY <1>1, <2>1
  <2> QED
    BY <1>0, <1>1, <2>4, <2>5, <2>6 DEF Sane
<1> QED
  BY <1>2, <1>6, <1>7, <1>8

\* A record whose order was not taken: no retry passes the hard ceiling.
LEMMA NotPlacedSane ==
    ASSUME NEW a \in Loops, NEW n, Pending(pass[a], n), pass[a].pc = "place", NEW error
    PROVE  Sane(NotPlaced(a, error)) /\ NotPlaced(a, error).filled <= Shares - n
<1>0. PICK e : e = Copy(a).exit
  OBVIOUS
<1>1. /\ Sane(e) /\ e.filled <= Shares - n /\ e.retry \in Nat /\ e.retry < HardCeiling
      /\ e.status \in {"none", "submitted", "failed"} /\ HardCeiling \in Nat
  BY <1>0, OrderingFields, LiveExitAssumption DEF Copy
<1>2. 1 \in 0..HardCeiling /\ e.retry + 1 \in 0..HardCeiling
  BY <1>1
<1>3. \/ NotPlaced(a, error) = FailedExit(e, error, 1)
      \/ NotPlaced(a, error) = FailedExit(e, error, e.retry + 1)
      \/ NotPlaced(a, error) = Reschedule(e)
  BY <1>0 DEF NotPlaced
<1>4. Sane(FailedExit(e, error, 1)) /\ FailedExit(e, error, 1).filled = e.filled
  BY <1>1, <1>2, FailedExitSane
<1>5. Sane(FailedExit(e, error, e.retry + 1)) /\ FailedExit(e, error, e.retry + 1).filled = e.filled
  BY <1>1, <1>2, FailedExitSane
<1>6. Sane(Reschedule(e)) /\ Reschedule(e).filled = e.filled
  BY <1>1, RescheduleSane
<1> QED
  BY <1>1, <1>3, <1>4, <1>5, <1>6

(***************************************************************************)
(* The steps of the loops.                                                 *)
(***************************************************************************)

\* One loop moves while the wallet holds no more than before.
LEMMA OneLoopMoves ==
    ASSUME LoopsInv, shares \in 0..Shares, shares' \in Nat, shares' <= shares, row' = row,
           NEW a \in Loops, NEW p, pass' = [pass EXCEPT ![a] = p], PassFits(p, shares')
    PROVE  LoopsInv'
<1>0. PICK n, m, r, P, Q : n = shares /\ m = shares' /\ r = row /\ P = pass /\ Q = pass'
  OBVIOUS
<1>1. /\ RowFits(r, n) /\ P \in [Loops -> PassType] /\ \A b \in Loops : PassFits(P[b], n)
      /\ n \in 0..Shares /\ m \in Nat /\ m <= n /\ Q = [P EXCEPT ![a] = p] /\ PassFits(p, m)
  BY <1>0 DEF LoopsInv
<1>2. RowFits(r, m) /\ \A b \in Loops : PassFits(P[b], m)
  BY <1>1, FitsStays
<1>3. p \in PassType
  BY <1>1, IdleFits DEF PassFits, Pending
<1>4. Q \in [Loops -> PassType] /\ \A b \in Loops : PassFits(Q[b], m)
  BY <1>1, <1>2, <1>3
<1> QED
  BY <1>0, <1>2, <1>4 DEF LoopsInv

\* No loop moves while the wallet holds no more than before.
LEMMA NoLoopMoves ==
    ASSUME LoopsInv, shares \in 0..Shares, shares' \in Nat, shares' <= shares, UNCHANGED <<row, pass>>
    PROVE  LoopsInv'
<1>0. PICK n, m, r, P : n = shares /\ m = shares' /\ r = row /\ P = pass
  OBVIOUS
<1>1. RowFits(r, m) /\ P \in [Loops -> PassType] /\ \A b \in Loops : PassFits(P[b], m)
  BY <1>0, FitsStays DEF LoopsInv
<1> QED
  BY <1>0, <1>1 DEF LoopsInv

\* The copy goes to the write with its new record, or is lost with the session.
LEMMA AfterOrderKeeps ==
    ASSUME LoopsInv, shares \in 0..Shares, shares' \in Nat, shares' <= shares, row' = row,
           NEW a \in Loops, Pending(pass[a], shares), NEW e, Sane(e), e.filled <= Shares - shares',
           AfterOrder(a, e)
    PROVE  LoopsInv'
<1>0. PICK n, m, q : n = shares /\ m = shares' /\ q = Copy(a)
  OBVIOUS
<1>1. RowFits(q, n) /\ n \in 0..Shares /\ m \in Nat /\ m <= n /\ e.filled <= Shares - m
  BY <1>0 DEF Pending, Copy
<1>2. m \in 0..Shares /\ RowFits(q, m)
  BY <1>1, FitsStays, LiveExitAssumption
<1>3. PICK r : r = [q EXCEPT !.exit = e]
  OBVIOUS
<1>4. Pending(Write(r), m)
  BY <1>1, <1>2, <1>3, NewExitFits, WritePending
<1>5. PICK p : p = IF a = "risk" THEN Idle ELSE Write(r)
  OBVIOUS
<1>6. PassFits(p, shares')
  BY <1>0, <1>4, <1>5 DEF PassFits
<1>7. pass' = [pass EXCEPT ![a] = p]
  BY <1>0, <1>3, <1>5, Zenon DEF AfterOrder
<1> QED
  BY <1>6, <1>7, OneLoopMoves

\* A loop in the middle of a pass is not idle.
LEMMA BusyPending ==
    ASSUME LoopsInv, NEW a \in Loops, pass[a].pc # "idle"
    PROVE  Pending(pass[a], shares)
BY IdleFits DEF LoopsInv, PassFits

\* The venue as it was.
LEMMA VenueStays ==
    ASSUME VenueInv, UNCHANGED <<venue, seen>>
    PROVE  VenueInv' /\ shares' = shares /\ shares \in 0..Shares /\ shares' \in Nat /\ shares' <= shares
<1>1. shares' = shares /\ shares \in 0..Shares
  BY DEF venue, VenueInv, VenueFits
<1>2. shares \in Nat
  BY <1>1, LiveExitAssumption
<1>3. VenueInv'
  BY DEF venue, VenueInv
<1> QED
  BY <1>1, <1>2, <1>3

\* Beginning a pass with a decision that is in order.
LEMMA BeginKeeps ==
    ASSUME ExitInv, NEW a \in Loops, NEW S, \A p \in S : Pending(p, shares), Begin(a, S),
           UNCHANGED <<row, venue, seen>>
    PROVE  ExitInv'
<1>1. VenueInv' /\ shares' = shares /\ shares \in 0..Shares /\ shares' \in Nat /\ shares' <= shares
  BY VenueStays DEF ExitInv
<1>2. PICK p \in S : pass' = [pass EXCEPT ![a] = p]
  BY DEF Begin
<1>3. PassFits(p, shares')
  BY <1>1, <1>2 DEF PassFits
<1> QED
  BY <1>1, <1>2, <1>3, OneLoopMoves DEF ExitInv, Reading

LEMMA StartFound ==
    ASSUME ExitInv, NEW a, Starts(a)
    PROVE  Found /\ row \in Rows /\ Pending(Write(row), shares)
<1>1. Found
  BY DEF ExitInv, LoopsInv, Starts, Found
<1>2. RowFits(row, shares)
  BY DEF ExitInv, LoopsInv
<1> QED
  BY <1>1, <1>2, WritePending DEF RowFits

\* The venue and the wallet.
LEMMA OutsideKeeps ==
    ASSUME ExitInv,
           \/ \E o \in OrderIds : Fill(o) \/ Drop(o)
           \/ RefreshWallet \/ WalletBlip
    PROVE  ExitInv'
<1>0. VenueInv /\ LoopsInv /\ Reading /\ shares \in 0..Shares /\ shares \in Nat
  BY LiveExitAssumption DEF ExitInv, VenueInv, VenueFits
<1>1. ASSUME NEW o \in OrderIds, Fill(o) PROVE ExitInv'
  <2>1. VenueInv' /\ shares' \in Nat /\ shares' <= shares
    BY <1>0, <1>1, FillKeepsVenue
  <2>2. UNCHANGED <<row, pass>> /\ seen' = seen
    BY <1>1 DEF Fill
  <2>3. LoopsInv'
    BY <1>0, <2>1, <2>2, NoLoopMoves
  <2> QED
    BY <1>0, <2>1, <2>2, <2>3 DEF ExitInv, Reading
<1>2. ASSUME NEW o \in OrderIds, Drop(o) PROVE ExitInv'
  <2>1. /\ orders' = [orders EXCEPT ![o].state = "cancelled", ![o].left = 0]
        /\ UNCHANGED <<shares, trade>> /\ UNCHANGED <<row, pass>> /\ seen' = seen
    BY <1>2 DEF Drop
  <2>a. VenueInv'
    BY <1>0, <2>1, CancelKeepsVenue
  <2>b. shares' = shares
    BY <2>1
  <2>2. VenueInv' /\ shares' \in Nat /\ shares' <= shares
    BY <1>0, <2>a, <2>b
  <2>3. LoopsInv'
    BY <1>0, <2>1, <2>2, NoLoopMoves
  <2> QED
    BY <1>0, <2>1, <2>2, <2>3 DEF ExitInv, Reading
<1>3. CASE RefreshWallet \/ WalletBlip
  <2>1. seen' \in 0..Shares /\ UNCHANGED <<orders, shares, trade, row, pass>>
    BY <1>0, <1>3 DEF RefreshWallet, WalletBlip, venue
  <2> QED
    BY <1>0, <2>1 DEF ExitInv, Reading, LoopsInv, VenueInv
<1> QED
  BY <1>1, <1>2, <1>3

\* A pass begins.
LEMMA PassesKeep ==
    ASSUME ExitInv,
           \/ \E booked \in 0..Sold : RiskSweep(booked)
           \/ \E a \in Loops : TouchOnly(a)
           \/ \E reading \in Readings, snapshot, aged \in BOOLEAN :
               \/ TradingPass(reading, snapshot, aged)
               \/ \E history \in BOOLEAN : ColdPass(reading, history, snapshot, aged)
    PROVE  ExitInv'
<1>0. "risk" \in Loops /\ "trading" \in Loops /\ "cold" \in Loops
  BY DEF Loops
<1>1. ASSUME NEW booked \in 0..Sold, RiskSweep(booked) PROVE ExitInv'
  <2>0. Found /\ row \in Rows
    BY <1>1, StartFound DEF RiskSweep
  <2>1. UNCHANGED <<row, venue, seen>>
    BY <1>1 DEF RiskSweep
  <2>2. CASE Begin("risk", {Write(Closed(row, booked))})
    <3>1. booked \in Nat /\ booked <= Shares - shares /\ row.exit.filled <= Shares - shares
      BY <2>0, FoundNumbers DEF Sold
    <3>2. Pending(Write(Closed(row, booked)), shares)
      BY <2>0, <3>1, ClosePending
    <3>3. \A p \in {Write(Closed(row, booked))} : Pending(p, shares)
      BY <3>2
    <3> QED
      BY <1>0, <2>1, <2>2, <3>3, BeginKeeps
  <2>3. CASE Begin("risk", FreshExit)
    <3>1. \A p \in FreshExit : Pending(p, shares)
      BY <2>0, FreshPending
    <3> QED
      BY <1>0, <2>1, <2>3, <3>1, BeginKeeps
  <2> QED
    BY <1>1, <2>2, <2>3 DEF RiskSweep
<1>2. ASSUME NEW a \in Loops, TouchOnly(a) PROVE ExitInv'
  <2>1. Begin(a, {Write(row)}) /\ UNCHANGED <<row, venue, seen>>
    BY <1>2 DEF TouchOnly
  <2>2. \A p \in {Write(row)} : Pending(p, shares)
    BY <1>2, StartFound DEF TouchOnly
  <2> QED
    BY <2>1, <2>2, BeginKeeps
<1>3. ASSUME NEW reading \in Readings, NEW snapshot \in BOOLEAN, NEW aged \in BOOLEAN,
             TradingPass(reading, snapshot, aged)
      PROVE  ExitInv'
  <2>1. /\ Begin("trading", Candidate(reading, FALSE, snapshot, aged))
        /\ UNCHANGED <<row, venue, seen>>
    BY <1>3 DEF TradingPass
  <2>2. \A p \in Candidate(reading, FALSE, snapshot, aged) : Pending(p, shares)
    BY <1>3, StartFound, CandidatePending DEF TradingPass
  <2> QED
    BY <1>0, <2>1, <2>2, BeginKeeps
<1>4. ASSUME NEW reading \in Readings, NEW snapshot \in BOOLEAN, NEW aged \in BOOLEAN,
             NEW history \in BOOLEAN, ColdPass(reading, history, snapshot, aged)
      PROVE  ExitInv'
  <2>1. PICK S : S = {WithoutOrders(p) : p \in Candidate(reading, history, snapshot, aged)}
    OBVIOUS
  <2>2. Begin("cold", S) /\ UNCHANGED <<row, venue, seen>>
    BY <1>4, <2>1 DEF ColdPass
  <2>3. Found
    BY <1>4, StartFound DEF ColdPass
  <2>4. ASSUME NEW p \in Candidate(reading, history, snapshot, aged)
        PROVE  Pending(WithoutOrders(p), shares)
    <3>1. RowFits(p.row, shares)
      BY <2>3, CandidatePending DEF Pending
    <3>2. shares \in 0..Shares /\ Sane(row.exit) /\ row.exit.filled <= Shares - shares
      BY <2>3, FoundNumbers
    <3> QED
      BY <3>1, <3>2, NewExitFits, WritePending DEF WithoutOrders
  <2>5. \A q \in S : Pending(q, shares)
    BY <2>1, <2>4
  <2> QED
    BY <1>0, <2>2, <2>5, BeginKeeps
<1> QED
  BY <1>1, <1>2, <1>3, <1>4

\* The order call: taken, unmatched, refused, or without an answer.
LEMMA OrderCallsKeep ==
    ASSUME ExitInv, NEW a \in {"risk", "trading"},
           PlaceExit(a) \/ UnmatchedExit(a) \/ RefuseExit(a) \/ PlaceFails(a)
    PROVE  ExitInv'
<1>0. /\ VenueInv /\ LoopsInv /\ Reading /\ a \in Loops /\ pass[a].pc = "place"
      /\ shares \in 0..Shares /\ shares \in Nat /\ row' = row /\ seen' = seen
  <2>1. VenueInv /\ LoopsInv /\ Reading /\ a \in Loops
    BY DEF ExitInv, Loops
  <2>2. shares \in 0..Shares /\ shares \in Nat
    BY <2>1, LiveExitAssumption DEF VenueInv, VenueFits
  <2>3. pass[a].pc = "place" /\ row' = row /\ seen' = seen
    BY DEF PlaceExit, UnmatchedExit, RefuseExit, PlaceFails
  <2> QED
    BY <2>1, <2>2, <2>3
<1>1. Pending(pass[a], shares)
  BY <1>0, BusyPending
<1>2. pass[a].size \in 1..Shares
  BY <1>0, <1>1, OrderingFields
<1>3. ASSUME NEW f \in 0..Shares, NEW state \in {"working", "filled"},
             Accept(pass[a].size, f, state, Copy(a).exit.rapid)
      PROVE  /\ VenueInv' /\ shares' = shares - f /\ f <= shares /\ NextSlot \in OrderIds
             /\ shares' \in Nat /\ shares' <= shares /\ f \in Nat
  <2>1. VenueInv' /\ shares' = shares - f /\ f <= shares /\ NextSlot \in OrderIds
    BY <1>0, <1>2, <1>3, AcceptKeepsVenue
  <2>2. f \in Nat
    BY LiveExitAssumption
  <2> QED
    BY <1>0, <2>1, <2>2
<1>4. ASSUME NEW error, AfterOrder(a, NotPlaced(a, error)), shares' \in Nat, shares' <= shares
      PROVE  LoopsInv'
  <2>1. Sane(NotPlaced(a, error)) /\ NotPlaced(a, error).filled <= Shares - shares
    BY <1>0, <1>1, NotPlacedSane
  <2>2. NotPlaced(a, error).filled <= Shares - shares'
    <3>1. NotPlaced(a, error).filled \in Nat
      BY <2>1, ExitFields DEF Sane
    <3> QED
      BY <1>0, <1>4, <2>1, <3>1, LiveExitAssumption
  <2> QED
    BY <1>0, <1>1, <1>4, <2>1, <2>2, AfterOrderKeeps
<1>5. CASE PlaceExit(a)
  <2>1. PICK f \in 0..Shares, state \in {"working", "filled"} :
           /\ Accept(pass[a].size, f, state, Copy(a).exit.rapid)
           /\ AfterOrder(a, Placed(a, NextSlot, f, state))
    BY <1>5 DEF PlaceExit
  <2>2. /\ VenueInv' /\ shares' = shares - f /\ f <= shares /\ NextSlot \in OrderIds
        /\ shares' \in Nat /\ shares' <= shares /\ f \in Nat
    BY <1>3, <2>1
  <2>3. Sane(Placed(a, NextSlot, f, state)) /\ Placed(a, NextSlot, f, state).filled <= Shares - shares'
    BY <1>0, <1>1, <2>2, PlacedSane
  <2>4. LoopsInv'
    BY <1>0, <1>1, <2>1, <2>2, <2>3, AfterOrderKeeps
  <2> QED
    BY <1>0, <2>2, <2>4 DEF ExitInv, Reading
<1>6. CASE UnmatchedExit(a) \/ RefuseExit(a)
  <2>1. PICK error : AfterOrder(a, NotPlaced(a, error))
    BY <1>6 DEF UnmatchedExit, RefuseExit
  <2>2. UNCHANGED <<venue, seen>>
    BY <1>6 DEF UnmatchedExit, RefuseExit, venue
  <2>3. VenueInv' /\ shares' \in Nat /\ shares' <= shares
    BY <1>0, <2>2, VenueStays
  <2>4. LoopsInv'
    BY <1>4, <2>1, <2>3
  <2> QED
    BY <1>0, <2>3, <2>4 DEF ExitInv, Reading
<1>7. CASE PlaceFails(a)
  <2>1. PICK error : AfterOrder(a, NotPlaced(a, error))
    BY <1>7 DEF PlaceFails
  <2>2. VenueInv' /\ shares' \in Nat /\ shares' <= shares
    <3>1. CASE \E f \in 0..Shares, state \in {"working", "filled"} :
                  Accept(pass[a].size, f, state, Copy(a).exit.rapid)
      BY <1>3, <3>1
    <3>2. CASE UNCHANGED venue
      BY <1>0, <3>2, VenueStays
    <3> QED
      BY <1>7, <3>1, <3>2 DEF PlaceFails
  <2>3. LoopsInv'
    BY <1>4, <2>1, <2>2
  <2> QED
    BY <1>0, <2>2, <2>3 DEF ExitInv, Reading
<1> QED
  BY <1>5, <1>6, <1>7

LEMMA CancelExitKeeps ==
    ASSUME ExitInv, NEW a \in Loops, CancelExit(a)
    PROVE  ExitInv'
<1>0. /\ VenueInv /\ LoopsInv /\ Reading /\ pass[a].pc = "cancel" /\ shares \in 0..Shares
      /\ shares \in Nat /\ UNCHANGED <<row, shares, seen, trade>>
  BY LiveExitAssumption DEF ExitInv, VenueInv, VenueFits, CancelExit
<1>1. Pending(pass[a], shares)
  BY <1>0, BusyPending
<1>2. PICK p : p = pass[a]
  OBVIOUS
<1>3. /\ p \in PassType /\ RowFits(p.row, shares) /\ PlanFits(p) /\ p.plan = "requote"
      /\ Sane(p.row.exit) /\ p.row.exit.status = "submitted" /\ p.row.exit.order \in OrderIds
      /\ p.row.exit.retry < HardCeiling /\ p.row.exit.filled <= Shares - shares
  BY <1>0, <1>1, <1>2, OrderingFields DEF PlanFits, Sane
<1>4. CASE /\ orders' = [orders EXCEPT ![Copy(a).exit.order].state = "cancelled",
                                       ![Copy(a).exit.order].left = 0]
           /\ pass' = [pass EXCEPT ![a].pc = "place"]
  <2>1. VenueInv'
    BY <1>0, <1>2, <1>3, <1>4, CancelKeepsVenue DEF Copy
  <2>2. PICK q : q = [p EXCEPT !.pc = "place"]
    OBVIOUS
  <2>3. /\ q \in PassType /\ q.pc = "place" /\ q.row = p.row /\ q.plan = p.plan /\ q.size = p.size
    BY <1>3, <2>2 DEF PassType
  <2>4. PlanFits(q)
    BY <1>3, <2>3 DEF PlanFits
  <2>5. PassFits(q, shares')
    BY <1>0, <1>3, <2>3, <2>4 DEF PassFits, Pending
  <2>6. pass' = [pass EXCEPT ![a] = q]
    BY <1>0, <1>2, <1>4, <2>2 DEF LoopsInv
  <2>7. shares' \in Nat /\ shares' <= shares /\ row' = row
    BY <1>0
  <2>8. LoopsInv'
    BY <1>0, <2>5, <2>6, <2>7, OneLoopMoves
  <2> QED
    BY <1>0, <2>1, <2>8 DEF ExitInv, Reading
<1>5. CASE AfterOrder(a, Reschedule(Copy(a).exit)) /\ UNCHANGED orders
  <2>1. VenueInv' /\ shares' \in Nat /\ shares' <= shares
    BY <1>0, <1>5, VenueStays DEF venue
  <2>2. PICK e : e = Reschedule(p.row.exit)
    OBVIOUS
  <2>3. Sane(e) /\ e.filled <= Shares - shares'
    BY <1>0, <1>3, <2>2, RescheduleSane
  <2>4. AfterOrder(a, e)
    BY <1>2, <1>5, <2>2 DEF Copy
  <2>5. LoopsInv'
    BY <1>0, <1>1, <2>1, <2>3, <2>4, AfterOrderKeeps
  <2> QED
    BY <1>0, <2>1, <2>5 DEF ExitInv, Reading
<1> QED
  BY <1>4, <1>5 DEF CancelExit

\* The copy, or what the risk loop keeps of it, fits as the row did.
LEMMA StoredFits ==
    ASSUME LoopsInv, shares \in 0..Shares, NEW a \in Loops, pass[a].pc = "write"
    PROVE  RowFits(Stored(a), shares)
<1>1. RowFits(row, shares) /\ RowFits(Copy(a), shares)
  BY BusyPending DEF LoopsInv, Pending, Copy
<1>2. RowFits([row EXCEPT !.exit = Copy(a).exit], shares)
  BY <1>1, NewExitFits DEF RowFits
<1> QED
  BY <1>1, <1>2 DEF Stored

\* A loop or a process ends its pass: its copy is gone.
LEMMA IdlesKeep ==
    ASSUME LoopsInv, NEW Q \in [Loops -> PassType], \A b \in Loops : Q[b] = Idle \/ Q[b] = pass[b]
    PROVE  \A b \in Loops : PassFits(Q[b], shares)
BY DEF LoopsInv, PassFits

LEMMA WriteRowKeeps ==
    ASSUME ExitInv, NEW a \in Loops, WriteRow(a)
    PROVE  ExitInv'
<1>0. /\ VenueInv /\ LoopsInv /\ Reading /\ pass[a].pc = "write" /\ UNCHANGED <<venue, seen>>
      /\ pass' = [pass EXCEPT ![a] = Idle]
  BY DEF ExitInv, WriteRow
<1>1. VenueInv' /\ shares' = shares /\ shares \in 0..Shares
  BY <1>0, VenueStays
<1>2. RowFits(row', shares')
  BY <1>0, <1>1, StoredFits DEF WriteRow, LoopsInv
<1>3. PICK Q : Q = pass'
  OBVIOUS
<1>4. Q \in [Loops -> PassType] /\ \A b \in Loops : Q[b] = Idle \/ Q[b] = pass[b]
  BY <1>0, <1>3, IdleFits DEF LoopsInv
<1>5. \A b \in Loops : PassFits(Q[b], shares)
  BY <1>0, <1>4, IdlesKeep
<1> QED
  BY <1>0, <1>1, <1>2, <1>3, <1>4, <1>5 DEF ExitInv, Reading, LoopsInv

LEMMA CrashKeeps ==
    ASSUME ExitInv, NEW plane, Crash(plane)
    PROVE  ExitInv'
<1>0. /\ VenueInv /\ LoopsInv /\ Reading /\ UNCHANGED <<venue, seen>> /\ row' = row
      /\ pass' = [a \in Loops |-> IF a \in plane THEN Idle ELSE pass[a]]
  BY DEF ExitInv, Crash
<1>1. VenueInv' /\ shares' = shares
  BY <1>0, VenueStays
<1>2. PICK Q : Q = pass'
  OBVIOUS
<1>3. Q \in [Loops -> PassType] /\ \A b \in Loops : Q[b] = Idle \/ Q[b] = pass[b]
  BY <1>0, <1>2, IdleFits DEF LoopsInv
<1>4. \A b \in Loops : PassFits(Q[b], shares)
  BY <1>0, <1>3, IdlesKeep
<1> QED
  BY <1>0, <1>1, <1>2, <1>3, <1>4 DEF ExitInv, Reading, LoopsInv

LEMMA ExitInit == Init => ExitInv
<1> SUFFICES ASSUME Init PROVE ExitInv
  OBVIOUS
<1>0. /\ Shares \in Nat \ {0} /\ 0 \in 0..Shares /\ Shares \in 0..Shares /\ Shares - Shares = 0
      /\ row = [open |-> TRUE, exit |-> NoExit, closed |-> 0]
      /\ orders = [o \in OrderIds |-> Unused]
      /\ shares = Shares /\ seen \in 0..Shares /\ trade = 0
      /\ pass = [a \in Loops |-> Idle]
  BY LiveExitAssumption DEF Init
<1>1. /\ Unused \in OrderType /\ Unused.filled = 0 /\ Unused.left = 0 /\ Unused.state = "unused"
  BY <1>0 DEF Unused, OrderType, OrderState
<1>2. \A o \in OrderIds : OrderFits(orders[o], shares)
  BY <1>0, <1>1 DEF OrderFits
<1>3. SumFunctionOnSet(LeftOf(orders), OrderIds) = 0
  <2>1. PICK f : f = LeftOf(orders)
    OBVIOUS
  <2>2. \A o \in OrderIds : f[o] = 0
    BY <1>0, <1>1, <2>1 DEF LeftOf
  <2>3. SumFunctionOnSet(f, OrderIds) = 0
    BY <2>2, SumZero, OrderIdsFinite
  <2> QED
    BY <2>1, <2>3
<1>4. VenueInv
  BY <1>0, <1>1, <1>2, <1>3 DEF VenueInv, VenueFits
<1>5. RowFits(row, shares)
  <2>1. row.exit = NoExit /\ row.closed = 0 /\ row.open = TRUE
    BY <1>0
  <2>2. row \in Rows
    BY <1>0, NoExitSane DEF Rows, Sane
  <2> QED
    BY <1>0, <2>1, <2>2, NoExitSane DEF RowFits
<1>6. LoopsInv
  BY <1>0, <1>5, IdleFits DEF LoopsInv, PassFits
<1> QED
  BY <1>0, <1>4, <1>6 DEF ExitInv, Reading

LEMMA ExitStep == Spec => []ExitInv
<1>1. ASSUME ExitInv, [Next]_vars PROVE ExitInv'
  <2>1. CASE UNCHANGED vars
    BY <1>1, <2>1 DEF vars, ExitInv, VenueInv, LoopsInv, Reading
  <2>2. CASE \E a \in {"risk", "trading"} :
                PlaceExit(a) \/ UnmatchedExit(a) \/ RefuseExit(a) \/ PlaceFails(a)
    BY <1>1, <2>2, OrderCallsKeep
  <2>3. CASE \E a \in Loops : WriteRow(a)
    BY <1>1, <2>3, WriteRowKeeps
  <2>4. CASE CancelExit("trading")
    BY <1>1, <2>4, CancelExitKeeps DEF Loops
  <2>5. CASE \E plane \in Planes : Crash(plane)
    BY <1>1, <2>5, CrashKeeps
  <2> QED
    BY <1>1, <2>1, <2>2, <2>3, <2>4, <2>5, OutsideKeeps, PassesKeep DEF Next
<1> QED
  BY <1>1, ExitInit, PTL DEF Spec

(***************************************************************************)
(* Theorems.                                                               *)
(***************************************************************************)

\* The position's bookkeeping keeps its types, whatever the readings of the
\* wallet show: the counters of a pending_live_exit stay within their ceilings,
\* and the sum of fills that a requote records stays within the position.
THEOREM ExitTypeCorrect == Spec => []TypeOK
<1>1. ASSUME ExitInv PROVE TypeOK
  <2>1. /\ row \in Rows /\ pass \in [Loops -> PassType] /\ orders \in [OrderIds -> OrderType]
        /\ shares \in 0..Shares /\ seen \in 0..Shares
        /\ trade \in Nat /\ trade <= Shares - shares
    BY <1>1 DEF ExitInv, LoopsInv, RowFits, VenueInv, VenueFits, Reading
  <2>2. trade \in 0..Shares
    BY <2>1, LiveExitAssumption
  <2> QED
    BY <2>1, <2>2 DEF TypeOK, PassType, OrderType
<1> QED
  BY <1>1, ExitStep, PTL

\* FillsNotOverstated for every instance: neither the sum a requote builds up,
\* nor a merged snapshot, nor a record that is used without one, nor a stale
\* copy that is written back by key claims a share that was not sold.
THEOREM FillsHonest == Spec => []FillsNotOverstated
<1>1. ASSUME ExitInv PROVE FillsNotOverstated
  <2>1. row.exit.filled <= Sold /\ row.closed <= Sold
    BY <1>1 DEF ExitInv, LoopsInv, RowFits, Sold
  <2>2. 0 <= Sold
    BY <1>1, LiveExitAssumption DEF ExitInv, VenueInv, VenueFits, Sold
  <2>3. ASSUME NEW a \in Loops PROVE Copy(a).exit.filled <= Sold
    BY <1>1, <2>2, IdleFits DEF ExitInv, LoopsInv, PassFits, Pending, RowFits, Copy, Sold
  <2> QED
    BY <2>1, <2>3 DEF FillsNotOverstated
<1> QED
  BY <1>1, ExitStep, PTL
=============================================================================

------------------------ MODULE MatchingEngineProofs ------------------------
(***************************************************************************)
(* Proofs about MatchingEngine for any tokens, prices, requests and books, *)
(* any latencies, and any number of orders and snapshots.                  *)
(***************************************************************************)
EXTENDS MatchingEngine, SumTheorems, SequenceTheorems

(***************************************************************************)
(* Sequences.                                                              *)
(***************************************************************************)

Distinct(s) == \A i, j \in DOMAIN s : s[i] = s[j] => i = j
Elements(s) == {s[i] : i \in DOMAIN s}

\* The working list after its removal of an order (ids.remove).
LEMMA RemovalFromList ==
    ASSUME NEW S, NEW s \in Seq(S), NEW e, Distinct(s)
    PROVE  /\ RemoveFirst(s, e) \in Seq(S)
           /\ Distinct(RemoveFirst(s, e))
           /\ Elements(RemoveFirst(s, e)) = Elements(s) \ {e}
<1>0. DOMAIN s = 1 .. Len(s) /\ Len(s) \in Nat /\ \A i \in 1 .. Len(s) : s[i] \in S
  OBVIOUS
<1>1. CASE ~\E i \in 1 .. Len(s) : s[i] = e
  BY <1>0, <1>1 DEF RemoveFirst, Elements
<1>2. CASE \E i \in 1 .. Len(s) : s[i] = e
  <2> DEFINE I == {i \in 1 .. Len(s) : s[i] = e}
  <2>1. PICK k \in 1 .. Len(s) : s[k] = e
    BY <1>2
  <2>2. \A i \in 1 .. Len(s) : s[i] = e => i = k
    BY <1>0, <2>1 DEF Distinct
  <2>3. I = {k}
    BY <2>1, <2>2
  <2>4. Min(I) = k
    BY <2>3, <2>1 DEF Min
  <2>5. RemoveFirst(s, e) = SubSeq(s, 1, k - 1) \o SubSeq(s, k + 1, Len(s))
    BY <1>2, <2>4, <2>3 DEF RemoveFirst, RemoveAt, SelectInSeq
  <2> DEFINE a == SubSeq(s, 1, k - 1)
             b == SubSeq(s, k + 1, Len(s))
             r == RemoveFirst(s, e)
  <2>6. /\ a \in Seq(S) /\ Len(a) = k - 1
        /\ \A i \in 1 .. k - 1 : a[i] = s[i]
    BY <1>0, <2>1, SubSeqProperties
  <2>7. /\ b \in Seq(S) /\ Len(b) = Len(s) - k
        /\ \A i \in 1 .. Len(s) - k : b[i] = s[k + i]
    <3>1. \A i \in k + 1 .. Len(s) : s[i] \in S
      BY <1>0, <2>1
    <3>2. /\ b \in Seq(S)
          /\ Len(b) = IF k + 1 <= Len(s) THEN Len(s) - (k + 1) + 1 ELSE 0
          /\ \A i \in 1 .. Len(s) - (k + 1) + 1 : b[i] = s[(k + 1) + i - 1]
      <4>1. k + 1 \in Int /\ Len(s) \in Int
        BY <1>0, <2>1
      <4> QED
        BY ONLY <4>1, <3>1, SubSeqProperties
    <3>3. \A i \in 1 .. Len(s) - k : b[i] = s[k + i]
      <4> TAKE i \in 1 .. Len(s) - k
      <4>1. i \in 1 .. Len(s) - (k + 1) + 1 /\ (k + 1) + i - 1 = k + i
        BY <1>0, <2>1
      <4> HIDE DEF b
      <4> QED
        BY <4>1, <3>2
    <3> HIDE DEF b
    <3>4. Len(b) = Len(s) - k
      <4>1. k \in Int /\ Len(s) \in Int /\ k <= Len(s)
        BY <1>0, <2>1
      <4> QED
        BY ONLY <3>2, <4>1
    <3> QED
      BY <3>2, <3>3, <3>4
  <2> HIDE DEF a, b
  <2>8. /\ r \in Seq(S) /\ Len(r) = Len(s) - 1
        /\ \A i \in 1 .. Len(s) - 1 : r[i] = IF i < k THEN s[i] ELSE s[i + 1]
    <3>0. a \in Seq(S) /\ b \in Seq(S)
      BY <2>6, <2>7
    <3>1. r = a \o b
      BY <2>5 DEF a, b
    <3>2. /\ r \in Seq(S) /\ Len(r) = Len(a) + Len(b)
          /\ \A i \in 1 .. Len(a) + Len(b) : r[i] = IF i <= Len(a) THEN a[i] ELSE b[i - Len(a)]
      BY ONLY <3>1, <3>0, ConcatProperties
    <3> HIDE DEF r
    <3>3. \A i \in 1 .. Len(s) - 1 : r[i] = IF i < k THEN s[i] ELSE s[i + 1]
      <4> TAKE i \in 1 .. Len(s) - 1
      <4>1. CASE i < k
        <5>1. i \in 1 .. Len(a) + Len(b) /\ i <= Len(a) /\ i \in 1 .. k - 1
          BY <4>1, <2>6, <2>7, <1>0, <2>1
        <5> QED
          BY <5>1, <4>1, <3>2, <2>6
      <4>2. CASE ~(i < k)
        <5>1. i \in 1 .. Len(a) + Len(b) /\ ~(i <= Len(a)) /\ i - Len(a) \in 1 .. Len(s) - k
              /\ k + (i - Len(a)) = i + 1
          BY <4>2, <2>6, <2>7, <1>0, <2>1
        <5> QED
          BY <5>1, <4>2, <3>2, <2>7
      <4> QED
        BY <4>1, <4>2
    <3> QED
      BY <3>2, <3>3, <2>6, <2>7, <1>0, <2>1
  <2> HIDE DEF r
  <2>9. DOMAIN r = 1 .. Len(s) - 1
    BY <2>8
  <2>10. Distinct(r)
    <3> DEFINE f(i) == IF i < k THEN i ELSE i + 1
    <3>1. \A i \in DOMAIN r : i \in Int /\ f(i) \in DOMAIN s /\ r[i] = s[f(i)]
      BY <2>8, <2>9, <2>1, <1>0
    <3>2. \A i, j \in Int : f(i) = f(j) => i = j
      BY <2>1, <1>0
    <3> HIDE DEF f
    <3> QED
      BY <3>1, <3>2 DEF Distinct
  <2>11. Elements(r) = Elements(s) \ {e}
    <3>1. ASSUME NEW i \in DOMAIN r PROVE r[i] \in Elements(s) \ {e}
      <4>1. i \in 1 .. Len(s) - 1
        BY <3>1, <2>9
      <4>2. CASE i < k
        <5>1. i \in DOMAIN s /\ i # k /\ r[i] = s[i]
          BY <4>1, <4>2, <2>8, <1>0
        <5> QED
          BY <5>1, <2>2 DEF Elements
      <4>3. CASE ~(i < k)
        <5>1. i + 1 \in DOMAIN s /\ i + 1 # k /\ r[i] = s[i + 1]
          BY <4>1, <4>3, <2>8, <2>1, <1>0
        <5> QED
          BY <5>1, <2>2 DEF Elements
      <4> QED
        BY <4>2, <4>3
    <3>2. ASSUME NEW i \in DOMAIN s, s[i] # e PROVE s[i] \in Elements(r)
      <4>1. CASE i < k
        BY <4>1, <2>8, <2>9, <2>1, <1>0 DEF Elements
      <4>2. CASE i > k
        <5>1. i - 1 \in DOMAIN r /\ r[i - 1] = s[i]
          BY <4>2, <2>8, <2>9, <2>1, <1>0
        <5> QED
          BY <5>1 DEF Elements
      <4> QED
        BY <3>2, <4>1, <4>2, <1>0, <2>1
    <3> QED
      BY <3>1, <3>2 DEF Elements
  <2> QED
    BY <2>8, <2>10, <2>11 DEF r
<1> QED
  BY <1>1, <1>2

\* The working list after an order was added.
LEMMA AdditionToList ==
    ASSUME NEW S, NEW s \in Seq(S), NEW e \in S, Distinct(s), e \notin Elements(s)
    PROVE  /\ ~Contains(s, e)
           /\ Append(s, e) \in Seq(S)
           /\ Distinct(Append(s, e))
           /\ Elements(Append(s, e)) = Elements(s) \cup {e}
<1> DEFINE r == Append(s, e)
<1>0. DOMAIN s = 1 .. Len(s) /\ Len(s) \in Nat
  OBVIOUS
<1>1. ~Contains(s, e)
  BY <1>0 DEF Contains, Elements
<1>2. /\ r \in Seq(S) /\ Len(r) = Len(s) + 1 /\ r[Len(s) + 1] = e
      /\ \A i \in 1 .. Len(s) : r[i] = s[i]
  BY AppendProperties
<1> HIDE DEF r
<1>3. DOMAIN r = 1 .. Len(s) + 1
  BY <1>2
<1>4. Distinct(r)
  BY <1>0, <1>2, <1>3 DEF Distinct, Elements
<1>5. Elements(r) = Elements(s) \cup {e}
  <2>1. \A i \in DOMAIN r : r[i] \in Elements(s) \cup {e}
    BY <1>0, <1>2, <1>3 DEF Elements
  <2>2. \A i \in DOMAIN s : s[i] \in Elements(r)
    BY <1>0, <1>2, <1>3 DEF Elements
  <2>3. e \in Elements(r)
    BY <1>0, <1>2, <1>3 DEF Elements
  <2> QED
    BY <2>1, <2>2, <2>3 DEF Elements
<1> QED
  BY <1>1, <1>2, <1>4, <1>5 DEF r

(***************************************************************************)
(* Depths of books.                                                        *)
(***************************************************************************)

LEMMA PricesFinite == IsFiniteSet(Prices) /\ MaxPrice \in Prices /\ 1 \in Prices
<1>1. 1 \in Int /\ MaxPrice \in Int
  BY EngineAssumption
<1> QED
  BY <1>1, FS_Interval, EngineAssumption DEF Prices

LEMMA DepthType ==
    ASSUME NEW levels \in Levels, NEW S \in SUBSET Prices
    PROVE  Depth(levels, S) \in Nat
<1>1. NatOn(levels, Prices)
  BY DEF NatOn, Levels
<1> QED
  BY <1>1, PricesFinite, SumMonotone DEF Depth

LEMMA ReachInPrices ==
    ASSUME NEW side, NEW limit
    PROVE  Reach(side, limit) \in SUBSET Prices /\ IsFiniteSet(Reach(side, limit))
<1>1. Reach(side, limit) \in SUBSET Prices
  BY DEF Reach
<1> QED
  BY <1>1, PricesFinite, FS_Subset

LEMMA OppositeSide == ASSUME NEW s \in Sides PROVE Opposite(s) \in Sides
BY DEF Opposite, Sides

LEMMA NatProduct == ASSUME NEW a \in Nat, NEW b \in Nat PROVE a * b \in Nat
OBVIOUS

LEMMA QueueAheadType ==
    ASSUME NEW side \in Sides, NEW limit \in Prices, NEW b \in Books
    PROVE  QueueAhead(side, limit, b) \in Nat
<1> DEFINE own == b[Opposite(side)]
           d == Depth(own, Better(side, limit))
<1>1. own \in Levels
  BY OppositeSide DEF Books
<1>2. d \in Nat
  BY <1>1, DepthType DEF Better, Reach
<1>3. own[limit] \in Nat
  BY <1>1 DEF Levels
<1>4. QueueAhead(side, limit, b) = 100 * d + 65 * own[limit]
  BY DEF QueueAhead
<1> HIDE DEF own, d
<1> QED
  BY <1>2, <1>3, <1>4

LEMMA QueueProgressType ==
    ASSUME NEW ord \in Order, NEW old \in Books, NEW consumed \in Books, NEW new \in Books
    PROVE  QueueProgress(ord, old, consumed, new) \in Nat
<1> DEFINE own == Opposite(ord.side)
           ahead == Reach(own, ord.price)
           d == Depth(old[own], ahead)
           e == Depth(new[own], ahead)
           f == Depth(consumed[own], ahead)
<1>1. ord.side \in Sides
  BY DEF Order
<1>2. own \in Sides /\ ahead \in SUBSET Prices
  BY <1>1, OppositeSide, ReachInPrices
<1>3. old[own] \in Levels /\ new[own] \in Levels /\ consumed[own] \in Levels
  BY <1>2 DEF Books
<1>4. d \in Nat /\ e \in Nat /\ f \in Nat
  BY <1>2, <1>3, DepthType
<1>5. QueueProgress(ord, old, consumed, new) =
          IF d - e - f > 0 THEN (d - e - f) * TradePercent ELSE 0
  BY DEF QueueProgress
<1> HIDE DEF d, e, f
<1>6. TradePercent \in Nat
  BY EngineAssumption
<1>7. CASE d - e - f > 0
  <2>1. d - e - f \in Nat
    BY <1>4, <1>7
  <2> QED
    BY <2>1, <1>5, <1>6, <1>7, NatProduct
<1>8. CASE ~(d - e - f > 0)
  BY <1>5, <1>8
<1> QED
  BY <1>7, <1>8

LEMMA RoundPriceType ==
    ASSUME NEW side, NEW raw \in Nat
    PROVE  RoundPrice(side, raw) \in Prices
<1> DEFINE tick == IF side = "BUY" THEN (raw + 1) \div 2 ELSE raw \div 2
<1>1. tick \in Int
  OBVIOUS
<1>2. RoundPrice(side, raw) = IF tick < 1 THEN 1 ELSE IF tick > MaxPrice THEN MaxPrice ELSE tick
  BY DEF RoundPrice
<1> HIDE DEF tick
<1> QED
  BY <1>1, <1>2, EngineAssumption DEF Prices

LEMMA LeftType ==
    ASSUME TypeOK, NEW t \in Tokens, NEW s \in Sides, shown[t] \in Books
    PROVE  Left(t, s) \in Levels
BY DEF TypeOK, Left, Books, Levels

(***************************************************************************)
(* Orders.                                                                 *)
(***************************************************************************)

\* What an update of an order may change keeps its type.
LEMMA OrderUpdates ==
    ASSUME NEW ord \in Order
    PROVE  /\ \A st \in LiveStates \cup TerminalStates : [ord EXCEPT !.state = st] \in Order
           /\ \A c \in Nat \cup {NoCancel} : [ord EXCEPT !.cancelAt = c] \in Order
           /\ \A n \in Nat : /\ [ord EXCEPT !.filled = n] \in Order
                             /\ [ord EXCEPT !.queue = n] \in Order
                             /\ [ord EXCEPT !.cap = n] \in Order
BY DEF Order

\* One order changes.
LEMMA OneOrder ==
    ASSUME orders \in Seq(Order), NEW o \in DOMAIN orders, NEW e \in Order,
           orders' = [orders EXCEPT ![o] = e]
    PROVE  /\ orders' \in Seq(Order) /\ DOMAIN orders' = DOMAIN orders
           /\ orders'[o] = e
           /\ \A x \in DOMAIN orders : x # o => orders'[x] = orders[x]
<1>1. DOMAIN orders = 1 .. Len(orders) /\ Len(orders) \in Nat
  BY LenProperties
<1>2. o \in 1 .. Len(orders)
  BY <1>1
<1> QED
  BY <1>1, <1>2, ExceptSeq, LenProperties

\* An order is added.
LEMMA MoreOrders ==
    ASSUME orders \in Seq(Order), NEW e \in Order, orders' = Append(orders, e)
    PROVE  /\ orders' \in Seq(Order)
           /\ DOMAIN orders = 1 .. Len(orders) /\ Len(orders) \in Nat
           /\ DOMAIN orders' = DOMAIN orders \cup {Len(orders) + 1}
           /\ Len(orders) + 1 \notin DOMAIN orders
           /\ orders'[Len(orders) + 1] = e
           /\ \A x \in DOMAIN orders : orders'[x] = orders[x]
<1>1. DOMAIN orders = 1 .. Len(orders) /\ Len(orders) \in Nat
  BY LenProperties
<1>2. /\ orders' \in Seq(Order) /\ Len(orders') = Len(orders) + 1
      /\ orders'[Len(orders) + 1] = e /\ \A x \in 1 .. Len(orders) : orders'[x] = orders[x]
  BY AppendProperties
<1>3. DOMAIN orders' = 1 .. Len(orders) + 1
  BY <1>2, LenProperties
<1> QED
  BY <1>1, <1>2, <1>3

LEMMA NewOrderType ==
    ASSUME NEW r \in Request, NEW n \in Nat
    PROVE  NewOrder(r, n) \in Order
<1>1. /\ r.token \in Tokens /\ r.side \in Sides /\ r.raw \in Nat /\ r.size \in Nat
      /\ r.tif \in Tifs /\ r.postOnly \in BOOLEAN
  BY DEF Request
<1>2. RoundPrice(r.side, r.raw) \in Prices
  BY <1>1, RoundPriceType
<1> QED
  BY <1>1, <1>2 DEF NewOrder, Order, LiveStates, TerminalStates

(***************************************************************************)
(* What the steps do to the orders.                                        *)
(***************************************************************************)

\* The arguments of the order stay.
Kept(x) ==
    /\ orders'[x].token = orders[x].token /\ orders'[x].side = orders[x].side
    /\ orders'[x].price = orders[x].price /\ orders'[x].size = orders[x].size
    /\ orders'[x].tif = orders[x].tif /\ orders'[x].received = orders[x].received

\* Its outcome so far stays, too.
Still(x) ==
    /\ Kept(x) /\ orders'[x].state = orders[x].state
    /\ orders'[x].filled = orders[x].filled /\ orders'[x].cancelAt = orders[x].cancelAt

SameOrders == orders' \in Seq(Order) /\ DOMAIN orders' = DOMAIN orders

\* No order moves.
Quiet == SameOrders /\ \A x \in DOMAIN orders : Still(x)

\* Order o gets this state, these fills and this cancel time.
Sets(o, st, f, c) ==
    /\ SameOrders /\ o \in DOMAIN orders
    /\ \A x \in DOMAIN orders : x # o => Still(x)
    /\ Kept(o) /\ orders'[o].state = st /\ orders'[o].filled = f /\ orders'[o].cancelAt = c

LEMMA OrderType ==
    ASSUME TypeOK, NEW o \in DOMAIN orders
    PROVE  /\ orders[o] \in Order
           /\ orders[o].token \in Tokens /\ orders[o].side \in Sides
           /\ orders[o].price \in Prices /\ orders[o].size \in Nat /\ orders[o].tif \in Tifs
           /\ orders[o].state \in LiveStates \cup TerminalStates
           /\ orders[o].received \in Nat /\ orders[o].filled \in Nat
           /\ orders[o].queue \in Nat /\ orders[o].cap \in Nat
           /\ orders[o].cancelAt \in Nat \cup {NoCancel}
<1>1. orders[o] \in Order
  BY LenProperties, ElementOfSeq DEF TypeOK
<1> QED
  BY <1>1 DEF Order

LEMMA UnchangedIsQuiet == ASSUME TypeOK, UNCHANGED orders PROVE Quiet
BY DEF TypeOK, Quiet, SameOrders, Still, Kept

LEMMA EndEffect ==
    ASSUME TypeOK, NEW o \in DOMAIN orders, NEW st \in LiveStates \cup TerminalStates,
           orders' = [orders EXCEPT ![o].state = st]
    PROVE  Sets(o, st, orders[o].filled, orders[o].cancelAt)
<1> DEFINE e == [orders[o] EXCEPT !.state = st]
<1>1. e \in Order /\ orders[o] \in Order
  BY OrderType, OrderUpdates
<1>2. orders' = [orders EXCEPT ![o] = e]
  OBVIOUS
<1>3. SameOrders /\ orders'[o] = e /\ \A x \in DOMAIN orders : x # o => orders'[x] = orders[x]
  BY <1>1, <1>2, OneOrder DEF TypeOK, SameOrders
<1> QED
  BY <1>1, <1>3 DEF Sets, Still, Kept, Order

LEMMA CancelEffect ==
    ASSUME TypeOK, NEW o \in DOMAIN orders, NEW c \in Nat \cup {NoCancel},
           orders' = [orders EXCEPT ![o].cancelAt = c]
    PROVE  Sets(o, orders[o].state, orders[o].filled, c)
<1> DEFINE e == [orders[o] EXCEPT !.cancelAt = c]
<1>1. e \in Order /\ orders[o] \in Order
  BY OrderType, OrderUpdates
<1>2. orders' = [orders EXCEPT ![o] = e]
  OBVIOUS
<1>3. SameOrders /\ orders'[o] = e /\ \A x \in DOMAIN orders : x # o => orders'[x] = orders[x]
  BY <1>1, <1>2, OneOrder DEF TypeOK, SameOrders
<1> QED
  BY <1>1, <1>3 DEF Sets, Still, Kept, Order

LEMMA ApplyCancelEffect ==
    ASSUME TypeOK, NEW o \in DOMAIN orders,
           orders' = [orders EXCEPT ![o].state = "cancelled", ![o].cancelAt = NoCancel]
    PROVE  Sets(o, "cancelled", orders[o].filled, NoCancel)
<1> DEFINE d == [orders[o] EXCEPT !.state = "cancelled"]
           e == [d EXCEPT !.cancelAt = NoCancel]
<1>1. d \in Order /\ orders[o] \in Order
  BY OrderType, OrderUpdates DEF TerminalStates
<1>2. e \in Order
  BY <1>1, OrderUpdates
<1>3. orders' = [orders EXCEPT ![o] = e]
  OBVIOUS
<1>4. SameOrders /\ orders'[o] = e /\ \A x \in DOMAIN orders : x # o => orders'[x] = orders[x]
  BY <1>2, <1>3, OneOrder DEF TypeOK, SameOrders
<1> QED
  BY <1>1, <1>2, <1>4 DEF Sets, Still, Kept, Order

LEMMA FillEffect ==
    ASSUME TypeOK, NEW o \in DOMAIN orders, NEW n \in Nat,
           orders' = [orders EXCEPT ![o].filled = @ + n]
    PROVE  Sets(o, orders[o].state, orders[o].filled + n, orders[o].cancelAt)
<1> DEFINE f == orders[o].filled + n
           e == [orders[o] EXCEPT !.filled = f]
<1>1. f \in Nat /\ orders[o] \in Order
  BY OrderType
<1> HIDE DEF f
<1>2. e \in Order
  BY <1>1, OrderUpdates
<1>3. orders' = [orders EXCEPT ![o] = e]
  BY DEF f
<1>4. SameOrders /\ orders'[o] = e /\ \A x \in DOMAIN orders : x # o => orders'[x] = orders[x]
  BY <1>2, <1>3, OneOrder DEF TypeOK, SameOrders
<1>5. Sets(o, orders[o].state, f, orders[o].cancelAt)
  BY <1>1, <1>2, <1>4 DEF Sets, Still, Kept, Order
<1> QED
  BY <1>5 DEF f

LEMMA CapEffect ==
    ASSUME TypeOK, NEW o \in DOMAIN orders, NEW n \in Nat,
           orders' = [orders EXCEPT ![o].cap = n]
    PROVE  Quiet
<1> DEFINE e == [orders[o] EXCEPT !.cap = n]
<1>1. e \in Order /\ orders[o] \in Order
  BY OrderType, OrderUpdates
<1>2. orders' = [orders EXCEPT ![o] = e]
  OBVIOUS
<1>3. SameOrders /\ orders'[o] = e /\ \A x \in DOMAIN orders : x # o => orders'[x] = orders[x]
  BY <1>1, <1>2, OneOrder DEF TypeOK, SameOrders
<1> QED
  BY <1>1, <1>3 DEF Quiet, Still, Kept, Order

LEMMA RestEffect ==
    ASSUME TypeOK, NEW o \in DOMAIN orders, at.token \in Tokens, shown[at.token] \in Books,
           NEW st \in LiveStates, Rest(o, st)
    PROVE  Sets(o, st, orders[o].filled, orders[o].cancelAt)
<1> DEFINE q == QueueAhead(orders[o].side, orders[o].price, shown[at.token])
           d == [orders[o] EXCEPT !.state = st]
           e == [d EXCEPT !.queue = q]
<1>1. q \in Nat
  BY OrderType, QueueAheadType
<1>2. orders' = [orders EXCEPT ![o].state = st, ![o].queue = q]
  BY DEF Rest
<1> HIDE DEF q
<1>3. d \in Order /\ orders[o] \in Order
  BY OrderType, OrderUpdates
<1>4. e \in Order
  BY <1>1, <1>3, OrderUpdates
<1>5. orders' = [orders EXCEPT ![o] = e]
  BY <1>2
<1>6. SameOrders /\ orders'[o] = e /\ \A x \in DOMAIN orders : x # o => orders'[x] = orders[x]
  BY <1>4, <1>5, OneOrder DEF TypeOK, SameOrders
<1> QED
  BY <1>3, <1>4, <1>6 DEF Sets, Still, Kept, Order

(***************************************************************************)
(* The state machine of advance_to.                                        *)
(***************************************************************************)

\* A call in progress has a snapshot, and after the refresh its token a book.
SnapshotKnown ==
    /\ phase # "idle" => at \in [token : Tokens, book : Books]
    /\ phase \notin {"idle", "cancel"} => shown[at.token] \in Books

\* The order being matched is an order of the token, a new one or one at rest.
WalkKnown ==
    /\ phase \in {"take", "make"} =>
          walk.order \in DOMAIN orders /\ orders[walk.order].token = at.token
    /\ phase = "take" => orders[walk.order].state = "pending_submit"
    /\ phase = "make" => todo # <<>> /\ orders[walk.order].state \in {"working", "partial"}

\* The orders the last loop has to visit are orders of the token that were admitted.
TodoKnown ==
    phase \in {"match", "make"} =>
        \A i \in DOMAIN todo : /\ todo[i] \in DOMAIN orders
                               /\ orders[todo[i]].token = at.token
                               /\ orders[todo[i]].state # "pending_submit"

\* The part of TodoKnown about what is at rest: the list holds admitted orders.
WorkingKnown ==
    \A t \in Tokens : \A i \in DOMAIN working[t] :
        /\ working[t][i] \in DOMAIN orders
        /\ orders[working[t][i]].token = t
        /\ orders[working[t][i]].state # "pending_submit"

StepInv == TypeOK /\ SnapshotKnown /\ WalkKnown /\ TodoKnown /\ WorkingListExact

\* What a refresh does to the orders: only queue positions move.
LEMMA RefreshEffect ==
    ASSUME TypeOK, SnapshotKnown, RefreshBook
    PROVE  Quiet
<1> DEFINE t == at.token
           Advanced(o) ==
               LET step == QueueProgress(orders[o], shown[t], used[t], at.book)
               IN  IF orders[o].queue > step THEN orders[o].queue - step ELSE 0
           resting == {o \in DOMAIN orders : \E i \in DOMAIN working[t] : working[t][i] = o}
           New(o) == IF o \in resting /\ Live(o)
                     THEN [orders[o] EXCEPT !.queue = Advanced(o)] ELSE orders[o]
<1>1. t \in Tokens /\ at.book \in Books
  BY DEF RefreshBook, SnapshotKnown
<1>2. orders' = IF shown[t] = None THEN orders ELSE [o \in DOMAIN orders |-> New(o)]
  BY DEF RefreshBook
<1>3. CASE shown[t] = None
  BY <1>2, <1>3, UnchangedIsQuiet
<1>4. CASE shown[t] # None
  <2>1. shown[t] \in Books /\ used[t] \in Books
    BY <1>1, <1>4 DEF TypeOK
  <2>2. ASSUME NEW o \in DOMAIN orders PROVE Advanced(o) \in Nat
    <3> DEFINE step == QueueProgress(orders[o], shown[t], used[t], at.book)
    <3>1. step \in Nat /\ orders[o].queue \in Nat
      BY <1>1, <2>1, OrderType, QueueProgressType
    <3> HIDE DEF step
    <3>2. (IF orders[o].queue > step THEN orders[o].queue - step ELSE 0) \in Nat
      BY <3>1
    <3> QED
      BY <3>2 DEF step
  <2> HIDE DEF Advanced, resting
  <2>3. \A o \in DOMAIN orders :
          /\ New(o) \in Order /\ orders[o] \in Order
          /\ New(o) = orders[o] \/ New(o) = [orders[o] EXCEPT !.queue = Advanced(o)]
    BY <2>2, OrderType, OrderUpdates
  <2>4. DOMAIN orders = 1 .. Len(orders) /\ Len(orders) \in Nat
    BY LenProperties DEF TypeOK
  <2> DEFINE n == Len(orders)
  <2>5. orders' = [o \in 1 .. n |-> New(o)]
    BY <1>2, <1>4, <2>4
  <2> HIDE DEF New, n
  <2>6. n \in Nat /\ DOMAIN orders = 1 .. n
    BY <2>4 DEF n
  <2>7. orders' \in Seq(Order) /\ DOMAIN orders' = DOMAIN orders
        /\ \A o \in DOMAIN orders : orders'[o] = New(o)
    BY <2>3, <2>5, <2>6, IsASeq
  <2>8. \A o \in DOMAIN orders : Still(o)
    <3> TAKE o \in DOMAIN orders
    <3>1. CASE orders'[o] = orders[o]
      BY <3>1 DEF Still, Kept
    <3>2. CASE orders'[o] = [orders[o] EXCEPT !.queue = Advanced(o)]
      BY <3>2, <2>3 DEF Still, Kept, Order
    <3> QED
      BY <3>1, <3>2, <2>3, <2>7
  <2> QED
    BY <2>7, <2>8 DEF Quiet, SameOrders
<1> QED
  BY <1>3, <1>4

\* The working list is exact: its entries are orders that were admitted.
LEMMA WorkingEntries ==
    ASSUME WorkingListExact
    PROVE  WorkingKnown /\ \A t \in Tokens : Distinct(working[t])
BY DEF WorkingListExact, WorkingKnown, Distinct

\* The books v are the books u with n more shares at one level.
Booked(v, u, t, s, p, n) ==
    /\ v \in [Tokens -> Books]
    /\ v[t][s][p] = u[t][s][p] + n
    /\ \A x \in Tokens, y \in Sides, z \in Prices :
          ~(x = t /\ y = s /\ z = p) => v[x][y][z] = u[x][y][z]

\* Consumption booked at one level.
LEMMA BookUpdate ==
    ASSUME NEW u \in [Tokens -> Books], NEW t \in Tokens, NEW s \in Sides, NEW p \in Prices,
           NEW n \in Nat
    PROVE  Booked([u EXCEPT ![t][s][p] = @ + n], u, t, s, p, n)
<1>0. PICK v : v = [u EXCEPT ![t][s][p] = @ + n]
  OBVIOUS
<1>1. u[t] \in Books /\ u[t][s] \in Levels /\ u[t][s][p] \in Nat
  BY DEF Books, Levels
<1> DEFINE l == [u[t][s] EXCEPT ![p] = @ + n]
           b == [u[t] EXCEPT ![s] = l]
<1>2. l \in Levels /\ l[p] = u[t][s][p] + n /\ \A z \in Prices : z # p => l[z] = u[t][s][z]
  BY <1>1 DEF Levels
<1>3. v = [u EXCEPT ![t] = b]
  BY <1>0
<1> HIDE DEF l
<1>4. b \in Books /\ b[s] = l /\ \A y \in Sides : y # s => b[y] = u[t][y]
  BY <1>1, <1>2 DEF Books
<1> HIDE DEF b
<1>5. v \in [Tokens -> Books] /\ v[t] = b /\ \A x \in Tokens : x # t => v[x] = u[x]
  BY <1>3, <1>4
<1>6. Booked(v, u, t, s, p, n)
  BY <1>2, <1>4, <1>5 DEF Booked
<1> QED
  BY <1>0, <1>6

LEMMA ZeroBook == Zero \in Books
BY DEF Zero, Books, Levels

LEMMA NoWalkType == NoWalk \in [order : Nat, levels : Levels, cap : Nat]
BY DEF NoWalk, Levels

(***************************************************************************)
(* The working list.                                                       *)
(***************************************************************************)

RestingOf(t) == {o \in DOMAIN orders : /\ orders[o].token = t
                                       /\ orders[o].state \in {"working", "partial"}}

LEMMA WorkingParts ==
    /\ WorkingListExact <=>
          \A t \in Tokens : Distinct(working[t]) /\ Elements(working[t]) = RestingOf(t)
    /\ WorkingListExact' <=>
          \A t \in Tokens : Distinct(working'[t]) /\ Elements(working'[t]) = RestingOf(t)'
BY DEF WorkingListExact, Distinct, Elements, RestingOf

\* No order comes to rest or leaves.
LEMMA ListStays ==
    ASSUME WorkingListExact, UNCHANGED working, SameOrders,
           \A x \in DOMAIN orders :
              /\ orders'[x].token = orders[x].token
              /\ orders'[x].state \in {"working", "partial"}
                    <=> orders[x].state \in {"working", "partial"}
    PROVE  WorkingListExact'
<1>1. \A t \in Tokens : RestingOf(t)' = RestingOf(t)
  BY DEF RestingOf, SameOrders
<1> QED
  BY <1>1, WorkingParts

LEMMA QuietList ==
    ASSUME WorkingListExact, UNCHANGED working, Quiet
    PROVE  WorkingListExact'
BY ListStays DEF Quiet, Still, Kept

\* An order ends and leaves the list.
LEMMA ListShrinks ==
    ASSUME TypeOK, WorkingListExact, NEW o \in DOMAIN orders, RemoveFromWorking(o),
           NEW st \in TerminalStates, NEW f, NEW c, Sets(o, st, f, c)
    PROVE  WorkingListExact' /\ working' \in [Tokens -> Seq(Nat)]
<1>0. PICK u \in Tokens : u = orders[o].token
  BY OrderType
<1>1. u \in Tokens /\ working \in [Tokens -> Seq(Nat)]
  BY DEF TypeOK
<1>9. PICK r : r = RemoveFirst(working[u], o)
  OBVIOUS
<1>2. working' = [working EXCEPT ![u] = r]
  BY <1>0, <1>9 DEF RemoveFromWorking
<1>3. Distinct(working[u]) /\ Elements(working[u]) = RestingOf(u)
  BY <1>1, WorkingParts
<1>4. r \in Seq(Nat) /\ Distinct(r) /\ Elements(r) = RestingOf(u) \ {o}
  BY <1>1, <1>3, <1>9, RemovalFromList
<1>5. /\ working' \in [Tokens -> Seq(Nat)] /\ working'[u] = r
      /\ \A t \in Tokens : t # u => working'[t] = working[t]
  BY <1>1, <1>2, <1>4
<1>6. RestingOf(u)' = RestingOf(u) \ {o}
  BY <1>0 DEF RestingOf, Sets, SameOrders, Still, Kept, TerminalStates
<1>7. \A t \in Tokens : t # u => RestingOf(t)' = RestingOf(t)
  BY <1>0 DEF RestingOf, Sets, SameOrders, Still, Kept, TerminalStates
<1> QED
  BY <1>1, <1>3, <1>4, <1>5, <1>6, <1>7, WorkingParts

\* A new order comes to rest.
LEMMA ListGrows ==
    ASSUME TypeOK, WorkingListExact, NEW o \in DOMAIN orders, at.token \in Tokens,
           orders[o].token = at.token, orders[o].state = "pending_submit",
           NEW st \in {"working", "partial"}, Rest(o, st),
           NEW f, NEW c, Sets(o, st, f, c)
    PROVE  WorkingListExact' /\ working' \in [Tokens -> Seq(Nat)]
<1>0. PICK u \in Tokens : u = at.token
  OBVIOUS
<1>9. PICK r : r = Append(working[u], o)
  OBVIOUS
<1>1. u \in Tokens /\ working \in [Tokens -> Seq(Nat)] /\ o \in Nat
  <2>1. DOMAIN orders = 1 .. Len(orders) /\ Len(orders) \in Nat
    BY LenProperties DEF TypeOK
  <2> QED
    BY <2>1 DEF TypeOK
<1>2. Distinct(working[u]) /\ Elements(working[u]) = RestingOf(u)
  BY <1>1, WorkingParts
<1>3. o \notin RestingOf(u)
  BY <1>0 DEF RestingOf
<1>4. ~Contains(working[u], o) /\ r \in Seq(Nat) /\ Distinct(r)
      /\ Elements(r) = RestingOf(u) \cup {o}
  BY <1>1, <1>2, <1>3, <1>9, AdditionToList
<1>5. working' = [working EXCEPT ![u] = r]
  BY <1>0, <1>4, <1>9 DEF Rest
<1>6. /\ working' \in [Tokens -> Seq(Nat)] /\ working'[u] = r
      /\ \A t \in Tokens : t # u => working'[t] = working[t]
  BY <1>1, <1>5, <1>4
<1>7. RestingOf(u)' = RestingOf(u) \cup {o}
  BY <1>0 DEF RestingOf, Sets, SameOrders, Still, Kept
<1>8. \A t \in Tokens : t # u => RestingOf(t)' = RestingOf(t)
  BY <1>0 DEF RestingOf, Sets, SameOrders, Still, Kept
<1> QED
  BY <1>1, <1>2, <1>4, <1>6, <1>7, <1>8, WorkingParts

(***************************************************************************)
(* Every step keeps the state machine's invariant.                         *)
(***************************************************************************)

LEMMA DecrementType ==
    ASSUME TypeOK, NEW t \in Tokens, DecrementActive(t)
    PROVE  active' \in [Tokens -> Nat]
BY DEF TypeOK, DecrementActive

LEMMA SubmitEffect ==
    ASSUME TypeOK, NEW r \in Request, NEW sent \in Nat, SubmitOrder(r, sent)
    PROVE  \E e \in Order : /\ e.filled = 0 /\ e.state \in {"pending_submit", "rejected"}
                            /\ e.token = r.token /\ e.cancelAt = NoCancel
                            /\ ValidateSubmit(r) <=> e.state = "pending_submit"
                            /\ e.state = "pending_submit" => e.received >= sent
                            /\ orders' = Append(orders, e)
<1>1. r.token \in Tokens
  BY DEF Request
<1>2. \A n \in Nat : /\ NewOrder(r, n) \in Order /\ NewOrder(r, n).filled = 0
                     /\ NewOrder(r, n).token = r.token /\ NewOrder(r, n).cancelAt = NoCancel
                     /\ NewOrder(r, n).received = n
                     /\ NewOrder(r, n).state \in {"pending_submit", "rejected"}
                     /\ ValidateSubmit(r) <=> NewOrder(r, n).state = "pending_submit"
  BY NewOrderType DEF NewOrder
<1>3. CASE ValidateSubmit(r)
  <2>1. PICK ms \in Latencies : orders' = Append(orders, NewOrder(r, sent + ms))
    BY <1>3 DEF SubmitOrder
  <2>2. sent + ms \in Nat /\ sent + ms >= sent
    BY EngineAssumption
  <2> QED
    BY <2>1, <2>2, <1>2
<1>4. CASE ~ValidateSubmit(r)
  <2>1. orders' = Append(orders, NewOrder(r, 0))
    BY <1>4 DEF SubmitOrder
  <2> QED
    BY <2>1, <1>2, <1>4
<1> QED
  BY <1>3, <1>4

\* A new order touches nothing else between two calls.
LEMMA SubmitKeeps ==
    ASSUME StepInv, NEW r \in Request, NEW sent \in Nat, SubmitOrder(r, sent),
           phase = "idle", UNCHANGED <<working, bookVars, callVars>>,
           produced' \in Seq(Fill)
    PROVE  StepInv'
<1> USE DEF StepInv
<1>1. PICK e \in Order : e.state \in {"pending_submit", "rejected"} /\ orders' = Append(orders, e)
  BY SubmitEffect
<1>2. /\ orders' \in Seq(Order) /\ DOMAIN orders' = DOMAIN orders \cup {Len(orders) + 1}
      /\ orders'[Len(orders) + 1] = e /\ Len(orders) + 1 \notin DOMAIN orders
      /\ \A x \in DOMAIN orders : orders'[x] = orders[x]
  BY <1>1, MoreOrders DEF TypeOK
<1>3. active' \in [Tokens -> Nat]
  <2>1. active \in [Tokens -> Nat] /\ r.token \in Tokens
    BY DEF TypeOK, Request
  <2>2. active' = [active EXCEPT ![r.token] = @ + 1] \/ active' = active
    BY DEF SubmitOrder
  <2> QED
    BY <2>1, <2>2
<1>4. TypeOK'
  BY <1>2, <1>3 DEF TypeOK, bookVars, callVars
<1>5. SnapshotKnown' /\ WalkKnown' /\ TodoKnown'
  BY DEF SnapshotKnown, WalkKnown, TodoKnown, callVars
<1>6. WorkingListExact'
  <2>1. \A t \in Tokens : RestingOf(t)' = RestingOf(t)
    BY <1>1, <1>2 DEF RestingOf
  <2> QED
    BY <2>1, WorkingParts
<1> QED
  BY <1>4, <1>5, <1>6

LEMMA CancelKeeps ==
    ASSUME StepInv, NEW o \in DOMAIN orders, Cancel(o)
    PROVE  /\ StepInv'
           /\ \E c \in Nat : Sets(o, orders[o].state, orders[o].filled, c)
<1> USE DEF StepInv
<1>1. PICK ms \in Latencies : orders' = [orders EXCEPT ![o].cancelAt = now + ms]
  BY DEF Cancel
<1>2. PICK c \in Nat : c = now + ms
  BY EngineAssumption DEF TypeOK
<1>3. Sets(o, orders[o].state, orders[o].filled, c)
  BY <1>1, <1>2, CancelEffect
<1>4. TypeOK'
  BY <1>3 DEF Sets, SameOrders, Cancel, TypeOK, bookVars, callVars
<1>5. SnapshotKnown' /\ WalkKnown' /\ TodoKnown'
  BY DEF Cancel, SnapshotKnown, WalkKnown, TodoKnown, callVars
<1>6. WorkingListExact'
  BY <1>3, ListStays DEF Sets, Still, Kept, Cancel
<1> QED
  BY <1>3, <1>4, <1>5, <1>6

LEMMA BeginAdvanceKeeps ==
    ASSUME StepInv, NEW t \in Tokens, NEW b \in Books, NEW gap \in Nat, BeginAdvance(t, b, gap)
    PROVE  StepInv' /\ Quiet
<1> USE DEF StepInv
<1>1. Quiet
  BY UnchangedIsQuiet DEF BeginAdvance
<1>2. now' \in Nat
  BY DEF BeginAdvance, TypeOK
<1>3. TypeOK'
  BY <1>2 DEF BeginAdvance, TypeOK
<1>4. SnapshotKnown' /\ WalkKnown' /\ TodoKnown'
  BY DEF BeginAdvance, SnapshotKnown, WalkKnown, TodoKnown
<1>5. WorkingListExact'
  BY <1>1, QuietList DEF BeginAdvance
<1> QED
  BY <1>1, <1>3, <1>4, <1>5

LEMMA ApplyCancelKeeps ==
    ASSUME StepInv, NEW o \in DOMAIN orders, ApplyCancel(o)
    PROVE  /\ StepInv'
           /\ IF Live(o) THEN Sets(o, "cancelled", orders[o].filled, NoCancel)
                         ELSE Sets(o, orders[o].state, orders[o].filled, NoCancel)
<1> USE DEF StepInv
<1>1. SnapshotKnown' /\ WalkKnown' /\ TodoKnown'
  BY DEF ApplyCancel, SnapshotKnown, WalkKnown, TodoKnown, callVars, bookVars
<1>2. CASE Live(o)
  <2>1. Sets(o, "cancelled", orders[o].filled, NoCancel)
    BY <1>2, ApplyCancelEffect DEF ApplyCancel
  <2>2. RemoveFromWorking(o) /\ DecrementActive(orders[o].token)
    BY <1>2 DEF ApplyCancel
  <2>3. "cancelled" \in TerminalStates
    BY DEF TerminalStates
  <2>4. WorkingListExact' /\ working' \in [Tokens -> Seq(Nat)]
    BY <2>1, <2>2, <2>3, ListShrinks
  <2>5. active' \in [Tokens -> Nat]
    BY <2>2, OrderType, DecrementType
  <2>6. TypeOK'
    BY <2>1, <2>4, <2>5 DEF Sets, SameOrders, ApplyCancel, TypeOK, bookVars, callVars
  <2> QED
    BY <1>1, <1>2, <2>1, <2>4, <2>6
<1>3. CASE ~Live(o)
  <2>1. Sets(o, orders[o].state, orders[o].filled, NoCancel)
    BY <1>3, CancelEffect DEF ApplyCancel
  <2>2. UNCHANGED <<active, working>>
    BY <1>3 DEF ApplyCancel
  <2>3. TypeOK'
    BY <2>1, <2>2 DEF Sets, SameOrders, ApplyCancel, TypeOK, bookVars, callVars
  <2>4. WorkingListExact'
    BY <2>1, <2>2, ListStays DEF Sets, Still, Kept
  <2> QED
    BY <1>1, <1>3, <2>1, <2>3, <2>4
<1> QED
  BY <1>2, <1>3

LEMMA RefreshBookKeeps ==
    ASSUME StepInv, RefreshBook
    PROVE  StepInv' /\ Quiet
<1> USE DEF StepInv
<1>1. Quiet
  BY RefreshEffect
<1>2. at.token \in Tokens /\ at.book \in Books
  BY DEF RefreshBook, SnapshotKnown
<1>3. /\ shown' = [shown EXCEPT ![at.token] = at.book]
      /\ used' = [used EXCEPT ![at.token] = Zero] /\ drawn' = [drawn EXCEPT ![at.token] = Zero]
      /\ phase = "cancel" /\ phase' = "admit" /\ UNCHANGED <<working, active, now, at, todo, walk, produced>>
  BY DEF RefreshBook
<1>4. TypeOK'
  BY <1>1, <1>2, <1>3, ZeroBook DEF Quiet, SameOrders, TypeOK
<1>5. SnapshotKnown' /\ WalkKnown' /\ TodoKnown'
  BY <1>2, <1>3 DEF SnapshotKnown, WalkKnown, TodoKnown, TypeOK
<1>6. WorkingListExact'
  BY <1>1, <1>3, QuietList
<1> QED
  BY <1>1, <1>4, <1>5, <1>6

LEMMA EndKeeps ==
    ASSUME StepInv, phase = "admit", NEW o \in Admissible, NEW st \in TerminalStates, End(o, st),
           UNCHANGED <<working, bookVars, callVars, produced>>
    PROVE  StepInv' /\ Sets(o, st, orders[o].filled, orders[o].cancelAt)
<1> USE DEF StepInv
<1>0. o \in DOMAIN orders /\ orders[o].state = "pending_submit" /\ st \in LiveStates \cup TerminalStates
  BY DEF Admissible
<1>1. Sets(o, st, orders[o].filled, orders[o].cancelAt)
  BY <1>0, EndEffect DEF End
<1>2. active' \in [Tokens -> Nat]
  BY <1>0, OrderType, DecrementType DEF End
<1>3. TypeOK'
  BY <1>1, <1>2 DEF Sets, SameOrders, TypeOK, bookVars, callVars
<1>4. SnapshotKnown' /\ WalkKnown' /\ TodoKnown'
  BY DEF SnapshotKnown, WalkKnown, TodoKnown, callVars, bookVars
<1>5. WorkingListExact'
  BY <1>0, <1>1, ListStays DEF Sets, Still, Kept, TerminalStates
<1> QED
  BY <1>1, <1>3, <1>4, <1>5

LEMMA AdmitTakesKeeps ==
    ASSUME StepInv, NEW o \in DOMAIN orders, AdmitTakes(o)
    PROVE  StepInv' /\ Quiet
<1> USE DEF StepInv
<1>0. /\ phase = "admit" /\ orders[o].token = at.token /\ orders[o].state = "pending_submit"
      /\ walk' = [order |-> o, levels |-> Left(at.token, orders[o].side), cap |-> orders[o].size]
      /\ phase' = "take" /\ UNCHANGED <<orders, working, active, bookVars, at, todo, produced>>
  BY DEF AdmitTakes, NextAdmitted, Admissible, StartWalk
<1>1. Quiet
  BY <1>0, UnchangedIsQuiet
<1>2. Left(at.token, orders[o].side) \in Levels /\ o \in Nat /\ orders[o].size \in Nat
  <2>1. DOMAIN orders = 1 .. Len(orders) /\ Len(orders) \in Nat
    BY LenProperties DEF TypeOK
  <2> QED
    BY <1>0, <2>1, OrderType, LeftType DEF SnapshotKnown
<1>3. TypeOK'
  <2>1. walk' \in [order : Nat, levels : Levels, cap : Nat]
    BY <1>0, <1>2
  <2> QED
    BY <1>0, <2>1 DEF TypeOK, bookVars
<1>4. SnapshotKnown' /\ WalkKnown' /\ TodoKnown'
  BY <1>0 DEF SnapshotKnown, WalkKnown, TodoKnown, bookVars
<1>5. WorkingListExact'
  BY <1>0, <1>1, QuietList
<1> QED
  BY <1>1, <1>3, <1>4, <1>5

LEMMA AdmitRestsKeeps ==
    ASSUME StepInv, NEW o \in DOMAIN orders, AdmitRests(o)
    PROVE  StepInv' /\ Sets(o, "working", orders[o].filled, orders[o].cancelAt)
<1> USE DEF StepInv
<1>0. /\ phase = "admit" /\ orders[o].token = at.token /\ orders[o].state = "pending_submit"
      /\ Rest(o, "working") /\ UNCHANGED <<active, bookVars, callVars, produced>>
  BY DEF AdmitRests, NextAdmitted, Admissible
<1>1. at.token \in Tokens /\ shown[at.token] \in Books
  BY <1>0 DEF SnapshotKnown
<1>2. Sets(o, "working", orders[o].filled, orders[o].cancelAt)
  BY <1>0, <1>1, RestEffect DEF LiveStates
<1>3. WorkingListExact' /\ working' \in [Tokens -> Seq(Nat)]
  BY <1>0, <1>1, <1>2, ListGrows
<1>4. TypeOK'
  BY <1>0, <1>2, <1>3 DEF Sets, SameOrders, TypeOK, bookVars, callVars
<1>5. SnapshotKnown' /\ WalkKnown' /\ TodoKnown'
  BY <1>0 DEF SnapshotKnown, WalkKnown, TodoKnown, callVars, bookVars
<1> QED
  BY <1>2, <1>3, <1>4, <1>5

\* What a fill of the order being matched changes.
LEMMA RecordFillEffect ==
    ASSUME TypeOK, NEW o \in DOMAIN orders, o = walk.order, NEW n \in Nat,
           NEW from \in Prices, NEW price \in Prices, NEW maker \in BOOLEAN,
           NEW t, t = orders[o].token, NEW s, s = orders[o].side,
           RecordFill(n, from, price, maker)
    PROVE  /\ Sets(o, orders[o].state, orders[o].filled + n, orders[o].cancelAt)
           /\ Booked(used', used, t, s, price, n) /\ Booked(drawn', drawn, t, s, from, n)
           /\ produced' \in Seq(Fill)
           /\ produced' = Append(produced, [order |-> o, price |-> price, size |-> n, maker |-> maker])
<1>0. t \in Tokens /\ s \in Sides
  BY OrderType
<1>1. /\ orders' = [orders EXCEPT ![o].filled = @ + n]
      /\ used' = [used EXCEPT ![t][s][price] = @ + n]
      /\ drawn' = [drawn EXCEPT ![t][s][from] = @ + n]
      /\ produced' = Append(produced, [order |-> o, price |-> price, size |-> n, maker |-> maker])
  BY DEF RecordFill
<1>2. Sets(o, orders[o].state, orders[o].filled + n, orders[o].cancelAt)
  BY <1>1, FillEffect
<1>3. used \in [Tokens -> Books] /\ drawn \in [Tokens -> Books]
  BY DEF TypeOK
<1>4. Booked(used', used, t, s, price, n)
  BY <1>0, <1>1, <1>3, BookUpdate
<1>5. Booked(drawn', drawn, t, s, from, n)
  BY <1>0, <1>1, <1>3, BookUpdate
<1>6. produced' \in Seq(Fill)
  <2>1. DOMAIN orders = 1 .. Len(orders) /\ Len(orders) \in Nat
    BY LenProperties DEF TypeOK
  <2>2. [order |-> o, price |-> price, size |-> n, maker |-> maker] \in Fill
    BY <2>1 DEF Fill
  <2> QED
    BY <1>1, <2>2, AppendProperties DEF TypeOK
<1> QED
  BY <1>1, <1>2, <1>4, <1>5, <1>6

\* A visited level is gone from the walk.
LEMMA VisitedEffect ==
    ASSUME TypeOK, NEW p \in Prices, Visited(p)
    PROVE  /\ walk' \in [order : Nat, levels : Levels, cap : Nat]
           /\ walk'.order = walk.order /\ walk'.cap = walk.cap
           /\ walk'.levels = [walk.levels EXCEPT ![p] = 0]
           /\ walk'.levels[p] = 0 /\ \A q \in Prices : q # p => walk'.levels[q] = walk.levels[q]
<1>1. walk \in [order : Nat, levels : Levels, cap : Nat]
  BY DEF TypeOK
<1>2. walk' = [walk EXCEPT !.levels = [walk.levels EXCEPT ![p] = 0]]
  BY DEF Visited
<1>3. [walk.levels EXCEPT ![p] = 0] \in Levels
  BY <1>1 DEF Levels
<1> QED
  BY <1>1, <1>2, <1>3 DEF Levels

\* One level of a match, of a taker or of an order at rest.
LEMMA LevelKeeps ==
    ASSUME StepInv, phase \in {"take", "make"}, NEW o, o = walk.order,
           NEW p \in Prices, NEW n \in Nat, NEW price \in Prices, NEW maker \in BOOLEAN,
           \/ RecordFill(n, p, price, maker)
           \/ UNCHANGED <<orders, used, drawn, produced>>,
           Visited(p), UNCHANGED <<working, active, shown, now, phase, at, todo>>
    PROVE  StepInv'
<1> USE DEF StepInv
<1>0. o \in DOMAIN orders
  BY DEF WalkKnown
<1>1. /\ Quiet \/ Sets(o, orders[o].state, orders[o].filled + n, orders[o].cancelAt)
      /\ used' \in [Tokens -> Books] /\ drawn' \in [Tokens -> Books] /\ produced' \in Seq(Fill)
  <2>1. CASE RecordFill(n, p, price, maker)
    <3>1. PICK t, s : t = orders[o].token /\ s = orders[o].side
      OBVIOUS
    <3>2. /\ Sets(o, orders[o].state, orders[o].filled + n, orders[o].cancelAt)
          /\ Booked(used', used, t, s, price, n) /\ Booked(drawn', drawn, t, s, p, n)
          /\ produced' \in Seq(Fill)
      BY <1>0, <2>1, <3>1, RecordFillEffect
    <3> QED
      BY <3>2 DEF Booked
  <2>2. CASE UNCHANGED <<orders, used, drawn, produced>>
    BY <2>2, UnchangedIsQuiet DEF TypeOK
  <2> QED
    BY <2>1, <2>2
<1>2. SameOrders /\ \A x \in DOMAIN orders : Kept(x) /\ orders'[x].state = orders[x].state
  BY <1>1 DEF Quiet, Sets, Still
<1>3. TypeOK'
  BY <1>1, <1>2, VisitedEffect DEF SameOrders, TypeOK
<1>4. WorkingListExact'
  BY <1>2, ListStays DEF Kept
<1>5. SnapshotKnown'
  BY DEF SnapshotKnown
<1>6. WalkKnown'
  BY <1>0, <1>2, VisitedEffect DEF WalkKnown, Kept, SameOrders
<1>7. TodoKnown'
  BY <1>2 DEF TodoKnown, Kept, SameOrders
<1> QED
  BY <1>3, <1>4, <1>5, <1>6, <1>7

\* What a taker takes from a level.
LEMMA TakeLevelEffect ==
    ASSUME StepInv, NEW p \in Prices, TakeLevel(p)
    PROVE  \E n \in Nat : /\ n <= Remaining(walk.order) /\ n <= walk.levels[p]
                          /\ n = Remaining(walk.order) \/ n = walk.levels[p]
                          /\ RecordFill(n, p, p, FALSE)
<1> DEFINE o == walk.order
           take == IF walk.levels[p] < Remaining(o) THEN walk.levels[p] ELSE Remaining(o)
<1>1. o \in DOMAIN orders
  BY DEF StepInv, WalkKnown, TakeLevel
<1>2. walk.levels[p] \in Nat
  BY DEF StepInv, TypeOK, Levels
<1>3. Remaining(o) \in Int /\ Remaining(o) > 0
  BY <1>1, OrderType DEF StepInv, Remaining, TakeLevel
<1>4. RecordFill(take, p, p, FALSE)
  BY DEF TakeLevel
<1>5. take \in Nat /\ take <= Remaining(o) /\ take <= walk.levels[p]
      /\ (take = Remaining(o) \/ take = walk.levels[p])
  BY <1>2, <1>3
<1> HIDE DEF take
<1> QED
  BY <1>4, <1>5

LEMMA TakeLevelKeeps ==
    ASSUME StepInv, NEW p \in Prices, TakeLevel(p)
    PROVE  StepInv'
<1>1. PICK n \in Nat : RecordFill(n, p, p, FALSE)
  BY TakeLevelEffect
<1>2. phase = "take" /\ Visited(p) /\ UNCHANGED <<working, active, shown, now, phase, at, todo>>
  BY DEF TakeLevel
<1> QED
  BY <1>1, <1>2, LevelKeeps

\* What an order at rest gets from a level.
LEMMA MakeLevelEffect ==
    ASSUME StepInv, NEW p \in Prices, MakeLevel(p)
    PROVE  \E n \in Nat : /\ n <= Remaining(walk.order)
                          /\ \/ RecordFill(n, p, orders[walk.order].price, TRUE)
                             \/ UNCHANGED <<orders, used, drawn, produced>>
<1> DEFINE o == walk.order
           wanted == IF walk.levels[p] < Remaining(o) THEN walk.levels[p] ELSE Remaining(o)
           allowed == IF walk.cap > orders[o].filled THEN walk.cap - orders[o].filled ELSE 0
           take == IF wanted < allowed THEN wanted ELSE allowed
<1>1. o \in DOMAIN orders
  BY DEF StepInv, WalkKnown, MakeLevel
<1>2. walk.levels[p] \in Nat /\ walk.cap \in Nat
  BY DEF StepInv, TypeOK, Levels
<1>3. Remaining(o) \in Int /\ Remaining(o) > 0 /\ orders[o].filled \in Nat
  BY <1>1, OrderType DEF StepInv, Remaining, MakeLevel
<1>4. \/ RecordFill(take, p, orders[o].price, TRUE)
      \/ UNCHANGED <<orders, used, drawn, produced>>
  BY DEF MakeLevel
<1>5. wanted \in Nat /\ wanted <= Remaining(o)
  BY <1>2, <1>3
<1>6. allowed \in Nat
  BY <1>2, <1>3
<1> HIDE DEF wanted, allowed
<1>7. take \in Nat /\ take <= Remaining(o)
  BY <1>3, <1>5, <1>6
<1> HIDE DEF take
<1> QED
  BY <1>4, <1>7

LEMMA MakeLevelKeeps ==
    ASSUME StepInv, NEW p \in Prices, MakeLevel(p)
    PROVE  StepInv'
<1>1. PICK n \in Nat : \/ RecordFill(n, p, orders[walk.order].price, TRUE)
                       \/ UNCHANGED <<orders, used, drawn, produced>>
  BY MakeLevelEffect
<1>2. phase = "make" /\ Visited(p) /\ UNCHANGED <<working, active, shown, now, phase, at, todo>>
  BY DEF MakeLevel
<1>3. orders[walk.order].price \in Prices
  BY <1>2, OrderType DEF StepInv, WalkKnown
<1> QED
  BY <1>1, <1>2, <1>3, LevelKeeps

\* How the admission of a taker ends.
LEMMA FinishTakeKeeps ==
    ASSUME StepInv, FinishTake, NEW o, o = walk.order
    PROVE  /\ StepInv' /\ o \in DOMAIN orders
           /\ IF orders[o].tif = "GTC" /\ Remaining(o) > 0
              THEN Sets(o, "partial", orders[o].filled, orders[o].cancelAt) /\ UNCHANGED active
              ELSE /\ Sets(o, IF orders[o].tif = "IOC" /\ Remaining(o) > 0
                              THEN "cancelled" ELSE "filled",
                           orders[o].filled, orders[o].cancelAt)
                   /\ DecrementActive(orders[o].token)
<1> USE DEF StepInv
<1>0. /\ phase = "take" /\ o \in DOMAIN orders /\ orders[o].token = at.token
      /\ orders[o].state = "pending_submit" /\ at.token \in Tokens /\ shown[at.token] \in Books
  BY DEF FinishTake, WalkKnown, SnapshotKnown
<1>1. /\ phase' = "admit" /\ walk' = NoWalk /\ UNCHANGED <<bookVars, at, todo, produced>>
  BY DEF FinishTake
<1>2. SnapshotKnown' /\ WalkKnown' /\ TodoKnown'
  BY <1>0, <1>1 DEF SnapshotKnown, WalkKnown, TodoKnown, bookVars
<1>3. CASE orders[o].tif = "GTC" /\ Remaining(o) > 0
  <2>1. Rest(o, "partial") /\ UNCHANGED active
    BY <1>3 DEF FinishTake
  <2>2. Sets(o, "partial", orders[o].filled, orders[o].cancelAt)
    BY <1>0, <2>1, RestEffect DEF LiveStates
  <2>3. WorkingListExact' /\ working' \in [Tokens -> Seq(Nat)]
    BY <1>0, <2>1, <2>2, ListGrows
  <2>4. TypeOK'
    BY <1>1, <2>1, <2>2, <2>3, NoWalkType DEF Sets, SameOrders, TypeOK, bookVars
  <2> QED
    BY <1>0, <1>2, <1>3, <2>1, <2>2, <2>3, <2>4
<1>4. CASE ~(orders[o].tif = "GTC" /\ Remaining(o) > 0)
  <2> DEFINE st == IF orders[o].tif = "IOC" /\ Remaining(o) > 0 THEN "cancelled" ELSE "filled"
  <2>1. End(o, st) /\ UNCHANGED working
    BY <1>4 DEF FinishTake
  <2>2. st \in TerminalStates
    BY DEF TerminalStates
  <2> HIDE DEF st
  <2>3. Sets(o, st, orders[o].filled, orders[o].cancelAt) /\ DecrementActive(orders[o].token)
    BY <1>0, <2>1, <2>2, EndEffect DEF End
  <2>4. WorkingListExact'
    <3>1. st \notin {"working", "partial"}
      BY <2>2 DEF TerminalStates
    <3> QED
      BY <1>0, <2>1, <2>3, <3>1, ListStays DEF Sets, Still, Kept
  <2>5. active' \in [Tokens -> Nat]
    BY <1>0, <2>3, DecrementType
  <2>6. TypeOK'
    BY <1>1, <2>1, <2>3, <2>5, NoWalkType DEF Sets, SameOrders, TypeOK, bookVars
  <2> QED
    BY <1>0, <1>2, <1>4, <2>3, <2>4, <2>6 DEF st
<1> QED
  BY <1>3, <1>4

LEMMA BeginMatchKeeps ==
    ASSUME StepInv, BeginMatch
    PROVE  StepInv' /\ Quiet
<1> USE DEF StepInv
<1>1. Quiet
  BY UnchangedIsQuiet DEF BeginMatch
<1>2. /\ phase = "admit" /\ phase' = "match" /\ todo' = working[at.token] /\ at.token \in Tokens
      /\ UNCHANGED <<orders, working, active, bookVars, at, walk, produced>>
  BY DEF BeginMatch, SnapshotKnown
<1>3. TypeOK'
  BY <1>2 DEF TypeOK, bookVars
<1>4. SnapshotKnown' /\ WalkKnown'
  BY <1>2 DEF SnapshotKnown, WalkKnown, bookVars
<1>5. TodoKnown'
  BY <1>2, WorkingEntries DEF TodoKnown, WorkingKnown
<1>6. WorkingListExact'
  BY <1>1, <1>2, QuietList
<1> QED
  BY <1>1, <1>3, <1>4, <1>5, <1>6

\* The rest of what the last loop has to visit.
LEMMA TodoTail ==
    ASSUME todo \in Seq(Nat), todo # <<>>
    PROVE  /\ Tail(todo) \in Seq(Nat) /\ 1 \in DOMAIN todo /\ Head(todo) = todo[1]
           /\ \A i \in DOMAIN Tail(todo) : i + 1 \in DOMAIN todo /\ Tail(todo)[i] = todo[i + 1]
<1>1. Len(todo) \in Nat \ {0} /\ DOMAIN todo = 1 .. Len(todo) /\ Head(todo) = todo[1]
  BY EmptySeq, LenProperties
<1>2. /\ Tail(todo) \in Seq(Nat) /\ Len(Tail(todo)) = Len(todo) - 1
      /\ \A i \in 1 .. Len(Tail(todo)) : Tail(todo)[i] = todo[i + 1]
  BY HeadTailProperties
<1>3. DOMAIN Tail(todo) = 1 .. Len(todo) - 1
  BY <1>2, LenProperties
<1> QED
  BY <1>1, <1>2, <1>3

\* An order at rest starts to be matched, or is passed over.
LEMMA StartMakeKeeps ==
    ASSUME StepInv, StartMake
    PROVE  StepInv' /\ Quiet
<1> USE DEF StepInv
<1>0. /\ phase = "match" /\ todo # <<>> /\ todo \in Seq(Nat) /\ at.token \in Tokens
      /\ shown[at.token] \in Books /\ UNCHANGED <<working, active, bookVars, at, produced>>
  BY DEF StartMake, TypeOK, SnapshotKnown
<1>1. PICK o \in DOMAIN orders : /\ o = Head(todo) /\ orders[o].token = at.token
                                 /\ orders[o].state # "pending_submit" /\ o \in Nat
  <2>1. Head(todo) = todo[1] /\ 1 \in DOMAIN todo
    BY <1>0, TodoTail
  <2>2. DOMAIN orders = 1 .. Len(orders) /\ Len(orders) \in Nat
    BY LenProperties DEF TypeOK
  <2> QED
    BY <1>0, <2>1, <2>2 DEF TodoKnown
<1>2. CASE Live(o) /\ orders[o].queue = 0 /\ Reachable(o)
  <2>1. PICK cap \in IF FillModel THEN orders[o].cap .. orders[o].size ELSE {orders[o].size} :
           /\ orders' = [orders EXCEPT ![o].cap = cap]
           /\ StartWalk(o, cap, "make") /\ UNCHANGED todo
    BY <1>1, <1>2 DEF StartMake
  <2>2. cap \in Nat
    BY <2>1, OrderType
  <2>3. Quiet
    BY <2>1, <2>2, CapEffect
  <2>4. /\ phase' = "make" /\ UNCHANGED todo
        /\ walk' = [order |-> o, levels |-> Left(at.token, orders[o].side), cap |-> cap]
    BY <2>1 DEF StartWalk
  <2>5. Left(at.token, orders[o].side) \in Levels
    BY <1>0, OrderType, LeftType
  <2>6. TypeOK'
    <3>1. walk' \in [order : Nat, levels : Levels, cap : Nat]
      BY <1>1, <2>2, <2>4, <2>5
    <3> QED
      BY <1>0, <2>3, <2>4, <3>1 DEF Quiet, SameOrders, TypeOK, bookVars
  <2>7. SnapshotKnown'
    BY <1>0, <2>4 DEF SnapshotKnown, bookVars
  <2>8. WalkKnown'
    <3>1. orders[o].state \in {"working", "partial"}
      BY <1>1, <1>2 DEF Live, LiveStates
    <3>2. walk'.order = o
      BY <2>4
    <3> QED
      BY <1>0, <1>1, <2>3, <2>4, <3>1, <3>2 DEF WalkKnown, Quiet, SameOrders, Still, Kept
  <2>9. TodoKnown'
    BY <1>0, <2>3, <2>4 DEF TodoKnown, Quiet, SameOrders, Still, Kept
  <2>10. WorkingListExact'
    BY <1>0, <2>3, QuietList
  <2> QED
    BY <2>3, <2>6, <2>7, <2>8, <2>9, <2>10
<1>3. CASE ~(Live(o) /\ orders[o].queue = 0 /\ Reachable(o))
  <2>1. todo' = Tail(todo) /\ UNCHANGED <<orders, phase, walk>>
    BY <1>1, <1>3 DEF StartMake
  <2>2. Quiet
    BY <2>1, UnchangedIsQuiet
  <2>3. TypeOK'
    BY <1>0, <2>1, TodoTail DEF TypeOK, bookVars
  <2>4. SnapshotKnown' /\ WalkKnown'
    BY <1>0, <2>1 DEF SnapshotKnown, WalkKnown, bookVars
  <2>5. TodoKnown'
    BY <1>0, <2>1, TodoTail DEF TodoKnown
  <2>6. WorkingListExact'
    BY <1>0, <2>2, QuietList
  <2> QED
    BY <2>2, <2>3, <2>4, <2>5, <2>6
<1> QED
  BY <1>2, <1>3

LEMMA FinishMakeKeeps ==
    ASSUME StepInv, FinishMake, NEW o, o = walk.order
    PROVE  /\ StepInv' /\ o \in DOMAIN orders
           /\ IF Remaining(o) = 0
              THEN /\ Sets(o, "filled", orders[o].filled, orders[o].cancelAt)
                   /\ DecrementActive(orders[o].token)
              ELSE Quiet /\ UNCHANGED active
<1> USE DEF StepInv
<1>0. /\ phase = "make" /\ todo # <<>> /\ todo \in Seq(Nat) /\ o \in DOMAIN orders
      /\ orders[o].state \in {"working", "partial"}
      /\ todo' = Tail(todo) /\ phase' = "match" /\ walk' = NoWalk
      /\ UNCHANGED <<bookVars, at, produced>>
  BY DEF FinishMake, WalkKnown, TypeOK
<1>1. Tail(todo) \in Seq(Nat)
      /\ \A i \in DOMAIN Tail(todo) : i + 1 \in DOMAIN todo /\ Tail(todo)[i] = todo[i + 1]
  BY <1>0, TodoTail
<1>2. SnapshotKnown' /\ WalkKnown'
  BY <1>0 DEF SnapshotKnown, WalkKnown, bookVars
<1>3. CASE Remaining(o) = 0
  <2>1. End(o, "filled") /\ RemoveFromWorking(o)
    BY <1>3 DEF FinishMake
  <2>2. "filled" \in TerminalStates
    BY DEF TerminalStates
  <2>3. Sets(o, "filled", orders[o].filled, orders[o].cancelAt) /\ DecrementActive(orders[o].token)
    BY <1>0, <2>1, <2>2, EndEffect DEF End
  <2>4. WorkingListExact' /\ working' \in [Tokens -> Seq(Nat)]
    BY <1>0, <2>1, <2>2, <2>3, ListShrinks
  <2>5. active' \in [Tokens -> Nat]
    BY <1>0, <2>3, OrderType, DecrementType
  <2>6. TypeOK'
    BY <1>0, <1>1, <2>3, <2>4, <2>5, NoWalkType DEF Sets, SameOrders, TypeOK, bookVars
  <2>7. TodoKnown'
    <3>1. \A x \in DOMAIN orders : /\ x \in DOMAIN orders' /\ orders'[x].token = orders[x].token
                                   /\ orders[x].state # "pending_submit"
                                         => orders'[x].state # "pending_submit"
      BY <2>3 DEF Sets, SameOrders, Still, Kept
    <3> QED
      BY <1>0, <1>1, <3>1 DEF TodoKnown
  <2> QED
    BY <1>0, <1>2, <1>3, <2>3, <2>4, <2>6, <2>7
<1>4. CASE Remaining(o) # 0
  <2>1. UNCHANGED <<orders, active, working>>
    BY <1>4 DEF FinishMake
  <2>2. Quiet
    BY <2>1, UnchangedIsQuiet
  <2>3. TypeOK'
    BY <1>0, <1>1, <2>1, NoWalkType DEF TypeOK, bookVars
  <2>4. TodoKnown'
    BY <1>0, <1>1, <2>1 DEF TodoKnown
  <2>5. WorkingListExact'
    BY <2>1, <2>2, QuietList
  <2> QED
    BY <1>0, <1>2, <1>4, <2>1, <2>2, <2>3, <2>4, <2>5
<1> QED
  BY <1>3, <1>4

\* The end of a call, whatever becomes of its fills.
LEMMA EndAdvanceKeeps ==
    ASSUME StepInv, phase' = "idle", at' = None, produced' \in Seq(Fill),
           UNCHANGED <<orders, working, active, bookVars, todo, walk>>
    PROVE  StepInv' /\ Quiet
<1> USE DEF StepInv
<1>1. Quiet
  BY UnchangedIsQuiet
<1>2. TypeOK'
  BY DEF TypeOK, bookVars
<1>3. SnapshotKnown' /\ WalkKnown' /\ TodoKnown'
  BY DEF SnapshotKnown, WalkKnown, TodoKnown
<1>4. WorkingListExact'
  BY <1>1, QuietList
<1> QED
  BY <1>1, <1>2, <1>3, <1>4

\* One iteration of the loops of advance_to.
LEMMA AdvanceKeeps ==
    ASSUME StepInv, Advance
    PROVE  StepInv'
<1>1. ASSUME NEW o \in DOMAIN orders, ApplyCancel(o) PROVE StepInv'
  BY <1>1, ApplyCancelKeeps
<1>2. ASSUME NEW o \in DOMAIN orders, AdmitRejects(o) PROVE StepInv'
  BY <1>2, EndKeeps DEF AdmitRejects, NextAdmitted, TerminalStates
<1>3. ASSUME NEW o \in DOMAIN orders, AdmitTakes(o) PROVE StepInv'
  BY <1>3, AdmitTakesKeeps
<1>4. ASSUME NEW o \in DOMAIN orders, AdmitExpires(o) PROVE StepInv'
  BY <1>4, EndKeeps DEF AdmitExpires, NextAdmitted, TerminalStates
<1>5. ASSUME NEW o \in DOMAIN orders, AdmitRests(o) PROVE StepInv'
  BY <1>5, AdmitRestsKeeps
<1>6. CASE RefreshBook
  BY <1>6, RefreshBookKeeps
<1>7. ASSUME NEW p \in Prices, TakeLevel(p) PROVE StepInv'
  BY <1>7, TakeLevelKeeps
<1>8. ASSUME NEW p \in Prices, MakeLevel(p) PROVE StepInv'
  BY <1>8, MakeLevelKeeps
<1>9. CASE FinishTake
  BY <1>9, FinishTakeKeeps
<1>10. CASE BeginMatch
  BY <1>10, BeginMatchKeeps
<1>11. CASE StartMake
  BY <1>11, StartMakeKeeps
<1>12. CASE FinishMake
  BY <1>12, FinishMakeKeeps
<1> QED
  BY <1>1, <1>2, <1>3, <1>4, <1>5, <1>6, <1>7, <1>8, <1>9, <1>10, <1>11, <1>12 DEF Advance

\* Every step of the engine keeps the state machine's invariant.
LEMMA NextKeeps ==
    ASSUME StepInv, [Next]_vars
    PROVE  StepInv'
<1>1. ASSUME NEW r \in Requests, Submit(r) PROVE StepInv'
  <2>1. r \in Request /\ now \in Nat /\ produced' \in Seq(Fill)
    BY <1>1, EngineAssumption DEF Submit, StepInv, TypeOK
  <2> QED
    BY <1>1, <2>1, SubmitKeeps DEF Submit
<1>2. ASSUME NEW o \in DOMAIN orders, Cancel(o) PROVE StepInv'
  BY <1>2, CancelKeeps
<1>3. ASSUME NEW t \in Tokens, NEW b \in Snapshots, NEW gap \in Gaps, BeginAdvance(t, b, gap)
      PROVE  StepInv'
  BY <1>3, BeginAdvanceKeeps, EngineAssumption
<1>4. CASE Advance
  BY <1>4, AdvanceKeeps
<1>5. CASE EndAdvance
  BY <1>5, EndAdvanceKeeps DEF EndAdvance
<1>6. CASE UNCHANGED vars
  BY <1>6 DEF vars, bookVars, StepInv, TypeOK, SnapshotKnown, WalkKnown, TodoKnown,
              WorkingListExact
<1> QED
  BY <1>1, <1>2, <1>3, <1>4, <1>5, <1>6 DEF Next

LEMMA InitStep == Init => StepInv
<1> SUFFICES ASSUME Init PROVE StepInv
  OBVIOUS
<1>1. DOMAIN orders = {} /\ orders \in Seq(Order) /\ produced \in Seq(Fill) /\ todo \in Seq(Nat)
  BY DEF Init
<1>2. TypeOK
  BY <1>1, ZeroBook, NoWalkType DEF Init, TypeOK
<1>3. SnapshotKnown /\ WalkKnown /\ TodoKnown
  BY DEF Init, SnapshotKnown, WalkKnown, TodoKnown
<1>4. WorkingListExact
  BY <1>1 DEF Init, WorkingListExact
<1> QED
  BY <1>2, <1>3, <1>4 DEF StepInv

\* The invariant of the state machine is kept by every step of the engine.
THEOREM EngineStep == Spec => []StepInv
<1>1. Init => StepInv
  BY InitStep
<1>2. StepInv /\ [Next]_vars => StepInv'
  BY NextKeeps
<1> QED
  BY <1>1, <1>2, PTL DEF Spec

\* Whatever is submitted and shown, the matching engine's state keeps its type
\* (MatchingEngine.__init__).
THEOREM EngineTypeCorrect == Spec => []TypeOK
BY EngineStep, PTL DEF StepInv

\* Whatever mix of admissions, cancels and fills has happened, _working_by_token
\* holds each resting order exactly once and no other.
THEOREM WorkingListIsExact == Spec => []WorkingListExact
BY EngineStep, PTL DEF StepInv

(***************************************************************************)
(* The count of orders that have not ended.                                *)
(***************************************************************************)

LiveOf(t) == {o \in DOMAIN orders : Live(o) /\ orders[o].token = t}

LEMMA LiveFinite ==
    ASSUME TypeOK, NEW t
    PROVE  IsFiniteSet(LiveOf(t)) /\ Cardinality(LiveOf(t)) \in Nat
<1>1. DOMAIN orders = 1 .. Len(orders) /\ Len(orders) \in Nat
  BY LenProperties DEF TypeOK
<1>2. IsFiniteSet(1 .. Len(orders))
  BY <1>1, FS_Interval
<1>3. LiveOf(t) \subseteq 1 .. Len(orders)
  BY <1>1 DEF LiveOf
<1>4. IsFiniteSet(LiveOf(t))
  BY <1>2, <1>3, FS_Subset
<1> QED
  BY <1>4, FS_CardinalityType

LEMMA CountParts ==
    /\ ActiveCountExact <=> \A t \in Tokens : active[t] = Cardinality(LiveOf(t))
    /\ ActiveCountExact' <=> \A t \in Tokens : active'[t] = Cardinality(LiveOf(t)')
BY DEF ActiveCountExact, LiveOf

\* No order ends.
LEMMA CountStays ==
    ASSUME ActiveCountExact, UNCHANGED active, SameOrders,
           \A x \in DOMAIN orders : /\ orders'[x].token = orders[x].token
                                    /\ orders'[x].state \in LiveStates <=> Live(x)
    PROVE  ActiveCountExact'
<1>1. \A t \in Tokens : LiveOf(t)' = LiveOf(t)
  BY DEF LiveOf, Live, SameOrders
<1> QED
  BY <1>1, CountParts

LEMMA QuietCount ==
    ASSUME ActiveCountExact, UNCHANGED active, Quiet
    PROVE  ActiveCountExact'
BY CountStays DEF Quiet, Still, Kept, Live

\* An order ends.
LEMMA CountFalls ==
    ASSUME TypeOK, ActiveCountExact, NEW o \in DOMAIN orders, Live(o),
           NEW st \in TerminalStates, NEW f, NEW c, Sets(o, st, f, c),
           DecrementActive(orders[o].token)
    PROVE  ActiveCountExact'
<1>0. PICK u \in Tokens : u = orders[o].token
  BY OrderType
<1>1. LiveOf(u)' = LiveOf(u) \ {o} /\ o \in LiveOf(u)
  BY <1>0 DEF LiveOf, Live, Sets, SameOrders, Still, Kept, TerminalStates, LiveStates
<1>2. \A t \in Tokens : t # u => LiveOf(t)' = LiveOf(t)
  BY <1>0 DEF LiveOf, Live, Sets, SameOrders, Still, Kept, TerminalStates, LiveStates
<1>3. IsFiniteSet(LiveOf(u)) /\ Cardinality(LiveOf(u)) \in Nat
  BY LiveFinite
<1>4. Cardinality(LiveOf(u) \ {o}) = Cardinality(LiveOf(u)) - 1
  BY <1>1, <1>3, FS_RemoveElement
<1>5. Cardinality(LiveOf(u) \ {o}) \in Nat
  BY <1>3, FS_RemoveElement, FS_CardinalityType
<1>6. active[u] = Cardinality(LiveOf(u))
  BY CountParts
<1>7. active'[u] = IF active[u] > 1 THEN active[u] - 1 ELSE 0
  BY <1>0 DEF DecrementActive, TypeOK
<1>8. active'[u] = Cardinality(LiveOf(u)')
  BY <1>1, <1>3, <1>4, <1>5, <1>6, <1>7
<1>9. \A t \in Tokens : t # u => active'[t] = active[t]
  BY <1>0 DEF DecrementActive, TypeOK
<1> QED
  BY <1>2, <1>8, <1>9, CountParts

\* An order is submitted.
LEMMA CountRises ==
    ASSUME TypeOK, ActiveCountExact, NEW r \in Request, NEW sent \in Nat, SubmitOrder(r, sent)
    PROVE  ActiveCountExact'
<1>1. PICK e \in Order : /\ e.token = r.token /\ e.state \in {"pending_submit", "rejected"}
                         /\ ValidateSubmit(r) <=> e.state = "pending_submit"
                         /\ orders' = Append(orders, e)
  BY SubmitEffect
<1>0. PICK n, u : n = Len(orders) + 1 /\ u = r.token
  OBVIOUS
<1>2. /\ DOMAIN orders' = DOMAIN orders \cup {n}
      /\ orders'[n] = e /\ n \notin DOMAIN orders
      /\ \A x \in DOMAIN orders : orders'[x] = orders[x]
  BY <1>0, <1>1, MoreOrders DEF TypeOK
<1>3. u \in Tokens
  BY <1>0 DEF Request
<1>4. \A t \in Tokens : t # u => LiveOf(t)' = LiveOf(t)
  BY <1>0, <1>1, <1>2 DEF LiveOf, Live
<1>5. CASE ValidateSubmit(r)
  <2>1. LiveOf(u)' = LiveOf(u) \cup {n}
    BY <1>0, <1>1, <1>2, <1>5 DEF LiveOf, Live, LiveStates
  <2>2. n \notin LiveOf(u)
    BY <1>2 DEF LiveOf
  <2>3. Cardinality(LiveOf(u) \cup {n}) = Cardinality(LiveOf(u)) + 1
    BY <2>2, LiveFinite, FS_AddElement
  <2>4. active' = [active EXCEPT ![u] = @ + 1]
    BY <1>0, <1>5 DEF SubmitOrder
  <2>5. active'[u] = active[u] + 1 /\ \A t \in Tokens : t # u => active'[t] = active[t]
    BY <1>3, <2>4 DEF TypeOK
  <2> QED
    BY <1>3, <1>4, <2>1, <2>3, <2>5, CountParts
<1>6. CASE ~ValidateSubmit(r)
  <2>1. LiveOf(u)' = LiveOf(u)
    BY <1>0, <1>1, <1>2, <1>6 DEF LiveOf, Live, LiveStates
  <2>2. UNCHANGED active
    BY <1>6 DEF SubmitOrder
  <2> QED
    BY <1>3, <1>4, <2>1, <2>2, CountParts
<1> QED
  BY <1>5, <1>6

\* One iteration of the loops of advance_to keeps the count.
LEMMA CountAdvances ==
    ASSUME StepInv, ActiveCountExact, Advance
    PROVE  ActiveCountExact'
<1> USE DEF StepInv
<1>1. ASSUME NEW o \in DOMAIN orders, ApplyCancel(o) PROVE ActiveCountExact'
  <2>1. CASE Live(o)
    BY <1>1, <2>1, ApplyCancelKeeps, CountFalls DEF ApplyCancel, TerminalStates
  <2>2. CASE ~Live(o)
    <3>1. Sets(o, orders[o].state, orders[o].filled, NoCancel) /\ UNCHANGED active
      BY <1>1, <2>2, ApplyCancelKeeps DEF ApplyCancel
    <3> QED
      BY <3>1, CountStays DEF Sets, Still, Kept, Live
  <2> QED
    BY <2>1, <2>2
<1>2. ASSUME NEW o \in Admissible, phase = "admit", NEW st \in TerminalStates, End(o, st),
             UNCHANGED <<working, bookVars, callVars, produced>>
      PROVE  ActiveCountExact'
  <2>1. o \in DOMAIN orders /\ Live(o)
    BY DEF Admissible, Live, LiveStates
  <2>2. Sets(o, st, orders[o].filled, orders[o].cancelAt)
    BY <1>2, EndKeeps
  <2> QED
    BY <1>2, <2>1, <2>2, CountFalls DEF End
<1>3. ASSUME NEW o \in DOMAIN orders, AdmitRejects(o) PROVE ActiveCountExact'
  BY <1>2, <1>3 DEF AdmitRejects, NextAdmitted, TerminalStates
<1>4. ASSUME NEW o \in DOMAIN orders, AdmitExpires(o) PROVE ActiveCountExact'
  BY <1>2, <1>4 DEF AdmitExpires, NextAdmitted, TerminalStates
<1>5. ASSUME NEW o \in DOMAIN orders, AdmitTakes(o) PROVE ActiveCountExact'
  BY <1>5, AdmitTakesKeeps, QuietCount DEF AdmitTakes
<1>6. ASSUME NEW o \in DOMAIN orders, AdmitRests(o) PROVE ActiveCountExact'
  <2>1. /\ Sets(o, "working", orders[o].filled, orders[o].cancelAt) /\ UNCHANGED active
        /\ orders[o].state = "pending_submit"
    BY <1>6, AdmitRestsKeeps DEF AdmitRests, NextAdmitted, Admissible
  <2> QED
    BY <2>1, CountStays DEF Sets, Still, Kept, Live, LiveStates
<1>7. CASE RefreshBook
  BY <1>7, RefreshBookKeeps, QuietCount DEF RefreshBook
<1>8. ASSUME NEW p \in Prices, TakeLevel(p) \/ MakeLevel(p) PROVE ActiveCountExact'
  <2>1. walk.order \in DOMAIN orders /\ UNCHANGED active /\ p \in Prices
    BY <1>8 DEF TakeLevel, MakeLevel, WalkKnown
  <2>2. PICK o, t, s : o = walk.order /\ t = orders[o].token /\ s = orders[o].side
    OBVIOUS
  <2>3. orders[o].price \in Prices
    BY <2>1, <2>2, OrderType
  <2>4. Quiet \/ \E n \in Nat : Sets(o, orders[o].state, orders[o].filled + n, orders[o].cancelAt)
    <3>1. CASE TakeLevel(p)
      <4>1. PICK n \in Nat : RecordFill(n, p, p, FALSE)
        BY <3>1, TakeLevelEffect
      <4> QED
        BY <4>1, <2>1, <2>2, RecordFillEffect
    <3>2. CASE MakeLevel(p)
      <4>1. PICK n \in Nat : \/ RecordFill(n, p, orders[o].price, TRUE)
                             \/ UNCHANGED <<orders, used, drawn, produced>>
        BY <3>2, <2>2, MakeLevelEffect
      <4>2. CASE RecordFill(n, p, orders[o].price, TRUE)
        BY <4>2, <2>1, <2>2, <2>3, RecordFillEffect
      <4>3. CASE UNCHANGED <<orders, used, drawn, produced>>
        BY <4>3, UnchangedIsQuiet
      <4> QED
        BY <4>1, <4>2, <4>3
    <3> QED
      BY <1>8, <3>1, <3>2
  <2>5. CASE Quiet
    BY <2>1, <2>5, QuietCount
  <2>6. ASSUME NEW n \in Nat, Sets(o, orders[o].state, orders[o].filled + n, orders[o].cancelAt)
        PROVE  ActiveCountExact'
    BY <2>1, <2>6, CountStays DEF Sets, Still, Kept, Live
  <2> QED
    BY <2>4, <2>5, <2>6
<1>9. CASE FinishTake
  <2>1. PICK o : o = walk.order
    OBVIOUS
  <2>2. o \in DOMAIN orders /\ orders[o].state = "pending_submit"
    BY <1>9, <2>1 DEF FinishTake, WalkKnown
  <2>3. CASE orders[o].tif = "GTC" /\ Remaining(o) > 0
    <3>1. Sets(o, "partial", orders[o].filled, orders[o].cancelAt) /\ UNCHANGED active
      BY <1>9, <2>1, <2>3, FinishTakeKeeps
    <3> QED
      BY <2>2, <3>1, CountStays DEF Sets, Still, Kept, Live, LiveStates
  <2>4. CASE ~(orders[o].tif = "GTC" /\ Remaining(o) > 0)
    <3>1. PICK st \in TerminalStates : /\ Sets(o, st, orders[o].filled, orders[o].cancelAt)
                                       /\ DecrementActive(orders[o].token)
      BY <1>9, <2>1, <2>4, FinishTakeKeeps DEF TerminalStates
    <3> QED
      BY <2>2, <3>1, CountFalls DEF Live, LiveStates
  <2> QED
    BY <2>3, <2>4
<1>10. CASE BeginMatch
  BY <1>10, BeginMatchKeeps, QuietCount DEF BeginMatch
<1>11. CASE StartMake
  BY <1>11, StartMakeKeeps, QuietCount DEF StartMake
<1>12. CASE FinishMake
  <2>1. PICK o : o = walk.order
    OBVIOUS
  <2>2. o \in DOMAIN orders /\ orders[o].state \in {"working", "partial"}
    BY <1>12, <2>1 DEF FinishMake, WalkKnown
  <2>3. CASE Remaining(o) = 0
    BY <1>12, <2>1, <2>2, <2>3, FinishMakeKeeps, CountFalls DEF Live, LiveStates, TerminalStates
  <2>4. CASE Remaining(o) # 0
    BY <1>12, <2>1, <2>4, FinishMakeKeeps, QuietCount
  <2> QED
    BY <2>3, <2>4
<1> QED
  BY <1>1, <1>3, <1>4, <1>5, <1>6, <1>7, <1>8, <1>9, <1>10, <1>11, <1>12 DEF Advance

CountInv == StepInv /\ ActiveCountExact

\* The count behind has_active_orders_for_token is exact after every mix of
\* rejects, expiries, cancels and fills, for any number of orders.
THEOREM ActiveCountIsExact == Spec => []ActiveCountExact
<1>1. Init => ActiveCountExact
  <2> SUFFICES ASSUME Init PROVE ActiveCountExact
    OBVIOUS
  <2>1. \A t \in Tokens : LiveOf(t) = {}
    BY DEF Init, LiveOf
  <2>2. Cardinality({}) = 0
    BY FS_EmptySet
  <2> QED
    BY <2>1, <2>2, CountParts DEF Init
<1>2. CountInv /\ [Next]_vars => CountInv'
  <2> SUFFICES ASSUME CountInv, [Next]_vars PROVE ActiveCountExact'
    BY NextKeeps DEF CountInv
  <2>0. StepInv /\ TypeOK /\ ActiveCountExact
    BY DEF CountInv, StepInv
  <2>1. ASSUME NEW r \in Requests, Submit(r) PROVE ActiveCountExact'
    <3>1. r \in Request /\ now \in Nat
      BY <2>0, EngineAssumption DEF TypeOK
    <3> QED
      BY <2>0, <2>1, <3>1, CountRises DEF Submit
  <2>2. ASSUME NEW o \in DOMAIN orders, Cancel(o) PROVE ActiveCountExact'
    <3>1. PICK c \in Nat : Sets(o, orders[o].state, orders[o].filled, c)
      BY <2>0, <2>2, CancelKeeps
    <3> QED
      BY <2>0, <2>2, <3>1, CountStays DEF Sets, Still, Kept, Live, Cancel
  <2>3. CASE Advance
    BY <2>0, <2>3, CountAdvances
  <2>4. ASSUME UNCHANGED <<orders, active>> PROVE ActiveCountExact'
    BY <2>0, <2>4, UnchangedIsQuiet, QuietCount
  <2> QED
    BY <2>1, <2>2, <2>3, <2>4 DEF Next, BeginAdvance, EndAdvance, vars
<1> QED
  BY <1>1, <1>2, EngineStep, PTL DEF Spec, CountInv

(***************************************************************************)
(* Outcomes and fills.                                                     *)
(***************************************************************************)

\* An order that waits, and is not being matched, has no fills.
WaitingUnfilled ==
    \A o \in DOMAIN orders :
        orders[o].state = "pending_submit" /\ ~(phase = "take" /\ o = walk.order)
            => orders[o].filled = 0

FokNeverRests ==
    \A o \in DOMAIN orders :
        orders[o].tif = "FOK" => orders[o].state \notin {"working", "partial"}

\* What a FOK order still needs is there, in the levels it has still to visit.
FokCovered ==
    phase = "take" /\ orders[walk.order].tif = "FOK" =>
        Depth(walk.levels, Reach(orders[walk.order].side, orders[walk.order].price))
            >= Remaining(walk.order)

OutcomeInv ==
    StepInv /\ OutcomeMatchesFills /\ WaitingUnfilled /\ FokNeverRests /\ FokCovered

\* What OutcomeInv says of one order that is not being matched.
Settled(ord) ==
    /\ ord.filled <= ord.size
    /\ ord.state = "filled" => ord.size - ord.filled = 0
    /\ ord.state = "rejected" => ord.filled = 0
    /\ ord.tif = "FOK" /\ ord.state \notin LiveStates => ord.filled \in {0, ord.size}
    /\ ord.tif = "FOK" => ord.state \notin {"working", "partial"}

LEMMA OutcomeParts ==
    /\ OutcomeMatchesFills /\ FokNeverRests <=> \A o \in DOMAIN orders : Settled(orders[o])
    /\ OutcomeMatchesFills' /\ FokNeverRests' <=> \A o \in DOMAIN orders' : Settled(orders'[o])
BY DEF OutcomeMatchesFills, FokNeverRests, Settled, Remaining, Live

\* An order that does not move stays settled.
LEMMA StillSettled ==
    ASSUME NEW x \in DOMAIN orders, Still(x), Settled(orders[x])
    PROVE  Settled(orders'[x])
BY DEF Still, Kept, Settled

\* No order moves and nobody takes.
LEMMA QuietOutcome ==
    ASSUME OutcomeInv, Quiet, phase # "take", phase' # "take"
    PROVE  OutcomeMatchesFills' /\ WaitingUnfilled' /\ FokNeverRests' /\ FokCovered'
<1>1. OutcomeMatchesFills' /\ FokNeverRests'
  BY OutcomeParts, StillSettled DEF OutcomeInv, Quiet, SameOrders
<1>2. WaitingUnfilled' /\ FokCovered'
  BY DEF OutcomeInv, WaitingUnfilled, FokCovered, Quiet, SameOrders, Still
<1> QED
  BY <1>1, <1>2

\* One order moves to a settled state, and nobody takes before or after.
LEMMA OneOutcome ==
    ASSUME OutcomeInv, NEW o, NEW st, NEW f, NEW c, Sets(o, st, f, c), phase' # "take",
           phase = "take" => o = walk.order,
           Settled(orders'[o]), st = "pending_submit" => f = 0
    PROVE  OutcomeMatchesFills' /\ WaitingUnfilled' /\ FokNeverRests' /\ FokCovered'
<1>1. OutcomeMatchesFills' /\ FokNeverRests'
  BY OutcomeParts, StillSettled DEF OutcomeInv, Sets, SameOrders
<1>2. WaitingUnfilled' /\ FokCovered'
  BY DEF OutcomeInv, WaitingUnfilled, FokCovered, Sets, SameOrders, Still
<1> QED
  BY <1>1, <1>2

\* A level is visited: the depth that is left to visit falls by what it held.
LEMMA DepthVisited ==
    ASSUME NEW l \in Levels, NEW m \in Levels, NEW S \in SUBSET Prices, NEW p \in S,
           m[p] = 0, \A q \in Prices : q # p => m[q] = l[q]
    PROVE  Depth(m, S) = Depth(l, S) - l[p]
<1>1. IsFiniteSet(S)
  BY PricesFinite, FS_Subset
<1>2. IntOn(l, S) /\ IntOn(m, S)
  BY DEF IntOn, Levels
<1>3. \A y \in S \ {p} : l[y] = m[y]
  OBVIOUS
<1>4. SumFunctionOnSet(m, S) = SumFunctionOnSet(l, S) - l[p] + m[p]
  BY <1>1, <1>2, <1>3, SumChange
<1>5. Depth(l, S) \in Nat /\ l[p] \in Nat
  BY DepthType DEF Levels
<1> QED
  BY <1>4, <1>5 DEF Depth

\* No level is left: there is no depth left.
LEMMA DepthGone ==
    ASSUME NEW l \in Levels, NEW S \in SUBSET Prices, \A p \in S : ~(l[p] > 0)
    PROVE  Depth(l, S) = 0
<1>1. IsFiniteSet(S) /\ \A p \in S : l[p] = 0
  BY PricesFinite, FS_Subset DEF Levels
<1> QED
  BY <1>1, SumZero DEF Depth

\* A FOK order is never stuck halfway: when its walk is over, it has all.
LEMMA FokFilled ==
    ASSUME OutcomeInv, FinishTake, orders[walk.order].tif = "FOK"
    PROVE  Remaining(walk.order) = 0
<1> DEFINE o == walk.order
           S == Reach(orders[o].side, orders[o].price)
<1>1. phase = "take" /\ o \in DOMAIN orders /\ (Remaining(o) = 0 \/ Unvisited = {})
  BY DEF FinishTake, OutcomeInv, StepInv, WalkKnown
<1>2. Remaining(o) \in Int /\ Remaining(o) >= 0
  BY <1>1, OrderType DEF OutcomeInv, StepInv, OutcomeMatchesFills, Remaining
<1>3. CASE Unvisited = {}
  <2>1. \A p \in S : ~(walk.levels[p] > 0)
    BY <1>3 DEF Unvisited
  <2>2. walk.levels \in Levels /\ S \in SUBSET Prices
    BY ReachInPrices DEF OutcomeInv, StepInv, TypeOK
  <2>3. Depth(walk.levels, S) = 0
    BY <2>1, <2>2, DepthGone
  <2>4. Depth(walk.levels, S) >= Remaining(o)
    BY <1>1 DEF OutcomeInv, FokCovered
  <2> QED
    BY <1>2, <2>3, <2>4
<1> QED
  BY <1>1, <1>3

\* An admitted FOK order finds its size in the book.
LEMMA FokStarts ==
    ASSUME OutcomeInv, NEW o \in DOMAIN orders, AdmitTakes(o)
    PROVE  OutcomeMatchesFills' /\ WaitingUnfilled' /\ FokNeverRests' /\ FokCovered'
<1>0. Quiet
  BY AdmitTakesKeeps DEF OutcomeInv
<1>1. OutcomeMatchesFills' /\ FokNeverRests'
  BY <1>0, OutcomeParts, StillSettled DEF OutcomeInv, Quiet, SameOrders
<1>2. /\ phase = "admit" /\ phase' = "take" /\ orders[o].state = "pending_submit"
      /\ walk' = [order |-> o, levels |-> Left(at.token, orders[o].side), cap |-> orders[o].size]
      /\ UNCHANGED <<orders, bookVars, at>>
      /\ orders[o].tif = "FOK" => Enough(o)
  BY DEF AdmitTakes, NextAdmitted, Admissible, StartWalk
<1>3. WaitingUnfilled' /\ orders[o].filled = 0
  BY <1>2 DEF OutcomeInv, WaitingUnfilled
<1>4. ASSUME orders[o].tif = "FOK"
      PROVE  Depth(Left(at.token, orders[o].side), Reach(orders[o].side, orders[o].price)) >= Remaining(o)
  <2>1. Remaining(o) = orders[o].size
    BY <1>3, OrderType DEF OutcomeInv, StepInv, Remaining
  <2> QED
    BY <1>2, <1>4, <2>1 DEF Enough, AvailableForTaker
<1>5. FokCovered'
  BY <1>2, <1>4 DEF FokCovered, Remaining
<1> QED
  BY <1>1, <1>3, <1>5

\* A level of a taker.
LEMMA TakeOutcome ==
    ASSUME OutcomeInv, NEW p \in Prices, TakeLevel(p)
    PROVE  OutcomeMatchesFills' /\ WaitingUnfilled' /\ FokNeverRests' /\ FokCovered'
<1>1. PICK o \in DOMAIN orders : o = walk.order
  BY DEF OutcomeInv, StepInv, WalkKnown, TakeLevel
<1>2. PICK n \in Nat : /\ n <= Remaining(o) /\ n <= walk.levels[p]
                       /\ n = Remaining(o) \/ n = walk.levels[p]
                       /\ RecordFill(n, p, p, FALSE)
  BY <1>1, TakeLevelEffect DEF OutcomeInv
<1>3. TypeOK /\ orders[o].state = "pending_submit" /\ phase = "take" /\ phase' = "take" /\ Visited(p)
  BY <1>1 DEF OutcomeInv, StepInv, WalkKnown, TakeLevel
<1>4. Sets(o, orders[o].state, orders[o].filled + n, orders[o].cancelAt)
  BY <1>1, <1>2, <1>3, RecordFillEffect
<1>5. /\ orders[o].size \in Nat /\ orders[o].filled \in Nat
      /\ Remaining(o) = orders[o].size - orders[o].filled
      /\ orders'[o].size = orders[o].size /\ orders'[o].filled = orders[o].filled + n
      /\ orders'[o].state = "pending_submit" /\ DOMAIN orders' = DOMAIN orders
      /\ \A x \in DOMAIN orders : x # o => Still(x)
  BY <1>3, <1>4, OrderType DEF Sets, SameOrders, Kept, Remaining
<1>6. Settled(orders'[o])
  BY <1>2, <1>5 DEF Settled, LiveStates
<1>7. OutcomeMatchesFills' /\ FokNeverRests'
  BY <1>5, <1>6, OutcomeParts, StillSettled DEF OutcomeInv
<1>8. /\ walk'.order = o /\ walk'.levels \in Levels /\ walk.levels \in Levels
      /\ walk'.levels[p] = 0 /\ \A q \in Prices : q # p => walk'.levels[q] = walk.levels[q]
  BY <1>1, <1>3, VisitedEffect DEF TypeOK
<1>9. WaitingUnfilled'
  BY <1>3, <1>5, <1>8, <1>1 DEF OutcomeInv, WaitingUnfilled, Still
<1>10. FokCovered'
  <2> SUFFICES ASSUME orders'[walk'.order].tif = "FOK"
               PROVE  Depth(walk'.levels, Reach(orders'[o].side, orders'[o].price))
                         >= orders'[o].size - orders'[o].filled
    BY <1>8 DEF FokCovered, Remaining
  <2>1. PICK S \in SUBSET Prices : S = Reach(orders[o].side, orders[o].price)
    BY ReachInPrices
  <2>2. orders'[o].side = orders[o].side /\ orders'[o].price = orders[o].price
        /\ orders'[o].tif = orders[o].tif
    BY <1>4 DEF Sets, Kept
  <2>3. PICK l \in Levels, m \in Levels : l = walk.levels /\ m = walk'.levels
    BY <1>8
  <2>4. p \in S
    BY <1>1, <2>1 DEF TakeLevel, BestUnvisited, Unvisited
  <2>5. Depth(l, S) >= Remaining(o)
    BY <1>1, <1>3, <1>8, <2>1, <2>2, <2>3 DEF OutcomeInv, FokCovered
  <2>6. Depth(m, S) = Depth(l, S) - l[p] /\ l[p] \in Nat
    BY <1>8, <2>3, <2>4, DepthVisited DEF Levels
  <2>7. Depth(m, S) \in Nat /\ Depth(l, S) \in Nat
    BY DepthType
  <2>8. Depth(m, S) >= orders'[o].size - orders'[o].filled
    BY <1>2, <1>5, <2>3, <2>5, <2>6, <2>7
  <2> QED
    BY <2>1, <2>2, <2>3, <2>8
<1> QED
  BY <1>7, <1>9, <1>10

\* A level of an order at rest.
LEMMA MakeOutcome ==
    ASSUME OutcomeInv, NEW p \in Prices, MakeLevel(p)
    PROVE  OutcomeMatchesFills' /\ WaitingUnfilled' /\ FokNeverRests' /\ FokCovered'
<1>1. PICK o \in DOMAIN orders : o = walk.order
  BY DEF OutcomeInv, StepInv, WalkKnown, MakeLevel
<1>2. PICK n \in Nat : /\ n <= Remaining(o)
                       /\ \/ RecordFill(n, p, orders[o].price, TRUE)
                          \/ UNCHANGED <<orders, used, drawn, produced>>
  BY <1>1, MakeLevelEffect DEF OutcomeInv
<1>3. /\ TypeOK /\ orders[o].state \in {"working", "partial"} /\ phase = "make" /\ phase' = "make"
      /\ orders[o].price \in Prices /\ orders[o].size \in Nat /\ orders[o].filled \in Nat
  BY <1>1, OrderType DEF OutcomeInv, StepInv, WalkKnown, MakeLevel
<1>4. CASE UNCHANGED <<orders, used, drawn, produced>>
  BY <1>3, <1>4, UnchangedIsQuiet, QuietOutcome
<1>5. CASE RecordFill(n, p, orders[o].price, TRUE)
  <2>1. Sets(o, orders[o].state, orders[o].filled + n, orders[o].cancelAt)
    BY <1>1, <1>3, <1>5, RecordFillEffect
  <2>2. /\ orders'[o].size = orders[o].size /\ orders'[o].filled = orders[o].filled + n
        /\ orders'[o].state = orders[o].state /\ orders'[o].tif = orders[o].tif
    BY <2>1 DEF Sets, Kept
  <2>3. orders[o].filled + n <= orders[o].size
    BY <1>2, <1>3 DEF Remaining
  <2>4. orders[o].tif # "FOK"
    BY <1>3 DEF OutcomeInv, FokNeverRests
  <2>5. Settled(orders'[o])
    BY <1>3, <2>2, <2>3, <2>4 DEF Settled, LiveStates
  <2> QED
    BY <1>3, <2>1, <2>5, OneOutcome
<1> QED
  BY <1>2, <1>4, <1>5

\* Every iteration of the loops keeps the outcomes true.
LEMMA AdvanceOutcome ==
    ASSUME OutcomeInv, Advance
    PROVE  OutcomeMatchesFills' /\ WaitingUnfilled' /\ FokNeverRests' /\ FokCovered'
<1> DEFINE Goal == OutcomeMatchesFills' /\ WaitingUnfilled' /\ FokNeverRests' /\ FokCovered'
<1>0. StepInv /\ TypeOK /\ \A x \in DOMAIN orders : Settled(orders[x])
  BY OutcomeParts DEF OutcomeInv, StepInv
<1>1. ASSUME NEW o \in DOMAIN orders, ApplyCancel(o) PROVE Goal
  <2>1. phase = "cancel" /\ phase' = "cancel"
    BY <1>1 DEF ApplyCancel, callVars
  <2>2. CASE Live(o)
    <3>1. Sets(o, "cancelled", orders[o].filled, NoCancel)
      BY <1>0, <1>1, <2>2, ApplyCancelKeeps
    <3>2. orders[o].tif = "FOK" => orders[o].filled = 0
      BY <2>1, <2>2 DEF OutcomeInv, FokNeverRests, WaitingUnfilled, Live, LiveStates
    <3>3. Settled(orders'[o])
      BY <1>0, <3>1, <3>2 DEF Settled, Sets, Kept
    <3> QED
      BY <2>1, <3>1, <3>3, OneOutcome
  <2>3. CASE ~Live(o)
    <3>1. Sets(o, orders[o].state, orders[o].filled, NoCancel)
      BY <1>0, <1>1, <2>3, ApplyCancelKeeps
    <3>2. Settled(orders'[o])
      BY <1>0, <3>1 DEF Settled, Sets, Kept
    <3> QED
      BY <2>1, <2>3, <3>1, <3>2, OneOutcome DEF Live, LiveStates
  <2> QED
    BY <2>2, <2>3
<1>2. ASSUME NEW o \in Admissible, phase = "admit", NEW st \in {"rejected", "cancelled"},
             End(o, st), UNCHANGED <<working, bookVars, callVars, produced>>
      PROVE  Goal
  <2>1. o \in DOMAIN orders /\ orders[o].filled = 0
    BY <1>2 DEF Admissible, OutcomeInv, WaitingUnfilled
  <2>2. Sets(o, st, orders[o].filled, orders[o].cancelAt)
    BY <1>0, <1>2, EndKeeps DEF TerminalStates
  <2>3. Settled(orders'[o])
    BY <1>0, <2>1, <2>2 DEF Settled, Sets, Kept
  <2> QED
    BY <1>2, <2>2, <2>3, OneOutcome DEF callVars
<1>3. ASSUME NEW o \in DOMAIN orders, AdmitRejects(o) PROVE Goal
  BY <1>2, <1>3 DEF AdmitRejects, NextAdmitted
<1>4. ASSUME NEW o \in DOMAIN orders, AdmitExpires(o) PROVE Goal
  BY <1>2, <1>4 DEF AdmitExpires, NextAdmitted
<1>5. ASSUME NEW o \in DOMAIN orders, AdmitTakes(o) PROVE Goal
  BY <1>5, FokStarts
<1>6. ASSUME NEW o \in DOMAIN orders, AdmitRests(o) PROVE Goal
  <2>1. /\ Sets(o, "working", orders[o].filled, orders[o].cancelAt) /\ phase = "admit"
        /\ phase' = "admit" /\ orders[o].tif = "GTC"
    BY <1>0, <1>6, AdmitRestsKeeps DEF AdmitRests, callVars
  <2>2. Settled(orders'[o])
    BY <1>0, <2>1 DEF Settled, Sets, Kept
  <2> QED
    BY <2>1, <2>2, OneOutcome
<1>7. CASE RefreshBook
  BY <1>0, <1>7, RefreshBookKeeps, QuietOutcome DEF RefreshBook
<1>8. ASSUME NEW p \in Prices, TakeLevel(p) PROVE Goal
  BY <1>8, TakeOutcome
<1>9. ASSUME NEW p \in Prices, MakeLevel(p) PROVE Goal
  BY <1>9, MakeOutcome
<1>10. CASE FinishTake
  <2>1. PICK o \in DOMAIN orders : o = walk.order
    BY <1>0, <1>10, FinishTakeKeeps
  <2>2. phase' = "admit" /\ orders[o].tif \in Tifs
    BY <1>0, <1>10, OrderType DEF FinishTake
  <2>3. PICK st : /\ Sets(o, st, orders[o].filled, orders[o].cancelAt)
                  /\ \/ st = "partial" /\ orders[o].tif = "GTC"
                     \/ st = "cancelled" /\ orders[o].tif = "IOC"
                     \/ st = "filled" /\ ~(orders[o].tif \in {"GTC", "IOC"} /\ Remaining(o) > 0)
    BY <1>0, <1>10, <2>1, FinishTakeKeeps
  <2>4. /\ orders[o].size \in Nat /\ orders[o].filled \in Nat
        /\ Remaining(o) = orders[o].size - orders[o].filled
        /\ orders[o].filled <= orders[o].size
    BY <1>0, OrderType DEF Remaining, Settled
  <2>5. st = "filled" => Remaining(o) = 0
    <3>1. orders[o].tif = "FOK" => Remaining(o) = 0
      BY <1>10, <2>1, FokFilled
    <3> QED
      BY <2>2, <2>3, <2>4, <3>1 DEF Tifs
  <2>6. Settled(orders'[o])
    BY <2>3, <2>4, <2>5 DEF Settled, Sets, Kept, LiveStates
  <2> QED
    BY <2>1, <2>2, <2>3, <2>6, OneOutcome
<1>11. CASE BeginMatch
  BY <1>0, <1>11, BeginMatchKeeps, QuietOutcome DEF BeginMatch
<1>12. CASE StartMake
  <2>1. phase = "match" /\ phase' \in {"match", "make"}
    BY <1>12 DEF StartMake, StartWalk
  <2> QED
    BY <1>0, <1>12, <2>1, StartMakeKeeps, QuietOutcome
<1>13. CASE FinishMake
  <2>1. PICK o \in DOMAIN orders : o = walk.order
    BY <1>0, <1>13, FinishMakeKeeps
  <2>2. phase = "make" /\ phase' = "match" /\ orders[o].state \in {"working", "partial"}
    BY <1>0, <1>13, <2>1 DEF FinishMake, StepInv, WalkKnown
  <2>3. CASE Remaining(o) = 0
    <3>1. Sets(o, "filled", orders[o].filled, orders[o].cancelAt)
      BY <1>0, <1>13, <2>1, <2>3, FinishMakeKeeps
    <3>2. orders[o].tif # "FOK"
      BY <2>2 DEF OutcomeInv, FokNeverRests
    <3>3. Settled(orders'[o])
      BY <1>0, <2>3, <3>1, <3>2 DEF Settled, Sets, Kept, Remaining
    <3> QED
      BY <2>2, <3>1, <3>3, OneOutcome
  <2>4. CASE Remaining(o) # 0
    BY <1>0, <1>13, <2>1, <2>2, <2>4, FinishMakeKeeps, QuietOutcome
  <2> QED
    BY <2>3, <2>4
<1> QED
  BY <1>1, <1>3, <1>4, <1>5, <1>6, <1>7, <1>8, <1>9, <1>10, <1>11, <1>12, <1>13 DEF Advance

\* What the final states claim about fills is true for every order: none is
\* filled beyond its size, "filled" means all of it, a rejected order traded
\* nothing, and a FOK order traded all or nothing although _consume_levels takes
\* its size level by level.
THEOREM OutcomesMatchFills == Spec => []OutcomeMatchesFills
<1>1. Init => OutcomeInv
  <2> SUFFICES ASSUME Init PROVE OutcomeMatchesFills /\ WaitingUnfilled /\ FokNeverRests /\ FokCovered
    BY InitStep DEF OutcomeInv
  <2>1. DOMAIN orders = {} /\ phase = "idle"
    BY DEF Init
  <2> QED
    BY <2>1 DEF OutcomeMatchesFills, WaitingUnfilled, FokNeverRests, FokCovered
<1>2. OutcomeInv /\ [Next]_vars => OutcomeInv'
  <2> DEFINE Goal == OutcomeMatchesFills' /\ WaitingUnfilled' /\ FokNeverRests' /\ FokCovered'
  <2> SUFFICES ASSUME OutcomeInv, [Next]_vars PROVE Goal
    BY NextKeeps DEF OutcomeInv
  <2>0. StepInv /\ TypeOK /\ \A x \in DOMAIN orders : Settled(orders[x])
    BY OutcomeParts DEF OutcomeInv, StepInv
  <2>1. ASSUME NEW r \in Requests, Submit(r) PROVE Goal
    <3>1. r \in Request /\ now \in Nat
      BY <2>0, EngineAssumption DEF TypeOK
    <3>2. PICK e \in Order : /\ e.filled = 0 /\ e.state \in {"pending_submit", "rejected"}
                             /\ orders' = Append(orders, e)
      BY <2>0, <2>1, <3>1, SubmitEffect DEF Submit
    <3>3. /\ DOMAIN orders' = DOMAIN orders \cup {Len(orders) + 1}
          /\ orders'[Len(orders) + 1] = e /\ \A x \in DOMAIN orders : orders'[x] = orders[x]
      BY <2>0, <3>2, MoreOrders DEF TypeOK
    <3>4. Settled(e)
      BY <3>2 DEF Settled, Order, LiveStates
    <3>5. OutcomeMatchesFills' /\ FokNeverRests'
      BY <2>0, <3>3, <3>4, OutcomeParts
    <3>6. phase = "idle" /\ phase' = "idle"
      BY <2>1 DEF Submit, callVars
    <3>7. WaitingUnfilled' /\ FokCovered'
      BY <3>2, <3>3, <3>6 DEF OutcomeInv, WaitingUnfilled, FokCovered
    <3> QED
      BY <3>5, <3>7
  <2>2. ASSUME NEW o \in DOMAIN orders, Cancel(o) PROVE Goal
    <3>1. PICK c \in Nat : Sets(o, orders[o].state, orders[o].filled, c)
      BY <2>0, <2>2, CancelKeeps
    <3>2. phase = "idle" /\ phase' = "idle"
      BY <2>2 DEF Cancel, callVars
    <3>3. Settled(orders'[o])
      BY <2>0, <3>1 DEF Settled, Sets, Kept
    <3>4. orders[o].state = "pending_submit" => orders[o].filled = 0
      BY <3>2 DEF OutcomeInv, WaitingUnfilled
    <3> QED
      BY <3>1, <3>2, <3>3, <3>4, OneOutcome
  <2>3. ASSUME NEW t \in Tokens, NEW b \in Snapshots, NEW gap \in Gaps, BeginAdvance(t, b, gap)
        PROVE  Goal
    BY <2>0, <2>3, UnchangedIsQuiet, QuietOutcome DEF BeginAdvance
  <2>4. CASE Advance
    BY <2>4, AdvanceOutcome
  <2>5. CASE EndAdvance
    BY <2>0, <2>5, UnchangedIsQuiet, QuietOutcome DEF EndAdvance
  <2>6. CASE UNCHANGED vars
    BY <2>6 DEF vars, OutcomeInv, OutcomeMatchesFills, WaitingUnfilled, FokNeverRests, FokCovered,
                Remaining, Live
  <2> QED
    BY <2>1, <2>2, <2>3, <2>4, <2>5, <2>6 DEF Next
<1>3. OutcomeInv => OutcomeMatchesFills
  BY DEF OutcomeInv
<1> QED
  BY <1>1, <1>2, <1>3, PTL DEF Spec

(***************************************************************************)
(* What a step may do to an order: the history of one order.               *)
(***************************************************************************)

\* The arguments of an order never change, an order that has ended stays as it
\* is, and only the order being matched gets fills.  Once the due cancels are
\* applied no cancel time changes, and an order comes to rest by its admission.
Lawful ==
    \A x \in DOMAIN orders :
        /\ x \in DOMAIN orders' /\ Kept(x)
        /\ ~Live(x) => /\ orders'[x].state = orders[x].state
                       /\ orders'[x].filled = orders[x].filled
        /\ orders'[x].filled # orders[x].filled => phase \in {"take", "make"} /\ x = walk.order
        /\ phase \notin {"idle", "cancel"} => orders'[x].cancelAt = orders[x].cancelAt
        /\ orders'[x].state \in {"working", "partial"} =>
              \/ orders[x].state \in {"working", "partial"}
              \/ orders[x].received <= now
              \/ phase = "take" /\ x = walk.order
        /\ orders'[x].state = "pending_submit" => orders[x].state = "pending_submit"

LEMMA QuietLawful == ASSUME Quiet PROVE Lawful /\ SameOrders
BY DEF Quiet, SameOrders, Still, Lawful

LEMMA OneLawful ==
    ASSUME NEW o, NEW st, NEW f, NEW c, Sets(o, st, f, c),
           ~Live(o) => st = orders[o].state /\ f = orders[o].filled,
           f # orders[o].filled => phase \in {"take", "make"} /\ o = walk.order,
           phase \notin {"idle", "cancel"} => c = orders[o].cancelAt,
           st \in {"working", "partial"} => \/ orders[o].state \in {"working", "partial"}
                                            \/ orders[o].received <= now
                                            \/ phase = "take" /\ o = walk.order,
           st = "pending_submit" => orders[o].state = "pending_submit"
    PROVE  Lawful /\ SameOrders
BY DEF Sets, SameOrders, Still, Lawful

\* A level of a match.
LEMMA LevelLawful ==
    ASSUME StepInv, NEW p \in Prices, TakeLevel(p) \/ MakeLevel(p)
    PROVE  Lawful /\ SameOrders
<1>1. phase \in {"take", "make"} /\ TypeOK
  BY DEF StepInv, TakeLevel, MakeLevel
<1>2. PICK o, t, s :
          o \in DOMAIN orders /\ o = walk.order /\ t = orders[o].token /\ s = orders[o].side /\ Live(o)
  BY <1>1 DEF StepInv, WalkKnown, Live, LiveStates
<1>3. orders[o].price \in Prices
  BY <1>1, <1>2, OrderType
<1>4. ASSUME NEW n \in Nat, NEW price \in Prices, NEW maker \in BOOLEAN,
             RecordFill(n, p, price, maker)
      PROVE  Lawful /\ SameOrders
  <2>1. Sets(o, orders[o].state, orders[o].filled + n, orders[o].cancelAt)
    BY <1>1, <1>2, <1>4, RecordFillEffect
  <2> QED
    BY <1>1, <1>2, <2>1, OneLawful
<1>5. CASE TakeLevel(p)
  BY <1>4, <1>5, TakeLevelEffect
<1>6. CASE MakeLevel(p)
  BY <1>1, <1>2, <1>3, <1>4, <1>6, MakeLevelEffect, UnchangedIsQuiet, QuietLawful
<1> QED
  BY <1>5, <1>6

LEMMA AdvanceLawful ==
    ASSUME StepInv, Advance
    PROVE  Lawful /\ SameOrders
<1>1. ASSUME NEW o \in DOMAIN orders, ApplyCancel(o) PROVE Lawful /\ SameOrders
  BY <1>1, ApplyCancelKeeps, OneLawful DEF ApplyCancel
<1>2. ASSUME NEW o \in Admissible, phase = "admit", NEW st \in TerminalStates, End(o, st),
             UNCHANGED <<working, bookVars, callVars, produced>>
      PROVE  Lawful /\ SameOrders
  <2>1. Live(o)
    BY DEF Admissible, Live, LiveStates
  <2> QED
    BY <1>2, <2>1, EndKeeps, OneLawful DEF TerminalStates
<1>3. ASSUME NEW o \in DOMAIN orders, AdmitRejects(o) PROVE Lawful /\ SameOrders
  BY <1>2, <1>3 DEF AdmitRejects, NextAdmitted, TerminalStates
<1>4. ASSUME NEW o \in DOMAIN orders, AdmitExpires(o) PROVE Lawful /\ SameOrders
  BY <1>2, <1>4 DEF AdmitExpires, NextAdmitted, TerminalStates
<1>5. ASSUME NEW o \in DOMAIN orders, AdmitTakes(o) PROVE Lawful /\ SameOrders
  BY <1>5, AdmitTakesKeeps, QuietLawful
<1>6. ASSUME NEW o \in DOMAIN orders, AdmitRests(o) PROVE Lawful /\ SameOrders
  <2>1. Live(o) /\ orders[o].received <= now
    BY <1>6 DEF AdmitRests, NextAdmitted, Admissible, Live, LiveStates
  <2> QED
    BY <1>6, <2>1, AdmitRestsKeeps, OneLawful
<1>7. CASE RefreshBook
  BY <1>7, RefreshBookKeeps, QuietLawful
<1>8. ASSUME NEW p \in Prices, TakeLevel(p) \/ MakeLevel(p) PROVE Lawful /\ SameOrders
  BY <1>8, LevelLawful
<1>9. CASE FinishTake
  <2>1. PICK o \in DOMAIN orders : o = walk.order
    BY <1>9, FinishTakeKeeps
  <2>2. Live(o) /\ phase = "take"
    BY <1>9, <2>1 DEF FinishTake, StepInv, WalkKnown, Live, LiveStates
  <2>3. PICK st : Sets(o, st, orders[o].filled, orders[o].cancelAt) /\ st # "pending_submit"
    BY <1>9, <2>1, FinishTakeKeeps
  <2> QED
    BY <2>1, <2>2, <2>3, OneLawful
<1>10. CASE BeginMatch
  BY <1>10, BeginMatchKeeps, QuietLawful
<1>11. CASE StartMake
  BY <1>11, StartMakeKeeps, QuietLawful
<1>12. CASE FinishMake
  <2>1. PICK o \in DOMAIN orders : o = walk.order
    BY <1>12, FinishMakeKeeps
  <2>2. Live(o)
    BY <1>12, <2>1 DEF FinishMake, StepInv, WalkKnown, Live, LiveStates
  <2> QED
    BY <1>12, <2>1, <2>2, FinishMakeKeeps, OneLawful, QuietLawful
<1> QED
  BY <1>1, <1>3, <1>4, <1>5, <1>6, <1>7, <1>8, <1>9, <1>10, <1>11, <1>12 DEF Advance

LEMMA NextLawful ==
    ASSUME StepInv, [Next]_vars
    PROVE  Lawful
<1>0. TypeOK
  BY DEF StepInv
<1>1. ASSUME NEW r \in Requests, Submit(r) PROVE Lawful
  <2>1. r \in Request /\ now \in Nat
    BY <1>0, EngineAssumption DEF TypeOK
  <2>2. PICK e \in Order : orders' = Append(orders, e)
    BY <1>0, <1>1, <2>1, SubmitEffect DEF Submit
  <2>3. \A x \in DOMAIN orders : x \in DOMAIN orders' /\ orders'[x] = orders[x]
    BY <1>0, <2>2, MoreOrders DEF TypeOK
  <2> QED
    BY <2>3 DEF Lawful, Kept
<1>2. ASSUME NEW o \in DOMAIN orders, Cancel(o) PROVE Lawful
  BY <1>2, CancelKeeps, OneLawful DEF Cancel
<1>3. CASE Advance
  BY <1>3, AdvanceLawful
<1>4. CASE UNCHANGED orders
  BY <1>0, <1>4, UnchangedIsQuiet, QuietLawful
<1> QED
  BY <1>1, <1>2, <1>3, <1>4 DEF Next, BeginAdvance, EndAdvance, vars

\* An order that has ended keeps its state and its fills, although its cancel may
\* still be on the way (_terminate, _apply_cancel).
THEOREM EndedOrdersStay == Spec => EndedStaysEnded
<1>1. StepInv /\ [Next]_vars =>
        [\A o \in DOMAIN orders :
            ~Live(o) => /\ orders'[o].state = orders[o].state
                        /\ orders'[o].filled = orders[o].filled]_vars
  BY NextLawful DEF Lawful
<1> QED
  BY <1>1, EngineStep, PTL DEF Spec, EndedStaysEnded

(***************************************************************************)
(* Limits.                                                                 *)
(***************************************************************************)

FillsKnown == \A i \in DOMAIN produced : produced[i].order \in DOMAIN orders
LimitInv == StepInv /\ FillsKnown /\ LimitRespected

\* The fills stay, or are dropped: the limits of their orders stay.
LEMMA LimitStays ==
    ASSUME LimitInv, Lawful, UNCHANGED produced \/ produced' = <<>>
    PROVE  FillsKnown' /\ LimitRespected'
<1>1. \A i \in DOMAIN produced' : i \in DOMAIN produced /\ produced'[i] = produced[i]
  OBVIOUS
<1> QED
  BY <1>1 DEF LimitInv, FillsKnown, LimitRespected, Lawful, Kept

\* One more fill, at a price the order accepts.
LEMMA LimitGrows ==
    ASSUME LimitInv, Lawful, NEW o \in DOMAIN orders, NEW price \in Prices,
           NEW n \in Nat, NEW maker \in BOOLEAN,
           produced' = Append(produced, [order |-> o, price |-> price, size |-> n, maker |-> maker]),
           price \in Reach(orders[o].side, orders[o].price)
    PROVE  FillsKnown' /\ LimitRespected'
<1>0. PICK f \in Fill : f = [order |-> o, price |-> price, size |-> n, maker |-> maker]
  <2>1. DOMAIN orders = 1 .. Len(orders) /\ Len(orders) \in Nat
    BY LenProperties DEF LimitInv, StepInv, TypeOK
  <2> QED
    BY <2>1 DEF Fill
<1>1. produced \in Seq(Fill) /\ f.order = o /\ f.price = price
  BY <1>0 DEF LimitInv, StepInv, TypeOK
<1>2. /\ produced' \in Seq(Fill) /\ Len(produced') = Len(produced) + 1
      /\ produced'[Len(produced) + 1] = f
      /\ \A i \in 1 .. Len(produced) : produced'[i] = produced[i]
  BY <1>0, <1>1, AppendProperties
<1>3. /\ Len(produced) \in Nat /\ DOMAIN produced = 1 .. Len(produced)
      /\ DOMAIN produced' = 1 .. Len(produced) + 1
  BY <1>1, <1>2, LenProperties
<1>4. ASSUME NEW i \in DOMAIN produced'
      PROVE  (i \in DOMAIN produced /\ produced'[i] = produced[i]) \/ produced'[i] = f
  BY <1>2, <1>3
<1>5. \A i \in DOMAIN produced' :
          /\ produced'[i].order \in DOMAIN orders
          /\ IF orders[produced'[i].order].side = "BUY"
             THEN produced'[i].price <= orders[produced'[i].order].price
             ELSE produced'[i].price >= orders[produced'[i].order].price
  BY <1>1, <1>4 DEF LimitInv, FillsKnown, LimitRespected, Reach
<1> QED
  BY <1>5 DEF FillsKnown, LimitRespected, Lawful, Kept

\* A level of a match is at a price the order accepts, and so is the order's own.
LEMMA LevelLimits ==
    ASSUME LimitInv, Lawful, NEW p \in Prices, TakeLevel(p) \/ MakeLevel(p)
    PROVE  FillsKnown' /\ LimitRespected'
<1>0. StepInv /\ TypeOK
  BY DEF LimitInv, StepInv
<1>1. PICK o, t, s : o \in DOMAIN orders /\ o = walk.order /\ t = orders[o].token /\ s = orders[o].side
  BY <1>0 DEF StepInv, WalkKnown, TakeLevel, MakeLevel
<1>2. p \in Reach(orders[o].side, orders[o].price)
  BY <1>1 DEF TakeLevel, MakeLevel, BestUnvisited, Unvisited
<1>3. orders[o].price \in Prices /\ orders[o].price \in Reach(orders[o].side, orders[o].price)
  <2>1. orders[o].price \in Prices
    BY <1>0, <1>1, OrderType
  <2> QED
    BY <2>1 DEF Reach, Prices
<1>4. ASSUME NEW n \in Nat, NEW price \in Reach(orders[o].side, orders[o].price),
             NEW maker \in BOOLEAN, RecordFill(n, p, price, maker)
      PROVE  FillsKnown' /\ LimitRespected'
  <2>1. price \in Prices
    BY DEF Reach
  <2>2. produced' = Append(produced, [order |-> o, price |-> price, size |-> n, maker |-> maker])
    BY <1>1, <1>4 DEF RecordFill
  <2> QED
    BY <1>0, <1>1, <2>1, <2>2, LimitGrows
<1>5. CASE TakeLevel(p)
  BY <1>0, <1>2, <1>4, <1>5, TakeLevelEffect
<1>6. CASE MakeLevel(p)
  BY <1>0, <1>1, <1>3, <1>4, <1>6, MakeLevelEffect, LimitStays
<1> QED
  BY <1>5, <1>6

\* One iteration of the loops of advance_to keeps the limits.
LEMMA AdvanceLimits ==
    ASSUME LimitInv, Advance
    PROVE  FillsKnown' /\ LimitRespected'
<1>0. Lawful
  BY AdvanceLawful DEF LimitInv
<1>1. ASSUME NEW p \in Prices, TakeLevel(p) \/ MakeLevel(p) PROVE FillsKnown' /\ LimitRespected'
  BY <1>0, <1>1, LevelLimits
<1>2. CASE UNCHANGED produced
  BY <1>0, <1>2, LimitStays
<1> QED
  BY <1>1, <1>2 DEF Advance, ApplyCancel, RefreshBook, AdmitRejects, AdmitTakes, AdmitExpires,
     AdmitRests, FinishTake, BeginMatch, StartMake, FinishMake

\* No order trades at a price worse than its limit, as taker or at rest, on any
\* book (_consume_levels, _try_match_resting).
THEOREM LimitsRespected == Spec => []LimitRespected
<1>1. Init => LimitInv
  BY InitStep DEF Init, LimitInv, FillsKnown, LimitRespected
<1>2. LimitInv /\ [Next]_vars => LimitInv'
  <2> SUFFICES ASSUME LimitInv, [Next]_vars PROVE FillsKnown' /\ LimitRespected'
    BY NextKeeps DEF LimitInv
  <2>0. Lawful /\ StepInv /\ TypeOK
    BY NextLawful DEF LimitInv, StepInv
  <2>1. CASE Advance
    BY <2>1, AdvanceLimits
  <2>2. CASE UNCHANGED produced \/ produced' = <<>>
    BY <2>0, <2>2, LimitStays
  <2> QED
    BY <2>1, <2>2 DEF Next, vars, Submit, Cancel, BeginAdvance, EndAdvance
<1>3. LimitInv => LimitRespected
  BY DEF LimitInv
<1> QED
  BY <1>1, <1>2, <1>3, PTL DEF Spec

(***************************************************************************)
(* The lifetime of an order at the venue.                                  *)
(***************************************************************************)

\* While orders are matched no cancel is due.
NothingDue ==
    phase \notin {"idle", "cancel"} =>
        \A o \in DOMAIN orders : orders[o].cancelAt # NoCancel => now < orders[o].cancelAt

\* The orders at rest, and the one being matched, have reached the venue.
Arrived ==
    /\ \A o \in DOMAIN orders : orders[o].state \in {"working", "partial"} => orders[o].received <= now
    /\ phase = "take" => orders[walk.order].received <= now

LifetimeInv == StepInv /\ NothingDue /\ Arrived

\* Time stands still while the loops of advance_to run.
LEMMA LifetimeAdvances ==
    ASSUME LifetimeInv, Advance
    PROVE  NothingDue' /\ Arrived'
<1>0. Lawful /\ SameOrders /\ UNCHANGED now
  BY AdvanceLawful DEF LifetimeInv, Advance, ApplyCancel, RefreshBook, AdmitRejects, AdmitTakes,
     AdmitExpires, AdmitRests, TakeLevel, MakeLevel, FinishTake, BeginMatch, StartMake, FinishMake,
     bookVars
<1>1. NothingDue'
  <2>1. CASE RefreshBook
    <3>1. DueCancels = {} /\ Quiet /\ TypeOK
      BY <2>1, RefreshBookKeeps DEF RefreshBook, LifetimeInv, StepInv
    <3>2. \A o \in DOMAIN orders : orders[o].cancelAt \in Nat \cup {NoCancel} /\ now \in Nat
      BY <3>1, OrderType DEF TypeOK
    <3>3. \A o \in DOMAIN orders : orders[o].cancelAt # NoCancel => now < orders[o].cancelAt
      BY <3>1, <3>2 DEF DueCancels, NoCancel
    <3> QED
      BY <1>0, <3>1, <3>3 DEF NothingDue, Quiet, Still, SameOrders
  <2>2. CASE phase \notin {"idle", "cancel"}
    BY <1>0, <2>2 DEF NothingDue, LifetimeInv, Lawful, SameOrders
  <2>3. CASE phase' \in {"idle", "cancel"}
    BY <2>3 DEF NothingDue
  <2> QED
    BY <2>1, <2>2, <2>3 DEF Advance, ApplyCancel, RefreshBook, AdmitRejects, AdmitTakes,
       AdmitExpires, AdmitRests, TakeLevel, MakeLevel, FinishTake, BeginMatch, StartMake, FinishMake,
       callVars
<1>2. \A o \in DOMAIN orders' :
          orders'[o].state \in {"working", "partial"} => orders'[o].received <= now'
  BY <1>0 DEF LifetimeInv, Arrived, Lawful, SameOrders, Kept
<1>3. phase' = "take" => orders'[walk'.order].received <= now'
  <2>1. ASSUME NEW o \in DOMAIN orders, AdmitTakes(o) PROVE orders'[walk'.order].received <= now'
    BY <1>0, <2>1 DEF AdmitTakes, NextAdmitted, Admissible, StartWalk
  <2>2. ASSUME NEW p \in Prices, TakeLevel(p) PROVE orders'[walk'.order].received <= now'
    <3>1. walk'.order = walk.order /\ walk.order \in DOMAIN orders /\ phase = "take"
      BY <2>2, VisitedEffect DEF TakeLevel, LifetimeInv, StepInv, WalkKnown
    <3> QED
      BY <1>0, <3>1 DEF LifetimeInv, Arrived, Lawful, Kept
  <2> QED
    BY <2>1, <2>2 DEF Advance, ApplyCancel, RefreshBook, AdmitRejects,
       AdmitExpires, AdmitRests, MakeLevel, FinishTake, BeginMatch, StartMake, StartWalk, FinishMake,
       callVars
<1> QED
  BY <1>1, <1>2, <1>3 DEF Arrived

\* Fills happen only between the arrival of an order and the moment its cancel
\* takes effect, whatever the latencies (advance_to applies due cancels first).
THEOREM FillsWithinLifetime == Spec => FillsInsideLifetime
<1>1. Init => LifetimeInv
  <2> SUFFICES ASSUME Init PROVE NothingDue /\ Arrived
    BY InitStep DEF LifetimeInv
  <2> QED
    BY DEF Init, NothingDue, Arrived
<1>2. LifetimeInv /\ [Next]_vars => LifetimeInv'
  <2> SUFFICES ASSUME LifetimeInv, [Next]_vars PROVE NothingDue' /\ Arrived'
    BY NextKeeps DEF LifetimeInv
  <2>0. Lawful /\ StepInv /\ TypeOK
    BY NextLawful DEF LifetimeInv, StepInv
  <2>1. ASSUME NEW r \in Requests, Submit(r) PROVE NothingDue' /\ Arrived'
    <3>1. r \in Request /\ now \in Nat
      BY <2>0, EngineAssumption DEF TypeOK
    <3>2. PICK e \in Order : /\ e.state \in {"pending_submit", "rejected"}
                             /\ orders' = Append(orders, e)
      BY <2>0, <2>1, <3>1, SubmitEffect DEF Submit
    <3>3. /\ DOMAIN orders' = DOMAIN orders \cup {Len(orders) + 1}
          /\ orders'[Len(orders) + 1] = e /\ \A x \in DOMAIN orders : orders'[x] = orders[x]
      BY <2>0, <3>2, MoreOrders DEF TypeOK
    <3>4. phase' = "idle" /\ UNCHANGED now
      BY <2>1 DEF Submit, callVars, bookVars
    <3> QED
      BY <3>2, <3>3, <3>4 DEF LifetimeInv, NothingDue, Arrived
  <2>2. ASSUME NEW o \in DOMAIN orders, Cancel(o) PROVE NothingDue' /\ Arrived'
    <3>1. PICK c \in Nat : Sets(o, orders[o].state, orders[o].filled, c)
      BY <2>0, <2>2, CancelKeeps
    <3>2. phase' = "idle" /\ UNCHANGED now
      BY <2>2 DEF Cancel, callVars, bookVars
    <3> QED
      BY <3>1, <3>2 DEF LifetimeInv, NothingDue, Arrived, Sets, SameOrders, Still, Kept
  <2>3. ASSUME NEW t \in Tokens, NEW b \in Snapshots, NEW gap \in Gaps, BeginAdvance(t, b, gap)
        PROVE  NothingDue' /\ Arrived'
    <3>1. gap \in Nat /\ now \in Nat /\ now' = now + gap /\ phase' = "cancel" /\ UNCHANGED orders
      BY <2>0, <2>3, EngineAssumption DEF BeginAdvance, TypeOK
    <3>2. \A o \in DOMAIN orders : orders[o].received \in Nat
      BY <2>0, OrderType
    <3> QED
      BY <3>1, <3>2 DEF LifetimeInv, NothingDue, Arrived
  <2>4. CASE Advance
    BY <2>4, LifetimeAdvances
  <2>5. CASE EndAdvance
    BY <2>5 DEF EndAdvance, bookVars, LifetimeInv, NothingDue, Arrived
  <2>6. CASE UNCHANGED vars
    BY <2>6 DEF vars, LifetimeInv, NothingDue, Arrived
  <2> QED
    BY <2>1, <2>2, <2>3, <2>4, <2>5, <2>6 DEF Next
<1>3. LifetimeInv /\ [Next]_vars =>
        [\A o \in DOMAIN orders :
            orders'[o].filled > orders[o].filled =>
                /\ orders[o].received <= now
                /\ orders[o].cancelAt # NoCancel => now < orders[o].cancelAt]_vars
  <2> SUFFICES ASSUME LifetimeInv, [Next]_vars, NEW o \in DOMAIN orders,
                      orders'[o].filled > orders[o].filled
               PROVE  /\ orders[o].received <= now
                      /\ orders[o].cancelAt # NoCancel => now < orders[o].cancelAt
    OBVIOUS
  <2>1. Lawful /\ StepInv /\ orders[o].filled \in Nat
    BY NextLawful, OrderType DEF LifetimeInv, StepInv
  <2>2. phase \in {"take", "make"} /\ o = walk.order
    BY <2>1 DEF Lawful
  <2> QED
    BY <2>1, <2>2 DEF LifetimeInv, NothingDue, Arrived, StepInv, WalkKnown
<1> QED
  BY <1>1, <1>2, <1>3, PTL DEF Spec, FillsInsideLifetime

(***************************************************************************)
(* The liquidity takers share.                                             *)
(***************************************************************************)

\* Until the orders at rest are matched, the consumption booked at a level is
\* what was drawn from it, and at most what the snapshot showed there.
BookedIsDrawn ==
    phase \in {"admit", "take"} =>
        \A s \in Sides, p \in Prices :
            /\ drawn[at.token][s][p] = used[at.token][s][p]
            /\ used[at.token][s][p] <= shown[at.token][s][p]

\* What a taker has still to visit is left.
WalkIsLeft ==
    phase = "take" =>
        \A p \in Prices :
            LET s == orders[walk.order].side
            IN  walk.levels[p] <= shown[at.token][s][p] - used[at.token][s][p]

LiquidityInv == StepInv /\ BookedIsDrawn /\ WalkIsLeft

\* One level of a taker.
LEMMA TakeShares ==
    ASSUME LiquidityInv, NEW p \in Prices, TakeLevel(p)
    PROVE  BookedIsDrawn' /\ WalkIsLeft'
<1>0. StepInv /\ TypeOK /\ phase = "take" /\ Visited(p) /\ UNCHANGED <<shown, phase, at>>
  BY DEF LiquidityInv, StepInv, TakeLevel
<1>1. PICK o \in DOMAIN orders, t \in Tokens, s \in Sides :
          o = walk.order /\ t = orders[o].token /\ s = orders[o].side /\ t = at.token
  BY <1>0, OrderType DEF StepInv, WalkKnown
<1>2. PICK n \in Nat : n <= walk.levels[p] /\ RecordFill(n, p, p, FALSE)
  BY <1>0, TakeLevelEffect
<1>3. /\ Sets(o, orders[o].state, orders[o].filled + n, orders[o].cancelAt)
      /\ Booked(used', used, t, s, p, n) /\ Booked(drawn', drawn, t, s, p, n)
  BY <1>0, <1>1, <1>2, RecordFillEffect
<1>4. PICK b \in Books : b = shown[t]
  BY <1>0, <1>1 DEF StepInv, SnapshotKnown
<1>5. used \in [Tokens -> Books] /\ drawn \in [Tokens -> Books]
  BY <1>0 DEF TypeOK
<1>6. \A y \in Sides, z \in Prices :
         b[y][z] \in Nat /\ used[t][y][z] \in Nat /\ drawn[t][y][z] \in Nat
  BY <1>5 DEF Books, Levels
<1>7. /\ walk'.order = o /\ walk.levels[p] \in Nat
      /\ walk'.levels[p] = 0 /\ \A q \in Prices : q # p => walk'.levels[q] = walk.levels[q]
  BY <1>0, <1>1, VisitedEffect DEF TypeOK, Levels
<1>8. orders'[o].side = s
  BY <1>1, <1>3 DEF Sets, Kept
<1>9. \A z \in Prices : walk.levels[z] <= b[s][z] - used[t][s][z]
  BY <1>0, <1>1, <1>4 DEF LiquidityInv, WalkIsLeft
<1>10. ASSUME NEW y \in Sides, NEW z \in Prices
       PROVE  drawn'[t][y][z] = used'[t][y][z] /\ used'[t][y][z] <= b[y][z]
  <2>1. drawn[t][y][z] = used[t][y][z] /\ used[t][y][z] <= b[y][z]
    BY <1>0, <1>1, <1>4 DEF LiquidityInv, BookedIsDrawn
  <2>2. CASE y = s /\ z = p
    <3>1. used'[t][s][p] = used[t][s][p] + n /\ drawn'[t][s][p] = drawn[t][s][p] + n
      BY <1>3 DEF Booked
    <3> QED
      BY <1>2, <1>6, <1>7, <1>9, <2>1, <2>2, <3>1
  <2>3. CASE ~(y = s /\ z = p)
    BY <1>3, <2>1, <2>3 DEF Booked
  <2> QED
    BY <2>2, <2>3
<1>11. ASSUME NEW z \in Prices PROVE walk'.levels[z] <= b[s][z] - used'[t][s][z]
  <2>1. CASE z = p
    <3>1. used'[t][s][p] <= b[s][p] /\ used'[t][s][p] \in Nat
      BY <1>10, <1>3 DEF Booked, Books, Levels
    <3> QED
      BY <1>6, <1>7, <2>1, <3>1
  <2>2. CASE z # p
    BY <1>3, <1>7, <1>9, <2>2 DEF Booked
  <2> QED
    BY <2>1, <2>2
<1>12. BookedIsDrawn'
  BY <1>0, <1>1, <1>4, <1>10 DEF BookedIsDrawn
<1>13. WalkIsLeft'
  BY <1>0, <1>1, <1>4, <1>7, <1>8, <1>11 DEF WalkIsLeft
<1> QED
  BY <1>12, <1>13

\* Takers together never draw more from a level than the snapshot showed there,
\* however many of them a snapshot admits (_ResidualBook).
THEOREM TakersShare == Spec => []TakersShareLiquidity
<1>1. Init => LiquidityInv
  <2> SUFFICES ASSUME Init PROVE BookedIsDrawn /\ WalkIsLeft
    BY InitStep DEF LiquidityInv
  <2> QED
    BY DEF Init, BookedIsDrawn, WalkIsLeft
<1>2. LiquidityInv /\ [Next]_vars => LiquidityInv'
  <2> SUFFICES ASSUME LiquidityInv, [Next]_vars PROVE BookedIsDrawn' /\ WalkIsLeft'
    BY NextKeeps DEF LiquidityInv
  <2>0. StepInv /\ TypeOK
    BY DEF LiquidityInv, StepInv
  <2>1. CASE RefreshBook
    <3>1. PICK t \in Tokens, b \in Books : t = at.token /\ b = at.book
      BY <2>0, <2>1 DEF RefreshBook, StepInv, SnapshotKnown
    <3>2. /\ shown'[t] = b /\ used'[t] = Zero /\ drawn'[t] = Zero /\ at' = at /\ phase' = "admit"
      BY <2>0, <2>1, <3>1 DEF RefreshBook, TypeOK
    <3>3. \A s \in Sides, p \in Prices : Zero[s][p] = 0 /\ b[s][p] \in Nat
      BY DEF Zero, Books, Levels
    <3> QED
      BY <3>1, <3>2, <3>3 DEF BookedIsDrawn, WalkIsLeft
  <2>2. ASSUME NEW o \in DOMAIN orders, AdmitTakes(o) PROVE BookedIsDrawn' /\ WalkIsLeft'
    <3>1. /\ phase = "admit" /\ phase' = "take" /\ UNCHANGED <<orders, shown, used, drawn, at>>
          /\ walk' = [order |-> o, levels |-> Left(at.token, orders[o].side), cap |-> orders[o].size]
      BY <2>2 DEF AdmitTakes, StartWalk, bookVars
    <3>2. BookedIsDrawn'
      BY <3>1 DEF LiquidityInv, BookedIsDrawn
    <3>3. PICK t \in Tokens, s \in Sides, b \in Books :
              t = at.token /\ s = orders[o].side /\ b = shown[t]
      BY <2>0, <3>1, OrderType DEF StepInv, SnapshotKnown
    <3>4. \A p \in Prices : used[t][s][p] \in Nat /\ b[s][p] \in Nat /\ used[t][s][p] <= b[s][p]
      BY <2>0, <3>1, <3>3 DEF TypeOK, Books, Levels, LiquidityInv, BookedIsDrawn
    <3>5. \A p \in Prices : walk'.levels[p] =
              IF used[t][s][p] < b[s][p] THEN b[s][p] - used[t][s][p] ELSE 0
      BY <3>1, <3>3 DEF Left
    <3>6. \A p \in Prices : walk'.levels[p] <= b[s][p] - used[t][s][p]
      BY <3>4, <3>5
    <3> QED
      BY <3>1, <3>2, <3>3, <3>6 DEF WalkIsLeft
  <2>3. ASSUME NEW p \in Prices, TakeLevel(p) PROVE BookedIsDrawn' /\ WalkIsLeft'
    BY <2>3, TakeShares
  <2>4. CASE /\ UNCHANGED <<shown, used, drawn, at>>
             /\ phase \in {"admit", "take"} /\ phase' = "admit"
    BY <2>4 DEF LiquidityInv, BookedIsDrawn, WalkIsLeft
  <2>5. CASE phase' \notin {"admit", "take"}
    BY <2>5 DEF BookedIsDrawn, WalkIsLeft
  <2>6. CASE UNCHANGED vars
    BY <2>6 DEF vars, LiquidityInv, BookedIsDrawn, WalkIsLeft
  <2> QED
    BY <2>1, <2>2, <2>3, <2>4, <2>5, <2>6 DEF Next, Advance, Submit, Cancel, BeginAdvance,
       EndAdvance, ApplyCancel, AdmitRejects, AdmitExpires, AdmitRests, MakeLevel, FinishTake,
       BeginMatch, StartMake, StartWalk, FinishMake, callVars, bookVars
<1>3. LiquidityInv => TakersShareLiquidity
  BY DEF LiquidityInv, BookedIsDrawn, TakersShareLiquidity
<1> QED
  BY <1>1, <1>2, <1>3, PTL DEF Spec
=============================================================================

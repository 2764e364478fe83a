--------------------------- MODULE MatchingEngine ---------------------------
(***************************************************************************)
(* The order book aware matching engine of the backtester,                 *)
(* services/backtest/matching_engine.py, with the static order rules of    *)
(* venue_model.py and the queue formula of optimization/queue_ahead.py.    *)
(*                                                                         *)
(* `advance_to` is one call, but it loops over cancels, admitted orders,   *)
(* working orders and price levels.  Each iteration is an action here, in  *)
(* the order of the code, and `phase` says which loop runs.  The caller    *)
(* (a client of this module, or the module that composes it) acts between  *)
(* two calls only, when the phase is "idle".                               *)
(*                                                                         *)
(* Prices are ticks, requested prices half ticks, and a queue position is  *)
(* counted in hundredths of a share, so that the 0.65 of the queue formula *)
(* and the traded fraction stay exact.  FAK takes the branches of IOC and  *)
(* GTD those of GTC.  The price impact is off, as it is by default.        *)
(***************************************************************************)
EXTENDS Integers, Sequences, FiniteSets, SequencesExt

CONSTANTS
    Tokens,        \* token ids
    MaxPrice,      \* the highest price, in ticks
    Requests,      \* what a caller may submit
    Snapshots,     \* what a book may look like
    Gaps,          \* times between two snapshots
    Latencies,     \* submit and cancel latencies that may be drawn
    MinNotional,   \* OrderRule.min_notional_usd, in ticks times shares
    TradePercent,  \* queue_progress_trade_fraction, in percent
    FillModel,     \* a fill probability model is loaded
    MaxOrders,     \* bound: orders of a run
    MaxTime        \* bound: the simulated clock

Sides == {"BUY", "SELL"}
Prices == 1 .. MaxPrice
Tifs == {"GTC", "IOC", "FOK"}
Levels == [Prices -> Nat]

\* A BookSnapshot, by the side of the taker that meets its levels: the asks
\* are under "BUY" and the bids under "SELL".
Books == [Sides -> Levels]

\* The arguments of BacktestOrder; raw is a price in half ticks.
Request == [token : Tokens, side : Sides, raw : Nat, size : Nat,
            tif : Tifs, postOnly : BOOLEAN]

ASSUME EngineAssumption ==
    /\ IsFiniteSet(Tokens)
    /\ MaxPrice \in Nat \ {0} /\ MinNotional \in Nat /\ TradePercent \in 0 .. 100
    /\ MaxOrders \in Nat /\ MaxTime \in Nat
    /\ Gaps \subseteq Nat /\ Latencies \subseteq Nat /\ FillModel \in BOOLEAN
    /\ Requests \subseteq Request /\ Snapshots \subseteq Books

VARIABLES
    orders,    \* _orders, in the order of their submission
    working,   \* _working_by_token
    active,    \* _active_count_by_token; 0 for a missing key
    shown,     \* the snapshot of _books[token], or None
    used,      \* consumed_asks and consumed_bids of _books[token]
    now,       \* _now; 0 before the first snapshot
    phase,     \* the loop of advance_to that runs
    at,        \* the token and the book of the snapshot being processed
    todo,      \* the working orders the last loop has still to visit
    walk,      \* the order being matched and the levels it has still to visit
    produced,  \* the fills of this advance_to
    drawn      \* history: what orders have taken from each shown level

None == <<>>
NoCancel == -1
callVars == <<phase, at, todo, walk>>
bookVars == <<shown, used, now, drawn>>
vars == <<orders, working, active, shown, used, now, phase, at, todo, walk,
          produced, drawn>>

Opposite(side) == IF side = "BUY" THEN "SELL" ELSE "BUY"
Zero == [s \in Sides |-> [p \in Prices |-> 0]]
NoWalk == [order |-> 0, levels |-> [p \in Prices |-> 0], cap |-> 0]

Init ==
    /\ orders = <<>>
    /\ working = [t \in Tokens |-> <<>>]
    /\ active = [t \in Tokens |-> 0]
    /\ shown = [t \in Tokens |-> None]
    /\ used = [t \in Tokens |-> Zero]
    /\ now = 0
    /\ phase = "idle" /\ at = None /\ todo = <<>> /\ walk = NoWalk
    /\ produced = <<>>
    /\ drawn = [t \in Tokens |-> Zero]

LiveStates == {"pending_submit", "working", "partial"}
TerminalStates == {"filled", "cancelled", "rejected"}

Live(o) == orders[o].state \in LiveStates
Remaining(o) == orders[o].size - orders[o].filled
HasActiveOrders(t) == active[t] > 0

(***************************************************************************)
(* The venue's rules.                                                      *)
(***************************************************************************)

\* Mutant: no clamp to the venue's price range.
RoundPriceUnclamped(side, raw) == IF side = "BUY" THEN (raw + 1) \div 2 ELSE raw \div 2

\* A buy is rounded up to the tick and a sell down, then clamped.
RoundPrice(side, raw) ==
    LET tick == IF side = "BUY" THEN (raw + 1) \div 2 ELSE raw \div 2
    IN  IF tick < 1 THEN 1 ELSE IF tick > MaxPrice THEN MaxPrice ELSE tick

ValidateSubmit(r) ==
    /\ r.postOnly => r.tif = "GTC"
    /\ r.size > 0 /\ r.raw > 0
    /\ RoundPrice(r.side, r.raw) * r.size >= MinNotional

\* Mutant: the walk also takes the first level beyond the limit.
ReachPastLimit(side, limit) ==
    {p \in Prices : IF side = "BUY" THEN p <= limit + 1 ELSE p + 1 >= limit}

\* The prices an order with this limit may trade at.
Reach(side, limit) == {p \in Prices : IF side = "BUY" THEN p <= limit ELSE p >= limit}

\* is_marketable and crosses_book look at the snapshot, not at what is left of it.
Marketable(side, limit, book) == \E p \in Reach(side, limit) : book[side][p] > 0

(***************************************************************************)
(* The residual book and the queue position.                               *)
(***************************************************************************)

Depth(levels, S) == SumFunctionOnSet(levels, S)

\* remaining_bids and remaining_asks.
Left(t, side) ==
    [p \in Prices |-> IF used[t][side][p] < shown[t][side][p]
                      THEN shown[t][side][p] - used[t][side][p] ELSE 0]

\* Mutant: the depth of the snapshot, consumed or not.
AvailableInSnapshot(t, side, limit) == Depth(shown[t][side], Reach(side, limit))

AvailableForTaker(t, side, limit) == Depth(Left(t, side), Reach(side, limit))

\* Own-side prices that trade before this one.
Better(side, limit) == Reach(Opposite(side), limit) \ {limit}

\* compute_queue_ahead_shares, in hundredths of a share.
QueueAhead(side, limit, book) ==
    LET own == book[Opposite(side)]
    IN  100 * Depth(own, Better(side, limit)) + 65 * own[limit]

\* What the depth that disappeared since the last snapshot adds to the progress
\* of a resting order.
QueueProgress(ord, old, consumed, new) ==
    LET own == Opposite(ord.side)
        ahead == Reach(own, ord.price)
        gone == Depth(old[own], ahead) - Depth(new[own], ahead) - Depth(consumed[own], ahead)
    IN  IF gone > 0 THEN gone * TradePercent ELSE 0

(***************************************************************************)
(* Calls between two snapshots.                                            *)
(***************************************************************************)

NewOrder(r, received) ==
    [token |-> r.token, side |-> r.side, price |-> RoundPrice(r.side, r.raw),
     size |-> r.size, tif |-> r.tif, postOnly |-> r.postOnly,
     state |-> IF ValidateSubmit(r) THEN "pending_submit" ELSE "rejected",
     received |-> received, filled |-> 0, queue |-> 0, cap |-> 0, cancelAt |-> NoCancel]

\* submit: register an order intent of time `sent`.
SubmitOrder(r, sent) ==
    /\ Len(orders) < MaxOrders
    /\ IF ValidateSubmit(r)
       THEN /\ \E ms \in Latencies : orders' = Append(orders, NewOrder(r, sent + ms))
            /\ active' = [active EXCEPT ![r.token] = @ + 1]
       ELSE /\ orders' = Append(orders, NewOrder(r, 0))
            /\ UNCHANGED active

Submit(r) ==
    /\ phase = "idle"
    /\ SubmitOrder(r, now)
    /\ UNCHANGED <<working, bookVars, callVars, produced>>

\* cancel: effective after the cancel latency; a second request changes nothing.
Cancel(o) ==
    /\ phase = "idle"
    /\ Live(o) /\ orders[o].cancelAt = NoCancel
    /\ \E ms \in Latencies : orders' = [orders EXCEPT ![o].cancelAt = now + ms]
    /\ UNCHANGED <<working, active, bookVars, callVars, produced>>

(***************************************************************************)
(* advance_to.                                                             *)
(***************************************************************************)

\* Time moves to the snapshot; a snapshot from the past is refused.
BeginAdvance(t, book, gap) ==
    /\ phase = "idle"
    /\ now + gap <= MaxTime
    /\ now' = now + gap
    /\ phase' = "cancel"
    /\ at' = [token |-> t, book |-> book]
    /\ produced' = <<>>
    /\ UNCHANGED <<orders, working, active, shown, used, drawn, todo, walk>>

\* Mutant: a cancel that is effective at this very moment waits for the next snapshot.
DueCancelsStrict == {o \in DOMAIN orders : orders[o].cancelAt # NoCancel /\ orders[o].cancelAt < now}

\* _pending_cancels whose latency window has elapsed.
DueCancels == {o \in DOMAIN orders : orders[o].cancelAt # NoCancel /\ orders[o].cancelAt <= now}

\* _decrement_active: the key is dropped at zero.
DecrementActive(t) == active' = [active EXCEPT ![t] = IF @ > 1 THEN @ - 1 ELSE 0]

RemoveFromWorking(o) ==
    working' = [working EXCEPT ![orders[o].token] = RemoveFirst(@, o)]

\* Mutant: the cancel overwrites whatever state the order has reached.
ApplyCancelBlindly(o) ==
    /\ phase = "cancel" /\ o \in DueCancels
    /\ orders' = [orders EXCEPT ![o].state = "cancelled", ![o].cancelAt = NoCancel]
    /\ IF Live(o) THEN DecrementActive(orders[o].token) /\ RemoveFromWorking(o)
                  ELSE UNCHANGED <<active, working>>
    /\ UNCHANGED <<bookVars, callVars, produced>>

\* 1. _apply_cancel: an order that has ended meanwhile keeps its state.
ApplyCancel(o) ==
    /\ phase = "cancel" /\ o \in DueCancels
    /\ IF Live(o)
       THEN /\ orders' = [orders EXCEPT ![o].state = "cancelled", ![o].cancelAt = NoCancel]
            /\ DecrementActive(orders[o].token)
            /\ RemoveFromWorking(o)
       ELSE /\ orders' = [orders EXCEPT ![o].cancelAt = NoCancel]
            /\ UNCHANGED <<active, working>>
    /\ UNCHANGED <<bookVars, callVars, produced>>

\* 2. The residual book starts anew; resting orders move up in their queues.
RefreshBook ==
    LET t == at.token
        Advanced(o) ==
            LET step == QueueProgress(orders[o], shown[t], used[t], at.book)
            IN  IF orders[o].queue > step THEN orders[o].queue - step ELSE 0
        resting == {o \in DOMAIN orders :
                       \E i \in DOMAIN working[t] : working[t][i] = o}
    IN  /\ phase = "cancel" /\ DueCancels = {}
        /\ orders' = IF shown[t] = None THEN orders
                     ELSE [o \in DOMAIN orders |->
                              IF o \in resting /\ Live(o)
                              THEN [orders[o] EXCEPT !.queue = Advanced(o)]
                              ELSE orders[o]]
        /\ shown' = [shown EXCEPT ![t] = at.book]
        /\ used' = [used EXCEPT ![t] = Zero]
        /\ drawn' = [drawn EXCEPT ![t] = Zero]
        /\ phase' = "admit"
        /\ UNCHANGED <<working, active, now, at, todo, walk, produced>>

\* Orders the venue has received by now and that have not met the book yet.
Admissible ==
    {o \in DOMAIN orders : /\ orders[o].token = at.token
                           /\ orders[o].state = "pending_submit"
                           /\ orders[o].received <= now}

\* The loops visit orders in the order of their submission.
NextAdmitted(o) == o \in Admissible /\ \A x \in Admissible : o <= x

StartWalk(o, cap, label) ==
    /\ walk' = [order |-> o, levels |-> Left(at.token, orders[o].side), cap |-> cap]
    /\ phase' = label

End(o, state) ==
    /\ orders' = [orders EXCEPT ![o].state = state]
    /\ DecrementActive(orders[o].token)

\* _snapshot_queue_position and _add_to_working.
Rest(o, state) ==
    /\ orders' = [orders EXCEPT
                     ![o].state = state,
                     ![o].queue = QueueAhead(orders[o].side, orders[o].price, shown[at.token])]
    /\ working' = [working EXCEPT ![at.token] = IF Contains(@, o) THEN @ ELSE Append(@, o)]

\* 3. _handle_admit: the venue has received the order.
Crosses(o) == Marketable(orders[o].side, orders[o].price, shown[at.token])
Enough(o) == AvailableForTaker(at.token, orders[o].side, orders[o].price) >= orders[o].size

\* A post-only order that would cross, or a FOK order the book cannot fill.
AdmitRejects(o) ==
    /\ phase = "admit" /\ NextAdmitted(o)
    /\ IF orders[o].tif = "FOK" THEN ~Enough(o) ELSE orders[o].postOnly /\ Crosses(o)
    /\ End(o, "rejected")
    /\ UNCHANGED <<working, bookVars, callVars, produced>>

\* The order takes liquidity: FOK all of its size, the others what there is.
AdmitTakes(o) ==
    /\ phase = "admit" /\ NextAdmitted(o)
    /\ IF orders[o].tif = "FOK" THEN Enough(o) ELSE Crosses(o) /\ ~orders[o].postOnly
    /\ StartWalk(o, orders[o].size, "take")
    /\ UNCHANGED <<orders, working, active, bookVars, at, todo, produced>>

\* Nothing to take: IOC expires.
AdmitExpires(o) ==
    /\ phase = "admit" /\ NextAdmitted(o)
    /\ orders[o].tif = "IOC" /\ ~Crosses(o)
    /\ End(o, "cancelled")
    /\ UNCHANGED <<working, bookVars, callVars, produced>>

\* Nothing to take: GTC rests.
AdmitRests(o) ==
    /\ phase = "admit" /\ NextAdmitted(o)
    /\ orders[o].tif = "GTC" /\ ~Crosses(o)
    /\ Rest(o, "working")
    /\ UNCHANGED <<active, bookVars, callVars, produced>>

\* The best level that the order being matched has still to visit.
Unvisited == LET ord == orders[walk.order]
             IN  {p \in Reach(ord.side, ord.price) : walk.levels[p] > 0}

BestUnvisited(p) ==
    /\ p \in Unvisited
    /\ \A q \in Unvisited : IF orders[walk.order].side = "BUY" THEN p <= q ELSE p >= q

\* A Fill of `size` that the level at `from` supplied, booked at `price`.
RecordFill(size, from, price, maker) ==
    LET o == walk.order
        t == orders[o].token
        s == orders[o].side
    IN  /\ orders' = [orders EXCEPT ![o].filled = @ + size]
        /\ used' = [used EXCEPT ![t][s][price] = @ + size]
        /\ drawn' = [drawn EXCEPT ![t][s][from] = @ + size]
        /\ produced' = Append(produced, [order |-> o, price |-> price, size |-> size,
                                         maker |-> maker])

Visited(p) == walk' = [walk EXCEPT !.levels[p] = 0]

\* Mutant: the consumption is booked at the order's limit.
TakeLevelAtLimit(p) ==
    LET o == walk.order
        take == IF walk.levels[p] < Remaining(o) THEN walk.levels[p] ELSE Remaining(o)
    IN  /\ phase = "take" /\ Remaining(o) > 0 /\ BestUnvisited(p)
        /\ RecordFill(take, p, orders[o].price, FALSE)
        /\ Visited(p)
        /\ UNCHANGED <<working, active, shown, now, phase, at, todo>>

\* _consume_levels, one level.
TakeLevel(p) ==
    LET o == walk.order
        take == IF walk.levels[p] < Remaining(o) THEN walk.levels[p] ELSE Remaining(o)
    IN  /\ phase = "take" /\ Remaining(o) > 0 /\ BestUnvisited(p)
        /\ RecordFill(take, p, p, FALSE)
        /\ Visited(p)
        /\ UNCHANGED <<working, active, shown, now, phase, at, todo>>

\* Mutant: the remainder of an IOC order is cancelled without _terminate.
FinishTakeUncounted ==
    LET o == walk.order
    IN  /\ phase = "take"
        /\ Remaining(o) = 0 \/ Unvisited = {}
        /\ IF orders[o].tif = "GTC" /\ Remaining(o) > 0
           THEN Rest(o, "partial") /\ UNCHANGED active
           ELSE /\ IF Remaining(o) = 0 THEN End(o, "filled")
                   ELSE orders' = [orders EXCEPT ![o].state = "cancelled"] /\ UNCHANGED active
                /\ UNCHANGED working
        /\ phase' = "admit" /\ walk' = NoWalk
        /\ UNCHANGED <<bookVars, at, todo, produced>>

\* _handle_admit after the matching.
FinishTake ==
    LET o == walk.order
    IN  /\ phase = "take"
        /\ Remaining(o) = 0 \/ Unvisited = {}
        /\ IF orders[o].tif = "GTC" /\ Remaining(o) > 0
           THEN Rest(o, "partial") /\ UNCHANGED active
           ELSE /\ End(o, IF orders[o].tif = "IOC" /\ Remaining(o) > 0
                          THEN "cancelled" ELSE "filled")
                /\ UNCHANGED working
        /\ phase' = "admit" /\ walk' = NoWalk
        /\ UNCHANGED <<bookVars, at, todo, produced>>

\* 4. The working orders of the token, as they are after the admissions.
BeginMatch ==
    /\ phase = "admit" /\ Admissible = {}
    /\ phase' = "match"
    /\ todo' = working[at.token]
    /\ UNCHANGED <<orders, working, active, bookVars, at, walk, produced>>

\* There is something left to take for the order and at a price it accepts.
Reachable(o) ==
    /\ Remaining(o) > 0
    /\ \E p \in Reach(orders[o].side, orders[o].price) : Left(at.token, orders[o].side)[p] > 0

\* _try_match_resting: the queue gate, then the levels that reach the limit.  A
\* loaded fill model caps what the order may have filled by now, and the cap
\* never falls.
StartMake ==
    /\ phase = "match" /\ todo # <<>>
    /\ LET o == Head(todo)
       IN  IF Live(o) /\ orders[o].queue = 0 /\ Reachable(o)
           THEN \E cap \in IF FillModel THEN orders[o].cap .. orders[o].size
                                        ELSE {orders[o].size} :
                   /\ orders' = [orders EXCEPT ![o].cap = cap]
                   /\ StartWalk(o, cap, "make")
                   /\ UNCHANGED todo
           ELSE todo' = Tail(todo) /\ UNCHANGED <<orders, phase, walk>>
    /\ UNCHANGED <<working, active, bookVars, at, produced>>

\* One level of the resting match.  The order trades at its own price, and what
\* it took is booked at that price too, not at the level that supplied it.
MakeLevel(p) ==
    LET o == walk.order
        wanted == IF walk.levels[p] < Remaining(o) THEN walk.levels[p] ELSE Remaining(o)
        allowed == IF walk.cap > orders[o].filled THEN walk.cap - orders[o].filled ELSE 0
        take == IF wanted < allowed THEN wanted ELSE allowed
    IN  /\ phase = "make" /\ Remaining(o) > 0 /\ BestUnvisited(p)
        /\ IF take > 0 THEN RecordFill(take, p, orders[o].price, TRUE)
                       ELSE UNCHANGED <<orders, used, drawn, produced>>
        /\ Visited(p)
        /\ UNCHANGED <<working, active, shown, now, phase, at, todo>>

\* Mutant: a filled order stays in the working list.
FinishMakeKeepsWorking ==
    LET o == walk.order
    IN  /\ phase = "make"
        /\ Remaining(o) = 0 \/ Unvisited = {}
        /\ IF Remaining(o) = 0 THEN End(o, "filled") ELSE UNCHANGED <<orders, active>>
        /\ todo' = Tail(todo) /\ phase' = "match" /\ walk' = NoWalk
        /\ UNCHANGED <<working, bookVars, at, produced>>

FinishMake ==
    LET o == walk.order
    IN  /\ phase = "make"
        /\ Remaining(o) = 0 \/ Unvisited = {}
        /\ IF Remaining(o) = 0 THEN End(o, "filled") /\ RemoveFromWorking(o)
                               ELSE UNCHANGED <<orders, active, working>>
        /\ todo' = Tail(todo) /\ phase' = "match" /\ walk' = NoWalk
        /\ UNCHANGED <<bookVars, at, produced>>

\* advance_to returns the fills it produced; the client of this module drops them.
EndAdvance ==
    /\ phase = "match" /\ todo = <<>>
    /\ phase' = "idle" /\ at' = None /\ produced' = <<>>
    /\ UNCHANGED <<orders, working, active, bookVars, todo, walk>>

Advance ==
    \/ \E o \in DOMAIN orders :
          \/ ApplyCancel(o)
          \/ AdmitRejects(o) \/ AdmitTakes(o) \/ AdmitExpires(o) \/ AdmitRests(o)
    \/ RefreshBook
    \/ \E p \in Prices : TakeLevel(p) \/ MakeLevel(p)
    \/ FinishTake \/ BeginMatch \/ StartMake \/ FinishMake

Next ==
    \/ \E r \in Requests : Submit(r)
    \/ \E o \in DOMAIN orders : Cancel(o)
    \/ \E t \in Tokens, book \in Snapshots, gap \in Gaps : BeginAdvance(t, book, gap)
    \/ Advance
    \/ EndAdvance

Spec == Init /\ [][Next]_vars

(***************************************************************************)
(* Properties.                                                             *)
(***************************************************************************)

Order == [token : Tokens, side : Sides, price : Prices, size : Nat, tif : Tifs,
          postOnly : BOOLEAN, state : LiveStates \cup TerminalStates, received : Nat,
          filled : Nat, queue : Nat, cap : Nat, cancelAt : Nat \cup {NoCancel}]
Fill == [order : Nat, price : Prices, size : Nat, maker : BOOLEAN]

\* Type invariant of the matching engine's state (MatchingEngine.__init__).
TypeOK ==
    /\ orders \in Seq(Order)
    /\ working \in [Tokens -> Seq(Nat)] /\ active \in [Tokens -> Nat]
    /\ shown \in [Tokens -> Books \cup {None}]
    /\ used \in [Tokens -> Books] /\ drawn \in [Tokens -> Books]
    /\ now \in Nat
    /\ phase \in {"idle", "cancel", "admit", "take", "match", "make"}
    /\ todo \in Seq(Nat) /\ produced \in Seq(Fill)
    /\ walk \in [order : Nat, levels : Levels, cap : Nat]

\* The index behind has_active_orders_for_token is exact: it is positive exactly
\* when some order of the token has not ended, whatever mix of cancels, rejects,
\* expiries and fills has happened (the engine skips a snapshot when it is 0).
ActiveCountExact ==
    \A t \in Tokens :
        active[t] = Cardinality({o \in DOMAIN orders : Live(o) /\ orders[o].token = t})

\* _working_by_token holds each resting order exactly once and no other: an order
\* missing there would never fill again, a stale one could fill after it ended.
WorkingListExact ==
    \A t \in Tokens :
        /\ \A i, j \in DOMAIN working[t] : working[t][i] = working[t][j] => i = j
        /\ {working[t][i] : i \in DOMAIN working[t]} =
               {o \in DOMAIN orders : /\ orders[o].token = t
                                      /\ orders[o].state \in {"working", "partial"}}

\* What the final states claim about an order's fills: no order is filled beyond
\* its size, "filled" means all of it, a rejected order traded nothing, and a FOK
\* order traded all or nothing (_handle_admit).
OutcomeMatchesFills ==
    \A o \in DOMAIN orders :
        /\ orders[o].filled <= orders[o].size
        /\ orders[o].state = "filled" => Remaining(o) = 0
        /\ orders[o].state = "rejected" => orders[o].filled = 0
        /\ orders[o].tif = "FOK" /\ ~Live(o) => orders[o].filled \in {0, orders[o].size}

\* Takers share the displayed liquidity: together they never draw more from a level
\* than the snapshot showed there (_ResidualBook: successive matches do not
\* double-count).  Resting orders are matched after the takers of a snapshot.
TakersShareLiquidity ==
    phase \in {"admit", "take"} =>
        \A s \in Sides, p \in Prices : drawn[at.token][s][p] <= shown[at.token][s][p]

\* No order trades at a price worse than its limit, as taker or at rest.
LimitRespected ==
    \A i \in DOMAIN produced :
        LET ord == orders[produced[i].order]
        IN  IF ord.side = "BUY" THEN produced[i].price <= ord.price
                                ELSE produced[i].price >= ord.price

\* An order is filled only between its arrival at the venue and the moment its
\* cancel takes effect (advance_to applies due cancels before it matches).
FillsInsideLifetime ==
    [][\A o \in DOMAIN orders :
          orders'[o].filled > orders[o].filled =>
              /\ orders[o].received <= now
              /\ orders[o].cancelAt # NoCancel => now < orders[o].cancelAt]_vars

\* An order that has ended keeps its state and its fills, although its cancel may
\* still be on the way (_terminate, _apply_cancel).
EndedStaysEnded ==
    [][\A o \in DOMAIN orders :
          ~Live(o) => /\ orders'[o].state = orders[o].state
                      /\ orders'[o].filled = orders[o].filled]_vars
=============================================================================

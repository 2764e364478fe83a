------------------------------ MODULE LiveExit ------------------------------
(***************************************************************************)
(* The exit of one live position: services/trader_orchestrator/            *)
(* position_lifecycle.py (PL) and exit_risk_loop.py.  A position of Shares *)
(* shares is held, its exit trigger stands, and three loops work on its    *)
(* TraderOrder row without a lock between them:                            *)
(*                                                                         *)
(*   risk     ExitRiskLoop: fires the first exit and closes the row when   *)
(*            the ledger shows that everything was sold;                   *)
(*   trading  reconcile_live_positions(place_exits=True): owns the retries *)
(*            of an exit;                                                  *)
(*   cold     reconcile_live_positions(place_exits=False): another process *)
(*            that reads the wallet's history and touches no order.        *)
(*                                                                         *)
(* Each reads the row with what it knows of the wallet and the orders,     *)
(* works on its copy across the calls to the venue and writes the copy     *)
(* back by key.  The reads of one pass are one step; a pass that changes   *)
(* nothing is a stuttering step.  What a pass reads of the wallet may be   *)
(* late, too small or missing: the data API lags and answers with gaps.    *)
(* Left out: laddered and take-profit exits, manual sells, the resolution  *)
(* of the market, the prices.  Sizes are whole shares.                     *)
(***************************************************************************)
EXTENDS Integers, FiniteSets, FiniteSetsExt, Functions

CONSTANTS
    Shares,         \* the size of the position
    MaxOrders,      \* bound: exit orders that are referenced or working
    MaxBusy,        \* bound: loops that are in the middle of a pass
    MaxRetries,     \* _FAILED_EXIT_MAX_RETRIES
    HardCeiling,    \* _FAILED_EXIT_HARD_RETRY_CEILING
    StreakLimit,    \* _FAILED_EXIT_PERSISTENT_TIMEOUT_THRESHOLD
    MaxReprices,    \* max_reprice_attempts
    Triggers,       \* the close triggers that stand: rapid (TRUE) or not
    OthersHeld,     \* the wallet holds other tokens too
    Faults          \* the failures that may happen, any number of times

ASSUME LiveExitAssumption ==
    /\ Shares \in Nat \ {0} /\ MaxOrders \in Nat \ {0}
    /\ MaxBusy \in Nat \ {0}
    /\ MaxRetries \in Nat \ {0} /\ HardCeiling \in Nat /\ MaxRetries < HardCeiling
    /\ StreakLimit \in Nat \ {0} /\ MaxReprices \in Nat
    /\ Triggers \subseteq BOOLEAN /\ Triggers # {} /\ OthersHeld \in BOOLEAN
    /\ Faults \subseteq {"timeout", "venue", "cancel", "write", "blip", "crash"}

VARIABLES
    row,        \* the TraderOrder: active or not, pending_live_exit, size closed
    orders,     \* the venue's exit orders
    shares,     \* what the wallet holds
    seen,       \* the size in the wallet positions the loops last loaded
    trade,      \* the size of the wallet's latest sell trade
    pass        \* what each loop is doing, with its copy of the row

vars == <<row, orders, shares, seen, trade, pass>>
venue == <<orders, shares, trade>>

Loops == {"risk", "trading", "cold"}
OrderIds == 1..MaxOrders
NoOrder == 0

\* The statuses of a pending_live_exit; "timeout" is blocked_persistent_timeout,
\* "hard" blocked_retry_exhausted_hard, "done" every superseded or filled one.
ExitStatus == {"none", "submitted", "failed", "noInventory", "exhausted",
               "hard", "timeout", "done"}
Blocked == {"noInventory", "exhausted", "hard", "timeout"}
OrderState == {"unused", "working", "filled", "cancelled"}

NoExit == [status |-> "none", order |-> NoOrder, prov |-> "unused",
           filled |-> 0, retry |-> 0, streak |-> 0, reprices |-> 0,
           rapid |-> FALSE]

Exits == [status : ExitStatus, order : {NoOrder} \cup OrderIds,
          prov : OrderState, filled : 0..Shares, retry : 0..HardCeiling,
          streak : 0..StreakLimit, reprices : 0..MaxReprices,
          rapid : BOOLEAN]

Rows == [open : BOOLEAN, exit : Exits, closed : 0..Shares]

Unused == [left |-> 0, filled |-> 0, state |-> "unused"]

Plans == {"none", "fresh", "retry", "requote"}

\* A loop between two cycles holds nothing.
Idle == [pc |-> "idle", row |-> [open |-> FALSE, exit |-> NoExit, closed |-> 0],
         plan |-> "none", size |-> 0, bypass |-> FALSE]

TypeOK ==
    /\ row \in Rows
    /\ orders \in [OrderIds -> [left : 0..Shares, filled : 0..Shares,
                                state : OrderState]]
    /\ shares \in 0..Shares /\ seen \in 0..Shares /\ trade \in 0..Shares
    /\ pass \in [Loops -> [pc : {"idle", "cancel", "place", "write"},
                           row : Rows, plan : Plans, size : 0..Shares,
                           bypass : BOOLEAN]]

\* The buy has filled, and the data API may not show all of it yet.
Init ==
    /\ row = [open |-> TRUE, exit |-> NoExit, closed |-> 0]
    /\ orders = [o \in OrderIds |-> Unused]
    /\ shares = Shares /\ seen \in 0..Shares /\ trade = 0
    /\ pass = [a \in Loops |-> Idle]

Fault(f) == f \in Faults

Sold == Shares - shares

-----------------------------------------------------------------------------
(* The venue and the wallet. *)

\* The shares no working order has claimed.
FreeShares == shares - SumFunctionOnSet([o \in OrderIds |-> orders[o].left], OrderIds)

Referenced ==
    {row.exit.order} \cup {pass[a].row.exit.order : a \in Loops}

\* A slot for a new order: one that is over and that nobody refers to.
FreeSlots == {o \in OrderIds : orders[o].state # "working" /\ o \notin Referenced}

NextSlot == Min(FreeSlots)

\* A resting order trades one share.
Fill(o) ==
    /\ orders[o].state = "working"
    /\ orders' = [orders EXCEPT ![o].filled = @ + 1, ![o].left = @ - 1,
                    ![o].state = IF orders[o].left = 1 THEN "filled" ELSE "working"]
    /\ shares' = shares - 1 /\ trade' = 1
    /\ UNCHANGED <<row, seen, pass>>

\* The venue drops what an IOC order could not match, or cancels an order.
Drop(o) ==
    /\ orders[o].state = "working"
    /\ orders' = [orders EXCEPT ![o].left = 0, ![o].state = "cancelled"]
    /\ UNCHANGED <<row, shares, seen, trade, pass>>

\* _load_execution_wallet_positions_by_token, or the user channel of the venue.
RefreshWallet ==
    /\ seen # shares /\ seen' = shares
    /\ UNCHANGED <<row, venue, pass>>

\* A reading of the data API that shows less than the wallet holds.
WalletBlip ==
    /\ Fault("blip") /\ \E n \in 0..Shares : n < shares /\ seen' = n
    /\ UNCHANGED <<row, venue, pass>>

\* An order of n shares reaches the venue and trades f of them at once.  What
\* is left of a GTC order rests, what is left of an IOC order is dropped; an
\* answer that comes before the IOC order was matched shows it as open.
Accept(n, f, state, rapid) ==
    /\ FreeSlots # {} /\ n <= FreeShares /\ f <= n
    /\ CASE f = n           -> state = "filled"
         [] f \in 1..(n - 1) -> state = "working" \/ (rapid /\ state = "filled")
         [] OTHER           -> state = "working"
    /\ orders' = [orders EXCEPT ![NextSlot] =
                    [left |-> IF state = "working" THEN n - f ELSE 0, filled |-> f,
                     state |-> state]]
    /\ shares' = shares - f /\ trade' = (IF f > 0 THEN f ELSE trade)

-----------------------------------------------------------------------------
(* Helpers of position_lifecycle.py. *)

\* _pending_exit_fill_threshold, in percent, for at most ten shares.
FillThreshold(e) == IF e.retry >= 2 THEN 85 ELSE 88

Below(n, e) == n * 100 < Shares * FillThreshold(e)

\* _remaining_exit_size: what is not filled, capped by the wallet.
RemainingExitSize(filled, wallet) ==
    LET left == Shares - filled IN
    IF wallet = 0 THEN left
    ELSE IF left = 0 THEN wallet ELSE Min({left, wallet})

\* _apply_failed_exit_state: an empty wallet blocks at once, repeated
\* timeouts, balance rejections and unmatched IOC orders block for a while.
FailedExit(e, error, n) ==
    LET streak == IF error = "blocked" THEN e.streak + 1 ELSE 0
        status == CASE error = "zero" -> "noInventory"
                    [] error = "blocked" /\ streak >= StreakLimit -> "timeout"
                    [] OTHER -> "failed"
    IN [e EXCEPT !.status = status, !.retry = n, !.streak = streak]

\* The retry that the submitted branch schedules.
Reschedule(e) == [e EXCEPT !.status = "failed", !.retry = e.retry + 1]

\* Of a closed exit only the order and its fills matter any more.
Closed(r, n) ==
    [open |-> FALSE, closed |-> n,
     exit |-> [NoExit EXCEPT !.status = "done", !.order = r.exit.order,
                             !.filled = r.exit.filled]]

\* Mutant: the streak that led to the block is kept.
ClearTimeoutKeepsStreak(e) ==
    IF e.status = "timeout" THEN [e EXCEPT !.status = "failed"] ELSE e

\* _maybe_clear_persistent_timeout, once the cooldown is over.
ClearTimeout(e) ==
    IF e.status = "timeout" THEN [e EXCEPT !.status = "failed", !.streak = 0]
    ELSE e

\* _pending_exit_stale_without_provider; the age is a matter of waiting.
StaleWithoutProvider(e, aged) ==
    /\ e.status \in {"submitted", "failed"} /\ e.order = NoOrder
    /\ e.retry >= MaxRetries \/ aged

-----------------------------------------------------------------------------
(* One candidate of reconcile_live_positions: the set of what a loop that   *)
(* has just read the row may do with it.                                    *)

When(condition, S) == IF condition THEN S ELSE {}

Write(r) == [Idle EXCEPT !.pc = "write", !.row = r]

WriteExit(e) == Write([row EXCEPT !.exit = e])

\* bypass: retries beyond the soft ceiling do not count while shares are held.
Order(pc, e, plan, n) ==
    [pc |-> pc, row |-> [row EXCEPT !.exit = e], plan |-> plan, size |-> n,
     bypass |-> plan = "retry" /\ e.retry \in MaxRetries..(HardCeiling - 1) /\ seen > 0]

\* What a pass finds about the token in the wallet positions: a row of it,
\* rows of other tokens only, or no rows at all.
Readings ==
    {"row"} \cup When(seen = 0, {"empty"}) \cup When(seen = 0 /\ OthersHeld, {"absent"})

\* wallet_positions_authoritative.
Authoritative(reading) == reading # "empty"

\* External flatten: the wallet looks flat and the history shows a sell trade.
ExternalFlatten(reading) ==
    When(trade >= Shares, {Write(Closed(row, Shares))})
    \cup When(trade < Shares /\ Authoritative(reading), {Write(Closed(row, 0))})

\* Mutant: the fills of the snapshot are added to those of the record.
MergeSnapshotAdds(e, o) ==
    [e EXCEPT !.prov = o.state, !.filled = Min({Shares, @ + o.filled})]

\* The snapshot of the exit order is merged into the record.
MergeSnapshot(e, o) ==
    [e EXCEPT !.prov = o.state, !.filled = IF o.filled > 0 THEN o.filled ELSE @]

\* A sell trade in the history confirms it too, but leads to ExternalFlatten.
WalletFlatConfirmed(e, reading) ==
    /\ seen = 0
    /\ reading = "row" \/ (reading = "absent" /\ e.prov = "filled")

\* The submitted branch.  Without a snapshot of the order (it could not be
\* loaded) it goes on with the status and the fills of the record, and these
\* may be those of an earlier order; an "unused" status is an unknown one.
SubmittedExit(reading, snapshot) ==
    LET e == IF snapshot THEN MergeSnapshot(row.exit, orders[row.exit.order])
             ELSE row.exit
        over  == e.prov = "filled"
        close == /\ WalletFlatConfirmed(e, reading)
                 /\ (over /\ e.filled > 0) \/ (e.prov = "unused" /\ ~Below(e.filled, e))
        short == over /\ e.filled > 0 /\ Below(e.filled, e) /\ seen > 0
    IN  IF close THEN {Write(Closed([row EXCEPT !.exit = e], e.filled))}
        ELSE IF short \/ e.prov = "cancelled" THEN {WriteExit(Reschedule(e))}
        ELSE When(snapshot, {WriteExit(e)})
             \cup When(e.prov = "working" /\ Below(e.filled, e) /\ e.reprices < MaxReprices,
                       {Order("cancel", [e EXCEPT !.reprices = @ + 1], "requote",
                              RemainingExitSize(e.filled, seen))})

\* The failed branch: the two ceilings, then another order.
FailedRetry ==
    LET e    == row.exit
        n    == RemainingExitSize(e.filled, seen)
        over == e.retry \in MaxRetries..(HardCeiling - 1) /\ seen = 0
    IN  CASE e.retry >= HardCeiling -> {WriteExit([e EXCEPT !.status = "hard"])}
          [] over  -> {WriteExit([e EXCEPT !.status = "exhausted"])}
          [] n > 0 /\ ~over /\ e.retry < HardCeiling -> {Order("place", e, "retry", n)}
          [] OTHER -> {WriteExit(Reschedule(e))}

\* wallet_flat_override of the blocked branch, from the fills of the record.
BlockedExit(reading) ==
    When(seen = 0 /\ reading = "row" /\ row.exit.prov = "filled" /\ row.exit.filled >= Shares,
         {Write(Closed(row, Shares))})

\* No exit yet: the trigger stands, so one is submitted.
FreshExit ==
    {Order("place", [NoExit EXCEPT !.rapid = rapid], "fresh", RemainingExitSize(0, seen))
        : rapid \in Triggers}

\* The token is missing in the wallet and no exit order of it is known.
WalletAbsent(reading, aged) ==
    /\ reading = "absent" /\ row.exit.order = NoOrder
    /\ row.exit.status = "none" \/ StaleWithoutProvider(row.exit, aged)

\* The candidate loop, with what this pass found out about wallet and order.
Candidate(reading, history, snapshot, aged) ==
    LET e == row.exit IN
    IF seen = 0 /\ history /\ trade > 0 THEN ExternalFlatten(reading)
    ELSE IF WalletAbsent(reading, aged)
    THEN When(e.status # "none", {Write(Closed(row, 0))})
    ELSE CASE e.status = "submitted" -> SubmittedExit(reading, snapshot)
           [] e.status = "failed"    -> FailedRetry
           [] e.status = "timeout"   -> {WriteExit(ClearTimeout(e))} \cup BlockedExit(reading)
           [] e.status = "none"      -> FreshExit
           [] OTHER                  -> When(e.status \in Blocked, BlockedExit(reading))

-----------------------------------------------------------------------------
(* The steps of the loops. *)

Busy == {a \in Loops : pass[a].pc # "idle"}

Starts(a) == a \notin Busy /\ row.open /\ Cardinality(Busy) < MaxBusy

Begin(a, outcomes) ==
    \E p \in outcomes : pass' = [pass EXCEPT ![a] = p]

\* A moved mark makes a pass write the row although nothing else changed.
TouchOnly(a) ==
    /\ Starts(a)
    /\ a = "risk" => row.exit.status = "none"
    /\ Begin(a, {Write(row)})
    /\ UNCHANGED <<row, venue, seen>>

\* The trading plane has no history of the wallet (cheap_backstop).
TradingPass(reading, snapshot, aged) ==
    /\ Starts("trading")
    /\ Begin("trading", Candidate(reading, FALSE, snapshot, aged))
    /\ UNCHANGED <<row, venue, seen>>

\* What is left of a decision in the cold plane: its orders and cancels are
\* no-ops, and before the write it puts back the exit that it had read.
WithoutOrders(p) == Write([p.row EXCEPT !.exit = row.exit])

ColdPass(reading, history, snapshot, aged) ==
    /\ Starts("cold")
    /\ Begin("cold", {WithoutOrders(p) : p \in Candidate(reading, history, snapshot, aged)})
    /\ UNCHANGED <<row, venue, seen>>

\* _process_position: close what the ledger shows as sold, leave a position
\* that has an exit to the reconcile loop, else fire, or wait for the end of
\* _FIRE_COOLDOWN_SECONDS after an earlier fire, which is a TouchOnly.  The
\* rows are detached, and a close is not written, when the marks needed a REST
\* call.  The ledger, live_trading_orders, has booked some of what was sold.
RiskSweep(booked) ==
    /\ Starts("risk")
    /\ IF seen = 0 /\ booked >= Shares
       THEN Begin("risk", {Write(Closed(row, booked))})
       ELSE row.exit.status = "none" /\ Begin("risk", FreshExit)
    /\ UNCHANGED <<row, venue, seen>>

\* The copy of the row that a loop works on.
Copy(a) == pass[a].row

\* The call to the venue detaches the row of the risk loop from its session
\* (release_conn): what this loop records of its order is not written.
AfterOrder(a, e) ==
    pass' = [pass EXCEPT ![a] = IF a = "risk" THEN Idle
                                ELSE Write([Copy(a) EXCEPT !.exit = e])]

\* A requote cancels first, and gives up for this time when that fails.
CancelExit(a) ==
    LET o == Copy(a).exit.order IN
    /\ pass[a].pc = "cancel"
    /\ \/ /\ orders[o].state = "working"
          /\ orders' = [orders EXCEPT ![o].state = "cancelled", ![o].left = 0]
          /\ pass' = [pass EXCEPT ![a].pc = "place"]
       \/ /\ \/ orders[o].state # "working"
             \/ Fault("cancel")
          /\ AfterOrder(a, Reschedule(Copy(a).exit))
          /\ UNCHANGED orders
    /\ UNCHANGED <<row, shares, seen, trade>>

\* The record after the order was taken, by the path that placed it.
Placed(a, o, f, state) ==
    LET e == Copy(a).exit
        s == [e EXCEPT !.status = "submitted", !.order = o]
    IN CASE pass[a].plan = "fresh" -> s
         [] pass[a].plan = "retry" ->
              [s EXCEPT !.retry = IF pass[a].bypass THEN e.retry ELSE e.retry + 1]
         [] OTHER -> [s EXCEPT !.prov = state, !.filled = e.filled + f]

\* ... and after it was not.
NotPlaced(a, error) ==
    LET e == Copy(a).exit IN
    CASE pass[a].plan = "fresh" -> FailedExit(e, error, 1)
      [] pass[a].plan = "retry" -> FailedExit(e, error, e.retry + 1)
      [] OTHER -> Reschedule(e)

\* The order is taken, and the answer arrives.
PlaceExit(a) ==
    /\ pass[a].pc = "place"
    /\ \E f \in 0..Shares, state \in {"working", "filled"} :
        /\ Accept(pass[a].size, f, state, Copy(a).exit.rapid)
        /\ AfterOrder(a, Placed(a, NextSlot, f, state))
    /\ UNCHANGED <<row, seen>>

\* An IOC order that finds nothing to match is refused.
UnmatchedExit(a) ==
    /\ pass[a].pc = "place" /\ Copy(a).exit.rapid
    /\ AfterOrder(a, NotPlaced(a, "blocked"))
    /\ UNCHANGED <<row, venue, seen>>

\* The order is refused: nothing left, or less than asked for is free.
RefuseExit(a) ==
    /\ pass[a].pc = "place" /\ pass[a].size > FreeShares
    /\ \E error \in (IF shares = 0 /\ seen < pass[a].size THEN {"zero"}
                     ELSE {"blocked", "other"}) :
        AfterOrder(a, NotPlaced(a, error))
    /\ UNCHANGED <<row, venue, seen>>

\* wait_for gives up, and the order may have been taken all the same; or the
\* venue answers with an error.
PlaceFails(a) ==
    /\ pass[a].pc = "place"
    /\ \/ /\ Fault("timeout") /\ AfterOrder(a, NotPlaced(a, "blocked"))
          /\ \/ \E f \in 0..Shares, state \in {"working", "filled"} :
                    Accept(pass[a].size, f, state, Copy(a).exit.rapid)
             \/ UNCHANGED venue
       \/ /\ Fault("venue") /\ UNCHANGED venue
          /\ AfterOrder(a, NotPlaced(a, "other"))
    /\ UNCHANGED <<row, seen>>

\* The bulk UPDATE writes status and payload by key; the risk loop's commit
\* writes its payload, and its status only when it closes the row.
Stored(a) ==
    IF a = "risk" /\ Copy(a).open THEN [row EXCEPT !.exit = Copy(a).exit] ELSE Copy(a)

WriteRow(a) ==
    /\ pass[a].pc = "write"
    /\ \/ row' = Stored(a)
       \/ Fault("write") /\ UNCHANGED row
    /\ pass' = [pass EXCEPT ![a] = Idle]
    /\ UNCHANGED <<venue, seen>>

\* The trading process dies with both of its loops, or the cold one does.
Crash(plane) ==
    /\ \E a \in plane : pass[a].pc # "idle"
    /\ Fault("crash")
    /\ pass' = [a \in Loops |-> IF a \in plane THEN Idle ELSE pass[a]]
    /\ UNCHANGED <<row, venue, seen>>

Planes == {{"risk", "trading"}, {"cold"}}

Next ==
    \/ \E o \in OrderIds : Fill(o) \/ Drop(o)
    \/ RefreshWallet \/ WalletBlip
    \/ \E booked \in 0..Sold : RiskSweep(booked)
    \/ \E a \in {"risk", "trading"} :
        PlaceExit(a) \/ UnmatchedExit(a) \/ RefuseExit(a) \/ PlaceFails(a)
    \/ \E a \in Loops : TouchOnly(a) \/ WriteRow(a)
    \/ CancelExit("trading")
    \/ \E reading \in Readings, snapshot, aged \in BOOLEAN :
        \/ TradingPass(reading, snapshot, aged)
        \/ \E history \in BOOLEAN : ColdPass(reading, history, snapshot, aged)
    \/ \E plane \in Planes : Crash(plane)

Spec == Init /\ [][Next]_vars

-----------------------------------------------------------------------------
(* Properties. *)

\* The fills an exit claims were really traded, in the row and in every copy
\* of it: neither the sum a requote builds up from the fills of the order it
\* cancelled and of the one it placed, nor the snapshot that replaces the sum,
\* nor a copy that is older than both counts a share twice.
FillsNotOverstated ==
    /\ row.exit.filled <= Sold /\ row.closed <= Sold
    /\ \A a \in Loops : Copy(a).exit.filled <= Sold

\* What the comment at PL 8645-8646 says: a missing wallet row is no authority
\* to close, a position stays open until there is evidence of an exit.
ClosedOnEvidence == ~row.open => Sold > 0

=============================================================================

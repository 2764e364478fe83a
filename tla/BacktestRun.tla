----------------------------- MODULE BacktestRun -----------------------------
(***************************************************************************)
(* One backtest: the replay loop of services/backtest/engine.py, the       *)
(* accounting of portfolio.py, and the matching engine they drive.         *)
(*                                                                         *)
(* For each snapshot the loop redeems resolved positions, skips tokens     *)
(* nothing depends on, submits the entry intents that are due, advances    *)
(* the matching engine, books its fills, marks the positions and asks the  *)
(* strategy for exits.  `step` says where the loop is; every iteration of  *)
(* an inner loop is an action, as in MatchingEngine.                       *)
(*                                                                         *)
(* Money is counted in half ticks times shares, so that the mid is exact;  *)
(* what a division leaves over is rounded, as floats are.  There is one    *)
(* strategy in a run, so its exposure is the gross exposure.  An exit is   *)
(* the single IOC order of a decision without an exit policy.              *)
(***************************************************************************)
EXTENDS MatchingEngine

CONSTANTS
    IntentLists,   \* the trade_intents a run may be given, ordered by emission
    ExitPrices,    \* close prices a strategy may decide on, in half ticks
    Resolution,    \* per token: resolution time and settlement price, if known
    InitialCash,   \* initial_capital_usd
    GrossCap,      \* max_gross_exposure_usd
    MarketCap,     \* max_per_market_notional_usd
    PositionCap,   \* max_open_positions
    Gas,           \* per_fill_gas_usd
    TakerFee,      \* taker fee per share
    WinnerPercent  \* resolution_fee_rate

Keys == Tokens \X Sides
NoPosition == [size |-> 0, basis |-> 0, mark |-> 0]

ASSUME RunAssumption ==
    /\ InitialCash \in Nat /\ GrossCap \in Nat /\ MarketCap \in Nat /\ PositionCap \in Nat
    /\ Gas \in Nat /\ TakerFee \in Nat /\ WinnerPercent \in 0 .. 100
    /\ ExitPrices \subseteq Nat
    /\ DOMAIN Resolution \subseteq Tokens
    /\ \A t \in DOMAIN Resolution : Resolution[t].time \in Nat /\ Resolution[t].price \in Nat
    /\ IntentLists \subseteq Seq([request : Requests, emitted : Nat])
    /\ \A l \in IntentLists : \A i, j \in DOMAIN l : i <= j => l[i].emitted <= l[j].emitted

VARIABLES
    step,      \* where the replay loop is
    clock,     \* observed_at of the snapshot; now lags behind skipped ones
    snap,      \* the snapshot: its token and its book
    intents,   \* _pending_intents that are not drained yet
    swept,     \* tokens the settlement pointer has passed
    latest,    \* _latest_book: the time of each token's last snapshot
    cash,      \* cash_usd
    position,  \* positions; size 0 for a missing key
    asking,    \* positions the strategy has still to decide on
    realized,  \* realized_pnl_usd()
    marked,    \* tokens whose position was closed at a mark, unsettled
    openFees,  \* history: fees of opening fills
    bought,    \* history, per token: shares bought minus shares sold
    overclosed \* history: some closing fill was larger than its position

book == <<cash, position, realized, openFees, bought, overclosed>>
loop == <<clock, snap, intents, swept, latest, asking, marked>>
runVars == <<vars, step, loop, book>>

RunInit ==
    /\ Init
    /\ step = "wait" /\ clock = 0 /\ snap = None
    /\ intents \in IntentLists
    /\ swept = {} /\ latest = [t \in Tokens |-> 0]
    /\ cash = InitialCash
    /\ position = [k \in Keys |-> NoPosition]
    /\ asking = {} /\ realized = 0 /\ marked = {}
    /\ openFees = 0 /\ bought = [t \in Tokens |-> 0] /\ overclosed = FALSE

Goto(label) == step' = label
Open(k) == position[k].size > 0
HasPosition(t) == \E s \in Sides : Open(<<t, s>>)

(***************************************************************************)
(* The portfolio.                                                          *)
(***************************************************************************)

\* size * (last_mark_price or entry_price); the basis is size times entry price.
Exposure(k) == IF position[k].mark > 0 THEN position[k].size * position[k].mark
                                       ELSE position[k].basis

GrossExposure(S) == MapThenSumSet(Exposure, {k \in S : Open(k)})

\* Everything is compared with the portfolio as it is now: an order that is
\* pending or working reserves nothing.
CanSubmit(r) ==
    LET notional == r.raw * r.size
    IN  /\ r.side = "BUY" => cash >= notional
        /\ GrossExposure(Keys) + notional <= GrossCap
        /\ GrossExposure({r.token} \X Sides) + notional <= MarketCap
        /\ Cardinality({k \in Keys : Open(k)}) >= PositionCap => Open(<<r.token, r.side>>)

FillFee(f) == IF f.maker THEN Gas ELSE Gas + TakerFee * f.size

\* The proportional part of the basis that a closing fill takes out.
CostChunk(p, take) == (p.basis * take) \div p.size

ResolutionFee(gain) == IF gain > 0 THEN (gain * WinnerPercent) \div 100 ELSE 0

Signed(side, x) == IF side = "BUY" THEN x ELSE 0 - x

\* apply_open_fill and its cash effect.
OpenFill(k, price, size, fee) ==
    /\ position' = [position EXCEPT ![k].size = @ + size, ![k].basis = @ + price * size]
    /\ cash' = cash - Signed(k[2], price * size) - fee
    /\ openFees' = openFees + fee
    /\ bought' = [bought EXCEPT ![k[1]] = @ + Signed(k[2], size)]
    /\ UNCHANGED <<realized, overclosed>>

\* Mutant: the resolution fee is not taken from cash.
CloseFillFreeWin(k, price, size, fee) ==
    LET p == position[k]
        take == IF size < p.size THEN size ELSE p.size
        chunk == CostChunk(p, take)
        pnl == Signed(k[2], price * take - chunk) - fee
    IN  /\ position' = [position EXCEPT ![k] =
                           IF take = p.size THEN NoPosition
                           ELSE [p EXCEPT !.size = @ - take, !.basis = @ - chunk]]
        /\ realized' = realized + pnl - ResolutionFee(pnl)
        /\ cash' = cash + Signed(k[2], price * size) - fee
        /\ bought' = [bought EXCEPT ![k[1]] = @ - Signed(k[2], size)]
        /\ overclosed' = (overclosed \/ size > p.size)
        /\ UNCHANGED openFees

\* apply_close_fill, _on_cash_change_from_close and the resolution fee.  The
\* position gives at most its own size; cash moves by the whole fill.
CloseFill(k, price, size, fee) ==
    LET p == position[k]
        take == IF size < p.size THEN size ELSE p.size
        chunk == CostChunk(p, take)
        pnl == Signed(k[2], price * take - chunk) - fee
        won == ResolutionFee(pnl)
    IN  /\ position' = [position EXCEPT ![k] =
                           IF take = p.size THEN NoPosition
                           ELSE [p EXCEPT !.size = @ - take, !.basis = @ - chunk]]
        /\ realized' = realized + pnl - won
        /\ cash' = cash + Signed(k[2], price * size) - fee - won
        /\ bought' = [bought EXCEPT ![k[1]] = @ - Signed(k[2], size)]
        /\ overclosed' = (overclosed \/ size > p.size)
        /\ UNCHANGED openFees

\* Mutant: every fill adds to the position of its own side.
ApplyFillSameSide ==
    LET f == Head(produced)
    IN  /\ step = "apply" /\ produced # <<>>
        /\ OpenFill(<<orders[f.order].token, orders[f.order].side>>,
                    2 * f.price, f.size, FillFee(f))
        /\ produced' = Tail(produced)
        /\ UNCHANGED <<orders, working, active, bookVars, callVars, step, loop>>

\* apply_fill: a fill closes the opposing position first, if there is one.
ApplyFill ==
    LET f == Head(produced)
        t == orders[f.order].token
        s == orders[f.order].side
        opposing == <<t, Opposite(s)>>
    IN  /\ step = "apply" /\ produced # <<>>
        /\ IF Open(opposing) THEN CloseFill(opposing, 2 * f.price, f.size, FillFee(f))
                             ELSE OpenFill(<<t, s>>, 2 * f.price, f.size, FillFee(f))
        /\ produced' = Tail(produced)
        /\ UNCHANGED <<orders, working, active, bookVars, callVars, step, loop>>

(***************************************************************************)
(* The replay loop.                                                        *)
(***************************************************************************)

\* iter_snapshots yields the next snapshot.
OnSnapshot(t, b, gap) ==
    /\ step = "wait" /\ clock + gap <= MaxTime
    /\ clock' = clock + gap
    /\ snap' = [token |-> t, book |-> b]
    /\ Goto("settle")
    /\ UNCHANGED <<vars, book, intents, swept, latest, asking, marked>>

\* Mutant: the sweep looks at the token of the snapshot only.
DueTokensOfSnapshot ==
    {t \in DOMAIN Resolution \ swept : Resolution[t].time <= clock /\ t = snap.token}

\* Markets whose known outcome is due and that the pointer has not passed.
DueTokens == {t \in DOMAIN Resolution \ swept : Resolution[t].time <= clock}

\* _settle_due: redeem a position of a resolved market.
SettleDue(k) ==
    /\ step = "settle"
    /\ k[1] \in DueTokens /\ Open(k)
    /\ CloseFill(k, Resolution[k[1]].price, position[k].size, 0)
    /\ UNCHANGED <<vars, step, loop>>

SweepDone == step = "settle" /\ ~\E k \in Keys : k[1] \in DueTokens /\ Open(k)

IntentsReady == intents # <<>> /\ Head(intents).emitted <= clock

\* Mutant: only orders that rest on the book keep a token involved.
InvolvedWorkingOnly ==
    \/ IntentsReady
    \/ working[snap.token] # <<>>
    \/ HasPosition(snap.token)

\* What the fast path of _on_snapshot asks before it skips a snapshot.
Involved ==
    \/ IntentsReady
    \/ HasActiveOrders(snap.token)
    \/ HasPosition(snap.token)

\* The fast path: only the latest book is kept.
SkipSnapshot ==
    /\ SweepDone /\ ~Involved
    /\ swept' = swept \cup DueTokens
    /\ latest' = [latest EXCEPT ![snap.token] = clock]
    /\ snap' = None
    /\ Goto("wait")
    /\ UNCHANGED <<vars, book, clock, intents, asking, marked>>

BeginSnapshot ==
    /\ SweepDone /\ Involved
    /\ swept' = swept \cup DueTokens
    /\ Goto("drain")
    /\ UNCHANGED <<vars, book, clock, snap, intents, latest, asking, marked>>

\* 1. _submit_entry for an intent whose emission time has passed.
SubmitEntry ==
    /\ step = "drain" /\ IntentsReady
    /\ intents' = Tail(intents)
    /\ LET i == Head(intents)
       IN  IF CanSubmit(i.request) THEN SubmitOrder(i.request, i.emitted)
                                   ELSE UNCHANGED <<orders, active>>
    /\ UNCHANGED <<working, bookVars, callVars, produced, step, book,
                   clock, snap, swept, latest, asking, marked>>

\* 2. matching.advance_to.
AdvanceMatching ==
    /\ step = "drain" /\ ~IntentsReady
    /\ BeginAdvance(snap.token, snap.book, clock - now)
    /\ Goto("match")
    /\ UNCHANGED <<book, loop>>

Match == step = "match" /\ Advance /\ UNCHANGED <<step, book, loop>>

\* 3. The fills it returned are booked next.
TakeFills ==
    /\ step = "match" /\ phase = "match" /\ todo = <<>>
    /\ phase' = "idle" /\ at' = None
    /\ Goto("apply")
    /\ UNCHANGED <<orders, working, active, bookVars, todo, walk, produced, book, loop>>

\* best_ask + best_bid, twice the mid; 0 if a side is empty.
Mid(b) ==
    LET asks == {p \in Prices : b["BUY"][p] > 0}
        bids == {p \in Prices : b["SELL"][p] > 0}
    IN  IF asks = {} \/ bids = {} THEN 0 ELSE Min(asks) + Max(bids)

\* 4. The positions of the token are marked at the mid, if there is one.
MarkToMid ==
    /\ step = "apply" /\ produced = <<>>
    /\ LET t == snap.token
           mid == Mid(snap.book)
       IN  /\ latest' = [latest EXCEPT ![t] = clock]
           /\ position' = [k \in Keys |->
                              IF k[1] = t /\ Open(k) /\ mid > 0
                              THEN [position[k] EXCEPT !.mark = mid] ELSE position[k]]
           /\ asking' = {k \in Keys : k[1] = t /\ Open(k)}
    /\ Goto("exit")
    /\ UNCHANGED <<vars, cash, realized, openFees, bought, overclosed,
                   clock, snap, intents, swept, marked>>

\* 5. should_exit holds.
Hold(k) ==
    /\ step = "exit" /\ k \in asking
    /\ asking' = asking \ {k}
    /\ UNCHANGED <<vars, step, book, clock, snap, intents, swept, latest, marked>>

\* 5. should_exit reduces or closes: one closing IOC order for the part of the
\* position, whatever exits of it are still on their way.
SubmitExit(k, raw, size) ==
    /\ step = "exit" /\ k \in asking
    /\ size <= position[k].size
    /\ SubmitOrder([token |-> k[1], side |-> Opposite(k[2]), raw |-> raw, size |-> size,
                    tif |-> "IOC", postOnly |-> FALSE], clock)
    /\ asking' = asking \ {k}
    /\ UNCHANGED <<working, bookVars, callVars, produced, step, book,
                   clock, snap, intents, swept, latest, marked>>

EndSnapshot ==
    /\ step = "exit" /\ asking = {}
    /\ snap' = None
    /\ Goto("wait")
    /\ UNCHANGED <<vars, book, clock, intents, swept, latest, asking, marked>>

\* The replay window ends.
EndReplay == step = "wait" /\ Goto("final") /\ UNCHANGED <<vars, book, loop>>

\* The market is known to have resolved by the last snapshot the engine matched.
ResolvedInWindow(t) == t \in DOMAIN Resolution /\ now >= Resolution[t].time

\* _final_mark_to_market: settle or close at the last mark what is still open.
FinalClose(k) ==
    LET t == k[1]
        p == position[k]
        value == IF p.mark > 0 THEN p.mark ELSE p.basis \div p.size
    IN  /\ step = "final" /\ Open(k)
        /\ IF ResolvedInWindow(t)
           THEN CloseFill(k, Resolution[t].price, p.size, 0) /\ UNCHANGED marked
           ELSE CloseFill(k, value, p.size, 0) /\ marked' = marked \cup {t}
        /\ UNCHANGED <<vars, step, clock, snap, intents, swept, latest, asking>>

Finish ==
    /\ step = "final" /\ ~\E k \in Keys : Open(k)
    /\ Goto("done")
    /\ UNCHANGED <<vars, book, loop>>

RunNext ==
    \/ \E t \in Tokens, b \in Snapshots, gap \in Gaps : OnSnapshot(t, b, gap)
    \/ \E k \in Keys : SettleDue(k) \/ Hold(k) \/ FinalClose(k)
    \/ \E k \in Keys, raw \in ExitPrices : \E size \in 1 .. position[k].size :
          SubmitExit(k, raw, size)
    \/ SkipSnapshot \/ BeginSnapshot \/ SubmitEntry \/ AdvanceMatching \/ Match
    \/ TakeFills \/ ApplyFill \/ MarkToMid \/ EndSnapshot \/ EndReplay \/ Finish

RunSpec == RunInit /\ [][RunNext]_runVars

(***************************************************************************)
(* Properties.                                                             *)
(***************************************************************************)

\* Type invariant of the replay loop and the portfolio.
RunTypeOK ==
    /\ TypeOK
    /\ step \in {"wait", "settle", "drain", "match", "apply", "exit", "final", "done"}
    /\ clock \in Nat /\ now <= clock
    /\ cash \in Int /\ realized \in Int /\ openFees \in Nat
    /\ position \in [Keys -> [size : Nat, basis : Nat, mark : Nat]]
    /\ latest \in [Tokens -> Nat] /\ bought \in [Tokens -> Int]
    /\ asking \subseteq Keys /\ swept \subseteq Tokens /\ marked \subseteq Tokens
    /\ overclosed \in BOOLEAN

Basis(side) == SumFunctionOnSet([t \in Tokens |-> position[<<t, side>>].basis], Tokens)

\* The books balance at every moment between two fills: cash is the initial capital
\* plus what was realized, minus opening fees and what is tied up in longs, plus
\* what shorts brought in.  It holds as long as no closing fill exceeded its
\* position (apply_close_fill takes the smaller size, cash moves by the larger).
BooksBalance ==
    ~overclosed => cash = InitialCash + realized - openFees - Basis("BUY") + Basis("SELL")

\* The positions are what the fills of the token add up to, on one side only
\* (apply_fill nets against the opposing position).
PositionsAreNetFills ==
    \A t \in Tokens :
        /\ ~(Open(<<t, "BUY">>) /\ Open(<<t, "SELL">>))
        /\ ~overclosed => position[<<t, "BUY">>].size - position[<<t, "SELL">>].size = bought[t]

\* The fast path loses no order: between two snapshots, an order that still waits
\* for its admission had not reached the venue before its token's last snapshot.
AdmittedOnTime ==
    step = "wait" =>
        \A o \in DOMAIN orders :
            orders[o].state = "pending_submit" => orders[o].received >= latest[orders[o].token]

\* A position whose market resolved within the replayed window is redeemed at the
\* outcome, never closed at a mark (_settle_due, _final_mark_to_market), although
\* the matching engine's clock stands still while snapshots are skipped.
ResolvedIsSettled ==
    \A t \in marked : t \in DOMAIN Resolution => clock < Resolution[t].time
=============================================================================

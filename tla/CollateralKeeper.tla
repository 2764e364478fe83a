-------------------------- MODULE CollateralKeeper --------------------------
(***************************************************************************)
(* The pre-trade collateral keeper of services/live_execution_service.py:  *)
(* the in-memory view of the wallet that BUY orders are checked against,   *)
(* with everything that moves it: place_order and its retries, the buy     *)
(* gate, cancel_order, the order snapshots, the daily volume counter and   *)
(* the background reconciler.  All of them are coroutines of one process:  *)
(* a step of the model runs from one await to the next, except that the    *)
(* awaits inside the gate are not split.  A release waits for the state to *)
(* be persisted; its locks are taken to be free (the stats lock is held    *)
(* over an await only by a refused order that queues for the keeper lock). *)
(*                                                                         *)
(* An order is a call of place_order; its k-th post makes the copy k at    *)
(* the venue.  Amounts are dollars.  SELL orders, the per-market exposure, *)
(* statistics and the persistence of the counters are left out.            *)
(***************************************************************************)
EXTENDS Integers, FiniteSets, FiniteSetsExt

CONSTANTS
    Orders,            \* BUY orders, each placed once
    Cost,              \* per order: price * size
    Market,            \* the orders sent as FAK or FOK
    PostOnly,          \* the orders that must not cross the book
    Managed,           \* the orders of order_manager: gated before place_order
    Deposit,           \* what the wallet holds at first
    MinBalance,        \* MIN_ACCOUNT_BALANCE_USD
    ThinHeadroom,      \* LIVE_BUY_GATE_THIN_HEADROOM_USD
    DailyCap,          \* MAX_DAILY_TRADE_VOLUME
    TransportRetries,  \* bound: retries after a transport error (2 in the code)
    MaxCancels,        \* bound: calls of cancel_order
    Faults,            \* kinds of failure that may happen
    MaxFaults          \* bound: how many failures happen in a behaviour

ASSUME KeeperAssumption ==
    /\ IsFiniteSet(Orders)
    /\ Cost \in [Orders -> Nat \ {0}]
    /\ Market \subseteq Orders /\ PostOnly \subseteq Orders \ Market /\ Managed \subseteq Orders
    /\ {Deposit, MinBalance, ThinHeadroom, DailyCap} \subseteq Nat
    /\ {TransportRetries, MaxCancels, MaxFaults} \subseteq Nat
    /\ Faults \subseteq {"wire", "reject", "timeout", "chain", "day"}

VARIABLES
    pc,         \* per order: where place_order is
    claimed,    \* per order: the keeper reserved for it
    posts,      \* per order: posts made
    retried,    \* per order: transport_retries_used
    refreshed,  \* per order: buy_allowance_retry_used
    local,      \* per order: the Order object [status, id, filled]
    venue,      \* per order and copy: [status, matched]
    keeper,     \* [chain, reserved, initialized, stale]
    cached,     \* _balance_cache: an amount, or NoReading
    daily,      \* _daily_volume
    recon,      \* the reconciler [at, snapshot, initialized, reading]
    cancelling, \* per order: cancellations acknowledged and not applied
    cancels,    \* calls of cancel_order so far
    budget      \* how many failures may still happen

places == <<pc, claimed, posts, retried, refreshed>>
books == <<keeper, cached, daily>>
cancelVars == <<cancelling, cancels>>
vars == <<pc, claimed, posts, retried, refreshed, local, venue, keeper,
          cached, daily, recon, cancelling, cancels, budget>>

NoReading == -1
Copies == 1 .. TransportRetries + 2   \* the attempts of the submission loop
Required(o) == Cost[o] + MinBalance
\* place_order has counted the order and has not come to an end.
InFlight == {o \in Orders : pc[o] \in {"gate", "post", "answer"}}
Exhausted == {o \in Orders : pc[o] = "exhausted"}
Refusals == {"short", "invalid", "refused"}   \* balance; signature or crossed book; other
Active == {"open", "partial"}
Taken == {"live", "matched", "cancelled"}   \* what became of a copy the venue took

Fault(kind) == kind \in Faults /\ budget > 0 /\ budget' = budget - 1
NonNegative(n) == IF n < 0 THEN 0 ELSE n
CostOf(S) == SumFunctionOnSet(Cost, S)

Init == /\ pc = [o \in Orders |-> IF o \in Managed THEN "precheck" ELSE "reserve"]
        /\ claimed = [o \in Orders |-> FALSE]
        /\ posts = [o \in Orders |-> 0]
        /\ retried = [o \in Orders |-> 0]
        /\ refreshed = [o \in Orders |-> FALSE]
        /\ local = [o \in Orders |-> [status |-> "none", id |-> 0, filled |-> 0]]
        /\ venue = [o \in Orders |-> [k \in Copies |-> [status |-> "none", matched |-> 0]]]
        /\ keeper = [chain |-> 0, reserved |-> 0, initialized |-> FALSE, stale |-> FALSE]
        /\ cached = NoReading
        /\ daily = 0
        /\ recon = [at |-> "idle", snapshot |-> 0, initialized |-> FALSE, reading |-> 0]
        /\ cancelling = [o \in Orders |-> 0]
        /\ cancels = 0
        /\ budget = MaxFaults

(***************************************************************************)
(* The wallet.                                                             *)
(***************************************************************************)

\* What the venue holds for a copy and what it took for it; an order must be
\* covered by what is free of both.
Drawn(o, k) == CASE venue[o][k].status = "live" -> Cost[o]
                 [] OTHER -> venue[o][k].matched
Draws == [c \in Orders \X Copies |-> Drawn(c[1], c[2])]
Free == Deposit - SumFunctionOnSet(Draws, Orders \X Copies)

\* The wallet has paid for the fills only: no reading of its balance says what
\* rests at the venue.  The allowance is never less than the balance.
Fills == [c \in Orders \X Copies |-> venue[c[1]][c[2]].matched]
Spent == SumFunctionOnSet(Fills, Orders \X Copies)
Available == Deposit - Spent

\* get_balance: the cached reading while there is one.
Balance == IF cached = NoReading THEN Available ELSE cached
Effective == NonNegative(keeper.chain - keeper.reserved)

\* Mutant: a release is not clamped at zero.
ReleaseUnclamped(view, amount) == [view EXCEPT !.reserved = @ - amount]
Release(view, amount) == [view EXCEPT !.reserved = NonNegative(@ - amount)]
\* _release_reservation; what the keeper gives back does not depend on
\* whether it had reserved for the order.
ReleaseReservation(view, amount) ==
    /\ daily' = NonNegative(daily - amount)
    /\ keeper' = Release(view, amount + MinBalance)

(***************************************************************************)
(* The buy gate.                                                           *)
(***************************************************************************)

\* _keeper_bootstrap_locked, on the first call of the gate.
Seeded(reading) == [chain |-> reading, reserved |-> 0, initialized |-> TRUE, stale |-> FALSE]

\* The chain probe that replaces a keeper that is stale or was never started:
\* the cached reading, then a forced one if that is too low.
LegacyGate(o, pass) ==
    /\ cached' = IF Balance >= Required(o) THEN Balance ELSE Available
    /\ pass = (Balance >= Required(o) \/ Available >= Required(o))

\* The in-memory compare, confirmed by a fresh reading when the order leaves
\* less than the headroom.
Thin(o, effective) == effective >= Required(o) /\ effective - Required(o) < ThinHeadroom
HotGate(o, view, pass) ==
    LET effective == NonNegative(view.chain - view.reserved)
    IN /\ pass = (effective >= Required(o)
                   /\ (Thin(o, effective) => Available >= Required(o)))
       /\ cached' = IF Thin(o, effective) THEN Available
                     ELSE IF ~keeper.initialized THEN Balance ELSE cached

\* A reading cannot be had: the gate lets the order pass, except that it
\* believes a cached reading that is too low.
BlindGate(o, pass) ==
    /\ Fault("chain")
    /\ \/ /\ ~keeper.initialized \/ keeper.stale
          /\ cached = NoReading
          /\ pass
          /\ UNCHANGED cached
       \/ /\ keeper.initialized /\ keeper.stale
          /\ cached # NoReading /\ cached < Required(o)
          /\ ~pass
          /\ cached' = NoReading
       \/ /\ keeper.initialized /\ ~keeper.stale
          /\ Thin(o, Effective)
          /\ pass
          /\ UNCHANGED cached

\* _enforce_buy_pre_submit_gate; view is the keeper it leaves.
EnforceGate(o, pass, view) ==
    \/ /\ ~keeper.initialized
       /\ view = Seeded(Balance)
       /\ HotGate(o, view, pass)
       /\ UNCHANGED budget
    \/ /\ keeper.initialized
       /\ view = keeper
       /\ IF keeper.stale THEN LegacyGate(o, pass) ELSE HotGate(o, view, pass)
       /\ UNCHANGED budget
    \/ view = keeper /\ BlindGate(o, pass)

Goto(o, label) == pc' = [pc EXCEPT ![o] = label]
\* The call is over, or only persists what it did: its local variables go.
Leave(o, label) ==
    /\ Goto(o, label)
    /\ claimed' = [claimed EXCEPT ![o] = FALSE]
    /\ retried' = [retried EXCEPT ![o] = 0]
    /\ refreshed' = [refreshed EXCEPT ![o] = FALSE]

\* order_manager asks the gate before it places the order.
CheckBuyGate(o) ==
    /\ pc[o] = "precheck"
    /\ \E pass \in BOOLEAN, view \in {keeper, Seeded(Balance)} :
          /\ EnforceGate(o, pass, view)
          /\ keeper' = view
          /\ Goto(o, IF pass THEN "reserve" ELSE "done")
    /\ UNCHANGED <<claimed, posts, retried, refreshed, local, venue, daily, recon, cancelVars>>

(***************************************************************************)
(* place_order.                                                            *)
(***************************************************************************)

Fail(o) == local' = [local EXCEPT ![o].status = "failed"]

\* _keeper_try_reserve, under the keeper lock; a keeper that cannot serve is
\* passed by.
KeeperTryReserve(o) ==
    /\ pc[o] = "reserve"
    /\ IF ~keeper.initialized \/ keeper.stale
       THEN Goto(o, "count") /\ UNCHANGED <<claimed, keeper, local>>
       ELSE \/ /\ Effective >= Required(o)
               /\ keeper' = [keeper EXCEPT !.reserved = @ + Required(o)]
               /\ claimed' = [claimed EXCEPT ![o] = TRUE]
               /\ Goto(o, "count")
               /\ UNCHANGED local
            \/ /\ Effective < Required(o)
               /\ Fail(o)
               /\ Goto(o, "done")
               /\ UNCHANGED <<claimed, keeper>>
    /\ UNCHANGED <<posts, retried, refreshed, venue, cached, daily, recon, cancelVars, budget>>

\* The limits and the volume counter, under the stats lock; the first order of
\* a day starts the counter again.
ValidateAndCount(o) ==
    /\ pc[o] = "count"
    /\ \E volume \in {daily, 0} :
          /\ (volume = daily /\ UNCHANGED budget) \/ (volume = 0 /\ Fault("day"))
          /\ \/ /\ volume + Cost[o] <= DailyCap
                /\ daily' = volume + Cost[o]
                /\ Goto(o, IF o \in Managed THEN "post" ELSE "gate")
                /\ UNCHANGED <<keeper, local, claimed>>
             \/ /\ volume + Cost[o] > DailyCap
                /\ daily' = volume
                /\ keeper' = IF claimed[o] THEN Release(keeper, Required(o)) ELSE keeper
                /\ claimed' = [claimed EXCEPT ![o] = FALSE]
                /\ Fail(o)
                /\ Goto(o, "done")
    /\ UNCHANGED <<posts, retried, refreshed, venue, cached, recon, cancelVars>>

\* The order ends without an acknowledgement: its reservation is given back.
Abandon(o, view, label) ==
    /\ Leave(o, label)
    /\ ReleaseReservation(view, Cost[o])

\* The orders of other callers meet the gate after their own reservation.
GateAfterReserve(o) ==
    /\ pc[o] = "gate"
    /\ \E pass \in BOOLEAN, view \in {keeper, Seeded(Balance)} :
          /\ EnforceGate(o, pass, view)
          /\ IF pass
             THEN Goto(o, "post") /\ keeper' = view
                  /\ UNCHANGED <<claimed, retried, refreshed, daily, local>>
             ELSE Abandon(o, view, "done") /\ Fail(o)
    /\ UNCHANGED <<posts, venue, recon, cancelVars>>

\* One attempt of the submission loop: create, sign, post.
PostOrder(o) ==
    /\ pc[o] = "post" /\ posts[o] < Cardinality(Copies)
    /\ LET k == posts[o] + 1
       IN venue' = [venue EXCEPT ![o][k].status = "wire"] /\ posts' = [posts EXCEPT ![o] = k]
    /\ Goto(o, "answer")
    /\ UNCHANGED <<claimed, retried, refreshed, local, books, recon, cancelVars, budget>>

\* Every attempt ended in a retry: the loop runs out, and nothing after it
\* fails the order or gives its reservation back.
AttemptsRunOut(o) ==
    /\ pc[o] = "post" /\ posts[o] = Cardinality(Copies)
    /\ Leave(o, "exhausted")
    /\ UNCHANGED <<posts, local, venue, books, recon, cancelVars, budget>>

\* The venue took the order and the answer arrives, with the fill or without.
FillStatus(o, filled) ==
    IF filled = Cost[o] THEN "filled" ELSE IF filled > 0 THEN "partial" ELSE "open"
Acknowledged(o) ==
    /\ pc[o] = "answer"
    /\ LET k == posts[o]
       IN /\ venue[o][k].status \in Taken
          /\ \E filled \in {0, venue[o][k].matched} :
                local' = [local EXCEPT ![o] =
                    [status |-> FillStatus(o, filled), id |-> k, filled |-> filled]]
    /\ Leave(o, "done")
    /\ UNCHANGED <<posts, venue, books, recon, cancelVars, budget>>

\* The venue refused.  For want of balance its view of it is refreshed and the
\* order posted once more; at the first attempt a signature is renewed and a
\* price that crossed the book moved by a tick.
RetryRefused(o) ==
    /\ pc[o] = "answer"
    /\ \/ /\ venue[o][posts[o]].status = "short" /\ ~refreshed[o]
          /\ refreshed' = [refreshed EXCEPT ![o] = TRUE]
          /\ cached' = NoReading
       \/ /\ venue[o][posts[o]].status = "invalid" /\ posts[o] = 1
          /\ UNCHANGED <<refreshed, cached>>
    /\ Goto(o, "post")
    /\ UNCHANGED <<claimed, posts, retried, local, venue, keeper, daily, recon, cancelVars, budget>>

\* Else, or when that fails, the order fails: at once if the SDK raised, or
\* after the state is persisted.
Refused(o) ==
    /\ pc[o] = "answer"
    /\ venue[o][posts[o]].status \in Refusals
    /\ \E label \in {"closing", "done"} : Abandon(o, keeper, label)
    /\ Fail(o)
    /\ UNCHANGED <<posts, venue, cached, recon, cancelVars, budget>>

\* _persist_runtime_state at the end of _release_reservation returns.
Persisted(o) ==
    /\ pc[o] = "closing"
    /\ Goto(o, "done")
    /\ UNCHANGED <<claimed, posts, retried, refreshed, local, venue, books, recon, cancelVars, budget>>

\* The transport fails before an answer arrives; the post may still be taken.
\* Mutant: a taker order is retried like any other.
MayRetryAnyOrder(o) == retried[o] < TransportRetries
MayRetry(o) == o \notin Market /\ retried[o] < TransportRetries
TransportError(o) ==
    /\ pc[o] = "answer"
    /\ Fault("wire")
    /\ \/ /\ MayRetry(o)
          /\ retried' = [retried EXCEPT ![o] = @ + 1]
          /\ Goto(o, "post")
          /\ UNCHANGED <<claimed, refreshed, daily, keeper, local>>
       \/ /\ ~MayRetry(o)
          /\ Abandon(o, keeper, "done")
          /\ Fail(o)
    /\ UNCHANGED <<posts, venue, cached, recon, cancelVars>>

\* Mutant: the handler of the cancellation gives nothing back.
TaskCancelledKeepsVolume(o) ==
    /\ Fault("timeout")
    /\ o \in InFlight \/ pc[o] = "closing"
    /\ Leave(o, "done")
    /\ UNCHANGED <<daily, keeper, posts, local, venue, cached, recon, cancelVars>>

\* The caller's cycle times out and the coroutine is cancelled at an await.  A
\* release that is waiting to be persisted is made a second time.
TaskCancelled(o) ==
    /\ Fault("timeout")
    /\ \/ /\ o \in InFlight \/ pc[o] = "closing"
          /\ Abandon(o, keeper, "done")
       \/ /\ pc[o] \in {"precheck", "reserve", "count"}
          /\ Leave(o, "done")
          /\ UNCHANGED <<daily, keeper>>
    /\ UNCHANGED <<posts, local, venue, cached, recon, cancelVars>>

(***************************************************************************)
(* The venue.                                                              *)
(***************************************************************************)

Become(o, k, copy) == venue' = [venue EXCEPT ![o][k] = copy]

\* A post arrives, in time or after the caller gave up.  The venue's own check
\* of the balance is the last word.
Answer(o, status) ==
    CASE status = "live" -> Cost[o] <= Free /\ UNCHANGED budget
      [] status = "short" -> (Cost[o] > Free /\ UNCHANGED budget) \/ Fault("reject")
      [] status = "invalid" -> (o \in PostOnly /\ UNCHANGED budget) \/ Fault("reject")
      [] status = "refused" -> Fault("reject")
VenueDecides(o, k) ==
    /\ venue[o][k].status = "wire"
    /\ \E status \in {"live"} \cup Refusals :
          Answer(o, status) /\ Become(o, k, [status |-> status, matched |-> 0])
    /\ UNCHANGED <<places, local, books, recon, cancelVars>>

\* A taker is filled at once and the rest of it is killed; a resting order
\* fills bit by bit.
VenueMatches(o, k) ==
    /\ venue[o][k].status = "live"
    /\ \E m \in venue[o][k].matched + 1 .. Cost[o] :
          Become(o, k, [status |-> CASE m = Cost[o] -> "matched"
                                     [] o \in Market -> "cancelled"
                                     [] OTHER -> "live",
                        matched |-> m])
    /\ UNCHANGED <<places, local, books, recon, cancelVars, budget>>

(***************************************************************************)
(* cancel_order and the order snapshots.                                   *)
(***************************************************************************)

\* Callers pass the venue's id, under which no local order is found: the check
\* of the local status is skipped.  An order that is gone already may be
\* answered as cancelled too.
CancelOrder(o) ==
    /\ local[o].id # 0
    /\ cancels < MaxCancels
    /\ LET k == local[o].id
       IN venue' = IF venue[o][k].status = "live"
                   THEN [venue EXCEPT ![o][k].status = "cancelled"] ELSE venue
    /\ cancels' = cancels + 1
    /\ cancelling' = [cancelling EXCEPT ![o] = @ + 1]
    /\ UNCHANGED <<places, local, books, recon, budget>>

\* The acknowledgement arrives: what the local order still has open is released.
CancelReturns(o) ==
    /\ cancelling[o] > 0
    /\ cancelling' = [cancelling EXCEPT ![o] = @ - 1]
    /\ local' = [local EXCEPT ![o].status = "cancelled"]
    /\ LET remaining == Cost[o] - local[o].filled
       IN IF remaining > 0 THEN ReleaseReservation(keeper, remaining)
          ELSE UNCHANGED <<daily, keeper>>
    /\ UNCHANGED <<places, venue, cached, recon, cancels, budget>>

\* get_order_snapshots_by_clob_ids brings the venue's view of the order.
ApplySnapshot(o) ==
    /\ local[o].id # 0
    /\ LET copy == venue[o][local[o].id]
       IN local' = [local EXCEPT ![o].filled = copy.matched,
                                 ![o].status = IF copy.status = "cancelled" THEN "cancelled"
                                               ELSE FillStatus(o, copy.matched)]
    /\ UNCHANGED <<places, venue, books, recon, cancelVars, budget>>

\* The venue does not know the order, or a listing that is remembered is older
\* than it: it counts as filled if a fill is known, or if the wallet holds a
\* position in its token, and as cancelled otherwise.  (Orders differ in their
\* tokens.)
Held(o) == SumFunctionOnSet([k \in Copies |-> venue[o][k].matched], Copies)
SnapshotNotFound(o) ==
    /\ local[o].id # 0
    /\ \E filled \in IF local[o].filled > 0 THEN {local[o].filled}
                     ELSE {0, IF Held(o) > Cost[o] THEN Cost[o] ELSE Held(o)} :
          local' = [local EXCEPT ![o].filled = filled,
                                 ![o].status = IF filled > 0 THEN "filled" ELSE "cancelled"]
    /\ UNCHANGED <<places, venue, books, recon, cancelVars, budget>>

\* _sync_provider_open_orders closes the orders the venue no longer lists.
SyncOpenOrders(o) ==
    /\ local[o].status \in Active
    /\ venue[o][local[o].id].status # "live"
    /\ local' = [local EXCEPT ![o].status = IF @ = "partial" THEN "filled" ELSE "cancelled"]
    /\ UNCHANGED <<places, venue, books, recon, cancelVars, budget>>

(***************************************************************************)
(* The reconciler, and time.                                               *)
(***************************************************************************)

\* _keeper_reconcile_once: remember what is reserved, ...
ReconcileAsk ==
    /\ recon.at = "idle"
    /\ recon' = [recon EXCEPT !.at = "asked", !.snapshot = keeper.reserved,
                              !.initialized = keeper.initialized]
    /\ UNCHANGED <<places, local, venue, books, cancelVars, budget>>

\* ... read the balance, ...
ReconcileRead ==
    /\ recon.at = "asked"
    /\ recon' = [recon EXCEPT !.at = "read", !.reading = Balance]
    /\ cached' = Balance
    /\ UNCHANGED <<places, local, venue, keeper, daily, cancelVars, budget>>

\* ... and settle what was reserved when the reading was asked for.
\* Mutant: the reading is taken over, what it covers stays reserved.
SettledKeepsReserved(k) ==
    IF ~recon.initialized THEN Seeded(recon.reading)
    ELSE [k EXCEPT !.chain = recon.reading, !.stale = FALSE]
Settled(k) ==
    IF ~recon.initialized THEN Seeded(recon.reading)
    ELSE [k EXCEPT !.chain = recon.reading, !.stale = FALSE,
                   !.reserved = NonNegative(@ - recon.snapshot)]
ReconcileSettle ==
    /\ recon.at = "read"
    /\ keeper' = Settled(keeper)
    /\ recon' = [recon EXCEPT !.at = "idle", !.snapshot = 0,
                              !.initialized = FALSE, !.reading = 0]
    /\ UNCHANGED <<places, local, venue, cached, daily, cancelVars, budget>>

\* The balance cannot be read, for so long that the keeper is not trusted.
ChainUnreachable ==
    /\ recon.at = "asked" /\ cached = NoReading
    /\ Fault("chain")
    /\ recon' = [recon EXCEPT !.at = "idle"]
    /\ \E stale \in {keeper.stale, keeper.initialized} : keeper' = [keeper EXCEPT !.stale = stale]
    /\ UNCHANGED <<places, local, venue, cached, daily, cancelVars>>

\* _BALANCE_CACHE_TTL_SECONDS have passed.
ExpireBalanceCache ==
    /\ cached # NoReading
    /\ cached' = NoReading
    /\ UNCHANGED <<places, local, venue, keeper, daily, recon, cancelVars, budget>>

PlaceStep(o) ==
    \/ CheckBuyGate(o) \/ KeeperTryReserve(o) \/ ValidateAndCount(o) \/ GateAfterReserve(o)
    \/ PostOrder(o) \/ AttemptsRunOut(o) \/ Acknowledged(o) \/ RetryRefused(o) \/ Refused(o)
    \/ Persisted(o)
Reconcile == ReconcileAsk \/ ReconcileRead \/ ReconcileSettle

Next ==
    \/ \E o \in Orders : \/ PlaceStep(o) \/ TransportError(o) \/ TaskCancelled(o)
                         \/ CancelOrder(o) \/ CancelReturns(o)
                         \/ ApplySnapshot(o) \/ SnapshotNotFound(o) \/ SyncOpenOrders(o)
                         \/ \E k \in Copies : VenueDecides(o, k) \/ VenueMatches(o, k)
    \/ Reconcile \/ ChainUnreachable \/ ExpireBalanceCache

Spec == Init /\ [][Next]_vars

\* Coroutines are scheduled, the venue answers, the reconciler loops for ever
\* and the cache expires.  The calls take finitely many steps, so that it does
\* for all of them to be treated fairly together.
Advance == \E o \in Orders : \/ PlaceStep(o) \/ CancelReturns(o)
                             \/ \E k \in Copies : VenueDecides(o, k)
FairSpec == Spec /\ WF_vars(Advance) /\ WF_vars(Reconcile) /\ WF_vars(ExpireBalanceCache)

(***************************************************************************)
(* Properties.                                                             *)
(***************************************************************************)

\* The variables keep their types.
TypeOK ==
    /\ pc \in [Orders -> {"precheck", "reserve", "count", "gate", "post", "answer",
                        "closing", "exhausted", "done"}]
    /\ claimed \in [Orders -> BOOLEAN] /\ refreshed \in [Orders -> BOOLEAN]
    /\ posts \in [Orders -> 0 .. Cardinality(Copies)]
    /\ retried \in [Orders -> 0 .. TransportRetries]
    /\ local \in [Orders -> [status : Active \cup {"none", "failed", "filled", "cancelled"},
                             id : Copies \cup {0}, filled : Nat]]
    /\ venue \in [Orders -> [Copies -> [status : Taken \cup Refusals \cup {"none", "wire"},
                                        matched : Nat]]]
    /\ \A o \in Orders : /\ local[o].filled <= Cost[o]
                          /\ \A k \in Copies : venue[o][k].matched <= Cost[o]
    /\ keeper \in [chain : Nat, reserved : Nat, initialized : BOOLEAN, stale : BOOLEAN]
    /\ cached \in Nat \cup {NoReading}
    /\ daily \in 0 .. DailyCap
    /\ recon \in [at : {"idle", "asked", "read"}, snapshot : Nat,
                   initialized : BOOLEAN, reading : Nat]
    /\ cancelling \in [Orders -> Nat]
    /\ budget \in Nat

\* "Release the reservation before re-raising so the daily volume counter
\* doesn't leak phantom volume": the counter holds nothing but orders that are
\* being placed and orders the venue acknowledged, however the others ended;
\* what it never gives back is the volume of orders whose attempts ran out.
NoPhantomVolume ==
    daily <= CostOf(InFlight \cup Exhausted \cup {o \in Orders : local[o].id # 0})

\* A taker order whose answer was lost is not sent again, so that it is never
\* bought twice, not even by a post that arrives after the call has failed.
TakerBoughtOnce ==
    \A o \in Market : Cardinality({k \in Copies : venue[o][k].status \in Taken}) <= 1

\* "The reconciler ALWAYS converges to the chain reading": when orders come
\* and go no longer, the keeper offers what the wallet has; reservations that
\* a cancelled task left behind are worked off.
KeeperConverges == <>[](keeper.initialized /\ Effective = Available)
=============================================================================

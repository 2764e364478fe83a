----------------------- MODULE CollateralKeeperProofs -----------------------
(***************************************************************************)
(* Proofs about CollateralKeeper for any finite set of orders with any     *)
(* costs, any deposit and limits, and any number of failures.              *)
(***************************************************************************)
EXTENDS CollateralKeeper, SumTheorems

USE KeeperAssumption

(***************************************************************************)
(* The wallet.                                                             *)
(***************************************************************************)

Cells == Orders \X Copies
\* The venue never holds and takes more than the wallet has.
Affordable == SumFunctionOnSet(Draws, Cells) <= Deposit

\* There are finitely many copies.
LEMMA CellsFinite ==
    /\ IsFiniteSet(Copies) /\ Cardinality(Copies) = TransportRetries + 2
    /\ IsFiniteSet(Cells)
<1>1. /\ 1 \in Int /\ TransportRetries + 2 \in Int
      /\ IF 1 > TransportRetries + 2 THEN 0 = TransportRetries + 2
                                     ELSE (TransportRetries + 2) - 1 + 1 = TransportRetries + 2
  OBVIOUS
<1>2. IsFiniteSet(Copies) /\ Cardinality(Copies) = TransportRetries + 2
  BY <1>1, FS_Interval DEF Copies
<1> QED
  BY <1>2, FS_Product DEF Cells

\* What the venue draws for a copy is an amount.
LEMMA DrawTypes ==
    ASSUME TypeOK
    PROVE  /\ NatOn(Draws, Cells) /\ IntOn(Draws, Cells)
           /\ SumFunctionOnSet(Draws, Cells) \in Nat
<1>1. \A o \in Orders, k \in Copies : Drawn(o, k) \in Nat
  BY DEF TypeOK, Drawn
<1>2. NatOn(Draws, Cells) /\ IntOn(Draws, Cells)
  BY <1>1 DEF NatOn, IntOn, Draws, Cells
<1> QED
  BY <1>2, CellsFinite, SumMonotone

\* What was taken for fills is at most what the venue draws.
LEMMA SpentTypes ==
    ASSUME TypeOK
    PROVE  Spent \in Nat /\ Spent <= SumFunctionOnSet(Draws, Cells)
<1>1. \A o \in Orders, k \in Copies : /\ venue[o][k].matched \in Nat
                                     /\ venue[o][k].matched <= Drawn(o, k)
  BY DEF TypeOK, Drawn
<1>2. NatOn(Fills, Cells) /\ \A c \in Cells : Fills[c] <= Draws[c]
  BY <1>1 DEF NatOn, Fills, Draws, Cells
<1>3. SumFunctionOnSet(Fills, Cells) \in Nat
  BY <1>2, CellsFinite, SumMonotone
<1>4. SumFunctionOnSet(Fills, Cells) <= SumFunctionOnSet(Draws, Cells)
  BY <1>2, DrawTypes, CellsFinite, SumPointwise
<1> QED
  BY <1>3, <1>4 DEF Spent, Cells

\* The wallet is not overdrawn and readings of it are amounts.
LEMMA WalletTypes ==
    ASSUME TypeOK, Affordable
    PROVE  Available \in Nat /\ Balance \in Nat
<1> DEFINE drawn == SumFunctionOnSet(Draws, Cells)
<1>1. drawn \in Nat /\ drawn <= Deposit
  BY DrawTypes DEF Affordable
<1>2. Available = Deposit - Spent /\ Spent \in Nat /\ Spent <= drawn
  BY SpentTypes DEF Available
<1> HIDE DEF drawn
<1>3. Available \in Nat
  BY <1>1, <1>2
<1> QED
  BY <1>3 DEF Balance, TypeOK, NoReading

\* One copy changes: the wallet can afford it when the venue draws no more for
\* it than before, or no more than was free.
LEMMA OneCopyChanges ==
    ASSUME TypeOK, TypeOK', Affordable, NEW o \in Orders, NEW k \in Copies,
           \A c \in Cells : c # <<o, k>> => Draws'[c] = Draws[c],
           Draws'[<<o, k>>] <= Draws[<<o, k>>] \/ Draws'[<<o, k>>] <= Free
    PROVE  Affordable'
<1> DEFINE before == SumFunctionOnSet(Draws, Cells)
           after == SumFunctionOnSet(Draws', Cells)
           b == Draws[<<o, k>>]
           a == Draws'[<<o, k>>]
<1>1. IntOn(Draws, Cells) /\ NatOn(Draws, Cells) /\ before \in Nat
  BY DrawTypes
<1>2. IntOn(Draws', Cells) /\ NatOn(Draws', Cells)
  <2>1. \A p \in Orders, j \in Copies : Drawn(p, j)' \in Nat
    BY DEF TypeOK, Drawn
  <2> QED
    BY <2>1 DEF NatOn, IntOn, Draws, Cells
<1>3. <<o, k>> \in Cells
  BY DEF Cells
<1>4. after = before - b + a
  BY <1>1, <1>2, <1>3, CellsFinite, SumChange
<1>5. a \in Nat /\ b \in Nat
  BY <1>1, <1>2, <1>3 DEF NatOn
<1>6. a <= b \/ a <= Deposit - before
  BY DEF Free, Cells
<1>7. before <= Deposit
  BY DEF Affordable
<1> HIDE DEF before, after, a, b
<1>8. after <= Deposit
  BY <1>1, <1>4, <1>5, <1>6, <1>7
<1> QED
  BY <1>8 DEF Affordable, after, Cells

\* Nothing changes at the venue.
LEMMA NoCopyChanges ==
    ASSUME Affordable, UNCHANGED venue
    PROVE  Affordable'
BY DEF Affordable, Draws, Drawn, Cells

(***************************************************************************)
(* Types and control.                                                      *)
(***************************************************************************)

KeeperType == [chain : Nat, reserved : Nat, initialized : BOOLEAN, stale : BOOLEAN]
OrderType == [status : Active \cup {"none", "failed", "filled", "cancelled"},
              id : Copies \cup {0}, filled : Nat]
CopyType == [status : Taken \cup Refusals \cup {"none", "wire"}, matched : Nat]

\* The parts of TypeOK.
PlaceOK == /\ pc \in [Orders -> {"precheck", "reserve", "count", "gate", "post", "answer",
                                "closing", "exhausted", "done"}]
           /\ claimed \in [Orders -> BOOLEAN] /\ refreshed \in [Orders -> BOOLEAN]
           /\ posts \in [Orders -> 0 .. Cardinality(Copies)]
           /\ retried \in [Orders -> 0 .. TransportRetries]
LocalOK == /\ local \in [Orders -> OrderType]
           /\ \A o \in Orders : local[o].filled <= Cost[o]
VenueOK == /\ venue \in [Orders -> [Copies -> CopyType]]
           /\ \A o \in Orders : \A k \in Copies : venue[o][k].matched <= Cost[o]
BooksOK == /\ keeper \in KeeperType
           /\ cached \in Nat \cup {NoReading}
           /\ daily \in 0 .. DailyCap
ReconOK == recon \in [at : {"idle", "asked", "read"}, snapshot : Nat,
                      initialized : BOOLEAN, reading : Nat]
RestOK == cancelling \in [Orders -> Nat] /\ budget \in Nat

\* Together they are TypeOK, before and after a step.
LEMMA TypeParts ==
    /\ TypeOK <=> PlaceOK /\ LocalOK /\ VenueOK /\ BooksOK /\ ReconOK /\ RestOK
    /\ TypeOK' <=> PlaceOK' /\ LocalOK' /\ VenueOK' /\ BooksOK' /\ ReconOK' /\ RestOK'
BY DEF TypeOK, PlaceOK, LocalOK, VenueOK, BooksOK, ReconOK, RestOK, KeeperType, OrderType, CopyType

\* An order that waits for an answer was posted, one that is not counted yet or
\* meets the gate was not; and an order has an id only after place_order is done
\* with it.
Control ==
    \A o \in Orders :
        /\ pc[o] \in {"precheck", "reserve", "count", "gate"} => posts[o] = 0
        /\ pc[o] = "answer" => posts[o] # 0
        /\ pc[o] # "done" => local[o].id = 0
        /\ local[o].status \in Active => local[o].id # 0

KeeperInv == TypeOK /\ Control /\ Affordable

\* The keepers that the operations write.
LEMMA KeeperTypes ==
    /\ \A n \in Nat : Seeded(n) \in KeeperType
    /\ \A k \in KeeperType, n \in Nat : [k EXCEPT !.reserved = n] \in KeeperType
    /\ \A k \in KeeperType, n \in Nat : Release(k, n) \in KeeperType
<1>1. \A n \in Nat : Seeded(n) \in KeeperType
  BY DEF KeeperType, Seeded
<1>2. \A k \in KeeperType, n \in Nat : [k EXCEPT !.reserved = n] \in KeeperType
  BY DEF KeeperType
<1>3. ASSUME NEW k \in KeeperType, NEW n \in Nat PROVE Release(k, n) \in KeeperType
  <2>1. k.reserved \in Nat
    BY DEF KeeperType
  <2>2. NonNegative(k.reserved - n) \in Nat
    BY <2>1 DEF NonNegative
  <2>3. Release(k, n) = [k EXCEPT !.reserved = NonNegative(k.reserved - n)]
    BY DEF Release
  <2> QED
    BY <1>2, <2>2, <2>3
<1> QED
  BY <1>1, <1>2, <1>3

\* What the gate leaves has the right types.
LEMMA GateTypes ==
    ASSUME KeeperInv, NEW o \in Orders, NEW pass \in BOOLEAN,
           NEW view \in {keeper, Seeded(Balance)}, EnforceGate(o, pass, view)
    PROVE  /\ view \in KeeperType
           /\ cached' \in Nat \cup {NoReading} /\ budget' \in Nat
<1>1. Available \in Nat /\ Balance \in Nat
  BY WalletTypes DEF KeeperInv
<1>2. /\ keeper \in KeeperType
      /\ cached \in Nat \cup {NoReading} /\ budget \in Nat
  BY DEF KeeperInv, TypeOK, KeeperType
<1>3. view \in KeeperType
  BY <1>1, <1>2, KeeperTypes
<1>4. cached' \in {cached, NoReading, Available, Balance}
  BY DEF EnforceGate, HotGate, LegacyGate, BlindGate
<1>5. budget' = budget \/ (budget > 0 /\ budget' = budget - 1)
  BY DEF EnforceGate, BlindGate, Fault
<1> QED
  BY <1>1, <1>2, <1>3, <1>4, <1>5

\* A release keeps the types.
LEMMA ReleaseTypes ==
    ASSUME daily \in 0 .. DailyCap, NEW amount \in Nat, NEW view \in KeeperType,
           ReleaseReservation(view, amount)
    PROVE  /\ daily' \in 0 .. DailyCap /\ daily' = NonNegative(daily - amount)
           /\ keeper' \in KeeperType
<1>1. daily' \in 0 .. DailyCap /\ daily' = NonNegative(daily - amount)
  BY DEF ReleaseReservation, NonNegative
<1>2. amount + MinBalance \in Nat
  OBVIOUS
<1> QED
  BY <1>1, <1>2, KeeperTypes DEF ReleaseReservation

\* A call that ends keeps the types of its local variables.
LEMMA LeaveTypes ==
    ASSUME PlaceOK, NEW o \in Orders, NEW label \in {"closing", "exhausted", "done"},
           Leave(o, label), UNCHANGED posts
    PROVE  PlaceOK'
<1>1. claimed' \in [Orders -> BOOLEAN] /\ refreshed' \in [Orders -> BOOLEAN]
  BY DEF PlaceOK, Leave
<1>2. retried' \in [Orders -> 0 .. TransportRetries]
  <2>1. 0 \in 0 .. TransportRetries
    OBVIOUS
  <2> QED
    BY <2>1 DEF PlaceOK, Leave
<1>3. pc' \in [Orders -> {"precheck", "reserve", "count", "gate", "post", "answer",
                          "closing", "exhausted", "done"}]
  BY DEF PlaceOK, Leave, Goto
<1> QED
  BY <1>1, <1>2, <1>3 DEF PlaceOK

\* A failed order keeps its type.
LEMMA FailTypes ==
    ASSUME LocalOK, NEW o \in Orders, Fail(o)
    PROVE  LocalOK'
BY DEF LocalOK, Fail, OrderType

\* A copy at the venue is replaced.
LEMMA CopyTypes ==
    ASSUME VenueOK, NEW o \in Orders, NEW k \in Copies, NEW c \in CopyType, c.matched <= Cost[o],
           venue' = [venue EXCEPT ![o][k] = c]
    PROVE  /\ VenueOK' /\ venue'[o][k] = c
           /\ \A p \in Orders, j \in Copies : <<p, j>> # <<o, k>> => venue'[p][j] = venue[p][j]
<1>1. venue'[o] = [venue[o] EXCEPT ![k] = c] /\ venue[o] \in [Copies -> CopyType]
  BY DEF VenueOK
<1>2. venue'[o] \in [Copies -> CopyType] /\ venue'[o][k] = c
      /\ \A j \in Copies : j # k => venue'[o][j] = venue[o][j]
  BY <1>1
<1>3. \A p \in Orders : p # o => venue'[p] = venue[p]
  BY DEF VenueOK
<1>4. venue' \in [Orders -> [Copies -> CopyType]]
  BY <1>2, <1>3 DEF VenueOK
<1> QED
  BY <1>2, <1>3, <1>4 DEF VenueOK

\* A failure is counted down.
LEMMA FaultTypes == ASSUME budget \in Nat, NEW kind, Fault(kind) PROVE budget' \in Nat
BY DEF Fault

\* The gates and the reservation keep the invariant.
LEMMA ReserveSteps ==
    ASSUME KeeperInv, NEW o \in Orders,
           CheckBuyGate(o) \/ KeeperTryReserve(o) \/ ValidateAndCount(o) \/ GateAfterReserve(o)
    PROVE  KeeperInv'
<1> USE DEF KeeperInv, Goto, cancelVars
<1>0. PlaceOK /\ LocalOK /\ VenueOK /\ BooksOK /\ ReconOK /\ RestOK
  BY TypeParts
<1>1. CASE CheckBuyGate(o)
  <2>1. PICK pass \in BOOLEAN, view \in {keeper, Seeded(Balance)} :
           /\ EnforceGate(o, pass, view) /\ keeper' = view
           /\ Goto(o, IF pass THEN "reserve" ELSE "done")
    BY <1>1 DEF CheckBuyGate
  <2>2. PlaceOK'
    BY <1>0, <1>1, <2>1 DEF CheckBuyGate, PlaceOK
  <2>3. LocalOK' /\ VenueOK' /\ ReconOK'
    BY <1>0, <1>1 DEF CheckBuyGate, LocalOK, VenueOK, ReconOK
  <2>4. BooksOK' /\ RestOK'
    BY <1>0, <1>1, <2>1, GateTypes DEF CheckBuyGate, BooksOK, RestOK
  <2>5. Control'
    BY <1>0, <1>1, <2>1 DEF CheckBuyGate, PlaceOK, Control
  <2> QED
    BY <1>1, <2>2, <2>3, <2>4, <2>5, TypeParts, NoCopyChanges DEF CheckBuyGate
<1>2. CASE KeeperTryReserve(o)
  <2>1. PlaceOK'
    BY <1>0, <1>2 DEF KeeperTryReserve, PlaceOK
  <2>2. LocalOK'
    BY <1>0, <1>2, FailTypes DEF KeeperTryReserve, LocalOK
  <2>3. keeper \in KeeperType /\ keeper.reserved + Required(o) \in Nat
    BY <1>0 DEF BooksOK, KeeperType, Required
  <2>4. BooksOK'
    BY <1>0, <1>2, <2>3, KeeperTypes DEF KeeperTryReserve, BooksOK
  <2>5. VenueOK' /\ ReconOK' /\ RestOK'
    BY <1>0, <1>2 DEF KeeperTryReserve, VenueOK, ReconOK, RestOK
  <2>6. Control'
    BY <1>0, <1>2 DEF KeeperTryReserve, PlaceOK, LocalOK, OrderType, Control, Active, Fail
  <2> QED
    BY <1>2, <2>1, <2>2, <2>4, <2>5, <2>6, TypeParts, NoCopyChanges DEF KeeperTryReserve
<1>3. CASE ValidateAndCount(o)
  <2>1. PICK volume \in {daily, 0} :
          /\ (volume = daily /\ UNCHANGED budget) \/ (volume = 0 /\ Fault("day"))
          /\ \/ /\ volume + Cost[o] <= DailyCap
                /\ daily' = volume + Cost[o]
                /\ Goto(o, IF o \in Managed THEN "post" ELSE "gate")
                /\ UNCHANGED <<keeper, local, claimed>>
             \/ /\ volume + Cost[o] > DailyCap
                /\ daily' = volume
                /\ keeper' = IF claimed[o] THEN Release(keeper, Required(o)) ELSE keeper
                /\ claimed' = [claimed EXCEPT ![o] = FALSE]
                /\ Fail(o)
                /\ Goto(o, "done")
    BY <1>3 DEF ValidateAndCount
  <2>2. PlaceOK'
    BY <1>0, <1>3, <2>1 DEF ValidateAndCount, PlaceOK
  <2>3. LocalOK'
    BY <1>0, <2>1, FailTypes DEF LocalOK
  <2>4. daily' \in 0 .. DailyCap
    BY <1>0, <2>1 DEF BooksOK
  <2>5. keeper' \in KeeperType
    <3>1. Required(o) \in Nat
      BY DEF Required
    <3>2. keeper' \in {keeper, Release(keeper, Required(o))}
      BY <2>1
    <3> QED
      BY <1>0, <3>1, <3>2, KeeperTypes DEF BooksOK
  <2>6. BooksOK' /\ VenueOK' /\ ReconOK' /\ RestOK'
    BY <1>0, <1>3, <2>1, <2>4, <2>5, FaultTypes
       DEF ValidateAndCount, BooksOK, VenueOK, ReconOK, RestOK
  <2>7. Control'
    BY <1>0, <1>3, <2>1
       DEF ValidateAndCount, PlaceOK, LocalOK, OrderType, Control, Active, Fail
  <2> QED
    BY <1>3, <2>2, <2>3, <2>6, <2>7, TypeParts, NoCopyChanges DEF ValidateAndCount
<1>4. CASE GateAfterReserve(o)
  <2>1. PICK pass \in BOOLEAN, view \in {keeper, Seeded(Balance)} :
          /\ EnforceGate(o, pass, view)
          /\ IF pass
             THEN Goto(o, "post") /\ keeper' = view
                  /\ UNCHANGED <<claimed, retried, refreshed, daily, local>>
             ELSE Abandon(o, view, "done") /\ Fail(o)
    BY <1>4 DEF GateAfterReserve
  <2>2. PlaceOK'
    <3>1. CASE pass
      BY <1>0, <1>4, <2>1, <3>1 DEF GateAfterReserve, PlaceOK
    <3>2. CASE ~pass
      BY <1>0, <1>4, <2>1, <3>2, LeaveTypes DEF GateAfterReserve, Abandon
    <3> QED
      BY <3>1, <3>2
  <2>3. LocalOK'
    BY <1>0, <2>1, FailTypes DEF LocalOK
  <2>4. view \in KeeperType /\ cached' \in Nat \cup {NoReading} /\ budget' \in Nat
    BY <2>1, GateTypes
  <2>5. BooksOK'
    BY <1>0, <2>1, <2>4, ReleaseTypes DEF BooksOK, Abandon
  <2>6. VenueOK' /\ ReconOK' /\ RestOK'
    BY <1>0, <1>4, <2>4 DEF GateAfterReserve, VenueOK, ReconOK, RestOK
  <2>7. Control'
    BY <1>0, <1>4, <2>1
       DEF GateAfterReserve, PlaceOK, LocalOK, OrderType, Control, Active, Fail, Abandon, Leave
  <2> QED
    BY <1>4, <2>2, <2>3, <2>5, <2>6, <2>7, TypeParts, NoCopyChanges DEF GateAfterReserve
<1> QED
  BY <1>1, <1>2, <1>3, <1>4

\* The submission loop keeps the invariant.
LEMMA SubmitSteps ==
    ASSUME KeeperInv, NEW o \in Orders,
           \/ PostOrder(o) \/ AttemptsRunOut(o) \/ Acknowledged(o) \/ RetryRefused(o)
           \/ Refused(o) \/ Persisted(o) \/ TransportError(o) \/ TaskCancelled(o)
    PROVE  KeeperInv'
<1> USE DEF KeeperInv, Goto, cancelVars
<1>0. PlaceOK /\ LocalOK /\ VenueOK /\ BooksOK /\ ReconOK /\ RestOK
  BY TypeParts
<1>1. CASE PostOrder(o)
  <2> DEFINE k == posts[o] + 1
  <2>1. k \in Copies /\ k \in 0 .. Cardinality(Copies)
    <3>1. posts[o] < Cardinality(Copies) /\ posts[o] \in 0 .. Cardinality(Copies)
      BY <1>0, <1>1 DEF PostOrder, PlaceOK
    <3> QED
      BY <3>1, CellsFinite DEF Copies
  <2>2. venue' = [venue EXCEPT ![o][k].status = "wire"] /\ posts' = [posts EXCEPT ![o] = k]
    BY <1>1 DEF PostOrder
  <2> HIDE DEF k
  <2>3. PlaceOK'
    BY <1>0, <1>1, <2>1, <2>2 DEF PostOrder, PlaceOK
  <2>4. VenueOK'
    <3> DEFINE c == [venue[o][k] EXCEPT !.status = "wire"]
    <3>1. venue[o][k] \in CopyType /\ venue[o][k].matched <= Cost[o]
      BY <1>0, <2>1 DEF VenueOK
    <3>2. c \in CopyType /\ c.matched <= Cost[o]
      BY <3>1 DEF CopyType
    <3>3. venue' = [venue EXCEPT ![o][k] = c]
      BY <2>2
    <3> HIDE DEF c
    <3> QED
      BY <1>0, <2>1, <3>2, <3>3, CopyTypes
  <2>5. LocalOK' /\ BooksOK' /\ ReconOK' /\ RestOK'
    BY <1>0, <1>1 DEF PostOrder, LocalOK, BooksOK, ReconOK, RestOK, books
  <2>6. Control'
    BY <1>0, <1>1, <2>2 DEF PostOrder, PlaceOK, LocalOK, OrderType, Control, k
  <2>7. TypeOK'
    BY <2>3, <2>4, <2>5, TypeParts
  <2>8. /\ \A c \in Cells : c # <<o, k>> => Draws'[c] = Draws[c]
        /\ Draws'[<<o, k>>] <= Draws[<<o, k>>]
    BY <1>0, <2>1, <2>2 DEF Draws, Drawn, Cells, VenueOK, CopyType
  <2> QED
    BY <2>1, <2>6, <2>7, <2>8, OneCopyChanges
<1>2. CASE Acknowledged(o)
  <2> DEFINE k == posts[o]
  <2>1. k \in Copies /\ k # 0
    <3>1. posts[o] # 0 /\ posts[o] \in 0 .. Cardinality(Copies)
      BY <1>0, <1>2 DEF Acknowledged, Control, PlaceOK
    <3> QED
      BY <3>1, CellsFinite DEF Copies
  <2>2. PICK filled \in {0, venue[o][k].matched} :
          local' = [local EXCEPT ![o] =
                       [status |-> FillStatus(o, filled), id |-> k, filled |-> filled]]
    BY <1>2 DEF Acknowledged
  <2> HIDE DEF k
  <2>3. filled \in Nat /\ filled <= Cost[o]
    BY <1>0, <2>1 DEF VenueOK, CopyType
  <2>4. [status |-> FillStatus(o, filled), id |-> k, filled |-> filled] \in OrderType
    BY <2>1, <2>3 DEF OrderType, FillStatus, Active
  <2>5. LocalOK'
    BY <1>0, <2>2, <2>3, <2>4 DEF LocalOK
  <2>8. PlaceOK'
    BY <1>0, <1>2, LeaveTypes DEF Acknowledged
  <2>6. VenueOK' /\ BooksOK' /\ ReconOK' /\ RestOK'
    BY <1>0, <1>2 DEF Acknowledged, VenueOK, BooksOK, ReconOK, RestOK, books
  <2>7. Control'
    BY <1>0, <1>2, <2>1, <2>2 DEF Acknowledged, PlaceOK, LocalOK, Control, Leave
  <2> QED
    BY <1>2, <2>5, <2>6, <2>7, <2>8, TypeParts, NoCopyChanges DEF Acknowledged
<1>3. CASE Refused(o)
  <2>1. PlaceOK'
    BY <1>0, <1>3, LeaveTypes DEF Refused, Abandon
  <2>2. LocalOK'
    BY <1>0, <1>3, FailTypes DEF Refused, LocalOK
  <2>3. BooksOK'
    BY <1>0, <1>3, ReleaseTypes DEF Refused, BooksOK, Abandon
  <2>4. VenueOK' /\ ReconOK' /\ RestOK'
    BY <1>0, <1>3 DEF Refused, VenueOK, ReconOK, RestOK
  <2>5. Control'
    BY <1>0, <1>3
       DEF Refused, PlaceOK, LocalOK, OrderType, Control, Active, Fail, Abandon, Leave
  <2> QED
    BY <1>3, <2>1, <2>2, <2>3, <2>4, <2>5, TypeParts, NoCopyChanges DEF Refused
<1>4. CASE TransportError(o)
  <2>1. PlaceOK'
    <3>1. CASE MayRetry(o)
      <4>1. retried[o] < TransportRetries /\ retried' = [retried EXCEPT ![o] = @ + 1]
            /\ pc' = [pc EXCEPT ![o] = "post"] /\ UNCHANGED <<claimed, refreshed, posts>>
        BY <1>4, <3>1 DEF TransportError, MayRetry
      <4>2. retried' \in [Orders -> 0 .. TransportRetries]
        BY <1>0, <4>1 DEF PlaceOK
      <4> QED
        BY <1>0, <4>1, <4>2 DEF PlaceOK
    <3>2. CASE ~MayRetry(o)
      BY <1>0, <1>4, <3>2, LeaveTypes DEF TransportError, Abandon
    <3> QED
      BY <3>1, <3>2
  <2>2. LocalOK'
    BY <1>0, <1>4, FailTypes DEF TransportError, LocalOK
  <2>3. BooksOK'
    BY <1>0, <1>4, ReleaseTypes DEF TransportError, BooksOK, Abandon
  <2>4. VenueOK' /\ ReconOK' /\ RestOK'
    BY <1>0, <1>4, FaultTypes DEF TransportError, VenueOK, ReconOK, RestOK
  <2>5. Control'
    BY <1>0, <1>4
       DEF TransportError, PlaceOK, LocalOK, OrderType, Control, Active, Fail, Abandon, Leave
  <2> QED
    BY <1>4, <2>1, <2>2, <2>3, <2>4, <2>5, TypeParts, NoCopyChanges DEF TransportError
<1>5. CASE TaskCancelled(o)
  <2>1. PlaceOK'
    BY <1>0, <1>5, LeaveTypes DEF TaskCancelled, Abandon
  <2>2. BooksOK'
    BY <1>0, <1>5, ReleaseTypes DEF TaskCancelled, BooksOK, Abandon
  <2>3. LocalOK' /\ VenueOK' /\ ReconOK' /\ RestOK'
    BY <1>0, <1>5, FaultTypes DEF TaskCancelled, LocalOK, VenueOK, ReconOK, RestOK
  <2>4. Control'
    BY <1>0, <1>5 DEF TaskCancelled, PlaceOK, LocalOK, Control, Abandon, Leave
  <2> QED
    BY <1>5, <2>1, <2>2, <2>3, <2>4, TypeParts, NoCopyChanges DEF TaskCancelled
<1>6. CASE AttemptsRunOut(o) \/ RetryRefused(o) \/ Persisted(o)
  <2>1. PlaceOK'
    <3>1. CASE AttemptsRunOut(o)
      BY <1>0, <3>1, LeaveTypes DEF AttemptsRunOut
    <3>2. CASE RetryRefused(o) \/ Persisted(o)
      BY <1>0, <3>2 DEF RetryRefused, Persisted, PlaceOK
    <3> QED
      BY <1>6, <3>1, <3>2
  <2>2. LocalOK' /\ VenueOK' /\ BooksOK' /\ ReconOK' /\ RestOK'
    BY <1>0, <1>6 DEF AttemptsRunOut, RetryRefused, Persisted, LocalOK, VenueOK, BooksOK, ReconOK,
                      RestOK, books
  <2>3. Control'
    BY <1>0, <1>6 DEF AttemptsRunOut, RetryRefused, Persisted, PlaceOK, LocalOK, Control, Leave
  <2> QED
    BY <1>6, <2>1, <2>2, <2>3, TypeParts, NoCopyChanges DEF AttemptsRunOut, RetryRefused, Persisted
<1> QED
  BY <1>1, <1>2, <1>3, <1>4, <1>5, <1>6
\* The venue keeps the invariant: it takes an order only if the wallet can pay.
LEMMA VenueSteps ==
    ASSUME KeeperInv, NEW o \in Orders, NEW k \in Copies, VenueDecides(o, k) \/ VenueMatches(o, k)
    PROVE  KeeperInv'
<1> USE DEF KeeperInv
<1>0. PlaceOK /\ LocalOK /\ VenueOK /\ BooksOK /\ ReconOK /\ RestOK
  BY TypeParts
<1>1. /\ UNCHANGED <<places, local, books, recon, cancelVars>>
      /\ budget' = budget \/ Fault("reject")
  BY DEF VenueDecides, VenueMatches, Answer, Refusals
<1>2. PlaceOK' /\ LocalOK' /\ BooksOK' /\ ReconOK' /\ RestOK'
  BY <1>0, <1>1, FaultTypes
     DEF PlaceOK, LocalOK, BooksOK, ReconOK, RestOK, places, books, cancelVars
<1>3. Control'
  BY <1>1 DEF Control, places
<1>4. PICK c \in CopyType :
        /\ Become(o, k, c) /\ c.matched <= Cost[o]
        /\ \/ venue[o][k].status = "live"
           \/ c.status \in Refusals /\ c.matched = 0
           \/ c.status = "live" /\ Cost[o] <= Free
  <2>1. CASE VenueDecides(o, k)
    <3>1. PICK status \in {"live"} \cup Refusals :
            Answer(o, status) /\ Become(o, k, [status |-> status, matched |-> 0])
      BY <2>1 DEF VenueDecides
    <3>2. [status |-> status, matched |-> 0] \in CopyType
      BY DEF CopyType, Taken
    <3>3. status = "live" => Cost[o] <= Free
      BY <3>1 DEF Answer
    <3> QED
      BY <3>1, <3>2, <3>3
  <2>2. CASE VenueMatches(o, k)
    <3>1. venue[o][k].matched \in Nat
      BY <1>0 DEF VenueOK, CopyType
    <3>2. PICK m \in venue[o][k].matched + 1 .. Cost[o] :
            Become(o, k, [status |-> CASE m = Cost[o] -> "matched"
                                     [] o \in Market -> "cancelled"
                                     [] OTHER -> "live",
                          matched |-> m])
      BY <2>2 DEF VenueMatches
    <3>3. m \in Nat /\ m <= Cost[o]
      BY <3>1
    <3> DEFINE s == CASE m = Cost[o] -> "matched" [] o \in Market -> "cancelled" [] OTHER -> "live"
    <3>4. s \in Taken
      BY DEF Taken
    <3>5. Become(o, k, [status |-> s, matched |-> m])
      BY <3>2
    <3> HIDE DEF s
    <3>6. [status |-> s, matched |-> m] \in CopyType
      BY <3>3, <3>4 DEF CopyType
    <3> QED
      BY <2>2, <3>3, <3>5, <3>6 DEF VenueMatches
  <2> QED
    BY <2>1, <2>2
<1>5. venue' = [venue EXCEPT ![o][k] = c]
  BY <1>4 DEF Become
<1>6. /\ VenueOK' /\ venue'[o][k] = c
      /\ \A p \in Orders, j \in Copies : <<p, j>> # <<o, k>> => venue'[p][j] = venue[p][j]
  BY <1>0, <1>4, <1>5, CopyTypes
<1>7. \A d \in Cells : d # <<o, k>> => Draws'[d] = Draws[d]
  BY <1>6 DEF Cells, Draws, Drawn
<1>8. Draws[<<o, k>>] = Drawn(o, k) /\ Draws'[<<o, k>>] = Drawn(o, k)'
  BY DEF Draws
<1>9. Draws'[<<o, k>>] <= Draws[<<o, k>>] \/ Draws'[<<o, k>>] <= Free
  <2>1. venue[o][k].matched \in Nat /\ c.matched \in Nat
    BY <1>0 DEF VenueOK, CopyType
  <2> QED
    BY <1>4, <1>6, <1>8, <2>1 DEF Drawn, Refusals
<1>10. TypeOK'
  BY <1>2, <1>6, TypeParts
<1> QED
  BY <1>3, <1>7, <1>9, <1>10, OneCopyChanges

\* The position in an order's token is an amount.
LEMMA HeldTypes ==
    ASSUME TypeOK, NEW o \in Orders
    PROVE  Held(o) \in Nat
<1> DEFINE f == [k \in Copies |-> venue[o][k].matched]
<1>1. NatOn(f, Copies)
  BY DEF TypeOK, NatOn
<1> HIDE DEF f
<1>2. SumFunctionOnSet(f, Copies) \in Nat
  BY <1>1, CellsFinite, SumMonotone
<1> QED
  BY <1>2 DEF Held, f

\* Cancellations and snapshots keep the invariant.
LEMMA OrderSteps ==
    ASSUME KeeperInv, NEW o \in Orders,
           \/ CancelOrder(o) \/ CancelReturns(o) \/ ApplySnapshot(o)
           \/ SnapshotNotFound(o) \/ SyncOpenOrders(o)
    PROVE  KeeperInv'
<1> USE DEF KeeperInv
<1>0. PlaceOK /\ LocalOK /\ VenueOK /\ BooksOK /\ ReconOK /\ RestOK
  BY TypeParts
<1>1. CASE CancelOrder(o)
  <2>1. PICK k \in Copies : k = local[o].id
    BY <1>0, <1>1 DEF CancelOrder, LocalOK, OrderType
  <2>2. PlaceOK' /\ LocalOK' /\ BooksOK' /\ ReconOK'
    BY <1>0, <1>1 DEF CancelOrder, PlaceOK, LocalOK, BooksOK, ReconOK, places, books
  <2>3. RestOK'
    BY <1>0, <1>1 DEF CancelOrder, RestOK
  <2>4. Control'
    BY <1>1 DEF CancelOrder, Control, places
  <2>5. CASE venue[o][k].status = "live"
    <3> DEFINE c == [venue[o][k] EXCEPT !.status = "cancelled"]
    <3>1. venue[o][k] \in CopyType /\ venue[o][k].matched <= Cost[o]
      BY <1>0, <2>1 DEF VenueOK
    <3>2. c \in CopyType /\ c.matched = venue[o][k].matched /\ c.status = "cancelled"
      BY <3>1 DEF CopyType, Taken
    <3>3. venue' = [venue EXCEPT ![o][k] = c]
      BY <1>1, <2>1, <2>5 DEF CancelOrder
    <3>8. PICK cc \in CopyType : cc = c
      BY <3>2
    <3>9. venue' = [venue EXCEPT ![o][k] = cc] /\ cc.matched <= Cost[o]
      BY <3>1, <3>2, <3>3, <3>8
    <3> HIDE DEF c
    <3>4. /\ VenueOK' /\ venue'[o][k] = cc
          /\ \A p \in Orders, j \in Copies : <<p, j>> # <<o, k>> => venue'[p][j] = venue[p][j]
      BY <1>0, <3>9, CopyTypes
    <3>5. \A d \in Cells : d # <<o, k>> => Draws'[d] = Draws[d]
      BY <3>4 DEF Cells, Draws, Drawn
    <3>6. Draws[<<o, k>>] = Drawn(o, k) /\ Draws'[<<o, k>>] = Drawn(o, k)'
      BY DEF Draws
    <3>7. Draws'[<<o, k>>] <= Draws[<<o, k>>]
      BY <2>5, <3>1, <3>2, <3>4, <3>6, <3>8 DEF Drawn, CopyType
    <3> QED
      BY <2>1, <2>2, <2>3, <2>4, <3>4, <3>5, <3>7, TypeParts, OneCopyChanges
  <2>6. CASE venue[o][k].status # "live"
    <3>1. UNCHANGED venue
      BY <1>1, <2>1, <2>6 DEF CancelOrder
    <3> QED
      BY <1>0, <2>2, <2>3, <2>4, <3>1, TypeParts, NoCopyChanges DEF VenueOK
  <2> QED
    BY <2>5, <2>6
<1>2. CASE CancelReturns(o)
  <2>1. PlaceOK' /\ VenueOK' /\ ReconOK'
    BY <1>0, <1>2 DEF CancelReturns, PlaceOK, VenueOK, ReconOK, places
  <2>2. LocalOK'
    BY <1>0, <1>2 DEF CancelReturns, LocalOK, OrderType
  <2>3. Cost[o] - local[o].filled > 0 => Cost[o] - local[o].filled \in Nat
    BY <1>0 DEF LocalOK, OrderType
  <2>4. BooksOK'
    BY <1>0, <1>2, <2>3, ReleaseTypes DEF CancelReturns, BooksOK
  <2>5. RestOK'
    BY <1>0, <1>2 DEF CancelReturns, RestOK
  <2>6. Control'
    BY <1>0, <1>2 DEF CancelReturns, Control, places, LocalOK, OrderType, Active
  <2> QED
    BY <1>2, <2>1, <2>2, <2>4, <2>5, <2>6, TypeParts, NoCopyChanges DEF CancelReturns
<1>3. CASE ApplySnapshot(o)
  <2> DEFINE copy == venue[o][local[o].id]
             s == IF copy.status = "cancelled" THEN "cancelled" ELSE FillStatus(o, copy.matched)
  <2>1. copy \in CopyType /\ copy.matched <= Cost[o] /\ local[o].id # 0
    BY <1>0, <1>3 DEF ApplySnapshot, LocalOK, OrderType, VenueOK
  <2>2. s \in Active \cup {"filled", "cancelled"}
    BY DEF FillStatus, Active
  <2>3. local' = [local EXCEPT ![o].filled = copy.matched, ![o].status = s]
    BY <1>3 DEF ApplySnapshot
  <2> HIDE DEF copy, s
  <2>4. LocalOK'
    BY <1>0, <2>1, <2>2, <2>3 DEF LocalOK, OrderType, CopyType
  <2>5. PlaceOK' /\ VenueOK' /\ BooksOK' /\ ReconOK' /\ RestOK'
    BY <1>0, <1>3 DEF ApplySnapshot, PlaceOK, VenueOK, BooksOK, ReconOK, RestOK, places, books,
                      cancelVars
  <2>6. Control'
    BY <1>0, <1>3, <2>1, <2>3 DEF ApplySnapshot, Control, places, LocalOK, OrderType
  <2> QED
    BY <1>3, <2>4, <2>5, <2>6, TypeParts, NoCopyChanges DEF ApplySnapshot
<1>4. CASE SyncOpenOrders(o)
  <2>1. local' = [local EXCEPT ![o].status = "filled"] \/ local' = [local EXCEPT ![o].status = "cancelled"]
    BY <1>4 DEF SyncOpenOrders
  <2>2. LocalOK'
    BY <1>0, <2>1 DEF LocalOK, OrderType
  <2>3. PlaceOK' /\ VenueOK' /\ BooksOK' /\ ReconOK' /\ RestOK'
    BY <1>0, <1>4 DEF SyncOpenOrders, PlaceOK, VenueOK, BooksOK, ReconOK, RestOK, places, books,
                      cancelVars
  <2>4. Control'
    BY <1>0, <1>4, <2>1 DEF SyncOpenOrders, Control, places, LocalOK, OrderType, Active
  <2> QED
    BY <1>4, <2>2, <2>3, <2>4, TypeParts, NoCopyChanges DEF SyncOpenOrders
<1>5. CASE SnapshotNotFound(o)
  <2>1. Held(o) \in Nat
    BY HeldTypes
  <2>2. local[o].filled \in Nat /\ local[o].filled <= Cost[o] /\ Cost[o] \in Nat
    BY <1>0 DEF LocalOK, OrderType
  <2>7. PICK filled \in IF local[o].filled > 0 THEN {local[o].filled}
                      ELSE {0, IF Held(o) > Cost[o] THEN Cost[o] ELSE Held(o)} :
           local' = [local EXCEPT ![o].filled = filled,
                                  ![o].status = IF filled > 0 THEN "filled" ELSE "cancelled"]
    BY <1>5 DEF SnapshotNotFound
  <2>8. filled \in Nat /\ filled <= Cost[o]
    BY <2>1, <2>2, <2>7
  <2>3. PICK st \in {"filled", "cancelled"} :
           local' = [local EXCEPT ![o].filled = filled, ![o].status = st]
    BY <2>7
  <2>4. LocalOK'
    BY <1>0, <2>3, <2>8 DEF LocalOK, OrderType
  <2>5. PlaceOK' /\ VenueOK' /\ BooksOK' /\ ReconOK' /\ RestOK'
    BY <1>0, <1>5 DEF SnapshotNotFound, PlaceOK, VenueOK, BooksOK, ReconOK, RestOK, places, books,
                      cancelVars
  <2>6. Control'
    <3>1. st \notin Active
      BY DEF Active
    <3>2. local'[o].id = local[o].id /\ local'[o].status = st
          /\ \A p \in Orders : p # o => local'[p] = local[p]
      BY <1>0, <2>3 DEF LocalOK, OrderType
    <3>3. UNCHANGED <<pc, posts>>
      BY <1>5 DEF SnapshotNotFound, places
    <3> QED
      BY <3>1, <3>2, <3>3 DEF Control
  <2> QED
    BY <1>5, <2>4, <2>5, <2>6, TypeParts, NoCopyChanges DEF SnapshotNotFound
<1> QED
  BY <1>1, <1>2, <1>3, <1>4, <1>5

\* The reconciler and the cache keep the invariant.
LEMMA ReconcileSteps ==
    ASSUME KeeperInv, Reconcile \/ ChainUnreachable \/ ExpireBalanceCache
    PROVE  KeeperInv'
<1> USE DEF KeeperInv
<1>0. PlaceOK /\ LocalOK /\ VenueOK /\ BooksOK /\ ReconOK /\ RestOK
  BY TypeParts
<1>1. UNCHANGED <<places, local, venue, daily, cancelVars>>
  BY DEF Reconcile, ReconcileAsk, ReconcileRead, ReconcileSettle, ChainUnreachable,
         ExpireBalanceCache, books
<1>2. PlaceOK' /\ LocalOK' /\ VenueOK' /\ Control' /\ cancelling' \in [Orders -> Nat]
  BY <1>0, <1>1 DEF PlaceOK, LocalOK, VenueOK, RestOK, Control, places, cancelVars
<1>3. Balance \in Nat
  BY WalletTypes
<1>4. CASE ReconcileAsk
  BY <1>0, <1>1, <1>2, <1>4, TypeParts, NoCopyChanges
     DEF ReconcileAsk, BooksOK, ReconOK, RestOK, KeeperType, books
<1>5. CASE ReconcileRead
  BY <1>0, <1>1, <1>2, <1>3, <1>5, TypeParts, NoCopyChanges
     DEF ReconcileRead, BooksOK, ReconOK, RestOK
<1>6. CASE ReconcileSettle
  <2>1. recon.reading \in Nat /\ recon.snapshot \in Nat
    BY <1>0 DEF ReconOK
  <2>2. Settled(keeper) \in KeeperType
    <3> DEFINE left == NonNegative(keeper.reserved - recon.snapshot)
    <3>1. left \in Nat
      BY <1>0, <2>1 DEF BooksOK, KeeperType, NonNegative
    <3>2. \/ Settled(keeper) = Seeded(recon.reading)
          \/ Settled(keeper) = [keeper EXCEPT !.chain = recon.reading, !.stale = FALSE, !.reserved = left]
      BY DEF Settled
    <3> HIDE DEF left
    <3>3. [keeper EXCEPT !.chain = recon.reading, !.stale = FALSE, !.reserved = left] \in KeeperType
      BY <1>0, <2>1, <3>1 DEF BooksOK, KeeperType
    <3> QED
      BY <2>1, <3>2, <3>3, KeeperTypes
  <2> QED
    BY <1>0, <1>1, <1>2, <1>6, <2>2, TypeParts, NoCopyChanges
       DEF ReconcileSettle, BooksOK, ReconOK, RestOK
<1>7. CASE ChainUnreachable
  <2>1. keeper' \in KeeperType
    BY <1>0, <1>7 DEF ChainUnreachable, BooksOK, KeeperType
  <2> QED
    BY <1>0, <1>1, <1>2, <1>7, <2>1, TypeParts, NoCopyChanges, FaultTypes
       DEF ChainUnreachable, BooksOK, ReconOK, RestOK
<1>8. CASE ExpireBalanceCache
  BY <1>0, <1>1, <1>2, <1>8, TypeParts, NoCopyChanges
     DEF ExpireBalanceCache, BooksOK, ReconOK, RestOK
<1> QED
  BY <1>4, <1>5, <1>6, <1>7, <1>8 DEF Reconcile

\* KeeperInv holds at first and is inductive.
LEMMA KeeperInit == Init => KeeperInv
<1> SUFFICES ASSUME Init PROVE KeeperInv
  OBVIOUS
<1>1. TypeOK
  BY CellsFinite DEF Init, TypeOK, Active, Taken, NoReading
<1>2. Control
  BY DEF Init, Control, Active
<1>3. \A c \in Cells : Draws[c] = 0
  BY DEF Init, Draws, Drawn, Cells
<1>4. SumFunctionOnSet(Draws, Cells) = 0
  BY <1>3, CellsFinite, SumZero
<1> QED
  BY <1>1, <1>2, <1>4 DEF KeeperInv, Affordable

LEMMA KeeperStep == KeeperInv /\ [Next]_vars => KeeperInv'
<1> SUFFICES ASSUME KeeperInv, [Next]_vars PROVE KeeperInv'
  OBVIOUS
<1>1. CASE UNCHANGED vars
  <2>1. TypeOK' /\ Control'
    BY <1>1 DEF vars, KeeperInv, TypeOK, Control
  <2> QED
    BY <1>1, <2>1, NoCopyChanges DEF vars, KeeperInv
<1> QED
  BY <1>1, ReserveSteps, SubmitSteps, VenueSteps, OrderSteps, ReconcileSteps DEF Next, PlaceStep

\* Everything the keeper, the counters and the venue hold stays in its range;
\* in particular the wallet is never overdrawn, however posts are retried.
THEOREM KeeperTypeCorrect == Spec => []TypeOK
<1>1. KeeperInv => TypeOK
  BY DEF KeeperInv
<1> QED
  BY <1>1, KeeperInit, KeeperStep, PTL DEF Spec
(***************************************************************************)
(* The volume counter.                                                     *)
(***************************************************************************)

\* The orders the counter may hold: being placed, or acknowledged.
Counted == InFlight \cup Exhausted \cup {o \in Orders : local[o].id # 0}

\* Sums of costs: over any orders, with one more order and with one less.
LEMMA CostSums ==
    /\ \A S \in SUBSET Orders : CostOf(S) \in Nat
    /\ \A S \in SUBSET Orders : \A o \in Orders \ S : CostOf(S \cup {o}) = CostOf(S) + Cost[o]
    /\ \A S \in SUBSET Orders : \A o \in S : CostOf(S) = Cost[o] + CostOf(S \ {o})
<1>1. NatOn(Cost, Orders)
  BY DEF NatOn
<1>2. \A S \in SUBSET Orders : CostOf(S) \in Nat
  BY <1>1, SumMonotone DEF CostOf
<1>3. \A S \in SUBSET Orders : IsFiniteSet(S) /\ IntOn(Cost, S)
  BY FS_Subset DEF IntOn
<1>4. ASSUME NEW S \in SUBSET Orders, NEW o \in Orders \ S
      PROVE  CostOf(S \cup {o}) = CostOf(S) + Cost[o]
  <2>1. IntOn(Cost, S \cup {o})
    BY DEF IntOn
  <2> QED
    BY <1>3, <2>1, SumAdd DEF CostOf
<1>5. ASSUME NEW S \in SUBSET Orders, NEW o \in S
      PROVE  CostOf(S) = Cost[o] + CostOf(S \ {o})
  BY <1>3, SumRemove DEF CostOf
<1> QED
  BY <1>2, <1>4, <1>5

\* A failed order keeps its id.
LEMMA IdsKept ==
    ASSUME KeeperInv, NEW o \in Orders, UNCHANGED local \/ Fail(o)
    PROVE  \A p \in Orders : local'[p].id = local[p].id
<1>1. local \in [Orders -> OrderType]
  BY TypeParts DEF KeeperInv, LocalOK
<1> QED
  BY <1>1 DEF Fail, OrderType

\* An order that ends without an acknowledgement takes its cost out of the
\* counter.
LEMMA AbandonVolume ==
    ASSUME KeeperInv, NoPhantomVolume, NEW o \in InFlight, NEW view,
           NEW label \in {"closing", "done"}, Abandon(o, view, label),
           \A p \in Orders : local'[p].id = local[p].id
    PROVE  NoPhantomVolume'
<1> DEFINE S == Counted
<1>1. o \in Orders /\ pc[o] # "done"
  BY DEF InFlight
<1>2. local[o].id = 0 /\ o \in S /\ S \in SUBSET Orders
  BY <1>1 DEF KeeperInv, Control, Counted, InFlight, Exhausted
<1>3. Counted' = S \ {o}
  BY <1>1, <1>2 DEF Counted, InFlight, Exhausted, Abandon, Leave, Goto, KeeperInv, TypeOK
<1>4. daily' = NonNegative(daily - Cost[o])
  BY DEF Abandon, ReleaseReservation
<1>5. CostOf(S) = Cost[o] + CostOf(S \ {o}) /\ CostOf(S \ {o}) \in Nat
  BY <1>2, CostSums
<1>6. daily <= CostOf(S) /\ daily \in Nat /\ Cost[o] \in Nat
  BY <1>1 DEF NoPhantomVolume, Counted, KeeperInv, TypeOK
<1> DEFINE rest == CostOf(S \ {o})
<1>7. daily' <= rest
  <2> HIDE DEF rest
  <2>1. daily <= Cost[o] + rest /\ rest \in Nat
    BY <1>5, <1>6 DEF rest
  <2> QED
    BY <1>4, <1>6, <2>1 DEF NonNegative
<1>8. CostOf(Counted') = rest
  BY <1>3
<1> QED
  BY <1>7, <1>8 DEF NoPhantomVolume, Counted, CostOf

\* A step that keeps the counted orders and does not raise the counter.
LEMMA SameVolume ==
    ASSUME NoPhantomVolume, KeeperInv, KeeperInv', Counted' = Counted, daily' <= daily
    PROVE  NoPhantomVolume'
<1>1. CostOf(Counted) \in Nat
  BY CostSums DEF Counted, InFlight, Exhausted
<1>2. daily <= CostOf(Counted)
  BY DEF NoPhantomVolume, Counted
<1>3. daily \in Nat /\ daily' \in Nat
  BY DEF KeeperInv, TypeOK
<1> DEFINE sum == CostOf(Counted)
<1>4. daily' <= sum
  <2> HIDE DEF sum
  <2>1. sum \in Nat /\ daily <= sum
    BY <1>1, <1>2 DEF sum
  <2> QED
    BY <1>3, <2>1
<1> QED
  BY <1>4 DEF NoPhantomVolume, Counted, CostOf

\* Counting an order puts it among the counted ones.
LEMMA CountVolume ==
    ASSUME KeeperInv, KeeperInv', NoPhantomVolume, NEW o \in Orders, ValidateAndCount(o)
    PROVE  NoPhantomVolume'
<1> DEFINE S == Counted
<1>1. local[o].id = 0 /\ pc[o] = "count" /\ o \in Orders \ S /\ S \in SUBSET Orders
  BY DEF ValidateAndCount, KeeperInv, Control, Counted, InFlight, Exhausted
<1>2. \A p \in Orders : local'[p].id = local[p].id
  BY IdsKept DEF ValidateAndCount
<1>3. \A p \in Orders : p # o => pc'[p] = pc[p]
  BY DEF ValidateAndCount, Goto, KeeperInv, TypeOK
<1>4. PICK volume \in {daily, 0} :
        \/ daily' = volume + Cost[o] /\ pc'[o] \in {"post", "gate"}
        \/ daily' = volume /\ pc'[o] = "done"
  BY DEF ValidateAndCount, Goto, KeeperInv, TypeOK
<1>5. daily \in Nat /\ volume <= daily /\ volume \in Nat /\ Cost[o] \in Nat
  BY DEF KeeperInv, TypeOK
<1>6. CASE daily' = volume + Cost[o] /\ pc'[o] \in {"post", "gate"}
  <2>1. Counted' = S \cup {o}
    BY <1>1, <1>2, <1>3, <1>6 DEF Counted, InFlight, Exhausted
  <2> DEFINE sum == CostOf(S)
  <2>2. sum \in Nat /\ CostOf(S \cup {o}) = sum + Cost[o]
    BY <1>1, CostSums
  <2>3. daily <= sum
    BY DEF NoPhantomVolume, Counted
  <2>4. daily' <= sum + Cost[o]
    <3> HIDE DEF sum
    <3> QED
      BY <1>5, <1>6, <2>2, <2>3
  <2>5. daily' <= CostOf(Counted')
    BY <2>1, <2>2, <2>4
  <2> QED
    BY <2>5 DEF NoPhantomVolume, Counted, CostOf
<1>7. CASE daily' = volume /\ pc'[o] = "done"
  <2>1. Counted' = S
    BY <1>1, <1>2, <1>3, <1>7 DEF Counted, InFlight, Exhausted
  <2> QED
    BY <1>5, <1>7, <2>1, SameVolume
<1> QED
  BY <1>4, <1>6, <1>7

\* Every step keeps the volume accounted for.
LEMMA VolumeStep ==
    ASSUME KeeperInv, KeeperInv', NoPhantomVolume, [Next]_vars
    PROVE  NoPhantomVolume'
<1> USE DEF Goto, Leave
<1>1. ASSUME NEW o \in Orders, CheckBuyGate(o) \/ KeeperTryReserve(o) PROVE NoPhantomVolume'
  <2>1. daily' = daily /\ Counted' = Counted
    BY <1>1 DEF CheckBuyGate, KeeperTryReserve, Counted, InFlight, Exhausted, Fail, KeeperInv, TypeOK
  <2> QED
    BY <2>1, SameVolume DEF KeeperInv, TypeOK
<1>2. ASSUME NEW o \in Orders, ValidateAndCount(o) PROVE NoPhantomVolume'
  BY <1>2, CountVolume
<1>3. ASSUME NEW o \in Orders, GateAfterReserve(o) PROVE NoPhantomVolume'
  <2>1. o \in InFlight /\ \A p \in Orders : local'[p].id = local[p].id
    BY <1>3, IdsKept DEF GateAfterReserve, InFlight
  <2>2. PICK pass \in BOOLEAN, view \in {keeper, Seeded(Balance)} :
          IF pass THEN Goto(o, "post") /\ UNCHANGED <<daily, local>> ELSE Abandon(o, view, "done")
    BY <1>3 DEF GateAfterReserve
  <2>3. CASE pass
    <3>1. daily' = daily /\ Counted' = Counted
      BY <2>1, <2>2, <2>3 DEF Counted, InFlight, Exhausted, KeeperInv, TypeOK
    <3> QED
      BY <3>1, SameVolume DEF KeeperInv, TypeOK
  <2>4. CASE ~pass
    BY <2>1, <2>2, <2>4, AbandonVolume
  <2> QED
    BY <2>3, <2>4
<1>4. ASSUME NEW o \in Orders, PostOrder(o) PROVE NoPhantomVolume'
  <2>1. daily' = daily /\ Counted' = Counted
    BY <1>4 DEF PostOrder, Counted, InFlight, Exhausted, KeeperInv, TypeOK, books
  <2> QED
    BY <2>1, SameVolume DEF KeeperInv, TypeOK
<1>5. ASSUME NEW o \in Orders, Acknowledged(o) PROVE NoPhantomVolume'
  <2>1. posts[o] # 0
    BY <1>5 DEF Acknowledged, KeeperInv, Control
  <2>2. local'[o].id = posts[o] /\ \A p \in Orders : p # o => local'[p] = local[p]
    BY <1>5 DEF Acknowledged, KeeperInv, TypeOK
  <2>3. pc[o] = "answer" /\ \A p \in Orders : p # o => pc'[p] = pc[p]
    BY <1>5 DEF Acknowledged, KeeperInv, TypeOK
  <2>4. daily' = daily /\ Counted' = Counted
    BY <1>5, <2>1, <2>2, <2>3 DEF Acknowledged, Counted, InFlight, Exhausted, books
  <2> QED
    BY <2>4, SameVolume DEF KeeperInv, TypeOK
<1>6. ASSUME NEW o \in Orders,
             \/ AttemptsRunOut(o) \/ RetryRefused(o) \/ Refused(o) \/ Persisted(o)
             \/ TransportError(o) \/ TaskCancelled(o)
      PROVE  NoPhantomVolume'
  <2>1. \A p \in Orders : local'[p].id = local[p].id
    BY <1>6, IdsKept DEF AttemptsRunOut, RetryRefused, Refused, Persisted, TransportError, TaskCancelled,
                         Abandon
  <2>2. CASE Refused(o) \/ (TransportError(o) /\ ~MayRetry(o)) \/ (TaskCancelled(o) /\ o \in InFlight)
    <3>1. o \in InFlight /\ \E label \in {"closing", "done"} : Abandon(o, keeper, label)
      BY <2>2 DEF Refused, TransportError, TaskCancelled, InFlight
    <3> QED
      BY <2>1, <3>1, AbandonVolume
  <2>3. CASE TaskCancelled(o) /\ pc[o] = "closing"
    <3>1. pc' = [pc EXCEPT ![o] = "done"] /\ daily' = NonNegative(daily - Cost[o])
      BY <2>3 DEF TaskCancelled, InFlight, Abandon, Leave, ReleaseReservation
    <3>2. Counted' = Counted
      BY <2>1, <2>3, <3>1 DEF Counted, InFlight, Exhausted, KeeperInv, TypeOK
    <3>3. daily' <= daily
      BY <3>1 DEF NonNegative, KeeperInv, TypeOK
    <3> QED
      BY <3>2, <3>3, SameVolume
  <2>4. CASE \/ AttemptsRunOut(o) \/ RetryRefused(o) \/ Persisted(o)
             \/ (TransportError(o) /\ MayRetry(o))
             \/ (TaskCancelled(o) /\ pc[o] \in {"precheck", "reserve", "count"})
    <3>1. /\ UNCHANGED daily
          /\ \/ pc[o] = "answer" /\ pc' = [pc EXCEPT ![o] = "post"]
             \/ pc[o] = "post" /\ pc' = [pc EXCEPT ![o] = "exhausted"]
             \/ /\ pc[o] \in {"closing", "precheck", "reserve", "count"}
                /\ pc' = [pc EXCEPT ![o] = "done"]
      BY <2>4 DEF AttemptsRunOut, RetryRefused, Persisted, TransportError, TaskCancelled, InFlight,
                  Leave, books
    <3>2. Counted' = Counted
      BY <2>1, <3>1 DEF Counted, InFlight, Exhausted, KeeperInv, TypeOK
    <3> QED
      BY <3>1, <3>2, SameVolume DEF KeeperInv, TypeOK
  <2> QED
    BY <1>6, <2>2, <2>3, <2>4 DEF TaskCancelled
<1>7. ASSUME NEW o \in Orders, CancelReturns(o) PROVE NoPhantomVolume'
  <2>1. Counted' = Counted
    BY <1>7 DEF CancelReturns, Counted, InFlight, Exhausted, places, KeeperInv, TypeOK
  <2>2. daily' = daily
        \/ (Cost[o] - local[o].filled > 0 /\ daily' = NonNegative(daily - (Cost[o] - local[o].filled)))
    BY <1>7 DEF CancelReturns, ReleaseReservation
  <2>3. daily \in Nat /\ Cost[o] - local[o].filled \in Int
    BY DEF KeeperInv, TypeOK
  <2>4. daily' <= daily
    BY <2>2, <2>3 DEF NonNegative
  <2> QED
    BY <2>1, <2>4, SameVolume
<1>8. ASSUME NEW o \in Orders,
             \/ CancelOrder(o) \/ ApplySnapshot(o) \/ SnapshotNotFound(o) \/ SyncOpenOrders(o)
             \/ \E k \in Copies : VenueDecides(o, k) \/ VenueMatches(o, k)
      PROVE  NoPhantomVolume'
  <2>1. daily' = daily /\ pc' = pc /\ \A p \in Orders : local'[p].id = local[p].id
    <3>1. local \in [Orders -> OrderType]
      BY TypeParts DEF KeeperInv, LocalOK
    <3>2. UNCHANGED <<daily, pc>>
      BY <1>8 DEF CancelOrder, ApplySnapshot, SnapshotNotFound, SyncOpenOrders,
                  VenueDecides, VenueMatches,
                  places, books
    <3>3. \/ UNCHANGED local
          \/ \E f, st : local' = [local EXCEPT ![o].filled = f, ![o].status = st]
          \/ \E st : local' = [local EXCEPT ![o].status = st]
      BY <1>8 DEF CancelOrder, ApplySnapshot, SnapshotNotFound, SyncOpenOrders,
                  VenueDecides, VenueMatches
    <3>4. ASSUME NEW f, NEW st, local' = [local EXCEPT ![o].filled = f, ![o].status = st]
          PROVE  \A p \in Orders : local'[p].id = local[p].id
      BY <3>1, <3>4 DEF OrderType
    <3>5. ASSUME NEW st, local' = [local EXCEPT ![o].status = st]
          PROVE  \A p \in Orders : local'[p].id = local[p].id
      BY <3>1, <3>5 DEF OrderType
    <3> QED
      BY <3>2, <3>3, <3>4, <3>5
  <2>2. Counted' = Counted
    BY <2>1 DEF Counted, InFlight, Exhausted
  <2> QED
    BY <2>1, <2>2, SameVolume DEF KeeperInv, TypeOK
<1>9. ASSUME Reconcile \/ ChainUnreachable \/ ExpireBalanceCache \/ UNCHANGED vars
      PROVE  NoPhantomVolume'
  <2>1. daily' = daily /\ pc' = pc /\ local' = local
    BY <1>9 DEF Reconcile, ReconcileAsk, ReconcileRead, ReconcileSettle, ChainUnreachable,
                ExpireBalanceCache, vars, places, books
  <2>2. Counted' = Counted
    BY <2>1 DEF Counted, InFlight, Exhausted
  <2> QED
    BY <2>1, <2>2, SameVolume DEF KeeperInv, TypeOK
<1> QED
  BY <1>1, <1>2, <1>3, <1>4, <1>5, <1>6, <1>7, <1>8, <1>9 DEF Next, PlaceStep

\* The daily counter holds nothing but the cost of orders that are being placed
\* or were acknowledged, but for those whose attempts ran out: refusals, lost
\* answers, cancelled tasks and repeated cancellations leave no phantom volume.
THEOREM VolumeAccounted == Spec => []NoPhantomVolume
<1>1. Init => NoPhantomVolume
  <2> SUFFICES ASSUME Init PROVE 0 <= CostOf(Counted)
    BY DEF Init, NoPhantomVolume, Counted
  <2>1. CostOf(Counted) \in Nat
    BY CostSums DEF Counted, InFlight, Exhausted
  <2> QED
    BY <2>1
<1>2. KeeperInv /\ KeeperInv' /\ NoPhantomVolume /\ [Next]_vars => NoPhantomVolume'
  BY VolumeStep
<1> QED
  BY <1>1, <1>2, KeeperInit, KeeperStep, PTL DEF Spec

(***************************************************************************)
(* Takers.                                                                 *)
(***************************************************************************)

\* A taker is sent again only after the venue refused it: every copy before
\* the last one is refused, and there is none after it.
TakerCopies ==
    \A o \in Market : \A k \in Copies :
        /\ k > posts[o] => venue[o][k].status = "none"
        /\ k < posts[o] => venue[o][k].status \in Refusals
        /\ k = posts[o] /\ pc[o] = "post" => venue[o][k].status \in Refusals

\* Every step keeps what the copies of a taker are.
LEMMA TakerStep ==
    ASSUME KeeperInv, KeeperInv', TakerCopies, [Next]_vars
    PROVE  TakerCopies'
<1> USE DEF KeeperInv, Goto
<1>0. VenueOK /\ posts \in [Orders -> Nat] /\ pc = [o \in Orders |-> pc[o]] /\ Market \subseteq Orders
  <2>1. VenueOK /\ PlaceOK /\ Cardinality(Copies) \in Nat
    BY TypeParts, CellsFinite
  <2>2. posts \in [Orders -> Nat]
    BY <2>1 DEF PlaceOK
  <2>3. pc = [o \in Orders |-> pc[o]]
    BY <2>1 DEF PlaceOK
  <2> QED
    BY <2>1, <2>2, <2>3
<1>1. ASSUME NEW o \in Orders, PostOrder(o) PROVE TakerCopies'
  <2>1. /\ pc[o] = "post" /\ posts' = [posts EXCEPT ![o] = posts[o] + 1]
        /\ venue' = [venue EXCEPT ![o][posts[o] + 1].status = "wire"]
        /\ pc' = [pc EXCEPT ![o] = "answer"]
    BY <1>1 DEF PostOrder
  <2>2. \A p \in Orders, k \in Copies : <<p, k>> # <<o, posts[o] + 1>> => venue'[p][k] = venue[p][k]
    BY <1>0, <2>1 DEF VenueOK
  <2>3. ASSUME NEW p \in Market, NEW k \in Copies, p # o PROVE TakerCopies!(p)!(k)'
    BY <1>0, <2>1, <2>2, <2>3 DEF TakerCopies
  <2>4. ASSUME NEW k \in Copies, o \in Market PROVE TakerCopies!(o)!(k)'
    <3>1. posts[o] \in Nat /\ posts'[o] = posts[o] + 1 /\ pc'[o] = "answer" /\ k \in Nat
      BY <1>0, <2>1 DEF Copies
    <3>2. k # posts[o] + 1 => venue'[o][k] = venue[o][k]
      BY <2>2
    <3>3. /\ k > posts[o] => venue[o][k].status = "none"
          /\ k <= posts[o] => venue[o][k].status \in Refusals
      BY <2>1, <2>4, <3>1 DEF TakerCopies
    <3> QED
      BY <3>1, <3>2, <3>3
  <2> QED
    BY <2>3, <2>4 DEF TakerCopies
<1>2. ASSUME NEW o \in Orders,
             \/ TransportError(o) \/ RetryRefused(o) \/ Refused(o)
             \/ AttemptsRunOut(o) \/ Persisted(o)
      PROVE  TakerCopies'
  <2>1. /\ UNCHANGED <<posts, venue>>
        /\ \/ \E label \in {"closing", "exhausted", "done"} : pc' = [pc EXCEPT ![o] = label]
           \/ pc' = [pc EXCEPT ![o] = "post"]
              /\ (o \notin Market \/ venue[o][posts[o]].status \in Refusals)
    BY <1>2 DEF TransportError, RetryRefused, Refused, AttemptsRunOut, Persisted, MayRetry, Abandon,
                Leave, Refusals
  <2> QED
    BY <1>0, <2>1 DEF TakerCopies
<1>3. ASSUME NEW o \in Orders,
             \/ CheckBuyGate(o) \/ KeeperTryReserve(o) \/ ValidateAndCount(o)
             \/ GateAfterReserve(o) \/ Acknowledged(o) \/ TaskCancelled(o)
      PROVE  TakerCopies'
  <2>1. /\ UNCHANGED <<posts, venue>>
        /\ \/ \E label \in {"reserve", "count", "done"} : pc' = [pc EXCEPT ![o] = label]
           \/ /\ \E label \in {"post", "gate"} : pc' = [pc EXCEPT ![o] = label]
              /\ pc[o] \in {"count", "gate"}
    <3>1. UNCHANGED <<posts, venue>>
      BY <1>3 DEF CheckBuyGate, KeeperTryReserve, ValidateAndCount, GateAfterReserve, Acknowledged,
                  TaskCancelled
    <3>2. \/ \E label \in {"reserve", "count", "done"} : pc' = [pc EXCEPT ![o] = label]
          \/ \E label \in {"post", "gate"} : pc' = [pc EXCEPT ![o] = label] /\ pc[o] \in {"count", "gate"}
      <4>1. CASE CheckBuyGate(o)
        BY <4>1 DEF CheckBuyGate
      <4>2. CASE KeeperTryReserve(o)
        BY <4>2 DEF KeeperTryReserve
      <4>3. CASE ValidateAndCount(o)
        BY <4>3 DEF ValidateAndCount
      <4>4. CASE GateAfterReserve(o)
        BY <4>4 DEF GateAfterReserve, Abandon, Leave
      <4>5. CASE Acknowledged(o) \/ TaskCancelled(o)
        BY <4>5 DEF Acknowledged, TaskCancelled, Abandon, Leave
      <4> QED
        BY <1>3, <4>1, <4>2, <4>3, <4>4, <4>5
    <3> QED
      BY <3>1, <3>2
  <2>2. pc[o] \in {"count", "gate"} => posts[o] = 0
    BY DEF Control
  <2> QED
    BY <1>0, <2>1, <2>2 DEF TakerCopies, Copies
<1>4. ASSUME NEW o \in Orders, NEW j \in Copies,
             VenueDecides(o, j) \/ VenueMatches(o, j) \/ (CancelOrder(o) /\ j = local[o].id)
      PROVE  TakerCopies'
  <2>1. UNCHANGED <<posts, pc>>
    BY <1>4 DEF VenueDecides, VenueMatches, CancelOrder, places
  <2>2. \A p \in Orders, k \in Copies :
          venue[p][k].status \in {"none"} \cup Refusals => venue'[p][k] = venue[p][k]
    <3>1. /\ venue[o][j].status \in {"wire", "live"} \/ venue' = venue
          /\ \/ \E c : venue' = [venue EXCEPT ![o][j] = c]
             \/ venue' = [venue EXCEPT ![o][j].status = "cancelled"]
             \/ venue' = venue
      BY <1>4 DEF VenueDecides, VenueMatches, CancelOrder, Become
    <3>2. \A p \in Orders, k \in Copies : <<p, k>> # <<o, j>> => venue'[p][k] = venue[p][k]
      BY <1>0, <3>1 DEF VenueOK
    <3> QED
      BY <3>1, <3>2 DEF Refusals
  <2> QED
    BY <1>0, <2>1, <2>2 DEF TakerCopies, Refusals
<1>5. ASSUME NEW o \in Orders, CancelOrder(o) PROVE TakerCopies'
  <2>1. local[o].id \in Copies
    BY <1>5 DEF CancelOrder, TypeOK
  <2> QED
    BY <1>4, <1>5, <2>1
<1>6. ASSUME \/ \E o \in Orders : CancelReturns(o) \/ ApplySnapshot(o) \/ SnapshotNotFound(o)
                                 \/ SyncOpenOrders(o)
             \/ Reconcile \/ ChainUnreachable \/ ExpireBalanceCache \/ UNCHANGED vars
      PROVE  TakerCopies'
  <2>1. UNCHANGED <<posts, pc, venue>>
    BY <1>6 DEF CancelReturns, ApplySnapshot, SnapshotNotFound, SyncOpenOrders, Reconcile, ReconcileAsk,
                ReconcileRead, ReconcileSettle, ChainUnreachable, ExpireBalanceCache, vars, places
  <2> QED
    BY <2>1 DEF TakerCopies
<1> QED
  BY <1>1, <1>2, <1>3, <1>4, <1>5, <1>6 DEF Next, PlaceStep

\* A taker order is bought at most once, also by a post that arrives after the
\* call has failed.
THEOREM TakerOnce == Spec => []TakerBoughtOnce
<1>1. Init => TakerCopies
  BY DEF Init, TakerCopies, Copies
<1>2. KeeperInv /\ KeeperInv' /\ TakerCopies /\ [Next]_vars => TakerCopies'
  BY TakerStep
<1>3. KeeperInv /\ TakerCopies => TakerBoughtOnce
  <2> SUFFICES ASSUME KeeperInv, TakerCopies, NEW o \in Market
               PROVE  Cardinality({k \in Copies : venue[o][k].status \in Taken}) <= 1
    BY DEF TakerBoughtOnce
  <2> DEFINE bought == {k \in Copies : venue[o][k].status \in Taken}
  <2>1. posts[o] \in Nat
    BY DEF KeeperInv, TypeOK
  <2>2. bought \in SUBSET {posts[o]}
    BY <2>1 DEF TakerCopies, Taken, Refusals, Copies
  <2>3. IsFiniteSet({posts[o]}) /\ Cardinality({posts[o]}) = 1
    BY FS_Singleton
  <2> QED
    BY <2>2, <2>3, FS_Subset
<1> QED
  BY <1>1, <1>2, <1>3, KeeperInit, KeeperStep, PTL DEF Spec
=============================================================================

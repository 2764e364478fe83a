------------------------- MODULE BacktestRunProofs -------------------------
(***************************************************************************)
(* Proofs about BacktestRun for any tokens, requests, books and intents,   *)
(* any limits, fees and outcomes, and a replay of any length.              *)
(***************************************************************************)
EXTENDS BacktestRun, MatchingEngineProofs

(***************************************************************************)
(* The replay loop.                                                        *)
(***************************************************************************)

\* The matching engine runs when the loop waits for it, and only then.
EngineWaits == step = "match" <=> phase # "idle"

\* The loop has a snapshot, and the engine works on it, at its time.
SnapKnown ==
    /\ step \in {"settle", "drain", "match", "apply", "exit"} => snap \in [token : Tokens, book : Books]
    /\ step = "match" => at.token = snap.token
    /\ step \in {"match", "apply", "exit"} => now = clock

Intent == [request : Requests, emitted : Nat]

\* The intents that are left are still ordered by emission.
IntentsOrdered ==
    /\ intents \in Seq(Intent)
    /\ \A i, j \in DOMAIN intents : i <= j => intents[i].emitted <= intents[j].emitted

\* What the portfolio keeps.
PortfolioType ==
    /\ cash \in Int /\ realized \in Int /\ openFees \in Nat
    /\ position \in [Keys -> [size : Nat, basis : Nat, mark : Nat]]
    /\ bought \in [Tokens -> Int] /\ overclosed \in BOOLEAN

\* What the loop itself keeps.
LoopType ==
    /\ step \in {"wait", "settle", "drain", "match", "apply", "exit", "final", "done"}
    /\ clock \in Nat /\ now <= clock
    /\ latest \in [Tokens -> Nat]
    /\ asking \subseteq Keys /\ swept \subseteq Tokens /\ marked \subseteq Tokens

LoopInv ==
    LimitInv /\ PortfolioType /\ LoopType /\ EngineWaits /\ SnapKnown /\ IntentsOrdered

(***************************************************************************)
(* Admission.                                                              *)
(***************************************************************************)

\* An order that waits was not received before the last snapshot of its token.
WaitingIsLate ==
    \A o \in DOMAIN orders :
        orders[o].state = "pending_submit" => orders[o].received >= latest[orders[o].token]

\* Neither were the intents that are left, and none is due once the engine runs.
IntentsAhead ==
    /\ \A t \in Tokens : latest[t] <= clock /\ \A i \in DOMAIN intents : intents[i].emitted >= latest[t]
    /\ step \in {"match", "apply"} => \A i \in DOMAIN intents : intents[i].emitted > clock

\* What has reached the venue is admitted when the engine is done with admissions.
AllAdmitted ==
    step = "apply" \/ (step = "match" /\ phase \in {"match", "make"}) =>
        \A o \in DOMAIN orders :
            orders[o].state = "pending_submit" /\ orders[o].token = snap.token
                => orders[o].received > now

OnTimeInv == LoopInv /\ ActiveCountExact /\ WaitingIsLate /\ IntentsAhead /\ AllAdmitted

(***************************************************************************)
(* Settlement.                                                             *)
(***************************************************************************)

\* The pointer has passed nothing but what is due, and all of it but for markets
\* that had resolved before the first snapshot and have no position yet.
SweptIsDue ==
    /\ \A t \in DOMAIN Resolution : t \in swept => Resolution[t].time <= clock
    /\ step # "settle" =>
          \A t \in DOMAIN Resolution : Resolution[t].time <= clock =>
              t \in swept \/ (step \in {"wait", "final", "done"} /\ ~HasPosition(t))

\* A position that was opened after the market resolved was opened by a matched
\* snapshot: the clock of the engine shows the resolution too.
LatePositionsSeen ==
    \A t \in DOMAIN Resolution : t \in swept /\ HasPosition(t) => Resolution[t].time <= now

\* Marks are used at the end only.
MarkedAtEnd == marked # {} => step \in {"final", "done"}

SettledInv == LoopInv /\ SweptIsDue /\ LatePositionsSeen /\ MarkedAtEnd /\ ResolvedIsSettled

(***************************************************************************)
(* Arithmetic of the portfolio.                                            *)
(***************************************************************************)

LEMMA QuotientRange ==
    ASSUME NEW a \in Nat, NEW s \in Nat \ {0}
    PROVE  a \div s \in Nat /\ s * (a \div s) <= a /\ a < s * ((a \div s) + 1)
OBVIOUS

LEMMA ProductMonotone ==
    ASSUME NEW a \in Int, NEW b \in Int, NEW c \in Nat, a <= b
    PROVE  c * a <= c * b
OBVIOUS

\* All of a position costs all of its basis.
LEMMA WholeChunk ==
    ASSUME NEW b \in Nat, NEW s \in Nat \ {0}
    PROVE  (b * s) \div s = b
OBVIOUS

\* A part of it costs at most as much.
LEMMA PartChunk ==
    ASSUME NEW b \in Nat, NEW t \in Nat, NEW s \in Nat \ {0}, t <= s
    PROVE  (b * t) \div s \in Nat /\ (b * t) \div s <= b
<1> DEFINE q == (b * t) \div s
<1>0. b * t \in Nat /\ b * t <= b * s
  BY ProductMonotone
<1>1. q \in Nat /\ s * q <= b * t
  BY <1>0, QuotientRange
<1>2. ASSUME q > b PROVE FALSE
  <2>1. s * (b + 1) <= s * q
    BY <1>1, <1>2, ProductMonotone
  <2>2. s * (b + 1) = s * b + s
    OBVIOUS
  <2>3. s * b = b * s
    OBVIOUS
  <2> QED
    BY <1>0, <1>1, <2>1, <2>2, <2>3
<1> QED
  BY <1>1, <1>2

LEMMA ResolutionFeeType ==
    ASSUME NEW gain \in Int
    PROVE  ResolutionFee(gain) \in Nat
<1>1. WinnerPercent \in Nat
  BY RunAssumption
<1>2. CASE gain > 0
  <2>1. gain * WinnerPercent \in Nat
    BY <1>1, <1>2, NatProduct
  <2> QED
    BY <1>2, <2>1, QuotientRange DEF ResolutionFee
<1> QED
  BY <1>2 DEF ResolutionFee

LEMMA SignedType ==
    ASSUME NEW side, NEW x \in Int
    PROVE  Signed(side, x) \in Int
BY DEF Signed

LEMMA FillFeeType ==
    ASSUME NEW f \in Fill
    PROVE  FillFee(f) \in Nat
<1>1. f.size \in Nat /\ Gas \in Nat /\ TakerFee \in Nat
  BY RunAssumption DEF Fill
<1>2. TakerFee * f.size \in Nat
  BY <1>1, NatProduct
<1> QED
  BY <1>1, <1>2 DEF FillFee

\* The mid of a book, doubled.
LEMMA MidType ==
    ASSUME NEW b \in Books
    PROVE  Mid(b) \in Nat
<1> DEFINE asks == {p \in Prices : b["BUY"][p] > 0}
           bids == {p \in Prices : b["SELL"][p] > 0}
<1>0. Prices \in SUBSET Nat /\ MaxPrice \in Nat /\ \A p \in Prices : p <= MaxPrice
  BY EngineAssumption DEF Prices
<1>1. ASSUME asks # {} PROVE Min(asks) \in Nat
  <2>1. \E n \in asks : \A m \in asks : n <= m
    BY <1>0, <1>1, SmallestNat
  <2>2. Min(asks) \in asks
    BY <2>1 DEF Min
  <2> QED
    BY <1>0, <2>2
<1>2. ASSUME bids # {} PROVE Max(bids) \in Nat
  <2> DEFINE gaps == {MaxPrice - p : p \in bids}
  <2>0. \A p \in bids : MaxPrice - p \in Nat
    BY <1>0
  <2>1. gaps \in SUBSET Nat /\ gaps # {}
    BY <1>2, <2>0
  <2>2. PICK g \in gaps : \A m \in gaps : g <= m
    BY <2>1, SmallestNat
  <2>3. PICK n \in bids : g = MaxPrice - n
    BY <2>2
  <2>4. ASSUME NEW m \in bids PROVE n >= m
    <3>1. MaxPrice - n <= MaxPrice - m
      BY <2>2, <2>3
    <3> QED
      BY <1>0, <3>1
  <2>5. Max(bids) \in bids
    BY <2>4 DEF Max
  <2> QED
    BY <1>0, <2>5
<1> QED
  BY <1>1, <1>2 DEF Mid

(***************************************************************************)
(* The portfolio.                                                          *)
(***************************************************************************)

\* The position under k gets this size and this basis, and no other changes.
Repositioned(k, size, basis) ==
    /\ position' \in [Keys -> [size : Nat, basis : Nat, mark : Nat]]
    /\ position'[k].size = size /\ position'[k].basis = basis
    /\ \A x \in Keys : x # k => position'[x] = position[x]

LEMMA PositionType ==
    ASSUME PortfolioType, NEW k \in Keys
    PROVE  /\ position[k] \in [size : Nat, basis : Nat, mark : Nat]
           /\ position[k].size \in Nat /\ position[k].basis \in Nat /\ position[k].mark \in Nat
           /\ k[1] \in Tokens /\ k[2] \in Sides /\ k = <<k[1], k[2]>>
BY DEF PortfolioType, Keys

LEMMA OneToken ==
    ASSUME PortfolioType, NEW t \in Tokens, NEW n \in Int, bought' = [bought EXCEPT ![t] = n]
    PROVE  /\ bought' \in [Tokens -> Int] /\ bought'[t] = n
           /\ \A x \in Tokens : x # t => bought'[x] = bought[x]
BY DEF PortfolioType

\* apply_open_fill adds the fill to the position of its side.
LEMMA OpenFillEffect ==
    ASSUME PortfolioType, NEW k \in Keys, NEW price \in Nat, NEW size \in Nat, NEW fee \in Nat,
           OpenFill(k, price, size, fee)
    PROVE  /\ PortfolioType'
           /\ Repositioned(k, position[k].size + size, position[k].basis + price * size)
           /\ bought'[k[1]] = bought[k[1]] + Signed(k[2], size)
           /\ \A x \in Tokens : x # k[1] => bought'[x] = bought[x]
<1>0. /\ position[k] \in [size : Nat, basis : Nat, mark : Nat] /\ k[1] \in Tokens
      /\ position[k].size \in Nat /\ position[k].basis \in Nat /\ position[k].mark \in Nat
      /\ position \in [Keys -> [size : Nat, basis : Nat, mark : Nat]]
      /\ bought[k[1]] \in Int /\ cash \in Int /\ openFees \in Nat
  BY PositionType DEF PortfolioType
<1>1. PICK n \in Nat : n = price * size
  BY NatProduct
<1>2. PICK e \in [size : Nat, basis : Nat, mark : Nat] :
         /\ e = [position[k] EXCEPT !.size = @ + size, !.basis = @ + n]
         /\ e.size = position[k].size + size /\ e.basis = position[k].basis + n
  <2> DEFINE e == [position[k] EXCEPT !.size = @ + size, !.basis = @ + n]
  <2>1. position[k].size + size \in Nat /\ position[k].basis + n \in Nat
    BY <1>0
  <2>2. e \in [size : Nat, basis : Nat, mark : Nat]
        /\ e.size = position[k].size + size /\ e.basis = position[k].basis + n
    BY <1>0, <2>1
  <2> QED
    BY <2>2
<1>3. position' = [position EXCEPT ![k] = e]
  BY <1>0, <1>1, <1>2 DEF OpenFill
<1>4. Repositioned(k, position[k].size + size, position[k].basis + n)
  BY <1>0, <1>2, <1>3 DEF Repositioned
<1>5. bought' = [bought EXCEPT ![k[1]] = bought[k[1]] + Signed(k[2], size)]
  BY DEF OpenFill
<1>6. bought[k[1]] + Signed(k[2], size) \in Int /\ cash - Signed(k[2], n) - fee \in Int
  BY <1>0, SignedType
<1>7. cash' \in Int /\ openFees' \in Nat /\ UNCHANGED <<realized, overclosed>>
  BY <1>0, <1>1, <1>6 DEF OpenFill
<1>8. PICK v \in Int : v = bought[k[1]] + Signed(k[2], size)
  BY <1>6
<1>9. /\ bought' \in [Tokens -> Int] /\ bought'[k[1]] = v
      /\ \A x \in Tokens : x # k[1] => bought'[x] = bought[x]
  BY <1>0, <1>5, <1>8, OneToken
<1>10. PortfolioType'
  BY <1>4, <1>7, <1>9 DEF PortfolioType, Repositioned
<1> QED
  BY <1>1, <1>4, <1>8, <1>9, <1>10

Taken(k, size) == IF size < position[k].size THEN size ELSE position[k].size

\* apply_close_fill takes the smaller size and its part of the basis, and cash
\* and the realized result move by the same fee and the same resolution fee.
LEMMA CloseFillEffect ==
    ASSUME PortfolioType, NEW k \in Keys, Open(k), NEW price \in Nat, NEW size \in Nat,
           NEW fee \in Nat, CloseFill(k, price, size, fee)
    PROVE  /\ PortfolioType' /\ UNCHANGED openFees
           /\ overclosed' = (overclosed \/ size > position[k].size)
           /\ bought'[k[1]] = bought[k[1]] - Signed(k[2], size)
           /\ \A x \in Tokens : x # k[1] => bought'[x] = bought[x]
           /\ \E chunk \in Nat, won \in Nat :
                 /\ Repositioned(k, position[k].size - Taken(k, size), position[k].basis - chunk)
                 /\ realized' = realized + Signed(k[2], price * Taken(k, size) - chunk) - fee - won
                 /\ cash' = cash + Signed(k[2], price * size) - fee - won
<1>0. /\ position[k] \in [size : Nat, basis : Nat, mark : Nat] /\ k[1] \in Tokens
      /\ position[k].size \in Nat \ {0} /\ position[k].basis \in Nat /\ position[k].mark \in Nat
      /\ position \in [Keys -> [size : Nat, basis : Nat, mark : Nat]]
      /\ bought[k[1]] \in Int /\ cash \in Int /\ realized \in Int
  BY PositionType DEF PortfolioType, Open
<1>1. PICK take \in Nat : take = Taken(k, size)
  BY <1>0 DEF Taken
<1>2. take <= position[k].size
  BY <1>0, <1>1 DEF Taken
<1>3. PICK chunk \in Nat : chunk = (position[k].basis * take) \div position[k].size
  BY <1>0, <1>2, PartChunk
<1>4. chunk <= position[k].basis
  BY <1>0, <1>2, <1>3, PartChunk
<1>5. take = position[k].size => chunk = position[k].basis
  BY <1>0, <1>3, WholeChunk
<1>6. PICK m \in Nat : m = price * take
  BY NatProduct
<1>7. PICK n \in Nat : n = price * size
  BY NatProduct
<1>8. PICK pnl \in Int : pnl = Signed(k[2], m - chunk) - fee
  <2>1. m - chunk \in Int
    OBVIOUS
  <2> QED
    BY <2>1, SignedType
<1>9. PICK won \in Nat : won = ResolutionFee(pnl)
  BY ResolutionFeeType
<1>10. /\ position' = [position EXCEPT ![k] =
                          IF take = position[k].size THEN NoPosition
                          ELSE [position[k] EXCEPT !.size = @ - take, !.basis = @ - chunk]]
       /\ realized' = realized + pnl - won
       /\ cash' = cash + Signed(k[2], n) - fee - won
       /\ bought' = [bought EXCEPT ![k[1]] = bought[k[1]] - Signed(k[2], size)]
       /\ overclosed' = (overclosed \/ size > position[k].size)
       /\ UNCHANGED openFees
  BY <1>1, <1>3, <1>6, <1>7, <1>8, <1>9 DEF CloseFill, Taken, CostChunk
<1>11. PICK e \in [size : Nat, basis : Nat, mark : Nat] :
         /\ position' = [position EXCEPT ![k] = e]
         /\ e.size = position[k].size - take /\ e.basis = position[k].basis - chunk
  <2>1. CASE take = position[k].size
    <3>1. NoPosition \in [size : Nat, basis : Nat, mark : Nat]
          /\ NoPosition.size = position[k].size - take /\ NoPosition.basis = position[k].basis - chunk
      BY <1>0, <1>5, <2>1 DEF NoPosition
    <3>2. position' = [position EXCEPT ![k] = NoPosition]
      BY <1>10, <2>1
    <3> QED
      BY <3>1, <3>2
  <2>2. CASE take # position[k].size
    <3> DEFINE e == [position[k] EXCEPT !.size = @ - take, !.basis = @ - chunk]
    <3>1. position[k].size - take \in Nat /\ position[k].basis - chunk \in Nat
      BY <1>0, <1>2, <1>4
    <3>2. e \in [size : Nat, basis : Nat, mark : Nat]
          /\ e.size = position[k].size - take /\ e.basis = position[k].basis - chunk
      BY <1>0, <3>1
    <3>3. position' = [position EXCEPT ![k] = e]
      BY <1>10, <2>2
    <3> QED
      BY <3>2, <3>3
  <2> QED
    BY <2>1, <2>2
<1>12. Repositioned(k, position[k].size - take, position[k].basis - chunk)
  BY <1>0, <1>11 DEF Repositioned
<1>13. PICK g \in Int : g = Signed(k[2], m - chunk)
  <2>1. m - chunk \in Int
    OBVIOUS
  <2> QED
    BY <2>1, SignedType
<1>14. realized' = realized + g - fee - won /\ realized' \in Int
  BY <1>0, <1>8, <1>10, <1>13
<1>15. cash' \in Int
  <2>1. Signed(k[2], n) \in Int
    BY SignedType
  <2> QED
    BY <1>0, <1>10, <2>1
<1>16. PICK v \in Int : v = bought[k[1]] - Signed(k[2], size)
  BY <1>0, SignedType
<1>17. /\ bought' \in [Tokens -> Int] /\ bought'[k[1]] = v
       /\ \A x \in Tokens : x # k[1] => bought'[x] = bought[x]
  BY <1>0, <1>10, <1>16, OneToken
<1>18. PortfolioType'
  <2>1. overclosed' \in BOOLEAN /\ openFees' \in Nat
    BY <1>10 DEF PortfolioType
  <2> QED
    BY <1>12, <1>14, <1>15, <1>17, <2>1 DEF PortfolioType, Repositioned
<1> QED
  BY <1>1, <1>6, <1>7, <1>10, <1>12, <1>13, <1>14, <1>16, <1>17, <1>18

(***************************************************************************)
(* The matching engine inside the loop.                                    *)
(***************************************************************************)

\* Nothing happens to the engine.
LEMMA EngineRests ==
    ASSUME LimitInv, UNCHANGED vars
    PROVE  LimitInv' /\ Lawful
<1>1. StepInv
  BY DEF LimitInv
<1>2. StepInv' /\ Lawful
  BY <1>1, NextKeeps, NextLawful
<1>3. FillsKnown' /\ LimitRespected'
  BY <1>2, LimitStays DEF vars
<1> QED
  BY <1>2, <1>3 DEF LimitInv

\* An order is submitted between two snapshots.
LEMMA EngineSubmits ==
    ASSUME LimitInv, NEW r \in Request, NEW sent \in Nat, SubmitOrder(r, sent), phase = "idle",
           UNCHANGED <<working, bookVars, callVars, produced>>
    PROVE  LimitInv' /\ Lawful
<1>1. StepInv /\ TypeOK /\ produced \in Seq(Fill)
  BY DEF LimitInv, StepInv, TypeOK
<1>2. StepInv'
  BY <1>1, SubmitKeeps
<1>3. PICK e \in Order : orders' = Append(orders, e)
  BY <1>1, SubmitEffect
<1>4. \A x \in DOMAIN orders : x \in DOMAIN orders' /\ orders'[x] = orders[x]
  BY <1>1, <1>3, MoreOrders DEF TypeOK
<1>5. Lawful
  BY <1>4 DEF Lawful, Kept
<1>6. FillsKnown' /\ LimitRespected'
  BY <1>5, LimitStays
<1> QED
  BY <1>2, <1>5, <1>6 DEF LimitInv

LEMMA EngineBegins ==
    ASSUME LimitInv, NEW t \in Tokens, NEW b \in Books, NEW gap \in Nat, BeginAdvance(t, b, gap)
    PROVE  LimitInv' /\ Lawful
<1>1. StepInv
  BY DEF LimitInv
<1>2. StepInv' /\ Lawful
  BY <1>1, BeginAdvanceKeeps, QuietLawful
<1>3. FillsKnown' /\ LimitRespected'
  BY <1>2, LimitStays DEF BeginAdvance
<1> QED
  BY <1>2, <1>3 DEF LimitInv

LEMMA EngineAdvances ==
    ASSUME LimitInv, Advance
    PROVE  /\ LimitInv' /\ Lawful
           /\ UNCHANGED <<now, at>> /\ phase # "idle" /\ phase' # "idle"
<1>1. LimitInv' /\ Lawful
  BY AdvanceKeeps, AdvanceLawful, AdvanceLimits DEF LimitInv
<1>2. UNCHANGED <<now, at>> /\ phase # "idle" /\ phase' # "idle"
  BY DEF Advance, ApplyCancel, RefreshBook, AdmitRejects, AdmitTakes, AdmitExpires,
     AdmitRests, FinishTake, BeginMatch, StartMake, FinishMake, TakeLevel, MakeLevel,
     StartWalk, bookVars, callVars
<1> QED
  BY <1>1, <1>2

\* advance_to returns; the fills stay with the loop.
LEMMA EngineReturns ==
    ASSUME LimitInv, phase' = "idle", at' = None,
           UNCHANGED <<orders, working, active, bookVars, todo, walk, produced>>
    PROVE  LimitInv' /\ Lawful
<1>1. StepInv /\ produced' \in Seq(Fill)
  BY DEF LimitInv, StepInv, TypeOK
<1>2. StepInv' /\ Lawful
  BY <1>1, EndAdvanceKeeps, QuietLawful
<1>3. FillsKnown' /\ LimitRespected'
  BY <1>2, LimitStays
<1> QED
  BY <1>2, <1>3 DEF LimitInv

\* The fill to be booked, and those after it.
LEMMA NextFill ==
    ASSUME LimitInv, produced # <<>>
    PROVE  /\ Head(produced) \in Fill /\ Head(produced).order \in DOMAIN orders
           /\ Tail(produced) \in Seq(Fill)
           /\ \A i \in DOMAIN Tail(produced) :
                 i + 1 \in DOMAIN produced /\ Tail(produced)[i] = produced[i + 1]
<1>1. produced \in Seq(Fill)
  BY DEF LimitInv, StepInv, TypeOK
<1>2. Len(produced) \in Nat /\ DOMAIN produced = 1 .. Len(produced) /\ Len(produced) # 0
  BY <1>1, LenProperties, EmptySeq
<1>3. 1 \in DOMAIN produced /\ Head(produced) = produced[1] /\ Head(produced) \in Fill
  BY <1>1, <1>2, HeadTailProperties
<1>4. /\ Tail(produced) \in Seq(Fill) /\ Len(Tail(produced)) = Len(produced) - 1
      /\ \A i \in 1 .. Len(Tail(produced)) : Tail(produced)[i] = produced[i + 1]
  BY <1>1, HeadTailProperties
<1>5. DOMAIN Tail(produced) = 1 .. Len(produced) - 1
  BY <1>4, LenProperties
<1> QED
  BY <1>2, <1>3, <1>4, <1>5 DEF LimitInv, FillsKnown

\* A fill leaves the list.
LEMMA EngineHandsOver ==
    ASSUME LimitInv, produced # <<>>, produced' = Tail(produced),
           UNCHANGED <<orders, working, active, bookVars, callVars>>
    PROVE  LimitInv' /\ Lawful
<1>1. StepInv /\ TypeOK /\ produced' \in Seq(Fill)
  BY NextFill DEF LimitInv, StepInv
<1>2. TypeOK'
  BY <1>1 DEF TypeOK, bookVars, callVars
<1>3. SnapshotKnown' /\ WalkKnown' /\ TodoKnown' /\ WorkingListExact'
  BY <1>1 DEF StepInv, SnapshotKnown, WalkKnown, TodoKnown, WorkingListExact, bookVars, callVars
<1>4. Lawful
  BY <1>1, UnchangedIsQuiet, QuietLawful
<1>5. FillsKnown' /\ LimitRespected'
  <2>1. \A i \in DOMAIN produced' : i + 1 \in DOMAIN produced /\ produced'[i] = produced[i + 1]
    BY NextFill
  <2> QED
    BY <2>1 DEF LimitInv, FillsKnown, LimitRespected
<1> QED
  BY <1>2, <1>3, <1>4, <1>5 DEF LimitInv, StepInv

(***************************************************************************)
(* What a step does to the portfolio.                                      *)
(***************************************************************************)

\* Nothing but marks changes.
OnlyMarks ==
    /\ position' \in [Keys -> [size : Nat, basis : Nat, mark : Nat]]
    /\ \A k \in Keys : /\ position'[k].size = position[k].size
                       /\ position'[k].basis = position[k].basis
    /\ UNCHANGED <<cash, realized, openFees, bought, overclosed>>

\* A fill opens a position that nothing opposes.
Opens ==
    \E k \in Keys, price \in Nat, size \in Nat, fee \in Nat :
        /\ step = "apply" /\ ~Open(<<k[1], Opposite(k[2])>>)
        /\ OpenFill(k, price, size, fee)

\* A fill or a settlement closes an open position, or a part of it.
Closes ==
    \E k \in Keys, price \in Nat, size \in Nat, fee \in Nat :
        Open(k) /\ CloseFill(k, price, size, fee)

LEMMA BookStays ==
    ASSUME PortfolioType, UNCHANGED book
    PROVE  OnlyMarks
BY DEF PortfolioType, OnlyMarks, book

LEMMA ApplyFillBooks ==
    ASSUME LoopInv, ApplyFill
    PROVE  Opens \/ Closes
<1>1. LimitInv /\ StepInv /\ TypeOK /\ produced # <<>> /\ step = "apply"
  BY DEF LoopInv, LimitInv, StepInv, ApplyFill
<1>2. PICK f \in Fill : f = Head(produced) /\ f.order \in DOMAIN orders
  BY <1>1, NextFill
<1>3. PICK t \in Tokens, s \in Sides : t = orders[f.order].token /\ s = orders[f.order].side
  BY <1>1, <1>2, OrderType
<1>4. /\ f.price \in Nat /\ f.size \in Nat
  BY <1>2 DEF Fill, Prices
<1>5. PICK n \in Nat : n = 2 * f.price
  BY <1>4
<1>6. PICK m \in Nat : m = FillFee(f)
  BY FillFeeType
<1>7. <<t, s>> \in Keys /\ <<t, Opposite(s)>> \in Keys /\ Opposite(Opposite(s)) = s
  BY OppositeSide DEF Keys, Sides, Opposite
<1>8. IF Open(<<t, Opposite(s)>>) THEN CloseFill(<<t, Opposite(s)>>, n, f.size, m)
                                  ELSE OpenFill(<<t, s>>, n, f.size, m)
  BY <1>2, <1>3, <1>5, <1>6 DEF ApplyFill
<1>9. CASE Open(<<t, Opposite(s)>>)
  BY <1>4, <1>7, <1>8, <1>9 DEF Closes
<1>10. CASE ~Open(<<t, Opposite(s)>>)
  <2>1. <<t, s>>[1] = t /\ <<t, s>>[2] = s
    OBVIOUS
  <2> QED
    BY <1>1, <1>4, <1>7, <1>8, <1>10, <2>1 DEF Opens
<1> QED
  BY <1>9, <1>10

LEMMA MarkToMidBooks ==
    ASSUME LoopInv, MarkToMid
    PROVE  OnlyMarks
<1>1. snap \in [token : Tokens, book : Books]
  BY DEF LoopInv, SnapKnown, MarkToMid
<1>2. PICK mid \in Nat, t \in Tokens : mid = Mid(snap.book) /\ t = snap.token
  BY <1>1, MidType
<1>3. /\ position \in [Keys -> [size : Nat, basis : Nat, mark : Nat]]
      /\ position' = [k \in Keys |->
                         IF k[1] = t /\ Open(k) /\ mid > 0
                         THEN [position[k] EXCEPT !.mark = mid] ELSE position[k]]
      /\ UNCHANGED <<cash, realized, openFees, bought, overclosed>>
  BY <1>2 DEF MarkToMid, LoopInv, PortfolioType
<1>4. ASSUME NEW k \in Keys
      PROVE  /\ position'[k] \in [size : Nat, basis : Nat, mark : Nat]
             /\ position'[k].size = position[k].size /\ position'[k].basis = position[k].basis
  <2>1. position[k] \in [size : Nat, basis : Nat, mark : Nat]
    BY <1>3
  <2>2. position'[k] = [position[k] EXCEPT !.mark = mid] \/ position'[k] = position[k]
    BY <1>3
  <2> QED
    BY <2>1, <2>2
<1>5. position' \in [Keys -> [size : Nat, basis : Nat, mark : Nat]]
  <2>1. position' = [k \in Keys |-> position'[k]]
    BY <1>3
  <2> QED
    BY <1>4, <2>1
<1> QED
  BY <1>3, <1>4, <1>5 DEF OnlyMarks

LEMMA SettleDueBooks ==
    ASSUME LoopInv, NEW k \in Keys, SettleDue(k)
    PROVE  Closes
<1>1. Resolution[k[1]].price \in Nat /\ position[k].size \in Nat
  BY RunAssumption, PositionType DEF LoopInv, SettleDue, DueTokens
<1> QED
  BY <1>1 DEF SettleDue, Closes

LEMMA FinalCloseBooks ==
    ASSUME LoopInv, NEW k \in Keys, FinalClose(k)
    PROVE  Closes
<1>1. /\ position[k].size \in Nat \ {0} /\ position[k].mark \in Nat /\ position[k].basis \in Nat
      /\ Open(k)
  BY PositionType DEF LoopInv, FinalClose, Open
<1>2. position[k].basis \div position[k].size \in Nat
  BY <1>1, QuotientRange
<1>3. CASE ResolvedInWindow(k[1])
  <2>1. Resolution[k[1]].price \in Nat
    BY <1>3, RunAssumption DEF ResolvedInWindow
  <2>2. CloseFill(k, Resolution[k[1]].price, position[k].size, 0)
    BY <1>3 DEF FinalClose
  <2> QED
    BY <1>1, <2>1, <2>2 DEF Closes
<1>4. CASE ~ResolvedInWindow(k[1])
  <2>1. PICK v \in Nat : v = IF position[k].mark > 0 THEN position[k].mark
                             ELSE position[k].basis \div position[k].size
    BY <1>1, <1>2
  <2>2. CloseFill(k, v, position[k].size, 0)
    BY <1>4, <2>1 DEF FinalClose
  <2> QED
    BY <1>1, <2>2 DEF Closes
<1> QED
  BY <1>3, <1>4

\* A step changes marks, opens a position that nothing opposes, or closes one.
LEMMA RunBooks ==
    ASSUME LoopInv, [RunNext]_runVars
    PROVE  OnlyMarks \/ Opens \/ Closes
<1>1. CASE UNCHANGED book
  BY <1>1, BookStays DEF LoopInv
<1>2. CASE ApplyFill
  BY <1>2, ApplyFillBooks
<1>3. CASE MarkToMid
  BY <1>3, MarkToMidBooks
<1>4. ASSUME NEW k \in Keys, SettleDue(k) \/ FinalClose(k) PROVE Closes
  BY <1>4, SettleDueBooks, FinalCloseBooks
<1> QED
  BY <1>1, <1>2, <1>3, <1>4 DEF RunNext, runVars, OnSnapshot, SkipSnapshot, BeginSnapshot,
     SubmitEntry, AdvanceMatching, Match, TakeFills, Hold, SubmitExit, EndSnapshot, EndReplay, Finish

LEMMA PortfolioKeepsType ==
    ASSUME LoopInv, [RunNext]_runVars
    PROVE  PortfolioType'
<1>0. PortfolioType
  BY DEF LoopInv
<1>1. CASE OnlyMarks
  BY <1>0, <1>1 DEF OnlyMarks, PortfolioType
<1>2. CASE Opens
  BY <1>0, <1>2, OpenFillEffect DEF Opens
<1>3. CASE Closes
  BY <1>0, <1>3, CloseFillEffect DEF Closes
<1> QED
  BY <1>1, <1>2, <1>3, RunBooks

(***************************************************************************)
(* The type invariant of the run.                                          *)
(***************************************************************************)

\* Taking the first intent keeps the order of the others.
LEMMA NextIntent ==
    ASSUME IntentsOrdered, intents # <<>>
    PROVE  /\ Head(intents) \in Intent /\ 1 \in DOMAIN intents /\ Head(intents) = intents[1]
           /\ Tail(intents) \in Seq(Intent)
           /\ \A i \in DOMAIN Tail(intents) :
                 i \in Nat /\ i + 1 \in DOMAIN intents /\ Tail(intents)[i] = intents[i + 1]
<1>1. intents \in Seq(Intent)
  BY DEF IntentsOrdered
<1>2. Len(intents) \in Nat \ {0} /\ DOMAIN intents = 1 .. Len(intents) /\ Head(intents) = intents[1]
  BY <1>1, EmptySeq, LenProperties
<1>3. /\ Head(intents) \in Intent
      /\ Tail(intents) \in Seq(Intent) /\ Len(Tail(intents)) = Len(intents) - 1
      /\ \A i \in 1 .. Len(Tail(intents)) : Tail(intents)[i] = intents[i + 1]
  BY <1>1, HeadTailProperties
<1>4. DOMAIN Tail(intents) = 1 .. Len(intents) - 1
  BY <1>3, LenProperties
<1> QED
  BY <1>2, <1>3, <1>4

LEMMA IntentType ==
    ASSUME NEW i \in Intent
    PROVE  i.request \in Request /\ i.request.token \in Tokens /\ i.emitted \in Nat
BY EngineAssumption DEF Intent, Request

\* The orders of the run and the engine's clock.
LEMMA SubmitEntryRuns ==
    ASSUME LoopInv, SubmitEntry
    PROVE  LimitInv' /\ Lawful /\ IntentsOrdered'
<1>0. LimitInv /\ IntentsOrdered /\ intents # <<>> /\ step = "drain" /\ phase = "idle"
  BY DEF LoopInv, SubmitEntry, IntentsReady, EngineWaits
<1>1. PICK i \in Intent : i = Head(intents)
  BY <1>0, NextIntent
<1>2. i.request \in Request /\ i.emitted \in Nat
  BY IntentType
<1>3. /\ \/ SubmitOrder(i.request, i.emitted)
         \/ UNCHANGED <<orders, active>>
      /\ UNCHANGED <<working, bookVars, callVars, produced>>
  BY <1>1 DEF SubmitEntry
<1>4. LimitInv' /\ Lawful
  <2>1. CASE SubmitOrder(i.request, i.emitted)
    BY <1>0, <1>2, <1>3, <2>1, EngineSubmits
  <2>2. CASE UNCHANGED <<orders, active>>
    <3>1. UNCHANGED vars
      BY <1>3, <2>2 DEF vars, bookVars, callVars
    <3> QED
      BY <1>0, <3>1, EngineRests
  <2> QED
    BY <1>3, <2>1, <2>2
<1>5. /\ intents' \in Seq(Intent)
      /\ \A j \in DOMAIN intents' :
            j \in Nat /\ j + 1 \in DOMAIN intents /\ intents'[j] = intents[j + 1]
  BY <1>0, NextIntent DEF SubmitEntry
<1>6. ASSUME NEW j \in DOMAIN intents', NEW m \in DOMAIN intents', j <= m
      PROVE  intents'[j].emitted <= intents'[m].emitted
  <2>1. j + 1 <= m + 1
    BY <1>5, <1>6
  <2> QED
    BY <1>0, <1>5, <2>1 DEF IntentsOrdered
<1> QED
  BY <1>4, <1>5, <1>6 DEF IntentsOrdered

LEMMA SubmitExitRuns ==
    ASSUME LoopInv, NEW k \in Keys, NEW raw \in ExitPrices, NEW size \in 1 .. position[k].size,
           SubmitExit(k, raw, size)
    PROVE  /\ LimitInv' /\ Lawful
           /\ \E r \in Request : SubmitOrder(r, clock)
<1>0. LimitInv /\ phase = "idle" /\ clock \in Nat /\ PortfolioType
  BY DEF LoopInv, SubmitExit, EngineWaits, LoopType
<1>1. PICK r : r = [token |-> k[1], side |-> Opposite(k[2]), raw |-> raw, size |-> size,
                    tif |-> "IOC", postOnly |-> FALSE]
  OBVIOUS
<1>2. r \in Request
  <2>1. k[1] \in Tokens /\ Opposite(k[2]) \in Sides
    BY <1>0, PositionType, OppositeSide
  <2>2. raw \in Nat /\ size \in Nat
    BY <1>0, RunAssumption, PositionType
  <2> QED
    BY <1>1, <2>1, <2>2 DEF Request, Tifs
<1>3. SubmitOrder(r, clock) /\ UNCHANGED <<working, bookVars, callVars, produced>>
  BY <1>1 DEF SubmitExit
<1> QED
  BY <1>0, <1>2, <1>3, EngineSubmits

LEMMA AdvanceMatchingRuns ==
    ASSUME LoopInv, AdvanceMatching
    PROVE  LimitInv' /\ Lawful /\ now' = clock /\ at'.token = snap.token /\ phase' = "cancel"
<1>1. /\ LimitInv /\ now \in Nat /\ clock \in Nat /\ now <= clock
      /\ snap.token \in Tokens /\ snap.book \in Books
  BY DEF LoopInv, LoopType, SnapKnown, AdvanceMatching, LimitInv, StepInv, TypeOK
<1>2. PICK gap \in Nat : gap = clock - now
  BY <1>1
<1>3. BeginAdvance(snap.token, snap.book, gap)
  BY <1>2 DEF AdvanceMatching
<1>4. now' = clock /\ at'.token = snap.token /\ phase' = "cancel"
  BY <1>1, <1>2, <1>3 DEF BeginAdvance
<1> QED
  BY <1>1, <1>3, <1>4, EngineBegins

LEMMA TakeFillsRuns ==
    ASSUME LoopInv, TakeFills
    PROVE  LimitInv' /\ Lawful
BY EngineReturns DEF LoopInv, TakeFills

LEMMA ApplyFillRuns ==
    ASSUME LoopInv, ApplyFill
    PROVE  LimitInv' /\ Lawful
BY EngineHandsOver DEF LoopInv, ApplyFill

\* Every step of the run leaves the engine in order.
LEMMA RunLawful ==
    ASSUME LoopInv, [RunNext]_runVars
    PROVE  LimitInv' /\ Lawful
<1>0. LimitInv
  BY DEF LoopInv
<1>1. CASE UNCHANGED vars
  BY <1>0, <1>1, EngineRests
<1>2. CASE SubmitEntry \/ AdvanceMatching \/ TakeFills \/ ApplyFill
  BY <1>2, SubmitEntryRuns, AdvanceMatchingRuns, TakeFillsRuns, ApplyFillRuns
<1>3. CASE Match
  BY <1>0, <1>3, EngineAdvances DEF Match
<1>4. ASSUME NEW k \in Keys, NEW raw \in ExitPrices, NEW size \in 1 .. position[k].size,
             SubmitExit(k, raw, size)
      PROVE  LimitInv' /\ Lawful
  BY <1>4, SubmitExitRuns
<1> QED
  BY <1>1, <1>2, <1>3, <1>4 DEF RunNext, runVars, OnSnapshot, SettleDue, SkipSnapshot,
     BeginSnapshot, MarkToMid, Hold, EndSnapshot, EndReplay, FinalClose, Finish

LoopRest == LoopType /\ EngineWaits /\ SnapKnown /\ IntentsOrdered

LEMMA LoopInit == RunInit => LoopInv
<1> SUFFICES ASSUME RunInit PROVE LoopInv
  OBVIOUS
<1>1. LimitInv
  BY InitStep DEF RunInit, Init, LimitInv, FillsKnown, LimitRespected
<1>2. PortfolioType
  <2>1. NoPosition \in [size : Nat, basis : Nat, mark : Nat]
    BY DEF NoPosition
  <2>2. /\ cash = InitialCash /\ realized = 0 /\ openFees = 0 /\ overclosed = FALSE
        /\ position = [k \in Keys |-> NoPosition] /\ bought = [t \in Tokens |-> 0]
    BY DEF RunInit
  <2>3. InitialCash \in Int
    BY RunAssumption
  <2>4. position \in [Keys -> [size : Nat, basis : Nat, mark : Nat]]
    BY <2>1, <2>2
  <2>5. overclosed \in BOOLEAN
    BY <2>2, Zenon
  <2>6. bought \in [Tokens -> Int]
    BY <2>2
  <2> QED
    BY <2>2, <2>3, <2>4, <2>5, <2>6 DEF PortfolioType
<1>3. LoopType
  BY DEF RunInit, Init, LoopType
<1>4. EngineWaits /\ SnapKnown
  BY DEF RunInit, Init, EngineWaits, SnapKnown
<1>5. IntentsOrdered
  BY RunAssumption DEF RunInit, IntentsOrdered, Intent
<1> QED
  BY <1>1, <1>2, <1>3, <1>4, <1>5 DEF LoopInv

\* The loop steps that leave the engine alone.
LEMMA QuietLoop ==
    ASSUME LoopInv, UNCHANGED vars,
           \/ \E t \in Tokens, b \in Snapshots, gap \in Gaps : OnSnapshot(t, b, gap)
           \/ \E k \in Keys : SettleDue(k) \/ Hold(k) \/ FinalClose(k)
           \/ SkipSnapshot \/ BeginSnapshot \/ MarkToMid \/ EndSnapshot \/ EndReplay \/ Finish
           \/ UNCHANGED runVars
    PROVE  LoopRest'
<1>0. LoopType /\ EngineWaits /\ SnapKnown /\ IntentsOrdered /\ now \in Nat /\ UNCHANGED <<now, phase, at>>
  BY DEF LoopInv, LimitInv, StepInv, TypeOK, vars
<1>1. ASSUME NEW t \in Tokens, NEW b \in Snapshots, NEW gap \in Gaps, OnSnapshot(t, b, gap)
      PROVE  LoopRest'
  <2>1. gap \in Nat /\ b \in Books
    BY EngineAssumption
  <2>2. clock' \in Nat /\ now' <= clock'
    BY <1>0, <1>1, <2>1 DEF OnSnapshot, LoopType
  <2>3. LoopType'
    BY <1>0, <1>1, <2>2 DEF OnSnapshot, Goto, LoopType
  <2>4. EngineWaits' /\ SnapKnown' /\ IntentsOrdered'
    BY <1>0, <1>1, <2>1 DEF OnSnapshot, Goto, EngineWaits, SnapKnown, IntentsOrdered
  <2> QED
    BY <2>3, <2>4 DEF LoopRest
<1>2. ASSUME NEW k \in Keys, SettleDue(k) \/ Hold(k) \/ FinalClose(k)
      PROVE  LoopRest'
  <2>1. k[1] \in Tokens
    BY DEF Keys
  <2>2. UNCHANGED <<step, clock, snap, intents, swept, latest>>
    BY <1>2 DEF SettleDue, Hold, FinalClose, loop
  <2>3. asking' \subseteq asking /\ marked' \subseteq marked \cup {k[1]}
    BY <1>2 DEF SettleDue, Hold, FinalClose, loop
  <2>4. LoopType'
    BY <1>0, <2>1, <2>2, <2>3 DEF LoopType
  <2>5. EngineWaits' /\ SnapKnown' /\ IntentsOrdered'
    BY <1>0, <2>2 DEF EngineWaits, SnapKnown, IntentsOrdered
  <2> QED
    BY <2>4, <2>5 DEF LoopRest
<1>3. CASE SkipSnapshot
  <2>1. snap.token \in Tokens /\ clock \in Nat
    BY <1>0, <1>3 DEF SkipSnapshot, SweepDone, SnapKnown, LoopType
  <2>2. DueTokens \subseteq Tokens
    BY RunAssumption DEF DueTokens
  <2>3. LoopType'
    BY <1>0, <1>3, <2>1, <2>2 DEF SkipSnapshot, LoopType, Goto
  <2>4. EngineWaits' /\ SnapKnown' /\ IntentsOrdered'
    BY <1>0, <1>3 DEF SkipSnapshot, SweepDone, Goto, EngineWaits, SnapKnown, IntentsOrdered
  <2> QED
    BY <2>3, <2>4 DEF LoopRest
<1>4. CASE BeginSnapshot
  <2>2. DueTokens \subseteq Tokens
    BY RunAssumption DEF DueTokens
  <2>3. LoopType'
    BY <1>0, <1>4, <2>2 DEF BeginSnapshot, LoopType, Goto
  <2>4. EngineWaits' /\ SnapKnown' /\ IntentsOrdered'
    BY <1>0, <1>4 DEF BeginSnapshot, SweepDone, Goto, EngineWaits, SnapKnown, IntentsOrdered
  <2> QED
    BY <2>3, <2>4 DEF LoopRest
<1>5. CASE MarkToMid
  <2>1. snap.token \in Tokens /\ clock \in Nat
    BY <1>0, <1>5 DEF MarkToMid, SnapKnown, LoopType
  <2>2. asking' \subseteq Keys /\ latest' = [latest EXCEPT ![snap.token] = clock]
    BY <1>5 DEF MarkToMid
  <2>3. step' = "exit" /\ UNCHANGED <<clock, snap, intents, swept, marked>> /\ step = "apply"
    BY <1>5 DEF MarkToMid, Goto
  <2>4. LoopType'
    BY <1>0, <2>1, <2>2, <2>3 DEF LoopType
  <2>5. EngineWaits' /\ SnapKnown' /\ IntentsOrdered'
    BY <1>0, <2>3 DEF EngineWaits, SnapKnown, IntentsOrdered
  <2> QED
    BY <2>4, <2>5 DEF LoopRest
<1>6. CASE EndSnapshot \/ EndReplay \/ Finish \/ UNCHANGED runVars
  <2>1. LoopType'
    BY <1>0, <1>6 DEF EndSnapshot, EndReplay, Finish, runVars, Goto, LoopType, loop
  <2>2. EngineWaits' /\ SnapKnown' /\ IntentsOrdered'
    BY <1>0, <1>6 DEF EndSnapshot, EndReplay, Finish, runVars, Goto, EngineWaits, SnapKnown,
                      IntentsOrdered, loop
  <2> QED
    BY <2>1, <2>2 DEF LoopRest
<1> QED
  BY <1>1, <1>2, <1>3, <1>4, <1>5, <1>6

\* The loop steps that call the engine.
LEMMA BusyLoop ==
    ASSUME LoopInv,
           \/ SubmitEntry \/ AdvanceMatching \/ Match \/ TakeFills \/ ApplyFill
           \/ \E k \in Keys, raw \in ExitPrices : \E size \in 1 .. position[k].size :
                 SubmitExit(k, raw, size)
    PROVE  LoopRest'
<1>0. LoopType /\ EngineWaits /\ SnapKnown /\ IntentsOrdered /\ now \in Nat /\ LimitInv
  BY DEF LoopInv, LimitInv, StepInv, TypeOK
<1>1. CASE SubmitEntry
  <2>1. /\ UNCHANGED <<step, clock, snap, swept, latest, asking, marked, now, phase, at>>
        /\ IntentsOrdered'
    BY <1>1, SubmitEntryRuns DEF SubmitEntry, bookVars, callVars
  <2> QED
    BY <1>0, <2>1 DEF LoopRest, LoopType, EngineWaits, SnapKnown
<1>2. CASE AdvanceMatching
  <2>1. /\ UNCHANGED <<clock, snap, intents, swept, latest, asking, marked>>
        /\ step = "drain" /\ step' = "match"
        /\ now' = clock /\ at'.token = snap.token /\ phase' = "cancel"
    BY <1>2, AdvanceMatchingRuns DEF AdvanceMatching, Goto, loop
  <2> QED
    BY <1>0, <2>1 DEF LoopRest, LoopType, EngineWaits, SnapKnown, IntentsOrdered
<1>3. CASE Match
  <2>1. /\ UNCHANGED <<step, clock, snap, intents, swept, latest, asking, marked, now, at>>
        /\ step = "match" /\ phase' # "idle"
    BY <1>0, <1>3, EngineAdvances DEF Match, loop
  <2> QED
    BY <1>0, <2>1 DEF LoopRest, LoopType, EngineWaits, SnapKnown, IntentsOrdered
<1>4. CASE TakeFills
  <2>1. /\ UNCHANGED <<clock, snap, intents, swept, latest, asking, marked, now>>
        /\ step = "match" /\ step' = "apply" /\ phase' = "idle"
    BY <1>4 DEF TakeFills, Goto, loop, bookVars
  <2> QED
    BY <1>0, <2>1 DEF LoopRest, LoopType, EngineWaits, SnapKnown, IntentsOrdered
<1>5. CASE ApplyFill
  <2>1. UNCHANGED <<step, clock, snap, intents, swept, latest, asking, marked, now, phase, at>>
    BY <1>5 DEF ApplyFill, loop, bookVars, callVars
  <2> QED
    BY <1>0, <2>1 DEF LoopRest, LoopType, EngineWaits, SnapKnown, IntentsOrdered
<1>6. ASSUME NEW k \in Keys, NEW raw \in ExitPrices, NEW size \in 1 .. position[k].size,
             SubmitExit(k, raw, size)
      PROVE  LoopRest'
  <2>1. /\ UNCHANGED <<step, clock, snap, intents, swept, latest, marked, now, phase, at>>
        /\ asking' \subseteq asking
    BY <1>6 DEF SubmitExit, bookVars, callVars
  <2> QED
    BY <1>0, <2>1 DEF LoopRest, LoopType, EngineWaits, SnapKnown, IntentsOrdered
<1> QED
  BY <1>1, <1>2, <1>3, <1>4, <1>5, <1>6

LEMMA LoopKeeps ==
    ASSUME LoopInv, [RunNext]_runVars
    PROVE  LoopInv'
<1>1. LimitInv' /\ PortfolioType'
  BY RunLawful, PortfolioKeepsType
<1>2. LoopRest'
  <2>1. CASE \/ SubmitEntry \/ AdvanceMatching \/ Match \/ TakeFills \/ ApplyFill
             \/ \E k \in Keys, raw \in ExitPrices : \E size \in 1 .. position[k].size :
                   SubmitExit(k, raw, size)
    BY <2>1, BusyLoop
  <2>2. CASE \/ \E t \in Tokens, b \in Snapshots, gap \in Gaps : OnSnapshot(t, b, gap)
             \/ \E k \in Keys : SettleDue(k) \/ Hold(k) \/ FinalClose(k)
             \/ SkipSnapshot \/ BeginSnapshot \/ MarkToMid \/ EndSnapshot \/ EndReplay \/ Finish
             \/ UNCHANGED runVars
    <3>1. UNCHANGED vars
      BY <2>2 DEF OnSnapshot, SettleDue, Hold, FinalClose, SkipSnapshot, BeginSnapshot, MarkToMid,
                  EndSnapshot, EndReplay, Finish, runVars
    <3> QED
      BY <2>2, <3>1, QuietLoop
  <2> QED
    BY <2>1, <2>2 DEF RunNext
<1> QED
  BY <1>1, <1>2 DEF LoopInv, LoopRest

THEOREM RunStep == RunSpec => []LoopInv
<1>1. LoopInv /\ [RunNext]_runVars => LoopInv'
  BY LoopKeeps
<1> QED
  BY <1>1, LoopInit, PTL DEF RunSpec

\* Whatever the limits, fees, books and intents, the loop and the portfolio keep
\* their types: no division leaves a position with a negative size or basis.
THEOREM RunTypeCorrect == RunSpec => []RunTypeOK
<1>1. LoopInv => RunTypeOK
  BY DEF LoopInv, LimitInv, StepInv, PortfolioType, LoopType, RunTypeOK
<1> QED
  BY <1>1, RunStep, PTL

(***************************************************************************)
(* Positions and money.                                                    *)
(***************************************************************************)

\* The positions of one token, on one side only, and what its fills add up to.
NetOf(t) ==
    /\ ~(Open(<<t, "BUY">>) /\ Open(<<t, "SELL">>))
    /\ ~overclosed => position[<<t, "BUY">>].size - position[<<t, "SELL">>].size = bought[t]

NetInv == LoopInv /\ PositionsAreNetFills

LEMMA NetParts ==
    /\ PositionsAreNetFills <=> \A t \in Tokens : NetOf(t)
    /\ PositionsAreNetFills' <=> \A t \in Tokens : NetOf(t)'
BY DEF PositionsAreNetFills, NetOf

LEMMA TokenKeys ==
    ASSUME PortfolioType, NEW t \in Tokens, NEW s \in Sides
    PROVE  /\ <<t, s>> \in Keys /\ <<t, s>>[1] = t /\ <<t, s>>[2] = s
           /\ <<t, Opposite(s)>> \in Keys /\ <<t, s>> # <<t, Opposite(s)>>
           /\ position[<<t, s>>].size \in Nat /\ position[<<t, Opposite(s)>>].size \in Nat
BY DEF PortfolioType, Keys, Sides, Opposite

\* The tokens a change of one position does not concern.
LEMMA OtherTokensNet ==
    ASSUME PositionsAreNetFills, NEW k \in Keys, NEW n, NEW b, Repositioned(k, n, b),
           overclosed' \/ ~overclosed, NEW t \in Tokens, t # k[1], bought'[t] = bought[t]
    PROVE  NetOf(t)'
<1>1. position'[<<t, "BUY">>] = position[<<t, "BUY">>] /\ position'[<<t, "SELL">>] = position[<<t, "SELL">>]
  BY DEF Repositioned, Keys, Sides
<1>2. NetOf(t)
  BY NetParts
<1> QED
  BY <1>1, <1>2 DEF NetOf, Open

LEMMA OpensNet ==
    ASSUME PortfolioType, PositionsAreNetFills, Opens
    PROVE  PositionsAreNetFills'
<1>1. PICK k \in Keys, price \in Nat, size \in Nat, fee \in Nat :
         /\ step = "apply" /\ ~Open(<<k[1], Opposite(k[2])>>)
         /\ OpenFill(k, price, size, fee)
  BY DEF Opens
<1>2. PICK t \in Tokens, s \in Sides : k = <<t, s>> /\ t = k[1] /\ s = k[2]
  BY PositionType
<1>3. PICK n, b : /\ Repositioned(k, n, b) /\ n = position[k].size + size
  BY <1>1, OpenFillEffect
<1>4. /\ bought'[t] = bought[t] + Signed(s, size)
      /\ \A x \in Tokens : x # t => bought'[x] = bought[x]
      /\ UNCHANGED overclosed
  BY <1>1, <1>2, OpenFillEffect DEF OpenFill
<1>5. NetOf(t)'
  <2>1. /\ position[k].size \in Nat /\ position[<<t, Opposite(s)>>].size = 0
        /\ <<t, Opposite(s)>> \in Keys /\ k # <<t, Opposite(s)>> /\ bought[t] \in Int
    BY <1>1, <1>2, TokenKeys DEF Open, PortfolioType
  <2>2. position'[k].size = position[k].size + size /\ position'[<<t, Opposite(s)>>].size = 0
    BY <1>3, <2>1 DEF Repositioned
  <2>3. NetOf(t)
    BY NetParts
  <2>4. CASE s = "BUY"
    <3>1. Opposite(s) = "SELL" /\ Signed(s, size) = size
      BY <2>4 DEF Opposite, Signed
    <3> QED
      BY <1>2, <1>4, <2>1, <2>2, <2>3, <2>4, <3>1 DEF NetOf, Open
  <2>5. CASE s = "SELL"
    <3>1. Opposite(s) = "BUY" /\ Signed(s, size) = 0 - size
      BY <2>5 DEF Opposite, Signed
    <3> QED
      BY <1>2, <1>4, <2>1, <2>2, <2>3, <2>5, <3>1 DEF NetOf, Open
  <2> QED
    BY <2>4, <2>5 DEF Sides
<1>6. ASSUME NEW x \in Tokens, x # t PROVE NetOf(x)'
  BY <1>2, <1>3, <1>4, <1>6, OtherTokensNet
<1> QED
  BY <1>5, <1>6, NetParts

LEMMA ClosesNet ==
    ASSUME PortfolioType, PositionsAreNetFills, Closes
    PROVE  PositionsAreNetFills'
<1>1. PICK k \in Keys, price \in Nat, size \in Nat, fee \in Nat :
         Open(k) /\ CloseFill(k, price, size, fee)
  BY DEF Closes
<1>2. PICK t \in Tokens, s \in Sides : k = <<t, s>> /\ t = k[1] /\ s = k[2]
  BY PositionType
<1>3. PICK n, b : Repositioned(k, n, b) /\ n = position[k].size - Taken(k, size)
  BY <1>1, CloseFillEffect
<1>4. /\ bought'[t] = bought[t] - Signed(s, size)
      /\ \A x \in Tokens : x # t => bought'[x] = bought[x]
      /\ overclosed' = (overclosed \/ size > position[k].size)
  BY <1>1, <1>2, CloseFillEffect
<1>5. NetOf(t)'
  <2>1. /\ position[k].size \in Nat \ {0} /\ position[<<t, Opposite(s)>>].size \in Nat
        /\ <<t, Opposite(s)>> \in Keys /\ k # <<t, Opposite(s)>> /\ bought[t] \in Int
    BY <1>1, <1>2, TokenKeys DEF Open, PortfolioType
  <2>2. NetOf(t)
    BY NetParts
  <2>3. position[<<t, Opposite(s)>>].size = 0
    BY <1>1, <1>2, <2>1, <2>2 DEF NetOf, Open, Opposite, Sides
  <2>4. position'[k].size = position[k].size - Taken(k, size) /\ position'[<<t, Opposite(s)>>].size = 0
    BY <1>3, <2>1, <2>3 DEF Repositioned
  <2>5. ~overclosed' => ~overclosed /\ Taken(k, size) = size
    <3>1. ~overclosed' => ~overclosed /\ ~(size > position[k].size)
      BY <1>4, Zenon
    <3>2. ~(size > position[k].size) => Taken(k, size) = size
      BY <2>1 DEF Taken
    <3> QED
      BY <3>1, <3>2, Zenon
  <2>6. CASE s = "BUY"
    <3>1. Opposite(s) = "SELL" /\ Signed(s, size) = size
      BY <2>6 DEF Opposite, Signed
    <3> QED
      BY <1>2, <1>4, <2>1, <2>2, <2>3, <2>4, <2>5, <2>6, <3>1 DEF NetOf, Open
  <2>7. CASE s = "SELL"
    <3>1. Opposite(s) = "BUY" /\ Signed(s, size) = 0 - size
      BY <2>7 DEF Opposite, Signed
    <3> QED
      BY <1>2, <1>4, <2>1, <2>2, <2>3, <2>4, <2>5, <2>7, <3>1 DEF NetOf, Open
  <2> QED
    BY <2>6, <2>7 DEF Sides
<1>6. ASSUME NEW x \in Tokens, x # t PROVE NetOf(x)'
  BY <1>2, <1>3, <1>4, <1>6, OtherTokensNet
<1> QED
  BY <1>5, <1>6, NetParts

LEMMA MarksNet ==
    ASSUME PositionsAreNetFills, OnlyMarks
    PROVE  PositionsAreNetFills'
<1>1. ASSUME NEW t \in Tokens PROVE NetOf(t)'
  <2>1. <<t, "BUY">> \in Keys /\ <<t, "SELL">> \in Keys
    BY DEF Keys, Sides
  <2>2. NetOf(t)
    BY NetParts
  <2> QED
    BY <2>1, <2>2 DEF NetOf, OnlyMarks, Open
<1> QED
  BY <1>1, NetParts

\* Whatever the fills, a token has a position on one side only, and as long as no
\* closing fill was larger than its position it is what the fills add up to
\* (PortfolioSimulator.apply_fill).
THEOREM PositionsNet == RunSpec => []PositionsAreNetFills
<1>1. RunInit => NetInv
  <2> SUFFICES ASSUME RunInit PROVE PositionsAreNetFills
    BY LoopInit DEF NetInv
  <2>1. ASSUME NEW t \in Tokens PROVE NetOf(t)
    BY DEF RunInit, NetOf, Open, NoPosition, Keys, Sides
  <2> QED
    BY <2>1, NetParts
<1>2. NetInv /\ [RunNext]_runVars => NetInv'
  <2> SUFFICES ASSUME NetInv, [RunNext]_runVars PROVE PositionsAreNetFills'
    BY LoopKeeps DEF NetInv
  <2>1. OnlyMarks \/ Opens \/ Closes
    BY RunBooks DEF NetInv
  <2> QED
    BY <2>1, MarksNet, OpensNet, ClosesNet DEF NetInv, LoopInv
<1>3. NetInv => PositionsAreNetFills
  BY DEF NetInv
<1> QED
  BY <1>1, <1>2, <1>3, PTL DEF RunSpec

\* What is tied up in the positions P of a side, over the tokens.
BasesOf(P, side) == [t \in Tokens |-> P[<<t, side>>].basis]

LEMMA BasesType ==
    ASSUME NEW P \in [Keys -> [size : Nat, basis : Nat, mark : Nat]], NEW side \in Sides
    PROVE  /\ IntOn(BasesOf(P, side), Tokens)
           /\ SumFunctionOnSet(BasesOf(P, side), Tokens) \in Int
           /\ \A t \in Tokens : BasesOf(P, side)[t] = P[<<t, side>>].basis
           /\ \A t \in Tokens : <<t, side>> \in Keys /\ P[<<t, side>>].basis \in Nat
<1>1. \A t \in Tokens : <<t, side>> \in Keys /\ P[<<t, side>>].basis \in Nat
  BY DEF Keys
<1>2. IntOn(BasesOf(P, side), Tokens)
  BY <1>1 DEF IntOn, BasesOf
<1>3. \A t \in Tokens : BasesOf(P, side)[t] = P[<<t, side>>].basis
  BY DEF BasesOf
<1> QED
  BY <1>1, <1>2, <1>3, SumRemove, EngineAssumption

\* A sum of bases moves with the basis of the one position that changes.
LEMMA BasisMoves ==
    ASSUME PortfolioType, NEW t \in Tokens, NEW s \in Sides, NEW n, NEW b,
           Repositioned(<<t, s>>, n, b)
    PROVE  /\ Basis(s) \in Int /\ Basis(Opposite(s)) \in Int
           /\ Basis(s)' = Basis(s) - position[<<t, s>>].basis + b
           /\ Basis(Opposite(s))' = Basis(Opposite(s))
<1>0. IsFiniteSet(Tokens) /\ Opposite(s) \in Sides /\ Opposite(s) # s
  BY EngineAssumption DEF Opposite, Sides
<1>1. PICK P \in [Keys -> [size : Nat, basis : Nat, mark : Nat]] : P = position
  BY DEF PortfolioType
<1>2. PICK Q \in [Keys -> [size : Nat, basis : Nat, mark : Nat]] : Q = position'
  BY DEF Repositioned
<1>3. Q[<<t, s>>].basis = b /\ \A x \in Keys : x # <<t, s>> => Q[x] = P[x]
  BY <1>1, <1>2 DEF Repositioned
<1>4. /\ Basis(s) = SumFunctionOnSet(BasesOf(P, s), Tokens)
      /\ Basis(s)' = SumFunctionOnSet(BasesOf(Q, s), Tokens)
      /\ Basis(Opposite(s)) = SumFunctionOnSet(BasesOf(P, Opposite(s)), Tokens)
      /\ Basis(Opposite(s))' = SumFunctionOnSet(BasesOf(Q, Opposite(s)), Tokens)
  BY <1>1, <1>2 DEF Basis, BasesOf
<1>5. SumFunctionOnSet(BasesOf(Q, s), Tokens)
        = SumFunctionOnSet(BasesOf(P, s), Tokens) - P[<<t, s>>].basis + b
  <2>1. \A y \in Tokens \ {t} : BasesOf(P, s)[y] = BasesOf(Q, s)[y]
    BY <1>3 DEF BasesOf, Keys
  <2>2. IntOn(BasesOf(P, s), Tokens) /\ IntOn(BasesOf(Q, s), Tokens)
    BY BasesType
  <2>3. SumFunctionOnSet(BasesOf(Q, s), Tokens)
          = SumFunctionOnSet(BasesOf(P, s), Tokens) - BasesOf(P, s)[t] + BasesOf(Q, s)[t]
    BY <1>0, <2>1, <2>2, SumChange
  <2>4. BasesOf(P, s)[t] = P[<<t, s>>].basis /\ BasesOf(Q, s)[t] = b
    BY <1>3, BasesType
  <2> QED
    BY <2>3, <2>4
<1>6. SumFunctionOnSet(BasesOf(Q, Opposite(s)), Tokens)
        = SumFunctionOnSet(BasesOf(P, Opposite(s)), Tokens)
  <2>1. \A y \in Tokens : BasesOf(P, Opposite(s))[y] = BasesOf(Q, Opposite(s))[y]
    BY <1>0, <1>3 DEF BasesOf, Keys
  <2> QED
    BY <1>0, <2>1, SumCongruent
<1>7. /\ SumFunctionOnSet(BasesOf(P, s), Tokens) \in Int
      /\ SumFunctionOnSet(BasesOf(P, Opposite(s)), Tokens) \in Int
  BY <1>0, BasesType
<1> QED
  BY <1>1, <1>4, <1>5, <1>6, <1>7

\* Marks move no money.
LEMMA BasisStays ==
    ASSUME OnlyMarks, NEW s \in Sides
    PROVE  Basis(s)' = Basis(s)
<1>1. \A y \in Tokens : BasesOf(position, s)[y] = BasesOf(position', s)[y]
  BY DEF OnlyMarks, BasesOf, Keys
<1>2. PICK P, Q : P = position /\ Q = position'
  OBVIOUS
<1>3. SumFunctionOnSet(BasesOf(P, s), Tokens) = SumFunctionOnSet(BasesOf(Q, s), Tokens)
  BY <1>1, <1>2, SumCongruent, EngineAssumption
<1> QED
  BY <1>2, <1>3 DEF Basis, BasesOf

BalanceInv == LoopInv /\ BooksBalance

LEMMA OpensBalance ==
    ASSUME PortfolioType, BooksBalance, Opens, ~overclosed'
    PROVE  cash' = InitialCash + realized' - openFees' - Basis("BUY")' + Basis("SELL")'
<1>1. PICK k \in Keys, price \in Nat, size \in Nat, fee \in Nat :
         OpenFill(k, price, size, fee)
  BY DEF Opens
<1>2. PICK t \in Tokens, s \in Sides : k = <<t, s>> /\ s = k[2] /\ position[k].basis \in Nat
  BY PositionType
<1>3. PICK n \in Nat : n = price * size
  BY NatProduct
<1>4. PICK b : /\ Repositioned(<<t, s>>, position[k].size + size, b) /\ b = position[k].basis + n
  BY <1>1, <1>2, <1>3, OpenFillEffect
<1>5. /\ cash' = cash - Signed(s, n) - fee /\ openFees' = openFees + fee
      /\ realized' = realized /\ ~overclosed
  BY <1>1, <1>2, <1>3 DEF OpenFill
<1>6. cash \in Int /\ realized \in Int /\ openFees \in Int /\ InitialCash \in Int
  BY RunAssumption DEF PortfolioType
<1>7. /\ Basis(s) \in Int /\ Basis(Opposite(s)) \in Int
      /\ Basis(s)' = Basis(s) + n
      /\ Basis(Opposite(s))' = Basis(Opposite(s))
  BY <1>2, <1>4, BasisMoves
<1>8. cash = InitialCash + realized - openFees - Basis("BUY") + Basis("SELL")
  BY <1>5 DEF BooksBalance
<1>9. CASE s = "BUY"
  <2>1. Opposite(s) = "SELL" /\ Signed(s, n) = n
    BY <1>9 DEF Opposite, Signed
  <2> QED
    BY <1>5, <1>6, <1>7, <1>8, <1>9, <2>1
<1>10. CASE s = "SELL"
  <2>1. Opposite(s) = "BUY" /\ Signed(s, n) = 0 - n
    BY <1>10 DEF Opposite, Signed
  <2> QED
    BY <1>5, <1>6, <1>7, <1>8, <1>10, <2>1
<1> QED
  BY <1>9, <1>10 DEF Sides

LEMMA ClosesBalance ==
    ASSUME PortfolioType, BooksBalance, Closes, ~overclosed'
    PROVE  cash' = InitialCash + realized' - openFees' - Basis("BUY")' + Basis("SELL")'
<1>1. PICK k \in Keys, price \in Nat, size \in Nat, fee \in Nat :
         Open(k) /\ CloseFill(k, price, size, fee)
  BY DEF Closes
<1>2. PICK t \in Tokens, s \in Sides : /\ k = <<t, s>> /\ s = k[2]
                                       /\ position[k].basis \in Nat /\ position[k].size \in Nat
  BY PositionType
<1>3. PICK n \in Nat : n = price * size
  BY NatProduct
<1>4. ~overclosed /\ Taken(k, size) = size
  <2>1. overclosed' = (overclosed \/ size > position[k].size)
    BY <1>1, CloseFillEffect
  <2>2. ~overclosed /\ ~(size > position[k].size)
    BY <2>1, Zenon
  <2>3. Taken(k, size) = size
    BY <1>2, <2>2 DEF Taken
  <2> QED
    BY <2>2, <2>3
<1>5. PICK chunk \in Nat, won \in Nat :
         /\ Repositioned(k, position[k].size - size, position[k].basis - chunk)
         /\ realized' = realized + Signed(s, n - chunk) - fee - won
         /\ cash' = cash + Signed(s, n) - fee - won
  BY <1>1, <1>2, <1>3, <1>4, CloseFillEffect
<1>6. PICK b : b = position[k].basis - chunk /\ Repositioned(<<t, s>>, position[k].size - size, b)
  BY <1>2, <1>5
<1>7. cash \in Int /\ realized \in Int /\ openFees \in Int /\ InitialCash \in Int /\ openFees' = openFees
  BY <1>1, RunAssumption, CloseFillEffect DEF PortfolioType
<1>8. /\ Basis(s) \in Int /\ Basis(Opposite(s)) \in Int
      /\ Basis(s)' = Basis(s) - chunk
      /\ Basis(Opposite(s))' = Basis(Opposite(s))
  BY <1>2, <1>6, BasisMoves
<1>9. cash = InitialCash + realized - openFees - Basis("BUY") + Basis("SELL")
  BY <1>4 DEF BooksBalance
<1>10. CASE s = "BUY"
  <2>1. Opposite(s) = "SELL" /\ Signed(s, n) = n /\ Signed(s, n - chunk) = n - chunk
    BY <1>10 DEF Opposite, Signed
  <2> QED
    BY <1>5, <1>7, <1>8, <1>9, <1>10, <2>1
<1>11. CASE s = "SELL"
  <2>1. Opposite(s) = "BUY" /\ Signed(s, n) = 0 - n /\ Signed(s, n - chunk) = 0 - (n - chunk)
    BY <1>11 DEF Opposite, Signed
  <2> QED
    BY <1>5, <1>7, <1>8, <1>9, <1>11, <2>1
<1> QED
  BY <1>10, <1>11 DEF Sides

\* As long as no closing fill was larger than its position, cash is the initial
\* capital plus what was realized, minus opening fees and what is tied up in
\* longs, plus what shorts brought in: no rounding of the proportional basis and
\* no resolution fee creates or loses money (apply_fill, apply_close_fill,
\* _on_cash_change_from_close).
THEOREM BooksAlwaysBalance == RunSpec => []BooksBalance
<1>1. RunInit => BalanceInv
  <2> SUFFICES ASSUME RunInit PROVE BooksBalance
    BY LoopInit DEF BalanceInv
  <2>1. ASSUME NEW s \in Sides PROVE Basis(s) = 0
    <3>1. PICK P : P = position
      OBVIOUS
    <3>2. \A t \in Tokens : BasesOf(P, s)[t] = 0
      BY <3>1 DEF RunInit, BasesOf, NoPosition, Keys
    <3>3. SumFunctionOnSet(BasesOf(P, s), Tokens) = 0
      BY <3>2, SumZero, EngineAssumption
    <3> QED
      BY <3>1, <3>3 DEF Basis, BasesOf
  <2>2. Basis("BUY") = 0 /\ Basis("SELL") = 0
    BY <2>1 DEF Sides
  <2>3. cash = InitialCash /\ realized = 0 /\ openFees = 0 /\ InitialCash \in Int
    BY RunAssumption DEF RunInit
  <2> QED
    BY <2>2, <2>3 DEF BooksBalance
<1>2. BalanceInv /\ [RunNext]_runVars => BalanceInv'
  <2> SUFFICES ASSUME BalanceInv, [RunNext]_runVars PROVE BooksBalance'
    BY LoopKeeps DEF BalanceInv
  <2>1. PortfolioType /\ BooksBalance
    BY DEF BalanceInv, LoopInv
  <2>2. CASE OnlyMarks
    <3>1. Basis("BUY")' = Basis("BUY") /\ Basis("SELL")' = Basis("SELL")
      BY <2>2, BasisStays DEF Sides
    <3>2. UNCHANGED <<cash, realized, openFees, overclosed>>
      BY <2>2 DEF OnlyMarks
    <3> QED
      BY <2>1, <3>1, <3>2 DEF BooksBalance
  <2>3. CASE Opens
    BY <2>1, <2>3, OpensBalance DEF BooksBalance
  <2>4. CASE Closes
    BY <2>1, <2>4, ClosesBalance DEF BooksBalance
  <2> QED
    BY <2>2, <2>3, <2>4, RunBooks DEF BalanceInv
<1>3. BalanceInv => BooksBalance
  BY DEF BalanceInv
<1> QED
  BY <1>1, <1>2, <1>3, PTL DEF RunSpec

(***************************************************************************)
(* Resolved markets.                                                       *)
(***************************************************************************)

\* Only a fill opens a position.
LEMMA OnlyFillsOpen ==
    ASSUME LoopInv, [RunNext]_runVars
    PROVE  \A x \in Keys : Open(x)' => Open(x) \/ step = "apply"
<1>0. PortfolioType
  BY DEF LoopInv
<1>1. CASE OnlyMarks
  BY <1>1 DEF OnlyMarks, Open
<1>2. CASE Closes
  <2>1. PICK k \in Keys, price \in Nat, size \in Nat, fee \in Nat :
           Open(k) /\ CloseFill(k, price, size, fee)
    BY <1>2 DEF Closes
  <2>2. \E n, b : Repositioned(k, n, b)
    BY <1>0, <2>1, CloseFillEffect
  <2> QED
    BY <2>1, <2>2 DEF Repositioned, Open
<1>3. CASE Opens
  BY <1>3 DEF Opens
<1> QED
  BY <1>1, <1>2, <1>3, RunBooks

\* The clocks and the pointer: what a step may change.
LEMMA ClockSteps ==
    ASSUME LoopInv, [RunNext]_runVars
    PROVE  /\ clock' \in Nat /\ now' \in Nat /\ clock \in Nat /\ now \in Nat
           /\ now <= now' /\ clock <= clock'
           /\ clock' # clock => step = "wait" /\ step' = "settle"
           /\ \/ swept' = swept /\ (step = "settle" => step' = "settle")
              \/ SweepDone /\ swept' = swept \cup DueTokens
           /\ step = "apply" => now = clock
           /\ step \in {"final", "done"} => step' \in {"final", "done"}
           /\ step = "wait" => step' \in {"wait", "settle", "final"}
<1>0. /\ clock \in Nat /\ now \in Nat /\ now <= clock /\ SnapKnown /\ LimitInv
      /\ step = "apply" => now = clock
  BY DEF LoopInv, LoopType, LimitInv, StepInv, TypeOK, SnapKnown
<1>1. LoopInv'
  BY LoopKeeps
<1>2. clock' \in Nat /\ now' \in Nat
  BY <1>1 DEF LoopInv, LoopType, LimitInv, StepInv, TypeOK
<1>3. ASSUME NEW t \in Tokens, NEW b \in Snapshots, NEW gap \in Gaps, OnSnapshot(t, b, gap)
      PROVE  /\ clock <= clock' /\ now' = now /\ step = "wait" /\ step' = "settle" /\ swept' = swept
  <2>1. gap \in Nat
    BY EngineAssumption
  <2> QED
    BY <1>0, <1>3, <2>1 DEF OnSnapshot, Goto, vars
<1>4. ASSUME NEW k \in Keys, SettleDue(k) \/ Hold(k) \/ FinalClose(k)
      PROVE  UNCHANGED <<clock, now, swept, step>>
  BY <1>4 DEF SettleDue, Hold, FinalClose, vars, loop
<1>5. ASSUME NEW k \in Keys, NEW raw \in ExitPrices, NEW size \in 1 .. position[k].size,
             SubmitExit(k, raw, size)
      PROVE  UNCHANGED <<clock, now, swept, step>>
  BY <1>5 DEF SubmitExit, bookVars
<1>6. CASE SkipSnapshot \/ BeginSnapshot
  <2>1. UNCHANGED <<clock, now>> /\ SweepDone /\ swept' = swept \cup DueTokens /\ step = "settle"
    BY <1>6 DEF SkipSnapshot, BeginSnapshot, vars, SweepDone
  <2> QED
    BY <1>0, <2>1
<1>7. CASE SubmitEntry \/ ApplyFill \/ UNCHANGED runVars
  <2>1. UNCHANGED <<clock, now, swept, step>>
    BY <1>7 DEF SubmitEntry, ApplyFill, runVars, vars, loop, bookVars
  <2> QED
    BY <1>0, <2>1
<1>8. CASE AdvanceMatching
  <2>1. now' = clock /\ UNCHANGED <<clock, swept>> /\ step = "drain"
    BY <1>8, AdvanceMatchingRuns DEF AdvanceMatching, loop
  <2> QED
    BY <1>0, <2>1
<1>9. CASE Match
  <2>1. UNCHANGED <<clock, now, swept, step>>
    BY <1>0, <1>9, EngineAdvances DEF Match, loop
  <2> QED
    BY <1>0, <2>1
<1>10. CASE TakeFills \/ MarkToMid \/ EndSnapshot \/ EndReplay \/ Finish
  <2>1. UNCHANGED <<clock, now, swept>> /\ step \in {"match", "apply", "exit", "wait", "final"}
        /\ (step = "final" => step' = "done") /\ (step = "wait" => step' = "final")
    BY <1>10 DEF TakeFills, MarkToMid, EndSnapshot, EndReplay, Finish, vars, loop, bookVars, Goto
  <2> QED
    BY <1>0, <2>1
<1> QED
  BY <1>0, <1>2, <1>3, <1>4, <1>5, <1>6, <1>7, <1>8, <1>9, <1>10 DEF RunNext

LEMMA SweptStaysDue ==
    ASSUME LoopInv, [RunNext]_runVars, SweptIsDue
    PROVE  SweptIsDue'
<1>0. \A t \in DOMAIN Resolution : Resolution[t].time \in Nat
  BY RunAssumption
<1>1. CASE swept' = swept /\ clock' = clock /\ (step = "settle" => step' = "settle")
  <2>1. ASSUME NEW t \in DOMAIN Resolution, Resolution[t].time <= clock, step' # "settle"
        PROVE  t \in swept \/ (step' \in {"wait", "final", "done"} /\ ~HasPosition(t)')
    <3>1. CASE t \in swept
      BY <3>1
    <3>2. CASE t \notin swept
      <4>1. step \in {"wait", "final", "done"} /\ ~HasPosition(t)
        BY <1>1, <2>1, <3>2 DEF SweptIsDue
      <4>2. step' \in {"wait", "final", "done"}
        BY <2>1, <4>1, ClockSteps
      <4>3. t \in Tokens /\ \A s \in Sides : <<t, s>> \in Keys
        BY RunAssumption DEF Keys
      <4>4. ~HasPosition(t)'
        BY <4>1, <4>3, OnlyFillsOpen DEF HasPosition
      <4> QED
        BY <4>2, <4>4
    <3> QED
      BY <3>1, <3>2
  <2> QED
    BY <1>1, <2>1 DEF SweptIsDue
<1>2. CASE swept' = swept /\ clock' # clock
  <2>1. clock \in Nat /\ clock' \in Nat /\ clock <= clock' /\ step' = "settle"
    BY <1>2, ClockSteps
  <2> QED
    BY <1>0, <1>2, <2>1 DEF SweptIsDue
<1>3. CASE SweepDone /\ swept' = swept \cup DueTokens
  <2>1. clock' = clock
    BY <1>3, ClockSteps DEF SweepDone
  <2> QED
    BY <1>3, <2>1 DEF SweptIsDue, DueTokens
<1> QED
  BY <1>1, <1>2, <1>3, ClockSteps

LEMMA LatePositionsStay ==
    ASSUME LoopInv, [RunNext]_runVars, SweptIsDue, LatePositionsSeen
    PROVE  LatePositionsSeen'
<1> SUFFICES ASSUME NEW t \in DOMAIN Resolution, t \in swept', HasPosition(t)'
             PROVE  Resolution[t].time <= now'
  BY DEF LatePositionsSeen
<1>0. t \in Tokens /\ Resolution[t].time \in Nat
  BY RunAssumption
<1>1. PICK s \in Sides : Open(<<t, s>>)'
  BY DEF HasPosition
<1>2. <<t, s>> \in Keys /\ <<t, s>>[1] = t
  BY <1>0 DEF Keys
<1>3. now \in Nat /\ now' \in Nat /\ now <= now' /\ clock \in Nat
  BY ClockSteps
<1>4. CASE t \in swept /\ Open(<<t, s>>)
  <2>1. Resolution[t].time <= now
    BY <1>4 DEF LatePositionsSeen, HasPosition
  <2> QED
    BY <1>0, <1>3, <2>1
<1>5. CASE t \in swept /\ step = "apply"
  <2>1. Resolution[t].time <= clock /\ clock = now
    BY <1>5, ClockSteps DEF SweptIsDue
  <2> QED
    BY <1>0, <1>3, <2>1
<1>6. CASE t \notin swept
  <2>1. SweepDone /\ t \in DueTokens
    BY <1>6, ClockSteps
  <2>2. ~Open(<<t, s>>) /\ step = "settle"
    BY <1>2, <2>1 DEF SweepDone
  <2> QED
    BY <1>1, <1>2, <2>2, OnlyFillsOpen
<1> QED
  BY <1>1, <1>2, <1>4, <1>5, <1>6, OnlyFillsOpen

\* Where marks come from.
LEMMA MarksAtEnd ==
    ASSUME LoopInv, [RunNext]_runVars
    PROVE  \/ marked' = marked
           \/ \E k \in Keys : /\ FinalClose(k) /\ marked' = marked \cup {k[1]}
                              /\ ~ResolvedInWindow(k[1])
BY DEF RunNext, runVars, loop, OnSnapshot, SettleDue, Hold, FinalClose, SubmitExit, SkipSnapshot,
   BeginSnapshot, SubmitEntry, AdvanceMatching, Match, TakeFills, ApplyFill, MarkToMid,
   EndSnapshot, EndReplay, Finish

\* A position whose market resolved within the replayed window is redeemed at the
\* outcome, never closed at a mark, although the clock of the matching engine
\* stands still while snapshots are skipped (_settle_due, _final_mark_to_market).
THEOREM ResolvedSettles == RunSpec => []ResolvedIsSettled
<1>1. RunInit => SettledInv
  <2> SUFFICES ASSUME RunInit PROVE SettledInv
    OBVIOUS
  <2>1. ~\E x \in Keys : Open(x)
    BY DEF RunInit, NoPosition, Open
  <2>2. \A t \in DOMAIN Resolution : ~HasPosition(t)
    BY <2>1, RunAssumption DEF HasPosition, Keys
  <2>3. SweptIsDue /\ LatePositionsSeen /\ MarkedAtEnd /\ ResolvedIsSettled
    BY <2>2 DEF RunInit, SweptIsDue, LatePositionsSeen, MarkedAtEnd, ResolvedIsSettled
  <2> QED
    BY <2>3, LoopInit DEF SettledInv
<1>2. SettledInv /\ [RunNext]_runVars => SettledInv'
  <2> SUFFICES ASSUME SettledInv, [RunNext]_runVars PROVE SettledInv'
    OBVIOUS
  <2>0. LoopInv /\ SweptIsDue /\ LatePositionsSeen /\ MarkedAtEnd /\ ResolvedIsSettled
    BY DEF SettledInv
  <2>1. LoopInv' /\ SweptIsDue' /\ LatePositionsSeen'
    BY <2>0, LoopKeeps, SweptStaysDue, LatePositionsStay
  <2>2. CASE marked' = marked
    <3>1. MarkedAtEnd'
      BY <2>0, <2>2, ClockSteps DEF MarkedAtEnd
    <3>2. marked # {} => clock' = clock
      BY <2>0, ClockSteps DEF MarkedAtEnd
    <3>3. ResolvedIsSettled'
      BY <2>0, <2>2, <3>2 DEF ResolvedIsSettled
    <3> QED
      BY <2>1, <3>1, <3>3 DEF SettledInv
  <2>3. ASSUME NEW k \in Keys, FinalClose(k), marked' = marked \cup {k[1]}, ~ResolvedInWindow(k[1])
        PROVE  SettledInv'
    <3>1. step = "final" /\ UNCHANGED <<step, clock>> /\ Open(k)
      BY <2>3 DEF FinalClose
    <3>2. PICK t \in Tokens, s \in Sides : k = <<t, s>> /\ t = k[1]
      BY PositionType DEF LoopInv, Keys
    <3>3. HasPosition(t)
      BY <3>1, <3>2 DEF HasPosition
    <3>4. now \in Nat /\ clock \in Nat
      BY <2>0, ClockSteps
    <3>5. ASSUME t \in DOMAIN Resolution PROVE clock < Resolution[t].time
      <4>1. Resolution[t].time \in Nat /\ ~(now >= Resolution[t].time)
        BY <2>3, <3>2, <3>5, RunAssumption DEF ResolvedInWindow
      <4>2. ASSUME Resolution[t].time <= clock PROVE FALSE
        <5>1. t \in swept
          BY <2>0, <3>1, <3>3, <3>5, <4>2 DEF SweptIsDue
        <5>2. Resolution[t].time <= now
          BY <2>0, <3>3, <3>5, <5>1 DEF LatePositionsSeen
        <5> QED
          BY <3>4, <4>1, <5>2
      <4> QED
        BY <3>4, <4>1, <4>2
    <3>6. ResolvedIsSettled' /\ MarkedAtEnd'
      BY <2>0, <2>3, <3>1, <3>2, <3>5 DEF ResolvedIsSettled, MarkedAtEnd
    <3> QED
      BY <2>1, <3>6 DEF SettledInv
  <2> QED
    BY <2>0, <2>2, <2>3, MarksAtEnd
<1>3. SettledInv => ResolvedIsSettled
  BY DEF SettledInv
<1> QED
  BY <1>1, <1>2, <1>3, PTL DEF RunSpec

(***************************************************************************)
(* The fast path.                                                          *)
(***************************************************************************)

\* If the first intent is not due, none is.
LEMMA NoIntentDue ==
    ASSUME LoopInv, ~IntentsReady
    PROVE  \A i \in DOMAIN intents : intents[i].emitted \in Nat /\ intents[i].emitted > clock
<1>0. IntentsOrdered /\ clock \in Nat /\ intents \in Seq(Intent)
  BY DEF LoopInv, LoopType, IntentsOrdered
<1> SUFFICES ASSUME NEW i \in DOMAIN intents
             PROVE  intents[i].emitted \in Nat /\ intents[i].emitted > clock
  OBVIOUS
<1>1. intents # <<>> /\ i \in Nat /\ 1 <= i /\ intents[i] \in Intent
  BY <1>0, LenProperties, EmptySeq
<1>2. 1 \in DOMAIN intents /\ Head(intents) = intents[1] /\ intents[1] \in Intent
  BY <1>0, <1>1, NextIntent
<1>3. intents[1].emitted <= intents[i].emitted
  BY <1>0, <1>1, <1>2 DEF IntentsOrdered
<1>4. intents[1].emitted \in Nat /\ intents[i].emitted \in Nat
  BY <1>1, <1>2, IntentType
<1>5. ~(intents[1].emitted <= clock)
  BY <1>1, <1>2 DEF IntentsReady
<1> QED
  BY <1>0, <1>3, <1>4, <1>5

\* If the count is 0 no order of the token waits.
LEMMA NoneWaits ==
    ASSUME LoopInv, ActiveCountExact, NEW t \in Tokens, ~HasActiveOrders(t)
    PROVE  \A o \in DOMAIN orders : orders[o].token = t => orders[o].state # "pending_submit"
<1>0. TypeOK
  BY DEF LoopInv, LimitInv, StepInv
<1>1. active[t] \in Nat /\ ~(active[t] > 0) /\ active[t] = Cardinality(LiveOf(t))
  BY <1>0, CountParts DEF TypeOK, HasActiveOrders
<1>2. Cardinality(LiveOf(t)) = 0
  BY <1>1
<1>3. LiveOf(t) = {}
  BY <1>0, <1>2, LiveFinite, FS_EmptySet
<1> QED
  BY <1>3 DEF LiveOf, Live, LiveStates

\* No step of the run loses count of the orders that have not ended.
LEMMA RunCounts ==
    ASSUME LoopInv, ActiveCountExact, [RunNext]_runVars
    PROVE  ActiveCountExact'
<1>0. StepInv /\ TypeOK
  BY DEF LoopInv, LimitInv, StepInv
<1>1. CASE UNCHANGED <<orders, active>>
  BY <1>0, <1>1, UnchangedIsQuiet, QuietCount
<1>2. CASE SubmitEntry
  <2>1. PICK i \in Intent : i = Head(intents)
    BY <1>2, NextIntent DEF SubmitEntry, IntentsReady, LoopInv
  <2>2. i.request \in Request /\ i.emitted \in Nat
    BY IntentType
  <2>3. SubmitOrder(i.request, i.emitted) \/ UNCHANGED <<orders, active>>
    BY <1>2, <2>1 DEF SubmitEntry
  <2> QED
    BY <1>0, <1>1, <2>2, <2>3, CountRises
<1>3. CASE Match
  BY <1>0, <1>3, CountAdvances DEF Match
<1>4. ASSUME NEW k \in Keys, NEW raw \in ExitPrices, NEW size \in 1 .. position[k].size,
             SubmitExit(k, raw, size)
      PROVE  ActiveCountExact'
  <2>1. clock \in Nat /\ \E r \in Request : SubmitOrder(r, clock)
    BY <1>4, SubmitExitRuns DEF LoopInv, LoopType
  <2> QED
    BY <1>0, <2>1, CountRises
<1> QED
  BY <1>1, <1>2, <1>3, <1>4 DEF RunNext, runVars, vars, OnSnapshot, SettleDue, SkipSnapshot,
     BeginSnapshot, AdvanceMatching, BeginAdvance, TakeFills, ApplyFill, MarkToMid, Hold,
     EndSnapshot, EndReplay, FinalClose, Finish

\* One order is submitted, not before the last snapshot of its token.
LEMMA SubmissionOnTime ==
    ASSUME LoopInv, WaitingIsLate, NEW r \in Request, NEW sent \in Nat, SubmitOrder(r, sent),
           sent >= latest[r.token], UNCHANGED latest
    PROVE  WaitingIsLate'
<1>0. TypeOK /\ r.token \in Tokens /\ latest[r.token] \in Nat
  BY DEF LoopInv, LimitInv, StepInv, LoopType, Request
<1>1. PICK e \in Order : /\ e.token = r.token
                         /\ e.state = "pending_submit" => e.received >= sent
                         /\ orders' = Append(orders, e)
  BY <1>0, SubmitEffect
<1>2. /\ DOMAIN orders' = DOMAIN orders \cup {Len(orders) + 1}
      /\ orders'[Len(orders) + 1] = e
      /\ \A x \in DOMAIN orders : orders'[x] = orders[x]
  BY <1>0, <1>1, MoreOrders DEF TypeOK
<1>3. e.received \in Nat
  BY DEF Order
<1>4. e.state = "pending_submit" => e.received >= latest[e.token]
  BY <1>0, <1>1, <1>3
<1> QED
  BY <1>2, <1>4 DEF WaitingIsLate

\* No order is submitted, and no snapshot is noted.
LEMMA WaitingStays ==
    ASSUME WaitingIsLate, Lawful, SameOrders, UNCHANGED latest
    PROVE  WaitingIsLate'
BY DEF WaitingIsLate, Lawful, SameOrders, Kept

\* A snapshot of the token is noted when none of its orders waits since before.
LEMMA WaitingNoted ==
    ASSUME LoopInv, WaitingIsLate, UNCHANGED orders, NEW t \in Tokens,
           latest' = [latest EXCEPT ![t] = clock],
           \A o \in DOMAIN orders :
              orders[o].state = "pending_submit" /\ orders[o].token = t => orders[o].received >= clock
    PROVE  WaitingIsLate'
<1>1. latest \in [Tokens -> Nat] /\ TypeOK
  BY DEF LoopInv, LoopType, LimitInv, StepInv
<1> SUFFICES ASSUME NEW o \in DOMAIN orders, orders[o].state = "pending_submit"
             PROVE  orders[o].received >= latest'[orders[o].token]
  BY DEF WaitingIsLate
<1>2. orders[o].token \in Tokens
  BY <1>1, OrderType
<1>3. CASE orders[o].token = t
  BY <1>1, <1>3
<1>4. CASE orders[o].token # t
  BY <1>1, <1>2, <1>4 DEF WaitingIsLate
<1> QED
  BY <1>3, <1>4

OnTime == WaitingIsLate /\ IntentsAhead /\ AllAdmitted

\* The intents ahead of the snapshots, in types.
LEMMA IntentsType ==
    ASSUME LoopInv
    PROVE  /\ clock \in Nat /\ latest \in [Tokens -> Nat]
           /\ \A i \in DOMAIN intents : intents[i].emitted \in Nat
<1>1. intents \in Seq(Intent)
  BY DEF LoopInv, IntentsOrdered
<1>2. \A i \in DOMAIN intents : intents[i] \in Intent
  BY <1>1, LenProperties
<1> QED
  BY <1>2, IntentType DEF LoopInv, LoopType

\* Steps that note no snapshot and submit nothing, and end outside the matching.
LEMMA PlainOnTime ==
    ASSUME OnTimeInv, UNCHANGED <<orders, latest, intents>>, clock' \in Nat, clock <= clock',
           step' \notin {"match", "apply"}
    PROVE  OnTime'
<1>0. LoopInv /\ WaitingIsLate /\ IntentsAhead
  BY DEF OnTimeInv
<1>1. WaitingIsLate'
  BY <1>0 DEF WaitingIsLate
<1>2. \A t \in Tokens : latest[t] <= clock'
  BY <1>0, IntentsType DEF IntentsAhead
<1>3. IntentsAhead'
  BY <1>0, <1>2 DEF IntentsAhead
<1> QED
  BY <1>1, <1>3 DEF OnTime, AllAdmitted

\* A snapshot is skipped: no order of its token waits and no intent is due.
LEMMA SkipOnTime ==
    ASSUME OnTimeInv, SkipSnapshot
    PROVE  OnTime'
<1>0. LoopInv /\ ActiveCountExact /\ WaitingIsLate /\ IntentsAhead
  BY DEF OnTimeInv
<1>1. PICK t \in Tokens : t = snap.token
  BY <1>0 DEF LoopInv, SnapKnown, SkipSnapshot, SweepDone
<1>2. /\ ~IntentsReady /\ ~HasActiveOrders(t) /\ UNCHANGED <<orders, clock, intents>>
      /\ latest' = [latest EXCEPT ![t] = clock] /\ step' = "wait"
  BY <1>1 DEF SkipSnapshot, Involved, vars, Goto
<1>3. WaitingIsLate'
  <2>1. \A o \in DOMAIN orders : orders[o].token = t => orders[o].state # "pending_submit"
    BY <1>0, <1>2, NoneWaits
  <2> QED
    BY <1>0, <1>2, <2>1, WaitingNoted
<1>4. IntentsAhead'
  <2>1. \A i \in DOMAIN intents : intents[i].emitted \in Nat /\ intents[i].emitted > clock
    BY <1>0, <1>2, NoIntentDue
  <2>2. clock \in Nat /\ latest \in [Tokens -> Nat]
    BY <1>0, IntentsType
  <2>3. ASSUME NEW x \in Tokens
        PROVE  latest'[x] <= clock /\ \A i \in DOMAIN intents : intents[i].emitted >= latest'[x]
    <3>1. CASE x = t
      BY <1>2, <2>1, <2>2, <3>1
    <3>2. CASE x # t
      BY <1>0, <1>2, <2>2, <3>2 DEF IntentsAhead
    <3> QED
      BY <3>1, <3>2
  <2> QED
    BY <1>2, <2>3 DEF IntentsAhead
<1> QED
  BY <1>2, <1>3, <1>4 DEF OnTime, AllAdmitted

LEMMA EntryOnTime ==
    ASSUME OnTimeInv, SubmitEntry
    PROVE  OnTime'
<1>0. LoopInv /\ WaitingIsLate /\ IntentsAhead /\ TypeOK
  BY DEF OnTimeInv, LoopInv, LimitInv, StepInv
<1>1. /\ intents # <<>> /\ intents' = Tail(intents) /\ step' = "drain"
      /\ UNCHANGED <<clock, latest>>
  BY DEF SubmitEntry, IntentsReady
<1>2. PICK i \in Intent : i = Head(intents) /\ i = intents[1] /\ 1 \in DOMAIN intents
  BY <1>0, <1>1, NextIntent DEF LoopInv
<1>3. PICK r \in Request : r = i.request /\ r.token \in Tokens
  BY IntentType
<1>4. PICK sent \in Nat : sent = i.emitted
  BY IntentType
<1>5. SubmitOrder(r, sent) \/ UNCHANGED orders
  BY <1>2, <1>3, <1>4 DEF SubmitEntry
<1>6. sent >= latest[r.token]
  BY <1>0, <1>2, <1>3, <1>4 DEF IntentsAhead
<1>7. WaitingIsLate'
  <2>1. CASE SubmitOrder(r, sent)
    BY <1>0, <1>1, <1>6, <2>1, SubmissionOnTime
  <2>2. CASE UNCHANGED orders
    BY <1>0, <1>1, <2>2 DEF WaitingIsLate
  <2> QED
    BY <1>5, <2>1, <2>2
<1>8. IntentsAhead'
  <2>1. \A j \in DOMAIN intents' : j + 1 \in DOMAIN intents /\ intents'[j] = intents[j + 1]
    BY <1>0, <1>1, NextIntent DEF LoopInv
  <2> QED
    BY <1>0, <1>1, <2>1 DEF IntentsAhead
<1> QED
  BY <1>1, <1>7, <1>8 DEF OnTime, AllAdmitted

LEMMA ExitOnTime ==
    ASSUME OnTimeInv, NEW k \in Keys, NEW raw \in ExitPrices, NEW size \in 1 .. position[k].size,
           SubmitExit(k, raw, size)
    PROVE  OnTime'
<1>0. LoopInv /\ WaitingIsLate /\ IntentsAhead
  BY DEF OnTimeInv
<1>1. PICK r \in Request : SubmitOrder(r, clock)
  BY <1>0, SubmitExitRuns
<1>2. step' = "exit" /\ UNCHANGED <<clock, latest, intents>>
  BY DEF SubmitExit
<1>3. clock \in Nat /\ latest \in [Tokens -> Nat] /\ r.token \in Tokens
  BY <1>0, IntentsType DEF Request
<1>4. clock >= latest[r.token]
  BY <1>0, <1>3 DEF IntentsAhead
<1>5. WaitingIsLate'
  BY <1>0, <1>1, <1>2, <1>3, <1>4, SubmissionOnTime
<1>6. IntentsAhead'
  BY <1>0, <1>2 DEF IntentsAhead
<1> QED
  BY <1>2, <1>5, <1>6 DEF OnTime, AllAdmitted

LEMMA AdvanceOnTime ==
    ASSUME OnTimeInv, AdvanceMatching
    PROVE  OnTime'
<1>0. LoopInv /\ WaitingIsLate /\ IntentsAhead
  BY DEF OnTimeInv
<1>1. /\ UNCHANGED <<orders, clock, latest, intents>> /\ step' = "match" /\ phase' = "cancel"
      /\ ~IntentsReady
  BY DEF AdvanceMatching, BeginAdvance, Goto, loop
<1>2. WaitingIsLate'
  BY <1>0, <1>1 DEF WaitingIsLate
<1>3. \A i \in DOMAIN intents : intents[i].emitted > clock
  BY <1>0, <1>1, NoIntentDue
<1>4. IntentsAhead'
  BY <1>0, <1>1, <1>3 DEF IntentsAhead
<1> QED
  BY <1>1, <1>2, <1>4 DEF OnTime, AllAdmitted

\* The orders are matched only after everything that has arrived was admitted.
LEMMA MatchesAfterAdmission ==
    ASSUME Advance, phase' \in {"match", "make"}
    PROVE  phase \in {"match", "make"} \/ BeginMatch
BY DEF Advance, ApplyCancel, RefreshBook, AdmitRejects, AdmitTakes, AdmitExpires,
   AdmitRests, FinishTake, BeginMatch, StartMake, FinishMake, TakeLevel, MakeLevel,
   StartWalk, callVars

LEMMA MatchOnTime ==
    ASSUME OnTimeInv, Match
    PROVE  OnTime'
<1>0. LoopInv /\ WaitingIsLate /\ IntentsAhead /\ AllAdmitted /\ StepInv /\ LimitInv /\ TypeOK
  BY DEF OnTimeInv, LoopInv, LimitInv, StepInv
<1>1. /\ UNCHANGED <<clock, latest, intents, snap, step, now, at>> /\ step = "match" /\ Advance
  BY <1>0, EngineAdvances DEF Match, loop
<1>2. Lawful /\ SameOrders
  BY <1>0, <1>1, AdvanceLawful
<1>3. WaitingIsLate'
  BY <1>0, <1>1, <1>2, WaitingStays
<1>4. IntentsAhead'
  BY <1>0, <1>1 DEF IntentsAhead
<1>5. AllAdmitted'
  <2> SUFFICES ASSUME phase' \in {"match", "make"}, NEW o \in DOMAIN orders',
                      orders'[o].state = "pending_submit", orders'[o].token = snap.token
               PROVE  orders'[o].received > now
    BY <1>1 DEF AllAdmitted
  <2>1. /\ o \in DOMAIN orders /\ orders[o].state = "pending_submit"
        /\ orders[o].token = snap.token /\ orders'[o].received = orders[o].received
    BY <1>2 DEF Lawful, SameOrders, Kept
  <2>2. CASE phase \in {"match", "make"}
    BY <1>0, <1>1, <2>1, <2>2 DEF AllAdmitted
  <2>3. CASE BeginMatch
    <3>1. at.token = snap.token /\ Admissible = {}
      BY <1>0, <1>1, <2>3 DEF LoopInv, SnapKnown, BeginMatch
    <3>2. ~(orders[o].received <= now)
      BY <2>1, <3>1 DEF Admissible
    <3>3. orders[o].received \in Nat /\ now \in Nat
      BY <1>0, <2>1, OrderType DEF TypeOK
    <3> QED
      BY <2>1, <3>2, <3>3
  <2> QED
    BY <1>1, <2>2, <2>3, MatchesAfterAdmission
<1> QED
  BY <1>3, <1>4, <1>5 DEF OnTime

LEMMA FillsOnTime ==
    ASSUME OnTimeInv, TakeFills \/ ApplyFill
    PROVE  OnTime'
<1>0. WaitingIsLate /\ IntentsAhead /\ AllAdmitted
  BY DEF OnTimeInv
<1>1. /\ UNCHANGED <<orders, clock, latest, intents, snap, now>> /\ step' = "apply"
      /\ (step = "apply" \/ (step = "match" /\ phase = "match"))
  BY DEF TakeFills, ApplyFill, loop, bookVars, Goto
<1> QED
  BY <1>0, <1>1 DEF OnTime, WaitingIsLate, IntentsAhead, AllAdmitted

\* The token's snapshot is noted when its orders that had arrived are admitted.
LEMMA MarkOnTime ==
    ASSUME OnTimeInv, MarkToMid
    PROVE  OnTime'
<1>0. LoopInv /\ WaitingIsLate /\ IntentsAhead /\ AllAdmitted /\ TypeOK
  BY DEF OnTimeInv, LoopInv, LimitInv, StepInv
<1>1. PICK t \in Tokens : t = snap.token
  BY <1>0 DEF LoopInv, SnapKnown, MarkToMid
<1>2. /\ UNCHANGED <<orders, clock, intents>> /\ step = "apply" /\ step' = "exit"
      /\ latest' = [latest EXCEPT ![t] = clock] /\ now = clock
  BY <1>0, <1>1 DEF MarkToMid, Goto, vars, LoopInv, SnapKnown
<1>3. clock \in Nat /\ latest \in [Tokens -> Nat] /\ \A i \in DOMAIN intents : intents[i].emitted \in Nat
  BY <1>0, IntentsType
<1>4. WaitingIsLate'
  <2>1. ASSUME NEW o \in DOMAIN orders, orders[o].state = "pending_submit", orders[o].token = t
        PROVE  orders[o].received >= clock
    <3>1. orders[o].received > now /\ orders[o].received \in Nat
      BY <1>0, <1>1, <1>2, <2>1, OrderType DEF AllAdmitted
    <3> QED
      BY <1>2, <1>3, <3>1
  <2> QED
    BY <1>0, <1>2, <2>1, WaitingNoted
<1>5. IntentsAhead'
  <2>1. \A i \in DOMAIN intents : intents[i].emitted > clock
    BY <1>0, <1>2 DEF IntentsAhead
  <2>2. ASSUME NEW x \in Tokens
        PROVE  latest'[x] <= clock /\ \A i \in DOMAIN intents : intents[i].emitted >= latest'[x]
    <3>1. CASE x = t
      BY <1>2, <1>3, <2>1, <3>1
    <3>2. CASE x # t
      BY <1>0, <1>2, <1>3, <3>2 DEF IntentsAhead
    <3> QED
      BY <3>1, <3>2
  <2> QED
    BY <1>2, <2>2 DEF IntentsAhead
<1> QED
  BY <1>2, <1>4, <1>5 DEF OnTime, AllAdmitted

\* The fast path of _on_snapshot loses no order: between two snapshots, an order
\* that still waits for its admission had not reached the venue before its token's
\* last snapshot, whether that one was matched or skipped.
THEOREM OrdersAdmittedOnTime == RunSpec => []AdmittedOnTime
<1>1. RunInit => OnTimeInv
  <2> SUFFICES ASSUME RunInit PROVE OnTimeInv
    OBVIOUS
  <2>0. LoopInv
    BY LoopInit
  <2>1. ActiveCountExact
    <3>1. \A t \in Tokens : LiveOf(t) = {} /\ active[t] = 0
      BY DEF RunInit, Init, LiveOf
    <3> QED
      BY <3>1, CountParts, FS_EmptySet
  <2>2. WaitingIsLate /\ AllAdmitted
    BY DEF RunInit, Init, WaitingIsLate, AllAdmitted
  <2>3. \A i \in DOMAIN intents : intents[i].emitted \in Nat
    BY <2>0, IntentsType
  <2>4. IntentsAhead
    BY <2>3 DEF RunInit, IntentsAhead
  <2> QED
    BY <2>0, <2>1, <2>2, <2>4 DEF OnTimeInv
<1>2. OnTimeInv /\ [RunNext]_runVars => OnTimeInv'
  <2> SUFFICES ASSUME OnTimeInv, [RunNext]_runVars PROVE OnTime'
    BY LoopKeeps, RunCounts DEF OnTimeInv, OnTime
  <2>0. LoopInv
    BY DEF OnTimeInv
  <2>1. CASE SkipSnapshot
    BY <2>1, SkipOnTime
  <2>2. CASE SubmitEntry
    BY <2>2, EntryOnTime
  <2>3. CASE AdvanceMatching \/ Match \/ TakeFills \/ ApplyFill
    BY <2>3, AdvanceOnTime, MatchOnTime, FillsOnTime
  <2>4. CASE MarkToMid
    BY <2>4, MarkOnTime
  <2>5. ASSUME NEW k \in Keys, NEW raw \in ExitPrices, NEW size \in 1 .. position[k].size,
               SubmitExit(k, raw, size)
        PROVE  OnTime'
    BY <2>5, ExitOnTime
  <2>6. CASE UNCHANGED runVars
    BY <2>6 DEF runVars, vars, loop, OnTimeInv, OnTime, WaitingIsLate, IntentsAhead, AllAdmitted
  <2>7. CASE UNCHANGED <<orders, latest, intents>> /\ step' \notin {"match", "apply"}
    BY <2>0, <2>7, ClockSteps, PlainOnTime
  <2>8. ASSUME NEW t \in Tokens, NEW b \in Snapshots, NEW gap \in Gaps, OnSnapshot(t, b, gap)
        PROVE  UNCHANGED <<orders, latest, intents>> /\ step' \notin {"match", "apply"}
    BY <2>8 DEF OnSnapshot, vars, Goto
  <2>9. ASSUME NEW k \in Keys, SettleDue(k) \/ Hold(k) \/ FinalClose(k)
        PROVE  UNCHANGED <<orders, latest, intents>> /\ step' \notin {"match", "apply"}
    BY <2>9 DEF SettleDue, Hold, FinalClose, vars, loop
  <2>10. ASSUME BeginSnapshot \/ EndSnapshot \/ EndReplay \/ Finish
         PROVE  UNCHANGED <<orders, latest, intents>> /\ step' \notin {"match", "apply"}
    BY <2>10 DEF BeginSnapshot, EndSnapshot, EndReplay, Finish, vars, loop, Goto
  <2> QED
    BY <2>1, <2>2, <2>3, <2>4, <2>5, <2>6, <2>7, <2>8, <2>9, <2>10 DEF RunNext
<1>3. OnTimeInv => AdmittedOnTime
  BY DEF OnTimeInv, WaitingIsLate, AdmittedOnTime
<1> QED
  BY <1>1, <1>2, <1>3, PTL DEF RunSpec
=============================================================================

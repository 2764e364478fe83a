------------------------ MODULE FastSubmissionProofs ------------------------
(***************************************************************************)
(* Proofs about FastSubmission for any finite set of signals, any cap, any *)
(* compaction threshold and any number of failures.                        *)
(***************************************************************************)
EXTENDS FastSubmission, FiniteSetTheorems, SequenceTheorems, TLAPS

(***************************************************************************)
(* The file the compaction writes.                                         *)
(***************************************************************************)

\* SetToSeq lists every element of a finite set exactly once.
LEMMA SetToSeqLists ==
    ASSUME NEW S, IsFiniteSet(S)
    PROVE  /\ SetToSeq(S) \in Seq(S)
           /\ \A i, j \in 1 .. Len(SetToSeq(S)) : SetToSeq(S)[i] = SetToSeq(S)[j] => i = j
           /\ \A x \in S : \E i \in 1 .. Len(SetToSeq(S)) : SetToSeq(S)[i] = x
<1> DEFINE n == Cardinality(S)
           q == SetToSeq(S)
<1>1. n \in Nat /\ ExistsBijection(1 .. n, S)
  BY FS_CardinalityType
<1>2. \E f \in [1 .. n -> S] : IsInjective(f)
  BY <1>1 DEF ExistsBijection, Bijection, Injection, IsInjective
<1>3. q \in [1 .. n -> S] /\ IsInjective(q)
  BY <1>2 DEF SetToSeq
<1>4. q \in Injection(1 .. n, S)
  BY <1>3 DEF Injection, IsInjective
<1>5. IsFiniteSet(1 .. n) /\ Cardinality(1 .. n) = n
  BY <1>1, FS_Interval
<1>6. q \in Surjection(1 .. n, S)
  BY <1>4, <1>5, FS_Injection
<1>7. q \in Seq(S) /\ Len(q) = n
  BY <1>1, <1>3
<1> QED
  BY <1>3, <1>6, <1>7 DEF IsInjective, Surjection

\* The records of the open intents, as the compaction lists them.
LEMMA KeptRecords ==
    ASSUME NEW ix
    PROVE  LET kept == SetToSeq({Intent(s) : s \in Survivors(ix)})
           IN  /\ kept \in Seq(Record)
               /\ \A i, j \in 1 .. Len(kept) : kept[i].sig = kept[j].sig => i = j
               /\ \A s \in Survivors(ix) : \E i \in 1 .. Len(kept) : kept[i] = Intent(s)
<1> DEFINE I == {Intent(s) : s \in Survivors(ix)}
           kept == SetToSeq(I)
           f == [s \in Survivors(ix) |-> Intent(s)]
<1>1. IsFiniteSet(Survivors(ix))
  BY SignalsAssumption, FS_Subset DEF Survivors
<1>2. f \in Surjection(Survivors(ix), I)
  BY DEF Surjection
<1>3. IsFiniteSet(I)
  BY <1>1, <1>2, FS_Surjection
<1>4. /\ kept \in Seq(I)
      /\ \A i, j \in 1 .. Len(kept) : kept[i] = kept[j] => i = j
      /\ \A x \in I : \E i \in 1 .. Len(kept) : kept[i] = x
  BY <1>3, SetToSeqLists
<1>5. I \subseteq Record
  BY DEF Survivors, Intent, Record
<1>6. kept \in Seq(Record)
  BY <1>4, <1>5
<1>7. ASSUME NEW i \in 1 .. Len(kept), NEW j \in 1 .. Len(kept), kept[i].sig = kept[j].sig
      PROVE  i = j
  <2> HIDE DEF kept
  <2>1. kept[i] \in I /\ kept[j] \in I
    BY <1>4, ElementOfSeq
  <2>2. PICK s \in Survivors(ix), t \in Survivors(ix) : kept[i] = Intent(s) /\ kept[j] = Intent(t)
    BY <2>1
  <2>3. kept[i] = kept[j]
    BY <1>7, <2>2 DEF Intent
  <2> QED
    BY <1>4, <2>3
<1>8. ASSUME NEW s \in Survivors(ix)
      PROVE  \E i \in 1 .. Len(kept) : kept[i] = Intent(s)
  BY <1>4
<1> HIDE DEF kept
<1> QED
  BY <1>6, <1>7, <1>8 DEF kept

(***************************************************************************)
(* The submission path.                                                    *)
(***************************************************************************)

\* A process that is down runs no coroutine and no sweep.
Alive == ~up => sweep = "idle" /\ \A s \in Signals : stage[s] = "idle"

\* What a submission in flight has behind it: an intent that only the sweep
\* may have closed, an order once it is sent, a row once it is persisted.
Flight ==
    \A s \in Signals :
        /\ stage[s] # "idle" => fate[s] \in {"open", "recovered"}
        /\ stage[s] = "wire" => venue[s] = "none"
        /\ stage[s] = "close" => own[s] # "none"

PathInv == TypeOK /\ Alive /\ Flight /\ VenueOrderTracked

USE SignalsAssumption, BoundsAssumption

\* What a power loss leaves of a file is the beginning of it.
LEMMA RemainsBegin ==
    ASSUME NEW l \in Seq(Record), NEW n \in 0 .. Len(l), NEW p \in Remains(l, n)
    PROVE  /\ p \in Seq(Record) /\ Len(p) \in n .. Len(l)
           /\ \A i \in 1 .. Len(p) : p[i] = l[i]
<1>1. PICK i \in n .. Len(l) : p = SubSeq(l, 1, i)
  BY DEF Remains
<1>2. i \in 0 .. Len(l) /\ i \in n .. Len(l) /\ \A j \in 1 .. i : l[j] \in Record
  BY ElementOfSeq
<1>3. p \in Seq(Record) /\ Len(p) = i
  BY <1>1, <1>2, SubSeqProperties
<1>4. \A j \in 1 .. i : p[j] = l[j]
  BY <1>1, <1>2, SubSeqProperties
<1> QED
  BY <1>2, <1>3, <1>4

\* Appending a record, with or without the compaction, keeps the types.
LEMMA AppendTypes ==
    ASSUME TypeOK, NEW r \in Record, NEW fsync \in BOOLEAN, AppendRecord(r, fsync)
    PROVE  /\ index' \in [Signals -> {"none", "open", "done"}]
           /\ log' \in Seq(Record) /\ synced' \in 0 .. Len(log') /\ torn' \in BOOLEAN
           /\ older' \subseteq Seq(Record)
<1> DEFINE ix == [index EXCEPT ![r.sig] = IF r.k = "intent" THEN "open" ELSE "done"]
           kept == SetToSeq({Intent(s) : s \in Survivors(ix)})
           written == IF torn THEN log ELSE Append(log, r)
           sure == IF fsync THEN Len(written) ELSE synced
<1>1. kept \in Seq(Record)
  BY KeptRecords
<1>2. written \in Seq(Record) /\ Len(written) >= Len(log) /\ Len(written) \in Nat
  BY DEF TypeOK
<1>3. ix \in [Signals -> {"none", "open", "done"}]
  BY DEF TypeOK, Record
<1>4. /\ index' = ix /\ torn' = FALSE
      /\ \/ log' = kept /\ synced' = Len(kept)
         \/ log' = written /\ synced' = sure
      /\ older' \in {{}, older, Remains(written, sure)}
  BY DEF AppendRecord
<1> HIDE DEF kept, ix
<1>5. Len(log) \in Nat /\ Len(kept) \in Nat /\ synced \in 0 .. Len(log)
  BY <1>1 DEF TypeOK
<1>6. log' \in Seq(Record)
  BY <1>1, <1>2, <1>4
<1>7. sure \in 0 .. Len(written)
  BY <1>2, <1>5
<1> HIDE DEF written, sure
<1>8. synced' \in 0 .. Len(log')
  BY <1>2, <1>4, <1>5, <1>7
<1>9. older' \subseteq Seq(Record)
  BY <1>2, <1>4, <1>7, RemainsBegin DEF TypeOK
<1> QED
  BY <1>3, <1>4, <1>6, <1>8, <1>9

\* The path invariant holds initially.
LEMMA PathInit == Init => PathInv
<1> SUFFICES ASSUME Init PROVE PathInv
  OBVIOUS
<1>1. log \in Seq(Record) /\ synced \in 0 .. Len(log)
  BY EmptySeq DEF Init
<1>2. TypeOK
  BY <1>1 DEF Init, TypeOK
<1> QED
  BY <1>2 DEF Init, PathInv, Alive, Flight, VenueOrderTracked

\* Every step keeps the path invariant.
LEMMA PathStep == ASSUME PathInv, [Next]_vars PROVE PathInv'
<1> USE DEF PathInv, TypeOK, Alive, Flight, VenueOrderTracked, Goto, Fault, memory, sweeper,
            file, rows
<1>1. ASSUME NEW s \in Signals, Submit(s) PROVE PathInv'
  <2>1. AppendRecord(Intent(s), TRUE) /\ fate' = [fate EXCEPT ![s] = "open"]
    BY <1>1 DEF Submit, RecordIntent
  <2>2. Intent(s) \in Record
    BY DEF Intent, Record
  <2>3. /\ index' \in [Signals -> {"none", "open", "done"}]
        /\ log' \in Seq(Record) /\ synced' \in 0 .. Len(log') /\ torn' \in BOOLEAN
        /\ older' \subseteq Seq(Record)
    BY <2>1, <2>2, AppendTypes
  <2>4. TypeOK'
    BY <1>1, <2>1, <2>3 DEF Submit
  <2>5. Alive' /\ Flight'
    BY <1>1, <2>1, <2>3 DEF Submit
  <2>6. VenueOrderTracked'
    BY <1>1, <2>1, <2>3 DEF Submit
  <2> QED
    BY <2>4, <2>5, <2>6
<1>2. ASSUME NEW s \in Signals, SkipLeg(s) PROVE PathInv'
  <2>1. AppendRecord(Result(s), FALSE) /\ fate' = [fate EXCEPT ![s] = "closed"]
    BY <1>2 DEF SkipLeg, RecordResult
  <2>2. Result(s) \in Record
    BY DEF Result, Record
  <2>3. /\ index' \in [Signals -> {"none", "open", "done"}]
        /\ log' \in Seq(Record) /\ synced' \in 0 .. Len(log') /\ torn' \in BOOLEAN
        /\ older' \subseteq Seq(Record)
    BY <2>1, <2>2, AppendTypes
  <2>4. TypeOK'
    BY <1>2, <2>1, <2>3 DEF SkipLeg
  <2>5. Alive' /\ Flight'
    BY <1>2, <2>1, <2>3 DEF SkipLeg
  <2>6. VenueOrderTracked'
    BY <1>2, <2>1, <2>3 DEF SkipLeg
  <2> QED
    BY <2>4, <2>5, <2>6
<1>3. ASSUME NEW s \in Signals, Transmit(s) PROVE PathInv'
  BY <1>3 DEF Transmit
<1>4. ASSUME NEW s \in Signals, WireReturns(s) PROVE PathInv'
  BY <1>4 DEF WireReturns
<1>5. ASSUME NEW s \in Signals, WireFails(s) PROVE PathInv'
  BY <1>5 DEF WireFails, LeftBehind
<1>19. ASSUME NEW s \in Signals, LandsLate(s) PROVE PathInv'
  BY <1>19 DEF LandsLate
<1>6. ASSUME NEW s \in Signals, Persist(s) PROVE PathInv'
  BY <1>6 DEF Persist, OrderStatus
<1>7. ASSUME NEW s \in Signals, PersistFails(s) PROVE PathInv'
  BY <1>7 DEF PersistFails, OrderStatus
<1>8. ASSUME NEW s \in Signals, CloseIntent(s) PROVE PathInv'
  <2>1. AppendRecord(Result(s), FALSE) /\ fate' = [fate EXCEPT ![s] = "closed"]
    BY <1>8 DEF CloseIntent, RecordResult
  <2>2. Result(s) \in Record
    BY DEF Result, Record
  <2>3. /\ index' \in [Signals -> {"none", "open", "done"}]
        /\ log' \in Seq(Record) /\ synced' \in 0 .. Len(log') /\ torn' \in BOOLEAN
        /\ older' \subseteq Seq(Record)
    BY <2>1, <2>2, AppendTypes
  <2>4. TypeOK'
    BY <1>8, <2>1, <2>3 DEF CloseIntent, OrderStatus
  <2>5. Alive' /\ Flight'
    BY <1>8, <2>1, <2>3 DEF CloseIntent, OrderStatus
  <2>6. VenueOrderTracked'
    BY <1>8, <2>1, <2>3 DEF CloseIntent, OrderStatus
  <2> QED
    BY <2>4, <2>5, <2>6
<1>9. ASSUME NEW s \in Signals, RecoverIntent(s) PROVE PathInv'
  <2>1. AppendRecord(Result(s), FALSE) /\ fate' = [fate EXCEPT ![s] = "recovered"]
    BY <1>9 DEF RecoverIntent, RecordResult
  <2>2. Result(s) \in Record
    BY DEF Result, Record
  <2>3. /\ index' \in [Signals -> {"none", "open", "done"}]
        /\ log' \in Seq(Record) /\ synced' \in 0 .. Len(log') /\ torn' \in BOOLEAN
        /\ older' \subseteq Seq(Record)
    BY <2>1, <2>2, AppendTypes
  <2>4. TypeOK'
    BY <1>9, <2>1, <2>3 DEF RecoverIntent
  <2>5. Alive' /\ Flight'
    BY <1>9, <2>1, <2>3 DEF RecoverIntent
  <2>6. VenueOrderTracked'
    BY <1>9, <2>1, <2>3 DEF RecoverIntent
  <2> QED
    BY <2>4, <2>5, <2>6
<1>10. CASE Start
  BY <1>10 DEF Start, Loaded
<1>11. CASE BeginSweep
  BY <1>11 DEF BeginSweep, OpenIntents
<1>12. CASE CommitRecovery
  BY <1>12 DEF CommitRecovery
<1>13. CASE RecoveryFails
  BY <1>13 DEF RecoveryFails
<1>14. ASSUME NEW old \in SUBSET Signals, ReconcileOrphans(old)
       PROVE  PathInv'
  <2>1. TypeOK'
    BY <1>14 DEF ReconcileOrphans
  <2>2. Alive' /\ Flight'
    BY <1>14 DEF ReconcileOrphans
  <2>3. VenueOrderTracked'
    BY <1>14 DEF ReconcileOrphans
  <2> QED
    BY <2>1, <2>2, <2>3
<1>15. CASE VenueUnreachable
  <2>1. TypeOK'
    <3>1. up' \in BOOLEAN /\ booting' \in BOOLEAN /\ torn' \in BOOLEAN
      BY <1>15 DEF VenueUnreachable
    <3>2. budget' \in Nat
      BY <1>15 DEF VenueUnreachable
    <3> QED
      BY <1>15, <3>1, <3>2 DEF VenueUnreachable
  <2>2. Alive' /\ Flight'
    BY <1>15 DEF VenueUnreachable
  <2>3. VenueOrderTracked'
    BY <1>15 DEF VenueUnreachable
  <2> QED
    BY <2>1, <2>2, <2>3
<1>16. CASE Kill
  <2>1. TypeOK'
    <3>1. up' \in BOOLEAN /\ booting' \in BOOLEAN /\ torn' \in BOOLEAN
      BY <1>16 DEF Kill, Down, LeftBehind
    <3>2. budget' \in Nat
      BY <1>16 DEF Kill, Down, LeftBehind
    <3> QED
      BY <1>16, <3>1, <3>2 DEF Kill, Down, LeftBehind
  <2>2. Alive' /\ Flight'
    BY <1>16 DEF Kill, Down, LeftBehind
  <2>3. VenueOrderTracked'
    BY <1>16 DEF Kill, Down, LeftBehind
  <2> QED
    BY <2>1, <2>2, <2>3
<1>17. CASE PowerLoss
  <2>1. PICK l \in Remains(log, synced) \cup older : log' = l /\ synced' = Len(l)
    BY <1>17 DEF PowerLoss
  <2>2. log' \in Seq(Record)
    BY <2>1, RemainsBegin
  <2>3. synced' \in 0 .. Len(log') /\ older' \subseteq Seq(Record)
    BY <1>17, <2>1, <2>2 DEF PowerLoss
  <2>4. TypeOK'
    <3>1. up' \in BOOLEAN /\ booting' \in BOOLEAN /\ torn' \in BOOLEAN
      BY <1>17 DEF PowerLoss, Down
    <3>2. budget' \in Nat
      BY <1>17 DEF PowerLoss, Down
    <3>3. venue' \in [Signals -> {"none", "flying", "filled", "resting"}]
      BY <1>17 DEF PowerLoss, Down, LeftBehind
    <3> QED
      BY <1>17, <2>2, <2>3, <3>1, <3>2, <3>3 DEF PowerLoss, Down
  <2>5. Alive' /\ Flight'
    BY <1>17 DEF PowerLoss, Down, LeftBehind
  <2>6. VenueOrderTracked'
    BY <1>17 DEF PowerLoss, Down, LeftBehind
  <2> QED
    BY <2>4, <2>5, <2>6
<1>18. CASE UNCHANGED vars
  BY <1>18 DEF vars
<1> QED
  BY <1>1, <1>2, <1>3, <1>4, <1>5, <1>6, <1>7, <1>8, <1>9, <1>10, <1>11, <1>12, <1>13,
     <1>14, <1>15, <1>16, <1>17, <1>18, <1>19 DEF Next, SubmissionStep

\* Every state of the fast path has the types the code assumes.
THEOREM FastTypeCorrect == Spec => []TypeOK
<1>1. PathInv => TypeOK
  BY DEF PathInv
<1> QED
  BY <1>1, PathInit, PathStep, PTL DEF Spec

\* An order the venue holds is never forgotten by the submission path: its row
\* is committed, or its intent is open or in the hands of the recovery, after
\* any crash and any failure of the wire or of the database.
THEOREM OrderTracked == Spec => []VenueOrderTracked
<1>1. PathInv => VenueOrderTracked
  BY DEF PathInv
<1> QED
  BY <1>1, PathInit, PathStep, PTL DEF Spec

(***************************************************************************)
(* The journal.  It needs that no write is ever cut short: after a torn    *)
(* line the next record, although synced, cannot be read back.             *)
(***************************************************************************)

\* The first n records of the file contents l hold the intent of s, and no
\* later record of s is in l.
Holds(l, n, s) ==
    \E i \in 1 .. n : /\ l[i] = Intent(s)
                      /\ \A j \in 1 .. Len(l) : j > i => l[j].sig # s

\* The intent of s is on stable storage, in the file and in whatever a power
\* loss may put in its place.
Durable(s) == Holds(log, synced, s) /\ \A l \in older : Holds(l, Len(l), s)

JournalInv ==
    /\ PathInv
    /\ torn = FALSE
    /\ \A s \in Signals : fate[s] = "open" => Durable(s)
    /\ OpenIntentRemembered

\* An intent that is synced is in all that a power loss may leave.
LEMMA RemainsHold ==
    ASSUME NEW l \in Seq(Record), NEW n \in 0 .. Len(l), NEW s \in Signals,
           Holds(l, n, s), NEW p \in Remains(l, n)
    PROVE  Holds(p, Len(p), s)
<1>1. /\ Len(l) \in Nat /\ Len(p) \in n .. Len(l)
      /\ \A i \in 1 .. Len(p) : p[i] = l[i]
  BY RemainsBegin
<1>2. PICK i \in 1 .. n : l[i] = Intent(s) /\ \A j \in 1 .. Len(l) : j > i => l[j].sig # s
  BY DEF Holds
<1>3. i \in 1 .. Len(p) /\ p[i] = Intent(s)
  BY <1>1, <1>2
<1>4. \A j \in 1 .. Len(p) : j > i => p[j].sig # s
  BY <1>1, <1>2
<1> QED
  BY <1>3, <1>4 DEF Holds

\* What the append of a record does to the intents of the other signals, and
\* to its own when it is an intent.
LEMMA AppendDurable ==
    ASSUME TypeOK, torn = FALSE, NEW r \in Record, NEW fsync \in BOOLEAN,
           AppendRecord(r, fsync), NEW s \in Signals,
           \/ s # r.sig /\ index[s] = "open" /\ Durable(s)
           \/ r = Intent(s) /\ fsync
    PROVE  index'[s] = "open" /\ Durable(s)'
<1> DEFINE ix == [index EXCEPT ![r.sig] = IF r.k = "intent" THEN "open" ELSE "done"]
           kept == SetToSeq({Intent(t) : t \in Survivors(ix)})
           written == Append(log, r)
           sure == IF fsync THEN Len(written) ELSE synced
<1>1. ix[s] = "open" /\ index' = ix
  BY DEF TypeOK, AppendRecord, Record, Intent
<1>2. /\ Len(log) \in Nat /\ Len(written) = Len(log) + 1
      /\ written \in Seq(Record) /\ written[Len(log) + 1] = r
      /\ \A i \in 1 .. Len(log) : written[i] = log[i]
  BY DEF TypeOK
<1>3. sure \in 0 .. Len(written) /\ sure >= synced
  BY <1>2 DEF TypeOK
<1>4. \/ /\ Len(written) >= CompactAt /\ log' = kept /\ synced' = Len(kept)
         /\ older' \in {{}, Remains(written, sure)}
      \/ log' = written /\ synced' = sure /\ (older' = {} \/ (older' = older /\ ~fsync))
  <2>1. CASE Len(written) >= CompactAt
    <3>1. log' = kept /\ synced' = Len(kept)
      BY <2>1 DEF AppendRecord
    <3>2. older' \in {{}, Remains(written, sure)}
      BY <2>1 DEF AppendRecord
    <3> HIDE DEF kept, written, sure
    <3> QED
      BY <2>1, <3>1, <3>2
  <2>2. CASE ~(Len(written) >= CompactAt)
    <3>1. log' = written /\ synced' = sure
      BY <2>2 DEF AppendRecord
    <3>2. older' = {} \/ (older' = older /\ ~fsync)
      <4>1. older' = IF fsync \/ ~PowerMayFail THEN {} ELSE older
        BY <2>2 DEF AppendRecord
      <4> QED
        BY <4>1
    <3> HIDE DEF kept, written, sure
    <3> QED
      BY <3>1, <3>2
  <2> QED
    BY <2>1, <2>2
<1>5. Holds(written, sure, s)
  <2>1. CASE s # r.sig /\ Durable(s)
    <3>1. PICK i \in 1 .. synced : /\ log[i] = Intent(s)
                                  /\ \A j \in 1 .. Len(log) : j > i => log[j].sig # s
      BY <2>1 DEF Durable, Holds
    <3>2. i \in 1 .. Len(log) /\ i \in 1 .. sure
      BY <1>3 DEF TypeOK
    <3> HIDE DEF written, sure
    <3>3. written[i] = Intent(s)
      BY <1>2, <3>1, <3>2
    <3>4. \A j \in 1 .. Len(written) : j > i => written[j].sig # s
      BY <1>2, <2>1, <3>1
    <3> QED
      BY <3>2, <3>3, <3>4 DEF Holds
  <2>2. CASE r = Intent(s) /\ fsync
    <3>1. sure = Len(log) + 1
      BY <1>2, <2>2
    <3> HIDE DEF written, sure
    <3> QED
      BY <1>2, <2>2, <3>1 DEF Holds
  <2> QED
    BY <2>1, <2>2
<1> HIDE DEF written, sure
<1>6. CASE /\ log' = kept /\ synced' = Len(kept)
           /\ older' \in {{}, Remains(written, sure)}
  <2>1. s \in Survivors(ix)
    BY <1>1 DEF Survivors
  <2>2. /\ kept \in Seq(Record)
        /\ \A i, j \in 1 .. Len(kept) : kept[i].sig = kept[j].sig => i = j
        /\ \E i \in 1 .. Len(kept) : kept[i] = Intent(s)
    BY <2>1, KeptRecords
  <2> HIDE DEF kept
  <2>3. PICK i \in 1 .. Len(kept) : kept[i] = Intent(s)
    BY <2>2
  <2>4. Len(kept) \in Nat /\ kept[i].sig = s
    BY <2>2, <2>3 DEF Intent
  <2>5. \A j \in 1 .. Len(kept) : j > i => kept[j].sig # s
    BY <2>2, <2>4
  <2>6. Holds(log', synced', s)
    BY <1>6, <2>3, <2>5 DEF Holds
  <2>7. \A l \in older' : Holds(l, Len(l), s)
    BY <1>2, <1>3, <1>5, <1>6, RemainsHold
  <2> QED
    BY <1>1, <2>6, <2>7 DEF Durable
<1>7. CASE log' = written /\ synced' = sure /\ (older' = {} \/ (older' = older /\ ~fsync))
  <2>1. \A l \in older' : Holds(l, Len(l), s)
    BY <1>7 DEF Durable
  <2> QED
    BY <1>1, <1>5, <1>7, <2>1 DEF Durable
<1> QED
  BY <1>4, <1>6, <1>7

\* What the journal loads at startup.
LEMMA LoadedOpen ==
    ASSUME TypeOK, NEW s \in Signals, Durable(s)
    PROVE  Loaded(log)[s] = "open"
<1> DEFINE I == {k \in DOMAIN log : log[k].sig = s}
<1>1. Len(log) \in Nat /\ DOMAIN log = 1 .. Len(log)
  BY DEF TypeOK
<1>2. PICK i \in 1 .. synced : /\ log[i] = Intent(s)
                              /\ \A j \in 1 .. Len(log) : j > i => log[j].sig # s
  BY DEF Durable, Holds
<1>3. i \in I
  BY <1>1, <1>2 DEF TypeOK, Intent
<1>4. \A k \in I : k \in Nat /\ i >= k
  BY <1>1, <1>2 DEF TypeOK
<1>5. Max(I) \in I /\ \A k \in I : Max(I) >= k
  BY <1>3, <1>4 DEF Max
<1>6. Max(I) = i
  BY <1>3, <1>4, <1>5
<1>7. log[Max(I)].k = "intent" /\ I # {}
  BY <1>2, <1>3, <1>6 DEF Intent
<1>8. Loaded(log)[s] = IF I = {} THEN "none"
                       ELSE IF log[Max(I)].k = "intent" THEN "open" ELSE "done"
  BY DEF Loaded
<1> QED
  BY <1>7, <1>8

\* A result closes its own intent and leaves the others alone.
LEMMA ResultKeeps ==
    ASSUME JournalInv, up, up', PathInv', NEW s \in Signals,
           NEW c \in {"closed", "recovered"}, RecordResult(s, c)
    PROVE  JournalInv'
<1>1. /\ AppendRecord(Result(s), FALSE) /\ torn' = FALSE
      /\ fate' = [fate EXCEPT ![s] = c]
  BY DEF RecordResult, AppendRecord
<1>2. Result(s) \in Record /\ Result(s).sig = s
  BY DEF Result, Record
<1>3. ASSUME NEW t \in Signals, fate'[t] = "open"
      PROVE  index'[t] = "open" /\ Durable(t)'
  <2>1. t # s /\ fate[t] = "open"
    BY <1>1, <1>3 DEF JournalInv, PathInv, TypeOK
  <2>2. TypeOK /\ torn = FALSE /\ index[t] = "open" /\ Durable(t)
    BY <2>1 DEF JournalInv, PathInv, OpenIntentRemembered
  <2> QED
    BY <1>1, <1>2, <2>1, <2>2, AppendDurable
<1> QED
  BY <1>1, <1>3 DEF JournalInv, OpenIntentRemembered

\* An intent is durable when record_intent returns, and the others still are.
LEMMA IntentKeeps ==
    ASSUME JournalInv, up, up', PathInv', NEW s \in Signals, RecordIntent(s)
    PROVE  JournalInv'
<1>1. /\ AppendRecord(Intent(s), TRUE) /\ torn' = FALSE
      /\ fate' = [fate EXCEPT ![s] = "open"]
  BY DEF RecordIntent, AppendRecord
<1>2. Intent(s) \in Record /\ Intent(s).sig = s
  BY DEF Intent, Record
<1>3. ASSUME NEW t \in Signals, fate'[t] = "open"
      PROVE  index'[t] = "open" /\ Durable(t)'
  <2>1. TypeOK /\ torn = FALSE
    BY DEF JournalInv, PathInv
  <2>2. CASE t = s
    BY <1>1, <1>2, <2>1, <2>2, AppendDurable
  <2>3. CASE t # s
    <3>1. fate[t] = "open"
      BY <1>1, <1>3, <2>1, <2>3 DEF TypeOK
    <3>2. index[t] = "open" /\ Durable(t)
      BY <3>1 DEF JournalInv, OpenIntentRemembered
    <3> QED
      BY <1>1, <1>2, <2>1, <2>3, <3>2, AppendDurable
  <2> QED
    BY <2>2, <2>3
<1> QED
  BY <1>1, <1>3 DEF JournalInv, OpenIntentRemembered

\* Without cut writes every step keeps the journal invariant.
LEMMA JournalStep == ASSUME "torn" \notin Faults, JournalInv, [Next]_vars PROVE JournalInv'
<1>1. PathInv /\ PathInv'
  BY PathStep DEF JournalInv
<1>2. up \in BOOLEAN /\ Alive /\ TypeOK
  BY <1>1 DEF PathInv, TypeOK
<1>3. ASSUME NEW s \in Signals, Submit(s) PROVE JournalInv'
  BY <1>1, <1>3, IntentKeeps DEF Submit
<1>4. ASSUME NEW s \in Signals, SkipLeg(s) PROVE JournalInv'
  <2>1. up /\ up'
    BY <1>2, <1>4 DEF SkipLeg, Alive
  <2> QED
    BY <1>1, <1>4, <2>1, ResultKeeps DEF SkipLeg
<1>5. ASSUME NEW s \in Signals, CloseIntent(s) PROVE JournalInv'
  <2>1. up /\ up'
    BY <1>2, <1>5 DEF CloseIntent, Alive
  <2> QED
    BY <1>1, <1>5, <2>1, ResultKeeps DEF CloseIntent
<1>6. ASSUME NEW s \in Signals, RecoverIntent(s) PROVE JournalInv'
  <2>1. up /\ up'
    BY <1>2, <1>6 DEF RecoverIntent, Alive
  <2> QED
    BY <1>1, <1>6, <2>1, ResultKeeps DEF RecoverIntent
<1>7. CASE UNCHANGED <<up, index, fate, log, synced, older, torn>>
  BY <1>1, <1>7 DEF JournalInv, Durable, OpenIntentRemembered
<1>8. CASE Start
  <2>1. UNCHANGED <<fate, log, synced, older, torn>> /\ index' = Loaded(log)
    BY <1>8 DEF Start, file
  <2>2. \A s \in Signals : fate[s] = "open" => Loaded(log)[s] = "open"
    BY <1>2, LoadedOpen DEF JournalInv
  <2> QED
    BY <1>1, <2>1, <2>2 DEF JournalInv, Durable, OpenIntentRemembered
<1>9. CASE Kill
  BY <1>1, <1>9 DEF Kill, Down, file, JournalInv, Durable, OpenIntentRemembered
<1>10. CASE PowerLoss
  <2>1. PICK l \in Remains(log, synced) \cup older : log' = l /\ synced' = Len(l)
    BY <1>10 DEF PowerLoss
  <2>2. torn' = FALSE /\ up' = FALSE /\ fate' = fate /\ older' = {}
    BY <1>10 DEF PowerLoss, Down, JournalInv
  <2>3. ASSUME NEW s \in Signals, fate[s] = "open" PROVE Durable(s)'
    <3>1. Holds(log, synced, s) /\ \A q \in older : Holds(q, Len(q), s)
      BY <2>3 DEF JournalInv, Durable
    <3>2. Holds(l, Len(l), s)
      BY <1>2, <3>1, RemainsHold DEF TypeOK
    <3> QED
      BY <2>1, <2>2, <3>2 DEF Durable
  <2> QED
    BY <1>1, <2>2, <2>3 DEF JournalInv, OpenIntentRemembered
<1>11. ASSUME NEW s \in Signals,
              \/ Transmit(s) \/ WireReturns(s) \/ Persist(s) \/ WireFails(s) \/ PersistFails(s)
              \/ LandsLate(s)
       PROVE  JournalInv'
  BY <1>7, <1>11 DEF Transmit, WireReturns, Persist, WireFails, PersistFails, LandsLate,
                     file, memory
<1>12. CASE BeginSweep \/ CommitRecovery \/ RecoveryFails \/ VenueUnreachable
  BY <1>7, <1>12 DEF BeginSweep, CommitRecovery, RecoveryFails, VenueUnreachable,
                     file, memory
<1>13. ASSUME NEW old \in SUBSET Signals, ReconcileOrphans(old)
       PROVE  JournalInv'
  BY <1>7, <1>13 DEF ReconcileOrphans, file, memory
<1>14. CASE UNCHANGED vars
  BY <1>7, <1>14 DEF vars
<1> QED
  BY <1>3, <1>4, <1>5, <1>6, <1>8, <1>9, <1>10, <1>11, <1>12, <1>13, <1>14
     DEF Next, SubmissionStep

\* As long as no write is cut short, the duplicate test of a running process
\* knows every intent that was journalled and not closed, for any number of
\* signals, compactions, killed processes, lost page caches and undone renames.
THEOREM IntentsRemembered ==
    ASSUME "torn" \notin Faults
    PROVE  Spec => []OpenIntentRemembered
<1>1. Init => JournalInv
  BY PathInit DEF Init, JournalInv, OpenIntentRemembered
<1>2. JournalInv => OpenIntentRemembered
  BY DEF JournalInv
<1>3. JournalInv /\ [Next]_vars => JournalInv'
  BY JournalStep
<1> QED
  BY <1>1, <1>2, <1>3, PTL DEF Spec
=============================================================================

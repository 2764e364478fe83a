---------------------------- MODULE SumTheorems ----------------------------
(***************************************************************************)
(* Facts about SumFunctionOnSet, the sum of a function over a finite set,  *)
(* which the proofs about amounts rest on.  The sum is a recursive         *)
(* function that takes one chosen element after the other; the facts are   *)
(* proved by looking at a smallest set for which they fail.                *)
(***************************************************************************)
EXTENDS Integers, FiniteSets, Functions, FiniteSetTheorems, WellFoundedInduction, TLAPS

\* The element the sum takes first.
Pick(s) == CHOOSE x \in s : TRUE
Round(f, t, s) == IF s = {} THEN 0 ELSE f[Pick(s)] + t[s \ {Pick(s)}]
\* t is the table of all partial sums of f over S.
IsTable(f, S, t) == t = [s \in SUBSET S |-> Round(f, t, s)]
IntOn(f, S) == \A x \in S : f[x] \in Int

\* A set of numbers has a smallest one.
LEMMA SmallestNat ==
    ASSUME NEW T \in SUBSET Nat, T # {}
    PROVE  \E n \in T : \A m \in T : n <= m
<1> DEFINE R == {ss \in Nat \X Nat : ss[1] < ss[2]}
<1>1. IsWellFoundedOn(R, Nat)
  BY NatLessThanWellFounded, Zenon DEF OpToRel
<1> HIDE DEF R
<1>2. PICK n \in T : \A m \in T : ~(<<m, n>> \in R)
  BY <1>1, WFMin
<1>3. ASSUME NEW m \in T PROVE n <= m
  <2>1. ~(<<m, n>> \in R) /\ m \in Nat /\ n \in Nat
    BY <1>2
  <2>2. ~(m < n)
    BY <2>1 DEF R
  <2> QED
    BY <2>1, <2>2
<1> QED
  BY <1>3

\* A family of finite sets, if it has any, has a smallest one.
LEMMA SmallestSet ==
    ASSUME NEW S, IsFiniteSet(S), NEW F \in SUBSET (SUBSET S), F # {}
    PROVE  \E s \in F : \A u \in F : ~(u \subseteq s /\ u # s)
<1> DEFINE sizes == {Cardinality(s) : s \in F}
<1>1. \A s \in F : IsFiniteSet(s) /\ Cardinality(s) \in Nat
  BY FS_Subset, FS_CardinalityType
<1>2. sizes \in SUBSET Nat /\ sizes # {}
  BY <1>1
<1>3. PICK n \in sizes : \A m \in sizes : n <= m
  BY <1>2, SmallestNat
<1>4. PICK s \in F : Cardinality(s) = n
  OBVIOUS
<1>5. ASSUME NEW u \in F, u \subseteq s, u # s PROVE FALSE
  <2>1. Cardinality(u) < Cardinality(s)
    BY <1>1, <1>5, FS_Subset
  <2>2. n <= Cardinality(u)
    BY <1>3
  <2> QED
    BY <1>1, <1>4, <2>1, <2>2
<1> QED
  BY <1>5

\* Picking from a non-empty set.
LEMMA PickIn == ASSUME NEW s, s # {} PROVE Pick(s) \in s
BY DEF Pick

\* The sum is the entry of its table.
LEMMA SumIsEntry ==
    ASSUME NEW f, NEW S
    PROVE  SumFunctionOnSet(f, S) = (CHOOSE t : IsTable(f, S, t))[S]
BY DEF SumFunctionOnSet, FoldFunctionOnSet, MapThenFoldSet, IsTable, Round, Pick

\* There is a table.
LEMMA TableExists ==
    ASSUME NEW f, NEW S, IsFiniteSet(S)
    PROVE  \E t : IsTable(f, S, t)
<1> DEFINE UpTo(n, t) == /\ t = [s \in SUBSET S |-> t[s]]
                         /\ \A s \in SUBSET S : Cardinality(s) <= n => t[s] = Round(f, t, s)
           bad == {n \in Nat : ~\E t : UpTo(n, t)}
<1>1. \A s \in SUBSET S : /\ IsFiniteSet(s) /\ Cardinality(s) \in Nat
                          /\ Cardinality(s) <= Cardinality(S)
                          /\ Cardinality(s) = 0 <=> s = {}
  BY FS_Subset, FS_CardinalityType, FS_EmptySet
<1>2. bad = {}
  <2> SUFFICES ASSUME bad # {} PROVE FALSE
    OBVIOUS
  <2>1. PICK n \in bad : \A m \in bad : n <= m
    BY SmallestNat
  <2>0. n \in Nat
    OBVIOUS
  <2>2. n # 0
    <3> DEFINE zero == [s \in SUBSET S |-> 0]
    <3>1. \A s \in SUBSET S : Cardinality(s) <= 0 => s = {}
      BY <1>1
    <3>2. UpTo(0, zero)
      BY <3>1 DEF Round
    <3> QED
      BY <3>2
  <2>3. PICK t : UpTo(n - 1, t)
    <3>1. n - 1 \in Nat /\ n - 1 \notin bad
      <4> HIDE DEF bad
      <4> QED
        BY <2>0, <2>1, <2>2
    <3> HIDE DEF UpTo
    <3> QED
      BY <3>1
  <2> DEFINE next == [s \in SUBSET S |-> Round(f, t, s)]
  <2>4. ASSUME NEW s \in SUBSET S, Cardinality(s) <= n
        PROVE  next[s] = Round(f, next, s)
    <3>1. CASE s = {}
      BY <3>1 DEF Round
    <3>2. CASE s # {}
      <4> DEFINE u == s \ {Pick(s)}
      <4>1. u \in SUBSET S /\ Pick(s) \in s
        BY <3>2, PickIn
      <4>2. Cardinality(u) = Cardinality(s) - 1
        BY <1>1, <4>1, FS_RemoveElement
      <4>5. Cardinality(u) <= n - 1
        <5> HIDE DEF u, bad
        <5> QED
          BY <1>1, <2>0, <2>4, <4>2
      <4>3. t[u] = Round(f, t, u)
        <5> HIDE DEF u, bad
        <5> QED
          BY <2>3, <4>1, <4>5
      <4>4. next[u] = t[u]
        BY <4>1, <4>3
      <4> QED
        BY <3>2, <4>4 DEF Round
    <3> QED
      BY <3>1, <3>2
  <2>5. UpTo(n, next)
    <3> HIDE DEF next
    <3>1. next = [s \in SUBSET S |-> next[s]]
      BY DEF next
    <3> QED
      BY <2>4, <3>1
  <2> HIDE DEF UpTo
  <2> QED
    BY <2>5
<1>3. Cardinality(S) \in Nat
  BY <1>1
<1>4. PICK t : UpTo(Cardinality(S), t)
  <2> HIDE DEF UpTo
  <2> QED
    BY <1>2, <1>3
<1>5. \A s \in SUBSET S : t[s] = Round(f, t, s)
  BY <1>1, <1>4
<1>6. t = [s \in SUBSET S |-> Round(f, t, s)]
  BY <1>4, <1>5
<1> QED
  BY <1>6 DEF IsTable

\* Two tables agree on the sets where their functions do.
LEMMA TablesAgree ==
    ASSUME NEW f, NEW S, NEW t, IsTable(f, S, t),
           NEW g, NEW T \in SUBSET S, NEW u, IsTable(g, T, u),
           IsFiniteSet(T), \A x \in T : f[x] = g[x]
    PROVE  \A s \in SUBSET T : t[s] = u[s]
<1> DEFINE F == {s \in SUBSET T : t[s] # u[s]}
<1> SUFFICES ASSUME F # {} PROVE FALSE
  OBVIOUS
<1>0. F \in SUBSET (SUBSET T)
  OBVIOUS
<1>1. PICK s \in F : \A r \in F : ~(r \subseteq s /\ r # s)
  <2> HIDE DEF F
  <2> QED
    BY <1>0, SmallestSet
<1>2. t[s] = Round(f, t, s) /\ u[s] = Round(g, u, s)
  BY DEF IsTable
<1>3. s # {}
  BY <1>2 DEF Round
<1>4. Pick(s) \in s
  BY <1>3, PickIn
<1>5. t[s \ {Pick(s)}] = u[s \ {Pick(s)}]
  BY <1>1, <1>4
<1> QED
  BY <1>2, <1>3, <1>4, <1>5 DEF Round

\* Partial sums of integers are integers.
LEMMA TableType ==
    ASSUME NEW f, NEW S, NEW t, IsTable(f, S, t), IsFiniteSet(S), IntOn(f, S)
    PROVE  \A s \in SUBSET S : t[s] \in Int
<1> DEFINE F == {s \in SUBSET S : t[s] \notin Int}
<1> SUFFICES ASSUME F # {} PROVE FALSE
  OBVIOUS
<1>0. F \in SUBSET (SUBSET S)
  OBVIOUS
<1>1. PICK s \in F : \A r \in F : ~(r \subseteq s /\ r # s)
  <2> HIDE DEF F
  <2> QED
    BY <1>0, SmallestSet
<1>2. t[s] = Round(f, t, s)
  BY DEF IsTable
<1>3. s # {}
  BY <1>2 DEF Round
<1>4. Pick(s) \in s
  BY <1>3, PickIn
<1>5. t[s \ {Pick(s)}] \in Int
  BY <1>1, <1>4
<1> QED
  BY <1>2, <1>3, <1>4, <1>5 DEF Round, IntOn

\* Any element may be taken first.
LEMMA TableTakesAny ==
    ASSUME NEW f, NEW S, NEW t, IsTable(f, S, t), IsFiniteSet(S), IntOn(f, S)
    PROVE  \A s \in SUBSET S : \A x \in s : t[s] = f[x] + t[s \ {x}]
<1> DEFINE Takes(s) == \A x \in s : t[s] = f[x] + t[s \ {x}]
           F == {s \in SUBSET S : ~Takes(s)}
<1> SUFFICES ASSUME F # {} PROVE FALSE
  OBVIOUS
<1>0. F \in SUBSET (SUBSET S)
  OBVIOUS
<1>1. PICK s \in F : \A r \in F : ~(r \subseteq s /\ r # s)
  <2> HIDE DEF F
  <2> QED
    BY <1>0, SmallestSet
<1>2. PICK x \in s : t[s] # f[x] + t[s \ {x}]
  OBVIOUS
<1> DEFINE y == Pick(s)
<1>3. y \in s /\ t[s] = f[y] + t[s \ {y}]
  BY PickIn DEF IsTable, Round
<1> HIDE DEF y
<1>4. x # y
  BY <1>2, <1>3
<1>5. Takes(s \ {x}) /\ Takes(s \ {y})
  BY <1>1, <1>3
<1>6. t[s \ {y}] = f[x] + t[(s \ {y}) \ {x}] /\ t[s \ {x}] = f[y] + t[(s \ {x}) \ {y}]
  BY <1>3, <1>4, <1>5
<1>7. (s \ {y}) \ {x} = (s \ {x}) \ {y}
  OBVIOUS
<1>8. f[x] \in Int /\ f[y] \in Int /\ t[(s \ {x}) \ {y}] \in Int
  BY <1>3, TableType DEF IntOn
<1>9. f[x] + t[s \ {x}] = f[y] + t[s \ {y}]
  <2> DEFINE a == f[x]
             b == f[y]
             w == t[(s \ {x}) \ {y}]
  <2>1. t[s \ {y}] = a + w /\ t[s \ {x}] = b + w
    BY <1>6, <1>7
  <2>2. a \in Int /\ b \in Int /\ w \in Int
    BY <1>8
  <2> HIDE DEF a, b, w
  <2>3. a + (b + w) = b + (a + w)
    BY <2>2
  <2> QED
    BY <2>1, <2>3 DEF a, b
<1> QED
  BY <1>2, <1>3, <1>9

(***************************************************************************)
(* The sum.                                                                *)
(***************************************************************************)

\* Removing an element, the last of which leaves nothing.
THEOREM SumRemove ==
    ASSUME NEW f, NEW S, IsFiniteSet(S), IntOn(f, S)
    PROVE  /\ SumFunctionOnSet(f, S) \in Int
           /\ S = {} => SumFunctionOnSet(f, S) = 0
           /\ \A x \in S : SumFunctionOnSet(f, S) = f[x] + SumFunctionOnSet(f, S \ {x})
<1> DEFINE t == CHOOSE v : IsTable(f, S, v)
<1>1. IsTable(f, S, t)
  BY TableExists
<1>2. SumFunctionOnSet(f, S) = t[S]
  BY SumIsEntry
<1> HIDE DEF t
<1>3. t[S] \in Int
  BY <1>1, TableType
<1>4. S = {} => t[S] = 0
  BY <1>1 DEF IsTable, Round
<1>5. ASSUME NEW x \in S PROVE t[S] = f[x] + SumFunctionOnSet(f, S \ {x})
  <2> DEFINE T == S \ {x}
             u == CHOOSE v : IsTable(f, T, v)
  <2>1. T \in SUBSET S /\ IsFiniteSet(T)
    BY FS_Subset
  <2>2. IsTable(f, T, u)
    BY <2>1, TableExists
  <2>3. SumFunctionOnSet(f, T) = u[T]
    BY SumIsEntry
  <2> HIDE DEF T, u
  <2>4. t[T] = u[T]
    BY <1>1, <2>1, <2>2, TablesAgree
  <2>5. t[S] = f[x] + t[S \ {x}]
    BY <1>1, TableTakesAny
  <2> QED
    BY <2>3, <2>4, <2>5 DEF T
<1> QED
  BY <1>2, <1>3, <1>4, <1>5

\* Only the values on the set matter.
THEOREM SumCongruent ==
    ASSUME NEW f, NEW g, NEW S, IsFiniteSet(S), \A x \in S : f[x] = g[x]
    PROVE  SumFunctionOnSet(f, S) = SumFunctionOnSet(g, S)
<1> DEFINE t == CHOOSE v : IsTable(f, S, v)
           u == CHOOSE v : IsTable(g, S, v)
<1>1. IsTable(f, S, t) /\ IsTable(g, S, u)
  BY TableExists
<1>2. SumFunctionOnSet(f, S) = t[S] /\ SumFunctionOnSet(g, S) = u[S]
  BY SumIsEntry
<1> HIDE DEF t, u
<1>3. t[S] = u[S]
  BY <1>1, TablesAgree
<1> QED
  BY <1>2, <1>3

\* Changing the value at one element changes the sum by as much.
THEOREM SumChange ==
    ASSUME NEW f, NEW g, NEW S, IsFiniteSet(S), IntOn(f, S), IntOn(g, S),
           NEW x \in S, \A y \in S \ {x} : f[y] = g[y]
    PROVE  SumFunctionOnSet(g, S) = SumFunctionOnSet(f, S) - f[x] + g[x]
<1> DEFINE a == SumFunctionOnSet(f, S)
           b == SumFunctionOnSet(g, S)
           c == SumFunctionOnSet(f, S \ {x})
           d == SumFunctionOnSet(g, S \ {x})
<1>1. IsFiniteSet(S \ {x}) /\ IntOn(f, S \ {x})
  BY FS_Subset DEF IntOn
<1>2. a = f[x] + c /\ b = g[x] + d /\ c \in Int /\ f[x] \in Int /\ g[x] \in Int
  BY <1>1, SumRemove DEF IntOn
<1>3. c = d
  BY <1>1, SumCongruent
<1> HIDE DEF a, b, c, d
<1>4. b = a - f[x] + g[x]
  BY <1>2, <1>3
<1> QED
  BY <1>4 DEF a, b

\* Putting an element in.
THEOREM SumAdd ==
    ASSUME NEW f, NEW S, IsFiniteSet(S), NEW x, IntOn(f, S \cup {x}), x \notin S
    PROVE  SumFunctionOnSet(f, S \cup {x}) = SumFunctionOnSet(f, S) + f[x]
<1> DEFINE T == S \cup {x}
<1>1. IsFiniteSet(T) /\ x \in T /\ T \ {x} = S
  BY FS_AddElement
<1>2. IntOn(f, T) /\ IntOn(f, S) /\ f[x] \in Int
  BY DEF IntOn
<1> HIDE DEF T
<1>3. SumFunctionOnSet(f, T) = f[x] + SumFunctionOnSet(f, S)
  BY <1>1, <1>2, SumRemove
<1>4. SumFunctionOnSet(f, S) \in Int
  BY <1>2, SumRemove
<1> QED
  BY <1>2, <1>3, <1>4 DEF T

NatOn(f, S) == \A x \in S : f[x] \in Nat

\* A sum of natural numbers is one, and is at least the sum over a part.
THEOREM SumMonotone ==
    ASSUME NEW f, NEW S, IsFiniteSet(S), NatOn(f, S)
    PROVE  \A T \in SUBSET S : /\ SumFunctionOnSet(f, T) \in Nat
                               /\ SumFunctionOnSet(f, T) <= SumFunctionOnSet(f, S)
<1> DEFINE Sum(T) == SumFunctionOnSet(f, T)
<1>1. ASSUME NEW T \in SUBSET S PROVE IsFiniteSet(T) /\ IntOn(f, T) /\ NatOn(f, T)
  BY FS_Subset DEF IntOn, NatOn
<1>2. ASSUME NEW T \in SUBSET S PROVE Sum(T) \in Nat
  <2> DEFINE F == {U \in SUBSET S : Sum(U) \notin Nat}
  <2> SUFFICES ASSUME F # {} PROVE FALSE
    OBVIOUS
  <2>1. F \in SUBSET (SUBSET S)
    OBVIOUS
  <2>2. PICK U \in F : \A V \in F : ~(V \subseteq U /\ V # U)
    <3> HIDE DEF F
    <3> QED
      BY <2>1, SmallestSet
  <2>3. U # {}
    BY <1>1, SumRemove
  <2>4. PICK x \in U : TRUE
    BY <2>3
  <2>5. Sum(U) = f[x] + Sum(U \ {x})
    BY <1>1, SumRemove
  <2>6. Sum(U \ {x}) \in Nat /\ f[x] \in Nat
    BY <2>2 DEF NatOn
  <2> HIDE DEF Sum
  <2> QED
    BY <2>5, <2>6
<1>3. ASSUME NEW T \in SUBSET S PROVE Sum(T) <= Sum(S)
  <2> DEFINE F == {U \in SUBSET S : T \subseteq U /\ ~(Sum(T) <= Sum(U))}
  <2> SUFFICES ASSUME F # {} PROVE FALSE
    OBVIOUS
  <2>1. F \in SUBSET (SUBSET S)
    OBVIOUS
  <2>2. PICK U \in F : \A V \in F : ~(V \subseteq U /\ V # U)
    <3> HIDE DEF F
    <3> QED
      BY <2>1, SmallestSet
  <2>3. T # U /\ T \subseteq U /\ U \subseteq S
    BY <1>2
  <2>4. PICK x \in U : x \notin T
    BY <2>3
  <2>5. Sum(U) = f[x] + Sum(U \ {x})
    BY <1>1, SumRemove
  <2>6. Sum(T) <= Sum(U \ {x})
    BY <2>2, <2>3, <2>4
  <2>7. Sum(U \ {x}) \in Nat /\ Sum(T) \in Nat /\ f[x] \in Nat
    BY <1>2, <2>3 DEF NatOn
  <2>8. Sum(T) <= Sum(U)
    <3> HIDE DEF Sum, F
    <3> QED
      BY <2>5, <2>6, <2>7
  <2> QED
    BY <2>8
<1> QED
  BY <1>2, <1>3

\* A sum of zeros.
THEOREM SumZero ==
    ASSUME NEW f, NEW S, IsFiniteSet(S), \A x \in S : f[x] = 0
    PROVE  SumFunctionOnSet(f, S) = 0
<1> DEFINE F == {U \in SUBSET S : SumFunctionOnSet(f, U) # 0}
<1> SUFFICES ASSUME F # {} PROVE FALSE
  OBVIOUS
<1>1. F \in SUBSET (SUBSET S)
  OBVIOUS
<1>2. PICK U \in F : \A V \in F : ~(V \subseteq U /\ V # U)
  <2> HIDE DEF F
  <2> QED
    BY <1>1, SmallestSet
<1>3. IsFiniteSet(U) /\ IntOn(f, U)
  BY FS_Subset DEF IntOn
<1>4. PICK x \in U : TRUE
  BY <1>3, SumRemove
<1>5. SumFunctionOnSet(f, U) = f[x] + SumFunctionOnSet(f, U \ {x})
  BY <1>3, SumRemove
<1>6. SumFunctionOnSet(f, U \ {x}) = 0 /\ f[x] = 0
  BY <1>2
<1> QED
  BY <1>5, <1>6

\* A sum of terms none of which is larger.
THEOREM SumPointwise ==
    ASSUME NEW f, NEW g, NEW S, IsFiniteSet(S), NatOn(f, S), NatOn(g, S),
           \A x \in S : f[x] <= g[x]
    PROVE  SumFunctionOnSet(f, S) <= SumFunctionOnSet(g, S)
<1> DEFINE F == {U \in SUBSET S : ~(SumFunctionOnSet(f, U) <= SumFunctionOnSet(g, U))}
<1> SUFFICES ASSUME F # {} PROVE FALSE
  OBVIOUS
<1>1. F \in SUBSET (SUBSET S)
  OBVIOUS
<1>2. PICK U \in F : \A V \in F : ~(V \subseteq U /\ V # U)
  <2> HIDE DEF F
  <2> QED
    BY <1>1, SmallestSet
<1>3. IsFiniteSet(U) /\ IntOn(f, U) /\ IntOn(g, U)
  BY FS_Subset DEF IntOn, NatOn
<1>4. PICK x \in U : TRUE
  <2>1. U = {} => SumFunctionOnSet(f, U) = 0 /\ SumFunctionOnSet(g, U) = 0
    BY <1>3, SumRemove
  <2> QED
    BY <2>1
<1>5. /\ SumFunctionOnSet(f, U) = f[x] + SumFunctionOnSet(f, U \ {x})
      /\ SumFunctionOnSet(g, U) = g[x] + SumFunctionOnSet(g, U \ {x})
  BY <1>3, SumRemove
<1>6. SumFunctionOnSet(f, U \ {x}) <= SumFunctionOnSet(g, U \ {x})
  BY <1>2
<1>7. /\ f[x] \in Nat /\ g[x] \in Nat /\ f[x] <= g[x]
      /\ SumFunctionOnSet(f, U \ {x}) \in Nat /\ SumFunctionOnSet(g, U \ {x}) \in Nat
  <2>1. U \ {x} \in SUBSET S
    OBVIOUS
  <2> QED
    BY <2>1, SumMonotone DEF NatOn
<1>8. ~(SumFunctionOnSet(f, U) <= SumFunctionOnSet(g, U))
  OBVIOUS
<1> HIDE DEF F
<1> QED
  BY <1>5, <1>6, <1>7, <1>8
=============================================================================

------------------------------ MODULE FoldProofs ------------------------------
(***************************************************************************)
(* What it takes to reason about a fold over a finite set: the recursive   *)
(* function it is defined by exists and is the only one, and a sum can be  *)
(* taken apart at any element and changes as its summands do.  Everything  *)
(* goes by induction on the set: a least set for which a claim failed      *)
(* would be a contradiction.                                               *)
(***************************************************************************)
EXTENDS FiniteSetsExt, FiniteSetTheorems, TLAPS

-----------------------------------------------------------------------------
(* Induction on finite sets and on numbers.                                 *)

(* A nonempty collection of subsets of a finite set has a least member.     *)
LEMMA LeastSet ==
  ASSUME NEW S, IsFiniteSet(S), NEW C, C \subseteq SUBSET S, C # {}
  PROVE  \E T \in C : \A U \in C : U \subseteq T => U = T
<1>1. FiniteSubsetsOf(S) = SUBSET S
  BY FS_FiniteSubsetsOfFinite
<1>2. PICK T \in C : \A U \in C : ~ (<<U, T>> \in StrictSubsetOrdering(S))
  BY <1>1, FS_StrictSubsetOrderingWellFounded, WFMin
<1>3. ASSUME NEW U \in C, U \subseteq T, U # T
      PROVE  FALSE
  <2>1. <<U, T>> \in StrictSubsetOrdering(S)
    BY <1>3 DEF StrictSubsetOrdering
  <2> QED
    BY <2>1, <1>2
<1> QED
  BY <1>3

(* A nonempty set of natural numbers has a least one.                       *)
LEMMA LeastNumber ==
  ASSUME NEW C, C \subseteq Nat, C # {}
  PROVE  \E n \in C : \A m \in C : n <= m
<1>1. PICK k \in C : TRUE
  OBVIOUS
<1> DEFINE All == 0 .. k
           Down == {0 .. n : n \in {i \in C : i <= k}}
<1>2. IsFiniteSet(All)
  BY FS_Interval
<1>3. Down \subseteq SUBSET All /\ Down # {}
  <2>1. 0 .. k \in Down
    OBVIOUS
  <2> QED
    BY <2>1
<1>4. \E T \in Down : \A U \in Down : U \subseteq T => U = T
  <2> HIDE DEF Down, All
  <2> QED
    BY <1>2, <1>3, LeastSet
<1>5. PICK n \in C : n <= k /\ \A U \in Down : U \subseteq 0 .. n => U = 0 .. n
  BY <1>4
<1>6. ASSUME NEW m \in C, m < n
      PROVE  FALSE
  <2>1. 0 .. m \in Down /\ 0 .. m \subseteq 0 .. n
    BY <1>5, <1>6
  <2>2. 0 .. m = 0 .. n
    BY <2>1, <1>5
  <2>3. n \in 0 .. n /\ n \notin 0 .. m
    BY <1>6
  <2> QED
    BY <2>2, <2>3
<1> QED
  BY <1>5, <1>6

(* A nonempty set of numbers that has a bound has a greatest one.           *)
LEMMA GreatestNumber ==
  ASSUME NEW b \in Nat, NEW C, C \subseteq 0 .. b, C # {}
  PROVE  Max(C) \in C /\ \A n \in C : n <= Max(C)
<1> DEFINE Depths == {b - n : n \in C}
<1>1. Depths \subseteq Nat /\ Depths # {}
  <2>1. \A n \in C : b - n \in Nat
    OBVIOUS
  <2> QED
    BY <2>1
<1>2. PICK d \in Depths : \A e \in Depths : d <= e
  <2> HIDE DEF Depths
  <2> QED
    BY <1>1, LeastNumber
<1>3. PICK m \in C : d = b - m
  OBVIOUS
<1>4. ASSUME NEW n \in C
      PROVE  m >= n
  <2>1. b - n \in Depths
    OBVIOUS
  <2>2. b - m <= b - n /\ m \in 0 .. b /\ n \in 0 .. b
    BY <1>2, <1>3, <2>1
  <2> QED
    BY <2>2
<1>5. Max(C) \in C /\ \A n \in C : Max(C) >= n
  BY <1>4 DEF Max
<1> QED
  BY <1>5

-----------------------------------------------------------------------------
(* A fold takes the element p[s] of a set s first and goes on with the      *)
(* rest: this is its value at s, if g has its values at the smaller sets.   *)
FoldAt(op, base, p, g, s) == IF s = {} THEN base ELSE op[p[s], g[s \ {p[s]}]]

Foldable(op, base, p, S, V) ==
  /\ IsFiniteSet(S)
  /\ base \in V /\ op \in [S \X V -> V]
  /\ \A s \in SUBSET S : s # {} => p[s] \in s

IsFold(op, base, p, g, S) == \A s \in SUBSET S : g[s] = FoldAt(op, base, p, g, s)

(* There is a function that has these values, by induction on the size of   *)
(* the sets it is defined on.                                               *)
LEMMA FoldExists ==
  ASSUME NEW S, NEW V, NEW base, NEW op, NEW p, Foldable(op, base, p, S, V)
  PROVE  \E g \in [SUBSET S -> V] : IsFold(op, base, p, g, S)
<1> USE DEF Foldable
<1> DEFINE Small(n) == {s \in SUBSET S : Cardinality(s) <= n}
           Has(n) == \E g \in [Small(n) -> V] :
                       \A s \in Small(n) : g[s] = FoldAt(op, base, p, g, s)
<1>1. \A s \in SUBSET S : /\ IsFiniteSet(s) /\ Cardinality(s) \in Nat
                          /\ Cardinality(s) <= Cardinality(S)
  BY FS_Subset, FS_CardinalityType
<1>2. \A s \in SUBSET S : s # {} =>
        /\ p[s] \in S /\ s \ {p[s]} \in SUBSET S
        /\ Cardinality(s \ {p[s]}) = Cardinality(s) - 1
  BY <1>1, FS_RemoveElement
<1>3. Has(0)
  <2> DEFINE g == [s \in Small(0) |-> base]
  <2>1. \A s \in Small(0) : s = {}
    BY <1>1, FS_EmptySet
  <2>2. g \in [Small(0) -> V] /\ \A s \in Small(0) : g[s] = FoldAt(op, base, p, g, s)
    BY <2>1 DEF FoldAt
  <2> QED
    BY <2>2
<1>4. ASSUME NEW n \in Nat, Has(n)
      PROVE  Has(n + 1)
  <2>1. PICK g \in [Small(n) -> V] : \A s \in Small(n) : g[s] = FoldAt(op, base, p, g, s)
    BY <1>4
  <2> DEFINE h == [s \in Small(n + 1) |-> FoldAt(op, base, p, g, s)]
  <2>2. \A s \in Small(n) : s \in Small(n + 1) /\ h[s] = g[s]
    BY <1>1, <2>1
  <2>3. \A s \in Small(n + 1) : s # {} => s \ {p[s]} \in Small(n)
    BY <1>1, <1>2
  <2>4. \A s \in Small(n + 1) : FoldAt(op, base, p, g, s) = FoldAt(op, base, p, h, s)
    <3> HIDE DEF h, Small
    <3> QED
      BY <2>2, <2>3 DEF FoldAt
  <2>5. \A s \in Small(n + 1) : FoldAt(op, base, p, g, s) \in V
    <3>1. ASSUME NEW s \in Small(n + 1), s # {}
          PROVE  op[p[s], g[s \ {p[s]}]] \in V
      <4>1. p[s] \in S /\ g[s \ {p[s]}] \in V
        BY <1>2, <2>1, <2>3, <3>1
      <4>2. <<p[s], g[s \ {p[s]}]>> \in S \X V
        BY <4>1
      <4> QED
        BY <4>2
    <3> QED
      BY <3>1 DEF FoldAt
  <2>6. h \in [Small(n + 1) -> V] /\ \A s \in Small(n + 1) : h[s] = FoldAt(op, base, p, h, s)
    <3> HIDE DEF Small
    <3> QED
      BY <2>4, <2>5
  <2> QED
    BY <2>6
<1>5. \A n \in Nat : Has(n)
  <2> SUFFICES ASSUME NEW n0 \in Nat, ~ Has(n0)
               PROVE  FALSE
    OBVIOUS
  <2> DEFINE C == {n \in Nat : ~ Has(n)}
  <2> HIDE DEF Has
  <2>1. PICK n \in C : \A m \in C : n <= m
    BY LeastNumber
  <2>2. n # 0 /\ n \in Nat
    BY <1>3
  <2>3. n - 1 \in Nat /\ Has(n - 1)
    BY <2>1, <2>2
  <2>4. Has((n - 1) + 1)
    BY <2>3, <1>4
  <2>5. (n - 1) + 1 = n
    BY <2>2
  <2> QED
    BY <2>4, <2>5
<1>6. Small(Cardinality(S)) = SUBSET S
  BY <1>1
<1>7. Has(Cardinality(S))
  <2> HIDE DEF Has
  <2> QED
    BY <1>5, FS_CardinalityType
<1> QED
  BY <1>6, <1>7 DEF IsFold

(* Two functions with these values agree.                                   *)
LEMMA FoldUnique ==
  ASSUME NEW S, NEW V, NEW base, NEW op, NEW p, Foldable(op, base, p, S, V),
         NEW g, IsFold(op, base, p, g, S), NEW h, IsFold(op, base, p, h, S)
  PROVE  \A s \in SUBSET S : g[s] = h[s]
<1> USE DEF Foldable, IsFold
<1> DEFINE C == {s \in SUBSET S : g[s] # h[s]}
<1>1. ASSUME C # {}
      PROVE  FALSE
  <2>1. PICK s \in C : \A u \in C : u \subseteq s => u = s
    <3>1. C \subseteq SUBSET S
      OBVIOUS
    <3> HIDE DEF C
    <3> QED
      BY <1>1, <3>1, LeastSet
  <2>2. s # {}
    BY DEF FoldAt
  <2>3. p[s] \in s
    BY <2>2
  <2>4. s \ {p[s]} \in SUBSET S /\ s \ {p[s]} \notin C
    BY <2>1, <2>3
  <2>5. g[s] = h[s]
    BY <2>4 DEF FoldAt
  <2> QED
    BY <2>5
<1> QED
  BY <1>1

-----------------------------------------------------------------------------
(* The sum of f over a set, which takes the elements in an order of its     *)
(* own.                                                                     *)

SumOver(f, S) == MapThenSumSet(LAMBDA t : f[t], S)

Picked(s) == CHOOSE x \in s : TRUE

(* Induction along the order in which a fold takes the elements.             *)
LEMMA PickedInduction ==
  ASSUME NEW S, IsFiniteSet(S), NEW C, C \subseteq SUBSET S, {} \in C,
         \A s \in SUBSET S : s # {} /\ s \ {Picked(s)} \in C => s \in C
  PROVE  S \in C
<1> DEFINE Bad == (SUBSET S) \ C
<1>1. ASSUME Bad # {} PROVE FALSE
  <2>1. Bad \subseteq SUBSET S
    OBVIOUS
  <2>2. \E s \in Bad : \A t \in Bad : t \subseteq s => t = s
    <3> HIDE DEF Bad
    <3> QED
      BY <1>1, <2>1, LeastSet
  <2>3. PICK s \in Bad : \A t \in Bad : t \subseteq s => t = s
    BY <2>2
  <2>4. s # {} /\ Picked(s) \in s
    BY DEF Picked
  <2>5. s \ {Picked(s)} \in SUBSET S /\ s \ {Picked(s)} \subseteq s /\ s \ {Picked(s)} # s
    BY <2>4
  <2>6. s \ {Picked(s)} \in C
    BY <2>3, <2>5
  <2> QED
    BY <2>4, <2>6
<1> QED
  BY <1>1

IsSum(f, g, D) == g = [s \in D |-> IF s = {} THEN 0 ELSE f[Picked(s)] + g[s \ {Picked(s)}]]

Gives(f, g, S) == IsSum(f, g, SUBSET S) /\ \A T \in SUBSET S : SumOver(f, T) = g[T]

LEMMA SumExists ==
  ASSUME NEW S, IsFiniteSet(S), NEW f, \A t \in S : f[t] \in Nat
  PROVE  \E g \in [SUBSET S -> Nat] : IsSum(f, g, SUBSET S)
<1> DEFINE op == [a \in S \X Nat |-> f[a[1]] + a[2]]
           p == [s \in SUBSET S |-> Picked(s)]
<1>1. op \in [S \X Nat -> Nat] /\ 0 \in Nat
  OBVIOUS
<1>2. /\ \A s \in SUBSET S : s # {} => p[s] = Picked(s) /\ Picked(s) \in s
      /\ \A s \in SUBSET S : s # {} => p[s] \in s
  BY DEF Picked
<1>3. \A x \in S, n \in Nat : op[x, n] = f[x] + n
  OBVIOUS
<1> HIDE DEF op, p
<1>4. PICK g \in [SUBSET S -> Nat] : \A s \in SUBSET S : g[s] = FoldAt(op, 0, p, g, s)
  <2>1. Foldable(op, 0, p, S, Nat)
    BY <1>1, <1>2 DEF Foldable
  <2>2. \E g \in [SUBSET S -> Nat] : IsFold(op, 0, p, g, S)
    BY <2>1, FoldExists
  <2> QED
    BY <2>2 DEF IsFold
<1>5. \A s \in SUBSET S : g[s] = IF s = {} THEN 0 ELSE f[Picked(s)] + g[s \ {Picked(s)}]
  <2>1. ASSUME NEW s \in SUBSET S, s # {}
        PROVE  g[s] = f[Picked(s)] + g[s \ {Picked(s)}]
    <3>1. g[s] = op[Picked(s), g[s \ {Picked(s)}]]
      BY <1>2, <1>4, <2>1 DEF FoldAt
    <3>2. Picked(s) \in S /\ g[s \ {Picked(s)}] \in Nat
      BY <1>2, <2>1
    <3> QED
      BY <1>3, <3>1, <3>2
  <2> QED
    BY <1>4, <2>1 DEF FoldAt
<1>6. IsSum(f, g, SUBSET S)
  BY <1>5 DEF IsSum
<1> QED
  BY <1>6

(* Any such function gives the sum of any set on which it is defined.       *)
LEMMA SumUnique ==
  ASSUME NEW S, IsFiniteSet(S), NEW f, NEW g, IsSum(f, g, SUBSET S),
         NEW T \in SUBSET S, NEW h, IsSum(f, h, SUBSET T)
  PROVE  g[T] = h[T]
<1> DEFINE C == {u \in SUBSET T : g[u] # h[u]}
<1>1. IsFiniteSet(T)
  BY FS_Subset
<1>2. ASSUME C # {}
      PROVE  FALSE
  <2>1. PICK u \in C : \A w \in C : w \subseteq u => w = u
    <3>1. C \subseteq SUBSET T
      OBVIOUS
    <3> HIDE DEF C
    <3> QED
      BY <1>1, <1>2, <3>1, LeastSet
  <2>2. u # {}
    BY DEF IsSum
  <2>3. Picked(u) \in u
    BY <2>2 DEF Picked
  <2>4. u \ {Picked(u)} \in SUBSET T /\ u \ {Picked(u)} \notin C
    BY <2>1, <2>3
  <2>5. g[u] = h[u]
    BY <2>2, <2>4 DEF IsSum
  <2> QED
    BY <2>5
<1> QED
  BY <1>2

LEMMA SumValue ==
  ASSUME NEW S, IsFiniteSet(S), NEW f, \A t \in S : f[t] \in Nat
  PROVE  \E g \in [SUBSET S -> Nat] : Gives(f, g, S)
<1>1. PICK g \in [SUBSET S -> Nat] : IsSum(f, g, SUBSET S)
  BY SumExists
<1>2. ASSUME NEW T \in SUBSET S
      PROVE  SumOver(f, T) = g[T]
  <2> DEFINE h == CHOOSE h : IsSum(f, h, SUBSET T)
  <2>1. SumOver(f, T) = h[T]
    BY DEF SumOver, MapThenSumSet, MapThenFoldSet, IsSum, Picked
  <2>2. IsFiniteSet(T) /\ \A t \in T : f[t] \in Nat
    BY FS_Subset
  <2>3. IsSum(f, h, SUBSET T)
    <3>1. \E x : IsSum(f, x, SUBSET T)
      BY <2>2, SumExists
    <3> QED
      BY <3>1
  <2> HIDE DEF h
  <2> QED
    BY <1>1, <2>1, <2>3, SumUnique
<1> QED
  BY <1>1, <1>2 DEF Gives

(* The sum of nothing, and of a set with an element taken first.            *)
LEMMA SumEmpty ==
  ASSUME NEW f
  PROVE  SumOver(f, {}) = 0
<1>1. IsFiniteSet({}) /\ \A t \in {} : f[t] \in Nat
  BY FS_EmptySet
<1>2. PICK g \in [SUBSET {} -> Nat] : Gives(f, g, {})
  BY <1>1, SumValue
<1> QED
  BY <1>2 DEF Gives, IsSum

LEMMA SumPicked ==
  ASSUME NEW S, IsFiniteSet(S), NEW f, \A t \in S : f[t] \in Nat
  PROVE  \A T \in SUBSET S :
           /\ SumOver(f, T) \in Nat
           /\ T # {} => /\ Picked(T) \in T
                        /\ SumOver(f, T) = f[Picked(T)] + SumOver(f, T \ {Picked(T)})
<1>1. PICK g \in [SUBSET S -> Nat] : Gives(f, g, S)
  BY SumValue
<1>2. ASSUME NEW T \in SUBSET S, T # {}
      PROVE  Picked(T) \in T /\ SumOver(f, T) = f[Picked(T)] + SumOver(f, T \ {Picked(T)})
  <2>1. Picked(T) \in T
    BY <1>2 DEF Picked
  <2>2. g[T] = f[Picked(T)] + g[T \ {Picked(T)}]
    BY <1>1, <1>2 DEF Gives, IsSum
  <2> QED
    BY <1>1, <2>1, <2>2 DEF Gives
<1> QED
  BY <1>1, <1>2 DEF Gives

LEMMA SumType ==
  ASSUME NEW S, IsFiniteSet(S), NEW f, \A t \in S : f[t] \in Nat
  PROVE  \A T \in SUBSET S : SumOver(f, T) \in Nat
BY SumPicked

(* Whatever element is taken first, the sum is the same.                    *)
LEMMA SumTake ==
  ASSUME NEW S, IsFiniteSet(S), NEW f, \A t \in S : f[t] \in Nat, NEW x \in S
  PROVE  SumOver(f, S) = f[x] + SumOver(f, S \ {x})
<1> DEFINE Fails(T) == \E t \in T : SumOver(f, T) # f[t] + SumOver(f, T \ {t})
           C == {T \in SUBSET S : Fails(T)}
<1>1. ASSUME C # {}
      PROVE  FALSE
  <2>1. PICK T \in C : \A U \in C : U \subseteq T => U = T
    <3>1. C \subseteq SUBSET S
      OBVIOUS
    <3> HIDE DEF C
    <3> QED
      BY <1>1, <3>1, LeastSet
  <2>2. PICK t \in T : SumOver(f, T) # f[t] + SumOver(f, T \ {t})
    OBVIOUS
  <2>3. IsFiniteSet(T) /\ T # {} /\ T \in SUBSET S
    BY <2>2, FS_Subset
  <2> DEFINE p == Picked(T)
             Without == T \ {t, p}
  <2>4. p \in T
    BY <2>2 DEF Picked
  <2>5. SumOver(f, T) = f[p] + SumOver(f, T \ {p})
    BY <2>3, SumPicked
  <2>6. t # p
    BY <2>2, <2>5
  <2>7. /\ T \ {p} \in SUBSET S /\ T \ {p} \notin C
        /\ T \ {t} \in SUBSET S /\ T \ {t} \notin C
    BY <2>1, <2>2, <2>4
  <2>8. (T \ {p}) \ {t} = Without /\ (T \ {t}) \ {p} = Without
    OBVIOUS
  <2> HIDE DEF p
  <2>9. SumOver(f, T \ {p}) = f[t] + SumOver(f, Without)
    BY <2>2, <2>6, <2>7, <2>8
  <2>10. SumOver(f, T \ {t}) = f[p] + SumOver(f, Without)
    BY <2>4, <2>6, <2>7, <2>8
  <2>11. SumOver(f, Without) \in Nat /\ f[t] \in Nat /\ f[p] \in Nat
    BY <2>3, <2>4, SumType
  <2> HIDE DEF Without
  <2> QED
    BY <2>2, <2>5, <2>9, <2>10, <2>11
<1>2. S \in SUBSET S
  OBVIOUS
<1> QED
  BY <1>1, <1>2

(* The sum depends only on the values at the elements.                      *)
LEMMA SumSame ==
  ASSUME NEW S, IsFiniteSet(S), NEW f, NEW g, \A t \in S : f[t] \in Nat /\ g[t] = f[t]
  PROVE  SumOver(f, S) = SumOver(g, S)
<1> DEFINE C == {T \in SUBSET S : SumOver(f, T) # SumOver(g, T)}
<1>1. ASSUME C # {}
      PROVE  FALSE
  <2>1. PICK T \in C : \A U \in C : U \subseteq T => U = T
    <3>1. C \subseteq SUBSET S
      OBVIOUS
    <3> HIDE DEF C
    <3> QED
      BY <1>1, <3>1, LeastSet
  <2>2. IsFiniteSet(T) /\ T # {}
    BY FS_Subset, SumEmpty
  <2>3. Picked(T) \in T
    BY <2>2 DEF Picked
  <2>4. T \ {Picked(T)} \in SUBSET S /\ T \ {Picked(T)} \notin C
    BY <2>1, <2>3
  <2>5. SumOver(f, T) = SumOver(g, T)
    <3>1. /\ SumOver(f, T) = f[Picked(T)] + SumOver(f, T \ {Picked(T)})
          /\ SumOver(g, T) = g[Picked(T)] + SumOver(g, T \ {Picked(T)})
      <4>1. \A t \in S : f[t] \in Nat /\ g[t] \in Nat
        OBVIOUS
      <4> QED
        BY <2>2, <4>1, SumPicked
    <3>2. f[Picked(T)] = g[Picked(T)]
      BY <2>3
    <3> QED
      BY <2>4, <3>1, <3>2
  <2> QED
    BY <2>5
<1> QED
  BY <1>1

(* A change of one value changes the sum by as much.                        *)
LEMMA SumChange ==
  ASSUME NEW S, IsFiniteSet(S), NEW f \in [S -> Nat], NEW x \in S,
         NEW g \in [S -> Nat], \A t \in S \ {x} : g[t] = f[t]
  PROVE  /\ SumOver(f, S) \in Nat /\ f[x] <= SumOver(f, S)
         /\ SumOver(g, S) = SumOver(f, S) - f[x] + g[x]
<1> DEFINE Rest == S \ {x}
<1>1. IsFiniteSet(Rest) /\ Rest \in SUBSET S /\ S \in SUBSET S
  BY FS_Subset
<1>2. \A t \in S : f[t] \in Nat /\ g[t] \in Nat
  OBVIOUS
<1>3. SumOver(f, S) = f[x] + SumOver(f, Rest) /\ SumOver(g, S) = g[x] + SumOver(g, Rest)
  BY <1>2, SumTake
<1>4. SumOver(f, Rest) = SumOver(g, Rest)
  <2> HIDE DEF Rest
  <2> QED
    BY <1>1, SumSame DEF Rest
<1>5. SumOver(f, S) \in Nat /\ SumOver(f, Rest) \in Nat
  BY <1>1, <1>2, SumType
<1> HIDE DEF Rest
<1> QED
  BY <1>2, <1>3, <1>4, <1>5

(* A sum of zeros is zero.                                                  *)
LEMMA SumZero ==
  ASSUME NEW S, IsFiniteSet(S), NEW f, \A t \in S : f[t] = 0
  PROVE  SumOver(f, S) = 0
<1> DEFINE C == {T \in SUBSET S : SumOver(f, T) # 0}
<1>1. ASSUME C # {}
      PROVE  FALSE
  <2>1. PICK T \in C : \A U \in C : U \subseteq T => U = T
    <3>1. C \subseteq SUBSET S
      OBVIOUS
    <3> HIDE DEF C
    <3> QED
      BY <1>1, <3>1, LeastSet
  <2>2. IsFiniteSet(T) /\ T # {}
    BY FS_Subset, SumEmpty
  <2>3. Picked(T) \in T
    BY <2>2 DEF Picked
  <2>4. T \ {Picked(T)} \in SUBSET S /\ T \ {Picked(T)} \notin C
    BY <2>1, <2>3
  <2> QED
    BY <2>2, <2>3, <2>4, SumPicked
<1> QED
  BY <1>1

(***************************************************************************)
(* What is additive over disjoint sets: the measure of a union of disjoint *)
(* parts is the sum of theirs.                                             *)
(***************************************************************************)
Additive(M, X) ==
  /\ M \in [SUBSET X -> Nat]
  /\ \A S, T \in SUBSET X : S \cap T = {} => M[S \cup T] = M[S] + M[T]

UnionOf(P, I) == UNION {P[i] : i \in I}

LEMMA SumOfParts ==
  ASSUME NEW X, NEW M, Additive(M, X),
         NEW I, IsFiniteSet(I), NEW P \in [I -> SUBSET X],
         \A i, j \in I : i # j => P[i] \cap P[j] = {},
         NEW f, \A i \in I : f[i] = M[P[i]]
  PROVE  SumOver(f, I) = M[UnionOf(P, I)]
<1> DEFINE C == {J \in SUBSET I : SumOver(f, J) # M[UnionOf(P, J)]}
<1>1. \A i \in I : f[i] \in Nat
  BY DEF Additive
<1>2. ASSUME C # {}
      PROVE  FALSE
  <2>1. PICK J \in C : \A K \in C : K \subseteq J => K = J
    <3>1. C \subseteq SUBSET I
      OBVIOUS
    <3> HIDE DEF C
    <3> QED
      BY <1>2, <3>1, LeastSet
  <2>2. J # {}
    <3> DEFINE z == M[{}]
    <3>1. z = z + z /\ z \in Nat
      <4>1. M[{} \cup {}] = M[{}] + M[{}] /\ M[{}] \in Nat
        BY DEF Additive
      <4>2. {} \cup {} = {}
        OBVIOUS
      <4> QED
        BY <4>1, <4>2
    <3>2. M[{}] = 0
      <4> HIDE DEF z
      <4>1. z = 0
        BY <3>1
      <4> QED
        BY <4>1 DEF z
    <3>3. UnionOf(P, {}) = {}
      BY DEF UnionOf
    <3> QED
      BY <3>2, <3>3, SumEmpty
  <2> DEFINE i == Picked(J)
             K == J \ {i}
  <2>3. /\ J \in SUBSET I /\ i \in J
        /\ SumOver(f, J) = f[i] + SumOver(f, K)
    BY <1>1, <2>2, SumPicked
  <2>4. K \in SUBSET I /\ K \notin C
    BY <2>1, <2>3
  <2>5. SumOver(f, K) = M[UnionOf(P, K)]
    BY <2>4
  <2> HIDE DEF i, C
  <2>6. /\ UnionOf(P, J) = P[i] \cup UnionOf(P, K)
        /\ P[i] \cap UnionOf(P, K) = {}
        /\ P[i] \in SUBSET X /\ UnionOf(P, K) \in SUBSET X
    BY <2>3 DEF UnionOf
  <2>7. M[UnionOf(P, J)] = M[P[i]] + M[UnionOf(P, K)]
    BY <2>6 DEF Additive
  <2>8. SumOver(f, J) = M[UnionOf(P, J)]
    BY <2>3, <2>5, <2>7
  <2> QED
    BY <2>8 DEF C
<1> QED
  BY <1>2

=============================================================================

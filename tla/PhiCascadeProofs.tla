--------------------------- MODULE PhiCascadeProofs ---------------------------
(***************************************************************************)
(* The parent rule, for every set of codes and candidates and every depth  *)
(* of the walk.  The contexts first: storage that goes from parent to      *)
(* parent never serves what it held for an earlier one.  Then one stratum: *)
(* what the two halves' transforms say of the functionals of D.  Then the  *)
(* test: between two strata it holds the functionals that no other has     *)
(* beaten so far, and its verdict is that of the whole spectra.  Then the  *)
(* hyperplanes of D: the test run from any of them, in that hyperplane's   *)
(* own reduced basis, finds the same functionals least.  Last, the record  *)
(* that the decomposability log gets of a child.                           *)
(***************************************************************************)
EXTENDS PhiCascade, F2Proofs

-----------------------------------------------------------------------------
(* Stacks.                                                                   *)

IsStack(s) == s \in Seq({s[i] : i \in DOMAIN s})

LEMMA PushFacts ==
  ASSUME NEW s, IsStack(s), NEW x
  PROVE  /\ IsStack(Append(s, x)) /\ Len(s) \in Nat /\ DOMAIN s = 1 .. Len(s)
         /\ DOMAIN Append(s, x) = 1 .. Len(s) + 1 /\ Append(s, x)[Len(s) + 1] = x
         /\ \A i \in 1 .. Len(s) : Append(s, x)[i] = s[i]
<1> DEFINE T == {s[i] : i \in DOMAIN s} \cup {x}
           t == Append(s, x)
<1>1. s \in Seq(T)
  <2>1. s \in Seq({s[i] : i \in DOMAIN s})
    BY DEF IsStack
  <2>2. \A S \in SUBSET T : Seq(S) \subseteq Seq(T)
    OBVIOUS
  <2> QED
    BY <2>1, <2>2
<1> HIDE DEF T
<1>2. /\ Len(s) \in Nat /\ DOMAIN s = 1 .. Len(s)
      /\ Len(t) = Len(s) + 1 /\ DOMAIN t = 1 .. Len(s) + 1 /\ t[Len(s) + 1] = x
      /\ \A i \in 1 .. Len(s) : t[i] = s[i]
  BY <1>1 DEF T
<1>3. t \in Seq({t[i] : i \in DOMAIN t})
  <2>1. t \in Seq(T)
    BY <1>1 DEF T
  <2> HIDE DEF t
  <2> QED
    BY <1>2, <2>1
<1> QED
  BY <1>2, <1>3 DEF IsStack

LEMMA PopFacts ==
  ASSUME NEW s, IsStack(s), s # <<>>
  PROVE  /\ IsStack(Front(s)) /\ Len(s) \in Nat /\ Len(s) >= 1 /\ DOMAIN s = 1 .. Len(s)
         /\ DOMAIN Front(s) = 1 .. Len(s) - 1 /\ Len(Front(s)) = Len(s) - 1
         /\ \A i \in 1 .. Len(s) - 1 : Front(s)[i] = s[i]
         /\ Last(s) = s[Len(s)]
<1> DEFINE T == {s[i] : i \in DOMAIN s}
           t == SubSeq(s, 1, Len(s) - 1)
<1>1. s \in Seq(T)
  BY DEF IsStack
<1> HIDE DEF T
<1>2. Len(s) \in Nat /\ Len(s) >= 1 /\ DOMAIN s = 1 .. Len(s)
  BY <1>1
<1>3. /\ t \in Seq(T) /\ Len(t) = Len(s) - 1 /\ DOMAIN t = 1 .. Len(s) - 1
      /\ \A i \in 1 .. Len(s) - 1 : t[i] = s[i]
  BY <1>1, <1>2
<1> HIDE DEF t
<1>4. t \in Seq({t[i] : i \in DOMAIN t})
  BY <1>2, <1>3
<1> QED
  BY <1>2, <1>3, <1>4 DEF IsStack, Front, Last, t

LEMMA EmptyStack == IsStack(<<>>) /\ DOMAIN <<>> = {} /\ \A x : IsStack(<<x>>) /\ DOMAIN <<x>> = {1} /\ <<x>>[1] = x
<1>1. \A S : <<>> \in Seq(S)
  OBVIOUS
<1>2. \A x : <<x>> \in Seq({x}) /\ DOMAIN <<x>> = 1 .. 1 /\ <<x>>[1] = x /\ {<<x>>[i] : i \in 1 .. 1} = {x}
  OBVIOUS
<1>3. 1 .. 1 = {1}
  OBVIOUS
<1> QED
  BY <1>1, <1>2, <1>3 DEF IsStack

(* p is s with x at position i.                                              *)
Holds(T, p, s, i, x) ==
  /\ p \in Seq(T) /\ p[i] = x
  /\ Len(p) \in Nat /\ i <= Len(p) /\ Len(s) <= Len(p)
  /\ \A j \in 1 .. i - 1 : p[j] = s[j]

LEMMA PutFacts ==
  ASSUME NEW T, NEW s \in Seq(T), NEW i \in 1 .. Len(s) + 1, NEW x \in T
  PROVE  Holds(T, Put(s, i, x), s, i, x)
<1> USE DEF Holds
<1>1. CASE i <= Len(s)
  <2> DEFINE t == [s EXCEPT ![i] = x]
  <2>1. DOMAIN s = 1 .. Len(s) /\ Len(s) \in Nat /\ i \in 1 .. Len(s)
    BY <1>1
  <2>2. t \in Seq(T) /\ Len(t) = Len(s) /\ t[i] = x /\ \A j \in 1 .. i - 1 : t[j] = s[j]
    BY <2>1
  <2> QED
    BY <1>1, <2>1, <2>2 DEF Put
<1>2. CASE ~ (i <= Len(s))
  <2>1. Len(s) \in Nat /\ i = Len(s) + 1
    BY <1>2
  <2> QED
    BY <1>2, <2>1 DEF Put
<1> QED
  BY <1>1, <1>2

-----------------------------------------------------------------------------
(* Codes, their words by weight and the transform.                           *)

(* The members of S that u is odd on.                                        *)
OddIn(S, u) == Cardinality({x \in S : Odd(u, x)})

LEMMA CoordsFinite == ASSUME NEW rows \in Codes PROVE Len(rows) \in Nat /\ IsFiniteSet(Coords(rows))
<1>1. Len(rows) \in Nat
  BY PhiAssumption
<1>2. IsFiniteSet(0 .. Len(rows) - 1)
  BY <1>1, FS_Interval
<1> QED
  BY <1>1, <1>2, FS_SUBSET DEF Coords

LEMMA MembersFacts ==
  ASSUME NEW rows \in Codes, NEW w \in 1 .. N
  PROVE  /\ Len(rows) \in Nat /\ N \in Nat
         /\ MembersC[rows][w] \subseteq Coords(rows) /\ IsFiniteSet(MembersC[rows][w])
<1>1. Len(rows) \in Nat /\ N \in Nat
  BY PhiAssumption
<1>2. MembersC[rows][w] = {x \in Coords(rows) : Weight(Combination(rows, x)) = w}
  BY DEF MembersC
<1>3. IsFiniteSet(Coords(rows))
  BY CoordsFinite
<1>4. MembersC[rows][w] \subseteq Coords(rows)
  BY <1>2
<1> QED
  BY <1>1, <1>3, <1>4, FS_Subset

(* The transform is full where a functional vanishes on all members.         *)
LEMMA WalshFull ==
  ASSUME NEW rows \in Codes, NEW S, S \subseteq Coords(rows), IsFiniteSet(S), NEW u \in Coords(rows)
  PROVE  Walsh(S, rows)[u] = Cardinality(S) <=> \A x \in S : ~ Odd(u, x)
<1> DEFINE odd == {x \in S : Odd(u, x)}
<1>1. Walsh(S, rows)[u] = Cardinality(S) - 2 * Cardinality(odd)
  BY DEF Walsh
<1>2. IsFiniteSet(odd) /\ Cardinality(odd) \in Nat /\ Cardinality(S) \in Nat
  <2>1. odd \subseteq S
    OBVIOUS
  <2> QED
    BY <2>1, FS_Subset, FS_CardinalityType
<1>3. Cardinality(odd) = 0 <=> odd = {}
  BY <1>2, FS_EmptySet
<1>4. odd = {} <=> \A x \in S : ~ Odd(u, x)
  OBVIOUS
<1> HIDE DEF odd
<1> QED
  BY <1>1, <1>2, <1>3, <1>4

-----------------------------------------------------------------------------
(* The parent's strata, and how many there are up to a weight.               *)

StrataC(rows) == {w \in 1 .. N : MembersC[rows][w] # {}}

UpTo(rows, w) == {s \in StrataC(rows) : s <= w}

LEMMA UpToFacts ==
  ASSUME NEW rows \in Codes, NEW w \in Nat
  PROVE  /\ IsFiniteSet(UpTo(rows, w)) /\ Cardinality(UpTo(rows, w)) \in Nat
         /\ UpTo(rows, 0) = {} /\ Cardinality(UpTo(rows, 0)) = 0
<1>1. UpTo(rows, w) \subseteq 1 .. N /\ IsFiniteSet(1 .. N)
  BY PhiAssumption, FS_Interval DEF UpTo, StrataC
<1>2. UpTo(rows, 0) = {}
  BY PhiAssumption DEF UpTo, StrataC
<1> QED
  BY <1>1, <1>2, FS_Subset, FS_CardinalityType, FS_EmptySet

(* Two strata with as many before them are one.                              *)
LEMMA SameCount ==
  ASSUME NEW rows \in Codes, NEW v \in StrataC(rows), NEW w \in StrataC(rows),
         Cardinality(UpTo(rows, v)) = Cardinality(UpTo(rows, w))
  PROVE  v = w
<1>1. StrataC(rows) \subseteq Nat
  BY PhiAssumption DEF StrataC
<1>2. ASSUME NEW a \in StrataC(rows), NEW b \in StrataC(rows), a < b
      PROVE  Cardinality(UpTo(rows, a)) # Cardinality(UpTo(rows, b))
  <2>1. UpTo(rows, a) \subseteq UpTo(rows, b) /\ UpTo(rows, a) # UpTo(rows, b)
    <3>1. b \in UpTo(rows, b) /\ b \notin UpTo(rows, a)
      BY <1>1, <1>2 DEF UpTo
    <3>2. UpTo(rows, a) \subseteq UpTo(rows, b)
      BY <1>1, <1>2 DEF UpTo
    <3> QED
      BY <3>1, <3>2
  <2>2. IsFiniteSet(UpTo(rows, b)) /\ Cardinality(UpTo(rows, b)) \in Nat /\ Cardinality(UpTo(rows, a)) \in Nat
    BY <1>1, UpToFacts
  <2>3. Cardinality(UpTo(rows, a)) < Cardinality(UpTo(rows, b))
    BY <2>1, <2>2, FS_Subset
  <2> QED
    BY <2>2, <2>3
<1>3. v \in Nat /\ w \in Nat
  BY <1>1
<1>4. ~ (v < w) /\ ~ (w < v)
  BY <1>2
<1> QED
  BY <1>3, <1>4

(* The next stratum of a test, when it holds words of C, is the parent's next.*)
LEMMA NextStratum ==
  ASSUME NEW rows \in Codes, NEW v \in Candidates[rows], NEW a \in Nat, NEW w \in Strata[rows][v],
         w > a, \A s \in Strata[rows][v] : s > a => w <= s, MembersC[rows][w] # {}
  PROVE  w \in StrataC(rows) /\ Cardinality(UpTo(rows, w)) = Cardinality(UpTo(rows, a)) + 1
<1>1. Strata[rows][v] = {s \in 1 .. N : MembersC[rows][s] # {} \/ MembersV[rows][v][s] # {}}
  BY DEF Strata
<1>2. w \in StrataC(rows) /\ StrataC(rows) \subseteq Strata[rows][v] /\ StrataC(rows) \subseteq Nat
  BY <1>1, PhiAssumption DEF StrataC
<1>3. UpTo(rows, w) = UpTo(rows, a) \cup {w} /\ w \notin UpTo(rows, a)
  <2>1. \A s \in StrataC(rows) : s <= w <=> s <= a \/ s = w
    BY <1>2
  <2>2. w \notin UpTo(rows, a)
    BY <1>2 DEF UpTo
  <2> QED
    BY <1>2, <2>1, <2>2 DEF UpTo
<1>4. IsFiniteSet(UpTo(rows, a))
  BY UpToFacts
<1> QED
  BY <1>2, <1>3, <1>4, FS_AddElement

-----------------------------------------------------------------------------
(* The words of D = <C, v>: those of C and those of v + C.                   *)

LEMMA OddBits ==
  ASSUME NEW k \in Nat, NEW u \in SUBSET (0 .. k), NEW x \in SUBSET (0 .. k - 1)
  PROVE  /\ Odd(u, x) <=> Odd(u \ {k}, x)
         /\ k \in u => (Odd(u, x \cup {k}) <=> ~ Odd(u \ {k}, x))
         /\ k \notin u => (Odd(u, x \cup {k}) <=> Odd(u \ {k}, x))
<1> DEFINE both == (u \ {k}) \cap x
<1>1. k \notin x
  OBVIOUS
<1>2. u \cap x = both /\ k \notin both
  BY <1>1
<1>3. IsFiniteSet(both) /\ IsFiniteSet({k})
  <2>1. IsFiniteSet(0 .. k - 1) /\ both \subseteq 0 .. k - 1
    BY FS_Interval
  <2> HIDE DEF both
  <2>2. IsFiniteSet(both)
    BY <2>1, FS_Subset
  <2> QED
    BY <2>2, FS_Singleton
<1>4. k \in u => u \cap (x \cup {k}) = both \cup {k}
  OBVIOUS
<1>5. k \notin u => u \cap (x \cup {k}) = both
  OBVIOUS
<1> HIDE DEF both
<1>6. both \cap {k} = {}
  BY <1>2
<1>7. OddSized(both \cup {k}) <=> ~ OddSized(both)
  BY <1>3, <1>6, OddUnion, OddSmall
<1> QED
  BY <1>2, <1>4, <1>5, <1>7 DEF Odd, OddSized, both

LEMMA WordsOfD ==
  ASSUME NEW rows \in Codes, NEW v, NEW x \in Coords(rows)
  PROVE  /\ Combination(Append(rows, v), x) = Combination(rows, x)
         /\ Combination(Append(rows, v), x \cup {Len(rows)}) = Xor(Combination(rows, x), v)
<1> DEFINE k == Len(rows)
           D == Append(rows, v)
<1>1. rows \in Seq(SUBSET (0 .. N - 1)) /\ k \in Nat
  BY PhiAssumption
<1>2. (\A i \in 0 .. k - 1 : D[i + 1] = rows[i + 1]) /\ D[k + 1] = v
  <2>1. IsStack(rows)
    BY <1>1 DEF IsStack
  <2>2. \A i \in 1 .. k : D[i] = rows[i]
    BY <2>1, PushFacts
  <2>3. D[k + 1] = v
    BY <2>1, PushFacts
  <2>4. \A i \in 0 .. k - 1 : i + 1 \in 1 .. k
    BY <1>1
  <2> QED
    BY <2>2, <2>3, <2>4
<1>3. x \in SUBSET (0 .. k - 1)
  BY DEF Coords
<1> HIDE DEF D, k
<1>4. Combination(D, x) = Combination(rows, x)
  <2>1. \A e : With(D, x, e) = With(rows, x, e)
    BY <1>2, <1>3 DEF With
  <2>2. \A e : e \in Combination(D, x) <=> e \in Combination(rows, x)
    BY <2>1, CombinationBits
  <2> QED
    BY <2>2
<1>5. x \cap {k} = {}
  BY <1>1, <1>3
<1>6. IsFiniteSet(x) /\ IsFiniteSet({k})
  <2>1. IsFiniteSet(0 .. k - 1) /\ x \subseteq 0 .. k - 1
    BY <1>1, <1>3, FS_Interval
  <2>2. IsFiniteSet(x)
    BY <2>1, FS_Subset
  <2> QED
    BY <2>2, FS_Singleton
<1>7. Combination(D, x \cup {k}) = Xor(Combination(D, x), Combination(D, {k}))
  BY <1>5, <1>6, CombinationUnion
<1>8. Combination(D, {k}) = v
  BY <1>2, CombinationSmall
<1> QED
  BY <1>4, <1>7, <1>8 DEF D, k

LEMMA MembersVFacts ==
  ASSUME NEW rows \in Codes, NEW v \in Candidates[rows], NEW w \in 1 .. N
  PROVE  /\ MembersV[rows][v][w] = {x \in Coords(rows) : Weight(Xor(Combination(rows, x), v)) = w}
         /\ MembersC[rows][w] = {x \in Coords(rows) : Weight(Combination(rows, x)) = w}
         /\ MembersV[rows][v][w] \subseteq Coords(rows) /\ MembersC[rows][w] \subseteq Coords(rows)
<1>1. MembersV[rows][v][w] = {x \in Coords(rows) : Weight(Xor(Combination(rows, x), v)) = w}
  BY DEF MembersV
<1>2. MembersC[rows][w] = {x \in Coords(rows) : Weight(Combination(rows, x)) = w}
  BY DEF MembersC
<1> QED
  BY <1>1, <1>2

(* phi(u) at weight w, from the words of C and those of v + C.               *)
LEMMA PhiSplit ==
  ASSUME NEW rows \in Codes, NEW v \in Candidates[rows], NEW w \in 1 .. N,
         NEW u \in SUBSET (0 .. Len(rows))
  PROVE  LET k == Len(rows)
             bare == u \ {k}
             S == MembersC[rows][w]
             T == MembersV[rows][v][w]
         IN /\ Phi(rows, v, u, w) \in Nat
            /\ Phi(rows, v, u, w) =
                 OddIn(S, bare) + (IF k \in u THEN Cardinality(T) - OddIn(T, bare) ELSE OddIn(T, bare))
<1> DEFINE k == Len(rows)
           D == Append(rows, v)
           bare == u \ {k}
           S == MembersC[rows][w]
           T == MembersV[rows][v][w]
           All == {x \in SUBSET (0 .. k) : Weight(Combination(D, x)) = w /\ Odd(u, x)}
           A == {x \in S : Odd(bare, x)}
           Bare == {x \in T : IF k \in u THEN ~ Odd(bare, x) ELSE Odd(bare, x)}
           B == {x \cup {k} : x \in Bare}
<1>1. k \in Nat /\ IsFiniteSet(Coords(rows)) /\ Coords(rows) = SUBSET (0 .. k - 1)
  BY CoordsFinite DEF Coords
<1>2. /\ \A x \in Coords(rows) : x \in S <=> Weight(Combination(rows, x)) = w
      /\ \A x \in Coords(rows) : x \in T <=> Weight(Xor(Combination(rows, x), v)) = w
      /\ S \subseteq Coords(rows) /\ T \subseteq Coords(rows)
  BY MembersVFacts
<1>3. /\ \A x \in Coords(rows) : Combination(D, x) = Combination(rows, x)
      /\ \A x \in Coords(rows) : Combination(D, x \cup {k}) = Xor(Combination(rows, x), v)
  BY WordsOfD
<1>4. \A x \in Coords(rows) :
        /\ Odd(u, x) <=> Odd(bare, x)
        /\ k \in u => (Odd(u, x \cup {k}) <=> ~ Odd(bare, x))
        /\ k \notin u => (Odd(u, x \cup {k}) <=> Odd(bare, x))
  BY <1>1, OddBits
<1> HIDE DEF S, T, D, bare
<1>5. All = A \cup B
  <2>1. \A x \in SUBSET (0 .. k) : k \notin x => x \in Coords(rows)
    BY <1>1
  <2>2. \A x \in SUBSET (0 .. k) : k \in x => x \ {k} \in Coords(rows) /\ x = (x \ {k}) \cup {k}
    <3> SUFFICES ASSUME NEW x \in SUBSET (0 .. k), k \in x
                 PROVE  x \ {k} \in Coords(rows) /\ x = (x \ {k}) \cup {k}
      OBVIOUS
    <3>1. x \ {k} \subseteq 0 .. k - 1
      <4>1. \A i \in 0 .. k : i # k => i \in 0 .. k - 1
        BY <1>1
      <4> HIDE DEF k
      <4> QED
        BY <4>1
    <3>2. x = (x \ {k}) \cup {k}
      OBVIOUS
    <3> QED
      BY <1>1, <3>1, <3>2
  <2>3. \A x \in Coords(rows) : x \in SUBSET (0 .. k) /\ x \cup {k} \in SUBSET (0 .. k) /\ k \notin x
    BY <1>1
  <2> HIDE DEF k
  <2>4. \A x \in Coords(rows) : x \in All <=> x \in A
    BY <1>2, <1>3, <1>4, <2>3
  <2>5. \A x \in Coords(rows) : x \cup {k} \in All <=> x \in Bare
    BY <1>2, <1>3, <1>4, <2>3
  <2>6. A \subseteq Coords(rows) /\ Bare \subseteq Coords(rows)
    BY <1>2
  <2> HIDE DEF A, Bare
  <2>7. All \subseteq A \cup B
    <3> SUFFICES ASSUME NEW x \in All PROVE x \in A \cup B
      OBVIOUS
    <3>1. x \in SUBSET (0 .. k)
      OBVIOUS
    <3> HIDE DEF All
    <3>2. CASE k \notin x
      BY <2>1, <2>4, <3>1, <3>2
    <3>3. CASE k \in x
      <4>1. x \ {k} \in Coords(rows) /\ x = (x \ {k}) \cup {k}
        BY <2>2, <3>1, <3>3
      <4>2. x \ {k} \in Bare
        BY <2>5, <4>1
      <4> QED
        BY <4>1, <4>2
    <3> QED
      BY <3>2, <3>3
  <2>8. A \cup B \subseteq All
    <3> HIDE DEF All
    <3> QED
      BY <2>4, <2>5, <2>6
  <2> QED
    BY <2>7, <2>8
<1>6. A \subseteq Coords(rows) /\ Bare \subseteq Coords(rows) /\ A \subseteq S /\ Bare \subseteq T
  BY <1>2
<1>7. IsFiniteSet(A) /\ IsFiniteSet(Bare) /\ IsFiniteSet(T)
  BY <1>1, <1>2, <1>6, FS_Subset
<1>8. IsFiniteSet(B) /\ Cardinality(B) = Cardinality(Bare)
  <2> DEFINE f == [x \in Bare |-> x \cup {k}]
  <2>1. f \in [Bare -> B] /\ \A y \in B : \E x \in Bare : f[x] = y
    OBVIOUS
  <2>2. ASSUME NEW x \in Bare, NEW y \in Bare, f[x] = f[y]
        PROVE  x = y
    <3>1. \A z \in Coords(rows) : k \notin z
      BY <1>1
    <3>2. x \cup {k} = y \cup {k}
      BY <2>2
    <3>3. k \notin x /\ k \notin y
      BY <1>6, <3>1
    <3> HIDE DEF k
    <3>4. \A i : i \in x <=> i \in y
      <4>1. \A i : i \in x \cup {k} <=> i \in y \cup {k}
        BY <3>2
      <4> QED
        BY <3>3, <4>1
    <3> QED
      BY <3>4
  <2>3. DOMAIN f = Bare
    OBVIOUS
  <2> HIDE DEF f, Bare, B
  <2>4. ExistsBijection(Bare, B)
    BY <2>1, <2>2, <2>3 DEF ExistsBijection, Bijection, Injection, Surjection, IsInjective
  <2> QED
    BY <1>7, <2>4, FS_Bijection
<1>9. A \cap B = {}
  <2>1. \A x \in A : k \notin x
    BY <1>1, <1>6
  <2>2. \A x \in B : k \in x
    OBVIOUS
  <2> HIDE DEF A, B
  <2> QED
    BY <2>1, <2>2
<1>10. Cardinality(All) = Cardinality(A) + Cardinality(Bare) /\ Cardinality(A) \in Nat /\ Cardinality(Bare) \in Nat
  <2> HIDE DEF All, A, B, Bare
  <2>1. Cardinality(A) \in Nat /\ Cardinality(Bare) \in Nat /\ Cardinality(A \cap B) = 0
    BY <1>7, <1>9, FS_CardinalityType, FS_EmptySet
  <2>2. Cardinality(A \cup B) = Cardinality(A) + Cardinality(B) - Cardinality(A \cap B)
    BY <1>7, <1>8, FS_Union
  <2> QED
    BY <1>5, <1>8, <2>1, <2>2
<1>11. Cardinality(Bare) = IF k \in u THEN Cardinality(T) - OddIn(T, bare) ELSE OddIn(T, bare)
  <2> DEFINE odd == {x \in T : Odd(bare, x)}
  <2>1. CASE k \in u
    <3>1. Bare = T \ odd /\ odd \subseteq T
      BY <2>1
    <3> HIDE DEF odd, Bare
    <3>2. T \cap odd = odd
      BY <3>1
    <3>3. Cardinality(T \ odd) = Cardinality(T) - Cardinality(odd)
      BY <1>7, <3>1, <3>2, FS_Difference
    <3> QED
      BY <2>1, <3>1, <3>3 DEF odd, OddIn
  <2>2. CASE k \notin u
    BY <2>2 DEF OddIn
  <2> QED
    BY <2>1, <2>2
<1>12. Phi(rows, v, u, w) = Cardinality(All) /\ OddIn(S, bare) = Cardinality(A)
  BY DEF Phi, OddIn, D
<1> HIDE DEF All, A, Bare, B
<1>13. Phi(rows, v, u, w) \in Nat
  BY <1>10, <1>12
<1> QED
  BY <1>10, <1>11, <1>12, <1>13 DEF S, T, bare

-----------------------------------------------------------------------------
(* Contexts: what all storage has, whoever it belonged to, and what a parent *)
(* can rely on.                                                              *)

Storage(ctx) ==
  /\ DOMAIN ctx = {"rows", "fhat", "built", "chainE", "chainBound", "chainW", "chainLen"}
  /\ ctx.chainE \in Seq(SUBSET (SUBSET Nat)) /\ ctx.chainW \in Seq(1 .. N)
  /\ ctx.chainBound \in Seq(Int)
  /\ ctx.chainLen \in Nat /\ ctx.chainLen <= Len(ctx.chainE) /\ ctx.chainLen <= Len(ctx.chainW)
  /\ ctx.chainLen <= Len(ctx.chainBound)

(* The most that a functional of E makes of the members of weight w.         *)
Best(rows, w, E) == Max({Walsh(MembersC[rows][w], rows)[u] : u \in E})

(* The functionals that all members of the first j strata vanish under.      *)
Vanishing(rows, ctx, j) ==
  {u \in Coords(rows) \ {Zero} : \A h \in 1 .. j : \A x \in MembersC[rows][ctx.chainW[h]] : ~ Odd(u, x)}

Entry(rows, ctx, j) ==
  /\ ctx.chainW[j] \in StrataC(rows)
  /\ Cardinality(UpTo(rows, ctx.chainW[j])) = j
  /\ ctx.chainE[j] = Vanishing(rows, ctx, j)
  /\ j > 1 => /\ ctx.chainE[j - 1] # {}
              /\ ctx.chainBound[j] = Best(rows, ctx.chainW[j], ctx.chainE[j - 1])

Owned(rows, ctx) ==
  /\ Storage(ctx)
  /\ ctx.rows = rows
  /\ ctx.built \subseteq 1 .. N /\ ctx.built \subseteq DOMAIN ctx.fhat
  /\ \A w \in ctx.built : ctx.fhat[w] = Walsh(MembersC[rows][w], rows)
  /\ \A j \in 1 .. ctx.chainLen : Entry(rows, ctx, j)

(* The transform counts: all members, less two for each odd one.             *)
LEMMA WalshValue ==
  ASSUME NEW rows \in Codes, NEW S, S \subseteq Coords(rows), NEW u \in Coords(rows)
  PROVE  /\ Cardinality(S) \in Nat /\ OddIn(S, u) \in Nat /\ OddIn(S, u) <= Cardinality(S)
         /\ Walsh(S, rows)[u] = Cardinality(S) - 2 * OddIn(S, u)
<1>1. IsFiniteSet(S)
  BY CoordsFinite, FS_Subset
<1>2. {x \in S : Odd(u, x)} \subseteq S
  OBVIOUS
<1> QED
  BY <1>1, <1>2, FS_Subset, FS_CardinalityType DEF Walsh, OddIn

LEMMA MaxIs ==
  ASSUME NEW T, T \subseteq Int, NEW t \in T, \A y \in T : t >= y
  PROVE  Max(T) = t
<1>1. \E x \in T : \A y \in T : x >= y
  OBVIOUS
<1>2. Max(T) \in T /\ \A y \in T : Max(T) >= y
  BY <1>1 DEF Max
<1>3. Max(T) \in Int /\ t \in Int /\ t >= Max(T) /\ Max(T) >= t
  BY <1>2
<1> QED
  BY <1>3

(* Among some functionals there is one with the fewest odd members.          *)
LEMMA FewestOdd ==
  ASSUME NEW E, E # {}, NEW f, \A u \in E : f[u] \in Nat
  PROVE  \E u \in E : \A o \in E : f[u] <= f[o]
<1> DEFINE S == {f[u] : u \in E}
<1>1. S \subseteq Nat /\ S # {}
  OBVIOUS
<1> HIDE DEF S
<1>2. PICK n \in S : \A k \in S : n <= k
  BY <1>1, LeastNumber
<1> QED
  BY <1>2 DEF S

LEMMA BestFacts ==
  ASSUME NEW rows \in Codes, NEW w \in 1 .. N, NEW E, E \subseteq Coords(rows), E # {}
  PROVE  /\ Best(rows, w, E) \in Int
         /\ \E u \in E : Best(rows, w, E) = Walsh(MembersC[rows][w], rows)[u]
<1> DEFINE S == MembersC[rows][w]
           c == Cardinality(S)
           f == [u \in E |-> OddIn(S, u)]
           T == {Walsh(S, rows)[u] : u \in E}
<1>1. S \subseteq Coords(rows)
  BY MembersFacts
<1> HIDE DEF S
<1>2. \A u \in E : /\ c \in Nat /\ f[u] \in Nat
                   /\ Walsh(S, rows)[u] = c - 2 * f[u]
  BY <1>1, WalshValue
<1> HIDE DEF c, f
<1>3. PICK u \in E : \A o \in E : f[u] <= f[o]
  BY <1>2, FewestOdd
<1>4. \A o \in E : Walsh(S, rows)[o] \in Int /\ Walsh(S, rows)[u] >= Walsh(S, rows)[o]
  BY <1>2, <1>3
<1>5. T \subseteq Int /\ Walsh(S, rows)[u] \in T /\ \A y \in T : Walsh(S, rows)[u] >= y
  BY <1>3, <1>4
<1> HIDE DEF T
<1>6. Max(T) = Walsh(S, rows)[u]
  BY <1>5, MaxIs
<1> QED
  BY <1>4, <1>6 DEF Best, S, T

(* Whatever the storage holds, the new parent starts with nothing built.     *)
LEMMA BuildFacts ==
  ASSUME NEW ctx, Storage(ctx), NEW rows
  PROVE  Owned(rows, Build(ctx, rows)) /\ Build(ctx, rows).chainLen = 0
<1> DEFINE b == Build(ctx, rows)
<1>1. /\ DOMAIN b = DOMAIN ctx /\ b.rows = rows /\ b.built = {} /\ b.chainLen = 0
      /\ b.chainE = ctx.chainE /\ b.chainW = ctx.chainW /\ b.chainBound = ctx.chainBound
  BY DEF Build, Storage
<1> HIDE DEF b
<1>2. Storage(b)
  BY <1>1 DEF Storage
<1>3. 1 .. 0 = {}
  OBVIOUS
<1> QED
  BY <1>1, <1>2, <1>3 DEF Owned, b

LEMMA FreshFacts == Storage(FreshCtx)
<1>1. \A T : <<>> \in Seq(T) /\ Len(<<>>) = 0
  OBVIOUS
<1> QED
  BY <1>1 DEF Storage, FreshCtx

(* A transform is computed from the parent's words when it is first needed.  *)
LEMMA FHatFacts ==
  ASSUME NEW rows \in Codes, NEW ctx, Owned(rows, ctx), NEW w \in 1 .. N
  PROVE  /\ Owned(rows, EnsureFHat(ctx, w)) /\ w \in EnsureFHat(ctx, w).built
         /\ EnsureFHat(ctx, w).chainLen = ctx.chainLen
         /\ EnsureFHat(ctx, w).chainE = ctx.chainE /\ EnsureFHat(ctx, w).chainW = ctx.chainW
         /\ EnsureFHat(ctx, w).chainBound = ctx.chainBound
<1> DEFINE b == EnsureFHat(ctx, w)
           new == Walsh(MembersC[rows][w], rows)
<1>1. CASE w \in ctx.built
  BY <1>1 DEF EnsureFHat
<1>2. CASE w \notin ctx.built
  <2>1. ctx.rows = rows
    BY DEF Owned
  <2>2. /\ DOMAIN b = DOMAIN ctx /\ b.rows = rows /\ b.built = ctx.built \cup {w}
        /\ b.fhat = [s \in {w} \cup DOMAIN ctx.fhat |-> IF s = w THEN new ELSE ctx.fhat[s]]
        /\ b.chainLen = ctx.chainLen /\ b.chainE = ctx.chainE /\ b.chainW = ctx.chainW
        /\ b.chainBound = ctx.chainBound
    BY <1>2, <2>1 DEF EnsureFHat, Owned, Storage
  <2> HIDE DEF b
  <2>3. /\ DOMAIN b.fhat = {w} \cup DOMAIN ctx.fhat /\ b.fhat[w] = new
        /\ \A s \in DOMAIN ctx.fhat : s # w => b.fhat[s] = ctx.fhat[s]
    <3> HIDE DEF new
    <3> QED
      BY <2>2
  <2>4. Storage(b)
    BY <2>2 DEF Owned, Storage
  <2>5. \A s \in b.built : b.fhat[s] = Walsh(MembersC[rows][s], rows)
    BY <2>2, <2>3 DEF Owned
  <2>6. \A j \in 1 .. b.chainLen : Entry(rows, b, j)
    BY <2>2 DEF Owned, Entry, Vanishing
  <2>7. b.built \subseteq 1 .. N /\ b.built \subseteq DOMAIN b.fhat
    BY <2>2, <2>3 DEF Owned
  <2>8. Owned(rows, b)
    BY <2>2, <2>4, <2>5, <2>6, <2>7 DEF Owned
  <2> QED
    BY <2>2, <2>8 DEF b
<1> QED
  BY <1>1, <1>2

(* The argmax set of a stratum that has been built.                          *)
LEMMA ESetFacts ==
  ASSUME NEW rows \in Codes, NEW ctx, Owned(rows, ctx), NEW w \in ctx.built
  PROVE  \A u \in Coords(rows) :
           ctx.fhat[w][u] = Cardinality(MembersC[rows][w]) <=> \A x \in MembersC[rows][w] : ~ Odd(u, x)
<1>1. w \in 1 .. N /\ ctx.fhat[w] = Walsh(MembersC[rows][w], rows)
  BY DEF Owned
<1> QED
  BY <1>1, MembersFacts, WalshFull

(* An entry is the one before it, thinned out by its own stratum; an entry   *)
(* that is there already, from a sibling, was made at the same stratum.      *)
LEMMA ChainFacts ==
  ASSUME NEW rows \in Codes, NEW ctx, Owned(rows, ctx), NEW i \in 1 .. ctx.chainLen + 1,
         NEW w \in StrataC(rows), Cardinality(UpTo(rows, w)) = i,
         i > 1 => ctx.chainE[i - 1] # {}
  PROVE  /\ Owned(rows, EnsureChain(ctx, i, w))
         /\ i <= EnsureChain(ctx, i, w).chainLen /\ EnsureChain(ctx, i, w).chainW[i] = w
         /\ \A j \in 1 .. i - 1 : EnsureChain(ctx, i, w).chainE[j] = ctx.chainE[j]
<1> DEFINE a == EnsureFHat(ctx, w)
           b == EnsureChain(ctx, i, w)
           tc == Cardinality(MembersC[rows][w])
           e == IF i = 1 THEN ESet(a, w) ELSE {u \in a.chainE[i - 1] : a.fhat[w][u] = tc}
           most == IF i = 1 THEN Lowest ELSE Max({a.fhat[w][u] : u \in a.chainE[i - 1]})
<1>1. /\ ctx.rows = rows /\ ctx.chainLen \in Nat /\ i \in Nat /\ i >= 1 /\ i <= ctx.chainLen + 1
      /\ w \in 1 .. N
  BY DEF Owned, Storage, StrataC
<1>2. CASE i <= ctx.chainLen
  <2>1. Entry(rows, ctx, i)
    BY <1>1, <1>2 DEF Owned
  <2>2. ctx.chainW[i] = w
    BY <2>1, SameCount DEF Entry
  <2>3. b = ctx
    BY <1>2 DEF EnsureChain
  <2> QED
    BY <1>2, <2>2, <2>3
<1>3. CASE ~ (i <= ctx.chainLen)
  <2>1. i = ctx.chainLen + 1
    BY <1>1, <1>3
  <2>2. /\ Owned(rows, a) /\ w \in a.built
        /\ a.chainLen = ctx.chainLen /\ a.chainE = ctx.chainE /\ a.chainW = ctx.chainW
        /\ a.chainBound = ctx.chainBound
    BY <1>1, FHatFacts
  <2>3. Storage(a) /\ a.rows = rows
    BY <2>2 DEF Owned
  <2>4. /\ DOMAIN b = DOMAIN a /\ b.rows = rows /\ b.fhat = a.fhat /\ b.built = a.built
        /\ b.chainE = Put(a.chainE, i, e) /\ b.chainW = Put(a.chainW, i, w) /\ b.chainLen = i
        /\ b.chainBound = Put(a.chainBound, i, most)
    BY <1>1, <1>3, <2>3 DEF EnsureChain, Storage
  <2> HIDE DEF a, b
  <2>5. e \in SUBSET (SUBSET Nat)
    <3>1. Coords(rows) \subseteq SUBSET Nat
      BY MembersFacts, <1>1 DEF Coords
    <3>2. ESet(a, w) \subseteq Coords(rows)
      BY <2>3 DEF ESet
    <3>3. i # 1 => a.chainE[i - 1] \in SUBSET (SUBSET Nat)
      BY <1>1, <2>1, <2>2, <2>3 DEF Storage
    <3> QED
      BY <3>1, <3>2, <3>3
  <2>6. /\ a.chainE \in Seq(SUBSET (SUBSET Nat)) /\ a.chainW \in Seq(1 .. N)
        /\ a.chainBound \in Seq(Int)
        /\ i \in 1 .. Len(a.chainE) + 1 /\ i \in 1 .. Len(a.chainW) + 1
        /\ i \in 1 .. Len(a.chainBound) + 1
    BY <1>1, <2>1, <2>2, <2>3 DEF Storage
  <2>16. /\ most \in Int
         /\ i > 1 => a.chainE[i - 1] # {} /\ most = Best(rows, w, a.chainE[i - 1])
    <3>1. CASE i = 1
      <4>1. Lowest \in Int
        BY PhiAssumption, PowerOfTwo DEF Lowest
      <4> QED
        BY <3>1, <4>1
    <3>2. CASE i # 1
      <4>1. i - 1 \in 1 .. a.chainLen /\ i > 1
        BY <1>1, <2>1, <2>2, <3>2
      <4>2. a.chainE[i - 1] \subseteq Coords(rows) /\ a.chainE[i - 1] # {}
        BY <2>2, <4>1 DEF Owned, Entry, Vanishing
      <4>3. a.fhat[w] = Walsh(MembersC[rows][w], rows)
        BY <2>2 DEF Owned
      <4>4. most = Best(rows, w, a.chainE[i - 1])
        BY <3>2, <4>3 DEF Best
      <4> HIDE DEF most
      <4>5. most \in Int
        BY <1>1, <4>2, <4>4, BestFacts
      <4> QED
        BY <4>1, <4>2, <4>4, <4>5
    <3> QED
      BY <3>1, <3>2
  <2> HIDE DEF e, most
  <2>7. /\ b.chainE \in Seq(SUBSET (SUBSET Nat)) /\ b.chainE[i] = e /\ i <= Len(b.chainE)
        /\ \A j \in 1 .. i - 1 : b.chainE[j] = a.chainE[j]
    <3> DEFINE T == SUBSET (SUBSET Nat)
    <3>1. a.chainE \in Seq(T) /\ i \in 1 .. Len(a.chainE) + 1 /\ e \in T
      BY <2>5, <2>6
    <3> HIDE DEF T
    <3>2. Holds(T, Put(a.chainE, i, e), a.chainE, i, e)
      BY <3>1, PutFacts
    <3> QED
      BY <2>4, <3>2 DEF Holds, T
  <2>8. /\ b.chainW \in Seq(1 .. N) /\ b.chainW[i] = w /\ i <= Len(b.chainW)
        /\ \A j \in 1 .. i - 1 : b.chainW[j] = a.chainW[j]
    <3> DEFINE T == 1 .. N
    <3>1. a.chainW \in Seq(T) /\ i \in 1 .. Len(a.chainW) + 1 /\ w \in T
      BY <1>1, <2>6
    <3> HIDE DEF T
    <3>2. Holds(T, Put(a.chainW, i, w), a.chainW, i, w)
      BY <3>1, PutFacts
    <3> QED
      BY <2>4, <3>2 DEF Holds, T
  <2>17. /\ b.chainBound \in Seq(Int) /\ b.chainBound[i] = most /\ i <= Len(b.chainBound)
         /\ \A j \in 1 .. i - 1 : b.chainBound[j] = a.chainBound[j]
    <3>1. a.chainBound \in Seq(Int) /\ i \in 1 .. Len(a.chainBound) + 1 /\ most \in Int
      BY <2>6, <2>16
    <3>2. Holds(Int, Put(a.chainBound, i, most), a.chainBound, i, most)
      BY <3>1, PutFacts
    <3> QED
      BY <2>4, <3>2 DEF Holds
  <2>9. Storage(b)
    BY <1>1, <2>3, <2>4, <2>7, <2>8, <2>17 DEF Storage
  <2>10. \A j \in 1 .. i - 1 : Entry(rows, a, j) /\ Entry(rows, b, j)
    <3> SUFFICES ASSUME NEW j \in 1 .. i - 1
                 PROVE  Entry(rows, a, j) /\ Entry(rows, b, j)
      OBVIOUS
    <3>1. Entry(rows, a, j)
      BY <1>1, <2>1, <2>2 DEF Owned
    <3>2. \A h \in 1 .. j : h \in 1 .. i - 1
      BY <1>1
    <3>3. Vanishing(rows, b, j) = Vanishing(rows, a, j)
      BY <2>8, <3>2 DEF Vanishing
    <3>4. b.chainE[j] = a.chainE[j] /\ b.chainW[j] = a.chainW[j] /\ b.chainBound[j] = a.chainBound[j]
      BY <2>7, <2>8, <2>17
    <3>5. j > 1 => b.chainE[j - 1] = a.chainE[j - 1]
      <4>1. j > 1 => j - 1 \in 1 .. i - 1
        BY <1>1
      <4> QED
        BY <2>7, <4>1
    <3> QED
      BY <3>1, <3>3, <3>4, <3>5 DEF Entry
  <2>11. \A u \in Coords(rows) : a.fhat[w][u] = tc <=> \A x \in MembersC[rows][w] : ~ Odd(u, x)
    BY <2>2, ESetFacts
  <2>12. e = Vanishing(rows, b, i)
    <3>1. CASE i = 1
      <4>1. e = {u \in Coords(rows) \ {Zero} : a.fhat[w][u] = tc}
        BY <2>3, <3>1 DEF e, ESet
      <4>2. \A u : (\A h \in 1 .. i : \A x \in MembersC[rows][b.chainW[h]] : ~ Odd(u, x))
                     <=> \A x \in MembersC[rows][w] : ~ Odd(u, x)
        BY <2>8, <3>1
      <4> QED
        BY <2>11, <4>1, <4>2 DEF Vanishing
    <3>2. CASE i # 1
      <4>1. i - 1 \in 1 .. i - 1 /\ \A h : h \in 1 .. i <=> h \in 1 .. i - 1 \/ h = i
        BY <1>1, <3>2
      <4>2. a.chainE[i - 1] = Vanishing(rows, b, i - 1)
        BY <2>7, <2>10, <4>1 DEF Entry
      <4>3. e = {u \in Vanishing(rows, b, i - 1) : a.fhat[w][u] = tc}
        BY <3>2, <4>2 DEF e
      <4>4. \A u : (\A h \in 1 .. i : \A x \in MembersC[rows][b.chainW[h]] : ~ Odd(u, x))
                     <=> /\ \A h \in 1 .. i - 1 : \A x \in MembersC[rows][b.chainW[h]] : ~ Odd(u, x)
                         /\ \A x \in MembersC[rows][w] : ~ Odd(u, x)
        BY <2>8, <4>1
      <4> QED
        BY <2>11, <4>3, <4>4 DEF Vanishing
    <3> QED
      BY <3>1, <3>2
  <2>13. Entry(rows, b, i)
    <3>1. i > 1 => b.chainE[i - 1] = a.chainE[i - 1]
      BY <1>1, <2>7
    <3> QED
      BY <2>7, <2>8, <2>12, <2>16, <2>17, <3>1 DEF Entry
  <2>14. \A j \in 1 .. b.chainLen : Entry(rows, b, j)
    <3>1. \A j \in 1 .. i : j \in 1 .. i - 1 \/ j = i
      BY <1>1
    <3> QED
      BY <2>4, <2>10, <2>13, <3>1
  <2>15. Owned(rows, b)
    BY <2>2, <2>4, <2>9, <2>14 DEF Owned
  <2> QED
    BY <1>1, <2>2, <2>4, <2>7, <2>8, <2>15 DEF b
<1> QED
  BY <1>2, <1>3

-----------------------------------------------------------------------------
(* The invariant: every context on the stack is its frame's own; those in    *)
(* the pool are storage only.  While the parent's chain stands for the       *)
(* argmin set, its entry was made at the stratum looked at last.             *)

Framed(f) ==
  /\ f = [rows |-> f.rows, ctx |-> f.ctx]
  /\ f.rows \in Codes
  /\ f.ctx = NoCtx \/ Owned(f.rows, f.ctx)

Stacked ==
  /\ IsStack(frames) /\ IsStack(pool)
  /\ \A i \in DOMAIN frames : Framed(frames[i])
  /\ \A i \in DOMAIN pool : Storage(pool[i])

Underway ==
  /\ frames # <<>> /\ cand \in Candidates[Rows] /\ Owned(Rows, Ctx)
  /\ at \in Nat /\ chain \in Nat
  /\ chain > 0 => chain <= Ctx.chainLen /\ at = Ctx.chainW[chain] /\ Ctx.chainE[chain] # {}

CascadeInv == Stacked /\ (~ Idle => Underway)

LEMMA TopFacts ==
  ASSUME Stacked, frames # <<>>
  PROVE  /\ Len(frames) \in Nat /\ Len(frames) >= 1 /\ DOMAIN frames = 1 .. Len(frames)
         /\ frames[Len(frames)] = [rows |-> Rows, ctx |-> Ctx]
         /\ Rows \in Codes /\ (Ctx = NoCtx \/ Owned(Rows, Ctx))
<1>1. /\ Len(frames) \in Nat /\ Len(frames) >= 1 /\ DOMAIN frames = 1 .. Len(frames)
      /\ Top = frames[Len(frames)]
  BY PopFacts DEF Stacked, Top
<1>2. Framed(Top)
  BY <1>1 DEF Stacked
<1> QED
  BY <1>1, <1>2 DEF Framed, Rows, Ctx

(* The frame on top gets another context.                                    *)
LEMMA TopSet ==
  ASSUME Stacked, frames # <<>>, NEW c, WithCtx(c)
  PROVE  /\ IsStack(frames') /\ frames' # <<>> /\ Rows' = Rows /\ Ctx' = c
         /\ Owned(Rows, c) => \A i \in DOMAIN frames' : Framed(frames'[i])
<1> DEFINE n == Len(frames)
           f == [rows |-> Rows, ctx |-> c]
<1>1. /\ n \in Nat /\ n >= 1 /\ DOMAIN frames = 1 .. n
      /\ frames[n] = [rows |-> Rows, ctx |-> Ctx] /\ Rows \in Codes
  BY TopFacts
<1>2. [frames[n] EXCEPT !.ctx = c] = f
  BY <1>1
<1>3. frames \in Seq({frames[i] : i \in DOMAIN frames})
  BY DEF Stacked, IsStack
<1> HIDE DEF f
<1>4. frames' = [i \in 1 .. n |-> IF i = n THEN f ELSE frames[i]]
  BY <1>1, <1>2, <1>3 DEF WithCtx
<1>5. /\ DOMAIN frames' = 1 .. n /\ frames'[n] = f
      /\ \A i \in 1 .. n : i # n => frames'[i] = frames[i]
  <2>1. n \in 1 .. n
    BY <1>1
  <2> HIDE DEF n
  <2>2. DOMAIN frames' = 1 .. n
    BY <1>4
  <2>3. frames'[n] = f
    BY <1>4, <2>1
  <2>4. \A i \in 1 .. n : i # n => frames'[i] = frames[i]
    BY <1>4
  <2> QED
    BY <2>2, <2>3, <2>4
<1>6. IsStack(frames') /\ Len(frames') = n /\ frames' # <<>>
  <2> DEFINE T == {frames'[i] : i \in 1 .. n}
  <2>1. \A i \in 1 .. n : frames'[i] \in T
    OBVIOUS
  <2> HIDE DEF T
  <2>2. frames' = [i \in 1 .. n |-> frames'[i]]
    BY <1>4, <1>5
  <2>3. frames' \in [1 .. n -> T]
    BY <2>1, <2>2
  <2>4. frames' \in Seq(T) /\ Len(frames') = n /\ frames' # <<>>
    BY <1>1, <2>3
  <2> QED
    BY <1>5, <2>4 DEF IsStack, T
<1>7. Top' = f
  BY <1>5, <1>6 DEF Top, Last
<1>8. Rows' = Rows /\ Ctx' = c
  BY <1>7 DEF Rows, Ctx, f
<1>9. Owned(Rows, c) => Framed(f)
  BY <1>1 DEF Framed, f
<1>10. Owned(Rows, c) => \A i \in DOMAIN frames' : Framed(frames'[i])
  BY <1>1, <1>5, <1>9 DEF Stacked
<1> QED
  BY <1>6, <1>8, <1>10

(* A stratum that leaves the frame with context c.                           *)
LEMMA StratumKeeps ==
  ASSUME CascadeInv, ~ Idle, NEW w \in 1 .. N, NEW c, Owned(Rows, c), WithCtx(c), at' = w,
         UNCHANGED <<pool, cand>>,
         Idle' \/ /\ chain' \in Nat
                  /\ chain' > 0 => chain' <= c.chainLen /\ c.chainW[chain'] = w /\ c.chainE[chain'] # {}
  PROVE  CascadeInv'
<1>1. Stacked /\ Underway
  BY DEF CascadeInv
<1>2. frames # <<>>
  BY <1>1 DEF Underway
<1>3. IsStack(pool') /\ \A i \in DOMAIN pool' : Storage(pool'[i])
  BY <1>1 DEF Stacked
<1>4. Stacked' /\ frames' # <<>> /\ Rows' = Rows /\ Ctx' = c
  BY <1>1, <1>2, <1>3, TopSet DEF Stacked
<1>5. w \in Nat
  BY PhiAssumption
<1>6. ~ Idle' => Underway'
  BY <1>1, <1>4, <1>5 DEF Underway
<1> QED
  BY <1>4, <1>6 DEF CascadeInv

(* The parent's chain and the test go through the same strata.               *)
LEMMA StratumNumber ==
  ASSUME CascadeInv, NEW w \in 1 .. N, Stratum(w), TC(w) > 0, at = 0 \/ chain > 0
  PROVE  w \in StrataC(Rows) /\ Cardinality(UpTo(Rows, w)) = (IF at = 0 THEN 1 ELSE chain + 1)
<1>1. Underway /\ Rows \in Codes
  BY TopFacts DEF CascadeInv, Stratum, Underway
<1>2. MembersC[Rows][w] # {}
  BY FS_EmptySet DEF TC
<1>3. at \in Nat /\ cand \in Candidates[Rows] /\ chain \in Nat
  BY <1>1 DEF Underway
<1>4. w \in StrataC(Rows) /\ Cardinality(UpTo(Rows, w)) = Cardinality(UpTo(Rows, at)) + 1
  BY <1>1, <1>2, <1>3, NextStratum DEF Stratum
<1>5. CASE at = 0
  BY <1>1, <1>4, <1>5, UpToFacts
<1>6. CASE at # 0
  <2>1. chain \in 1 .. Ctx.chainLen /\ at = Ctx.chainW[chain] /\ Owned(Rows, Ctx)
    BY <1>1, <1>6 DEF Underway, Owned, Storage
  <2>2. Entry(Rows, Ctx, chain)
    BY <2>1 DEF Owned
  <2> QED
    BY <1>4, <1>6, <2>1, <2>2 DEF Entry
<1> QED
  BY <1>5, <1>6

-----------------------------------------------------------------------------
(* The steps.                                                                *)

LEMMA InitCascade == Init => CascadeInv
<1> SUFFICES ASSUME Init PROVE CascadeInv
  OBVIOUS
<1>1. frames = <<>> /\ pool = <<>> /\ Idle
  BY DEF Init, Idle
<1>2. IsStack(frames) /\ IsStack(pool) /\ DOMAIN frames = {} /\ DOMAIN pool = {}
  BY <1>1, EmptyStack
<1> QED
  BY <1>1, <1>2 DEF CascadeInv, Stacked

LEMMA OpenSeedCascade == ASSUME CascadeInv, NEW c \in Codes, OpenSeed(c) PROVE CascadeInv'
<1> DEFINE f == [rows |-> c, ctx |-> NoCtx]
<1>1. frames' = <<f>> /\ pool' = pool /\ Idle'
  BY DEF OpenSeed, Idle
<1>2. Framed(f)
  BY DEF Framed
<1> HIDE DEF f
<1>3. IsStack(frames') /\ \A i \in DOMAIN frames' : Framed(frames'[i])
  BY <1>1, <1>2, EmptyStack
<1>4. IsStack(pool') /\ \A i \in DOMAIN pool' : Storage(pool'[i])
  BY <1>1 DEF CascadeInv, Stacked
<1> QED
  BY <1>1, <1>3, <1>4 DEF CascadeInv, Stacked

LEMMA DescendCascade == ASSUME CascadeInv, Descend PROVE CascadeInv'
<1> DEFINE D == RowReduce(Append(Rows, cand), N).rref
           f == [rows |-> D, ctx |-> NoCtx]
<1>1. D \in Codes /\ frames' = Append(frames, f) /\ pool' = pool /\ Idle'
  BY DEF Descend, Idle
<1> HIDE DEF D
<1>2. Framed(f)
  BY <1>1 DEF Framed
<1> HIDE DEF f
<1>3. IsStack(frames) /\ \A i \in DOMAIN frames : Framed(frames[i])
  BY DEF CascadeInv, Stacked
<1>4. /\ IsStack(frames') /\ DOMAIN frames = 1 .. Len(frames) /\ Len(frames) \in Nat
      /\ DOMAIN frames' = 1 .. Len(frames) + 1 /\ frames'[Len(frames) + 1] = f
      /\ \A i \in 1 .. Len(frames) : frames'[i] = frames[i]
  BY <1>1, <1>3, PushFacts
<1>5. \A i \in DOMAIN frames' : Framed(frames'[i])
  <2> SUFFICES ASSUME NEW i \in DOMAIN frames' PROVE Framed(frames'[i])
    OBVIOUS
  <2>1. i \in 1 .. Len(frames) \/ i = Len(frames) + 1
    BY <1>4
  <2> QED
    BY <1>2, <1>3, <1>4, <2>1
<1>6. IsStack(pool') /\ \A i \in DOMAIN pool' : Storage(pool'[i])
  BY <1>1 DEF CascadeInv, Stacked
<1> QED
  BY <1>1, <1>4, <1>5, <1>6 DEF CascadeInv, Stacked

(* The closed frame's context was its own, and it is storage from now on.    *)
LEMMA CloseFrameCascade == ASSUME CascadeInv, CloseFrame PROVE CascadeInv'
<1>1. /\ frames # <<>> /\ frames' = Front(frames) /\ Idle'
      /\ pool' = IF Ctx = NoCtx THEN pool ELSE Append(pool, Ctx)
  BY DEF CloseFrame, Idle
<1>2. /\ IsStack(frames) /\ \A i \in DOMAIN frames : Framed(frames[i])
      /\ IsStack(pool) /\ \A i \in DOMAIN pool : Storage(pool[i])
  BY DEF CascadeInv, Stacked
<1>3. /\ IsStack(frames') /\ Len(frames) \in Nat /\ DOMAIN frames = 1 .. Len(frames)
      /\ DOMAIN frames' = 1 .. Len(frames) - 1
      /\ \A i \in 1 .. Len(frames) - 1 : frames'[i] = frames[i]
  BY <1>1, <1>2, PopFacts
<1>4. \A i \in DOMAIN frames' : Framed(frames'[i])
  <2> SUFFICES ASSUME NEW i \in DOMAIN frames' PROVE Framed(frames'[i])
    OBVIOUS
  <2>1. i \in 1 .. Len(frames) - 1 /\ i \in DOMAIN frames
    BY <1>3
  <2> QED
    BY <1>2, <1>3, <2>1
<1>5. IsStack(pool') /\ \A i \in DOMAIN pool' : Storage(pool'[i])
  <2>1. CASE Ctx = NoCtx
    <3>1. pool' = pool
      BY <1>1, <2>1
    <3> QED
      BY <1>2, <3>1
  <2>2. CASE Ctx # NoCtx
    <3>1. Storage(Ctx)
      BY <1>1, <2>2, TopFacts DEF CascadeInv, Owned
    <3>2. pool' = Append(pool, Ctx)
      BY <1>1, <2>2
    <3>3. /\ IsStack(pool') /\ DOMAIN pool = 1 .. Len(pool) /\ Len(pool) \in Nat
          /\ DOMAIN pool' = 1 .. Len(pool) + 1 /\ pool'[Len(pool) + 1] = Ctx
          /\ \A i \in 1 .. Len(pool) : pool'[i] = pool[i]
      BY <1>2, <3>2, PushFacts
    <3>4. \A i \in DOMAIN pool' : i \in DOMAIN pool \/ i = Len(pool) + 1
      BY <3>3
    <3> QED
      BY <1>2, <3>1, <3>3, <3>4
  <2> QED
    BY <2>1, <2>2
<1> QED
  BY <1>1, <1>3, <1>4, <1>5 DEF CascadeInv, Stacked

LEMMA BeginCascade == ASSUME CascadeInv, NEW v, Begin(v) PROVE CascadeInv'
<1>1. /\ frames # <<>> /\ v \in Candidates[Rows] /\ cand' = v /\ at' = 0 /\ chain' = 0
      /\ ~ Idle'
  BY DEF Begin, Idle
<1>2. Stacked /\ Rows \in Codes /\ (Ctx = NoCtx \/ Owned(Rows, Ctx))
  BY <1>1, TopFacts DEF CascadeInv
<1>3. Stacked' /\ frames' # <<>> /\ Rows' = Rows /\ Owned(Rows, Ctx')
  <2>1. CASE Ctx # NoCtx /\ UNCHANGED <<frames, pool>>
    <3>1. Rows' = Rows /\ Ctx' = Ctx /\ Stacked'
      BY <1>2, <2>1 DEF Rows, Ctx, Top, Stacked
    <3> QED
      BY <1>1, <1>2, <2>1, <3>1
  <2>2. CASE Ctx = NoCtx /\ pool = <<>> /\ WithCtx(Build(FreshCtx, Rows)) /\ UNCHANGED pool
    <3>1. Owned(Rows, Build(FreshCtx, Rows))
      BY FreshFacts, BuildFacts
    <3>2. IsStack(pool') /\ \A i \in DOMAIN pool' : Storage(pool'[i])
      BY <1>2, <2>2 DEF Stacked
    <3> QED
      BY <1>1, <1>2, <2>2, <3>1, <3>2, TopSet DEF Stacked
  <2>3. CASE Ctx = NoCtx /\ pool # <<>> /\ WithCtx(Build(Last(pool), Rows)) /\ pool' = Front(pool)
    <3>1. IsStack(pool) /\ \A i \in DOMAIN pool : Storage(pool[i])
      BY <1>2 DEF Stacked
    <3>2. /\ IsStack(pool') /\ Len(pool) \in Nat /\ Len(pool) >= 1 /\ DOMAIN pool = 1 .. Len(pool)
          /\ DOMAIN pool' = 1 .. Len(pool) - 1
          /\ \A i \in 1 .. Len(pool) - 1 : pool'[i] = pool[i]
          /\ Last(pool) = pool[Len(pool)]
      BY <2>3, <3>1, PopFacts
    <3>3. Storage(Last(pool))
      BY <3>1, <3>2
    <3>4. \A i \in DOMAIN pool' : i \in DOMAIN pool /\ pool'[i] = pool[i]
      BY <3>2
    <3>5. IsStack(pool') /\ \A i \in DOMAIN pool' : Storage(pool'[i])
      BY <3>1, <3>2, <3>4
    <3>6. Owned(Rows, Build(Last(pool), Rows))
      BY <3>3, BuildFacts
    <3> QED
      BY <1>1, <1>2, <2>3, <3>5, <3>6, TopSet DEF Stacked
  <2> QED
    BY <2>1, <2>2, <2>3 DEF Begin
<1>4. Underway'
  BY <1>1, <1>3 DEF Underway
<1> QED
  BY <1>3, <1>4 DEF CascadeInv

(* A verdict that needs no transform.                                        *)
LEMMA SettledKeeps ==
  ASSUME CascadeInv, UNCHANGED <<frames, pool>>, Idle' PROVE CascadeInv'
BY DEF CascadeInv, Stacked, Idle

(* The chain starts at the parent's first stratum.                           *)
LEMMA OffStart == ASSUME Underway, chain > 0 PROVE at # 0
<1>1. chain \in 1 .. Ctx.chainLen /\ at = Ctx.chainW[chain] /\ Owned(Rows, Ctx)
  BY DEF Underway, Owned, Storage
<1>2. Ctx.chainW[chain] \in 1 .. N
  BY <1>1 DEF Owned, Entry, StrataC
<1> QED
  BY <1>1, <1>2, PhiAssumption

(* What all stratum actions are given.                                       *)
LEMMA StratumFacts ==
  ASSUME CascadeInv, NEW w \in 1 .. N, Stratum(w)
  PROVE  /\ ~ Idle /\ Rows \in Codes /\ Owned(Rows, Ctx) /\ Underway
         /\ at' = w /\ UNCHANGED <<pool, cand>>
         /\ (TC(w) > 0 /\ chain > 0) =>
              LET i == chain + 1
                  b == EnsureChain(Ctx, i, w)
              IN /\ Owned(Rows, b) /\ i \in Nat /\ i <= b.chainLen /\ b.chainW[i] = w
                 /\ b.chainE[chain] = Ctx.chainE[chain]
<1>1. ~ Idle /\ Underway /\ Stacked /\ frames # <<>> /\ at' = w /\ UNCHANGED <<pool, cand>>
  BY DEF Stratum, CascadeInv
<1>2. Rows \in Codes /\ Owned(Rows, Ctx)
  BY <1>1, TopFacts DEF Underway
<1>3. ASSUME TC(w) > 0, chain > 0
      PROVE  LET i == chain + 1
                 b == EnsureChain(Ctx, i, w)
             IN /\ Owned(Rows, b) /\ i \in Nat /\ i <= b.chainLen /\ b.chainW[i] = w
                /\ b.chainE[chain] = Ctx.chainE[chain]
  <2> DEFINE i == chain + 1
  <2>1. w \in StrataC(Rows) /\ Cardinality(UpTo(Rows, w)) = i
    BY <1>1, <1>3, OffStart, StratumNumber
  <2>2. /\ i \in 1 .. Ctx.chainLen + 1 /\ i \in Nat /\ i - 1 = chain /\ chain \in 1 .. i - 1
        /\ Ctx.chainE[i - 1] # {}
    BY <1>1, <1>2, <1>3 DEF Underway, Owned, Storage
  <2> HIDE DEF i
  <2>3. /\ Owned(Rows, EnsureChain(Ctx, i, w))
        /\ i <= EnsureChain(Ctx, i, w).chainLen /\ EnsureChain(Ctx, i, w).chainW[i] = w
        /\ \A j \in 1 .. i - 1 : EnsureChain(Ctx, i, w).chainE[j] = Ctx.chainE[j]
    BY <1>2, <2>1, <2>2, ChainFacts
  <2> QED
    BY <2>2, <2>3 DEF i
<1> QED
  BY <1>1, <1>2, <1>3

(* The chain's first entry is the stratum's argmax set.                      *)
LEMMA FirstEntry ==
  ASSUME NEW rows \in Codes, NEW w \in 1 .. N, NEW ctx, Owned(rows, ctx), w \in ctx.built,
         NEW e, Owned(rows, e), 1 <= e.chainLen, e.chainW[1] = w
  PROVE  e.chainE[1] = ESet(ctx, w)
<1>1. e.chainE[1] = Vanishing(rows, e, 1)
  BY DEF Owned, Storage, Entry
<1>2. \A u : (\A h \in 1 .. 1 : \A x \in MembersC[rows][e.chainW[h]] : ~ Odd(u, x))
               <=> \A x \in MembersC[rows][w] : ~ Odd(u, x)
  OBVIOUS
<1>3. ctx.rows = rows
  BY DEF Owned
<1> QED
  BY <1>1, <1>2, <1>3, ESetFacts DEF Vanishing, ESet

LEMMA FirstChain ==
  ASSUME CascadeInv, NEW w \in 1 .. N, Stratum(w), at = 0, TC(w) > 0
  PROVE  LET b == EnsureFHat(Ctx, w)
             e == EnsureChain(b, 1, w)
         IN /\ Owned(Rows, b) /\ w \in b.built
            /\ Owned(Rows, e) /\ 1 <= e.chainLen /\ e.chainW[1] = w /\ e.chainE[1] = ESet(b, w)
<1> DEFINE b == EnsureFHat(Ctx, w)
           e == EnsureChain(b, 1, w)
<1>1. Rows \in Codes /\ Owned(Rows, Ctx)
  BY StratumFacts
<1>2. Owned(Rows, b) /\ w \in b.built
  BY <1>1, FHatFacts
<1>3. w \in StrataC(Rows) /\ Cardinality(UpTo(Rows, w)) = 1
  BY StratumNumber
<1> HIDE DEF b
<1>4. 1 \in 1 .. b.chainLen + 1
  BY <1>2 DEF Owned, Storage
<1>5. Owned(Rows, e) /\ 1 <= e.chainLen /\ e.chainW[1] = w
  BY <1>1, <1>2, <1>3, <1>4, ChainFacts
<1> HIDE DEF e
<1>6. e.chainE[1] = ESet(b, w)
  BY <1>1, <1>2, <1>5, FirstEntry
<1> QED
  BY <1>2, <1>5, <1>6 DEF e, b

LEMMA FirstCodeOnlyCascade ==
  ASSUME CascadeInv, NEW w \in 1 .. N, FirstCodeOnly(w) PROVE CascadeInv'
<1> DEFINE b == EnsureFHat(Ctx, w)
           e == EnsureChain(b, 1, w)
<1>1. Stratum(w) /\ at = 0 /\ TC(w) > 0
  BY DEF FirstCodeOnly, First
<1>2. ~ Idle /\ at' = w /\ UNCHANGED <<pool, cand>>
  BY <1>1, StratumFacts
<1>3. Owned(Rows, b) /\ Owned(Rows, e) /\ 1 <= e.chainLen /\ e.chainW[1] = w /\ e.chainE[1] = ESet(b, w)
  BY <1>1, FirstChain
<1>4. \/ WithCtx(b) /\ outcome' = "unique"
      \/ WithCtx(e) /\ chain' = 1 /\ ESet(b, w) # {}
  BY DEF FirstCodeOnly, Resolve
<1> HIDE DEF b, e
<1>5. CASE WithCtx(b) /\ outcome' = "unique"
  <2>1. Idle'
    BY <1>5 DEF Idle
  <2> QED
    BY <1>2, <1>3, <1>5, <2>1, StratumKeeps
<1>6. CASE WithCtx(e) /\ chain' = 1 /\ ESet(b, w) # {}
  <2>1. /\ chain' \in Nat
        /\ chain' > 0 => chain' <= e.chainLen /\ e.chainW[chain'] = w /\ e.chainE[chain'] # {}
    BY <1>3, <1>6
  <2> QED
    BY <1>2, <1>3, <1>6, <2>1, StratumKeeps
<1> QED
  BY <1>4, <1>5, <1>6

LEMMA FirstBoundCascade ==
  ASSUME CascadeInv, NEW w \in 1 .. N, FirstBound(w) PROVE CascadeInv'
<1> DEFINE b == EnsureFHat(Ctx, w)
<1>1. Stratum(w) /\ WithCtx(b) /\ Idle'
  BY DEF FirstBound, FirstMixed, First, Resolve, Idle
<1>2. ~ Idle /\ Rows \in Codes /\ Owned(Rows, Ctx) /\ at' = w /\ UNCHANGED <<pool, cand>>
  BY <1>1, StratumFacts
<1>3. Owned(Rows, b)
  BY <1>2, FHatFacts
<1> HIDE DEF b
<1> QED
  BY <1>1, <1>2, <1>3, StratumKeeps

LEMMA FirstSplitCascade ==
  ASSUME CascadeInv, NEW w \in 1 .. N, FirstSplit(w) PROVE CascadeInv'
<1> DEFINE b == EnsureFHat(Ctx, w)
<1>1. Stratum(w) /\ at = 0 /\ WithCtx(b) /\ chain' = chain
  BY DEF FirstSplit, FirstMixed, First
<1>2. ~ Idle /\ Underway /\ Rows \in Codes /\ Owned(Rows, Ctx) /\ at' = w /\ UNCHANGED <<pool, cand>>
  BY <1>1, StratumFacts
<1>3. Owned(Rows, b)
  BY <1>2, FHatFacts
<1>4. chain = 0
  BY <1>1, <1>2, OffStart DEF Underway
<1> HIDE DEF b
<1>5. chain' \in Nat /\ ~ (chain' > 0)
  BY <1>1, <1>4
<1> QED
  BY <1>1, <1>2, <1>3, <1>5, StratumKeeps

LEMMA ChainCodeOnlyCascade ==
  ASSUME CascadeInv, NEW w \in 1 .. N, ChainCodeOnly(w) PROVE CascadeInv'
<1> DEFINE b == EnsureChain(Ctx, chain + 1, w)
<1>1. /\ Stratum(w) /\ chain > 0 /\ TC(w) > 0 /\ WithCtx(b)
      /\ Idle' \/ (chain' = chain + 1 /\ b.chainE[chain + 1] # {})
  BY DEF ChainCodeOnly, OnChain, Resolve, Idle
<1>2. /\ ~ Idle /\ at' = w /\ UNCHANGED <<pool, cand>>
      /\ Owned(Rows, b) /\ chain + 1 \in Nat /\ chain + 1 <= b.chainLen /\ b.chainW[chain + 1] = w
  BY <1>1, StratumFacts
<1> HIDE DEF b
<1>3. Idle' \/ /\ chain' \in Nat
               /\ chain' > 0 => chain' <= b.chainLen /\ b.chainW[chain'] = w /\ b.chainE[chain'] # {}
  BY <1>1, <1>2
<1> QED
  BY <1>1, <1>2, <1>3, StratumKeeps

LEMMA ChainBoundCascade ==
  ASSUME CascadeInv, NEW w \in 1 .. N, ChainBound(w) PROVE CascadeInv'
<1> DEFINE b == EnsureChain(Ctx, chain + 1, w)
<1>1. Stratum(w) /\ chain > 0 /\ TC(w) > 0 /\ WithCtx(b) /\ Idle'
  BY DEF ChainBound, OnChain, Resolve, Idle
<1>2. ~ Idle /\ at' = w /\ UNCHANGED <<pool, cand>> /\ Owned(Rows, b)
  BY <1>1, StratumFacts
<1> HIDE DEF b
<1> QED
  BY <1>1, <1>2, StratumKeeps

(* A filter leaves the chain; it may build the stratum's transform.          *)
LEMMA FilterKeeps ==
  ASSUME CascadeInv, ~ Idle, Rows \in Codes, NEW w \in 1 .. N, NEW c, Owned(Rows, c), NEW set,
         Filter(c, set, w), at' = w, UNCHANGED <<pool, cand>>
  PROVE  CascadeInv'
<1>1. chain' = 0 /\ (WithCtx(c) \/ WithCtx(EnsureFHat(c, w)))
  BY DEF Filter, ByTransform, ByCounting
<1>2. Owned(Rows, EnsureFHat(c, w))
  BY FHatFacts
<1>3. chain' \in Nat /\ ~ (chain' > 0)
  BY <1>1
<1>4. CASE WithCtx(c)
  BY <1>3, <1>4, StratumKeeps
<1>5. CASE WithCtx(EnsureFHat(c, w))
  BY <1>2, <1>3, <1>5, StratumKeeps
<1> QED
  BY <1>1, <1>4, <1>5

LEMMA ChainLeaveCascade ==
  ASSUME CascadeInv, NEW w \in 1 .. N, ChainLeave(w) PROVE CascadeInv'
<1> DEFINE b == EnsureChain(Ctx, chain + 1, w)
<1>1. Stratum(w) /\ chain > 0 /\ TC(w) > 0 /\ Filter(b, Pairs(b.chainE[chain], uC), w)
  BY DEF ChainLeave, OnChain
<1>2. ~ Idle /\ Rows \in Codes /\ at' = w /\ UNCHANGED <<pool, cand>> /\ Owned(Rows, b)
  BY <1>1, StratumFacts
<1> HIDE DEF b
<1> QED
  BY <1>1, <1>2, FilterKeeps

LEMMA LaterStratumCascade ==
  ASSUME CascadeInv, NEW w \in 1 .. N, LaterStratum(w) PROVE CascadeInv'
<1>1. Stratum(w) /\ Filter(Ctx, m, w)
  BY DEF LaterStratum, Later
<1>2. ~ Idle /\ Rows \in Codes /\ at' = w /\ UNCHANGED <<pool, cand>> /\ Owned(Rows, Ctx)
  BY <1>1, StratumFacts
<1> QED
  BY <1>1, <1>2, FilterKeeps

(* Filled whenever, for whichever candidate and in whatever storage, the     *)
(* context a frame holds is its own parent's: every transform it calls built *)
(* and every entry of its chain is the one that parent's words give.         *)
LEMMA CascadeStep == CascadeInv /\ [Next]_vars => CascadeInv'
<1> SUFFICES ASSUME CascadeInv, [Next]_vars PROVE CascadeInv'
  OBVIOUS
<1>1. ASSUME NEW c \in Codes, OpenSeed(c) PROVE CascadeInv'
  BY <1>1, OpenSeedCascade
<1>2. CASE Descend
  BY <1>2, DescendCascade
<1>3. CASE CloseFrame
  BY <1>3, CloseFrameCascade
<1>4. ASSUME NEW v, Begin(v) PROVE CascadeInv'
  BY <1>4, BeginCascade
<1>5. ASSUME NEW w \in 1 .. N,
             \/ TrivialFrame(w) \/ FirstCosetOnly(w) \/ ChainCosetOnly(w)
      PROVE  CascadeInv'
  <2>1. UNCHANGED <<frames, pool>> /\ Idle'
    BY <1>5 DEF TrivialFrame, FirstCosetOnly, ChainCosetOnly, First, OnChain, Stratum, Resolve, Idle
  <2> QED
    BY <2>1, SettledKeeps
<1>6. ASSUME NEW w \in 1 .. N,
             \/ FirstCodeOnly(w) \/ FirstBound(w) \/ FirstSplit(w) \/ ChainCodeOnly(w)
             \/ ChainBound(w) \/ ChainLeave(w) \/ LaterStratum(w)
      PROVE  CascadeInv'
  BY <1>6, FirstCodeOnlyCascade, FirstBoundCascade, FirstSplitCascade, ChainCodeOnlyCascade,
     ChainBoundCascade, ChainLeaveCascade, LaterStratumCascade
<1>7. CASE Exhausted
  <2>1. UNCHANGED <<frames, pool>> /\ Idle'
    BY <1>7 DEF Exhausted, Idle
  <2> QED
    BY <2>1, SettledKeeps
<1>8. CASE UNCHANGED vars
  <2>1. UNCHANGED <<frames, pool, cand, at, chain, outcome>>
    BY <1>8 DEF vars
  <2>2. Idle' = Idle /\ Stacked' = Stacked /\ Underway' = Underway
    BY <2>1 DEF Idle, Stacked, Underway, Rows, Ctx, Top
  <2> QED
    BY <2>2 DEF CascadeInv
<1> QED
  BY <1>1, <1>2, <1>3, <1>4, <1>5, <1>6, <1>7, <1>8 DEF Next

LEMMA OwnersFollow == CascadeInv => ContextIsOwners
<1> SUFFICES ASSUME CascadeInv, NEW i \in DOMAIN frames, frames[i].ctx # NoCtx
             PROVE  LET rows == frames[i].rows
                        ctx == frames[i].ctx
                        strata == {w \in 1 .. N : MembersC[rows][w] # {}}
                    IN /\ ctx.rows = rows
                       /\ \A w \in ctx.built : ctx.fhat[w] = Walsh(MembersC[rows][w], rows)
                       /\ \A j \in 1 .. ctx.chainLen :
                            /\ Cardinality({w \in strata : w <= ctx.chainW[j]}) = j
                            /\ ctx.chainE[j] =
                                 {u \in Coords(rows) \ {Zero} :
                                    \A h \in 1 .. j : \A x \in MembersC[rows][ctx.chainW[h]] : ~ Odd(u, x)}
  BY DEF ContextIsOwners
<1>1. Owned(frames[i].rows, frames[i].ctx)
  BY DEF CascadeInv, Stacked, Framed
<1> QED
  BY <1>1 DEF Owned, Entry, UpTo, StrataC, Vanishing

(* In every state the contexts on the stack are those of their frames'       *)
(* parents, those in PHI_CTX_POOL are storage only, and a test that follows  *)
(* the chain stands at an entry made at the stratum it looked at last.       *)
THEOREM CascadeInvariant == Spec => []CascadeInv
BY InitCascade, CascadeStep, PTL DEF Spec

(* A thread recycles the storage of a parent's context for the next parent,  *)
(* and all candidates of a parent fill one context lazily.  Whichever        *)
(* candidates come, in whatever order: a live context belongs to its frame's *)
(* parent, a transform it calls built is that of the parent's words, and     *)
(* entry i of its chain is the set for the parent's first i strata.          *)
THEOREM ContextIsOwnersCorrect == Spec => []ContextIsOwners
<1>1. Spec => []CascadeInv
  BY CascadeInvariant
<1> QED
  BY <1>1, OwnersFollow, PTL

-----------------------------------------------------------------------------
(* One stratum: the functionals of D with the fewest odd words, found from   *)
(* the transforms of the two halves.                                         *)

HatC(rows, w) == Walsh(MembersC[rows][w], rows)
HatV(rows, v, w) == Walsh(MembersV[rows][v][w], rows)
NumC(rows, w) == Cardinality(MembersC[rows][w])
NumV(rows, v, w) == Cardinality(MembersV[rows][v][w])

Fewest(S, rows, v, w) == {u \in S : \A o \in S : Phi(rows, v, u, w) <= Phi(rows, v, o, w)}

(* phi of a functional of C and of its other extension to D, by the          *)
(* transforms.                                                               *)
Valued(rows, v, w, e) ==
  /\ NumC(rows, w) \in Nat /\ NumV(rows, v, w) \in Nat
  /\ HatC(rows, w)[e] \in Int /\ HatV(rows, v, w)[e] \in Int
  /\ HatC(rows, w)[e] <= NumC(rows, w) /\ - HatC(rows, w)[e] <= NumC(rows, w)
  /\ HatV(rows, v, w)[e] <= NumV(rows, v, w) /\ - HatV(rows, v, w)[e] <= NumV(rows, v, w)
  /\ Phi(rows, v, e, w) \in Nat /\ Phi(rows, v, e \cup Own(rows), w) \in Nat
  /\ 2 * Phi(rows, v, e, w) = NumC(rows, w) + NumV(rows, v, w) - (HatC(rows, w)[e] + HatV(rows, v, w)[e])
  /\ 2 * Phi(rows, v, e \cup Own(rows), w)
       = NumC(rows, w) + NumV(rows, v, w) - (HatC(rows, w)[e] - HatV(rows, v, w)[e])

LEMMA Values ==
  ASSUME NEW rows \in Codes, NEW v \in Candidates[rows], NEW w \in 1 .. N
  PROVE  \A e \in Coords(rows) : Valued(rows, v, w, e)
<1> SUFFICES ASSUME NEW e \in Coords(rows) PROVE Valued(rows, v, w, e)
  OBVIOUS
<1> DEFINE k == Len(rows)
           S == MembersC[rows][w]
           T == MembersV[rows][v][w]
<1>1. S \subseteq Coords(rows) /\ T \subseteq Coords(rows)
  BY MembersVFacts
<1>2. /\ NumC(rows, w) \in Nat /\ OddIn(S, e) \in Nat /\ OddIn(S, e) <= NumC(rows, w)
      /\ HatC(rows, w)[e] = NumC(rows, w) - 2 * OddIn(S, e)
  BY <1>1, WalshValue DEF HatC, NumC
<1>3. /\ NumV(rows, v, w) \in Nat /\ OddIn(T, e) \in Nat /\ OddIn(T, e) <= NumV(rows, v, w)
      /\ HatV(rows, v, w)[e] = NumV(rows, v, w) - 2 * OddIn(T, e)
  BY <1>1, WalshValue DEF HatV, NumV
<1>4. k \in Nat /\ e \in SUBSET (0 .. k - 1)
  BY CoordsFinite DEF Coords
<1>10. /\ k \in 0 .. k /\ k \notin 0 .. k - 1
       /\ \A i \in 0 .. k - 1 : i \in 0 .. k
  BY <1>4
<1>5. e \in SUBSET (0 .. k) /\ e \cup {k} \in SUBSET (0 .. k) /\ k \notin e
  <2> HIDE DEF k
  <2> QED
    BY <1>4, <1>10
<1>6. e \ {k} = e /\ (e \cup {k}) \ {k} = e /\ k \in e \cup {k}
  BY <1>5
<1>7. Phi(rows, v, e, w) \in Nat /\ Phi(rows, v, e, w) = OddIn(S, e) + OddIn(T, e)
  <2>1. /\ Phi(rows, v, e, w) \in Nat
        /\ Phi(rows, v, e, w) =
             OddIn(S, e \ {k}) + (IF k \in e THEN Cardinality(T) - OddIn(T, e \ {k}) ELSE OddIn(T, e \ {k}))
    <3>1. \A u \in SUBSET (0 .. k) :
            /\ Phi(rows, v, u, w) \in Nat
            /\ Phi(rows, v, u, w) =
                 OddIn(S, u \ {k}) + (IF k \in u THEN Cardinality(T) - OddIn(T, u \ {k}) ELSE OddIn(T, u \ {k}))
      BY PhiSplit
    <3> HIDE DEF S, T, k
    <3> QED
      BY <1>5, <3>1
  <2> QED
    BY <1>5, <1>6, <2>1
<1>8. /\ Phi(rows, v, e \cup {k}, w) \in Nat
      /\ Phi(rows, v, e \cup {k}, w) = OddIn(S, e) + (NumV(rows, v, w) - OddIn(T, e))
  <2> DEFINE d == e \cup {k}
  <2>1. /\ Phi(rows, v, d, w) \in Nat
        /\ Phi(rows, v, d, w) =
             OddIn(S, d \ {k}) + (IF k \in d THEN Cardinality(T) - OddIn(T, d \ {k}) ELSE OddIn(T, d \ {k}))
    BY <1>5, PhiSplit
  <2> QED
    BY <1>6, <2>1 DEF NumV
<1>9. Own(rows) = {k}
  BY DEF Own
<1> HIDE DEF S, T, k
<1> QED
  BY <1>2, <1>3, <1>7, <1>8, <1>9 DEF Valued

LEMMA AtZero ==
  ASSUME NEW rows \in Codes, NEW v \in Candidates[rows], NEW w \in 1 .. N
  PROVE  /\ Zero \in Coords(rows) /\ Zero \cup Own(rows) = Own(rows)
         /\ HatC(rows, w)[Zero] = NumC(rows, w) /\ HatV(rows, v, w)[Zero] = NumV(rows, v, w)
         /\ Phi(rows, v, Own(rows), w) = NumV(rows, v, w)
<1>1. Zero \in Coords(rows) /\ Zero \cup Own(rows) = Own(rows)
  BY DEF Zero, Coords
<1>2. \A x : ~ Odd(Zero, x)
  BY FS_EmptySet DEF Odd, Zero
<1>3. \A S : OddIn(S, Zero) = 0
  BY <1>2, FS_EmptySet DEF OddIn
<1>4. MembersC[rows][w] \subseteq Coords(rows) /\ MembersV[rows][v][w] \subseteq Coords(rows)
  BY MembersVFacts
<1>5. HatC(rows, w)[Zero] = NumC(rows, w)
  BY <1>1, <1>3, <1>4, WalshValue DEF HatC, NumC
<1>6. HatV(rows, v, w)[Zero] = NumV(rows, v, w)
  BY <1>1, <1>3, <1>4, WalshValue DEF HatV, NumV
<1>7. Valued(rows, v, w, Zero)
  BY <1>1, Values
<1>8. Phi(rows, v, Own(rows), w) = NumV(rows, v, w)
  <2> DEFINE p == Phi(rows, v, Own(rows), w)
             c == NumC(rows, w)
             d == NumV(rows, v, w)
  <2>1. p \in Nat /\ c \in Nat /\ d \in Nat /\ 2 * p = c + d - (c - d)
    BY <1>1, <1>5, <1>6, <1>7 DEF Valued
  <2> HIDE DEF p, c, d
  <2>2. p = d
    <3>1. c + d - (c - d) = 2 * d
      BY <2>1
    <3> QED
      BY <2>1, <3>1
  <2> QED
    BY <2>2 DEF p, d
<1> QED
  BY <1>1, <1>5, <1>6, <1>8

(* The functionals of D are those of C, their other extensions, and u_C.     *)
LEMMA Halves ==
  ASSUME NEW rows \in Codes
  PROVE  /\ Len(rows) \in Nat /\ Own(rows) \in Functionals(rows)
         /\ \A e \in Coords(rows) : e \cap Own(rows) = {} /\ ~ (Own(rows) \subseteq e)
         /\ \A e \in Coords(rows) : e \cup Own(rows) \in Functionals(rows)
         /\ \A e \in Coords(rows) : e # Zero => e \in Functionals(rows)
         /\ \A e \in Coords(rows) : (e \cup Own(rows)) \ Own(rows) = e /\ e \ Own(rows) = e
         /\ \A u \in Functionals(rows) :
              \/ u \in Coords(rows) \ {Zero}
              \/ u \ Own(rows) \in Coords(rows) /\ u = (u \ Own(rows)) \cup Own(rows)
<1> DEFINE k == Len(rows)
<1>1. /\ k \in Nat /\ Own(rows) = {k} /\ Functionals(rows) = (SUBSET (0 .. k)) \ {{}}
      /\ Coords(rows) = SUBSET (0 .. k - 1)
  <2>1. k \in Nat
    BY CoordsFinite
  <2>2. Own(rows) = {k}
    BY DEF Own
  <2>3. Functionals(rows) = (SUBSET (0 .. k)) \ {{}}
    BY DEF Functionals, Zero
  <2>4. Coords(rows) = SUBSET (0 .. k - 1)
    BY DEF Coords
  <2> QED
    BY <2>1, <2>2, <2>3, <2>4
<1>2. /\ k \in 0 .. k /\ k \notin 0 .. k - 1
      /\ \A i \in 0 .. k - 1 : i \in 0 .. k
      /\ \A i \in 0 .. k : i = k \/ i \in 0 .. k - 1
  BY <1>1
<1> HIDE DEF k
<1>3. \A e \in Coords(rows) : e \in SUBSET (0 .. k) /\ k \notin e
  BY <1>1, <1>2
<1>4. ASSUME NEW e \in Coords(rows)
      PROVE  /\ e \cap Own(rows) = {} /\ ~ (Own(rows) \subseteq e)
             /\ e \cup Own(rows) \in Functionals(rows)
             /\ e # Zero => e \in Functionals(rows)
             /\ (e \cup Own(rows)) \ Own(rows) = e /\ e \ Own(rows) = e
  <2>1. e \in SUBSET (0 .. k) /\ k \notin e
    BY <1>3
  <2>2. e \cap {k} = {} /\ ~ ({k} \subseteq e) /\ e \ {k} = e
    BY <2>1
  <2>3. (e \cup {k}) \ {k} = e
    BY <2>1
  <2>4. e \cup {k} \in SUBSET (0 .. k) /\ e \cup {k} # {}
    BY <1>2, <2>1
  <2> QED
    BY <1>1, <2>1, <2>2, <2>3, <2>4 DEF Zero
<1>5. ASSUME NEW u \in Functionals(rows)
      PROVE  \/ u \in Coords(rows) \ {Zero}
             \/ u \ Own(rows) \in Coords(rows) /\ u = (u \ Own(rows)) \cup Own(rows)
  <2>1. u \in SUBSET (0 .. k) /\ u # {}
    BY <1>1
  <2>2. CASE k \notin u
    <3>1. u \in SUBSET (0 .. k - 1)
      BY <1>2, <2>1, <2>2
    <3> QED
      BY <1>1, <2>1, <3>1 DEF Zero
  <2>3. CASE k \in u
    <3>1. u \ {k} \in SUBSET (0 .. k - 1)
      BY <1>2, <2>1
    <3>2. u = (u \ {k}) \cup {k}
      BY <2>3
    <3> QED
      BY <1>1, <3>1, <3>2
  <2> QED
    BY <2>2, <2>3
<1>6. Own(rows) \in Functionals(rows)
  BY <1>1, <1>2
<1> QED
  BY <1>1, <1>4, <1>5, <1>6 DEF k

(* What beats u_C: a functional of C, or its other extension, whose          *)
(* transforms add up to more than u_C's.                                     *)
LEMMA LosesTo ==
  ASSUME NEW rows \in Codes, NEW v \in Candidates[rows], NEW w \in 1 .. N,
         NEW S, Own(rows) \in S, NEW e \in Coords(rows), e \in S, e \cup Own(rows) \in S,
         \/ HatC(rows, w)[e] + HatV(rows, v, w)[e] > NumC(rows, w) - NumV(rows, v, w)
         \/ HatC(rows, w)[e] - HatV(rows, v, w)[e] > NumC(rows, w) - NumV(rows, v, w)
  PROVE  Own(rows) \notin Fewest(S, rows, v, w)
<1> DEFINE p == Phi(rows, v, e, w)
           q == Phi(rows, v, e \cup Own(rows), w)
           own == Phi(rows, v, Own(rows), w)
           c == NumC(rows, w)
           d == NumV(rows, v, w)
           f == HatC(rows, w)[e]
           g == HatV(rows, v, w)[e]
<1>1. /\ c \in Nat /\ d \in Nat /\ f \in Int /\ g \in Int /\ p \in Nat /\ q \in Nat
      /\ 2 * p = c + d - (f + g) /\ 2 * q = c + d - (f - g)
  BY Values DEF Valued
<1>2. own = d
  BY AtZero
<1>3. f + g > c - d \/ f - g > c - d
  OBVIOUS
<1>4. ~ (own <= p) \/ ~ (own <= q)
  <2> HIDE DEF p, q, own, c, d, f, g
  <2> QED
    BY <1>1, <1>2, <1>3
<1> QED
  BY <1>4 DEF Fewest

(* A stratum without words of v + C: those stay that vanish on C's.          *)
LEMMA CodeOnlyFewest ==
  ASSUME NEW rows \in Codes, NEW v \in Candidates[rows], NEW w \in 1 .. N,
         NumV(rows, v, w) = 0, NEW E, E \subseteq Coords(rows) \ {Zero}
  PROVE  Fewest(Pairs(E, Own(rows)), rows, v, w)
           = Pairs({u \in E : HatC(rows, w)[u] = NumC(rows, w)}, Own(rows))
<1> DEFINE own == Own(rows)
           S == Pairs(E, own)
           c == NumC(rows, w)
           Full == {u \in E : HatC(rows, w)[u] = c}
<1>1. Phi(rows, v, own, w) = 0
  BY AtZero
<1>2. ASSUME NEW u \in E
      PROVE  /\ Phi(rows, v, u, w) \in Nat /\ Phi(rows, v, u \cup own, w) \in Nat
             /\ Phi(rows, v, u, w) = 0 <=> HatC(rows, w)[u] = c
             /\ Phi(rows, v, u \cup own, w) = 0 <=> HatC(rows, w)[u] = c
  <2> DEFINE p == Phi(rows, v, u, w)
             q == Phi(rows, v, u \cup own, w)
             f == HatC(rows, w)[u]
             g == HatV(rows, v, w)[u]
  <2>1. /\ c \in Nat /\ f \in Int /\ g \in Int /\ g <= 0 /\ - g <= 0 /\ p \in Nat /\ q \in Nat
        /\ 2 * p = c + 0 - (f + g) /\ 2 * q = c + 0 - (f - g)
    BY Values DEF Valued
  <2> HIDE DEF p, q, c, f, g
  <2>2. g = 0
    BY <2>1
  <2>3. (p = 0 <=> f = c) /\ (q = 0 <=> f = c)
    BY <2>1, <2>2
  <2> QED
    BY <2>1, <2>3 DEF p, q, f
<1> HIDE DEF c
<1>3. own \in S /\ \A o \in S : o = own \/ \E u \in E : o = u \/ o = u \cup own
  BY DEF Pairs
<1>4. \A o \in S : Phi(rows, v, o, w) \in Nat
  <2> SUFFICES ASSUME NEW o \in S PROVE Phi(rows, v, o, w) \in Nat
    OBVIOUS
  <2>1. CASE o = own
    BY <1>1, <2>1
  <2>2. ASSUME NEW u \in E, o = u \/ o = u \cup own PROVE Phi(rows, v, o, w) \in Nat
    BY <1>2, <2>2
  <2> QED
    BY <1>3, <2>1, <2>2
<1> HIDE DEF S
<1>5. Fewest(S, rows, v, w) = {o \in S : Phi(rows, v, o, w) = 0}
  <2>1. \A o \in S : (\A q \in S : Phi(rows, v, o, w) <= Phi(rows, v, q, w)) <=> Phi(rows, v, o, w) = 0
    BY <1>1, <1>3, <1>4
  <2> QED
    BY <2>1 DEF Fewest
<1>6. {o \in S : Phi(rows, v, o, w) = 0} = Pairs(Full, own)
  <2> HIDE DEF own
  <2> QED
    BY <1>1, <1>2 DEF Pairs, S
<1> QED
  BY <1>5, <1>6 DEF S, c

(* Nothing of C outweighs the target: who meets it stays.                    *)
LEMMA SplitFewest ==
  ASSUME NEW rows \in Codes, NEW v \in Candidates[rows], NEW w \in 1 .. N,
         \A e \in Coords(rows) \ {Zero} :
           /\ HatC(rows, w)[e] + HatV(rows, v, w)[e] <= NumC(rows, w) - NumV(rows, v, w)
           /\ HatC(rows, w)[e] - HatV(rows, v, w)[e] <= NumC(rows, w) - NumV(rows, v, w)
  PROVE  /\ Own(rows) \in Fewest(Functionals(rows), rows, v, w)
         /\ Fewest(Functionals(rows), rows, v, w)
              = {u \in Functionals(rows) : Phi(rows, v, u, w) = NumV(rows, v, w)}
<1> DEFINE own == Own(rows)
           c == NumC(rows, w)
           d == NumV(rows, v, w)
           S == Functionals(rows)
<1>1. own \in S /\ Phi(rows, v, own, w) = d
  BY AtZero, Halves
<1>2. ASSUME NEW e \in Coords(rows) \ {Zero}
      PROVE  /\ Phi(rows, v, e, w) \in Nat /\ Phi(rows, v, e \cup own, w) \in Nat
             /\ d <= Phi(rows, v, e, w) /\ d <= Phi(rows, v, e \cup own, w)
  <2> DEFINE p == Phi(rows, v, e, w)
             q == Phi(rows, v, e \cup own, w)
             f == HatC(rows, w)[e]
             g == HatV(rows, v, w)[e]
  <2>1. /\ c \in Nat /\ d \in Nat /\ f \in Int /\ g \in Int /\ p \in Nat /\ q \in Nat
        /\ 2 * p = c + d - (f + g) /\ 2 * q = c + d - (f - g)
    BY Values DEF Valued
  <2>2. f + g <= c - d /\ f - g <= c - d
    OBVIOUS
  <2> HIDE DEF p, q, c, d, f, g
  <2>3. d <= p /\ d <= q
    BY <2>1, <2>2
  <2> QED
    BY <2>1, <2>3 DEF p, q
<1>3. d \in Nat
  BY AtZero, Values DEF Valued
<1>4. \A u \in S : Phi(rows, v, u, w) \in Nat /\ d <= Phi(rows, v, u, w)
  <2> SUFFICES ASSUME NEW u \in S PROVE Phi(rows, v, u, w) \in Nat /\ d <= Phi(rows, v, u, w)
    OBVIOUS
  <2>1. \/ u \in Coords(rows) \ {Zero}
        \/ u \ own \in Coords(rows) /\ u = (u \ own) \cup own
    BY Halves
  <2>2. CASE u \in Coords(rows) \ {Zero}
    BY <1>2, <2>2
  <2>3. CASE u \ own \in Coords(rows) /\ u = (u \ own) \cup own
    <3>1. CASE u \ own = Zero
      <4>1. u = own
        BY <2>3, <3>1, AtZero
      <4> QED
        BY <1>1, <1>3, <4>1
    <3>2. CASE u \ own # Zero
      <4>1. Phi(rows, v, (u \ own) \cup own, w) \in Nat /\ d <= Phi(rows, v, (u \ own) \cup own, w)
        BY <1>2, <2>3, <3>2
      <4> QED
        BY <2>3, <4>1
    <3> QED
      BY <3>1, <3>2
  <2> QED
    BY <2>1, <2>2, <2>3
<1> HIDE DEF S, own, d
<1>5. \A u \in S : (\A o \in S : Phi(rows, v, u, w) <= Phi(rows, v, o, w)) <=> Phi(rows, v, u, w) = d
  BY <1>1, <1>3, <1>4
<1>6. Fewest(S, rows, v, w) = {u \in S : Phi(rows, v, u, w) = d} /\ own \in Fewest(S, rows, v, w)
  BY <1>1, <1>5 DEF Fewest
<1> QED
  BY <1>6 DEF S, own, d

(* A set of functionals filtered by the transforms of the two halves.        *)
LEMMA CombinedValue ==
  ASSUME NEW rows \in Codes, NEW v \in Candidates[rows], NEW w \in 1 .. N, NEW u \in Functionals(rows),
         NEW f, \A e \in Coords(rows) : f[e] = HatC(rows, w)[e],
         NEW g, \A e \in Coords(rows) : g[e] = HatV(rows, v, w)[e]
  PROVE  /\ Phi(rows, v, u, w) \in Nat
         /\ NumC(rows, w) \in Nat /\ NumV(rows, v, w) \in Nat
         /\ Combined(f, g, rows, u) = NumC(rows, w) + NumV(rows, v, w) - 2 * Phi(rows, v, u, w)
<1> DEFINE own == Own(rows)
           c == NumC(rows, w)
           d == NumV(rows, v, w)
<1>1. \/ u \in Coords(rows) \ {Zero}
      \/ u \ own \in Coords(rows) /\ u = (u \ own) \cup own
  BY Halves
<1>2. CASE u \in Coords(rows) \ {Zero}
  <2>1. Combined(f, g, rows, u) = HatC(rows, w)[u] + HatV(rows, v, w)[u]
    BY <1>2, Halves DEF Combined
  <2>2. Valued(rows, v, w, u)
    BY <1>2, Values
  <2> QED
    BY <2>1, <2>2 DEF Valued
<1>3. CASE u \ own \in Coords(rows) /\ u = (u \ own) \cup own
  <2> DEFINE e == u \ own
  <2>1. own \subseteq u
    BY <1>3
  <2>2. Combined(f, g, rows, u) = HatC(rows, w)[e] - HatV(rows, v, w)[e]
    BY <1>3, <2>1 DEF Combined
  <2>3. Valued(rows, v, w, e)
    BY <1>3, Values
  <2>4. Phi(rows, v, e \cup own, w) = Phi(rows, v, u, w)
    BY <1>3
  <2> HIDE DEF e, own
  <2> QED
    BY <2>2, <2>3, <2>4 DEF Valued, own
<1> QED
  BY <1>1, <1>2, <1>3

LEMMA CombinedFewest ==
  ASSUME NEW rows \in Codes, NEW v \in Candidates[rows], NEW w \in 1 .. N,
         NEW f, \A e \in Coords(rows) : f[e] = HatC(rows, w)[e],
         NEW g, \A e \in Coords(rows) : g[e] = HatV(rows, v, w)[e],
         NEW S, S \subseteq Functionals(rows), S # {}
  PROVE  {u \in S : Combined(f, g, rows, u) = Max({Combined(f, g, rows, o) : o \in S})}
           = Fewest(S, rows, v, w)
<1> DEFINE a == NumC(rows, w) + NumV(rows, v, w)
           p == [u \in S |-> Phi(rows, v, u, w)]
           h == [u \in S |-> Combined(f, g, rows, u)]
           T == {h[u] : u \in S}
<1>1. \A u \in S : p[u] \in Nat /\ a \in Nat /\ h[u] = a - 2 * p[u]
  <2> SUFFICES ASSUME NEW u \in S PROVE p[u] \in Nat /\ a \in Nat /\ h[u] = a - 2 * p[u]
    OBVIOUS
  <2>1. u \in Functionals(rows)
    OBVIOUS
  <2>2. /\ Phi(rows, v, u, w) \in Nat
        /\ NumC(rows, w) \in Nat /\ NumV(rows, v, w) \in Nat
        /\ Combined(f, g, rows, u) = NumC(rows, w) + NumV(rows, v, w) - 2 * Phi(rows, v, u, w)
    BY <2>1, CombinedValue
  <2> QED
    BY <2>2
<1>2. Fewest(S, rows, v, w) = {u \in S : \A o \in S : p[u] <= p[o]}
  BY DEF Fewest
<1>3. {u \in S : Combined(f, g, rows, u) = Max({Combined(f, g, rows, o) : o \in S})}
        = {u \in S : h[u] = Max(T)}
  <2>1. {Combined(f, g, rows, o) : o \in S} = T
    OBVIOUS
  <2> QED
    BY <2>1
<1> HIDE DEF a, p, h
<1>4. PICK t \in S : \A o \in S : p[t] <= p[o]
  BY <1>1, FewestOdd
<1>5. T \subseteq Int /\ h[t] \in T /\ \A y \in T : h[t] >= y
  BY <1>1, <1>4
<1> HIDE DEF T
<1>6. Max(T) = h[t]
  BY <1>5, MaxIs
<1>7. \A u \in S : h[u] = h[t] <=> \A o \in S : p[u] <= p[o]
  BY <1>1, <1>4
<1> QED
  BY <1>2, <1>3, <1>6, <1>7

(* ... and by counts that are phi.                                           *)
LEMMA CountFewest ==
  ASSUME NEW rows, NEW v, NEW w, NEW S, S # {}, NEW n,
         \A u \in S : Phi(rows, v, u, w) \in Nat /\ n[u] = Phi(rows, v, u, w)
  PROVE  {u \in S : n[u] = Min({n[o] : o \in S})} = Fewest(S, rows, v, w)
<1> DEFINE p == [u \in S |-> Phi(rows, v, u, w)]
           T == {n[o] : o \in S}
<1>1. Fewest(S, rows, v, w) = {u \in S : \A o \in S : p[u] <= p[o]}
  BY DEF Fewest
<1>2. \A u \in S : p[u] \in Nat /\ n[u] = p[u]
  OBVIOUS
<1> HIDE DEF p
<1>3. PICK t \in S : \A o \in S : p[t] <= p[o]
  BY <1>2, FewestOdd
<1>4. T \subseteq Nat /\ n[t] \in T /\ \A y \in T : n[t] <= y
  BY <1>2, <1>3
<1> HIDE DEF T
<1>5. Min(T) = n[t]
  <2>1. Min(T) \in T /\ \A y \in T : Min(T) <= y
    BY <1>4 DEF Min
  <2>2. Min(T) \in Nat /\ n[t] \in Nat /\ Min(T) <= n[t] /\ n[t] <= Min(T)
    BY <1>4, <2>1
  <2> QED
    BY <2>2
<1>6. \A u \in S : n[u] = n[t] <=> \A o \in S : p[u] <= p[o]
  BY <1>2, <1>3
<1> QED
  BY <1>1, <1>5, <1>6 DEF T

-----------------------------------------------------------------------------
(* All strata: the least list, one weight after the other.                   *)

Unbeaten(rows, v, a) ==
  {u \in Functionals(rows) : \A s \in Weights : s <= a => ~ BeatenAt(rows, v, u, s)}

LEMMA PhiType ==
  ASSUME NEW rows \in Codes, NEW v \in Candidates[rows], NEW s \in Weights
  PROVE  /\ s \in Nat /\ s \in 1 .. N
         /\ \A u \in Functionals(rows) : Phi(rows, v, u, s) \in Nat
         /\ s \notin Strata[rows][v] => \A u \in Functionals(rows) : Phi(rows, v, u, s) = 0
<1>1. s \in 1 .. N /\ s \in Nat
  BY PhiAssumption DEF Weights
<1> DEFINE S == MembersC[rows][s]
           T == MembersV[rows][v][s]
           k == Len(rows)
<1>2. Functionals(rows) \subseteq SUBSET (0 .. k)
  BY DEF Functionals
<1>3. \A u \in SUBSET (0 .. k) :
        /\ Phi(rows, v, u, s) \in Nat
        /\ Phi(rows, v, u, s) =
             OddIn(S, u \ {k}) + (IF k \in u THEN Cardinality(T) - OddIn(T, u \ {k}) ELSE OddIn(T, u \ {k}))
  BY <1>1, PhiSplit
<1>4. s \notin Strata[rows][v] => S = {} /\ T = {}
  BY <1>1 DEF Strata
<1>5. Cardinality({}) = 0 /\ \A u : OddIn({}, u) = 0
  BY FS_EmptySet DEF OddIn
<1> HIDE DEF S, T, k
<1>6. ASSUME s \notin Strata[rows][v], NEW u \in Functionals(rows)
      PROVE  Phi(rows, v, u, s) = 0
  <2>1. OddIn(S, u \ {k}) = 0 /\ OddIn(T, u \ {k}) = 0 /\ Cardinality(T) = 0
    BY <1>4, <1>5, <1>6
  <2> QED
    BY <1>2, <1>3, <2>1
<1>7. \A u \in Functionals(rows) : Phi(rows, v, u, s) \in Nat
  BY <1>2, <1>3
<1> QED
  BY <1>1, <1>6, <1>7

(* Words of D have the weights of a doubly even code, and there are some in  *)
(* v + C.                                                                    *)
LEMMA StrataFacts ==
  ASSUME NEW rows \in Codes, NEW v \in Candidates[rows]
  PROVE  /\ Strata[rows][v] \subseteq Weights
         /\ \E s \in Strata[rows][v] : MembersV[rows][v][s] # {}
<1> DEFINE k == Len(rows)
           D == Append(rows, v)
<1>1. k \in Nat /\ Coords(rows) = SUBSET (0 .. k - 1)
  BY CoordsFinite DEF Coords
<1>2. /\ \A x \in Coords(rows) : Combination(D, x) = Combination(rows, x)
      /\ \A x \in Coords(rows) : Combination(D, x \cup {k}) = Xor(Combination(rows, x), v)
  BY WordsOfD
<1>3. \A x \in SUBSET (0 .. k) : x # Zero => Weight(Combination(D, x)) \in Weights
  BY CandidateAssumption
<1>4. \A x \in Coords(rows) : x \in SUBSET (0 .. k) /\ x \cup {k} \in SUBSET (0 .. k)
  <2>1. k \in 0 .. k /\ \A i \in 0 .. k - 1 : i \in 0 .. k
    BY <1>1
  <2> HIDE DEF k
  <2> QED
    BY <1>1, <2>1
<1>5. Strata[rows][v] = {w \in 1 .. N : MembersC[rows][w] # {} \/ MembersV[rows][v][w] # {}}
  BY DEF Strata
<1> HIDE DEF D, k
<1>6. ASSUME NEW w \in Strata[rows][v] PROVE w \in Weights
  <2>1. w \in 1 .. N
    BY <1>5
  <2>2. CASE MembersC[rows][w] # {}
    <3>1. PICK x \in Coords(rows) : Weight(Combination(rows, x)) = w
      BY <2>1, <2>2, MembersVFacts
    <3>2. x # Zero
      <4>1. Combination(rows, {}) = {} /\ Cardinality({}) = 0
        BY CombinationSmall, FS_EmptySet DEF Zero
      <4>2. w # 0
        BY <2>1
      <4> QED
        BY <3>1, <4>1, <4>2 DEF Weight, Zero
    <3> QED
      BY <1>2, <1>3, <1>4, <3>1, <3>2
  <2>3. CASE MembersV[rows][v][w] # {}
    <3>1. PICK x \in Coords(rows) : Weight(Xor(Combination(rows, x), v)) = w
      BY <2>1, <2>3, MembersVFacts
    <3>2. x \cup {k} # Zero
      BY DEF Zero
    <3>3. x \cup {k} \in SUBSET (0 .. k) /\ Weight(Combination(D, x \cup {k})) = w
      BY <1>2, <1>4, <3>1
    <3> QED
      BY <1>3, <3>2, <3>3
  <2> QED
    BY <1>5, <2>2, <2>3
<1>7. \E s \in Strata[rows][v] : MembersV[rows][v][s] # {}
  <2> DEFINE w == Weight(Xor(Combination(rows, {}), v))
  <2>1. {} \in Coords(rows)
    BY <1>1
  <2>2. {} \cup {k} \in SUBSET (0 .. k) /\ {} \cup {k} # Zero
    BY <1>4, <2>1 DEF Zero
  <2>3. w \in Weights
    BY <1>2, <1>3, <2>1, <2>2
  <2>4. w \in 1 .. N
    BY <2>3 DEF Weights
  <2>5. {} \in MembersV[rows][v][w]
    BY <2>1, <2>4, MembersVFacts
  <2> HIDE DEF w
  <2> QED
    BY <1>5, <2>4, <2>5
<1> QED
  BY <1>6, <1>7

(* Unbeaten functionals have one list.                                       *)
LEMMA Agreement ==
  ASSUME NEW rows \in Codes, NEW v \in Candidates[rows], NEW a \in Nat,
         NEW u \in Unbeaten(rows, v, a), NEW o \in Unbeaten(rows, v, a),
         NEW s \in Weights, s <= a
  PROVE  Phi(rows, v, u, s) = Phi(rows, v, o, s)
<1> DEFINE p(i) == Phi(rows, v, u, i)
           q(i) == Phi(rows, v, o, i)
           Differ == {i \in Weights : i <= a /\ p(i) # q(i)}
<1>1. u \in Functionals(rows) /\ o \in Functionals(rows)
  BY DEF Unbeaten
<1>2. \A i \in Weights : i \in Nat /\ p(i) \in Nat /\ q(i) \in Nat
  BY <1>1, PhiType
<1>3. ASSUME Differ # {} PROVE FALSE
  <2>1. Differ \subseteq Nat
    BY <1>2
  <2>2. PICK i \in Differ : \A j \in Differ : i <= j
    BY <1>3, <2>1, LeastNumber
  <2>3. i \in Weights /\ i <= a /\ p(i) # q(i) /\ i \in Nat
    BY <1>2, <2>2
  <2>4. \A j \in Weights : j < i => p(j) = q(j)
    <3> SUFFICES ASSUME NEW j \in Weights, j < i, p(j) # q(j) PROVE FALSE
      OBVIOUS
    <3>1. j \in Nat /\ j <= a
      BY <1>2, <2>3
    <3>2. j \in Differ
      BY <3>1
    <3> QED
      BY <2>2, <2>3, <3>1, <3>2
  <2>5. p(i) < q(i) \/ q(i) < p(i)
    BY <1>2, <2>3
  <2>6. BeatenAt(rows, v, o, i) \/ BeatenAt(rows, v, u, i)
    BY <1>1, <2>4, <2>5 DEF BeatenAt
  <2> QED
    BY <2>3, <2>6 DEF Unbeaten
<1> QED
  BY <1>3

(* A functional with an unbeaten one's list is unbeaten.                     *)
LEMMA SameList ==
  ASSUME NEW rows \in Codes, NEW v \in Candidates[rows], NEW a \in Nat,
         NEW u \in Unbeaten(rows, v, a), NEW o \in Functionals(rows),
         \A s \in Weights : s <= a => Phi(rows, v, u, s) = Phi(rows, v, o, s)
  PROVE  o \in Unbeaten(rows, v, a)
<1> SUFFICES ASSUME NEW s \in Weights, s <= a, BeatenAt(rows, v, o, s) PROVE FALSE
  BY DEF Unbeaten
<1>1. PICK q \in Functionals(rows) :
        /\ Phi(rows, v, q, s) < Phi(rows, v, o, s)
        /\ \A i \in Weights : i < s => Phi(rows, v, q, i) = Phi(rows, v, o, i)
  BY DEF BeatenAt
<1>2. \A i \in Weights : i \in Nat
  BY PhiType
<1>3. Phi(rows, v, q, s) < Phi(rows, v, u, s)
  BY <1>1
<1>4. \A i \in Weights : i < s => Phi(rows, v, q, i) = Phi(rows, v, u, i)
  <2> SUFFICES ASSUME NEW i \in Weights, i < s PROVE Phi(rows, v, q, i) = Phi(rows, v, u, i)
    OBVIOUS
  <2>1. i <= a
    BY <1>2
  <2> QED
    BY <1>1, <2>1
<1>5. BeatenAt(rows, v, u, s)
  BY <1>1, <1>3, <1>4 DEF BeatenAt
<1> QED
  BY <1>5 DEF Unbeaten

(* The next stratum thins the unbeaten out by its counts alone.              *)
LEMMA StratumFewest ==
  ASSUME NEW rows \in Codes, NEW v \in Candidates[rows], NEW a \in Nat, NEW w \in Strata[rows][v],
         a < w, \A s \in Strata[rows][v] : s > a => w <= s
  PROVE  Unbeaten(rows, v, w) = Fewest(Unbeaten(rows, v, a), rows, v, w)
<1> DEFINE U == Unbeaten(rows, v, a)
           p(u, i) == Phi(rows, v, u, i)
<1>1. w \in Weights /\ w \in Nat
  BY StrataFacts, PhiType
<1>2. \A s \in Weights : s \in Nat /\ \A u \in Functionals(rows) : p(u, s) \in Nat
  BY PhiType
<1>3. ASSUME NEW s \in Weights, s > a, s < w
      PROVE  \A u \in Functionals(rows) : p(u, s) = 0
  <2>1. s \notin Strata[rows][v]
    BY <1>1, <1>2, <1>3
  <2> QED
    BY <2>1, PhiType
<1>4. U \subseteq Functionals(rows)
  BY DEF Unbeaten
<1>5. \A u, o \in U : \A s \in Weights : s < w => p(u, s) = p(o, s)
  <2> SUFFICES ASSUME NEW u \in U, NEW o \in U, NEW s \in Weights, s < w PROVE p(u, s) = p(o, s)
    OBVIOUS
  <2>1. CASE s <= a
    BY <2>1, Agreement
  <2>2. CASE ~ (s <= a)
    <3>1. s > a
      BY <1>2, <2>2
    <3> HIDE DEF U
    <3> QED
      BY <1>3, <1>4, <3>1
  <2> QED
    BY <2>1, <2>2
<1>6. ASSUME NEW u \in U
      PROVE  u \in Unbeaten(rows, v, w) <=> \A o \in U : p(u, w) <= p(o, w)
  <2>1. u \in Functionals(rows)
    BY <1>4
  <2>2. ASSUME NEW o \in U, ~ (p(u, w) <= p(o, w)) PROVE u \notin Unbeaten(rows, v, w)
    <3>1. o \in Functionals(rows)
      BY <1>4
    <3>2. p(o, w) < p(u, w)
      BY <1>1, <1>2, <2>1, <2>2, <3>1
    <3>3. \A i \in Weights : i < w => p(o, i) = p(u, i)
      BY <1>5
    <3>4. BeatenAt(rows, v, u, w)
      BY <3>1, <3>2, <3>3 DEF BeatenAt
    <3>5. w <= w
      BY <1>1
    <3> QED
      BY <1>1, <3>4, <3>5 DEF Unbeaten
  <2>3. ASSUME \A o \in U : p(u, w) <= p(o, w) PROVE u \in Unbeaten(rows, v, w)
    <3> SUFFICES ASSUME NEW s \in Weights, s <= w, BeatenAt(rows, v, u, s) PROVE FALSE
      BY <2>1 DEF Unbeaten
    <3>1. PICK q \in Functionals(rows) :
            /\ p(q, s) < p(u, s)
            /\ \A i \in Weights : i < s => p(q, i) = p(u, i)
      BY DEF BeatenAt
    <3>2. s \in Nat
      BY <1>2
    <3>3. CASE s <= a
      <4>1. BeatenAt(rows, v, u, s)
        OBVIOUS
      <4> QED
        BY <3>3, <4>1 DEF Unbeaten
    <3>4. CASE s > a /\ s < w
      <4>1. p(q, s) = 0 /\ p(u, s) = 0
        BY <1>3, <2>1, <3>4
      <4> HIDE DEF p
      <4> QED
        BY <3>1, <4>1
    <3>5. CASE s = w
      <4>1. \A i \in Weights : i <= a => p(u, i) = p(q, i)
        BY <1>1, <1>2, <3>1, <3>5
      <4>2. q \in U
        BY <4>1, SameList
      <4>3. p(u, w) <= p(q, w) /\ p(q, w) < p(u, w)
        BY <2>3, <3>1, <3>5, <4>2
      <4>4. p(u, w) \in Nat /\ p(q, w) \in Nat
        BY <1>1, <1>2, <2>1
      <4> HIDE DEF p
      <4> QED
        BY <4>3, <4>4
    <3>6. s <= a \/ (s > a /\ s < w) \/ s = w
      BY <1>1, <3>2
    <3> QED
      BY <3>3, <3>4, <3>5, <3>6
  <2> QED
    BY <2>2, <2>3
<1>7. Unbeaten(rows, v, w) \subseteq U
  <2>1. \A s \in Weights : s <= a => s <= w
    BY <1>1, <1>2
  <2> QED
    BY <2>1 DEF Unbeaten
<1> HIDE DEF U
<1>8. Fewest(U, rows, v, w) = {u \in U : \A o \in U : p(u, w) <= p(o, w)}
  BY DEF Fewest
<1> HIDE DEF p
<1> QED
  BY <1>6, <1>7, <1>8 DEF U

(* Where the sets go from there.                                             *)
LEMMA UnbeatenFacts ==
  ASSUME NEW rows \in Codes, NEW v \in Candidates[rows], NEW a \in 0 .. N
  PROVE  /\ Unbeaten(rows, v, a) \subseteq Functionals(rows)
         /\ Unbeaten(rows, v, N) \subseteq Unbeaten(rows, v, a)
         /\ Unbeaten(rows, v, 0) = Functionals(rows)
         /\ (\A s \in Strata[rows][v] : s <= a) => Unbeaten(rows, v, N) = Unbeaten(rows, v, a)
         /\ \A u : Unbeaten(rows, v, a) = {u} => Unbeaten(rows, v, N) = {u}
<1>1. N \in Nat /\ a \in Nat /\ a <= N
  BY PhiAssumption
<1>2. \A s \in Weights : /\ s \in Nat /\ s >= 1 /\ s <= N
                         /\ \A u \in Functionals(rows) : Phi(rows, v, u, s) \in Nat
  BY <1>1, PhiType
<1>3. Unbeaten(rows, v, a) \subseteq Functionals(rows)
  BY DEF Unbeaten
<1>4. Unbeaten(rows, v, N) \subseteq Unbeaten(rows, v, a)
  BY <1>1, <1>2 DEF Unbeaten
<1>5. Unbeaten(rows, v, 0) = Functionals(rows)
  BY <1>2 DEF Unbeaten
<1>6. ASSUME \A s \in Strata[rows][v] : s <= a
      PROVE  Unbeaten(rows, v, a) \subseteq Unbeaten(rows, v, N)
  <2> SUFFICES ASSUME NEW u \in Unbeaten(rows, v, a), NEW s \in Weights, BeatenAt(rows, v, u, s)
               PROVE  FALSE
    BY <1>3 DEF Unbeaten
  <2>1. ~ (s <= a)
    BY DEF Unbeaten
  <2>2. s \notin Strata[rows][v]
    BY <1>6, <2>1
  <2>3. u \in Functionals(rows)
    BY <1>3
  <2>4. PICK q \in Functionals(rows) : Phi(rows, v, q, s) < Phi(rows, v, u, s)
    BY DEF BeatenAt
  <2>5. Phi(rows, v, q, s) = 0 /\ Phi(rows, v, u, s) = 0
    BY <2>2, <2>3, <2>4, PhiType
  <2> QED
    BY <2>4, <2>5
<1>7. ASSUME NEW u, Unbeaten(rows, v, a) = {u}
      PROVE  u \in Unbeaten(rows, v, N)
  <2>1. u \in Unbeaten(rows, v, a) /\ u \in Functionals(rows)
    BY <1>3, <1>7
  <2> SUFFICES ASSUME NEW s \in Weights, BeatenAt(rows, v, u, s) PROVE FALSE
    BY <2>1 DEF Unbeaten
  <2>2. ~ (s <= a)
    BY <2>1 DEF Unbeaten
  <2>3. PICK q \in Functionals(rows) :
          /\ Phi(rows, v, q, s) < Phi(rows, v, u, s)
          /\ \A i \in Weights : i < s => Phi(rows, v, q, i) = Phi(rows, v, u, i)
    BY DEF BeatenAt
  <2>4. \A i \in Weights : i <= a => Phi(rows, v, u, i) = Phi(rows, v, q, i)
    <3> SUFFICES ASSUME NEW i \in Weights, i <= a PROVE Phi(rows, v, u, i) = Phi(rows, v, q, i)
      OBVIOUS
    <3>1. i < s
      BY <1>1, <1>2, <2>2
    <3> QED
      BY <2>3, <3>1
  <2>5. q \in Unbeaten(rows, v, a)
    BY <1>1, <2>1, <2>4, SameList
  <2>6. q = u
    BY <1>7, <2>5
  <2>7. Phi(rows, v, u, s) \in Nat
    BY <1>2, <2>1
  <2> QED
    BY <2>3, <2>6, <2>7
<1> QED
  BY <1>3, <1>4, <1>5, <1>6, <1>7

(* The property's argmin sets are these.                                     *)
LEMMA ArgminIs ==
  ASSUME Rows \in Codes, cand \in Candidates[Rows], NEW a \in 0 .. N
  PROVE  Argmin(a) = Unbeaten(Rows, cand, a)
<1>1. ASSUME NEW u \in Functionals(Rows)
      PROVE  LossOf[Rows, cand, u] > a <=> \A s \in Weights : s <= a => ~ BeatenAt(Rows, cand, u, s)
  <2> DEFINE B == {s \in Weights : BeatenAt(Rows, cand, u, s)} \cup {N + 1}
             t == <<Rows, cand, u>>
  <2>1. t \in Tests
    BY DEF Tests
  <2>2. LossOf[t] = Min({s \in Weights : BeatenAt(t[1], t[2], t[3], s)} \cup {N + 1})
    <3> HIDE DEF t
    <3> QED
      BY <2>1 DEF LossOf
  <2>3. LossOf[Rows, cand, u] = Min(B)
    BY <2>2
  <2>4. N \in Nat /\ a \in Nat /\ a <= N /\ \A s \in Weights : s \in Nat
    BY PhiAssumption DEF Weights
  <2>5. B \subseteq Nat /\ B # {}
    BY <2>4
  <2>6. \A s \in B : s = N + 1 \/ (s \in Weights /\ BeatenAt(Rows, cand, u, s))
    OBVIOUS
  <2>7. \A s \in Weights : BeatenAt(Rows, cand, u, s) => s \in B
    OBVIOUS
  <2> HIDE DEF B
  <2>8. Min(B) \in B /\ \A y \in B : Min(B) <= y
    <3>1. \E x \in B : \A y \in B : x <= y
      BY <2>5, LeastNumber
    <3> QED
      BY <3>1 DEF Min
  <2>9. Min(B) \in Nat
    BY <2>5, <2>8
  <2>10. ASSUME Min(B) > a, NEW s \in Weights, s <= a, BeatenAt(Rows, cand, u, s) PROVE FALSE
    <3>1. s \in B /\ s \in Nat
      BY <2>4, <2>7, <2>10
    <3>2. Min(B) <= s
      BY <2>8, <3>1
    <3> QED
      BY <2>4, <2>9, <2>10, <3>1, <3>2
  <2>11. ASSUME \A s \in Weights : s <= a => ~ BeatenAt(Rows, cand, u, s) PROVE Min(B) > a
    <3>1. CASE Min(B) = N + 1
      BY <2>4, <3>1
    <3>2. CASE Min(B) \in Weights /\ BeatenAt(Rows, cand, u, Min(B))
      BY <2>4, <2>9, <2>11, <3>2
    <3> QED
      BY <2>6, <2>8, <3>1, <3>2
  <2> QED
    BY <2>3, <2>10, <2>11
<1> QED
  BY <1>1 DEF Argmin, Unbeaten

-----------------------------------------------------------------------------
(* The invariant of a test: what is left, written out or standing in the     *)
(* chain, is what is unbeaten so far; and a verdict is that of all strata.   *)

Tracking ==
  /\ at <= N
  /\ listed = <<>> \/ listed = MembersV[Rows][cand]
  /\ at > 0 => /\ CurrentSet = Unbeaten(Rows, cand, at) /\ uC \in CurrentSet
               /\ chain = 0 => m # {uC}
  /\ chain > 0 => \A s \in 1 .. N : s <= at => MembersV[Rows][cand][s] = {}

RuleInv == (outcome = "none" => Tracking) /\ VerdictIsRule

Before == IF at = 0 THEN Functionals(Rows) ELSE CurrentSet

Known(w) ==
  /\ Rows \in Codes /\ cand \in Candidates[Rows] /\ Underway /\ Tracking
  /\ at' = w /\ cand' = cand /\ frames # <<>> /\ Stacked
  /\ TC(w) = NumC(Rows, w) /\ TV(w) = NumV(Rows, cand, w) /\ uC = Own(Rows)
  /\ NumC(Rows, w) \in Nat /\ NumV(Rows, cand, w) \in Nat
  /\ Unbeaten(Rows, cand, w) = Fewest(Before, Rows, cand, w)
  /\ uC \in Before /\ Before \subseteq Functionals(Rows)
  /\ w \in Strata[Rows][cand]
  /\ at \in Nat /\ w > at /\ \A s \in Strata[Rows][cand] : s > at => w <= s

LEMMA StratumKnown ==
  ASSUME CascadeInv, RuleInv, NEW w \in 1 .. N, Stratum(w)
  PROVE  Known(w)
<1>1. /\ ~ Idle /\ Rows \in Codes /\ Underway /\ at' = w /\ cand' = cand
  BY StratumFacts
<1>2. frames # <<>> /\ cand \in Candidates[Rows] /\ at \in Nat /\ Stacked /\ Tracking
  BY <1>1 DEF Underway, CascadeInv, RuleInv, Idle
<1>3. /\ w > at /\ w \in Strata[Rows][cand]
      /\ \A s \in Strata[Rows][cand] : s > at => w <= s
  BY DEF Stratum
<1>4. TC(w) = NumC(Rows, w) /\ TV(w) = NumV(Rows, cand, w) /\ uC = Own(Rows)
  BY DEF TC, TV, NumC, NumV, uC
<1>5. NumC(Rows, w) \in Nat /\ NumV(Rows, cand, w) \in Nat
  BY <1>1, <1>2, AtZero, Values DEF Valued
<1>6. N \in Nat /\ 0 \in 0 .. N
  BY PhiAssumption
<1>7. Before = Unbeaten(Rows, cand, at) /\ uC \in Before
  <2>1. CASE at = 0
    <3>1. Unbeaten(Rows, cand, 0) = Functionals(Rows)
      BY <1>1, <1>2, <1>6, UnbeatenFacts
    <3>2. uC \in Functionals(Rows)
      BY <1>1, <1>4, Halves
    <3> QED
      BY <2>1, <3>1, <3>2 DEF Before
  <2>2. CASE at # 0
    BY <1>2, <2>2 DEF Before, Tracking
  <2> QED
    BY <2>1, <2>2
<1>8. Unbeaten(Rows, cand, w) = Fewest(Before, Rows, cand, w)
  <2>1. at < w
    BY <1>2, <1>3
  <2> QED
    BY <1>1, <1>2, <1>3, <1>7, <2>1, StratumFewest
<1>9. Before \subseteq Functionals(Rows)
  BY <1>7 DEF Unbeaten
<1> QED
  BY <1>1, <1>2, <1>3, <1>4, <1>5, <1>7, <1>8, <1>9 DEF Known

LEMMA SameRule ==
  ASSUME Rows' = Rows, cand' = cand
  PROVE  /\ uC' = uC /\ Argmin(N)' = Argmin(N)
         /\ \A a : Unbeaten(Rows', cand', a) = Unbeaten(Rows, cand, a)
         /\ MembersV[Rows'][cand'] = MembersV[Rows][cand]
<1>1. uC' = uC
  BY DEF uC
<1>2. Argmin(N)' = Argmin(N)
  BY DEF Argmin
<1> QED
  BY <1>1, <1>2

(* A verdict at stratum w is the verdict.                                    *)
LEMMA Settles ==
  ASSUME NEW w \in 1 .. N, Known(w), Rows' = Rows, outcome' \in {"reject", "unique"},
         outcome' = "reject" => uC \notin Unbeaten(Rows, cand, w),
         outcome' = "unique" => Unbeaten(Rows, cand, w) = {uC}
  PROVE  RuleInv'
<1>1. Rows \in Codes /\ cand \in Candidates[Rows] /\ cand' = cand
  BY DEF Known
<1>2. w \in 0 .. N /\ N \in 0 .. N
  BY PhiAssumption
<1>3. Argmin(N) = Unbeaten(Rows, cand, N)
  BY <1>1, <1>2, ArgminIs
<1>4. uC' = uC /\ Argmin(N)' = Argmin(N)
  BY <1>1, SameRule
<1>5. outcome' = "reject" => uC \notin Argmin(N)
  BY <1>1, <1>2, <1>3, UnbeatenFacts
<1>6. outcome' = "unique" => Argmin(N) = {uC}
  BY <1>1, <1>2, <1>3, UnbeatenFacts
<1>7. VerdictIsRule'
  BY <1>4, <1>5, <1>6 DEF VerdictIsRule
<1> QED
  BY <1>7 DEF RuleInv

(* The test goes on.                                                         *)
LEMMA GoesOn ==
  ASSUME NEW w \in 1 .. N, Known(w), Rows' = Rows, outcome' = "none",
         listed' = <<>> \/ listed' = MembersV[Rows][cand],
         CurrentSet' = Unbeaten(Rows, cand, w), uC \in Unbeaten(Rows, cand, w),
         chain' = 0 => m' # {uC},
         chain' > 0 => chain > 0 \/ at = 0,
         chain' > 0 => NumV(Rows, cand, w) = 0
  PROVE  RuleInv'
<1>1. Rows \in Codes /\ cand \in Candidates[Rows] /\ cand' = cand /\ at' = w /\ Tracking /\ at \in Nat
  BY DEF Known
<1>2. N \in Nat /\ w <= N
  BY PhiAssumption
<1>3. uC' = uC /\ Unbeaten(Rows', cand', at') = Unbeaten(Rows, cand, w) /\ MembersV[Rows'][cand'] = MembersV[Rows][cand]
  BY <1>1, SameRule
<1>4. ASSUME chain' > 0, NEW s \in 1 .. N, s <= w
      PROVE  MembersV[Rows][cand][s] = {}
  <2>1. CASE s <= at
    <3>1. chain > 0
      BY <1>1, <1>4, <2>1
    <3> QED
      BY <1>1, <2>1, <3>1 DEF Tracking
  <2>2. CASE s > at /\ s < w
    <3>1. s \notin Strata[Rows][cand]
      BY <1>2, <2>2 DEF Known
    <3> QED
      BY <1>1, <3>1 DEF Strata
  <2>3. CASE s = w
    <3>1. Cardinality(MembersV[Rows][cand][w]) = 0
      BY <1>4 DEF NumV
    <3>2. IsFiniteSet(MembersV[Rows][cand][w])
      BY <1>1, CoordsFinite, MembersVFacts, FS_Subset
    <3> QED
      BY <2>3, <3>1, <3>2, FS_EmptySet
  <2>4. s <= at \/ (s > at /\ s < w) \/ s = w
    BY <1>1, <1>2, <1>4
  <2> QED
    BY <2>1, <2>2, <2>3, <2>4
<1>5. Tracking'
  BY <1>1, <1>2, <1>3, <1>4 DEF Tracking
<1>6. ~ Decided'
  BY DEF Decided
<1> QED
  BY <1>5, <1>6 DEF RuleInv, VerdictIsRule

(* A set has been written out.                                               *)
LEMMA WrittenOut ==
  ASSUME NEW w \in 1 .. N, Known(w), Rows' = Rows,
         listed' = <<>> \/ listed' = MembersV[Rows][cand],
         m' = Unbeaten(Rows, cand, w), outcome' = Verdict(m'), chain' = 0
  PROVE  RuleInv'
<1> DEFINE left == Unbeaten(Rows, cand, w)
<1>1. m' = left /\ outcome' = Verdict(left)
  OBVIOUS
<1> HIDE DEF left
<1>2. CASE uC \notin left
  <2>1. outcome' = "reject"
    BY <1>1, <1>2 DEF Verdict
  <2> QED
    BY <1>2, <2>1, Settles DEF left
<1>3. CASE left = {uC}
  <2>1. outcome' = "unique"
    BY <1>1, <1>3 DEF Verdict
  <2> QED
    BY <1>3, <2>1, Settles DEF left
<1>4. CASE uC \in left /\ left # {uC}
  <2>1. outcome' = "none"
    BY <1>1, <1>4 DEF Verdict
  <2>2. CurrentSet' = left
    BY <1>1 DEF CurrentSet
  <2>3. ~ (chain' > 0)
    OBVIOUS
  <2> QED
    BY <1>1, <1>4, <2>1, <2>2, <2>3, GoesOn DEF left
<1> QED
  BY <1>2, <1>3, <1>4

-----------------------------------------------------------------------------
(* The steps of the walk.                                                    *)

LEMMA InitRule == Init => RuleInv
BY DEF Init, RuleInv, VerdictIsRule, Decided

LEMMA WalkRule ==
  ASSUME RuleInv, \/ \E c \in Codes : OpenSeed(c)
                  \/ Descend
                  \/ CloseFrame
  PROVE  RuleInv'
<1>1. outcome' = "idle"
  BY DEF OpenSeed, Descend, CloseFrame
<1> QED
  BY <1>1 DEF RuleInv, VerdictIsRule, Decided

LEMMA BeginRule == ASSUME NEW v, Begin(v) PROVE RuleInv'
<1>1. at' = 0 /\ chain' = 0 /\ listed' = <<>> /\ outcome' = "none"
  BY DEF Begin
<1>2. 0 <= N /\ ~ (0 > 0)
  BY PhiAssumption
<1>3. Tracking'
  BY <1>1, <1>2 DEF Tracking
<1> QED
  BY <1>1, <1>3 DEF RuleInv, VerdictIsRule, Decided

LEMMA SameStateRule == ASSUME RuleInv, UNCHANGED vars PROVE RuleInv'
<1>1. UNCHANGED <<frames, cand, at, chain, m, listed, outcome>>
  BY DEF vars
<1>2. Rows' = Rows /\ Ctx' = Ctx /\ uC' = uC
  BY <1>1 DEF Rows, Ctx, Top, uC
<1>3. CurrentSet' = CurrentSet
  BY <1>1, <1>2 DEF CurrentSet
<1>4. Tracking' = Tracking
  BY <1>1, <1>2, <1>3 DEF Tracking
<1>5. Argmin(N)' = Argmin(N)
  BY <1>1, <1>2 DEF Argmin
<1>6. VerdictIsRule' = VerdictIsRule
  BY <1>1, <1>2, <1>5 DEF VerdictIsRule, Decided
<1> QED
  BY <1>1, <1>4, <1>6 DEF RuleInv

-----------------------------------------------------------------------------
(* The strata that settle a candidate without a set.                         *)

(* A frame with one row.                                                     *)
LEMMA OneRow ==
  ASSUME NEW rows \in Codes, rows = <<>>
  PROVE  Functionals(rows) = {Own(rows)}
<1>1. Len(rows) = 0
  OBVIOUS
<1>2. 0 .. Len(rows) = {0}
  BY <1>1
<1>3. \A u : u \in (SUBSET {0}) \ {{}} <=> u = {0}
  OBVIOUS
<1> QED
  BY <1>1, <1>2, <1>3 DEF Functionals, Own, Zero

LEMMA TrivialFrameRule ==
  ASSUME CascadeInv, RuleInv, NEW w \in 1 .. N, TrivialFrame(w) PROVE RuleInv'
<1>1. Stratum(w) /\ at = 0 /\ Rows = <<>> /\ outcome' = "unique" /\ UNCHANGED frames
  BY DEF TrivialFrame, First, Resolve
<1>2. Known(w)
  BY <1>1, StratumKnown
<1>3. Before = {uC}
  <2>1. Functionals(Rows) = {Own(Rows)}
    BY <1>1, <1>2, OneRow DEF Known
  <2> QED
    BY <1>1, <1>2, <2>1 DEF Before, Known
<1>4. Phi(Rows, cand, uC, w) \in Nat
  BY <1>2, AtZero DEF Known
<1>5. Fewest(Before, Rows, cand, w) = {uC}
  BY <1>3, <1>4 DEF Fewest
<1>6. Rows' = Rows
  BY <1>1 DEF Rows, Top
<1> QED
  BY <1>1, <1>2, <1>5, <1>6, Settles DEF Known

(* Some functional of C vanishes where C has words of the weight.            *)
LEMMA CosetOnlyLoses ==
  ASSUME NEW rows \in Codes, NEW v \in Candidates[rows], NEW w \in Strata[rows][v],
         NumC(rows, w) = 0, NEW S, Own(rows) \in S,
         NEW e \in Coords(rows), e \in S, e \cup Own(rows) \in S
  PROVE  Own(rows) \notin Fewest(S, rows, v, w)
<1>1. w \in 1 .. N
  BY DEF Strata
<1>2. /\ IsFiniteSet(MembersC[rows][w]) /\ IsFiniteSet(MembersV[rows][v][w])
  BY <1>1, CoordsFinite, MembersVFacts, FS_Subset
<1>3. MembersC[rows][w] = {}
  BY <1>2, FS_EmptySet DEF NumC
<1>4. MembersV[rows][v][w] # {}
  BY <1>1, <1>3 DEF Strata
<1>5. NumV(rows, v, w) # 0
  BY <1>2, <1>4, FS_EmptySet DEF NumV
<1> DEFINE c == NumC(rows, w)
           d == NumV(rows, v, w)
           f == HatC(rows, w)[e]
           g == HatV(rows, v, w)[e]
<1>6. c = 0 /\ d # 0 /\ d \in Nat /\ f \in Int /\ g \in Int /\ f <= c /\ - f <= c
  BY <1>1, <1>5, Values DEF Valued
<1>7. c \in Nat /\ g <= d /\ - g <= d
  BY <1>1, Values DEF Valued
<1>8. f + g > c - d \/ f - g > c - d
  <2> HIDE DEF c, d, f, g
  <2>1. f = 0
    BY <1>6
  <2> QED
    BY <1>6, <1>7, <2>1
<1> QED
  BY <1>1, <1>8, LosesTo

LEMMA FirstCosetOnlyRule ==
  ASSUME CascadeInv, RuleInv, NEW w \in 1 .. N, FirstCosetOnly(w) PROVE RuleInv'
<1>1. Stratum(w) /\ at = 0 /\ Rows # <<>> /\ TC(w) = 0 /\ outcome' = "reject" /\ UNCHANGED frames
  BY DEF FirstCosetOnly, First, Resolve
<1>2. Known(w)
  BY <1>1, StratumKnown
<1>3. Rows \in Codes /\ cand \in Candidates[Rows] /\ w \in Strata[Rows][cand] /\ NumC(Rows, w) = 0
  BY <1>1, <1>2 DEF Known
<1>4. Before = Functionals(Rows)
  BY <1>1 DEF Before
<1>5. {0} \in Coords(Rows) /\ {0} # Zero
  <2>1. Len(Rows) \in Nat /\ Len(Rows) # 0
    BY <1>1, <1>3, PhiAssumption
  <2>2. 0 \in 0 .. Len(Rows) - 1
    BY <2>1
  <2> QED
    BY <2>2 DEF Coords, Zero
<1>6. {0} \in Before /\ {0} \cup Own(Rows) \in Before /\ Own(Rows) \in Before
  BY <1>3, <1>4, <1>5, Halves
<1>7. uC \notin Fewest(Before, Rows, cand, w)
  BY <1>3, <1>5, <1>6, CosetOnlyLoses DEF uC
<1>8. Rows' = Rows
  BY <1>1 DEF Rows, Top
<1> QED
  BY <1>1, <1>2, <1>7, <1>8, Settles DEF Known

(* An entry of the chain that stands for the surviving set.                  *)
LEMMA OnEntry ==
  ASSUME Underway, chain > 0, Rows \in Codes, NEW e \in Ctx.chainE[chain]
  PROVE  /\ e \in Coords(Rows) \ {Zero} /\ e \in CurrentSet /\ e \cup Own(Rows) \in CurrentSet
         /\ Before = CurrentSet
<1>1. chain \in 1 .. Ctx.chainLen /\ Owned(Rows, Ctx) /\ at # 0
  BY OffStart DEF Underway, Owned, Storage
<1>2. Ctx.chainE[chain] = Vanishing(Rows, Ctx, chain)
  BY <1>1 DEF Owned, Entry
<1>3. CurrentSet = Pairs(Ctx.chainE[chain], uC)
  BY DEF CurrentSet
<1> QED
  BY <1>1, <1>2, <1>3 DEF Vanishing, Pairs, Before, uC

LEMMA ChainCosetOnlyRule ==
  ASSUME CascadeInv, RuleInv, NEW w \in 1 .. N, ChainCosetOnly(w) PROVE RuleInv'
<1>1. Stratum(w) /\ chain > 0 /\ TC(w) = 0 /\ outcome' = "reject" /\ UNCHANGED frames
  BY DEF ChainCosetOnly, OnChain, Resolve
<1>2. Known(w)
  BY <1>1, StratumKnown
<1>3. /\ Rows \in Codes /\ cand \in Candidates[Rows] /\ w \in Strata[Rows][cand] /\ NumC(Rows, w) = 0
      /\ uC = Own(Rows) /\ uC \in Before
  BY <1>1, <1>2 DEF Known
<1>4. PICK e \in Ctx.chainE[chain] : TRUE
  BY <1>1, <1>2 DEF Known, Underway
<1>5. e \in Coords(Rows) /\ e \in Before /\ e \cup Own(Rows) \in Before
  BY <1>1, <1>2, <1>4, OnEntry DEF Known
<1>6. uC \notin Fewest(Before, Rows, cand, w)
  BY <1>3, <1>5, CosetOnlyLoses
<1>7. Rows' = Rows
  BY <1>1 DEF Rows, Top
<1> QED
  BY <1>1, <1>2, <1>6, <1>7, Settles DEF Known

(* All functionals, before the first stratum.                                *)
LEMMA AllPairs ==
  ASSUME NEW rows \in Codes
  PROVE  Functionals(rows) = Pairs(Coords(rows) \ {Zero}, Own(rows))
<1> DEFINE own == Own(rows)
           E == Coords(rows) \ {Zero}
<1>1. /\ own \in Functionals(rows) /\ Zero \cup own = own
      /\ \A e \in E : e \in Functionals(rows) /\ e \cup own \in Functionals(rows)
  BY Halves DEF Zero
<1>2. \A u \in Functionals(rows) : u \in E \/ (u \ own \in Coords(rows) /\ u = (u \ own) \cup own)
  BY Halves
<1>3. ASSUME NEW u \in Functionals(rows), u \notin E
      PROVE  u = own \/ \E e \in E : u = e \cup own
  <2>1. u \ own \in Coords(rows) /\ u = (u \ own) \cup own
    BY <1>2, <1>3
  <2> QED
    BY <1>1, <2>1
<1>4. \A u : u \in Pairs(E, own) <=> u \in E \/ u = own \/ \E e \in E : u = e \cup own
  BY DEF Pairs
<1> HIDE DEF E, own
<1>5. Functionals(rows) \subseteq Pairs(E, own)
  BY <1>3, <1>4
<1>6. ASSUME NEW u \in Pairs(E, own) PROVE u \in Functionals(rows)
  <2>1. CASE u \in E
    BY <1>1, <2>1
  <2>2. CASE u = own
    BY <1>1, <2>2
  <2>3. CASE \E e \in E : u = e \cup own
    BY <1>1, <2>3
  <2> QED
    BY <1>4, <2>1, <2>2, <2>3
<1> QED
  BY <1>5, <1>6 DEF E, own

LEMMA TransformIs ==
  ASSUME NEW rows \in Codes, NEW b, Owned(rows, b), NEW w \in b.built
  PROVE  /\ b.fhat[w] = HatC(rows, w)
         /\ ESet(b, w) = {u \in Coords(rows) \ {Zero} : HatC(rows, w)[u] = NumC(rows, w)}
         /\ AMax(b, w) = Best(rows, w, Coords(rows) \ {Zero})
<1>1. b.fhat[w] = HatC(rows, w) /\ b.rows = rows
  BY DEF Owned, HatC
<1> QED
  BY <1>1 DEF ESet, AMax, Best, NumC, HatC

LEMMA FirstCodeOnlyRule ==
  ASSUME CascadeInv, RuleInv, NEW w \in 1 .. N, FirstCodeOnly(w) PROVE RuleInv'
<1> DEFINE b == EnsureFHat(Ctx, w)
           e == EnsureChain(b, 1, w)
           E == ESet(b, w)
<1>1. Stratum(w) /\ at = 0 /\ TC(w) > 0 /\ TV(w) = 0
  BY DEF FirstCodeOnly, First
<1>2. \/ E = {} /\ WithCtx(b) /\ outcome' = "unique"
      \/ E # {} /\ WithCtx(e) /\ chain' = 1 /\ UNCHANGED <<m, listed, outcome>>
  BY DEF FirstCodeOnly, Resolve
<1>3. Known(w) /\ ~ Idle
  BY <1>1, StratumKnown, StratumFacts
<1>4. /\ Rows \in Codes /\ cand \in Candidates[Rows] /\ NumV(Rows, cand, w) = 0 /\ uC = Own(Rows)
      /\ Stacked /\ frames # <<>> /\ Tracking
  BY <1>1, <1>3 DEF Known
<1>5. Owned(Rows, b) /\ w \in b.built /\ e.chainE[1] = E
  BY <1>1, FirstChain
<1> HIDE DEF b, e
<1>6. E = {u \in Coords(Rows) \ {Zero} : HatC(Rows, w)[u] = NumC(Rows, w)}
  <2>1. Rows \in Codes /\ Owned(Rows, b) /\ w \in b.built
    BY <1>4, <1>5
  <2> QED
    BY <2>1, TransformIs
<1> HIDE DEF E
<1>7. Before = Pairs(Coords(Rows) \ {Zero}, Own(Rows))
  BY <1>1, <1>4, AllPairs DEF Before
<1>8. Fewest(Before, Rows, cand, w) = Pairs(E, Own(Rows))
  BY <1>4, <1>6, <1>7, CodeOnlyFewest
<1>9. Unbeaten(Rows, cand, w) = Pairs(E, uC)
  BY <1>3, <1>4, <1>8 DEF Known
<1>10. CASE E = {} /\ WithCtx(b) /\ outcome' = "unique"
  <2>1. Rows' = Rows
    BY <1>4, <1>10, TopSet
  <2>2. Pairs(E, uC) = {uC}
    BY <1>10 DEF Pairs
  <2> QED
    BY <1>3, <1>9, <1>10, <2>1, <2>2, Settles
<1>11. CASE E # {} /\ WithCtx(e) /\ chain' = 1 /\ UNCHANGED <<m, listed, outcome>>
  <2>1. Rows' = Rows /\ Ctx' = e
    BY <1>4, <1>11, TopSet
  <2>2. uC' = uC
    BY <2>1 DEF uC
  <2>3. CurrentSet' = Pairs(E, uC)
    BY <1>5, <1>11, <2>1, <2>2 DEF CurrentSet
  <2>4. uC \in Pairs(E, uC)
    BY DEF Pairs
  <2>5. outcome' = "none" /\ (listed' = <<>> \/ listed' = MembersV[Rows][cand])
    BY <1>3, <1>4, <1>11 DEF Idle, Tracking
  <2>6. ~ (chain' = 0)
    BY <1>11
  <2> QED
    BY <1>1, <1>3, <1>4, <1>9, <2>1, <2>3, <2>4, <2>5, <2>6, GoesOn
<1> QED
  BY <1>2, <1>10, <1>11

(* The chain's next entry.                                                   *)
LEMMA NextEntry ==
  ASSUME NEW rows \in Codes, NEW b, Owned(rows, b), NEW j \in Nat, j > 0, j + 1 <= b.chainLen,
         NEW w \in 1 .. N, b.chainW[j + 1] = w
  PROVE  /\ b.chainE[j] \subseteq Coords(rows) \ {Zero} /\ b.chainE[j] # {}
         /\ b.chainE[j + 1] = {u \in b.chainE[j] : HatC(rows, w)[u] = NumC(rows, w)}
         /\ b.chainBound[j + 1] = Best(rows, w, b.chainE[j])
<1>1. b.chainLen \in Nat /\ j \in 1 .. b.chainLen /\ j + 1 \in 1 .. b.chainLen /\ j + 1 > 1 /\ (j + 1) - 1 = j
  BY DEF Owned, Storage
<1>2. Entry(rows, b, j) /\ Entry(rows, b, j + 1)
  BY <1>1 DEF Owned
<1>3. /\ b.chainE[j] = Vanishing(rows, b, j) /\ b.chainE[j + 1] = Vanishing(rows, b, j + 1)
      /\ b.chainE[j] # {} /\ b.chainBound[j + 1] = Best(rows, w, b.chainE[j])
  BY <1>1, <1>2 DEF Entry
<1>4. \A u \in Coords(rows) : HatC(rows, w)[u] = NumC(rows, w) <=> \A x \in MembersC[rows][w] : ~ Odd(u, x)
  BY MembersFacts, WalshFull DEF HatC, NumC
<1>5. \A h : h \in 1 .. j + 1 <=> h \in 1 .. j \/ h = j + 1
  BY <1>1
<1>6. \A u \in Coords(rows) \ {Zero} :
        u \in Vanishing(rows, b, j + 1) <=> u \in Vanishing(rows, b, j) /\ HatC(rows, w)[u] = NumC(rows, w)
  <2>1. ASSUME NEW u \in Coords(rows) \ {Zero}
        PROVE  (\A h \in 1 .. j + 1 : \A x \in MembersC[rows][b.chainW[h]] : ~ Odd(u, x))
                 <=> /\ \A h \in 1 .. j : \A x \in MembersC[rows][b.chainW[h]] : ~ Odd(u, x)
                     /\ \A x \in MembersC[rows][w] : ~ Odd(u, x)
    BY <1>5
  <2> QED
    BY <1>4, <2>1 DEF Vanishing
<1>7. Vanishing(rows, b, j) \subseteq Coords(rows) \ {Zero} /\ Vanishing(rows, b, j + 1) \subseteq Coords(rows) \ {Zero}
  BY DEF Vanishing
<1>8. Vanishing(rows, b, j + 1) = {u \in Vanishing(rows, b, j) : HatC(rows, w)[u] = NumC(rows, w)}
  BY <1>6, <1>7
<1> QED
  BY <1>3, <1>7, <1>8

LEMMA ChainCodeOnlyRule ==
  ASSUME CascadeInv, RuleInv, NEW w \in 1 .. N, ChainCodeOnly(w) PROVE RuleInv'
<1> DEFINE i == chain + 1
           b == EnsureChain(Ctx, i, w)
           E == Ctx.chainE[chain]
           F == b.chainE[i]
<1>1. /\ Stratum(w) /\ chain > 0 /\ TC(w) > 0 /\ TV(w) = 0 /\ WithCtx(b)
      /\ \/ F = {} /\ outcome' = "unique"
         \/ F # {} /\ chain' = i /\ UNCHANGED <<m, listed, outcome>>
  BY DEF ChainCodeOnly, OnChain, Resolve
<1>2. Known(w) /\ ~ Idle
  BY <1>1, StratumKnown, StratumFacts
<1>3. /\ Rows \in Codes /\ cand \in Candidates[Rows] /\ NumV(Rows, cand, w) = 0 /\ uC = Own(Rows)
      /\ Stacked /\ frames # <<>> /\ Tracking /\ Underway
  BY <1>1, <1>2 DEF Known
<1>4. /\ Owned(Rows, b) /\ i \in Nat /\ i <= b.chainLen /\ b.chainW[i] = w /\ b.chainE[chain] = E
      /\ chain \in Nat /\ at # 0
  BY <1>1, <1>3, StratumFacts, OffStart DEF Underway
<1> HIDE DEF b
<1>5. E \subseteq Coords(Rows) \ {Zero} /\ F = {u \in E : HatC(Rows, w)[u] = NumC(Rows, w)}
  BY <1>1, <1>3, <1>4, NextEntry
<1>6. Before = Pairs(E, Own(Rows))
  BY <1>1, <1>3, <1>4 DEF Before, CurrentSet
<1> HIDE DEF E, F
<1>7. Unbeaten(Rows, cand, w) = Pairs(F, uC)
  BY <1>2, <1>3, <1>5, <1>6, CodeOnlyFewest DEF Known
<1>8. Rows' = Rows /\ Ctx' = b
  BY <1>1, <1>3, TopSet
<1>9. CASE F = {} /\ outcome' = "unique"
  <2>1. Pairs(F, uC) = {uC}
    BY <1>9 DEF Pairs
  <2> QED
    BY <1>2, <1>7, <1>8, <1>9, <2>1, Settles
<1>10. CASE F # {} /\ chain' = i /\ UNCHANGED <<m, listed, outcome>>
  <2>1. uC' = uC
    BY <1>8 DEF uC
  <2>2. i > 0 /\ ~ (i = 0)
    BY <1>1, <1>4
  <2>3. CurrentSet' = Pairs(F, uC)
    BY <1>8, <1>10, <2>1, <2>2 DEF CurrentSet, F
  <2>4. uC \in Pairs(F, uC)
    BY DEF Pairs
  <2>5. outcome' = "none" /\ (listed' = <<>> \/ listed' = MembersV[Rows][cand])
    BY <1>2, <1>3, <1>10 DEF Idle, Tracking
  <2>6. ~ (chain' = 0)
    BY <1>10, <2>2
  <2> HIDE DEF i
  <2> QED
    BY <1>1, <1>2, <1>3, <1>7, <1>8, <2>3, <2>4, <2>5, <2>6, GoesOn
<1> QED
  BY <1>1, <1>9, <1>10

(* A functional of C whose words of C alone tell that it beats u_C.          *)
LEMMA BoundLoses ==
  ASSUME NEW rows \in Codes, NEW v \in Candidates[rows], NEW w \in 1 .. N,
         NEW E, E \subseteq Coords(rows), E # {}, NEW S, Own(rows) \in S,
         \A e \in E : e \in S /\ e \cup Own(rows) \in S,
         Best(rows, w, E) > NumC(rows, w) - NumV(rows, v, w)
  PROVE  Own(rows) \notin Fewest(S, rows, v, w)
<1>1. PICK e \in E : Best(rows, w, E) = HatC(rows, w)[e]
  BY BestFacts DEF HatC
<1>2. e \in Coords(rows) /\ e \in S /\ e \cup Own(rows) \in S
  OBVIOUS
<1> DEFINE c == NumC(rows, w)
           d == NumV(rows, v, w)
           f == HatC(rows, w)[e]
           g == HatV(rows, v, w)[e]
<1>3. c \in Nat /\ d \in Nat /\ f \in Int /\ g \in Int
  BY <1>2, Values DEF Valued
<1>4. f + g > c - d \/ f - g > c - d
  <2>1. f > c - d
    BY <1>1
  <2> HIDE DEF c, d, f, g
  <2> QED
    BY <1>3, <2>1
<1> QED
  BY <1>2, <1>4, LosesTo

LEMMA ChainBoundRule ==
  ASSUME CascadeInv, RuleInv, NEW w \in 1 .. N, ChainBound(w) PROVE RuleInv'
<1> DEFINE i == chain + 1
           b == EnsureChain(Ctx, i, w)
           E == Ctx.chainE[chain]
<1>1. /\ Stratum(w) /\ chain > 0 /\ TC(w) > 0 /\ b.chainBound[i] > TC(w) - TV(w)
      /\ WithCtx(b) /\ outcome' = "reject"
  BY DEF ChainBound, OnChain, Resolve
<1>2. Known(w)
  BY <1>1, StratumKnown
<1>3. /\ Rows \in Codes /\ cand \in Candidates[Rows] /\ uC = Own(Rows) /\ uC \in Before
      /\ TC(w) = NumC(Rows, w) /\ TV(w) = NumV(Rows, cand, w)
      /\ Stacked /\ frames # <<>> /\ Underway
  BY <1>2 DEF Known
<1>4. /\ Owned(Rows, b) /\ i \in Nat /\ i <= b.chainLen /\ b.chainW[i] = w /\ b.chainE[chain] = E
      /\ chain \in Nat
  BY <1>1, <1>3, StratumFacts DEF Underway
<1> HIDE DEF b
<1>5. E \subseteq Coords(Rows) /\ E # {} /\ b.chainBound[i] = Best(Rows, w, E)
  BY <1>1, <1>3, <1>4, NextEntry
<1>6. \A e \in E : e \in Before /\ e \cup Own(Rows) \in Before
  BY <1>1, <1>3, OnEntry
<1> HIDE DEF E
<1>7. uC \notin Fewest(Before, Rows, cand, w)
  BY <1>1, <1>3, <1>5, <1>6, BoundLoses
<1>8. Rows' = Rows
  BY <1>1, <1>3, TopSet
<1> QED
  BY <1>1, <1>2, <1>7, <1>8, Settles DEF Known

(* In a frame with rows there is a functional of C.                          *)
LEMMA SomeFunctional ==
  ASSUME NEW rows \in Codes, rows # <<>>
  PROVE  Coords(rows) \ {Zero} # {}
<1>1. Len(rows) \in Nat /\ Len(rows) # 0
  BY PhiAssumption
<1>2. 0 \in 0 .. Len(rows) - 1
  BY <1>1
<1>3. {0} \in Coords(rows) /\ {0} # Zero
  BY <1>2 DEF Coords, Zero
<1> QED
  BY <1>3

LEMMA FirstBoundRule ==
  ASSUME CascadeInv, RuleInv, NEW w \in 1 .. N, FirstBound(w) PROVE RuleInv'
<1> DEFINE b == EnsureFHat(Ctx, w)
           E == Coords(Rows) \ {Zero}
<1>1. /\ Stratum(w) /\ at = 0 /\ Rows # <<>> /\ AMax(b, w) > TC(w) - TV(w)
      /\ WithCtx(b) /\ outcome' = "reject"
  BY DEF FirstBound, FirstMixed, First, Resolve
<1>2. Known(w)
  BY <1>1, StratumKnown
<1>3. /\ Rows \in Codes /\ cand \in Candidates[Rows] /\ uC = Own(Rows) /\ uC \in Before
      /\ TC(w) = NumC(Rows, w) /\ TV(w) = NumV(Rows, cand, w)
      /\ Stacked /\ frames # <<>> /\ Underway /\ Owned(Rows, Ctx)
  BY <1>2 DEF Known, Underway
<1>4. Owned(Rows, b) /\ w \in b.built
  BY <1>3, FHatFacts
<1> HIDE DEF b
<1>5. AMax(b, w) = Best(Rows, w, E)
  BY <1>3, <1>4, TransformIs
<1>6. \A e \in E : e \in Before /\ e \cup Own(Rows) \in Before
  BY <1>1, <1>3, Halves DEF Before
<1>7. E # {} /\ E \subseteq Coords(Rows)
  BY <1>1, <1>3, SomeFunctional
<1> HIDE DEF E
<1>8. uC \notin Fewest(Before, Rows, cand, w)
  BY <1>1, <1>3, <1>5, <1>6, <1>7, BoundLoses
<1>9. Rows' = Rows
  BY <1>1, <1>3, TopSet
<1> QED
  BY <1>1, <1>2, <1>8, <1>9, Settles DEF Known

(* The first stratum with words of both halves: the set is computed from the *)
(* transforms, and is empty where a functional beats u_C.                    *)
LEMMA SplitSet ==
  ASSUME NEW rows \in Codes, NEW v \in Candidates[rows], NEW w \in 1 .. N,
         NEW f, f = HatC(rows, w), NEW g, g = HatV(rows, v, w),
         NEW target, target = NumC(rows, w) - NumV(rows, v, w)
  PROVE  LET beaten == \E u \in Coords(rows) \ {Zero} :
                         f[u] + (IF g[u] < 0 THEN - g[u] ELSE g[u]) > target
         IN /\ beaten => Own(rows) \notin Fewest(Functionals(rows), rows, v, w)
            /\ ~ beaten =>
                 /\ Own(rows) \in Fewest(Functionals(rows), rows, v, w)
                 /\ Fewest(Functionals(rows), rows, v, w)
                      = {u \in Functionals(rows) : Combined(f, g, rows, u) = target}
<1> DEFINE c == NumC(rows, w)
           d == NumV(rows, v, w)
           E == Coords(rows) \ {Zero}
           S == Functionals(rows)
<1>1. c \in Nat /\ d \in Nat /\ \A e \in E : f[e] \in Int /\ g[e] \in Int
  BY AtZero, Values DEF Valued
<1>2. ASSUME NEW e \in E, f[e] + (IF g[e] < 0 THEN - g[e] ELSE g[e]) > target
      PROVE  Own(rows) \notin Fewest(S, rows, v, w)
  <2>1. f[e] + g[e] > c - d \/ f[e] - g[e] > c - d
    <3> HIDE DEF c, d, E
    <3> QED
      BY <1>1, <1>2 DEF c, d
  <2>2. Own(rows) \in S /\ e \in S /\ e \cup Own(rows) \in S /\ e \in Coords(rows)
    BY Halves
  <2> HIDE DEF S, E
  <2> QED
    BY <2>1, <2>2, LosesTo
<1>3. ASSUME \A e \in E : ~ (f[e] + (IF g[e] < 0 THEN - g[e] ELSE g[e]) > target)
      PROVE  /\ Own(rows) \in Fewest(S, rows, v, w)
             /\ Fewest(S, rows, v, w) = {u \in S : Combined(f, g, rows, u) = target}
  <2>1. \A e \in E : f[e] + g[e] <= c - d /\ f[e] - g[e] <= c - d
    <3> HIDE DEF c, d, E
    <3> QED
      BY <1>1, <1>3 DEF c, d
  <2>2. /\ Own(rows) \in Fewest(S, rows, v, w)
        /\ Fewest(S, rows, v, w) = {u \in S : Phi(rows, v, u, w) = d}
    BY <2>1, SplitFewest
  <2>3. \A u \in S : Combined(f, g, rows, u) = target <=> Phi(rows, v, u, w) = d
    <3>1. ASSUME NEW u \in S
          PROVE  /\ Phi(rows, v, u, w) \in Nat
                 /\ Combined(f, g, rows, u) = c + d - 2 * Phi(rows, v, u, w)
      BY CombinedValue
    <3>2. target = c - d
      OBVIOUS
    <3> HIDE DEF c, d, S
    <3> QED
      BY <1>1, <3>1, <3>2
  <2> QED
    BY <2>2, <2>3
<1> HIDE DEF S
<1> QED
  BY <1>2, <1>3 DEF S

LEMMA FirstSplitRule ==
  ASSUME CascadeInv, RuleInv, NEW w \in 1 .. N, FirstSplit(w) PROVE RuleInv'
<1> DEFINE b == EnsureFHat(Ctx, w)
           g == Walsh(MembersV[Rows][cand][w], Rows)
           target == TC(w) - TV(w)
           beaten == \E u \in Coords(Rows) \ {Zero} :
                       b.fhat[w][u] + (IF g[u] < 0 THEN - g[u] ELSE g[u]) > target
           left == IF beaten THEN {} ELSE {u \in Functionals(Rows) : Combined(b.fhat[w], g, Rows, u) = target}
<1>1. /\ Stratum(w) /\ at = 0 /\ WithCtx(b) /\ m' = left /\ outcome' = Verdict(left)
      /\ UNCHANGED <<chain, listed>>
  BY DEF FirstSplit, FirstMixed, First
<1>2. Known(w)
  BY <1>1, StratumKnown
<1>3. /\ Rows \in Codes /\ cand \in Candidates[Rows] /\ uC = Own(Rows)
      /\ TC(w) = NumC(Rows, w) /\ TV(w) = NumV(Rows, cand, w)
      /\ Stacked /\ frames # <<>> /\ Underway /\ Owned(Rows, Ctx) /\ Tracking /\ chain \in Nat
  BY <1>2 DEF Known, Underway
<1>4. Owned(Rows, b) /\ w \in b.built
  BY <1>3, FHatFacts
<1>5. b.fhat[w] = HatC(Rows, w)
  BY <1>3, <1>4, TransformIs
<1>6. chain' = 0
  BY <1>1, <1>3, OffStart
<1>7. Rows' = Rows
  BY <1>1, <1>3, TopSet
<1>8. g = HatV(Rows, cand, w) /\ target = NumC(Rows, w) - NumV(Rows, cand, w)
  BY <1>3 DEF HatV
<1>9. /\ beaten => uC \notin Fewest(Functionals(Rows), Rows, cand, w)
      /\ ~ beaten => Fewest(Functionals(Rows), Rows, cand, w) = left
  BY <1>3, <1>5, <1>8, SplitSet
<1>10. Unbeaten(Rows, cand, w) = Fewest(Functionals(Rows), Rows, cand, w)
  BY <1>1, <1>2 DEF Known, Before
<1>11. beaten => left = {}
  OBVIOUS
<1> HIDE DEF beaten, left
<1>12. CASE beaten
  <2>1. outcome' = "reject"
    BY <1>1, <1>11, <1>12 DEF Verdict
  <2> QED
    BY <1>2, <1>7, <1>9, <1>10, <1>12, <2>1, Settles
<1>13. CASE ~ beaten
  <2>1. m' = Unbeaten(Rows, cand, w) /\ outcome' = Verdict(m')
    BY <1>1, <1>9, <1>10, <1>13
  <2>2. listed' = <<>> \/ listed' = MembersV[Rows][cand]
    BY <1>1, <1>3 DEF Tracking
  <2> QED
    BY <1>2, <1>6, <1>7, <2>1, <2>2, WrittenOut
<1> QED
  BY <1>12, <1>13

(* A filter by the transforms keeps the best of the set it is given.         *)
LEMMA TransformRule ==
  ASSUME NEW w \in 1 .. N, Known(w), NEW b0, Owned(Rows, b0),
         ByTransform(b0, Before, w), chain' = 0
  PROVE  RuleInv'
<1> DEFINE b == IF TC(w) > 0 THEN EnsureFHat(b0, w) ELSE b0
           f == IF TC(w) > 0 THEN b.fhat[w] ELSE [u \in Coords(Rows) |-> 0]
           g == Walsh(MembersV[Rows][cand][w], Rows)
           S == Before
           left == {u \in S : Combined(f, g, Rows, u) = Max({Combined(f, g, Rows, o) : o \in S})}
<1>1. WithCtx(b) /\ m' = left /\ outcome' = Verdict(left) /\ listed' = listed
  BY DEF ByTransform
<1>2. /\ Rows \in Codes /\ cand \in Candidates[Rows] /\ uC = Own(Rows)
      /\ TC(w) = NumC(Rows, w) /\ NumC(Rows, w) \in Nat
      /\ Stacked /\ frames # <<>> /\ Tracking /\ uC \in S /\ S \subseteq Functionals(Rows)
      /\ Unbeaten(Rows, cand, w) = Fewest(S, Rows, cand, w)
  BY DEF Known
<1>3. \A e \in Coords(Rows) : f[e] = HatC(Rows, w)[e]
  <2>1. CASE TC(w) > 0
    <3>1. b = EnsureFHat(b0, w) /\ f = b.fhat[w]
      BY <2>1
    <3>2. Owned(Rows, b) /\ w \in b.built
      BY <1>2, <3>1, FHatFacts
    <3> HIDE DEF b
    <3>3. f = HatC(Rows, w)
      BY <1>2, <3>1, <3>2, TransformIs
    <3> QED
      BY <3>3
  <2>2. CASE ~ (TC(w) > 0)
    <3>1. NumC(Rows, w) = 0
      BY <1>2, <2>2
    <3>2. ASSUME NEW e \in Coords(Rows) PROVE f[e] = HatC(Rows, w)[e]
      <4>1. HatC(Rows, w)[e] \in Int /\ HatC(Rows, w)[e] <= 0 /\ - HatC(Rows, w)[e] <= 0
        BY <1>2, <3>1, Values DEF Valued
      <4>2. f[e] = 0
        BY <2>2
      <4> QED
        BY <4>1, <4>2
    <3> QED
      BY <3>2
  <2> QED
    BY <2>1, <2>2
<1>4. \A e \in Coords(Rows) : g[e] = HatV(Rows, cand, w)[e]
  BY DEF HatV
<1>5. Rows' = Rows
  BY <1>1, <1>2, TopSet
<1> HIDE DEF f, g, S
<1>6. left = Unbeaten(Rows, cand, w)
  BY <1>2, <1>3, <1>4, CombinedFewest
<1>7. m' = Unbeaten(Rows, cand, w) /\ outcome' = Verdict(m')
  BY <1>1, <1>6
<1>8. listed' = <<>> \/ listed' = MembersV[Rows][cand]
  BY <1>1, <1>2 DEF Tracking
<1> QED
  BY <1>5, <1>7, <1>8, WrittenOut

(* Counting odd members one by one, or taking the count of C's from a        *)
(* transform that happens to be there, gives phi.                            *)
LEMMA CountIsPhi ==
  ASSUME NEW rows \in Codes, NEW v \in Candidates[rows], NEW w \in 1 .. N, NEW b, Owned(rows, b),
         NEW u \in Functionals(rows)
  PROVE  LET oddC == IF w \in b.built THEN (NumC(rows, w) - b.fhat[w][u \ Own(rows)]) \div 2
                     ELSE OddIn(MembersC[rows][w], u \ Own(rows))
             oddV(x) == OddIn(MembersV[rows][v][w], x)
         IN /\ Phi(rows, v, u, w) \in Nat
            /\ oddC + (IF Own(rows) \subseteq u THEN NumV(rows, v, w) - oddV(u \ Own(rows)) ELSE oddV(u))
                 = Phi(rows, v, u, w)
<1> DEFINE k == Len(rows)
           bare == u \ Own(rows)
           S == MembersC[rows][w]
           T == MembersV[rows][v][w]
           n == OddIn(S, bare)
           oddC == IF w \in b.built THEN (NumC(rows, w) - b.fhat[w][bare]) \div 2 ELSE n
<1>1. Own(rows) = {k}
  BY DEF Own
<1>2. u \in SUBSET (0 .. k)
  BY DEF Functionals
<1>3. /\ Phi(rows, v, u, w) \in Nat
      /\ Phi(rows, v, u, w) =
           n + (IF k \in u THEN Cardinality(T) - OddIn(T, bare) ELSE OddIn(T, bare))
  <2>1. bare = u \ {k}
    BY <1>1
  <2>2. /\ Phi(rows, v, u, w) \in Nat
        /\ Phi(rows, v, u, w) =
             OddIn(S, u \ {k}) + (IF k \in u THEN Cardinality(T) - OddIn(T, u \ {k}) ELSE OddIn(T, u \ {k}))
    <3>1. \A x \in SUBSET (0 .. Len(rows)) :
            /\ Phi(rows, v, x, w) \in Nat
            /\ Phi(rows, v, x, w) =
                 OddIn(MembersC[rows][w], x \ {Len(rows)})
                 + (IF Len(rows) \in x
                    THEN Cardinality(MembersV[rows][v][w]) - OddIn(MembersV[rows][v][w], x \ {Len(rows)})
                    ELSE OddIn(MembersV[rows][v][w], x \ {Len(rows)}))
      BY PhiSplit
    <3> QED
      BY <1>2, <3>1
  <2> HIDE DEF k, S, T
  <2> QED
    BY <2>1, <2>2
<1>4. bare \in Coords(rows)
  BY Halves
<1>5. S \subseteq Coords(rows)
  BY MembersVFacts
<1>6. oddC = n
  <2>1. CASE w \in b.built
    <3>1. b.fhat[w] = HatC(rows, w)
      BY <2>1, TransformIs
    <3>2. n \in Nat /\ NumC(rows, w) \in Nat /\ HatC(rows, w)[bare] = NumC(rows, w) - 2 * n
      BY <1>4, <1>5, WalshValue DEF HatC, NumC
    <3> HIDE DEF n, bare
    <3>3. (NumC(rows, w) - HatC(rows, w)[bare]) = 2 * n
      BY <3>2
    <3>4. (2 * n) \div 2 = n
      BY <3>2
    <3> QED
      BY <2>1, <3>1, <3>3, <3>4
  <2>2. CASE w \notin b.built
    BY <2>2
  <2> QED
    BY <2>1, <2>2
<1>7. k \in u <=> Own(rows) \subseteq u
  BY <1>1
<1>8. k \notin u => bare = u
  BY <1>1
<1> HIDE DEF bare, n, T, k
<1>9. /\ k \in u => n + (Cardinality(T) - OddIn(T, bare)) = Phi(rows, v, u, w)
      /\ k \notin u => n + OddIn(T, u) = Phi(rows, v, u, w)
  BY <1>3, <1>8
<1>10. NumV(rows, v, w) = Cardinality(T)
  BY DEF NumV, T
<1> HIDE DEF oddC
<1>11. oddC + (IF Own(rows) \subseteq u THEN NumV(rows, v, w) - OddIn(T, bare) ELSE OddIn(T, u))
         = Phi(rows, v, u, w)
  BY <1>6, <1>7, <1>9, <1>10
<1> QED
  BY <1>3, <1>11 DEF oddC, n, bare, T

(* A filter by counting keeps those of the set with the fewest odd members.  *)
LEMMA CountingRule ==
  ASSUME NEW w \in 1 .. N, Known(w), NEW b0, Owned(Rows, b0),
         ByCounting(b0, Before, w), chain' = 0
  PROVE  RuleInv'
<1> DEFINE S == Before
           lists == IF listed = <<>> THEN MembersV[Rows][cand] ELSE listed
           b == IF Cardinality(S) * TC(w) > Len(Rows) * 2^Len(Rows) THEN EnsureFHat(b0, w) ELSE b0
           oddC(u) == IF w \in b.built THEN (TC(w) - b.fhat[w][u]) \div 2
                      ELSE Cardinality({x \in MembersC[Rows][w] : Odd(u, x)})
           oddV(u) == Cardinality({x \in lists[w] : Odd(u, x)})
           count(u) == oddC(u \ uC) + (IF uC \subseteq u THEN TV(w) - oddV(u \ uC) ELSE oddV(u))
           left == {u \in S : count(u) = Min({count(o) : o \in S})}
<1>1. WithCtx(b) /\ m' = left /\ outcome' = Verdict(left) /\ listed' = lists
  BY DEF ByCounting
<1>2. /\ Rows \in Codes /\ cand \in Candidates[Rows] /\ uC = Own(Rows)
      /\ TC(w) = NumC(Rows, w) /\ TV(w) = NumV(Rows, cand, w)
      /\ Stacked /\ frames # <<>> /\ Tracking /\ uC \in S /\ S \subseteq Functionals(Rows)
      /\ Unbeaten(Rows, cand, w) = Fewest(S, Rows, cand, w)
  BY DEF Known
<1>3. lists = MembersV[Rows][cand]
  BY <1>2 DEF Tracking
<1>4. Owned(Rows, b)
  BY <1>2, FHatFacts
<1>5. Rows' = Rows
  BY <1>1, <1>2, TopSet
<1> HIDE DEF b, lists, S
<1> DEFINE n == [u \in S |-> count(u)]
<1>6. \A u \in S : Phi(Rows, cand, u, w) \in Nat /\ n[u] = Phi(Rows, cand, u, w)
  <2> SUFFICES ASSUME NEW u \in S
               PROVE  Phi(Rows, cand, u, w) \in Nat /\ count(u) = Phi(Rows, cand, u, w)
    OBVIOUS
  <2>1. u \in Functionals(Rows)
    BY <1>2
  <2> DEFINE oC == IF w \in b.built THEN (NumC(Rows, w) - b.fhat[w][u \ Own(Rows)]) \div 2
                   ELSE OddIn(MembersC[Rows][w], u \ Own(Rows))
             oV(x) == OddIn(MembersV[Rows][cand][w], x)
  <2>2. /\ Phi(Rows, cand, u, w) \in Nat
        /\ oC + (IF Own(Rows) \subseteq u THEN NumV(Rows, cand, w) - oV(u \ Own(Rows)) ELSE oV(u))
             = Phi(Rows, cand, u, w)
    BY <1>2, <1>4, <2>1, CountIsPhi
  <2>3. oddC(u \ uC) = oC
    BY <1>2 DEF OddIn
  <2>4. \A x : oddV(x) = oV(x)
    BY <1>3 DEF OddIn
  <2> HIDE DEF oC, oV, oddC, oddV
  <2> QED
    BY <1>2, <2>2, <2>3, <2>4
<1>7. left = {u \in S : n[u] = Min({n[o] : o \in S})}
  <2> HIDE DEF count
  <2>1. \A u \in S : n[u] = count(u)
    OBVIOUS
  <2>2. {n[o] : o \in S} = {count(o) : o \in S}
    BY <2>1
  <2> HIDE DEF n
  <2> QED
    BY <2>1, <2>2
<1> HIDE DEF n, left
<1>8. left = Unbeaten(Rows, cand, w)
  BY <1>2, <1>6, <1>7, CountFewest
<1>9. m' = Unbeaten(Rows, cand, w) /\ outcome' = Verdict(m')
  BY <1>1, <1>8
<1>10. listed' = <<>> \/ listed' = MembersV[Rows][cand]
  BY <1>1, <1>3
<1> QED
  BY <1>5, <1>9, <1>10, WrittenOut

LEMMA FilterRule ==
  ASSUME NEW w \in 1 .. N, Known(w), NEW b0, Owned(Rows, b0), Filter(b0, Before, w)
  PROVE  RuleInv'
<1>1. chain' = 0 /\ (ByTransform(b0, Before, w) \/ ByCounting(b0, Before, w))
  BY DEF Filter
<1> QED
  BY <1>1, TransformRule, CountingRule

LEMMA ChainLeaveRule ==
  ASSUME CascadeInv, RuleInv, NEW w \in 1 .. N, ChainLeave(w) PROVE RuleInv'
<1> DEFINE b == EnsureChain(Ctx, chain + 1, w)
<1>1. Stratum(w) /\ chain > 0 /\ TC(w) > 0 /\ Filter(b, Pairs(b.chainE[chain], uC), w)
  BY DEF ChainLeave, OnChain
<1>2. Known(w) /\ Underway
  BY <1>1, StratumKnown, StratumFacts
<1>3. Owned(Rows, b) /\ b.chainE[chain] = Ctx.chainE[chain] /\ at # 0
  BY <1>1, <1>2, StratumFacts, OffStart
<1> HIDE DEF b
<1>4. Before = Pairs(b.chainE[chain], uC)
  BY <1>1, <1>3 DEF Before, CurrentSet
<1>5. Filter(b, Before, w)
  BY <1>1, <1>4
<1> QED
  BY <1>2, <1>3, <1>5, FilterRule

LEMMA LaterStratumRule ==
  ASSUME CascadeInv, RuleInv, NEW w \in 1 .. N, LaterStratum(w) PROVE RuleInv'
<1>1. Stratum(w) /\ at > 0 /\ chain = 0 /\ Filter(Ctx, m, w)
  BY DEF LaterStratum, Later
<1>2. Known(w) /\ Owned(Rows, Ctx)
  BY <1>1, StratumKnown, StratumFacts
<1>3. Before = m
  <2>1. ~ (at = 0) /\ ~ (chain > 0)
    BY <1>1
  <2> QED
    BY <2>1 DEF Before, CurrentSet
<1>4. Filter(Ctx, Before, w)
  BY <1>1, <1>3
<1> QED
  BY <1>2, <1>4, FilterRule

LEMMA MoreThanOne ==
  ASSUME NEW S, IsFiniteSet(S), NEW a \in S, S # {a}
  PROVE  Cardinality(S) > 1
<1>1. PICK b \in S : b # a
  OBVIOUS
<1>2. IsFiniteSet({a}) /\ Cardinality({a}) = 1
  BY FS_Singleton
<1>3. IsFiniteSet({a} \cup {b}) /\ Cardinality({a} \cup {b}) = 2
  BY <1>1, <1>2, FS_AddElement
<1>4. {a} \cup {b} \subseteq S
  BY <1>1
<1>5. Cardinality({a} \cup {b}) <= Cardinality(S)
  BY <1>4, FS_Subset
<1>6. Cardinality(S) \in Nat
  BY FS_CardinalityType
<1> QED
  BY <1>3, <1>5, <1>6

(* All strata agree.  Some stratum has words of v + C, so the chain has been *)
(* left by then.                                                             *)
LEMMA ExhaustedRule == ASSUME CascadeInv, RuleInv, Exhausted PROVE RuleInv'
<1>1. /\ frames # <<>> /\ ~ Idle /\ outcome' = "tie" /\ UNCHANGED <<frames, cand, chain>>
      /\ \A s \in Strata[Rows][cand] : s <= at
      /\ m' = IF chain > 0 THEN Pairs(Ctx.chainE[chain], uC) ELSE m
  BY DEF Exhausted
<1>2. Stacked /\ Underway /\ Tracking
  BY <1>1 DEF CascadeInv, RuleInv, Idle
<1>3. /\ Rows \in Codes /\ cand \in Candidates[Rows] /\ at \in Nat /\ at <= N /\ chain \in Nat
      /\ N \in Nat /\ uC = Own(Rows)
  BY <1>1, <1>2, TopFacts, PhiAssumption DEF Underway, Tracking, uC
<1>4. PICK s \in Strata[Rows][cand] : MembersV[Rows][cand][s] # {}
  BY <1>3, StrataFacts
<1>5. s \in 1 .. N /\ s <= at
  BY <1>1, <1>3, <1>4 DEF Strata
<1>6. at > 0 /\ chain = 0
  BY <1>2, <1>3, <1>4, <1>5 DEF Tracking
<1>7. m' = m /\ m = Unbeaten(Rows, cand, at) /\ uC \in m /\ m # {uC}
  BY <1>1, <1>2, <1>6 DEF Tracking, CurrentSet
<1>8. at \in 0 .. N /\ N \in 0 .. N
  BY <1>3
<1>9. Argmin(N) = m
  <2>1. Argmin(N) = Unbeaten(Rows, cand, N)
    BY <1>3, <1>8, ArgminIs
  <2>2. Unbeaten(Rows, cand, N) = Unbeaten(Rows, cand, at)
    BY <1>1, <1>3, <1>8, UnbeatenFacts
  <2> QED
    BY <1>7, <2>1, <2>2
<1>10. IsFiniteSet(m)
  <2>1. Len(Rows) \in Nat
    BY <1>3, CoordsFinite
  <2>2. IsFiniteSet(SUBSET (0 .. Len(Rows)))
    <3>1. IsFiniteSet(0 .. Len(Rows))
      BY <2>1, FS_Interval
    <3> QED
      BY <3>1, FS_SUBSET
  <2>3. m \subseteq SUBSET (0 .. Len(Rows))
    BY <1>7 DEF Unbeaten, Functionals
  <2> QED
    BY <2>2, <2>3, FS_Subset
<1>11. Cardinality(m) > 1
  BY <1>7, <1>10, MoreThanOne
<1>12. Rows' = Rows
  BY <1>1 DEF Rows, Top
<1>13. Argmin(N)' = Argmin(N)
  BY <1>1, <1>12, SameRule
<1>14. VerdictIsRule'
  <2>1. m' = Argmin(N)' /\ Cardinality(m') > 1 /\ chain' = 0 /\ outcome' = "tie"
    BY <1>1, <1>6, <1>7, <1>9, <1>11, <1>13
  <2> QED
    BY <2>1 DEF VerdictIsRule
<1> QED
  BY <1>1, <1>14 DEF RuleInv

LEMMA RuleStep == CascadeInv /\ RuleInv /\ [Next]_vars => RuleInv'
<1> SUFFICES ASSUME CascadeInv, RuleInv, [Next]_vars PROVE RuleInv'
  OBVIOUS
<1>1. ASSUME \/ \E c \in Codes : OpenSeed(c)
             \/ Descend
             \/ CloseFrame
      PROVE  RuleInv'
  BY <1>1, WalkRule
<1>2. ASSUME NEW v, Begin(v) PROVE RuleInv'
  BY <1>2, BeginRule
<1>3. ASSUME NEW w \in 1 .. N,
             \/ TrivialFrame(w) \/ FirstCosetOnly(w) \/ FirstCodeOnly(w) \/ FirstBound(w) \/ FirstSplit(w)
      PROVE  RuleInv'
  BY <1>3, TrivialFrameRule, FirstCosetOnlyRule, FirstCodeOnlyRule, FirstBoundRule, FirstSplitRule
<1>4. ASSUME NEW w \in 1 .. N,
             \/ ChainCosetOnly(w) \/ ChainCodeOnly(w) \/ ChainBound(w) \/ ChainLeave(w) \/ LaterStratum(w)
      PROVE  RuleInv'
  BY <1>4, ChainCosetOnlyRule, ChainCodeOnlyRule, ChainBoundRule, ChainLeaveRule, LaterStratumRule
<1>5. CASE Exhausted
  BY <1>5, ExhaustedRule
<1>6. CASE UNCHANGED vars
  BY <1>6, SameStateRule
<1> QED
  BY <1>1, <1>2, <1>3, <1>4, <1>5, <1>6 DEF Next

(* Between two strata of any test, what the cascade keeps is unbeaten so far *)
(* and tracked in one of its two forms; a verdict is that of all strata.     *)
THEOREM RuleInvariant == Spec => []RuleInv
<1>1. Init => RuleInv
  BY InitRule
<1>2. CascadeInv /\ RuleInv /\ [Next]_vars => RuleInv'
  BY RuleStep
<1> QED
  BY <1>1, <1>2, CascadeInvariant, PTL DEF Spec

LEMMA RunningFollows == CascadeInv /\ RuleInv => RunningArgmin
<1> SUFFICES ASSUME CascadeInv, RuleInv, Testing
             PROVE  CurrentSet = Argmin(at) /\ uC \in CurrentSet
  BY DEF RunningArgmin
<1>1. frames # <<>> /\ outcome = "none" /\ at > 0
  BY DEF Testing
<1>2. Stacked /\ Underway /\ Tracking
  BY <1>1 DEF CascadeInv, RuleInv, Idle
<1>3. Rows \in Codes /\ cand \in Candidates[Rows] /\ at \in 0 .. N
  BY <1>1, <1>2, TopFacts, PhiAssumption DEF Underway, Tracking
<1>4. Argmin(at) = Unbeaten(Rows, cand, at)
  BY <1>3, ArgminIs
<1> QED
  BY <1>1, <1>2, <1>4 DEF Tracking

(* Whatever candidates the shared context served before, and whatever was    *)
(* left in the storage it recycles, between two strata the set that survives *)
(* the cascade, written out or standing in the chain, is the argmin over the *)
(* strata so far, and u_C is in it: the transforms, the bounds and the       *)
(* counts keep or drop a functional as the odd words of D would.             *)
THEOREM RunningArgminCorrect == Spec => []RunningArgmin
<1>1. CascadeInv /\ RuleInv => RunningArgmin
  BY RunningFollows
<1> QED
  BY <1>1, CascadeInvariant, RuleInvariant, PTL

(* A verdict by a fast path, a bound or a filter is the one the whole        *)
(* spectra give: reject when some functional's list is less than u_C's,      *)
(* unique when u_C's alone is least, a tie with exactly the functionals      *)
(* whose list is least.                                                      *)
THEOREM VerdictIsRuleCorrect == Spec => []VerdictIsRule
<1>1. RuleInv => VerdictIsRule
  BY DEF RuleInv
<1> QED
  BY <1>1, RuleInvariant, PTL

-----------------------------------------------------------------------------
(* Hyperplanes.                                                              *)

Coordinates(basis) == SUBSET (0 .. Len(basis) - 1)

Independent(basis) == \A x \in Coordinates(basis) : Combination(basis, x) = Zero => x = {}

(* The words that a functional vanishes on.                                  *)
Kernel(basis, u) == {Combination(basis, x) : x \in {y \in Coordinates(basis) : ~ Odd(u, y)}}

(* Two words outside K add up to one inside.                                 *)
Hyperplane(K, words) ==
  /\ K \subseteq words /\ Zero \in K /\ K # words
  /\ \A a, b \in K : Xor(a, b) \in K
  /\ \A a, b \in words \ K : Xor(a, b) \in K

(* A basis: finitely many independent words.                                 *)
Basis(basis) == Len(basis) \in Nat /\ Independent(basis)

LEMMA OddXor ==
  ASSUME NEW u, NEW x, NEW y, IsFiniteSet(x), IsFiniteSet(y)
  PROVE  Odd(u, Xor(x, y)) <=> (Odd(u, x) <=> ~ Odd(u, y))
<1> DEFINE a == u \cap (x \ y)
           b == u \cap (y \ x)
           c == u \cap (x \cap y)
<1>1. IsFiniteSet(a) /\ IsFiniteSet(b) /\ IsFiniteSet(c)
  <2>1. a \subseteq x /\ b \subseteq y /\ c \subseteq x
    OBVIOUS
  <2> HIDE DEF a, b, c
  <2> QED
    BY <2>1, FS_Subset
<1>2. a \cap b = {} /\ a \cap c = {} /\ b \cap c = {}
  OBVIOUS
<1>3. u \cap Xor(x, y) = a \cup b /\ u \cap x = a \cup c /\ u \cap y = b \cup c
  BY DEF Xor, SymDiff
<1> HIDE DEF a, b, c
<1>4. /\ OddSized(a \cup b) <=> (OddSized(a) <=> ~ OddSized(b))
      /\ OddSized(a \cup c) <=> (OddSized(a) <=> ~ OddSized(c))
      /\ OddSized(b \cup c) <=> (OddSized(b) <=> ~ OddSized(c))
  BY <1>1, <1>2, OddUnion
<1>5. \A z : Odd(u, z) <=> OddSized(u \cap z)
  BY DEF Odd, OddSized
<1> QED
  BY <1>3, <1>4, <1>5

LEMMA OddOne ==
  ASSUME NEW u, NEW j
  PROVE  (Odd(u, {j}) <=> j \in u) /\ ~ Odd(u, {})
<1>1. Odd(u, {j}) <=> OddSized(u \cap {j})
  BY DEF Odd, OddSized
<1>2. Odd(u, {}) <=> OddSized({})
  <2>1. u \cap {} = {}
    OBVIOUS
  <2> QED
    BY <2>1 DEF Odd, OddSized
<1>3. u \cap {j} = IF j \in u THEN {j} ELSE {}
  OBVIOUS
<1> QED
  BY <1>1, <1>2, <1>3, OddSmall

(* The coordinates of a word are unique, and add up with the words.          *)
LEMMA CoordinatesFacts ==
  ASSUME NEW basis, Basis(basis)
  PROVE  /\ \A x \in Coordinates(basis) : IsFiniteSet(x) /\ Combination(basis, x) \in CodeOf(basis)
         /\ \A x, y \in Coordinates(basis) :
              /\ Xor(x, y) \in Coordinates(basis)
              /\ Combination(basis, Xor(x, y)) = Xor(Combination(basis, x), Combination(basis, y))
              /\ Combination(basis, x) = Combination(basis, y) => x = y
         /\ \A w \in CodeOf(basis) : \E x \in Coordinates(basis) : w = Combination(basis, x)
<1>1. \A x \in Coordinates(basis) : IsFiniteSet(x)
  BY CoordinatesFinite DEF Basis, Coordinates
<1>2. \A x \in Coordinates(basis) : Combination(basis, x) \in CodeOf(basis)
  BY DEF CodeOf, Coordinates
<1>3. \A w \in CodeOf(basis) : \E x \in Coordinates(basis) : w = Combination(basis, x)
  BY DEF CodeOf, Coordinates
<1>4. ASSUME NEW x \in Coordinates(basis), NEW y \in Coordinates(basis)
      PROVE  /\ Xor(x, y) \in Coordinates(basis)
             /\ Combination(basis, Xor(x, y)) = Xor(Combination(basis, x), Combination(basis, y))
             /\ Combination(basis, x) = Combination(basis, y) => x = y
  <2>1. Xor(x, y) \in Coordinates(basis)
    BY DEF Xor, SymDiff, Coordinates
  <2>2. Combination(basis, Xor(x, y)) = Xor(Combination(basis, x), Combination(basis, y))
    BY <1>1, CombinationXor
  <2>3. ASSUME Combination(basis, x) = Combination(basis, y) PROVE x = y
    <3>1. Combination(basis, Xor(x, y)) = Zero
      BY <2>2, <2>3, XorFacts
    <3>2. Xor(x, y) = {}
      BY <2>1, <3>1 DEF Basis, Independent
    <3> QED
      BY <3>2 DEF Xor, SymDiff
  <2> QED
    BY <2>1, <2>2, <2>3
<1> QED
  BY <1>1, <1>2, <1>3, <1>4

LEMMA KernelIs ==
  ASSUME NEW basis, Basis(basis), NEW u
  PROVE  \A x \in Coordinates(basis) : Combination(basis, x) \in Kernel(basis, u) <=> ~ Odd(u, x)
BY CoordinatesFacts DEF Kernel

LEMMA RowsOutside ==
  ASSUME NEW basis, Basis(basis), NEW u, NEW i \in 0 .. Len(basis) - 1
  PROVE  /\ basis[i + 1] \in CodeOf(basis)
         /\ basis[i + 1] \in Kernel(basis, u) <=> i \notin u
<1>1. {i} \in Coordinates(basis) /\ Combination(basis, {i}) = basis[i + 1]
  BY CombinationSmall DEF Coordinates
<1> QED
  BY <1>1, KernelIs, OddOne, CoordinatesFacts

(* The kernel of a functional other than zero is a hyperplane ...            *)
LEMMA KernelHyperplane ==
  ASSUME NEW basis, Basis(basis), NEW u \in Coordinates(basis), u # Zero
  PROVE  Hyperplane(Kernel(basis, u), CodeOf(basis))
<1> DEFINE K == Kernel(basis, u)
           W == CodeOf(basis)
           X == Coordinates(basis)
<1>1. \A x \in X : IsFiniteSet(x) /\ Combination(basis, x) \in W /\ (Combination(basis, x) \in K <=> ~ Odd(u, x))
  BY CoordinatesFacts, KernelIs
<1>2. \A w \in W : \E x \in X : w = Combination(basis, x)
  BY CoordinatesFacts
<1>3. K \subseteq W
  BY <1>1 DEF Kernel
<1>4. Zero \in K
  <2>1. {} \in X /\ Combination(basis, {}) = Zero
    BY CombinationSmall DEF Coordinates
  <2> QED
    BY <1>1, <2>1, OddOne
<1>5. K # W
  <2>1. PICK i \in u : TRUE
    BY DEF Zero
  <2>2. i \in 0 .. Len(basis) - 1
    BY DEF Coordinates
  <2> QED
    BY <2>2, RowsOutside
<1>6. ASSUME NEW a \in W, NEW b \in W, a \in K <=> b \in K PROVE Xor(a, b) \in K
  <2>1. PICK x \in X : a = Combination(basis, x)
    BY <1>2
  <2>2. PICK y \in X : b = Combination(basis, y)
    BY <1>2
  <2>3. Xor(x, y) \in X /\ Combination(basis, Xor(x, y)) = Xor(a, b)
    BY <2>1, <2>2, CoordinatesFacts
  <2>4. Odd(u, x) <=> Odd(u, y)
    BY <1>1, <1>6, <2>1, <2>2
  <2>5. ~ Odd(u, Xor(x, y))
    BY <1>1, <2>4, OddXor
  <2> QED
    BY <1>1, <2>3, <2>5
<1> HIDE DEF K, W
<1>7. (\A a, b \in K : Xor(a, b) \in K) /\ \A a, b \in W \ K : Xor(a, b) \in K
  BY <1>3, <1>6
<1> QED
  BY <1>3, <1>4, <1>5, <1>7 DEF Hyperplane, K, W

(* ... and there are no others.                                              *)
LEMMA HyperplaneKernel ==
  ASSUME NEW basis, Basis(basis), NEW K, Hyperplane(K, CodeOf(basis))
  PROVE  \E u \in Coordinates(basis) : u # Zero /\ K = Kernel(basis, u)
<1> DEFINE W == CodeOf(basis)
           X == Coordinates(basis)
           u == {i \in 0 .. Len(basis) - 1 : basis[i + 1] \notin K}
           Wrong == {x \in X : ~ (Combination(basis, x) \in K <=> ~ Odd(u, x))}
<1>1. ASSUME Wrong # {} PROVE FALSE
  <2>1. \E x \in Wrong : \A y \in Wrong : y \subseteq x => y = x
    <3> DEFINE S == 0 .. Len(basis) - 1
    <3>1. IsFiniteSet(S) /\ Wrong \subseteq SUBSET S
      BY CoordinatesFinite DEF Coordinates, Basis
    <3> HIDE DEF Wrong, S
    <3> QED
      BY <1>1, <3>1, LeastSet
  <2>2. PICK x \in Wrong : \A y \in Wrong : y \subseteq x => y = x
    BY <2>1
  <2>3. x \in X /\ ~ (Combination(basis, x) \in K <=> ~ Odd(u, x))
    BY <2>2
  <2>4. x # {}
    BY <2>3, CombinationSmall, OddOne DEF Hyperplane
  <2>5. PICK j \in x : TRUE
    BY <2>4
  <2> DEFINE y == x \ {j}
  <2>6. y \in X /\ y # x /\ y \subseteq x /\ {j} \in X /\ j \in 0 .. Len(basis) - 1 /\ Xor(y, {j}) = x
    BY <2>5 DEF Xor, SymDiff, Coordinates
  <2>7. Combination(basis, y) \in K <=> ~ Odd(u, y)
    BY <2>2, <2>6
  <2> HIDE DEF y, Wrong
  <2>8. /\ Combination(basis, {j}) = basis[j + 1]
        /\ Combination(basis, x) = Xor(Combination(basis, y), basis[j + 1])
        /\ Combination(basis, y) \in W /\ basis[j + 1] \in W
        /\ IsFiniteSet(y) /\ IsFiniteSet({j})
    BY <2>6, CoordinatesFacts, CombinationSmall
  <2>9. Odd(u, x) <=> (Odd(u, y) <=> ~ Odd(u, {j}))
    BY <2>6, <2>8, OddXor
  <2>10. Odd(u, {j}) <=> basis[j + 1] \notin K
    <3>1. j \in u <=> basis[j + 1] \notin K
      BY <2>6
    <3> HIDE DEF u
    <3> QED
      BY <3>1, OddOne
  <2> HIDE DEF u, W
  <2>11. \A a, b \in W : Xor(a, b) \in K <=> (a \in K <=> b \in K)
    <3>1. /\ K \subseteq W
          /\ \A a, b \in K : Xor(a, b) \in K
          /\ \A a, b \in W \ K : Xor(a, b) \in K
      BY DEF Hyperplane, W
    <3>2. \A a, b : Xor(Xor(a, b), b) = a /\ Xor(Xor(a, b), a) = b
      BY XorFacts
    <3> QED
      BY <3>1, <3>2
  <2>12. Combination(basis, x) \in K <=> (Combination(basis, y) \in K <=> basis[j + 1] \in K)
    BY <2>8, <2>11
  <2> QED
    BY <2>3, <2>7, <2>9, <2>10, <2>12
<1>2. \A x \in X : Combination(basis, x) \in K <=> ~ Odd(u, x)
  BY <1>1
<1> HIDE DEF Wrong
<1>3. K \subseteq W /\ K # W
  BY DEF Hyperplane
<1>4. K = Kernel(basis, u)
  <2>1. \A x \in X : Combination(basis, x) \in Kernel(basis, u) <=> ~ Odd(u, x)
    BY KernelIs
  <2>2. \A w \in W : \E x \in X : w = Combination(basis, x)
    BY CoordinatesFacts
  <2> HIDE DEF u
  <2>3. Kernel(basis, u) \subseteq W
    <3>1. \A x \in X : Combination(basis, x) \in W
      BY CoordinatesFacts
    <3> QED
      BY <3>1 DEF Kernel
  <2> HIDE DEF W, X
  <2> QED
    BY <1>2, <1>3, <2>1, <2>2, <2>3
<1>5. u # Zero
  <2>1. ASSUME u = {} PROVE FALSE
    <3>1. \A x \in X : Combination(basis, x) \in K
      <4>1. \A x : ~ Odd({}, x)
        <5>1. \A x : {} \cap x = {}
          OBVIOUS
        <5> QED
          BY <5>1, OddSmall DEF Odd, OddSized
      <4> HIDE DEF u, X
      <4> QED
        BY <1>2, <2>1, <4>1
    <3> QED
      BY <1>3, <3>1, CoordinatesFacts
  <2> QED
    BY <2>1 DEF Zero
<1>6. u \in X
  BY DEF Coordinates
<1> QED
  BY <1>4, <1>5, <1>6

-----------------------------------------------------------------------------
(* The rule, told of the hyperplanes of a code.                              *)

Framing(rows, v) == rows \in Seq(Bits(N)) /\ v \in Bits(N) /\ Independent(Append(rows, v))

OutsideAt(K, words, w) == Cardinality({y \in words \ K : Weight(y) = w})

Beats(K, words, w) ==
  \E L : /\ Hyperplane(L, words)
         /\ OutsideAt(L, words, w) < OutsideAt(K, words, w)
         /\ \A i \in Weights : i < w => OutsideAt(L, words, i) = OutsideAt(K, words, i)

LEMMA FramingFacts ==
  ASSUME NEW rows, NEW v, Framing(rows, v)
  PROVE  LET D == Append(rows, v)
         IN /\ Len(rows) \in Nat /\ Len(D) = Len(rows) + 1 /\ Basis(D)
            /\ D \in Seq(Bits(N)) /\ D[Len(rows) + 1] = v
            /\ \A i \in 1 .. Len(rows) : D[i] = rows[i]
            /\ Coordinates(D) = SUBSET (0 .. Len(rows))
            /\ Functionals(rows) = Coordinates(D) \ {Zero}
<1> DEFINE D == Append(rows, v)
           k == Len(rows)
<1>1. /\ k \in Nat /\ Len(D) = k + 1 /\ D \in Seq(Bits(N)) /\ D[k + 1] = v
      /\ \A i \in 1 .. k : D[i] = rows[i]
  <2>1. rows \in Seq(Bits(N)) /\ v \in Bits(N)
    BY DEF Framing
  <2> QED
    BY <2>1
<1> HIDE DEF D, k
<1>2. Basis(D)
  BY <1>1 DEF Basis, Framing, D
<1>3. 0 .. Len(D) - 1 = 0 .. k
  BY <1>1
<1>4. Coordinates(D) = SUBSET (0 .. k)
  BY <1>3 DEF Coordinates
<1> QED
  BY <1>1, <1>2, <1>4 DEF D, k, Functionals

(* phi counts the words outside the kernel.                                  *)
LEMMA PhiOutside ==
  ASSUME NEW rows, NEW v, Framing(rows, v), NEW u, NEW w
  PROVE  Phi(rows, v, u, w) = OutsideAt(Kernel(Append(rows, v), u), CodeOf(Append(rows, v)), w)
<1> DEFINE D == Append(rows, v)
           X == Coordinates(D)
           S == {x \in X : Weight(Combination(D, x)) = w /\ Odd(u, x)}
           T == {y \in CodeOf(D) \ Kernel(D, u) : Weight(y) = w}
           f == [x \in S |-> Combination(D, x)]
<1>1. Basis(D) /\ X = SUBSET (0 .. Len(rows)) /\ Len(rows) \in Nat
  BY FramingFacts
<1>2. IsFiniteSet(S)
  <2>1. IsFiniteSet(0 .. Len(rows))
    BY <1>1, FS_Interval
  <2>2. IsFiniteSet(X)
    BY <1>1, <2>1, FS_SUBSET
  <2> QED
    BY <2>2, FS_Subset
<1>3. \A x \in X : Combination(D, x) \in CodeOf(D) /\ (Combination(D, x) \in Kernel(D, u) <=> ~ Odd(u, x))
  BY <1>1, CoordinatesFacts, KernelIs
<1>4. \A x, y \in X : Combination(D, x) = Combination(D, y) => x = y
  BY <1>1, CoordinatesFacts
<1>5. \A y \in CodeOf(D) : \E x \in X : y = Combination(D, x)
  BY <1>1, CoordinatesFacts
<1>6. Phi(rows, v, u, w) = Cardinality(S)
  BY <1>1 DEF Phi
<1> HIDE DEF D, X
<1>7. f \in [S -> T]
  BY <1>3
<1>8. \A x, y \in S : f[x] = f[y] => x = y
  BY <1>4
<1>9. \A y \in T : \E x \in S : f[x] = y
  BY <1>3, <1>5
<1>10. DOMAIN f = S
  OBVIOUS
<1> HIDE DEF f, S, T
<1>11. ExistsBijection(S, T)
  BY <1>7, <1>8, <1>9, <1>10 DEF ExistsBijection, Bijection, Injection, Surjection, IsInjective
<1>12. Cardinality(T) = Cardinality(S)
  BY <1>2, <1>11, FS_Bijection
<1> QED
  BY <1>6, <1>12 DEF T, D, OutsideAt

LEMMA BeatenByHyperplane ==
  ASSUME NEW rows, NEW v, Framing(rows, v), NEW u, NEW w
  PROVE  BeatenAt(rows, v, u, w) <=> Beats(Kernel(Append(rows, v), u), CodeOf(Append(rows, v)), w)
<1> DEFINE D == Append(rows, v)
           words == CodeOf(D)
<1>1. Basis(D) /\ Functionals(rows) = Coordinates(D) \ {Zero}
  BY FramingFacts
<1>2. \A f, s : Phi(rows, v, f, s) = OutsideAt(Kernel(D, f), words, s)
  BY PhiOutside
<1>3. \A f \in Functionals(rows) : Hyperplane(Kernel(D, f), words)
  BY <1>1, KernelHyperplane
<1>4. \A L : Hyperplane(L, words) => \E f \in Functionals(rows) : L = Kernel(D, f)
  <2> SUFFICES ASSUME NEW L, Hyperplane(L, words) PROVE \E f \in Functionals(rows) : L = Kernel(D, f)
    OBVIOUS
  <2>1. \E f \in Coordinates(D) : f # Zero /\ L = Kernel(D, f)
    BY <1>1, HyperplaneKernel
  <2> QED
    BY <1>1, <2>1
<1> HIDE DEF D, words
<1>5. BeatenAt(rows, v, u, w) => Beats(Kernel(D, u), words, w)
  BY <1>2, <1>3 DEF BeatenAt, Beats
<1>6. Beats(Kernel(D, u), words, w) => BeatenAt(rows, v, u, w)
  <2> SUFFICES ASSUME Beats(Kernel(D, u), words, w) PROVE BeatenAt(rows, v, u, w)
    OBVIOUS
  <2>1. PICK L : /\ Hyperplane(L, words)
                 /\ OutsideAt(L, words, w) < OutsideAt(Kernel(D, u), words, w)
                 /\ \A i \in Weights : i < w => OutsideAt(L, words, i) = OutsideAt(Kernel(D, u), words, i)
    BY DEF Beats
  <2>2. PICK f \in Functionals(rows) : L = Kernel(D, f)
    BY <1>4, <2>1
  <2> QED
    BY <1>2, <2>1, <2>2 DEF BeatenAt
<1> QED
  BY <1>5, <1>6 DEF D, words

-----------------------------------------------------------------------------
(* A hyperplane's own frame of the code.                                     *)

(* The rows but for one of u's, row p, which is added to u's others.         *)
Crossed(B, D, u, p, k) ==
  /\ p \in u /\ p \in 0 .. k
  /\ B \in Seq(Bits(N)) /\ Len(B) = k
  /\ \A i \in 1 .. k : \E j \in 0 .. k :
       j # p /\ B[i] = IF j \in u THEN Xor(D[j + 1], D[p + 1]) ELSE D[j + 1]
  /\ \A j \in 0 .. k : j # p => \E i \in 1 .. k :
       B[i] = IF j \in u THEN Xor(D[j + 1], D[p + 1]) ELSE D[j + 1]

LEMMA HyperplaneRows ==
  ASSUME NEW rows, NEW v, Framing(rows, v), NEW u \in Functionals(rows)
  PROVE  Crossed(HyperplaneBasis(rows, v, u), Append(rows, v), u, Min(u), Len(rows))
<1> DEFINE D == Append(rows, v)
           k == Len(rows)
           p == Min(u)
           all == [j \in DOMAIN D |-> j - 1]
           kept == RemoveAt(all, p + 1)
           At(j) == IF j \in u THEN Xor(D[j + 1], D[p + 1]) ELSE D[j + 1]
           B == HyperplaneBasis(rows, v, u)
<1>1. /\ k \in Nat /\ Len(D) = k + 1 /\ D \in Seq(Bits(N)) /\ DOMAIN D = 1 .. k + 1
      /\ u \in SUBSET (0 .. k) /\ u # {}
  BY FramingFacts DEF Zero
<1>2. p \in u
  <2>1. u \subseteq Nat
    BY <1>1
  <2>2. \E x \in u : \A y \in u : x <= y
    BY <1>1, <2>1, LeastNumber
  <2> QED
    BY <2>2 DEF Min
<1>3. p \in 0 .. k
  BY <1>1, <1>2
<1>4. all \in [1 .. k + 1 -> 0 .. k] /\ \A i \in 1 .. k + 1 : all[i] = i - 1
  BY <1>1
<1> HIDE DEF all, p, k
<1>5. /\ kept \in Seq(0 .. k) /\ Len(kept) = k
      /\ \A i \in 1 .. k : kept[i] = IF i <= p THEN i - 1 ELSE i
  <2>1. all \in Seq(0 .. k) /\ Len(all) = k + 1
    BY <1>1, <1>4
  <2> DEFINE a == SubSeq(all, 1, (p + 1) - 1)
             b == SubSeq(all, (p + 1) + 1, Len(all))
  <2>2. kept = a \o b
    BY DEF RemoveAt
  <2>3. /\ a \in Seq(0 .. k) /\ Len(a) = p
        /\ \A i \in 1 .. p : a[i] = i - 1
    <3>1. p \in Nat /\ p <= k
      BY <1>1, <1>3
    <3> QED
      BY <1>1, <1>4, <2>1, <3>1
  <2>4. /\ b \in Seq(0 .. k) /\ Len(b) = k - p
        /\ \A i \in 1 .. k - p : b[i] = p + i
    <3>1. p \in Nat /\ p <= k
      BY <1>1, <1>3
    <3> QED
      BY <1>1, <1>4, <2>1, <3>1
  <2> HIDE DEF a, b, kept
  <2>5. kept \in Seq(0 .. k) /\ Len(kept) = k
    <3>1. kept \in Seq(0 .. k) /\ Len(kept) = Len(a) + Len(b)
      <4> DEFINE T == 0 .. k
      <4>1. a \in Seq(T) /\ b \in Seq(T)
        BY <2>3, <2>4
      <4> HIDE DEF T
      <4>2. a \o b \in Seq(T) /\ Len(a \o b) = Len(a) + Len(b)
        BY <4>1
      <4> QED
        BY <2>2, <4>2 DEF T
    <3>2. p + (k - p) = k
      BY <1>1, <1>3
    <3> QED
      BY <2>3, <2>4, <3>1, <3>2
  <2>6. \A i \in 1 .. k : kept[i] = IF i <= p THEN a[i] ELSE b[i - p]
    BY <1>1, <1>3, <2>2, <2>3, <2>4
  <2>7. \A i \in 1 .. k : kept[i] = IF i <= p THEN i - 1 ELSE i
    <3> SUFFICES ASSUME NEW i \in 1 .. k PROVE kept[i] = IF i <= p THEN i - 1 ELSE i
      OBVIOUS
    <3>1. CASE i <= p
      BY <1>1, <1>3, <2>3, <2>6, <3>1
    <3>2. CASE ~ (i <= p)
      <4>1. i - p \in 1 .. k - p /\ p + (i - p) = i
        BY <1>1, <1>3, <3>2
      <4> QED
        BY <2>4, <2>6, <3>2, <4>1
    <3> QED
      BY <3>1, <3>2
  <2> QED
    BY <2>5, <2>7
<1>6. DOMAIN kept = 1 .. k
  BY <1>5
<1>7. B = [i \in DOMAIN kept |-> At(kept[i])]
  BY DEF HyperplaneBasis, p, all
<1>8. \A i \in 1 .. k : kept[i] \in 0 .. k /\ kept[i] # p
  BY <1>1, <1>3, <1>5
<1>9. \A j \in 0 .. k : j # p => \E i \in 1 .. k : kept[i] = j
  <2> SUFFICES ASSUME NEW j \in 0 .. k, j # p PROVE \E i \in 1 .. k : kept[i] = j
    OBVIOUS
  <2>1. CASE j < p
    <3>1. j + 1 \in 1 .. k /\ j + 1 <= p /\ (j + 1) - 1 = j
      BY <1>1, <1>3, <2>1
    <3> QED
      BY <1>5, <3>1
  <2>2. CASE j > p
    <3>1. j \in 1 .. k /\ ~ (j <= p)
      BY <1>1, <1>3, <2>2
    <3> QED
      BY <1>5, <3>1
  <2> QED
    BY <1>1, <1>3, <2>1, <2>2
<1>10. \A j \in 0 .. k : At(j) \in Bits(N)
  <2>1. \A j \in 0 .. k : D[j + 1] \in Bits(N)
    BY <1>1
  <2>2. \A a, b \in Bits(N) : Xor(a, b) \in Bits(N)
    BY DEF Bits, Xor, SymDiff
  <2> HIDE DEF D
  <2> QED
    BY <1>3, <2>1, <2>2
<1> HIDE DEF At, kept, B
<1>11. B \in [1 .. k -> Bits(N)] /\ \A i \in 1 .. k : B[i] = At(kept[i])
  BY <1>6, <1>7, <1>8, <1>10
<1>12. B \in Seq(Bits(N)) /\ Len(B) = k
  BY <1>1, <1>11
<1>13. \A i \in 1 .. k : \E j \in 0 .. k : j # p /\ B[i] = At(j)
  BY <1>8, <1>11
<1>14. \A j \in 0 .. k : j # p => \E i \in 1 .. k : B[i] = At(j)
  BY <1>9, <1>11
<1> QED
  BY <1>2, <1>3, <1>12, <1>13, <1>14 DEF At, B, p, k, Crossed

(* A code is its hyperplane and one coset of it.                             *)
WithCoset(S, d) == S \cup {Xor(s, d) : s \in S}

LEMMA CosetSum ==
  ASSUME NEW S, NEW d, \A a, b \in S : Xor(a, b) \in S
  PROVE  \A a \in WithCoset(S, d) : \A b \in S : Xor(a, b) \in WithCoset(S, d)
<1> SUFFICES ASSUME NEW a \in WithCoset(S, d), NEW b \in S PROVE Xor(a, b) \in WithCoset(S, d)
  OBVIOUS
<1>1. CASE a \in S
  BY <1>1 DEF WithCoset
<1>2. CASE a \notin S
  <2>1. PICK s \in S : a = Xor(s, d)
    BY <1>2 DEF WithCoset
  <2>2. Xor(a, b) = Xor(Xor(s, b), d)
    BY <2>1, XorFacts
  <2> QED
    BY <2>2 DEF WithCoset
<1> QED
  BY <1>1, <1>2

LEMMA CosetFlip ==
  ASSUME NEW S, NEW d
  PROVE  \A a \in WithCoset(S, d) : Xor(a, d) \in WithCoset(S, d)
BY XorFacts DEF WithCoset

(* What a hyperplane's rows span.                                            *)
LEMMA HyperplaneSpans ==
  ASSUME NEW rows, NEW v, Framing(rows, v), NEW u \in Functionals(rows)
  PROVE  LET D == Append(rows, v)
             K == Kernel(D, u)
             d == D[Min(u) + 1]
         IN /\ CodeOf(HyperplaneBasis(rows, v, u)) = K
            /\ d \in CodeOf(D) /\ d \notin K
            /\ CodeOf(D) = WithCoset(K, d)
<1> DEFINE D == Append(rows, v)
           K == Kernel(D, u)
           W == CodeOf(D)
           p == Min(u)
           d == D[p + 1]
           B == HyperplaneBasis(rows, v, u)
           S == CodeOf(B)
           k == Len(rows)
           At(j) == IF j \in u THEN Xor(D[j + 1], d) ELSE D[j + 1]
<1>1. /\ k \in Nat /\ Len(D) = k + 1 /\ Basis(D)
      /\ u \in Coordinates(D) /\ u # Zero
  BY FramingFacts
<1>2. /\ p \in u /\ p \in 0 .. k /\ B \in Seq(Bits(N)) /\ Len(B) = k
      /\ \A i \in 1 .. k : \E j \in 0 .. k : j # p /\ B[i] = At(j)
      /\ \A j \in 0 .. k : j # p => \E i \in 1 .. k : B[i] = At(j)
  <2>1. Crossed(B, D, u, p, k)
    BY HyperplaneRows
  <2> HIDE DEF B, D, p, k
  <2> QED
    BY <2>1 DEF Crossed
<1>3. Hyperplane(K, W)
  BY <1>1, KernelHyperplane
<1>4. \A j \in 0 .. k : D[j + 1] \in W /\ (D[j + 1] \in K <=> j \notin u)
  <2>1. 0 .. Len(D) - 1 = 0 .. k
    BY <1>1
  <2> QED
    BY <1>1, <2>1, RowsOutside
<1>5. d \in W /\ d \notin K
  BY <1>2, <1>4
<1>6. \A a, b \in W : Xor(a, b) \in W
  BY <1>1, CodeClosed
<1> HIDE DEF D, K, W, p, d, B, k
<1>7. /\ K \subseteq W /\ Zero \in K
      /\ \A a, b \in K : Xor(a, b) \in K
      /\ \A a, b \in W \ K : Xor(a, b) \in K
  BY <1>3 DEF Hyperplane
<1>8. \A j \in 0 .. k : At(j) \in K
  BY <1>4, <1>5, <1>7
<1> HIDE DEF At
<1>9. Zero \in S /\ (\A a, b \in S : Xor(a, b) \in S) /\ \A i \in 1 .. k : B[i] \in S
  BY <1>1, <1>2, CodeClosed
<1>10. S \subseteq K
  <2>1. \A i \in 1 .. k : B[i] \in K
    BY <1>2, <1>8
  <2>2. \A s \in K : \A i \in 1 .. Len(B) : Xor(s, B[i]) \in K
    BY <1>2, <1>7, <2>1
  <2> QED
    BY <1>1, <1>2, <1>7, <2>2, CodeLeast
<1>11. W \subseteq WithCoset(S, d)
  <2>1. Zero \in WithCoset(S, d)
    BY <1>9 DEF WithCoset
  <2> HIDE DEF S
  <2>2. \A a \in WithCoset(S, d) : \A b \in S : Xor(a, b) \in WithCoset(S, d)
    BY <1>9, CosetSum
  <2>3. \A a \in WithCoset(S, d) : Xor(a, d) \in WithCoset(S, d)
    BY CosetFlip
  <2>4. ASSUME NEW a \in WithCoset(S, d), NEW j \in 0 .. k
        PROVE  Xor(a, D[j + 1]) \in WithCoset(S, d)
    <3>1. CASE j = p
      BY <2>3, <3>1 DEF d
    <3>2. CASE j # p
      <4>1. At(j) \in S
        BY <1>2, <1>9, <3>2
      <4>2. D[j + 1] = At(j) \/ D[j + 1] = Xor(At(j), d)
        BY XorFacts DEF At
      <4>3. Xor(a, At(j)) \in WithCoset(S, d)
        BY <2>2, <4>1
      <4>4. Xor(a, Xor(At(j), d)) = Xor(Xor(a, At(j)), d)
        BY XorFacts
      <4> QED
        BY <2>3, <4>2, <4>3, <4>4
    <3> QED
      BY <3>1, <3>2
  <2>5. \A a \in WithCoset(S, d) : \A i \in 1 .. Len(D) : Xor(a, D[i]) \in WithCoset(S, d)
    <3>1. \A i \in 1 .. Len(D) : i - 1 \in 0 .. k /\ (i - 1) + 1 = i
      BY <1>1
    <3> QED
      BY <2>4, <3>1
  <2>6. Len(D) \in Nat
    BY <1>1
  <2> HIDE DEF S
  <2>7. CodeOf(D) \subseteq WithCoset(S, d)
    BY <2>1, <2>5, <2>6, CodeLeast
  <2> QED
    BY <2>7 DEF W
<1>12. K \subseteq S
  <2> SUFFICES ASSUME NEW y \in K PROVE y \in S
    OBVIOUS
  <2>1. y \in S \/ \E s \in S : y = Xor(s, d)
    BY <1>7, <1>11 DEF WithCoset
  <2>2. ASSUME NEW s \in S, y = Xor(s, d) PROVE FALSE
    <3>1. Xor(s, y) = d
      BY <2>2, XorFacts
    <3>2. Xor(s, y) \in K
      BY <1>7, <1>10
    <3> QED
      BY <1>5, <3>1, <3>2
  <2> QED
    BY <2>1, <2>2
<1>13. WithCoset(K, d) \subseteq W
  BY <1>5, <1>6, <1>7 DEF WithCoset
<1>14. S = K
  BY <1>10, <1>12
<1>15. W = WithCoset(K, d)
  BY <1>11, <1>13, <1>14
<1> QED
  BY <1>5, <1>14, <1>15 DEF D, K, W, p, d, B

(* One more row.                                                             *)
Extended(E, rows, d, k) ==
  /\ k \in Nat /\ Len(E) = k + 1
  /\ \A x \in SUBSET (0 .. k) :
       /\ x \ {k} \in SUBSET (0 .. k - 1)
       /\ Combination(E, x) = IF k \in x THEN Xor(Combination(rows, x \ {k}), d)
                              ELSE Combination(rows, x \ {k})

LEMMA AppendedWords ==
  ASSUME NEW T, NEW rows \in Seq(T), NEW d \in T
  PROVE  Extended(Append(rows, d), rows, d, Len(rows))
<1> DEFINE E == Append(rows, d)
           k == Len(rows)
<1>1. /\ k \in Nat /\ Len(E) = k + 1 /\ E[k + 1] = d
      /\ \A i \in 1 .. k : E[i] = rows[i]
  OBVIOUS
<1> HIDE DEF E, k
<1>2. ASSUME NEW x \in SUBSET (0 .. k)
      PROVE  LET y == x \ {k}
             IN /\ y \in SUBSET (0 .. k - 1)
                /\ Combination(E, x) = IF k \in x THEN Xor(Combination(rows, y), d) ELSE Combination(rows, y)
  <2> DEFINE y == x \ {k}
  <2>1. y \in SUBSET (0 .. k - 1)
    <3>1. \A i \in 0 .. k : i # k => i \in 0 .. k - 1
      BY <1>1
    <3> QED
      BY <3>1
  <2>2. IsFiniteSet(y)
    BY <1>1, <2>1, CoordinatesFinite
  <2>3. k \in x => x = Xor(y, {k})
    BY DEF Xor, SymDiff
  <2>4. k \notin x => x = y
    OBVIOUS
  <2> HIDE DEF y
  <2>5. Combination(E, y) = Combination(rows, y)
    <3>1. \A i \in y : E[i + 1] = rows[i + 1]
      <4>1. \A i \in 0 .. k - 1 : i + 1 \in 1 .. k
        BY <1>1
      <4> QED
        BY <1>1, <2>1, <4>1
    <3>2. \A e : With(E, y, e) = With(rows, y, e)
      BY <3>1 DEF With
    <3>3. \A e : e \in Combination(E, y) <=> e \in Combination(rows, y)
      BY <3>2, CombinationBits
    <3> QED
      BY <3>3
  <2>6. Combination(E, Xor(y, {k})) = Xor(Combination(E, y), E[k + 1])
    BY <2>2, CombinationFlip
  <2>7. Combination(E, x) = IF k \in x THEN Xor(Combination(rows, y), d) ELSE Combination(rows, y)
    BY <1>1, <2>3, <2>4, <2>5, <2>6
  <2> QED
    BY <2>1, <2>7 DEF y
<1> QED
  BY <1>1, <1>2 DEF E, k, Extended

LEMMA EchelonIndependent ==
  ASSUME NEW n \in Nat, NEW rows, NEW pivots, Echelon(rows, pivots, n)
  PROVE  Basis(rows)
<1>1. rows \in Seq(Bits(n))
  BY DEF Echelon
<1>2. Len(rows) \in Nat
  BY <1>1
<1>3. ASSUME NEW x \in SUBSET (0 .. Len(rows) - 1), x # {}
      PROVE  Combination(rows, x) # Zero
  <2>1. PICK i \in x : TRUE
    BY <1>3
  <2>2. i \in 0 .. Len(rows) - 1
    OBVIOUS
  <2>3. i + 1 \in 1 .. Len(rows) /\ (i + 1) - 1 = i
    BY <1>2, <2>2
  <2>4. pivots[i + 1] \in Combination(rows, x)
    BY <2>1, <2>3, PivotBits
  <2> QED
    BY <2>4 DEF Zero
<1> QED
  BY <1>2, <1>3 DEF Basis, Independent, Coordinates

(* A code and a word outside it: the code is the kernel of the word's own    *)
(* functional.                                                               *)
LEMMA OwnFrame ==
  ASSUME NEW H \in Seq(Bits(N)), Independent(H), NEW d \in Bits(N), d \notin CodeOf(H)
  PROVE  LET E == Append(H, d)
         IN /\ Framing(H, d)
            /\ Kernel(E, Own(H)) = CodeOf(H)
            /\ CodeOf(E) = WithCoset(CodeOf(H), d)
            /\ Own(H) \in Functionals(H)
<1> DEFINE E == Append(H, d)
           l == Len(H)
           S == CodeOf(H)
           X == SUBSET (0 .. l)
           Y == SUBSET (0 .. l - 1)
<1>1. /\ l \in Nat /\ Len(E) = l + 1
      /\ \A x \in X : /\ x \ {l} \in Y
                      /\ Combination(E, x) = IF l \in x THEN Xor(Combination(H, x \ {l}), d)
                                             ELSE Combination(H, x \ {l})
  <2>1. Extended(E, H, d, l)
    BY AppendedWords
  <2> HIDE DEF E, l
  <2> QED
    BY <2>1 DEF Extended
<1>2. Own(H) = {l} /\ Own(H) \in Functionals(H)
  <2>1. l \in 0 .. l
    BY <1>1
  <2> QED
    BY <2>1 DEF Own, Functionals, Zero
<1>3. 0 .. Len(E) - 1 = 0 .. l
  BY <1>1
<1>4. S = {Combination(H, y) : y \in Y}
  BY DEF CodeOf
<1>5. \A y \in Y : y \in X /\ y \cup {l} \in X /\ l \notin y /\ (y \cup {l}) \ {l} = y /\ y \ {l} = y
  <2>1. \A i \in 0 .. l - 1 : i \in 0 .. l /\ i # l
    BY <1>1
  <2>2. l \in 0 .. l
    BY <1>1
  <2> QED
    BY <2>1, <2>2
<1>6. \A x : Odd({l}, x) <=> l \in x
  <2>1. \A x : Odd({l}, x) <=> OddSized({l} \cap x)
    BY DEF Odd, OddSized
  <2>2. OddSized({l}) /\ ~ OddSized({})
    BY OddSmall
  <2> HIDE DEF l
  <2>3. ASSUME NEW x PROVE Odd({l}, x) <=> l \in x
    <3>1. CASE l \in x
      <4>1. {l} \cap x = {l}
        BY <3>1
      <4> QED
        BY <2>1, <2>2, <3>1, <4>1
    <3>2. CASE l \notin x
      <4>1. {l} \cap x = {}
        BY <3>2
      <4> QED
        BY <2>1, <2>2, <3>2, <4>1
    <3> QED
      BY <3>1, <3>2
  <2> QED
    BY <2>3
<1>7. Zero \in S /\ \A a, b \in S : Xor(a, b) \in S
  BY <1>1, CodeClosed
<1> HIDE DEF E, l, X, Y
<1>8. Framing(H, d)
  <2>1. ASSUME NEW x \in X, Combination(E, x) = Zero
        PROVE  x = {}
    <3>1. CASE l \in x
      <4>1. Combination(H, x \ {l}) \in S /\ Xor(Combination(H, x \ {l}), d) = Zero
        BY <1>1, <1>4, <2>1, <3>1
      <4>2. Combination(H, x \ {l}) = d
        <5>1. \A a : Xor(a, d) = Zero => a = d
          BY DEF Xor, SymDiff, Zero
        <5> QED
          BY <4>1, <5>1
      <4> QED
        BY <4>1, <4>2
    <3>2. CASE l \notin x
      <4>1. x \ {l} = x /\ x \in Y /\ Combination(H, x) = Zero
        <5>1. x \ {l} = x
          BY <3>2
        <5> QED
          BY <1>1, <2>1, <3>2, <5>1
      <4> QED
        BY <4>1 DEF Independent, Coordinates, Y, l
    <3> QED
      BY <3>1, <3>2
  <2>2. Coordinates(E) = X
    BY <1>3 DEF Coordinates, X
  <2> QED
    BY <2>1, <2>2 DEF Framing, Independent, E
<1>9. Kernel(E, Own(H)) = S
  <2>1. Kernel(E, Own(H)) = {Combination(E, x) : x \in {z \in X : l \notin z}}
    BY <1>2, <1>3, <1>6 DEF Kernel, Coordinates, X
  <2>2. \A x \in X : l \notin x => x \ {l} = x
    OBVIOUS
  <2>3. \A w : w \in {Combination(E, x) : x \in {z \in X : l \notin z}} <=> w \in S
    <3> SUFFICES ASSUME NEW w
                 PROVE  w \in {Combination(E, x) : x \in {z \in X : l \notin z}} <=> w \in S
      OBVIOUS
    <3>1. ASSUME NEW x \in X, l \notin x, w = Combination(E, x) PROVE w \in S
      BY <1>1, <1>4, <2>2, <3>1
    <3>2. ASSUME w \in S PROVE \E x \in X : l \notin x /\ w = Combination(E, x)
      <4>1. PICK y \in Y : w = Combination(H, y)
        BY <1>4, <3>2
      <4>2. y \in X /\ l \notin y /\ Combination(E, y) = Combination(H, y)
        BY <1>1, <1>5, <4>1
      <4> QED
        BY <4>1, <4>2
    <3> QED
      BY <3>1, <3>2
  <2> QED
    BY <2>1, <2>3
<1>10. CodeOf(E) = WithCoset(S, d)
  <2>1. CodeOf(E) = {Combination(E, x) : x \in X}
    BY <1>3 DEF CodeOf, X
  <2>2. \A x \in X : Combination(E, x) \in WithCoset(S, d)
    BY <1>1, <1>4 DEF WithCoset
  <2>3. ASSUME NEW w \in WithCoset(S, d) PROVE \E x \in X : w = Combination(E, x)
    <3>1. \E y \in Y : w = Combination(H, y) \/ w = Xor(Combination(H, y), d)
      BY <1>4 DEF WithCoset
    <3>2. PICK y \in Y : w = Combination(H, y) \/ w = Xor(Combination(H, y), d)
      BY <3>1
    <3>3. CASE w = Combination(H, y)
      BY <1>1, <1>5, <3>3
    <3>4. CASE w = Xor(Combination(H, y), d)
      <4>1. l \in y \cup {l}
        OBVIOUS
      <4>2. y \cup {l} \in X /\ (y \cup {l}) \ {l} = y
        BY <1>5
      <4>3. Combination(E, y \cup {l}) = Xor(Combination(H, y), d)
        BY <1>1, <4>1, <4>2
      <4> QED
        BY <3>4, <4>2, <4>3
    <3> QED
      BY <3>2, <3>3, <3>4
  <2> HIDE DEF S
  <2> QED
    BY <2>1, <2>2, <2>3
<1> QED
  BY <1>2, <1>8, <1>9, <1>10 DEF E

(* From whichever hyperplane the test is started, it weighs the same         *)
(* hyperplanes of the same code: u's claim succeeds, alone or in a tie, when *)
(* no other functional's list is less than u's.                              *)
LEMMA ClaimIsRule ==
  ASSUME NEW rows, NEW v, Framing(rows, v), NEW u \in Functionals(rows)
  PROVE  Claims(rows, v, u) <=> \A w \in Weights : ~ BeatenAt(rows, v, u, w)
<1> DEFINE D == Append(rows, v)
           B == HyperplaneBasis(rows, v, u)
           R == RowReduce(B, N)
           H == R.rref
           d == D[Min(u) + 1]
           E == Append(H, d)
           K == Kernel(D, u)
<1>1. N \in Nat
  BY PhiAssumption
<1>2. CodeOf(B) = K /\ d \notin K /\ CodeOf(D) = WithCoset(K, d)
  BY HyperplaneSpans
<1>3. B \in Seq(Bits(N)) /\ Min(u) \in 0 .. Len(rows)
  <2>1. Crossed(B, D, u, Min(u), Len(rows))
    BY HyperplaneRows
  <2> QED
    BY <2>1 DEF Crossed
<1>4. d \in Bits(N)
  <2>1. D \in Seq(Bits(N)) /\ Len(D) = Len(rows) + 1 /\ Len(rows) \in Nat
    BY FramingFacts
  <2> QED
    BY <1>3, <2>1
<1> HIDE DEF d, B, D, K
<1>5. Echelon(R.rref, R.pivots, N) /\ CodeOf(R.rref) = CodeOf(B)
  BY <1>1, <1>3, RowReduceCorrect
<1> HIDE DEF R
<1>6. H \in Seq(Bits(N)) /\ Independent(H) /\ CodeOf(H) = K
  <2>1. Basis(H)
    BY <1>1, <1>5, EchelonIndependent
  <2> QED
    BY <1>2, <1>5, <2>1 DEF Echelon, Basis
<1> HIDE DEF H
<1>7. /\ Framing(H, d) /\ Kernel(E, Own(H)) = K /\ CodeOf(E) = CodeOf(D)
  BY <1>2, <1>4, <1>6, OwnFrame
<1>8. \A w : BeatenAt(H, d, Own(H), w) <=> Beats(K, CodeOf(D), w)
  BY <1>7, BeatenByHyperplane
<1>9. \A w : BeatenAt(rows, v, u, w) <=> Beats(K, CodeOf(D), w)
  BY BeatenByHyperplane DEF K, D
<1>10. Claims(rows, v, u) <=> \A w \in Weights : ~ BeatenAt(H, d, Own(H), w)
  BY DEF Claims, H, d, R, B, D
<1> QED
  BY <1>8, <1>9, <1>10

(* What a parent and a candidate are.                                        *)
LEMMA CandidateFrames ==
  ASSUME NEW rows \in Codes, NEW v \in Candidates[rows]
  PROVE  Framing(rows, v)
<1> DEFINE D == Append(rows, v)
           k == Len(rows)
<1>1. rows \in Seq(Bits(N)) /\ v \in Bits(N) /\ k \in Nat
  <2>1. rows \in Seq(Bits(N))
    BY PhiAssumption DEF Bits
  <2> QED
    BY <2>1, CandidateAssumption DEF Bits
<1>2. Len(D) = k + 1
  BY <1>1
<1>3. 0 .. Len(D) - 1 = 0 .. k
  BY <1>1, <1>2
<1>4. \A x \in SUBSET (0 .. k) : x # Zero => Combination(D, x) # Zero
  <2>1. \A x \in SUBSET (0 .. k) : x # Zero => Weight(Combination(D, x)) \in Weights
    BY CandidateAssumption
  <2>2. Weight(Zero) = 0 /\ 0 \notin Weights
    BY FS_EmptySet, PhiAssumption DEF Weight, Zero, Weights
  <2> QED
    BY <2>1, <2>2
<1> QED
  BY <1>1, <1>3, <1>4 DEF Framing, Independent, Coordinates, Zero

-----------------------------------------------------------------------------
(* Agreement of the parents.                                                 *)

(* Some functional's list is least.                                          *)
LEMMA SomeUnbeaten ==
  ASSUME NEW rows \in Codes, NEW v \in Candidates[rows]
  PROVE  Unbeaten(rows, v, N) # {}
<1> DEFINE C == {a \in 0 .. N : Unbeaten(rows, v, a) # {}}
<1>1. N \in Nat /\ 0 \in 0 .. N
  BY PhiAssumption
<1>2. 0 \in C
  <2>1. Unbeaten(rows, v, 0) = Functionals(rows)
    BY <1>1, UnbeatenFacts
  <2>2. Len(rows) \in Nat
    BY CoordsFinite
  <2>3. {Len(rows)} \in Functionals(rows)
    BY <2>2 DEF Functionals, Zero
  <2> QED
    BY <1>1, <2>1, <2>3
<1>3. ASSUME NEW a \in 0 .. N, a > 0, Unbeaten(rows, v, a - 1) # {}
      PROVE  Unbeaten(rows, v, a) # {}
  <2> DEFINE U == Unbeaten(rows, v, a - 1)
  <2>1. U \subseteq Functionals(rows)
    BY DEF Unbeaten
  <2>2. a \in Nat /\ a - 1 \in Nat /\ \A s \in Weights : s \in Nat /\ (s <= a => s <= a - 1 \/ s = a)
    BY <1>3, PhiType
  <2>3. CASE a \notin Weights
    <3>1. \A s \in Weights : s <= a => s <= a - 1
      BY <2>2, <2>3
    <3>2. U \subseteq Unbeaten(rows, v, a)
      BY <3>1 DEF Unbeaten
    <3> QED
      BY <1>3, <3>2
  <2>4. CASE a \in Weights
    <3> DEFINE S == {Phi(rows, v, u, a) : u \in U}
    <3>1. S \subseteq Nat /\ S # {}
      BY <1>3, <2>1, <2>4, PhiType
    <3>2. \E n \in S : \A i \in S : n <= i
      <4> HIDE DEF S
      <4> QED
        BY <3>1, LeastNumber
    <3>3. PICK u \in U : \A o \in U : Phi(rows, v, u, a) <= Phi(rows, v, o, a)
      BY <3>2
    <3> HIDE DEF S
    <3>4. u \in Functionals(rows) /\ Phi(rows, v, u, a) \in Nat
      BY <2>1, <2>4, PhiType
    <3>5. ASSUME BeatenAt(rows, v, u, a) PROVE FALSE
      <4>1. PICK q \in Functionals(rows) :
              /\ Phi(rows, v, q, a) < Phi(rows, v, u, a)
              /\ \A i \in Weights : i < a => Phi(rows, v, q, i) = Phi(rows, v, u, i)
        BY <3>5 DEF BeatenAt
      <4>2. \A i \in Weights : i <= a - 1 => Phi(rows, v, u, i) = Phi(rows, v, q, i)
        <5> SUFFICES ASSUME NEW i \in Weights, i <= a - 1 PROVE Phi(rows, v, u, i) = Phi(rows, v, q, i)
          OBVIOUS
        <5>1. i < a
          BY <2>2
        <5> QED
          BY <4>1, <5>1
      <4>3. q \in U
        BY <2>2, <4>1, <4>2, SameList
      <4>4. Phi(rows, v, q, a) \in Nat
        BY <2>4, <4>1, PhiType
      <4> QED
        BY <3>3, <3>4, <4>1, <4>3, <4>4
    <3>6. u \in Unbeaten(rows, v, a)
      <4>1. \A s \in Weights : s <= a - 1 => ~ BeatenAt(rows, v, u, s)
        BY DEF Unbeaten
      <4>2. \A s \in Weights : s <= a => ~ BeatenAt(rows, v, u, s)
        BY <2>2, <3>5, <4>1
      <4> QED
        BY <3>4, <4>2 DEF Unbeaten
    <3> QED
      BY <3>6
  <2> QED
    BY <2>3, <2>4
<1>4. C \subseteq 0 .. N /\ 0 <= N /\ 0 \in Nat /\ \A a \in 0 .. N : a > 0 /\ a - 1 \in C => a \in C
  BY <1>1, <1>3
<1> HIDE DEF C
<1>5. 0 .. N \subseteq C
  BY <1>1, <1>2, <1>4, RangeInduction
<1>6. N \in C
  BY <1>1, <1>5
<1> QED
  BY <1>6 DEF C

(* A verdict is about the frame on top.                                      *)
Settled == Decided => frames # <<>> /\ Rows \in Codes /\ cand \in Candidates[Rows]

LEMMA SettledStep == CascadeInv /\ Settled /\ [Next]_vars => Settled'
<1> SUFFICES ASSUME CascadeInv, Settled, [Next]_vars, Decided'
             PROVE  frames' # <<>> /\ Rows' \in Codes /\ cand' \in Candidates[Rows']
  BY DEF Settled
<1>1. Stacked /\ (~ Idle => Underway)
  BY DEF CascadeInv
<1>2. ASSUME ~ Idle, UNCHANGED cand, UNCHANGED frames \/ \E c : WithCtx(c)
      PROVE  frames' # <<>> /\ Rows' \in Codes /\ cand' \in Candidates[Rows']
  <2>1. frames # <<>> /\ Rows \in Codes /\ cand \in Candidates[Rows]
    BY <1>1, <1>2, TopFacts DEF Underway
  <2>2. CASE UNCHANGED frames
    <3>1. Rows' = Rows
      BY <2>2 DEF Rows, Top
    <3> QED
      BY <1>2, <2>1, <2>2, <3>1
  <2>3. ASSUME NEW c, WithCtx(c) PROVE frames' # <<>> /\ Rows' = Rows
    BY <1>1, <2>1, <2>3, TopSet
  <2> QED
    BY <1>2, <2>1, <2>2, <2>3
<1>3. ASSUME \/ \E c \in Codes : OpenSeed(c)
             \/ Descend
             \/ CloseFrame
             \/ \E c \in Codes : \E v \in Candidates[c] : Begin(v)
      PROVE  FALSE
  BY <1>3 DEF OpenSeed, Descend, CloseFrame, Begin, Decided
<1>4. ASSUME NEW w \in 1 .. N, Stratum(w) PROVE ~ Idle /\ UNCHANGED cand
  BY <1>4 DEF Stratum
<1>5. ASSUME NEW w \in 1 .. N,
             \/ TrivialFrame(w) \/ FirstCosetOnly(w) \/ ChainCosetOnly(w)
      PROVE  Stratum(w) /\ UNCHANGED frames
  BY <1>5 DEF TrivialFrame, FirstCosetOnly, ChainCosetOnly, First, OnChain
<1>6. ASSUME NEW w \in 1 .. N,
             \/ FirstCodeOnly(w) \/ FirstBound(w) \/ FirstSplit(w) \/ ChainCodeOnly(w) \/ ChainBound(w)
      PROVE  Stratum(w) /\ \E c : WithCtx(c)
  <2>1. CASE FirstCodeOnly(w)
    BY <2>1 DEF FirstCodeOnly, First
  <2>2. CASE FirstBound(w)
    BY <2>2 DEF FirstBound, FirstMixed, First
  <2>3. CASE FirstSplit(w)
    BY <2>3 DEF FirstSplit, FirstMixed, First
  <2>4. CASE ChainCodeOnly(w)
    BY <2>4 DEF ChainCodeOnly, OnChain
  <2>5. CASE ChainBound(w)
    BY <2>5 DEF ChainBound, OnChain
  <2> QED
    BY <1>6, <2>1, <2>2, <2>3, <2>4, <2>5
<1>7. ASSUME NEW w \in 1 .. N, ChainLeave(w) \/ LaterStratum(w)
      PROVE  Stratum(w) /\ \E c : WithCtx(c)
  <2>1. \A b, S : Filter(b, S, w) => \E c : WithCtx(c)
    BY DEF Filter, ByTransform, ByCounting
  <2>2. CASE ChainLeave(w)
    BY <2>1, <2>2 DEF ChainLeave, OnChain
  <2>3. CASE LaterStratum(w)
    BY <2>1, <2>3 DEF LaterStratum, Later
  <2> QED
    BY <1>7, <2>2, <2>3
<1>8. CASE Exhausted
  BY <1>2, <1>8 DEF Exhausted
<1>9. CASE UNCHANGED vars
  <2>1. UNCHANGED <<frames, cand, outcome>>
    BY <1>9 DEF vars
  <2>2. Decided /\ Rows' = Rows
    BY <2>1 DEF Decided, Rows, Top
  <2> QED
    BY <2>1, <2>2 DEF Settled
<1> QED
  BY <1>2, <1>3, <1>4, <1>5, <1>6, <1>7, <1>8, <1>9 DEF Next

LEMMA AgreeFollows == RuleInv /\ Settled => ParentsAgree
<1> SUFFICES ASSUME RuleInv, Settled, Decided
             PROVE  LET claimed == {u \in Functionals(Rows) : ClaimOf[Rows, cand, u]}
                    IN CASE outcome = "reject" -> claimed # {} /\ uC \notin claimed
                         [] outcome = "unique" -> claimed = {uC}
                         [] OTHER -> claimed = m
  BY DEF ParentsAgree
<1> DEFINE claimed == {u \in Functionals(Rows) : ClaimOf[Rows, cand, u]}
           U == Unbeaten(Rows, cand, N)
<1>1. Rows \in Codes /\ cand \in Candidates[Rows]
  BY DEF Settled
<1>2. N \in 0 .. N /\ \A s \in Weights : s <= N
  BY PhiAssumption DEF Weights
<1>3. ASSUME NEW u \in Functionals(Rows) PROVE ClaimOf[Rows, cand, u] <=> u \in U
  <2> DEFINE t == <<Rows, cand, u>>
  <2>1. t \in Tests
    BY <1>1 DEF Tests
  <2>2. ClaimOf[t] = Claims(t[1], t[2], t[3])
    <3> HIDE DEF t
    <3> QED
      BY <2>1 DEF ClaimOf
  <2>3. ClaimOf[Rows, cand, u] <=> Claims(Rows, cand, u)
    BY <2>2
  <2>4. Claims(Rows, cand, u) <=> \A w \in Weights : ~ BeatenAt(Rows, cand, u, w)
    BY <1>1, CandidateFrames, ClaimIsRule
  <2>5. u \in U <=> \A w \in Weights : ~ BeatenAt(Rows, cand, u, w)
    BY <1>2 DEF Unbeaten
  <2> QED
    BY <2>3, <2>4, <2>5
<1>4. U \subseteq Functionals(Rows)
  BY DEF Unbeaten
<1>5. claimed = U
  BY <1>3, <1>4
<1>6. Argmin(N) = U
  BY <1>1, <1>2, ArgminIs
<1>7. U # {}
  BY <1>1, SomeUnbeaten
<1> HIDE DEF claimed, U
<1>8. (CASE outcome = "reject" -> uC \notin U
         [] outcome = "unique" -> U = {uC}
         [] OTHER -> m = U)
  BY <1>6 DEF RuleInv, VerdictIsRule
<1>9. (CASE outcome = "reject" -> claimed # {} /\ uC \notin claimed
         [] outcome = "unique" -> claimed = {uC}
         [] OTHER -> claimed = m)
  BY <1>5, <1>7, <1>8
<1> QED
  BY <1>9 DEF claimed

(* Canonical augmentation rests on this: were the test run from any other    *)
(* hyperplane of D as the parent, in that hyperplane's own reduced basis, it *)
(* would find the same functionals least.  A unique accept is claimed from   *)
(* no other hyperplane, a tie is a tie from each member of the set and from  *)
(* no other, and of a rejected D somebody else is the parent: D is kept by   *)
(* one orbit of parents and never by none.                                   *)
THEOREM ParentsAgreeCorrect == Spec => []ParentsAgree
<1>1. Init => Settled
  BY DEF Init, Settled, Decided
<1>2. CascadeInv /\ Settled /\ [Next]_vars => Settled'
  BY SettledStep
<1>3. Spec => []Settled
  BY <1>1, <1>2, CascadeInvariant, PTL DEF Spec
<1>4. RuleInv /\ Settled => ParentsAgree
  BY AgreeFollows
<1> QED
  BY <1>3, <1>4, RuleInvariant, PTL

-----------------------------------------------------------------------------
(* The decomposability log.                                                  *)

(* Two bases of a code have the same number of rows.                         *)
LEMMA WordsOfBasis ==
  ASSUME NEW rows, Basis(rows)
  PROVE  IsFiniteSet(CodeOf(rows)) /\ Cardinality(CodeOf(rows)) = 2^Len(rows)
<1> DEFINE X == Coordinates(rows)
           C == CodeOf(rows)
           f == [x \in X |-> Combination(rows, x)]
<1>1. Len(rows) \in Nat /\ X = SUBSET (0 .. Len(rows) - 1)
  BY DEF Basis, Coordinates
<1>2. \A x \in X : IsFiniteSet(x)
  BY <1>1, CoordinatesFinite
<1>3. C = {Combination(rows, x) : x \in X}
  BY <1>1 DEF CodeOf
<1>4. IsFiniteSet(X) /\ Cardinality(X) = 2^Len(rows)
  <2>1. IsFiniteSet(0 .. Len(rows) - 1) /\ Cardinality(0 .. Len(rows) - 1) = Len(rows)
    <3>1. 0 \in Int /\ Len(rows) - 1 \in Int /\ (IF 0 > Len(rows) - 1 THEN 0 ELSE Len(rows) - 1 - 0 + 1) = Len(rows)
      BY <1>1
    <3> QED
      BY <3>1, FS_Interval
  <2> DEFINE K == 0 .. Len(rows) - 1
  <2>2. IsFiniteSet(SUBSET K) /\ Cardinality(SUBSET K) = 2^Cardinality(K)
    <3> HIDE DEF K
    <3> QED
      BY <2>1, FS_SUBSET DEF K
  <2>3. Cardinality(K) = Len(rows)
    BY <2>1
  <2> QED
    BY <1>1, <2>2, <2>3
<1> HIDE DEF X
<1>5. f \in [X -> C] /\ \A w \in C : \E x \in X : f[x] = w
  BY <1>3
<1>6. ASSUME NEW x \in X, NEW y \in X, f[x] = f[y] PROVE x = y
  <2>1. Xor(x, y) \in X
    BY <1>1 DEF Xor, SymDiff
  <2>2. Combination(rows, Xor(x, y)) = Xor(Combination(rows, x), Combination(rows, y))
    BY <1>2, CombinationXor
  <2>3. Combination(rows, Xor(x, y)) = Zero
    BY <1>6, <2>2, XorFacts
  <2>4. Xor(x, y) = {}
    BY <2>1, <2>3 DEF Basis, Independent, X
  <2> QED
    BY <2>4 DEF Xor, SymDiff
<1>7. DOMAIN f = X
  OBVIOUS
<1> HIDE DEF f, C
<1>8. ExistsBijection(X, C)
  BY <1>5, <1>6, <1>7 DEF ExistsBijection, Bijection, Injection, Surjection, IsInjective
<1> QED
  BY <1>4, <1>8, FS_Bijection DEF C

LEMMA PowersGrow ==
  ASSUME NEW a \in Nat, NEW b \in Nat, a < b
  PROVE  2^a < 2^b
<1> DEFINE C == {n \in a + 1 .. b : 2^a < 2^n}
<1>1. a + 1 \in Nat /\ a + 1 <= b /\ a + 1 \in a + 1 .. b
  OBVIOUS
<1>2. a + 1 \in C
  BY <1>1, PowerOfTwo
<1>3. ASSUME NEW n \in a + 1 .. b, n > a + 1, n - 1 \in C PROVE n \in C
  <2>1. n - 1 \in Nat /\ (n - 1) + 1 = n
    BY <1>3
  <2>2. 2^(n - 1) \in Nat /\ 2^(n - 1) >= 1 /\ 2^n = 2 * 2^(n - 1) /\ 2^a \in Nat
    <3>1. 2^(n - 1) \in Nat /\ 2^(n - 1) >= 1 /\ 2^((n - 1) + 1) = 2 * 2^(n - 1)
      BY <2>1, PowerOfTwo
    <3>2. 2^a \in Nat
      BY PowerOfTwo
    <3> QED
      BY <2>1, <3>1, <3>2
  <2>3. 2^a < 2^(n - 1)
    BY <1>3
  <2>4. 2^a < 2^n
    BY <2>2, <2>3
  <2> QED
    BY <2>4
<1>4. C \subseteq a + 1 .. b
  OBVIOUS
<1> HIDE DEF C
<1>5. a + 1 .. b \subseteq C
  BY <1>1, <1>2, <1>3, <1>4, RangeInduction
<1>6. b \in C
  BY <1>1, <1>5
<1> QED
  BY <1>6 DEF C

LEMMA SameLength ==
  ASSUME NEW rows, Basis(rows), NEW more, Basis(more), CodeOf(rows) = CodeOf(more)
  PROVE  Len(rows) = Len(more)
<1>1. 2^Len(rows) = 2^Len(more)
  BY WordsOfBasis
<1>2. Len(rows) \in Nat /\ Len(more) \in Nat
  BY DEF Basis
<1>3. 2^Len(rows) \in Nat /\ 2^Len(more) \in Nat
  BY <1>2, PowerOfTwo
<1>4. ~ (Len(rows) < Len(more)) /\ ~ (Len(more) < Len(rows))
  BY <1>1, <1>2, <1>3, PowersGrow
<1> QED
  BY <1>2, <1>4

(* One record: the child's reduced basis against the child's words.          *)
LEMMA RecordIsStructure ==
  ASSUME NEW rows \in Codes, NEW v \in Candidates[rows]
  PROVE  LogDecomp(RowReduce(Append(rows, v), N).rref, N)
           = Structure(Span(ToSet(rows) \cup {v}), Len(rows) + 1)
<1> DEFINE E == Append(rows, v)
           D == RowReduce(E, N).rref
           piv == RowReduce(E, N).pivots
           words == CodeOf(E)
<1>1. N \in Nat /\ rows \in Seq(Bits(N)) /\ v \in Bits(N)
  <2>1. N \in Nat /\ rows \in Seq(Bits(N))
    BY PhiAssumption DEF Bits
  <2> QED
    BY <2>1, CandidateAssumption DEF Bits
<1>2. E \in Seq(Bits(N)) /\ Len(E) = Len(rows) + 1 /\ Len(rows) \in Nat
  BY <1>1
<1>3. ToSet(E) = ToSet(rows) \cup {v}
  <2>1. DOMAIN rows = 1 .. Len(rows) /\ DOMAIN E = 1 .. Len(rows) + 1
    BY <1>1, <1>2
  <2>2. E[Len(rows) + 1] = v /\ \A i \in 1 .. Len(rows) : E[i] = rows[i]
    BY <1>1
  <2>3. \A i \in 1 .. Len(rows) + 1 : i \in 1 .. Len(rows) \/ i = Len(rows) + 1
    BY <1>2
  <2>4. Len(rows) + 1 \in 1 .. Len(rows) + 1 /\ \A i \in 1 .. Len(rows) : i \in 1 .. Len(rows) + 1
    BY <1>2
  <2> HIDE DEF E
  <2>5. ToSet(E) = {E[i] : i \in 1 .. Len(rows) + 1} /\ ToSet(rows) = {rows[i] : i \in 1 .. Len(rows)}
    BY <2>1 DEF ToSet
  <2> QED
    BY <2>2, <2>3, <2>4, <2>5
<1>4. Span(ToSet(rows) \cup {v}) = words
  BY <1>1, <1>2, <1>3, SpanIsCode
<1>5. Basis(E)
  <2>1. Framing(rows, v)
    BY CandidateFrames
  <2> QED
    BY <1>2, <2>1 DEF Framing, Basis
<1>6. Echelon(D, piv, N) /\ CodeOf(D) = words
  BY <1>1, <1>2, RowReduceCorrect
<1>7. ComponentsOf(D, N) = FinestOf(words)
  BY <1>1, <1>2, ComponentsAreSummands
<1> HIDE DEF D, piv, words
<1>8. D \in Seq(Bits(N))
  BY <1>6 DEF Echelon
<1>9. Len(D) = Len(rows) + 1
  <2>1. Basis(D)
    BY <1>1, <1>6, EchelonIndependent
  <2> HIDE DEF E
  <2> QED
    BY <1>2, <1>5, <1>6, <2>1, SameLength DEF words
<1>10. UNION words = ColumnSupport(D) /\ TwinsIn(D) = TwinsOf(words)
  BY <1>1, <1>6, <1>8, SupportOfCode, TwinsOfRows
<1>11. LogDecomp(D, N) = [k |-> Len(D), sup |-> Cardinality(ColumnSupport(D)),
                          comp |-> Sizes(ComponentsOf(D, N)), tw |-> Sizes(TwinsIn(D))]
  BY DEF LogDecomp, Weight, ComponentSizes, TwinClassSizes, ComponentsOf, TwinsIn
<1>12. Structure(words, Len(rows) + 1)
         = [k |-> Len(rows) + 1, sup |-> Cardinality(UNION words),
            comp |-> Sizes(FinestOf(words)), tw |-> Sizes(TwinsOf(words))]
  BY DEF Structure, FinestOf, TwinsOf
<1>13. LogDecomp(D, N) = Structure(words, Len(rows) + 1)
  BY <1>7, <1>9, <1>10, <1>11, <1>12
<1> QED
  BY <1>4, <1>13 DEF D

(* What the decomposability log says of a child is what its words say: the   *)
(* components of the reduced basis, found by joining the columns of its      *)
(* rows, are the summands of the finest direct sum, and columns equal in     *)
(* every row are equal in every word.                                        *)
THEOREM LoggedSplitIsFinestCorrect == Spec => []LoggedSplitIsFinest
<1>1. Init => Settled
  BY DEF Init, Settled, Decided
<1>2. CascadeInv /\ Settled /\ [Next]_vars => Settled'
  BY SettledStep
<1>3. Settled => LoggedSplitIsFinest
  <2> SUFFICES ASSUME Settled, outcome \in {"unique", "tie"}
               PROVE  RecordOf[Rows, cand] = StructureOf[Rows, cand]
    BY DEF LoggedSplitIsFinest
  <2>1. Rows \in Codes /\ cand \in Candidates[Rows]
    BY DEF Settled, Decided
  <2> DEFINE c == <<Rows, cand>>
  <2>2. c \in Children /\ c[1] = Rows /\ c[2] = cand
    BY <2>1 DEF Children
  <2> HIDE DEF c
  <2>3. /\ RecordOf[c] = LogDecomp(RowReduce(Append(c[1], c[2]), N).rref, N)
        /\ StructureOf[c] = Structure(Span(ToSet(c[1]) \cup {c[2]}), Len(c[1]) + 1)
    BY <2>2 DEF RecordOf, StructureOf
  <2>4. RecordOf[c] = StructureOf[c]
    BY <2>1, <2>2, <2>3, RecordIsStructure
  <2> QED
    BY <2>4 DEF c
<1>4. Spec => []Settled
  BY <1>1, <1>2, CascadeInvariant, PTL DEF Spec
<1> QED
  BY <1>3, <1>4, PTL

=============================================================================

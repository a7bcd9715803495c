------------------------------- MODULE F2Proofs -------------------------------
(***************************************************************************)
(* Facts about words over F_2 and the loops that run through them: what a  *)
(* loop and a concatenation compute, the Gray code as a walk through all   *)
(* words, the order of words as numbers, sums of rows.  Then row           *)
(* reduction: it returns a reduced echelon basis of the code of its rows,  *)
(* and a code has only one.  At the end, the argument in the head of       *)
(* decomp.rs for codes of any length: the union-find over the rows of such *)
(* a basis finds the finest direct sum of the code.                        *)
(***************************************************************************)
EXTENDS DirectSum, Quotient, FoldProofs

-----------------------------------------------------------------------------
(* Loops over a range of numbers.                                           *)

(* Induction from a to b.                                                    *)
LEMMA RangeInduction ==
  ASSUME NEW a \in Nat, NEW b \in Nat, a <= b, NEW C, C \subseteq a .. b, a \in C,
         \A i \in a .. b : i > a /\ i - 1 \in C => i \in C
  PROVE  a .. b \subseteq C
<1> DEFINE Missing == (a .. b) \ C
<1>1. CASE Missing = {}
  BY <1>1
<1>2. CASE Missing # {}
  <2>1. Missing \subseteq Nat
    OBVIOUS
  <2>2. \E k \in Missing : \A n \in Missing : k <= n
    <3> HIDE DEF Missing
    <3> QED
      BY <1>2, <2>1, LeastNumber
  <2>3. PICK k \in Missing : \A n \in Missing : k <= n
    BY <2>2
  <2>4. k \in a .. b /\ k > a
    OBVIOUS
  <2>5. k - 1 \in a .. b /\ k - 1 \notin Missing
    BY <2>3, <2>4
  <2> QED
    BY <2>4, <2>5
<1> QED
  BY <1>1, <1>2

(* The value of a loop variable after each of the steps a + 1 .. b.          *)
IsLoop(base, step, a, b, f) ==
  /\ f[a] = base
  /\ \A i \in a .. b : i > a => f[i] = step[f[i - 1], i]

LEMMA LoopExists ==
  ASSUME NEW a \in Nat, NEW b \in Nat, a <= b, NEW V, NEW base \in V,
         NEW step \in [V \X (a .. b) -> V]
  PROVE  \E f \in [a .. b -> V] : IsLoop(base, step, a, b, f)
<1> DEFINE Has(n) == \E f \in [a .. n -> V] : IsLoop(base, step, a, n, f)
           C == {n \in a .. b : Has(n)}
<1>1. a \in C
  <2>1. [i \in a .. a |-> base] \in [a .. a -> V]
    OBVIOUS
  <2>2. IsLoop(base, step, a, a, [i \in a .. a |-> base])
    <3>1. \A i \in a .. a : ~ (i > a)
      OBVIOUS
    <3>2. [i \in a .. a |-> base][a] = base
      OBVIOUS
    <3> QED
      BY <3>1, <3>2 DEF IsLoop
  <2> QED
    BY <2>1, <2>2
<1>2. ASSUME NEW n \in a .. b, n > a, n - 1 \in C
      PROVE  n \in C
  <2>1. PICK f \in [a .. n - 1 -> V] : IsLoop(base, step, a, n - 1, f)
    BY <1>2
  <2> DEFINE g == [i \in a .. n |-> IF i = n THEN step[f[n - 1], n] ELSE f[i]]
  <2>0. n \in Nat /\ n - 1 \in a .. n - 1 /\ n \in a .. n /\ n \notin a .. n - 1
    BY <1>2
  <2>2. f[n - 1] \in V
    BY <2>0
  <2>3. step[f[n - 1], n] \in V
    BY <2>2
  <2>4. g \in [a .. n -> V]
    <3>1. \A i \in a .. n : i # n => i \in a .. n - 1
      BY <2>0
    <3> QED
      BY <2>3, <3>1
  <2>5. \A i \in a .. n - 1 : g[i] = f[i]
    <3>1. \A i \in a .. n - 1 : i \in a .. n /\ i # n
      BY <2>0
    <3> QED
      BY <3>1
  <2>6. g[n] = step[f[n - 1], n] /\ g[n - 1] = f[n - 1]
    BY <2>0, <2>5
  <2> HIDE DEF g
  <2>7. IsLoop(base, step, a, n, g)
    <3>1. g[a] = base
      <4>1. a \in a .. n - 1
        BY <1>2, <2>0
      <4> QED
        BY <2>1, <2>5, <4>1 DEF IsLoop
    <3>2. ASSUME NEW i \in a .. n, i > a
          PROVE  g[i] = step[g[i - 1], i]
      <4>1. CASE i = n
        BY <2>6, <4>1
      <4>2. CASE i # n
        <5>1. i \in a .. n - 1 /\ i - 1 \in a .. n - 1
          BY <3>2, <4>2
        <5> QED
          BY <2>1, <2>5, <3>2, <5>1 DEF IsLoop
      <4> QED
        BY <4>1, <4>2
    <3> QED
      BY <3>1, <3>2 DEF IsLoop
  <2> QED
    BY <2>4, <2>7
<1>3. C \subseteq a .. b
  OBVIOUS
<1>4. b \in C
  <2> HIDE DEF C
  <2>1. \A i \in a .. b : i > a /\ i - 1 \in C => i \in C
    BY <1>2
  <2>2. a .. b \subseteq C
    BY <1>1, <1>3, <2>1, RangeInduction
  <2> QED
    BY <2>2
<1> QED
  BY <1>4

-----------------------------------------------------------------------------
(* Concatenations.                                                           *)

(* What has been concatenated after each of the sequences.                   *)
Concatenates(seqs, f) ==
  /\ f[0] = <<>>
  /\ \A i \in 1 .. Len(seqs) : f[i] = f[i - 1] \o seqs[i]
  /\ FlattenSeq(seqs) = f[Len(seqs)]

LEMMA FlattenLoop ==
  ASSUME NEW T, NEW seqs \in Seq(Seq(T))
  PROVE  \E f \in [0 .. Len(seqs) -> Seq(T)] : Concatenates(seqs, f)
<1> DEFINE n == Len(seqs)
           step == [p \in Seq(T) \X (0 .. n) |-> IF p[2] = 0 THEN <<>> ELSE p[1] \o seqs[p[2]]]
<1>1. n \in Nat /\ \A i \in 1 .. n : seqs[i] \in Seq(T)
  OBVIOUS
<1>2. step \in [Seq(T) \X (0 .. n) -> Seq(T)]
  OBVIOUS
<1>3. \A s \in Seq(T), i \in 1 .. n : step[s, i] = s \o seqs[i]
  <2>1. \A i \in 1 .. n : i \in 0 .. n /\ i # 0
    BY <1>1
  <2> QED
    BY <2>1
<1>4. PICK f \in [0 .. n -> Seq(T)] : IsLoop(<<>>, step, 0, n, f)
  <2>1. <<>> \in Seq(T) /\ 0 <= n /\ 0 \in Nat
    BY <1>1
  <2> HIDE DEF step, n
  <2> QED
    BY <1>1, <1>2, <2>1, LoopExists
<1> HIDE DEF step
<1>5. \A i \in 1 .. n : f[i] = f[i - 1] \o seqs[i]
  <2> SUFFICES ASSUME NEW i \in 1 .. n
               PROVE  f[i] = f[i - 1] \o seqs[i]
    OBVIOUS
  <2>1. i \in 0 .. n /\ i > 0 /\ i - 1 \in 0 .. n
    BY <1>1
  <2>2. f[i] = step[f[i - 1], i]
    BY <1>4, <2>1 DEF IsLoop
  <2>3. f[i - 1] \in Seq(T)
    BY <2>1
  <2> QED
    BY <1>3, <2>2, <2>3
<1>6. f[0] = <<>>
  BY <1>4 DEF IsLoop
<1>7. CASE n = 0
  <2>1. FlattenSeq(seqs) = seqs /\ seqs = <<>>
    BY <1>7 DEF FlattenSeq
  <2> QED
    BY <1>5, <1>6, <1>7, <2>1 DEF Concatenates
<1>8. CASE n # 0
  <2> DEFINE Flat(g) == g = [i \in 1 .. n |-> IF i = 1 THEN seqs[i] ELSE g[i - 1] \o seqs[i]]
             h == CHOOSE g : Flat(g)
  <2>1. FlattenSeq(seqs) = h[n]
    BY <1>8 DEF FlattenSeq
  <2>2. Flat([i \in 1 .. n |-> f[i]])
    <3> DEFINE k == [i \in 1 .. n |-> f[i]]
    <3>1. ASSUME NEW i \in 1 .. n
          PROVE  f[i] = IF i = 1 THEN seqs[i] ELSE k[i - 1] \o seqs[i]
      <4>1. CASE i = 1
        <5>1. f[1] = <<>> \o seqs[1] /\ seqs[1] \in Seq(T)
          <6>1. f[1] = f[1 - 1] \o seqs[1] /\ seqs[1] \in Seq(T)
            BY <1>1, <1>5, <4>1
          <6>2. 1 - 1 = 0
            OBVIOUS
          <6> QED
            BY <1>6, <6>1, <6>2
        <5> QED
          BY <4>1, <5>1
      <4>2. CASE i # 1
        <5>1. i - 1 \in 1 .. n
          BY <1>1, <4>2
        <5> QED
          BY <1>5, <4>2, <5>1
      <4> QED
        BY <4>1, <4>2
    <3> HIDE DEF k
    <3>2. k = [i \in 1 .. n |-> f[i]]
      BY DEF k
    <3> QED
      BY <3>1, <3>2
  <2>3. Flat(h)
    <3>1. \E g : Flat(g)
      BY <2>2
    <3> HIDE DEF Flat
    <3> QED
      BY <3>1
  <2> HIDE DEF h
  <2>4. /\ h[1] = seqs[1]
        /\ \A i \in 2 .. n : h[i] = h[i - 1] \o seqs[i]
    <3>1. 1 \in 1 .. n /\ \A i \in 2 .. n : i \in 1 .. n /\ i # 1
      BY <1>1, <1>8
    <3> QED
      BY <2>3, <3>1
  <2> DEFINE C == {i \in 1 .. n : h[i] = f[i]}
  <2>5. 1 \in C
    <3>1. f[1] = <<>> \o seqs[1] /\ seqs[1] \in Seq(T) /\ 1 \in 1 .. n
      <4>1. 1 \in 1 .. n
        BY <1>1, <1>8
      <4>2. f[1] = f[1 - 1] \o seqs[1] /\ seqs[1] \in Seq(T)
        BY <1>1, <1>5, <4>1
      <4>3. 1 - 1 = 0
        OBVIOUS
      <4> QED
        BY <1>6, <4>1, <4>2, <4>3
    <3> QED
      BY <2>4, <3>1
  <2>6. ASSUME NEW i \in 1 .. n, i > 1, i - 1 \in C
        PROVE  i \in C
    <3>1. i \in 2 .. n
      BY <1>1, <2>6
    <3> QED
      BY <1>5, <2>4, <2>6, <3>1
  <2>7. n \in C
    <3>1. C \subseteq 1 .. n /\ 1 \in Nat /\ n \in Nat /\ 1 <= n
      BY <1>1, <1>8
    <3> HIDE DEF C, n
    <3>2. \A i \in 1 .. n : i > 1 /\ i - 1 \in C => i \in C
      BY <2>6
    <3>3. 1 .. n \subseteq C
      BY <2>5, <3>1, <3>2, RangeInduction
    <3> QED
      BY <3>1, <3>3
  <2> QED
    BY <1>5, <1>6, <2>1, <2>7 DEF Concatenates
<1> QED
  BY <1>7, <1>8

LEMMA ToSetConcat ==
  ASSUME NEW T, NEW s \in Seq(T), NEW t \in Seq(T)
  PROVE  /\ ToSet(s \o t) = ToSet(s) \cup ToSet(t)
         /\ ToSet(s) \subseteq T
         /\ IsInjective(s) /\ IsInjective(t) /\ ToSet(s) \cap ToSet(t) = {} => IsInjective(s \o t)
<1>1. /\ s \o t \in Seq(T) /\ Len(s \o t) = Len(s) + Len(t)
      /\ Len(s) \in Nat /\ Len(t) \in Nat
      /\ \A i \in 1 .. Len(s) : (s \o t)[i] = s[i]
      /\ \A i \in 1 .. Len(t) : (s \o t)[Len(s) + i] = t[i]
  OBVIOUS
<1>2. /\ DOMAIN s = 1 .. Len(s) /\ DOMAIN t = 1 .. Len(t)
      /\ DOMAIN (s \o t) = 1 .. Len(s) + Len(t)
  BY <1>1
<1>3. \A i \in 1 .. Len(s) + Len(t) :
        \/ i \in 1 .. Len(s)
        \/ i - Len(s) \in 1 .. Len(t) /\ i = Len(s) + (i - Len(s))
  BY <1>1
<1>4. /\ \A i \in 1 .. Len(s) : i \in 1 .. Len(s) + Len(t)
      /\ \A i \in 1 .. Len(t) : Len(s) + i \in 1 .. Len(s) + Len(t)
  BY <1>1
<1>5. ToSet(s \o t) \subseteq ToSet(s) \cup ToSet(t)
  <2> SUFFICES ASSUME NEW i \in 1 .. Len(s) + Len(t)
               PROVE  (s \o t)[i] \in ToSet(s) \cup ToSet(t)
    BY <1>2 DEF ToSet
  <2>1. CASE i \in 1 .. Len(s)
    BY <1>1, <1>2, <2>1 DEF ToSet
  <2>2. CASE i - Len(s) \in 1 .. Len(t) /\ i = Len(s) + (i - Len(s))
    BY <1>1, <1>2, <2>2 DEF ToSet
  <2> QED
    BY <1>3, <2>1, <2>2
<1>6. ToSet(s) \cup ToSet(t) \subseteq ToSet(s \o t)
  <2>1. \A i \in 1 .. Len(s) : s[i] \in ToSet(s \o t)
    BY <1>1, <1>2, <1>4 DEF ToSet
  <2>2. \A i \in 1 .. Len(t) : t[i] \in ToSet(s \o t)
    BY <1>1, <1>2, <1>4 DEF ToSet
  <2> QED
    BY <1>2, <2>1, <2>2 DEF ToSet
<1>7. ToSet(s) \subseteq T
  BY DEF ToSet
<1>8. ASSUME IsInjective(s), IsInjective(t), ToSet(s) \cap ToSet(t) = {},
             NEW i \in 1 .. Len(s) + Len(t), NEW j \in 1 .. Len(s) + Len(t),
             (s \o t)[i] = (s \o t)[j]
      PROVE  i = j
  <2>1. CASE i \in 1 .. Len(s) /\ j \in 1 .. Len(s)
    BY <1>1, <1>2, <1>8, <2>1 DEF IsInjective
  <2>2. CASE i - Len(s) \in 1 .. Len(t) /\ j - Len(s) \in 1 .. Len(t)
    <3>1. t[i - Len(s)] = t[j - Len(s)]
      BY <1>1, <1>3, <1>8, <2>2
    <3>2. i - Len(s) = j - Len(s)
      BY <1>2, <1>8, <2>2, <3>1 DEF IsInjective
    <3> QED
      BY <1>1, <3>2
  <2>3. CASE i \in 1 .. Len(s) /\ j - Len(s) \in 1 .. Len(t)
    <3>1. (s \o t)[i] \in ToSet(s) /\ (s \o t)[j] \in ToSet(t)
      <4>1. (s \o t)[i] = s[i] /\ i \in DOMAIN s
        BY <1>1, <1>2, <2>3
      <4>2. (s \o t)[j] = t[j - Len(s)] /\ j - Len(s) \in DOMAIN t
        <5>1. j = Len(s) + (j - Len(s))
          BY <1>1
        <5> QED
          BY <1>1, <1>2, <2>3, <5>1
      <4> QED
        BY <4>1, <4>2 DEF ToSet
    <3> QED
      BY <1>8, <3>1
  <2>4. CASE j \in 1 .. Len(s) /\ i - Len(s) \in 1 .. Len(t)
    <3>1. (s \o t)[j] \in ToSet(s) /\ (s \o t)[i] \in ToSet(t)
      BY <1>1, <1>2, <1>3, <2>4 DEF ToSet
    <3> QED
      BY <1>8, <3>1
  <2> QED
    BY <1>3, <2>1, <2>2, <2>3, <2>4
<1> QED
  BY <1>2, <1>5, <1>6, <1>7, <1>8 DEF IsInjective

(* What the first k of the sequences hold.                                   *)
HeldBy(seqs, k) == UNION {ToSet(seqs[i]) : i \in 1 .. k}

(* No element twice, in one sequence or in two.                              *)
Distinct(seqs) ==
  /\ \A i \in DOMAIN seqs : IsInjective(seqs[i])
  /\ \A i, j \in DOMAIN seqs : i # j => ToSet(seqs[i]) \cap ToSet(seqs[j]) = {}

LEMMA FlattenFacts ==
  ASSUME NEW T, NEW seqs \in Seq(Seq(T))
  PROVE  /\ FlattenSeq(seqs) \in Seq(T)
         /\ ToSet(FlattenSeq(seqs)) = HeldBy(seqs, Len(seqs))
         /\ Distinct(seqs) => IsInjective(FlattenSeq(seqs))
<1> DEFINE n == Len(seqs)
<1>1. PICK f \in [0 .. n -> Seq(T)] : Concatenates(seqs, f)
  BY FlattenLoop
<1>2. /\ n \in Nat /\ DOMAIN seqs = 1 .. n
      /\ \A i \in 1 .. n : seqs[i] \in Seq(T)
  OBVIOUS
<1> HIDE DEF n
<1>3. /\ f[0] = <<>> /\ FlattenSeq(seqs) = f[n]
      /\ \A i \in 1 .. n : f[i] = f[i - 1] \o seqs[i]
  BY <1>1 DEF Concatenates, n
<1> DEFINE C == {k \in 0 .. n : ToSet(f[k]) = HeldBy(seqs, k)}
           D == {k \in 0 .. n : IsInjective(f[k])}
<1>4. ASSUME NEW k \in 0 .. n, k > 0
      PROVE  /\ k \in 1 .. n /\ k - 1 \in 0 .. n
             /\ f[k - 1] \in Seq(T) /\ seqs[k] \in Seq(T)
             /\ HeldBy(seqs, k) = HeldBy(seqs, k - 1) \cup ToSet(seqs[k])
  <2>1. k \in 1 .. n /\ k - 1 \in 0 .. n /\ k \in Nat
    BY <1>2, <1>4
  <2>2. \A i : i \in 1 .. k <=> i \in 1 .. k - 1 \/ i = k
    BY <2>1
  <2>3. HeldBy(seqs, k) = HeldBy(seqs, k - 1) \cup ToSet(seqs[k])
    BY <2>2 DEF HeldBy
  <2> QED
    BY <1>2, <2>1, <2>3
<1>5. 0 \in C
  <2>1. 1 .. 0 = {} /\ 0 \in 0 .. n
    BY <1>2
  <2>2. HeldBy(seqs, 0) = {}
    BY <2>1 DEF HeldBy
  <2>3. ToSet(<<>>) = {}
    BY DEF ToSet
  <2> QED
    BY <1>3, <2>1, <2>2, <2>3
<1>6. ASSUME NEW k \in 0 .. n, k > 0, k - 1 \in C
      PROVE  k \in C
  <2>1. ToSet(f[k]) = ToSet(f[k - 1]) \cup ToSet(seqs[k])
    <3>1. f[k - 1] \in Seq(T) /\ seqs[k] \in Seq(T) /\ f[k] = f[k - 1] \o seqs[k]
      BY <1>3, <1>4, <1>6
    <3>2. ToSet(f[k - 1] \o seqs[k]) = ToSet(f[k - 1]) \cup ToSet(seqs[k])
      BY <3>1, ToSetConcat
    <3> QED
      BY <3>1, <3>2
  <2> QED
    BY <1>4, <1>6, <2>1
<1>7. 0 .. n \subseteq C
  <2>1. C \subseteq 0 .. n /\ 0 \in Nat /\ 0 <= n
    BY <1>2
  <2> HIDE DEF C
  <2>2. \A k \in 0 .. n : k > 0 /\ k - 1 \in C => k \in C
    BY <1>6
  <2> QED
    BY <1>2, <1>5, <2>1, <2>2, RangeInduction
<1>8. ASSUME Distinct(seqs)
      PROVE  0 .. n \subseteq D
  <2>1. 0 \in D
    <3>1. 0 \in 0 .. n
      BY <1>2
    <3>2. IsInjective(<<>>)
      BY DEF IsInjective
    <3> QED
      BY <1>3, <3>1, <3>2
  <2>2. ASSUME NEW k \in 0 .. n, k > 0, k - 1 \in D
        PROVE  k \in D
    <3>1. \A i \in 1 .. k - 1 : i \in 1 .. n /\ i # k
      BY <1>2
    <3>2. HeldBy(seqs, k - 1) \cap ToSet(seqs[k]) = {}
      BY <1>2, <1>4, <1>8, <2>2, <3>1 DEF HeldBy, Distinct
    <3>3. ToSet(f[k - 1]) \cap ToSet(seqs[k]) = {}
      BY <1>4, <1>7, <2>2, <3>2
    <3>4. IsInjective(f[k - 1] \o seqs[k])
      <4>1. IsInjective(seqs[k]) /\ IsInjective(f[k - 1])
        BY <1>2, <1>4, <1>8, <2>2 DEF Distinct
      <4>2. f[k - 1] \in Seq(T) /\ seqs[k] \in Seq(T)
        BY <1>4, <2>2
      <4> QED
        BY <3>3, <4>1, <4>2, ToSetConcat
    <3> QED
      BY <1>3, <1>4, <2>2, <3>4
  <2>3. D \subseteq 0 .. n /\ 0 \in Nat /\ 0 <= n
    BY <1>2
  <2> HIDE DEF D
  <2>4. \A k \in 0 .. n : k > 0 /\ k - 1 \in D => k \in D
    BY <2>2
  <2> QED
    BY <1>2, <2>1, <2>3, <2>4, RangeInduction
<1>9. n \in 0 .. n
  BY <1>2
<1> QED
  BY <1>3, <1>7, <1>8, <1>9 DEF n

(* A finite set as a sequence.                                               *)
LEMMA SetToSeqFacts ==
  ASSUME NEW S, IsFiniteSet(S)
  PROVE  /\ Cardinality(S) \in Nat
         /\ SetToSeq(S) \in [1 .. Cardinality(S) -> S]
         /\ IsInjective(SetToSeq(S))
<1> DEFINE n == Cardinality(S)
<1>1. n \in Nat /\ ExistsBijection(1 .. n, S)
  BY FS_CardinalityType
<1>2. \E f \in [1 .. n -> S] : IsInjective(f)
  BY <1>1 DEF ExistsBijection, Bijection, Injection
<1> QED
  BY <1>1, <1>2 DEF SetToSeq

-----------------------------------------------------------------------------
(* Words as numbers.                                                         *)

(* v has the bit k and u has not, and they agree above it.                   *)
Tops(k, u, v) == k \in v \ u /\ \A i \in u \cup v : i > k => (i \in u <=> i \in v)

LEMMA BelowTops ==
  ASSUME NEW m \in Nat, NEW u \in SUBSET (0 .. m - 1), NEW v \in SUBSET (0 .. m - 1)
  PROVE  /\ Below(u, v) <=> \E k \in 0 .. m - 1 : Tops(k, u, v)
         /\ u = v \/ Below(u, v) \/ Below(v, u)
<1> DEFINE D == Xor(u, v)
<1>1. \A i : i \in D <=> (i \in u \/ i \in v) /\ ~ (i \in u /\ i \in v)
  BY DEF Xor, SymDiff
<1>2. D \subseteq 0 .. m - 1 /\ D \subseteq 0 .. m
  <2>1. D \subseteq 0 .. m - 1
    BY <1>1
  <2>2. 0 .. m - 1 \subseteq 0 .. m
    OBVIOUS
  <2> QED
    BY <2>1, <2>2
<1>3. u # v => D # {}
  <2>1. ASSUME D = {}
        PROVE  u = v
    <3>1. \A i : i \in u <=> i \in v
      BY <1>1, <2>1
    <3> QED
      BY <3>1
  <2> QED
    BY <2>1
<1>4. Below(u, v) <=> u # v /\ Max(D) \in v
  BY DEF Below
<1>5. Below(v, u) <=> u # v /\ Max(D) \in u
  <2>1. Xor(v, u) = D
    BY DEF Xor, SymDiff
  <2> QED
    BY <2>1 DEF Below
<1> HIDE DEF D
<1>6. ASSUME u # v
      PROVE  Max(D) \in D /\ \A i \in D : i <= Max(D)
  BY <1>2, <1>3, <1>6, GreatestNumber
<1>7. ASSUME Below(u, v)
      PROVE  \E k \in 0 .. m - 1 : Tops(k, u, v)
  <2>1. Max(D) \in D /\ Max(D) \in v /\ \A i \in D : i <= Max(D)
    BY <1>4, <1>6, <1>7
  <2>2. Max(D) \in v \ u /\ Max(D) \in 0 .. m - 1
    BY <1>1, <1>2, <2>1
  <2>3. ASSUME NEW i \in u \cup v, i > Max(D)
        PROVE  i \in u <=> i \in v
    <3>1. i \notin D
      <4>1. i \in 0 .. m - 1
        BY <2>3
      <4> QED
        BY <2>1, <2>2, <2>3, <4>1
    <3> QED
      BY <1>1, <2>3, <3>1
  <2> QED
    BY <2>2, <2>3 DEF Tops
<1>8. ASSUME NEW k \in 0 .. m - 1, Tops(k, u, v)
      PROVE  Below(u, v)
  <2>1. k \in v \ u /\ \A i \in u \cup v : i > k => (i \in u <=> i \in v)
    BY <1>8 DEF Tops
  <2>2. u # v /\ k \in D
    BY <1>1, <2>1
  <2>3. Max(D) \in D /\ k <= Max(D)
    BY <1>6, <2>2
  <2>4. Max(D) \in u \cup v /\ ~ (Max(D) \in u <=> Max(D) \in v)
    BY <1>1, <2>3
  <2>5. ~ (Max(D) > k)
    BY <2>1, <2>4
  <2>6. Max(D) = k
    <3>1. Max(D) \in 0 .. m - 1
      BY <1>2, <2>3
    <3> QED
      BY <2>3, <2>5, <3>1
  <2> QED
    BY <1>4, <2>1, <2>2, <2>6
<1>9. u = v \/ Below(u, v) \/ Below(v, u)
  <2>1. CASE u # v
    BY <1>1, <1>4, <1>5, <1>6, <2>1
  <2> QED
    BY <2>1
<1> QED
  BY <1>7, <1>8, <1>9

(* The words are totally ordered.                                            *)
LEMMA BelowOrder ==
  ASSUME NEW m \in Nat, NEW u \in SUBSET (0 .. m - 1), NEW v \in SUBSET (0 .. m - 1),
         NEW w \in SUBSET (0 .. m - 1)
  PROVE  /\ ~ Below(u, u)
         /\ u = v \/ Below(u, v) \/ Below(v, u)
         /\ Below(u, v) /\ Below(v, w) => Below(u, w)
<1>1. ~ Below(u, u)
  BY DEF Below
<1>2. u = v \/ Below(u, v) \/ Below(v, u)
  BY BelowTops
<1>3. ASSUME Below(u, v), Below(v, w)
      PROVE  Below(u, w)
  <2>1. \E k \in 0 .. m - 1 : Tops(k, u, v)
    BY <1>3, BelowTops
  <2>2. \E k \in 0 .. m - 1 : Tops(k, v, w)
    BY <1>3, BelowTops
  <2>3. PICK j \in 0 .. m - 1 : Tops(j, u, v)
    BY <2>1
  <2>4. PICK k \in 0 .. m - 1 : Tops(k, v, w)
    BY <2>2
  <2>5. /\ j \in v \ u /\ \A i \in 0 .. m - 1 : i > j => (i \in u <=> i \in v)
        /\ k \in w \ v /\ \A i \in 0 .. m - 1 : i > k => (i \in v <=> i \in w)
    BY <2>3, <2>4 DEF Tops
  <2>6. j < k \/ k < j
    BY <2>5
  <2>7. \E t \in 0 .. m - 1 : Tops(t, u, w)
    <3>1. CASE j < k
      <4>1. k \in w \ u
        BY <2>5, <3>1
      <4>2. \A i \in 0 .. m - 1 : i > k => (i \in u <=> i \in w)
        BY <2>5, <3>1
      <4> QED
        BY <4>1, <4>2 DEF Tops
    <3>2. CASE k < j
      <4>1. j \in w \ u
        BY <2>5, <3>2
      <4>2. \A i \in 0 .. m - 1 : i > j => (i \in u <=> i \in w)
        BY <2>5, <3>2
      <4> QED
        BY <4>1, <4>2 DEF Tops
    <3> QED
      BY <2>6, <3>1, <3>2
  <2> QED
    BY <2>7, BelowTops
<1> QED
  BY <1>1, <1>2, <1>3

(* `Ascending` lists the words of a set, each once and in their order.       *)
Lists(s, S) ==
  /\ s \in Seq(S) /\ ToSet(s) = S /\ IsInjective(s)
  /\ \A i, j \in DOMAIN s : i < j => Below(s[i], s[j])

LEMMA AscendingLists ==
  ASSUME NEW m \in Nat, NEW S, S \subseteq SUBSET (0 .. m - 1)
  PROVE  IsFiniteSet(S) /\ Lists(Ascending(S), S)
<1> DEFINE n == Cardinality(S)
           Lower(x) == {y \in S : Below(y, x)}
           rank == [x \in S |-> Cardinality(Lower(x)) + 1]
<1>1. IsFiniteSet(S) /\ n \in Nat
  <2>1. IsFiniteSet(0 .. m - 1)
    BY FS_Interval
  <2>2. IsFiniteSet(SUBSET (0 .. m - 1))
    BY <2>1, FS_SUBSET
  <2> QED
    BY <2>2, FS_Subset, FS_CardinalityType
<1>2. \A x, y \in S : x = y \/ Below(x, y) \/ Below(y, x)
  BY BelowOrder
<1>3. \A x, y, z \in S : Below(x, y) /\ Below(y, z) => Below(x, z)
  BY BelowOrder
<1>4. \A x \in S : ~ Below(x, x)
  BY BelowOrder
<1>5. \A x \in S : /\ IsFiniteSet(Lower(x)) /\ Cardinality(Lower(x)) \in Nat
                   /\ Cardinality(Lower(x)) < n
  <2> SUFFICES ASSUME NEW x \in S
               PROVE  /\ IsFiniteSet(Lower(x)) /\ Cardinality(Lower(x)) \in Nat
                      /\ Cardinality(Lower(x)) < n
    OBVIOUS
  <2>1. Lower(x) \in SUBSET S /\ x \notin Lower(x)
    BY <1>4
  <2> HIDE DEF Lower
  <2>2. /\ IsFiniteSet(Lower(x)) /\ Cardinality(Lower(x)) <= n
        /\ Cardinality(Lower(x)) = n => Lower(x) = S
    BY <1>1, <2>1, FS_Subset
  <2>3. Cardinality(Lower(x)) \in Nat
    BY <2>2, FS_CardinalityType
  <2> QED
    BY <1>1, <2>1, <2>2, <2>3
<1>6. \A x, y \in S : Below(x, y) => Cardinality(Lower(x)) < Cardinality(Lower(y))
  <2> SUFFICES ASSUME NEW x \in S, NEW y \in S, Below(x, y)
               PROVE  Cardinality(Lower(x)) < Cardinality(Lower(y))
    OBVIOUS
  <2>1. Lower(x) \in SUBSET Lower(y) /\ x \in Lower(y) /\ x \notin Lower(x)
    BY <1>3, <1>4
  <2>2. IsFiniteSet(Lower(y)) /\ Cardinality(Lower(y)) \in Nat /\ Cardinality(Lower(x)) \in Nat
    BY <1>5
  <2> HIDE DEF Lower
  <2>3. /\ Cardinality(Lower(x)) <= Cardinality(Lower(y))
        /\ Cardinality(Lower(x)) = Cardinality(Lower(y)) => Lower(x) = Lower(y)
    BY <2>1, <2>2, FS_Subset
  <2> QED
    BY <2>1, <2>2, <2>3
<1>7. rank \in [S -> 1 .. n] /\ \A x \in S : rank[x] = Cardinality(Lower(x)) + 1
  <2>1. \A x \in S : Cardinality(Lower(x)) + 1 \in 1 .. n
    <3> HIDE DEF Lower, n
    <3> QED
      BY <1>1, <1>5
  <2> HIDE DEF Lower, n
  <2> QED
    BY <2>1
<1>8. \A x, y \in S : Below(x, y) => rank[x] < rank[y]
  <2> HIDE DEF Lower, rank
  <2> QED
    BY <1>5, <1>6, <1>7
<1> HIDE DEF rank, Lower
<1>9. \A x, y \in S : rank[x] = rank[y] => x = y
  <2>1. \A x \in S : rank[x] \in Nat
    BY <1>7
  <2> QED
    BY <1>2, <1>8, <2>1
<1>10. \A i \in 1 .. n : \E x \in S : rank[x] = i
  <2>1. rank \in Injection(S, 1 .. n)
    BY <1>7, <1>9 DEF Injection, IsInjective
  <2>2. IsFiniteSet(1 .. n) /\ Cardinality(1 .. n) = n
    <3>1. 1 \in Int /\ n \in Int /\ n - 1 + 1 = n /\ (1 > n => n = 0)
      BY <1>1
    <3> HIDE DEF n
    <3> QED
      BY <3>1, FS_Interval
  <2>3. rank \in Surjection(S, 1 .. n)
    <3>1. Cardinality(S) = Cardinality(1 .. n)
      BY <2>2
    <3> HIDE DEF n
    <3> QED
      BY <2>1, <2>2, <3>1, FS_Injection
  <2> QED
    BY <2>3 DEF Surjection
<1> DEFINE A == [i \in 1 .. n |-> CHOOSE x \in S : rank[x] = i]
<1>11. Ascending(S) = A
  BY DEF Ascending, rank, Lower
<1>12. \A i \in 1 .. n : A[i] \in S /\ rank[A[i]] = i
  BY <1>10
<1>13. DOMAIN A = 1 .. n /\ A \in [1 .. n -> S]
  BY <1>12
<1> HIDE DEF A
<1>14. A \in Seq(S)
  BY <1>1, <1>13
<1>15. \A x \in S : A[rank[x]] = x /\ rank[x] \in 1 .. n
  BY <1>7, <1>9, <1>12
<1>16. ToSet(A) = S
  BY <1>12, <1>13, <1>15 DEF ToSet
<1>17. IsInjective(A)
  BY <1>12, <1>13 DEF IsInjective
<1>18. \A i, j \in 1 .. n : i < j => Below(A[i], A[j])
  <2> SUFFICES ASSUME NEW i \in 1 .. n, NEW j \in 1 .. n, i < j
               PROVE  Below(A[i], A[j])
    OBVIOUS
  <2>1. A[i] \in S /\ A[j] \in S /\ rank[A[i]] = i /\ rank[A[j]] = j
    BY <1>12
  <2>2. i \in Nat /\ j \in Nat
    BY <1>1
  <2> QED
    BY <1>2, <1>8, <2>1, <2>2
<1> QED
  BY <1>1, <1>11, <1>13, <1>14, <1>16, <1>17, <1>18 DEF Lists

-----------------------------------------------------------------------------
(* The bits of numbers and the Gray code.                                    *)

LEMMA PowerOfTwo ==
  ASSUME NEW n \in Nat
  PROVE  2^n \in Nat /\ 2^n >= 1 /\ 2^(n + 1) = 2 * 2^n
<1> DEFINE A == SUBSET (1 .. n)
           B == {s \cup {n + 1} : s \in A}
           f == [s \in A |-> s \cup {n + 1}]
<1>1. \A k \in Nat : IsFiniteSet(1 .. k) /\ Cardinality(1 .. k) = k
  <2> SUFFICES ASSUME NEW k \in Nat
               PROVE  IsFiniteSet(1 .. k) /\ Cardinality(1 .. k) = k
    OBVIOUS
  <2>1. 1 \in Int /\ k \in Int /\ (IF 1 > k THEN 0 ELSE k - 1 + 1) = k
    OBVIOUS
  <2> QED
    BY <2>1, FS_Interval
<1>2. \A k \in Nat : /\ IsFiniteSet(SUBSET (1 .. k))
                     /\ Cardinality(SUBSET (1 .. k)) = 2^k
                     /\ 2^k \in Nat
  <2> SUFFICES ASSUME NEW k \in Nat
               PROVE  /\ IsFiniteSet(SUBSET (1 .. k))
                      /\ Cardinality(SUBSET (1 .. k)) = 2^k
                      /\ 2^k \in Nat
    OBVIOUS
  <2>1. IsFiniteSet(SUBSET (1 .. k)) /\ Cardinality(SUBSET (1 .. k)) = 2^Cardinality(1 .. k)
    BY <1>1, FS_SUBSET
  <2>2. Cardinality(SUBSET (1 .. k)) \in Nat
    BY <2>1, FS_CardinalityType
  <2> QED
    BY <1>1, <2>1, <2>2
<1>3. 2^n >= 1
  <2>1. {} \in A /\ A # {}
    OBVIOUS
  <2>2. IsFiniteSet(A) /\ Cardinality(A) = 2^n /\ 2^n \in Nat
    BY <1>2
  <2> HIDE DEF A
  <2>3. Cardinality(A) # 0
    BY <2>1, <2>2, FS_EmptySet
  <2> QED
    BY <2>2, <2>3
<1>4. n + 1 \notin 1 .. n /\ \A i : i \in 1 .. n + 1 <=> i \in 1 .. n \/ i = n + 1
  OBVIOUS
<1>5. SUBSET (1 .. n + 1) = A \cup B
  <2>1. ASSUME NEW s \in SUBSET (1 .. n + 1)
        PROVE  s \in A \cup B
    <3>1. CASE n + 1 \in s
      <4>1. s \ {n + 1} \in A /\ s = (s \ {n + 1}) \cup {n + 1}
        BY <1>4, <3>1
      <4> QED
        BY <4>1
    <3>2. CASE n + 1 \notin s
      BY <1>4, <3>2
    <3> QED
      BY <3>1, <3>2
  <2>2. A \cup B \subseteq SUBSET (1 .. n + 1)
    BY <1>4
  <2> QED
    BY <2>1, <2>2
<1>6. A \cap B = {}
  BY <1>4
<1>7. f \in Bijection(A, B)
  <2>1. f \in [A -> B] /\ \A t \in B : \E s \in A : f[s] = t
    OBVIOUS
  <2>2. ASSUME NEW s \in A, NEW t \in A, f[s] = f[t]
        PROVE  s = t
    <3>1. s \cup {n + 1} = t \cup {n + 1} /\ n + 1 \notin s /\ n + 1 \notin t
      BY <1>4, <2>2
    <3> QED
      BY <3>1
  <2>3. DOMAIN f = A
    OBVIOUS
  <2> HIDE DEF f, A, B
  <2> QED
    BY <2>1, <2>2, <2>3 DEF Bijection, Injection, Surjection, IsInjective
<1>8. IsFiniteSet(B) /\ Cardinality(B) = 2^n
  <2>1. ExistsBijection(A, B)
    BY <1>7 DEF ExistsBijection
  <2>2. IsFiniteSet(A) /\ Cardinality(A) = 2^n
    BY <1>2
  <2> HIDE DEF A, B
  <2> QED
    BY <2>1, <2>2, FS_Bijection
<1>9. Cardinality(A \cup B) = 2^n + 2^n
  <2>1. IsFiniteSet(A) /\ Cardinality(A) = 2^n
    BY <1>2
  <2>2. Cardinality(A \cap B) = 0
    BY <1>6, FS_EmptySet
  <2> HIDE DEF A, B
  <2>3. Cardinality(A \cup B) = Cardinality(A) + Cardinality(B) - Cardinality(A \cap B)
    BY <1>8, <2>1, FS_Union
  <2> QED
    BY <1>2, <1>8, <2>1, <2>2, <2>3
<1>10. 2^(n + 1) = 2^n + 2^n
  <2>1. n + 1 \in Nat
    OBVIOUS
  <2> QED
    BY <1>2, <1>5, <1>9, <2>1
<1> QED
  BY <1>2, <1>3, <1>10

LEMMA Quotients ==
  ASSUME NEW i \in Nat, NEW p \in Nat, p >= 1
  PROVE  /\ i \div p \in Nat /\ i % p \in 0 .. p - 1 /\ i = (i \div p) * p + (i % p)
         /\ \A q \in Nat, r \in 0 .. p - 1 : i = q * p + r => i \div p = q /\ i % p = r
<1>1. i \div p \in Nat /\ i % p \in 0 .. p - 1 /\ i = (i \div p) * p + (i % p)
  <2>1. i \div p \in Int /\ i \div p >= 0
    OBVIOUS
  <2>2. i % p \in 0 .. p - 1
    OBVIOUS
  <2>3. i = (i \div p) * p + (i % p)
    <3>1. i = p * (i \div p) + (i % p)
      OBVIOUS
    <3>2. p * (i \div p) = (i \div p) * p
      BY <2>1
    <3> QED
      BY <3>1, <3>2
  <2> QED
    BY <2>1, <2>2, <2>3
<1>2. ASSUME NEW q \in Nat, NEW r \in 0 .. p - 1, i = q * p + r
      PROVE  i \div p = q /\ i % p = r
  <2>1. (q * p + r) \div p = q /\ (q * p + r) % p = r
    OBVIOUS
  <2> QED
    BY <1>2, <2>1
<1> QED
  BY <1>1, <1>2

LEMMA BitStep ==
  ASSUME NEW i \in Nat, NEW j \in Nat
  PROVE  /\ i \div 2 \in Nat
         /\ Bit(i, j) \in {0, 1}
         /\ Bit(i, 0) = i % 2
         /\ Bit(i, j + 1) = Bit(i \div 2, j)
<1> DEFINE p == 2^j
           half == i \div 2
<1>1. p \in Nat /\ p >= 1 /\ 2^(j + 1) = 2 * p /\ 2^0 = 1
  BY PowerOfTwo
<1>2. half \in Nat /\ i = half * 2 + (i % 2) /\ i % 2 \in 0 .. 1
  <2>1. 2 \in Nat /\ 2 >= 1
    OBVIOUS
  <2> QED
    BY <2>1, Quotients
<1>3. Bit(i, j) = (i \div p) % 2 /\ Bit(half, j) = (half \div p) % 2
      /\ Bit(i, j + 1) = (i \div (2 * p)) % 2
  BY <1>1 DEF Bit
<1>4. Bit(i, 0) = i % 2
  <2>1. i \div 1 = i
    OBVIOUS
  <2> QED
    BY <1>1, <2>1 DEF Bit
<1> HIDE DEF p, half
<1>5. Bit(i, j) \in {0, 1}
  <2>1. i \div p \in Nat
    BY <1>1, Quotients
  <2>2. (i \div p) % 2 \in 0 .. 1
    BY <2>1
  <2> QED
    BY <1>3, <2>2
<1>6. half \div p = i \div (2 * p)
  <2> DEFINE q == half \div p
             r == half % p
  <2>1. q \in Nat /\ r \in 0 .. p - 1 /\ half = q * p + r
    BY <1>1, <1>2, Quotients
  <2> HIDE DEF q, r
  <2>2. i = (q * p + r) * 2 + (i % 2)
    BY <1>2, <2>1
  <2> DEFINE b == i % 2
             s == 2 * r + b
             d == 2 * p
  <2>3. b \in 0 .. 1 /\ i = (q * p + r) * 2 + b
    <3>1. b \in 0 .. 1
      BY <1>2
    <3>2. i = (q * p + r) * 2 + b
      BY <2>2
    <3> HIDE DEF b
    <3> QED
      BY <3>1, <3>2
  <2> HIDE DEF b
  <2>4. d \in Nat /\ d >= 1 /\ s \in 0 .. d - 1
    BY <1>1, <2>1, <2>3
  <2>5. i = q * d + s
    <3>1. q * (2 * p) = (q * p) * 2
      BY <1>1, <2>1
    <3>2. q * p \in Nat
      BY <1>1, <2>1
    <3> QED
      BY <2>1, <2>3, <3>1, <3>2
  <2> HIDE DEF d, s
  <2>6. i \div d = q
    BY <2>1, <2>4, <2>5, Quotients
  <2> QED
    BY <2>6 DEF q, d
<1> QED
  BY <1>2, <1>3, <1>4, <1>5, <1>6 DEF half

(* A number below 2^w has no bit from w on.                                  *)
LEMMA BitHigh ==
  ASSUME NEW w \in Nat
  PROVE  \A i, j \in Nat : i < 2^w /\ j >= w => Bit(i, j) = 0
<1> DEFINE Fails(n) == \E i, j \in Nat : i < 2^n /\ j >= n /\ Bit(i, j) # 0
           C == {n \in 0 .. w : ~ Fails(n)}
<1>1. 0 \in C
  <2> SUFFICES ASSUME NEW i \in Nat, NEW j \in Nat, i < 2^0
               PROVE  Bit(i, j) = 0
    OBVIOUS
  <2>1. i = 0
    <3>1. 2^0 = 1
      OBVIOUS
    <3> QED
      BY <3>1
  <2> DEFINE p == 2^j
  <2>2. p \in Nat /\ p >= 1
    BY PowerOfTwo
  <2>3. Bit(i, j) = (0 \div p) % 2
    BY <2>1 DEF Bit
  <2> HIDE DEF p
  <2>4. 0 \div p = 0
    BY <2>2
  <2> QED
    BY <2>3, <2>4
<1>2. ASSUME NEW n \in 0 .. w, n > 0, n - 1 \in C
      PROVE  n \in C
  <2> SUFFICES ASSUME NEW i \in Nat, NEW j \in Nat, i < 2^n, j >= n
               PROVE  Bit(i, j) = 0
    OBVIOUS
  <2> DEFINE p == 2^(n - 1)
             half == i \div 2
  <2>1. n - 1 \in Nat /\ n - 1 + 1 = n /\ j - 1 \in Nat /\ j - 1 + 1 = j /\ j - 1 >= n - 1
    BY <1>2
  <2>2. p \in Nat /\ 2^n = 2 * p
    BY <2>1, PowerOfTwo
  <2>3. half \in Nat /\ Bit(i, j) = Bit(half, j - 1)
    <3>1. j - 1 \in Nat /\ (j - 1) + 1 = j
      BY <2>1
    <3>2. half \in Nat /\ Bit(i, (j - 1) + 1) = Bit(half, j - 1)
      BY <3>1, BitStep
    <3> QED
      BY <3>1, <3>2
  <2>4. half < p
    <3> HIDE DEF p
    <3> QED
      BY <2>2
  <2>5. ~ Fails(n - 1)
    BY <1>2
  <2> HIDE DEF half
  <2> QED
    BY <2>1, <2>3, <2>4, <2>5
<1>3. C \subseteq 0 .. w /\ 0 \in Nat /\ 0 <= w
  OBVIOUS
<1>4. w \in C
  <2> HIDE DEF C
  <2>1. \A n \in 0 .. w : n > 0 /\ n - 1 \in C => n \in C
    BY <1>2
  <2>2. 0 .. w \subseteq C
    BY <1>1, <1>3, <2>1, RangeInduction
  <2> QED
    BY <2>2
<1> QED
  BY <1>4

(* A number is given by its bits.                                            *)
LEMMA BitsDetermine ==
  ASSUME NEW w \in Nat
  PROVE  \A i, k \in 0 .. 2^w - 1 : (\A j \in 0 .. w - 1 : Bit(i, j) = Bit(k, j)) => i = k
<1> DEFINE Agree(i, k, n) == \A j \in 0 .. n - 1 : Bit(i, j) = Bit(k, j)
           Fails(n) == \E i, k \in Nat : i < 2^n /\ k < 2^n /\ Agree(i, k, n) /\ i # k
           C == {n \in 0 .. w : ~ Fails(n)}
<1>1. 0 \in C
  <2>1. 2^0 = 1
    OBVIOUS
  <2>2. \A i, k \in Nat : i < 1 /\ k < 1 => i = k
    OBVIOUS
  <2> QED
    BY <2>1, <2>2
<1>2. ASSUME NEW n \in 0 .. w, n > 0, n - 1 \in C
      PROVE  n \in C
  <2> SUFFICES ASSUME NEW i \in Nat, NEW k \in Nat, i < 2^n, k < 2^n, Agree(i, k, n)
               PROVE  i = k
    OBVIOUS
  <2> DEFINE p == 2^(n - 1)
             x == i \div 2
             y == k \div 2
  <2>1. n - 1 \in Nat /\ n - 1 + 1 = n
    BY <1>2
  <2>2. p \in Nat /\ 2^n = 2 * p
    BY <2>1, PowerOfTwo
  <2>3. x \in Nat /\ y \in Nat /\ i % 2 = k % 2
    <3>1. 0 \in 0 .. n - 1
      BY <2>1
    <3>2. Bit(i, 0) = Bit(k, 0)
      BY <3>1
    <3> QED
      BY <3>2, BitStep
  <2>4. Agree(x, y, n - 1)
    <3> SUFFICES ASSUME NEW j \in 0 .. n - 1 - 1
                 PROVE  Bit(x, j) = Bit(y, j)
      OBVIOUS
    <3>1. j \in Nat /\ j + 1 \in 0 .. n - 1
      BY <2>1
    <3>2. Bit(i, j + 1) = Bit(k, j + 1)
      BY <3>1
    <3> QED
      BY <3>1, <3>2, BitStep
  <2>5. x < p /\ y < p
    <3> HIDE DEF p
    <3> QED
      BY <2>2
  <2>6. x = y
    <3>1. ~ Fails(n - 1)
      BY <1>2
    <3> HIDE DEF x, y, p, Agree
    <3>2. x < 2^(n - 1) /\ y < 2^(n - 1)
      BY <2>5 DEF p
    <3> QED
      BY <2>3, <2>4, <3>1, <3>2
  <2>7. i = x * 2 + (i % 2) /\ k = y * 2 + (k % 2) /\ i % 2 \in 0 .. 1
    <3>1. 2 \in Nat /\ 2 >= 1
      OBVIOUS
    <3> QED
      BY <3>1, Quotients
  <2> HIDE DEF x, y
  <2> QED
    BY <2>3, <2>6, <2>7
<1>3. C \subseteq 0 .. w /\ 0 \in Nat /\ 0 <= w
  OBVIOUS
<1>4. w \in C
  <2> HIDE DEF C
  <2>1. \A n \in 0 .. w : n > 0 /\ n - 1 \in C => n \in C
    BY <1>2
  <2>2. 0 .. w \subseteq C
    BY <1>1, <1>3, <2>1, RangeInduction
  <2> QED
    BY <2>2
<1>5. ~ Fails(w)
  BY <1>4
<1>6. \A i \in 0 .. 2^w - 1 : i \in Nat /\ i < 2^w
  BY PowerOfTwo
<1> QED
  BY <1>5, <1>6

(* Adding one carries to the lowest bit that is zero.                        *)
Carries(i, z) ==
  /\ z \in 0 .. i
  /\ Bit(i, z) = 1 /\ Bit(i - 1, z) = 0
  /\ \A h \in Nat : h < z => Bit(i, h) = 0 /\ Bit(i - 1, h) = 1
  /\ \A h \in Nat : h > z => Bit(i, h) = Bit(i - 1, h)

LEMMA CarryExists ==
  ASSUME NEW i \in Nat, i >= 1
  PROVE  \E z \in Nat : Carries(i, z)
<1> DEFINE C == {n \in Nat : n >= 1 /\ ~ \E z \in Nat : Carries(n, z)}
<1>1. ASSUME C # {}
      PROVE  FALSE
  <2>1. PICK n \in C : \A k \in C : n <= k
    <3>1. C \subseteq Nat
      OBVIOUS
    <3> HIDE DEF C
    <3> QED
      BY <1>1, <3>1, LeastNumber
  <2>2. n \in Nat /\ n >= 1 /\ n - 1 \in Nat
    OBVIOUS
  <2> DEFINE x == n \div 2
             y == (n - 1) \div 2
  <2>3. /\ x \in Nat /\ y \in Nat /\ n = x * 2 + (n % 2) /\ n - 1 = y * 2 + ((n - 1) % 2)
        /\ n % 2 \in 0 .. 1 /\ (n - 1) % 2 \in 0 .. 1
    <3>1. 2 \in Nat /\ 2 >= 1
      OBVIOUS
    <3> QED
      BY <2>2, <3>1, Quotients
  <2>4. /\ Bit(n, 0) = n % 2 /\ Bit(n - 1, 0) = (n - 1) % 2
        /\ \A j \in Nat : Bit(n, j + 1) = Bit(x, j) /\ Bit(n - 1, j + 1) = Bit(y, j)
    BY <2>2, BitStep
  <2> HIDE DEF x, y
  <2>5. \A h \in Nat : h > 0 => h - 1 \in Nat /\ Bit(n, h) = Bit(x, h - 1)
                                /\ Bit(n - 1, h) = Bit(y, h - 1)
    <3> SUFFICES ASSUME NEW h \in Nat, h > 0
                 PROVE  h - 1 \in Nat /\ Bit(n, h) = Bit(x, h - 1)
                        /\ Bit(n - 1, h) = Bit(y, h - 1)
      OBVIOUS
    <3>1. h - 1 \in Nat /\ (h - 1) + 1 = h
      OBVIOUS
    <3> QED
      BY <2>4, <3>1
  <2>6. CASE n % 2 = 1
    <3>1. x = y /\ (n - 1) % 2 = 0
      BY <2>2, <2>3, <2>6
    <3>2. Carries(n, 0)
      <4>1. 0 \in 0 .. n /\ \A h \in Nat : ~ (h < 0)
        BY <2>2
      <4>2. \A h \in Nat : h > 0 => Bit(n, h) = Bit(n - 1, h)
        BY <2>5, <3>1
      <4> QED
        BY <2>4, <2>6, <3>1, <4>1, <4>2 DEF Carries
    <3> QED
      BY <3>2
  <2>7. CASE n % 2 = 0
    <3>1. y = x - 1 /\ (n - 1) % 2 = 1 /\ x >= 1 /\ x < n /\ x + 1 <= n
      BY <2>2, <2>3, <2>7
    <3>2. x \notin C
      BY <2>1, <2>2, <2>3, <3>1
    <3>3. PICK z \in Nat : Carries(x, z)
      BY <2>3, <3>1, <3>2
    <3>4. Carries(n, z + 1)
      <4>1. z \in 0 .. x /\ Bit(x, z) = 1 /\ Bit(y, z) = 0
        BY <3>1, <3>3 DEF Carries
      <4>2. z + 1 \in 0 .. n
        BY <2>2, <2>3, <3>1, <4>1
      <4>3. Bit(n, z + 1) = 1 /\ Bit(n - 1, z + 1) = 0
        BY <2>4, <4>1
      <4>4. ASSUME NEW h \in Nat, h < z + 1
            PROVE  Bit(n, h) = 0 /\ Bit(n - 1, h) = 1
        <5>1. CASE h = 0
          BY <2>4, <2>7, <3>1, <5>1
        <5>2. CASE h > 0
          <6>1. h - 1 \in Nat /\ h - 1 < z
            BY <4>4, <5>2
          <6>2. Bit(x, h - 1) = 0 /\ Bit(y, h - 1) = 1
            BY <3>1, <3>3, <6>1 DEF Carries
          <6> QED
            BY <2>5, <5>2, <6>2
        <5> QED
          BY <5>1, <5>2
      <4>5. ASSUME NEW h \in Nat, h > z + 1
            PROVE  Bit(n, h) = Bit(n - 1, h)
        <5>1. h - 1 \in Nat /\ h - 1 > z /\ h > 0
          BY <4>5
        <5>2. Bit(x, h - 1) = Bit(y, h - 1)
          BY <3>1, <3>3, <5>1 DEF Carries
        <5> QED
          BY <2>5, <5>1, <5>2
      <4> QED
        BY <4>2, <4>3, <4>4, <4>5 DEF Carries
    <3>5. z + 1 \in Nat
      OBVIOUS
    <3> QED
      BY <3>4, <3>5
  <2> QED
    BY <2>3, <2>6, <2>7
<1> QED
  BY <1>1

(* The lowest bit of a number is where its Gray word differs from the one    *)
(* before it.                                                                *)
LEMMA GrayStep ==
  ASSUME NEW w \in Nat, NEW i \in 1 .. 2^w - 1
  PROVE  /\ TrailingZeros(i) \in 0 .. w - 1
         /\ GrayWord(i, w) = Xor(GrayWord(i - 1, w), {TrailingZeros(i)})
<1>1. i \in Nat /\ i >= 1 /\ i < 2^w
  BY PowerOfTwo
<1>2. PICK z \in Nat : Carries(i, z)
  BY <1>1, CarryExists
<1>3. /\ z \in 0 .. i /\ Bit(i, z) = 1 /\ Bit(i - 1, z) = 0
      /\ \A h \in Nat : h < z => Bit(i, h) = 0 /\ Bit(i - 1, h) = 1
      /\ \A h \in Nat : h > z => Bit(i, h) = Bit(i - 1, h)
  BY <1>2 DEF Carries
<1>4. TrailingZeros(i) = z
  <2> DEFINE IsLow(j) == Bit(i, j) = 1 /\ \A h \in 0 .. j - 1 : Bit(i, h) = 0
  <2>1. \A h \in 0 .. z - 1 : h \in Nat /\ h < z
    OBVIOUS
  <2>2. z \in 0 .. i /\ IsLow(z)
    BY <1>3, <2>1
  <2>3. ASSUME NEW j \in 0 .. i, IsLow(j)
        PROVE  j = z
    <3>1. ~ (j < z)
      BY <1>3, <2>3
    <3>2. ~ (z < j)
      <4>1. z < j => z \in 0 .. j - 1
        OBVIOUS
      <4> QED
        BY <1>3, <2>3, <4>1
    <3> QED
      BY <3>1, <3>2
  <2>4. TrailingZeros(i) = CHOOSE j \in 0 .. i : IsLow(j)
    BY DEF TrailingZeros
  <2> HIDE DEF IsLow
  <2> QED
    BY <2>2, <2>3, <2>4
<1>5. z \in 0 .. w - 1
  <2>1. z >= w => Bit(i, z) = 0
    BY <1>1, BitHigh
  <2> QED
    BY <1>3, <2>1
<1>6. ASSUME NEW j \in 0 .. w - 1, j # z
      PROVE  (Bit(i, j) # Bit(i, j + 1)) <=> (Bit(i - 1, j) # Bit(i - 1, j + 1))
  <2>1. j \in Nat /\ j + 1 \in Nat
    OBVIOUS
  <2>2. CASE j > z
    <3>1. j + 1 > z
      BY <2>2
    <3> QED
      BY <1>3, <2>1, <2>2, <3>1
  <2>3. CASE j + 1 < z
    <3>1. j < z
      BY <2>3
    <3> QED
      BY <1>3, <2>1, <2>3, <3>1
  <2>4. CASE j + 1 = z
    <3>1. j < z
      BY <2>4
    <3> QED
      BY <1>3, <2>1, <2>4, <3>1
  <2> QED
    BY <1>6, <2>2, <2>3, <2>4
<1>7. (Bit(i, z) # Bit(i, z + 1)) <=> ~ (Bit(i - 1, z) # Bit(i - 1, z + 1))
  <2>1. z + 1 \in Nat /\ z + 1 > z
    OBVIOUS
  <2>2. Bit(i, z + 1) = Bit(i - 1, z + 1) /\ Bit(i, z + 1) \in {0, 1}
    BY <1>1, <1>3, <2>1, BitStep
  <2> QED
    BY <1>3, <2>2
<1>8. \A j : j \in GrayWord(i, w) <=> j \in Xor(GrayWord(i - 1, w), {z})
  <2>1. \A j \in 0 .. w - 1 :
          j \in GrayWord(i, w) <=> IF j = z THEN j \notin GrayWord(i - 1, w)
                                            ELSE j \in GrayWord(i - 1, w)
    BY <1>6, <1>7 DEF GrayWord
  <2>2. GrayWord(i, w) \subseteq 0 .. w - 1 /\ GrayWord(i - 1, w) \subseteq 0 .. w - 1
    BY DEF GrayWord
  <2> QED
    BY <1>5, <2>1, <2>2 DEF Xor, SymDiff
<1> QED
  BY <1>4, <1>5, <1>8

LEMMA GrayZero ==
  ASSUME NEW w \in Nat
  PROVE  GrayWord(0, w) = Zero
<1>1. \A j \in Nat : Bit(0, j) = 0
  <2> SUFFICES ASSUME NEW j \in Nat
               PROVE  Bit(0, j) = 0
    OBVIOUS
  <2>1. 0 < 2^0 /\ 0 \in Nat /\ j >= 0
    <3>1. 2^0 = 1
      OBVIOUS
    <3> QED
      BY <3>1
  <2>2. \A i, k \in Nat : i < 2^0 /\ k >= 0 => Bit(i, k) = 0
    BY <2>1, BitHigh
  <2> QED
    BY <2>1, <2>2
<1>2. \A j \in 0 .. w - 1 : j \in Nat /\ j + 1 \in Nat
  OBVIOUS
<1> QED
  BY <1>1, <1>2 DEF GrayWord, Zero

(* The walk comes through every word.                                        *)
LEMMA GrayOnto ==
  ASSUME NEW w \in Nat
  PROVE  /\ \A i : GrayWord(i, w) \in SUBSET (0 .. w - 1)
         /\ \A u \in SUBSET (0 .. w - 1) : \E i \in 0 .. 2^w - 1 : GrayWord(i, w) = u
         /\ \A i, k \in 0 .. 2^w - 1 : GrayWord(i, w) = GrayWord(k, w) => i = k
<1> DEFINE N == 2^w
           From == 0 .. N - 1
           W == SUBSET (0 .. w - 1)
           g == [i \in From |-> GrayWord(i, w)]
<1>1. N \in Nat /\ N >= 1 /\ \A i \in From : i \in Nat /\ i < 2^w
  BY PowerOfTwo
<1>2. \A i : GrayWord(i, w) \in W
  BY DEF GrayWord
<1>3. ASSUME NEW i \in From, NEW k \in From, GrayWord(i, w) = GrayWord(k, w)
      PROVE  i = k
  <2> DEFINE C == {d \in 0 .. w : Bit(i, w - d) = Bit(k, w - d)}
  <2>1. i \in Nat /\ k \in Nat /\ i < 2^w /\ k < 2^w
    BY <1>1
  <2>2. 0 \in C
    <3>1. Bit(i, w) = 0 /\ Bit(k, w) = 0
      BY <2>1, BitHigh
    <3>2. w - 0 = w /\ 0 \in 0 .. w
      OBVIOUS
    <3> QED
      BY <3>1, <3>2
  <2>3. ASSUME NEW d \in 0 .. w, d > 0, d - 1 \in C
        PROVE  d \in C
    <3> DEFINE j == w - d
    <3>1. j \in 0 .. w - 1 /\ j \in Nat /\ j + 1 \in Nat /\ w - (d - 1) = j + 1
      BY <2>3
    <3> HIDE DEF j
    <3>2. Bit(i, j + 1) = Bit(k, j + 1)
      BY <2>3, <3>1
    <3>3. (Bit(i, j) # Bit(i, j + 1)) <=> (Bit(k, j) # Bit(k, j + 1))
      BY <1>3, <3>1 DEF GrayWord
    <3>4. /\ Bit(i, j) \in {0, 1} /\ Bit(i, j + 1) \in {0, 1}
          /\ Bit(k, j) \in {0, 1} /\ Bit(k, j + 1) \in {0, 1}
      BY <2>1, <3>1, BitStep
    <3>5. Bit(i, j) = Bit(k, j)
      BY <3>2, <3>3, <3>4
    <3> QED
      BY <3>5 DEF j
  <2>4. 0 .. w \subseteq C
    <3>1. C \subseteq 0 .. w /\ 0 \in Nat /\ 0 <= w
      OBVIOUS
    <3> HIDE DEF C
    <3>2. \A d \in 0 .. w : d > 0 /\ d - 1 \in C => d \in C
      BY <2>3
    <3> QED
      BY <2>2, <3>1, <3>2, RangeInduction
  <2>5. \A j \in 0 .. w - 1 : Bit(i, j) = Bit(k, j)
    <3> SUFFICES ASSUME NEW j \in 0 .. w - 1
                 PROVE  Bit(i, j) = Bit(k, j)
      OBVIOUS
    <3>1. w - j \in 0 .. w /\ w - (w - j) = j
      OBVIOUS
    <3> QED
      BY <2>4, <3>1
  <2> QED
    BY <2>5, BitsDetermine
<1>4. IsFiniteSet(From) /\ Cardinality(From) = N
  <2>1. 0 \in Int /\ N - 1 \in Int /\ ~ (0 > N - 1) /\ N - 1 - 0 + 1 = N
    BY <1>1
  <2> HIDE DEF N
  <2> QED
    BY <2>1, FS_Interval
<1>5. IsFiniteSet(W) /\ Cardinality(W) = N
  <2>1. IsFiniteSet(0 .. w - 1) /\ Cardinality(0 .. w - 1) = w
    <3>1. 0 \in Int /\ w - 1 \in Int /\ (IF 0 > w - 1 THEN 0 ELSE w - 1 - 0 + 1) = w
      OBVIOUS
    <3> QED
      BY <3>1, FS_Interval
  <2> QED
    BY <2>1, FS_SUBSET
<1> HIDE DEF N, From, W
<1>6. g \in Injection(From, W)
  <2>1. g \in [From -> W] /\ \A i \in From : g[i] = GrayWord(i, w)
    BY <1>2
  <2> HIDE DEF g
  <2> QED
    BY <1>3, <2>1 DEF Injection, IsInjective
<1>7. g \in Surjection(From, W)
  <2>1. Cardinality(From) = Cardinality(W)
    BY <1>4, <1>5
  <2> HIDE DEF g
  <2> QED
    BY <1>4, <1>5, <1>6, <2>1, FS_Injection
<1>8. \A u \in W : \E i \in From : GrayWord(i, w) = u
  <2>1. \A u \in W : \E i \in From : g[i] = u
    <3> HIDE DEF g
    <3> QED
      BY <1>7 DEF Surjection
  <2> QED
    BY <2>1
<1> QED
  BY <1>2, <1>3, <1>8 DEF From, W, N

-----------------------------------------------------------------------------
(* Sums of rows.                                                             *)

OddSized(S) == Cardinality(S) % 2 = 1

LEMMA OddUnion ==
  ASSUME NEW S, NEW T, IsFiniteSet(S), IsFiniteSet(T), S \cap T = {}
  PROVE  OddSized(S \cup T) <=> (OddSized(S) <=> ~ OddSized(T))
<1> DEFINE a == Cardinality(S)
           b == Cardinality(T)
<1>1. a \in Nat /\ b \in Nat
  BY FS_CardinalityType
<1>2. Cardinality(S \cup T) = a + b
  <2>1. Cardinality(S \cap T) = 0
    BY FS_EmptySet
  <2>2. Cardinality(S \cup T) = a + b - Cardinality(S \cap T)
    BY FS_Union
  <2> HIDE DEF a, b
  <2> QED
    BY <1>1, <2>1, <2>2
<1> HIDE DEF a, b
<1>3. (a + b) % 2 = 1 <=> (a % 2 = 1 <=> ~ (b % 2 = 1))
  BY <1>1
<1> QED
  BY <1>2, <1>3 DEF OddSized, a, b

LEMMA OddSmall ==
  /\ ~ OddSized({})
  /\ \A j : OddSized({j})
<1>1. Cardinality({}) = 0 /\ \A j : Cardinality({j}) = 1
  BY FS_EmptySet, FS_Singleton
<1>2. 0 % 2 = 0 /\ 1 % 2 = 1
  OBVIOUS
<1> QED
  BY <1>1, <1>2 DEF OddSized

(* The chosen rows that have the bit x.                                      *)
With(words, u, x) == {i \in u : x \in words[i + 1]}

LEMMA CombinationBits ==
  ASSUME NEW words, NEW u
  PROVE  \A x : x \in Combination(words, u) <=> OddSized(With(words, u, x))
<1> SUFFICES ASSUME NEW x
             PROVE  x \in Combination(words, u) <=> OddSized(With(words, u, x))
  OBVIOUS
<1>1. x \in Combination(words, u) <=>
        x \in UNION {words[i + 1] : i \in u} /\ OddSized(With(words, u, x))
  BY DEF Combination, OddSized, With
<1>2. x \notin UNION {words[i + 1] : i \in u} => With(words, u, x) = {}
  BY DEF With
<1> QED
  BY <1>1, <1>2, OddSmall

LEMMA CombinationType ==
  ASSUME NEW words, NEW u, NEW W, \A i \in u : words[i + 1] \subseteq W
  PROVE  Combination(words, u) \subseteq W
BY DEF Combination

LEMMA CombinationUnion ==
  ASSUME NEW words, NEW u, NEW v, IsFiniteSet(u), IsFiniteSet(v), u \cap v = {}
  PROVE  Combination(words, u \cup v) = Xor(Combination(words, u), Combination(words, v))
<1> SUFFICES ASSUME NEW x
             PROVE  x \in Combination(words, u \cup v)
                      <=> x \in Xor(Combination(words, u), Combination(words, v))
  OBVIOUS
<1>1. /\ With(words, u \cup v, x) = With(words, u, x) \cup With(words, v, x)
      /\ With(words, u, x) \cap With(words, v, x) = {}
      /\ With(words, u, x) \in SUBSET u /\ With(words, v, x) \in SUBSET v
  BY DEF With
<1>2. IsFiniteSet(With(words, u, x)) /\ IsFiniteSet(With(words, v, x))
  BY <1>1, FS_Subset
<1>3. OddSized(With(words, u \cup v, x))
        <=> (OddSized(With(words, u, x)) <=> ~ OddSized(With(words, v, x)))
  BY <1>1, <1>2, OddUnion
<1> QED
  BY <1>3, CombinationBits DEF Xor, SymDiff

LEMMA CombinationSmall ==
  ASSUME NEW words
  PROVE  /\ Combination(words, {}) = Zero
         /\ \A j : Combination(words, {j}) = words[j + 1]
<1>1. Combination(words, {}) = Zero
  BY DEF Combination, Zero
<1>2. ASSUME NEW j
      PROVE  Combination(words, {j}) = words[j + 1]
  <2>1. \A x : With(words, {j}, x) = IF x \in words[j + 1] THEN {j} ELSE {}
    BY DEF With
  <2>2. \A x : x \in Combination(words, {j}) <=> x \in words[j + 1]
    <3>1. \A x : x \in Combination(words, {j}) <=> OddSized(With(words, {j}, x))
      BY CombinationBits
    <3>2. \A x : OddSized(With(words, {j}, x)) <=> x \in words[j + 1]
      BY <2>1, OddSmall
    <3> QED
      BY <3>1, <3>2
  <2> QED
    BY <2>2
<1> QED
  BY <1>1, <1>2

(* To flip a bit is to add a row.                                            *)
LEMMA CombinationFlip ==
  ASSUME NEW words, NEW u, IsFiniteSet(u), NEW j
  PROVE  Combination(words, Xor(u, {j})) = Xor(Combination(words, u), words[j + 1])
<1>1. IsFiniteSet({j}) /\ IsFiniteSet(u \ {j})
  BY FS_Singleton, FS_RemoveElement
<1>2. Combination(words, {j}) = words[j + 1]
  BY CombinationSmall
<1>3. CASE j \notin u
  <2>1. Xor(u, {j}) = u \cup {j} /\ u \cap {j} = {}
    BY <1>3 DEF Xor, SymDiff
  <2> QED
    BY <1>1, <1>2, <2>1, CombinationUnion
<1>4. CASE j \in u
  <2> DEFINE v == u \ {j}
  <2>1. Xor(u, {j}) = v /\ u = v \cup {j} /\ v \cap {j} = {}
    BY <1>4 DEF Xor, SymDiff
  <2>2. IsFiniteSet(v)
    BY <1>1
  <2> HIDE DEF v
  <2>3. Combination(words, v \cup {j}) = Xor(Combination(words, v), words[j + 1])
    BY <1>1, <1>2, <2>1, <2>2, CombinationUnion
  <2>4. Xor(Combination(words, u), words[j + 1]) = Combination(words, v)
    <3> DEFINE c == Combination(words, v)
               d == words[j + 1]
    <3>1. Combination(words, u) = Xor(c, d)
      BY <2>1, <2>3
    <3>2. Xor(Xor(c, d), d) = c
      <4> HIDE DEF c, d
      <4> QED
        BY DEF Xor, SymDiff
    <3> QED
      BY <3>1, <3>2
  <2> QED
    BY <2>1, <2>4
<1> QED
  BY <1>3, <1>4

-----------------------------------------------------------------------------
(* Codes.                                                                    *)

(* The words that a basis adds up to.                                        *)
CodeOf(rows) == {Combination(rows, x) : x \in SUBSET (0 .. Len(rows) - 1)}

LEMMA XorFacts ==
  /\ \A a, b, c : Xor(Xor(a, b), c) = Xor(a, Xor(b, c))
  /\ \A a, b : Xor(a, b) = Xor(b, a) /\ Xor(Xor(a, b), b) = a
  /\ \A a : Xor(a, Zero) = a /\ Xor(a, a) = Zero
<1>1. \A a, b, x : x \in Xor(a, b) <=> (x \in a <=> x \notin b)
  BY DEF Xor, SymDiff
<1>2. \A a, b, c : Xor(Xor(a, b), c) = Xor(a, Xor(b, c))
  BY <1>1 DEF Xor, SymDiff
<1>3. \A a, b : Xor(a, b) = Xor(b, a) /\ Xor(Xor(a, b), b) = a
  BY DEF Xor, SymDiff
<1>4. \A a : Xor(a, Zero) = a /\ Xor(a, a) = Zero
  BY DEF Xor, SymDiff, Zero
<1> QED
  BY <1>2, <1>3, <1>4

(* The sum of two combinations.                                              *)
LEMMA CombinationXor ==
  ASSUME NEW words, NEW x, NEW y, IsFiniteSet(x), IsFiniteSet(y)
  PROVE  Combination(words, Xor(x, y)) = Xor(Combination(words, x), Combination(words, y))
<1> DEFINE a == x \ y
           b == y \ x
           c == x \cap y
           A == Combination(words, a)
           B == Combination(words, b)
           C == Combination(words, c)
<1>1. IsFiniteSet(a) /\ IsFiniteSet(b) /\ IsFiniteSet(c)
  BY FS_Subset
<1>2. a \cap b = {} /\ a \cap c = {} /\ b \cap c = {}
  OBVIOUS
<1>3. Xor(x, y) = a \cup b /\ x = a \cup c /\ y = b \cup c
  BY DEF Xor, SymDiff
<1> HIDE DEF a, b, c
<1>4. Combination(words, Xor(x, y)) = Xor(A, B)
  BY <1>1, <1>2, <1>3, CombinationUnion
<1>5. Combination(words, x) = Xor(A, C) /\ Combination(words, y) = Xor(B, C)
  BY <1>1, <1>2, <1>3, CombinationUnion
<1> HIDE DEF A, B, C
<1>6. Xor(Xor(A, C), Xor(B, C)) = Xor(A, B)
  BY DEF Xor, SymDiff
<1> QED
  BY <1>4, <1>5, <1>6

LEMMA CoordinatesFinite ==
  ASSUME NEW n \in Nat
  PROVE  IsFiniteSet(0 .. n - 1) /\ \A x \in SUBSET (0 .. n - 1) : IsFiniteSet(x)
<1>1. IsFiniteSet(0 .. n - 1)
  BY FS_Interval
<1> QED
  BY <1>1, FS_Subset

(* A code is closed under sums and has the rows of its basis.                *)
LEMMA CodeClosed ==
  ASSUME NEW rows, Len(rows) \in Nat
  PROVE  /\ Zero \in CodeOf(rows)
         /\ \A i \in 1 .. Len(rows) : rows[i] \in CodeOf(rows)
         /\ \A u, v \in CodeOf(rows) : Xor(u, v) \in CodeOf(rows)
<1> DEFINE X == SUBSET (0 .. Len(rows) - 1)
<1>1. Zero \in CodeOf(rows)
  <2>1. {} \in X /\ Combination(rows, {}) = Zero
    BY CombinationSmall
  <2> QED
    BY <2>1 DEF CodeOf
<1>2. ASSUME NEW i \in 1 .. Len(rows)
      PROVE  rows[i] \in CodeOf(rows)
  <2>1. {i - 1} \in X /\ (i - 1) + 1 = i
    OBVIOUS
  <2>2. Combination(rows, {i - 1}) = rows[i]
    BY <2>1, CombinationSmall
  <2> QED
    BY <2>1, <2>2 DEF CodeOf
<1>3. ASSUME NEW u \in CodeOf(rows), NEW v \in CodeOf(rows)
      PROVE  Xor(u, v) \in CodeOf(rows)
  <2>1. PICK x \in X : u = Combination(rows, x)
    BY DEF CodeOf
  <2>2. PICK y \in X : v = Combination(rows, y)
    BY DEF CodeOf
  <2>3. IsFiniteSet(x) /\ IsFiniteSet(y)
    BY CoordinatesFinite
  <2>4. Xor(x, y) \in X
    BY DEF Xor, SymDiff
  <2>5. Combination(rows, Xor(x, y)) = Xor(u, v)
    BY <2>1, <2>2, <2>3, CombinationXor
  <2> QED
    BY <2>4, <2>5 DEF CodeOf
<1> QED
  BY <1>1, <1>2, <1>3

(* It is the least such set.                                                 *)
LEMMA CodeLeast ==
  ASSUME NEW rows, Len(rows) \in Nat, NEW S, Zero \in S,
         \A s \in S : \A i \in 1 .. Len(rows) : Xor(s, rows[i]) \in S
  PROVE  CodeOf(rows) \subseteq S
<1> DEFINE X == SUBSET (0 .. Len(rows) - 1)
           Bad == {x \in X : Combination(rows, x) \notin S}
<1>1. ASSUME Bad # {} PROVE FALSE
  <2> DEFINE K == 0 .. Len(rows) - 1
  <2>1. IsFiniteSet(K) /\ Bad \subseteq SUBSET K
    BY CoordinatesFinite
  <2>2. \E x \in Bad : \A y \in Bad : y \subseteq x => y = x
    <3> HIDE DEF Bad, K
    <3> QED
      BY <1>1, <2>1, LeastSet
  <2>10. PICK x \in Bad : \A y \in Bad : y \subseteq x => y = x
    BY <2>2
  <2>3. x # {}
    BY CombinationSmall
  <2>4. PICK j \in x : TRUE
    BY <2>3
  <2> DEFINE y == x \ {j}
  <2>5. y \in X /\ y \subseteq x /\ y # x /\ IsFiniteSet(y)
    BY CoordinatesFinite
  <2>6. Combination(rows, y) \in S
    BY <2>5, <2>10
  <2>7. Xor(y, {j}) = x
    BY DEF Xor, SymDiff
  <2> HIDE DEF y
  <2>8. Combination(rows, x) = Xor(Combination(rows, y), rows[j + 1])
    BY <2>5, <2>7, CombinationFlip
  <2>9. j + 1 \in 1 .. Len(rows)
    <3>1. j \in 0 .. Len(rows) - 1
      OBVIOUS
    <3> QED
      BY <3>1
  <2> QED
    BY <2>6, <2>8, <2>9
<1> QED
  BY <1>1 DEF CodeOf

(* Rows that are words of a code add up to words of it.                      *)
LEMMA Subcode ==
  ASSUME NEW rows, Len(rows) \in Nat, NEW more, Len(more) \in Nat,
         \A i \in 1 .. Len(more) : more[i] \in CodeOf(rows)
  PROVE  CodeOf(more) \subseteq CodeOf(rows)
<1>1. Zero \in CodeOf(rows)
  BY CodeClosed
<1>2. \A s \in CodeOf(rows) : \A i \in 1 .. Len(more) : Xor(s, more[i]) \in CodeOf(rows)
  BY CodeClosed
<1> QED
  BY <1>1, <1>2, CodeLeast

-----------------------------------------------------------------------------
(* `row_reduce`: its loop over the columns.                                  *)

(* What one column does to rows and pivots.                                  *)
Column(before, c) ==
  LET rows == before.rref
      r == Len(before.pivots) + 1
      having == {i \in r .. Len(rows) : c - 1 \in rows[i]}
      p == Min(having)
      swapped == [rows EXCEPT ![r] = rows[p], ![p] = rows[r]]
  IN IF having = {} THEN before
     ELSE [rref |-> [i \in DOMAIN rows |->
                       IF i # r /\ c - 1 \in swapped[i]
                       THEN Xor(swapped[i], rows[p]) ELSE swapped[i]],
           pivots |-> Append(before.pivots, c - 1)]

Swapped(rows, r, p, i) == IF i = r THEN rows[p] ELSE IF i = p THEN rows[r] ELSE rows[i]

Cleared(rows, r, p, b, i) ==
  IF i # r /\ b \in Swapped(rows, r, p, i) THEN Xor(Swapped(rows, r, p, i), rows[p])
  ELSE Swapped(rows, r, p, i)

Bits(n) == SUBSET (0 .. n - 1)

Partial(k, n) == [rref : [1 .. k -> Bits(n)], pivots : Seq(0 .. n - 1)]

LEMMA ColumnFacts ==
  ASSUME NEW k \in Nat, NEW n \in Nat, NEW s \in Partial(k, n), NEW c \in 1 .. n
  PROVE  LET r == Len(s.pivots) + 1
             t == Column(s, c)
         IN /\ r \in Nat /\ r > 0
            /\ \/ t = s /\ \A i \in r .. k : c - 1 \notin s.rref[i]
               \/ \E p \in r .. k :
                    /\ c - 1 \in s.rref[p] /\ t \in Partial(k, n)
                    /\ t.pivots = Append(s.pivots, c - 1)
                    /\ \A i \in 1 .. k : t.rref[i] = Cleared(s.rref, r, p, c - 1, i)
<1> DEFINE r == Len(s.pivots) + 1
           rows == s.rref
           b == c - 1
           having == {i \in r .. Len(rows) : b \in rows[i]}
           p == Min(having)
           swapped == [rows EXCEPT ![r] = rows[p], ![p] = rows[r]]
           u == [i \in DOMAIN rows |-> IF i # r /\ b \in swapped[i] THEN Xor(swapped[i], rows[p]) ELSE swapped[i]]
           t == Column(s, c)
<1>1. /\ s = [rref |-> rows, pivots |-> s.pivots] /\ rows \in [1 .. k -> Bits(n)] /\ s.pivots \in Seq(0 .. n - 1)
      /\ DOMAIN rows = 1 .. k /\ Len(rows) = k /\ r \in Nat /\ r > 0 /\ b \in 0 .. n - 1
  BY DEF Partial
<1>2. t = IF having = {} THEN s ELSE [rref |-> u, pivots |-> Append(s.pivots, b)]
  BY DEF Column
<1>3. CASE having = {}
  BY <1>1, <1>2, <1>3
<1>4. CASE having # {}
  <2>1. having \subseteq Nat
    BY <1>1
  <2>2. p \in having
    <3> HIDE DEF having
    <3>1. \E x \in having : \A y \in having : x <= y
      BY <1>4, <2>1, LeastNumber
    <3> QED
      BY <3>1 DEF Min
  <2>3. p \in r .. k /\ b \in rows[p] /\ r \in 1 .. k /\ p \in 1 .. k
    BY <1>1, <2>2
  <2> HIDE DEF p, r, rows, b
  <2>4. /\ DOMAIN swapped = 1 .. k
        /\ \A i \in 1 .. k : swapped[i] = Swapped(rows, r, p, i) /\ swapped[i] \in Bits(n)
    BY <1>1, <2>3 DEF Swapped
  <2> HIDE DEF swapped
  <2>5. rows[p] \in Bits(n)
    BY <1>1, <2>3
  <2>6. \A i \in 1 .. k : u[i] = Cleared(rows, r, p, b, i) /\ u[i] \in Bits(n)
    <3>1. \A x, y \in Bits(n) : Xor(x, y) \in Bits(n)
      BY DEF Bits, Xor, SymDiff
    <3>2. \A i \in 1 .. k : u[i] = IF i # r /\ b \in swapped[i] THEN Xor(swapped[i], rows[p]) ELSE swapped[i]
      BY <1>1
    <3> HIDE DEF u
    <3> QED
      BY <2>4, <2>5, <3>1, <3>2 DEF Cleared
  <2>7. u \in [1 .. k -> Bits(n)]
    <3>1. DOMAIN u = 1 .. k /\ u = [i \in 1 .. k |-> u[i]]
      BY <1>1
    <3> HIDE DEF u
    <3> QED
      BY <2>6, <3>1
  <2> HIDE DEF u
  <2>8. t = [rref |-> u, pivots |-> Append(s.pivots, b)]
    BY <1>2, <1>4
  <2>9. Append(s.pivots, b) \in Seq(0 .. n - 1)
    BY <1>1
  <2>10. t \in Partial(k, n) /\ t.rref = u /\ t.pivots = Append(s.pivots, b)
    BY <2>7, <2>8, <2>9 DEF Partial
  <2> QED
    BY <1>1, <2>3, <2>6, <2>10 DEF p, r, rows, b
<1> QED
  BY <1>3, <1>4

Reduces(rowsIn, n, f) ==
  /\ f[0] = [rref |-> rowsIn, pivots |-> <<>>]
  /\ \A c \in 1 .. n : f[c] = Column(f[c - 1], c)
  /\ RowReduce(rowsIn, n) = [f[n] EXCEPT !.rref = SubSeq(@, 1, Len(f[n].pivots))]

LEMMA ReduceLoop ==
  ASSUME NEW n \in Nat, NEW rowsIn \in Seq(Bits(n))
  PROVE  \E f \in [0 .. n -> Partial(Len(rowsIn), n)] : Reduces(rowsIn, n, f)
<1> DEFINE k == Len(rowsIn)
           V == Partial(k, n)
           base == [rref |-> rowsIn, pivots |-> <<>>]
           step == [q \in V \X (0 .. n) |-> IF q[2] = 0 THEN q[1] ELSE Column(q[1], q[2])]
           Eq(g) == g = [c \in 0 .. n |-> IF c = 0 THEN base ELSE Column(g[c - 1], c)]
           h == CHOOSE g : Eq(g)
<1>1. k \in Nat /\ rowsIn \in [1 .. k -> Bits(n)]
  OBVIOUS
<1>2. base \in V
  BY <1>1 DEF Partial
<1>3. \A s \in V, c \in 1 .. n : Column(s, c) \in V
  BY <1>1, ColumnFacts
<1>4. step \in [V \X (0 .. n) -> V]
  <2> HIDE DEF V
  <2>1. \A q \in V \X (0 .. n) : q[1] \in V /\ q[2] \in 0 .. n /\ (q[2] # 0 => q[2] \in 1 .. n)
    OBVIOUS
  <2> QED
    BY <1>3, <2>1
<1>5. \A s \in V, c \in 1 .. n : step[s, c] = Column(s, c)
  <2> HIDE DEF V
  <2>1. \A c \in 1 .. n : c \in 0 .. n /\ c # 0
    OBVIOUS
  <2> QED
    BY <2>1
<1>6. \E f \in [0 .. n -> V] : IsLoop(base, step, 0, n, f)
  <2>1. 0 \in Nat /\ 0 <= n
    OBVIOUS
  <2> HIDE DEF V, step, base
  <2> QED
    BY <1>2, <1>4, <2>1, LoopExists
<1>7. PICK f \in [0 .. n -> V] : IsLoop(base, step, 0, n, f)
  BY <1>6
<1> HIDE DEF step, V, base
<1>8. f[0] = base /\ \A c \in 1 .. n : f[c] = Column(f[c - 1], c)
  <2>1. f[0] = base
    BY <1>7 DEF IsLoop
  <2>2. ASSUME NEW c \in 1 .. n PROVE f[c] = Column(f[c - 1], c)
    <3>1. c \in 0 .. n /\ c > 0 /\ c - 1 \in 0 .. n
      OBVIOUS
    <3>2. f[c] = step[f[c - 1], c] /\ f[c - 1] \in V
      BY <1>7, <3>1 DEF IsLoop
    <3> QED
      BY <1>5, <3>2
  <2> QED
    BY <2>1, <2>2
<1>9. Eq(f)
  <2>1. f = [c \in 0 .. n |-> f[c]]
    BY <1>7
  <2>2. \A c \in 0 .. n : f[c] = IF c = 0 THEN base ELSE Column(f[c - 1], c)
    <3>1. \A c \in 0 .. n : c # 0 => c \in 1 .. n
      OBVIOUS
    <3> QED
      BY <1>8, <3>1
  <2> QED
    BY <2>1, <2>2
<1>10. Eq(h)
  <2> HIDE DEF Eq
  <2> QED
    BY <1>9
<1> HIDE DEF h
<1>11. h[0] = base /\ \A c \in 1 .. n : h[c] = Column(h[c - 1], c)
  <2>1. 0 \in 0 .. n /\ \A c \in 1 .. n : c \in 0 .. n /\ c # 0
    OBVIOUS
  <2> QED
    BY <1>10, <2>1
<1> DEFINE C == {c \in 0 .. n : h[c] = f[c]}
<1>12. n \in C
  <2>1. 0 \in C /\ C \subseteq 0 .. n /\ 0 <= n /\ 0 \in Nat
    BY <1>8, <1>11
  <2>2. \A c \in 0 .. n : c > 0 /\ c - 1 \in C => c \in C
    <3>1. \A c \in 0 .. n : c > 0 => c \in 1 .. n
      OBVIOUS
    <3> QED
      BY <1>8, <1>11, <3>1
  <2> HIDE DEF C
  <2>3. 0 .. n \subseteq C
    BY <2>1, <2>2, RangeInduction
  <2> QED
    BY <2>3
<1>13. RowReduce(rowsIn, n) = [h[n] EXCEPT !.rref = SubSeq(@, 1, Len(h[n].pivots))]
  BY DEF RowReduce, Column, h, base
<1> QED
  BY <1>7, <1>8, <1>12, <1>13 DEF Reduces, V, base

-----------------------------------------------------------------------------
(* What is done after the columns below c: the rows that have a pivot lead   *)
(* at it and have it alone, the others are empty so far, the code is the     *)
(* same.                                                                     *)

Leading(rows, pivots, k) ==
  /\ \A i \in 1 .. Len(pivots), j \in 1 .. k : pivots[i] \in rows[j] <=> i = j
  /\ \A i \in 1 .. Len(pivots) : \A b \in rows[i] : pivots[i] <= b
  /\ \A i, j \in 1 .. Len(pivots) : i < j => pivots[i] < pivots[j]

ReducedTo(s, k, n, c, words) ==
  /\ s \in Partial(k, n) /\ Len(s.pivots) \in Nat /\ Len(s.pivots) <= k
  /\ \A i \in 1 .. Len(s.pivots) : s.pivots[i] < c
  /\ Leading(s.rref, s.pivots, k)
  /\ \A j \in Len(s.pivots) + 1 .. k : \A b \in s.rref[j] : b >= c
  /\ CodeOf(s.rref) = words

(* To swap two rows and to add one to others changes the basis, not the code. *)
OneColumn(rows, t, k, r, p, b) == \A i \in 1 .. k : t[i] = Cleared(rows, r, p, b, i)

LEMMA ClearedCode ==
  ASSUME NEW k \in Nat, NEW rows, Len(rows) = k, NEW t, Len(t) = k,
         NEW r \in 1 .. k, NEW p \in 1 .. k, NEW b,
         OneColumn(rows, t, k, r, p, b)
  PROVE  CodeOf(t) = CodeOf(rows)
<1> USE DEF OneColumn
<1> DEFINE S == CodeOf(rows)
           T == CodeOf(t)
<1>1. /\ \A i \in 1 .. k : rows[i] \in S
      /\ \A u, v \in S : Xor(u, v) \in S
  BY CodeClosed
<1>2. /\ \A i \in 1 .. k : t[i] \in T
      /\ \A u, v \in T : Xor(u, v) \in T
  BY CodeClosed
<1>3. \A i \in 1 .. k : Swapped(rows, r, p, i) \in S
  BY <1>1 DEF Swapped
<1>4. \A i \in 1 .. k : t[i] \in S
  BY <1>1, <1>3 DEF Cleared
<1>5. T \subseteq S
  BY <1>4, Subcode
<1>6. t[r] = rows[p]
  BY DEF Cleared, Swapped
<1>7. ASSUME NEW i \in 1 .. k PROVE Swapped(rows, r, p, i) \in T
  <2> DEFINE x == Swapped(rows, r, p, i)
  <2>1. t[i] = x \/ t[i] = Xor(x, t[r])
    BY <1>6 DEF Cleared
  <2>2. x = t[i] \/ x = Xor(t[i], t[r])
    <3> HIDE DEF x
    <3> QED
      BY <2>1, XorFacts
  <2> HIDE DEF x, T
  <2>3. x \in T
    BY <1>2, <2>2
  <2> QED
    BY <2>3 DEF x
<1>8. \A i \in 1 .. k : rows[i] \in T
  <2>1. ASSUME NEW i \in 1 .. k PROVE \E j \in 1 .. k : rows[i] = Swapped(rows, r, p, j)
    <3>1. CASE i = p
      BY <3>1 DEF Swapped
    <3>2. CASE i # p /\ i = r
      BY <3>2 DEF Swapped
    <3>3. CASE i # p /\ i # r
      BY <3>3 DEF Swapped
    <3> QED
      BY <3>1, <3>2, <3>3
  <2> HIDE DEF T
  <2> QED
    BY <1>7, <2>1
<1>9. S \subseteq T
  BY <1>8, Subcode
<1> QED
  BY <1>5, <1>9

LEMMA ColumnKeeps ==
  ASSUME NEW k \in Nat, NEW n \in Nat, NEW c \in 1 .. n, NEW words,
         NEW s, ReducedTo(s, k, n, c - 1, words)
  PROVE  ReducedTo(Column(s, c), k, n, c, words)
<1> DEFINE r == Len(s.pivots) + 1
           b == c - 1
           t == Column(s, c)
           rows == s.rref
           old == s.pivots
<1>1. /\ s \in Partial(k, n) /\ r \in Nat /\ r > 0 /\ r - 1 <= k /\ Len(old) = r - 1
      /\ b \in 0 .. n - 1 /\ c \in Nat /\ c = b + 1
      /\ rows \in [1 .. k -> Bits(n)] /\ old \in Seq(0 .. n - 1)
  BY DEF ReducedTo, Partial
<1>2. /\ \A i \in 1 .. r - 1 : old[i] \in Nat /\ old[i] < b
      /\ Leading(rows, old, k)
      /\ \A j \in r .. k : \A x \in rows[j] : x \in Nat /\ x >= b
      /\ CodeOf(rows) = words
  <2>1. \A i \in 1 .. r - 1 : old[i] \in 0 .. n - 1
    BY <1>1
  <2>2. \A j \in r .. k : rows[j] \in Bits(n)
    BY <1>1
  <2> QED
    BY <1>1, <2>1, <2>2 DEF ReducedTo, Bits
<1>3. CASE t = s /\ \A i \in r .. k : b \notin rows[i]
  <2>1. \A i \in 1 .. r - 1 : old[i] < c
    BY <1>1, <1>2
  <2>2. \A j \in r .. k : \A x \in rows[j] : x >= c
    BY <1>1, <1>2, <1>3
  <2> QED
    BY <1>1, <1>2, <1>3, <2>1, <2>2 DEF ReducedTo
<1>4. ASSUME NEW p \in r .. k,
             b \in rows[p], t \in Partial(k, n), t.pivots = Append(old, b),
             \A i \in 1 .. k : t.rref[i] = Cleared(rows, r, p, b, i)
      PROVE  ReducedTo(t, k, n, c, words)
  <2> DEFINE new == t.rref
             piv == t.pivots
             lead == rows[p]
             sw(i) == Swapped(rows, r, p, i)
  <2>1. r \in 1 .. k /\ p \in 1 .. k /\ \A i \in 1 .. r - 1 : i \in 1 .. k /\ i # p /\ i # r
    BY <1>1
  <2>2. /\ Len(piv) = r /\ piv[r] = b /\ \A i \in 1 .. r - 1 : piv[i] = old[i]
    BY <1>1, <1>4
  <2>3. new \in [1 .. k -> Bits(n)] /\ Len(new) = k /\ Len(rows) = k
    BY <1>1, <1>4 DEF Partial
  <2>4. CodeOf(new) = words
    <3>1. OneColumn(rows, new, k, r, p, b)
      BY <1>4 DEF OneColumn
    <3> HIDE DEF new, rows, b, r
    <3>2. CodeOf(new) = CodeOf(rows)
      BY <2>1, <2>3, <3>1, ClearedCode
    <3> QED
      BY <1>2, <3>2
  <2>5. \A i \in 1 .. r - 1 : sw(i) = rows[i] /\ old[i] \notin lead
    BY <1>1, <1>2, <2>1 DEF Leading, Swapped
  <2>6. sw(r) = lead /\ new[r] = lead
    BY <1>4, <2>1 DEF Swapped, Cleared
  <2>7. \A x \in lead : x \in Nat /\ x >= b
    BY <1>2
  <2>8. \A i \in 1 .. k : i # r => new[i] = IF b \in sw(i) THEN Xor(sw(i), lead) ELSE sw(i)
    BY <1>4 DEF Cleared
  <2>9. \A i \in 1 .. k : i # r => b \notin new[i]
    BY <1>4, <2>8 DEF Xor, SymDiff
  <2>10. \A i \in 1 .. r - 1, j \in 1 .. k : old[i] \in new[j] <=> i = j
    <3> SUFFICES ASSUME NEW i \in 1 .. r - 1, NEW j \in 1 .. k
                 PROVE  old[i] \in new[j] <=> i = j
      OBVIOUS
    <3>1. \A h \in 1 .. k : old[i] \in rows[h] <=> i = h
      BY <1>1, <1>2 DEF Leading
    <3>2. old[i] \in sw(j) <=> i = j
      BY <2>1, <3>1 DEF Swapped
    <3>3. CASE j = r
      BY <2>1, <2>5, <2>6, <3>3
    <3>4. CASE j # r
      BY <2>5, <2>8, <3>2, <3>4 DEF Xor, SymDiff
    <3> QED
      BY <3>3, <3>4
  <2> HIDE DEF sw
  <2>11. \A i \in 1 .. r - 1 : \A x \in new[i] : old[i] <= x
    <3> SUFFICES ASSUME NEW i \in 1 .. r - 1, NEW x \in new[i]
                 PROVE  old[i] <= x
      OBVIOUS
    <3>1. x \in rows[i] \/ x \in lead
      BY <2>1, <2>5, <2>8 DEF Xor, SymDiff
    <3>2. CASE x \in rows[i]
      BY <1>1, <1>2, <3>2 DEF Leading
    <3>3. CASE x \in lead
      BY <1>1, <1>2, <2>7, <3>3
    <3> QED
      BY <3>1, <3>2, <3>3
  <2>12. Leading(new, piv, k)
    <3> HIDE DEF new, piv, old, rows, lead, b, r
    <3>1. \A i \in 1 .. r : i \in 1 .. r - 1 \/ i = r
      BY <1>1
    <3>2. \A i \in 1 .. r, j \in 1 .. k : piv[i] \in new[j] <=> i = j
      <4>1. b \in new[r]
        BY <1>4, <2>6 DEF lead
      <4> QED
        BY <2>2, <2>9, <2>10, <3>1, <4>1
    <3>3. \A i \in 1 .. r : \A x \in new[i] : piv[i] <= x
      BY <2>2, <2>6, <2>7, <2>11, <3>1
    <3>4. \A i, j \in 1 .. r : i < j => piv[i] < piv[j]
      <4> SUFFICES ASSUME NEW i \in 1 .. r, NEW j \in 1 .. r, i < j
                   PROVE  piv[i] < piv[j]
        OBVIOUS
      <4>1. i \in 1 .. r - 1
        BY <1>1
      <4>2. CASE j = r
        BY <1>2, <2>2, <4>1, <4>2
      <4>3. CASE j \in 1 .. r - 1
        BY <1>1, <1>2, <2>2, <4>1, <4>3 DEF Leading
      <4> QED
        BY <3>1, <4>2, <4>3
    <3> QED
      BY <2>2, <3>2, <3>3, <3>4 DEF Leading
  <2>13. \A i \in 1 .. Len(piv) : piv[i] < c
    <3> HIDE DEF piv, old, b, r
    <3>1. \A i \in 1 .. r : i \in 1 .. r - 1 \/ i = r
      BY <1>1
    <3> QED
      BY <1>1, <1>2, <2>2, <3>1
  <2>14. \A j \in r + 1 .. k : \A x \in new[j] : x >= c
    <3> SUFFICES ASSUME NEW j \in r + 1 .. k, NEW x \in new[j]
                 PROVE  x >= c
      OBVIOUS
    <3>1. j \in 1 .. k /\ j # r /\ j \in r .. k /\ r \in r .. k
      BY <1>1, <2>1
    <3>2. b \notin new[j]
      BY <2>9, <3>1
    <3>3. x \in sw(j) \/ x \in lead
      BY <2>8, <3>1 DEF Xor, SymDiff
    <3>4. \E h \in r .. k : x \in rows[h]
      BY <3>1, <3>3 DEF sw, Swapped
    <3>5. x \in Nat /\ x >= b
      BY <1>2, <3>4
    <3> QED
      BY <1>1, <3>2, <3>5
  <2> QED
    BY <1>1, <1>4, <2>1, <2>2, <2>4, <2>12, <2>13, <2>14 DEF ReducedTo
<1>5. \/ t = s /\ \A i \in r .. k : b \notin rows[i]
      \/ \E p \in r .. k :
           /\ b \in rows[p] /\ t \in Partial(k, n) /\ t.pivots = Append(old, b)
           /\ \A i \in 1 .. k : t.rref[i] = Cleared(rows, r, p, b, i)
  BY <1>1, ColumnFacts
<1> QED
  BY <1>3, <1>4, <1>5

(* A reduced echelon basis, as `row_reduce` returns one.                     *)
Echelon(rows, pivots, n) ==
  /\ rows \in Seq(Bits(n)) /\ pivots \in Seq(0 .. n - 1) /\ Len(rows) = Len(pivots)
  /\ Leading(rows, pivots, Len(rows))

(* The whole loop.                                                           *)
LEMMA ReducedAtEnd ==
  ASSUME NEW n \in Nat, NEW rowsIn \in Seq(Bits(n)),
         NEW f \in [0 .. n -> Partial(Len(rowsIn), n)], Reduces(rowsIn, n, f)
  PROVE  ReducedTo(f[n], Len(rowsIn), n, n, CodeOf(rowsIn))
<1> DEFINE k == Len(rowsIn)
           words == CodeOf(rowsIn)
           C == {c \in 0 .. n : ReducedTo(f[c], k, n, c, words)}
<1>1. k \in Nat /\ f[0] = [rref |-> rowsIn, pivots |-> <<>>] /\ f[0] \in Partial(k, n)
  BY DEF Reduces
<1>2. ReducedTo(f[0], k, n, 0, words)
  <2>1. f[0].rref = rowsIn /\ f[0].pivots = <<>> /\ Len(f[0].pivots) = 0
    BY <1>1
  <2>2. \A j \in 1 .. k : \A b \in rowsIn[j] : b >= 0
    <3>1. \A j \in 1 .. k : rowsIn[j] \in Bits(n)
      OBVIOUS
    <3> QED
      BY <3>1 DEF Bits
  <2> QED
    BY <1>1, <2>1, <2>2 DEF ReducedTo, Leading
<1>3. 0 \in C /\ C \subseteq 0 .. n /\ 0 <= n /\ 0 \in Nat
  BY <1>2
<1>4. \A c \in 0 .. n : c > 0 /\ c - 1 \in C => c \in C
  <2> SUFFICES ASSUME NEW c \in 0 .. n, c > 0, c - 1 \in C
               PROVE  ReducedTo(f[c], k, n, c, words)
    OBVIOUS
  <2>1. c \in 1 .. n /\ f[c] = Column(f[c - 1], c)
    BY DEF Reduces
  <2>2. ReducedTo(f[c - 1], k, n, c - 1, words)
    OBVIOUS
  <2> HIDE DEF k, words, C
  <2>3. ReducedTo(Column(f[c - 1], c), k, n, c, words)
    BY <1>1, <2>1, <2>2, ColumnKeeps
  <2> QED
    BY <2>1, <2>3
<1> HIDE DEF C
<1>5. 0 .. n \subseteq C
  BY <1>3, <1>4, RangeInduction
<1>6. n \in C
  BY <1>5
<1> QED
  BY <1>6 DEF C

(* `row_reduce` returns a reduced echelon basis of the code its rows span:   *)
(* every pivot is the least bit of its row and in no other, the pivots       *)
(* ascend, and the words are those of the rows it was given.                 *)
THEOREM RowReduceCorrect ==
  ASSUME NEW n \in Nat, NEW rowsIn \in Seq(Bits(n))
  PROVE  /\ Echelon(RowReduce(rowsIn, n).rref, RowReduce(rowsIn, n).pivots, n)
         /\ CodeOf(RowReduce(rowsIn, n).rref) = CodeOf(rowsIn)
<1> DEFINE k == Len(rowsIn)
           R == RowReduce(rowsIn, n)
<1>1. \E f \in [0 .. n -> Partial(Len(rowsIn), n)] : Reduces(rowsIn, n, f)
  BY ReduceLoop
<1>2. PICK f \in [0 .. n -> Partial(Len(rowsIn), n)] : Reduces(rowsIn, n, f)
  BY <1>1
<1> DEFINE rows == f[n].rref
           piv == f[n].pivots
           out == SubSeq(rows, 1, Len(piv))
<1>3. ReducedTo(f[n], k, n, n, CodeOf(rowsIn))
  BY <1>2, ReducedAtEnd
<1>4. /\ k \in Nat /\ rows \in [1 .. k -> Bits(n)] /\ piv \in Seq(0 .. n - 1)
      /\ f[n] = [rref |-> rows, pivots |-> piv]
      /\ Len(piv) \in Nat /\ Len(piv) <= k /\ Leading(rows, piv, k)
      /\ \A j \in Len(piv) + 1 .. k : \A b \in rows[j] : b >= n
      /\ CodeOf(rows) = CodeOf(rowsIn)
  BY <1>3 DEF ReducedTo, Partial
<1>5. R.rref = out /\ R.pivots = piv
  <2>1. RowReduce(rowsIn, n) = [f[n] EXCEPT !.rref = SubSeq(@, 1, Len(f[n].pivots))]
    BY <1>2 DEF Reduces
  <2> QED
    BY <1>4, <2>1
<1> HIDE DEF rows, piv, k
<1>6. /\ out \in Seq(Bits(n)) /\ Len(out) = Len(piv) /\ Len(rows) = k
      /\ \A i \in 1 .. Len(piv) : i \in 1 .. k /\ out[i] = rows[i]
  <2>1. rows \in Seq(Bits(n)) /\ Len(rows) = k
    BY <1>4
  <2> QED
    BY <1>4, <2>1
<1> HIDE DEF out
<1>7. Leading(out, piv, Len(out))
  BY <1>4, <1>6 DEF Leading
<1>8. CodeOf(out) = CodeOf(rows)
  <2>1. \A i \in 1 .. Len(out) : out[i] \in CodeOf(rows)
    <3>1. \A i \in 1 .. k : rows[i] \in CodeOf(rows)
      BY <1>4, <1>6, CodeClosed
    <3> QED
      BY <1>6, <3>1
  <2>2. Len(out) \in Nat /\ Len(rows) \in Nat
    BY <1>4, <1>6
  <2>3. CodeOf(out) \subseteq CodeOf(rows)
    BY <2>1, <2>2, Subcode
  <2>4. \A i \in 1 .. Len(rows) : rows[i] \in CodeOf(out)
    <3> SUFFICES ASSUME NEW i \in 1 .. k PROVE rows[i] \in CodeOf(out)
      BY <1>6
    <3>1. CASE i \in 1 .. Len(piv)
      <4>1. \A j \in 1 .. Len(out) : out[j] \in CodeOf(out)
        BY <2>2, CodeClosed
      <4> QED
        BY <1>6, <3>1, <4>1
    <3>2. CASE i \notin 1 .. Len(piv)
      <4>1. i \in Len(piv) + 1 .. k
        BY <1>4, <3>2
      <4>2. rows[i] \in Bits(n) /\ \A b \in rows[i] : b >= n
        BY <1>4, <4>1
      <4>3. rows[i] = Zero
        BY <4>2 DEF Bits, Zero
      <4>4. Zero \in CodeOf(out)
        BY <2>2, CodeClosed
      <4> QED
        BY <4>3, <4>4
    <3> QED
      BY <3>1, <3>2
  <2>5. CodeOf(rows) \subseteq CodeOf(out)
    BY <2>2, <2>4, Subcode
  <2> QED
    BY <2>3, <2>5
<1> QED
  BY <1>4, <1>5, <1>6, <1>7, <1>8 DEF Echelon

-----------------------------------------------------------------------------
(* The reduced echelon basis of a code is unique.                            *)

LeastBit(b, word) == b \in word /\ \A x \in word : b <= x

(* The bits of a sum of rows at the pivots are its coordinates.              *)
LEMMA PivotBits ==
  ASSUME NEW n \in Nat, NEW rows, NEW pivots, Echelon(rows, pivots, n),
         NEW x \in SUBSET (0 .. Len(rows) - 1)
  PROVE  \A i \in 1 .. Len(rows) : pivots[i] \in Combination(rows, x) <=> i - 1 \in x
<1> SUFFICES ASSUME NEW i \in 1 .. Len(rows)
             PROVE  pivots[i] \in Combination(rows, x) <=> i - 1 \in x
  OBVIOUS
<1>1. /\ \A h \in 1 .. Len(rows) : pivots[i] \in rows[h] <=> i = h
      /\ Len(rows) \in Nat
  BY DEF Echelon, Leading
<1>2. \A h \in x : h + 1 \in 1 .. Len(rows) /\ (i = h + 1 <=> h = i - 1)
  <2>1. \A h \in x : h \in 0 .. Len(rows) - 1
    OBVIOUS
  <2> QED
    BY <1>1, <2>1
<1>3. With(rows, x, pivots[i]) = {i - 1} \cap x
  BY <1>1, <1>2 DEF With
<1>4. CASE i - 1 \in x
  <2>1. With(rows, x, pivots[i]) = {i - 1}
    BY <1>3, <1>4
  <2> QED
    BY <1>4, <2>1, CombinationBits, OddSmall
<1>5. CASE i - 1 \notin x
  <2>1. With(rows, x, pivots[i]) = {}
    BY <1>3, <1>5
  <2> QED
    BY <1>5, <2>1, CombinationBits, OddSmall
<1> QED
  BY <1>4, <1>5

(* The pivots are the least bits of the words.                               *)
LEMMA LeastBits ==
  ASSUME NEW n \in Nat, NEW rows, NEW pivots, Echelon(rows, pivots, n)
  PROVE  /\ \A i \in 1 .. Len(rows) : LeastBit(pivots[i], rows[i])
         /\ \A w \in CodeOf(rows) : w # Zero => \E i \in 1 .. Len(rows) : LeastBit(pivots[i], w)
<1>1. /\ Len(rows) \in Nat /\ Len(pivots) = Len(rows)
      /\ Leading(rows, pivots, Len(rows))
      /\ \A i \in 1 .. Len(rows) : pivots[i] \in Nat /\ rows[i] \in SUBSET Nat
  <2>1. rows \in Seq(Bits(n)) /\ pivots \in Seq(0 .. n - 1) /\ Len(pivots) = Len(rows)
    BY DEF Echelon
  <2>2. \A i \in 1 .. Len(rows) : pivots[i] \in 0 .. n - 1 /\ rows[i] \in Bits(n)
    BY <2>1
  <2> QED
    BY <2>1, <2>2 DEF Echelon, Bits
<1>2. \A i \in 1 .. Len(rows) : LeastBit(pivots[i], rows[i])
  BY <1>1 DEF Leading, LeastBit
<1>3. ASSUME NEW w \in CodeOf(rows), w # Zero
      PROVE  \E i \in 1 .. Len(rows) : LeastBit(pivots[i], w)
  <2>1. PICK x \in SUBSET (0 .. Len(rows) - 1) : w = Combination(rows, x)
    BY DEF CodeOf
  <2>2. x # {} /\ x \subseteq Nat
    <3>1. x # {}
      BY <1>3, <2>1, CombinationSmall
    <3>2. x \subseteq Nat
      BY <1>1
    <3> QED
      BY <3>1, <3>2
  <2>3. \E h \in x : \A g \in x : h <= g
    BY <2>2, LeastNumber
  <2>4. PICK h \in x : \A g \in x : h <= g
    BY <2>3
  <2>5. h + 1 \in 1 .. Len(rows) /\ h \in Nat /\ (h + 1) - 1 = h
    BY <1>1
  <2>6. pivots[h + 1] \in w
    BY <2>1, <2>4, <2>5, PivotBits
  <2>7. ASSUME NEW b \in w PROVE pivots[h + 1] <= b
    <3>1. \E g \in x : b \in rows[g + 1]
      BY <2>1 DEF Combination
    <3>2. PICK g \in x : b \in rows[g + 1]
      BY <3>1
    <3>3. g \in 0 .. Len(rows) - 1 /\ h <= g
      BY <2>4
    <3>4. g + 1 \in 1 .. Len(rows) /\ h + 1 <= g + 1 /\ g + 1 \in Nat
      BY <1>1, <3>3
    <3>5. pivots[g + 1] <= b /\ b \in Nat
      BY <1>1, <3>2, <3>4 DEF Leading
    <3>6. pivots[h + 1] <= pivots[g + 1]
      <4>1. CASE h = g
        BY <1>1, <3>4, <4>1
      <4>2. CASE h # g
        <5>1. h + 1 < g + 1
          BY <2>5, <3>3, <4>2
        <5>2. pivots[h + 1] < pivots[g + 1]
          BY <1>1, <2>5, <3>4, <5>1 DEF Leading
        <5> QED
          BY <1>1, <2>5, <3>4, <5>2
      <4> QED
        BY <4>1, <4>2
    <3> QED
      BY <1>1, <2>5, <3>4, <3>5, <3>6
  <2> QED
    BY <2>5, <2>6, <2>7 DEF LeastBit
<1> QED
  BY <1>2, <1>3

Ascends(s) ==
  /\ Len(s) \in Nat
  /\ \A i \in 1 .. Len(s) : s[i] \in Nat
  /\ \A i, j \in 1 .. Len(s) : i < j => s[i] < s[j]

Within(s, t) == \A i \in 1 .. Len(s) : \E j \in 1 .. Len(t) : s[i] = t[j]

(* Two ascending lists of the same numbers are equal.                        *)
LEMMA AscendingSame ==
  ASSUME NEW s, NEW t, Ascends(s), Ascends(t), Within(s, t), Within(t, s)
  PROVE  Len(s) <= Len(t) /\ \A i \in 1 .. Len(s) : s[i] = t[i]
<1> DEFINE Bad == {i \in 1 .. Len(s) : i > Len(t) \/ s[i] # t[i]}
<1>1. Len(s) \in Nat /\ Len(t) \in Nat
  BY DEF Ascends
<1>2. ASSUME Bad # {} PROVE FALSE
  <2>1. \E i \in Bad : \A h \in Bad : i <= h
    <3>1. Bad \subseteq Nat
      BY <1>1
    <3> HIDE DEF Bad
    <3> QED
      BY <1>2, <3>1, LeastNumber
  <2>2. PICK i \in Bad : \A h \in Bad : i <= h
    BY <2>1
  <2>3. /\ i \in 1 .. Len(s) /\ (i > Len(t) \/ s[i] # t[i])
        /\ \A h \in 1 .. Len(s) : h < i => h <= Len(t) /\ s[h] = t[h]
    BY <1>1, <2>2
  <2> HIDE DEF Bad
  <2>4. PICK j \in 1 .. Len(t) : s[i] = t[j]
    BY <2>3 DEF Within
  <2>5. CASE j < i
    <3>1. j \in 1 .. Len(s) /\ s[j] = t[j]
      BY <1>1, <2>3, <2>5
    <3>2. s[j] < s[i] /\ s[i] \in Nat
      BY <2>3, <2>5, <3>1 DEF Ascends
    <3> QED
      BY <2>4, <3>1, <3>2
  <2>6. CASE j = i
    BY <1>1, <2>3, <2>4, <2>6
  <2>7. CASE j > i
    <3>1. i \in 1 .. Len(t) /\ t[i] < t[j] /\ t[i] \in Nat /\ t[j] \in Nat
      <4>1. i \in 1 .. Len(t)
        BY <1>1, <2>3, <2>7
      <4> QED
        BY <2>7, <4>1 DEF Ascends
    <3>2. PICK h \in 1 .. Len(s) : t[i] = s[h]
      BY <3>1 DEF Within
    <3>3. CASE h < i
      <4>1. h \in 1 .. Len(t) /\ s[h] = t[h]
        BY <1>1, <2>3, <3>3
      <4>2. t[h] < t[i]
        BY <3>1, <3>3, <4>1 DEF Ascends
      <4> QED
        BY <3>1, <3>2, <4>1, <4>2
    <3>4. CASE h = i
      BY <2>4, <3>1, <3>2, <3>4
    <3>5. CASE h > i
      <4>1. s[i] < s[h]
        BY <2>3, <3>5 DEF Ascends
      <4> QED
        BY <2>4, <3>1, <3>2, <4>1
    <3> QED
      BY <1>1, <2>3, <3>3, <3>4, <3>5
  <2> QED
    BY <1>1, <2>3, <2>5, <2>6, <2>7
<1>3. \A i \in 1 .. Len(s) : i <= Len(t) /\ s[i] = t[i]
  BY <1>1, <1>2
<1>4. Len(s) <= Len(t)
  <2>1. CASE Len(s) = 0
    BY <1>1, <2>1
  <2>2. CASE Len(s) > 0
    <3>1. Len(s) \in 1 .. Len(s)
      BY <1>1, <2>2
    <3> QED
      BY <1>3, <3>1
  <2> QED
    BY <1>1, <2>1, <2>2
<1> HIDE DEF Bad
<1> QED
  BY <1>3, <1>4

(* Every pivot of one basis is a pivot of the other.                         *)
LEMMA PivotsWithin ==
  ASSUME NEW n \in Nat, NEW rows, NEW pivots, Echelon(rows, pivots, n),
         NEW more, NEW others, Echelon(more, others, n), CodeOf(rows) = CodeOf(more)
  PROVE  Within(pivots, others)
<1> SUFFICES ASSUME NEW i \in 1 .. Len(pivots)
             PROVE  \E j \in 1 .. Len(others) : pivots[i] = others[j]
  BY DEF Within
<1>1. /\ Len(rows) \in Nat /\ Len(pivots) = Len(rows) /\ Len(others) = Len(more)
      /\ pivots[i] \in Nat /\ \A j \in 1 .. Len(others) : others[j] \in Nat
  <2>1. pivots \in Seq(0 .. n - 1) /\ others \in Seq(0 .. n - 1) /\ rows \in Seq(Bits(n))
    BY DEF Echelon
  <2>2. pivots[i] \in 0 .. n - 1 /\ \A j \in 1 .. Len(others) : others[j] \in 0 .. n - 1
    BY <2>1
  <2>3. Len(rows) \in Nat
    BY <2>1
  <2> QED
    BY <2>2, <2>3 DEF Echelon
<1>2. LeastBit(pivots[i], rows[i])
  BY <1>1, LeastBits
<1>3. rows[i] \in CodeOf(more)
  BY <1>1, CodeClosed
<1>4. rows[i] # Zero
  BY <1>2 DEF LeastBit, Zero
<1>5. \E j \in 1 .. Len(more) : LeastBit(others[j], rows[i])
  BY <1>3, <1>4, LeastBits
<1> QED
  BY <1>1, <1>2, <1>5 DEF LeastBit

(* A code has one reduced echelon basis: the rows that stand for a code in   *)
(* the tables and as a key do not depend on the basis it was built from.     *)
THEOREM EchelonUnique ==
  ASSUME NEW n \in Nat, NEW rows, NEW pivots, Echelon(rows, pivots, n),
         NEW more, NEW others, Echelon(more, others, n), CodeOf(rows) = CodeOf(more)
  PROVE  rows = more /\ pivots = others
<1>1. /\ rows \in Seq(Bits(n)) /\ more \in Seq(Bits(n))
      /\ pivots \in Seq(0 .. n - 1) /\ others \in Seq(0 .. n - 1)
      /\ Len(pivots) = Len(rows) /\ Len(others) = Len(more)
      /\ Len(rows) \in Nat /\ Len(more) \in Nat
  BY DEF Echelon
<1>2. Ascends(pivots) /\ Ascends(others)
  <2>1. \A i \in 1 .. Len(pivots) : pivots[i] \in 0 .. n - 1
    BY <1>1
  <2>2. \A i \in 1 .. Len(others) : others[i] \in 0 .. n - 1
    BY <1>1
  <2> QED
    BY <1>1, <2>1, <2>2 DEF Ascends, Echelon, Leading
<1>3. Within(pivots, others) /\ Within(others, pivots)
  BY PivotsWithin
<1>4. Len(pivots) = Len(others) /\ \A i \in 1 .. Len(pivots) : pivots[i] = others[i]
  <2>1. Len(pivots) <= Len(others) /\ \A i \in 1 .. Len(pivots) : pivots[i] = others[i]
    BY <1>2, <1>3, AscendingSame
  <2>2. Len(others) <= Len(pivots)
    BY <1>2, <1>3, AscendingSame
  <2> QED
    BY <1>1, <2>1, <2>2
<1>5. pivots = others
  <2>1. /\ pivots = [i \in 1 .. Len(pivots) |-> pivots[i]]
        /\ others = [i \in 1 .. Len(others) |-> others[i]]
    BY <1>1
  <2> QED
    BY <1>4, <2>1
<1>6. \A i \in 1 .. Len(rows) : rows[i] = more[i]
  <2> SUFFICES ASSUME NEW i \in 1 .. Len(rows) PROVE rows[i] = more[i]
    OBVIOUS
  <2> DEFINE w == Xor(rows[i], more[i])
  <2>1. rows[i] \in CodeOf(rows) /\ more[i] \in CodeOf(rows)
    <3>1. i \in 1 .. Len(more)
      BY <1>1, <1>4
    <3>2. rows[i] \in CodeOf(rows)
      BY <1>1, CodeClosed
    <3>3. more[i] \in CodeOf(more)
      BY <1>1, <3>1, CodeClosed
    <3> QED
      BY <3>2, <3>3
  <2>2. w \in CodeOf(rows)
    BY <1>1, <2>1, CodeClosed
  <2>3. \A j \in 1 .. Len(rows) : pivots[j] \notin w
    <3>1. \A j \in 1 .. Len(rows) : (pivots[j] \in rows[i] <=> j = i) /\ (pivots[j] \in more[i] <=> j = i)
      BY <1>1, <1>4, <1>5 DEF Echelon, Leading
    <3> QED
      BY <3>1 DEF Xor, SymDiff
  <2>4. w = Zero
    <3> HIDE DEF w
    <3> QED
      BY <2>2, <2>3, LeastBits DEF LeastBit
  <2> QED
    BY <2>4 DEF Xor, SymDiff, Zero
<1>7. rows = more
  <2>1. Len(rows) = Len(more)
    BY <1>1, <1>4
  <2>2. /\ rows = [i \in 1 .. Len(rows) |-> rows[i]]
        /\ more = [i \in 1 .. Len(more) |-> more[i]]
    BY <1>1
  <2> QED
    BY <1>6, <2>1, <2>2
<1> QED
  BY <1>5, <1>7

(* Whatever rows a code is given by, `row_reduce` returns the same.          *)
THEOREM RowReduceCanonical ==
  ASSUME NEW n \in Nat, NEW rowsIn \in Seq(Bits(n)), NEW others \in Seq(Bits(n)),
         CodeOf(rowsIn) = CodeOf(others)
  PROVE  /\ RowReduce(rowsIn, n).rref = RowReduce(others, n).rref
         /\ RowReduce(rowsIn, n).pivots = RowReduce(others, n).pivots
<1> DEFINE R == RowReduce(rowsIn, n)
           T == RowReduce(others, n)
<1>1. Echelon(R.rref, R.pivots, n) /\ CodeOf(R.rref) = CodeOf(rowsIn)
  BY RowReduceCorrect
<1>2. Echelon(T.rref, T.pivots, n) /\ CodeOf(T.rref) = CodeOf(others)
  BY RowReduceCorrect
<1> HIDE DEF R, T
<1>3. R.rref = T.rref /\ R.pivots = T.pivots
  BY <1>1, <1>2, EchelonUnique
<1> QED
  BY <1>3 DEF R, T

-----------------------------------------------------------------------------
(* Direct sums.                                                              *)

(***************************************************************************)
(* What decomp.rs uses of `row_reduce`: the words are closed under sums,   *)
(* the rows are words with one pivot each, and every word leads at a       *)
(* pivot, so only zero avoids them all.                                    *)
(***************************************************************************)
IsReduced(rows, pivots, words) ==
  /\ \A u, v \in words : Xor(u, v) \in words
  /\ rows \subseteq words
  /\ \A r \in rows : \E p : r \cap pivots = {p}
  /\ \A w \in words : w \cap pivots = {} => w = Zero

(* It is what `row_reduce` returns, whatever rows it is given.               *)
THEOREM ReducedRows ==
  ASSUME NEW n \in Nat, NEW rowsIn \in Seq(Bits(n))
  PROVE  IsReduced(ToSet(RowReduce(rowsIn, n).rref), ToSet(RowReduce(rowsIn, n).pivots), CodeOf(rowsIn))
<1> DEFINE R == RowReduce(rowsIn, n)
           rows == R.rref
           piv == R.pivots
           words == CodeOf(rowsIn)
<1>1. Echelon(rows, piv, n) /\ CodeOf(rows) = words
  BY RowReduceCorrect
<1> HIDE DEF rows, piv, words
<1>2. /\ rows \in Seq(Bits(n)) /\ Len(piv) = Len(rows) /\ Leading(rows, piv, Len(rows))
      /\ piv \in Seq(0 .. n - 1)
  BY <1>1 DEF Echelon
<1>3. /\ Len(rows) \in Nat
      /\ ToSet(rows) = {rows[i] : i \in 1 .. Len(rows)} /\ ToSet(piv) = {piv[i] : i \in 1 .. Len(rows)}
  <2>1. Len(rows) \in Nat /\ DOMAIN rows = 1 .. Len(rows) /\ DOMAIN piv = 1 .. Len(rows)
    BY <1>2
  <2> QED
    BY <2>1 DEF ToSet
<1>4. \A u, v \in words : Xor(u, v) \in words
  BY <1>1, <1>3, CodeClosed
<1>5. ToSet(rows) \subseteq words
  BY <1>1, <1>3, CodeClosed
<1>6. ASSUME NEW r \in ToSet(rows) PROVE \E p : r \cap ToSet(piv) = {p}
  <2>1. PICK i \in 1 .. Len(rows) : r = rows[i]
    BY <1>3
  <2>2. \A j \in 1 .. Len(rows) : piv[j] \in r <=> j = i
    BY <1>2, <2>1 DEF Leading
  <2>3. r \cap ToSet(piv) = {piv[i]}
    BY <1>3, <2>2
  <2> QED
    BY <2>3
<1>7. ASSUME NEW w \in words, w \cap ToSet(piv) = {} PROVE w = Zero
  <2>1. w # Zero => \E i \in 1 .. Len(rows) : LeastBit(piv[i], w)
    BY <1>1, LeastBits
  <2> QED
    BY <1>3, <1>7, <2>1 DEF LeastBit
<1>8. IsReduced(ToSet(rows), ToSet(piv), words)
  BY <1>4, <1>5, <1>6, <1>7 DEF IsReduced
<1> QED
  BY <1>8 DEF rows, piv, words

(***************************************************************************)
(* `component_sizes` joins the columns of every row: a row lies wholly     *)
(* inside or wholly outside whatever splits off, because its part inside   *)
(* and its part outside are words and only one of them has the pivot.      *)
(***************************************************************************)
THEOREM RowsStayTogether ==
  ASSUME NEW rows, NEW pivots, NEW words, IsReduced(rows, pivots, words),
         NEW A, SplitsOff(A, words), NEW r \in rows
  PROVE  r \subseteq A \/ r \cap A = {}
<1>1. r \in words /\ r \cap A \in words
  BY DEF IsReduced, SplitsOff
<1>2. Xor(r, r \cap A) = r \ A
  BY DEF Xor, SymDiff
<1>3. r \ A \in words
  BY <1>1, <1>2 DEF IsReduced
<1>4. PICK p : r \cap pivots = {p}
  BY DEF IsReduced
<1>5. CASE p \in A
  <2>1. (r \ A) \cap pivots = {}
    BY <1>4, <1>5
  <2>2. r \ A = Zero
    BY <1>3, <2>1 DEF IsReduced
  <2> QED
    BY <2>2 DEF Zero
<1>6. CASE p \notin A
  <2>1. (r \cap A) \cap pivots = {}
    BY <1>4, <1>6
  <2>2. r \cap A = Zero
    BY <1>1, <2>1 DEF IsReduced
  <2> QED
    BY <2>2 DEF Zero
<1> QED
  BY <1>5, <1>6

(* A class of columns that a cut does not tear. *)
OnOneSide(c, A) == c \subseteq A \/ c \cap A = {}

(***************************************************************************)
(* No step of the union-find joins across a direct sum: if every class is  *)
(* on one side of A, it is so after two columns of a row have been joined. *)
(***************************************************************************)
THEOREM JoinRespectsSummands ==
  ASSUME NEW rows, NEW pivots, NEW words, IsReduced(rows, pivots, words),
         NEW A, SplitsOff(A, words), NEW r \in rows,
         NEW i \in r, NEW j \in r, NEW classes,
         \E c \in classes : i \in c, \E c \in classes : j \in c,
         \A c \in classes : OnOneSide(c, A)
  PROVE  \A c \in Joined(classes, i, j) : OnOneSide(c, A)
<1>1. Of(classes, i) \in classes /\ i \in Of(classes, i)
  BY DEF Of
<1>2. Of(classes, j) \in classes /\ j \in Of(classes, j)
  BY DEF Of
<1>3. OnOneSide(r, A)
  BY RowsStayTogether DEF OnOneSide
<1>4. OnOneSide(Of(classes, i), A) /\ OnOneSide(Of(classes, j), A)
  BY <1>1, <1>2
<1>5. i \in A <=> j \in A
  BY <1>3 DEF OnOneSide
<1>6. OnOneSide(Of(classes, i) \cup Of(classes, j), A)
  BY <1>1, <1>2, <1>4, <1>5 DEF OnOneSide
<1> QED
  BY <1>6 DEF Joined

-----------------------------------------------------------------------------
(* The span of words.                                                        *)

(* What a fold that adds words one by one gives.                             *)
IsSpan(g, S) ==
  g = [s \in SUBSET S |-> IF s = {} THEN {Zero}
                          ELSE LET spanned == g[s \ {Picked(s)}]
                               IN spanned \cup {Xor(u, Picked(s)) : u \in spanned}]

LEMMA SpanExists ==
  ASSUME NEW S, IsFiniteSet(S)
  PROVE  \E g : IsSpan(g, S)
<1> DEFINE V == SUBSET SUBSET UNION S
           op == [a \in S \X V |-> a[2] \cup {Xor(u, a[1]) : u \in a[2]}]
           p == [s \in SUBSET S |-> Picked(s)]
<1>1. {Zero} \in V
  BY DEF Zero
<1>2. \A x \in S, b \in V : b \cup {Xor(u, x) : u \in b} \in V
  <2> SUFFICES ASSUME NEW x \in S, NEW b \in V, NEW u \in b PROVE Xor(u, x) \in SUBSET UNION S
    OBVIOUS
  <2> QED
    BY DEF Xor, SymDiff
<1>3. \A s \in SUBSET S : s # {} => p[s] = Picked(s) /\ Picked(s) \in s
  BY DEF Picked
<1> HIDE DEF V
<1>4. op \in [S \X V -> V] /\ \A x \in S, b \in V : op[x, b] = b \cup {Xor(u, x) : u \in b}
  BY <1>2
<1> HIDE DEF op, p
<1>5. Foldable(op, {Zero}, p, S, V)
  BY <1>1, <1>3, <1>4 DEF Foldable
<1>6. PICK g \in [SUBSET S -> V] : IsFold(op, {Zero}, p, g, S)
  BY <1>5, FoldExists
<1>7. ASSUME NEW s \in SUBSET S
      PROVE  g[s] = IF s = {} THEN {Zero}
                    ELSE LET spanned == g[s \ {Picked(s)}]
                         IN spanned \cup {Xor(u, Picked(s)) : u \in spanned}
  <2>1. CASE s = {}
    BY <1>6, <2>1 DEF IsFold, FoldAt
  <2>2. CASE s # {}
    <3>1. g[s] = op[Picked(s), g[s \ {Picked(s)}]]
      BY <1>3, <1>6, <2>2 DEF IsFold, FoldAt
    <3>2. Picked(s) \in S /\ g[s \ {Picked(s)}] \in V
      BY <1>3, <2>2
    <3> QED
      BY <1>4, <2>2, <3>1, <3>2
  <2> QED
    BY <2>1, <2>2
<1>8. IsSpan(g, S)
  BY <1>7 DEF IsSpan
<1> QED
  BY <1>8

(* The span of S is the least code that holds S.                             *)
LEMMA SpanFacts ==
  ASSUME NEW S, IsFiniteSet(S)
  PROVE  /\ Zero \in Span(S) /\ S \subseteq Span(S)
         /\ \A u, v \in Span(S) : Xor(u, v) \in Span(S)
         /\ \A C : Zero \in C /\ S \subseteq C /\ (\A u, v \in C : Xor(u, v) \in C) => Span(S) \subseteq C
<1> DEFINE g == CHOOSE g : IsSpan(g, S)
<1>1. Span(S) = g[S]
  BY DEF Span, FoldSet, MapThenFoldSet, IsSpan, Picked
<1>2. IsSpan(g, S)
  BY SpanExists
<1> HIDE DEF g
<1>3. g[{}] = {Zero}
  BY <1>2 DEF IsSpan
<1>4. \A s \in SUBSET S : s # {} =>
        /\ Picked(s) \in s /\ s \ {Picked(s)} \in SUBSET S
        /\ g[s] = g[s \ {Picked(s)}] \cup {Xor(u, Picked(s)) : u \in g[s \ {Picked(s)}]}
  BY <1>2 DEF IsSpan, Picked
<1> DEFINE Closed(C) == \A u, v \in C : Xor(u, v) \in C
           Right(s) == /\ Zero \in g[s] /\ s \subseteq g[s] /\ Closed(g[s])
                       /\ \A C : Zero \in C /\ s \subseteq C /\ Closed(C) => g[s] \subseteq C
           Good == {s \in SUBSET S : Right(s)}
<1>5. Right({})
  <2>1. Xor(Zero, Zero) = Zero
    BY XorFacts
  <2> QED
    BY <1>3, <2>1
<1>6. ASSUME NEW s \in SUBSET S, s # {}, Right(s \ {Picked(s)})
      PROVE  Right(s)
  <2> DEFINE x == Picked(s)
             b == g[s \ {x}]
  <2>1. x \in s /\ g[s] = b \cup {Xor(u, x) : u \in b} /\ Zero \in b /\ s \ {x} \subseteq b /\ Closed(b)
    BY <1>4, <1>6
  <2>2. \A C : Zero \in C /\ s \ {x} \subseteq C /\ Closed(C) => b \subseteq C
    BY <1>6
  <2> HIDE DEF x, b
  <2>3. Xor(Zero, x) = x
    BY XorFacts
  <2>4. s \subseteq g[s] /\ Zero \in g[s]
    BY <2>1, <2>3
  <2>5. ASSUME NEW u \in g[s], NEW v \in g[s] PROVE Xor(u, v) \in g[s]
    <3>1. \E w \in b : u = w \/ u = Xor(w, x)
      BY <2>1
    <3>2. \E w \in b : v = w \/ v = Xor(w, x)
      BY <2>1
    <3>3. PICK w \in b : u = w \/ u = Xor(w, x)
      BY <3>1
    <3>4. PICK z \in b : v = z \/ v = Xor(z, x)
      BY <3>2
    <3>5. Xor(w, z) \in b /\ Xor(Xor(w, z), x) \in g[s] /\ Xor(w, z) \in g[s]
      BY <2>1
    <3>6. Xor(Xor(w, x), z) = Xor(Xor(w, z), x) /\ Xor(w, Xor(z, x)) = Xor(Xor(w, z), x)
          /\ Xor(Xor(w, x), Xor(z, x)) = Xor(w, z)
      BY DEF Xor, SymDiff
    <3> QED
      BY <3>3, <3>4, <3>5, <3>6
  <2>6. ASSUME NEW C, Zero \in C, s \subseteq C, Closed(C) PROVE g[s] \subseteq C
    <3>1. b \subseteq C
      BY <2>2, <2>6
    <3>2. x \in C
      BY <2>1, <2>6
    <3> QED
      BY <2>1, <2>6, <3>1, <3>2
  <2> QED
    BY <2>4, <2>5, <2>6
<1>7. S \in Good
  <2>1. Good \subseteq SUBSET S /\ {} \in Good
    BY <1>5
  <2>2. \A s \in SUBSET S : s # {} /\ s \ {Picked(s)} \in Good => s \in Good
    BY <1>6
  <2> HIDE DEF Good
  <2> QED
    BY <2>1, <2>2, PickedInduction
<1>8. Right(S)
  BY <1>7
<1> QED
  BY <1>1, <1>8

(* The span of a basis is its code.                                          *)
LEMMA SpanIsCode ==
  ASSUME NEW n \in Nat, NEW rows \in Seq(Bits(n))
  PROVE  Span(ToSet(rows)) = CodeOf(rows)
<1> DEFINE S == ToSet(rows)
           C == CodeOf(rows)
<1>1. Len(rows) \in Nat /\ DOMAIN rows = 1 .. Len(rows)
  OBVIOUS
<1>2. S = {rows[i] : i \in 1 .. Len(rows)}
  BY <1>1 DEF ToSet
<1>3. IsFiniteSet(S)
  <2>1. IsFiniteSet(SUBSET (0 .. n - 1))
    BY CoordinatesFinite, FS_SUBSET
  <2>2. S \subseteq SUBSET (0 .. n - 1)
    BY <1>2 DEF Bits
  <2> HIDE DEF S
  <2> QED
    BY <2>1, <2>2, FS_Subset
<1>4. Zero \in C /\ S \subseteq C /\ \A u, v \in C : Xor(u, v) \in C
  BY <1>1, <1>2, CodeClosed
<1> HIDE DEF C, S
<1>5. Span(S) \subseteq C
  BY <1>3, <1>4, SpanFacts
<1>6. Zero \in Span(S) /\ \A s \in Span(S) : \A i \in 1 .. Len(rows) : Xor(s, rows[i]) \in Span(S)
  BY <1>2, <1>3, SpanFacts
<1>7. C \subseteq Span(S)
  BY <1>1, <1>6, CodeLeast DEF C
<1> QED
  BY <1>5, <1>7 DEF C, S

-----------------------------------------------------------------------------
(* The union-find as a whole.                                                *)

(* The columns in classes, none of which a direct sum of the code cuts.      *)
ColumnClasses(classes, n) ==
  /\ \A c \in classes : c # {} /\ c \subseteq 0 .. n - 1
  /\ \A j \in 0 .. n - 1 : \E c \in classes : j \in c
  /\ \A c, d \in classes : c \cap d # {} => c = d

Uncut(n, words) ==
  {classes \in SUBSET SUBSET (0 .. n - 1) :
     ColumnClasses(classes, n) /\ \A A : SplitsOff(A, words) => \A c \in classes : OnOneSide(c, A)}

(* Columns that are in one class stay so.                                    *)
Coarser(after, before) == \A c \in before : \E d \in after : c \subseteq d

(* A row of a reduced basis, of length n.                                    *)
RowOf(n, rows, pivots, words, r) == IsReduced(rows, pivots, words) /\ r \in rows /\ r \subseteq 0 .. n - 1

LEMMA JoinFacts ==
  ASSUME NEW n \in Nat, NEW rows, NEW pivots, NEW words, NEW r, RowOf(n, rows, pivots, words, r),
         NEW classes \in Uncut(n, words),
         NEW i \in r, NEW j \in r
  PROVE  LET after == Joined(classes, i, j)
         IN /\ after \in Uncut(n, words) /\ Coarser(after, classes)
            /\ \E d \in after : i \in d /\ j \in d
<1> DEFINE a == Of(classes, i)
           b == Of(classes, j)
           after == Joined(classes, i, j)
<1>1. /\ classes \in SUBSET SUBSET (0 .. n - 1) /\ ColumnClasses(classes, n)
      /\ \A A : SplitsOff(A, words) => \A c \in classes : OnOneSide(c, A)
  BY DEF Uncut
<1>2. (\E c \in classes : i \in c) /\ (\E c \in classes : j \in c)
  BY <1>1 DEF ColumnClasses, RowOf
<1>3. a \in classes /\ i \in a /\ b \in classes /\ j \in b
  BY <1>2 DEF Of
<1>4. after = (classes \ {a, b}) \cup {a \cup b}
  BY DEF Joined
<1>5. \A A : SplitsOff(A, words) => \A c \in after : OnOneSide(c, A)
  <2> HIDE DEF after, a, b
  <2> QED
    BY <1>1, <1>2, JoinRespectsSummands DEF after, RowOf
<1> HIDE DEF after, a, b
<1>6. ColumnClasses(after, n)
  <2>1. \A c \in after : c # {} /\ c \subseteq 0 .. n - 1
    BY <1>1, <1>3, <1>4 DEF ColumnClasses
  <2>2. ASSUME NEW x \in 0 .. n - 1 PROVE \E c \in after : x \in c
    <3>1. PICK c \in classes : x \in c
      BY <1>1 DEF ColumnClasses
    <3>2. CASE c \in {a, b}
      BY <1>4, <3>1, <3>2
    <3>3. CASE c \notin {a, b}
      BY <1>4, <3>1, <3>3
    <3> QED
      BY <3>2, <3>3
  <2>3. ASSUME NEW c \in after, NEW d \in after, c \cap d # {} PROVE c = d
    <3>1. \A x, y \in classes : x \cap y # {} => x = y
      BY <1>1 DEF ColumnClasses
    <3>2. \A x \in classes \ {a, b} : x \cap (a \cup b) = {}
      <4> SUFFICES ASSUME NEW x \in classes \ {a, b}, x \cap (a \cup b) # {} PROVE FALSE
        OBVIOUS
      <4>1. x \cap a # {} \/ x \cap b # {}
        OBVIOUS
      <4> QED
        BY <1>3, <3>1, <4>1
    <3>3. CASE c \in classes \ {a, b} /\ d \in classes \ {a, b}
      BY <2>3, <3>1, <3>3
    <3>4. CASE c \in classes \ {a, b} /\ d = a \cup b
      BY <2>3, <3>2, <3>4
    <3>5. CASE c = a \cup b /\ d \in classes \ {a, b}
      <4>1. d \cap c = c \cap d
        OBVIOUS
      <4> QED
        BY <2>3, <3>2, <3>5, <4>1
    <3> QED
      BY <1>4, <3>3, <3>4, <3>5
  <2> QED
    BY <2>1, <2>2, <2>3 DEF ColumnClasses
<1>7. Coarser(after, classes)
  <2> SUFFICES ASSUME NEW c \in classes PROVE \E d \in after : c \subseteq d
    BY DEF Coarser
  <2>1. CASE c \in {a, b}
    <3>1. c \subseteq a \cup b /\ a \cup b \in after
      BY <1>4, <2>1
    <3> QED
      BY <3>1
  <2>2. CASE c \notin {a, b}
    BY <1>4, <2>2
  <2> QED
    BY <2>1, <2>2
<1>8. \E d \in after : i \in d /\ j \in d
  BY <1>3, <1>4
<1>9. after \in SUBSET SUBSET (0 .. n - 1)
  BY <1>6 DEF ColumnClasses
<1> QED
  BY <1>5, <1>6, <1>7, <1>8, <1>9 DEF Uncut, after

LEMMA CoarserChain ==
  ASSUME NEW a, NEW b, NEW c, Coarser(b, a), Coarser(c, b)
  PROVE  Coarser(c, a)
BY DEF Coarser

LEMMA CoarserSelf == \A a : Coarser(a, a)
BY DEF Coarser

(* The loop over the columns of a row, in whatever order it takes them.      *)
JoinedAll(classes, m, S) == FoldSet(LAMBDA j, joined : Joined(joined, m, j), classes, S)

IsJoining(g, classes, m, S) ==
  g = [s \in SUBSET S |-> IF s = {} THEN classes ELSE Joined(g[s \ {Picked(s)}], m, Picked(s))]

HasJoining(classes, m, S) == \E g : IsJoining(g, classes, m, S)

LEMMA JoiningExists ==
  ASSUME NEW n \in Nat, NEW rows, NEW pivots, NEW words, NEW r, RowOf(n, rows, pivots, words, r),
         NEW classes \in Uncut(n, words),
         NEW m \in r, NEW S, S \subseteq r
  PROVE  HasJoining(classes, m, S)
<1> DEFINE V == Uncut(n, words)
           op == [a \in S \X V |-> Joined(a[2], m, a[1])]
           p == [s \in SUBSET S |-> Picked(s)]
<1>1. \A x \in S, b \in V : Joined(b, m, x) \in V
  BY JoinFacts
<1>2. IsFiniteSet(S)
  BY CoordinatesFinite, FS_Subset DEF RowOf
<1>3. \A s \in SUBSET S : s # {} => p[s] = Picked(s) /\ Picked(s) \in s
  BY DEF Picked
<1> HIDE DEF V
<1>4. op \in [S \X V -> V] /\ \A x \in S, b \in V : op[x, b] = Joined(b, m, x)
  BY <1>1
<1> HIDE DEF op, p
<1>5. Foldable(op, classes, p, S, V)
  BY <1>2, <1>3, <1>4 DEF Foldable, V
<1>6. PICK g \in [SUBSET S -> V] : IsFold(op, classes, p, g, S)
  BY <1>5, FoldExists
<1>7. ASSUME NEW s \in SUBSET S
      PROVE  g[s] = IF s = {} THEN classes ELSE Joined(g[s \ {Picked(s)}], m, Picked(s))
  <2>1. CASE s = {}
    BY <1>6, <2>1 DEF IsFold, FoldAt
  <2>2. CASE s # {}
    <3>1. g[s] = op[Picked(s), g[s \ {Picked(s)}]]
      BY <1>3, <1>6, <2>2 DEF IsFold, FoldAt
    <3>2. Picked(s) \in S /\ g[s \ {Picked(s)}] \in V
      BY <1>3, <2>2
    <3> QED
      BY <1>4, <2>2, <3>1, <3>2
  <2> QED
    BY <2>1, <2>2
<1>8. IsJoining(g, classes, m, S)
  BY <1>7 DEF IsJoining
<1> QED
  BY <1>8 DEF HasJoining

LEMMA JoinedAllFacts ==
  ASSUME NEW n \in Nat, NEW rows, NEW pivots, NEW words, NEW r, RowOf(n, rows, pivots, words, r),
         NEW classes \in Uncut(n, words),
         NEW m \in r, NEW S, S \subseteq r
  PROVE  LET after == JoinedAll(classes, m, S)
         IN /\ after \in Uncut(n, words) /\ Coarser(after, classes)
            /\ \E d \in after : m \in d /\ S \subseteq d
<1>0. HasJoining(classes, m, S)
  BY JoiningExists
<1> DEFINE g == CHOOSE g : IsJoining(g, classes, m, S)
<1>1. JoinedAll(classes, m, S) = g[S]
  BY DEF JoinedAll, FoldSet, MapThenFoldSet, IsJoining, Picked
<1>2. IsJoining(g, classes, m, S)
  BY <1>0 DEF HasJoining
<1> HIDE DEF g
<1>3. IsFiniteSet(S)
  BY CoordinatesFinite, FS_Subset DEF RowOf
<1>4. g[{}] = classes
  BY <1>2 DEF IsJoining
<1>5. \A s \in SUBSET S : s # {} =>
        /\ Picked(s) \in s /\ s \ {Picked(s)} \in SUBSET S
        /\ g[s] = Joined(g[s \ {Picked(s)}], m, Picked(s))
  BY <1>2 DEF IsJoining, Picked
<1> DEFINE Right(s) == /\ g[s] \in Uncut(n, words) /\ Coarser(g[s], classes)
                       /\ \E d \in g[s] : m \in d /\ s \subseteq d
           Good == {s \in SUBSET S : Right(s)}
<1>6. Right({})
  <2>1. \E d \in classes : m \in d
    BY DEF Uncut, ColumnClasses, RowOf
  <2> QED
    BY <1>4, <2>1, CoarserSelf
<1>7. ASSUME NEW s \in SUBSET S, s # {}, Right(s \ {Picked(s)})
      PROVE  Right(s)
  <2> DEFINE x == Picked(s)
             b == g[s \ {x}]
  <2>1. x \in s /\ x \in r /\ g[s] = Joined(b, m, x)
    BY <1>5, <1>7
  <2>2. b \in Uncut(n, words) /\ Coarser(b, classes) /\ \E d \in b : m \in d /\ s \ {x} \subseteq d
    BY <1>7
  <2> HIDE DEF x, b
  <2>3. g[s] \in Uncut(n, words) /\ Coarser(g[s], b) /\ \E d \in g[s] : m \in d /\ x \in d
    BY <2>1, <2>2, JoinFacts
  <2>4. PICK c \in b : m \in c /\ s \ {x} \subseteq c
    BY <2>2
  <2>5. PICK d \in g[s] : c \subseteq d
    BY <2>3 DEF Coarser
  <2>6. PICK e \in g[s] : m \in e /\ x \in e
    BY <2>3
  <2>7. d = e
    BY <2>3, <2>4, <2>5, <2>6 DEF Uncut, ColumnClasses
  <2>8. m \in d /\ s \subseteq d
    BY <2>4, <2>5, <2>6, <2>7
  <2> QED
    BY <2>2, <2>3, <2>8, CoarserChain
<1>8. S \in Good
  <2>1. Good \subseteq SUBSET S /\ {} \in Good
    BY <1>6
  <2>2. \A s \in SUBSET S : s # {} /\ s \ {Picked(s)} \in Good => s \in Good
    BY <1>7
  <2> HIDE DEF Good
  <2> QED
    BY <1>3, <2>1, <2>2, PickedInduction
<1>9. Right(S)
  BY <1>8
<1> QED
  BY <1>1, <1>9

(* A whole row.                                                              *)
OfRow(classes, row) == JoinedAll(classes, Min(row), row \ {Min(row)})

LEMMA OfRowFacts ==
  ASSUME NEW n \in Nat, NEW rows, NEW pivots, NEW words, NEW r, RowOf(n, rows, pivots, words, r),
         NEW classes \in Uncut(n, words)
  PROVE  LET after == OfRow(classes, r)
         IN /\ after \in Uncut(n, words) /\ Coarser(after, classes)
            /\ \E d \in after : r \subseteq d
<1>1. r # {}
  BY DEF IsReduced, RowOf
<1>2. r \subseteq Nat
  BY DEF RowOf
<1>3. \E x \in r : \A y \in r : x <= y
  BY <1>1, <1>2, LeastNumber
<1>4. Min(r) \in r
  BY <1>3 DEF Min
<1> DEFINE S == r \ {Min(r)}
           after == JoinedAll(classes, Min(r), S)
<1>5. S \subseteq r
  OBVIOUS
<1>6. /\ after \in Uncut(n, words) /\ Coarser(after, classes)
      /\ \E d \in after : Min(r) \in d /\ S \subseteq d
  <2> HIDE DEF S
  <2> QED
    BY <1>4, <1>5, JoinedAllFacts
<1> HIDE DEF after
<1> QED
  BY <1>6 DEF OfRow, after

(* The loop over the rows, from the first to the last.                       *)
Singles(n) == {{j} : j \in 0 .. n - 1}

IsConnecting(g, D, n, S) ==
  g = [s \in SUBSET S |-> IF s = {} THEN Singles(n) ELSE OfRow(g[s \ {Max(s)}], D[Max(s)])]

HasConnecting(D, n, S) == \E g : IsConnecting(g, D, n, S)

(* Rows of a reduced basis, of length n.                                     *)
RowsOf(n, D, pivots, words) ==
  /\ n \in Nat /\ Len(D) \in Nat /\ DOMAIN D = 1 .. Len(D)
  /\ \A i \in 1 .. Len(D) : RowOf(n, ToSet(D), pivots, words, D[i])

LEMMA SinglesUncut ==
  ASSUME NEW n \in Nat, NEW words
  PROVE  Singles(n) \in Uncut(n, words)
<1>1. Singles(n) \in SUBSET SUBSET (0 .. n - 1)
  BY DEF Singles
<1>2. ColumnClasses(Singles(n), n)
  BY DEF ColumnClasses, Singles
<1>3. \A A : \A c \in Singles(n) : OnOneSide(c, A)
  BY DEF Singles, OnOneSide
<1> QED
  BY <1>1, <1>2, <1>3 DEF Uncut

LEMMA LastOf ==
  ASSUME NEW k \in Nat, NEW s, s \subseteq 1 .. k, s # {}
  PROVE  Max(s) \in s
<1>1. s \subseteq 0 .. k
  OBVIOUS
<1> QED
  BY <1>1, GreatestNumber

LEMMA ConnectingExists ==
  ASSUME NEW n, NEW D, NEW pivots, NEW words, RowsOf(n, D, pivots, words)
  PROVE  HasConnecting(D, n, 1 .. Len(D))
<1> DEFINE V == Uncut(n, words)
           S == 1 .. Len(D)
           op == [a \in S \X V |-> OfRow(a[2], D[a[1]])]
           p == [s \in SUBSET S |-> Max(s)]
           base == Singles(n)
<1>1. n \in Nat /\ Len(D) \in Nat /\ IsFiniteSet(S)
  <2>1. Len(D) \in Nat /\ n \in Nat
    BY DEF RowsOf
  <2> QED
    BY <2>1, FS_Interval
<1>2. \A x \in S, b \in V : OfRow(b, D[x]) \in V
  <2> SUFFICES ASSUME NEW x \in S, NEW b \in V PROVE OfRow(b, D[x]) \in V
    OBVIOUS
  <2>1. RowOf(n, ToSet(D), pivots, words, D[x])
    BY DEF RowsOf
  <2> QED
    BY <1>1, <2>1, OfRowFacts
<1>3. \A s \in SUBSET S : s # {} => p[s] = Max(s) /\ Max(s) \in s
  BY <1>1, LastOf
<1>4. base \in V
  BY <1>1, SinglesUncut
<1> HIDE DEF V, S, base
<1>5. op \in [S \X V -> V] /\ \A x \in S, b \in V : op[x, b] = OfRow(b, D[x])
  BY <1>2
<1> HIDE DEF op, p
<1>6. Foldable(op, base, p, S, V)
  BY <1>1, <1>3, <1>4, <1>5 DEF Foldable
<1>7. PICK g \in [SUBSET S -> V] : IsFold(op, base, p, g, S)
  BY <1>6, FoldExists
<1>8. ASSUME NEW s \in SUBSET S
      PROVE  g[s] = IF s = {} THEN base ELSE OfRow(g[s \ {Max(s)}], D[Max(s)])
  <2>1. CASE s = {}
    BY <1>7, <2>1 DEF IsFold, FoldAt
  <2>2. CASE s # {}
    <3>1. g[s] = op[Max(s), g[s \ {Max(s)}]]
      BY <1>3, <1>7, <2>2 DEF IsFold, FoldAt
    <3>2. Max(s) \in S /\ g[s \ {Max(s)}] \in V
      BY <1>3, <2>2
    <3> QED
      BY <1>5, <2>2, <3>1, <3>2
  <2> QED
    BY <2>1, <2>2
<1>9. IsConnecting(g, D, n, S)
  BY <1>8 DEF IsConnecting, base
<1> QED
  BY <1>9 DEF HasConnecting, S

(* Its classes: no direct sum cuts them, and they do not cut any row.        *)
LEMMA ConnectedFacts ==
  ASSUME NEW n, NEW D, NEW pivots, NEW words, RowsOf(n, D, pivots, words)
  PROVE  /\ Connected(D, n) \in Uncut(n, words)
         /\ \A i \in 1 .. Len(D) : \E d \in Connected(D, n) : D[i] \subseteq d
<1> DEFINE S == 1 .. Len(D)
<1>0. HasConnecting(D, n, S)
  BY ConnectingExists
<1> DEFINE g == CHOOSE g : IsConnecting(g, D, n, S)
<1>1. Connected(D, n) = g[S]
  <2>1. DOMAIN D = S
    BY DEF RowsOf
  <2> HIDE DEF S
  <2> QED
    BY <2>1 DEF Connected, FoldLeft, MapThenFoldSet, IsConnecting, OfRow, JoinedAll, FoldSet, Singles
<1>2. IsConnecting(g, D, n, S)
  BY <1>0 DEF HasConnecting
<1> HIDE DEF g
<1>3. n \in Nat /\ Len(D) \in Nat /\ IsFiniteSet(S)
  <2>1. Len(D) \in Nat /\ n \in Nat
    BY DEF RowsOf
  <2> QED
    BY <2>1, FS_Interval
<1>4. g[{}] = Singles(n)
  BY <1>2 DEF IsConnecting
<1>5. \A s \in SUBSET S : s # {} =>
        /\ Max(s) \in s /\ s \ {Max(s)} \in SUBSET S
        /\ g[s] = OfRow(g[s \ {Max(s)}], D[Max(s)])
  <2>1. \A s \in SUBSET S : s # {} => Max(s) \in s
    BY <1>3, LastOf
  <2> HIDE DEF S
  <2> QED
    BY <1>2, <2>1 DEF IsConnecting
<1> DEFINE Right(s) == /\ g[s] \in Uncut(n, words)
                       /\ \A i \in s : \E d \in g[s] : D[i] \subseteq d
           Good == {k \in 0 .. Len(D) : Right(1 .. k)}
<1>6. 0 \in Good
  <2>1. 1 .. 0 = {} /\ 0 \in 0 .. Len(D)
    BY <1>3
  <2>2. Singles(n) \in Uncut(n, words)
    BY <1>3, SinglesUncut
  <2> QED
    BY <1>4, <2>1, <2>2
<1>7. ASSUME NEW k \in 0 .. Len(D), k > 0, k - 1 \in Good
      PROVE  k \in Good
  <2> DEFINE s == 1 .. k
             b == g[1 .. k - 1]
             r == D[k]
  <2>1. s \in SUBSET S /\ s # {} /\ k \in s /\ k \in S
    <3>1. k \in Nat /\ k >= 1 /\ k <= Len(D)
      BY <1>3, <1>7
    <3>2. k \in s /\ k \in S
      BY <1>3, <3>1
    <3>3. \A i \in s : i \in S
      BY <1>3, <3>1
    <3> QED
      BY <3>2, <3>3
  <2>2. Max(s) = k
    <3>1. s \subseteq 0 .. k /\ k \in Nat
      BY <1>3
    <3>2. Max(s) \in s /\ \A x \in s : x <= Max(s)
      <4> HIDE DEF s
      <4> QED
        BY <2>1, <3>1, GreatestNumber
    <3> QED
      BY <2>1, <3>1, <3>2
  <2>3. s \ {k} = 1 .. k - 1
    BY <1>3
  <2>4. g[s] = OfRow(b, r)
    <3> HIDE DEF s, S
    <3> QED
      BY <1>5, <2>1, <2>2, <2>3
  <2>5. b \in Uncut(n, words) /\ \A i \in 1 .. k - 1 : \E d \in b : D[i] \subseteq d
    BY <1>7
  <2>6. RowOf(n, ToSet(D), pivots, words, r)
    BY <2>1 DEF RowsOf
  <2> HIDE DEF b, r
  <2>7. g[s] \in Uncut(n, words) /\ Coarser(g[s], b) /\ \E d \in g[s] : r \subseteq d
    BY <1>3, <2>4, <2>5, <2>6, OfRowFacts
  <2>8. ASSUME NEW i \in s PROVE \E d \in g[s] : D[i] \subseteq d
    <3>1. i = k \/ i \in 1 .. k - 1
      BY <1>3
    <3>2. CASE i = k
      BY <2>7, <3>2 DEF r
    <3>3. CASE i \in 1 .. k - 1
      <4>1. PICK c \in b : D[i] \subseteq c
        BY <2>5, <3>3
      <4>2. PICK d \in g[s] : c \subseteq d
        BY <2>7 DEF Coarser
      <4> QED
        BY <4>1, <4>2
    <3> QED
      BY <3>1, <3>2, <3>3
  <2> QED
    BY <2>7, <2>8
<1>8. Len(D) \in Good
  <2>1. Good \subseteq 0 .. Len(D) /\ 0 \in Nat /\ 0 <= Len(D)
    BY <1>3
  <2>2. \A k \in 0 .. Len(D) : k > 0 /\ k - 1 \in Good => k \in Good
    BY <1>7
  <2> HIDE DEF Good
  <2>3. 0 .. Len(D) \subseteq Good
    BY <1>3, <1>6, <2>1, <2>2, RangeInduction
  <2> QED
    BY <1>3, <2>3
<1> QED
  BY <1>1, <1>8

(* What `Structure` takes unions of.                                         *)
IsUnions(g, S) ==
  g = [s \in SUBSET S |-> IF s = {} THEN {{}}
                          ELSE LET joined == g[s \ {Picked(s)}]
                               IN joined \cup {Picked(s) \cup u : u \in joined}]

AllUnions(S) == FoldSet(LAMBDA w, joined : joined \cup {w \cup u : u \in joined}, {{}}, S)

LEMMA UnionsExist ==
  ASSUME NEW S, IsFiniteSet(S)
  PROVE  \E g : IsUnions(g, S)
<1> DEFINE V == SUBSET SUBSET UNION S
           op == [a \in S \X V |-> a[2] \cup {a[1] \cup u : u \in a[2]}]
           p == [s \in SUBSET S |-> Picked(s)]
<1>1. {{}} \in V
  OBVIOUS
<1>2. \A x \in S, b \in V : b \cup {x \cup u : u \in b} \in V
  OBVIOUS
<1>3. \A s \in SUBSET S : s # {} => p[s] = Picked(s) /\ Picked(s) \in s
  BY DEF Picked
<1> HIDE DEF V
<1>4. op \in [S \X V -> V] /\ \A x \in S, b \in V : op[x, b] = b \cup {x \cup u : u \in b}
  BY <1>2
<1> HIDE DEF op, p
<1>5. Foldable(op, {{}}, p, S, V)
  BY <1>1, <1>3, <1>4 DEF Foldable
<1>6. PICK g \in [SUBSET S -> V] : IsFold(op, {{}}, p, g, S)
  BY <1>5, FoldExists
<1>7. ASSUME NEW s \in SUBSET S
      PROVE  g[s] = IF s = {} THEN {{}}
                    ELSE LET joined == g[s \ {Picked(s)}]
                         IN joined \cup {Picked(s) \cup u : u \in joined}
  <2>1. CASE s = {}
    BY <1>6, <2>1 DEF IsFold, FoldAt
  <2>2. CASE s # {}
    <3>1. g[s] = op[Picked(s), g[s \ {Picked(s)}]]
      BY <1>3, <1>6, <2>2 DEF IsFold, FoldAt
    <3>2. Picked(s) \in S /\ g[s \ {Picked(s)}] \in V
      BY <1>3, <2>2
    <3> QED
      BY <1>4, <2>2, <3>1, <3>2
  <2> QED
    BY <2>1, <2>2
<1>8. IsUnions(g, S)
  BY <1>7 DEF IsUnions
<1> QED
  BY <1>8

LEMMA UnionsAre ==
  ASSUME NEW S, IsFiniteSet(S)
  PROVE  AllUnions(S) = {UNION X : X \in SUBSET S}
<1> DEFINE g == CHOOSE g : IsUnions(g, S)
<1>1. AllUnions(S) = g[S]
  BY DEF AllUnions, FoldSet, MapThenFoldSet, IsUnions, Picked
<1>2. IsUnions(g, S)
  BY UnionsExist
<1> HIDE DEF g
<1> DEFINE Right(s) == g[s] = {UNION X : X \in SUBSET s}
           Good == {s \in SUBSET S : Right(s)}
<1>3. Right({})
  <2>1. g[{}] = {{}}
    BY <1>2 DEF IsUnions
  <2>2. SUBSET {} = {{}} /\ UNION {} = {}
    OBVIOUS
  <2> QED
    BY <2>1, <2>2
<1>4. ASSUME NEW s \in SUBSET S, s # {}, Right(s \ {Picked(s)})
      PROVE  Right(s)
  <2> DEFINE x == Picked(s)
             t == s \ {x}
  <2>1. x \in s /\ t \in SUBSET S
    BY <1>4 DEF Picked
  <2>2. g[s] = g[t] \cup {x \cup u : u \in g[t]}
    BY <1>2, <1>4 DEF IsUnions
  <2>3. g[t] = {UNION X : X \in SUBSET t}
    BY <1>4
  <2> HIDE DEF x
  <2>4. ASSUME NEW X \in SUBSET s PROVE UNION X \in g[s]
    <3>1. CASE x \in X
      <4>1. X \ {x} \in SUBSET t /\ UNION X = x \cup UNION (X \ {x})
        BY <3>1
      <4>2. UNION (X \ {x}) \in g[t]
        BY <2>3, <4>1
      <4>3. x \cup UNION (X \ {x}) \in g[s]
        BY <2>2, <4>2
      <4> QED
        BY <4>1, <4>3
    <3>2. CASE x \notin X
      <4>1. X \in SUBSET t
        BY <3>2
      <4> QED
        BY <2>2, <2>3, <4>1
    <3> QED
      BY <3>1, <3>2
  <2>5. ASSUME NEW X \in SUBSET t PROVE \E Y \in SUBSET s : UNION Y = UNION X
    BY <2>5
  <2>6. ASSUME NEW X \in SUBSET t PROVE \E Y \in SUBSET s : UNION Y = x \cup UNION X
    <3>1. X \cup {x} \in SUBSET s /\ UNION (X \cup {x}) = x \cup UNION X
      BY <2>1
    <3> QED
      BY <3>1
  <2>7. ASSUME NEW y \in g[s] PROVE \E Y \in SUBSET s : UNION Y = y
    <3>1. \E X \in SUBSET t : y = UNION X \/ y = x \cup UNION X
      BY <2>2, <2>3
    <3> QED
      BY <2>5, <2>6, <3>1
  <2> QED
    BY <2>4, <2>7
<1>5. S \in Good
  <2>1. Good \subseteq SUBSET S /\ {} \in Good
    BY <1>3
  <2>2. \A s \in SUBSET S : s # {} /\ s \ {Picked(s)} \in Good => s \in Good
    BY <1>4
  <2> HIDE DEF Good
  <2> QED
    BY <2>1, <2>2, PickedInduction
<1> QED
  BY <1>1, <1>5

-----------------------------------------------------------------------------
(* What the log counts.                                                      *)

(* The components within the support, and the twins.                         *)
ComponentsOf(D, n) == {c \in Connected(D, n) : c \subseteq ColumnSupport(D)}

TwinsIn(D) ==
  LET signature == [j \in ColumnSupport(D) |-> {i \in DOMAIN D : j \in D[i]}]
      twins(j) == {i \in ColumnSupport(D) : signature[i] = signature[j]}
  IN {c \in {twins(j) : j \in ColumnSupport(D)} : Cardinality(c) >= 2}

(* And what the words of the code alone say they should be.                  *)
FinestOf(words) ==
  LET summands == Summands(words)
  IN {A \in summands : \A B \in summands : B \subseteq A => B = A}

TwinsOf(words) ==
  LET twins(j) == {i \in UNION words : \A w \in words : i \in w <=> j \in w}
  IN {c \in {twins(j) : j \in UNION words} : Cardinality(c) >= 2}

LEMMA RowsOfReduced ==
  ASSUME NEW n \in Nat, NEW rowsIn \in Seq(Bits(n))
  PROVE  LET R == RowReduce(rowsIn, n)
         IN /\ R.rref \in Seq(Bits(n)) /\ CodeOf(R.rref) = CodeOf(rowsIn)
            /\ RowsOf(n, R.rref, ToSet(R.pivots), CodeOf(rowsIn))
<1> DEFINE D == RowReduce(rowsIn, n).rref
           P == ToSet(RowReduce(rowsIn, n).pivots)
           words == CodeOf(rowsIn)
<1>1. IsReduced(ToSet(D), P, words)
  BY ReducedRows
<1>2. D \in Seq(Bits(n)) /\ CodeOf(D) = words
  BY RowReduceCorrect DEF Echelon
<1> HIDE DEF D, P, words
<1>3. Len(D) \in Nat /\ DOMAIN D = 1 .. Len(D)
  BY <1>2
<1>4. \A i \in 1 .. Len(D) : D[i] \in ToSet(D) /\ D[i] \subseteq 0 .. n - 1
  BY <1>2, <1>3 DEF ToSet, Bits
<1>5. RowsOf(n, D, P, words)
  BY <1>1, <1>3, <1>4 DEF RowsOf, RowOf
<1> QED
  BY <1>2, <1>5 DEF D, P, words

(* The columns of the words are those of the rows.                           *)
LEMMA SupportOfCode ==
  ASSUME NEW n \in Nat, NEW D \in Seq(Bits(n))
  PROVE  UNION CodeOf(D) = ColumnSupport(D)
<1>1. Len(D) \in Nat /\ DOMAIN D = 1 .. Len(D)
  OBVIOUS
<1>2. ToSet(D) = {D[i] : i \in 1 .. Len(D)}
  BY <1>1 DEF ToSet
<1> DEFINE S == SUBSET ColumnSupport(D)
<1>3. Zero \in S
  BY DEF Zero
<1>4. ASSUME NEW s \in S, NEW i \in 1 .. Len(D) PROVE Xor(s, D[i]) \in S
  <2>1. D[i] \subseteq ColumnSupport(D)
    BY <1>2 DEF ColumnSupport
  <2> QED
    BY <2>1 DEF Xor, SymDiff
<1> HIDE DEF S
<1>5. CodeOf(D) \subseteq S
  BY <1>1, <1>3, <1>4, CodeLeast
<1>6. \A i \in 1 .. Len(D) : D[i] \in CodeOf(D)
  BY <1>1, CodeClosed
<1> QED
  BY <1>2, <1>5, <1>6 DEF S, ColumnSupport

(* A class that cuts no row splits off: its part of a word is the sum of the *)
(* rows within it.                                                           *)
LEMMA ClassSplitsOff ==
  ASSUME NEW n \in Nat, NEW D \in Seq(Bits(n)), NEW A,
         \A i \in 1 .. Len(D) : OnOneSide(D[i], A)
  PROVE  SplitsOff(A, CodeOf(D))
<1> DEFINE C == CodeOf(D)
           S == {w \in C : w \cap A \in C}
<1>1. Len(D) \in Nat
  OBVIOUS
<1>2. /\ Zero \in C /\ \A i \in 1 .. Len(D) : D[i] \in C
      /\ \A u, v \in C : Xor(u, v) \in C
  BY <1>1, CodeClosed
<1> HIDE DEF C
<1>3. Zero \in S
  <2>1. Zero \cap A = Zero
    BY DEF Zero
  <2> QED
    BY <1>2, <2>1
<1>4. ASSUME NEW s \in S, NEW i \in 1 .. Len(D) PROVE Xor(s, D[i]) \in S
  <2>1. D[i] \cap A \in C
    <3>1. D[i] \cap A = D[i] \/ D[i] \cap A = Zero
      BY DEF OnOneSide, Zero
    <3> QED
      BY <1>2, <3>1
  <2>2. Xor(s, D[i]) \cap A = Xor(s \cap A, D[i] \cap A)
    BY DEF Xor, SymDiff
  <2> QED
    BY <1>2, <2>1, <2>2
<1> HIDE DEF S
<1>5. C \subseteq S
  BY <1>1, <1>3, <1>4, CodeLeast DEF C
<1> QED
  BY <1>5 DEF S, C, SplitsOff

LEMMA CodeFinite ==
  ASSUME NEW n \in Nat, NEW D \in Seq(Bits(n))
  PROVE  IsFiniteSet(CodeOf(D))
<1>1. UNION CodeOf(D) = ColumnSupport(D)
  BY SupportOfCode
<1>2. ColumnSupport(D) \subseteq 0 .. n - 1
  <2>1. \A i \in DOMAIN D : D[i] \subseteq 0 .. n - 1
    BY DEF Bits
  <2> QED
    BY <2>1 DEF ColumnSupport, ToSet
<1>3. IsFiniteSet(SUBSET (0 .. n - 1))
  BY CoordinatesFinite, FS_SUBSET
<1>4. CodeOf(D) \subseteq SUBSET (0 .. n - 1)
  BY <1>1, <1>2
<1> QED
  BY <1>3, <1>4, FS_Subset

LEMMA SummandsAre ==
  ASSUME NEW words, IsFiniteSet(words)
  PROVE  Summands(words) = {A \in {UNION X : X \in SUBSET words} : A # {} /\ SplitsOff(A, words)}
<1>1. Summands(words) = {A \in AllUnions(words) \ {{}} : SplitsOff(A, words)}
  BY DEF Summands, AllUnions
<1> QED
  BY <1>1, UnionsAre

(* The components of a reduced basis are the summands of the finest direct   *)
(* sum of its code, whatever rows the code was given by: `component_sizes`   *)
(* neither joins what splits off nor leaves apart what does not.             *)
THEOREM ComponentsAreSummands ==
  ASSUME NEW n \in Nat, NEW rowsIn \in Seq(Bits(n))
  PROVE  ComponentsOf(RowReduce(rowsIn, n).rref, n) = FinestOf(CodeOf(rowsIn))
<1> DEFINE D == RowReduce(rowsIn, n).rref
           P == ToSet(RowReduce(rowsIn, n).pivots)
           words == CodeOf(rowsIn)
           sup == ColumnSupport(D)
           classes == Connected(D, n)
           summands == Summands(words)
<1>1. D \in Seq(Bits(n)) /\ CodeOf(D) = words /\ RowsOf(n, D, P, words)
  BY RowsOfReduced
<1> HIDE DEF D, P, words
<1>2. Len(D) \in Nat
  BY <1>1
<1>3. IsFiniteSet(words) /\ UNION words = sup
  BY <1>1, CodeFinite, SupportOfCode
<1>4. /\ classes \in Uncut(n, words)
      /\ \A i \in 1 .. Len(D) : \E d \in classes : D[i] \subseteq d
  BY <1>1, ConnectedFacts
<1> HIDE DEF classes, summands, sup
<1>5. /\ \A c, d \in classes : c \cap d # {} => c = d
      /\ \A c \in classes : c # {} /\ \A A : SplitsOff(A, words) => OnOneSide(c, A)
      /\ \A j \in 0 .. n - 1 : \E c \in classes : j \in c
  BY <1>4 DEF Uncut, ColumnClasses
<1>6. summands = {A \in {UNION X : X \in SUBSET words} : A # {} /\ SplitsOff(A, words)}
  BY <1>3, SummandsAre DEF summands
<1>7. \A A \in summands : A # {} /\ A \subseteq sup /\ SplitsOff(A, words)
  <2> SUFFICES ASSUME NEW A \in summands PROVE A # {} /\ A \subseteq sup /\ SplitsOff(A, words)
    OBVIOUS
  <2>1. A # {} /\ SplitsOff(A, words) /\ \E X \in SUBSET words : A = UNION X
    BY <1>6
  <2> QED
    BY <1>3, <2>1
<1>8. \A A : A # {} /\ A \subseteq sup /\ SplitsOff(A, words) => A \in summands
  <2> SUFFICES ASSUME NEW A, A # {}, A \subseteq sup, SplitsOff(A, words) PROVE A \in summands
    OBVIOUS
  <2> DEFINE X == {w \in words : w \subseteq A}
  <2>1. A = UNION X
    <3>1. ASSUME NEW j \in A PROVE \E w \in X : j \in w
      <4>1. PICK w \in words : j \in w
        BY <1>3
      <4>2. w \cap A \in X /\ j \in w \cap A
        BY <4>1 DEF SplitsOff
      <4> QED
        BY <4>2
    <3> QED
      BY <3>1
  <2>2. X \in SUBSET words
    OBVIOUS
  <2> HIDE DEF X
  <2> QED
    BY <1>6, <2>1, <2>2
<1>9. ASSUME NEW c \in classes, c \subseteq sup PROVE c \in summands
  <2>1. \A i \in 1 .. Len(D) : OnOneSide(D[i], c)
    <3> SUFFICES ASSUME NEW i \in 1 .. Len(D) PROVE OnOneSide(D[i], c)
      OBVIOUS
    <3>1. PICK d \in classes : D[i] \subseteq d
      BY <1>4
    <3>2. d = c \/ d \cap c = {}
      BY <1>5
    <3> QED
      BY <3>1, <3>2 DEF OnOneSide
  <2>2. SplitsOff(c, words)
    BY <1>1, <2>1, ClassSplitsOff
  <2> QED
    BY <1>5, <1>8, <1>9, <2>2
<1>10. ASSUME NEW A \in summands PROVE \E c \in classes : c \subseteq A
  <2>1. A # {} /\ A \subseteq sup /\ SplitsOff(A, words)
    BY <1>7
  <2>2. PICK j \in A : TRUE
    BY <2>1
  <2>3. sup \subseteq 0 .. n - 1
    <3>1. \A i \in DOMAIN D : D[i] \subseteq 0 .. n - 1
      BY <1>1 DEF Bits
    <3> QED
      BY <3>1 DEF sup, ColumnSupport, ToSet
  <2>4. PICK c \in classes : j \in c
    BY <1>5, <2>1, <2>2, <2>3
  <2>5. OnOneSide(c, A)
    BY <1>5, <2>1
  <2> QED
    BY <2>2, <2>4, <2>5 DEF OnOneSide
<1>11. ASSUME NEW c \in classes, c \subseteq sup, NEW B \in summands, B \subseteq c PROVE B = c
  <2>1. OnOneSide(c, B) /\ B # {}
    BY <1>5, <1>7
  <2> QED
    BY <1>11, <2>1 DEF OnOneSide
<1>12. ASSUME NEW A \in summands, \A B \in summands : B \subseteq A => B = A
       PROVE  A \in classes /\ A \subseteq sup
  <2>1. PICK c \in classes : c \subseteq A
    BY <1>10
  <2>2. A \subseteq sup
    BY <1>7
  <2>3. c \in summands
    BY <1>9, <2>1, <2>2
  <2> QED
    BY <1>12, <2>1, <2>2, <2>3
<1>13. {c \in classes : c \subseteq sup}
         = {A \in summands : \A B \in summands : B \subseteq A => B = A}
  BY <1>9, <1>11, <1>12
<1> QED
  BY <1>13 DEF ComponentsOf, FinestOf, classes, sup, summands, D, words

(* Columns equal in every row of the basis are equal in every word.          *)
THEOREM TwinsOfRows ==
  ASSUME NEW n \in Nat, NEW D \in Seq(Bits(n))
  PROVE  TwinsIn(D) = TwinsOf(CodeOf(D))
<1> DEFINE words == CodeOf(D)
           sup == ColumnSupport(D)
           signature == [j \in sup |-> {i \in DOMAIN D : j \in D[i]}]
           rowTwins(j) == {i \in sup : signature[i] = signature[j]}
           wordTwins(j) == {i \in sup : \A w \in words : i \in w <=> j \in w}
<1>1. UNION words = sup /\ Len(D) \in Nat /\ DOMAIN D = 1 .. Len(D)
  BY SupportOfCode
<1>2. ASSUME NEW i \in sup, NEW j \in sup
      PROVE  signature[i] = signature[j] <=> \A w \in words : i \in w <=> j \in w
  <2>1. signature[i] = signature[j] <=> \A h \in 1 .. Len(D) : i \in D[h] <=> j \in D[h]
    <3>1. signature[i] = {h \in 1 .. Len(D) : i \in D[h]} /\ signature[j] = {h \in 1 .. Len(D) : j \in D[h]}
      BY <1>1
    <3> HIDE DEF signature
    <3> QED
      BY <3>1
  <2>2. \A h \in 1 .. Len(D) : D[h] \in words
    BY <1>1, CodeClosed
  <2>3. ASSUME \A h \in 1 .. Len(D) : i \in D[h] <=> j \in D[h]
        PROVE  \A w \in words : i \in w <=> j \in w
    <3> DEFINE S == {w \in words : i \in w <=> j \in w}
    <3>1. Zero \in S
      BY <1>1, CodeClosed DEF Zero
    <3>2. ASSUME NEW s \in S, NEW h \in 1 .. Len(D) PROVE Xor(s, D[h]) \in S
      <4>1. Xor(s, D[h]) \in words
        BY <1>1, <2>2, CodeClosed
      <4>2. i \in Xor(s, D[h]) <=> j \in Xor(s, D[h])
        BY <2>3 DEF Xor, SymDiff
      <4> QED
        BY <4>1, <4>2
    <3> HIDE DEF S
    <3>3. words \subseteq S
      BY <1>1, <3>1, <3>2, CodeLeast
    <3> QED
      BY <3>3 DEF S
  <2> HIDE DEF words, signature
  <2> QED
    BY <2>1, <2>2, <2>3
<1> HIDE DEF words, sup, signature
<1>3. \A j \in sup : rowTwins(j) = wordTwins(j)
  BY <1>2
<1>4. {c \in {rowTwins(j) : j \in sup} : Cardinality(c) >= 2}
        = {c \in {wordTwins(j) : j \in sup} : Cardinality(c) >= 2}
  BY <1>3
<1>5. TwinsIn(D) = {c \in {rowTwins(j) : j \in sup} : Cardinality(c) >= 2}
  BY DEF TwinsIn, sup, signature
<1>6. TwinsOf(words) = {c \in {wordTwins(j) : j \in sup} : Cardinality(c) >= 2}
  <2> DEFINE U == UNION words
  <2>1. U = sup
    BY <1>1
  <2>2. TwinsOf(words) = {c \in {{i \in U : \A w \in words : i \in w <=> j \in w} : j \in U} : Cardinality(c) >= 2}
    BY DEF TwinsOf
  <2> HIDE DEF U
  <2> QED
    BY <2>1, <2>2
<1> QED
  BY <1>4, <1>5, <1>6 DEF words

=============================================================================

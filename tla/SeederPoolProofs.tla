--------------------------- MODULE SeederPoolProofs ---------------------------
(***************************************************************************)
(* The helper pool, for every set of searches, every number of helpers and *)
(* every setting of the thresholds: whatever the helpers' interleaving,    *)
(* the parts of the walk make up the sequential list, no word of a level   *)
(* is claimed twice, no level loses a word, and the minima are the         *)
(* sequential search's.                                                    *)
(***************************************************************************)
EXTENDS SeederPool, F2Proofs

-----------------------------------------------------------------------------
(* The operators of the module on the data that PoolAssumption allows.       *)

WordsOf(s) == SUBSET (0 .. Length(s) - 1)

MatricesOf(s) == [1 .. Length(s) -> WordsOf(s)]

LEMMA SearchType ==
  ASSUME NEW s \in Searches
  PROVE  /\ Length(s) \in Nat /\ Length(s) >= 1
         /\ s.vBasis \in Seq(SUBSET Nat)
         /\ s.sigmaQs \in Seq(MatricesOf(s))
         /\ s.by \in {"kernel", "table"}
         /\ Walk(s) \in Nat /\ Walk(s) >= 2
<1>1. /\ s.vBasis \in Seq(SUBSET Nat) /\ Len(s.vBasis) >= 1
      /\ s.sigmaQs \in Seq([1 .. Len(s.vBasis) -> SUBSET (0 .. Len(s.vBasis) - 1)])
      /\ s.by \in {"kernel", "table"}
  BY PoolAssumption
<1> DEFINE n == Length(s)
<1>2. n \in Nat /\ n >= 1 /\ n - 1 \in Nat /\ (n - 1) + 1 = n
  BY <1>1 DEF Length
<1>3. Walk(s) \in Nat /\ Walk(s) >= 2
  <2>1. Walk(s) = 2^n
    BY DEF Walk
  <2> HIDE DEF n
  <2>2. 2^n = 2 * 2^(n - 1) /\ 2^(n - 1) \in Nat /\ 2^(n - 1) >= 1
    <3>1. 2^((n - 1) + 1) = 2 * 2^(n - 1) /\ 2^(n - 1) \in Nat /\ 2^(n - 1) >= 1
      BY <1>2, PowerOfTwo
    <3> QED
      BY <1>2, <3>1
  <2> QED
    BY <2>1, <2>2
<1> QED
  BY <1>1, <1>2, <1>3 DEF Length, MatricesOf, WordsOf

LEMMA PoolSizeType ==
  PoolSize \in Nat /\ PoolSize >= 2
<1>1. PoolSize \in Nat
  BY PoolAssumption, FS_CardinalityType DEF PoolSize
<1> QED
  BY <1>1, PoolAssumption

LEMMA PicksFacts ==
  ASSUME NEW T, NEW s \in Seq(T), NEW P
  PROVE  /\ Picks(s, P) \in Seq(T)
         /\ ToSet(Picks(s, P)) = {s[i] : i \in P \cap DOMAIN s}
<1> DEFINE n == Len(s)
           one == [i \in DOMAIN s |-> IF i \in P THEN <<s[i]>> ELSE <<>>]
<1>1. n \in Nat /\ DOMAIN s = 1 .. n /\ \A i \in 1 .. n : s[i] \in T
  OBVIOUS
<1>2. one \in [1 .. n -> Seq(T)] /\ \A i \in 1 .. n : one[i] = IF i \in P THEN <<s[i]>> ELSE <<>>
  BY <1>1
<1> HIDE DEF n
<1>3. one \in Seq(Seq(T)) /\ Len(one) = n
  BY <1>1, <1>2
<1>4. Picks(s, P) = FlattenSeq(one)
  BY DEF Picks
<1> HIDE DEF one
<1>5. /\ FlattenSeq(one) \in Seq(T)
      /\ ToSet(FlattenSeq(one)) = HeldBy(one, n)
  BY <1>3, FlattenFacts
<1>6. \A i \in 1 .. n : ToSet(one[i]) = IF i \in P THEN {s[i]} ELSE {}
  <2>1. \A x : ToSet(<<x>>) = {x}
    BY DEF ToSet
  <2>2. ToSet(<<>>) = {}
    BY DEF ToSet
  <2> QED
    BY <1>2, <2>1, <2>2
<1>7. HeldBy(one, n) = {s[i] : i \in P \cap (1 .. n)}
  <2>1. \A x : x \in HeldBy(one, n) <=> \E i \in 1 .. n : x \in ToSet(one[i])
    BY DEF HeldBy
  <2>2. \A x : x \in {s[i] : i \in P \cap (1 .. n)} <=> \E i \in 1 .. n : i \in P /\ x = s[i]
    OBVIOUS
  <2>3. \A x : \A i \in 1 .. n : x \in ToSet(one[i]) <=> i \in P /\ x = s[i]
    BY <1>6
  <2>4. \A x : x \in HeldBy(one, n) <=> x \in {s[i] : i \in P \cap (1 .. n)}
    BY <2>1, <2>2, <2>3
  <2> QED
    BY <2>4
<1> QED
  BY <1>1, <1>4, <1>5, <1>7

(* The words of s that can be claimed are those of s that are not in seen.   *)
LEMMA ClaimableFacts ==
  ASSUME NEW T, NEW s \in Seq(T)
  PROVE  /\ Claimable(s) \in Seq(T)
         /\ ToSet(Claimable(s)) = ToSet(s) \ seen
<1> DEFINE P == {i \in DOMAIN s : s[i] \notin seen /\ \A j \in 1 .. i - 1 : s[j] # s[i]}
<1>1. Claimable(s) = Picks(s, P)
  BY DEF Claimable
<1>2. P \subseteq DOMAIN s /\ \A i \in P : s[i] \notin seen
  OBVIOUS
<1>3. ASSUME NEW x \in ToSet(s) \ seen
      PROVE  \E i \in P : s[i] = x
  <2> DEFINE C == {i \in DOMAIN s : s[i] = x}
  <2>1. C # {} /\ C \subseteq Nat
    BY DEF ToSet
  <2>2. PICK k \in C : \A i \in C : k <= i
    <3> HIDE DEF C
    <3> QED
      BY <2>1, LeastNumber
  <2>3. \A j \in 1 .. k - 1 : s[j] # s[k]
    <3> SUFFICES ASSUME NEW j \in 1 .. k - 1, s[j] = s[k]
                 PROVE  FALSE
      OBVIOUS
    <3>1. j \in DOMAIN s /\ j < k
      BY <2>2
    <3> QED
      BY <2>2, <3>1
  <2> QED
    BY <2>2, <2>3
<1> HIDE DEF P
<1>4. Picks(s, P) \in Seq(T) /\ ToSet(Picks(s, P)) = {s[i] : i \in P \cap DOMAIN s}
  BY PicksFacts
<1>5. {s[i] : i \in P \cap DOMAIN s} = ToSet(s) \ seen
  BY <1>2, <1>3 DEF ToSet
<1> QED
  BY <1>1, <1>4, <1>5

(* The generators are matrices.                                              *)
LEMMA GensType ==
  ASSUME NEW s \in Searches
  PROVE  GensOf(s) \in Seq(MatricesOf(s))
<1>1. s.sigmaQs \in Seq(MatricesOf(s))
  BY SearchType
<1>2. \A P : Picks(s.sigmaQs, P) \in Seq(MatricesOf(s))
  BY <1>1, PicksFacts
<1> QED
  BY <1>1, <1>2 DEF GensOf

-----------------------------------------------------------------------------
(* A range cut into pieces.                                                  *)

LEMMA CeilDivFacts ==
  ASSUME NEW n \in Nat, NEW d \in Nat, d >= 1
  PROVE  /\ CeilDiv(n, d) \in Nat
         /\ n <= CeilDiv(n, d) * d
         /\ CeilDiv(n, d) * d < n + d
         /\ n >= 1 => CeilDiv(n, d) >= 1
<1> DEFINE a == n + d - 1
           q == a \div d
           r == a % d
<1>1. a \in Nat
  OBVIOUS
<1>2. q \in Nat /\ r \in 0 .. d - 1 /\ a = q * d + r
  <2> HIDE DEF a
  <2> QED
    BY <1>1, Quotients
<1>3. CeilDiv(n, d) = q
  BY DEF CeilDiv
<1> HIDE DEF q, r
<1>4. q * d \in Nat
  BY <1>2
<1>5. n >= 1 => q >= 1
  <2>1. q = 0 => q * d = 0
    OBVIOUS
  <2> QED
    BY <1>2, <1>4, <2>1
<1> QED
  BY <1>2, <1>3, <1>4, <1>5

LEMMA LeastOfTwo ==
  ASSUME NEW a \in Int, NEW b \in Int
  PROVE  /\ Min({a, b}) = IF a <= b THEN a ELSE b
         /\ Max({a, b}) = IF a >= b THEN a ELSE b
<1>1. CASE a <= b
  <2>1. \A x \in {a, b} : (\A y \in {a, b} : x <= y) => x = a
    BY <1>1
  <2>2. \A y \in {a, b} : a <= y
    BY <1>1
  <2>3. Min({a, b}) = a
    BY <2>1, <2>2 DEF Min
  <2>4. \A x \in {a, b} : (\A y \in {a, b} : x >= y) => x = b
    BY <1>1
  <2>5. \A y \in {a, b} : b >= y
    BY <1>1
  <2>6. Max({a, b}) = b
    BY <2>4, <2>5 DEF Max
  <2> QED
    BY <1>1, <2>3, <2>6
<1>2. CASE ~ (a <= b)
  <2>1. \A x \in {a, b} : (\A y \in {a, b} : x <= y) => x = b
    BY <1>2
  <2>2. \A y \in {a, b} : b <= y
    BY <1>2
  <2>3. Min({a, b}) = b
    BY <2>1, <2>2 DEF Min
  <2>4. \A x \in {a, b} : (\A y \in {a, b} : x >= y) => x = a
    BY <1>2
  <2>5. \A y \in {a, b} : a >= y
    BY <1>2
  <2>6. Max({a, b}) = a
    BY <2>4, <2>5 DEF Max
  <2> QED
    BY <1>2, <2>3, <2>6
<1> QED
  BY <1>1, <1>2

(* The pieces follow on one another from the first to the last.              *)
Partitions(R, lo, hi) ==
  /\ DOMAIN R = 1 .. Len(R) /\ Len(R) \in Nat /\ Len(R) >= 1
  /\ \A i \in 1 .. Len(R) : /\ R[i].from \in lo .. hi /\ R[i].to \in lo .. hi
                            /\ R[i].from < R[i].to
                            /\ i < Len(R) => R[i + 1].from = R[i].to
  /\ R[1].from = lo /\ R[Len(R)].to = hi
  /\ \A j \in lo .. hi - 1 : \E i \in 1 .. Len(R) : R[i].from <= j /\ j < R[i].to

LEMMA RangesPartition ==
  ASSUME NEW lo \in Nat, NEW hi \in Nat, lo < hi, NEW n \in Nat, n >= 1
  PROVE  Partitions(Ranges(lo, hi, n), lo, hi) /\ Len(Ranges(lo, hi, n)) <= n
<1> DEFINE size == hi - lo
           per == CeilDiv(size, n)
           k == CeilDiv(size, per)
           R == Ranges(lo, hi, n)
<1>1. size \in Nat /\ size >= 1
  OBVIOUS
<1> HIDE DEF size
<1>2. per \in Nat /\ per >= 1 /\ size <= per * n
  BY <1>1, CeilDivFacts
<1>3. R = [i \in 1 .. k |-> [from |-> lo + (i - 1) * per, to |-> Min({lo + i * per, hi})]]
  BY DEF Ranges, size
<1> HIDE DEF per
<1>4. k \in Nat /\ k >= 1 /\ size <= k * per /\ k * per < size + per
  BY <1>1, <1>2, CeilDivFacts
<1> HIDE DEF k, R
<1>5. DOMAIN R = 1 .. k /\ Len(R) = k
  <2> DEFINE V == {R[i] : i \in 1 .. k}
  <2>1. DOMAIN R = 1 .. k /\ \A i \in 1 .. k : R[i] \in V
    BY <1>3
  <2>2. R = [i \in 1 .. k |-> R[i]]
    BY <1>3
  <2> HIDE DEF V
  <2>3. R \in [1 .. k -> V]
    BY <2>1, <2>2
  <2>4. R \in Seq(V) /\ Len(R) = k
    BY <1>4, <2>3
  <2> QED
    BY <2>1, <2>4
<1>6. k <= n
  <2>1. k * per = per * k
    BY <1>2, <1>4
  <2>2. ASSUME k >= n + 1
        PROVE  FALSE
    <3>1. per * k >= per * (n + 1)
      BY <1>2, <1>4, <2>2
    <3>2. per * (n + 1) = per * n + per
      BY <1>2
    <3>3. per * n \in Nat /\ per * k \in Nat
      BY <1>2, <1>4
    <3> QED
      BY <1>1, <1>2, <1>4, <2>1, <3>1, <3>2, <3>3
  <2> QED
    BY <1>4, <2>2
(* The start of the pieces, and the end of all.                              *)
<1> DEFINE at(i) == lo + (i - 1) * per
<1>7. ASSUME NEW i \in 1 .. k
      PROVE  /\ at(i) \in Nat /\ at(i) >= lo /\ at(i) < hi
             /\ at(i + 1) = at(i) + per
             /\ lo + i * per = at(i) + per
             /\ i < k => at(i + 1) < hi
             /\ i = k => at(i + 1) >= hi
  <2> DEFINE d == (i - 1) * per
  <2>1. i - 1 \in Nat /\ i \in Nat /\ i <= k
    BY <1>4
  <2>2. d \in Nat
    BY <1>2, <2>1
  <2>3. i * per = d + per /\ ((i + 1) - 1) * per = i * per
    BY <1>2, <2>1
  <2>4. i * per <= k * per
    BY <1>2, <1>4, <2>1
  <2>5. i < k => i * per + per <= k * per
    <3> SUFFICES ASSUME i < k
                 PROVE  i * per + per <= k * per
      OBVIOUS
    <3>1. (i + 1) * per <= k * per
      BY <1>2, <1>4, <2>1
    <3>2. (i + 1) * per = i * per + per
      BY <1>2, <2>1
    <3> QED
      BY <3>1, <3>2
  <2>6. k * per \in Nat /\ i * per \in Nat /\ hi = lo + size
    BY <1>2, <1>4, <2>1 DEF size
  <2>7. at(i) = lo + d /\ at(i + 1) = lo + i * per
    BY <2>3
  <2> HIDE DEF d, at
  <2>8. d < size
    BY <1>1, <1>2, <1>4, <2>2, <2>3, <2>4, <2>6
  <2>9. i < k => i * per < size
    BY <1>1, <1>2, <1>4, <2>5, <2>6
  <2> QED
    BY <1>1, <1>2, <1>4, <2>2, <2>3, <2>6, <2>7, <2>8, <2>9
<1>8. ASSUME NEW i \in 1 .. k
      PROVE  /\ R[i].from = at(i)
             /\ R[i].to = IF at(i) + per <= hi THEN at(i) + per ELSE hi
  <2>1. R[i].from = at(i) /\ R[i].to = Min({lo + i * per, hi})
    BY <1>3
  <2>2. at(i) + per \in Int /\ hi \in Int
    BY <1>2, <1>7
  <2> QED
    BY <1>7, <2>1, <2>2, LeastOfTwo
<1> HIDE DEF at
<1>9. ASSUME NEW i \in 1 .. k
      PROVE  /\ R[i].from \in lo .. hi /\ R[i].to \in lo .. hi
             /\ R[i].from < R[i].to
             /\ i < k => R[i + 1].from = R[i].to
  <2>1. i < k => i + 1 \in 1 .. k
    BY <1>4
  <2>2. i < k => R[i + 1].from = at(i) + per /\ at(i) + per < hi
    BY <1>7, <1>8, <2>1
  <2> QED
    BY <1>2, <1>7, <1>8, <2>2
<1>10. 1 \in 1 .. k /\ k \in 1 .. k
  BY <1>4
<1>11. R[1].from = lo /\ R[k].to = hi
  <2>1. at(1) = lo
    <3>1. (1 - 1) * per = 0
      BY <1>2
    <3> QED
      BY <3>1 DEF at
  <2>2. at(k) + per >= hi
    BY <1>7, <1>10
  <2> QED
    BY <1>2, <1>7, <1>8, <1>10, <2>1, <2>2
<1>12. ASSUME NEW j \in lo .. hi - 1
       PROVE  \E i \in 1 .. k : R[i].from <= j /\ j < R[i].to
  <2> DEFINE C == {i \in 1 .. k : at(i) <= j}
  <2>1. C # {} /\ C \subseteq 0 .. k
    BY <1>8, <1>10, <1>11
  <2>2. Max(C) \in C /\ \A i \in C : i <= Max(C)
    <3> HIDE DEF C
    <3> QED
      BY <1>4, <2>1, GreatestNumber
  <2> DEFINE m == Max(C)
  <2>3. m \in 1 .. k /\ at(m) <= j /\ \A i \in 1 .. k : at(i) <= j => i <= m
    BY <2>2
  <2> HIDE DEF C, m
  <2>4. j < at(m) + per
    <3>1. CASE m = k
      <4>1. at(m) + per >= hi
        BY <1>7, <2>3, <3>1
      <4> QED
        BY <1>2, <1>7, <2>3, <4>1
    <3>2. CASE m < k
      <4>1. m + 1 \in 1 .. k /\ ~ (m + 1 <= m)
        BY <1>4, <2>3, <3>2
      <4>2. ~ (at(m + 1) <= j) /\ at(m + 1) = at(m) + per /\ at(m) \in Nat
        BY <1>7, <2>3, <4>1
      <4> QED
        BY <1>2, <4>2
    <3>3. m = k \/ m < k
      BY <1>4, <2>3
    <3> QED
      BY <3>1, <3>2, <3>3
  <2>5. R[m].from <= j /\ j < R[m].to
    BY <1>2, <1>7, <1>8, <2>3, <2>4
  <2> QED
    BY <2>3, <2>5
<1>13. Partitions(R, lo, hi)
  BY <1>4, <1>5, <1>9, <1>11, <1>12 DEF Partitions
<1> QED
  BY <1>5, <1>6, <1>13 DEF R

-----------------------------------------------------------------------------
(* The walk and its parts.                                                   *)

LEMMA ChunksType ==
  ASSUME NEW s \in Searches
  PROVE  /\ ChunksOf(s) \in 1 .. PoolSize
         /\ Partitions(WalkRanges(s), 1, Walk(s))
         /\ Len(WalkRanges(s)) \in 1 .. ChunksOf(s)
<1> DEFINE w == Walk(s) - 1
           q == w \div ChunkMin
           most == Max({q, 1})
<1>1. w \in Nat /\ w + 1 = Walk(s) /\ 1 < Walk(s) /\ Walk(s) \in Nat
  BY SearchType
<1>2. ChunkMin \in Nat /\ ChunkMin >= 1
  BY PoolAssumption
<1>3. q \in Nat
  <2> HIDE DEF w
  <2> QED
    BY <1>1, <1>2, Quotients
<1>4. ChunksOf(s) = Min({PoolSize, most})
  BY DEF ChunksOf
<1> HIDE DEF q
<1>5. most \in Nat /\ most >= 1
  <2>1. most = IF q >= 1 THEN q ELSE 1
    <3>1. q \in Int /\ 1 \in Int
      BY <1>3
    <3> QED
      BY <3>1, LeastOfTwo
  <2> QED
    BY <1>3, <2>1
<1> HIDE DEF most
<1>6. Min({PoolSize, most}) = IF PoolSize <= most THEN PoolSize ELSE most
  BY <1>5, PoolSizeType, LeastOfTwo
<1>7. ChunksOf(s) \in 1 .. PoolSize
  BY <1>4, <1>5, <1>6, PoolSizeType
<1>8. ChunksOf(s) \in Nat /\ ChunksOf(s) >= 1
  BY <1>7, PoolSizeType
<1>9. /\ Partitions(WalkRanges(s), 1, Walk(s))
      /\ Len(WalkRanges(s)) <= ChunksOf(s)
  BY <1>1, <1>8, RangesPartition DEF WalkRanges
<1>10. Len(WalkRanges(s)) \in Nat /\ Len(WalkRanges(s)) >= 1
  BY <1>9 DEF Partitions
<1> QED
  BY <1>7, <1>8, <1>9, <1>10

Found(s, u) == IF Singular(s, u) THEN <<u>> ELSE <<>>

(* What the walk has found after the steps up to i, from step a + 1 on.      *)
Finds(s, a, b, f) ==
  /\ f[a] = <<>>
  /\ \A i \in a .. b : i > a => f[i] = f[i - 1] \o Found(s, GrayWord(i, Length(s)))

LEMMA FindsExists ==
  ASSUME NEW s \in Searches, NEW a \in Nat, NEW b \in Nat, a <= b
  PROVE  \E f \in [a .. b -> Seq(WordsOf(s))] : Finds(s, a, b, f)
<1> DEFINE T == WordsOf(s)
           step == [p \in Seq(T) \X (a .. b) |-> p[1] \o Found(s, GrayWord(p[2], Length(s)))]
<1>1. \A i : Found(s, GrayWord(i, Length(s))) \in Seq(T)
  <2>1. \A i : GrayWord(i, Length(s)) \in T
    BY SearchType, GrayOnto DEF WordsOf
  <2> QED
    BY <2>1 DEF Found
<1>2. \A p \in Seq(T) \X (a .. b) : p[1] \o Found(s, GrayWord(p[2], Length(s))) \in Seq(T)
  BY <1>1
<1>3. step \in [Seq(T) \X (a .. b) -> Seq(T)]
  BY <1>2
<1>4. <<>> \in Seq(T)
  OBVIOUS
<1>5. \A x \in Seq(T), i \in a .. b : step[x, i] = x \o Found(s, GrayWord(i, Length(s)))
  OBVIOUS
<1> HIDE DEF T, step
<1>6. PICK f \in [a .. b -> Seq(T)] : IsLoop(<<>>, step, a, b, f)
  BY <1>3, <1>4, LoopExists
<1>7. ASSUME NEW i \in a .. b, i > a
      PROVE  f[i] = f[i - 1] \o Found(s, GrayWord(i, Length(s)))
  <2>1. i - 1 \in a .. b
    BY <1>7
  <2>2. f[i] = step[f[i - 1], i] /\ f[i - 1] \in Seq(T)
    BY <1>6, <1>7, <2>1 DEF IsLoop
  <2> QED
    BY <1>5, <2>2
<1> QED
  BY <1>6, <1>7 DEF Finds, IsLoop, T

(* A walk from the word before its first step finds these.                   *)
LEMMA WalkFinds ==
  ASSUME NEW s \in Searches, NEW lo \in 1 .. Walk(s) - 1, NEW hi \in lo + 1 .. Walk(s),
         NEW f \in [lo - 1 .. hi - 1 -> Seq(WordsOf(s))], Finds(s, lo - 1, hi - 1, f)
  PROVE  WalkFrom(s, GrayWord(lo - 1, Length(s)), lo, hi) = f[hi - 1]
<1> DEFINE n == Length(s)
           a == lo - 1
           b == hi - 1
           start == GrayWord(a, n)
           At(g, i) == IF i = a THEN [at |-> start, found |-> <<>>]
                       ELSE LET last == g[i - 1]
                                u == Xor(last.at, {TrailingZeros(i)})
                            IN [at |-> u,
                                found |-> IF Singular(s, u) THEN Append(last.found, u)
                                          ELSE last.found]
           IsWalk(g) == g = [i \in a .. b |-> At(g, i)]
           h == CHOOSE g : IsWalk(g)
           k == [i \in a .. b |-> [at |-> GrayWord(i, n), found |-> f[i]]]
<1>1. WalkFrom(s, start, lo, hi) = h[b].found
  BY DEF WalkFrom
<1>2. /\ a \in Nat /\ b \in Nat /\ a <= b /\ n \in Nat
      /\ a \in a .. b /\ b \in a .. b
      /\ \A i \in a .. b : i > a => /\ i - 1 \in a .. b
                                    /\ i \in 1 .. 2^n - 1 /\ i # a
  BY SearchType DEF Walk
<1>3. /\ f[a] = <<>>
      /\ \A i \in a .. b : i > a => f[i] = f[i - 1] \o Found(s, GrayWord(i, n))
  BY DEF Finds
<1>4. \A i \in a .. b : i > a =>
        /\ Xor(GrayWord(i - 1, n), {TrailingZeros(i)}) = GrayWord(i, n)
        /\ f[i] = IF Singular(s, GrayWord(i, n)) THEN Append(f[i - 1], GrayWord(i, n))
                  ELSE f[i - 1]
  <2> SUFFICES ASSUME NEW i \in a .. b, i > a
               PROVE  /\ Xor(GrayWord(i - 1, n), {TrailingZeros(i)}) = GrayWord(i, n)
                      /\ f[i] = IF Singular(s, GrayWord(i, n))
                                THEN Append(f[i - 1], GrayWord(i, n))
                                ELSE f[i - 1]
    OBVIOUS
  <2> DEFINE u == GrayWord(i, n)
  <2>1. i \in 1 .. 2^n - 1 /\ i - 1 \in a .. b
    BY <1>2
  <2>2. Xor(GrayWord(i - 1, n), {TrailingZeros(i)}) = u
    BY <1>2, <2>1, GrayStep
  <2>3. u \in WordsOf(s) /\ f[i - 1] \in Seq(WordsOf(s))
    BY <1>2, <2>1, GrayOnto DEF WordsOf
  <2>4. f[i] = f[i - 1] \o Found(s, u)
    BY <1>3
  <2> HIDE DEF u
  <2>5. \A x \in Seq(WordsOf(s)) : x \o <<u>> = Append(x, u) /\ x \o <<>> = x
    BY <2>3
  <2> QED
    BY <2>2, <2>3, <2>4, <2>5 DEF Found, u
<1> HIDE DEF n, a, b, start
<1>5. IsWalk(k)
  <2>1. k[a] = [at |-> GrayWord(a, n), found |-> f[a]]
    BY <1>2
  <2>2. ASSUME NEW i \in a .. b
        PROVE  At(k, i) = [at |-> GrayWord(i, n), found |-> f[i]]
    <3>1. CASE i = a
      BY <1>3, <3>1 DEF start
    <3>2. CASE i # a
      <4>1. i > a
        BY <1>2, <3>2
      <4>2. i - 1 \in a .. b
        BY <1>2, <4>1
      <4>3. k[i - 1] = [at |-> GrayWord(i - 1, n), found |-> f[i - 1]]
        BY <4>2
      <4>4. k[i - 1].at = GrayWord(i - 1, n) /\ k[i - 1].found = f[i - 1]
        BY <4>3
      <4> HIDE DEF k
      <4>5. Xor(k[i - 1].at, {TrailingZeros(i)}) = GrayWord(i, n)
        BY <1>4, <4>1, <4>4
      <4> QED
        BY <1>4, <3>2, <4>1, <4>4, <4>5
    <3> QED
      BY <3>1, <3>2
  <2> HIDE DEF At
  <2> QED
    BY <2>2
<1>6. IsWalk(h)
  <2>1. \E g : IsWalk(g)
    <3> HIDE DEF IsWalk
    <3> QED
      BY <1>5
  <2> HIDE DEF IsWalk
  <2> QED
    BY <2>1
<1> HIDE DEF h
<1>7. \A i \in a .. b : h[i] = At(h, i)
  <2> HIDE DEF At
  <2> QED
    BY <1>6
<1> DEFINE C == {i \in a .. b : h[i].at = GrayWord(i, n) /\ h[i].found = f[i]}
<1>8. a \in C
  <2>1. h[a] = [at |-> start, found |-> <<>>]
    BY <1>2, <1>7
  <2>2. h[a].at = GrayWord(a, n) /\ h[a].found = f[a]
    BY <1>3, <2>1 DEF start
  <2> QED
    BY <1>2, <2>2
<1>9. ASSUME NEW i \in a .. b, i > a, i - 1 \in C
      PROVE  i \in C
  <2>1. h[i - 1].at = GrayWord(i - 1, n) /\ h[i - 1].found = f[i - 1]
    BY <1>9
  <2>2. Xor(h[i - 1].at, {TrailingZeros(i)}) = GrayWord(i, n)
    BY <1>4, <1>9, <2>1
  <2>3. i # a
    BY <1>2, <1>9
  <2>4. h[i] = [at |-> GrayWord(i, n), found |-> f[i]]
    BY <1>4, <1>7, <1>9, <2>1, <2>2, <2>3
  <2> QED
    BY <2>4
<1>10. C \subseteq a .. b
  OBVIOUS
<1>11. b \in C
  <2> HIDE DEF C
  <2>1. \A i \in a .. b : i > a /\ i - 1 \in C => i \in C
    BY <1>9
  <2> QED
    BY <1>2, <1>8, <1>10, <2>1, RangeInduction
<1> QED
  BY <1>1, <1>11 DEF a, b, n, start

(* A walk over a part of the steps finds what the whole walk finds there.    *)
LEMMA WalkAppends ==
  ASSUME NEW s \in Searches, NEW lo \in 1 .. Walk(s) - 1, NEW hi \in lo + 1 .. Walk(s),
         NEW F \in [0 .. Walk(s) - 1 -> Seq(WordsOf(s))], Finds(s, 0, Walk(s) - 1, F)
  PROVE  /\ WalkFrom(s, GrayWord(lo - 1, Length(s)), lo, hi) \in Seq(WordsOf(s))
         /\ F[hi - 1] = F[lo - 1] \o WalkFrom(s, GrayWord(lo - 1, Length(s)), lo, hi)
<1> DEFINE T == WordsOf(s)
           a == lo - 1
           b == hi - 1
           found(i) == Found(s, GrayWord(i, Length(s)))
<1>1. /\ a \in Nat /\ b \in Nat /\ a <= b /\ a \in a .. b /\ b \in a .. b
      /\ \A i \in a .. b : /\ i \in 0 .. Walk(s) - 1
                           /\ i > a => i > 0 /\ i - 1 \in a .. b /\ i - 1 \in 0 .. Walk(s) - 1
  BY SearchType
<1>2. PICK f \in [a .. b -> Seq(T)] : Finds(s, a, b, f)
  <2> HIDE DEF a, b
  <2> QED
    BY <1>1, FindsExists
<1>3. WalkFrom(s, GrayWord(a, Length(s)), lo, hi) = f[b]
  BY <1>2, WalkFinds
<1>4. /\ f[a] = <<>> /\ \A i \in a .. b : i > a => f[i] = f[i - 1] \o found(i)
      /\ \A i \in a .. b : i > a => F[i] = F[i - 1] \o found(i)
  BY <1>1, <1>2 DEF Finds
<1>5. \A i : found(i) \in Seq(T)
  <2>1. \A i : GrayWord(i, Length(s)) \in T
    BY SearchType, GrayOnto DEF WordsOf
  <2> QED
    BY <2>1 DEF Found
<1>6. \A i \in a .. b : F[i] \in Seq(T) /\ f[i] \in Seq(T)
  BY <1>1
<1> HIDE DEF a, b, T, found
<1> DEFINE C == {i \in a .. b : F[i] = F[a] \o f[i]}
<1>7. a \in C
  BY <1>1, <1>4, <1>6
<1>8. ASSUME NEW i \in a .. b, i > a, i - 1 \in C
      PROVE  i \in C
  <2>1. i - 1 \in a .. b /\ F[i - 1] = F[a] \o f[i - 1]
    BY <1>8
  <2>2. F[i] = (F[a] \o f[i - 1]) \o found(i) /\ f[i] = f[i - 1] \o found(i)
    BY <1>4, <1>8, <2>1
  <2>3. F[a] \in Seq(T) /\ f[i - 1] \in Seq(T) /\ found(i) \in Seq(T)
    BY <1>1, <1>5, <1>6, <2>1
  <2>4. \A x, y, z \in Seq(T) : (x \o y) \o z = x \o (y \o z)
    OBVIOUS
  <2>5. F[i] = F[a] \o f[i]
    <3>1. (F[a] \o f[i - 1]) \o found(i) = F[a] \o (f[i - 1] \o found(i))
      BY ONLY <2>3, <2>4, Zenon
    <3> QED
      BY ONLY <2>2, <3>1
  <2> QED
    BY <2>5
<1>9. C \subseteq a .. b
  OBVIOUS
<1>10. b \in C
  <2> HIDE DEF C
  <2>1. \A i \in a .. b : i > a /\ i - 1 \in C => i \in C
    BY <1>8
  <2> QED
    BY <1>1, <1>7, <1>9, <2>1, RangeInduction
<1> QED
  BY <1>1, <1>3, <1>6, <1>10 DEF a, b, T

(* The parts of the walk, in order, are the walk.                            *)
LEMMA PartsOfWalk ==
  ASSUME NEW s \in Searches
  PROVE  /\ WalkParts[s] \in Seq(Seq(WordsOf(s)))
         /\ Len(WalkParts[s]) = Len(WalkRanges(s))
         /\ FlattenSeq(WalkParts[s]) = WholeWalk[s]
         /\ WholeWalk[s] \in Seq(WordsOf(s))
<1> DEFINE T == WordsOf(s)
           n == Length(s)
           N == Walk(s)
           R == WalkRanges(s)
           k == Len(R)
           P == WalkParts[s]
<1>1. N \in Nat /\ N >= 2 /\ n \in Nat
  BY SearchType
<1>2. /\ DOMAIN R = 1 .. k /\ k \in Nat /\ k >= 1
      /\ \A i \in 1 .. k : /\ R[i].from \in 1 .. N /\ R[i].to \in 1 .. N
                           /\ R[i].from < R[i].to
                           /\ i < k => R[i + 1].from = R[i].to
      /\ R[1].from = 1 /\ R[k].to = N
  BY ChunksType DEF Partitions
<1>3. PICK F \in [0 .. N - 1 -> Seq(T)] : Finds(s, 0, N - 1, F)
  <2>1. 0 \in Nat /\ N - 1 \in Nat /\ 0 <= N - 1
    BY <1>1
  <2> HIDE DEF N
  <2> QED
    BY <2>1, FindsExists
<1>4. P = [i \in 1 .. k |-> WalkFrom(s, GrayWord(R[i].from - 1, n), R[i].from, R[i].to)]
  BY <1>2 DEF WalkParts, RangeStart
<1>5. F[0] = <<>>
  BY <1>3 DEF Finds
<1>6. \A i \in 1 .. k : P[i] \in Seq(T) /\ F[R[i].to - 1] = F[R[i].from - 1] \o P[i]
  <2> SUFFICES ASSUME NEW i \in 1 .. k
               PROVE  P[i] \in Seq(T) /\ F[R[i].to - 1] = F[R[i].from - 1] \o P[i]
    OBVIOUS
  <2>1. R[i].from \in 1 .. N - 1 /\ R[i].to \in R[i].from + 1 .. N
    BY <1>1, <1>2
  <2>2. P[i] = WalkFrom(s, GrayWord(R[i].from - 1, n), R[i].from, R[i].to)
    BY <1>4
  <2> HIDE DEF P, R, k
  <2> QED
    BY <1>3, <2>1, <2>2, WalkAppends
<1>7. WholeWalk[s] = F[N - 1] /\ WholeWalk[s] \in Seq(T)
  <2>1. WholeWalk[s] = WalkFrom(s, Zero, 1, N)
    BY DEF WholeWalk
  <2>2. GrayWord(1 - 1, n) = Zero
    <3>1. 1 - 1 = 0
      OBVIOUS
    <3> QED
      BY <1>1, <3>1, GrayZero
  <2>3. 1 \in 1 .. N - 1 /\ N \in 1 + 1 .. N
    BY <1>1
  <2>4. /\ WalkFrom(s, GrayWord(1 - 1, n), 1, N) \in Seq(T)
        /\ F[N - 1] = F[1 - 1] \o WalkFrom(s, GrayWord(1 - 1, n), 1, N)
    BY <1>3, <2>3, WalkAppends
  <2>5. F[1 - 1] = <<>>
    BY <1>5
  <2>6. \A x \in Seq(T) : <<>> \o x = x
    OBVIOUS
  <2> QED
    BY <2>1, <2>2, <2>4, <2>5, <2>6
<1> HIDE DEF P, R, k, N, T, n
<1>8. P \in [1 .. k -> Seq(T)]
  BY <1>4, <1>6
<1>9. P \in Seq(Seq(T)) /\ Len(P) = k
  <2>1. k \in Nat
    BY <1>2
  <2> DEFINE V == Seq(T)
  <2>2. P \in [1 .. k -> V]
    BY <1>8
  <2> HIDE DEF V
  <2>3. P \in Seq(V) /\ Len(P) = k
    BY <2>1, <2>2
  <2> QED
    BY <2>3 DEF V
<1>10. PICK c \in [0 .. k -> Seq(T)] : Concatenates(P, c)
  BY <1>9, FlattenLoop
<1>11. c[0] = <<>> /\ (\A i \in 1 .. k : c[i] = c[i - 1] \o P[i]) /\ FlattenSeq(P) = c[k]
  BY <1>9, <1>10 DEF Concatenates
<1> DEFINE end(i) == IF i = 0 THEN 0 ELSE R[i].to - 1
           C == {i \in 0 .. k : c[i] = F[end(i)]}
<1>12. 0 \in C
  BY <1>2, <1>5, <1>11
<1>13. ASSUME NEW i \in 0 .. k, i > 0, i - 1 \in C
       PROVE  i \in C
  <2>1. i \in 1 .. k /\ i # 0
    BY <1>13
  <2>2. end(i - 1) = R[i].from - 1
    <3>1. CASE i = 1
      BY <1>2, <3>1
    <3>2. CASE i # 1
      <4>1. i - 1 \in 1 .. k /\ i - 1 < k /\ (i - 1) + 1 = i /\ i - 1 # 0
        BY <1>2, <2>1, <3>2
      <4> QED
        BY <1>2, <4>1
    <3> QED
      BY <3>1, <3>2
  <2>3. c[i - 1] = F[R[i].from - 1]
    BY <1>13, <2>2
  <2>4. end(i) = R[i].to - 1
    BY <2>1
  <2> HIDE DEF end
  <2>5. c[i] = F[end(i)]
    BY <1>6, <1>11, <2>1, <2>3, <2>4
  <2> QED
    BY <2>5
<1>14. C \subseteq 0 .. k /\ 0 \in Nat /\ 0 <= k
  BY <1>2
<1>15. k \in C
  <2> HIDE DEF C
  <2>1. \A i \in 0 .. k : i > 0 /\ i - 1 \in C => i \in C
    BY <1>13
  <2>2. k \in 0 .. k
    BY <1>2
  <2> QED
    BY <1>2, <1>12, <1>14, <2>1, <2>2, RangeInduction
<1>16. k # 0
  BY <1>2
<1> QED
  BY <1>2, <1>7, <1>9, <1>11, <1>15, <1>16 DEF P, R, k, N, T, n

-----------------------------------------------------------------------------
(* The kernels that apply a generator to a word.                             *)

(* The XOR of the values of f, in whatever order it is taken.                *)
XorsTo(f, g, D) ==
  /\ g[{}] = Zero
  /\ \A s \in SUBSET D : \A i \in s : g[s] = Xor(f[i], g[s \ {i}])

LEMMA XorFold ==
  ASSUME NEW D, IsFiniteSet(D), NEW f, DOMAIN f = D, NEW g, XorsTo(f, g, D)
  PROVE  FoldFunction(Xor, Zero, f) = g[D]
<1> DEFINE At(h, s) == IF s = {} THEN Zero ELSE Xor(f[Picked(s)], h[s \ {Picked(s)}])
           IsIter(h) == h = [s \in SUBSET D |-> At(h, s)]
           iter == CHOOSE h : IsIter(h)
           k == [s \in SUBSET D |-> g[s]]
<1>1. FoldFunction(Xor, Zero, f) = iter[D]
  BY DEF FoldFunction, FoldFunctionOnSet, MapThenFoldSet, Picked
<1>2. \A s \in SUBSET D : s # {} => Picked(s) \in s /\ s \ {Picked(s)} \in SUBSET D
  BY DEF Picked
<1>3. /\ g[{}] = Zero
      /\ \A s \in SUBSET D : s # {} => g[s] = Xor(f[Picked(s)], g[s \ {Picked(s)}])
  BY <1>2 DEF XorsTo
<1>4. IsIter(k)
  <2>1. ASSUME NEW s \in SUBSET D
        PROVE  At(k, s) = g[s]
    <3>1. CASE s = {}
      BY <1>3, <3>1
    <3>2. CASE s # {}
      <4>1. k[s \ {Picked(s)}] = g[s \ {Picked(s)}]
        BY <1>2, <3>2
      <4> HIDE DEF k
      <4> QED
        BY <1>3, <3>2, <4>1
    <3> QED
      BY <3>1, <3>2
  <2> HIDE DEF At
  <2> QED
    BY <2>1
<1>5. IsIter(iter)
  <2>1. \E h : IsIter(h)
    <3> HIDE DEF IsIter
    <3> QED
      BY <1>4
  <2> HIDE DEF IsIter
  <2> QED
    BY <2>1
<1> HIDE DEF iter
<1>6. \A s \in SUBSET D : iter[s] = At(iter, s)
  <2> HIDE DEF At
  <2> QED
    BY <1>5
<1> DEFINE C == {s \in SUBSET D : iter[s] # g[s]}
<1>7. ASSUME C # {}
      PROVE  FALSE
  <2>1. PICK s \in C : \A u \in C : u \subseteq s => u = s
    <3>1. C \subseteq SUBSET D
      OBVIOUS
    <3> HIDE DEF C
    <3> QED
      BY <1>7, <3>1, LeastSet
  <2>2. s # {}
    BY <1>3, <1>6, <2>1
  <2>3. s \ {Picked(s)} \in SUBSET D /\ s \ {Picked(s)} \notin C
    BY <1>2, <2>1, <2>2
  <2>4. iter[s \ {Picked(s)}] = g[s \ {Picked(s)}]
    BY <2>3
  <2>5. iter[s] = g[s]
    BY <1>3, <1>6, <2>1, <2>2, <2>4
  <2> QED
    BY <2>1, <2>5
<1>8. iter[D] = g[D]
  BY <1>7
<1> QED
  BY <1>1, <1>8

(* A table that is filled from the lowest bit up.                            *)
Fills(m, base, g, D) ==
  /\ g[{}] = Zero
  /\ \A b \in SUBSET D : b # {} => g[b] = Xor(g[b \ {Min(b)}], m[base + Min(b) + 1])

FilledAt(m, base, h, b) ==
  IF b = {} THEN Zero ELSE Xor(h[b \ {Min(b)}], m[base + Min(b) + 1])

IsFilled(m, base, h, D) == h = [b \in SUBSET D |-> FilledAt(m, base, h, b)]

LEMMA LeastOf ==
  ASSUME NEW b, b \subseteq Nat, b # {}
  PROVE  Min(b) \in b /\ \A i \in b : Min(b) <= i
<1>1. \E n \in b : \A i \in b : n <= i
  BY LeastNumber
<1> QED
  BY <1>1 DEF Min

Agree(h, g, D) == \A b \in SUBSET D : h[b] = g[b]

IsTable(h, m, base, D) == h = CHOOSE t : IsFilled(m, base, t, D)

LEMMA TableFilled ==
  ASSUME NEW D, IsFiniteSet(D), D \subseteq Nat, NEW m, NEW base, NEW g, Fills(m, base, g, D),
         NEW h, IsTable(h, m, base, D)
  PROVE  Agree(h, g, D)
<1> DEFINE k == [b \in SUBSET D |-> g[b]]
<1>1. \A b \in SUBSET D : b # {} => Min(b) \in b /\ b \ {Min(b)} \in SUBSET D
  <2>1. \A b \in SUBSET D : b \subseteq Nat
    OBVIOUS
  <2> QED
    BY <2>1, LeastOf
<1>2. IsFilled(m, base, k, D)
  <2>1. ASSUME NEW b \in SUBSET D
        PROVE  FilledAt(m, base, k, b) = g[b]
    <3>1. CASE b = {}
      BY <3>1 DEF FilledAt, Fills
    <3>2. CASE b # {}
      <4>1. k[b \ {Min(b)}] = g[b \ {Min(b)}]
        BY <1>1, <3>2
      <4> HIDE DEF k
      <4> QED
        BY <3>2, <4>1 DEF FilledAt, Fills
    <3> QED
      BY <3>1, <3>2
  <2> QED
    BY <2>1 DEF IsFilled
<1>3. IsFilled(m, base, h, D)
  <2>1. \E t : IsFilled(m, base, t, D)
    BY <1>2
  <2> QED
    BY <2>1 DEF IsTable
<1>4. \A b \in SUBSET D : h[b] = FilledAt(m, base, h, b)
  BY <1>3 DEF IsFilled
<1> DEFINE C == {b \in SUBSET D : h[b] # g[b]}
<1>5. ASSUME C # {}
      PROVE  FALSE
  <2>1. PICK b \in C : \A u \in C : u \subseteq b => u = b
    <3>1. C \subseteq SUBSET D
      OBVIOUS
    <3> HIDE DEF C
    <3> QED
      BY ONLY IsFiniteSet(D), <1>5, <3>1, LeastSet
  <2>2. b # {}
    BY <1>4, <2>1 DEF FilledAt, Fills
  <2>3. b \ {Min(b)} \in SUBSET D /\ b \ {Min(b)} \notin C
    BY <1>1, <2>1, <2>2
  <2>4. h[b \ {Min(b)}] = g[b \ {Min(b)}]
    BY <2>3
  <2>5. h[b] = g[b]
    BY <1>4, <2>1, <2>2, <2>4 DEF FilledAt, Fills
  <2> QED
    BY <2>1, <2>5
<1> QED
  BY <1>5 DEF Agree

Shifted(base, b) == {base + i : i \in b}

LEMMA TableEntries ==
  ASSUME NEW e \in Int, NEW m, NEW base \in Nat, NEW h, IsTable(h, m, base, 0 .. e)
  PROVE  \A b \in SUBSET (0 .. e) : h[b] = Combination(m, Shifted(base, b))
<1> DEFINE D == 0 .. e
           g == [b \in SUBSET D |-> Combination(m, Shifted(base, b))]
<1>1. g[{}] = Zero
  <2>1. Shifted(base, {}) = {}
    BY DEF Shifted
  <2> QED
    BY <2>1, CombinationSmall
<1>2. ASSUME NEW b \in SUBSET D, b # {}
      PROVE  g[b] = Xor(g[b \ {Min(b)}], m[base + Min(b) + 1])
  <2> DEFINE p == Min(b)
             rest == b \ {p}
             u == Shifted(base, rest)
  <2>1. p \in b /\ p \in Nat /\ b \subseteq Nat
    <3>1. b \subseteq Nat
      OBVIOUS
    <3> QED
      BY <1>2, <3>1, LeastOf
  <2> HIDE DEF p
  <2>2. rest \in SUBSET D /\ rest \subseteq Nat
    BY <2>1
  <2>3. IsFiniteSet(u)
    <3>1. u \subseteq base .. base + e
      BY <2>2 DEF Shifted
    <3>2. IsFiniteSet(base .. base + e)
      BY FS_Interval
    <3> QED
      BY <3>1, <3>2, FS_Subset
  <2>4. \A i \in Nat : base + i = base + p <=> i = p
    BY <2>1
  <2>5. base + p \notin u
    BY <2>2, <2>4 DEF Shifted
  <2>6. Shifted(base, b) = u \cup {base + p}
    BY <2>1 DEF Shifted
  <2>7. Shifted(base, b) = Xor(u, {base + p})
    BY <2>5, <2>6 DEF Xor, SymDiff
  <2> HIDE DEF u
  <2>8. Combination(m, Xor(u, {base + p})) = Xor(Combination(m, u), m[base + p + 1])
    BY <2>3, CombinationFlip
  <2>9. g[b] = Combination(m, Shifted(base, b)) /\ g[rest] = Combination(m, u)
    BY <2>2 DEF u
  <2> QED
    BY <2>7, <2>8, <2>9 DEF p
<1> HIDE DEF g
<1>3. Fills(m, base, g, D)
  BY <1>1, <1>2 DEF Fills
<1>4. IsFiniteSet(D) /\ D \subseteq Nat
  BY FS_Interval
<1>5. \A b \in SUBSET D : h[b] = g[b]
  <2> HIDE DEF D
  <2>1. IsTable(h, m, base, D)
    BY DEF D
  <2> HIDE DEF g
  <2>2. Fills(m, base, g, D)
    BY <1>3
  <2>3. Agree(h, g, D)
    BY <1>4, <2>1, <2>2, TableFilled
  <2> QED
    BY <2>3 DEF Agree
<1> QED
  BY <1>5 DEF g

(* The tables of the bytes give what the rows add up to.                     *)
LEMMA TablesApply ==
  ASSUME NEW n \in Nat, n >= 1, NEW m \in [1 .. n -> SUBSET (0 .. n - 1)],
         NEW x \in SUBSET (0 .. n - 1)
  PROVE  M4RApply(M4RBuild(m), x) = Combination(m, x)
<1> DEFINE B == ByteBits
           k == CeilDiv(n, B)
           base(c) == (c - 1) * B
           e(c) == Min({n - base(c), B}) - 1
           D(c) == 0 .. e(c)
           tables == M4RBuild(m)
           slice(c) == {i \in x : i \div B = c - 1}
           slices(I) == {i \in x : (i \div B) + 1 \in I}
<1>1. B \in Nat /\ B >= 1
  BY PoolAssumption
<1>2. Len(m) = n
  OBVIOUS
<1>3. \A c \in 1 .. k : IsTable(tables[c], m, base(c), 0 .. e(c))
  <2> SUFFICES ASSUME NEW c \in 1 .. k
               PROVE  IsTable(tables[c], m, base(c), 0 .. e(c))
    OBVIOUS
  <2>1. tables[c] = CHOOSE t : t =
          [b \in SUBSET (0 .. e(c)) |->
             IF b = Zero THEN Zero ELSE Xor(t[b \ {Min(b)}], m[base(c) + Min(b) + 1])]
    BY <1>2 DEF M4RBuild
  <2> QED
    BY <2>1 DEF IsTable, IsFilled, FilledAt, Zero
<1>4. DOMAIN tables = 1 .. k
  BY <1>2 DEF M4RBuild
<1> HIDE DEF tables
<1>5. k \in Nat /\ n <= k * B
  BY <1>1, CeilDivFacts
<1> HIDE DEF k
<1>6. x \subseteq 0 .. n - 1 /\ IsFiniteSet(x)
  <2>1. IsFiniteSet(0 .. n - 1)
    BY FS_Interval
  <2> QED
    BY <2>1, FS_Subset
<1>7. ASSUME NEW i \in x
      PROVE  /\ i \in Nat /\ i < n
             /\ i \div B \in Nat /\ i % B \in 0 .. B - 1
             /\ i = (i \div B) * B + (i % B)
             /\ (i \div B) + 1 \in 1 .. k
  <2>1. i \in Nat /\ i < n
    BY <1>6
  <2> DEFINE q == i \div B
             r == i % B
  <2>2. q \in Nat /\ r \in 0 .. B - 1 /\ i = q * B + r
    BY <1>1, <2>1, Quotients
  <2> HIDE DEF q, r
  <2>3. q < k
    <3> SUFFICES ASSUME q >= k
                 PROVE  FALSE
      BY <1>5, <2>2
    <3>1. q * B >= k * B
      BY <1>1, <1>5, <2>2
    <3>2. q * B \in Nat /\ k * B \in Nat
      BY <1>1, <1>5, <2>2
    <3> QED
      BY <1>1, <1>5, <2>1, <2>2, <3>1, <3>2
  <2>4. q + 1 \in 1 .. k
    BY <1>5, <2>2, <2>3
  <2> QED
    BY <2>1, <2>2, <2>4 DEF q, r
<1>8. ASSUME NEW c \in 1 .. k
      PROVE  /\ base(c) \in Nat
             /\ e(c) \in Int
             /\ Byte(x, c) \in SUBSET D(c)
             /\ Shifted(base(c), Byte(x, c)) = slice(c)
  <2>1. c - 1 \in Nat
    BY <1>5
  <2>2. base(c) \in Nat
    BY <1>1, <2>1
  <2>3. Byte(x, c) = {i - base(c) : i \in slice(c)}
    BY DEF Byte
  <2>4. \A i \in slice(c) : /\ i \in x /\ i \in Nat
                            /\ i - base(c) \in Nat /\ i - base(c) < n - base(c)
                            /\ i - base(c) < B
                            /\ base(c) + (i - base(c)) = i
    <3> SUFFICES ASSUME NEW i \in x, i \div B = c - 1
                 PROVE  /\ i \in Nat
                        /\ i - base(c) \in Nat /\ i - base(c) < n - base(c)
                        /\ i - base(c) < B
                        /\ base(c) + (i - base(c)) = i
      OBVIOUS
    <3>1. i = base(c) + (i % B) /\ i \in Nat /\ i < n /\ i % B \in 0 .. B - 1
      BY <1>7
    <3> HIDE DEF base
    <3> QED
      BY <1>1, <2>2, <3>1
  <2>5. Min({n - base(c), B}) = IF n - base(c) <= B THEN n - base(c) ELSE B
    <3>1. n - base(c) \in Int /\ B \in Int
      BY <1>1, <2>2
    <3> QED
      BY <3>1, LeastOfTwo
  <2> HIDE DEF base
  <2>6. Min({n - base(c), B}) \in Int
    BY <1>1, <2>2, <2>5
  <2>7. \A j \in Nat : j < n - base(c) /\ j < B => j \in D(c)
    BY <1>1, <2>2, <2>5, <2>6
  <2>8. e(c) \in Int
    BY <2>6
  <2>9. Byte(x, c) \in SUBSET D(c)
    BY <2>3, <2>4, <2>7
  <2>10. Shifted(base(c), Byte(x, c)) = slice(c)
    <3>1. \A j : j \in Shifted(base(c), Byte(x, c)) <=> \E i \in slice(c) : j = base(c) + (i - base(c))
      BY <2>3 DEF Shifted
    <3> HIDE DEF slice
    <3>2. \A j : j \in Shifted(base(c), Byte(x, c)) <=> j \in slice(c)
      BY <2>4, <3>1
    <3> QED
      BY <3>2
  <2> QED
    BY <2>2, <2>8, <2>9, <2>10
<1>9. \A c \in 1 .. k : tables[c][Byte(x, c)] = Combination(m, slice(c))
  <2> SUFFICES ASSUME NEW c \in 1 .. k
               PROVE  tables[c][Byte(x, c)] = Combination(m, slice(c))
    OBVIOUS
  <2> HIDE DEF e, base, slice
  <2>1. IsTable(tables[c], m, base(c), 0 .. e(c))
    BY <1>3
  <2>2. \A b \in SUBSET D(c) : tables[c][b] = Combination(m, Shifted(base(c), b))
    BY <1>8, <2>1, TableEntries
  <2> QED
    BY <1>8, <2>2
<1> DEFINE f == [c \in 1 .. k |-> tables[c][Byte(x, c)]]
           g == [I \in SUBSET (1 .. k) |-> Combination(m, slices(I))]
<1>10. M4RApply(tables, x) = FoldFunction(Xor, Zero, f)
  BY <1>4 DEF M4RApply
<1>11. XorsTo(f, g, 1 .. k)
  <2>1. g[{}] = Zero
    <3>1. slices({}) = {}
      OBVIOUS
    <3> QED
      BY <3>1, CombinationSmall
  <2>2. ASSUME NEW I \in SUBSET (1 .. k), NEW c \in I
        PROVE  g[I] = Xor(f[c], g[I \ {c}])
    <3>1. c \in 1 .. k /\ c \in Nat
      BY <1>5
    <3>2. \A i \in x : i \div B = c - 1 <=> (i \div B) + 1 = c
      <4>1. \A q \in Nat : q = c - 1 <=> q + 1 = c
        BY <3>1
      <4> QED
        BY <1>7, <4>1
    <3>3. slices(I) = slice(c) \cup slices(I \ {c}) /\ slice(c) \cap slices(I \ {c}) = {}
      BY <3>2
    <3>4. IsFiniteSet(slice(c)) /\ IsFiniteSet(slices(I \ {c}))
      <4>1. slice(c) \subseteq x /\ slices(I \ {c}) \subseteq x
        OBVIOUS
      <4> QED
        BY <1>6, <4>1, FS_Subset
    <3>5. /\ g[I] = Combination(m, slices(I)) /\ g[I \ {c}] = Combination(m, slices(I \ {c}))
          /\ f[c] = Combination(m, slice(c))
      BY <1>9, <3>1
    <3> HIDE DEF slice, slices, f, g
    <3>6. Combination(m, slice(c) \cup slices(I \ {c}))
            = Xor(Combination(m, slice(c)), Combination(m, slices(I \ {c})))
      BY <3>3, <3>4, CombinationUnion
    <3> QED
      BY <3>3, <3>5, <3>6
  <2> HIDE DEF f, g
  <2> QED
    BY <2>1, <2>2 DEF XorsTo
<1>12. IsFiniteSet(1 .. k) /\ DOMAIN f = 1 .. k
  BY <1>5, FS_Interval
<1> HIDE DEF f, g
<1>13. M4RApply(tables, x) = g[1 .. k]
  BY <1>10, <1>11, <1>12, XorFold
<1>14. slices(1 .. k) = x
  BY <1>7
<1> QED
  BY <1>13, <1>14 DEF tables, g

(* The table of all words, filled along the Gray code, does too.             *)
LEMMA GrayTable ==
  ASSUME NEW n \in Nat, NEW m \in [1 .. n -> SUBSET (0 .. n - 1)],
         NEW x \in SUBSET (0 .. n - 1)
  PROVE  SigmaQTable(m)[x] = Combination(m, x)
<1> DEFINE b == 2^n - 1
           gray(i) == GrayWord(i, n)
           both(i) == <<gray(i), Combination(m, gray(i))>>
           At(g, i) == IF i = 0 THEN <<Zero, Zero>>
                       ELSE LET flip == TrailingZeros(i)
                            IN <<Xor(g[i - 1][1], {flip}), Xor(g[i - 1][2], m[flip + 1])>>
           IsWalk(g) == g = [i \in 0 .. b |-> At(g, i)]
           h == CHOOSE g : IsWalk(g)
           k == [i \in 0 .. b |-> both(i)]
           at == [i \in DOMAIN h |-> h[i]]
<1>1. Len(m) = n
  OBVIOUS
<1>2. SigmaQTable(m) = [u \in SUBSET (0 .. n - 1) |-> at[CHOOSE i \in DOMAIN at : at[i][1] = u][2]]
  BY <1>1 DEF SigmaQTable
<1>3. /\ b \in Nat /\ 0 \in 0 .. b
      /\ \A i \in 0 .. b : i # 0 => i \in 1 .. 2^n - 1 /\ i - 1 \in 0 .. b
  BY PowerOfTwo
<1>4. \A i : gray(i) \in SUBSET (0 .. n - 1) /\ IsFiniteSet(gray(i))
  <2>1. IsFiniteSet(0 .. n - 1)
    BY FS_Interval
  <2>2. \A i : gray(i) \in SUBSET (0 .. n - 1)
    BY GrayOnto
  <2> HIDE DEF gray
  <2> QED
    BY <2>1, <2>2, FS_Subset
<1>5. both(0) = <<Zero, Zero>>
  BY GrayZero, CombinationSmall DEF Zero
<1>6. \A i \in 0 .. b : i # 0 =>
        both(i) = <<Xor(gray(i - 1), {TrailingZeros(i)}),
                    Xor(Combination(m, gray(i - 1)), m[TrailingZeros(i) + 1])>>
  <2> SUFFICES ASSUME NEW i \in 0 .. b, i # 0
               PROVE  both(i) = <<Xor(gray(i - 1), {TrailingZeros(i)}),
                                  Xor(Combination(m, gray(i - 1)), m[TrailingZeros(i) + 1])>>
    OBVIOUS
  <2>1. gray(i) = Xor(gray(i - 1), {TrailingZeros(i)})
    BY <1>3, GrayStep
  <2> HIDE DEF gray
  <2>2. Combination(m, Xor(gray(i - 1), {TrailingZeros(i)}))
          = Xor(Combination(m, gray(i - 1)), m[TrailingZeros(i) + 1])
    BY <1>4, CombinationFlip
  <2> QED
    BY <2>1, <2>2
<1> HIDE DEF b, gray
<1>7. IsWalk(k)
  <2>1. ASSUME NEW i \in 0 .. b
        PROVE  At(k, i) = both(i)
    <3>1. CASE i = 0
      BY <1>5, <3>1
    <3>2. CASE i # 0
      <4>1. k[i - 1] = both(i - 1)
        BY <1>3, <3>2
      <4>2. k[i - 1][1] = gray(i - 1) /\ k[i - 1][2] = Combination(m, gray(i - 1))
        BY <4>1
      <4> HIDE DEF k, both
      <4> QED
        BY <1>6, <3>2, <4>2
    <3> QED
      BY <3>1, <3>2
  <2> HIDE DEF At, both
  <2> QED
    BY <2>1
<1>8. IsWalk(h)
  <2>1. \E g : IsWalk(g)
    <3> HIDE DEF IsWalk
    <3> QED
      BY <1>7
  <2> HIDE DEF IsWalk
  <2> QED
    BY <2>1
<1> HIDE DEF h
<1>9. DOMAIN h = 0 .. b /\ \A i \in 0 .. b : h[i] = At(h, i)
  <2> HIDE DEF At
  <2> QED
    BY <1>8
<1> DEFINE C == {i \in 0 .. b : h[i] = both(i)}
<1>10. 0 \in C
  BY <1>3, <1>5, <1>9
<1>11. ASSUME NEW i \in 0 .. b, i > 0, i - 1 \in C
       PROVE  i \in C
  <2>1. h[i - 1][1] = gray(i - 1) /\ h[i - 1][2] = Combination(m, gray(i - 1))
    BY <1>11
  <2>2. i # 0
    BY <1>11
  <2> HIDE DEF both
  <2>3. h[i] = both(i)
    BY <1>6, <1>9, <2>1, <2>2
  <2> QED
    BY <2>3
<1>12. 0 .. b \subseteq C
  <2>1. C \subseteq 0 .. b /\ 0 \in Nat /\ 0 <= b
    BY <1>3
  <2> HIDE DEF C
  <2>2. \A i \in 0 .. b : i > 0 /\ i - 1 \in C => i \in C
    BY <1>11
  <2> QED
    BY <1>3, <1>10, <2>1, <2>2, RangeInduction
<1>13. DOMAIN at = 0 .. b /\ \A i \in 0 .. b : at[i][1] = gray(i) /\ at[i][2] = Combination(m, gray(i))
  BY <1>9, <1>12
<1> HIDE DEF at
<1>14. \E i \in 0 .. b : at[i][1] = x
  <2>1. \E i \in 0 .. b : gray(i) = x
    BY GrayOnto DEF gray, b
  <2> QED
    BY <1>13, <2>1
<1> DEFINE j == CHOOSE i \in DOMAIN at : at[i][1] = x
<1>15. j \in 0 .. b /\ at[j][1] = x
  BY <1>13, <1>14
<1>16. SigmaQTable(m)[x] = at[j][2]
  BY <1>2
<1> HIDE DEF j
<1> QED
  BY <1>13, <1>15, <1>16

-----------------------------------------------------------------------------
(* The images of a level.                                                    *)

(* Every kernel computes the same image: the XOR of the rows of the          *)
(* generator that the word selects (m4r_apply, sigma_q_table, mat_apply).    *)
THEOREM ImageIsSum ==
  ASSUME search \in Searches, NEW i \in DOMAIN Gens, NEW x \in Words
  PROVE  Image(i, x) = Combination(Gens[i], x) /\ Image(i, x) \in Words
<1> DEFINE n == L
           m == Gens[i]
<1>1. n \in Nat /\ n >= 1 /\ Gens \in Seq([1 .. n -> SUBSET (0 .. n - 1)]) /\ L = Length(search)
  BY SearchType, GensType DEF L, Gens, MatricesOf, WordsOf
<1>2. /\ m \in [1 .. n -> SUBSET (0 .. n - 1)] /\ i \in DOMAIN GensOf(search)
      /\ m = GensOf(search)[i]
  BY <1>1 DEF Gens
<1>3. x \in SUBSET (0 .. n - 1)
  BY DEF Words
<1>4. Tables[search][i] = IF search.by = "table" THEN SigmaQTable(m)
                          ELSE IF UsesTables(search) THEN M4RBuild(m)
                          ELSE <<>>
  BY <1>2 DEF Tables
<1>5. SigmaQTable(m)[x] = Combination(m, x) /\ M4RApply(M4RBuild(m), x) = Combination(m, x)
  <2> HIDE DEF n, m
  <2> QED
    BY <1>1, <1>2, <1>3, GrayTable, TablesApply
<1>6. Image(i, x) = Combination(m, x)
  BY <1>4, <1>5 DEF Image
<1>7. Combination(m, x) \in Words
  <2>1. \A j \in x : m[j + 1] \subseteq 0 .. n - 1
    <3>1. \A j \in x : j + 1 \in 1 .. n
      BY <1>1, <1>3
    <3> HIDE DEF n, m
    <3> QED
      BY <1>2, <3>1
  <2>2. Combination(m, x) \subseteq 0 .. n - 1
    BY <2>1, CombinationType
  <2> QED
    BY <2>2 DEF Words
<1> QED
  BY <1>6, <1>7

Reach(s, x) == {Combination(GensOf(s)[i], x) : i \in DOMAIN GensOf(s)}

(* All the images of the words of a sequence, each of a generator.           *)
Grid(s) ==
  [i \in 1 .. Len(s) * Len(Gens) |-> Image(((i - 1) \div Len(s)) + 1, s[((i - 1) % Len(s)) + 1])]

LEMMA GridFacts ==
  ASSUME search \in Searches, NEW s \in Seq(Words)
  PROVE  /\ Grid(s) \in Seq(Words)
         /\ ToSet(Grid(s)) = UNION {Reach(search, x) : x \in ToSet(s)}
<1> DEFINE n == Len(s)
           g == Len(Gens)
           word(i) == s[((i - 1) % n) + 1]
           gen(i) == ((i - 1) \div n) + 1
<1>1. /\ n \in Nat /\ g \in Nat /\ DOMAIN Gens = 1 .. g /\ DOMAIN s = 1 .. n
      /\ \A j \in 1 .. n : s[j] \in Words
  <2>1. Gens \in Seq(MatricesOf(search))
    BY GensType DEF Gens
  <2> QED
    BY <2>1
<1>2. Grid(s) = [i \in 1 .. n * g |-> Image(gen(i), word(i))]
  BY DEF Grid
<1> HIDE DEF n, g
<1>3. ASSUME NEW i \in 1 .. n * g
      PROVE  gen(i) \in 1 .. g /\ ((i - 1) % n) + 1 \in 1 .. n
  <2>1. n * g \in Nat
    BY <1>1
  <2>2. i - 1 \in Nat /\ i - 1 < n * g
    BY <2>1
  <2>3. n >= 1
    <3>1. n = 0 => n * g = 0
      BY <1>1
    <3> QED
      BY <1>1, <2>1, <3>1
  <2> DEFINE q == (i - 1) \div n
             r == (i - 1) % n
  <2>4. q \in Nat /\ r \in 0 .. n - 1 /\ i - 1 = q * n + r
    BY <1>1, <2>2, <2>3, Quotients
  <2> HIDE DEF q, r
  <2>5. q < g
    <3> SUFFICES ASSUME q >= g
                 PROVE  FALSE
      BY <1>1, <2>4
    <3>1. q * n >= g * n /\ g * n = n * g
      BY <1>1, <2>4
    <3>2. q * n \in Nat
      BY <1>1, <2>4
    <3> QED
      BY <2>1, <2>2, <2>4, <3>1, <3>2
  <2>6. q + 1 \in 1 .. g /\ r + 1 \in 1 .. n
    BY <1>1, <2>4, <2>5
  <2> QED
    BY <2>6 DEF q, r
<1>4. \A i \in 1 .. n * g : /\ word(i) \in Words /\ word(i) \in ToSet(s)
                            /\ Image(gen(i), word(i)) \in Words
                            /\ Image(gen(i), word(i)) \in Reach(search, word(i))
  <2> SUFFICES ASSUME NEW i \in 1 .. n * g
               PROVE  /\ word(i) \in Words /\ word(i) \in ToSet(s)
                      /\ Image(gen(i), word(i)) \in Words
                      /\ Image(gen(i), word(i)) \in Reach(search, word(i))
    OBVIOUS
  <2>1. gen(i) \in DOMAIN Gens
    BY <1>1, <1>3
  <2>2. word(i) \in Words /\ word(i) \in ToSet(s)
    BY <1>1, <1>3 DEF ToSet
  <2> HIDE DEF gen, word
  <2>3. Image(gen(i), word(i)) = Combination(Gens[gen(i)], word(i)) /\ Image(gen(i), word(i)) \in Words
    BY <2>1, <2>2, ImageIsSum
  <2> QED
    BY <2>1, <2>2, <2>3 DEF Reach, Gens
(* Each pair of a word and a generator has its place.                        *)
<1>5. ASSUME NEW j \in 1 .. n, NEW c \in 1 .. g
      PROVE  \E i \in 1 .. n * g : gen(i) = c /\ ((i - 1) % n) + 1 = j
  <2> DEFINE q == c - 1
             r == j - 1
             p == q * n
             k == p + r
  <2>1. q \in Nat /\ r \in 0 .. n - 1 /\ q + 1 = c /\ r + 1 = j /\ n >= 1 /\ c <= g
    BY <1>1
  <2>2. p \in Nat /\ p + n = c * n /\ c * n <= g * n /\ g * n = n * g /\ n * g \in Nat
    <3>1. c * n = (c - 1) * n + n
      BY <1>1
    <3>2. c * n <= g * n
      BY <1>1
    <3>3. p \in Nat
      BY <1>1, <2>1
    <3>4. g * n = n * g /\ n * g \in Nat
      BY <1>1
    <3> QED
      BY <3>1, <3>2, <3>3, <3>4
  <2> HIDE DEF p
  <2>3. k \in Nat /\ k + 1 \in 1 .. n * g /\ (k + 1) - 1 = k
    BY <1>1, <2>1, <2>2
  <2>4. k = q * n + r
    BY DEF p
  <2> HIDE DEF k, q, r
  <2>5. k \div n = q /\ k % n = r
    <3>1. \A a \in Nat, b \in 0 .. n - 1 : k = a * n + b => k \div n = a /\ k % n = b
      BY <1>1, <2>1, <2>3, Quotients
    <3> QED
      BY <2>1, <2>4, <3>1
  <2>6. gen(k + 1) = c /\ (((k + 1) - 1) % n) + 1 = j
    BY <2>1, <2>3, <2>5
  <2> QED
    BY <2>3, <2>6
<1>6. n * g \in Nat
  BY <1>1
<1>7. DOMAIN Grid(s) = 1 .. n * g /\ \A i \in 1 .. n * g : Grid(s)[i] = Image(gen(i), word(i))
  BY <1>2
<1>8. Grid(s) \in [1 .. n * g -> Words]
  BY <1>2, <1>4
<1>9. Grid(s) \in Seq(Words)
  BY <1>6, <1>8
<1>10. ToSet(Grid(s)) \subseteq UNION {Reach(search, x) : x \in ToSet(s)}
  <2> SUFFICES ASSUME NEW i \in 1 .. n * g
               PROVE  Grid(s)[i] \in UNION {Reach(search, x) : x \in ToSet(s)}
    BY <1>7 DEF ToSet
  <2> HIDE DEF gen, word
  <2> QED
    BY <1>4, <1>7
<1>11. ASSUME NEW x \in ToSet(s), NEW y \in Reach(search, x)
       PROVE  y \in ToSet(Grid(s))
  <2>1. PICK j \in 1 .. n : x = s[j]
    BY <1>1 DEF ToSet
  <2>2. PICK c \in 1 .. g : y = Combination(Gens[c], x)
    BY <1>1 DEF Reach, Gens
  <2>3. PICK i \in 1 .. n * g : gen(i) = c /\ ((i - 1) % n) + 1 = j
    BY <1>5
  <2>4. word(i) = x /\ c \in DOMAIN Gens /\ x \in Words
    BY <1>1, <2>1, <2>3
  <2> HIDE DEF gen, word
  <2>5. Image(c, x) = Combination(Gens[c], x)
    BY <2>4, ImageIsSum
  <2>6. Grid(s)[i] = y
    BY <1>7, <2>2, <2>3, <2>4, <2>5
  <2> QED
    BY <1>7, <2>6 DEF ToSet
<1> QED
  BY <1>9, <1>10, <1>11

(* The images of a level are words, and are those of each of its words.      *)
LEMMA ImagesFacts ==
  ASSUME search \in Searches, NEW level \in Seq(Words)
  PROVE  /\ Images(level) \in Seq(Words)
         /\ ToSet(Images(level)) = UNION {Reach(search, x) : x \in ToSet(level)}
<1> DEFINE n == Len(level)
           size == IF UsesTables(search) THEN ProbeChunk ELSE 1
           chunk(c) == SubSeq(level, (c - 1) * size + 1, Min({c * size, n}))
           k == CeilDiv(n, size)
           G == [c \in 1 .. k |-> Grid(chunk(c))]
<1>1. /\ n \in Nat /\ DOMAIN level = 1 .. n /\ size \in Nat /\ size >= 1
      /\ \A j \in 1 .. n : level[j] \in Words
  BY PoolAssumption
<1>2. Images(level) = FlattenSeq(G)
  BY DEF Images, Grid
<1> HIDE DEF n, size
<1>3. k \in Nat /\ n <= k * size /\ k * size < n + size
  BY <1>1, CeilDivFacts
<1> HIDE DEF k
<1>4. ASSUME NEW c \in 1 .. k
      PROVE  /\ chunk(c) \in Seq(Words)
             /\ \A x : x \in ToSet(chunk(c)) <=>
                  \E j \in 1 .. n : (c - 1) * size < j /\ j <= c * size /\ x = level[j]
  <2> DEFINE a == (c - 1) * size
             z == Min({c * size, n})
  <2>1. c - 1 \in Nat /\ c \in Nat
    BY <1>3
  <2>2. a \in Nat /\ c * size \in Nat
    BY <1>1, <2>1
  <2>3. z = IF c * size <= n THEN c * size ELSE n
    BY <1>1, <2>2, LeastOfTwo
  <2> HIDE DEF a, z
  <2>4. z \in Nat /\ z <= n
    BY <1>1, <2>2, <2>3
  <2>5. chunk(c) = SubSeq(level, a + 1, z)
    BY DEF a, z
  <2> DEFINE sub == SubSeq(level, a + 1, z)
             len == IF a + 1 <= z THEN z - a ELSE 0
  <2>6. sub \in Seq(Words) /\ Len(sub) = len /\ \A i \in 1 .. len : sub[i] = level[a + i]
    BY <1>1, <2>2, <2>4 DEF n
  <2>7. DOMAIN sub = 1 .. len
    BY <2>6
  <2> HIDE DEF sub
  <2>8. \A x : x \in ToSet(sub) <=> \E i \in 1 .. len : x = level[a + i]
    BY <2>6, <2>7 DEF ToSet
  <2>9. \A x : (\E i \in 1 .. len : x = level[a + i]) <=> \E j \in 1 .. n : a < j /\ j <= z /\ x = level[j]
    <3>1. ASSUME NEW i \in 1 .. len
          PROVE  a + i \in 1 .. n /\ a < a + i /\ a + i <= z
      <4>1. i \in Int /\ 1 <= i /\ i <= len /\ a + 1 <= z
        BY <2>2, <2>4
      <4>2. i <= z - a
        BY <4>1
      <4> QED
        BY <1>1, <2>2, <2>4, <4>1, <4>2
    <3>2. ASSUME NEW j \in 1 .. n, a < j, j <= z
          PROVE  j - a \in 1 .. len /\ a + (j - a) = j
      BY <1>1, <2>2, <2>4, <3>2
    <3> QED
      BY <3>1, <3>2
  <2>10. \A j \in 1 .. n : j <= z <=> j <= c * size
    BY <1>1, <2>2, <2>3
  <2> QED
    BY <2>5, <2>6, <2>8, <2>9, <2>10 DEF a, sub
<1>5. ASSUME NEW j \in 1 .. n
      PROVE  \E c \in 1 .. k : (c - 1) * size < j /\ j <= c * size
  <2> DEFINE q == (j - 1) \div size
             r == (j - 1) % size
  <2>1. j - 1 \in Nat
    BY <1>1
  <2>2. q \in Nat /\ r \in 0 .. size - 1 /\ j - 1 = q * size + r
    BY <1>1, <2>1, Quotients
  <2> HIDE DEF q, r
  <2>3. q * size \in Nat /\ (q + 1) * size = q * size + size /\ (q + 1) - 1 = q
    BY <1>1, <2>2
  <2>4. q < k
    <3> SUFFICES ASSUME q >= k
                 PROVE  FALSE
      BY <1>3, <2>2
    <3>1. q * size >= k * size /\ k * size \in Nat
      BY <1>1, <1>3, <2>2
    <3> QED
      BY <1>1, <1>3, <2>2, <2>3, <3>1
  <2>5. q + 1 \in 1 .. k
    BY <1>3, <2>2, <2>4
  <2>6. ((q + 1) - 1) * size < j /\ j <= (q + 1) * size
    BY <1>1, <2>1, <2>2, <2>3
  <2> QED
    BY <2>5, <2>6
<1> HIDE DEF chunk
<1>6. \A c \in 1 .. k : /\ Grid(chunk(c)) \in Seq(Words)
                        /\ ToSet(Grid(chunk(c))) = UNION {Reach(search, x) : x \in ToSet(chunk(c))}
  BY <1>4, GridFacts
<1>7. G \in [1 .. k -> Seq(Words)] /\ \A c \in 1 .. k : G[c] = Grid(chunk(c))
  BY <1>6
<1> HIDE DEF G
<1>8. G \in Seq(Seq(Words)) /\ Len(G) = k
  BY <1>3, <1>7
<1>9. FlattenSeq(G) \in Seq(Words) /\ ToSet(FlattenSeq(G)) = HeldBy(G, k)
  BY <1>8, FlattenFacts
<1>10. \A y : y \in HeldBy(G, k) <=> \E c \in 1 .. k : \E x \in ToSet(chunk(c)) : y \in Reach(search, x)
  <2>1. \A y : y \in HeldBy(G, k) <=> \E c \in 1 .. k : y \in ToSet(G[c])
    BY DEF HeldBy
  <2>2. \A c \in 1 .. k : \A y : y \in ToSet(G[c]) <=> \E x \in ToSet(chunk(c)) : y \in Reach(search, x)
    BY <1>6, <1>7
  <2> QED
    BY <2>1, <2>2
<1>11. \A x : x \in ToSet(level) <=> \E c \in 1 .. k : x \in ToSet(chunk(c))
  <2>1. \A x : x \in ToSet(level) <=> \E j \in 1 .. n : x = level[j]
    BY <1>1 DEF ToSet
  <2>2. \A x : (\E c \in 1 .. k : x \in ToSet(chunk(c))) =>
          \E j \in 1 .. n : x = level[j]
    BY <1>4
  <2>3. \A j \in 1 .. n : \E c \in 1 .. k : level[j] \in ToSet(chunk(c))
    BY <1>4, <1>5
  <2> QED
    BY <2>1, <2>2, <2>3
<1>12. \A y : y \in HeldBy(G, k) <=> \E x \in ToSet(level) : y \in Reach(search, x)
  BY <1>10, <1>11
<1>13. HeldBy(G, k) = UNION {Reach(search, x) : x \in ToSet(level)}
  BY <1>12
<1> QED
  BY <1>2, <1>9, <1>13

-----------------------------------------------------------------------------
(* The invariant.  Between the calls all queues are empty.  In a call every  *)
(* range is in one place: not sent, in the task queue, with one helper, in   *)
(* the result channel or in its slot.                                        *)

WalkTasks == [kind : {"walk"}, idx : DOMAIN WalkParts[search]]

LevelTasks == [kind : {"level"}, idx : Nat, words : Seq(Words)]

Tasks == IF pc = "walkParts" THEN WalkTasks ELSE LevelTasks

InCall == pc \in {"walkParts", "levelParts"}

Busy == {h \in Helpers : job[h] # NoJob}

CallType ==
  /\ unsent \in Seq(Tasks) /\ tasks \in Seq(Tasks)
  /\ results \in Seq([idx : Nat, part : Seq(Words)])
  /\ slots \in [DOMAIN slots -> Seq(Words)]
  /\ job \in [Helpers -> Tasks \cup {NoJob}]

(* The claims are made in a level, by helpers with a task.                   *)
Quiet ==
  /\ ~InCall => unsent = <<>> /\ slots = <<>> /\ tasks = <<>> /\ results = <<>> /\ Busy = {}
  /\ \A h \in Helpers : job[h] = NoJob => probes[h] = <<>> /\ part[h] = <<>>
  /\ pc = "walkParts" => \A h \in Helpers : probes[h] = <<>>

Fresh ==
  /\ pc \in {"walk", "walkParts", "sort"} => seen = {}
  /\ pc \in {"idle", "join", "done"} => reps = <<>>
  /\ pc # "level" => queue = <<>>

Ids(s) == {t.idx : t \in ToSet(s)}

Once(s) == \A i, j \in DOMAIN s : s[i].idx = s[j].idx => i = j

JobIds == {job[h].idx : h \in Busy}

Numbered ==
  /\ \A i \in DOMAIN unsent : unsent[i].idx = sent + i
  /\ Ids(tasks) \cup JobIds \cup Ids(results) \cup DOMAIN slots \subseteq 1 .. sent
  /\ Once(tasks) /\ Once(results)
  /\ \A g, h \in Busy : job[g].idx = job[h].idx => g = h
  /\ Ids(tasks) \cap (JobIds \cup Ids(results) \cup DOMAIN slots) = {}
  /\ JobIds \cap (Ids(results) \cup DOMAIN slots) = {}
  /\ Ids(results) \cap DOMAIN slots = {}
  /\ pc = "walkParts" => Len(unsent) + sent = Len(WalkParts[search])

(* What has been found so far, with the range it was found in.               *)
Parts ==
  {<<i, slots[i]>> : i \in DOMAIN slots}
    \cup {<<r.idx, r.part>> : r \in ToSet(results)}
    \cup {<<job[h].idx, part[h]>> : h \in Busy}

Parted ==
  /\ pc = "walkParts" => \A p \in Parts : p[2] = WalkParts[search][p[1]]
  /\ pc = "levelParts" =>
       /\ \A p \in Parts : IsInjective(p[2]) /\ ToSet(p[2]) \subseteq seen
       /\ \A p, q \in Parts : p[1] # q[1] => ToSet(p[2]) \cap ToSet(q[2]) = {}

(* What will be expanded, what has been found and what will be probed.       *)
Pending == UNION {ToSet(t.words) : t \in {t \in ToSet(unsent) \cup ToSet(tasks) : t.kind = "level"}}

Gathered == UNION {ToSet(p[2]) : p \in Parts}

Probed == UNION {ToSet(probes[h]) : h \in Helpers}

Frontier ==
  \A x \in seen :
    \/ x \in ToSet(queue) \cup Pending \cup Gathered
    \/ Reach(search, x) \subseteq seen \cup Probed

Sequential == pc = "sort" => reps = SingularReps

PoolInv == TypeOK /\ CallType /\ Quiet /\ Fresh /\ Numbered /\ Parted /\ Frontier /\ Sequential

-----------------------------------------------------------------------------
(* Queues.                                                                   *)

LEMMA TailFacts ==
  ASSUME NEW T, NEW s \in Seq(T), s # <<>>
  PROVE  /\ Head(s) \in T /\ Tail(s) \in Seq(T) /\ Len(Tail(s)) = Len(s) - 1 /\ Len(s) \in Nat \ {0}
         /\ Head(s) \in ToSet(s)
         /\ ToSet(s) = {Head(s)} \cup ToSet(Tail(s))
         /\ \A i \in DOMAIN Tail(s) : i + 1 \in DOMAIN s /\ Tail(s)[i] = s[i + 1]
         /\ Once(s) => /\ Once(Tail(s)) /\ Head(s).idx \notin Ids(Tail(s))
                       /\ Ids(s) = Ids(Tail(s)) \cup {Head(s).idx}
<1> DEFINE n == Len(s)
           t == Tail(s)
<1>1. /\ n \in Nat /\ n >= 1 /\ DOMAIN s = 1 .. n /\ Head(s) = s[1] /\ Head(s) \in T
      /\ t \in Seq(T) /\ Len(t) = n - 1 /\ DOMAIN t = 1 .. n - 1
      /\ \A i \in 1 .. n - 1 : t[i] = s[i + 1]
  OBVIOUS
<1> HIDE DEF n, t
<1>2. /\ \A i \in 1 .. n - 1 : i + 1 \in 1 .. n /\ i + 1 # 1
      /\ \A i \in 1 .. n : i # 1 => i - 1 \in 1 .. n - 1 /\ (i - 1) + 1 = i
      /\ 1 \in 1 .. n
  BY <1>1
<1>3. Head(s) \in ToSet(s)
  BY <1>1, <1>2 DEF ToSet
<1>4. ToSet(t) \subseteq ToSet(s)
  BY <1>1, <1>2 DEF ToSet
<1>5. ToSet(s) \subseteq {Head(s)} \cup ToSet(t)
  <2> SUFFICES ASSUME NEW i \in 1 .. n, i # 1
               PROVE  s[i] \in ToSet(t)
    BY <1>1 DEF ToSet
  <2>1. s[i] = t[i - 1] /\ i - 1 \in DOMAIN t
    BY <1>1, <1>2
  <2> QED
    BY <2>1 DEF ToSet
<1>6. ASSUME Once(s)
      PROVE  Once(t) /\ Head(s).idx \notin Ids(t)
  <2>1. \A i, j \in 1 .. n : s[i].idx = s[j].idx => i = j
    BY <1>1, <1>6 DEF Once
  <2>2. \A i, j \in 1 .. n - 1 : t[i].idx = t[j].idx => i = j
    <3>1. \A i, j \in 1 .. n - 1 : i + 1 = j + 1 => i = j
      BY <1>1
    <3> QED
      BY <1>1, <1>2, <2>1, <3>1
  <2>3. \A i \in 1 .. n - 1 : t[i].idx # s[1].idx
    BY <1>1, <1>2, <2>1
  <2> QED
    BY <1>1, <2>2, <2>3 DEF Once, Ids, ToSet
<1>7. Ids(s) = Ids(t) \cup {Head(s).idx}
  <2>1. ToSet(s) = {Head(s)} \cup ToSet(t)
    BY <1>3, <1>4, <1>5
  <2> QED
    BY <2>1 DEF Ids
<1> QED
  BY <1>1, <1>2, <1>3, <1>4, <1>5, <1>6, <1>7 DEF n, t

LEMMA AppendFacts ==
  ASSUME NEW T, NEW s \in Seq(T), NEW x \in T
  PROVE  /\ Append(s, x) \in Seq(T) /\ Len(Append(s, x)) = Len(s) + 1
         /\ ToSet(Append(s, x)) = ToSet(s) \cup {x}
         /\ IsInjective(s) /\ x \notin ToSet(s) => IsInjective(Append(s, x))
         /\ Ids(Append(s, x)) = Ids(s) \cup {x.idx}
         /\ Once(s) /\ x.idx \notin Ids(s) => Once(Append(s, x))
<1> DEFINE n == Len(s)
           t == Append(s, x)
<1>1. /\ n \in Nat /\ DOMAIN s = 1 .. n
      /\ t \in Seq(T) /\ Len(t) = n + 1 /\ DOMAIN t = 1 .. n + 1
      /\ \A i \in 1 .. n : t[i] = s[i]
      /\ t[n + 1] = x
  OBVIOUS
<1> HIDE DEF n, t
<1>2. /\ \A i \in 1 .. n + 1 : i \in 1 .. n \/ i = n + 1
      /\ \A i \in 1 .. n : i \in 1 .. n + 1
      /\ n + 1 \in 1 .. n + 1
  BY <1>1
<1>3. ToSet(t) = ToSet(s) \cup {x}
  <2>1. ToSet(t) = {t[i] : i \in 1 .. n + 1} /\ ToSet(s) = {s[i] : i \in 1 .. n}
    BY <1>1 DEF ToSet
  <2> QED
    BY <1>1, <1>2, <2>1
<1>4. ASSUME IsInjective(s), x \notin ToSet(s)
      PROVE  IsInjective(t)
  <2>1. \A i, j \in 1 .. n : s[i] = s[j] => i = j
    BY <1>1, <1>4 DEF IsInjective
  <2>2. \A i \in 1 .. n : s[i] # x
    BY <1>1, <1>4 DEF ToSet
  <2>3. \A i, j \in 1 .. n + 1 : t[i] = t[j] => i = j
    BY <1>1, <1>2, <2>1, <2>2
  <2> QED
    BY <1>1, <2>3 DEF IsInjective
<1>5. Ids(t) = Ids(s) \cup {x.idx}
  BY <1>3 DEF Ids
<1>6. ASSUME Once(s), x.idx \notin Ids(s)
      PROVE  Once(t)
  <2>1. \A i, j \in 1 .. n : s[i].idx = s[j].idx => i = j
    BY <1>1, <1>6 DEF Once
  <2>2. \A i \in 1 .. n : s[i].idx # x.idx
    BY <1>1, <1>6 DEF Ids, ToSet
  <2>3. \A i, j \in 1 .. n + 1 : t[i].idx = t[j].idx => i = j
    BY <1>1, <1>2, <2>1, <2>2
  <2> QED
    BY <1>1, <2>3 DEF Once
<1> QED
  BY <1>1, <1>3, <1>4, <1>5, <1>6 DEF n, t

LEMMA EmptyQueue ==
  ToSet(<<>>) = {} /\ Ids(<<>>) = {} /\ Once(<<>>) /\ IsInjective(<<>>)
BY DEF ToSet, Ids, Once, IsInjective

-----------------------------------------------------------------------------
(* Between the calls.                                                        *)

QuietState ==
  /\ pc \in {"walk", "sort", "scan", "level", "idle", "join", "done"}
  /\ search \in Searches /\ asked \in 1 .. MaxSearches
  /\ sent \in 0 .. PoolSize /\ room \in 0 .. PoolSize
  /\ unsent = <<>> /\ slots = <<>> /\ tasks = <<>> /\ results = <<>>
  /\ job = [h \in Helpers |-> NoJob]
  /\ probes = [h \in Helpers |-> <<>>] /\ part = [h \in Helpers |-> <<>>]
  /\ reps \in Seq(Words) /\ minima \in Seq(Words) /\ queue \in Seq(Words)
  /\ seen \subseteq Words
  /\ open \in BOOLEAN /\ up \subseteq Helpers
  /\ Fresh /\ Sequential
  /\ \A x \in seen : x \in ToSet(queue) \/ Reach(search, x) \subseteq seen

LEMMA QuietInv == QuietState => PoolInv
<1> SUFFICES ASSUME QuietState
             PROVE  PoolInv
  OBVIOUS
<1> USE DEF QuietState
<1>1. ~InCall
  BY DEF InCall
<1>2. Busy = {} /\ DOMAIN slots = {}
  BY DEF Busy
<1>3. \A h \in Helpers : job[h] = NoJob /\ probes[h] = <<>> /\ part[h] = <<>>
  OBVIOUS
<1>4. TypeOK
  <2>1. probes \in [Helpers -> Seq(Words)] /\ part \in [Helpers -> Seq(Words)]
    OBVIOUS
  <2>2. Len(unsent) + sent <= PoolSize /\ Len(results) <= room
    BY PoolSizeType
  <2>3. \A i \in DOMAIN slots : slots[i] \in Seq(Words)
    BY <1>2
  <2> QED
    BY <1>2, <2>1, <2>2, <2>3 DEF TypeOK
<1>5. CallType
  <2>1. \A T : <<>> \in Seq(T)
    OBVIOUS
  <2>2. slots \in [DOMAIN slots -> Seq(Words)]
    BY <1>2
  <2>3. job \in [Helpers -> Tasks \cup {NoJob}]
    OBVIOUS
  <2> QED
    BY <2>1, <2>2, <2>3 DEF CallType
<1>6. Quiet
  BY <1>1, <1>2, <1>3 DEF Quiet, InCall
<1>7. Numbered
  BY <1>1, <1>2, EmptyQueue DEF Numbered, InCall, JobIds
<1>8. Parted
  BY <1>1 DEF Parted, InCall
<1>9. Frontier
  BY DEF Frontier
<1> QED
  BY <1>4, <1>5, <1>6, <1>7, <1>8, <1>9 DEF PoolInv

LEMMA InvQuiet == PoolInv /\ ~InCall => QuietState
<1> SUFFICES ASSUME PoolInv, ~InCall
             PROVE  QuietState
  OBVIOUS
<1> USE DEF PoolInv
<1>1. /\ unsent = <<>> /\ slots = <<>> /\ tasks = <<>> /\ results = <<>> /\ Busy = {}
      /\ \A h \in Helpers : job[h] = NoJob => probes[h] = <<>> /\ part[h] = <<>>
  BY DEF Quiet
<1>2. \A h \in Helpers : job[h] = NoJob /\ probes[h] = <<>> /\ part[h] = <<>>
  BY <1>1 DEF Busy
<1>3. /\ job = [h \in Helpers |-> NoJob] /\ probes = [h \in Helpers |-> <<>>]
      /\ part = [h \in Helpers |-> <<>>]
  <2>1. /\ job \in [Helpers -> Tasks \cup {NoJob}] /\ probes \in [Helpers -> Seq(Words)]
        /\ part \in [Helpers -> Seq(Words)]
    BY DEF TypeOK, CallType
  <2> QED
    BY <1>2, <2>1
<1>4. \A x \in seen : x \in ToSet(queue) \/ Reach(search, x) \subseteq seen
  <2>1. Pending = {}
    BY <1>1, EmptyQueue DEF Pending
  <2>2. Parts = {} /\ Gathered = {}
    BY <1>1, EmptyQueue DEF Parts, Gathered
  <2>3. Probed = {}
    BY <1>2, EmptyQueue DEF Probed
  <2> QED
    BY <2>1, <2>2, <2>3 DEF Frontier
<1> QED
  BY <1>1, <1>3, <1>4 DEF QuietState, TypeOK, InCall

LEMMA InvInit == Init => PoolInv
<1> SUFFICES ASSUME Init
             PROVE  QuietState
  BY QuietInv
<1>1. 1 \in 1 .. MaxSearches /\ 0 \in 0 .. PoolSize
  BY PoolAssumption, PoolSizeType
<1>2. <<>> \in Seq(Words)
  OBVIOUS
<1> QED
  BY <1>1, <1>2 DEF Init, QuietState, Fresh, Sequential

LEMMA SortedType ==
  ASSUME search \in Searches, NEW s \in Seq(Words)
  PROVE  Sorted(s) \in Seq(Words)
<1>1. ToSet(s) \subseteq SUBSET (0 .. L - 1)
  BY DEF ToSet, Words
<1>2. L \in Nat
  BY SearchType DEF L
<1>3. Ascending(ToSet(s)) \in Seq(ToSet(s))
  BY <1>1, <1>2, AscendingLists DEF Lists
<1>4. \A S, T : S \subseteq T => Seq(S) \subseteq Seq(T)
  OBVIOUS
<1> QED
  BY <1>1, <1>3, <1>4 DEF Sorted, Words

(* The level that a serial step comes to is the unseen part of the images.   *)
LEMMA LevelExpanded ==
  ASSUME QuietState, pc = "level", pc' = pc, UNCHANGED <<callVars, reps, minima, tasks, open, results, helperVars>>,
         queue' = Claimable(Images(queue)), seen' = seen \cup ToSet(queue')
  PROVE  QuietState'
<1> USE DEF QuietState
<1>1. Words' = Words /\ search' = search
  BY DEF callVars, askVars, Words, L
<1>2. /\ Images(queue) \in Seq(Words)
      /\ ToSet(Images(queue)) = UNION {Reach(search, x) : x \in ToSet(queue)}
  BY ImagesFacts
<1>3. queue' \in Seq(Words) /\ ToSet(queue') = ToSet(Images(queue)) \ seen
  BY <1>2, ClaimableFacts
<1>4. ToSet(queue') \subseteq Words
  BY <1>3, ToSetConcat
<1>5. ASSUME NEW x \in seen'
      PROVE  x \in ToSet(queue') \/ Reach(search', x) \subseteq seen'
  <2>1. CASE x \in ToSet(queue')
    BY <2>1
  <2>2. CASE x \in seen
    <3>1. x \in ToSet(queue) => Reach(search, x) \subseteq ToSet(Images(queue))
      BY <1>2
    <3>2. Reach(search, x) \subseteq seen \cup ToSet(Images(queue))
      BY <2>2, <3>1
    <3> QED
      BY <1>1, <1>3, <3>2
  <2> QED
    BY <2>1, <2>2
<1>6. Fresh' /\ Sequential'
  BY DEF Fresh, Sequential
<1> QED
  BY <1>1, <1>3, <1>4, <1>5, <1>6 DEF callVars, askVars, helperVars

LEMMA QuietStep ==
  ASSUME QuietState,
         \/ WalkAlone \/ SortReps \/ SkipRep \/ NewMinimum \/ ExpandAlone
         \/ ExpandByTables \/ ExpandByWalk \/ ExpandByWholeTable \/ OrbitDone
         \/ ScanDone \/ NextSearch \/ DropSender \/ JoinHelpers
         \/ \E h \in Helpers : Exit(h)
  PROVE  QuietState'
<1> USE DEF QuietState, Step, callVars, askVars, helperVars, scanVars
<1>1. search' = search => Words' = Words /\ SingularReps' = SingularReps
  BY DEF Words, L, SingularReps
<1>2. CASE WalkAlone
  <2>1. SingularReps \in Seq(Words)
    BY PartsOfWalk DEF SingularReps, WordsOf, Words, L
  <2>2. search' = search /\ UNCHANGED <<asked, unsent, sent, slots, room, minima, queue, seen, tasks, open, results, job, probes, part, up>>
    BY <1>2 DEF WalkAlone
  <2>3. reps' = SingularReps /\ pc = "walk" /\ pc' = "sort"
    BY <1>2 DEF WalkAlone
  <2>4. Fresh' /\ Sequential'
    BY <1>1, <2>2, <2>3 DEF Fresh, Sequential
  <2> QED
    BY <1>1, <2>1, <2>2, <2>3, <2>4
<1>3. CASE SortReps
  <2>1. Sorted(reps) \in Seq(Words) /\ <<>> \in Seq(Words)
    BY SortedType
  <2>2. search' = search /\ UNCHANGED <<asked, unsent, sent, slots, room, queue, seen, tasks, open, results, job, probes, part, up>>
    BY <1>3 DEF SortReps
  <2>3. /\ pc = "sort" /\ pc' \in {"idle", "scan"} /\ reps' \in {<<>>, Sorted(reps)}
        /\ minima' \in {minima, Sorted(reps)} /\ (pc' = "idle" => reps' = <<>>)
    BY <1>3 DEF SortReps
  <2>4. Fresh' /\ Sequential'
    BY <1>1, <2>2, <2>3 DEF Fresh, Sequential
  <2> QED
    BY <1>1, <2>1, <2>2, <2>3, <2>4
<1>4. CASE SkipRep
  <2>1. reps # <<>> /\ reps' = Tail(reps) /\ reps' \in Seq(Words)
    BY <1>4, TailFacts DEF SkipRep
  <2>2. search' = search /\ pc = "scan" /\ pc' = pc /\ UNCHANGED <<asked, unsent, sent, slots, room, minima, queue, seen, tasks, open, results, job, probes, part, up>>
    BY <1>4 DEF SkipRep
  <2>3. Fresh' /\ Sequential'
    BY <2>2 DEF Fresh, Sequential
  <2> QED
    BY <1>1, <2>1, <2>2, <2>3
<1>5. CASE NewMinimum
  <2> DEFINE x == Head(reps)
  <2>1. reps # <<>> /\ x \in Words /\ Tail(reps) \in Seq(Words)
    BY <1>5, TailFacts DEF NewMinimum
  <2>2. search' = search /\ pc = "scan" /\ pc' = "level" /\ UNCHANGED <<asked, unsent, sent, slots, room, tasks, open, results, job, probes, part, up>>
    BY <1>5 DEF NewMinimum
  <2>3. minima' = Append(minima, x) /\ seen' = seen \cup {x} /\ queue' = <<x>> /\ reps' = Tail(reps)
    BY <1>5 DEF NewMinimum
  <2> HIDE DEF x
  <2>4. minima' \in Seq(Words) /\ queue' \in Seq(Words) /\ ToSet(queue') = {x} /\ reps' \in Seq(Words)
    BY <2>1, <2>3 DEF ToSet
  <2>5. Fresh' /\ Sequential'
    BY <2>2 DEF Fresh, Sequential
  <2>6. \A y \in seen' : y \in ToSet(queue') \/ Reach(search', y) \subseteq seen'
    <3>1. queue = <<>>
      BY <2>2 DEF Fresh
    <3>2. \A y \in seen : Reach(search, y) \subseteq seen
      BY <3>1, EmptyQueue
    <3> QED
      BY <2>2, <2>3, <2>4, <3>2
  <2> QED
    BY <1>1, <2>1, <2>2, <2>3, <2>4, <2>5, <2>6
<1>6. CASE ExpandAlone
  BY <1>6, LevelExpanded DEF ExpandAlone
<1>7. CASE ExpandByTables \/ ExpandByWalk \/ ExpandByWholeTable
  BY <1>7, LevelExpanded DEF ExpandByTables, ExpandByWalk, ExpandByWholeTable, Expand
<1>8. CASE OrbitDone
  <2>1. Fresh' /\ Sequential'
    BY <1>8 DEF OrbitDone, Fresh, Sequential
  <2> QED
    BY <1>1, <1>8, <2>1 DEF OrbitDone
<1>9. CASE ScanDone
  <2>1. Fresh' /\ Sequential'
    BY <1>9 DEF ScanDone, Fresh, Sequential
  <2> QED
    BY <1>1, <1>9, <2>1 DEF ScanDone
<1>10. CASE NextSearch
  <2>1. /\ pc = "idle" /\ pc' = "walk" /\ search' \in Searches /\ asked' \in 1 .. MaxSearches
        /\ minima' = <<>> /\ seen' = {} /\ reps = <<>> /\ queue = <<>>
        /\ UNCHANGED <<unsent, sent, slots, room, reps, queue, tasks, open, results, job, probes, part, up>>
    BY <1>10, PoolAssumption DEF NextSearch, Fresh
  <2>2. Fresh' /\ Sequential'
    BY <2>1 DEF Fresh, Sequential
  <2>3. \A T : <<>> \in Seq(T)
    OBVIOUS
  <2> QED
    BY <2>1, <2>2, <2>3
<1>11. CASE DropSender
  <2>1. Fresh' /\ Sequential'
    BY <1>11 DEF DropSender, Fresh, Sequential
  <2> QED
    BY <1>1, <1>11, <2>1 DEF DropSender
<1>12. CASE JoinHelpers
  <2>1. Fresh' /\ Sequential'
    BY <1>12 DEF JoinHelpers, Fresh, Sequential
  <2> QED
    BY <1>1, <1>12, <2>1 DEF JoinHelpers
<1>13. CASE \E h \in Helpers : Exit(h)
  <2>1. Fresh' /\ Sequential'
    BY <1>1, <1>13 DEF Exit, Fresh, Sequential
  <2> QED
    BY <1>1, <1>13, <2>1 DEF Exit
<1> QED
  BY <1>2, <1>3, <1>4, <1>5, <1>6, <1>7, <1>8, <1>9, <1>10, <1>11, <1>12, <1>13

-----------------------------------------------------------------------------
(* A call begins.                                                            *)

LEMMA SubSeqFacts ==
  ASSUME NEW T, NEW s \in Seq(T), NEW a \in 1 .. Len(s), NEW b \in a .. Len(s)
  PROVE  /\ SubSeq(s, a, b) \in Seq(T)
         /\ \A j \in a .. b : s[j] \in ToSet(SubSeq(s, a, b))
<1> DEFINE t == SubSeq(s, a, b)
<1>1. /\ t \in Seq(T) /\ Len(t) = (b - a) + 1 /\ DOMAIN t = 1 .. (b - a) + 1
      /\ \A i \in 1 .. (b - a) + 1 : t[i] = s[a + i - 1]
  OBVIOUS
<1> HIDE DEF t
<1>2. \A j \in a .. b : (j - a) + 1 \in 1 .. (b - a) + 1 /\ a + ((j - a) + 1) - 1 = j
  OBVIOUS
<1>3. \A j \in a .. b : t[(j - a) + 1] = s[j] /\ (j - a) + 1 \in DOMAIN t
  BY <1>1, <1>2
<1> QED
  BY <1>1, <1>3 DEF ToSet, t

(* A new call has nothing under way yet.                                     *)
LEMMA CallBegins ==
  ASSUME QuietState, InCall', NEW n \in 0 .. PoolSize, UNCHANGED <<search, asked, reps, minima, seen, tasks, open, job, probes, part, up>>,
         unsent' \in Seq(Tasks'), Len(unsent') <= PoolSize,
         \A i \in DOMAIN unsent' : unsent'[i].idx = i,
         pc' = "walkParts" => Len(unsent') = Len(WalkParts[search]) /\ seen = {},
         sent' = 0, slots' = <<>>, results' = <<>>, room' = n, queue' = <<>>,
         \A x \in seen : x \in Pending' \/ Reach(search, x) \subseteq seen
  PROVE  PoolInv'
<1> USE DEF QuietState
<1>1. Words' = Words
  BY DEF Words, L
<1>2. \A h \in Helpers : job'[h] = NoJob /\ probes'[h] = <<>> /\ part'[h] = <<>>
  OBVIOUS
<1>3. Busy' = {} /\ DOMAIN slots' = {} /\ tasks' = <<>> /\ Parts' = {}
  <2>1. Busy' = {}
    BY <1>2 DEF Busy
  <2> QED
    BY <2>1, EmptyQueue DEF Parts
<1>4. Len(unsent') \in Nat /\ DOMAIN unsent' = 1 .. Len(unsent')
  OBVIOUS
<1>5. TypeOK'
  <2>1. probes' \in [Helpers -> Seq(Words)] /\ part' \in [Helpers -> Seq(Words)]
    OBVIOUS
  <2>2. Len(unsent') + sent' <= PoolSize /\ Len(results') <= room' /\ sent' \in 0 .. PoolSize
    BY <1>4, PoolSizeType
  <2>3. /\ \A i \in DOMAIN slots' : slots'[i] \in Seq(Words)
        /\ DOMAIN slots' \subseteq 1 .. sent' /\ queue' \in Seq(Words)
    BY <1>3
  <2> QED
    BY <1>1, <2>1, <2>2, <2>3 DEF TypeOK, InCall
<1>6. CallType'
  <2>1. \A T : <<>> \in Seq(T)
    OBVIOUS
  <2>2. slots' \in [DOMAIN slots' -> Seq(Words')]
    BY <1>3
  <2>3. job' \in [Helpers -> Tasks' \cup {NoJob}]
    OBVIOUS
  <2> QED
    BY <1>3, <2>1, <2>2, <2>3 DEF CallType
<1>7. Quiet'
  BY <1>2 DEF Quiet
<1>8. Fresh'
  BY DEF Fresh, InCall
<1>9. Numbered'
  <2>1. \A i \in DOMAIN unsent' : unsent'[i].idx = sent' + i
    BY <1>4
  <2>2. Ids(tasks') = {} /\ Ids(results') = {} /\ Once(tasks') /\ Once(results') /\ JobIds' = {}
    BY <1>3, EmptyQueue DEF JobIds
  <2>3. pc' = "walkParts" => Len(unsent') + sent' = Len(WalkParts[search'])
    BY <1>4
  <2> QED
    BY <1>3, <2>1, <2>2, <2>3 DEF Numbered
<1>10. Parted'
  BY <1>3 DEF Parted
<1>11. Frontier'
  BY DEF Frontier
<1>12. Sequential'
  BY DEF Sequential, InCall
<1> QED
  BY <1>5, <1>6, <1>7, <1>8, <1>9, <1>10, <1>11, <1>12 DEF PoolInv

LEMMA WalkBegins == QuietState /\ SplitWalk => PoolInv'
<1> SUFFICES ASSUME QuietState, SplitWalk
             PROVE  PoolInv'
  OBVIOUS
<1> DEFINE k == Len(WalkRanges(search))
           calls == [i \in 1 .. k |-> [kind |-> "walk", idx |-> i]]
<1>0. search \in Searches
  BY DEF QuietState
<1>1. /\ DOMAIN WalkRanges(search) = 1 .. k /\ k \in Nat /\ k >= 1 /\ k <= WalkChunks
      /\ WalkChunks \in 0 .. PoolSize /\ Len(WalkParts[search]) = k
      /\ WalkParts[search] \in Seq(Seq(WordsOf(search)))
  BY <1>0, ChunksType, PartsOfWalk, PoolSizeType DEF Partitions, WalkChunks
<1>2. /\ pc = "walk" /\ pc' = "walkParts" /\ unsent' = calls
      /\ sent' = 0 /\ slots' = <<>> /\ results' = <<>> /\ room' = WalkChunks
      /\ UNCHANGED <<search, asked, reps, minima, queue, seen, tasks, open, job, probes, part, up>>
  BY <1>1 DEF SplitWalk, Step, Call, askVars, scanVars, helperVars
<1>3. seen = {} /\ queue = <<>> /\ InCall'
  BY <1>2 DEF QuietState, Fresh, InCall
<1>4. DOMAIN WalkParts[search'] = 1 .. k
  BY <1>1, <1>2
<1>5. Tasks' = WalkTasks'
  BY <1>2 DEF Tasks
<1> HIDE DEF k
<1>6. /\ calls \in Seq(Tasks') /\ Len(calls) = k /\ DOMAIN calls = 1 .. k
      /\ \A i \in DOMAIN calls : calls[i].idx = i
  <2>1. \A i \in 1 .. k : [kind |-> "walk", idx |-> i] \in Tasks'
    BY <1>4, <1>5 DEF WalkTasks
  <2>2. calls \in [1 .. k -> Tasks']
    BY <2>1
  <2>3. calls \in Seq(Tasks') /\ Len(calls) = k
    BY <1>1, <2>2
  <2> QED
    BY <2>3
<1> HIDE DEF calls
<1>7. k <= PoolSize
  BY <1>1, PoolSizeType
<1> QED
  BY <1>1, <1>2, <1>3, <1>6, <1>7, CallBegins

LEMMA LevelBegins == QuietState /\ SplitLevel => PoolInv'
<1> SUFFICES ASSUME QuietState, SplitLevel
             PROVE  PoolInv'
  OBVIOUS
<1> DEFINE n == Len(queue)
           R == Ranges(1, n + 1, PoolSize)
           k == Len(R)
           words(i) == SubSeq(queue, R[i].from, R[i].to - 1)
           call(i) == [kind |-> "level", idx |-> i, words |-> words(i)]
           calls == [i \in 1 .. k |-> call(i)]
<1>0. search \in Searches /\ queue \in Seq(Words)
  BY DEF QuietState
<1>1. n \in Nat /\ n >= 1 /\ 1 < n + 1 /\ DOMAIN queue = 1 .. n
  BY <1>0, PoolAssumption DEF SplitLevel
<1>2. Partitions(R, 1, n + 1) /\ k <= PoolSize
  <2>1. 1 \in Nat /\ n + 1 \in Nat /\ PoolSize \in Nat /\ PoolSize >= 1
    BY <1>1, PoolSizeType
  <2> HIDE DEF n
  <2> QED
    BY <1>1, <2>1, RangesPartition
<1>3. /\ DOMAIN R = 1 .. k /\ k \in Nat /\ k >= 1
      /\ \A i \in 1 .. k : R[i].from \in 1 .. n + 1 /\ R[i].to \in 1 .. n + 1 /\ R[i].from < R[i].to
      /\ \A j \in 1 .. (n + 1) - 1 : \E i \in 1 .. k : R[i].from <= j /\ j < R[i].to
  BY <1>2 DEF Partitions
<1>4. /\ pc = "level" /\ pc' = "levelParts" /\ unsent' = calls
      /\ sent' = 0 /\ slots' = <<>> /\ results' = <<>> /\ room' = PoolSize /\ queue' = <<>>
      /\ UNCHANGED <<search, asked, reps, minima, seen, tasks, open, job, probes, part, up>>
  BY <1>3 DEF SplitLevel, Step, Call, askVars, helperVars
<1> HIDE DEF R, k, n
<1>5. \A i \in 1 .. k : /\ words(i) \in Seq(Words)
                        /\ \A j \in 1 .. n : R[i].from <= j /\ j < R[i].to => queue[j] \in ToSet(words(i))
  <2> SUFFICES ASSUME NEW i \in 1 .. k
               PROVE  /\ words(i) \in Seq(Words)
                      /\ \A j \in 1 .. n : R[i].from <= j /\ j < R[i].to => queue[j] \in ToSet(words(i))
    OBVIOUS
  <2>1. R[i].from \in 1 .. Len(queue) /\ R[i].to - 1 \in R[i].from .. Len(queue)
    BY <1>1, <1>3 DEF n
  <2>2. \A j \in 1 .. n : R[i].from <= j /\ j < R[i].to => j \in R[i].from .. R[i].to - 1
    BY <1>1, <1>3
  <2>3. /\ words(i) \in Seq(Words)
        /\ \A j \in R[i].from .. R[i].to - 1 : queue[j] \in ToSet(words(i))
    BY <1>0, <2>1, SubSeqFacts
  <2> QED
    BY <2>2, <2>3
<1>6. Words' = Words /\ Tasks' = LevelTasks'
  BY <1>4 DEF Words, L, Tasks
<1> HIDE DEF words
<1>7. /\ calls \in Seq(Tasks') /\ Len(calls) = k /\ DOMAIN calls = 1 .. k
      /\ \A i \in 1 .. k : calls[i] = call(i)
      /\ \A i \in DOMAIN calls : calls[i].idx = i
  <2>1. \A i \in 1 .. k : call(i) \in Tasks'
    BY <1>3, <1>5, <1>6 DEF LevelTasks
  <2>2. calls \in [1 .. k -> Tasks']
    BY <2>1
  <2>3. calls \in Seq(Tasks') /\ Len(calls) = k
    BY <1>3, <2>2
  <2> QED
    BY <2>3
<1>8. ASSUME NEW x \in seen
      PROVE  x \in Pending' \/ Reach(search, x) \subseteq seen
  <2>1. CASE x \in ToSet(queue)
    <3>1. PICK j \in 1 .. n : x = queue[j]
      BY <1>1, <2>1 DEF ToSet
    <3>2. PICK i \in 1 .. k : R[i].from <= j /\ j < R[i].to
      <4>1. j \in 1 .. (n + 1) - 1
        BY <1>1
      <4> QED
        BY <1>3, <4>1
    <3>3. x \in ToSet(words(i))
      BY <1>5, <3>1, <3>2
    <3>4. call(i) \in ToSet(unsent') /\ call(i).kind = "level" /\ call(i).words = words(i)
      BY <1>4, <1>7 DEF ToSet
    <3> HIDE DEF calls
    <3> QED
      BY <3>3, <3>4 DEF Pending
  <2>2. CASE x \notin ToSet(queue)
    BY <2>2 DEF QuietState
  <2> QED
    BY <2>1, <2>2
<1> HIDE DEF calls
<1>9. InCall' /\ PoolSize \in 0 .. PoolSize
  BY <1>4, PoolSizeType DEF InCall
<1> QED
  BY <1>2, <1>4, <1>7, <1>8, <1>9, CallBegins

-----------------------------------------------------------------------------
(* The steps of a call.                                                      *)

(* A task in hand is not NoJob, and has a number.                            *)
LEMMA TaskFacts ==
  ASSUME PoolInv
  PROVE  /\ NoJob \notin Tasks
         /\ \A t \in Tasks : t.idx \in Nat /\ t.kind \in {"walk", "level"}
         /\ \A t \in Tasks : pc = "walkParts" => t.kind = "walk" /\ t.idx \in DOMAIN WalkParts[search]
         /\ \A t \in Tasks : pc # "walkParts" => t.kind = "level" /\ t.words \in Seq(Words)
         /\ \A h \in Busy : job[h] \in Tasks /\ h \in Helpers
<1>1. search \in Searches
  BY DEF PoolInv, TypeOK
<1>2. DOMAIN WalkParts[search] \subseteq Nat
  <2>1. WalkParts[search] \in Seq(Seq(WordsOf(search)))
    BY <1>1, PartsOfWalk
  <2> QED
    BY <2>1
<1>3. NoJob \notin Tasks
  <2>1. \A t \in Tasks : t.kind \in {"walk", "level"}
    BY DEF Tasks, WalkTasks, LevelTasks
  <2>2. NoJob.kind = "none"
    BY DEF NoJob
  <2> QED
    BY <2>1, <2>2
<1>4. \A h \in Busy : job[h] \in Tasks /\ h \in Helpers
  BY DEF Busy, PoolInv, CallType
<1> QED
  BY <1>2, <1>3, <1>4 DEF Tasks, WalkTasks, LevelTasks

LEMMA SendStep == PoolInv /\ SendTask => PoolInv'
<1> SUFFICES ASSUME PoolInv, SendTask
             PROVE  PoolInv'
  OBVIOUS
<1> DEFINE t == Head(unsent)
<1>1. /\ InCall /\ pc' = pc /\ unsent # <<>> /\ tasks' = Append(tasks, t)
      /\ unsent' = Tail(unsent) /\ sent' = sent + 1
      /\ UNCHANGED <<search, asked, slots, room, reps, minima, queue, seen, open, results, job, probes, part, up>>
  BY DEF SendTask, InCall, askVars, scanVars, helperVars
<1>2. /\ unsent \in Seq(Tasks) /\ tasks \in Seq(Tasks) /\ sent \in Nat /\ search \in Searches
      /\ Len(unsent) + sent <= PoolSize
      /\ \A i \in DOMAIN unsent : unsent[i].idx = sent + i
  BY PoolSizeType DEF PoolInv, CallType, TypeOK, Numbered
<1>3. /\ t \in Tasks /\ unsent' \in Seq(Tasks) /\ Len(unsent') = Len(unsent) - 1
      /\ Len(unsent) \in Nat \ {0}
      /\ ToSet(unsent) = {t} \cup ToSet(unsent')
      /\ \A i \in DOMAIN unsent' : i + 1 \in DOMAIN unsent /\ unsent'[i] = unsent[i + 1]
      /\ DOMAIN unsent' = 1 .. Len(unsent')
  <2>1. unsent' = Tail(unsent)
    BY <1>1
  <2>2. /\ t \in Tasks /\ Tail(unsent) \in Seq(Tasks) /\ Len(Tail(unsent)) = Len(unsent) - 1
        /\ Len(unsent) \in Nat \ {0}
        /\ ToSet(unsent) = {t} \cup ToSet(Tail(unsent))
        /\ \A i \in DOMAIN Tail(unsent) : i + 1 \in DOMAIN unsent /\ Tail(unsent)[i] = unsent[i + 1]
    BY <1>1, <1>2, TailFacts
  <2>3. DOMAIN Tail(unsent) = 1 .. Len(Tail(unsent))
    BY <2>2
  <2> QED
    BY <2>1, <2>2, <2>3
<1>4. t.idx = sent + 1 /\ 1 \in DOMAIN unsent
  <2>1. t = unsent[1] /\ 1 \in DOMAIN unsent
    BY <1>2, <1>3
  <2> QED
    BY <1>2, <2>1
<1> HIDE DEF t
<1>5. /\ Words' = Words /\ Tasks' = Tasks /\ Busy' = Busy /\ JobIds' = JobIds /\ Parts' = Parts
      /\ InCall' = InCall
  BY <1>1 DEF Words, L, Tasks, WalkTasks, LevelTasks, Busy, JobIds, Parts, InCall
<1>6. /\ tasks' \in Seq(Tasks) /\ ToSet(tasks') = ToSet(tasks) \cup {t}
      /\ Ids(tasks') = Ids(tasks) \cup {t.idx}
      /\ Once(tasks) /\ t.idx \notin Ids(tasks) => Once(tasks')
  BY <1>1, <1>2, <1>3, AppendFacts
<1>7. TypeOK'
  <2>1. Len(unsent') + sent' <= PoolSize /\ sent' \in 0 .. PoolSize
    BY <1>1, <1>2, <1>3, PoolSizeType
  <2>2. DOMAIN slots \subseteq 1 .. sent'
    <3>1. \A i \in 1 .. sent : i \in 1 .. sent'
      BY <1>1, <1>2
    <3> QED
      BY <3>1 DEF PoolInv, TypeOK
  <2> QED
    BY <1>1, <1>5, <2>1, <2>2 DEF PoolInv, TypeOK
<1>8. CallType'
  BY <1>1, <1>3, <1>5, <1>6 DEF PoolInv, CallType
<1>9. Quiet' /\ Fresh' /\ Sequential' /\ Parted'
  BY <1>1, <1>5 DEF PoolInv, Quiet, Fresh, Sequential, Parted, InCall, SingularReps
<1>10. Numbered'
  <2>1. \A i \in DOMAIN unsent' : unsent'[i].idx = sent' + i
    <3>1. \A i \in DOMAIN unsent' : (sent + 1) + i = sent + (i + 1)
      BY <1>2, <1>3
    <3> QED
      BY <1>1, <1>2, <1>3, <3>1
  <2>2. sent + 1 \notin 1 .. sent /\ sent + 1 \in 1 .. sent' /\ 1 .. sent \subseteq 1 .. sent'
    BY <1>1, <1>2
  <2>3. Len(unsent') + sent' = Len(unsent) + sent
    BY <1>1, <1>2, <1>3
  <2> QED
    BY <1>1, <1>4, <1>5, <1>6, <2>1, <2>2, <2>3 DEF PoolInv, Numbered
<1>11. Frontier'
  <2>1. Pending' = Pending
    <3>1. ToSet(unsent') \cup ToSet(tasks') = ToSet(unsent) \cup ToSet(tasks)
      BY <1>3, <1>6
    <3> QED
      BY <3>1 DEF Pending
  <2>2. Gathered' = Gathered /\ Probed' = Probed
    BY <1>1, <1>5 DEF Gathered, Probed
  <2> QED
    BY <1>1, <2>1, <2>2 DEF PoolInv, Frontier
<1> QED
  BY <1>7, <1>8, <1>9, <1>10, <1>11 DEF PoolInv

LEMMA ReceiveStep == PoolInv /\ ReceivePart => PoolInv'
<1> SUFFICES ASSUME PoolInv, ReceivePart
             PROVE  PoolInv'
  OBVIOUS
<1> DEFINE r == Head(results)
<1>1. /\ InCall /\ pc' = pc /\ results # <<>>
      /\ slots' = [i \in {r.idx} \cup DOMAIN slots |-> IF i = r.idx THEN r.part ELSE slots[i]]
      /\ results' = Tail(results)
      /\ UNCHANGED <<search, asked, unsent, sent, room, reps, minima, queue, seen, tasks, open, job, probes, part, up>>
  BY DEF ReceivePart, InCall, askVars, scanVars, helperVars
<1>2. /\ results \in Seq([idx : Nat, part : Seq(Words)]) /\ Once(results)
      /\ Len(results) <= room /\ room \in Nat
      /\ slots \in [DOMAIN slots -> Seq(Words)]
  BY PoolSizeType DEF PoolInv, CallType, TypeOK, Numbered
<1>3. /\ r \in [idx : Nat, part : Seq(Words)] /\ results' \in Seq([idx : Nat, part : Seq(Words)])
      /\ Len(results') = Len(results) - 1 /\ Len(results) \in Nat \ {0}
      /\ ToSet(results) = {r} \cup ToSet(results')
      /\ Once(results') /\ r.idx \notin Ids(results') /\ Ids(results) = Ids(results') \cup {r.idx}
  <2>1. /\ Head(results) \in [idx : Nat, part : Seq(Words)]
        /\ Tail(results) \in Seq([idx : Nat, part : Seq(Words)])
        /\ Len(Tail(results)) = Len(results) - 1 /\ Len(results) \in Nat \ {0}
        /\ ToSet(results) = {Head(results)} \cup ToSet(Tail(results))
        /\ Once(Tail(results)) /\ Head(results).idx \notin Ids(Tail(results))
        /\ Ids(results) = Ids(Tail(results)) \cup {Head(results).idx}
    BY <1>1, <1>2, TailFacts
  <2> QED
    BY <1>1, <2>1
<1> HIDE DEF r
<1>4. r.idx \in Nat /\ r.part \in Seq(Words) /\ r.idx \notin DOMAIN slots /\ r.idx \in 1 .. sent
  BY <1>3 DEF PoolInv, Numbered
<1>5. /\ DOMAIN slots' = DOMAIN slots \cup {r.idx}
      /\ slots'[r.idx] = r.part /\ \A i \in DOMAIN slots : slots'[i] = slots[i]
      /\ slots' = [i \in DOMAIN slots' |-> slots'[i]]
  BY <1>1, <1>4
<1>6. \A i \in DOMAIN slots' : slots'[i] \in Seq(Words)
  BY <1>2, <1>4, <1>5
<1>7. /\ Words' = Words /\ Tasks' = Tasks /\ Busy' = Busy /\ JobIds' = JobIds
      /\ InCall' = InCall
  BY <1>1 DEF Words, L, Tasks, WalkTasks, LevelTasks, Busy, JobIds, InCall
<1>8. Parts' = Parts
  <2>1. {<<i, slots'[i]>> : i \in DOMAIN slots'} = {<<i, slots[i]>> : i \in DOMAIN slots} \cup {<<r.idx, r.part>>}
    BY <1>5
  <2>2. {<<q.idx, q.part>> : q \in ToSet(results)} = {<<q.idx, q.part>> : q \in ToSet(results')} \cup {<<r.idx, r.part>>}
    BY <1>3
  <2>3. {<<job'[h].idx, part'[h]>> : h \in Busy'} = {<<job[h].idx, part[h]>> : h \in Busy}
    BY <1>1, <1>7
  <2> QED
    BY <2>1, <2>2, <2>3 DEF Parts
<1>9. TypeOK'
  <2>1. Len(results') <= room
    BY <1>2, <1>3
  <2>2. DOMAIN slots' \subseteq 1 .. sent
    BY <1>4, <1>5 DEF PoolInv, TypeOK
  <2> QED
    BY <1>1, <1>6, <1>7, <2>1, <2>2 DEF PoolInv, TypeOK
<1>10. CallType'
  <2>1. slots' \in [DOMAIN slots' -> Seq(Words)]
    BY <1>5, <1>6
  <2> QED
    BY <1>1, <1>3, <1>7, <2>1 DEF PoolInv, CallType
<1>11. Quiet' /\ Fresh' /\ Sequential' /\ Parted'
  BY <1>1, <1>7, <1>8 DEF PoolInv, Quiet, Fresh, Sequential, Parted, InCall, SingularReps
<1>12. Numbered'
  BY <1>1, <1>3, <1>4, <1>5, <1>7 DEF PoolInv, Numbered
<1>13. Frontier'
  <2>1. Pending' = Pending /\ Gathered' = Gathered /\ Probed' = Probed
    BY <1>1, <1>8 DEF Pending, Gathered, Probed
  <2> QED
    BY <1>1, <2>1 DEF PoolInv, Frontier
<1> QED
  BY <1>9, <1>10, <1>11, <1>12, <1>13 DEF PoolInv

LEMMA PartIds == \A p \in Parts : p[1] \in DOMAIN slots \cup Ids(results) \cup JobIds
BY DEF Parts, Ids, JobIds

LEMMA TakeStep ==
  ASSUME PoolInv, NEW h \in Helpers, TakeTask(h)
  PROVE  PoolInv'
<1> DEFINE t == Head(tasks)
<1>1. /\ job[h] = NoJob /\ tasks # <<>> /\ pc' = pc
      /\ job' = [job EXCEPT ![h] = t]
      /\ part' = [part EXCEPT ![h] = IF t.kind = "walk" THEN WalkParts[search][t.idx] ELSE <<>>]
      /\ probes' = [probes EXCEPT ![h] = IF t.kind = "level" THEN Images(t.words) ELSE <<>>]
      /\ tasks' = Tail(tasks)
      /\ UNCHANGED <<search, asked, unsent, sent, slots, room, reps, minima, queue, seen, open, results, up>>
  BY DEF TakeTask, callVars, askVars, scanVars
<1>2. /\ search \in Searches /\ tasks \in Seq(Tasks) /\ Once(tasks)
      /\ job \in [Helpers -> Tasks \cup {NoJob}]
      /\ part \in [Helpers -> Seq(Words)] /\ probes \in [Helpers -> Seq(Words)]
  BY DEF PoolInv, TypeOK, CallType, Numbered
<1>3. /\ t \in Tasks /\ tasks' \in Seq(Tasks)
      /\ ToSet(tasks) = {t} \cup ToSet(tasks')
      /\ Once(tasks') /\ t.idx \notin Ids(tasks') /\ Ids(tasks) = Ids(tasks') \cup {t.idx}
  <2>1. /\ Head(tasks) \in Tasks /\ Tail(tasks) \in Seq(Tasks)
        /\ ToSet(tasks) = {Head(tasks)} \cup ToSet(Tail(tasks))
        /\ Once(Tail(tasks)) /\ Head(tasks).idx \notin Ids(Tail(tasks))
        /\ Ids(tasks) = Ids(Tail(tasks)) \cup {Head(tasks).idx}
    BY <1>1, <1>2, TailFacts
  <2> QED
    BY <1>1, <2>1
<1> HIDE DEF t
<1>4. InCall /\ h \notin Busy /\ t # NoJob /\ probes[h] = <<>> /\ part[h] = <<>>
  BY <1>1, <1>3, TaskFacts DEF PoolInv, Quiet, Busy
<1>5. /\ pc = "walkParts" => t.kind = "walk" /\ t.idx \in DOMAIN WalkParts[search]
      /\ pc = "levelParts" => t.kind = "level" /\ t.words \in Seq(Words)
  BY <1>3, TaskFacts
<1>6. /\ job'[h] = t /\ \A g \in Helpers : g # h => job'[g] = job[g]
      /\ \A g \in Helpers : g # h => part'[g] = part[g] /\ probes'[g] = probes[g]
      /\ job' \in [Helpers -> Tasks \cup {NoJob}]
  BY <1>1, <1>2, <1>3
(* What the helper finds at once, and what it will probe.                    *)
<1>7. /\ pc = "walkParts" => part'[h] = WalkParts[search][t.idx] /\ probes'[h] = <<>>
      /\ pc = "levelParts" => part'[h] = <<>> /\ probes'[h] = Images(t.words)
  BY <1>1, <1>2, <1>5
<1>8. part'[h] \in Seq(Words) /\ probes'[h] \in Seq(Words)
  <2>0. <<>> \in Seq(Words)
    OBVIOUS
  <2>1. CASE pc = "walkParts"
    <3>1. WalkParts[search] \in Seq(Seq(Words))
      BY <1>2, PartsOfWalk DEF WordsOf, Words, L
    <3>2. WalkParts[search][t.idx] \in Seq(Words)
      BY <1>5, <2>1, <3>1
    <3> QED
      BY <1>7, <2>0, <2>1, <3>2
  <2>2. CASE pc = "levelParts"
    <3>1. Images(t.words) \in Seq(Words)
      BY <1>2, <1>5, <2>2, ImagesFacts
    <3> QED
      BY <1>7, <2>0, <2>2, <3>1
  <2> QED
    BY <1>4, <2>1, <2>2 DEF InCall
<1>9. part' \in [Helpers -> Seq(Words)] /\ probes' \in [Helpers -> Seq(Words)]
  <2>1. /\ part' = [g \in Helpers |-> part'[g]] /\ probes' = [g \in Helpers |-> probes'[g]]
    BY <1>1, <1>2
  <2>2. \A g \in Helpers : part'[g] \in Seq(Words) /\ probes'[g] \in Seq(Words)
    BY <1>2, <1>6, <1>8
  <2> QED
    BY <2>1, <2>2
<1>10. /\ Words' = Words /\ Tasks' = Tasks /\ InCall' = InCall
  BY <1>1 DEF Words, L, Tasks, WalkTasks, LevelTasks, InCall
<1>11. Busy' = Busy \cup {h} /\ \A g \in Busy : g # h /\ g \in Helpers /\ job'[g] = job[g] /\ part'[g] = part[g]
  <2>1. \A g \in Helpers : job'[g] # NoJob <=> g = h \/ job[g] # NoJob
    BY <1>4, <1>6
  <2> QED
    BY <1>4, <1>6, <2>1 DEF Busy
<1>12. JobIds' = JobIds \cup {t.idx}
  <2>1. JobIds' = {job'[g].idx : g \in Busy'}
    BY DEF JobIds
  <2> QED
    BY <1>6, <1>11, <2>1 DEF JobIds
<1>13. Parts' = Parts \cup {<<t.idx, part'[h]>>}
  <2>1. {<<job'[g].idx, part'[g]>> : g \in Busy'} = {<<job[g].idx, part[g]>> : g \in Busy} \cup {<<t.idx, part'[h]>>}
    BY <1>6, <1>11
  <2> QED
    BY <1>1, <2>1 DEF Parts
<1>14. t.idx \in Ids(tasks) /\ t.idx \in 1 .. sent /\ t.idx \notin JobIds \cup Ids(results) \cup DOMAIN slots
  BY <1>3 DEF PoolInv, Numbered
<1>15. TypeOK'
  BY <1>1, <1>9, <1>10 DEF PoolInv, TypeOK
<1>16. CallType'
  BY <1>1, <1>3, <1>6, <1>10 DEF PoolInv, CallType
<1>17. Quiet' /\ Fresh' /\ Sequential'
  <2>1. \A g \in Helpers : job'[g] = NoJob => probes'[g] = <<>> /\ part'[g] = <<>>
    BY <1>4, <1>6 DEF PoolInv, Quiet
  <2>2. pc' = "walkParts" => \A g \in Helpers : probes'[g] = <<>>
    BY <1>1, <1>6, <1>7 DEF PoolInv, Quiet
  <2> QED
    BY <1>1, <1>4, <1>10, <2>1, <2>2 DEF PoolInv, Quiet, Fresh, Sequential, InCall
<1>18. Numbered'
  <2>1. \A f, g \in Busy' : job'[f].idx = job'[g].idx => f = g
    <3>1. \A g \in Busy : job[g].idx \in JobIds
      BY DEF JobIds
    <3>2. \A f, g \in Busy : job[f].idx = job[g].idx => f = g
      BY DEF PoolInv, Numbered
    <3> QED
      BY <1>6, <1>11, <1>14, <3>1, <3>2
  <2> QED
    BY <1>1, <1>3, <1>12, <1>14, <2>1 DEF PoolInv, Numbered
<1>19. Parted'
  <2>1. \A p \in Parts : p[1] # t.idx
    BY <1>14, PartIds
  <2>2. CASE pc = "walkParts"
    BY <1>1, <1>7, <1>13, <2>2 DEF PoolInv, Parted
  <2>3. CASE pc = "levelParts"
    <3>1. part'[h] = <<>> /\ IsInjective(part'[h]) /\ ToSet(part'[h]) = {}
      BY <1>7, <2>3, EmptyQueue
    <3>2. /\ \A p \in Parts : IsInjective(p[2]) /\ ToSet(p[2]) \subseteq seen
          /\ \A p, q \in Parts : p[1] # q[1] => ToSet(p[2]) \cap ToSet(q[2]) = {}
      BY <2>3 DEF PoolInv, Parted
    <3>3. \A p \in Parts' : p \in Parts \/ (p[1] = t.idx /\ p[2] = part'[h])
      BY <1>13
    <3>4. \A p \in Parts' : IsInjective(p[2]) /\ ToSet(p[2]) \subseteq seen
      BY <3>1, <3>2, <3>3
    <3>5. \A p, q \in Parts' : p[1] # q[1] => ToSet(p[2]) \cap ToSet(q[2]) = {}
      BY <3>1, <3>2, <3>3
    <3> QED
      BY <1>1, <2>3, <3>4, <3>5 DEF Parted
  <2> QED
    BY <1>4, <2>2, <2>3 DEF InCall
<1>20. Frontier'
  <2>1. Gathered \subseteq Gathered'
    BY <1>13 DEF Gathered
  <2>2. Probed' = Probed \cup ToSet(probes'[h])
    <3>1. \A x : x \in Probed <=> \E g \in Helpers : x \in ToSet(probes[g])
      BY DEF Probed
    <3>2. \A x : x \in Probed' <=> \E g \in Helpers : x \in ToSet(probes'[g])
      BY DEF Probed
    <3>3. ToSet(probes[h]) = {}
      BY <1>4, EmptyQueue
    <3>4. \A x : x \in Probed' <=> x \in Probed \cup ToSet(probes'[h])
      BY <1>6, <3>1, <3>2, <3>3
    <3> QED
      BY <3>4
  <2>3. \A x \in Pending : x \in Pending' \/ (t.kind = "level" /\ x \in ToSet(t.words))
    <3>1. \A s : s \in ToSet(unsent) \cup ToSet(tasks) => s = t \/ s \in ToSet(unsent') \cup ToSet(tasks')
      BY <1>1, <1>3
    <3> QED
      BY <3>1 DEF Pending
  <2>4. ASSUME NEW x, t.kind = "level", x \in ToSet(t.words)
        PROVE  Reach(search, x) \subseteq Probed'
    <3>1. pc = "levelParts"
      BY <1>4, <1>5, <2>4 DEF InCall
    <3>2. ToSet(Images(t.words)) = UNION {Reach(search, y) : y \in ToSet(t.words)}
      BY <1>2, <1>5, <3>1, ImagesFacts
    <3> QED
      BY <1>7, <2>2, <2>4, <3>1, <3>2
  <2> QED
    BY <1>1, <2>1, <2>2, <2>3, <2>4 DEF PoolInv, Frontier
<1> QED
  BY <1>15, <1>16, <1>17, <1>18, <1>19, <1>20 DEF PoolInv

(* A helper is the only one that holds the part of its range.                *)
LEMMA OwnPart ==
  ASSUME PoolInv, NEW h \in Busy
  PROVE  /\ <<job[h].idx, part[h]>> \in Parts
         /\ \A p \in Parts : p[1] = job[h].idx => p = <<job[h].idx, part[h]>>
<1>1. job[h].idx \in JobIds
  BY DEF JobIds
<1>2. /\ \A g \in Busy : job[g].idx = job[h].idx => g = h
      /\ job[h].idx \notin Ids(results) \cup DOMAIN slots
  BY <1>1 DEF PoolInv, Numbered
<1>3. \A r \in ToSet(results) : r.idx # job[h].idx
  BY <1>2 DEF Ids
<1>4. \A p \in Parts : \/ \E i \in DOMAIN slots : p = <<i, slots[i]>>
                       \/ \E r \in ToSet(results) : p = <<r.idx, r.part>>
                       \/ \E g \in Busy : p = <<job[g].idx, part[g]>>
  BY DEF Parts
<1>5. \A p \in Parts : p[1] = job[h].idx => p = <<job[h].idx, part[h]>>
  BY <1>2, <1>3, <1>4
<1> QED
  BY <1>5 DEF Parts

LEMMA ClaimStep ==
  ASSUME PoolInv, NEW h \in Helpers, Claim(h)
  PROVE  PoolInv'
<1> DEFINE x == Head(probes[h])
           id == job[h].idx
           new == part'[h]
<1>1. /\ probes[h] # <<>> /\ pc' = pc /\ seen' = seen \cup {x}
      /\ part' = [part EXCEPT ![h] = IF x \notin seen THEN Append(@, x) ELSE @]
      /\ probes' = [probes EXCEPT ![h] = Tail(@)]
      /\ UNCHANGED <<search, asked, unsent, sent, slots, room, reps, minima, queue, tasks, open, results, job, up>>
  BY DEF Claim, Wins, callVars, askVars, scanVars
<1>2. /\ part \in [Helpers -> Seq(Words)] /\ probes \in [Helpers -> Seq(Words)]
      /\ seen \subseteq Words
  BY DEF PoolInv, TypeOK
<1>3. h \in Busy /\ pc = "levelParts"
  BY <1>1 DEF PoolInv, Quiet, Busy, InCall
<1>4. /\ x \in Words /\ Tail(probes[h]) \in Seq(Words)
      /\ ToSet(probes[h]) = {x} \cup ToSet(Tail(probes[h]))
  <2>1. probes[h] \in Seq(Words)
    BY <1>2
  <2> QED
    BY <1>1, <2>1, TailFacts
<1> HIDE DEF x
<1>5. /\ new = IF x \notin seen THEN Append(part[h], x) ELSE part[h]
      /\ probes'[h] = Tail(probes[h])
      /\ \A g \in Helpers : g # h => part'[g] = part[g] /\ probes'[g] = probes[g]
  BY <1>1, <1>2
<1>6. /\ part[h] \in Seq(Words) /\ <<id, part[h]>> \in Parts
      /\ IsInjective(part[h]) /\ ToSet(part[h]) \subseteq seen
  <2>1. <<id, part[h]>> \in Parts
    BY <1>3, OwnPart
  <2> QED
    BY <1>2, <1>3, <2>1 DEF PoolInv, Parted
<1>7. /\ new \in Seq(Words) /\ IsInjective(new)
      /\ ToSet(new) = IF x \notin seen THEN ToSet(part[h]) \cup {x} ELSE ToSet(part[h])
  <2>1. CASE x \in seen
    BY <1>5, <1>6, <2>1
  <2>2. CASE x \notin seen
    <3>1. /\ Append(part[h], x) \in Seq(Words)
          /\ ToSet(Append(part[h], x)) = ToSet(part[h]) \cup {x}
          /\ IsInjective(Append(part[h], x))
      BY <1>4, <1>6, <2>2, AppendFacts
    <3> QED
      BY <1>5, <2>2, <3>1
  <2> QED
    BY <2>1, <2>2
<1> HIDE DEF new
<1>8. part' \in [Helpers -> Seq(Words)] /\ probes' \in [Helpers -> Seq(Words)]
  <2>1. /\ part' = [g \in Helpers |-> part'[g]] /\ probes' = [g \in Helpers |-> probes'[g]]
    BY <1>1, <1>2
  <2>2. \A g \in Helpers : part'[g] \in Seq(Words) /\ probes'[g] \in Seq(Words)
    BY <1>2, <1>4, <1>5, <1>7 DEF new
  <2> QED
    BY <2>1, <2>2
<1>9. /\ Words' = Words /\ Tasks' = Tasks /\ Busy' = Busy /\ JobIds' = JobIds /\ InCall' = InCall
  BY <1>1 DEF Words, L, Tasks, WalkTasks, LevelTasks, Busy, JobIds, InCall
<1>10. /\ \A p \in Parts' : p = <<id, new>> \/ (p \in Parts /\ p[1] # id)
       /\ \A p \in Parts : p = <<id, part[h]>> \/ p \in Parts'
       /\ <<id, new>> \in Parts'
  <2>1. id \in JobIds /\ id \notin Ids(results) \cup DOMAIN slots
    <3>1. id \in JobIds
      BY <1>3 DEF JobIds
    <3> QED
      BY <3>1 DEF PoolInv, Numbered
  <2>2. \A r \in ToSet(results) : r.idx # id
    BY <2>1 DEF Ids
  <2>3. \A g \in Busy : g \in Helpers /\ (job[g].idx = id => g = h)
    BY <1>3 DEF PoolInv, Numbered, Busy
  <2>4. \A p \in Parts' : \/ \E i \in DOMAIN slots : p = <<i, slots[i]>>
                          \/ \E r \in ToSet(results) : p = <<r.idx, r.part>>
                          \/ \E g \in Busy : p = <<job[g].idx, part'[g]>>
    <3>1. Parts' = {<<i, slots[i]>> : i \in DOMAIN slots}
                     \cup {<<r.idx, r.part>> : r \in ToSet(results)}
                     \cup {<<job[g].idx, part'[g]>> : g \in Busy}
      BY <1>1, <1>9 DEF Parts
    <3> QED
      BY <3>1
  <2>5. \A p : \/ \E i \in DOMAIN slots : p = <<i, slots[i]>>
               \/ \E r \in ToSet(results) : p = <<r.idx, r.part>>
               \/ \E g \in Busy : p = <<job[g].idx, part'[g]>>
          => p \in Parts'
    <3>1. Parts' = {<<i, slots[i]>> : i \in DOMAIN slots}
                     \cup {<<r.idx, r.part>> : r \in ToSet(results)}
                     \cup {<<job[g].idx, part'[g]>> : g \in Busy}
      BY <1>1, <1>9 DEF Parts
    <3> QED
      BY <3>1
  <2>6. \A p : p \in Parts <=>
               \/ \E i \in DOMAIN slots : p = <<i, slots[i]>>
               \/ \E r \in ToSet(results) : p = <<r.idx, r.part>>
               \/ \E g \in Busy : p = <<job[g].idx, part[g]>>
    BY DEF Parts
  <2>7. \A g \in Busy : g # h => part'[g] = part[g] /\ job[g].idx # id
    BY <1>5, <2>3
  <2>8. part'[h] = new /\ job[h].idx = id
    BY DEF new
  <2> HIDE DEF id
  <2>9. ASSUME NEW p \in Parts'
        PROVE  p = <<id, new>> \/ (p \in Parts /\ p[1] # id)
    <3>1. CASE \E i \in DOMAIN slots : p = <<i, slots[i]>>
      BY <2>1, <2>6, <3>1
    <3>2. CASE \E r \in ToSet(results) : p = <<r.idx, r.part>>
      BY <2>2, <2>6, <3>2
    <3>3. CASE \E g \in Busy : p = <<job[g].idx, part'[g]>>
      BY <2>6, <2>7, <2>8, <3>3
    <3> QED
      BY <2>4, <3>1, <3>2, <3>3
  <2>10. ASSUME NEW p \in Parts
         PROVE  p = <<id, part[h]>> \/ p \in Parts'
    BY <2>5, <2>6, <2>7, <2>8
  <2>11. <<id, new>> \in Parts'
    BY <1>3, <2>5, <2>8
  <2> QED
    BY <2>9, <2>10, <2>11
<1>11. TypeOK'
  <2>1. seen' \subseteq Words
    BY <1>1, <1>2, <1>4
  <2> QED
    BY <1>1, <1>8, <1>9, <2>1 DEF PoolInv, TypeOK
<1>12. CallType' /\ Fresh' /\ Sequential' /\ Numbered'
  BY <1>1, <1>3, <1>9 DEF PoolInv, CallType, Fresh, Sequential, Numbered
<1>13. Quiet'
  <2>1. \A g \in Helpers : job'[g] = NoJob => probes'[g] = <<>> /\ part'[g] = <<>>
    <3>1. \A g \in Helpers : job[g] = NoJob => g # h
      BY <1>3 DEF Busy
    <3> QED
      BY <1>1, <1>5, <3>1 DEF PoolInv, Quiet
  <2> QED
    BY <1>1, <1>3, <1>9, <2>1 DEF PoolInv, Quiet, InCall
<1>14. Parted'
  <2>1. /\ \A p \in Parts : IsInjective(p[2]) /\ ToSet(p[2]) \subseteq seen
        /\ \A p, q \in Parts : p[1] # q[1] => ToSet(p[2]) \cap ToSet(q[2]) = {}
    BY <1>3 DEF PoolInv, Parted
  <2>2. \A p \in Parts : p[1] # id => ToSet(p[2]) \cap ToSet(new) = {}
    <3> SUFFICES ASSUME NEW p \in Parts, p[1] # id
                 PROVE  ToSet(p[2]) \cap ToSet(new) = {}
      OBVIOUS
    <3>1. ToSet(p[2]) \cap ToSet(part[h]) = {} /\ ToSet(p[2]) \subseteq seen
      BY <1>6, <2>1
    <3> QED
      BY <1>7, <3>1
  <2>3. \A p \in Parts' : IsInjective(p[2]) /\ ToSet(p[2]) \subseteq seen'
    <3>1. ToSet(new) \subseteq seen'
      BY <1>1, <1>6, <1>7
    <3>2. \A p \in Parts' : p[2] = new \/ p \in Parts
      BY <1>10
    <3> QED
      BY <1>1, <1>7, <2>1, <3>1, <3>2
  <2>4. \A p, q \in Parts' : p[1] # q[1] => ToSet(p[2]) \cap ToSet(q[2]) = {}
    <3>1. \A p \in Parts' : (p[1] = id /\ p[2] = new) \/ (p \in Parts /\ p[1] # id)
      BY <1>10
    <3> QED
      BY <2>1, <2>2, <3>1
  <2> QED
    BY <1>1, <1>3, <2>3, <2>4 DEF Parted
<1>15. Frontier'
  <2>1. Pending' = Pending
    BY <1>1 DEF Pending
  <2>2. ToSet(part[h]) \subseteq ToSet(new) /\ (x \notin seen => x \in ToSet(new))
    BY <1>7
  <2>3. Gathered \subseteq Gathered' /\ (x \notin seen => x \in Gathered')
    <3>1. ToSet(new) \subseteq Gathered'
      BY <1>10 DEF Gathered
    <3>2. \A p \in Parts : ToSet(p[2]) \subseteq Gathered'
      BY <1>10, <2>2, <3>1 DEF Gathered
    <3> QED
      BY <2>2, <3>1, <3>2 DEF Gathered
  <2>4. Probed \subseteq Probed' \cup {x}
    <3>1. \A y : y \in Probed <=> \E g \in Helpers : y \in ToSet(probes[g])
      BY DEF Probed
    <3>2. \A y : y \in Probed' <=> \E g \in Helpers : y \in ToSet(probes'[g])
      BY DEF Probed
    <3> QED
      BY <1>4, <1>5, <3>1, <3>2
  <2> QED
    BY <1>1, <2>1, <2>3, <2>4 DEF PoolInv, Frontier
<1> QED
  BY <1>11, <1>12, <1>13, <1>14, <1>15 DEF PoolInv

LEMMA PartSent ==
  ASSUME PoolInv, NEW h \in Helpers, SendPart(h)
  PROVE  PoolInv'
<1> DEFINE id == job[h].idx
           r == [idx |-> id, part |-> part[h]]
<1>1. /\ h \in Busy /\ probes[h] = <<>> /\ Len(results) < room /\ pc' = pc
      /\ results' = Append(results, r)
      /\ job' = [job EXCEPT ![h] = NoJob] /\ part' = [part EXCEPT ![h] = <<>>]
      /\ UNCHANGED <<search, asked, unsent, sent, slots, room, reps, minima, queue, seen, tasks, open, probes, up>>
  BY DEF SendPart, callVars, askVars, scanVars, Busy
<1>2. /\ part \in [Helpers -> Seq(Words)] /\ job \in [Helpers -> Tasks \cup {NoJob}]
      /\ results \in Seq([idx : Nat, part : Seq(Words)]) /\ Once(results)
      /\ room \in Nat
  BY PoolSizeType DEF PoolInv, TypeOK, CallType, Numbered
<1>3. id \in Nat /\ id \in JobIds /\ id \notin Ids(results) \cup DOMAIN slots
  <2>1. id \in Nat
    BY <1>1, TaskFacts
  <2>2. id \in JobIds
    BY <1>1 DEF JobIds
  <2> QED
    BY <2>1, <2>2 DEF PoolInv, Numbered
<1>4. r \in [idx : Nat, part : Seq(Words)] /\ r.idx = id /\ r.part = part[h]
  <2>1. part[h] \in Seq(Words)
    BY <1>2
  <2> QED
    BY <1>3, <2>1
<1> HIDE DEF r
<1>5. /\ results' \in Seq([idx : Nat, part : Seq(Words)]) /\ Len(results') = Len(results) + 1
      /\ ToSet(results') = ToSet(results) \cup {r}
      /\ Ids(results') = Ids(results) \cup {id} /\ Once(results')
  <2> DEFINE R == [idx : Nat, part : Seq(Words)]
  <2>0. results \in Seq(R) /\ r \in R
    BY <1>2, <1>4
  <2> HIDE DEF R
  <2>1. /\ Append(results, r) \in Seq(R)
        /\ Len(Append(results, r)) = Len(results) + 1
        /\ ToSet(Append(results, r)) = ToSet(results) \cup {r}
        /\ Ids(Append(results, r)) = Ids(results) \cup {r.idx}
        /\ Once(results) /\ r.idx \notin Ids(results) => Once(Append(results, r))
    BY <2>0, AppendFacts
  <2> QED
    BY <1>1, <1>2, <1>3, <1>4, <2>1 DEF R
<1>6. /\ job'[h] = NoJob /\ part'[h] = <<>>
      /\ \A g \in Helpers : g # h => part'[g] = part[g] /\ job'[g] = job[g]
      /\ job' \in [Helpers -> Tasks \cup {NoJob}]
  BY <1>1, <1>2
<1>7. part' \in [Helpers -> Seq(Words)]
  <2>1. <<>> \in Seq(Words)
    OBVIOUS
  <2> QED
    BY <1>1, <1>2, <2>1
<1>8. /\ Words' = Words /\ Tasks' = Tasks /\ InCall' = InCall
  BY <1>1 DEF Words, L, Tasks, WalkTasks, LevelTasks, InCall
<1>9. Busy' = Busy \ {h} /\ \A g \in Busy' : g \in Helpers /\ g # h /\ job'[g] = job[g] /\ part'[g] = part[g]
  <2>1. \A g \in Helpers : job'[g] # NoJob <=> job[g] # NoJob /\ g # h
    BY <1>6
  <2>2. Busy' = Busy \ {h}
    BY <2>1 DEF Busy
  <2> QED
    BY <1>6, <2>2 DEF Busy
<1>10. \A g \in Busy : job[g].idx = id => g = h
  BY <1>1 DEF PoolInv, Numbered
<1> HIDE DEF id
<1>11. JobIds' = JobIds \ {id}
  <2>1. JobIds' = {job[g].idx : g \in Busy \ {h}}
    <3>1. JobIds' = {job'[g].idx : g \in Busy'}
      BY DEF JobIds
    <3> QED
      BY <1>9, <3>1
  <2>2. {job[g].idx : g \in Busy \ {h}} = {job[g].idx : g \in Busy} \ {id}
    BY <1>1, <1>10 DEF id
  <2> QED
    BY <2>1, <2>2 DEF JobIds
<1>12. Parts' = Parts
  <2>1. {<<q.idx, q.part>> : q \in ToSet(results')} = {<<q.idx, q.part>> : q \in ToSet(results)} \cup {<<id, part[h]>>}
    BY <1>4, <1>5
  <2>2. {<<job'[g].idx, part'[g]>> : g \in Busy'} = {<<job[g].idx, part[g]>> : g \in Busy \ {h}}
    BY <1>9
  <2>3. {<<job[g].idx, part[g]>> : g \in Busy}
          = {<<job[g].idx, part[g]>> : g \in Busy \ {h}} \cup {<<id, part[h]>>}
    BY <1>1 DEF id
  <2>4. Parts' = {<<i, slots[i]>> : i \in DOMAIN slots}
                   \cup {<<q.idx, q.part>> : q \in ToSet(results')}
                   \cup {<<job'[g].idx, part'[g]>> : g \in Busy'}
    BY <1>1 DEF Parts
  <2> QED
    BY <2>1, <2>2, <2>3, <2>4 DEF Parts
<1>13. TypeOK'
  <2>1. Len(results') <= room
    <3>1. Len(results) \in Nat
      BY <1>2
    <3> QED
      BY <1>1, <1>2, <1>5, <3>1
  <2> QED
    BY <1>1, <1>7, <1>8, <2>1 DEF PoolInv, TypeOK
<1>14. CallType' /\ Fresh' /\ Sequential' /\ Parted'
  BY <1>1, <1>5, <1>6, <1>8, <1>12 DEF PoolInv, CallType, Fresh, Sequential, Parted, SingularReps
<1>15. Quiet'
  <2>1. InCall
    BY <1>1 DEF PoolInv, Quiet
  <2>2. \A g \in Helpers : job'[g] = NoJob => probes'[g] = <<>> /\ part'[g] = <<>>
    BY <1>1, <1>6 DEF PoolInv, Quiet
  <2> QED
    BY <1>1, <1>8, <2>1, <2>2 DEF PoolInv, Quiet
<1>16. Numbered'
  <2>1. \A f, g \in Busy' : job'[f].idx = job'[g].idx => f = g
    BY <1>9 DEF PoolInv, Numbered
  <2> QED
    BY <1>1, <1>3, <1>5, <1>11, <2>1 DEF PoolInv, Numbered
<1>17. Frontier'
  <2>1. Pending' = Pending /\ Gathered' = Gathered /\ Probed' = Probed
    BY <1>1, <1>12 DEF Pending, Gathered, Probed
  <2> QED
    BY <1>1, <2>1 DEF PoolInv, Frontier
<1> QED
  BY <1>13, <1>14, <1>15, <1>16, <1>17 DEF PoolInv

(* A helper that leaves takes nothing along.                                 *)
LEMMA UpStep ==
  ASSUME PoolInv, up' \subseteq up, UNCHANGED <<pc, callVars, scanVars, seen, tasks, open, results, job, probes, part>>
  PROVE  PoolInv'
<1>1. UNCHANGED <<pc, search, asked, unsent, sent, slots, room, reps, minima, queue, seen, tasks, open, results, job, probes, part>>
  BY DEF callVars, askVars, scanVars
<1>2. /\ Words' = Words /\ Tasks' = Tasks /\ Busy' = Busy /\ JobIds' = JobIds /\ InCall' = InCall
      /\ Parts' = Parts /\ Pending' = Pending /\ Probed' = Probed
  BY <1>1 DEF Words, L, Tasks, WalkTasks, LevelTasks, Busy, JobIds, InCall, Parts, Pending, Probed
<1>3. TypeOK' /\ CallType' /\ Quiet' /\ Fresh'
  BY <1>1, <1>2 DEF PoolInv, TypeOK, CallType, Quiet, Fresh
<1>4. Numbered' /\ Parted' /\ Sequential'
  BY <1>1, <1>2 DEF PoolInv, Numbered, Parted, Sequential, SingularReps
<1>5. Frontier'
  BY <1>1, <1>2 DEF PoolInv, Frontier, Gathered
<1> QED
  BY <1>3, <1>4, <1>5 DEF PoolInv

-----------------------------------------------------------------------------
(* A call is over when all parts are in their slots.                         *)

LEMMA CallOver ==
  ASSUME PoolInv, AllParts
  PROVE  /\ unsent = <<>> /\ tasks = <<>> /\ results = <<>> /\ Busy = {}
         /\ Probed = {} /\ Pending = {}
         /\ Cardinality(DOMAIN slots) = sent /\ sent \in Nat
         /\ Concatenation \in Seq(Words) /\ ToSet(Concatenation) = Gathered
<1>1. unsent = <<>> /\ DOMAIN slots = 1 .. sent /\ sent \in Nat
  BY PoolSizeType DEF AllParts, PoolInv, TypeOK
<1>2. Ids(tasks) = {} /\ JobIds = {} /\ Ids(results) = {}
  BY <1>1 DEF PoolInv, Numbered
<1>3. \A T : \A s \in Seq(T) : Ids(s) = {} => s = <<>>
  <2> SUFFICES ASSUME NEW T, NEW s \in Seq(T), s # <<>>
               PROVE  Ids(s) # {}
    OBVIOUS
  <2>1. Head(s) \in ToSet(s)
    BY TailFacts
  <2> QED
    BY <2>1 DEF Ids
<1>4. tasks = <<>> /\ results = <<>>
  BY <1>2, <1>3 DEF PoolInv, CallType
<1>5. Busy = {}
  BY <1>2 DEF JobIds
<1>6. Probed = {} /\ Pending = {}
  <2>1. \A h \in Helpers : probes[h] = <<>>
    BY <1>5 DEF Busy, PoolInv, Quiet
  <2> QED
    BY <1>1, <1>4, <2>1, EmptyQueue DEF Probed, Pending
<1>7. Cardinality(1 .. sent) = sent
  BY <1>1, FS_Interval
<1> DEFINE P == [i \in 1 .. sent |-> slots[i]]
<1>8. Concatenation = FlattenSeq(P)
  BY <1>1, <1>7 DEF Concatenation
<1>9. P \in [1 .. sent -> Seq(Words)] /\ \A i \in 1 .. sent : P[i] = slots[i]
  BY <1>1 DEF PoolInv, TypeOK
<1> HIDE DEF P
<1>10. P \in Seq(Seq(Words)) /\ Len(P) = sent
  BY <1>1, <1>9
<1>11. FlattenSeq(P) \in Seq(Words) /\ ToSet(FlattenSeq(P)) = HeldBy(P, sent)
  BY <1>10, FlattenFacts
<1>12. HeldBy(P, sent) = Gathered
  <2>1. Parts = {<<i, slots[i]>> : i \in 1 .. sent}
    BY <1>1, <1>4, <1>5, EmptyQueue DEF Parts
  <2>2. \A x : x \in Gathered <=> \E i \in 1 .. sent : x \in ToSet(slots[i])
    <3>1. \A x : x \in Gathered <=> \E p \in Parts : x \in ToSet(p[2])
      BY DEF Gathered
    <3>2. \A p \in Parts : \E i \in 1 .. sent : p = <<i, slots[i]>>
      BY <2>1
    <3>3. \A i \in 1 .. sent : <<i, slots[i]>> \in Parts /\ <<i, slots[i]>>[2] = slots[i]
      BY <2>1
    <3>4. \A p \in Parts : \E i \in 1 .. sent : p[2] = slots[i]
      BY <3>2
    <3>5. ASSUME NEW x, x \in Gathered PROVE \E i \in 1 .. sent : x \in ToSet(slots[i])
      <4>1. PICK p \in Parts : x \in ToSet(p[2])
        BY <3>1, <3>5
      <4>2. PICK i \in 1 .. sent : p[2] = slots[i]
        BY <3>4
      <4> QED
        BY <4>1, <4>2
    <3>6. ASSUME NEW x, NEW i \in 1 .. sent, x \in ToSet(slots[i]) PROVE x \in Gathered
      BY <3>1, <3>3, <3>6
    <3> QED
      BY <3>5, <3>6
  <2>3. \A x : x \in HeldBy(P, sent) <=> \E i \in 1 .. sent : x \in ToSet(slots[i])
    BY <1>9 DEF HeldBy
  <2> QED
    BY <2>2, <2>3
<1> QED
  BY <1>1, <1>4, <1>5, <1>6, <1>7, <1>8, <1>11, <1>12

LEMMA JoinStep ==
  ASSUME PoolInv, JoinWalk \/ JoinLevel
  PROVE  PoolInv'
<1> SUFFICES QuietState'
  <2>1. QuietState' => PoolInv'
    BY QuietInv, PTL
  <2> QED
    BY <2>1
<1>1. /\ AllParts /\ slots' = <<>>
      /\ UNCHANGED <<search, asked, unsent, sent, room, minima, seen, tasks, open, results, job, probes, part, up>>
  BY DEF JoinWalk, JoinLevel, askVars, helperVars
<1>2. /\ unsent = <<>> /\ tasks = <<>> /\ results = <<>> /\ Busy = {}
      /\ Probed = {} /\ Pending = {}
      /\ Cardinality(DOMAIN slots) = sent /\ sent \in Nat
      /\ Concatenation \in Seq(Words) /\ ToSet(Concatenation) = Gathered
  BY <1>1, CallOver
<1>3. /\ job = [h \in Helpers |-> NoJob] /\ probes = [h \in Helpers |-> <<>>]
      /\ part = [h \in Helpers |-> <<>>]
  <2>1. \A h \in Helpers : job[h] = NoJob /\ probes[h] = <<>> /\ part[h] = <<>>
    BY <1>2 DEF Busy, PoolInv, Quiet
  <2>2. /\ job \in [Helpers -> Tasks \cup {NoJob}] /\ probes \in [Helpers -> Seq(Words)]
        /\ part \in [Helpers -> Seq(Words)]
    BY DEF PoolInv, TypeOK, CallType
  <2> QED
    BY <2>1, <2>2
<1>4. Words' = Words /\ SingularReps' = SingularReps
  BY <1>1 DEF Words, L, SingularReps
<1>5. TypeOK
  BY DEF PoolInv
<1>6. CASE JoinWalk
  <2>1. pc = "walkParts" /\ pc' = "sort" /\ reps' = Concatenation /\ UNCHANGED queue
    BY <1>6 DEF JoinWalk, Step
  <2>2. search \in Searches
    BY <1>5 DEF TypeOK
  <2>3. Concatenation = SingularReps
    <3> DEFINE W == WalkParts[search]
    <3>1. W \in Seq(Seq(WordsOf(search))) /\ FlattenSeq(W) = SingularReps
      BY <2>2, PartsOfWalk DEF SingularReps
    <3>2. Len(W) = sent /\ DOMAIN slots = 1 .. sent
      <4>1. Len(unsent) = 0
        BY <1>2
      <4>2. Len(unsent) + sent = Len(W)
        BY <2>1 DEF PoolInv, Numbered
      <4> QED
        BY <1>1, <1>2, <4>1, <4>2 DEF AllParts
    <3>3. \A i \in 1 .. sent : slots[i] = W[i]
      <4>1. \A i \in 1 .. sent : <<i, slots[i]>> \in Parts
        BY <3>2 DEF Parts
      <4>2. \A p \in Parts : p[2] = W[p[1]]
        BY <2>1 DEF PoolInv, Parted
      <4> QED
        BY <4>1, <4>2
    <3> HIDE DEF W
    <3>4. W = [i \in 1 .. sent |-> W[i]]
      BY <3>1, <3>2
    <3>5. [i \in 1 .. sent |-> slots[i]] = W
      BY <3>3, <3>4
    <3>6. Concatenation = FlattenSeq([i \in 1 .. sent |-> slots[i]])
      BY <1>2 DEF Concatenation
    <3> QED
      BY <3>1, <3>5, <3>6
  <2>4. Fresh' /\ Sequential'
    BY <1>1, <1>4, <2>1, <2>3 DEF PoolInv, Fresh, Sequential
  <2>5. seen' = {} /\ queue' \in Seq(Words) /\ reps' \in Seq(Words)
    BY <1>1, <1>2, <1>5, <2>1 DEF PoolInv, Fresh, TypeOK
  <2> QED
    BY <1>1, <1>2, <1>3, <1>4, <1>5, <2>1, <2>4, <2>5 DEF QuietState, TypeOK
<1>7. CASE JoinLevel
  <2>1. pc = "levelParts" /\ pc' = "level" /\ queue' = Concatenation /\ UNCHANGED reps
    BY <1>7 DEF JoinLevel, Step
  <2>2. Fresh' /\ Sequential'
    BY <1>1, <2>1 DEF Fresh, Sequential
  <2>3. \A x \in seen' : x \in ToSet(queue') \/ Reach(search', x) \subseteq seen'
    <3>1. queue = <<>>
      BY <2>1 DEF PoolInv, Fresh
    <3> QED
      BY <1>1, <1>2, <2>1, <3>1, EmptyQueue DEF PoolInv, Frontier
  <2> QED
    BY <1>1, <1>2, <1>3, <1>4, <1>5, <2>1, <2>2, <2>3 DEF QuietState, TypeOK
<1> QED
  BY <1>6, <1>7

-----------------------------------------------------------------------------
(* The invariant holds, and what follows from it.                            *)

(* Words and slots keep their types, every range of a call is in one place,  *)
(* the parts of a level are disjoint, and no level loses a word.             *)
THEOREM PoolInvariant == Spec => []PoolInv
<1>1. Init => PoolInv
  BY InvInit
<1>2. PoolInv /\ [Next]_vars => PoolInv'
  <2> SUFFICES ASSUME PoolInv, [Next]_vars
               PROVE  PoolInv'
    OBVIOUS
  <2>1. QuietState' => PoolInv'
    BY QuietInv, PTL
  <2>2. ASSUME \/ WalkAlone \/ SortReps \/ SkipRep \/ NewMinimum \/ ExpandAlone
               \/ ExpandByTables \/ ExpandByWalk \/ ExpandByWholeTable \/ OrbitDone
               \/ ScanDone \/ NextSearch \/ DropSender \/ JoinHelpers
        PROVE  PoolInv'
    <3>1. ~InCall
      BY <2>2 DEF WalkAlone, SortReps, SkipRep, NewMinimum, ExpandAlone, ExpandByTables, ExpandByWalk,
                  ExpandByWholeTable, Expand, OrbitDone, ScanDone, NextSearch, DropSender, JoinHelpers,
                  Step, InCall
    <3>2. QuietState
      BY <3>1, InvQuiet
    <3>3. QuietState'
      BY <2>2, <3>2, QuietStep
    <3> QED
      BY <2>1, <3>3
  <2>3. CASE SplitWalk \/ SplitLevel
    <3>1. ~InCall
      BY <2>3 DEF SplitWalk, SplitLevel, Step, InCall
    <3>2. QuietState
      BY <3>1, InvQuiet
    <3> QED
      BY <2>3, <3>2, WalkBegins, LevelBegins
  <2>4. CASE SendTask \/ ReceivePart
    BY <2>4, SendStep, ReceiveStep
  <2>5. CASE JoinWalk \/ JoinLevel
    BY <2>5, JoinStep
  <2>6. ASSUME NEW h \in Helpers, Helper(h)
        PROVE  PoolInv'
    <3>1. CASE TakeTask(h)
      BY <3>1, TakeStep
    <3>2. CASE Claim(h)
      BY <3>2, ClaimStep
    <3>3. CASE SendPart(h)
      BY <3>3, PartSent
    <3>4. CASE Exit(h)
      <4>1. up' \subseteq up /\ UNCHANGED <<pc, callVars, scanVars, seen, tasks, open, results, job, probes, part>>
        BY <3>4 DEF Exit
      <4> QED
        BY <4>1, UpStep
    <3> QED
      BY <2>6, <3>1, <3>2, <3>3, <3>4 DEF Helper
  <2>7. CASE UNCHANGED vars
    <3>1. up' \subseteq up /\ UNCHANGED <<pc, callVars, scanVars, seen, tasks, open, results, job, probes, part>>
      BY <2>7 DEF vars, helperVars
    <3> QED
      BY <3>1, UpStep
  <2> QED
    BY <2>2, <2>3, <2>4, <2>5, <2>6, <2>7 DEF Next, Caller, Ended
<1> QED
  BY <1>1, <1>2, PTL DEF Spec

(* The range tasks of the walk, each started from a closed form and run by   *)
(* any helper at any time, put together are the list of the sequential walk. *)
THEOREM WalkIsSequentialAlways == Spec => []WalkIsSequential
<1>1. PoolInv => WalkIsSequential
  BY DEF PoolInv, Sequential, WalkIsSequential
<1> QED
  BY <1>1, PoolInvariant, PTL

(* No level loses a word: between levels a word that has been seen is to be  *)
(* expanded next or has had all its images seen.                             *)
THEOREM FrontierCompleteAlways == Spec => []FrontierComplete
<1>1. PoolInv => FrontierComplete
  <2> SUFFICES ASSUME PoolInv, pc = "level", NEW x \in seen \ ToSet(queue)
               PROVE  ToSet(Images(<<x>>)) \subseteq seen
    BY DEF FrontierComplete
  <2>1. QuietState
    BY InvQuiet DEF InCall
  <2>2. Reach(search, x) \subseteq seen
    BY <2>1 DEF QuietState
  <2>3. search \in Searches /\ x \in Words /\ <<x>> \in Seq(Words) /\ ToSet(<<x>>) = {x}
    BY DEF PoolInv, TypeOK, ToSet
  <2>4. ToSet(Images(<<x>>)) = UNION {Reach(search, y) : y \in ToSet(<<x>>)}
    BY <2>3, ImagesFacts
  <2> QED
    BY <2>2, <2>3, <2>4
<1> QED
  BY <1>1, PoolInvariant, PTL

(* Whichever helpers race for a word, one gets it: no word is twice in the   *)
(* parts of a level, in the slots, in the channel or with the helpers.       *)
THEOREM ClaimedOnceAlways == Spec => []ClaimedOnce
<1>1. PoolInv => ClaimedOnce
  <2> SUFFICES ASSUME PoolInv, pc = "levelParts"
               PROVE  IsInjective(InFlight)
    BY DEF ClaimedOnce, PoolInv
  <2> DEFINE D == DOMAIN slots
             A == [i \in 1 .. Cardinality(D) |-> slots[SetToSeq(D)[i]]]
             B == [i \in DOMAIN results |-> results[i].part]
             C == [i \in 1 .. PoolSize |-> part[SetToSeq(Helpers)[i]]]
  <2>1. /\ \A p \in Parts : IsInjective(p[2])
        /\ \A p, q \in Parts : p[1] # q[1] => ToSet(p[2]) \cap ToSet(q[2]) = {}
    BY DEF PoolInv, Parted
  <2>2. /\ D \subseteq 1 .. sent /\ sent \in Nat
        /\ \A i \in D : slots[i] \in Seq(Words)
        /\ results \in Seq([idx : Nat, part : Seq(Words)])
        /\ part \in [Helpers -> Seq(Words)]
    BY PoolSizeType DEF PoolInv, TypeOK, CallType
(* Each of the three is made of parts.                                       *)
  <2>3. /\ A \in Seq(Seq(Words)) /\ Distinct(A)
        /\ \A i \in DOMAIN A : \E j \in D : A[i] = slots[j]
    <3>1. IsFiniteSet(D)
      <4>1. IsFiniteSet(1 .. sent)
        BY <2>2, FS_Interval
      <4>2. D \subseteq 1 .. sent
        BY <2>2
      <4> HIDE DEF D
      <4> QED
        BY <4>1, <4>2, FS_Subset
    <3> DEFINE n == Cardinality(D)
               f == SetToSeq(D)
    <3>2. n \in Nat /\ f \in [1 .. n -> D] /\ IsInjective(f)
      <4> HIDE DEF D
      <4> QED
        BY <3>1, SetToSeqFacts
    <3> HIDE DEF n, f
    <3>3. \A i \in 1 .. n : f[i] \in D /\ A[i] = slots[f[i]]
      BY <3>2 DEF n, f
    <3>4. A \in [1 .. n -> Seq(Words)]
      BY <2>2, <3>2, <3>3 DEF n, f
    <3> HIDE DEF A
    <3>5. A \in Seq(Seq(Words)) /\ DOMAIN A = 1 .. n
      <4>1. n \in Nat
        BY <3>2
      <4> QED
        BY <3>4, <4>1
    <3>6. \A i \in D : <<i, slots[i]>> \in Parts
      BY DEF Parts
    <3>7. \A i \in 1 .. n : IsInjective(A[i])
      BY <2>1, <3>3, <3>6
    <3>8. \A i, j \in 1 .. n : i # j => ToSet(A[i]) \cap ToSet(A[j]) = {}
      <4>1. \A i, j \in 1 .. n : i # j => f[i] # f[j]
        BY <3>2 DEF IsInjective
      <4> SUFFICES ASSUME NEW i \in 1 .. n, NEW j \in 1 .. n, i # j
                   PROVE  ToSet(A[i]) \cap ToSet(A[j]) = {}
        OBVIOUS
      <4>2. <<f[i], A[i]>> \in Parts /\ <<f[j], A[j]>> \in Parts /\ f[i] # f[j]
        BY <3>3, <3>6, <4>1
      <4> QED
        BY <2>1, <4>2
    <3> QED
      BY <3>3, <3>5, <3>7, <3>8 DEF Distinct
  <2>4. /\ B \in Seq(Seq(Words)) /\ Distinct(B)
        /\ \A i \in DOMAIN B : \E r \in ToSet(results) : B[i] = r.part
    <3> DEFINE n == Len(results)
    <3> DEFINE R == [idx : Nat, part : Seq(Words)]
    <3>0. results \in Seq(R) /\ \A r \in R : r.part \in Seq(Words)
      BY <2>2
    <3> HIDE DEF R
    <3>1. n \in Nat /\ DOMAIN results = 1 .. n /\ \A i \in 1 .. n : results[i] \in R
      BY <3>0
    <3>2. B \in [1 .. n -> Seq(Words)] /\ \A i \in 1 .. n : B[i] = results[i].part
      BY <3>0, <3>1
    <3> HIDE DEF n
    <3>3. B \in Seq(Seq(Words)) /\ DOMAIN B = 1 .. n
      BY <3>1, <3>2
    <3> HIDE DEF B
    <3>4. \A i \in 1 .. n : results[i] \in ToSet(results)
      BY <3>1 DEF ToSet
    <3>5. \A i \in 1 .. n : <<results[i].idx, B[i]>> \in Parts
      BY <3>2, <3>4 DEF Parts
    <3>6. \A i, j \in 1 .. n : i # j => results[i].idx # results[j].idx
      BY <3>1 DEF PoolInv, Numbered, Once
    <3>7. \A i \in 1 .. n : IsInjective(B[i])
      BY <2>1, <3>5
    <3>8. \A i, j \in 1 .. n : i # j => ToSet(B[i]) \cap ToSet(B[j]) = {}
      BY <2>1, <3>5, <3>6
    <3> QED
      BY <3>2, <3>3, <3>4, <3>7, <3>8 DEF Distinct
  <2>5. /\ C \in Seq(Seq(Words)) /\ Distinct(C)
        /\ \A i \in DOMAIN C : C[i] = <<>> \/ \E h \in Busy : C[i] = part[h]
    <3> DEFINE f == SetToSeq(Helpers)
    <3>1. PoolSize \in Nat /\ f \in [1 .. PoolSize -> Helpers] /\ IsInjective(f)
      BY PoolAssumption, SetToSeqFacts DEF PoolSize
    <3> HIDE DEF f
    <3>2. C \in [1 .. PoolSize -> Seq(Words)] /\ \A i \in 1 .. PoolSize : f[i] \in Helpers /\ C[i] = part[f[i]]
      BY <2>2, <3>1 DEF f
    <3>3. C \in Seq(Seq(Words)) /\ DOMAIN C = 1 .. PoolSize
      BY <3>1, <3>2
    <3> HIDE DEF C
    <3>4. \A h \in Helpers : h \in Busy \/ part[h] = <<>>
      BY DEF Busy, PoolInv, Quiet
    <3>5. \A h \in Busy : <<job[h].idx, part[h]>> \in Parts
      BY DEF Parts
    <3>6. \A g, h \in Busy : g # h => job[g].idx # job[h].idx
      BY DEF PoolInv, Numbered
    <3>7. \A h \in Helpers : IsInjective(part[h])
      BY <2>1, <3>4, <3>5, EmptyQueue
    <3>8. \A g, h \in Helpers : g # h => ToSet(part[g]) \cap ToSet(part[h]) = {}
      <4> SUFFICES ASSUME NEW g \in Helpers, NEW h \in Helpers, g # h
                   PROVE  ToSet(part[g]) \cap ToSet(part[h]) = {}
        OBVIOUS
      <4>1. CASE g \in Busy /\ h \in Busy
        BY <2>1, <3>5, <3>6, <4>1
      <4>2. CASE g \notin Busy \/ h \notin Busy
        BY <3>4, <4>2, EmptyQueue
      <4> QED
        BY <4>1, <4>2
    <3>9. \A i, j \in 1 .. PoolSize : i # j => f[i] # f[j]
      BY <3>1 DEF IsInjective
    <3>10. \A i \in 1 .. PoolSize : IsInjective(C[i])
      BY <3>2, <3>7
    <3>11. \A i, j \in 1 .. PoolSize : i # j => ToSet(C[i]) \cap ToSet(C[j]) = {}
      <4> SUFFICES ASSUME NEW i \in 1 .. PoolSize, NEW j \in 1 .. PoolSize, i # j
                   PROVE  ToSet(C[i]) \cap ToSet(C[j]) = {}
        OBVIOUS
      <4>1. f[i] \in Helpers /\ f[j] \in Helpers /\ f[i] # f[j] /\ C[i] = part[f[i]] /\ C[j] = part[f[j]]
        BY <3>2, <3>9
      <4> QED
        BY <3>8, <4>1
    <3>12. Distinct(C)
      BY <3>3, <3>10, <3>11 DEF Distinct
    <3>13. \A i \in 1 .. PoolSize : C[i] = <<>> \/ \E h \in Busy : C[i] = part[h]
      BY <3>2, <3>4
    <3> QED
      BY <3>3, <3>12, <3>13
  <2> HIDE DEF A, B, C
(* The three have nothing in common.                                         *)
  <2>6. \A i \in D, r \in ToSet(results) : ToSet(slots[i]) \cap ToSet(r.part) = {}
    <3> SUFFICES ASSUME NEW i \in D, NEW r \in ToSet(results)
                 PROVE  ToSet(slots[i]) \cap ToSet(r.part) = {}
      OBVIOUS
    <3>1. r.idx \in Ids(results)
      BY DEF Ids
    <3>2. i # r.idx
      BY <3>1 DEF PoolInv, Numbered
    <3>3. <<i, slots[i]>> \in Parts /\ <<r.idx, r.part>> \in Parts
      BY DEF Parts
    <3> QED
      BY <2>1, <3>2, <3>3
  <2>7. \A h \in Busy : /\ \A i \in D : ToSet(slots[i]) \cap ToSet(part[h]) = {}
                        /\ \A r \in ToSet(results) : ToSet(r.part) \cap ToSet(part[h]) = {}
    <3> SUFFICES ASSUME NEW h \in Busy
                 PROVE  /\ \A i \in D : ToSet(slots[i]) \cap ToSet(part[h]) = {}
                        /\ \A r \in ToSet(results) : ToSet(r.part) \cap ToSet(part[h]) = {}
      OBVIOUS
    <3>1. <<job[h].idx, part[h]>> \in Parts /\ job[h].idx \in JobIds
      BY DEF Parts, JobIds
    <3>2. \A i \in D : <<i, slots[i]>> \in Parts /\ i # job[h].idx
      BY <3>1 DEF Parts, PoolInv, Numbered
    <3>3. \A r \in ToSet(results) : <<r.idx, r.part>> \in Parts /\ r.idx # job[h].idx
      <4>1. \A r \in ToSet(results) : r.idx \in Ids(results)
        BY DEF Ids
      <4> QED
        BY <3>1, <4>1 DEF Parts, PoolInv, Numbered
    <3> QED
      BY <2>1, <3>1, <3>2, <3>3
  <2> DEFINE a == FlattenSeq(A)
             b == FlattenSeq(B)
             c == FlattenSeq(C)
  <2>8. /\ a \in Seq(Words) /\ IsInjective(a)
        /\ \A x \in ToSet(a) : \E j \in D : x \in ToSet(slots[j])
    <3>1. a \in Seq(Words) /\ ToSet(a) = HeldBy(A, Len(A)) /\ IsInjective(a)
      BY <2>3, FlattenFacts
    <3>2. DOMAIN A = 1 .. Len(A)
      BY <2>3
    <3>3. \A x \in HeldBy(A, Len(A)) : \E i \in DOMAIN A : x \in ToSet(A[i])
      BY <3>2 DEF HeldBy
    <3> QED
      BY <2>3, <3>1, <3>3
  <2>9. /\ b \in Seq(Words) /\ IsInjective(b)
        /\ \A x \in ToSet(b) : \E r \in ToSet(results) : x \in ToSet(r.part)
    <3>1. b \in Seq(Words) /\ ToSet(b) = HeldBy(B, Len(B)) /\ IsInjective(b)
      BY <2>4, FlattenFacts
    <3>2. DOMAIN B = 1 .. Len(B)
      BY <2>4
    <3>3. \A x \in HeldBy(B, Len(B)) : \E i \in DOMAIN B : x \in ToSet(B[i])
      BY <3>2 DEF HeldBy
    <3> QED
      BY <2>4, <3>1, <3>3
  <2>10. /\ c \in Seq(Words) /\ IsInjective(c)
         /\ \A x \in ToSet(c) : \E h \in Busy : x \in ToSet(part[h])
    <3>1. c \in Seq(Words) /\ ToSet(c) = HeldBy(C, Len(C)) /\ IsInjective(c)
      BY <2>5, FlattenFacts
    <3>2. DOMAIN C = 1 .. Len(C)
      BY <2>5
    <3>3. \A x \in HeldBy(C, Len(C)) : \E i \in DOMAIN C : x \in ToSet(C[i])
      BY <3>2 DEF HeldBy
    <3> QED
      BY <2>5, <3>1, <3>3, EmptyQueue
  <2>11. InFlight = (a \o b) \o c
    BY DEF InFlight, A, B, C
  <2> HIDE DEF a, b, c, D
  <2>12. ToSet(a) \cap ToSet(b) = {}
    BY <2>6, <2>8, <2>9
  <2>13. a \o b \in Seq(Words) /\ ToSet(a \o b) = ToSet(a) \cup ToSet(b) /\ IsInjective(a \o b)
    <3>1. a \o b \in Seq(Words)
      BY <2>8, <2>9
    <3> QED
      BY <2>8, <2>9, <2>12, <3>1, ToSetConcat
  <2>14. ToSet(a \o b) \cap ToSet(c) = {}
    BY <2>7, <2>8, <2>9, <2>10, <2>13
  <2>15. IsInjective((a \o b) \o c)
    BY <2>10, <2>13, <2>14, ToSetConcat
  <2> QED
    BY <2>11, <2>15
<1> QED
  BY <1>1, PoolInvariant, PTL

-----------------------------------------------------------------------------
(* What the searches promise.                                                *)

(* The order and the list are the same operators in OrbitScan.               *)
ByRank(S, n, rank) == [i \in 1 .. n |-> CHOOSE x \in S : rank[x] = i]

LEMMA ScanOrder ==
  /\ \A u, v : Search!Below(u, v) <=> Below(u, v)
  /\ \A S : Search!Ascending(S) = Ascending(S)
<1>1. \A u, v : Search!Below(u, v) <=> Below(u, v)
  BY DEF Search!Below, Below, Search!Xor, Xor, Search!Max, Max, Search!SymDiff, SymDiff
<1>2. \A S : Search!Cardinality(S) = Cardinality(S)
  BY DEF Search!Cardinality, Cardinality
<1>3. ASSUME NEW S
      PROVE  Search!Ascending(S) = Ascending(S)
  <2>1. \A x : {y \in S : Search!Below(y, x)} = {y \in S : Below(y, x)}
    BY <1>1
  <2>2. [x \in S |-> Search!Cardinality({y \in S : Search!Below(y, x)}) + 1]
          = [x \in S |-> Cardinality({y \in S : Below(y, x)}) + 1]
    BY <1>2, <2>1
  <2>3. Search!Cardinality(S) = Cardinality(S)
    BY <1>2
  <2>4. Search!Ascending(S)
          = ByRank(S, Search!Cardinality(S),
                   [x \in S |-> Search!Cardinality({y \in S : Search!Below(y, x)}) + 1])
    BY DEF Search!Ascending, ByRank
  <2>5. Ascending(S)
          = ByRank(S, Cardinality(S), [x \in S |-> Cardinality({y \in S : Below(y, x)}) + 1])
    BY DEF Ascending, ByRank
  <2> QED
    BY <2>2, <2>3, <2>4, <2>5
<1> QED
  BY <1>1, <1>3

(* Where the maps of the group take the words of S.                          *)
Reached(s, S) == {g[y] : g \in GroupMaps[s], y \in S}

(* Generators permute the singular words.                                    *)
LEMMA SingularFacts ==
  ASSUME NEW s \in Searches
  PROVE  /\ SingularWords[s] \subseteq WordsOf(s) /\ IsFiniteSet(SingularWords[s])
         /\ \A x \in SingularWords[s] : Reach(s, x) \subseteq SingularWords[s]
         /\ \A i \in DOMAIN GensOf(s), x, y \in SingularWords[s] :
              Combination(GensOf(s)[i], x) = Combination(GensOf(s)[i], y) => x = y
         /\ \A S \in SUBSET SingularWords[s] :
              Reached(s, S) = UNION {Reach(s, y) : y \in S}
<1> DEFINE A == SingularWords[s]
           gen(i) == [x \in A |-> Combination(GensOf(s)[i], x)]
<1>1. A = ToSet(WholeWalk[s]) /\ WholeWalk[s] \in Seq(WordsOf(s))
  BY PartsOfWalk DEF SingularWords
<1>2. A \subseteq WordsOf(s)
  BY <1>1, ToSetConcat
<1>3. IsFiniteSet(A)
  BY <1>2, SearchType, AscendingLists DEF WordsOf
<1>4. GroupMaps[s] = {gen(i) : i \in DOMAIN GensOf(s)}
  BY DEF GroupMaps
<1> HIDE DEF A
<1>5. \A i \in DOMAIN GensOf(s) : gen(i) \in [A -> A] /\ IsInjective(gen(i))
  BY <1>4, GroupAssumption DEF A
<1>6. \A i \in DOMAIN GensOf(s), x \in A : gen(i)[x] = Combination(GensOf(s)[i], x)
  OBVIOUS
<1>7. \A i \in DOMAIN GensOf(s), x \in A : Combination(GensOf(s)[i], x) \in A
  BY <1>5, <1>6
<1>8. \A i \in DOMAIN GensOf(s), x, y \in A :
        Combination(GensOf(s)[i], x) = Combination(GensOf(s)[i], y) => x = y
  BY <1>5, <1>6 DEF IsInjective
<1>9. ASSUME NEW S \in SUBSET A
      PROVE  Reached(s, S) = UNION {Reach(s, y) : y \in S}
  <2>1. ASSUME NEW g \in GroupMaps[s], NEW y \in S
        PROVE  g[y] \in Reach(s, y)
    <3>1. PICK i \in DOMAIN GensOf(s) : g = gen(i)
      BY <1>4
    <3>2. g[y] = Combination(GensOf(s)[i], y)
      BY <1>6, <3>1
    <3> QED
      BY <3>2 DEF Reach
  <2>2. ASSUME NEW y \in S, NEW z \in Reach(s, y)
        PROVE  \E g \in GroupMaps[s] : z = g[y]
    <3>1. PICK i \in DOMAIN GensOf(s) : z = Combination(GensOf(s)[i], y)
      BY DEF Reach
    <3>2. gen(i)[y] = z /\ gen(i) \in GroupMaps[s]
      BY <1>4, <1>6, <3>1
    <3> HIDE DEF gen
    <3> QED
      BY <3>2
  <2> QED
    BY <2>1, <2>2 DEF Reached
<1>10. \A x \in A : Reach(s, x) \subseteq A
  BY <1>7 DEF Reach
<1> QED
  BY <1>2, <1>3, <1>8, <1>9, <1>10 DEF A

(* A set of singular words that no generator leaves.                         *)
Closed(s, T) == T \subseteq SingularWords[s] /\ \A x \in T : Reach(s, x) \subseteq T

(* The least one around S.                                                   *)
Hull(s, S) ==
  {y \in SingularWords[s] :
     \A T \in SUBSET SingularWords[s] : S \subseteq T /\ Closed(s, T) => y \in T}

LEMMA HullFacts ==
  ASSUME NEW s \in Searches, NEW S \in SUBSET SingularWords[s]
  PROVE  /\ S \subseteq Hull(s, S) /\ Closed(s, Hull(s, S))
         /\ \A T : Closed(s, T) /\ S \subseteq T => Hull(s, S) \subseteq T
<1> DEFINE A == SingularWords[s]
<1>1. S \subseteq Hull(s, S) /\ Hull(s, S) \subseteq A
  BY DEF Hull
<1>2. \A T : Closed(s, T) /\ S \subseteq T => Hull(s, S) \subseteq T
  BY DEF Hull, Closed
<1>3. ASSUME NEW x \in Hull(s, S), NEW z \in Reach(s, x)
      PROVE  z \in Hull(s, S)
  <2>1. z \in A
    BY <1>1, SingularFacts
  <2>2. ASSUME NEW T \in SUBSET A, S \subseteq T, Closed(s, T)
        PROVE  z \in T
    <3>1. x \in T
      BY <1>2, <2>2
    <3> QED
      BY <2>2, <3>1 DEF Closed
  <2> QED
    BY <2>1, <2>2 DEF Hull
<1> QED
  BY <1>1, <1>2, <1>3 DEF Closed

(* What a closed set leaves is closed: on it, and so within it, the          *)
(* generators are permutations.                                              *)
LEMMA ClosedRest ==
  ASSUME NEW s \in Searches, NEW T, Closed(s, T)
  PROVE  Closed(s, SingularWords[s] \ T)
<1> DEFINE A == SingularWords[s]
<1>1. IsFiniteSet(T) /\ T \subseteq A
  BY SingularFacts, FS_Subset DEF Closed
<1>2. ASSUME NEW y \in A \ T, NEW i \in DOMAIN GensOf(s), Combination(GensOf(s)[i], y) \in T
      PROVE  FALSE
  <2> DEFINE f == [x \in T |-> Combination(GensOf(s)[i], x)]
  <2>1. f \in [T -> T]
    BY DEF Closed, Reach
  <2>2. \A a, b \in T : f[a] = f[b] => a = b
    BY <1>1, SingularFacts
  <2>3. f \in Injection(T, T)
    BY <2>1, <2>2 DEF Injection, IsInjective
  <2>4. f \in Surjection(T, T)
    <3> HIDE DEF f
    <3> QED
      BY <1>1, <2>3, FS_Injection
  <2>5. PICK x \in T : f[x] = Combination(GensOf(s)[i], y)
    BY <1>2, <2>4 DEF Surjection
  <2>6. x = y
    BY <1>1, <2>5, SingularFacts
  <2> QED
    BY <2>6
<1>3. ASSUME NEW y \in A \ T, NEW z \in Reach(s, y)
      PROVE  z \in A \ T
  <2>1. z \in A
    BY SingularFacts
  <2> QED
    BY <1>2, <2>1 DEF Reach
<1> QED
  BY <1>3 DEF Closed

(* One round of the closure in OrbitScan, and the closure itself.            *)
Grown(s, S) == S \cup Reached(s, S)

ClosureAt(s, h, S) == IF Grown(s, S) = S THEN S ELSE h[Grown(s, S)]

IsClosure(s, h) == h = [S \in SUBSET SingularWords[s] |-> ClosureAt(s, h, S)]

LEMMA GrownFacts ==
  ASSUME NEW s \in Searches, NEW S \in SUBSET SingularWords[s]
  PROVE  /\ Grown(s, S) \in SUBSET SingularWords[s] /\ S \subseteq Grown(s, S)
         /\ Grown(s, S) = S => Hull(s, S) = S
         /\ Hull(s, Grown(s, S)) = Hull(s, S)
<1> DEFINE A == SingularWords[s]
           G == Grown(s, S)
<1>1. G = S \cup UNION {Reach(s, y) : y \in S}
  <2>1. Reached(s, S) = UNION {Reach(s, y) : y \in S}
    BY SingularFacts
  <2> QED
    BY <2>1 DEF Grown
<1>2. G \in SUBSET A /\ S \subseteq G
  <2>1. \A y \in S : Reach(s, y) \subseteq A
    BY SingularFacts
  <2> QED
    BY <1>1, <2>1
<1>3. ASSUME G = S
      PROVE  Hull(s, S) = S
  <2>1. Closed(s, S)
    BY <1>1, <1>3 DEF Closed
  <2> QED
    BY <2>1, HullFacts
<1>4. \A T : Closed(s, T) => (S \subseteq T <=> G \subseteq T)
  BY <1>1 DEF Closed
<1>5. Hull(s, G) = Hull(s, S)
  BY <1>4 DEF Hull
<1> QED
  BY <1>2, <1>3, <1>5

(* The closure is the hull: the words not yet in it become fewer.            *)
LEMMA OrbitIsHull ==
  ASSUME NEW s \in Searches, NEW x \in SingularWords[s]
  PROVE  Search!Orbit(s, x) = Hull(s, {x})
<1> DEFINE A == SingularWords[s]
           h == CHOOSE h : IsClosure(s, h)
           k == [S \in SUBSET A |-> Hull(s, S)]
<1>1. Search!Orbit(s, x) = h[{x}]
  BY DEF Search!Orbit, IsClosure, ClosureAt, Grown, Reached
<1>2. IsClosure(s, k)
  <2>1. ASSUME NEW S \in SUBSET A
        PROVE  ClosureAt(s, k, S) = Hull(s, S)
    <3>1. Grown(s, S) \in SUBSET A
      BY GrownFacts
    <3>2. k[Grown(s, S)] = Hull(s, S)
      BY <3>1, GrownFacts
    <3> HIDE DEF k
    <3> QED
      BY <3>2, GrownFacts DEF ClosureAt
  <2> QED
    BY <2>1 DEF IsClosure
<1>3. IsClosure(s, h)
  <2> HIDE DEF k
  <2> QED
    BY <1>2
<1> HIDE DEF h
<1>4. \A S \in SUBSET A : h[S] = ClosureAt(s, h, S)
  BY <1>3 DEF IsClosure
<1> DEFINE C == {A \ S : S \in {S \in SUBSET A : h[S] # Hull(s, S)}}
<1>5. ASSUME C # {}
      PROVE  FALSE
  <2>1. C \subseteq SUBSET A /\ IsFiniteSet(A)
    BY SingularFacts
  <2>2. PICK M \in C : \A U \in C : U \subseteq M => U = M
    <3> HIDE DEF C, A
    <3> QED
      BY <1>5, <2>1, LeastSet
  <2>3. PICK S \in SUBSET A : M = A \ S /\ h[S] # Hull(s, S)
    OBVIOUS
  <2>4. Grown(s, S) # S
    BY <1>4, <2>3, GrownFacts DEF ClosureAt
  <2>5. h[S] = h[Grown(s, S)]
    BY <1>4, <2>4 DEF ClosureAt
  <2>6. Grown(s, S) \in SUBSET A /\ S \subseteq Grown(s, S) /\ Hull(s, Grown(s, S)) = Hull(s, S)
    BY GrownFacts
  <2>7. A \ Grown(s, S) \in C
    BY <2>3, <2>5, <2>6
  <2>8. A \ Grown(s, S) \subseteq M /\ A \ Grown(s, S) # M
    BY <2>3, <2>4, <2>6
  <2> QED
    BY <2>2, <2>7, <2>8
<1>6. {x} \in SUBSET A
  OBVIOUS
<1>7. h[{x}] = Hull(s, {x})
  BY <1>5, <1>6
<1> QED
  BY <1>1, <1>7

(* The orbit of a word, and what a search looks for.                         *)
Orb(s, x) == Hull(s, {x})

Least(s) == {x \in SingularWords[s] : \A y \in Orb(s, x) : ~ Below(y, x)}

LEMMA OrbFacts ==
  ASSUME NEW s \in Searches, NEW x \in SingularWords[s]
  PROVE  /\ x \in Orb(s, x) /\ Closed(s, Orb(s, x))
         /\ \A T : Closed(s, T) /\ x \in T => Orb(s, x) \subseteq T
         /\ \A T : Closed(s, T) /\ x \notin T => Orb(s, x) \cap T = {}
         /\ \A y \in Orb(s, x) : y \in SingularWords[s] /\ x \in Orb(s, y)
<1>1. {x} \in SUBSET SingularWords[s]
  OBVIOUS
<1>2. /\ x \in Orb(s, x) /\ Closed(s, Orb(s, x))
      /\ \A T : Closed(s, T) /\ x \in T => Orb(s, x) \subseteq T
  BY <1>1, HullFacts DEF Orb
<1>3. ASSUME NEW T, Closed(s, T), x \notin T
      PROVE  Orb(s, x) \cap T = {}
  <2>1. Closed(s, SingularWords[s] \ T)
    BY <1>3, ClosedRest
  <2>2. x \in SingularWords[s] \ T
    BY <1>3
  <2> QED
    BY <1>2, <2>1, <2>2
<1>4. ASSUME NEW y \in Orb(s, x)
      PROVE  y \in SingularWords[s] /\ x \in Orb(s, y)
  <2>1. y \in SingularWords[s]
    BY <1>2 DEF Closed
  <2>2. {y} \in SUBSET SingularWords[s]
    BY <2>1
  <2>3. y \in Orb(s, y) /\ Closed(s, Orb(s, y))
    BY <2>2, HullFacts DEF Orb
  <2> QED
    BY <1>3, <2>1, <2>3
<1> QED
  BY <1>2, <1>3, <1>4

LEMMA ScanPromise ==
  ASSUME NEW s \in Searches
  PROVE  Search!OrbitMinima[s] = Ascending(Least(s)) /\ Least(s) \subseteq WordsOf(s)
<1>1. Search!Requests = Searches
  BY DEF Search!Requests, SingularWords
<1>2. {x \in SingularWords[s] : \A y \in Search!Orbit(s, x) : ~ Search!Below(y, x)} = Least(s)
  BY OrbitIsHull, ScanOrder DEF Least, Orb
<1>3. Search!OrbitMinima[s] = Search!Ascending(Least(s))
  BY <1>1, <1>2 DEF Search!OrbitMinima
<1> QED
  BY <1>3, ScanOrder, SingularFacts DEF Least

(* Ascending lists are determined by what they hold.                         *)
Rising(s) == \A i, j \in DOMAIN s : i < j => Below(s[i], s[j])

LEMMA SameStart ==
  ASSUME NEW m \in Nat, NEW S, S \subseteq SUBSET (0 .. m - 1),
         NEW a, NEW b, Lists(a, S), Lists(b, S)
  PROVE  \A i \in 1 .. Len(a) : i \in 1 .. Len(b) /\ a[i] = b[i]
<1>1. /\ Len(a) \in Nat /\ DOMAIN a = 1 .. Len(a) /\ Len(b) \in Nat /\ DOMAIN b = 1 .. Len(b)
      /\ \A i \in 1 .. Len(a) : a[i] \in S
      /\ \A i \in 1 .. Len(b) : b[i] \in S
  BY DEF Lists
<1>2. /\ \A i, j \in 1 .. Len(a) : i < j => Below(a[i], a[j])
      /\ \A i, j \in 1 .. Len(b) : i < j => Below(b[i], b[j])
  BY <1>1 DEF Lists
<1>3. /\ \A x \in S : \E i \in 1 .. Len(a) : a[i] = x
      /\ \A x \in S : \E i \in 1 .. Len(b) : b[i] = x
  BY <1>1 DEF Lists, ToSet
<1>4. /\ \A x \in S : ~ Below(x, x)
      /\ \A x, y \in S : ~ (Below(x, y) /\ Below(y, x))
  <2>1. ASSUME NEW x \in S, NEW y \in S
        PROVE  ~ Below(x, x) /\ ~ (Below(x, y) /\ Below(y, x))
    <3>1. x \in SUBSET (0 .. m - 1) /\ y \in SUBSET (0 .. m - 1)
      OBVIOUS
    <3> QED
      BY <3>1, BelowOrder
  <2> QED
    BY <2>1
<1> DEFINE Bad == {i \in 1 .. Len(a) : ~ (i \in 1 .. Len(b) /\ a[i] = b[i])}
<1>5. ASSUME Bad # {}
      PROVE  FALSE
  <2>1. Bad \subseteq Nat
    BY <1>1
  <2>2. PICK i \in Bad : \A k \in Bad : i <= k
    <3> HIDE DEF Bad
    <3> QED
      BY <1>5, <2>1, LeastNumber
  <2>3. i \in 1 .. Len(a) /\ \A k \in 1 .. Len(a) : k < i => k \in 1 .. Len(b) /\ a[k] = b[k]
    BY <1>1, <2>2
  <2>4. PICK j \in 1 .. Len(b) : b[j] = a[i]
    BY <1>1, <1>3, <2>3
  <2>5. ~ (j < i)
    BY <1>1, <1>2, <1>4, <2>3, <2>4
  <2>6. i \in 1 .. Len(b) /\ i < j
    BY <1>1, <2>2, <2>3, <2>4, <2>5
  <2>7. Below(b[i], a[i])
    BY <1>2, <2>4, <2>6
  <2>8. PICK k \in 1 .. Len(a) : a[k] = b[i]
    BY <1>1, <1>3, <2>6
  <2>9. ~ (k < i)
    <3>1. k < i => b[k] = b[i] /\ k \in 1 .. Len(b)
      BY <2>3, <2>8
    <3> QED
      BY <1>1, <1>2, <1>4, <2>6, <3>1
  <2>10. k # i
    BY <2>2, <2>6, <2>8
  <2>11. i < k
    BY <1>1, <2>3, <2>9, <2>10
  <2>12. Below(a[i], b[i])
    BY <1>2, <2>3, <2>8, <2>11
  <2> QED
    BY <1>1, <1>4, <2>3, <2>6, <2>7, <2>12
<1> QED
  BY <1>5

LEMMA RisingIsAscending ==
  ASSUME NEW m \in Nat, NEW a \in Seq(SUBSET (0 .. m - 1)), Rising(a)
  PROVE  a = Ascending(ToSet(a))
<1> DEFINE W == SUBSET (0 .. m - 1)
           S == ToSet(a)
           b == Ascending(S)
<1>1. S \subseteq W /\ Len(a) \in Nat /\ DOMAIN a = 1 .. Len(a)
  BY DEF ToSet
<1>2. IsInjective(a)
  <2>1. \A i \in 1 .. Len(a) : ~ Below(a[i], a[i])
    BY <1>1, BelowOrder
  <2> QED
    BY <1>1, <2>1 DEF Rising, IsInjective
<1>3. a \in Seq(S)
  <2>1. \A i \in 1 .. Len(a) : a[i] \in S
    BY <1>1 DEF ToSet
  <2> HIDE DEF S
  <2> QED
    BY <1>1, <2>1
<1>4. Lists(a, S)
  BY <1>2, <1>3 DEF Lists, Rising
<1>5. Lists(b, S)
  BY <1>1, AscendingLists
<1>6. b \in Seq(S)
  BY <1>5 DEF Lists
<1> HIDE DEF S, b
<1>7. /\ \A i \in 1 .. Len(a) : i \in 1 .. Len(b) /\ a[i] = b[i]
      /\ \A i \in 1 .. Len(b) : i \in 1 .. Len(a) /\ b[i] = a[i]
  BY <1>1, <1>4, <1>5, SameStart
<1>8. Len(a) \in Nat /\ Len(b) \in Nat /\ DOMAIN b = 1 .. Len(b)
  BY <1>1, <1>6
<1>9. Len(a) = Len(b)
  <2>1. Len(a) >= 1 => Len(a) \in 1 .. Len(a)
    BY <1>8
  <2>2. Len(b) >= 1 => Len(b) \in 1 .. Len(b)
    BY <1>8
  <2> QED
    BY <1>7, <1>8, <2>1, <2>2
<1>10. a = b
  BY <1>1, <1>3, <1>6, <1>7, <1>8, <1>9
<1> QED
  BY <1>10 DEF S, b

LEMMA RisingTail ==
  ASSUME NEW T, NEW s \in Seq(T), s # <<>>, Rising(s)
  PROVE  Rising(Tail(s)) /\ \A x \in ToSet(Tail(s)) : Below(Head(s), x)
<1> DEFINE t == Tail(s)
<1>1. /\ Len(s) \in Nat /\ Len(s) >= 1 /\ DOMAIN s = 1 .. Len(s) /\ Head(s) = s[1]
      /\ DOMAIN t = 1 .. Len(s) - 1 /\ \A i \in 1 .. Len(s) - 1 : t[i] = s[i + 1]
  OBVIOUS
<1> HIDE DEF t
<1>2. Rising(t)
  <2> SUFFICES ASSUME NEW i \in 1 .. Len(s) - 1, NEW j \in 1 .. Len(s) - 1, i < j
               PROVE  Below(t[i], t[j])
    BY <1>1 DEF Rising
  <2>1. i + 1 \in DOMAIN s /\ j + 1 \in DOMAIN s /\ i + 1 < j + 1
    BY <1>1
  <2> QED
    BY <1>1, <2>1 DEF Rising
<1>3. ASSUME NEW x \in ToSet(t)
      PROVE  Below(Head(s), x)
  <2>1. PICK i \in 1 .. Len(s) - 1 : x = s[i + 1]
    BY <1>1 DEF ToSet
  <2>2. 1 \in DOMAIN s /\ i + 1 \in DOMAIN s /\ 1 < i + 1
    BY <1>1
  <2> QED
    BY <1>1, <2>1, <2>2 DEF Rising
<1> QED
  BY <1>2, <1>3 DEF t

LEMMA RisingAppend ==
  ASSUME NEW T, NEW s \in Seq(T), Rising(s), NEW x \in T, \A y \in ToSet(s) : Below(y, x)
  PROVE  Rising(Append(s, x))
<1> DEFINE t == Append(s, x)
<1>1. /\ Len(s) \in Nat /\ DOMAIN s = 1 .. Len(s) /\ DOMAIN t = 1 .. Len(s) + 1
      /\ t[Len(s) + 1] = x /\ \A i \in 1 .. Len(s) : t[i] = s[i]
  OBVIOUS
<1> HIDE DEF t
<1>2. \A i \in 1 .. Len(s) : s[i] \in ToSet(s)
  BY <1>1 DEF ToSet
<1>3. ASSUME NEW i \in 1 .. Len(s) + 1, NEW j \in 1 .. Len(s) + 1, i < j
      PROVE  Below(t[i], t[j])
  <2>1. i \in 1 .. Len(s)
    BY <1>1, <1>3
  <2>2. CASE j = Len(s) + 1
    BY <1>1, <1>2, <2>1, <2>2
  <2>3. CASE j # Len(s) + 1
    <3>1. j \in 1 .. Len(s)
      BY <1>1, <2>3
    <3> QED
      BY <1>1, <1>3, <2>1, <3>1 DEF Rising
  <2> QED
    BY <2>2, <2>3
<1> QED
  BY <1>1, <1>3 DEF Rising, t

-----------------------------------------------------------------------------
(* The search: what has been seen is a union of orbits of the minima found   *)
(* so far, but for the images still to come.                                 *)

Scanning == pc \in {"scan", "level", "levelParts"}

(* The orbits of the minima found so far.                                    *)
Cover == UNION {Orb(search, m) : m \in ToSet(minima)}

(* What has been seen, will be expanded or will be probed.                   *)
Held == seen \cup ToSet(queue) \cup Pending \cup Probed

Scanned ==
  /\ ToSet(reps) \subseteq SingularWords[search]
  /\ SingularWords[search] \subseteq seen \cup ToSet(reps)
  /\ Rising(reps) /\ Rising(minima)
  /\ \A m \in ToSet(minima), x \in ToSet(reps) : Below(m, x)
  /\ ToSet(minima) \subseteq Least(search)
  /\ Held \subseteq Cover

ScanInv ==
  /\ Scanning => Scanned
  /\ pc \in {"walk", "walkParts", "sort"} => minima = <<>>
  /\ Answered => minima = Ascending(Least(search))

(* The orbits found so far leave one another alone.                          *)
LEMMA CoverClosed ==
  ASSUME search \in Searches, ToSet(minima) \subseteq Least(search)
  PROVE  Closed(search, Cover)
<1>1. \A m \in ToSet(minima) : m \in SingularWords[search] /\ Closed(search, Orb(search, m))
  <2>1. \A m \in Least(search) : m \in SingularWords[search]
    BY DEF Least
  <2> QED
    BY <2>1, OrbFacts
<1>2. Cover \subseteq SingularWords[search]
  BY <1>1 DEF Cover, Closed
<1>3. ASSUME NEW x \in Cover
      PROVE  Reach(search, x) \subseteq Cover
  <2>1. PICK m \in ToSet(minima) : x \in Orb(search, m)
    BY <1>3 DEF Cover
  <2>2. Reach(search, x) \subseteq Orb(search, m)
    BY <1>1, <2>1 DEF Closed
  <2> QED
    BY <2>2 DEF Cover
<1> QED
  BY <1>2, <1>3 DEF Closed

(* A step that adds no more than images of what is held keeps the scan.      *)
LEMMA ScanFrame ==
  ASSUME search \in Searches, ScanInv, UNCHANGED <<search, reps, minima>>,
         pc' = pc \/ (Scanning /\ Scanning'),
         Scanning => /\ seen \subseteq seen'
                     /\ Held' \subseteq Held \cup UNION {Reach(search, x) : x \in Held}
  PROVE  ScanInv'
<1>1. ASSUME Scanning
      PROVE  Scanned'
  <2>1. Scanned /\ seen \subseteq seen'
    BY <1>1 DEF ScanInv
  <2>2. Cover' = Cover
    BY DEF Cover
  <2>3. Closed(search, Cover)
    BY <2>1, CoverClosed DEF Scanned
  <2>4. Held' \subseteq Cover
    BY <1>1, <2>1, <2>3 DEF Scanned, Closed
  <2> QED
    BY <2>1, <2>2, <2>4 DEF Scanned
<1>2. (Scanning => Scanned)'
  <2>1. Scanning' => Scanning
    BY DEF Scanning
  <2> QED
    BY <1>1, <2>1
<1>3. pc' \in {"walk", "walkParts", "sort"} => minima' = <<>>
  BY DEF ScanInv, Scanning
<1>4. Answered' => minima' = Ascending(Least(search'))
  BY DEF ScanInv, Scanning, Answered
<1> QED
  BY <1>2, <1>3, <1>4 DEF ScanInv

LEMMA PendingShrinks ==
  ASSUME ToSet(unsent') \cup ToSet(tasks') \subseteq ToSet(unsent) \cup ToSet(tasks)
  PROVE  Pending' \subseteq Pending
BY DEF Pending

(* In a call the words move on, and helpers look at images of theirs only.   *)
LEMMA ScanSend ==
  ASSUME PoolInv, ScanInv, SendTask
  PROVE  ScanInv'
<1>1. /\ unsent # <<>> /\ tasks' = Append(tasks, Head(unsent)) /\ unsent' = Tail(unsent)
      /\ UNCHANGED <<pc, search, reps, minima, queue, seen, probes>>
  BY DEF SendTask, askVars, scanVars, helperVars
<1>2. unsent \in Seq(Tasks) /\ tasks \in Seq(Tasks) /\ search \in Searches
  BY DEF PoolInv, TypeOK, CallType
<1>3. Head(unsent) \in Tasks /\ ToSet(unsent) = {Head(unsent)} \cup ToSet(unsent')
  BY <1>1, <1>2, TailFacts
<1>4. ToSet(tasks') = ToSet(tasks) \cup {Head(unsent)}
  BY <1>1, <1>2, <1>3, AppendFacts
<1>5. Pending' \subseteq Pending
  BY <1>3, <1>4, PendingShrinks
<1>6. Probed' = Probed
  BY <1>1 DEF Probed
<1>7. Held' \subseteq Held
  BY <1>1, <1>5, <1>6 DEF Held
<1> QED
  BY <1>1, <1>2, <1>7, ScanFrame

LEMMA ScanHeld ==
  ASSUME PoolInv, ScanInv, UNCHANGED <<pc, search, reps, minima, queue, seen, unsent, tasks, probes>>
  PROVE  ScanInv'
<1>1. search \in Searches
  BY DEF PoolInv, TypeOK
<1>2. Held' = Held
  BY DEF Held, Pending, Probed
<1> QED
  BY <1>1, <1>2, ScanFrame

LEMMA ScanTake ==
  ASSUME PoolInv, ScanInv, NEW h \in Helpers, TakeTask(h)
  PROVE  ScanInv'
<1> DEFINE t == Head(tasks)
           p == IF t.kind = "level" THEN Images(t.words) ELSE <<>>
<1>1. /\ tasks # <<>> /\ tasks' = Tail(tasks) /\ probes' = [probes EXCEPT ![h] = p]
      /\ UNCHANGED <<pc, search, reps, minima, queue, seen, unsent>>
      /\ pc \in {"walkParts", "levelParts"}
  <2>1. /\ tasks # <<>> /\ tasks' = Tail(tasks) /\ probes' = [probes EXCEPT ![h] = p]
        /\ UNCHANGED <<pc, search, reps, minima, queue, seen, unsent>>
    BY DEF TakeTask, callVars, askVars, scanVars
  <2> QED
    BY <2>1 DEF PoolInv, Quiet, InCall
<1>2. tasks \in Seq(Tasks) /\ search \in Searches /\ probes \in [Helpers -> Seq(Words)]
  BY DEF PoolInv, TypeOK, CallType
<1>3. t \in Tasks /\ t \in ToSet(tasks) /\ ToSet(tasks) = {t} \cup ToSet(tasks')
  <2>1. Head(tasks) \in Tasks /\ Head(tasks) \in ToSet(tasks)
        /\ ToSet(tasks) = {Head(tasks)} \cup ToSet(Tail(tasks))
    BY <1>1, <1>2, TailFacts
  <2> QED
    BY <1>1, <2>1
<1> HIDE DEF t
<1>4. Pending' \subseteq Pending
  BY <1>1, <1>3, PendingShrinks
<1>5. ToSet(p) \subseteq UNION {Reach(search, x) : x \in Held}
  <2>1. CASE t.kind = "level"
    <3>1. t.words \in Seq(Words)
      BY <1>3, <2>1, TaskFacts
    <3>2. ToSet(Images(t.words)) = UNION {Reach(search, x) : x \in ToSet(t.words)}
      BY <1>2, <3>1, ImagesFacts
    <3>3. ToSet(t.words) \subseteq Held
      BY <1>3, <2>1 DEF Held, Pending
    <3> QED
      BY <2>1, <3>2, <3>3
  <2>2. CASE t.kind # "level"
    BY <2>2, EmptyQueue
  <2> QED
    BY <2>1, <2>2
<1> HIDE DEF p
<1>6. Probed' \subseteq Probed \cup ToSet(p)
  <2>1. \A g \in Helpers : probes'[g] = IF g = h THEN p ELSE probes[g]
    BY <1>1, <1>2
  <2> QED
    BY <2>1 DEF Probed
<1>7. Held' \subseteq Held \cup UNION {Reach(search, x) : x \in Held}
  BY <1>1, <1>4, <1>5, <1>6 DEF Held
<1> QED
  BY <1>1, <1>2, <1>7, ScanFrame

LEMMA ScanClaim ==
  ASSUME PoolInv, ScanInv, NEW h \in Helpers, Claim(h)
  PROVE  ScanInv'
<1> DEFINE x == Head(probes[h])
<1>1. /\ probes[h] # <<>> /\ seen' = seen \cup {x} /\ probes' = [probes EXCEPT ![h] = Tail(@)]
      /\ UNCHANGED <<pc, search, reps, minima, queue, unsent, tasks>>
  BY DEF Claim, callVars, askVars, scanVars
<1>2. search \in Searches /\ probes \in [Helpers -> Seq(Words)] /\ probes[h] \in Seq(Words)
  BY DEF PoolInv, TypeOK
<1>3. x \in ToSet(probes[h]) /\ ToSet(probes[h]) = {x} \cup ToSet(Tail(probes[h]))
  BY <1>1, <1>2, TailFacts
<1> HIDE DEF x
<1>4. \A g \in Helpers : probes'[g] = IF g = h THEN Tail(probes[h]) ELSE probes[g]
  BY <1>1, <1>2
<1>5. Probed' \subseteq Probed /\ x \in Probed
  BY <1>3, <1>4 DEF Probed
<1>6. Pending' = Pending
  BY <1>1 DEF Pending
<1>7. Held' \subseteq Held
  BY <1>1, <1>5, <1>6 DEF Held
<1> QED
  BY <1>1, <1>2, <1>7, ScanFrame

(* A level is split, put together again or expanded on the spot.             *)
LEMMA ScanSplit ==
  ASSUME PoolInv, ScanInv, SplitLevel
  PROVE  ScanInv'
<1> DEFINE n == Len(queue)
           R == Ranges(1, n + 1, PoolSize)
           k == Len(R)
           words(i) == SubSeq(queue, R[i].from, R[i].to - 1)
           call(i) == [kind |-> "level", idx |-> i, words |-> words(i)]
           calls == [i \in 1 .. k |-> call(i)]
<1>1. /\ search \in Searches /\ queue \in Seq(Words) /\ n \in Nat /\ n >= 1 /\ DOMAIN queue = 1 .. n
      /\ tasks = <<>>
  BY PoolAssumption DEF SplitLevel, Step, PoolInv, TypeOK, Quiet, InCall
<1>2. Partitions(R, 1, n + 1)
  <2>1. 1 \in Nat /\ n + 1 \in Nat /\ PoolSize \in Nat /\ PoolSize >= 1 /\ 1 < n + 1
    BY <1>1, PoolSizeType
  <2> HIDE DEF n
  <2> QED
    BY <2>1, RangesPartition
<1>3. /\ DOMAIN R = 1 .. k
      /\ \A i \in 1 .. k : R[i].from \in 1 .. n + 1 /\ R[i].to \in 1 .. n + 1 /\ R[i].from < R[i].to
  BY <1>2 DEF Partitions
<1>4. /\ pc = "level" /\ pc' = "levelParts" /\ unsent' = calls /\ queue' = <<>>
      /\ UNCHANGED <<search, reps, minima, seen, tasks, probes>>
  BY <1>3 DEF SplitLevel, Step, Call, askVars, helperVars
<1> HIDE DEF R, k
<1>5. \A i \in 1 .. k : ToSet(words(i)) \subseteq ToSet(queue)
  <2> SUFFICES ASSUME NEW i \in 1 .. k
               PROVE  ToSet(words(i)) \subseteq ToSet(queue)
    OBVIOUS
  <2> DEFINE a == R[i].from
             b == R[i].to - 1
  <2>1. a \in 1 .. n /\ b \in a .. n
    BY <1>1, <1>3
  <2> HIDE DEF a, b
  <2>2. /\ DOMAIN SubSeq(queue, a, b) = 1 .. (b - a) + 1
        /\ \A j \in 1 .. (b - a) + 1 : SubSeq(queue, a, b)[j] = queue[a + j - 1]
    BY <1>1, <2>1
  <2>3. \A j \in 1 .. (b - a) + 1 : a + j - 1 \in 1 .. n
    BY <1>1, <2>1
  <2>4. ToSet(SubSeq(queue, a, b)) \subseteq ToSet(queue)
    BY <1>1, <2>2, <2>3 DEF ToSet
  <2> QED
    BY <2>4 DEF a, b
<1> HIDE DEF words, n
<1>6. \A t \in ToSet(unsent') : ToSet(t.words) \subseteq ToSet(queue)
  <2>1. ASSUME NEW t \in ToSet(unsent')
        PROVE  \E i \in 1 .. k : t = call(i)
    BY <1>4 DEF ToSet
  <2>2. \A i \in 1 .. k : ToSet(call(i).words) \subseteq ToSet(queue)
    BY <1>5
  <2> HIDE DEF call
  <2> QED
    BY <2>1, <2>2
<1>7. Pending' \subseteq ToSet(queue)
  <2>1. ToSet(tasks') = {}
    BY <1>1, <1>4, EmptyQueue
  <2> QED
    BY <1>6, <2>1 DEF Pending
<1>8. Held' \subseteq Held
  <2>1. ToSet(queue') = {} /\ Probed' = Probed
    BY <1>4, EmptyQueue DEF Probed
  <2> QED
    BY <1>4, <1>7, <2>1 DEF Held
<1>9. Scanning /\ Scanning'
  BY <1>4 DEF Scanning
<1> QED
  BY <1>1, <1>4, <1>8, <1>9, ScanFrame

LEMMA ScanJoin ==
  ASSUME PoolInv, ScanInv, JoinLevel
  PROVE  ScanInv'
<1>1. /\ pc = "levelParts" /\ pc' = "level" /\ queue' = Concatenation
      /\ UNCHANGED <<search, reps, minima, seen, unsent, tasks, probes>>
  BY DEF JoinLevel, Step, askVars, helperVars
<1>2. ToSet(queue') = Gathered
  BY <1>1, CallOver DEF JoinLevel
<1>3. Gathered \subseteq seen
  BY <1>1 DEF PoolInv, Parted, Gathered
<1>4. Pending' = Pending /\ Probed' = Probed
  BY <1>1 DEF Pending, Probed
<1>5. Held' \subseteq Held
  BY <1>1, <1>2, <1>3, <1>4 DEF Held
<1>6. search \in Searches /\ Scanning /\ Scanning'
  BY <1>1 DEF PoolInv, TypeOK, Scanning
<1> QED
  BY <1>1, <1>5, <1>6, ScanFrame

LEMMA ScanExpand ==
  ASSUME PoolInv, ScanInv, ExpandAlone \/ ExpandByTables \/ ExpandByWalk \/ ExpandByWholeTable
  PROVE  ScanInv'
<1>1. /\ pc' = pc /\ queue' = Claimable(Images(queue)) /\ seen' = seen \cup ToSet(queue')
      /\ UNCHANGED <<search, reps, minima, unsent, tasks, probes>>
  BY DEF ExpandAlone, ExpandByTables, ExpandByWalk, ExpandByWholeTable, Expand, callVars, askVars, helperVars
<1>2. search \in Searches /\ queue \in Seq(Words)
  BY DEF PoolInv, TypeOK
<1>3. /\ Images(queue) \in Seq(Words)
      /\ ToSet(Images(queue)) = UNION {Reach(search, x) : x \in ToSet(queue)}
  BY <1>2, ImagesFacts
<1>4. ToSet(queue') \subseteq ToSet(Images(queue))
  BY <1>1, <1>3, ClaimableFacts
<1>5. ToSet(queue') \subseteq UNION {Reach(search, x) : x \in Held}
  BY <1>3, <1>4 DEF Held
<1>6. Pending' = Pending /\ Probed' = Probed
  BY <1>1 DEF Pending, Probed
<1>7. Held' \subseteq Held \cup UNION {Reach(search, x) : x \in Held} /\ seen \subseteq seen'
  BY <1>1, <1>5, <1>6 DEF Held
<1> QED
  BY <1>1, <1>2, <1>7, ScanFrame

LEMMA ScanBack ==
  ASSUME PoolInv, ScanInv, OrbitDone
  PROVE  ScanInv'
<1>1. /\ pc = "level" /\ pc' = "scan"
      /\ UNCHANGED <<search, reps, minima, queue, seen, unsent, tasks, probes>>
  BY DEF OrbitDone, Step, callVars, askVars, scanVars, helperVars
<1>2. Held' = Held
  BY <1>1 DEF Held, Pending, Probed
<1>3. search \in Searches /\ Scanning /\ Scanning'
  BY <1>1 DEF PoolInv, TypeOK, Scanning
<1> QED
  BY <1>1, <1>2, <1>3, ScanFrame

(* A word that has been seen is passed over.                                 *)
LEMMA ScanSkip ==
  ASSUME PoolInv, ScanInv, SkipRep
  PROVE  ScanInv'
<1>1. /\ pc = "scan" /\ pc' = pc /\ reps # <<>> /\ Head(reps) \in seen /\ reps' = Tail(reps)
      /\ UNCHANGED <<search, minima, queue, seen, unsent, tasks, probes>>
  BY DEF SkipRep, callVars, askVars, helperVars
<1>2. search \in Searches /\ reps \in Seq(Words)
  BY DEF PoolInv, TypeOK
<1>3. Scanned
  BY <1>1 DEF ScanInv, Scanning
<1>4. ToSet(reps) = {Head(reps)} \cup ToSet(reps') /\ Rising(reps')
  BY <1>1, <1>2, <1>3, TailFacts, RisingTail DEF Scanned
<1>5. Held' = Held /\ Cover' = Cover
  BY <1>1 DEF Held, Pending, Probed, Cover
<1>6. Scanned'
  BY <1>1, <1>3, <1>4, <1>5 DEF Scanned
<1> QED
  BY <1>1, <1>6 DEF ScanInv, Answered

(* A word that has not been seen is the least of an orbit of its own: what   *)
(* has been seen is closed, and the words before it have been seen.          *)
LEMMA ScanMinimum ==
  ASSUME PoolInv, ScanInv, NewMinimum
  PROVE  ScanInv'
<1> DEFINE x == Head(reps)
           rest == Tail(reps)
           A == SingularWords[search]
<1>1. /\ pc = "scan" /\ pc' = "level" /\ reps # <<>> /\ x \notin seen /\ reps' = rest
      /\ minima' = Append(minima, x) /\ seen' = seen \cup {x} /\ queue' = <<x>>
      /\ UNCHANGED <<search, unsent, tasks, probes>>
  BY DEF NewMinimum, Step, callVars, askVars, helperVars
<1>2. search \in Searches /\ reps \in Seq(Words) /\ minima \in Seq(Words)
  BY DEF PoolInv, TypeOK
<1>3. Scanned
  BY <1>1 DEF ScanInv, Scanning
<1>4. x \in Words /\ x \in ToSet(reps) /\ ToSet(reps) = {x} \cup ToSet(rest)
  BY <1>1, <1>2, TailFacts
<1>5. Rising(rest) /\ \A y \in ToSet(rest) : Below(x, y)
  BY <1>1, <1>2, <1>3, RisingTail DEF Scanned
<1>6. x \in A /\ ToSet(rest) \subseteq A /\ \A m \in ToSet(minima) : Below(m, x)
  BY <1>3, <1>4 DEF Scanned
<1> HIDE DEF x, rest
<1>7. ToSet(minima') = ToSet(minima) \cup {x} /\ Rising(minima')
  <2>1. Rising(minima)
    BY <1>3 DEF Scanned
  <2> QED
    BY <1>1, <1>2, <1>4, <1>6, <2>1, AppendFacts, RisingAppend
<1>8. Closed(search, seen)
  <2>1. QuietState /\ queue = <<>>
    BY <1>1, InvQuiet DEF InCall, PoolInv, Fresh
  <2>2. \A y \in seen : Reach(search, y) \subseteq seen
    BY <2>1, EmptyQueue DEF QuietState
  <2>3. seen \subseteq Cover /\ Closed(search, Cover)
    BY <1>2, <1>3, CoverClosed DEF Scanned, Held
  <2> QED
    BY <2>2, <2>3 DEF Closed
<1>9. /\ x \in Orb(search, x) /\ Orb(search, x) \cap seen = {}
      /\ \A y \in Orb(search, x) : y \in A
  BY <1>1, <1>2, <1>6, <1>8, OrbFacts
<1>10. x \in Least(search)
  <2>1. ASSUME NEW y \in Orb(search, x)
        PROVE  ~ Below(y, x)
    <3>1. y \in {x} \cup ToSet(rest)
      BY <1>3, <1>4, <1>9 DEF Scanned
    <3>2. y = x \/ Below(x, y)
      BY <1>5, <3>1
    <3>3. x \in WordsOf(search) /\ y \in WordsOf(search) /\ Length(search) \in Nat
      BY <1>2, <1>6, <1>9, SingularFacts, SearchType
    <3> QED
      BY <3>2, <3>3, BelowOrder DEF WordsOf
  <2> QED
    BY <1>6, <2>1 DEF Least
<1>11. Cover' = Cover \cup Orb(search, x)
  BY <1>1, <1>7 DEF Cover
<1>12. Held' \subseteq Cover'
  <2>1. ToSet(queue') = {x}
    BY <1>1 DEF ToSet
  <2>2. Pending' = Pending /\ Probed' = Probed
    BY <1>1 DEF Pending, Probed
  <2> QED
    BY <1>1, <1>3, <1>9, <1>11, <2>1, <2>2 DEF Scanned, Held
<1>13. A \subseteq seen' \cup ToSet(rest)
  BY <1>1, <1>3, <1>4 DEF Scanned
<1>14. \A m \in ToSet(minima'), y \in ToSet(rest) : Below(m, y)
  BY <1>3, <1>4, <1>5, <1>7 DEF Scanned
<1>15. ToSet(minima') \subseteq Least(search)
  BY <1>3, <1>7, <1>10 DEF Scanned
<1>16. Scanned'
  BY <1>1, <1>5, <1>6, <1>7, <1>12, <1>13, <1>14, <1>15 DEF Scanned
<1> QED
  BY <1>1, <1>16 DEF ScanInv, Answered

(* The scan begins with all singular words, or without a generator ends.     *)
LEMMA ScanSort ==
  ASSUME PoolInv, ScanInv, SortReps
  PROVE  ScanInv'
<1> DEFINE A == SingularWords[search]
<1>1. /\ pc = "sort"
      /\ UNCHANGED <<search, queue, seen, unsent, tasks, probes>>
      /\ \/ Gens = <<>> /\ pc' = "idle" /\ minima' = Sorted(reps)
         \/ Gens # <<>> /\ pc' = "scan" /\ reps' = Sorted(reps) /\ minima' = minima
  BY DEF SortReps, Step, callVars, askVars, helperVars
<1>2. search \in Searches /\ minima = <<>> /\ seen = {} /\ queue = <<>> /\ reps = SingularReps
  BY <1>1 DEF PoolInv, TypeOK, ScanInv, Fresh, Sequential
<1>3. ToSet(reps) = A
  BY <1>2 DEF SingularReps, SingularWords
<1>4. A \subseteq WordsOf(search) /\ Length(search) \in Nat
  BY <1>2, SingularFacts, SearchType
<1>5. Sorted(reps) = Ascending(A) /\ Lists(Ascending(A), A)
  BY <1>3, <1>4, AscendingLists DEF Sorted, WordsOf
<1>6. CASE Gens = <<>>
  <2>1. \A x : Reach(search, x) = {}
    BY <1>6 DEF Reach, Gens
  <2>2. ASSUME NEW x \in A
        PROVE  x \in Least(search)
    <3>1. Closed(search, {x})
      BY <2>1, <2>2 DEF Closed
    <3>2. Orb(search, x) \subseteq {x}
      BY <1>2, <2>2, <3>1, OrbFacts
    <3>3. ~ Below(x, x)
      BY <1>4, <2>2, BelowOrder DEF WordsOf
    <3> QED
      BY <2>2, <3>2, <3>3 DEF Least
  <2>3. Least(search) = A
    BY <2>2 DEF Least
  <2> QED
    BY <1>1, <1>5, <1>6, <2>3 DEF ScanInv, Scanning, Answered
<1>7. CASE Gens # <<>>
  <2>1. pc' = "scan" /\ reps' = Ascending(A) /\ minima' = <<>>
    BY <1>1, <1>2, <1>5, <1>7
  <2>2. ToSet(reps') = A /\ Rising(reps')
    BY <1>5, <2>1 DEF Lists, Rising
  <2>3. ToSet(minima') = {} /\ Rising(minima') /\ ToSet(queue') = {} /\ seen' = {}
    BY <1>1, <1>2, <2>1, EmptyQueue DEF Rising
  <2>4. Pending' = {} /\ Probed' = {}
    <3>1. Pending' = Pending /\ Probed' = Probed
      BY <1>1 DEF Pending, Probed
    <3>2. unsent = <<>> /\ tasks = <<>> /\ \A h \in Helpers : probes[h] = <<>>
      BY <1>1 DEF PoolInv, Quiet, InCall, Busy
    <3> QED
      BY <3>1, <3>2, EmptyQueue DEF Pending, Probed
  <2>5. Held' = {}
    BY <2>3, <2>4 DEF Held
  <2>6. Scanned'
    BY <1>1, <2>2, <2>3, <2>5 DEF Scanned
  <2> QED
    BY <2>1, <2>6 DEF ScanInv, Answered
<1> QED
  BY <1>6, <1>7

(* The scan ends: every word has been seen, so it is in the orbit of one of  *)
(* the minima, and the least words are those.                                *)
LEMMA ScanEnds ==
  ASSUME PoolInv, ScanInv, ScanDone
  PROVE  ScanInv'
<1>1. pc = "scan" /\ pc' = "idle" /\ reps = <<>> /\ UNCHANGED <<search, minima>>
  BY DEF ScanDone, Step, callVars, askVars, scanVars
<1>2. search \in Searches /\ minima \in Seq(Words) /\ Scanned
  BY <1>1 DEF PoolInv, TypeOK, ScanInv, Scanning
<1>3. ToSet(minima) \subseteq Least(search) /\ Least(search) \subseteq SingularWords[search]
  BY <1>2 DEF Scanned, Least
<1>4. ASSUME NEW x \in Least(search)
      PROVE  x \in ToSet(minima)
  <2>1. x \in SingularWords[search]
    BY <1>3
  <2>2. x \in Cover
    BY <1>1, <1>2, <2>1, EmptyQueue DEF Scanned, Held
  <2>3. PICK m \in ToSet(minima) : x \in Orb(search, m)
    BY <2>2 DEF Cover
  <2>4. m \in Least(search) /\ m \in SingularWords[search]
    BY <1>3
  <2>5. m \in Orb(search, x)
    BY <1>2, <2>3, <2>4, OrbFacts
  <2>6. ~ Below(m, x) /\ ~ Below(x, m)
    BY <2>3, <2>4, <2>5 DEF Least
  <2>7. x \in WordsOf(search) /\ m \in WordsOf(search) /\ Length(search) \in Nat
    BY <1>2, <2>1, <2>4, SingularFacts, SearchType
  <2>8. x = m
    BY <2>6, <2>7, BelowOrder DEF WordsOf
  <2> QED
    BY <2>8
<1>5. ToSet(minima) = Least(search)
  BY <1>3, <1>4
<1>6. minima = Ascending(ToSet(minima))
  <2>1. Length(search) \in Nat /\ minima \in Seq(SUBSET (0 .. Length(search) - 1)) /\ Rising(minima)
    BY <1>2, SearchType DEF Words, L, Scanned
  <2> QED
    BY <2>1, RisingIsAscending
<1> QED
  BY <1>1, <1>5, <1>6 DEF ScanInv, Scanning

(* What the caller sees of a step.                                           *)
LEMMA StepKinds ==
  ASSUME [Next]_vars
  PROVE  \/ ScanDone \/ SortReps \/ NextSearch
         \/ search' = search /\ pc' = pc /\ minima' = minima
         \/ search' = search /\ ~Answered /\ ~Answered'
         \/ search' = search /\ Answered /\ Answered' /\ minima' = minima
<1> USE DEF Step, vars, callVars, askVars, scanVars, helperVars, Answered
<1>1. ASSUME NEW h \in Helpers, Helper(h)
      PROVE  search' = search /\ pc' = pc /\ minima' = minima
  BY <1>1 DEF Helper, TakeTask, Claim, SendPart, Exit
<1>2. CASE WalkAlone \/ SplitWalk \/ JoinWalk
  BY <1>2 DEF WalkAlone, SplitWalk, Call, JoinWalk
<1>3. CASE SendTask \/ ReceivePart \/ SkipRep
  BY <1>3 DEF SendTask, ReceivePart, SkipRep
<1>4. CASE NewMinimum \/ SplitLevel \/ JoinLevel \/ OrbitDone
  BY <1>4 DEF NewMinimum, SplitLevel, Call, JoinLevel, OrbitDone
<1>5. CASE ExpandAlone \/ ExpandByTables \/ ExpandByWalk \/ ExpandByWholeTable
  BY <1>5 DEF ExpandAlone, ExpandByTables, ExpandByWalk, ExpandByWholeTable, Expand
<1>6. CASE DropSender \/ JoinHelpers
  BY <1>6 DEF DropSender, JoinHelpers
<1>7. CASE UNCHANGED vars
  BY <1>7
<1> QED
  BY <1>1, <1>2, <1>3, <1>4, <1>5, <1>6, <1>7 DEF Next, Caller, Ended

(* Throughout a scan what has been seen lies in the orbits of the minima     *)
(* found so far, and these are the least words of their orbits.              *)
THEOREM ScanInvariant == Spec => []ScanInv
<1>1. Init => ScanInv
  BY DEF Init, ScanInv, Scanning, Answered
<1>2. PoolInv /\ ScanInv /\ [Next]_vars => ScanInv'
  <2> SUFFICES ASSUME PoolInv, ScanInv, [Next]_vars
               PROVE  ScanInv'
    OBVIOUS
  <2>1. CASE WalkAlone \/ SplitWalk \/ JoinWalk
    <3>1. pc \in {"walk", "walkParts"} /\ pc' \in {"walkParts", "sort"} /\ minima' = minima
      BY <2>1 DEF WalkAlone, SplitWalk, JoinWalk, Step, scanVars
    <3> QED
      BY <3>1 DEF ScanInv, Scanning, Answered
  <2>2. CASE SendTask
    BY <2>2, ScanSend
  <2>3. CASE ReceivePart
    <3>1. UNCHANGED <<pc, search, reps, minima, queue, seen, unsent, tasks, probes>>
      BY <2>3 DEF ReceivePart, askVars, scanVars, helperVars
    <3> QED
      BY <3>1, ScanHeld
  <2>4. CASE SortReps \/ SkipRep \/ NewMinimum
    BY <2>4, ScanSort, ScanSkip, ScanMinimum
  <2>5. CASE ExpandAlone \/ ExpandByTables \/ ExpandByWalk \/ ExpandByWholeTable
    BY <2>5, ScanExpand
  <2>6. CASE SplitLevel \/ JoinLevel \/ OrbitDone
    BY <2>6, ScanSplit, ScanJoin, ScanBack
  <2>7. CASE ScanDone
    BY <2>7, ScanEnds
  <2>8. CASE NextSearch
    BY <2>8 DEF NextSearch, Step, ScanInv, Scanning, Answered
  <2>9. CASE DropSender \/ JoinHelpers
    <3>1. pc \in {"idle", "join"} /\ pc' \in {"join", "done"} /\ UNCHANGED <<search, minima>>
      BY <2>9 DEF DropSender, JoinHelpers, Step, callVars, askVars, scanVars
    <3> QED
      BY <3>1 DEF ScanInv, Scanning, Answered
  <2>10. ASSUME NEW h \in Helpers, Helper(h)
         PROVE  ScanInv'
    <3>1. CASE TakeTask(h)
      BY <3>1, ScanTake
    <3>2. CASE Claim(h)
      BY <3>2, ScanClaim
    <3>3. CASE SendPart(h) \/ Exit(h)
      <4>1. UNCHANGED <<pc, search, reps, minima, queue, seen, unsent, tasks, probes>>
        BY <3>3 DEF SendPart, Exit, callVars, askVars, scanVars
      <4> QED
        BY <4>1, ScanHeld
    <3> QED
      BY <2>10, <3>1, <3>2, <3>3 DEF Helper
  <2>11. CASE UNCHANGED vars
    <3>1. UNCHANGED <<pc, search, reps, minima, queue, seen, unsent, tasks, probes>>
      BY <2>11 DEF vars, callVars, askVars, scanVars, helperVars
    <3> QED
      BY <3>1, ScanHeld
  <2> QED
    BY <2>1, <2>2, <2>3, <2>4, <2>5, <2>6, <2>7, <2>8, <2>9, <2>10, <2>11 DEF Next, Caller, Ended
<1> QED
  BY <1>1, <1>2, PoolInvariant, PTL DEF Spec

(* A search that comes back answers with the minima; all else is unseen.     *)
LEMMA ScanRefined ==
  ASSUME PoolInv, PoolInv', ScanInv', [Next]_vars
  PROVE  [Search!Answer \/ Search!AskNext]_(Search!scanVars)
<1>1. search \in Searches /\ search' \in Searches
  BY DEF PoolInv, TypeOK
<1>2. CASE ScanDone \/ (SortReps /\ pc' = "idle")
  <2>1. ~Answered /\ Answered' /\ search' = search
    BY <1>2 DEF ScanDone, SortReps, Step, callVars, askVars, Answered
  <2>2. minima' = Search!OrbitMinima[search]
    BY <1>1, <2>1, ScanPromise DEF ScanInv
  <2>3. Search!Answer
    BY <2>1, <2>2 DEF Search!Answer
  <2> QED
    BY <2>3
<1>3. CASE NextSearch
  <2>1. Answered /\ ~Answered'
    BY <1>3 DEF NextSearch, Step, Answered
  <2>2. search' \in Search!Requests
    BY <1>1 DEF Search!Requests, SingularWords
  <2>3. Search!AskNext
    BY <2>1, <2>2 DEF Search!AskNext
  <2> QED
    BY <2>3
<1>4. CASE SortReps /\ pc' # "idle"
  <2>1. ~Answered /\ ~Answered' /\ search' = search
    BY <1>4 DEF SortReps, Step, callVars, askVars, Answered
  <2>2. Answered' = Answered
    BY <2>1 DEF Answered
  <2>3. (IF Answered THEN minima ELSE <<>>)' = IF Answered THEN minima ELSE <<>>
    BY <2>1
  <2>4. Search!scanVars' = Search!scanVars
    BY <2>1, <2>2, <2>3 DEF Search!scanVars
  <2> QED
    BY <2>4
<1>5. CASE \/ search' = search /\ pc' = pc /\ minima' = minima
           \/ search' = search /\ ~Answered /\ ~Answered'
           \/ search' = search /\ Answered /\ Answered' /\ minima' = minima
  <2>1. Answered' = Answered
    BY <1>5 DEF Answered
  <2>2. (IF Answered THEN minima ELSE <<>>)' = IF Answered THEN minima ELSE <<>>
    BY <1>5, <2>1
  <2>3. Search!scanVars' = Search!scanVars
    BY <1>5, <2>1, <2>2 DEF Search!scanVars
  <2> QED
    BY <2>3
<1> QED
  BY <1>2, <1>3, <1>4, <1>5, StepKinds

(***************************************************************************)
(* For every interleaving of the helpers each search returns the minima of *)
(* the sequential one: the least word of every orbit, in ascending order.  *)
(***************************************************************************)
THEOREM ImplementsScanCorrect == Spec => ImplementsScan
<1>1. Init => Search!ScanInit
  BY DEF Init, Search!ScanInit, Search!Requests, SingularWords, Answered
<1>2. PoolInv /\ PoolInv' /\ ScanInv' /\ [Next]_vars
      => [Search!Answer \/ Search!AskNext]_(Search!scanVars)
  BY ScanRefined
<1> QED
  BY <1>1, <1>2, PoolInvariant, ScanInvariant, PTL
  DEF Spec, ImplementsScan, Search!ScanSpec

=============================================================================

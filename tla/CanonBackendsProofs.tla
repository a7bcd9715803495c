------------------------- MODULE CanonBackendsProofs -------------------------
(***************************************************************************)
(* What is proved of the routes to a canonical form, for all codes.        *)
(***************************************************************************)
EXTENDS CanonBackends, F2Proofs

-----------------------------------------------------------------------------
(* Permutations of the columns.                                              *)

(* Placements of k columns, no two of them at the same place.                *)
Placements(k, m) == {p \in [0 .. k - 1 -> 0 .. m - 1] : \A i, j \in 0 .. k - 1 : p[i] = p[j] => i = j}

AllExtensions(P, k, m) == UNION {Extensions(p, k, m) : p \in P}

LEMMA PlacementsExtend ==
  ASSUME NEW m \in Nat, NEW k \in 1 .. m
  PROVE  Placements(k, m) = AllExtensions(Placements(k - 1, m), k, m)
<1> DEFINE B == 0 .. k - 1
           A == 0 .. (k - 1) - 1
           S == 0 .. m - 1
<1>1. A = B \ {k - 1} /\ k - 1 \in B
  OBVIOUS
<1>2. ASSUME NEW q \in Placements(k, m) PROVE q \in AllExtensions(Placements(k - 1, m), k, m)
  <2> DEFINE p == [i \in A |-> q[i]]
             j == q[k - 1]
  <2>1. q \in [B -> S] /\ \A x, y \in B : q[x] = q[y] => x = y
    BY DEF Placements
  <2>2. p \in Placements(k - 1, m)
    <3>1. p \in [A -> S]
      BY <1>1, <2>1
    <3>2. \A x, y \in A : p[x] = p[y] => x = y
      BY <1>1, <2>1
    <3> QED BY <3>1, <3>2 DEF Placements
  <2>3. j \in S \ Range(p)
    <3>1. \A x \in A : p[x] # j
      BY <1>1, <2>1
    <3>2. Range(p) = {p[x] : x \in A}
      BY DEF Range
    <3> QED BY <1>1, <2>1, <3>1, <3>2
  <2>4. q = [i \in B |-> IF i = k - 1 THEN j ELSE p[i]]
    <3>1. \A i \in B : i # k - 1 => p[i] = q[i]
      BY <1>1
    <3> HIDE DEF p
    <3> QED BY <2>1, <3>1
  <2> HIDE DEF p, j
  <2> QED BY <2>2, <2>3, <2>4 DEF AllExtensions, Extensions
<1>3. ASSUME NEW q \in AllExtensions(Placements(k - 1, m), k, m) PROVE q \in Placements(k, m)
  <2>0. PICK p \in Placements(k - 1, m) : q \in Extensions(p, k, m)
    BY DEF AllExtensions
  <2>1. PICK j \in S \ Range(p) : q = [i \in B |-> IF i = k - 1 THEN j ELSE p[i]]
    BY <2>0 DEF Extensions
  <2>2. p \in [A -> S] /\ \A x, y \in A : p[x] = p[y] => x = y
    BY DEF Placements
  <2>3. \A x \in A : p[x] # j
    BY <2>1, <2>2 DEF Range
  <2>4. \A x \in B : x # k - 1 => x \in A /\ q[x] = p[x]
    BY <1>1, <2>1
  <2>5. q[k - 1] = j
    BY <1>1, <2>1
  <2>6. q \in [B -> S]
    BY <1>1, <2>1, <2>2
  <2>7. \A x, y \in B : q[x] = q[y] => x = y
    BY <2>2, <2>3, <2>4, <2>5
  <2> QED BY <2>6, <2>7 DEF Placements
<1> QED BY <1>2, <1>3

(* The recursion finds exactly the permutations.                             *)
LEMMA ColumnOrdersAre ==
  ASSUME NEW m \in Nat
  PROVE  ColumnOrders(m) = Placements(m, m)
<1> DEFINE At(u, k) == IF k = 0 THEN {<<>>} ELSE AllExtensions(u[k - 1], k, m)
           Is(u) == u = [k \in 0 .. m |-> At(u, k)]
           f == [k \in 0 .. m |-> Placements(k, m)]
           upTo == CHOOSE u : Is(u)
<1>1. Placements(0, m) = {<<>>}
  <2>1. 0 .. 0 - 1 = {}
    OBVIOUS
  <2>2. [{} -> 0 .. m - 1] = {<<>>}
    <3>1. \A p \in [{} -> 0 .. m - 1] : p = <<>>
      <4> SUFFICES ASSUME NEW p \in [{} -> 0 .. m - 1] PROVE p = <<>>
        OBVIOUS
      <4>1. DOMAIN p = {} /\ p = [x \in {} |-> p[x]]
        OBVIOUS
      <4> QED BY <4>1
    <3>2. <<>> \in [{} -> 0 .. m - 1]
      OBVIOUS
    <3> QED BY <3>1, <3>2
  <2> QED BY <2>1, <2>2 DEF Placements
<1>2. Is(f)
  <2>1. ASSUME NEW k \in 0 .. m PROVE f[k] = At(f, k)
    <3>1. CASE k = 0
      BY <1>1, <3>1
    <3>2. CASE k # 0
      <4>1. k \in 1 .. m /\ k - 1 \in 0 .. m
        BY <3>2
      <4>2. f[k - 1] = Placements(k - 1, m)
        BY <4>1
      <4>3. f[k] = Placements(k, m)
        OBVIOUS
      <4> HIDE DEF f
      <4> QED BY <3>2, <4>1, <4>2, <4>3, PlacementsExtend
    <3> QED BY <3>1, <3>2
  <2>2. f = [k \in 0 .. m |-> f[k]]
    OBVIOUS
  <2> HIDE DEF f, At
  <2> QED BY <2>1, <2>2
<1>3. ColumnOrders(m) = upTo[m]
  BY DEF ColumnOrders, AllExtensions
<1>4. Is(upTo)
  <2> HIDE DEF Is, f
  <2> QED BY <1>2
<1>5. \A k \in 0 .. m : upTo[k] = At(upTo, k)
  <2> HIDE DEF upTo, At
  <2> QED BY <1>4
<1> HIDE DEF upTo
<1> DEFINE C == {k \in 0 .. m : upTo[k] = Placements(k, m)}
<1>6. 0 \in C
  <2>1. 0 \in 0 .. m /\ At(upTo, 0) = {<<>>}
    OBVIOUS
  <2> HIDE DEF At
  <2> QED BY <1>1, <1>5, <2>1
<1>7. \A k \in 0 .. m : k > 0 /\ k - 1 \in C => k \in C
  <2> SUFFICES ASSUME NEW k \in 0 .. m, k > 0, k - 1 \in C PROVE k \in C
    OBVIOUS
  <2>1. upTo[k] = AllExtensions(upTo[k - 1], k, m) /\ k \in 1 .. m
    BY <1>5
  <2> QED BY <2>1, PlacementsExtend
<1>8. m \in C
  <2>1. C \subseteq 0 .. m /\ 0 <= m /\ m \in 0 .. m
    OBVIOUS
  <2> HIDE DEF C
  <2>2. 0 .. m \subseteq C
    BY <1>6, <1>7, <2>1, RangeInduction
  <2> QED BY <2>1, <2>2
<1> QED BY <1>3, <1>8

(* A permutation of the columns.                                             *)
LEMMA PermutationIs ==
  ASSUME NEW m \in Nat, NEW sigma
  PROVE  sigma \in ColumnOrders(m) <=>
         /\ sigma \in [0 .. m - 1 -> 0 .. m - 1]
         /\ \A i, j \in 0 .. m - 1 : sigma[i] = sigma[j] => i = j
<1> QED BY ColumnOrdersAre DEF Placements

LEMMA PermutationOnto ==
  ASSUME NEW m \in Nat, NEW sigma \in ColumnOrders(m), NEW j \in 0 .. m - 1
  PROVE  \E i \in 0 .. m - 1 : sigma[i] = j
<1> DEFINE D == 0 .. m - 1
<1>1. sigma \in [D -> D] /\ \A i, h \in D : sigma[i] = sigma[h] => i = h
  BY PermutationIs
<1>2. IsFiniteSet(D) /\ j \in D
  BY CoordinatesFinite
<1> HIDE DEF D
<1>3. sigma \in Injection(D, D)
  BY <1>1 DEF Injection, IsInjective
<1>4. sigma \in Surjection(D, D)
  BY <1>2, <1>3, FS_Injection
<1> QED BY <1>2, <1>4 DEF Surjection, D

-----------------------------------------------------------------------------
(* Tallies.                                                                  *)

(* A tally says which values occur and how often.                            *)
LEMMA TallyIs ==
  ASSUME NEW f, NEW g,
         \A x \in DOMAIN f : \E y \in DOMAIN g : g[y] = f[x],
         \A y \in DOMAIN g : \E x \in DOMAIN f : f[x] = g[y],
         \A x \in DOMAIN f : Cardinality({z \in DOMAIN f : f[z] = f[x]})
                              = Cardinality({z \in DOMAIN g : g[z] = f[x]})
  PROVE  Tally(f) = Tally(g)
<1>1. {f[x] : x \in DOMAIN f} = {g[y] : y \in DOMAIN g}
  OBVIOUS
<1>2. \A c \in {f[x] : x \in DOMAIN f} :
        Cardinality({z \in DOMAIN f : f[z] = c}) = Cardinality({z \in DOMAIN g : g[z] = c})
  OBVIOUS
<1> QED BY <1>1, <1>2 DEF Tally

(* Conversely.                                                               *)
LEMMA TallySays ==
  ASSUME NEW f, NEW g, Tally(f) = Tally(g)
  PROVE  /\ \A x \in DOMAIN f : \E y \in DOMAIN g : g[y] = f[x]
         /\ \A x \in DOMAIN f : Cardinality({z \in DOMAIN f : f[z] = f[x]})
                                 = Cardinality({z \in DOMAIN g : g[z] = f[x]})
<1>1. DOMAIN Tally(f) = {f[x] : x \in DOMAIN f} /\ DOMAIN Tally(g) = {g[y] : y \in DOMAIN g}
  BY DEF Tally
<1>2. {f[x] : x \in DOMAIN f} = {g[y] : y \in DOMAIN g}
  BY <1>1
<1>3. \A x \in DOMAIN f : Tally(f)[f[x]] = Cardinality({z \in DOMAIN f : f[z] = f[x]})
  BY DEF Tally
<1>4. \A x \in DOMAIN f : Tally(g)[f[x]] = Cardinality({z \in DOMAIN g : g[z] = f[x]})
  BY <1>2 DEF Tally
<1> QED BY <1>2, <1>3, <1>4

(* A map from A onto B that keeps things apart: B has as many.               *)
OneToOne(b, A, B) ==
  /\ \A x \in A : b[x] \in B
  /\ \A x, y \in A : b[x] = b[y] => x = y
  /\ \A y \in B : \E x \in A : b[x] = y

LEMMA SameNumber ==
  ASSUME NEW A, IsFiniteSet(A), NEW B, NEW b, OneToOne(b, A, B)
  PROVE  IsFiniteSet(B) /\ Cardinality(B) = Cardinality(A)
<1> DEFINE c == [x \in A |-> b[x]]
<1>1. c \in Bijection(A, B)
  BY DEF OneToOne, Bijection, Injection, Surjection, IsInjective
<1>2. ExistsBijection(A, B)
  BY <1>1 DEF ExistsBijection
<1> QED BY <1>2, FS_Bijection

(* Values carried from one domain to another, place by place.                *)
LEMMA TallyCarried ==
  ASSUME NEW f, NEW g, IsFiniteSet(DOMAIN f), NEW b, OneToOne(b, DOMAIN f, DOMAIN g),
         \A x \in DOMAIN f : g[b[x]] = f[x]
  PROVE  Tally(f) = Tally(g)
<1>1. /\ \A x \in DOMAIN f : b[x] \in DOMAIN g
      /\ \A x, y \in DOMAIN f : b[x] = b[y] => x = y
      /\ \A y \in DOMAIN g : \E x \in DOMAIN f : b[x] = y
  BY DEF OneToOne
<1>2. ASSUME NEW x \in DOMAIN f
      PROVE  Cardinality({z \in DOMAIN f : f[z] = f[x]}) = Cardinality({z \in DOMAIN g : g[z] = f[x]})
  <2> DEFINE A == {z \in DOMAIN f : f[z] = f[x]}
             B == {z \in DOMAIN g : g[z] = f[x]}
  <2>1. IsFiniteSet(A)
    BY FS_Subset
  <2>2. OneToOne(b, A, B)
    BY <1>1 DEF OneToOne
  <2> HIDE DEF A, B
  <2>3. Cardinality(B) = Cardinality(A)
    BY <2>1, <2>2, SameNumber
  <2> QED BY <2>3 DEF A, B
<1> QED BY <1>1, <1>2, TallyIs

(* Values that tell apart just what others do tally alike.                   *)
LEMMA TallyRenamed ==
  ASSUME NEW f, NEW g, NEW f2, NEW g2, Tally(f) = Tally(g),
         DOMAIN f2 = DOMAIN f, DOMAIN g2 = DOMAIN g,
         \A x, y \in DOMAIN f : f2[x] = f2[y] <=> f[x] = f[y],
         \A x \in DOMAIN f, y \in DOMAIN g : f2[x] = g2[y] <=> f[x] = g[y]
  PROVE  Tally(f2) = Tally(g2)
<1>1. /\ \A x \in DOMAIN f : \E y \in DOMAIN g : g[y] = f[x]
      /\ \A y \in DOMAIN g : \E x \in DOMAIN f : f[x] = g[y]
      /\ \A x \in DOMAIN f : Cardinality({z \in DOMAIN f : f[z] = f[x]})
                              = Cardinality({z \in DOMAIN g : g[z] = f[x]})
  BY TallySays
<1>2. \A x \in DOMAIN f2 : \E y \in DOMAIN g2 : g2[y] = f2[x]
  BY <1>1
<1>3. \A y \in DOMAIN g2 : \E x \in DOMAIN f2 : f2[x] = g2[y]
  BY <1>1
<1>4. ASSUME NEW x \in DOMAIN f2
      PROVE  Cardinality({z \in DOMAIN f2 : f2[z] = f2[x]}) = Cardinality({z \in DOMAIN g2 : g2[z] = f2[x]})
  <2>1. {z \in DOMAIN f2 : f2[z] = f2[x]} = {z \in DOMAIN f : f[z] = f[x]}
    OBVIOUS
  <2>2. {z \in DOMAIN g2 : g2[z] = f2[x]} = {z \in DOMAIN g : g[z] = f[x]}
    OBVIOUS
  <2> QED BY <1>1, <2>1, <2>2
<1> QED BY <1>2, <1>3, <1>4, TallyIs

-----------------------------------------------------------------------------
(* The rounds of the colour refinement.                                      *)

(* Colours that tell apart all that others do are at least as many, at most  *)
(* one for every place; if they are as many, they tell apart nothing else.   *)
LEMMA FinerColours ==
  ASSUME NEW f, NEW g, IsFiniteSet(DOMAIN f), DOMAIN g = DOMAIN f,
         \A x, y \in DOMAIN f : g[x] = g[y] => f[x] = f[y]
  PROVE  /\ DistinctCount(f) \in Nat /\ DistinctCount(g) \in Nat
         /\ DistinctCount(f) <= DistinctCount(g) /\ DistinctCount(g) <= Cardinality(DOMAIN f)
         /\ DistinctCount(f) = DistinctCount(g) =>
              \A x, y \in DOMAIN f : f[x] = f[y] => g[x] = g[y]
<1> DEFINE D == DOMAIN f
           F == {f[x] : x \in D}
           G == {g[x] : x \in D}
           place == [v \in G |-> CHOOSE x \in D : g[x] = v]
           h == [v \in G |-> f[place[v]]]
           k == [x \in D |-> g[x]]
<1>1. \A v \in G : place[v] \in D /\ g[place[v]] = v
  OBVIOUS
<1>2. \A x \in D : g[x] \in G /\ h[g[x]] = f[x]
  <2> SUFFICES ASSUME NEW x \in D PROVE g[x] \in G /\ h[g[x]] = f[x]
    OBVIOUS
  <2>1. g[x] \in G
    OBVIOUS
  <2>2. place[g[x]] \in D /\ g[place[g[x]]] = g[x]
    BY <1>1, <2>1
  <2>3. f[place[g[x]]] = f[x]
    BY <2>2
  <2> QED BY <2>1, <2>3
<1>3. k \in Surjection(D, G)
  BY DEF Surjection
<1>4. h \in Surjection(G, F)
  <2>1. h \in [G -> F]
    BY <1>1
  <2>2. ASSUME NEW c \in F PROVE \E v \in G : h[v] = c
    <3>1. PICK x \in D : c = f[x]
      OBVIOUS
    <3>2. g[x] \in G /\ h[g[x]] = c
      BY <1>2, <3>1
    <3> HIDE DEF h, G
    <3> QED BY <3>2
  <2> HIDE DEF h, F, G
  <2> QED BY <2>1, <2>2 DEF Surjection
<1>5. DistinctCount(f) = Cardinality(F) /\ DistinctCount(g) = Cardinality(G)
  BY DEF DistinctCount
<1> HIDE DEF h, F, G, k
<1>6. IsFiniteSet(G) /\ Cardinality(G) <= Cardinality(D)
  BY <1>3, FS_Surjection
<1>7. IsFiniteSet(F) /\ Cardinality(F) <= Cardinality(G)
  BY <1>4, <1>6, FS_Surjection
<1>8. Cardinality(F) \in Nat /\ Cardinality(G) \in Nat
  BY <1>6, <1>7, FS_CardinalityType
<1>9. ASSUME Cardinality(F) = Cardinality(G), NEW x \in D, NEW y \in D, f[x] = f[y]
      PROVE  g[x] = g[y]
  <2>1. h \in Injection(G, F)
    BY <1>4, <1>6, <1>9, FS_Surjection
  <2>2. \A u, v \in G : h[u] = h[v] => u = v
    BY <2>1 DEF Injection, IsInjective
  <2> QED BY <1>2, <1>9, <2>2
<1> QED BY <1>5, <1>6, <1>7, <1>8, <1>9

(* What `after` in `Rounds` has for its first k + 1 values.                  *)
FirstRounds(after, words_, cw, col, k) ==
  after = [i \in 0 .. k |->
             IF i = 0 THEN [rounds |-> 0, words |-> cw, columns |-> col, stable |-> FALSE]
             ELSE LET old == after[i - 1] IN IF old.stable THEN old ELSE Round(words_, old)]

LEMMA RoundsExist ==
  ASSUME NEW words_, NEW cw, NEW col, NEW k \in Nat
  PROVE  \E after : FirstRounds(after, words_, cw, col, k)
<1> DEFINE Has(m) == \E after : FirstRounds(after, words_, cw, col, m)
           C == {m \in 0 .. k : Has(m)}
           first == [rounds |-> 0, words |-> cw, columns |-> col, stable |-> FALSE]
<1>1. 0 \in C
  <2> DEFINE g == [i \in 0 .. 0 |-> first]
  <2>1. g = [i \in 0 .. 0 |-> IF i = 0 THEN first ELSE
               LET old == g[i - 1] IN IF old.stable THEN old ELSE Round(words_, old)]
    OBVIOUS
  <2>2. FirstRounds(g, words_, cw, col, 0)
    BY <2>1 DEF FirstRounds
  <2> QED BY <2>2
<1>2. ASSUME NEW m \in 0 .. k, m > 0, m - 1 \in C
      PROVE  m \in C
  <2>1. PICK f : FirstRounds(f, words_, cw, col, m - 1)
    BY <1>2
  <2> DEFINE next == IF f[m - 1].stable THEN f[m - 1] ELSE Round(words_, f[m - 1])
             g == [i \in 0 .. m |-> IF i = m THEN next ELSE f[i]]
  <2>2. m \in Nat /\ \A i \in 0 .. m : i # m => i \in 0 .. m - 1
    BY <1>2
  <2>3. \A i \in 0 .. m - 1 : i \in 0 .. m /\ i # m
    BY <2>2
  <2>4. \A i \in 0 .. m : i # 0 => i - 1 \in 0 .. m - 1 /\ g[i - 1] = f[i - 1]
    BY <2>2, <2>3
  <2>5. \A i \in 0 .. m - 1 :
          f[i] = IF i = 0 THEN first ELSE
                   LET old == f[i - 1] IN IF old.stable THEN old ELSE Round(words_, old)
    BY <2>1 DEF FirstRounds
  <2>6. ASSUME NEW i \in 0 .. m
        PROVE  g[i] = IF i = 0 THEN first ELSE
                        LET old == g[i - 1] IN IF old.stable THEN old ELSE Round(words_, old)
    <3>1. CASE i = m
      <4>1. i # 0 /\ g[i] = next
        BY <1>2, <3>1
      <4>2. g[i - 1] = f[m - 1]
        BY <2>4, <3>1, <4>1
      <4> HIDE DEF g
      <4> QED BY <4>1, <4>2
    <3>2. CASE i # m
      <4>1. g[i] = f[i] /\ i \in 0 .. m - 1
        BY <2>2, <3>2
      <4>2. i # 0 => g[i - 1] = f[i - 1]
        BY <2>4
      <4> HIDE DEF g
      <4> QED BY <2>5, <4>1, <4>2
    <3> QED BY <3>1, <3>2
  <2>7. g = [i \in 0 .. m |-> g[i]]
    OBVIOUS
  <2> HIDE DEF g
  <2>8. FirstRounds(g, words_, cw, col, m)
    BY <2>6, <2>7 DEF FirstRounds
  <2> QED BY <2>8
<1>3. C \subseteq 0 .. k
  OBVIOUS
<1> HIDE DEF C
<1>4. \A i \in 0 .. k : i > 0 /\ i - 1 \in C => i \in C
  BY <1>2
<1>5. 0 <= k /\ k \in 0 .. k
  OBVIOUS
<1>6. 0 .. k \subseteq C
  BY <1>1, <1>3, <1>4, <1>5, RangeInduction
<1> QED BY <1>5, <1>6 DEF C

(* Colours of all words and all columns.                                     *)
Coloured(s, words_, D) ==
  /\ DOMAIN s.words = words_ /\ DOMAIN s.columns = D /\ s.stable \in BOOLEAN

ColourCount(s) == DistinctCount(s.words) + DistinctCount(s.columns)

(* A round only tells more apart; if it is the last, it tells nothing more.  *)
LEMMA RoundRefines ==
  ASSUME NEW words_, IsFiniteSet(words_), NEW D, IsFiniteSet(D), NEW s, Coloured(s, words_, D)
  PROVE  LET t == Round(words_, s) IN
         /\ Coloured(t, words_, D)
         /\ ColourCount(s) \in Nat /\ ColourCount(t) \in Nat
         /\ ColourCount(t) <= Cardinality(words_) + Cardinality(D)
         /\ ColourCount(s) <= ColourCount(t)
         /\ ~ t.stable => ColourCount(s) < ColourCount(t)
         /\ t.stable => /\ \A v, w \in words_ : t.words[v] = t.words[w] <=> s.words[v] = s.words[w]
                        /\ \A i, j \in D : t.columns[i] = t.columns[j] <=> s.columns[i] = s.columns[j]
<1> DEFINE t == Round(words_, s)
           newCw == [w \in words_ |-> <<0, s.words[w], Tally([j \in w |-> s.columns[j]])>>]
           newCol == [j \in DOMAIN s.columns |->
                        <<1, s.columns[j], Tally([w \in {v \in words_ : j \in v} |-> s.words[w]])>>]
<1>1. t.words = newCw /\ t.columns = newCol /\ t.stable = Stable(s.words, s.columns, newCw, newCol)
  BY DEF Round
<1>2. DOMAIN s.words = words_ /\ DOMAIN s.columns = D
  BY DEF Coloured
<1>3. \A v, w \in words_ : newCw[v] = newCw[w] => s.words[v] = s.words[w]
  OBVIOUS
<1>4. \A i, j \in D : newCol[i] = newCol[j] => s.columns[i] = s.columns[j]
  BY <1>2
<1>5. DOMAIN newCw = words_ /\ DOMAIN newCol = D
  BY <1>2
<1> HIDE DEF newCw, newCol, t
<1> DEFINE a == DistinctCount(s.words)
           b == DistinctCount(s.columns)
           c == DistinctCount(newCw)
           e == DistinctCount(newCol)
<1>6. /\ a \in Nat /\ c \in Nat /\ a <= c /\ c <= Cardinality(words_)
      /\ a = c => \A v, w \in words_ : s.words[v] = s.words[w] => newCw[v] = newCw[w]
  BY <1>2, <1>3, <1>5, FinerColours
<1>7. /\ b \in Nat /\ e \in Nat /\ b <= e /\ e <= Cardinality(D)
      /\ b = e => \A i, j \in D : s.columns[i] = s.columns[j] => newCol[i] = newCol[j]
  BY <1>2, <1>4, <1>5, FinerColours
<1>8. Cardinality(words_) \in Nat /\ Cardinality(D) \in Nat
  BY FS_CardinalityType
<1>9. t.stable <=> c + e = a + b
  BY <1>1 DEF Stable
<1>10. t.stable \in BOOLEAN
  BY <1>1 DEF Stable
<1>11. Coloured(t, words_, D)
  BY <1>1, <1>5, <1>10 DEF Coloured
<1>12. ColourCount(s) = a + b /\ ColourCount(t) = c + e
  BY <1>1 DEF ColourCount
<1> HIDE DEF a, b, c, e
<1>13. t.stable => a = c /\ b = e
  BY <1>6, <1>7, <1>9
<1>14. ~ t.stable => a + b < c + e
  BY <1>6, <1>7, <1>9
<1>15. a + b \in Nat /\ c + e \in Nat /\ a + b <= c + e /\ c + e <= Cardinality(words_) + Cardinality(D)
  BY <1>6, <1>7, <1>8
<1>16. t.stable => /\ \A v, w \in words_ : t.words[v] = t.words[w] <=> s.words[v] = s.words[w]
                   /\ \A i, j \in D : t.columns[i] = t.columns[j] <=> s.columns[i] = s.columns[j]
  BY <1>1, <1>3, <1>4, <1>6, <1>7, <1>13
<1> QED BY <1>11, <1>12, <1>14, <1>15, <1>16 DEF t

(* The rounds end stable: the last one before had the same colours.          *)
LEMMA RoundsEndStable ==
  ASSUME NEW words_, IsFiniteSet(words_), words_ # {}, NEW D, IsFiniteSet(D),
         NEW cw, NEW col, DOMAIN cw = words_, DOMAIN col = D
  PROVE  LET wl == Rounds(words_, cw, col) IN
         \E old : Coloured(old, words_, D) /\ wl = Round(words_, old) /\ wl.stable
<1> DEFINE l == Cardinality(words_)
           r == Cardinality(D)
           limit == 2 * (Cardinality(words_) + Cardinality(DOMAIN col))
           after == CHOOSE f : FirstRounds(f, words_, cw, col, limit)
<1>1. l \in Nat /\ r \in Nat /\ l # 0
  BY FS_CardinalityType, FS_EmptySet
<1>2. limit = 2 * (l + r) /\ limit \in Nat /\ limit > l + r
  <2>1. limit = 2 * (l + r)
    OBVIOUS
  <2> HIDE DEF l, r, limit
  <2> QED BY <1>1, <2>1
<1>3. Rounds(words_, cw, col) = after[limit]
  BY DEF Rounds, FirstRounds
<1>4. FirstRounds(after, words_, cw, col, limit)
  <2> HIDE DEF limit
  <2> QED BY <1>2, RoundsExist
<1> HIDE DEF after, limit, l, r
<1>5. after[0] = [rounds |-> 0, words |-> cw, columns |-> col, stable |-> FALSE]
  BY <1>2, <1>4 DEF FirstRounds
<1>6. \A i \in 0 .. limit : i > 0 =>
         after[i] = IF after[i - 1].stable THEN after[i - 1] ELSE Round(words_, after[i - 1])
  <2> SUFFICES ASSUME NEW i \in 0 .. limit, i > 0
               PROVE after[i] = IF after[i - 1].stable THEN after[i - 1] ELSE Round(words_, after[i - 1])
    OBVIOUS
  <2>1. i # 0
    OBVIOUS
  <2> QED BY <2>1, <1>4 DEF FirstRounds
<1> DEFINE Ended(t) == t.stable /\ \E old : Coloured(old, words_, D) /\ t = Round(words_, old)
           Going(t, i) == ~ t.stable /\ ColourCount(t) \in Nat /\ ColourCount(t) >= i
           C == {i \in 0 .. limit : Coloured(after[i], words_, D) /\ (Ended(after[i]) \/ Going(after[i], i))}
<1>7. 0 \in C
  <2>1. Coloured(after[0], words_, D) /\ ~ after[0].stable
    BY <1>5 DEF Coloured
  <2>2. ColourCount(after[0]) \in Nat
    BY <2>1, RoundRefines
  <2> QED BY <1>2, <2>1, <2>2
<1>8. ASSUME NEW i \in 0 .. limit, i > 0, i - 1 \in C PROVE i \in C
  <2> DEFINE s == after[i - 1]
             t == after[i]
  <2>1. Coloured(s, words_, D) /\ (Ended(s) \/ Going(s, i - 1))
    BY <1>8
  <2>2. t = IF s.stable THEN s ELSE Round(words_, s)
    BY <1>6, <1>8
  <2> HIDE DEF s, t
  <2>3. CASE s.stable
    <3>1. t = s /\ Ended(s)
      BY <2>1, <2>2, <2>3
    <3>2. Coloured(t, words_, D) /\ Ended(t)
      BY <2>1, <3>1
    <3> QED BY <3>2 DEF t
  <2>4. CASE ~ s.stable
    <3>1. t = Round(words_, s) /\ Going(s, i - 1)
      BY <2>1, <2>2, <2>4
    <3>2. Coloured(t, words_, D) /\ ColourCount(s) \in Nat /\ ColourCount(t) \in Nat
          /\ (~ t.stable => ColourCount(s) < ColourCount(t))
      BY <2>1, <3>1, RoundRefines
    <3>3. ~ t.stable => Going(t, i)
      BY <3>1, <3>2
    <3>4. t.stable => Ended(t)
      BY <2>1, <3>1
    <3>5. Coloured(t, words_, D) /\ (Ended(t) \/ Going(t, i))
      BY <3>2, <3>3, <3>4
    <3> QED BY <3>5 DEF t
  <2> QED BY <2>3, <2>4
<1>9. C \subseteq 0 .. limit
  OBVIOUS
<1>10. limit \in C
  <2> HIDE DEF C
  <2>1. \A i \in 0 .. limit : i > 0 /\ i - 1 \in C => i \in C
    BY <1>8
  <2>2. 0 <= limit /\ limit \in 0 .. limit
    BY <1>2
  <2>3. 0 .. limit \subseteq C
    BY <1>2, <1>7, <1>9, <2>1, <2>2, RangeInduction
  <2> QED BY <2>2, <2>3
<1> DEFINE wl == after[limit]
<1>11. Coloured(wl, words_, D) /\ (Ended(wl) \/ Going(wl, limit))
  BY <1>10
<1>12. ColourCount(wl) <= l + r
  <2> HIDE DEF wl
  <2>1. ColourCount(wl) <= ColourCount(Round(words_, wl)) /\ ColourCount(Round(words_, wl)) <= l + r
        /\ ColourCount(wl) \in Nat /\ ColourCount(Round(words_, wl)) \in Nat
    BY <1>11, RoundRefines DEF l, r
  <2> QED BY <1>1, <2>1
<1>13. Ended(wl)
  <2> HIDE DEF wl
  <2> QED BY <1>1, <1>2, <1>11, <1>12
<1> QED BY <1>3, <1>13

(* One colour, equally many neighbours of every colour.                      *)
LEMMA RefinedIsEquitable ==
  ASSUME NEW m \in Nat, NEW words_, words_ \subseteq SUBSET (0 .. m - 1), NEW mode
  PROVE  Equitable(words_, WlRefine(words_, mode, m), m)
<1> DEFINE D == 0 .. m - 1
           wl == WlRefine(words_, mode, m)
           through(j) == {v \in words_ : j \in v}
<1>1. IsFiniteSet(D) /\ IsFiniteSet(words_) /\ \A v \in words_ : v \subseteq D
  BY CoordinatesFinite, FS_SUBSET, FS_Subset
<1>2. CASE words_ = {} \/ m = 0
  <2>2. words_ = {} \/ D = {}
    BY <1>2
  <2>1. \A v, w \in words_ : v = w
    BY <1>1, <2>2
  <2>3. ASSUME NEW i \in D, NEW j \in D PROVE through(i) = through(j)
    BY <2>2
  <2> HIDE DEF D, wl
  <2> QED BY <2>1, <2>3 DEF D, wl, Equitable
<1>3. CASE words_ # {} /\ m # 0
  <2> DEFINE cw == WordColours(words_, mode)
             col == ColumnColours(words_, mode, m)
  <2>1. wl = Rounds(words_, cw, col)
    BY <1>3 DEF WlRefine
  <2>2. DOMAIN cw = words_ /\ DOMAIN col = D
    BY DEF WordColours, ColumnColours
  <2> HIDE DEF cw, col, wl, D
  <2>3. PICK old : Coloured(old, words_, D) /\ wl = Round(words_, old) /\ wl.stable
    BY <1>1, <1>3, <2>1, <2>2, RoundsEndStable
  <2>4. /\ DOMAIN wl.words = words_ /\ DOMAIN wl.columns = D
        /\ \A v, w \in words_ : wl.words[v] = wl.words[w] <=> old.words[v] = old.words[w]
        /\ \A i, j \in D : wl.columns[i] = wl.columns[j] <=> old.columns[i] = old.columns[j]
    BY <1>1, <2>3, RoundRefines DEF Coloured
  <2>5. /\ \A v \in words_ : wl.words[v] = <<0, old.words[v], Tally([j \in v |-> old.columns[j]])>>
        /\ \A j \in D : wl.columns[j] = <<1, old.columns[j], Tally([w \in through(j) |-> old.words[w]])>>
    BY <2>3 DEF Round, Coloured
  <2>6. ASSUME NEW v \in words_, NEW w \in words_, wl.words[v] = wl.words[w]
        PROVE  Tally([j \in v |-> wl.columns[j]]) = Tally([j \in w |-> wl.columns[j]])
    <3> DEFINE f == [j \in v |-> old.columns[j]]
               g == [j \in w |-> old.columns[j]]
               f2 == [j \in v |-> wl.columns[j]]
               g2 == [j \in w |-> wl.columns[j]]
    <3>1. Tally(f) = Tally(g)
      BY <2>5, <2>6
    <3>2. DOMAIN f2 = DOMAIN f /\ DOMAIN g2 = DOMAIN g
      OBVIOUS
    <3>3. v \subseteq D /\ w \subseteq D
      BY <1>1
    <3>0. /\ DOMAIN f = v /\ DOMAIN g = w
          /\ \A x \in v : f[x] = old.columns[x] /\ f2[x] = wl.columns[x]
          /\ \A x \in w : g[x] = old.columns[x] /\ g2[x] = wl.columns[x]
      OBVIOUS
    <3> HIDE DEF f, g, f2, g2
    <3>4. \A x, y \in DOMAIN f : f2[x] = f2[y] <=> f[x] = f[y]
      <4>1. ASSUME NEW x \in v, NEW y \in v PROVE f2[x] = f2[y] <=> f[x] = f[y]
        <5>1. wl.columns[x] = wl.columns[y] <=> old.columns[x] = old.columns[y]
          BY <2>4, <3>3
        <5> QED BY <3>0, <5>1
      <4> QED BY <3>0, <4>1
    <3>5. \A x \in DOMAIN f, y \in DOMAIN g : f2[x] = g2[y] <=> f[x] = g[y]
      <4>1. ASSUME NEW x \in v, NEW y \in w PROVE f2[x] = g2[y] <=> f[x] = g[y]
        <5>1. wl.columns[x] = wl.columns[y] <=> old.columns[x] = old.columns[y]
          BY <2>4, <3>3
        <5> QED BY <3>0, <5>1
      <4> QED BY <3>0, <4>1
    <3> HIDE DEF f, g, f2, g2
    <3>6. Tally(f2) = Tally(g2)
      BY <3>1, <3>2, <3>4, <3>5, TallyRenamed
    <3> QED BY <3>6 DEF f2, g2
  <2>7. ASSUME NEW i \in D, NEW j \in D, wl.columns[i] = wl.columns[j]
        PROVE  Tally([w \in through(i) |-> wl.words[w]]) = Tally([w \in through(j) |-> wl.words[w]])
    <3> DEFINE f == [w \in through(i) |-> old.words[w]]
               g == [w \in through(j) |-> old.words[w]]
               f2 == [w \in through(i) |-> wl.words[w]]
               g2 == [w \in through(j) |-> wl.words[w]]
    <3>1. Tally(f) = Tally(g)
      BY <2>5, <2>7
    <3>2. DOMAIN f2 = DOMAIN f /\ DOMAIN g2 = DOMAIN g
      OBVIOUS
    <3>3. through(i) \subseteq words_ /\ through(j) \subseteq words_
      OBVIOUS
    <3>0. /\ DOMAIN f = through(i) /\ DOMAIN g = through(j)
          /\ \A x \in through(i) : f[x] = old.words[x] /\ f2[x] = wl.words[x]
          /\ \A x \in through(j) : g[x] = old.words[x] /\ g2[x] = wl.words[x]
      OBVIOUS
    <3> HIDE DEF f, g, f2, g2
    <3>4. \A x, y \in DOMAIN f : f2[x] = f2[y] <=> f[x] = f[y]
      <4>1. ASSUME NEW x \in through(i), NEW y \in through(i) PROVE f2[x] = f2[y] <=> f[x] = f[y]
        <5>1. wl.words[x] = wl.words[y] <=> old.words[x] = old.words[y]
          BY <2>4, <3>3
        <5> QED BY <3>0, <5>1
      <4> QED BY <3>0, <4>1
    <3>5. \A x \in DOMAIN f, y \in DOMAIN g : f2[x] = g2[y] <=> f[x] = g[y]
      <4>1. ASSUME NEW x \in through(i), NEW y \in through(j) PROVE f2[x] = g2[y] <=> f[x] = g[y]
        <5>1. wl.words[x] = wl.words[y] <=> old.words[x] = old.words[y]
          BY <2>4, <3>3
        <5> QED BY <3>0, <5>1
      <4> QED BY <3>0, <4>1
    <3> HIDE DEF f, g, f2, g2
    <3>6. Tally(f2) = Tally(g2)
      BY <3>1, <3>2, <3>4, <3>5, TallyRenamed
    <3> QED BY <3>6 DEF f2, g2
  <2> QED BY <2>6, <2>7 DEF D, wl, Equitable
<1> QED BY <1>2, <1>3

-----------------------------------------------------------------------------
(* The experiment with invariants.                                           *)

(* The code at hand is an arrangement of a code of `Classes`.                *)
AuditInput ==
  backend = "invariants" =>
    /\ n \in DOMAIN Classes /\ class \in Classes[n]
    /\ \E sigma \in Rearrangements[n] : code = MovedSet(class, sigma)

LEMMA AuditInputKept == BackendSpec => []AuditInput
<1>1. BackendInit => AuditInput
  BY DEF BackendInit, AuditInit, AuditInput
<1>2. AuditInput /\ [BackendNext]_backendVars => AuditInput'
  <2> SUFFICES ASSUME AuditInput, [BackendNext]_backendVars PROVE AuditInput'
    OBVIOUS
  <2>1. backend' = backend
    BY DEF BackendNext, ViaKernel, ViaFeulner, ViaVerifier, ViaInvariants, backendVars
  <2>2. CASE backend = "invariants"
    <3>1. UNCHANGED <<n, class, code>>
      BY <2>2 DEF BackendNext, ViaKernel, ViaFeulner, ViaVerifier, ViaInvariants, Compute,
                  backendVars, onlyInvariants
    <3> QED BY <2>1, <3>1 DEF AuditInput
  <2>3. CASE backend # "invariants"
    BY <2>1, <2>3 DEF AuditInput
  <2> QED BY <2>2, <2>3
<1> QED BY <1>1, <1>2, PTL DEF BackendSpec

(* The arrangements that `InvariantsOfClassAgree` is about are codes.        *)
LEMMA ArrangementIs ==
  ASSUME AuditInput, backend = "invariants"
  PROVE  /\ n \in Nat /\ IsCode(class, n) /\ code \subseteq SUBSET (0 .. n - 1)
         /\ \E sigma \in ColumnOrders(n) : code = MovedSet(class, sigma)
<1>1. n \in DOMAIN Classes /\ class \in Classes[n]
  BY DEF AuditInput
<1>2. n \in Nat /\ IsCode(class, n)
  BY <1>1, AuditAssumption
<1>3. PICK sigma \in ColumnOrders(n) : code = MovedSet(class, sigma)
  BY <1>1, AuditAssumption DEF AuditInput
<1>4. sigma \in [0 .. n - 1 -> 0 .. n - 1]
  BY <1>2, <1>3, PermutationIs
<1>5. code \subseteq SUBSET (0 .. n - 1)
  BY <1>2, <1>3, <1>4 DEF MovedSet, Permuted, IsCode
<1> QED BY <1>2, <1>3, <1>5

LEMMA GraphWordsWithin ==
  ASSUME NEW C, NEW m
  PROVE  FullCodewords(C) \subseteq C /\ GminWords(C, m) \subseteq C
<1> QED BY DEF FullCodewords, GminWords, LowWeightCodewords

(* Whatever the code, its graph and the first colouring, the refinement of   *)
(* `wl_refine` stops within its limit of rounds and only at a colouring that *)
(* no further round would split.                                             *)
THEOREM RefinementAlwaysStable == BackendSpec => []RefinementIsStable
<1>1. AuditInput => RefinementIsStable
  <2> SUFFICES ASSUME AuditInput, backend = "invariants",
                      NEW mode \in {"Vanilla", "DegreeAndWeight"},
                      NEW words_ \in {GminWords(code, n), FullCodewords(code)}
               PROVE  Equitable(words_, WlRefine(words_, mode, n), n)
    BY DEF RefinementIsStable, WlIsEquitable
  <2>1. n \in Nat /\ words_ \subseteq SUBSET (0 .. n - 1)
    BY ArrangementIs, GraphWordsWithin
  <2> QED BY <2>1, RefinedIsEquitable
<1> QED BY <1>1, AuditInputKept, PTL

-----------------------------------------------------------------------------
(* Words whose columns are permuted.                                         *)

LEMMA PermutedFacts ==
  ASSUME NEW m \in Nat, NEW sigma \in ColumnOrders(m)
  PROVE  /\ \A v \in SUBSET (0 .. m - 1) :
              /\ Permuted(v, sigma) \in SUBSET (0 .. m - 1)
              /\ Weight(Permuted(v, sigma)) = Weight(v)
              /\ \A j \in 0 .. m - 1 : sigma[j] \in Permuted(v, sigma) <=> j \in v
         /\ \A u, v \in SUBSET (0 .. m - 1) :
              /\ Permuted(u, sigma) = Permuted(v, sigma) => u = v
              /\ Xor(u, v) \in SUBSET (0 .. m - 1)
              /\ Permuted(Xor(u, v), sigma) = Xor(Permuted(u, sigma), Permuted(v, sigma))
         /\ Zero \in SUBSET (0 .. m - 1) /\ Permuted(Zero, sigma) = Zero
<1> DEFINE D == 0 .. m - 1
<1>1. sigma \in [D -> D] /\ \A i, h \in D : sigma[i] = sigma[h] => i = h
  BY PermutationIs
<1>2. \A v \in SUBSET D : IsFiniteSet(v)
  BY CoordinatesFinite
<1> HIDE DEF D
<1>3. ASSUME NEW v \in SUBSET D
      PROVE  /\ Permuted(v, sigma) \in SUBSET D
             /\ Weight(Permuted(v, sigma)) = Weight(v)
             /\ \A j \in D : sigma[j] \in Permuted(v, sigma) <=> j \in v
  <2>1. Permuted(v, sigma) \in SUBSET D
    BY <1>1 DEF Permuted
  <2>2. \A j \in D : sigma[j] \in Permuted(v, sigma) <=> j \in v
    BY <1>1 DEF Permuted
  <2>3. OneToOne(sigma, v, Permuted(v, sigma))
    BY <1>1 DEF OneToOne, Permuted
  <2>4. Weight(Permuted(v, sigma)) = Weight(v)
    BY <1>2, <2>3, SameNumber DEF Weight
  <2> QED BY <2>1, <2>2, <2>4
<1>4. ASSUME NEW u \in SUBSET D, NEW v \in SUBSET D
      PROVE  /\ Permuted(u, sigma) = Permuted(v, sigma) => u = v
             /\ Xor(u, v) \in SUBSET D
             /\ Permuted(Xor(u, v), sigma) = Xor(Permuted(u, sigma), Permuted(v, sigma))
  <2>1. Permuted(u, sigma) = Permuted(v, sigma) => u = v
    BY <1>3
  <2>2. Xor(u, v) \in SUBSET D
    BY DEF Xor, SymDiff
  <2>3. Permuted(Xor(u, v), sigma) \subseteq Xor(Permuted(u, sigma), Permuted(v, sigma))
    BY <1>1 DEF Permuted, Xor, SymDiff
  <2>4. Xor(Permuted(u, sigma), Permuted(v, sigma)) \subseteq Permuted(Xor(u, v), sigma)
    BY DEF Permuted, Xor, SymDiff
  <2> QED BY <2>1, <2>2, <2>3, <2>4
<1>5. Zero \in SUBSET D /\ Permuted(Zero, sigma) = Zero
  BY DEF Zero, Permuted
<1> QED BY <1>3, <1>4, <1>5 DEF D

Mover(m, sigma) == [v \in SUBSET (0 .. m - 1) |-> Permuted(v, sigma)]

LEMMA MovedFacts ==
  ASSUME NEW m \in Nat, NEW sigma \in ColumnOrders(m), NEW W, W \subseteq SUBSET (0 .. m - 1)
  PROVE  /\ IsFiniteSet(W) /\ OneToOne(Mover(m, sigma), W, MovedSet(W, sigma))
         /\ IsFiniteSet(MovedSet(W, sigma)) /\ Cardinality(MovedSet(W, sigma)) = Cardinality(W)
         /\ MovedSet(W, sigma) \subseteq SUBSET (0 .. m - 1)
         /\ \A v \in SUBSET (0 .. m - 1) : Permuted(v, sigma) \in MovedSet(W, sigma) <=> v \in W
<1> DEFINE D == SUBSET (0 .. m - 1)
<1>0. /\ \A v \in D : Permuted(v, sigma) \in D
      /\ \A u, v \in D : Permuted(u, sigma) = Permuted(v, sigma) => u = v
  <2>1. \A v \in D : Permuted(v, sigma) \in D
    BY PermutedFacts
  <2>2. ASSUME NEW u \in D, NEW v \in D, Permuted(u, sigma) = Permuted(v, sigma) PROVE u = v
    <3>1. \A j \in 0 .. m - 1 : j \in u <=> j \in v
      BY <2>2, PermutedFacts
    <3> QED BY <3>1
  <2> QED BY <2>1, <2>2
<1>1. IsFiniteSet(W) /\ Mover(m, sigma) = [v \in D |-> Permuted(v, sigma)] /\ W \subseteq D
  BY CoordinatesFinite, FS_SUBSET, FS_Subset DEF Mover
<1> HIDE DEF D
<1>2. OneToOne(Mover(m, sigma), W, MovedSet(W, sigma))
  BY <1>0, <1>1 DEF OneToOne, MovedSet
<1>3. IsFiniteSet(MovedSet(W, sigma)) /\ Cardinality(MovedSet(W, sigma)) = Cardinality(W)
  BY <1>1, <1>2, SameNumber
<1>4. MovedSet(W, sigma) \subseteq D
  BY <1>0, <1>1 DEF MovedSet
<1>5. \A v \in D : Permuted(v, sigma) \in MovedSet(W, sigma) <=> v \in W
  BY <1>0, <1>1 DEF MovedSet
<1> QED BY <1>1, <1>2, <1>3, <1>4, <1>5 DEF D

(* What the arranged words add up to is what the words do, arranged.         *)
LEMMA MovedSpan ==
  ASSUME NEW m \in Nat, NEW sigma \in ColumnOrders(m), NEW W, W \subseteq SUBSET (0 .. m - 1)
  PROVE  /\ Span(W) \subseteq SUBSET (0 .. m - 1)
         /\ Span(MovedSet(W, sigma)) = MovedSet(Span(W), sigma)
<1> DEFINE D == SUBSET (0 .. m - 1)
           M == MovedSet(W, sigma)
           C == {v \in D : Permuted(v, sigma) \in Span(M)}
           B == MovedSet(Span(W), sigma)
<1>1. IsFiniteSet(W) /\ IsFiniteSet(M) /\ M \subseteq D /\ W \subseteq D
  BY MovedFacts
<1>2. /\ \A v \in D : Permuted(v, sigma) \in D
      /\ \A u, v \in D : Xor(u, v) \in D
                         /\ Permuted(Xor(u, v), sigma) = Xor(Permuted(u, sigma), Permuted(v, sigma))
      /\ Zero \in D /\ Permuted(Zero, sigma) = Zero
  BY PermutedFacts
<1> HIDE DEF D
<1>3. /\ Zero \in Span(W) /\ W \subseteq Span(W)
      /\ \A u, v \in Span(W) : Xor(u, v) \in Span(W)
      /\ \A X : Zero \in X /\ W \subseteq X /\ (\A u, v \in X : Xor(u, v) \in X) => Span(W) \subseteq X
  BY <1>1, SpanFacts
<1>4. /\ Zero \in Span(M) /\ M \subseteq Span(M)
      /\ \A u, v \in Span(M) : Xor(u, v) \in Span(M)
      /\ \A X : Zero \in X /\ M \subseteq X /\ (\A u, v \in X : Xor(u, v) \in X) => Span(M) \subseteq X
  <2> HIDE DEF M
  <2> QED BY <1>1, SpanFacts
<1>5. Span(W) \subseteq D
  BY <1>1, <1>2, <1>3
<1>6. Span(M) \subseteq B
  <2>1. Zero \in B
    BY <1>2, <1>3 DEF MovedSet
  <2>2. M \subseteq B
    BY <1>3 DEF MovedSet
  <2>3. ASSUME NEW x \in B, NEW y \in B PROVE Xor(x, y) \in B
    <3>1. PICK u \in Span(W) : x = Permuted(u, sigma)
      BY DEF MovedSet
    <3>2. PICK v \in Span(W) : y = Permuted(v, sigma)
      BY DEF MovedSet
    <3>3. Xor(u, v) \in Span(W) /\ Xor(x, y) = Permuted(Xor(u, v), sigma)
      BY <1>2, <1>3, <1>5, <3>1, <3>2
    <3> QED BY <3>3 DEF MovedSet
  <2> HIDE DEF B, M
  <2> QED BY <1>4, <2>1, <2>2, <2>3
<1>7. B \subseteq Span(M)
  <2>1. Zero \in C
    BY <1>2, <1>4
  <2>2. W \subseteq C
    BY <1>1, <1>4 DEF MovedSet
  <2>3. \A u, v \in C : Xor(u, v) \in C
    BY <1>2, <1>4
  <2> HIDE DEF C, M
  <2>4. Span(W) \subseteq C
    BY <1>3, <2>1, <2>2, <2>3
  <2> QED BY <2>4 DEF C, MovedSet
<1> QED BY <1>5, <1>6, <1>7 DEF D

(* The words in the graph of an arranged code are the arranged words.        *)
LightWords(C, w) == {v \in FullCodewords(C) : Weight(v) =< w}

LEMMA MovedLightWords ==
  ASSUME NEW m \in Nat, NEW sigma \in ColumnOrders(m), NEW C, C \subseteq SUBSET (0 .. m - 1)
  PROVE  /\ FullCodewords(MovedSet(C, sigma)) = MovedSet(FullCodewords(C), sigma)
         /\ \A w : LightWords(MovedSet(C, sigma), w) = MovedSet(LightWords(C, w), sigma)
<1> DEFINE D == SUBSET (0 .. m - 1)
           M == MovedSet(C, sigma)
<1>1. /\ \A v \in D : Weight(Permuted(v, sigma)) = Weight(v)
      /\ Zero \in D /\ Permuted(Zero, sigma) = Zero
  BY PermutedFacts
<1>2. \A v \in D : Permuted(v, sigma) = Zero => v = Zero
  BY <1>1 DEF Permuted, Zero
<1>3. C \subseteq D
  OBVIOUS
<1> HIDE DEF D
<1>4. \A x : x \in FullCodewords(M) <=> \E v \in C : x = Permuted(v, sigma) /\ v # Zero
  BY <1>1, <1>2, <1>3 DEF FullCodewords, MovedSet
<1>5. FullCodewords(M) = MovedSet(FullCodewords(C), sigma)
  BY <1>4 DEF FullCodewords, MovedSet
<1>6. ASSUME NEW w PROVE LightWords(M, w) = MovedSet(LightWords(C, w), sigma)
  <2>1. \A v \in FullCodewords(C) : Weight(Permuted(v, sigma)) = Weight(v)
    BY <1>1, <1>3 DEF FullCodewords
  <2> HIDE DEF M
  <2>2. \A x : x \in LightWords(M, w) <=> \E v \in FullCodewords(C) : x = Permuted(v, sigma) /\ Weight(v) =< w
    BY <1>5, <2>1 DEF LightWords, MovedSet
  <2> QED BY <2>2 DEF LightWords, MovedSet
<1> QED BY <1>5, <1>6

LEMMA MovedGraphWords ==
  ASSUME NEW m \in Nat, NEW sigma \in ColumnOrders(m), NEW C, C \subseteq SUBSET (0 .. m - 1)
  PROVE  /\ LowWeightCodewords(MovedSet(C, sigma), m) = MovedSet(LowWeightCodewords(C, m), sigma)
         /\ GminWords(MovedSet(C, sigma), m) = MovedSet(GminWords(C, m), sigma)
<1> DEFINE M == MovedSet(C, sigma)
           D == SUBSET (0 .. m - 1)
           enough(X) == {w \in 1 .. m : Span(LightWords(X, w)) = X}
           low(X) == LightWords(X, Min(enough(X)))
<1>1. \A X : LowWeightCodewords(X, m) =
               IF X = {Zero} \/ 2 * Cardinality(low(X)) > Cardinality(X) THEN {} ELSE low(X)
  BY DEF LowWeightCodewords, LightWords
<1>2. FullCodewords(M) = MovedSet(FullCodewords(C), sigma)
      /\ \A w : LightWords(M, w) = MovedSet(LightWords(C, w), sigma)
  BY MovedLightWords
<1>3. FullCodewords(C) \subseteq D /\ \A w : LightWords(C, w) \subseteq D
  BY DEF FullCodewords, LightWords
<1>4. enough(M) = enough(C)
  <2>1. ASSUME NEW w \in 1 .. m PROVE Span(LightWords(M, w)) = M <=> Span(LightWords(C, w)) = C
    <3> DEFINE L == LightWords(C, w)
    <3>1. L \subseteq D /\ LightWords(M, w) = MovedSet(L, sigma)
      BY <1>2, <1>3
    <3> HIDE DEF L
    <3>2. Span(L) \subseteq D /\ Span(MovedSet(L, sigma)) = MovedSet(Span(L), sigma)
      BY <3>1, MovedSpan
    <3>3. MovedSet(Span(L), sigma) = MovedSet(C, sigma) <=> Span(L) = C
      <4> DEFINE X == Span(L)
      <4>1. \A v \in D : Permuted(v, sigma) \in MovedSet(X, sigma) <=> v \in X
        BY <3>2, MovedFacts
      <4>2. \A v \in D : Permuted(v, sigma) \in MovedSet(C, sigma) <=> v \in C
        BY MovedFacts
      <4>3. X \subseteq D /\ C \subseteq D
        BY <3>2
      <4> HIDE DEF X, D
      <4> QED BY <4>1, <4>2, <4>3 DEF X
    <3> QED BY <3>1, <3>2, <3>3 DEF L
  <2> HIDE DEF M
  <2> QED BY <2>1
<1> DEFINE L == low(C)
<1>5. low(M) = MovedSet(L, sigma)
  BY <1>2, <1>4
<1>6. L \subseteq D
  BY <1>3
<1>7. Cardinality(MovedSet(L, sigma)) = Cardinality(L) /\ Cardinality(M) = Cardinality(C)
  <2> HIDE DEF L
  <2> QED BY <1>6, MovedFacts
<1>8. M = {Zero} <=> C = {Zero}
  <2>1. {Zero} \subseteq D
    BY PermutedFacts
  <2>2. MovedSet({Zero}, sigma) = {Zero}
    BY PermutedFacts DEF MovedSet
  <2>3. MovedSet(C, sigma) = MovedSet({Zero}, sigma) <=> C = {Zero}
    <3> DEFINE X == {Zero}
    <3>1. \A v \in D : Permuted(v, sigma) \in MovedSet(X, sigma) <=> v \in X
      <4>1. X \subseteq D
        BY <2>1
      <4> HIDE DEF X
      <4> QED BY <4>1, MovedFacts
    <3>2. \A v \in D : Permuted(v, sigma) \in MovedSet(C, sigma) <=> v \in C
      BY MovedFacts
    <3>3. X \subseteq D /\ C \subseteq D
      BY <2>1
    <3> HIDE DEF X, D
    <3> QED BY <3>1, <3>2, <3>3 DEF X
  <2> QED BY <2>2, <2>3
<1>9. MovedSet({}, sigma) = {}
  BY DEF MovedSet
<1>10. LowWeightCodewords(M, m) = MovedSet(LowWeightCodewords(C, m), sigma)
  <2>1. LowWeightCodewords(M, m) =
          IF M = {Zero} \/ 2 * Cardinality(low(M)) > Cardinality(M) THEN {} ELSE low(M)
    BY <1>1
  <2>2. LowWeightCodewords(C, m) =
          IF C = {Zero} \/ 2 * Cardinality(L) > Cardinality(C) THEN {} ELSE L
    BY <1>1
  <2> HIDE DEF low, L, M
  <2> QED BY <1>5, <1>7, <1>8, <1>9, <2>1, <2>2
<1>11. GminWords(M, m) = MovedSet(GminWords(C, m), sigma)
  <2>2. LowWeightCodewords(M, m) = {} <=> LowWeightCodewords(C, m) = {}
    BY <1>10 DEF MovedSet
  <2> HIDE DEF M
  <2> QED BY <1>2, <1>10, <2>2 DEF GminWords
<1> QED BY <1>10, <1>11

(* Some of the words, picked alike before and after: equally many.           *)
PickedAlike(P, Q, W, sigma) ==
  /\ P \subseteq W /\ Q \subseteq MovedSet(W, sigma)
  /\ \A w \in W : Permuted(w, sigma) \in Q <=> w \in P

LEMMA MovedPart ==
  ASSUME NEW m \in Nat, NEW sigma \in ColumnOrders(m), NEW W, W \subseteq SUBSET (0 .. m - 1),
         NEW P, NEW Q, PickedAlike(P, Q, W, sigma)
  PROVE  /\ OneToOne(Mover(m, sigma), P, Q) /\ IsFiniteSet(P)
         /\ Cardinality(Q) = Cardinality(P)
<1>1. Q = MovedSet(P, sigma)
  BY DEF MovedSet, PickedAlike
<1>2. P \subseteq SUBSET (0 .. m - 1)
  BY DEF PickedAlike
<1> QED BY <1>1, <1>2, MovedFacts

(* The words of one weight through a column, or through two.                 *)
WordsAt(V, a, j) == {w \in V : Weight(w) = a /\ j \in w}

WordsOver(V, a, p) == {w \in V : Weight(w) = a /\ p \subseteq w}

LEMMA MovedThrough ==
  ASSUME NEW m \in Nat, NEW sigma \in ColumnOrders(m), NEW W, W \subseteq SUBSET (0 .. m - 1), NEW a
  PROVE  /\ \A j \in 0 .. m - 1 :
              Cardinality(WordsAt(MovedSet(W, sigma), a, sigma[j]))
                = Cardinality(WordsAt(W, a, j))
         /\ \A p \in SUBSET (0 .. m - 1) :
              Cardinality(WordsOver(MovedSet(W, sigma), a, Permuted(p, sigma)))
                = Cardinality(WordsOver(W, a, p))
<1> DEFINE J == 0 .. m - 1
           M == MovedSet(W, sigma)
<1>1. \A w \in W : /\ Weight(Permuted(w, sigma)) = Weight(w) /\ Permuted(w, sigma) \in M
                   /\ \A j \in J : sigma[j] \in Permuted(w, sigma) <=> j \in w
  BY PermutedFacts DEF MovedSet
<1>2. ASSUME NEW j \in J
      PROVE  Cardinality(WordsAt(M, a, sigma[j]))
               = Cardinality(WordsAt(W, a, j))
  <2> DEFINE P == WordsAt(W, a, j)
             Q == WordsAt(M, a, sigma[j])
  <2>1. PickedAlike(P, Q, W, sigma)
    BY <1>1 DEF PickedAlike, WordsAt
  <2> HIDE DEF P, Q
  <2>2. OneToOne(Mover(m, sigma), P, Q) /\ IsFiniteSet(P)
    BY <2>1, MovedPart
  <2>3. Cardinality(Q) = Cardinality(P)
    BY <2>2, SameNumber
  <2> QED BY <2>3 DEF P, Q
<1>3. ASSUME NEW p \in SUBSET J
      PROVE  Cardinality(WordsOver(M, a, Permuted(p, sigma)))
               = Cardinality(WordsOver(W, a, p))
  <2> DEFINE P == WordsOver(W, a, p)
             Q == WordsOver(M, a, Permuted(p, sigma))
  <2>0. ASSUME NEW w \in W PROVE Permuted(p, sigma) \subseteq Permuted(w, sigma) <=> p \subseteq w
    <3>1. \A j \in J : sigma[j] \in Permuted(w, sigma) <=> j \in w
      BY <1>1
    <3>2. Permuted(p, sigma) \subseteq Permuted(w, sigma) <=> \A j \in p : sigma[j] \in Permuted(w, sigma)
      BY DEF Permuted
    <3> QED BY <3>1, <3>2
  <2>1. PickedAlike(P, Q, W, sigma)
    <3>1. P \subseteq W /\ Q \subseteq MovedSet(W, sigma)
      BY DEF WordsOver
    <3>2. ASSUME NEW w \in W PROVE Permuted(w, sigma) \in Q <=> w \in P
      BY <1>1, <2>0 DEF WordsOver
    <3> HIDE DEF P, Q
    <3> QED BY <3>1, <3>2 DEF PickedAlike
  <2> HIDE DEF P, Q
  <2>2. OneToOne(Mover(m, sigma), P, Q) /\ IsFiniteSet(P)
    BY <2>1, MovedPart
  <2>3. Cardinality(Q) = Cardinality(P)
    BY <2>2, SameNumber
  <2> QED BY <2>3 DEF P, Q
<1> QED BY <1>2, <1>3

(* A permutation of the columns takes all columns to all columns.            *)
LEMMA ColumnsOneToOne ==
  ASSUME NEW m \in Nat, NEW sigma \in ColumnOrders(m)
  PROVE  OneToOne(sigma, 0 .. m - 1, 0 .. m - 1)
<1>1. sigma \in [0 .. m - 1 -> 0 .. m - 1] /\ \A i, j \in 0 .. m - 1 : sigma[i] = sigma[j] => i = j
  BY PermutationIs
<1>2. \A j \in 0 .. m - 1 : \E i \in 0 .. m - 1 : sigma[i] = j
  BY PermutationOnto
<1> QED BY <1>1, <1>2 DEF OneToOne

LEMMA MovedT11 ==
  ASSUME NEW m \in Nat, NEW sigma \in ColumnOrders(m), NEW W, W \subseteq SUBSET (0 .. m - 1), NEW weights
  PROVE  T11(MovedSet(W, sigma), m, weights) = T11(W, m, weights)
<1> DEFINE M == MovedSet(W, sigma)
           row(V, j) == [a \in weights |-> Cardinality(WordsAt(V, a, j))]
           f == [j \in 0 .. m - 1 |-> row(W, j)]
           g == [j \in 0 .. m - 1 |-> row(M, j)]
<1>1. T11(M, m, weights) = Tally(g) /\ T11(W, m, weights) = Tally(f)
  BY DEF T11, WordsAt
<1>2. \A j \in 0 .. m - 1 : sigma[j] \in 0 .. m - 1 /\ row(M, sigma[j]) = row(W, j)
  <2>1. \A j \in 0 .. m - 1 : sigma[j] \in 0 .. m - 1
    BY PermutationIs
  <2>2. ASSUME NEW j \in 0 .. m - 1 PROVE row(M, sigma[j]) = row(W, j)
    <3>1. ASSUME NEW a
          PROVE  Cardinality(WordsAt(M, a, sigma[j]))
                   = Cardinality(WordsAt(W, a, j))
      BY MovedThrough
    <3> QED BY <3>1
  <2> HIDE DEF row
  <2> QED BY <2>1, <2>2
<1>3. DOMAIN f = 0 .. m - 1 /\ DOMAIN g = 0 .. m - 1 /\ IsFiniteSet(0 .. m - 1)
  BY CoordinatesFinite
<1>4. \A j \in 0 .. m - 1 : g[sigma[j]] = f[j]
  <2> HIDE DEF row
  <2> QED BY <1>2
<1> HIDE DEF f, g
<1>5. OneToOne(sigma, DOMAIN f, DOMAIN g)
  BY <1>3, ColumnsOneToOne
<1>6. Tally(f) = Tally(g)
  BY <1>3, <1>4, <1>5, TallyCarried
<1> QED BY <1>1, <1>6

(* So does it all pairs of columns.                                          *)
LEMMA MovedT13 ==
  ASSUME NEW m \in Nat, NEW sigma \in ColumnOrders(m), NEW W, W \subseteq SUBSET (0 .. m - 1), NEW weights
  PROVE  T13(MovedSet(W, sigma), m, weights) = T13(W, m, weights)
<1> DEFINE M == MovedSet(W, sigma)
           row(V, p) == [a \in weights |-> Cardinality(WordsOver(V, a, p))]
           pairs == kSubset(2, 0 .. m - 1)
           f == [p \in pairs |-> row(W, p)]
           g == [p \in pairs |-> row(M, p)]
           b == Mover(m, sigma)
<1>1. /\ T13(M, m, weights) = IF M = {} THEN <<>> ELSE Tally(g)
      /\ T13(W, m, weights) = IF W = {} THEN <<>> ELSE Tally(f)
  BY DEF T13, WordsOver
<1>2. M = {} <=> W = {}
  BY DEF MovedSet
<1>3. pairs \subseteq SUBSET (0 .. m - 1) /\ \A p \in SUBSET (0 .. m - 1) : p \in pairs <=> Cardinality(p) = 2
  BY DEF kSubset
<1>4. \A p \in pairs : b[p] = Permuted(p, sigma) /\ b[p] \in pairs /\ row(M, b[p]) = row(W, p)
  <2> SUFFICES ASSUME NEW p \in pairs
               PROVE  b[p] = Permuted(p, sigma) /\ b[p] \in pairs /\ row(M, b[p]) = row(W, p)
    OBVIOUS
  <2>1. p \in SUBSET (0 .. m - 1) /\ Cardinality(p) = 2
    BY <1>3
  <2>2. b[p] = Permuted(p, sigma)
    BY <2>1 DEF Mover
  <2>3. Permuted(p, sigma) \in SUBSET (0 .. m - 1) /\ Cardinality(Permuted(p, sigma)) = 2
    BY <2>1, PermutedFacts DEF Weight
  <2>4. row(M, Permuted(p, sigma)) = row(W, p)
    <3>1. ASSUME NEW a
          PROVE  Cardinality(WordsOver(M, a, Permuted(p, sigma)))
                   = Cardinality(WordsOver(W, a, p))
      BY <2>1, MovedThrough
    <3> QED BY <3>1
  <2> HIDE DEF row, b
  <2> QED BY <1>3, <2>2, <2>3, <2>4
<1>5. pairs = MovedSet(pairs, sigma)
  <2>1. MovedSet(pairs, sigma) \subseteq pairs
    BY <1>4 DEF MovedSet
  <2>2. IsFiniteSet(pairs) /\ Cardinality(MovedSet(pairs, sigma)) = Cardinality(pairs)
    <3> HIDE DEF pairs
    <3> QED BY <1>3, MovedFacts
  <2> HIDE DEF pairs
  <2> QED BY <2>1, <2>2, FS_Subset
<1>6. OneToOne(b, pairs, pairs) /\ IsFiniteSet(pairs)
  <2> HIDE DEF pairs
  <2> QED BY <1>3, <1>5, MovedFacts
<1>7. DOMAIN f = pairs /\ DOMAIN g = pairs /\ \A p \in pairs : g[b[p]] = f[p]
  <2> HIDE DEF pairs, row, b
  <2> QED BY <1>4
<1> HIDE DEF f, g, b, pairs
<1>8. Tally(f) = Tally(g)
  BY <1>6, <1>7, TallyCarried
<1> QED BY <1>1, <1>2, <1>8

(* The sum of two words, as `T12` has it.                                    *)
OddPlaces(p) == {x \in UNION p : \E w \in p : x \notin w}

LEMMA MovedOddPlaces ==
  ASSUME NEW m \in Nat, NEW sigma \in ColumnOrders(m), NEW p, p \subseteq SUBSET (0 .. m - 1)
  PROVE  Weight(OddPlaces(MovedSet(p, sigma))) = Weight(OddPlaces(p))
<1> DEFINE J == 0 .. m - 1
           M == MovedSet(p, sigma)
           S == OddPlaces(p)
<1>1. sigma \in [J -> J] /\ \A i, j \in J : sigma[i] = sigma[j] => i = j
  BY PermutationIs
<1>2. S \subseteq J
  BY DEF OddPlaces
<1>3. \A w \in p : \A j \in J : sigma[j] \in Permuted(w, sigma) <=> j \in w
  BY PermutedFacts
<1> HIDE DEF J
<1>4. ASSUME NEW x \in Permuted(S, sigma) PROVE x \in OddPlaces(M)
  <2>1. PICK j \in S : x = sigma[j]
    BY DEF Permuted
  <2>2. PICK v \in p : j \in v
    BY DEF OddPlaces
  <2>3. PICK w \in p : j \notin w
    BY DEF OddPlaces
  <2>4. x \in Permuted(v, sigma) /\ x \notin Permuted(w, sigma)
    BY <1>2, <1>3, <2>1, <2>2, <2>3
  <2>5. Permuted(v, sigma) \in M /\ Permuted(w, sigma) \in M
    BY DEF MovedSet
  <2> QED BY <2>4, <2>5 DEF OddPlaces
<1>5. ASSUME NEW x \in OddPlaces(M) PROVE x \in Permuted(S, sigma)
  <2>1. PICK v \in p : x \in Permuted(v, sigma)
    BY DEF OddPlaces, MovedSet
  <2>2. PICK w \in p : x \notin Permuted(w, sigma)
    BY DEF OddPlaces, MovedSet
  <2>3. PICK j \in v : x = sigma[j]
    BY <2>1 DEF Permuted
  <2>4. j \notin w
    BY <2>2, <2>3 DEF Permuted
  <2>5. j \in S
    BY <2>3, <2>4 DEF OddPlaces
  <2> QED BY <2>3, <2>5 DEF Permuted
<1>6. OddPlaces(M) = Permuted(S, sigma)
  BY <1>4, <1>5
<1> HIDE DEF S
<1>7. Weight(Permuted(S, sigma)) = Weight(S)
  BY <1>2, PermutedFacts DEF J
<1> QED BY <1>6, <1>7 DEF S

(* Sets of so many words, moved.                                             *)
SetMover(m, sigma) == [t \in SUBSET SUBSET (0 .. m - 1) |-> MovedSet(t, sigma)]

LEMMA MovedSubsets ==
  ASSUME NEW m \in Nat, NEW sigma \in ColumnOrders(m), NEW L, L \subseteq SUBSET (0 .. m - 1), NEW k
  PROVE  /\ OneToOne(SetMover(m, sigma), kSubset(k, L), kSubset(k, MovedSet(L, sigma)))
         /\ IsFiniteSet(kSubset(k, L))
         /\ \A t \in kSubset(k, L) : /\ t \subseteq SUBSET (0 .. m - 1) /\ t \subseteq L
                                     /\ SetMover(m, sigma)[t] = MovedSet(t, sigma)
<1> DEFINE D == SUBSET (0 .. m - 1)
           M == MovedSet(L, sigma)
<1>1. /\ \A S, x : x \in kSubset(k, S) <=> x \in SUBSET S /\ Cardinality(x) = k
      /\ IsFiniteSet(L) /\ L \subseteq D
  BY MovedFacts DEF kSubset
<1>2. \A t \in SUBSET L : t \subseteq D /\ SetMover(m, sigma)[t] = MovedSet(t, sigma)
  BY DEF SetMover
<1>3. \A t \in SUBSET D : Cardinality(MovedSet(t, sigma)) = Cardinality(t)
  BY MovedFacts
<1>4. \A t \in SUBSET D : \A v \in D : Permuted(v, sigma) \in MovedSet(t, sigma) <=> v \in t
  BY MovedFacts
<1>5. IsFiniteSet(kSubset(k, L))
  <2>1. IsFiniteSet(SUBSET L) /\ kSubset(k, L) \subseteq SUBSET L
    BY <1>1, FS_SUBSET
  <2> QED BY <2>1, FS_Subset
<1> HIDE DEF D
<1>6. ASSUME NEW t \in kSubset(k, L) PROVE MovedSet(t, sigma) \in kSubset(k, M)
  <2>1. t \subseteq L /\ t \subseteq D /\ Cardinality(t) = k
    BY <1>1
  <2>2. MovedSet(t, sigma) \subseteq M
    BY <2>1 DEF MovedSet
  <2>3. Cardinality(MovedSet(t, sigma)) = k
    BY <1>3, <2>1
  <2> HIDE DEF M
  <2> QED BY <1>1, <2>2, <2>3
<1>7. ASSUME NEW t \in kSubset(k, L), NEW u \in kSubset(k, L), MovedSet(t, sigma) = MovedSet(u, sigma)
      PROVE  t = u
  <2>1. t \subseteq D /\ u \subseteq D
    BY <1>1
  <2>2. \A v \in D : v \in t <=> v \in u
    BY <1>4, <1>7, <2>1
  <2> QED BY <2>1, <2>2
<1>8. ASSUME NEW u \in kSubset(k, M) PROVE \E t \in kSubset(k, L) : MovedSet(t, sigma) = u
  <2> DEFINE t == {v \in L : Permuted(v, sigma) \in u}
  <2>1. u \subseteq M /\ Cardinality(u) = k
    BY <1>1
  <2>2. MovedSet(t, sigma) = u
    BY <2>1 DEF MovedSet
  <2>3. t \subseteq L /\ t \subseteq D
    BY <1>1
  <2> HIDE DEF t
  <2>4. t \in kSubset(k, L)
    BY <1>1, <1>3, <2>1, <2>2, <2>3
  <2> QED BY <2>2, <2>4
<1>9. \A t \in kSubset(k, L) : t \subseteq L /\ t \subseteq D /\ SetMover(m, sigma)[t] = MovedSet(t, sigma)
  BY <1>1, <1>2
<1>10. OneToOne(SetMover(m, sigma), kSubset(k, L), kSubset(k, M))
  <2> HIDE DEF M
  <2>1. \A t \in kSubset(k, L) : SetMover(m, sigma)[t] \in kSubset(k, M)
    BY <1>6, <1>9
  <2>2. \A t, u \in kSubset(k, L) : SetMover(m, sigma)[t] = SetMover(m, sigma)[u] => t = u
    BY <1>7, <1>9
  <2>3. \A u \in kSubset(k, M) : \E t \in kSubset(k, L) : SetMover(m, sigma)[t] = u
    BY <1>8, <1>9
  <2> QED BY <2>1, <2>2, <2>3 DEF OneToOne
<1> QED BY <1>5, <1>9, <1>10 DEF D

OfLeastWeight(W) == {w \in W : \A v \in W : Weight(w) =< Weight(v)}

PairTally(t) == Tally([p \in kSubset(2, t) |-> Weight(OddPlaces(p))])

LEMMA MovedPairTally ==
  ASSUME NEW m \in Nat, NEW sigma \in ColumnOrders(m), NEW t, t \subseteq SUBSET (0 .. m - 1)
  PROVE  PairTally(MovedSet(t, sigma)) = PairTally(t)
<1> DEFINE A == kSubset(2, t)
           B == kSubset(2, MovedSet(t, sigma))
           f == [p \in A |-> Weight(OddPlaces(p))]
           g == [p \in B |-> Weight(OddPlaces(p))]
           b == SetMover(m, sigma)
<1>1. /\ OneToOne(b, A, B) /\ IsFiniteSet(A)
      /\ \A p \in A : p \subseteq SUBSET (0 .. m - 1) /\ b[p] = MovedSet(p, sigma)
  <2> HIDE DEF f, g
  <2>1. /\ OneToOne(b, A, B) /\ IsFiniteSet(A)
    BY MovedSubsets
  <2>2. \A p \in A : p \subseteq SUBSET (0 .. m - 1) /\ b[p] = MovedSet(p, sigma)
    BY MovedSubsets
  <2> QED BY <2>1, <2>2
<1> HIDE DEF A, B, b
<1>2. DOMAIN f = A /\ DOMAIN g = B
  OBVIOUS
<1>3. ASSUME NEW p \in A PROVE g[b[p]] = f[p]
  <2>1. Weight(OddPlaces(MovedSet(p, sigma))) = Weight(OddPlaces(p))
    BY <1>1, MovedOddPlaces
  <2>2. b[p] \in B /\ b[p] = MovedSet(p, sigma)
    BY <1>1 DEF OneToOne
  <2> QED BY <2>1, <2>2
<1> HIDE DEF f, g
<1>4. OneToOne(b, DOMAIN f, DOMAIN g) /\ \A p \in DOMAIN f : g[b[p]] = f[p]
  BY <1>1, <1>2, <1>3
<1>5. Tally(f) = Tally(g)
  BY <1>1, <1>2, <1>4, TallyCarried
<1> QED BY <1>5 DEF PairTally, f, g, A, B

LEMMA MovedT12 ==
  ASSUME NEW m \in Nat, NEW sigma \in ColumnOrders(m), NEW W, W \subseteq SUBSET (0 .. m - 1)
  PROVE  T12(MovedSet(W, sigma)) = T12(W)
<1> DEFINE M == MovedSet(W, sigma)
           L == OfLeastWeight(W)
           A == kSubset(3, L)
           B == kSubset(3, OfLeastWeight(M))
           f == [t \in A |-> PairTally(t)]
           g == [t \in B |-> PairTally(t)]
           b == SetMover(m, sigma)
<1>1. T12(W) = Tally(f) /\ T12(M) = Tally(g)
  BY DEF T12, OfLeastWeight, PairTally, OddPlaces
<1>2. L \subseteq W
  BY DEF OfLeastWeight
<1>3. OfLeastWeight(M) = MovedSet(L, sigma)
  <2>1. \A w \in W : Weight(Permuted(w, sigma)) = Weight(w)
    BY PermutedFacts
  <2>2. \A w \in W : (\A v \in M : Weight(Permuted(w, sigma)) =< Weight(v)) <=>
                     (\A v \in W : Weight(w) =< Weight(v))
    BY <2>1 DEF MovedSet
  <2>3. \A x : x \in OfLeastWeight(M) <=> \E w \in W : x = Permuted(w, sigma) /\ w \in L
    <3> HIDE DEF M
    <3>1. \A x : x \in M <=> \E w \in W : x = Permuted(w, sigma)
      BY DEF MovedSet, M
    <3> QED BY <2>2, <3>1 DEF OfLeastWeight
  <2> HIDE DEF L
  <2> QED BY <1>2, <2>3 DEF MovedSet
<1>4. /\ OneToOne(b, A, B) /\ IsFiniteSet(A)
      /\ \A t \in A : t \subseteq SUBSET (0 .. m - 1) /\ b[t] = MovedSet(t, sigma)
  <2>1. L \subseteq SUBSET (0 .. m - 1)
    BY <1>2
  <2> HIDE DEF L
  <2>2. /\ OneToOne(b, kSubset(3, L), kSubset(3, MovedSet(L, sigma))) /\ IsFiniteSet(kSubset(3, L))
        /\ \A t \in kSubset(3, L) : t \subseteq SUBSET (0 .. m - 1) /\ b[t] = MovedSet(t, sigma)
    <3>1. \A k : /\ OneToOne(b, kSubset(k, L), kSubset(k, MovedSet(L, sigma)))
                 /\ IsFiniteSet(kSubset(k, L))
                 /\ \A t \in kSubset(k, L) : /\ t \subseteq SUBSET (0 .. m - 1)
                                            /\ b[t] = MovedSet(t, sigma)
      BY <2>1, MovedSubsets
    <3> QED BY <3>1
  <2> QED BY <1>3, <2>2
<1> HIDE DEF A, B, b
<1>5. DOMAIN f = A /\ DOMAIN g = B
  OBVIOUS
<1>6. ASSUME NEW t \in A PROVE g[b[t]] = f[t]
  <2>1. PairTally(MovedSet(t, sigma)) = PairTally(t)
    BY <1>4, MovedPairTally
  <2>2. b[t] \in B /\ b[t] = MovedSet(t, sigma)
    BY <1>4 DEF OneToOne
  <2> QED BY <2>1, <2>2
<1> HIDE DEF f, g
<1>7. OneToOne(b, DOMAIN f, DOMAIN g) /\ \A t \in DOMAIN f : g[b[t]] = f[t]
  BY <1>4, <1>5, <1>6
<1>8. Tally(f) = Tally(g)
  BY <1>4, <1>5, <1>7, TallyCarried
<1> QED BY <1>1, <1>8

LEMMA MovedMinWeight ==
  ASSUME NEW m \in Nat, NEW sigma \in ColumnOrders(m), NEW W, W \subseteq SUBSET (0 .. m - 1)
  PROVE  MinWeight(MovedSet(W, sigma)) = MinWeight(W)
<1> DEFINE M == MovedSet(W, sigma)
<1>1. \A w \in W : Weight(Permuted(w, sigma)) = Weight(w)
  BY PermutedFacts
<1> DEFINE S == {Weight(w) : w \in M}
           T == {Weight(w) : w \in W}
<1>2. S = T
  BY <1>1 DEF MovedSet
<1>3. M = {} <=> W = {}
  BY DEF MovedSet
<1>4. MinWeight(M) = (IF M = {} THEN 0 ELSE Min(S)) /\ MinWeight(W) = (IF W = {} THEN 0 ELSE Min(T))
  BY DEF MinWeight
<1> HIDE DEF S, T
<1> QED BY <1>2, <1>3, <1>4

(* The first colours of arranged words are those of the words.               *)
LEMMA MovedDegree ==
  ASSUME NEW m \in Nat, NEW sigma \in ColumnOrders(m), NEW W, W \subseteq SUBSET (0 .. m - 1),
         NEW j \in 0 .. m - 1
  PROVE  /\ OneToOne(Mover(m, sigma), {w \in W : j \in w}, {w \in MovedSet(W, sigma) : sigma[j] \in w})
         /\ IsFiniteSet({w \in W : j \in w})
         /\ DegreeIn(MovedSet(W, sigma), sigma[j]) = DegreeIn(W, j)
<1> DEFINE P == {w \in W : j \in w}
           Q == {w \in MovedSet(W, sigma) : sigma[j] \in w}
<1>1. \A w \in W : sigma[j] \in Permuted(w, sigma) <=> j \in w
  BY PermutedFacts
<1>2. \A w \in W : Permuted(w, sigma) \in MovedSet(W, sigma)
  BY DEF MovedSet
<1>3. PickedAlike(P, Q, W, sigma)
  BY <1>1, <1>2 DEF PickedAlike
<1>4. DegreeIn(W, j) = Cardinality(P) /\ DegreeIn(MovedSet(W, sigma), sigma[j]) = Cardinality(Q)
  BY DEF DegreeIn
<1> HIDE DEF P, Q
<1>5. OneToOne(Mover(m, sigma), P, Q) /\ IsFiniteSet(P)
  BY <1>3, MovedPart
<1>6. Cardinality(Q) = Cardinality(P)
  BY <1>5, SameNumber
<1> QED BY <1>4, <1>5, <1>6 DEF P, Q

WeightsOf(V) == {Weight(w) : w \in V}

LEMMA MovedStratum ==
  ASSUME NEW m \in Nat, NEW sigma \in ColumnOrders(m), NEW W, W \subseteq SUBSET (0 .. m - 1)
  PROVE  /\ \A w \in W : Stratum(MovedSet(W, sigma), Permuted(w, sigma)) = Stratum(W, w)
         /\ WeightsOf(MovedSet(W, sigma)) = WeightsOf(W)
<1> DEFINE M == MovedSet(W, sigma)
<1>1. \A w \in W : Weight(Permuted(w, sigma)) = Weight(w)
  BY PermutedFacts
<1>2. \A x : x \in M <=> \E w \in W : x = Permuted(w, sigma)
  BY DEF MovedSet
<1> HIDE DEF M
<1>3. {Weight(w) : w \in M} = {Weight(w) : w \in W}
  BY <1>1, <1>2
<1>4. ASSUME NEW w \in W PROVE Stratum(M, Permuted(w, sigma)) = Stratum(W, w)
  <2> DEFINE S == {Weight(v) : v \in {u \in W : Weight(u) < Weight(w)}}
             T == {Weight(v) : v \in {u \in M : Weight(u) < Weight(Permuted(w, sigma))}}
  <2>1. S = T
    BY <1>1, <1>2
  <2>2. Stratum(W, w) = Cardinality(S) /\ Stratum(M, Permuted(w, sigma)) = Cardinality(T)
    BY DEF Stratum
  <2> QED BY <2>1, <2>2
<1> QED BY <1>3, <1>4 DEF M, WeightsOf

(* Two colourings that are one and the same but for the arrangement.         *)
Carried(m, sigma, W, s, t) ==
  /\ DOMAIN s.words = W /\ DOMAIN t.words = MovedSet(W, sigma)
  /\ DOMAIN s.columns = 0 .. m - 1 /\ DOMAIN t.columns = 0 .. m - 1
  /\ t.rounds = s.rounds /\ t.stable = s.stable
  /\ \A w \in W : t.words[Permuted(w, sigma)] = s.words[w]
  /\ \A j \in 0 .. m - 1 : t.columns[sigma[j]] = s.columns[j]

SameTallies(s, t) ==
  /\ Tally(s.words) = Tally(t.words) /\ Tally(s.columns) = Tally(t.columns)
  /\ DistinctCount(s.words) = DistinctCount(t.words)
  /\ DistinctCount(s.columns) = DistinctCount(t.columns)

(* Colours carried from one side to the other.                               *)
LEMMA CarriedTallies ==
  ASSUME NEW m \in Nat, NEW sigma \in ColumnOrders(m), NEW W, W \subseteq SUBSET (0 .. m - 1),
         NEW s, NEW t, Carried(m, sigma, W, s, t)
  PROVE  SameTallies(s, t)
<1> DEFINE b == Mover(m, sigma)
           J == 0 .. m - 1
<1>1. OneToOne(b, W, MovedSet(W, sigma)) /\ IsFiniteSet(W)
  BY MovedFacts
<1>2. \A w \in W : b[w] = Permuted(w, sigma)
  BY DEF Mover
<1>3. OneToOne(sigma, J, J) /\ IsFiniteSet(J)
  BY ColumnsOneToOne, CoordinatesFinite
<1> HIDE DEF b, J
<1> DEFINE f == s.words
           g == t.words
           f2 == s.columns
           g2 == t.columns
<1>4. DOMAIN f = W /\ OneToOne(b, DOMAIN f, DOMAIN g) /\ \A x \in DOMAIN f : g[b[x]] = f[x]
  BY <1>1, <1>2 DEF Carried
<1>5. DOMAIN f2 = J /\ OneToOne(sigma, DOMAIN f2, DOMAIN g2) /\ \A x \in DOMAIN f2 : g2[sigma[x]] = f2[x]
  BY <1>3 DEF Carried, J
<1> HIDE DEF f, g, f2, g2
<1>6. Tally(f) = Tally(g)
  BY <1>1, <1>4, TallyCarried
<1>7. Tally(f2) = Tally(g2)
  BY <1>3, <1>5, TallyCarried
<1>8. {f[x] : x \in DOMAIN f} = {g[y] : y \in DOMAIN g}
  BY <1>4 DEF OneToOne
<1>9. {f2[x] : x \in DOMAIN f2} = {g2[y] : y \in DOMAIN g2}
  BY <1>5 DEF OneToOne
<1> QED BY <1>6, <1>7, <1>8, <1>9 DEF SameTallies, DistinctCount, f, g, f2, g2

(* A round does the same to both.                                            *)
LEMMA RoundCarried ==
  ASSUME NEW m \in Nat, NEW sigma \in ColumnOrders(m), NEW W, W \subseteq SUBSET (0 .. m - 1),
         NEW s, NEW t, Carried(m, sigma, W, s, t)
  PROVE  Carried(m, sigma, W, Round(W, s), Round(MovedSet(W, sigma), t))
<1> DEFINE M == MovedSet(W, sigma)
           J == 0 .. m - 1
           b == Mover(m, sigma)
           side(r, w) == [j \in w |-> r.columns[j]]
           through(r, V, j) == [w \in {v \in V : j \in v} |-> r.words[w]]
           cw(r, V) == [w \in V |-> <<0, r.words[w], Tally(side(r, w))>>]
           col(r, V) == [j \in DOMAIN r.columns |-> <<1, r.columns[j], Tally(through(r, V, j))>>]
           next(r, V) == [rounds |-> r.rounds + 1, words |-> cw(r, V), columns |-> col(r, V),
                          stable |-> Stable(r.words, r.columns, cw(r, V), col(r, V))]
<1>1. Round(W, s) = next(s, W) /\ Round(M, t) = next(t, M)
  BY DEF Round
<1>2. sigma \in [J -> J] /\ \A i, j \in J : sigma[i] = sigma[j] => i = j
  BY PermutationIs
<1>3. \A w \in W : w \subseteq J /\ IsFiniteSet(w)
  BY CoordinatesFinite
<1>4. /\ DOMAIN s.words = W /\ DOMAIN t.words = M /\ DOMAIN s.columns = J /\ DOMAIN t.columns = J
      /\ t.rounds = s.rounds
      /\ \A w \in W : t.words[Permuted(w, sigma)] = s.words[w]
      /\ \A j \in J : t.columns[sigma[j]] = s.columns[j]
  BY DEF Carried
<1>5. ASSUME NEW w \in W PROVE cw(t, M)[Permuted(w, sigma)] = cw(s, W)[w]
  <2> DEFINE f == side(s, w)
             g == side(t, Permuted(w, sigma))
  <2>1. DOMAIN f = w /\ DOMAIN g = Permuted(w, sigma)
    OBVIOUS
  <2>2. OneToOne(sigma, w, Permuted(w, sigma))
    BY <1>2, <1>3 DEF OneToOne, Permuted
  <2>3. \A j \in w : sigma[j] \in Permuted(w, sigma) /\ g[sigma[j]] = f[j]
    BY <1>3, <1>4 DEF Permuted
  <2> HIDE DEF f, g
  <2>4. Tally(f) = Tally(g)
    BY <1>3, <2>1, <2>2, <2>3, TallyCarried
  <2>5. Permuted(w, sigma) \in M
    BY DEF MovedSet
  <2>6. cw(s, W)[w] = <<0, s.words[w], Tally(f)>>
    BY DEF f
  <2>7. cw(t, M)[Permuted(w, sigma)] = <<0, t.words[Permuted(w, sigma)], Tally(g)>>
    BY <2>5 DEF g
  <2> QED BY <1>4, <2>4, <2>6, <2>7
<1>6. ASSUME NEW j \in J PROVE col(t, M)[sigma[j]] = col(s, W)[j]
  <2> DEFINE f == through(s, W, j)
             g == through(t, M, sigma[j])
             P == {v \in W : j \in v}
             Q == {v \in M : sigma[j] \in v}
  <2>1. DOMAIN f = P /\ DOMAIN g = Q
    OBVIOUS
  <2>2. OneToOne(b, P, Q) /\ IsFiniteSet(P)
    BY MovedDegree
  <2>3. \A w \in P : w \in W /\ b[w] = Permuted(w, sigma)
    BY DEF Mover
  <2>4. \A w \in P : f[w] = s.words[w]
    OBVIOUS
  <2>5. \A w \in Q : g[w] = t.words[w]
    OBVIOUS
  <2> HIDE DEF f, g, P, Q, b, M
  <2>6. \A w \in P : g[b[w]] = f[w]
    <3>1. \A w \in P : b[w] \in Q
      BY <2>2 DEF OneToOne
    <3> QED BY <1>4, <2>3, <2>4, <2>5, <3>1
  <2>7. Tally(f) = Tally(g)
    BY <2>1, <2>2, <2>6, TallyCarried
  <2>8. col(s, W)[j] = <<1, s.columns[j], Tally(f)>>
    BY <1>4 DEF f
  <2>9. col(t, M)[sigma[j]] = <<1, t.columns[sigma[j]], Tally(g)>>
    BY <1>2, <1>4 DEF g
  <2> QED BY <1>4, <2>7, <2>8, <2>9
<1> HIDE DEF cw, col
<1> DEFINE s2 == next(s, W)
           t2 == next(t, M)
<1>7. s2.words = cw(s, W) /\ s2.columns = col(s, W) /\ t2.words = cw(t, M) /\ t2.columns = col(t, M)
      /\ s2.rounds = s.rounds + 1 /\ t2.rounds = t.rounds + 1
      /\ s2.stable = Stable(s.words, s.columns, cw(s, W), col(s, W))
      /\ t2.stable = Stable(t.words, t.columns, cw(t, M), col(t, M))
  OBVIOUS
<1>8. DOMAIN cw(s, W) = W /\ DOMAIN cw(t, M) = M /\ DOMAIN col(s, W) = J /\ DOMAIN col(t, M) = J
  BY <1>4 DEF cw, col
<1> HIDE DEF next, s2, t2
<1>9. /\ DistinctCount(s.words) = DistinctCount(t.words)
      /\ DistinctCount(s.columns) = DistinctCount(t.columns)
  <2>1. SameTallies(s, t)
    BY CarriedTallies
  <2> QED BY <2>1 DEF SameTallies
<1>10. /\ DistinctCount(cw(s, W)) = DistinctCount(cw(t, M))
       /\ DistinctCount(col(s, W)) = DistinctCount(col(t, M))
  <2> DEFINE u == [rounds |-> 0, words |-> cw(s, W), columns |-> col(s, W), stable |-> TRUE]
             v == [rounds |-> 0, words |-> cw(t, M), columns |-> col(t, M), stable |-> TRUE]
  <2>1. u.words = cw(s, W) /\ v.words = cw(t, M) /\ u.columns = col(s, W) /\ v.columns = col(t, M)
        /\ u.rounds = v.rounds /\ u.stable = v.stable
    OBVIOUS
  <2> HIDE DEF u, v
  <2>2. Carried(m, sigma, W, u, v)
    BY <1>5, <1>6, <1>8, <2>1 DEF Carried, M, J
  <2>3. /\ DistinctCount(u.words) = DistinctCount(v.words)
        /\ DistinctCount(u.columns) = DistinctCount(v.columns)
    <3>1. SameTallies(u, v)
      BY <2>2, CarriedTallies
    <3> QED BY <3>1 DEF SameTallies
  <2> QED BY <2>1, <2>3
<1>11. t2.stable = s2.stable
  BY <1>7, <1>9, <1>10 DEF Stable
<1>12. Carried(m, sigma, W, s2, t2)
  <2>1. t2.rounds = s2.rounds
    BY <1>4, <1>7
  <2> QED BY <1>5, <1>6, <1>7, <1>8, <1>11, <2>1 DEF Carried, M, J
<1> QED BY <1>1, <1>12 DEF s2, t2, M

(* So do all the rounds.                                                     *)
LEMMA RoundsCarried ==
  ASSUME NEW m \in Nat, NEW sigma \in ColumnOrders(m), NEW W, W \subseteq SUBSET (0 .. m - 1),
         NEW cw, NEW col, NEW cw2, NEW col2,
         DOMAIN cw = W, DOMAIN cw2 = MovedSet(W, sigma),
         DOMAIN col = 0 .. m - 1, DOMAIN col2 = 0 .. m - 1,
         \A w \in W : cw2[Permuted(w, sigma)] = cw[w],
         \A j \in 0 .. m - 1 : col2[sigma[j]] = col[j]
  PROVE  Carried(m, sigma, W, Rounds(W, cw, col), Rounds(MovedSet(W, sigma), cw2, col2))
<1> DEFINE M == MovedSet(W, sigma)
           k == 2 * (Cardinality(W) + Cardinality(DOMAIN col))
           k2 == 2 * (Cardinality(M) + Cardinality(DOMAIN col2))
           f == CHOOSE after : FirstRounds(after, W, cw, col, k)
           g == CHOOSE after : FirstRounds(after, M, cw2, col2, k2)
<1>1. k = k2 /\ k \in Nat
  <2>1. Cardinality(M) = Cardinality(W) /\ IsFiniteSet(W)
    BY MovedFacts
  <2>2. DOMAIN col2 = DOMAIN col /\ IsFiniteSet(DOMAIN col)
    BY CoordinatesFinite
  <2> QED BY <2>1, <2>2, FS_CardinalityType
<1>2. Rounds(W, cw, col) = f[k] /\ Rounds(M, cw2, col2) = g[k2]
  BY DEF Rounds, FirstRounds
<1>3. FirstRounds(f, W, cw, col, k)
  <2> HIDE DEF k
  <2> QED BY <1>1, RoundsExist
<1>4. FirstRounds(g, M, cw2, col2, k)
  <2>1. FirstRounds(g, M, cw2, col2, k2)
    <3>1. k2 \in Nat
      BY <1>1
    <3> HIDE DEF k2
    <3> QED BY <3>1, RoundsExist
  <2> QED BY <1>1, <2>1
<1> HIDE DEF f, g, k, k2
<1> DEFINE C == {i \in 0 .. k : Carried(m, sigma, W, f[i], g[i])}
<1>5. 0 \in C
  <2>1. f[0] = [rounds |-> 0, words |-> cw, columns |-> col, stable |-> FALSE]
        /\ g[0] = [rounds |-> 0, words |-> cw2, columns |-> col2, stable |-> FALSE]
    BY <1>1, <1>3, <1>4 DEF FirstRounds
  <2>2. Carried(m, sigma, W, f[0], g[0])
    BY <2>1 DEF Carried
  <2> QED BY <1>1, <2>2
<1>6. ASSUME NEW i \in 0 .. k, i > 0, i - 1 \in C PROVE i \in C
  <2>1. i # 0
    BY <1>6
  <2>2. f[i] = IF f[i - 1].stable THEN f[i - 1] ELSE Round(W, f[i - 1])
    BY <1>3, <2>1 DEF FirstRounds
  <2>3. g[i] = IF g[i - 1].stable THEN g[i - 1] ELSE Round(M, g[i - 1])
    BY <1>4, <2>1 DEF FirstRounds
  <2> DEFINE s == f[i - 1]
             t == g[i - 1]
  <2>4. Carried(m, sigma, W, s, t)
    BY <1>6
  <2> HIDE DEF s, t
  <2>5. Carried(m, sigma, W, Round(W, s), Round(M, t))
    BY <2>4, RoundCarried
  <2>6. t.stable = s.stable
    BY <2>4 DEF Carried
  <2>7. Carried(m, sigma, W, f[i], g[i])
    <3> HIDE DEF M
    <3> QED BY <2>2, <2>3, <2>4, <2>5, <2>6 DEF s, t
  <2> QED BY <2>7
<1>7. C \subseteq 0 .. k
  OBVIOUS
<1>8. 0 <= k /\ k \in 0 .. k
  BY <1>1
<1>9. \A i \in 0 .. k : i > 0 /\ i - 1 \in C => i \in C
  BY <1>6
<1>10. 0 .. k \subseteq C
  <2> HIDE DEF C
  <2> QED BY <1>1, <1>5, <1>7, <1>8, <1>9, RangeInduction
<1>11. Carried(m, sigma, W, f[k], g[k])
  BY <1>8, <1>10
<1> QED BY <1>1, <1>2, <1>11

(* The signature of an arranged code is that of the code.                    *)
LEMMA MovedWlSignature ==
  ASSUME NEW m \in Nat, NEW sigma \in ColumnOrders(m), NEW W, W \subseteq SUBSET (0 .. m - 1), NEW mode
  PROVE  WlSignature(WlRefine(MovedSet(W, sigma), mode, m)) = WlSignature(WlRefine(W, mode, m))
<1> DEFINE M == MovedSet(W, sigma)
           J == 0 .. m - 1
<1>1. M = {} <=> W = {}
  BY DEF MovedSet
<1>2. CASE W = {} \/ m = 0
  BY <1>1, <1>2 DEF WlRefine
<1>3. CASE ~ (W = {} \/ m = 0)
  <2> DEFINE cw == WordColours(W, mode)
             cw2 == WordColours(M, mode)
             col == ColumnColours(W, mode, m)
             col2 == ColumnColours(M, mode, m)
  <2>1. WlRefine(W, mode, m) = Rounds(W, cw, col) /\ WlRefine(M, mode, m) = Rounds(M, cw2, col2)
    BY <1>1, <1>3 DEF WlRefine
  <2>2. DOMAIN cw = W /\ DOMAIN cw2 = M /\ DOMAIN col = J /\ DOMAIN col2 = J
    BY DEF WordColours, ColumnColours
  <2>3. ASSUME NEW w \in W PROVE cw2[Permuted(w, sigma)] = cw[w]
    <3>1. Permuted(w, sigma) \in M
      BY DEF MovedSet
    <3>2. Stratum(M, Permuted(w, sigma)) = Stratum(W, w)
      BY MovedStratum
    <3> QED BY <3>1, <3>2 DEF WordColours
  <2>4. ASSUME NEW j \in J PROVE col2[sigma[j]] = col[j]
    <3>1. sigma[j] \in J
      BY PermutationIs
    <3>2. DegreeIn(M, sigma[j]) = DegreeIn(W, j)
      BY MovedDegree
    <3>3. WeightsOf(M) = WeightsOf(W)
      BY MovedStratum
    <3>4. \A V : ColumnColours(V, mode, m) =
                 [i \in J |-> IF mode = "Vanilla" THEN 1 ELSE Cardinality(WeightsOf(V)) + DegreeIn(V, i)]
      BY DEF ColumnColours, WeightsOf
    <3> HIDE DEF M
    <3> QED BY <3>1, <3>2, <3>3, <3>4
  <2> DEFINE s == Rounds(W, cw, col)
             t == Rounds(M, cw2, col2)
  <2>5. Carried(m, sigma, W, s, t)
    <3> HIDE DEF cw, cw2, col, col2
    <3> QED BY <2>2, <2>3, <2>4, RoundsCarried
  <2> HIDE DEF s, t
  <2>6. SameTallies(s, t)
    BY <2>5, CarriedTallies
  <2>7. Tally(s.words) = Tally(t.words) /\ Tally(s.columns) = Tally(t.columns) /\ s.rounds = t.rounds
    BY <2>5, <2>6 DEF Carried, SameTallies
  <2> QED BY <2>1, <2>7 DEF WlSignature, s, t
<1> QED BY <1>2, <1>3

(* What the experiment computes for an arrangement of a code is what it      *)
(* computes for the code.                                                    *)
LEMMA MovedInvariants ==
  ASSUME NEW m \in Nat, NEW sigma \in ColumnOrders(m), NEW C, C \subseteq SUBSET (0 .. m - 1)
  PROVE  ComputeAllInvariants(MovedSet(C, sigma), m) = ComputeAllInvariants(C, m)
<1> DEFINE M == MovedSet(C, sigma)
           F == FullCodewords(C)
           G == GminWords(C, m)
           L == LowWeightCodewords(C, m)
           F2 == FullCodewords(M)
           G2 == GminWords(M, m)
           L2 == LowWeightCodewords(M, m)
<1>1. F2 = MovedSet(F, sigma) /\ G2 = MovedSet(G, sigma) /\ L2 = MovedSet(L, sigma)
  BY MovedLightWords, MovedGraphWords
<1>2. F \subseteq SUBSET (0 .. m - 1) /\ G \subseteq SUBSET (0 .. m - 1)
  BY GraphWordsWithin
<1>3. ComputeAllInvariants(C, m) =
        [wl_min_vanilla  |-> WlSignature(WlRefine(G, "Vanilla", m)),
         wl_min_degree   |-> WlSignature(WlRefine(G, "DegreeAndWeight", m)),
         wl_full_vanilla |-> WlSignature(WlRefine(F, "Vanilla", m)),
         wl_full_degree  |-> WlSignature(WlRefine(F, "DegreeAndWeight", m)),
         t11_full |-> T11(F, m, Weights),
         t11_gmin |-> T11(G, m, GminWeights),
         t12      |-> T12(F),
         t13      |-> T13(F, m, Weights),
         t13_min  |-> T13(F, m, {MinWeight(F)}),
         fallback |-> L = {},
         l_min |-> Cardinality(G), l_full |-> Cardinality(F)]
  BY DEF ComputeAllInvariants
<1>4. ComputeAllInvariants(M, m) =
        [wl_min_vanilla  |-> WlSignature(WlRefine(G2, "Vanilla", m)),
         wl_min_degree   |-> WlSignature(WlRefine(G2, "DegreeAndWeight", m)),
         wl_full_vanilla |-> WlSignature(WlRefine(F2, "Vanilla", m)),
         wl_full_degree  |-> WlSignature(WlRefine(F2, "DegreeAndWeight", m)),
         t11_full |-> T11(F2, m, Weights),
         t11_gmin |-> T11(G2, m, GminWeights),
         t12      |-> T12(F2),
         t13      |-> T13(F2, m, Weights),
         t13_min  |-> T13(F2, m, {MinWeight(F2)}),
         fallback |-> L2 = {},
         l_min |-> Cardinality(G2), l_full |-> Cardinality(F2)]
  BY DEF ComputeAllInvariants
<1> HIDE DEF M, F, G, L, F2, G2, L2
<1>5. \A mode : /\ WlSignature(WlRefine(F2, mode, m)) = WlSignature(WlRefine(F, mode, m))
                /\ WlSignature(WlRefine(G2, mode, m)) = WlSignature(WlRefine(G, mode, m))
  BY <1>1, <1>2, MovedWlSignature
<1>6. \A weights : /\ T11(F2, m, weights) = T11(F, m, weights)
                   /\ T11(G2, m, weights) = T11(G, m, weights)
                   /\ T13(F2, m, weights) = T13(F, m, weights)
  <2>1. \A weights : T11(F2, m, weights) = T11(F, m, weights)
    BY <1>1, <1>2, MovedT11
  <2>2. \A weights : T11(G2, m, weights) = T11(G, m, weights)
    BY <1>1, <1>2, MovedT11
  <2>3. \A weights : T13(F2, m, weights) = T13(F, m, weights)
    BY <1>1, <1>2, MovedT13
  <2> QED BY <2>1, <2>2, <2>3
<1>7. T12(F2) = T12(F) /\ MinWeight(F2) = MinWeight(F)
  BY <1>1, <1>2, MovedT12, MovedMinWeight
<1>8. L2 = {} <=> L = {}
  BY <1>1 DEF MovedSet
<1>9. Cardinality(F2) = Cardinality(F) /\ Cardinality(G2) = Cardinality(G)
  BY <1>1, <1>2, MovedFacts
<1>10. (L2 = {}) = (L = {})
  BY <1>8
<1>11. /\ T11(F2, m, Weights) = T11(F, m, Weights)
       /\ T11(G2, m, GminWeights) = T11(G, m, GminWeights)
       /\ T13(F2, m, Weights) = T13(F, m, Weights)
       /\ T13(F2, m, {MinWeight(F2)}) = T13(F, m, {MinWeight(F)})
  BY <1>6, <1>7
<1>12. ComputeAllInvariants(M, m) = ComputeAllInvariants(C, m)
  BY <1>3, <1>4, <1>5, <1>7, <1>9, <1>10, <1>11
<1> QED BY <1>12 DEF M

(* The invariants found are those of the code at hand.                       *)
DigestsAre ==
  backend = "invariants" /\ digests # <<>> => digests = ComputeAllInvariants(code, n)

(* Whatever classes the experiment takes and however their columns are       *)
(* arranged: equivalent codes agree in every invariant, so that two codes    *)
(* which differ in one of them really are inequivalent.                      *)
THEOREM EquivalentCodesAgree == BackendSpec => []InvariantsOfClassAgree
<1>1. BackendInit => DigestsAre
  BY DEF BackendInit, AuditInit, DigestsAre
<1>2. DigestsAre /\ [BackendNext]_backendVars => DigestsAre'
  <2> SUFFICES ASSUME DigestsAre, [BackendNext]_backendVars, backend' = "invariants" PROVE DigestsAre'
    BY DEF DigestsAre
  <2>1. backend = "invariants"
    BY DEF BackendNext, ViaKernel, ViaFeulner, ViaVerifier, ViaInvariants, backendVars
  <2>2. CASE UNCHANGED backendVars
    BY <2>2 DEF DigestsAre, backendVars, onlyInvariants
  <2>3. CASE Compute
    BY <2>3 DEF DigestsAre, Compute
  <2> QED BY <2>1, <2>2, <2>3 DEF BackendNext, ViaKernel, ViaFeulner, ViaVerifier, ViaInvariants
<1>3. AuditInput /\ DigestsAre => InvariantsOfClassAgree
  <2> SUFFICES ASSUME AuditInput, DigestsAre, backend = "invariants", digests # <<>>
               PROVE  digests = ComputeAllInvariants(class, n)
    BY DEF InvariantsOfClassAgree, InvariantsAgree
  <2>1. digests = ComputeAllInvariants(code, n)
    BY DEF DigestsAre
  <2>2. n \in Nat /\ class \subseteq SUBSET (0 .. n - 1)
    BY ArrangementIs DEF IsCode
  <2>3. PICK sigma \in ColumnOrders(n) : code = MovedSet(class, sigma)
    BY ArrangementIs
  <2>4. ComputeAllInvariants(MovedSet(class, sigma), n) = ComputeAllInvariants(class, n)
    BY <2>2, <2>3, MovedInvariants
  <2> QED BY <2>1, <2>3, <2>4
<1>4. BackendSpec => []DigestsAre
  BY <1>1, <1>2, PTL DEF BackendSpec
<1> QED BY <1>3, <1>4, AuditInputKept, PTL

-----------------------------------------------------------------------------
(* Permutations of the columns, and the groups they generate.                *)

LEMMA SamePermutation ==
  ASSUME NEW m \in Nat, NEW p \in [0 .. m - 1 -> 0 .. m - 1], NEW q \in [0 .. m - 1 -> 0 .. m - 1],
         \A j \in 0 .. m - 1 : p[j] = q[j]
  PROVE  p = q
OBVIOUS

LEMMA PermutationsFinite ==
  ASSUME NEW m \in Nat
  PROVE  /\ IsFiniteSet([0 .. m - 1 -> 0 .. m - 1]) /\ IsFiniteSet(ColumnOrders(m))
         /\ ColumnOrders(m) \subseteq [0 .. m - 1 -> 0 .. m - 1]
<1> DEFINE D == 0 .. m - 1
           A == [D -> D]
           T == SUBSET (D \X D)
           g == [p \in A |-> {<<x, p[x]>> : x \in D}]
<1>1. IsFiniteSet(T)
  BY CoordinatesFinite, FS_Product, FS_SUBSET
<1>2. \A p \in A : g[p] \in T
  OBVIOUS
<1>3. ASSUME NEW p \in A, NEW q \in A, g[p] = g[q] PROVE p = q
  <2>1. \A x \in D : <<x, p[x]>> \in g[p]
    OBVIOUS
  <2>2. \A x \in D : <<x, p[x]>> \in {<<y, q[y]>> : y \in D}
    BY <1>3, <2>1
  <2>3. \A x \in D : p[x] = q[x]
    BY <2>2
  <2> QED BY <2>3
<1>4. g \in Injection(A, T)
  <2>1. g \in [A -> T]
    BY <1>2
  <2> HIDE DEF g, A, T
  <2> QED BY <1>3, <2>1 DEF Injection, IsInjective
<1>5. IsFiniteSet(A)
  <2> HIDE DEF g, A, T
  <2> QED BY <1>1, <1>4, FS_Injection
<1>6. ColumnOrders(m) \subseteq A
  BY PermutationIs
<1> QED BY <1>5, <1>6, FS_Subset

LEMMA IdentityIs ==
  ASSUME NEW m \in Nat
  PROVE  Identity(m) \in ColumnOrders(m) /\ \A j \in 0 .. m - 1 : Identity(m)[j] = j
BY PermutationIs DEF Identity

LEMMA ComposeIs ==
  ASSUME NEW m \in Nat, NEW p \in [0 .. m - 1 -> 0 .. m - 1], NEW q \in [0 .. m - 1 -> 0 .. m - 1]
  PROVE  /\ Compose(p, q) \in [0 .. m - 1 -> 0 .. m - 1]
         /\ \A j \in 0 .. m - 1 : Compose(p, q)[j] = p[q[j]]
         /\ p \in ColumnOrders(m) /\ q \in ColumnOrders(m) => Compose(p, q) \in ColumnOrders(m)
<1>1. /\ Compose(p, q) \in [0 .. m - 1 -> 0 .. m - 1]
      /\ \A j \in 0 .. m - 1 : Compose(p, q)[j] = p[q[j]]
  BY DEF Compose
<1>2. ASSUME p \in ColumnOrders(m), q \in ColumnOrders(m) PROVE Compose(p, q) \in ColumnOrders(m)
  <2>1. /\ \A i, j \in 0 .. m - 1 : p[i] = p[j] => i = j
        /\ \A i, j \in 0 .. m - 1 : q[i] = q[j] => i = j
    BY <1>2, PermutationIs
  <2>2. \A i, j \in 0 .. m - 1 : Compose(p, q)[i] = Compose(p, q)[j] => i = j
    BY <1>1, <2>1
  <2> QED BY <1>1, <2>2, PermutationIs
<1> QED BY <1>1, <1>2

LEMMA InverseIs ==
  ASSUME NEW m \in Nat, NEW p \in ColumnOrders(m)
  PROVE  /\ InverseOf(p) \in ColumnOrders(m)
         /\ \A j \in 0 .. m - 1 : InverseOf(p)[p[j]] = j /\ p[InverseOf(p)[j]] = j
<1> DEFINE D == 0 .. m - 1
           q == InverseOf(p)
<1>1. p \in [D -> D] /\ \A i, j \in D : p[i] = p[j] => i = j
  BY PermutationIs
<1>2. \A j \in D : \E i \in D : p[i] = j
  BY PermutationOnto
<1>3. \A j \in D : q[j] = CHOOSE i \in D : p[i] = j
  BY <1>1 DEF InverseOf
<1>4. q \in [D -> D] /\ \A j \in D : p[q[j]] = j
  <2>1. \A j \in D : q[j] \in D /\ p[q[j]] = j
    BY <1>2, <1>3
  <2>2. q = [j \in D |-> q[j]]
    BY <1>1 DEF InverseOf
  <2> HIDE DEF q, D
  <2> QED BY <2>1, <2>2
<1> HIDE DEF q
<1>5. \A j \in D : q[p[j]] = j
  BY <1>1, <1>4
<1>6. \A i, j \in D : q[i] = q[j] => i = j
  BY <1>4
<1>7. q \in ColumnOrders(m)
  BY <1>4, <1>6, PermutationIs
<1> QED BY <1>4, <1>5, <1>7 DEF q

(* Three permutations may be bracketed either way, and inverses cancel.      *)
LEMMA ComposeLaws ==
  ASSUME NEW m \in Nat, NEW p \in ColumnOrders(m), NEW q \in ColumnOrders(m), NEW r \in ColumnOrders(m)
  PROVE  /\ Compose(Compose(p, q), r) = Compose(p, Compose(q, r))
         /\ Compose(Identity(m), p) = p /\ Compose(p, Identity(m)) = p
         /\ Compose(InverseOf(p), p) = Identity(m) /\ Compose(p, InverseOf(p)) = Identity(m)
<1> DEFINE D == 0 .. m - 1
           e == Identity(m)
           v == InverseOf(p)
<1>1. p \in [D -> D] /\ q \in [D -> D] /\ r \in [D -> D] /\ e \in [D -> D] /\ v \in [D -> D]
  BY IdentityIs, InverseIs, PermutationIs
<1>2. \A s, t \in [D -> D] : Compose(s, t) \in [D -> D] /\ \A j \in D : Compose(s, t)[j] = s[t[j]]
  BY ComposeIs
<1>3. \A j \in D : e[j] = j /\ v[p[j]] = j /\ p[v[j]] = j
  BY IdentityIs, InverseIs
<1>4. \A s, t \in [D -> D] : (\A j \in D : s[j] = t[j]) => s = t
  OBVIOUS
<1> HIDE DEF D, e, v
<1>5. Compose(Compose(p, q), r) = Compose(p, Compose(q, r))
  <2> DEFINE pq == Compose(p, q)
             qr == Compose(q, r)
  <2>0. pq \in [D -> D] /\ qr \in [D -> D] /\ \A j \in D : pq[j] = p[q[j]] /\ qr[j] = q[r[j]]
    BY <1>1, <1>2
  <2> HIDE DEF pq, qr
  <2>1. \A j \in D : Compose(pq, r)[j] = Compose(p, qr)[j]
    <3>1. \A j \in D : Compose(pq, r)[j] = pq[r[j]] /\ Compose(p, qr)[j] = p[qr[j]] /\ r[j] \in D
      BY <1>1, <1>2, <2>0
    <3> QED BY <2>0, <3>1
  <2>2. Compose(pq, r) \in [D -> D] /\ Compose(p, qr) \in [D -> D]
    BY <1>1, <1>2, <2>0
  <2>3. Compose(pq, r) = Compose(p, qr)
    BY <1>4, <2>1, <2>2
  <2> QED BY <2>3 DEF pq, qr
<1>6. Compose(e, p) = p /\ Compose(p, e) = p
  BY <1>1, <1>2, <1>3, <1>4
<1>7. Compose(v, p) = e /\ Compose(p, v) = e
  BY <1>1, <1>2, <1>3, <1>4
<1> QED BY <1>5, <1>6, <1>7 DEF e, v

(* A loop that adds to a set what is next to it, until nothing is new, ends  *)
(* with the least set that has all that is next to its members.              *)
IsClosing(h, next, A) ==
  h = [T \in SUBSET A |-> IF next[T] \subseteq T THEN T ELSE h[T \cup next[T]]]

Monotone(next, A) ==
  /\ next \in [SUBSET A -> SUBSET A]
  /\ \A S, T \in SUBSET A : S \subseteq T => next[S] \subseteq next[T]

Closes(h, next, A, S) ==
  /\ S \subseteq h[S] /\ h[S] \in SUBSET A /\ next[h[S]] \subseteq h[S]
  /\ \A T \in SUBSET A : S \subseteq T /\ next[T] \subseteq T => h[S] \subseteq T

Around(next, A, S) ==
  {x \in A : \A T \in SUBSET A : S \subseteq T /\ next[T] \subseteq T => x \in T}

LEMMA AroundFacts ==
  ASSUME NEW A, NEW next, Monotone(next, A), NEW S \in SUBSET A
  PROVE  /\ S \subseteq Around(next, A, S) /\ Around(next, A, S) \in SUBSET A
         /\ next[Around(next, A, S)] \subseteq Around(next, A, S)
         /\ \A T \in SUBSET A : S \subseteq T /\ next[T] \subseteq T => Around(next, A, S) \subseteq T
         /\ next[S] \subseteq S => Around(next, A, S) = S
         /\ S \cup next[S] \in SUBSET A
         /\ Around(next, A, S \cup next[S]) = Around(next, A, S)
<1> DEFINE R == Around(next, A, S)
<1>1. S \subseteq R /\ R \in SUBSET A
  BY DEF Around
<1>2. \A T \in SUBSET A : S \subseteq T /\ next[T] \subseteq T => R \subseteq T
  BY DEF Around
<1>3. next \in [SUBSET A -> SUBSET A] /\ \A U, T \in SUBSET A : U \subseteq T => next[U] \subseteq next[T]
  BY DEF Monotone
<1>4. next[R] \subseteq R
  <2>1. ASSUME NEW x \in next[R], NEW T \in SUBSET A, S \subseteq T, next[T] \subseteq T PROVE x \in T
    <3>1. R \subseteq T
      BY <1>2, <2>1
    <3>2. next[R] \subseteq next[T]
      BY <1>1, <1>3, <3>1
    <3> QED BY <2>1, <3>2
  <2>2. next[R] \subseteq A
    BY <1>1, <1>3
  <2> QED BY <2>1, <2>2 DEF Around
<1>5. next[S] \subseteq S => R = S
  BY <1>1, <1>2
<1>6. S \cup next[S] \in SUBSET A
  BY <1>3
<1>7. \A T \in SUBSET A : next[T] \subseteq T => (S \subseteq T <=> S \cup next[S] \subseteq T)
  <2>1. ASSUME NEW T \in SUBSET A, next[T] \subseteq T, S \subseteq T PROVE next[S] \subseteq T
    BY <1>3, <2>1
  <2> QED BY <2>1
<1>8. Around(next, A, S \cup next[S]) = R
  BY <1>7 DEF Around
<1> QED BY <1>1, <1>2, <1>4, <1>5, <1>6, <1>8

LEMMA ClosingEnds ==
  ASSUME NEW A, IsFiniteSet(A), NEW next, Monotone(next, A)
  PROVE  /\ \E h : IsClosing(h, next, A)
         /\ \A h : IsClosing(h, next, A) => \A S \in SUBSET A : Closes(h, next, A, S)
<1> DEFINE k == [S \in SUBSET A |-> Around(next, A, S)]
           at(h, T) == IF next[T] \subseteq T THEN T ELSE h[T \cup next[T]]
<1>1. IsClosing(k, next, A)
  <2>1. ASSUME NEW T \in SUBSET A PROVE at(k, T) = Around(next, A, T)
    <3>1. T \cup next[T] \in SUBSET A /\ Around(next, A, T \cup next[T]) = Around(next, A, T)
          /\ (next[T] \subseteq T => Around(next, A, T) = T)
      BY AroundFacts
    <3> QED BY <3>1
  <2>2. k = [T \in SUBSET A |-> at(k, T)]
    <3>1. \A T \in SUBSET A : at(k, T) = Around(next, A, T)
      BY <2>1
    <3> HIDE DEF at
    <3> QED BY <3>1
  <2> HIDE DEF k
  <2> QED BY <2>2 DEF IsClosing
<1>2. ASSUME NEW h, IsClosing(h, next, A), NEW S0 \in SUBSET A PROVE Closes(h, next, A, S0)
  <2>1. \A T \in SUBSET A : h[T] = at(h, T)
    BY <1>2 DEF IsClosing
  <2> DEFINE C == {A \ S : S \in {S \in SUBSET A : h[S] # Around(next, A, S)}}
  <2>2. ASSUME C # {} PROVE FALSE
    <3>1. C \subseteq SUBSET A
      OBVIOUS
    <3>2. PICK M \in C : \A U \in C : U \subseteq M => U = M
      <4> HIDE DEF C
      <4> QED BY <2>2, <3>1, LeastSet
    <3>3. PICK S \in SUBSET A : M = A \ S /\ h[S] # Around(next, A, S)
      OBVIOUS
    <3>4. next[S] \subseteq S => Around(next, A, S) = S
      BY AroundFacts
    <3>5. ~ (next[S] \subseteq S) /\ h[S] = h[S \cup next[S]]
      BY <2>1, <3>3, <3>4
    <3>6. S \cup next[S] \in SUBSET A /\ Around(next, A, S \cup next[S]) = Around(next, A, S)
      <4> HIDE DEF C
      <4>1. S \cup next[S] \in SUBSET A
        BY AroundFacts
      <4>2. Around(next, A, S \cup next[S]) = Around(next, A, S)
        BY AroundFacts
      <4> QED BY <4>1, <4>2
    <3>7. A \ (S \cup next[S]) \in C
      BY <3>3, <3>5, <3>6
    <3>8. A \ (S \cup next[S]) \subseteq M /\ A \ (S \cup next[S]) # M
      BY <3>3, <3>5, <3>6
    <3> QED BY <3>2, <3>7, <3>8
  <2>3. h[S0] = Around(next, A, S0)
    BY <2>2
  <2> DEFINE R == Around(next, A, S0)
  <2>4. /\ S0 \subseteq R /\ R \in SUBSET A /\ next[R] \subseteq R
        /\ \A T \in SUBSET A : S0 \subseteq T /\ next[T] \subseteq T => R \subseteq T
    BY AroundFacts
  <2> HIDE DEF R
  <2> QED BY <2>3, <2>4 DEF Closes, R
<1> QED BY <1>1, <1>2

(* A set that has with every member its products with members of G.          *)
LeftClosed(T, G) == \A g \in G : \A s \in T : Compose(g, s) \in T

LEMMA ClosureFacts ==
  ASSUME NEW m \in Nat, NEW G, G \subseteq [0 .. m - 1 -> 0 .. m - 1],
         NEW S, S \subseteq [0 .. m - 1 -> 0 .. m - 1]
  PROVE  /\ S \subseteq Closure(S, G, m) /\ Closure(S, G, m) \subseteq [0 .. m - 1 -> 0 .. m - 1]
         /\ LeftClosed(Closure(S, G, m), G)
         /\ \A T : S \subseteq T /\ LeftClosed(T, G) => Closure(S, G, m) \subseteq T
<1> DEFINE A == [0 .. m - 1 -> 0 .. m - 1]
           more(T) == {Compose(g, s) : g \in G, s \in T}
           next == [T \in SUBSET A |-> more(T)]
           h == CHOOSE h : h = [T \in SUBSET A |-> IF more(T) \subseteq T THEN T ELSE h[T \cup more(T)]]
<1>1. Closure(S, G, m) = h[S]
  BY DEF Closure
<1>2. \A p, q \in A : Compose(p, q) \in A
  BY ComposeIs
<1>3. IsFiniteSet(A) /\ S \subseteq A /\ G \subseteq A
  BY PermutationsFinite
<1> HIDE DEF A
<1>4. Monotone(next, A)
  <2>1. \A T \in SUBSET A : more(T) \in SUBSET A
    BY <1>2, <1>3
  <2>2. \A U, T : U \subseteq T => more(U) \subseteq more(T)
    OBVIOUS
  <2> HIDE DEF more
  <2> QED BY <2>1, <2>2 DEF Monotone
<1>5. \A f : IsClosing(f, next, A) <=>
             f = [T \in SUBSET A |-> IF more(T) \subseteq T THEN T ELSE f[T \cup more(T)]]
  <2>1. \A T \in SUBSET A : next[T] = more(T)
    OBVIOUS
  <2> HIDE DEF next, more
  <2>2. ASSUME NEW f
        PROVE  [T \in SUBSET A |-> IF next[T] \subseteq T THEN T ELSE f[T \cup next[T]]]
                 = [T \in SUBSET A |-> IF more(T) \subseteq T THEN T ELSE f[T \cup more(T)]]
    BY <2>1
  <2> QED BY <2>2 DEF IsClosing
<1>6. IsClosing(h, next, A)
  <2>1. \E f : IsClosing(f, next, A)
    <3> HIDE DEF next
    <3> QED BY <1>3, <1>4, ClosingEnds
  <2>2. \E f : f = [T \in SUBSET A |-> IF more(T) \subseteq T THEN T ELSE f[T \cup more(T)]]
    <3> HIDE DEF next, more
    <3> QED BY <1>5, <2>1
  <2>3. h = [T \in SUBSET A |-> IF more(T) \subseteq T THEN T ELSE h[T \cup more(T)]]
    <3> HIDE DEF next, more
    <3> QED BY <2>2
  <2> HIDE DEF next, more, h
  <2> QED BY <1>5, <2>3
<1>7. Closes(h, next, A, S)
  <2> HIDE DEF next, h
  <2> QED BY <1>3, <1>4, <1>6, ClosingEnds
<1>8. S \subseteq h[S] /\ h[S] \in SUBSET A /\ next[h[S]] \subseteq h[S]
      /\ \A T \in SUBSET A : S \subseteq T /\ next[T] \subseteq T => h[S] \subseteq T
  <2> HIDE DEF next, h
  <2> QED BY <1>7 DEF Closes
<1> DEFINE H == h[S]
<1> HIDE DEF h
<1>9. LeftClosed(H, G)
  <2>0. \A T \in SUBSET A : next[T] = more(T)
    <3> HIDE DEF more
    <3> QED OBVIOUS
  <2>1. more(H) \subseteq H
    <3> HIDE DEF next, more
    <3>1. H \in SUBSET A /\ next[H] \subseteq H
      BY <1>8
    <3> HIDE DEF H
    <3> QED BY <2>0, <3>1
  <2> HIDE DEF H
  <2> QED BY <2>1 DEF LeftClosed
<1>10. ASSUME NEW T, S \subseteq T, LeftClosed(T, G) PROVE H \subseteq T
  <2> DEFINE U == T \cap A
  <2>1. U \in SUBSET A /\ S \subseteq U
    BY <1>3, <1>10
  <2>2. more(U) \subseteq U
    BY <1>2, <1>3, <1>10 DEF LeftClosed
  <2>3. next[U] \subseteq U
    BY <2>1, <2>2
  <2>4. H \subseteq U
    <3> HIDE DEF U, next, H
    <3> QED BY <1>8, <2>1, <2>3 DEF H
  <2> QED BY <2>4
<1> QED BY <1>1, <1>8, <1>9, <1>10 DEF A

(* A group of permutations of m columns.                                     *)
IsGroup(H, m) ==
  /\ H \subseteq ColumnOrders(m) /\ Identity(m) \in H
  /\ \A p, q \in H : Compose(p, q) \in H
  /\ \A p \in H : InverseOf(p) \in H

(* A finite set of permutations that is closed under products is a group.    *)
LEMMA ProductsMakeGroup ==
  ASSUME NEW m \in Nat, NEW H, H \subseteq ColumnOrders(m), Identity(m) \in H,
         \A p, q \in H : Compose(p, q) \in H
  PROVE  IsGroup(H, m)
<1>1. ASSUME NEW p \in H PROVE InverseOf(p) \in H
  <2> DEFINE f == [q \in H |-> Compose(p, q)]
  <2>1. f \in [H -> H]
    OBVIOUS
  <2>2. \A q \in H : Compose(InverseOf(p), Compose(p, q)) = q
    <3> SUFFICES ASSUME NEW q \in H PROVE Compose(InverseOf(p), Compose(p, q)) = q
      OBVIOUS
    <3>1. p \in ColumnOrders(m) /\ q \in ColumnOrders(m) /\ InverseOf(p) \in ColumnOrders(m)
      BY InverseIs
    <3>2. Compose(Compose(InverseOf(p), p), q) = Compose(InverseOf(p), Compose(p, q))
      BY <3>1, ComposeLaws
    <3>3. Compose(InverseOf(p), p) = Identity(m) /\ Compose(Identity(m), q) = q
      BY <3>1, ComposeLaws
    <3> QED BY <3>2, <3>3
  <2>3. \A q, r \in H : f[q] = f[r] => q = r
    <3>1. \A q, r \in H : Compose(p, q) = Compose(p, r) => q = r
      BY <2>2
    <3> QED BY <3>1
  <2> HIDE DEF f
  <2>4. f \in Injection(H, H) /\ IsFiniteSet(H)
    <3>1. IsFiniteSet(ColumnOrders(m))
      BY PermutationsFinite
    <3> QED BY <2>1, <2>3, <3>1, FS_Subset DEF Injection, IsInjective
  <2>5. f \in Surjection(H, H)
    BY <2>4, FS_Injection
  <2>6. PICK q \in H : f[q] = Identity(m)
    BY <2>5 DEF Surjection
  <2>7. Compose(p, q) = Identity(m)
    BY <2>6 DEF f
  <2>8. Compose(InverseOf(p), Identity(m)) = q
    BY <2>2, <2>7
  <2>9. Compose(InverseOf(p), Identity(m)) = InverseOf(p)
    <3>1. InverseOf(p) \in ColumnOrders(m)
      BY InverseIs
    <3> QED BY <3>1, ComposeLaws
  <2> QED BY <2>8, <2>9
<1> QED BY <1>1 DEF IsGroup

(* What permutations generate is the least group that holds them.            *)
LEMMA GeneratedFacts ==
  ASSUME NEW m \in Nat, NEW G, G \subseteq ColumnOrders(m)
  PROVE  /\ IsGroup(Generated(G, m), m) /\ G \subseteq Generated(G, m)
         /\ \A T : Identity(m) \in T /\ LeftClosed(T, G) => Generated(G, m) \subseteq T
<1> DEFINE e == Identity(m)
           H == Generated(G, m)
           A == [0 .. m - 1 -> 0 .. m - 1]
           CO == ColumnOrders(m)
<1>1. CO \subseteq A /\ e \in CO
  BY PermutationsFinite, IdentityIs
<1>2. /\ e \in H /\ H \subseteq A /\ LeftClosed(H, G)
      /\ \A T : e \in T /\ LeftClosed(T, G) => H \subseteq T
  <2> DEFINE S == {e}
  <2>1. S \subseteq A /\ G \subseteq A
    BY <1>1
  <2> HIDE DEF S
  <2>2. /\ S \subseteq Closure(S, G, m) /\ Closure(S, G, m) \subseteq A
        /\ LeftClosed(Closure(S, G, m), G)
        /\ \A T : S \subseteq T /\ LeftClosed(T, G) => Closure(S, G, m) \subseteq T
    BY <2>1, ClosureFacts
  <2>3. Closure(S, G, m) = H
    BY DEF S, Generated
  <2> QED BY <2>2, <2>3 DEF S
<1>3. H \subseteq CO
  <2>1. LeftClosed(CO, G)
    BY <1>1, ComposeIs DEF LeftClosed
  <2> QED BY <1>1, <1>2, <2>1
<1> HIDE DEF H, e, CO, A
<1>4. G \subseteq H
  <2>1. \A g \in G : Compose(g, e) \in H /\ Compose(g, e) = g
    BY <1>2, ComposeLaws DEF LeftClosed, e, CO
  <2> QED BY <2>1
<1>5. ASSUME NEW p \in H, NEW q \in H PROVE Compose(p, q) \in H
  <2> DEFINE T == {s \in CO : Compose(s, q) \in H}
  <2>1. e \in T
    <3>1. Compose(e, q) = q
      BY <1>3, ComposeLaws DEF e, CO
    <3> QED BY <1>1, <3>1
  <2>2. LeftClosed(T, G)
    <3> SUFFICES ASSUME NEW g \in G, NEW s \in T PROVE Compose(g, s) \in T
      BY DEF LeftClosed
    <3>1. g \in CO /\ s \in CO /\ q \in CO
      BY <1>3 DEF CO
    <3>2. Compose(Compose(g, s), q) = Compose(g, Compose(s, q))
      BY <3>1, ComposeLaws DEF CO
    <3>3. Compose(g, s) \in CO
      BY <1>1, <3>1, ComposeIs DEF CO, A
    <3>4. Compose(g, Compose(s, q)) \in H
      BY <1>2 DEF LeftClosed
    <3> QED BY <3>2, <3>3, <3>4
  <2>3. H \subseteq T
    <3> HIDE DEF T
    <3> QED BY <1>2, <2>1, <2>2
  <2> QED BY <2>3
<1>6. IsGroup(H, m)
  BY <1>2, <1>3, <1>5, ProductsMakeGroup DEF e, CO
<1> QED BY <1>2, <1>4, <1>6 DEF e, H

(* Members that generate lie in the group, and so does what they generate.   *)
LEMMA GeneratedWithin ==
  ASSUME NEW m \in Nat, NEW H, IsGroup(H, m), NEW G, G \subseteq H
  PROVE  G \subseteq ColumnOrders(m) /\ Generated(G, m) \subseteq H
<1>1. G \subseteq ColumnOrders(m) /\ Identity(m) \in H /\ LeftClosed(H, G)
  BY DEF IsGroup, LeftClosed
<1> QED BY <1>1, GeneratedFacts

(* One more generator, added to all that the others generate.                *)
LEMMA GeneratedGrows ==
  ASSUME NEW m \in Nat, NEW G, G \subseteq ColumnOrders(m), NEW g \in ColumnOrders(m)
  PROVE  Closure(Generated(G, m), Generated(G, m) \cup {g}, m) = Generated(G \cup {g}, m)
<1> DEFINE H == Generated(G, m)
           K == H \cup {g}
           B == G \cup {g}
           A == [0 .. m - 1 -> 0 .. m - 1]
<1>1. /\ IsGroup(H, m) /\ G \subseteq H
      /\ \A T : Identity(m) \in T /\ LeftClosed(T, G) => H \subseteq T
  BY GeneratedFacts
<1>2. B \subseteq ColumnOrders(m)
  OBVIOUS
<1>3. /\ IsGroup(Generated(B, m), m) /\ B \subseteq Generated(B, m)
      /\ \A T : Identity(m) \in T /\ LeftClosed(T, B) => Generated(B, m) \subseteq T
  <2> HIDE DEF B
  <2> QED BY <1>2, GeneratedFacts
<1>4. H \subseteq A /\ K \subseteq A
  BY <1>1, PermutationsFinite DEF IsGroup
<1> HIDE DEF H, A
<1>5. /\ H \subseteq Closure(H, K, m) /\ LeftClosed(Closure(H, K, m), K)
      /\ \A T : H \subseteq T /\ LeftClosed(T, K) => Closure(H, K, m) \subseteq T
  <2> HIDE DEF K
  <2> QED BY <1>4, ClosureFacts DEF A
<1>6. Closure(H, K, m) \subseteq Generated(B, m)
  <2>1. H \subseteq Generated(B, m)
    <3>1. Identity(m) \in Generated(B, m) /\ LeftClosed(Generated(B, m), G)
      BY <1>3 DEF IsGroup, LeftClosed
    <3> QED BY <1>1, <3>1
  <2>2. K \subseteq Generated(B, m)
    BY <1>3, <2>1
  <2>3. LeftClosed(Generated(B, m), K)
    BY <1>3, <2>2 DEF IsGroup, LeftClosed
  <2> QED BY <1>5, <2>1, <2>3
<1>7. Generated(B, m) \subseteq Closure(H, K, m)
  <2>1. Identity(m) \in Closure(H, K, m)
    BY <1>1, <1>5 DEF IsGroup
  <2>2. LeftClosed(Closure(H, K, m), B)
    BY <1>1, <1>5 DEF LeftClosed
  <2> QED BY <1>3, <2>1, <2>2
<1> QED BY <1>6, <1>7 DEF H

(* The automorphisms of a set of words.                                      *)
MovesTwice(W, p, q) == MovedSet(MovedSet(W, q), p) = MovedSet(W, Compose(p, q))

LEMMA MovedTwice ==
  ASSUME NEW m \in Nat, NEW p \in ColumnOrders(m), NEW q \in ColumnOrders(m),
         NEW W, W \subseteq SUBSET (0 .. m - 1)
  PROVE  MovesTwice(W, p, q) /\ MovedSet(W, Identity(m)) = W
<1> DEFINE D == 0 .. m - 1
           pq == Compose(p, q)
           e == Identity(m)
<1>1. p \in [D -> D] /\ q \in [D -> D] /\ \A j \in D : e[j] = j
  BY PermutationIs, IdentityIs
<1>2. \A j \in D : pq[j] = p[q[j]]
  <2>1. \A s, t \in [D -> D] : \A j \in D : Compose(s, t)[j] = s[t[j]]
    BY ComposeIs
  <2> HIDE DEF D
  <2> QED BY <1>1, <2>1
<1> HIDE DEF pq, e, D
<1>3. ASSUME NEW w \in SUBSET D
      PROVE  Permuted(Permuted(w, q), p) = Permuted(w, pq) /\ Permuted(w, e) = w
  <2>1. {e[j] : j \in w} = w
    BY <1>1
  <2>2. {p[h] : h \in {q[j] : j \in w}} = {pq[j] : j \in w}
    BY <1>2
  <2> QED BY <2>1, <2>2 DEF Permuted
<1>4. MovedSet(W, e) = W
  BY <1>3 DEF MovedSet, D
<1>5. MovedSet(MovedSet(W, q), p) = MovedSet(W, pq)
  <2>1. \A w \in W : Permuted(Permuted(w, q), p) = Permuted(w, pq)
    BY <1>3 DEF D
  <2>2. {Permuted(v, p) : v \in {Permuted(w, q) : w \in W}} = {Permuted(w, pq) : w \in W}
    BY <2>1
  <2> QED BY <2>2 DEF MovedSet
<1> QED BY <1>4, <1>5 DEF pq, e, MovesTwice

LEMMA AutIsGroup ==
  ASSUME NEW m \in Nat, NEW W, W \subseteq SUBSET (0 .. m - 1)
  PROVE  IsGroup(AutOf(W, m), m)
<1> DEFINE CO == ColumnOrders(m)
<1>1. AutOf(W, m) = {p \in CO : MovedSet(W, p) = W}
  BY DEF AutOf
<1>2. ASSUME NEW p \in CO, NEW q \in CO
      PROVE  MovedSet(MovedSet(W, q), p) = MovedSet(W, Compose(p, q))
  <2>1. MovesTwice(W, p, q)
    BY MovedTwice
  <2> QED BY <2>1 DEF MovesTwice
<1>3. Identity(m) \in CO /\ MovedSet(W, Identity(m)) = W
  BY IdentityIs, MovedTwice
<1>4. \A p, q \in CO : Compose(p, q) \in CO
  BY ComposeIs, PermutationIs
<1> HIDE DEF CO
<1>5. \A p, q \in AutOf(W, m) : Compose(p, q) \in AutOf(W, m)
  BY <1>1, <1>2, <1>4
<1>6. AutOf(W, m) \subseteq ColumnOrders(m) /\ Identity(m) \in AutOf(W, m)
  BY <1>1, <1>3 DEF CO
<1> QED BY <1>5, <1>6, ProductsMakeGroup

(* Two columns have the same least image exactly if a member takes one to    *)
(* the other.                                                                *)
LeastImage(H, j) == Min({p[j] : p \in H})

LEMMA LeastImages ==
  ASSUME NEW m \in Nat, NEW H, IsGroup(H, m), NEW i \in 0 .. m - 1, NEW j \in 0 .. m - 1
  PROVE  /\ LeastImage(H, i) \in 0 .. m - 1
         /\ LeastImage(H, i) = LeastImage(H, j) <=> \E p \in H : p[i] = j
<1> DEFINE D == 0 .. m - 1
           images(h) == {p[h] : p \in H}
<1>1. /\ \A p \in H : p \in [D -> D] /\ p \in ColumnOrders(m)
      /\ Identity(m) \in H /\ \A h \in D : Identity(m)[h] = h
  BY PermutationIs, IdentityIs DEF IsGroup
<1>0. /\ \A p \in H : InverseOf(p) \in H
      /\ \A p, q \in H : Compose(p, q) \in H
  BY DEF IsGroup
<1>7. \A p, q \in H : \A h \in D : Compose(p, q)[h] = p[q[h]]
  <2>1. \A p, q \in [D -> D] : \A h \in D : Compose(p, q)[h] = p[q[h]]
    BY ComposeIs
  <2> HIDE DEF D
  <2> QED BY <1>1, <2>1
<1>2. ASSUME NEW h \in D PROVE images(h) \subseteq D /\ Min(images(h)) \in images(h)
  <2> DEFINE S == images(h)
  <2>1. S \subseteq D /\ S # {}
    BY <1>1
  <2>2. S \subseteq Nat
    BY <2>1
  <2> HIDE DEF S
  <2>3. \E x \in S : \A y \in S : x <= y
    BY <2>1, <2>2, LeastNumber
  <2>4. Min(S) \in S
    BY <2>3 DEF Min
  <2> QED BY <2>1, <2>4 DEF S
<1>3. ASSUME NEW p \in H, p[i] = j PROVE images(i) = images(j)
  <2>1. \A h \in D : InverseOf(p)[p[h]] = h
    BY <1>1, InverseIs
  <2>2. InverseOf(p) \in H /\ InverseOf(p)[j] = i
    BY <1>3, <2>1 DEF IsGroup
  <2>3. ASSUME NEW q \in H PROVE q[i] \in images(j)
    <3>1. Compose(q, InverseOf(p)) \in H
      BY <2>2 DEF IsGroup
    <3>2. Compose(q, InverseOf(p))[j] = q[i]
      BY <1>7, <2>2
    <3> QED BY <3>1, <3>2
  <2>4. ASSUME NEW q \in H PROVE q[j] \in images(i)
    <3>1. Compose(q, p) \in H
      BY DEF IsGroup
    <3>2. Compose(q, p)[i] = q[j]
      BY <1>7, <1>3
    <3> QED BY <3>1, <3>2
  <2> QED BY <2>3, <2>4
<1>4. ASSUME Min(images(i)) = Min(images(j)) PROVE \E p \in H : p[i] = j
  <2>1. PICK p \in H : p[i] = Min(images(i))
    BY <1>2
  <2>2. PICK q \in H : q[j] = Min(images(j))
    BY <1>2
  <2>3. \A h \in D : InverseOf(q)[q[h]] = h
    BY <1>1, InverseIs
  <2>4. InverseOf(q) \in H /\ Compose(InverseOf(q), p) \in H
    BY DEF IsGroup
  <2>5. Compose(InverseOf(q), p)[i] = j
    <3>1. Compose(InverseOf(q), p)[i] = InverseOf(q)[p[i]]
      BY <1>7, <2>4
    <3> QED BY <1>4, <2>1, <2>2, <2>3, <3>1
  <2> QED BY <2>4, <2>5
<1>5. LeastImage(H, i) \in D
  BY <1>2 DEF LeastImage
<1>6. LeastImage(H, i) = LeastImage(H, j) <=> \E p \in H : p[i] = j
  BY <1>3, <1>4 DEF LeastImage
<1> QED BY <1>5, <1>6

(* The search for the orbit of b: what it has reached, and how.              *)
Reaches(s, b, G, m) ==
  /\ b \in DOMAIN s.reached /\ s.queue \subseteq DOMAIN s.reached
  /\ s.reached[b] = Identity(m)
  /\ \A q \in DOMAIN s.reached : s.reached[q] \in Generated(G, m) /\ s.reached[q][b] = q
  /\ \A q \in DOMAIN s.reached : q \notin s.queue => \A g \in G : g[q] \in DOMAIN s.reached

Paths(m) == UNION {[X -> ColumnOrders(m)] : X \in SUBSET (0 .. m - 1)}

SearchStates(b, G, m) ==
  {s \in [queue : SUBSET (0 .. m - 1), reached : Paths(m)] : Reaches(s, b, G, m)}

SearchFirst(b, m) == [queue |-> {b}, reached |-> [q \in {b} |-> Identity(m)]]

(* A round keeps that, and reaches a new point unless its queue is empty.    *)
LEMMA SearchRound ==
  ASSUME NEW m \in Nat, NEW G, G \subseteq ColumnOrders(m), NEW b \in 0 .. m - 1,
         NEW s \in SearchStates(b, G, m)
  PROVE  /\ Search(s, G) \in SearchStates(b, G, m)
         /\ s.queue = {} => Search(s, G).queue = {}
         /\ Search(s, G).queue # {} =>
              Cardinality(DOMAIN Search(s, G).reached) >= Cardinality(DOMAIN s.reached) + 1
<1> DEFINE D == 0 .. m - 1
           CO == ColumnOrders(m)
           H == Generated(G, m)
           X == DOMAIN s.reached
           arcs == {a \in s.queue \X G : a[2][a[1]] \notin DOMAIN s.reached}
           next == {a[2][a[1]] : a \in arcs}
           step(q) == LET a == CHOOSE c \in arcs : c[2][c[1]] = q
                      IN Compose(a[2], s.reached[a[1]])
           r == [q \in X \cup next |-> IF q \in next THEN step(q) ELSE s.reached[q]]
           t == Search(s, G)
<1>1. s.queue \subseteq X /\ s.reached \in Paths(m) /\ X \subseteq D /\ s.reached \in [X -> CO]
  <2>1. s.queue \subseteq X /\ s.reached \in Paths(m)
    BY DEF SearchStates, Reaches
  <2>2. PICK Y \in SUBSET D : s.reached \in [Y -> CO]
    BY <2>1 DEF Paths
  <2> QED BY <2>1, <2>2
<1>2. /\ b \in X /\ s.reached[b] = Identity(m)
      /\ \A q \in X : s.reached[q] \in H /\ s.reached[q][b] = q
      /\ \A q \in X : q \notin s.queue => \A g \in G : g[q] \in X
  BY DEF SearchStates, Reaches
<1>3. IsGroup(H, m) /\ G \subseteq H
  BY GeneratedFacts
<1>4. H \subseteq CO /\ \A p, q \in H : Compose(p, q) \in H
  BY <1>3 DEF IsGroup
<1>5. \A p \in CO : p \in [D -> D]
  BY PermutationIs
<1>6. \A p, q \in CO : \A h \in D : Compose(p, q)[h] = p[q[h]]
  <2>1. \A p, q \in [D -> D] : \A h \in D : Compose(p, q)[h] = p[q[h]]
    BY ComposeIs
  <2> HIDE DEF D, CO
  <2> QED BY <1>5, <2>1
<1>0. G \subseteq CO /\ b \in D
  OBVIOUS
<1>7. t.queue = next /\ t.reached = r /\ t = [queue |-> next, reached |-> r]
  BY DEF Search
<1> HIDE DEF D, CO, H, t
<1>8. next \subseteq D /\ next \cap X = {}
  <2>1. \A a \in arcs : a[2] \in [D -> D] /\ a[1] \in D
    BY <1>0, <1>1, <1>5
  <2> QED BY <1>1, <2>1
<1>9. ASSUME NEW q \in next PROVE step(q) \in H /\ step(q)[b] = q
  <2>1. \E c \in arcs : c[2][c[1]] = q
    OBVIOUS
  <2> DEFINE a == CHOOSE c \in arcs : c[2][c[1]] = q
  <2>2. a \in arcs /\ a[2][a[1]] = q
    BY <2>1
  <2> HIDE DEF a
  <2>3. a[2] \in G /\ a[1] \in X
    BY <1>1, <2>2
  <2>4. s.reached[a[1]] \in H /\ s.reached[a[1]][b] = a[1]
    BY <1>2, <2>3
  <2>5. Compose(a[2], s.reached[a[1]]) \in H
    BY <1>3, <1>4, <2>3, <2>4
  <2>6. Compose(a[2], s.reached[a[1]])[b] = q
    <3>1. Compose(a[2], s.reached[a[1]])[b] = a[2][s.reached[a[1]][b]]
      BY <1>0, <1>4, <1>6, <2>3, <2>4
    <3> QED BY <2>2, <2>4, <3>1
  <2> QED BY <2>5, <2>6 DEF a
<1>10. r \in [X \cup next -> CO] /\ \A q \in X \cup next : r[q] \in H /\ r[q][b] = q
  <2>1. \A q \in X \cup next : r[q] = IF q \in next THEN step(q) ELSE s.reached[q]
    OBVIOUS
  <2>2. r = [q \in X \cup next |-> r[q]]
    OBVIOUS
  <2> HIDE DEF r, next, step
  <2>3. \A q \in X \cup next : r[q] \in H /\ r[q][b] = q
    BY <1>2, <1>9, <2>1
  <2> QED BY <1>4, <2>2, <2>3
<1>11. r[b] = Identity(m)
  BY <1>2, <1>8
<1>12. \A q \in X \cup next : q \notin next => \A g \in G : g[q] \in X \cup next
  <2>1. ASSUME NEW q \in X, NEW g \in G PROVE g[q] \in X \cup next
    <3>1. CASE q \in s.queue
      <4>1. <<q, g>> \in s.queue \X G
        BY <3>1
      <4>2. g[q] \notin X => <<q, g>> \in arcs
        BY <4>1
      <4> HIDE DEF arcs
      <4>3. <<q, g>> \in arcs => g[q] \in next
        OBVIOUS
      <4> QED BY <4>2, <4>3
    <3>2. CASE q \notin s.queue
      BY <1>2, <3>2
    <3> QED BY <3>1, <3>2
  <2> HIDE DEF next
  <2> QED BY <2>1
<1> HIDE DEF r
<1>13. t \in SearchStates(b, G, m)
  <2> HIDE DEF next
  <2>1. r \in Paths(m) /\ DOMAIN r = X \cup next
    BY <1>1, <1>8, <1>10 DEF Paths, D, CO
  <2>2. Reaches(t, b, G, m)
    <3>1. b \in DOMAIN r /\ next \subseteq DOMAIN r
      BY <1>2, <2>1
    <3> QED BY <1>7, <1>10, <1>11, <1>12, <2>1, <3>1 DEF Reaches, H
  <2>3. t \in [queue : SUBSET (0 .. m - 1), reached : Paths(m)]
    BY <1>7, <1>8, <2>1 DEF D
  <2> QED BY <2>2, <2>3 DEF SearchStates
<1>14. s.queue = {} => t.queue = {}
  BY <1>7
<1>15. t.queue # {} => Cardinality(DOMAIN t.reached) >= Cardinality(X) + 1
  <2> SUFFICES ASSUME next # {} PROVE Cardinality(X \cup next) >= Cardinality(X) + 1
    BY <1>7, <1>10
  <2> HIDE DEF next
  <2>1. IsFiniteSet(D)
    BY CoordinatesFinite DEF D
  <2>2. IsFiniteSet(X \cup next) /\ IsFiniteSet(X) /\ Cardinality(X) <= Cardinality(X \cup next)
        /\ (Cardinality(X) = Cardinality(X \cup next) => X = X \cup next)
    <3>1. IsFiniteSet(X \cup next)
      BY <1>1, <1>8, <2>1, FS_Subset
    <3>2. X \subseteq X \cup next
      OBVIOUS
    <3> QED BY <3>1, <3>2, FS_Subset
  <2>3. X # X \cup next
    BY <1>8
  <2>4. Cardinality(X) \in Nat /\ Cardinality(X \cup next) \in Nat
    BY <2>2, FS_CardinalityType
  <2> QED BY <2>2, <2>3, <2>4
<1> QED BY <1>13, <1>14, <1>15 DEF t

IsSearch(f, b, G, m) ==
  f = [i \in 0 .. m |-> IF i = 0 THEN SearchFirst(b, m) ELSE Search(f[i - 1], G)]

LEMMA SearchBegins ==
  ASSUME NEW m \in Nat, NEW G, G \subseteq ColumnOrders(m), NEW b \in 0 .. m - 1
  PROVE  SearchFirst(b, m) \in SearchStates(b, G, m)
<1> DEFINE s == SearchFirst(b, m)
           e == Identity(m)
<1>1. e \in ColumnOrders(m) /\ e[b] = b
  BY IdentityIs
<1>2. e \in Generated(G, m)
  BY GeneratedFacts DEF IsGroup
<1>3. s.queue = {b} /\ DOMAIN s.reached = {b} /\ s.reached[b] = e
      /\ s.reached \in [{b} -> ColumnOrders(m)] /\ s = [queue |-> s.queue, reached |-> s.reached]
  <2> HIDE DEF e
  <2> QED BY <1>1 DEF SearchFirst, e
<1> HIDE DEF s, e
<1>4. s.reached \in Paths(m)
  BY <1>3 DEF Paths
<1>5. Reaches(s, b, G, m)
  BY <1>1, <1>2, <1>3 DEF Reaches, e
<1>6. s \in [queue : SUBSET (0 .. m - 1), reached : Paths(m)]
  BY <1>3, <1>4
<1> QED BY <1>5, <1>6 DEF SearchStates, s

LEMMA SearchExists ==
  ASSUME NEW m \in Nat, NEW G, G \subseteq ColumnOrders(m), NEW b \in 0 .. m - 1
  PROVE  \E f : IsSearch(f, b, G, m)
<1> DEFINE V == SearchStates(b, G, m)
           first == SearchFirst(b, m)
           step == [x \in V \X (0 .. m) |-> Search(x[1], G)]
<1>1. first \in V
  BY SearchBegins
<1>2. \A x \in V : Search(x, G) \in V
  BY SearchRound
<1>3. step \in [V \X (0 .. m) -> V] /\ \A x \in V : \A i \in 0 .. m : step[x, i] = Search(x, G)
  <2> HIDE DEF V
  <2>1. \A x \in V \X (0 .. m) : x[1] \in V
    OBVIOUS
  <2> QED BY <1>2, <2>1
<1>4. 0 <= m /\ 0 \in Nat
  OBVIOUS
<1>5. PICK f \in [0 .. m -> V] : IsLoop(first, step, 0, m, f)
  <2> HIDE DEF V, first, step
  <2> QED BY <1>1, <1>3, <1>4, LoopExists
<1>6. f[0] = first /\ \A i \in 0 .. m : i > 0 => f[i] = step[f[i - 1], i]
  <2> HIDE DEF V, first, step
  <2> QED BY <1>5 DEF IsLoop
<1> HIDE DEF V, first, step
<1>7. \A i \in 0 .. m : f[i] = IF i = 0 THEN first ELSE Search(f[i - 1], G)
  <2> SUFFICES ASSUME NEW i \in 0 .. m
               PROVE  f[i] = IF i = 0 THEN first ELSE Search(f[i - 1], G)
    OBVIOUS
  <2>1. CASE i = 0
    BY <1>6, <2>1
  <2>2. CASE i > 0
    <3>1. i - 1 \in 0 .. m /\ f[i - 1] \in V
      BY <1>5, <2>2
    <3>2. f[i] = step[f[i - 1], i]
      BY <1>6, <2>2
    <3>3. step[f[i - 1], i] = Search(f[i - 1], G)
      BY <1>3, <3>1
    <3>4. f[i] = Search(f[i - 1], G)
      BY <3>2, <3>3, Zenon
    <3> QED BY <2>2, <3>4
  <2> QED BY <2>1, <2>2
<1>8. f = [i \in 0 .. m |-> IF i = 0 THEN first ELSE Search(f[i - 1], G)]
  BY <1>5, <1>7
<1> QED BY <1>8 DEF IsSearch, first

(* The transversal holds, for every point that the group takes b to, one of  *)
(* its members that does.                                                    *)
IsTransversal(t, b, H, m) ==
  /\ t \in [DOMAIN t -> ColumnOrders(m)] /\ DOMAIN t \subseteq 0 .. m - 1
  /\ b \in DOMAIN t /\ t[b] = Identity(m)
  /\ \A q \in DOMAIN t : t[q] \in H /\ t[q][b] = q
  /\ \A p \in H : p[b] \in DOMAIN t

LEMMA TransversalFacts ==
  ASSUME NEW m \in Nat, NEW G, G \subseteq ColumnOrders(m), NEW b \in 0 .. m - 1
  PROVE  IsTransversal(Transversal(b, G, m), b, Generated(G, m), m)
<1> DEFINE V == SearchStates(b, G, m)
           first == SearchFirst(b, m)
           f == CHOOSE f : f = [i \in 0 .. m |-> IF i = 0 THEN first ELSE Search(f[i - 1], G)]
           H == Generated(G, m)
           CO == ColumnOrders(m)
           D == 0 .. m - 1
           t == f[m].reached
<1>1. Transversal(b, G, m) = t
  BY DEF Transversal, SearchFirst
<1>2. f = [i \in 0 .. m |-> IF i = 0 THEN first ELSE Search(f[i - 1], G)]
  <2>1. \E g : g = [i \in 0 .. m |-> IF i = 0 THEN first ELSE Search(g[i - 1], G)]
    <3>1. \E g : IsSearch(g, b, G, m)
      BY SearchExists
    <3> QED BY <3>1 DEF IsSearch
  <2> HIDE DEF first
  <2> QED BY <2>1
<1> HIDE DEF f
<1>3. \A i \in 0 .. m : f[i] = IF i = 0 THEN first ELSE Search(f[i - 1], G)
  <2> HIDE DEF first
  <2> QED BY <1>2
<1> DEFINE size(i) == Cardinality(DOMAIN f[i].reached)
           C == {i \in 0 .. m : f[i] \in V /\ (f[i].queue = {} \/ size(i) >= i + 1)}
<1>4. 0 \in C
  <2>1. f[0] = first /\ first \in V
    BY <1>3, SearchBegins
  <2>2. DOMAIN first.reached = {b}
    BY DEF SearchFirst
  <2>3. Cardinality({b}) = 1
    BY FS_Singleton
  <2> HIDE DEF V, first
  <2>4. size(0) = 1
    BY <2>1, <2>2, <2>3
  <2> HIDE DEF size
  <2> QED BY <2>1, <2>4
<1>5. ASSUME NEW i \in 0 .. m, i > 0, i - 1 \in C PROVE i \in C
  <2>1. f[i] = Search(f[i - 1], G) /\ f[i - 1] \in V /\ i - 1 \in 0 .. m
        /\ (f[i - 1].queue = {} \/ size(i - 1) >= i)
    BY <1>3, <1>5
  <2>2. /\ f[i] \in V
        /\ f[i - 1].queue = {} => f[i].queue = {}
        /\ f[i].queue # {} => size(i) >= size(i - 1) + 1
    BY <2>1, SearchRound
  <2>3. size(i) \in Nat /\ size(i - 1) \in Nat
    <3>1. \A s \in V : IsFiniteSet(DOMAIN s.reached)
      <4> SUFFICES ASSUME NEW s \in V PROVE IsFiniteSet(DOMAIN s.reached)
        OBVIOUS
      <4>1. s.reached \in Paths(m)
        BY DEF SearchStates
      <4>2. DOMAIN s.reached \subseteq 0 .. m - 1
        BY <4>1 DEF Paths
      <4> QED BY <4>2, CoordinatesFinite, FS_Subset
    <3> HIDE DEF V
    <3> QED BY <2>1, <2>2, <3>1, FS_CardinalityType
  <2> HIDE DEF size, V
  <2>4. f[i].queue = {} \/ size(i) >= i + 1
    BY <2>1, <2>2, <2>3
  <2> QED BY <2>2, <2>4
<1>6. m \in C
  <2>1. C \subseteq 0 .. m /\ 0 <= m /\ m \in 0 .. m
    OBVIOUS
  <2> HIDE DEF C
  <2>2. \A i \in 0 .. m : i > 0 /\ i - 1 \in C => i \in C
    BY <1>5
  <2>3. 0 .. m \subseteq C
    BY <1>4, <2>1, <2>2, RangeInduction
  <2> QED BY <2>1, <2>3
<1>7. f[m] \in V /\ (f[m].queue = {} \/ size(m) >= m + 1)
  BY <1>6
<1>8. f[m].reached \in Paths(m) /\ Reaches(f[m], b, G, m)
  BY <1>7 DEF SearchStates
<1>9. t \in [DOMAIN t -> CO] /\ DOMAIN t \subseteq D
  BY <1>8 DEF Paths
<1>10. f[m].queue = {}
  <2>1. IsFiniteSet(D) /\ Cardinality(D) = m
    BY CoordinatesFinite, FS_Interval
  <2>2. Cardinality(DOMAIN t) <= m /\ Cardinality(DOMAIN t) \in Nat
    <3> HIDE DEF t
    <3> QED BY <1>9, <2>1, FS_Subset, FS_CardinalityType
  <2> QED BY <1>7, <2>2
<1>11. /\ b \in DOMAIN t /\ t[b] = Identity(m)
       /\ \A q \in DOMAIN t : t[q] \in H /\ t[q][b] = q
       /\ \A q \in DOMAIN t : \A g \in G : g[q] \in DOMAIN t
  BY <1>8, <1>10 DEF Reaches
<1>12. \A p \in H : p[b] \in DOMAIN t
  <2> DEFINE T == {p \in CO : p[b] \in DOMAIN t}
  <2>1. Identity(m) \in T
    BY <1>11, IdentityIs
  <2>2. ASSUME NEW g \in G, NEW s \in T PROVE Compose(g, s) \in T
    <3>1. g \in [D -> D] /\ s \in [D -> D] /\ g \in CO /\ s \in CO
      BY PermutationIs
    <3>2. Compose(g, s) \in CO /\ Compose(g, s)[b] = g[s[b]]
      <4> HIDE DEF t
      <4> QED BY <3>1, ComposeIs
    <3> HIDE DEF t
    <3> QED BY <1>11, <3>2
  <2>3. LeftClosed(T, G)
    <3> HIDE DEF T
    <3> QED BY <2>2 DEF LeftClosed
  <2>4. H \subseteq T
    <3> HIDE DEF T
    <3> QED BY <2>1, <2>3, GeneratedFacts
  <2> QED BY <2>4
<1> HIDE DEF t
<1> QED BY <1>1, <1>9, <1>11, <1>12 DEF IsTransversal

(* What holds of all members of a group, ready to be used.                   *)
Laws(H, m) ==
  /\ \A p \in H : p \in [0 .. m - 1 -> 0 .. m - 1]
  /\ \A p, q \in H : \A h \in 0 .. m - 1 : Compose(p, q)[h] = p[q[h]]
  /\ \A p \in H : \A h \in 0 .. m - 1 : InverseOf(p)[p[h]] = h /\ p[InverseOf(p)[h]] = h
  /\ \A h \in 0 .. m - 1 : Identity(m)[h] = h
  /\ \A p, q, r \in H : Compose(Compose(p, q), r) = Compose(p, Compose(q, r))
  /\ \A p \in H : Compose(Identity(m), p) = p /\ Compose(p, Identity(m)) = p
  /\ \A p \in H : Compose(InverseOf(p), p) = Identity(m) /\ Compose(p, InverseOf(p)) = Identity(m)

LEMMA GroupLaws ==
  ASSUME NEW m \in Nat, NEW H, H \subseteq ColumnOrders(m)
  PROVE  Laws(H, m)
<1> DEFINE CO == ColumnOrders(m)
           D == 0 .. m - 1
<1>1. \A p \in CO : p \in [D -> D]
  BY PermutationIs
<1>2. \A p, q \in CO : \A h \in D : Compose(p, q)[h] = p[q[h]]
  <2>1. \A p, q \in [D -> D] : \A h \in D : Compose(p, q)[h] = p[q[h]]
    BY ComposeIs
  <2> HIDE DEF D, CO
  <2> QED BY <1>1, <2>1
<1>3. \A p \in CO : \A h \in D : InverseOf(p)[p[h]] = h /\ p[InverseOf(p)[h]] = h
  BY InverseIs
<1>4. \A h \in D : Identity(m)[h] = h
  BY IdentityIs
<1>5. \A p, q, r \in CO : Compose(Compose(p, q), r) = Compose(p, Compose(q, r))
  BY ComposeLaws
<1>6. \A p \in CO : Compose(Identity(m), p) = p /\ Compose(p, Identity(m)) = p
  BY ComposeLaws
<1>7. \A p \in CO : Compose(InverseOf(p), p) = Identity(m) /\ Compose(p, InverseOf(p)) = Identity(m)
  BY ComposeLaws
<1>8. H \subseteq CO
  OBVIOUS
<1> HIDE DEF CO
<1> QED BY <1>1, <1>2, <1>3, <1>4, <1>5, <1>6, <1>7, <1>8 DEF Laws

LEMMA ComposeAt ==
  ASSUME NEW m \in Nat, NEW H, Laws(H, m), NEW p \in H, NEW q \in H, NEW h \in 0 .. m - 1
  PROVE  Compose(p, q)[h] = p[q[h]]
BY DEF Laws

(* The members of a group that leave b where it is are a group.              *)
Stabiliser(H, b) == {p \in H : p[b] = b}

LEMMA StabiliserIsGroup ==
  ASSUME NEW m \in Nat, NEW H, IsGroup(H, m), NEW b \in 0 .. m - 1
  PROVE  IsGroup(Stabiliser(H, b), m)
<1>1. H \subseteq ColumnOrders(m) /\ Identity(m) \in H /\ \A p, q \in H : Compose(p, q) \in H
  BY DEF IsGroup
<1>2. Laws(H, m)
  BY <1>1, GroupLaws
<1> DEFINE S == Stabiliser(H, b)
<1>3. S \subseteq ColumnOrders(m) /\ Identity(m) \in S
  BY <1>1, <1>2 DEF Stabiliser, Laws
<1>4. ASSUME NEW p \in S, NEW q \in S PROVE Compose(p, q) \in S
  <2>1. p \in H /\ q \in H /\ p[b] = b /\ q[b] = b
    BY DEF Stabiliser
  <2>2. Compose(p, q)[b] = p[q[b]]
    BY <1>2, <2>1, ComposeAt
  <2> QED BY <1>1, <2>1, <2>2 DEF Stabiliser
<1> HIDE DEF S
<1>5. IsGroup(S, m)
  BY <1>3, <1>4, ProductsMakeGroup
<1> QED BY <1>5 DEF S

(* The Schreier generators generate the stabiliser of b.                     *)
LEMMA SchreierFacts ==
  ASSUME NEW m \in Nat, NEW G, G \subseteq ColumnOrders(m), NEW b \in 0 .. m - 1,
         NEW t, IsTransversal(t, b, Generated(G, m), m)
  PROVE  /\ SchreierGenerators(t, G, m) \subseteq ColumnOrders(m)
         /\ Generated(SchreierGenerators(t, G, m), m) = Stabiliser(Generated(G, m), b)
<1> DEFINE H == Generated(G, m)
           L == SchreierGenerators(t, G, m)
           S == Stabiliser(H, b)
           K == Generated(L, m)
           e == Identity(m)
           made(g, p) == Compose(InverseOf(t[g[p]]), Compose(g, t[p]))
           D == 0 .. m - 1
           CO == ColumnOrders(m)
<1>1. /\ IsGroup(H, m) /\ G \subseteq H
      /\ \A T : e \in T /\ LeftClosed(T, G) => H \subseteq T
  BY GeneratedFacts
<1>2. /\ H \subseteq CO /\ e \in H
      /\ \A p, q \in H : Compose(p, q) \in H
      /\ \A p \in H : InverseOf(p) \in H
  BY <1>1 DEF IsGroup
<1>3. Laws(H, m) /\ Laws(CO, m)
  BY <1>2, GroupLaws
<1>4. /\ b \in DOMAIN t /\ t[b] = e /\ DOMAIN t \subseteq D
      /\ \A q \in DOMAIN t : t[q] \in H /\ t[q][b] = q
      /\ \A p \in H : p[b] \in DOMAIN t
  BY DEF IsTransversal
<1>5. L = {made(g, p) : g \in G, p \in DOMAIN t} \ {e}
  BY DEF SchreierGenerators
<1>6. IsGroup(S, m)
  BY <1>1, StabiliserIsGroup
<1>7. \A p : p \in S <=> p \in H /\ p[b] = b
  BY DEF Stabiliser
<1>8. b \in D
  OBVIOUS
<1> HIDE DEF H, L, S, K, e, made, D, CO
<1>9. ASSUME NEW g \in G, NEW p \in DOMAIN t
      PROVE  g[p] \in DOMAIN t /\ made(g, p) \in S
  <2>1. g \in H /\ t[p] \in H /\ t[p][b] = p
    BY <1>1, <1>4
  <2>2. Compose(g, t[p]) \in H /\ Compose(g, t[p])[b] = g[p]
    <3>1. Compose(g, t[p])[b] = g[t[p][b]]
      BY <1>3, <2>1, ComposeAt
    <3> QED BY <1>2, <2>1, <3>1
  <2>3. g[p] \in DOMAIN t
    BY <1>4, <2>2
  <2>4. t[g[p]] \in H /\ t[g[p]][b] = g[p] /\ InverseOf(t[g[p]]) \in H
    BY <1>2, <1>4, <2>3
  <2>5. InverseOf(t[g[p]])[g[p]] = b
    BY <1>3, <1>8, <2>4 DEF Laws, D
  <2>6. made(g, p) \in H
    BY <1>2, <2>2, <2>4 DEF made
  <2>7. made(g, p)[b] = InverseOf(t[g[p]])[Compose(g, t[p])[b]]
    BY <1>3, <2>2, <2>4, ComposeAt DEF made
  <2> QED BY <1>7, <2>2, <2>3, <2>5, <2>6, <2>7
<1>10. L \subseteq S
  BY <1>5, <1>9
<1>11. L \subseteq CO /\ K \subseteq S
  <2>1. L \subseteq ColumnOrders(m) /\ Generated(L, m) \subseteq S
    BY <1>6, <1>10, GeneratedWithin
  <2> QED BY <2>1 DEF CO, K
<1>12. IsGroup(K, m) /\ L \subseteq K
  BY <1>11, GeneratedFacts DEF K, CO
<1>13. K \subseteq CO /\ e \in K /\ \A p, q \in K : Compose(p, q) \in K
  BY <1>12 DEF IsGroup, e, CO
<1>14. \A g \in G : \A p \in DOMAIN t : made(g, p) \in K
  BY <1>5, <1>12, <1>13
<1>15. S \subseteq K
  <2> DEFINE rest(h) == Compose(InverseOf(t[h[b]]), h)
             T == {h \in H : rest(h) \in K}
  <2>1. e \in T
    <3>1. e[b] = b /\ InverseOf(t[b]) = InverseOf(e)
      BY <1>3, <1>4, <1>8 DEF Laws, D, e
    <3>2. Compose(InverseOf(e), e) = e
      BY <1>2, <1>3 DEF Laws, e
    <3> QED BY <1>2, <1>13, <3>1, <3>2
  <2>2. ASSUME NEW g \in G, NEW h \in T PROVE Compose(g, h) \in T
    <3> DEFINE p == h[b]
               u == t[p]
               v == InverseOf(t[g[p]])
    <3>1. h \in H /\ g \in H /\ rest(h) \in K /\ p \in DOMAIN t
      BY <1>1, <1>4
    <3>2. Compose(g, h) \in H /\ Compose(g, h)[b] = g[p]
      <4>1. Compose(g, h)[b] = g[h[b]]
        BY <1>3, <3>1, ComposeAt
      <4> QED BY <1>2, <3>1, <4>1
    <3>3. u \in H /\ InverseOf(u) \in H /\ v \in H /\ rest(h) = Compose(InverseOf(u), h)
      BY <1>2, <1>4, <1>9, <3>1
    <3> HIDE DEF u, v, p
    <3>4. Compose(made(g, p), rest(h)) \in K
      BY <1>13, <1>14, <3>1
    <3>5. Compose(made(g, p), rest(h)) = Compose(v, Compose(g, h))
      <4>0. made(g, p) = Compose(v, Compose(g, u))
        BY DEF made, u, v
      <4>1. \A x, y, z \in H : Compose(x, y) \in H /\ Compose(Compose(x, y), z) = Compose(x, Compose(y, z))
        BY <1>2, <1>3 DEF Laws
      <4>2. Compose(u, InverseOf(u)) = e /\ Compose(e, h) = h
        BY <1>3, <3>1, <3>3 DEF Laws, e
      <4>3. Compose(u, Compose(InverseOf(u), h)) = h
        BY <3>1, <3>3, <4>1, <4>2
      <4>4. Compose(Compose(g, u), Compose(InverseOf(u), h)) = Compose(g, h)
        BY <3>1, <3>3, <4>1, <4>3
      <4>5. Compose(Compose(v, Compose(g, u)), Compose(InverseOf(u), h))
              = Compose(v, Compose(Compose(g, u), Compose(InverseOf(u), h)))
        BY <3>1, <3>3, <4>1
      <4> QED BY <3>3, <4>0, <4>4, <4>5
    <3>6. rest(Compose(g, h)) = Compose(v, Compose(g, h))
      BY <3>2 DEF v
    <3> QED BY <3>2, <3>4, <3>5, <3>6
  <2>3. H \subseteq T
    <3> HIDE DEF T
    <3>1. LeftClosed(T, G)
      BY <2>2 DEF LeftClosed
    <3> QED BY <1>1, <2>1, <3>1
  <2>4. ASSUME NEW h \in S PROVE h \in K
    <3>1. h \in H /\ h[b] = b /\ rest(h) \in K
      BY <1>7, <2>3
    <3>2. rest(h) = Compose(InverseOf(e), h)
      BY <1>4, <3>1
    <3>3. Compose(InverseOf(e), h) = h
      <4>1. Compose(InverseOf(e), e) = e /\ InverseOf(e) \in H
        BY <1>2, <1>3 DEF Laws, e
      <4>2. InverseOf(e) = e
        BY <1>3, <4>1 DEF Laws, e
      <4> QED BY <1>3, <3>1, <4>2 DEF Laws, e
    <3> QED BY <3>1, <3>2, <3>3
  <2> QED BY <2>4
<1>16. K = S
  BY <1>11, <1>15
<1> QED BY <1>11, <1>16 DEF K, S, H, L, CO

(* The orbit's size is the index of the stabiliser.                          *)
LEMMA OrbitTimesStabiliser ==
  ASSUME NEW m \in Nat, NEW H, IsGroup(H, m), NEW b \in 0 .. m - 1, NEW t, IsTransversal(t, b, H, m)
  PROVE  Cardinality(H) = Cardinality(DOMAIN t) * Cardinality(Stabiliser(H, b))
<1> DEFINE S == Stabiliser(H, b)
           D == 0 .. m - 1
           Q == DOMAIN t
           P == Q \X S
           f == [x \in P |-> Compose(t[x[1]], x[2])]
<1>1. /\ H \subseteq ColumnOrders(m) /\ \A p, q \in H : Compose(p, q) \in H
      /\ \A p \in H : InverseOf(p) \in H
  BY DEF IsGroup
<1>2. Laws(H, m)
  BY <1>1, GroupLaws
<1>3. /\ Q \subseteq D /\ b \in D
      /\ \A q \in Q : t[q] \in H /\ t[q][b] = q
      /\ \A p \in H : p[b] \in Q
  BY DEF IsTransversal
<1>4. \A p : p \in S <=> p \in H /\ p[b] = b
  BY DEF Stabiliser
<1>5. IsFiniteSet(S) /\ IsFiniteSet(Q)
  <2>1. S \subseteq ColumnOrders(m)
    BY <1>1, <1>4
  <2>2. IsFiniteSet(ColumnOrders(m)) /\ IsFiniteSet(D)
    BY PermutationsFinite, CoordinatesFinite
  <2> HIDE DEF S, D
  <2> QED BY <1>3, <2>1, <2>2, FS_Subset
<1> HIDE DEF S, D, Q
<1>6. \A q \in Q : \A s \in S : f[<<q, s>>] = Compose(t[q], s)
  OBVIOUS
<1>7. \A q \in Q : \A s \in S : Compose(t[q], s) \in H /\ Compose(t[q], s)[b] = q
  <2> SUFFICES ASSUME NEW q \in Q, NEW s \in S
               PROVE  Compose(t[q], s) \in H /\ Compose(t[q], s)[b] = q
    OBVIOUS
  <2>1. t[q] \in H /\ s \in H /\ t[q][b] = q /\ s[b] = b
    BY <1>3, <1>4
  <2>2. Compose(t[q], s)[b] = t[q][s[b]]
    BY <1>2, <2>1, ComposeAt
  <2> QED BY <1>1, <2>1, <2>2
<1>8. \A q \in Q : \A s \in S : Compose(InverseOf(t[q]), Compose(t[q], s)) = s
  <2> SUFFICES ASSUME NEW q \in Q, NEW s \in S
               PROVE  Compose(InverseOf(t[q]), Compose(t[q], s)) = s
    OBVIOUS
  <2>1. t[q] \in H /\ s \in H /\ InverseOf(t[q]) \in H
    BY <1>1, <1>3, <1>4
  <2>2. Compose(InverseOf(t[q]), Compose(t[q], s)) = Compose(Compose(InverseOf(t[q]), t[q]), s)
    BY <1>2, <2>1 DEF Laws
  <2>3. Compose(InverseOf(t[q]), t[q]) = Identity(m) /\ Compose(Identity(m), s) = s
    BY <1>2, <2>1 DEF Laws
  <2> QED BY <2>2, <2>3
<1>9. ASSUME NEW h \in H PROVE \E q \in Q : \E s \in S : Compose(t[q], s) = h
  <2> DEFINE q == h[b]
             s == Compose(InverseOf(t[q]), h)
  <2>1. q \in Q /\ t[q] \in H /\ t[q][b] = q /\ InverseOf(t[q]) \in H
    BY <1>1, <1>3
  <2>2. s \in H /\ s[b] = InverseOf(t[q])[q]
    <3>1. Compose(InverseOf(t[q]), h)[b] = InverseOf(t[q])[h[b]]
      BY <1>2, <2>1, ComposeAt
    <3> QED BY <1>1, <2>1, <3>1
  <2>3. InverseOf(t[q])[q] = b
    <3>1. \A p \in H : InverseOf(p)[p[b]] = b
      BY <1>2 DEF Laws
    <3> HIDE DEF q
    <3>2. InverseOf(t[q])[t[q][b]] = b
      BY <2>1, <3>1
    <3> QED BY <2>1, <3>2
  <2>4. s \in S
    BY <1>4, <2>2, <2>3
  <2>5. Compose(t[q], s) = h
    <3>1. Compose(t[q], s) = Compose(Compose(t[q], InverseOf(t[q])), h)
      BY <1>2, <2>1 DEF Laws
    <3>2. Compose(t[q], InverseOf(t[q])) = Identity(m) /\ Compose(Identity(m), h) = h
      BY <1>2, <2>1 DEF Laws
    <3> QED BY <3>1, <3>2
  <2> QED BY <2>1, <2>4, <2>5
<1>10. OneToOne(f, P, H)
  <2>0. \A x \in P : x[1] \in Q /\ x[2] \in S /\ x = <<x[1], x[2]>>
    OBVIOUS
  <2>1. \A x \in P : f[x] \in H /\ f[x][b] = x[1] /\ Compose(InverseOf(t[x[1]]), f[x]) = x[2]
    BY <1>7, <1>8, <2>0
  <2>2. \A x, y \in P : f[x] = f[y] => x = y
    <3>1. \A x, y \in P : f[x] = f[y] => x[1] = y[1] /\ x[2] = y[2]
      <4> HIDE DEF f
      <4> QED BY <2>1
    <3> HIDE DEF f, P
    <3> QED BY <2>0, <3>1
  <2>3. \A h \in H : \E x \in P : f[x] = h
    <3> SUFFICES ASSUME NEW h \in H PROVE \E x \in P : f[x] = h
      OBVIOUS
    <3>1. PICK q \in Q : \E s \in S : Compose(t[q], s) = h
      BY <1>9
    <3>2. PICK s \in S : Compose(t[q], s) = h
      BY <3>1
    <3>3. <<q, s>> \in P /\ f[<<q, s>>] = h
      BY <1>6, <3>2
    <3> QED BY <3>3
  <2> HIDE DEF f, P
  <2> QED BY <2>1, <2>2, <2>3 DEF OneToOne
<1>11. IsFiniteSet(P) /\ Cardinality(P) = Cardinality(Q) * Cardinality(S)
  <2> QED BY <1>5, FS_Product
<1>12. Cardinality(H) = Cardinality(P)
  <2> HIDE DEF f, P
  <2> QED BY <1>10, <1>11, SameNumber
<1> QED BY <1>11, <1>12 DEF S, Q

-----------------------------------------------------------------------------
(* The call of `canon_info`.                                                 *)

(* A permutation keeps the words in the graph exactly if it keeps the code.  *)
LEMMA GraphWordsKeepGroup ==
  ASSUME n \in Nat \ {0}, NEW C, IsCode(C, n)
  PROVE  /\ GraphWords(C) \subseteq SUBSET (0 .. n - 1) /\ AutOf(GraphWords(C), n) = AutOf(C, n)
         /\ Span(GraphWords(C)) = C
<1> DEFINE enough == {w \in 1 .. n : Span(Lightest(C, w)) = C}
           least == Min(enough)
           low == Lightest(C, least)
           D == SUBSET (0 .. n - 1)
           CO == ColumnOrders(n)
<1>1. C \subseteq D /\ Zero \in C /\ \A u, v \in C : Xor(u, v) \in C
  BY DEF IsCode
<1>2. GraphWords(C) = C \/ (GraphWords(C) = low /\ C # {Zero})
  BY DEF GraphWords, CollectLowWeightCodewords
<1>3. \A w : LightWords(C, w) = Lightest(C, w)
  BY DEF LightWords, Lightest, FullCodewords
<1>4. low \subseteq D
  BY <1>1 DEF Lightest
<1>5. Span(low) = C
  <2>1. Lightest(C, n) = C \ {Zero}
    <3>1. ASSUME NEW v \in C PROVE Weight(v) <= n
      <4>1. IsFiniteSet(0 .. n - 1) /\ Cardinality(0 .. n - 1) = n
        BY FS_Interval
      <4>2. v \subseteq 0 .. n - 1
        BY <1>1
      <4>3. Cardinality(v) <= Cardinality(0 .. n - 1)
        BY <4>1, <4>2, FS_Subset
      <4> QED BY <4>1, <4>3 DEF Weight
    <3> QED BY <3>1 DEF Lightest
  <2>2. Span(C \ {Zero}) = C
    <3> DEFINE S == C \ {Zero}
    <3>1. IsFiniteSet(S)
      <4>1. IsFiniteSet(D)
        BY CoordinatesFinite, FS_SUBSET
      <4> QED BY <1>1, <4>1, FS_Subset
    <3> HIDE DEF S
    <3>2. /\ Zero \in Span(S) /\ S \subseteq Span(S)
          /\ \A X : Zero \in X /\ S \subseteq X /\ (\A u, v \in X : Xor(u, v) \in X) => Span(S) \subseteq X
      BY <3>1, SpanFacts
    <3>3. Span(S) \subseteq C
      BY <1>1, <3>2 DEF S
    <3>4. C \subseteq Span(S)
      BY <3>2 DEF S
    <3> QED BY <3>3, <3>4 DEF S
  <2>3. n \in enough /\ enough \subseteq Nat
    BY <2>1, <2>2
  <2>4. least \in enough
    <3> HIDE DEF enough
    <3>1. \E x \in enough : \A y \in enough : x <= y
      BY <2>3, LeastNumber
    <3> QED BY <3>1 DEF Min
  <2> HIDE DEF least
  <2> QED BY <2>4
<1> HIDE DEF low
<1>6. ASSUME NEW sigma \in CO, MovedSet(low, sigma) = low PROVE MovedSet(C, sigma) = C
  <2>1. Span(MovedSet(low, sigma)) = MovedSet(Span(low), sigma)
    BY <1>4, MovedSpan
  <2> QED BY <1>5, <1>6, <2>1
<1>7. ASSUME NEW sigma \in CO, MovedSet(C, sigma) = C PROVE MovedSet(low, sigma) = low
  <2>1. LightWords(MovedSet(C, sigma), least) = MovedSet(LightWords(C, least), sigma)
    <3> HIDE DEF least
    <3> QED BY <1>1, MovedLightWords
  <2> QED BY <1>3, <1>7, <2>1 DEF low
<1>8. AutOf(low, n) = AutOf(C, n)
  BY <1>6, <1>7 DEF AutOf
<1>9. Span(C) = C
  <2>1. IsFiniteSet(C)
    BY <1>1, AscendingLists
  <2>2. C \subseteq Span(C) /\ Span(C) \subseteq C
    BY <1>1, <2>1, SpanFacts
  <2> QED BY <2>2
<1> QED BY <1>1, <1>2, <1>4, <1>5, <1>8, <1>9

(* The callback cuts every generator back to the permutation it came from.   *)
LEMMA ColumnPartIs ==
  ASSUME n \in Nat \ {0}, words \subseteq SUBSET (0 .. n - 1), left = Cardinality(words),
         NEW sigma \in ColumnOrders(n)
  PROVE  ColumnPart(VertexPerm(sigma)) = sigma
<1> DEFINE l == Len(WordVertices)
           perm == VertexPerm(sigma)
<1>1. sigma \in [0 .. n - 1 -> 0 .. n - 1]
  BY PermutationIs
<1>2. IsFiniteSet(words) /\ left \in Nat
  BY AscendingLists, FS_CardinalityType
<1>3. l = left
  BY <1>2 DEF WordVertices, Ascending
<1>4. DOMAIN perm = 0 .. left + n - 1 /\ \A v \in 0 .. left + n - 1 : v >= left => perm[v] = left + sigma[v - left]
  BY <1>2, <1>3 DEF VertexPerm
<1> HIDE DEF perm, l
<1>5. Cardinality(DOMAIN perm) = left + n
  <2>1. 0 \in Int /\ left + n - 1 \in Int /\ ~ (0 > left + n - 1)
    BY <1>2
  <2>2. Cardinality(0 .. left + n - 1) = (left + n - 1) - 0 + 1
    BY <2>1, FS_Interval
  <2> QED BY <1>2, <1>4, <2>2
<1>6. ColumnPart(perm) = [j \in 0 .. n - 1 |-> perm[j + left] - left]
  <2>1. Cardinality(DOMAIN perm) - left - 1 = n - 1
    BY <1>2, <1>5
  <2> QED BY <2>1 DEF ColumnPart
<1>7. \A j \in 0 .. n - 1 : perm[j + left] - left = sigma[j]
  <2> SUFFICES ASSUME NEW j \in 0 .. n - 1 PROVE perm[j + left] - left = sigma[j]
    OBVIOUS
  <2>1. j + left \in 0 .. left + n - 1 /\ j + left >= left /\ (j + left) - left = j /\ sigma[j] \in Nat
    BY <1>1, <1>2
  <2>2. perm[j + left] = left + sigma[j]
    BY <1>4, <2>1
  <2> QED BY <1>2, <2>1, <2>2
<1>8. ColumnPart(perm) = sigma
  BY <1>1, <1>6, <1>7
<1> QED BY <1>8 DEF perm

(* What Schreier-Sims has left to count: the group of those members that     *)
(* leave the base points so far where they are.                              *)
ChainIs(L, b, o, H, m) ==
  /\ L \subseteq ColumnOrders(m) /\ b \in 0 .. m - 1 /\ o \in Nat
  /\ \A p \in Generated(L, m) : \A j \in 0 .. b - 1 : p[j] = j
  /\ o * Cardinality(Generated(L, m)) = Cardinality(H)

(* Only the identity is left when every column is fixed.                     *)
LEMMA NoneLeft ==
  ASSUME NEW m \in Nat, NEW H, IsGroup(H, m), \A p \in H : \A j \in 0 .. m - 1 : p[j] = j
  PROVE  Cardinality(H) = 1
<1>1. ASSUME NEW p \in H PROVE p = Identity(m)
  <2>1. p \in ColumnOrders(m) /\ Identity(m) \in ColumnOrders(m)
    BY IdentityIs DEF IsGroup
  <2>2. p \in [0 .. m - 1 -> 0 .. m - 1] /\ Identity(m) \in [0 .. m - 1 -> 0 .. m - 1]
    BY <2>1, PermutationIs
  <2>3. \A j \in 0 .. m - 1 : p[j] = Identity(m)[j]
    BY IdentityIs
  <2> QED BY <2>2, <2>3, SamePermutation
<1>2. H = {Identity(m)}
  BY <1>1 DEF IsGroup
<1> QED BY <1>2, FS_Singleton

LEMMA NothingGenerates ==
  ASSUME NEW m \in Nat
  PROVE  Cardinality(Generated({}, m)) = 1
<1> DEFINE e == Identity(m)
           G == {}
<1>1. G \subseteq ColumnOrders(m)
  OBVIOUS
<1> HIDE DEF G
<1>2. e \in Generated(G, m) /\ \A T : e \in T /\ LeftClosed(T, G) => Generated(G, m) \subseteq T
  BY <1>1, GeneratedFacts DEF IsGroup
<1> HIDE DEF e
<1>3. LeftClosed({e}, G)
  BY DEF G, LeftClosed
<1>4. Generated(G, m) = {e}
  BY <1>2, <1>3
<1>5. Cardinality({e}) = 1
  BY FS_Singleton
<1> QED BY <1>4, <1>5 DEF G

LEMMA Bracketed ==
  ASSUME NEW a \in Nat, NEW b \in Nat, NEW c \in Nat
  PROVE  a * (b * c) = (a * b) * c
OBVIOUS

ChainEnds(L, b, t, K, m) == b = m - 1 \/ L = {} \/ (Cardinality(DOMAIN t) > 1 /\ K = {})

(* One base point: the order so far takes in the size of the orbit, and what *)
(* is generated next leaves this point where it is as well.                  *)
LEMMA ChainStep ==
  ASSUME NEW m \in Nat, NEW L, NEW b, NEW o, NEW H, ChainIs(L, b, o, H, m),
         NEW t, t = Transversal(b, L, m), NEW K, K = SchreierGenerators(t, L, m),
         NEW N, N = IF Cardinality(DOMAIN t) = 1 THEN L ELSE K
  PROVE  /\ ChainEnds(L, b, t, K, m) => o * Cardinality(DOMAIN t) = Cardinality(H)
         /\ ~ ChainEnds(L, b, t, K, m) => ChainIs(N, b + 1, o * Cardinality(DOMAIN t), H, m)
<1> DEFINE J == Generated(L, m)
           S == Stabiliser(J, b)
           c == Cardinality(DOMAIN t)
           D == 0 .. m - 1
<1>1. /\ L \subseteq ColumnOrders(m) /\ b \in D /\ o \in Nat
      /\ \A p \in J : \A j \in 0 .. b - 1 : p[j] = j
      /\ o * Cardinality(J) = Cardinality(H)
  BY DEF ChainIs
<1>2. IsTransversal(t, b, J, m)
  BY <1>1, TransversalFacts
<1>3. K \subseteq ColumnOrders(m) /\ Generated(K, m) = S
  BY <1>1, <1>2, SchreierFacts
<1>4. IsGroup(J, m)
  BY <1>1, GeneratedFacts
<1>5. Cardinality(J) = c * Cardinality(S)
  BY <1>1, <1>2, <1>4, OrbitTimesStabiliser
<1>6. IsGroup(S, m)
  BY <1>1, <1>4, StabiliserIsGroup
<1>7. c \in Nat /\ Cardinality(S) \in Nat /\ IsFiniteSet(DOMAIN t)
  <2>1. DOMAIN t \subseteq D /\ S \subseteq ColumnOrders(m)
    BY <1>2, <1>6 DEF IsTransversal, IsGroup
  <2>2. IsFiniteSet(DOMAIN t) /\ IsFiniteSet(S)
    <3> HIDE DEF S
    <3> QED BY <2>1, PermutationsFinite, CoordinatesFinite, FS_Subset
  <2> QED BY <2>2, FS_CardinalityType
<1>8. b \in DOMAIN t /\ \A p \in J : p[b] \in DOMAIN t
  BY <1>2 DEF IsTransversal
<1> HIDE DEF J, S, c
<1>9. (o * c) * Cardinality(S) = Cardinality(H)
  <2>1. o * (c * Cardinality(S)) = (o * c) * Cardinality(S)
    BY <1>1, <1>7, Bracketed
  <2> QED BY <1>1, <1>5, <2>1
<1>10. c = 1 => S = J
  <2>1. ASSUME c = 1 PROVE DOMAIN t = {b}
    <3>1. \E x : DOMAIN t = {x}
      BY <1>7, <2>1, FS_Singleton DEF c
    <3> QED BY <1>8, <3>1
  <2> QED BY <1>8, <2>1 DEF S, Stabiliser
<1>11. N \subseteq ColumnOrders(m) /\ Generated(N, m) = S
  BY <1>1, <1>3, <1>10 DEF J, c
<1>12. \A p \in S : p \in J /\ p[b] = b
  BY DEF S, Stabiliser
<1>13. \A p \in S : \A j \in 0 .. (b + 1) - 1 : p[j] = j
  <2> SUFFICES ASSUME NEW p \in S, NEW j \in 0 .. (b + 1) - 1 PROVE p[j] = j
    OBVIOUS
  <2>1. j = b \/ j \in 0 .. b - 1
    BY <1>1
  <2> QED BY <1>1, <1>12, <2>1
<1>14. o * c \in Nat
  BY <1>1, <1>7
<1>15. ASSUME ChainEnds(L, b, t, K, m) PROVE o * c = Cardinality(H)
  <2>1. Cardinality(S) = 1
    <3>1. CASE b = m - 1
      <4>1. \A p \in S : \A j \in 0 .. m - 1 : p[j] = j
        BY <1>13, <3>1
      <4> QED BY <1>6, <4>1, NoneLeft
    <3>2. CASE L = {}
      <4>1. Cardinality(J) = 1
        BY <3>2, NothingGenerates DEF J
      <4>2. c * Cardinality(S) = 1
        BY <1>5, <4>1
      <4> QED BY <1>7, <4>2
    <3>3. CASE c > 1 /\ K = {}
      BY <1>3, <3>3, NothingGenerates
    <3> QED BY <1>15, <3>1, <3>2, <3>3 DEF c, ChainEnds
  <2> QED BY <1>9, <1>14, <2>1
<1>16. ASSUME ~ ChainEnds(L, b, t, K, m) PROVE ChainIs(N, b + 1, o * c, H, m)
  <2>1. b + 1 \in 0 .. m - 1
    BY <1>1, <1>16 DEF ChainEnds
  <2> QED BY <1>9, <1>11, <1>13, <1>14, <2>1 DEF ChainIs
<1> QED BY <1>15, <1>16 DEF c

(* Where a call stands.  While nauty reports, it has found what the          *)
(* generators in the buffer generate; when it has returned, they generate    *)
(* the group of the graph, and the order is right as far as the base points  *)
(* go.                                                                       *)
KernelState ==
  /\ n \in DOMAIN Requests
  /\ pc \in {"idle", "nauty", "order", "store", "answered"}
  /\ pc # "idle" => code \in Requests[n] /\ words = GraphWords(code) /\ left = Cardinality(words)
  /\ pc = "nauty" => buffer \in Seq(AutOf(words, n)) /\ found = Generated(ToSet(buffer), n)
  /\ pc \in {"order", "store", "answered"} =>
       /\ gens \in Seq(AutOf(words, n)) /\ Generated(ToSet(gens), n) = AutOf(words, n)
       /\ found = AutOf(words, n)
       /\ orbits = [j \in 0 .. n - 1 |-> left + LeastImage(found, j)]
  /\ pc = "order" => ChainIs(level, base, order, AutOf(words, n), n)
  /\ pc \in {"store", "answered"} => order = Cardinality(AutOf(words, n))

KernelInv == backend = "nauty" => KernelState

LEMMA CodeAskedAbout ==
  ASSUME KernelState
  PROVE  /\ n \in Nat \ {0}
         /\ pc # "idle" => IsCode(code, n) /\ words \subseteq SUBSET (0 .. n - 1)
                           /\ AutOf(words, n) = AutOf(code, n)
         /\ pc # "idle" => IsGroup(AutOf(words, n), n)
<1>1. n \in Nat \ {0}
  BY CanonAssumption DEF KernelState
<1>2. ASSUME pc # "idle"
      PROVE  /\ IsCode(code, n) /\ words \subseteq SUBSET (0 .. n - 1)
             /\ AutOf(words, n) = AutOf(code, n)
  <2>1. code \in Requests[n] /\ words = GraphWords(code) /\ n \in DOMAIN Requests
    BY <1>2 DEF KernelState
  <2>2. IsCode(code, n)
    BY <2>1, CanonAssumption
  <2>3. GraphWords(code) \subseteq SUBSET (0 .. n - 1) /\ AutOf(GraphWords(code), n) = AutOf(code, n)
    BY <1>1, <2>2, GraphWordsKeepGroup
  <2> QED BY <2>1, <2>2, <2>3
<1>3. ASSUME pc # "idle" PROVE IsGroup(AutOf(words, n), n)
  BY <1>1, <1>2, <1>3, AutIsGroup
<1> QED BY <1>1, <1>2, <1>3

LEMMA GraphAutIs == GraphAut = AutOf(words, n)
BY DEF GraphAut, AutOf, ColumnPerms

LEMMA GraphWordsStay ==
  ASSUME n' = n
  PROVE  GraphWords(code)' = GraphWords(code')
BY DEF GraphWords, CollectLowWeightCodewords, Lightest

LEMMA Appended ==
  ASSUME NEW S, NEW s \in Seq(S), NEW x \in S
  PROVE  Append(s, x) \in Seq(S) /\ ToSet(Append(s, x)) = ToSet(s) \cup {x}
<1>1. /\ Append(s, x) \in Seq(S) /\ DOMAIN Append(s, x) = 1 .. Len(s) + 1 /\ DOMAIN s = 1 .. Len(s)
      /\ Len(s) \in Nat /\ Append(s, x)[Len(s) + 1] = x
      /\ \A i \in 1 .. Len(s) : Append(s, x)[i] = s[i]
  OBVIOUS
<1>2. ToSet(Append(s, x)) \subseteq ToSet(s) \cup {x}
  <2>1. \A i \in 1 .. Len(s) + 1 : i \in 1 .. Len(s) \/ i = Len(s) + 1
    BY <1>1
  <2> QED BY <1>1, <2>1 DEF ToSet
<1>3. ToSet(s) \cup {x} \subseteq ToSet(Append(s, x))
  <2>1. \A i \in 1 .. Len(s) : i \in 1 .. Len(s) + 1
    BY <1>1
  <2>2. Len(s) + 1 \in 1 .. Len(s) + 1
    BY <1>1
  <2> QED BY <1>1, <2>1, <2>2 DEF ToSet
<1> QED BY <1>1, <1>2, <1>3

LEMMA CallKeeps ==
  ASSUME KernelState, NEW C \in Requests[n], NEW needLabel \in BOOLEAN, Call(C, needLabel)
  PROVE  KernelState'
<1>1. /\ n' = n /\ code' = C /\ words' = GraphWords(C) /\ buffer' = <<>> /\ left' = Cardinality(words')
      /\ found' = {Identity(n)} /\ pc' = "nauty"
  BY DEF Call
<1>2. GraphWords(code)' = GraphWords(C)
  BY <1>1, GraphWordsStay
<1>3. n \in Nat /\ n \in DOMAIN Requests
  BY CodeAskedAbout DEF KernelState
<1>4. Generated(ToSet(<<>>), n) = {Identity(n)}
  <2> DEFINE e == Identity(n)
             G == ToSet(<<>>)
  <2>0. \A g \in G : FALSE
    BY DEF ToSet
  <2>1. e \in Generated(G, n) /\ \A T : e \in T /\ LeftClosed(T, G) => Generated(G, n) \subseteq T
    <3>1. G \subseteq ColumnOrders(n)
      BY <2>0
    <3> HIDE DEF G
    <3> QED BY <1>3, <3>1, GeneratedFacts DEF IsGroup
  <2> HIDE DEF G, e
  <2>2. LeftClosed({e}, G)
    BY <2>0 DEF LeftClosed
  <2>3. Generated(G, n) = {e}
    BY <2>1, <2>2
  <2> QED BY <2>3 DEF G, e
<1>5. <<>> \in Seq(AutOf(words', n))
  OBVIOUS
<1> QED BY <1>1, <1>2, <1>3, <1>4, <1>5 DEF KernelState

LEMMA ReportsKeeps ==
  ASSUME KernelState, NEW to, Reports(to)
  PROVE  KernelState'
<1> DEFINE new == {depth \in Columns : Fixing(depth) \ found # {}}
           candidates == {sigma \in Fixing(Max(new)) \ found : sigma[Max(new)] = to}
           sigma == CHOOSE s \in candidates : TRUE
           A == AutOf(words, n)
<1>1. /\ pc = "nauty" /\ candidates # {}
      /\ found' = Closure(found, found \cup {sigma}, n)
      /\ buffer' = Append(buffer, ColumnPart(VertexPerm(sigma)))
      /\ UNCHANGED <<n, pc, code, words, left>>
  BY DEF Reports
<1>2. sigma \in A
  <2>1. sigma \in candidates
    BY <1>1
  <2>2. candidates \subseteq GraphAut
    BY DEF Fixing
  <2> QED BY <2>1, <2>2, GraphAutIs
<1> HIDE DEF sigma, candidates
<1>3. /\ n \in Nat \ {0} /\ words \subseteq SUBSET (0 .. n - 1) /\ left = Cardinality(words)
      /\ code \in Requests[n] /\ words = GraphWords(code) /\ n \in DOMAIN Requests
      /\ buffer \in Seq(A) /\ found = Generated(ToSet(buffer), n)
  BY <1>1, CodeAskedAbout DEF KernelState
<1>4. A \subseteq ColumnOrders(n)
  BY DEF AutOf
<1>5. ColumnPart(VertexPerm(sigma)) = sigma
  BY <1>2, <1>3, <1>4, ColumnPartIs
<1> HIDE DEF A
<1>6. buffer' \in Seq(A) /\ ToSet(buffer') = ToSet(buffer) \cup {sigma}
  BY <1>1, <1>2, <1>3, <1>5, Appended
<1>7. found' = Generated(ToSet(buffer'), n)
  <2> DEFINE G == ToSet(buffer)
  <2>1. G \subseteq ColumnOrders(n) /\ sigma \in ColumnOrders(n)
    BY <1>2, <1>3, <1>4 DEF ToSet
  <2> HIDE DEF G
  <2>2. Closure(Generated(G, n), Generated(G, n) \cup {sigma}, n) = Generated(G \cup {sigma}, n)
    BY <1>3, <2>1, GeneratedGrows
  <2> QED BY <1>1, <1>3, <1>6, <2>2 DEF G
<1>8. GraphWords(code)' = GraphWords(code)
  BY <1>1, GraphWordsStay
<1>9. pc' = "nauty" /\ n' = n /\ code' = code /\ words' = words /\ left' = left
  BY <1>1
<1>10. AutOf(words, n)' = A
  BY <1>9 DEF A
<1> QED BY <1>3, <1>6, <1>7, <1>8, <1>9, <1>10 DEF KernelState

LEMMA ReturnsKeeps ==
  ASSUME KernelState, NEW getCanon, Returns(getCanon)
  PROVE  KernelState'
<1> DEFINE A == AutOf(words, n)
<1>1. /\ pc = "nauty" /\ found = A
      /\ orbits' = [j \in Columns |-> left + Min({sigma[j] : sigma \in found})]
      /\ gens' = buffer /\ order' = 1 /\ base' = 0 /\ level' = ToSet(buffer) /\ pc' = "order"
      /\ UNCHANGED <<n, code, words, left, found>>
  BY GraphAutIs DEF Returns
<1>2. /\ n \in Nat \ {0} /\ left = Cardinality(words)
      /\ code \in Requests[n] /\ words = GraphWords(code) /\ n \in DOMAIN Requests
      /\ buffer \in Seq(A) /\ found = Generated(ToSet(buffer), n)
  BY <1>1, CodeAskedAbout DEF KernelState
<1>3. GraphWords(code)' = GraphWords(code)
  BY <1>1, GraphWordsStay
<1>4. orbits' = [j \in 0 .. n - 1 |-> left + LeastImage(found, j)]
  BY <1>1 DEF Columns, LeastImage
<1>5. ChainIs(ToSet(buffer), 0, 1, A, n)
  <2>1. ToSet(buffer) \subseteq ColumnOrders(n)
    <3>1. A \subseteq ColumnOrders(n)
      BY DEF AutOf
    <3> HIDE DEF A
    <3> QED BY <1>2, <3>1 DEF ToSet
  <2>2. Cardinality(A) \in Nat
    <3>1. A \subseteq ColumnOrders(n)
      BY DEF AutOf
    <3> HIDE DEF A
    <3> QED BY <1>2, <3>1, PermutationsFinite, FS_Subset, FS_CardinalityType
  <2> HIDE DEF A
  <2> QED BY <1>1, <1>2, <2>1, <2>2 DEF ChainIs
<1> HIDE DEF A
<1>6. AutOf(words, n)' = A
  BY <1>1 DEF A
<1> QED BY <1>1, <1>2, <1>3, <1>4, <1>5, <1>6 DEF KernelState

LEMMA TrustFloatKeeps ==
  ASSUME KernelState, TrustFloat
  PROVE  KernelState'
<1>1. /\ pc = "order" /\ order' = Cardinality(found) /\ pc' \in {"store", "answered"}
      /\ UNCHANGED <<n, code, words, left, found, gens, orbits>>
  BY DEF TrustFloat, AfterOrder
<1>2. GraphWords(code)' = GraphWords(code)
  BY <1>1, GraphWordsStay
<1>3. AutOf(words, n)' = AutOf(words, n)
  BY <1>1
<1> QED BY <1>1, <1>2, <1>3 DEF KernelState

LEMMA SchreierLevelKeeps ==
  ASSUME KernelState, SchreierLevel
  PROVE  KernelState'
<1> DEFINE t == Transversal(base, level, n)
           K == SchreierGenerators(t, level, n)
           last == ChainEnds(level, base, t, K, n)
           N == IF Cardinality(DOMAIN t) = 1 THEN level ELSE K
           A == AutOf(words, n)
<1>1. /\ pc = "order" /\ order' = order * Cardinality(DOMAIN t)
      /\ last => pc' \in {"store", "answered"}
      /\ ~ last => pc' = "order" /\ base' = base + 1 /\ level' = N
      /\ UNCHANGED <<n, code, words, left, found, gens, orbits>>
  BY DEF SchreierLevel, AfterOrder, ChainEnds
<1>2. GraphWords(code)' = GraphWords(code)
  BY <1>1, GraphWordsStay
<1> HIDE DEF N, K, t
<1>3. ChainIs(level, base, order, A, n) /\ n \in Nat
  BY <1>1, CodeAskedAbout DEF KernelState
<1>4. /\ last => order * Cardinality(DOMAIN t) = Cardinality(A)
      /\ ~ last => ChainIs(N, base + 1, order * Cardinality(DOMAIN t), A, n)
  <2> HIDE DEF A
  <2> QED BY <1>3, ChainStep DEF N, K, t
<1> HIDE DEF A, last
<1>5. AutOf(words, n)' = A
  BY <1>1 DEF A
<1>6. pc' = "order" => ChainIs(level', base', order', A, n)
  BY <1>1, <1>4
<1>7. pc' \in {"store", "answered"} => order' = Cardinality(A)
  BY <1>1, <1>4
<1>8. pc' \in {"order", "store", "answered"} /\ A = AutOf(words, n)
  BY <1>1 DEF A
<1>9. /\ n \in DOMAIN Requests
      /\ code \in Requests[n] /\ words = GraphWords(code) /\ left = Cardinality(words)
      /\ gens \in Seq(A) /\ Generated(ToSet(gens), n) = A /\ found = A
      /\ orbits = [j \in 0 .. n - 1 |-> left + LeastImage(found, j)]
  BY <1>1, <1>8 DEF KernelState
<1>10. /\ n' = n /\ code' = code /\ words' = words /\ left' = left /\ found' = found
       /\ gens' = gens /\ orbits' = orbits
  BY <1>1
<1> QED BY <1>2, <1>5, <1>6, <1>7, <1>8, <1>9, <1>10 DEF KernelState

LEMMA StoreKeeps ==
  ASSUME KernelState, Store
  PROVE  KernelState'
<1>1. /\ pc = "store" /\ pc' = "answered"
      /\ UNCHANGED <<n, code, words, left, found, gens, orbits, order>>
  BY DEF Store
<1>2. GraphWords(code)' = GraphWords(code)
  BY <1>1, GraphWordsStay
<1>3. AutOf(words, n)' = AutOf(words, n)
  BY <1>1
<1> QED BY <1>1, <1>2, <1>3 DEF KernelState

LEMMA KernelKept == BackendSpec => []KernelInv
<1>1. BackendInit => KernelInv
  BY DEF BackendInit, KernelInit, KernelInv, KernelState
<1>2. KernelInv /\ [BackendNext]_backendVars => KernelInv'
  <2> SUFFICES ASSUME KernelInv, [BackendNext]_backendVars, backend' = "nauty" PROVE KernelState'
    BY DEF KernelInv
  <2>1. backend = "nauty" /\ KernelState
    BY DEF BackendNext, ViaKernel, ViaFeulner, ViaVerifier, ViaInvariants, backendVars, KernelInv
  <2>2. CASE UNCHANGED backendVars
    <3>1. UNCHANGED <<n, pc, code, words, left, buffer, found, gens, orbits, level, base, order>>
      BY <2>2 DEF backendVars, onlyNauty, answer
    <3>2. GraphWords(code)' = GraphWords(code)
      BY <3>1, GraphWordsStay
    <3>3. AutOf(words, n)' = AutOf(words, n)
      BY <3>1
    <3> QED BY <2>1, <3>1, <3>2, <3>3 DEF KernelState
  <2>3. CASE KernelNext
    <3>1. ASSUME NEW C \in Requests[n], NEW needLabel \in BOOLEAN, Call(C, needLabel) PROVE KernelState'
      BY <2>1, <3>1, CallKeeps
    <3>2. ASSUME NEW to, Reports(to) PROVE KernelState'
      BY <2>1, <3>2, ReportsKeeps
    <3>3. ASSUME NEW getCanon, Returns(getCanon) PROVE KernelState'
      BY <2>1, <3>3, ReturnsKeeps
    <3>4. CASE TrustFloat
      BY <2>1, <3>4, TrustFloatKeeps
    <3>5. CASE SchreierLevel
      BY <2>1, <3>5, SchreierLevelKeeps
    <3>6. CASE Store
      BY <2>1, <3>6, StoreKeeps
    <3> QED BY <2>3, <3>1, <3>2, <3>3, <3>4, <3>5, <3>6
            DEF KernelNext, NautyReports, TracesReports, FullReturns, SparseReturns, DenseReturns, TracesReturns
  <2> QED BY <2>1, <2>2, <2>3 DEF BackendNext, ViaKernel, ViaFeulner, ViaVerifier, ViaInvariants
<1> QED BY <1>1, <1>2, PTL DEF BackendSpec

(* What `canon_info` answers is right on whichever graph and by whichever    *)
(* engine it was found: the generators generate the group of the code, its   *)
(* order, off the float or by Schreier-Sims, is the order of that group, and *)
(* two columns share an orbit exactly if the group takes one to the other.   *)
THEOREM KernelAnswerAlwaysExact == BackendSpec => []KernelAnswerIsExact
<1>1. KernelInv => KernelAnswerIsExact
  <2> SUFFICES ASSUME KernelInv, backend = "nauty", pc \in {"store", "answered"}
               PROVE  /\ Generated(ToSet(gens), n) = AutOf(code, n)
                      /\ order = Cardinality(AutOf(code, n))
                      /\ \A i, j \in Columns :
                           orbits[i] = orbits[j] <=> \E sigma \in AutOf(code, n) : sigma[i] = j
    BY DEF KernelAnswerIsExact, InfoIsExact
  <2> DEFINE A == AutOf(code, n)
  <2>1. KernelState
    BY DEF KernelInv
  <2>2. n \in Nat \ {0} /\ AutOf(words, n) = A /\ IsGroup(A, n) /\ left \in Nat
    <3>1. /\ n \in Nat \ {0} /\ AutOf(words, n) = A /\ IsGroup(A, n)
          /\ words \subseteq SUBSET (0 .. n - 1)
      BY <2>1, CodeAskedAbout
    <3>2. IsFiniteSet(words)
      BY <3>1, AscendingLists
    <3>3. left = Cardinality(words)
      BY <2>1 DEF KernelState
    <3> QED BY <3>1, <3>2, <3>3, FS_CardinalityType
  <2>3. /\ Generated(ToSet(gens), n) = A /\ order = Cardinality(A) /\ found = A
        /\ orbits = [j \in 0 .. n - 1 |-> left + LeastImage(found, j)]
    BY <2>1, <2>2 DEF KernelState
  <2> HIDE DEF A
  <2>4. ASSUME NEW i \in Columns, NEW j \in Columns
        PROVE  orbits[i] = orbits[j] <=> \E sigma \in A : sigma[i] = j
    <3>0. i \in 0 .. n - 1 /\ j \in 0 .. n - 1
      BY DEF Columns
    <3>1. LeastImage(A, i) \in 0 .. n - 1 /\ LeastImage(A, j) \in 0 .. n - 1
          /\ (LeastImage(A, i) = LeastImage(A, j) <=> \E sigma \in A : sigma[i] = j)
      BY <2>2, <3>0, LeastImages
    <3>2. orbits[i] = left + LeastImage(A, i) /\ orbits[j] = left + LeastImage(A, j)
      BY <2>3, <3>0
    <3> QED BY <2>2, <3>1, <3>2
  <2> QED BY <2>3, <2>4 DEF A
<1> QED BY <1>1, KernelKept, PTL

-----------------------------------------------------------------------------
(* The labelling nauty returns.                                              *)

Sorts(s, S, key) ==
  /\ s \in [1 .. Cardinality(S) -> S]
  /\ \A i, h \in 1 .. Cardinality(S) : i # h => s[i] # s[h]
  /\ \A i, h \in 1 .. Cardinality(S) : i < h => key[s[i]] <= key[s[h]]

(* Every finite set can be put into the order of the numbers it is given.    *)
LEMMA SortedExists ==
  ASSUME NEW S, IsFiniteSet(S), NEW key, \A x \in S : key[x] \in Nat
  PROVE  \E s : Sorts(s, S, key)
<1> DEFINE C == {T \in SUBSET S : ~ \E s : Sorts(s, T, key)}
<1>1. ASSUME C # {} PROVE FALSE
  <2>1. C \subseteq SUBSET S
    OBVIOUS
  <2>2. PICK T \in C : \A U \in C : U \subseteq T => U = T
    <3> HIDE DEF C
    <3> QED BY <1>1, <2>1, LeastSet
  <2>3. T \subseteq S /\ ~ \E s : Sorts(s, T, key)
    OBVIOUS
  <2>4. IsFiniteSet(T) /\ Cardinality(T) \in Nat
    BY <2>3, FS_Subset, FS_CardinalityType
  <2>5. T # {}
    <3>1. ASSUME T = {} PROVE FALSE
      <4>1. Cardinality(T) = 0
        BY <3>1, FS_EmptySet
      <4> DEFINE s == [i \in 1 .. Cardinality(T) |-> i]
      <4>2. s \in [1 .. Cardinality(T) -> T] /\ \A i \in 1 .. Cardinality(T) : FALSE
        BY <4>1
      <4>3. Sorts(s, T, key)
        <5> HIDE DEF s
        <5> QED BY <4>2 DEF Sorts
      <4> QED BY <2>3, <4>3
    <3> QED BY <3>1
  <2>6. PICK x \in T : \A y \in T : key[y] <= key[x]
    <3> DEFINE K == {key[y] : y \in T}
    <3>1. \A y \in T : key[y] \in Nat
      BY <2>3
    <3>2. \E b \in Nat : \A y \in T : key[y] <= b
      <4> DEFINE Bounded == {X \in SUBSET T : \E b \in Nat : \A y \in X : key[y] <= b}
      <4>1. {} \in Bounded /\ Bounded \subseteq SUBSET T
        OBVIOUS
      <4>2. ASSUME NEW X \in SUBSET T, X # {}, X \ {Picked(X)} \in Bounded PROVE X \in Bounded
        <5>1. PICK b \in Nat : \A y \in X \ {Picked(X)} : key[y] <= b
          BY <4>2
        <5>2. Picked(X) \in X /\ key[Picked(X)] \in Nat
          BY <3>1, <4>2 DEF Picked
        <5> DEFINE a == key[Picked(X)]
        <5>3. \A y \in X : key[y] <= b + a
          <6>1. ASSUME NEW y \in X PROVE key[y] <= b + a
            <7>1. key[y] \in Nat
              BY <3>1
            <7>2. y = Picked(X) \/ key[y] <= b
              BY <5>1
            <7> QED BY <5>2, <7>1, <7>2
          <6> QED BY <6>1
        <5>4. b + a \in Nat
          BY <5>1, <5>2
        <5> HIDE DEF a
        <5> QED BY <5>3, <5>4
      <4> HIDE DEF Bounded
      <4>3. T \in Bounded
        BY <2>4, <4>1, <4>2, PickedInduction
      <4> QED BY <4>3 DEF Bounded
    <3>3. PICK b \in Nat : \A y \in T : key[y] <= b
      BY <3>2
    <3>4. K \subseteq 0 .. b
      BY <3>1, <3>3
    <3> HIDE DEF K
    <3>6. K # {}
      BY <2>5 DEF K
    <3>5. Max(K) \in K /\ \A k \in K : k <= Max(K)
      BY <3>4, <3>6, GreatestNumber
    <3> QED BY <3>5 DEF K
  <2> DEFINE U == T \ {x}
             l == Cardinality(U)
  <2>7. IsFiniteSet(U) /\ l \in Nat /\ Cardinality(T) = l + 1
    <3>1. IsFiniteSet(U) /\ Cardinality(U) = Cardinality(T) - 1
      BY <2>4, FS_RemoveElement
    <3>2. Cardinality(U) \in Nat
      BY <3>1, FS_CardinalityType
    <3> QED BY <2>4, <3>1, <3>2
  <2>8. \E s : Sorts(s, U, key)
    <3>1. U \subseteq T /\ U # T /\ U \in SUBSET S
      BY <2>3, <2>6
    <3>2. U \notin C
      <4> HIDE DEF C
      <4> QED BY <2>2, <3>1
    <3> QED BY <3>1, <3>2
  <2>9. PICK s : Sorts(s, U, key)
    BY <2>8
  <2> DEFINE r == [i \in 1 .. l + 1 |-> IF i = l + 1 THEN x ELSE s[i]]
  <2> HIDE DEF U, l
  <2>10. s \in [1 .. l -> U] /\ (\A i, h \in 1 .. l : i # h => s[i] # s[h])
         /\ \A i, h \in 1 .. l : i < h => key[s[i]] <= key[s[h]]
    BY <2>9 DEF Sorts, l
  <2>11. \A y \in U : y \in T /\ y # x
    BY DEF U
  <2>12. \A i \in 1 .. l + 1 : i = l + 1 \/ i \in 1 .. l
    BY <2>7
  <2>13. r \in [1 .. l + 1 -> T]
    BY <2>6, <2>10, <2>11, <2>12
  <2>14. \A i \in 1 .. l + 1 : (i = l + 1 => r[i] = x) /\ (i # l + 1 => i \in 1 .. l /\ r[i] = s[i])
    BY <2>12
  <2> HIDE DEF r
  <2>15. ASSUME NEW i \in 1 .. l + 1, NEW h \in 1 .. l + 1, i # h PROVE r[i] # r[h]
    BY <2>10, <2>11, <2>14, <2>15
  <2>16. ASSUME NEW i \in 1 .. l + 1, NEW h \in 1 .. l + 1, i < h PROVE key[r[i]] <= key[r[h]]
    <3>1. i # l + 1 /\ i \in 1 .. l /\ r[i] = s[i]
      BY <2>7, <2>14, <2>16
    <3>2. CASE h = l + 1
      BY <2>6, <2>10, <2>11, <2>14, <3>1, <3>2
    <3>3. CASE h # l + 1
      BY <2>10, <2>14, <2>16, <3>1, <3>3
    <3> QED BY <3>2, <3>3
  <2>17. Sorts(r, T, key)
    BY <2>7, <2>13, <2>15, <2>16 DEF Sorts
  <2> QED BY <2>3, <2>17
<1>2. S \notin C
  BY <1>1
<1> QED BY <1>2

(* An order of the columns as nauty lists them, behind the words.            *)
ListedAs(c, l) == [i \in 1 .. n |-> l + c[i - 1]]

(* What `lab` says of the columns, inverted.                                 *)
LEMMA LabelInverts ==
  ASSUME n \in Nat \ {0}, left \in Nat, NEW front \in [1 .. left -> 0 .. left - 1],
         NEW c \in ColumnOrders(n)
  PROVE  ColumnOrder(front \o ListedAs(c, left)) = InverseOf(c)
<1> DEFINE back == ListedAs(c, left)
           lab == front \o back
           v == InverseOf(c)
           D == 0 .. n - 1
           at(j) == CHOOSE i \in DOMAIN lab : lab[i] = left + j
<1>1. c \in [D -> D] /\ v \in [D -> D] /\ \A j \in D : v[c[j]] = j /\ c[v[j]] = j
  BY InverseIs, PermutationIs
<1>2. front \in Seq(0 .. left - 1) /\ Len(front) = left
  OBVIOUS
<1>3. back \in Seq(Nat) /\ Len(back) = n /\ \A i \in 1 .. n : back[i] = left + c[i - 1] /\ c[i - 1] \in D
  <2>1. \A i \in 1 .. n : i - 1 \in D /\ c[i - 1] \in D
    <3> SUFFICES ASSUME NEW i \in 1 .. n PROVE i - 1 \in D /\ c[i - 1] \in D
      OBVIOUS
    <3>1. i - 1 \in D
      OBVIOUS
    <3> HIDE DEF D
    <3> QED BY <3>1, <1>1
  <2>2. back \in [1 .. n -> Nat]
    BY <2>1 DEF ListedAs
  <2>3. \A i \in 1 .. n : back[i] = left + c[i - 1]
    BY DEF ListedAs
  <2> HIDE DEF back
  <2> QED BY <2>1, <2>2, <2>3
<1> HIDE DEF back, v
<1>4. /\ DOMAIN lab = 1 .. left + n
      /\ \A i \in 1 .. left : lab[i] \in 0 .. left - 1
      /\ \A i \in 1 .. n : lab[left + i] = left + c[i - 1] /\ c[i - 1] \in D
  <2>0. front \in Seq(Nat) /\ back \in Seq(Nat)
    BY <1>2, <1>3
  <2>1. DOMAIN lab = 1 .. left + n /\ \A i \in 1 .. left + n : lab[i] = IF i <= left THEN front[i] ELSE back[i - left]
    <3>1. /\ Len(front \o back) = Len(front) + Len(back) /\ front \o back \in Seq(Nat)
          /\ \A i \in 1 .. Len(front) + Len(back) :
               (front \o back)[i] = IF i <= Len(front) THEN front[i] ELSE back[i - Len(front)]
      BY <2>0
    <3> HIDE DEF lab
    <3>2. lab \in Seq(Nat) /\ Len(lab) = left + n
          /\ \A i \in 1 .. left + n : lab[i] = IF i <= left THEN front[i] ELSE back[i - left]
      BY <1>2, <1>3, <3>1 DEF lab
    <3> QED BY <3>2
  <2> HIDE DEF lab
  <2>2. ASSUME NEW i \in 1 .. left PROVE lab[i] \in 0 .. left - 1
    <3>1. i \in 1 .. left + n /\ i <= left
      OBVIOUS
    <3>2. lab[i] = front[i]
      BY <2>1, <3>1
    <3> QED BY <3>2
  <2>3. ASSUME NEW i \in 1 .. n PROVE lab[left + i] = left + c[i - 1] /\ c[i - 1] \in D
    <3>1. left + i \in 1 .. left + n /\ ~ (left + i <= left) /\ (left + i) - left = i
      OBVIOUS
    <3>2. lab[left + i] = back[i]
      BY <2>1, <3>1
    <3> QED BY <1>3, <3>2
  <2> QED BY <2>1, <2>2, <2>3
<1> HIDE DEF lab
<1>5. ASSUME NEW j \in D PROVE at(j) = left + v[j] + 1
  <2>0. \A k \in D : k + 1 \in 1 .. n /\ (k + 1) - 1 = k /\ k \in Nat /\ left + (k + 1) \in 1 .. left + n
    OBVIOUS
  <2>00. v[j] \in D /\ c[v[j]] = j
    BY <1>1
  <2>1. v[j] + 1 \in 1 .. n /\ (v[j] + 1) - 1 = v[j] /\ v[j] \in Nat /\ left + (v[j] + 1) \in 1 .. left + n
    BY <2>0, <2>00
  <2>2. left + (v[j] + 1) \in DOMAIN lab /\ lab[left + (v[j] + 1)] = left + j
    <3>1. lab[left + (v[j] + 1)] = left + c[(v[j] + 1) - 1]
      BY <1>4, <2>1
    <3> QED BY <1>4, <2>00, <2>1, <3>1
  <2>3. ASSUME NEW i \in DOMAIN lab, lab[i] = left + j PROVE i = left + v[j] + 1
    <3>1. i \in 1 .. left + n /\ ~ (i \in 1 .. left)
      <4>1. ~ (left + j \in 0 .. left - 1)
        OBVIOUS
      <4> QED BY <1>4, <2>3, <4>1
    <3> DEFINE k == i - left
    <3>2. k \in 1 .. n /\ i = left + k /\ k - 1 \in D
      BY <3>1
    <3> HIDE DEF k
    <3>3. left + c[k - 1] = left + j /\ c[k - 1] \in D
      BY <1>4, <2>3, <3>2
    <3>4. c[k - 1] = j
      BY <3>3
    <3>5. v[j] = k - 1
      BY <1>1, <3>2, <3>4
    <3> QED BY <3>2, <3>5
  <2>4. \E i \in DOMAIN lab : lab[i] = left + j
    BY <2>2
  <2>5. at(j) \in DOMAIN lab /\ lab[at(j)] = left + j
    BY <2>4
  <2> HIDE DEF at
  <2> QED BY <2>3, <2>5
<1>6. ASSUME NEW j \in D
      PROVE  Cardinality({i \in 1 .. at(j) - 1 : lab[i] >= left}) = v[j]
  <2>0. v[j] \in D
    BY <1>1
  <2>1. v[j] \in Nat /\ at(j) - 1 = left + v[j] /\ v[j] <= n - 1
    <3>1. at(j) = left + v[j] + 1
      BY <1>5
    <3>2. v[j] \in Nat /\ v[j] <= n - 1
      BY <2>0
    <3> HIDE DEF at
    <3> QED BY <3>1, <3>2
  <2>2. {i \in 1 .. at(j) - 1 : lab[i] >= left} = left + 1 .. left + v[j]
    <3>1. ASSUME NEW i \in 1 .. left + v[j] PROVE lab[i] >= left <=> i \in left + 1 .. left + v[j]
      <4>1. CASE i \in 1 .. left
        BY <1>4, <2>1, <4>1
      <4>2. CASE ~ (i \in 1 .. left)
        <5> DEFINE k == i - left
        <5>1. k \in 1 .. n /\ i = left + k
          BY <2>1, <4>2
        <5> HIDE DEF k
        <5>2. lab[i] = left + c[k - 1] /\ c[k - 1] \in Nat
          BY <1>4, <5>1
        <5> QED BY <2>1, <4>2, <5>2
      <4> QED BY <4>1, <4>2
    <3>2. \A i \in left + 1 .. left + v[j] : i \in 1 .. left + v[j]
      BY <2>1
    <3> HIDE DEF at
    <3> QED BY <2>1, <3>1, <3>2
  <2>3. Cardinality(left + 1 .. left + v[j]) = v[j]
    <3>1. left + 1 \in Int /\ left + v[j] \in Int
      BY <2>1
    <3>2. Cardinality(left + 1 .. left + v[j])
            = IF left + 1 > left + v[j] THEN 0 ELSE (left + v[j]) - (left + 1) + 1
      BY <3>1, FS_Interval
    <3> QED BY <2>1, <3>2
  <2> QED BY <2>2, <2>3
<1>7. ColumnOrder(lab) = [j \in D |-> Cardinality({i \in 1 .. at(j) - 1 : lab[i] >= left})]
  BY DEF ColumnOrder, Columns
<1>8. ColumnOrder(lab) = v
  <2> DEFINE f == [j \in D |-> Cardinality({i \in 1 .. at(j) - 1 : lab[i] >= left})]
  <2>1. \A j \in D : f[j] = v[j]
    BY <1>6
  <2>2. f = v
    <3>1. DOMAIN f = D
      OBVIOUS
    <3>2. f = [j \in D |-> f[j]]
      OBVIOUS
    <3> HIDE DEF f
    <3> QED BY <1>1, <2>1, <3>2
  <2> QED BY <1>7, <2>2
<1> QED BY <1>8 DEF lab, back, v

(* The orders of the columns by ascending degree.                            *)
DegreesAscend(c) ==
  /\ c \in ColumnOrders(n)
  /\ \A i, h \in 0 .. n - 1 : i < h => DegreeIn(words, c[i]) <= DegreeIn(words, c[h])

Unlisted(lab) == [i \in 0 .. n - 1 |-> lab[i + 1] - left]

GraphGiven ==
  n \in Nat \ {0} /\ words \subseteq SUBSET (0 .. n - 1) /\ left = Cardinality(words)

LEMMA GraphNumbers ==
  ASSUME GraphGiven
  PROVE  /\ left \in Nat /\ IsFiniteSet(words) /\ \A j : DegreeIn(words, j) \in Nat
         /\ Cardinality(left .. left + n - 1) = n /\ Cardinality(0 .. left - 1) = left
<1>1. IsFiniteSet(words) /\ left \in Nat /\ n \in Nat \ {0}
  BY AscendingLists, FS_CardinalityType DEF GraphGiven
<1>2. ASSUME NEW j PROVE DegreeIn(words, j) \in Nat
  <2> DEFINE T == {w \in words : j \in w}
  <2>1. IsFiniteSet(T)
    BY <1>1, FS_Subset
  <2>2. Cardinality(T) \in Nat
    <3> HIDE DEF T
    <3> QED BY <2>1, FS_CardinalityType
  <2> QED BY <2>2 DEF DegreeIn
<1>3. Cardinality(left .. left + n - 1) = n
  <2>1. left \in Int /\ left + n - 1 \in Int /\ ~ (left > left + n - 1)
    BY <1>1
  <2>2. Cardinality(left .. left + n - 1) = (left + n - 1) - left + 1
    BY <2>1, FS_Interval
  <2> QED BY <1>1, <2>2
<1>4. Cardinality(0 .. left - 1) = left
  <2>1. 0 \in Int /\ left - 1 \in Int
    BY <1>1
  <2>2. Cardinality(0 .. left - 1) = IF 0 > left - 1 THEN 0 ELSE (left - 1) - 0 + 1
    BY <2>1, FS_Interval
  <2> QED BY <1>1, <2>2
<1> QED BY <1>1, <1>2, <1>3, <1>4

LEMMA OrdersAre ==
  ASSUME GraphGiven
  PROVE  /\ \A lab \in InCells(left .. left + n - 1) : DegreesAscend(Unlisted(lab)) /\ lab = ListedAs(Unlisted(lab), left)
         /\ \A c : DegreesAscend(c) => ListedAs(c, left) \in InCells(left .. left + n - 1)
                                 /\ Unlisted(ListedAs(c, left)) = c
<1> DEFINE D == 0 .. n - 1
           B == left .. left + n - 1
<1>1. /\ left \in Nat /\ n \in Nat \ {0} /\ Cardinality(B) = n /\ \A j : DegreeIn(words, j) \in Nat
  BY GraphNumbers DEF GraphGiven
<1>2. ASSUME NEW x \in B, NEW y \in B
      PROVE  ~ Earlier(x, y) <=> DegreeIn(words, y - left) <= DegreeIn(words, x - left)
  <2>1. ~ (x < left) /\ ~ (y < left)
    BY <1>1
  <2>2. VertexKey(x) = <<1, DegreeIn(words, x - left)>> /\ VertexKey(y) = <<1, DegreeIn(words, y - left)>>
    BY <2>1 DEF VertexKey, Degree, DegreeIn
  <2>3. Earlier(x, y) <=> DegreeIn(words, x - left) < DegreeIn(words, y - left)
    BY <2>2 DEF Earlier
  <2>4. DegreeIn(words, x - left) \in Nat /\ DegreeIn(words, y - left) \in Nat
    BY <1>1
  <2> QED BY <2>3, <2>4
<1>3. \A lab : lab \in InCells(B) <=>
         /\ lab \in [1 .. n -> B] /\ \A i, h \in 1 .. n : i # h => lab[i] # lab[h]
         /\ \A i, h \in 1 .. n : i < h => ~ Earlier(lab[h], lab[i])
  <2> SUFFICES ASSUME NEW lab
               PROVE  lab \in InCells(B) <=>
                        /\ lab \in [1 .. n -> B] /\ \A i, h \in 1 .. n : i # h => lab[i] # lab[h]
                        /\ \A i, h \in 1 .. n : i < h => ~ Earlier(lab[h], lab[i])
    OBVIOUS
  <2> HIDE DEF B
  <2>1. lab \in SetToSeqs(B) <=> lab \in [1 .. n -> B] /\ \A i, h \in 1 .. n : i # h => lab[i] # lab[h]
    BY <1>1 DEF SetToSeqs
  <2>2. lab \in [1 .. n -> B] => DOMAIN lab = 1 .. n
    OBVIOUS
  <2> QED BY <2>1, <2>2 DEF InCells
<1>4. ASSUME NEW lab \in InCells(B) PROVE DegreesAscend(Unlisted(lab)) /\ lab = ListedAs(Unlisted(lab), left)
  <2> DEFINE c == Unlisted(lab)
  <2>1. /\ lab \in [1 .. n -> B] /\ \A i, h \in 1 .. n : i # h => lab[i] # lab[h]
        /\ \A i, h \in 1 .. n : i < h => ~ Earlier(lab[h], lab[i])
    BY <1>3
  <2>2. \A i \in D : i + 1 \in 1 .. n /\ lab[i + 1] \in B /\ c[i] = lab[i + 1] - left
    BY <1>1, <2>1 DEF Unlisted
  <2>3. \A x \in B : x - left \in D /\ x = left + (x - left) /\ x \in Nat
    BY <1>1
  <2>4. c \in [D -> D]
    <3>1. c = [i \in D |-> c[i]]
      BY DEF Unlisted
    <3>2. \A i \in D : c[i] \in D
      BY <2>2, <2>3
    <3> HIDE DEF c
    <3> QED BY <3>1, <3>2
  <2> HIDE DEF c, B
  <2>5. ASSUME NEW i \in D, NEW h \in D, c[i] = c[h] PROVE i = h
    <3>1. lab[i + 1] = lab[h + 1]
      BY <2>2, <2>3, <2>5
    <3>2. i + 1 = h + 1
      BY <2>1, <2>2, <3>1
    <3> QED BY <3>2
  <2>6. c \in ColumnOrders(n)
    BY <1>1, <2>4, <2>5, PermutationIs
  <2>7. ASSUME NEW i \in D, NEW h \in D, i < h PROVE DegreeIn(words, c[i]) <= DegreeIn(words, c[h])
    <3>1. i + 1 < h + 1 /\ i + 1 \in 1 .. n /\ h + 1 \in 1 .. n
      BY <2>2, <2>7
    <3>2. ~ Earlier(lab[h + 1], lab[i + 1])
      BY <2>1, <3>1
    <3>3. DegreeIn(words, lab[i + 1] - left) <= DegreeIn(words, lab[h + 1] - left)
      BY <1>2, <2>2, <3>2 DEF B
    <3> QED BY <2>2, <3>3
  <2>8. lab = ListedAs(c, left)
    <3>1. \A i \in 1 .. n : i - 1 \in D /\ (i - 1) + 1 = i
      BY <1>1
    <3>2. \A i \in 1 .. n : lab[i] = left + c[i - 1]
      BY <2>2, <2>3, <3>1
    <3>3. lab = [i \in 1 .. n |-> lab[i]]
      BY <2>1
    <3> QED BY <3>2, <3>3 DEF ListedAs
  <2> QED BY <2>6, <2>7, <2>8 DEF DegreesAscend, c
<1>5. ASSUME NEW c, DegreesAscend(c) PROVE ListedAs(c, left) \in InCells(B) /\ Unlisted(ListedAs(c, left)) = c
  <2> DEFINE lab == ListedAs(c, left)
  <2>1. /\ c \in [D -> D] /\ \A i, h \in D : c[i] = c[h] => i = h
        /\ \A i, h \in D : i < h => DegreeIn(words, c[i]) <= DegreeIn(words, c[h])
    BY <1>1, <1>5, PermutationIs DEF DegreesAscend
  <2>2. \A i \in 1 .. n : i - 1 \in D /\ lab[i] = left + c[i - 1] /\ c[i - 1] \in D
    <3>1. \A i \in 1 .. n : i - 1 \in D
      BY <1>1
    <3>2. \A i \in 1 .. n : c[i - 1] \in D
      BY <2>1, <3>1
    <3>3. \A i \in 1 .. n : lab[i] = left + c[i - 1]
      BY DEF ListedAs
    <3> QED BY <3>1, <3>2, <3>3
  <2>3. \A x \in D : left + x \in B /\ (left + x) - left = x
    BY <1>1
  <2>4. lab \in [1 .. n -> B]
    <3>1. lab = [i \in 1 .. n |-> lab[i]]
      BY DEF ListedAs
    <3>2. \A i \in 1 .. n : lab[i] \in B
      BY <2>2, <2>3
    <3> HIDE DEF lab
    <3> QED BY <3>1, <3>2
  <2> HIDE DEF lab, B
  <2>5. ASSUME NEW i \in 1 .. n, NEW h \in 1 .. n, i # h PROVE lab[i] # lab[h]
    <3>1. i - 1 # h - 1
      BY <2>5
    <3>2. c[i - 1] # c[h - 1]
      BY <2>1, <2>2, <3>1
    <3> QED BY <2>2, <2>3, <3>2
  <2>6. ASSUME NEW i \in 1 .. n, NEW h \in 1 .. n, i < h PROVE ~ Earlier(lab[h], lab[i])
    <3>1. i - 1 < h - 1 /\ i - 1 \in D /\ h - 1 \in D
      BY <2>2, <2>6
    <3>2. DegreeIn(words, c[i - 1]) <= DegreeIn(words, c[h - 1])
      BY <2>1, <3>1
    <3>3. lab[i] - left = c[i - 1] /\ lab[h] - left = c[h - 1] /\ lab[i] \in B /\ lab[h] \in B
      BY <2>2, <2>3
    <3> QED BY <1>2, <3>2, <3>3 DEF B
  <2>7. lab \in InCells(B)
    BY <1>3, <2>4, <2>5, <2>6
  <2>8. Unlisted(lab) = c
    <3>1. \A i \in D : i + 1 \in 1 .. n /\ (i + 1) - 1 = i
      BY <1>1
    <3>2. \A i \in D : lab[i + 1] - left = c[i]
      BY <2>2, <2>3, <3>1
    <3>3. c = [i \in D |-> c[i]]
      BY <2>1
    <3> QED BY <3>2, <3>3 DEF Unlisted
  <2> QED BY <2>7, <2>8 DEF lab
<1> QED BY <1>4, <1>5

(* The columns and the words can be listed.                                  *)
LEMMA OrdersExist ==
  ASSUME GraphGiven
  PROVE  /\ \E c : DegreesAscend(c)
         /\ \E lab : lab \in InCells(0 .. left - 1)
         /\ \A lab \in InCells(0 .. left - 1) : lab \in [1 .. left -> 0 .. left - 1]
<1>1. /\ left \in Nat /\ n \in Nat \ {0} /\ \A j : DegreeIn(words, j) \in Nat
      /\ Cardinality(0 .. left - 1) = left /\ IsFiniteSet(words)
  BY GraphNumbers DEF GraphGiven
<1>2. \E c : DegreesAscend(c)
  <2> DEFINE D == 0 .. n - 1
             key == [j \in D |-> DegreeIn(words, j)]
  <2>1. \A j \in D : key[j] \in Nat /\ key[j] = DegreeIn(words, j)
    BY <1>1
  <2>2. IsFiniteSet(D) /\ Cardinality(D) = n
    BY <1>1, CoordinatesFinite, FS_Interval
  <2>3. \E s : Sorts(s, D, key)
    <3> HIDE DEF D, key
    <3> QED BY <2>1, <2>2, SortedExists
  <2>4. PICK s : Sorts(s, D, key)
    BY <2>3
  <2>5. /\ s \in [1 .. n -> D]
        /\ \A i, h \in 1 .. n : i # h => s[i] # s[h]
        /\ \A i, h \in 1 .. n : i < h => key[s[i]] <= key[s[h]]
    BY <2>2, <2>4 DEF Sorts
  <2> HIDE DEF key
  <2> DEFINE c == [i \in D |-> s[i + 1]]
  <2>6. \A i \in D : i + 1 \in 1 .. n /\ s[i + 1] \in D
    BY <1>1, <2>5
  <2>7. c \in [D -> D] /\ \A i \in D : c[i] = s[i + 1]
    BY <2>6
  <2> HIDE DEF c
  <2>8. ASSUME NEW i \in D, NEW h \in D, c[i] = c[h] PROVE i = h
    <3>1. i + 1 = h + 1
      BY <2>5, <2>6, <2>7, <2>8
    <3> QED BY <3>1
  <2>9. c \in ColumnOrders(n)
    BY <1>1, <2>7, <2>8, PermutationIs
  <2>10. ASSUME NEW i \in D, NEW h \in D, i < h PROVE DegreeIn(words, c[i]) <= DegreeIn(words, c[h])
    <3>1. i + 1 < h + 1 /\ i + 1 \in 1 .. n /\ h + 1 \in 1 .. n
      BY <2>6, <2>10
    <3>2. key[s[i + 1]] <= key[s[h + 1]]
      BY <2>5, <3>1
    <3> QED BY <2>1, <2>6, <2>7, <3>2
  <2> QED BY <2>9, <2>10 DEF DegreesAscend
<1> DEFINE V == 0 .. left - 1
<1>3. \A lab : lab \in SetToSeqs(V) <=> lab \in [1 .. left -> V] /\ \A i, h \in 1 .. left : i # h => lab[i] # lab[h]
  <2> SUFFICES ASSUME NEW lab
               PROVE  lab \in SetToSeqs(V) <=> lab \in [1 .. left -> V] /\ \A i, h \in 1 .. left : i # h => lab[i] # lab[h]
    OBVIOUS
  <2>1. Cardinality(V) = left
    BY <1>1
  <2> HIDE DEF V
  <2> QED BY <2>1 DEF SetToSeqs
<1>4. \A lab \in InCells(V) : lab \in [1 .. left -> V]
  BY <1>3 DEF InCells
<1>5. \E lab : lab \in InCells(V)
  <2> DEFINE key == [v \in V |-> Weight(WordVertices[v + 1])]
  <2>1. \A v \in V : key[v] \in Nat
    <3> SUFFICES ASSUME NEW v \in V PROVE Weight(WordVertices[v + 1]) \in Nat
      OBVIOUS
    <3>1. WordVertices \in Seq(words) /\ Len(WordVertices) = left
      <4>1. Ascending(words) \in Seq(words)
        BY AscendingLists DEF Lists, GraphGiven
      <4>2. Len(Ascending(words)) = left
        BY <1>1 DEF Ascending, GraphGiven
      <4> QED BY <4>1, <4>2 DEF WordVertices
    <3>2. v + 1 \in 1 .. left
      BY <1>1
    <3>3. WordVertices[v + 1] \in words
      BY <3>1, <3>2
    <3>4. IsFiniteSet(WordVertices[v + 1])
      BY <3>3, <1>1, CoordinatesFinite DEF GraphGiven
    <3> QED BY <3>4, FS_CardinalityType DEF Weight
  <2>2. \A x, y \in V : ~ Earlier(x, y) <=> key[y] <= key[x]
    <3> SUFFICES ASSUME NEW x \in V, NEW y \in V PROVE ~ Earlier(x, y) <=> key[y] <= key[x]
      OBVIOUS
    <3>1. x < left /\ y < left
      BY <1>1
    <3>2. VertexKey(x) = <<0, key[x]>> /\ VertexKey(y) = <<0, key[y]>>
      BY <3>1 DEF VertexKey
    <3>3. key[x] \in Nat /\ key[y] \in Nat
      BY <2>1
    <3> HIDE DEF key
    <3>4. Earlier(x, y) <=> key[x] < key[y]
      BY <3>2 DEF Earlier
    <3> QED BY <3>3, <3>4
  <2>3. IsFiniteSet(V)
    BY <1>1, CoordinatesFinite
  <2>4. \E s : Sorts(s, V, key)
    <3> HIDE DEF V, key
    <3> QED BY <2>1, <2>3, SortedExists
  <2>5. PICK s : Sorts(s, V, key)
    BY <2>4
  <2> HIDE DEF key
  <2>6. /\ s \in [1 .. left -> V]
        /\ \A i, h \in 1 .. left : i # h => s[i] # s[h]
        /\ \A i, h \in 1 .. left : i < h => key[s[i]] <= key[s[h]]
    BY <1>1, <2>5 DEF Sorts
  <2> HIDE DEF V
  <2>7. s \in SetToSeqs(V) /\ DOMAIN s = 1 .. left
    BY <1>3, <2>6
  <2>8. \A i, h \in 1 .. left : i < h => ~ Earlier(s[h], s[i])
    BY <2>2, <2>6
  <2>9. s \in InCells(V)
    BY <2>7, <2>8 DEF InCells
  <2> QED BY <2>9
<1> QED BY <1>2, <1>4, <1>5

(* The arrangements of a set of words with the degrees of the columns        *)
(* ascending, and the one that nauty settles on: the same for all            *)
(* arrangements of the words.                                                *)
Rises(U, m) == \A i, h \in 0 .. m - 1 : i < h => DegreeIn(U, i) <= DegreeIn(U, h)

Graphs(W, m) == {U \in {MovedSet(W, tau) : tau \in ColumnOrders(m)} : Rises(U, m)}

Settled(W, m) == CHOOSE U \in Graphs(W, m) : TRUE

LEMMA InverseTwice ==
  ASSUME NEW m \in Nat, NEW p \in ColumnOrders(m)
  PROVE  InverseOf(InverseOf(p)) = p
<1> DEFINE v == InverseOf(p)
           w == InverseOf(v)
           D == 0 .. m - 1
<1>1. v \in ColumnOrders(m) /\ \A j \in D : v[p[j]] = j /\ p[v[j]] = j
  BY InverseIs
<1> HIDE DEF v
<1>2. w \in ColumnOrders(m) /\ \A j \in D : w[v[j]] = j /\ v[w[j]] = j
  BY <1>1, InverseIs
<1> HIDE DEF w
<1>3. p \in [D -> D] /\ w \in [D -> D]
  BY <1>2, PermutationIs
<1>4. \A j \in D : w[j] = p[j]
  <2> SUFFICES ASSUME NEW j \in D PROVE w[j] = p[j]
    OBVIOUS
  <2>1. p[j] \in D
    BY <1>3
  <2>2. v[p[j]] = j
    BY <1>1
  <2>3. w[v[p[j]]] = p[j]
    BY <1>2, <2>1
  <2> QED BY <2>2, <2>3
<1>5. w = p
  BY <1>3, <1>4, SamePermutation
<1> QED BY <1>5 DEF w, v

LEMMA LabelFacts ==
  ASSUME GraphGiven
  PROVE  /\ Settled(words, n) \in Graphs(words, n)
         /\ ColumnOrder(CanonicalLab) \in ColumnOrders(n)
         /\ MovedSet(words, ColumnOrder(CanonicalLab)) = Settled(words, n)
<1> DEFINE D == 0 .. n - 1
           CO == ColumnOrders(n)
           orders == InCells(left .. left + n - 1)
           fronts == InCells(0 .. left - 1)
           image(lab) == MovedSet(words, InverseOf(Unlisted(lab)))
           images == {image(lab) : lab \in orders}
           best == CHOOSE graph \in images : TRUE
           front == CHOOSE lab \in fronts : TRUE
           back == CHOOSE lab \in orders : image(lab) = best
<1>1. n \in Nat \ {0} /\ words \subseteq SUBSET D /\ left \in Nat
  BY GraphNumbers DEF GraphGiven
<1>2. /\ \A lab \in orders : DegreesAscend(Unlisted(lab)) /\ lab = ListedAs(Unlisted(lab), left)
      /\ \A c : DegreesAscend(c) => ListedAs(c, left) \in orders /\ Unlisted(ListedAs(c, left)) = c
  BY OrdersAre
<1>3. /\ \E c : DegreesAscend(c)
      /\ \E lab : lab \in fronts
      /\ \A lab \in fronts : lab \in [1 .. left -> 0 .. left - 1]
  BY OrdersExist
<1>4. CanonicalLab = front \o back
  BY DEF CanonicalLab, Columns, Unlisted
<1>5. ASSUME NEW c \in CO
      PROVE  /\ InverseOf(c) \in CO
             /\ Rises(MovedSet(words, InverseOf(c)), n) <=> DegreesAscend(c)
  <2> DEFINE v == InverseOf(c)
             U == MovedSet(words, v)
  <2>1. v \in CO /\ (\A j \in D : v[c[j]] = j) /\ c \in [D -> D]
    BY <1>1, InverseIs, PermutationIs
  <2> HIDE DEF v
  <2>2. \A j \in D : DegreeIn(U, v[j]) = DegreeIn(words, j)
    <3> SUFFICES ASSUME NEW j \in D PROVE DegreeIn(U, v[j]) = DegreeIn(words, j)
      OBVIOUS
    <3>1. n \in Nat /\ v \in ColumnOrders(n) /\ words \subseteq SUBSET (0 .. n - 1) /\ j \in 0 .. n - 1
      BY <1>1, <2>1
    <3>2. DegreeIn(MovedSet(words, v), v[j]) = DegreeIn(words, j)
      BY <3>1, MovedDegree
    <3> QED BY <3>2
  <2> HIDE DEF U
  <2>3. \A i \in D : DegreeIn(U, i) = DegreeIn(words, c[i])
    <3>1. \A i \in D : DegreeIn(U, v[c[i]]) = DegreeIn(words, c[i]) /\ v[c[i]] = i
      BY <2>1, <2>2
    <3> QED BY <3>1
  <2>4. Rises(U, n) <=> \A i, h \in D : i < h => DegreeIn(words, c[i]) <= DegreeIn(words, c[h])
    BY <2>3 DEF Rises
  <2> QED BY <2>1, <2>4 DEF DegreesAscend, U, v
<1> HIDE DEF orders, fronts
<1>6. images = Graphs(words, n)
  <2>1. ASSUME NEW lab \in orders PROVE image(lab) \in Graphs(words, n)
    <3> DEFINE c == Unlisted(lab)
    <3>1. c \in CO /\ DegreesAscend(c)
      BY <1>2 DEF DegreesAscend
    <3> HIDE DEF c
    <3>2. InverseOf(c) \in CO /\ Rises(MovedSet(words, InverseOf(c)), n)
      BY <1>5, <3>1
    <3> QED BY <3>2 DEF Graphs, c
  <2>2. ASSUME NEW U \in Graphs(words, n) PROVE U \in images
    <3>1. PICK tau \in CO : U = MovedSet(words, tau) /\ Rises(U, n)
      BY DEF Graphs
    <3> DEFINE c == InverseOf(tau)
    <3>2. c \in CO /\ InverseOf(c) = tau
      BY <1>1, <3>1, InverseIs, InverseTwice
    <3> HIDE DEF c
    <3>3. DegreesAscend(c)
      BY <1>5, <3>1, <3>2
    <3>4. ListedAs(c, left) \in orders /\ Unlisted(ListedAs(c, left)) = c
      BY <1>2, <3>3
    <3>5. image(ListedAs(c, left)) = U
      BY <3>1, <3>2, <3>4
    <3> QED BY <3>4, <3>5
  <2> HIDE DEF image
  <2> QED BY <2>1, <2>2
<1>7. images # {}
  <2>1. PICK c : DegreesAscend(c)
    BY <1>3
  <2>2. ListedAs(c, left) \in orders
    BY <1>2, <2>1
  <2> HIDE DEF image
  <2> QED BY <2>2
<1>8. best \in images /\ best = Settled(words, n)
  <2>1. best \in images
    <3> HIDE DEF images
    <3> QED BY <1>7
  <2>2. best = Settled(words, n)
    BY <1>6 DEF Settled
  <2> QED BY <2>1, <2>2
<1>9. back \in orders /\ image(back) = best
  <2>1. \E lab \in orders : image(lab) = best
    <3> HIDE DEF best, image
    <3> QED BY <1>8
  <2> HIDE DEF best, image
  <2> QED BY <2>1
<1>10. front \in [1 .. left -> 0 .. left - 1]
  <2>1. front \in fronts
    BY <1>3
  <2> HIDE DEF front
  <2> QED BY <1>3, <2>1
<1> DEFINE c == Unlisted(back)
<1> HIDE DEF front, back, best
<1>11. c \in CO /\ back = ListedAs(c, left)
  BY <1>2, <1>9 DEF DegreesAscend
<1>12. ColumnOrder(CanonicalLab) = InverseOf(c)
  <2> HIDE DEF c
  <2>1. ColumnOrder(front \o ListedAs(c, left)) = InverseOf(c)
    BY <1>1, <1>10, <1>11, LabelInverts
  <2> QED BY <1>4, <1>11, <2>1
<1>13. InverseOf(c) \in CO
  <2> HIDE DEF c
  <2> QED BY <1>5, <1>11
<1>14. MovedSet(words, InverseOf(c)) = Settled(words, n)
  BY <1>8, <1>9
<1>15. Settled(words, n) \in Graphs(words, n)
  BY <1>6, <1>8
<1> QED BY <1>12, <1>13, <1>14, <1>15

(* Arrangements of each other settle on the same.                            *)
LEMMA SettledAlike ==
  ASSUME NEW m \in Nat, NEW W, W \subseteq SUBSET (0 .. m - 1), NEW sigma \in ColumnOrders(m)
  PROVE  Settled(MovedSet(W, sigma), m) = Settled(W, m)
<1> DEFINE CO == ColumnOrders(m)
           M == MovedSet(W, sigma)
<1>1. ASSUME NEW tau \in CO
      PROVE  \E rho \in CO : MovedSet(M, tau) = MovedSet(W, rho)
  <2>1. MovesTwice(W, tau, sigma)
    BY MovedTwice
  <2>2. Compose(tau, sigma) \in CO
    <3>1. \A p, q \in CO : Compose(p, q) \in CO
      BY ComposeIs, PermutationIs
    <3> QED BY <3>1
  <2> QED BY <2>1, <2>2 DEF MovesTwice
<1>2. ASSUME NEW rho \in CO
      PROVE  \E tau \in CO : MovedSet(W, rho) = MovedSet(M, tau)
  <2> DEFINE v == InverseOf(sigma)
             tau == Compose(rho, v)
  <2>1. v \in CO
    BY InverseIs
  <2>2. tau \in CO
    <3>1. \A p, q \in CO : Compose(p, q) \in CO
      BY ComposeIs, PermutationIs
    <3> QED BY <2>1, <3>1
  <2>3. Compose(tau, sigma) = rho
    <3>1. Compose(Compose(rho, v), sigma) = Compose(rho, Compose(v, sigma))
      BY <2>1, ComposeLaws
    <3>2. Compose(v, sigma) = Identity(m) /\ Compose(rho, Identity(m)) = rho
      BY ComposeLaws
    <3> QED BY <3>1, <3>2
  <2> HIDE DEF tau
  <2>4. MovesTwice(W, tau, sigma)
    BY <2>2, MovedTwice
  <2>5. MovedSet(M, tau) = MovedSet(W, rho)
    BY <2>3, <2>4 DEF MovesTwice
  <2> QED BY <2>2, <2>5
<1> HIDE DEF M, CO
<1>3. {MovedSet(M, tau) : tau \in CO} = {MovedSet(W, rho) : rho \in CO}
  BY <1>1, <1>2
<1>4. Graphs(M, m) = Graphs(W, m)
  BY <1>3 DEF Graphs, CO
<1> QED BY <1>4 DEF Settled, M

-----------------------------------------------------------------------------
(* Groups carried along with the columns.                                    *)

Conjugates(G, sigma) == {Conjugated(g, sigma) : g \in G}

LEMMA ConjugatedFacts ==
  ASSUME NEW m \in Nat, NEW sigma \in ColumnOrders(m)
  PROVE  /\ \A p \in ColumnOrders(m) : Conjugated(p, sigma) \in ColumnOrders(m)
         /\ \A p, q \in ColumnOrders(m) :
              Compose(Conjugated(p, sigma), Conjugated(q, sigma)) = Conjugated(Compose(p, q), sigma)
         /\ Conjugated(Identity(m), sigma) = Identity(m)
         /\ \A p \in ColumnOrders(m) : Compose(Conjugated(p, sigma), sigma) = Compose(sigma, p)
         /\ \A p, q \in ColumnOrders(m) : Conjugated(p, sigma) = Conjugated(q, sigma) => p = q
<1> DEFINE CO == ColumnOrders(m)
           v == InverseOf(sigma)
           e == Identity(m)
           k(p) == Conjugated(p, sigma)
<1>1. v \in CO /\ sigma \in CO /\ e \in CO
  BY InverseIs, IdentityIs
<1>2. \A p, q \in CO : Compose(p, q) \in CO
  BY ComposeIs, PermutationIs
<1>3. \A p, q, r \in CO : Compose(Compose(p, q), r) = Compose(p, Compose(q, r))
  BY ComposeLaws
<1>4. \A p \in CO : Compose(e, p) = p /\ Compose(p, e) = p
  BY ComposeLaws
<1>5. Compose(v, sigma) = e /\ Compose(sigma, v) = e
  BY ComposeLaws
<1>6. \A p : k(p) = Compose(sigma, Compose(p, v))
  BY DEF Conjugated
<1> HIDE DEF CO, v, e, k
<1>7. \A p \in CO : k(p) \in CO
  BY <1>1, <1>2, <1>6
<1>8. ASSUME NEW p \in CO PROVE Compose(k(p), sigma) = Compose(sigma, p)
  <2>1. Compose(Compose(sigma, Compose(p, v)), sigma) = Compose(sigma, Compose(Compose(p, v), sigma))
    BY <1>1, <1>2, <1>3
  <2>2. Compose(Compose(p, v), sigma) = Compose(p, Compose(v, sigma))
    BY <1>1, <1>3
  <2>3. Compose(p, e) = p
    BY <1>4
  <2> QED BY <1>5, <1>6, <2>1, <2>2, <2>3
<1>9. ASSUME NEW p \in CO, NEW q \in CO PROVE Compose(k(p), k(q)) = k(Compose(p, q))
  <2>1. Compose(k(p), Compose(sigma, Compose(q, v))) = Compose(Compose(k(p), sigma), Compose(q, v))
    BY <1>1, <1>2, <1>3, <1>7
  <2>2. Compose(Compose(sigma, p), Compose(q, v)) = Compose(sigma, Compose(p, Compose(q, v)))
    BY <1>1, <1>2, <1>3
  <2>3. Compose(p, Compose(q, v)) = Compose(Compose(p, q), v)
    BY <1>1, <1>3
  <2> QED BY <1>6, <1>8, <2>1, <2>2, <2>3
<1>10. k(e) = e
  BY <1>1, <1>4, <1>5, <1>6
<1>11. ASSUME NEW p \in CO, NEW q \in CO, k(p) = k(q) PROVE p = q
  <2>1. Compose(sigma, p) = Compose(sigma, q)
    BY <1>8, <1>11
  <2>2. \A r \in CO : Compose(v, Compose(sigma, r)) = r
    <3>1. \A r \in CO : Compose(v, Compose(sigma, r)) = Compose(Compose(v, sigma), r)
      BY <1>1, <1>3
    <3> QED BY <1>4, <1>5, <3>1
  <2> QED BY <2>1, <2>2
<1> QED BY <1>7, <1>8, <1>9, <1>10, <1>11 DEF k, e, CO

(* What the conjugates generate are the conjugates of what is generated.     *)
LEMMA GeneratedConjugates ==
  ASSUME NEW m \in Nat, NEW sigma \in ColumnOrders(m), NEW G, G \subseteq ColumnOrders(m)
  PROVE  /\ Conjugates(G, sigma) \subseteq ColumnOrders(m)
         /\ Generated(Conjugates(G, sigma), m) = Conjugates(Generated(G, m), sigma)
<1> DEFINE CO == ColumnOrders(m)
           e == Identity(m)
           H == Generated(G, m)
           k(p) == Conjugated(p, sigma)
           B == Conjugates(G, sigma)
           K == Conjugates(H, sigma)
           J == Generated(B, m)
<1>1. /\ \A p \in CO : k(p) \in CO
      /\ \A p, q \in CO : Compose(k(p), k(q)) = k(Compose(p, q))
      /\ k(e) = e
  BY ConjugatedFacts
<1>2. /\ H \subseteq CO /\ e \in H /\ G \subseteq H
      /\ \A p, q \in H : Compose(p, q) \in H
      /\ \A T : e \in T /\ LeftClosed(T, G) => H \subseteq T
  BY GeneratedFacts DEF IsGroup
<1>3. B = {k(g) : g \in G} /\ K = {k(p) : p \in H}
  BY DEF Conjugates
<1>4. G \subseteq CO
  OBVIOUS
<1> HIDE DEF CO, H, k, B, K, J, e
<1>5. B \subseteq CO /\ K \subseteq CO /\ B \subseteq K
  BY <1>1, <1>2, <1>3, <1>4
<1>6. IsGroup(K, m)
  <2>1. e \in K
    BY <1>1, <1>2, <1>3
  <2>2. \A p, q \in H : Compose(k(p), k(q)) = k(Compose(p, q)) /\ k(Compose(p, q)) \in K
    BY <1>1, <1>2, <1>3
  <2>3. \A x, y \in K : Compose(x, y) \in K
    BY <1>3, <2>2
  <2> QED BY <1>5, <2>1, <2>3, ProductsMakeGroup DEF CO, e
<1>7. J \subseteq K
  BY <1>5, <1>6, GeneratedWithin DEF J
<1>8. IsGroup(J, m) /\ B \subseteq J
  BY <1>5, GeneratedFacts DEF J, CO
<1>9. e \in J /\ \A x, y \in J : Compose(x, y) \in J
  BY <1>8 DEF IsGroup, e
<1>10. K \subseteq J
  <2> DEFINE T == {p \in H : k(p) \in J}
  <2>1. e \in T
    BY <1>1, <1>2, <1>9
  <2>2. \A g \in G : \A s \in T : Compose(g, s) \in T
    <3>1. ASSUME NEW g \in G, NEW s \in T PROVE Compose(g, s) \in H /\ k(Compose(g, s)) \in J
      <4>1. k(g) \in J /\ k(s) \in J /\ g \in CO /\ s \in CO /\ g \in H /\ s \in H
        BY <1>2, <1>3, <1>8
      <4>2. Compose(k(g), k(s)) = k(Compose(g, s))
        BY <1>1, <4>1
      <4> QED BY <1>2, <1>9, <4>1, <4>2
    <3> QED BY <3>1
  <2> HIDE DEF T
  <2>3. H \subseteq T
    BY <1>2, <2>1, <2>2 DEF LeftClosed
  <2> QED BY <1>3, <2>3 DEF T
<1>11. J = K
  BY <1>7, <1>10
<1> QED BY <1>5, <1>11 DEF B, J, K, H, CO

(* The group of arranged words.                                              *)
LEMMA MovedAut ==
  ASSUME NEW m \in Nat, NEW sigma \in ColumnOrders(m), NEW W, W \subseteq SUBSET (0 .. m - 1)
  PROVE  /\ AutOf(MovedSet(W, sigma), m) = Conjugates(AutOf(W, m), sigma)
         /\ Cardinality(AutOf(MovedSet(W, sigma), m)) = Cardinality(AutOf(W, m))
<1> DEFINE CO == ColumnOrders(m)
           M == MovedSet(W, sigma)
           v == InverseOf(sigma)
           e == Identity(m)
           k(p) == Conjugated(p, sigma)
           A == AutOf(W, m)
           B == AutOf(M, m)
           mv(X, p) == MovedSet(X, p)
<1>1. v \in CO /\ sigma \in CO /\ e \in CO
  BY InverseIs, IdentityIs
<1>2. \A p, q \in CO : Compose(p, q) \in CO
  BY ComposeIs, PermutationIs
<1>3. \A p, q, r \in CO : Compose(Compose(p, q), r) = Compose(p, Compose(q, r))
  BY ComposeLaws
<1>4. \A p \in CO : Compose(e, p) = p /\ Compose(p, e) = p
  BY ComposeLaws
<1>5. Compose(v, sigma) = e /\ Compose(sigma, v) = e
  BY ComposeLaws
<1>6. /\ \A p \in CO : k(p) \in CO /\ Compose(k(p), sigma) = Compose(sigma, p)
      /\ \A p, q \in CO : k(p) = k(q) => p = q
      /\ \A p : k(p) = Compose(sigma, Compose(p, v))
  BY ConjugatedFacts DEF Conjugated
<1>7. ASSUME NEW p \in CO, NEW q \in CO PROVE mv(mv(W, q), p) = mv(W, Compose(p, q))
  <2>1. MovesTwice(W, p, q)
    BY MovedTwice
  <2> QED BY <2>1 DEF MovesTwice
<1>8. mv(W, e) = W
  BY MovedTwice, IdentityIs
<1>9. /\ A = {p \in CO : mv(W, p) = W} /\ B = {p \in CO : mv(M, p) = M} /\ M = mv(W, sigma)
  BY DEF AutOf
<1>10. Conjugates(A, sigma) = {k(p) : p \in A}
  BY DEF Conjugates
<1>11. IsFiniteSet(A)
  <2>1. A \subseteq CO
    BY <1>9
  <2> HIDE DEF A
  <2> QED BY <2>1, PermutationsFinite, FS_Subset
<1>12. ASSUME NEW p \in CO, NEW q \in CO PROVE mv(mv(W, q), p) = mv(W, Compose(p, q))
  BY <1>7
<1> HIDE DEF CO, M, v, e, k, A, B, mv
<1>13. ASSUME NEW p \in A PROVE k(p) \in B
  <2>1. p \in CO /\ mv(W, p) = W /\ k(p) \in CO
    BY <1>6, <1>9
  <2>2. mv(M, k(p)) = mv(W, Compose(k(p), sigma))
    BY <1>1, <1>7, <1>9, <2>1
  <2>3. mv(W, Compose(sigma, p)) = mv(mv(W, p), sigma)
    BY <1>1, <1>7, <2>1
  <2> QED BY <1>6, <1>9, <2>1, <2>2, <2>3
<1>14. ASSUME NEW q \in B PROVE \E p \in A : k(p) = q
  <2> DEFINE t == Compose(q, sigma)
             p == Compose(v, t)
  <2>1. q \in CO /\ mv(M, q) = M /\ t \in CO /\ p \in CO
    BY <1>1, <1>2, <1>9
  <2>2. mv(W, p) = mv(mv(W, t), v)
    BY <1>1, <1>7, <2>1
  <2>3. mv(W, t) = mv(mv(W, sigma), q)
    BY <1>1, <1>7, <2>1
  <2>4. mv(mv(W, sigma), v) = mv(W, e)
    BY <1>1, <1>5, <1>7
  <2>5. mv(W, p) = W
    BY <1>8, <1>9, <2>1, <2>2, <2>3, <2>4
  <2>6. k(p) = q
    <3>1. Compose(p, v) = Compose(v, Compose(t, v))
      BY <1>1, <1>3, <2>1
    <3>2. Compose(t, v) = q
      <4>1. Compose(Compose(q, sigma), v) = Compose(q, Compose(sigma, v))
        BY <1>1, <1>3, <2>1
      <4>2. Compose(q, e) = q
        BY <1>4, <2>1
      <4> QED BY <1>5, <4>1, <4>2
    <3>3. Compose(sigma, Compose(v, q)) = Compose(Compose(sigma, v), q)
      BY <1>1, <1>3, <2>1
    <3>4. Compose(e, q) = q
      BY <1>4, <2>1
    <3> QED BY <1>5, <1>6, <3>1, <3>2, <3>3, <3>4
  <2> HIDE DEF p
  <2> QED BY <1>9, <2>1, <2>5, <2>6
<1>15. B = {k(p) : p \in A}
  BY <1>13, <1>14
<1>16. Cardinality(B) = Cardinality(A)
  <2> DEFINE f == [p \in A |-> k(p)]
  <2>1. \A p \in A : f[p] = k(p)
    OBVIOUS
  <2> HIDE DEF f
  <2>2. OneToOne(f, A, B)
    <3>1. \A p \in A : p \in CO
      BY <1>9
    <3> QED BY <1>6, <1>13, <1>14, <2>1, <3>1 DEF OneToOne
  <2> QED BY <1>11, <2>2, SameNumber
<1> QED BY <1>10, <1>15, <1>16 DEF A, B, M

(* `Reach` ends with the least set of points that holds S and every image of *)
(* its members.                                                              *)
LEMMA ReachFacts ==
  ASSUME NEW m \in Nat, NEW G, NEW S, S \subseteq 0 .. m - 1
  PROVE  /\ S \subseteq Reach(S, G, 0 .. m - 1) /\ Reach(S, G, 0 .. m - 1) \subseteq 0 .. m - 1
         /\ \A g \in G : \A j \in Reach(S, G, 0 .. m - 1) :
              g[j] \in 0 .. m - 1 => g[j] \in Reach(S, G, 0 .. m - 1)
         /\ \A T : S \subseteq T /\ (\A g \in G : \A j \in T : g[j] \in T) => Reach(S, G, 0 .. m - 1) \subseteq T
<1> DEFINE A == 0 .. m - 1
           more(T) == {g[j] : g \in G, j \in T} \cap A
           next == [T \in SUBSET A |-> more(T)]
           h == CHOOSE h : h = [T \in SUBSET A |-> IF more(T) \subseteq T THEN T ELSE h[T \cup more(T)]]
<1>1. Reach(S, G, A) = h[S]
  BY DEF Reach
<1>3. IsFiniteSet(A) /\ S \subseteq A
  BY CoordinatesFinite
<1> HIDE DEF A
<1>4. Monotone(next, A)
  <2>1. \A T \in SUBSET A : more(T) \in SUBSET A
    OBVIOUS
  <2>2. \A U, T : U \subseteq T => more(U) \subseteq more(T)
    OBVIOUS
  <2> HIDE DEF more
  <2> QED BY <2>1, <2>2 DEF Monotone
<1>5. \A f : IsClosing(f, next, A) <=>
             f = [T \in SUBSET A |-> IF more(T) \subseteq T THEN T ELSE f[T \cup more(T)]]
  <2>1. \A T \in SUBSET A : next[T] = more(T)
    OBVIOUS
  <2> HIDE DEF next, more
  <2>2. ASSUME NEW f
        PROVE  [T \in SUBSET A |-> IF next[T] \subseteq T THEN T ELSE f[T \cup next[T]]]
                 = [T \in SUBSET A |-> IF more(T) \subseteq T THEN T ELSE f[T \cup more(T)]]
    BY <2>1
  <2> QED BY <2>2 DEF IsClosing
<1>6. IsClosing(h, next, A)
  <2>1. \E f : IsClosing(f, next, A)
    <3> HIDE DEF next
    <3> QED BY <1>3, <1>4, ClosingEnds
  <2>2. \E f : f = [T \in SUBSET A |-> IF more(T) \subseteq T THEN T ELSE f[T \cup more(T)]]
    <3> HIDE DEF next, more
    <3> QED BY <1>5, <2>1
  <2>3. h = [T \in SUBSET A |-> IF more(T) \subseteq T THEN T ELSE h[T \cup more(T)]]
    <3> HIDE DEF next, more
    <3> QED BY <2>2
  <2> HIDE DEF next, more, h
  <2> QED BY <1>5, <2>3
<1>7. Closes(h, next, A, S)
  <2> HIDE DEF next, h
  <2> QED BY <1>3, <1>4, <1>6, ClosingEnds
<1>8. S \subseteq h[S] /\ h[S] \in SUBSET A /\ next[h[S]] \subseteq h[S]
      /\ \A T \in SUBSET A : S \subseteq T /\ next[T] \subseteq T => h[S] \subseteq T
  <2> HIDE DEF next, h
  <2> QED BY <1>7 DEF Closes
<1> DEFINE H == h[S]
<1> HIDE DEF h
<1>9. \A g \in G : \A j \in H : g[j] \in A => g[j] \in H
  <2>0. \A T \in SUBSET A : next[T] = more(T)
    <3> HIDE DEF more
    <3> QED OBVIOUS
  <2>1. more(H) \subseteq H
    <3> HIDE DEF next, more
    <3>1. H \in SUBSET A /\ next[H] \subseteq H
      BY <1>8
    <3> HIDE DEF H
    <3> QED BY <2>0, <3>1
  <2> HIDE DEF H
  <2> QED BY <2>1
<1>10. ASSUME NEW T, S \subseteq T, \A g \in G : \A j \in T : g[j] \in T PROVE H \subseteq T
  <2> DEFINE U == T \cap A
  <2>1. U \in SUBSET A /\ S \subseteq U
    BY <1>3, <1>10
  <2>2. more(U) \subseteq U
    BY <1>10
  <2>3. next[U] \subseteq U
    <3>1. \A X \in SUBSET A : next[X] = more(X)
      OBVIOUS
    <3> HIDE DEF more, next
    <3> QED BY <2>1, <2>2, <3>1
  <2>4. H \subseteq U
    <3> HIDE DEF U, next, H
    <3> QED BY <1>8, <2>1, <2>3 DEF H
  <2> QED BY <2>4
<1> QED BY <1>1, <1>8, <1>9, <1>10 DEF A

(* The unions of `compute_column_orbits` end with the orbits of the group    *)
(* that the permutations generate.                                           *)
LEMMA ColumnOrbitsAre ==
  ASSUME NEW m \in Nat, NEW G, G \subseteq ColumnOrders(m)
  PROVE  ComputeColumnOrbits(G, m) = [j \in 0 .. m - 1 |-> LeastImage(Generated(G, m), j)]
<1> DEFINE D == 0 .. m - 1
           H == Generated(G, m)
           B == G \cup {InverseOf(g) : g \in G}
           e == Identity(m)
           CO == ColumnOrders(m)
<1>1. /\ IsGroup(H, m) /\ G \subseteq H
      /\ \A T : e \in T /\ LeftClosed(T, G) => H \subseteq T
  BY GeneratedFacts
<1>2. /\ H \subseteq CO /\ e \in H /\ (\A p, q \in H : Compose(p, q) \in H) /\ \A p \in H : InverseOf(p) \in H
  BY <1>1 DEF IsGroup
<1>3. Laws(H, m)
  BY <1>2, GroupLaws
<1>4. B \subseteq H
  BY <1>1, <1>2
<1>5. G \subseteq B
  OBVIOUS
<1>6. (\A p \in H : p \in [D -> D]) /\ \A h \in D : e[h] = h
  BY <1>3 DEF Laws
<1>7. ASSUME NEW j \in D PROVE OrbitMin(j, G, D) = LeastImage(H, j)
  <2> DEFINE S == {j}
             R == Reach(S, B, D)
             O == {p[j] : p \in H}
  <2>0. S \subseteq D
    OBVIOUS
  <2> HIDE DEF S, B
  <2>1. /\ S \subseteq R /\ R \subseteq D
        /\ \A g \in B : \A i \in R : g[i] \in D => g[i] \in R
        /\ \A T : S \subseteq T /\ (\A g \in B : \A i \in T : g[i] \in T) => R \subseteq T
    BY <2>0, ReachFacts
  <2> HIDE DEF R, H, e, CO
  <2>2. O \subseteq R
    <3> DEFINE T == {p \in H : p[j] \in R}
    <3>1. e \in T
      BY <1>2, <1>6, <2>1 DEF S
    <3>2. ASSUME NEW g \in G, NEW s \in T PROVE Compose(g, s) \in T
      <4>1. g \in H /\ g \in B /\ s \in H /\ s[j] \in R
        BY <1>1, <1>5
      <4>2. Compose(g, s)[j] = g[s[j]]
        BY <1>3, <4>1, ComposeAt
      <4>3. g[s[j]] \in D
        BY <1>6, <2>1, <4>1
      <4>4. g[s[j]] \in R
        BY <2>1, <4>1, <4>3
      <4> QED BY <1>2, <4>1, <4>2, <4>4
    <3> HIDE DEF T
    <3>3. H \subseteq T
      BY <1>1, <3>1, <3>2 DEF LeftClosed
    <3> QED BY <3>3 DEF T
  <2>3. R \subseteq O
    <3>1. S \subseteq O
      BY <1>2, <1>6 DEF S
    <3>2. ASSUME NEW g \in B, NEW i \in O PROVE g[i] \in O
      <4>1. PICK p \in H : i = p[j]
        OBVIOUS
      <4>2. g \in H
        BY <1>4
      <4>3. Compose(g, p)[j] = g[p[j]] /\ Compose(g, p) \in H
        <5>0. Laws(H, m) /\ g \in H /\ p \in H /\ j \in 0 .. m - 1
          BY <1>3, <4>1, <4>2
        <5> HIDE DEF H, D
        <5>1. Compose(g, p)[j] = g[p[j]]
          BY <5>0, ComposeAt
        <5> QED BY <1>2, <4>2, <5>1
      <4> QED BY <4>1, <4>3
    <3> HIDE DEF O
    <3> QED BY <2>1, <3>1, <3>2
  <2>4. R = O
    BY <2>2, <2>3
  <2>5. OrbitMin(j, G, D) = Min(R)
    BY DEF OrbitMin, R, S, B
  <2> QED BY <2>4, <2>5 DEF LeastImage
<1> HIDE DEF H
<1>8. ComputeColumnOrbits(G, m) = [j \in D |-> OrbitMin(j, G, D)]
  BY DEF ComputeColumnOrbits
<1> QED BY <1>7, <1>8 DEF H

(* Arranging the columns changes no weight.                                  *)
LEMMA MovedWeightEnum ==
  ASSUME n \in Nat, NEW sigma \in ColumnOrders(n), NEW C, C \subseteq SUBSET (0 .. n - 1)
  PROVE  WeightEnum(MovedSet(C, sigma)) = WeightEnum(C)
<1> DEFINE M == MovedSet(C, sigma)
<1>1. ASSUME NEW w \in 0 .. n
      PROVE  Cardinality({v \in M : Weight(v) = w}) = Cardinality({v \in C : Weight(v) = w})
  <2> DEFINE P == {v \in C : Weight(v) = w}
             Q == {v \in M : Weight(v) = w}
  <2>1. \A v \in C : Weight(Permuted(v, sigma)) = Weight(v)
    BY PermutedFacts
  <2>2. \A v \in C : Permuted(v, sigma) \in M
    BY DEF MovedSet
  <2>3. PickedAlike(P, Q, C, sigma)
    BY <2>1, <2>2 DEF PickedAlike
  <2> HIDE DEF P, Q
  <2>4. OneToOne(Mover(n, sigma), P, Q) /\ IsFiniteSet(P)
    BY <2>3, MovedPart
  <2>5. Cardinality(Q) = Cardinality(P)
    BY <2>4, SameNumber
  <2> QED BY <2>5 DEF P, Q
<1> QED BY <1>1 DEF WeightEnum

(* The form that the labelling gives a code depends on its class only.       *)
FormOf(C) == Span(Settled(GraphWords(C), n))

LEMMA FormFacts ==
  ASSUME n \in Nat \ {0}, NEW C, IsCode(C, n), NEW sigma \in ColumnOrders(n)
  PROVE  IsCode(MovedSet(C, sigma), n) /\ FormOf(MovedSet(C, sigma)) = FormOf(C)
<1> DEFINE M == MovedSet(C, sigma)
           D == SUBSET (0 .. n - 1)
<1>1. C \subseteq D /\ Zero \in C /\ \A u, v \in C : Xor(u, v) \in C
  BY DEF IsCode
<1>2. IsCode(M, n)
  <2>1. M \subseteq D
    BY <1>1, MovedFacts
  <2>2. /\ Permuted(Zero, sigma) = Zero
        /\ \A u, v \in D : Permuted(Xor(u, v), sigma) = Xor(Permuted(u, sigma), Permuted(v, sigma))
    BY PermutedFacts
  <2>3. Zero \in M
    BY <1>1, <2>2 DEF MovedSet
  <2>4. ASSUME NEW x \in M, NEW y \in M PROVE Xor(x, y) \in M
    <3>1. PICK u \in C : x = Permuted(u, sigma)
      BY DEF MovedSet
    <3>2. PICK v \in C : y = Permuted(v, sigma)
      BY DEF MovedSet
    <3>3. Xor(x, y) = Permuted(Xor(u, v), sigma) /\ Xor(u, v) \in C
      BY <1>1, <2>2, <3>1, <3>2
    <3> QED BY <3>3 DEF MovedSet
  <2> HIDE DEF M
  <2> QED BY <2>1, <2>3, <2>4 DEF IsCode
<1>3. \A X : CollectLowWeightCodewords(X) = LowWeightCodewords(X, n)
  BY DEF CollectLowWeightCodewords, LowWeightCodewords, Lightest, FullCodewords
<1>4. LowWeightCodewords(M, n) = MovedSet(LowWeightCodewords(C, n), sigma)
  BY <1>1, MovedGraphWords
<1>5. GraphWords(M) = MovedSet(GraphWords(C), sigma)
  <2> DEFINE L == LowWeightCodewords(C, n)
  <2>1. GraphWords(C) = IF L = {} THEN C ELSE L
    BY <1>3 DEF GraphWords
  <2>2. GraphWords(M) = IF LowWeightCodewords(M, n) = {} THEN M ELSE LowWeightCodewords(M, n)
    BY <1>3 DEF GraphWords
  <2> HIDE DEF L
  <2>3. LowWeightCodewords(M, n) = MovedSet(L, sigma)
    BY <1>4 DEF L
  <2>4. MovedSet(L, sigma) = {} <=> L = {}
    BY DEF MovedSet
  <2> QED BY <2>1, <2>2, <2>3, <2>4
<1>6. GraphWords(C) \subseteq D
  BY GraphWordsKeepGroup
<1> DEFINE W == GraphWords(C)
<1> HIDE DEF M
<1>7. Settled(MovedSet(W, sigma), n) = Settled(W, n)
  <2> HIDE DEF W
  <2>1. W \subseteq D
    BY <1>6 DEF W
  <2> QED BY <2>1, SettledAlike
<1>8. FormOf(M) = FormOf(C)
  BY <1>5, <1>7 DEF FormOf
<1> QED BY <1>2, <1>8 DEF M

(* What the labelling makes of a code is its form.                           *)
LEMMA FormIsMade ==
  ASSUME n \in Nat \ {0}, NEW C, IsCode(C, n), NEW sigma \in ColumnOrders(n),
         MovedSet(GraphWords(C), sigma) = Settled(GraphWords(C), n)
  PROVE  MovedSet(C, sigma) = FormOf(C)
<1>1. GraphWords(C) \subseteq SUBSET (0 .. n - 1) /\ Span(GraphWords(C)) = C
  BY GraphWordsKeepGroup
<1> DEFINE W == GraphWords(C)
<1> HIDE DEF W
<1>2. Span(MovedSet(W, sigma)) = MovedSet(Span(W), sigma)
  BY <1>1, MovedSpan DEF W
<1> QED BY <1>1, <1>2 DEF FormOf, W

-----------------------------------------------------------------------------
(* The secondary cache.                                                      *)

SmallGraphOf(C, m) == IF LowWeightCodewords(C, m) = {} THEN C ELSE LowWeightCodewords(C, m)

ClassForm(C, m) == Span(Settled(SmallGraphOf(C, m), m))

WeightsCounted(C, m) == [w \in 0 .. m |-> Cardinality({v \in C : Weight(v) = w})]

LEMMA FormsAre ==
  ASSUME NEW C
  PROVE  ClassForm(C, n) = FormOf(C) /\ WeightsCounted(C, n) = WeightEnum(C)
<1>1. CollectLowWeightCodewords(C) = LowWeightCodewords(C, n)
  BY DEF CollectLowWeightCodewords, LowWeightCodewords, Lightest, FullCodewords
<1> QED BY <1>1 DEF ClassForm, FormOf, SmallGraphOf, GraphWords, WeightsCounted, WeightEnum

GroupKept(e, m) ==
  /\ Generated(ToSet(e.aut_generators), m) = AutOf(e.canonical, m)
  /\ e.aut_order = Cardinality(AutOf(e.canonical, m))
  /\ e.column_orbits = [j \in 0 .. m - 1 |-> LeastImage(AutOf(e.canonical, m), j)]

(* What is filed is the form of its class, with its own group.               *)
EntryIs(e, key, m) ==
  /\ IsCode(e.canonical, m) /\ ClassForm(e.canonical, m) = e.canonical
  /\ WeightsCounted(e.canonical, m) = key
  /\ GroupKept(e, m)

BucketIs(b, key, m) ==
  /\ \E S : b \in Seq(S)
  /\ \A i \in DOMAIN b : EntryIs(b[i], key, m)
  /\ \A i, h \in DOMAIN b : b[i].canonical = b[h].canonical => i = h

(* A worker that keeps the cache has the labelling when it files an answer. *)
LabelState ==
  /\ pc = "nauty" /\ maintain => wantLabel
  /\ pc = "store" => maintain
  /\ pc \in {"order", "store"} /\ maintain =>
       label \in ColumnOrders(n) /\ MovedSet(words, label) = Settled(words, n)

CacheState == \A key \in DOMAIN cache : BucketIs(cache[key], key, n)

CacheInv == backend = "nauty" => LabelState /\ CacheState

(* An answer carried to the canonical form is the answer for that form.      *)
LEMMA EntryIsMade ==
  ASSUME KernelState, LabelState, pc = "store", NEW e,
         e.canonical = CanonicalForm(code, label),
         e.aut_generators = [i \in DOMAIN gens |-> Conjugated(gens[i], label)],
         e.aut_order = order,
         e.column_orbits = ComputeColumnOrbits(ToSet(e.aut_generators), n)
  PROVE  EntryIs(e, WeightEnum(code), n)
<1> DEFINE E == MovedSet(code, label)
           G == ToSet(gens)
           A == AutOf(code, n)
           B == AutOf(E, n)
           K == ToSet(e.aut_generators)
<1>1. /\ n \in Nat \ {0} /\ IsCode(code, n) /\ words = GraphWords(code)
      /\ gens \in Seq(AutOf(words, n)) /\ AutOf(words, n) = A
      /\ Generated(G, n) = A /\ order = Cardinality(A)
  BY CodeAskedAbout DEF KernelState
<1>2. label \in ColumnOrders(n) /\ MovedSet(GraphWords(code), label) = Settled(GraphWords(code), n)
  <2>1. words = GraphWords(code)
    BY <1>1
  <2>2. label \in ColumnOrders(n) /\ MovedSet(words, label) = Settled(words, n)
    BY DEF LabelState
  <2> QED BY <2>1, <2>2
<1>3. code \subseteq SUBSET (0 .. n - 1)
  BY <1>1 DEF IsCode
<1>4. G \subseteq ColumnOrders(n)
  <2>1. \A i \in DOMAIN gens : gens[i] \in AutOf(words, n)
    BY <1>1
  <2> QED BY <2>1 DEF ToSet, AutOf
<1>5. K = Conjugates(G, label)
  BY DEF ToSet, Conjugates
<1>6. B = Conjugates(A, label) /\ Cardinality(B) = Cardinality(A)
  <2> HIDE DEF A
  <2> QED BY <1>1, <1>2, <1>3, MovedAut DEF A
<1>7. Conjugates(G, label) \subseteq ColumnOrders(n)
      /\ Generated(Conjugates(G, label), n) = Conjugates(Generated(G, n), label)
  <2> HIDE DEF G
  <2> QED BY <1>1, <1>2, <1>4, GeneratedConjugates
<1>8. Generated(K, n) = B /\ K \subseteq ColumnOrders(n)
  BY <1>1, <1>5, <1>6, <1>7
<1>9. E = FormOf(code)
  BY <1>1, <1>2, FormIsMade
<1>10. IsCode(E, n) /\ FormOf(E) = FormOf(code)
  BY <1>1, <1>2, FormFacts
<1>11. WeightEnum(E) = WeightEnum(code)
  BY <1>1, <1>2, <1>3, MovedWeightEnum
<1>12. ComputeColumnOrbits(K, n) = [j \in 0 .. n - 1 |-> LeastImage(B, j)]
  <2> HIDE DEF K, B
  <2> QED BY <1>1, <1>8, ColumnOrbitsAre
<1>13. e.canonical = E
  BY DEF CanonicalForm
<1>14. ClassForm(E, n) = FormOf(E) /\ WeightsCounted(E, n) = WeightEnum(E)
  BY FormsAre
<1>15. GroupKept(e, n)
  <2>1. e.aut_order = Cardinality(B)
    BY <1>1, <1>6
  <2>2. e.column_orbits = ComputeColumnOrbits(K, n)
    OBVIOUS
  <2>3. AutOf(e.canonical, n) = B
    BY <1>13
  <2> HIDE DEF B, E, A, G
  <2> QED BY <1>8, <1>12, <2>1, <2>2, <2>3 DEF GroupKept
<1> HIDE DEF E
<1> QED BY <1>9, <1>10, <1>11, <1>13, <1>14, <1>15 DEF EntryIs

(* One more entry, of a form that the bucket does not hold yet.              *)
LEMMA BucketGrows ==
  ASSUME NEW b, NEW key, NEW m, BucketIs(b, key, m), NEW e, EntryIs(e, key, m),
         \A i \in DOMAIN b : b[i].canonical # e.canonical
  PROVE  BucketIs(Append(b, e), key, m)
<1> DEFINE r == Append(b, e)
<1>1. PICK S : b \in Seq(S)
  BY DEF BucketIs
<1>2. b \in Seq(S \cup {e}) /\ e \in S \cup {e}
  BY <1>1
<1>3. /\ r \in Seq(S \cup {e}) /\ DOMAIN r = 1 .. Len(b) + 1 /\ DOMAIN b = 1 .. Len(b)
      /\ Len(b) \in Nat /\ r[Len(b) + 1] = e
      /\ \A i \in 1 .. Len(b) : r[i] = b[i]
  BY <1>2
<1> HIDE DEF r
<1>4. \A i \in DOMAIN r : (i \in DOMAIN b /\ r[i] = b[i]) \/ (i = Len(b) + 1 /\ r[i] = e)
  BY <1>3
<1>5. \A i \in DOMAIN r : EntryIs(r[i], key, m)
  BY <1>4 DEF BucketIs
<1>6. ASSUME NEW i \in DOMAIN r, NEW h \in DOMAIN r, r[i].canonical = r[h].canonical PROVE i = h
  BY <1>4, <1>6 DEF BucketIs
<1> QED BY <1>3, <1>5, <1>6 DEF BucketIs, r

LEMMA StoreKeepsCache ==
  ASSUME KernelState, LabelState, CacheState, Store
  PROVE  CacheState'
<1> DEFINE key0 == WeightEnum(code)
           moved == [i \in DOMAIN gens |-> Conjugated(gens[i], label)]
           e == [canonical |-> CanonicalForm(code, label), canonical_column_order |-> Identity(n),
                 aut_generators |-> moved, aut_order |-> order,
                 column_orbits |-> ComputeColumnOrbits(ToSet(moved), n)]
           known == \E i \in DOMAIN Bucket : Bucket[i].canonical = CanonicalForm(code, label)
           b == IF known THEN Bucket ELSE Append(Bucket, e)
<1>1. n' = n /\ pc = "store"
      /\ cache' = [key \in DOMAIN cache \cup {key0} |-> IF key # key0 THEN cache[key] ELSE b]
  BY DEF Store
<1>2. EntryIs(e, key0, n)
  <2>1. /\ e.canonical = CanonicalForm(code, label) /\ e.aut_generators = moved
        /\ e.aut_order = order /\ e.column_orbits = ComputeColumnOrbits(ToSet(e.aut_generators), n)
    OBVIOUS
  <2> HIDE DEF e
  <2> QED BY <1>1, <2>1, EntryIsMade
<1>3. e.canonical = CanonicalForm(code, label)
  OBVIOUS
<1> HIDE DEF e
<1>4. BucketIs(Bucket, key0, n)
  <2>1. CASE key0 \in DOMAIN cache
    BY <2>1 DEF Bucket, CacheState
  <2>2. CASE key0 \notin DOMAIN cache
    <3>1. Bucket = <<>>
      BY <2>2 DEF Bucket
    <3>2. <<>> \in Seq({}) /\ DOMAIN <<>> = {}
      OBVIOUS
    <3> QED BY <3>1, <3>2 DEF BucketIs
  <2> QED BY <2>1, <2>2
<1>5. BucketIs(b, key0, n)
  <2>1. CASE known
    BY <1>4, <2>1
  <2>2. CASE ~ known
    <3>1. \A i \in DOMAIN Bucket : Bucket[i].canonical # e.canonical
      BY <1>3, <2>2
    <3>2. BucketIs(Append(Bucket, e), key0, n)
      <4> HIDE DEF key0
      <4> QED BY <1>2, <1>4, <3>1, BucketGrows
    <3> QED BY <2>2, <3>2
  <2> HIDE DEF known
  <2> QED BY <2>1, <2>2
<1> HIDE DEF b, key0
<1>6. ASSUME NEW key \in DOMAIN cache' PROVE BucketIs(cache'[key], key, n')
  <2>1. CASE key = key0
    BY <1>1, <1>5, <2>1
  <2>2. CASE key # key0
    <3>1. key \in DOMAIN cache /\ cache'[key] = cache[key]
      BY <1>1, <2>2
    <3> QED BY <1>1, <3>1 DEF CacheState
  <2> QED BY <2>1, <2>2
<1> QED BY <1>6 DEF CacheState

LEMMA CacheStays ==
  ASSUME CacheState, UNCHANGED <<n, cache>>
  PROVE  CacheState'
<1>1. ASSUME NEW key \in DOMAIN cache' PROVE BucketIs(cache'[key], key, n')
  BY <1>1 DEF CacheState
<1> QED BY <1>1 DEF CacheState

LEMMA ReturnsKeepsLabel ==
  ASSUME KernelState, LabelState, NEW getCanon, getCanon = wantLabel \/ getCanon = TRUE, Returns(getCanon)
  PROVE  LabelState'
<1>1. /\ pc = "nauty" /\ pc' = "order" /\ UNCHANGED <<n, maintain, words>>
      /\ label' = IF getCanon THEN ColumnOrder(CanonicalLab) ELSE <<>>
  BY DEF Returns
<1>2. GraphGiven
  BY <1>1, CodeAskedAbout DEF KernelState, GraphGiven
<1>3. /\ ColumnOrder(CanonicalLab) \in ColumnOrders(n)
      /\ MovedSet(words, ColumnOrder(CanonicalLab)) = Settled(words, n)
  BY <1>2, LabelFacts
<1>4. ASSUME maintain' PROVE label' \in ColumnOrders(n') /\ MovedSet(words', label') = Settled(words', n')
  <2>1. maintain /\ wantLabel
    BY <1>1, <1>4 DEF LabelState
  <2>2. label' = ColumnOrder(CanonicalLab)
    BY <1>1, <2>1
  <2> QED BY <1>1, <1>3, <2>2
<1> QED BY <1>1, <1>4 DEF LabelState

LEMMA CacheKept == BackendSpec => []CacheInv
<1>1. BackendInit => CacheInv
  BY DEF BackendInit, KernelInit, CacheInv, LabelState, CacheState
<1>2. KernelInv /\ CacheInv /\ [BackendNext]_backendVars => CacheInv'
  <2> SUFFICES ASSUME KernelInv, CacheInv, [BackendNext]_backendVars, backend' = "nauty"
               PROVE  LabelState' /\ CacheState'
    BY DEF CacheInv
  <2>1. backend = "nauty" /\ KernelState /\ LabelState /\ CacheState
    BY DEF BackendNext, ViaKernel, ViaFeulner, ViaVerifier, ViaInvariants, backendVars, KernelInv, CacheInv
  <2>2. CASE UNCHANGED backendVars
    <3>1. UNCHANGED <<n, pc, maintain, wantLabel, words, label, cache>>
      BY <2>2 DEF backendVars, onlyNauty, answer
    <3>2. CacheState'
      BY <2>1, <3>1, CacheStays
    <3> QED BY <2>1, <3>1, <3>2 DEF LabelState
  <2>3. CASE KernelNext
    <3>1. ASSUME NEW C \in Requests[n], NEW needLabel \in BOOLEAN, Call(C, needLabel)
          PROVE  LabelState' /\ CacheState'
      <4>1. CacheState'
        BY <2>1, <3>1, CacheStays DEF Call
      <4> QED BY <3>1, <4>1 DEF Call, LabelState
    <3>2. ASSUME NEW to, Reports(to) PROVE LabelState' /\ CacheState'
      <4>1. UNCHANGED <<n, cache, pc, maintain, wantLabel>> /\ pc = "nauty"
        BY <3>2 DEF Reports
      <4>2. CacheState'
        BY <2>1, <4>1, CacheStays
      <4> QED BY <2>1, <4>1, <4>2 DEF LabelState
    <3>3. ASSUME NEW getCanon, getCanon = wantLabel \/ getCanon = TRUE, Returns(getCanon)
          PROVE  LabelState' /\ CacheState'
      <4>1. CacheState'
        BY <2>1, <3>3, CacheStays DEF Returns
      <4> QED BY <2>1, <3>3, <4>1, ReturnsKeepsLabel
    <3>4. CASE TrustFloat
      <4>1. UNCHANGED <<n, cache, words, label, maintain>> /\ pc = "order" /\ pc' = AfterOrder
        BY <3>4 DEF TrustFloat
      <4>2. CacheState'
        BY <2>1, <4>1, CacheStays
      <4> QED BY <2>1, <4>1, <4>2 DEF LabelState, AfterOrder
    <3>5. CASE SchreierLevel
      <4>1. UNCHANGED <<n, cache, words, label, maintain>> /\ pc = "order" /\ pc' \in {AfterOrder, "order"}
        BY <3>5 DEF SchreierLevel
      <4>2. CacheState'
        BY <2>1, <4>1, CacheStays
      <4> QED BY <2>1, <4>1, <4>2 DEF LabelState, AfterOrder
    <3>6. CASE Store
      <4>1. CacheState'
        BY <2>1, <3>6, StoreKeepsCache
      <4> QED BY <2>1, <3>6, <4>1 DEF Store, LabelState
    <3> QED BY <2>3, <3>1, <3>2, <3>3, <3>4, <3>5, <3>6
            DEF KernelNext, NautyReports, TracesReports, FullReturns, SparseReturns, DenseReturns, TracesReturns
  <2> QED BY <2>1, <2>2, <2>3 DEF BackendNext, ViaKernel, ViaFeulner, ViaVerifier, ViaInvariants
<1> QED BY <1>1, <1>2, KernelKept, PTL DEF BackendSpec

(* The secondary cache is right though every entry was computed for another  *)
(* code of its class: each bucket holds forms of its weight enumerator, each *)
(* with the generators, order and orbits of its own group, and no two of a   *)
(* bucket are equivalent.                                                    *)
THEOREM KernelCacheAlwaysExact == BackendSpec => []KernelCacheIsExact
<1>1. KernelInv /\ CacheInv => KernelCacheIsExact
  <2> SUFFICES ASSUME KernelInv, CacheInv, backend = "nauty", NEW key \in DOMAIN cache, NEW i \in DOMAIN cache[key]
               PROVE  LET entry == cache[key][i]
                          group == AutOf(entry.canonical, n)
                      IN /\ WeightEnum(entry.canonical) = key
                         /\ Generated(ToSet(entry.aut_generators), n) = group
                         /\ entry.aut_order = Cardinality(group)
                         /\ entry.column_orbits = [j \in Columns |-> Min({sigma[j] : sigma \in group})]
                         /\ \A h \in 1 .. i - 1 : \A sigma \in ColumnPerms :
                               MovedSet(entry.canonical, sigma) # cache[key][h].canonical
    BY DEF KernelCacheIsExact, CacheIsExact
  <2> DEFINE b == cache[key]
             C == b[i].canonical
  <2>1. BucketIs(b, key, n) /\ n \in Nat \ {0}
    BY CodeAskedAbout DEF CacheInv, CacheState, KernelInv
  <2>2. PICK S : b \in Seq(S)
    BY <2>1 DEF BucketIs
  <2>3. DOMAIN b = 1 .. Len(b) /\ Len(b) \in Nat
    BY <2>2
  <2>4. EntryIs(b[i], key, n)
    BY <2>1 DEF BucketIs
  <2>5. WeightEnum(C) = key
    BY <2>4, FormsAre DEF EntryIs
  <2>6. GroupKept(b[i], n)
    BY <2>4 DEF EntryIs
  <2>7. b[i].column_orbits = [j \in Columns |-> Min({sigma[j] : sigma \in AutOf(C, n)})]
    BY <2>6 DEF GroupKept, LeastImage, Columns
  <2>8. ASSUME NEW h \in 1 .. i - 1, NEW sigma \in ColumnPerms, MovedSet(C, sigma) = b[h].canonical
        PROVE  FALSE
    <3>1. i \in 1 .. Len(b) /\ h \in 1 .. Len(b) /\ h # i
      BY <2>3
    <3>2. EntryIs(b[h], key, n)
      BY <2>1, <2>3, <3>1 DEF BucketIs
    <3>3. IsCode(C, n) /\ sigma \in ColumnOrders(n) /\ ClassForm(C, n) = C
          /\ ClassForm(b[h].canonical, n) = b[h].canonical
      BY <2>4, <3>2 DEF EntryIs, ColumnPerms
    <3>4. FormOf(MovedSet(C, sigma)) = FormOf(C)
      <4> HIDE DEF C
      <4> QED BY <2>1, <3>3, FormFacts
    <3>5. ClassForm(C, n) = FormOf(C) /\ ClassForm(b[h].canonical, n) = FormOf(b[h].canonical)
      BY FormsAre
    <3>6. C = b[h].canonical
      <4> HIDE DEF C
      <4> QED BY <2>8, <3>3, <3>4, <3>5
    <3> QED BY <2>1, <2>3, <3>1, <3>6 DEF BucketIs
  <2> QED BY <2>5, <2>6, <2>7, <2>8 DEF GroupKept
<1> QED BY <1>1, KernelKept, CacheKept, PTL

-----------------------------------------------------------------------------
(* Ranks in an order.                                                        *)

(* R orders S strictly.                                                      *)
StrictlyOrders(R, S) ==
  /\ \A x, y \in S : x = y \/ <<x, y>> \in R \/ <<y, x>> \in R
  /\ \A x, y, z \in S : <<x, y>> \in R /\ <<y, z>> \in R => <<x, z>> \in R
  /\ \A x \in S : <<x, x>> \notin R

RankIn(R, S) == [x \in S |-> Cardinality({y \in S : <<y, x>> \in R}) + 1]

(* An order without ties gives every rank, and gives it once.                *)
LEMMA RanksAre ==
  ASSUME NEW S, IsFiniteSet(S), NEW R, StrictlyOrders(R, S)
  PROVE  /\ Cardinality(S) \in Nat /\ RankIn(R, S) \in [S -> 1 .. Cardinality(S)]
         /\ \A x, y \in S : RankIn(R, S)[x] = RankIn(R, S)[y] => x = y
         /\ \A i \in 1 .. Cardinality(S) : \E x \in S : RankIn(R, S)[x] = i
<1> DEFINE k == Cardinality(S)
           Lower(x) == {y \in S : <<y, x>> \in R}
           rank == RankIn(R, S)
<1>1. k \in Nat
  BY FS_CardinalityType
<1>2. \A x, y \in S : x = y \/ <<x, y>> \in R \/ <<y, x>> \in R
  BY DEF StrictlyOrders
<1>3. \A x, y, z \in S : <<x, y>> \in R /\ <<y, z>> \in R => <<x, z>> \in R
  BY DEF StrictlyOrders
<1>4. \A x \in S : <<x, x>> \notin R
  BY DEF StrictlyOrders
<1>5. ASSUME NEW x \in S
      PROVE  IsFiniteSet(Lower(x)) /\ Cardinality(Lower(x)) \in Nat /\ Cardinality(Lower(x)) < k
  <2>1. Lower(x) \in SUBSET S /\ x \notin Lower(x)
    BY <1>4
  <2> HIDE DEF Lower
  <2>2. /\ IsFiniteSet(Lower(x)) /\ Cardinality(Lower(x)) <= k
        /\ Cardinality(Lower(x)) = k => Lower(x) = S
    BY <2>1, FS_Subset
  <2>3. Cardinality(Lower(x)) \in Nat
    BY <2>2, FS_CardinalityType
  <2> HIDE DEF k
  <2> QED BY <1>1, <2>1, <2>2, <2>3
<1>6. ASSUME NEW x \in S, NEW y \in S, <<x, y>> \in R
      PROVE  Cardinality(Lower(x)) < Cardinality(Lower(y))
  <2>1. Lower(x) \in SUBSET Lower(y) /\ x \in Lower(y) /\ x \notin Lower(x)
    BY <1>3, <1>4, <1>6
  <2>2. IsFiniteSet(Lower(y)) /\ Cardinality(Lower(y)) \in Nat /\ Cardinality(Lower(x)) \in Nat
    BY <1>5
  <2> HIDE DEF Lower
  <2>3. /\ Cardinality(Lower(x)) <= Cardinality(Lower(y))
        /\ Cardinality(Lower(x)) = Cardinality(Lower(y)) => Lower(x) = Lower(y)
    BY <2>1, <2>2, FS_Subset
  <2> QED BY <2>1, <2>2, <2>3
<1>7. rank \in [S -> 1 .. k] /\ \A x \in S : rank[x] = Cardinality(Lower(x)) + 1
  <2>1. \A x \in S : Cardinality(Lower(x)) + 1 \in 1 .. k
    <3> HIDE DEF Lower, k
    <3> QED BY <1>1, <1>5
  <2>2. rank = [x \in S |-> Cardinality(Lower(x)) + 1]
    BY DEF RankIn
  <2> HIDE DEF Lower, k, rank
  <2> QED BY <2>1, <2>2
<1> HIDE DEF rank, Lower
<1>8. \A x, y \in S : <<x, y>> \in R => rank[x] < rank[y]
  BY <1>5, <1>6, <1>7
<1>9. \A x, y \in S : rank[x] = rank[y] => x = y
  <2> SUFFICES ASSUME NEW x \in S, NEW y \in S, rank[x] = rank[y] PROVE x = y
    OBVIOUS
  <2>1. rank[x] \in Nat /\ rank[y] \in Nat
    BY <1>1, <1>7
  <2>2. <<x, y>> \notin R
    BY <1>8, <2>1
  <2>3. <<y, x>> \notin R
    BY <1>8, <2>1
  <2> QED BY <1>2, <2>2, <2>3
<1>10. \A i \in 1 .. k : \E x \in S : rank[x] = i
  <2>1. rank \in Injection(S, 1 .. k)
    BY <1>7, <1>9 DEF Injection, IsInjective
  <2>2. IsFiniteSet(1 .. k) /\ Cardinality(1 .. k) = k
    <3>1. 1 \in Int /\ k \in Int /\ k - 1 + 1 = k /\ (1 > k => k = 0)
      BY <1>1
    <3> HIDE DEF k
    <3> QED BY <3>1, FS_Interval
  <2>3. rank \in Surjection(S, 1 .. k)
    <3>1. Cardinality(S) = Cardinality(1 .. k)
      BY <2>2
    <3> HIDE DEF k
    <3> QED BY <2>1, <2>2, <3>1, FS_Injection
  <2> QED BY <2>3 DEF Surjection
<1> QED BY <1>1, <1>7, <1>9, <1>10 DEF rank

(* Sequences of one length, compared from the front.                         *)
SoonerPairs(K) == {a \in K \X K : Sooner(a[1], a[2])}

(* Keys of one length are ordered strictly.                                  *)
LEMMA SoonerOrders ==
  ASSUME NEW l \in Nat, NEW K, K \subseteq [1 .. l -> Nat]
  PROVE  StrictlyOrders(SoonerPairs(K), K)
<1>1. \A a, b \in K : Sooner(a, b) <=> \E i \in 1 .. l : a[i] < b[i] /\ \A h \in 1 .. i - 1 : a[h] = b[h]
  BY DEF Sooner
<1>2. \A a, b \in K : <<a, b>> \in SoonerPairs(K) <=> Sooner(a, b)
  BY DEF SoonerPairs
<1>3. \A a \in K : \A i \in 1 .. l : a[i] \in Nat
  OBVIOUS
<1>4. ASSUME NEW a \in K, NEW b \in K, a # b PROVE Sooner(a, b) \/ Sooner(b, a)
  <2> DEFINE C == {i \in 1 .. l : a[i] # b[i]}
  <2>1. C # {}
    <3>1. ASSUME C = {} PROVE FALSE
      <4>1. \A i \in 1 .. l : a[i] = b[i]
        BY <3>1
      <4>2. a \in [1 .. l -> Nat] /\ b \in [1 .. l -> Nat]
        OBVIOUS
      <4> QED BY <1>4, <4>1, <4>2
    <3> QED BY <3>1
  <2>2. C \subseteq Nat
    OBVIOUS
  <2>3. PICK i \in C : \A h \in C : i <= h
    <3> HIDE DEF C
    <3> QED BY <2>1, <2>2, LeastNumber
  <2>4. i \in 1 .. l /\ a[i] # b[i] /\ \A h \in 1 .. i - 1 : a[h] = b[h]
    <3>1. \A h \in 1 .. i - 1 : h \in 1 .. l /\ ~ (i <= h)
      BY <2>3
    <3> QED BY <2>3, <3>1
  <2>5. a[i] < b[i] \/ b[i] < a[i]
    BY <1>3, <2>4
  <2> QED BY <1>1, <2>4, <2>5
<1>5. ASSUME NEW a \in K, NEW b \in K, NEW c \in K, Sooner(a, b), Sooner(b, c) PROVE Sooner(a, c)
  <2>1. PICK i \in 1 .. l : a[i] < b[i] /\ \A h \in 1 .. i - 1 : a[h] = b[h]
    BY <1>1, <1>5
  <2>2. PICK j \in 1 .. l : b[j] < c[j] /\ \A h \in 1 .. j - 1 : b[h] = c[h]
    BY <1>1, <1>5
  <2>3. CASE i < j
    <3>1. b[i] = c[i] /\ \A h \in 1 .. i - 1 : b[h] = c[h]
      BY <2>2, <2>3
    <3>2. a[i] < c[i] /\ \A h \in 1 .. i - 1 : a[h] = c[h]
      BY <2>1, <3>1
    <3> QED BY <1>1, <3>2
  <2>4. CASE i = j
    <3>1. a[i] < c[i]
      BY <1>3, <2>1, <2>2, <2>4
    <3> QED BY <1>1, <2>1, <2>2, <2>4, <3>1
  <2>5. CASE j < i
    <3>1. a[j] = b[j] /\ \A h \in 1 .. j - 1 : a[h] = b[h]
      BY <2>1, <2>5
    <3>2. a[j] < c[j] /\ \A h \in 1 .. j - 1 : a[h] = c[h]
      BY <2>2, <3>1
    <3> QED BY <1>1, <3>2
  <2> QED BY <2>3, <2>4, <2>5
<1>6. \A a \in K : ~ Sooner(a, a)
  BY <1>1, <1>3
<1> QED BY <1>2, <1>4, <1>5, <1>6 DEF StrictlyOrders

(* A list of parts of X, none of them empty, and with a part if X has any.   *)
NoneEmpty(b, X) == \E m \in Nat : b \in [1 .. m -> (SUBSET X) \ {{}}] /\ (m = 0 => X = {})

(* What has equal keys makes one bucket, and no bucket is empty.             *)
LEMMA BucketFacts ==
  ASSUME NEW X, IsFiniteSet(X), NEW l \in Nat, NEW key \in [X -> [1 .. l -> Nat]]
  PROVE  NoneEmpty(Buckets(key), X)
<1> DEFINE K == Range(key)
           R == SoonerPairs(K)
           rank == [a \in K |-> Cardinality({b \in K : Sooner(b, a)}) + 1]
           m == Cardinality(K)
<1>1. K = {key[x] : x \in X} /\ K \subseteq [1 .. l -> Nat]
  BY DEF Range
<1>2. IsFiniteSet(K)
  <2>1. key \in Surjection(X, K)
    BY <1>1 DEF Surjection
  <2> HIDE DEF K
  <2> QED BY <2>1, FS_Surjection
<1>3. StrictlyOrders(R, K)
  <2> HIDE DEF K
  <2> QED BY <1>1, SoonerOrders
<1>4. rank = RankIn(R, K)
  <2>1. \A a \in K : {b \in K : Sooner(b, a)} = {b \in K : <<b, a>> \in R}
    BY DEF SoonerPairs
  <2> HIDE DEF K, R
  <2> QED BY <2>1 DEF RankIn
<1>5. /\ m \in Nat /\ rank \in [K -> 1 .. m]
      /\ \A i \in 1 .. m : \E a \in K : rank[a] = i
  <2> HIDE DEF K, R, rank
  <2> QED BY <1>2, <1>3, <1>4, RanksAre
<1>6. Buckets(key) = [i \in 1 .. m |-> {x \in X : rank[key[x]] = i}]
  BY DEF Buckets
<1> HIDE DEF rank, m
<1>7. ASSUME NEW i \in 1 .. m PROVE {x \in X : rank[key[x]] = i} # {}
  <2>1. PICK a \in K : rank[a] = i
    BY <1>5
  <2>2. PICK x \in X : a = key[x]
    BY <1>1
  <2> QED BY <2>1, <2>2
<1>8. m = 0 => X = {}
  <2>1. \A x \in X : rank[key[x]] \in 1 .. m
    BY <1>1, <1>5
  <2>2. m = 0 => 1 .. m = {}
    BY <1>5
  <2> QED BY <2>1, <2>2
<1>9. Buckets(key) \in [1 .. m -> (SUBSET X) \ {{}}]
  BY <1>6, <1>7
<1> QED BY <1>5, <1>8, <1>9 DEF NoneEmpty

(* A number of a finite list that stands for a largest member.               *)
LEMMA LargestIs ==
  ASSUME NEW D, IsFiniteSet(D), NEW m \in Nat \ {0}, NEW f \in [1 .. m -> SUBSET D]
  PROVE  LargestOf(f) \in 1 .. m
<1> DEFINE size(i) == Cardinality(f[i])
           S == {size(i) : i \in 1 .. m}
<1>1. \A i \in 1 .. m : size(i) \in Nat /\ size(i) <= Cardinality(D)
  BY FS_Subset, FS_CardinalityType
<1>2. Cardinality(D) \in Nat
  BY FS_CardinalityType
<1>3. S \subseteq 0 .. Cardinality(D) /\ S # {}
  <2>1. \A i \in 1 .. m : size(i) \in 0 .. Cardinality(D)
    BY <1>1, <1>2
  <2>2. size(1) \in S
    OBVIOUS
  <2> HIDE DEF size
  <2> QED BY <2>1, <2>2
<1>4. Max(S) \in S /\ \A a \in S : a <= Max(S)
  <2> HIDE DEF S
  <2> QED BY <1>2, <1>3, GreatestNumber
<1> DEFINE C == {i \in 1 .. m : size(i) = Max(S)}
<1>5. C # {} /\ C \subseteq Nat
  <2>1. PICK h \in 1 .. m : Max(S) = size(h)
    <3>1. Max(S) \in {size(h) : h \in 1 .. m}
      BY <1>4
    <3> HIDE DEF size
    <3> QED BY <3>1
  <2>2. C \subseteq Nat
    OBVIOUS
  <2>3. h \in C
    BY <2>1
  <2> QED BY <2>2, <2>3
<1>6. PICK i \in C : \A h \in C : i <= h
  <2> HIDE DEF C
  <2> QED BY <1>5, LeastNumber
<1>7. ASSUME NEW h \in 1 .. m PROVE size(h) < size(i) \/ (size(h) = size(i) /\ i <= h)
  <2>1. size(i) = Max(S) /\ size(h) \in S
    BY <1>6
  <2>2. size(h) <= Max(S) /\ size(h) \in Nat /\ Max(S) \in Nat
    BY <1>1, <1>4, <1>6, <2>1
  <2>3. size(h) = Max(S) => i <= h
    BY <1>6
  <2> HIDE DEF size, S
  <2> QED BY <2>1, <2>2, <2>3
<1>8. i \in DOMAIN f /\ \A h \in DOMAIN f :
        Cardinality(f[h]) < Cardinality(f[i]) \/ (Cardinality(f[h]) = Cardinality(f[i]) /\ i =< h)
  BY <1>6, <1>7
<1>9. LargestOf(f) \in DOMAIN f
  BY <1>8 DEF LargestOf
<1> QED BY <1>9

(* A list less one of its elements.                                          *)
LEMMA RemoveAtIs ==
  ASSUME NEW S, NEW s \in Seq(S), NEW i \in 1 .. Len(s)
  PROVE  RemoveAt(s, i) \in Seq(S) /\ Len(RemoveAt(s, i)) = Len(s) - 1
<1>1. Len(s) \in Nat /\ DOMAIN s = 1 .. Len(s) /\ \A h \in 1 .. Len(s) : s[h] \in S
  OBVIOUS
<1> DEFINE a == SubSeq(s, 1, i - 1)
           b == SubSeq(s, i + 1, Len(s))
<1>2. a \in Seq(S) /\ Len(a) = i - 1
  BY <1>1
<1>3. b \in Seq(S) /\ Len(b) = Len(s) - i
  <2>1. b = [h \in 1 .. Len(s) - i |-> s[h + i]]
    <3>1. Len(b) = Len(s) - (i + 1) + 1 /\ \A h \in 1 .. Len(b) : b[h] = s[(i + 1) + h - 1]
      BY <1>1
    <3> QED BY <1>1, <3>1
  <2>2. \A h \in 1 .. Len(s) - i : s[h + i] \in S
    BY <1>1
  <2>3. Len(s) - i \in Nat
    BY <1>1
  <2> HIDE DEF b
  <2>4. b \in [1 .. Len(s) - i -> S]
    BY <2>1, <2>2
  <2> QED BY <2>3, <2>4
<1> HIDE DEF a, b
<1>4. a \o b \in Seq(S) /\ Len(a \o b) = Len(s) - 1
  <2>1. a \o b \in Seq(S) /\ Len(a \o b) = Len(a) + Len(b)
    BY <1>2, <1>3
  <2>2. (i - 1) + (Len(s) - i) = Len(s) - 1
    BY <1>1
  <2> QED BY <1>2, <1>3, <2>1, <2>2
<1> QED BY <1>4 DEF RemoveAt, a, b

-----------------------------------------------------------------------------
(* Lists.                                                                    *)

LEMMA ListIs ==
  ASSUME NEW S, NEW m \in Nat, NEW s \in [1 .. m -> S]
  PROVE  s \in Seq(S) /\ Len(s) = m
OBVIOUS

LEMMA WiderList ==
  ASSUME NEW S, NEW T, S \subseteq T, NEW s \in Seq(S)
  PROVE  s \in Seq(T)
OBVIOUS

LEMMA ConcatIs ==
  ASSUME NEW S, NEW u \in Seq(S), NEW t \in Seq(S)
  PROVE  u \o t \in Seq(S) /\ Len(u \o t) = Len(u) + Len(t)
OBVIOUS

(* A fold from the left, value by value.                                     *)

After(op, i, v) == op[i, v]

FoldsAs(g, b0, op, V, k) ==
  /\ g \in [SUBSET (1 .. k) -> V]
  /\ \A s \in SUBSET (1 .. k) : g[s] = IF s = {} THEN b0 ELSE After(op, Max(s), g[s \ {Max(s)}])

(* The fold exists, and takes the last index first.                          *)
LEMMA LeftFoldExists ==
  ASSUME NEW k \in Nat, NEW V, NEW b0 \in V, NEW op \in [(1 .. k) \X V -> V]
  PROVE  /\ \A s \in SUBSET (1 .. k) : s # {} => Max(s) \in s /\ \A i \in s : i <= Max(s)
         /\ \E g : FoldsAs(g, b0, op, V, k)
<1> DEFINE S == 1 .. k
           p == [s \in SUBSET S |-> Max(s)]
<1>1. ASSUME NEW s \in SUBSET S, s # {} PROVE Max(s) \in s /\ \A i \in s : i <= Max(s)
  <2>1. s \subseteq 0 .. k
    OBVIOUS
  <2> QED BY <1>1, <2>1, GreatestNumber
<1>2. IsFiniteSet(S)
  BY FS_Interval
<1>3. \A s \in SUBSET S : p[s] = Max(s)
  OBVIOUS
<1> HIDE DEF S, p
<1>4. Foldable(op, b0, p, S, V)
  BY <1>1, <1>2, <1>3 DEF Foldable, S
<1>5. PICK g \in [SUBSET S -> V] : IsFold(op, b0, p, g, S)
  BY <1>4, FoldExists
<1>6. \A s \in SUBSET S : g[s] = IF s = {} THEN b0 ELSE After(op, Max(s), g[s \ {Max(s)}])
  BY <1>3, <1>5 DEF IsFold, FoldAt, After
<1>7. FoldsAs(g, b0, op, V, k)
  BY <1>5, <1>6 DEF FoldsAs, S
<1> QED BY <1>1, <1>7 DEF S

(* h goes on as op says from every value in V.                               *)
FoldsOn(h, op, V, s) == s # {} /\ h[s \ {Max(s)}] \in V => h[s] = After(op, Max(s), h[s \ {Max(s)}])

(* The values of the fold after each element.                                *)
IsChain(c, b0, op, k) == c[0] = b0 /\ \A i \in 1 .. k : c[i] = After(op, i, c[i - 1])

EndsChain(v, b0, op, V, k) ==
  v \in V /\ \E c \in [0 .. k -> V] : IsChain(c, b0, op, k) /\ v = c[k]

(* A fold from the left ends a chain of values.                              *)
LEMMA LeftFold ==
  ASSUME NEW k \in Nat, NEW V, NEW b0 \in V, NEW op \in [(1 .. k) \X V -> V],
         NEW h, h[{}] = b0, \A s \in SUBSET (1 .. k) : FoldsOn(h, op, V, s)
  PROVE  EndsChain(h[1 .. k], b0, op, V, k)
<1> DEFINE C == {i \in 0 .. k : h[1 .. i] \in V}
           c == [i \in 0 .. k |-> h[1 .. i]]
<1>1. 0 \in C /\ h[1 .. 0] = b0
  <2>1. 1 .. 0 = {}
    OBVIOUS
  <2> QED BY <2>1
<1>2. ASSUME NEW i \in 1 .. k, i - 1 \in C PROVE h[1 .. i] = After(op, i, h[1 .. i - 1]) /\ i \in C
  <2> DEFINE s == 1 .. i
  <2>1. s \in SUBSET (1 .. k) /\ s # {} /\ i \in s
    OBVIOUS
  <2>2. Max(s) \in s /\ \A j \in s : j <= Max(s)
    <3> HIDE DEF s
    <3> QED BY <2>1, LeftFoldExists
  <2>3. Max(s) = i
    <3>1. i <= Max(s) /\ Max(s) <= i
      BY <2>1, <2>2
    <3>2. Max(s) \in Nat
      BY <2>2
    <3> QED BY <3>1, <3>2
  <2>4. s \ {i} = 1 .. i - 1
    OBVIOUS
  <2>5. h[s] = After(op, i, h[1 .. i - 1])
    <3>1. h[s \ {Max(s)}] \in V
      BY <1>2, <2>3, <2>4
    <3>2. FoldsOn(h, op, V, s)
      BY <2>1
    <3> HIDE DEF s
    <3> QED BY <2>1, <2>3, <2>4, <3>1, <3>2 DEF FoldsOn
  <2>6. h[1 .. i - 1] \in V
    BY <1>2
  <2>7. After(op, i, h[1 .. i - 1]) \in V
    <3>1. \A v \in V : After(op, i, v) \in V
      BY DEF After
    <3> QED BY <2>6, <3>1
  <2> QED BY <2>5, <2>7
<1>3. 0 .. k \subseteq C
  <2>0. \A i \in 0 .. k : i > 0 => i \in 1 .. k
    OBVIOUS
  <2>2. C \subseteq 0 .. k
    OBVIOUS
  <2> HIDE DEF C
  <2>1. \A i \in 0 .. k : i > 0 /\ i - 1 \in C => i \in C
    BY <1>2, <2>0
  <2>3. 0 \in C /\ 0 \in Nat /\ 0 <= k
    BY <1>1
  <2> QED BY <2>1, <2>2, <2>3, RangeInduction
<1>4. c \in [0 .. k -> V]
  BY <1>3
<1>5. \A i \in 1 .. k : c[i] = After(op, i, c[i - 1])
  <2>1. \A i \in 1 .. k : i - 1 \in 0 .. k /\ i \in 0 .. k /\ i - 1 \in C
    BY <1>3
  <2> QED BY <1>2, <2>1
<1>6. c[0] = b0 /\ c[k] = h[1 .. k]
  BY <1>1
<1> HIDE DEF c
<1>7. IsChain(c, b0, op, k)
  BY <1>5, <1>6 DEF IsChain
<1>8. c[k] \in V
  BY <1>4
<1> QED BY <1>4, <1>6, <1>7, <1>8 DEF EndsChain

-----------------------------------------------------------------------------
(* The refinement of an ordered partition.                                   *)

(* The states it goes through: cells and groups are never empty, and what is *)
(* queued is a group.  They have at least so many cells and groups.          *)
Refining(D, cs, gs) ==
  {s \in [cells : Seq((SUBSET D) \ {{}}), lineage : Seq(Nat),
          groups : Seq((SUBSET SUBSET D) \ {{}}), worklist : Seq(Nat)] :
     /\ Len(s.lineage) = Len(s.cells) /\ cs <= Len(s.cells) /\ gs <= Len(s.groups)
     /\ s.worklist \in Seq(1 .. Len(s.groups))}

(* Splitting a group leaves no group empty.                                  *)
LEMMA SplitGroupStays ==
  ASSUME NEW D, IsFiniteSet(D), NEW m \in Nat \ {0}, NEW fragments \in [1 .. m -> SUBSET D],
         NEW cs \in Nat, NEW gs \in Nat, NEW s \in Refining(D, cs, gs), NEW g \in 1 .. gs
  PROVE  SplitGroup(s, g, fragments) \in Refining(D, cs, gs)
<1> DEFINE X == s.groups[g]
           key == [w \in X |-> Histogram(w, fragments)]
           parts == Buckets(key)
           big == LargestOf(parts)
           others == RemoveAt(parts, big)
           groups2 == [s.groups EXCEPT ![g] = parts[big]] \o others
           list2 == s.worklist \o [i \in DOMAIN others |-> Len(s.groups) + i]
           G == (SUBSET SUBSET D) \ {{}}
<1>1. /\ s \in [cells : Seq((SUBSET D) \ {{}}), lineage : Seq(Nat), groups : Seq(G), worklist : Seq(Nat)]
      /\ Len(s.lineage) = Len(s.cells) /\ cs <= Len(s.cells) /\ gs <= Len(s.groups)
      /\ s.worklist \in Seq(1 .. Len(s.groups))
  BY DEF Refining
<1>2. Len(s.groups) \in Nat /\ g \in 1 .. Len(s.groups) /\ X \in G
  BY <1>1
<1>3. IsFiniteSet(X)
  BY <1>2, FS_SUBSET, FS_Subset
<1>4. key \in [X -> [1 .. m -> Nat]]
  <2>1. ASSUME NEW w \in X, NEW i \in 1 .. m PROVE Cardinality(w \cap fragments[i]) \in Nat
    <3>1. w \cap fragments[i] \in SUBSET D
      OBVIOUS
    <3> QED BY <3>1, FS_Subset, FS_CardinalityType
  <2>2. \A w \in X : Histogram(w, fragments) = [i \in 1 .. m |-> Cardinality(w \cap fragments[i])]
    BY DEF Histogram
  <2> QED BY <2>1, <2>2
<1>5. PICK q \in Nat : parts \in [1 .. q -> (SUBSET X) \ {{}}] /\ (q = 0 => X = {})
  <2>1. m \in Nat
    OBVIOUS
  <2> HIDE DEF X, key
  <2>2. NoneEmpty(Buckets(key), X)
    BY <1>3, <1>4, <2>1, BucketFacts
  <2> QED BY <2>2 DEF NoneEmpty
<1> HIDE DEF parts
<1>6. q \in Nat \ {0}
  BY <1>2, <1>5
<1>7. big \in 1 .. q
  <2>1. parts \in [1 .. q -> SUBSET X]
    BY <1>5
  <2> HIDE DEF X
  <2> QED BY <1>3, <1>6, <2>1, LargestIs
<1> HIDE DEF big
<1>8. parts \in Seq(G) /\ Len(parts) = q /\ parts[big] \in G
  <2>1. \A i \in 1 .. q : parts[i] \in G
    BY <1>2, <1>5
  <2> HIDE DEF X, G
  <2> QED BY <1>5, <1>7, <2>1
<1>9. others \in Seq(G) /\ Len(others) = q - 1
  <2> HIDE DEF G
  <2> QED BY <1>7, <1>8, RemoveAtIs
<1> HIDE DEF X, G, others
<1>10. groups2 \in Seq(G) /\ Len(groups2) = Len(s.groups) + (q - 1)
  <2> DEFINE a == [s.groups EXCEPT ![g] = parts[big]]
  <2>1. a \in Seq(G) /\ Len(a) = Len(s.groups)
    BY <1>1, <1>2, <1>8
  <2> HIDE DEF a
  <2>2. a \o others \in Seq(G) /\ Len(a \o others) = Len(a) + Len(others)
    BY <1>9, <2>1, ConcatIs
  <2> QED BY <1>9, <2>1, <2>2 DEF a
<1> DEFINE L == Len(s.groups)
           L2 == Len(groups2)
<1>11. list2 \in Seq(1 .. L2)
  <2> DEFINE b == [i \in DOMAIN others |-> L + i]
  <2>1. DOMAIN others = 1 .. q - 1 /\ L2 = L + (q - 1) /\ L \in Nat
    BY <1>2, <1>9, <1>10
  <2> HIDE DEF L, L2
  <2>2. b \in Seq(1 .. L2)
    <3>1. b \in [1 .. q - 1 -> 1 .. L2]
      BY <1>6, <2>1
    <3>2. q - 1 \in Nat
      BY <1>6
    <3> HIDE DEF b
    <3> QED BY <3>1, <3>2, ListIs
  <2>3. s.worklist \in Seq(1 .. L2)
    <3>1. s.worklist \in Seq(1 .. L)
      BY <1>1 DEF L
    <3>2. 1 .. L \subseteq 1 .. L2
      BY <1>6, <2>1
    <3> QED BY <3>1, <3>2, WiderList
  <2> HIDE DEF b
  <2>4. s.worklist \o b \in Seq(1 .. L2)
    BY <2>2, <2>3
  <2> QED BY <2>4 DEF b, L
<1>12. list2 \in Seq(Nat)
  <2>1. 1 .. L2 \subseteq Nat
    OBVIOUS
  <2> HIDE DEF list2, L2
  <2> QED BY <1>11, <2>1, WiderList
<1>13. SplitGroup(s, g, fragments) = IF Len(parts) = 1 THEN s ELSE [s EXCEPT !.groups = groups2, !.worklist = list2]
  BY DEF SplitGroup, parts, big, others, X
<1>14. gs <= L2
  BY <1>1, <1>2, <1>6, <1>10
<1> HIDE DEF groups2, list2, L
<1>15. [s EXCEPT !.groups = groups2, !.worklist = list2] \in Refining(D, cs, gs)
  <2> DEFINE t == [s EXCEPT !.groups = groups2, !.worklist = list2]
  <2>1. t \in [cells : Seq((SUBSET D) \ {{}}), lineage : Seq(Nat), groups : Seq(G), worklist : Seq(Nat)]
    BY <1>1, <1>10, <1>12
  <2>2. t.cells = s.cells /\ t.lineage = s.lineage /\ t.groups = groups2 /\ t.worklist = list2
    BY <1>1
  <2> HIDE DEF t
  <2>3. t \in Refining(D, cs, gs)
    BY <1>1, <1>11, <1>14, <2>1, <2>2 DEF Refining, G, L2
  <2> QED BY <2>3 DEF t
<1> QED BY <1>13, <1>15

(* The loop over the groups when a cell has been split.                      *)
IsGroupLoop(g, fragments, b0, seq) ==
  g = [s \in SUBSET (DOMAIN seq) |-> IF s = {} THEN b0 ELSE SplitGroup(g[s \ {Max(s)}], seq[Max(s)], fragments)]

HasGroupLoop(fragments, b0, seq) == \E g : IsGroupLoop(g, fragments, b0, seq)

(* So does the loop over the groups.                                         *)
LEMMA GroupLoopStays ==
  ASSUME NEW D, IsFiniteSet(D), NEW m \in Nat \ {0}, NEW fragments \in [1 .. m -> SUBSET D],
         NEW cs \in Nat, NEW gs \in Nat, NEW b0 \in Refining(D, cs, gs),
         NEW groups, DOMAIN groups = 1 .. gs
  PROVE  FoldLeftDomain(LAMBDA t, h : SplitGroup(t, h, fragments), b0, groups) \in Refining(D, cs, gs)
<1> DEFINE V == Refining(D, cs, gs)
           S == 1 .. gs
           seq == [i \in DOMAIN groups |-> i]
           op == [a \in S \X V |-> SplitGroup(a[2], a[1], fragments)]
<1>1. \A x \in S, v \in V : SplitGroup(v, x, fragments) \in V
  BY SplitGroupStays
<1>2. DOMAIN seq = S /\ \A i \in S : seq[i] = i
  OBVIOUS
<1> HIDE DEF V, seq
<1>3. op \in [S \X V -> V] /\ \A x \in S, v \in V : After(op, x, v) = SplitGroup(v, x, fragments)
  BY <1>1 DEF After
<1> HIDE DEF op
<1>4. b0 \in V
  BY DEF V
<1>5. PICK g : FoldsAs(g, b0, op, V, gs)
  BY <1>3, <1>4, LeftFoldExists
<1>6. \A s \in SUBSET S : s # {} => Max(s) \in s
  BY <1>3, <1>4, LeftFoldExists
<1>7. HasGroupLoop(fragments, b0, seq)
  <2>1. ASSUME NEW s \in SUBSET S
        PROVE  g[s] = IF s = {} THEN b0 ELSE SplitGroup(g[s \ {Max(s)}], seq[Max(s)], fragments)
    <3>1. CASE s = {}
      BY <1>5, <3>1 DEF FoldsAs
    <3>2. CASE s # {}
      <4>1. Max(s) \in S /\ g[s \ {Max(s)}] \in V
        BY <1>5, <1>6, <3>2 DEF FoldsAs
      <4>2. g[s] = After(op, Max(s), g[s \ {Max(s)}])
        BY <1>5, <3>2 DEF FoldsAs
      <4> QED BY <1>2, <1>3, <3>2, <4>1, <4>2
    <3> QED BY <3>1, <3>2
  <2>2. g \in [SUBSET S -> V]
    BY <1>5 DEF FoldsAs
  <2>3. IsGroupLoop(g, fragments, b0, seq)
    BY <1>2, <2>1, <2>2 DEF IsGroupLoop
  <2> QED BY <2>3 DEF HasGroupLoop
<1> DEFINE f == CHOOSE f : IsGroupLoop(f, fragments, b0, seq)
<1>8. FoldLeftDomain(LAMBDA t, h : SplitGroup(t, h, fragments), b0, groups) = f[DOMAIN seq]
  BY DEF FoldLeftDomain, FoldLeft, MapThenFoldSet, IsGroupLoop, seq
<1>9. IsGroupLoop(f, fragments, b0, seq)
  BY <1>7 DEF HasGroupLoop
<1> HIDE DEF f
<1>10. f[{}] = b0
  BY <1>9 DEF IsGroupLoop
<1>11. ASSUME NEW s \in SUBSET S PROVE FoldsOn(f, op, V, s)
  <2> SUFFICES ASSUME s # {}, f[s \ {Max(s)}] \in V PROVE f[s] = After(op, Max(s), f[s \ {Max(s)}])
    BY DEF FoldsOn
  <2>1. f[s] = SplitGroup(f[s \ {Max(s)}], seq[Max(s)], fragments)
    BY <1>2, <1>9 DEF IsGroupLoop
  <2> QED BY <1>2, <1>3, <1>6, <2>1
<1>12. EndsChain(f[1 .. gs], b0, op, V, gs)
  BY <1>3, <1>4, <1>10, <1>11, LeftFold
<1> QED BY <1>2, <1>8, <1>12 DEF EndsChain, V

(* Splitting a cell leaves no cell empty.                                    *)
LEMMA SplitCellStays ==
  ASSUME NEW k \in Nat, NEW D, D \subseteq 0 .. k,
         NEW cs \in Nat, NEW gs \in Nat, NEW s \in Refining(D, cs, gs), NEW c \in 1 .. cs, NEW g \in 1 .. gs
  PROVE  SplitCell(s, c, g) \in Refining(D, cs, gs)
<1> DEFINE X == s.cells[c]
           key == [j \in X |-> <<Through(s.groups[g], j)>>]
           fragments == Buckets(key)
           big == LargestOf(fragments)
           others == RemoveAt(fragments, big)
           G == (SUBSET D) \ {{}}
           cells2 == [s.cells EXCEPT ![c] = fragments[big]] \o others
           lineage2 == s.lineage \o [i \in DOMAIN others |-> s.lineage[c]]
           split == [s EXCEPT !.cells = cells2, !.lineage = lineage2]
           ng == Len(s.groups)
<1>0. IsFiniteSet(D)
  <2>1. IsFiniteSet(0 .. k)
    BY FS_Interval
  <2> QED BY <2>1, FS_Subset
<1>1. /\ s \in [cells : Seq(G), lineage : Seq(Nat), groups : Seq((SUBSET SUBSET D) \ {{}}), worklist : Seq(Nat)]
      /\ Len(s.lineage) = Len(s.cells) /\ cs <= Len(s.cells) /\ gs <= ng
      /\ s.worklist \in Seq(1 .. ng)
  BY DEF Refining
<1>2. /\ Len(s.cells) \in Nat /\ c \in 1 .. Len(s.cells) /\ X \in G /\ s.lineage[c] \in Nat
      /\ ng \in Nat /\ g \in 1 .. ng /\ s.groups[g] \in (SUBSET SUBSET D) \ {{}}
      /\ DOMAIN s.groups = 1 .. ng
  BY <1>1
<1>3. IsFiniteSet(X)
  BY <1>0, <1>2, FS_Subset
<1>4. key \in [X -> [1 .. 1 -> Nat]]
  <2>1. \A j \in X : Through(s.groups[g], j) \in Nat
    <3> SUFFICES ASSUME NEW j \in X PROVE Cardinality({w \in s.groups[g] : j \in w}) \in Nat
      BY DEF Through
    <3>1. {w \in s.groups[g] : j \in w} \in SUBSET SUBSET D
      BY <1>2
    <3> QED BY <1>0, <3>1, FS_SUBSET, FS_Subset, FS_CardinalityType
  <2>2. \A a \in Nat : <<a>> \in [1 .. 1 -> Nat]
    OBVIOUS
  <2> HIDE DEF X
  <2> QED BY <2>1, <2>2
<1>5. PICK q \in Nat : fragments \in [1 .. q -> (SUBSET X) \ {{}}] /\ (q = 0 => X = {})
  <2>1. 1 \in Nat
    OBVIOUS
  <2> HIDE DEF X, key
  <2>2. NoneEmpty(Buckets(key), X)
    BY <1>3, <1>4, <2>1, BucketFacts
  <2> QED BY <2>2 DEF NoneEmpty
<1> HIDE DEF fragments
<1>6. q \in Nat \ {0}
  BY <1>2, <1>5
<1>7. big \in 1 .. q
  <2>1. fragments \in [1 .. q -> SUBSET X]
    BY <1>5
  <2> HIDE DEF X
  <2> QED BY <1>3, <1>6, <2>1, LargestIs
<1> HIDE DEF big
<1>8. fragments \in Seq(G) /\ Len(fragments) = q /\ fragments[big] \in G /\ fragments \in [1 .. q -> SUBSET D]
  <2>1. \A i \in 1 .. q : fragments[i] \in G /\ fragments[i] \in SUBSET D
    BY <1>2, <1>5
  <2> HIDE DEF X, G
  <2> QED BY <1>5, <1>7, <2>1
<1>9. others \in Seq(G) /\ Len(others) = q - 1
  <2> HIDE DEF G
  <2> QED BY <1>7, <1>8, RemoveAtIs
<1> HIDE DEF X, G, others, ng
<1>10. cells2 \in Seq(G) /\ Len(cells2) = Len(s.cells) + (q - 1)
  <2> DEFINE a == [s.cells EXCEPT ![c] = fragments[big]]
  <2>1. a \in Seq(G) /\ Len(a) = Len(s.cells)
    BY <1>1, <1>2, <1>8
  <2> HIDE DEF a
  <2>2. a \o others \in Seq(G) /\ Len(a \o others) = Len(a) + Len(others)
    BY <1>9, <2>1, ConcatIs
  <2> QED BY <1>9, <2>1, <2>2 DEF a
<1>11. lineage2 \in Seq(Nat) /\ Len(lineage2) = Len(s.cells) + (q - 1)
  <2> DEFINE b == [i \in DOMAIN others |-> s.lineage[c]]
  <2>1. q - 1 \in Nat /\ DOMAIN others = 1 .. q - 1
    BY <1>6, <1>9
  <2>2. b \in [1 .. q - 1 -> Nat]
    BY <1>2, <2>1
  <2> HIDE DEF b
  <2>3. b \in Seq(Nat) /\ Len(b) = q - 1
    BY <2>1, <2>2, ListIs
  <2>4. s.lineage \o b \in Seq(Nat) /\ Len(s.lineage \o b) = Len(s.lineage) + Len(b)
    <3>1. s.lineage \in Seq(Nat)
      BY <1>1
    <3> DEFINE a == s.lineage
    <3> HIDE DEF a
    <3>2. a \in Seq(Nat) => a \o b \in Seq(Nat) /\ Len(a \o b) = Len(a) + Len(b)
      BY <2>3, ConcatIs
    <3> QED BY <3>1, <3>2 DEF a
  <2> QED BY <1>1, <2>3, <2>4 DEF b
<1> HIDE DEF cells2, lineage2
<1>12. split \in Refining(D, cs, ng)
  <2>1. /\ split \in [cells : Seq(G), lineage : Seq(Nat), groups : Seq((SUBSET SUBSET D) \ {{}}), worklist : Seq(Nat)]
        /\ split.cells = cells2 /\ split.lineage = lineage2 /\ split.groups = s.groups /\ split.worklist = s.worklist
    BY <1>1, <1>10, <1>11
  <2>2. cs <= Len(cells2)
    BY <1>1, <1>2, <1>6, <1>10
  <2>3. ng <= ng
    BY <1>2
  <2> HIDE DEF split
  <2> QED BY <1>1, <1>10, <1>11, <2>1, <2>2, <2>3 DEF Refining, G, ng
<1> HIDE DEF split
<1> DEFINE r == FoldLeftDomain(LAMBDA t, h : SplitGroup(t, h, fragments), split, s.groups)
<1>13. r \in Refining(D, cs, ng)
  BY <1>0, <1>2, <1>6, <1>8, <1>12, GroupLoopStays
<1>14. SplitCell(s, c, g) = IF Len(fragments) = 1 THEN s ELSE r
  BY DEF SplitCell, fragments, big, others, X, split, cells2, lineage2
<1> HIDE DEF r
<1>15. r \in Refining(D, cs, gs)
  BY <1>1, <1>2, <1>13 DEF Refining
<1> QED BY <1>14, <1>15

(* The loop over the cells when a group is taken off the worklist.           *)
IsCellLoop(f, g, b0, seq) ==
  f = [s \in SUBSET (DOMAIN seq) |-> IF s = {} THEN b0 ELSE SplitCell(f[s \ {Max(s)}], seq[Max(s)], g)]

HasCellLoop(g, b0, seq) == \E f : IsCellLoop(f, g, b0, seq)

(* So does the loop over the cells.                                          *)
LEMMA CellLoopStays ==
  ASSUME NEW k \in Nat, NEW D, D \subseteq 0 .. k, NEW cs \in Nat, NEW gs \in Nat,
         NEW b0 \in Refining(D, cs, gs), NEW g \in 1 .. gs, NEW cells, DOMAIN cells = 1 .. cs
  PROVE  FoldLeftDomain(LAMBDA u, c : SplitCell(u, c, g), b0, cells) \in Refining(D, cs, gs)
<1> DEFINE V == Refining(D, cs, gs)
           S == 1 .. cs
           seq == [i \in DOMAIN cells |-> i]
           op == [a \in S \X V |-> SplitCell(a[2], a[1], g)]
<1>1. \A x \in S, v \in V : SplitCell(v, x, g) \in V
  BY SplitCellStays
<1>2. DOMAIN seq = S /\ \A i \in S : seq[i] = i
  OBVIOUS
<1> HIDE DEF V, seq
<1>3. op \in [S \X V -> V] /\ \A x \in S, v \in V : After(op, x, v) = SplitCell(v, x, g)
  BY <1>1 DEF After
<1> HIDE DEF op
<1>4. b0 \in V
  BY DEF V
<1>5. PICK r : FoldsAs(r, b0, op, V, cs)
  BY <1>3, <1>4, LeftFoldExists
<1>6. \A s \in SUBSET S : s # {} => Max(s) \in s
  BY <1>3, <1>4, LeftFoldExists
<1>7. HasCellLoop(g, b0, seq)
  <2>1. ASSUME NEW s \in SUBSET S
        PROVE  r[s] = IF s = {} THEN b0 ELSE SplitCell(r[s \ {Max(s)}], seq[Max(s)], g)
    <3>1. CASE s = {}
      BY <1>5, <3>1 DEF FoldsAs
    <3>2. CASE s # {}
      <4>1. Max(s) \in S /\ r[s \ {Max(s)}] \in V
        BY <1>5, <1>6, <3>2 DEF FoldsAs
      <4>2. r[s] = After(op, Max(s), r[s \ {Max(s)}])
        BY <1>5, <3>2 DEF FoldsAs
      <4> QED BY <1>2, <1>3, <3>2, <4>1, <4>2
    <3> QED BY <3>1, <3>2
  <2>2. r \in [SUBSET S -> V]
    BY <1>5 DEF FoldsAs
  <2>3. IsCellLoop(r, g, b0, seq)
    BY <1>2, <2>1, <2>2 DEF IsCellLoop
  <2> QED BY <2>3 DEF HasCellLoop
<1> DEFINE f == CHOOSE f : IsCellLoop(f, g, b0, seq)
<1>8. FoldLeftDomain(LAMBDA u, c : SplitCell(u, c, g), b0, cells) = f[DOMAIN seq]
  BY DEF FoldLeftDomain, FoldLeft, MapThenFoldSet, IsCellLoop, seq
<1>9. IsCellLoop(f, g, b0, seq)
  BY <1>7 DEF HasCellLoop
<1> HIDE DEF f
<1>10. f[{}] = b0
  BY <1>9 DEF IsCellLoop
<1>11. ASSUME NEW s \in SUBSET S PROVE FoldsOn(f, op, V, s)
  <2> SUFFICES ASSUME s # {}, f[s \ {Max(s)}] \in V PROVE f[s] = After(op, Max(s), f[s \ {Max(s)}])
    BY DEF FoldsOn
  <2>1. f[s] = SplitCell(f[s \ {Max(s)}], seq[Max(s)], g)
    BY <1>2, <1>9 DEF IsCellLoop
  <2> QED BY <1>2, <1>3, <1>6, <2>1
<1>12. EndsChain(f[1 .. cs], b0, op, V, cs)
  BY <1>3, <1>4, <1>10, <1>11, LeftFold
<1> QED BY <1>2, <1>8, <1>12 DEF EndsChain, V

(* A list less its last element.                                             *)
LEMMA FrontIs ==
  ASSUME NEW S, NEW s \in Seq(S), s # <<>>
  PROVE  /\ Len(s) \in Nat \ {0} /\ Front(s) \in Seq(S) /\ Len(Front(s)) = Len(s) - 1
         /\ Last(s) = s[Len(s)] /\ Last(s) \in S
         /\ \A i \in 1 .. Len(s) - 1 : Front(s)[i] = s[i]
<1>1. Len(s) \in Nat \ {0}
  OBVIOUS
<1>2. Last(s) = s[Len(s)] /\ Last(s) \in S
  BY <1>1 DEF Last
<1>3. SubSeq(s, 1, Len(s) - 1) \in Seq(S)
  BY <1>1
<1>4. /\ Len(SubSeq(s, 1, Len(s) - 1)) = Len(s) - 1
      /\ \A i \in 1 .. Len(s) - 1 : SubSeq(s, 1, Len(s) - 1)[i] = s[i]
  <2>1. PICK l \in Nat : l = Len(s) - 1
    BY <1>1
  <2>2. SubSeq(s, 1, l) = [h \in 1 .. l |-> s[h]]
    <3>1. 1 .. l \subseteq 1 .. Len(s) /\ \A h \in 1 .. l : s[1 + h - 1] = s[h]
      BY <1>1, <2>1
    <3>2. Len(SubSeq(s, 1, l)) = l /\ \A h \in 1 .. l : SubSeq(s, 1, l)[h] = s[1 + h - 1]
      BY <1>1, <2>1
    <3>3. SubSeq(s, 1, l) \in Seq(S)
      BY <1>3, <2>1
    <3> QED BY <3>1, <3>2, <3>3
  <2> QED BY <2>1, <2>2
<1> QED BY <1>1, <1>2, <1>3, <1>4 DEF Front

(* One group taken off the worklist.                                         *)
DrainStep(t) ==
  IF t.worklist = <<>> THEN t
  ELSE FoldLeftDomain(LAMBDA u, c : SplitCell(u, c, Last(t.worklist)), [t EXCEPT !.worklist = Front(@)], t.cells)

(* One step of the worklist.                                                 *)
LEMMA DrainStepStays ==
  ASSUME NEW k \in Nat, NEW D, D \subseteq 0 .. k, NEW t \in Refining(D, 0, 0)
  PROVE  DrainStep(t) \in Refining(D, 0, 0)
<1> DEFINE cs == Len(t.cells)
           gs == Len(t.groups)
           b0 == [t EXCEPT !.worklist = Front(@)]
           g == Last(t.worklist)
           C == Seq((SUBSET D) \ {{}})
           G == Seq((SUBSET SUBSET D) \ {{}})
<1>1. /\ t \in [cells : C, lineage : Seq(Nat), groups : G, worklist : Seq(Nat)]
      /\ Len(t.lineage) = Len(t.cells) /\ t.worklist \in Seq(1 .. gs)
      /\ cs \in Nat /\ gs \in Nat /\ DOMAIN t.cells = 1 .. cs
  BY DEF Refining
<1>2. CASE t.worklist = <<>>
  BY <1>2 DEF DrainStep
<1>3. CASE t.worklist # <<>>
  <2> DEFINE w == t.worklist
  <2>1. w \in Seq(1 .. gs) /\ w \in Seq(Nat) /\ w # <<>>
    BY <1>1, <1>3
  <2> HIDE DEF w, cs, gs, C, G
  <2>2. Len(w) \in Nat \ {0} /\ Front(w) \in Seq(1 .. gs) /\ Front(w) \in Seq(Nat) /\ Last(w) \in 1 .. gs
    BY <2>1, FrontIs
  <2>3. g \in 1 .. gs
    BY <2>2 DEF w
  <2>4. b0 \in Refining(D, cs, gs)
    <3>1. /\ b0 \in [cells : C, lineage : Seq(Nat), groups : G, worklist : Seq(Nat)]
          /\ b0.cells = t.cells /\ b0.lineage = t.lineage /\ b0.groups = t.groups /\ b0.worklist = Front(w)
      BY <1>1, <2>2 DEF w
    <3>2. cs <= cs /\ gs <= gs
      BY <1>1
    <3> HIDE DEF b0
    <3> QED BY <1>1, <2>2, <3>1, <3>2 DEF Refining, cs, gs, C, G
  <2> HIDE DEF b0, g
  <2> DEFINE r == FoldLeftDomain(LAMBDA u, c : SplitCell(u, c, g), b0, t.cells)
  <2>5. r \in Refining(D, cs, gs)
    BY <1>1, <2>3, <2>4, CellLoopStays
  <2>6. DrainStep(t) = r
    BY <1>3 DEF DrainStep, g, b0
  <2> HIDE DEF r
  <2>7. r \in Refining(D, 0, 0)
    BY <1>1, <2>5 DEF Refining
  <2> QED BY <2>6, <2>7
<1> QED BY <1>2, <1>3

(* All of its steps.                                                         *)
LEMMA DrainStays ==
  ASSUME NEW k \in Nat, NEW D, D \subseteq 0 .. k, NEW s \in Refining(D, 0, 0)
  PROVE  Drain(s) \in Refining(D, 0, 0)
<1> DEFINE V == Refining(D, 0, 0)
           steps == Cardinality(UNION ToSet(s.groups))
           step == [q \in V \X (0 .. steps) |-> IF q[2] = 0 THEN q[1] ELSE DrainStep(q[1])]
           Eq(g) == g = [i \in 0 .. steps |-> IF i = 0 THEN s ELSE DrainStep(g[i - 1])]
           h == CHOOSE g : Eq(g)
<1>1. steps \in Nat
  <2>1. s.groups \in Seq((SUBSET SUBSET D) \ {{}})
    BY DEF Refining
  <2>2. UNION ToSet(s.groups) \subseteq SUBSET D
    BY <2>1 DEF ToSet
  <2>3. IsFiniteSet(SUBSET D)
    <3>1. IsFiniteSet(0 .. k)
      BY FS_Interval
    <3>2. IsFiniteSet(D)
      BY <3>1, FS_Subset
    <3> QED BY <3>2, FS_SUBSET
  <2> QED BY <2>2, <2>3, FS_Subset, FS_CardinalityType
<1>2. \A v \in V : DrainStep(v) \in V
  BY DrainStepStays
<1>3. Drain(s) = h[steps]
  BY DEF Drain, DrainStep
<1> HIDE DEF V, steps
<1>4. step \in [V \X (0 .. steps) -> V] /\ \A v \in V, i \in 0 .. steps : i > 0 => step[v, i] = DrainStep(v)
  <2>1. \A q \in V \X (0 .. steps) : q[1] \in V /\ q[2] \in 0 .. steps
    OBVIOUS
  <2>2. \A q \in V \X (0 .. steps) : (IF q[2] = 0 THEN q[1] ELSE DrainStep(q[1])) \in V
    BY <1>2, <2>1
  <2>3. step \in [V \X (0 .. steps) -> V]
    BY <2>2
  <2>4. ASSUME NEW v \in V, NEW i \in 0 .. steps, i > 0 PROVE step[v, i] = DrainStep(v)
    <3>1. i # 0
      BY <2>4
    <3> QED BY <3>1
  <2> QED BY <2>3, <2>4
<1> HIDE DEF step
<1>5. PICK f \in [0 .. steps -> V] : IsLoop(s, step, 0, steps, f)
  <2>1. 0 \in Nat /\ 0 <= steps /\ s \in V
    BY <1>1 DEF V
  <2> QED BY <1>1, <1>4, <2>1, LoopExists
<1>6. Eq(f)
  <2>1. ASSUME NEW i \in 0 .. steps PROVE f[i] = IF i = 0 THEN s ELSE DrainStep(f[i - 1])
    <3>1. CASE i = 0
      BY <1>5, <3>1 DEF IsLoop
    <3>2. CASE i # 0
      <4>1. i > 0 /\ i - 1 \in 0 .. steps
        BY <1>1, <3>2
      <4>2. f[i] = step[f[i - 1], i] /\ f[i - 1] \in V
        BY <1>5, <4>1 DEF IsLoop
      <4> QED BY <1>4, <3>2, <4>1, <4>2
    <3> QED BY <3>1, <3>2
  <2>2. f = [i \in 0 .. steps |-> f[i]]
    BY <1>5
  <2> QED BY <2>1, <2>2
<1>7. Eq(h)
  <2> HIDE DEF Eq
  <2> QED BY <1>6
<1> HIDE DEF h
<1> DEFINE C == {i \in 0 .. steps : h[i] \in V}
<1>8. 0 .. steps \subseteq C
  <2>1. 0 \in C
    BY <1>1, <1>7 DEF V
  <2>2. \A i \in 0 .. steps : i > 0 /\ i - 1 \in C => i \in C
    <3> SUFFICES ASSUME NEW i \in 0 .. steps, i > 0, i - 1 \in C PROVE i \in C
      OBVIOUS
    <3>1. h[i] = DrainStep(h[i - 1]) /\ h[i - 1] \in V
      BY <1>7
    <3> QED BY <1>2, <3>1
  <2>3. C \subseteq 0 .. steps /\ 0 \in Nat /\ 0 <= steps
    BY <1>1
  <2> HIDE DEF C
  <2> QED BY <1>1, <2>1, <2>2, <2>3, RangeInduction
<1>9. steps \in 0 .. steps
  BY <1>1
<1> QED BY <1>3, <1>8, <1>9 DEF V

LEMMA LeastOf ==
  ASSUME NEW S, S \subseteq Nat, S # {}
  PROVE  Min(S) \in S /\ \A a \in S : Min(S) <= a
<1>1. \E a \in S : \A b \in S : a <= b
  BY LeastNumber
<1> QED BY <1>1 DEF Min

LEMMA TripleIs ==
  ASSUME NEW u \in Seq(Nat), NEW t \in Seq(Nat), NEW v \in Seq(Nat), Len(u) = 1, Len(v) = 1
  PROVE  (u \o t) \o v \in [1 .. Len(t) + 2 -> Nat]
<1> DEFINE a == u \o t
<1>0. Len(t) \in Nat
  OBVIOUS
<1>1. a \in Seq(Nat) /\ Len(a) = 1 + Len(t)
  <2>1. u \o t \in Seq(Nat)
    OBVIOUS
  <2>2. Len(u \o t) = Len(u) + Len(t)
    BY ConcatIs
  <2> QED BY <2>1, <2>2
<1> HIDE DEF a
<1> DEFINE b == a \o v
<1>2. b \in Seq(Nat) /\ Len(b) = Len(t) + 2
  <2>1. a \o v \in Seq(Nat)
    BY <1>1
  <2>2. Len(a \o v) = Len(a) + Len(v)
    BY <1>1, ConcatIs
  <2>3. Len(b) = (1 + Len(t)) + 1
    BY <1>1, <2>2
  <2> QED BY <1>0, <2>1, <2>3
<1> HIDE DEF b
<1>3. b \in [1 .. Len(b) -> Nat]
  BY <1>2
<1> QED BY <1>2, <1>3 DEF b, a

(* The cells in their final order are still cells.                           *)
LEMMA EmitSortedStays ==
  ASSUME NEW k \in Nat, NEW D, D \subseteq 0 .. k, NEW s \in Refining(D, 0, 0)
  PROVE  EmitSorted(s) \in Seq((SUBSET D) \ {{}})
<1> DEFINE X == DOMAIN s.cells
           rep(c) == Min(s.cells[c])
           through(c) == [g \in DOMAIN s.groups |-> Through(s.groups[g], rep(c))]
           key == [c \in X |-> <<s.lineage[c]>> \o through(c) \o <<rep(c)>>]
           place == Buckets(key)
           C == (SUBSET D) \ {{}}
           l == Len(s.groups) + 2
<1>1. /\ s.cells \in Seq(C) /\ s.lineage \in Seq(Nat) /\ s.groups \in Seq((SUBSET SUBSET D) \ {{}})
      /\ Len(s.lineage) = Len(s.cells)
  BY DEF Refining
<1>2. /\ Len(s.cells) \in Nat /\ X = 1 .. Len(s.cells) /\ Len(s.groups) \in Nat
      /\ DOMAIN s.groups = 1 .. Len(s.groups)
      /\ \A c \in X : s.cells[c] \in C /\ s.lineage[c] \in Nat
      /\ \A g \in DOMAIN s.groups : s.groups[g] \in SUBSET SUBSET D
  <2> HIDE DEF C
  <2> QED BY <1>1
<1>3. \A c \in X : rep(c) \in Nat
  <2> SUFFICES ASSUME NEW c \in X PROVE rep(c) \in Nat
    OBVIOUS
  <2>0. s.cells[c] \in C
    BY <1>2
  <2>2. 0 .. k \subseteq Nat
    OBVIOUS
  <2>1. s.cells[c] \subseteq Nat /\ s.cells[c] # {}
    <3> DEFINE a == s.cells[c]
    <3>1. a \in (SUBSET D) \ {{}}
      BY <2>0
    <3> HIDE DEF a
    <3>2. a \subseteq Nat /\ a # {}
      BY <2>2, <3>1
    <3> QED BY <3>2 DEF a
  <2> QED BY <2>1, LeastOf
<1>4. \A c \in X : \A g \in DOMAIN s.groups : Through(s.groups[g], rep(c)) \in Nat
  <2> SUFFICES ASSUME NEW c \in X, NEW g \in DOMAIN s.groups
               PROVE  Cardinality({w \in s.groups[g] : rep(c) \in w}) \in Nat
    BY DEF Through
  <2>1. {w \in s.groups[g] : rep(c) \in w} \in SUBSET SUBSET D
    BY <1>2
  <2>2. IsFiniteSet(SUBSET D)
    <3>1. IsFiniteSet(0 .. k)
      BY FS_Interval
    <3>2. IsFiniteSet(D)
      BY <3>1, FS_Subset
    <3> QED BY <3>2, FS_SUBSET
  <2> HIDE DEF rep
  <2> QED BY <2>1, <2>2, FS_Subset, FS_CardinalityType
<1> HIDE DEF rep
<1>5. key \in [X -> [1 .. l -> Nat]]
  <2> SUFFICES ASSUME NEW c \in X PROVE <<s.lineage[c]>> \o through(c) \o <<rep(c)>> \in [1 .. l -> Nat]
    OBVIOUS
  <2>1. through(c) \in [1 .. Len(s.groups) -> Nat]
    BY <1>2, <1>4
  <2> HIDE DEF through
  <2>2. through(c) \in Seq(Nat) /\ Len(through(c)) = Len(s.groups)
    BY <1>2, <2>1, ListIs
  <2> DEFINE u == <<s.lineage[c]>>
             v == <<rep(c)>>
             t == through(c)
  <2>3. u \in Seq(Nat) /\ Len(u) = 1 /\ v \in Seq(Nat) /\ Len(v) = 1
    <3>1. s.lineage[c] \in Nat /\ rep(c) \in Nat
      BY <1>2, <1>3
    <3> QED BY <3>1
  <2> HIDE DEF u, v
  <2>4. t \in Seq(Nat) /\ Len(t) = Len(s.groups)
    BY <2>2
  <2> HIDE DEF t
  <2> DEFINE ll == Len(s.groups)
  <2>5. ll \in Nat
    BY <1>2
  <2> HIDE DEF ll
  <2>6. (u \o t) \o v \in [1 .. ll + 2 -> Nat]
    BY <2>3, <2>4, <2>5, TripleIs DEF ll
  <2> QED BY <2>6 DEF u, v, t, ll
<1>6. IsFiniteSet(X)
  BY <1>2, FS_Interval
<1>7. PICK q \in Nat : place \in [1 .. q -> (SUBSET X) \ {{}}] /\ (q = 0 => X = {})
  <2>1. l \in Nat
    BY <1>2
  <2> HIDE DEF X, key, l
  <2>2. NoneEmpty(Buckets(key), X)
    BY <1>5, <1>6, <2>1, BucketFacts
  <2> QED BY <2>2 DEF NoneEmpty
<1>8. EmitSorted(s) = [i \in DOMAIN place |-> s.cells[CHOOSE c \in place[i] : TRUE]]
  BY DEF EmitSorted, rep
<1> HIDE DEF place
<1>9. \A i \in 1 .. q : s.cells[CHOOSE c \in place[i] : TRUE] \in C
  <2> SUFFICES ASSUME NEW i \in 1 .. q PROVE s.cells[CHOOSE c \in place[i] : TRUE] \in C
    OBVIOUS
  <2>1. place[i] \in (SUBSET X) \ {{}}
    BY <1>7
  <2>2. (CHOOSE c \in place[i] : TRUE) \in X
    BY <2>1
  <2> QED BY <1>2, <2>2
<1> DEFINE out == [i \in DOMAIN place |-> s.cells[CHOOSE c \in place[i] : TRUE]]
<1>10. out \in [1 .. q -> C]
  BY <1>7, <1>9
<1> HIDE DEF out, C
<1>11. out \in Seq(C)
  BY <1>10, ListIs
<1> QED BY <1>8, <1>11 DEF out, C

(* Refining an ordered partition gives an ordered partition.                 *)
LEMMA RefineStays ==
  ASSUME NEW k \in Nat, NEW D, D \subseteq 0 .. k, NEW p \in Seq((SUBSET D) \ {{}}),
         NEW words_, words_ \subseteq SUBSET D
  PROVE  Refine(p, words_) \in Seq((SUBSET D) \ {{}})
<1> DEFINE C == (SUBSET D) \ {{}}
           G == (SUBSET SUBSET D) \ {{}}
           key == [w \in words_ |-> Histogram(w, p)]
           groups == Buckets(key)
           lineage == [i \in DOMAIN p |-> i]
           list == [g \in DOMAIN groups |-> g]
           s == [cells |-> p, lineage |-> lineage, groups |-> groups, worklist |-> list]
<1>1. Len(p) \in Nat /\ DOMAIN p = 1 .. Len(p) /\ \A i \in 1 .. Len(p) : p[i] \subseteq D
  OBVIOUS
<1>2. IsFiniteSet(D) /\ IsFiniteSet(words_)
  <2>1. IsFiniteSet(0 .. k)
    BY FS_Interval
  <2>2. IsFiniteSet(D)
    BY <2>1, FS_Subset
  <2> QED BY <2>2, FS_SUBSET, FS_Subset
<1>3. key \in [words_ -> [1 .. Len(p) -> Nat]]
  <2>1. ASSUME NEW w \in words_, NEW i \in 1 .. Len(p) PROVE Cardinality(w \cap p[i]) \in Nat
    <3>1. w \cap p[i] \in SUBSET D
      BY <1>1
    <3> QED BY <1>2, <3>1, FS_Subset, FS_CardinalityType
  <2>2. \A w \in words_ : Histogram(w, p) = [i \in 1 .. Len(p) |-> Cardinality(w \cap p[i])]
    BY <1>1 DEF Histogram
  <2> QED BY <2>1, <2>2
<1>4. PICK q \in Nat : groups \in [1 .. q -> (SUBSET words_) \ {{}}]
  <2> HIDE DEF key
  <2>2. NoneEmpty(Buckets(key), words_)
    BY <1>1, <1>2, <1>3, BucketFacts
  <2> QED BY <2>2 DEF NoneEmpty
<1> HIDE DEF groups
<1>5. groups \in Seq(G) /\ Len(groups) = q
  <2>1. groups \in [1 .. q -> G]
    BY <1>4
  <2> HIDE DEF G
  <2> QED BY <2>1, ListIs
<1>6. lineage \in Seq(Nat) /\ Len(lineage) = Len(p)
  <2>1. lineage \in [1 .. Len(p) -> Nat]
    BY <1>1
  <2> HIDE DEF lineage
  <2> QED BY <1>1, <2>1, ListIs
<1>7. list \in Seq(1 .. Len(groups)) /\ list \in Seq(Nat)
  <2>1. list \in [1 .. q -> 1 .. q] /\ list \in [1 .. q -> Nat]
    BY <1>5
  <2> HIDE DEF list
  <2> QED BY <1>5, <2>1, ListIs
<1>8. s \in Refining(D, 0, 0)
  <2> HIDE DEF lineage, list
  <2>1. /\ s \in [cells : Seq(C), lineage : Seq(Nat), groups : Seq(G), worklist : Seq(Nat)]
        /\ s.cells = p /\ s.lineage = lineage /\ s.groups = groups /\ s.worklist = list
    BY <1>5, <1>6, <1>7
  <2>2. 0 <= Len(p) /\ 0 <= Len(groups)
    BY <1>1, <1>5
  <2> HIDE DEF s
  <2> QED BY <1>6, <1>7, <2>1, <2>2 DEF Refining, C, G
<1>9. Refine(p, words_) = EmitSorted(Drain(s))
  BY DEF Refine, groups
<1> HIDE DEF s
<1> DEFINE r == Drain(s)
<1>10. r \in Refining(D, 0, 0)
  BY <1>8, DrainStays
<1> HIDE DEF r
<1>11. EmitSorted(r) \in Seq((SUBSET D) \ {{}})
  BY <1>10, EmitSortedStays
<1> QED BY <1>9, <1>11 DEF r

(* The columns in the support and the others.                                *)
LEMMA InitialPartitionIs ==
  ASSUME NEW m \in Nat, NEW rows \in Seq(SUBSET (0 .. m - 1))
  PROVE  /\ InitialPartition(rows, m) \in Seq((SUBSET (0 .. m - 1)) \ {{}})
         /\ InvariantRefiners(rows) \subseteq SUBSET (0 .. m - 1)
<1> DEFINE D == 0 .. m - 1
           C == (SUBSET D) \ {{}}
           support == UNION ToSet(rows)
           cell(S) == IF S = {} THEN <<>> ELSE <<S>>
<1>1. support \in SUBSET D
  BY DEF ToSet
<1>2. \A S \in SUBSET D : cell(S) \in Seq(C)
  <2> SUFFICES ASSUME NEW S \in SUBSET D PROVE cell(S) \in Seq(C)
    OBVIOUS
  <2>1. S # {} => S \in C
    OBVIOUS
  <2> HIDE DEF C, D
  <2>2. <<>> \in Seq(C)
    OBVIOUS
  <2>3. S \in C => <<S>> \in Seq(C)
    OBVIOUS
  <2> QED BY <2>1, <2>2, <2>3
<1>3. D \ support \in SUBSET D
  OBVIOUS
<1>4. InitialPartition(rows, m) = cell(support) \o cell(D \ support)
  BY DEF InitialPartition
<1> HIDE DEF C, D, support, cell
<1>5. cell(support) \o cell(D \ support) \in Seq(C)
  <2>1. cell(support) \in Seq(C) /\ cell(D \ support) \in Seq(C)
    BY <1>1, <1>2, <1>3
  <2> QED BY <2>1
<1>6. \A u \in SUBSET (0 .. Len(rows) - 1) : Combination(rows, u) \subseteq D
  <2> SUFFICES ASSUME NEW u \in SUBSET (0 .. Len(rows) - 1), NEW x \in Combination(rows, u) PROVE x \in D
    OBVIOUS
  <2>1. PICK i \in u : x \in rows[i + 1]
    BY DEF Combination
  <2>2. Len(rows) \in Nat /\ DOMAIN rows = 1 .. Len(rows)
    OBVIOUS
  <2>3. i + 1 \in 1 .. Len(rows)
    BY <2>2
  <2> QED BY <2>1, <2>2, <2>3 DEF D
<1>7. InvariantRefiners(rows) \subseteq SUBSET D
  BY <1>6 DEF InvariantRefiners, AllWords
<1> QED BY <1>4, <1>5, <1>7 DEF C, D

(* Taking a column out leaves an ordered partition.                          *)
LEMMA IndividualiseIs ==
  ASSUME NEW D, NEW p \in Seq((SUBSET D) \ {{}}), NEW c \in 1 .. Len(p), NEW col \in p[c]
  PROVE  Individualise(p, c, col) \in Seq((SUBSET D) \ {{}})
<1> DEFINE C == (SUBSET D) \ {{}}
           a == SubSeq(p, 1, c - 1)
           b == <<{col}>>
           r == IF p[c] = {col} THEN <<>> ELSE <<p[c] \ {col}>>
           z == SubSeq(p, c + 1, Len(p))
<1>1. p \in Seq(C) /\ p[c] \in C /\ Len(p) \in Nat
  <2>1. p \in Seq(C)
    OBVIOUS
  <2> HIDE DEF C
  <2> QED BY <2>1
<1>2. b \in Seq(C)
  <2>1. {col} \in C
    BY <1>1
  <2> HIDE DEF C
  <2> QED BY <2>1
<1>3. r \in Seq(C)
  <2>1. p[c] # {col} => p[c] \ {col} \in C
    BY <1>1
  <2> HIDE DEF C
  <2> QED BY <2>1
<1> HIDE DEF C, b, r
<1>4. a \in Seq(C) /\ z \in Seq(C)
  <2>1. p \in Seq(C)
    BY DEF C
  <2>2. a \in Seq(C)
    BY <1>1, <2>1
  <2>3. z \in Seq(C)
    BY <1>1, <2>1
  <2> QED BY <2>2, <2>3
<1>5. Individualise(p, c, col) = a \o b \o r \o z
  BY DEF Individualise, b, r
<1> HIDE DEF a, z
<1>6. a \o b \o r \o z \in Seq(C)
  <2>1. a \o b \in Seq(C)
    BY <1>2, <1>4
  <2>2. (a \o b) \o r \in Seq(C)
    BY <1>3, <2>1
  <2> QED BY <1>4, <2>2
<1> QED BY <1>5, <1>6 DEF C

-----------------------------------------------------------------------------
(* The undo log of a partial key.                                            *)

Rows(D, k) == [1 .. k -> SUBSET D]

Losses(D, k) == Seq((1 .. k) \X SUBSET D)

(* Replayed backwards, the log takes the rows back to what they were: of     *)
(* every row that it has, the entries up to one of them hold the old value.  *)
Undoes(log, rows, old, k) ==
  \A r \in 1 .. k :
    \/ \E h \in DOMAIN log : /\ log[h][1] = r /\ log[h][2] = old[r]
                             /\ \A q \in DOMAIN log : q < h /\ log[q][1] = r => log[q][2] = old[r]
    \/ rows[r] = old[r] /\ \A h \in DOMAIN log : log[h][1] # r

Undone(log, rows) == FoldRight(LAMBDA entry, w : [w EXCEPT ![entry[1]] = entry[2]], log, rows)

IsUndoing(g, log, b0) ==
  g = [s \in SUBSET (DOMAIN log) |->
         IF s = {} THEN b0 ELSE [g[s \ {Min(s)}] EXCEPT ![log[Min(s)][1]] = log[Min(s)][2]]]

HasUndoing(log, b0) == \E g : IsUndoing(g, log, b0)

(* The replay exists, and applies the first entry last.                      *)
LEMMA UndoingExists ==
  ASSUME NEW k \in Nat, NEW D, NEW log \in Losses(D, k), NEW b0 \in Rows(D, k)
  PROVE  /\ HasUndoing(log, b0)
         /\ \A s \in SUBSET (DOMAIN log) : s # {} => Min(s) \in s /\ \A a \in s : Min(s) <= a
<1> DEFINE S == DOMAIN log
           V == Rows(D, k)
           p == [s \in SUBSET S |-> Min(s)]
           op == [a \in S \X V |-> [a[2] EXCEPT ![log[a[1]][1]] = log[a[1]][2]]]
<1>1. S = 1 .. Len(log) /\ Len(log) \in Nat /\ \A h \in S : log[h] \in (1 .. k) \X SUBSET D
  BY DEF Losses
<1>2. ASSUME NEW s \in SUBSET S, s # {} PROVE Min(s) \in s /\ \A a \in s : Min(s) <= a
  <2>1. s \subseteq Nat
    BY <1>1
  <2> QED BY <1>2, <2>1, LeastOf
<1>3. ASSUME NEW h \in S, NEW v \in V PROVE [v EXCEPT ![log[h][1]] = log[h][2]] \in V
  BY <1>1 DEF Rows
<1>4. op \in [S \X V -> V] /\ \A h \in S, v \in V : op[h, v] = [v EXCEPT ![log[h][1]] = log[h][2]]
  BY <1>3
<1>5. IsFiniteSet(S)
  <2> DEFINE l == Len(log)
  <2>1. l \in Nat /\ S = 1 .. l
    BY <1>1
  <2> HIDE DEF l, S
  <2>2. IsFiniteSet(1 .. l)
    BY <2>1, FS_Interval
  <2> QED BY <2>1, <2>2
<1>6. \A s \in SUBSET S : p[s] = Min(s)
  OBVIOUS
<1> HIDE DEF S, V, p, op
<1>7. Foldable(op, b0, p, S, V)
  BY <1>2, <1>4, <1>5, <1>6 DEF Foldable, V
<1>8. PICK g \in [SUBSET S -> V] : IsFold(op, b0, p, g, S)
  BY <1>7, FoldExists
<1>9. ASSUME NEW s \in SUBSET S
      PROVE  g[s] = IF s = {} THEN b0 ELSE [g[s \ {Min(s)}] EXCEPT ![log[Min(s)][1]] = log[Min(s)][2]]
  <2>1. g[s] = IF s = {} THEN b0 ELSE op[Min(s), g[s \ {Min(s)}]]
    BY <1>6, <1>8 DEF IsFold, FoldAt
  <2>2. CASE s = {}
    BY <2>1, <2>2
  <2>3. CASE s # {}
    <3>1. Min(s) \in S /\ g[s \ {Min(s)}] \in V
      BY <1>2, <1>8, <2>3
    <3> QED BY <1>4, <2>1, <2>3, <3>1
  <2> QED BY <2>2, <2>3
<1>10. IsUndoing(g, log, b0)
  BY <1>8, <1>9 DEF IsUndoing, S
<1>11. \A s \in SUBSET (DOMAIN log) : s # {} => Min(s) \in s /\ \A a \in s : Min(s) <= a
  BY <1>2 DEF S
<1> QED BY <1>10, <1>11 DEF HasUndoing

(* The value a row has when the entries in s have been replayed: that of the *)
(* first of them that is about it.                                           *)
FirstLoss(w, log, b0, s, r) ==
  \/ \E h \in s : /\ log[h][1] = r /\ w[r] = log[h][2]
                  /\ \A q \in s : q < h => log[q][1] # r
  \/ w[r] = b0[r] /\ \A h \in s : log[h][1] # r

FirstLosses(w, log, b0, s, D, k) == w \in Rows(D, k) /\ \A r \in 1 .. k : FirstLoss(w, log, b0, s, r)

(* So the first entry about a row has the last word.                         *)
LEMMA UndoneRows ==
  ASSUME NEW k \in Nat, NEW D, NEW log \in Losses(D, k), NEW b0 \in Rows(D, k),
         NEW g, IsUndoing(g, log, b0)
  PROVE  FirstLosses(g[DOMAIN log], log, b0, DOMAIN log, D, k)
<1> DEFINE S == DOMAIN log
           C == {s \in SUBSET S : FirstLosses(g[s], log, b0, s, D, k)}
<1>1. S = 1 .. Len(log) /\ Len(log) \in Nat /\ \A h \in S : log[h] \in (1 .. k) \X SUBSET D
  BY DEF Losses
<1>2. \A s \in SUBSET S : s # {} => Min(s) \in s /\ \A a \in s : Min(s) <= a
  BY UndoingExists
<1>3. \A s \in SUBSET S : g[s] = IF s = {} THEN b0 ELSE [g[s \ {Min(s)}] EXCEPT ![log[Min(s)][1]] = log[Min(s)][2]]
  BY DEF IsUndoing
<1> HIDE DEF S
<1>4. {} \in C
  <2>1. g[{}] = b0
    BY <1>3
  <2>2. FirstLosses(b0, log, b0, {}, D, k)
    BY DEF FirstLosses, FirstLoss
  <2> QED BY <2>1, <2>2
<1>5. ASSUME NEW s \in SUBSET S, s # {}, s \ {Min(s)} \in C PROVE s \in C
  <2> DEFINE x == Min(s)
             t == s \ {x}
             w == g[t]
  <2>1. x \in s /\ x \in S /\ \A a \in s : x <= a
    BY <1>2, <1>5
  <2>2. w \in Rows(D, k) /\ \A r \in 1 .. k : FirstLoss(w, log, b0, t, r)
    BY <1>5 DEF FirstLosses
  <2>3. log[x][1] \in 1 .. k /\ log[x][2] \in SUBSET D
    <3>1. log[x] \in (1 .. k) \X SUBSET D
      BY <1>1, <2>1
    <3> QED BY <3>1
  <2>4. g[s] = [w EXCEPT ![log[x][1]] = log[x][2]]
    BY <1>3, <1>5
  <2>5. s \subseteq Nat
    BY <1>1
  <2>6. s = t \cup {x} /\ x \notin t
    BY <2>1
  <2> HIDE DEF w, t, x
  <2>7. g[s] \in Rows(D, k)
    BY <2>2, <2>3, <2>4 DEF Rows
  <2>8. ASSUME NEW r \in 1 .. k PROVE FirstLoss(g[s], log, b0, s, r)
    <3>1. CASE log[x][1] = r
      <4>1. g[s][r] = log[x][2]
        BY <2>2, <2>4, <3>1 DEF Rows
      <4>2. \A q \in s : ~(q < x)
        BY <2>1, <2>5
      <4> QED BY <2>1, <3>1, <4>1, <4>2 DEF FirstLoss
    <3>2. CASE log[x][1] # r
      <4>1. g[s][r] = w[r]
        BY <2>2, <2>4, <3>2 DEF Rows
      <4>2. FirstLoss(w, log, b0, t, r)
        BY <2>2
      <4>3. CASE \E h \in t : log[h][1] = r /\ w[r] = log[h][2] /\ \A q \in t : q < h => log[q][1] # r
        <5>1. PICK h \in t : log[h][1] = r /\ w[r] = log[h][2] /\ \A q \in t : q < h => log[q][1] # r
          BY <4>3
        <5>2. h \in s /\ \A q \in s : q < h => log[q][1] # r
          BY <2>6, <3>2, <5>1
        <5> QED BY <4>1, <5>1, <5>2 DEF FirstLoss
      <4>4. CASE w[r] = b0[r] /\ \A h \in t : log[h][1] # r
        <5>1. \A h \in s : log[h][1] # r
          BY <2>6, <3>2, <4>4
        <5> QED BY <4>1, <4>4, <5>1 DEF FirstLoss
      <4> QED BY <4>2, <4>3, <4>4 DEF FirstLoss
    <3> QED BY <3>1, <3>2
  <2>9. FirstLosses(g[s], log, b0, s, D, k)
    BY <2>7, <2>8 DEF FirstLosses
  <2> QED BY <2>9
<1>6. C \subseteq SUBSET S
  OBVIOUS
<1>7. IsFiniteSet(S)
  BY <1>1, FS_Interval
<1> HIDE DEF C
<1>8. ASSUME S \notin C PROVE FALSE
  <2> DEFINE Bad == (SUBSET S) \ C
  <2>1. Bad \subseteq SUBSET S /\ Bad # {}
    BY <1>8
  <2>2. \E s \in Bad : \A u \in Bad : u \subseteq s => u = s
    <3> HIDE DEF Bad
    <3> QED BY <1>7, <2>1, LeastSet
  <2>3. PICK s \in Bad : \A u \in Bad : u \subseteq s => u = s
    BY <2>2
  <2>4. s # {} /\ Min(s) \in s
    BY <1>2, <1>4
  <2>5. s \ {Min(s)} \in SUBSET S /\ s \ {Min(s)} \subseteq s /\ s \ {Min(s)} # s
    BY <2>4
  <2>6. s \ {Min(s)} \in C
    BY <2>3, <2>5
  <2> QED BY <1>5, <2>4, <2>6
<1>9. S \in C
  BY <1>8
<1> QED BY <1>9 DEF C, S

(* A log that undoes gives the old rows back.                                *)
LEMMA UndoneIs ==
  ASSUME NEW k \in Nat, NEW D, NEW log \in Losses(D, k), NEW b0 \in Rows(D, k), NEW old \in Rows(D, k),
         Undoes(log, b0, old, k)
  PROVE  FoldRight(LAMBDA entry, rows : [rows EXCEPT ![entry[1]] = entry[2]], log, b0) = old
<1> DEFINE f == CHOOSE f : IsUndoing(f, log, b0)
           w == f[DOMAIN log]
<1>1. FoldRight(LAMBDA entry, rows : [rows EXCEPT ![entry[1]] = entry[2]], log, b0) = w
  BY DEF FoldRight, MapThenFoldSet, IsUndoing
<1>2. IsUndoing(f, log, b0)
  BY UndoingExists DEF HasUndoing
<1> HIDE DEF f
<1>3. w \in Rows(D, k) /\ \A r \in 1 .. k : FirstLoss(w, log, b0, DOMAIN log, r)
  BY <1>2, UndoneRows DEF FirstLosses
<1> HIDE DEF w
<1>4. DOMAIN log \subseteq Nat
  BY DEF Losses
<1>5. ASSUME NEW r \in 1 .. k PROVE w[r] = old[r]
  <2>1. FirstLoss(w, log, b0, DOMAIN log, r)
    BY <1>3
  <2>2. CASE \E h \in DOMAIN log : /\ log[h][1] = r /\ log[h][2] = old[r]
                                   /\ \A q \in DOMAIN log : q < h /\ log[q][1] = r => log[q][2] = old[r]
    <3>1. PICK h \in DOMAIN log : /\ log[h][1] = r /\ log[h][2] = old[r]
                                  /\ \A q \in DOMAIN log : q < h /\ log[q][1] = r => log[q][2] = old[r]
      BY <2>2
    <3>2. PICK j \in DOMAIN log : /\ log[j][1] = r /\ w[r] = log[j][2]
                                  /\ \A q \in DOMAIN log : q < j => log[q][1] # r
      BY <2>1, <3>1 DEF FirstLoss
    <3>3. ~(h < j)
      BY <3>1, <3>2
    <3>4. j < h \/ j = h
      BY <1>4, <3>3
    <3> QED BY <3>1, <3>2, <3>4
  <2>3. CASE b0[r] = old[r] /\ \A h \in DOMAIN log : log[h][1] # r
    BY <2>1, <2>3 DEF FirstLoss
  <2> QED BY <2>2, <2>3 DEF Undoes
<1>6. w = old
  BY <1>3, <1>5 DEF Rows
<1> QED BY <1>1, <1>6

(* What is logged later is replayed sooner.                                  *)
LEMMA UndoesBoth ==
  ASSUME NEW k \in Nat, NEW D, NEW l1 \in Losses(D, k), NEW l2 \in Losses(D, k),
         NEW rows, NEW mid, NEW old, Undoes(l1, mid, old, k), Undoes(l2, rows, mid, k)
  PROVE  l1 \o l2 \in Losses(D, k) /\ Undoes(l1 \o l2, rows, old, k)
<1> DEFINE l == l1 \o l2
           a == Len(l1)
           b == Len(l2)
<1>1. l \in Losses(D, k) /\ Len(l) = a + b
  <2> DEFINE E == (1 .. k) \X SUBSET D
  <2>1. l1 \in Seq(E) /\ l2 \in Seq(E)
    BY DEF Losses
  <2> HIDE DEF E
  <2>2. l \in Seq(E) /\ Len(l) = a + b
    BY <2>1, ConcatIs
  <2> QED BY <2>2 DEF Losses, E
<1>2. a \in Nat /\ b \in Nat /\ DOMAIN l1 = 1 .. a /\ DOMAIN l2 = 1 .. b /\ DOMAIN l = 1 .. a + b
  <2>1. a \in Nat /\ b \in Nat /\ DOMAIN l1 = 1 .. a /\ DOMAIN l2 = 1 .. b
    BY DEF Losses
  <2> HIDE DEF l, a, b
  <2>2. DOMAIN l = 1 .. a + b
    BY <1>1, <2>1 DEF Losses
  <2> QED BY <2>1, <2>2
<1>3. \A i \in 1 .. a + b : l[i] = IF i <= a THEN l1[i] ELSE l2[i - a]
  <2> DEFINE E == (1 .. k) \X SUBSET D
  <2>1. l1 \in Seq(E) /\ l2 \in Seq(E)
    BY DEF Losses
  <2> HIDE DEF E
  <2> QED BY <2>1
<1> HIDE DEF l, a, b
<1>4. \A i \in 1 .. a : i \in 1 .. a + b /\ l[i] = l1[i]
  BY <1>2, <1>3
<1>5. \A i \in 1 .. b : a + i \in 1 .. a + b /\ l[a + i] = l2[i]
  <2> SUFFICES ASSUME NEW i \in 1 .. b PROVE a + i \in 1 .. a + b /\ l[a + i] = l2[i]
    OBVIOUS
  <2>1. a + i \in 1 .. a + b /\ ~(a + i <= a) /\ (a + i) - a = i
    BY <1>2
  <2> QED BY <1>3, <2>1
<1>6. \A i \in 1 .. a + b : i \in 1 .. a \/ \E j \in 1 .. b : i = a + j
  <2> SUFFICES ASSUME NEW i \in 1 .. a + b, i \notin 1 .. a PROVE \E j \in 1 .. b : i = a + j
    OBVIOUS
  <2>1. i - a \in 1 .. b /\ i = a + (i - a)
    BY <1>2
  <2> QED BY <2>1
<1>7. ASSUME NEW r \in 1 .. k
      PROVE  \/ \E h \in DOMAIN l : /\ l[h][1] = r /\ l[h][2] = old[r]
                                    /\ \A q \in DOMAIN l : q < h /\ l[q][1] = r => l[q][2] = old[r]
             \/ rows[r] = old[r] /\ \A h \in DOMAIN l : l[h][1] # r
  <2>1. CASE \E h \in DOMAIN l1 : /\ l1[h][1] = r /\ l1[h][2] = old[r]
                                  /\ \A q \in DOMAIN l1 : q < h /\ l1[q][1] = r => l1[q][2] = old[r]
    <3>1. PICK h \in 1 .. a : /\ l1[h][1] = r /\ l1[h][2] = old[r]
                              /\ \A q \in 1 .. a : q < h /\ l1[q][1] = r => l1[q][2] = old[r]
      BY <1>2, <2>1
    <3>2. \A q \in 1 .. a + b : q < h => q \in 1 .. a
      BY <1>2
    <3>3. \A q \in DOMAIN l : q < h /\ l[q][1] = r => l[q][2] = old[r]
      BY <1>2, <1>4, <3>1, <3>2
    <3>4. h \in DOMAIN l /\ l[h] = l1[h]
      BY <1>2, <1>4
    <3> QED BY <3>1, <3>3, <3>4
  <2>2. CASE mid[r] = old[r] /\ \A h \in DOMAIN l1 : l1[h][1] # r
    <3>1. CASE \E h \in DOMAIN l2 : /\ l2[h][1] = r /\ l2[h][2] = mid[r]
                                    /\ \A q \in DOMAIN l2 : q < h /\ l2[q][1] = r => l2[q][2] = mid[r]
      <4>1. PICK h \in 1 .. b : /\ l2[h][1] = r /\ l2[h][2] = mid[r]
                                /\ \A q \in 1 .. b : q < h /\ l2[q][1] = r => l2[q][2] = mid[r]
        BY <1>2, <3>1
      <4>2. ASSUME NEW q \in 1 .. a + b, q < a + h, l[q][1] = r PROVE l[q][2] = old[r]
        <5>1. CASE q \in 1 .. a
          BY <1>2, <1>4, <2>2, <4>2, <5>1
        <5>2. CASE \E j \in 1 .. b : q = a + j
          <6>1. PICK j \in 1 .. b : q = a + j
            BY <5>2
          <6>2. j < h /\ l[q] = l2[j]
            BY <1>2, <1>5, <4>2, <6>1
          <6> QED BY <2>2, <4>1, <4>2, <6>2
        <5> QED BY <1>6, <5>1, <5>2
      <4>3. a + h \in DOMAIN l /\ l[a + h] = l2[h]
        BY <1>2, <1>5
      <4>4. l[a + h][1] = r /\ l[a + h][2] = old[r]
        BY <2>2, <4>1, <4>3
      <4>5. \A q \in DOMAIN l : q < a + h /\ l[q][1] = r => l[q][2] = old[r]
        BY <1>2, <4>2
      <4> QED BY <4>3, <4>4, <4>5
    <3>2. CASE rows[r] = mid[r] /\ \A h \in DOMAIN l2 : l2[h][1] # r
      <4>1. \A q \in 1 .. a + b : l[q][1] # r
        <5> SUFFICES ASSUME NEW q \in 1 .. a + b PROVE l[q][1] # r
          OBVIOUS
        <5>1. CASE q \in 1 .. a
          BY <1>2, <1>4, <2>2, <5>1
        <5>2. CASE \E j \in 1 .. b : q = a + j
          <6>1. PICK j \in 1 .. b : q = a + j
            BY <5>2
          <6>2. l[q] = l2[j]
            BY <1>5, <6>1
          <6> QED BY <1>2, <3>2, <6>2
        <5> QED BY <1>6, <5>1, <5>2
      <4> QED BY <1>2, <2>2, <3>2, <4>1
    <3> QED BY <3>1, <3>2 DEF Undoes
  <2> QED BY <2>1, <2>2 DEF Undoes
<1>8. Undoes(l, rows, old, k)
  BY <1>7 DEF Undoes
<1> QED BY <1>1, <1>8 DEF l

LEMMA UndoesNothing ==
  ASSUME NEW D, NEW k, NEW rows
  PROVE  <<>> \in Losses(D, k) /\ Undoes(<<>>, rows, rows, k)
BY DEF Losses, Undoes

EveryRank(R, S) == \A i \in 1 .. Cardinality(S) : \E x \in S : RankIn(R, S)[x] = i

LEMMA EveryRankTaken ==
  ASSUME NEW S, IsFiniteSet(S), NEW R, StrictlyOrders(R, S)
  PROVE  EveryRank(R, S)
BY RanksAre DEF EveryRank

(* A list of a finite set of numbers.                                        *)
LEMMA InOrderIs ==
  ASSUME NEW k \in Nat, NEW S, S \subseteq 1 .. k
  PROVE  \E m \in Nat : InOrder(S) \in [1 .. m -> S]
<1> DEFINE m == Cardinality(S)
           R == {a \in S \X S : a[1] < a[2]}
           rank == RankIn(R, S)
<1>1. IsFiniteSet(S)
  <2>1. IsFiniteSet(1 .. k)
    BY FS_Interval
  <2> QED BY <2>1, FS_Subset
<1>2. \A x, y \in S : <<x, y>> \in R <=> x < y
  OBVIOUS
<1>3. S \subseteq Nat
  OBVIOUS
<1> HIDE DEF R
<1>4. StrictlyOrders(R, S)
  BY <1>2, <1>3 DEF StrictlyOrders
<1>5. \A x \in S : rank[x] = Cardinality({q \in S : q < x}) + 1
  <2> SUFFICES ASSUME NEW x \in S PROVE rank[x] = Cardinality({q \in S : q < x}) + 1
    OBVIOUS
  <2>1. {y \in S : <<y, x>> \in R} = {q \in S : q < x}
    BY <1>2
  <2>2. rank[x] = Cardinality({y \in S : <<y, x>> \in R}) + 1
    BY DEF RankIn
  <2> QED BY <2>1, <2>2
<1>6. m \in Nat /\ \A i \in 1 .. m : \E x \in S : rank[x] = i
  <2>1. Cardinality(S) \in Nat
    BY <1>1, FS_CardinalityType
  <2>2. EveryRank(R, S)
    BY <1>1, <1>4, EveryRankTaken
  <2> QED BY <2>1, <2>2 DEF EveryRank
<1> HIDE DEF rank
<1>7. ASSUME NEW i \in 1 .. m PROVE (CHOOSE r \in S : Cardinality({q \in S : q < r}) = i - 1) \in S
  <2>1. PICK x \in S : rank[x] = i
    BY <1>6
  <2> DEFINE lower == {q \in S : q < x}
  <2>2. Cardinality(lower) \in Nat
    <3>1. lower \in SUBSET S
      OBVIOUS
    <3> HIDE DEF lower
    <3> QED BY <1>1, <3>1, FS_Subset, FS_CardinalityType
  <2>3. Cardinality(lower) = i - 1
    <3>1. Cardinality(lower) + 1 = i
      BY <1>5, <2>1
    <3> HIDE DEF lower, m
    <3> QED BY <2>2, <3>1
  <2> QED BY <2>3
<1>8. InOrder(S) \in [1 .. m -> S]
  BY <1>7 DEF InOrder
<1> QED BY <1>6, <1>8

-----------------------------------------------------------------------------
(* Absorbing a column.                                                       *)

Entries(k) == {SumSet({2^(k - r) : r \in R}) : R \in SUBSET (1 .. k)}

PartsOf(D, k) == [work : Rows(D, k), depth : Nat, key : Seq(Entries(k)), absorbed : SUBSET D]

Absorbing(D, k) == [part : PartsOf(D, k), log : Losses(D, k)]

(* y has come from P: its log takes its rows back to those of P, and its key *)
(* begins with that of P.                                                    *)
GrownFrom(y, P, k) ==
  /\ Undoes(y.log, y.part.work, P.work, k)
  /\ Len(P.key) <= Len(y.part.key) /\ \A i \in 1 .. Len(P.key) : y.part.key[i] = P.key[i]

(* The two entries of a swap undo it.                                        *)
LEMMA SwapUndone ==
  ASSUME NEW k \in Nat, NEW D, NEW rows \in Rows(D, k), NEW i \in 1 .. k, NEW p \in 1 .. k,
         NEW swapped, swapped = [rows EXCEPT ![i] = rows[p], ![p] = rows[i]],
         NEW swaps, swaps = IF p = i THEN <<>> ELSE <<<<i, rows[i]>>, <<p, rows[p]>>>>
  PROVE  swapped \in Rows(D, k) /\ swaps \in Losses(D, k) /\ Undoes(swaps, swapped, rows, k)
<1>1. swapped \in Rows(D, k) /\ \A r \in 1 .. k : r # i /\ r # p => swapped[r] = rows[r]
  BY DEF Rows
<1>2. CASE p = i
  <2>1. swapped = rows
    BY <1>2 DEF Rows
  <2> QED BY <1>2, <2>1, UndoesNothing
<1>3. CASE p # i
  <2> DEFINE E == (1 .. k) \X SUBSET D
             u == <<i, rows[i]>>
             v == <<p, rows[p]>>
  <2>1. u \in E /\ v \in E /\ u[1] = i /\ u[2] = rows[i] /\ v[1] = p /\ v[2] = rows[p]
    BY DEF Rows
  <2>2. swaps = <<u, v>>
    BY <1>3
  <2> HIDE DEF E, u, v
  <2>3. swaps \in Seq(E) /\ DOMAIN swaps = 1 .. 2 /\ swaps[1] = u /\ swaps[2] = v
    <3>1. <<u, v>> \in Seq(E)
      BY <2>1
    <3>2. DOMAIN <<u, v>> = 1 .. 2 /\ <<u, v>>[1] = u /\ <<u, v>>[2] = v
      OBVIOUS
    <3> QED BY <2>2, <3>1, <3>2
  <2>4. ASSUME NEW r \in 1 .. k
        PROVE  \/ \E h \in DOMAIN swaps : /\ swaps[h][1] = r /\ swaps[h][2] = rows[r]
                                      /\ \A q \in DOMAIN swaps : q < h /\ swaps[q][1] = r => swaps[q][2] = rows[r]
               \/ swapped[r] = rows[r] /\ \A h \in DOMAIN swaps : swaps[h][1] # r
    <3>1. CASE r = i
      <4>1. 1 \in DOMAIN swaps /\ swaps[1][1] = r /\ swaps[1][2] = rows[r]
        BY <2>1, <2>3, <3>1
      <4>2. \A q \in DOMAIN swaps : ~(q < 1)
        BY <2>3
      <4> QED BY <4>1, <4>2
    <3>2. CASE r = p
      <4>1. 2 \in DOMAIN swaps /\ swaps[2][1] = r /\ swaps[2][2] = rows[r]
        BY <2>1, <2>3, <3>2
      <4>2. \A q \in DOMAIN swaps : q < 2 => swaps[q][1] # r
        BY <1>3, <2>1, <2>3, <3>2
      <4> QED BY <4>1, <4>2
    <3>3. CASE r # i /\ r # p
      <4>1. \A h \in DOMAIN swaps : h = 1 \/ h = 2
        BY <2>3
      <4>2. \A h \in DOMAIN swaps : swaps[h][1] # r
        BY <2>1, <2>3, <3>3, <4>1
      <4> QED BY <1>1, <3>3, <4>2
    <3> QED BY <3>1, <3>2, <3>3
  <2>5. Undoes(swaps, swapped, rows, k)
    BY <2>4 DEF Undoes
  <2> QED BY <1>1, <2>3, <2>5 DEF Losses, E
<1> QED BY <1>2, <1>3

(* An entry for every row that was added to undoes that.                     *)
LEMMA HitsUndone ==
  ASSUME NEW k \in Nat, NEW D, NEW rows \in Rows(D, k), NEW m \in Nat, NEW hit \in [1 .. m -> 1 .. k],
         NEW next, next \in Rows(D, k), \A r \in 1 .. k : r \notin ToSet(hit) => next[r] = rows[r]
  PROVE  /\ [i \in DOMAIN hit |-> <<hit[i], rows[hit[i]]>>] \in Losses(D, k)
         /\ Undoes([i \in DOMAIN hit |-> <<hit[i], rows[hit[i]]>>], next, rows, k)
<1> DEFINE log == [i \in DOMAIN hit |-> <<hit[i], rows[hit[i]]>>]
           E == (1 .. k) \X SUBSET D
<1>1. DOMAIN log = 1 .. m /\ \A i \in 1 .. m : log[i][1] = hit[i] /\ log[i][2] = rows[hit[i]]
  OBVIOUS
<1>2. log \in [1 .. m -> E]
  <2>1. \A i \in 1 .. m : <<hit[i], rows[hit[i]]>> \in E
    BY DEF Rows
  <2> QED BY <2>1
<1> HIDE DEF log, E
<1>3. log \in Seq(E)
  BY <1>2, ListIs
<1>4. ASSUME NEW r \in 1 .. k
      PROVE  \/ \E h \in DOMAIN log : /\ log[h][1] = r /\ log[h][2] = rows[r]
                                      /\ \A q \in DOMAIN log : q < h /\ log[q][1] = r => log[q][2] = rows[r]
             \/ next[r] = rows[r] /\ \A h \in DOMAIN log : log[h][1] # r
  <2>1. CASE \E h \in 1 .. m : hit[h] = r
    <3>1. PICK h \in 1 .. m : hit[h] = r
      BY <2>1
    <3>2. h \in DOMAIN log /\ log[h][1] = r /\ log[h][2] = rows[r]
      BY <1>1, <3>1
    <3>3. \A q \in DOMAIN log : log[q][1] = r => log[q][2] = rows[r]
      BY <1>1
    <3> QED BY <3>2, <3>3
  <2>2. CASE ~\E h \in 1 .. m : hit[h] = r
    <3>1. r \notin ToSet(hit)
      BY <2>2 DEF ToSet
    <3> QED BY <1>1, <2>2, <3>1
  <2> QED BY <2>1, <2>2
<1>5. Undoes(log, next, rows, k)
  BY <1>4 DEF Undoes
<1> QED BY <1>3, <1>5 DEF log, E, Losses

(* What absorbing a column logs takes it back.                               *)
LEMMA ReduceByIs ==
  ASSUME NEW j \in Nat, NEW D, NEW P \in PartsOf(D, j), NEW c \in D
  PROVE  ReduceBy(P, c) \in Absorbing(D, j) /\ GrownFrom(ReduceBy(P, c), P, j)
<1> DEFINE k == Len(P.work)
           e1 == P.depth
           at == {r \in e1 + 1 .. k : c \in P.work[r]}
           p == Min(at)
           swapped == [P.work EXCEPT ![e1 + 1] = P.work[p], ![p] = P.work[e1 + 1]]
           hit == InOrder({r \in 1 .. k : r # e1 + 1 /\ c \in swapped[r]})
           next == [r \in 1 .. k |-> IF r \in ToSet(hit) THEN Xor(swapped[r], swapped[e1 + 1])
                                     ELSE swapped[r]]
           work2 == IF at = {} THEN P.work ELSE next
           entry == SumSet({2^(k - r) : r \in {i \in 1 .. k : c \in work2[i]}})
           swaps == IF p = e1 + 1 THEN <<>>
                    ELSE <<<<e1 + 1, P.work[e1 + 1]>>, <<p, P.work[p]>>>>
           hits == [i \in DOMAIN hit |-> <<hit[i], swapped[hit[i]]>>]
           log2 == IF at = {} THEN <<>> ELSE swaps \o hits
           depth2 == IF at = {} THEN e1 ELSE e1 + 1
           part2 == [work |-> work2, depth |-> depth2,
                     key |-> Append(P.key, entry), absorbed |-> P.absorbed \cup {c}]
<1>1. ReduceBy(P, c) = [part |-> part2, log |-> log2]
  BY DEF ReduceBy
<1>2. P.work \in Rows(D, j) /\ e1 \in Nat /\ P.key \in Seq(Entries(j)) /\ P.absorbed \in SUBSET D
  BY DEF PartsOf
<1>3. k = j
  BY <1>2 DEF Rows
<1>4. entry \in Entries(j)
  <2>1. {i \in 1 .. k : c \in work2[i]} \in SUBSET (1 .. j)
    BY <1>3
  <2> HIDE DEF work2
  <2> QED BY <1>3, <2>1 DEF Entries
<1>5. work2 \in Rows(D, j) /\ log2 \in Losses(D, j) /\ Undoes(log2, work2, P.work, j)
  <2>1. CASE at = {}
    BY <1>2, <2>1, UndoesNothing
  <2>2. CASE at # {}
    <3>1. p \in at
      <4>1. at \subseteq Nat
        BY <1>2
      <4> HIDE DEF at
      <4> QED BY <2>2, <4>1, LeastOf
    <3>2. p \in 1 .. j /\ e1 + 1 \in 1 .. j
      <4>1. p \in e1 + 1 .. k
        BY <3>1
      <4> HIDE DEF p, k
      <4> QED BY <1>2, <1>3, <4>1
    <3> DEFINE i1 == e1 + 1
    <3>3. swapped = [P.work EXCEPT ![i1] = P.work[p], ![p] = P.work[i1]]
      OBVIOUS
    <3>4. swaps = IF p = i1 THEN <<>> ELSE <<<<i1, P.work[i1]>>, <<p, P.work[p]>>>>
      OBVIOUS
    <3>5. i1 \in 1 .. j
      BY <3>2
    <3> HIDE DEF p, at, swapped, swaps, i1
    <3>6. swapped \in Rows(D, j) /\ swaps \in Losses(D, j) /\ Undoes(swaps, swapped, P.work, j)
      BY <1>2, <3>2, <3>3, <3>4, <3>5, SwapUndone
    <3>7. PICK m \in Nat : hit \in [1 .. m -> 1 .. j]
      <4> DEFINE H == {r \in 1 .. k : r # e1 + 1 /\ c \in swapped[r]}
      <4>1. H \subseteq 1 .. j
        BY <1>3
      <4> HIDE DEF H
      <4>2. PICK m \in Nat : InOrder(H) \in [1 .. m -> H]
        BY <4>1, InOrderIs
      <4>3. InOrder(H) \in [1 .. m -> 1 .. j]
        BY <4>1, <4>2
      <4> QED BY <4>3 DEF H
    <3> HIDE DEF hit
    <3>8. next \in Rows(D, j)
      <4> SUFFICES ASSUME NEW r \in 1 .. j
                   PROVE  Xor(swapped[r], swapped[e1 + 1]) \in SUBSET D /\ swapped[r] \in SUBSET D
        BY <1>3 DEF Rows
      <4>1. swapped[r] \in SUBSET D /\ swapped[e1 + 1] \in SUBSET D
        BY <3>2, <3>6 DEF Rows
      <4> QED BY <4>1 DEF Xor, SymDiff
    <3>9. \A r \in 1 .. j : r \notin ToSet(hit) => next[r] = swapped[r]
      BY <1>3
    <3> HIDE DEF next
    <3>10. hits \in Losses(D, j) /\ Undoes(hits, next, swapped, j)
      BY <3>6, <3>7, <3>8, <3>9, HitsUndone
    <3> HIDE DEF hits
    <3>11. swaps \o hits \in Losses(D, j) /\ Undoes(swaps \o hits, next, P.work, j)
      BY <3>6, <3>10, UndoesBoth
    <3> QED BY <2>2, <3>8, <3>11
  <2> QED BY <2>1, <2>2
<1>6. depth2 \in Nat
  BY <1>2
<1> HIDE DEF work2, entry, log2, depth2
<1>7. /\ Append(P.key, entry) \in Seq(Entries(j)) /\ Len(P.key) <= Len(Append(P.key, entry))
      /\ \A i \in 1 .. Len(P.key) : Append(P.key, entry)[i] = P.key[i]
  <2> DEFINE N == Entries(j)
             a == P.key
  <2>1. a \in Seq(N) /\ entry \in N
    BY <1>2, <1>4
  <2> HIDE DEF N, a
  <2>2. Append(a, entry) \in Seq(N) /\ Len(Append(a, entry)) = Len(a) + 1 /\ Len(a) \in Nat
    BY <2>1
  <2>3. \A i \in 1 .. Len(a) : Append(a, entry)[i] = a[i]
    BY <2>1
  <2> QED BY <2>2, <2>3 DEF N, a
<1>8. part2 \in PartsOf(D, j)
  BY <1>2, <1>5, <1>6, <1>7 DEF PartsOf
<1>9. [part |-> part2, log |-> log2] \in Absorbing(D, j)
  <2> HIDE DEF part2
  <2> QED BY <1>5, <1>8 DEF Absorbing
<1>10. GrownFrom([part |-> part2, log |-> log2], P, j)
  BY <1>5, <1>7 DEF GrownFrom
<1> QED BY <1>1, <1>9, <1>10

(* `restore` gives the key back that the snapshot was taken of.              *)
LEMMA RestoreIs ==
  ASSUME NEW k \in Nat, NEW D, NEW P \in PartsOf(D, k), NEW y \in Absorbing(D, k), GrownFrom(y, P, k)
  PROVE  Restore(y.part, Snapshot(P), y.log) = P
<1> DEFINE K == Entries(k)
           a == P.key
           b == y.part.key
           undone == FoldRight(LAMBDA entry, rows : [rows EXCEPT ![entry[1]] = entry[2]], y.log, y.part.work)
<1>1. /\ P = [work |-> P.work, depth |-> P.depth, key |-> a, absorbed |-> P.absorbed]
      /\ P.work \in Rows(D, k) /\ a \in Seq(K)
  BY DEF PartsOf
<1>2. y.part.work \in Rows(D, k) /\ b \in Seq(K) /\ y.log \in Losses(D, k)
  BY DEF PartsOf, Absorbing
<1>3. undone = P.work
  BY <1>1, <1>2, UndoneIs DEF GrownFrom
<1>4. Len(a) <= Len(b) /\ \A i \in 1 .. Len(a) : b[i] = a[i]
  BY DEF GrownFrom
<1>5. SubSeq(b, 1, Len(a)) = a
  <2> HIDE DEF K, a, b
  <2> DEFINE l == Len(a)
  <2>1. l \in Nat /\ l <= Len(b) /\ Len(b) \in Nat
    BY <1>1, <1>2, <1>4
  <2> HIDE DEF l
  <2>2. SubSeq(b, 1, l) = [i \in 1 .. l |-> b[i]]
    BY <1>2, <2>1
  <2>3. \A i \in 1 .. l : b[i] = a[i]
    BY <1>4 DEF l
  <2>4. SubSeq(b, 1, l) = [i \in 1 .. l |-> a[i]]
    BY <2>2, <2>3
  <2>5. a = [i \in 1 .. l |-> a[i]]
    BY <1>1 DEF l
  <2> QED BY <2>4, <2>5 DEF l
<1>6. Restore(y.part, Snapshot(P), y.log)
      = [work |-> undone, depth |-> P.depth, absorbed |-> P.absorbed, key |-> SubSeq(b, 1, Len(a))]
  BY DEF Restore, Snapshot
<1> HIDE DEF undone
<1> QED BY <1>1, <1>3, <1>5, <1>6

-----------------------------------------------------------------------------
(* Absorbing the single columns of a partition.                              *)

NextAt(best, cell, y) ==
  IF Sooner(best, y.part.key) \/ Cardinality(cell) # 1 \/ cell \subseteq y.part.absorbed
  THEN y ELSE Absorb(y, CHOOSE c \in cell : TRUE)

Nexts(best, cells, V) == [a \in (1 .. Len(cells)) \X V |-> NextAt(best, cells[a[1]], a[2])]

IsSinglesLoop(g, best, b0, cells) ==
  g = [s \in SUBSET (DOMAIN cells) |-> IF s = {} THEN b0 ELSE NextAt(best, cells[Max(s)], g[s \ {Max(s)}])]

HasSinglesLoop(best, b0, cells) == \E g : IsSinglesLoop(g, best, b0, cells)

(* The loop over the cells, from one value to the next.                      *)
LEMMA SinglesFold ==
  ASSUME NEW best, NEW C, NEW V, NEW b0 \in V, NEW cells \in Seq(C),
         \A cell \in C, v \in V : NextAt(best, cell, v) \in V
  PROVE  EndsChain(AbsorbSingletons(best, b0, cells), b0, Nexts(best, cells, V), V, Len(cells))
<1> DEFINE L == Len(cells)
           S == 1 .. L
           op == Nexts(best, cells, V)
<1>1. L \in Nat /\ DOMAIN cells = S /\ \A i \in S : cells[i] \in C
  OBVIOUS
<1>2. op \in [S \X V -> V] /\ \A x \in S, v \in V : After(op, x, v) = NextAt(best, cells[x], v)
  BY <1>1 DEF After, Nexts
<1> HIDE DEF op, L
<1>3. PICK g : FoldsAs(g, b0, op, V, L)
  BY <1>1, <1>2, LeftFoldExists
<1>4. \A s \in SUBSET S : s # {} => Max(s) \in s
  BY <1>1, <1>2, LeftFoldExists
<1>5. HasSinglesLoop(best, b0, cells)
  <2>1. ASSUME NEW s \in SUBSET S
        PROVE  g[s] = IF s = {} THEN b0 ELSE NextAt(best, cells[Max(s)], g[s \ {Max(s)}])
    <3>1. CASE s = {}
      BY <1>3, <3>1 DEF FoldsAs
    <3>2. CASE s # {}
      <4>1. Max(s) \in S /\ g[s \ {Max(s)}] \in V
        BY <1>3, <1>4, <3>2 DEF FoldsAs
      <4>2. g[s] = After(op, Max(s), g[s \ {Max(s)}])
        BY <1>3, <3>2 DEF FoldsAs
      <4> QED BY <1>2, <3>2, <4>1, <4>2
    <3> QED BY <3>1, <3>2
  <2>2. g \in [SUBSET S -> V]
    BY <1>3 DEF FoldsAs
  <2>3. IsSinglesLoop(g, best, b0, cells)
    BY <1>1, <2>1, <2>2 DEF IsSinglesLoop
  <2> QED BY <2>3 DEF HasSinglesLoop
<1> DEFINE f == CHOOSE f : IsSinglesLoop(f, best, b0, cells)
<1>6. AbsorbSingletons(best, b0, cells) = f[DOMAIN cells]
  BY DEF AbsorbSingletons, FoldLeft, MapThenFoldSet, IsSinglesLoop, NextAt
<1>7. IsSinglesLoop(f, best, b0, cells)
  BY <1>5 DEF HasSinglesLoop
<1> HIDE DEF f
<1>8. f[{}] = b0
  BY <1>7 DEF IsSinglesLoop
<1>9. ASSUME NEW s \in SUBSET S PROVE FoldsOn(f, op, V, s)
  <2> SUFFICES ASSUME s # {}, f[s \ {Max(s)}] \in V PROVE f[s] = After(op, Max(s), f[s \ {Max(s)}])
    BY DEF FoldsOn
  <2>1. f[s] = NextAt(best, cells[Max(s)], f[s \ {Max(s)}])
    BY <1>1, <1>7 DEF IsSinglesLoop
  <2> QED BY <1>1, <1>2, <1>4, <2>1
<1>10. EndsChain(f[1 .. L], b0, op, V, L)
  BY <1>1, <1>2, <1>8, <1>9, LeftFold
<1> QED BY <1>1, <1>6, <1>10 DEF op, L

Nonempty(D) == (SUBSET D) \ {{}}

Grown(D, k, P) == {y \in Absorbing(D, k) : GrownFrom(y, P, k)}

(* Absorbing a column lets the log and the key grow.                         *)
LEMMA AbsorbIs ==
  ASSUME NEW k \in Nat, NEW D, NEW P \in PartsOf(D, k), NEW v \in Grown(D, k, P), NEW c \in D
  PROVE  Absorb(v, c) \in Grown(D, k, P) /\ Absorb(v, c).part = ReduceBy(v.part, c).part
<1> DEFINE z == ReduceBy(v.part, c)
           l == v.log \o z.log
           y == [z EXCEPT !.log = l]
<1>1. /\ v.part \in PartsOf(D, k) /\ v.log \in Losses(D, k) /\ Undoes(v.log, v.part.work, P.work, k)
      /\ Len(P.key) <= Len(v.part.key) /\ \A i \in 1 .. Len(P.key) : v.part.key[i] = P.key[i]
  BY DEF Grown, Absorbing, GrownFrom
<1>2. z \in Absorbing(D, k) /\ GrownFrom(z, v.part, k)
  BY <1>1, ReduceByIs
<1> HIDE DEF z
<1>3. /\ z.part \in PartsOf(D, k) /\ z.log \in Losses(D, k) /\ Undoes(z.log, z.part.work, v.part.work, k)
      /\ Len(v.part.key) <= Len(z.part.key) /\ \A i \in 1 .. Len(v.part.key) : z.part.key[i] = v.part.key[i]
  BY <1>2 DEF Absorbing, GrownFrom
<1>4. l \in Losses(D, k) /\ Undoes(l, z.part.work, P.work, k)
  BY <1>1, <1>3, UndoesBoth
<1>5. Len(P.key) <= Len(z.part.key) /\ \A i \in 1 .. Len(P.key) : z.part.key[i] = P.key[i]
  <2>1. Len(P.key) \in Nat /\ Len(v.part.key) \in Nat /\ Len(z.part.key) \in Nat
    <3>1. P.key \in Seq(Entries(k)) /\ v.part.key \in Seq(Entries(k)) /\ z.part.key \in Seq(Entries(k))
      BY <1>1, <1>3 DEF PartsOf
    <3> DEFINE K == Entries(k)
    <3> HIDE DEF K
    <3>2. \A s \in Seq(K) : Len(s) \in Nat
      OBVIOUS
    <3> QED BY <3>1, <3>2 DEF K
  <2>2. \A i \in 1 .. Len(P.key) : i \in 1 .. Len(v.part.key)
    BY <1>1, <2>1
  <2> QED BY <1>1, <1>3, <2>1, <2>2
<1>6. Absorb(v, c) = y
  BY DEF Absorb, z
<1> HIDE DEF l
<1>7. y \in Absorbing(D, k) /\ y.part = z.part /\ y.log = l
  BY <1>2, <1>4 DEF Absorbing
<1> HIDE DEF y
<1>8. GrownFrom(y, P, k)
  BY <1>4, <1>5, <1>7 DEF GrownFrom
<1> QED BY <1>6, <1>7, <1>8 DEF Grown, z

(* A key that is cut off stays; one that is not goes on as if uncut.         *)
LEMMA NextIs ==
  ASSUME NEW k \in Nat, NEW D, NEW P \in PartsOf(D, k), NEW cell \in Nonempty(D), NEW best
  PROVE  /\ \A v \in Grown(D, k, P) : NextAt(best, cell, v) \in Grown(D, k, P)
         /\ \A v : Sooner(best, v.part.key) => NextAt(best, cell, v) = v
         /\ \A v : ~Sooner(best, v.part.key) => NextAt(best, cell, v) = NextAt(<<>>, cell, v)
<1>1. (CHOOSE c \in cell : TRUE) \in D
  BY DEF Nonempty
<1>2. ASSUME NEW v \in Grown(D, k, P) PROVE NextAt(best, cell, v) \in Grown(D, k, P)
  BY <1>1, AbsorbIs DEF NextAt
<1>3. \A b : ~Sooner(<<>>, b)
  BY DEF Sooner
<1> QED BY <1>2, <1>3 DEF NextAt

(* What a column adds to the key does not depend on the log.                 *)
LEMMA NextSamePart ==
  ASSUME NEW k \in Nat, NEW D, NEW P \in PartsOf(D, k), NEW Q \in PartsOf(D, k), NEW cell \in Nonempty(D),
         NEW v \in Grown(D, k, P), NEW w \in Grown(D, k, Q), v.part = w.part
  PROVE  NextAt(<<>>, cell, v).part = NextAt(<<>>, cell, w).part
<1> DEFINE c == CHOOSE c \in cell : TRUE
<1>1. c \in D
  BY DEF Nonempty
<1> HIDE DEF c
<1>2. Absorb(v, c).part = ReduceBy(v.part, c).part /\ Absorb(w, c).part = ReduceBy(w.part, c).part
  BY <1>1, AbsorbIs
<1>3. Absorb(v, c).part = Absorb(w, c).part
  BY <1>2
<1> QED BY <1>3 DEF NextAt, c

Begun(P) == [part |-> P, log |-> <<>>]

(* The key after the single columns of the cells, when nothing cuts it off.  *)
Replay(P, cells) == AbsorbSingletons(<<>>, Begun(P), cells)

LEMMA BegunIs ==
  ASSUME NEW k \in Nat, NEW D, NEW P \in PartsOf(D, k)
  PROVE  Begun(P) \in Grown(D, k, P) /\ Begun(P).part = P
<1> DEFINE y == Begun(P)
<1>1. y = [part |-> P, log |-> <<>>]
  BY DEF Begun
<1>2. <<>> \in Losses(D, k) /\ Undoes(<<>>, P.work, P.work, k)
  BY UndoesNothing
<1>3. y \in Absorbing(D, k) /\ y.part = P /\ y.log = <<>>
  BY <1>1, <1>2 DEF Absorbing
<1>4. Len(P.key) <= Len(P.key)
  <2>1. P.key \in Seq(Entries(k))
    BY DEF PartsOf
  <2> DEFINE K == Entries(k)
  <2> HIDE DEF K
  <2>2. \A s \in Seq(K) : Len(s) <= Len(s)
    OBVIOUS
  <2> QED BY <2>1, <2>2 DEF K
<1> HIDE DEF y
<1>5. GrownFrom(y, P, k)
  BY <1>2, <1>3, <1>4 DEF GrownFrom
<1>6. y \in Grown(D, k, P)
  BY <1>3, <1>5 DEF Grown
<1> QED BY <1>3, <1>6 DEF y

(* The values after each cell.                                               *)
IsSingles(c, best, x, cells) ==
  c[0] = x /\ \A i \in 1 .. Len(cells) : c[i] = NextAt(best, cells[i], c[i - 1])

HasSingles(best, x, cells, V) ==
  \E c \in [0 .. Len(cells) -> V] :
    IsSingles(c, best, x, cells) /\ AbsorbSingletons(best, x, cells) = c[Len(cells)]

LEMMA SinglesHave ==
  ASSUME NEW k \in Nat, NEW D, NEW P \in PartsOf(D, k), NEW best, NEW x \in Grown(D, k, P),
         NEW cells \in Seq(Nonempty(D))
  PROVE  HasSingles(best, x, cells, Grown(D, k, P))
<1> DEFINE V == Grown(D, k, P)
           C == Nonempty(D)
           op == Nexts(best, cells, V)
           L == Len(cells)
<1>1. \A cell \in C, v \in V : NextAt(best, cell, v) \in V
  BY NextIs
<1>2. L \in Nat /\ \A i \in 1 .. L : cells[i] \in C
  <2> HIDE DEF C
  <2>1. \A s \in Seq(C) : Len(s) \in Nat /\ \A i \in 1 .. Len(s) : s[i] \in C
    OBVIOUS
  <2> QED BY <2>1 DEF C
<1> HIDE DEF V, C
<1>3. EndsChain(AbsorbSingletons(best, x, cells), x, op, V, L)
  BY <1>1, SinglesFold DEF V, C
<1>4. \A i \in 1 .. L, v \in V : After(op, i, v) = NextAt(best, cells[i], v)
  BY DEF After, Nexts
<1> HIDE DEF op, L
<1>5. PICK c \in [0 .. L -> V] : IsChain(c, x, op, L) /\ AbsorbSingletons(best, x, cells) = c[L]
  BY <1>3 DEF EndsChain
<1>6. c[0] = x /\ \A i \in 1 .. L : c[i] = After(op, i, c[i - 1])
  BY <1>5 DEF IsChain
<1>7. \A i \in 1 .. L : i - 1 \in 0 .. L
  BY <1>2
<1>8. \A i \in 1 .. L : c[i] = NextAt(best, cells[i], c[i - 1])
  BY <1>4, <1>5, <1>6, <1>7
<1>9. IsSingles(c, best, x, cells)
  BY <1>6, <1>8 DEF IsSingles, L
<1> QED BY <1>5, <1>9 DEF HasSingles, L, V

(* All that a node absorbs can be taken back.                                *)
LEMMA SinglesStay ==
  ASSUME NEW k \in Nat, NEW D, NEW P \in PartsOf(D, k), NEW best, NEW x \in Grown(D, k, P),
         NEW cells \in Seq(Nonempty(D))
  PROVE  AbsorbSingletons(best, x, cells) \in Grown(D, k, P)
<1> DEFINE V == Grown(D, k, P)
           L == Len(cells)
<1>1. L \in Nat
  <2> DEFINE C == Nonempty(D)
  <2> HIDE DEF C
  <2>1. \A s \in Seq(C) : Len(s) \in Nat
    OBVIOUS
  <2> QED BY <2>1 DEF C
<1>2. HasSingles(best, x, cells, V)
  BY SinglesHave
<1> HIDE DEF V
<1>3. PICK c \in [0 .. L -> V] : AbsorbSingletons(best, x, cells) = c[L]
  BY <1>2 DEF HasSingles
<1> HIDE DEF L
<1>4. L \in 0 .. L
  BY <1>1
<1> QED BY <1>3, <1>4 DEF V

(* A key that the best one did not cut off has been absorbed to the end.     *)
LEMMA UncutIsReplay ==
  ASSUME NEW k \in Nat, NEW D, NEW P \in PartsOf(D, k), NEW best,
         NEW cells \in Seq(Nonempty(D)),
         ~Sooner(best, AbsorbSingletons(best, Begun(P), cells).part.key)
  PROVE  AbsorbSingletons(best, Begun(P), cells) = Replay(P, cells)
<1> DEFINE V == Grown(D, k, P)
           L == Len(cells)
           x == Begun(P)
<1>1. L \in Nat /\ \A i \in 1 .. L : cells[i] \in Nonempty(D)
  <2> DEFINE C == Nonempty(D)
  <2> HIDE DEF C
  <2>1. \A s \in Seq(C) : Len(s) \in Nat /\ \A i \in 1 .. Len(s) : s[i] \in C
    OBVIOUS
  <2> QED BY <2>1 DEF C
<1>2. x \in V
  BY BegunIs
<1>3. HasSingles(best, x, cells, V) /\ HasSingles(<<>>, x, cells, V)
  BY <1>2, SinglesHave
<1> HIDE DEF V, x
<1>4. PICK c \in [0 .. L -> V] : IsSingles(c, best, x, cells) /\ AbsorbSingletons(best, x, cells) = c[L]
  BY <1>3 DEF HasSingles
<1>5. PICK e \in [0 .. L -> V] : IsSingles(e, <<>>, x, cells) /\ AbsorbSingletons(<<>>, x, cells) = e[L]
  BY <1>3 DEF HasSingles
<1>6. c[0] = x /\ e[0] = x
  BY <1>4, <1>5 DEF IsSingles
<1>7. \A i \in 1 .. L : c[i] = NextAt(best, cells[i], c[i - 1]) /\ e[i] = NextAt(<<>>, cells[i], e[i - 1])
  BY <1>4, <1>5 DEF IsSingles
<1> DEFINE Stopped(i) == Sooner(best, c[i].part.key)
           Late == {h \in 0 .. L : ~Stopped(L - h)}
           Same == {i \in 0 .. L : c[i] = e[i]}
<1> HIDE DEF L
<1>8. \A i \in 1 .. L : /\ Stopped(i - 1) => c[i] = c[i - 1]
                        /\ ~Stopped(i - 1) => c[i] = NextAt(<<>>, cells[i], c[i - 1])
  <2>1. ASSUME NEW i \in 1 .. L
        PROVE  /\ \A v : Sooner(best, v.part.key) => NextAt(best, cells[i], v) = v
               /\ \A v : ~Sooner(best, v.part.key) => NextAt(best, cells[i], v) = NextAt(<<>>, cells[i], v)
    BY <1>1, NextIs
  <2> QED BY <1>7, <2>1
<1>9. ~Stopped(L)
  BY <1>4 DEF x
<1> HIDE DEF Stopped
<1>10. \A i \in 1 .. L : Stopped(i - 1) => Stopped(i)
  BY <1>8 DEF Stopped
<1>11. 0 .. L \subseteq Late
  <2>1. 0 \in Late
    BY <1>1, <1>9
  <2>2. ASSUME NEW h \in 0 .. L, h > 0, h - 1 \in Late PROVE h \in Late
    <3> DEFINE i == L - (h - 1)
    <3>1. i \in 1 .. L /\ i - 1 = L - h /\ ~Stopped(i)
      BY <1>1, <2>2
    <3> HIDE DEF i
    <3>2. ~Stopped(i - 1)
      BY <1>10, <3>1
    <3> QED BY <3>1, <3>2
  <2>3. Late \subseteq 0 .. L
    OBVIOUS
  <2> HIDE DEF Late
  <2>4. \A h \in 0 .. L : h > 0 /\ h - 1 \in Late => h \in Late
    BY <2>2
  <2>5. 0 \in Nat /\ 0 <= L
    BY <1>1
  <2> QED BY <1>1, <2>1, <2>3, <2>4, <2>5, RangeInduction
<1>12. \A i \in 0 .. L : ~Stopped(i)
  <2> SUFFICES ASSUME NEW i \in 0 .. L PROVE ~Stopped(i)
    OBVIOUS
  <2>1. L - i \in 0 .. L /\ L - (L - i) = i
    BY <1>1
  <2>2. L - i \in Late
    BY <1>11, <2>1
  <2> QED BY <2>1, <2>2
<1>13. 0 .. L \subseteq Same
  <2>1. 0 \in Same
    BY <1>1, <1>6
  <2>2. ASSUME NEW i \in 0 .. L, i > 0, i - 1 \in Same PROVE i \in Same
    <3>1. i \in 1 .. L /\ i - 1 \in 0 .. L /\ c[i - 1] = e[i - 1]
      BY <1>1, <2>2
    <3>2. ~Stopped(i - 1)
      BY <1>12, <3>1
    <3> QED BY <1>7, <1>8, <3>1, <3>2
  <2>3. Same \subseteq 0 .. L
    OBVIOUS
  <2> HIDE DEF Same
  <2>4. \A i \in 0 .. L : i > 0 /\ i - 1 \in Same => i \in Same
    BY <2>2
  <2>5. 0 \in Nat /\ 0 <= L
    BY <1>1
  <2> QED BY <1>1, <2>1, <2>3, <2>4, <2>5, RangeInduction
<1>14. L \in 0 .. L
  BY <1>1
<1>15. c[L] = e[L]
  BY <1>13, <1>14
<1> QED BY <1>4, <1>5, <1>15 DEF Replay, x

(* What has been logged before does not matter.                              *)
LEMMA ReplaySame ==
  ASSUME NEW k \in Nat, NEW D, NEW P \in PartsOf(D, k), NEW Q \in PartsOf(D, k),
         NEW v \in Grown(D, k, P), v.part = Q, NEW cells \in Seq(Nonempty(D))
  PROVE  /\ AbsorbSingletons(<<>>, v, cells) \in Grown(D, k, P)
         /\ AbsorbSingletons(<<>>, v, cells).part = Replay(Q, cells).part
<1> DEFINE V == Grown(D, k, P)
           W == Grown(D, k, Q)
           L == Len(cells)
           w == Begun(Q)
<1>1. L \in Nat /\ \A i \in 1 .. L : cells[i] \in Nonempty(D)
  <2> DEFINE C == Nonempty(D)
  <2> HIDE DEF C
  <2>1. \A s \in Seq(C) : Len(s) \in Nat /\ \A i \in 1 .. Len(s) : s[i] \in C
    OBVIOUS
  <2> QED BY <2>1 DEF C
<1>2. w \in W /\ w.part = Q
  BY BegunIs
<1>3. HasSingles(<<>>, v, cells, V) /\ HasSingles(<<>>, w, cells, W)
  BY <1>2, SinglesHave
<1>4. \A cell \in Nonempty(D), a \in V, b \in W : a.part = b.part => NextAt(<<>>, cell, a).part = NextAt(<<>>, cell, b).part
  BY NextSamePart
<1> HIDE DEF V, W, w
<1>5. PICK c \in [0 .. L -> V] : IsSingles(c, <<>>, v, cells) /\ AbsorbSingletons(<<>>, v, cells) = c[L]
  BY <1>3 DEF HasSingles
<1>6. PICK e \in [0 .. L -> W] : IsSingles(e, <<>>, w, cells) /\ AbsorbSingletons(<<>>, w, cells) = e[L]
  BY <1>3 DEF HasSingles
<1>7. c[0] = v /\ e[0] = w
  BY <1>5, <1>6 DEF IsSingles
<1>8. \A i \in 1 .. L : c[i] = NextAt(<<>>, cells[i], c[i - 1]) /\ e[i] = NextAt(<<>>, cells[i], e[i - 1])
  BY <1>5, <1>6 DEF IsSingles
<1> DEFINE Same == {i \in 0 .. L : c[i].part = e[i].part}
<1> HIDE DEF L
<1>9. 0 .. L \subseteq Same
  <2>1. 0 \in Same
    BY <1>1, <1>2, <1>7
  <2>2. ASSUME NEW i \in 0 .. L, i > 0, i - 1 \in Same PROVE i \in Same
    <3>1. i \in 1 .. L /\ i - 1 \in 0 .. L /\ c[i - 1].part = e[i - 1].part
      BY <1>1, <2>2
    <3>2. c[i - 1] \in V /\ e[i - 1] \in W /\ cells[i] \in Nonempty(D)
      BY <1>1, <1>5, <1>6, <3>1
    <3>3. NextAt(<<>>, cells[i], c[i - 1]).part = NextAt(<<>>, cells[i], e[i - 1]).part
      BY <1>4, <3>1, <3>2
    <3> QED BY <1>8, <3>1, <3>3
  <2>3. Same \subseteq 0 .. L
    OBVIOUS
  <2> HIDE DEF Same
  <2>4. \A i \in 0 .. L : i > 0 /\ i - 1 \in Same => i \in Same
    BY <2>2
  <2>5. 0 \in Nat /\ 0 <= L
    BY <1>1
  <2> QED BY <1>1, <2>1, <2>3, <2>4, <2>5, RangeInduction
<1>10. L \in 0 .. L
  BY <1>1
<1>11. c[L].part = e[L].part /\ c[L] \in V
  BY <1>5, <1>9, <1>10
<1> QED BY <1>5, <1>6, <1>11 DEF Replay, w, V

-----------------------------------------------------------------------------
(* The stack of a backtrack.                                                 *)

Snaps(D) == [depth : Nat, absorbed : SUBSET D, len : Nat]

Frames(D, k, Q) ==
  [cells : Seq(Nonempty(D)), cell : Nat, rest : SUBSET D, seen : SUBSET Q, col : Nat,
   snap : Snaps(D), log : Losses(D, k)]

HasRest(f) == f.cell \in 1 .. Len(f.cells) /\ f.rest \subseteq f.cells[f.cell]

(* The key grows from P to R by the cells of the frame, which takes it back. *)
Follows(P, f, R) == R = Replay(P, f.cells).part /\ Restore(R, f.snap, f.log) = P

(* The keys below each frame.                                                *)
Replays(F, st, P, rows) ==
  /\ F[0] = NewPartialKey(rows) /\ F[Len(st)] = P
  /\ \A i \in 1 .. Len(st) : Follows(F[i - 1], st[i], F[i])

FramesOf(st, D, k) == \E Q : st \in Seq(Frames(D, k, Q))

IsBacktrack(st, P, D, k, rows) ==
  /\ FramesOf(st, D, k)
  /\ \A i \in 1 .. Len(st) : HasRest(st[i])
  /\ \E F \in [0 .. Len(st) -> PartsOf(D, k)] : Replays(F, st, P, rows)

LEMMA FramesAre ==
  ASSUME NEW k \in Nat, NEW D, NEW st, FramesOf(st, D, k)
  PROVE  /\ Len(st) \in Nat /\ DOMAIN st = 1 .. Len(st)
         /\ \A i \in 1 .. Len(st) : \E Q : st[i] \in Frames(D, k, Q)
<1>1. PICK Q : st \in Seq(Frames(D, k, Q))
  BY DEF FramesOf
<1> DEFINE T == Frames(D, k, Q)
<1>2. st \in Seq(T)
  BY <1>1
<1> HIDE DEF T
<1>3. Len(st) \in Nat /\ DOMAIN st = 1 .. Len(st) /\ \A i \in 1 .. Len(st) : st[i] \in T
  BY <1>2
<1>4. \A i \in 1 .. Len(st) : st[i] \in Frames(D, k, Q)
  BY <1>3 DEF T
<1> QED BY <1>3, <1>4

LEMMA WiderFrames ==
  ASSUME NEW k \in Nat, NEW D, NEW Q, NEW R, Q \subseteq R
  PROVE  Frames(D, k, Q) \subseteq Frames(D, k, R)
<1>1. SUBSET Q \subseteq SUBSET R
  OBVIOUS
<1> QED BY <1>1 DEF Frames

(* At the root there is nothing to take back.                                *)
LEMMA NoFrames ==
  ASSUME NEW k \in Nat, NEW D, NEW rows, NewPartialKey(rows) \in PartsOf(D, k)
  PROVE  IsBacktrack(<<>>, NewPartialKey(rows), D, k, rows)
<1> DEFINE P == NewPartialKey(rows)
           F == [i \in 0 .. 0 |-> P]
           st == <<>>
           T == Frames(D, k, {})
<1>1. Len(st) = 0
  OBVIOUS
<1>2. FramesOf(st, D, k)
  <2> HIDE DEF T
  <2>1. st \in Seq(T)
    OBVIOUS
  <2> QED BY <2>1 DEF FramesOf, T
<1> HIDE DEF P, st
<1>3. F \in [0 .. Len(st) -> PartsOf(D, k)] /\ F[0] = P
  BY <1>1 DEF P
<1> HIDE DEF F
<1>4. \A i \in 1 .. Len(st) : FALSE
  BY <1>1
<1>5. Replays(F, st, P, rows)
  BY <1>1, <1>3, <1>4 DEF Replays, P
<1> QED BY <1>2, <1>3, <1>4, <1>5 DEF IsBacktrack, P, st

(* A node that is branched on adds a frame.                                  *)
LEMMA PushFrame ==
  ASSUME NEW k \in Nat, NEW D, NEW rows, NEW P, NEW st, IsBacktrack(st, P, D, k, rows),
         NEW R \in PartsOf(D, k), NEW f \in Frames(D, k, {}), HasRest(f), Follows(P, f, R)
  PROVE  IsBacktrack(Append(st, f), R, D, k, rows)
<1> DEFINE L == Len(st)
           z == Append(st, f)
<1>1. FramesOf(st, D, k) /\ \A i \in 1 .. L : HasRest(st[i])
  BY DEF IsBacktrack
<1>2. PICK F \in [0 .. L -> PartsOf(D, k)] : Replays(F, st, P, rows)
  BY DEF IsBacktrack
<1>3. PICK Q : st \in Seq(Frames(D, k, Q))
  BY <1>1 DEF FramesOf
<1>4. f \in Frames(D, k, Q)
  BY WiderFrames
<1> DEFINE T == Frames(D, k, Q)
<1>5. st \in Seq(T) /\ f \in T
  BY <1>3, <1>4
<1> HIDE DEF T
<1>6. L \in Nat /\ z \in Seq(T) /\ Len(z) = L + 1 /\ z[L + 1] = f /\ \A i \in 1 .. L : z[i] = st[i]
  BY <1>5
<1> HIDE DEF z, L
<1>7. FramesOf(z, D, k)
  BY <1>6 DEF FramesOf, T
<1>8. \A i \in 1 .. Len(z) : i \in 1 .. L \/ i = L + 1
  BY <1>6
<1>9. \A i \in 1 .. Len(z) : HasRest(z[i])
  BY <1>1, <1>6, <1>8
<1> DEFINE G == [i \in 0 .. L + 1 |-> IF i = L + 1 THEN R ELSE F[i]]
<1>10. /\ G \in [0 .. Len(z) -> PartsOf(D, k)] /\ G[L + 1] = R /\ G[0] = F[0]
       /\ \A i \in 0 .. L : G[i] = F[i]
  <2>1. \A i \in 0 .. L + 1 : i # L + 1 => i \in 0 .. L
    BY <1>6
  <2>2. \A i \in 0 .. L + 1 : (IF i = L + 1 THEN R ELSE F[i]) \in PartsOf(D, k)
    BY <1>2, <2>1
  <2>3. L + 1 \in 0 .. L + 1 /\ 0 \in 0 .. L /\ \A i \in 0 .. L : i \in 0 .. L + 1 /\ i # L + 1
    BY <1>6
  <2> QED BY <1>6, <2>2, <2>3
<1> HIDE DEF G
<1>11. \A i \in 1 .. Len(z) : Follows(G[i - 1], z[i], G[i])
  <2> SUFFICES ASSUME NEW i \in 1 .. Len(z) PROVE Follows(G[i - 1], z[i], G[i])
    OBVIOUS
  <2>1. CASE i \in 1 .. L
    <3>1. i \in 0 .. L /\ i - 1 \in 0 .. L
      BY <1>6, <2>1
    <3>2. Follows(F[i - 1], st[i], F[i])
      BY <1>2, <2>1 DEF Replays, L
    <3> QED BY <1>6, <1>10, <2>1, <3>1, <3>2
  <2>2. CASE i = L + 1
    <3>1. i - 1 = L /\ L \in 0 .. L
      BY <1>6, <2>2
    <3>2. F[L] = P
      BY <1>2 DEF Replays, L
    <3>3. G[i - 1] = P /\ z[i] = f /\ G[i] = R
      BY <1>6, <1>10, <2>2, <3>1, <3>2
    <3> QED BY <3>3
  <2> QED BY <1>8, <2>1, <2>2
<1>12. Replays(G, z, R, rows)
  <2>1. F[0] = NewPartialKey(rows)
    BY <1>2 DEF Replays
  <2> QED BY <1>6, <1>10, <1>11, <2>1 DEF Replays
<1> QED BY <1>7, <1>9, <1>10, <1>12 DEF IsBacktrack, z

(* A frame that is done takes the key back to that of its node.              *)
LEMMA PopFrame ==
  ASSUME NEW k \in Nat, NEW D, NEW rows, NEW P, NEW st, IsBacktrack(st, P, D, k, rows), st # <<>>
  PROVE  /\ IsBacktrack(Front(st), Restore(P, Last(st).snap, Last(st).log), D, k, rows)
         /\ Restore(P, Last(st).snap, Last(st).log) \in PartsOf(D, k)
<1> DEFINE L == Len(st)
           z == Front(st)
           f == Last(st)
<1>1. FramesOf(st, D, k) /\ \A i \in 1 .. L : HasRest(st[i])
  BY DEF IsBacktrack
<1>2. PICK F \in [0 .. L -> PartsOf(D, k)] : Replays(F, st, P, rows)
  BY DEF IsBacktrack
<1>3. PICK Q : st \in Seq(Frames(D, k, Q))
  BY <1>1 DEF FramesOf
<1> DEFINE T == Frames(D, k, Q)
<1>4. st \in Seq(T)
  BY <1>3
<1> HIDE DEF T
<1>5. /\ L \in Nat \ {0} /\ z \in Seq(T) /\ Len(z) = L - 1 /\ f = st[L]
      /\ \A i \in 1 .. L - 1 : z[i] = st[i]
  <2>1. L \in Nat \ {0} /\ f = st[L]
    BY <1>4 DEF Last
  <2> HIDE DEF f
  <2>2. z \in Seq(T) /\ Len(z) = L - 1 /\ \A i \in 1 .. L - 1 : z[i] = st[i]
    BY <1>4, <2>1, FrontIs DEF L
  <2> QED BY <2>1, <2>2
<1> HIDE DEF z, f, L
<1>6. L - 1 \in 0 .. L /\ L \in 1 .. L /\ \A i \in 0 .. L - 1 : i \in 0 .. L
  BY <1>5
<1>7. F[L] = P /\ F[0] = NewPartialKey(rows) /\ \A i \in 1 .. L : Follows(F[i - 1], st[i], F[i])
  BY <1>2 DEF Replays, L
<1>8. Restore(P, f.snap, f.log) = F[L - 1]
  BY <1>5, <1>6, <1>7 DEF Follows
<1>9. F[L - 1] \in PartsOf(D, k)
  BY <1>2, <1>6
<1> DEFINE G == [i \in 0 .. L - 1 |-> F[i]]
<1>10. /\ G \in [0 .. Len(z) -> PartsOf(D, k)] /\ G[0] = F[0] /\ G[Len(z)] = F[L - 1]
       /\ \A i \in 1 .. Len(z) : G[i - 1] = F[i - 1] /\ G[i] = F[i] /\ i \in 1 .. L
  <2>1. L - 1 \in 0 .. L - 1 /\ 0 \in 0 .. L - 1 /\ \A i \in 1 .. L - 1 : i - 1 \in 0 .. L - 1 /\ i \in 0 .. L - 1 /\ i \in 1 .. L
    BY <1>5
  <2>2. \A i \in 0 .. L - 1 : F[i] \in PartsOf(D, k)
    BY <1>2, <1>6
  <2> QED BY <1>5, <2>1, <2>2
<1> HIDE DEF G
<1>11. \A i \in 1 .. Len(z) : z[i] = st[i]
  BY <1>5
<1>12. Replays(G, z, F[L - 1], rows)
  BY <1>7, <1>10, <1>11 DEF Replays
<1>13. FramesOf(z, D, k)
  BY <1>5 DEF FramesOf, T
<1>14. \A i \in 1 .. Len(z) : HasRest(z[i])
  BY <1>1, <1>10, <1>11 DEF L
<1>15. IsBacktrack(z, F[L - 1], D, k, rows)
  BY <1>10, <1>12, <1>13, <1>14 DEF IsBacktrack
<1> QED BY <1>8, <1>9, <1>15 DEF z, f

(* The next column of a frame leaves the keys as they are.                   *)
LEMMA TurnFrame ==
  ASSUME NEW k \in Nat, NEW D, NEW rows, NEW P, NEW st, IsBacktrack(st, P, D, k, rows), st # <<>>,
         NEW Q, NEW f \in Frames(D, k, Q), HasRest(f),
         f.cells = Last(st).cells, f.snap = Last(st).snap, f.log = Last(st).log
  PROVE  IsBacktrack([st EXCEPT ![Len(st)] = f], P, D, k, rows)
<1> DEFINE L == Len(st)
           z == [st EXCEPT ![Len(st)] = f]
<1>1. FramesOf(st, D, k) /\ \A i \in 1 .. L : HasRest(st[i])
  BY DEF IsBacktrack
<1>2. PICK F \in [0 .. L -> PartsOf(D, k)] : Replays(F, st, P, rows)
  BY DEF IsBacktrack
<1>3. PICK R : st \in Seq(Frames(D, k, R))
  BY <1>1 DEF FramesOf
<1> DEFINE T == Frames(D, k, R \cup Q)
<1>4. st \in Seq(T) /\ f \in T
  <2>1. Frames(D, k, R) \subseteq T /\ Frames(D, k, Q) \subseteq T
    BY WiderFrames
  <2> HIDE DEF T
  <2> QED BY <1>3, <2>1, WiderList
<1> HIDE DEF T
<1>5. /\ L \in Nat \ {0} /\ z \in Seq(T) /\ Len(z) = L /\ z[L] = f /\ Last(st) = st[L]
      /\ \A i \in 1 .. L : i # L => z[i] = st[i]
  BY <1>4 DEF Last
<1> HIDE DEF z, L
<1>6. FramesOf(z, D, k)
  BY <1>5 DEF FramesOf, T
<1>7. \A i \in 1 .. L : HasRest(z[i])
  BY <1>1, <1>5
<1>8. \A i \in 1 .. L : Follows(F[i - 1], z[i], F[i])
  <2> SUFFICES ASSUME NEW i \in 1 .. L PROVE Follows(F[i - 1], z[i], F[i])
    OBVIOUS
  <2>1. Follows(F[i - 1], st[i], F[i])
    BY <1>2 DEF Replays, L
  <2>2. z[i].cells = st[i].cells /\ z[i].snap = st[i].snap /\ z[i].log = st[i].log
    <3>1. CASE i = L
      BY <1>5, <3>1
    <3>2. CASE i # L
      BY <1>5, <3>2
    <3> QED BY <3>1, <3>2
  <2> QED BY <2>1, <2>2 DEF Follows
<1>9. Replays(F, z, P, rows)
  BY <1>2, <1>5, <1>8 DEF Replays, L
<1> QED BY <1>2, <1>5, <1>6, <1>7, <1>9 DEF IsBacktrack, z, L

IsStackLoop(g, b0, st) ==
  g = [s \in SUBSET (DOMAIN st) |-> IF s = {} THEN b0 ELSE AbsorbSingletons(<<>>, g[s \ {Max(s)}], st[Max(s)].cells)]

HasStackLoop(b0, st) == \E g : IsStackLoop(g, b0, st)

(* The search that goes straight to the node at hand.                        *)
LEMMA StackReplayed ==
  ASSUME NEW k \in Nat, NEW D, NEW rows, NEW P, NEW st, IsBacktrack(st, P, D, k, rows),
         NewPartialKey(rows) \in PartsOf(D, k)
  PROVE  FoldLeft(LAMBDA x, f : AbsorbSingletons(<<>>, x, f.cells),
                  [part |-> NewPartialKey(rows), log |-> <<>>], st).part = P
<1> DEFINE L == Len(st)
           S == 1 .. L
           P0 == NewPartialKey(rows)
           b0 == [part |-> P0, log |-> <<>>]
           V == Grown(D, k, P0)
           op == [a \in S \X V |-> AbsorbSingletons(<<>>, a[2], st[a[1]].cells)]
<1>1. L \in Nat /\ DOMAIN st = S /\ \A i \in S : st[i].cells \in Seq(Nonempty(D))
  <2>1. L \in Nat /\ DOMAIN st = S /\ \A i \in S : \E Q : st[i] \in Frames(D, k, Q)
    BY FramesAre DEF IsBacktrack
  <2> QED BY <2>1 DEF Frames
<1>2. b0 \in V /\ b0.part = P0
  BY BegunIs DEF Begun
<1>3. \A i \in S, v \in V : AbsorbSingletons(<<>>, v, st[i].cells) \in V
  BY <1>1, SinglesStay
<1>4. \A i \in S, v \in V, Q \in PartsOf(D, k) :
        v.part = Q => AbsorbSingletons(<<>>, v, st[i].cells).part = Replay(Q, st[i].cells).part
  BY <1>1, ReplaySame
<1>5. PICK F \in [0 .. L -> PartsOf(D, k)] : Replays(F, st, P, rows)
  BY DEF IsBacktrack
<1>6. F[0] = P0 /\ F[L] = P /\ \A i \in S : F[i] = Replay(F[i - 1], st[i].cells).part
  BY <1>5 DEF Replays, Follows
<1> HIDE DEF V, L, b0, P0
<1>7. op \in [S \X V -> V] /\ \A x \in S, v \in V : After(op, x, v) = AbsorbSingletons(<<>>, v, st[x].cells)
  BY <1>3 DEF After
<1> HIDE DEF op
<1>8. PICK g : FoldsAs(g, b0, op, V, L)
  BY <1>1, <1>2, <1>7, LeftFoldExists
<1>9. \A s \in SUBSET S : s # {} => Max(s) \in s
  BY <1>1, <1>2, <1>7, LeftFoldExists
<1>10. HasStackLoop(b0, st)
  <2>1. ASSUME NEW s \in SUBSET S
        PROVE  g[s] = IF s = {} THEN b0 ELSE AbsorbSingletons(<<>>, g[s \ {Max(s)}], st[Max(s)].cells)
    <3>1. CASE s = {}
      BY <1>8, <3>1 DEF FoldsAs
    <3>2. CASE s # {}
      <4>1. Max(s) \in S /\ g[s \ {Max(s)}] \in V
        BY <1>8, <1>9, <3>2 DEF FoldsAs
      <4>2. g[s] = After(op, Max(s), g[s \ {Max(s)}])
        BY <1>8, <3>2 DEF FoldsAs
      <4> QED BY <1>7, <3>2, <4>1, <4>2
    <3> QED BY <3>1, <3>2
  <2>2. g \in [SUBSET S -> V]
    BY <1>8 DEF FoldsAs
  <2>3. IsStackLoop(g, b0, st)
    BY <1>1, <2>1, <2>2 DEF IsStackLoop
  <2> QED BY <2>3 DEF HasStackLoop
<1> DEFINE f == CHOOSE f : IsStackLoop(f, b0, st)
<1>11. FoldLeft(LAMBDA x, y : AbsorbSingletons(<<>>, x, y.cells), b0, st) = f[DOMAIN st]
  BY DEF FoldLeft, MapThenFoldSet, IsStackLoop
<1>12. IsStackLoop(f, b0, st)
  BY <1>10 DEF HasStackLoop
<1> HIDE DEF f
<1>13. f[{}] = b0
  BY <1>12 DEF IsStackLoop
<1>14. ASSUME NEW s \in SUBSET S PROVE FoldsOn(f, op, V, s)
  <2> SUFFICES ASSUME s # {}, f[s \ {Max(s)}] \in V PROVE f[s] = After(op, Max(s), f[s \ {Max(s)}])
    BY DEF FoldsOn
  <2>1. f[s] = AbsorbSingletons(<<>>, f[s \ {Max(s)}], st[Max(s)].cells)
    BY <1>1, <1>12 DEF IsStackLoop
  <2> QED BY <1>1, <1>7, <1>9, <2>1
<1>15. EndsChain(f[1 .. L], b0, op, V, L)
  BY <1>1, <1>2, <1>7, <1>13, <1>14, LeftFold
<1>16. PICK c \in [0 .. L -> V] : IsChain(c, b0, op, L) /\ f[1 .. L] = c[L]
  BY <1>15 DEF EndsChain
<1>17. c[0] = b0 /\ \A i \in S : c[i] = After(op, i, c[i - 1])
  BY <1>16 DEF IsChain
<1> DEFINE Same == {i \in 0 .. L : c[i].part = F[i]}
<1>18. 0 .. L \subseteq Same
  <2>1. 0 \in Same
    BY <1>1, <1>2, <1>6, <1>17
  <2>2. ASSUME NEW i \in 0 .. L, i > 0, i - 1 \in Same PROVE i \in Same
    <3>1. i \in S /\ i - 1 \in 0 .. L /\ c[i - 1].part = F[i - 1]
      BY <1>1, <2>2
    <3>2. c[i - 1] \in V /\ F[i - 1] \in PartsOf(D, k)
      BY <1>5, <1>16, <3>1
    <3>3. c[i] = AbsorbSingletons(<<>>, c[i - 1], st[i].cells)
      BY <1>7, <1>17, <3>1, <3>2
    <3>4. c[i].part = Replay(F[i - 1], st[i].cells).part
      BY <1>4, <3>1, <3>2, <3>3
    <3> QED BY <1>6, <3>1, <3>4
  <2>3. Same \subseteq 0 .. L
    OBVIOUS
  <2>4. \A i \in 0 .. L : i > 0 /\ i - 1 \in Same => i \in Same
    BY <2>2
  <2>5. 0 \in Nat /\ 0 <= L
    BY <1>1
  <2> HIDE DEF Same
  <2> QED BY <1>1, <2>1, <2>3, <2>4, <2>5, RangeInduction
<1>19. L \in 0 .. L
  BY <1>1
<1>20. f[DOMAIN st].part = P
  BY <1>1, <1>6, <1>16, <1>18, <1>19
<1> QED BY <1>11, <1>20 DEF b0, P0

-----------------------------------------------------------------------------
(* The backtrack.                                                            *)

(* The partition at hand is one of the columns, and the key has come from    *)
(* that of the root by the cells of the frames, each of which takes it back. *)
FeulnerState ==
  /\ n \in Nat \ {0} /\ code \in Seq(SUBSET Columns)
  /\ refiners \subseteq SUBSET Columns
  /\ part \in PartsOf(Columns, Len(code))
  /\ IsBacktrack(stack, part, Columns, Len(code), code)
  /\ pc \in {"node", "refined"} => node \in Seq(Nonempty(Columns))

FeulnerInv == backend = "feulner" => FeulnerState

LEMMA RootKeyIs ==
  ASSUME NEW D, NEW rows \in Seq(SUBSET D)
  PROVE  Len(rows) \in Nat /\ NewPartialKey(rows) \in PartsOf(D, Len(rows))
<1> DEFINE k == Len(rows)
           K == Entries(k)
<1>1. k \in Nat
  OBVIOUS
<1>2. rows \in Rows(D, k)
  BY DEF Rows
<1> HIDE DEF k, K
<1>3. <<>> \in Seq(K)
  OBVIOUS
<1>4. NewPartialKey(rows) \in PartsOf(D, k)
  BY <1>2, <1>3 DEF NewPartialKey, PartsOf, K
<1> QED BY <1>1, <1>4 DEF k

(* An arrangement of a code is a code of the same length.                    *)
LEMMA RearrangedIs ==
  ASSUME NEW m \in Nat \ {0}, NEW rows \in Seq(SUBSET (0 .. m - 1)), NEW sigma \in ColumnOrders(m)
  PROVE  Rearranged(rows, sigma, m) \in Seq(SUBSET (0 .. m - 1))
<1> DEFINE B == SUBSET (0 .. m - 1)
           moved == [i \in DOMAIN rows |-> Permuted(rows[i], sigma)]
<1>1. \A v \in B : Permuted(v, sigma) \in B
  BY PermutedFacts
<1> HIDE DEF B
<1>2. rows \in Seq(B)
  BY DEF B
<1>3. Len(rows) \in Nat /\ DOMAIN rows = 1 .. Len(rows) /\ \A i \in 1 .. Len(rows) : rows[i] \in B
  BY <1>2
<1>4. moved \in [1 .. Len(rows) -> B]
  BY <1>1, <1>3
<1> HIDE DEF moved
<1>5. moved \in Seq(B)
  BY <1>3, <1>4, ListIs
<1>6. moved \in Seq(Bits(m))
  BY <1>5 DEF B, Bits
<1>7. Echelon(RowReduce(moved, m).rref, RowReduce(moved, m).pivots, m)
  BY <1>6, RowReduceCorrect
<1>8. RowReduce(moved, m).rref \in Seq(Bits(m))
  BY <1>7 DEF Echelon
<1> QED BY <1>8 DEF Rearranged, moved, Bits

LEMMA FeulnerStarts ==
  ASSUME FeulnerInit
  PROVE  FeulnerState
<1>1. PICK rows \in Codes[n], sigma \in Arrangements[n] : code = Rearranged(rows, sigma, n)
  BY DEF FeulnerInit
<1>2. n \in Nat \ {0} /\ rows \in Seq(SUBSET (0 .. n - 1)) /\ sigma \in ColumnOrders(n)
  <2>1. n \in DOMAIN Codes
    BY DEF FeulnerInit
  <2> QED BY <1>1, <2>1, FeulnerAssumption
<1>3. code \in Seq(SUBSET Columns)
  BY <1>1, <1>2, RearrangedIs DEF Columns
<1>4. Len(code) \in Nat /\ NewPartialKey(code) \in PartsOf(Columns, Len(code))
  BY <1>3, RootKeyIs
<1>5. IsBacktrack(<<>>, NewPartialKey(code), Columns, Len(code), code)
  BY <1>4, NoFrames
<1>6. refiners = {} /\ pc = "entry" /\ stack = <<>> /\ part = NewPartialKey(code)
  BY DEF FeulnerInit
<1> QED BY <1>2, <1>3, <1>4, <1>5, <1>6 DEF FeulnerState

(* What a node absorbs can be taken back.                                    *)
LEMMA KeyedIs ==
  ASSUME FeulnerState, pc = "refined"
  PROVE  /\ Keyed.part \in PartsOf(Columns, Len(code)) /\ Keyed.log \in Losses(Columns, Len(code))
         /\ Restore(Keyed.part, Snapshot(part), Keyed.log) = part
         /\ ~Sooner(bestKey, Keyed.part.key) => Keyed = Replay(part, node)
<1> DEFINE k == Len(code)
           D == Columns
           y == AbsorbSingletons(bestKey, Begun(part), node)
<1>1. k \in Nat /\ part \in PartsOf(D, k) /\ node \in Seq(Nonempty(D))
  <2>1. code \in Seq(SUBSET D)
    BY DEF FeulnerState
  <2>2. k \in Nat
    BY <2>1, RootKeyIs
  <2> QED BY <2>2 DEF FeulnerState
<1>2. Keyed = y
  BY DEF Keyed, Begun
<1> HIDE DEF k, D
<1>3. Begun(part) \in Grown(D, k, part)
  BY <1>1, BegunIs
<1>4. y \in Grown(D, k, part)
  BY <1>1, <1>3, SinglesStay
<1>5. ~Sooner(bestKey, y.part.key) => y = Replay(part, node)
  BY <1>1, UncutIsReplay
<1> HIDE DEF y
<1>6. y \in Absorbing(D, k) /\ GrownFrom(y, part, k)
  BY <1>4 DEF Grown
<1>7. Restore(y.part, Snapshot(part), y.log) = part
  BY <1>1, <1>6, RestoreIs
<1>8. y.part \in PartsOf(D, k) /\ y.log \in Losses(D, k)
  BY <1>6 DEF Absorbing
<1> QED BY <1>2, <1>5, <1>7, <1>8 DEF k, D

(* Steps that leave the stack and the key alone.                             *)
LEMMA SearchStays ==
  ASSUME FeulnerState, UNCHANGED <<n, code, part, stack>>, refiners' \subseteq SUBSET Columns,
         pc' \in {"node", "refined"} => node' \in Seq(Nonempty(Columns))
  PROVE  FeulnerState'
BY DEF FeulnerState, Columns

(* The step that branches.                                                   *)
LEMMA OpenKeeps ==
  ASSUME FeulnerState, Open
  PROVE  FeulnerState'
<1> DEFINE k == Len(code)
           D == Columns
           big == {i \in DOMAIN node : Cardinality(node[i]) > 1}
           c == Min(big)
           f == [cells |-> node, cell |-> c, rest |-> node[c], seen |-> {}, col |-> 0,
                 snap |-> Snapshot(part), log |-> Keyed.log]
<1>1. /\ pc = "refined" /\ ~Sooner(bestKey, Keyed.part.key) /\ ~Columnwise(node)
      /\ stack' = Append(stack, f) /\ part' = Keyed.part /\ pc' = "branch"
      /\ UNCHANGED <<n, code, refiners, node>>
  BY DEF Open, input
<1>2. /\ n \in Nat \ {0} /\ code \in Seq(SUBSET D) /\ part \in PartsOf(D, k)
      /\ IsBacktrack(stack, part, D, k, code) /\ node \in Seq(Nonempty(D)) /\ refiners \subseteq SUBSET D
  BY <1>1 DEF FeulnerState
<1>3. k \in Nat
  BY <1>2, RootKeyIs
<1>4. DOMAIN node = 1 .. Len(node) /\ Len(node) \in Nat /\ \A i \in 1 .. Len(node) : node[i] \in Nonempty(D)
  <2> DEFINE C == Nonempty(D)
  <2> HIDE DEF C
  <2>1. \A s \in Seq(C) : DOMAIN s = 1 .. Len(s) /\ Len(s) \in Nat /\ \A i \in 1 .. Len(s) : s[i] \in C
    OBVIOUS
  <2> QED BY <1>2, <2>1 DEF C
<1>5. c \in 1 .. Len(node)
  <2>1. PICK i \in 1 .. Len(node) : Cardinality(node[i]) # 1
    BY <1>1, <1>4 DEF Columnwise
  <2>2. node[i] \in SUBSET D /\ node[i] # {}
    BY <1>4 DEF Nonempty
  <2>3. IsFiniteSet(node[i])
    <3>1. IsFiniteSet(0 .. n - 1)
      BY <1>2, FS_Interval
    <3> QED BY <2>2, <3>1, FS_Subset DEF Columns
  <2>4. Cardinality(node[i]) \in Nat /\ Cardinality(node[i]) # 0
    BY <2>2, <2>3, FS_CardinalityType, FS_EmptySet
  <2>5. i \in big
    BY <1>4, <2>1, <2>4
  <2>6. big \subseteq Nat /\ big # {} /\ big \subseteq 1 .. Len(node)
    BY <1>4, <2>5
  <2> HIDE DEF big
  <2>7. c \in big
    BY <2>6, LeastOf
  <2> QED BY <2>6, <2>7
<1> HIDE DEF c
<1>6. /\ Keyed.part \in PartsOf(D, k) /\ Keyed.log \in Losses(D, k)
      /\ Restore(Keyed.part, Snapshot(part), Keyed.log) = part /\ Keyed = Replay(part, node)
  BY <1>1, KeyedIs
<1>7. Snapshot(part) \in Snaps(D)
  <2>1. part.key \in Seq(Entries(k)) /\ part.depth \in Nat /\ part.absorbed \in SUBSET D
    BY <1>2 DEF PartsOf
  <2>2. Len(part.key) \in Nat
    <3> DEFINE K == Entries(k)
    <3> HIDE DEF K
    <3>1. \A s \in Seq(K) : Len(s) \in Nat
      OBVIOUS
    <3> QED BY <2>1, <3>1 DEF K
  <2> QED BY <2>1, <2>2 DEF Snapshot, Snaps
<1>8. /\ f \in Frames(D, k, {}) /\ f.cells = node /\ f.cell = c /\ f.rest = node[c]
      /\ f.snap = Snapshot(part) /\ f.log = Keyed.log
  <2>1. node[c] \in SUBSET D /\ c \in Nat /\ 0 \in Nat /\ {} \in SUBSET {}
    BY <1>4, <1>5 DEF Nonempty
  <2> QED BY <1>2, <1>6, <1>7, <2>1 DEF Frames
<1> HIDE DEF f, D, k
<1>9. HasRest(f)
  BY <1>5, <1>8 DEF HasRest
<1>10. Follows(part, f, Keyed.part)
  BY <1>6, <1>8 DEF Follows
<1>11. IsBacktrack(Append(stack, f), Keyed.part, D, k, code)
  BY <1>2, <1>3, <1>6, <1>8, <1>9, <1>10, PushFrame
<1> QED BY <1>1, <1>2, <1>6, <1>11 DEF FeulnerState, Columns, D, k

(* The frame at hand.                                                        *)
LEMMA TopFrame ==
  ASSUME FeulnerState, stack # <<>>
  PROVE  /\ \E Q : Last(stack) \in Frames(Columns, Len(code), Q)
         /\ HasRest(Last(stack)) /\ Len(code) \in Nat
<1> DEFINE k == Len(code)
           D == Columns
<1>1. k \in Nat
  BY RootKeyIs DEF FeulnerState
<1>2. FramesOf(stack, D, k) /\ \A i \in 1 .. Len(stack) : HasRest(stack[i])
  BY DEF FeulnerState, IsBacktrack
<1> HIDE DEF k, D
<1>3. PICK Q : stack \in Seq(Frames(D, k, Q))
  BY <1>2 DEF FramesOf
<1> DEFINE T == Frames(D, k, Q)
<1>4. stack \in Seq(T)
  BY <1>3
<1> HIDE DEF T
<1>5. Last(stack) = stack[Len(stack)] /\ Last(stack) \in T /\ Len(stack) \in Nat \ {0}
  BY <1>4, FrontIs
<1>6. Len(stack) \in 1 .. Len(stack)
  BY <1>5
<1> QED BY <1>1, <1>2, <1>5, <1>6 DEF T, D, k

(* The step that takes the next column out.                                  *)
LEMMA DescendKeeps ==
  ASSUME FeulnerState, Descend
  PROVE  FeulnerState'
<1> DEFINE k == Len(code)
           D == Columns
           f == Last(stack)
           col == Min(Rest)
           rep == RepOf(col, f.cells[f.cell])
           f2 == [f EXCEPT !.rest = {e \in @ : e > col}, !.col = col, !.seen = @ \cup {rep}]
<1>1. /\ stack # <<>> /\ Rest # {} /\ stack' = [stack EXCEPT ![Len(stack)] = f2]
      /\ node' = Individualise(f.cells, f.cell, col) /\ pc' = "node"
      /\ UNCHANGED <<n, code, refiners, part>>
  BY DEF Descend, input
<1>2. /\ n \in Nat \ {0} /\ code \in Seq(SUBSET D) /\ part \in PartsOf(D, k)
      /\ IsBacktrack(stack, part, D, k, code) /\ refiners \subseteq SUBSET D
  BY DEF FeulnerState
<1>3. PICK Q : f \in Frames(D, k, Q)
  BY <1>1, TopFrame
<1>4. HasRest(f) /\ k \in Nat
  BY <1>1, TopFrame
<1>5. Rest \subseteq f.rest
  BY DEF Rest
<1> HIDE DEF k, f
<1>6. f.cells \in Seq(Nonempty(D)) /\ f.rest \in SUBSET D /\ f.seen \in SUBSET Q
  BY <1>3 DEF Frames
<1>7. f.rest \subseteq Nat /\ D \subseteq Nat
  BY <1>6 DEF Columns
<1>8. col \in Rest
  <2>1. Rest \subseteq Nat
    BY <1>5, <1>7
  <2> QED BY <1>1, <2>1, LeastOf
<1> HIDE DEF col, rep
<1>9. f.cell \in 1 .. Len(f.cells) /\ f.rest \subseteq f.cells[f.cell] /\ col \in f.cells[f.cell] /\ col \in Nat
  BY <1>4, <1>5, <1>7, <1>8 DEF HasRest
<1> DEFINE Q2 == Q \cup {rep}
           less == {e \in f.rest : e > col}
           more == f.seen \cup {rep}
<1>10. /\ f2 \in Frames(D, k, Q2) /\ f2.cells = f.cells /\ f2.cell = f.cell /\ f2.rest = less
       /\ f2.snap = f.snap /\ f2.log = f.log
  <2>1. f \in Frames(D, k, Q2)
    BY <1>3, <1>4, WiderFrames
  <2>2. less \in SUBSET D /\ more \in SUBSET Q2
    BY <1>6
  <2>3. f2 = [f EXCEPT !.rest = less, !.col = col, !.seen = more]
    OBVIOUS
  <2> HIDE DEF less, more, Q2, D, f2
  <2> QED BY <1>9, <2>1, <2>2, <2>3 DEF Frames
<1> HIDE DEF f2, D
<1>11. HasRest(f2)
  BY <1>9, <1>10 DEF HasRest
<1>12. IsBacktrack([stack EXCEPT ![Len(stack)] = f2], part, D, k, code)
  BY <1>1, <1>2, <1>4, <1>10, <1>11, TurnFrame DEF f
<1>13. Individualise(f.cells, f.cell, col) \in Seq(Nonempty(D))
  BY <1>6, <1>9, IndividualiseIs DEF Nonempty
<1> QED BY <1>1, <1>2, <1>12, <1>13 DEF FeulnerState, Columns, D, k

(* The step that leaves a node.                                              *)
LEMMA CloseKeeps ==
  ASSUME FeulnerState, Close
  PROVE  FeulnerState'
<1> DEFINE k == Len(code)
           D == Columns
           P == Restore(part, Last(stack).snap, Last(stack).log)
<1>1. /\ pc = "branch" /\ stack # <<>> /\ stack' = Front(stack) /\ part' = P
      /\ UNCHANGED <<n, pc, code, refiners, node>>
  BY DEF Close, input
<1>2. /\ n \in Nat \ {0} /\ code \in Seq(SUBSET D)
      /\ IsBacktrack(stack, part, D, k, code) /\ refiners \subseteq SUBSET D
  BY DEF FeulnerState
<1>3. k \in Nat
  BY <1>2, RootKeyIs
<1>4. IsBacktrack(Front(stack), P, D, k, code) /\ P \in PartsOf(D, k)
  BY <1>1, <1>2, <1>3, PopFrame
<1> HIDE DEF P
<1> QED BY <1>1, <1>2, <1>4 DEF FeulnerState, Columns

LEMMA FeulnerKept == BackendSpec => []FeulnerInv
<1>1. BackendInit => FeulnerInv
  BY FeulnerStarts DEF BackendInit, FeulnerInv
<1>2. FeulnerInv /\ [BackendNext]_backendVars => FeulnerInv'
  <2> SUFFICES ASSUME FeulnerInv, [BackendNext]_backendVars, backend' = "feulner" PROVE FeulnerState'
    BY DEF FeulnerInv
  <2>1. FeulnerState
    BY DEF BackendNext, ViaKernel, ViaFeulner, ViaVerifier, ViaInvariants, backendVars, FeulnerInv
  <2>2. backend = "feulner"
    BY DEF BackendNext, ViaKernel, ViaFeulner, ViaVerifier, ViaInvariants, backendVars
  <2>3. /\ n \in Nat \ {0} /\ code \in Seq(SUBSET (0 .. n - 1)) /\ Columns = 0 .. n - 1
        /\ refiners \subseteq SUBSET Columns
    BY <2>1 DEF FeulnerState, Columns
  <2>4. CASE UNCHANGED backendVars
    <3>1. UNCHANGED <<n, code, pc, refiners, node, part, stack>>
      BY <2>4 DEF backendVars, onlyFeulner
    <3> QED BY <2>1, <2>3, <3>1, SearchStays DEF FeulnerState
  <2>5. CASE FeulnerNext
    <3>1. CASE ShortCut
      <4>1. UNCHANGED <<n, code, part, stack, refiners>> /\ pc' = "done"
        BY <3>1 DEF ShortCut, input
      <4> QED BY <2>1, <2>3, <4>1, SearchStays
    <3>2. CASE Start
      <4>1. UNCHANGED <<n, code, part, stack>>
        BY <3>2 DEF Start, search
      <4>2. refiners' = InvariantRefiners(code) /\ node' = InitialPartition(code, n)
        BY <3>2 DEF Start
      <4>3. /\ InitialPartition(code, n) \in Seq(Nonempty(Columns))
            /\ InvariantRefiners(code) \subseteq SUBSET Columns
        <5>1. n \in Nat
          BY <2>3
        <5> QED BY <2>3, <5>1, InitialPartitionIs DEF Nonempty
      <4> QED BY <2>1, <4>1, <4>2, <4>3, SearchStays
    <3>3. CASE RefineNode
      <4>1. pc = "node" /\ UNCHANGED <<n, code, part, stack, refiners>> /\ node' = Refine(node, refiners)
        BY <3>3 DEF RefineNode, input, search
      <4>2. node \in Seq(Nonempty(Columns))
        BY <2>1, <4>1 DEF FeulnerState
      <4>3. n \in Nat /\ Columns \subseteq 0 .. n
        BY <2>3
      <4>4. Refine(node, refiners) \in Seq(Nonempty(Columns))
        BY <2>3, <4>2, <4>3, RefineStays DEF Nonempty
      <4> QED BY <2>1, <2>3, <4>1, <4>4, SearchStays
    <3>4. CASE CutByBranching
      <4>1. UNCHANGED <<n, code, part, stack, refiners>> /\ pc' = "branch"
        BY <3>4 DEF CutByBranching, input
      <4> QED BY <2>1, <2>3, <4>1, SearchStays
    <3>5. CASE CutByPrefix
      <4>1. /\ pc = "refined" /\ UNCHANGED <<n, code, stack, refiners>> /\ pc' = "branch"
            /\ part' = Restore(Keyed.part, Snapshot(part), Keyed.log)
        BY <3>5 DEF CutByPrefix, input
      <4>2. part' = part
        BY <2>1, <4>1, KeyedIs
      <4> QED BY <2>1, <2>3, <4>1, <4>2, SearchStays
    <3>6. CASE Leaf
      <4>1. /\ pc = "refined" /\ UNCHANGED <<n, code, stack, refiners>> /\ pc' = "branch"
            /\ part' = Restore(Keyed.part, Snapshot(part), Keyed.log)
        BY <3>6 DEF Leaf, input
      <4>2. part' = part
        BY <2>1, <4>1, KeyedIs
      <4> QED BY <2>1, <2>3, <4>1, <4>2, SearchStays
    <3>7. CASE Finish
      <4>1. UNCHANGED <<n, code, part, stack, refiners>> /\ pc' = "done"
        BY <3>7 DEF Finish, input, search
      <4> QED BY <2>1, <2>3, <4>1, SearchStays
    <3> QED BY <2>1, <2>5, <3>1, <3>2, <3>3, <3>4, <3>5, <3>6, <3>7, OpenKeeps, DescendKeeps, CloseKeeps
            DEF FeulnerNext
  <2> QED BY <2>2, <2>4, <2>5 DEF BackendNext, ViaKernel, ViaFeulner, ViaVerifier, ViaInvariants
<1> QED BY <1>1, <1>2, PTL DEF BackendSpec

(* The key of the backtrack is that of a search that goes straight to the    *)
(* node at hand, whatever has been absorbed and taken back on the way.       *)
THEOREM FeulnerKeyAlwaysReplayed == BackendSpec => []FeulnerKeyIsReplayed
<1>1. FeulnerInv => FeulnerKeyIsReplayed
  <2> SUFFICES ASSUME FeulnerState
               PROVE  part = FoldLeft(LAMBDA x, f : AbsorbSingletons(<<>>, x, f.cells),
                                      [part |-> NewPartialKey(code), log |-> <<>>], stack).part
    BY DEF FeulnerInv, FeulnerKeyIsReplayed, KeyIsReplayed
  <2>1. Len(code) \in Nat /\ NewPartialKey(code) \in PartsOf(Columns, Len(code))
    BY RootKeyIs DEF FeulnerState
  <2>2. IsBacktrack(stack, part, Columns, Len(code), code)
    BY DEF FeulnerState
  <2> QED BY <2>1, <2>2, StackReplayed
<1> QED BY <1>1, FeulnerKept, PTL

=============================================================================

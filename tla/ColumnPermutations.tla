-------------------------- MODULE ColumnPermutations --------------------------
(***************************************************************************)
(* Permutations of the columns 0 .. m - 1 and the groups they generate:    *)
(* `permutations.rs`, and the copies of it that the experimental           *)
(* canonicaliser keeps.                                                    *)
(***************************************************************************)
EXTENDS F2Vectors, Functions

(* The permutations of m columns, column by column: column k - 1 goes to any *)
(* place that no earlier one has taken.                                      *)
Extensions(p, k, m) ==
  {[i \in 0 .. k - 1 |-> IF i = k - 1 THEN j ELSE p[i]] : j \in (0 .. m - 1) \ Range(p)}

ColumnOrders(m) ==
  LET upTo[k \in 0 .. m] == IF k = 0 THEN {<<>>} ELSE UNION {Extensions(p, k, m) : p \in upTo[k - 1]}
  IN upTo[m]

Identity(m) == [j \in 0 .. m - 1 |-> j]

(* `perm_compose`: q first.  `perm_inverse`. *)
Compose(p, q) == [i \in DOMAIN q |-> p[q[i]]]

InverseOf(p) == [j \in DOMAIN p |-> CHOOSE i \in DOMAIN p : p[i] = j]

MovedSet(S, sigma) == {Permuted(w, sigma) : w \in S}

(* The words of a linear code of length m. *)
IsCode(C, m) ==
  /\ Zero \in C /\ C \subseteq SUBSET (0 .. m - 1)
  /\ \A u, v \in C : Xor(u, v) \in C

(* The column permutations that map a set of words to itself. *)
AutOf(words, m) == {sigma \in ColumnOrders(m) : MovedSet(words, sigma) = words}

(* All products of a member of S by members of G, permutations of m columns. *)
Closure(S, G, m) ==
  LET closed[T \in SUBSET [0 .. m - 1 -> 0 .. m - 1]] ==
        LET more == {Compose(g, s) : g \in G, s \in T}
        IN IF more \subseteq T THEN T ELSE closed[T \cup more]
  IN closed[S]

(* The group generated by the permutations G. *)
Generated(G, m) == Closure({Identity(m)}, G, m)

(* One round of the breadth-first search: the points that G takes `queue`   *)
(* to for the first time, with a permutation that takes the root there.     *)
Search(found, G) ==
  LET arcs == {a \in found.queue \X G : a[2][a[1]] \notin DOMAIN found.reached}
      next == {a[2][a[1]] : a \in arcs}
      step(q) == LET a == CHOOSE b \in arcs : b[2][b[1]] = q
                 IN Compose(a[2], found.reached[a[1]])
  IN [queue |-> next,
      reached |-> [q \in DOMAIN found.reached \cup next |->
                     IF q \in next THEN step(q) ELSE found.reached[q]]]

(* For every point of the orbit of b a permutation that takes b there: the  *)
(* queue is empty after m rounds at the latest.                             *)
Transversal(b, G, m) ==
  LET found[i \in 0 .. m] ==
        IF i = 0 THEN [queue |-> {b}, reached |-> [q \in {b} |-> Identity(m)]] ELSE Search(found[i - 1], G)
  IN found[m].reached

SchreierGenerators(t, G, m) ==
  {Compose(InverseOf(t[g[p]]), Compose(g, t[p])) : g \in G, p \in DOMAIN t} \ {Identity(m)}

(* The points that G connects to S, all within `inside`. *)
Reach(S, G, inside) ==
  LET reached[T \in SUBSET inside] ==
        LET more == {g[j] : g \in G, j \in T} \cap inside
        IN IF more \subseteq T THEN T ELSE reached[T \cup more]
  IN reached[S]

(* The smallest member of `subset` that unions within it connect to j. *)
OrbitMin(j, G, subset) == Min(Reach({j}, G \cup {InverseOf(g) : g \in G}, subset))

(* `compute_column_orbits`. *)
ComputeColumnOrbits(G, m) == [j \in 0 .. m - 1 |-> OrbitMin(j, G, 0 .. m - 1)]

=============================================================================

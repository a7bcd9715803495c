----------------------------- MODULE ParentRule -----------------------------
(***************************************************************************)
(* Who is the parent of D = <C, v>?  A hyperplane of D is the kernel of a  *)
(* functional, a set of row numbers of D's basis C, v: row k is v, so the  *)
(* functional {k} has kernel C.  A parent rule names one Aut(D)-orbit of   *)
(* hyperplanes, the same for isomorphic codes D.                           *)
(***************************************************************************)
EXTENDS Quotient, Integers

Odd(u, x) == Cardinality(u \cap x) % 2 = 1

(* The nonzero functionals on <rows, v>.                                    *)
Functionals(rows) == (SUBSET (0 .. Len(rows))) \ {Zero}

(* The functional whose kernel is C.                                        *)
Own(rows) == {Len(rows)}

(* phi(u) counts, for each weight, the words of D outside the kernel of u;  *)
(* the functionals with the least list, weights ascending.                  *)
PhiArgmin(rows, v, n) ==
  LET words(w) == {x \in SUBSET (0 .. Len(rows)) : Weight(Combination(Append(rows, v), x)) = w}
      least(left, ofWeight) ==
        LET counts == {<<u, Cardinality({x \in ofWeight : Odd(u, x)})>> : u \in left}
            best == Min({c[2] : c \in counts})
        IN {c[1] : c \in {c \in counts : c[2] = best}}
      leftAfter[i \in 0 .. n \div 4] ==
        IF i = 0 THEN Functionals(rows) ELSE least(leftAfter[i - 1], words(4 * i))
  IN leftAfter[n \div 4]

(* The subcode that u vanishes on, from the rows of D.                      *)
HyperplaneBasis(rows, v, u) ==
  LET D == Append(rows, v)
      j0 == Min(u)
      kept == RemoveAt([j \in DOMAIN D |-> j - 1], j0 + 1)
  IN [i \in DOMAIN kept |-> IF kept[i] \in u THEN Xor(D[kept[i] + 1], D[j0 + 1]) ELSE D[kept[i] + 1]]

(* A column permutation applied to a code, and the code's basis afterwards. *)
Moved(rows, sigma, n) == RowReduce([i \in DOMAIN rows |-> Permuted(rows[i], sigma)], n).rref

(* Two bases of the same rank, row by row.                                  *)
LexBelow(a, b) == \E i \in DOMAIN a : Below(a[i], b[i]) /\ \A h \in 1 .. i - 1 : a[h] = b[h]

(* Among tied functionals, the one whose hyperplane comes first in the      *)
(* canonical frame; the hyperplane in the frame of D.                       *)
TieBreakParent(rows, v, n, tied, sigma) ==
  LET key == [u \in tied |-> Moved(HyperplaneBasis(rows, v, u), sigma, n)]
      best == CHOOSE u \in tied : \A other \in tied : ~ LexBelow(key[other], key[u])
  IN RowReduce(HyperplaneBasis(rows, v, best), n).rref

(* Mutant: the last row of the basis as it is.                              *)
CanonicalParentUnlabelled(d, sigma, n) == IF d = <<>> THEN <<>> ELSE Front(d)

(* The rule before phi: drop the last row of the basis in the canonical     *)
(* frame.                                                                   *)
CanonicalParent(d, sigma, n) ==
  LET inverse == [j \in 0 .. n - 1 |-> CHOOSE i \in 0 .. n - 1 : sigma[i] = j]
  IN IF d = <<>> THEN <<>> ELSE Moved(Front(Moved(d, sigma, n)), inverse, n)

(* Breadth first over the subspaces reached from start, as reduced bases.   *)
SubspaceInOrbit(start, target, generators, n) ==
  LET Bases == SUBSET Seq(SUBSET (0 .. n - 1))
      reached[seen \in Bases, queue \in Bases] ==
        LET images == {Moved(basis, g, n) : basis \in queue, g \in generators}
        IN \/ target \in queue
           \/ ~ images \subseteq seen /\ reached[seen \cup images, images \ seen]
  IN reached[{start}, {start}]

=============================================================================

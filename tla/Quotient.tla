------------------------------- MODULE Quotient -------------------------------
(***************************************************************************)
(* Codes by their reduced row echelon basis, and the quotient of the dual  *)
(* of a code by the code: canonical representatives, coordinates, and the  *)
(* action of column permutations on the coordinates.                       *)
(***************************************************************************)
EXTENDS F2Vectors, SequencesExt

(***************************************************************************)
(* `row_reduce`: columns 0 .. n - 1 from left to right; the first row at   *)
(* or below position r that has the column's bit is swapped into position  *)
(* r and added to every other row that has it.                             *)
(***************************************************************************)
RowReduce(rowsIn, n) ==
  LET done[c \in 0 .. n] ==
        IF c = 0 THEN [rref |-> rowsIn, pivots |-> <<>>]
        ELSE LET before == done[c - 1]
                 rows == before.rref
                 r == Len(before.pivots) + 1
                 having == {i \in r .. Len(rows) : c - 1 \in rows[i]}
                 p == Min(having)
                 swapped == [rows EXCEPT ![r] = rows[p], ![p] = rows[r]]
             IN IF having = {} THEN before
                ELSE [rref |-> [i \in DOMAIN rows |->
                                  IF i # r /\ c - 1 \in swapped[i]
                                  THEN Xor(swapped[i], rows[p]) ELSE swapped[i]],
                      pivots |-> Append(before.pivots, c - 1)]
  IN [done[n] EXCEPT !.rref = SubSeq(@, 1, Len(done[n].pivots))]

(* v with the bits at the pivots of the code cleared. *)
ReduceModC(v, code) ==
  FoldLeftDomain(LAMBDA rep, i : IF code.pivots[i] \in rep THEN Xor(rep, code.rref[i]) ELSE rep,
                 v, code.pivots)

(* One dual vector for every column without a pivot. *)
DualBasis(code, n) ==
  LET free == SelectSeq([i \in 1 .. n |-> i - 1], LAMBDA j : j \notin ToSet(code.pivots))
  IN [j \in DOMAIN free |->
        {free[j]} \cup {code.pivots[i] : i \in {h \in DOMAIN code.rref : free[j] \in code.rref[h]}}]

(* Basis and pivots of the coset representatives of dual / code. *)
QBasis(code, n) ==
  LET reduced == [j \in DOMAIN DualBasis(code, n) |-> ReduceModC(DualBasis(code, n)[j], code)]
  IN RowReduce(SelectSeq(reduced, LAMBDA v : v # Zero), n)

(* The coordinates of a representative: its bits at the pivots of V. *)
Project(v, V) == {i - 1 : i \in {j \in DOMAIN V.pivots : V.pivots[j] \in v}}

(* What the column permutations do to the coordinates, in column form. *)
AutImageOnQ(generators, code, V) ==
  [g \in DOMAIN generators |->
     [i \in DOMAIN V.rref |-> Project(ReduceModC(Permuted(V.rref[i], generators[g]), code), V)]]

=============================================================================

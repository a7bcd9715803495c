---------------------------- MODULE MCSeederPool ----------------------------
(***************************************************************************)
(* Searches in any order and repeated.  The first is over the quotient of  *)
(* the doubly even [10, 2] code with rows 1111000000 and 0011110000: six   *)
(* dimensions, a walk of 63 steps, which is shared.  The second is over    *)
(* that of the [8, 2] code with rows 11110000 and 00111100 for a parent    *)
(* with a trivial group: its walk of 15 steps is not shared, and there is  *)
(* no orbit search.  The others stay below the pool's dimensions: over the *)
(* [7, 2] code with tables of two bits and of one, and with a whole table  *)
(* and an identity among the generators; over an [8, 3] code without.      *)
(***************************************************************************)
EXTENDS SeederPool

Q == INSTANCE Quotient

Rows == <<{0, 1, 2, 3}, {2, 3, 4, 5}>>

Code(n) == Q!RowReduce(Rows, n)

V(n) == Q!QBasis(Code(n), n)

Cycles(p) == [i \in 0 .. 9 |-> IF i \in DOMAIN p THEN p[i] ELSE i]

Swap(i, j) == Cycles((i :> j) @@ (j :> i))

(* The three pairs of columns and the columns outside the code's support. *)
SixDimensions ==
  [by |-> "kernel", vBasis |-> V(10).rref, sigmaQs |->
  Q!AutImageOnQ(<<Swap(0, 1), Swap(2, 3),
                  Cycles((0 :> 2) @@ (2 :> 4) @@ (4 :> 0) @@ (1 :> 3) @@ (3 :> 5) @@ (5 :> 1)),
                  Swap(6, 7),
                  Cycles((6 :> 7) @@ (7 :> 8) @@ (8 :> 9) @@ (9 :> 6))>>, Code(10), V(10))]

Identity(l) == [i \in 1 .. l |-> {i - 1}]

FourDimensions == [by |-> "kernel", vBasis |-> V(8).rref, sigmaQs |-> <<Identity(4)>>]

(* The pairs of columns, in the order of a cycle, and one pair's exchange.  *)
Pairs(n) ==
  Q!AutImageOnQ(<<Swap(2, 3),
                  Cycles((0 :> 2) @@ (2 :> 4) @@ (4 :> 0) @@ (1 :> 3) @@ (3 :> 5) @@ (5 :> 1))>>,
                Code(n), V(n))

ThreeDimensions == [by |-> "kernel", vBasis |-> V(7).rref, sigmaQs |-> Pairs(7)]

ThreeByTable == [by |-> "table", vBasis |-> V(7).rref, sigmaQs |-> <<Identity(3)>> \o Pairs(7)]

(* The [8, 3] code spanned by neighbouring pairs; an exchange in a pair.    *)
TwoDimensions ==
  LET code == Q!RowReduce(<<0 .. 3, 2 .. 5, 4 .. 7>>, 8)
      basis == Q!QBasis(code, 8)
  IN [by |-> "kernel", vBasis |-> basis.rref, sigmaQs |-> Q!AutImageOnQ(<<Swap(0, 1)>>, code, basis)]

MCSearches == {SixDimensions, FourDimensions, ThreeDimensions, ThreeByTable, TwoDimensions}

=============================================================================

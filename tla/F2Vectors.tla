------------------------------ MODULE F2Vectors ------------------------------
(***************************************************************************)
(* Linear algebra over F_2 as the kernel does it.  A packed word is the    *)
(* set of its one bits, so XOR is symmetric difference, popcount is        *)
(* cardinality, and a matrix in column form is a sequence of words whose   *)
(* i-th bit selects element i + 1.                                         *)
(***************************************************************************)
EXTENDS Naturals, Sequences, FiniteSetsExt

Zero == {}

Xor(u, v) == SymDiff(u, v)

Weight(v) == Cardinality(v)

(* u < v as unsigned integers: the highest bit where they differ is v's. *)
Below(u, v) == u # v /\ Max(Xor(u, v)) \in v

(* The words of S in ascending order. *)
Ascending(S) ==
  LET rank == [x \in S |-> Cardinality({y \in S : Below(y, x)}) + 1]
  IN [i \in 1 .. Cardinality(S) |-> CHOOSE x \in S : rank[x] = i]

(***************************************************************************)
(* XOR of the members of `words` that the bits of u select: `mat_apply`    *)
(* with a matrix, `lift` with a basis.                                     *)
(***************************************************************************)
Combination(words, u) ==
  {x \in UNION {words[i + 1] : i \in u} :
     Cardinality({i \in u : x \in words[i + 1]}) % 2 = 1}

(* Everything the words of S add up to. *)
Span(S) == FoldSet(LAMBDA v, spanned : spanned \cup {Xor(u, v) : u \in spanned}, {Zero}, S)

(* The permutation sends bit i to bit sigma[i]. *)
Permuted(v, sigma) == {sigma[i] : i \in v}

(***************************************************************************)
(* The bits of `i ^ (i >> 1)`, and the bit in which it differs from the    *)
(* word before it.                                                         *)
(***************************************************************************)
Bit(i, j) == (i \div 2^j) % 2

GrayWord(i, width) == {j \in 0 .. width - 1 : Bit(i, j) # Bit(i, j + 1)}

TrailingZeros(i) == CHOOSE j \in 0 .. i : Bit(i, j) = 1 /\ \A h \in 0 .. j - 1 : Bit(i, h) = 0

=============================================================================

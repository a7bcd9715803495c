------------------------- MODULE MCParallelEnumerator -------------------------
(***************************************************************************)
(* Small instances of the parallel drivers on two trees.                   *)
(*                                                                         *)
(* Deep tree, MaxK = 4:                    Wide tree, MaxK = 3:            *)
(*                                                                         *)
(*   c0 - c1 -+- c2 -+- c3 -+- c4            c0 - c1 -+- c2 --- c3         *)
(*            |      |      +- (r3)                   +- d2                *)
(*            |      +- d3                            +- e2                *)
(*            |      +- (r2)                          +- (r1)              *)
(*            +- d2 --- e3                                                 *)
(*                                                                         *)
(* A digit is the rank; names in parentheses are rejected candidates.      *)
(***************************************************************************)
EXTENDS ParallelEnumerator, FiniteSetsExt

SumOf(weight) == [S \in SUBSET DOMAIN weight |-> MapThenSumSet(LAMBDA c : weight[c], S)]

DeepRank ==
  [c0 |-> 0, c1 |-> 1, c2 |-> 2, d2 |-> 2, c3 |-> 3, d3 |-> 3, e3 |-> 3, c4 |-> 4]
DeepCodes == DOMAIN DeepRank
DeepRejects == {"r2", "r3"}
DeepParent ==
  [c1 |-> "c0", c2 |-> "c1", d2 |-> "c1", c3 |-> "c2", d3 |-> "c2", e3 |-> "d2",
   c4 |-> "c3", r2 |-> "c2", r3 |-> "c3"]
DeepMass ==
  SumOf([c0 |-> 1, c1 |-> 3, c2 |-> 2, d2 |-> 1, c3 |-> 1, d3 |-> 2, e3 |-> 2, c4 |-> 1])

WideRank == [c0 |-> 0, c1 |-> 1, c2 |-> 2, d2 |-> 2, e2 |-> 2, c3 |-> 3]
WideCodes == DOMAIN WideRank
WideRejects == {"r1"}
WideParent ==
  [c1 |-> "c0", c2 |-> "c1", d2 |-> "c1", e2 |-> "c1", c3 |-> "c2", r1 |-> "c1"]
WideMass == SumOf([c0 |-> 1, c1 |-> 2, c2 |-> 1, d2 |-> 1, e2 |-> 2, c3 |-> 1])

=============================================================================

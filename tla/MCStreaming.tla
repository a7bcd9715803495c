----------------------------- MODULE MCStreaming -----------------------------
(***************************************************************************)
(* Small instances of the streaming drivers.  The tree is the shortest one *)
(* with a frontier at rank two: a class of each rank from zero to three.   *)
(***************************************************************************)
EXTENDS Streaming

SmallRank == [s0 |-> 0, s1 |-> 1, s2 |-> 2, s3 |-> 3]
SmallCodes == DOMAIN SmallRank
SmallParent == [s1 |-> "s0", s2 |-> "s1", s3 |-> "s2"]
SmallWeight == [s0 |-> 1, s1 |-> 3, s2 |-> 2, s3 |-> 1]
SmallMass == [S \in SUBSET SmallCodes |-> MapThenSumSet(LAMBDA c : SmallWeight[c], S)]

=============================================================================

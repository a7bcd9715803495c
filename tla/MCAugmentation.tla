--------------------------- MODULE MCAugmentation ---------------------------
(***************************************************************************)
(* All classes up to length twelve, by rank, and those of rank at most two *)
(* up to length sixteen: a code that leaves the last columns zero is also  *)
(* one of a shorter length.                                                *)
(***************************************************************************)
EXTENDS Augmentation

(* Rank two: a, b and c columns in the first row, the second and both.      *)
Pair(a, b, c) == <<(0 .. a - 1) \cup (a + b .. a + b + c - 1), a .. a + b + c - 1>>

MCReps ==
  {<<>>,
   <<0 .. 3>>,
   <<0 .. 7>>,
   <<0 .. 11>>,
   <<{0, 3, 4, 5}, {1, 2, 4, 5}>>,
   <<0 .. 3, 4 .. 7>>,
   <<{0} \cup (3 .. 9), {1, 2} \cup (4 .. 9)>>,
   <<0 .. 3, 4 .. 11>>,
   <<{0} \cup (5 .. 11), (1 .. 4) \cup (8 .. 11)>>,
   <<{0, 3, 4, 5}, {1, 3, 5, 6}, {2, 3, 4, 6}>>,
   <<{0, 3, 6, 7}, {1, 2, 6, 7}, 4 .. 7>>,
   <<{0, 3, 4, 5}, {1, 2, 4, 5}, 6 .. 9>>,
   <<{0, 3, 4, 5}, {1, 3} \cup (5 .. 10), {2, 3, 4} \cup (6 .. 10)>>,
   <<{0, 3} \cup (6 .. 11), {1, 2} \cup (6 .. 11), 4 .. 11>>,
   <<0 .. 3, 4 .. 7, 8 .. 11>>,
   <<{0, 3, 5, 6} \cup (8 .. 11), {1, 2, 5, 6} \cup (8 .. 11), 4 .. 7>>,
   <<{0, 3, 6, 7}, {1, 3, 5, 6}, {2, 3, 5, 7}, 4 .. 7>>,
   <<{0, 3, 4, 5}, {1, 3, 5, 6}, {2, 3, 4, 6}, 7 .. 10>>,
   <<{0, 3} \cup (6 .. 11), {1, 3, 5, 6}, {2, 3, 5} \cup (7 .. 11), 4 .. 11>>,
   <<{0, 3, 8, 9}, {1, 2, 8, 9}, {4, 5, 8, 9}, 6 .. 9>>,
   <<{0, 3, 6, 7}, {1, 2, 6, 7}, 4 .. 7, 8 .. 11>>,
   <<{0, 3, 6, 7}, {1, 3, 5} \cup (7 .. 11), {2, 3, 5, 6} \cup (8 .. 11), 4 .. 7>>,
   <<{0, 3, 4, 5}, {1, 2, 4, 5}, {6, 9, 10, 11}, {7, 8, 10, 11}>>,
   <<{0, 3, 6, 7}, {1, 3, 5, 6}, {2, 3, 5, 7}, 4 .. 7, 8 .. 11>>,
   <<{0, 3, 10, 11}, {1, 2, 10, 11}, {4, 5, 10, 11}, {6, 7, 10, 11}, 8 .. 11>>,
   <<0 .. 15>>, Pair(0, 4, 12), Pair(0, 8, 8), Pair(2, 2, 10), Pair(2, 6, 6), Pair(4, 4, 8)}

Straight(len) == [j \in 0 .. len - 1 |-> j]
Reversed(len) == [j \in 0 .. len - 1 |-> len - 1 - j]

(* Sequential runs: up to length ten every combination; at eleven and       *)
(* twelve, whose runs are long, each rule alone and both under one cap; at  *)
(* fourteen and sixteen the first two ranks.                                *)
MCSequential ==
  UNION {[n : {len}, maxK : {len \div 2}, phiRank : {0, 2, 13}, massStop : BOOLEAN,
          frontier : {0}, frame : {Straight(len), Reversed(len)}] : len \in 8 .. 10}
  \cup [n : {11}, maxK : {5}, phiRank : {0, 2}, massStop : BOOLEAN, frontier : {0}, frame : {Straight(11)}]
  \cup UNION {[n : {len}, maxK : {2}, phiRank : {0, 2}, massStop : {TRUE},
               frontier : {0}, frame : {Reversed(len)}] : len \in {14, 16}}
  \cup {[n |-> 12, maxK |-> 6, phiRank |-> 13, massStop |-> FALSE, frontier |-> 0, frame |-> Straight(12)],
        [n |-> 12, maxK |-> 6, phiRank |-> 0, massStop |-> FALSE, frontier |-> 0, frame |-> Reversed(12)],
        [n |-> 12, maxK |-> 5, phiRank |-> 3, massStop |-> TRUE, frontier |-> 0, frame |-> Straight(12)]}

(* Parallel runs: only here can a rank fill up while a code still has       *)
(* candidates, as its last class need not be the last one walked.           *)
MCParallel ==
  [n : {11}, maxK : {4}, phiRank : {0, 2}, massStop : {TRUE}, frontier : {2}, frame : {Straight(11)}]
  \cup [n : {11}, maxK : {5}, phiRank : {13}, massStop : {TRUE}, frontier : {2}, frame : {Reversed(11)}]

MCRuns == MCSequential \cup MCParallel

=============================================================================

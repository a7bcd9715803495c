---------------------------- MODULE MCPhiCascade ----------------------------
(***************************************************************************)
(* Parents of length 24 and candidates of theirs, found so that between    *)
(* them they take every way through the cascade.  W, a child of O, has no  *)
(* word of weight four; A's are both; B is A's child, with a chain of two  *)
(* entries; Y's other words have weight twelve and sixteen, so a coset can *)
(* have a stratum to itself behind the first.                              *)
(***************************************************************************)
EXTENDS PhiCascade

O == <<>>
W == <<0 .. 7>>
A == <<0 .. 3, 4 .. 7>>
B == <<0 .. 3, {4, 7} \cup (8 .. 17), {5, 6} \cup (8 .. 17)>>
Y == <<0 .. 3, 4 .. 15>>

MCCandidates ==
  O :> {0 .. 7}
  @@ W :> {{1, 2, 8, 9}}
  @@ A :> {{1, 3, 6, 7}, {5, 6} \cup (8 .. 17), {6, 7, 14, 21}, {9, 12, 16, 21}}
  @@ B :> {{8, 9, 15, 16},
           {8, 11, 12, 13, 15, 17} \cup (18 .. 23),
           {1, 3, 8, 11, 16, 17} \cup (18 .. 23),
           {1, 2, 6, 7, 14, 15, 16, 18, 19, 20, 22, 23},
           {6, 7, 9, 10, 13, 14, 17, 18, 19, 20, 21, 23},
           {1, 2, 6, 7, 9, 10, 11, 12, 13, 19, 20, 23}}
  @@ Y :> {{10, 11, 18, 23},
           {2, 3, 5, 9, 10, 11} \cup (14 .. 23),
           {9, 10, 11, 14} \cup (16 .. 23),
           {2, 3, 6, 8, 11, 15, 16, 17, 19, 21, 22, 23},
           {6, 8, 9, 11, 13, 14, 17, 18, 19, 20, 21, 23},
           {1, 2, 5, 6, 7, 13, 14, 15, 16, 18, 19, 22},
           {9, 10, 11, 13, 16, 18, 20, 22}}

MCCodes == DOMAIN MCCandidates

(* The candidates are ones the walk can meet: doubly even, orthogonal to    *)
(* the parent and to themselves, outside it and reduced modulo it.          *)
ASSUME CandidatesAreReal ==
  \A c \in DOMAIN MCCandidates : \A v \in MCCandidates[c] :
    /\ Weight(v) % 4 = 0
    /\ \A i \in DOMAIN c : Weight(c[i]) % 4 = 0 /\ Cardinality(v \cap c[i]) % 2 = 0
    /\ v # Zero /\ ReduceModC(v, RowReduce(c, N)) = v

=============================================================================

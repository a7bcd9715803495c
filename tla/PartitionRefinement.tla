------------------------- MODULE PartitionRefinement -------------------------
(***************************************************************************)
(* The primitives the experimental canonicaliser and the isomorphism test  *)
(* share: ordered partitions of the columns, their equitable refinement by *)
(* the lightest words of the code, and the key that grows with every       *)
(* column the partition has singled out.                                   *)
(*                                                                         *)
(* A partition is a sequence of sets of columns, a code the sequence of    *)
(* its RREF rows, a sort key a sequence of numbers.                        *)
(***************************************************************************)
EXTENDS ColumnPermutations, Quotient

Sooner(a, b) ==
  \E i \in DOMAIN a : /\ i \in DOMAIN b /\ a[i] < b[i]
                      /\ \A h \in 1 .. i - 1 : a[h] = b[h]

(* What has equal keys goes together, in the order of the keys: a BTreeMap. *)
Buckets(key) ==
  LET keys == Range(key)
      rank == [a \in keys |-> Cardinality({b \in keys : Sooner(b, a)}) + 1]
  IN [i \in 1 .. Cardinality(keys) |-> {x \in DOMAIN key : rank[key[x]] = i}]

(* `max_by_key`: the earliest of the largest. *)
LargestOf(fragments) ==
  CHOOSE i \in DOMAIN fragments : \A h \in DOMAIN fragments :
    LET size(f) == Cardinality(fragments[f]) IN size(h) < size(i) \/ (size(h) = size(i) /\ i =< h)

AllWords(code) == {Combination(code, u) : u \in SUBSET (0 .. Len(code) - 1)}

Columnwise(p) == \A i \in DOMAIN p : Cardinality(p[i]) = 1

-----------------------------------------------------------------------------
(* The columns inside the support of the code, then those outside. *)
InitialPartition(code, n) ==
  LET support == UNION ToSet(code)
      cell(S) == IF S = {} THEN <<>> ELSE <<S>>
  IN cell(support) \o cell((0 .. n - 1) \ support)

(* The words of the two lowest weights other than zero. *)
InvariantRefiners(code) ==
  LET weights == {Weight(w) : w \in AllWords(code) \ {Zero}}
      lowest == {a \in weights : Cardinality({b \in weights : b < a}) < 2}
  IN {w \in AllWords(code) : Weight(w) \in lowest}

(* How many of its bits a word has in each part. *)
Histogram(w, parts) == [i \in DOMAIN parts |-> Cardinality(w \cap parts[i])]

(* A row of `p_table`: how many words of the group pass through column j. *)
Through(group, j) == Cardinality({w \in group : j \in w})

(***************************************************************************)
(* A group of words that tells the fragments of a cell apart splits: the   *)
(* largest part keeps the group's place and waits only if the group did,   *)
(* the others are appended and queued.                                     *)
(***************************************************************************)
SplitGroup(s, g, fragments) ==
  LET parts == Buckets([w \in s.groups[g] |-> Histogram(w, fragments)])
      big == LargestOf(parts)
      others == RemoveAt(parts, big)
  IN IF Len(parts) = 1 THEN s
     ELSE [s EXCEPT !.groups = [@ EXCEPT ![g] = parts[big]] \o others,
                    !.worklist = @ \o [i \in DOMAIN others |-> Len(s.groups) + i]]

(***************************************************************************)
(* `apply_cell_split`, for the cell c if group g tells its columns apart:  *)
(* the largest fragment keeps the cell's slot, the others are appended     *)
(* with the cell's lineage, and every group is split by the fragments.     *)
(***************************************************************************)
SplitCell(s, c, g) ==
  LET fragments == Buckets([j \in s.cells[c] |-> <<Through(s.groups[g], j)>>])
      big == LargestOf(fragments)
      others == RemoveAt(fragments, big)
      split == [s EXCEPT !.cells = [@ EXCEPT ![c] = fragments[big]] \o others,
                         !.lineage = @ \o [i \in DOMAIN others |-> s.lineage[c]]]
  IN IF Len(fragments) = 1 THEN s
     ELSE FoldLeftDomain(LAMBDA t, h : SplitGroup(t, h, fragments), split, s.groups)

(***************************************************************************)
(* The worklist is a stack; cells that appear on the way wait for later.   *)
(* Every group is queued once and holds a word, so that it is empty after  *)
(* as many steps as there are words.                                       *)
(***************************************************************************)
Drain(s) ==
  LET steps == Cardinality(UNION ToSet(s.groups))
      drained[i \in 0 .. steps] ==
        IF i = 0 THEN s
        ELSE LET t == drained[i - 1]
             IN IF t.worklist = <<>> THEN t
                ELSE FoldLeftDomain(LAMBDA u, c : SplitCell(u, c, Last(t.worklist)),
                                    [t EXCEPT !.worklist = Front(@)], t.cells)
  IN drained[steps]

(* Mutant: cells in the order in which they were split off. *)
EmitUnsorted(s) == s.cells

(* `emit_sorted`: by lineage, then signature, then smallest column. *)
EmitSorted(s) ==
  LET place == Buckets([c \in DOMAIN s.cells |->
                 LET rep == Min(s.cells[c])
                 IN <<s.lineage[c]>> \o [g \in DOMAIN s.groups |-> Through(s.groups[g], rep)]
                                     \o <<rep>>])
  IN [i \in DOMAIN place |-> s.cells[CHOOSE c \in place[i] : TRUE]]

Refine(p, refiners) ==
  LET groups == Buckets([w \in refiners |-> Histogram(w, p)])
  IN EmitSorted(Drain([cells |-> p, lineage |-> [i \in DOMAIN p |-> i], groups |-> groups,
                       worklist |-> [g \in DOMAIN groups |-> g]]))

(* The column is taken out in front of the rest of its cell. *)
Individualise(p, c, col) ==
  SubSeq(p, 1, c - 1) \o <<{col}>>
    \o (IF p[c] = {col} THEN <<>> ELSE <<p[c] \ {col}>>) \o SubSeq(p, c + 1, Len(p))

-----------------------------------------------------------------------------
(***************************************************************************)
(* `PartialKey`: the rows of the code reduced so far, the number of pivot  *)
(* rows, an entry for every absorbed column, and a log of overwritten rows.*)
(***************************************************************************)
PartialKeys(m) ==
  [work : Seq(SUBSET (0 .. m - 1)), depth : Nat, key : Seq(Nat), absorbed : SUBSET (0 .. m - 1)]

(* A set of numbers in ascending order. *)
InOrder(S) == [i \in 1 .. Cardinality(S) |-> CHOOSE r \in S : Cardinality({q \in S : q < r}) = i - 1]

NewPartialKey(code) == [work |-> code, depth |-> 0, key |-> <<>>, absorbed |-> {}]

(***************************************************************************)
(* `absorb`: the first row below the pivots that has the column's bit is   *)
(* swapped up and added to all others that have it.  Every row is logged   *)
(* with the value it loses, the two swapped ones first.                    *)
(***************************************************************************)
ReduceBy(partial, c) ==
  LET k == Len(partial.work)
      d == partial.depth
      at == {r \in d + 1 .. k : c \in partial.work[r]}
      p == Min(at)
      swapped == [partial.work EXCEPT ![d + 1] = partial.work[p], ![p] = partial.work[d + 1]]
      hit == InOrder({r \in 1 .. k : r # d + 1 /\ c \in swapped[r]})
      work == IF at = {} THEN partial.work
              ELSE [r \in 1 .. k |-> IF r \in ToSet(hit) THEN Xor(swapped[r], swapped[d + 1])
                                     ELSE swapped[r]]
      entry == SumSet({2^(k - r) : r \in {i \in 1 .. k : c \in work[i]}})
      swaps == IF p = d + 1 THEN <<>>
               ELSE <<<<d + 1, partial.work[d + 1]>>, <<p, partial.work[p]>>>>
  IN [part |-> [work |-> work, depth |-> IF at = {} THEN d ELSE d + 1,
                key |-> Append(partial.key, entry), absorbed |-> partial.absorbed \cup {c}],
      log |-> IF at = {} THEN <<>>
              ELSE swaps \o [i \in DOMAIN hit |-> <<hit[i], swapped[hit[i]]>>]]

Absorb(x, c) == [ReduceBy(x.part, c) EXCEPT !.log = x.log \o @]

(***************************************************************************)
(* Absorb the columns that are a cell of their own and new, in the order   *)
(* of the cells; stop as soon as the key is larger than the best one on    *)
(* their common prefix.  Without a best one, <<>>, nothing stops it.       *)
(***************************************************************************)
AbsorbSingletons(best, x, cells) ==
  LET next(y, cell) == IF Sooner(best, y.part.key) \/ Cardinality(cell) # 1 \/ cell \subseteq y.part.absorbed
                       THEN y ELSE Absorb(y, CHOOSE c \in cell : TRUE)
  IN FoldLeft(next, x, cells)

(* Mutant: the log is replayed in the order in which it was written. *)
RestoreForwards(part, snap, log) ==
  [work |-> FoldLeft(LAMBDA rows, entry : [rows EXCEPT ![entry[1]] = entry[2]], part.work, log),
   depth |-> snap.depth, absorbed |-> snap.absorbed, key |-> SubSeq(part.key, 1, snap.len)]

(* `restore`: the log backwards, and the rest from the snapshot. *)
Restore(part, snap, log) ==
  [work |-> FoldRight(LAMBDA entry, rows : [rows EXCEPT ![entry[1]] = entry[2]], log, part.work),
   depth |-> snap.depth, absorbed |-> snap.absorbed, key |-> SubSeq(part.key, 1, snap.len)]

Snapshot(part) == [depth |-> part.depth, absorbed |-> part.absorbed, len |-> Len(part.key)]

=============================================================================

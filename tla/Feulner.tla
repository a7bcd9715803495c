------------------------------- MODULE Feulner -------------------------------
(***************************************************************************)
(* `canon_info_feulner`, the experimental canonicaliser: a backtrack over  *)
(* ordered partitions of the columns.  A node is refined, cut if a known   *)
(* automorphism or the key found so far allows it, and otherwise a column  *)
(* of the first cell that is not a single column is taken out, one for     *)
(* every orbit of the automorphisms known by then.  Two leaves with the    *)
(* same key give an automorphism; the leaf with the smallest key gives the *)
(* labelling.                                                              *)
(***************************************************************************)
EXTENDS CanonState, PartitionRefinement

CONSTANTS
  Codes,        \* [lengths -> sets of codes, as sequences of rows]
  Arrangements  \* [lengths -> sets of column permutations applied to them]

ASSUME FeulnerAssumption ==
  /\ DOMAIN Codes \subseteq Nat \ {0} /\ DOMAIN Arrangements = DOMAIN Codes
  /\ \A m \in DOMAIN Codes : /\ \A rows \in Codes[m] : rows \in Seq(SUBSET (0 .. m - 1))
                             /\ Arrangements[m] \subseteq ColumnOrders(m)

VARIABLES
  form,         \* the form of the code that `code` is an arrangement of, for comparison
  refiners,
  node,         \* the partition of the node at hand
  stack,        \* the frames of the recursion, the innermost last
  part,         \* `partial`
  keyToPi,      \* [keys of leaves -> labellings]
  bestKey,      \* <<>> for None
  father, dirty \* the labelled branching: [columns -> columns], roots left out

onlyFeulner == <<form, refiners, node, stack, part, keyToPi, bestKey, father, dirty>>
search == <<stack, part, keyToPi, bestKey, gens, father, dirty>>
input == <<n, code, form, refiners>>
returned == <<label, order, orbits>>

Rearranged(rows, sigma, m) == RowReduce([i \in DOMAIN rows |-> Permuted(rows[i], sigma)], m).rref

-----------------------------------------------------------------------------
(***************************************************************************)
(* `group_order`: the product of the orbit sizes down the chain of         *)
(* stabilisers.  `rebuild_father` walks the same chain; every level        *)
(* overwrites the fathers of the columns in its orbit.                     *)
(***************************************************************************)
StabiliserChain(G, m) ==
  LET level[base \in 0 .. m] ==
        IF base = 0 THEN [gens |-> G, order |-> 1, father |-> <<>>]
        ELSE LET l == level[base - 1]
                 t == Transversal(base - 1, l.gens, m)
                 orbit == DOMAIN t
             IN [gens |-> IF orbit = {base - 1} THEN l.gens ELSE SchreierGenerators(t, l.gens, m),
                 order |-> l.order * Cardinality(orbit),
                 father |-> [j \in DOMAIN l.father \cup (orbit \ {base - 1}) |->
                              IF j \in orbit \ {base - 1} THEN base - 1 ELSE l.father[j]]]
  IN level[m]

GroupOrder(G, m) == StabiliserChain(G, m).order

Branching(G, m) == StabiliserChain(G, m).father

(* Lemma 5.9: some arc of the branching leads to an earlier cell. *)
HasEmptyIntersection(arcs, p) ==
  LET cellOf(c) == CHOOSE i \in DOMAIN p : c \in p[i]
  IN \E j \in DOMAIN arcs : cellOf(j) < cellOf(arcs[j])

(* The key of the node at hand, as far as the best one lets it grow. *)
Keyed == AbsorbSingletons(bestKey, [part |-> part, log |-> <<>>], node)

-----------------------------------------------------------------------------
(***************************************************************************)
(* The search without cuts and without orbits, for comparison: the pairs   *)
(* of a leaf's key and its labelling.                                      *)
(***************************************************************************)
AllLeaves(rows, m) ==
  LET leaves[p \in Seq(SUBSET (0 .. m - 1)), x \in PartialKeys(m)] ==
        LET q == Refine(p, InvariantRefiners(rows))
            y == AbsorbSingletons(<<>>, [part |-> x, log |-> <<>>], q)
            c == Min({i \in DOMAIN q : Cardinality(q[i]) > 1})
        IN IF Columnwise(q)
           THEN {<<y.part.key, [col \in 0 .. m - 1 |-> (CHOOSE i \in DOMAIN q : col \in q[i]) - 1]>>}
           ELSE UNION {leaves[Individualise(q, c, col), y.part] : col \in q[c]}
  IN leaves[InitialPartition(rows, m), NewPartialKey(rows)]

(* The form of the leaf with the smallest key. *)
BestForm(rows, m) ==
  LET all == AllLeaves(rows, m)
      best == CHOOSE l \in all : \A k \in all : ~Sooner(k[1], l[1])
  IN IF Len(rows) \in {0, m} THEN rows ELSE Rearranged(rows, best[2], m)

-----------------------------------------------------------------------------
(* `gens` are `aut_gens`, which generate the branching; `pc` is "entry",     *)
(* "node", "refined", "branch" or "done".                                   *)
FeulnerInit ==
  /\ n \in DOMAIN Codes
  /\ \E rows \in Codes[n] : \E best \in {BestForm(rows, n)} : \E sigma \in Arrangements[n] :
       code = Rearranged(rows, sigma, n) /\ form = best
  /\ refiners = {} /\ pc = "entry" /\ node = <<>>
  /\ stack = <<>> /\ part = NewPartialKey(code)
  /\ keyToPi = <<>> /\ bestKey = <<>>
  /\ gens = <<>> /\ father = <<>> /\ dirty = FALSE
  /\ label = <<>> /\ order = 0 /\ orbits = <<>>

(* `sn_canon_info`: the zero code and the whole space need no search. *)
ShortCut ==
  LET swap == [j \in Columns |-> IF j < 2 THEN 1 - j ELSE j]
      cycle == [j \in Columns |-> (j + 1) % n]
  IN /\ pc = "entry" /\ Len(code) \in {0, n}
     /\ gens' = (IF n < 2 THEN <<>> ELSE <<swap>>) \o (IF n < 3 THEN <<>> ELSE <<cycle>>)
     /\ label' = Identity(n)
     /\ order' = Cardinality(ColumnPerms)
     /\ orbits' = [j \in Columns |-> 0]
     /\ pc' = "done"
     /\ UNCHANGED <<input, node, stack, part, keyToPi, bestKey, father, dirty>>

Start ==
  /\ pc = "entry" /\ Len(code) \notin {0, n}
  /\ refiners' = InvariantRefiners(code)
  /\ node' = InitialPartition(code, n)
  /\ pc' = "node"
  /\ UNCHANGED <<n, code, form, search, returned>>

RefineNode ==
  /\ pc = "node"
  /\ node' = Refine(node, refiners)
  /\ pc' = "refined"
  /\ UNCHANGED <<input, search, returned>>

(* The branching is rebuilt when asked, and only asked once there is a leaf. *)
Arcs == IF dirty THEN Branching(ToSet(gens), n) ELSE father

CutByAutomorphisms == bestKey # <<>> /\ HasEmptyIntersection(Arcs, node)

Rebuilt == /\ father' = IF bestKey = <<>> THEN father ELSE Arcs
           /\ dirty' = (dirty /\ bestKey = <<>>)

CutByBranching ==
  /\ pc = "refined" /\ CutByAutomorphisms
  /\ pc' = "branch"
  /\ Rebuilt
  /\ UNCHANGED <<input, node, stack, part, keyToPi, bestKey, gens, returned>>

CutByPrefix ==
  LET x == Keyed
  IN /\ pc = "refined" /\ ~CutByAutomorphisms
     /\ Sooner(bestKey, x.part.key)
     /\ part' = Restore(x.part, Snapshot(part), x.log)
     /\ pc' = "branch"
     /\ Rebuilt
     /\ UNCHANGED <<input, node, stack, keyToPi, bestKey, gens, returned>>

(* The labelling of a leaf: columns to their cells. *)
LeafLabel == [c \in Columns |-> (CHOOSE i \in DOMAIN node : c \in node[i]) - 1]

(* Mutant: composed in the other order, which acts on the places of the form. *)
AutFromBackwards(prior, pi) == Compose(pi, InverseOf(prior))

(* Two labellings with one key: from a column to the one in the same place. *)
AutFrom(prior, pi) == Compose(InverseOf(prior), pi)

(***************************************************************************)
(* A leaf with a known key is an automorphism, recorded (`push_aut`) if it *)
(* is new; one with a new key is remembered, and best if it is smaller.    *)
(***************************************************************************)
Leaf ==
  LET x == Keyed
      key == x.part.key
      g == AutFrom(keyToPi[key], LeafLabel)
      fresh == key \in DOMAIN keyToPi /\ g \notin ToSet(gens)
  IN /\ pc = "refined" /\ ~CutByAutomorphisms
     /\ ~Sooner(bestKey, key) /\ Columnwise(node)
     /\ gens' = IF fresh THEN Append(gens, g) ELSE gens
     /\ father' = IF bestKey = <<>> THEN father ELSE Arcs
     /\ dirty' = (fresh \/ (dirty /\ bestKey = <<>>))
     /\ keyToPi' = [k \in DOMAIN keyToPi \cup {key} |->
                      IF k \in DOMAIN keyToPi THEN keyToPi[k] ELSE LeafLabel]
     /\ bestKey' = IF key \notin DOMAIN keyToPi /\ (bestKey = <<>> \/ Sooner(key, bestKey))
                   THEN key ELSE bestKey
     /\ part' = Restore(x.part, Snapshot(part), x.log)
     /\ pc' = "branch"
     /\ UNCHANGED <<input, node, stack, returned>>

(* Otherwise the first cell with several columns is branched on. *)
Open ==
  LET x == Keyed
      c == Min({i \in DOMAIN node : Cardinality(node[i]) > 1})
  IN /\ pc = "refined" /\ ~CutByAutomorphisms
     /\ ~Sooner(bestKey, x.part.key) /\ ~Columnwise(node)
     /\ stack' = Append(stack, [cells |-> node, cell |-> c, rest |-> node[c], seen |-> {}, col |-> 0,
                                snap |-> Snapshot(part), log |-> x.log])
     /\ part' = x.part
     /\ pc' = "branch"
     /\ Rebuilt
     /\ UNCHANGED <<input, node, keyToPi, bestKey, gens, returned>>

(***************************************************************************)
(* The orbit of a column of the cell under the automorphisms known by now  *)
(* that fix the columns taken out above; `seen` holds the orbits visited.  *)
(***************************************************************************)
RepOf(col, cell) ==
  LET fixing == {g \in ToSet(gens) : \A i \in 1 .. Len(stack) - 1 : g[stack[i].col] = stack[i].col}
  IN OrbitMin(col, fixing, cell)

Rest == LET f == Last(stack) IN
  {col \in f.rest : RepOf(col, f.cells[f.cell]) \notin f.seen}

Descend ==
  LET f == Last(stack)
      col == Min(Rest)
  IN /\ pc = "branch" /\ stack # <<>> /\ Rest # {}
     /\ stack' = [stack EXCEPT ![Len(stack)] =
          [f EXCEPT !.rest = {c \in @ : c > col}, !.col = col,
                    !.seen = @ \cup {RepOf(col, f.cells[f.cell])}]]
     /\ node' = Individualise(f.cells, f.cell, col)
     /\ pc' = "node"
     /\ UNCHANGED <<input, part, keyToPi, bestKey, gens, father, dirty, returned>>

Close ==
  /\ pc = "branch" /\ stack # <<>> /\ Rest = {}
  /\ part' = Restore(part, Last(stack).snap, Last(stack).log)
  /\ stack' = Front(stack)
  /\ UNCHANGED <<input, pc, node, keyToPi, bestKey, gens, father, dirty, returned>>

Finish ==
  /\ pc = "branch" /\ stack = <<>>
  /\ label' = keyToPi[bestKey]
  /\ order' = GroupOrder(ToSet(gens), n)
  /\ orbits' = ComputeColumnOrbits(ToSet(gens), n)
  /\ pc' = "done"
  /\ UNCHANGED <<input, node, search>>

FeulnerNext ==
  \/ ShortCut \/ Start \/ RefineNode \/ CutByBranching \/ CutByPrefix
  \/ Leaf \/ Open \/ Descend \/ Close \/ Finish

-----------------------------------------------------------------------------
(***************************************************************************)
(* The labelling takes every arrangement of a code to the same form, the   *)
(* one the full search finds for one of them: neither the prefix cut, nor  *)
(* the cut by the branching, nor the orbits ever lose the best leaf.  And  *)
(* what is returned as generators of Aut(C) are automorphisms.             *)
(***************************************************************************)
AnswerIsSound ==
  /\ pc = "done" => Rearranged(code, label, n) = form
  /\ LET words == AllWords(code) IN \A g \in ToSet(gens) : MovedSet(words, g) = words

(***************************************************************************)
(* Whatever has been absorbed and taken back since, the key of the node at *)
(* hand is that of a search that went straight to it.                      *)
(***************************************************************************)
KeyIsReplayed ==
  LET absorbed(x, f) == AbsorbSingletons(<<>>, x, f.cells)
  IN part = FoldLeft(absorbed, [part |-> NewPartialKey(code), log |-> <<>>], stack).part

(* `|Aut(C)|` is the order of the automorphism group. *)
OrderIsExact ==
  pc = "done" => order = Cardinality(AutOf(AllWords(code), n))

=============================================================================

------------------------------ MODULE Invariants ------------------------------
(***************************************************************************)
(* The invariants of the collision experiment: colour refinement of the    *)
(* graph of words and columns, and three counts over columns, pairs of     *)
(* columns and triples of words.  Two codes that differ in one of them     *)
(* are taken to be inequivalent.                                           *)
(*                                                                         *)
(* A hashed colour is the value that is hashed, a sorted list the number   *)
(* of times each value occurs.                                             *)
(***************************************************************************)
EXTENDS CanonState

CONSTANTS
  Classes,       \* [lengths -> sets of codes, as sets of words]
  Rearrangements,\* [lengths -> sets of column permutations applied to them]
  Weights,       \* the weights counted in the full code
  GminWeights    \* the weights counted in the small graph

ASSUME AuditAssumption ==
  /\ DOMAIN Classes \subseteq Nat /\ DOMAIN Rearrangements = DOMAIN Classes
  /\ \A m \in DOMAIN Classes : /\ \A C \in Classes[m] : IsCode(C, m)
                              /\ Rearrangements[m] \subseteq ColumnOrders(m)

VARIABLES
  class,         \* a code of `Classes`
  digests        \* what is computed for `code`, an arrangement of it; <<>> before

onlyInvariants == <<class, digests>>

Tally(f) ==
  [c \in {f[x] : x \in DOMAIN f} |-> Cardinality({x \in DOMAIN f : f[x] = c})]

DistinctCount(f) == Cardinality({f[x] : x \in DOMAIN f})

-----------------------------------------------------------------------------
FullCodewords(C) == C \ {Zero}

(* `low_weight_codewords_pub`: as for nauty; {} for None. *)
LowWeightCodewords(C, m) ==
  LET lightest(w) == {v \in FullCodewords(C) : Weight(v) =< w}
      low == lightest(Min({w \in 1 .. m : Span(lightest(w)) = C}))
  IN IF C = {Zero} \/ 2 * Cardinality(low) > Cardinality(C) THEN {} ELSE low

(* The words by their weight stratum, from 0. *)
Stratum(words, w) == Cardinality({Weight(v) : v \in {u \in words : Weight(u) < Weight(w)}})

DegreeIn(words, j) == Cardinality({w \in words : j \in w})

(***************************************************************************)
(* `InitMode`: one colour for the words and one for the columns, or words  *)
(* by stratum and columns by degree, in one range of numbers.              *)
(***************************************************************************)
WordColours(words, mode) ==
  [w \in words |-> IF mode = "Vanilla" THEN 0 ELSE Stratum(words, w)]

ColumnColours(words, mode, m) ==
  [j \in 0 .. m - 1 |-> IF mode = "Vanilla" THEN 1
                        ELSE Cardinality({Weight(w) : w \in words}) + DegreeIn(words, j)]

(* Mutant: the rounds stop when no column gets a new colour. *)
StableColumns(cw, col, newCw, newCol) == DistinctCount(newCol) = DistinctCount(col)

(* No round splits a colour without adding to the number of them. *)
Stable(cw, col, newCw, newCol) ==
  DistinctCount(newCw) + DistinctCount(newCol) = DistinctCount(cw) + DistinctCount(col)

(***************************************************************************)
(* A round of `wl_refine`: both sides take their new colours from the old  *)
(* ones of the other side.                                                 *)
(***************************************************************************)
Round(words, old) ==
  LET newCw == [w \in words |-> <<0, old.words[w], Tally([j \in w |-> old.columns[j]])>>]
      newCol == [j \in DOMAIN old.columns |->
                   <<1, old.columns[j], Tally([w \in {v \in words : j \in v} |-> old.words[w]])>>]
  IN [rounds |-> old.rounds + 1, words |-> newCw, columns |-> newCol,
      stable |-> Stable(old.words, old.columns, newCw, newCol)]

Rounds(words, cw, col) ==
  LET limit == 2 * (Cardinality(words) + Cardinality(DOMAIN col))
      after[i \in 0 .. limit] ==
        IF i = 0 THEN [rounds |-> 0, words |-> cw, columns |-> col, stable |-> FALSE]
        ELSE LET old == after[i - 1] IN IF old.stable THEN old ELSE Round(words, old)
  IN after[limit]

WlRefine(words, mode, m) ==
  IF words = {} \/ m = 0
  THEN [rounds |-> 0, words |-> <<>>, columns |-> [j \in 0 .. m - 1 |-> 0], stable |-> TRUE]
  ELSE Rounds(words, WordColours(words, mode), ColumnColours(words, mode, m))

(* The signature: the rounds and the colours on either side. *)
WlSignature(wl) == <<wl.rounds, Tally(wl.words), Tally(wl.columns)>>

-----------------------------------------------------------------------------
(* `t11_signature`: for every column, its words of each weight. *)
T11(words, m, weights) ==
  Tally([j \in 0 .. m - 1 |->
           [a \in weights |-> Cardinality({w \in words : Weight(w) = a /\ j \in w})]])

(* `t12_signature`: the weights of the sums of three lightest words. *)
T12(words) ==
  LET lightest == {w \in words : \A v \in words : Weight(w) =< Weight(v)}
  IN Tally([t \in kSubset(3, lightest) |->
              Tally([p \in kSubset(2, t) |-> Weight({x \in UNION p : \E w \in p : x \notin w})])])

(* `t13_signature`: for two columns, the words of each weight through both. *)
T13(words, m, weights) ==
  IF words = {} THEN <<>>
  ELSE Tally([p \in kSubset(2, 0 .. m - 1) |->
                [a \in weights |-> Cardinality({w \in words : Weight(w) = a /\ p \subseteq w})]])

(* Mutant: the weight of the first word of the list. *)
MinWeightOfFirst(words) == IF words = {} THEN 0 ELSE Weight(Ascending(words)[1])

MinWeight(words) == IF words = {} THEN 0 ELSE Min({Weight(w) : w \in words})

(* The words of the small graph, or all of them. *)
GminWords(C, m) ==
  LET low == LowWeightCodewords(C, m) IN IF low = {} THEN FullCodewords(C) ELSE low

ComputeAllInvariants(C, m) ==
  LET full == FullCodewords(C)
      gmin == GminWords(C, m)
  IN [wl_min_vanilla  |-> WlSignature(WlRefine(gmin, "Vanilla", m)),
      wl_min_degree   |-> WlSignature(WlRefine(gmin, "DegreeAndWeight", m)),
      wl_full_vanilla |-> WlSignature(WlRefine(full, "Vanilla", m)),
      wl_full_degree  |-> WlSignature(WlRefine(full, "DegreeAndWeight", m)),
      t11_full |-> T11(full, m, Weights),
      t11_gmin |-> T11(gmin, m, GminWeights),
      t12      |-> T12(full),
      t13      |-> T13(full, m, Weights),
      t13_min  |-> T13(full, m, {MinWeight(full)}),
      fallback |-> LowWeightCodewords(C, m) = {},
      l_min |-> Cardinality(gmin), l_full |-> Cardinality(full)]

-----------------------------------------------------------------------------
AuditInit ==
  /\ n \in DOMAIN Classes /\ class \in Classes[n]
  /\ code \in {MovedSet(class, sigma) : sigma \in Rearrangements[n]}
  /\ digests = <<>>

Compute ==
  /\ digests = <<>>
  /\ digests' = ComputeAllInvariants(code, n)
  /\ UNCHANGED <<n, class, code>>

-----------------------------------------------------------------------------
(***************************************************************************)
(* Equivalent codes agree in every invariant, so that a difference proves  *)
(* them inequivalent, whichever of the two graphs each one was given.      *)
(***************************************************************************)
InvariantsAgree ==
  digests # <<>> => digests = ComputeAllInvariants(class, n)

(* Words or columns of one colour have equally many neighbours of every one. *)
Equitable(words, colours, m) ==
  /\ \A v, w \in words : colours.words[v] = colours.words[w] =>
       Tally([j \in v |-> colours.columns[j]]) = Tally([j \in w |-> colours.columns[j]])
  /\ \A i, j \in 0 .. m - 1 : colours.columns[i] = colours.columns[j] =>
       Tally([w \in {v \in words : i \in v} |-> colours.words[w]])
         = Tally([w \in {v \in words : j \in v} |-> colours.words[w]])

(***************************************************************************)
(* When the rounds stop the colouring is stable: no further round could    *)
(* have told more apart.                                                   *)
(***************************************************************************)
WlIsEquitable ==
  \A mode \in {"Vanilla", "DegreeAndWeight"} : \A words \in {GminWords(code, n), FullCodewords(code)} :
    Equitable(words, WlRefine(words, mode, n), n)

=============================================================================

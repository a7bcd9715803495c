------------------------------ MODULE CanonInfo ------------------------------
(***************************************************************************)
(* `WorkerState::canon_info`: one thread asks for the automorphism group   *)
(* of one code after another.  The code is turned into a bipartite graph   *)
(* of words and columns, nauty calls back with every generator it finds,   *)
(* the thread-local buffer of generators is taken, the exact order is read *)
(* off nauty's float or computed by Schreier-Sims, and a worker that       *)
(* maintains the secondary cache files the answer, conjugated to the       *)
(* canonical form, under the weight enumerator.                            *)
(*                                                                         *)
(* nauty is external: a search that reports, deepest stabiliser first,     *)
(* automorphisms of the coloured graph not yet generated, until all are,   *)
(* and a labelling that takes isomorphic graphs to the same one.           *)
(*                                                                         *)
(* A code, given by its RREF basis, is the set of its words.               *)
(***************************************************************************)
EXTENDS CanonState

CONSTANTS
  Requests,   \* [lengths -> sets of codes a thread of that length may be asked about]
  Engines,    \* [lengths -> sets of engines the build may dispatch to]
  FloatLimit, \* orders below it are read off the float, `FLOAT_INT_LIMIT_F64`
  MaxCalls    \* bound: calls of one thread

ASSUME CanonAssumption ==
  /\ DOMAIN Requests \subseteq Nat \ {0}
  /\ \A m \in DOMAIN Requests : \A C \in Requests[m] : IsCode(C, m)
  /\ DOMAIN Engines = DOMAIN Requests
  /\ \A m \in DOMAIN Engines : Engines[m] \subseteq {"sparsenauty", "densenauty", "Traces"}
  /\ FloatLimit \in Nat /\ MaxCalls \in Nat

VARIABLES
  engine,     \* the engine for the small graph, by cargo features
  maintain,   \* `maintain_secondary_cache`
  wantLabel,  \* whether nauty computes the labelling
  words,      \* `scratch.accum` or `scratch.cw`: the words in the graph
  buffer,     \* AUT_BUFFER
  left,       \* LEFT_VERTEX_COUNT
  found,      \* nauty: the automorphisms generated so far
  base, level,\* Schreier-Sims: the next base point and the generators there
  cache,      \* `secondary_cache`: [weight enumerators -> sequences of entries]
  calls

onlyNauty == <<engine, maintain, wantLabel, words, buffer, left, found, base, level, cache, calls>>

-----------------------------------------------------------------------------
(* Codes. *)

(* `weight_enum`, the sorted list of weights as the number of each. *)
WeightEnum(C) == [w \in 0 .. n |-> Cardinality({v \in C : Weight(v) = w})]

(* `canonical_form`: the image of the code under the labelling. *)
CanonicalForm(C, sigma) == MovedSet(C, sigma)

-----------------------------------------------------------------------------
(* The words of weight at most w, without zero. *)
Lightest(C, w) == {v \in C \ {Zero} : Weight(v) =< w}

(* Mutant: stop at the first stratum that has any words. *)
LightestOnly(C) ==
  LET low == Lightest(C, Min({w \in 1 .. n : Lightest(C, w) # {}}))
  IN IF C = {Zero} \/ 2 * Cardinality(low) > Cardinality(C) THEN {} ELSE low

(***************************************************************************)
(* The graph.  The strata of low weight, in ascending order, until they    *)
(* span the code; None, here the empty set, if more than half of the words *)
(* are needed or the code is zero.                                         *)
(***************************************************************************)
CollectLowWeightCodewords(C) ==
  LET enough == {w \in 1 .. n : Span(Lightest(C, w)) = C}
      low == Lightest(C, Min(enough))
  IN IF C = {Zero} \/ 2 * Cardinality(low) > Cardinality(C) THEN {} ELSE low

(***************************************************************************)
(* `canon_dispatch`: QD_GRAPH_THRESHOLD is 0, so the small graph is always *)
(* tried, and the full one taken whenever it is refused.                   *)
(***************************************************************************)
GraphWords(C) ==
  LET low == CollectLowWeightCodewords(C) IN IF low = {} THEN C ELSE low

(* Words come before columns, in some fixed order. *)
WordVertices == Ascending(words)

Degree(j) == Cardinality({w \in words : j \in w})

-----------------------------------------------------------------------------
(* nauty. *)

GraphAut == {sigma \in ColumnPerms : MovedSet(words, sigma) = words}

(* What an automorphism does to all vertices. *)
VertexPerm(sigma) ==
  LET ws == WordVertices
      l == Len(ws)
      position == [w \in words |-> CHOOSE i \in 1 .. l : ws[i] = w]
  IN [v \in 0 .. l + n - 1 |-> IF v < l THEN position[Permuted(ws[v + 1], sigma)] - 1
                               ELSE l + sigma[v - l]]

Fixing(depth) == {sigma \in GraphAut : \A j \in 0 .. depth - 1 : sigma[j] = j}

(* The initial cells: words before columns, each by ascending degree. *)
VertexKey(v) ==
  IF v < left THEN <<0, Weight(WordVertices[v + 1])>> ELSE <<1, Degree(v - left)>>

Earlier(u, v) ==
  \/ VertexKey(u)[1] < VertexKey(v)[1]
  \/ VertexKey(u)[1] = VertexKey(v)[1] /\ VertexKey(u)[2] < VertexKey(v)[2]

(* The vertices `vs` in the order of their cells. *)
InCells(vs) ==
  {lab \in SetToSeqs(vs) : \A i, h \in DOMAIN lab : i < h => ~ Earlier(lab[h], lab[i])}

(***************************************************************************)
(* `lab` on return: all vertices, cell after cell, the columns in an order *)
(* that takes the words to the same set for all isomorphic graphs.         *)
(***************************************************************************)
CanonicalLab ==
  LET orders == InCells(left .. left + n - 1)
      image(lab) == MovedSet(words, InverseOf([i \in Columns |-> lab[i + 1] - left]))
      best == CHOOSE graph \in {image(lab) : lab \in orders} : TRUE
  IN (CHOOSE lab \in InCells(0 .. left - 1) : TRUE) \o CHOOSE lab \in orders : image(lab) = best

(***************************************************************************)
(* Where each old column goes: behind the columns that `lab` has before    *)
(* it (`new_col_counter`).                                                 *)
(***************************************************************************)
ColumnOrder(lab) ==
  LET at(j) == CHOOSE i \in DOMAIN lab : lab[i] = left + j
  IN [j \in Columns |-> Cardinality({i \in 1 .. at(j) - 1 : lab[i] >= left})]

-----------------------------------------------------------------------------
(* Orbits are vertices of the graph here; `pc` is "idle", "nauty", "order",  *)
(* "store" or "answered".                                                   *)
KernelInit ==
  /\ n \in DOMAIN Requests
  /\ engine \in Engines[n]
  /\ maintain \in BOOLEAN
  /\ pc = "idle"
  /\ code = {Zero} /\ wantLabel = FALSE
  /\ words = {} /\ buffer = <<>> /\ left = 0 /\ found = {}
  /\ label = <<>> /\ gens = <<>> /\ order = 0 /\ orbits = <<>>
  /\ base = 0 /\ level = {}
  /\ cache = <<>>
  /\ calls = 0

(***************************************************************************)
(* The call: the label is computed if the caller needs it, in full mode    *)
(* (`needLabel` covers both) or for the cache; the graph is built, the     *)
(* buffer emptied and the number of its word vertices noted.               *)
(***************************************************************************)
Call(C, needLabel) ==
  /\ pc \in {"idle", "answered"} /\ calls < MaxCalls
  /\ calls' = calls + 1
  /\ code' = C
  /\ wantLabel' = (needLabel \/ maintain)
  /\ words' = GraphWords(C)
  /\ buffer' = <<>>
  /\ left' = Cardinality(words')
  /\ found' = {Identity(n)}
  /\ label' = <<>> /\ gens' = <<>> /\ order' = 0 /\ orbits' = <<>>
  /\ pc' = "nauty"
  /\ UNCHANGED <<n, engine, maintain, base, level, cache>>

(* `auto_callback`: the part of the vertex permutation on the columns. *)
ColumnPart(perm) == [j \in 0 .. Cardinality(DOMAIN perm) - left - 1 |-> perm[j + left] - left]

(***************************************************************************)
(* nauty reports an automorphism that is not generated yet and fixes as    *)
(* many first columns as any such one; `to` is where the next one goes.    *)
(***************************************************************************)
Reports(to) ==
  LET new == {d \in Columns : Fixing(d) \ found # {}}
      d == Max(new)
      candidates == {sigma \in Fixing(d) \ found : sigma[d] = to}
      sigma == CHOOSE s \in candidates : TRUE
  IN /\ pc = "nauty" /\ new # {}
     /\ candidates # {}
     /\ found' = Closure(found, found \cup {sigma}, n)
     /\ buffer' = Append(buffer, ColumnPart(VertexPerm(sigma)))
     /\ UNCHANGED <<n, engine, maintain, pc, code, wantLabel, words, left, label,
                    gens, order, orbits, base, level, cache, calls>>

OnSmallGraph == CollectLowWeightCodewords(code) # {}

NautyReports(to) == (OnSmallGraph => engine # "Traces") /\ Reports(to)

(* `auto_callback_traces`, of another signature. *)
TracesReports(to) == OnSmallGraph /\ engine = "Traces" /\ Reports(to)

(***************************************************************************)
(* An engine returns.  The buffer is taken, and the part of the vertex     *)
(* orbits on the columns; an orbit is named by its smallest vertex.        *)
(***************************************************************************)
Returns(getCanon) ==
  /\ pc = "nauty" /\ found = GraphAut
  /\ label' = IF getCanon THEN ColumnOrder(CanonicalLab) ELSE <<>>
  /\ orbits' = [j \in Columns |-> left + Min({sigma[j] : sigma \in found})]
  /\ gens' = buffer /\ buffer' = <<>>
  /\ order' = 1 /\ base' = 0 /\ level' = ToSet(buffer)
  /\ pc' = "order"
  /\ UNCHANGED <<n, engine, maintain, code, wantLabel, words, left, found, cache, calls>>

(* `canon_info_native`: the graph of all words. *)
FullReturns == ~ OnSmallGraph /\ Returns(wantLabel)

(* `canon_info_qd_native` *)
SparseReturns == OnSmallGraph /\ engine = "sparsenauty" /\ Returns(wantLabel)

(* The experimental engines compute the labelling whoever asks. *)
DenseReturns == OnSmallGraph /\ engine = "densenauty" /\ Returns(TRUE)

TracesReturns == OnSmallGraph /\ engine = "Traces" /\ Returns(TRUE)

AfterOrder == IF maintain THEN "store" ELSE "answered"

(* `aut_order_exact`: a small order is nauty's own. *)
TrustFloat ==
  /\ pc = "order" /\ base = 0 /\ Cardinality(found) < FloatLimit
  /\ order' = Cardinality(found)
  /\ level' = {}
  /\ pc' = AfterOrder
  /\ UNCHANGED <<n, engine, maintain, code, wantLabel, words, buffer, left, found,
                 label, gens, orbits, base, cache, calls>>

(***************************************************************************)
(* One base point of `group_order`: the orbit's size is a factor, and a    *)
(* non-trivial orbit replaces the generators by those of the stabiliser.   *)
(***************************************************************************)
SchreierLevel ==
  LET t == Transversal(base, level, n)
      orbit == DOMAIN t
      stabiliser == SchreierGenerators(t, level, n)
      last == base = n - 1 \/ level = {} \/ (Cardinality(orbit) > 1 /\ stabiliser = {})
  IN /\ pc = "order" /\ Cardinality(found) >= FloatLimit
     /\ order' = order * Cardinality(orbit)
     /\ level' = IF last THEN {} ELSE IF Cardinality(orbit) = 1 THEN level ELSE stabiliser
     /\ base' = IF last THEN 0 ELSE base + 1
     /\ pc' = IF last THEN AfterOrder ELSE "order"
     /\ UNCHANGED <<n, engine, maintain, code, wantLabel, words, buffer, left, found,
                    label, gens, orbits, cache, calls>>

Bucket == IF WeightEnum(code) \in DOMAIN cache THEN cache[WeightEnum(code)] ELSE <<>>

(* Mutant: out of the columns of the canonical form instead of into them. *)
ConjugatedBackwards(g, sigma) == Compose(InverseOf(sigma), Compose(g, sigma))

(* Into the columns of the canonical form. *)
Conjugated(g, sigma) == Compose(sigma, Compose(g, InverseOf(sigma)))

(* An equivalent code is already in its bucket, or the entry is added. *)
Store ==
  LET canonical == CanonicalForm(code, label)
      moved == [i \in DOMAIN gens |-> Conjugated(gens[i], label)]
      entry == [canonical |-> canonical, canonical_column_order |-> Identity(n),
                aut_generators |-> moved, aut_order |-> order,
                column_orbits |-> ComputeColumnOrbits(ToSet(moved), n)]
      known == \E i \in DOMAIN Bucket : Bucket[i].canonical = canonical
  IN /\ pc = "store"
     /\ cache' = [key \in DOMAIN cache \cup {WeightEnum(code)} |->
                    IF key # WeightEnum(code) THEN cache[key]
                    ELSE IF known THEN Bucket ELSE Append(Bucket, entry)]
     /\ pc' = "answered"
     /\ UNCHANGED <<n, engine, maintain, code, wantLabel, words, buffer, left, found,
                    label, gens, order, orbits, base, level, calls>>

KernelNext ==
  \/ \E C \in Requests[n], needLabel \in BOOLEAN : Call(C, needLabel)
  \/ \E to \in Columns : NautyReports(to) \/ TracesReports(to)
  \/ FullReturns
  \/ SparseReturns
  \/ DenseReturns
  \/ TracesReturns
  \/ TrustFloat
  \/ SchreierLevel
  \/ Store

-----------------------------------------------------------------------------
(***************************************************************************)
(* What canon_info returns is right, whichever graph it was found on and   *)
(* whatever calls came before: the generators, cut to the columns,         *)
(* generate the automorphism group of the code, the order is that of the   *)
(* group, from the float or from the stabiliser chain, and two columns     *)
(* have the same orbit exactly if an automorphism takes one to the other.  *)
(***************************************************************************)
InfoIsExact ==
  pc \in {"store", "answered"} =>
    LET group == AutOf(code, n)
    IN /\ Generated(ToSet(gens), n) = group
       /\ order = Cardinality(group)
       /\ \A i, j \in Columns :
            orbits[i] = orbits[j] <=> \E sigma \in group : sigma[i] = j

(***************************************************************************)
(* The secondary cache holds, for every bucket, codes of its weight        *)
(* enumerator, no two of them equivalent, and for each one its own group,  *)
(* order and orbits, though all were computed for an equivalent code.      *)
(***************************************************************************)
CacheIsExact ==
  \A key \in DOMAIN cache :
    \A i \in DOMAIN cache[key] :
      LET entry == cache[key][i]
          group == AutOf(entry.canonical, n)
      IN /\ WeightEnum(entry.canonical) = key
         /\ Generated(ToSet(entry.aut_generators), n) = group
         /\ entry.aut_order = Cardinality(group)
         /\ entry.column_orbits = [j \in Columns |-> Min({sigma[j] : sigma \in group})]
         /\ \A h \in 1 .. i - 1 : \A sigma \in ColumnPerms :
               MovedSet(entry.canonical, sigma) # cache[key][h].canonical

=============================================================================

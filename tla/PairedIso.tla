------------------------------- MODULE PairedIso -------------------------------
(***************************************************************************)
(* The dormant verifier of the secondary cache.  Two codes are refined     *)
(* side by side: `paired_iso` takes a column of the first one out and      *)
(* tries every column of the second that it could go to, and the weaker    *)
(* `paired_iso_equitable` decides only if refinement alone singles out     *)
(* every column.  A hit in a bucket yields the answer for the new code     *)
(* from the entry of the old one.                                          *)
(***************************************************************************)
EXTENDS CanonState, PartitionRefinement

CONSTANTS
  Questions, \* [lengths -> sets of codes asked about, as RREF rows]
  Known      \* [lengths -> sets of codes that have an entry in the cache]

VARIABLES
  d,         \* the code asked about
  bucket,    \* the entries of the codes with its weight enumerator
  verdicts,  \* the outcomes of the equitable test, one for every entry scanned
  info,      \* on a hit, the `CachedInfo` made for d
  witnesses  \* what `paired_iso` says of the entries

onlyVerifier == <<d, bucket, verdicts, info, witnesses>>

None == <<>>

-----------------------------------------------------------------------------
(* `weight_multiset` *)
WeightMultiset(rows) ==
  [w \in {Weight(v) : v \in AllWords(rows)} |-> Cardinality({v \in AllWords(rows) : Weight(v) = w})]

SameShape(p, q) ==
  Len(p) = Len(q) /\ \A i \in DOMAIN p : Cardinality(p[i]) = Cardinality(q[i])

SamePrefix(a, b) == \A i \in DOMAIN a \cap DOMAIN b : a[i] = b[i]

The(cell) == CHOOSE c \in cell : TRUE

(* The column of cell i to that of cell i. *)
Witness(p, q) ==
  [c \in UNION ToSet(p) |-> The(q[CHOOSE i \in DOMAIN p : c \in p[i]])]

(***************************************************************************)
(* Absorb the single columns of both sides in lockstep, until the keys     *)
(* differ on their common prefix.                                          *)
(***************************************************************************)
AbsorbBoth(p, q, partial_d, partial_cf) ==
  LET single == SelectSeq([i \in DOMAIN p |-> i], LAMBDA i : Cardinality(p[i]) = 1)
      new(x, cell) == IF cell \subseteq x.part.absorbed THEN x ELSE Absorb(x, The(cell))
      step(x, i) == IF SamePrefix(x.d.part.key, x.cf.part.key)
                    THEN [d |-> new(x.d, p[i]), cf |-> new(x.cf, q[i])] ELSE x
  IN FoldLeft(step, [d |-> [part |-> partial_d, log |-> <<>>], cf |-> [part |-> partial_cf, log |-> <<>>]],
              single)

(***************************************************************************)
(* `paired_search`: the witness, or None, and the two keys, each restored  *)
(* to what it was on entry.                                                *)
(***************************************************************************)
PairedSearch(initial_d, initial_cf, refiners_d, refiners_cf, key_d, key_cf, m) ==
  LET Partitions == Seq(SUBSET (0 .. m - 1))
      search[p_d \in Partitions, p_cf \in Partitions,
             partial_d \in PartialKeys(m), partial_cf \in PartialKeys(m)] ==
        LET restored(x, y) ==
              [witness |-> y.witness, d |-> Restore(y.d, Snapshot(partial_d), x.d.log),
               cf |-> Restore(y.cf, Snapshot(partial_cf), x.cf.log)]
            branched(y, p, q, c) ==
              LET child(z, to) ==
                    IF z.witness # None THEN z
                    ELSE search[Individualise(p, c, Min(p[c])), Individualise(q, c, to), z.d, z.cf]
              IN FoldLeft(child, y, SetToSortSeq(q[c], <))
            absorbed(p, q, x) ==
              LET y == [witness |-> None, d |-> x.d.part, cf |-> x.cf.part]
              IN IF ~SamePrefix(y.d.key, y.cf.key) THEN restored(x, y)
                 ELSE IF ~Columnwise(p)
                      THEN restored(x, branched(y, p, q, Min({i \in DOMAIN p : Cardinality(p[i]) > 1})))
                      ELSE restored(x, IF y.d.key = y.cf.key THEN [y EXCEPT !.witness = Witness(p, q)] ELSE y)
            refined(p, q) ==
              IF ~SameShape(p, q) THEN [witness |-> None, d |-> partial_d, cf |-> partial_cf]
              ELSE absorbed(p, q, AbsorbBoth(p, q, partial_d, partial_cf))
        IN refined(Refine(p_d, refiners_d), Refine(p_cf, refiners_cf))
  IN search[initial_d, initial_cf, key_d, key_cf]

(* `PairedIsoCachedCf` *)
CachedCf(cf, m) ==
  [rref |-> cf, refiners |-> InvariantRefiners(cf), initial_p |-> InitialPartition(cf, m)]

PairedIsoWithCached(rows, cf, m) ==
  LET refiners == InvariantRefiners(rows)
  IN IF Len(rows) # Len(cf.rref) THEN None
     ELSE IF Len(rows) \in {0, m} THEN Identity(m)
     ELSE IF Cardinality(refiners) # Cardinality(cf.refiners) THEN None
     ELSE PairedSearch(InitialPartition(rows, m), cf.initial_p, refiners, cf.refiners,
                       NewPartialKey(rows), NewPartialKey(cf.rref), m).witness

PairedIso(rows, cf, m) ==
  IF Len(rows) # Len(cf) THEN None
  ELSE IF Len(rows) \in {0, m} THEN Identity(m)
  ELSE IF WeightMultiset(rows) # WeightMultiset(cf) THEN None
  ELSE PairedIsoWithCached(rows, CachedCf(cf, m), m)

(***************************************************************************)
(* `paired_iso_equitable`: refinement alone, on both sides.                *)
(***************************************************************************)
PairedIsoEquitable(rows, cf, m) ==
  LET refiners == InvariantRefiners(rows)
      p == Refine(InitialPartition(rows, m), refiners)
      q == Refine(cf.initial_p, cf.refiners)
      key(r, cells) ==
        FoldLeft(LAMBDA x, cell : Absorb(x, The(cell)),
                 [part |-> NewPartialKey(r), log |-> <<>>], cells).part.key
      notIso == [verdict |-> "NotIso"]
  IN IF Len(rows) # Len(cf.rref) THEN notIso
     ELSE IF Len(rows) \in {0, m} THEN [verdict |-> "Iso", pi |-> Identity(m)]
     ELSE IF Cardinality(refiners) # Cardinality(cf.refiners) \/ ~SameShape(p, q) THEN notIso
     ELSE IF ~Columnwise(p) THEN [verdict |-> "Inconclusive"]
     ELSE IF key(rows, p) # key(cf.rref, q) THEN notIso
     ELSE [verdict |-> "Iso", pi |-> Witness(p, q)]

(* Mutant: into the columns of the entry instead of out of them. *)
ReconstructForwards(entry, pi) ==
  LET moved == {Compose(pi, Compose(g, InverseOf(pi))) : g \in entry.aut_generators}
  IN [canonical_column_order |-> Compose(entry.canonical_column_order, pi),
      aut_generators |-> moved, aut_order |-> entry.aut_order,
      column_orbits |-> ComputeColumnOrbits(moved, Cardinality(DOMAIN pi))]

(* `reconstruct_*`: out of the columns of the entry into those of d. *)
Reconstruct(entry, pi) ==
  LET moved == {Compose(InverseOf(pi), Compose(g, pi)) : g \in entry.aut_generators}
  IN [canonical_column_order |-> Compose(entry.canonical_column_order, pi),
      aut_generators |-> moved, aut_order |-> entry.aut_order,
      column_orbits |-> ComputeColumnOrbits(moved, Cardinality(DOMAIN pi))]

-----------------------------------------------------------------------------
(* The secondary cache files an entry in the columns of its canonical form. *)
Entry(cf, m) ==
  [canonical |-> cf, cached_cf |-> CachedCf(cf, m), canonical_column_order |-> Identity(m),
   aut_generators |-> AutOf(AllWords(cf), m), aut_order |-> Cardinality(AutOf(AllWords(cf), m))]

(* `pc` is "dispatch", "hit", "miss" or "compared". *)
VerifierInit ==
  /\ n \in DOMAIN Questions
  /\ d \in Questions[n]
  /\ bucket = LET same == {cf \in Known[n] : WeightMultiset(cf) = WeightMultiset(d)}
              IN [i \in 1 .. Cardinality(same) |-> Entry(SetToSeq(same)[i], n)]
  /\ pc = "dispatch" /\ verdicts = <<>> /\ info = None /\ witnesses = <<>>

(* `try_dispatch`, one entry: a hit ends the scan with an answer for d. *)
Probe ==
  LET entry == bucket[Len(verdicts) + 1]
      outcome == PairedIsoEquitable(d, entry.cached_cf, n)
  IN /\ pc = "dispatch" /\ Len(verdicts) < Len(bucket)
     /\ verdicts' = Append(verdicts, outcome)
     /\ IF outcome.verdict = "Iso"
        THEN info' = Reconstruct(entry, outcome.pi) /\ pc' = "hit"
        ELSE UNCHANGED <<info, pc>>
     /\ UNCHANGED <<n, d, bucket, witnesses>>

(* The scan ends without a hit and the caller turns to nauty. *)
Miss ==
  /\ pc = "dispatch" /\ Len(verdicts) = Len(bucket)
  /\ pc' = "miss"
  /\ UNCHANGED <<n, d, bucket, verdicts, info, witnesses>>

(* The full test against the entries, and against all known codes. *)
Compare ==
  /\ pc \in {"hit", "miss"}
  /\ witnesses' = [cf \in Known[n] |-> PairedIso(d, cf, n)]
  /\ pc' = "compared"
  /\ UNCHANGED <<n, d, bucket, verdicts, info>>

VerifierNext == Probe \/ Miss \/ Compare

-----------------------------------------------------------------------------
Transports(pi, cf) == MovedSet(AllWords(d), pi) = AllWords(cf)

Equivalent(cf) == \E sigma \in ColumnPerms : Transports(sigma, cf)

(* The answer is that of canon_info for d. *)
ExactFor(made, cf) ==
  LET group == AutOf(AllWords(d), n)
  IN /\ Transports(made.canonical_column_order, cf)
     /\ Generated(made.aut_generators, n) = group
     /\ made.aut_order = Cardinality(group)
     /\ made.column_orbits = [j \in 0 .. n - 1 |-> Min({sigma[j] : sigma \in group})]

(***************************************************************************)
(* The verifier may replace nauty.  The equitable test is never wrong: an  *)
(* entry it refuses is not equivalent, and an entry it hits gives the      *)
(* exact answer for d.  The full test is never undecided: it has a witness *)
(* exactly for the equivalent codes, and from that the exact answer.       *)
(***************************************************************************)
VerifierIsExact ==
  /\ \A i \in DOMAIN verdicts :
       verdicts[i].verdict = "NotIso" => ~Equivalent(bucket[i].canonical)
  /\ pc = "hit" => ExactFor(info, bucket[Len(verdicts)].canonical)
  /\ pc = "compared" =>
       \A cf \in Known[n] :
         IF witnesses[cf] = None THEN ~Equivalent(cf)
         ELSE ExactFor(Reconstruct(Entry(cf, n), witnesses[cf]), cf)

=============================================================================

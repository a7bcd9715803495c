---------------------------- MODULE Augmentation ----------------------------
(***************************************************************************)
(* The recursion that enumerates the doubly even codes of length n up to   *)
(* column permutations, down to what it is made of: `traverse` writes a    *)
(* code out, adds its labelled mass, generates the candidates for one more *)
(* row up to automorphisms, and recurses into those children whose         *)
(* canonical parent is the code it came from.  A parent rule decides that, *)
(* and a mass-stop skips what the mass formula says cannot be new.         *)
(*                                                                         *)
(* In the parallel driver a seeder walks down to the frontier and leaves    *)
(* the codes there for the workers; here one subtree is walked at a time,  *)
(* in any order.  How threads really share the tree is ParallelEnumerator's *)
(* subject, and that the coset-spectrum cascade computes the argmin set is *)
(* PhiCascade's.  nauty is external: it is asked for the automorphism      *)
(* group and for a canonical labelling, and answers here from a list of    *)
(* class representatives.                                                  *)
(***************************************************************************)
EXTENDS ParentRule, MassFormula, U256

CONSTANTS
  Reps,    (* one code of each class that occurs, on a prefix of the columns *)
  Runs     (* what a run may be asked for: records with the fields below     *)

ASSUME RunsAssumption ==
  \A r \in Runs :
    /\ r.n \in Nat /\ r.maxK \in 0 .. r.n \div 2
    /\ r.phiRank \in Nat                              (* max_rank of phi    *)
    /\ r.massStop \in BOOLEAN                         (* ~ skip_mass_stop   *)
    /\ r.frontier \in {0} \cup 2 .. r.maxK - 1       (* 0: run_sequential  *)
    /\ r.frame \in [0 .. r.n - 1 -> 0 .. r.n - 1]     (* see Label          *)

VARIABLES
  run,      (* the run's parameters                                         *)
  frames,   (* the open frames of traverse: the code and its CachedInfo,    *)
            (* and after the head its candidates yet to be tested           *)
  seeds,    (* frames sent to the workers and not yet taken                 *)
  output,   (* the classes written out                                      *)
  quota,    (* what Python asks for, as the driver has parsed it            *)
  mass,     (* mass_at_k                                                    *)
  reported, (* the masses that Python gets back                             *)
  outcome   (* running, returned or panicked                                *)

vars == <<run, frames, seeds, output, quota, mass, reported, outcome>>

n == run.n
Top == Last(frames)
C == Top.code.rref
k == Len(C)

-----------------------------------------------------------------------------
(* nauty.  The type of a column says which basis rows have a one in it; an  *)
(* isomorphism of codes maps types linearly and keeps multiplicities.       *)

Type(D, j) == {i - 1 : i \in {h \in DOMAIN D : j \in D[h]}}

Columns(D, t) == {j \in 0 .. n - 1 : Type(D, j) = t}

Typed(D) == {<<j, Type(D, j)>> : j \in 0 .. n - 1}

Multiplicity(typed, t) == Cardinality({c \in typed : c[2] = t})

(* The linear maps of types, by the images of the unit types, that map the  *)
(* columns of D to those of E.                                              *)
RowMaps(D, E) ==
  LET ofD == Typed(D)
      ofE == Typed(E)
      fits(m, i) == \A t \in SUBSET (0 .. i - 1) :
                      LET image == Combination(m, t \cup {i})
                      IN image # Zero /\ Multiplicity(ofE, image) = Multiplicity(ofD, t \cup {i})
      maps[i \in 0 .. Len(D)] ==
        IF i = 0 THEN {<<>>}
        ELSE {m \in {Append(s, c[2]) : s \in maps[i - 1], c \in ofE} : fits(m, i - 1)}
  IN IF Len(D) = Len(E) THEN maps[Len(D)] ELSE {}

Binomial(i, j) ==
  LET upTo[h \in 0 .. j] == IF h = 0 THEN 1 ELSE (upTo[h - 1] * (i - j + h)) \div h
  IN upTo[j]

(* The i-th column of a type goes to the i-th column of the type's image.   *)
Carry(D, E, m) ==
  LET before(F, j) == Cardinality({h \in Columns(F, Type(F, j)) : h < j})
  IN [j \in 0 .. n - 1 |->
        CHOOSE c \in Columns(E, Combination(m, Type(D, j))) : before(E, c) = before(D, j)]

Swap(i, j) == [h \in 0 .. n - 1 |-> IF h = i THEN j ELSE IF h = j THEN i ELSE h]

(* A strong generating set: for each row a map that fixes the rows before   *)
(* it, for each image it can have; and the exchanges of equal columns.      *)
AutGenerators(D) ==
  LET maps == RowMaps(D, D)
      unit(m, i) == \A h \in 1 .. i - 1 : m[h] = {h - 1}
      rows == UNION {LET fixing == {m \in maps : unit(m, i)}
                     IN {CHOOSE m \in fixing : m[i] = t : t \in {m[i] : m \in fixing} \ {{i - 1}}}
                     : i \in DOMAIN D}
  IN {Carry(D, D, m) : m \in rows}
       \cup {Swap(p[1], p[2]) :
               p \in {q \in (0 .. n - 1) \X (0 .. n - 1) :
                        q[1] < q[2] /\ Type(D, q[1]) = Type(D, q[2])
                        /\ \A h \in q[1] + 1 .. q[2] - 1 : Type(D, h) # Type(D, q[1])}}

(* n! / |Aut(D)|, the labelled codes of D's class; the factorials that the  *)
(* columns' multiplicities put into |Aut(D)| are cancelled first.           *)
LabelledCount(D) ==
  LET typed == Typed(D)
      place(t, placed) ==
        [left |-> placed.left - Multiplicity(typed, t),
         ways |-> placed.ways * Binomial(placed.left, Multiplicity(typed, t))]
  IN FoldSet(place, [left |-> n, ways |-> 1], {c[2] : c \in typed}).ways
       \div Cardinality(RowMaps(D, D))

Representative(D) == CHOOSE E \in Reps : UNION ToSet(E) \subseteq 0 .. n - 1 /\ RowMaps(D, E) # {}

(* A canonical labelling takes the codes of a class to one code.  Which one *)
(* that is, is nauty's affair: the representative, its columns reordered by *)
(* the run's frame.                                                         *)
Label(D) ==
  LET E == Representative(D)
      toE == Carry(D, E, CHOOSE m \in RowMaps(D, E) : TRUE)
  IN [j \in 0 .. n - 1 |-> run.frame[toE[j]]]

-----------------------------------------------------------------------------
(* The candidates for one more row, up to automorphisms of C.               *)

(* Under S_n weight decides, so C = {0} needs one word of each.             *)
PrefixCandidates == [l \in 1 .. n \div 4 |-> 0 .. 4 * l - 1]

(* C is spanned by the word of the first four-l columns.                    *)
Young == k = 1 /\ Weight(C[1]) >= 4 /\ Weight(C[1]) % 4 = 0 /\ C[1] = 0 .. Weight(C[1]) - 1

(* How many of its ones lie inside the word and how many outside.           *)
YoungShapes(fourL) ==
  {s \in (0 .. fourL \div 2) \X (0 .. n - fourL) :
     s[1] % 2 = 0 /\ s[2] % 2 = 0 /\ (s[1] + s[2]) % 4 = 0 /\ s # <<0, 0>>}

YoungCandidates ==
  LET word(s) == (0 .. s[1] - 1) \cup (Weight(C[1]) .. Weight(C[1]) + s[2] - 1)
  IN Ascending({IF 0 \in word(s) THEN Xor(word(s), C[1]) ELSE word(s) : s \in YoungShapes(Weight(C[1]))})

(* Mutant: every element of S is taken for an orbit of its own.             *)
MinimaOfAll(S, matrices) == S

(* The least element of each orbit in S.                                    *)
OrbitMinima(S, matrices) ==
  LET images(words) == {Combination(matrices[g], u) : g \in DOMAIN matrices, u \in words}
      reached[seen \in SUBSET S, queue \in SUBSET S] ==
        LET next == images(queue) \ seen
        IN IF next = {} THEN seen ELSE reached[seen \cup next, next]
      minima[left \in SUBSET S] ==
        IF left = {} THEN {}
        ELSE LET least == CHOOSE u \in left : \A w \in left : ~ Below(w, u)
             IN {least} \cup minima[left \ reached[{least}, {least}]]
  IN minima[S]

QuotientCandidates(generators) ==
  LET V == QBasis(Top.code, n)
      singular == {u \in SUBSET (0 .. Len(V.rref) - 1) :
                     u # Zero /\ Weight(Combination(V.rref, u)) % 4 = 0}
      matrices == AutImageOnQ([g \in generators |-> g], Top.code, V)
  IN Ascending({Combination(V.rref, u) : u \in OrbitMinima(singular, matrices)})

DoublyEvenCandidates ==
  IF k = 0 THEN PrefixCandidates
  ELSE IF Young THEN YoungCandidates
  ELSE QuotientCandidates(Top.info.generators)

-----------------------------------------------------------------------------
(* test_candidate: is C the canonical parent of D = <C, v>?                 *)

(* canon_info, and the class that the representatives name.                 *)
Info(D) == [labelled |-> LabelledCount(D), generators |-> AutGenerators(D), class |-> Representative(D)]

Frame(code) == [code |-> code, info |-> Info(code.rref), entered |-> FALSE, todo |-> <<>>]

Child(v) == Frame(RowReduce(Append(C, v), n))

(* A sole minimum is decided without nauty, a tie with it.                  *)
PhiAccepts(v, child) ==
  LET argmin == PhiArgmin(C, v, n)
  IN /\ Own(C) \in argmin
     /\ \/ argmin = {Own(C)}
        \/ SubspaceInOrbit(C, TieBreakParent(C, v, n, argmin, Label(child.code.rref)),
                           child.info.generators, n)

WeightEnum(rows) ==
  {<<x, Weight(Combination(rows, x))>> : x \in SUBSET (0 .. Len(rows) - 1)}

SameWeights(rows, others) ==
  \A w \in 0 .. n : Cardinality({p \in WeightEnum(rows) : p[2] = w})
                     = Cardinality({p \in WeightEnum(others) : p[2] = w})

IsCanonicalAugmentation(child) ==
  LET parent == CanonicalParent(child.code.rref, Label(child.code.rref), n)
  IN \/ C = parent
     \/ /\ SameWeights(C, parent)
        /\ SubspaceInOrbit(C, parent, child.info.generators, n)

Accepts(v, child) ==
  IF k + 1 <= run.phiRank THEN PhiAccepts(v, child) ELSE IsCanonicalAugmentation(child)

-----------------------------------------------------------------------------
(* The quotas come as decimal strings, which is all that holds them beyond  *)
(* length 29.                                                               *)
Quota == [rank \in 0 .. run.maxK |-> FromDecimal(Digits(GaboritSigma(n, rank)))]

(* Workers of the parallel driver leave the comparison to the tracker.      *)
LocalQuota(rank) == IF run.frontier = 0 THEN quota[rank] ELSE MAX

Init ==
  /\ run \in Runs
  /\ frames = <<Frame(RowReduce(<<>>, n))>>
  /\ seeds = {}
  /\ output = <<>>
  /\ quota = Quota
  /\ mass = [rank \in 0 .. run.maxK |-> ZERO]
  /\ reported = <<>>
  /\ outcome = "running"

Walking == outcome = "running" /\ frames # <<>>

(* traverse_seed walks above the frontier, and there is no mass-stop.       *)
Seeding == k < run.frontier

(* next_rank_full, unless the run ignores it.                               *)
MassStop(m) == run.massStop /\ ~ Seeding /\ ~ Less(m[k + 1], quota[k + 1])

GoesOn(m) == k < run.maxK /\ ~ MassStop(m)

Return == frames' = Front(frames)

Overflows == AddOverflows(mass[k], FromU128(Top.info.labelled))

(* The head of traverse: the class is written out and its mass added, which *)
(* panics above the quota, "mass exceeded quota", or beyond 256 bits.       *)
Emit ==
  /\ Walking /\ ~ Top.entered
  /\ output' = Append(output, [rref |-> C, class |-> Top.info.class])
  /\ mass' = [mass EXCEPT ![k] = AddU128(@, Top.info.labelled)]
  /\ outcome' = IF Overflows \/ Less(LocalQuota(k), mass'[k]) THEN "panicked" ELSE outcome
  /\ UNCHANGED <<run, seeds, quota, reported>>

EmitAndReturn == Emit /\ ~ GoesOn(mass') /\ Return

EmitAndGenerate ==
  /\ Emit
  /\ GoesOn(mass')
  /\ frames' = [frames EXCEPT ![Len(frames)] =
                  [@ EXCEPT !.entered = TRUE, !.todo = DoublyEvenCandidates]]

InLoop == Walking /\ Top.entered /\ UNCHANGED <<run, output, quota, mass, reported, outcome>>

StopInLoop == InLoop /\ Top.todo # <<>> /\ MassStop(mass) /\ Return /\ UNCHANGED seeds

Moving == [frames EXCEPT ![Len(frames)].todo = Tail(@)]

TestCandidate ==
  /\ InLoop /\ Top.todo # <<>> /\ ~ MassStop(mass)
  /\ LET child == Child(Head(Top.todo))
         accepted == Accepts(Head(Top.todo), child)
         seed == Seeding /\ k + 1 = run.frontier
     IN \/ accepted /\ ~ seed /\ frames' = Append(Moving, child) /\ UNCHANGED seeds
        \/ accepted /\ seed /\ frames' = Moving /\ seeds' = seeds \cup {child}
        \/ ~ accepted /\ frames' = Moving /\ UNCHANGED seeds

LoopDone == InLoop /\ Top.todo = <<>> /\ Return /\ UNCHANGED seeds

TakeSeed ==
  /\ outcome = "running" /\ frames = <<>>
  /\ \E seed \in seeds : frames' = <<seed>> /\ seeds' = seeds \ {seed}
  /\ UNCHANGED <<run, output, quota, mass, reported, outcome>>

(* The outermost call has returned to its driver.                           *)
Finish ==
  /\ outcome = "running" /\ frames = <<>> /\ seeds = {}
  /\ outcome' = "returned"
  /\ reported' = [rank \in DOMAIN mass |-> Display(mass[rank])]
  /\ UNCHANGED <<run, frames, seeds, output, quota, mass>>

Next ==
  \/ EmitAndReturn \/ EmitAndGenerate
  \/ StopInLoop \/ TestCandidate \/ LoopDone
  \/ TakeSeed \/ Finish

Spec == Init /\ [][Next]_vars

-----------------------------------------------------------------------------
(* No class is written out twice: two candidates of one code that some      *)
(* automorphism exchanges, or one code reached from two parents, would do   *)
(* it.                                                                      *)
OnePerClass ==
  \A i, j \in DOMAIN output : i # j => output[i].class # output[j].class

(* A run that returns has found every class, and the masses it reports are  *)
(* the digits of the number of labelled codes that the mass formula gives:  *)
(* whichever parent rule decided, up to whichever rank, whichever canonical *)
(* labelling nauty chose, whatever the mass-stop skipped, and although sums *)
(* that need both halves are parsed, added up, compared and printed.        *)
Complete ==
  outcome = "returned" =>
    /\ \A rank \in 0 .. run.maxK : reported[rank] = Digits(GaboritSigma(n, rank))
    /\ {output[i].class : i \in DOMAIN output} =
         {E \in Reps : Len(E) <= run.maxK /\ UNION ToSet(E) \subseteq 0 .. n - 1}

(* The mass never runs over the quota, so the panic in traverse is for      *)
(* broken code only.                                                        *)
QuotaHolds == outcome # "panicked"

=============================================================================

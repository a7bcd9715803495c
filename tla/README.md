# TLA+ for doubly-even

`doubly-even` lists the doubly even binary codes of length n up to column
permutations. A Rust kernel (`rust/core`) walks a generation tree by canonical
augmentation, in one thread or in many; Python (`src/doubly_even`) provides the
mass formula, the command line, the readers of what the kernel writes and a
slow reference implementation.

This directory holds TLA+ modules translated from the source, TLC
configurations that check them on small instances, and eight modules of proofs
that TLAPS checks for every value of the constants. `PROJECT.json` gives, for every
definition, the lines of source it stands for; the mutants it lists are plausible
bugs, each of which breaks the property it is listed with.

Paths below are relative to the repository; `drivers.rs`, `worker.rs` and
`cache.rs` are in `rust/core/src/enumerate/`; `feulner.rs`, `feulner_clb.rs`,
`paired_iso.rs`, `verifier_dispatch.rs` and `invariants.rs` in `rust/core/src/experimental/`; the other Rust files in
`rust/core/src/`.

## How the system works

A code C of rank k is extended by one word v to D = <C, v>. `candidates.rs`
lists the words v worth trying, one for each orbit of C's automorphism group on
the doubly even words of the quotient C^⊥ / C. D is kept only if C is the
*canonical parent* of D, so that D is reached from one place. Two rules decide
that: the coset-spectrum rule φ (`parent_rule.rs`), which compares weight
distributions and needs nauty only to break ties, and the label-based rule
(`worker.rs`), which asks nauty for a canonical labelling of each child. Each
kept code contributes n!/|Aut| to the mass of its rank; the mass formula says
what each rank must add up to, so the walk stops early when a rank is full
(*mass-stop*) and the drivers refuse a result whose mass is wrong (*the gate*).

In parallel the main thread, the *seeder*, walks down to a frontier rank and
sends the codes it meets there over a bounded channel; workers walk the subtrees
and may donate accepted children to idle peers through the same channel. All
threads report mass in batches to a shared tracker. A counts-only run publishes
the tracker in `progress.json` through a watcher thread, and `dec progress`
shows it. While the seeder works alone its largest step, the orbit search over
the quotient, is shared with a pool of helper threads.

Beside the default nauty engine the source keeps experiments that may stand in
for it or are measured against it: two other engines, a partition backtrack of
its own, a verifier that recognises a code from one already labelled, and a set
of cheap invariants.

## Inventory

| Component | State it keeps | Operations | Correct when | Module |
|---|---|---|---|---|
| Parallel drivers (`drivers.rs`, `worker.rs`) | task channel, result channel, per-thread DFS stacks and outputs | `traverse`, `traverse_seed`, `run_worker_loop`, flush, collect, join, gate | every class is output once, by one thread; the driver returns them all or panics; it does not wait for ever | ParallelEnumerator |
| Load balancer | `idle_workers`, `outstanding`, `seeder_done` | reserve, `try_send`, roll back, release, two-counter exit test | `outstanding` counts exactly the seeds in existence; nobody leaves early; everybody leaves | ParallelEnumerator |
| Shared mass tracker | mass and `full` flag of each rank; per-thread batches | `contribute_global_mass`, `flush_global_mass`, `add_batch`, `is_full`, `snapshot` | mass is neither lost nor counted twice; a flag means the rank is complete | ParallelEnumerator, CountsProgress |
| Sequential recursion | DFS frames, output, mass | `traverse` | one code of each class, all classes, masses that meet the formula | Augmentation |
| Parent rules (`parent_rule.rs`, `worker.rs`, `subspace_orbit.rs`) | per-parent φ context, recycled by a thread-local pool | cascade, E-chain, tie-break; canonical parent, orbit of subspaces | isomorphic children name the same orbit of hyperplanes; cached tables are those of the parent at hand | ParentRule, PhiCascade |
| Candidates and quotient (`candidates.rs`, `quotient.rs`, `linalg.rs`, `orbit.rs`) | none that survives a call | reduction, basis of C^⊥/C, matrices of generators, Gray walk, orbit minima by one of four kernels, closed forms | one candidate for each orbit; every kernel returns the same list | F2Vectors, Quotient, OrbitScan, SeederPool, Augmentation |
| Seeder helper pool (`seeder_pool.rs`, `orbit.rs`) | task and result channels, atomic bitset | range split, walk part, level expansion, reassembly, drop | the list of the sequential search, in every interleaving; the pool can be dropped | SeederPool |
| Counts drivers and watcher (`drivers.rs`) | stop flag, `progress.json.tmp`, `progress.json` | snapshot, write, rename, stop and join, gate | readers never see half a file; progress only grows; the last snapshot is exact | CountsProgress |
| `dec progress` (`enumerate/progress.py`) | the last snapshot read | poll, parse, retry, exit at `done` | it ends | CountsProgress |
| Mass formula (`spec/mass.py`) | none | `gaborit_sigma` | equals the labelled count of the enumeration | MassFormula |
| Streaming files (`streaming.rs`) and their readers (`progress.py`, `merge_stream.py`, `run_streaming.py`) | one file per thread behind a `BufWriter`, `stats.json`, a tail's offset and counts | header, record, flush, finalize, tail pass, merge | a tail has counted whole records of a prefix; the last table is complete; a run the kernel returned from is accepted | Streaming |
| nauty interface (`canon.rs`, `qd_graph.rs`, `cache.rs`) | thread-local generator list and vertex count, secondary cache | choice of graph and engine (sparse, dense, Traces), callback, label, filing under the canonical form | the answer is Aut(C) and its exact order; one right cache entry per class | CanonState, CanonInfo, CanonBackends, CanonBackendsProofs; external in Augmentation |
| Permutation groups (`permutations.rs`) | none | compose, inverse, orbits, Schreier–Sims, `aut_order_exact` | the order is that of the generated group | ColumnPermutations, CanonInfo |
| 256-bit masses (`u256.rs`) | none | addition, subtraction, order, scalar product and division, decimal parsing and printing | exact, or a panic | U256, CountsProgressProofs; used in Augmentation |
| Decomposability log (`decomp.rs`) | union-find forest | support, components, twin classes | the components are the finest direct sum, whatever the basis | DirectSum, F2Proofs; called in PhiCascade |
| Partition backtrack (`feulner.rs`, `feulner_clb.rs`) | ordered partition, partial key with undo log, keys of leaves, labelled branching | refine, absorb, three cuts, branch, restore | one form for all arrangements of a code, only automorphisms | PartitionRefinement, Feulner |
| Equivalence verifier (`paired_iso.rs`, `verifier_dispatch.rs`, `cache.rs`) | bucket of the secondary cache | side-by-side refinement, search, reconstruction of an answer from a cached one | never a wrong hit, miss or answer | PairedIso |
| Invariants of the collision experiment (`invariants.rs`) | none | colour refinement, three counts | equal on equivalent codes | Invariants |
| Statistics, command line, run scripts, the Python reference and the clean-room version | | | not worth modelling: see the end | none |

How they meet: the drivers call `traverse`, which calls candidates, parent rule
and nauty (calls); threads meet in the two channels (messages), the balancer's
atomics and the tracker (shared state); the watcher and `dec progress` meet the
drivers only through the tracker and a file; so do the merge and the tails of a
streaming run.

What is hard about it: two counters read one after the other decide
termination; a flag set by other threads' mass makes a worker drop candidates; a
channel is bounded at both ends of a producer-consumer cycle; a thread may panic
anywhere; contexts are lazily filled, shared by siblings and recycled; the
argmin set is kept in three representations; the pool must reproduce a
sequential order out of racing threads. `PROJECT.json` lists the hazards at
their lines.

## Modules

**GenerationTree** declares the tree the drivers walk: classes, parents, ranks,
rejected candidates, masses and quotas, with the assumptions the source makes
of them (ranks grow by one, the quota is the sum of the masses).
**Enumeration** is the abstract promise: emit each class once, in any order
that emits a parent before its child, and return when all are out.

**ParallelEnumerator** is the in-memory and streaming parallel driver. One
action is one access to shared state with the local work around it. `pc` names
the places of `run_worker_loop`, `traverse` and the driver; `stack`, `cur` and
`todo` are the DFS frames; `queue`, `idle`, `outstanding`, `seederDone` the
balancer and its channel; `mass`, `full`, `pending`, `sinceFlush` the tracker
and the batches; `results` and `collected` the result channel. The hint loads
of `is_full` and `idle_workers` are relaxed: with `RelaxedReads` they may return
an older value (`MaySeeNotFull`, `MaySeeIdle`, `MaySeeNoIdle`). `WriterFails` is
the panic of a thread whose writer is refused; `CollectGivesUp`, `CollectFails`
and `SendFails` are what the main thread then meets.

**SeederPool** is a series of candidate searches that share a pool of helpers:
the caller's steps
(`SplitWalk`, `SendTask`, `ReceivePart`, `JoinWalk`, `SortReps`, `SkipRep`,
`NewMinimum`, `SplitLevel`, `JoinLevel`, `DropSender`, `JoinHelpers`) and each
helper's (`TakeTask`, `Claim`, one access to the bitset, `SendPart`, `Exit`).
A search below the pool's dimension is walked by the caller alone; the images of
a word are then looked up in byte tables (`ExpandByTables`, the four-Russians
method), computed bit by bit (`ExpandByWalk`), or read from a table over the
whole quotient (`ExpandByWholeTable`, which only the Python debug module and the
benchmarks call).
**OrbitScan** is what it promises: for each search, the minima of the orbits in
ascending order. The two are related by a refinement.

**CountsProgress** is the counts-only driver with its watcher and `dec
progress`. Each class has mass one and there is one rank, because only sums
matter here. A worker is in `recv` or walks a seed. The setting `selfSubdivide` decides how it
leaves the loop (`run_worker_loop`): with it, when the seeder is done and every
seed that ever was has been released (`LeavesByCounters`), which a worker that
died inside a walk prevents for good; without it, when the channel is empty and
the seeder's sender dropped (`LeavesByDisconnect`), whoever still walks or has
died. Classes that a panic loses stay in the supply. Write and rename are
separate steps and either may fail; a `progress.json` of an earlier run may be
lying there.

**Streaming** is a streaming run seen from its files. Bytes are counted in
pieces (header, rank, group order, rows), so that a file can end at every place
that matters to a reader. `EmitClass` puts a record in a thread's buffer,
`Spill` is a `BufWriter` that hands over any part of what it holds, `Finalize`
flushes. A file may be refused when it is created or written, a thread may
panic, the process may be killed. `run_streaming.py` writes `stats.json` and
merges when the kernel has returned; the merge may also be run by hand on what a
killed process left behind. `dec progress` passes over the files one at a time,
in any order, while they grow, and makes one more pass once it has seen
`stats.json`. How threads share the tree is ParallelEnumerator's subject; here a
class may be emitted by any worker once its parent has been.

**CanonInfo** is one thread's calls of `canon_info`. `Call` chooses between the
graph on the low-weight words and the one on all words, empties AUT_BUFFER and
sets LEFT_VERTEX_COUNT. The small graph goes to one of three engines
(`SparseReturns`, `DenseReturns`, `TracesReturns`), the full one always to the
sparse one (`FullReturns`). `NautyReports` and `TracesReports` are the callbacks;
the engine's return takes the buffer, and `ColumnOrder` reads the labelling off
`lab`; `TrustFloat` and `SchreierLevel` compute the order; `Store` files the
answer in the secondary cache. nauty is external: it reports automorphisms of
the coloured graph until they generate its group, and its labelling keeps the
cells of the initial colouring and takes isomorphic graphs to one graph.
**CanonState** holds what all routes answer with; **ColumnPermutations** has the
permutations themselves.

**PartitionRefinement** is what the two experimental searches share: ordered
partitions, the refinement worklist with its choice of the fragment to leave
out, and the partial key with its undo log. **Feulner** is the backtrack of
`canon_info_feulner`, one action for each step of a node: `RefineNode`, the cuts
`CutByAutomorphisms`, `CutByBranching` (Lemma 5.9) and `CutByPrefix`, `Leaf`,
`Open`, `Descend`, `Close`. **PairedIso** is the verifier of the secondary
cache: `Probe` scans a bucket and, on a hit, makes the answer for a new code
from that of an old one, `Miss` is a bucket without a hit, and `Compare` runs
the full search beside the weaker test. **Invariants** has the colour
refinement and the counts of the collision experiment. **CanonBackends** puts
the four routes into one process: which one is taken is read once
(DOUBLY_EVEN_CANON_BACKEND and the build's features).

**F2Vectors** and **Quotient** are the linear algebra: a word is the set of its
one bits. **ParentRule** defines both parent rules over these; the set of
functionals with the least φ is written as a filter by weight, as the source
computes it in the plain frame. **PhiCascade** is how the source really
computes it: in the split frame, stratum by stratum, with bounds that reject
early, the chain that the siblings share and a context that is recycled.
**DirectSum** is what the decomposability log says of a child that has been
labelled: support, components and twin classes of its basis.
**MassFormula** is `gaborit_sigma`. **Augmentation** puts all of them together
on real codes: `traverse` from the zero code, with candidates, parent test and
mass-stop, sequentially or from a frontier whose seeds are walked one after the
other in any order. Its masses are those of **U256**: two halves of two words,
carries and borrows between them, with the quotas parsed from decimal strings and
the totals printed. The word has any size, so that small instances carry.

`MC…` modules hold the instances.

| Module | extends or instantiates |
|---|---|
| ParallelEnumerator | GenerationTree; refines Enumeration |
| SeederPool | F2Vectors; refines OrbitScan; its instance takes the quotient from Quotient |
| Streaming | GenerationTree |
| ColumnPermutations, Quotient | F2Vectors |
| CanonState | ColumnPermutations |
| PartitionRefinement | ColumnPermutations, Quotient |
| CanonInfo, Invariants | CanonState |
| Feulner, PairedIso | CanonState, PartitionRefinement |
| CanonBackends | CanonInfo, Feulner, PairedIso, Invariants |
| PhiCascade | ParentRule, DirectSum |
| Augmentation | ParentRule, MassFormula, U256 |
| ParallelEnumeratorProofs | ParallelEnumerator, TLAPS, FiniteSetTheorems |
| FoldProofs | FiniteSetsExt, FiniteSetTheorems, TLAPS |
| F2Proofs | DirectSum, Quotient, FoldProofs |
| CountsProgressProofs | CountsProgress, U256, FoldProofs |
| StreamingProofs | Streaming, FoldProofs |
| SeederPoolProofs | SeederPool, F2Proofs |
| PhiCascadeProofs | PhiCascade, F2Proofs |
| CanonBackendsProofs | CanonBackends, F2Proofs |

## Runs

| Run | Question | Instance and bounds |
|---|---|---|
| `parallel_enumeration` | Self-subdivision on: are classes output once, tracker and termination counter exact, does nobody leave early, does the driver implement Enumeration and always return? | tree of eight classes, two rejects, ranks 0 to 4; frontier 2, δ = 1; two workers; channel of one slot; batches of two; stale hint reads; fair threads |
| `parallel_faults` | Self-subdivision off: if any thread's writer fails at any point, does the driver panic, and do all workers end? | tree of six classes, ranks 0 to 3; two workers; all three threads may fail |
| `parallel_panic_hang` | The same with self-subdivision on: **violated** | one of two workers may fail |
| `pool_races` | Do racing helpers, and every kernel that works without them, yield the sequential minima, search after search, and can the pool be dropped? | any two of five searches in a row: quotients of 6 (63 words, five generators), 4, 3 and 2 dimensions, and 3 with the whole table; four helpers; pool from 4 dimensions on, byte tables from 3, bytes of two bits |
| `counts` | Is mass accounted for throughout, are result and last snapshot exact, is the file always whole and this run's progress monotone? Do the run and `dec progress` end, whatever fails, unless a worker dies before peers that poll? | self-subdivision on and off; two workers and the seeder, four classes, batches of three; any of the three threads may panic, the disk may refuse anything, a stale file |
| `counts_sequential_final` | Is the sequential driver's last snapshot exact: **violated** | four classes, batches of three |
| `phi_cascade` | Is every intermediate set and verdict of the cascade the rule's? Do the hyperplanes of a child agree on a parent? Is a context its owner's? Is the logged split the finest direct sum? | five parents of length 24, ranks 0 to 3, their candidates in any order and number, frames two deep |
| `augmentation` | Does the whole recursion write each class once, all classes, and meet the mass formula? | all classes of lengths 8 to 12, two ranks of 14 and 16; φ, label rule and both under a cap; with and without mass-stop; two labellings; sequential, and frontier 2 at length 11; words of 3500, so that the masses of the longest instances need both halves |
| `streaming` | Whatever is refused, panics or is killed: has a tail counted a prefix, is the last table complete, is a run the kernel returned from accepted? | a class of each rank 0 to 3, frontier 2, two workers and the seeder; buffers of two pieces, less than a record; one worker may panic, the disk may refuse, the process may be killed |
| `streaming_killed_merge` | Is a merge accepted only if the mass is right at every rank: **violated** | the sequential driver, buffers that hold everything, the process may be killed |
| `canon_backends` | Is nauty's answer Aut(C) and its order, whichever graph, engine and computation, and the cache right? Is the backtrack sound, its undo log faithful? Is the verifier ever wrong? Do the invariants agree on equivalent codes? | nauty: two calls, codes of lengths 3 (all engines) and 4, dimension up to 2, orders from 3 on by Schreier–Sims; backtrack: lengths 4, 6 and 7 in rotations and exchanges; verifier: lengths 2, 4 and 6; invariants: lengths 4, 6 and 7 |
| `feulner_order` | Is the order that the backtrack returns that of the group: **violated** | the same codes |

Why these bounds are enough for the cases that matter. Two workers and the
seeder are the fewest that give every pair of roles a race: donor and receiver,
a poller and a donor, a worker and the still running seeder. The deep tree has
a node with two accepted children and a reject at each of the donating ranks,
so that a donor continues after a donation, and a rank that fills up while
another thread still has candidates. One channel slot makes `try_send` fail and
`send` block. Batches of two (or three of four) leave
every thread with an unfinished batch at the end. In the pool run the walk of the larger quotient and one level
of its orbit search exceed their thresholds and are cut into several ranges with
a shorter last one; the other quotients are searched without the helpers, in
between, and three dimensions make two bytes of two bits, the last one short. A buffer smaller than a record makes files end inside one. The parents of `phi_cascade` were
picked so that every branch of the cascade is taken, rank zero and the direct
counting below the threshold included. `augmentation` needs lengths up to 12
for indecomposable and decomposable codes with non-trivial groups of rank up to
five; a code that leaves columns zero stands for the shorter lengths. `canon_backends` asks for codes that are not doubly even too: none of the four
routes depends on that, and codes with words of several weights, for which the
two graphs differ and a refinement singles out columns, would otherwise begin at
length 8, where 40,320 column permutations are too many. On the simplex code
of length 7 all three cuts of the backtrack take effect. TLC
integers have 32 bits, which is why class sizes are computed with the
factorials cancelled, and which ends the full enumeration near there.

Ties of φ between different orbits do not occur at these lengths: the tie-break
is executed in `augmentation`, and any choice among tied functionals would have
passed. A rank that fills up before a candidate list ends does not occur in
sequential runs at these lengths either; the parallel instances are there for it.

## Fairness

Every thread's steps are weakly fair: they are OS threads, blocked only in the
channel and join calls that the actions' guards model. Fairness is per thread,
not per action, so a thread may choose forever among its enabled steps. In
particular `Timeout` and `Receive` are one thread's choice. No fairness is
assumed of writer failures, panics or disk errors. In CountsProgress the
watcher and the reader are fair because both are loops around a timed wait.
Streaming, PhiCascade, Augmentation and CanonBackends state no liveness and
assume no fairness.

## What is proved

Eight modules hold proofs. TLC was asked first: it has found every theorem that
states a run's property to hold on the run's instance, and there each of the
inductive invariants named below too. The theorems hold for all values of the
constants that satisfy the named assumptions (`ParallelAssumption`,
`ProgressAssumption`, `StreamingAssumption`, `PoolAssumption`, `GroupAssumption`,
`PhiAssumption`, `CandidateAssumption`, `CanonAssumption`, `FeulnerAssumption`,
`AuditAssumption`, `WordAssumption` and those of GenerationTree), which TLC
evaluates on the instances.

### The parallel drivers

`ParallelEnumeratorProofs`, for every tree, every number of workers, every
frontier, δ, channel capacity and batch size, with stale hint reads and with
failing threads:

* `TypeCorrect`: `Spec => []TypeOK`. This includes that `idle` and `outstanding`
  are natural numbers: the source's unsigned counters never wrap.
* `OutstandingCorrect`: the counter is the number of queued seeds, of seeds
  being walked or about to be released, and of reservations.
* `NoEarlyExitCorrect`: a worker that has left its loop leaves no seed behind.
* `EmittedOnceCorrect`: no class is output twice.
* `MassConservedCorrect`: tracker, batches and what is lost with a dead thread
  add up to the mass of what is out.
* `FullMeansAllEmittedCorrect`: the mass-stop loses nothing.
* `ReturnsEverythingCorrect`: a driver that returns has everything, and one whose
  writers do not fail never panics.
* `ImplementsEnumerationCorrect`: `Spec => ImplementsEnumeration`, the refinement
  of the abstract promise. A step that emits a class is its `EmitClass`, the step
  through the mass gate is its `Return`, every other step is a stutter.

The first three rest on `Inv == Typed /\ Control /\ Paths /\ Counting`, with
`Ending` on top of it. `Control` ties each thread's local state to its `pc` (who
has a seed, who has a class in hand); without it the step that releases a seed
could not be counted. `Paths` says that a thread's stack is the path of the tree
from its seed to its current class; popping a frame stays typed only because of
it. `Counting` is `OutstandingExact` with its counterpart for `idle`: a
decrement shows that its counter is positive by exhibiting the thread it counts.
`Ending` adds the order of the exit test: `seeder_done` goes up only when seeding
is over, and a worker reads the counter only after it has seen the flag.

Once each class is followed by the *places* it can be in (an output, a thread's
candidates, its hand, the channel), the output needs `Placed`: no class or
candidate is in two places, and whatever is somewhere has its parent in an
output. Only eight kinds of step move anything between places, so the 40-odd
actions are sorted into those kinds first. `Tally` adds the sums: a flushed class
is out, and a full flag means that the tracker had reached the quota; since every
class has some mass, reaching the sum means having all of them.

That nothing is lost is `Backlog` (candidates are left only in frames that will
be returned to) and `Covered`: while no thread has panicked, each child of a
class that is out is somewhere or about to be generated. A step of the mass-stop
keeps it by `FullMeansAllEmitted`. When all workers are gone every place is
empty (`NoEarlyExit`), so by `TreeAssumption`, which says that only the whole
tree contains the root and with each class its children, everything is out.

### The counts drivers

`CountsProgressProofs`, for every set of workers, quota and batch size, with and
without self-subdivision, panics and a failing disk:

* `MassAccountedCorrect`: no mass is lost or doubled between buffers and tracker.
* `DoneIsExactCorrect`, for the parallel driver: a snapshot that says `done` holds
  the whole quota. (The sequential one is the finding below.)
* `ReturnIsExactCorrect`: a driver that returns has merged every thread's counts
  and they are the quota.
* `ProgressOnlyGrowsCorrect`: an action property of the file, against any
  interleaving of the watcher's create, fill and rename.

Beside the sums (`Accounted`) they need the order in which threads come to their
ends (`Flow`: a class that nobody has emitted has a thread that is still in its
loop or died there, no worker leaves before the seeder has flushed, nobody reports
with a batch unflushed, the stop flag goes up after the last report) and
what the watcher holds (`Watched`: a snapshot in the making never has more than
the tracker and never less than the file).

### The streaming files

`StreamingProofs`, for every finite tree, any buffer size and any record length,
wherever the system lets a file end:

* `TailIsPrefixCorrect`: a tail has counted a prefix of a file's records, each
  whole and once, and its offset is where the next one starts.
* `FinalSnapshotCompleteCorrect`: the last table has every class.
* `ReturnedIsAcceptedCorrect`: the merge accepts a run the kernel has returned
  from, and each class then has a whole record on disk.

The invariant is `StreamInv == Files /\ LoggedOnce /\ Progress /\ Returned /\
Tails`. A record's end is a sum over the records before it, strictly increasing
(`Edge`), so a cut falls inside one record at most and the scanner, which stops
at the first record that is not whole, stops on an edge. Three arguments carry
the rest: a scan that starts on an edge and finds whole records reads exactly
those (`WholeIsNext`); the pass made after `stats.json` was seen finds every file
complete (`LastPass`); a class in the log of one thread and of no other has its
mass counted once, so the sums by rank are the quotas (`SumOfParts`,
`Vindicated`).

### The helper pool

`SeederPoolProofs`, for every series of searches, every number of helpers from
two on and every setting of the thresholds:

* `WalkIsSequentialAlways`: the parts of the walk, put together, are word for
  word the list of the sequential walk.
* `ClaimedOnceAlways`: however the helpers race, no word is twice in what a level
  has found.
* `FrontierCompleteAlways`: between levels, every seen word is to be expanded or
  has had all its images seen.
* `ImageIsSum`: the byte tables, the table of the whole quotient and the plain
  loop compute the same image of a word.
* `PoolInvariant`: the inductive invariant behind the first three.
* `ImplementsScanCorrect`: each search returns the least word of every orbit, in
  ascending order, whatever the helpers' interleaving and whichever kernel ran; as
  seen from outside, a search is one step.
* `ScanInvariant`: the inductive invariant behind that.

Half of this is about data. Ranges of rounded-up length partition the walk
(`RangesPartition`); the closed form of the Gray code at a range's start is where
the walk would be there (`GrayStep`), so the walk of a range finds what the whole
walk finds in it (`PartsOfWalk`). A byte table filled from "the value without its
lowest bit" holds sums of rows (`TableEntries`), and adding up the bytes of a
word adds up its rows (`TablesApply`); the whole table visits every word once
because the Gray code is onto (`GrayTable`). With that the images of a level are
the same set in whatever chunks and order they are probed (`ImagesFacts`).

The other half is the protocol. `PoolInv` says that every range of a call is in
exactly one place, the caller's list, the task channel, a helper, the result
channel or the slots (`Numbered`); that the parts, wherever they are, are those
of their range (walk) or disjoint lists of seen words (level) (`Parted`); and
that a seen word whose images are not all seen is in the level to expand, in a
task, in a part, or has its images waiting in a helper's hands (`Frontier`).
`FrontierComplete` alone speaks of the moments between levels only, so it could
not be inductive.

The refinement adds `ScanInv`: what has been seen, waits to be expanded or waits
to be probed (`Held`) lies in the orbits of the minima found so far (`Cover`); the
singular words that have not been seen are still in the list; list and minima
ascend, the minima below the list. Every step of a level adds images of what is
held, and orbits are closed under images (`ScanFrame`). When a word is found
unseen, all levels are complete, so what has been seen is closed; because the
generators permute the finite set of singular words, what a closed set leaves is
closed too (`ClosedRest`), so the whole orbit of the word is unseen, hence still
in the list, hence not below its head (`ScanMinimum`). That generators permute the
singular words is `GroupAssumption`: they come from automorphisms of the code,
which keep C, its dual and weights. It is evaluated on the run's quotients, whose
generators `Quotient` computes from permutations. That the fixpoint in OrbitScan
is the least closed set is `OrbitIsHull`, by counting down the words outside.

### The coset-spectrum parent rule

`PhiCascadeProofs`, for every set of parents and candidates, any depth of the walk
and any threshold between filtering by transforms and by counting:

* `ContextIsOwnersCorrect`: a live context is its own parent's.
* `RunningArgminCorrect`: between two strata, what survives is what no functional
  has beaten so far.
* `VerdictIsRuleCorrect`: reject, unique and tie are what the whole spectra say.
* `LoggedSplitIsFinestCorrect`: the decomposability log's record of a child has its
  dimension, its support, the summands of its finest direct sum and its twins.
* `ParentsAgreeCorrect`: the same test run from any other hyperplane of D, in that
  hyperplane's own reduced basis, finds the same functionals least, and there is
  always one.
* `CascadeInvariant` and `RuleInvariant`: the inductive invariants behind them.

Storage and ownership are told apart: a pooled context is only `Storage`, whose
arrays are as long as they claim, and `Build` makes any storage `Owned` with
nothing built. An entry of the chain is found again by its number, so the parent's
i-th stratum has to be the same weight for every sibling (`NextStratum`,
`SameCount`). A test that stands at entry i has passed just the parent's first i
strata: one with words of the coset alone rejects, one with words of both leaves
the chain.

The rest is about numbers. `PhiSplit` and `Values` turn the number of odd words of
D under a functional and under its other extension into the transforms of the two
halves; each test of the code is then a lemma about the functionals with the fewest
odd words of the stratum: `CodeOnlyFewest` (no word of the coset),
`CosetOnlyLoses` (none of C), `BoundLoses` (a bound from C's half alone),
`SplitSet` (beaten, or the functionals that reach the target), `CombinedFewest`
(the best of a transform) and `CountIsPhi` (counts, with C's half read off a
transform that happens to be there). `StratumFewest` lifts that to lists: what is
unbeaten after a stratum is the fewest of what was unbeaten before, because the
unbeaten agree on all earlier strata (`Agreement`) and weights without words
cannot tell functionals apart. `Tracking` then says how the code holds this set,
written out or standing in the chain; that the chain never outlives the strata
follows because no stratum before has had a word of the coset, and some stratum
has one. `CandidateAssumption` (a candidate is a word of length N that spans with its parent
a doubly even code) is used there and for the weights that the rule compares.

`ParentsAgree` is what canonical augmentation rests on, and a change of basis. The
rule is first told of hyperplanes alone: `PhiOutside` says that the odd words under
a functional are the words of D outside its kernel, so whether a functional is
beaten depends on its kernel and on D (`BeatenByHyperplane`). The hyperplanes of a
code are the kernels of the functionals of any of its bases (`KernelHyperplane`,
`HyperplaneKernel`). A hyperplane's own rows, reduced, and one row outside it are a
basis of the same D (`HyperplaneRows`, `HyperplaneSpans`, `OwnFrame`), by
`RowReduceCorrect`; so its test weighs the same hyperplanes and its claim is the
rule's (`ClaimIsRule`). `SomeUnbeaten` shows that some functional is least, and the
invariant `Settled` that a verdict is about the frame on top.

### The canonical form

`CanonBackendsProofs`, for codes of every length, every set of requests, and
whatever order nauty reports automorphisms in:

* `KernelAnswerAlwaysExact`: the generators that `canon_info` returns generate
  Aut(C), the order is that of Aut(C), the orbits are its orbits; on the graph of
  the light words or of all, by any engine, by the float or by Schreier–Sims.
* `KernelCacheAlwaysExact`: an entry of the secondary cache is the form of its
  class and has that form's own group, though it was computed for another code of
  the class; a bucket has no class twice.
* `EquivalentCodesAgree`: every invariant of the collision experiment is the same
  for equivalent codes.
* `RefinementAlwaysStable`: colour refinement is stable when it stops, and it stops
  within its limit of rounds.
* `FeulnerKeyAlwaysReplayed`: at every step of the backtrack the partial key is the
  one that absorbing the cells of the frames, from the root down and without cuts,
  would give, although it has been grown and restored from the undo log all along.

`KernelAnswerIsExact` speaks of the last state of a call. The invariant
(`KernelState`) follows the call: the words in the graph span the code, so their
automorphisms are the code's (`GraphWordsKeepGroup`); `found` is the group that
the buffer generates, and the call to nauty can only return once that is the whole
group; during Schreier–Sims the order so far times the order of the stabiliser at
hand is the order of the group (`ChainIs`). One level of that is the orbit-stabiliser
theorem with Schreier's lemma: a transversal found by search reaches the whole orbit
(`TransversalFacts`), the group splits into as many cosets of the stabiliser as the
orbit has columns, and the Schreier generators generate the stabiliser. That
closures of sets of permutations under products are groups is shown from their
being finite (`ProductsMakeGroup`), and that the fixpoint operator `Closure`
computes the least closed set by counting down what is outside (`ClosureFacts`).

The cache adds `CacheInv`. The label is a column order that takes the graph's words
to one fixed arrangement of them (`Settled`), the same for every code of the class
(`SettledAlike`): that is all the model asks of an external canonical labelling.
The form of a code is the span of that arrangement, hence the same for the class
(`FormIsMade`); conjugating by the label takes Aut of the code to Aut of the form, its
order along with it (`EntryIsMade`), and an entry is only filed when none of the
bucket has that form.

`EquivalentCodesAgree` is one argument for each invariant. A column order carries
words, strata, degrees and pairs of words to those of the arranged code one to one
(`SetMover`, `MovedSubsets`), and a tally does not see names (`SameTallies`). Round
after round of the colour refinement, colours of corresponding vertices are the same
(`Carried`). Stability is counting: a round never merges colours and there are at
most as many colours as vertices, so before the limit some round splits nothing.

`FeulnerKeyAlwaysReplayed` rests on `FeulnerState`, which adds to the property what
makes it inductive: for every frame the key above it, from which the frame's cells
lead to the key below and to which the frame's snapshot and log lead back. Absorbing
one column is undone by what it logs (`ReduceByIs`: of every row in the log, the
first entry holds the old value, though the row may be there twice, swapped and then
added to), logs can be put together (`UndoesBoth`), replaying one backwards lets the
first entry about a row win (`UndoneIs`), and the key above is a prefix of the one
below, so `restore` is exact (`RestoreIs`). A key that the best one does not cut off
has been absorbed to the end (`UncutIsReplay`): cutting, once it starts, never stops.
For all of that the partitions have to stay lists of nonempty sets of columns, through
the buckets, the worklist and both nested loops of the refinement (`BucketFacts`,
`SplitCellStays`, `DrainStays`, `RefineStays`).

### 256-bit integers, sums of words, folds

`CountsProgressProofs` ends with the integers: for every size of the word (the source's is 2^64), shows that the
operations are those of the numbers they stand for: `AddIsExact` (with a panic
exactly when the sum does not fit), `OrderIsNumeric`, `SubIsExact`,
`MulSmallIsExact` (with its panic) and `DivModSmallIsExact`. The argument follows
the halves: a carry is one exactly when the low sum passes a half, the product is
taken word by word with a carry that stays below a word, and the division brings
down one word at a time with a remainder below the divisor. What parsing and
printing do with a whole string is left to the augmentation run.

`F2Proofs` has the facts about words that SeederPool rests on (loops, the Gray
code, the order of words, sums of rows). Row reduction follows, for any rows of any
length: `RowReduceCorrect` (the result is a reduced echelon basis of the code that
the rows span: the loop over the columns keeps the code, and clears each pivot's
column for good), `EchelonUnique` (two such bases of a code are equal: the least bit
of every word is a pivot, so the pivots are the same, and the difference of two rows
with the same pivot avoids them all) and `RowReduceCanonical`, which follows: the
rows that a code is stored and compared by do not depend on the basis it came from.
At its end is the argument in the head
of `decomp.rs`, for codes of any length and their reduced bases (`IsReduced`, which
`ReducedRows` shows to hold of what `row_reduce` returns).
`RowsStayTogether`: no row is cut by a direct sum of the code.
`JoinRespectsSummands`: so no step of the union-find joins columns of different
summands. `JoinedAllFacts` and `ConnectedFacts` carry that through both loops: the
classes always partition the columns, no direct sum cuts one of them (`Uncut`), and
they only grow, so at the end none of them cuts a row. A class that cuts no row
splits off (`ClassSplitsOff`: the words whose part in the class is a word form a code
with all rows in it), and it is minimal because no summand cuts it:
`ComponentsAreSummands`. `TwinsOfRows` is the same kind of argument for equal
columns. `PhiCascadeProofs` adds that two bases of a code have as many rows
(`SameLength`, by counting its words), which is the record's dimension.

`FoldProofs` is the induction that all of these share. The library's induction
theorems take an operator as a parameter, which the installed provers cannot
instantiate; the modules here argue by a least counterexample instead (a
nonempty collection of subsets of a finite set has a least member). That is
enough to show that the recursive function behind a fold exists and is the only
one, and so to compute sums, concatenations and loops for every input.

### Only model-checked

* Liveness under fairness: `EventuallyReturns`, `PanicSurfaces`, `WorkersEnd`,
  `PoolEnds`, `RunEnds`, `ReaderExits`. The prover does not do it.
* Augmentation (`OnePerClass`, `Complete`, `QuotaHolds`): that canonical augmentation
  lists every class once and that the mass formula holds are theorems about codes and
  groups (orbit counting, Gaborit's formula), not about the steps of this program. What
  the program adds to them, the parent rule, the orbit scan, row reduction and the
  drivers, is proved each by itself.
* `FeulnerAnswerIsSound` and `VerifierAnswerIsExact`: that the backtrack finds one
  form for all arrangements of a code, and the verifier an isomorphism whenever there
  is one, needs that the refinement, the worklist and the key commute with column
  orders, and that two leaves with one key absorbed corresponding columns; the whole
  search would have to be carried along an isomorphism.

## Findings

* **A panicking worker can hang the run** (`parallel_panic_hang`). A worker that
  panics inside `traverse` never decrements `outstanding`; with self-subdivision,
  the default, its peers then poll for ever, keep their result senders, and the
  driver waits in `recv` instead of failing with "worker thread hung up before
  sending result". With self-subdivision off the failure surfaces
  (`parallel_faults`). The counts driver runs the same loop and hangs in the same
  way: `RunEnds` excepts just that state (`PollsForEver`), which exists only with
  self-subdivision (`counts`).
* **The sequential counts driver's last snapshot is short**
  (`counts_sequential_final`). It installs a tracker for the watcher and never
  flushes the last batch, so `progress.json` ends with `done: true` and less
  than the full mass. The returned counts are right.
* **The merge accepts a run without its top ranks** (`streaming_killed_merge`).
  `merge_stream.py` says that it asserts the mass at every k and loops over the
  ranks up to the largest one it found a record of. After a kill the ranks above
  may be missing altogether; for lengths without a published table nothing else
  notices.
* **The partition backtrack may return too small a group order**
  (`feulner_order`). `feulner.rs` and `py_exports.rs` promise |Aut(C)|; the code
  returns the order of what its automorphisms generate. The cut by the labelled
  branching discards leaves that cannot be smallest but may be the second leaf
  of a key, the only place an automorphism is found. For some arrangements of
  the simplex code of length 7 it returns 24, for others the right 168. The form
  and the automorphisms it does return are right (`FeulnerAnswerIsSound`). The
  backend is an experiment, off by default.

## Plan

Written so far, in this order: GenerationTree, Enumeration, ParallelEnumerator;
F2Vectors, Quotient, OrbitScan, SeederPool; CountsProgress; PhiCascade,
ParentRule; MassFormula, Augmentation; Streaming; CanonInfo; U256;
PartitionRefinement, Feulner, PairedIso, Invariants, CanonBackends; DirectSum;
and the proofs of the parallel drivers, the counts drivers, the streaming files,
the helper pool, the parent rule, the integers, row reduction, direct sums and the
canonical form.

Next, in this order:

1. *Proofs* that the partition refinement and the partial key commute with column
   orders, on which the backtrack and the verifier rest; of orbits and the mass that
   they add up to.
2. *Streaming* composed with ParallelEnumerator, so that the order in which
   threads finalize and report is the driver's own; a directory that already
   holds files of another run; the merge's table of published counts.

## Not modelled

Statistics vectors, the tie dump, the files of the decomposability log, phase
timers and environment parsing: no decision reads them. The histogram of nauty
calls (`canon_hist`), the cycle counters (`cycles.rs`) and the profiling copy of
the parallel driver (`parallel_profile.rs`): for measurements, feature-gated. Python bindings but for the choice of the backend
and the decimal strings, the command line, the run scripts but for what decides
whether a run is accepted, benchmarks: conversions and reports. The Python
reference and the clean-room version: the same recursion with the label-based
rule, kept as oracles. The float rounding of |Aut| in `permutations.rs`:
floating point. The adjacency arrays handed to nauty: only which vertices are
joined and coloured alike matters to it. nauty itself: external.

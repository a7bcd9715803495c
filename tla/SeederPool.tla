----------------------------- MODULE SeederPool -----------------------------
(***************************************************************************)
(* The seeder's helper pool at work on candidate lists, one after another. *)
(* The caller cuts the Gray-code walk over the quotient, and then every    *)
(* large level of the orbit search, into contiguous ranges, one task each; *)
(* helpers take the tasks in FIFO order and send their parts back over a   *)
(* result channel; the caller concatenates the parts in range order.  The  *)
(* helpers of one level race for new elements on a shared bitset.          *)
(*                                                                         *)
(* Below `min_l` dimensions the caller works alone, with lookup tables from *)
(* M4R_MIN_L on and without them below; a third body, with a table of the   *)
(* whole quotient, is there for the bindings and the benchmarks.  One       *)
(* action is one access to a channel or to the bitset, with the             *)
(* thread-local work around it.                                             *)
(***************************************************************************)
EXTENDS F2Vectors, SequencesExt

CONSTANTS
  Helpers,        (* the pool's threads                                     *)
  Searches,       (* what may be asked for: vBasis, a basis of the          *)
                  (* quotient's representatives; sigmaQs, the matrices of   *)
                  (* the automorphism generators, a sequence; and by, the   *)
                  (* entry that is called, "kernel" or "table"              *)
  MaxSearches,    (* searches before the pool is dropped                    *)
  LevelMin,       (* PAR_LEVEL_MIN: a smaller level is expanded serially    *)
  ChunkMin,       (* the least share of the walk worth a task               *)
  MinL,           (* min_l: dimensions from which the pool is used          *)
  TableMinL,      (* M4R_MIN_L: dimensions from which tables are built      *)
  ByteBits,       (* 8: bits that one table is indexed by                   *)
  ProbeChunk      (* M4R_CHUNK: words probed with the tables of one         *)
                  (* generator before the next one's turn                   *)

PoolSize == Cardinality(Helpers)

ASSUME PoolAssumption ==
  /\ IsFiniteSet(Helpers) /\ PoolSize >= 2
  /\ \A s \in Searches :
       /\ s.vBasis \in Seq(SUBSET Nat) /\ Len(s.vBasis) >= 1
       /\ s.sigmaQs \in Seq([1 .. Len(s.vBasis) -> SUBSET (0 .. Len(s.vBasis) - 1)])
       /\ s.by \in {"kernel", "table"}
  /\ MaxSearches \in Nat \ {0}
  /\ LevelMin \in Nat \ {0} /\ ChunkMin \in Nat \ {0} /\ ProbeChunk \in Nat \ {0}
  /\ MinL \in Nat /\ TableMinL \in Nat /\ ByteBits \in Nat \ {0}

VARIABLES
  search,     (* the one under way, or the last                             *)
  asked,      (* how many there have been                                   *)
  pc,         (* where the caller is                                        *)
  unsent,     (* tasks of the current call not sent yet                     *)
  sent,       (* how many of them have been                                 *)
  slots,      (* the parts received so far, by range index                  *)
  reps,       (* the singular words; from "scan" on, those not scanned yet  *)
  seen,       (* the AtomicBitset                                           *)
  minima,     (* the orbit minima found so far                              *)
  queue,      (* the level of the orbit search to expand next               *)
  tasks,      (* the task channel                                           *)
  open,       (* has the pool still got its task sender?                    *)
  results,    (* the result channel of the current call                     *)
  room,       (* its capacity                                               *)
  job,        (* the task each helper is running                            *)
  probes,     (* the images it has yet to claim                             *)
  part,       (* what it has found so far                                   *)
  up          (* helpers that have not left their receive loop              *)

askVars == <<search, asked>>
callVars == <<askVars, unsent, sent, slots, room>>
scanVars == <<reps, minima, queue>>
helperVars == <<job, probes, part, up>>
vars == <<pc, callVars, scanVars, seen, tasks, open, results, helperVars>>

NoJob == [kind |-> "none"]

-----------------------------------------------------------------------------
(***************************************************************************)
(* The words and the group.                                                *)
(***************************************************************************)

Length(s) == Len(s.vBasis)

L == Length(search)

Walk(s) == 2^Length(s)

(* What a loop over s has pushed that pushes only at the positions P. *)
Picks(s, P) == FlattenSeq([i \in DOMAIN s |-> IF i \in P THEN <<s[i]>> ELSE <<>>])

Singular(s, u) == Weight(Combination(s.vBasis, u)) % 4 = 0

(* Steps lo .. hi - 1 of the walk that was at `start` before step lo. *)
WalkFrom(s, start, lo, hi) ==
  LET walk[i \in lo - 1 .. hi - 1] ==
        IF i = lo - 1 THEN [at |-> start, found |-> <<>>]
        ELSE LET last == walk[i - 1]
                 u == Xor(last.at, {TrailingZeros(i)})
             IN [at |-> u,
                 found |-> IF Singular(s, u) THEN Append(last.found, u) ELSE last.found]
  IN walk[hi - 1].found

(* `singular_reps_q`: the whole walk on one thread. *)
WholeWalk == [s \in Searches |-> WalkFrom(s, Zero, 1, Walk(s))]

SingularReps == WholeWalk[search]

IsIdentity(m) == \A i \in 1 .. Len(m) : m[i] = {i - 1}

GensOf(s) ==
  IF s.by = "table" THEN s.sigmaQs
  ELSE Picks(s.sigmaQs, {i \in DOMAIN s.sigmaQs : ~IsIdentity(s.sigmaQs[i])})

Gens == GensOf(search)

Pooled == search.by = "kernel" /\ PoolSize >= 2 /\ L >= MinL

CeilDiv(a, b) == (a + b - 1) \div b

(* Mutant: n ranges of the length rounded down leave the last words in none. *)
RangesDropRest(lo, hi, n) ==
  LET per == (hi - lo) \div n
  IN [i \in 1 .. n |-> [from |-> lo + (i - 1) * per, to |-> lo + i * per]]

(***************************************************************************)
(* lo .. hi - 1 cut into at most n ranges [from, to) of equal length; the  *)
(* last may be shorter.                                                    *)
(***************************************************************************)
Ranges(lo, hi, n) ==
  LET per == CeilDiv(hi - lo, n)
  IN [i \in 1 .. CeilDiv(hi - lo, per) |->
        [from |-> lo + (i - 1) * per, to |-> Min({lo + i * per, hi})]]

(* The pieces the walk is cut into: at least ChunkMin steps each, and no more than helpers. *)
ChunksOf(s) == Min({PoolSize, Max({(Walk(s) - 1) \div ChunkMin, 1})})

WalkChunks == ChunksOf(search)

WalkRanges(s) == Ranges(1, Walk(s), ChunksOf(s))

(* Mutant: a range starts at the word of its first step, which then counts twice. *)
StartLate(lo, width) == GrayWord(lo, width)

(* The word before step lo, in closed form. *)
RangeStart(lo, width) == GrayWord(lo - 1, width)

(* What a helper finds in each range of the walk. *)
WalkParts ==
  [s \in Searches |->
     [i \in DOMAIN WalkRanges(s) |->
        LET r == WalkRanges(s)[i]
        IN WalkFrom(s, RangeStart(r.from, Length(s)), r.from, r.to)]]

(***************************************************************************)
(* `m4r_build`, for one generator: for each byte of the word, the images   *)
(* of its values, each from that of the value without its lowest bit.      *)
(***************************************************************************)
M4RBuild(m) ==
  [c \in 1 .. CeilDiv(Len(m), ByteBits) |->
     LET base == (c - 1) * ByteBits
         t[b \in SUBSET (0 .. Min({Len(m) - base, ByteBits}) - 1)] ==
           IF b = Zero THEN Zero ELSE Xor(t[b \ {Min(b)}], m[base + Min(b) + 1])
     IN t]

(* The c-th byte of a word. *)
Byte(x, c) == {i - (c - 1) * ByteBits : i \in {i \in x : i \div ByteBits = c - 1}}

M4RApply(tables, x) ==
  FoldFunction(Xor, Zero, [c \in DOMAIN tables |-> tables[c][Byte(x, c)]])

(* `sigma_q_table`: the images of all words, in the order of the Gray code. *)
SigmaQTable(m) ==
  LET walk[i \in 0 .. 2^Len(m) - 1] ==
        IF i = 0 THEN <<Zero, Zero>>
        ELSE LET flip == TrailingZeros(i)
             IN <<Xor(walk[i - 1][1], {flip}), Xor(walk[i - 1][2], m[flip + 1])>>
      at == [i \in DOMAIN walk |-> walk[i]]
  IN [u \in SUBSET (0 .. Len(m) - 1) |-> at[CHOOSE i \in DOMAIN at : at[i][1] = u][2]]

UsesTables(s) == s.by = "kernel" /\ Length(s) >= TableMinL

Tables ==
  [s \in Searches |->
     [i \in DOMAIN GensOf(s) |->
        IF s.by = "table" THEN SigmaQTable(GensOf(s)[i])
        ELSE IF UsesTables(s) THEN M4RBuild(GensOf(s)[i])
        ELSE <<>>]]

Image(i, x) ==
  IF search.by = "table" THEN Tables[search][i][x]
  ELSE IF UsesTables(search) THEN M4RApply(Tables[search][i], x)
  ELSE Combination(Gens[i], x)

(* The images of a range of a level, in the order they are claimed: word by *)
(* word, or with tables generator by generator over a chunk of words.       *)
Images(level) ==
  LET size == IF UsesTables(search) THEN ProbeChunk ELSE 1
      chunk(c) == SubSeq(level, (c - 1) * size + 1, Min({c * size, Len(level)}))
      image(s) == [i \in 1 .. Len(s) * Len(Gens) |->
                     Image(((i - 1) \div Len(s)) + 1, s[((i - 1) % Len(s)) + 1])]
  IN FlattenSeq([c \in 1 .. CeilDiv(Len(level), size) |-> image(chunk(c))])

Sorted(s) == Ascending(ToSet(s))

-----------------------------------------------------------------------------

Init ==
  /\ search \in Searches
  /\ asked = 1
  /\ pc = "walk"
  /\ unsent = <<>>
  /\ sent = 0
  /\ slots = <<>>
  /\ reps = <<>>
  /\ seen = {}
  /\ minima = <<>>
  /\ queue = <<>>
  /\ tasks = <<>>
  /\ open = TRUE
  /\ results = <<>>
  /\ room = 0
  /\ job = [h \in Helpers |-> NoJob]
  /\ probes = [h \in Helpers |-> <<>>]
  /\ part = [h \in Helpers |-> <<>>]
  /\ up = Helpers

(* A new call: its tasks, empty slots and a result channel of capacity n. *)
Call(calls, n) ==
  /\ unsent' = calls
  /\ UNCHANGED askVars
  /\ sent' = 0
  /\ slots' = <<>>
  /\ results' = <<>>
  /\ room' = n

Step(from, to) == pc = from /\ pc' = to

-----------------------------------------------------------------------------
(***************************************************************************)
(* The caller.                                                             *)
(***************************************************************************)

(* Too few dimensions for the pool, or too short a walk to share. *)
WalkAlone ==
  /\ Step("walk", "sort")
  /\ ~Pooled \/ WalkChunks < 2
  /\ reps' = SingularReps
  /\ UNCHANGED <<callVars, minima, queue, seen, tasks, open, results, helperVars>>

SplitWalk ==
  /\ Step("walk", "walkParts")
  /\ Pooled /\ WalkChunks >= 2
  /\ Call([i \in DOMAIN WalkRanges(search) |-> [kind |-> "walk", idx |-> i]], WalkChunks)
  /\ UNCHANGED <<scanVars, seen, tasks, open, helperVars>>

(* `execute`: the task channel is unbounded. *)
SendTask ==
  /\ pc \in {"walkParts", "levelParts"}
  /\ unsent # <<>>
  /\ tasks' = Append(tasks, Head(unsent))
  /\ unsent' = Tail(unsent)
  /\ sent' = sent + 1
  /\ UNCHANGED <<askVars, pc, slots, room, scanVars, seen, open, results, helperVars>>

ReceivePart ==
  /\ pc \in {"walkParts", "levelParts"}
  /\ unsent = <<>>
  /\ results # <<>>
  /\ LET r == Head(results)
     IN slots' = [i \in {r.idx} \cup DOMAIN slots |-> IF i = r.idx THEN r.part ELSE slots[i]]
  /\ results' = Tail(results)
  /\ UNCHANGED <<askVars, pc, unsent, sent, room, scanVars, seen, tasks, open, helperVars>>

AllParts == unsent = <<>> /\ DOMAIN slots = 1 .. sent

(* The parts in range order; the slots go with the call. *)
Concatenation == FlattenSeq([i \in 1 .. Cardinality(DOMAIN slots) |-> slots[i]])

JoinWalk ==
  /\ Step("walkParts", "sort")
  /\ AllParts
  /\ reps' = Concatenation
  /\ slots' = <<>>
  /\ UNCHANGED <<askVars, unsent, sent, room, minima, queue, seen, tasks, open, results, helperVars>>

(* orbit_minima_pooled_impl: without a generator every word is its own orbit. *)
SortReps ==
  /\ IF Gens = <<>>
     THEN Step("sort", "idle") /\ minima' = Sorted(reps) /\ reps' = <<>>
     ELSE Step("sort", "scan") /\ reps' = Sorted(reps) /\ UNCHANGED minima
  /\ UNCHANGED <<callVars, queue, seen, tasks, open, results, helperVars>>

SkipRep ==
  /\ pc = "scan"
  /\ reps # <<>>
  /\ Head(reps) \in seen
  /\ reps' = Tail(reps)
  /\ UNCHANGED <<pc, callVars, minima, queue, seen, tasks, open, results, helperVars>>

NewMinimum ==
  /\ Step("scan", "level")
  /\ reps # <<>>
  /\ Head(reps) \notin seen
  /\ minima' = Append(minima, Head(reps))
  /\ seen' = seen \cup {Head(reps)}
  /\ queue' = <<Head(reps)>>
  /\ reps' = Tail(reps)
  /\ UNCHANGED <<callVars, tasks, open, results, helperVars>>

(* The words of s that are not in the bitset, each where it first occurs. *)
Claimable(s) ==
  Picks(s, {i \in DOMAIN s : s[i] \notin seen /\ \A j \in 1 .. i - 1 : s[j] # s[i]})

(* A small level of the pooled search, on the calling thread. *)
ExpandAlone ==
  /\ pc = "level" /\ Pooled
  /\ Len(queue) \in 1 .. LevelMin - 1
  /\ queue' = Claimable(Images(queue))
  /\ seen' = seen \cup ToSet(queue')
  /\ UNCHANGED <<pc, callVars, reps, minima, tasks, open, results, helperVars>>

(***************************************************************************)
(* The searches without a pool expand every level on the calling thread,   *)
(* on a bitset of their own: orbit_minima_m4r, orbit_minima_walk and       *)
(* aut_orbit_minima_q_table.                                               *)
(***************************************************************************)
Expand ==
  /\ pc = "level" /\ ~Pooled
  /\ queue # <<>>
  /\ queue' = Claimable(Images(queue))
  /\ seen' = seen \cup ToSet(queue')
  /\ UNCHANGED <<pc, callVars, reps, minima, tasks, open, results, helperVars>>

ExpandByTables == UsesTables(search) /\ Expand

ExpandByWalk == search.by = "kernel" /\ ~UsesTables(search) /\ Expand

ExpandByWholeTable == search.by = "table" /\ Expand

SplitLevel ==
  /\ Step("level", "levelParts")
  /\ Pooled
  /\ Len(queue) >= LevelMin
  /\ LET ranges == Ranges(1, Len(queue) + 1, PoolSize)
     IN Call([i \in DOMAIN ranges |->
                [kind |-> "level", idx |-> i,
                 words |-> SubSeq(queue, ranges[i].from, ranges[i].to - 1)]], PoolSize)
  /\ queue' = <<>>
  /\ UNCHANGED <<reps, minima, seen, tasks, open, helperVars>>

JoinLevel ==
  /\ Step("levelParts", "level")
  /\ AllParts
  /\ queue' = Concatenation
  /\ slots' = <<>>
  /\ UNCHANGED <<askVars, unsent, sent, room, reps, minima, seen, tasks, open, results, helperVars>>

OrbitDone ==
  /\ Step("level", "scan")
  /\ queue = <<>>
  /\ UNCHANGED <<callVars, scanVars, seen, tasks, open, results, helperVars>>

ScanDone ==
  /\ Step("scan", "idle")
  /\ reps = <<>>
  /\ UNCHANGED <<callVars, scanVars, seen, tasks, open, results, helperVars>>

(* Mutant: the bitset of the last search is used again.                     *)
NextSearchSameSet ==
  /\ Step("idle", "walk")
  /\ asked < MaxSearches
  /\ search' \in Searches
  /\ asked' = asked + 1
  /\ minima' = <<>>
  /\ UNCHANGED <<unsent, sent, slots, room, reps, queue, seen, tasks, open, results, helperVars>>

(* The seeder has come to the next code: a call with a bitset of its own.   *)
NextSearch ==
  /\ Step("idle", "walk")
  /\ asked < MaxSearches
  /\ search' \in Searches
  /\ asked' = asked + 1
  /\ minima' = <<>>
  /\ seen' = {}
  /\ UNCHANGED <<unsent, sent, slots, room, reps, queue, tasks, open, results, helperVars>>

DropSender ==
  /\ Step("idle", "join")
  /\ open' = FALSE
  /\ UNCHANGED <<callVars, scanVars, seen, tasks, results, helperVars>>

JoinHelpers ==
  /\ Step("join", "done")
  /\ up = {}
  /\ UNCHANGED <<callVars, scanVars, seen, tasks, open, results, helperVars>>

-----------------------------------------------------------------------------
(***************************************************************************)
(* A helper.                                                               *)
(***************************************************************************)

TakeTask(h) ==
  /\ h \in up
  /\ job[h] = NoJob
  /\ tasks # <<>>
  /\ LET t == Head(tasks)
     IN /\ job' = [job EXCEPT ![h] = t]
        /\ part' = [part EXCEPT ![h] = IF t.kind = "walk" THEN WalkParts[search][t.idx] ELSE <<>>]
        /\ probes' = [probes EXCEPT ![h] = IF t.kind = "level" THEN Images(t.words) ELSE <<>>]
  /\ tasks' = Tail(tasks)
  /\ UNCHANGED <<pc, callVars, scanVars, seen, open, results, up>>

(***************************************************************************)
(* Mutant: the bit is read and set in two steps, so that a helper may not  *)
(* see what the others of its level have claimed.                          *)
(***************************************************************************)
WinsBlind(h, x) ==
  x \notin seen \ UNION {ToSet(part[g]) : g \in {g \in Helpers \ {h} : job[g] # NoJob}}

(* fetch_or: only the caller that flips the bit gets the word. *)
Wins(h, x) == x \notin seen

Claim(h) ==
  /\ probes[h] # <<>>
  /\ LET x == Head(probes[h])
     IN /\ seen' = seen \cup {x}
        /\ part' = [part EXCEPT ![h] = IF Wins(h, x) THEN Append(@, x) ELSE @]
  /\ probes' = [probes EXCEPT ![h] = Tail(@)]
  /\ UNCHANGED <<pc, callVars, scanVars, tasks, open, results, job, up>>

SendPart(h) ==
  /\ job[h] # NoJob
  /\ probes[h] = <<>>
  /\ Len(results) < room
  /\ results' = Append(results, [idx |-> job[h].idx, part |-> part[h]])
  /\ job' = [job EXCEPT ![h] = NoJob]
  /\ part' = [part EXCEPT ![h] = <<>>]
  /\ UNCHANGED <<pc, callVars, scanVars, seen, tasks, open, probes, up>>

(* Mutant: the loop goes on when the channel is disconnected. *)
ExitIgnored(h) ==
  /\ h \in up /\ job[h] = NoJob /\ tasks = <<>> /\ ~open
  /\ UNCHANGED vars

(* The receive loop ends when the channel is empty and has no sender left. *)
Exit(h) ==
  /\ h \in up
  /\ job[h] = NoJob
  /\ tasks = <<>>
  /\ ~open
  /\ up' = up \ {h}
  /\ UNCHANGED <<pc, callVars, scanVars, seen, tasks, open, results, job, probes, part>>

-----------------------------------------------------------------------------

Caller ==
  \/ WalkAlone \/ SplitWalk \/ SendTask \/ ReceivePart \/ JoinWalk
  \/ SortReps \/ SkipRep \/ NewMinimum
  \/ ExpandAlone \/ ExpandByTables \/ ExpandByWalk \/ ExpandByWholeTable \/ SplitLevel \/ JoinLevel \/ OrbitDone
  \/ ScanDone \/ NextSearch \/ DropSender \/ JoinHelpers

Helper(h) == TakeTask(h) \/ Claim(h) \/ SendPart(h) \/ Exit(h)

Ended == pc = "done" /\ UNCHANGED vars

Next == Caller \/ (\E h \in Helpers : Helper(h)) \/ Ended

Spec == Init /\ [][Next]_vars

(* Every thread is scheduled. *)
FairSpec == Spec /\ WF_vars(Caller) /\ \A h \in Helpers : WF_vars(Helper(h))

-----------------------------------------------------------------------------
(***************************************************************************)
(* Properties.                                                             *)
(***************************************************************************)

Words == SUBSET (0 .. L - 1)

(* Every variable has its type: the module's type invariant. *)
TypeOK ==
  /\ pc \in {"walk", "walkParts", "sort", "scan", "level", "levelParts", "idle", "join", "done"}
  /\ search \in Searches /\ asked \in 1 .. MaxSearches
  /\ sent \in 0 .. PoolSize /\ room \in 0 .. PoolSize
  /\ Len(unsent) + sent <= PoolSize
  /\ DOMAIN slots \subseteq 1 .. sent
  /\ \A i \in DOMAIN slots : slots[i] \in Seq(Words)
  /\ reps \in Seq(Words) /\ minima \in Seq(Words) /\ queue \in Seq(Words)
  /\ seen \subseteq Words
  /\ open \in BOOLEAN
  /\ Len(results) <= room
  /\ probes \in [Helpers -> Seq(Words)]
  /\ part \in [Helpers -> Seq(Words)]
  /\ up \subseteq Helpers

(***************************************************************************)
(* The range tasks of the walk, each started from a closed form, put       *)
(* together give word for word the list of the sequential walk             *)
(* (orbit.rs: "range-ordered concatenation is byte-identical").            *)
(***************************************************************************)
WalkIsSequential == pc = "sort" => reps = SingularReps

(* What the parts of the current call hold, wherever they are on their way. *)
InFlight ==
  FlattenSeq([i \in 1 .. Cardinality(DOMAIN slots) |-> slots[SetToSeq(DOMAIN slots)[i]]])
    \o FlattenSeq([i \in DOMAIN results |-> results[i].part])
    \o FlattenSeq([i \in 1 .. PoolSize |-> part[SetToSeq(Helpers)[i]]])

(***************************************************************************)
(* Whichever helpers race for a word, exactly one gets it: the parts of a  *)
(* level never hold a word twice (orbit.rs: "each newly-seen element       *)
(* enters the next frontier exactly once").  (And the variables keep their *)
(* types.)                                                                 *)
(***************************************************************************)
ClaimedOnce ==
  /\ TypeOK
  /\ pc = "levelParts" => IsInjective(InFlight)

(***************************************************************************)
(* Between levels, a word that has been seen and is not in the level to    *)
(* expand next has had all its images seen: no helper's range is lost and  *)
(* no level is started before the one before it is complete.               *)
(***************************************************************************)
FrontierComplete ==
  pc = "level" =>
    \A x \in seen \ ToSet(queue) : ToSet(Images(<<x>>)) \subseteq seen

SingularWords == [s \in Searches |-> ToSet(WholeWalk[s])]

GroupMaps ==
  [s \in Searches |->
     {[x \in SingularWords[s] |-> Combination(GensOf(s)[i], x)] : i \in DOMAIN GensOf(s)}]

(* Generators come from automorphisms of the code: they permute the singular words. *)
ASSUME GroupAssumption ==
  \A s \in Searches : \A g \in GroupMaps[s] :
    g \in [SingularWords[s] -> SingularWords[s]] /\ IsInjective(g)

Answered == pc \in {"idle", "join", "done"}

Search == INSTANCE OrbitScan WITH
  Elements <- SingularWords,
  Generators <- GroupMaps,
  request <- search,
  answered <- Answered,
  answer <- IF Answered THEN minima ELSE <<>>

(***************************************************************************)
(* For every interleaving of the helpers, the minima are those of the      *)
(* sequential search: the least word of each orbit, in ascending order     *)
(* (orbit.rs: "EXACTLY the sequential function's output").                 *)
(***************************************************************************)
ImplementsScan == Search!ScanSpec

(***************************************************************************)
(* The calls return and the pool can be dropped: no helper waits for room  *)
(* in a result channel or for a task that never comes.                     *)
(***************************************************************************)
PoolEnds == <>(pc = "done")

=============================================================================

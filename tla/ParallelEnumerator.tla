-------------------------- MODULE ParallelEnumerator --------------------------
(***************************************************************************)
(* The parallel drivers: the main thread walks the tree down to            *)
(* FrontierDepth and sends every class of that rank over a bounded         *)
(* channel; workers take seeds from the channel and walk the subtrees.     *)
(* All threads report mass to a shared tracker in batches, whose per-rank  *)
(* `full` flags let workers skip the rest of a candidate list.  With       *)
(* SelfSubdivide, a worker hands accepted children to idle peers through   *)
(* the same channel and termination is detected with two shared counters.  *)
(*                                                                         *)
(* One action is one access to shared state (channel, atomics, tracker     *)
(* lock) with the thread-local work around it.                             *)
(***************************************************************************)
EXTENDS GenerationTree, Sequences, FiniteSets

CONSTANTS
  Workers,         (* the worker threads                                     *)
  Main,            (* the thread that seeds, then collects the results       *)
  FaultyThreads,   (* threads whose output writer may fail                   *)
  SelfSubdivide,   (* DOUBLY_EVEN_SELF_SUBDIVIDE                             *)
  SubdivideDelta,  (* DOUBLY_EVEN_SELF_SUBDIVIDE_DELTA                       *)
  FrontierDepth,   (* DOUBLY_EVEN_FRONTIER_DEPTH                             *)
  QueueCap,        (* capacity of the task channel                           *)
  FlushInterval,   (* DOUBLY_EVEN_MASS_FLUSH_INTERVAL                        *)
  RelaxedReads,    (* may a relaxed load return an older value?              *)
  NoCode

Threads == Workers \cup {Main}

ASSUME ParallelAssumption ==
  /\ IsFiniteSet(Workers) /\ Workers # {}
  /\ Main \notin Workers
  /\ FaultyThreads \subseteq Threads
  /\ SelfSubdivide \in BOOLEAN
  /\ RelaxedReads \in BOOLEAN
  /\ SubdivideDelta \in Nat
  /\ FrontierDepth \in Nat /\ 2 <= FrontierDepth /\ FrontierDepth < MaxK
  /\ QueueCap \in Nat \ {0}
  /\ FlushInterval \in Nat \ {0}
  /\ NoCode \notin Codes

VARIABLES
  pc,           (* where each thread is                                      *)
  seed,         (* the class a thread's outermost traverse was called on     *)
  cur,          (* the class of its innermost traverse frame                 *)
  stack,        (* the classes of all its frames: a path of the tree         *)
  todo,         (* candidates its frames have not looked at yet              *)
  hand,         (* the accepted class it is about to send                    *)
  queue,        (* the task channel                                          *)
  idle,         (* LoadBalancer.idle_workers                                 *)
  outstanding,  (* LoadBalancer.outstanding                                  *)
  seederDone,   (* LoadBalancer.seeder_done                                  *)
  mass,         (* GlobalMassTracker.mass                                    *)
  full,         (* GlobalMassTracker.full                                    *)
  pending,      (* WorkerState.pending_mass                                  *)
  sinceFlush,   (* WorkerState.emits_since_flush                             *)
  emitted,      (* the classes in each thread's output                       *)
  results,      (* the result channel: workers whose result is in it         *)
  collected,    (* workers whose result the main thread has merged           *)
  flushed       (* history: the classes whose mass a thread has flushed      *)

walkVars == <<seed, cur, stack, todo>>
balanceVars == <<queue, idle, outstanding, seederDone>>
massVars == <<mass, full, pending, sinceFlush, flushed>>
outVars == <<emitted, results, collected>>
vars == <<pc, walkVars, hand, balanceVars, massVars, outVars>>

-----------------------------------------------------------------------------

WorkerPC == {"top", "recv", "readDone", "readOutstanding", "emit", "preloop", "loop",
             "return", "reserve", "send", "rollback", "release", "finish",
             "result", "gone", "panicked"}

MainPC == {"emit", "loop", "return", "reserve", "send", "flush", "signal",
           "collect", "done", "panicked"}

(* A thread in one of these states has dropped its ends of all channels. *)
Over == {"gone", "done", "panicked"}

(***************************************************************************)
(* The candidates of the innermost frame still to be looked at.  The       *)
(* frames lie on a path of the tree, so a candidate's frame is its parent. *)
(***************************************************************************)
Unseen(t) == {x \in todo[t] : Parent[x] = cur[t]}

Emitted == UNION {emitted[t] : t \in Threads}

LoopTop == IF SelfSubdivide THEN "top" ELSE "recv"

NoMass == [k \in Ranks |-> 0]

Init ==
  /\ pc = [t \in Threads |-> IF t = Main THEN "emit" ELSE LoopTop]
  /\ seed = [t \in Threads |-> IF t = Main THEN Root ELSE NoCode]
  /\ cur = seed
  /\ stack = [t \in Threads |-> IF t = Main THEN {Root} ELSE {}]
  /\ todo = [t \in Threads |-> {}]
  /\ hand = [t \in Threads |-> NoCode]
  /\ queue = <<>>
  /\ idle = 0
  /\ outstanding = 0
  /\ seederDone = FALSE
  /\ mass = NoMass
  /\ full = [k \in Ranks |-> Quota[k] = 0]
  /\ pending = [t \in Threads |-> NoMass]
  /\ sinceFlush = [t \in Threads |-> 0]
  /\ emitted = [t \in Threads |-> {}]
  /\ results = {}
  /\ collected = {}
  /\ flushed = [t \in Threads |-> {}]

Goto(t, l) == pc' = [pc EXCEPT ![t] = l]

-----------------------------------------------------------------------------
(***************************************************************************)
(* The shared mass tracker.                                                *)
(***************************************************************************)

(* Mutant: a flag is set by any mass at all, not by the whole quota. *)
AddBatchFlagsEarly(deltas) ==
  /\ mass' = [k \in Ranks |-> mass[k] + deltas[k]]
  /\ full' = [k \in Ranks |-> full[k] \/ deltas[k] # 0]

(* add_batch: ranks with a zero delta keep both their mass and their flag. *)
AddBatch(deltas) ==
  /\ mass' = [k \in Ranks |-> mass[k] + deltas[k]]
  /\ full' = [k \in Ranks |-> full[k] \/ (deltas[k] # 0 /\ mass'[k] >= Quota[k])]

(***************************************************************************)
(* contribute_global_mass for class c, which t has just put in its output: *)
(* the mass waits in t's own buffer until the flush interval is reached.   *)
(***************************************************************************)
Contribute(t, c) ==
  LET buffer == [pending[t] EXCEPT ![Rank[c]] = @ + Contribution(c)]
  IN IF sinceFlush[t] + 1 >= FlushInterval
     THEN /\ AddBatch(buffer)
          /\ pending' = [pending EXCEPT ![t] = NoMass]
          /\ sinceFlush' = [sinceFlush EXCEPT ![t] = 0]
          /\ flushed' = [flushed EXCEPT ![t] = emitted[t] \cup {c}]
     ELSE /\ pending' = [pending EXCEPT ![t] = buffer]
          /\ sinceFlush' = [sinceFlush EXCEPT ![t] = @ + 1]
          /\ UNCHANGED <<mass, full, flushed>>

(* Mutant: the batch is added but the buffer is kept for the next flush. *)
FlushKeepsBuffer(t) ==
  /\ AddBatch(pending[t])
  /\ sinceFlush' = [sinceFlush EXCEPT ![t] = 0]
  /\ flushed' = [flushed EXCEPT ![t] = emitted[t]]
  /\ UNCHANGED pending

(* Mutant: the last batch of a thread is never flushed. *)
FlushNothing(t) == UNCHANGED massVars

(* flush_global_mass outside contribute_global_mass. *)
Flush(t) ==
  /\ AddBatch(pending[t])
  /\ pending' = [pending EXCEPT ![t] = NoMass]
  /\ sinceFlush' = [sinceFlush EXCEPT ![t] = 0]
  /\ flushed' = [flushed EXCEPT ![t] = emitted[t]]

(* What a relaxed load of a flag or of the idle counter may return. *)
MaySeeFull(k) == full[k]
MaySeeNotFull(k) == ~full[k] \/ RelaxedReads
MaySeeIdle == idle > 0 \/ RelaxedReads
MaySeeNoIdle == idle = 0 \/ RelaxedReads

-----------------------------------------------------------------------------
(***************************************************************************)
(* The recursion: traverse (workers) and traverse_seed (main thread).      *)
(***************************************************************************)

(* A call of traverse / traverse_seed on x from inside the loop. *)
Push(t, x) ==
  /\ cur' = [cur EXCEPT ![t] = x]
  /\ stack' = [stack EXCEPT ![t] = @ \cup {x}]
  /\ UNCHANGED seed

(* Mutant: the loop does not move past the candidate. *)
DropNothing(t, xs) == UNCHANGED todo

(* The loop moves past candidates xs. *)
Drop(t, xs) == todo' = [todo EXCEPT ![t] = @ \ xs]

(* Mutant: classes above the frontier are walked but not written. *)
OutputFromWorkers(t, c) ==
  emitted' = IF t = Main THEN emitted ELSE [emitted EXCEPT ![t] = @ \cup {c}]

(* Record c in the thread's output: counts_hist, output_writer or output. *)
Output(t, c) == emitted' = [emitted EXCEPT ![t] = @ \cup {c}]

(***************************************************************************)
(* The head of traverse and traverse_seed: write the class out and report  *)
(* its mass.                                                               *)
(***************************************************************************)
Emit(t) ==
  /\ pc[t] = "emit"
  /\ Output(t, cur[t])
  /\ Contribute(t, cur[t])
  /\ IF Rank[cur[t]] >= MaxK
     THEN Goto(t, "return") /\ UNCHANGED todo
     ELSE IF t = Main
     THEN Goto(t, "loop") /\ todo' = [todo EXCEPT ![t] = @ \cup Candidates(cur[t])]
     ELSE Goto(t, "preloop") /\ UNCHANGED todo
  /\ UNCHANGED <<seed, cur, stack, hand, balanceVars, results, collected>>

(* The mass-stop before candidates are generated. *)
StopBeforeLoop(w) ==
  /\ pc[w] = "preloop"
  /\ MaySeeFull(Rank[cur[w]] + 1)
  /\ Goto(w, "return")
  /\ UNCHANGED <<walkVars, hand, balanceVars, massVars, outVars>>

GenerateCandidates(w) ==
  /\ pc[w] = "preloop"
  /\ MaySeeNotFull(Rank[cur[w]] + 1)
  /\ todo' = [todo EXCEPT ![w] = @ \cup Candidates(cur[w])]
  /\ Goto(w, "loop")
  /\ UNCHANGED <<seed, cur, stack, hand, balanceVars, massVars, outVars>>

(* The mass-stop inside the loop: the remaining candidates are skipped. *)
StopInLoop(w) ==
  /\ pc[w] = "loop"
  /\ Unseen(w) # {}
  /\ MaySeeFull(Rank[cur[w]] + 1)
  /\ Drop(w, Unseen(w))
  /\ Goto(w, "return")
  /\ UNCHANGED <<seed, cur, stack, hand, balanceVars, massVars, outVars>>

(* The loop goes on to its next candidate; the seeder never mass-stops. *)
MayContinue(t) == t = Main \/ MaySeeNotFull(Rank[cur[t]] + 1)

RejectCandidate(t) ==
  /\ pc[t] = "loop"
  /\ MayContinue(t)
  /\ \E x \in Unseen(t) \cap Rejects : Drop(t, {x})
  /\ UNCHANGED <<pc, seed, cur, stack, hand, balanceVars, massVars, outVars>>

(* The donation gate, tested on the parent. *)
Shallow(c) == SelfSubdivide /\ Rank[c] <= FrontierDepth + SubdivideDelta

RecurseIntoChild(w) ==
  /\ pc[w] = "loop"
  /\ MayContinue(w)
  /\ ~Shallow(cur[w]) \/ MaySeeNoIdle
  /\ \E x \in Unseen(w) \cap Codes : Drop(w, {x}) /\ Push(w, x)
  /\ Goto(w, "emit")
  /\ UNCHANGED <<hand, balanceVars, massVars, outVars>>

OfferChild(w) ==
  /\ pc[w] = "loop"
  /\ MayContinue(w)
  /\ Shallow(cur[w]) /\ MaySeeIdle
  /\ \E x \in Unseen(w) \cap Codes : Drop(w, {x}) /\ hand' = [hand EXCEPT ![w] = x]
  /\ Goto(w, "reserve")
  /\ UNCHANGED <<seed, cur, stack, balanceVars, massVars, outVars>>

(* Mutant: no count is taken for the seed. *)
ReserveNothing(t) ==
  /\ pc[t] = "reserve"
  /\ Goto(t, "send")
  /\ UNCHANGED <<walkVars, hand, balanceVars, massVars, outVars>>

(* The count is taken before the seed becomes visible in the channel. *)
Reserve(t) ==
  /\ pc[t] = "reserve"
  /\ outstanding' = outstanding + 1
  /\ Goto(t, "send")
  /\ UNCHANGED <<walkVars, hand, queue, idle, seederDone, massVars, outVars>>

(***************************************************************************)
(* try_send.  The worker holds a receiver of the channel itself, so the    *)
(* only failure is a full channel.                                         *)
(***************************************************************************)
DonateChild(w) ==
  /\ pc[w] = "send"
  /\ Len(queue) < QueueCap
  /\ queue' = Append(queue, hand[w])
  /\ hand' = [hand EXCEPT ![w] = NoCode]
  /\ Goto(w, "loop")
  /\ UNCHANGED <<walkVars, idle, outstanding, seederDone, massVars, outVars>>

DonationRefused(w) ==
  /\ pc[w] = "send"
  /\ Len(queue) >= QueueCap
  /\ Goto(w, "rollback")
  /\ UNCHANGED <<walkVars, hand, balanceVars, massVars, outVars>>

RollBack(w) ==
  /\ pc[w] = "rollback"
  /\ outstanding' = outstanding - 1
  /\ Push(w, hand[w])
  /\ hand' = [hand EXCEPT ![w] = NoCode]
  /\ Goto(w, "emit")
  /\ UNCHANGED <<todo, queue, idle, seederDone, massVars, outVars>>

LoopDone(t) ==
  /\ pc[t] = "loop"
  /\ Unseen(t) = {}
  /\ Goto(t, "return")
  /\ UNCHANGED <<walkVars, hand, balanceVars, massVars, outVars>>

(* The innermost frame returns to its caller. *)
ReturnToLoop(t) ==
  /\ pc[t] = "return"
  /\ cur[t] # seed[t]
  /\ cur' = [cur EXCEPT ![t] = Parent[cur[t]]]
  /\ stack' = [stack EXCEPT ![t] = @ \ {cur[t]}]
  /\ Goto(t, "loop")
  /\ UNCHANGED <<seed, todo, hand, balanceVars, massVars, outVars>>

ReturnFromSeed(t) ==
  /\ pc[t] = "return"
  /\ cur[t] = seed[t]
  /\ cur' = [cur EXCEPT ![t] = NoCode]
  /\ seed' = [seed EXCEPT ![t] = NoCode]
  /\ stack' = [stack EXCEPT ![t] = {}]
  /\ Goto(t, IF t = Main THEN "flush" ELSE IF SelfSubdivide THEN "release" ELSE "recv")
  /\ UNCHANGED <<todo, hand, balanceVars, massVars, outVars>>

-----------------------------------------------------------------------------
(***************************************************************************)
(* run_worker_loop and the end of a worker thread.                         *)
(***************************************************************************)

BecomeIdle(w) ==
  /\ pc[w] = "top"
  /\ idle' = idle + 1
  /\ Goto(w, "recv")
  /\ UNCHANGED <<walkVars, hand, queue, outstanding, seederDone, massVars, outVars>>

(* With SelfSubdivide the worker leaves the idle count right after. *)
Receive(w) ==
  /\ pc[w] = "recv"
  /\ queue # <<>>
  /\ seed' = [seed EXCEPT ![w] = Head(queue)]
  /\ cur' = [cur EXCEPT ![w] = Head(queue)]
  /\ stack' = [stack EXCEPT ![w] = {Head(queue)}]
  /\ queue' = Tail(queue)
  /\ idle' = IF SelfSubdivide THEN idle - 1 ELSE idle
  /\ Goto(w, "emit")
  /\ UNCHANGED <<todo, hand, outstanding, seederDone, massVars, outVars>>

(* recv_timeout gives up only when it finds the channel empty. *)
Timeout(w) ==
  /\ SelfSubdivide
  /\ pc[w] = "recv"
  /\ queue = <<>>
  /\ idle' = idle - 1
  /\ Goto(w, "readDone")
  /\ UNCHANGED <<walkVars, hand, queue, outstanding, seederDone, massVars, outVars>>

(* Mutant: the counter is read whether or not the seeder has finished. *)
ReadCounterOnly(w) ==
  /\ pc[w] = "readDone"
  /\ Goto(w, "readOutstanding")
  /\ UNCHANGED <<walkVars, hand, balanceVars, massVars, outVars>>

ReadSeederDone(w) ==
  /\ pc[w] = "readDone"
  /\ Goto(w, IF seederDone THEN "readOutstanding" ELSE "top")
  /\ UNCHANGED <<walkVars, hand, balanceVars, massVars, outVars>>

ReadOutstanding(w) ==
  /\ pc[w] = "readOutstanding"
  /\ Goto(w, IF outstanding = 0 THEN "finish" ELSE "top")
  /\ UNCHANGED <<walkVars, hand, balanceVars, massVars, outVars>>

(* Mutant: a closed channel is taken for an empty one and asked again. *)
DisconnectedRetries(w) ==
  /\ ~SelfSubdivide
  /\ pc[w] = "recv"
  /\ queue = <<>>
  /\ pc[Main] \in {"collect", "done", "panicked"}
  /\ UNCHANGED vars

(* Without SelfSubdivide, recv fails once the seeder has dropped task_tx. *)
Disconnected(w) ==
  /\ ~SelfSubdivide
  /\ pc[w] = "recv"
  /\ queue = <<>>
  /\ pc[Main] \in {"collect", "done", "panicked"}
  /\ Goto(w, "finish")
  /\ UNCHANGED <<walkVars, hand, balanceVars, massVars, outVars>>

(* Mutant: the finished seed keeps its count. *)
ReleaseNothing(w) ==
  /\ pc[w] = "release"
  /\ Goto(w, "top")
  /\ UNCHANGED <<walkVars, hand, balanceVars, massVars, outVars>>

ReleaseSeed(w) ==
  /\ pc[w] = "release"
  /\ outstanding' = outstanding - 1
  /\ Goto(w, "top")
  /\ UNCHANGED <<walkVars, hand, queue, idle, seederDone, massVars, outVars>>

FlushWorker(w) ==
  /\ pc[w] = "finish"
  /\ Flush(w)
  /\ Goto(w, "result")
  /\ UNCHANGED <<walkVars, hand, balanceVars, outVars>>

SendResult(w) ==
  /\ pc[w] = "result"
  /\ results' = results \cup {w}
  /\ Goto(w, "gone")
  /\ UNCHANGED <<walkVars, hand, balanceVars, massVars, emitted, collected>>

(***************************************************************************)
(* write_class fails, or the flush of the writer in finalize does.  The    *)
(* unwinding thread drops its channel ends, but releases neither the count *)
(* it holds in `outstanding` nor the mass it has not flushed.  The main    *)
(* thread finalizes its own output before it waits for the first result.   *)
(***************************************************************************)
WriterFails(t) ==
  /\ t \in FaultyThreads
  /\ pc[t] \in {"emit", "result", "collect"}
  /\ pc[t] = "collect" => collected = {}
  /\ Goto(t, "panicked")
  /\ UNCHANGED <<walkVars, hand, balanceVars, massVars, outVars>>

-----------------------------------------------------------------------------
(***************************************************************************)
(* The main thread: seeding, then collecting.                              *)
(***************************************************************************)

(* traverse_seed on an accepted child below the frontier: recurse. *)
SeederRecurse ==
  /\ pc[Main] = "loop"
  /\ \E x \in Unseen(Main) \cap Codes :
       /\ Rank[x] # FrontierDepth
       /\ Drop(Main, {x})
       /\ Push(Main, x)
  /\ Goto(Main, "emit")
  /\ UNCHANGED <<hand, balanceVars, massVars, outVars>>

(* traverse_seed on an accepted child at the frontier: send it. *)
SeederOffer ==
  /\ pc[Main] = "loop"
  /\ \E x \in Unseen(Main) \cap Codes :
       /\ Rank[x] = FrontierDepth
       /\ Drop(Main, {x})
       /\ hand' = [hand EXCEPT ![Main] = x]
  /\ Goto(Main, IF SelfSubdivide THEN "reserve" ELSE "send")
  /\ UNCHANGED <<seed, cur, stack, balanceVars, massVars, outVars>>

SendSeed ==
  /\ pc[Main] = "send"
  /\ Len(queue) < QueueCap
  /\ \E w \in Workers : pc[w] \notin Over
  /\ queue' = Append(queue, hand[Main])
  /\ hand' = [hand EXCEPT ![Main] = NoCode]
  /\ Goto(Main, "loop")
  /\ UNCHANGED <<walkVars, idle, outstanding, seederDone, massVars, outVars>>

(* "worker pool closed before seeder finished" *)
SendFails ==
  /\ pc[Main] = "send"
  /\ \A w \in Workers : pc[w] \in Over
  /\ Goto(Main, "panicked")
  /\ UNCHANGED <<walkVars, hand, balanceVars, massVars, outVars>>

FlushSeeder ==
  /\ pc[Main] = "flush"
  /\ Flush(Main)
  /\ Goto(Main, "signal")
  /\ UNCHANGED <<walkVars, hand, balanceVars, outVars>>

(* Store seeder_done, then drop task_tx: one of the two ends the workers. *)
FinishSeeding ==
  /\ pc[Main] = "signal"
  /\ seederDone' = SelfSubdivide
  /\ Goto(Main, "collect")
  /\ UNCHANGED <<walkVars, hand, queue, idle, outstanding, massVars, outVars>>

CollectResult ==
  /\ pc[Main] = "collect"
  /\ \E w \in results :
       /\ results' = results \ {w}
       /\ collected' = collected \cup {w}
  /\ UNCHANGED <<pc, walkVars, hand, balanceVars, massVars, emitted>>

(* Mutant: the driver returns what it has when a worker hangs up. *)
CollectGivesUp ==
  /\ pc[Main] = "collect"
  /\ results = {}
  /\ collected # Workers
  /\ \A w \in Workers : pc[w] \in Over
  /\ Goto(Main, "done")
  /\ UNCHANGED <<walkVars, hand, balanceVars, massVars, outVars>>

(* "worker thread hung up before sending result" *)
CollectFails ==
  /\ pc[Main] = "collect"
  /\ results = {}
  /\ collected # Workers
  /\ \A w \in Workers : pc[w] \in Over
  /\ Goto(Main, "panicked")
  /\ UNCHANGED <<walkVars, hand, balanceVars, massVars, outVars>>

(* Join the workers, then assert_mass_matches_quota on the snapshot. *)
MassGate ==
  /\ pc[Main] = "collect"
  /\ collected = Workers
  /\ \A w \in Workers : pc[w] \in Over
  /\ Goto(Main, IF \A k \in Ranks : mass[k] = Quota[k] THEN "done" ELSE "panicked")
  /\ UNCHANGED <<walkVars, hand, balanceVars, massVars, outVars>>

-----------------------------------------------------------------------------

WorkerLoop(w) ==
  \/ BecomeIdle(w) \/ Receive(w) \/ Timeout(w) \/ ReadSeederDone(w)
  \/ ReadOutstanding(w) \/ Disconnected(w) \/ ReleaseSeed(w)
  \/ FlushWorker(w) \/ SendResult(w)

WorkerTraverse(w) ==
  \/ StopBeforeLoop(w) \/ GenerateCandidates(w) \/ StopInLoop(w)
  \/ RecurseIntoChild(w) \/ OfferChild(w)
  \/ DonateChild(w) \/ DonationRefused(w) \/ RollBack(w)

Walk(t) ==
  \/ Emit(t) \/ RejectCandidate(t) \/ Reserve(t)
  \/ LoopDone(t) \/ ReturnToLoop(t) \/ ReturnFromSeed(t)

WorkerStep(w) == WorkerLoop(w) \/ WorkerTraverse(w) \/ Walk(w)

MainStep ==
  \/ Walk(Main) \/ SeederRecurse \/ SeederOffer \/ SendSeed \/ SendFails
  \/ FlushSeeder \/ FinishSeeding \/ CollectResult \/ CollectFails \/ MassGate

(* The driver has returned or panicked and every worker thread has ended. *)
Ended ==
  /\ \A t \in Threads : pc[t] \in Over
  /\ UNCHANGED vars

Next ==
  \/ MainStep
  \/ \E w \in Workers : WorkerStep(w)
  \/ \E t \in Threads : WriterFails(t)
  \/ Ended

Spec == Init /\ [][Next]_vars

(* Every thread that can run is eventually scheduled; nothing forces a panic. *)
Fairness == WF_vars(MainStep) /\ \A w \in Workers : WF_vars(WorkerStep(w))

FairSpec == Spec /\ Fairness

-----------------------------------------------------------------------------
(***************************************************************************)
(* Properties.                                                             *)
(***************************************************************************)

(* Every variable stays in its range; the counters never go below zero.    *)
TypeOK ==
  /\ pc \in [Threads -> WorkerPC \cup MainPC]
  /\ pc[Main] \in MainPC
  /\ \A w \in Workers : pc[w] \in WorkerPC
  /\ seed \in [Threads -> Codes \cup {NoCode}]
  /\ cur \in [Threads -> Codes \cup {NoCode}]
  /\ stack \in [Threads -> SUBSET Codes]
  /\ todo \in [Threads -> SUBSET ((Codes \ {Root}) \cup Rejects)]
  /\ hand \in [Threads -> Codes \cup {NoCode}]
  /\ queue \in Seq(Codes)
  /\ idle \in Nat
  /\ outstanding \in Nat
  /\ seederDone \in BOOLEAN
  /\ mass \in [Ranks -> Nat]
  /\ full \in [Ranks -> BOOLEAN]
  /\ pending \in [Threads -> [Ranks -> Nat]]
  /\ sinceFlush \in [Threads -> Nat]
  /\ emitted \in [Threads -> SUBSET Codes]
  /\ results \subseteq Workers
  /\ collected \subseteq Workers
  /\ flushed \in [Threads -> SUBSET Codes]

(***************************************************************************)
(* No class is output twice, by one thread or by two: the class a thread   *)
(* is about to emit is in no output, and outputs are disjoint.  A donated  *)
(* child must not be kept by its donor, a refused one not lost twice.      *)
(***************************************************************************)
EmittedOnce ==
  /\ \A t \in Threads : pc[t] = "emit" => cur[t] \notin Emitted
  /\ \A s, t \in Threads : s # t => emitted[s] \cap emitted[t] = {}

(***************************************************************************)
(* "A stale full flag can only over-search, never under-search": when a    *)
(* rank is flagged full, all its classes with any mass have been emitted,  *)
(* however the threads' batches were flushed.                              *)
(***************************************************************************)
FullMeansAllEmitted ==
  \A k \in Ranks : full[k] => OfRank(Codes, k) \subseteq Emitted

(***************************************************************************)
(* Batching loses and repeats nothing: the tracker holds the mass of the   *)
(* flushed classes, a thread's buffer that of its others.                  *)
(***************************************************************************)
MassConserved ==
  /\ \A k \in Ranks :
       mass[k] = Mass[OfRank(UNION {flushed[t] : t \in Threads}, k)]
  /\ \A t \in Threads, k \in Ranks :
       pending[t][k] = Mass[OfRank(emitted[t] \ flushed[t], k)]

(* Workers in the middle of a seed; threads that counted a seed in advance. *)
Holding == {w \in Workers : seed[w] # NoCode \/ pc[w] = "release"}
Reserving == {t \in Threads : hand[t] # NoCode /\ pc[t] # "reserve"}

(***************************************************************************)
(* The termination counter counts exactly the seeds in the channel, the    *)
(* seeds being walked and the reservations made for seeds not yet visible. *)
(***************************************************************************)
OutstandingExact ==
  SelfSubdivide =>
    outstanding = Len(queue) + Cardinality(Holding) + Cardinality(Reserving)

(***************************************************************************)
(* A worker leaves its loop only when no seed is left anywhere: not in the *)
(* channel, not being walked by a peer, not about to be sent.              *)
(***************************************************************************)
NoEarlyExit ==
  (\E w \in Workers : pc[w] \in {"finish", "result", "gone"}) =>
    /\ queue = <<>>
    /\ pc[Main] \in {"collect", "done", "panicked"}
    /\ SelfSubdivide => Holding = {}

(***************************************************************************)
(* A driver that returns has merged the output of every thread, and those  *)
(* outputs hold every class; without a failing writer it never panics.     *)
(***************************************************************************)
ReturnsEverything ==
  /\ pc[Main] = "done" => /\ collected = Workers
                          /\ Emitted = Codes
  /\ FaultyThreads = {} => pc[Main] # "panicked"

(* The driver implements the abstract enumeration. *)
Abstract == INSTANCE Enumeration
  WITH emitted <- Emitted, returned <- (pc[Main] = "done")

ImplementsEnumeration == Abstract!EnumSpec

(* The driver returns, whichever way seeds, donations and timeouts fall. *)
EventuallyReturns == <>(pc[Main] = "done")

(***************************************************************************)
(* "worker thread hung up before sending result": when a thread dies on a  *)
(* failed write, the driver panics too.  It never waits for it forever.    *)
(***************************************************************************)
PanicSurfaces == (\E t \in Threads : pc[t] = "panicked") ~> (pc[Main] = "panicked")

(* Once the driver is over, no worker thread stays behind. *)
WorkersEnd == (pc[Main] \in Over) ~> (\A w \in Workers : pc[w] \in Over)

=============================================================================

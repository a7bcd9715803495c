---------------------------- MODULE CountsProgress ----------------------------
(***************************************************************************)
(* The counts-only drivers with their progress watcher, and the command    *)
(* that shows the run's progress.  Threads report the mass of the classes  *)
(* they emit to a shared tracker in batches; the watcher publishes the     *)
(* tracker in progress.json by writing a temporary file and renaming it;   *)
(* `dec progress` reads the file until it says that the run is done.       *)
(*                                                                         *)
(* How the threads share the tree is ParallelEnumerator's subject: here    *)
(* they take classes from a common supply, each class has mass one and     *)
(* lies in the one rank that is counted, and Quota is the number of them.  *)
(* A worker walks a seed, some classes of the supply, and receives the     *)
(* next; how it learns that there is none left depends on the setting of   *)
(* self-subdivision, and so does what a panic in a walk means to the rest. *)
(* With no workers the module is the sequential driver.                    *)
(***************************************************************************)
EXTENDS Integers, FiniteSets, FiniteSetsExt

CONSTANTS
  Workers,        (* the worker threads; none in the sequential driver       *)
  Main,           (* the driver's own thread, which emits classes as well    *)
  FaultyThreads,  (* threads that may panic while they walk the tree         *)
  Settings,       (* of DOUBLY_EVEN_SELF_SUBDIVIDE: on unless it is set to 0 *)
  Quota,          (* the mass-formula total                                  *)
  FlushInterval,  (* DOUBLY_EVEN_MASS_FLUSH_INTERVAL                         *)
  DiskFails,      (* may a write or a rename of the snapshot fail?           *)
  StaleFile       (* may an earlier run's progress.json still be there?      *)

Threads == Workers \cup {Main}

ASSUME ProgressAssumption ==
  /\ IsFiniteSet(Workers) /\ Main \notin Workers
  /\ FaultyThreads \subseteq Threads
  /\ Settings \subseteq BOOLEAN
  /\ Quota \in Nat
  /\ FlushInterval \in Nat \ {0}
  /\ DiskFails \in BOOLEAN /\ StaleFile \in BOOLEAN

VARIABLES
  selfSubdivide,  (* the setting of this run, which never changes           *)
  supply,    (* classes nobody has emitted yet                              *)
  pc,        (* where each thread is                                        *)
  emitted,   (* the classes a thread has folded into its counts             *)
  pending,   (* WorkerState.pending_mass, and emits_since_flush: each       *)
             (* class has mass one, so the two are the same number          *)
  tracker,   (* GlobalMassTracker.mass                                      *)
  merged,    (* the threads whose counts the driver has merged              *)
  result,    (* the driver's copy of the mass, which the gate tests         *)
  stop,      (* the watcher's stop flag                                     *)
  wpc,       (* where the watcher is                                        *)
  snap,      (* the snapshot it is writing                                  *)
  tmp,       (* progress.json.tmp                                           *)
  file,      (* progress.json                                               *)
  rpc,       (* where `dec progress` is                                     *)
  shown      (* the snapshot it shows                                       *)

threadVars == <<supply, emitted, pending, tracker>>
driverVars == <<pc, merged, result, stop>>
watcherVars == <<wpc, snap, tmp, file>>
readerVars == <<rpc, shown>>
vars == <<selfSubdivide, threadVars, driverVars, watcherVars, readerVars>>

Sequential == Workers = {}

-----------------------------------------------------------------------------

Absent == [kind |-> "absent"]
Torn == [kind |-> "torn"]          (* created and not yet written in full   *)
Whole(run, done, mass) == [kind |-> "whole", run |-> run, done |-> done, mass |-> mass]

Snapshots == [kind : {"whole"}, run : {"this", "earlier"}, done : BOOLEAN, mass : 0 .. Quota]
Contents == Snapshots \cup {Absent, Torn}

TypeOK ==
  /\ selfSubdivide \in Settings
  /\ supply \in 0 .. Quota
  /\ pc \in [Threads -> {"recv", "walk", "flush", "report", "gone", "collect", "snapshot",
                         "stop", "join", "gate", "returned", "panicked"}]
  /\ emitted \in [Threads -> 0 .. Quota]
  /\ pending \in [Threads -> 0 .. Quota]
  /\ tracker \in 0 .. Quota
  /\ merged \subseteq Threads
  /\ result \in 0 .. Quota
  /\ stop \in BOOLEAN
  /\ wpc \in {"begin", "create", "fill", "rename", "poll", "sleep", "end"}
  /\ snap \in Snapshots \cup {Absent}
  /\ tmp \in Contents
  /\ file \in Contents
  /\ rpc \in {"wait", "read", "exited"}
  /\ shown \in Contents

Init ==
  /\ selfSubdivide \in Settings
  /\ supply = Quota
  /\ pc = [t \in Threads |-> IF t = Main THEN "walk" ELSE "recv"]
  /\ emitted = [t \in Threads |-> 0]
  /\ pending = [t \in Threads |-> 0]
  /\ tracker = 0
  /\ merged = {}
  /\ result = 0
  /\ stop = FALSE
  /\ wpc = "begin"
  /\ snap = Absent
  /\ tmp = Absent
  /\ file \in {Absent} \cup (IF StaleFile THEN {Whole("earlier", TRUE, Quota)} ELSE {})
  /\ rpc = "wait"
  /\ shown = Absent

-----------------------------------------------------------------------------
(* The threads that walk the tree.                                          *)

(* Mutant: the batch replaces the total. *)
FlushAssigns(t, mass) ==
  /\ tracker' = mass
  /\ pending' = [pending EXCEPT ![t] = 0]

Flush(t, mass) ==
  /\ tracker' = tracker + mass
  /\ pending' = [pending EXCEPT ![t] = 0]

(* Mutant: the buffer is sent and emptied before the class is added to it.  *)
EmitAfterFlush(t) ==
  /\ pc[t] \in {"recv", "walk"} /\ supply > 0
  /\ pc' = [pc EXCEPT ![t] = "walk"]
  /\ supply' = supply - 1
  /\ emitted' = [emitted EXCEPT ![t] = @ + 1]
  /\ \/ /\ pending[t] + 1 >= FlushInterval
        /\ Flush(t, pending[t])
     \/ /\ pending[t] + 1 < FlushInterval
        /\ pending' = [pending EXCEPT ![t] = @ + 1]
        /\ UNCHANGED tracker
  /\ UNCHANGED <<merged, result, stop, watcherVars, readerVars>>

(* A class is folded into the counts, and its mass goes to the pending     *)
(* buffer; every FlushInterval classes the buffer goes to the tracker.  A  *)
(* worker that has received a seed emits the seed's own class first.       *)
EmitClass(t) ==
  /\ pc[t] \in {"recv", "walk"} /\ supply > 0
  /\ pc' = [pc EXCEPT ![t] = "walk"]
  /\ supply' = supply - 1
  /\ emitted' = [emitted EXCEPT ![t] = @ + 1]
  /\ \/ /\ pending[t] + 1 >= FlushInterval
        /\ Flush(t, pending[t] + 1)
     \/ /\ pending[t] + 1 < FlushInterval
        /\ pending' = [pending EXCEPT ![t] = @ + 1]
        /\ UNCHANGED tracker
  /\ UNCHANGED <<merged, result, stop, watcherVars, readerVars>>

(* The seeder stops at the frontier and leaves the rest to the workers;    *)
(* the sequential driver walks it all and goes on without a flush.         *)
SeederDone ==
  /\ pc[Main] = "walk"
  /\ Sequential => supply = 0
  /\ pc' = [pc EXCEPT ![Main] = IF Sequential THEN "snapshot" ELSE "flush"]
  /\ UNCHANGED <<threadVars, merged, result, stop, watcherVars, readerVars>>

(* Every worker has died, and with it the receiving end of the channel:     *)
(* the seeder's `send` fails and its `expect` panics.                       *)
SeedingFails ==
  /\ pc[Main] = "walk" /\ supply > 0
  /\ ~ Sequential /\ \A w \in Workers : pc[w] = "panicked"
  /\ pc' = [pc EXCEPT ![Main] = "panicked"]
  /\ UNCHANGED <<threadVars, merged, result, stop, watcherVars, readerVars>>

(* The walk of a seed is over, and with self-subdivision its count is       *)
(* released.                                                                *)
SeedDone(w) ==
  /\ pc[w] = "walk"
  /\ pc' = [pc EXCEPT ![w] = "recv"]
  /\ UNCHANGED <<threadVars, merged, result, stop, watcherVars, readerVars>>

(* A worker inside a walk, or that died inside one, holds a seed: classes   *)
(* of the supply may be its own, and its count in `outstanding` stays.      *)
HoldsSeed(v) == pc[v] \in {"walk", "panicked"}

(* With self-subdivision the workers hold senders themselves, and leave on  *)
(* the two counters: the seeder has finished, which one that unwinds never  *)
(* says, and every seed that ever was is released.                          *)
LeavesByCounters ==
  /\ pc[Main] \notin {"walk", "flush", "panicked"}
  /\ supply = 0
  /\ \A v \in Workers : ~ HoldsSeed(v)

(* Without it they leave when the channel is empty and the seeder, finished *)
(* or unwound, has dropped its sender: no class is left but in the walks of *)
(* other workers and in what a panic has lost.                              *)
LeavesByDisconnect ==
  /\ pc[Main] \notin {"walk", "flush"}
  /\ \/ supply = 0
     \/ \E v \in Workers : HoldsSeed(v)
     \/ pc[Main] = "panicked"

Leave(w) ==
  /\ pc[w] = "recv"
  /\ pc' = [pc EXCEPT ![w] = "flush"]
  /\ UNCHANGED <<threadVars, merged, result, stop, watcherVars, readerVars>>

(* Mutant: the counters decide whatever the setting is.                     *)
WorkerDoneByCounters(w) ==
  /\ LeavesByCounters
  /\ Leave(w)

(* The end of a worker's loop.                                              *)
WorkerDone(w) ==
  /\ IF selfSubdivide THEN LeavesByCounters ELSE LeavesByDisconnect
  /\ Leave(w)

(* Mutant: the last batch of a thread is forgotten.                         *)
ReportUnflushed(t) ==
  /\ pc[t] = "flush"
  /\ pc' = [pc EXCEPT ![t] = IF t = Main THEN "collect" ELSE "report"]
  /\ UNCHANGED <<supply, emitted, pending, tracker, merged, result, stop, watcherVars, readerVars>>

FlushLast(t) ==
  /\ pc[t] = "flush"
  /\ Flush(t, pending[t])
  /\ pc' = [pc EXCEPT ![t] = IF t = Main THEN "collect" ELSE "report"]
  /\ UNCHANGED <<supply, emitted, merged, result, stop, watcherVars, readerVars>>

Report(w) ==
  /\ pc[w] = "report"
  /\ pc' = [pc EXCEPT ![w] = "gone"]
  /\ UNCHANGED <<threadVars, merged, result, stop, watcherVars, readerVars>>

(* A panic unwinds the thread: what it has pending is lost with it.         *)
Panic(t) ==
  /\ t \in FaultyThreads /\ pc[t] = "walk"
  /\ pc' = [pc EXCEPT ![t] = "panicked"]
  /\ UNCHANGED <<threadVars, merged, result, stop, watcherVars, readerVars>>

-----------------------------------------------------------------------------
(* The driver's thread, after its own walk.                                 *)

(* Its own counts are the fold it merges the workers' into.                 *)
Collect(w) ==
  /\ pc[Main] = "collect"
  /\ pc[w] = "gone" /\ w \notin merged
  /\ merged' = merged \cup {w}
  /\ UNCHANGED <<threadVars, pc, result, stop, watcherVars, readerVars>>

Collected ==
  /\ pc[Main] = "collect"
  /\ Workers \subseteq merged
  /\ pc' = [pc EXCEPT ![Main] = "snapshot"]
  /\ UNCHANGED <<threadVars, merged, result, stop, watcherVars, readerVars>>

(* All senders are gone and a result is missing: recv's `expect` panics,    *)
(* and nobody sets the watcher's stop flag any more.                        *)
CollectFails ==
  /\ pc[Main] = "collect"
  /\ \A w \in Workers : w \in merged \/ pc[w] = "panicked"
  /\ ~ Workers \subseteq merged
  /\ pc' = [pc EXCEPT ![Main] = "panicked"]
  /\ UNCHANGED <<threadVars, merged, result, stop, watcherVars, readerVars>>

(* Mutant: the driver's own counts are left out of the fold.                *)
ReadMassOnly ==
  /\ pc[Main] = "snapshot"
  /\ result' = IF Sequential THEN emitted[Main] ELSE tracker
  /\ pc' = [pc EXCEPT ![Main] = "stop"]
  /\ UNCHANGED <<threadVars, merged, stop, watcherVars, readerVars>>

(* The parallel driver reads the tracker, the sequential one its own mass.  *)
ReadMass ==
  /\ pc[Main] = "snapshot"
  /\ result' = IF Sequential THEN emitted[Main] ELSE tracker
  /\ merged' = merged \cup {Main}
  /\ pc' = [pc EXCEPT ![Main] = "stop"]
  /\ UNCHANGED <<threadVars, stop, watcherVars, readerVars>>

StopWatcher ==
  /\ pc[Main] = "stop"
  /\ stop' = TRUE
  /\ pc' = [pc EXCEPT ![Main] = "join"]
  /\ UNCHANGED <<threadVars, merged, result, watcherVars, readerVars>>

JoinWatcher ==
  /\ pc[Main] = "join" /\ wpc = "end"
  /\ pc' = [pc EXCEPT ![Main] = "gate"]
  /\ UNCHANGED <<threadVars, merged, result, stop, watcherVars, readerVars>>

(* assert_mass_matches_quota                                                *)
Gate ==
  /\ pc[Main] = "gate"
  /\ pc' = [pc EXCEPT ![Main] = IF result = Quota THEN "returned" ELSE "panicked"]
  /\ UNCHANGED <<threadVars, merged, result, stop, watcherVars, readerVars>>

-----------------------------------------------------------------------------
(* The watcher.                                                             *)

(* The snapshot is taken before the file is touched.                        *)
TakeSnapshot(done) ==
  /\ snap' = Whole("this", done, tracker)
  /\ wpc' = "create"
  /\ UNCHANGED <<tmp, file>>

Begin ==
  /\ wpc = "begin"
  /\ TakeSnapshot(FALSE)

(* Mutant: a stopped watcher leaves without the final snapshot.             *)
PollNoFinal ==
  /\ wpc = "poll"
  /\ \/ stop /\ wpc' = "end" /\ UNCHANGED <<snap, tmp, file>>
     \/ ~ stop /\ wpc' = "sleep" /\ UNCHANGED <<snap, tmp, file>>

Poll ==
  /\ wpc = "poll"
  /\ \/ stop /\ TakeSnapshot(TRUE)
     \/ ~ stop /\ wpc' = "sleep" /\ UNCHANGED <<snap, tmp, file>>

(* A quarter of a second later, the interval is over or it is not.          *)
Wake ==
  /\ wpc = "sleep"
  /\ \/ TakeSnapshot(FALSE)
     \/ wpc' = "poll" /\ UNCHANGED <<snap, tmp, file>>

WritingEnds == wpc' = IF snap.done THEN "end" ELSE "poll"

Create ==
  /\ wpc = "create"
  /\ \/ tmp' = Torn /\ wpc' = "fill"
     \/ DiskFails /\ WritingEnds /\ UNCHANGED tmp
  /\ UNCHANGED <<snap, file>>

(* Mutant: the file is written where it stands.                             *)
FillInPlace ==
  /\ wpc = "fill"
  /\ \/ file' = Torn /\ tmp' = snap /\ wpc' = "rename"
     \/ DiskFails /\ WritingEnds /\ UNCHANGED <<file, tmp>>
  /\ UNCHANGED snap

Fill ==
  /\ wpc = "fill"
  /\ \/ tmp' = snap /\ wpc' = "rename"
     \/ DiskFails /\ WritingEnds /\ UNCHANGED tmp
  /\ UNCHANGED <<snap, file>>

Rename ==
  /\ wpc = "rename"
  /\ \/ file' = tmp /\ tmp' = Absent
     \/ DiskFails /\ UNCHANGED <<file, tmp>>
  /\ WritingEnds
  /\ UNCHANGED snap

Watcher ==
  /\ Begin \/ Poll \/ Wake \/ Create \/ Fill \/ Rename
  /\ UNCHANGED <<threadVars, driverVars, readerVars>>

-----------------------------------------------------------------------------
(* `dec progress`: what it cannot read or parse it tries again later.       *)

FindFile ==
  /\ rpc = "wait" /\ file # Absent
  /\ rpc' = "read"
  /\ UNCHANGED shown

ReadFile ==
  /\ rpc = "read" /\ file.kind = "whole"
  /\ shown' = file
  /\ rpc' = IF file.done THEN "exited" ELSE "read"

Reader ==
  /\ FindFile \/ ReadFile
  /\ UNCHANGED <<threadVars, driverVars, watcherVars>>

-----------------------------------------------------------------------------

Step(t) == EmitClass(t) \/ FlushLast(t)

WorkerStep(w) == SeedDone(w) \/ WorkerDone(w) \/ Report(w)

MainStep ==
  \/ SeederDone \/ SeedingFails
  \/ \E w \in Workers : Collect(w)
  \/ Collected \/ CollectFails \/ ReadMass \/ StopWatcher \/ JoinWatcher \/ Gate

Ended == pc[Main] \in {"returned", "panicked"}

Next ==
  /\ UNCHANGED selfSubdivide
  /\ \/ \E t \in Threads : Step(t) \/ Panic(t)
     \/ \E w \in Workers : WorkerStep(w)
     \/ MainStep
     \/ Watcher
     \/ Reader

Spec == Init /\ [][Next]_vars

(* Every thread and both processes keep running; no panic is owed.          *)
FairSpec ==
  /\ Spec
  /\ \A t \in Threads : WF_vars(UNCHANGED selfSubdivide /\ Step(t))
  /\ \A w \in Workers : WF_vars(UNCHANGED selfSubdivide /\ WorkerStep(w))
  /\ WF_vars(UNCHANGED selfSubdivide /\ MainStep)
  /\ WF_vars(UNCHANGED selfSubdivide /\ Watcher)
  /\ WF_vars(UNCHANGED selfSubdivide /\ Reader)

-----------------------------------------------------------------------------

Total(f, S) == MapThenSumSet(LAMBDA t : f[t], S)

(* No class's mass is counted twice or lost while it moves from a thread's  *)
(* buffer to the tracker; only a panic leaves mass behind for good.  (And   *)
(* the variables keep their types.)                                         *)
MassAccounted ==
  /\ TypeOK
  /\ tracker + Total(pending, Threads) = Total(emitted, Threads)

(* A snapshot that calls the run done is the last one, and its mass is the  *)
(* whole quota: all counts were flushed and merged before the watcher was   *)
(* told to stop.  (The parallel driver.)                                    *)
DoneIsExact ==
  file.kind = "whole" /\ file.run = "this" /\ file.done
    => /\ file.mass = Quota
       /\ Threads \subseteq merged

(* A driver that returns has counted every class once, in the classes it    *)
(* reports as in the mass the gate tests; and the gate, which looks at the  *)
(* mass only, fails no run whose workers are healthy, whatever the batches. *)
ReturnIsExact ==
  /\ pc[Main] = "returned" => result = Quota /\ Total(emitted, merged) = Quota
  /\ pc[Main] = "panicked" => \E t \in FaultyThreads : pc[t] = "panicked"

(* Between any two steps of the watcher the file can be parsed, as the doc  *)
(* comment of ProgressSink promises of the atomic rewrite; the mass of this *)
(* run that it shows never falls, and a done snapshot is never replaced.    *)
ProgressOnlyGrows ==
  [][/\ file' # Torn
     /\ file'.kind = "whole" /\ file.kind = "whole" /\ file.run = "this"
          => /\ file'.run = "this" /\ file'.mass >= file.mass
             /\ file.done => file' = file]_vars

(* A worker has died inside a walk and another waits for its count to be    *)
(* released, which nobody will do: run_worker_loop under self-subdivision.  *)
PollsForEver ==
  selfSubdivide /\ \E v, w \in Workers : pc[v] = "panicked" /\ pc[w] = "recv"

(* The run ends, whatever the disk does, and takes its watcher with it      *)
(* unless a thread panicked: an unwinding driver never sets the stop flag.  *)
(* Without self-subdivision that is so whoever panics; with it, the only    *)
(* other end is a driver in recv before peers of a dead worker that poll.   *)
RunEnds ==
  <>[](\/ Ended /\ (wpc = "end" \/ \E t \in Threads : pc[t] = "panicked")
      \/ PollsForEver)

(* `dec progress` ends by itself after a run that returned, if the disk     *)
(* took the watcher's last snapshot.                                        *)
ReaderExits == <>[](pc[Main] = "returned" /\ file = snap) => <>(rpc = "exited")

(* What the comment above flush_global_mass says of every driver: the mass  *)
(* pushed when the driver reads the result is exact.  It is so of the       *)
(* parallel driver and not of the sequential one, whose last batch stays    *)
(* in the buffer when the watcher takes the final snapshot.                 *)
FinalSnapshotExact ==
  file.kind = "whole" /\ file.run = "this" /\ file.done => file.mass = Quota

=============================================================================

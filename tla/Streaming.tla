------------------------------ MODULE Streaming ------------------------------
(***************************************************************************)
(* The streaming drivers and the programs that read what they write.  Each *)
(* thread has a file of its own: a header, then one record per class it    *)
(* emits.  A BufWriter hands the bytes to the system whenever it is full,  *)
(* so a file may end anywhere inside a record until its thread has         *)
(* flushed it.  run_streaming.py writes stats.json once the kernel has     *)
(* returned and then has merge_stream.py check the files; `dec progress`   *)
(* tails the files until it sees stats.json.                               *)
(*                                                                         *)
(* Bytes are counted in pieces: the header is one, a record is the rank,   *)
(* the order of the group and the rows, which the zero code does not have. *)
(* How the threads share the tree is ParallelEnumerator's subject: here a  *)
(* class is emitted by any worker once its parent is.                      *)
(***************************************************************************)
EXTENDS Integers, FiniteSets, FiniteSetsExt, Sequences, SequencesExt, GenerationTree

CONSTANTS
  NumThreads,     (* how many worker threads: none in the sequential driver  *)
  FrontierDepth,  (* the rank at which the seeder leaves off                 *)
  BufferSize,     (* BUFFER_SIZE, in pieces                                  *)
  FaultyThreads,  (* threads that may panic while they walk the tree         *)
  DiskFails,      (* may the system refuse to create or to write a file?     *)
  MayBeKilled     (* may the process be killed?                              *)

(***************************************************************************)
(* A thread is the number in the name of its file, out.w000.bin and so on. *)
(* The driver's own thread has the last one.                               *)
(***************************************************************************)
Workers == 0 .. NumThreads - 1
Main == NumThreads
Threads == Workers \cup {Main}

ASSUME StreamingAssumption ==
  /\ IsFiniteSet(Codes)
  /\ NumThreads \in Nat
  /\ FrontierDepth \in Nat /\ FrontierDepth >= 2
  /\ NumThreads > 0 => NumThreads > 1 /\ MaxK > FrontierDepth
  /\ BufferSize \in Nat \ {0}
  /\ FaultyThreads \subseteq Threads
  /\ DiskFails \in BOOLEAN /\ MayBeKilled \in BOOLEAN

VARIABLES
  alive,    (* is the process still there?                                  *)
  pc,       (* where each thread is                                         *)
  log,      (* the classes a thread has given to its writer, in order       *)
  size,     (* the length of its file                                       *)
  stats,    (* is stats.json there?                                         *)
  verdict,  (* what merge_stream.py said                                    *)
  rpc,      (* where `dec progress` is                                      *)
  todo,     (* the files it has still to look at in this pass               *)
  offset,   (* WorkerTail.offset                                            *)
  shown     (* WorkerTail.counts                                            *)

kernelVars == <<alive, pc, log, size>>
scriptVars == <<stats, verdict>>
readerVars == <<rpc, todo, offset, shown>>
vars == <<kernelVars, scriptVars, readerVars>>

-----------------------------------------------------------------------------
(* The files.                                                               *)

RecordLength(c) == IF Rank[c] = 0 THEN 2 ELSE 3

(* Where the last record of s ends in a file that starts with s. *)
EndOf(s) == 1 + FoldLeft(LAMBDA n, c : n + RecordLength(c), 0, s)

End(t, i) == EndOf(SubSeq(log[t], 1, i))
Start(t, i) == End(t, i - 1)

Buffered(t) == EndOf(log[t]) - size[t]

Emitted == UNION {ToSet(log[t]) : t \in Threads}

TypeOK ==
  /\ alive \in BOOLEAN
  /\ pc \in [Threads -> {"create", "walk", "finalize", "done", "gate", "stats", "merge",
                         "exit", "panicked"}]
  /\ DOMAIN log = Threads /\ \A t \in Threads : ToSet(log[t]) \subseteq Codes
  /\ DOMAIN size = Threads
  /\ \A t \in Threads : size[t] \in -1 .. EndOf(log[t])
  /\ stats \in BOOLEAN
  /\ verdict \in {"none", "accepted", "refused"}
  /\ rpc \in {"wait", "pass", "final", "exited"}
  /\ todo \subseteq Threads
  /\ DOMAIN offset = Threads
  /\ \A t \in Threads : offset[t] \in 0 .. EndOf(log[t])
  /\ shown \in [Threads -> [Ranks -> 0 .. Cardinality(Codes)]]

(* A file that is not there has length -1. *)
Created == {t \in Threads : size[t] # -1}

Init ==
  /\ alive = TRUE
  /\ pc = [t \in Threads |-> "create"]
  /\ log = [t \in Threads |-> <<>>]
  /\ size = [t \in Threads |-> -1]
  /\ stats = FALSE
  /\ verdict = "none"
  /\ rpc = "wait"
  /\ todo = {}
  /\ offset = [t \in Threads |-> 0]
  /\ shown = [t \in Threads |-> [k \in Ranks |-> 0]]

-----------------------------------------------------------------------------
(* The threads.                                                             *)

Goto(t, from, to) == alive /\ pc[t] = from /\ pc' = [pc EXCEPT ![t] = to]

(* The header goes to the buffer, not to the file. *)
CreateFile(t) ==
  /\ Goto(t, "create", "walk")
  /\ size' = [size EXCEPT ![t] = 0]
  /\ UNCHANGED <<alive, log, scriptVars, readerVars>>

CreateFails(t) ==
  /\ DiskFails
  /\ Goto(t, "create", "panicked")
  /\ UNCHANGED <<alive, log, size, scriptVars, readerVars>>

(* The seeder emits what lies above the frontier, the workers the rest. *)
Emits(t, c) ==
  NumThreads > 0 => (t = Main <=> Rank[c] < FrontierDepth)

EmitClass(t, c) ==
  /\ alive /\ pc[t] = "walk"
  /\ Buffered(t) <= BufferSize
  /\ Emits(t, c) /\ c \notin Emitted
  /\ c # Root => Parent[c] \in Emitted
  /\ log' = [log EXCEPT ![t] = Append(@, c)]
  /\ UNCHANGED <<alive, pc, size, scriptVars, readerVars>>

(***************************************************************************)
(* A record did not fit: the buffer is written, in as many calls as the    *)
(* system likes, and the piece that did not fit waits in it for the next   *)
(* time.                                                                   *)
(***************************************************************************)
Spill(t) ==
  /\ alive /\ pc[t] = "walk" /\ Buffered(t) > BufferSize
  /\ \E m \in 1 .. Buffered(t) - 1 : size' = [size EXCEPT ![t] = @ + m]
  /\ UNCHANGED <<alive, pc, log, scriptVars, readerVars>>

FlushFile(t) ==
  /\ alive /\ pc[t] = "finalize"
  /\ \E m \in 1 .. Buffered(t) : size' = [size EXCEPT ![t] = @ + m]
  /\ UNCHANGED <<alive, pc, log, scriptVars, readerVars>>

(***************************************************************************)
(* The write fails: the thread panics, and the buffer's destructor tries   *)
(* again and says nothing if that fails too.                               *)
(***************************************************************************)
WriteFails(t) ==
  /\ DiskFails
  /\ \/ Goto(t, "walk", "panicked") /\ Buffered(t) > BufferSize
     \/ Goto(t, "finalize", "panicked") /\ Buffered(t) > 0
  /\ \E m \in 0 .. Buffered(t) - 1 : size' = [size EXCEPT ![t] = @ + m]
  /\ UNCHANGED <<alive, log, scriptVars, readerVars>>

(* A panic while the tree is walked: the destructor writes the buffer. *)
Panic(t) ==
  /\ t \in FaultyThreads
  /\ Goto(t, "walk", "panicked") /\ Buffered(t) <= BufferSize
  /\ \E m \in (IF DiskFails THEN 0 ELSE Buffered(t)) .. Buffered(t) :
       size' = [size EXCEPT ![t] = @ + m]
  /\ UNCHANGED <<alive, log, scriptVars, readerVars>>

(***************************************************************************)
(* A thread has nothing left to emit: the seeder when all above the        *)
(* frontier is done, the workers when the seeder has hung up and the       *)
(* others, if they live, have emitted the rest.                            *)
(***************************************************************************)
StopWalking(t) ==
  /\ Buffered(t) <= BufferSize
  /\ \/ t = Main /\ \A c \in Codes : Emits(Main, c) => c \in Emitted
     \/ /\ t # Main /\ pc[Main] \notin {"create", "walk"}
        /\ Emitted = Codes \/ \E u \in Threads : pc[u] = "panicked"
  /\ Goto(t, "walk", "finalize")
  /\ UNCHANGED <<alive, log, size, scriptVars, readerVars>>

(* Mutant: the buffer is left to a destructor that never runs. *)
FinalizeUnflushed(t) ==
  /\ Goto(t, "finalize", "done")
  /\ UNCHANGED <<alive, log, size, scriptVars, readerVars>>

(* Only when its file is flushed does a thread send its result. *)
Finalize(t) ==
  /\ Buffered(t) = 0
  /\ Goto(t, "finalize", "done")
  /\ UNCHANGED <<alive, log, size, scriptVars, readerVars>>

(* Mutant: the results that have come in are enough. *)
CollectSome ==
  /\ Goto(Main, "done", "gate")
  /\ Emitted = Codes
  /\ UNCHANGED <<alive, log, size, scriptVars, readerVars>>

CollectResults ==
  /\ \A w \in Workers : pc[w] = "done"
  /\ Goto(Main, "done", "gate")
  /\ UNCHANGED <<alive, log, size, scriptVars, readerVars>>

(* recv fails once the senders are gone. *)
CollectFails ==
  /\ \A w \in Workers : pc[w] \in {"done", "panicked"}
  /\ \E w \in Workers : pc[w] = "panicked"
  /\ Goto(Main, "done", "panicked")
  /\ UNCHANGED <<alive, log, size, scriptVars, readerVars>>

Gate ==
  /\ \/ /\ \A k \in Ranks : Mass[OfRank(Emitted, k)] = Quota[k]
        /\ Goto(Main, "gate", "stats")
     \/ /\ \E k \in Ranks : Mass[OfRank(Emitted, k)] # Quota[k]
        /\ Goto(Main, "gate", "panicked")
  /\ UNCHANGED <<alive, log, size, scriptVars, readerVars>>

Kill ==
  /\ MayBeKilled /\ alive
  /\ alive' = FALSE
  /\ UNCHANGED <<pc, log, size, scriptVars, readerVars>>

(* The driver is done, or its panic becomes an exception of the script. *)
Exit ==
  /\ alive /\ pc[Main] \in {"exit", "panicked"}
  /\ alive' = FALSE
  /\ UNCHANGED <<pc, log, size, scriptVars, readerVars>>

-----------------------------------------------------------------------------
(* The scripts.                                                             *)

WriteStats ==
  /\ Goto(Main, "stats", "merge")
  /\ stats' = TRUE
  /\ UNCHANGED <<alive, log, size, verdict, readerVars>>

(* The records whose first piece, whose first n pieces, are in the file. *)
Begun(t, n) == {i \in 1 .. Len(log[t]) : Start(t, i) + n <= size[t]}

RecordsOf(t, k, n) == {log[t][i] : i \in {j \in Begun(t, n) : Rank[log[t][j]] = k}}

(***************************************************************************)
(* What the two passes of merge_stream.py read.  The first counts a record *)
(* by its rank and skips the rest unread, the second reads the rank and    *)
(* the order; neither asks whether the rows are there.  An empty file      *)
(* cannot be mapped, and an order that is not there cannot be unpacked.    *)
(***************************************************************************)
Readable == \A t \in Created : size[t] > 0 /\ Begun(t, 1) = Begun(t, 2)

RanksFound == {k \in Ranks : \E t \in Created : RecordsOf(t, k, 1) # {}}

MassFound(k) == MapThenSumSet(LAMBDA t : Mass[RecordsOf(t, k, 2)], Created)

(* No table of published counts: there is none for N = 19 .. 25, 27 and up. *)
Accepts ==
  /\ Readable
  /\ \A k \in 0 .. Max({0} \cup RanksFound) : MassFound(k) = Quota[k]

JudgeFiles == verdict' = IF Accepts THEN "accepted" ELSE "refused"

(* Called by run_streaming.py once stats.json is written. *)
MergeAfterRun ==
  /\ Goto(Main, "merge", "exit")
  /\ JudgeFiles
  /\ UNCHANGED <<alive, log, size, stats, readerVars>>

(* Called by hand, on what a run that is over has left. *)
MergeByHand ==
  /\ ~alive /\ verdict = "none"
  /\ JudgeFiles
  /\ UNCHANGED <<kernelVars, stats, readerVars>>

-----------------------------------------------------------------------------
(* `dec progress`.                                                          *)

(* It waits for the first whole header, or for stats.json. *)
FindStream ==
  /\ rpc = "wait"
  /\ stats \/ \E t \in Created : size[t] > 0
  /\ rpc' = "pass"
  /\ todo' = Created
  /\ UNCHANGED <<kernelVars, scriptVars, offset, shown>>

(* How many of the records I of t's file have rank k. *)
CountOf(t, I, k) == Cardinality({i \in I : Rank[log[t][i]] = k})

(* The records past the offset that are there to the last piece. *)
Whole(t) == {i \in 1 .. Len(log[t]) : Start(t, i) >= offset[t] /\ End(t, i) <= size[t]}

(* Mutant: the next pass starts where this one found the end of the file. *)
UpdateTailToEnd(t) ==
  /\ t \in todo /\ \A u \in todo : t <= u
  /\ todo' = todo \ {t}
  /\ \/ /\ size[t] <= offset[t]
        /\ UNCHANGED <<offset, shown>>
     \/ /\ size[t] > offset[t]
        /\ shown' = [shown EXCEPT ![t] = [k \in Ranks |-> @[k] + CountOf(t, Whole(t), k)]]
        /\ offset' = [offset EXCEPT ![t] = size[t]]
  /\ UNCHANGED <<kernelVars, scriptVars, rpc>>

(***************************************************************************)
(* One file is looked at: if it has grown, the records that are now there  *)
(* to the last piece are counted, and the offset stays at the first that   *)
(* is not.                                                                 *)
(***************************************************************************)
UpdateTail(t) ==
  /\ t \in todo /\ \A u \in todo : t <= u
  /\ todo' = todo \ {t}
  /\ \/ /\ size[t] <= offset[t]
        /\ UNCHANGED <<offset, shown>>
     \/ /\ size[t] > offset[t]
        /\ shown' = [shown EXCEPT ![t] = [k \in Ranks |-> @[k] + CountOf(t, Whole(t), k)]]
        /\ offset' = [offset EXCEPT ![t] = Max({1, @} \cup {End(t, i) : i \in Whole(t)})]
  /\ UNCHANGED <<kernelVars, scriptVars, rpc>>

(* Mutant: stats.json is there, so the pass just made was the last. *)
ExitAtOnce ==
  /\ rpc = "pass" /\ todo = {}
  /\ \/ stats /\ rpc' = "exited" /\ UNCHANGED todo
     \/ ~stats /\ rpc' = "pass" /\ todo' = Created
  /\ UNCHANGED <<kernelVars, scriptVars, offset, shown>>

(* stats.json is looked for after each pass; once it is there, one more. *)
EndOfPass ==
  /\ rpc = "pass" /\ todo = {}
  /\ rpc' = IF stats THEN "final" ELSE "pass"
  /\ todo' = Created
  /\ UNCHANGED <<kernelVars, scriptVars, offset, shown>>

EndOfFinalPass ==
  /\ rpc = "final" /\ todo = {}
  /\ rpc' = "exited"
  /\ UNCHANGED <<kernelVars, scriptVars, todo, offset, shown>>

-----------------------------------------------------------------------------

Thread(t) ==
  \/ CreateFile(t) \/ CreateFails(t)
  \/ \E c \in Codes : EmitClass(t, c)
  \/ Spill(t) \/ FlushFile(t) \/ WriteFails(t) \/ Panic(t)
  \/ StopWalking(t) \/ Finalize(t)

Driver ==
  CollectResults \/ CollectFails \/ Gate \/ WriteStats \/ MergeAfterRun \/ Exit

Reader == FindStream \/ (\E t \in Threads : UpdateTail(t)) \/ EndOfPass \/ EndOfFinalPass

Next == (\E t \in Threads : Thread(t)) \/ Driver \/ Kill \/ MergeByHand \/ Reader

Spec == Init /\ [][Next]_vars

-----------------------------------------------------------------------------
(* Properties.                                                              *)

(***************************************************************************)
(* Wherever the system has cut a file off, and whenever WorkerTail looks   *)
(* (progress.py:68-110), what it has counted of the file are the first     *)
(* records its thread has written, each once and each whole in the file,   *)
(* and its offset is where the next one starts.  (And the variables keep   *)
(* their types.)                                                           *)
(***************************************************************************)
TailIsPrefix ==
  /\ TypeOK
  /\ \A t \in Threads : \E m \in 0 .. Len(log[t]) :
       /\ \A k \in Ranks : shown[t][k] = CountOf(t, 1 .. m, k)
       /\ \/ offset[t] = End(t, m) /\ offset[t] <= size[t]
          \/ offset[t] = 0 /\ m = 0

(***************************************************************************)
(* When `dec progress` ends because the run has (progress.py:490-497), the *)
(* last table it shows has every class, whatever the files looked like     *)
(* when the pass before it went over them.                                 *)
(***************************************************************************)
FinalSnapshotComplete ==
  rpc = "exited" =>
    \A k \in Ranks :
      MapThenSumSet(LAMBDA t : shown[t][k], Threads) = Cardinality(OfRank(Codes, k))

(***************************************************************************)
(* merge_stream.py accepts every run that the kernel has returned from     *)
(* (run_streaming.py:193-207), also one whose files it is given later by   *)
(* hand, and there is then a whole record of each class on disk.           *)
(***************************************************************************)
ReturnedIsAccepted ==
  stats /\ verdict # "none" =>
    /\ verdict = "accepted"
    /\ UNION {{log[t][i] : i \in {j \in 1 .. Len(log[t]) : End(t, j) <= size[t]}} :
              t \in Threads} = Codes

(***************************************************************************)
(* "Reads every out.w*.bin file ... and asserts mass[k] ==                 *)
(* gaborit_sigma(N, k) for every k" (merge_stream.py:3-8).                 *)
(***************************************************************************)
AcceptedMassAtEveryRank ==
  verdict = "accepted" => \A k \in Ranks : MassFound(k) = Quota[k]

=============================================================================

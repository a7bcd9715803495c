------------------------- MODULE CountsProgressProofs -------------------------
(***************************************************************************)
(* Proofs about the counts drivers, for every pool, quota and batch size,  *)
(* with and without self-subdivision:                                      *)
(* no mass is lost or counted twice on its way to the tracker, a driver    *)
(* that returns has counted every class once, the snapshot that calls the  *)
(* run done is exact, and the progress file only grows.  At the end: the   *)
(* 256-bit integers that the masses are summed in are exact.               *)
(***************************************************************************)
EXTENDS CountsProgress, U256, FoldProofs

-----------------------------------------------------------------------------
(* The masses.                                                              *)

LEMMA TotalIsSum ==
  ASSUME NEW f, NEW S
  PROVE  Total(f, S) = SumOver(f, S)
BY DEF Total, SumOver

(* Every class is still to come or emitted once, and every emitted class is *)
(* in the tracker or waits in its thread's buffer.                          *)
Accounted ==
  /\ TypeOK
  /\ supply + Total(emitted, Threads) = Quota
  /\ tracker + Total(pending, Threads) = Total(emitted, Threads)

LEMMA ThreadsFinite == IsFiniteSet(Threads) /\ Main \in Threads /\ Workers \subseteq Threads
BY ProgressAssumption, FS_AddElement DEF Threads

LEMMA AccountedInit == Init => Accounted
<1> SUFFICES ASSUME Init
             PROVE  Accounted
  OBVIOUS
<1> USE DEF Init
<1>1. TypeOK
  <2>1. \A m \in 0 .. Quota : Whole("earlier", TRUE, m) \in Snapshots
    BY DEF Whole, Snapshots
  <2>2. Quota \in 0 .. Quota /\ 0 \in 0 .. Quota
    BY ProgressAssumption
  <2>3. file \in Contents
    BY <2>1, <2>2 DEF Contents
  <2> QED
    BY <2>2, <2>3 DEF TypeOK, Contents
<1>2. Total(emitted, Threads) = 0 /\ Total(pending, Threads) = 0
  BY ThreadsFinite, TotalIsSum, SumZero
<1> QED
  BY <1>1, <1>2, ProgressAssumption DEF Accounted

(* Only the emission of a class and the flushes of a buffer touch the       *)
(* masses.                                                                  *)
LEMMA MassKinds ==
  ASSUME [Next]_vars
  PROVE  \/ \E t \in Threads : EmitClass(t) \/ FlushLast(t)
         \/ UNCHANGED threadVars
BY DEF Next, Step, Panic, WorkerStep, SeedDone, WorkerDone, Leave, Report, MainStep,
       SeederDone, SeedingFails, Collect, Collected, CollectFails, ReadMass, StopWatcher,
       JoinWatcher, Gate, Watcher, Reader, vars, threadVars

LEMMA TypeKept ==
  ASSUME TypeOK, [Next]_vars,
         supply' \in 0 .. Quota, emitted' \in [Threads -> 0 .. Quota],
         pending' \in [Threads -> 0 .. Quota], tracker' \in 0 .. Quota
  PROVE  TypeOK'
<1> USE ThreadsFinite
<1>0. selfSubdivide' \in Settings
  <2>1. selfSubdivide' = selfSubdivide
    BY DEF Next, vars
  <2> QED
    BY <2>1 DEF TypeOK
<1>1. ASSUME UNCHANGED <<watcherVars, readerVars>>,
             pc' \in [Threads -> {"recv", "walk", "flush", "report", "gone", "collect",
                                  "snapshot", "stop", "join", "gate", "returned", "panicked"}],
             merged' \subseteq Threads, result' \in 0 .. Quota, stop' \in BOOLEAN
      PROVE  TypeOK'
  BY <1>0, <1>1 DEF TypeOK, watcherVars, readerVars
<1>2. CASE \E t \in Threads : Step(t) \/ Panic(t)
  BY <1>1, <1>2 DEF Step, EmitClass, FlushLast, Panic, TypeOK, driverVars
<1>3. CASE \E w \in Workers : WorkerStep(w)
  BY <1>1, <1>3 DEF WorkerStep, SeedDone, WorkerDone, Leave, Report, TypeOK
<1>4. CASE MainStep
  <2>1. CASE \/ SeederDone \/ SeedingFails \/ Collected \/ CollectFails
             \/ StopWatcher \/ JoinWatcher \/ Gate
    BY <1>1, <2>1 DEF SeederDone, SeedingFails, Collected, CollectFails, StopWatcher, JoinWatcher,
                      Gate, TypeOK
  <2>2. CASE \E w \in Workers : Collect(w)
    BY <1>1, <2>2 DEF Collect, TypeOK
  <2>3. CASE ReadMass
    BY <1>1, <2>3 DEF ReadMass, TypeOK
  <2> QED
    BY <1>4, <2>1, <2>2, <2>3 DEF MainStep
<1>5. CASE Watcher
  <2>1. /\ wpc' \in {"begin", "create", "fill", "rename", "poll", "sleep", "end"}
        /\ snap' \in Snapshots \cup {Absent} /\ tmp' \in Contents /\ file' \in Contents
    <3>1. \A done \in BOOLEAN : Whole("this", done, tracker) \in Snapshots
      BY DEF TypeOK, Whole, Snapshots
    <3> QED
      BY <1>5, <3>1 DEF Watcher, Begin, Poll, Wake, TakeSnapshot, Create, Fill, Rename,
                        WritingEnds, TypeOK, Contents
  <2>2. UNCHANGED <<driverVars, readerVars>>
    BY <1>5 DEF Watcher
  <2> QED
    BY <1>0, <2>1, <2>2 DEF TypeOK, driverVars, readerVars
<1>6. CASE Reader
  BY <1>0, <1>6 DEF Reader, FindFile, ReadFile, TypeOK, driverVars, watcherVars
<1>7. CASE UNCHANGED vars
  BY <1>1, <1>7 DEF vars, driverVars, TypeOK
<1> QED
  BY <1>2, <1>3, <1>4, <1>5, <1>6, <1>7 DEF Next

LEMMA AccountedStep == Accounted /\ [Next]_vars => Accounted'
<1> SUFFICES ASSUME Accounted, [Next]_vars
             PROVE  Accounted'
  OBVIOUS
<1> DEFINE E == Total(emitted, Threads)
           P == Total(pending, Threads)
<1>1. /\ supply \in Nat /\ tracker \in Nat /\ Quota \in Nat
      /\ emitted \in [Threads -> Nat] /\ pending \in [Threads -> Nat]
  BY ProgressAssumption DEF Accounted, TypeOK
<1>2. ASSUME NEW f \in [Threads -> Nat], Total(f, Threads) <= Quota
      PROVE  f \in [Threads -> 0 .. Quota]
  <2>1. \A t \in Threads : f[t] <= Total(f, Threads) /\ Total(f, Threads) \in Nat
    <3>1. \A u \in Threads : f[u] = f[u]
      OBVIOUS
    <3> QED
      BY ThreadsFinite, TotalIsSum, SumChange
  <2>2. \A t \in Threads : f[t] \in 0 .. Quota
    BY <2>1, <1>1, <1>2
  <2> QED
    BY <2>2
<1>3. ASSUME supply' \in Nat, tracker' \in Nat,
             emitted' \in [Threads -> Nat], pending' \in [Threads -> Nat],
             supply' + Total(emitted', Threads) = Quota,
             tracker' + Total(pending', Threads) = Total(emitted', Threads)
      PROVE  Accounted'
  <2>1. Total(emitted', Threads) \in Nat /\ Total(pending', Threads) \in Nat
    <3>1. Threads \in SUBSET Threads
      OBVIOUS
    <3> QED
      BY <1>3, <3>1, ThreadsFinite, TotalIsSum, SumType
  <2>2. /\ supply' \in 0 .. Quota /\ tracker' \in 0 .. Quota
        /\ Total(emitted', Threads) <= Quota /\ Total(pending', Threads) <= Quota
    BY <1>1, <1>3, <2>1
  <2>3. emitted' \in [Threads -> 0 .. Quota] /\ pending' \in [Threads -> 0 .. Quota]
    BY <1>2, <1>3, <2>2
  <2>4. TypeOK'
    BY <2>2, <2>3, TypeKept DEF Accounted
  <2> QED
    BY <1>3, <2>4 DEF Accounted
<1>4. ASSUME NEW t \in Threads, EmitClass(t)
      PROVE  Accounted'
  <2>1. supply > 0 /\ supply' = supply - 1 /\ emitted' = [emitted EXCEPT ![t] = emitted[t] + 1]
    BY <1>4 DEF EmitClass
  <2>2. \/ /\ tracker' = tracker + (pending[t] + 1)
           /\ pending' = [pending EXCEPT ![t] = 0]
        \/ /\ tracker' = tracker
           /\ pending' = [pending EXCEPT ![t] = pending[t] + 1]
    BY <1>4 DEF EmitClass, Flush
  <2>3. emitted[t] \in Nat /\ pending[t] \in Nat
    BY <1>1
  <2>4. /\ emitted' \in [Threads -> Nat] /\ emitted'[t] = emitted[t] + 1
        /\ \A u \in Threads \ {t} : emitted'[u] = emitted[u]
    BY <1>1, <2>1, <2>3
  <2>5. /\ pending' \in [Threads -> Nat] /\ tracker' \in Nat
        /\ tracker' + pending'[t] = tracker + pending[t] + 1
        /\ \A u \in Threads \ {t} : pending'[u] = pending[u]
    BY <1>1, <2>2, <2>3
  <2>6. E \in Nat /\ Total(emitted', Threads) = E - emitted[t] + emitted'[t]
    BY <1>1, <2>4, ThreadsFinite, TotalIsSum, SumChange
  <2>7. P \in Nat /\ Total(pending', Threads) = P - pending[t] + pending'[t]
    BY <1>1, <2>5, ThreadsFinite, TotalIsSum, SumChange
  <2>8. supply' \in Nat /\ pending'[t] \in Nat
    <3>1. supply' \in Nat
      BY <1>1, <2>1
    <3>2. pending'[t] \in Nat
      BY <2>5
    <3> QED
      BY <3>1, <3>2
  <2>9. supply + E = Quota /\ tracker + P = E
    BY DEF Accounted
  <2>10. /\ supply' + Total(emitted', Threads) = Quota
         /\ tracker' + Total(pending', Threads) = Total(emitted', Threads)
    <3> HIDE DEF E, P
    <3> QED
      BY <1>1, <2>1, <2>3, <2>4, <2>5, <2>6, <2>7, <2>8, <2>9
  <2> QED
    BY <1>3, <2>4, <2>5, <2>8, <2>10
<1>5. ASSUME NEW t \in Threads, FlushLast(t)
      PROVE  Accounted'
  <2>1. /\ tracker' = tracker + pending[t] /\ pending' = [pending EXCEPT ![t] = 0]
        /\ supply' = supply /\ emitted' = emitted
    BY <1>5 DEF FlushLast, Flush
  <2>2. /\ pending' \in [Threads -> Nat] /\ tracker' \in Nat /\ pending[t] \in Nat
        /\ pending'[t] = 0 /\ \A u \in Threads \ {t} : pending'[u] = pending[u]
    BY <1>1, <2>1
  <2>3. P \in Nat /\ Total(pending', Threads) = P - pending[t] + pending'[t]
    BY <1>1, <2>2, ThreadsFinite, TotalIsSum, SumChange
  <2>4. supply + E = Quota /\ tracker + P = E
    BY DEF Accounted
  <2>5. tracker' + Total(pending', Threads) = E
    <3> HIDE DEF E, P
    <3> QED
      BY <1>1, <2>1, <2>2, <2>3, <2>4
  <2> QED
    BY <1>1, <1>3, <2>1, <2>2, <2>4, <2>5
<1>6. CASE UNCHANGED threadVars
  BY <1>1, <1>3, <1>6 DEF threadVars, Accounted
<1> QED
  BY <1>4, <1>5, <1>6, MassKinds

(* No class's mass is counted twice or lost between the buffers and the     *)
(* tracker, for every pool, quota and batch size: GlobalMassTracker.push    *)
(* and the flushes of the drivers.                                          *)
THEOREM MassAccountedCorrect == Spec => []MassAccounted
<1>1. Spec => []Accounted
  BY AccountedInit, AccountedStep, PTL DEF Spec
<1>2. Accounted => MassAccounted
  BY DEF Accounted, MassAccounted
<1> QED
  BY <1>1, <1>2, PTL

-----------------------------------------------------------------------------
(* The threads and the driver.                                              *)

After == {"snapshot", "stop", "join", "gate", "returned"}
Told == {"join", "gate", "returned"}

(* Where a thread may still be that emits a class, or that has lost it.     *)
Open == {"recv", "walk", "panicked"}

(* A class that nobody has emitted has a thread that has not left its loop, *)
(* or that died in it; no worker leaves before the seeder has flushed, and  *)
(* its buffer is empty when it reports; the driver, past the collection,    *)
(* has merged every worker and flushed its own buffer, and reads the whole  *)
(* quota.                                                                   *)
Flow ==
  /\ supply = 0 \/ \E t \in Threads : pc[t] \in Open
  /\ \A w \in Workers :
       /\ pc[w] \in Open \cup {"flush", "report", "gone"}
       /\ pc[Main] \in {"walk", "flush"} => pc[w] \in Open
       /\ pc[w] \in {"report", "gone"} => pending[w] = 0
       /\ pc[w] = "panicked" => w \in FaultyThreads
       /\ w \in merged => pc[w] = "gone"
  /\ pc[Main] \in {"walk", "flush", "collect", "panicked"} \cup After
  /\ Sequential => pc[Main] \notin {"flush", "collect"}
  /\ ~ Sequential /\ pc[Main] \in {"collect"} \cup After => pending[Main] = 0
  /\ pc[Main] \in After => Workers \subseteq merged
  /\ pc[Main] \in After \ {"snapshot"} => Main \in merged /\ result = Quota
  /\ pc[Main] = "panicked" => \E t \in FaultyThreads : pc[t] = "panicked"
  /\ stop => pc[Main] \in Told

LEMMA MainIsApart == Main \notin Workers /\ Threads = Workers \cup {Main} /\ FaultyThreads \subseteq Threads
BY ProgressAssumption DEF Threads

(* Past the collection nothing is left anywhere but in the mass that the    *)
(* driver reads.                                                            *)
LEMMA AllRead ==
  ASSUME Accounted, Flow, pc[Main] \in After
  PROVE  /\ supply = 0 /\ Total(emitted, Threads) = Quota
         /\ Sequential => emitted[Main] = Quota
         /\ ~ Sequential => tracker = Quota
<1>1. /\ supply \in Nat /\ tracker \in Nat /\ Quota \in Nat
      /\ emitted \in [Threads -> Nat] /\ pending \in [Threads -> Nat]
  BY ProgressAssumption DEF Accounted, TypeOK
<1>2. supply = 0
  <2>1. pc[Main] \notin Open /\ \A w \in Workers : pc[w] \notin Open
    BY DEF Flow, Open, After
  <2> QED
    BY <2>1, MainIsApart DEF Flow
<1>3. Total(emitted, Threads) \in Nat
  <2>1. Threads \in SUBSET Threads /\ \A t \in Threads : emitted[t] \in Nat
    BY <1>1
  <2> QED
    BY <2>1, ThreadsFinite, TotalIsSum, SumType
<1>4. Total(emitted, Threads) = Quota
  BY <1>1, <1>2, <1>3 DEF Accounted
<1>5. ASSUME Sequential
      PROVE  emitted[Main] = Quota
  <2>1. Threads \ {Main} = {} /\ \A t \in Threads : emitted[t] \in Nat
    BY <1>1, <1>5, MainIsApart DEF Sequential
  <2>2. Total(emitted, Threads) = emitted[Main] + Total(emitted, Threads \ {Main})
    BY <2>1, ThreadsFinite, TotalIsSum, SumTake
  <2>3. Total(emitted, Threads \ {Main}) = 0
    BY <2>1, TotalIsSum, SumEmpty
  <2>4. emitted[Main] \in Nat
    BY <2>1, ThreadsFinite
  <2> QED
    BY <1>4, <2>2, <2>3, <2>4
<1>6. ASSUME ~ Sequential
      PROVE  tracker = Quota
  <2>1. \A t \in Threads : pending[t] = 0
    <3>1. pending[Main] = 0
      BY <1>6 DEF Flow
    <3>2. \A w \in Workers : pending[w] = 0
      BY DEF Flow
    <3> QED
      BY <3>1, <3>2, MainIsApart
  <2>2. Total(pending, Threads) = 0
    BY <2>1, ThreadsFinite, TotalIsSum, SumZero
  <2> QED
    BY <1>1, <1>4, <2>2 DEF Accounted
<1> QED
  BY <1>2, <1>4, <1>5, <1>6

LEMMA FlowInit == Init => Flow
BY ProgressAssumption, MainIsApart DEF Init, Flow, Open, After, Told, Threads

LEMMA FlowStep == Accounted /\ Flow /\ [Next]_vars => Flow'
<1> SUFFICES ASSUME Accounted, Flow, [Next]_vars
             PROVE  Flow'
  OBVIOUS
<1> USE MainIsApart DEF After, Told, Open
<1>1. /\ supply \in Nat /\ DOMAIN pc = Threads /\ pc = [t \in DOMAIN pc |-> pc[t]]
      /\ pending \in [Threads -> Nat]
  BY ProgressAssumption DEF Accounted, TypeOK
<1>2. ASSUME NEW t \in Threads, EmitClass(t)
      PROVE  Flow'
  <2>1. /\ pc[t] \in {"recv", "walk"} /\ pc'[t] = "walk"
        /\ \A u \in Threads \ {t} : pc'[u] = pc[u] /\ pending'[u] = pending[u]
        /\ UNCHANGED <<merged, result, stop>>
    BY <1>1, <1>2 DEF EmitClass, Flush
  <2>2. pc'[Main] = pc[Main] /\ (t = Main => pc[Main] = "walk")
    BY <2>1 DEF Flow
  <2>3. ASSUME NEW w \in Workers
        PROVE  /\ pc'[w] \in Open \cup {"flush", "report", "gone"}
               /\ pc'[Main] \in {"walk", "flush"} => pc'[w] \in Open
               /\ pc'[w] \in {"report", "gone"} => pending'[w] = 0
               /\ pc'[w] = "panicked" => w \in FaultyThreads
               /\ w \in merged' => pc'[w] = "gone"
    BY <2>1, <2>2, <2>3 DEF Flow
  <2>4. \A u \in FaultyThreads : pc[u] = "panicked" => pc'[u] = "panicked"
    BY <2>1
  <2>5. \E u \in Threads : pc'[u] \in Open
    BY <2>1
  <2>6. ~ Sequential /\ pc[Main] \in {"collect"} \cup After => pending'[Main] = pending[Main]
    BY <2>1, <2>2
  <2> QED
    BY <2>1, <2>2, <2>3, <2>4, <2>5, <2>6 DEF Flow, Sequential
<1>3. ASSUME NEW t \in Threads, FlushLast(t)
      PROVE  Flow'
  <2>1. /\ pc[t] = "flush" /\ pending'[t] = 0 /\ pc'[t] = (IF t = Main THEN "collect" ELSE "report")
        /\ \A u \in Threads \ {t} : pending'[u] = pending[u] /\ pc'[u] = pc[u]
        /\ UNCHANGED <<supply, merged, result, stop>>
    BY <1>1, <1>3 DEF FlushLast, Flush
  <2>2. ASSUME NEW w \in Workers
        PROVE  /\ pc'[w] \in Open \cup {"flush", "report", "gone"}
               /\ pc'[Main] \in {"walk", "flush"} => pc'[w] \in Open
               /\ pc'[w] \in {"report", "gone"} => pending'[w] = 0
               /\ pc'[w] = "panicked" => w \in FaultyThreads
               /\ w \in merged' => pc'[w] = "gone"
    BY <2>1, <2>2 DEF Flow
  <2>3. \A u \in Threads : pc[u] \in Open => pc'[u] = pc[u]
    BY <2>1
  <2> QED
    BY <2>1, <2>2, <2>3 DEF Flow, Sequential
<1>4. ASSUME NEW t \in Threads, Panic(t)
      PROVE  Flow'
  <2>1. /\ t \in FaultyThreads /\ pc[t] = "walk" /\ pc'[t] = "panicked"
        /\ \A u \in Threads \ {t} : pc'[u] = pc[u]
        /\ UNCHANGED <<threadVars, merged, result, stop>>
    BY <1>1, <1>4 DEF Panic
  <2>2. ASSUME NEW w \in Workers
        PROVE  /\ pc'[w] \in Open \cup {"flush", "report", "gone"}
               /\ pc'[Main] \in {"walk", "flush"} => pc'[w] \in Open
               /\ pc'[w] \in {"report", "gone"} => pending'[w] = 0
               /\ pc'[w] = "panicked" => w \in FaultyThreads
               /\ w \in merged' => pc'[w] = "gone"
    BY <2>1, <2>2 DEF Flow, threadVars
  <2> QED
    BY <2>1, <2>2 DEF Flow, Sequential, threadVars
<1>5. ASSUME NEW t \in Workers, WorkerStep(t)
      PROVE  Flow'
  <2>1. /\ \/ pc[t] = "walk" /\ pc'[t] = "recv"
           \/ pc[t] = "recv" /\ pc'[t] = "flush" /\ pc[Main] \notin {"walk", "flush"}
           \/ pc[t] = "report" /\ pc'[t] = "gone"
        /\ \A u \in Threads \ {t} : pc'[u] = pc[u]
        /\ UNCHANGED <<threadVars, merged, result, stop>>
    BY <1>1, <1>5 DEF WorkerStep, SeedDone, WorkerDone, LeavesByCounters, LeavesByDisconnect,
                      Leave, Report
  <2>2. pc'[Main] = pc[Main]
    BY <2>1
  <2>3. ASSUME NEW w \in Workers
        PROVE  /\ pc'[w] \in Open \cup {"flush", "report", "gone"}
               /\ pc'[Main] \in {"walk", "flush"} => pc'[w] \in Open
               /\ pc'[w] \in {"report", "gone"} => pending'[w] = 0
               /\ pc'[w] = "panicked" => w \in FaultyThreads
               /\ w \in merged' => pc'[w] = "gone"
    BY <2>1, <2>2, <2>3 DEF Flow, threadVars
  <2>4. \A u \in FaultyThreads : pc[u] = "panicked" => pc'[u] = "panicked"
    BY <2>1
  <2>5. supply' = 0 \/ \E u \in Threads : pc'[u] \in Open
    <3>1. CASE WorkerDone(t)
      <4>1. \/ supply = 0
            \/ \E v \in Workers : HoldsSeed(v)
            \/ pc[Main] = "panicked"
        BY <3>1 DEF WorkerDone, LeavesByCounters, LeavesByDisconnect
      <4>2. pc[t] = "recv"
        BY <3>1 DEF WorkerDone, Leave
      <4>3. \A v \in Workers : HoldsSeed(v) => pc'[v] \in Open
        BY <2>1, <4>2 DEF HoldsSeed
      <4> QED
        BY <2>1, <2>2, <4>1, <4>3 DEF threadVars
    <3>2. CASE SeedDone(t)
      BY <2>1, <3>2 DEF SeedDone
    <3>3. CASE Report(t)
      BY <2>1, <3>3 DEF Report, Flow, threadVars
    <3> QED
      BY <1>5, <3>1, <3>2, <3>3 DEF WorkerStep
  <2> QED
    BY <2>1, <2>2, <2>3, <2>4, <2>5 DEF Flow, Sequential, threadVars
<1>6. CASE MainStep
  <2>1. UNCHANGED threadVars /\ \A w \in Workers : pc'[w] = pc[w]
    BY <1>1, <1>6 DEF MainStep, SeederDone, SeedingFails, Collect, Collected, CollectFails,
                      ReadMass, StopWatcher, JoinWatcher, Gate
  <2>2. ASSUME \A w \in Workers : w \in merged' => pc[w] = "gone",
               pc'[Main] \in {"walk", "flush"} => pc[Main] \in {"walk", "flush"}
        PROVE  \A w \in Workers :
                 /\ pc'[w] \in Open \cup {"flush", "report", "gone"}
                 /\ pc'[Main] \in {"walk", "flush"} => pc'[w] \in Open
                 /\ pc'[w] \in {"report", "gone"} => pending'[w] = 0
                 /\ pc'[w] = "panicked" => w \in FaultyThreads
                 /\ w \in merged' => pc'[w] = "gone"
    BY <2>1, <2>2 DEF Flow, threadVars
  <2>3. ASSUME pc[Main] # "panicked", pc'[Main] = "panicked",
               \E w \in Workers : pc[w] = "panicked"
        PROVE  \E t \in FaultyThreads : pc'[t] = "panicked"
    BY <2>1, <2>3 DEF Flow
  <2>4. CASE SeederDone
    <3>1. supply' = 0 \/ \E t \in Threads : pc'[t] \in Open
      <4>1. CASE Sequential
        BY <2>1, <2>4, <4>1 DEF SeederDone, threadVars
      <4>2. CASE ~ Sequential
        <5>1. PICK w \in Workers : TRUE
          BY <4>2 DEF Sequential
        <5>2. pc'[w] \in Open
          BY <2>1, <2>4, <5>1 DEF SeederDone, Flow
        <5> QED
          BY <5>2
      <4> QED
        BY <4>1, <4>2
    <3> QED
      BY <1>1, <2>1, <2>2, <2>4, <3>1 DEF SeederDone, Flow, Sequential, threadVars
  <2>5. ASSUME pc[Main] \notin Open
        PROVE  supply' = 0 \/ \E t \in Threads : pc'[t] \in Open
    BY <2>1, <2>5 DEF Flow, threadVars
  <2>6. CASE SeedingFails
    <3>1. \E w \in Workers : pc[w] = "panicked"
      BY <2>6 DEF SeedingFails, Sequential
    <3>2. pc'[Main] = "panicked" /\ UNCHANGED <<merged, result, stop>>
      BY <1>1, <2>6 DEF SeedingFails
    <3> QED
      BY <2>1, <2>2, <2>3, <2>6, <3>1, <3>2 DEF SeedingFails, Flow, Sequential, threadVars
  <2>7. CASE \E w \in Workers : Collect(w)
    BY <1>1, <2>1, <2>2, <2>5, <2>7 DEF Collect, Flow, Sequential, threadVars
  <2>8. CASE Collected
    BY <1>1, <2>1, <2>2, <2>5, <2>8 DEF Collected, Flow, Sequential, threadVars
  <2>9. CASE CollectFails
    BY <1>1, <2>1, <2>2, <2>3, <2>5, <2>9 DEF CollectFails, Flow, Sequential, threadVars
  <2>10. CASE ReadMass
    <3>1. result' = Quota /\ pc'[Main] = "stop" /\ merged' = merged \cup {Main} /\ stop' = stop
      BY <1>1, <2>10, AllRead DEF ReadMass
    <3> QED
      BY <2>1, <2>2, <2>5, <2>10, <3>1 DEF ReadMass, Flow, Sequential, threadVars
  <2>11. CASE StopWatcher
    BY <1>1, <2>1, <2>2, <2>5, <2>11 DEF StopWatcher, Flow, Sequential, threadVars
  <2>12. CASE JoinWatcher
    BY <1>1, <2>1, <2>2, <2>5, <2>12 DEF JoinWatcher, Flow, Sequential, threadVars
  <2>13. CASE Gate
    <3>1. pc'[Main] = "returned"
      BY <1>1, <2>13 DEF Gate, Flow
    <3> QED
      BY <2>1, <2>2, <2>5, <2>13, <3>1 DEF Gate, Flow, Sequential, threadVars
  <2> QED
    BY <1>6, <2>4, <2>6, <2>7, <2>8, <2>9, <2>10, <2>11, <2>12, <2>13 DEF MainStep
<1>7. CASE UNCHANGED <<threadVars, driverVars>>
  BY <1>7 DEF threadVars, driverVars, Flow, Sequential
<1> QED
  BY <1>2, <1>3, <1>4, <1>5, <1>6, <1>7 DEF Next, Step, Watcher, Reader, vars

-----------------------------------------------------------------------------
(* The watcher.                                                             *)

Writing == {"create", "fill", "rename"}

OfThisRun(s) == s.kind = "whole" /\ s.run = "this"

(* The snapshot that is being written is of this run and not ahead of the   *)
(* tracker; what is renamed is that snapshot; the file is never ahead of    *)
(* the snapshot that will replace it; and a done snapshot was taken after   *)
(* the stop, and is the watcher's last.                                     *)
Watched ==
  /\ file # Torn
  /\ wpc \in Writing => /\ snap \in Snapshots /\ snap.run = "this" /\ snap.mass <= tracker
                        /\ snap.done => stop /\ (~ Sequential => snap.mass = Quota)
  /\ wpc = "rename" => tmp = snap
  /\ OfThisRun(file) => /\ file.mass <= tracker
                        /\ wpc \in Writing => file.mass <= snap.mass
                        /\ file.done => /\ wpc = "end" /\ stop
                                        /\ ~ Sequential => file.mass = Quota

LEMMA WatchedInit == Init => Watched
BY DEF Init, Watched, Writing, OfThisRun, Whole, Absent, Torn

(* The tracker never falls, and the stop is never taken back.               *)
LEMMA TrackerGrows ==
  ASSUME Accounted, [Next]_vars
  PROVE  tracker' >= tracker /\ (stop => stop')
<1>1. tracker \in Nat /\ pending \in [Threads -> Nat]
  BY ProgressAssumption DEF Accounted, TypeOK
<1>2. tracker' >= tracker
  <2>1. ASSUME NEW t \in Threads, EmitClass(t) \/ FlushLast(t)
        PROVE  tracker' >= tracker
    <3>1. tracker' \in {tracker, tracker + pending[t], tracker + (pending[t] + 1)}
      BY <2>1 DEF EmitClass, FlushLast, Flush
    <3>2. pending[t] \in Nat
      BY <1>1
    <3> QED
      BY <1>1, <3>1, <3>2
  <2>2. CASE UNCHANGED threadVars
    BY <1>1, <2>2 DEF threadVars
  <2> QED
    BY <2>1, <2>2, MassKinds
<1>3. stop => stop'
  BY DEF Next, Step, EmitClass, FlushLast, Panic, WorkerStep, SeedDone, WorkerDone, Leave,
         Report, MainStep, SeederDone, SeedingFails, Collect, Collected, CollectFails, ReadMass,
         StopWatcher, JoinWatcher, Gate, Watcher, Reader, vars, driverVars
<1> QED
  BY <1>2, <1>3

LEMMA WatchedStep == Accounted /\ Flow /\ Watched /\ [Next]_vars => Watched'
<1> SUFFICES ASSUME Accounted, Flow, Watched, [Next]_vars
             PROVE  Watched'
  OBVIOUS
<1> USE DEF Writing, OfThisRun
<1>1. /\ tracker \in 0 .. Quota /\ Quota \in Nat /\ snap \in Snapshots \cup {Absent}
      /\ file \in Contents /\ tracker' \in 0 .. Quota /\ stop \in BOOLEAN
  <2>1. Accounted'
    BY AccountedStep
  <2> QED
    BY <2>1, ProgressAssumption DEF Accounted, TypeOK
<1>2. /\ \A s \in Snapshots : s.mass \in 0 .. Quota /\ s.kind = "whole" /\ s.done \in BOOLEAN
      /\ \A s \in Contents : s.kind = "whole" => s \in Snapshots
  BY DEF Snapshots, Contents, Absent, Torn
<1>3. tracker' >= tracker /\ (stop => stop')
  BY TrackerGrows
<1>4. CASE UNCHANGED watcherVars
  <2>1. wpc \in Writing => snap.mass <= tracker'
    BY <1>1, <1>2, <1>3 DEF Watched
  <2>2. OfThisRun(file) => file.mass <= tracker'
    BY <1>1, <1>2, <1>3 DEF Watched
  <2> QED
    BY <1>3, <1>4, <2>1, <2>2 DEF Watched, watcherVars
<1>5. ASSUME Watcher
      PROVE  Watched'
  <2>1. tracker' = tracker /\ stop' = stop
    BY <1>5 DEF Watcher, threadVars, driverVars
  <2>2. ASSUME NEW done \in BOOLEAN, wpc \in {"begin", "poll", "sleep"}, TakeSnapshot(done),
               done => stop
        PROVE  Watched'
    <3>1. /\ snap' = [kind |-> "whole", run |-> "this", done |-> done, mass |-> tracker]
          /\ wpc' = "create" /\ file' = file
      BY <2>2 DEF TakeSnapshot, Whole
    <3>2. snap' \in Snapshots
      BY <1>1, <3>1 DEF Snapshots
    <3>3. done => (~ Sequential => tracker = Quota)
      BY <2>2, AllRead DEF Flow, Told, After
    <3>4. snap'.run = "this" /\ snap'.mass = tracker /\ snap'.done = done
      BY <3>1
    <3>5. OfThisRun(file) => file.mass <= tracker /\ ~ file.done
      BY <2>2 DEF Watched
    <3> QED
      BY <1>1, <2>1, <2>2, <3>1, <3>2, <3>3, <3>4, <3>5 DEF Watched
  <2>3. ASSUME UNCHANGED <<snap, tmp, file>>, wpc \notin Writing, wpc # "end",
               wpc' \in {"sleep", "poll"}
        PROVE  Watched'
    BY <2>1, <2>3 DEF Watched
  <2>4. CASE Begin
    BY <2>2, <2>4 DEF Begin
  <2>5. CASE Poll
    BY <2>2, <2>3, <2>5, <1>1 DEF Poll
  <2>6. CASE Wake
    BY <2>2, <2>3, <2>6 DEF Wake
  <2>7. ASSUME wpc \in Writing, WritingEnds, UNCHANGED <<snap, file>>
        PROVE  Watched'
    BY <2>1, <2>7 DEF Watched, WritingEnds
  <2>8. CASE Create
    <3>1. CASE tmp' = Torn /\ wpc' = "fill"
      BY <2>1, <2>8, <3>1 DEF Create, Watched
    <3> QED
      BY <2>7, <2>8, <3>1 DEF Create
  <2>9. CASE Fill
    <3>1. CASE tmp' = snap /\ wpc' = "rename"
      BY <2>1, <2>9, <3>1 DEF Fill, Watched
    <3> QED
      BY <2>7, <2>9, <3>1 DEF Fill
  <2>10. CASE Rename
    <3>1. CASE file' = tmp
      <4>1. /\ file' = snap /\ snap' = snap /\ snap \in Snapshots /\ snap.run = "this"
            /\ snap.mass <= tracker
            /\ snap.done => stop /\ (~ Sequential => snap.mass = Quota)
        BY <2>10, <3>1 DEF Rename, Watched
      <4>2. wpc' \notin Writing /\ (snap.done => wpc' = "end")
        BY <2>10 DEF Rename, WritingEnds
      <4>3. file' # Torn
        BY <1>2, <4>1 DEF Torn
      <4> QED
        BY <2>1, <4>1, <4>2, <4>3 DEF Watched
    <3> QED
      BY <2>7, <2>10, <3>1 DEF Rename
  <2> QED
    BY <1>5, <2>4, <2>5, <2>6, <2>8, <2>9, <2>10 DEF Watcher
<1> QED
  BY <1>4, <1>5 DEF Next, Step, EmitClass, FlushLast, Panic, WorkerStep, SeedDone, WorkerDone, Leave,
         Report, MainStep, SeederDone, SeedingFails, Collect, Collected, CollectFails, ReadMass,
         StopWatcher, JoinWatcher, Gate, Reader, vars

-----------------------------------------------------------------------------

LEMMA Reachable == Spec => [](Accounted /\ Flow /\ Watched)
<1>1. Init => Accounted /\ Flow /\ Watched
  BY AccountedInit, FlowInit, WatchedInit
<1>2. Accounted /\ Flow /\ Watched /\ [Next]_vars => (Accounted /\ Flow /\ Watched)'
  BY AccountedStep, FlowStep, WatchedStep
<1> QED
  BY <1>1, <1>2, PTL DEF Spec

(* The snapshot that says that the run is done carries the whole quota and  *)
(* comes after every thread's counts are merged, for every parallel run:    *)
(* flush_global_mass, the collection and the final snapshot of the watcher. *)
(* With no workers it is not so (FinalSnapshotExact).                       *)
THEOREM DoneIsExactCorrect ==
  ASSUME ~ Sequential
  PROVE  Spec => []DoneIsExact
<1>1. Accounted /\ Flow /\ Watched => DoneIsExact
  BY MainIsApart DEF Flow, Watched, DoneIsExact, OfThisRun, Told, After
<1> QED
  BY <1>1, Reachable, PTL

(* A driver that returns has merged the counts of every thread and they add *)
(* up to the quota, and the gate fails no run whose workers are healthy,    *)
(* for every pool and batch size: assert_mass_matches_quota.                *)
THEOREM ReturnIsExactCorrect == Spec => []ReturnIsExact
<1>1. ASSUME Accounted, Flow, pc[Main] = "returned"
      PROVE  result = Quota /\ Total(emitted, merged) = Quota
  <2>1. pc[Main] \in After /\ merged \subseteq Threads
    BY <1>1 DEF After, Accounted, TypeOK
  <2>2. merged = Threads /\ result = Quota
    BY <1>1, <2>1, MainIsApart DEF Flow, After
  <2> QED
    BY <1>1, <2>1, <2>2, AllRead
<1>2. Accounted /\ Flow /\ Watched => ReturnIsExact
  BY <1>1 DEF Flow, ReturnIsExact
<1> QED
  BY <1>2, Reachable, PTL

(* Between any two steps the progress file can be parsed, its mass never    *)
(* falls and a done snapshot is never replaced, whatever the disk does: the *)
(* write to a temporary file and the rename of write_progress.              *)
THEOREM ProgressOnlyGrowsCorrect == Spec => ProgressOnlyGrows
<1> DEFINE Grows == /\ file' # Torn
                    /\ file'.kind = "whole" /\ file.kind = "whole" /\ file.run = "this"
                         => /\ file'.run = "this" /\ file'.mass >= file.mass
                            /\ file.done => file' = file
<1>1. ASSUME Accounted, Flow, Watched, [Next]_vars
      PROVE  [Grows]_vars
  <2>1. Watched'
    BY <1>1, WatchedStep
  <2>2. file' # Torn
    BY <2>1 DEF Watched
  <2>3. ASSUME OfThisRun(file), file'.kind = "whole"
        PROVE  /\ file'.run = "this" /\ file'.mass >= file.mass
               /\ file.done => file' = file
    <3>1. file.mass \in Int
      <4>1. file \in Snapshots
        BY <1>1, <2>3 DEF Accounted, TypeOK, Contents, Absent, Torn, OfThisRun
      <4> QED
        BY <4>1, ProgressAssumption DEF Snapshots
    <3>2. CASE file' = file
      BY <2>3, <3>1, <3>2 DEF OfThisRun
    <3>3. CASE file' # file
      <4>1. Rename /\ file' = tmp
        BY <1>1, <3>3 DEF Next, Step, EmitClass, FlushLast, Panic, WorkerStep, SeedDone, WorkerDone,
              Leave, Report, MainStep, SeederDone, SeedingFails, Collect, Collected, CollectFails,
              ReadMass, StopWatcher, JoinWatcher, Gate, Watcher, Begin, Poll, Wake, TakeSnapshot, Create, Fill, Rename,
              Reader, vars, watcherVars
      <4>2. /\ wpc = "rename" /\ file' = snap /\ snap \in Snapshots /\ snap.run = "this"
            /\ file.mass <= snap.mass /\ ~ file.done
        BY <1>1, <2>3, <4>1 DEF Rename, Watched, Writing
      <4>3. snap.mass \in Int
        BY <4>2, ProgressAssumption DEF Snapshots
      <4> QED
        BY <3>1, <4>2, <4>3
    <3> QED
      BY <3>2, <3>3
  <2> QED
    BY <2>2, <2>3 DEF OfThisRun
<1>2. Spec => [][Grows]_vars
  <2> HIDE DEF Grows
  <2> QED
    BY <1>1, Reachable, PTL DEF Spec
<1> QED
  BY <1>2 DEF ProgressOnlyGrows

-----------------------------------------------------------------------------
(* The masses: the limb arithmetic of U256 is exact, for every size of word. *)


(* Products are monotone: what lets a comparison of halves decide one of    *)
(* values.                                                                  *)
LEMMA ProductMonotone ==
  ASSUME NEW x \in Nat, NEW y \in Nat, NEW z \in Nat, x <= y
  PROVE  x * z <= y * z
BY SMT

LEMMA HalfNat == Half \in Nat /\ Half > 0
BY WordAssumption, SMT DEF Half

LEMMA Distributes ==
  \A x, y, z \in Int : (x + y) * z = x * z + y * z /\ (x - y) * z = x * z - y * z
BY SMT

(* A value reaches the square of a half just when its high half does.       *)
LEMMA Leading ==
  ASSUME NEW h \in Nat, NEW w \in Nat, w < Half
  PROVE  h * Half + w >= Half * Half <=> h >= Half
<1>1. CASE h >= Half
  BY <1>1, HalfNat, ProductMonotone, SMT
<1>2. CASE h < Half
  <2>1. (h + 1) * Half <= Half * Half
    BY <1>2, HalfNat, ProductMonotone, SMT
  <2>2. (h + 1) * Half = h * Half + Half
    BY HalfNat, Distributes, SMT
  <2> QED
    BY <2>1, <2>2, <1>2, HalfNat, SMT
<1> QED
  BY <1>1, <1>2, HalfNat, SMT

(***************************************************************************)
(* `checked_add` panics if and only if the sum needs more than 256 bits,   *)
(* and otherwise returns the sum: no carry is lost and none is invented.   *)
(***************************************************************************)
THEOREM AddIsExact ==
  ASSUME NEW a \in Wide, NEW b \in Wide
  PROVE  /\ AddOverflows(a, b) <=> Value(a) + Value(b) >= Half * Half
         /\ ~ AddOverflows(a, b) => /\ CheckedAdd(a, b) \in Wide
                                    /\ Value(CheckedAdd(a, b)) = Value(a) + Value(b)
<1> DEFINE c == CarryOf(a.lo + b.lo)
           w == Wrapped(a.lo + b.lo)
           h == a.hi + b.hi + c
<1>1. /\ a.hi \in Nat /\ a.lo \in Nat /\ b.hi \in Nat /\ b.lo \in Nat
      /\ a.hi < Half /\ a.lo < Half /\ b.hi < Half /\ b.lo < Half
  BY HalfNat, SMT DEF Wide, U128
<1>2. /\ c \in {0, 1} /\ w \in Nat /\ w < Half
      /\ a.lo + b.lo = c * Half + w
  BY <1>1, HalfNat, SMT DEF CarryOf, Wrapped
<1>3. h \in Nat
  BY <1>1, <1>2, SMT
<1>4. Value(a) + Value(b) = h * Half + w
  <2>1. h * Half = a.hi * Half + b.hi * Half + c * Half
    BY <1>1, <1>2, HalfNat, Distributes, SMT
  <2> QED
    BY <2>1, <1>1, <1>2, HalfNat, SMT DEF Value
<1>5. AddOverflows(a, b) <=> h >= Half
  BY DEF AddOverflows
<1>6. h * Half + w >= Half * Half <=> h >= Half
  BY <1>2, <1>3, HalfNat, Leading
<1>7. CheckedAdd(a, b) = [hi |-> h, lo |-> w]
  BY DEF CheckedAdd
<1> QED
  <2>1. AddOverflows(a, b) <=> Value(a) + Value(b) >= Half * Half
    BY <1>4, <1>5, <1>6
  <2>2. ASSUME ~ AddOverflows(a, b)
        PROVE  CheckedAdd(a, b) \in Wide /\ Value(CheckedAdd(a, b)) = Value(a) + Value(b)
    BY <2>2, <1>2, <1>3, <1>4, <1>5, <1>7, HalfNat, SMT DEF Wide, U128, Value
  <2> QED
    BY <2>1, <2>2

(* The derived comparison is the comparison of values, so a quota test on   *)
(* halves is a test of the quota.                                           *)
THEOREM OrderIsNumeric ==
  ASSUME NEW a \in Wide, NEW b \in Wide
  PROVE  Less(a, b) <=> Value(a) < Value(b)
<1>1. /\ a.hi \in Nat /\ a.lo \in Nat /\ b.hi \in Nat /\ b.lo \in Nat
      /\ a.lo < Half /\ b.lo < Half
  BY HalfNat, SMT DEF Wide, U128
<1>2. ASSUME NEW x \in Wide, NEW y \in Wide, x.hi < y.hi
      PROVE  Value(x) < Value(y)
  <2>1. x.hi \in Nat /\ y.hi \in Nat /\ x.lo \in Nat /\ y.lo \in Nat /\ x.lo < Half
    BY HalfNat, SMT DEF Wide, U128
  <2>2. (x.hi + 1) * Half <= y.hi * Half
    BY <1>2, <2>1, HalfNat, ProductMonotone, SMT
  <2>3. (x.hi + 1) * Half = x.hi * Half + Half
    BY <2>1, HalfNat, Distributes, SMT
  <2> QED
    BY <2>1, <2>2, <2>3, HalfNat, SMT DEF Value
<1>3. CASE a.hi < b.hi
  BY <1>1, <1>2, <1>3, SMT DEF Less
<1>4. CASE b.hi < a.hi
  <2>1. Value(b) < Value(a)
    BY <1>2, <1>4
  <2> QED
    BY <2>1, <1>1, <1>4, HalfNat, SMT DEF Less, Value
<1>5. CASE a.hi = b.hi
  BY <1>1, <1>5, HalfNat, SMT DEF Less, Value
<1> QED
  BY <1>1, <1>3, <1>4, <1>5, SMT

(* A word is cut into quotient and remainder by division.                   *)
LEMMA DivisionAlgorithm ==
  ASSUME NEW v \in Nat, NEW d \in Nat, d > 0
  PROVE  /\ v \div d \in Nat /\ v % d \in Nat /\ v % d < d
         /\ v = (v \div d) * d + (v % d)
BY SMT

LEMMA WordNat == Word \in Nat /\ Word > 0
BY WordAssumption, SMT

LEMMA Associates ==
  \A x, y, z \in Int : (x * y) * z = x * (y * z)
BY SMT

LEMMA ProductNat == \A x, y \in Nat : x * y \in Nat
BY SMT

LEMMA HalfCut ==
  ASSUME NEW v \in U128
  PROVE  /\ v \div Word \in U64 /\ v % Word \in U64
         /\ v = (v \div Word) * Word + (v % Word)
<1> DEFINE q == v \div Word
           r == v % Word
<1>1. v \in Nat /\ v < Word * Word
  BY HalfNat, WordNat, SMT DEF U128, Half
<1>2. q \in Nat /\ r \in Nat /\ r < Word /\ v = q * Word + r
  BY <1>1, WordNat, DivisionAlgorithm
<1>3. q < Word
  <2>1. SUFFICES ASSUME q >= Word PROVE FALSE
    BY <1>2, WordNat, SMT
  <2>2. Word * Word <= q * Word
    BY <2>1, <1>2, WordNat, ProductMonotone
  <2> QED
    BY <2>2, <1>1, <1>2, WordNat, ProductNat, SMT
<1> QED
  BY <1>2, <1>3, WordNat, SMT DEF U64

(***************************************************************************)
(* `mul_small` panics if and only if the product needs more than 256 bits, *)
(* and otherwise returns the product, whatever the scalar of one word.     *)
(***************************************************************************)
THEOREM MulSmallIsExact ==
  ASSUME NEW x \in Wide, NEW m \in U64
  PROVE  /\ MulOverflows(x, m) <=> Value(x) * m >= Half * Half
         /\ ~ MulOverflows(x, m) => /\ MulSmall(x, m) \in Wide
                                    /\ Value(MulSmall(x, m)) = Value(x) * m
<1> DEFINE l == x.lo % Word
           u == x.lo \div Word
           p == u * m
           pq == p \div Word
           pr == p % Word
           s == LowSum(x, m)
           c == CarryOf(s)
           w == Wrapped(s)
           h == HighSum(x, m)
<1>1. x.hi \in Nat /\ x.lo \in U128 /\ x.lo \in Nat /\ m \in Nat /\ m < Word
  BY HalfNat, WordNat, SMT DEF Wide, U128, U64
<1>2. l \in Nat /\ u \in Nat /\ l < Word /\ x.lo = u * Word + l
  BY <1>1, HalfCut, WordNat, SMT DEF U64
<1>3. p \in Nat /\ l * m \in Nat
  BY <1>1, <1>2, ProductNat
<1>4. pq \in Nat /\ pr \in Nat /\ pr < Word /\ p = pq * Word + pr
  BY <1>3, WordNat, DivisionAlgorithm
<1>5. s = pr * Word + l * m
  BY DEF LowSum, HighProduct, LowProduct
<1>6. pr * Word \in Nat /\ pr * Word + Word <= Half
  <2>1. (pr + 1) * Word <= Word * Word
    <3>1. pr + 1 \in Nat /\ pr + 1 <= Word
      BY <1>4, WordNat, SMT
    <3> QED
      BY <3>1, WordNat, ProductMonotone
  <2>2. (pr + 1) * Word = pr * Word + Word
    BY <1>4, WordNat, Distributes, SMT
  <2> QED
    BY <2>1, <2>2, <1>4, WordNat, ProductNat DEF Half
<1>7. l * m <= Half
  <2>1. l * m <= Word * m
    BY <1>1, <1>2, WordNat, ProductMonotone, SMT
  <2>2. m * Word <= Word * Word
    BY <1>1, WordNat, ProductMonotone, SMT
  <2> QED
    BY <2>1, <2>2, <1>1, <1>3, WordNat, ProductNat, SMT DEF Half
<1>8. s \in Nat /\ s < 2 * Half
  BY <1>3, <1>5, <1>6, <1>7, HalfNat, WordNat, SMT
<1>9. c \in {0, 1} /\ w \in Nat /\ w < Half /\ s = c * Half + w
  BY <1>8, HalfNat, SMT DEF CarryOf, Wrapped
<1>10. h = x.hi * m + pq + c /\ h \in Nat
  <2>1. x.hi * m \in Nat
    BY <1>1, ProductNat
  <2> QED
    BY <2>1, <1>4, <1>9, SMT DEF HighSum, HighProduct
<1>11. Value(x) * m = h * Half + w
  <2>1. Value(x) * m = (x.hi * Half) * m + x.lo * m
    BY <1>1, HalfNat, ProductNat, Distributes, SMT DEF Value
  <2>2. x.lo * m = (u * Word) * m + l * m
    BY <1>1, <1>2, WordNat, ProductNat, Distributes, SMT
  <2>3. (u * Word) * m = p * Word
    BY <1>1, <1>2, WordNat, SMT
  <2>4. p * Word = (pq * Word) * Word + pr * Word
    BY <1>4, WordNat, ProductNat, Distributes, SMT
  <2>5. (pq * Word) * Word = pq * Half
    BY <1>4, WordNat, SMT DEF Half
  <2>6. x.lo * m = pq * Half + s
    BY <2>2, <2>3, <2>4, <2>5, <1>3, <1>4, <1>5, <1>6, HalfNat, ProductNat, SMT
  <2>7. (x.hi * Half) * m = (x.hi * m) * Half
    BY <1>1, HalfNat, SMT
  <2>8. h * Half = (x.hi * m) * Half + pq * Half + c * Half
    <3>1. x.hi * m \in Int /\ pq \in Int /\ c \in Int /\ Half \in Int
      <4>1. x.hi * m \in Nat
        BY <1>1, ProductNat
      <4>2. pq \in Nat /\ c \in Nat
        BY <1>4, <1>9
      <4> QED
        BY <4>1, <4>2, HalfNat
    <3> QED
      BY <3>1, <1>10, SMT
  <2>9. /\ (x.hi * m) * Half \in Nat /\ pq * Half \in Nat /\ c * Half \in Nat
    <3>1. x.hi * m \in Nat
      BY <1>1, ProductNat
    <3>2. pq \in Nat /\ c \in Nat /\ Half \in Nat
      BY <1>4, <1>9, HalfNat
    <3> QED
      BY <3>1, <3>2, ProductNat
  <2> QED
    BY <2>1, <2>6, <2>7, <2>8, <2>9, <1>9, SMT
<1>12. MulOverflows(x, m) <=> h >= Half
  BY DEF MulOverflows
<1>13. MulSmall(x, m) = [hi |-> h, lo |-> w]
  BY DEF MulSmall
<1> HIDE DEF h, w
<1>14. h * Half + w >= Half * Half <=> h >= Half
  BY <1>9, <1>10, HalfNat, Leading
<1> QED
  <2>1. MulOverflows(x, m) <=> Value(x) * m >= Half * Half
    BY <1>11, <1>12, <1>14
  <2>2. ASSUME ~ MulOverflows(x, m)
        PROVE  MulSmall(x, m) \in Wide /\ Value(MulSmall(x, m)) = Value(x) * m
    <3>1. [hi |-> h, lo |-> w] \in Wide
      BY <2>2, <1>9, <1>10, <1>12, HalfNat, SMT DEF Wide, U128
    <3> QED
      BY <3>1, <1>11, <1>13 DEF Value
  <2> QED
    BY <2>1, <2>2

(* `checked_sub` of what is not larger is the difference.                   *)
THEOREM SubIsExact ==
  ASSUME NEW a \in Wide, NEW b \in Wide, ~ SubUnderflows(a, b)
  PROVE  CheckedSub(a, b) \in Wide /\ Value(CheckedSub(a, b)) = Value(a) - Value(b)
<1> DEFINE c == IF a.lo < b.lo THEN 1 ELSE 0
           h == a.hi - b.hi - c
           w == a.lo - b.lo + c * Half
<1>1. /\ a.hi \in Nat /\ a.lo \in Nat /\ b.hi \in Nat /\ b.lo \in Nat
      /\ a.hi < Half /\ a.lo < Half /\ b.hi < Half /\ b.lo < Half
  BY HalfNat, SMT DEF Wide, U128
<1>2. h \in Nat /\ h < Half
  <2>1. c \in {0, 1} /\ a.hi >= b.hi + c
    BY <1>1, SMT DEF SubUnderflows, Less
  <2> QED
    BY <2>1, <1>1, HalfNat, SMT
<1>3. w \in Nat /\ w < Half
  BY <1>1, HalfNat, SMT
<1>4. h * Half = a.hi * Half - b.hi * Half - c * Half
  BY <1>1, HalfNat, Distributes, SMT
<1>5. CheckedSub(a, b) = [hi |-> h, lo |-> w]
  BY DEF CheckedSub
<1>6. /\ a.hi * Half \in Nat /\ b.hi * Half \in Nat /\ c * Half \in Nat
  BY <1>1, HalfNat, ProductNat, SMT
<1>7. h * Half + w = Value(a) - Value(b)
  BY <1>1, <1>4, <1>6, SMT DEF Value
<1>8. [hi |-> h, lo |-> w] \in Wide
  BY <1>2, <1>3, HalfNat, SMT DEF Wide, U128
<1> QED
  BY <1>5, <1>7, <1>8 DEF Value

(* One step of the long division keeps the remainder below the divisor, so  *)
(* that its quotient fits a word and the cast to one cuts nothing off.      *)
LEMMA BroughtIsExact ==
  ASSUME NEW d \in U64, d > 0, NEW rem \in Nat, rem < d, NEW limb \in U64
  PROVE  LET s == Brought(rem, limb, d)
         IN /\ s.q \in U64 /\ s.rem \in Nat /\ s.rem < d
            /\ rem * Word + limb = s.q * d + s.rem
<1> DEFINE cur == rem * Word + limb
           q == cur \div d
<1>1. d \in Nat /\ limb \in Nat /\ limb < Word
  BY WordNat, SMT DEF U64
<1>2. cur \in Nat
  BY <1>1, WordNat, ProductNat, SMT
<1>3. q \in Nat /\ cur % d \in Nat /\ cur % d < d /\ cur = q * d + (cur % d)
  BY <1>1, <1>2, DivisionAlgorithm
<1>4. cur < d * Word
  <2>1. rem + 1 \in Nat /\ rem + 1 <= d
    BY <1>1, SMT
  <2>2. (rem + 1) * Word <= d * Word
    BY <2>1, <1>1, WordNat, ProductMonotone
  <2>3. (rem + 1) * Word = rem * Word + Word
    BY WordNat, Distributes, SMT
  <2> QED
    BY <2>2, <2>3, <1>1, WordNat, ProductNat, SMT
<1>5. q < Word
  <2>1. SUFFICES ASSUME q >= Word PROVE FALSE
    BY <1>3, WordNat, SMT
  <2>2. Word * d <= q * d
    BY <2>1, <1>1, <1>3, WordNat, ProductMonotone
  <2>3. Word * d = d * Word /\ q * d \in Nat /\ d * Word \in Nat
    BY <1>1, <1>3, WordNat, ProductNat, SMT
  <2> QED
    BY <2>2, <2>3, <1>3, <1>4, SMT
<1>6. q \in U64
  BY <1>3, <1>5, WordNat, SMT DEF U64
<1> QED
  BY <1>3, <1>6 DEF Brought

(* Two steps divide a half, together with the remainder brought down to it. *)
LEMMA HalfIsDivided ==
  ASSUME NEW d \in U64, d > 0, NEW rem \in Nat, rem < d, NEW v \in U128
  PROVE  LET s == Brought(rem, v \div Word, d)
             t == Brought(s.rem, v % Word, d)
         IN /\ s.q * Word + t.q \in U128 /\ t.rem \in Nat /\ t.rem < d
            /\ rem * Half + v = (s.q * Word + t.q) * d + t.rem
<1> DEFINE a == v \div Word
           b == v % Word
           s == Brought(rem, a, d)
           t == Brought(s.rem, b, d)
<1>1. a \in U64 /\ b \in U64 /\ v = a * Word + b
  BY HalfCut
<1>2. s.q \in U64 /\ s.rem \in Nat /\ s.rem < d /\ rem * Word + a = s.q * d + s.rem
  BY <1>1, BroughtIsExact
<1>3. t.q \in U64 /\ t.rem \in Nat /\ t.rem < d /\ s.rem * Word + b = t.q * d + t.rem
  BY <1>1, <1>2, BroughtIsExact
<1> HIDE DEF s, t, a, b
<1>4. /\ a \in Nat /\ b \in Nat /\ d \in Nat /\ s.q \in Nat /\ t.q \in Nat
      /\ s.q + 1 <= Word /\ t.q + 1 <= Word
  BY <1>1, <1>2, <1>3, WordNat, SMT DEF U64
<1>5. s.q * Word + t.q \in U128
  <2>1. (s.q + 1) * Word <= Word * Word
    BY <1>4, WordNat, ProductMonotone, SMT
  <2>2. (s.q + 1) * Word = s.q * Word + Word
    BY <1>4, WordNat, Distributes, SMT
  <2> QED
    BY <2>1, <2>2, <1>4, WordNat, ProductNat, SMT DEF U128, Half
<1>6. rem * Half + v = (rem * Word + a) * Word + b
  <2>1. (rem * Word) * Word = rem * Half
    BY WordNat, SMT DEF Half
  <2>2. (rem * Word + a) * Word = (rem * Word) * Word + a * Word
    BY <1>4, WordNat, ProductNat, Distributes, SMT
  <2>3. rem * Half \in Nat /\ a * Word \in Nat
    BY <1>4, WordNat, HalfNat, ProductNat
  <2> QED
    BY <2>1, <2>2, <2>3, <1>1, <1>4, SMT
<1>7. (s.q * d + s.rem) * Word + b = (s.q * Word + t.q) * d + t.rem
  <2>1. (s.q * d + s.rem) * Word = (s.q * Word) * d + s.rem * Word
    BY <1>2, <1>4, WordNat, SMT
  <2>2. (s.q * Word + t.q) * d = (s.q * Word) * d + t.q * d
    BY <1>4, WordNat, ProductNat, Distributes, SMT
  <2>3. /\ (s.q * Word) * d \in Nat /\ s.rem * Word \in Nat /\ t.q * d \in Nat
    BY <1>2, <1>4, WordNat, ProductNat
  <2> DEFINE A == (s.q * Word) * d
             B == s.rem * Word
             T == t.q * d
  <2> HIDE DEF A, B, T
  <2>4. A \in Nat /\ B \in Nat /\ T \in Nat /\ B + b = T + t.rem
    BY <2>3, <1>3 DEF A, B, T
  <2> DEFINE r == t.rem
  <2>6. r \in Nat /\ b \in Nat /\ B + b = T + r
    BY <2>4, <1>3, <1>4
  <2> HIDE DEF r
  <2>5. (A + B) + b = (A + T) + r
    BY <2>4, <2>6, SMT
  <2> QED
    BY <2>1, <2>2, <2>5 DEF A, B, T, r
<1>8. rem * Half + v = (s.q * Word + t.q) * d + t.rem
  BY <1>2, <1>6, <1>7
<1> QED
  BY <1>3, <1>5, <1>8 DEF s, t, a, b

(***************************************************************************)
(* `divmod_small` returns the quotient and the remainder by any divisor of *)
(* one word; `Display` reads the decimal digits off it.                    *)
(***************************************************************************)
THEOREM DivModSmallIsExact ==
  ASSUME NEW x \in Wide, NEW d \in U64, d > 0
  PROVE  LET s == DivModSmall(x, d)
         IN /\ s.quotient \in Wide /\ s.rem \in Nat /\ s.rem < d
            /\ Value(x) = Value(s.quotient) * d + s.rem
<1> DEFINE s1 == Brought(0, x.hi \div Word, d)
           s2 == Brought(s1.rem, x.hi % Word, d)
           s3 == Brought(s2.rem, x.lo \div Word, d)
           s4 == Brought(s3.rem, x.lo % Word, d)
           h == s1.q * Word + s2.q
           l == s3.q * Word + s4.q
<1>1. x.hi \in U128 /\ x.lo \in U128
  BY DEF Wide
<1>2. h \in U128 /\ s2.rem \in Nat /\ s2.rem < d /\ 0 * Half + x.hi = h * d + s2.rem
  BY <1>1, HalfIsDivided
<1>3. l \in U128 /\ s4.rem \in Nat /\ s4.rem < d /\ s2.rem * Half + x.lo = l * d + s4.rem
  BY <1>1, <1>2, HalfIsDivided
<1>4. DivModSmall(x, d) = [quotient |-> [hi |-> h, lo |-> l], rem |-> s4.rem]
  BY DEF DivModSmall
<1> HIDE DEF s1, s2, s3, s4, h, l
<1>5. /\ x.hi \in Nat /\ x.lo \in Nat /\ h \in Nat /\ l \in Nat /\ d \in Nat
  BY <1>1, <1>2, <1>3, HalfNat, WordNat, SMT DEF U128, U64
<1>6. x.hi = h * d + s2.rem
  BY <1>2, <1>5, HalfNat, SMT
<1>7. x.hi * Half + x.lo = (h * Half + l) * d + s4.rem
  <2>1. x.hi * Half = (h * Half) * d + s2.rem * Half
    BY <1>2, <1>5, <1>6, HalfNat, SMT
  <2>2. (h * Half + l) * d = (h * Half) * d + l * d
    BY <1>5, HalfNat, ProductNat, Distributes, SMT
  <2>3. (h * Half) * d \in Nat /\ s2.rem * Half \in Nat /\ l * d \in Nat
    BY <1>2, <1>5, HalfNat, ProductNat
  <2> QED
    BY <2>1, <2>2, <2>3, <1>3, <1>5, SMT
<1>8. [hi |-> h, lo |-> l] \in Wide
  BY <1>2, <1>3 DEF Wide
<1> QED
  BY <1>3, <1>4, <1>7, <1>8 DEF Value

=============================================================================

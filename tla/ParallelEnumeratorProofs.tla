----------------------- MODULE ParallelEnumeratorProofs -----------------------
(***************************************************************************)
(* Proofs about the parallel drivers, for every tree, every number of      *)
(* workers and every setting of the knobs.  First the balance of work: who *)
(* is idle, what is in flight, what is left.  Then the output: each class  *)
(* once, with masses that agree with it, and every class in the end when   *)
(* no writer fails, as the abstract enumeration promises.                  *)
(***************************************************************************)
EXTENDS ParallelEnumerator, FiniteSetTheorems, TLAPS

USE DEF Threads

-----------------------------------------------------------------------------
(***************************************************************************)
(* Types.  That the two counters are natural numbers is not inductive on   *)
(* its own: it follows from what they count, below.                        *)
(***************************************************************************)

PcTyped ==
  /\ pc \in [Threads -> WorkerPC \cup MainPC]
  /\ pc[Main] \in MainPC
  /\ \A w \in Workers : pc[w] \in WorkerPC

WalkTyped ==
  /\ seed \in [Threads -> Codes \cup {NoCode}]
  /\ cur \in [Threads -> Codes \cup {NoCode}]
  /\ stack \in [Threads -> SUBSET Codes]
  /\ todo \in [Threads -> SUBSET ((Codes \ {Root}) \cup Rejects)]
  /\ hand \in [Threads -> Codes \cup {NoCode}]

BalanceTyped ==
  /\ queue \in Seq(Codes)
  /\ idle \in Int
  /\ outstanding \in Int
  /\ seederDone \in BOOLEAN

MassTyped ==
  /\ mass \in [Ranks -> Nat]
  /\ full \in [Ranks -> BOOLEAN]
  /\ pending \in [Threads -> [Ranks -> Nat]]
  /\ sinceFlush \in [Threads -> Nat]
  /\ flushed \in [Threads -> SUBSET Codes]

OutTyped ==
  /\ emitted \in [Threads -> SUBSET Codes]
  /\ results \subseteq Workers
  /\ collected \subseteq Workers

Typed == PcTyped /\ WalkTyped /\ BalanceTyped /\ MassTyped /\ OutTyped

(* A thread inside a traverse. *)
Walking == {"emit", "preloop", "loop", "return", "reserve", "send", "rollback"}

(***************************************************************************)
(* Which control states go with a seed in progress, with a class in hand,  *)
(* and with the two ways to end a worker.                                  *)
(***************************************************************************)
Control ==
  /\ \A t \in Threads : pc[t] \in Walking => cur[t] \in Codes /\ seed[t] \in Codes
  /\ \A t \in Threads : pc[t] \notin Walking \cup {"panicked"} => seed[t] = NoCode
  /\ \A t \in Threads : pc[t] \in {"reserve", "send", "rollback"} => hand[t] \in Codes
  /\ \A t \in Threads : pc[t] \notin {"reserve", "send", "rollback", "panicked"} => hand[t] = NoCode
  /\ ~SelfSubdivide => /\ pc[Main] # "reserve"
                       /\ \A w \in Workers : pc[w] \notin
                            {"top", "readDone", "readOutstanding", "reserve", "send",
                             "rollback", "release"}

(***************************************************************************)
(* The frames S of a thread lie on a path of the tree, from the class s    *)
(* its outermost traverse was called on to the current class c.            *)
(***************************************************************************)
Path ==
  [s \in Codes |-> [c \in Codes |->
    {S \in SUBSET Codes :
       /\ s \in S /\ c \in S
       /\ \A x \in S : x # s => x # Root /\ Parent[x] \in S
       /\ \A x \in S : Rank[x] <= Rank[c] /\ Rank[s] <= Rank[x]
       /\ \A x, y \in S : Rank[x] = Rank[y] => x = y}]]

Paths ==
  /\ \A t \in Threads : pc[t] \in Walking => stack[t] \in Path[seed[t]][cur[t]]
  /\ \A t \in Threads : pc[t] \in {"reserve", "send", "rollback"} =>
       hand[t] # Root /\ Parent[hand[t]] = cur[t]

LEMMA ConstantFacts ==
  /\ Root \in Codes /\ NoCode \notin Codes /\ Main \notin Workers
  /\ Codes \cap Rejects = {}
  /\ Rank \in [Codes -> Ranks] /\ MaxK \in Nat
  /\ Parent \in [(Codes \ {Root}) \cup Rejects -> Codes]
  /\ FlushInterval \in Nat /\ SelfSubdivide \in BOOLEAN
  /\ \A c \in Codes : Contribution(c) \in Nat
  /\ \A k \in Ranks : Quota[k] \in Nat
  /\ \A c \in Codes : Candidates(c) \subseteq (Codes \ {Root}) \cup Rejects
<1>1. Root \in Codes /\ NoCode \notin Codes /\ Main \notin Workers
  BY RankAssumption, ParallelAssumption
<1>2. /\ Codes \cap Rejects = {}
      /\ Rank \in [Codes -> Ranks] /\ MaxK \in Nat
      /\ Parent \in [(Codes \ {Root}) \cup Rejects -> Codes]
      /\ FlushInterval \in Nat /\ SelfSubdivide \in BOOLEAN
  BY RankAssumption, ParallelAssumption
<1>3. \A c \in Codes : Contribution(c) \in Nat
  BY MassAssumption DEF Contribution
<1>4. \A k \in Ranks : Quota[k] \in Nat
  BY MassAssumption DEF Quota, OfRank
<1>5. \A c \in Codes : Candidates(c) \subseteq (Codes \ {Root}) \cup Rejects
  BY DEF Candidates
<1> QED BY <1>1, <1>2, <1>3, <1>4, <1>5

LEMMA PathStart == ASSUME NEW c \in Codes PROVE {c} \in Path[c][c]
<1>1. Rank[c] \in Nat
  BY ConstantFacts DEF Ranks
<1>2. Rank[c] <= Rank[c]
  BY <1>1
<1> QED BY <1>2 DEF Path

LEMMA PathPush ==
  ASSUME NEW S \in SUBSET Codes, NEW s \in Codes, NEW c \in Codes, S \in Path[s][c],
         NEW x \in Codes \ {Root}, Parent[x] = c
  PROVE  (S \cup {x}) \in Path[s][x]
<1>1. Rank[x] = Rank[c] + 1
  BY RankAssumption
<1>2. \A y \in S : Rank[y] \in Nat /\ Rank[y] <= Rank[c]
  BY ConstantFacts DEF Path, Ranks
<1>3. Rank[x] \in Nat /\ Rank[c] \in Nat /\ Rank[s] \in Nat
  BY ConstantFacts DEF Ranks
<1> QED BY <1>1, <1>2, <1>3 DEF Path

LEMMA PathPop ==
  ASSUME NEW S \in SUBSET Codes, NEW s \in Codes, NEW c \in Codes, S \in Path[s][c], c # s
  PROVE  /\ c \in Codes \ {Root} /\ Parent[c] \in S
         /\ S \ {c} \in Path[s][Parent[c]]
<1>1. c # Root /\ Parent[c] \in S
  BY DEF Path
<1>2. Rank[c] = Rank[Parent[c]] + 1
  BY <1>1, RankAssumption
<1>3. \A y \in S : Rank[y] \in Nat
  BY ConstantFacts DEF Ranks
<1>4. \A y \in S \ {c} : Rank[y] <= Rank[Parent[c]]
  <2>1. \A y \in S \ {c} : Rank[y] <= Rank[c] /\ Rank[y] # Rank[c]
    BY DEF Path
  <2> QED BY <2>1, <1>1, <1>2, <1>3
<1>5. \A y \in S \ {c} : y # s => y # Root /\ Parent[y] \in S \ {c}
  <2> SUFFICES ASSUME NEW y \in S \ {c}, y # s, Parent[y] = c PROVE FALSE
    BY DEF Path
  <2>1. y # Root
    BY DEF Path
  <2>2. Rank[y] = Rank[c] + 1
    BY <2>1, RankAssumption
  <2> QED BY <2>2, <1>1, <1>2, <1>3, <1>4
<1> QED BY <1>1, <1>2, <1>3, <1>4, <1>5 DEF Path

LEMMA PathEnd ==
  ASSUME NEW S \in SUBSET Codes, NEW c \in Codes, S \in Path[c][c]
  PROVE  S = {c}
<1>1. \A y \in S : Rank[y] \in Nat /\ Rank[c] \in Nat
  BY ConstantFacts DEF Ranks
<1> QED BY <1>1 DEF Path

LEMMA AddBatchTyped ==
  ASSUME MassTyped, NEW deltas \in [Ranks -> Nat], AddBatch(deltas)
  PROVE  mass' \in [Ranks -> Nat] /\ full' \in [Ranks -> BOOLEAN]
BY DEF MassTyped, AddBatch

LEMMA TypedInit == Init => Typed /\ Control /\ Paths
<1> SUFFICES ASSUME Init PROVE Typed /\ Control /\ Paths
  OBVIOUS
<1> USE ConstantFacts DEF Init
<1>1. PcTyped
  BY DEF PcTyped, WorkerPC, MainPC, LoopTop
<1>2. WalkTyped
  BY DEF WalkTyped
<1>3. BalanceTyped /\ OutTyped
  <2>1. queue = <<>> /\ <<>> \in Seq(Codes)
    OBVIOUS
  <2>2. OutTyped
    BY DEF OutTyped
  <2>3. idle \in Int /\ outstanding \in Int
    OBVIOUS
  <2>4. seederDone \in BOOLEAN
    OBVIOUS
  <2>5. queue \in Seq(Codes)
    BY <2>1
  <2> QED BY <2>2, <2>3, <2>4, <2>5 DEF BalanceTyped
<1>4. MassTyped
  BY DEF MassTyped, NoMass
<1>5. Control
  BY DEF Control, Walking, LoopTop
<1>6. Paths
  BY PathStart DEF Paths, Walking, LoopTop
<1> QED BY <1>1, <1>2, <1>3, <1>4, <1>5, <1>6 DEF Typed

LEMMA TypedStep == Typed /\ Control /\ Paths /\ [Next]_vars => Typed' /\ Control' /\ Paths'
<1> SUFFICES ASSUME Typed, Control, Paths, [Next]_vars PROVE Typed' /\ Control' /\ Paths'
  OBVIOUS
<1> USE ConstantFacts DEF Goto, walkVars, balanceVars, massVars, outVars
<1>1. ASSUME NEW t \in Threads, Emit(t) PROVE Typed' /\ Control' /\ Paths'
  <2>1. PcTyped'
    BY <1>1 DEF Emit, Typed, PcTyped, WorkerPC, MainPC
  <2>2. WalkTyped'
    BY <1>1 DEF Emit, Typed, WalkTyped, Control, Walking, Output, Contribute, AddBatch, NoMass, Contribution
  <2>3. BalanceTyped' /\ OutTyped'
    BY <1>1 DEF Emit, Typed, BalanceTyped, OutTyped, WalkTyped, Control, Walking, Output, Contribute, AddBatch, NoMass, Contribution
  <2>4. MassTyped'
    <3> DEFINE buffer == [pending[t] EXCEPT ![Rank[cur[t]]] = @ + Contribution(cur[t])]
    <3>1. cur[t] \in Codes
      BY <1>1 DEF Emit, Control, Walking
    <3>2. buffer \in [Ranks -> Nat]
      BY <3>1 DEF Typed, MassTyped
    <3>3. NoMass \in [Ranks -> Nat]
      BY DEF NoMass
    <3>4. flushed[t] \in SUBSET Codes /\ emitted[t] \cup {cur[t]} \in SUBSET Codes
      BY <3>1 DEF Typed, MassTyped, OutTyped
    <3>5. Contribute(t, cur[t])
      BY <1>1 DEF Emit
    <3>6. CASE sinceFlush[t] + 1 >= FlushInterval
      <4>1. AddBatch(buffer)
        BY <3>5, <3>6 DEF Contribute
      <4> QED
        <5>1. mass' \in [Ranks -> Nat] /\ full' \in [Ranks -> BOOLEAN]
          BY <3>2, <4>1, AddBatchTyped DEF Typed
        <5>2. /\ pending' = [pending EXCEPT ![t] = NoMass]
              /\ sinceFlush' = [sinceFlush EXCEPT ![t] = 0]
              /\ flushed' = [flushed EXCEPT ![t] = emitted[t] \cup {cur[t]}]
          BY <3>5, <3>6 DEF Contribute
        <5> QED BY <3>3, <3>4, <5>1, <5>2 DEF Typed, MassTyped
    <3>7. CASE ~(sinceFlush[t] + 1 >= FlushInterval)
      BY <3>2, <3>5, <3>7 DEF Contribute, Typed, MassTyped
    <3> QED BY <3>6, <3>7
  <2>5. Control'
    <3>1. /\ pc' \in [Threads -> {pc[s] : s \in Threads} \cup {"return", "loop", "preloop"}]
          /\ pc'[t] \in {"return", "loop", "preloop"}
          /\ \A s \in Threads \ {t} : pc'[s] = pc[s]
          /\ UNCHANGED <<seed, cur, hand>>
      BY <1>1 DEF Emit, Typed, PcTyped
    <3> QED
      BY <1>1, <3>1 DEF Emit, Typed, PcTyped, Control, Walking
  <2>6. Paths'
    BY <1>1 DEF Emit, Typed, PcTyped, WalkTyped, BalanceTyped, Control, Paths, Walking
  <2> QED BY <2>1, <2>2, <2>3, <2>4, <2>5, <2>6 DEF Typed
<1>2. ASSUME NEW t \in Threads, RejectCandidate(t) PROVE Typed' /\ Control' /\ Paths'
  <2>1. PcTyped'
    BY <1>2 DEF RejectCandidate, Typed, PcTyped, WorkerPC, MainPC
  <2>2. WalkTyped'
    BY <1>2 DEF RejectCandidate, Typed, WalkTyped, Control, Walking, Unseen, Drop
  <2>3. BalanceTyped' /\ OutTyped'
    BY <1>2 DEF RejectCandidate, Typed, BalanceTyped, OutTyped, WalkTyped, Control, Walking, Unseen, Drop
  <2>4. MassTyped'
    BY <1>2 DEF RejectCandidate, Typed, MassTyped, WalkTyped, OutTyped, Control, Walking, Unseen, Drop
  <2>5. Control'
    BY <1>2 DEF RejectCandidate, Typed, PcTyped, WalkTyped, BalanceTyped, Control, Walking, WorkerPC, MainPC, Unseen, Drop
  <2>6. Paths'
    BY <1>2 DEF RejectCandidate, Typed, PcTyped, WalkTyped, BalanceTyped, Control, Paths, Walking
  <2> QED BY <2>1, <2>2, <2>3, <2>4, <2>5, <2>6 DEF Typed
<1>3. ASSUME NEW t \in Threads, Reserve(t) PROVE Typed' /\ Control' /\ Paths'
  <2>1. PcTyped'
    BY <1>3 DEF Reserve, Typed, PcTyped, WorkerPC, MainPC
  <2>2. WalkTyped'
    BY <1>3 DEF Reserve, Typed, WalkTyped, Control, Walking
  <2>3. BalanceTyped' /\ OutTyped'
    BY <1>3 DEF Reserve, Typed, BalanceTyped, OutTyped, WalkTyped, Control, Walking
  <2>4. MassTyped'
    BY <1>3 DEF Reserve, Typed, MassTyped, WalkTyped, OutTyped, Control, Walking
  <2>5. Control'
    BY <1>3 DEF Reserve, Typed, PcTyped, WalkTyped, BalanceTyped, Control, Walking, WorkerPC, MainPC
  <2>6. Paths'
    BY <1>3 DEF Reserve, Typed, PcTyped, WalkTyped, BalanceTyped, Control, Paths, Walking
  <2> QED BY <2>1, <2>2, <2>3, <2>4, <2>5, <2>6 DEF Typed
<1>4. ASSUME NEW t \in Threads, LoopDone(t) PROVE Typed' /\ Control' /\ Paths'
  <2>1. PcTyped'
    BY <1>4 DEF LoopDone, Typed, PcTyped, WorkerPC, MainPC
  <2>2. WalkTyped'
    BY <1>4 DEF LoopDone, Typed, WalkTyped, Control, Walking
  <2>3. BalanceTyped' /\ OutTyped'
    BY <1>4 DEF LoopDone, Typed, BalanceTyped, OutTyped, WalkTyped, Control, Walking
  <2>4. MassTyped'
    BY <1>4 DEF LoopDone, Typed, MassTyped, WalkTyped, OutTyped, Control, Walking
  <2>5. Control'
    BY <1>4 DEF LoopDone, Typed, PcTyped, WalkTyped, BalanceTyped, Control, Walking, WorkerPC, MainPC
  <2>6. Paths'
    BY <1>4 DEF LoopDone, Typed, PcTyped, WalkTyped, BalanceTyped, Control, Paths, Walking
  <2> QED BY <2>1, <2>2, <2>3, <2>4, <2>5, <2>6 DEF Typed
<1>5. ASSUME NEW t \in Threads, ReturnToLoop(t) PROVE Typed' /\ Control' /\ Paths'
  <2>1. PcTyped'
    BY <1>5 DEF ReturnToLoop, Typed, PcTyped, WorkerPC, MainPC
  <2>2. WalkTyped' /\ cur'[t] \in Codes /\ stack'[t] \in Path[seed[t]][cur'[t]]
    <3>1. /\ cur[t] \in Codes /\ seed[t] \in Codes /\ stack[t] \in SUBSET Codes
          /\ stack[t] \in Path[seed[t]][cur[t]]
      BY <1>5 DEF ReturnToLoop, Typed, WalkTyped, Control, Paths, Walking
    <3>2. cur[t] \in Codes \ {Root} /\ Parent[cur[t]] \in Codes
      BY <1>5, <3>1, PathPop DEF ReturnToLoop
    <3>3. stack[t] \ {cur[t]} \in Path[seed[t]][Parent[cur[t]]]
      BY <1>5, <3>1, PathPop DEF ReturnToLoop
    <3> QED BY <1>5, <3>2, <3>3 DEF ReturnToLoop, Typed, WalkTyped
  <2>3. BalanceTyped' /\ OutTyped'
    BY <1>5 DEF ReturnToLoop, Typed, BalanceTyped, OutTyped, WalkTyped, Control, Walking
  <2>4. MassTyped'
    BY <1>5 DEF ReturnToLoop, Typed, MassTyped, WalkTyped, OutTyped, Control, Walking
  <2>5. Control'
    BY <1>5, <2>2 DEF ReturnToLoop, Typed, PcTyped, WalkTyped, Control, Walking
  <2>6. Paths'
    BY <1>5, <2>2 DEF ReturnToLoop, Typed, PcTyped, WalkTyped, Control, Paths, Walking
  <2> QED BY <2>1, <2>2, <2>3, <2>4, <2>5, <2>6 DEF Typed
<1>6. ASSUME NEW t \in Threads, ReturnFromSeed(t) PROVE Typed' /\ Control' /\ Paths'
  <2>1. PcTyped'
    BY <1>6 DEF ReturnFromSeed, Typed, PcTyped, WorkerPC, MainPC
  <2>2. WalkTyped'
    BY <1>6 DEF ReturnFromSeed, Typed, WalkTyped, Control, Walking
  <2>3. BalanceTyped' /\ OutTyped'
    BY <1>6 DEF ReturnFromSeed, Typed, BalanceTyped, OutTyped, WalkTyped, Control, Walking
  <2>4. MassTyped'
    BY <1>6 DEF ReturnFromSeed, Typed, MassTyped, WalkTyped, OutTyped, Control, Walking
  <2>5. Control'
    BY <1>6 DEF ReturnFromSeed, Typed, PcTyped, WalkTyped, BalanceTyped, Control, Walking, WorkerPC, MainPC
  <2>6. Paths'
    BY <1>6 DEF ReturnFromSeed, Typed, PcTyped, WalkTyped, BalanceTyped, Control, Paths, Walking
  <2> QED BY <2>1, <2>2, <2>3, <2>4, <2>5, <2>6 DEF Typed
<1>7. ASSUME NEW t \in Threads, WriterFails(t) PROVE Typed' /\ Control' /\ Paths'
  <2>1. PcTyped'
    BY <1>7 DEF WriterFails, Typed, PcTyped, WorkerPC, MainPC
  <2>2. WalkTyped'
    BY <1>7 DEF WriterFails, Typed, WalkTyped, Control, Walking
  <2>3. BalanceTyped' /\ OutTyped'
    BY <1>7 DEF WriterFails, Typed, BalanceTyped, OutTyped, WalkTyped, Control, Walking
  <2>4. MassTyped'
    BY <1>7 DEF WriterFails, Typed, MassTyped, WalkTyped, OutTyped, Control, Walking
  <2>5. Control'
    BY <1>7 DEF WriterFails, Typed, PcTyped, WalkTyped, BalanceTyped, Control, Walking, WorkerPC, MainPC
  <2>6. Paths'
    BY <1>7 DEF WriterFails, Typed, PcTyped, WalkTyped, BalanceTyped, Control, Paths, Walking
  <2> QED BY <2>1, <2>2, <2>3, <2>4, <2>5, <2>6 DEF Typed
<1>8. ASSUME NEW w \in Workers, StopBeforeLoop(w) PROVE Typed' /\ Control' /\ Paths'
  <2>1. PcTyped'
    BY <1>8 DEF StopBeforeLoop, Typed, PcTyped, WorkerPC, MainPC
  <2>2. WalkTyped'
    BY <1>8 DEF StopBeforeLoop, Typed, WalkTyped, Control, Walking
  <2>3. BalanceTyped' /\ OutTyped'
    BY <1>8 DEF StopBeforeLoop, Typed, BalanceTyped, OutTyped, WalkTyped, Control, Walking
  <2>4. MassTyped'
    BY <1>8 DEF StopBeforeLoop, Typed, MassTyped, WalkTyped, OutTyped, Control, Walking
  <2>5. Control'
    BY <1>8 DEF StopBeforeLoop, Typed, PcTyped, WalkTyped, BalanceTyped, Control, Walking, WorkerPC, MainPC
  <2>6. Paths'
    BY <1>8 DEF StopBeforeLoop, Typed, PcTyped, WalkTyped, BalanceTyped, Control, Paths, Walking
  <2> QED BY <2>1, <2>2, <2>3, <2>4, <2>5, <2>6 DEF Typed
<1>9. ASSUME NEW w \in Workers, GenerateCandidates(w) PROVE Typed' /\ Control' /\ Paths'
  <2>1. PcTyped'
    BY <1>9 DEF GenerateCandidates, Typed, PcTyped, WorkerPC, MainPC
  <2>2. WalkTyped'
    BY <1>9 DEF GenerateCandidates, Typed, WalkTyped, Control, Walking
  <2>3. BalanceTyped' /\ OutTyped'
    BY <1>9 DEF GenerateCandidates, Typed, BalanceTyped, OutTyped, WalkTyped, Control, Walking
  <2>4. MassTyped'
    BY <1>9 DEF GenerateCandidates, Typed, MassTyped, WalkTyped, OutTyped, Control, Walking
  <2>5. Control'
    BY <1>9 DEF GenerateCandidates, Typed, PcTyped, WalkTyped, BalanceTyped, Control, Walking, WorkerPC, MainPC
  <2>6. Paths'
    BY <1>9 DEF GenerateCandidates, Typed, PcTyped, WalkTyped, BalanceTyped, Control, Paths, Walking
  <2> QED BY <2>1, <2>2, <2>3, <2>4, <2>5, <2>6 DEF Typed
<1>10. ASSUME NEW w \in Workers, StopInLoop(w) PROVE Typed' /\ Control' /\ Paths'
  <2>1. PcTyped'
    BY <1>10 DEF StopInLoop, Typed, PcTyped, WorkerPC, MainPC
  <2>2. WalkTyped'
    BY <1>10 DEF StopInLoop, Typed, WalkTyped, Control, Walking, Unseen, Drop
  <2>3. BalanceTyped' /\ OutTyped'
    BY <1>10 DEF StopInLoop, Typed, BalanceTyped, OutTyped, WalkTyped, Control, Walking, Unseen, Drop
  <2>4. MassTyped'
    BY <1>10 DEF StopInLoop, Typed, MassTyped, WalkTyped, OutTyped, Control, Walking, Unseen, Drop
  <2>5. Control'
    BY <1>10 DEF StopInLoop, Typed, PcTyped, WalkTyped, BalanceTyped, Control, Walking, WorkerPC, MainPC, Unseen, Drop
  <2>6. Paths'
    BY <1>10 DEF StopInLoop, Typed, PcTyped, WalkTyped, BalanceTyped, Control, Paths, Walking
  <2> QED BY <2>1, <2>2, <2>3, <2>4, <2>5, <2>6 DEF Typed
<1>11. ASSUME NEW w \in Workers, RecurseIntoChild(w) PROVE Typed' /\ Control' /\ Paths'
  <2>1. PcTyped'
    BY <1>11 DEF RecurseIntoChild, Typed, PcTyped, WorkerPC, MainPC
  <2>2. WalkTyped'
    BY <1>11 DEF RecurseIntoChild, Typed, WalkTyped, Control, Walking, Unseen, Drop, Push
  <2>3. BalanceTyped' /\ OutTyped'
    BY <1>11 DEF RecurseIntoChild, Typed, BalanceTyped, OutTyped, WalkTyped, Control, Walking, Unseen, Drop, Push
  <2>4. MassTyped'
    BY <1>11 DEF RecurseIntoChild, Typed, MassTyped, WalkTyped, OutTyped, Control, Walking, Unseen, Drop, Push
  <2>5. Control'
    BY <1>11 DEF RecurseIntoChild, Typed, PcTyped, WalkTyped, BalanceTyped, Control, Walking, WorkerPC, MainPC, Unseen, Drop, Push
  <2>6. Paths'
    <3>1. PICK x \in Unseen(w) \cap Codes : Drop(w, {x}) /\ Push(w, x)
      BY <1>11 DEF RecurseIntoChild
    <3>2. x \in Codes \ {Root} /\ Parent[x] = cur[w]
      BY <3>1 DEF Unseen, Typed, WalkTyped
    <3>3. (stack[w] \cup {x}) \in Path[seed[w]][x]
      BY <1>11, <3>2, PathPush DEF RecurseIntoChild, Typed, WalkTyped, Control, Paths, Walking
    <3> QED BY <1>11, <3>1, <3>3 DEF RecurseIntoChild, Push, Typed, PcTyped, WalkTyped, Paths, Walking
  <2> QED BY <2>1, <2>2, <2>3, <2>4, <2>5, <2>6 DEF Typed
<1>12. ASSUME NEW w \in Workers, OfferChild(w) PROVE Typed' /\ Control' /\ Paths'
  <2>1. PcTyped'
    BY <1>12 DEF OfferChild, Shallow, Typed, PcTyped, WorkerPC, MainPC
  <2>2. WalkTyped'
    BY <1>12 DEF OfferChild, Typed, WalkTyped, Control, Walking, Unseen, Drop
  <2>3. BalanceTyped' /\ OutTyped'
    BY <1>12 DEF OfferChild, Typed, BalanceTyped, OutTyped, WalkTyped, Control, Walking, Unseen, Drop
  <2>4. MassTyped'
    BY <1>12 DEF OfferChild, Typed, MassTyped, WalkTyped, OutTyped, Control, Walking, Unseen, Drop
  <2>5. Control' /\ Paths'
    <3>1. PICK x \in Unseen(w) \cap Codes : hand' = [hand EXCEPT ![w] = x]
      BY <1>12 DEF OfferChild
    <3>2. x \in Codes \ {Root} /\ Parent[x] = cur[w]
      BY <3>1 DEF Unseen, Typed, WalkTyped
    <3>3. Control'
      BY <1>12, <3>1, <3>2 DEF OfferChild, Shallow, Typed, PcTyped, WalkTyped, Control, Walking
    <3>4. Paths'
      BY <1>12, <3>1, <3>2 DEF OfferChild, Typed, PcTyped, WalkTyped, Paths, Walking
    <3> QED BY <3>3, <3>4
  <2>6. Paths'
    BY <2>5
  <2> QED BY <2>1, <2>2, <2>3, <2>4, <2>5, <2>6 DEF Typed
<1>13. ASSUME NEW w \in Workers, DonateChild(w) PROVE Typed' /\ Control' /\ Paths'
  <2>1. PcTyped'
    BY <1>13 DEF DonateChild, Typed, PcTyped, WorkerPC, MainPC
  <2>2. WalkTyped'
    BY <1>13 DEF DonateChild, Typed, WalkTyped, Control, Walking
  <2>3. BalanceTyped' /\ OutTyped'
    BY <1>13 DEF DonateChild, Typed, BalanceTyped, OutTyped, WalkTyped, Control, Walking
  <2>4. MassTyped'
    BY <1>13 DEF DonateChild, Typed, MassTyped, WalkTyped, OutTyped, Control, Walking
  <2>5. Control'
    BY <1>13 DEF DonateChild, Typed, PcTyped, WalkTyped, BalanceTyped, Control, Walking, WorkerPC, MainPC
  <2>6. Paths'
    BY <1>13 DEF DonateChild, Typed, PcTyped, WalkTyped, BalanceTyped, Control, Paths, Walking
  <2> QED BY <2>1, <2>2, <2>3, <2>4, <2>5, <2>6 DEF Typed
<1>14. ASSUME NEW w \in Workers, DonationRefused(w) PROVE Typed' /\ Control' /\ Paths'
  <2>1. PcTyped'
    BY <1>14 DEF DonationRefused, Typed, PcTyped, WorkerPC, MainPC
  <2>2. WalkTyped'
    BY <1>14 DEF DonationRefused, Typed, WalkTyped, Control, Walking
  <2>3. BalanceTyped' /\ OutTyped'
    BY <1>14 DEF DonationRefused, Typed, BalanceTyped, OutTyped, WalkTyped, Control, Walking
  <2>4. MassTyped'
    BY <1>14 DEF DonationRefused, Typed, MassTyped, WalkTyped, OutTyped, Control, Walking
  <2>5. Control'
    BY <1>14 DEF DonationRefused, Typed, PcTyped, WalkTyped, BalanceTyped, Control, Walking, WorkerPC, MainPC
  <2>6. Paths'
    BY <1>14 DEF DonationRefused, Typed, PcTyped, WalkTyped, BalanceTyped, Control, Paths, Walking
  <2> QED BY <2>1, <2>2, <2>3, <2>4, <2>5, <2>6 DEF Typed
<1>15. ASSUME NEW w \in Workers, RollBack(w) PROVE Typed' /\ Control' /\ Paths'
  <2>1. PcTyped'
    BY <1>15 DEF RollBack, Typed, PcTyped, WorkerPC, MainPC
  <2>2. WalkTyped'
    BY <1>15 DEF RollBack, Typed, WalkTyped, Control, Walking, Push
  <2>3. BalanceTyped' /\ OutTyped'
    BY <1>15 DEF RollBack, Typed, BalanceTyped, OutTyped, WalkTyped, Control, Walking, Push
  <2>4. MassTyped'
    BY <1>15 DEF RollBack, Typed, MassTyped, WalkTyped, OutTyped, Control, Walking, Push
  <2>5. Control'
    BY <1>15 DEF RollBack, Typed, PcTyped, WalkTyped, BalanceTyped, Control, Walking, WorkerPC, MainPC, Push
  <2>6. Paths'
    <3>1. hand[w] \in Codes \ {Root} /\ Parent[hand[w]] = cur[w]
      BY <1>15 DEF RollBack, Control, Paths, Walking
    <3>2. (stack[w] \cup {hand[w]}) \in Path[seed[w]][hand[w]]
      BY <1>15, <3>1, PathPush DEF RollBack, Typed, WalkTyped, Control, Paths, Walking
    <3> QED BY <1>15, <3>2 DEF RollBack, Push, Typed, PcTyped, WalkTyped, Paths, Walking
  <2> QED BY <2>1, <2>2, <2>3, <2>4, <2>5, <2>6 DEF Typed
<1>16. ASSUME NEW w \in Workers, BecomeIdle(w) PROVE Typed' /\ Control' /\ Paths'
  <2>1. PcTyped'
    BY <1>16 DEF BecomeIdle, Typed, PcTyped, WorkerPC, MainPC
  <2>2. WalkTyped'
    BY <1>16 DEF BecomeIdle, Typed, WalkTyped, Control, Walking
  <2>3. BalanceTyped' /\ OutTyped'
    BY <1>16 DEF BecomeIdle, Typed, BalanceTyped, OutTyped, WalkTyped, Control, Walking
  <2>4. MassTyped'
    BY <1>16 DEF BecomeIdle, Typed, MassTyped, WalkTyped, OutTyped, Control, Walking
  <2>5. Control'
    BY <1>16 DEF BecomeIdle, Typed, PcTyped, WalkTyped, BalanceTyped, Control, Walking, WorkerPC, MainPC
  <2>6. Paths'
    BY <1>16 DEF BecomeIdle, Typed, PcTyped, WalkTyped, BalanceTyped, Control, Paths, Walking
  <2> QED BY <2>1, <2>2, <2>3, <2>4, <2>5, <2>6 DEF Typed
<1>17. ASSUME NEW w \in Workers, Receive(w) PROVE Typed' /\ Control' /\ Paths'
  <2>1. PcTyped'
    BY <1>17 DEF Receive, Typed, PcTyped, WorkerPC, MainPC
  <2>2. WalkTyped'
    BY <1>17 DEF Receive, Typed, WalkTyped, BalanceTyped
  <2>3. BalanceTyped' /\ OutTyped'
    BY <1>17 DEF Receive, Typed, BalanceTyped, OutTyped, WalkTyped, Control, Walking
  <2>4. MassTyped'
    BY <1>17 DEF Receive, Typed, MassTyped, WalkTyped, OutTyped, Control, Walking
  <2>5. Control'
    BY <1>17 DEF Receive, Typed, PcTyped, WalkTyped, BalanceTyped, Control, Walking, WorkerPC, MainPC
  <2>6. Paths'
    <3>1. Head(queue) \in Codes
      BY <1>17 DEF Receive, Typed, BalanceTyped
    <3>2. {Head(queue)} \in Path[Head(queue)][Head(queue)]
      BY <3>1, PathStart
    <3> QED BY <1>17, <3>2 DEF Receive, Typed, PcTyped, WalkTyped, Paths, Walking
  <2> QED BY <2>1, <2>2, <2>3, <2>4, <2>5, <2>6 DEF Typed
<1>18. ASSUME NEW w \in Workers, Timeout(w) PROVE Typed' /\ Control' /\ Paths'
  <2>1. PcTyped'
    BY <1>18 DEF Timeout, Typed, PcTyped, WorkerPC, MainPC
  <2>2. WalkTyped'
    BY <1>18 DEF Timeout, Typed, WalkTyped, Control, Walking
  <2>3. BalanceTyped' /\ OutTyped'
    BY <1>18 DEF Timeout, Typed, BalanceTyped, OutTyped, WalkTyped, Control, Walking
  <2>4. MassTyped'
    BY <1>18 DEF Timeout, Typed, MassTyped, WalkTyped, OutTyped, Control, Walking
  <2>5. Control'
    BY <1>18 DEF Timeout, Typed, PcTyped, WalkTyped, BalanceTyped, Control, Walking, WorkerPC, MainPC
  <2>6. Paths'
    BY <1>18 DEF Timeout, Typed, PcTyped, WalkTyped, BalanceTyped, Control, Paths, Walking
  <2> QED BY <2>1, <2>2, <2>3, <2>4, <2>5, <2>6 DEF Typed
<1>19. ASSUME NEW w \in Workers, ReadSeederDone(w) PROVE Typed' /\ Control' /\ Paths'
  <2>1. PcTyped'
    BY <1>19 DEF ReadSeederDone, Typed, PcTyped, WorkerPC, MainPC
  <2>2. WalkTyped'
    BY <1>19 DEF ReadSeederDone, Typed, WalkTyped, Control, Walking
  <2>3. BalanceTyped' /\ OutTyped'
    BY <1>19 DEF ReadSeederDone, Typed, BalanceTyped, OutTyped, WalkTyped, Control, Walking
  <2>4. MassTyped'
    BY <1>19 DEF ReadSeederDone, Typed, MassTyped, WalkTyped, OutTyped, Control, Walking
  <2>5. Control'
    BY <1>19 DEF ReadSeederDone, Typed, PcTyped, WalkTyped, BalanceTyped, Control, Walking, WorkerPC, MainPC
  <2>6. Paths'
    BY <1>19 DEF ReadSeederDone, Typed, PcTyped, WalkTyped, BalanceTyped, Control, Paths, Walking
  <2> QED BY <2>1, <2>2, <2>3, <2>4, <2>5, <2>6 DEF Typed
<1>20. ASSUME NEW w \in Workers, ReadOutstanding(w) PROVE Typed' /\ Control' /\ Paths'
  <2>1. PcTyped'
    BY <1>20 DEF ReadOutstanding, Typed, PcTyped, WorkerPC, MainPC
  <2>2. WalkTyped'
    BY <1>20 DEF ReadOutstanding, Typed, WalkTyped, Control, Walking
  <2>3. BalanceTyped' /\ OutTyped'
    BY <1>20 DEF ReadOutstanding, Typed, BalanceTyped, OutTyped, WalkTyped, Control, Walking
  <2>4. MassTyped'
    BY <1>20 DEF ReadOutstanding, Typed, MassTyped, WalkTyped, OutTyped, Control, Walking
  <2>5. Control'
    BY <1>20 DEF ReadOutstanding, Typed, PcTyped, WalkTyped, BalanceTyped, Control, Walking, WorkerPC, MainPC
  <2>6. Paths'
    BY <1>20 DEF ReadOutstanding, Typed, PcTyped, WalkTyped, BalanceTyped, Control, Paths, Walking
  <2> QED BY <2>1, <2>2, <2>3, <2>4, <2>5, <2>6 DEF Typed
<1>21. ASSUME NEW w \in Workers, Disconnected(w) PROVE Typed' /\ Control' /\ Paths'
  <2>1. PcTyped'
    BY <1>21 DEF Disconnected, Typed, PcTyped, WorkerPC, MainPC
  <2>2. WalkTyped'
    BY <1>21 DEF Disconnected, Typed, WalkTyped, Control, Walking
  <2>3. BalanceTyped' /\ OutTyped'
    BY <1>21 DEF Disconnected, Typed, BalanceTyped, OutTyped, WalkTyped, Control, Walking
  <2>4. MassTyped'
    BY <1>21 DEF Disconnected, Typed, MassTyped, WalkTyped, OutTyped, Control, Walking
  <2>5. Control'
    BY <1>21 DEF Disconnected, Typed, PcTyped, WalkTyped, BalanceTyped, Control, Walking, WorkerPC, MainPC
  <2>6. Paths'
    BY <1>21 DEF Disconnected, Typed, PcTyped, WalkTyped, BalanceTyped, Control, Paths, Walking
  <2> QED BY <2>1, <2>2, <2>3, <2>4, <2>5, <2>6 DEF Typed
<1>22. ASSUME NEW w \in Workers, ReleaseSeed(w) PROVE Typed' /\ Control' /\ Paths'
  <2>1. PcTyped'
    BY <1>22 DEF ReleaseSeed, Typed, PcTyped, WorkerPC, MainPC
  <2>2. WalkTyped'
    BY <1>22 DEF ReleaseSeed, Typed, WalkTyped, Control, Walking
  <2>3. BalanceTyped' /\ OutTyped'
    BY <1>22 DEF ReleaseSeed, Typed, BalanceTyped, OutTyped, WalkTyped, Control, Walking
  <2>4. MassTyped'
    BY <1>22 DEF ReleaseSeed, Typed, MassTyped, WalkTyped, OutTyped, Control, Walking
  <2>5. Control'
    BY <1>22 DEF ReleaseSeed, Typed, PcTyped, WalkTyped, BalanceTyped, Control, Walking, WorkerPC, MainPC
  <2>6. Paths'
    BY <1>22 DEF ReleaseSeed, Typed, PcTyped, WalkTyped, BalanceTyped, Control, Paths, Walking
  <2> QED BY <2>1, <2>2, <2>3, <2>4, <2>5, <2>6 DEF Typed
<1>23. ASSUME NEW w \in Workers, FlushWorker(w) PROVE Typed' /\ Control' /\ Paths'
  <2>1. PcTyped'
    BY <1>23 DEF FlushWorker, Typed, PcTyped, WorkerPC, MainPC
  <2>2. WalkTyped'
    BY <1>23 DEF FlushWorker, Typed, WalkTyped, Control, Walking, Flush, AddBatch, NoMass
  <2>3. BalanceTyped' /\ OutTyped'
    BY <1>23 DEF FlushWorker, Typed, BalanceTyped, OutTyped, WalkTyped, Control, Walking, Flush, AddBatch, NoMass
  <2>4. MassTyped'
    BY <1>23 DEF FlushWorker, Typed, MassTyped, WalkTyped, OutTyped, Control, Walking, Flush, AddBatch, NoMass
  <2>5. Control'
    BY <1>23 DEF FlushWorker, Typed, PcTyped, WalkTyped, BalanceTyped, Control, Walking, WorkerPC, MainPC, Flush, AddBatch, NoMass
  <2>6. Paths'
    BY <1>23 DEF FlushWorker, Typed, PcTyped, WalkTyped, BalanceTyped, Control, Paths, Walking
  <2> QED BY <2>1, <2>2, <2>3, <2>4, <2>5, <2>6 DEF Typed
<1>24. ASSUME NEW w \in Workers, SendResult(w) PROVE Typed' /\ Control' /\ Paths'
  <2>1. PcTyped'
    BY <1>24 DEF SendResult, Typed, PcTyped, WorkerPC, MainPC
  <2>2. WalkTyped'
    BY <1>24 DEF SendResult, Typed, WalkTyped, Control, Walking
  <2>3. BalanceTyped' /\ OutTyped'
    BY <1>24 DEF SendResult, Typed, BalanceTyped, OutTyped, WalkTyped, Control, Walking
  <2>4. MassTyped'
    BY <1>24 DEF SendResult, Typed, MassTyped, WalkTyped, OutTyped, Control, Walking
  <2>5. Control'
    BY <1>24 DEF SendResult, Typed, PcTyped, WalkTyped, BalanceTyped, Control, Walking, WorkerPC, MainPC
  <2>6. Paths'
    BY <1>24 DEF SendResult, Typed, PcTyped, WalkTyped, BalanceTyped, Control, Paths, Walking
  <2> QED BY <2>1, <2>2, <2>3, <2>4, <2>5, <2>6 DEF Typed
<1>25. ASSUME SeederRecurse PROVE Typed' /\ Control' /\ Paths'
  <2>1. PcTyped'
    BY <1>25 DEF SeederRecurse, Typed, PcTyped, WorkerPC, MainPC
  <2>2. WalkTyped'
    BY <1>25 DEF SeederRecurse, Typed, WalkTyped, Control, Walking, Unseen, Drop, Push
  <2>3. BalanceTyped' /\ OutTyped'
    BY <1>25 DEF SeederRecurse, Typed, BalanceTyped, OutTyped, WalkTyped, Control, Walking, Unseen, Drop, Push
  <2>4. MassTyped'
    BY <1>25 DEF SeederRecurse, Typed, MassTyped, WalkTyped, OutTyped, Control, Walking, Unseen, Drop, Push
  <2>5. Control'
    BY <1>25 DEF SeederRecurse, Typed, PcTyped, WalkTyped, BalanceTyped, Control, Walking, WorkerPC, MainPC, Unseen, Drop, Push
  <2>6. Paths'
    <3>1. PICK x \in Unseen(Main) \cap Codes : Drop(Main, {x}) /\ Push(Main, x)
      BY <1>25 DEF SeederRecurse
    <3>2. x \in Codes \ {Root} /\ Parent[x] = cur[Main]
      BY <3>1 DEF Unseen, Typed, WalkTyped
    <3>3. (stack[Main] \cup {x}) \in Path[seed[Main]][x]
      BY <1>25, <3>2, PathPush DEF SeederRecurse, Typed, WalkTyped, Control, Paths, Walking
    <3> QED BY <1>25, <3>1, <3>3 DEF SeederRecurse, Push, Typed, PcTyped, WalkTyped, Paths, Walking
  <2> QED BY <2>1, <2>2, <2>3, <2>4, <2>5, <2>6 DEF Typed
<1>26. ASSUME SeederOffer PROVE Typed' /\ Control' /\ Paths'
  <2>1. PcTyped'
    BY <1>26 DEF SeederOffer, Typed, PcTyped, WorkerPC, MainPC
  <2>2. WalkTyped'
    BY <1>26 DEF SeederOffer, Typed, WalkTyped, Control, Walking, Unseen, Drop
  <2>3. BalanceTyped' /\ OutTyped'
    BY <1>26 DEF SeederOffer, Typed, BalanceTyped, OutTyped, WalkTyped, Control, Walking, Unseen, Drop
  <2>4. MassTyped'
    BY <1>26 DEF SeederOffer, Typed, MassTyped, WalkTyped, OutTyped, Control, Walking, Unseen, Drop
  <2>5. Control' /\ Paths'
    <3>1. PICK x \in Unseen(Main) \cap Codes : hand' = [hand EXCEPT ![Main] = x]
      BY <1>26 DEF SeederOffer
    <3>2. x \in Codes \ {Root} /\ Parent[x] = cur[Main]
      BY <3>1 DEF Unseen, Typed, WalkTyped
    <3>3. Control'
      BY <1>26, <3>1, <3>2 DEF SeederOffer, Shallow, Typed, PcTyped, WalkTyped, Control, Walking
    <3>4. Paths'
      BY <1>26, <3>1, <3>2 DEF SeederOffer, Typed, PcTyped, WalkTyped, Paths, Walking
    <3> QED BY <3>3, <3>4
  <2>6. Paths'
    BY <2>5
  <2> QED BY <2>1, <2>2, <2>3, <2>4, <2>5, <2>6 DEF Typed
<1>27. ASSUME SendSeed PROVE Typed' /\ Control' /\ Paths'
  <2>1. PcTyped'
    BY <1>27 DEF SendSeed, Typed, PcTyped, WorkerPC, MainPC
  <2>2. WalkTyped'
    BY <1>27 DEF SendSeed, Typed, WalkTyped, Control, Walking
  <2>3. BalanceTyped' /\ OutTyped'
    BY <1>27 DEF SendSeed, Typed, BalanceTyped, OutTyped, WalkTyped, Control, Walking
  <2>4. MassTyped'
    BY <1>27 DEF SendSeed, Typed, MassTyped, WalkTyped, OutTyped, Control, Walking
  <2>5. Control'
    BY <1>27 DEF SendSeed, Typed, PcTyped, WalkTyped, BalanceTyped, Control, Walking, WorkerPC, MainPC
  <2>6. Paths'
    BY <1>27 DEF SendSeed, Typed, PcTyped, WalkTyped, BalanceTyped, Control, Paths, Walking
  <2> QED BY <2>1, <2>2, <2>3, <2>4, <2>5, <2>6 DEF Typed
<1>28. ASSUME SendFails PROVE Typed' /\ Control' /\ Paths'
  <2>1. PcTyped'
    BY <1>28 DEF SendFails, Typed, PcTyped, WorkerPC, MainPC
  <2>2. WalkTyped'
    BY <1>28 DEF SendFails, Typed, WalkTyped, Control, Walking
  <2>3. BalanceTyped' /\ OutTyped'
    BY <1>28 DEF SendFails, Typed, BalanceTyped, OutTyped, WalkTyped, Control, Walking
  <2>4. MassTyped'
    BY <1>28 DEF SendFails, Typed, MassTyped, WalkTyped, OutTyped, Control, Walking
  <2>5. Control'
    BY <1>28 DEF SendFails, Typed, PcTyped, WalkTyped, BalanceTyped, Control, Walking, WorkerPC, MainPC
  <2>6. Paths'
    BY <1>28 DEF SendFails, Typed, PcTyped, WalkTyped, BalanceTyped, Control, Paths, Walking
  <2> QED BY <2>1, <2>2, <2>3, <2>4, <2>5, <2>6 DEF Typed
<1>29. ASSUME FlushSeeder PROVE Typed' /\ Control' /\ Paths'
  <2>1. PcTyped'
    BY <1>29 DEF FlushSeeder, Typed, PcTyped, WorkerPC, MainPC
  <2>2. WalkTyped'
    BY <1>29 DEF FlushSeeder, Typed, WalkTyped, Control, Walking, Flush, AddBatch, NoMass
  <2>3. BalanceTyped' /\ OutTyped'
    BY <1>29 DEF FlushSeeder, Typed, BalanceTyped, OutTyped, WalkTyped, Control, Walking, Flush, AddBatch, NoMass
  <2>4. MassTyped'
    BY <1>29 DEF FlushSeeder, Typed, MassTyped, WalkTyped, OutTyped, Control, Walking, Flush, AddBatch, NoMass
  <2>5. Control'
    BY <1>29 DEF FlushSeeder, Typed, PcTyped, WalkTyped, BalanceTyped, Control, Walking, WorkerPC, MainPC, Flush, AddBatch, NoMass
  <2>6. Paths'
    BY <1>29 DEF FlushSeeder, Typed, PcTyped, WalkTyped, BalanceTyped, Control, Paths, Walking
  <2> QED BY <2>1, <2>2, <2>3, <2>4, <2>5, <2>6 DEF Typed
<1>30. ASSUME FinishSeeding PROVE Typed' /\ Control' /\ Paths'
  <2>1. PcTyped'
    BY <1>30 DEF FinishSeeding, Typed, PcTyped, WorkerPC, MainPC
  <2>2. WalkTyped'
    BY <1>30 DEF FinishSeeding, Typed, WalkTyped, Control, Walking
  <2>3. BalanceTyped' /\ OutTyped'
    BY <1>30 DEF FinishSeeding, Typed, BalanceTyped, OutTyped, WalkTyped, Control, Walking
  <2>4. MassTyped'
    BY <1>30 DEF FinishSeeding, Typed, MassTyped, WalkTyped, OutTyped, Control, Walking
  <2>5. Control'
    BY <1>30 DEF FinishSeeding, Typed, PcTyped, WalkTyped, BalanceTyped, Control, Walking, WorkerPC, MainPC
  <2>6. Paths'
    BY <1>30 DEF FinishSeeding, Typed, PcTyped, WalkTyped, BalanceTyped, Control, Paths, Walking
  <2> QED BY <2>1, <2>2, <2>3, <2>4, <2>5, <2>6 DEF Typed
<1>31. ASSUME CollectResult PROVE Typed' /\ Control' /\ Paths'
  <2>1. PcTyped'
    BY <1>31 DEF CollectResult, Typed, PcTyped, WorkerPC, MainPC
  <2>2. WalkTyped'
    BY <1>31 DEF CollectResult, Typed, WalkTyped, Control, Walking
  <2>3. BalanceTyped' /\ OutTyped'
    BY <1>31 DEF CollectResult, Typed, BalanceTyped, OutTyped, WalkTyped, Control, Walking
  <2>4. MassTyped'
    BY <1>31 DEF CollectResult, Typed, MassTyped, WalkTyped, OutTyped, Control, Walking
  <2>5. Control'
    BY <1>31 DEF CollectResult, Typed, PcTyped, WalkTyped, BalanceTyped, Control, Walking, WorkerPC, MainPC
  <2>6. Paths'
    BY <1>31 DEF CollectResult, Typed, PcTyped, WalkTyped, BalanceTyped, Control, Paths, Walking
  <2> QED BY <2>1, <2>2, <2>3, <2>4, <2>5, <2>6 DEF Typed
<1>32. ASSUME CollectFails PROVE Typed' /\ Control' /\ Paths'
  <2>1. PcTyped'
    BY <1>32 DEF CollectFails, Typed, PcTyped, WorkerPC, MainPC
  <2>2. WalkTyped'
    BY <1>32 DEF CollectFails, Typed, WalkTyped, Control, Walking
  <2>3. BalanceTyped' /\ OutTyped'
    BY <1>32 DEF CollectFails, Typed, BalanceTyped, OutTyped, WalkTyped, Control, Walking
  <2>4. MassTyped'
    BY <1>32 DEF CollectFails, Typed, MassTyped, WalkTyped, OutTyped, Control, Walking
  <2>5. Control'
    BY <1>32 DEF CollectFails, Typed, PcTyped, WalkTyped, BalanceTyped, Control, Walking, WorkerPC, MainPC
  <2>6. Paths'
    BY <1>32 DEF CollectFails, Typed, PcTyped, WalkTyped, BalanceTyped, Control, Paths, Walking
  <2> QED BY <2>1, <2>2, <2>3, <2>4, <2>5, <2>6 DEF Typed
<1>33. ASSUME MassGate PROVE Typed' /\ Control' /\ Paths'
  <2>1. PcTyped'
    BY <1>33 DEF MassGate, Typed, PcTyped, WorkerPC, MainPC
  <2>2. WalkTyped'
    BY <1>33 DEF MassGate, Typed, WalkTyped, Control, Walking
  <2>3. BalanceTyped' /\ OutTyped'
    BY <1>33 DEF MassGate, Typed, BalanceTyped, OutTyped, WalkTyped, Control, Walking
  <2>4. MassTyped'
    BY <1>33 DEF MassGate, Typed, MassTyped, WalkTyped, OutTyped, Control, Walking
  <2>5. Control'
    BY <1>33 DEF MassGate, Typed, PcTyped, WalkTyped, BalanceTyped, Control, Walking, WorkerPC, MainPC
  <2>6. Paths'
    BY <1>33 DEF MassGate, Typed, PcTyped, WalkTyped, BalanceTyped, Control, Paths, Walking
  <2> QED BY <2>1, <2>2, <2>3, <2>4, <2>5, <2>6 DEF Typed
<1>34. CASE UNCHANGED vars
  BY <1>34 DEF vars, Typed, PcTyped, WalkTyped, BalanceTyped, MassTyped, OutTyped, Control, Paths
<1> QED
  BY <1>1, <1>2, <1>3, <1>4, <1>5, <1>6, <1>7, <1>8, <1>9, <1>10, <1>11, <1>12, <1>13, <1>14, <1>15, <1>16, <1>17, <1>18, <1>19, <1>20, <1>21, <1>22, <1>23, <1>24, <1>25, <1>26, <1>27, <1>28, <1>29, <1>30, <1>31, <1>32, <1>33, <1>34
  DEF Next, MainStep, WorkerStep, WorkerLoop, WorkerTraverse, Walk, Ended

-----------------------------------------------------------------------------
(***************************************************************************)
(* What the two counters count.                                            *)
(***************************************************************************)

Idling == {w \in Workers : pc[w] = "recv"}

Counting ==
  /\ OutstandingExact
  /\ idle = IF SelfSubdivide THEN Cardinality(Idling) ELSE 0
  /\ ~SelfSubdivide => outstanding = 0

LEMMA CountsFinite ==
  /\ IsFiniteSet(Holding) /\ Cardinality(Holding) \in Nat
  /\ IsFiniteSet(Reserving) /\ Cardinality(Reserving) \in Nat
  /\ IsFiniteSet(Idling) /\ Cardinality(Idling) \in Nat
<1>1. IsFiniteSet(Workers) /\ IsFiniteSet(Threads)
  BY ParallelAssumption, FS_AddElement
<1>2. Holding \in SUBSET Workers /\ Idling \in SUBSET Workers /\ Reserving \in SUBSET Threads
  BY DEF Holding, Idling, Reserving
<1>3. IsFiniteSet(Holding) /\ IsFiniteSet(Idling) /\ IsFiniteSet(Reserving)
  BY <1>1, <1>2, FS_Subset
<1> QED BY <1>3, FS_CardinalityType

(* A step that moves no seed and no waiting worker keeps both counts. *)
LEMMA CountsKept ==
  ASSUME Counting, Holding' = Holding, Reserving' = Reserving, Idling' = Idling,
         UNCHANGED <<queue, idle, outstanding>>
  PROVE  Counting'
BY DEF Counting, OutstandingExact

LEMMA CountingInit == Init => Counting
<1> SUFFICES ASSUME Init PROVE Counting
  OBVIOUS
<1>1. Holding = {} /\ Reserving = {}
  BY ConstantFacts DEF Init, Holding, Reserving, LoopTop
<1>2. SelfSubdivide => Idling = {}
  BY ConstantFacts DEF Init, Idling, LoopTop
<1>3. Len(queue) = 0 /\ idle = 0 /\ outstanding = 0
  BY DEF Init
<1> QED BY <1>1, <1>2, <1>3, FS_EmptySet DEF Counting, OutstandingExact

LEMMA CountingStep ==
  Typed /\ Control /\ Counting /\ [Next]_vars => Counting'
<1> SUFFICES ASSUME Typed, Control, Counting, [Next]_vars PROVE Counting'
  OBVIOUS
<1> USE ConstantFacts DEF Goto, walkVars, balanceVars, massVars, outVars
<1>1. ASSUME NEW t \in Threads, Emit(t) PROVE Counting'
  <2>1. Holding' = Holding /\ Reserving' = Reserving /\ Idling' = Idling
    BY <1>1 DEF Emit, Typed, PcTyped, WalkTyped, Control, Walking, Holding, Reserving, Idling
  <2>2. UNCHANGED <<queue, idle, outstanding>>
    BY <1>1 DEF Emit
  <2> QED BY <2>1, <2>2, CountsKept
<1>2. ASSUME NEW t \in Threads, RejectCandidate(t) PROVE Counting'
  <2>1. Holding' = Holding /\ Reserving' = Reserving /\ Idling' = Idling
    BY <1>2 DEF RejectCandidate, Typed, PcTyped, WalkTyped, Control, Walking, Holding, Reserving, Idling
  <2>2. UNCHANGED <<queue, idle, outstanding>>
    BY <1>2 DEF RejectCandidate
  <2> QED BY <2>1, <2>2, CountsKept
<1>3. ASSUME NEW t \in Threads, Reserve(t) PROVE Counting'
  <2>1. SelfSubdivide
    BY <1>3 DEF Reserve, Control
  <2>2. Holding' = Holding /\ Idling' = Idling
    BY <1>3 DEF Reserve, Typed, PcTyped, WalkTyped, Control, Walking, Holding, Reserving, Idling
  <2>3. t \notin Reserving /\ Reserving' = Reserving \cup {t}
    BY <1>3 DEF Reserve, Typed, PcTyped, WalkTyped, Control, Walking, Holding, Reserving, Idling
  <2>4. outstanding' = outstanding + 1 /\ UNCHANGED <<queue, idle>>
    BY <1>3 DEF Reserve
  <2>5. Cardinality(Reserving') = Cardinality(Reserving) + 1
    BY <2>3, CountsFinite, FS_AddElement
  <2> QED
    BY <2>1, <2>2, <2>4, <2>5, CountsFinite DEF Typed, BalanceTyped, Counting, OutstandingExact
<1>4. ASSUME NEW t \in Threads, LoopDone(t) PROVE Counting'
  <2>1. Holding' = Holding /\ Reserving' = Reserving /\ Idling' = Idling
    BY <1>4 DEF LoopDone, Typed, PcTyped, WalkTyped, Control, Walking, Holding, Reserving, Idling
  <2>2. UNCHANGED <<queue, idle, outstanding>>
    BY <1>4 DEF LoopDone
  <2> QED BY <2>1, <2>2, CountsKept
<1>5. ASSUME NEW t \in Threads, ReturnToLoop(t) PROVE Counting'
  <2>1. Holding' = Holding /\ Reserving' = Reserving /\ Idling' = Idling
    BY <1>5 DEF ReturnToLoop, Typed, PcTyped, WalkTyped, Control, Walking, Holding, Reserving, Idling
  <2>2. UNCHANGED <<queue, idle, outstanding>>
    BY <1>5 DEF ReturnToLoop
  <2> QED BY <2>1, <2>2, CountsKept
<1>6. ASSUME NEW t \in Threads, ReturnFromSeed(t) PROVE Counting'
  <2>1. Holding' = Holding \/ ~SelfSubdivide
    BY <1>6 DEF ReturnFromSeed, Typed, PcTyped, WalkTyped, Control, Walking, Holding, Reserving, Idling
  <2>2. SelfSubdivide => Reserving' = Reserving
    BY <1>6 DEF ReturnFromSeed, Typed, PcTyped, WalkTyped, Control, Walking, Holding, Reserving, Idling
  <2>3. SelfSubdivide => Idling' = Idling
    BY <1>6 DEF ReturnFromSeed, Typed, PcTyped, WalkTyped, Control, Walking, Holding, Reserving, Idling
  <2>4. UNCHANGED <<queue, idle, outstanding>>
    BY <1>6 DEF ReturnFromSeed
  <2> QED BY <2>1, <2>2, <2>3, <2>4 DEF Counting, OutstandingExact
<1>7. ASSUME NEW t \in Threads, WriterFails(t) PROVE Counting'
  <2>1. Holding' = Holding /\ Reserving' = Reserving /\ Idling' = Idling
    BY <1>7 DEF WriterFails, Typed, PcTyped, WalkTyped, Control, Walking, Holding, Reserving, Idling
  <2>2. UNCHANGED <<queue, idle, outstanding>>
    BY <1>7 DEF WriterFails
  <2> QED BY <2>1, <2>2, CountsKept
<1>8. ASSUME NEW w \in Workers, StopBeforeLoop(w) PROVE Counting'
  <2>1. Holding' = Holding /\ Reserving' = Reserving /\ Idling' = Idling
    BY <1>8 DEF StopBeforeLoop, Typed, PcTyped, WalkTyped, Control, Walking, Holding, Reserving, Idling
  <2>2. UNCHANGED <<queue, idle, outstanding>>
    BY <1>8 DEF StopBeforeLoop
  <2> QED BY <2>1, <2>2, CountsKept
<1>9. ASSUME NEW w \in Workers, GenerateCandidates(w) PROVE Counting'
  <2>1. Holding' = Holding /\ Reserving' = Reserving /\ Idling' = Idling
    BY <1>9 DEF GenerateCandidates, Typed, PcTyped, WalkTyped, Control, Walking, Holding, Reserving, Idling
  <2>2. UNCHANGED <<queue, idle, outstanding>>
    BY <1>9 DEF GenerateCandidates
  <2> QED BY <2>1, <2>2, CountsKept
<1>10. ASSUME NEW w \in Workers, StopInLoop(w) PROVE Counting'
  <2>1. Holding' = Holding /\ Reserving' = Reserving /\ Idling' = Idling
    BY <1>10 DEF StopInLoop, Typed, PcTyped, WalkTyped, Control, Walking, Holding, Reserving, Idling
  <2>2. UNCHANGED <<queue, idle, outstanding>>
    BY <1>10 DEF StopInLoop
  <2> QED BY <2>1, <2>2, CountsKept
<1>11. ASSUME NEW w \in Workers, RecurseIntoChild(w) PROVE Counting'
  <2>1. Holding' = Holding /\ Reserving' = Reserving /\ Idling' = Idling
    BY <1>11 DEF RecurseIntoChild, Push, Typed, PcTyped, WalkTyped, Control, Walking, Holding, Reserving, Idling
  <2>2. UNCHANGED <<queue, idle, outstanding>>
    BY <1>11 DEF RecurseIntoChild
  <2> QED BY <2>1, <2>2, CountsKept
<1>12. ASSUME NEW w \in Workers, OfferChild(w) PROVE Counting'
  <2>1. Holding' = Holding /\ Reserving' = Reserving /\ Idling' = Idling
    BY <1>12 DEF OfferChild, Shallow, Typed, PcTyped, WalkTyped, Control, Walking, Holding, Reserving, Idling
  <2>2. UNCHANGED <<queue, idle, outstanding>>
    BY <1>12 DEF OfferChild
  <2> QED BY <2>1, <2>2, CountsKept
<1>13. ASSUME NEW w \in Workers, DonateChild(w) PROVE Counting'
  <2>1. SelfSubdivide
    BY <1>13 DEF DonateChild, Control
  <2>2. Holding' = Holding /\ Idling' = Idling
    BY <1>13 DEF DonateChild, Typed, PcTyped, WalkTyped, Control, Walking, Holding, Reserving, Idling
  <2>3. w \in Reserving /\ Reserving' = Reserving \ {w}
    BY <1>13 DEF DonateChild, Typed, PcTyped, WalkTyped, Control, Walking, Holding, Reserving, Idling
  <2>4. Len(queue') = Len(queue) + 1 /\ UNCHANGED <<outstanding, idle>>
    BY <1>13 DEF DonateChild, Typed, BalanceTyped, Control
  <2>5. Cardinality(Reserving') = Cardinality(Reserving) - 1
    BY <2>3, CountsFinite, FS_RemoveElement
  <2> QED
    BY <2>1, <2>2, <2>4, <2>5, CountsFinite DEF Typed, BalanceTyped, Counting, OutstandingExact
<1>14. ASSUME NEW w \in Workers, DonationRefused(w) PROVE Counting'
  <2>1. Holding' = Holding /\ Reserving' = Reserving /\ Idling' = Idling
    BY <1>14 DEF DonationRefused, Typed, PcTyped, WalkTyped, Control, Walking, Holding, Reserving, Idling
  <2>2. UNCHANGED <<queue, idle, outstanding>>
    BY <1>14 DEF DonationRefused
  <2> QED BY <2>1, <2>2, CountsKept
<1>15. ASSUME NEW w \in Workers, RollBack(w) PROVE Counting'
  <2>1. SelfSubdivide
    BY <1>15 DEF RollBack, Control
  <2>2. Holding' = Holding /\ Idling' = Idling
    BY <1>15 DEF RollBack, Push, Typed, PcTyped, WalkTyped, Control, Walking, Holding, Reserving, Idling
  <2>3. w \in Reserving /\ Reserving' = Reserving \ {w}
    BY <1>15 DEF RollBack, Typed, PcTyped, WalkTyped, Control, Walking, Holding, Reserving, Idling
  <2>4. outstanding' = outstanding - 1 /\ UNCHANGED <<queue, idle>>
    BY <1>15 DEF RollBack
  <2>5. Cardinality(Reserving') = Cardinality(Reserving) - 1
    BY <2>3, CountsFinite, FS_RemoveElement
  <2> QED
    BY <2>1, <2>2, <2>4, <2>5, CountsFinite DEF Typed, BalanceTyped, Counting, OutstandingExact
<1>16. ASSUME NEW w \in Workers, BecomeIdle(w) PROVE Counting'
  <2>1. SelfSubdivide
    BY <1>16 DEF BecomeIdle, Control
  <2>2. Holding' = Holding /\ Reserving' = Reserving
    BY <1>16 DEF BecomeIdle, Typed, PcTyped, WalkTyped, Control, Walking, Holding, Reserving, Idling
  <2>3. w \notin Idling /\ Idling' = Idling \cup {w}
    BY <1>16 DEF BecomeIdle, Typed, PcTyped, WalkTyped, Control, Walking, Holding, Reserving, Idling
  <2>4. idle' = idle + 1 /\ UNCHANGED <<queue, outstanding>>
    BY <1>16 DEF BecomeIdle
  <2>5. Cardinality(Idling') = Cardinality(Idling) + 1
    BY <2>3, CountsFinite, FS_AddElement
  <2> QED
    BY <2>1, <2>2, <2>4, <2>5, CountsFinite DEF Typed, BalanceTyped, Counting, OutstandingExact
<1>17. ASSUME NEW w \in Workers, Receive(w) PROVE Counting'
  <2>1. Head(queue) \in Codes /\ Len(queue') = Len(queue) - 1
    BY <1>17 DEF Receive, Typed, BalanceTyped
  <2>2. w \notin Holding /\ Holding' = Holding \cup {w}
    <3>1. pc[w] = "recv" /\ seed[w] = NoCode
      BY <1>17 DEF Receive, Control, Walking
    <3>2. /\ seed'[w] = Head(queue) /\ pc'[w] = "emit"
          /\ \A v \in Workers : v # w => seed'[v] = seed[v] /\ pc'[v] = pc[v]
      BY <1>17 DEF Receive, Typed, PcTyped, WalkTyped
    <3>3. Head(queue) # NoCode
      BY <2>1, ParallelAssumption
    <3> QED
      BY <3>1, <3>2, <3>3 DEF Holding
  <2>3. Reserving' = Reserving
    BY <1>17 DEF Receive, Typed, PcTyped, WalkTyped, Control, Walking, Holding, Reserving, Idling
  <2>4. w \in Idling /\ Idling' = Idling \ {w}
    BY <1>17 DEF Receive, Typed, PcTyped, WalkTyped, Control, Walking, Holding, Reserving, Idling
  <2>5. Cardinality(Holding') = Cardinality(Holding) + 1 /\ Cardinality(Idling') = Cardinality(Idling) - 1
    BY <2>2, <2>4, CountsFinite, FS_AddElement, FS_RemoveElement
  <2>6. outstanding' = outstanding /\ idle' = IF SelfSubdivide THEN idle - 1 ELSE idle
    BY <1>17 DEF Receive
  <2> QED
    BY <2>1, <2>3, <2>5, <2>6, CountsFinite DEF Typed, BalanceTyped, Counting, OutstandingExact
<1>18. ASSUME NEW w \in Workers, Timeout(w) PROVE Counting'
  <2>1. SelfSubdivide
    BY <1>18 DEF Timeout
  <2>2. Holding' = Holding /\ Reserving' = Reserving
    BY <1>18 DEF Timeout, Typed, PcTyped, WalkTyped, Control, Walking, Holding, Reserving, Idling
  <2>3. w \in Idling /\ Idling' = Idling \ {w}
    BY <1>18 DEF Timeout, Typed, PcTyped, WalkTyped, Control, Walking, Holding, Reserving, Idling
  <2>4. idle' = idle - 1 /\ UNCHANGED <<queue, outstanding>>
    BY <1>18 DEF Timeout
  <2>5. Cardinality(Idling') = Cardinality(Idling) - 1
    BY <2>3, CountsFinite, FS_RemoveElement
  <2> QED
    BY <2>1, <2>2, <2>4, <2>5, CountsFinite DEF Typed, BalanceTyped, Counting, OutstandingExact
<1>19. ASSUME NEW w \in Workers, ReadSeederDone(w) PROVE Counting'
  <2>1. Holding' = Holding /\ Reserving' = Reserving /\ Idling' = Idling
    BY <1>19 DEF ReadSeederDone, Typed, PcTyped, WalkTyped, Control, Walking, Holding, Reserving, Idling
  <2>2. UNCHANGED <<queue, idle, outstanding>>
    BY <1>19 DEF ReadSeederDone
  <2> QED BY <2>1, <2>2, CountsKept
<1>20. ASSUME NEW w \in Workers, ReadOutstanding(w) PROVE Counting'
  <2>1. Holding' = Holding /\ Reserving' = Reserving /\ Idling' = Idling
    BY <1>20 DEF ReadOutstanding, Typed, PcTyped, WalkTyped, Control, Walking, Holding, Reserving, Idling
  <2>2. UNCHANGED <<queue, idle, outstanding>>
    BY <1>20 DEF ReadOutstanding
  <2> QED BY <2>1, <2>2, CountsKept
<1>21. ASSUME NEW w \in Workers, Disconnected(w) PROVE Counting'
  <2>1. Holding' = Holding \/ ~SelfSubdivide
    BY <1>21 DEF Disconnected, Typed, PcTyped, WalkTyped, Control, Walking, Holding, Reserving, Idling
  <2>2. SelfSubdivide => Reserving' = Reserving
    BY <1>21 DEF Disconnected, Typed, PcTyped, WalkTyped, Control, Walking, Holding, Reserving, Idling
  <2>3. SelfSubdivide => Idling' = Idling
    BY <1>21 DEF Disconnected, Typed, PcTyped, WalkTyped, Control, Walking, Holding, Reserving, Idling
  <2>4. UNCHANGED <<queue, idle, outstanding>>
    BY <1>21 DEF Disconnected
  <2> QED BY <2>1, <2>2, <2>3, <2>4 DEF Counting, OutstandingExact
<1>22. ASSUME NEW w \in Workers, ReleaseSeed(w) PROVE Counting'
  <2>1. SelfSubdivide
    BY <1>22 DEF ReleaseSeed, Control
  <2>2. Reserving' = Reserving /\ Idling' = Idling
    BY <1>22 DEF ReleaseSeed, Typed, PcTyped, WalkTyped, Control, Walking, Holding, Reserving, Idling
  <2>3. w \in Holding /\ Holding' = Holding \ {w}
    BY <1>22 DEF ReleaseSeed, Typed, PcTyped, WalkTyped, Control, Walking, Holding, Reserving, Idling
  <2>4. outstanding' = outstanding - 1 /\ UNCHANGED <<queue, idle>>
    BY <1>22 DEF ReleaseSeed
  <2>5. Cardinality(Holding') = Cardinality(Holding) - 1
    BY <2>3, CountsFinite, FS_RemoveElement
  <2> QED
    BY <2>1, <2>2, <2>4, <2>5, CountsFinite DEF Typed, BalanceTyped, Counting, OutstandingExact
<1>23. ASSUME NEW w \in Workers, FlushWorker(w) PROVE Counting'
  <2>1. Holding' = Holding /\ Reserving' = Reserving /\ Idling' = Idling
    BY <1>23 DEF FlushWorker, Typed, PcTyped, WalkTyped, Control, Walking, Holding, Reserving, Idling
  <2>2. UNCHANGED <<queue, idle, outstanding>>
    BY <1>23 DEF FlushWorker
  <2> QED BY <2>1, <2>2, CountsKept
<1>24. ASSUME NEW w \in Workers, SendResult(w) PROVE Counting'
  <2>1. Holding' = Holding /\ Reserving' = Reserving /\ Idling' = Idling
    BY <1>24 DEF SendResult, Typed, PcTyped, WalkTyped, Control, Walking, Holding, Reserving, Idling
  <2>2. UNCHANGED <<queue, idle, outstanding>>
    BY <1>24 DEF SendResult
  <2> QED BY <2>1, <2>2, CountsKept
<1>25. ASSUME SeederRecurse PROVE Counting'
  <2>1. Holding' = Holding /\ Reserving' = Reserving /\ Idling' = Idling
    BY <1>25 DEF SeederRecurse, Push, Typed, PcTyped, WalkTyped, Control, Walking, Holding, Reserving, Idling
  <2>2. UNCHANGED <<queue, idle, outstanding>>
    BY <1>25 DEF SeederRecurse
  <2> QED BY <2>1, <2>2, CountsKept
<1>26. ASSUME SeederOffer PROVE Counting'
  <2>1. Holding' = Holding \/ ~SelfSubdivide
    BY <1>26 DEF SeederOffer, Typed, PcTyped, WalkTyped, Control, Walking, Holding, Reserving, Idling
  <2>2. SelfSubdivide => Reserving' = Reserving
    BY <1>26 DEF SeederOffer, Typed, PcTyped, WalkTyped, Control, Walking, Holding, Reserving, Idling
  <2>3. SelfSubdivide => Idling' = Idling
    BY <1>26 DEF SeederOffer, Typed, PcTyped, WalkTyped, Control, Walking, Holding, Reserving, Idling
  <2>4. UNCHANGED <<queue, idle, outstanding>>
    BY <1>26 DEF SeederOffer
  <2> QED BY <2>1, <2>2, <2>3, <2>4 DEF Counting, OutstandingExact
<1>27. ASSUME SendSeed PROVE Counting'
  <2>1. Holding' = Holding /\ Idling' = Idling
    BY <1>27 DEF SendSeed, Typed, PcTyped, WalkTyped, Control, Walking, Holding, Reserving, Idling
  <2>2. Main \in Reserving /\ Reserving' = Reserving \ {Main}
    BY <1>27 DEF SendSeed, Typed, PcTyped, WalkTyped, Control, Walking, Holding, Reserving, Idling
  <2>3. Len(queue') = Len(queue) + 1 /\ UNCHANGED <<outstanding, idle>>
    BY <1>27 DEF SendSeed, Typed, BalanceTyped, Control
  <2>4. Cardinality(Reserving') = Cardinality(Reserving) - 1
    BY <2>2, CountsFinite, FS_RemoveElement
  <2> QED
    BY <2>1, <2>3, <2>4, CountsFinite DEF Typed, BalanceTyped, Counting, OutstandingExact
<1>28. ASSUME SendFails PROVE Counting'
  <2>1. Holding' = Holding /\ Reserving' = Reserving /\ Idling' = Idling
    BY <1>28 DEF SendFails, Typed, PcTyped, WalkTyped, Control, Walking, Holding, Reserving, Idling
  <2>2. UNCHANGED <<queue, idle, outstanding>>
    BY <1>28 DEF SendFails
  <2> QED BY <2>1, <2>2, CountsKept
<1>29. ASSUME FlushSeeder PROVE Counting'
  <2>1. Holding' = Holding /\ Reserving' = Reserving /\ Idling' = Idling
    BY <1>29 DEF FlushSeeder, Typed, PcTyped, WalkTyped, Control, Walking, Holding, Reserving, Idling
  <2>2. UNCHANGED <<queue, idle, outstanding>>
    BY <1>29 DEF FlushSeeder
  <2> QED BY <2>1, <2>2, CountsKept
<1>30. ASSUME FinishSeeding PROVE Counting'
  <2>1. Holding' = Holding /\ Reserving' = Reserving /\ Idling' = Idling
    BY <1>30 DEF FinishSeeding, Typed, PcTyped, WalkTyped, Control, Walking, Holding, Reserving, Idling
  <2>2. UNCHANGED <<queue, idle, outstanding>>
    BY <1>30 DEF FinishSeeding
  <2> QED BY <2>1, <2>2, CountsKept
<1>31. ASSUME CollectResult PROVE Counting'
  <2>1. Holding' = Holding /\ Reserving' = Reserving /\ Idling' = Idling
    BY <1>31 DEF CollectResult, Typed, PcTyped, WalkTyped, Control, Walking, Holding, Reserving, Idling
  <2>2. UNCHANGED <<queue, idle, outstanding>>
    BY <1>31 DEF CollectResult
  <2> QED BY <2>1, <2>2, CountsKept
<1>32. ASSUME CollectFails PROVE Counting'
  <2>1. Holding' = Holding /\ Reserving' = Reserving /\ Idling' = Idling
    BY <1>32 DEF CollectFails, Typed, PcTyped, WalkTyped, Control, Walking, Holding, Reserving, Idling
  <2>2. UNCHANGED <<queue, idle, outstanding>>
    BY <1>32 DEF CollectFails
  <2> QED BY <2>1, <2>2, CountsKept
<1>33. ASSUME MassGate PROVE Counting'
  <2>1. Holding' = Holding /\ Reserving' = Reserving /\ Idling' = Idling
    BY <1>33 DEF MassGate, Typed, PcTyped, WalkTyped, Control, Walking, Holding, Reserving, Idling
  <2>2. UNCHANGED <<queue, idle, outstanding>>
    BY <1>33 DEF MassGate
  <2> QED BY <2>1, <2>2, CountsKept
<1>34. CASE UNCHANGED vars
  BY <1>34 DEF vars, Counting, OutstandingExact, Holding, Reserving, Idling
<1> QED
  BY <1>1, <1>2, <1>3, <1>4, <1>5, <1>6, <1>7, <1>8, <1>9, <1>10, <1>11, <1>12,
     <1>13, <1>14, <1>15, <1>16, <1>17, <1>18, <1>19, <1>20, <1>21, <1>22, <1>23, <1>24,
     <1>25, <1>26, <1>27, <1>28, <1>29, <1>30, <1>31, <1>32, <1>33, <1>34
  DEF Next, MainStep, WorkerStep, WorkerLoop, WorkerTraverse, Walk, Ended

-----------------------------------------------------------------------------
(***************************************************************************)
(* Type correctness and the termination counter.                       *)
(***************************************************************************)

Inv == Typed /\ Control /\ Paths /\ Counting

LEMMA InvInvariant == Spec => []Inv
<1>1. Init => Inv
  BY TypedInit, CountingInit DEF Inv
<1>2. Inv /\ [Next]_vars => Inv'
  BY TypedStep, CountingStep DEF Inv
<1> QED BY <1>1, <1>2, PTL DEF Spec

(* The counters never go below zero: each equals a sum of cardinalities. *)
LEMMA CountersNatural == Inv => idle \in Nat /\ outstanding \in Nat
<1> SUFFICES ASSUME Inv PROVE idle \in Nat /\ outstanding \in Nat
  OBVIOUS
<1>1. Len(queue) \in Nat
  BY DEF Inv, Typed, BalanceTyped
<1> QED
  BY <1>1, CountsFinite, ConstantFacts DEF Inv, Counting, OutstandingExact

(***************************************************************************)
(* Every variable stays in its range; in particular no interleaving of     *)
(* reservations, roll-backs and releases makes `outstanding` or            *)
(* `idle_workers` wrap below zero.                                         *)
(***************************************************************************)
THEOREM TypeCorrect == Spec => []TypeOK
<1>1. Inv => TypeOK
  BY CountersNatural
  DEF Inv, Typed, PcTyped, WalkTyped, BalanceTyped, MassTyped, OutTyped, TypeOK
<1> QED BY <1>1, InvInvariant, PTL

(***************************************************************************)
(* The termination counter is exact: it counts the seeds in the channel,   *)
(* the seeds being walked, and the reservations for seeds not yet visible. *)
(***************************************************************************)
THEOREM OutstandingCorrect == Spec => []OutstandingExact
<1>1. Inv => OutstandingExact
  BY DEF Inv, Counting
<1> QED BY <1>1, InvInvariant, PTL

-----------------------------------------------------------------------------
(***************************************************************************)
(* Termination is detected only when there is nothing left to walk.        *)
(***************************************************************************)

Seeded == {"collect", "done", "panicked"}
Exited == {"finish", "result", "gone"}

(* `seeder_done` is set once seeding is over, and read before the counter. *)
SeederOrder ==
  /\ seederDone => pc[Main] \in Seeded
  /\ \A w \in Workers : pc[w] = "readOutstanding" => seederDone

Ending == SeederOrder /\ NoEarlyExit

LEMMA EndingInit == Init => Ending
BY ConstantFacts DEF Init, Ending, SeederOrder, NoEarlyExit, LoopTop

LEMMA EndingStep == Inv /\ Ending /\ [Next]_vars => Ending'
<1> SUFFICES ASSUME Inv, Ending, [Next]_vars PROVE Ending'
  OBVIOUS
<1> USE ConstantFacts DEF Goto, walkVars, balanceVars, massVars, outVars, Inv, Ending
<1>1. ASSUME NEW t \in Threads, Emit(t) PROVE Ending'
  <2>1. SeederOrder'
    BY <1>1 DEF Emit, Typed, PcTyped, SeederOrder, Seeded
  <2>2. NoEarlyExit'
    BY <1>1 DEF Emit, Typed, PcTyped, WalkTyped, Control, Walking, NoEarlyExit, SeederOrder, Seeded, Holding
  <2> QED BY <2>1, <2>2
<1>2. ASSUME NEW t \in Threads, RejectCandidate(t) PROVE Ending'
  <2>1. SeederOrder'
    BY <1>2 DEF RejectCandidate, Typed, PcTyped, SeederOrder, Seeded
  <2>2. NoEarlyExit'
    BY <1>2 DEF RejectCandidate, Typed, PcTyped, WalkTyped, Control, Walking, NoEarlyExit, SeederOrder, Seeded, Holding
  <2> QED BY <2>1, <2>2
<1>3. ASSUME NEW t \in Threads, Reserve(t) PROVE Ending'
  <2>1. SeederOrder'
    BY <1>3 DEF Reserve, Typed, PcTyped, SeederOrder, Seeded
  <2>2. NoEarlyExit'
    BY <1>3 DEF Reserve, Typed, PcTyped, WalkTyped, Control, Walking, NoEarlyExit, SeederOrder, Seeded, Holding
  <2> QED BY <2>1, <2>2
<1>4. ASSUME NEW t \in Threads, LoopDone(t) PROVE Ending'
  <2>1. SeederOrder'
    BY <1>4 DEF LoopDone, Typed, PcTyped, SeederOrder, Seeded
  <2>2. NoEarlyExit'
    BY <1>4 DEF LoopDone, Typed, PcTyped, WalkTyped, Control, Walking, NoEarlyExit, SeederOrder, Seeded, Holding
  <2> QED BY <2>1, <2>2
<1>5. ASSUME NEW t \in Threads, ReturnToLoop(t) PROVE Ending'
  <2>1. SeederOrder'
    BY <1>5 DEF ReturnToLoop, Typed, PcTyped, SeederOrder, Seeded
  <2>2. NoEarlyExit'
    BY <1>5 DEF ReturnToLoop, Typed, PcTyped, WalkTyped, Control, Walking, NoEarlyExit, SeederOrder, Seeded, Holding
  <2> QED BY <2>1, <2>2
<1>6. ASSUME NEW t \in Threads, ReturnFromSeed(t) PROVE Ending'
  <2>1. SeederOrder'
    BY <1>6 DEF ReturnFromSeed, Typed, PcTyped, SeederOrder, Seeded
  <2>2. NoEarlyExit'
    BY <1>6 DEF ReturnFromSeed, Typed, PcTyped, WalkTyped, Control, Walking, NoEarlyExit, SeederOrder, Seeded, Holding
  <2> QED BY <2>1, <2>2
<1>7. ASSUME NEW t \in Threads, WriterFails(t) PROVE Ending'
  <2>1. SeederOrder'
    BY <1>7 DEF WriterFails, Typed, PcTyped, SeederOrder, Seeded
  <2>2. NoEarlyExit'
    BY <1>7 DEF WriterFails, Typed, PcTyped, WalkTyped, Control, Walking, NoEarlyExit, SeederOrder, Seeded, Holding
  <2> QED BY <2>1, <2>2
<1>8. ASSUME NEW w \in Workers, StopBeforeLoop(w) PROVE Ending'
  <2>1. SeederOrder'
    BY <1>8 DEF StopBeforeLoop, Typed, PcTyped, SeederOrder, Seeded
  <2>2. NoEarlyExit'
    BY <1>8 DEF StopBeforeLoop, Typed, PcTyped, WalkTyped, Control, Walking, NoEarlyExit, SeederOrder, Seeded, Holding
  <2> QED BY <2>1, <2>2
<1>9. ASSUME NEW w \in Workers, GenerateCandidates(w) PROVE Ending'
  <2>1. SeederOrder'
    BY <1>9 DEF GenerateCandidates, Typed, PcTyped, SeederOrder, Seeded
  <2>2. NoEarlyExit'
    BY <1>9 DEF GenerateCandidates, Typed, PcTyped, WalkTyped, Control, Walking, NoEarlyExit, SeederOrder, Seeded, Holding
  <2> QED BY <2>1, <2>2
<1>10. ASSUME NEW w \in Workers, StopInLoop(w) PROVE Ending'
  <2>1. SeederOrder'
    BY <1>10 DEF StopInLoop, Typed, PcTyped, SeederOrder, Seeded
  <2>2. NoEarlyExit'
    BY <1>10 DEF StopInLoop, Typed, PcTyped, WalkTyped, Control, Walking, NoEarlyExit, SeederOrder, Seeded, Holding
  <2> QED BY <2>1, <2>2
<1>11. ASSUME NEW w \in Workers, RecurseIntoChild(w) PROVE Ending'
  <2>1. SeederOrder'
    BY <1>11 DEF RecurseIntoChild, Typed, PcTyped, SeederOrder, Seeded
  <2>2. NoEarlyExit'
    BY <1>11 DEF RecurseIntoChild, Push, Typed, PcTyped, WalkTyped, Control, Walking, NoEarlyExit, SeederOrder, Seeded, Holding
  <2> QED BY <2>1, <2>2
<1>12. ASSUME NEW w \in Workers, OfferChild(w) PROVE Ending'
  <2>1. SeederOrder'
    BY <1>12 DEF OfferChild, Typed, PcTyped, SeederOrder, Seeded
  <2>2. NoEarlyExit'
    BY <1>12 DEF OfferChild, Shallow, Typed, PcTyped, WalkTyped, Control, Walking, NoEarlyExit, SeederOrder, Seeded, Holding
  <2> QED BY <2>1, <2>2
<1>13. ASSUME NEW w \in Workers, DonateChild(w) PROVE Ending'
  <2>1. SeederOrder'
    BY <1>13 DEF DonateChild, Typed, PcTyped, SeederOrder, Seeded
  <2>2. NoEarlyExit'
    BY <1>13 DEF DonateChild, Typed, PcTyped, WalkTyped, Control, Walking, NoEarlyExit, SeederOrder, Seeded, Holding
  <2> QED BY <2>1, <2>2
<1>14. ASSUME NEW w \in Workers, DonationRefused(w) PROVE Ending'
  <2>1. SeederOrder'
    BY <1>14 DEF DonationRefused, Typed, PcTyped, SeederOrder, Seeded
  <2>2. NoEarlyExit'
    BY <1>14 DEF DonationRefused, Typed, PcTyped, WalkTyped, Control, Walking, NoEarlyExit, SeederOrder, Seeded, Holding
  <2> QED BY <2>1, <2>2
<1>15. ASSUME NEW w \in Workers, RollBack(w) PROVE Ending'
  <2>1. SeederOrder'
    BY <1>15 DEF RollBack, Typed, PcTyped, SeederOrder, Seeded
  <2>2. NoEarlyExit'
    BY <1>15 DEF RollBack, Push, Typed, PcTyped, WalkTyped, Control, Walking, NoEarlyExit, SeederOrder, Seeded, Holding
  <2> QED BY <2>1, <2>2
<1>16. ASSUME NEW w \in Workers, BecomeIdle(w) PROVE Ending'
  <2>1. SeederOrder'
    BY <1>16 DEF BecomeIdle, Typed, PcTyped, SeederOrder, Seeded
  <2>2. NoEarlyExit'
    BY <1>16 DEF BecomeIdle, Typed, PcTyped, WalkTyped, Control, Walking, NoEarlyExit, SeederOrder, Seeded, Holding
  <2> QED BY <2>1, <2>2
<1>17. ASSUME NEW w \in Workers, Receive(w) PROVE Ending'
  <2>1. SeederOrder'
    BY <1>17 DEF Receive, Typed, PcTyped, SeederOrder, Seeded
  <2>2. NoEarlyExit'
    BY <1>17 DEF Receive, Typed, PcTyped, WalkTyped, Control, Walking, NoEarlyExit, SeederOrder, Seeded, Holding
  <2> QED BY <2>1, <2>2
<1>18. ASSUME NEW w \in Workers, Timeout(w) PROVE Ending'
  <2>1. SeederOrder'
    BY <1>18 DEF Timeout, Typed, PcTyped, SeederOrder, Seeded
  <2>2. NoEarlyExit'
    BY <1>18 DEF Timeout, Typed, PcTyped, WalkTyped, Control, Walking, NoEarlyExit, SeederOrder, Seeded, Holding
  <2> QED BY <2>1, <2>2
<1>19. ASSUME NEW w \in Workers, ReadSeederDone(w) PROVE Ending'
  <2>1. SeederOrder'
    BY <1>19 DEF ReadSeederDone, Typed, PcTyped, SeederOrder, Seeded
  <2>2. NoEarlyExit'
    BY <1>19 DEF ReadSeederDone, Typed, PcTyped, WalkTyped, Control, Walking, NoEarlyExit, SeederOrder, Seeded, Holding
  <2> QED BY <2>1, <2>2
<1>20. ASSUME NEW w \in Workers, ReadOutstanding(w) PROVE Ending'
  <2>1. SeederOrder'
    BY <1>20 DEF ReadOutstanding, Typed, PcTyped, SeederOrder, Seeded
  <2>2. CASE outstanding # 0
    BY <1>20, <2>1, <2>2 DEF ReadOutstanding, Typed, PcTyped, NoEarlyExit, Holding
  <2>3. CASE outstanding = 0
    <3>1. SelfSubdivide
      BY <1>20 DEF ReadOutstanding, Control
    <3>2. Len(queue) = 0 /\ Cardinality(Holding) = 0
      <4>1. Len(queue) \in Nat
        BY DEF Typed, BalanceTyped
      <4> QED BY <2>3, <3>1, <4>1, CountsFinite DEF Counting, OutstandingExact
    <3>3. queue = <<>> /\ Holding = {}
      BY <3>2, CountsFinite, FS_EmptySet DEF Typed, BalanceTyped
    <3>4. pc[Main] \in Seeded
      BY <1>20 DEF ReadOutstanding, SeederOrder
    <3>5. Holding' = Holding /\ queue' = queue /\ pc'[Main] = pc[Main]
      BY <1>20 DEF ReadOutstanding, Typed, PcTyped, Holding
    <3>6. NoEarlyExit'
      BY <3>3, <3>4, <3>5 DEF NoEarlyExit, Seeded
    <3> QED BY <2>1, <3>6
  <2> QED BY <2>2, <2>3
<1>21. ASSUME NEW w \in Workers, Disconnected(w) PROVE Ending'
  <2>1. SeederOrder'
    BY <1>21 DEF Disconnected, Typed, PcTyped, SeederOrder, Seeded
  <2>2. NoEarlyExit'
    BY <1>21 DEF Disconnected, Typed, PcTyped, WalkTyped, Control, Walking, NoEarlyExit, SeederOrder, Seeded, Holding
  <2> QED BY <2>1, <2>2
<1>22. ASSUME NEW w \in Workers, ReleaseSeed(w) PROVE Ending'
  <2>1. SeederOrder'
    BY <1>22 DEF ReleaseSeed, Typed, PcTyped, SeederOrder, Seeded
  <2>2. NoEarlyExit'
    BY <1>22 DEF ReleaseSeed, Typed, PcTyped, WalkTyped, Control, Walking, NoEarlyExit, SeederOrder, Seeded, Holding
  <2> QED BY <2>1, <2>2
<1>23. ASSUME NEW w \in Workers, FlushWorker(w) PROVE Ending'
  <2>1. SeederOrder'
    BY <1>23 DEF FlushWorker, Typed, PcTyped, SeederOrder, Seeded
  <2>2. NoEarlyExit'
    BY <1>23 DEF FlushWorker, Typed, PcTyped, WalkTyped, Control, Walking, NoEarlyExit, SeederOrder, Seeded, Holding
  <2> QED BY <2>1, <2>2
<1>24. ASSUME NEW w \in Workers, SendResult(w) PROVE Ending'
  <2>1. SeederOrder'
    BY <1>24 DEF SendResult, Typed, PcTyped, SeederOrder, Seeded
  <2>2. NoEarlyExit'
    BY <1>24 DEF SendResult, Typed, PcTyped, WalkTyped, Control, Walking, NoEarlyExit, SeederOrder, Seeded, Holding
  <2> QED BY <2>1, <2>2
<1>25. ASSUME SeederRecurse PROVE Ending'
  <2>1. SeederOrder'
    BY <1>25 DEF SeederRecurse, Typed, PcTyped, SeederOrder, Seeded
  <2>2. NoEarlyExit'
    BY <1>25 DEF SeederRecurse, Push, Typed, PcTyped, WalkTyped, Control, Walking, NoEarlyExit, SeederOrder, Seeded, Holding
  <2> QED BY <2>1, <2>2
<1>26. ASSUME SeederOffer PROVE Ending'
  <2>1. SeederOrder'
    BY <1>26 DEF SeederOffer, Typed, PcTyped, SeederOrder, Seeded
  <2>2. NoEarlyExit'
    BY <1>26 DEF SeederOffer, Typed, PcTyped, WalkTyped, Control, Walking, NoEarlyExit, SeederOrder, Seeded, Holding
  <2> QED BY <2>1, <2>2
<1>27. ASSUME SendSeed PROVE Ending'
  <2>1. SeederOrder'
    BY <1>27 DEF SendSeed, Typed, PcTyped, SeederOrder, Seeded
  <2>2. NoEarlyExit'
    BY <1>27 DEF SendSeed, Typed, PcTyped, WalkTyped, Control, Walking, NoEarlyExit, SeederOrder, Seeded, Holding
  <2> QED BY <2>1, <2>2
<1>28. ASSUME SendFails PROVE Ending'
  <2>1. SeederOrder'
    BY <1>28 DEF SendFails, Typed, PcTyped, SeederOrder, Seeded
  <2>2. NoEarlyExit'
    BY <1>28 DEF SendFails, Typed, PcTyped, WalkTyped, Control, Walking, NoEarlyExit, SeederOrder, Seeded, Holding
  <2> QED BY <2>1, <2>2
<1>29. ASSUME FlushSeeder PROVE Ending'
  <2>1. SeederOrder'
    BY <1>29 DEF FlushSeeder, Typed, PcTyped, SeederOrder, Seeded
  <2>2. NoEarlyExit'
    BY <1>29 DEF FlushSeeder, Typed, PcTyped, WalkTyped, Control, Walking, NoEarlyExit, SeederOrder, Seeded, Holding
  <2> QED BY <2>1, <2>2
<1>30. ASSUME FinishSeeding PROVE Ending'
  <2>1. SeederOrder'
    BY <1>30 DEF FinishSeeding, Typed, PcTyped, SeederOrder, Seeded
  <2>2. NoEarlyExit'
    BY <1>30 DEF FinishSeeding, Typed, PcTyped, WalkTyped, Control, Walking, NoEarlyExit, SeederOrder, Seeded, Holding
  <2> QED BY <2>1, <2>2
<1>31. ASSUME CollectResult PROVE Ending'
  <2>1. SeederOrder'
    BY <1>31 DEF CollectResult, Typed, PcTyped, SeederOrder, Seeded
  <2>2. NoEarlyExit'
    BY <1>31 DEF CollectResult, Typed, PcTyped, WalkTyped, Control, Walking, NoEarlyExit, SeederOrder, Seeded, Holding
  <2> QED BY <2>1, <2>2
<1>32. ASSUME CollectFails PROVE Ending'
  <2>1. SeederOrder'
    BY <1>32 DEF CollectFails, Typed, PcTyped, SeederOrder, Seeded
  <2>2. NoEarlyExit'
    BY <1>32 DEF CollectFails, Typed, PcTyped, WalkTyped, Control, Walking, NoEarlyExit, SeederOrder, Seeded, Holding
  <2> QED BY <2>1, <2>2
<1>33. ASSUME MassGate PROVE Ending'
  <2>1. SeederOrder'
    BY <1>33 DEF MassGate, Typed, PcTyped, SeederOrder, Seeded
  <2>2. NoEarlyExit'
    BY <1>33 DEF MassGate, Typed, PcTyped, WalkTyped, Control, Walking, NoEarlyExit, SeederOrder, Seeded, Holding
  <2> QED BY <2>1, <2>2
<1>34. CASE UNCHANGED vars
  BY <1>34 DEF vars, SeederOrder, NoEarlyExit, Holding
<1> QED
  BY <1>1, <1>2, <1>3, <1>4, <1>5, <1>6, <1>7, <1>8, <1>9, <1>10, <1>11, <1>12,
     <1>13, <1>14, <1>15, <1>16, <1>17, <1>18, <1>19, <1>20, <1>21, <1>22, <1>23, <1>24,
     <1>25, <1>26, <1>27, <1>28, <1>29, <1>30, <1>31, <1>32, <1>33, <1>34
  DEF Next, MainStep, WorkerStep, WorkerLoop, WorkerTraverse, Walk, Ended

(***************************************************************************)
(* No worker leaves its loop while a seed is in the channel, in the hands  *)
(* of a peer or about to be sent, however stale its hints and however late *)
(* its time-outs are.                                                      *)
(***************************************************************************)
THEOREM NoEarlyExitCorrect == Spec => []NoEarlyExit
<1>1. Init => Ending
  BY EndingInit
<1>2. Inv /\ Ending /\ [Next]_vars => Ending'
  BY EndingStep
<1>3. Ending => NoEarlyExit
  BY DEF Ending
<1> QED BY <1>1, <1>2, <1>3, InvInvariant, PTL DEF Spec

-----------------------------------------------------------------------------
(***************************************************************************)
(* Where a class can be: in a thread's output, before its loop, in its     *)
(* hand, at the head of its traverse, or in the channel.                   *)
(***************************************************************************)

Held(t) == {hand[t]} \ {NoCode}

Front(t) == IF pc[t] = "emit" THEN {cur[t]} ELSE {}

Ahead(t) == todo[t] \cup Held(t) \cup Front(t)

Owned(t) == emitted[t] \cup Ahead(t)

Queued == {queue[i] : i \in 1 .. Len(queue)}

Located == Queued \cup UNION {Owned(t) : t \in Threads}

(* No class or candidate is in two places. *)
NoneTwice ==
  /\ \A s, t \in Threads : s # t => Owned(s) \cap Owned(t) = {}
  /\ \A t \in Threads : /\ emitted[t] \cap Ahead(t) = {}
                        /\ todo[t] \cap (Held(t) \cup Front(t)) = {}
  /\ \A t \in Threads : Queued \cap Owned(t) = {}
  /\ \A i, j \in 1 .. Len(queue) : queue[i] = queue[j] => i = j

(* Whatever is somewhere was reached from a class in some output. *)
ParentsOut == \A x \in Located : x # Root => Parent[x] \in Emitted

(* Before a worker has generated candidates, none of them is anywhere. *)
Fresh ==
  \A w \in Workers : pc[w] = "preloop" =>
    \A x \in Located : x # Root => Parent[x] # cur[w]

(* The frames of a thread are in its own output, but for one just entered. *)
FramesOut ==
  \A t \in Threads : pc[t] \in Walking =>
    \A x \in stack[t] : x \in emitted[t] \/ (pc[t] = "emit" /\ x = cur[t])

Placed == NoneTwice /\ ParentsOut /\ Fresh /\ FramesOut

-----------------------------------------------------------------------------
(***************************************************************************)
(* The steps, by what they do to the places.  Most do nothing but drop     *)
(* candidates or frames.                                                   *)
(***************************************************************************)

Quiet ==
  /\ UNCHANGED <<emitted, hand, queue>>
  /\ \A t \in Threads :
       /\ todo'[t] \subseteq todo[t]
       /\ pc'[t] \in {"emit", "preloop"} => pc'[t] = pc[t] /\ cur'[t] = cur[t]
       /\ pc'[t] \in Walking => /\ pc[t] \in Walking
                                /\ stack'[t] \subseteq stack[t]
                                /\ pc[t] = "emit" => pc'[t] = "emit"

Live == \A t \in Threads : pc[t] # "panicked"

(* The quiet steps that drop no class, either. *)
Calm ==
  \A t \in Threads :
    /\ todo[t] \cap Codes \subseteq todo'[t]
    /\ pc[t] \in {"emit", "preloop"} => pc'[t] = pc[t] /\ cur'[t] = cur[t]

(* The mass-stops. *)
Stops == \E w \in Workers : StopBeforeLoop(w) \/ StopInLoop(w)

(* A candidate becomes the current class. *)
TakeUp(t, x) ==
  /\ pc[t] = "loop" /\ x \in Unseen(t) \cap Codes
  /\ Drop(t, {x}) /\ Push(t, x) /\ Goto(t, "emit")
  /\ UNCHANGED <<emitted, hand, queue>>

(* A candidate is taken in hand, to be sent. *)
TakeInHand(t, x, l) ==
  /\ pc[t] = "loop" /\ x \in Unseen(t) \cap Codes
  /\ Drop(t, {x}) /\ hand' = [hand EXCEPT ![t] = x] /\ Goto(t, l)
  /\ UNCHANGED <<emitted, cur, stack, seed, queue>>

(* The class in hand goes into the channel. *)
SendHand(t) ==
  /\ pc[t] = "send"
  /\ queue' = Append(queue, hand[t])
  /\ hand' = [hand EXCEPT ![t] = NoCode] /\ Goto(t, "loop")
  /\ UNCHANGED <<emitted, todo, cur, stack, seed>>

Emits == \E t \in Threads : Emit(t)
Generates == \E w \in Workers : GenerateCandidates(w)
RollsBack == \E w \in Workers : RollBack(w)
Receives == \E w \in Workers : Receive(w)
TakesUp == \E t \in Threads, x \in Codes : TakeUp(t, x)
TakesInHand == \E t \in Threads, x \in Codes, l \in {"reserve", "send"} : TakeInHand(t, x, l)
Sends == \E t \in Threads : SendHand(t)

Stays == Quiet /\ (Live' => Calm \/ Stops)

Kind ==
  Stays \/ Emits \/ Generates \/ RollsBack \/ Receives \/ TakesUp \/ TakesInHand \/ Sends

LEMMA Kinds == ASSUME Typed, Control, Paths, [Next]_vars PROVE Kind
<1> USE ConstantFacts DEF Goto, walkVars, balanceVars, massVars, outVars, Typed, PcTyped, WalkTyped
<1>1. ASSUME NEW t \in Threads,
             RejectCandidate(t) \/ Reserve(t) \/ LoopDone(t) \/ ReturnToLoop(t)
               \/ ReturnFromSeed(t) \/ WriterFails(t)
      PROVE  Stays
  <2>1. CASE RejectCandidate(t)
    BY <2>1 DEF RejectCandidate, Drop, Stays, Quiet, Calm, Walking
  <2>2. CASE Reserve(t)
    BY <2>2 DEF Reserve, Stays, Quiet, Calm, Walking
  <2>3. CASE LoopDone(t)
    BY <2>3 DEF LoopDone, Stays, Quiet, Calm, Walking
  <2>4. CASE ReturnToLoop(t)
    BY <2>4 DEF ReturnToLoop, Stays, Quiet, Calm, Walking
  <2>5. CASE ReturnFromSeed(t)
    BY <2>5 DEF ReturnFromSeed, Stays, Quiet, Calm, Walking
  <2>6. CASE WriterFails(t)
    BY <2>6 DEF WriterFails, Stays, Quiet, Live, Walking
  <2> QED BY <1>1, <2>1, <2>2, <2>3, <2>4, <2>5, <2>6
<1>2. ASSUME NEW w \in Workers,
             StopBeforeLoop(w) \/ StopInLoop(w) \/ DonationRefused(w) \/ BecomeIdle(w)
               \/ Timeout(w) \/ ReadSeederDone(w) \/ ReadOutstanding(w) \/ Disconnected(w)
               \/ ReleaseSeed(w) \/ FlushWorker(w) \/ SendResult(w)
      PROVE  Stays
  <2>1. CASE StopBeforeLoop(w)
    BY <2>1 DEF StopBeforeLoop, Stops, Stays, Quiet, Walking
  <2>2. CASE StopInLoop(w)
    BY <2>2 DEF StopInLoop, Drop, Stops, Stays, Quiet, Walking
  <2>3. CASE DonationRefused(w)
    BY <2>3 DEF DonationRefused, Stays, Quiet, Calm, Walking
  <2>4. CASE BecomeIdle(w) \/ Timeout(w) \/ ReadSeederDone(w)
    BY <2>4 DEF BecomeIdle, Timeout, ReadSeederDone, Stays, Quiet, Calm, Walking
  <2>5. CASE ReadOutstanding(w) \/ Disconnected(w) \/ ReleaseSeed(w)
    BY <2>5 DEF ReadOutstanding, Disconnected, ReleaseSeed, Stays, Quiet, Calm, Walking
  <2>6. CASE FlushWorker(w) \/ SendResult(w)
    BY <2>6 DEF FlushWorker, SendResult, Stays, Quiet, Calm, Walking
  <2> QED BY <1>2, <2>1, <2>2, <2>3, <2>4, <2>5, <2>6
<1>3. ASSUME SendFails \/ FlushSeeder \/ FinishSeeding \/ CollectResult \/ CollectFails \/ MassGate
      PROVE  Stays
  BY <1>3 DEF SendFails, FlushSeeder, FinishSeeding, CollectResult, CollectFails, MassGate, Stays, Quiet, Calm, Walking
<1>4. ASSUME UNCHANGED vars PROVE Stays
  BY <1>4 DEF vars, Stays, Quiet, Calm
<1>5. ASSUME NEW w \in Workers, RecurseIntoChild(w) PROVE \E x \in Codes : TakeUp(w, x)
  BY <1>5 DEF RecurseIntoChild, TakeUp
<1>6. ASSUME SeederRecurse PROVE \E x \in Codes : TakeUp(Main, x)
  BY <1>6 DEF SeederRecurse, TakeUp
<1>7. ASSUME NEW w \in Workers, OfferChild(w)
      PROVE  \E x \in Codes, l \in {"reserve", "send"} : TakeInHand(w, x, l)
  <2>1. \E x \in Codes : TakeInHand(w, x, "reserve")
    BY <1>7 DEF OfferChild, TakeInHand
  <2> HIDE ConstantFacts DEF Goto, walkVars, balanceVars, massVars, outVars, Typed, PcTyped, WalkTyped
  <2> QED BY <2>1
<1>8. ASSUME SeederOffer
      PROVE  \E x \in Codes, l \in {"reserve", "send"} : TakeInHand(Main, x, l)
  BY <1>8 DEF SeederOffer, TakeInHand
<1>9. ASSUME NEW w \in Workers, DonateChild(w) PROVE SendHand(w)
  BY <1>9 DEF DonateChild, SendHand
<1>10. ASSUME SendSeed PROVE SendHand(Main)
  BY <1>10 DEF SendSeed, SendHand
<1> HIDE ConstantFacts DEF Goto, walkVars, balanceVars, massVars, outVars, Typed, PcTyped, WalkTyped
<1>11. Main \in Threads /\ \A w \in Workers : w \in Threads
  OBVIOUS
<1>12. ASSUME NEW w \in Workers, WorkerLoop(w) PROVE Kind
  BY <1>2, <1>12 DEF WorkerLoop, Kind, Receives
<1>13. ASSUME NEW w \in Workers, WorkerTraverse(w) PROVE Kind
  <2>1. (\E x \in Codes : TakeUp(w, x)) => TakesUp
    BY <1>11 DEF TakesUp
  <2>2. (\E x \in Codes, l \in {"reserve", "send"} : TakeInHand(w, x, l)) => TakesInHand
    BY <1>11 DEF TakesInHand
  <2>3. SendHand(w) => Sends
    BY <1>11 DEF Sends
  <2> QED
    BY <1>2, <1>5, <1>7, <1>9, <1>13, <2>1, <2>2, <2>3 DEF WorkerTraverse, Kind, Generates, RollsBack
<1>14. ASSUME NEW t \in Threads, Walk(t) PROVE Kind
  BY <1>1, <1>14 DEF Walk, Kind, Emits
<1>15. ASSUME MainStep PROVE Kind
  <2>1. (\E x \in Codes : TakeUp(Main, x)) => TakesUp
    BY <1>11 DEF TakesUp
  <2>2. (\E x \in Codes, l \in {"reserve", "send"} : TakeInHand(Main, x, l)) => TakesInHand
    BY <1>11 DEF TakesInHand
  <2>3. SendHand(Main) => Sends
    BY <1>11 DEF Sends
  <2>4. Walk(Main) => Kind
    BY <1>11, <1>14
  <2> QED
    BY <1>3, <1>6, <1>8, <1>10, <1>15, <2>1, <2>2, <2>3, <2>4 DEF MainStep, Kind
<1>16. ASSUME NEW t \in Threads, WriterFails(t) PROVE Kind
  BY <1>1, <1>16 DEF Kind
<1> QED
  <2>1. ASSUME NEW w \in Workers, WorkerStep(w) PROVE Kind
    BY <1>11, <1>12, <1>13, <1>14, <2>1 DEF WorkerStep
  <2> QED BY <1>4, <1>15, <1>16, <2>1 DEF Next, Ended, Kind

-----------------------------------------------------------------------------
(***************************************************************************)
(* Places are kept apart by every kind of step.                            *)
(***************************************************************************)

LEMMA PlacedInit == Init => Placed
<1> SUFFICES ASSUME Init PROVE Placed
  OBVIOUS
<1>1. \A t \in Threads : /\ emitted[t] = {} /\ todo[t] = {} /\ Held(t) = {}
                         /\ Front(t) = IF t = Main THEN {Root} ELSE {}
  BY DEF Init, Held, Front, LoopTop
<1>2. Queued = {} /\ Len(queue) = 0
  BY DEF Init, Queued
<1>3. \A t \in Threads : Owned(t) = IF t = Main THEN {Root} ELSE {}
  BY <1>1 DEF Owned, Ahead
<1>4. NoneTwice
  BY <1>1, <1>2, <1>3 DEF NoneTwice, Ahead
<1>5. Located \subseteq {Root}
  BY <1>2, <1>3 DEF Located
<1>6. ParentsOut /\ Fresh
  BY <1>5 DEF ParentsOut, Fresh
<1>7. FramesOut
  BY ConstantFacts DEF Init, FramesOut, Walking, LoopTop
<1> QED BY <1>4, <1>6, <1>7 DEF Placed

(* When no class enters a place from nowhere, only the places can go wrong. *)
LEMMA MoveKeeps ==
  ASSUME ParentsOut, Fresh, Located' \subseteq Located, UNCHANGED emitted,
         \A w \in Workers : pc'[w] = "preloop" => pc[w] = "preloop" /\ cur'[w] = cur[w]
  PROVE  ParentsOut' /\ Fresh'
<1>1. Emitted' = Emitted
  BY DEF Emitted
<1>2. ParentsOut'
  BY <1>1 DEF ParentsOut
<1>3. Fresh'
  BY DEF Fresh
<1> QED BY <1>2, <1>3

LEMMA QuietKeeps == ASSUME Placed, Quiet PROVE Placed'
<1>1. Queued' = Queued /\ Len(queue)' = Len(queue)
  BY DEF Quiet, Queued
<1>2. \A t \in Threads : /\ emitted'[t] = emitted[t] /\ todo'[t] \subseteq todo[t]
                         /\ Held(t)' = Held(t) /\ Front(t)' \subseteq Front(t)
  BY DEF Quiet, Held, Front
<1>3. \A t \in Threads : Ahead(t)' \subseteq Ahead(t) /\ Owned(t)' \subseteq Owned(t)
  BY <1>2 DEF Ahead, Owned
<1>4. NoneTwice'
  <2>1. UNCHANGED queue
    BY DEF Quiet
  <2> QED BY <1>1, <1>2, <1>3, <2>1 DEF Placed, NoneTwice
<1>5. Located' \subseteq Located
  BY <1>1, <1>3 DEF Located
<1>6. ParentsOut' /\ Fresh'
  <2>1. \A w \in Workers : pc'[w] = "preloop" => pc[w] = "preloop" /\ cur'[w] = cur[w]
    BY DEF Quiet
  <2>2. UNCHANGED emitted
    BY DEF Quiet
  <2> QED BY <1>5, <2>1, <2>2, MoveKeeps DEF Placed
<1>7. FramesOut'
  BY DEF Quiet, Placed, FramesOut, Walking
<1> QED BY <1>4, <1>6, <1>7 DEF Placed

LEMMA CurrentIsOut ==
  ASSUME Control, Paths, FramesOut, NEW t \in Threads, pc[t] \in Walking, pc[t] # "emit"
  PROVE  cur[t] \in emitted[t]
<1>1. cur[t] \in Codes /\ seed[t] \in Codes /\ stack[t] \in Path[seed[t]][cur[t]]
  BY DEF Control, Paths
<1>2. cur[t] \in stack[t]
  BY <1>1 DEF Path
<1> QED BY <1>2 DEF FramesOut

LEMMA EmitKeeps ==
  ASSUME Typed, Control, Paths, Placed, NEW t \in Threads, Emit(t)
  PROVE  /\ Placed' /\ Located \subseteq Located'
         /\ Emitted' = Emitted \cup {cur[t]}
         /\ t = Main /\ Rank[cur[t]] < MaxK => Candidates(cur[t]) \subseteq Located'
<1> DEFINE c == cur[t]
           new == IF t = Main /\ Rank[c] < MaxK THEN Candidates(c) ELSE {}
<1>1. /\ pc[t] = "emit" /\ c \in Codes /\ pc'[t] # "emit"
      /\ \A s \in Threads \ {t} : pc'[s] = pc[s]
      /\ pc'[t] = "preloop" => t # Main
      /\ UNCHANGED <<hand, queue, cur, stack>>
  BY DEF Emit, Control, Walking, Typed, PcTyped, balanceVars, Goto
<1>2. /\ emitted'[t] = emitted[t] \cup {c}
      /\ \A s \in Threads \ {t} : emitted'[s] = emitted[s]
  BY DEF Emit, Output, Typed, OutTyped
<1>3. /\ todo'[t] = todo[t] \cup new
      /\ \A s \in Threads \ {t} : todo'[s] = todo[s]
  <2>1. Rank[c] \in Nat /\ MaxK \in Nat
    BY <1>1, ConstantFacts DEF Ranks
  <2> QED BY <2>1 DEF Emit, Typed, WalkTyped
<1>4. \A s \in Threads : c \notin emitted[s]
  BY <1>1 DEF Placed, NoneTwice, Owned, Ahead, Front
<1>5. c \notin Emitted
  BY <1>4 DEF Emitted
<1>6. \A x \in new : x # Root /\ Parent[x] = c /\ x \notin Located
  <2>1. \A x \in new : Parent[x] = c /\ x # Root
    BY ConstantFacts DEF Candidates
  <2> QED BY <1>5, <2>1 DEF Placed, ParentsOut
<1>7. /\ \A s \in Threads : Held(s)' = Held(s)
      /\ Front(t) = {c} /\ Front(t)' = {}
      /\ \A s \in Threads \ {t} : Front(s)' = Front(s)
      /\ Queued' = Queued
  BY <1>1 DEF Held, Front, Queued
<1>8. /\ Owned(t)' = Owned(t) \cup new
      /\ \A s \in Threads \ {t} : Owned(s)' = Owned(s) /\ Ahead(s)' = Ahead(s)
      /\ Ahead(t)' = todo[t] \cup new \cup Held(t)
  BY <1>2, <1>3, <1>7 DEF Owned, Ahead
<1>9. /\ \A s \in Threads : Owned(s) \cap new = {}
      /\ Queued \cap new = {}
  BY <1>6 DEF Located
<1>10. c \notin todo[t] /\ c \notin Held(t) /\ c \in Front(t) /\ c \in Ahead(t)
  <2>1. pc[t] = "emit" => hand[t] = NoCode
    BY DEF Control
  <2>2. todo[t] \cap Front(t) = {}
    BY DEF Placed, NoneTwice
  <2> QED BY <1>1, <1>7, <2>1, <2>2 DEF Held, Ahead
<1>11. NoneTwice'
  <2>1. \A s, r \in Threads : s # r => Owned(s)' \cap Owned(r)' = {}
    BY <1>8, <1>9 DEF Placed, NoneTwice
  <2>2. \A s \in Threads \ {t} : /\ emitted'[s] \cap Ahead(s)' = {}
                                 /\ todo'[s] \cap (Held(s)' \cup Front(s)') = {}
    BY <1>2, <1>3, <1>7, <1>8 DEF Placed, NoneTwice
  <2>3. emitted'[t] \cap Ahead(t)' = {}
    <3>1. emitted[t] \cap (todo[t] \cup Held(t)) = {}
      BY DEF Placed, NoneTwice, Ahead
    <3>2. (emitted[t] \cup {c}) \cap new = {}
      BY <1>9, <1>10 DEF Owned
    <3> QED BY <1>2, <1>8, <1>10, <3>1, <3>2
  <2>4. todo'[t] \cap (Held(t)' \cup Front(t)') = {}
    <3>1. todo[t] \cap Held(t) = {}
      BY DEF Placed, NoneTwice
    <3>2. new \cap Held(t) = {}
      BY <1>9 DEF Owned, Ahead
    <3> QED BY <1>3, <1>7, <3>1, <3>2
  <2>5. \A s \in Threads : Queued' \cap Owned(s)' = {}
    BY <1>7, <1>8, <1>9 DEF Placed, NoneTwice
  <2>6. \A i, j \in 1 .. Len(queue') : queue'[i] = queue'[j] => i = j
    BY <1>1 DEF Placed, NoneTwice
  <2> QED BY <2>1, <2>2, <2>3, <2>4, <2>5, <2>6 DEF NoneTwice
<1>12. Located' = Located \cup new
  BY <1>7, <1>8 DEF Located
<1>13. Emitted' = Emitted \cup {c}
  BY <1>2 DEF Emitted
<1>14. ParentsOut'
  BY <1>6, <1>12, <1>13 DEF Placed, ParentsOut
<1>15. Fresh'
  <2> SUFFICES ASSUME NEW w \in Workers, pc'[w] = "preloop",
                      NEW x \in Located', x # Root, Parent[x] = cur[w]
               PROVE  FALSE
    BY <1>1 DEF Fresh
  <2>1. CASE w = t
    BY <1>5, <1>6, <1>12, <2>1, ConstantFacts DEF Placed, ParentsOut
  <2>2. CASE w # t
    <3>1. pc[w] = "preloop"
      BY <1>1, <2>2
    <3>2. x \in new
      BY <1>12, <3>1 DEF Placed, Fresh
    <3>3. cur[w] \in emitted[w]
      BY <3>1, CurrentIsOut DEF Walking, Placed
    <3> QED BY <1>4, <1>6, <3>2, <3>3
  <2> QED BY <2>1, <2>2
<1>16. FramesOut'
  <2> SUFFICES ASSUME NEW s \in Threads, pc'[s] \in Walking, NEW x \in stack[s]
               PROVE  x \in emitted'[s] \/ (pc'[s] = "emit" /\ x = cur[s])
    BY <1>1 DEF FramesOut
  <2> QED BY <1>1, <1>2 DEF Placed, FramesOut, Walking
<1> QED BY <1>11, <1>12, <1>13, <1>14, <1>15, <1>16 DEF Placed

LEMMA GenerateKeeps ==
  ASSUME Typed, Control, Paths, Placed, NEW w \in Workers, GenerateCandidates(w)
  PROVE  Placed' /\ Located' = Located \cup Candidates(cur[w])
<1> DEFINE c == cur[w]
           new == Candidates(c)
<1>1. /\ pc[w] = "preloop" /\ pc'[w] = "loop"
      /\ \A s \in Threads \ {w} : pc'[s] = pc[s]
      /\ UNCHANGED <<emitted, hand, queue, cur, stack>>
  BY DEF GenerateCandidates, Typed, PcTyped, balanceVars, outVars, Goto
<1>2. /\ todo'[w] = todo[w] \cup new
      /\ \A s \in Threads \ {w} : todo'[s] = todo[s]
  BY DEF GenerateCandidates, Typed, WalkTyped
<1>3. c \in emitted[w]
  BY <1>1, CurrentIsOut DEF Walking, Placed
<1>4. \A x \in new : x # Root /\ Parent[x] = c /\ x \notin Located
  <2>1. \A x \in new : Parent[x] = c /\ x # Root
    BY ConstantFacts DEF Candidates
  <2> QED BY <1>1, <2>1 DEF Placed, Fresh
<1>5. /\ \A s \in Threads : Held(s)' = Held(s) /\ Front(s)' = Front(s)
      /\ Queued' = Queued
  BY <1>1 DEF Held, Front, Queued
<1>6. /\ Owned(w)' = Owned(w) \cup new /\ Ahead(w)' = Ahead(w) \cup new
      /\ \A s \in Threads \ {w} : Owned(s)' = Owned(s) /\ Ahead(s)' = Ahead(s)
  BY <1>1, <1>2, <1>5 DEF Owned, Ahead
<1>7. /\ \A s \in Threads : Owned(s) \cap new = {}
      /\ Queued \cap new = {}
  BY <1>4 DEF Located
<1>8. NoneTwice'
  <2>1. \A s, r \in Threads : s # r => Owned(s)' \cap Owned(r)' = {}
    BY <1>6, <1>7 DEF Placed, NoneTwice
  <2>2. \A s \in Threads \ {w} : /\ emitted'[s] \cap Ahead(s)' = {}
                                 /\ todo'[s] \cap (Held(s)' \cup Front(s)') = {}
    BY <1>1, <1>2, <1>5, <1>6 DEF Placed, NoneTwice
  <2>3. /\ emitted[w] \cap (Ahead(w) \cup new) = {}
        /\ (todo[w] \cup new) \cap (Held(w) \cup Front(w)) = {}
    BY <1>7 DEF Placed, NoneTwice, Owned, Ahead
  <2>4. \A s \in Threads : Queued' \cap Owned(s)' = {}
    BY <1>5, <1>6, <1>7 DEF Placed, NoneTwice
  <2>5. \A i, j \in 1 .. Len(queue') : queue'[i] = queue'[j] => i = j
    BY <1>1 DEF Placed, NoneTwice
  <2> QED BY <1>1, <1>2, <1>5, <1>6, <2>1, <2>2, <2>3, <2>4, <2>5 DEF NoneTwice
<1>9. Located' = Located \cup new
  BY <1>5, <1>6 DEF Located
<1>10. Emitted' = Emitted
  BY <1>1 DEF Emitted
<1>11. ParentsOut'
  BY <1>3, <1>4, <1>9, <1>10 DEF Placed, ParentsOut, Emitted
<1>12. Fresh'
  <2> SUFFICES ASSUME NEW v \in Workers, pc'[v] = "preloop",
                      NEW x \in Located', x # Root, Parent[x] = cur[v]
               PROVE  FALSE
    BY <1>1 DEF Fresh
  <2>1. v # w /\ pc[v] = "preloop"
    BY <1>1
  <2>2. x \in new
    BY <1>9, <2>1 DEF Placed, Fresh
  <2>3. c \in emitted[v]
    BY <1>4, <2>1, <2>2, CurrentIsOut DEF Walking, Placed
  <2> QED BY <1>3, <2>1, <2>3 DEF Placed, NoneTwice, Owned
<1>13. FramesOut'
  BY <1>1 DEF Placed, FramesOut, Walking
<1> QED BY <1>8, <1>9, <1>11, <1>12, <1>13 DEF Placed

LEMMA RollBackKeeps ==
  ASSUME Typed, Control, Paths, Placed, NEW w \in Workers, RollBack(w)
  PROVE  Placed' /\ Located' = Located
<1>1. /\ pc[w] = "rollback" /\ pc'[w] = "emit" /\ hand[w] \in Codes
      /\ \A s \in Threads \ {w} : pc'[s] = pc[s]
      /\ UNCHANGED <<emitted, todo, queue>>
  BY DEF RollBack, Control, Typed, PcTyped, outVars, Goto
<1>2. /\ cur'[w] = hand[w] /\ hand'[w] = NoCode /\ stack'[w] = stack[w] \cup {hand[w]}
      /\ \A s \in Threads \ {w} : cur'[s] = cur[s] /\ hand'[s] = hand[s] /\ stack'[s] = stack[s]
  BY DEF RollBack, Push, Typed, WalkTyped
<1>3. /\ Held(w)' = {} /\ Front(w)' = Held(w) /\ Front(w) = {}
      /\ \A s \in Threads \ {w} : Held(s)' = Held(s) /\ Front(s)' = Front(s)
      /\ Queued' = Queued
  <2>1. Held(w)' = {} /\ Held(w) = {hand[w]}
    BY <1>1, <1>2, ConstantFacts DEF Held
  <2>2. Front(w)' = {hand[w]} /\ Front(w) = {}
    BY <1>1, <1>2 DEF Front
  <2>3. \A s \in Threads \ {w} : Held(s)' = Held(s) /\ Front(s)' = Front(s)
    BY <1>1, <1>2 DEF Held, Front
  <2> QED BY <1>1, <2>1, <2>2, <2>3 DEF Queued
<1>4. \A s \in Threads : /\ Owned(s)' = Owned(s) /\ Ahead(s)' = Ahead(s)
                         /\ Held(s)' \cup Front(s)' = Held(s) \cup Front(s)
  BY <1>1, <1>3 DEF Owned, Ahead
<1>5. NoneTwice'
  BY <1>1, <1>3, <1>4 DEF Placed, NoneTwice
<1>6. Located' = Located
  BY <1>3, <1>4 DEF Located
<1>7. ParentsOut' /\ Fresh'
  BY <1>1, <1>2, <1>6, MoveKeeps DEF Placed
<1>8. FramesOut'
  BY <1>1, <1>2 DEF Placed, FramesOut, Walking
<1> QED BY <1>5, <1>7, <1>8, <1>6 DEF Placed

LEMMA TakeUpKeeps ==
  ASSUME Typed, Control, Paths, Placed, NEW t \in Threads, NEW x \in Codes, TakeUp(t, x)
  PROVE  Placed' /\ Located' = Located
<1>1. /\ pc[t] = "loop" /\ pc'[t] = "emit" /\ x \in todo[t]
      /\ \A s \in Threads \ {t} : pc'[s] = pc[s]
      /\ UNCHANGED <<emitted, hand, queue>>
  BY DEF TakeUp, Unseen, Typed, PcTyped, Goto
<1>2. /\ cur'[t] = x /\ stack'[t] = stack[t] \cup {x} /\ todo'[t] = todo[t] \ {x}
      /\ \A s \in Threads \ {t} : cur'[s] = cur[s] /\ stack'[s] = stack[s] /\ todo'[s] = todo[s]
  BY DEF TakeUp, Push, Drop, Typed, WalkTyped
<1>3. /\ \A s \in Threads : Held(s)' = Held(s)
      /\ \A s \in Threads \ {t} : Front(s)' = Front(s)
      /\ Front(t)' = {x} /\ Front(t) = {}
      /\ Queued' = Queued
  BY <1>1, <1>2 DEF Held, Front, Queued
<1>4. \A s \in Threads : Owned(s)' = Owned(s) /\ Ahead(s)' = Ahead(s)
  BY <1>1, <1>2, <1>3 DEF Owned, Ahead
<1>5. \A s \in Threads : todo'[s] \cap (Held(s)' \cup Front(s)') = {}
  BY <1>1, <1>2, <1>3 DEF Placed, NoneTwice
<1>6. NoneTwice'
  BY <1>1, <1>3, <1>4, <1>5 DEF Placed, NoneTwice
<1>7. Located' = Located
  BY <1>3, <1>4 DEF Located
<1>8. ParentsOut' /\ Fresh'
  BY <1>1, <1>2, <1>7, MoveKeeps DEF Placed
<1>9. FramesOut'
  BY <1>1, <1>2 DEF Placed, FramesOut, Walking
<1> QED BY <1>6, <1>8, <1>9, <1>7 DEF Placed

LEMMA TakeInHandKeeps ==
  ASSUME Typed, Control, Paths, Placed,
         NEW t \in Threads, NEW x \in Codes, NEW l \in {"reserve", "send"}, TakeInHand(t, x, l)
  PROVE  Placed' /\ Located' = Located
<1>1. /\ pc[t] = "loop" /\ pc'[t] = l /\ x \in todo[t] /\ hand[t] = NoCode
      /\ \A s \in Threads \ {t} : pc'[s] = pc[s]
      /\ UNCHANGED <<emitted, cur, stack, queue>>
  BY DEF TakeInHand, Control, Unseen, Typed, PcTyped, Goto
<1>2. /\ hand'[t] = x /\ todo'[t] = todo[t] \ {x}
      /\ \A s \in Threads \ {t} : hand'[s] = hand[s] /\ todo'[s] = todo[s]
  BY DEF TakeInHand, Drop, Typed, WalkTyped
<1>3. /\ \A s \in Threads : Front(s)' = Front(s)
      /\ \A s \in Threads \ {t} : Held(s)' = Held(s)
      /\ Held(t)' = {x} /\ Held(t) = {} /\ Front(t) = {}
      /\ Queued' = Queued
  <2>1. \A s \in Threads : Front(s)' = Front(s)
    BY <1>1 DEF Front
  <2>2. \A s \in Threads \ {t} : Held(s)' = Held(s)
    BY <1>2 DEF Held
  <2>3. Held(t)' = {x} /\ Held(t) = {}
    BY <1>1, <1>2, ConstantFacts DEF Held
  <2> QED BY <1>1, <2>1, <2>2, <2>3 DEF Front, Queued
<1>4. \A s \in Threads : Owned(s)' = Owned(s) /\ Ahead(s)' = Ahead(s)
  BY <1>1, <1>2, <1>3 DEF Owned, Ahead
<1>5. \A s \in Threads : todo'[s] \cap (Held(s)' \cup Front(s)') = {}
  BY <1>1, <1>2, <1>3 DEF Placed, NoneTwice
<1>6. NoneTwice'
  BY <1>1, <1>3, <1>4, <1>5 DEF Placed, NoneTwice
<1>7. Located' = Located
  BY <1>3, <1>4 DEF Located
<1>8. ParentsOut' /\ Fresh'
  <2>1. \A w \in Workers : pc'[w] = "preloop" => pc[w] = "preloop" /\ cur'[w] = cur[w]
    BY <1>1
  <2> QED BY <1>1, <1>7, <2>1, MoveKeeps DEF Placed
<1>9. FramesOut'
  BY <1>1 DEF Placed, FramesOut, Walking
<1> QED BY <1>6, <1>8, <1>9, <1>7 DEF Placed

LEMMA SendKeeps ==
  ASSUME Typed, Control, Paths, Placed, NEW t \in Threads, SendHand(t)
  PROVE  Placed' /\ Located' = Located
<1> DEFINE x == hand[t]
           n == Len(queue)
<1>1. /\ pc[t] = "send" /\ pc'[t] = "loop" /\ x \in Codes
      /\ \A s \in Threads \ {t} : pc'[s] = pc[s]
      /\ UNCHANGED <<emitted, todo, cur, stack>>
  BY DEF SendHand, Control, Typed, PcTyped, Goto
<1>2. /\ hand'[t] = NoCode
      /\ \A s \in Threads \ {t} : hand'[s] = hand[s]
  BY DEF SendHand, Typed, WalkTyped
<1>3. /\ n \in Nat /\ Len(queue') = n + 1
      /\ queue'[n + 1] = x
      /\ \A i \in 1 .. n : queue'[i] = queue[i]
  BY <1>1 DEF SendHand, Typed, BalanceTyped
<1>4. Queued' = Queued \cup {x}
  <2>1. \A i \in 1 .. n + 1 : i \in 1 .. n \/ i = n + 1
    BY <1>3
  <2>2. \A i \in 1 .. n : i \in 1 .. n + 1
    BY <1>3
  <2>3. n + 1 \in 1 .. n + 1
    BY <1>3
  <2> QED BY <1>3, <2>1, <2>2, <2>3 DEF Queued
<1>5. /\ Held(t) = {x} /\ Held(t)' = {}
      /\ \A s \in Threads \ {t} : Held(s)' = Held(s)
      /\ \A s \in Threads : Front(s)' = Front(s)
  <2>1. Held(t) = {x} /\ Held(t)' = {}
    BY <1>1, <1>2, ConstantFacts DEF Held
  <2>2. \A s \in Threads \ {t} : Held(s)' = Held(s)
    BY <1>2 DEF Held
  <2>3. \A s \in Threads : Front(s)' = Front(s)
    BY <1>1 DEF Front
  <2> QED BY <2>1, <2>2, <2>3
<1>6. x \notin emitted[t] /\ x \notin todo[t] /\ x \notin Front(t)
  <2>1. Front(t) = {}
    BY <1>1 DEF Front
  <2> QED BY <1>5, <2>1 DEF Placed, NoneTwice, Ahead
<1>7. /\ Owned(t)' = Owned(t) \ {x} /\ x \in Owned(t)
      /\ \A s \in Threads : Ahead(s)' \subseteq Ahead(s)
      /\ \A s \in Threads \ {t} : Owned(s)' = Owned(s)
  BY <1>1, <1>5, <1>6 DEF Owned, Ahead
<1>8. \A s \in Threads : Queued' \cap Owned(s)' = {}
  BY <1>4, <1>7 DEF Placed, NoneTwice
<1>9. x \notin Queued
  BY <1>7 DEF Placed, NoneTwice
<1>10. \A i, j \in 1 .. Len(queue') : queue'[i] = queue'[j] => i = j
  <2>1. \A i \in 1 .. n : queue'[i] \in Queued
    BY <1>3 DEF Queued
  <2>2. \A i \in 1 .. n + 1 : i \in 1 .. n \/ (i = n + 1 /\ queue'[i] = x)
    BY <1>3
  <2>3. \A i, j \in 1 .. n : queue'[i] = queue'[j] => i = j
    BY <1>3 DEF Placed, NoneTwice
  <2> QED BY <1>3, <1>9, <2>1, <2>2, <2>3
<1>11. NoneTwice'
  <2>1. \A s, r \in Threads : s # r => Owned(s)' \cap Owned(r)' = {}
    BY <1>7 DEF Placed, NoneTwice
  <2>2. \A s \in Threads : /\ emitted'[s] \cap Ahead(s)' = {}
                           /\ todo'[s] \cap (Held(s)' \cup Front(s)') = {}
    BY <1>1, <1>5, <1>7 DEF Placed, NoneTwice
  <2> QED BY <1>8, <1>10, <2>1, <2>2 DEF NoneTwice
<1>12. Located' = Located
  BY <1>4, <1>7 DEF Located
<1>13. ParentsOut' /\ Fresh'
  <2>1. \A w \in Workers : pc'[w] = "preloop" => pc[w] = "preloop" /\ cur'[w] = cur[w]
    BY <1>1
  <2> QED BY <1>1, <1>12, <2>1, MoveKeeps DEF Placed
<1>14. FramesOut'
  BY <1>1 DEF Placed, FramesOut, Walking
<1> QED BY <1>11, <1>13, <1>14, <1>12 DEF Placed

LEMMA ReceiveKeeps ==
  ASSUME Typed, Control, Paths, Placed, NEW w \in Workers, Receive(w)
  PROVE  Placed' /\ Located' = Located
<1> DEFINE x == Head(queue)
           n == Len(queue)
<1>1. /\ pc[w] = "recv" /\ pc'[w] = "emit" /\ hand[w] = NoCode
      /\ \A s \in Threads \ {w} : pc'[s] = pc[s]
      /\ UNCHANGED <<emitted, hand, todo>>
  BY DEF Receive, Control, Typed, PcTyped, Goto, outVars
<1>2. /\ cur'[w] = x /\ stack'[w] = {x}
      /\ \A s \in Threads \ {w} : cur'[s] = cur[s] /\ stack'[s] = stack[s]
  BY DEF Receive, Typed, WalkTyped
<1>3. /\ n \in Nat /\ n >= 1 /\ Len(queue') = n - 1 /\ x = queue[1]
      /\ \A i \in 1 .. n - 1 : queue'[i] = queue[i + 1]
  BY DEF Receive, Typed, BalanceTyped
<1>4. Queued' = Queued \ {x} /\ x \in Queued
  <2>1. \A i, j \in 1 .. n : queue[i] = queue[j] => i = j
    BY DEF Placed, NoneTwice
  <2>2. x \in Queued
    BY <1>3 DEF Queued
  <2>3. \A i \in 1 .. n - 1 : i + 1 \in 1 .. n /\ i + 1 # 1
    BY <1>3
  <2>4. \A i \in 1 .. n : i = 1 \/ (i - 1 \in 1 .. n - 1 /\ queue[i] = queue'[i - 1])
    BY <1>3
  <2>5. \A i \in 1 .. n - 1 : queue'[i] \in Queued \ {x}
    BY <1>3, <2>1, <2>3 DEF Queued
  <2>6. Queued' \subseteq Queued \ {x}
    BY <1>3, <2>5 DEF Queued
  <2>7. Queued \ {x} \subseteq Queued'
    <3> SUFFICES ASSUME NEW y \in Queued, y # x PROVE y \in Queued'
      OBVIOUS
    <3>1. PICK i \in 1 .. n : y = queue[i]
      BY <1>3 DEF Queued
    <3>2. i - 1 \in 1 .. n - 1 /\ y = queue'[i - 1]
      BY <1>3, <2>4, <3>1
    <3> QED BY <1>3, <3>2 DEF Queued
  <2> QED BY <2>2, <2>6, <2>7
<1>5. /\ \A s \in Threads : Held(s)' = Held(s)
      /\ Front(w) = {} /\ Front(w)' = {x} /\ Held(w) = {}
      /\ \A s \in Threads \ {w} : Front(s)' = Front(s)
  <2>1. \A s \in Threads : Held(s)' = Held(s)
    BY <1>1 DEF Held
  <2>2. Front(w) = {} /\ Front(w)' = {x} /\ Held(w) = {}
    BY <1>1, <1>2 DEF Front, Held
  <2>3. \A s \in Threads \ {w} : Front(s)' = Front(s)
    BY <1>1, <1>2 DEF Front
  <2> QED BY <2>1, <2>2, <2>3
<1>6. /\ Owned(w)' = Owned(w) \cup {x} /\ Ahead(w)' = Ahead(w) \cup {x}
      /\ \A s \in Threads \ {w} : Owned(s)' = Owned(s) /\ Ahead(s)' = Ahead(s)
  BY <1>1, <1>5 DEF Owned, Ahead
<1>7. \A s \in Threads : x \notin Owned(s)
  BY <1>4 DEF Placed, NoneTwice
<1>8. \A i, j \in 1 .. Len(queue') : queue'[i] = queue'[j] => i = j
  <2> SUFFICES ASSUME NEW i \in 1 .. n - 1, NEW j \in 1 .. n - 1, queue'[i] = queue'[j]
               PROVE  i = j
    BY <1>3
  <2>1. i + 1 \in 1 .. n /\ j + 1 \in 1 .. n /\ queue[i + 1] = queue[j + 1]
    BY <1>3
  <2>2. i + 1 = j + 1
    BY <2>1 DEF Placed, NoneTwice
  <2> QED BY <2>2, <1>3
<1>9. NoneTwice'
  <2>1. \A s, r \in Threads : s # r => Owned(s)' \cap Owned(r)' = {}
    BY <1>6, <1>7 DEF Placed, NoneTwice
  <2>2. \A s \in Threads \ {w} : /\ emitted'[s] \cap Ahead(s)' = {}
                                 /\ todo'[s] \cap (Held(s)' \cup Front(s)') = {}
    BY <1>1, <1>5, <1>6 DEF Placed, NoneTwice
  <2>3. x \notin emitted[w] /\ x \notin todo[w]
    BY <1>7 DEF Owned, Ahead
  <2>4. /\ emitted'[w] \cap Ahead(w)' = {}
        /\ todo'[w] \cap (Held(w)' \cup Front(w)') = {}
    BY <1>1, <1>5, <1>6, <2>3 DEF Placed, NoneTwice
  <2>5. \A s \in Threads : Queued' \cap Owned(s)' = {}
    BY <1>4, <1>6 DEF Placed, NoneTwice
  <2> QED BY <1>8, <2>1, <2>2, <2>4, <2>5 DEF NoneTwice
<1>10. Located' = Located
  BY <1>4, <1>6 DEF Located
<1>11. ParentsOut' /\ Fresh'
  <2>1. \A v \in Workers : pc'[v] = "preloop" => pc[v] = "preloop" /\ cur'[v] = cur[v]
    BY <1>1, <1>2
  <2> QED BY <1>1, <1>10, <2>1, MoveKeeps DEF Placed
<1>12. FramesOut'
  BY <1>1, <1>2 DEF Placed, FramesOut, Walking
<1> QED BY <1>9, <1>11, <1>12, <1>10 DEF Placed

LEMMA PlacedStep == Typed /\ Control /\ Paths /\ Placed /\ [Next]_vars => Placed'
<1> SUFFICES ASSUME Typed, Control, Paths, Placed, [Next]_vars PROVE Placed'
  OBVIOUS
<1>1. CASE Stays
  BY <1>1, QuietKeeps DEF Stays
<1>2. CASE Emits
  BY <1>2, EmitKeeps DEF Emits
<1>3. CASE Generates
  BY <1>3, GenerateKeeps DEF Generates
<1>4. CASE RollsBack
  BY <1>4, RollBackKeeps DEF RollsBack
<1>5. CASE Receives
  BY <1>5, ReceiveKeeps DEF Receives
<1>6. CASE TakesUp
  BY <1>6, TakeUpKeeps DEF TakesUp
<1>7. CASE TakesInHand
  BY <1>7, TakeInHandKeeps DEF TakesInHand
<1>8. CASE Sends
  BY <1>8, SendKeeps DEF Sends
<1> QED BY <1>1, <1>2, <1>3, <1>4, <1>5, <1>6, <1>7, <1>8, Kinds DEF Kind

LEMMA PlacedInvariant == Spec => []Placed
<1>1. Inv => Typed /\ Control /\ Paths
  BY DEF Inv
<1> QED BY <1>1, PlacedInit, PlacedStep, InvInvariant, PTL DEF Spec

(***************************************************************************)
(* No class is output twice, by one thread or by two, whichever child is   *)
(* donated, refused, taken back or skipped.                                *)
(***************************************************************************)
THEOREM EmittedOnceCorrect == Spec => []EmittedOnce
<1>1. Placed => EmittedOnce
  BY DEF Placed, NoneTwice, EmittedOnce, Emitted, Owned, Ahead, Front
<1> QED BY <1>1, PlacedInvariant, PTL

-----------------------------------------------------------------------------
(***************************************************************************)
(* Masses of sets of classes.                                              *)
(***************************************************************************)

LEMMA MassEmpty == Mass[{}] = 0
<1> DEFINE Nothing == {}
<1>1. Nothing \cup Nothing = Nothing /\ Nothing \cap Nothing = {} /\ Nothing \in SUBSET Codes
  OBVIOUS
<1>2. Mass[Nothing \cup Nothing] = Mass[Nothing] + Mass[Nothing] /\ Mass[Nothing] \in Nat
  <2> HIDE DEF Nothing
  <2> QED BY <1>1, MassAssumption
<1>3. Mass[Nothing] = Mass[Nothing] + Mass[Nothing]
  <2> HIDE DEF Nothing
  <2> QED BY <1>1, <1>2
<1>4. \A m \in Nat : m = m + m => m = 0
  OBVIOUS
<1>5. Mass[Nothing] = 0
  <2> HIDE DEF Nothing
  <2> QED BY <1>2, <1>3, <1>4
<1> QED BY <1>5

LEMMA MassJoin ==
  ASSUME NEW S \in SUBSET Codes, NEW T \in SUBSET Codes, S \cap T = {}, NEW k \in Ranks
  PROVE  /\ Mass[OfRank(S \cup T, k)] = Mass[OfRank(S, k)] + Mass[OfRank(T, k)]
         /\ Mass[OfRank(S, k)] \in Nat /\ Mass[OfRank(T, k)] \in Nat
<1>1. /\ OfRank(S, k) \in SUBSET Codes /\ OfRank(T, k) \in SUBSET Codes
      /\ OfRank(S, k) \cap OfRank(T, k) = {}
      /\ OfRank(S \cup T, k) = OfRank(S, k) \cup OfRank(T, k)
  BY DEF OfRank
<1> QED BY <1>1, MassAssumption

LEMMA MassOne ==
  ASSUME NEW c \in Codes, NEW k \in Ranks
  PROVE  Mass[OfRank({c}, k)] = IF Rank[c] = k THEN Contribution(c) ELSE 0
<1>1. OfRank({c}, k) = IF Rank[c] = k THEN {c} ELSE {}
  BY DEF OfRank
<1> QED BY <1>1, MassEmpty DEF Contribution

(* A set with the whole mass of a rank holds all of its classes. *)
LEMMA MassFull ==
  ASSUME NEW S \in SUBSET Codes, NEW k \in Ranks, Mass[OfRank(S, k)] >= Quota[k]
  PROVE  OfRank(Codes, k) \subseteq S
<1> SUFFICES ASSUME NEW c \in Codes, Rank[c] = k, c \notin S PROVE FALSE
  BY DEF OfRank
<1> DEFINE T == Codes \ (S \cup {c})
<1>1. Mass[OfRank(S \cup {c}, k)] = Mass[OfRank(S, k)] + Mass[OfRank({c}, k)]
  <2>1. {c} \in SUBSET Codes /\ S \cap {c} = {}
    OBVIOUS
  <2> QED BY <2>1, MassJoin, Zenon
<1>2. Mass[OfRank((S \cup {c}) \cup T, k)] = Mass[OfRank(S \cup {c}, k)] + Mass[OfRank(T, k)]
  <2> DEFINE U == S \cup {c}
  <2>1. U \in SUBSET Codes /\ T \in SUBSET Codes /\ U \cap T = {}
    OBVIOUS
  <2>2. Mass[OfRank(U \cup T, k)] = Mass[OfRank(U, k)] + Mass[OfRank(T, k)]
    <3> HIDE DEF U, T
    <3> QED BY <2>1, MassJoin, Zenon
  <2> QED BY <2>2
<1>3. (S \cup {c}) \cup T = Codes
  OBVIOUS
<1>4. Mass[OfRank({c}, k)] = Mass[{c}] /\ Mass[{c}] > 0
  BY MassOne, MassAssumption DEF Contribution
<1>5. Mass[OfRank(S, k)] \in Nat /\ Mass[OfRank(T, k)] \in Nat /\ Mass[{c}] \in Nat
  BY MassAssumption DEF OfRank
<1>6. Quota[k] = Mass[OfRank(Codes, k)]
  BY DEF Quota
<1>7. Mass[OfRank(Codes, k)] = (Mass[OfRank(S, k)] + Mass[{c}]) + Mass[OfRank(T, k)]
  BY <1>1, <1>2, <1>3, <1>4
<1> QED BY <1>4, <1>5, <1>6, <1>7

-----------------------------------------------------------------------------
(***************************************************************************)
(* The tracker and the threads' buffers.                                   *)
(***************************************************************************)

FlushedOut == \A t \in Threads : flushed[t] \subseteq emitted[t]

AllFlushed == UNION {flushed[t] : t \in Threads}

(* A flag never precedes the mass that justifies it. *)
FullIsReached == \A k \in Ranks : full[k] => mass[k] >= Quota[k]

Tally == FlushedOut /\ MassConserved /\ FullIsReached

Flushes == \E t \in Threads : Flush(t) /\ UNCHANGED emitted

LEMMA TallyKinds == [Next]_vars => Emits \/ Flushes \/ UNCHANGED <<massVars, emitted>>
<1> SUFFICES ASSUME [Next]_vars PROVE Emits \/ Flushes \/ UNCHANGED <<massVars, emitted>>
  OBVIOUS
<1> DEFINE Same == UNCHANGED <<massVars, emitted>>
<1> USE DEF walkVars, balanceVars, massVars, outVars
<1>1. ASSUME NEW w \in Workers, WorkerLoop(w) PROVE Flushes \/ Same
  <2>1. FlushWorker(w) => Flushes
    BY DEF FlushWorker, Flushes
  <2> QED
    BY <1>1, <2>1 DEF WorkerLoop, BecomeIdle, Receive, Timeout, ReadSeederDone, ReadOutstanding,
       Disconnected, ReleaseSeed, SendResult
<1>2. ASSUME NEW w \in Workers, WorkerTraverse(w) PROVE Same
  BY <1>2 DEF WorkerTraverse, StopBeforeLoop, GenerateCandidates, StopInLoop, RecurseIntoChild,
     OfferChild, DonateChild, DonationRefused, RollBack
<1>3. ASSUME NEW t \in Threads, Walk(t) PROVE Emits \/ Same
  BY <1>3 DEF Walk, RejectCandidate, Reserve, LoopDone, ReturnToLoop, ReturnFromSeed, Emits
<1>4. ASSUME MainStep PROVE Emits \/ Flushes \/ Same
  <2>1. FlushSeeder => Flushes
    BY DEF FlushSeeder, Flushes
  <2>2. Walk(Main) => Emits \/ Same
    BY <1>3
  <2> QED
    BY <1>4, <2>1, <2>2 DEF MainStep, SeederRecurse, SeederOffer, SendSeed, SendFails,
       FinishSeeding, CollectResult, CollectFails, MassGate
<1>5. ASSUME NEW t \in Threads, WriterFails(t) PROVE Same
  BY <1>5 DEF WriterFails
<1>6. UNCHANGED vars => Same
  BY DEF vars
<1>7. ASSUME NEW w \in Workers, WorkerStep(w) PROVE Emits \/ Flushes \/ Same
  BY <1>1, <1>2, <1>3, <1>7 DEF WorkerStep
<1> QED BY <1>4, <1>5, <1>6, <1>7 DEF Next, Ended

(***************************************************************************)
(* A batch with the mass of the set B, put into the tracker by thread t.   *)
(***************************************************************************)
LEMMA BatchKeeps ==
  ASSUME Typed, MassConserved, FullIsReached, NEW t \in Threads,
         NEW deltas \in [Ranks -> Nat], AddBatch(deltas),
         NEW B \in SUBSET Codes, B \cap AllFlushed = {},
         \A k \in Ranks : deltas[k] = Mass[OfRank(B, k)],
         AllFlushed' = AllFlushed \cup B
  PROVE  /\ \A k \in Ranks : mass'[k] = Mass[OfRank(AllFlushed', k)]
         /\ FullIsReached'
<1>1. AllFlushed \in SUBSET Codes
  BY DEF Typed, MassTyped, AllFlushed
<1>2. \A k \in Ranks : /\ mass'[k] = mass[k] + deltas[k]
                       /\ full'[k] => full[k] \/ mass'[k] >= Quota[k]
                       /\ mass[k] \in Nat /\ deltas[k] \in Nat
  BY DEF AddBatch, Typed, MassTyped
<1>3. \A k \in Ranks : mass[k] = Mass[OfRank(AllFlushed, k)]
  BY DEF MassConserved, AllFlushed
<1>4. \A k \in Ranks :
        Mass[OfRank(AllFlushed \cup B, k)] = Mass[OfRank(AllFlushed, k)] + Mass[OfRank(B, k)]
  BY <1>1, MassJoin
<1>5. FullIsReached'
  BY <1>2, ConstantFacts DEF FullIsReached
<1> QED BY <1>2, <1>3, <1>4, <1>5

LEMMA FlushKeeps ==
  ASSUME Typed, Placed, Tally, NEW t \in Threads, Flush(t), UNCHANGED emitted
  PROVE  Tally'
<1> DEFINE B == emitted[t] \ flushed[t]
<1>1. /\ flushed'[t] = emitted[t] /\ pending'[t] = NoMass
      /\ \A s \in Threads \ {t} : flushed'[s] = flushed[s] /\ pending'[s] = pending[s]
  BY DEF Flush, Typed, MassTyped
<1>2. FlushedOut'
  BY <1>1 DEF Tally, FlushedOut
<1>3. AllFlushed' = AllFlushed \cup B
  BY <1>1 DEF Tally, FlushedOut, AllFlushed
<1>4. B \cap AllFlushed = {}
  BY DEF Tally, FlushedOut, AllFlushed, Placed, NoneTwice, Owned
<1>5. B \in SUBSET Codes /\ pending[t] \in [Ranks -> Nat]
  BY DEF Typed, OutTyped, MassTyped
<1>6. \A k \in Ranks : pending[t][k] = Mass[OfRank(B, k)]
  BY DEF Tally, MassConserved
<1>7. (\A k \in Ranks : mass'[k] = Mass[OfRank(AllFlushed', k)]) /\ FullIsReached'
  <2>1. AddBatch(pending[t])
    BY DEF Flush
  <2> QED BY <1>3, <1>4, <1>5, <1>6, <2>1, BatchKeeps DEF Tally
<1>8. \A s \in Threads, k \in Ranks : pending'[s][k] = Mass[OfRank(emitted'[s] \ flushed'[s], k)]
  <2> SUFFICES ASSUME NEW s \in Threads, NEW k \in Ranks
               PROVE  pending'[s][k] = Mass[OfRank(emitted[s] \ flushed'[s], k)]
    OBVIOUS
  <2>1. CASE s = t
    <3>1. OfRank(emitted[s] \ flushed'[s], k) = {}
      BY <1>1, <2>1 DEF OfRank
    <3> QED BY <1>1, <2>1, <3>1, MassEmpty DEF NoMass
  <2>2. CASE s # t
    BY <1>1, <2>2 DEF Tally, MassConserved
  <2> QED BY <2>1, <2>2
<1> QED BY <1>2, <1>7, <1>8 DEF Tally, MassConserved, AllFlushed

LEMMA EmitTally ==
  ASSUME Typed, Control, Placed, Tally, NEW t \in Threads, Emit(t)
  PROVE  Tally'
<1> DEFINE c == cur[t]
           buffer == [pending[t] EXCEPT ![Rank[c]] = @ + Contribution(c)]
           B == (emitted[t] \ flushed[t]) \cup {c}
<1>1. /\ c \in Codes /\ pc[t] = "emit" /\ Contribute(t, c)
      /\ emitted'[t] = emitted[t] \cup {c}
      /\ \A s \in Threads \ {t} : emitted'[s] = emitted[s]
  BY DEF Emit, Output, Control, Walking, Typed, OutTyped
<1>2. \A s \in Threads : c \notin emitted[s]
  BY <1>1 DEF Placed, NoneTwice, Owned, Ahead, Front
<1>3. B \in SUBSET Codes /\ pending[t] \in [Ranks -> Nat] /\ emitted[t] \ flushed[t] \in SUBSET Codes
  BY <1>1 DEF Typed, OutTyped, MassTyped
<1>4. Contribution(c) \in Nat /\ Rank[c] \in Ranks
  BY <1>1, ConstantFacts
<1>5. buffer \in [Ranks -> Nat]
  BY <1>3, <1>4
<1>6. \A k \in Ranks : buffer[k] = Mass[OfRank(B, k)]
  <2> SUFFICES ASSUME NEW k \in Ranks PROVE buffer[k] = Mass[OfRank(B, k)]
    OBVIOUS
  <2>1. pending[t][k] = Mass[OfRank(emitted[t] \ flushed[t], k)] /\ pending[t][k] \in Nat
    BY <1>3 DEF Tally, MassConserved
  <2>2. {c} \in SUBSET Codes /\ (emitted[t] \ flushed[t]) \cap {c} = {}
    BY <1>1, <1>2
  <2>3. Mass[OfRank(B, k)] = Mass[OfRank(emitted[t] \ flushed[t], k)] + Mass[OfRank({c}, k)]
    BY <1>3, <2>2, MassJoin, Zenon
  <2>4. Mass[OfRank({c}, k)] = IF Rank[c] = k THEN Contribution(c) ELSE 0
    BY <1>1, MassOne
  <2> HIDE DEF B
  <2> QED BY <1>3, <1>4, <2>1, <2>3, <2>4
<1>7. CASE sinceFlush[t] + 1 >= FlushInterval
  <2>1. /\ AddBatch(buffer)
        /\ flushed'[t] = emitted[t] \cup {c} /\ pending'[t] = NoMass
        /\ \A s \in Threads \ {t} : flushed'[s] = flushed[s] /\ pending'[s] = pending[s]
    BY <1>1, <1>7 DEF Contribute, Typed, MassTyped
  <2>2. FlushedOut'
    BY <1>1, <2>1 DEF Tally, FlushedOut
  <2>3. AllFlushed' = AllFlushed \cup B
    BY <1>1, <2>1 DEF Tally, FlushedOut, AllFlushed
  <2>4. B \cap AllFlushed = {}
    BY <1>2 DEF Tally, FlushedOut, AllFlushed, Placed, NoneTwice, Owned
  <2>5. (\A k \in Ranks : mass'[k] = Mass[OfRank(AllFlushed', k)]) /\ FullIsReached'
    <3> HIDE DEF B, buffer
    <3> QED BY <1>3, <1>5, <1>6, <2>1, <2>3, <2>4, BatchKeeps DEF Tally
  <2>6. \A s \in Threads, k \in Ranks : pending'[s][k] = Mass[OfRank(emitted'[s] \ flushed'[s], k)]
    <3> SUFFICES ASSUME NEW s \in Threads, NEW k \in Ranks
                 PROVE  pending'[s][k] = Mass[OfRank(emitted'[s] \ flushed'[s], k)]
      OBVIOUS
    <3>1. CASE s = t
      <4>1. OfRank(emitted'[s] \ flushed'[s], k) = {}
        BY <1>1, <2>1, <3>1 DEF OfRank
      <4>2. pending'[s][k] = 0
        BY <2>1, <3>1 DEF NoMass
      <4> QED BY <4>1, <4>2, MassEmpty
    <3>2. CASE s # t
      BY <1>1, <2>1, <3>2 DEF Tally, MassConserved
    <3> QED BY <3>1, <3>2
  <2> QED BY <2>2, <2>5, <2>6 DEF Tally, MassConserved, AllFlushed
<1>8. CASE ~(sinceFlush[t] + 1 >= FlushInterval)
  <2>1. /\ UNCHANGED <<mass, full, flushed>> /\ pending'[t] = buffer
        /\ \A s \in Threads \ {t} : pending'[s] = pending[s]
    BY <1>1, <1>8 DEF Contribute, Typed, MassTyped
  <2>2. FlushedOut'
    BY <1>1, <2>1 DEF Tally, FlushedOut
  <2>3. \A k \in Ranks : mass'[k] = Mass[OfRank(UNION {flushed'[s] : s \in Threads}, k)]
    BY <2>1 DEF Tally, MassConserved
  <2>4. emitted'[t] \ flushed'[t] = B
    BY <1>1, <1>2, <2>1 DEF Tally, FlushedOut
  <2>5. \A s \in Threads, k \in Ranks : pending'[s][k] = Mass[OfRank(emitted'[s] \ flushed'[s], k)]
    <3> SUFFICES ASSUME NEW s \in Threads, NEW k \in Ranks
                 PROVE  pending'[s][k] = Mass[OfRank(emitted'[s] \ flushed'[s], k)]
      OBVIOUS
    <3> HIDE DEF B, buffer
    <3>1. CASE s = t
      BY <1>6, <2>1, <2>4, <3>1
    <3>2. CASE s # t
      BY <1>1, <2>1, <3>2 DEF Tally, MassConserved
    <3> QED BY <3>1, <3>2
  <2> QED BY <2>1, <2>2, <2>3, <2>5 DEF Tally, MassConserved, FullIsReached
<1> QED BY <1>7, <1>8

LEMMA TallyInit == Init => Tally
<1> SUFFICES ASSUME Init PROVE Tally
  OBVIOUS
<1>1. /\ \A t \in Threads : flushed[t] = {} /\ emitted[t] = {} /\ pending[t] = NoMass
      /\ mass = NoMass
  BY DEF Init
<1>2. \A k : OfRank({}, k) = {}
  BY DEF OfRank
<1>3. UNION {flushed[t] : t \in Threads} = {}
  BY <1>1
<1>4. MassConserved
  <2>1. \A k \in Ranks : NoMass[k] = 0
    BY DEF NoMass
  <2>2. \A k \in Ranks : mass[k] = Mass[OfRank(UNION {flushed[t] : t \in Threads}, k)]
    BY <1>1, <1>2, <1>3, <2>1, MassEmpty
  <2>3. \A t \in Threads : emitted[t] \ flushed[t] = {}
    BY <1>1
  <2>4. \A t \in Threads, k \in Ranks : pending[t][k] = Mass[OfRank(emitted[t] \ flushed[t], k)]
    BY <1>1, <1>2, <2>1, <2>3, MassEmpty
  <2> QED BY <2>2, <2>4 DEF MassConserved
<1>5. FullIsReached
  <2> SUFFICES ASSUME NEW k \in Ranks, full[k] PROVE mass[k] >= Quota[k]
    BY DEF FullIsReached
  <2>1. full[k] = (Quota[k] = 0)
    BY DEF Init
  <2>2. Quota[k] = 0
    BY <2>1, Zenon
  <2> QED BY <1>1, <2>2 DEF NoMass
<1> QED BY <1>1, <1>4, <1>5 DEF Tally, FlushedOut

LEMMA TallyStep == Typed /\ Control /\ Placed /\ Tally /\ [Next]_vars => Tally'
<1> SUFFICES ASSUME Typed, Control, Placed, Tally, [Next]_vars PROVE Tally'
  OBVIOUS
<1>1. CASE Emits
  BY <1>1, EmitTally DEF Emits
<1>2. CASE Flushes
  BY <1>2, FlushKeeps DEF Flushes
<1>3. CASE UNCHANGED <<massVars, emitted>>
  <2>1. /\ UNCHANGED mass /\ UNCHANGED full /\ UNCHANGED pending
        /\ UNCHANGED flushed /\ UNCHANGED emitted
    BY <1>3 DEF massVars
  <2>2. FlushedOut' /\ FullIsReached'
    BY <2>1 DEF Tally, FlushedOut, FullIsReached
  <2>3. MassConserved'
    <3> DEFINE Counted(m, f, e, p) ==
          /\ \A k \in Ranks : m[k] = Mass[OfRank(UNION {f[t] : t \in Threads}, k)]
          /\ \A t \in Threads, k \in Ranks : p[t][k] = Mass[OfRank(e[t] \ f[t], k)]
    <3>1. Counted(mass, flushed, emitted, pending)
      BY DEF Tally, MassConserved
    <3>2. Counted(mass', flushed', emitted', pending')
      <4> HIDE DEF Counted
      <4> QED BY <2>1, <3>1
    <3> QED BY <3>2 DEF MassConserved
  <2> QED BY <2>2, <2>3 DEF Tally
<1> QED BY <1>1, <1>2, <1>3, TallyKinds

LEMMA TallyInvariant == Spec => []Tally
<1>1. Inv => Typed /\ Control
  BY DEF Inv
<1> QED BY <1>1, TallyInit, TallyStep, InvInvariant, PlacedInvariant, PTL DEF Spec

(***************************************************************************)
(* Batching loses and repeats no mass, for every flush interval and        *)
(* whichever thread flushes when.                                          *)
(***************************************************************************)
THEOREM MassConservedCorrect == Spec => []MassConserved
<1>1. Tally => MassConserved
  BY DEF Tally
<1> QED BY <1>1, TallyInvariant, PTL

(***************************************************************************)
(* A rank is flagged full only when each of its classes is in an output:   *)
(* the mass-stop never skips a class, however stale the flag it reads.     *)
(***************************************************************************)
THEOREM FullMeansAllEmittedCorrect == Spec => []FullMeansAllEmitted
<1>1. Typed /\ Tally => FullMeansAllEmitted
  <2> SUFFICES ASSUME Typed, Tally, NEW k \in Ranks, full[k]
               PROVE  OfRank(Codes, k) \subseteq Emitted
    BY DEF FullMeansAllEmitted
  <2>1. AllFlushed \in SUBSET Codes
    BY DEF Typed, MassTyped, AllFlushed
  <2>2. Mass[OfRank(AllFlushed, k)] >= Quota[k]
    BY DEF Tally, FullIsReached, MassConserved, AllFlushed
  <2>3. OfRank(Codes, k) \subseteq AllFlushed
    BY <2>1, <2>2, MassFull
  <2> QED BY <2>3 DEF Tally, FlushedOut, AllFlushed, Emitted
<1>2. Inv => Typed
  BY DEF Inv
<1> QED BY <1>1, <1>2, InvInvariant, TallyInvariant, PTL

-----------------------------------------------------------------------------
(***************************************************************************)
(* The rest of a thread's work: candidates are left only in frames of the  *)
(* thread, and a frame that returns has none.                              *)
(***************************************************************************)

Behind(t) ==
  /\ pc[t] # "panicked" => \A x \in todo[t] : pc[t] \in Walking /\ Parent[x] \in stack[t]
  /\ pc[t] = "return" => Unseen(t) = {}

Backlog == \A t \in Threads : Behind(t)

(* Thread t is the one that acts. *)
Acts(t) ==
  /\ pc[t] # "panicked"
  /\ \A s \in Threads \ {t} : /\ pc'[s] = pc[s] /\ todo'[s] = todo[s]
                              /\ stack'[s] = stack[s] /\ cur'[s] = cur[s]

(* It stays in its frames, or outside any. *)
Proceeds(t) ==
  /\ todo'[t] \subseteq todo[t]
  /\ pc'[t] # "return"
  /\ pc[t] \in Walking => /\ pc'[t] \in Walking \cup {"panicked"}
                          /\ stack[t] \subseteq stack'[t]

(* One step of thread t, by what it does to the thread's frames. *)
Turn(t) ==
  /\ Acts(t)
  /\ \/ Proceeds(t)
     \/ Emit(t)
     \/ t \in Workers /\ GenerateCandidates(t)
     \/ t \in Workers /\ (StopBeforeLoop(t) \/ StopInLoop(t))
     \/ LoopDone(t) \/ ReturnToLoop(t) \/ ReturnFromSeed(t)

LEMMA WalkTurn == ASSUME Typed, NEW t \in Threads, Walk(t) PROVE Turn(t)
<1> USE ConstantFacts DEF Goto, walkVars, Typed, PcTyped, WalkTyped
<1>1. CASE Emit(t)
  BY <1>1 DEF Emit, Turn, Acts
<1>2. CASE RejectCandidate(t)
  BY <1>2 DEF RejectCandidate, Drop, Turn, Acts, Proceeds
<1>3. CASE Reserve(t)
  BY <1>3 DEF Reserve, Turn, Acts, Proceeds, Walking
<1>4. CASE LoopDone(t)
  BY <1>4 DEF LoopDone, Turn, Acts
<1>5. CASE ReturnToLoop(t)
  BY <1>5 DEF ReturnToLoop, Turn, Acts
<1>6. CASE ReturnFromSeed(t)
  BY <1>6 DEF ReturnFromSeed, Turn, Acts
<1> QED BY <1>1, <1>2, <1>3, <1>4, <1>5, <1>6 DEF Walk

LEMMA LoopTurn == ASSUME Typed, NEW w \in Workers, WorkerLoop(w) PROVE Turn(w)
<1> USE ConstantFacts DEF Goto, walkVars, Typed, PcTyped, WalkTyped
<1>1. CASE BecomeIdle(w) \/ Receive(w)
  BY <1>1 DEF BecomeIdle, Receive, Turn, Acts, Proceeds, Walking
<1>2. CASE Timeout(w) \/ ReadSeederDone(w) \/ ReadOutstanding(w)
  BY <1>2 DEF Timeout, ReadSeederDone, ReadOutstanding, Turn, Acts, Proceeds, Walking
<1>3. CASE Disconnected(w) \/ ReleaseSeed(w)
  BY <1>3 DEF Disconnected, ReleaseSeed, Turn, Acts, Proceeds, Walking
<1>4. CASE FlushWorker(w) \/ SendResult(w)
  BY <1>4 DEF FlushWorker, SendResult, Turn, Acts, Proceeds, Walking
<1> QED BY <1>1, <1>2, <1>3, <1>4 DEF WorkerLoop

LEMMA TraverseTurn == ASSUME Typed, NEW w \in Workers, WorkerTraverse(w) PROVE Turn(w)
<1> USE ConstantFacts DEF Goto, walkVars, Typed, PcTyped, WalkTyped
<1>1. CASE StopBeforeLoop(w)
  BY <1>1 DEF StopBeforeLoop, Turn, Acts
<1>2. CASE GenerateCandidates(w)
  BY <1>2 DEF GenerateCandidates, Turn, Acts
<1>3. CASE StopInLoop(w)
  BY <1>3 DEF StopInLoop, Drop, Turn, Acts
<1>4. CASE RecurseIntoChild(w)
  BY <1>4 DEF RecurseIntoChild, Drop, Push, Turn, Acts, Proceeds, Walking
<1>5. CASE OfferChild(w)
  BY <1>5 DEF OfferChild, Drop, Turn, Acts, Proceeds, Walking
<1>6. CASE DonateChild(w) \/ DonationRefused(w)
  BY <1>6 DEF DonateChild, DonationRefused, Turn, Acts, Proceeds, Walking
<1>7. CASE RollBack(w)
  BY <1>7 DEF RollBack, Push, Turn, Acts, Proceeds, Walking
<1> QED BY <1>1, <1>2, <1>3, <1>4, <1>5, <1>6, <1>7 DEF WorkerTraverse

LEMMA MainTurn == ASSUME Typed, MainStep PROVE Turn(Main)
<1> USE ConstantFacts DEF Goto, walkVars, Typed, PcTyped, WalkTyped
<1>1. CASE SeederRecurse
  BY <1>1 DEF SeederRecurse, Drop, Push, Turn, Acts, Proceeds, Walking
<1>2. CASE SeederOffer
  BY <1>2 DEF SeederOffer, Drop, Turn, Acts, Proceeds, Walking
<1>3. CASE SendSeed \/ SendFails
  BY <1>3 DEF SendSeed, SendFails, Turn, Acts, Proceeds, Walking
<1>4. CASE FlushSeeder \/ FinishSeeding
  BY <1>4 DEF FlushSeeder, FinishSeeding, Turn, Acts, Proceeds, Walking
<1>5. CASE CollectResult \/ CollectFails \/ MassGate
  BY <1>5 DEF CollectResult, CollectFails, MassGate, Turn, Acts, Proceeds, Walking
<1> HIDE ConstantFacts DEF Goto, walkVars, Typed, PcTyped, WalkTyped
<1>6. Main \in Threads
  OBVIOUS
<1> QED BY <1>1, <1>2, <1>3, <1>4, <1>5, <1>6, WalkTurn DEF MainStep

LEMMA EveryTurn ==
  ASSUME Typed, [Next]_vars
  PROVE  UNCHANGED vars \/ \E t \in Threads : Turn(t)
<1>1. ASSUME NEW t \in Threads, WriterFails(t) PROVE Turn(t)
  BY <1>1 DEF WriterFails, Goto, walkVars, Typed, PcTyped, Turn, Acts, Proceeds
<1>2. ASSUME NEW w \in Workers, WorkerStep(w) PROVE Turn(w)
  BY <1>2, LoopTurn, TraverseTurn, WalkTurn DEF WorkerStep
<1> QED BY <1>1, <1>2, MainTurn DEF Next, Ended

LEMMA BacklogStep ==
  ASSUME Typed, Control, Paths, Placed, Backlog, [Next]_vars
  PROVE  Backlog'
<1> SUFFICES ASSUME NEW t \in Threads, Turn(t) PROVE Backlog'
  <2>1. UNCHANGED vars => Backlog'
    BY DEF vars, walkVars, Backlog, Behind, Unseen
  <2> QED BY <2>1, EveryTurn
<1> USE ConstantFacts DEF Goto, walkVars, Typed, PcTyped, WalkTyped
<1>1. \A s \in Threads \ {t} : Behind(s)'
  BY DEF Turn, Acts, Backlog, Behind, Unseen
<1>2. Behind(t)
  BY DEF Backlog
<1>3. CASE Proceeds(t)
  <2>1. pc[t] # "panicked"
    BY DEF Turn, Acts
  <2> QED BY <1>1, <1>2, <1>3, <2>1 DEF Proceeds, Backlog, Behind, Walking
<1>4. CASE Emit(t)
  <2>1. /\ pc[t] = "emit" /\ cur[t] \in Codes /\ cur[t] \notin Emitted
    BY <1>4 DEF Emit, Control, Walking, Placed, NoneTwice, Owned, Ahead, Front, Emitted
  <2>2. UNCHANGED <<stack, cur>> /\ pc'[t] \in Walking
    BY <1>4 DEF Emit, Walking
  <2>3. \A x \in todo[t] : x # Root /\ Parent[x] \in Emitted /\ Parent[x] \in stack[t]
    <3>1. \A x \in todo[t] : x # Root /\ x \in Located
      BY DEF Located, Owned, Ahead
    <3> QED BY <1>2, <2>1, <3>1 DEF Behind, Placed, ParentsOut
  <2>4. cur[t] \in stack[t]
    BY <2>1 DEF Control, Paths, Path, Walking
  <2>5. \A x \in todo'[t] : x \in todo[t] \/ Parent[x] = cur[t]
    BY <1>4 DEF Emit, Candidates
  <2>6. pc'[t] = "return" => todo'[t] = todo[t]
    BY <1>4 DEF Emit
  <2>7. Behind(t)'
    BY <2>1, <2>2, <2>3, <2>4, <2>5, <2>6 DEF Behind, Unseen
  <2> QED BY <1>1, <2>7 DEF Backlog
<1>5. CASE t \in Workers /\ GenerateCandidates(t)
  <2>1. pc[t] = "preloop" /\ pc'[t] = "loop" /\ UNCHANGED <<stack, cur>> /\ cur[t] \in Codes
    BY <1>5 DEF GenerateCandidates, Control, Walking
  <2>2. cur[t] \in stack[t]
    BY <2>1 DEF Control, Paths, Path, Walking
  <2>3. \A x \in todo'[t] : x \in todo[t] \/ Parent[x] = cur[t]
    BY <1>5 DEF GenerateCandidates, Candidates
  <2>4. Behind(t)'
    BY <1>2, <2>1, <2>2, <2>3 DEF Behind, Unseen, Walking
  <2> QED BY <1>1, <2>4 DEF Backlog
<1>6. CASE t \in Workers /\ StopBeforeLoop(t)
  <2>1. pc[t] = "preloop" /\ pc'[t] = "return" /\ UNCHANGED <<todo, stack, cur>>
    BY <1>6 DEF StopBeforeLoop
  <2>2. \A x \in todo[t] : x # Root /\ x \in Located
    BY DEF Located, Owned, Ahead
  <2>3. Unseen(t) = {}
    BY <1>6, <2>1, <2>2 DEF Unseen, Placed, Fresh
  <2> QED BY <1>1, <1>2, <2>1, <2>3 DEF Backlog, Behind, Unseen, Walking
<1>7. CASE t \in Workers /\ StopInLoop(t)
  <2>1. /\ pc[t] = "loop" /\ pc'[t] = "return" /\ UNCHANGED <<stack, cur>>
        /\ todo'[t] = todo[t] \ Unseen(t)
    BY <1>7 DEF StopInLoop, Drop
  <2>2. Unseen(t)' = {}
    BY <2>1 DEF Unseen
  <2> QED BY <1>1, <1>2, <2>1, <2>2 DEF Backlog, Behind, Walking
<1>8. CASE LoopDone(t)
  <2>1. pc[t] = "loop" /\ pc'[t] = "return" /\ Unseen(t) = {} /\ UNCHANGED <<todo, stack, cur>>
    BY <1>8 DEF LoopDone
  <2>2. Unseen(t)' = {}
    BY <2>1 DEF Unseen
  <2> QED BY <1>1, <1>2, <2>1, <2>2 DEF Backlog, Behind, Walking
<1>9. CASE ReturnToLoop(t)
  <2>1. /\ pc[t] = "return" /\ pc'[t] = "loop" /\ UNCHANGED todo
        /\ stack'[t] = stack[t] \ {cur[t]}
    BY <1>9 DEF ReturnToLoop
  <2>2. \A x \in todo[t] : Parent[x] \in stack[t] /\ Parent[x] # cur[t]
    BY <1>2, <2>1 DEF Behind, Unseen
  <2> QED BY <1>1, <2>1, <2>2 DEF Backlog, Behind, Walking
<1>10. CASE ReturnFromSeed(t)
  <2>1. /\ pc[t] = "return" /\ pc'[t] # "return" /\ UNCHANGED todo /\ cur[t] = seed[t]
    BY <1>10 DEF ReturnFromSeed
  <2>2. stack[t] = {cur[t]}
    <3>1. cur[t] \in Codes /\ stack[t] \in SUBSET Codes /\ stack[t] \in Path[cur[t]][cur[t]]
      BY <2>1 DEF Control, Paths, Walking
    <3> QED BY <3>1, PathEnd
  <2>3. todo[t] = {}
    BY <1>2, <2>1, <2>2 DEF Behind, Unseen
  <2> QED BY <1>1, <2>1, <2>3 DEF Backlog, Behind
<1> QED BY <1>3, <1>4, <1>5, <1>6, <1>7, <1>8, <1>9, <1>10 DEF Turn

LEMMA BacklogInvariant == Spec => []Backlog
<1>1. Init => Backlog
  BY DEF Init, Backlog, Behind, Unseen, LoopTop
<1>2. Inv /\ Placed /\ Backlog /\ [Next]_vars => Backlog'
  BY BacklogStep DEF Inv
<1> QED BY <1>1, <1>2, InvInvariant, PlacedInvariant, PTL DEF Spec

-----------------------------------------------------------------------------
(***************************************************************************)
(* Nothing is lost while no thread has panicked: once a class is out, each *)
(* of its children is somewhere, or about to be generated.                 *)
(***************************************************************************)

Awaited(x) == \E w \in Workers : pc[w] = "preloop" /\ cur[w] = Parent[x]

Covered ==
  Live => /\ Root \in Located
          /\ \A x \in Codes \ {Root} : Parent[x] \in Emitted => x \in Located \/ Awaited(x)

LEMMA LiveBefore == ASSUME Typed, [Next]_vars, Live' PROVE Live
<1>1. UNCHANGED vars => Live
  BY DEF vars, Live
<1>2. ASSUME NEW t \in Threads, Turn(t) PROVE Live
  BY <1>2 DEF Turn, Acts, Live
<1> QED BY <1>1, <1>2, EveryTurn

LEMMA OutIsLocated == Emitted \subseteq Located
BY DEF Emitted, Located, Owned

LEMMA CoveredKeeps ==
  ASSUME Covered, Live, Emitted' = Emitted,
         \A x \in Codes : x \in Located => x \in Located',
         \A x \in Codes \ {Root} : Awaited(x) => x \in Located' \/ Awaited(x)'
  PROVE  Covered'
BY ConstantFacts DEF Covered

LEMMA CalmCovers ==
  ASSUME Covered, Live, Quiet, Calm
  PROVE  Covered'
<1>1. Queued' = Queued /\ Emitted' = Emitted
  BY DEF Quiet, Queued, Emitted
<1>2. \A t \in Threads, x \in Codes : x \in Owned(t) => x \in Owned(t)'
  BY DEF Quiet, Calm, Owned, Ahead, Held, Front
<1>3. \A x \in Codes : x \in Located => x \in Located'
  BY <1>1, <1>2 DEF Located
<1>4. \A x \in Codes \ {Root} : Awaited(x) => Awaited(x)'
  BY DEF Calm, Awaited
<1> QED BY <1>1, <1>3, <1>4, CoveredKeeps

(***************************************************************************)
(* A mass-stop at class c skips only classes that are in an output.        *)
(***************************************************************************)
LEMMA SkippedIsOut ==
  ASSUME FullMeansAllEmitted, NEW c \in Codes, MaySeeFull(Rank[c] + 1),
         NEW x \in Codes \ {Root}, Parent[x] = c
  PROVE  x \in Emitted
<1>1. Rank[x] = Rank[c] + 1 /\ Rank[x] \in Ranks
  BY RankAssumption
<1> QED BY <1>1 DEF MaySeeFull, FullMeansAllEmitted, OfRank

LEMMA StopCovers ==
  ASSUME Typed, Control, Covered, Live, FullMeansAllEmitted, Stops
  PROVE  Covered'
<1>1. PICK w \in Workers : StopBeforeLoop(w) \/ StopInLoop(w)
  BY DEF Stops
<1>2. /\ pc[w] \in {"preloop", "loop"} /\ pc'[w] = "return" /\ cur[w] \in Codes
      /\ \A s \in Threads \ {w} : pc'[s] = pc[s]
      /\ UNCHANGED <<emitted, hand, queue, cur>>
      /\ MaySeeFull(Rank[cur[w]] + 1)
  BY <1>1 DEF StopBeforeLoop, StopInLoop, Control, Walking, Goto, Typed, PcTyped,
     walkVars, balanceVars, outVars
<1>3. /\ \A s \in Threads \ {w} : todo'[s] = todo[s]
      /\ \A x \in todo[w] : x \in todo'[w] \/ Parent[x] = cur[w]
  BY <1>1 DEF StopBeforeLoop, StopInLoop, Drop, Unseen, Typed, WalkTyped, walkVars
<1>4. \A x \in Codes \ {Root} : Parent[x] = cur[w] => x \in Emitted
  BY <1>2, SkippedIsOut
<1>5. Queued' = Queued /\ Emitted' = Emitted /\ Emitted' \subseteq Located'
  BY <1>2 DEF Queued, Emitted, Located, Owned
<1>6. \A s \in Threads : /\ Held(s)' = Held(s) /\ Front(s)' = Front(s)
                         /\ \A x \in Codes : x \in todo[s] => x \in todo'[s] \/ x \in Emitted
  <2>1. \A s \in Threads : Held(s)' = Held(s) /\ Front(s)' = Front(s)
    BY <1>2 DEF Held, Front
  <2>2. \A x \in todo[w] : x # Root
    BY ConstantFacts DEF Typed, WalkTyped
  <2> QED BY <1>3, <1>4, <2>1, <2>2
<1>7. \A x \in Codes : x \in Located => x \in Located'
  BY <1>2, <1>5, <1>6 DEF Located, Owned, Ahead
<1>8. \A x \in Codes \ {Root} : Awaited(x) => x \in Located' \/ Awaited(x)'
  BY <1>2, <1>4, <1>5 DEF Awaited
<1> QED BY <1>5, <1>7, <1>8, CoveredKeeps

LEMMA EmitCovers ==
  ASSUME Typed, Control, Paths, Placed, Covered, Live, NEW t \in Threads, Emit(t)
  PROVE  Covered'
<1>1. /\ cur[t] \in Codes /\ cur'[t] = cur[t]
      /\ \A w \in Workers : pc[w] = "preloop" => pc'[w] = "preloop" /\ cur'[w] = cur[w]
      /\ t \in Workers /\ Rank[cur[t]] < MaxK => pc'[t] = "preloop"
  <2>1. cur[t] \in Codes
    BY DEF Emit, Control, Walking
  <2>2. Rank[cur[t]] \in Nat /\ MaxK \in Nat
    BY <2>1, ConstantFacts DEF Ranks
  <2> QED BY <2>1, <2>2, ConstantFacts DEF Emit, Goto, Typed, PcTyped
<1>2. /\ Located \subseteq Located' /\ Emitted' = Emitted \cup {cur[t]}
      /\ t = Main /\ Rank[cur[t]] < MaxK => Candidates(cur[t]) \subseteq Located'
  BY EmitKeeps
<1>3. ASSUME NEW x \in Codes \ {Root}, Parent[x] = cur[t] PROVE x \in Located' \/ Awaited(x)'
  <2>1. Rank[x] = Rank[cur[t]] + 1 /\ Rank[x] \in Ranks /\ Rank[cur[t]] \in Ranks
    BY <1>1, <1>3, RankAssumption
  <2>2. Rank[cur[t]] < MaxK
    BY <2>1, ConstantFacts DEF Ranks
  <2>3. x \in Candidates(cur[t])
    BY <1>3 DEF Candidates
  <2> QED BY <1>1, <1>2, <1>3, <2>2, <2>3 DEF Awaited
<1>4. \A x \in Codes \ {Root} : Awaited(x) => Awaited(x)'
  BY <1>1 DEF Awaited
<1> QED BY <1>2, <1>3, <1>4 DEF Covered

LEMMA GenerateCovers ==
  ASSUME Typed, Control, Paths, Placed, Covered, Live, NEW w \in Workers, GenerateCandidates(w)
  PROVE  Covered'
<1>1. Located' = Located \cup Candidates(cur[w])
  BY GenerateKeeps
<1>2. /\ \A v \in Workers \ {w} : pc'[v] = pc[v]
      /\ UNCHANGED <<emitted, cur>>
  BY DEF GenerateCandidates, Goto, Typed, PcTyped, outVars
<1>3. \A x \in Codes \ {Root} : Awaited(x) => x \in Located' \/ Awaited(x)'
  BY <1>1, <1>2 DEF Awaited, Candidates
<1> QED BY <1>1, <1>2, <1>3, CoveredKeeps DEF Emitted

(* Moving a class from one place to another covers what was covered. *)
LEMMA MoveCovers ==
  ASSUME Typed, Control, Paths, Placed, Covered, Live,
         RollsBack \/ Receives \/ TakesUp \/ TakesInHand \/ Sends
  PROVE  Covered'
<1>1. Located' = Located
  <2>1. RollsBack => Located' = Located
    BY RollBackKeeps DEF RollsBack
  <2>2. Receives => Located' = Located
    BY ReceiveKeeps DEF Receives
  <2>3. TakesUp => Located' = Located
    BY TakeUpKeeps DEF TakesUp
  <2>4. TakesInHand => Located' = Located
    BY TakeInHandKeeps DEF TakesInHand
  <2>5. Sends => Located' = Located
    BY SendKeeps DEF Sends
  <2> QED BY <2>1, <2>2, <2>3, <2>4, <2>5
<1>2. UNCHANGED emitted
  BY DEF RollsBack, RollBack, Receives, Receive, TakesUp, TakeUp, TakesInHand, TakeInHand,
     Sends, SendHand, outVars
<1>3. \A w \in Workers : pc[w] = "preloop" => pc'[w] = "preloop" /\ cur'[w] = cur[w]
  <2> USE DEF Goto, Typed, PcTyped, WalkTyped
  <2>1. RollsBack => \A w \in Workers : pc[w] = "preloop" => pc'[w] = "preloop" /\ cur'[w] = cur[w]
    BY DEF RollsBack, RollBack, Push
  <2>2. Receives => \A w \in Workers : pc[w] = "preloop" => pc'[w] = "preloop" /\ cur'[w] = cur[w]
    BY DEF Receives, Receive
  <2>3. TakesUp => \A w \in Workers : pc[w] = "preloop" => pc'[w] = "preloop" /\ cur'[w] = cur[w]
    BY DEF TakesUp, TakeUp, Push
  <2>4. TakesInHand => \A w \in Workers : pc[w] = "preloop" => pc'[w] = "preloop" /\ cur'[w] = cur[w]
    BY DEF TakesInHand, TakeInHand
  <2>5. Sends => \A w \in Workers : pc[w] = "preloop" => pc'[w] = "preloop" /\ cur'[w] = cur[w]
    BY DEF Sends, SendHand
  <2> QED BY <2>1, <2>2, <2>3, <2>4, <2>5
<1>4. \A x \in Codes \ {Root} : Awaited(x) => Awaited(x)'
  BY <1>3 DEF Awaited
<1> QED BY <1>1, <1>2, <1>4, CoveredKeeps DEF Emitted

LEMMA CoveredStep ==
  ASSUME Typed, Control, Paths, Placed, Covered, FullMeansAllEmitted, [Next]_vars
  PROVE  Covered'
<1> SUFFICES ASSUME Live' PROVE Covered'
  BY DEF Covered
<1>1. Live
  BY LiveBefore
<1>2. CASE Stays
  BY <1>1, <1>2, CalmCovers, StopCovers DEF Stays
<1>3. CASE Emits
  BY <1>1, <1>3, EmitCovers DEF Emits
<1>4. CASE Generates
  BY <1>1, <1>4, GenerateCovers DEF Generates
<1>5. CASE RollsBack \/ Receives \/ TakesUp \/ TakesInHand \/ Sends
  BY <1>1, <1>5, MoveCovers
<1> QED BY <1>2, <1>3, <1>4, <1>5, Kinds DEF Kind

LEMMA CoveredInvariant == Spec => []Covered
<1>1. Init => Covered
  <2> SUFFICES ASSUME Init PROVE Covered
    OBVIOUS
  <2>1. pc[Main] = "emit" /\ cur[Main] = Root /\ Emitted = {}
    BY DEF Init, Emitted
  <2>2. Root \in Located
    BY <2>1 DEF Located, Owned, Ahead, Front
  <2> QED BY <2>1, <2>2 DEF Covered
<1>2. Inv /\ Placed /\ FullMeansAllEmitted /\ Covered /\ [Next]_vars => Covered'
  BY CoveredStep DEF Inv
<1> QED BY <1>1, <1>2, InvInvariant, PlacedInvariant, FullMeansAllEmittedCorrect, PTL DEF Spec

-----------------------------------------------------------------------------
(***************************************************************************)
(* How threads end.                                                        *)
(***************************************************************************)

(* A thread that has flushed its last batch. *)
Closing == {"result", "gone", "signal", "collect", "done"}

FlushedAtEnd == \A t \in Threads : pc[t] \in Closing => flushed[t] = emitted[t]

Delivered == \A w \in Workers : pc[w] = "gone" => w \in results \cup collected

Harmless == FaultyThreads = {} => Live

AtEnd ==
  pc[Main] = "done" => /\ collected = Workers
                       /\ Emitted = Codes
                       /\ \A w \in Workers : pc[w] \in Over

(* Nothing is delivered, and no thread comes nearer to its end. *)
Steady ==
  /\ UNCHANGED <<results, collected>>
  /\ \A t \in Threads :
       pc'[t] \in Closing \cup {"panicked"} \/ pc[t] \in Over => pc'[t] = pc[t]

EndsWorker == \E w \in Workers : FlushWorker(w) \/ SendResult(w)

Panics == (\E t \in Threads : WriterFails(t)) \/ SendFails \/ CollectFails

EndKind ==
  \/ Steady \/ EndsWorker \/ Panics
  \/ FlushSeeder \/ FinishSeeding \/ CollectResult \/ MassGate

LEMMA EndKinds == ASSUME Typed, [Next]_vars PROVE EndKind
<1> USE ConstantFacts DEF Goto, outVars, Typed, PcTyped, Closing, Over
<1>1. ASSUME NEW t \in Threads, Walk(t) PROVE Steady
  <2>1. CASE Emit(t)
    BY <2>1 DEF Emit, Steady
  <2>2. CASE RejectCandidate(t) \/ Reserve(t) \/ LoopDone(t)
    BY <2>2 DEF RejectCandidate, Reserve, LoopDone, Steady
  <2>3. CASE ReturnToLoop(t) \/ ReturnFromSeed(t)
    BY <2>3 DEF ReturnToLoop, ReturnFromSeed, Steady
  <2> QED BY <1>1, <2>1, <2>2, <2>3 DEF Walk
<1>2. ASSUME NEW w \in Workers, WorkerLoop(w) PROVE Steady \/ FlushWorker(w) \/ SendResult(w)
  <2>1. CASE BecomeIdle(w) \/ Receive(w) \/ Timeout(w)
    BY <2>1 DEF BecomeIdle, Receive, Timeout, Steady
  <2>2. CASE ReadSeederDone(w) \/ ReadOutstanding(w) \/ Disconnected(w) \/ ReleaseSeed(w)
    BY <2>2 DEF ReadSeederDone, ReadOutstanding, Disconnected, ReleaseSeed, Steady
  <2> QED BY <1>2, <2>1, <2>2 DEF WorkerLoop
<1>3. ASSUME NEW w \in Workers, WorkerTraverse(w) PROVE Steady
  <2>1. CASE StopBeforeLoop(w) \/ GenerateCandidates(w) \/ StopInLoop(w)
    BY <2>1 DEF StopBeforeLoop, GenerateCandidates, StopInLoop, Steady
  <2>2. CASE RecurseIntoChild(w) \/ OfferChild(w)
    BY <2>2 DEF RecurseIntoChild, OfferChild, Steady
  <2>3. CASE DonateChild(w) \/ DonationRefused(w) \/ RollBack(w)
    BY <2>3 DEF DonateChild, DonationRefused, RollBack, Steady
  <2> QED BY <1>3, <2>1, <2>2, <2>3 DEF WorkerTraverse
<1>4. ASSUME SeederRecurse \/ SeederOffer \/ SendSeed PROVE Steady
  BY <1>4 DEF SeederRecurse, SeederOffer, SendSeed, Steady
<1>5. ASSUME UNCHANGED vars PROVE Steady
  BY <1>5 DEF vars, Steady
<1> HIDE ConstantFacts DEF Goto, outVars, Typed, PcTyped, Closing, Over
<1>6. ASSUME NEW w \in Workers, WorkerStep(w) PROVE Steady \/ EndsWorker
  BY <1>1, <1>2, <1>3, <1>6 DEF WorkerStep, EndsWorker
<1>7. ASSUME MainStep PROVE EndKind
  <2>1. Walk(Main) => Steady
    BY <1>1
  <2> QED BY <1>4, <1>7, <2>1 DEF MainStep, EndKind, Panics
<1> QED BY <1>5, <1>6, <1>7 DEF Next, Ended, EndKind, Panics

(* Whatever ends a thread, the others stay where they are. *)
LEMMA EndMoves ==
  ASSUME Typed, [Next]_vars
  PROVE  /\ \A t \in Threads : pc'[t] \in Closing => pc[t] \in Closing \/ (Flush(t) /\ UNCHANGED emitted)
         /\ \A w \in Workers : pc'[w] = "gone" => pc[w] = "gone" \/ SendResult(w)
         /\ \A t \in Threads : pc[t] \in Over => pc'[t] = pc[t]
         /\ pc'[Main] = "done" => pc[Main] = "done" \/ MassGate
<1> USE ConstantFacts DEF Goto, outVars, Typed, PcTyped, Closing, Over
<1> DEFINE Goal ==
         /\ \A t \in Threads : pc'[t] \in Closing => pc[t] \in Closing \/ (Flush(t) /\ UNCHANGED emitted)
         /\ \A w \in Workers : pc'[w] = "gone" => pc[w] = "gone" \/ SendResult(w)
         /\ \A t \in Threads : pc[t] \in Over => pc'[t] = pc[t]
         /\ pc'[Main] = "done" => pc[Main] = "done" \/ MassGate
<1>1. CASE Steady
  BY <1>1 DEF Steady
<1>2. ASSUME NEW w \in Workers, FlushWorker(w) PROVE Goal
  BY <1>2 DEF FlushWorker
<1>3. ASSUME NEW w \in Workers, SendResult(w) PROVE Goal
  BY <1>3 DEF SendResult
<1>4. ASSUME NEW t \in Threads, WriterFails(t) PROVE Goal
  BY <1>4 DEF WriterFails
<1>5. CASE SendFails \/ CollectFails
  BY <1>5 DEF SendFails, CollectFails
<1>6. CASE FlushSeeder
  BY <1>6 DEF FlushSeeder
<1>7. CASE FinishSeeding \/ CollectResult
  BY <1>7 DEF FinishSeeding, CollectResult
<1>8. CASE MassGate
  <2>1. pc[Main] = "collect" /\ \A s \in Threads \ {Main} : pc'[s] = pc[s]
    BY <1>8 DEF MassGate
  <2> QED BY <1>8, <2>1
<1> HIDE ConstantFacts DEF Goto, outVars, Typed, PcTyped, Closing, Over
<1> QED BY <1>1, <1>2, <1>3, <1>4, <1>5, <1>6, <1>7, <1>8, EndKinds DEF EndKind, EndsWorker, Panics

LEMMA FlushedAtEndStep ==
  ASSUME Typed, FlushedAtEnd, [Next]_vars
  PROVE  FlushedAtEnd'
<1> SUFFICES ASSUME NEW t \in Threads, pc'[t] \in Closing PROVE flushed'[t] = emitted'[t]
  BY DEF FlushedAtEnd
<1>1. CASE Flush(t) /\ UNCHANGED emitted
  BY <1>1 DEF Flush, Typed, MassTyped
<1>2. CASE pc[t] \in Closing
  <2>1. flushed[t] = emitted[t]
    BY <1>2 DEF FlushedAtEnd
  <2>2. ASSUME NEW s \in Threads, Emit(s) PROVE flushed'[t] = emitted'[t]
    <3>1. s # t
      BY <1>2, <2>2 DEF Emit, Closing
    <3>2. flushed'[t] = flushed[t] /\ emitted'[t] = emitted[t]
      BY <2>2, <3>1 DEF Emit, Output, Contribute, Typed, MassTyped, OutTyped
    <3> QED BY <2>1, <3>2
  <2>3. ASSUME NEW s \in Threads, Flush(s), UNCHANGED emitted PROVE flushed'[t] = emitted'[t]
    BY <2>1, <2>3 DEF Flush, Typed, MassTyped
  <2>4. UNCHANGED <<massVars, emitted>> => flushed'[t] = emitted'[t]
    BY <2>1 DEF massVars
  <2> QED BY <2>2, <2>3, <2>4, TallyKinds DEF Emits, Flushes
<1> QED BY <1>1, <1>2, EndMoves

LEMMA DeliveredStep ==
  ASSUME Typed, Delivered, [Next]_vars
  PROVE  Delivered'
<1> SUFFICES ASSUME NEW w \in Workers, pc'[w] = "gone" PROVE w \in results' \cup collected'
  BY DEF Delivered
<1>1. CASE SendResult(w)
  BY <1>1 DEF SendResult
<1>2. CASE pc[w] = "gone"
  <2>1. w \in results \cup collected
    BY <1>2 DEF Delivered
  <2>2. CASE Steady
    BY <2>1, <2>2 DEF Steady
  <2>3. CASE EndsWorker
    BY <2>1, <2>3 DEF EndsWorker, FlushWorker, SendResult, outVars
  <2>4. CASE Panics
    BY <2>1, <2>4 DEF Panics, WriterFails, SendFails, CollectFails, outVars
  <2>5. CASE FlushSeeder \/ FinishSeeding \/ MassGate
    BY <2>1, <2>5 DEF FlushSeeder, FinishSeeding, MassGate, outVars
  <2>6. CASE CollectResult
    BY <2>1, <2>6 DEF CollectResult
  <2> QED BY <2>2, <2>3, <2>4, <2>5, <2>6, EndKinds DEF EndKind
<1> QED BY <1>1, <1>2, EndMoves

(***************************************************************************)
(* When all workers are gone and no thread has panicked, everything is out *)
(* and the tracker is at the quotas.                                       *)
(***************************************************************************)
LEMMA NothingLeft ==
  ASSUME Typed, Control, NoEarlyExit, Backlog, Covered, FlushedAtEnd, MassConserved, Live,
         pc[Main] = "collect", \A w \in Workers : pc[w] \in Over
  PROVE  \A k \in Ranks : mass[k] = Quota[k]
<1>1. \A w \in Workers : pc[w] = "gone"
  BY DEF Live, Over, Typed, PcTyped, WorkerPC
<1>2. queue = <<>>
  BY <1>1, ParallelAssumption DEF NoEarlyExit
<1>3. \A t \in Threads : todo[t] = {} /\ Held(t) = {} /\ Front(t) = {}
  <2> SUFFICES ASSUME NEW t \in Threads PROVE todo[t] = {} /\ Held(t) = {} /\ Front(t) = {}
    OBVIOUS
  <2>1. pc[t] \in {"gone", "collect"}
    BY <1>1
  <2>2. hand[t] = NoCode
    BY <2>1 DEF Control
  <2>3. todo[t] = {}
    BY <2>1 DEF Backlog, Behind, Walking
  <2> QED BY <2>1, <2>2, <2>3 DEF Held, Front
<1>4. Located = Emitted
  BY <1>2, <1>3 DEF Located, Queued, Owned, Ahead, Emitted
<1>5. Emitted \in SUBSET Codes
  BY DEF Emitted, Typed, OutTyped
<1>6. Root \in Emitted /\ \A x \in Codes \ {Root} : Parent[x] \in Emitted => x \in Emitted
  BY <1>1, <1>4 DEF Covered, Awaited
<1>7. Emitted = Codes
  BY <1>5, <1>6, TreeAssumption
<1>8. UNION {flushed[t] : t \in Threads} = Emitted
  BY <1>1 DEF FlushedAtEnd, Closing, Emitted
<1> QED BY <1>7, <1>8 DEF MassConserved, Quota

LEMMA HarmlessStep ==
  ASSUME Typed, Control, NoEarlyExit, Backlog, Covered, FlushedAtEnd, Delivered, MassConserved,
         Harmless, [Next]_vars
  PROVE  Harmless'
<1> SUFFICES ASSUME FaultyThreads = {}, Live PROVE Live'
  BY DEF Harmless
<1> USE ConstantFacts DEF Goto, Typed, PcTyped, Live
<1>1. CASE Steady
  BY <1>1 DEF Steady
<1>2. CASE EndsWorker
  BY <1>2 DEF EndsWorker, FlushWorker, SendResult
<1>3. ASSUME NEW t \in Threads, WriterFails(t) PROVE FALSE
  BY <1>3 DEF WriterFails
<1>4. ASSUME \A w \in Workers : pc[w] \in Over PROVE \A w \in Workers : pc[w] = "gone"
  BY <1>4 DEF Over, WorkerPC
<1>5. CASE SendFails
  <2>1. pc[Main] = "send" /\ \A w \in Workers : pc[w] = "gone"
    BY <1>4, <1>5 DEF SendFails
  <2> QED BY <2>1, ParallelAssumption DEF NoEarlyExit
<1>6. CASE CollectFails
  <2>1. results = {} /\ collected # Workers /\ \A w \in Workers : pc[w] = "gone"
    BY <1>4, <1>6 DEF CollectFails
  <2>2. Workers \subseteq collected /\ collected \subseteq Workers
    BY <2>1 DEF Delivered, OutTyped
  <2> QED BY <2>1, <2>2
<1>7. CASE FlushSeeder \/ FinishSeeding \/ CollectResult
  BY <1>7 DEF FlushSeeder, FinishSeeding, CollectResult
<1>8. CASE MassGate
  <2>1. pc[Main] = "collect" /\ \A w \in Workers : pc[w] \in Over
    BY <1>8 DEF MassGate
  <2>2. \A k \in Ranks : mass[k] = Quota[k]
    BY <2>1, NothingLeft
  <2>3. pc' = [pc EXCEPT ![Main] = "done"]
    BY <1>8, <2>2 DEF MassGate
  <2> QED BY <2>3
<1> HIDE ConstantFacts DEF Goto, Typed, PcTyped, Live
<1> QED BY <1>1, <1>2, <1>3, <1>5, <1>6, <1>7, <1>8, EndKinds DEF EndKind, Panics

LEMMA OutputGrows == ASSUME Typed, [Next]_vars PROVE Emitted \subseteq Emitted'
<1>1. ASSUME NEW t \in Threads, Emit(t) PROVE \A s \in Threads : emitted[s] \subseteq emitted'[s]
  BY <1>1 DEF Emit, Output, Typed, OutTyped
<1>2. Flushes \/ UNCHANGED <<massVars, emitted>> => \A s \in Threads : emitted[s] \subseteq emitted'[s]
  BY DEF Flushes
<1>3. \A s \in Threads : emitted[s] \subseteq emitted'[s]
  BY <1>1, <1>2, TallyKinds DEF Emits
<1> QED BY <1>3 DEF Emitted

LEMMA AtEndStep ==
  ASSUME Typed, Typed', FlushedOut, MassConserved, AtEnd, [Next]_vars
  PROVE  AtEnd'
<1> SUFFICES ASSUME pc'[Main] = "done"
             PROVE  /\ collected' = Workers /\ Emitted' = Codes
                    /\ \A w \in Workers : pc'[w] \in Over
  BY DEF AtEnd
<1>1. Emitted \subseteq Emitted' /\ Emitted' \subseteq Codes
  BY OutputGrows DEF Typed, OutTyped, Emitted
<1>2. ASSUME \A w \in Workers : pc[w] \in Over PROVE \A w \in Workers : pc'[w] \in Over
  BY <1>2, EndMoves
<1>3. CASE pc[Main] = "done"
  <2>1. collected = Workers /\ Emitted = Codes /\ \A w \in Workers : pc[w] \in Over
    BY <1>3 DEF AtEnd
  <2>2. collected' = collected
    <3>1. Steady => collected' = collected
      BY DEF Steady
    <3>2. EndsWorker => collected' = collected
      BY DEF EndsWorker, FlushWorker, SendResult, outVars
    <3>3. Panics => collected' = collected
      BY DEF Panics, WriterFails, SendFails, CollectFails, outVars
    <3>4. ~(FlushSeeder \/ FinishSeeding \/ CollectResult \/ MassGate)
      BY <1>3 DEF FlushSeeder, FinishSeeding, CollectResult, MassGate
    <3> QED BY <3>1, <3>2, <3>3, <3>4, EndKinds DEF EndKind
  <2> QED BY <1>1, <1>2, <2>1, <2>2
<1>4. CASE MassGate
  <2>1. /\ collected = Workers /\ \A w \in Workers : pc[w] \in Over
        /\ UNCHANGED <<emitted, collected>>
    BY <1>4 DEF MassGate, outVars
  <2>2. \A k \in Ranks : mass[k] = Quota[k]
    BY <1>4 DEF MassGate, Goto, Typed, PcTyped
  <2>3. \A k \in Ranks : OfRank(Codes, k) \subseteq Emitted
    <3> SUFFICES ASSUME NEW k \in Ranks PROVE OfRank(Codes, k) \subseteq AllFlushed
      BY DEF FlushedOut, AllFlushed, Emitted
    <3>1. AllFlushed \in SUBSET Codes
      BY DEF AllFlushed, Typed, MassTyped
    <3>2. Mass[OfRank(AllFlushed, k)] = Quota[k] /\ Quota[k] \in Nat
      BY <2>2, ConstantFacts DEF MassConserved, AllFlushed
    <3>3. Mass[OfRank(AllFlushed, k)] >= Quota[k]
      BY <3>2
    <3> QED BY <3>1, <3>3, MassFull
  <2>4. Codes \subseteq Emitted
    BY <2>3, ConstantFacts DEF OfRank
  <2> QED BY <1>1, <1>2, <2>1, <2>4
<1> QED BY <1>3, <1>4, EndMoves

-----------------------------------------------------------------------------
(***************************************************************************)
(* What the driver returns.                                                *)
(***************************************************************************)

Final == FlushedAtEnd /\ Delivered /\ Harmless /\ AtEnd

LEMMA FinalInvariant == Spec => []Final
<1>1. Init => Final
  BY ConstantFacts
  DEF Init, Final, FlushedAtEnd, Delivered, Harmless, Live, AtEnd, Closing, LoopTop
<1>2. /\ Inv /\ Inv' /\ NoEarlyExit /\ Backlog /\ Covered /\ Tally /\ Final
      /\ [Next]_vars
      => Final'
  BY FlushedAtEndStep, DeliveredStep, HarmlessStep, AtEndStep DEF Inv, Tally, Final
<1> QED
  BY <1>1, <1>2, InvInvariant, NoEarlyExitCorrect, BacklogInvariant, CoveredInvariant,
     TallyInvariant, PTL DEF Spec

(***************************************************************************)
(* A driver that returns has merged every worker's output and has every    *)
(* class; one whose writers do not fail never panics: not on a closed      *)
(* channel, not on a missing result, not on the mass gate.                 *)
(***************************************************************************)
THEOREM ReturnsEverythingCorrect == Spec => []ReturnsEverything
<1>1. Final => ReturnsEverything
  BY DEF Final, AtEnd, Harmless, Live, ReturnsEverything
<1> QED BY <1>1, FinalInvariant, PTL

(* Only the mass gate returns; only the head of traverse emits. *)
LEMMA RefinementStep ==
  ASSUME Inv, Inv', Placed, AtEnd, AtEnd', [Next]_vars
  PROVE  [Abstract!EnumNext]_(Abstract!enumVars)
<1> DEFINE returned == pc[Main] = "done"
<1> USE DEF Inv
<1>1. ASSUME NEW t \in Threads, Emit(t) PROVE Abstract!EmitClass(cur[t]) /\ cur[t] \in Codes
  <2>1. pc[t] = "emit" /\ cur[t] \in Codes
    BY <1>1 DEF Emit, Control, Walking
  <2>2. ~returned
    BY <2>1 DEF AtEnd, Over
  <2>3. cur[t] \in Located /\ cur[t] \notin Emitted
    BY <2>1 DEF Located, Placed, NoneTwice, Owned, Ahead, Front, Emitted
  <2>4. cur[t] = Root \/ Parent[cur[t]] \in Emitted
    BY <2>3 DEF Placed, ParentsOut
  <2>5. Emitted' = Emitted \cup {cur[t]}
    BY <1>1, EmitKeeps
  <2>6. ~returned'
    <3>1. t = Main => pc'[Main] \in {"return", "loop"}
      BY <1>1 DEF Emit, Goto, Typed, PcTyped
    <3>2. t # Main => pc'[Main] = pc[Main]
      BY <1>1 DEF Emit, Goto, Typed, PcTyped
    <3> QED BY <2>2, <3>1, <3>2
  <2> QED BY <2>1, <2>2, <2>3, <2>4, <2>5, <2>6 DEF Abstract!EmitClass
<1>2. ASSUME MassGate, pc'[Main] = "done" PROVE Abstract!Return
  BY <1>2 DEF MassGate, outVars, Emitted, AtEnd, Abstract!Return
<1>3. ASSUME ~Emits PROVE Emitted' = Emitted
  <2>1. UNCHANGED emitted
    BY <1>3, TallyKinds DEF Flushes
  <2> QED BY <2>1 DEF Emitted
<1>4. ASSUME ~(MassGate /\ pc'[Main] = "done") PROVE returned' = returned
  <2>1. pc'[Main] = "done" => pc[Main] = "done"
    BY <1>4, EndMoves
  <2>2. pc[Main] = "done" => pc'[Main] = "done"
    BY EndMoves DEF Over
  <2> QED BY <2>1, <2>2
<1>5. CASE Emits
  BY <1>1, <1>5 DEF Emits, Abstract!EnumNext
<1>6. CASE MassGate /\ pc'[Main] = "done"
  BY <1>2, <1>6 DEF Abstract!EnumNext
<1>7. CASE ~Emits /\ ~(MassGate /\ pc'[Main] = "done")
  BY <1>3, <1>4, <1>7 DEF Abstract!enumVars
<1> QED BY <1>5, <1>6, <1>7

(***************************************************************************)
(* The parallel driver implements the abstract enumeration: it emits each  *)
(* class once and after the class it was augmented from, and it returns    *)
(* only when all are out.                                                  *)
(***************************************************************************)
THEOREM ImplementsEnumerationCorrect == Spec => ImplementsEnumeration
<1>1. Init => Abstract!EnumInit
  BY DEF Init, Emitted, Abstract!EnumInit
<1>2. /\ Inv /\ Inv' /\ Placed /\ Final /\ Final' /\ [Next]_vars
      => [Abstract!EnumNext]_(Abstract!enumVars)
  BY RefinementStep DEF Final
<1> QED
  BY <1>1, <1>2, InvInvariant, PlacedInvariant, FinalInvariant, PTL
  DEF Spec, ImplementsEnumeration, Abstract!EnumSpec

=============================================================================

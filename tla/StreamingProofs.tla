---------------------------- MODULE StreamingProofs ----------------------------
(***************************************************************************)
(* Proofs about the streaming drivers and the programs that read their     *)
(* files, for every tree, number of threads and buffer size: however the   *)
(* system cuts the files off, the reader has counted a prefix of each; it  *)
(* ends with all of them; and the merge accepts what the kernel has        *)
(* returned from.                                                          *)
(***************************************************************************)
EXTENDS Streaming, FoldProofs

-----------------------------------------------------------------------------
(***************************************************************************)
(* Where the records of a file end.                                        *)
(***************************************************************************)

(* The length of the records of s at the places in u, taken from the last.  *)
IsLength(s, g, n) ==
  g = [u \in SUBSET (1 .. n) |-> IF u = {} THEN 0 ELSE g[u \ {Max(u)}] + RecordLength(s[Max(u)])]

LEMMA RecordLengthType ==
  ASSUME NEW c \in Codes
  PROVE  RecordLength(c) \in Nat /\ RecordLength(c) >= 2
BY DEF RecordLength

LEMMA LastPlace ==
  ASSUME NEW n \in Nat, NEW u \in SUBSET (1 .. n), u # {}
  PROVE  Max(u) \in u
<1>1. u \subseteq 0 .. n
  OBVIOUS
<1> QED
  BY <1>1, GreatestNumber

LEMMA LengthExists ==
  ASSUME NEW s \in Seq(Codes)
  PROVE  \E g \in [SUBSET (1 .. Len(s)) -> Nat] : IsLength(s, g, Len(s))
<1> DEFINE S == 1 .. Len(s)
           op == [a \in S \X Nat |-> a[2] + RecordLength(s[a[1]])]
           p == [u \in SUBSET S |-> Max(u)]
<1>1. \A i \in S : RecordLength(s[i]) \in Nat
  BY RecordLengthType
<1>2. op \in [S \X Nat -> Nat] /\ 0 \in Nat
  BY <1>1
<1>3. /\ \A u \in SUBSET S : u # {} => p[u] = Max(u) /\ Max(u) \in u
      /\ \A u \in SUBSET S : u # {} => p[u] \in u
  <2>1. Len(s) \in Nat
    OBVIOUS
  <2> QED
    BY <2>1, LastPlace
<1>4. \A x \in S, n \in Nat : op[x, n] = n + RecordLength(s[x])
  BY <1>1
<1>5. IsFiniteSet(S)
  BY FS_Interval
<1> HIDE DEF op, p, S
<1>6. PICK g \in [SUBSET S -> Nat] : \A u \in SUBSET S : g[u] = FoldAt(op, 0, p, g, u)
  <2>1. Foldable(op, 0, p, S, Nat)
    BY <1>2, <1>3, <1>5 DEF Foldable
  <2>2. \E g \in [SUBSET S -> Nat] : IsFold(op, 0, p, g, S)
    BY <2>1, FoldExists
  <2> QED
    BY <2>2 DEF IsFold
<1>7. ASSUME NEW u \in SUBSET S, u # {}
      PROVE  g[u] = g[u \ {Max(u)}] + RecordLength(s[Max(u)])
  <2>1. g[u] = op[Max(u), g[u \ {Max(u)}]]
    BY <1>3, <1>6, <1>7 DEF FoldAt
  <2>2. Max(u) \in S /\ g[u \ {Max(u)}] \in Nat
    BY <1>3, <1>7
  <2> QED
    BY <1>4, <2>1, <2>2
<1>8. g = [u \in SUBSET S |-> IF u = {} THEN 0 ELSE g[u \ {Max(u)}] + RecordLength(s[Max(u)])]
  BY <1>6, <1>7 DEF FoldAt
<1> QED
  BY <1>6, <1>8 DEF S, IsLength

Agree(s, t, n) == \A i \in 1 .. n : s[i] = t[i]

LEMMA LengthUnique ==
  ASSUME NEW n \in Nat, NEW s, NEW t, Agree(s, t, n),
         NEW g, IsLength(s, g, n),
         NEW m \in Nat, n <= m, NEW h, IsLength(t, h, m)
  PROVE  g[1 .. n] = h[1 .. n]
<1> DEFINE S == 1 .. n
           C == {u \in SUBSET S : g[u] # h[u]}
<1>1. IsFiniteSet(S) /\ SUBSET S \subseteq SUBSET (1 .. m)
  BY FS_Interval
<1>2. ASSUME C # {}
      PROVE  FALSE
  <2>1. PICK u \in C : \A w \in C : w \subseteq u => w = u
    <3>1. C \subseteq SUBSET S
      OBVIOUS
    <3> HIDE DEF C, S
    <3> QED
      BY <1>1, <1>2, <3>1, LeastSet
  <2>2. u \in SUBSET S /\ u \in SUBSET (1 .. m)
    BY <1>1
  <2>3. u # {}
    BY <2>2 DEF IsLength
  <2>4. Max(u) \in u
    BY <2>2, <2>3, LastPlace
  <2>5. u \ {Max(u)} \in SUBSET S /\ u \ {Max(u)} \notin C /\ Max(u) \in S
    BY <2>1, <2>4
  <2>6. g[u \ {Max(u)}] = h[u \ {Max(u)}] /\ s[Max(u)] = t[Max(u)]
    BY <2>5 DEF Agree
  <2>7. /\ g[u] = g[u \ {Max(u)}] + RecordLength(s[Max(u)])
        /\ h[u] = h[u \ {Max(u)}] + RecordLength(t[Max(u)])
    BY <2>2, <2>3 DEF IsLength
  <2>8. g[u] = h[u]
    BY <2>6, <2>7
  <2> QED
    BY <2>8
<1> QED
  BY <1>2

LEMMA EndOfIsLength ==
  ASSUME NEW s \in Seq(Codes)
  PROVE  \E g \in [SUBSET (1 .. Len(s)) -> Nat] :
           IsLength(s, g, Len(s)) /\ EndOf(s) = 1 + g[1 .. Len(s)]
<1> DEFINE h == CHOOSE h : IsLength(s, h, Len(s))
<1>1. EndOf(s) = 1 + h[1 .. Len(s)]
  <2>1. DOMAIN s = 1 .. Len(s)
    OBVIOUS
  <2> QED
    BY <2>1 DEF EndOf, FoldLeft, MapThenFoldSet, IsLength
<1>2. PICK g \in [SUBSET (1 .. Len(s)) -> Nat] : IsLength(s, g, Len(s))
  BY LengthExists
<1>3. IsLength(s, h, Len(s))
  BY <1>2
<1>4. g[1 .. Len(s)] = h[1 .. Len(s)]
  <2>1. Len(s) \in Nat /\ Agree(s, s, Len(s))
    BY DEF Agree
  <2> HIDE DEF h
  <2> QED
    BY <1>2, <1>3, <2>1, LengthUnique
<1> QED
  BY <1>1, <1>2, <1>4

(* The header is one piece, and each record ends where it should.           *)
LEMMA EndOfEmpty == EndOf(<<>>) = 1
<1>1. <<>> \in Seq(Codes) /\ 1 .. 0 = {} /\ Len(<<>>) = 0
  OBVIOUS
<1>2. PICK g : IsLength(<<>>, g, 0) /\ EndOf(<<>>) = 1 + g[{}]
  BY <1>1, EndOfIsLength
<1> QED
  BY <1>2 DEF IsLength

LEMMA EndOfAppend ==
  ASSUME NEW s \in Seq(Codes), NEW c \in Codes
  PROVE  EndOf(Append(s, c)) = EndOf(s) + RecordLength(c) /\ EndOf(s) \in Nat
<1> DEFINE n == Len(s)
           t == Append(s, c)
<1>1. /\ t \in Seq(Codes) /\ Len(t) = n + 1 /\ n \in Nat
      /\ t[n + 1] = c /\ \A i \in 1 .. n : s[i] = t[i]
  OBVIOUS
<1>2. PICK g \in [SUBSET (1 .. n) -> Nat] : IsLength(s, g, n) /\ EndOf(s) = 1 + g[1 .. n]
  BY EndOfIsLength
<1> HIDE DEF n, t
<1>3. PICK h \in [SUBSET (1 .. n + 1) -> Nat] :
        IsLength(t, h, n + 1) /\ EndOf(t) = 1 + h[1 .. n + 1]
  BY <1>1, EndOfIsLength
<1>4. g[1 .. n] = h[1 .. n]
  <2> DEFINE m == n + 1
  <2>1. m \in Nat /\ n <= m /\ n \in Nat /\ Agree(s, t, n)
    BY <1>1 DEF Agree
  <2>2. IsLength(t, h, m)
    BY <1>3
  <2> HIDE DEF m
  <2> QED
    BY <1>2, <2>1, <2>2, LengthUnique
<1>5. Max(1 .. n + 1) = n + 1
  <2>1. n + 1 \in 1 .. n + 1 /\ 1 .. n + 1 \subseteq 0 .. n + 1 /\ n + 1 \in Nat
    BY <1>1
  <2>2. Max(1 .. n + 1) \in 1 .. n + 1 /\ n + 1 <= Max(1 .. n + 1)
    BY <2>1, GreatestNumber
  <2> QED
    BY <1>1, <2>2
<1>6. (1 .. n + 1) \ {n + 1} = 1 .. n /\ 1 .. n + 1 # {} /\ 1 .. n \in SUBSET (1 .. n)
  <2>1. \A i \in 1 .. n + 1 : i # n + 1 <=> i \in 1 .. n
    BY <1>1
  <2>2. 1 .. n \subseteq 1 .. n + 1 /\ n + 1 \in 1 .. n + 1
    BY <1>1
  <2> QED
    BY <2>1, <2>2
<1>7. h[1 .. n + 1] = h[1 .. n] + RecordLength(c)
  <2> DEFINE all == 1 .. n + 1
  <2>1. all \in SUBSET (1 .. n + 1) /\ all # {} /\ Max(all) = n + 1 /\ all \ {n + 1} = 1 .. n
    BY <1>5, <1>6
  <2> HIDE DEF all
  <2>2. h[all] = h[all \ {Max(all)}] + RecordLength(t[Max(all)])
    BY <1>3, <2>1 DEF IsLength
  <2>3. h[all] = h[1 .. n] + RecordLength(c)
    BY <1>1, <2>1, <2>2
  <2> QED
    BY <2>3 DEF all
<1>8. RecordLength(c) \in Nat /\ g[1 .. n] \in Nat
  BY <1>2, <1>6, RecordLengthType
<1>9. EndOf(t) = EndOf(s) + RecordLength(c) /\ EndOf(s) \in Nat
  <2> DEFINE a == g[1 .. n]
  <2>1. EndOf(s) = 1 + a /\ EndOf(t) = 1 + (a + RecordLength(c)) /\ a \in Nat /\ RecordLength(c) \in Nat
    BY <1>2, <1>3, <1>4, <1>7, <1>8
  <2> HIDE DEF a
  <2> QED
    BY <2>1
<1> QED
  BY <1>9 DEF t

(* The records of a file end one after the other, two pieces apart at       *)
(* least.                                                                   *)
Edge(s, i) == EndOf(SubSeq(s, 1, i))

LEMMA EdgeStep ==
  ASSUME NEW s \in Seq(Codes), NEW i \in Nat, i < Len(s)
  PROVE  /\ s[i + 1] \in Codes
         /\ Edge(s, i) \in Nat
         /\ Edge(s, i + 1) = Edge(s, i) + RecordLength(s[i + 1])
<1>1. SubSeq(s, 1, i) \in Seq(Codes) /\ s[i + 1] \in Codes
  OBVIOUS
<1>2. SubSeq(s, 1, i + 1) = Append(SubSeq(s, 1, i), s[i + 1])
  OBVIOUS
<1> QED
  BY <1>1, <1>2, EndOfAppend DEF Edge

LEMMA EdgeEnds ==
  ASSUME NEW s \in Seq(Codes)
  PROVE  Edge(s, 0) = 1 /\ Edge(s, Len(s)) = EndOf(s)
<1>1. SubSeq(s, 1, 0) = <<>> /\ SubSeq(s, 1, Len(s)) = s
  OBVIOUS
<1> QED
  BY <1>1, EndOfEmpty DEF Edge

LEMMA EdgeAppend ==
  ASSUME NEW s \in Seq(Codes), NEW c, NEW i \in 0 .. Len(s)
  PROVE  Edge(Append(s, c), i) = Edge(s, i)
<1>1. SubSeq(Append(s, c), 1, i) = SubSeq(s, 1, i)
  OBVIOUS
<1> QED
  BY <1>1 DEF Edge

LEMMA EdgeOrder ==
  ASSUME NEW s \in Seq(Codes)
  PROVE  \A j \in 0 .. Len(s) : \A i \in 0 .. j :
           /\ Edge(s, i) \in Nat /\ Edge(s, i) >= 1
           /\ i < j => Edge(s, i) + 2 <= Edge(s, j)
<1> DEFINE Ordered(j) ==
             /\ Edge(s, j) \in Nat /\ Edge(s, j) >= 1
             /\ \A i \in 0 .. j - 1 : Edge(s, i) + 2 <= Edge(s, j)
           C == {j \in 0 .. Len(s) : ~ Ordered(j)}
<1>1. ASSUME C # {}
      PROVE  FALSE
  <2>1. PICK j \in C : \A m \in C : j <= m
    <3>1. C \subseteq Nat
      OBVIOUS
    <3> HIDE DEF C
    <3> QED
      BY <1>1, <3>1, LeastNumber
  <2>2. j # 0
    <3>1. Ordered(0)
      BY EdgeEnds
    <3> QED
      BY <2>1, <3>1
  <2> DEFINE i == j - 1
  <2>3. i \in Nat /\ i < Len(s) /\ j = i + 1 /\ i \notin C
    BY <2>1, <2>2
  <2>4. Ordered(i)
    BY <2>3
  <2>5. s[j] \in Codes /\ Edge(s, j) = Edge(s, i) + RecordLength(s[j])
    BY <2>3, EdgeStep
  <2>6. RecordLength(s[j]) \in Nat /\ RecordLength(s[j]) >= 2
    BY <2>5, RecordLengthType
  <2>7. Edge(s, j) \in Nat /\ Edge(s, i) + 2 <= Edge(s, j) /\ Edge(s, j) >= 1
    BY <2>4, <2>5, <2>6
  <2>8. \A m \in 0 .. j - 1 : Edge(s, m) + 2 <= Edge(s, j)
    <3> SUFFICES ASSUME NEW m \in 0 .. j - 1
                 PROVE  Edge(s, m) + 2 <= Edge(s, j)
      OBVIOUS
    <3>1. CASE m = i
      BY <2>7, <3>1
    <3>2. CASE m # i
      <4>1. m \in 0 .. i - 1 /\ m \in 0 .. Len(s) /\ m \notin C
        BY <2>1, <2>3, <3>2
      <4>2. Edge(s, m) + 2 <= Edge(s, i) /\ Edge(s, m) \in Nat
        BY <2>4, <4>1
      <4> HIDE DEF i
      <4> QED
        BY <2>4, <2>7, <4>2
    <3> QED
      BY <3>1, <3>2
  <2>9. Ordered(j)
    BY <2>7, <2>8
  <2> QED
    BY <2>1, <2>9
<1>2. \A j \in 0 .. Len(s) : Ordered(j)
  BY <1>1
<1> HIDE DEF C
<1> QED
  BY <1>2

LEMMA EndType ==
  ASSUME NEW s \in Seq(Codes)
  PROVE  EndOf(s) \in Nat /\ EndOf(s) >= 1
<1>1. Len(s) \in 0 .. Len(s) /\ Len(s) \in Nat
  OBVIOUS
<1> QED
  BY <1>1, EdgeEnds, EdgeOrder

-----------------------------------------------------------------------------
(***************************************************************************)
(* What the threads have written.                                          *)
(***************************************************************************)

Places == {"create", "walk", "finalize", "done", "gate", "stats", "merge", "exit", "panicked"}
Finished == {"done", "gate", "stats", "merge", "exit"}

(* A file is there before anything is logged, is never ahead of the log,    *)
(* and is whole once its thread is done.                                    *)
FileFollows(t) ==
  /\ pc[t] \in Places
  /\ log[t] \in Seq(Codes)
  /\ size[t] \in Int /\ size[t] >= -1 /\ size[t] <= EndOf(log[t])
  /\ pc[t] = "create" => size[t] = -1 /\ log[t] = <<>>
  /\ pc[t] \in {"walk", "finalize"} => size[t] >= 0
  /\ pc[t] \in Finished => size[t] = EndOf(log[t])

Files ==
  /\ alive \in BOOLEAN
  /\ pc \in [Threads -> Places] /\ log \in [Threads -> Seq(Codes)] /\ size \in [Threads -> Int]
  /\ \A t \in Threads : FileFollows(t)

LEMMA ThreadsFinite ==
  /\ IsFiniteSet(Threads) /\ Main \in Threads /\ Main \notin Workers
  /\ Workers \subseteq Threads /\ Threads = Workers \cup {Main} /\ IsFiniteSet(Codes)
<1>1. NumThreads \in Nat /\ IsFiniteSet(Codes)
  BY StreamingAssumption
<1>2. IsFiniteSet(Workers) /\ Main \notin Workers
  BY <1>1, FS_Interval DEF Workers, Main
<1> QED
  BY <1>1, <1>2, FS_AddElement DEF Threads

(* Only its own thread writes a file; the driver's later steps only move    *)
(* its pc.                                                                  *)
LEMMA KernelKinds ==
  ASSUME [Next]_vars
  PROVE  \/ \E t \in Threads : Thread(t)
         \/ Driver
         \/ UNCHANGED <<pc, log, size, stats>> /\ (alive' = FALSE \/ alive' = alive)
BY DEF Next, Kill, MergeByHand, Reader, FindStream, UpdateTail, EndOfPass, EndOfFinalPass,
       vars, kernelVars, scriptVars

(* What a step of t leaves to the others.                                   *)
OnlyMoves(t) ==
  /\ UNCHANGED <<alive, scriptVars, readerVars>>
  /\ alive
  /\ \A u \in Threads \ {t} : pc'[u] = pc[u] /\ log'[u] = log[u] /\ size'[u] = size[u]

LEMMA ThreadFrame ==
  ASSUME Files, NEW t \in Threads, Thread(t)
  PROVE  /\ OnlyMoves(t)
         /\ pc' \in [Threads -> Places] /\ log' \in [Threads -> Seq(Codes)]
         /\ size' \in [Threads -> Int]
<1> USE DEF Files, OnlyMoves
<1>1. EndOf(log[t]) \in Nat
  BY EndType
<1>2. Buffered(t) \in Int
  BY <1>1 DEF Buffered
<1>3. CASE CreateFile(t)
  BY <1>3 DEF CreateFile, Goto, Places
<1>8. CASE CreateFails(t) \/ StopWalking(t) \/ Finalize(t)
  <2>1. alive /\ \E to \in Places : pc' = [pc EXCEPT ![t] = to]
    BY <1>8 DEF CreateFails, StopWalking, Finalize, Goto, Places
  <2>2. UNCHANGED <<alive, log, size, scriptVars, readerVars>>
    BY <1>8 DEF CreateFails, StopWalking, Finalize
  <2> QED
    BY <2>1, <2>2
<1>4. CASE \E c \in Codes : EmitClass(t, c)
  BY <1>4 DEF EmitClass
<1>5. CASE Spill(t) \/ FlushFile(t)
  BY <1>2, <1>5 DEF Spill, FlushFile
<1>6. CASE WriteFails(t)
  <2>1. alive /\ pc' = [pc EXCEPT ![t] = "panicked"] /\ "panicked" \in Places
    BY <1>6 DEF WriteFails, Goto, Places
  <2>2. /\ \E m \in 0 .. Buffered(t) - 1 : size' = [size EXCEPT ![t] = @ + m]
        /\ UNCHANGED <<alive, log, scriptVars, readerVars>>
    BY <1>6 DEF WriteFails
  <2> QED
    BY <1>2, <2>1, <2>2
<1>7. CASE Panic(t)
  BY <1>2, <1>7 DEF Panic, Goto, Places
<1> QED
  BY <1>3, <1>4, <1>5, <1>6, <1>7, <1>8 DEF Thread

LEMMA FilesInit == Init => Files
<1> SUFFICES ASSUME Init
             PROVE  Files
  OBVIOUS
<1>1. EndOf(<<>>) = 1 /\ <<>> \in Seq(Codes)
  BY EndOfEmpty
<1> QED
  BY <1>1 DEF Init, Files, FileFollows, Places, Finished

LEMMA FilesStep == Files /\ [Next]_vars => Files'
<1> SUFFICES ASSUME Files, [Next]_vars
             PROVE  Files'
  OBVIOUS
<1>1. ASSUME NEW t \in Threads, Thread(t)
      PROVE  Files'
  <2>1. /\ OnlyMoves(t)
        /\ pc' \in [Threads -> Places] /\ log' \in [Threads -> Seq(Codes)]
        /\ size' \in [Threads -> Int]
    BY <1>1, ThreadFrame
  <2>2. /\ EndOf(log[t]) \in Nat /\ EndOf(log[t]) >= 1 /\ size[t] \in Int
        /\ \A c \in Codes : EndOf(Append(log[t], c)) = EndOf(log[t]) + RecordLength(c)
        /\ \A c \in Codes : RecordLength(c) \in Nat
    <3>1. log[t] \in Seq(Codes) /\ size[t] \in Int
      BY DEF Files
    <3>2. EndOf(log[t]) \in Nat /\ EndOf(log[t]) >= 1
      BY <3>1, EndType
    <3>3. \A c \in Codes : EndOf(Append(log[t], c)) = EndOf(log[t]) + RecordLength(c)
      BY <3>1, EndOfAppend
    <3> QED
      BY <3>1, <3>2, <3>3, RecordLengthType
  <2>3. FileFollows(t)'
    <3> USE DEF Files, FileFollows, Places, Finished
    <3>1. CASE CreateFile(t)
      BY <2>2, <3>1 DEF CreateFile, Goto
    <3>2. CASE CreateFails(t)
      BY <2>2, <3>2 DEF CreateFails, Goto
    <3>3. ASSUME NEW c \in Codes, EmitClass(t, c)
          PROVE  FileFollows(t)'
      BY <2>1, <2>2, <3>3 DEF EmitClass
    <3>4. CASE Spill(t)
      BY <2>1, <2>2, <3>4 DEF Spill, Buffered
    <3>5. CASE FlushFile(t)
      BY <2>1, <2>2, <3>5 DEF FlushFile, Buffered
    <3>6. CASE WriteFails(t)
      BY <2>1, <2>2, <3>6 DEF WriteFails, Buffered, Goto
    <3>7. CASE Panic(t)
      BY <2>1, <2>2, <3>7 DEF Panic, Buffered, Goto
    <3>8. CASE StopWalking(t)
      BY <2>1, <2>2, <3>8 DEF StopWalking, Goto
    <3>9. CASE Finalize(t)
      BY <2>1, <2>2, <3>9 DEF Finalize, Buffered, Goto
    <3> QED
      BY <1>1, <3>1, <3>2, <3>3, <3>4, <3>5, <3>6, <3>7, <3>8, <3>9 DEF Thread
  <2>4. \A u \in Threads \ {t} : FileFollows(u)'
    BY <2>1 DEF OnlyMoves, Files, FileFollows
  <2> QED
    BY <2>1, <2>3, <2>4 DEF Files, OnlyMoves
<1>2. CASE Driver
  <2>1. /\ pc' \in [Threads -> Places] /\ UNCHANGED <<log, size>> /\ alive' \in BOOLEAN
        /\ \A t \in Threads \ {Main} : pc'[t] = pc[t]
        /\ \/ pc'[Main] = pc[Main]
           \/ pc[Main] \in Finished /\ pc'[Main] \in Finished \cup {"panicked"}
    BY <1>2, ThreadsFinite
    DEF Driver, CollectResults, CollectFails, Gate, WriteStats, MergeAfterRun, Exit, Goto,
        Files, Places, Finished
  <2>2. \A t \in Threads : FileFollows(t)'
    BY <2>1, ThreadsFinite DEF Files, FileFollows, Finished
  <2> QED
    BY <2>1, <2>2 DEF Files
<1>3. CASE UNCHANGED <<pc, log, size, stats>> /\ (alive' = FALSE \/ alive' = alive)
  BY <1>3 DEF Files, FileFollows
<1> QED
  BY <1>1, <1>2, <1>3, KernelKinds

-----------------------------------------------------------------------------
(***************************************************************************)
(* What is emitted.                                                        *)
(***************************************************************************)

LoggedBy(t, c) == \E i \in 1 .. Len(log[t]) : log[t][i] = c

LEMMA EmittedIsLogged ==
  ASSUME Files
  PROVE  Emitted \subseteq Codes /\ \A c : c \in Emitted <=> \E t \in Threads : LoggedBy(t, c)
<1>1. \A t \in Threads : log[t] \in Seq(Codes) /\ DOMAIN log[t] = 1 .. Len(log[t])
  BY DEF Files
<1>2. \A c : c \in Emitted <=> \E t \in Threads : \E i \in DOMAIN log[t] : c = log[t][i]
  BY DEF Emitted, ToSet
<1>3. \A c : c \in Emitted <=> \E t \in Threads : LoggedBy(t, c)
  BY <1>1, <1>2 DEF LoggedBy
<1>4. \A t \in Threads : \A i \in 1 .. Len(log[t]) : log[t][i] \in Codes
  BY <1>1
<1> QED
  BY <1>3, <1>4 DEF LoggedBy

(* Only an emission changes what has been emitted, and it adds its class.   *)
LEMMA LogStep ==
  ASSUME Files, [Next]_vars
  PROVE  \/ \E t \in Threads : \E c \in Codes : EmitClass(t, c)
         \/ log' = log
<1>1. ASSUME NEW t \in Threads, Thread(t)
      PROVE  (\E c \in Codes : EmitClass(t, c)) \/ log' = log
  BY <1>1 DEF Thread, CreateFile, CreateFails, Spill, FlushFile, WriteFails, Panic,
              StopWalking, Finalize
<1>2. CASE Driver
  BY <1>2 DEF Driver, CollectResults, CollectFails, Gate, WriteStats, MergeAfterRun, Exit
<1> QED
  BY <1>1, <1>2, KernelKinds

LEMMA EmittedStep ==
  ASSUME Files, [Next]_vars
  PROVE  \/ log' = log /\ Emitted' = Emitted
         \/ \E t \in Threads : \E c \in Codes \ Emitted :
              /\ EmitClass(t, c)
              /\ log'[t] = Append(log[t], c)
              /\ \A u \in Threads \ {t} : log'[u] = log[u]
              /\ Emitted' = Emitted \cup {c}
<1>1. CASE log' = log
  BY <1>1 DEF Emitted
<1>2. ASSUME NEW t \in Threads, NEW c \in Codes, EmitClass(t, c)
      PROVE  /\ c \notin Emitted /\ log'[t] = Append(log[t], c)
             /\ \A u \in Threads \ {t} : log'[u] = log[u]
             /\ Emitted' = Emitted \cup {c}
  <2>1. /\ c \notin Emitted /\ log'[t] = Append(log[t], c)
        /\ \A u \in Threads \ {t} : log'[u] = log[u]
    BY <1>2 DEF EmitClass, Files
  <2>2. log[t] \in Seq(Codes)
    BY DEF Files
  <2>3. \A d : LoggedBy(t, d)' <=> LoggedBy(t, d) \/ d = c
    BY <2>1, <2>2 DEF LoggedBy
  <2>4. \A u \in Threads \ {t} : \A d : LoggedBy(u, d)' <=> LoggedBy(u, d)
    BY <2>1 DEF LoggedBy
  <2>5. Files'
    BY FilesStep
  <2>6. \A d : d \in Emitted' <=> \E u \in Threads : LoggedBy(u, d)'
    <3>1. \A u \in Threads : log'[u] \in Seq(Codes) /\ DOMAIN log'[u] = 1 .. Len(log'[u])
      BY <2>5 DEF Files
    <3> QED
      BY <3>1 DEF Emitted, ToSet, LoggedBy
  <2>7. \A d : d \in Emitted <=> \E u \in Threads : LoggedBy(u, d)
    BY EmittedIsLogged
  <2>8. \A d : d \in Emitted' <=> d \in Emitted \/ d = c
    BY <2>3, <2>4, <2>6, <2>7
  <2> QED
    BY <2>1, <2>8
<1> QED
  BY <1>1, <1>2, LogStep

(* A class is in one log, once.                                             *)
LoggedOnce ==
  \A t, u \in Threads : \A i \in 1 .. Len(log[t]), j \in 1 .. Len(log[u]) :
    log[t][i] = log[u][j] => t = u /\ i = j

LEMMA LoggedOnceInit == Init => LoggedOnce
BY DEF Init, LoggedOnce

LEMMA LoggedOnceStep == Files /\ LoggedOnce /\ [Next]_vars => LoggedOnce'
<1> SUFFICES ASSUME Files, LoggedOnce, [Next]_vars
             PROVE  LoggedOnce'
  OBVIOUS
<1>1. CASE log' = log
  BY <1>1 DEF LoggedOnce
<1>2. ASSUME NEW t \in Threads, NEW c \in Codes \ Emitted,
             log'[t] = Append(log[t], c), \A u \in Threads \ {t} : log'[u] = log[u]
      PROVE  LoggedOnce'
  <2> DEFINE n == Len(log[t])
  <2>1. log[t] \in Seq(Codes) /\ n \in Nat
    BY DEF Files
  <2>2. /\ Len(log'[t]) = n + 1 /\ log'[t][n + 1] = c
        /\ \A i \in 1 .. n : log'[t][i] = log[t][i]
    BY <1>2, <2>1
  <2>3. \A u \in Threads : \A i \in 1 .. Len(log[u]) : log[u][i] # c
    BY EmittedIsLogged DEF LoggedBy
  <2> HIDE DEF n
  <2>4. \A u \in Threads : \A i \in 1 .. Len(log'[u]) :
          \/ u = t /\ i = n + 1 /\ log'[u][i] = c
          \/ i \in 1 .. Len(log[u]) /\ log'[u][i] = log[u][i]
    <3>1. \A i \in 1 .. n + 1 : i = n + 1 \/ i \in 1 .. n
      BY <2>1
    <3> QED
      BY <1>2, <2>2, <3>1 DEF n
  <2> QED
    BY <2>3, <2>4 DEF LoggedOnce
<1> QED
  BY <1>1, <1>2, EmittedStep

(* The records of t up to the m-th number at most as many as there are      *)
(* classes: no two are of one class.                                        *)
LEMMA CountBounded ==
  ASSUME Files, LoggedOnce, NEW t \in Threads, NEW I \in SUBSET (1 .. Len(log[t])), NEW k
  PROVE  CountOf(t, I, k) \in 0 .. Cardinality(Codes)
<1> DEFINE J == {i \in I : Rank[log[t][i]] = k}
           f == [i \in J |-> log[t][i]]
<1>1. log[t] \in Seq(Codes)
  BY DEF Files
<1>2. f \in Injection(J, Codes)
  <2>1. \A i \in 1 .. Len(log[t]) : log[t][i] \in Codes
    BY <1>1
  <2>3. f \in [J -> Codes]
    BY <2>1
  <2>2. \A i, j \in J : f[i] = f[j] => i = j
    BY DEF LoggedOnce
  <2> QED
    BY <2>2, <2>3 DEF Injection, IsInjective
<1>3. IsFiniteSet(J) /\ Cardinality(J) <= Cardinality(Codes)
  BY <1>2, ThreadsFinite, FS_Injection
<1>4. Cardinality(J) \in Nat /\ Cardinality(Codes) \in Nat
  BY <1>3, ThreadsFinite, FS_CardinalityType
<1> QED
  BY <1>3, <1>4 DEF CountOf

-----------------------------------------------------------------------------
(***************************************************************************)
(* The driver returns only when everything is emitted.                     *)
(***************************************************************************)

AllEmitted == Emitted = Codes
SomePanicked == \E u \in Threads : pc[u] = "panicked"
Collected == {"gate", "stats", "merge", "exit"}

(* A worker stops when everything is emitted or some thread has panicked;   *)
(* past the collection no thread has, and every worker is done.             *)
Progress ==
  /\ \A w \in Workers : pc[w] \in {"create", "walk", "finalize", "done", "panicked"}
  /\ NumThreads = 0 /\ pc[Main] \in {"finalize", "done"} => AllEmitted
  /\ \A w \in Workers : pc[w] \in {"finalize", "done"} => AllEmitted \/ SomePanicked
  /\ pc[Main] \in Collected => AllEmitted /\ \A w \in Workers : pc[w] = "done"

LEMMA ThreadMoves ==
  ASSUME Files, NEW t \in Threads, Thread(t)
  PROVE  /\ pc[t] \in {"create", "walk", "finalize"}
         /\ \/ pc'[t] = pc[t]
            \/ pc'[t] \in {"walk", "panicked"}
            \/ StopWalking(t) /\ pc'[t] = "finalize"
            \/ pc[t] = "finalize" /\ pc'[t] = "done"
<1> USE DEF Files, Goto
<1>1. CASE CreateFile(t) \/ CreateFails(t)
  BY <1>1 DEF CreateFile, CreateFails
<1>2. CASE \E c \in Codes : EmitClass(t, c)
  BY <1>2 DEF EmitClass
<1>3. CASE Spill(t) \/ FlushFile(t)
  BY <1>3 DEF Spill, FlushFile
<1>4. CASE WriteFails(t) \/ Panic(t)
  BY <1>4 DEF WriteFails, Panic
<1>5. CASE StopWalking(t)
  BY <1>5 DEF StopWalking
<1>6. CASE Finalize(t)
  BY <1>6 DEF Finalize
<1> QED
  BY <1>1, <1>2, <1>3, <1>4, <1>5, <1>6 DEF Thread

LEMMA ProgressInit == Init => Progress
BY ThreadsFinite DEF Init, Progress, Collected

LEMMA ProgressStep == Files /\ Progress /\ [Next]_vars => Progress'
<1> SUFFICES ASSUME Files, Progress, [Next]_vars
             PROVE  Progress'
  OBVIOUS
<1> USE ThreadsFinite
<1>1. AllEmitted => AllEmitted'
  BY EmittedStep DEF AllEmitted
<1>2. ASSUME NEW t \in Threads, Thread(t)
      PROVE  Progress'
  <2>1. /\ \A u \in Threads \ {t} : pc'[u] = pc[u]
        /\ pc[t] \in {"create", "walk", "finalize"}
        /\ \/ pc'[t] = pc[t]
           \/ pc'[t] \in {"walk", "panicked"}
           \/ StopWalking(t) /\ pc'[t] = "finalize"
           \/ pc[t] = "finalize" /\ pc'[t] = "done"
    BY <1>2, ThreadFrame, ThreadMoves DEF OnlyMoves
  <2>2. SomePanicked => SomePanicked'
    BY <2>1 DEF SomePanicked
  <2>3. StopWalking(t) /\ t \in Workers => AllEmitted \/ SomePanicked
    BY DEF StopWalking, AllEmitted, SomePanicked
  <2>4. StopWalking(t) /\ t = Main /\ NumThreads = 0 => AllEmitted
    <3>1. \A c \in Codes : NumThreads = 0 => Emits(Main, c)
      BY DEF Emits
    <3> QED
      BY <3>1, EmittedIsLogged DEF StopWalking, AllEmitted
  <2>5. pc[Main] \notin Collected
    BY <2>1 DEF Progress, Collected
  <2>6. \A w \in Workers : pc'[w] \in {"create", "walk", "finalize", "done", "panicked"}
    BY <2>1 DEF Progress
  <2>7. NumThreads = 0 /\ pc'[Main] \in {"finalize", "done"} => AllEmitted'
    BY <1>1, <2>1, <2>4 DEF Progress
  <2>8. \A w \in Workers : pc'[w] \in {"finalize", "done"} => AllEmitted' \/ SomePanicked'
    BY <1>1, <2>1, <2>2, <2>3 DEF Progress
  <2>9. pc'[Main] \notin Collected
    BY <2>1, <2>5 DEF Collected
  <2> QED
    BY <2>6, <2>7, <2>8, <2>9 DEF Progress
<1>3. CASE Driver
  <2>1. /\ pc' \in [Threads -> Places] /\ Emitted' = Emitted
        /\ \A t \in Threads \ {Main} : pc'[t] = pc[t]
    BY <1>3
    DEF Driver, CollectResults, CollectFails, Gate, WriteStats, MergeAfterRun, Exit, Goto,
        Files, Places, Emitted
  <2>2. \/ pc'[Main] = pc[Main]
        \/ pc'[Main] = "panicked" /\ pc[Main] # "panicked"
        \/ pc[Main] \in Collected /\ pc'[Main] \in Collected
        \/ CollectResults /\ pc[Main] = "done" /\ pc'[Main] = "gate"
    BY <1>3
    DEF Driver, CollectResults, CollectFails, Gate, WriteStats, MergeAfterRun, Exit, Goto,
        Files, Collected
  <2>3. CollectResults /\ pc[Main] = "done" => AllEmitted
    <3> SUFFICES ASSUME CollectResults, pc[Main] = "done"
                 PROVE  AllEmitted
      OBVIOUS
    <3>1. \A w \in Workers : pc[w] = "done"
      BY DEF CollectResults
    <3>2. ~ SomePanicked
      BY <3>1 DEF SomePanicked
    <3>3. NumThreads # 0 => \E w \in Workers : TRUE
      BY StreamingAssumption DEF Workers
    <3> QED
      BY <3>1, <3>2, <3>3 DEF Progress
  <2>4. CollectResults => \A w \in Workers : pc[w] = "done"
    BY DEF CollectResults
  <2>5. AllEmitted' <=> AllEmitted
    BY <2>1 DEF AllEmitted
  <2>6. SomePanicked => SomePanicked'
    BY <2>1, <2>2 DEF SomePanicked, Collected
  <2>7. \A w \in Workers : pc'[w] = pc[w]
    BY <2>1
  <2>8. NumThreads = 0 /\ pc'[Main] \in {"finalize", "done"} => AllEmitted
    BY <2>2 DEF Progress, Collected
  <2>9. pc'[Main] \in Collected => AllEmitted /\ \A w \in Workers : pc[w] = "done"
    BY <2>2, <2>3, <2>4 DEF Progress, Collected
  <2> QED
    BY <2>5, <2>6, <2>7, <2>8, <2>9 DEF Progress
<1>4. CASE UNCHANGED <<pc, log, size, stats>> /\ (alive' = FALSE \/ alive' = alive)
  BY <1>4 DEF Progress, AllEmitted, SomePanicked, Emitted
<1> QED
  BY <1>2, <1>3, <1>4, KernelKinds

(* stats.json says that the driver has returned; a verdict from before it   *)
(* is one on a run that never will.                                         *)
Returned ==
  /\ stats \in BOOLEAN /\ verdict \in {"none", "accepted", "refused"}
  /\ stats <=> pc[Main] \in {"merge", "exit"}
  /\ ~ stats /\ verdict # "none" => ~ alive

LEMMA ReturnedInit == Init => Returned
BY ThreadsFinite DEF Init, Returned

LEMMA ReaderFrame == Reader => UNCHANGED <<kernelVars, scriptVars>>
BY DEF Reader, FindStream, UpdateTail, EndOfPass, EndOfFinalPass

LEMMA ReturnedStep == Files /\ Returned /\ [Next]_vars => Returned'
<1> SUFFICES ASSUME Files, Returned, [Next]_vars
             PROVE  Returned'
  OBVIOUS
<1> USE ThreadsFinite
<1>1. ASSUME NEW t \in Threads, Thread(t)
      PROVE  Returned'
  <2>1. /\ \A u \in Threads \ {t} : pc'[u] = pc[u]
        /\ pc[t] \in {"create", "walk", "finalize"}
        /\ pc'[t] \notin {"merge", "exit"}
        /\ UNCHANGED <<alive, stats, verdict>>
    BY <1>1, ThreadFrame, ThreadMoves DEF OnlyMoves, scriptVars
  <2> QED
    BY <2>1 DEF Returned
<1>2. CASE CollectResults \/ CollectFails \/ Gate
  BY <1>2 DEF CollectResults, CollectFails, Gate, Goto, Files, Returned, scriptVars
<1>3. CASE WriteStats
  BY <1>3 DEF WriteStats, Goto, Files, Returned
<1>4. CASE MergeAfterRun
  BY <1>4 DEF MergeAfterRun, JudgeFiles, Goto, Files, Returned
<1>5. CASE Exit \/ Kill
  BY <1>5 DEF Exit, Kill, Returned, scriptVars
<1>6. CASE MergeByHand
  BY <1>6 DEF MergeByHand, JudgeFiles, Returned, kernelVars
<1>7. CASE Reader
  BY <1>7, ReaderFrame DEF Returned, kernelVars, scriptVars
<1>8. CASE UNCHANGED vars
  BY <1>8 DEF Returned, vars, kernelVars, scriptVars
<1> QED
  BY <1>1, <1>2, <1>3, <1>4, <1>5, <1>6, <1>7, <1>8 DEF Next, Driver

-----------------------------------------------------------------------------
(***************************************************************************)
(* What `dec progress` has counted.                                        *)
(***************************************************************************)

LEMMA GreatestIs ==
  ASSUME NEW C, C \subseteq Nat, NEW x \in C, \A y \in C : y <= x
  PROVE  Max(C) = x
<1>1. C \subseteq 0 .. x /\ x \in Nat /\ C # {}
  OBVIOUS
<1>2. Max(C) \in C /\ x <= Max(C)
  BY <1>1, GreatestNumber
<1>3. Max(C) <= x /\ Max(C) \in Nat
  BY <1>2
<1> QED
  BY <1>1, <1>2, <1>3

(* The first m records of t's file are counted, and the offset is where the *)
(* next one starts.                                                         *)
TailAt(t, m) ==
  /\ m \in 0 .. Len(log[t])
  /\ \A k \in Ranks : shown[t][k] = CountOf(t, 1 .. m, k)
  /\ \/ offset[t] = End(t, m) /\ offset[t] <= size[t]
     \/ offset[t] = 0 /\ m = 0

ReaderTyped ==
  /\ rpc \in {"wait", "pass", "final", "exited"}
  /\ todo \subseteq Threads
  /\ offset \in [Threads -> Nat]
  /\ shown \in [Threads -> [Ranks -> Nat]]

Tails == ReaderTyped /\ \A t \in Threads : \E m \in Nat : TailAt(t, m)

LEMMA CountFinite ==
  ASSUME NEW t, NEW m \in Nat, NEW I \in SUBSET (1 .. m), NEW k
  PROVE  CountOf(t, I, k) \in Nat
<1>1. {i \in I : Rank[log[t][i]] = k} \in SUBSET (1 .. m)
  OBVIOUS
<1>2. IsFiniteSet(1 .. m)
  BY FS_Interval
<1> QED
  BY <1>1, <1>2, FS_Subset, FS_CardinalityType DEF CountOf

LEMMA CountEmpty ==
  ASSUME NEW t, NEW k
  PROVE  CountOf(t, 1 .. 0, k) = 0
<1>1. {i \in 1 .. 0 : Rank[log[t][i]] = k} = {}
  OBVIOUS
<1> QED
  BY <1>1, FS_EmptySet DEF CountOf

LEMMA CountJoin ==
  ASSUME NEW t, NEW m \in Nat, NEW n \in Nat, m <= n, NEW k
  PROVE  CountOf(t, 1 .. n, k) = CountOf(t, 1 .. m, k) + CountOf(t, m + 1 .. n, k)
<1> DEFINE At(I) == {i \in I : Rank[log[t][i]] = k}
           A == At(1 .. m)
           B == At(m + 1 .. n)
<1>1. IsFiniteSet(A) /\ IsFiniteSet(B)
  <2>1. /\ IsFiniteSet(1 .. m) /\ IsFiniteSet(m + 1 .. n)
        /\ A \in SUBSET (1 .. m) /\ B \in SUBSET (m + 1 .. n)
    BY FS_Interval
  <2> QED
    BY <2>1, FS_Subset
<1>2. A \cap B = {} /\ A \cup B = At(1 .. n)
  OBVIOUS
<1> HIDE DEF A, B
<1>3. Cardinality(A \cup B) = Cardinality(A) + Cardinality(B) - Cardinality(A \cap B)
  BY <1>1, FS_Union
<1>4. Cardinality(A) \in Nat /\ Cardinality(B) \in Nat
  BY <1>1, FS_CardinalityType
<1>5. Cardinality(A \cup B) = Cardinality(A) + Cardinality(B)
  BY <1>2, <1>3, <1>4, FS_EmptySet
<1> QED
  BY <1>2, <1>5 DEF A, B, CountOf

(* The records past the offset that are there to the last piece are the     *)
(* next ones, without a gap.                                                *)
LEMMA WholeIsNext ==
  ASSUME Files, Tails, NEW t \in Threads, NEW m \in Nat, TailAt(t, m), size[t] > offset[t]
  PROVE  \E n \in m .. Len(log[t]) :
           /\ Whole(t) = m + 1 .. n
           /\ Max({1, offset[t]} \cup {End(t, i) : i \in Whole(t)}) = End(t, n)
           /\ End(t, n) <= size[t]
           /\ \A i \in n + 1 .. Len(log[t]) : End(t, i) > size[t]
<1> DEFINE s == log[t]
           e == Len(s)
           C == {m} \cup Whole(t)
<1>1. s \in Seq(Codes) /\ e \in Nat /\ m \in 0 .. e /\ size[t] \in Int /\ offset[t] \in Nat
  BY DEF Files, Tails, ReaderTyped, TailAt
<1>2. \A j \in 0 .. e : \A i \in 0 .. j :
        /\ End(t, i) \in Nat /\ End(t, i) >= 1
        /\ i < j => End(t, i) + 2 <= End(t, j)
  BY <1>1, EdgeOrder DEF End, Edge
<1>3. End(t, 0) = 1
  BY <1>1, EdgeEnds DEF End, Edge
<1>4. (offset[t] = End(t, m) /\ offset[t] <= size[t]) \/ (offset[t] = 0 /\ m = 0)
  BY DEF TailAt
<1> HIDE DEF s, e
<1>5. \A i \in 1 .. e : Start(t, i) >= offset[t] <=> i > m
  <2> SUFFICES ASSUME NEW i \in 1 .. e
               PROVE  Start(t, i) >= offset[t] <=> i > m
    OBVIOUS
  <2>1. Start(t, i) = End(t, i - 1) /\ i - 1 \in 0 .. e /\ End(t, i - 1) \in Nat
    BY <1>1, <1>2 DEF Start
  <2>2. CASE offset[t] = End(t, m)
    <3>1. i - 1 < m => End(t, i - 1) + 2 <= End(t, m)
      BY <1>1, <1>2, <2>1
    <3>2. m < i - 1 => End(t, m) + 2 <= End(t, i - 1)
      BY <1>1, <1>2, <2>1
    <3>3. End(t, m) \in Nat
      BY <1>1, <1>2
    <3> QED
      BY <1>1, <2>1, <2>2, <3>1, <3>2, <3>3
  <2>3. CASE offset[t] = 0 /\ m = 0
    BY <2>1, <2>3
  <2> QED
    BY <1>4, <2>2, <2>3
<1>6. Whole(t) = {i \in 1 .. e : i > m /\ End(t, i) <= size[t]}
  BY <1>5 DEF Whole, e, s
<1>7. PICK n \in C : \A i \in C : i <= n
  <2>1. C \subseteq 0 .. e /\ C # {}
    BY <1>1, <1>6
  <2> HIDE DEF C
  <2> QED
    BY <1>1, <2>1, GreatestNumber
<1>8. n \in m .. e
  BY <1>1, <1>6, <1>7
<1>9. End(t, n) <= size[t]
  <2>1. CASE n = m
    <3>1. End(t, m) <= size[t]
      BY <1>1, <1>3, <1>4
    <3> QED
      BY <2>1, <3>1
  <2>2. CASE n # m
    BY <1>6, <1>7, <2>2
  <2> QED
    BY <2>1, <2>2
<1>10. \A i \in n + 1 .. e : End(t, i) > size[t]
  <2> SUFFICES ASSUME NEW i \in n + 1 .. e, ~ (End(t, i) > size[t])
               PROVE  FALSE
    OBVIOUS
  <2>1. i \in 1 .. e /\ i > m /\ i > n /\ End(t, i) \in Nat
    BY <1>1, <1>2, <1>8
  <2>2. i \in C
    BY <1>1, <1>6, <2>1
  <2> QED
    BY <1>7, <1>8, <2>1, <2>2
<1>11. Whole(t) = m + 1 .. n
  <2>1. \A i \in Whole(t) : i \in m + 1 .. n
    BY <1>1, <1>6, <1>7, <1>8
  <2>2. ASSUME NEW i \in m + 1 .. n
        PROVE  i \in Whole(t)
    <3>1. i \in 1 .. e /\ i > m /\ i \in 0 .. n /\ n \in 0 .. e
      BY <1>1, <1>8
    <3>2. End(t, i) \in Nat /\ End(t, n) \in Nat /\ (i = n \/ End(t, i) + 2 <= End(t, n))
      BY <1>2, <3>1
    <3> QED
      BY <1>1, <1>6, <1>9, <3>1, <3>2
  <2> QED
    BY <2>1, <2>2
<1>12. Max({1, offset[t]} \cup {End(t, i) : i \in Whole(t)}) = End(t, n)
  <2> DEFINE D == {1, offset[t]} \cup {End(t, i) : i \in Whole(t)}
  <2>1. \A i \in m .. n : End(t, i) \in Nat /\ End(t, i) >= 1 /\ End(t, i) <= End(t, n)
    <3> SUFFICES ASSUME NEW i \in m .. n
                 PROVE  End(t, i) \in Nat /\ End(t, i) >= 1 /\ End(t, i) <= End(t, n)
      OBVIOUS
    <3>1. i \in 0 .. n /\ n \in 0 .. e
      BY <1>1, <1>8
    <3>2. /\ End(t, i) \in Nat /\ End(t, i) >= 1 /\ End(t, n) \in Nat
          /\ i = n \/ End(t, i) + 2 <= End(t, n)
      BY <1>2, <3>1
    <3> QED
      BY <3>2
  <2>2. m \in m .. n /\ n \in m .. n /\ \A i \in Whole(t) : i \in m .. n
    BY <1>1, <1>8, <1>11
  <2>3. D \subseteq Nat /\ \A y \in D : y <= End(t, n)
    <3>1. offset[t] <= End(t, n)
      BY <1>4, <2>1, <2>2
    <3>2. 1 <= End(t, n)
      BY <2>1, <2>2
    <3> QED
      BY <1>1, <2>1, <2>2, <3>1, <3>2
  <2>4. End(t, n) \in D
    <3>1. CASE n = m
      BY <1>3, <1>4, <3>1
    <3>2. CASE n # m
      BY <1>7, <3>2
    <3> QED
      BY <3>1, <3>2
  <2> HIDE DEF D
  <2>5. Max(D) = End(t, n)
    BY <2>3, <2>4, GreatestIs
  <2> QED
    BY <2>5 DEF D
<1> QED
  BY <1>8, <1>9, <1>10, <1>11, <1>12 DEF e, s

(* A look at a file keeps what it has counted a prefix; it reaches the end  *)
(* of a file that is whole.                                                 *)
LEMMA TailUpdate ==
  ASSUME Files, Tails, NEW t \in Threads, UpdateTail(t)
  PROVE  /\ offset' \in [Threads -> Nat] /\ shown' \in [Threads -> [Ranks -> Nat]]
         /\ \A u \in Threads \ {t} : offset'[u] = offset[u] /\ shown'[u] = shown[u]
         /\ \E n \in Nat : TailAt(t, n)'
         /\ size[t] = EndOf(log[t]) => offset'[t] = EndOf(log[t])
<1> DEFINE s == log[t]
           e == Len(s)
<1>1. s \in Seq(Codes) /\ e \in Nat /\ size[t] \in Int /\ size[t] <= EndOf(s)
  BY DEF Files, FileFollows
<1>2. offset \in [Threads -> Nat] /\ shown \in [Threads -> [Ranks -> Nat]]
  BY DEF Tails, ReaderTyped
<1>3. UNCHANGED <<log, size>>
  BY DEF UpdateTail, kernelVars
<1>4. PICK m \in Nat : TailAt(t, m)
  BY DEF Tails
<1>5. End(t, e) = EndOf(s) /\ EndOf(s) \in Nat /\ EndOf(s) >= 1
  BY <1>1, EdgeEnds, EndType DEF End, Edge
<1>6. \A n \in Nat : \A k : CountOf(t, 1 .. n, k)' = CountOf(t, 1 .. n, k)
  BY <1>3 DEF CountOf
<1>7. \A n \in Nat : End(t, n)' = End(t, n)
  BY <1>3 DEF End
<1>8. CASE size[t] <= offset[t]
  <2>1. UNCHANGED <<offset, shown>>
    BY <1>1, <1>2, <1>8 DEF UpdateTail
  <2>2. TailAt(t, m)'
    BY <1>3, <1>4, <1>6, <1>7, <2>1 DEF TailAt
  <2>3. offset[t] <= EndOf(s)
    <3>1. offset[t] \in Nat /\ (offset[t] <= size[t] \/ offset[t] = 0)
      BY <1>2, <1>4 DEF TailAt
    <3> QED
      BY <1>1, <1>5, <3>1
  <2>4. size[t] = EndOf(s) => offset[t] = EndOf(s)
    BY <1>1, <1>2, <1>5, <1>8, <2>3
  <2> QED
    BY <1>2, <2>1, <2>2, <2>4
<1>9. CASE size[t] > offset[t]
  <2>1. PICK n \in m .. e :
          /\ Whole(t) = m + 1 .. n
          /\ Max({1, offset[t]} \cup {End(t, i) : i \in Whole(t)}) = End(t, n)
          /\ End(t, n) <= size[t]
          /\ \A i \in n + 1 .. e : End(t, i) > size[t]
    BY <1>4, <1>9, WholeIsNext
  <2>2. /\ shown' = [shown EXCEPT ![t] = [k \in Ranks |-> shown[t][k] + CountOf(t, m + 1 .. n, k)]]
        /\ offset' = [offset EXCEPT ![t] = End(t, n)]
    <3>1. /\ shown' = [shown EXCEPT ![t] = [k \in Ranks |-> shown[t][k] + CountOf(t, Whole(t), k)]]
          /\ offset' = [offset EXCEPT ![t] =
                          Max({1, offset[t]} \cup {End(t, i) : i \in Whole(t)})]
      BY <1>1, <1>2, <1>9 DEF UpdateTail
    <3> QED
      BY <2>1, <3>1
  <2>3. n \in 0 .. e /\ m <= n /\ n \in Nat
    BY <1>1, <2>1
  <2>4. End(t, n) \in Nat
    BY <1>1, <2>3, EdgeOrder DEF End, Edge
  <2>5. \A k : /\ CountOf(t, 1 .. n, k) = CountOf(t, 1 .. m, k) + CountOf(t, m + 1 .. n, k)
               /\ CountOf(t, 1 .. m, k) \in Nat /\ CountOf(t, m + 1 .. n, k) \in Nat
    <3> DEFINE A == 1 .. m
               B == m + 1 .. n
    <3>1. A \in SUBSET (1 .. n) /\ B \in SUBSET (1 .. n)
      BY <2>3
    <3>2. \A k : CountOf(t, 1 .. n, k) = CountOf(t, A, k) + CountOf(t, B, k)
      BY <2>3, CountJoin
    <3> HIDE DEF A, B
    <3>3. \A k : CountOf(t, A, k) \in Nat /\ CountOf(t, B, k) \in Nat
      BY <2>3, <3>1, CountFinite
    <3> QED
      BY <3>2, <3>3 DEF A, B
  <2>6. \A k \in Ranks : shown[t][k] = CountOf(t, 1 .. m, k)
    BY <1>4 DEF TailAt
  <2>7. /\ shown' \in [Threads -> [Ranks -> Nat]] /\ offset' \in [Threads -> Nat]
        /\ \A u \in Threads \ {t} : offset'[u] = offset[u] /\ shown'[u] = shown[u]
        /\ offset'[t] = End(t, n)
        /\ \A k \in Ranks : shown'[t][k] = CountOf(t, 1 .. n, k)
    <3> DEFINE row == [k \in Ranks |-> shown[t][k] + CountOf(t, m + 1 .. n, k)]
    <3>1. row \in [Ranks -> Nat] /\ \A k \in Ranks : row[k] = CountOf(t, 1 .. n, k)
      BY <2>5, <2>6
    <3>2. shown' = [shown EXCEPT ![t] = row]
      BY <2>2
    <3> HIDE DEF row
    <3> QED
      BY <1>2, <2>2, <2>4, <3>1, <3>2
  <2>8. TailAt(t, n)'
    <3>1. offset'[t] <= size'[t]
      BY <1>3, <2>1, <2>7
    <3>2. n \in 0 .. Len(log'[t])
      BY <1>3, <2>3
    <3> QED
      BY <1>6, <1>7, <2>3, <2>7, <3>1, <3>2 DEF TailAt
  <2>9. size[t] = EndOf(s) => offset'[t] = EndOf(s)
    <3>1. CASE n = e
      BY <1>5, <2>7, <3>1
    <3>2. CASE n # e
      <4>1. e \in n + 1 .. e
        BY <1>1, <2>3, <3>2
      <4>2. End(t, e) > size[t]
        BY <2>1, <4>1
      <4> QED
        BY <1>1, <1>5, <4>2
    <3> QED
      BY <3>1, <3>2
  <2> QED
    BY <2>3, <2>7, <2>8, <2>9
<1> QED
  BY <1>1, <1>2, <1>8, <1>9

(* The files only grow, at their ends.                                      *)
LEMMA FilesGrow ==
  ASSUME Files, [Next]_vars, NEW t \in Threads
  PROVE  /\ size'[t] >= size[t] /\ size'[t] \in Int /\ size[t] \in Int
         /\ Len(log'[t]) >= Len(log[t]) /\ Len(log[t]) \in Nat /\ Len(log'[t]) \in Nat
         /\ \A i \in 1 .. Len(log[t]) : log'[t][i] = log[t][i]
         /\ \A i \in 0 .. Len(log[t]) : End(t, i)' = End(t, i)
<1>1. size'[t] \in Int /\ size[t] \in Int /\ log[t] \in Seq(Codes) /\ log'[t] \in Seq(Codes)
  <2>1. Files'
    BY FilesStep
  <2> QED
    BY <2>1 DEF Files
<1>2. size'[t] >= size[t]
  <2>1. CASE size' = size
    BY <1>1, <2>1
  <2>2. ASSUME NEW u \in Threads, Thread(u)
        PROVE  size'[t] >= size[t]
    <3>1. CASE u # t
      BY <1>1, <2>2, <3>1, ThreadFrame DEF OnlyMoves
    <3>2. CASE u = t
      <4> USE <3>2 DEF Files
      <4>1. CASE CreateFile(u)
        BY <4>1 DEF CreateFile, Goto, FileFollows
      <4>2. CASE CreateFails(u) \/ StopWalking(u) \/ Finalize(u) \/ \E c \in Codes : EmitClass(u, c)
        <5>1. size' = size
          BY <4>2 DEF CreateFails, StopWalking, Finalize, EmitClass
        <5> QED
          BY <2>1, <5>1
      <4>3. CASE Spill(u) \/ FlushFile(u) \/ WriteFails(u) \/ Panic(u)
        <5>1. Buffered(u) \in Int /\ Buffered(u) >= 0
          <6>1. EndOf(log[t]) \in Nat /\ size[t] <= EndOf(log[t])
            BY <1>1, EndType DEF FileFollows
          <6> QED
            BY <1>1, <6>1 DEF Buffered
        <5>2. \E m \in Nat : size' = [size EXCEPT ![u] = @ + m]
          BY <4>3, <5>1 DEF Spill, FlushFile, WriteFails, Panic
        <5> QED
          BY <1>1, <5>2
      <4> QED
        BY <2>2, <4>1, <4>2, <4>3 DEF Thread
    <3> QED
      BY <3>1, <3>2
  <2>3. CASE Driver
    BY <2>1, <2>3 DEF Driver, CollectResults, CollectFails, Gate, WriteStats, MergeAfterRun, Exit
  <2> QED
    BY <2>1, <2>2, <2>3, KernelKinds
<1>3. log'[t] = log[t] \/ \E c \in Codes : log'[t] = Append(log[t], c)
  BY EmittedStep
<1>4. /\ Len(log'[t]) >= Len(log[t]) /\ Len(log[t]) \in Nat /\ Len(log'[t]) \in Nat
      /\ \A i \in 1 .. Len(log[t]) : log'[t][i] = log[t][i]
  BY <1>1, <1>3
<1>5. \A i \in 0 .. Len(log[t]) : End(t, i)' = End(t, i)
  <2> SUFFICES ASSUME NEW i \in 0 .. Len(log[t]) PROVE Edge(log'[t], i) = Edge(log[t], i)
    BY DEF End, Edge
  <2>1. CASE log'[t] = log[t]
    BY <2>1
  <2>2. ASSUME NEW c \in Codes, log'[t] = Append(log[t], c)
        PROVE  Edge(log'[t], i) = Edge(log[t], i)
    <3>1. log[t] \in Seq(Codes)
      BY <1>1
    <3> QED
      BY <2>2, <3>1, EdgeAppend
  <2> QED
    BY <1>3, <2>1, <2>2
<1> QED
  BY <1>1, <1>2, <1>4, <1>5

LEMMA TailsInit == Init => Tails
<1> SUFFICES ASSUME Init
             PROVE  Tails
  OBVIOUS
<1>1. \A t \in Threads : TailAt(t, 0)
  BY CountEmpty DEF Init, TailAt
<1> QED
  BY <1>1 DEF Init, Tails, ReaderTyped

LEMMA TailsStep == Files /\ Tails /\ [Next]_vars => Tails'
<1> SUFFICES ASSUME Files, Tails, [Next]_vars
             PROVE  Tails'
  OBVIOUS
<1>1. ASSUME NEW t \in Threads, NEW m \in Nat, TailAt(t, m),
             offset'[t] = offset[t], shown'[t] = shown[t]
      PROVE  TailAt(t, m)'
  <2>1. m \in 0 .. Len(log[t]) /\ Len(log[t]) \in Nat
    BY <1>1, FilesGrow DEF TailAt
  <2>2. \A k : CountOf(t, 1 .. m, k)' = CountOf(t, 1 .. m, k)
    <3>1. \A i \in 1 .. m : log'[t][i] = log[t][i]
      BY <2>1, FilesGrow
    <3> QED
      BY <3>1 DEF CountOf
  <2>3. End(t, m)' = End(t, m)
    BY <2>1, FilesGrow
  <2>4. m \in 0 .. Len(log'[t])
    BY <2>1, FilesGrow
  <2>5. offset[t] <= size[t] => offset'[t] <= size'[t]
    BY <1>1, FilesGrow DEF Tails, ReaderTyped
  <2> QED
    BY <1>1, <2>2, <2>3, <2>4, <2>5 DEF TailAt
<1>2. ASSUME ReaderTyped', \A t \in Threads : offset'[t] = offset[t] /\ shown'[t] = shown[t]
      PROVE  Tails'
  BY <1>1, <1>2 DEF Tails
<1>3. ASSUME NEW t \in Threads, UpdateTail(t)
      PROVE  Tails'
  <2>1. ReaderTyped'
    BY <1>3, TailUpdate DEF UpdateTail, Tails, ReaderTyped
  <2>2. \E n \in Nat : TailAt(t, n)'
    BY <1>3, TailUpdate
  <2>3. \A u \in Threads \ {t} : offset'[u] = offset[u] /\ shown'[u] = shown[u]
    BY <1>3, TailUpdate
  <2>4. \A u \in Threads \ {t} : \E m \in Nat : TailAt(u, m)'
    BY <1>1, <2>3 DEF Tails
  <2> QED
    BY <2>1, <2>2, <2>4 DEF Tails
<1>4. CASE FindStream \/ EndOfPass \/ EndOfFinalPass
  BY <1>2, <1>4 DEF FindStream, EndOfPass, EndOfFinalPass, Created, Tails, ReaderTyped
<1>5. CASE UNCHANGED readerVars
  BY <1>2, <1>5 DEF readerVars, Tails, ReaderTyped
<1>6. \/ Reader \/ UNCHANGED readerVars
  <2>1. ASSUME NEW t \in Threads, Thread(t)
        PROVE  UNCHANGED readerVars
    BY <2>1, ThreadFrame DEF OnlyMoves
  <2>2. Driver => UNCHANGED readerVars
    BY DEF Driver, CollectResults, CollectFails, Gate, WriteStats, MergeAfterRun, Exit
  <2>3. Kill \/ MergeByHand => UNCHANGED readerVars
    BY DEF Kill, MergeByHand
  <2> QED
    BY <2>1, <2>2, <2>3 DEF Next, vars
<1> QED
  BY <1>3, <1>4, <1>5, <1>6 DEF Reader

-----------------------------------------------------------------------------
(* The inductive invariant of the files and of what is read of them.        *)
StreamInv == Files /\ LoggedOnce /\ Progress /\ Returned /\ Tails

LEMMA StreamInvariant == Spec => []StreamInv
<1>1. Init => StreamInv
  BY FilesInit, LoggedOnceInit, ProgressInit, ReturnedInit, TailsInit DEF StreamInv
<1>2. StreamInv /\ [Next]_vars => StreamInv'
  BY FilesStep, LoggedOnceStep, ProgressStep, ReturnedStep, TailsStep DEF StreamInv
<1> QED
  BY <1>1, <1>2, PTL DEF Spec

(* Wherever the system has cut a file off, `dec progress` has counted a     *)
(* prefix of its records, each once and each whole, and its offset is where *)
(* the next one starts: for every tree, number of threads and buffer size,  *)
(* with full disks, panics and kills (WorkerTail, progress.py:68-110).      *)
THEOREM TailIsPrefixCorrect == Spec => []TailIsPrefix
<1>1. ASSUME StreamInv
      PROVE  TailIsPrefix
  <2> USE <1>1 DEF StreamInv
  <2>1. \A t \in Threads : \E m \in 0 .. Len(log[t]) : TailAt(t, m)
    BY DEF Tails, TailAt
  <2>2. \A t \in Threads : /\ ToSet(log[t]) \subseteq Codes
                           /\ size[t] \in -1 .. EndOf(log[t])
                           /\ offset[t] \in 0 .. EndOf(log[t])
    <3> SUFFICES ASSUME NEW t \in Threads
                 PROVE  /\ ToSet(log[t]) \subseteq Codes
                        /\ size[t] \in -1 .. EndOf(log[t])
                        /\ offset[t] \in 0 .. EndOf(log[t])
      OBVIOUS
    <3>1. /\ log[t] \in Seq(Codes) /\ size[t] \in Int
          /\ size[t] >= -1 /\ size[t] <= EndOf(log[t])
      BY DEF Files, FileFollows
    <3>2. EndOf(log[t]) \in Nat
      BY <3>1, EndType
    <3>3. offset[t] \in Nat /\ (offset[t] <= size[t] \/ offset[t] = 0)
      BY <2>1 DEF TailAt, Tails, ReaderTyped
    <3>4. ToSet(log[t]) \subseteq Codes
      BY <3>1 DEF ToSet
    <3> QED
      BY <3>1, <3>2, <3>3, <3>4
  <2>3. shown \in [Threads -> [Ranks -> 0 .. Cardinality(Codes)]]
    <3>1. \A t \in Threads : \A k \in Ranks : shown[t][k] \in 0 .. Cardinality(Codes)
      <4> SUFFICES ASSUME NEW t \in Threads, NEW k \in Ranks
                   PROVE  shown[t][k] \in 0 .. Cardinality(Codes)
        OBVIOUS
      <4>1. PICK m \in 0 .. Len(log[t]) : shown[t][k] = CountOf(t, 1 .. m, k)
        BY <2>1 DEF TailAt
      <4> DEFINE I == 1 .. m
      <4>2. I \in SUBSET (1 .. Len(log[t]))
        BY <4>1 DEF Files
      <4>3. shown[t][k] = CountOf(t, I, k)
        BY <4>1
      <4> HIDE DEF I
      <4> QED
        BY <4>2, <4>3, CountBounded
    <3> QED
      BY <3>1 DEF Tails, ReaderTyped
  <2>4. TypeOK
    BY <2>2, <2>3 DEF TypeOK, Files, Places, Returned, Tails, ReaderTyped
  <2> QED
    BY <2>1, <2>4 DEF TailIsPrefix, TailAt
<1> QED
  BY <1>1, StreamInvariant, PTL

-----------------------------------------------------------------------------
(***************************************************************************)
(* The last pass.                                                          *)
(***************************************************************************)

AtEnd(t) == offset[t] = EndOf(log[t])

(* Once stats.json is there nobody writes any more and every file is whole; *)
(* the pass that begins then takes every file to its end.                   *)
LastPass ==
  /\ rpc \in {"final", "exited"} => stats
  /\ rpc = "final" => \A t \in Threads \ todo : AtEnd(t)
  /\ rpc = "exited" => \A t \in Threads : AtEnd(t)

LEMMA WholeAfterReturn ==
  ASSUME Files, Progress, Returned, stats
  PROVE  /\ AllEmitted
         /\ \A t \in Threads : /\ size[t] = EndOf(log[t]) /\ EndOf(log[t]) \in Nat
                               /\ EndOf(log[t]) >= 1 /\ log[t] \in Seq(Codes)
                               /\ pc[t] \notin {"create", "walk", "finalize"}
<1>1. pc[Main] \in {"merge", "exit"}
  BY DEF Returned
<1>2. AllEmitted /\ \A w \in Workers : pc[w] = "done"
  BY <1>1 DEF Progress, Collected
<1>3. \A t \in Threads : pc[t] \in Finished
  BY <1>1, <1>2, ThreadsFinite DEF Finished
<1>4. \A t \in Threads : log[t] \in Seq(Codes) /\ size[t] = EndOf(log[t])
  BY <1>3 DEF Files, FileFollows
<1> QED
  BY <1>2, <1>3, <1>4, EndType DEF Finished

LEMMA LastPassStep ==
  ASSUME Files, Progress, Returned, Tails, LastPass, [Next]_vars
  PROVE  LastPass'
<1>1. stats => stats' /\ UNCHANGED log
  <2> SUFFICES ASSUME stats
               PROVE  stats' /\ UNCHANGED log
    OBVIOUS
  <2>1. ~ \E t \in Threads : Thread(t)
    BY WholeAfterReturn, ThreadMoves
  <2>2. log' = log
    BY <2>1, LogStep DEF Thread
  <2>3. stats' \/ stats' = stats
    BY <2>1 DEF Next, Driver, CollectResults, CollectFails, Gate, WriteStats, MergeAfterRun,
                Exit, Kill, MergeByHand, Reader, FindStream, UpdateTail, EndOfPass,
                EndOfFinalPass, vars, kernelVars, scriptVars
  <2> QED
    BY <2>2, <2>3
<1>2. CASE UNCHANGED readerVars
  BY <1>1, <1>2 DEF LastPass, AtEnd, readerVars
<1>3. CASE Reader
  <2>1. UNCHANGED <<log, size, stats>>
    BY <1>3, ReaderFrame DEF kernelVars, scriptVars
  <2>2. CASE FindStream
    BY <2>1, <2>2 DEF FindStream, LastPass
  <2>3. ASSUME NEW t \in Threads, UpdateTail(t)
        PROVE  LastPass'
    <3>1. rpc' = rpc /\ todo' = todo \ {t} /\ t \in todo
      BY <2>3 DEF UpdateTail
    <3>2. /\ size[t] = EndOf(log[t]) => offset'[t] = EndOf(log[t])
          /\ \A u \in Threads \ {t} : offset'[u] = offset[u]
      BY <2>3, TailUpdate
    <3>3. rpc = "final" => AtEnd(t)'
      BY <2>1, <3>2, WholeAfterReturn DEF LastPass, AtEnd
    <3>4. \A u \in Threads \ {t} : AtEnd(u)' <=> AtEnd(u)
      BY <2>1, <3>2 DEF AtEnd
    <3>5. rpc = "exited" => AtEnd(t)'
      BY <2>1, <3>2, WholeAfterReturn DEF LastPass, AtEnd
    <3> QED
      BY <2>1, <3>1, <3>3, <3>4, <3>5 DEF LastPass
  <2>4. CASE EndOfPass
    <3>1. stats => Created = Threads
      BY WholeAfterReturn DEF Created
    <3>2. rpc' = "final" => stats
      BY <2>4 DEF EndOfPass
    <3>3. rpc' = "pass" \/ (rpc' = "final" /\ todo' = Created)
      BY <2>4 DEF EndOfPass
    <3> QED
      BY <2>1, <3>1, <3>2, <3>3 DEF LastPass
  <2>5. CASE EndOfFinalPass
    BY <2>1, <2>5 DEF EndOfFinalPass, LastPass, AtEnd
  <2> QED
    BY <1>3, <2>2, <2>3, <2>4, <2>5 DEF Reader
<1>4. \/ Reader \/ UNCHANGED readerVars
  <2>1. ASSUME NEW t \in Threads, Thread(t)
        PROVE  UNCHANGED readerVars
    BY <2>1, ThreadFrame DEF OnlyMoves
  <2>2. Driver => UNCHANGED readerVars
    BY DEF Driver, CollectResults, CollectFails, Gate, WriteStats, MergeAfterRun, Exit
  <2>3. Kill \/ MergeByHand => UNCHANGED readerVars
    BY DEF Kill, MergeByHand
  <2> QED
    BY <2>1, <2>2, <2>3 DEF Next, vars
<1> QED
  BY <1>2, <1>3, <1>4

(* The classes of rank k in a file.                                         *)
InFile(t, k) == OfRank(ToSet(log[t]), k)

(* What is additive over disjoint sets of classes adds up, over the files,  *)
(* to its value at all classes of the rank.                                 *)
LEMMA SumOfFiles ==
  ASSUME Files, LoggedOnce, AllEmitted, NEW k, NEW M, Additive(M, Codes),
         NEW f, \A t \in Threads : f[t] = M[InFile(t, k)]
  PROVE  SumOver(f, Threads) = M[OfRank(Codes, k)]
<1> DEFINE P == [t \in Threads |-> InFile(t, k)]
<1>1. \A t \in Threads : \A c : c \in ToSet(log[t]) <=> LoggedBy(t, c)
  <2>1. \A t \in Threads : log[t] \in Seq(Codes) /\ DOMAIN log[t] = 1 .. Len(log[t])
    BY DEF Files
  <2> QED
    BY <2>1 DEF ToSet, LoggedBy
<1>2. \A c : c \in Codes <=> \E t \in Threads : LoggedBy(t, c)
  BY EmittedIsLogged DEF AllEmitted
<1>3. P \in [Threads -> SUBSET Codes]
  BY <1>1, <1>2 DEF InFile, OfRank
<1>4. \A t, u \in Threads : t # u => P[t] \cap P[u] = {}
  <2>1. \A t, u \in Threads : \A c : LoggedBy(t, c) /\ LoggedBy(u, c) => t = u
    BY DEF LoggedOnce, LoggedBy
  <2> QED
    BY <1>1, <2>1 DEF InFile, OfRank
<1>5. UnionOf(P, Threads) = OfRank(Codes, k)
  <2>1. \A c : c \in UnionOf(P, Threads) <=> \E t \in Threads : c \in InFile(t, k)
    BY DEF UnionOf
  <2>2. \A c : c \in UnionOf(P, Threads) <=> c \in OfRank(Codes, k)
    BY <1>1, <1>2, <2>1 DEF InFile, OfRank
  <2> QED
    BY <2>2
<1>6. \A t \in Threads : f[t] = M[P[t]]
  OBVIOUS
<1> HIDE DEF P
<1> QED
  BY <1>3, <1>4, <1>5, <1>6, ThreadsFinite, SumOfParts

LEMMA CardinalityAdditive ==
  Additive([S \in SUBSET Codes |-> Cardinality(S)], Codes)
<1> DEFINE M == [S \in SUBSET Codes |-> Cardinality(S)]
<1>1. \A S \in SUBSET Codes : IsFiniteSet(S) /\ Cardinality(S) \in Nat
  BY ThreadsFinite, FS_Subset, FS_CardinalityType
<1>2. ASSUME NEW S \in SUBSET Codes, NEW T \in SUBSET Codes, S \cap T = {}
      PROVE  M[S \cup T] = M[S] + M[T]
  <2>1. Cardinality(S \cup T) = Cardinality(S) + Cardinality(T) - Cardinality(S \cap T)
    BY <1>1, FS_Union
  <2>2. Cardinality(S \cap T) = 0
    BY <1>2, FS_EmptySet
  <2>3. Cardinality(S \cup T) = Cardinality(S) + Cardinality(T)
    BY <1>1, <2>1, <2>2
  <2>4. S \cup T \in SUBSET Codes
    OBVIOUS
  <2> QED
    BY <2>3, <2>4
<1>3. M \in [SUBSET Codes -> Nat]
  BY <1>1
<1> QED
  BY <1>2, <1>3 DEF Additive

(* A file that is counted to its end has each of its classes counted once.  *)
LEMMA CountOfFile ==
  ASSUME Files, LoggedOnce, NEW t \in Threads, NEW k
  PROVE  CountOf(t, 1 .. Len(log[t]), k) = Cardinality(InFile(t, k))
<1> DEFINE J == {i \in 1 .. Len(log[t]) : Rank[log[t][i]] = k}
           f == [i \in J |-> log[t][i]]
<1>1. log[t] \in Seq(Codes) /\ DOMAIN log[t] = 1 .. Len(log[t]) /\ Len(log[t]) \in Nat
  BY DEF Files
<1>2. \A c : c \in InFile(t, k) <=> \E i \in J : c = log[t][i]
  BY <1>1 DEF InFile, OfRank, ToSet
<1>3. f \in Bijection(J, InFile(t, k))
  <2>1. f \in [J -> InFile(t, k)]
    BY <1>2
  <2>2. \A i, j \in J : f[i] = f[j] => i = j
    BY DEF LoggedOnce
  <2>3. \A c \in InFile(t, k) : \E i \in J : f[i] = c
    BY <1>2
  <2> QED
    BY <2>1, <2>2, <2>3 DEF Bijection, Injection, Surjection, IsInjective
<1>4. IsFiniteSet(J)
  <2>1. IsFiniteSet(1 .. Len(log[t])) /\ J \in SUBSET (1 .. Len(log[t]))
    BY <1>1, FS_Interval
  <2> QED
    BY <2>1, FS_Subset
<1>5. ExistsBijection(J, InFile(t, k))
  BY <1>3 DEF ExistsBijection
<1> HIDE DEF J
<1>6. Cardinality(InFile(t, k)) = Cardinality(J)
  BY <1>4, <1>5, FS_Bijection
<1> QED
  BY <1>6 DEF CountOf, J

(* The sum that the last table shows, as a sum over a function.             *)
LEMMA ShownIsSum ==
  ASSUME NEW k, \A t \in Threads : shown[t][k] \in Nat
  PROVE  MapThenSumSet(LAMBDA t : shown[t][k], Threads)
           = SumOver([t \in Threads |-> shown[t][k]], Threads)
<1> DEFINE f == [t \in Threads |-> shown[t][k]]
           At(h) == h = [s \in SUBSET Threads |->
                           IF s = {} THEN 0 ELSE shown[Picked(s)][k] + h[s \ {Picked(s)}]]
           h == CHOOSE h : At(h)
<1>1. MapThenSumSet(LAMBDA t : shown[t][k], Threads) = h[Threads]
  BY DEF MapThenSumSet, MapThenFoldSet, Picked
<1>2. PICK g \in [SUBSET Threads -> Nat] : Gives(f, g, Threads)
  <2>1. \A t \in Threads : f[t] \in Nat
    OBVIOUS
  <2> HIDE DEF f
  <2> QED
    BY <2>1, ThreadsFinite, SumValue
<1>3. At(g)
  <2>1. \A s \in SUBSET Threads : s # {} => f[Picked(s)] = shown[Picked(s)][k]
    BY DEF Picked
  <2> HIDE DEF f
  <2> QED
    BY <1>2, <2>1 DEF Gives, IsSum
<1>4. At(h)
  BY <1>3
<1>5. IsSum(f, h, SUBSET Threads)
  <2>1. \A s \in SUBSET Threads : s # {} => f[Picked(s)] = shown[Picked(s)][k]
    BY DEF Picked
  <2> HIDE DEF f, h
  <2> QED
    BY <1>4, <2>1 DEF IsSum
<1> HIDE DEF f, h
<1>6. h[Threads] = g[Threads]
  BY <1>2, <1>5, ThreadsFinite, SumUnique DEF Gives
<1>7. SumOver(f, Threads) = g[Threads]
  BY <1>2 DEF Gives
<1> QED
  BY <1>1, <1>6, <1>7 DEF f

(* `dec progress` ends with a table that has every class, for every tree,   *)
(* number of threads and buffer size, and whatever the files looked like    *)
(* when the pass before went over them (progress.py:490-497).               *)
THEOREM FinalSnapshotCompleteCorrect == Spec => []FinalSnapshotComplete
<1>1. Init => LastPass
  BY DEF Init, LastPass
<1>2. StreamInv /\ LastPass /\ [Next]_vars => LastPass'
  BY LastPassStep DEF StreamInv
<1>3. ASSUME StreamInv, LastPass, rpc = "exited", NEW k \in Ranks
      PROVE  MapThenSumSet(LAMBDA t : shown[t][k], Threads) = Cardinality(OfRank(Codes, k))
  <2> USE <1>3 DEF StreamInv
  <2> DEFINE M == [S \in SUBSET Codes |-> Cardinality(S)]
             f == [t \in Threads |-> shown[t][k]]
  <2>1. AllEmitted
    BY <1>3, WholeAfterReturn DEF LastPass
  <2>2. ASSUME NEW t \in Threads
        PROVE  shown[t][k] = M[InFile(t, k)] /\ shown[t][k] \in Nat
    <3>1. /\ log[t] \in Seq(Codes) /\ offset[t] = EndOf(log[t]) /\ EndOf(log[t]) >= 1
          /\ EndOf(log[t]) \in Nat /\ Len(log[t]) \in Nat
      BY <1>3, WholeAfterReturn DEF LastPass, AtEnd
    <3>2. PICK m \in 0 .. Len(log[t]) : TailAt(t, m)
      BY DEF Tails, TailAt
    <3>3. offset[t] = End(t, m)
      BY <3>1, <3>2 DEF TailAt
    <3>4. m < Len(log[t]) => End(t, m) + 2 <= EndOf(log[t]) /\ End(t, m) \in Nat
      <4>1. Edge(log[t], Len(log[t])) = EndOf(log[t])
        BY <3>1, EdgeEnds
      <4>2. Len(log[t]) \in 0 .. Len(log[t])
        BY <3>1
      <4> QED
        BY <3>1, <4>1, <4>2, EdgeOrder DEF End, Edge
    <3>5. m = Len(log[t])
      BY <3>1, <3>3, <3>4
    <3>6. shown[t][k] = Cardinality(InFile(t, k))
      BY <3>2, <3>5, CountOfFile DEF TailAt
    <3>7. InFile(t, k) \in SUBSET Codes
      BY <3>1 DEF InFile, OfRank, ToSet
    <3>8. shown[t][k] \in Nat
      BY DEF Tails, ReaderTyped
    <3> QED
      BY <3>6, <3>7, <3>8
  <2>3. SumOver(f, Threads) = M[OfRank(Codes, k)]
    <3>1. \A t \in Threads : f[t] = M[InFile(t, k)]
      BY <2>2
    <3>2. Additive(M, Codes)
      BY CardinalityAdditive
    <3> HIDE DEF f, M
    <3> QED
      BY <2>1, <3>1, <3>2, SumOfFiles
  <2>4. OfRank(Codes, k) \in SUBSET Codes
    BY DEF OfRank
  <2> QED
    BY <2>2, <2>3, <2>4, ShownIsSum
<1>4. StreamInv /\ LastPass => FinalSnapshotComplete
  BY <1>3 DEF FinalSnapshotComplete
<1> QED
  BY <1>1, <1>2, <1>4, StreamInvariant, PTL DEF Spec

-----------------------------------------------------------------------------
(***************************************************************************)
(* The merge.                                                              *)
(***************************************************************************)

(* In whole files, a record begun is a record there.                        *)
LEMMA WholeFilesRead ==
  ASSUME Files, Progress, Returned, stats, NEW t \in Threads
  PROVE  /\ size[t] > 0 /\ size[t] # -1
         /\ Begun(t, 1) = 1 .. Len(log[t]) /\ Begun(t, 2) = 1 .. Len(log[t])
         /\ \A j \in 1 .. Len(log[t]) : End(t, j) <= size[t]
         /\ \A k : RecordsOf(t, k, 2) = InFile(t, k)
<1>1. /\ size[t] = EndOf(log[t]) /\ EndOf(log[t]) \in Nat /\ EndOf(log[t]) >= 1
      /\ log[t] \in Seq(Codes) /\ Len(log[t]) \in Nat /\ DOMAIN log[t] = 1 .. Len(log[t])
  BY WholeAfterReturn
<1>2. \A j \in 1 .. Len(log[t]) :
        /\ Start(t, j) \in Nat /\ End(t, j) \in Nat
        /\ Start(t, j) + 2 <= End(t, j) /\ End(t, j) <= EndOf(log[t])
  <2> SUFFICES ASSUME NEW j \in 1 .. Len(log[t])
               PROVE  /\ Start(t, j) \in Nat /\ End(t, j) \in Nat
                      /\ Start(t, j) + 2 <= End(t, j) /\ End(t, j) <= EndOf(log[t])
    OBVIOUS
  <2> DEFINE e == Len(log[t])
             i == j - 1
  <2>1. j \in 0 .. e /\ i \in 0 .. j /\ j \in 0 .. j /\ i < j /\ e \in 0 .. e /\ j \in 0 .. e
    BY <1>1
  <2>2. Edge(log[t], e) = EndOf(log[t]) /\ End(t, j) = Edge(log[t], j) /\ Start(t, j) = Edge(log[t], i)
    BY <1>1, EdgeEnds DEF End, Start, Edge
  <2>3. \A n \in 0 .. e : \A m \in 0 .. n :
          /\ Edge(log[t], m) \in Nat
          /\ m < n => Edge(log[t], m) + 2 <= Edge(log[t], n)
    BY <1>1, EdgeOrder
  <2> HIDE DEF e, i
  <2>4. Edge(log[t], i) \in Nat /\ Edge(log[t], j) \in Nat /\ Edge(log[t], i) + 2 <= Edge(log[t], j)
    BY <2>1, <2>3
  <2>5. j = e \/ Edge(log[t], j) + 2 <= Edge(log[t], e)
    BY <2>1, <2>3 DEF e
  <2> QED
    BY <1>1, <2>2, <2>4, <2>5
<1>3. Begun(t, 1) = 1 .. Len(log[t]) /\ Begun(t, 2) = 1 .. Len(log[t])
  <2>1. \A j \in 1 .. Len(log[t]) : Start(t, j) + 1 <= size[t] /\ Start(t, j) + 2 <= size[t]
    BY <1>1, <1>2
  <2> QED
    BY <2>1 DEF Begun
<1>4. \A k : RecordsOf(t, k, 2) = InFile(t, k)
  BY <1>1, <1>3 DEF RecordsOf, InFile, OfRank, ToSet
<1> QED
  BY <1>1, <1>2, <1>3, <1>4

(* The mass that the merge finds, as a sum over a function.                 *)
LEMMA MassFoundIsSum ==
  ASSUME NEW k, Created = Threads, \A t \in Threads : Mass[RecordsOf(t, k, 2)] \in Nat
  PROVE  MassFound(k) = SumOver([t \in Threads |-> Mass[RecordsOf(t, k, 2)]], Threads)
<1> DEFINE f == [t \in Threads |-> Mass[RecordsOf(t, k, 2)]]
           At(h) == h = [s \in SUBSET Threads |->
                           IF s = {} THEN 0
                           ELSE Mass[RecordsOf(Picked(s), k, 2)] + h[s \ {Picked(s)}]]
           h == CHOOSE h : At(h)
<1>1. MassFound(k) = h[Threads]
  BY DEF MassFound, MapThenSumSet, MapThenFoldSet, Picked
<1>2. PICK g \in [SUBSET Threads -> Nat] : Gives(f, g, Threads)
  <2>1. \A t \in Threads : f[t] \in Nat
    OBVIOUS
  <2> HIDE DEF f
  <2> QED
    BY <2>1, ThreadsFinite, SumValue
<1>3. \A s \in SUBSET Threads : s # {} => f[Picked(s)] = Mass[RecordsOf(Picked(s), k, 2)]
  BY DEF Picked
<1>4. At(g)
  <2> HIDE DEF f
  <2> QED
    BY <1>2, <1>3 DEF Gives, IsSum
<1>5. At(h)
  BY <1>4
<1>6. IsSum(f, h, SUBSET Threads)
  <2> HIDE DEF f, h
  <2> QED
    BY <1>3, <1>5 DEF IsSum
<1> HIDE DEF f, h
<1>7. h[Threads] = g[Threads]
  BY <1>2, <1>6, ThreadsFinite, SumUnique DEF Gives
<1>8. SumOver(f, Threads) = g[Threads]
  BY <1>2 DEF Gives
<1> QED
  BY <1>1, <1>7, <1>8 DEF f

LEMMA MassAdditive == Additive(Mass, Codes)
BY MassAssumption DEF Additive

(* The files of a run that has returned have what the merge asks for.       *)
LEMMA ReturnedAccepts ==
  ASSUME StreamInv, stats
  PROVE  Accepts
<1> USE DEF StreamInv
<1>1. Created = Threads
  BY WholeFilesRead DEF Created
<1>2. Readable
  BY <1>1, WholeFilesRead DEF Readable
<1>3. ASSUME NEW k \in Ranks
      PROVE  MassFound(k) = Quota[k]
  <2> DEFINE f == [t \in Threads |-> Mass[RecordsOf(t, k, 2)]]
  <2>1. \A t \in Threads : RecordsOf(t, k, 2) = InFile(t, k) /\ InFile(t, k) \in SUBSET Codes
    <3>1. \A t \in Threads : log[t] \in Seq(Codes)
      BY DEF Files
    <3> QED
      BY <3>1, WholeFilesRead DEF InFile, OfRank, ToSet
  <2>2. \A t \in Threads : Mass[RecordsOf(t, k, 2)] \in Nat
    BY <2>1, MassAssumption
  <2>3. MassFound(k) = SumOver(f, Threads)
    BY <1>1, <2>2, MassFoundIsSum
  <2>4. \A t \in Threads : f[t] = Mass[InFile(t, k)]
    BY <2>1
  <2>5. AllEmitted
    BY WholeAfterReturn
  <2> HIDE DEF f
  <2>6. SumOver(f, Threads) = Mass[OfRank(Codes, k)]
    BY <2>4, <2>5, MassAdditive, SumOfFiles
  <2> QED
    BY <2>3, <2>6 DEF Quota
<1>4. 0 .. Max({0} \cup RanksFound) \subseteq Ranks
  <2> DEFINE C == {0} \cup RanksFound
  <2>1. MaxK \in Nat /\ C \subseteq 0 .. MaxK /\ C # {}
    BY RankAssumption DEF RanksFound, Ranks
  <2> HIDE DEF C
  <2>2. Max(C) \in 0 .. MaxK
    BY <2>1, GreatestNumber
  <2> QED
    BY <2>1, <2>2 DEF Ranks, C
<1> QED
  BY <1>2, <1>3, <1>4 DEF Accepts

(* A verdict on a run that has returned is that it is accepted.             *)
Vindicated == stats /\ verdict # "none" => verdict = "accepted"

LEMMA VindicatedStep ==
  ASSUME StreamInv, Vindicated, [Next]_vars
  PROVE  Vindicated'
<1>1. CASE UNCHANGED <<stats, verdict>>
  BY <1>1 DEF Vindicated
<1>2. CASE WriteStats
  BY <1>2 DEF WriteStats, Goto, StreamInv, Returned, Vindicated
<1>3. CASE MergeAfterRun \/ MergeByHand
  <2>1. stats' = stats /\ JudgeFiles
    BY <1>3 DEF MergeAfterRun, MergeByHand
  <2> QED
    BY <2>1, ReturnedAccepts DEF JudgeFiles, Vindicated
<1>4. \/ UNCHANGED <<stats, verdict>>
      \/ WriteStats \/ MergeAfterRun \/ MergeByHand
  <2>1. ASSUME NEW t \in Threads, Thread(t)
        PROVE  UNCHANGED <<stats, verdict>>
    BY <2>1, ThreadFrame DEF OnlyMoves, scriptVars, StreamInv
  <2>2. CollectResults \/ CollectFails \/ Gate \/ Exit \/ Kill => UNCHANGED <<stats, verdict>>
    BY DEF CollectResults, CollectFails, Gate, Exit, Kill, scriptVars
  <2>3. Reader \/ UNCHANGED vars => UNCHANGED <<stats, verdict>>
    BY ReaderFrame DEF vars, scriptVars
  <2> QED
    BY <2>1, <2>2, <2>3 DEF Next, Driver
<1> QED
  BY <1>1, <1>2, <1>3, <1>4

(* merge_stream.py accepts every run that the kernel has returned from, and *)
(* there is then a whole record of each class on disk: for every tree,      *)
(* number of threads and buffer size (run_streaming.py:193-207).            *)
THEOREM ReturnedIsAcceptedCorrect == Spec => []ReturnedIsAccepted
<1>1. Init => Vindicated
  BY DEF Init, Vindicated
<1>2. StreamInv /\ Vindicated /\ [Next]_vars => Vindicated'
  BY VindicatedStep
<1>3. ASSUME StreamInv, stats
      PROVE  UNION {{log[t][i] : i \in {j \in 1 .. Len(log[t]) : End(t, j) <= size[t]}} :
                    t \in Threads} = Codes
  <2> USE <1>3 DEF StreamInv
  <2> DEFINE D(t) == {log[t][i] : i \in {j \in 1 .. Len(log[t]) : End(t, j) <= size[t]}}
  <2>1. \A t \in Threads : \A c : c \in D(t) <=> LoggedBy(t, c)
    BY WholeFilesRead DEF LoggedBy
  <2>2. \A c : c \in Codes <=> \E t \in Threads : LoggedBy(t, c)
    BY EmittedIsLogged, WholeAfterReturn DEF AllEmitted
  <2> HIDE DEF D
  <2>3. UNION {D(t) : t \in Threads} = Codes
    BY <2>1, <2>2
  <2> QED
    BY <2>3 DEF D
<1>4. StreamInv /\ Vindicated => ReturnedIsAccepted
  BY <1>3 DEF Vindicated, ReturnedIsAccepted
<1> QED
  BY <1>1, <1>2, <1>4, StreamInvariant, PTL DEF Spec

=============================================================================

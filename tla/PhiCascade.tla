------------------------------ MODULE PhiCascade ------------------------------
(***************************************************************************)
(* The coset-spectrum parent rule, evaluated in the split frame.  A        *)
(* candidate v of a parent code C is tested by comparing the functionals   *)
(* on D = <C, v> stratum by stratum; the parent's half of that work lives  *)
(* in a context that all candidates of one parent share, that is filled    *)
(* lazily, and whose storage a thread recycles from parent to parent.      *)
(*                                                                         *)
(* One thread walks: its frames are a stack, each with the context of its  *)
(* parent.  Candidates come in any order and any number of times, which    *)
(* contains the order of the candidate list.  A coordinate vector or a     *)
(* functional on C is a set of row numbers 0 .. k - 1; bit k, the one of   *)
(* v, is set in the functionals of the coset's half.                       *)
(***************************************************************************)
EXTENDS ParentRule, DirectSum

CONSTANTS
  N,                (* code length                                           *)
  Codes,            (* the parents: reduced bases, as sequences of rows      *)
  Candidates,       (* the candidates of each parent                         *)
  DirectThreshold,  (* up to this many functionals are counted one by one    *)
  MaxDepth,         (* frames on the stack                                   *)
  NoCtx

ASSUME PhiAssumption ==
  /\ N \in Nat \ {0}
  /\ \A c \in Codes : c \in Seq(SUBSET (0 .. N - 1)) /\ RowReduce(c, N).rref = c
  /\ DOMAIN Candidates = Codes
  /\ DirectThreshold \in Nat /\ MaxDepth \in Nat \ {0}

(* A candidate is a word of length N that extends its parent to a doubly    *)
(* even code of one more dimension: all nonzero words of <C, v> have these  *)
(* weights.                                                                 *)
Weights == {w \in 1 .. N : w % 4 = 0}

ASSUME CandidateAssumption ==
  \A c \in Codes : \A v \in Candidates[c] :
    /\ v \subseteq 0 .. N - 1
    /\ \A x \in SUBSET (0 .. Len(c)) :
         x # Zero => Weight(Combination(Append(c, v), x)) \in Weights

VARIABLES
  frames,   (* the open frames: the parent's rows and its PhiParentSlot      *)
  pool,     (* PHI_CTX_POOL: contexts of frames that were closed             *)
  cand,     (* the candidate under test, or the last one tested              *)
  at,       (* the weight of the last stratum looked at                      *)
  chain,    (* 0, or the entry of the parent's E-chain that stands for the   *)
            (* argmin set                                                    *)
  m,        (* PhiScratch.m_buf                                              *)
  listed,   (* PhiScratch.sorted_v: the coset's members by weight            *)
  outcome   (* none while the test runs                                      *)

vars == <<frames, pool, cand, at, chain, m, listed, outcome>>

-----------------------------------------------------------------------------
(* The two halves of the frame.                                             *)

Coords(rows) == SUBSET (0 .. Len(rows) - 1)

(* The coordinates of the words of C, and of v + C, by weight.              *)
MembersC ==
  [rows \in Codes |-> [w \in 1 .. N |-> {x \in Coords(rows) : Weight(Combination(rows, x)) = w}]]

MembersV ==
  [rows \in Codes |-> [v \in Candidates[rows] |->
     [w \in 1 .. N |-> {x \in Coords(rows) : Weight(Xor(Combination(rows, x), v)) = w}]]]

(* The Walsh-Hadamard transform of the indicator of S.                      *)
Walsh(S, rows) ==
  [u \in Coords(rows) |-> Cardinality(S) - 2 * Cardinality({x \in S : Odd(u, x)})]

Lowest == - (2^N)

-----------------------------------------------------------------------------
(* A parent's context.                                                      *)

FreshCtx == [rows |-> <<>>, fhat |-> <<>>, built |-> {},
             chainE |-> <<>>, chainBound |-> <<>>, chainW |-> <<>>, chainLen |-> 0]

(* Mutants: the tables, or the chain, of an earlier parent stay valid.      *)
BuildKeepsTables(ctx, rows) == [ctx EXCEPT !.rows = rows, !.chainLen = 0]

BuildKeepsChain(ctx, rows) == [ctx EXCEPT !.rows = rows, !.built = {}]

(* What was built for an earlier parent stays in the storage.               *)
Build(ctx, rows) == [ctx EXCEPT !.rows = rows, !.built = {}, !.chainLen = 0]

EnsureFHat(ctx, w) ==
  IF w \in ctx.built THEN ctx
  ELSE [ctx EXCEPT !.fhat = [s \in {w} \cup DOMAIN @ |->
                               IF s = w THEN Walsh(MembersC[ctx.rows][w], ctx.rows) ELSE @[s]],
                   !.built = @ \cup {w}]

(* E_w and amax_w, for a stratum that has been built.                       *)
ESet(ctx, w) ==
  {u \in Coords(ctx.rows) \ {Zero} : ctx.fhat[w][u] = Cardinality(MembersC[ctx.rows][w])}

(* Mutant: the zero functional competes.                                    *)
AMaxWithZero(ctx, w) == Max({ctx.fhat[w][u] : u \in Coords(ctx.rows)})

AMax(ctx, w) == Max({ctx.fhat[w][u] : u \in Coords(ctx.rows) \ {Zero}})

Put(seq, i, value) == IF i <= Len(seq) THEN [seq EXCEPT ![i] = value] ELSE Append(seq, value)

(* Mutant: an entry forgets the entries before it.                          *)
EnsureChainFresh(ctx, i, w) ==
  LET b == EnsureFHat(ctx, w)
  IN IF i <= ctx.chainLen THEN ctx
     ELSE [b EXCEPT
             !.chainE = Put(@, i, ESet(b, w)),
             !.chainBound = Put(@, i, IF i = 1 THEN Lowest
                                      ELSE Max({b.fhat[w][u] : u \in b.chainE[i - 1]})),
             !.chainW = Put(@, i, w),
             !.chainLen = i]

(* Entry i of the chain: the functionals that all words of the parent's     *)
(* first i strata vanish under, and the best of the entry before it.        *)
EnsureChain(ctx, i, w) ==
  LET b == EnsureFHat(ctx, w)
      tc == Cardinality(MembersC[ctx.rows][w])
  IN IF i <= ctx.chainLen THEN ctx
     ELSE [b EXCEPT
             !.chainE = Put(@, i, IF i = 1 THEN ESet(b, w)
                                  ELSE {u \in b.chainE[i - 1] : b.fhat[w][u] = tc}),
             !.chainBound = Put(@, i, IF i = 1 THEN Lowest
                                      ELSE Max({b.fhat[w][u] : u \in b.chainE[i - 1]})),
             !.chainW = Put(@, i, w),
             !.chainLen = i]

-----------------------------------------------------------------------------
(* The walk around the test.                                                *)

Top == Last(frames)
Rows == Top.rows
Ctx == Top.ctx
uC == Own(Rows)

WithCtx(ctx) == frames' = [frames EXCEPT ![Len(frames)].ctx = ctx]

Idle == outcome # "none"

Init ==
  /\ frames = <<>> /\ pool = <<>>
  /\ cand = Zero /\ at = 0 /\ chain = 0 /\ m = {} /\ listed = <<>>
  /\ outcome = "idle"

(* A worker takes a seed.                                                   *)
OpenSeed(c) ==
  /\ frames = <<>>
  /\ frames' = <<[rows |-> c, ctx |-> NoCtx]>>
  /\ outcome' = "idle"
  /\ UNCHANGED <<pool, cand, at, chain, m, listed>>

(* The walk enters a child it accepted.  A tie may also be rejected, by the *)
(* order of the canonical labelling; the bound on Codes keeps some children *)
(* out.                                                                     *)
Descend ==
  /\ outcome \in {"unique", "tie"}
  /\ Len(frames) < MaxDepth
  /\ LET D == RowReduce(Append(Rows, cand), N).rref
     IN D \in Codes /\ frames' = Append(frames, [rows |-> D, ctx |-> NoCtx])
  /\ outcome' = "idle"
  /\ UNCHANGED <<pool, cand, at, chain, m, listed>>

(* The frame's slot is dropped, and its context returns to the pool.        *)
CloseFrame ==
  /\ Idle /\ frames # <<>>
  /\ frames' = Front(frames)
  /\ pool' = IF Ctx = NoCtx THEN pool ELSE Append(pool, Ctx)
  /\ outcome' = "idle"
  /\ UNCHANGED <<cand, at, chain, m, listed>>

(* PhiParentSlot::ensure, then the coset's weights.  m keeps what the last  *)
(* test left in it.                                                         *)
Begin(v) ==
  /\ Idle /\ frames # <<>> /\ v \in Candidates[Rows]
  /\ \/ Ctx # NoCtx /\ UNCHANGED <<frames, pool>>
     \/ Ctx = NoCtx /\ pool = <<>> /\ WithCtx(Build(FreshCtx, Rows)) /\ UNCHANGED pool
     \/ Ctx = NoCtx /\ pool # <<>> /\ WithCtx(Build(Last(pool), Rows)) /\ pool' = Front(pool)
  /\ cand' = v
  /\ at' = 0 /\ chain' = 0 /\ listed' = <<>>
  /\ outcome' = "none"
  /\ UNCHANGED m

-----------------------------------------------------------------------------
(* One stratum of the cascade.                                              *)

TC(w) == Cardinality(MembersC[Rows][w])
TV(w) == Cardinality(MembersV[Rows][cand][w])

Strata ==
  [rows \in Codes |-> [v \in Candidates[rows] |->
     {w \in 1 .. N : MembersC[rows][w] # {} \/ MembersV[rows][v][w] # {}}]]

Stratum(w) ==
  /\ frames # <<>> /\ ~ Idle
  /\ w > at /\ w \in Strata[Rows][cand]
  /\ \A s \in Strata[Rows][cand] : s > at => w <= s
  /\ at' = w
  /\ UNCHANGED <<pool, cand>>

First(w) == at = 0 /\ Stratum(w)
OnChain(w) == chain > 0 /\ Stratum(w)
Later(w) == at > 0 /\ chain = 0 /\ Stratum(w)

Resolve(o) == outcome' = o /\ UNCHANGED <<chain, m, listed>>

(* u_C is the only functional of a frame with one row.                      *)
TrivialFrame(w) ==
  /\ First(w) /\ Rows = <<>>
  /\ Resolve("unique")
  /\ UNCHANGED frames

(* Some functional beats u_C on a stratum without words of C.               *)
FirstCosetOnly(w) ==
  /\ First(w) /\ Rows # <<>> /\ TC(w) = 0
  /\ Resolve("reject")
  /\ UNCHANGED frames

FirstCodeOnly(w) ==
  LET b == EnsureFHat(Ctx, w)
  IN /\ First(w) /\ Rows # <<>> /\ TC(w) > 0 /\ TV(w) = 0
     /\ \/ ESet(b, w) = {} /\ WithCtx(b) /\ Resolve("unique")
        \/ /\ ESet(b, w) # {}
           /\ WithCtx(EnsureChain(b, 1, w))
           /\ chain' = 1
           /\ UNCHANGED <<m, listed, outcome>>

FirstMixed(w) == First(w) /\ Rows # <<>> /\ TC(w) > 0 /\ TV(w) > 0

(* A functional of C alone beats u_C, whatever the coset's half says.       *)
FirstBound(w) ==
  LET b == EnsureFHat(Ctx, w)
  IN /\ FirstMixed(w)
     /\ AMax(b, w) > TC(w) - TV(w)
     /\ WithCtx(b)
     /\ Resolve("reject")

(* The transform of D from the halves': the coset's with the sign of bit k. *)
Combined(f, g, rows, u) ==
  IF Own(rows) \subseteq u THEN f[u \ Own(rows)] - g[u \ Own(rows)] ELSE f[u] + g[u]

Verdict(left) ==
  CASE uC \notin left -> "reject" [] left = {uC} -> "unique" [] OTHER -> "none"

FirstSplit(w) ==
  LET b == EnsureFHat(Ctx, w)
      g == Walsh(MembersV[Rows][cand][w], Rows)
      target == TC(w) - TV(w)
      value(u) == Combined(b.fhat[w], g, Rows, u)
      beaten == \E u \in Coords(Rows) \ {Zero} : b.fhat[w][u] + (IF g[u] < 0 THEN - g[u] ELSE g[u]) > target
      left == IF beaten THEN {} ELSE {u \in Functionals(Rows) : value(u) = target}
  IN /\ FirstMixed(w)
     /\ AMax(b, w) <= TC(w) - TV(w)
     /\ WithCtx(b)
     /\ m' = left
     /\ outcome' = Verdict(left)
     /\ UNCHANGED <<chain, listed>>

(* The set an entry of the chain stands for: each functional of C with both *)
(* of its extensions to D, and u_C.                                         *)
Pairs(e, own) == e \cup {own} \cup {u \cup own : u \in e}

ChainCosetOnly(w) ==
  /\ OnChain(w) /\ TC(w) = 0
  /\ Resolve("reject")
  /\ UNCHANGED frames

ChainCodeOnly(w) ==
  LET b == EnsureChain(Ctx, chain + 1, w)
  IN /\ OnChain(w) /\ TC(w) > 0 /\ TV(w) = 0
     /\ WithCtx(b)
     /\ \/ b.chainE[chain + 1] = {} /\ Resolve("unique")
        \/ /\ b.chainE[chain + 1] # {}
           /\ chain' = chain + 1
           /\ UNCHANGED <<m, listed, outcome>>

ChainBound(w) ==
  LET b == EnsureChain(Ctx, chain + 1, w)
  IN /\ OnChain(w) /\ TC(w) > 0 /\ TV(w) > 0
     /\ b.chainBound[chain + 1] > TC(w) - TV(w)
     /\ WithCtx(b)
     /\ Resolve("reject")

(* A large set is filtered with the transforms ...                          *)
ByTransform(b0, set, w) ==
  LET b == IF TC(w) > 0 THEN EnsureFHat(b0, w) ELSE b0
      f == IF TC(w) > 0 THEN b.fhat[w] ELSE [u \in Coords(Rows) |-> 0]
      g == Walsh(MembersV[Rows][cand][w], Rows)
      best == Max({Combined(f, g, Rows, u) : u \in set})
      left == {u \in set : Combined(f, g, Rows, u) = best}
  IN /\ WithCtx(b)
     /\ m' = left
     /\ outcome' = Verdict(left)
     /\ UNCHANGED listed

(* ... and a small one by counting odd members, those of C from the         *)
(* transform when it is there, or when it pays to build it.  The coset's    *)
(* members are listed once per candidate.                                   *)
ByCounting(b0, set, w) ==
  LET lists == IF listed = <<>> THEN MembersV[Rows][cand] ELSE listed
      b == IF Cardinality(set) * TC(w) > Len(Rows) * 2^Len(Rows) THEN EnsureFHat(b0, w) ELSE b0
      oddC(u) == IF w \in b.built THEN (TC(w) - b.fhat[w][u]) \div 2
                 ELSE Cardinality({x \in MembersC[Rows][w] : Odd(u, x)})
      oddV(u) == Cardinality({x \in lists[w] : Odd(u, x)})
      count(u) == oddC(u \ uC) + (IF uC \subseteq u THEN TV(w) - oddV(u \ uC) ELSE oddV(u))
      least == Min({count(u) : u \in set})
      left == {u \in set : count(u) = least}
  IN /\ WithCtx(b)
     /\ m' = left
     /\ outcome' = Verdict(left)
     /\ listed' = lists

Filter(b, set, w) ==
  /\ \/ Cardinality(set) > DirectThreshold /\ ByTransform(b, set, w)
     \/ Cardinality(set) <= DirectThreshold /\ ByCounting(b, set, w)
  /\ chain' = 0

(* The bound does not settle it: the set is written out and filtered.       *)
ChainLeave(w) ==
  LET b == EnsureChain(Ctx, chain + 1, w)
  IN /\ OnChain(w) /\ TC(w) > 0 /\ TV(w) > 0
     /\ b.chainBound[chain + 1] <= TC(w) - TV(w)
     /\ Filter(b, Pairs(b.chainE[chain], uC), w)

LaterStratum(w) == Later(w) /\ Filter(Ctx, m, w)

(* All strata agree.                                                        *)
Exhausted ==
  /\ frames # <<>> /\ ~ Idle
  /\ \A s \in Strata[Rows][cand] : s <= at
  /\ m' = IF chain > 0 THEN Pairs(Ctx.chainE[chain], uC) ELSE m
  /\ outcome' = "tie"
  /\ UNCHANGED <<frames, pool, cand, at, chain, listed>>

-----------------------------------------------------------------------------

Next ==
  \/ \E c \in Codes : OpenSeed(c)
  \/ Descend
  \/ CloseFrame
  \/ \E c \in Codes : \E v \in Candidates[c] : Begin(v)
  \/ \E w \in 1 .. N :
       \/ TrivialFrame(w) \/ FirstCosetOnly(w) \/ FirstCodeOnly(w) \/ FirstBound(w)
       \/ FirstSplit(w) \/ ChainCosetOnly(w) \/ ChainCodeOnly(w) \/ ChainBound(w)
       \/ ChainLeave(w) \/ LaterStratum(w)
  \/ Exhausted

Spec == Init /\ [][Next]_vars

-----------------------------------------------------------------------------
(* The rule itself: phi(u) lists, for each weight, the words of D of that   *)
(* weight outside the kernel of u; the functionals with the least list win. *)

Phi(rows, v, u, w) ==
  LET D == Append(rows, v)
  IN Cardinality({x \in SUBSET (0 .. Len(rows)) : Weight(Combination(D, x)) = w /\ Odd(u, x)})

(* u's list is undercut at weight w.                                        *)
BeatenAt(rows, v, u, w) ==
  \E other \in Functionals(rows) :
    /\ Phi(rows, v, other, w) < Phi(rows, v, u, w)
    /\ \A i \in Weights : i < w => Phi(rows, v, other, i) = Phi(rows, v, u, i)

(* Would the test accept D, or find a tie, with u's hyperplane as parent?   *)
Claims(rows, v, u) ==
  LET H == RowReduce(HyperplaneBasis(rows, v, u), N).rref
        x == Append(rows, v)[Min(u) + 1]
  IN \A w \in Weights : ~ BeatenAt(H, x, Own(H), w)

-----------------------------------------------------------------------------
Tests ==
  UNION {UNION {{<<rows, v, u>> : u \in Functionals(rows)} : v \in Candidates[rows]} : rows \in Codes}

(* The first weight at which u is beaten, and whether u's hyperplane claims *)
(* D.                                                                       *)
LossOf == [t \in Tests |-> Min({w \in Weights : BeatenAt(t[1], t[2], t[3], w)} \cup {N + 1})]

ClaimOf == [t \in Tests |-> Claims(t[1], t[2], t[3])]

(* The argmin set over the strata up to weight w, by the rule.              *)
Argmin(w) == {u \in Functionals(Rows) : LossOf[Rows, cand, u] > w}

Decided == outcome \in {"reject", "unique", "tie"}

CurrentSet == IF chain > 0 THEN Pairs(Ctx.chainE[chain], uC) ELSE m

Testing == frames # <<>> /\ outcome = "none" /\ at > 0

(* Whatever candidates the shared context served before, and whatever was   *)
(* left in the storage it recycles, between two strata the surviving set,   *)
(* written out or standing in the chain, is the argmin over the strata so   *)
(* far, and u_C is in it.                                                   *)
RunningArgmin == Testing => CurrentSet = Argmin(at) /\ uC \in CurrentSet

(* A verdict by a fast path, a bound or a filter is the one the whole       *)
(* spectra give.  The chain never outlives the strata, although the code    *)
(* after the loop handles one that is still alive: some stratum holds words *)
(* of the coset, and it settles the candidate or writes the set out.        *)
VerdictIsRule ==
  Decided => LET best == Argmin(N)
             IN CASE outcome = "reject" -> uC \notin best
                  [] outcome = "unique" -> best = {uC}
                  [] OTHER -> m = best /\ Cardinality(m) > 1 /\ chain = 0

(* Canonical augmentation rests on this: the hyperplanes of D agree on who  *)
(* may claim D.  A unique accept is claimed from no other hyperplane, a tie *)
(* is a tie from each member of the set and from no other, and of a         *)
(* rejected D somebody else is the parent.                                  *)
ParentsAgree ==
  Decided => LET claimed == {u \in Functionals(Rows) : ClaimOf[Rows, cand, u]}
             IN CASE outcome = "reject" -> claimed # {} /\ uC \notin claimed
                  [] outcome = "unique" -> claimed = {uC}
                  [] OTHER -> claimed = m

(* The assertions of PhiParentSlot::ensure and ensure_chain: a live context *)
(* belongs to its frame's parent, the tables it calls built are that        *)
(* parent's, and entry i of its chain was built at the parent's i-th        *)
(* stratum, for every sibling alike.                                        *)
ContextIsOwners ==
  \A i \in DOMAIN frames :
    LET rows == frames[i].rows
        ctx == frames[i].ctx
        strata == {w \in 1 .. N : MembersC[rows][w] # {}}
    IN ctx # NoCtx =>
         /\ ctx.rows = rows
         /\ \A w \in ctx.built : ctx.fhat[w] = Walsh(MembersC[rows][w], rows)
         /\ \A j \in 1 .. ctx.chainLen :
              /\ Cardinality({w \in strata : w <= ctx.chainW[j]}) = j
              /\ ctx.chainE[j] = {u \in Coords(rows) \ {Zero} :
                                    \A h \in 1 .. j : \A x \in MembersC[rows][ctx.chainW[h]] : ~ Odd(u, x)}

(* The record that the decomposability log gets of a child which asks for   *)
(* its automorphism group: the components of the reduced basis are the      *)
(* summands of the finest direct sum, and columns equal in the basis are    *)
(* equal in every word.                                                     *)
Children == UNION {{<<rows, v>> : v \in Candidates[rows]} : rows \in Codes}

RecordOf == [c \in Children |-> LogDecomp(RowReduce(Append(c[1], c[2]), N).rref, N)]

StructureOf == [c \in Children |-> Structure(Span(ToSet(c[1]) \cup {c[2]}), Len(c[1]) + 1)]

LoggedSplitIsFinest ==
  outcome \in {"unique", "tie"} => RecordOf[Rows, cand] = StructureOf[Rows, cand]

=============================================================================

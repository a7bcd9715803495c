--------------------------- MODULE GenerationTree ---------------------------
(***************************************************************************)
(* The canonical-augmentation tree that every driver walks, as seen from   *)
(* the recursion: which classes there are, which candidate of which class  *)
(* the parent test accepts, and how much labelled mass a class carries.    *)
(*                                                                         *)
(* How candidates are produced and tested is below this level (bit         *)
(* vectors, nauty, the parent rule); what the drivers rely on is that the  *)
(* accepted candidates form a tree rooted at the zero code.                *)
(***************************************************************************)
EXTENDS Naturals

CONSTANTS
  Codes,    (* one representative per class: the nodes of the tree          *)
  Rejects,  (* candidates that the parent test rejects                      *)
  Root,     (* the zero code                                                *)
  Parent,   (* the class whose candidate list holds a given class or reject *)
  Rank,     (* the rank of a class, rref.len()                              *)
  MaxK,     (* the rank at which the recursion stops                        *)
  Mass      (* the labelled mass N!/|Aut| of a set of classes               *)

Ranks == 0 .. MaxK

(***************************************************************************)
(* What `doubly_even_candidates_q` returns for c, one element per orbit    *)
(* representative: the accepted ones are classes, the others are rejects.  *)
(***************************************************************************)
Candidates(c) == {x \in (Codes \ {Root}) \cup Rejects : Parent[x] = c}

OfRank(S, k) == {c \in S : Rank[c] = k}

(***************************************************************************)
(* The closed form sigma(N, k) that the caller passes in: the mass of all  *)
(* classes of rank k.                                                      *)
(***************************************************************************)
Quota == [k \in Ranks |-> Mass[OfRank(Codes, k)]]

(* What one emission adds to the tally: factorial_n / aut_order. *)
Contribution(c) == Mass[{c}]

ASSUME RankAssumption ==
  /\ MaxK \in Nat
  /\ Root \in Codes
  /\ Codes \cap Rejects = {}
  /\ Parent \in [(Codes \ {Root}) \cup Rejects -> Codes]
  /\ Rank \in [Codes -> Ranks]
  /\ Rank[Root] = 0
  /\ \A c \in Codes \ {Root} : Rank[c] = Rank[Parent[c]] + 1
  /\ \A r \in Rejects : Rank[Parent[r]] < MaxK

(* Every class is reached from the zero code by accepted candidates. *)
ASSUME TreeAssumption ==
  \A S \in SUBSET Codes :
    (Root \in S /\ \A c \in Codes \ {Root} : Parent[c] \in S => c \in S)
      => S = Codes

(* Mass is additive, and every class has some: |Aut| divides N!. *)
ASSUME MassAssumption ==
  /\ Mass \in [SUBSET Codes -> Nat]
  /\ \A S, T \in SUBSET Codes : S \cap T = {} => Mass[S \cup T] = Mass[S] + Mass[T]
  /\ \A c \in Codes : Mass[{c}] > 0

=============================================================================

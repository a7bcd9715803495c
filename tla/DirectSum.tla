------------------------------ MODULE DirectSum ------------------------------
(***************************************************************************)
(* The structure of a code that the decomposability log records: its       *)
(* support, the components of the graph that joins the columns of every    *)
(* basis row, and the classes of equal columns.  The log claims that the   *)
(* components are the summands of the code and the classes its twins,      *)
(* whatever basis it is given by; D is a reduced basis.                    *)
(***************************************************************************)
EXTENDS F2Vectors, SequencesExt

ColumnSupport(D) == UNION ToSet(D)

Of(classes, j) == CHOOSE c \in classes : j \in c

(* Mutant: only the column itself changes sides, not those joined to it. *)
JoinedAlone(classes, i, j) ==
  IF j \in Of(classes, i) THEN classes
  ELSE (classes \ {Of(classes, i), Of(classes, j)})
         \cup ({Of(classes, i) \cup {j}, Of(classes, j) \ {j}} \ {{}})

(***************************************************************************)
(* A step of union-find: the classes of columns i and j become one.  Which *)
(* column is the root of a class is left out.                              *)
(***************************************************************************)
Joined(classes, i, j) ==
  (classes \ {Of(classes, i), Of(classes, j)}) \cup {Of(classes, i) \cup Of(classes, j)}

(* Every row joins its columns to the first of them. *)
Connected(D, n) ==
  LET ofRow(classes, row) ==
        FoldSet(LAMBDA j, joined : Joined(joined, Min(row), j), classes, row \ {Min(row)})
  IN FoldLeft(ofRow, {{j} : j \in 0 .. n - 1}, D)

(* The sizes of the sets, the largest first. *)
Sizes(sets) ==
  LET atLeast(s) == Cardinality({c \in sets : Cardinality(c) >= s})
  IN [i \in 1 .. Cardinality(sets) |-> Max({s \in {Cardinality(c) : c \in sets} : atLeast(s) >= i})]

(* A column outside the support is in a class of its own, not counted. *)
ComponentSizes(D, n) == Sizes({c \in Connected(D, n) : c \subseteq ColumnSupport(D)})

(* Columns with the same entry in every row; only classes of two or more. *)
TwinClassSizes(D) ==
  LET signature == [j \in ColumnSupport(D) |-> {i \in DOMAIN D : j \in D[i]}]
      twins(j) == {i \in ColumnSupport(D) : signature[i] = signature[j]}
  IN Sizes({c \in {twins(j) : j \in ColumnSupport(D)} : Cardinality(c) >= 2})

(***************************************************************************)
(* The record of one canon call in test_candidate, without its timings and *)
(* the verdict.                                                            *)
(***************************************************************************)
LogDecomp(D, n) ==
  [k |-> Len(D), sup |-> Weight(ColumnSupport(D)),
   comp |-> ComponentSizes(D, n), tw |-> TwinClassSizes(D)]

-----------------------------------------------------------------------------
(* A set of columns splits off a summand if it cuts no word out of the code. *)
SplitsOff(A, words) == \A w \in words : w \cap A \in words

(* The supports of subcodes that split off, none of them empty. *)
Summands(words) ==
  LET unions == FoldSet(LAMBDA w, joined : joined \cup {w \cup u : u \in joined}, {{}}, words)
  IN {A \in unions \ {{}} : SplitsOff(A, words)}

(* The finest direct sum and the twins, from the words of the code alone. *)
Structure(words, dim) ==
  LET summands == Summands(words)
      finest == {A \in summands : \A B \in summands : B \subseteq A => B = A}
      twins(j) == {i \in UNION words : \A w \in words : i \in w <=> j \in w}
  IN [k |-> dim, sup |-> Cardinality(UNION words), comp |-> Sizes(finest),
      tw |-> Sizes({c \in {twins(j) : j \in UNION words} : Cardinality(c) >= 2})]

=============================================================================

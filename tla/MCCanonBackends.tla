--------------------------- MODULE MCCanonBackends ---------------------------
(***************************************************************************)
(* nauty: codes of lengths 3 and 4 and dimension at most 2 with words of   *)
(* several weights, so that the small graph and the full one are both      *)
(* used; nothing in canon_info depends on double evenness.  Feulner:       *)
(* doubly even codes up to the simplex code of length 7, in arrangements   *)
(* by rotations and swaps.  The verifier: codes of length 2, where         *)
(* refinement alone can succeed, 4 and 6.  The invariants: codes of        *)
(* lengths 4 to 7, even and odd, in rotations.                             *)
(***************************************************************************)
EXTENDS CanonBackends, Quotient, TLC

Rows(words_, m) == RowReduce(words_, m).rref

Rotation(m, r) == [j \in 0 .. m - 1 |-> (j + r) % m]

Swap(m, i, h) == [j \in 0 .. m - 1 |-> IF j = i THEN h ELSE IF j = h THEN i ELSE j]

Simplex == {{0, 1, 2, 3}, {0, 1, 4, 5}, {0, 2, 4, 6}}

-----------------------------------------------------------------------------
MCRequests ==
  3 :> {Span({u, v}) : u, v \in {{}, {0}, {1, 2}, {0, 1, 2}}} @@
  4 :> {Span({u, v}) : u, v \in {{}, {0}, {0, 1}, {1, 2}, {2, 3}, {0, 1, 2, 3}}}

MCEngines == 3 :> {"sparsenauty", "densenauty", "Traces"} @@ 4 :> {"sparsenauty"}

MCCodes ==
  4 :> {<<>>, <<{0, 1, 2, 3}>>} @@
  6 :> {Rows(<<{0, 1, 2, 3}, {0, 1, 4, 5}>>, 6), Rows(<<{0, 3}, {1, 3, 5}, {2, 5}, {4}>>, 6)} @@
  7 :> {Rows(Ascending(Simplex), 7)}

MCArrangements ==
  [m \in {4, 6, 7} |-> {Rotation(m, r) : r \in 0 .. m - 1}
                         \cup {Swap(m, i, i + 1) : i \in 0 .. m - 2}]

MCQuestions ==
  [m \in {2, 4} |-> {Rows(<<u, v>>, m) : u, v \in SUBSET (0 .. m - 1)}] @@
  6 :> {Rows(<<Permuted({0, 1}, r), Permuted({0, 2, 3, 4}, r), Permuted({2, 5}, r)>>, 6) :
          r \in {Rotation(6, i) : i \in 0 .. 5} \cup {Swap(6, i, h) : i, h \in 0 .. 5}}

MCKnown ==
  2 :> {<<>>, Rows(<<{1}>>, 2), Rows(<<{0, 1}>>, 2)} @@
  4 :> {Rows(<<{0, 1}, {1, 2}>>, 4), Rows(<<{0, 1}, {2, 3}>>, 4), Rows(<<{0}, {2, 3}>>, 4),
        Rows(<<{1}, {0, 2, 3}>>, 4), Rows(<<{1}, {2}>>, 4), Rows(<<{0, 1, 2, 3}>>, 4)} @@
  6 :> {Rows(<<{0, 1}, {0, 2, 3, 4}, {2, 5}>>, 6), Rows(<<{0, 1}, {0, 2, 3, 5}, {2, 5}>>, 6)}

MCClasses ==
  4 :> {Span({u, v}) : u, v \in SUBSET (0 .. 3)} @@
  6 :> {Span({{0, 1, 2, 3}, {0, 1, 4, 5}}), Span({{0, 1, 2, 3}, {0, 1, 4, 5}, {0, 2, 4}}),
        Span({{0, 1}, {2, 3}, {0, 4, 5}})} @@
  7 :> {Span(Simplex)}

MCRearrangements == [m \in {4, 6, 7} |-> {Rotation(m, r) : r \in 0 .. m - 1}]

=============================================================================

------------------------------ MODULE CanonState ------------------------------
(***************************************************************************)
(* What the routes to a canonical form have in common: a run of one        *)
(* length, and the `CachedInfo` that the route at hand makes for a code.   *)
(***************************************************************************)
EXTENDS ColumnPermutations, SequencesExt

VARIABLES
  n,      \* the length of this run
  pc,     \* what the route does next
  code,   \* the code asked about: its words, or its RREF rows for Feulner
  label,  \* `canonical_column_order`, <<>> for None
  gens,   \* `aut_generators`
  order,  \* `aut_order`
  orbits  \* `column_orbits`

answer == <<label, gens, order, orbits>>

Columns == 0 .. n - 1

ColumnPerms == ColumnOrders(n)

=============================================================================

------------------------------ MODULE OrbitScan ------------------------------
(***************************************************************************)
(* What orbit-minimum searches, one after another, promise: each returns   *)
(* the least element of every orbit, in ascending order.                   *)
(***************************************************************************)
EXTENDS F2Vectors

CONSTANTS
  Elements,     (* for each request, words that the group maps to itself  *)
  Generators    (* and generators of the group, maps on its elements      *)

VARIABLES
  request,      (* what is asked for                                      *)
  answered,     (* has the search returned?                               *)
  answer        (* what it returned                                       *)

scanVars == <<request, answered, answer>>

Requests == DOMAIN Elements

(* The least set that holds x and the images of its members. *)
Orbit(r, x) ==
  LET closure[S \in SUBSET Elements[r]] ==
        LET reached == S \cup {g[y] : g \in Generators[r], y \in S}
        IN IF reached = S THEN S ELSE closure[reached]
  IN closure[{x}]

OrbitMinima ==
  [r \in Requests |-> Ascending({x \in Elements[r] : \A y \in Orbit(r, x) : ~Below(y, x)})]

ScanInit ==
  /\ request \in Requests
  /\ answered = FALSE
  /\ answer = <<>>

Answer ==
  /\ ~answered
  /\ answered' = TRUE
  /\ answer' = OrbitMinima[request]
  /\ UNCHANGED request

AskNext ==
  /\ answered
  /\ request' \in Requests
  /\ answered' = FALSE
  /\ answer' = <<>>

ScanSpec == ScanInit /\ [][Answer \/ AskNext]_scanVars

=============================================================================

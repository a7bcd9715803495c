---------------------------- MODULE CanonBackends ----------------------------
(***************************************************************************)
(* One process asks for canonical forms and groups by one of the routes    *)
(* the build offers.  `canon_info` of canon/nauty.py dispatches on         *)
(* DOUBLY_EVEN_CANON_BACKEND, read once when it is imported, to nauty      *)
(* (CanonInfo) or to the partition backtrack (Feulner); a build with the   *)
(* feature `equivalence_verifier` tests new codes against the cache        *)
(* (PairedIso), and the collision experiment computes invariants           *)
(* (Invariants).  A route never changes and leaves the state of the others *)
(* as it was.                                                              *)
(***************************************************************************)
EXTENDS CanonInfo, Feulner, PairedIso, Invariants

CONSTANT Backends \* the routes a process may take

ASSUME BackendAssumption ==
  Backends \subseteq {"nauty", "feulner", "verifier", "invariants"}

VARIABLE backend

backendVars == <<backend, n, pc, code, answer, onlyNauty, onlyFeulner, onlyVerifier, onlyInvariants>>

-----------------------------------------------------------------------------
(* The state of a route that is not taken. *)
NoNauty ==
  /\ engine = <<>> /\ maintain = <<>> /\ wantLabel = <<>> /\ words = <<>>
  /\ buffer = <<>> /\ left = <<>> /\ found = <<>> /\ base = <<>> /\ level = <<>>
  /\ cache = <<>> /\ calls = <<>>

NoFeulner ==
  /\ form = <<>> /\ refiners = <<>> /\ node = <<>> /\ stack = <<>> /\ part = <<>>
  /\ keyToPi = <<>> /\ bestKey = <<>> /\ father = <<>> /\ dirty = <<>>

NoVerifier ==
  /\ d = <<>> /\ bucket = <<>> /\ verdicts = <<>> /\ info = <<>> /\ witnesses = <<>>

NoInvariants == class = <<>> /\ digests = <<>>

NoAnswer == label = <<>> /\ gens = <<>> /\ order = <<>> /\ orbits = <<>>

BackendInit ==
  /\ backend \in Backends
  /\ \/ backend = "nauty"      /\ KernelInit  /\ NoFeulner /\ NoVerifier /\ NoInvariants
     \/ backend = "feulner"    /\ FeulnerInit /\ NoNauty   /\ NoVerifier /\ NoInvariants
     \/ backend = "verifier"   /\ VerifierInit /\ NoNauty /\ NoFeulner  /\ NoInvariants
                               /\ code = <<>> /\ NoAnswer
     \/ backend = "invariants" /\ AuditInit  /\ NoNauty   /\ NoFeulner  /\ NoVerifier
                               /\ pc = "audit" /\ NoAnswer

(* `canon_info` *)
ViaKernel ==
  /\ backend = "nauty" /\ KernelNext
  /\ UNCHANGED <<backend, onlyFeulner, onlyVerifier, onlyInvariants>>

ViaFeulner ==
  /\ backend = "feulner" /\ FeulnerNext
  /\ UNCHANGED <<backend, onlyNauty, onlyVerifier, onlyInvariants>>

ViaVerifier ==
  /\ backend = "verifier" /\ VerifierNext
  /\ UNCHANGED <<backend, code, answer, onlyNauty, onlyFeulner, onlyInvariants>>

ViaInvariants ==
  /\ backend = "invariants" /\ Compute
  /\ UNCHANGED <<backend, pc, answer, onlyNauty, onlyFeulner, onlyVerifier>>

BackendNext == ViaKernel \/ ViaFeulner \/ ViaVerifier \/ ViaInvariants

BackendSpec == BackendInit /\ [][BackendNext]_backendVars

-----------------------------------------------------------------------------
(***************************************************************************)
(* The answer of canon_info is exact (CanonInfo), whichever graph and      *)
(* engine it came from and whatever calls came before.                     *)
(***************************************************************************)
KernelAnswerIsExact == backend = "nauty" => InfoIsExact

(* The secondary cache is exact, though it was filled by conjugation. *)
KernelCacheIsExact == backend = "nauty" => CacheIsExact

(***************************************************************************)
(* The backtrack returns one form for all arrangements of a code, and      *)
(* nothing but automorphisms, in spite of its three cuts.                  *)
(***************************************************************************)
FeulnerAnswerIsSound == backend = "feulner" => AnswerIsSound

(***************************************************************************)
(* Rows restored by the undo log and rows absorbed again agree with those  *)
(* of a search that never left the branch.                                 *)
(***************************************************************************)
FeulnerKeyIsReplayed == backend = "feulner" => KeyIsReplayed

(* `aut_order`, documented as |Aut(C)|, is the order of that group. *)
FeulnerOrderIsExact == backend = "feulner" => OrderIsExact

(***************************************************************************)
(* A hit or a refusal of the verifier is never wrong, and the answer it    *)
(* makes from a cached one is that of canon_info.                          *)
(***************************************************************************)
VerifierAnswerIsExact == backend = "verifier" => VerifierIsExact

(* Equivalent codes agree in every invariant of the experiment. *)
InvariantsOfClassAgree == backend = "invariants" => InvariantsAgree

(* The colour refinement stops only when the colouring is stable. *)
RefinementIsStable == backend = "invariants" => WlIsEquitable

=============================================================================

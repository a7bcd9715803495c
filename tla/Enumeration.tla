----------------------------- MODULE Enumeration -----------------------------
(***************************************************************************)
(* What an enumeration run promises, whichever driver carries it out: it   *)
(* emits classes one at a time, each once and only after the class it was  *)
(* augmented from, and it returns only when it has emitted all of them.    *)
(***************************************************************************)
EXTENDS GenerationTree

VARIABLES
  emitted,   (* the classes emitted so far  *)
  returned   (* has the driver returned?    *)

enumVars == <<emitted, returned>>

EnumInit ==
  /\ emitted = {}
  /\ returned = FALSE

EmitClass(c) ==
  /\ ~returned
  /\ c \notin emitted
  /\ c = Root \/ Parent[c] \in emitted
  /\ emitted' = emitted \cup {c}
  /\ UNCHANGED returned

Return ==
  /\ ~returned
  /\ emitted = Codes
  /\ returned' = TRUE
  /\ UNCHANGED emitted

EnumNext == Return \/ \E c \in Codes : EmitClass(c)

EnumSpec == EnumInit /\ [][EnumNext]_enumVars

EnumFairSpec == EnumSpec /\ WF_enumVars(EnumNext)

=============================================================================

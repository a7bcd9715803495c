--------------------------- MODULE MCCountsProgress ---------------------------
(***************************************************************************)
(* Small runs of the counts drivers.  The batch never divides the quota,   *)
(* so that some thread always ends with a batch it has not sent.           *)
(***************************************************************************)
EXTENDS CountsProgress

ASSUME BatchRemains == FlushInterval > 1 /\ Quota % FlushInterval # 0

=============================================================================

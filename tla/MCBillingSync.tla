--------------------------- MODULE MCBillingSync ---------------------------
(***************************************************************************)
(* Instances of BillingSync for TLC.  Sessions are interchangeable: no     *)
(* definition chooses between two of them, so the safety run with two of   *)
(* them uses their permutations as symmetry.                               *)
(***************************************************************************)
EXTENDS BillingSync, TLC

Symmetry == Permutations(Sessions)
=============================================================================

------------------------- MODULE MCReleaseGateJobs -------------------------
(***************************************************************************)
(* Instances of ReleaseGateJobs for TLC.  Runners are interchangeable, and *)
(* so are request handlers; no definition chooses between two of them, so  *)
(* the safety runs use their permutations as symmetry.                     *)
(***************************************************************************)
EXTENDS ReleaseGateJobs, TLC

Symmetry == Permutations(Runners) \cup Permutations(Handlers)
=============================================================================

------------------------------- MODULE MCRun -------------------------------
(***************************************************************************)
(* Instances of the run lifecycle for TLC.  The configurations give the    *)
(* constants their values; symmetry is used only in runs without liveness. *)
(***************************************************************************)
EXTENDS RunProperties, TLC

FollowupSymmetry == Permutations(Followups)
=============================================================================

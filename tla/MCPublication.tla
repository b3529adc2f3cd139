--------------------------- MODULE MCPublication ---------------------------
(* Instances of publication for TLC.                                         *)
EXTENDS PublicationProperties, TLC

CONSTANTS r1, r2, x1, x2

Symmetric == Permutations(Run) \cup Permutations(Repo)
=============================================================================

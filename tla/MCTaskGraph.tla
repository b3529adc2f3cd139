----------------------------- MODULE MCTaskGraph -----------------------------
(***************************************************************************)
(* Instances of TaskGraphProperties for TLC: three tasks, the third needs  *)
(* the first and touches the same paths as the second.                     *)
(***************************************************************************)
EXTENDS TaskGraphProperties

NeedsFirst  == <<{}, {}, {1}>>
SharedPaths == {<<2, 3>>}
=============================================================================

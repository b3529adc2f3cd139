---------------------------- MODULE MCContinuous ----------------------------
(* Instances of a round of continuous coding for TLC.                      *)
EXTENDS ContinuousProperties
=============================================================================

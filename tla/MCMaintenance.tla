--------------------------- MODULE MCMaintenance ---------------------------
(* Instances of the maintenance intake for TLC.                              *)
EXTENDS MaintenanceProperties

CONSTANTS k1, x1, x2, h1, h2
=============================================================================

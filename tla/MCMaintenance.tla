--------------------------- MODULE MCMaintenance ---------------------------
(* The folder on small instances: contents are interchangeable, and so are sweeps. *)
EXTENDS MaintenanceProperties, TLC

Symmetry == Permutations(Contents) \cup Permutations(Sweepers)
=============================================================================

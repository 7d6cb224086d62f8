------------------------- MODULE MCRecoveryModel -------------------------
(* RecoveryModel on small instances: the constants are all in the .cfg.     *)
EXTENDS RecoveryInvariant
============================================================================

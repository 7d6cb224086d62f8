------------------------- MODULE MCRestartPipeline -------------------------
(***************************************************************************)
(* TLC instances of the restart pipeline.                                  *)
(***************************************************************************)
EXTENDS RestartInvariant
============================================================================

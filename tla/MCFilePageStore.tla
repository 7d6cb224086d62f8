--------------------------- MODULE MCFilePageStore ---------------------------
(***************************************************************************)
(* TLC instances of the file page store.                                   *)
(***************************************************************************)
EXTENDS FilePageStoreInvariant
==============================================================================

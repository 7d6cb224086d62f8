----------------------------- MODULE MCFileLog -----------------------------
(***************************************************************************)
(* TLC instances of the file log.                                          *)
(***************************************************************************)
EXTENDS FileLogInvariant
============================================================================

---------------------------- MODULE MCDatabaseFiles ----------------------------
(* Instances of DatabaseFilesProperties for TLC. *)
EXTENDS DatabaseFilesInvariant
================================================================================

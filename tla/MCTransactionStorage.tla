------------------------ MODULE MCTransactionStorage ------------------------
(* TransactionStorage on a small instance: the constants are all in the     *)
(* .cfg.                                                                    *)
EXTENDS TransactionInvariant
=============================================================================

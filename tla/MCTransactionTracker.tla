----------------------- MODULE MCTransactionTracker -----------------------
(* Small instances of TransactionTracker.                                  *)
EXTENDS TransactionTracker, TLC

Symmetry == Permutations(Callers) \cup Permutations(Keys)
===========================================================================

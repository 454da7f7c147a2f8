---------------------------- MODULE MCBatchDedup ----------------------------
(* BatchDedup for TLC.  Batch ids are only compared with each other.        *)
EXTENDS BatchDedup, TLC

Symmetry == Permutations(Id)
=============================================================================

----------------------------- MODULE MCLogTaker -----------------------------
(* LogTaker for TLC.  Batch ids are only compared with each other, and so are *)
(* the handlers; runs with a liveness property use no symmetry.               *)
EXTENDS LogTaker, TLC

Symmetry == Permutations(Id) \cup Permutations(Handler)
=============================================================================

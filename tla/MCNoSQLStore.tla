---------------------------- MODULE MCNoSQLStore ----------------------------
(* Model checking of NoSQLStore. *)
EXTENDS NoSQLStore, TLC

MCWorkerSymmetry == Permutations(Workers)
=============================================================================

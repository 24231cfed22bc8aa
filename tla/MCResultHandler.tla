-------------------------- MODULE MCResultHandler --------------------------
(***************************************************************************)
(* The result handler for TLC: as many batches in flight as the ring has   *)
(* slots, the tightest configuration that is safe.                         *)
(***************************************************************************)
EXTENDS ResultHandler, TLC

WorkerSymmetry == Permutations(Workers)
============================================================================

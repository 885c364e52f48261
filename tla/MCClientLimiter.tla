-------------------------- MODULE MCClientLimiter ---------------------------
(***************************************************************************)
(* Instance of ClientLimiter for TLC.  Goroutines are interchangeable.     *)
(***************************************************************************)
EXTENDS ClientLimiter, TLC

WorkerSymmetry == Permutations(Workers)
=============================================================================

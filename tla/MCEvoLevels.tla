------------------------------ MODULE MCEvoLevels ------------------------------
(* Instances of EvoLevels for TLC.                                         *)
EXTENDS EvoLevels, TLC

ClassSymmetry == Permutations(Classes)
=============================================================================

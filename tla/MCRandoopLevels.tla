-------------------------- MODULE MCRandoopLevels ---------------------------
(***************************************************************************)
(* RandoopLevels for TLC.  A class has a small block and a large one, so   *)
(* that a coverage may be below the 10 as which a whole coverage is read.  *)
(***************************************************************************)
EXTENDS RandoopLevels, TLC

MCBlocks == {"start", "rest"}
MCLinePercent(blocks) ==
    (IF "start" \in blocks THEN 6 ELSE 0) + (IF "rest" \in blocks THEN 94 ELSE 0)

\* Bound: the properties say nothing of a disturbed class (TypeOK does, and is proved),
\* so that a state in which every class is disturbed is not followed any further.
SomeUndisturbed == disturbed # Classes

Symmetry == Permutations(Processes) \cup Permutations(Classes)
=============================================================================

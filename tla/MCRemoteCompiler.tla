-------------------------- MODULE MCRemoteCompiler -------------------------
(* RemoteCompiler for TLC: requests and classes are model values.          *)
EXTENDS RemoteCompiler, TLC

\* Requests differ in nothing, nor do classes.
Symmetry == Permutations(Requests) \cup Permutations(Classes)
=============================================================================

-------------------------- MODULE MCGameRepository --------------------------
(***************************************************************************)
(* Instances of GameRepository for TLC.  No guard reads the last reply, so *)
(* that two states that differ in it only have the same successors: the    *)
(* view leaves it out of the fingerprint.  The action properties are still *)
(* evaluated on every step TLC generates.  An invariant is evaluated on new *)
(* fingerprints only: the run that checks the type of the replies keeps     *)
(* their status.                                                           *)
(***************************************************************************)
EXTENDS GameRepository, TLC

TablesView == <<tables, sequences, archives>>

RepliesView == <<tables, sequences, archives, reply.status>>

AccountSymmetry == Permutations(Accounts)
=============================================================================

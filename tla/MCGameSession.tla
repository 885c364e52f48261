--------------------------- MODULE MCGameSession ----------------------------
(***************************************************************************)
(* Instances of GameSession, under the choice of a class, for TLC.  The    *)
(* view leaves out what neither a step nor a property reads any more: the  *)
(* reply of T4, read only in the step that receives it; the local values   *)
(* of a request that are not set yet or will not be read again; what a     *)
(* page keeps of a game that was won; the class in g unless a save of the  *)
(* player who may rely on it has yet to insert its round; and the class of *)
(* a round, once that save is over.  The other columns of T4 that the play *)
(* never changes stay constant.                                            *)
(***************************************************************************)
EXTENDS GameChoice

LiveLocal == [p \in Players |->
    CASE pc[p] \in {"idle", "postGame"} -> <<>>
      [] pc[p] = "postRound" -> <<local[p].player, local[p].game>>
      [] pc[p] \in UpdateSteps -> <<local[p].turn>>
      [] OTHER -> <<local[p].player, local[p].game, local[p].round>>]

LivePage == [p \in Players |-> IF browser[p].game = 0 THEN <<>> ELSE browser[p]]

StoresRound == {"idle", "postGame", "postRound"}
LiveChoice ==
    IF \E p \in report \ overtaken : pc[p] \in StoresRound THEN choice ELSE NoPlayer
LiveTested == [p \in report \ overtaken |->
    IF pc[p] \in StoresRound THEN NoPlayer ELSE tested[local[p].round]]

SessionView ==
    <<tables, sequences, archives, g, pc, LiveLocal, LivePage, csv, leaked, restarts,
      owner, LiveChoice, LiveTested, report, overtaken>>
=============================================================================

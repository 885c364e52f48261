--------------------------- MODULE GameRepository ---------------------------
(***************************************************************************)
(* The game repository of T4 (T4-G18): the PostgreSQL tables behind the    *)
(* REST handlers of games, rounds and turns, and the directory of uploaded *)
(* archives.  Every write handler of the three services is one action: a   *)
(* handler runs its statements in one database transaction, and its reply  *)
(* is kept in "reply" for the clients that compose with this module.       *)
(*                                                                         *)
(* Rows keep the columns the properties tell apart: keys, foreign keys and *)
(* whether closed_at is set (scores, name, description, is_winner and      *)
(* started_at are written by the same "non-zero fields only" rule).  The   *)
(* columns and defaults come from model/model.go, as gorm migrates them:   *)
(* rounds.game_id and both columns of player_games have no foreign key.    *)
(***************************************************************************)
EXTENDS Naturals, FiniteSets, Sequences

CONSTANTS
    Accounts,    \* account identifiers of T23 that requests name as players
    MaxGames,    \* bound on the ids the games sequence hands out
    MaxRounds,   \* bound on the ids the rounds sequence hands out
    MaxTurns     \* bound on explicit turn ids and on the turns sequence

ASSUME BoundsAssumption ==
    /\ MaxGames \in Nat
    /\ MaxRounds \in Nat
    /\ MaxTurns \in Nat

VARIABLES
    games,        \* rows [id, closed]
    gameSeq,      \* last value of the games id sequence
    playerGames,  \* rows [account, game] of the join table player_games
    playerId,     \* players table: account -> players.id, 0 when no row
    playerSeq,    \* last value of the players id sequence
    rounds,       \* rows [id, game, closed]
    roundSeq,     \* last value of the rounds id sequence
    turns,        \* rows [id, round, player, closed], key (id, round)
    turnSeq,      \* last value of the turns id sequence
    metadata,     \* rows [turn, round, path], 0 standing for NULL
    archives,     \* paths of the zip files under the data directory
    reply         \* last reply [op, status, id]

tables == <<games, playerGames, playerId, rounds, turns, metadata>>
sequences == <<gameSeq, playerSeq, roundSeq, turnSeq>>
vars == <<tables, sequences, archives, reply>>

-----------------------------------------------------------------------------
(* Requests and helpers.                                                   *)

NULL == 0

GameIds == 1 .. MaxGames
RoundIds == 1 .. MaxRounds
TurnIds == 1 .. MaxTurns

\* The "players" array of a request: at most two entries, perhaps repeated.
PlayerLists == UNION {[1 .. n -> Accounts] : n \in 0 .. 2}

\* api.Duplicated
Duplicated(ps) == \E i, j \in DOMAIN ps : i # j /\ ps[i] = ps[j]

Keys(rows) == {row.id : row \in rows}
PlayerIds == {playerId[a] : a \in Accounts} \ {0}

\* api.MakeHttpError and the controllers: the status of each outcome.
Reply(op, status, id) == [op |-> op, status |-> status, id |-> id]

Ops == {"none", "CreateGame", "UpdateGame", "DeleteGame", "CreateRound",
        "UpdateRound", "DeleteRound", "CreateTurns", "UpdateTurn",
        "DeleteTurn", "SaveFile"}
Statuses == {200, 201, 204, 400, 404, 409, 422, 500}

-----------------------------------------------------------------------------
(* Games.                                                                  *)

\* The upsert of the association: a new account takes the value its position
\* draws from the sequence, a known account keeps its row (ON CONFLICT DO
\* NOTHING) although its position draws a value as well.
UpsertedPlayers(ps) ==
    [a \in Accounts |->
        IF playerId[a] = 0 /\ \E i \in DOMAIN ps : ps[i] = a
        THEN playerSeq + (CHOOSE i \in DOMAIN ps : ps[i] = a)
        ELSE playerId[a]]

\* POST /games
CreateGame(ps) ==
    \/ /\ Duplicated(ps)
       /\ reply' = Reply("CreateGame", 400, 0)
       /\ UNCHANGED <<tables, sequences, archives>>
    \/ /\ ~Duplicated(ps)
       /\ gameSeq < MaxGames
       /\ gameSeq' = gameSeq + 1
       /\ games' = games \cup {[id |-> gameSeq + 1, closed |-> FALSE]}
       /\ playerId' = UpsertedPlayers(ps)
       /\ playerSeq' = playerSeq + Len(ps)
       /\ playerGames' = playerGames \cup
              {[account |-> ps[i], game |-> gameSeq + 1] : i \in DOMAIN ps}
       /\ reply' = Reply("CreateGame", 201, gameSeq + 1)
       /\ UNCHANGED <<rounds, roundSeq, turns, turnSeq, metadata, archives>>

\* PUT /games/{id}: the number of rows the statement matched is not looked at.
UpdateGame(id, closes) ==
    /\ games' = {[g EXCEPT !.closed = @ \/ (closes /\ g.id = id)] : g \in games}
    /\ reply' = Reply("UpdateGame", 200, id)
    /\ UNCHANGED <<playerGames, playerId, rounds, turns, metadata,
                   sequences, archives>>

\* Mutated form of DeleteGame: the sequence restarts when the table is empty.
DeleteGame_RestartIdentity(id) ==
    /\ games' = {g \in games : g.id # id}
    /\ gameSeq' = IF games' = {} THEN 0 ELSE gameSeq
    /\ reply' = Reply("DeleteGame", IF id \in Keys(games) THEN 204 ELSE 404, id)
    /\ UNCHANGED <<playerGames, playerId, playerSeq, rounds, roundSeq,
                   turns, turnSeq, metadata, archives>>

\* DELETE /games/{id}: only the games row goes; nothing references it.
DeleteGame(id) ==
    /\ games' = {g \in games : g.id # id}
    /\ reply' = Reply("DeleteGame", IF id \in Keys(games) THEN 204 ELSE 404, id)
    /\ UNCHANGED <<playerGames, playerId, rounds, turns, metadata,
                   sequences, archives>>

-----------------------------------------------------------------------------
(* Rounds.                                                                 *)

\* POST /rounds: the game named by the request need not exist.
CreateRound(game) ==
    /\ roundSeq < MaxRounds
    /\ roundSeq' = roundSeq + 1
    /\ rounds' = rounds \cup
           {[id |-> roundSeq + 1, game |-> game, closed |-> FALSE]}
    /\ reply' = Reply("CreateRound", 201, roundSeq + 1)
    /\ UNCHANGED <<games, gameSeq, playerGames, playerId, playerSeq,
                   turns, turnSeq, metadata, archives>>

\* PUT /rounds/{id}
UpdateRound(id, closes) ==
    /\ rounds' = {[r EXCEPT !.closed = @ \/ (closes /\ r.id = id)] : r \in rounds}
    /\ reply' = Reply("UpdateRound", 200, id)
    /\ UNCHANGED <<games, playerGames, playerId, turns, metadata,
                   sequences, archives>>

\* Mutated forms of DeleteRound: the turns stay; the turns of every round of the
\* same game go.
DeleteRound_NoCascade(id) ==
    /\ rounds' = {r \in rounds : r.id # id}
    /\ reply' = Reply("DeleteRound", IF id \in Keys(rounds) THEN 204 ELSE 404, id)
    /\ UNCHANGED <<games, playerGames, playerId, turns, metadata,
                   sequences, archives>>

DeleteRound_WholeGame(id) ==
    LET siblings == {r \in rounds :
                        \E d \in rounds : d.id = id /\ d.game = r.game}
    IN  /\ rounds' = {r \in rounds : r.id # id}
        /\ turns' = {t \in turns : t.round \notin Keys(siblings)}
        /\ reply' = Reply("DeleteRound", IF id \in Keys(rounds) THEN 204 ELSE 404, id)
        /\ UNCHANGED <<games, playerGames, playerId, metadata, sequences, archives>>

\* DELETE /rounds/{id}: the turns of the round are deleted with it.  (A metadata
\* row of such a turn would refuse the delete, ON DELETE SET NULL meeting NOT
\* NULL; NoMetadata shows that there is never one.)
DeleteRound(id) ==
    /\ rounds' = {r \in rounds : r.id # id}
    /\ turns' = {t \in turns : t.round # id}
    /\ reply' = Reply("DeleteRound", IF id \in Keys(rounds) THEN 204 ELSE 404, id)
    /\ UNCHANGED <<games, playerGames, playerId, metadata, sequences, archives>>

-----------------------------------------------------------------------------
(* Turns.                                                                  *)

Registered(ps) == {playerId[ps[i]] : i \in DOMAIN ps} \ {0}

\* The orders in which the query may return the players it found.
Orders(ids) ==
    {f \in UNION {[1 .. n -> ids] : n \in 0 .. 2} :
        /\ {f[i] : i \in DOMAIN f} = ids
        /\ \A i, j \in DOMAIN f : f[i] = f[j] => i = j}

\* The rows CreateBulk hands to gorm: one per entry of the request.  Found
\* players fill the first ones, in the order the query returned them; a
\* repeated or missing account leaves a zero row at the end.  A row whose id
\* is zero draws the next value of the sequence.
NewRows(id, round, ps, found) ==
    LET drawn == IF id = 0 THEN 0 ELSE Len(found)
    IN  [i \in DOMAIN ps |->
            [id |-> IF id # 0 /\ i <= Len(found) THEN id
                    ELSE turnSeq + (i - drawn),
             round |-> IF i <= Len(found) THEN round ELSE 0,
             player |-> IF i <= Len(found) THEN found[i] ELSE 0,
             closed |-> FALSE]]

SameKey(t, u) == t.id = u.id /\ t.round = u.round

\* The position of the first row the primary key refuses, 0 when none.
FirstConflict(rows) ==
    LET bad == {i \in DOMAIN rows :
                   \/ \E t \in turns : SameKey(t, rows[i])
                   \/ \E j \in 1 .. (i - 1) : SameKey(rows[j], rows[i])}
    IN  IF bad = {} THEN 0 ELSE CHOOSE i \in bad : \A j \in bad : i <= j

\* How many sequence values are drawn before the statement ends.
Drawn(id, rows, found) ==
    LET stop == IF FirstConflict(rows) = 0 THEN Len(rows) ELSE FirstConflict(rows)
    IN  IF id = 0 THEN stop
        ELSE IF stop > Len(found) THEN stop - Len(found) ELSE 0

ForeignKeysHold(rows) ==
    \A i \in DOMAIN rows : /\ rows[i].round \in Keys(rounds)
                           /\ rows[i].player \in PlayerIds

\* The INSERT of CreateBulk: primary keys are checked row by row, foreign keys
\* at the end of the statement, and an empty slice is an error of gorm.
InsertStatus(rows) ==
    IF FirstConflict(rows) # 0 THEN 409
    ELSE IF rows = <<>> \/ ~ForeignKeysHold(rows) THEN 500
    ELSE 201

\* The early returns of CreateBulk.  A zero round id is no condition at all,
\* so that any round satisfies the first query.
RefusedStatus(round, ps) ==
    IF round \notin Keys(rounds) /\ ~(round = 0 /\ rounds # {}) THEN 404
    ELSE IF Cardinality(Registered(ps)) # Len(ps) /\ ~Duplicated(ps) THEN 400
    ELSE 0

\* POST /turns
CreateTurns(id, round, ps) ==
    \/ /\ RefusedStatus(round, ps) # 0
       /\ reply' = Reply("CreateTurns", RefusedStatus(round, ps), id)
       /\ UNCHANGED <<tables, sequences, archives>>
    \/ /\ RefusedStatus(round, ps) = 0
       /\ \E found \in Orders(Registered(ps)) :
            LET rows == NewRows(id, round, ps, found)
            IN  /\ turnSeq + Drawn(id, rows, found) <= MaxTurns
                /\ turnSeq' = turnSeq + Drawn(id, rows, found)
                /\ turns' = IF InsertStatus(rows) = 201
                            THEN turns \cup {rows[i] : i \in DOMAIN rows}
                            ELSE turns
                /\ reply' = Reply("CreateTurns", InsertStatus(rows), id)
       /\ UNCHANGED <<games, gameSeq, playerGames, playerId, playerSeq,
                      rounds, roundSeq, metadata, archives>>

Hit(id) == {t \in turns : t.id = id}
Moved(t, round, closes) == [t EXCEPT !.round = IF round = 0 THEN @ ELSE round,
                                     !.closed = @ \/ closes]

\* Two turns with one id cannot move to the same round, and none to a round that
\* is not stored.
UpdateTurnStatus(id, round) ==
    IF round = 0 \/ Hit(id) = {} THEN 200
    ELSE IF \E t, u \in Hit(id) : t # u THEN 409
    ELSE IF round \notin Keys(rounds) THEN 500
    ELSE 200

\* Mutated form of UpdateTurn: the rows written before an error stay.
UpdateTurn_NoRollback(id, round, closes) ==
    /\ turns' = (turns \ Hit(id)) \cup {Moved(t, round, closes) : t \in Hit(id)}
    /\ reply' = Reply("UpdateTurn", UpdateTurnStatus(id, round), id)
    /\ UNCHANGED <<games, playerGames, playerId, rounds, metadata,
                   sequences, archives>>

\* PUT /turns/{id}: the model carries no round id, so that the statement
\* matches the turns with this id in every round; a round id in the body is a
\* column to set.
UpdateTurn(id, round, closes) ==
    /\ turns' = IF UpdateTurnStatus(id, round) = 200
                THEN (turns \ Hit(id)) \cup
                         {Moved(t, round, closes) : t \in Hit(id)}
                ELSE turns
    /\ reply' = Reply("UpdateTurn", UpdateTurnStatus(id, round), id)
    /\ UNCHANGED <<games, playerGames, playerId, rounds, metadata,
                   sequences, archives>>

\* DELETE /turns/{id}
DeleteTurn(id) ==
    /\ turns' = {t \in turns : t.id # id}
    /\ reply' = Reply("DeleteTurn", IF id \in Keys(turns) THEN 204 ELSE 404, id)
    /\ UNCHANGED <<games, playerGames, playerId, rounds, metadata,
                   sequences, archives>>

-----------------------------------------------------------------------------
(* Archives of turns.                                                      *)

\* The round First picks among those that hold a turn with this id: a set of
\* one row when there is such a turn.
FirstRoundOf(id) ==
    {r \in rounds : /\ \E t \in Hit(id) : t.round = r.id
                    /\ \A u \in Hit(id) : r.id <= u.round}

\* The name of the archive: the game of that round and the turn's number.
ArchivePath(id) == {[game |-> r.game, turn |-> id] : r \in FirstRoundOf(id)}

\* The row SaveFile asks for names no round.
MetadataRow(id) ==
    [turn |-> id, round |-> NULL, path |-> CHOOSE p \in ArchivePath(id) : TRUE]

\* FirstOrCreate has no condition, so that any stored row satisfies it; a row it
\* creates is refused without a round, as metadata.round_id is NOT NULL.
FirstOrCreate(row) ==
    IF metadata = {} /\ row.round # NULL THEN {row} ELSE metadata

\* PUT /turns/{id}/files: the archive is renamed into place before the row is
\* written, and a transaction that fails leaves it there.
SaveFile(id, isZip) ==
    \/ /\ id \notin Keys(turns)
       /\ reply' = Reply("SaveFile", 404, id)
       /\ UNCHANGED <<tables, sequences, archives>>
    \/ /\ id \in Keys(turns) /\ ~isZip
       /\ reply' = Reply("SaveFile", 422, id)
       /\ UNCHANGED <<tables, sequences, archives>>
    \/ /\ id \in Keys(turns) /\ isZip
       /\ archives' = archives \cup ArchivePath(id)
       /\ metadata' = FirstOrCreate(MetadataRow(id))
       /\ reply' = Reply("SaveFile", IF metadata' = {} THEN 500 ELSE 200, id)
       /\ UNCHANGED <<games, playerGames, playerId, rounds, turns, sequences>>

\* The periodic cleanup of main.go: archives of metadata rows without a turn.
Cleanup ==
    LET stale == {m \in metadata : m.turn = NULL}
    IN  /\ archives' = archives \ {m.path : m \in stale}
        /\ metadata' = metadata \ stale
        /\ UNCHANGED <<games, playerGames, playerId, rounds, turns, sequences, reply>>

-----------------------------------------------------------------------------
Init ==
    /\ games = {} /\ gameSeq = 0
    /\ playerGames = {}
    /\ playerId = [a \in Accounts |-> 0] /\ playerSeq = 0
    /\ rounds = {} /\ roundSeq = 0
    /\ turns = {} /\ turnSeq = 0
    /\ metadata = {} /\ archives = {}
    /\ reply = Reply("none", 200, 0)

Next ==
    \/ \E ps \in PlayerLists : CreateGame(ps)
    \/ \E id \in GameIds, closes \in BOOLEAN : UpdateGame(id, closes)
    \/ \E id \in GameIds : DeleteGame(id)
    \/ \E game \in GameIds : CreateRound(game)
    \/ \E id \in RoundIds, closes \in BOOLEAN : UpdateRound(id, closes)
    \/ \E id \in RoundIds : DeleteRound(id)
    \/ \E id \in 0 .. MaxTurns, round \in 0 .. MaxRounds, ps \in PlayerLists :
           CreateTurns(id, round, ps)
    \/ \E id \in TurnIds, round \in 0 .. MaxRounds, closes \in BOOLEAN :
           UpdateTurn(id, round, closes)
    \/ \E id \in TurnIds : DeleteTurn(id)
    \/ \E id \in TurnIds, isZip \in BOOLEAN : SaveFile(id, isZip)
    \/ Cleanup

Spec == Init /\ [][Next]_vars

-----------------------------------------------------------------------------
(* Properties.                                                             *)

\* Every table holds rows of its own shape and every sequence a natural number.
TypeOK ==
    /\ games \subseteq [id : Nat, closed : BOOLEAN]
    /\ playerGames \subseteq [account : Accounts, game : Nat]
    /\ playerId \in [Accounts -> Nat]
    /\ rounds \subseteq [id : Nat, game : Nat, closed : BOOLEAN]
    /\ turns \subseteq [id : Nat, round : Nat, player : Nat, closed : BOOLEAN]
    /\ metadata \subseteq [turn : Nat, round : Nat, path : [game : Nat, turn : Nat]]
    /\ archives \subseteq [game : Nat, turn : Nat]
    /\ gameSeq \in Nat /\ playerSeq \in Nat /\ roundSeq \in Nat /\ turnSeq \in Nat
    /\ reply \in [op : Ops, status : Statuses, id : Nat]

\* The ids in use were drawn from their sequences, so that the next value a
\* sequence hands out is new: no row is attached to what a deleted row left.
SequencesAhead ==
    /\ Keys(games) \subseteq 1 .. gameSeq
    /\ {pg.game : pg \in playerGames} \subseteq 1 .. gameSeq
    /\ Keys(rounds) \subseteq 1 .. roundSeq
    /\ PlayerIds \subseteq 1 .. playerSeq

\* A turn belongs to a stored round and a stored player, whichever handler
\* created or moved it, and no two turns share a round and a number.
TurnIntegrity ==
    /\ \A t \in turns : t.round \in Keys(rounds) /\ t.player \in PlayerIds
    /\ \A t, u \in turns : SameKey(t, u) => t = u

\* player_games carries no foreign key, yet each of its rows names a registered
\* player; two accounts never share a players row; ids of games and rounds are
\* unique.
RegisteredPlayers ==
    /\ \A pg \in playerGames : playerId[pg.account] # 0
    /\ \A a, b \in Accounts : playerId[a] = playerId[b] /\ playerId[a] # 0 => a = b
    /\ \A g, h \in games : g.id = h.id => g = h
    /\ \A r, s \in rounds : r.id = s.id => r = s

\* No handler ever stores a metadata row: the archive of an upload stays on the
\* disk without one, so that no download finds it and no cleanup removes it.
NoMetadata == metadata = {}

\* A handler that answers with an error leaves every table as it was.
ErrorsChangeNoTable == [][reply'.status >= 400 => UNCHANGED tables]_vars

\* The players of a new game are those of its request only: nothing in
\* player_games refers to the game before it is created, although DELETE leaves
\* the rows of earlier games behind.
NewGamesAreFresh ==
    [][\A id \in Keys(games)' \ Keys(games) :
           id \notin {pg.game : pg \in playerGames}]_vars

\* A turn disappears only through a delete of its number or of its round, or
\* when a PUT moves it; in particular no insert replaces one.
TurnsLeaveOnRequest ==
    [][\A t \in turns :
           \/ \E u \in turns' : u.id = t.id /\ u.player = t.player
           \/ reply'.op = "DeleteTurn" /\ reply'.id = t.id
           \/ reply'.op = "DeleteRound" /\ reply'.id = t.round]_vars

-----------------------------------------------------------------------------
(* What the documentation says of the interface, and the code does not do. *)

\* postman/schemas/index.yaml:586, "Update a turn by id": one request closes one
\* turn.
UpdateTouchesOneTurn ==
    [][reply'.op = "UpdateTurn" => Cardinality(turns \ turns') <= 1]_vars
=============================================================================

----------------------------- MODULE GameSession -----------------------------
(***************************************************************************)
(* The play of T5 (GuiController and GameDataWriter) over the repository   *)
(* of T4: players save a game and then its turns, in the tables of T4 and  *)
(* in CSV files under StudentLogin/.  The controller is a Spring singleton *)
(* with one Game object "g" for all requests, nothing is locked, and the   *)
(* requests of different players run on different threads: each call of T4 *)
(* and each access to g that others can see in between is a step of its    *)
(* own.  The browser keeps the ids of the last answer in its localStorage; *)
(* the verdict of T6 on an attempt, which makes the page send update-data  *)
(* or forget the game, is left to choice.                                  *)
(***************************************************************************)
EXTENDS GameRepository

CONSTANTS
    Players,      \* accounts that play in a browser
    NoPlayer,     \* the account "0" of a Game object nobody has set yet
    PoolSize,     \* connections to T4 that the shared HTTP client may lease
    Faults,       \* which of "t4", "csv", "lost" and "restart" may happen
    MaxRestarts   \* bound on the restarts of T5

ASSUME SessionAssumption ==
    /\ Players \cup {NoPlayer} \subseteq Accounts
    /\ NoPlayer \notin Players
    /\ PoolSize \in Nat /\ MaxRestarts \in Nat
    /\ MaxTurns # 0     \* a save stores turn 1

VARIABLES
    g,         \* the Game object of the controller
    pc,        \* where the request of each player is, "idle" when it has none
    local,     \* the values each request holds in local variables
    browser,   \* localStorage: gameId (0 for "null"), roundId, turnId
    csv,       \* the CSV files, by the path that names them
    leaked,    \* connections whose response entity was never consumed
    restarts,  \* how often T5 has been restarted
    owner      \* history: the player whose game in g no other has touched

session == <<g, pc, local, browser, csv, leaked, restarts, owner>>
allVars == <<vars, session>>

-----------------------------------------------------------------------------
SaveSteps == {"postGame", "postRound", "postTurn", "storeId", "storeRound", "saveCsv"}
UpdateSteps == {"postNext", "updateCsv", "nextCsv"}

\* com.g2.Model.Game before any setter is called.
FreshGame == [player |-> NoPlayer, id |-> 0, round |-> 0]

\* The path Player/Game/Round/Turn of a CSV file, read from g when it is written.
CsvPath(turn) ==
    [player |-> g.player, game |-> g.id, round |-> g.round, turn |-> turn]

Goto(p, step) == pc' = [pc EXCEPT ![p] = step]

\* Mutated form of Fail: the request is left where it is, without an answer.
Fail_NoAnswer(p) == UNCHANGED <<pc, local, browser>>

\* The handler gives up and answers with an error: the page shows an alert and
\* keeps what it had stored.
Fail(p) == Goto(p, "idle") /\ UNCHANGED <<local, browser>>

\* The handler answers with ids; an answer that gets lost is an error as well.
Answer(p, ids) ==
    /\ Goto(p, "idle")
    /\ \/ browser' = [browser EXCEPT ![p] = ids]
       \/ "lost" \in Faults /\ UNCHANGED browser
    /\ UNCHANGED local

\* One HTTP exchange with T4.  The client waits, without a timeout, for one of
\* its PoolSize connections.  T4 may be down or answer with an error, and its
\* answer may fail to arrive although the rows are stored.
Exchange(p, Call, Succeed) ==
    /\ leaked < PoolSize
    /\ \/ Call /\ IF reply'.status <= 299 THEN Succeed ELSE Fail(p) /\ UNCHANGED leaked
       \/ "t4" \in Faults /\ Call /\ Fail(p) /\ UNCHANGED leaked
       \/ "t4" \in Faults /\ UNCHANGED vars /\ Fail(p) /\ UNCHANGED leaked
    /\ UNCHANGED <<g, csv, restarts>>

-----------------------------------------------------------------------------
(* save-data                                                               *)

\* The page of p shows the game T5 has in g.
OnScreen(p) == browser[p].game # 0 /\ g.id = browser[p].game

\* No other request is in flight.
Alone(p) == \A q \in Players \ {p} : pc[q] = "idle"

\* POST /save-data: the page sends the player of its token.
SaveData(p) ==
    /\ pc[p] = "idle"
    /\ gameSeq + Cardinality({q \in Players : pc[q] = "postGame"}) < MaxGames
    /\ g' = [g EXCEPT !.player = p]
    /\ Goto(p, "postGame")
    /\ owner' = IF Alone(p) /\ (OnScreen(p) => owner = p) THEN p ELSE NoPlayer
    /\ UNCHANGED <<vars, local, browser, csv, leaked, restarts>>

\* GameDataWriter.saveGame: the player is read from g once, for both the game
\* and its first turn.
PostGame(p) ==
    /\ pc[p] = "postGame"
    /\ Exchange(p, CreateGame(<<g.player>>),
           /\ local' = [local EXCEPT ![p].player = g.player, ![p].game = reply'.id]
           /\ Goto(p, "postRound")
           /\ UNCHANGED <<browser, leaked>>)

PostRound(p) ==
    /\ pc[p] = "postRound"
    /\ Exchange(p, CreateRound(local[p].game),
           /\ local' = [local EXCEPT ![p].round = reply'.id]
           /\ Goto(p, "postTurn")
           /\ UNCHANGED <<browser, leaked>>)

\* Mutated form of PostTurn: the player is read from g again.
PostTurn_ReadsAgain(p) ==
    /\ pc[p] = "postTurn"
    /\ Exchange(p, CreateTurns(1, local[p].round, <<g.player>>),
           /\ leaked' = leaked + 1
           /\ Goto(p, "storeId")
           /\ UNCHANGED <<local, browser>>)

\* The first turn.  The response is not read, so that its connection is never
\* returned to the pool.
PostTurn(p) ==
    /\ pc[p] = "postTurn"
    /\ Exchange(p, CreateTurns(1, local[p].round, <<local[p].player>>),
           /\ leaked' = leaked + 1
           /\ Goto(p, "storeId")
           /\ UNCHANGED <<local, browser>>)

\* GuiController.saveGame stores the two ids in g, one after the other.
StoreId(p) ==
    /\ pc[p] = "storeId"
    /\ g' = [g EXCEPT !.id = local[p].game]
    /\ Goto(p, "storeRound")
    /\ UNCHANGED <<vars, local, browser, csv, leaked, restarts>>

StoreRound(p) ==
    /\ pc[p] = "storeRound"
    /\ g' = [g EXCEPT !.round = local[p].round]
    /\ Goto(p, "saveCsv")
    /\ UNCHANGED <<vars, local, browser, csv, leaked, restarts>>

\* Writing one CSV file: its path is taken from g, an error ends the request.
WriteCsv(p, turn, Succeed) ==
    /\ \/ csv' = csv \cup {CsvPath(turn)} /\ Succeed
       \/ "csv" \in Faults /\ UNCHANGED csv /\ Fail(p)
    /\ UNCHANGED <<vars, g, leaked, restarts>>

SaveCsv(p) ==
    /\ pc[p] = "saveCsv"
    /\ WriteCsv(p, 1, Answer(p, [game |-> local[p].game, round |-> local[p].round,
                                 turn |-> 1]))

-----------------------------------------------------------------------------
(* update-data                                                             *)

\* POST /update-data, after an attempt that did not win: the page sends the
\* number of its turn, not the game nor the round.
UpdateData(p) ==
    /\ pc[p] = "idle"
    /\ browser[p].game # 0 /\ browser[p].turn < MaxTurns
    /\ local' = [local EXCEPT ![p].turn = browser[p].turn]
    /\ Goto(p, "postNext")
    /\ UNCHANGED <<vars, g, browser, csv, leaked, restarts, owner>>

\* Mutated form of PostNext: the number is counted from the turns stored, instead
\* of the page's.
PostNext_CountsTurns(p) ==
    /\ pc[p] = "postNext"
    /\ Exchange(p, CreateTurns(Cardinality({t \in turns : t.round = g.round}) + 1,
                              g.round, <<g.player>>),
           /\ leaked' = leaked + 1
           /\ Goto(p, "updateCsv")
           /\ UNCHANGED <<local, browser>>)

\* GameDataWriter.updateGame: the round and the player are those of g.
PostNext(p) ==
    /\ pc[p] = "postNext"
    /\ Exchange(p, CreateTurns(local[p].turn + 1, g.round, <<g.player>>),
           /\ leaked' = leaked + 1
           /\ Goto(p, "updateCsv")
           /\ UNCHANGED <<local, browser>>)

UpdateCsv(p) ==
    /\ pc[p] = "updateCsv"
    /\ WriteCsv(p, local[p].turn, Goto(p, "nextCsv") /\ UNCHANGED <<local, browser>>)

\* Mutated form of NextCsv: the file of the current turn is written twice.
NextCsv_SameTurn(p) ==
    /\ pc[p] = "nextCsv"
    /\ WriteCsv(p, local[p].turn,
           Answer(p, [browser[p] EXCEPT !.turn = local[p].turn + 1]))

\* createNextTurnCSV, and the answer with the number of the next turn.
NextCsv(p) ==
    /\ pc[p] = "nextCsv"
    /\ WriteCsv(p, local[p].turn + 1,
           Answer(p, [browser[p] EXCEPT !.turn = local[p].turn + 1]))

-----------------------------------------------------------------------------
\* The page forgets a game that was won.
Win(p) ==
    /\ pc[p] = "idle" /\ browser[p].game # 0
    /\ browser' = [browser EXCEPT ![p].game = 0]
    /\ UNCHANGED <<vars, g, pc, local, csv, leaked, restarts, owner>>

\* T5 is restarted: its memory is lost, pending requests end with an error.
Restart ==
    /\ "restart" \in Faults /\ restarts < MaxRestarts
    /\ restarts' = restarts + 1
    /\ g' = FreshGame
    /\ pc' = [p \in Players |-> "idle"]
    /\ leaked' = 0
    /\ UNCHANGED <<vars, local, browser, csv, owner>>

SessionInit ==
    /\ Init
    /\ g = FreshGame
    /\ pc = [p \in Players |-> "idle"]
    /\ local = [p \in Players |-> [player |-> NoPlayer, game |-> 0, round |-> 0, turn |-> 0]]
    /\ browser = [p \in Players |-> [game |-> 0, round |-> 0, turn |-> 0]]
    /\ csv = {} /\ leaked = 0 /\ restarts = 0 /\ owner = NoPlayer

\* The steps of a request that is being handled.
Handle(p) ==
    /\ \/ PostGame(p) \/ PostRound(p) \/ PostTurn(p)
       \/ StoreId(p) \/ StoreRound(p) \/ SaveCsv(p)
       \/ PostNext(p) \/ UpdateCsv(p) \/ NextCsv(p)
    /\ owner' = IF owner = p THEN p ELSE NoPlayer

SessionNext ==
    \/ \E p \in Players : SaveData(p) \/ UpdateData(p) \/ Win(p) \/ Handle(p)
    \/ Restart

SessionSpec == SessionInit /\ [][SessionNext]_allVars

\* Tomcat runs every request thread; nothing else is fair.
FairSessionSpec == SessionSpec /\ \A p \in Players : WF_allVars(Handle(p))

-----------------------------------------------------------------------------
(* Properties.                                                             *)

\* The player of a turn row.
PlayedBy(t, p) == t.player = playerId[p]

\* Whether the tables of T4 hold this turn of this player in this game.
Stored(p, game, round, turn) ==
    /\ \E r \in rounds : r.id = round /\ r.game = game
    /\ \E t \in turns : t.id = turn /\ t.round = round /\ PlayedBy(t, p)

SessionTypeOK ==
    /\ g \in [player : Accounts, id : Nat, round : Nat]
    /\ pc \in [Players -> {"idle"} \cup SaveSteps \cup UpdateSteps]
    /\ local \in [Players -> [player : Accounts, game : Nat, round : Nat, turn : Nat]]
    /\ browser \in [Players -> [game : Nat, round : Nat, turn : Nat]]
    /\ csv \subseteq [player : Accounts, game : Nat, round : Nat, turn : Nat]
    /\ leaked \in 0 .. PoolSize /\ restarts \in 0 .. MaxRestarts
    /\ owner \in Players \cup {NoPlayer}

\* README.md:11: the data of a game in the file system agree with those in the
\* database: every CSV file describes a turn T4 holds.
CsvBackedByDatabase ==
    \A f \in csv : Stored(f.player, f.game, f.round, f.turn)

\* The path of the CSV file of the turn that a page shows.
PagePath(p, page) ==
    [player |-> p, game |-> page.game, round |-> page.round, turn |-> page.turn]

\* The page of p is at rest on the game T5 has in g: neither a lost answer nor an
\* error half-way through save-data has set them apart, and since that save began
\* no other player has had a request handled.
InStep(p) == owner = p /\ pc[p] = "idle" /\ OnScreen(p)

\* While the page and T5 agree on the game, what the page shows as its current
\* turn is stored for that player, in T4 and in the file system.
SessionCoherent ==
    \A p \in Players : InStep(p) =>
        /\ Stored(p, browser[p].game, browser[p].round, browser[p].turn)
        /\ PagePath(p, browser[p]) \in csv

\* The turns of the round a page plays are numbered without gaps, and T4 is at
\* most one turn ahead of the page, whatever failed half-way and was retried.
AtMostOneAhead ==
    \A p \in Players : InStep(p) =>
        LET stored == {t.id : t \in {u \in turns : u.round = browser[p].round}}
        IN  \/ stored = 1 .. browser[p].turn
            \/ stored = 1 .. browser[p].turn + 1

\* The three inserts of one save agree with each other under any interleaving
\* and any failure: a round names a stored game, and the first turn of a round
\* is played by a player of its game.
SavesAreCoherent ==
    /\ \A r \in rounds : r.game \in Keys(games)
    /\ \A t \in turns, r \in rounds : t.id = 1 /\ t.round = r.id =>
           \E pg \in playerGames : pg.game = r.game /\ PlayedBy(t, pg.account)

\* Every request ends, or finds the pool of connections exhausted.
AnsweredOrExhausted ==
    \A p \in Players : pc[p] # "idle" ~> (pc[p] = "idle" \/ leaked = PoolSize)
=============================================================================

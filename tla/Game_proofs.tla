---------------------------- MODULE Game_proofs -----------------------------
(***************************************************************************)
(* Proofs about the games, for every set of players, every pool of         *)
(* connections, every choice of faults and every bound.                    *)
(*                                                                         *)
(* Of the repository of T4 alone, IInv is inductive; the named properties  *)
(* of GameRepository follow from it.  Of the play of T5 over it, SInv is   *)
(* inductive: it extends the invariant of the repository with what a       *)
(* request still knows of the rows it has stored (Request) and with what   *)
(* holds for the player whom nobody has disturbed (Owned).  ChoiceInv,     *)
(* inductive relative to SInv, follows a choice of class from the report   *)
(* page to the round that is stored under it.                              *)
(***************************************************************************)
EXTENDS GameChoice, FiniteSetTheorems, TLAPS

-----------------------------------------------------------------------------
(* The repository of T4.                                                   *)

\* The inductive invariant: no metadata row is ever stored, every key was drawn
\* from its sequence, every turn has its round and its player.
IInv ==
    /\ TypeOK
    /\ SequencesAhead
    /\ TurnIntegrity
    /\ RegisteredPlayers
    /\ NoMetadata

-----------------------------------------------------------------------------
(* Lemmas about the operators.                                             *)

\* The replies the handlers give are well typed.
LEMMA ReplyType ==
    ASSUME NEW op \in Ops, NEW status \in Statuses, NEW id \in Nat
    PROVE  Reply(op, status, id) \in [op : Ops, status : Statuses, id : Nat]
BY DEF Reply

\* A list of players has at most two entries.
LEMMA ListLength ==
    ASSUME NEW ps \in PlayerLists
    PROVE  /\ Len(ps) \in 0 .. 2
           /\ DOMAIN ps = 1 .. Len(ps)
           /\ \A i \in DOMAIN ps : ps[i] \in Accounts
<1>1. PICK n \in 0 .. 2 : ps \in [1 .. n -> Accounts]
  BY DEF PlayerLists
<1>2. ps \in Seq(Accounts) /\ Len(ps) = n
  BY <1>1
<1> QED
  BY <1>1, <1>2

\* An upsert keeps known accounts, and the ids it gives to new ones lie in the
\* part of the sequence the request draws, one for each account.
LEMMA UpsertIds ==
    ASSUME TypeOK, NEW ps \in PlayerLists, NEW a \in Accounts
    PROVE  LET q == UpsertedPlayers(ps)
           IN  /\ playerId[a] # 0 => q[a] = playerId[a]
               /\ playerId[a] = 0 /\ q[a] # 0 =>
                     \E i \in DOMAIN ps : ps[i] = a /\ q[a] = playerSeq + i
               /\ (\E i \in DOMAIN ps : ps[i] = a) => q[a] # 0
               /\ q[a] \in Nat
<1> DEFINE q == UpsertedPlayers(ps)
           found == \E i \in DOMAIN ps : ps[i] = a
           pos == CHOOSE i \in DOMAIN ps : ps[i] = a
<1>1. q[a] = IF playerId[a] = 0 /\ found THEN playerSeq + pos ELSE playerId[a]
  BY DEF UpsertedPlayers
<1>2. found => pos \in DOMAIN ps /\ ps[pos] = a
  OBVIOUS
<1>3. DOMAIN ps \subseteq 1 .. 2
  BY ListLength
<1>4. playerSeq \in Nat /\ playerId[a] \in Nat
  BY DEF TypeOK
<1> HIDE DEF q, pos, found
<1>5. found => pos \in 1 .. 2
  BY <1>2, <1>3
<1>6. /\ playerId[a] # 0 => q[a] = playerId[a]
      /\ playerId[a] = 0 /\ q[a] # 0 => found /\ q[a] = playerSeq + pos
      /\ found => q[a] # 0
      /\ q[a] \in Nat
  BY <1>1, <1>4, <1>5
<1> QED
  BY <1>6, <1>2 DEF q, found

\* The rows of a bulk insert are well typed.
LEMMA RowTypes ==
    ASSUME TypeOK, NEW id \in Nat, NEW round \in Nat, NEW ps \in PlayerLists,
           NEW found \in Orders(Registered(ps))
    PROVE  LET rows == NewRows(id, round, ps, found)
           IN  /\ rows \in [1 .. Len(ps) -> [id : Nat, round : Nat, player : Nat,
                                            closed : BOOLEAN]]
               /\ Len(rows) = Len(ps)
               /\ Len(found) \in 0 .. 2
<1>1. PICK n \in 0 .. 2 : found \in [1 .. n -> Registered(ps)]
  BY DEF Orders
<1>2. Len(found) = n /\ DOMAIN found = 1 .. n
  BY <1>1
<1>3. Registered(ps) \subseteq Nat
  BY ListLength DEF Registered, TypeOK
<1>4. turnSeq \in Nat
  BY DEF TypeOK
<1>5. DOMAIN ps = 1 .. Len(ps) /\ Len(ps) \in 0 .. 2
  BY ListLength
<1>6. ASSUME NEW i \in 1 .. Len(ps)
      PROVE  NewRows(id, round, ps, found)[i]
                \in [id : Nat, round : Nat, player : Nat, closed : BOOLEAN]
  <2>1. i \in Nat /\ i >= 1
    BY <1>5
  <2>2. i <= Len(found) => found[i] \in Nat
    BY <1>1, <1>2, <1>3, <2>1
  <2> QED
    BY <1>2, <1>4, <1>5, <2>1, <2>2 DEF NewRows
<1>7. NewRows(id, round, ps, found)
         \in [1 .. Len(ps) -> [id : Nat, round : Nat, player : Nat, closed : BOOLEAN]]
  BY <1>5, <1>6 DEF NewRows
<1> HIDE DEF NewRows
<1> QED
  BY <1>2, <1>5, <1>7

\* The first conflict of at most two rows is one of them.
LEMMA ConflictType ==
    ASSUME NEW rows, NEW n \in 0 .. 2, DOMAIN rows = 1 .. n
    PROVE  /\ FirstConflict(rows) \in 0 .. n
           /\ FirstConflict(rows) = 0 =>
                 \A i \in DOMAIN rows :
                    /\ \A t \in turns : ~SameKey(t, rows[i])
                    /\ \A j \in 1 .. (i - 1) : ~SameKey(rows[j], rows[i])
<1> DEFINE bad == {i \in DOMAIN rows :
                      \/ \E t \in turns : SameKey(t, rows[i])
                      \/ \E j \in 1 .. (i - 1) : SameKey(rows[j], rows[i])}
<1>1. FirstConflict(rows) = IF bad = {} THEN 0
                            ELSE CHOOSE i \in bad : \A j \in bad : i <= j
  BY DEF FirstConflict
<1>2. bad \subseteq 1 .. 2 /\ bad \subseteq 1 .. n
  OBVIOUS
<1>3. bad = {} => \A i \in DOMAIN rows :
                    /\ \A t \in turns : ~SameKey(t, rows[i])
                    /\ \A j \in 1 .. (i - 1) : ~SameKey(rows[j], rows[i])
  OBVIOUS
<1> HIDE DEF bad
<1>4. bad # {} => \E i \in bad : \A j \in bad : i <= j
  <2>1. CASE 1 \in bad
    BY <1>2, <2>1
  <2>2. CASE 1 \notin bad /\ bad # {}
    <3>1. \A i \in bad : i = 2
      BY <1>2, <2>2
    <3> QED
      BY <2>2, <3>1
  <2> QED
    BY <2>1, <2>2
<1>5. bad # {} => FirstConflict(rows) \in bad
  BY <1>1, <1>4
<1>6. bad # {} => FirstConflict(rows) \in 1 .. n
  BY <1>2, <1>5
<1>7. bad = {} => FirstConflict(rows) = 0
  BY <1>1
<1>8. FirstConflict(rows) \in 0 .. n
  BY <1>6, <1>7
<1>9. FirstConflict(rows) = 0 => bad = {}
  BY <1>6
<1> QED
  BY <1>3, <1>8, <1>9, Zenon

\* A statement draws a natural number of sequence values.
LEMMA DrawnType ==
    ASSUME NEW rows, NEW n \in 0 .. 2,
           DOMAIN rows = 1 .. n, Len(rows) = n,
           NEW id \in Nat, NEW found, Len(found) \in 0 .. 2
    PROVE  Drawn(id, rows, found) \in Nat
<1>1. FirstConflict(rows) \in 0 .. n
  BY ConflictType
<1> QED
  BY <1>1 DEF Drawn

-----------------------------------------------------------------------------
(* The invariant holds initially and every handler preserves it.           *)

LEMMA InitIInv == Init => IInv
<1> SUFFICES ASSUME Init PROVE IInv
  OBVIOUS
<1> USE DEF Init, Keys, PlayerIds
<1>1. TypeOK
  BY DEF TypeOK, Reply, Ops, Statuses
<1>2. SequencesAhead
  BY DEF SequencesAhead
<1>3. TurnIntegrity /\ RegisteredPlayers /\ NoMetadata
  BY DEF TurnIntegrity, RegisteredPlayers, NoMetadata
<1> QED
  BY <1>1, <1>2, <1>3 DEF IInv

LEMMA StutterIInv ==
    ASSUME IInv, UNCHANGED <<tables, sequences, archives>>,
           reply' \in [op : Ops, status : Statuses, id : Nat]
    PROVE  IInv'
BY DEF IInv, TypeOK, SequencesAhead, TurnIntegrity, RegisteredPlayers, NoMetadata,
       tables, sequences, Keys, PlayerIds, SameKey

LEMMA CreateGameIInv ==
    ASSUME IInv, NEW ps \in PlayerLists, CreateGame(ps)
    PROVE  IInv'
<1>1. CASE Duplicated(ps)
  <2>1. reply' = Reply("CreateGame", 400, 0)
           /\ UNCHANGED <<tables, sequences, archives>>
    BY <1>1, Zenon DEF CreateGame
  <2>2. "CreateGame" \in Ops /\ 400 \in Statuses /\ 0 \in Nat
    BY DEF Ops, Statuses
  <2>3. reply' \in [op : Ops, status : Statuses, id : Nat]
    BY <2>1, <2>2, ReplyType
  <2> QED
    BY <2>1, <2>3, StutterIInv
<1>2. CASE ~Duplicated(ps)
  <2> DEFINE new == [id |-> gameSeq + 1, closed |-> FALSE]
  <2>0. /\ gameSeq' = gameSeq + 1
        /\ games' = games \cup {new}
        /\ playerId' = UpsertedPlayers(ps)
        /\ playerSeq' = playerSeq + Len(ps)
        /\ playerGames' = playerGames \cup
              {[account |-> ps[i], game |-> gameSeq + 1] : i \in DOMAIN ps}
        /\ reply' = Reply("CreateGame", 201, gameSeq + 1)
        /\ UNCHANGED <<rounds, roundSeq, turns, turnSeq, metadata, archives>>
    BY <1>2, Zenon DEF CreateGame
  <2> USE <2>0
  <2>1. TypeOK
    BY DEF IInv
  <2>2. Len(ps) \in 0 .. 2 /\ DOMAIN ps = 1 .. Len(ps)
           /\ \A i \in DOMAIN ps : ps[i] \in Accounts
    BY ListLength
  <2>3. playerId' \in [Accounts -> Nat]
    BY <2>1, UpsertIds DEF UpsertedPlayers
  <2>4. \A a \in Accounts : playerId[a] # 0 => playerId'[a] = playerId[a]
    BY <2>1, UpsertIds
  <2>5. \A a \in Accounts : playerId[a] = 0 /\ playerId'[a] # 0 =>
           \E i \in DOMAIN ps : ps[i] = a /\ playerId'[a] = playerSeq + i
    BY <2>1, UpsertIds
  <2>6. \A i \in DOMAIN ps : playerId'[ps[i]] # 0
    BY <2>1, <2>2, UpsertIds
  <2>7. playerSeq \in Nat /\ gameSeq \in Nat /\ playerSeq' = playerSeq + Len(ps)
    BY <2>1 DEF TypeOK
  <2>8. TypeOK'
    <3>1. reply' \in [op : Ops, status : Statuses, id : Nat]
      <4>1. "CreateGame" \in Ops /\ 201 \in Statuses /\ gameSeq + 1 \in Nat
        BY <2>7 DEF Ops, Statuses
      <4> QED
        BY <4>1, ReplyType
    <3>2. playerGames' \subseteq [account : Accounts, game : Nat]
      BY <2>1, <2>2, <2>7 DEF TypeOK
    <3>3. games' \subseteq [id : Nat, closed : BOOLEAN]
      <4>1. new \in [id : Nat, closed : BOOLEAN]
        BY <2>7
      <4> HIDE DEF new
      <4> QED
        BY <2>1, <4>1 DEF TypeOK
    <3> QED
      BY <2>1, <2>2, <2>3, <2>7, <3>1, <3>2, <3>3 DEF TypeOK
  <2>9. SequencesAhead'
    <3>1. \A a \in Accounts : playerId[a] # 0 => playerId[a] \in 1 .. playerSeq
      BY DEF IInv, SequencesAhead, PlayerIds
    <3>2. \A a \in Accounts : playerId'[a] # 0 => playerId'[a] \in 1 .. playerSeq'
      BY <2>2, <2>3, <2>4, <2>5, <2>7, <3>1
    <3>3. PlayerIds' \subseteq 1 .. playerSeq'
      BY <3>2 DEF PlayerIds
    <3>4. Keys(games)' \subseteq 1 .. gameSeq'
      BY <2>7 DEF IInv, SequencesAhead, Keys
    <3>5. {pg.game : pg \in playerGames'} \subseteq 1 .. gameSeq'
      BY <2>7 DEF IInv, SequencesAhead
    <3>6. Keys(rounds)' \subseteq 1 .. roundSeq'
      BY DEF IInv, SequencesAhead, Keys
    <3> QED
      BY <3>3, <3>4, <3>5, <3>6 DEF SequencesAhead, Keys
  <2>10. TurnIntegrity'
    <3>1. PlayerIds \subseteq PlayerIds'
      BY <2>4 DEF PlayerIds
    <3> QED
      BY <3>1 DEF IInv, TurnIntegrity, Keys, SameKey
  <2>11. RegisteredPlayers'
    <3>1. \A pg \in playerGames' : playerId'[pg.account] # 0
      BY <2>1, <2>4, <2>6 DEF IInv, RegisteredPlayers, TypeOK
    <3>2. ASSUME NEW a \in Accounts, NEW b \in Accounts,
                 playerId'[a] = playerId'[b], playerId'[a] # 0
          PROVE  a = b
      <4>1. \A c \in Accounts : playerId[c] # 0 => playerId[c] <= playerSeq
        BY <2>1, <2>7 DEF IInv, SequencesAhead, PlayerIds, TypeOK
      <4>2. CASE playerId[a] # 0 /\ playerId[b] # 0
        BY <2>4, <3>2, <4>2 DEF IInv, RegisteredPlayers
      <4>3. CASE playerId[a] = 0 /\ playerId[b] = 0
        BY <2>2, <2>5, <2>7, <3>2, <4>3
      <4>4. CASE playerId[a] = 0 /\ playerId[b] # 0
        BY <2>2, <2>4, <2>5, <2>7, <3>2, <4>1, <4>4
      <4>5. CASE playerId[a] # 0 /\ playerId[b] = 0
        BY <2>2, <2>4, <2>5, <2>7, <3>2, <4>1, <4>5
      <4> QED
        BY <4>2, <4>3, <4>4, <4>5
    <3>3. \A x, y \in games' : x.id = y.id => x = y
      <4>1. \A x \in games : x.id # gameSeq + 1
        BY SMTT(30), <2>7 DEF IInv, SequencesAhead, Keys
      <4>2. \A x \in games : x.id # new.id
        BY <4>1
      <4>3. \A x, y \in games : x.id = y.id => x = y
        BY DEF IInv, RegisteredPlayers
      <4> HIDE DEF new
      <4> QED
        BY <4>2, <4>3
    <3>4. \A r, s \in rounds' : r.id = s.id => r = s
      BY DEF IInv, RegisteredPlayers
    <3> QED
      BY <3>1, <3>2, <3>3, <3>4 DEF RegisteredPlayers
  <2>12. NoMetadata'
    BY DEF IInv, NoMetadata
  <2> QED
    BY <2>8, <2>9, <2>10, <2>11, <2>12 DEF IInv
<1> QED
  BY <1>1, <1>2

LEMMA UpdateGameIInv ==
    ASSUME IInv, NEW id \in GameIds, NEW closes \in BOOLEAN,
           UpdateGame(id, closes)
    PROVE  IInv'
<1> DEFINE upd(x) == [x EXCEPT !.closed = @ \/ (closes /\ x.id = id)]
<1>1. /\ games' = {upd(x) : x \in games}
      /\ reply' = Reply("UpdateGame", 200, id)
      /\ UNCHANGED <<playerGames, playerId, rounds, turns, metadata,
                     sequences, archives>>
  BY Zenon DEF UpdateGame
<1>2. \A x \in games : /\ upd(x) \in [id : Nat, closed : BOOLEAN]
                       /\ upd(x).id = x.id
  BY DEF IInv, TypeOK
<1> HIDE DEF upd
<1>3. reply' \in [op : Ops, status : Statuses, id : Nat]
  <2>1. "UpdateGame" \in Ops /\ 200 \in Statuses /\ id \in Nat
    BY BoundsAssumption DEF Ops, Statuses, GameIds
  <2> QED
    BY <1>1, <2>1, ReplyType
<1>4. TypeOK'
  <2>1. games' \subseteq [id : Nat, closed : BOOLEAN]
    BY <1>1, <1>2
  <2> QED
    BY <1>1, <1>3, <2>1 DEF IInv, TypeOK, sequences
<1>5. Keys(games)' = Keys(games)
  BY <1>1, <1>2 DEF Keys
<1>6. \A x, y \in games' : x.id = y.id => x = y
  BY <1>1, <1>2 DEF IInv, RegisteredPlayers
<1>7. SequencesAhead'
  BY <1>1, <1>5 DEF IInv, SequencesAhead, sequences, PlayerIds, Keys
<1>8. TurnIntegrity'
  BY <1>1, <1>5 DEF IInv, TurnIntegrity, PlayerIds, SameKey, Keys
<1>9. RegisteredPlayers' /\ NoMetadata'
  BY <1>1, <1>6 DEF IInv, RegisteredPlayers, NoMetadata
<1> QED
  BY <1>4, <1>7, <1>8, <1>9 DEF IInv

LEMMA DeleteGameIInv ==
    ASSUME IInv, NEW id \in GameIds, DeleteGame(id)
    PROVE  IInv'
<1>1. /\ games' \subseteq games
      /\ UNCHANGED <<playerGames, playerId, rounds, turns, metadata,
                     sequences, archives>>
  BY DEF DeleteGame
<1>2. reply' \in [op : Ops, status : Statuses, id : Nat]
  <2>1. "DeleteGame" \in Ops /\ 204 \in Statuses /\ 404 \in Statuses /\ id \in Nat
    BY BoundsAssumption DEF Ops, Statuses, GameIds
  <2>2. reply' = Reply("DeleteGame", 204, id) \/ reply' = Reply("DeleteGame", 404, id)
    BY DEF DeleteGame
  <2>3. CASE reply' = Reply("DeleteGame", 204, id)
    BY <2>1, <2>3, ReplyType
  <2>4. CASE reply' = Reply("DeleteGame", 404, id)
    BY <2>1, <2>4, ReplyType
  <2> QED
    BY <2>2, <2>3, <2>4
<1>3. TypeOK'
  BY <1>1, <1>2 DEF IInv, TypeOK, sequences
<1>4. SequencesAhead' /\ TurnIntegrity' /\ RegisteredPlayers' /\ NoMetadata'
  BY <1>1 DEF IInv, SequencesAhead, TurnIntegrity, RegisteredPlayers, NoMetadata,
              sequences, PlayerIds, Keys, SameKey
<1> QED
  BY <1>3, <1>4 DEF IInv

LEMMA CreateRoundIInv ==
    ASSUME IInv, NEW game \in GameIds, CreateRound(game)
    PROVE  IInv'
<1> DEFINE new == [id |-> roundSeq + 1, game |-> game, closed |-> FALSE]
<1>1. /\ roundSeq' = roundSeq + 1
      /\ rounds' = rounds \cup {new}
      /\ reply' = Reply("CreateRound", 201, roundSeq + 1)
      /\ UNCHANGED <<games, gameSeq, playerGames, playerId, playerSeq,
                     turns, turnSeq, metadata, archives>>
  BY Zenon DEF CreateRound
<1>2. roundSeq \in Nat /\ game \in Nat
  BY BoundsAssumption DEF IInv, TypeOK, GameIds
<1>3. /\ new \in [id : Nat, game : Nat, closed : BOOLEAN]
      /\ new.id = roundSeq + 1
      /\ \A r \in rounds : r.id # new.id
  BY <1>2 DEF IInv, SequencesAhead, Keys
<1> HIDE DEF new
<1>4. reply' \in [op : Ops, status : Statuses, id : Nat]
  <2>1. "CreateRound" \in Ops /\ 201 \in Statuses /\ roundSeq + 1 \in Nat
    BY <1>2 DEF Ops, Statuses
  <2> QED
    BY <1>1, <2>1, ReplyType
<1>5. TypeOK'
  BY <1>1, <1>2, <1>3, <1>4 DEF IInv, TypeOK
<1>6. SequencesAhead'
  <2>1. Keys(rounds)' \subseteq 1 .. roundSeq'
    BY <1>1, <1>2, <1>3 DEF IInv, SequencesAhead, Keys
  <2> QED
    BY <1>1, <2>1 DEF IInv, SequencesAhead, Keys, PlayerIds
<1>7. TurnIntegrity'
  BY <1>1 DEF IInv, TurnIntegrity, Keys, PlayerIds, SameKey
<1>8. RegisteredPlayers' /\ NoMetadata'
  <2>1. \A r, s \in rounds' : r.id = s.id => r = s
    BY <1>1, <1>3 DEF IInv, RegisteredPlayers
  <2> QED
    BY <1>1, <2>1 DEF IInv, RegisteredPlayers, NoMetadata
<1> QED
  BY <1>5, <1>6, <1>7, <1>8 DEF IInv

LEMMA UpdateRoundIInv ==
    ASSUME IInv, NEW id \in RoundIds, NEW closes \in BOOLEAN,
           UpdateRound(id, closes)
    PROVE  IInv'
<1> DEFINE upd(r) == [r EXCEPT !.closed = @ \/ (closes /\ r.id = id)]
<1>1. /\ rounds' = {upd(r) : r \in rounds}
      /\ reply' = Reply("UpdateRound", 200, id)
      /\ UNCHANGED <<games, playerGames, playerId, turns, metadata,
                     sequences, archives>>
  BY Zenon DEF UpdateRound
<1>2. \A r \in rounds : /\ upd(r) \in [id : Nat, game : Nat, closed : BOOLEAN]
                        /\ upd(r).id = r.id
  BY DEF IInv, TypeOK
<1> HIDE DEF upd
<1>3. reply' \in [op : Ops, status : Statuses, id : Nat]
  <2>1. "UpdateRound" \in Ops /\ 200 \in Statuses /\ id \in Nat
    BY BoundsAssumption DEF Ops, Statuses, RoundIds
  <2> QED
    BY <1>1, <2>1, ReplyType
<1>4. TypeOK'
  <2>1. rounds' \subseteq [id : Nat, game : Nat, closed : BOOLEAN]
    BY <1>1, <1>2
  <2> QED
    BY <1>1, <1>3, <2>1 DEF IInv, TypeOK, sequences
<1>5. Keys(rounds)' = Keys(rounds)
  BY <1>1, <1>2 DEF Keys
<1>6. \A r, s \in rounds' : r.id = s.id => r = s
  BY <1>1, <1>2 DEF IInv, RegisteredPlayers
<1>7. SequencesAhead'
  BY <1>1, <1>5 DEF IInv, SequencesAhead, sequences, PlayerIds, Keys
<1>8. TurnIntegrity'
  BY <1>1, <1>5 DEF IInv, TurnIntegrity, PlayerIds, SameKey, Keys
<1>9. RegisteredPlayers' /\ NoMetadata'
  BY <1>1, <1>6 DEF IInv, RegisteredPlayers, NoMetadata
<1> QED
  BY <1>4, <1>7, <1>8, <1>9 DEF IInv

LEMMA DeleteRoundIInv ==
    ASSUME IInv, NEW id \in RoundIds, DeleteRound(id)
    PROVE  IInv'
<1>1. /\ rounds' = {r \in rounds : r.id # id}
      /\ turns' = {t \in turns : t.round # id}
      /\ UNCHANGED <<games, playerGames, playerId, metadata, sequences, archives>>
  BY DEF DeleteRound
<1>2. reply' \in [op : Ops, status : Statuses, id : Nat]
  <2>1. "DeleteRound" \in Ops /\ 204 \in Statuses /\ 404 \in Statuses /\ id \in Nat
    BY BoundsAssumption DEF Ops, Statuses, RoundIds
  <2>2. reply' = Reply("DeleteRound", 204, id) \/ reply' = Reply("DeleteRound", 404, id)
    BY DEF DeleteRound
  <2>3. CASE reply' = Reply("DeleteRound", 204, id)
    BY <2>1, <2>3, ReplyType
  <2>4. CASE reply' = Reply("DeleteRound", 404, id)
    BY <2>1, <2>4, ReplyType
  <2> QED
    BY <2>2, <2>3, <2>4
<1>3. TypeOK'
  BY <1>1, <1>2 DEF IInv, TypeOK, sequences
<1>4. SequencesAhead' /\ RegisteredPlayers' /\ NoMetadata'
  BY <1>1 DEF IInv, SequencesAhead, RegisteredPlayers, NoMetadata,
              sequences, PlayerIds, Keys
<1>5. TurnIntegrity'
  BY <1>1 DEF IInv, TurnIntegrity, PlayerIds, Keys, SameKey
<1> QED
  BY <1>3, <1>4, <1>5 DEF IInv

\* Facts shared by the handlers that change the turns only.
LEMMA TurnsOnlyIInv ==
    ASSUME IInv,
           UNCHANGED <<games, gameSeq, playerGames, playerId, playerSeq,
                       rounds, roundSeq, metadata, archives>>,
           turnSeq' \in Nat,
           reply' \in [op : Ops, status : Statuses, id : Nat],
           turns' \subseteq [id : Nat, round : Nat, player : Nat, closed : BOOLEAN],
           \A t \in turns' : t.round \in Keys(rounds) /\ t.player \in PlayerIds,
           \A t, u \in turns' : SameKey(t, u) => t = u
    PROVE  IInv'
<1>1. TypeOK'
  BY DEF IInv, TypeOK
<1>2. SequencesAhead' /\ RegisteredPlayers' /\ NoMetadata'
  BY DEF IInv, SequencesAhead, RegisteredPlayers, NoMetadata, PlayerIds, Keys
<1>3. TurnIntegrity'
  BY DEF IInv, TurnIntegrity, PlayerIds, Keys, SameKey
<1> QED
  BY <1>1, <1>2, <1>3 DEF IInv

LEMMA CreateTurnsIInv ==
    ASSUME IInv, NEW id \in 0 .. MaxTurns, NEW round \in 0 .. MaxRounds,
           NEW ps \in PlayerLists, CreateTurns(id, round, ps)
    PROVE  IInv'
<1>0. id \in Nat /\ round \in Nat /\ "CreateTurns" \in Ops
  BY BoundsAssumption DEF Ops
<1>1. CASE RefusedStatus(round, ps) # 0
  <2>1. reply' = Reply("CreateTurns", RefusedStatus(round, ps), id)
           /\ UNCHANGED <<tables, sequences, archives>>
    BY <1>1, Zenon DEF CreateTurns
  <2>2. RefusedStatus(round, ps) \in Statuses
    BY <1>1 DEF RefusedStatus, Statuses
  <2> QED
    BY <1>0, <2>1, <2>2, ReplyType, StutterIInv
<1>2. CASE RefusedStatus(round, ps) = 0
  <2>1. PICK found \in Orders(Registered(ps)) :
          LET rows == NewRows(id, round, ps, found)
          IN  /\ turnSeq' = turnSeq + Drawn(id, rows, found)
              /\ turns' = IF InsertStatus(rows) = 201
                          THEN turns \cup {rows[i] : i \in DOMAIN rows}
                          ELSE turns
              /\ reply' = Reply("CreateTurns", InsertStatus(rows), id)
    BY <1>2, Zenon DEF CreateTurns
  <2>2. UNCHANGED <<games, gameSeq, playerGames, playerId, playerSeq,
                    rounds, roundSeq, metadata, archives>>
    BY <1>2, Zenon DEF CreateTurns
  <2> DEFINE rows == NewRows(id, round, ps, found)
  <2>3. /\ turnSeq' = turnSeq + Drawn(id, rows, found)
        /\ turns' = IF InsertStatus(rows) = 201
                    THEN turns \cup {rows[i] : i \in DOMAIN rows}
                    ELSE turns
        /\ reply' = Reply("CreateTurns", InsertStatus(rows), id)
    BY <2>1
  <2>4. /\ Len(ps) \in 0 .. 2
        /\ DOMAIN rows = 1 .. Len(ps)
        /\ Len(rows) = Len(ps)
        /\ Len(found) \in 0 .. 2
        /\ \A i \in DOMAIN rows :
              rows[i] \in [id : Nat, round : Nat, player : Nat, closed : BOOLEAN]
    <3>1. TypeOK
      BY DEF IInv
    <3>2. /\ rows \in [1 .. Len(ps) -> [id : Nat, round : Nat, player : Nat,
                                       closed : BOOLEAN]]
          /\ Len(rows) = Len(ps)
          /\ Len(found) \in 0 .. 2
      BY <1>0, <3>1, RowTypes
    <3>3. Len(ps) \in 0 .. 2
      BY ListLength
    <3> HIDE DEF rows
    <3> QED
      BY <3>2, <3>3
  <2> HIDE DEF rows
  <2>5. InsertStatus(rows) \in Statuses
    BY DEF InsertStatus, Statuses
  <2>6. reply' \in [op : Ops, status : Statuses, id : Nat]
    BY <1>0, <2>3, <2>5, ReplyType
  <2>7. turnSeq' \in Nat
    <3>1. Drawn(id, rows, found) \in Nat
      BY <1>0, <2>4, DrawnType
    <3> QED
      BY <2>3, <3>1 DEF IInv, TypeOK
  <2>8. CASE InsertStatus(rows) # 201
    BY <2>2, <2>3, <2>6, <2>7, <2>8, TurnsOnlyIInv DEF IInv, TypeOK, TurnIntegrity
  <2>9. CASE InsertStatus(rows) = 201
    <3>1. FirstConflict(rows) = 0 /\ ForeignKeysHold(rows)
      BY <2>9 DEF InsertStatus
    <3>2. \A i \in DOMAIN rows :
             /\ \A t \in turns : ~SameKey(t, rows[i])
             /\ \A j \in 1 .. (i - 1) : ~SameKey(rows[j], rows[i])
      BY <2>4, <3>1, ConflictType
    <3>3. \A i, j \in DOMAIN rows : SameKey(rows[i], rows[j]) => i = j
      <4> SUFFICES ASSUME NEW i \in DOMAIN rows, NEW j \in DOMAIN rows, i < j
                   PROVE  ~SameKey(rows[i], rows[j]) /\ ~SameKey(rows[j], rows[i])
        BY <2>4
      <4>1. i \in 1 .. (j - 1)
        BY <2>4
      <4> QED
        BY <3>2, <4>1 DEF SameKey
    <3>4. turns' = turns \cup {rows[i] : i \in DOMAIN rows}
      BY <2>3, <2>9
    <3>5. turns' \subseteq [id : Nat, round : Nat, player : Nat, closed : BOOLEAN]
      BY <2>4, <3>4 DEF IInv, TypeOK
    <3>6. \A t \in turns' : t.round \in Keys(rounds) /\ t.player \in PlayerIds
      BY <3>1, <3>4 DEF IInv, TurnIntegrity, ForeignKeysHold
    <3>7. \A t, u \in turns' : SameKey(t, u) => t = u
      <4>1. \A t, u \in turns : SameKey(t, u) => t = u
        BY DEF IInv, TurnIntegrity
      <4>2. \A t \in turns, i \in DOMAIN rows :
               ~SameKey(t, rows[i]) /\ ~SameKey(rows[i], t)
        BY <3>2 DEF SameKey
      <4> QED
        BY <3>3, <3>4, <4>1, <4>2
    <3> QED
      BY <2>2, <2>6, <2>7, <3>5, <3>6, <3>7, TurnsOnlyIInv
  <2> QED
    BY <2>8, <2>9
<1> QED
  BY <1>1, <1>2

LEMMA UpdateTurnIInv ==
    ASSUME IInv, NEW id \in TurnIds, NEW round \in 0 .. MaxRounds,
           NEW closes \in BOOLEAN, UpdateTurn(id, round, closes)
    PROVE  IInv'
<1>1. /\ turns' = IF UpdateTurnStatus(id, round) = 200
                  THEN (turns \ Hit(id)) \cup
                           {Moved(t, round, closes) : t \in Hit(id)}
                  ELSE turns
      /\ reply' = Reply("UpdateTurn", UpdateTurnStatus(id, round), id)
      /\ UNCHANGED <<games, gameSeq, playerGames, playerId, playerSeq, rounds,
                     roundSeq, turnSeq, metadata, archives>>
  BY Zenon DEF UpdateTurn, sequences
<1>2. id \in Nat /\ round \in Nat /\ "UpdateTurn" \in Ops
        /\ UpdateTurnStatus(id, round) \in Statuses
  BY BoundsAssumption DEF Ops, Statuses, UpdateTurnStatus, TurnIds
<1>3. reply' \in [op : Ops, status : Statuses, id : Nat]
  BY <1>1, <1>2, ReplyType
<1>4. turnSeq' \in Nat
  BY <1>1 DEF IInv, TypeOK
<1>5. CASE UpdateTurnStatus(id, round) # 200
  BY <1>1, <1>3, <1>4, <1>5, TurnsOnlyIInv DEF IInv, TypeOK, TurnIntegrity
<1>6. CASE UpdateTurnStatus(id, round) = 200
  <2> DEFINE mv(t) == Moved(t, round, closes)
  <2>1. turns' = (turns \ Hit(id)) \cup {mv(t) : t \in Hit(id)}
    BY <1>1, <1>6
  <2>2. Hit(id) \subseteq turns /\ \A t \in Hit(id) : t.id = id
    BY DEF Hit
  <2>3. \A t \in Hit(id) :
           /\ mv(t) \in [id : Nat, round : Nat, player : Nat, closed : BOOLEAN]
           /\ mv(t).id = id
           /\ mv(t).player = t.player
           /\ mv(t).round = IF round = 0 THEN t.round ELSE round
    <3> SUFFICES ASSUME NEW t \in Hit(id)
                 PROVE  /\ mv(t) \in [id : Nat, round : Nat, player : Nat,
                                      closed : BOOLEAN]
                        /\ mv(t).id = id
                        /\ mv(t).player = t.player
                        /\ mv(t).round = IF round = 0 THEN t.round ELSE round
      OBVIOUS
    <3>1. t \in [id : Nat, round : Nat, player : Nat, closed : BOOLEAN] /\ t.id = id
      BY <2>2 DEF IInv, TypeOK
    <3>2. (t.closed \/ closes) \in BOOLEAN
      BY <3>1
    <3> QED
      BY <1>2, <3>1, <3>2 DEF Moved
  <2>4. round # 0 /\ Hit(id) # {} => round \in Keys(rounds)
    BY <1>6 DEF UpdateTurnStatus
  <2>5. round # 0 => \A t, u \in Hit(id) : t = u
    BY <1>6 DEF UpdateTurnStatus
  <2> HIDE DEF mv
  <2>6. turns' \subseteq [id : Nat, round : Nat, player : Nat, closed : BOOLEAN]
    BY <2>1, <2>3 DEF IInv, TypeOK
  <2>7. \A t \in turns' : t.round \in Keys(rounds) /\ t.player \in PlayerIds
    BY <2>1, <2>2, <2>3, <2>4 DEF IInv, TurnIntegrity
  <2>8. \A t, u \in turns' : SameKey(t, u) => t = u
    <3>1. \A t, u \in turns : SameKey(t, u) => t = u
      BY DEF IInv, TurnIntegrity
    <3>2. \A t, u \in Hit(id) : SameKey(mv(t), mv(u)) => mv(t) = mv(u)
      <4>1. CASE round = 0
        BY <2>2, <2>3, <3>1, <4>1 DEF SameKey
      <4>2. CASE round # 0
        BY <2>5, <4>2
      <4> QED
        BY <4>1, <4>2
    <3>3. \A t \in turns \ Hit(id), u \in Hit(id) :
             ~SameKey(t, mv(u)) /\ ~SameKey(mv(u), t)
      BY <2>3 DEF SameKey, Hit
    <3> QED
      BY <2>1, <3>1, <3>2, <3>3
  <2> QED
    BY <1>1, <1>3, <1>4, <2>6, <2>7, <2>8, TurnsOnlyIInv
<1> QED
  BY <1>5, <1>6

LEMMA DeleteTurnIInv ==
    ASSUME IInv, NEW id \in TurnIds, DeleteTurn(id)
    PROVE  IInv'
<1>1. /\ turns' = {t \in turns : t.id # id}
      /\ UNCHANGED <<games, gameSeq, playerGames, playerId, playerSeq, rounds,
                     roundSeq, turnSeq, metadata, archives>>
  BY Zenon DEF DeleteTurn, sequences
<1>2. reply' \in [op : Ops, status : Statuses, id : Nat]
  <2>1. "DeleteTurn" \in Ops /\ 204 \in Statuses /\ 404 \in Statuses /\ id \in Nat
    BY BoundsAssumption DEF Ops, Statuses, TurnIds
  <2>2. reply' = Reply("DeleteTurn", 204, id) \/ reply' = Reply("DeleteTurn", 404, id)
    BY DEF DeleteTurn
  <2>3. CASE reply' = Reply("DeleteTurn", 204, id)
    BY <2>1, <2>3, ReplyType
  <2>4. CASE reply' = Reply("DeleteTurn", 404, id)
    BY <2>1, <2>4, ReplyType
  <2> QED
    BY <2>2, <2>3, <2>4
<1> QED
  BY <1>1, <1>2, TurnsOnlyIInv DEF IInv, TypeOK, TurnIntegrity

LEMMA SaveFileIInv ==
    ASSUME IInv, NEW id \in TurnIds, NEW isZip \in BOOLEAN, SaveFile(id, isZip)
    PROVE  IInv'
<1>1. "SaveFile" \in Ops /\ {404, 422, 500, 200} \subseteq Statuses /\ id \in Nat
  BY BoundsAssumption DEF Ops, Statuses, TurnIds
<1>2. CASE id \notin Keys(turns) \/ ~isZip
  <2>1. UNCHANGED <<tables, sequences, archives>>
    BY <1>2, Zenon DEF SaveFile
  <2>2. PICK status \in {404, 422} : reply' = Reply("SaveFile", status, id)
    BY <1>2 DEF SaveFile
  <2>3. reply' \in [op : Ops, status : Statuses, id : Nat]
    <3>1. status \in Statuses
      BY <1>1
    <3> QED
      BY <1>1, <2>2, <3>1, ReplyType
  <2> QED
    BY <2>1, <2>3, StutterIInv
<1>3. CASE id \in Keys(turns) /\ isZip
  <2>1. /\ archives' = archives \cup ArchivePath(id)
        /\ metadata' = FirstOrCreate(MetadataRow(id))
        /\ reply' = Reply("SaveFile", IF metadata' = {} THEN 500 ELSE 200, id)
        /\ UNCHANGED <<games, playerGames, playerId, rounds, turns, sequences>>
    BY <1>3, Zenon DEF SaveFile
  <2>2. metadata' = {}
    <3>1. metadata = {}
      BY DEF IInv, NoMetadata
    <3>2. MetadataRow(id).round = NULL
      BY DEF MetadataRow
    <3> QED
      BY <2>1, <3>1, <3>2 DEF FirstOrCreate
  <2>3. reply' \in [op : Ops, status : Statuses, id : Nat]
    <3>1. reply' = Reply("SaveFile", 500, id)
      BY <2>1, <2>2
    <3>2. 500 \in Statuses
      BY DEF Statuses
    <3> QED
      BY <1>1, <3>1, <3>2, ReplyType
  <2>4. archives' \subseteq [game : Nat, turn : Nat]
    <3>1. ArchivePath(id) \subseteq [game : Nat, turn : Nat]
      BY <1>1 DEF ArchivePath, FirstRoundOf, IInv, TypeOK
    <3> QED
      BY <2>1, <3>1 DEF IInv, TypeOK
  <2>5. TypeOK'
    BY <2>1, <2>2, <2>3, <2>4 DEF IInv, TypeOK, sequences
  <2>6. SequencesAhead' /\ RegisteredPlayers' /\ NoMetadata'
    BY <2>1, <2>2 DEF IInv, SequencesAhead, RegisteredPlayers, NoMetadata,
                      sequences, PlayerIds, Keys
  <2>7. TurnIntegrity'
    BY <2>1 DEF IInv, TurnIntegrity, PlayerIds, Keys, SameKey
  <2> QED
    BY <2>5, <2>6, <2>7 DEF IInv
<1> QED
  BY <1>2, <1>3

LEMMA CleanupIInv ==
    ASSUME IInv, Cleanup
    PROVE  IInv'
<1>1. /\ archives' \subseteq archives
      /\ metadata' \subseteq metadata
      /\ UNCHANGED <<games, playerGames, playerId, rounds, turns, sequences, reply>>
  BY DEF Cleanup
<1>2. TypeOK'
  BY <1>1 DEF IInv, TypeOK, sequences
<1>3. SequencesAhead' /\ RegisteredPlayers' /\ NoMetadata'
  BY <1>1 DEF IInv, SequencesAhead, RegisteredPlayers, NoMetadata,
              sequences, PlayerIds, Keys
<1>4. TurnIntegrity'
  BY <1>1 DEF IInv, TurnIntegrity, PlayerIds, Keys, SameKey
<1> QED
  BY <1>2, <1>3, <1>4 DEF IInv

-----------------------------------------------------------------------------
(* The theorems.                                                           *)

LEMMA StepIInv == IInv /\ [Next]_vars => IInv'
<1> SUFFICES ASSUME IInv, [Next]_vars PROVE IInv'
  OBVIOUS
<1>1. ASSUME NEW ps \in PlayerLists, CreateGame(ps) PROVE IInv'
  BY <1>1, CreateGameIInv
<1>2. ASSUME NEW id \in GameIds, NEW closes \in BOOLEAN, UpdateGame(id, closes)
      PROVE  IInv'
  BY <1>2, UpdateGameIInv
<1>3. ASSUME NEW id \in GameIds, DeleteGame(id) PROVE IInv'
  BY <1>3, DeleteGameIInv
<1>4. ASSUME NEW game \in GameIds, CreateRound(game) PROVE IInv'
  BY <1>4, CreateRoundIInv
<1>5. ASSUME NEW id \in RoundIds, NEW closes \in BOOLEAN, UpdateRound(id, closes)
      PROVE  IInv'
  BY <1>5, UpdateRoundIInv
<1>6. ASSUME NEW id \in RoundIds, DeleteRound(id) PROVE IInv'
  BY <1>6, DeleteRoundIInv
<1>7. ASSUME NEW id \in 0 .. MaxTurns, NEW round \in 0 .. MaxRounds,
             NEW ps \in PlayerLists, CreateTurns(id, round, ps)
      PROVE  IInv'
  BY <1>7, CreateTurnsIInv
<1>8. ASSUME NEW id \in TurnIds, NEW round \in 0 .. MaxRounds,
             NEW closes \in BOOLEAN, UpdateTurn(id, round, closes)
      PROVE  IInv'
  BY <1>8, UpdateTurnIInv
<1>9. ASSUME NEW id \in TurnIds, DeleteTurn(id) PROVE IInv'
  BY <1>9, DeleteTurnIInv
<1>10. ASSUME NEW id \in TurnIds, NEW isZip \in BOOLEAN, SaveFile(id, isZip)
       PROVE  IInv'
  BY <1>10, SaveFileIInv
<1>11. CASE Cleanup
  BY <1>11, CleanupIInv
<1>12. CASE UNCHANGED vars
  <2>1. UNCHANGED <<tables, sequences, archives>> /\ UNCHANGED reply
    BY <1>12, Zenon DEF vars
  <2>2. reply' \in [op : Ops, status : Statuses, id : Nat]
    BY <2>1 DEF IInv, TypeOK
  <2> QED
    BY <2>1, <2>2, StutterIInv
<1> QED
  BY <1>1, <1>2, <1>3, <1>4, <1>5, <1>6, <1>7, <1>8, <1>9, <1>10, <1>11, <1>12
     DEF Next

\* The invariant holds in every state the repository reaches.
THEOREM Invariance == Spec => []IInv
BY InitIInv, StepIInv, PTL DEF Spec

\* Every table keeps rows of its own shape.
THEOREM TypeCorrectness == Spec => []TypeOK
<1>1. IInv => TypeOK
  BY DEF IInv
<1> QED
  BY <1>1, Invariance, PTL

\* No turn is ever left without its round or its player, and no two turns share
\* a round and a number, whatever is created, moved and deleted.
THEOREM TurnsKeepIntegrity == Spec => []TurnIntegrity
<1>1. IInv => TurnIntegrity
  BY DEF IInv
<1> QED
  BY <1>1, Invariance, PTL

\* Every row of player_games names a registered player.
THEOREM PlayersAreRegistered == Spec => []RegisteredPlayers
<1>1. IInv => RegisteredPlayers
  BY DEF IInv
<1> QED
  BY <1>1, Invariance, PTL

\* No upload is ever recorded.
THEOREM MetadataStaysEmpty == Spec => []NoMetadata
<1>1. IInv => NoMetadata
  BY DEF IInv
<1> QED
  BY <1>1, Invariance, PTL

\* No key is ever ahead of its sequence.
THEOREM KeysBehindSequences == Spec => []SequencesAhead
<1>1. IInv => SequencesAhead
  BY DEF IInv
<1> QED
  BY <1>1, Invariance, PTL

\* A new game starts without a row in player_games, whatever was deleted before.
THEOREM GamesStartFresh == Spec => NewGamesAreFresh
<1> DEFINE Fresh == \A id \in Keys(games)' \ Keys(games) :
                       id \notin {pg.game : pg \in playerGames}
<1>1. ASSUME IInv, [Next]_vars PROVE Fresh
  <2>1. CASE Keys(games)' \subseteq Keys(games)
    BY <2>1
  <2>2. ASSUME NEW ps \in PlayerLists, CreateGame(ps) PROVE Fresh
    <3>1. \/ Keys(games)' = Keys(games)
          \/ Keys(games)' = Keys(games) \cup {gameSeq + 1}
      BY <2>2 DEF CreateGame, tables, Keys
    <3>2. gameSeq \in Nat /\ {pg.game : pg \in playerGames} \subseteq 1 .. gameSeq
      BY <1>1 DEF IInv, TypeOK, SequencesAhead
    <3>3. gameSeq + 1 \notin {pg.game : pg \in playerGames}
      BY <3>2
    <3> QED
      BY <3>1, <3>3
  <2>3. ASSUME NEW id \in GameIds, NEW closes \in BOOLEAN, UpdateGame(id, closes)
        PROVE  Keys(games)' \subseteq Keys(games)
    <3> DEFINE upd(x) == [x EXCEPT !.closed = @ \/ (closes /\ x.id = id)]
    <3>1. games' = {upd(x) : x \in games}
      BY <2>3, Zenon DEF UpdateGame
    <3>2. \A x \in games : upd(x).id = x.id
      BY <1>1 DEF IInv, TypeOK
    <3> HIDE DEF upd
    <3> QED
      BY <3>1, <3>2 DEF Keys
  <2>4. ASSUME NEW id \in GameIds, DeleteGame(id)
        PROVE  Keys(games)' \subseteq Keys(games)
    BY <2>4 DEF DeleteGame, Keys
  <2>5. Next => \/ UNCHANGED games
                \/ \E ps \in PlayerLists : CreateGame(ps)
                \/ \E id \in GameIds, closes \in BOOLEAN : UpdateGame(id, closes)
                \/ \E id \in GameIds : DeleteGame(id)
    BY DEF Next, CreateRound, UpdateRound, DeleteRound,
           CreateTurns, UpdateTurn, DeleteTurn, SaveFile, Cleanup, tables
  <2>6. UNCHANGED games => Keys(games)' \subseteq Keys(games)
    BY DEF Keys
  <2> QED
    BY <1>1, <2>1, <2>2, <2>3, <2>4, <2>5, <2>6 DEF vars, tables
<1>2. IInv /\ [Next]_vars => [Fresh]_vars
  BY <1>1
<1> QED
  BY <1>2, Invariance, PTL DEF Spec, NewGamesAreFresh

\* An answer with an error means that nothing was changed: a statement that fails
\* half-way is undone, and a delete of nothing deletes nothing.
THEOREM ErrorsKeepTables == Spec => ErrorsChangeNoTable
<1> DEFINE Harmless == reply'.status >= 400 => UNCHANGED tables
<1>1. ASSUME NEW op, NEW status, NEW id
      PROVE  Reply(op, status, id).status = status
  BY DEF Reply
<1>2. ASSUME IInv, [Next]_vars PROVE Harmless
  <2>1. CASE UNCHANGED tables
    BY <2>1
  <2>2. ASSUME NEW ps \in PlayerLists, CreateGame(ps) PROVE Harmless
    <3>1. UNCHANGED tables \/ reply' = Reply("CreateGame", 201, gameSeq + 1)
      BY <2>2, Zenon DEF CreateGame
    <3> QED
      BY <1>1, <3>1
  <2>3. ASSUME NEW id, NEW closes, UpdateGame(id, closes) \/ UpdateRound(id, closes)
        PROVE  Harmless
    <3>1. reply' = Reply("UpdateGame", 200, id) \/ reply' = Reply("UpdateRound", 200, id)
      BY <2>3, Zenon DEF UpdateGame, UpdateRound
    <3> QED
      BY <1>1, <3>1
  <2>4. ASSUME NEW id, DeleteGame(id) PROVE Harmless
    <3>1. CASE id \in Keys(games)
      BY <1>1, <2>4, <3>1 DEF DeleteGame
    <3>2. CASE id \notin Keys(games)
      <4>1. games' = games
        BY <2>4, <3>2 DEF DeleteGame, Keys
      <4> QED
        BY <2>4, <4>1 DEF DeleteGame, tables
    <3> QED
      BY <3>1, <3>2
  <2>5. ASSUME NEW id, CreateRound(id) PROVE Harmless
    BY <1>1, <2>5 DEF CreateRound
  <2>6. ASSUME NEW id, DeleteRound(id) PROVE Harmless
    <3>1. CASE id \in Keys(rounds)
      BY <1>1, <2>6, <3>1 DEF DeleteRound
    <3>2. CASE id \notin Keys(rounds)
      <4>1. rounds' = rounds
        BY <2>6, <3>2 DEF DeleteRound, Keys
      <4>2. turns' = turns
        BY <1>2, <2>6, <3>2 DEF DeleteRound, IInv, TurnIntegrity
      <4> QED
        BY <2>6, <4>1, <4>2 DEF DeleteRound, tables
    <3> QED
      BY <3>1, <3>2
  <2>7. ASSUME NEW id, NEW round, NEW ps, CreateTurns(id, round, ps) PROVE Harmless
    <3>1. CASE RefusedStatus(round, ps) # 0
      BY <2>7, <3>1, Zenon DEF CreateTurns
    <3>2. CASE RefusedStatus(round, ps) = 0
      <4>1. PICK found \in Orders(Registered(ps)) :
              LET rows == NewRows(id, round, ps, found)
              IN  /\ turns' = IF InsertStatus(rows) = 201
                              THEN turns \cup {rows[i] : i \in DOMAIN rows}
                              ELSE turns
                  /\ reply' = Reply("CreateTurns", InsertStatus(rows), id)
        BY <2>7, <3>2, Zenon DEF CreateTurns
      <4>2. UNCHANGED <<games, playerGames, playerId, rounds, metadata>>
        BY <2>7, <3>2, Zenon DEF CreateTurns
      <4> DEFINE status == InsertStatus(NewRows(id, round, ps, found))
      <4>3. reply'.status = status /\ (status # 201 => turns' = turns)
        BY <1>1, <4>1
      <4> HIDE DEF status
      <4>4. CASE status = 201
        BY <4>3, <4>4
      <4>5. CASE status # 201
        BY <4>2, <4>3, <4>5 DEF tables
      <4> QED
        BY <4>4, <4>5
    <3> QED
      BY <3>1, <3>2
  <2>8. ASSUME NEW id, NEW round, NEW closes, UpdateTurn(id, round, closes)
        PROVE  Harmless
    <3>1. /\ reply' = Reply("UpdateTurn", UpdateTurnStatus(id, round), id)
          /\ UpdateTurnStatus(id, round) # 200 => turns' = turns
          /\ UNCHANGED <<games, playerGames, playerId, rounds, metadata>>
      BY <2>8, Zenon DEF UpdateTurn
    <3>2. CASE UpdateTurnStatus(id, round) = 200
      BY <1>1, <3>1, <3>2
    <3>3. CASE UpdateTurnStatus(id, round) # 200
      BY <3>1, <3>3 DEF tables
    <3> QED
      BY <3>2, <3>3
  <2>9. ASSUME NEW id, DeleteTurn(id) PROVE Harmless
    <3>1. CASE id \in Keys(turns)
      BY <1>1, <2>9, <3>1 DEF DeleteTurn
    <3>2. CASE id \notin Keys(turns)
      <4>1. turns' = turns
        BY <2>9, <3>2 DEF DeleteTurn, Keys
      <4> QED
        BY <2>9, <4>1 DEF DeleteTurn, tables
    <3> QED
      BY <3>1, <3>2
  <2>10. ASSUME NEW id, NEW isZip, SaveFile(id, isZip) PROVE Harmless
    <3>1. CASE id \notin Keys(turns) \/ ~isZip
      BY <2>10, <3>1, Zenon DEF SaveFile
    <3>2. CASE id \in Keys(turns) /\ isZip
      <4>1. /\ metadata' = {} => reply' = Reply("SaveFile", 500, id)
            /\ metadata' # {} => reply' = Reply("SaveFile", 200, id)
            /\ UNCHANGED <<games, playerGames, playerId, rounds, turns>>
        BY ZenonT(60), <2>10, <3>2 DEF SaveFile
      <4>2. CASE metadata' # {}
        BY <1>1, <4>1, <4>2
      <4>3. CASE metadata' = {}
        BY <1>2, <4>1, <4>3 DEF IInv, NoMetadata, tables
      <4> QED
        BY <4>2, <4>3
    <3> QED
      BY <3>1, <3>2
  <2>11. ASSUME Cleanup PROVE Harmless
    BY <1>2, <2>11 DEF Cleanup, IInv, NoMetadata, tables
  <2>12. UNCHANGED vars => UNCHANGED tables
    BY DEF vars
  <2> HIDE DEF Harmless
  <2> QED
    BY <1>2, <2>1, <2>2, <2>3, <2>4, <2>5, <2>6, <2>7, <2>8, <2>9, <2>10, <2>11, <2>12,
       Zenon DEF Next
<1>3. IInv /\ [Next]_vars => [Harmless]_vars
  BY <1>2
<1> QED
  BY <1>3, Invariance, PTL DEF Spec, ErrorsChangeNoTable

\* A turn stays, under its number and with its player, until it or its round is deleted.
THEOREM TurnsLeaveAsAsked == Spec => TurnsLeaveOnRequest
<1> DEFINE Kept == \A t \in turns :
                      \/ \E u \in turns' : u.id = t.id /\ u.player = t.player
                      \/ reply'.op = "DeleteTurn" /\ reply'.id = t.id
                      \/ reply'.op = "DeleteRound" /\ reply'.id = t.round
<1>1. ASSUME IInv, [Next]_vars PROVE Kept
  <2>1. CASE turns \subseteq turns'
    BY <2>1
  <2>2. ASSUME NEW id, NEW round, NEW ps, CreateTurns(id, round, ps)
        PROVE  turns \subseteq turns'
    <3>1. CASE RefusedStatus(round, ps) # 0
      BY <2>2, <3>1, Zenon DEF CreateTurns, tables
    <3>2. CASE RefusedStatus(round, ps) = 0
      <4>1. PICK found \in Orders(Registered(ps)) :
              LET rows == NewRows(id, round, ps, found)
              IN  turns' = IF InsertStatus(rows) = 201
                           THEN turns \cup {rows[i] : i \in DOMAIN rows}
                           ELSE turns
        BY <2>2, <3>2, Zenon DEF CreateTurns
      <4> DEFINE rows == NewRows(id, round, ps, found)
      <4>2. turns' = turns \/ turns' = turns \cup {rows[i] : i \in DOMAIN rows}
        BY <4>1, Zenon
      <4> HIDE DEF rows
      <4> QED
        BY <4>2
    <3> QED
      BY <3>1, <3>2
  <2>3. ASSUME NEW id \in TurnIds, NEW round \in 0 .. MaxRounds, NEW closes \in BOOLEAN,
               UpdateTurn(id, round, closes)
        PROVE  Kept
    <3>1. turns' \in {turns, (turns \ Hit(id)) \cup {Moved(t, round, closes) : t \in Hit(id)}}
      BY <2>3, Zenon DEF UpdateTurn
    <3>2. ASSUME NEW t \in turns
          PROVE  Moved(t, round, closes).id = t.id /\ Moved(t, round, closes).player = t.player
      BY <1>1 DEF Moved, IInv, TypeOK
    <3>3. ASSUME NEW t \in turns
          PROVE  \E u \in turns' : u.id = t.id /\ u.player = t.player
      <4>1. t \in turns' \/ Moved(t, round, closes) \in turns'
        BY <3>1
      <4> QED
        BY <3>2, <4>1
    <3> QED
      BY <3>3
  <2>4. ASSUME NEW id, DeleteTurn(id) PROVE Kept
    <3>1. turns' = {t \in turns : t.id # id} /\ reply'.op = "DeleteTurn" /\ reply'.id = id
      BY <2>4 DEF DeleteTurn, Reply
    <3> QED
      BY <3>1
  <2>5. ASSUME NEW id, DeleteRound(id) PROVE Kept
    <3>1. turns' = {t \in turns : t.round # id} /\ reply'.op = "DeleteRound" /\ reply'.id = id
      BY <2>5 DEF DeleteRound, Reply
    <3> QED
      BY <3>1
  <2>6. Next => \/ UNCHANGED turns
                \/ \E id \in 0 .. MaxTurns, round \in 0 .. MaxRounds, ps \in PlayerLists :
                       CreateTurns(id, round, ps)
                \/ \E id \in TurnIds, round \in 0 .. MaxRounds, closes \in BOOLEAN :
                       UpdateTurn(id, round, closes)
                \/ \E id \in TurnIds : DeleteTurn(id)
                \/ \E id \in RoundIds : DeleteRound(id)
    BY DEF Next, CreateGame, UpdateGame, DeleteGame, CreateRound, UpdateRound,
           SaveFile, Cleanup, tables
  <2>7. UNCHANGED vars => UNCHANGED turns
    BY DEF vars, tables
  <2>8. UNCHANGED turns => turns \subseteq turns'
    OBVIOUS
  <2> HIDE DEF Kept
  <2> QED
    BY <1>1, <2>1, <2>2, <2>3, <2>4, <2>5, <2>6, <2>7, <2>8, Zenon
<1>2. IInv /\ [Next]_vars => [Kept]_vars
  BY <1>1
<1> QED
  BY <1>2, Invariance, PTL DEF Spec, TurnsLeaveOnRequest

-----------------------------------------------------------------------------
(* The play of T5.                                                         *)

-----------------------------------------------------------------------------
(* What the calls of T5 do to the tables.                                  *)

\* A list of one player is one of the lists requests may name, without a repetition.
LEMMA OnePlayer ==
    ASSUME NEW a \in Accounts
    PROVE  /\ <<a>> \in PlayerLists
           /\ ~Duplicated(<<a>>)
           /\ DOMAIN <<a>> = {1} /\ Len(<<a>>) = 1 /\ <<a>>[1] = a
<1>1. <<a>> \in [1 .. 1 -> Accounts]
  OBVIOUS
<1>2. <<a>> \in PlayerLists
  BY <1>1 DEF PlayerLists
<1>3. DOMAIN <<a>> = {1} /\ Len(<<a>>) = 1 /\ <<a>>[1] = a
  OBVIOUS
<1> QED
  BY <1>2, <1>3 DEF Duplicated

\* A game of one player: its row, the row of its player, and the link of the two.
LEMMA OneGame ==
    ASSUME IInv, NEW a \in Accounts, CreateGame(<<a>>)
    PROVE  /\ gameSeq < MaxGames /\ gameSeq' = gameSeq + 1
           /\ games' = games \cup {[id |-> gameSeq + 1, closed |-> FALSE]}
           /\ \A b \in Accounts : playerId[b] # 0 => playerId'[b] = playerId[b]
           /\ playerGames' = playerGames \cup {[account |-> a, game |-> gameSeq + 1]}
           /\ reply' = Reply("CreateGame", 201, gameSeq + 1)
           /\ UNCHANGED <<rounds, roundSeq, turns, turnSeq, metadata, archives>>
<1>1. <<a>> \in PlayerLists /\ ~Duplicated(<<a>>)
         /\ DOMAIN <<a>> = {1} /\ <<a>>[1] = a
  BY OnePlayer
<1>2. /\ gameSeq < MaxGames /\ gameSeq' = gameSeq + 1
      /\ games' = games \cup {[id |-> gameSeq + 1, closed |-> FALSE]}
      /\ playerId' = UpsertedPlayers(<<a>>)
      /\ playerGames' = playerGames \cup
            {[account |-> <<a>>[i], game |-> gameSeq + 1] : i \in DOMAIN <<a>>}
      /\ reply' = Reply("CreateGame", 201, gameSeq + 1)
      /\ UNCHANGED <<rounds, roundSeq, turns, turnSeq, metadata, archives>>
  BY <1>1, Zenon DEF CreateGame
<1>3. \A b \in Accounts : playerId[b] # 0 => playerId'[b] = playerId[b]
  BY <1>1, <1>2, UpsertIds DEF IInv
<1>4. {[account |-> <<a>>[i], game |-> gameSeq + 1] : i \in DOMAIN <<a>>}
         = {[account |-> a, game |-> gameSeq + 1]}
  BY <1>1
<1> QED
  BY <1>2, <1>3, <1>4

\* A turn of one player is refused, or stored in a stored round under a number that
\* was free there.
LEMMA OneTurn ==
    ASSUME IInv, NEW id \in Nat \ {0}, NEW round \in Nat, NEW a \in Accounts,
           CreateTurns(id, round, <<a>>)
    PROVE  /\ UNCHANGED <<games, gameSeq, playerGames, playerId, rounds>>
           /\ \/ /\ reply'.status \in {400, 404, 409, 500}
                 /\ turns' = turns
              \/ /\ reply'.status = 201
                 /\ turns' = turns \cup {[id |-> id, round |-> round,
                                          player |-> playerId[a], closed |-> FALSE]}
                 /\ round \in Keys(rounds) /\ playerId[a] # 0
                 /\ \A t \in turns : t.round = round => t.id # id
<1>1. <<a>> \in PlayerLists /\ ~Duplicated(<<a>>)
         /\ DOMAIN <<a>> = {1} /\ Len(<<a>>) = 1 /\ <<a>>[1] = a
  BY OnePlayer
<1>2. CASE RefusedStatus(round, <<a>>) # 0
  <2>1. reply' = Reply("CreateTurns", RefusedStatus(round, <<a>>), id)
           /\ UNCHANGED <<tables, sequences>>
    BY <1>2, Zenon DEF CreateTurns
  <2>2. RefusedStatus(round, <<a>>) \in {400, 404}
    BY <1>2 DEF RefusedStatus
  <2> QED
    BY <2>1, <2>2 DEF Reply, tables, sequences
<1>3. CASE RefusedStatus(round, <<a>>) = 0
  <2>1. PICK found \in Orders(Registered(<<a>>)) :
          LET rows == NewRows(id, round, <<a>>, found)
          IN  /\ turns' = IF InsertStatus(rows) = 201
                          THEN turns \cup {rows[i] : i \in DOMAIN rows}
                          ELSE turns
              /\ reply' = Reply("CreateTurns", InsertStatus(rows), id)
    BY <1>3, Zenon DEF CreateTurns
  <2>2. UNCHANGED <<games, gameSeq, playerGames, playerId, rounds>>
    BY <1>3, Zenon DEF CreateTurns
  <2>3. Cardinality(Registered(<<a>>)) = 1
    BY <1>1, <1>3 DEF RefusedStatus
  <2>4. Registered(<<a>>) = {playerId[a]} \ {0}
    BY <1>1 DEF Registered
  <2>5. playerId[a] # 0 /\ Registered(<<a>>) = {playerId[a]}
    BY <2>3, <2>4, FS_EmptySet
  <2>6. DOMAIN found = {1} /\ found[1] = playerId[a] /\ Len(found) = 1
    <3>1. PICK n \in 0 .. 2 : found \in [1 .. n -> {playerId[a]}]
      BY <2>5 DEF Orders
    <3>2. {found[i] : i \in DOMAIN found} = {playerId[a]}
             /\ \A i, j \in DOMAIN found : found[i] = found[j] => i = j
      BY <2>5 DEF Orders
    <3>3. n # 0
      BY SMTT(30), <3>1, <3>2
    <3>4. n # 2
      BY <3>1, <3>2
    <3>5. n = 1
      BY <3>3, <3>4
    <3>6. found \in Seq({playerId[a]}) /\ Len(found) = n
      BY <3>1
    <3>7. 1 .. n = {1}
      BY <3>5
    <3>8. found \in [{1} -> {playerId[a]}]
      BY <3>1, <3>7
    <3> QED
      BY <3>5, <3>6, <3>8
  <2> DEFINE rows == NewRows(id, round, <<a>>, found)
             new == [id |-> id, round |-> round, player |-> playerId[a], closed |-> FALSE]
  <2>7. DOMAIN rows = {1} /\ rows[1] = new
    <3>1. rows = [i \in {1} |->
                    [id |-> IF id # 0 /\ i <= 1 THEN id ELSE turnSeq + (i - 1),
                     round |-> IF i <= 1 THEN round ELSE 0,
                     player |-> IF i <= 1 THEN found[i] ELSE 0,
                     closed |-> FALSE]]
      BY <1>1, <2>6 DEF NewRows
    <3> HIDE DEF rows
    <3>2. DOMAIN rows = {1}
      BY <3>1
    <3>3. rows[1] = [id |-> id, round |-> round, player |-> found[1], closed |-> FALSE]
      BY <3>1
    <3> QED
      BY <2>6, <3>2, <3>3
  <2>8. {rows[i] : i \in DOMAIN rows} = {new}
    BY <2>7
  <2>9. /\ turns' = IF InsertStatus(rows) = 201 THEN turns \cup {new} ELSE turns
        /\ reply' = Reply("CreateTurns", InsertStatus(rows), id)
    BY <2>1, <2>8
  <2>10. new.id = id /\ new.round = round
    OBVIOUS
  <2> HIDE DEF rows, new
  <2>11. CASE InsertStatus(rows) # 201
    <3>1. InsertStatus(rows) \in {409, 500}
      BY <2>11 DEF InsertStatus
    <3> QED
      BY <2>2, <2>9, <2>11, <3>1 DEF Reply
  <2>12. CASE InsertStatus(rows) = 201
    <3>1. FirstConflict(rows) = 0 /\ ForeignKeysHold(rows)
      BY <2>12 DEF InsertStatus
    <3>2. round \in Keys(rounds)
      BY <2>7, <2>10, <3>1 DEF ForeignKeysHold
    <3>3. \A t \in turns : ~SameKey(t, rows[1])
      <4>1. DOMAIN rows = 1 .. 1
        BY <2>7
      <4> QED
        BY <3>1, <4>1, ConflictType
    <3>4. \A t \in turns : t.round = round => t.id # id
      BY <2>7, <2>10, <3>3 DEF SameKey
    <3>5. reply'.status = 201
      BY <2>9, <2>12 DEF Reply
    <3> QED
      BY <2>2, <2>5, <2>9, <2>12, <3>2, <3>4, <3>5 DEF new
  <2> QED
    BY <2>11, <2>12
<1> QED
  BY <1>2, <1>3

-----------------------------------------------------------------------------
(* The inductive invariant.                                                *)

\* The steps of a save that follow the insert of its game, of its round and of its
\* turn.
HasGame == {"postRound", "postTurn", "storeId", "storeRound", "saveCsv"}
HasRound == HasGame \ {"postRound"}
HasTurn == HasRound \ {"postTurn"}

\* The numbers of the turns of a round.
Numbers(round) == {t.id : t \in {u \in turns : u.round = round}}

\* The ids a page and a request hold lie within the bounds; a page that shows a game
\* shows one of its turns, and not the game of a save that is under way.
Holds(p) ==
    /\ local[p].game \in 0 .. MaxGames /\ local[p].round \in 0 .. MaxRounds
    /\ browser[p].game <= gameSeq
    /\ browser[p].game # 0 => browser[p].turn \in 1 .. MaxTurns
    /\ pc[p] \in UpdateSteps => /\ local[p].turn = browser[p].turn
                                /\ local[p].turn \in 1 .. (MaxTurns - 1)
    /\ pc[p] \in HasGame => browser[p].game # local[p].game

\* What a save has stored so far belongs together.
Request(p) ==
    /\ pc[p] \in HasGame =>
           /\ local[p].game \in Keys(games)
           /\ [account |-> local[p].player, game |-> local[p].game] \in playerGames
    /\ pc[p] \in HasRound =>
           \E r \in rounds : r.id = local[p].round /\ r.game = local[p].game

\* What the page of the owner shows is stored, and its turns have no gap.
Shown(p) ==
    LET b == browser[p]
    IN  /\ g.player = p /\ g.round = b.round
        /\ Stored(p, b.game, b.round, b.turn)
        /\ PagePath(p, b) \in csv
        /\ Numbers(b.round) \in {1 .. b.turn, 1 .. b.turn + 1}
        /\ pc[p] \in {"updateCsv", "nextCsv"} =>
               /\ Stored(p, b.game, b.round, b.turn + 1)
               /\ Numbers(b.round) = 1 .. b.turn + 1

\* What holds for the player of g as long as no other request has been handled.
Owned(p) ==
    /\ \A q \in Players \ {p} : pc[q] \in {"idle", "postNext"}
    /\ pc[p] \in SaveSteps => g.player = p
    /\ pc[p] \in HasGame => local[p].player = p
    /\ pc[p] = "postTurn" => Numbers(local[p].round) = {}
    /\ pc[p] \in HasTurn => /\ Stored(p, local[p].game, local[p].round, 1)
                            /\ Numbers(local[p].round) = {1}
    /\ pc[p] \in {"storeRound", "saveCsv"} => g.id = local[p].game
    /\ pc[p] = "saveCsv" => g.round = local[p].round
    /\ OnScreen(p) => Shown(p)

SInv ==
    /\ IInv
    /\ SessionTypeOK
    /\ g.round \in 0 .. MaxRounds
    /\ \A p \in Players : Holds(p) /\ Request(p)
    /\ SavesAreCoherent
    /\ \A p \in Players : owner = p => Owned(p)

-----------------------------------------------------------------------------
(* Every step of the session is a step of the repository.                  *)

\* What a call of T5 may be, or no call at all.
RepoStep ==
    \/ UNCHANGED vars
    \/ \E a \in Accounts : CreateGame(<<a>>)
    \/ \E game \in GameIds : game \in Keys(games) /\ CreateRound(game)
    \/ \E id \in 1 .. MaxTurns, round \in 0 .. MaxRounds, a \in Accounts :
           CreateTurns(id, round, <<a>>)

\* The steps of a session call the repository with well-typed arguments.
LEMMA CallsAreTyped == SInv /\ SessionNext => RepoStep
<1> SUFFICES ASSUME SInv, SessionNext PROVE RepoStep
  OBVIOUS
<1>1. g.player \in Accounts /\ g.round \in 0 .. MaxRounds
  BY DEF SInv, SessionTypeOK
<1>2. ASSUME NEW p \in Players, PostGame(p) PROVE RepoStep
  <2>1. CreateGame(<<g.player>>) \/ UNCHANGED vars
    BY <1>2, Zenon DEF PostGame, Exchange
  <2> QED
    BY <1>1, <2>1, Zenon DEF RepoStep
<1>3. ASSUME NEW p \in Players, PostRound(p) PROVE RepoStep
  <2>1. CreateRound(local[p].game) \/ UNCHANGED vars
    BY <1>3, Zenon DEF PostRound, Exchange
  <2>2. local[p].game \in Keys(games) /\ local[p].game \in 0 .. MaxGames
    BY <1>3 DEF PostRound, SInv, Request, Holds, HasGame
  <2>3. local[p].game \in GameIds
    BY <2>2, BoundsAssumption DEF GameIds, SInv, IInv, SequencesAhead, TypeOK
  <2> QED
    BY <2>1, <2>2, <2>3, Zenon DEF RepoStep
<1>4. ASSUME NEW p \in Players, PostTurn(p) PROVE RepoStep
  <2>1. CreateTurns(1, local[p].round, <<local[p].player>>) \/ UNCHANGED vars
    BY <1>4, Zenon DEF PostTurn, Exchange
  <2>2. local[p].round \in 0 .. MaxRounds /\ local[p].player \in Accounts
    BY DEF SInv, Holds, SessionTypeOK
  <2>3. 1 \in 1 .. MaxTurns
    BY BoundsAssumption, SessionAssumption
  <2> QED
    BY <2>1, <2>2, <2>3, Zenon DEF RepoStep
<1>5. ASSUME NEW p \in Players, PostNext(p) PROVE RepoStep
  <2>1. CreateTurns(local[p].turn + 1, g.round, <<g.player>>) \/ UNCHANGED vars
    BY <1>5, Zenon DEF PostNext, Exchange
  <2>2. local[p].turn \in 1 .. (MaxTurns - 1)
    BY <1>5 DEF PostNext, UpdateSteps, SInv, Holds
  <2>3. local[p].turn + 1 \in 1 .. MaxTurns
    BY <2>2, BoundsAssumption
  <2> QED
    BY <1>1, <2>1, <2>3, Zenon DEF RepoStep
<1>6. ASSUME NEW p \in Players,
             SaveData(p) \/ UpdateData(p) \/ Win(p) \/ StoreId(p) \/ StoreRound(p)
             \/ SaveCsv(p) \/ UpdateCsv(p) \/ NextCsv(p)
      PROVE  RepoStep
  BY <1>6, Zenon DEF RepoStep, SaveData, UpdateData, Win, StoreId, StoreRound, SaveCsv,
                     UpdateCsv, NextCsv, WriteCsv
<1>7. CASE Restart
  BY <1>7, Zenon DEF RepoStep, Restart
<1> QED
  BY <1>2, <1>3, <1>4, <1>5, <1>6, <1>7, Zenon DEF SessionNext, Handle

\* Such a call is a step of the repository.
LEMMA CallsAreSteps == RepoStep => [Next]_vars
<1> SUFFICES ASSUME RepoStep, ~UNCHANGED vars PROVE Next
  OBVIOUS
<1>1. ASSUME NEW a \in Accounts, CreateGame(<<a>>) PROVE Next
  BY <1>1, OnePlayer, Zenon DEF Next
<1>2. ASSUME NEW game \in GameIds, CreateRound(game) PROVE Next
  BY <1>2, Zenon DEF Next
<1>3. ASSUME NEW id \in 1 .. MaxTurns, NEW round \in 0 .. MaxRounds, NEW a \in Accounts,
             CreateTurns(id, round, <<a>>)
      PROVE  Next
  <2>1. id \in 0 .. MaxTurns
    BY BoundsAssumption
  <2> QED
    BY <1>3, <2>1, OnePlayer, Zenon DEF Next
<1> QED
  BY <1>1, <1>2, <1>3, Zenon DEF RepoStep

\* Nothing that a session stores goes away, and no known player changes its row.
Grows ==
    /\ games \subseteq games' /\ gameSeq <= gameSeq'
    /\ playerGames \subseteq playerGames' /\ rounds \subseteq rounds'
    /\ turns \subseteq turns'
    /\ \A a \in Accounts : playerId[a] # 0 => playerId'[a] = playerId[a]

LEMMA CallsOnlyAdd == IInv /\ RepoStep => Grows
<1> SUFFICES ASSUME IInv, RepoStep PROVE Grows
  OBVIOUS
<1>0. gameSeq \in Nat
  BY DEF IInv, TypeOK
<1>1. CASE UNCHANGED vars
  BY <1>0, <1>1 DEF Grows, vars, tables, sequences
<1>2. ASSUME NEW a \in Accounts, CreateGame(<<a>>) PROVE Grows
  BY <1>0, <1>2, OneGame DEF Grows
<1>3. ASSUME NEW game \in GameIds, CreateRound(game) PROVE Grows
  BY <1>0, <1>3 DEF Grows, CreateRound
<1>4. ASSUME NEW id \in 1 .. MaxTurns, NEW round \in 0 .. MaxRounds, NEW a \in Accounts,
             CreateTurns(id, round, <<a>>)
      PROVE  Grows
  <2>1. id \in Nat \ {0} /\ round \in Nat
    BY BoundsAssumption
  <2>2. UNCHANGED <<games, gameSeq, playerGames, playerId, rounds>>
           /\ turns \subseteq turns'
    BY <1>4, <2>1, OneTurn
  <2> QED
    BY <1>0, <2>2 DEF Grows
<1> QED
  BY <1>1, <1>2, <1>3, <1>4, Zenon DEF RepoStep

-----------------------------------------------------------------------------
(* What the steps of a request do.                                         *)

\* A request ends with an error.
GivesUp(p) ==
    /\ pc' = [pc EXCEPT ![p] = "idle"]
    /\ UNCHANGED <<g, local, browser, leaked, restarts>>

LEMMA PostGameCases ==
    ASSUME NEW p \in Players, PostGame(p)
    PROVE  /\ pc[p] = "postGame" /\ UNCHANGED csv
           /\ CreateGame(<<g.player>>) \/ UNCHANGED vars
           /\ \/ GivesUp(p)
              \/ /\ CreateGame(<<g.player>>)
                 /\ local' = [local EXCEPT ![p].player = g.player, ![p].game = reply'.id]
                 /\ pc' = [pc EXCEPT ![p] = "postRound"]
                 /\ UNCHANGED <<g, browser, leaked, restarts>>
BY ZenonT(60) DEF PostGame, Exchange, Fail, Goto, GivesUp

LEMMA PostRoundCases ==
    ASSUME NEW p \in Players, PostRound(p)
    PROVE  /\ pc[p] = "postRound" /\ UNCHANGED csv
           /\ CreateRound(local[p].game) \/ UNCHANGED vars
           /\ \/ GivesUp(p)
              \/ /\ CreateRound(local[p].game)
                 /\ local' = [local EXCEPT ![p].round = reply'.id]
                 /\ pc' = [pc EXCEPT ![p] = "postTurn"]
                 /\ UNCHANGED <<g, browser, leaked, restarts>>
BY ZenonT(60) DEF PostRound, Exchange, Fail, Goto, GivesUp

LEMMA PostTurnCases ==
    ASSUME NEW p \in Players, PostTurn(p)
    PROVE  /\ pc[p] = "postTurn" /\ UNCHANGED csv
           /\ CreateTurns(1, local[p].round, <<local[p].player>>) \/ UNCHANGED vars
           /\ \/ GivesUp(p)
              \/ /\ CreateTurns(1, local[p].round, <<local[p].player>>)
                 /\ reply'.status <= 299
                 /\ leaked < PoolSize /\ leaked' = leaked + 1
                 /\ pc' = [pc EXCEPT ![p] = "storeId"]
                 /\ UNCHANGED <<g, local, browser, restarts>>
BY ZenonT(60) DEF PostTurn, Exchange, Fail, Goto, GivesUp

LEMMA PostNextCases ==
    ASSUME NEW p \in Players, PostNext(p)
    PROVE  /\ pc[p] = "postNext" /\ UNCHANGED csv
           /\ CreateTurns(local[p].turn + 1, g.round, <<g.player>>) \/ UNCHANGED vars
           /\ \/ GivesUp(p)
              \/ /\ CreateTurns(local[p].turn + 1, g.round, <<g.player>>)
                 /\ reply'.status <= 299
                 /\ leaked < PoolSize /\ leaked' = leaked + 1
                 /\ pc' = [pc EXCEPT ![p] = "updateCsv"]
                 /\ UNCHANGED <<g, local, browser, restarts>>
BY ZenonT(60) DEF PostNext, Exchange, Fail, Goto, GivesUp

\* The three files; an answer that is lost leaves the page as it was.
LEMMA SaveCsvCases ==
    ASSUME NEW p \in Players, SaveCsv(p)
    PROVE  /\ pc[p] = "saveCsv" /\ UNCHANGED vars
           /\ \/ GivesUp(p) /\ csv' \in {csv, csv \cup {CsvPath(1)}}
              \/ /\ csv' = csv \cup {CsvPath(1)}
                 /\ browser' = [browser EXCEPT ![p] =
                                   [game |-> local[p].game, round |-> local[p].round,
                                    turn |-> 1]]
                 /\ pc' = [pc EXCEPT ![p] = "idle"]
                 /\ UNCHANGED <<g, local, leaked, restarts>>
BY Zenon DEF SaveCsv, WriteCsv, Answer, Fail, Goto, GivesUp

LEMMA UpdateCsvCases ==
    ASSUME NEW p \in Players, UpdateCsv(p)
    PROVE  /\ pc[p] = "updateCsv" /\ UNCHANGED vars
           /\ \/ GivesUp(p) /\ csv' \in {csv, csv \cup {CsvPath(local[p].turn)}}
              \/ /\ csv' = csv \cup {CsvPath(local[p].turn)}
                 /\ pc' = [pc EXCEPT ![p] = "nextCsv"]
                 /\ UNCHANGED <<g, local, browser, leaked, restarts>>
BY Zenon DEF UpdateCsv, WriteCsv, Fail, Goto, GivesUp

LEMMA NextCsvCases ==
    ASSUME NEW p \in Players, NextCsv(p)
    PROVE  /\ pc[p] = "nextCsv" /\ UNCHANGED vars
           /\ \/ GivesUp(p) /\ csv' \in {csv, csv \cup {CsvPath(local[p].turn + 1)}}
              \/ /\ csv' = csv \cup {CsvPath(local[p].turn + 1)}
                 /\ browser' = [browser EXCEPT ![p] =
                                   [browser[p] EXCEPT !.turn = local[p].turn + 1]]
                 /\ pc' = [pc EXCEPT ![p] = "idle"]
                 /\ UNCHANGED <<g, local, leaked, restarts>>
BY Zenon DEF NextCsv, WriteCsv, Answer, Fail, Goto, GivesUp

-----------------------------------------------------------------------------
(* Types.                                                                  *)

\* The steps a request may be at.
Steps == {"idle"} \cup SaveSteps \cup UpdateSteps

LEMMA CsvPathType ==
    ASSUME SessionTypeOK, NEW turn \in Nat
    PROVE  CsvPath(turn) \in [player : Accounts, game : Nat, round : Nat, turn : Nat]
BY DEF SessionTypeOK, CsvPath

\* Giving up keeps the types.
LEMMA GivesUpType ==
    ASSUME SessionTypeOK, NEW p \in Players, GivesUp(p), owner' \in Players \cup {NoPlayer},
           csv' \subseteq [player : Accounts, game : Nat, round : Nat, turn : Nat]
    PROVE  SessionTypeOK'
BY DEF SessionTypeOK, GivesUp

LEMMA HandleType ==
    ASSUME SInv, IInv', NEW p \in Players, Handle(p)
    PROVE  SessionTypeOK'
<1>0. SessionTypeOK /\ reply'.id \in Nat
  BY DEF SInv, IInv, TypeOK
<1>1. owner' \in Players \cup {NoPlayer}
  BY DEF Handle
<1>2. csv \subseteq [player : Accounts, game : Nat, round : Nat, turn : Nat]
         /\ local[p].turn \in Nat /\ PoolSize \in Nat
  BY <1>0, SessionAssumption DEF SessionTypeOK
<1>3. \A s \in Steps : [pc EXCEPT ![p] = s] \in [Players -> Steps]
  BY <1>0 DEF SessionTypeOK, Steps
<1>4. /\ "postRound" \in Steps /\ "postTurn" \in Steps /\ "storeId" \in Steps
      /\ "storeRound" \in Steps /\ "saveCsv" \in Steps /\ "idle" \in Steps
      /\ "updateCsv" \in Steps /\ "nextCsv" \in Steps
  BY DEF Steps, SaveSteps, UpdateSteps
<1>5. CASE PostGame(p)
  <2>0. UNCHANGED csv
    BY <1>5, PostGameCases
  <2>1. CASE GivesUp(p)
    BY <1>0, <1>1, <1>2, <2>0, <2>1, GivesUpType
  <2>2. CASE /\ local' = [local EXCEPT ![p].player = g.player, ![p].game = reply'.id]
             /\ pc' = [pc EXCEPT ![p] = "postRound"]
             /\ UNCHANGED <<g, browser, leaked, restarts>>
    BY ZenonT(60), <1>0, <1>1, <1>3, <1>4, <2>0, <2>2 DEF SessionTypeOK, Steps
  <2> QED
    BY <1>5, <2>1, <2>2, PostGameCases
<1>6. CASE PostRound(p)
  <2>0. UNCHANGED csv
    BY <1>6, PostRoundCases
  <2>1. CASE GivesUp(p)
    BY <1>0, <1>1, <1>2, <2>0, <2>1, GivesUpType
  <2>2. CASE /\ local' = [local EXCEPT ![p].round = reply'.id]
             /\ pc' = [pc EXCEPT ![p] = "postTurn"]
             /\ UNCHANGED <<g, browser, leaked, restarts>>
    BY SMTT(30), <1>0, <1>1, <1>3, <1>4, <2>0, <2>2 DEF SessionTypeOK, Steps
  <2> QED
    BY <1>6, <2>1, <2>2, PostRoundCases
<1>7. CASE PostTurn(p)
  <2>0. UNCHANGED csv
    BY <1>7, PostTurnCases
  <2>1. CASE GivesUp(p)
    BY <1>0, <1>1, <1>2, <2>0, <2>1, GivesUpType
  <2>2. CASE /\ leaked < PoolSize /\ leaked' = leaked + 1
             /\ pc' = [pc EXCEPT ![p] = "storeId"]
             /\ UNCHANGED <<g, local, browser, restarts>>
    BY <1>0, <1>1, <1>2, <1>3, <1>4, <2>0, <2>2 DEF SessionTypeOK, Steps
  <2> QED
    BY ZenonT(60), <1>7, <2>1, <2>2, PostTurnCases
<1>8. CASE StoreId(p) \/ StoreRound(p)
  <2>1. /\ g' \in [player : Accounts, id : Nat, round : Nat]
        /\ UNCHANGED <<local, browser, csv, leaked, restarts>>
    BY <1>0, <1>8 DEF StoreId, StoreRound, SessionTypeOK
  <2>2. pc' \in [Players -> Steps]
    BY <1>3, <1>4, <1>8 DEF StoreId, StoreRound, Goto
  <2> QED
    BY <1>0, <1>1, <2>1, <2>2 DEF SessionTypeOK, Steps
<1>9. CASE SaveCsv(p)
  <2>1. csv' \subseteq [player : Accounts, game : Nat, round : Nat, turn : Nat]
    <3>1. 1 \in Nat
      OBVIOUS
    <3>2. CsvPath(1) \in [player : Accounts, game : Nat, round : Nat, turn : Nat]
      BY <1>0, <3>1, CsvPathType
    <3> QED
      BY <1>2, <1>9, <3>2, SaveCsvCases
  <2>2. CASE GivesUp(p)
    BY <1>0, <1>1, <2>1, <2>2, GivesUpType
  <2>3. CASE /\ browser' = [browser EXCEPT ![p] =
                               [game |-> local[p].game, round |-> local[p].round,
                                turn |-> 1]]
             /\ pc' = [pc EXCEPT ![p] = "idle"]
             /\ UNCHANGED <<g, local, leaked, restarts>>
    BY <1>0, <1>1, <1>3, <1>4, <2>1, <2>3 DEF SessionTypeOK, Steps
  <2> QED
    BY <1>9, <2>2, <2>3, SaveCsvCases
<1>10. CASE PostNext(p)
  <2>0. UNCHANGED csv
    BY <1>10, PostNextCases
  <2>1. CASE GivesUp(p)
    BY <1>0, <1>1, <1>2, <2>0, <2>1, GivesUpType
  <2>2. CASE /\ leaked < PoolSize /\ leaked' = leaked + 1
             /\ pc' = [pc EXCEPT ![p] = "updateCsv"]
             /\ UNCHANGED <<g, local, browser, restarts>>
    BY <1>0, <1>1, <1>2, <1>3, <1>4, <2>0, <2>2 DEF SessionTypeOK, Steps
  <2> QED
    BY <1>10, <2>1, <2>2, PostNextCases
<1>11. CASE UpdateCsv(p)
  <2>1. csv' \subseteq [player : Accounts, game : Nat, round : Nat, turn : Nat]
    BY ZenonT(60), <1>0, <1>2, <1>11, UpdateCsvCases, CsvPathType
  <2>2. CASE GivesUp(p)
    BY <1>0, <1>1, <2>1, <2>2, GivesUpType
  <2>3. CASE /\ pc' = [pc EXCEPT ![p] = "nextCsv"]
             /\ UNCHANGED <<g, local, browser, leaked, restarts>>
    BY <1>0, <1>1, <1>3, <1>4, <2>1, <2>3 DEF SessionTypeOK, Steps
  <2> QED
    BY <1>11, <2>2, <2>3, UpdateCsvCases
<1>12. CASE NextCsv(p)
  <2>1. csv' \subseteq [player : Accounts, game : Nat, round : Nat, turn : Nat]
    BY <1>0, <1>2, <1>12, NextCsvCases, CsvPathType
  <2>2. CASE GivesUp(p)
    BY <1>0, <1>1, <2>1, <2>2, GivesUpType
  <2>3. CASE /\ browser' = [browser EXCEPT ![p] =
                               [browser[p] EXCEPT !.turn = local[p].turn + 1]]
             /\ pc' = [pc EXCEPT ![p] = "idle"]
             /\ UNCHANGED <<g, local, leaked, restarts>>
    BY SMTT(30), <1>0, <1>1, <1>2, <1>3, <1>4, <2>1, <2>3 DEF SessionTypeOK, Steps
  <2> QED
    BY <1>12, <2>2, <2>3, NextCsvCases
<1> QED
  BY <1>5, <1>6, <1>7, <1>8, <1>9, <1>10, <1>11, <1>12 DEF Handle

LEMMA StepType ==
    ASSUME SInv, IInv', SessionNext
    PROVE  SessionTypeOK'
<1>0. SessionTypeOK
  BY DEF SInv
<1>1. ASSUME NEW p \in Players, Handle(p) PROVE SessionTypeOK'
  BY <1>1, HandleType
<1>2. ASSUME NEW p \in Players, SaveData(p) PROVE SessionTypeOK'
  BY <1>0, <1>2, SessionAssumption DEF SessionTypeOK, SaveData, Goto, SaveSteps
<1>3. ASSUME NEW p \in Players, UpdateData(p) PROVE SessionTypeOK'
  BY <1>0, <1>3 DEF SessionTypeOK, UpdateData, Goto, UpdateSteps
<1>4. ASSUME NEW p \in Players, Win(p) PROVE SessionTypeOK'
  BY <1>0, <1>4 DEF SessionTypeOK, Win
<1>5. CASE Restart
  BY <1>0, <1>5, SessionAssumption DEF SessionTypeOK, Restart, FreshGame
<1> QED
  BY <1>1, <1>2, <1>3, <1>4, <1>5 DEF SessionNext

-----------------------------------------------------------------------------
(* Requests.                                                               *)

\* A step of one player leaves the request and the page of every other alone.
LEMMA OthersKept ==
    ASSUME SInv, NEW p \in Players, NEW q \in Players \ {p},
           SaveData(p) \/ UpdateData(p) \/ Win(p) \/ Handle(p)
    PROVE  pc'[q] = pc[q] /\ local'[q] = local[q] /\ browser'[q] = browser[q]
<1>0. SessionTypeOK
  BY DEF SInv
<1>1. CASE SaveData(p) \/ UpdateData(p) \/ Win(p)
  BY <1>0, <1>1 DEF SaveData, UpdateData, Win, Goto, SessionTypeOK
<1>2. CASE PostGame(p)
  BY ZenonT(60), <1>0, <1>2, PostGameCases DEF GivesUp, SessionTypeOK
<1>3. CASE PostRound(p)
  BY ZenonT(60), <1>0, <1>3, PostRoundCases DEF GivesUp, SessionTypeOK
<1>4. CASE PostTurn(p)
  BY ZenonT(60), <1>0, <1>4, PostTurnCases DEF GivesUp, SessionTypeOK
<1>5. CASE StoreId(p) \/ StoreRound(p)
  BY <1>0, <1>5 DEF StoreId, StoreRound, Goto, SessionTypeOK
<1>6. CASE SaveCsv(p)
  BY ZenonT(60), <1>0, <1>6, SaveCsvCases DEF GivesUp, SessionTypeOK
<1>7. CASE PostNext(p)
  BY ZenonT(60), <1>0, <1>7, PostNextCases DEF GivesUp, SessionTypeOK
<1>8. CASE UpdateCsv(p)
  BY ZenonT(60), <1>0, <1>8, UpdateCsvCases DEF GivesUp, SessionTypeOK
<1>9. CASE NextCsv(p)
  BY ZenonT(60), <1>0, <1>9, NextCsvCases DEF GivesUp, SessionTypeOK
<1> QED
  BY <1>1, <1>2, <1>3, <1>4, <1>5, <1>6, <1>7, <1>8, <1>9 DEF Handle

\* A request that stores nothing new, or ends, keeps what it knows.
LEMMA RequestFrame ==
    ASSUME SInv, Grows, NEW q \in Players,
           local'[q] = local[q], browser'[q] = browser[q],
           pc'[q] \in HasGame => pc[q] \in HasGame,
           pc'[q] \in HasRound => pc[q] \in HasRound,
           pc'[q] \in UpdateSteps => pc[q] \in UpdateSteps,
           gameSeq' \in Nat
    PROVE  Holds(q)' /\ Request(q)'
<1>1. Holds(q) /\ Request(q) /\ browser[q].game \in Nat /\ gameSeq \in Nat
  BY DEF SInv, SessionTypeOK, IInv, TypeOK
<1>2. Holds(q)'
  BY <1>1 DEF Holds, Grows
<1>3. Keys(games) \subseteq Keys(games)'
  BY DEF Grows, Keys
<1>4. Request(q)'
  <2>1. pc'[q] \in HasGame =>
           /\ local[q].game \in Keys(games)'
           /\ [account |-> local[q].player, game |-> local[q].game] \in playerGames'
    BY <1>1, <1>3 DEF Request, Grows
  <2>2. pc'[q] \in HasRound =>
           \E r \in rounds' : r.id = local[q].round /\ r.game = local[q].game
    BY <1>1 DEF Request, Grows
  <2> QED
    BY <2>1, <2>2 DEF Request
<1> QED
  BY <1>2, <1>4

LEMMA HandleRequest ==
    ASSUME SInv, IInv', Grows, NEW p \in Players, Handle(p)
    PROVE  Holds(p)' /\ Request(p)'
<1>0. /\ SessionTypeOK /\ IInv /\ Holds(p) /\ Request(p)
      /\ gameSeq \in Nat /\ gameSeq' \in Nat /\ roundSeq \in Nat
      /\ browser[p].game \in Nat
  BY DEF SInv, SessionTypeOK, IInv, TypeOK
<1>1. \A s \in Steps : [pc EXCEPT ![p] = s][p] = s
  BY <1>0 DEF SessionTypeOK
<1>2. ASSUME GivesUp(p) PROVE Holds(p)' /\ Request(p)'
  <2>1. pc'[p] = "idle" /\ local'[p] = local[p] /\ browser'[p] = browser[p]
    BY <1>0, <1>2 DEF GivesUp, SessionTypeOK
  <2> QED
    BY <1>0, <2>1, RequestFrame DEF HasGame, HasRound, UpdateSteps
<1>3. CASE PostGame(p)
  <2>1. CASE GivesUp(p)
    BY <1>2, <2>1
  <2>2. CASE ~GivesUp(p)
    <3>1. /\ CreateGame(<<g.player>>)
          /\ local' = [local EXCEPT ![p].player = g.player, ![p].game = reply'.id]
          /\ pc' = [pc EXCEPT ![p] = "postRound"]
          /\ UNCHANGED browser
      BY <1>3, <2>2, PostGameCases
    <3>2. g.player \in Accounts
      BY <1>0 DEF SessionTypeOK
    <3>3. /\ gameSeq < MaxGames /\ gameSeq' = gameSeq + 1
          /\ games' = games \cup {[id |-> gameSeq + 1, closed |-> FALSE]}
          /\ playerGames' = playerGames \cup
                               {[account |-> g.player, game |-> gameSeq + 1]}
          /\ reply' = Reply("CreateGame", 201, gameSeq + 1)
      BY <1>0, <3>1, <3>2, OneGame
    <3>4. /\ local'[p].player = g.player /\ local'[p].game = gameSeq + 1
          /\ local'[p].round = local[p].round
      BY <1>0, <3>1, <3>3 DEF SessionTypeOK, Reply
    <3>5. pc'[p] = "postRound"
      BY <1>0, <3>1 DEF SessionTypeOK
    <3>6. local'[p].game \in Keys(games)'
      <4>1. [id |-> gameSeq + 1, closed |-> FALSE].id = gameSeq + 1
        OBVIOUS
      <4> QED
        BY <3>3, <3>4, <4>1 DEF Keys
    <3>7. Holds(p)'
      BY <1>0, <3>1, <3>3, <3>4, <3>5, BoundsAssumption
         DEF Holds, HasGame, UpdateSteps
    <3> QED
      BY <3>3, <3>4, <3>5, <3>6, <3>7 DEF Request, HasRound, HasGame
  <2> QED
    BY <2>1, <2>2
<1>4. CASE PostRound(p)
  <2>1. CASE GivesUp(p)
    BY <1>2, <2>1
  <2>2. CASE ~GivesUp(p)
    <3>1. /\ CreateRound(local[p].game)
          /\ local' = [local EXCEPT ![p].round = reply'.id]
          /\ pc' = [pc EXCEPT ![p] = "postTurn"]
          /\ UNCHANGED browser
      BY <1>4, <2>2, PostRoundCases
    <3> DEFINE new == [id |-> roundSeq + 1, game |-> local[p].game, closed |-> FALSE]
    <3>2. /\ roundSeq < MaxRounds /\ rounds' = rounds \cup {new}
          /\ reply' = Reply("CreateRound", 201, roundSeq + 1)
          /\ UNCHANGED <<games, gameSeq, playerGames>>
      BY <3>1 DEF CreateRound
    <3>3. /\ local'[p].player = local[p].player /\ local'[p].game = local[p].game
          /\ local'[p].round = roundSeq + 1
      BY <1>0, <3>1, <3>2 DEF SessionTypeOK, Reply
    <3>4. pc'[p] = "postTurn" /\ pc[p] = "postRound"
      BY <1>0, <1>4, <3>1, PostRoundCases DEF SessionTypeOK
    <3>5. Holds(p)'
      BY <1>0, <3>1, <3>2, <3>3, <3>4, BoundsAssumption
         DEF Holds, HasGame, UpdateSteps
    <3>6. \E r \in rounds' : r.id = local'[p].round /\ r.game = local'[p].game
      <4>1. new \in rounds' /\ new.id = roundSeq + 1 /\ new.game = local[p].game
        BY <3>2
      <4> QED
        BY <3>3, <4>1
    <3> QED
      BY <1>0, <3>2, <3>3, <3>4, <3>5, <3>6 DEF Request, HasRound, HasGame, Keys
  <2> QED
    BY <2>1, <2>2
<1>5. ASSUME local'[p] = local[p], browser'[p] = browser[p],
             \/ pc[p] \in HasRound /\ pc'[p] \in HasRound
             \/ pc[p] \in UpdateSteps /\ pc'[p] \in UpdateSteps
      PROVE  Holds(p)' /\ Request(p)'
  <2>1. HasRound \cap UpdateSteps = {} /\ HasRound \subseteq HasGame
           /\ HasGame \cap UpdateSteps = {}
    BY DEF HasRound, HasGame, UpdateSteps
  <2> QED
    BY <1>0, <1>5, <2>1, RequestFrame
<1>6. CASE PostTurn(p)
  <2>1. CASE GivesUp(p)
    BY <1>2, <2>1
  <2>2. CASE ~GivesUp(p)
    <3>1. pc[p] = "postTurn" /\ pc' = [pc EXCEPT ![p] = "storeId"]
             /\ UNCHANGED <<local, browser>>
      BY <1>6, <2>2, PostTurnCases
    <3>2. pc[p] \in HasRound /\ pc'[p] \in HasRound
      BY <1>0, <3>1 DEF SessionTypeOK, HasRound, HasGame
    <3> QED
      BY <1>5, <3>1, <3>2
  <2> QED
    BY <2>1, <2>2
<1>7. CASE StoreId(p) \/ StoreRound(p)
  <2>1. pc[p] \in HasRound /\ pc'[p] \in HasRound /\ UNCHANGED <<local, browser>>
    BY <1>0, <1>7 DEF StoreId, StoreRound, Goto, SessionTypeOK, HasRound, HasGame
  <2> QED
    BY <1>5, <2>1
<1>8. CASE SaveCsv(p)
  <2>1. CASE GivesUp(p)
    BY <1>2, <2>1
  <2>2. CASE ~GivesUp(p)
    <3>1. /\ pc[p] = "saveCsv" /\ UNCHANGED <<vars, local>>
          /\ browser' = [browser EXCEPT ![p] =
                            [game |-> local[p].game, round |-> local[p].round,
                             turn |-> 1]]
          /\ pc' = [pc EXCEPT ![p] = "idle"]
      BY <1>8, <2>2, SaveCsvCases
    <3>2. /\ pc'[p] = "idle"
          /\ browser'[p].game = local[p].game /\ browser'[p].turn = 1
      BY <1>0, <3>1 DEF SessionTypeOK
    <3>3. local[p].game <= gameSeq
      BY <1>0, <3>1 DEF Request, HasGame, IInv, SequencesAhead
    <3>4. 1 \in 1 .. MaxTurns
      BY BoundsAssumption, SessionAssumption
    <3>5. UNCHANGED gameSeq
      BY <3>1, Zenon DEF vars, sequences
    <3> QED
      BY <1>0, <3>1, <3>2, <3>3, <3>4, <3>5
         DEF Holds, Request, HasGame, HasRound, UpdateSteps
  <2> QED
    BY <2>1, <2>2
<1>9. CASE PostNext(p)
  <2>1. CASE GivesUp(p)
    BY <1>2, <2>1
  <2>2. CASE ~GivesUp(p)
    <3>1. pc[p] = "postNext" /\ pc' = [pc EXCEPT ![p] = "updateCsv"]
             /\ UNCHANGED <<local, browser>>
      BY <1>9, <2>2, PostNextCases
    <3>2. pc[p] \in UpdateSteps /\ pc'[p] \in UpdateSteps
      BY <1>0, <3>1 DEF SessionTypeOK, UpdateSteps
    <3> QED
      BY <1>5, <3>1, <3>2
  <2> QED
    BY <2>1, <2>2
<1>10. CASE UpdateCsv(p)
  <2>1. CASE GivesUp(p)
    BY <1>2, <2>1
  <2>2. CASE ~GivesUp(p)
    <3>1. pc[p] = "updateCsv" /\ pc' = [pc EXCEPT ![p] = "nextCsv"]
             /\ UNCHANGED <<local, browser>>
      BY <1>10, <2>2, UpdateCsvCases
    <3>2. pc[p] \in UpdateSteps /\ pc'[p] \in UpdateSteps
      BY <1>0, <3>1 DEF SessionTypeOK, UpdateSteps
    <3> QED
      BY <1>5, <3>1, <3>2
  <2> QED
    BY <2>1, <2>2
<1>11. CASE NextCsv(p)
  <2>1. CASE GivesUp(p)
    BY <1>2, <2>1
  <2>2. CASE ~GivesUp(p)
    <3>1. /\ pc[p] = "nextCsv" /\ UNCHANGED <<vars, local>>
          /\ browser' = [browser EXCEPT ![p] =
                            [browser[p] EXCEPT !.turn = local[p].turn + 1]]
          /\ pc' = [pc EXCEPT ![p] = "idle"]
      BY <1>11, <2>2, NextCsvCases
    <3>2. /\ pc'[p] = "idle"
          /\ browser'[p].game = browser[p].game
          /\ browser'[p].turn = local[p].turn + 1
      BY <1>0, <3>1 DEF SessionTypeOK
    <3>3. local[p].turn + 1 \in 1 .. MaxTurns
      BY <1>0, <3>1, BoundsAssumption DEF Holds, UpdateSteps
    <3>4. UNCHANGED gameSeq
      BY <3>1, Zenon DEF vars, sequences
    <3> QED
      BY <1>0, <3>1, <3>2, <3>3, <3>4 DEF Holds, Request, HasGame, HasRound, UpdateSteps
  <2> QED
    BY <2>1, <2>2
<1> QED
  BY <1>3, <1>4, <1>6, <1>7, <1>8, <1>9, <1>10, <1>11 DEF Handle

LEMMA StepRequest ==
    ASSUME SInv, IInv', Grows, SessionNext, NEW q \in Players
    PROVE  Holds(q)' /\ Request(q)'
<1>0. SessionTypeOK /\ Holds(q) /\ gameSeq \in Nat /\ gameSeq' \in Nat
  BY DEF SInv, IInv, TypeOK
<1>1. CASE Restart
  <2>1. pc'[q] = "idle" /\ UNCHANGED <<local, browser>>
    BY <1>1 DEF Restart
  <2> QED
    BY <1>0, <2>1, RequestFrame DEF HasGame, HasRound, UpdateSteps
<1>2. ASSUME NEW p \in Players \ {q},
             SaveData(p) \/ UpdateData(p) \/ Win(p) \/ Handle(p)
      PROVE  Holds(q)' /\ Request(q)'
  <2>1. pc'[q] = pc[q] /\ local'[q] = local[q] /\ browser'[q] = browser[q]
    BY <1>2, OthersKept
  <2> QED
    BY <1>0, <2>1, RequestFrame
<1>3. CASE Handle(q)
  BY <1>3, HandleRequest
<1>4. CASE SaveData(q)
  <2>1. pc'[q] = "postGame" /\ UNCHANGED <<local, browser>>
    BY <1>0, <1>4 DEF SaveData, Goto, SessionTypeOK
  <2> QED
    BY <1>0, <2>1, RequestFrame DEF HasGame, HasRound, UpdateSteps
<1>5. CASE UpdateData(q)
  <2>1. /\ pc'[q] = "postNext" /\ UNCHANGED <<vars, browser>>
        /\ browser[q].game # 0 /\ browser[q].turn < MaxTurns
        /\ local' = [local EXCEPT ![q].turn = browser[q].turn]
    BY <1>0, <1>5 DEF UpdateData, Goto, SessionTypeOK
  <2>2. /\ local'[q].turn = browser[q].turn
        /\ local'[q].game = local[q].game /\ local'[q].round = local[q].round
    BY <1>0, <2>1 DEF SessionTypeOK
  <2>3. browser[q].turn \in 1 .. (MaxTurns - 1)
    BY <1>0, <2>1, BoundsAssumption DEF Holds
  <2>4. UNCHANGED gameSeq
    BY <2>1, Zenon DEF vars, sequences
  <2>5. Holds(q)'
    BY <1>0, <2>1, <2>2, <2>3, <2>4 DEF Holds, HasGame, UpdateSteps
  <2> QED
    BY <2>1, <2>5 DEF Request, HasGame, HasRound
<1>6. CASE Win(q)
  <2>1. /\ pc'[q] = "idle" /\ UNCHANGED <<vars, local>>
        /\ browser' = [browser EXCEPT ![q].game = 0]
    BY <1>6 DEF Win
  <2>2. browser'[q].game = 0
    BY <1>0, <2>1 DEF SessionTypeOK
  <2>3. UNCHANGED gameSeq
    BY <2>1, Zenon DEF vars, sequences
  <2> QED
    BY <1>0, <2>1, <2>2, <2>3 DEF Holds, Request, HasGame, HasRound, UpdateSteps
<1> QED
  BY <1>1, <1>2, <1>3, <1>4, <1>5, <1>6 DEF SessionNext

\* The round in g was stored by some save.
LEMMA StepRoundOfG ==
    ASSUME SInv, SessionNext
    PROVE  g'.round \in 0 .. MaxRounds
<1>0. SessionTypeOK /\ g.round \in 0 .. MaxRounds
  BY DEF SInv
<1>1. ASSUME NEW p \in Players, StoreRound(p) PROVE g'.round \in 0 .. MaxRounds
  <2>1. g'.round = local[p].round
    BY <1>0, <1>1 DEF StoreRound, SessionTypeOK
  <2> QED
    BY <2>1 DEF SInv, Holds
<1>2. ASSUME NEW p \in Players, SaveData(p) \/ StoreId(p)
      PROVE  g'.round \in 0 .. MaxRounds
  BY <1>0, <1>2 DEF SaveData, StoreId, SessionTypeOK
<1>3. ASSUME NEW p \in Players,
             UpdateData(p) \/ Win(p) \/ PostGame(p) \/ PostRound(p) \/ PostTurn(p)
             \/ SaveCsv(p) \/ PostNext(p) \/ UpdateCsv(p) \/ NextCsv(p)
      PROVE  g' = g
  BY <1>3, Zenon DEF UpdateData, Win, PostGame, PostRound, PostTurn, SaveCsv, PostNext,
                     UpdateCsv, NextCsv, Exchange, WriteCsv
<1>4. CASE Restart
  BY <1>4, BoundsAssumption DEF Restart, FreshGame
<1> QED
  BY <1>0, <1>1, <1>2, <1>3, <1>4 DEF SessionNext, Handle

-----------------------------------------------------------------------------
(* The inserts of a save.                                                  *)

\* The row of a turn's player, through an insert of another row.
LEMMA PlayerKept ==
    ASSUME IInv, Grows, NEW a \in Accounts, NEW t \in turns, PlayedBy(t, a)
    PROVE  PlayedBy(t, a)'
<1>1. t.player \in PlayerIds
  BY DEF IInv, TurnIntegrity
<1>2. playerId[a] # 0
  BY <1>1 DEF PlayedBy, PlayerIds
<1> QED
  BY <1>2 DEF PlayedBy, Grows

\* A step that adds neither a round nor a turn keeps the saves coherent.
LEMMA SavesFrame ==
    ASSUME SInv, Grows, UNCHANGED <<rounds, turns>>
    PROVE  SavesAreCoherent'
<1>0. IInv /\ SavesAreCoherent
  BY DEF SInv
<1>1. \A r \in rounds : r.game \in Keys(games)'
  BY <1>0 DEF SavesAreCoherent, Grows, Keys
<1>2. ASSUME NEW t \in turns, NEW r \in rounds, t.id = 1, t.round = r.id
      PROVE  \E pg \in playerGames' : pg.game = r.game /\ PlayedBy(t, pg.account)'
  <2>1. PICK pg \in playerGames : pg.game = r.game /\ PlayedBy(t, pg.account)
    BY <1>0, <1>2 DEF SavesAreCoherent
  <2>2. pg.account \in Accounts
    BY <1>0 DEF IInv, TypeOK
  <2>3. PlayedBy(t, pg.account)'
    BY <1>0, <2>1, <2>2, PlayerKept
  <2>4. pg \in playerGames'
    BY DEF Grows
  <2> QED
    BY <2>1, <2>3, <2>4
<1> QED
  BY <1>1, <1>2 DEF SavesAreCoherent

\* A round of a stored game has no turn yet.
LEMMA SavesRound ==
    ASSUME SInv, Grows, NEW game \in GameIds, game \in Keys(games), CreateRound(game)
    PROVE  SavesAreCoherent'
<1> DEFINE new == [id |-> roundSeq + 1, game |-> game, closed |-> FALSE]
<1>0. IInv /\ SavesAreCoherent
  BY DEF SInv
<1>1. rounds' = rounds \cup {new} /\ UNCHANGED <<games, turns, playerId, playerGames>>
  BY DEF CreateRound
<1>2. \A t \in turns : t.round # new.id
  <2>1. \A t \in turns : t.round \in 1 .. roundSeq
    BY <1>0 DEF IInv, TurnIntegrity, SequencesAhead
  <2>2. roundSeq \in Nat
    BY <1>0 DEF IInv, TypeOK
  <2> QED
    BY <2>1, <2>2
<1>3. new.game = game
  OBVIOUS
<1> HIDE DEF new
<1>4. \A r \in rounds' : r.game \in Keys(games)'
  BY <1>0, <1>1, <1>3 DEF SavesAreCoherent, Keys
<1>5. ASSUME NEW t \in turns', NEW r \in rounds', t.id = 1, t.round = r.id
      PROVE  \E pg \in playerGames' : pg.game = r.game /\ PlayedBy(t, pg.account)'
  <2>1. r \in rounds /\ t \in turns
    BY <1>1, <1>2, <1>5
  <2> QED
    BY <1>0, <1>1, <1>5, <2>1 DEF SavesAreCoherent, PlayedBy
<1> QED
  BY <1>4, <1>5 DEF SavesAreCoherent

\* A turn keeps the saves coherent if, when it is a first turn, the game of its round
\* lists its player.
LEMMA SavesTurn ==
    ASSUME SInv, Grows, NEW id \in Nat \ {0}, NEW round \in Nat, NEW a \in Accounts,
           CreateTurns(id, round, <<a>>),
           id = 1 => \A r \in rounds : r.id = round =>
                         [account |-> a, game |-> r.game] \in playerGames
    PROVE  SavesAreCoherent'
<1> DEFINE new == [id |-> id, round |-> round, player |-> playerId[a], closed |-> FALSE]
<1>0. IInv /\ SavesAreCoherent
  BY DEF SInv
<1>1. /\ UNCHANGED <<games, playerGames, playerId, rounds>>
      /\ turns' \in {turns, turns \cup {new}}
  BY <1>0, OneTurn
<1>2. CASE turns' = turns
  BY <1>1, <1>2, SavesFrame
<1>3. CASE turns' = turns \cup {new}
  <2>1. new.id = id /\ new.round = round /\ new.player = playerId[a]
    OBVIOUS
  <2> HIDE DEF new
  <2>2. ASSUME NEW r \in rounds, new.id = 1, new.round = r.id
        PROVE  \E pg \in playerGames : pg.game = r.game /\ PlayedBy(new, pg.account)
    <3> DEFINE pg == [account |-> a, game |-> r.game]
    <3>1. pg \in playerGames
      BY <2>1, <2>2
    <3>2. pg.account = a /\ pg.game = r.game
      OBVIOUS
    <3> HIDE DEF pg
    <3> QED
      BY <2>1, <3>1, <3>2 DEF PlayedBy
  <2>3. \A r \in rounds' : r.game \in Keys(games)'
    BY <1>0, <1>1 DEF SavesAreCoherent, Keys
  <2>4. ASSUME NEW t \in turns', NEW r \in rounds', t.id = 1, t.round = r.id
        PROVE  \E pg \in playerGames' : pg.game = r.game /\ PlayedBy(t, pg.account)'
    <3>1. \E pg \in playerGames : pg.game = r.game /\ PlayedBy(t, pg.account)
      <4>1. CASE t \in turns
        BY <1>0, <1>1, <2>4, <4>1 DEF SavesAreCoherent
      <4>2. CASE t = new
        BY <1>1, <2>2, <2>4, <4>2
      <4> QED
        BY <1>3, <4>1, <4>2
    <3> QED
      BY <1>1, <3>1 DEF PlayedBy
  <2> QED
    BY <2>3, <2>4 DEF SavesAreCoherent
<1> QED
  BY <1>1, <1>2, <1>3

LEMMA StepSaves ==
    ASSUME SInv, Grows, SessionNext
    PROVE  SavesAreCoherent'
<1>0. IInv /\ SessionTypeOK
  BY DEF SInv
<1>1. CASE UNCHANGED vars
  <2>1. UNCHANGED <<rounds, turns>>
    BY <1>1, Zenon DEF vars, tables
  <2> QED
    BY <2>1, SavesFrame
<1>2. ASSUME NEW p \in Players, PostGame(p) PROVE SavesAreCoherent'
  <2>1. g.player \in Accounts
    BY <1>0 DEF SessionTypeOK
  <2>2. CASE CreateGame(<<g.player>>)
    BY <1>0, <2>1, <2>2, OneGame, SavesFrame
  <2> QED
    BY <1>1, <1>2, <2>2, PostGameCases
<1>3. ASSUME NEW p \in Players, PostRound(p) PROVE SavesAreCoherent'
  <2>1. local[p].game \in Keys(games) /\ local[p].game \in 0 .. MaxGames
    BY <1>3, PostRoundCases DEF SInv, Request, Holds, HasGame
  <2>2. local[p].game \in GameIds
    BY <1>0, <2>1, BoundsAssumption DEF GameIds, IInv, SequencesAhead, TypeOK
  <2> QED
    BY <1>1, <1>3, <2>1, <2>2, PostRoundCases, SavesRound
<1>4. ASSUME NEW p \in Players, PostTurn(p) PROVE SavesAreCoherent'
  <2>1. pc[p] = "postTurn"
    BY <1>4, PostTurnCases
  <2>2. /\ local[p].round \in Nat /\ local[p].player \in Accounts
        /\ [account |-> local[p].player, game |-> local[p].game] \in playerGames
        /\ \E r \in rounds : r.id = local[p].round /\ r.game = local[p].game
    BY <1>0, <2>1 DEF SInv, SessionTypeOK, Request, HasGame, HasRound
  <2>3. \A r \in rounds : r.id = local[p].round => r.game = local[p].game
    BY <1>0, <2>2 DEF IInv, RegisteredPlayers
  <2>4. CASE CreateTurns(1, local[p].round, <<local[p].player>>)
    BY <2>2, <2>3, <2>4, SavesTurn
  <2> QED
    BY <1>1, <1>4, <2>4, PostTurnCases
<1>5. ASSUME NEW p \in Players, PostNext(p) PROVE SavesAreCoherent'
  <2>1. pc[p] = "postNext"
    BY <1>5, PostNextCases
  <2>2. local[p].turn \in 1 .. (MaxTurns - 1)
    BY <2>1 DEF SInv, Holds, UpdateSteps
  <2>3. local[p].turn + 1 \in Nat \ {0} /\ local[p].turn + 1 # 1
    BY <2>2
  <2>4. g.round \in Nat /\ g.player \in Accounts
    BY <1>0 DEF SessionTypeOK
  <2>5. CASE CreateTurns(local[p].turn + 1, g.round, <<g.player>>)
    BY <2>3, <2>4, <2>5, SavesTurn
  <2> QED
    BY <1>1, <1>5, <2>5, PostNextCases
<1>6. ASSUME NEW p \in Players,
             SaveData(p) \/ UpdateData(p) \/ Win(p) \/ StoreId(p) \/ StoreRound(p)
             \/ SaveCsv(p) \/ UpdateCsv(p) \/ NextCsv(p)
      PROVE  UNCHANGED vars
  BY <1>6, Zenon DEF SaveData, UpdateData, Win, StoreId, StoreRound, SaveCsv, UpdateCsv,
                     NextCsv, WriteCsv
<1>7. CASE Restart
  BY <1>1, <1>7, Zenon DEF Restart
<1> QED
  BY <1>1, <1>2, <1>3, <1>4, <1>5, <1>6, <1>7, Zenon DEF SessionNext, Handle

-----------------------------------------------------------------------------
(* The owner of g.                                                         *)

\* Stored and Numbers in the state a step leads to.
StoredNext(p, game, round, turn) ==
    /\ \E r \in rounds' : r.id = round /\ r.game = game
    /\ \E t \in turns' : t.id = turn /\ t.round = round /\ t.player = playerId'[p]

NumbersNext(round) == {t.id : t \in {u \in turns' : u.round = round}}

LEMMA StoredKept ==
    ASSUME IInv, Grows, NEW p \in Players, NEW game, NEW round, NEW turn,
           Stored(p, game, round, turn)
    PROVE  StoredNext(p, game, round, turn)
<1>1. p \in Accounts
  BY SessionAssumption
<1>2. PICK t \in turns : t.id = turn /\ t.round = round /\ PlayedBy(t, p)
  BY DEF Stored
<1>3. t.player = playerId'[p]
  BY <1>1, <1>2, PlayerKept DEF PlayedBy
<1>4. \E r \in rounds' : r.id = round /\ r.game = game
  BY DEF Stored, Grows
<1> QED
  BY <1>2, <1>3, <1>4 DEF StoredNext, Grows

LEMMA NumbersKept ==
    ASSUME NEW new, NEW round,
           turns' = turns \/ (turns' = turns \cup {new} /\ new.round # round)
    PROVE  NumbersNext(round) = Numbers(round)
BY DEF NumbersNext, Numbers

LEMMA NumbersMore ==
    ASSUME NEW new, turns' = turns \cup {new}
    PROVE  NumbersNext(new.round) = Numbers(new.round) \cup {new.id}
BY DEF NumbersNext, Numbers

\* What a page shows stays stored while no turn of its round is added.
LEMMA ShownFrame ==
    ASSUME SInv, Grows, NEW p \in Players, Shown(p), browser'[p] = browser[p],
           g'.player = g.player, g'.round = g.round, csv \subseteq csv',
           NumbersNext(browser[p].round) = Numbers(browser[p].round),
           pc'[p] \in {"updateCsv", "nextCsv"} => pc[p] \in {"updateCsv", "nextCsv"}
    PROVE  Shown(p)'
<1> DEFINE b == browser[p]
<1>0. IInv
  BY DEF SInv
<1>1. /\ g.player = p /\ g.round = b.round
      /\ Stored(p, b.game, b.round, b.turn)
      /\ PagePath(p, b) \in csv
      /\ Numbers(b.round) \in {1 .. b.turn, 1 .. b.turn + 1}
      /\ pc[p] \in {"updateCsv", "nextCsv"} =>
             /\ Stored(p, b.game, b.round, b.turn + 1)
             /\ Numbers(b.round) = 1 .. b.turn + 1
  BY DEF Shown
<1>2. StoredNext(p, b.game, b.round, b.turn)
  BY <1>0, <1>1, StoredKept
<1>3. pc[p] \in {"updateCsv", "nextCsv"} => StoredNext(p, b.game, b.round, b.turn + 1)
  BY <1>0, <1>1, StoredKept
<1>4. NumbersNext(b.round) \in {1 .. b.turn, 1 .. b.turn + 1}
  BY <1>1
<1>5. pc'[p] \in {"updateCsv", "nextCsv"} =>
         /\ StoredNext(p, b.game, b.round, b.turn + 1)
         /\ NumbersNext(b.round) = 1 .. b.turn + 1
  BY <1>1, <1>3
<1>6. g'.player = p /\ g'.round = b.round /\ PagePath(p, b) \in csv'
  BY <1>1
<1>7. browser'[p] = b
  OBVIOUS
<1> HIDE DEF b
<1> QED
  BY <1>2, <1>4, <1>5, <1>6, <1>7
     DEF Shown, Stored, StoredNext, PlayedBy, Numbers, NumbersNext

\* A request that has no game yet, or has ended, asks only that the page be right.
LEMMA OwnedRest ==
    ASSUME NEW p \in Players, \A q \in Players \ {p} : pc'[q] \in {"idle", "postNext"},
           pc'[p] \notin HasGame, pc'[p] \in SaveSteps => g'.player = p,
           OnScreen(p)' => Shown(p)'
    PROVE  Owned(p)'
<1>1. HasTurn \subseteq HasGame /\ {"storeRound", "saveCsv", "postTurn"} \subseteq HasGame
  BY DEF HasTurn, HasRound, HasGame
<1> QED
  BY <1>1 DEF Owned

\* Steps before a request is handled, on which the owner's page is unchanged.
LEMMA StepOwnedOthers ==
    ASSUME SInv, Grows, SessionNext, ~(\E q \in Players : Handle(q)),
           NEW p \in Players, owner' = p
    PROVE  Owned(p)'
<1>0. SessionTypeOK /\ (owner = p => Owned(p)) /\ Holds(p)
         /\ p # NoPlayer /\ browser[p].game \in Nat
  BY SessionAssumption DEF SInv, SessionTypeOK
<1>1. CASE Restart
  <2>1. /\ \A q \in Players : pc'[q] = "idle"
        /\ g'.id = 0 /\ browser' = browser
    BY <1>1 DEF Restart, FreshGame
  <2>2. ~OnScreen(p)'
    BY <2>1 DEF OnScreen
  <2> QED
    BY <2>1, <2>2, OwnedRest DEF HasGame, SaveSteps
<1>2. CASE SaveData(p)
  <2>1. /\ pc' = [pc EXCEPT ![p] = "postGame"] /\ g' = [g EXCEPT !.player = p]
        /\ UNCHANGED <<vars, local, browser, csv>>
        /\ Alone(p) /\ (OnScreen(p) => owner = p)
    BY <1>0, <1>2 DEF SaveData, Goto
  <2>2. /\ pc'[p] = "postGame" /\ \A q \in Players \ {p} : pc'[q] = "idle"
        /\ g'.player = p /\ g'.id = g.id /\ g'.round = g.round
    BY <1>0, <2>1 DEF Alone, SessionTypeOK
  <2>3. ASSUME OnScreen(p)' PROVE Shown(p)'
    <3>1. OnScreen(p)
      BY <2>1, <2>2, <2>3 DEF OnScreen
    <3>2. Shown(p) /\ g.player = p
      BY <1>0, <2>1, <3>1 DEF Owned, Shown
    <3>3. turns' = turns
      BY <2>1, Zenon DEF vars, tables
    <3>4. NumbersNext(browser[p].round) = Numbers(browser[p].round)
      BY <3>3, NumbersKept
    <3> QED
      BY <2>1, <2>2, <3>2, <3>4, ShownFrame
  <2> QED
    BY <2>2, <2>3, OwnedRest DEF HasGame
<1>3. ASSUME NEW q \in Players, UpdateData(q) \/ Win(q) PROVE Owned(p)'
  <2>1. /\ UNCHANGED <<vars, g, csv, owner>>
        /\ \A r \in Players : pc'[r] \in {pc[r], "postNext"}
        /\ pc'[p] # pc[p] => pc'[p] = "postNext"
        /\ browser'[p] = browser[p] \/ browser'[p].game = 0
        /\ local'[p] = local[p] \/ pc'[p] = "postNext"
    BY <1>0, <1>3 DEF UpdateData, Win, Goto, SessionTypeOK
  <2>2. Owned(p) /\ owner = p
    BY <1>0, <2>1
  <2>3. turns' = turns /\ rounds' = rounds /\ playerId' = playerId
    BY <2>1, Zenon DEF vars, tables
  <2>4. ASSUME OnScreen(p)' PROVE Shown(p)'
    <3>1. browser'[p] = browser[p] /\ OnScreen(p)
      BY <2>1, <2>4 DEF OnScreen
    <3>2. Shown(p)
      BY <2>2, <3>1 DEF Owned
    <3>3. NumbersNext(browser[p].round) = Numbers(browser[p].round)
      BY <2>3, NumbersKept
    <3> QED
      BY <2>1, <3>1, <3>2, <3>3, ShownFrame
  <2>5. \A r \in Players \ {p} : pc'[r] \in {"idle", "postNext"}
    BY <2>1, <2>2 DEF Owned
  <2>6. CASE pc'[p] = "postNext"
    BY <2>4, <2>5, <2>6, OwnedRest DEF HasGame, SaveSteps
  <2>7. CASE pc'[p] = pc[p] /\ local'[p] = local[p]
    <3>1. /\ pc[p] \in SaveSteps => g.player = p
          /\ pc[p] \in HasGame => local[p].player = p
          /\ pc[p] = "postTurn" => Numbers(local[p].round) = {}
          /\ pc[p] \in HasTurn => /\ Stored(p, local[p].game, local[p].round, 1)
                                  /\ Numbers(local[p].round) = {1}
          /\ pc[p] \in {"storeRound", "saveCsv"} => g.id = local[p].game
          /\ pc[p] = "saveCsv" => g.round = local[p].round
      BY <2>2 DEF Owned
    <3>2. g' = g
      BY <2>1
    <3>3. /\ (pc[p] \in SaveSteps => g.player = p)'
          /\ (pc[p] \in HasGame => local[p].player = p)'
          /\ (pc[p] \in {"storeRound", "saveCsv"} => g.id = local[p].game)'
          /\ (pc[p] = "saveCsv" => g.round = local[p].round)'
      BY <2>7, <3>1, <3>2
    <3>4. /\ (pc[p] = "postTurn" => Numbers(local[p].round) = {})'
          /\ (pc[p] \in HasTurn => /\ Stored(p, local[p].game, local[p].round, 1)
                                   /\ Numbers(local[p].round) = {1})'
      BY <2>3, <2>7, <3>1 DEF Numbers, Stored, PlayedBy
    <3> QED
      BY <2>4, <2>5, <3>3, <3>4 DEF Owned
  <2> QED
    BY <2>1, <2>6, <2>7
<1>4. ASSUME NEW q \in Players \ {p}, SaveData(q) PROVE FALSE
  BY <1>0, <1>4 DEF SaveData
<1> QED
  BY <1>1, <1>2, <1>3, <1>4 DEF SessionNext

\* The round of a save under way is not the one the page shows.
LEMMA RoundsApart ==
    ASSUME SInv, NEW p \in Players, pc[p] \in HasRound, Shown(p)
    PROVE  browser[p].round # local[p].round
<1>1. PICK r \in rounds : r.id = local[p].round /\ r.game = local[p].game
  BY DEF SInv, Request
<1>2. PICK s \in rounds : s.id = browser[p].round /\ s.game = browser[p].game
  BY DEF Shown, Stored
<1>3. browser[p].game # local[p].game
  BY DEF SInv, Holds, HasRound
<1>4. \A u, v \in rounds : u.id = v.id => u = v
  BY DEF SInv, IInv, RegisteredPlayers
<1> QED
  BY <1>1, <1>2, <1>3, <1>4

\* A save inserts its first turn.
LEMMA PostTurnOwned ==
    ASSUME SInv, Grows, NEW p \in Players, Owned(p), PostTurn(p),
           \A q \in Players \ {p} : pc'[q] \in {"idle", "postNext"}
    PROVE  Owned(p)'
<1> DEFINE new == [id |-> 1, round |-> local[p].round, player |-> playerId[p],
                   closed |-> FALSE]
           Inserted == turns' = turns \cup {new}
<1>0. /\ SessionTypeOK /\ IInv /\ p \in Accounts
      /\ local[p].round \in Nat /\ pc[p] = "postTurn"
  BY PostTurnCases, SessionAssumption DEF SInv, SessionTypeOK
<1>1. local[p].player = p /\ g.player = p /\ Numbers(local[p].round) = {}
  BY <1>0 DEF Owned, HasGame, SaveSteps
<1>2. /\ turns' = turns \/ Inserted
      /\ CreateTurns(1, local[p].round, <<p>>) /\ reply'.status <= 299 => Inserted
      /\ UNCHANGED <<playerId, rounds>>
  <2>1. CASE CreateTurns(1, local[p].round, <<p>>)
    <3>1. 1 \in Nat \ {0}
      OBVIOUS
    <3>2. /\ UNCHANGED <<games, gameSeq, playerGames, playerId, rounds>>
          /\ \/ reply'.status \in {400, 404, 409, 500} /\ turns' = turns
             \/ reply'.status = 201 /\ Inserted
      BY <1>0, <2>1, <3>1, OneTurn
    <3> QED
      BY <3>2
  <2>2. CASE UNCHANGED vars /\ ~CreateTurns(1, local[p].round, <<p>>)
    BY <2>2, Zenon DEF vars, tables
  <2> QED
    BY <1>1, <2>1, <2>2, PostTurnCases
<1>3. new.id = 1 /\ new.round = local[p].round /\ new.player = playerId[p]
  OBVIOUS
<1> HIDE DEF new
<1>4. UNCHANGED <<g, local, browser, csv>>
  BY PostTurnCases DEF GivesUp
<1>5. pc'[p] \in {"idle", "storeId"} /\ (pc'[p] = "storeId" => Inserted)
  <2>1. CASE GivesUp(p)
    BY <1>0, <2>1 DEF GivesUp, SessionTypeOK
  <2>2. CASE ~GivesUp(p)
    BY <1>0, <1>1, <1>2, <2>2, PostTurnCases DEF SessionTypeOK
  <2> QED
    BY <2>1, <2>2
<1>6. ASSUME OnScreen(p)' PROVE Shown(p)'
  <2>1. OnScreen(p)
    BY <1>4, <1>6 DEF OnScreen
  <2>2. Shown(p)
    BY <2>1 DEF Owned
  <2>3. browser[p].round # local[p].round
    BY <1>0, <2>2, RoundsApart DEF HasRound, HasGame
  <2>4. NumbersNext(browser[p].round) = Numbers(browser[p].round)
    BY <1>2, <1>3, <2>3, NumbersKept
  <2> QED
    BY <1>4, <1>5, <2>2, <2>4, ShownFrame
<1>7. CASE pc'[p] = "idle"
  BY <1>6, <1>7, OwnedRest DEF HasGame, SaveSteps
<1>8. CASE pc'[p] = "storeId"
  <2>1. Inserted
    BY <1>5, <1>8
  <2>2. NumbersNext(local[p].round) = {1}
    BY <1>1, <1>3, <2>1, NumbersMore
  <2>3. StoredNext(p, local[p].game, local[p].round, 1)
    <3>1. \E r \in rounds' : r.id = local[p].round /\ r.game = local[p].game
      BY <1>0, <1>2 DEF SInv, Request, HasRound, HasGame
    <3>2. new \in turns' /\ new.player = playerId'[p]
      BY <1>2, <1>3, <2>1
    <3> QED
      BY <1>3, <3>1, <3>2 DEF StoredNext
  <2>4. g'.player = p /\ local'[p] = local[p] /\ local[p].player = p
    BY <1>1, <1>4
  <2>5. Stored(p, local[p].game, local[p].round, 1)' /\ Numbers(local[p].round)' = {1}
    BY <2>2, <2>3, <2>4 DEF Stored, StoredNext, PlayedBy, Numbers, NumbersNext
  <2> QED
    BY <1>6, <1>8, <2>4, <2>5 DEF Owned
<1> QED
  BY <1>5, <1>7, <1>8

\* The turn that follows the one the page shows.
LEMMA PostNextOwned ==
    ASSUME SInv, Grows, NEW p \in Players, Owned(p), PostNext(p),
           \A q \in Players \ {p} : pc'[q] \in {"idle", "postNext"}
    PROVE  Owned(p)'
<1> DEFINE b == browser[p]
           new == [id |-> b.turn + 1, round |-> b.round, player |-> playerId[p],
                   closed |-> FALSE]
           Inserted == turns' = turns \cup {new}
<1>0. /\ SessionTypeOK /\ IInv /\ p \in Accounts /\ pc[p] = "postNext"
      /\ b.turn \in Nat /\ b.round \in Nat
  BY PostNextCases, SessionAssumption DEF SInv, SessionTypeOK
<1>1. UNCHANGED <<g, local, browser, csv>>
  BY PostNextCases DEF GivesUp
<1>2. pc'[p] \in {"idle", "updateCsv"}
  BY <1>0, PostNextCases DEF GivesUp, SessionTypeOK
<1>3. ASSUME OnScreen(p)' PROVE Shown(p)'
  <2>1. OnScreen(p)
    BY <1>1, <1>3 DEF OnScreen
  <2>2. /\ g.player = p /\ g.round = b.round
        /\ Stored(p, b.game, b.round, b.turn)
        /\ PagePath(p, b) \in csv
        /\ Numbers(b.round) \in {1 .. b.turn, 1 .. b.turn + 1}
    BY <2>1 DEF Owned, Shown
  <2>3. local[p].turn = b.turn
    BY <1>0 DEF SInv, Holds, UpdateSteps
  <2>4. CASE CreateTurns(b.turn + 1, b.round, <<p>>) /\ reply'.status <= 299
    <3>1. b.turn + 1 \in Nat \ {0}
      BY <1>0
    <3>2. /\ Inserted /\ UNCHANGED playerId
          /\ \A t \in turns : t.round = b.round => t.id # b.turn + 1
      BY <1>0, <2>4, <3>1, OneTurn
    <3>3. /\ new.id = b.turn + 1 /\ new.round = b.round
          /\ new.player = playerId[p] /\ new \in turns'
      BY <3>2
    <3> HIDE DEF new
    <3>4. b.turn + 1 \notin Numbers(b.round)
      BY <3>2 DEF Numbers
    <3>5. b.turn + 1 \in 1 .. b.turn + 1
      BY <1>0
    <3>6. Numbers(b.round) = 1 .. b.turn
      BY <2>2, <3>4, <3>5
    <3>7. NumbersNext(b.round) = 1 .. b.turn + 1
      <4>1. (1 .. b.turn) \cup {b.turn + 1} = 1 .. b.turn + 1
        BY <1>0
      <4>2. NumbersNext(b.round) = Numbers(b.round) \cup {b.turn + 1}
        BY <3>2, <3>3, NumbersMore
      <4> QED
        BY <3>6, <4>1, <4>2
    <3>8. StoredNext(p, b.game, b.round, b.turn)
      BY <1>0, <2>2, StoredKept
    <3>9. StoredNext(p, b.game, b.round, b.turn + 1)
      BY <3>2, <3>3, <3>8 DEF StoredNext
    <3>10. /\ browser'[p] = b /\ g'.player = p /\ g'.round = b.round
           /\ PagePath(p, b) \in csv'
      BY <1>1, <2>2
    <3> HIDE DEF b
    <3> QED
      BY <3>7, <3>8, <3>9, <3>10
         DEF Shown, Stored, StoredNext, PlayedBy, Numbers, NumbersNext
  <2>5. CASE ~(CreateTurns(b.turn + 1, b.round, <<p>>) /\ reply'.status <= 299)
    <3>1. turns' = turns
      <4>1. CASE CreateTurns(b.turn + 1, b.round, <<p>>)
        <5>1. b.turn + 1 \in Nat \ {0}
          BY <1>0
        <5>2. \/ reply'.status \in {400, 404, 409, 500} /\ turns' = turns
              \/ reply'.status = 201
          BY <1>0, <4>1, <5>1, OneTurn
        <5> QED
          BY <2>5, <4>1, <5>2
      <4>2. CASE UNCHANGED vars
        BY <4>2, Zenon DEF vars, tables
      <4> QED
        BY <2>2, <2>3, <4>1, <4>2, PostNextCases
    <3>2. NumbersNext(b.round) = Numbers(b.round)
      BY <3>1, NumbersKept
    <3>3. pc'[p] = "idle"
      <4>1. GivesUp(p)
        BY <2>2, <2>3, <2>5, PostNextCases
      <4> QED
        BY <1>0, <4>1 DEF GivesUp, SessionTypeOK
    <3>4. Shown(p)
      BY <2>1 DEF Owned
    <3> QED
      BY <1>1, <3>2, <3>3, <3>4, ShownFrame
  <2> QED
    BY <2>4, <2>5
<1> QED
  BY <1>2, <1>3, OwnedRest DEF HasGame, SaveSteps

\* The other steps of a save.
LEMMA SaveOwned ==
    ASSUME SInv, Grows, NEW p \in Players, Owned(p),
           PostGame(p) \/ PostRound(p) \/ StoreId(p) \/ StoreRound(p),
           \A q \in Players \ {p} : pc'[q] \in {"idle", "postNext"}
    PROVE  Owned(p)'
<1>0. /\ SessionTypeOK /\ IInv /\ Holds(p) /\ Request(p) /\ roundSeq \in Nat
      /\ browser[p].game \in Nat /\ g.player \in Accounts
  BY DEF SInv, SessionTypeOK, IInv, TypeOK
<1>1. /\ UNCHANGED <<browser, csv, turns, playerId>>
         \/ (PostGame(p) /\ UNCHANGED <<browser, csv, turns>>)
      /\ g'.player = g.player
  <2>1. CASE PostGame(p)
    <3>1. UNCHANGED <<g, browser, csv>>
      BY <2>1, PostGameCases DEF GivesUp
    <3>2. turns' = turns
      <4>1. CASE CreateGame(<<g.player>>)
        BY <1>0, <4>1, OneGame
      <4>2. CASE UNCHANGED vars
        BY <4>2, Zenon DEF vars, tables
      <4> QED
        BY <2>1, <4>1, <4>2, PostGameCases
    <3> QED
      BY <2>1, <3>1, <3>2
  <2>2. CASE PostRound(p)
    <3>1. UNCHANGED <<g, browser, csv>>
      BY <2>2, PostRoundCases DEF GivesUp
    <3>2. turns' = turns /\ playerId' = playerId
      <4>1. CASE CreateRound(local[p].game)
        BY <4>1 DEF CreateRound
      <4>2. CASE UNCHANGED vars
        BY <4>2, Zenon DEF vars, tables
      <4> QED
        BY <2>2, <4>1, <4>2, PostRoundCases
    <3> QED
      BY <3>1, <3>2
  <2>3. CASE StoreId(p) \/ StoreRound(p)
    <3>1. UNCHANGED <<vars, browser, csv>>
      BY <2>3, Zenon DEF StoreId, StoreRound
    <3>2. turns' = turns /\ playerId' = playerId
      BY <3>1, Zenon DEF vars, tables
    <3>3. g'.player = g.player
      BY <1>0, <2>3 DEF StoreId, StoreRound, SessionTypeOK
    <3> QED
      BY <3>1, <3>2, <3>3
  <2> QED
    BY <2>1, <2>2, <2>3
<1>2. g.player = p
  BY PostGameCases, PostRoundCases DEF Owned, SaveSteps, StoreId, StoreRound
<1>3. ASSUME OnScreen(p)', g' = g, pc'[p] \notin {"updateCsv", "nextCsv"}
      PROVE  Shown(p)'
  <2>1. OnScreen(p)
    BY <1>1, <1>3 DEF OnScreen
  <2>2. Shown(p)
    BY <2>1 DEF Owned
  <2>3. NumbersNext(browser[p].round) = Numbers(browser[p].round)
    BY <1>1, NumbersKept
  <2> QED
    BY <1>1, <1>3, <2>2, <2>3, ShownFrame
<1>4. ASSUME GivesUp(p) PROVE Owned(p)'
  <2>1. pc'[p] = "idle" /\ g' = g
    BY <1>0, <1>4 DEF GivesUp, SessionTypeOK
  <2> QED
    BY <1>3, <2>1, OwnedRest DEF HasGame, SaveSteps
<1>5. CASE PostGame(p)
  <2>1. CASE ~GivesUp(p)
    <3>1. /\ pc'[p] = "postRound" /\ local'[p].player = g.player /\ g' = g
      <4>1. /\ local' = [local EXCEPT ![p].player = g.player, ![p].game = reply'.id]
            /\ pc' = [pc EXCEPT ![p] = "postRound"] /\ g' = g
        BY <1>5, <2>1, PostGameCases
      <4> QED
        BY <1>0, <4>1 DEF SessionTypeOK
    <3> QED
      BY <1>2, <1>3, <3>1 DEF Owned, SaveSteps, HasGame, HasRound, HasTurn
  <2> QED
    BY <1>4, <2>1
<1>6. CASE PostRound(p)
  <2>1. CASE ~GivesUp(p)
    <3>1. /\ pc[p] = "postRound" /\ CreateRound(local[p].game)
          /\ local' = [local EXCEPT ![p].round = reply'.id]
          /\ pc' = [pc EXCEPT ![p] = "postTurn"] /\ g' = g
      BY <1>6, <2>1, PostRoundCases
    <3>2. /\ pc'[p] = "postTurn" /\ local'[p].player = local[p].player
          /\ local'[p].round = roundSeq + 1
      BY <1>0, <3>1 DEF SessionTypeOK, CreateRound, Reply
    <3>3. local[p].player = p
      BY <3>1 DEF Owned, HasGame
    <3>4. \A t \in turns' : t.round # roundSeq + 1
      <4>1. \A t \in turns : t.round \in 1 .. roundSeq
        BY <1>0 DEF IInv, TurnIntegrity, SequencesAhead
      <4> QED
        BY <1>0, <1>1, <4>1
    <3>5. (Numbers(local[p].round) = {})'
      BY <3>2, <3>4 DEF Numbers
    <3> QED
      BY <1>2, <1>3, <3>1, <3>2, <3>3, <3>5
         DEF Owned, SaveSteps, HasGame, HasRound, HasTurn
  <2> QED
    BY <1>4, <2>1
<1>7. CASE StoreId(p) \/ StoreRound(p)
  <2>1. /\ pc[p] \in {"storeId", "storeRound"} /\ UNCHANGED <<vars, local, browser>>
        /\ pc'[p] \in {"storeRound", "saveCsv"}
        /\ g'.id = IF pc[p] = "storeId" THEN local[p].game ELSE g.id
        /\ pc'[p] = "saveCsv" => pc[p] = "storeRound" /\ g'.round = local[p].round
    BY <1>0, <1>7 DEF StoreId, StoreRound, Goto, SessionTypeOK
  <2>2. /\ local[p].player = p /\ Stored(p, local[p].game, local[p].round, 1)
        /\ Numbers(local[p].round) = {1}
        /\ pc[p] = "storeRound" => g.id = local[p].game
    BY <2>1 DEF Owned, HasGame, HasRound, HasTurn
  <2>3. g'.id = local[p].game
    BY <2>1, <2>2
  <2>4. browser[p].game # local[p].game
    BY <1>0, <2>1 DEF Holds, HasGame
  <2>5. ~OnScreen(p)'
    BY <2>1, <2>3, <2>4 DEF OnScreen
  <2>6. rounds' = rounds /\ turns' = turns /\ playerId' = playerId
    BY <2>1, Zenon DEF vars, tables
  <2>7. /\ Stored(p, local[p].game, local[p].round, 1)'
        /\ (Numbers(local[p].round) = {1})'
    BY <2>1, <2>2, <2>6 DEF Stored, PlayedBy, Numbers
  <2> QED
    BY <1>1, <1>2, <2>1, <2>2, <2>3, <2>5, <2>7
       DEF Owned, SaveSteps, HasGame, HasRound, HasTurn
<1> QED
  BY <1>5, <1>6, <1>7

\* The CSV files.
LEMMA CsvOwned ==
    ASSUME SInv, Grows, NEW p \in Players, Owned(p),
           SaveCsv(p) \/ UpdateCsv(p) \/ NextCsv(p),
           \A q \in Players \ {p} : pc'[q] \in {"idle", "postNext"}
    PROVE  Owned(p)'
<1> DEFINE b == browser[p]
<1>0. /\ SessionTypeOK /\ IInv /\ Holds(p) /\ Request(p)
      /\ b \in [game : Nat, round : Nat, turn : Nat]
      /\ local[p].turn \in Nat
  BY DEF SInv, SessionTypeOK
<1>1. /\ UNCHANGED <<vars, g>> /\ csv \subseteq csv'
      /\ pc'[p] \in {"idle", "nextCsv"}
      /\ pc'[p] = "nextCsv" => pc[p] = "updateCsv"
  BY <1>0, SaveCsvCases, UpdateCsvCases, NextCsvCases DEF GivesUp, SessionTypeOK
<1>2. rounds' = rounds /\ turns' = turns /\ playerId' = playerId
  BY <1>1, Zenon DEF vars, tables
<1>3. ASSUME browser'[p] = b, OnScreen(p)' PROVE Shown(p)'
  <2>1. OnScreen(p)
    BY <1>1, <1>3 DEF OnScreen
  <2>2. Shown(p)
    BY <2>1 DEF Owned
  <2>3. NumbersNext(browser[p].round) = Numbers(browser[p].round)
    BY <1>2, NumbersKept
  <2> QED
    BY <1>1, <1>3, <2>2, <2>3, ShownFrame
<1>4. CASE browser'[p] = b
  BY <1>1, <1>3, <1>4, OwnedRest DEF HasGame, SaveSteps
<1>5. CASE SaveCsv(p) /\ browser'[p] # b
  <2>1. /\ pc[p] = "saveCsv" /\ csv' = csv \cup {CsvPath(1)}
        /\ browser'[p] = [game |-> local[p].game, round |-> local[p].round, turn |-> 1]
    BY <1>0, <1>5, SaveCsvCases DEF GivesUp, SessionTypeOK
  <2>2. /\ g.player = p /\ g.id = local[p].game /\ g.round = local[p].round
        /\ Stored(p, local[p].game, local[p].round, 1)
        /\ Numbers(local[p].round) = {1}
    BY <2>1 DEF Owned, HasGame, HasRound, HasTurn, SaveSteps
  <2>3. /\ browser'[p].game = local[p].game /\ browser'[p].round = local[p].round
        /\ browser'[p].turn = 1
    BY <2>1
  <2>4. PagePath(p, browser[p])' \in csv'
    BY <2>1, <2>2, <2>3 DEF PagePath, CsvPath
  <2>5. Numbers(browser[p].round)' = 1 .. 1
    BY <1>2, <2>2, <2>3 DEF Numbers
  <2>6. Stored(p, browser[p].game, browser[p].round, browser[p].turn)'
    BY <1>2, <2>2, <2>3 DEF Stored, PlayedBy
  <2>7. pc'[p] = "idle"
    BY <1>1, <2>1
  <2>8. Shown(p)'
    BY <1>1, <2>2, <2>3, <2>4, <2>5, <2>6, <2>7 DEF Shown
  <2> QED
    BY <2>7, <2>8, OwnedRest DEF HasGame, SaveSteps
<1>6. CASE NextCsv(p) /\ browser'[p] # b
  <2>1. /\ pc[p] = "nextCsv" /\ csv' = csv \cup {CsvPath(local[p].turn + 1)}
        /\ browser'[p] = [b EXCEPT !.turn = local[p].turn + 1]
    BY SMTT(30), <1>0, <1>6, NextCsvCases DEF GivesUp, SessionTypeOK
  <2>2. local[p].turn = b.turn
    BY <1>0, <2>1 DEF Holds, UpdateSteps
  <2>3. /\ browser'[p].game = b.game /\ browser'[p].round = b.round
        /\ browser'[p].turn = b.turn + 1
    BY <1>0, <2>1, <2>2
  <2>4. pc'[p] = "idle"
    BY <1>1, <2>1
  <2>5. ASSUME OnScreen(p)' PROVE Shown(p)'
    <3>1. OnScreen(p) /\ g.id = b.game
      BY <1>1, <2>3, <2>5 DEF OnScreen
    <3>2. /\ g.player = p /\ g.round = b.round
          /\ Stored(p, b.game, b.round, b.turn + 1)
          /\ Numbers(b.round) = 1 .. b.turn + 1
      BY <2>1, <3>1 DEF Owned, Shown
    <3> HIDE DEF b
    <3>3. PagePath(p, browser[p])' \in csv'
      BY <2>1, <2>2, <2>3, <3>1, <3>2 DEF PagePath, CsvPath
    <3>4. Numbers(browser[p].round)' = 1 .. browser'[p].turn
      BY <1>2, <2>3, <3>2 DEF Numbers
    <3>5. Stored(p, browser[p].game, browser[p].round, browser[p].turn)'
      BY <1>2, <2>3, <3>2 DEF Stored, PlayedBy
    <3> QED
      BY <1>1, <2>3, <2>4, <3>2, <3>3, <3>4, <3>5 DEF Shown
  <2> QED
    BY <2>4, <2>5, OwnedRest DEF HasGame, SaveSteps
<1>7. CASE UpdateCsv(p)
  <2>1. browser'[p] = b
    BY <1>7, UpdateCsvCases DEF GivesUp
  <2> QED
    BY <1>4, <2>1
<1> QED
  BY <1>4, <1>5, <1>6, <1>7

LEMMA StepOwned ==
    ASSUME SInv, Grows, SessionNext, NEW p \in Players, owner' = p
    PROVE  Owned(p)'
<1>1. CASE ~(\E q \in Players : Handle(q))
  BY <1>1, StepOwnedOthers
<1>2. ASSUME NEW q \in Players, Handle(q) PROVE Owned(p)'
  <2>1. owner = q /\ q = p
    BY <1>2, SessionAssumption DEF Handle
  <2>2. Owned(p) /\ Handle(p)
    BY <1>2, <2>1 DEF SInv
  <2>3. \A r \in Players \ {p} : pc'[r] \in {"idle", "postNext"}
    <3>1. \A r \in Players \ {p} : pc'[r] = pc[r]
      BY <2>2, OthersKept
    <3> QED
      BY <2>2, <3>1 DEF Owned
  <2>4. CASE PostGame(p) \/ PostRound(p) \/ StoreId(p) \/ StoreRound(p)
    BY <2>2, <2>3, <2>4, SaveOwned
  <2>5. CASE PostTurn(p)
    BY <2>2, <2>3, <2>5, PostTurnOwned
  <2>6. CASE PostNext(p)
    BY <2>2, <2>3, <2>6, PostNextOwned
  <2>7. CASE SaveCsv(p) \/ UpdateCsv(p) \/ NextCsv(p)
    BY <2>2, <2>3, <2>7, CsvOwned
  <2> QED
    BY <2>2, <2>4, <2>5, <2>6, <2>7 DEF Handle
<1> QED
  BY <1>1, <1>2

-----------------------------------------------------------------------------
(* The theorems.                                                           *)

LEMMA InitSInv == SessionInit => SInv
<1> SUFFICES ASSUME SessionInit PROVE SInv
  OBVIOUS
<1>1. IInv
  BY InitIInv DEF SessionInit
<1>2. SessionTypeOK
  BY SessionAssumption DEF SessionInit, SessionTypeOK, FreshGame
<1>3. g.round \in 0 .. MaxRounds
  BY BoundsAssumption DEF SessionInit, FreshGame
<1>4. \A p \in Players : Holds(p) /\ Request(p)
  BY BoundsAssumption
     DEF SessionInit, Init, Holds, Request, HasGame, HasRound, UpdateSteps
<1>5. SavesAreCoherent
  BY DEF SessionInit, Init, SavesAreCoherent
<1>6. \A p \in Players : owner # p
  BY SessionAssumption DEF SessionInit
<1> QED
  BY <1>1, <1>2, <1>3, <1>4, <1>5, <1>6 DEF SInv

LEMMA StepSInv == SInv /\ [SessionNext]_allVars => SInv'
<1> SUFFICES ASSUME SInv, [SessionNext]_allVars PROVE SInv'
  OBVIOUS
<1>1. CASE SessionNext
  <2>1. RepoStep /\ IInv
    BY <1>1, CallsAreTyped DEF SInv
  <2>2. Grows /\ [Next]_vars
    BY <2>1, CallsOnlyAdd, CallsAreSteps
  <2>3. IInv'
    BY <2>1, <2>2, StepIInv
  <2>4. SessionTypeOK' /\ (g.round \in 0 .. MaxRounds)'
    BY <1>1, <2>3, StepType, StepRoundOfG
  <2>5. \A p \in Players : Holds(p)' /\ Request(p)'
    BY <1>1, <2>2, <2>3, StepRequest
  <2>6. SavesAreCoherent'
    BY <1>1, <2>2, StepSaves
  <2>7. \A p \in Players : owner' = p => Owned(p)'
    BY <1>1, <2>2, StepOwned
  <2> QED
    BY <2>3, <2>4, <2>5, <2>6, <2>7 DEF SInv
<1>2. CASE UNCHANGED allVars
  <2>1. UNCHANGED vars /\ UNCHANGED session
    BY <1>2, Zenon DEF allVars
  <2>2. IInv'
    BY <2>1, StepIInv DEF SInv
  <2>3. /\ g' = g /\ pc' = pc /\ local' = local /\ browser' = browser /\ csv' = csv
        /\ leaked' = leaked /\ restarts' = restarts /\ owner' = owner
    BY <2>1, Zenon DEF session
  <2>4. /\ games' = games /\ gameSeq' = gameSeq /\ playerGames' = playerGames
        /\ playerId' = playerId /\ rounds' = rounds /\ turns' = turns
    BY <2>1, Zenon DEF vars, tables, sequences
  <2>5. SessionTypeOK' /\ SavesAreCoherent' /\ (g.round \in 0 .. MaxRounds)'
    BY <2>3, <2>4 DEF SInv, SessionTypeOK, SavesAreCoherent, Keys, PlayedBy
  <2>6. \A p \in Players : Holds(p)' /\ Request(p)'
    BY <2>3, <2>4 DEF SInv, Holds, Request, Keys
  <2>7. ASSUME NEW p \in Players, owner' = p PROVE Owned(p)'
    <3>1. Owned(p)
      BY <2>3, <2>7 DEF SInv
    <3> QED
      BY ZenonT(60), <2>3, <2>4, <3>1 DEF Owned, OnScreen, Shown, Stored, PlayedBy, Numbers,
             PagePath
  <2> QED
    BY <2>2, <2>5, <2>6, <2>7 DEF SInv
<1> QED
  BY <1>1, <1>2

\* The invariant of the composition holds in every state the play reaches.
THEOREM SessionInvariance == SessionSpec => []SInv
BY InitSInv, StepSInv, PTL DEF SessionSpec

\* The play of T5 uses the repository of T4 only as its handlers allow: every step is
\* a step of the repository or changes nothing there, so that whatever is proved of
\* the repository holds while games are played.
THEOREM ImplementsRepository == SessionSpec => Spec
<1>1. SessionInit => Init
  BY DEF SessionInit
<1>2. SInv /\ [SessionNext]_allVars => [Next]_vars
  <2> SUFFICES ASSUME SInv, [SessionNext]_allVars PROVE [Next]_vars
    OBVIOUS
  <2>1. CASE SessionNext
    BY <2>1, CallsAreTyped, CallsAreSteps
  <2>2. CASE UNCHANGED allVars
    BY <2>2, Zenon DEF allVars
  <2> QED
    BY <2>1, <2>2
<1> QED
  BY <1>1, <1>2, SessionInvariance, PTL DEF SessionSpec, Spec

\* The objects of the controller, the requests, the pages and the files keep their types.
THEOREM SessionTypeCorrectness == SessionSpec => []SessionTypeOK
<1>1. SInv => SessionTypeOK
  BY DEF SInv
<1> QED
  BY <1>1, SessionInvariance, PTL

\* The three inserts of a save belong together, for any number of overlapping requests
\* and any failure.
THEOREM SavesStayCoherent == SessionSpec => []SavesAreCoherent
<1>1. SInv => SavesAreCoherent
  BY DEF SInv
<1> QED
  BY <1>1, SessionInvariance, PTL

\* What the page of an undisturbed player shows is stored in T4 and in the file system.
THEOREM PagesAreStored == SessionSpec => []SessionCoherent
<1>1. SInv => SessionCoherent
  BY DEF SInv, SessionCoherent, InStep, Owned, Shown
<1> QED
  BY <1>1, SessionInvariance, PTL

\* The turns of an undisturbed player have no gap, and T4 is at most one ahead.
THEOREM NoGapInTurns == SessionSpec => []AtMostOneAhead
<1>1. ASSUME SInv, NEW p \in Players, InStep(p)
      PROVE  Numbers(browser[p].round) \in {1 .. browser[p].turn, 1 .. browser[p].turn + 1}
  BY <1>1 DEF SInv, InStep, Owned, Shown
<1>2. SInv => AtMostOneAhead
  BY <1>1 DEF AtMostOneAhead, Numbers
<1> QED
  BY <1>2, SessionInvariance, PTL

-----------------------------------------------------------------------------
(* How many steps a request has left: what its end needs besides fairness   *)
(* and a connection.                                                       *)

StepsLeft(p) ==
    CASE pc[p] = "postGame"   -> 6
      [] pc[p] = "postRound"  -> 5
      [] pc[p] = "postTurn"   -> 4
      [] pc[p] = "storeId"    -> 3
      [] pc[p] = "storeRound" -> 2
      [] pc[p] = "saveCsv"    -> 1
      [] pc[p] = "postNext"   -> 3
      [] pc[p] = "updateCsv"  -> 2
      [] pc[p] = "nextCsv"    -> 1
      [] OTHER                -> 0

\* A step of a request is one of those it had left.
LEMMA StepIsSpent ==
    ASSUME SInv, NEW p \in Players, Handle(p)
    PROVE  pc[p] # "idle" /\ StepsLeft(p)' < StepsLeft(p)
<1>0. SessionTypeOK
  BY DEF SInv
<1>1. \A s \in Steps : [pc EXCEPT ![p] = s][p] = s
  BY <1>0 DEF SessionTypeOK
<1>2. {"idle", "postGame", "postRound", "postTurn", "storeId", "storeRound", "saveCsv",
       "updateCsv", "nextCsv", "postNext"} = Steps
  BY DEF Steps, SaveSteps, UpdateSteps
<1>3. GivesUp(p) => pc'[p] = "idle"
  BY <1>1, <1>2 DEF GivesUp
<1>4. CASE PostGame(p)
  <2>1. pc[p] = "postGame" /\ pc'[p] \in {"idle", "postRound"}
    BY <1>1, <1>2, <1>3, <1>4, PostGameCases
  <2> QED
    BY <2>1 DEF StepsLeft
<1>5. CASE PostRound(p)
  <2>1. pc[p] = "postRound" /\ pc'[p] \in {"idle", "postTurn"}
    BY <1>1, <1>2, <1>3, <1>5, PostRoundCases
  <2> QED
    BY <2>1 DEF StepsLeft
<1>6. CASE PostTurn(p)
  <2>1. pc[p] = "postTurn" /\ pc'[p] \in {"idle", "storeId"}
    BY <1>1, <1>2, <1>3, <1>6, PostTurnCases
  <2> QED
    BY <2>1 DEF StepsLeft
<1>7. CASE StoreId(p) \/ StoreRound(p)
  <2>1. \/ pc[p] = "storeId" /\ pc'[p] = "storeRound"
        \/ pc[p] = "storeRound" /\ pc'[p] = "saveCsv"
    BY <1>1, <1>2, <1>7 DEF StoreId, StoreRound, Goto
  <2> QED
    BY <2>1 DEF StepsLeft
<1>8. CASE SaveCsv(p)
  <2>1. pc[p] = "saveCsv" /\ pc'[p] = "idle"
    BY <1>1, <1>2, <1>3, <1>8, SaveCsvCases
  <2> QED
    BY <2>1 DEF StepsLeft
<1>9. CASE PostNext(p)
  <2>1. pc[p] = "postNext" /\ pc'[p] \in {"idle", "updateCsv"}
    BY <1>1, <1>2, <1>3, <1>9, PostNextCases
  <2> QED
    BY <2>1 DEF StepsLeft
<1>10. CASE UpdateCsv(p)
  <2>1. pc[p] = "updateCsv" /\ pc'[p] \in {"idle", "nextCsv"}
    BY <1>1, <1>2, <1>3, <1>10, UpdateCsvCases
  <2> QED
    BY <2>1 DEF StepsLeft
<1>11. CASE NextCsv(p)
  <2>1. pc[p] = "nextCsv" /\ pc'[p] = "idle"
    BY <1>1, <1>2, <1>3, <1>11, NextCsvCases
  <2> QED
    BY <2>1 DEF StepsLeft
<1> QED
  BY <1>4, <1>5, <1>6, <1>7, <1>8, <1>9, <1>10, <1>11 DEF Handle

\* Every step of a handler of T5 is one of at most six it has left, and no other player
\* and no restart ever gives it more: a request that is never answered waits for a
\* connection of the pool.
THEOREM StepsAreNumbered ==
    SessionSpec => [][\A p \in Players :
                         pc[p] # "idle" =>
                             /\ StepsLeft(p) \in 1 .. 6
                             /\ StepsLeft(p)' <= StepsLeft(p)
                             /\ Handle(p) => StepsLeft(p)' < StepsLeft(p)]_allVars
<1> DEFINE A == \A p \in Players :
                   pc[p] # "idle" =>
                       /\ StepsLeft(p) \in 1 .. 6
                       /\ StepsLeft(p)' <= StepsLeft(p)
                       /\ Handle(p) => StepsLeft(p)' < StepsLeft(p)
<1>1. ASSUME SInv, [SessionNext]_allVars
      PROVE  A
  <2> SUFFICES ASSUME NEW p \in Players, pc[p] # "idle"
               PROVE  /\ StepsLeft(p) \in 1 .. 6
                      /\ StepsLeft(p)' <= StepsLeft(p)
                      /\ Handle(p) => StepsLeft(p)' < StepsLeft(p)
    OBVIOUS
  <2>1. StepsLeft(p) \in 1 .. 6
    <3>1. pc[p] \in Steps
      BY <1>1 DEF SInv, SessionTypeOK, Steps
    <3> QED
      BY <3>1 DEF StepsLeft, Steps, SaveSteps, UpdateSteps
  <2>2. StepsLeft(p)' \in Nat
    BY DEF StepsLeft
  <2>3. Handle(p) => StepsLeft(p)' < StepsLeft(p)
    BY <1>1, StepIsSpent
  <2>4. pc'[p] = pc[p] => StepsLeft(p)' = StepsLeft(p)
    BY DEF StepsLeft
  <2>5. pc'[p] = "idle" => StepsLeft(p)' = 0
    BY DEF StepsLeft
  <2>6. ASSUME NEW q \in Players \ {p},
               SaveData(q) \/ UpdateData(q) \/ Win(q) \/ Handle(q)
        PROVE  pc'[p] = pc[p]
    BY <1>1, <2>6, OthersKept
  <2>7. ~SaveData(p) /\ ~UpdateData(p) /\ ~Win(p)
    BY DEF SaveData, UpdateData, Win
  <2>8. Restart => pc'[p] = "idle"
    BY DEF Restart
  <2>9. Handle(p) \/ pc'[p] = pc[p] \/ pc'[p] = "idle"
    BY <1>1, <2>6, <2>7, <2>8, Zenon DEF SessionNext, allVars, session
  <2> QED
    BY <2>1, <2>2, <2>3, <2>4, <2>5, <2>9
<1>2. SInv /\ [SessionNext]_allVars => [A]_allVars
  BY <1>1
<1>3. []SInv /\ [][SessionNext]_allVars => [][A]_allVars
  BY <1>2, PTL
<1> QED
  BY <1>3, SessionInvariance, PTL DEF SessionSpec

-----------------------------------------------------------------------------
(* The choice of a class.                                                  *)

\* The choices add nothing to the tables, the pages or the requests of the play.
LEMMA ChoiceStepsAreSessionSteps == [ChoiceNext]_choiceVars => [SessionNext]_allVars
<1> SUFFICES ASSUME [ChoiceNext]_choiceVars, ~UNCHANGED allVars PROVE SessionNext
  OBVIOUS
<1>1. ASSUME NEW p \in Players, Choose(p) \/ GoBack(p) \/ Save(p) \/ HandleChoice(p) \/ Play(p)
      PROVE  SessionNext
  BY <1>1, Zenon DEF Choose, GoBack, Save, HandleChoice, Play, SessionNext
<1>2. CASE RestartChoice
  BY <1>2, Zenon DEF RestartChoice, SessionNext
<1>3. ~UNCHANGED choiceVars
  BY Zenon DEF choiceVars
<1> QED
  BY <1>1, <1>2, <1>3, Zenon DEF ChoiceNext

\* Everything proved of the play holds of the play with the choices.
THEOREM ChoiceRefinesSession == ChoiceSpec => SessionSpec
<1>1. ChoiceInit => SessionInit
  BY DEF ChoiceInit
<1> QED
  BY <1>1, ChoiceStepsAreSessionSteps, PTL DEF ChoiceSpec, SessionSpec

ChoiceTypes ==
    /\ choice \in Players \cup {NoPlayer}
    /\ tested \in [RoundIds -> Players \cup {NoPlayer}]
    /\ report \subseteq Players /\ overtaken \subseteq Players
    /\ roundSeq \in 0 .. MaxRounds

\* From the choice to the editor: a choice that was not overtaken is still in g, and
\* the round of the save is stored under it.
Kept(p) ==
    /\ p \in report \ overtaken => choice = p
    /\ pc[p] \in SaveSteps => p \in report
    /\ pc[p] \in HasRound =>
           /\ local[p].round \in 1 .. roundSeq
           /\ p \notin overtaken => tested[local[p].round] = p

ChoiceInv == ChoiceTypes /\ \A p \in Players : Kept(p)

\* What one step of a request of p does to its state, its page and the rounds.
RequestMoves(p) ==
    \/ /\ pc'[p] = "idle" /\ browser'[p] = browser[p]
    \/ /\ pc[p] \in SaveSteps /\ pc'[p] \in SaveSteps /\ browser'[p] = browser[p]
       /\ pc'[p] \in HasRound =>
              \/ pc[p] \in HasRound /\ local'[p] = local[p]
              \/ roundSeq' = roundSeq + 1 /\ local'[p].round = roundSeq + 1
    \/ /\ pc[p] = "saveCsv" /\ pc'[p] = "idle" /\ browser'[p].round = local[p].round
    \/ /\ pc[p] \in UpdateSteps /\ pc'[p] \in UpdateSteps \cup {"idle"}
       /\ browser'[p].game = browser[p].game /\ browser'[p].round = browser[p].round

\* Only the second insert of a save draws a round.
LEMMA HandleMoves ==
    ASSUME SInv, ChoiceTypes, NEW p \in Players, Handle(p)
    PROVE  /\ RequestMoves(p)
           /\ \/ roundSeq' = roundSeq
              \/ roundSeq' = roundSeq + 1 /\ roundSeq < MaxRounds
           /\ browser' # browser => pc'[p] = "idle"
<1>0. SessionTypeOK /\ IInv /\ roundSeq \in Nat /\ g.player \in Accounts
  BY DEF SInv, SessionTypeOK, IInv, TypeOK
<1>1. \A s \in Steps : [pc EXCEPT ![p] = s][p] = s
  BY <1>0 DEF SessionTypeOK
<1>2. {"idle", "postGame", "postRound", "postTurn", "storeId", "storeRound", "saveCsv",
       "updateCsv", "nextCsv", "postNext"} = Steps
  BY DEF Steps, SaveSteps, UpdateSteps
<1>3. ASSUME GivesUp(p)
      PROVE  pc'[p] = "idle" /\ RequestMoves(p) /\ browser' = browser
  <2>1. pc'[p] = "idle" /\ browser' = browser
    BY <1>1, <1>2, <1>3 DEF GivesUp
  <2> QED
    BY <2>1 DEF RequestMoves
<1>4. UNCHANGED vars => roundSeq' = roundSeq
  BY DEF vars, sequences
<1>5. ASSUME NEW id, NEW round, NEW a, CreateTurns(id, round, <<a>>)
      PROVE  roundSeq' = roundSeq
  BY <1>5, Zenon DEF CreateTurns, sequences
<1>6. CASE PostGame(p)
  <2>1. roundSeq' = roundSeq
    BY <1>0, <1>4, <1>6, PostGameCases, OneGame
  <2>2. CASE ~GivesUp(p)
    <3>1. pc[p] = "postGame" /\ pc'[p] = "postRound" /\ browser' = browser
      BY <1>1, <1>2, <1>6, <2>2, PostGameCases
    <3> QED
      BY <2>1, <3>1 DEF RequestMoves, SaveSteps, HasRound, HasGame
  <2> QED
    BY <1>3, <2>1, <2>2
<1>7. CASE PostRound(p)
  <2>1. CreateRound(local[p].game) => /\ roundSeq' = roundSeq + 1 /\ roundSeq < MaxRounds
                                      /\ reply'.id = roundSeq + 1
    BY DEF CreateRound, Reply
  <2>2. CASE ~GivesUp(p)
    <3>1. /\ pc[p] = "postRound" /\ pc'[p] = "postTurn" /\ browser' = browser
          /\ CreateRound(local[p].game)
          /\ local' = [local EXCEPT ![p].round = reply'.id]
      BY <1>1, <1>2, <1>7, <2>2, PostRoundCases
    <3>2. local'[p].round = roundSeq + 1
      BY <1>0, <2>1, <3>1 DEF SessionTypeOK
    <3> QED
      BY <2>1, <3>1, <3>2 DEF RequestMoves, SaveSteps, HasRound, HasGame
  <2> QED
    BY <1>3, <1>4, <1>7, <2>1, <2>2, PostRoundCases
<1>8. CASE PostTurn(p)
  <2>1. roundSeq' = roundSeq
    BY <1>4, <1>5, <1>8, PostTurnCases
  <2>2. CASE ~GivesUp(p)
    <3>1. pc[p] = "postTurn" /\ pc'[p] = "storeId" /\ browser' = browser /\ local' = local
      BY <1>1, <1>2, <1>8, <2>2, PostTurnCases
    <3> QED
      BY <2>1, <3>1 DEF RequestMoves, SaveSteps, HasRound, HasGame
  <2> QED
    BY <1>3, <2>1, <2>2
<1>9. CASE StoreId(p) \/ StoreRound(p)
  <2>1. /\ pc[p] \in {"storeId", "storeRound"} /\ pc'[p] \in {"storeRound", "saveCsv"}
        /\ browser' = browser /\ local' = local /\ roundSeq' = roundSeq
    BY <1>1, <1>2, <1>4, <1>9 DEF StoreId, StoreRound, Goto
  <2> QED
    BY <2>1 DEF RequestMoves, SaveSteps, HasRound, HasGame
<1>10. CASE SaveCsv(p)
  <2>1. roundSeq' = roundSeq
    BY <1>4, <1>10, SaveCsvCases
  <2>2. CASE ~GivesUp(p)
    <3>1. /\ pc[p] = "saveCsv" /\ pc'[p] = "idle"
          /\ browser' = [browser EXCEPT ![p] =
                            [game |-> local[p].game, round |-> local[p].round, turn |-> 1]]
      BY <1>1, <1>2, <1>10, <2>2, SaveCsvCases
    <3>2. browser'[p].round = local[p].round
      BY <1>0, <3>1 DEF SessionTypeOK
    <3> QED
      BY <2>1, <3>1, <3>2 DEF RequestMoves
  <2> QED
    BY <1>3, <2>1, <2>2
<1>11. CASE PostNext(p)
  <2>1. roundSeq' = roundSeq
    BY <1>4, <1>5, <1>11, PostNextCases
  <2>2. CASE ~GivesUp(p)
    <3>1. pc[p] = "postNext" /\ pc'[p] = "updateCsv" /\ browser' = browser
      BY <1>1, <1>2, <1>11, <2>2, PostNextCases
    <3> QED
      BY <2>1, <3>1 DEF RequestMoves, UpdateSteps
  <2> QED
    BY <1>3, <2>1, <2>2
<1>12. CASE UpdateCsv(p)
  <2>1. roundSeq' = roundSeq
    BY <1>4, <1>12, UpdateCsvCases
  <2>2. CASE ~GivesUp(p)
    <3>1. pc[p] = "updateCsv" /\ pc'[p] = "nextCsv" /\ browser' = browser
      BY <1>1, <1>2, <1>12, <2>2, UpdateCsvCases
    <3> QED
      BY <2>1, <3>1 DEF RequestMoves, UpdateSteps
  <2> QED
    BY <1>3, <2>1, <2>2
<1>13. CASE NextCsv(p)
  <2>1. roundSeq' = roundSeq
    BY <1>4, <1>13, NextCsvCases
  <2>2. CASE ~GivesUp(p)
    <3>1. /\ pc[p] = "nextCsv" /\ pc'[p] = "idle"
          /\ browser' = [browser EXCEPT ![p] =
                            [browser[p] EXCEPT !.turn = local[p].turn + 1]]
      BY <1>1, <1>2, <1>13, <2>2, NextCsvCases
    <3>2. browser'[p].game = browser[p].game /\ browser'[p].round = browser[p].round
      BY <1>0, <3>1 DEF SessionTypeOK
    <3> QED
      BY <2>1, <3>1, <3>2 DEF RequestMoves, UpdateSteps
  <2> QED
    BY <1>3, <2>1, <2>2
<1> QED
  BY <1>6, <1>7, <1>8, <1>9, <1>10, <1>11, <1>12, <1>13 DEF Handle

\* A step of one player that draws no round, and leaves request and page of another
\* alone, keeps what holds for the other.
LEMMA KeptFrame ==
    ASSUME NEW q \in Players, Kept(q), pc'[q] = pc[q] \/ pc'[q] = "idle",
           local'[q] = local[q], browser'[q] = browser[q],
           UNCHANGED <<roundSeq, tested, report, choice, overtaken>>
    PROVE  Kept(q)'
BY DEF Kept, SaveSteps, HasRound, HasGame

LEMMA StepChoose ==
    ASSUME ChoiceInv, NEW p \in Players, Choose(p)
    PROVE  ChoiceInv'
<1>1. /\ pc[p] = "idle" /\ p \notin report /\ choice' = p /\ tested' = tested
      /\ pc' = pc /\ local' = local /\ browser' = browser /\ roundSeq' = roundSeq
      /\ report' \in {report, report \cup {p}} /\ overtaken' = report
  BY DEF Choose, receiveGameVariables, allVars, vars, session, sequences
<1>2. ChoiceTypes'
  BY <1>1 DEF ChoiceInv, ChoiceTypes
<1>3. ASSUME NEW q \in Players PROVE Kept(q)'
  BY <1>1 DEF ChoiceInv, Kept, SaveSteps, HasRound, HasGame
<1> QED
  BY <1>2, <1>3 DEF ChoiceInv

LEMMA StepGoBack ==
    ASSUME ChoiceInv, NEW p \in Players, GoBack(p)
    PROVE  ChoiceInv'
<1>1. /\ pc[p] = "idle" /\ choice' = choice /\ tested' = tested
      /\ pc' = pc /\ local' = local /\ browser' = browser /\ roundSeq' = roundSeq
      /\ report' = report \ {p} /\ overtaken' = overtaken \ {p}
  BY DEF GoBack, Leave, allVars, vars, session, sequences
<1>2. ChoiceTypes'
  BY <1>1 DEF ChoiceInv, ChoiceTypes
<1>3. ASSUME NEW q \in Players PROVE Kept(q)'
  BY <1>1 DEF ChoiceInv, Kept, SaveSteps, HasRound, HasGame
<1> QED
  BY <1>2, <1>3 DEF ChoiceInv

LEMMA StepSaveOrPlay ==
    ASSUME SInv, ChoiceInv, NEW p \in Players, Save(p) \/ Play(p)
    PROVE  ChoiceInv'
<1>1. UNCHANGED <<tested, report, choice, overtaken, roundSeq>>
  <2>1. UNCHANGED choices /\ UNCHANGED vars
    BY Zenon DEF Save, Play, SaveData, UpdateData, Win
  <2> QED
    BY <2>1 DEF choices, vars, sequences
<1>2. SessionTypeOK /\ Kept(p)
  BY DEF SInv, ChoiceInv
<1>3. Kept(p)'
  <2>1. CASE Save(p)
    <3>1. p \in report /\ pc'[p] = "postGame" /\ browser' = browser
      BY <1>2, <2>1 DEF Save, SaveData, Goto, SessionTypeOK
    <3> QED
      BY <1>1, <1>2, <3>1 DEF Kept, SaveSteps, HasRound, HasGame
  <2>2. CASE Play(p) /\ UpdateData(p)
    <3>1. pc'[p] = "postNext" /\ browser' = browser
      BY <1>2, <2>2 DEF UpdateData, Goto, SessionTypeOK
    <3> QED
      BY <1>1, <1>2, <3>1 DEF Kept, SaveSteps, HasRound, HasGame
  <2>3. CASE Play(p) /\ Win(p)
    <3>1. pc'[p] = pc[p] /\ local' = local
      BY <2>3 DEF Win
    <3> QED
      BY <1>1, <1>2, <3>1 DEF Kept
  <2> QED
    BY <2>1, <2>2, <2>3 DEF Play
<1>4. ASSUME NEW q \in Players \ {p} PROVE Kept(q)'
  <2>1. pc'[q] = pc[q] /\ local'[q] = local[q] /\ browser'[q] = browser[q]
    BY OthersKept DEF Save, Play
  <2> QED
    BY <1>1, <2>1, KeptFrame DEF ChoiceInv
<1>5. ChoiceTypes'
  BY <1>1 DEF ChoiceInv, ChoiceTypes
<1> QED
  BY <1>3, <1>4, <1>5 DEF ChoiceInv

LEMMA StepHandleChoice ==
    ASSUME SInv, ChoiceInv, NEW p \in Players, HandleChoice(p)
    PROVE  ChoiceInv'
<1>1. /\ Handle(p) /\ choice' = choice
      /\ tested' = [r \in RoundIds |->
                       IF r \in roundSeq + 1 .. roundSeq' THEN choice ELSE tested[r]]
      /\ \/ /\ pc[p] = "saveCsv" /\ browser' # browser
            /\ report' = report \ {p} /\ overtaken' = overtaken \ {p}
         \/ report' = report /\ overtaken' = overtaken
  BY Zenon DEF HandleChoice, Leave
<1>2. /\ ChoiceTypes /\ Kept(p)
      /\ RequestMoves(p) /\ (browser' # browser => pc'[p] = "idle")
      /\ \/ roundSeq' = roundSeq
         \/ roundSeq' = roundSeq + 1 /\ roundSeq < MaxRounds
  BY <1>1, HandleMoves DEF ChoiceInv
<1>3. roundSeq' \in 0 .. MaxRounds /\ roundSeq \in Nat /\ roundSeq <= roundSeq'
         /\ RoundIds = 1 .. MaxRounds
  BY <1>2, BoundsAssumption DEF ChoiceTypes, RoundIds
<1>4. \A r \in 1 .. roundSeq : r \in 1 .. roundSeq' /\ tested'[r] = tested[r]
  <2>1. roundSeq \in 0 .. MaxRounds
    BY <1>2 DEF ChoiceTypes
  <2> SUFFICES ASSUME NEW r \in 1 .. roundSeq
               PROVE  r \in 1 .. roundSeq' /\ tested'[r] = tested[r]
    OBVIOUS
  <2>2. r \in RoundIds /\ r \notin roundSeq + 1 .. roundSeq' /\ r \in 1 .. roundSeq'
    BY <1>3, <2>1, BoundsAssumption
  <2> QED
    BY <1>1, <2>2
<1>5. roundSeq' = roundSeq + 1 => tested'[roundSeq + 1] = choice
  BY <1>1, <1>2, <1>3
<1>6. ChoiceTypes'
  <2>1. choice \in Players \cup {NoPlayer} /\ report \subseteq Players
           /\ overtaken \subseteq Players
           /\ \A r \in RoundIds : tested[r] \in Players \cup {NoPlayer}
    BY <1>2 DEF ChoiceTypes
  <2>2. tested' \in [RoundIds -> Players \cup {NoPlayer}]
    BY <1>1, <2>1
  <2>3. report' \subseteq Players
    BY <1>1, <2>1
  <2> QED
    BY <1>1, <1>3, <2>1, <2>2, <2>3 DEF ChoiceTypes
<1>7. ASSUME NEW q \in Players \ {p} PROVE Kept(q)'
  <2>1. pc'[q] = pc[q] /\ local'[q] = local[q] /\ browser'[q] = browser[q]
    BY <1>1, OthersKept
  <2>2. /\ Kept(q) /\ (q \in report' <=> q \in report)
        /\ q \in overtaken' <=> q \in overtaken
    BY <1>1 DEF ChoiceInv
  <2> QED
    BY <1>1, <1>4, <2>1, <2>2 DEF Kept
<1>8. Kept(p)'
  <2>1. CASE pc'[p] = "idle"
    <3>1. p \in report' \ overtaken' => p \in report \ overtaken
      BY <1>1
    <3> QED
      BY <1>1, <1>2, <2>1, <3>1 DEF Kept, SaveSteps, HasRound, HasGame
  <2>2. CASE pc'[p] # "idle"
    <3>1. report' = report /\ overtaken' = overtaken
      BY <1>1, <1>2, <2>2
    <3>2. pc'[p] \in HasRound =>
             /\ local'[p].round \in 1 .. roundSeq'
             /\ p \notin overtaken => tested'[local'[p].round] = p
      <4>1. CASE pc[p] \in HasRound /\ local'[p] = local[p]
        BY <1>2, <1>4, <4>1 DEF Kept
      <4>2. CASE /\ pc[p] \in SaveSteps /\ roundSeq' = roundSeq + 1
                 /\ local'[p].round = roundSeq + 1
        BY <1>2, <1>3, <1>5, <4>2 DEF Kept
      <4>3. pc'[p] \in HasRound => pc'[p] \notin UpdateSteps
        BY DEF HasRound, HasGame, UpdateSteps
      <4> QED
        BY <1>2, <2>2, <4>1, <4>2, <4>3 DEF RequestMoves
    <3>3. pc'[p] \in SaveSteps => pc[p] \in SaveSteps
      <4>1. pc'[p] \in SaveSteps => pc'[p] \notin UpdateSteps
        BY DEF SaveSteps, UpdateSteps
      <4> QED
        BY <1>2, <2>2, <4>1 DEF RequestMoves
    <3> QED
      BY <1>1, <1>2, <3>1, <3>2, <3>3 DEF Kept
  <2> QED
    BY <2>1, <2>2
<1> QED
  BY <1>6, <1>7, <1>8 DEF ChoiceInv

LEMMA StepRestartChoice ==
    ASSUME ChoiceInv, RestartChoice
    PROVE  ChoiceInv'
<1>1. /\ pc' = [p \in Players |-> "idle"] /\ browser' = browser /\ roundSeq' = roundSeq
      /\ tested' = tested /\ report' = report /\ overtaken' = report
      /\ choice' = NoPlayer
  BY DEF RestartChoice, Restart, vars, sequences
<1>2. ChoiceTypes'
  BY <1>1 DEF ChoiceInv, ChoiceTypes
<1>3. ASSUME NEW q \in Players PROVE Kept(q)'
  BY <1>1 DEF ChoiceInv, Kept, SaveSteps, HasRound, HasGame
<1> QED
  BY <1>2, <1>3 DEF ChoiceInv

LEMMA StepChoiceInv == SInv /\ ChoiceInv /\ [ChoiceNext]_choiceVars => ChoiceInv'
<1> SUFFICES ASSUME SInv, ChoiceInv, [ChoiceNext]_choiceVars PROVE ChoiceInv'
  OBVIOUS
<1>1. ASSUME NEW p \in Players, Choose(p) \/ GoBack(p) \/ Save(p) \/ HandleChoice(p) \/ Play(p)
      PROVE  ChoiceInv'
  BY <1>1, StepChoose, StepGoBack, StepSaveOrPlay, StepHandleChoice
<1>2. CASE RestartChoice
  BY <1>2, StepRestartChoice
<1>3. CASE UNCHANGED choiceVars
  <2>1. /\ pc' = pc /\ local' = local /\ browser' = browser /\ roundSeq' = roundSeq
        /\ UNCHANGED <<choice, tested, report, overtaken>>
    BY <1>3 DEF choiceVars, choices, allVars, vars, session, sequences
  <2>2. ChoiceTypes'
    BY <2>1 DEF ChoiceInv, ChoiceTypes
  <2> QED
    BY <2>1, <2>2, KeptFrame DEF ChoiceInv
<1> QED
  BY <1>1, <1>2, <1>3 DEF ChoiceNext

LEMMA InitChoiceInv == ChoiceInit => ChoiceInv
<1> SUFFICES ASSUME ChoiceInit PROVE ChoiceInv
  OBVIOUS
<1>1. /\ choice = NoPlayer /\ report = {} /\ overtaken = {} /\ roundSeq = 0
      /\ tested = [r \in RoundIds |-> NoPlayer]
      /\ pc = [p \in Players |-> "idle"]
  BY DEF ChoiceInit, SessionInit, Init
<1>2. ChoiceTypes
  BY <1>1, BoundsAssumption DEF ChoiceTypes
<1>3. \A p \in Players : Kept(p)
  BY <1>1 DEF Kept, SaveSteps, HasRound, HasGame
<1> QED
  BY <1>2, <1>3 DEF ChoiceInv

\* A page opens the editor when the file of its save is written, with the round that
\* save has inserted.
LEMMA EditorShowsChoice ==
    ASSUME SInv, ChoiceInv, [ChoiceNext]_choiceVars, NEW p \in Players,
           browser'[p] # browser[p], p \in (report \ report') \ overtaken
    PROVE  tested'[browser'[p].round] = p
<1>1. PICK q \in Players : HandleChoice(q)
  <2>1. ASSUME NEW q \in Players, Choose(q) \/ GoBack(q) \/ Save(q)
        PROVE  browser' = browser
    BY <2>1 DEF Choose, GoBack, Save, SaveData, allVars, session
  <2>2. ASSUME NEW q \in Players, Play(q) PROVE report' = report
    BY <2>2 DEF Play, choices
  <2>3. RestartChoice \/ UNCHANGED choiceVars => report' = report
    BY DEF RestartChoice, choiceVars, choices
  <2> QED
    BY <2>1, <2>2, <2>3, Zenon DEF ChoiceNext
<1>2. Handle(q) /\ SessionTypeOK /\ ChoiceTypes /\ Kept(p)
  BY <1>1 DEF HandleChoice, SInv, ChoiceInv
<1>3. q = p
  BY <1>2, OthersKept
<1>4. pc[p] = "saveCsv"
  BY <1>1, <1>3 DEF HandleChoice
<1>5. browser'[p].round = local[p].round
  <2>1. RequestMoves(p) /\ (browser' # browser => pc'[p] = "idle")
    BY <1>2, <1>3, HandleMoves
  <2> QED
    BY <1>4, <2>1 DEF RequestMoves, UpdateSteps
<1>6. local[p].round \in 1 .. roundSeq /\ tested[local[p].round] = p
  BY <1>2, <1>4 DEF Kept, HasRound, HasGame
<1>7. tested' = [r \in RoundIds |->
                    IF r \in roundSeq + 1 .. roundSeq' THEN choice ELSE tested[r]]
  BY <1>1, Zenon DEF HandleChoice
<1>8. local[p].round \in RoundIds /\ local[p].round \notin roundSeq + 1 .. roundSeq'
  <2>1. roundSeq \in 0 .. MaxRounds /\ roundSeq' \in Nat
    <3>1. roundSeq' = roundSeq \/ roundSeq' = roundSeq + 1
      BY <1>2, HandleMoves
    <3> QED
      BY <1>2, <3>1, BoundsAssumption DEF ChoiceTypes
  <2> QED
    BY <1>6, <2>1, BoundsAssumption DEF RoundIds
<1> QED
  BY <1>5, <1>6, <1>7, <1>8

\* The game of a player whom nobody overtook is stored under the class the player
\* chose, however many choose and save at the same time.
THEOREM ChoicesAreKept == ChoiceSpec => ChoiceIsKept
<1>1. SInv /\ ChoiceInv /\ [ChoiceNext]_choiceVars =>
          [\A p \in Players :
              browser'[p] # browser[p] /\ p \in (report \ report') \ overtaken
              => tested'[browser'[p].round] = p]_choiceVars
  BY EditorShowsChoice
<1> QED
  BY <1>1, InitChoiceInv, StepChoiceInv, ChoiceRefinesSession, SessionInvariance, PTL
     DEF ChoiceSpec, ChoiceIsKept
=============================================================================

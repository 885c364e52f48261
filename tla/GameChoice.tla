----------------------------- MODULE GameChoice -----------------------------
(***************************************************************************)
(* The choice of a class that precedes a game: the page of T5 sends it     *)
(* with one request (POST /sendGameVariables), which stores it in the one  *)
(* Game object of the controller, and saves the game with a second one,    *)
(* which reads it there.  Between the two the page shows the report, with  *)
(* a button for the second request and one that goes back; other players   *)
(* choose and save at any time.  A class is identified with the player who *)
(* chose it: what matters of the choice in g is whose it is.               *)
(***************************************************************************)
EXTENDS GameSession

VARIABLES
    choice,     \* g.testedClass: whose choice it is, NoPlayer for null
    tested,     \* the column test_class_id of each round of T4
    report,     \* the players whose page is /report
    overtaken   \* history: those of them whose choice is no longer in g

choices == <<choice, tested, report, overtaken>>
choiceVars == <<allVars, choices>>

-----------------------------------------------------------------------------
\* POST /sendGameVariables replaces the class in g, whoever chose it.
receiveGameVariables(p) == choice' = p

\* The page sends the choice from anywhere but /report and goes there; when the answer
\* is lost it stays where it is.
Choose(p) ==
    /\ pc[p] = "idle" /\ p \notin report
    /\ receiveGameVariables(p)
    /\ \/ report' = report \cup {p} /\ overtaken' = report
       \/ "lost" \in Faults /\ UNCHANGED report /\ overtaken' = report
    /\ UNCHANGED <<allVars, tested>>

Leave(p) == report' = report \ {p} /\ overtaken' = overtaken \ {p}

\* The button "Go back" of the report.
GoBack(p) ==
    /\ pc[p] = "idle" /\ p \in report
    /\ Leave(p)
    /\ UNCHANGED <<allVars, choice, tested>>

\* Mutated form of Save: the game is saved in a new object.
Save_NewObject(p) ==
    /\ p \in report /\ SaveData(p)
    /\ choice' = NoPlayer
    /\ UNCHANGED <<tested, report, overtaken>>

\* POST /save-data sends the player only, and sets nothing else in g.
Save(p) ==
    /\ p \in report /\ SaveData(p)
    /\ UNCHANGED choices

\* The round is stored with the class that is in g; the answer to a save that is
\* complete opens the editor.
HandleChoice(p) ==
    /\ Handle(p)
    /\ tested' = [r \in RoundIds |->
                     IF r \in roundSeq + 1 .. roundSeq' THEN choice ELSE tested[r]]
    /\ IF pc[p] = "saveCsv" /\ browser' # browser
       THEN Leave(p)
       ELSE UNCHANGED <<report, overtaken>>
    /\ UNCHANGED choice

\* The editor.
Play(p) ==
    /\ p \notin report
    /\ UpdateData(p) \/ Win(p)
    /\ UNCHANGED choices

RestartChoice ==
    /\ Restart
    /\ choice' = NoPlayer
    /\ overtaken' = report
    /\ UNCHANGED <<tested, report>>

ChoiceInit ==
    /\ SessionInit
    /\ choice = NoPlayer /\ report = {} /\ overtaken = {}
    /\ tested = [r \in RoundIds |-> NoPlayer]

ChoiceNext ==
    \/ \E p \in Players : Choose(p) \/ GoBack(p) \/ Save(p) \/ HandleChoice(p) \/ Play(p)
    \/ RestartChoice

ChoiceSpec == ChoiceInit /\ [][ChoiceNext]_choiceVars

\* The fairness of the play: Tomcat runs every request thread.
FairChoiceSpec == ChoiceSpec /\ \A p \in Players : WF_allVars(Handle(p))

-----------------------------------------------------------------------------
(* Properties.                                                             *)

\* A game that reaches the editor is stored under the class its player chose, unless
\* another player's choice, or a restart, came between the choice and the end of the
\* save.
ChoiceIsKept ==
    [][\A p \in Players :
          browser'[p] # browser[p] /\ p \in (report \ report') \ overtaken
          => tested'[browser'[p].round] = p]_choiceVars
=============================================================================

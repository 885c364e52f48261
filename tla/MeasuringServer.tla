---------------------------- MODULE MeasuringServer ----------------------------
(***************************************************************************)
(* The server of T8 that measures the test of a player with EvoSuite       *)
(* (Serv/prova_esecuzione_parametri4.js and robot_misurazione_utente.sh):  *)
(* one node process in a container of its own.  The page of T5 posts the   *)
(* test to it on every attempt, and reads the stored tests back for the    *)
(* history.  A request is a chain of steps: the test is written, a shell   *)
(* script copies, builds and measures, and the call-back answers.  The     *)
(* scripts of different requests overlap, and share the Maven project, the *)
(* report directory and the file that is answered.                         *)
(*                                                                         *)
(* Requests are numbered in the order in which they are sent, and the code *)
(* of a test is the number of the request that sent it.                    *)
(***************************************************************************)
EXTENDS Integers, Sequences, FiniteSets

CONSTANTS
    MaxRequests,  \* bound on the requests
    Company,      \* for each of them, the bound on those in flight when it is sent
    Attempts,     \* for each of them, the classes and turns it may be sent for, and
                  \* what may become of running its test
    Classes,      \* names of classes under test
    Turns,        \* numbers of turns: every round counts its own from 1
    Rows,         \* criteria measured, one row of the report each (8)
    MaxVersion,   \* bound on the uploads of each class
    MaxRestarts,  \* bound on the restarts of the container
    Faults        \* {"disk"} if a test may fail to be written, else {}

\* Running a test ends, or never does, or prints more than the buffer of exec takes.
TestRuns == {"ends", "loops", "floods"}

ASSUME MeasuringAssumption ==
    /\ Classes # {} /\ Turns # {}
    /\ MaxRequests \in Nat /\ MaxRestarts \in Nat
    /\ Company \in [1 .. MaxRequests -> Nat]
    /\ Attempts \in [1 .. MaxRequests -> SUBSET [class : Classes, turn : Turns, runs : TestRuns]]
    /\ MaxVersion \in [Classes -> Nat \ {0}]
    /\ Rows \in Nat \ {0}
    /\ Faults \subseteq {"disk"}

VARIABLES
    up,           \* whether the node process runs
    restarts,     \* how often it has been started again
    pc,           \* where each request is
    req,          \* class and turn of a request; the versions its test compiles with,
                  \* and what becomes of running it
    left,         \* criteria that its script has still to measure
    volume,       \* the version of each class in the volume of T8
    copies,       \* the version in the server's own project, 0 for none
    tests,        \* the test of each class in that project, 0 for none
    stored,       \* the tests kept in the volume, by turn and class
    target,       \* what the last build left: per class, its version and its test
    reportDir,    \* whether evosuite-report exists
    report,       \* the rows of the statistics.csv in it
    csv,          \* the rows of /app/statistics.csv, <<>> if there is no such file
    undisturbed,  \* history: the request was alone, and found no report
    rows          \* history: the rows EvoSuite has written for the request

vars == <<up, restarts, pc, req, left, volume, copies, tests, stored, target,
          reportDir, report, csv, undisturbed, rows>>
project == <<volume, copies, tests, stored, target, reportDir, report, csv>>

-----------------------------------------------------------------------------
Requests == 1 .. MaxRequests
NoTest == 0

\* What a build leaves for a class, and what a row of the report says: the
\* version and the test it is about.
Built == [version : Nat, test : 0 .. MaxRequests]
Nothing == [version |-> 0, test |-> NoTest]

\* An answer is pending, or never comes, from "write" to "answer"; "stuck": a
\* command of the script does not end.
Pending == {"write", "copy", "clean", "compile", "measure", "stuck", "move", "remove",
            "answer"}
\* "silent": the script failed or was killed by exec, which is logged and answered by
\* nobody; "lost": the process died; "refused": there was no process to connect to.
Ended == {"answered", "silent", "lost", "refused"}

InFlight == {r \in Requests : pc[r] \in Pending}
Goto(r, step) == pc' = [pc EXCEPT ![r] = step]

\* An exception nobody catches: node exits and the container stops with it, so
\* that the scripts of the other requests are killed as well.
Die ==
    /\ up' = FALSE
    /\ pc' = [r \in Requests |-> IF r \in InFlight THEN "lost" ELSE pc[r]]

-----------------------------------------------------------------------------
(* The page of T5 and T1, as far as they meet the server.                  *)

\* An attempt is sent: its test may compile with no version of the class, with
\* the one the page shows, or with all there have been.
Send(r) ==
    /\ Cardinality({q \in InFlight : pc[q] # "stuck"}) <= Company[r]
    /\ pc[r] = "unsent" /\ \A q \in 1 .. r - 1 : pc[q] # "unsent"
    /\ \E a \in Attempts[r] : \E fits \in {{}, {volume[a.class]}, 1 .. volume[a.class]} :
           req' = [req EXCEPT ![r] = [class |-> a.class, turn |-> a.turn, fits |-> fits,
                                      runs |-> a.runs]]
    /\ IF up
       THEN /\ Goto(r, "write")
            /\ undisturbed' = [q \in Requests |->
                   IF q = r THEN InFlight = {} /\ ~reportDir
                            ELSE undisturbed[q] /\ q \notin InFlight]
       ELSE Goto(r, "refused") /\ UNCHANGED undisturbed
    /\ UNCHANGED <<up, restarts, left, rows, project>>

\* caricaFile of T1: an upload puts the class into the volume, over an older one.
Upload(c) ==
    /\ volume[c] < MaxVersion[c]
    /\ volume' = [volume EXCEPT ![c] = @ + 1]
    /\ UNCHANGED <<up, restarts, pc, req, left, copies, tests, stored, target,
                   reportDir, report, csv, undisturbed, rows>>

\* What GET /tests/<turn>/Test<class> answers: the code, or an error if
\* there is no such file (NoTest).
TestShown(t, c) == stored[t][c]

-----------------------------------------------------------------------------
(* A request to /api/.                                                     *)

\* fs.writeFile.  On an error the handler calls res.status, which the response
\* of node's http module does not have: the exception ends the process.  The file
\* is left as it was, or empty.
Write(r) ==
    /\ pc[r] = "write"
    /\ \/ tests' = [tests EXCEPT ![req[r].class] = r] /\ Goto(r, "copy") /\ UNCHANGED up
       \/ /\ "disk" \in Faults /\ Die
          /\ tests' \in {tests, [tests EXCEPT ![req[r].class] = NoTest]}
    /\ UNCHANGED <<restarts, req, left, volume, copies, stored, target, reportDir, report,
                   csv, undisturbed, rows>>

\* Mutated form of CopyTest: the whole directory of tests is copied.
CopyTest_All(c, t) ==
    stored' = [stored EXCEPT ![t] = [d \in Classes |->
                   IF tests[d] = NoTest THEN @[d] ELSE tests[d]]]

\* The test is taken from the project, where another request may have replaced it.
CopyTest(c, t) == stored' = [stored EXCEPT ![t][c] = tests[c]]

\* cp -n of the class, which never replaces an older one, and cp -f of the test.
Copy(r) ==
    LET c == req[r].class
    IN  /\ pc[r] = "copy"
        /\ copies' = [copies EXCEPT ![c] = IF @ = 0 THEN volume[c] ELSE @]
        /\ CopyTest(c, req[r].turn)
        /\ Goto(r, "clean")
        /\ UNCHANGED <<up, restarts, req, left, volume, tests, target, reportDir, report,
                       csv, undisturbed, rows>>

\* Mutated form of Clean: what was built is kept.
Clean_Skipped(r) ==
    /\ pc[r] = "clean"
    /\ Goto(r, "compile")
    /\ UNCHANGED <<up, restarts, req, left, undisturbed, rows, project>>

\* mvn clean
Clean(r) ==
    /\ pc[r] = "clean"
    /\ target' = [c \in Classes |-> Nothing]
    /\ Goto(r, "compile")
    /\ UNCHANGED <<up, restarts, req, left, volume, copies, tests, stored, reportDir,
                   report, csv, undisturbed, rows>>

\* The tests of all classes are built together: one that does not compile with
\* the copy of its class, whoever left it, keeps all of them from being compiled.
Compiles == \A c \in Classes : tests[c] # NoTest => copies[c] \in req[tests[c]].fits

\* The requests whose tests mvn install runs.
Ran == IF Compiles THEN {tests[c] : c \in Classes} \ {NoTest} ELSE {}

\* Running these tests does not end, or prints so much that exec kills the script:
\* Surefire and exec have no time limit, the buffer of exec is limited.
Stop(r, ran) ==
    \E q \in ran : \/ req[q].runs = "loops" /\ Goto(r, "stuck")
                   \/ req[q].runs = "floods" /\ Goto(r, "silent")

\* mvn install: it runs the tests of all classes; if one fails, what was built stays.
Compile(r) ==
    /\ pc[r] = "compile"
    /\ target' = [c \in Classes |->
           [version |-> copies[c], test |-> IF Compiles THEN tests[c] ELSE target[c].test]]
    /\ left' = [left EXCEPT ![r] = Rows]
    /\ IF \A q \in Ran : req[q].runs = "ends" THEN Goto(r, "measure") ELSE Stop(r, Ran)
    /\ UNCHANGED <<up, restarts, req, volume, copies, tests, stored, reportDir, report,
                   csv, undisturbed, rows>>

\* Mutated form of Measure: it goes on for one criterion too many.
Measure_OneMore(r) ==
    /\ pc[r] = "measure"
    /\ report' = Append(report, target[req[r].class]) /\ reportDir' = TRUE
    /\ rows' = [rows EXCEPT ![r] = @ + 1] /\ left' = [left EXCEPT ![r] = @ - 1]
    /\ Goto(r, IF left[r] = 0 THEN "move" ELSE "measure")
    /\ UNCHANGED <<up, restarts, req, volume, copies, tests, stored, target, csv, undisturbed>>

\* EvoSuite appends a row for one criterion, and makes the report directory for the
\* first one; or it fails (the test does not compile, the jar is not where the script
\* runs it: nothing puts it there) and writes none, which nothing looks at.  It runs the
\* test as well.
Measure(r) ==
    LET built == target[req[r].class]
    IN  /\ pc[r] = "measure"
        /\ \/ /\ report' = Append(report, built) /\ reportDir' = TRUE
              /\ rows' = [rows EXCEPT ![r] = @ + 1]
           \/ UNCHANGED <<report, reportDir, rows>>
        /\ left' = [left EXCEPT ![r] = @ - 1]
        /\ \/ Goto(r, IF left[r] = 1 THEN "move" ELSE "measure")
           \/ Stop(r, {built.test} \ {NoTest})
        /\ UNCHANGED <<up, restarts, req, volume, copies, tests, stored, target, csv,
                       undisturbed>>

\* Mutated form of Move: it waits for the report of EvoSuite.
Move_Waits(r) ==
    /\ pc[r] = "move" /\ report # <<>>
    /\ csv' = report /\ report' = <<>>
    /\ Goto(r, "remove")
    /\ UNCHANGED <<up, restarts, req, left, volume, copies, tests, stored, target, reportDir,
                   undisturbed, rows>>

\* mv -f of statistics.csv; without one it fails, and the script goes on.
Move(r) ==
    /\ pc[r] = "move"
    /\ csv' = IF report = <<>> THEN csv ELSE report
    /\ report' = <<>>
    /\ Goto(r, "remove")
    /\ UNCHANGED <<up, restarts, req, left, volume, copies, tests, stored, target, reportDir,
                   undisturbed, rows>>

\* rm -r of the report directory is the last command: the script fails if there
\* is none, and exec then only logs the error.
Remove(r) ==
    /\ pc[r] = "remove"
    /\ Goto(r, IF reportDir THEN "answer" ELSE "silent")
    /\ reportDir' = FALSE /\ report' = <<>>
    /\ UNCHANGED <<up, restarts, req, left, volume, copies, tests, stored, target, csv,
                   undisturbed, rows>>

\* Mutated form of Answer: the csv is deleted once it has been read.
Answer_Deletes(r) ==
    /\ pc[r] = "answer"
    /\ IF csv = <<>> THEN Die ELSE Goto(r, "answered") /\ UNCHANGED up
    /\ csv' = <<>>
    /\ UNCHANGED <<restarts, req, left, volume, copies, tests, stored, target, reportDir, report,
                   undisturbed, rows>>

\* The call-back of exec answers with the csv, whose absence throws.
Answer(r) ==
    /\ pc[r] = "answer"
    /\ IF csv = <<>> THEN Die ELSE Goto(r, "answered") /\ UNCHANGED up
    /\ UNCHANGED <<restarts, req, left, project, undisturbed, rows>>

\* The administrator starts the container again; its files are still there.
Restart ==
    /\ ~up /\ restarts < MaxRestarts
    /\ up' = TRUE /\ restarts' = restarts + 1
    /\ UNCHANGED <<pc, req, left, undisturbed, rows, project>>

-----------------------------------------------------------------------------
Init ==
    /\ up = TRUE /\ restarts = 0
    /\ pc = [r \in Requests |-> "unsent"]
    /\ req = [r \in Requests |-> [class |-> CHOOSE c \in Classes : TRUE,
                                  turn |-> CHOOSE t \in Turns : TRUE, fits |-> {},
                                  runs |-> "ends"]]
    /\ left = [r \in Requests |-> 0]
    /\ volume = [c \in Classes |-> 1]
    /\ copies = [c \in Classes |-> 0]
    /\ tests = [c \in Classes |-> NoTest]
    /\ stored = [t \in Turns |-> [c \in Classes |-> NoTest]]
    /\ target = [c \in Classes |-> Nothing]
    /\ reportDir = FALSE /\ report = <<>> /\ csv = <<>>
    /\ undisturbed = [r \in Requests |-> FALSE]
    /\ rows = [r \in Requests |-> 0]

\* The steps of a request that has arrived.
Handle(r) ==
    \/ Write(r) \/ Copy(r) \/ Clean(r) \/ Compile(r)
    \/ Measure(r) \/ Move(r) \/ Remove(r) \/ Answer(r)

Next ==
    \/ \E r \in Requests : Send(r) \/ Handle(r)
    \/ \E c \in Classes : Upload(c)
    \/ Restart

Spec == Init /\ [][Next]_vars

\* node runs its call-backs, and every command of the script ends but one that runs a
\* test that loops: no step leaves "stuck".
FairSpec == Spec /\ \A r \in Requests : WF_vars(Handle(r))

-----------------------------------------------------------------------------
(* Properties.                                                             *)

TypeOK ==
    /\ up \in BOOLEAN /\ restarts \in 0 .. MaxRestarts
    /\ pc \in [Requests -> {"unsent"} \cup Pending \cup Ended]
    /\ req \in [Requests -> [class : Classes, turn : Turns, fits : SUBSET Nat,
                        runs : TestRuns]]
    /\ left \in [Requests -> 0 .. Rows] /\ \A r \in Requests : pc[r] = "measure" => left[r] > 0
    /\ volume \in [Classes -> Nat] /\ copies \in [Classes -> Nat]
    /\ \A c \in Classes : copies[c] <= volume[c] /\ volume[c] <= MaxVersion[c]
    /\ tests \in [Classes -> 0 .. MaxRequests]
    /\ stored \in [Turns -> [Classes -> 0 .. MaxRequests]]
    /\ target \in [Classes -> Built]
    /\ report \in Seq(Built) /\ csv \in Seq(Built)
    /\ reportDir \in BOOLEAN /\ (report # <<>> => reportDir)
    /\ undisturbed \in [Requests -> BOOLEAN]
    /\ rows \in [Requests -> Nat] /\ \A r \in Requests : pc[r] = "unsent" => rows[r] = 0

\* The row of r's own test, measured with the class the server holds; without the test
\* if one of the tests in the project keeps it from being compiled.
OwnRow(r) == [version |-> copies[req[r].class], test |-> IF Compiles THEN r ELSE NoTest]

\* README.md:5 of T8, "misurazione dei test scritti dall'utente": a request that is
\* alone, and finds no report of another one, is answered with all the rows EvoSuite
\* wrote for its own test and with no other, whatever earlier requests left behind;
\* if there is no such row it is answered by nobody, never with an older report.
AloneIsServed ==
    [][\A r \in Requests :
           undisturbed[r] /\ pc[r] \in Pending \ {"write"} /\ pc'[r] \in Ended
           => \/ rows[r] > 0 /\ pc'[r] = "answered" /\ csv = [i \in 1 .. rows[r] |-> OwnRow(r)]
              \/ rows[r] = 0 /\ pc'[r] = "silent"]_vars

\* The requests whose test has been copied into the volume.
Copied == {r \in Requests : pc[r] \in (Pending \ {"write", "copy"}) \cup {"answered", "silent"}}

\* What the history shows for a turn and a class is a test of that class, sent for
\* that turn unless requests overlapped; and it is not older than any test sent
\* for them by a request that was alone.
HistoryIsCurrent ==
    \A t \in Turns, c \in Classes :
        LET q == TestShown(t, c)
        IN  /\ q # NoTest => req[q].class = c /\ (req[q].turn = t \/ ~undisturbed[q])
            /\ \A r \in Copied :
                   undisturbed[r] /\ req[r].class = c /\ req[r].turn = t => q >= r

\* A measurement that was answered is never lost again: from then on nothing but
\* a test that cannot be written stops the server.
OnlyWritesKill ==
    [][up /\ ~up' /\ (\E q \in Requests : pc[q] = "answered")
           => \E r \in Requests : pc[r] = "write"]_vars

\* No request is pending for ever, unless its script runs a test that loops, its own or
\* one another request left in the project: it is answered, or the server has died, or
\* its script has failed, and then EvoSuite wrote nothing for it or another request
\* came in its way.
EveryRequestEnds ==
    \A r \in Requests : pc[r] \in Pending ~>
        \/ pc[r] \in {"answered", "lost"}
        \/ pc[r] = "silent" /\ (rows[r] = 0 \/ ~undisturbed[r])
        \/ pc[r] = "stuck" /\ \E q \in Requests : pc[q] # "unsent" /\ req[q].runs = "loops"
=============================================================================

------------------------------- MODULE EvoLevels -------------------------------
(***************************************************************************)
(* The generation of EvoSuite's levels, T8: robot_generazione.sh makes one *)
(* suite of tests with each of 13 sets of criteria and puts it aside with  *)
(* its coverage, generazione_livelli.java orders the suites by coverage    *)
(* and picks as many as there are levels, and misurazione_livelli.sh       *)
(* measures each of them, stores it as a level and clears up.              *)
(*                                                                         *)
(* Every upload of T1 runs the script in the same directory.  A directory  *)
(* of tests is the version of the class its test of each class is for, a   *)
(* version being the run that brought it.                                  *)
(***************************************************************************)
EXTENDS Integers, FiniteSets

CONSTANTS
    Classes,
    NoClass,      \* output.txt cannot be read
    MaxRuns,      \* bound on the runs of the script
    Suites,       \* the number of suites that are made (13)
    MaxLevel,     \* most levels that are asked for (10, those of Randoop)
    Asked,        \* the numbers of levels a run is asked for
    Coverages,    \* what a suite may cover
    MaxFaults     \* bound on faults: a run is killed or overlaps another, or
                  \* EvoSuite makes no tests or no report

ASSUME EvoAssumption ==
    /\ NoClass \notin Classes
    /\ MaxRuns \in Nat /\ MaxFaults \in Nat
    /\ MaxLevel \in Nat \ {0} /\ Suites \in Nat \ {0} /\ Asked \subseteq 0 .. MaxLevel
    /\ Coverages \subseteq Nat /\ Coverages # {}

VARIABLES
    run,      \* each run: where it is, its class and version of the request, the
              \* counter of its loop, the class and the picks of the measurement
    project,  \* src/main/java and target: the version of each class
    order,    \* output.txt and livelli.txt: a class and a number of levels
    report,   \* evosuite-report: the version its first row is of, the last coverage
    tests,    \* evosuite-tests
    slots,    \* I0, I1, ...: a report and a directory of tests each
    levels,   \* EvoSuiteTest of each class and level: its tests, the version its
              \* score is of, and, as history, the runs that brought either
    alone,    \* history: the runs that met no other
    fair,     \* history: of these, those that began after quiet ones
    calm,     \* history: complete runs since the last disturbance, up to two
    faults

directory == <<project, order, report, tests, slots>>
history == <<alone, fair, calm>>
vars == <<run, directory, levels, history, faults>>

-----------------------------------------------------------------------------
Runs == 1 .. MaxRuns
Positions == 0 .. Suites - 1
Levels == 1 .. MaxLevel

NoTests == [c \in Classes |-> 0]
None == [of |-> 0, last |-> -1]   \* no report
Empty == [report |-> None, tests |-> NoTests]
NoOrder == [class |-> NoClass, levels |-> 1]
NoLevel == [tests |-> NoTests, score |-> 0, by |-> 0, scored |-> 0]
NoPick == [suite |-> 0, coverage |-> 0]
Idle == [at |-> "off", class |-> NoClass, k |-> 0, levels |-> 0, named |-> NoClass,
         pick |-> [i \in Levels |-> NoPick]]

\* Its local variables go with a run that ends.
Ended(r, how) == run' = [run EXCEPT ![r] = [Idle EXCEPT !.at = how, !.class = run[r].class]]

InFlight == {r \in Runs : run[r].at \notin {"off", "done", "failed"}}
Fault == faults < MaxFaults /\ faults' = faults + 1

\* The tests of a directory compile when the project has the class of each, and
\* those of class c can then be run.
Compile(d, c) == d[c] # 0 /\ \A e \in Classes : d[e] # 0 => project[e] # 0

\* The report with one more row.
Added(version, coverage) ==
    [of |-> IF report = None THEN version ELSE report.of, last |-> coverage]

\* mv of a directory: it moves into one that is not there.
Moved(there, nothing, it) == IF there = nothing THEN it ELSE there
Left(there, nothing, it) == IF there = nothing THEN nothing ELSE it

-----------------------------------------------------------------------------
(* The selection.                                                          *)

\* Where in the order of the coverages the i-th of n levels is taken; the middle is
\* 7 of 13.
Middle == Suites \div 2 + 1

Rank(n, i) ==
    LET step == Suites \div n
        half == n \div 2
    IN  CASE n > 1 /\ i = 1 -> 1
          [] n > 1 /\ i = n -> Suites - 1
          [] OTHER -> Middle + step * (IF n % 2 = 0 /\ i > half THEN i - half ELSE i - half - 1)

\* There are enough suites for the levels: the places are there, and differ.
RanksGrow ==
    \A n \in Levels : \A i \in 1 .. n :
        /\ Rank(n, i) \in Positions
        /\ \A j \in 1 .. n : i < j => Rank(n, i) < Rank(n, j)
ASSUME RanksAssumption == RanksGrow

\* Mutated form of Sorted: the suites are in the order in which they were made.
Sorted_AsMade(o) == \A p, q \in Positions : p < q => o[p] < o[q]

\* Lowest coverage first, and of equal ones the suite made first: sorting is stable.
Sorted(o) ==
    \A p, q \in Positions : p < q =>
        \/ slots[o[p]].report.last < slots[o[q]].report.last
        \/ slots[o[p]].report.last = slots[o[q]].report.last /\ o[p] < o[q]

\* The order of all suites.
Orders == {o \in [Positions -> Positions] :
               Sorted(o) /\ \A k \in Positions : \E p \in Positions : o[p] = k}

Picks(o, n) ==
    [i \in Levels |-> IF i <= n
                      THEN [suite |-> o[Rank(n, i)], coverage |-> slots[o[Rank(n, i)]].report.last]
                      ELSE NoPick]

-----------------------------------------------------------------------------
(* robot_generazione.sh                                                    *)

\* T1 runs the script.  cp -n never replaces a class that is there already.
Start(r) ==
    /\ run[r].at = "off" /\ \A q \in 1 .. r - 1 : run[q].at # "off"
    /\ \E c \in Classes, n \in Asked :
           /\ run' = [run EXCEPT ![r].at = "generate", ![r].class = c]
           /\ project' = [project EXCEPT ![c] = IF @ = 0 THEN r ELSE @]
           /\ order' = [class |-> c, levels |-> n]
    /\ \/ /\ InFlight = {}
          /\ alone' = alone \cup {r}
          /\ fair' = IF calm = 2 THEN fair \cup {r} ELSE fair
          /\ UNCHANGED <<calm, faults>>
       \/ /\ InFlight # {} /\ Fault
          /\ alone' = alone \ InFlight /\ fair' = fair \ InFlight /\ calm' = 0
    /\ UNCHANGED <<report, tests, slots, levels>>

\* EvoSuite makes a suite and measures it; its reports are added to the one there.
\* When it makes none, a test of the class that is left is measured.
Generate(r) ==
    LET c == run[r].class
    IN  /\ run[r].at = "generate"
        /\ \/ /\ project[c] # 0
              /\ tests' = [tests EXCEPT ![c] = project[c]]
              /\ report' \in {Added(project[c], v) : v \in Coverages}
              /\ UNCHANGED faults
           \/ /\ IF project[c] = 0 THEN UNCHANGED faults ELSE Fault
              /\ report' \in {report} \cup {Added(tests[c], v) : v \in {w \in Coverages : Compile(tests, c)}}
              /\ UNCHANGED tests
        /\ run' = [run EXCEPT ![r].at = "move"]
        /\ UNCHANGED <<project, order, slots, levels, history>>

\* mv evosuite-report Ik; mv evosuite-tests Ik
Move(r) ==
    LET k == run[r].k
        s == slots[k]
    IN  /\ run[r].at = "move"
        /\ slots' = [slots EXCEPT ![k] = [report |-> Moved(s.report, None, report),
                                          tests |-> Moved(s.tests, NoTests, tests)]]
        /\ report' = Left(s.report, None, report)
        /\ tests' = Left(s.tests, NoTests, tests)
        /\ run' = [run EXCEPT ![r].at = IF k = Suites - 1 THEN "select" ELSE "generate",
                              ![r].k = IF k = Suites - 1 THEN 0 ELSE k + 1]
        /\ UNCHANGED <<project, order, levels, history, faults>>

\* generazione_livelli.java: 13 / n and the last row of a report that is missing
\* throw, and nothing is cleared up.
Select(r) ==
    /\ run[r].at = "select"
    /\ \/ /\ order.levels # 0 /\ \A k \in Positions : slots[k].report # None
          /\ \E o \in Orders :
                 run' = [run EXCEPT ![r] = [@ EXCEPT !.at = "level", !.k = 1,
                             !.levels = order.levels, !.named = order.class,
                             !.pick = Picks(o, order.levels)]]
          /\ UNCHANGED calm
       \/ /\ order.levels = 0 \/ \E k \in Positions : slots[k].report = None
          /\ Ended(r, "failed")
          /\ calm' = 0
    /\ UNCHANGED <<directory, levels, alone, fair, faults>>

-----------------------------------------------------------------------------
(* misurazione_livelli.sh                                                  *)

\* Mutated form of Level: one level more than was asked for.
Level_OneMore(r) ==
    LET s == run[r].pick[run[r].k].suite
    IN  /\ run[r].at = "level" /\ run[r].k <= run[r].levels + 1
        /\ run' = [run EXCEPT ![r].k = @ + 1]
        /\ UNCHANGED <<project, order, report, tests, slots, levels, history, faults>>

\* A level: its suite is measured; the report replaces that of an earlier level, and
\* the tests move into the directory of the level unless there are some already.
\* Without a class to name it, it goes where nobody looks.
Level(r) ==
    LET c == run[r].named
        i == run[r].k
        s == run[r].pick[i].suite
        d == slots[s].tests
        there == IF c = NoClass THEN NoLevel ELSE levels[c][i]
        scored == [there EXCEPT !.score = IF report = None THEN d[c] ELSE report.of, !.scored = r]
        Put(l) == IF c = NoClass THEN UNCHANGED levels
                  ELSE levels' = [levels EXCEPT ![c][i] =
                           IF l.tests = NoTests /\ d # NoTests
                           THEN [l EXCEPT !.tests = d, !.by = r] ELSE l]
    IN  /\ run[r].at = "level" /\ i <= run[r].levels
        /\ \/ c # NoClass /\ Compile(d, c) /\ Put(scored) /\ UNCHANGED faults
           \/ /\ Put(IF report = None THEN there ELSE scored)
              /\ IF c # NoClass /\ Compile(d, c) THEN Fault ELSE UNCHANGED faults
        /\ slots' = [slots EXCEPT ![s].tests = Left(there.tests, NoTests, @)]
        /\ report' = None
        /\ run' = [run EXCEPT ![r].k = i + 1]
        /\ UNCHANGED <<project, order, tests, history>>

\* Mutated form of Clear: the last place is left as it is.
Clear_KeepsLast(r) ==
    /\ run[r].at = "level" /\ run[r].k > run[r].levels
    /\ slots' = [k \in Positions |-> IF k = Suites - 1 THEN slots[k] ELSE Empty]
    /\ project' = NoTests /\ report' = None /\ order' = NoOrder
    /\ Ended(r, "done")
    /\ calm' = IF r \in alone /\ calm < 2 THEN calm + 1 ELSE IF r \in alone THEN 2 ELSE 0
    /\ UNCHANGED <<tests, levels, alone, fair, faults>>

\* The end: everything is removed but evosuite-tests.
Clear(r) ==
    /\ run[r].at = "level" /\ run[r].k > run[r].levels
    /\ slots' = [k \in Positions |-> Empty]
    /\ project' = NoTests /\ report' = None /\ order' = NoOrder
    /\ Ended(r, "done")
    /\ calm' = IF r \in alone /\ calm < 2 THEN calm + 1 ELSE IF r \in alone THEN 2 ELSE 0
    /\ UNCHANGED <<tests, levels, alone, fair, faults>>

\* The script is killed, with the container of T1 or by hand.
Kill(r) ==
    /\ r \in InFlight /\ Fault
    /\ Ended(r, "failed")
    /\ calm' = 0
    /\ UNCHANGED <<directory, levels, alone, fair>>

-----------------------------------------------------------------------------
Init ==
    /\ run = [r \in Runs |-> Idle]
    /\ project = NoTests /\ order = NoOrder /\ report = None /\ tests = NoTests
    /\ slots = [k \in Positions |-> Empty]
    /\ levels = [c \in Classes |-> [i \in Levels |-> NoLevel]]
    /\ alone = {} /\ fair = {} /\ calm = 2 /\ faults = 0

Step(r) == Start(r) \/ Generate(r) \/ Move(r) \/ Select(r) \/ Level(r) \/ Clear(r) \/ Kill(r)
Next == \E r \in Runs : Step(r)

Spec == Init /\ [][Next]_vars

-----------------------------------------------------------------------------
(* Properties.                                                             *)

Versions == 0 .. MaxRuns
TestDirs == [Classes -> Versions]
Reports == {None} \cup [of : Versions, last : Coverages]
PickTypes == [suite : Positions, coverage : Coverages \cup {0}]
RunTypes == [at : {"off", "generate", "move", "select", "level", "done", "failed"},
             class : Classes \cup {NoClass}, k : 0 .. Suites + MaxLevel, levels : 0 .. MaxLevel,
             named : Classes \cup {NoClass}, pick : [Levels -> PickTypes]]

\* The types of the runs, of the directory they share and of the levels.  A pick is
\* one of the suites, and the script goes round its two loops no further than their
\* ends.
TypeOK ==
    /\ run \in [Runs -> RunTypes]
    /\ \A r \in Runs : /\ run[r].at # "off" => run[r].class \in Classes
                       /\ run[r].at \in {"generate", "move"} => run[r].k < Suites
                       /\ run[r].at = "level" => run[r].k \in 1 .. run[r].levels + 1
    /\ project \in TestDirs /\ tests \in TestDirs
    /\ order \in [class : Classes \cup {NoClass}, levels : 0 .. MaxLevel]
    /\ report \in Reports
    /\ slots \in [Positions -> [report : Reports, tests : TestDirs]]
    /\ levels \in [Classes -> [Levels ->
           [tests : TestDirs, score : Versions, by : Versions, scored : Versions]]]
    /\ alone \subseteq Runs /\ fair \subseteq alone /\ calm \in 0 .. 2 /\ faults \in 0 .. MaxFaults

\* A run that overlaps no other, after two that ended and cleared up (or none at
\* all), makes levels of its own: the tests it stores are those of its version of
\* its class and nothing else, and the score it stores is of them.  After a run that
\* was cut short one that ends is not enough: evosuite-tests is not removed, and is
\* put aside by the next run only.
LevelsAreItsOwn ==
    \A c \in Classes, i \in Levels :
        LET l == levels[c][i]
        IN  /\ l.by \in fair => l.tests = [NoTests EXCEPT ![c] = l.by] /\ run[l.by].class = c
            /\ l.scored \in fair => l.score = l.scored /\ run[l.scored].class = c

\* The levels of such a run are different suites of growing coverage, and the
\* highest of several is the best of all suites.
LevelsAreRanked ==
    \A r \in fair : run[r].at = "level" =>
        LET pick == run[r].pick
        IN  /\ \A i, j \in 1 .. run[r].levels : i < j =>
                   /\ pick[i].suite # pick[j].suite
                   /\ pick[i].coverage <= pick[j].coverage
            /\ run[r].levels > 1 => \A k \in Positions :
                   slots[k].report.last <= pick[run[r].levels].coverage
=============================================================================

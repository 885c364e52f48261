---------------------------- MODULE RandoopLevels ---------------------------
(***************************************************************************)
(* The generation of Randoop's levels, T9: Main walks over the classes of  *)
(* the shared volume and, for each class without a first level, runs       *)
(* robot.sh again and again (RandoopSubject.file_testing) and keeps a run  *)
(* as a new level when its coverage is higher than that of the last level. *)
(*                                                                         *)
(* Every upload of T1 starts a process of its own, so that several of them *)
(* may work in the same directories: the directories of the iterations,    *)
(* which each of them removes for all classes when it ends one class, and  *)
(* ./classes, which is instrumented as a whole and emptied.                *)
(*                                                                         *)
(* The coverage of a class is the set of the blocks that were executed.    *)
(***************************************************************************)
EXTENDS Integers, FiniteSets

CONSTANTS
    Classes,
    Processes,        \* runs of T9, each started once
    Blocks,           \* the blocks of a class
    LinePercent(_),   \* share of the lines of a class in a set of its blocks
    MaxIter, MaxSat, MaxLevel,
    NoReport,         \* a directory without a report
    None              \* no directory, no level, no class

Iterations == 0 .. MaxIter - 1
Levels == 1 .. MaxLevel
Coverages == [blocks : SUBSET Blocks, over : (SUBSET Classes) \ {{}}]

ASSUME LimitsAssumption ==
    /\ MaxIter \in Nat \ {0} /\ MaxSat \in Nat \ {0} /\ MaxLevel \in Nat \ {0}
    /\ IsFiniteSet(Classes)
    /\ None \notin Coverages \cup Classes \cup {NoReport} /\ NoReport \notin Coverages

\* A class is covered wholly by all of its blocks, and more blocks are never less.
ASSUME PercentAssumption ==
    /\ \A B \in SUBSET Blocks : LinePercent(B) \in 0 .. 100
    /\ \A A, B \in SUBSET Blocks : A \subseteq B => LinePercent(A) <= LinePercent(B)

VARIABLES
    source,     \* the source of a class: absent, under its own name, or another
    dirs,       \* dati_di_copertura directory of each iteration: its coverage,
                \* NoReport, or None when there is no directory
    tested,     \* the iterations of a class with tests: the directory <class>_Test,
                \* which a run makes when it writes tests
    levels,     \* each level of a class: its coverage, NoReport, or None
    compiled,   \* the classes in ./classes
    scripts,    \* the robot.sh at work: [class, iter]
    gen,        \* where each process is
    disturbed,  \* history: classes not generated alone and from a clean start
    testless    \* history: classes with a level made by a run that wrote no tests

vars == <<source, dirs, tested, levels, compiled, scripts, gen, disturbed, testless>>

-----------------------------------------------------------------------------
NoDirs == [i \in Iterations |-> None]
Working == {p \in Processes : gen[p].class # None}
Goto(p, step) == gen' = [gen EXCEPT ![p].at = step]
Dir(p) == dirs[gen[p].class][gen[p].iter]

\* What the line "all classes" of an EMMA report says: of all instrumented classes
\* only the one under test is executed.
Percent(coverage) == LinePercent(coverage.blocks) \div Cardinality(coverage.over)

\* EmmaCoverage.LineCoverage reads two characters of the figure.
LineCoverage(coverage) == IF Percent(coverage) = 100 THEN 10 ELSE Percent(coverage)

\* The variables of file_testing at its start; those of a process that generates
\* nothing are the same.
At(step, todo, class) ==
    [at |-> step, todo |-> todo, class |-> class,
     iter |-> 0, sat |-> 0, level |-> 0, cov |-> 0, exCov |-> 0]

\* RunRandoop.Run starts robot.sh and does not wait for it to end.
Launch(p, state) ==
    /\ gen' = [gen EXCEPT ![p] = state]
    /\ scripts' = scripts \cup {[class |-> state.class, iter |-> state.iter]}

-----------------------------------------------------------------------------
(* T1 places a class and starts the process.                               *)

PlaceSource(c, name) ==
    /\ source[c] = "absent"
    /\ source' = [source EXCEPT ![c] = name]
    /\ UNCHANGED <<dirs, tested, levels, compiled, scripts, gen, disturbed, testless>>

Start(p) ==
    /\ gen[p].at = "off"
    /\ gen' = [gen EXCEPT ![p] = At("next", {c \in Classes : source[c] # "absent"}, None)]
    /\ UNCHANGED <<source, dirs, tested, levels, compiled, scripts, disturbed, testless>>

-----------------------------------------------------------------------------
(* Main, for the next class of the list.                                   *)

Skip(p, c) ==
    /\ gen[p].at = "next" /\ c \in gen[p].todo
    /\ levels[c][1] # None
    /\ gen' = [gen EXCEPT ![p].todo = @ \ {c}]
    /\ UNCHANGED <<source, dirs, tested, levels, compiled, scripts, disturbed, testless>>

\* Nothing is left of other runs, and no other process is at work.
Undisturbed(c) ==
    Working = {} /\ scripts = {} /\ compiled = {} /\ dirs[c] = NoDirs

\* Mutated form of Begin: a class that has levels is generated again.
Begin_Again(p, c) ==
    /\ gen[p].at = "next" /\ c \in gen[p].todo
    /\ source[c] = "named"
    /\ compiled' = compiled \cup {c}
    /\ Launch(p, At("poll", gen[p].todo \ {c}, c))
    /\ disturbed' = IF Undisturbed(c) THEN disturbed
                    ELSE disturbed \cup {c} \cup {gen[q].class : q \in Working}
    /\ UNCHANGED <<source, dirs, tested, levels, testless>>

\* The start of file_testing: the source is copied to ./classes and run.
Begin(p, c) ==
    /\ gen[p].at = "next" /\ c \in gen[p].todo
    /\ levels[c][1] = None
    /\ source[c] = "named"
    /\ compiled' = compiled \cup {c}
    /\ Launch(p, At("poll", gen[p].todo \ {c}, c))
    /\ disturbed' = IF Undisturbed(c) THEN disturbed
                    ELSE disturbed \cup {c} \cup {gen[q].class : q \in Working}
    /\ UNCHANGED <<source, dirs, tested, levels, testless>>

Ended(p, how) == gen' = [gen EXCEPT ![p] = At(how, {}, None)]

\* The source of a class has another name than the class: the copy throws, and
\* the classes after it are not looked at.
Misnamed(p, c) ==
    /\ gen[p].at = "next" /\ c \in gen[p].todo
    /\ levels[c][1] = None
    /\ source[c] = "misnamed"
    /\ Ended(p, "failed")
    /\ UNCHANGED <<source, dirs, tested, levels, compiled, scripts, disturbed, testless>>

EndOfList(p) ==
    /\ gen[p].at = "next" /\ gen[p].todo = {}
    /\ Ended(p, "done")
    /\ UNCHANGED <<source, dirs, tested, levels, compiled, scripts, disturbed, testless>>

-----------------------------------------------------------------------------
(* One iteration of file_testing.                                          *)

\* Mutated form of Merged: the report is that of the last run only.
Merged_LastRun(s, run) == run

\* The report after the merge with the run before it, when there is one.
Merged(s, run) ==
    IF s.iter > 0 /\ dirs[s.class][s.iter - 1] \in Coverages
    THEN LET before == dirs[s.class][s.iter - 1]
         IN  [blocks |-> run.blocks \cup before.blocks, over |-> run.over \cup before.over]
    ELSE run

\* Randoop writes tests for a run, or none: a test it tries may end its process.
WriteTests(s) == \/ tested' = [tested EXCEPT ![s.class] = @ \cup {s.iter}]
                 \/ UNCHANGED tested

\* Mutated form of Script: an archive is made only when the run was measured.
Script_NoArchive(s) ==
    /\ scripts' = scripts \ {s}
    /\ \/ /\ s.class \in compiled
          /\ \E blocks \in SUBSET Blocks :
                dirs' = [dirs EXCEPT ![s.class][s.iter] =
                            Merged(s, [blocks |-> blocks, over |-> compiled])]
       \/ UNCHANGED dirs
    /\ WriteTests(s)
    /\ UNCHANGED <<source, levels, compiled, gen, disturbed, testless>>

\* robot.sh: all of ./classes is instrumented and the class is run.  Whatever
\* failed on the way, the archive the process waits for is made at the end.
Script(s) ==
    /\ scripts' = scripts \ {s}
    /\ \/ /\ s.class \in compiled
          /\ \E blocks \in SUBSET Blocks :
                dirs' = [dirs EXCEPT ![s.class][s.iter] =
                            Merged(s, [blocks |-> blocks, over |-> compiled])]
       \/ dirs' = [dirs EXCEPT ![s.class][s.iter] = IF @ = None THEN NoReport ELSE @]
    /\ WriteTests(s)
    /\ UNCHANGED <<source, levels, compiled, gen, disturbed, testless>>

\* The archive is there.
Poll(p) ==
    /\ gen[p].at = "poll"
    /\ Dir(p) # None
    /\ Goto(p, "read")
    /\ UNCHANGED <<source, dirs, tested, levels, compiled, scripts, disturbed, testless>>

\* Mutated form of Continue: one iteration too many.
Continue_OneMore(p, state) ==
    IF state.iter < MaxIter /\ state.sat < MaxSat /\ state.level < MaxLevel
    THEN Launch(p, [state EXCEPT !.at = "poll", !.iter = @ + 1])
    ELSE gen' = [gen EXCEPT ![p] = [state EXCEPT !.at = "clear"]] /\ UNCHANGED scripts

\* The end of an iteration and the condition of the loop.
Continue(p, state) ==
    IF state.iter + 1 < MaxIter /\ state.sat < MaxSat /\ state.level < MaxLevel
    THEN Launch(p, [state EXCEPT !.at = "poll", !.iter = @ + 1])
    ELSE gen' = [gen EXCEPT ![p] = [state EXCEPT !.at = "clear"]] /\ UNCHANGED scripts

\* The report is read: more than the last level covers makes a new level, and a
\* missing report ends the process with an exception.
Read(p) ==
    LET cov == LineCoverage(Dir(p)) IN
    /\ gen[p].at = "read"
    /\ \/ /\ Dir(p) \notin Coverages
          /\ Ended(p, "failed") /\ UNCHANGED scripts
       \/ /\ Dir(p) \in Coverages /\ gen[p].exCov >= cov
          /\ Continue(p, [gen[p] EXCEPT !.sat = @ + 1])
       \/ /\ Dir(p) \in Coverages /\ gen[p].exCov < cov
          /\ gen' = [gen EXCEPT ![p] = [gen[p] EXCEPT !.at = "mkdir", !.sat = 0,
                                                      !.cov = cov, !.level = @ + 1]]
          /\ UNCHANGED scripts
    /\ UNCHANGED <<source, dirs, tested, levels, compiled, disturbed, testless>>

MakeLevel(p) ==
    /\ gen[p].at = "mkdir"
    /\ levels' = [levels EXCEPT ![gen[p].class][gen[p].level] =
                      IF @ = None THEN NoReport ELSE @]
    /\ Goto(p, "copy")
    /\ UNCHANGED <<source, dirs, tested, compiled, scripts, disturbed, testless>>

\* Mutated form of LastReport: the report of the first iteration is kept.
LastReport_First(c, iter) ==
    LET found == {i \in (0 .. iter) \cap tested[c] : dirs[c][i] \in Coverages}
    IN  {i \in found : \A j \in found : i <= j}

\* The iterations that have tests are copied into the level one after the other, so
\* that the last report found is the one that stays.
LastReport(c, iter) ==
    LET found == {i \in (0 .. iter) \cap tested[c] : dirs[c][i] \in Coverages}
    IN  {i \in found : \A j \in found : j <= i}

\* A level whose own run wrote no tests gets the report of an earlier one, if any.
CopyLevel(p) ==
    LET c == gen[p].class IN
    /\ gen[p].at = "copy"
    /\ levels' = [levels EXCEPT ![c][gen[p].level] =
                      IF LastReport(c, gen[p].iter) = {} THEN @
                      ELSE dirs[c][CHOOSE i \in LastReport(c, gen[p].iter) : TRUE]]
    /\ testless' = IF gen[p].iter \in tested[c] THEN testless ELSE testless \cup {c}
    /\ Continue(p, [gen[p] EXCEPT !.exCov = gen[p].cov, !.cov = 0])
    /\ UNCHANGED <<source, dirs, tested, compiled, disturbed>>

\* Mutated form of Clear: ./classes is not emptied.
Clear_KeepsClasses(p) ==
    /\ gen[p].at = "clear"
    /\ dirs' = [c \in Classes |-> NoDirs] /\ tested' = [c \in Classes |-> {}]
    /\ gen' = [gen EXCEPT ![p] = At("next", @.todo, None)]
    /\ UNCHANGED <<source, levels, compiled, scripts, disturbed, testless>>

\* The end of file_testing: the directories of the iterations of all classes are
\* removed, and everything in ./classes.
Clear(p) ==
    /\ gen[p].at = "clear"
    /\ dirs' = [c \in Classes |-> NoDirs] /\ tested' = [c \in Classes |-> {}]
    /\ compiled' = {}
    /\ gen' = [gen EXCEPT ![p] = At("next", @.todo, None)]
    /\ UNCHANGED <<source, levels, scripts, disturbed, testless>>

-----------------------------------------------------------------------------
\* A process is killed; its script goes on.
Crash(p) ==
    /\ gen[p].at \notin {"off", "done", "failed"}
    /\ Ended(p, "failed")
    /\ UNCHANGED <<source, dirs, tested, levels, compiled, scripts, disturbed, testless>>

\* The container is restarted: every process and every script is killed.
Restart ==
    /\ gen' = [p \in Processes |->
                  IF gen[p].at \in {"off", "done"} THEN gen[p]
                  ELSE At("failed", {}, None)]
    /\ scripts' = {}
    /\ UNCHANGED <<source, dirs, tested, levels, compiled, disturbed, testless>>

\* T9-G19/README.md:19: the administrator removes what a killed process has left,
\* except for the levels.
Recover ==
    /\ Working = {}
    /\ dirs' = [c \in Classes |-> NoDirs] /\ tested' = [c \in Classes |-> {}]
    /\ UNCHANGED <<source, levels, compiled, scripts, gen, disturbed, testless>>

Init ==
    /\ source = [c \in Classes |-> "absent"]
    /\ dirs = [c \in Classes |-> NoDirs] /\ tested = [c \in Classes |-> {}]
    /\ levels = [c \in Classes |-> [l \in Levels |-> None]]
    /\ compiled = {} /\ scripts = {} /\ disturbed = {} /\ testless = {}
    /\ gen = [p \in Processes |-> At("off", {}, None)]

Step(p) ==
    \/ \E c \in Classes : Skip(p, c) \/ Begin(p, c) \/ Misnamed(p, c)
    \/ EndOfList(p) \/ Poll(p) \/ Read(p)
    \/ MakeLevel(p) \/ CopyLevel(p) \/ Clear(p)

Next ==
    \/ \E c \in Classes, name \in {"named", "misnamed"} : PlaceSource(c, name)
    \/ \E p \in Processes : Start(p) \/ Step(p) \/ Crash(p)
    \/ \E s \in scripts : Script(s)
    \/ Restart \/ Recover

Spec == Init /\ [][Next]_vars

-----------------------------------------------------------------------------
(* Properties.                                                             *)

Steps == {"off", "next", "poll", "read", "mkdir", "copy", "clear", "done", "failed"}

\* Every variable keeps its type; the counters of the loop stay within its limits.
TypeOK ==
    /\ source \in [Classes -> {"absent", "named", "misnamed"}]
    /\ dirs \in [Classes -> [Iterations -> Coverages \cup {NoReport, None}]]
    /\ levels \in [Classes -> [Levels -> Coverages \cup {NoReport, None}]]
    /\ tested \in [Classes -> SUBSET Iterations]
    /\ compiled \in SUBSET Classes /\ disturbed \in SUBSET Classes /\ testless \in SUBSET Classes
    /\ scripts \in SUBSET [class : Classes, iter : Iterations]
    /\ gen \in [Processes -> [at : Steps, todo : SUBSET Classes, class : Classes \cup {None},
                              iter : Iterations, sat : 0 .. MaxIter, level : 0 .. MaxLevel,
                              cov : 0 .. 100, exCov : 0 .. 100]]

Measured(c, l) == levels[c][l] \in Coverages

\* The levels of a class generated alone never cover less than one below them; and
\* if every run that made a level wrote tests, they are numbered without a gap and each
\* covers more than the one below it.  Both hold although the figure 100 is read as
\* 10: only because every run is merged with the one before it.
LevelsGrow ==
    \A c \in Classes \ disturbed : \A l, m \in Levels : l < m /\ Measured(c, m) =>
        /\ Measured(c, l) => Percent(levels[c][l]) <= Percent(levels[c][m])
        /\ c \notin testless =>
              Measured(c, l) /\ Percent(levels[c][l]) < Percent(levels[c][m])

\* When the generation of a class ends undisturbed, no run with tests covered more than
\* the last level; only a whole coverage may have been missed, or one that a run
\* without tests had reached before, for which a level was made without its report.
BestRunIsALevel ==
    \A p \in Processes : gen[p].at = "clear" /\ gen[p].class \notin disturbed =>
        LET c == gen[p].class  last == gen[p].level
        IN  \A i \in (0 .. gen[p].iter) \cap tested[c] :
                \/ Percent(dirs[c][i]) \in {0, 100}
                \/ /\ last > 0 /\ Measured(c, last)
                   /\ Percent(dirs[c][i]) <= Percent(levels[c][last])
                \/ \E j \in (0 .. i - 1) \ tested[c] : Percent(dirs[c][j]) = Percent(dirs[c][i])

\* A level that was measured stays as it is: later uploads do not generate the
\* class again.
LevelsStay ==
    [][\A c \in Classes : \A l \in Levels :
          Measured(c, l) /\ c \notin disturbed' => levels'[c][l] = levels[c][l]]_vars

\* A process that waits for the archive of a run, without a limit, finds it or has
\* a script at work that will make it, unless another process has disturbed it.
AwaitedArchiveComes ==
    \A p \in Processes : gen[p].at = "poll" /\ gen[p].class \notin disturbed =>
        \/ Dir(p) # None
        \/ [class |-> gen[p].class, iter |-> gen[p].iter] \in scripts

\* Processes that end normally and one after the other leave nothing behind: the
\* next class is not merged with, nor measured together with, an earlier one.
NothingIsLeft ==
    (/\ Working = {} /\ scripts = {} /\ disturbed = {}
     /\ \A p \in Processes : gen[p].at # "failed")
        => compiled = {} /\ \A c \in Classes : dirs[c] = NoDirs
=============================================================================

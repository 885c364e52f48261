--------------------------- MODULE EvoLevels_proofs ---------------------------
(***************************************************************************)
(* Proofs about EvoLevels, for any number of runs, classes, suites and     *)
(* faults.  What a run may make of the directory follows from what the two *)
(* runs before it have left there.                                         *)
(***************************************************************************)
EXTENDS EvoLevels, TLAPS

\* A run that has met no other is the only one in flight.
AloneIsAlone == \A r \in alone : r \in InFlight => InFlight = {r}

\* A fair run in flight is in a calm directory, and whoever is in one is alone.
CalmOrAlone ==
    /\ calm # 0 => InFlight \subseteq alone
    /\ \A r \in fair : r \in InFlight => calm = 2

\* A run that has not begun has its variables as they were at the start.
OffIsIdle == \A r \in Runs : run[r].at = "off" => run[r] = Idle

\* It has brought nothing and met nobody.
OffBringsNothing ==
    /\ \A r \in alone : run[r].at # "off"
    /\ \A c \in Classes, i \in Levels : \A r \in Runs :
           levels[c][i].by = r \/ levels[c][i].scored = r => run[r].at # "off"

\* The tests of a run, and nothing else.
Own(r) == [NoTests EXCEPT ![run[r].class] = r]

\* After one complete run only evosuite-tests may be left, after two nothing is.
Quiet ==
    calm # 0 /\ InFlight = {} =>
        /\ \A j \in Positions : slots[j] = Empty
        /\ project = NoTests /\ report = None
        /\ calm = 2 => tests = NoTests

\* What a run finds in a calm directory: the places it has yet to fill are empty,
\* and once it has filled the first one nothing of others is left in evosuite-tests.
InWork(r) ==
    /\ project = Own(r) /\ order.class = run[r].class
    /\ run[r].at = "generate" => report = None
    /\ run[r].at \in {"generate", "move"} =>
           \A j \in Positions : run[r].k <= j => slots[j] = Empty
    /\ run[r].at = "generate" /\ run[r].k > 0 => tests = NoTests
    /\ run[r].at \in {"select", "level"} => tests = NoTests /\ report = None
    /\ run[r].at = "level" => run[r].named = run[r].class
    /\ calm = 2 => /\ tests \in {NoTests, Own(r)}
                   /\ \A j \in Positions : slots[j].tests \in {NoTests, Own(r)}
CalmWork == calm # 0 => \A r \in InFlight : InWork(r)

\* The inductive invariant.
IInv ==
    /\ TypeOK
    /\ OffIsIdle
    /\ AloneIsAlone
    /\ CalmOrAlone
    /\ OffBringsNothing
    /\ Quiet
    /\ CalmWork
    /\ LevelsAreItsOwn
    /\ LevelsAreRanked

-----------------------------------------------------------------------------
(* The selection.                                                          *)

\* With 13 suites there are places enough for the 10 levels of Randoop, and one
\* level more: the assumption on the ranks holds for the numbers of the code.
THEOREM RanksOfThirteen ==
    ASSUME Suites = 13, MaxLevel \in 0 .. 11
    PROVE  RanksGrow
<1> SUFFICES ASSUME NEW n \in 1 .. 11, NEW i \in 1 .. n, NEW j \in 1 .. n
             PROVE  /\ Rank(n, i) \in 0 .. 12
                    /\ i < j => Rank(n, i) < Rank(n, j)
  BY SMTT(30) DEF RanksGrow, Levels, Positions
<1>1. Middle = 7
  BY DEF Middle
<1>2. CASE n = 1
  BY <1>1, <1>2 DEF Rank
<1>3. CASE n = 2
  BY <1>1, <1>3 DEF Rank
<1>4. CASE n = 3
  BY <1>1, <1>4 DEF Rank
<1>5. CASE n = 4
  BY <1>1, <1>5 DEF Rank
<1>6. CASE n = 5
  BY <1>1, <1>6 DEF Rank
<1>7. CASE n = 6
  BY <1>1, <1>7 DEF Rank
<1>8. CASE n = 7
  BY <1>1, <1>8 DEF Rank
<1>9. CASE n = 8
  BY <1>1, <1>9 DEF Rank
<1>10. CASE n = 9
  BY <1>1, <1>10 DEF Rank
<1>11. CASE n = 10
  BY <1>1, <1>11 DEF Rank
<1>12. CASE n = 11
  BY <1>1, <1>12 DEF Rank
<1> QED
  BY <1>2, <1>3, <1>4, <1>5, <1>6, <1>7, <1>8, <1>9, <1>10, <1>11, <1>12

\* The picks of a selection: one suite for each level asked for, of growing coverage,
\* the last of which is no lower than that of any other suite.
LEMMA PicksAreRanked ==
    ASSUME TypeOK, NEW n \in 0 .. MaxLevel, n # 0, NEW o \in Orders
    PROVE  LET pick == Picks(o, n)
           IN  /\ \A i, j \in 1 .. n : i < j => /\ pick[i].suite # pick[j].suite
                                                /\ pick[i].coverage <= pick[j].coverage
               /\ n > 1 => \A k \in Positions : slots[k].report.last <= pick[n].coverage
<1>0. n \in Levels /\ 1 .. n \subseteq Levels /\ o \in [Positions -> Positions]
  BY EvoAssumption DEF Levels, Orders
<1>1. \A k \in Positions : slots[k].report.last \in Int
  <2>1. \A e \in Reports : e.last \in Int
    <3>1. None.last \in Int
      BY DEF None
    <3>2. \A e \in [of : Versions, last : Coverages] : e.last \in Coverages
      OBVIOUS
    <3>3. Coverages \subseteq Int
      BY EvoAssumption
    <3> QED
      BY <3>1, <3>2, <3>3 DEF Reports
  <2>2. \A k \in Positions : slots[k].report \in Reports
    BY DEF TypeOK
  <2> QED
    BY <2>1, <2>2
<1>2. ASSUME NEW p \in Positions, NEW q \in Positions, p < q
      PROVE  o[p] # o[q] /\ slots[o[p]].report.last <= slots[o[q]].report.last
  <2>1. \/ slots[o[p]].report.last < slots[o[q]].report.last
        \/ slots[o[p]].report.last = slots[o[q]].report.last /\ o[p] < o[q]
    BY <1>2 DEF Orders, Sorted
  <2>2. o[p] \in Positions /\ o[q] \in Positions
    BY <1>0
  <2>3. o[p] \in Int /\ o[q] \in Int
    BY <2>2 DEF Positions
  <2>4. slots[o[p]].report.last \in Int /\ slots[o[q]].report.last \in Int
    BY <2>2, <1>1
  <2> HIDE DEF Positions
  <2> QED
    BY <2>1, <2>3, <2>4
<1>3. ASSUME NEW i \in 1 .. n, NEW j \in 1 .. n, i < j
      PROVE  /\ Picks(o, n)[i].suite # Picks(o, n)[j].suite
             /\ Picks(o, n)[i].coverage <= Picks(o, n)[j].coverage
  <2>1. Rank(n, i) \in Positions /\ Rank(n, j) \in Positions /\ Rank(n, i) < Rank(n, j)
    BY <1>0, <1>3, RanksAssumption DEF RanksGrow
  <2>2. \A l \in 1 .. n : Picks(o, n)[l] = [suite |-> o[Rank(n, l)],
                                            coverage |-> slots[o[Rank(n, l)]].report.last]
    BY <1>0 DEF Picks
  <2>3. Picks(o, n)[i] = [suite |-> o[Rank(n, i)], coverage |-> slots[o[Rank(n, i)]].report.last]
    BY <2>2
  <2>4. Picks(o, n)[j] = [suite |-> o[Rank(n, j)], coverage |-> slots[o[Rank(n, j)]].report.last]
    BY <2>2
  <2> QED
    BY <1>2, <2>1, <2>3, <2>4
<1>4. ASSUME n > 1, NEW k \in Positions
      PROVE  slots[k].report.last <= Picks(o, n)[n].coverage
  <2>1. Rank(n, n) = Suites - 1
    BY <1>4, EvoAssumption DEF Rank
  <2>2. Picks(o, n)[n].coverage = slots[o[Suites - 1]].report.last
    BY <1>0, <1>4, <2>1 DEF Picks
  <2>3. PICK p \in Positions : o[p] = k
    BY DEF Orders
  <2>4. p = Suites - 1 \/ p < Suites - 1
    BY EvoAssumption DEF Positions
  <2>5. Suites - 1 \in Positions
    BY EvoAssumption DEF Positions
  <2> QED
    BY <1>0, <1>1, <1>2, <2>2, <2>3, <2>4, <2>5
<1> QED
  BY <1>3, <1>4

-----------------------------------------------------------------------------
(* Types.                                                                  *)

\* Nothing, and what is made of it, has its types.
LEMMA EmptyTypes ==
    /\ NoTests \in TestDirs /\ None \in Reports /\ Idle \in RunTypes
    /\ Empty \in [report : Reports, tests : TestDirs]
    /\ NoLevel \in [tests : TestDirs, score : Versions, by : Versions, scored : Versions]
    /\ NoPick \in PickTypes
    /\ NoOrder \in [class : Classes \cup {NoClass}, levels : 0 .. MaxLevel]
<1>1. 0 \in Versions /\ 0 \in Positions
  BY EvoAssumption DEF Versions, Positions
<1>2. NoPick \in PickTypes
  BY <1>1 DEF NoPick, PickTypes
<1>3. Idle \in RunTypes
  BY <1>2, EvoAssumption DEF Idle, RunTypes
<1> QED
  BY <1>1, <1>2, <1>3, EvoAssumption DEF NoTests, TestDirs, None, Reports, Empty, NoLevel, NoOrder

\* Moving a directory of tests or a report makes none of another type.
LEMMA MovedTypes ==
    ASSUME NEW S, NEW there \in S, NEW nothing \in S, NEW it \in S
    PROVE  Moved(there, nothing, it) \in S /\ Left(there, nothing, it) \in S
BY DEF Moved, Left

\* A report with one more row is a report.
LEMMA AddedType ==
    ASSUME report \in Reports, NEW version \in Versions, NEW v \in Coverages
    PROVE  Added(version, v) \in Reports
<1>1. CASE report = None
  BY <1>1 DEF Added, Reports
<1>2. CASE report # None
  <2>1. report.of \in Versions
    BY <1>2 DEF Reports
  <2> QED
    BY <1>2, <2>1 DEF Added, Reports
<1> QED
  BY <1>1, <1>2

\* A run that ends keeps no variable, and the others keep theirs.
LEMMA EndedType ==
    ASSUME TypeOK, OffIsIdle, NEW r \in Runs, NEW how \in {"done", "failed"}, Ended(r, how)
    PROVE  /\ run' \in [Runs -> RunTypes]
           /\ run'[r].at = how /\ run'[r].class = run[r].class
           /\ \A q \in Runs \ {r} : run'[q] = run[q]
<1>1. run \in [Runs -> RunTypes] /\ run[r] \in RunTypes
  BY DEF TypeOK
<1>2. DEFINE ended == [Idle EXCEPT !.at = how, !.class = run[r].class]
<1>3. run' = [run EXCEPT ![r] = ended]
  BY DEF Ended
<1>4. ended \in RunTypes /\ ended.at = how /\ ended.class = run[r].class
  BY <1>1, EmptyTypes DEF RunTypes
<1> QED
  BY <1>1, <1>3, <1>4

\* A run with some of its variables changed.
LEMMA RunType ==
    ASSUME TypeOK, NEW r \in Runs, NEW l \in RunTypes, run' = [run EXCEPT ![r] = l]
    PROVE  /\ run' \in [Runs -> RunTypes] /\ run'[r] = l
           /\ \A q \in Runs \ {r} : run'[q] = run[q]
BY DEF TypeOK

\* The types of the runs and of where they are in their loops.
LoopsOK ==
    /\ run \in [Runs -> RunTypes]
    /\ \A r \in Runs : /\ run[r].at # "off" => run[r].class \in Classes
                       /\ run[r].at \in {"generate", "move"} => run[r].k < Suites
                       /\ run[r].at = "level" => run[r].k \in 1 .. run[r].levels + 1
    /\ OffIsIdle

\* The picks of a selection have their type.
LEMMA PicksType ==
    ASSUME TypeOK, NEW n \in 0 .. MaxLevel, n # 0, NEW o \in Orders,
           \A k \in Positions : slots[k].report # None
    PROVE  Picks(o, n) \in [Levels -> PickTypes]
<1>0. n \in Levels /\ o \in [Positions -> Positions]
  BY EvoAssumption DEF Levels, Orders
<1>1. \A k \in Positions : slots[k].report.last \in Coverages
  BY DEF TypeOK, Reports
<1>2. \A i \in 1 .. n : o[Rank(n, i)] \in Positions
  BY <1>0, RanksAssumption DEF RanksGrow
<1>3. ASSUME NEW i \in Levels
      PROVE  (IF i <= n THEN [suite |-> o[Rank(n, i)], coverage |-> slots[o[Rank(n, i)]].report.last]
              ELSE NoPick) \in PickTypes
  <2>1. CASE i <= n
    <3>1. i \in 1 .. n
      BY <2>1, <1>0 DEF Levels
    <3> QED
      BY <2>1, <3>1, <1>1, <1>2 DEF PickTypes
  <2>2. CASE ~(i <= n)
    BY <2>2, EmptyTypes
  <2> QED
    BY <2>1, <2>2
<1> QED
  BY <1>3 DEF Picks

\* The steps keep the types of the runs.
LEMMA LoopsStep ==
    ASSUME TypeOK, OffIsIdle, NEW r \in Runs, Step(r)
    PROVE  LoopsOK'
<1>0. run[r] \in RunTypes /\ run \in [Runs -> RunTypes]
  BY DEF TypeOK
<1> DEFINE ok(l) == /\ l \in RunTypes /\ l.at # "off" /\ l.class \in Classes
                    /\ l.at \in {"generate", "move"} => l.k < Suites
                    /\ l.at = "level" => l.k \in 1 .. l.levels + 1
<1>1. ASSUME NEW l, ok(l), run' = [run EXCEPT ![r] = l]
      PROVE  LoopsOK'
  <2>1. /\ run' \in [Runs -> RunTypes] /\ run'[r] = l
        /\ \A q \in Runs \ {r} : run'[q] = run[q]
    BY <1>1, RunType
  <2> QED
    BY <2>1, <1>1 DEF TypeOK, OffIsIdle, LoopsOK
<1> HIDE DEF ok
<1>2. ASSUME NEW how \in {"done", "failed"}, Ended(r, how), run[r].at # "off"
      PROVE  LoopsOK'
  <2>1. /\ run' \in [Runs -> RunTypes] /\ run'[r].at = how /\ run'[r].class = run[r].class
        /\ \A q \in Runs \ {r} : run'[q] = run[q]
    BY <1>2, EndedType
  <2> QED
    BY <2>1, <1>2 DEF TypeOK, OffIsIdle, LoopsOK
<1>3. CASE Start(r)
  <2>1. PICK c \in Classes : run' = [run EXCEPT ![r].at = "generate", ![r].class = c]
    BY <1>3 DEF Start
  <2> DEFINE l == [run[r] EXCEPT !.at = "generate", !.class = c]
  <2>2. run[r] = Idle
    BY <1>3 DEF Start, OffIsIdle
  <2>3. l.k = 0 /\ l.at = "generate" /\ l.class = c /\ l \in RunTypes
    <3>1. l.at = "generate" /\ l.k = run[r].k /\ l.class = c /\ l \in RunTypes
      BY <1>0 DEF RunTypes
    <3>2. Idle.k = 0
      BY DEF Idle
    <3> QED
      BY <2>2, <3>1, <3>2
  <2>4. ok(l)
    BY <2>3, EvoAssumption DEF ok
  <2>5. run' = [run EXCEPT ![r] = l]
    BY <2>1, <1>0
  <2> QED
    BY <1>1, <2>4, <2>5
<1>4. CASE Generate(r)
  <2> DEFINE l == [run[r] EXCEPT !.at = "move"]
  <2>1. run' = [run EXCEPT ![r] = l] /\ run[r].at = "generate"
    BY <1>4, <1>0 DEF Generate
  <2>2. ok(l)
    BY <2>1, <1>0 DEF ok, RunTypes, TypeOK
  <2> QED
    BY <1>1, <2>1, <2>2
<1>5. CASE Move(r)
  <2> DEFINE k == run[r].k
             l == [run[r] EXCEPT !.at = IF k = Suites - 1 THEN "select" ELSE "generate",
                                 !.k = IF k = Suites - 1 THEN 0 ELSE k + 1]
  <2>1. run' = [run EXCEPT ![r] = l]
    BY <1>5, <1>0 DEF Move
  <2>2. k \in 0 .. Suites - 1
    BY <1>5, <1>0, EvoAssumption DEF Move, TypeOK, RunTypes
  <2>3. l.k \in 0 .. Suites - 1 /\ l.k \in 0 .. Suites + MaxLevel
    BY <2>2, <1>0, EvoAssumption DEF RunTypes
  <2>4. l \in RunTypes /\ l.at \in {"generate", "select"} /\ l.class \in Classes
    BY <2>3, <1>0, <1>5 DEF RunTypes, Move, TypeOK
  <2>5. ok(l)
    BY <2>3, <2>4, EvoAssumption DEF ok
  <2> QED
    BY <1>1, <2>1, <2>5
<1>6. CASE Select(r)
  <2>1. CASE Ended(r, "failed")
    BY <2>1, <1>2, <1>6 DEF Select
  <2>2. CASE ~Ended(r, "failed")
    <3>1. PICK o \in Orders :
              run' = [run EXCEPT ![r] = [@ EXCEPT !.at = "level", !.k = 1,
                          !.levels = order.levels, !.named = order.class,
                          !.pick = Picks(o, order.levels)]]
      BY <2>2, <1>6 DEF Select
    <3>2. order.levels # 0 /\ \A k \in Positions : slots[k].report # None
      BY <2>2, <1>6 DEF Select
    <3>3. order.levels \in 0 .. MaxLevel /\ order.class \in Classes \cup {NoClass}
      BY DEF TypeOK
    <3> DEFINE l == [run[r] EXCEPT !.at = "level", !.k = 1, !.levels = order.levels,
                         !.named = order.class, !.pick = Picks(o, order.levels)]
    <3>4. run' = [run EXCEPT ![r] = l]
      BY <3>1, <1>0
    <3>5. Picks(o, order.levels) \in [Levels -> PickTypes]
      BY <3>2, <3>3, PicksType
    <3>6. 1 \in 0 .. Suites + MaxLevel /\ 1 \in 1 .. order.levels + 1
      BY <3>3, EvoAssumption
    <3>7. l \in RunTypes /\ l.at = "level" /\ l.k = 1 /\ l.levels = order.levels
      BY <3>3, <3>5, <3>6, <1>0 DEF RunTypes
    <3>8. l.class \in Classes
      BY <1>0, <1>6 DEF Select, TypeOK, RunTypes
    <3>9. ok(l)
      BY <3>6, <3>7, <3>8 DEF ok
    <3> QED
      BY <1>1, <3>4, <3>9
  <2> QED
    BY <2>1, <2>2
<1>7. CASE Level(r)
  <2> DEFINE l == [run[r] EXCEPT !.k = run[r].k + 1]
  <2>1. run' = [run EXCEPT ![r] = l] /\ run[r].at = "level" /\ run[r].k <= run[r].levels
    BY <1>7, <1>0 DEF Level
  <2>2. run[r].k \in 1 .. run[r].levels + 1 /\ run[r].levels \in 0 .. MaxLevel
    BY <2>1, <1>0 DEF TypeOK, RunTypes
  <2>3. run[r].k + 1 \in 1 .. run[r].levels + 1 /\ run[r].k + 1 \in 0 .. Suites + MaxLevel
    BY <2>1, <2>2, EvoAssumption
  <2>4. l \in RunTypes /\ l.at = "level" /\ l.k = run[r].k + 1 /\ l.levels = run[r].levels
    BY <2>1, <2>3, <1>0 DEF RunTypes
  <2>5. l.class \in Classes
    BY <2>1, <1>0 DEF TypeOK, RunTypes
  <2>6. ok(l)
    BY <2>3, <2>4, <2>5 DEF ok
  <2> QED
    BY <1>1, <2>1, <2>6
<1>8. CASE Clear(r)
  BY <1>2, <1>8 DEF Clear
<1>9. CASE Kill(r)
  BY <1>2, <1>9 DEF Kill, InFlight
<1> QED
  BY <1>3, <1>4, <1>5, <1>6, <1>7, <1>8, <1>9 DEF Step

\* The types of the directory and of the levels.
DirectoryOK ==
    /\ project \in TestDirs /\ tests \in TestDirs
    /\ order \in [class : Classes \cup {NoClass}, levels : 0 .. MaxLevel]
    /\ report \in Reports
    /\ slots \in [Positions -> [report : Reports, tests : TestDirs]]
    /\ levels \in [Classes -> [Levels ->
           [tests : TestDirs, score : Versions, by : Versions, scored : Versions]]]

\* The steps keep the types of the directory.
LEMMA DirectoryStep ==
    ASSUME TypeOK, NEW r \in Runs, Step(r)
    PROVE  DirectoryOK'
<1>0. /\ r \in Versions /\ run[r] \in RunTypes
      /\ \A d \in TestDirs, c \in Classes : d[c] \in Versions
      /\ \A k \in Positions : slots[k].report \in Reports /\ slots[k].tests \in TestDirs
      /\ DirectoryOK
  BY EvoAssumption DEF TypeOK, Runs, Versions, TestDirs, DirectoryOK
<1>1. CASE Start(r)
  <2>1. PICK c \in Classes, n \in Asked :
            /\ project' = [project EXCEPT ![c] = IF @ = 0 THEN r ELSE @]
            /\ order' = [class |-> c, levels |-> n]
    BY <1>1 DEF Start
  <2>2. project' \in TestDirs
    BY <2>1, <1>0 DEF TestDirs, DirectoryOK
  <2>3. order' \in [class : Classes \cup {NoClass}, levels : 0 .. MaxLevel]
    BY <2>1, EvoAssumption
  <2>4. UNCHANGED <<report, tests, slots, levels>>
    BY <1>1 DEF Start
  <2> QED
    BY <2>2, <2>3, <2>4, <1>0 DEF DirectoryOK
<1>2. CASE Generate(r)
  <2> DEFINE c == run[r].class
  <2>1. UNCHANGED <<project, order, slots, levels>> /\ c \in Classes
    BY <1>2 DEF Generate, TypeOK
  <2>2. CASE /\ tests' = [tests EXCEPT ![c] = project[c]]
             /\ report' \in {Added(project[c], v) : v \in Coverages}
    <3>1. project[c] \in Versions /\ tests' \in TestDirs
      BY <2>1, <2>2, <1>0 DEF TestDirs, DirectoryOK
    <3>2. report' \in Reports
      BY <2>2, <3>1, AddedType, <1>0 DEF DirectoryOK
    <3> QED
      BY <2>1, <3>1, <3>2, <1>0 DEF DirectoryOK
  <2>3. CASE /\ report' \in {report} \cup {Added(tests[c], v) : v \in {w \in Coverages : Compile(tests, c)}}
             /\ UNCHANGED tests
    <3>1. tests[c] \in Versions
      BY <2>1, <1>0 DEF DirectoryOK
    <3>2. report' \in Reports
      BY <2>3, <3>1, AddedType, <1>0 DEF DirectoryOK
    <3> QED
      BY <2>1, <2>3, <3>2, <1>0 DEF DirectoryOK
  <2> QED
    BY <1>2, <2>2, <2>3 DEF Generate
<1>3. CASE Move(r)
  <2> DEFINE k == run[r].k
             s == slots[k]
  <2>1. /\ slots' = [slots EXCEPT ![k] = [report |-> Moved(s.report, None, report),
                                          tests |-> Moved(s.tests, NoTests, tests)]]
        /\ report' = Left(s.report, None, report)
        /\ tests' = Left(s.tests, NoTests, tests)
        /\ UNCHANGED <<project, order, levels>>
    BY <1>3 DEF Move
  <2>2. k \in Positions
    BY SMTT(30), <1>3, <1>0, EvoAssumption DEF Move, TypeOK, RunTypes, Positions
  <2>3. report' \in Reports /\ Moved(s.report, None, report) \in Reports
    BY <2>1, <2>2, <1>0, EmptyTypes, MovedTypes DEF DirectoryOK
  <2>4. tests' \in TestDirs /\ Moved(s.tests, NoTests, tests) \in TestDirs
    BY <2>1, <2>2, <1>0, EmptyTypes, MovedTypes DEF DirectoryOK
  <2>5. slots' \in [Positions -> [report : Reports, tests : TestDirs]]
    BY <2>1, <2>3, <2>4, <1>0 DEF DirectoryOK
  <2> QED
    BY <2>1, <2>3, <2>4, <2>5, <1>0 DEF DirectoryOK
<1>4. CASE Select(r)
  BY <1>4, <1>0 DEF Select, directory, DirectoryOK
<1>5. CASE Level(r)
  <2> DEFINE c == run[r].named
             i == run[r].k
             s == run[r].pick[i].suite
             d == slots[s].tests
             there == IF c = NoClass THEN NoLevel ELSE levels[c][i]
             scored == [there EXCEPT !.score = IF report = None THEN d[c] ELSE report.of, !.scored = r]
             types == [tests : TestDirs, score : Versions, by : Versions, scored : Versions]
  <2>1. i \in Levels /\ s \in Positions /\ d \in TestDirs
    <3>1. i \in 1 .. run[r].levels /\ run[r].levels \in 0 .. MaxLevel
      <4>1. run[r].at = "level" /\ i <= run[r].levels
        BY <1>5 DEF Level
      <4>2. i \in 1 .. run[r].levels + 1 /\ run[r].levels \in 0 .. MaxLevel
        BY <4>1, <1>0 DEF TypeOK, RunTypes
      <4> QED
        BY <4>1, <4>2, EvoAssumption
    <3>2. i \in Levels
      BY <3>1, EvoAssumption DEF Levels
    <3>3. run[r].pick[i] \in PickTypes
      BY <3>2, <1>0 DEF RunTypes
    <3> QED
      BY <3>2, <3>3, <1>0 DEF PickTypes
  <2>2. c \in Classes \cup {NoClass} /\ NoClass \notin Classes
    BY <1>0, EvoAssumption DEF RunTypes
  <2>3. there \in types
    BY <2>1, <2>2, <1>0, EmptyTypes DEF DirectoryOK
  <2>4. report = None \/ report.of \in Versions
    BY <1>0 DEF DirectoryOK, Reports
  <2>5. c # NoClass => scored \in types
    <3>1. c # NoClass => (IF report = None THEN d[c] ELSE report.of) \in Versions
      BY <2>1, <2>2, <2>4, <1>0
    <3> HIDE DEF there
    <3> QED
      BY <3>1, <2>3, <1>0
  <2>6. UNCHANGED levels \/ \E l \in types : c # NoClass /\
            levels' = [levels EXCEPT ![c][i] = IF l.tests = NoTests /\ d # NoTests
                                              THEN [l EXCEPT !.tests = d, !.by = r] ELSE l]
    <3> HIDE DEF types
    <3> QED
      BY <1>5, <2>3, <2>5 DEF Level
  <2>7. levels' \in [Classes -> [Levels -> types]]
    <3>1. ASSUME NEW l \in types, c # NoClass,
              levels' = [levels EXCEPT ![c][i] = IF l.tests = NoTests /\ d # NoTests
                                                THEN [l EXCEPT !.tests = d, !.by = r] ELSE l]
          PROVE  levels' \in [Classes -> [Levels -> types]]
      <4>1. [l EXCEPT !.tests = d, !.by = r] \in types
        BY <2>1, <1>0
      <4> DEFINE e == IF l.tests = NoTests /\ d # NoTests
                      THEN [l EXCEPT !.tests = d, !.by = r] ELSE l
      <4>2. e \in types /\ levels' = [levels EXCEPT ![c][i] = e]
        BY <3>1, <4>1
      <4>3. levels \in [Classes -> [Levels -> types]]
        BY <1>0 DEF DirectoryOK
      <4> HIDE DEF e, types
      <4> QED
        BY <4>2, <4>3
    <3>2. levels \in [Classes -> [Levels -> types]]
      BY <1>0 DEF DirectoryOK
    <3> HIDE DEF types
    <3> QED
      BY <2>6, <3>1, <3>2
  <2>8. slots' \in [Positions -> [report : Reports, tests : TestDirs]]
    <3>1. Left(there.tests, NoTests, d) \in TestDirs
      <4> HIDE DEF there, d
      <4> QED
        BY <2>1, <2>3, EmptyTypes, MovedTypes
    <3>2. slots' = [slots EXCEPT ![s].tests = Left(there.tests, NoTests, d)]
      BY <1>5, <2>1, <1>0 DEF Level, DirectoryOK
    <3> HIDE DEF d
    <3> QED
      BY ZenonT(60), <3>1, <3>2, <2>1, <1>0 DEF DirectoryOK
  <2>9. report' = None /\ UNCHANGED <<project, order, tests>>
    BY <1>5 DEF Level
  <2> QED
    BY <2>7, <2>8, <2>9, <1>0, EmptyTypes DEF DirectoryOK
<1>6. CASE Clear(r)
  BY <1>6, <1>0, EmptyTypes DEF Clear, DirectoryOK
<1>7. CASE Kill(r)
  BY <1>7, <1>0 DEF Kill, directory, DirectoryOK
<1> QED
  BY <1>1, <1>2, <1>3, <1>4, <1>5, <1>6, <1>7 DEF Step

\* The types of the history, without what it says of the others.
HistoryOK ==
    alone \subseteq Runs /\ fair \subseteq alone /\ calm \in 0 .. 2 /\ faults \in 0 .. MaxFaults

\* The steps keep the types of the history.
LEMMA HistoryStep ==
    ASSUME TypeOK, OffBringsNothing, NEW r \in Runs, Step(r)
    PROVE  HistoryOK'
<1>0. HistoryOK /\ MaxFaults \in Nat
  BY EvoAssumption DEF TypeOK, HistoryOK
<1>1. Fault => faults' \in 0 .. MaxFaults
  BY <1>0 DEF Fault, HistoryOK
<1>2. CASE Start(r)
  <2>1. CASE /\ InFlight = {} /\ alone' = alone \cup {r}
             /\ fair' = IF calm = 2 THEN fair \cup {r} ELSE fair
             /\ UNCHANGED <<calm, faults>>
    BY <2>1, <1>0 DEF HistoryOK
  <2>2. CASE Fault /\ alone' = alone \ InFlight /\ fair' = fair \ InFlight /\ calm' = 0
    BY <2>2, <1>0, <1>1 DEF HistoryOK
  <2> QED
    BY <1>2, <2>1, <2>2 DEF Start
<1>3. CASE Generate(r)
  BY <1>3, <1>0, <1>1 DEF Generate, history, HistoryOK
<1>4. CASE Move(r)
  BY <1>4, <1>0 DEF Move, history, HistoryOK
<1>5. CASE Select(r)
  <2>1. (calm' = calm \/ calm' = 0) /\ UNCHANGED <<alone, fair, faults>>
    BY <1>5 DEF Select
  <2> QED
    BY <2>1, <1>0 DEF HistoryOK
<1>6. CASE Level(r)
  BY <1>6, <1>0, <1>1 DEF Level, history, HistoryOK
<1>7. CASE Clear(r)
  BY <1>7, <1>0 DEF Clear, HistoryOK
<1>8. CASE Kill(r)
  BY <1>8, <1>0, <1>1 DEF Kill, HistoryOK
<1> QED
  BY <1>2, <1>3, <1>4, <1>5, <1>6, <1>7, <1>8 DEF Step

\* Every step keeps the types.
LEMMA TypeStep ==
    ASSUME TypeOK, OffIsIdle, OffBringsNothing, [Next]_vars
    PROVE  TypeOK' /\ OffIsIdle'
<1>1. CASE UNCHANGED vars
  <2>1. UNCHANGED <<run, project, order, report, tests, slots, levels, alone, fair, calm, faults>>
    BY <1>1 DEF vars, directory, history
  <2> QED
    BY <2>1 DEF TypeOK, OffIsIdle
<1>2. CASE Next
  <2>1. PICK r \in Runs : Step(r)
    BY <1>2 DEF Next
  <2>2. LoopsOK' /\ DirectoryOK' /\ HistoryOK'
    BY <2>1, LoopsStep, DirectoryStep, HistoryStep
  <2> QED
    BY <2>2 DEF LoopsOK, DirectoryOK, HistoryOK, TypeOK
<1> QED
  BY <1>1, <1>2

\* At the start everything has its type, and nothing has happened.
LEMMA TypeInit == Init => TypeOK /\ OffIsIdle
<1> SUFFICES ASSUME Init PROVE TypeOK /\ OffIsIdle
  OBVIOUS
<1>1. \A r \in Runs : run[r] = Idle
  BY DEF Init
<1>2. Idle.at = "off"
  BY DEF Idle
<1>3. run \in [Runs -> RunTypes]
  BY EmptyTypes DEF Init
<1>4. DirectoryOK
  <2>1. levels \in [Classes -> [Levels ->
           [tests : TestDirs, score : Versions, by : Versions, scored : Versions]]]
    BY EmptyTypes DEF Init
  <2> QED
    BY <2>1, EmptyTypes DEF Init, DirectoryOK
<1>5. HistoryOK
  BY EvoAssumption DEF Init, HistoryOK
<1> QED
  BY <1>1, <1>2, <1>3, <1>4, <1>5 DEF DirectoryOK, HistoryOK, TypeOK, OffIsIdle

-----------------------------------------------------------------------------
(* Who is in flight.                                                       *)

\* What the steps of a run make of it.
LEMMA StepOfOne ==
    ASSUME TypeOK, OffIsIdle, NEW r \in Runs
    PROVE  /\ Start(r) => /\ run[r].at = "off"
                          /\ run'[r].at = "generate" /\ run'[r].k = 0
           /\ Generate(r) => /\ run[r].at = "generate"
                             /\ run'[r] = [run[r] EXCEPT !.at = "move"]
           /\ Move(r) => /\ run[r].at = "move"
                         /\ run'[r].at = IF run[r].k = Suites - 1 THEN "select" ELSE "generate"
                         /\ run'[r].k = IF run[r].k = Suites - 1 THEN 0 ELSE run[r].k + 1
                         /\ run'[r].class = run[r].class
           /\ Select(r) /\ ~Ended(r, "failed") =>
                  /\ run[r].at = "select" /\ order.levels # 0
                  /\ \E o \in Orders :
                         /\ run'[r].at = "level" /\ run'[r].levels = order.levels
                         /\ run'[r].pick = Picks(o, order.levels)
                         /\ run'[r].named = order.class /\ run'[r].class = run[r].class
           /\ Level(r) => /\ run[r].at = "level"
                          /\ run'[r] = [run[r] EXCEPT !.k = run[r].k + 1]
<1>0. run \in [Runs -> RunTypes] /\ run[r] \in RunTypes
  BY DEF TypeOK
<1>1. ASSUME Start(r)
      PROVE  run[r].at = "off" /\ run'[r].at = "generate" /\ run'[r].k = 0
  <2>1. PICK c \in Classes : run' = [run EXCEPT ![r].at = "generate", ![r].class = c]
    BY <1>1 DEF Start
  <2>2. run[r] = Idle /\ run[r].at = "off"
    BY <1>1 DEF Start, OffIsIdle
  <2>3. run'[r].at = "generate" /\ run'[r].k = run[r].k
    BY <2>1, <1>0 DEF RunTypes
  <2> QED
    BY <2>2, <2>3 DEF Idle
<1>2. ASSUME Generate(r)
      PROVE  run[r].at = "generate" /\ run'[r] = [run[r] EXCEPT !.at = "move"]
  BY <1>2, <1>0 DEF Generate
<1>3. ASSUME Move(r)
      PROVE  /\ run[r].at = "move"
             /\ run'[r].at = IF run[r].k = Suites - 1 THEN "select" ELSE "generate"
             /\ run'[r].k = IF run[r].k = Suites - 1 THEN 0 ELSE run[r].k + 1
             /\ run'[r].class = run[r].class
  <2>1. run' = [run EXCEPT ![r].at = IF run[r].k = Suites - 1 THEN "select" ELSE "generate",
                           ![r].k = IF run[r].k = Suites - 1 THEN 0 ELSE run[r].k + 1]
    BY <1>3 DEF Move
  <2>2. run'[r] = [run[r] EXCEPT !.at = IF run[r].k = Suites - 1 THEN "select" ELSE "generate",
                                 !.k = IF run[r].k = Suites - 1 THEN 0 ELSE run[r].k + 1]
    BY <2>1, <1>0
  <2>3. run[r].at = "move"
    BY <1>3 DEF Move
  <2> QED
    BY <2>2, <2>3, <1>0 DEF RunTypes
<1>4. ASSUME Select(r), ~Ended(r, "failed")
      PROVE  /\ run[r].at = "select" /\ order.levels # 0
             /\ \E o \in Orders :
                    /\ run'[r].at = "level" /\ run'[r].levels = order.levels
                    /\ run'[r].pick = Picks(o, order.levels)
                    /\ run'[r].named = order.class /\ run'[r].class = run[r].class
  <2>1. PICK o \in Orders :
            run' = [run EXCEPT ![r] = [@ EXCEPT !.at = "level", !.k = 1,
                        !.levels = order.levels, !.named = order.class,
                        !.pick = Picks(o, order.levels)]]
    BY <1>4 DEF Select
  <2>2. run'[r] = [run[r] EXCEPT !.at = "level", !.k = 1,
                       !.levels = order.levels, !.named = order.class,
                       !.pick = Picks(o, order.levels)]
    BY <2>1, <1>0
  <2>3. run[r].at = "select" /\ order.levels # 0
    BY <1>4 DEF Select
  <2> QED
    BY <2>2, <2>3, <1>0 DEF RunTypes
<1>5. ASSUME Level(r)
      PROVE  run[r].at = "level" /\ run'[r] = [run[r] EXCEPT !.k = run[r].k + 1]
  BY <1>5, <1>0 DEF Level
<1> QED
  BY <1>1, <1>2, <1>3, <1>4, <1>5

\* A step is of one run, which has begun after it and keeps its class; one that
\* ends keeps nothing else.
LEMMA StepKeeps ==
    ASSUME TypeOK, OffIsIdle, NEW r \in Runs, Step(r)
    PROVE  /\ \A q \in Runs \ {r} : run'[q] = run[q]
           /\ run'[r].at # "off"
           /\ run[r].at # "off" => run'[r].class = run[r].class
           /\ Clear(r) \/ Kill(r) \/ Ended(r, "failed") => run'[r].at \in {"done", "failed"}
<1>0. run \in [Runs -> RunTypes] /\ run[r] \in RunTypes
  BY DEF TypeOK
<1>1. ASSUME NEW how \in {"done", "failed"}, Ended(r, how)
      PROVE  /\ \A q \in Runs \ {r} : run'[q] = run[q]
             /\ run'[r].at = how /\ run'[r].class = run[r].class
  BY <1>1, EndedType
<1>2. Clear(r) \/ Kill(r) => \E how \in {"done", "failed"} : Ended(r, how)
  BY DEF Clear, Kill
<1>3. \A q \in Runs \ {r} : run'[q] = run[q]
  <2>1. \/ \E how \in {"done", "failed"} : Ended(r, how)
        \/ \E l : run' = [run EXCEPT ![r] = l]
    BY ZenonT(60), <1>0, <1>2 DEF Step, Start, Generate, Move, Select, Level
  <2> QED
    BY <2>1, <1>0, <1>1
<1>4. CASE \E how \in {"done", "failed"} : Ended(r, how)
  BY <1>1, <1>3, <1>4
<1>5. CASE ~\E how \in {"done", "failed"} : Ended(r, how)
  <2>1. run'[r].at # "off" /\ (run[r].at # "off" => run'[r].class = run[r].class)
    BY <1>0, <1>2, <1>5, StepOfOne DEF Step, RunTypes
  <2> QED
    BY <2>1, <1>2, <1>3, <1>5
<1> QED
  BY <1>4, <1>5

\* A run joins those in flight by beginning and leaves them by ending.
LEMMA InFlightStep ==
    ASSUME TypeOK, OffIsIdle, NEW r \in Runs, Step(r)
    PROVE  /\ Start(r) => r \notin InFlight
           /\ ~Start(r) => r \in InFlight
           /\ Start(r) \/ Generate(r) \/ Move(r) \/ Level(r) => InFlight' = InFlight \cup {r}
           /\ Clear(r) \/ Kill(r) => InFlight' = InFlight \ {r}
           /\ Select(r) => InFlight' = IF Ended(r, "failed") THEN InFlight \ {r} ELSE InFlight
<1>1. \A q \in Runs \ {r} : run'[q] = run[q]
  BY StepKeeps
<1>2. InFlight' = IF run'[r].at \in {"off", "done", "failed"} THEN InFlight \ {r}
                  ELSE InFlight \cup {r}
  BY <1>1 DEF InFlight
<1>3. Start(r) => r \notin InFlight
  BY DEF Start, InFlight
<1>4. ~Start(r) => r \in InFlight
  BY DEF Step, Generate, Move, Select, Level, Clear, Kill, InFlight
<1>5. run[r] \in RunTypes
  BY DEF TypeOK
<1>6. Start(r) \/ Generate(r) \/ Move(r) \/ Level(r) => run'[r].at \in {"generate", "move", "select", "level"}
  BY <1>5, StepOfOne DEF RunTypes
<1>7. Select(r) /\ ~Ended(r, "failed") => run'[r].at = "level" /\ r \in InFlight
  BY StepOfOne DEF Select, InFlight
<1>8. Clear(r) \/ Kill(r) \/ Ended(r, "failed") => run'[r].at \in {"done", "failed"}
  BY StepKeeps
<1> QED
  BY <1>2, <1>3, <1>4, <1>6, <1>7, <1>8

\* What the steps make of the history.
LEMMA HistoryOfStep ==
    ASSUME TypeOK, OffIsIdle, NEW r \in Runs, Step(r)
    PROVE  /\ Start(r) => \/ /\ InFlight = {} /\ alone' = alone \cup {r} /\ calm' = calm
                             /\ fair' = IF calm = 2 THEN fair \cup {r} ELSE fair
                          \/ /\ alone' = alone \ InFlight /\ fair' = fair \ InFlight
                             /\ calm' = 0
           /\ ~Start(r) => alone' = alone /\ fair' = fair
           /\ Generate(r) \/ Move(r) \/ Level(r) => calm' = calm
           /\ Select(r) => calm' = IF Ended(r, "failed") THEN 0 ELSE calm
           /\ Clear(r) => calm' = IF r \in alone THEN IF calm < 2 THEN calm + 1 ELSE 2 ELSE 0
           /\ Kill(r) => calm' = 0
<1>1. Start(r) => \/ /\ InFlight = {} /\ alone' = alone \cup {r} /\ calm' = calm
                     /\ fair' = IF calm = 2 THEN fair \cup {r} ELSE fair
                  \/ /\ alone' = alone \ InFlight /\ fair' = fair \ InFlight
                     /\ calm' = 0
  BY DEF Start
<1>2. ~Start(r) => alone' = alone /\ fair' = fair
  BY DEF Step, Generate, Move, Select, Level, Clear, Kill, history
<1>3. Generate(r) \/ Move(r) \/ Level(r) => calm' = calm
  BY DEF Generate, Move, Level, history
<1>4. Clear(r) => calm' = IF r \in alone THEN IF calm < 2 THEN calm + 1 ELSE 2 ELSE 0
  BY DEF Clear
<1>5. Kill(r) => calm' = 0
  BY DEF Kill
<1>6. ASSUME Select(r)
      PROVE  calm' = IF Ended(r, "failed") THEN 0 ELSE calm
  <2>1. \/ /\ calm' = calm
           /\ \E o \in Orders :
                  run' = [run EXCEPT ![r] = [@ EXCEPT !.at = "level", !.k = 1,
                              !.levels = order.levels, !.named = order.class,
                              !.pick = Picks(o, order.levels)]]
        \/ calm' = 0 /\ Ended(r, "failed")
    BY <1>6 DEF Select
  <2>2. ASSUME Ended(r, "failed"), NEW o \in Orders,
               run' = [run EXCEPT ![r] = [@ EXCEPT !.at = "level", !.k = 1,
                           !.levels = order.levels, !.named = order.class,
                           !.pick = Picks(o, order.levels)]]
        PROVE  FALSE
    <3>1. run'[r].at = "failed"
      BY <2>2, EndedType
    <3>2. run'[r].at = "level"
      BY <2>2 DEF TypeOK, RunTypes
    <3> QED
      BY <3>1, <3>2
  <2> QED
    BY <2>1, <2>2
<1> QED
  BY <1>1, <1>2, <1>3, <1>4, <1>5, <1>6

-----------------------------------------------------------------------------
(* Who has met whom.                                                       *)

\* A run that is alone stays so until another one begins, and a calm directory
\* belongs to one.
LEMMA ContactStep ==
    ASSUME TypeOK, OffIsIdle, AloneIsAlone, CalmOrAlone, OffBringsNothing,
           NEW r \in Runs, Step(r)
    PROVE  AloneIsAlone' /\ CalmOrAlone'
<1>1. r \notin alone \/ ~Start(r)
  BY StepOfOne DEF OffBringsNothing
<1>2. calm \in 0 .. 2 /\ fair \subseteq alone /\ InFlight \subseteq Runs /\ alone \subseteq Runs
  BY DEF TypeOK, InFlight
<1>3. CASE Start(r)
  <2>1. InFlight' = InFlight \cup {r} /\ r \notin InFlight
    BY <1>3, InFlightStep
  <2>2. CASE /\ InFlight = {} /\ alone' = alone \cup {r} /\ calm' = calm
             /\ fair' = IF calm = 2 THEN fair \cup {r} ELSE fair
    BY <2>1, <2>2, <1>1, <1>2, <1>3 DEF AloneIsAlone, CalmOrAlone
  <2>3. CASE alone' = alone \ InFlight /\ fair' = fair \ InFlight /\ calm' = 0
    BY <2>1, <2>3, <1>1, <1>2, <1>3 DEF AloneIsAlone, CalmOrAlone
  <2> QED
    BY <1>3, <2>2, <2>3, HistoryOfStep
<1>4. CASE ~Start(r)
  <2>1. r \in InFlight /\ alone' = alone /\ fair' = fair
    BY <1>4, InFlightStep, HistoryOfStep
  <2>2. InFlight' = InFlight \/ InFlight' = InFlight \ {r}
    BY <1>4, <2>1, InFlightStep DEF Step
  <2>3. AloneIsAlone'
    BY <2>1, <2>2 DEF AloneIsAlone
  <2>4. CASE InFlight' = InFlight /\ calm' = calm
    BY <2>1, <2>3, <2>4 DEF CalmOrAlone
  <2>5. CASE InFlight' = InFlight \ {r} /\ calm' = 0
    <3>1. \A q \in fair : q \notin InFlight'
      BY <2>1, <2>5, <1>2 DEF AloneIsAlone
    <3> QED
      BY <2>1, <2>3, <2>5, <3>1 DEF CalmOrAlone
  <2>6. CASE Clear(r)
    <3>1. InFlight' = InFlight \ {r} /\ (r \notin alone => calm' = 0)
      BY <2>6, InFlightStep, HistoryOfStep
    <3>2. \A q \in alone : q \notin InFlight'
      BY <2>1, <3>1 DEF AloneIsAlone
    <3>3. r \in alone => InFlight' = {}
      BY <2>1, <3>1 DEF AloneIsAlone
    <3> QED
      BY <2>1, <2>3, <3>1, <3>2, <3>3, <1>2 DEF CalmOrAlone
  <2> QED
    BY <1>4, <2>1, <2>3, <2>4, <2>5, <2>6, InFlightStep, HistoryOfStep DEF Step
<1> QED
  BY <1>3, <1>4

\* What the steps make of the levels: only Level brings any, and what it brings is
\* of its run.
LEMMA LevelsOfStep ==
    ASSUME TypeOK, NEW r \in Runs, Step(r), NEW c \in Classes, NEW i \in Levels
    PROVE  \/ levels'[c][i] = levels[c][i]
           \/ /\ Level(r) /\ c = run[r].named
              /\ LET d == slots[run[r].pick[i].suite].tests
                     l == levels'[c][i]
                 IN  /\ run[r].pick[i].suite \in Positions
                     /\ \/ l.tests = levels[c][i].tests /\ l.by = levels[c][i].by
                        \/ l.tests = d /\ d # NoTests /\ l.by = r
                     /\ \/ l.score = levels[c][i].score /\ l.scored = levels[c][i].scored
                        \/ /\ l.scored = r
                           /\ report = None => Compile(d, c) /\ l.score = d[c]
<1>1. CASE ~Level(r)
  BY <1>1 DEF Step, Start, Generate, Move, Select, Clear, Kill, directory
<1>2. CASE Level(r)
  <2> DEFINE n == run[r].named
             k == run[r].k
             d == slots[run[r].pick[k].suite].tests
             there == IF n = NoClass THEN NoLevel ELSE levels[n][k]
             scored == [there EXCEPT !.score = IF report = None THEN d[n] ELSE report.of, !.scored = r]
             put(l) == IF l.tests = NoTests /\ d # NoTests
                       THEN [l EXCEPT !.tests = d, !.by = r] ELSE l
             types == [tests : TestDirs, score : Versions, by : Versions, scored : Versions]
  <2>1. \/ UNCHANGED levels
        \/ /\ n # NoClass
           /\ \/ levels' = [levels EXCEPT ![n][k] = put(there)]
              \/ /\ levels' = [levels EXCEPT ![n][k] = put(scored)]
                 /\ report = None => Compile(d, n)
    BY <1>2 DEF Level
  <2>2. levels \in [Classes -> [Levels -> types]]
    BY DEF TypeOK
  <2>3. CASE UNCHANGED levels \/ n = NoClass \/ c # n \/ i # k
    <3> HIDE DEF put, there, scored, n, k, types
    <3>1. UNCHANGED levels \/ n = NoClass => levels'[c][i] = levels[c][i]
      BY <2>1
    <3>2. ASSUME NEW e, levels' = [levels EXCEPT ![n][k] = e], c # n \/ i # k
          PROVE  levels'[c][i] = levels[c][i]
      BY <3>2, <2>2
    <3> QED
      BY <2>1, <2>3, <3>1, <3>2
  <2>4. CASE n # NoClass /\ c = n /\ i = k
    <3>1. \A e : levels' = [levels EXCEPT ![n][k] = e] => levels'[c][i] = e
      <4> HIDE DEF n, k, types
      <4> QED
        BY <2>2, <2>4
    <3>2. there = levels[c][i] /\ there \in types
      BY <2>2, <2>4
    <3>3. run[r].pick[k].suite \in Positions
      BY <2>4 DEF TypeOK, RunTypes, PickTypes
    <3>4. /\ put(there).score = there.score /\ put(there).scored = there.scored
          /\ \/ put(there).tests = there.tests /\ put(there).by = there.by
             \/ put(there).tests = d /\ d # NoTests /\ put(there).by = r
      BY <3>2
    <3>5. /\ put(scored).scored = r
          /\ put(scored).score = IF report = None THEN d[n] ELSE report.of
          /\ \/ put(scored).tests = there.tests /\ put(scored).by = there.by
             \/ put(scored).tests = d /\ d # NoTests /\ put(scored).by = r
      BY <3>2
    <3> HIDE DEF put, scored, there, types
    <3>6. CASE levels' = [levels EXCEPT ![n][k] = put(there)]
      BY <1>2, <2>4, <3>1, <3>2, <3>3, <3>4, <3>6
    <3>7. CASE levels' = [levels EXCEPT ![n][k] = put(scored)] /\ (report = None => Compile(d, n))
      BY <1>2, <2>4, <3>1, <3>2, <3>3, <3>5, <3>7
    <3> QED
      BY <2>1, <2>4, <3>6, <3>7
  <2> QED
    BY <2>3, <2>4
<1> QED
  BY <1>1, <1>2

\* Whoever brings something has begun.
LEMMA BringsStep ==
    ASSUME TypeOK, OffIsIdle, OffBringsNothing, NEW r \in Runs, Step(r)
    PROVE  OffBringsNothing'
<1>1. /\ \A q \in Runs \ {r} : run'[q] = run[q]
      /\ run'[r].at # "off"
  BY StepKeeps
<1>2. alone' \subseteq alone \cup {r}
  BY HistoryOfStep
<1>3. \A q \in alone' : run'[q].at # "off"
  BY <1>1, <1>2 DEF OffBringsNothing, TypeOK
<1>4. ASSUME NEW c \in Classes, NEW i \in Levels, NEW q \in Runs,
             levels'[c][i].by = q \/ levels'[c][i].scored = q
      PROVE  run'[q].at # "off"
  <2>1. CASE q = r
    BY <1>1, <2>1
  <2>2. CASE q # r
    <3>1. levels[c][i].by = q \/ levels[c][i].scored = q
      BY <1>4, <2>2, LevelsOfStep
    <3> QED
      BY <1>1, <2>2, <3>1 DEF OffBringsNothing
  <2> QED
    BY <2>1, <2>2
<1> QED
  BY <1>3, <1>4 DEF OffBringsNothing

-----------------------------------------------------------------------------
(* What is left in a calm directory.                                       *)

\* The class of a run in flight, and the tests that are its own.
LEMMA OwnIsOne ==
    ASSUME NEW d, NEW c \in Classes, NEW r \in Runs,
           d = NoTests \/ d = [NoTests EXCEPT ![c] = r]
    PROVE  /\ [d EXCEPT ![c] = r] = [NoTests EXCEPT ![c] = r]
           /\ [NoTests EXCEPT ![c] = r][c] = r /\ r # 0
           /\ [NoTests EXCEPT ![c] = r] # NoTests
           /\ d[c] # 0 => d[c] = r
<1>1. r # 0
  BY EvoAssumption DEF Runs
<1> QED
  BY <1>1 DEF NoTests

\* A run of a calm directory that ends leaves nothing but evosuite-tests, and not
\* even that after another one.
LEMMA QuietStep ==
    ASSUME TypeOK, OffIsIdle, AloneIsAlone, CalmOrAlone, Quiet, CalmWork,
           NEW r \in Runs, Step(r)
    PROVE  Quiet'
<1> SUFFICES ASSUME calm' # 0, InFlight' = {}
             PROVE  /\ \A j \in Positions : slots'[j] = Empty
                    /\ project' = NoTests /\ report' = None
                    /\ calm' = 2 => tests' = NoTests
  BY DEF Quiet
<1>1. Clear(r)
  BY InFlightStep, HistoryOfStep DEF Step
<1>2. r \in alone /\ r \in InFlight /\ calm' = IF calm < 2 THEN calm + 1 ELSE 2
  BY <1>1, InFlightStep, HistoryOfStep DEF Clear, Start
<1>3. calm' = 2 => tests = NoTests
  <2>1. calm' = 2 => calm # 0
    BY <1>2 DEF TypeOK
  <2>2. calm # 0 => InWork(r)
    BY <1>2 DEF CalmWork
  <2> QED
    BY <1>1, <2>1, <2>2 DEF Clear, InWork
<1> QED
  BY <1>1, <1>3 DEF Clear

\* A run that begins in a quiet directory finds there what InWork says, and keeps it
\* by its steps.
LEMMA WorkStep ==
    ASSUME TypeOK, OffIsIdle, AloneIsAlone, CalmOrAlone, Quiet, CalmWork,
           NEW r \in Runs, Step(r)
    PROVE  CalmWork'
<1>0. /\ run[r] \in RunTypes /\ r \in Int /\ calm \in 0 .. 2
      /\ run[r].at # "off" => run[r].class \in Classes
      /\ Suites \in Nat \ {0}
  BY EvoAssumption DEF TypeOK, Runs

<1> SUFFICES ASSUME calm' # 0, NEW q \in InFlight'
             PROVE  InWork(q)'
  BY DEF CalmWork
<1>1. /\ q = r /\ calm' = calm
      /\ Start(r) => InFlight = {}
      /\ ~Start(r) => InWork(r) /\ r \in InFlight
      /\ ~Clear(r) /\ ~Kill(r)
      /\ ~(Select(r) /\ Ended(r, "failed"))
  <2>1. CASE Start(r)
    <3>1. InFlight = {} /\ calm' = calm /\ InFlight' = {r}
      BY <2>1, InFlightStep, HistoryOfStep
    <3> QED
      BY <2>1, <3>1 DEF Start, Clear, Kill, Select, InFlight
  <2>2. CASE ~Start(r)
    <3>1. r \in InFlight
      BY <2>2, InFlightStep
    <3>2. ~Kill(r) /\ ~(Select(r) /\ Ended(r, "failed"))
      BY HistoryOfStep
    <3>3. ~Clear(r)
      BY <3>1, InFlightStep, HistoryOfStep DEF AloneIsAlone
    <3>4. calm' = calm /\ InFlight' = InFlight \cup {r}
      BY <2>2, <3>1, <3>2, <3>3, InFlightStep, HistoryOfStep DEF Step
    <3>5. InFlight = {r}
      BY <3>1, <3>4 DEF AloneIsAlone, CalmOrAlone
    <3> QED
      BY <2>2, <3>1, <3>2, <3>3, <3>4, <3>5 DEF CalmWork
  <2> QED
    BY <2>1, <2>2
<1> DEFINE K == run[r].class
<1>2. CASE Start(r)
  <2>1. PICK c \in Classes, n \in Asked :
            /\ run' = [run EXCEPT ![r].at = "generate", ![r].class = c]
            /\ project' = [project EXCEPT ![c] = IF @ = 0 THEN r ELSE @]
            /\ order' = [class |-> c, levels |-> n]
            /\ UNCHANGED <<report, tests, slots>>
    BY <1>2 DEF Start
  <2>2. run'[r].at = "generate" /\ run'[r].k = 0 /\ run'[r].class = c
    <3>1. run'[r].class = c
      BY <2>1, <1>0 DEF TypeOK, RunTypes
    <3> QED
      BY <1>2, <3>1, StepOfOne
  <2>3. /\ \A j \in Positions : slots'[j] = Empty
        /\ project = NoTests /\ report' = None
        /\ calm = 2 => tests' = NoTests
    BY <1>1, <1>2, <2>1 DEF Quiet
  <2>4. project' = [NoTests EXCEPT ![c] = r]
    BY <2>1, <2>3 DEF NoTests
  <2>5. \A j \in Positions : slots'[j].tests = NoTests
    BY <2>3 DEF Empty
  <2> QED
    <3>1. Own(r)' = [NoTests EXCEPT ![c] = r] /\ order'.class = c
      BY <2>1, <2>2 DEF Own
    <3>2. calm' = 2 => /\ tests' \in {NoTests, Own(r)'}
                       /\ \A j \in Positions : slots'[j].tests \in {NoTests, Own(r)'}
      BY <1>1, <1>2, <2>3, <2>5
    <3> QED
      BY <1>1, <2>2, <2>3, <2>4, <3>1, <3>2 DEF InWork
<1>3. CASE Generate(r)
  <2>1. run[r].at = "generate" /\ run'[r] = [run[r] EXCEPT !.at = "move"]
    BY <1>3, StepOfOne
  <2>2. run'[r].at = "move" /\ run'[r].k = run[r].k /\ run'[r].class = K
    BY <2>1, <1>0 DEF RunTypes
  <2>3. UNCHANGED <<project, order, slots>> /\ K \in Classes
    BY <1>3, <2>1, <1>0 DEF Generate
  <2>4. tests' = tests \/ tests' = [tests EXCEPT ![K] = project[K]]
    BY <1>3 DEF Generate
  <2>5. ~Start(r)
    BY <2>1 DEF Start
  <2>6. InWork(r)
    BY <1>1, <2>5
  <2>7. calm = 2 => tests' \in {NoTests, Own(r)}
    BY <2>3, <2>4, <2>6, OwnIsOne DEF InWork, Own
  <2> QED
    BY <1>1, <2>1, <2>2, <2>3, <2>6, <2>7 DEF InWork, Own
<1>4. CASE Move(r)
  <2> DEFINE k == run[r].k
  <2>1. /\ run[r].at = "move" /\ run'[r].class = K
        /\ run'[r].at = IF k = Suites - 1 THEN "select" ELSE "generate"
        /\ run'[r].k = IF k = Suites - 1 THEN 0 ELSE k + 1
    BY <1>4, StepOfOne
  <2>2. InWork(r)
    BY <1>1, <2>1 DEF Start
  <2>3. k \in Positions /\ k \in Int
    BY <2>1, <1>0 DEF TypeOK, RunTypes, Positions
  <2>4. slots[k] = Empty /\ slots[k].report = None /\ slots[k].tests = NoTests
    <3>1. slots[k] = Empty
      BY <2>1, <2>2, <2>3 DEF InWork
    <3> QED
      BY <3>1 DEF Empty
  <2>5. /\ slots' = [slots EXCEPT ![k] = [report |-> report, tests |-> tests]]
        /\ report' = None /\ tests' = NoTests
        /\ UNCHANGED <<project, order>>
    BY <1>4, <2>4 DEF Move, Moved, Left
  <2>6. /\ slots'[k].tests = tests
        /\ \A j \in Positions \ {k} : slots'[j] = slots[j]
    BY <2>3, <2>5 DEF TypeOK
  <2>7. run'[r].at = "generate" => \A j \in Positions : run'[r].k <= j => slots'[j] = Empty
    <3> SUFFICES ASSUME run'[r].at = "generate", NEW j \in Positions, run'[r].k <= j
                 PROVE  slots'[j] = Empty
      OBVIOUS
    <3>1. k <= j /\ j # k
      BY <2>1, <2>3 DEF Positions
    <3>2. slots[j] = Empty
      BY <2>1, <2>2, <3>1 DEF InWork
    <3> QED
      BY <2>6, <3>1, <3>2
  <2>8. calm = 2 => \A j \in Positions : slots'[j].tests \in {NoTests, Own(r)}
    BY <2>2, <2>6 DEF InWork
  <2>9. run'[r].at \in {"generate", "select"}
    BY <2>1
  <2> QED
    BY <1>1, <2>1, <2>2, <2>5, <2>7, <2>8, <2>9 DEF InWork, Own
<1>5. CASE Select(r)
  <2>1. /\ run[r].at = "select"
        /\ run'[r].at = "level" /\ run'[r].named = order.class /\ run'[r].class = K
    BY <1>1, <1>5, StepOfOne
  <2>2. InWork(r)
    BY <1>1, <2>1 DEF Start
  <2>3. UNCHANGED <<project, order, report, tests, slots>>
    BY <1>5 DEF Select, directory
  <2> QED
    BY <1>1, <2>1, <2>2, <2>3 DEF InWork, Own
<1>6. CASE Level(r)
  <2>1. run[r].at = "level" /\ run'[r] = [run[r] EXCEPT !.k = run[r].k + 1]
    BY <1>6, StepOfOne
  <2>2. run'[r].at = "level" /\ run'[r].class = K /\ run'[r].named = run[r].named
    BY <2>1, <1>0 DEF RunTypes
  <2>3. InWork(r)
    BY <1>1, <2>1 DEF Start
  <2>4. report' = None /\ UNCHANGED <<project, order, tests>>
    BY <1>6 DEF Level
  <2>5. \A j \in Positions : slots'[j].tests \in {slots[j].tests, NoTests}
    <3> DEFINE s == run[r].pick[run[r].k].suite
    <3>1. PICK t : slots' = [slots EXCEPT ![s].tests = t] /\ t \in {slots[s].tests, NoTests}
      BY <1>6 DEF Level, Left
    <3> QED
      BY <3>1 DEF TypeOK
  <2> QED
    BY <1>1, <2>1, <2>2, <2>3, <2>4, <2>5 DEF InWork, Own
<1> QED
  BY <1>1, <1>2, <1>3, <1>4, <1>5, <1>6 DEF Step

-----------------------------------------------------------------------------
(* What a fair run makes of it.                                            *)

\* A fair run in flight has a calm directory to itself.
LEMMA FairWorksAlone ==
    ASSUME TypeOK, AloneIsAlone, CalmOrAlone, CalmWork, NEW r \in fair, r \in InFlight
    PROVE  calm = 2 /\ InFlight = {r} /\ InWork(r)
<1>1. r \in alone
  BY DEF TypeOK
<1>2. calm = 2
  BY DEF CalmOrAlone
<1> QED
  BY <1>1, <1>2 DEF AloneIsAlone, CalmWork

\* What the levels of a fair run are, they stay; and what it adds is its own.
LEMMA OwnLevelsStep ==
    ASSUME TypeOK, OffIsIdle, AloneIsAlone, CalmOrAlone, CalmWork, OffBringsNothing,
           LevelsAreItsOwn, NEW r \in Runs, Step(r)
    PROVE  LevelsAreItsOwn'
<1> SUFFICES ASSUME NEW c \in Classes, NEW i \in Levels
             PROVE  /\ levels'[c][i].by \in fair' =>
                           /\ levels'[c][i].tests = [NoTests EXCEPT ![c] = levels'[c][i].by]
                           /\ run'[levels'[c][i].by].class = c
                    /\ levels'[c][i].scored \in fair' =>
                           /\ levels'[c][i].score = levels'[c][i].scored
                           /\ run'[levels'[c][i].scored].class = c
  BY DEF LevelsAreItsOwn
<1>0. fair \subseteq Runs /\ fair \subseteq alone
  BY DEF TypeOK
<1>1. \A q \in fair : run'[q].class = run[q].class
  <2>1. \A q \in fair : run[q].at # "off"
    BY <1>0 DEF OffBringsNothing
  <2> QED
    BY <1>0, <2>1, StepKeeps
<1>2. \A q \in Runs : levels[c][i].by = q \/ levels[c][i].scored = q => (q \in fair' => q \in fair)
  <2>1. fair' \subseteq fair \cup {r} /\ (~Start(r) => fair' = fair)
    BY HistoryOfStep
  <2>2. Start(r) => levels[c][i].by # r /\ levels[c][i].scored # r
    <3>1. Start(r) => run[r].at = "off"
      BY DEF Start
    <3> QED
      BY <3>1 DEF OffBringsNothing
  <2> QED
    BY <2>1, <2>2
<1>3. /\ levels[c][i].by \in fair =>
             levels[c][i].tests = [NoTests EXCEPT ![c] = levels[c][i].by] /\ run[levels[c][i].by].class = c
      /\ levels[c][i].scored \in fair =>
             levels[c][i].score = levels[c][i].scored /\ run[levels[c][i].scored].class = c
  BY DEF LevelsAreItsOwn
<1>4. fair' \subseteq Runs
  BY <1>0, HistoryOfStep
<1> DEFINE l == levels[c][i]
           m == levels'[c][i]
           d == slots[run[r].pick[i].suite].tests
<1>5. CASE m = l
  BY <1>1, <1>2, <1>3, <1>4, <1>5
<1>6. CASE m # l
  <2>1. /\ Level(r) /\ c = run[r].named /\ run[r].pick[i].suite \in Positions
        /\ \/ m.tests = l.tests /\ m.by = l.by
           \/ m.tests = d /\ d # NoTests /\ m.by = r
        /\ \/ m.score = l.score /\ m.scored = l.scored
           \/ m.scored = r /\ (report = None => Compile(d, c) /\ m.score = d[c])
    BY SMTT(30), <1>6, LevelsOfStep
  <2>2. fair' = fair /\ r \in InFlight /\ run[r].at = "level"
    BY <2>1, HistoryOfStep, InFlightStep, StepOfOne DEF Start
  <2>3. ASSUME r \in fair
        PROVE  /\ run[r].class = c /\ report = None
               /\ d \in {NoTests, [NoTests EXCEPT ![c] = r]}
    BY <2>1, <2>2, <2>3, FairWorksAlone DEF InWork, Own
  <2>4. m.by \in fair' => m.tests = [NoTests EXCEPT ![c] = m.by] /\ run'[m.by].class = c
    <3>1. CASE m.tests = l.tests /\ m.by = l.by
      BY <3>1, <2>2, <1>1, <1>3
    <3>2. CASE m.tests = d /\ d # NoTests /\ m.by = r
      BY <3>2, <2>2, <2>3, <1>1
    <3> QED
      BY <2>1, <3>1, <3>2
  <2>5. m.scored \in fair' => m.score = m.scored /\ run'[m.scored].class = c
    <3>1. CASE m.score = l.score /\ m.scored = l.scored
      BY <3>1, <2>2, <1>1, <1>3
    <3>2. CASE m.scored = r /\ (report = None => Compile(d, c) /\ m.score = d[c])
      <4> SUFFICES ASSUME r \in fair
                   PROVE  m.score = r /\ run'[r].class = c
        BY <3>2, <2>2
      <4>1. d[c] # 0 /\ m.score = d[c]
        BY <3>2, <2>3 DEF Compile
      <4>2. d[c] = r
        <5>1. [NoTests EXCEPT ![c] = r][c] = r
          BY SMTT(30), <2>3, OwnIsOne
        <5>2. NoTests[c] = 0
          BY <2>3 DEF NoTests
        <5> HIDE DEF d
        <5> QED
          BY <2>3, <4>1, <5>1, <5>2
      <4> QED
        BY <2>3, <4>1, <4>2, <1>1
    <3> QED
      BY <2>1, <3>1, <3>2
  <2> QED
    BY <2>4, <2>5
<1> QED
  BY <1>5, <1>6

\* A fair run picks its levels in the order of the coverages, which stay as they are
\* until it ends.
LEMMA RankedStep ==
    ASSUME TypeOK, OffIsIdle, AloneIsAlone, CalmOrAlone, CalmWork, LevelsAreRanked,
           OffBringsNothing, NEW r \in Runs, Step(r)
    PROVE  LevelsAreRanked'
<1> SUFFICES ASSUME NEW q \in fair', run'[q].at = "level"
             PROVE  /\ \A i, j \in 1 .. run'[q].levels : i < j =>
                           /\ run'[q].pick[i].suite # run'[q].pick[j].suite
                           /\ run'[q].pick[i].coverage <= run'[q].pick[j].coverage
                    /\ run'[q].levels > 1 => \A k \in Positions :
                           slots'[k].report.last <= run'[q].pick[run'[q].levels].coverage
  BY DEF LevelsAreRanked
<1>0. run[r] \in RunTypes /\ fair \subseteq Runs
  BY DEF TypeOK
<1>1. q = r /\ q \in fair /\ ~Start(r)
  <2>1. ~Start(r)
    <3>1. ASSUME Start(r) PROVE FALSE
      <4>1. run'[r].at = "generate" /\ r \notin InFlight
        BY <3>1, StepOfOne, InFlightStep
      <4>2. q # r /\ run[q].at = "level" /\ q \in fair
        BY <4>1, StepKeeps, HistoryOfStep, <1>0
      <4>3. q \in InFlight
        BY <4>2, <1>0 DEF InFlight
      <4> QED
        BY <3>1, <4>2, <4>3, HistoryOfStep
    <3> QED
      BY <3>1
  <2>2. q \in fair /\ r \in InFlight
    BY <2>1, HistoryOfStep, InFlightStep
  <2>3. q # r => q \in InFlight
    BY <2>2, <1>0, StepKeeps DEF InFlight
  <2> QED
    BY <2>1, <2>2, <2>3, FairWorksAlone
<1>2. CASE Select(r)
  <2>1. ~Ended(r, "failed")
    BY <1>1, StepKeeps
  <2>2. PICK o \in Orders : run'[r].levels = order.levels /\ run'[r].pick = Picks(o, order.levels)
    BY <1>2, <2>1, StepOfOne
  <2>3. order.levels # 0 /\ order.levels \in 0 .. MaxLevel
    BY <1>2, <2>1, StepOfOne DEF TypeOK
  <2>4. slots' = slots
    BY <1>2 DEF Select, directory
  <2> QED
    BY <1>1, <2>2, <2>3, <2>4, PicksAreRanked
<1>3. CASE Level(r)
  <2>1. run[r].at = "level" /\ run'[r].pick = run[r].pick /\ run'[r].levels = run[r].levels
    BY <1>3, <1>0, StepOfOne DEF RunTypes
  <2>2. \A k \in Positions : slots'[k].report = slots[k].report
    <3> DEFINE s == run[r].pick[run[r].k].suite
    <3>1. PICK t : slots' = [slots EXCEPT ![s].tests = t]
      BY <1>3 DEF Level
    <3> QED
      BY <3>1 DEF TypeOK
  <2> QED
    BY <1>1, <2>1, <2>2 DEF LevelsAreRanked
<1>4. CASE ~Select(r) /\ ~Level(r)
  <2>1. run'[r].at # "level"
    BY <1>1, <1>0, <1>4, StepOfOne, StepKeeps DEF Step, RunTypes
  <2> QED
    BY <1>1, <2>1
<1> QED
  BY <1>2, <1>3, <1>4

-----------------------------------------------------------------------------
(* The theorems.                                                           *)

\* The invariant holds at the start.
LEMMA InvInit == Init => IInv
<1> SUFFICES ASSUME Init PROVE IInv
  OBVIOUS
<1>1. TypeOK /\ OffIsIdle
  BY TypeInit
<1>2. InFlight = {}
  BY DEF Init, Idle, InFlight
<1>3. AloneIsAlone /\ CalmOrAlone /\ CalmWork
  BY <1>2 DEF AloneIsAlone, CalmOrAlone, CalmWork
<1>4. OffBringsNothing
  <2>1. \A r \in Runs : r # 0
    BY EvoAssumption DEF Runs
  <2>2. \A c \in Classes, i \in Levels : levels[c][i].by = 0 /\ levels[c][i].scored = 0
    BY DEF Init, NoLevel
  <2> QED
    BY <2>1, <2>2 DEF Init, OffBringsNothing
<1>5. Quiet
  BY DEF Init, Quiet
<1>6. LevelsAreItsOwn /\ LevelsAreRanked
  BY DEF Init, LevelsAreItsOwn, LevelsAreRanked
<1> QED
  BY <1>1, <1>3, <1>4, <1>5, <1>6 DEF IInv

\* Every step keeps it.
LEMMA InvStep == IInv /\ [Next]_vars => IInv'
<1> SUFFICES ASSUME IInv, [Next]_vars PROVE IInv'
  OBVIOUS
<1>1. CASE UNCHANGED vars
  <2>1. UNCHANGED <<run, project, order, report, tests, slots, levels, alone, fair, calm, faults>>
    BY <1>1 DEF vars, directory, history
  <2>2. InFlight' = InFlight
    BY <2>1 DEF InFlight
  <2>3. TypeOK' /\ OffIsIdle'
    BY TypeStep DEF IInv
  <2>4. \A r \in Runs : InWork(r) => InWork(r)'
    BY <2>1 DEF InWork, Own
  <2>5. AloneIsAlone' /\ CalmOrAlone' /\ OffBringsNothing' /\ Quiet'
    BY <2>1, <2>2 DEF IInv, AloneIsAlone, CalmOrAlone, OffBringsNothing, Quiet
  <2>6. CalmWork'
    BY <2>1, <2>2, <2>4 DEF IInv, CalmWork, InFlight
  <2>7. LevelsAreItsOwn' /\ LevelsAreRanked'
    BY <2>1 DEF IInv, LevelsAreItsOwn, LevelsAreRanked
  <2> QED
    BY <2>3, <2>5, <2>6, <2>7 DEF IInv
<1>2. CASE Next
  <2>1. PICK r \in Runs : Step(r)
    BY <1>2 DEF Next
  <2>2. TypeOK' /\ OffIsIdle'
    BY TypeStep DEF IInv
  <2>3. AloneIsAlone' /\ CalmOrAlone' /\ OffBringsNothing'
    BY <2>1, ContactStep, BringsStep DEF IInv
  <2>4. Quiet' /\ CalmWork'
    BY <2>1, QuietStep, WorkStep DEF IInv
  <2>5. LevelsAreItsOwn' /\ LevelsAreRanked'
    BY <2>1, OwnLevelsStep, RankedStep DEF IInv
  <2> QED
    BY <2>2, <2>3, <2>4, <2>5 DEF IInv
<1> QED
  BY <1>1, <1>2

\* The invariant holds throughout.
LEMMA Invariant == Spec => []IInv
<1>1. Init => IInv
  BY InvInit
<1>2. IInv /\ [Next]_vars => IInv'
  BY InvStep
<1> QED
  BY <1>1, <1>2, PTL DEF Spec

\* Types: however the runs overlap, are killed or find things left, a pick is one of
\* the suites, and no loop of the script goes past its end.
THEOREM TypeCorrectness == Spec => []TypeOK
<1>1. IInv => TypeOK
  BY DEF IInv
<1> QED
  BY <1>1, Invariant, PTL

\* A run that overlaps no other, after two quiet complete ones, stores tests and
\* scores of its own version of its class only.
THEOREM OwnLevels == Spec => []LevelsAreItsOwn
<1>1. IInv => LevelsAreItsOwn
  BY DEF IInv
<1> QED
  BY <1>1, Invariant, PTL

\* Its levels are different suites of growing coverage, the highest the best of all.
THEOREM RankedLevels == Spec => []LevelsAreRanked
<1>1. IInv => LevelsAreRanked
  BY DEF IInv
<1> QED
  BY <1>1, Invariant, PTL
====

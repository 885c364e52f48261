------------------------ MODULE RandoopLevels_proofs ------------------------
(***************************************************************************)
(* Proofs about the generation of Randoop's levels, for every finite set   *)
(* of classes, every number of processes, every set of blocks and every    *)
(* limit of the loop.  IInv is inductive: what holds of any process that   *)
(* generates a class (LoopBounds, LevelsBegun) and, of a class generated   *)
(* alone and from a clean start, what it finds in the directories          *)
(* (AloneFiles) and has made of them so far (AloneLevels, AloneBest).      *)
(***************************************************************************)
EXTENDS RandoopLevels, FiniteSetTheorems, WellFoundedInduction, TLAPS

InLoop == {"poll", "read", "mkdir", "copy", "clear"}

\* A process has a class exactly while it is in the loop of file_testing.
ClassesInLoop == \A p \in Processes : gen[p].class # None <=> gen[p].at \in InLoop

\* The counters of the loop never pass its limits.
LoopBounds ==
    \A p \in Processes :
        /\ gen[p].at \in {"poll", "read"} => gen[p].sat <= gen[p].iter /\ gen[p].level < MaxLevel
        /\ gen[p].at \in {"mkdir", "copy"} => gen[p].sat = 0 /\ gen[p].level > 0

\* The levels whose directory a process has made, and those it has filled.
Begun(p) == IF gen[p].at = "mkdir" THEN gen[p].level - 1 ELSE gen[p].level
Filled(p) == IF gen[p].at \in {"mkdir", "copy"} THEN gen[p].level - 1 ELSE gen[p].level

\* No directory of a level is missing below one that is there.
NoGap ==
    \A c \in Classes : \A l, m \in Levels :
        l < m /\ levels[c][m] # None => levels[c][l] # None
LevelsBegun ==
    \A p \in Working : \A l \in 1 .. Begun(p) : levels[gen[p].class][l] # None

Alone(p) == p \in Working /\ gen[p].class \notin disturbed

\* No other process is at work, ./classes holds this one class, and at most the
\* script of the iteration the process waits for is running.
AloneAtWork(p) ==
    /\ \A q \in Working : q = p
    /\ compiled = {gen[p].class}
    /\ scripts \subseteq {[class |-> gen[p].class, iter |-> gen[p].iter]}
    /\ gen[p].at # "poll" => scripts = {}

\* Every earlier iteration was measured, no later one has begun, and every report
\* is of this class alone and covers what the report before it covers.
AloneFiles(p) ==
    LET found == dirs[gen[p].class]  k == gen[p].iter
    IN  /\ gen[p].at = "poll" => (scripts = {} <=> found[k] # None)
        /\ gen[p].at = "read" => found[k] # None
        /\ gen[p].at \in {"mkdir", "copy", "clear"} => found[k] \in Coverages
        /\ \A i \in 0 .. k - 1 : found[i] \in Coverages
        /\ \A i \in Iterations : i > k => found[i] = None
        /\ \A i \in Iterations : found[i] \in Coverages => found[i].over = {gen[p].class}
        /\ \A i, j \in Iterations :
              i <= j /\ found[i] \in Coverages /\ found[j] \in Coverages =>
                  found[i].blocks \subseteq found[j].blocks

\* An iteration that made the last filled level, whose report covers no less than the
\* iterations up to it for which tests were written.
MadeLevel(p, j) ==
    LET c == gen[p].class  n == Filled(p)
    IN  /\ dirs[c][j] \in Coverages /\ gen[p].exCov = LineCoverage(dirs[c][j])
        /\ \A i \in (0 .. j) \cap tested[c] :
              Measured(c, n) /\ Percent(dirs[c][i]) <= Percent(levels[c][n])

\* The reports in the filled levels are those of iterations with tests, and nothing is
\* in the levels above; while every level was made by a run with tests, none is empty
\* and the next coverage is compared with that of the last.
AloneLevels(p) ==
    LET c == gen[p].class  n == Filled(p)
    IN  /\ \A l \in Levels : l > n => ~Measured(c, l)
        /\ n = 0 => gen[p].exCov = 0
        /\ \A l \in Levels : Measured(c, l) =>
              \E i \in (0 .. gen[p].iter) \cap tested[c] : levels[c][l] = dirs[c][i]
        /\ n > 0 => \E j \in 0 .. gen[p].iter : MadeLevel(p, j)
        /\ c \notin testless =>
              /\ \A l \in 1 .. n : Measured(c, l)
              /\ n > 0 => gen[p].exCov = LineCoverage(levels[c][n])
        /\ gen[p].at \in {"mkdir", "copy"} =>
              gen[p].cov = LineCoverage(dirs[c][gen[p].iter]) /\ gen[p].cov > gen[p].exCov

\* No iteration that has been looked at is read as more than the next is compared with.
AloneBest(p) ==
    \A i \in 0 .. gen[p].iter : i < gen[p].iter \/ gen[p].at = "clear" =>
        LineCoverage(dirs[gen[p].class][i]) <= gen[p].exCov

\* While nothing was disturbed and nothing has failed, a process leaves nothing
\* outside the class it generates.
Tidy ==
    disturbed = {} /\ (\A p \in Processes : gen[p].at # "failed") =>
        /\ Working = {} => scripts = {} /\ compiled = {} /\ \A c \in Classes : dirs[c] = NoDirs
        /\ \A p \in Working : \A c \in Classes \ {gen[p].class} : dirs[c] = NoDirs

\* What holds of a process that generates its class alone.
AloneInv(p) == AloneAtWork(p) /\ AloneFiles(p) /\ AloneLevels(p) /\ AloneBest(p)

IInv ==
    /\ TypeOK
    /\ ClassesInLoop
    /\ LoopBounds
    /\ NoGap /\ LevelsBegun
    /\ \A p \in Processes : Alone(p) => AloneInv(p)
    /\ LevelsGrow
    /\ Tidy

-----------------------------------------------------------------------------
(* The figures of a report.                                                *)

\* A report of a class alone shows the share of its lines, which nothing divides.
LEMMA PercentOfOne ==
    ASSUME NEW c \in Classes, NEW a \in Coverages, a.over = {c}
    PROVE  Percent(a) = LinePercent(a.blocks) /\ Percent(a) \in 0 .. 100
<1>1. Cardinality({c}) = 1
  BY FS_Singleton
<1>2. LinePercent(a.blocks) \in 0 .. 100
  BY PercentAssumption DEF Coverages
<1>3. Percent(a) = LinePercent(a.blocks) \div 1
  BY <1>1 DEF Percent
<1>4. \A n \in 0 .. 100 : n \div 1 = n
  OBVIOUS
<1> QED
  BY <1>2, <1>3, <1>4

\* Of several classes the share is smaller: the others count as not executed.
LEMMA PercentRange ==
    ASSUME NEW a \in Coverages
    PROVE  Percent(a) \in 0 .. 100
<1>1. IsFiniteSet(a.over)
  BY LimitsAssumption, FS_Subset DEF Coverages
<1>2. Cardinality(a.over) \in Nat /\ Cardinality(a.over) # 0
  BY <1>1, FS_CardinalityType, FS_EmptySet DEF Coverages
<1>3. LinePercent(a.blocks) \in 0 .. 100
  BY PercentAssumption DEF Coverages
<1>4. \A n \in 0 .. 100, k \in Nat : k # 0 => n \div k \in 0 .. 100
  OBVIOUS
<1> QED
  BY <1>2, <1>3, <1>4 DEF Percent

LEMMA LineCoverageRange ==
    ASSUME NEW a \in Coverages
    PROVE  LineCoverage(a) \in 0 .. 100
BY PercentRange DEF LineCoverage

\* Of two reports of one class the one that covers the other's blocks has no
\* smaller share.
LEMMA PercentGrows ==
    ASSUME NEW c \in Classes, NEW a \in Coverages, NEW b \in Coverages,
           a.over = {c}, b.over = {c}, a.blocks \subseteq b.blocks
    PROVE  Percent(a) <= Percent(b)
<1>1. Percent(a) = LinePercent(a.blocks) /\ Percent(b) = LinePercent(b.blocks)
  BY PercentOfOne
<1>2. a.blocks \in SUBSET Blocks /\ b.blocks \in SUBSET Blocks
  BY DEF Coverages
<1> QED
  BY <1>1, <1>2, PercentAssumption

\* Although a whole coverage is read as 10, what is read as more is more, once the
\* reports are merged: 100 can be followed by 100 only.
LEMMA ReadAsMore ==
    ASSUME NEW c \in Classes, NEW a \in Coverages, NEW b \in Coverages,
           a.over = {c}, b.over = {c}, a.blocks \subseteq b.blocks,
           LineCoverage(a) < LineCoverage(b)
    PROVE  Percent(a) < Percent(b)
<1>1. Percent(a) <= Percent(b) /\ Percent(a) \in 0 .. 100 /\ Percent(b) \in 0 .. 100
  BY PercentGrows, PercentOfOne
<1> QED
  BY <1>1 DEF LineCoverage

\* What is not read as more is no more, unless it is whole.
LEMMA NotReadAsMore ==
    ASSUME NEW a \in Coverages, NEW b \in Coverages,
           LineCoverage(b) <= LineCoverage(a)
    PROVE  Percent(b) = 100 \/ Percent(b) <= Percent(a)
<1>1. Percent(a) \in 0 .. 100 /\ Percent(b) \in 0 .. 100
  BY PercentRange
<1> QED
  BY <1>1 DEF LineCoverage

LEMMA NothingRead ==
    ASSUME NEW b \in Coverages, LineCoverage(b) <= 0
    PROVE  Percent(b) = 0
BY PercentRange DEF LineCoverage

-----------------------------------------------------------------------------
(* What a step does with the variables of its process.                     *)

GenType == [at : Steps, todo : SUBSET Classes, class : Classes \cup {None},
            iter : Iterations, sat : 0 .. MaxIter, level : 0 .. MaxLevel,
            cov : 0 .. 100, exCov : 0 .. 100]
DirType == Coverages \cup {NoReport, None}

\* The variables of a process that generates nothing, or starts to.
LEMMA AtType ==
    ASSUME NEW step \in Steps, NEW todo \in SUBSET Classes, NEW class \in Classes \cup {None}
    PROVE  /\ At(step, todo, class) \in GenType
           /\ At(step, todo, class).at = step /\ At(step, todo, class).class = class
           /\ At(step, todo, class).todo = todo
           /\ At(step, todo, class).iter = 0 /\ At(step, todo, class).sat = 0
           /\ At(step, todo, class).level = 0 /\ At(step, todo, class).exCov = 0
<1>1. 0 \in Iterations /\ 0 \in 0 .. MaxIter /\ 0 \in 0 .. MaxLevel /\ 0 \in 0 .. 100
  BY LimitsAssumption DEF Iterations
<1> QED
  BY <1>1 DEF At, GenType

\* A process that works has a class, and the directory of its iteration.
LEMMA AtWork ==
    ASSUME TypeOK, ClassesInLoop, NEW p \in Processes, gen[p].at \in InLoop
    PROVE  /\ p \in Working /\ gen[p].class \in Classes
           /\ gen[p].iter \in Iterations /\ Dir(p) \in DirType
<1>1. gen[p] \in GenType
  BY DEF TypeOK, GenType
<1>2. gen[p].class \in Classes /\ gen[p].iter \in Iterations
  BY <1>1 DEF ClassesInLoop, GenType
<1> QED
  BY <1>2 DEF Working, ClassesInLoop, Dir, TypeOK, DirType

\* The loop goes on with the next iteration, within its limits, or ends.
LEMMA Continued ==
    ASSUME TypeOK, NEW p \in Processes, NEW state \in GenType, Continue(p, state)
    PROVE  /\ gen' \in [Processes -> GenType]
           /\ \A q \in Processes \ {p} : gen'[q] = gen[q]
           /\ gen'[p].class = state.class /\ gen'[p].sat = state.sat
           /\ gen'[p].level = state.level /\ gen'[p].cov = state.cov
           /\ gen'[p].exCov = state.exCov
           /\ \/ /\ gen'[p].at = "poll" /\ gen'[p].iter = state.iter + 1
                 /\ state.sat < MaxSat /\ state.level < MaxLevel
                 /\ scripts' = scripts \cup {[class |-> state.class, iter |-> state.iter + 1]}
              \/ gen'[p].at = "clear" /\ gen'[p].iter = state.iter /\ scripts' = scripts
<1>0. gen \in [Processes -> GenType]
  BY DEF TypeOK, GenType
<1>1. CASE state.iter + 1 < MaxIter /\ state.sat < MaxSat /\ state.level < MaxLevel
  <2> DEFINE next == [state EXCEPT !.at = "poll", !.iter = state.iter + 1]
  <2>1. /\ gen' = [gen EXCEPT ![p] = next]
        /\ scripts' = scripts \cup {[class |-> next.class, iter |-> next.iter]}
    BY <1>1 DEF Continue, Launch
  <2>2. state.iter + 1 \in Iterations
    BY <1>1, LimitsAssumption DEF Iterations, GenType
  <2>3. /\ next \in GenType /\ next.at = "poll" /\ next.iter = state.iter + 1
        /\ next.class = state.class /\ next.sat = state.sat /\ next.level = state.level
        /\ next.cov = state.cov /\ next.exCov = state.exCov
    BY <2>2 DEF GenType, Steps
  <2> HIDE DEF next
  <2>4. gen' \in [Processes -> GenType] /\ gen'[p] = next
    BY <1>0, <2>1, <2>3
  <2> QED
    BY <1>0, <1>1, <2>1, <2>3, <2>4
<1>2. CASE ~(state.iter + 1 < MaxIter /\ state.sat < MaxSat /\ state.level < MaxLevel)
  <2> DEFINE next == [state EXCEPT !.at = "clear"]
  <2>1. gen' = [gen EXCEPT ![p] = next] /\ scripts' = scripts
    BY <1>2 DEF Continue
  <2>2. /\ next \in GenType /\ next.at = "clear" /\ next.iter = state.iter
        /\ next.class = state.class /\ next.sat = state.sat /\ next.level = state.level
        /\ next.cov = state.cov /\ next.exCov = state.exCov
    BY DEF GenType, Steps
  <2> HIDE DEF next
  <2>3. gen' \in [Processes -> GenType] /\ gen'[p] = next
    BY <1>0, <2>1, <2>2
  <2> QED
    BY <1>0, <2>1, <2>2, <2>3
<1> QED
  BY <1>1, <1>2

\* A process that ends or is killed has no class any more.
LEMMA EndedType ==
    ASSUME TypeOK, NEW p \in Processes, NEW how \in {"done", "failed"}, Ended(p, how)
    PROVE  /\ gen' \in [Processes -> GenType]
           /\ \A q \in Processes \ {p} : gen'[q] = gen[q]
           /\ gen'[p].at = how /\ gen'[p].class = None
<1>1. gen \in [Processes -> GenType] /\ how \in Steps
  BY DEF TypeOK, GenType, Steps
<1>2. At(how, {}, None) \in GenType
  BY <1>1, AtType
<1>3. At(how, {}, None).at = how /\ At(how, {}, None).class = None
  BY DEF At
<1> QED
  BY <1>1, <1>2, <1>3 DEF Ended

\* The three outcomes of reading a report.
LEMMA ReadCases ==
    ASSUME TypeOK, ClassesInLoop, LoopBounds, NEW p \in Processes, Read(p)
    PROVE  /\ gen[p].at = "read"
           /\ gen' \in [Processes -> GenType]
           /\ \A q \in Processes \ {p} : gen'[q] = gen[q]
           /\ UNCHANGED <<source, dirs, tested, levels, compiled, disturbed, testless>>
           /\ \/ /\ gen'[p].at = "failed" /\ gen'[p].class = None
                 /\ Dir(p) \notin Coverages /\ scripts' = scripts
              \/ /\ Dir(p) \in Coverages /\ LineCoverage(Dir(p)) <= gen[p].exCov
                 /\ gen'[p].class = gen[p].class /\ gen'[p].level = gen[p].level
                 /\ gen'[p].exCov = gen[p].exCov /\ gen'[p].sat = gen[p].sat + 1
                 /\ \/ /\ gen'[p].at = "poll" /\ gen'[p].iter = gen[p].iter + 1
                       /\ gen[p].level < MaxLevel
                       /\ scripts' = scripts \cup
                                       {[class |-> gen[p].class, iter |-> gen[p].iter + 1]}
                    \/ gen'[p].at = "clear" /\ gen'[p].iter = gen[p].iter /\ scripts' = scripts
              \/ /\ Dir(p) \in Coverages /\ LineCoverage(Dir(p)) > gen[p].exCov
                 /\ gen'[p].at = "mkdir" /\ gen'[p].class = gen[p].class
                 /\ gen'[p].sat = 0 /\ gen'[p].level = gen[p].level + 1
                 /\ gen'[p].exCov = gen[p].exCov /\ gen'[p].cov = LineCoverage(Dir(p))
                 /\ gen'[p].iter = gen[p].iter /\ scripts' = scripts
<1>0. gen \in [Processes -> GenType] /\ gen[p] \in GenType
  BY DEF TypeOK, GenType
<1>1. /\ gen[p].at = "read"
      /\ UNCHANGED <<source, dirs, tested, levels, compiled, disturbed, testless>>
  BY DEF Read
<1>2. gen[p].sat <= gen[p].iter /\ gen[p].level < MaxLevel
  BY <1>1 DEF LoopBounds
<1>3. CASE Dir(p) \notin Coverages /\ Ended(p, "failed") /\ scripts' = scripts
  BY <1>1, <1>3, EndedType
<1>4. CASE /\ Dir(p) \in Coverages /\ gen[p].exCov >= LineCoverage(Dir(p))
           /\ Continue(p, [gen[p] EXCEPT !.sat = @ + 1])
  <2> DEFINE state == [gen[p] EXCEPT !.sat = @ + 1]
  <2>1. gen[p].sat + 1 \in 0 .. MaxIter
    BY <1>0, <1>2, LimitsAssumption DEF GenType, Iterations
  <2>2. /\ state \in GenType /\ state.sat = gen[p].sat + 1
        /\ state.class = gen[p].class /\ state.level = gen[p].level
        /\ state.exCov = gen[p].exCov /\ state.iter = gen[p].iter
    BY <1>0, <2>1 DEF GenType
  <2>3. LineCoverage(Dir(p)) <= gen[p].exCov
    BY <1>0, <1>4, LineCoverageRange DEF GenType
  <2>4. Continue(p, state)
    BY <1>4
  <2> HIDE DEF state
  <2> QED
    BY <1>1, <1>2, <1>4, <2>2, <2>3, <2>4, Continued
<1>5. CASE /\ Dir(p) \in Coverages /\ gen[p].exCov < LineCoverage(Dir(p))
           /\ gen' = [gen EXCEPT ![p] = [gen[p] EXCEPT !.at = "mkdir", !.sat = 0,
                                            !.cov = LineCoverage(Dir(p)), !.level = @ + 1]]
           /\ scripts' = scripts
  <2> DEFINE cov == LineCoverage(Dir(p))
             next == [gen[p] EXCEPT !.at = "mkdir", !.sat = 0, !.cov = cov,
                                    !.level = gen[p].level + 1]
  <2>1. cov \in 0 .. 100 /\ gen[p].level + 1 \in 0 .. MaxLevel /\ 0 \in 0 .. MaxIter
    BY <1>0, <1>2, <1>5, LineCoverageRange, LimitsAssumption DEF GenType
  <2>2. gen' = [gen EXCEPT ![p] = next]
    BY <1>5
  <2> HIDE DEF cov
  <2>3. /\ next \in GenType /\ next.at = "mkdir" /\ next.sat = 0 /\ next.cov = cov
        /\ next.level = gen[p].level + 1 /\ next.class = gen[p].class
        /\ next.exCov = gen[p].exCov /\ next.iter = gen[p].iter
    BY <1>0, <2>1 DEF GenType, Steps
  <2>4. cov > gen[p].exCov
    BY <1>0, <1>5, <2>1 DEF GenType, cov
  <2> HIDE DEF next
  <2>5. gen' \in [Processes -> GenType] /\ gen'[p] = next
    BY <1>0, <2>2, <2>3
  <2> QED
    BY <1>0, <1>1, <1>5, <2>2, <2>3, <2>4, <2>5 DEF cov
<1> QED
  BY <1>3, <1>4, <1>5 DEF Read

\* A set of numbers that is not empty and has a bound has a greatest one.
LEMMA HasGreatest ==
    ASSUME NEW S \in SUBSET Nat, S # {}, NEW k \in Nat, \A i \in S : i <= k
    PROVE  \E m \in S : \A i \in S : i <= m
<1> DEFINE T == {k - i : i \in S}
           R == OpToRel(<, Nat)
<1>1. T \subseteq Nat /\ T # {}
  <2>1. \A i \in S : i \in Nat /\ i <= k /\ k - i \in Nat
    OBVIOUS
  <2> QED
    BY <2>1
<1>2. PICK x \in T : \A y \in T : ~(<<y, x>> \in R)
  <2> HIDE DEF T
  <2> QED
    BY <1>1, NatLessThanWellFounded, WFMin
<1>3. \A y \in T : ~(y < x)
  <2>1. \A y \in Nat : y < x => <<y, x>> \in R
    BY <1>1 DEF OpToRel
  <2> QED
    BY <1>1, <1>2, <2>1
<1>4. PICK m \in S : x = k - m
  BY <1>2
<1>5. ASSUME NEW i \in S PROVE i <= m
  <2>1. k - i \in T /\ ~(k - i < k - m)
    BY <1>3, <1>4
  <2>2. i \in Nat /\ m \in Nat
    OBVIOUS
  <2> QED
    BY <2>1, <2>2
<1> QED
  BY <1>5

\* What is copied into a level: the report of the last iteration that has one and
\* tests.
LEMMA LastIsLast ==
    ASSUME TypeOK, NEW c \in Classes, NEW k \in Iterations, NEW i \in LastReport(c, k)
    PROVE  /\ i \in (0 .. k) \cap tested[c] /\ dirs[c][i] \in Coverages
           /\ \A j \in (0 .. k) \cap tested[c] : dirs[c][j] \in Coverages => j <= i
BY DEF LastReport

\* There is one if any iteration has a report and tests.
LEMMA LastIsThere ==
    ASSUME TypeOK, NEW c \in Classes, NEW k \in Iterations,
           NEW i \in (0 .. k) \cap tested[c], dirs[c][i] \in Coverages
    PROVE  LastReport(c, k) # {}
<1> DEFINE found == {j \in (0 .. k) \cap tested[c] : dirs[c][j] \in Coverages}
<1>0. k \in Nat
  BY LimitsAssumption DEF Iterations
<1>1. found \in SUBSET Nat /\ found # {} /\ \A j \in found : j <= k
  BY <1>0
<1>2. \E m \in found : \A j \in found : j <= m
  <2> HIDE DEF found
  <2> QED
    BY <1>0, <1>1, HasGreatest
<1> QED
  BY <1>2 DEF LastReport

\* The level is filled, or left as it is when no iteration has a report and tests; then
\* the loop goes on.
LEMMA CopyCases ==
    ASSUME TypeOK, ClassesInLoop, LoopBounds, NEW p \in Processes, CopyLevel(p)
    PROVE  /\ gen[p].at = "copy" /\ p \in Working
           /\ gen[p].class \in Classes /\ gen[p].level \in Levels
           /\ gen' \in [Processes -> GenType]
           /\ \A q \in Processes \ {p} : gen'[q] = gen[q]
           /\ UNCHANGED <<source, dirs, tested, compiled, disturbed>>
           /\ testless' = IF gen[p].iter \in tested[gen[p].class] THEN testless
                          ELSE testless \cup {gen[p].class}
           /\ \E new \in DirType :
                 /\ levels' = [levels EXCEPT ![gen[p].class][gen[p].level] = new]
                 /\ \/ /\ LastReport(gen[p].class, gen[p].iter) = {}
                       /\ new = levels[gen[p].class][gen[p].level]
                    \/ \E i \in LastReport(gen[p].class, gen[p].iter) :
                          new \in Coverages /\ new = dirs[gen[p].class][i]
           /\ gen'[p].class = gen[p].class /\ gen'[p].level = gen[p].level
           /\ gen'[p].exCov = gen[p].cov /\ gen'[p].sat = gen[p].sat
           /\ \/ /\ gen'[p].at = "poll" /\ gen'[p].iter = gen[p].iter + 1
                 /\ gen[p].level < MaxLevel
                 /\ scripts' = scripts \cup
                                 {[class |-> gen[p].class, iter |-> gen[p].iter + 1]}
              \/ gen'[p].at = "clear" /\ gen'[p].iter = gen[p].iter /\ scripts' = scripts
<1> DEFINE c == gen[p].class
           k == gen[p].iter
           n == gen[p].level
<1>0. gen \in [Processes -> GenType] /\ gen[p] \in GenType
  BY DEF TypeOK, GenType
<1>1. /\ gen[p].at = "copy" /\ UNCHANGED <<source, dirs, tested, compiled, disturbed>>
      /\ testless' = IF k \in tested[c] THEN testless ELSE testless \cup {c}
  BY DEF CopyLevel
<1>2. p \in Working /\ c \in Classes /\ k \in Iterations
  BY <1>1, AtWork DEF InLoop
<1>3. n \in Levels
  BY <1>0, <1>1, LimitsAssumption DEF LoopBounds, GenType, Levels
<1>4. levels[c][n] \in DirType
  BY <1>2, <1>3 DEF TypeOK, DirType
<1>5. \E new \in DirType :
         /\ levels' = [levels EXCEPT ![c][n] = new]
         /\ \/ LastReport(c, k) = {} /\ new = levels[c][n]
            \/ \E i \in LastReport(c, k) : new \in Coverages /\ new = dirs[c][i]
  <2>1. CASE LastReport(c, k) = {}
    <3>1. levels' = [levels EXCEPT ![c][n] = levels[c][n]]
      BY <2>1 DEF CopyLevel
    <3> QED
      BY <1>4, <2>1, <3>1
  <2>2. CASE LastReport(c, k) # {}
    <3> DEFINE i == CHOOSE i \in LastReport(c, k) : TRUE
    <3>1. i \in LastReport(c, k)
      BY <2>2
    <3>2. levels' = [levels EXCEPT ![c][n] = dirs[c][i]]
      BY <2>2 DEF CopyLevel
    <3> HIDE DEF i
    <3>3. dirs[c][i] \in Coverages
      BY <1>2, <3>1, LastIsLast
    <3> QED
      BY <3>1, <3>2, <3>3 DEF DirType
  <2> QED
    BY <2>1, <2>2
<1>6. Continue(p, [gen[p] EXCEPT !.exCov = gen[p].cov, !.cov = 0])
  BY DEF CopyLevel
<1> DEFINE state == [gen[p] EXCEPT !.exCov = gen[p].cov, !.cov = 0]
<1>7. /\ state \in GenType /\ state.class = c /\ state.level = n /\ state.iter = k
      /\ state.exCov = gen[p].cov /\ state.sat = gen[p].sat
  <2>1. gen[p].cov \in 0 .. 100 /\ 0 \in 0 .. 100
    BY <1>0 DEF GenType
  <2> DEFINE e == gen[p].cov
             g == gen[p]
  <2>2. /\ state = [g EXCEPT !.exCov = e, !.cov = 0]
        /\ g \in GenType /\ e \in 0 .. 100 /\ c = g.class /\ k = g.iter /\ n = g.level
    BY <1>0, <2>1
  <2> HIDE DEF e, g, state, c, k, n
  <2>3. /\ state \in GenType /\ state.class = c /\ state.level = n /\ state.iter = k
        /\ state.exCov = e /\ state.sat = g.sat
    <3>1. /\ g.at \in Steps /\ g.todo \in SUBSET Classes /\ g.class \in Classes \cup {None}
          /\ g.iter \in Iterations /\ g.sat \in 0 .. MaxIter /\ g.level \in 0 .. MaxLevel
      BY <2>2 DEF GenType
    <3>2. state = [at |-> g.at, todo |-> g.todo, class |-> g.class, iter |-> g.iter,
                   sat |-> g.sat, level |-> g.level, cov |-> 0, exCov |-> e]
      BY <2>2 DEF GenType
    <3> QED
      BY <2>2, <3>1, <3>2 DEF GenType
  <2> QED
    BY <2>3 DEF e, g, state, c, k, n
<1>8. Continue(p, state)
  BY <1>6
<1> HIDE DEF state
<1>9. /\ gen' \in [Processes -> GenType]
      /\ \A q \in Processes \ {p} : gen'[q] = gen[q]
      /\ gen'[p].class = c /\ gen'[p].level = n
      /\ gen'[p].exCov = gen[p].cov /\ gen'[p].sat = gen[p].sat
      /\ \/ /\ gen'[p].at = "poll" /\ gen'[p].iter = k + 1 /\ n < MaxLevel
            /\ scripts' = scripts \cup {[class |-> c, iter |-> k + 1]}
         \/ gen'[p].at = "clear" /\ gen'[p].iter = k /\ scripts' = scripts
  <2> HIDE DEF c, k, n
  <2> QED
    BY <1>7, <1>8, Continued
<1> QED
  BY <1>1, <1>2, <1>3, <1>5, <1>9

-----------------------------------------------------------------------------
(* Every step keeps the types.                                             *)

LEMMA InitType == Init => TypeOK
<1> SUFFICES ASSUME Init PROVE TypeOK
  OBVIOUS
<1>1. NoDirs \in [Iterations -> DirType]
  BY DEF NoDirs, DirType
<1>2. dirs \in [Classes -> [Iterations -> DirType]]
  BY <1>1 DEF Init
<1>3. At("off", {}, None) \in GenType
  BY AtType DEF Steps
<1>4. gen \in [Processes -> GenType]
  BY <1>3 DEF Init
<1>5. tested \in [Classes -> SUBSET Iterations] /\ testless \in SUBSET Classes
  BY DEF Init
<1> QED
  BY <1>2, <1>4, <1>5 DEF Init, TypeOK, GenType, DirType

\* The variables of the processes, whatever is done.
LEMMA GenStep ==
    ASSUME TypeOK, ClassesInLoop, LoopBounds, [Next]_vars
    PROVE  gen' \in [Processes -> GenType]
<1>0. gen \in [Processes -> GenType]
  BY DEF TypeOK, GenType
<1>1. CASE gen' = gen
  BY <1>0, <1>1
<1>2. ASSUME NEW p \in Processes, Start(p)
      PROVE  gen' \in [Processes -> GenType]
  BY <1>0, <1>2, AtType DEF Start, Steps
<1>3. ASSUME NEW p \in Processes, NEW c \in Classes, Skip(p, c) \/ Begin(p, c) \/ Misnamed(p, c)
      PROVE  gen' \in [Processes -> GenType]
  <2>1. gen[p] \in GenType /\ gen[p].todo \ {c} \in SUBSET Classes
    BY <1>0 DEF GenType
  <2>2. CASE Skip(p, c)
    <3>1. [gen[p] EXCEPT !.todo = gen[p].todo \ {c}] \in GenType
      BY <2>1 DEF GenType
    <3> QED
      BY <1>0, <2>2, <3>1 DEF Skip
  <2>3. CASE Begin(p, c)
    <3>1. At("poll", gen[p].todo \ {c}, c) \in GenType
      BY <2>1, AtType DEF Steps
    <3> QED
      BY <1>0, <2>3, <3>1 DEF Begin, Launch
  <2>4. CASE Misnamed(p, c)
    BY <2>4, EndedType DEF Misnamed
  <2> QED
    BY <1>3, <2>2, <2>3, <2>4
<1>4. ASSUME NEW p \in Processes, EndOfList(p) \/ Crash(p)
      PROVE  gen' \in [Processes -> GenType]
  BY <1>4, EndedType DEF EndOfList, Crash
<1>5. ASSUME NEW p \in Processes, Poll(p) \/ MakeLevel(p)
      PROVE  gen' \in [Processes -> GenType]
  <2>1. \A step \in Steps : [gen[p] EXCEPT !.at = step] \in GenType
    BY <1>0 DEF GenType
  <2>2. \E step \in Steps : gen' = [gen EXCEPT ![p].at = step]
    BY <1>5 DEF Poll, MakeLevel, Goto, Steps
  <2> QED
    BY <1>0, <2>1, <2>2
<1>6. ASSUME NEW p \in Processes, Read(p) \/ CopyLevel(p)
      PROVE  gen' \in [Processes -> GenType]
  BY <1>6, ReadCases, CopyCases
<1>7. ASSUME NEW p \in Processes, Clear(p)
      PROVE  gen' \in [Processes -> GenType]
  <2>1. At("next", gen[p].todo, None) \in GenType
    <3>1. gen[p].todo \in SUBSET Classes /\ "next" \in Steps
      BY <1>0 DEF Steps, GenType
    <3> QED
      BY <3>1, AtType
  <2> QED
    BY <1>0, <1>7, <2>1 DEF Clear
<1>8. CASE Restart
  <2>0. "failed" \in Steps /\ {} \in SUBSET Classes /\ None \in Classes \cup {None}
    BY DEF Steps
  <2>1. At("failed", {}, None) \in GenType
    BY ZenonT(60), <2>0, AtType
  <2> QED
    BY <1>0, <1>8, <2>1 DEF Restart
<1> QED
  BY <1>1, <1>2, <1>3, <1>4, <1>5, <1>6, <1>7, <1>8
  DEF Next, Step, PlaceSource, Script, Recover, vars

LEMMA DirsStep ==
    ASSUME TypeOK, ClassesInLoop, LoopBounds, [Next]_vars
    PROVE  dirs' \in [Classes -> [Iterations -> DirType]]
<1>0. dirs \in [Classes -> [Iterations -> DirType]]
  BY DEF TypeOK, DirType
<1>1. CASE dirs' = dirs
  BY <1>0, <1>1
<1>2. CASE dirs' = [c \in Classes |-> NoDirs]
  <2>1. NoDirs \in [Iterations -> DirType]
    BY DEF NoDirs, DirType
  <2> QED
    BY <1>2, <2>1
<1>3. ASSUME NEW s \in scripts, Script(s)
      PROVE  dirs' \in [Classes -> [Iterations -> DirType]]
  <2>1. s.class \in Classes /\ s.iter \in Iterations
    BY DEF TypeOK
  <2>2. ASSUME s.class \in compiled, NEW blocks \in SUBSET Blocks
        PROVE  Merged(s, [blocks |-> blocks, over |-> compiled]) \in Coverages
    <3>1. compiled \in (SUBSET Classes) \ {{}}
      BY <2>2 DEF TypeOK
    <3>2. [blocks |-> blocks, over |-> compiled] \in Coverages
      BY <3>1 DEF Coverages
    <3> QED
      BY <3>2 DEF Merged, Coverages
  <2>3. \E new \in DirType : dirs' = [dirs EXCEPT ![s.class][s.iter] = new]
    <3>1. ASSUME NEW blocks \in SUBSET Blocks, s.class \in compiled,
                 dirs' = [dirs EXCEPT ![s.class][s.iter] =
                              Merged(s, [blocks |-> blocks, over |-> compiled])]
          PROVE  \E new \in DirType : dirs' = [dirs EXCEPT ![s.class][s.iter] = new]
      BY <2>2, <3>1 DEF DirType
    <3>2. ASSUME dirs' = [dirs EXCEPT ![s.class][s.iter] = IF @ = None THEN NoReport ELSE @]
          PROVE  \E new \in DirType : dirs' = [dirs EXCEPT ![s.class][s.iter] = new]
      <4> DEFINE new == IF dirs[s.class][s.iter] = None THEN NoReport ELSE dirs[s.class][s.iter]
      <4>1. new \in DirType
        BY <1>0, <2>1 DEF DirType
      <4>2. dirs' = [dirs EXCEPT ![s.class][s.iter] = new]
        BY <3>2
      <4> HIDE DEF new
      <4> QED
        BY <4>1, <4>2
    <3> QED
      BY <1>3, <3>1, <3>2 DEF Script
  <2> HIDE DEF DirType
  <2> QED
    BY <1>0, <2>1, <2>3
<1> QED
  BY ZenonT(60), <1>1, <1>2, <1>3, ReadCases, CopyCases
  DEF Next, Step, PlaceSource, Start, Skip, Begin, Misnamed, EndOfList, Poll, MakeLevel, Clear,
      Crash, Restart, Recover, vars

\* A level changes by one step of the process that makes it: its directory appears,
\* or it is given a report.
LEMMA LevelsStep ==
    ASSUME TypeOK, ClassesInLoop, LoopBounds, [Next]_vars
    PROVE  \/ levels' = levels
           \/ \E p \in Processes, new \in DirType :
                 /\ MakeLevel(p) \/ CopyLevel(p)
                 /\ p \in Working /\ gen[p].class \in Classes /\ gen[p].level \in Levels
                 /\ levels' = [levels EXCEPT ![gen[p].class][gen[p].level] = new]
                 /\ new = levels[gen[p].class][gen[p].level] \/ new # None
<1>0. None # NoReport /\ None \notin Coverages
  BY LimitsAssumption
<1>1. ASSUME NEW p \in Processes, MakeLevel(p)
      PROVE  \E new \in DirType :
                /\ p \in Working /\ gen[p].class \in Classes /\ gen[p].level \in Levels
                /\ levels' = [levels EXCEPT ![gen[p].class][gen[p].level] = new]
                /\ new = levels[gen[p].class][gen[p].level] \/ new # None
  <2> DEFINE c == gen[p].class
             n == gen[p].level
             new == IF levels[c][n] = None THEN NoReport ELSE levels[c][n]
  <2>1. gen[p].at = "mkdir" /\ p \in Working /\ c \in Classes
    BY <1>1, AtWork DEF MakeLevel, InLoop
  <2>2. n \in Levels
    BY <2>1, LimitsAssumption DEF LoopBounds, TypeOK, Levels
  <2>3. new \in DirType
    BY <2>1, <2>2 DEF TypeOK, DirType
  <2>4. levels' = [levels EXCEPT ![c][n] = new]
    BY <1>1 DEF MakeLevel
  <2>5. new = levels[c][n] \/ new # None
    BY <1>0
  <2> HIDE DEF new
  <2> QED
    BY <2>1, <2>2, <2>3, <2>4, <2>5
<1>2. ASSUME NEW p \in Processes, CopyLevel(p)
      PROVE  \E new \in DirType :
                /\ p \in Working /\ gen[p].class \in Classes /\ gen[p].level \in Levels
                /\ levels' = [levels EXCEPT ![gen[p].class][gen[p].level] = new]
                /\ new = levels[gen[p].class][gen[p].level] \/ new # None
  BY <1>0, <1>2, CopyCases
<1>3. ASSUME ~\E p \in Processes : MakeLevel(p) \/ CopyLevel(p)
      PROVE  levels' = levels
  BY ZenonT(60), <1>3, ReadCases
  DEF Next, Step, PlaceSource, Start, Skip, Begin, Misnamed, EndOfList, Poll, Clear, Script,
      Crash, Restart, Recover, vars
<1> QED
  BY <1>1, <1>2, <1>3

LEMMA TypeStep ==
    ASSUME TypeOK, ClassesInLoop, LoopBounds, [Next]_vars
    PROVE  TypeOK'
<1>1. gen' \in [Processes -> GenType]
  BY GenStep
<1>2. dirs' \in [Classes -> [Iterations -> DirType]]
  BY DirsStep
<1>3. levels' \in [Classes -> [Levels -> DirType]]
  <2>1. levels \in [Classes -> [Levels -> DirType]]
    BY DEF TypeOK, DirType
  <2>2. ASSUME NEW c \in Classes, NEW l \in Levels, NEW new \in DirType,
               levels' = [levels EXCEPT ![c][l] = new]
        PROVE  levels' \in [Classes -> [Levels -> DirType]]
    <3> HIDE DEF DirType
    <3> QED
      BY <2>1, <2>2
  <2> QED
    BY <2>1, <2>2, LevelsStep
<1>4. source' \in [Classes -> {"absent", "named", "misnamed"}]
  <2>0. source \in [Classes -> {"absent", "named", "misnamed"}]
    BY DEF TypeOK
  <2>1. ASSUME NEW c \in Classes, NEW name \in {"named", "misnamed"}, PlaceSource(c, name)
        PROVE  source' \in [Classes -> {"absent", "named", "misnamed"}]
    BY <2>0, <2>1 DEF PlaceSource
  <2>2. ASSUME NEW p \in Processes, Read(p) \/ CopyLevel(p)
        PROVE  source' = source
    BY <2>2, ReadCases, CopyCases
  <2> QED
    BY ZenonT(60), <2>0, <2>1, <2>2
    DEF Next, Step, Start, Skip, Begin, Misnamed, EndOfList, Poll, MakeLevel,
        Clear, Script, Crash, Restart, Recover, vars
<1>5. compiled' \in SUBSET Classes
  <2>0. compiled \in SUBSET Classes
    BY DEF TypeOK
  <2>1. ASSUME NEW p \in Processes, NEW c \in Classes, Begin(p, c)
        PROVE  compiled' \in SUBSET Classes
    BY <2>0, <2>1 DEF Begin
  <2>2. ASSUME NEW p \in Processes, Read(p) \/ CopyLevel(p)
        PROVE  compiled' = compiled
    BY <2>2, ReadCases, CopyCases
  <2> QED
    BY <2>0, <2>1, <2>2
    DEF Next, Step, PlaceSource, Start, Skip, Misnamed, EndOfList, Poll, MakeLevel,
        Clear, Script, Crash, Restart, Recover, vars
<1>6. disturbed' \in SUBSET Classes
  <2>1. \A q \in Working : gen[q].class \in Classes
    BY DEF Working, TypeOK
  <2>2. ASSUME NEW p \in Processes, NEW c \in Classes, Begin(p, c)
        PROVE  disturbed' \in SUBSET Classes
    BY <2>1, <2>2 DEF Begin, TypeOK
  <2> QED
    BY ZenonT(60), <2>2, ReadCases, CopyCases
    DEF TypeOK, Next, Step, PlaceSource, Start, Skip, Misnamed, EndOfList, Poll, MakeLevel,
        Clear, Script, Crash, Restart, Recover, vars
<1>7. scripts' \in SUBSET [class : Classes, iter : Iterations]
  <2>0. scripts \in SUBSET [class : Classes, iter : Iterations]
    BY DEF TypeOK
  <2>1. ASSUME NEW p \in Processes, NEW c \in Classes, Begin(p, c)
        PROVE  scripts' \in SUBSET [class : Classes, iter : Iterations]
    <3>1. At("poll", gen[p].todo \ {c}, c).class = c /\ At("poll", gen[p].todo \ {c}, c).iter = 0
      BY DEF At
    <3>2. 0 \in Iterations
      BY LimitsAssumption DEF Iterations
    <3> QED
      BY <2>0, <2>1, <3>1, <3>2 DEF Begin, Launch
  <2>2. ASSUME NEW p \in Processes, Read(p) \/ CopyLevel(p)
        PROVE  scripts' \in SUBSET [class : Classes, iter : Iterations]
    <3>1. gen[p].at \in InLoop
      BY <2>2 DEF Read, CopyLevel, InLoop
    <3>2. gen[p].class \in Classes /\ gen'[p] \in GenType
      BY <3>1, <1>1, AtWork
    <3>3. \/ scripts' = scripts
          \/ scripts' = scripts \cup {[class |-> gen[p].class, iter |-> gen'[p].iter]}
      BY <2>2, ReadCases, CopyCases
    <3> QED
      BY <2>0, <3>2, <3>3 DEF GenType
  <2> QED
    BY <2>0, <2>1, <2>2
    DEF Next, Step, PlaceSource, Start, Skip, Misnamed, EndOfList, Poll, MakeLevel,
        Clear, Script, Crash, Restart, Recover, vars
<1>8. tested' \in [Classes -> SUBSET Iterations]
  <2>0. tested \in [Classes -> SUBSET Iterations]
    BY DEF TypeOK
  <2>1. ASSUME NEW s \in scripts, Script(s)
        PROVE  tested' \in [Classes -> SUBSET Iterations]
    <3>1. s.class \in Classes /\ s.iter \in Iterations
      BY DEF TypeOK
    <3> QED
      BY <2>0, <2>1, <3>1 DEF Script, WriteTests
  <2>2. ASSUME NEW p \in Processes, Read(p) \/ CopyLevel(p)
        PROVE  tested' = tested
    BY <2>2, ReadCases, CopyCases
  <2>3. [c \in Classes |-> {}] \in [Classes -> SUBSET Iterations]
    OBVIOUS
  <2> QED
    BY ZenonT(60), <2>0, <2>1, <2>2, <2>3
    DEF Next, Step, PlaceSource, Start, Skip, Begin, Misnamed, EndOfList, Poll, MakeLevel,
        Clear, Crash, Restart, Recover, vars
<1>9. testless' \in SUBSET Classes
  <2>0. testless \in SUBSET Classes
    BY DEF TypeOK
  <2>1. ASSUME NEW p \in Processes, CopyLevel(p)
        PROVE  testless' \in SUBSET Classes
    BY <2>0, <2>1, CopyCases
  <2>2. ASSUME NEW p \in Processes, Read(p)
        PROVE  testless' = testless
    BY <2>2, ReadCases
  <2> QED
    BY ZenonT(60), <2>0, <2>1, <2>2
    DEF Next, Step, PlaceSource, Start, Skip, Begin, Misnamed, EndOfList, Poll, MakeLevel,
        Clear, Script, Crash, Restart, Recover, vars
<1> QED
  BY <1>1, <1>2, <1>3, <1>4, <1>5, <1>6, <1>7, <1>8, <1>9 DEF TypeOK, GenType, DirType

-----------------------------------------------------------------------------
(* The kinds of steps.                                                     *)

FilesKept == UNCHANGED <<dirs, tested, levels, compiled, scripts, disturbed, testless>>
OnlyStep(p) == \A q \in Processes \ {p} : gen'[q] = gen[q]

\* A process that generates nothing moves on, or a process gives up: it leaves all
\* files as they are and generates nothing afterwards.
Idles(p) ==
    /\ OnlyStep(p) /\ FilesKept /\ gen[p].at # "failed"
    /\ gen'[p].class = None /\ gen'[p].at \notin InLoop
    /\ gen'[p].at = "failed" \/ p \notin Working

\* A process takes a class and starts its first script.
Takes(p, c) ==
    /\ Begin(p, c) /\ OnlyStep(p)
    /\ p \notin Working /\ levels[c][1] = None
    /\ gen'[p].class = c /\ gen'[p].at = "poll" /\ gen'[p].iter = 0 /\ gen'[p].sat = 0
    /\ gen'[p].level = 0 /\ gen'[p].exCov = 0
    /\ scripts' = scripts \cup {[class |-> c, iter |-> 0]} /\ compiled' = compiled \cup {c}
    /\ UNCHANGED <<dirs, tested, levels, testless>>

\* The archive is found.
Polls(p) ==
    /\ gen[p].at = "poll" /\ Dir(p) # None /\ OnlyStep(p) /\ FilesKept
    /\ gen'[p] = [gen[p] EXCEPT !.at = "read"]

\* The directory of a level is made.
Makes(p) ==
    /\ MakeLevel(p) /\ gen[p].at = "mkdir" /\ OnlyStep(p)
    /\ gen'[p] = [gen[p] EXCEPT !.at = "copy"]
    /\ UNCHANGED <<dirs, tested, compiled, scripts, disturbed, testless>>

\* The class has its levels.
Clears(p) ==
    /\ gen[p].at = "clear" /\ OnlyStep(p)
    /\ gen'[p].class = None /\ gen'[p].at = "next"
    /\ dirs' = [c \in Classes |-> NoDirs] /\ compiled' = {}
    /\ UNCHANGED <<levels, scripts, disturbed, testless>>

\* A report is read and the process goes on.
Reads(p) == Read(p) /\ gen'[p].at # "failed" /\ OnlyStep(p)

LEMMA KindsOfSteps ==
    ASSUME TypeOK, ClassesInLoop, LoopBounds, [Next]_vars
    PROVE  \/ FilesKept /\ gen' = gen
           \/ \E p \in Processes : \/ Idles(p) \/ Polls(p) \/ Reads(p) \/ Makes(p)
                                   \/ CopyLevel(p) \/ Clears(p)
           \/ \E p \in Processes, c \in Classes : Takes(p, c)
           \/ \E s \in scripts : Script(s)
           \/ Restart \/ Recover
<1>0. gen \in [Processes -> GenType]
  BY DEF TypeOK, GenType
<1>1. CASE UNCHANGED vars \/ \E c \in Classes, name \in {"named", "misnamed"} : PlaceSource(c, name)
  BY <1>1 DEF vars, PlaceSource, FilesKept
<1>2. ASSUME NEW p \in Processes, Start(p)
      PROVE  Idles(p)
  <2> DEFINE now == At("next", {c \in Classes : source[c] # "absent"}, None)
  <2>1. gen[p].at = "off" /\ gen' = [gen EXCEPT ![p] = now] /\ FilesKept
    BY <1>2 DEF Start, FilesKept
  <2>2. now.at = "next" /\ now.class = None
    BY DEF At
  <2> HIDE DEF now
  <2>3. gen'[p] = now /\ OnlyStep(p)
    BY <1>0, <2>1 DEF OnlyStep
  <2>4. p \notin Working
    BY <2>1 DEF Working, ClassesInLoop, InLoop
  <2> QED
    BY <2>1, <2>2, <2>3, <2>4 DEF Idles, InLoop
<1>3. ASSUME NEW p \in Processes, NEW c \in Classes, Skip(p, c)
      PROVE  Idles(p)
  <2>1. gen[p].at = "next" /\ FilesKept
    BY <1>3 DEF Skip, FilesKept
  <2>2. gen' = [gen EXCEPT ![p].todo = gen[p].todo \ {c}]
    BY <1>0, <1>3 DEF Skip
  <2>3. gen'[p].at = gen[p].at /\ gen'[p].class = gen[p].class /\ OnlyStep(p)
    BY <1>0, <2>2 DEF OnlyStep, GenType
  <2>4. p \notin Working /\ gen[p].class = None
    BY <2>1 DEF Working, ClassesInLoop, InLoop
  <2> QED
    BY <2>1, <2>3, <2>4 DEF Idles, InLoop
<1>4. ASSUME NEW p \in Processes, NEW c \in Classes, Begin(p, c)
      PROVE  Takes(p, c)
  <2> DEFINE now == At("poll", gen[p].todo \ {c}, c)
  <2>1. gen[p].at = "next" /\ levels[c][1] = None /\ UNCHANGED <<dirs, tested, levels, testless>>
        /\ compiled' = compiled \cup {c} /\ gen' = [gen EXCEPT ![p] = now]
        /\ scripts' = scripts \cup {[class |-> now.class, iter |-> now.iter]}
    BY <1>4 DEF Begin, Launch
  <2>2. /\ now.at = "poll" /\ now.class = c /\ now.iter = 0 /\ now.sat = 0 /\ now.level = 0
        /\ now.exCov = 0
    BY DEF At
  <2> HIDE DEF now
  <2>3. gen'[p] = now /\ OnlyStep(p)
    BY <1>0, <2>1 DEF OnlyStep
  <2>4. p \notin Working
    BY <2>1 DEF Working, ClassesInLoop, InLoop
  <2> QED
    BY <1>4, <2>1, <2>2, <2>3, <2>4 DEF Takes
<1>5. ASSUME NEW p \in Processes, NEW how \in {"done", "failed"}, Ended(p, how), FilesKept,
             gen[p].at # "failed", how = "failed" \/ gen[p].at = "next"
      PROVE  Idles(p)
  <2>1. gen'[p].at = how /\ gen'[p].class = None /\ OnlyStep(p)
    BY <1>5, EndedType DEF OnlyStep
  <2>2. gen[p].at = "next" => p \notin Working
    BY DEF Working, ClassesInLoop, InLoop
  <2> QED
    BY <1>5, <2>1, <2>2 DEF Idles, InLoop
<1>6. ASSUME NEW p \in Processes,
             EndOfList(p) \/ Crash(p) \/ \E c \in Classes : Misnamed(p, c)
      PROVE  Idles(p)
  BY <1>5, <1>6 DEF Misnamed, EndOfList, Crash, FilesKept
<1>7. ASSUME NEW p \in Processes, Poll(p)
      PROVE  Polls(p)
  BY <1>0, <1>7 DEF Poll, Polls, Goto, FilesKept, OnlyStep
<1>8. ASSUME NEW p \in Processes, Read(p)
      PROVE  Reads(p) \/ Idles(p)
  BY <1>8, ReadCases DEF Reads, Idles, FilesKept, OnlyStep, InLoop
<1>9. ASSUME NEW p \in Processes, MakeLevel(p)
      PROVE  Makes(p)
  BY <1>0, <1>9 DEF MakeLevel, Makes, Goto, OnlyStep
<1>10. ASSUME NEW p \in Processes, Clear(p)
       PROVE  Clears(p)
  <2> DEFINE now == At("next", gen[p].todo, None)
  <2>1. /\ gen[p].at = "clear" /\ gen' = [gen EXCEPT ![p] = now]
        /\ dirs' = [c \in Classes |-> NoDirs] /\ compiled' = {}
        /\ UNCHANGED <<levels, scripts, disturbed, testless>>
    BY <1>0, <1>10 DEF Clear
  <2>2. now.at = "next" /\ now.class = None
    BY DEF At
  <2> HIDE DEF now
  <2> QED
    BY <1>0, <2>1, <2>2 DEF Clears, OnlyStep
<1> QED
  BY <1>1, <1>2, <1>3, <1>4, <1>6, <1>7, <1>8, <1>9, <1>10 DEF Next, Step

-----------------------------------------------------------------------------
(* The loop of a process.                                                  *)

LEMMA InitLoop == Init => ClassesInLoop /\ LoopBounds
BY DEF Init, At, ClassesInLoop, LoopBounds, InLoop

\* What a step of the loop does to the variables of its process.
LEMMA LoopStep ==
    ASSUME TypeOK, ClassesInLoop, LoopBounds, NEW p \in Processes,
           Polls(p) \/ Reads(p) \/ Makes(p) \/ CopyLevel(p)
    PROVE  /\ OnlyStep(p) /\ gen[p].at \in InLoop /\ gen'[p].at \in InLoop
           /\ gen'[p].class = gen[p].class
           /\ gen'[p].at \in {"poll", "read"} =>
                 gen'[p].sat <= gen'[p].iter /\ gen'[p].level < MaxLevel
           /\ gen'[p].at \in {"mkdir", "copy"} => gen'[p].sat = 0 /\ gen'[p].level > 0
<1>0. gen[p] \in GenType
  BY DEF TypeOK, GenType
<1>1. CASE Polls(p) \/ Makes(p)
  BY <1>0, <1>1 DEF Polls, Makes, LoopBounds, InLoop, GenType
<1>2. CASE Reads(p)
  <2>1. gen[p].at = "read" /\ gen[p].sat <= gen[p].iter /\ gen[p].level < MaxLevel
    BY <1>2 DEF Reads, Read, LoopBounds
  <2>2. gen[p].sat \in Nat /\ gen[p].iter \in Nat /\ gen[p].level \in Nat /\ MaxLevel \in Nat
    BY <1>0, LimitsAssumption DEF GenType, Iterations
  <2> QED
    BY <1>2, <2>1, <2>2, ReadCases DEF Reads, OnlyStep, InLoop
<1>3. CASE CopyLevel(p)
  <2>1. gen[p].at = "copy" /\ gen[p].sat = 0
    BY <1>3 DEF CopyLevel, LoopBounds
  <2>2. gen[p].iter \in Nat
    BY <1>0, LimitsAssumption DEF GenType, Iterations
  <2> QED
    BY <1>3, <2>1, <2>2, CopyCases DEF OnlyStep, InLoop
<1> QED
  BY <1>1, <1>2, <1>3

LEMMA LoopKept ==
    ASSUME TypeOK, ClassesInLoop, LoopBounds, [Next]_vars
    PROVE  ClassesInLoop' /\ LoopBounds'
<1>1. CASE gen' = gen
  BY <1>1 DEF ClassesInLoop, LoopBounds
<1>2. ASSUME NEW p \in Processes, Polls(p) \/ Reads(p) \/ Makes(p) \/ CopyLevel(p)
      PROVE  ClassesInLoop' /\ LoopBounds'
  BY <1>2, LoopStep DEF ClassesInLoop, LoopBounds, OnlyStep
<1>3. ASSUME NEW p \in Processes, Idles(p) \/ Clears(p)
      PROVE  ClassesInLoop' /\ LoopBounds'
  BY <1>3 DEF Idles, Clears, ClassesInLoop, LoopBounds, OnlyStep, InLoop
<1>4. ASSUME NEW p \in Processes, NEW c \in Classes, Takes(p, c)
      PROVE  ClassesInLoop' /\ LoopBounds'
  <2>1. 0 <= 0 /\ 0 < MaxLevel /\ c # None
    BY LimitsAssumption
  <2> QED
    BY <1>4, <2>1 DEF Takes, ClassesInLoop, LoopBounds, OnlyStep, InLoop
<1>5. CASE Restart
  <2>1. \A p \in Processes : gen'[p] = gen[p] \/ (gen'[p].at = "failed" /\ gen'[p].class = None)
    BY <1>5 DEF Restart, At
  <2> QED
    BY <2>1 DEF ClassesInLoop, LoopBounds, InLoop
<1> QED
  BY <1>1, <1>2, <1>3, <1>4, <1>5, KindsOfSteps DEF Script, Recover

-----------------------------------------------------------------------------
(* The levels of a class appear one after the other.                       *)

LEMMA InitLevels == Init => NoGap /\ LevelsBegun
<1> SUFFICES ASSUME Init PROVE NoGap /\ LevelsBegun
  OBVIOUS
<1>1. Working = {}
  BY DEF Init, At, Working
<1> QED
  BY <1>1 DEF Init, NoGap, LevelsBegun

\* A level that is there stays there.
LEMMA LevelsAppear ==
    ASSUME TypeOK, ClassesInLoop, LoopBounds, [Next]_vars, NEW c \in Classes, NEW l \in Levels,
           levels[c][l] # None
    PROVE  levels'[c][l] # None
<1>1. levels \in [Classes -> [Levels -> DirType]]
  BY DEF TypeOK, DirType
<1>2. CASE levels' = levels
  BY <1>2
<1>3. ASSUME NEW d \in Classes, NEW m \in Levels, NEW new \in DirType,
             levels' = [levels EXCEPT ![d][m] = new], new = levels[d][m] \/ new # None
      PROVE  levels'[c][l] # None
  <2> HIDE DEF DirType
  <2>1. levels'[c][l] = IF c = d /\ l = m THEN new ELSE levels[c][l]
    BY <1>1, <1>3
  <2> QED
    BY <1>3, <2>1
<1>4. CASE levels' # levels
  <2>1. PICK p \in Processes :
           /\ gen[p].class \in Classes /\ gen[p].level \in Levels
           /\ \E new \in DirType :
                 /\ levels' = [levels EXCEPT ![gen[p].class][gen[p].level] = new]
                 /\ new = levels[gen[p].class][gen[p].level] \/ new # None
    BY <1>4, LevelsStep
  <2> QED
    BY <1>3, <2>1
<1> QED
  BY <1>2, <1>4

LEMMA BegunKept ==
    ASSUME TypeOK, ClassesInLoop, LoopBounds, NoGap, LevelsBegun, [Next]_vars
    PROVE  NoGap' /\ LevelsBegun'
<1>0. levels \in [Classes -> [Levels -> DirType]] /\ gen \in [Processes -> GenType]
  BY DEF TypeOK, GenType, DirType
<1>1. NoGap'
  <2> SUFFICES ASSUME NEW c \in Classes, NEW l \in Levels, NEW m \in Levels,
                      l < m, levels'[c][m] # None
               PROVE  levels'[c][l] # None
    BY DEF NoGap
  <2>1. CASE levels[c][m] # None
    BY <2>1, LevelsAppear DEF NoGap
  <2>2. CASE levels[c][m] = None
    <3>1. PICK p \in Processes :
             /\ MakeLevel(p) \/ CopyLevel(p)
             /\ p \in Working /\ gen[p].class \in Classes /\ gen[p].level \in Levels
             /\ \E new \in DirType :
                   levels' = [levels EXCEPT ![gen[p].class][gen[p].level] = new]
      BY <2>2, LevelsStep
    <3> DEFINE d == gen[p].class
               n == gen[p].level
    <3>2. PICK new \in DirType : levels' = [levels EXCEPT ![d][n] = new]
      BY <3>1
    <3>3. d \in Classes /\ n \in Levels
      BY <3>1
    <3>4. c = d /\ m = n
      <4> HIDE DEF d, n, DirType
      <4> QED
        BY <1>0, <2>2, <3>2, <3>3
    <3>5. l \in 1 .. Begun(p)
      BY <3>4, LimitsAssumption DEF Begun, Levels
    <3>6. levels[c][l] # None
      BY <3>1, <3>4, <3>5 DEF LevelsBegun
    <3> QED
      BY <3>6, LevelsAppear
  <2> QED
    BY <2>1, <2>2
<1>2. LevelsBegun'
  <2>1. ASSUME NEW q \in Working, gen'[q] = gen[q], NEW l \in 1 .. Begun(q)'
        PROVE  levels'[gen'[q].class][l] # None
    <3>1. l \in 1 .. Begun(q) /\ q \in Processes
      BY <2>1 DEF Begun, Working
    <3>2. gen[q].class \in Classes /\ Begun(q) <= MaxLevel /\ gen[q].level \in Nat
      BY <1>0, <3>1, LimitsAssumption DEF Begun, GenType, Working
    <3>3. l \in Levels
      BY <3>1, <3>2, LimitsAssumption DEF Levels, Begun
    <3> QED
      BY <2>1, <3>1, <3>2, <3>3, LevelsAppear DEF LevelsBegun
  <2>2. ASSUME \A q \in Processes : gen'[q] = gen[q] \/ gen'[q].class = None
        PROVE  LevelsBegun'
    <3> SUFFICES ASSUME NEW q \in Working', NEW l \in 1 .. Begun(q)'
                 PROVE  levels'[gen'[q].class][l] # None
      BY DEF LevelsBegun
    <3>1. gen'[q] = gen[q] /\ q \in Working
      BY <2>2 DEF Working
    <3> QED
      BY <2>1, <3>1
  <2>3. ASSUME NEW p \in Processes, OnlyStep(p),
               p \in Working => \A l \in 1 .. Begun(p)' : levels'[gen'[p].class][l] # None,
               p \in Working' => p \in Working \/ Begun(p)' = 0
        PROVE  LevelsBegun'
    <3> SUFFICES ASSUME NEW q \in Working', NEW l \in 1 .. Begun(q)'
                 PROVE  levels'[gen'[q].class][l] # None
      BY DEF LevelsBegun
    <3>1. CASE q = p
      BY <2>3, <3>1
    <3>2. CASE q # p
      <4>1. gen'[q] = gen[q] /\ q \in Working
        BY <2>3, <3>2 DEF Working, OnlyStep
      <4> QED
        BY <2>1, <4>1
    <3> QED
      BY <3>1, <3>2
  <2>4. ASSUME NEW p \in Processes, Polls(p) \/ Reads(p) \/ Makes(p) \/ CopyLevel(p)
        PROVE  LevelsBegun'
    <3>1. /\ OnlyStep(p) /\ p \in Working /\ gen[p].class \in Classes
          /\ gen'[p].class = gen[p].class
      BY <2>4, LoopStep, AtWork
    <3>2. gen[p] \in GenType /\ gen[p].level \in Nat /\ gen[p].level <= MaxLevel
      BY <1>0, LimitsAssumption DEF GenType
    <3>3. CASE Polls(p) \/ Reads(p) \/ CopyLevel(p)
      <4>1. Begun(p)' = Begun(p)
        BY <3>2, <3>3, ReadCases, CopyCases DEF Polls, Reads, Begun, GenType
      <4>2. \A l \in 1 .. Begun(p) : levels[gen[p].class][l] # None /\ l \in Levels
        BY <3>1, <3>2, LimitsAssumption DEF LevelsBegun, Levels, Begun
      <4> QED
        BY <2>3, <3>1, <4>1, <4>2, LevelsAppear
    <3>4. CASE Makes(p)
      <4> DEFINE c == gen[p].class
                 n == gen[p].level
      <4>1. Begun(p)' = n /\ Begun(p) = n - 1 /\ n \in Levels
        BY <3>2, <3>4 DEF Makes, Begun, GenType, LoopBounds, Levels
      <4>2. \A l \in 1 .. Begun(p) : levels[c][l] # None /\ l \in Levels
        BY <3>1, <3>2, LimitsAssumption DEF LevelsBegun, Levels, Begun
      <4>3. levels'[c][n] # None
        BY <1>0, <3>1, <3>4, <4>1, LimitsAssumption DEF Makes, MakeLevel
      <4>4. \A l \in 1 .. n : l = n \/ l \in 1 .. Begun(p)
        BY <4>1 DEF Levels
      <4> QED
        BY <2>3, <3>1, <4>1, <4>2, <4>3, <4>4, LevelsAppear
    <3> QED
      BY <2>4, <3>3, <3>4
  <2>5. ASSUME NEW p \in Processes, NEW c \in Classes, Takes(p, c)
        PROVE  LevelsBegun'
    <3>1. OnlyStep(p) /\ p \notin Working /\ Begun(p)' = 0
      BY <2>5 DEF Takes, Begun
    <3> QED
      BY <2>3, <3>1
  <2>6. ASSUME NEW p \in Processes, Idles(p) \/ Clears(p)
        PROVE  LevelsBegun'
    BY <2>2, <2>6 DEF Idles, Clears, OnlyStep
  <2>7. CASE Restart
    <3>1. \A q \in Processes : gen'[q] = gen[q] \/ gen'[q].class = None
      BY <2>7 DEF Restart, At
    <3> QED
      BY <2>2, <3>1
  <2>8. CASE gen' = gen
    BY <2>2, <2>8
  <2> QED
    BY <2>4, <2>5, <2>6, <2>7, <2>8, KindsOfSteps DEF Script, Recover
<1> QED
  BY <1>1, <1>2

-----------------------------------------------------------------------------
(* A class that is generated alone.                                        *)

\* What was once disturbed stays so.
LEMMA DisturbedStays ==
    ASSUME TypeOK, ClassesInLoop, LoopBounds, [Next]_vars
    PROVE  /\ disturbed \subseteq disturbed' /\ testless \subseteq testless'
           /\ disturbed' # disturbed => \E p \in Processes, c \in Classes : Takes(p, c)
<1>1. ASSUME NEW p \in Processes, Polls(p) \/ Reads(p) \/ Makes(p) \/ CopyLevel(p)
      PROVE  disturbed' = disturbed /\ testless \subseteq testless'
  BY <1>1, CopyCases, ReadCases DEF Polls, Reads, Makes, FilesKept
<1>2. ASSUME NEW p \in Processes, NEW c \in Classes, Takes(p, c)
      PROVE  disturbed \subseteq disturbed' /\ testless' = testless
  BY <1>2 DEF Takes, Begin
<1> QED
  BY <1>1, <1>2, KindsOfSteps DEF Idles, Clears, FilesKept, Script, Restart, Recover

\* A process that starts finds nothing of others, or disturbs them and is disturbed.
LEMMA TakesCases ==
    ASSUME NEW p \in Processes, NEW c \in Classes, Takes(p, c)
    PROVE  \/ /\ Working = {} /\ scripts = {} /\ compiled = {} /\ dirs[c] = NoDirs
              /\ disturbed' = disturbed
           \/ c \in disturbed' /\ \A q \in Working : gen[q].class \in disturbed'
BY DEF Takes, Begin, Undisturbed

LEMMA InitAlone == Init => Working = {} /\ LevelsGrow /\ Tidy
<1> SUFFICES ASSUME Init PROVE Working = {} /\ LevelsGrow /\ Tidy
  OBVIOUS
<1>1. Working = {}
  BY DEF Init, At, Working
<1>2. None \notin Coverages
  BY LimitsAssumption
<1> QED
  BY <1>1, <1>2 DEF Init, LevelsGrow, Measured, Tidy

\* A process is alone after a step of another only if that one did not touch its
\* files and generates nothing.
LEMMA OthersIdle ==
    ASSUME IInv, [Next]_vars, NEW p \in Processes, OnlyStep(p),
           NEW q \in Processes, q # p, Alone(q)',
           Idles(p) \/ (\E c \in Classes : Takes(p, c)) \/ p \in Working
    PROVE  Idles(p) /\ p \notin Working /\ Alone(q) /\ gen'[q] = gen[q]
<1>1. gen'[q] = gen[q] /\ q \in Working
  BY DEF Alone, Working, OnlyStep
<1>2. gen[q].class \notin disturbed
  BY <1>1, DisturbedStays DEF IInv, Alone
<1>3. Alone(q) /\ \A r \in Working : r = q
  BY <1>1, <1>2 DEF IInv, AloneInv, AloneAtWork, Alone
<1>4. ASSUME NEW c \in Classes, Takes(p, c)
      PROVE  FALSE
  BY <1>1, <1>4, TakesCases DEF Alone
<1> QED
  BY <1>1, <1>3, <1>4

\* What holds of a process alone depends on its variables and the files only.
LEMMA AloneInvKept ==
    ASSUME NEW q \in Processes, gen'[q] = gen[q], FilesKept, AloneInv(q),
           \A r \in Processes : r \in Working' => r \in Working
    PROVE  AloneInv(q)'
<1>1. AloneAtWork(q)'
  BY DEF AloneInv, AloneAtWork, FilesKept, Working
<1>2. AloneFiles(q)'
  BY DEF AloneInv, AloneFiles, FilesKept
<1>3. Filled(q)' = Filled(q) /\ \A c, l : Measured(c, l)' = Measured(c, l)
  BY DEF Filled, FilesKept, Measured
<1>4. AloneLevels(q)' /\ AloneBest(q)'
  BY <1>3 DEF AloneInv, AloneLevels, MadeLevel, AloneBest, FilesKept, Filled, Measured
<1> QED
  BY <1>1, <1>2, <1>4 DEF AloneInv

\* The start of a class from a clean directory.
LEMMA TakesAlone ==
    ASSUME IInv, [Next]_vars, TypeOK', NEW p \in Processes, NEW c \in Classes, Takes(p, c),
           Alone(p)'
    PROVE  AloneInv(p)'
<1>1. /\ Working = {} /\ scripts = {} /\ compiled = {} /\ dirs[c] = NoDirs
      /\ disturbed' = disturbed
  BY TakesCases DEF Alone, Takes
<1>2. /\ OnlyStep(p) /\ gen'[p].class = c /\ gen'[p].at = "poll" /\ gen'[p].iter = 0
      /\ gen'[p].level = 0 /\ gen'[p].exCov = 0
      /\ scripts' = {[class |-> c, iter |-> 0]} /\ compiled' = {c}
      /\ UNCHANGED <<dirs, levels>> /\ levels[c][1] = None
  BY <1>1 DEF Takes
<1>3. None \notin Coverages
  BY LimitsAssumption
<1>4. \A q \in Working' : q = p
  BY <1>1, <1>2 DEF Working, OnlyStep
<1>5. AloneAtWork(p)'
  BY <1>2, <1>4 DEF AloneAtWork
<1>6. \A i \in Iterations : dirs'[c][i] = None
  BY <1>1, <1>2 DEF NoDirs
<1>7. 0 \in Iterations
  BY LimitsAssumption DEF Iterations
<1>8. AloneFiles(p)'
  <2>1. \A i \in Iterations : dirs'[c][i] \notin Coverages
    BY <1>3, <1>6
  <2>2. dirs'[c][0] = None /\ scripts' # {} /\ \A i \in 0 .. 0 - 1 : FALSE
    BY <1>2, <1>6, <1>7
  <2> QED
    BY <1>2, <1>6, <2>1, <2>2 DEF AloneFiles
<1>9. \A l \in Levels : levels[c][l] = None
  <2>1. \A l \in Levels : l = 1 \/ (1 \in Levels /\ 1 < l)
    BY LimitsAssumption DEF Levels
  <2> QED
    BY <1>2, <2>1 DEF IInv, NoGap
<1>10. Filled(p)' = 0
  BY <1>2 DEF Filled
<1>11. AloneLevels(p)'
  BY <1>2, <1>3, <1>9, <1>10 DEF AloneLevels, Measured
<1>12. AloneBest(p)'
  BY <1>2 DEF AloneBest
<1> QED
  BY <1>5, <1>8, <1>11, <1>12 DEF AloneInv

\* What the filled levels hold does not depend on what is not measured yet.
LEMMA AloneLevelsKept ==
    ASSUME NEW p \in Processes, NEW c \in Classes, NEW k \in Nat, NEW n \in Nat,
           MaxLevel \in Nat, n <= MaxLevel,
           gen[p].class = c, gen[p].iter = k, Filled(p) = n, AloneLevels(p),
           \A i \in 0 .. k - 1 : dirs[c][i] \in Coverages,
           gen'[p].class = c, gen'[p].iter \in Nat, gen'[p].iter >= k, Filled(p)' = n,
           gen'[p].exCov = gen[p].exCov, testless' = testless,
           \A i \in 0 .. k : dirs[c][i] \in Coverages =>
               dirs'[c][i] = dirs[c][i] /\ (i \in tested'[c] <=> i \in tested[c]),
           \A l \in Levels : levels'[c][l] \in Coverages <=> levels[c][l] \in Coverages,
           \A l \in Levels : levels[c][l] \in Coverages => levels'[c][l] = levels[c][l],
           gen'[p].at \in {"mkdir", "copy"} =>
               /\ gen'[p].cov = LineCoverage(dirs'[c][gen'[p].iter])
               /\ gen'[p].cov > gen[p].exCov
    PROVE  AloneLevels(p)'
<1>1. /\ \A l \in Levels : l > n => levels[c][l] \notin Coverages
      /\ n = 0 => gen[p].exCov = 0
      /\ \A l \in Levels : levels[c][l] \in Coverages =>
            \E i \in (0 .. k) \cap tested[c] : levels[c][l] = dirs[c][i]
      /\ n > 0 => \E j \in 0 .. k : MadeLevel(p, j)
      /\ c \notin testless =>
            /\ \A l \in 1 .. n : levels[c][l] \in Coverages
            /\ n > 0 => gen[p].exCov = LineCoverage(levels[c][n])
  BY DEF AloneLevels, Measured
<1>2. \A i \in 0 .. k : i \in 0 .. gen'[p].iter
  OBVIOUS
<1>3. \A l \in 1 .. n : l \in Levels
  BY DEF Levels
<1>4. ASSUME NEW l \in Levels, levels'[c][l] \in Coverages
      PROVE  \E i \in (0 .. gen'[p].iter) \cap tested'[c] : levels'[c][l] = dirs'[c][i]
  <2>1. levels[c][l] \in Coverages /\ levels'[c][l] = levels[c][l]
    BY <1>4
  <2>2. PICK i \in (0 .. k) \cap tested[c] : levels[c][l] = dirs[c][i]
    BY <1>1, <2>1
  <2> QED
    BY <1>2, <2>1, <2>2
<1>5. ASSUME n > 0
      PROVE  \E j \in 0 .. gen'[p].iter : MadeLevel(p, j)'
  <2>1. PICK j \in 0 .. k : MadeLevel(p, j)
    BY <1>1, <1>5
  <2>2. /\ dirs[c][j] \in Coverages /\ gen[p].exCov = LineCoverage(dirs[c][j])
        /\ \A i \in (0 .. j) \cap tested[c] :
              levels[c][n] \in Coverages /\ Percent(dirs[c][i]) <= Percent(levels[c][n])
    BY <2>1 DEF MadeLevel, Measured
  <2>3. dirs'[c][j] = dirs[c][j] /\ n \in Levels
    BY <1>3, <1>5, <2>2
  <2>4. ASSUME NEW i \in (0 .. j) \cap tested'[c]
        PROVE  levels'[c][n] \in Coverages /\ Percent(dirs'[c][i]) <= Percent(levels'[c][n])
    <3>1. i \in 0 .. k /\ (i = j \/ i \in 0 .. k - 1)
      OBVIOUS
    <3>2. dirs[c][i] \in Coverages
      BY <2>2, <3>1
    <3>3. i \in tested[c] /\ dirs'[c][i] = dirs[c][i]
      BY <3>1, <3>2
    <3>4. levels[c][n] \in Coverages /\ Percent(dirs[c][i]) <= Percent(levels[c][n])
      BY <2>2, <3>3
    <3>5. levels'[c][n] = levels[c][n]
      BY <2>3, <3>4
    <3> QED
      BY <3>3, <3>4, <3>5
  <2>5. MadeLevel(p, j)'
    BY <2>2, <2>3, <2>4 DEF MadeLevel, Measured
  <2> QED
    BY <1>2, <2>5
<1>6. ASSUME c \notin testless
      PROVE  /\ \A l \in 1 .. n : levels'[c][l] \in Coverages
             /\ n > 0 => gen[p].exCov = LineCoverage(levels'[c][n])
  BY <1>1, <1>3, <1>6
<1> QED
  BY <1>1, <1>4, <1>5, <1>6 DEF AloneLevels, Measured

\* The script of a class alone fills the directory the process waits for with what
\* its run and the runs before it have covered, or leaves it without a report.
LEMMA ScriptAlone ==
    ASSUME IInv, TypeOK', NEW s \in scripts, Script(s), NEW p \in Processes, Alone(p)
    PROVE  AloneInv(p)'
<1> DEFINE c == gen[p].class
           k == gen[p].iter
<1>0. /\ TypeOK /\ AloneAtWork(p) /\ AloneFiles(p) /\ AloneLevels(p) /\ AloneBest(p)
      /\ dirs \in [Classes -> [Iterations -> DirType]]
  BY DEF IInv, AloneInv, TypeOK, DirType
<1>1. c \in Classes /\ k \in Iterations /\ k \in Nat /\ p \in Working
  BY LimitsAssumption DEF Alone, Working, TypeOK, IInv, Iterations
<1>2. s = [class |-> c, iter |-> k] /\ scripts = {s} /\ scripts' = {} /\ compiled = {c}
  BY <1>0 DEF AloneAtWork, Script
<1>3. gen[p].at = "poll" /\ dirs[c][k] = None
  BY <1>0, <1>2 DEF AloneAtWork, AloneFiles
<1>4. /\ UNCHANGED <<levels, compiled, gen, disturbed, testless>>
      /\ \A i \in Iterations : i # k => (i \in tested'[c] <=> i \in tested[c])
  <2>1. tested \in [Classes -> SUBSET Iterations]
    BY <1>0 DEF TypeOK
  <2>2. UNCHANGED <<levels, compiled, gen, disturbed, testless>> /\ WriteTests(s)
    BY DEF Script
  <2> HIDE DEF c, k
  <2>3. s.class = c /\ s.iter = k
    BY <1>2
  <2> QED
    BY <1>1, <2>1, <2>2, <2>3 DEF WriteTests
<1>5. None \notin Coverages /\ NoReport \notin Coverages /\ None # NoReport
  BY LimitsAssumption
<1>6. \E new \in Coverages \cup {NoReport} :
         /\ dirs' = [dirs EXCEPT ![c][k] = new]
         /\ new \in Coverages =>
               /\ new.over = {c}
               /\ \A i \in 0 .. k - 1 : dirs[c][i].blocks \subseteq new.blocks
  <2>1. ASSUME NEW blocks \in SUBSET Blocks,
               dirs' = [dirs EXCEPT ![s.class][s.iter] =
                            Merged(s, [blocks |-> blocks, over |-> compiled])]
        PROVE  \E new \in Coverages :
                  /\ dirs' = [dirs EXCEPT ![c][k] = new]
                  /\ new.over = {c}
                  /\ \A i \in 0 .. k - 1 : dirs[c][i].blocks \subseteq new.blocks
    <3> DEFINE run == [blocks |-> blocks, over |-> {c}]
               new == Merged(s, run)
    <3>1. run \in Coverages /\ run.over = {c} /\ run.blocks = blocks
      BY <1>1 DEF Coverages
    <3>2. dirs' = [dirs EXCEPT ![c][k] = new]
      BY <1>2, <2>1
    <3>3. CASE k = 0
      <4>1. new = run
        BY <1>2, <3>3 DEF Merged
      <4> HIDE DEF new, run
      <4>2. new \in Coverages /\ new.over = {c} /\ \A i \in 0 .. k - 1 : FALSE
        BY <3>1, <3>3, <4>1
      <4> QED
        BY <3>2, <4>2
    <3>4. CASE k > 0
      <4> DEFINE before == dirs[c][k - 1]
      <4>1. k - 1 \in 0 .. k - 1 /\ k - 1 \in Iterations
        BY <1>1, <3>4, LimitsAssumption DEF Iterations
      <4>2. before \in Coverages /\ before.over = {c}
        <5>1. /\ \A i \in 0 .. k - 1 : dirs[c][i] \in Coverages
              /\ \A i \in Iterations : dirs[c][i] \in Coverages => dirs[c][i].over = {c}
          BY ZenonT(60), <1>0 DEF AloneFiles
        <5> HIDE DEF c, k
        <5> QED
          BY <4>1, <5>1
      <4>3. new = [blocks |-> blocks \cup before.blocks, over |-> {c} \cup before.over]
        BY <1>2, <3>4, <4>2 DEF Merged
      <4>4. /\ new.blocks = blocks \cup before.blocks /\ new.over = {c}
            /\ new \in Coverages
        <5>1. before.blocks \in SUBSET Blocks
          BY <4>2 DEF Coverages
        <5> HIDE DEF new, before
        <5> QED
          BY <1>1, <4>2, <4>3, <5>1 DEF Coverages
      <4>5. ASSUME NEW i \in 0 .. k - 1
            PROVE  dirs[c][i].blocks \subseteq before.blocks
        <5>1. i \in Iterations /\ i <= k - 1
          BY <1>1, LimitsAssumption DEF Iterations
        <5>2. dirs[c][i] \in Coverages
          BY <1>0 DEF AloneFiles
        <5> QED
          BY <1>0, <4>1, <4>2, <5>1, <5>2 DEF AloneFiles
      <4> HIDE DEF new, before
      <4> QED
        BY <3>2, <4>4, <4>5
    <3> HIDE DEF c, k
    <3> QED
      BY <1>1, <3>3, <3>4
  <2>2. ASSUME dirs' = [dirs EXCEPT ![s.class][s.iter] = IF @ = None THEN NoReport ELSE @]
        PROVE  dirs' = [dirs EXCEPT ![c][k] = NoReport]
    BY <1>2, <1>3, <2>2
  <2> QED
    BY <1>5, <2>1, <2>2 DEF Script
<1>7. PICK new \in Coverages \cup {NoReport} :
         /\ dirs' = [dirs EXCEPT ![c][k] = new]
         /\ new \in Coverages =>
               /\ new.over = {c}
               /\ \A i \in 0 .. k - 1 : dirs[c][i].blocks \subseteq new.blocks
  BY <1>6
<1>8. /\ dirs'[c][k] = new /\ new # None
      /\ \A i \in Iterations : i # k => dirs'[c][i] = dirs[c][i]
  BY <1>0, <1>1, <1>5, <1>7
<1>9. AloneAtWork(p)'
  BY <1>0, <1>2, <1>4 DEF AloneAtWork, Working
<1>10. AloneFiles(p)'
  <2>1. \A i \in 0 .. k - 1 : i \in Iterations /\ i # k
    BY <1>1, LimitsAssumption DEF Iterations
  <2>2. \A i \in 0 .. k - 1 : dirs'[c][i] \in Coverages
    BY <1>0, <1>8, <2>1 DEF AloneFiles
  <2>3. \A i \in Iterations : i > k => dirs'[c][i] = None
    BY <1>0, <1>1, <1>8 DEF AloneFiles
  <2>4. \A i \in Iterations : dirs'[c][i] \in Coverages => dirs'[c][i].over = {c}
    BY <1>0, <1>7, <1>8 DEF AloneFiles
  <2>5. ASSUME NEW i \in Iterations, NEW j \in Iterations, i <= j,
               dirs'[c][i] \in Coverages, dirs'[c][j] \in Coverages
        PROVE  dirs'[c][i].blocks \subseteq dirs'[c][j].blocks
    <3>0. i \in Nat /\ j \in Nat
      BY LimitsAssumption DEF Iterations
    <3>1. CASE j = k /\ i # k
      <4>1. i \in 0 .. k - 1
        BY <1>1, <2>5, <3>0, <3>1
      <4> QED
        BY <1>7, <1>8, <2>5, <3>1, <4>1
    <3>2. CASE j # k /\ i = k
      <4>1. j > k
        BY <1>1, <2>5, <3>0, <3>2
      <4> QED
        BY <1>5, <2>3, <2>5, <4>1
    <3>3. CASE j # k /\ i # k
      BY <1>0, <1>8, <2>5, <3>3 DEF AloneFiles
    <3>4. CASE j = k /\ i = k
      BY <3>4
    <3> QED
      BY <3>1, <3>2, <3>3, <3>4
  <2> HIDE DEF c, k
  <2>6. gen'[p].class = c /\ gen'[p].iter = k /\ gen'[p].at = "poll"
    BY <1>3, <1>4 DEF c, k
  <2> QED
    BY <1>2, <1>8, <2>2, <2>3, <2>4, <2>5, <2>6 DEF AloneFiles
<1>11. Filled(p)' = Filled(p) /\ gen'[p].at = "poll" /\ gen'[p] = gen[p]
  BY <1>3, <1>4 DEF Filled
<1>12. AloneLevels(p)'
  <2> DEFINE n == Filled(p)
  <2>1. n \in Nat /\ n <= MaxLevel /\ MaxLevel \in Nat
    BY <1>0, <1>3, LimitsAssumption DEF Filled, TypeOK
  <2>2. \A i \in 0 .. k - 1 : dirs[c][i] \in Coverages
    BY <1>0 DEF AloneFiles
  <2>3. ASSUME NEW i \in 0 .. k, dirs[c][i] \in Coverages
        PROVE  dirs'[c][i] = dirs[c][i] /\ (i \in tested'[c] <=> i \in tested[c])
    <3>1. i # k /\ i \in Iterations
      BY <1>1, <1>3, <1>5, <2>3, LimitsAssumption DEF Iterations
    <3> QED
      BY <1>4, <1>8, <3>1
  <2>4. /\ gen'[p].class = c /\ gen'[p].iter = k /\ gen'[p].exCov = gen[p].exCov
        /\ gen[p].class = c /\ gen[p].iter = k /\ gen'[p].at = "poll" /\ Filled(p)' = n
    BY <1>11
  <2>5. k >= k /\ levels' = levels /\ testless' = testless /\ AloneLevels(p)
    BY <1>0, <1>1, <1>4
  <2> HIDE DEF c, k, n
  <2>6. Filled(p) = n
    BY DEF n
  <2> QED
    BY <1>1, <2>1, <2>2, <2>3, <2>4, <2>5, <2>6, AloneLevelsKept
<1>13. AloneBest(p)'
  <2>1. \A i \in 0 .. k : i < k => i \in Iterations /\ i # k
    BY <1>1, LimitsAssumption DEF Iterations
  <2>2. \A i \in 0 .. k : i < k => dirs'[c][i] = dirs[c][i]
    BY <1>8, <2>1
  <2> HIDE DEF c, k
  <2>3. gen[p].class = c /\ gen[p].iter = k
    BY DEF c, k
  <2> QED
    BY <1>0, <1>3, <1>4, <1>11, <2>2, <2>3 DEF AloneBest
<1> QED
  BY <1>9, <1>10, <1>12, <1>13 DEF AloneInv

\* The variables of a process alone, in a form its steps can be compared by.
LEMMA AloneTypes ==
    ASSUME IInv, NEW p \in Processes, Alone(p)
    PROVE  /\ p \in Working /\ gen[p] \in GenType /\ gen[p].class \in Classes
           /\ gen[p].iter \in Iterations /\ gen[p].iter \in Nat
           /\ gen[p].level \in Nat /\ gen[p].level <= MaxLevel /\ MaxLevel \in Nat
           /\ gen[p].exCov \in 0 .. 100 /\ gen[p].at \in InLoop
           /\ AloneAtWork(p) /\ AloneFiles(p) /\ AloneLevels(p) /\ AloneBest(p)
<1>1. gen[p] \in GenType
  BY DEF IInv, TypeOK, GenType
<1>2. p \in Working /\ gen[p].class # None /\ gen[p].at \in InLoop
  BY DEF Alone, Working, IInv, ClassesInLoop
<1>3. /\ gen[p].class \in Classes /\ gen[p].iter \in Iterations /\ gen[p].level \in 0 .. MaxLevel
      /\ gen[p].exCov \in 0 .. 100
  BY <1>1, <1>2 DEF GenType
<1>4. gen[p].iter \in Nat /\ gen[p].level \in Nat /\ gen[p].level <= MaxLevel /\ MaxLevel \in Nat
  BY <1>3, LimitsAssumption DEF Iterations
<1>5. AloneAtWork(p) /\ AloneFiles(p) /\ AloneLevels(p) /\ AloneBest(p)
  BY DEF IInv, AloneInv
<1> QED
  BY <1>1, <1>2, <1>3, <1>4, <1>5

\* The files stay as they are.
LEMMA FilesAlone ==
    ASSUME IInv, NEW p \in Processes, Alone(p), OnlyStep(p), UNCHANGED <<dirs, compiled>>,
           gen'[p].class = gen[p].class, gen'[p].at \in InLoop,
           \/ /\ gen[p].at = "poll" /\ gen'[p].at = "read" /\ Dir(p) # None
              /\ gen'[p].iter = gen[p].iter /\ scripts' = scripts
           \/ /\ gen[p].at # "poll" /\ gen'[p].at \notin {"poll", "read"}
              /\ Dir(p) \in Coverages
              /\ gen'[p].iter = gen[p].iter /\ scripts' = scripts
           \/ /\ gen[p].at # "poll" /\ gen'[p].at = "poll" /\ Dir(p) \in Coverages
              /\ gen'[p].iter = gen[p].iter + 1 /\ gen'[p].iter \in Iterations
              /\ scripts' = scripts \cup {[class |-> gen[p].class, iter |-> gen[p].iter + 1]}
    PROVE  AloneAtWork(p)' /\ AloneFiles(p)'
<1> DEFINE c == gen[p].class
           k == gen[p].iter
           found == dirs[c]
<1>0. /\ p \in Working /\ c \in Classes /\ k \in Iterations /\ k \in Nat
      /\ AloneAtWork(p) /\ AloneFiles(p) /\ Dir(p) = found[k]
  BY AloneTypes DEF Dir
<1>1. \A q \in Working' : q = p
  BY <1>0 DEF Working, OnlyStep, AloneAtWork
<1>2. scripts = {} \/ gen[p].at = "poll"
  BY <1>0 DEF AloneAtWork
<1>3. gen[p].at = "poll" /\ Dir(p) # None => scripts = {}
  <2>1. gen[p].at = "poll" => (scripts = {} <=> found[k] # None)
    BY ZenonT(60), <1>0 DEF AloneFiles
  <2> QED
    BY <1>0, <2>1
<1>4. /\ \A i \in 0 .. k - 1 : found[i] \in Coverages
      /\ \A i \in Iterations : i > k => found[i] = None
      /\ \A i \in Iterations : found[i] \in Coverages => found[i].over = {c}
      /\ \A i, j \in Iterations :
            i <= j /\ found[i] \in Coverages /\ found[j] \in Coverages =>
                found[i].blocks \subseteq found[j].blocks
  BY <1>0 DEF AloneFiles
<1>5. compiled = {c}
  BY <1>0 DEF AloneAtWork
<1>6. dirs'[c] = found /\ compiled' = {c} /\ gen'[p].class = c
  BY <1>5
<1>7. CASE gen'[p].iter = k /\ scripts' = scripts /\ gen'[p].at # "poll"
  <2>1. scripts' = {} /\ found[k] # None
    BY <1>0, <1>2, <1>3, <1>7, LimitsAssumption
  <2>2. gen'[p].at # "read" => found[k] \in Coverages
    BY <1>0, <1>7
  <2>3. AloneAtWork(p)'
    BY <1>1, <1>6, <2>1 DEF AloneAtWork
  <2> HIDE DEF c, k, found
  <2> QED
    BY <1>4, <1>6, <1>7, <2>1, <2>2, <2>3 DEF AloneFiles
<1>8. CASE /\ gen[p].at # "poll" /\ gen'[p].at = "poll" /\ found[k] \in Coverages
           /\ gen'[p].iter = k + 1 /\ k + 1 \in Iterations
           /\ scripts' = scripts \cup {[class |-> c, iter |-> k + 1]}
  <2>1. scripts' = {[class |-> c, iter |-> k + 1]}
    BY <1>2, <1>8
  <2>2. AloneAtWork(p)'
    BY <1>1, <1>6, <1>8, <2>1 DEF AloneAtWork
  <2>3. found[k + 1] = None /\ scripts' # {}
    <3>1. k + 1 > k
      BY <1>0
    <3> HIDE DEF k, found
    <3> QED
      BY <1>4, <1>8, <2>1, <3>1
  <2>4. \A i \in 0 .. (k + 1) - 1 : i = k \/ i \in 0 .. k - 1
    BY <1>0
  <2>5. \A i \in Iterations : i > k + 1 => i > k
    BY <1>0, LimitsAssumption DEF Iterations
  <2> HIDE DEF c, k, found
  <2> QED
    BY <1>4, <1>6, <1>8, <2>2, <2>3, <2>4, <2>5 DEF AloneFiles
<1> QED
  BY <1>0, <1>7, <1>8

\* The archive is found: nothing else changes.
LEMMA PollsAlone ==
    ASSUME IInv, NEW p \in Processes, Alone(p), Polls(p)
    PROVE  AloneInv(p)'
<1>0. gen[p] \in GenType /\ gen[p].at = "poll" /\ AloneLevels(p) /\ AloneBest(p)
  BY AloneTypes DEF Polls
<1>1. /\ gen'[p].at = "read" /\ gen'[p].class = gen[p].class /\ gen'[p].iter = gen[p].iter
      /\ gen'[p].level = gen[p].level /\ gen'[p].exCov = gen[p].exCov
      /\ UNCHANGED <<dirs, tested, levels, compiled, scripts, testless>>
  BY <1>0 DEF Polls, GenType, FilesKept
<1>2. AloneAtWork(p)' /\ AloneFiles(p)'
  BY <1>0, <1>1, FilesAlone DEF Polls, InLoop
<1>3. Filled(p)' = Filled(p)
  BY <1>0, <1>1 DEF Filled
<1>4. AloneLevels(p)'
  BY <1>0, <1>1, <1>3 DEF AloneLevels, MadeLevel, Measured
<1>5. AloneBest(p)'
  BY <1>0, <1>1, <1>3 DEF AloneBest
<1> QED
  BY <1>2, <1>4, <1>5 DEF AloneInv

\* The directory of a level is made: it holds no report.
LEMMA MakesAlone ==
    ASSUME IInv, NEW p \in Processes, Alone(p), Makes(p)
    PROVE  /\ AloneInv(p)'
           /\ \A d \in Classes, l \in Levels :
                 levels[d][l] = None \/ levels'[d][l] = levels[d][l]
           /\ \A d \in Classes, l \in Levels :
                 levels'[d][l] = NoReport \/ levels'[d][l] = levels[d][l]
<1> DEFINE c == gen[p].class
           n == gen[p].level
           m == Filled(p)
<1>0. /\ gen[p] \in GenType /\ gen[p].at = "mkdir" /\ AloneLevels(p) /\ AloneBest(p)
      /\ AloneFiles(p) /\ c \in Classes /\ n \in Nat /\ n <= MaxLevel /\ MaxLevel \in Nat
  BY AloneTypes DEF Makes
<1>1. /\ gen'[p].at = "copy" /\ gen'[p].class = c /\ gen'[p].iter = gen[p].iter
      /\ gen'[p].level = n /\ gen'[p].exCov = gen[p].exCov /\ gen'[p].cov = gen[p].cov
      /\ UNCHANGED <<dirs, tested, compiled, scripts, testless>>
  BY <1>0 DEF Makes, GenType
<1>2. n \in Levels /\ n > 0
  BY <1>0 DEF IInv, LoopBounds, Levels
<1>3. Dir(p) \in Coverages
  BY <1>0 DEF AloneFiles, Dir
<1>4. AloneAtWork(p)' /\ AloneFiles(p)'
  BY <1>0, <1>1, <1>3, FilesAlone DEF Makes, InLoop
<1>5. m = n - 1 /\ Filled(p)' = n - 1
  BY <1>0, <1>1 DEF Filled
<1>6. levels \in [Classes -> [Levels -> DirType]]
  BY DEF IInv, TypeOK, DirType
<1>7. \A d \in Classes, l \in Levels :
         levels'[d][l] = IF d = c /\ l = n /\ levels[d][l] = None THEN NoReport ELSE levels[d][l]
  <2> DEFINE new == IF levels[c][n] = None THEN NoReport ELSE levels[c][n]
  <2>1. levels' = [levels EXCEPT ![c][n] = new]
    BY DEF Makes, MakeLevel
  <2>2. \A d \in Classes, l \in Levels :
           levels'[d][l] = IF d = c /\ l = n THEN new ELSE levels[d][l]
    <3> HIDE DEF new, c, n, DirType
    <3> QED
      BY <1>0, <1>2, <1>6, <2>1
  <2> QED
    BY <2>2
<1>8. \A l \in Levels : levels'[c][l] \in Coverages <=> levels[c][l] \in Coverages
  BY <1>0, <1>7, LimitsAssumption
<1>9. \A l \in Levels : levels[c][l] \in Coverages => levels'[c][l] = levels[c][l]
  BY <1>0, <1>7, LimitsAssumption
<1>10. AloneLevels(p)'
  <2> DEFINE k == gen[p].iter
  <2>1. k \in Nat /\ n - 1 \in Nat /\ n - 1 <= MaxLevel
    BY <1>0, <1>2, LimitsAssumption DEF GenType, Iterations, Levels
  <2>2. \A i \in 0 .. k - 1 : dirs[c][i] \in Coverages
    BY <1>0 DEF AloneFiles
  <2>3. gen[p].cov = LineCoverage(dirs[c][k]) /\ gen[p].cov > gen[p].exCov
    BY <1>0 DEF AloneLevels
  <2>4. /\ gen'[p].class = c /\ gen'[p].iter = k /\ k >= k /\ gen'[p].exCov = gen[p].exCov
        /\ gen'[p].cov = gen[p].cov
        /\ gen[p].class = c /\ gen[p].iter = k /\ dirs' = dirs /\ tested' = tested
        /\ testless' = testless /\ Filled(p) = n - 1 /\ Filled(p)' = n - 1 /\ AloneLevels(p)
    BY <1>0, <1>1, <1>5, <2>1
  <2> HIDE DEF c, k, n, m
  <2> QED
    BY <1>0, <1>8, <1>9, <2>1, <2>2, <2>3, <2>4, AloneLevelsKept
<1>11. AloneBest(p)'
  BY <1>0, <1>1 DEF AloneBest
<1> QED
  <2>1. AloneInv(p)'
    BY <1>4, <1>10, <1>11 DEF AloneInv
  <2>2. \A d \in Classes, l \in Levels :
           /\ levels[d][l] = None \/ levels'[d][l] = levels[d][l]
           /\ levels'[d][l] = NoReport \/ levels'[d][l] = levels[d][l]
    BY <1>7
  <2> QED
    BY <2>1, <2>2

\* The report is read: what is not more than the last level makes no level.
LEMMA ReadsAlone ==
    ASSUME IInv, NEW p \in Processes, Alone(p), Reads(p)
    PROVE  AloneInv(p)'
<1> DEFINE c == gen[p].class
           k == gen[p].iter
           n == gen[p].level
           found == dirs[c]
<1>0. /\ gen[p].at = "read" /\ c \in Classes /\ k \in Iterations /\ k \in Nat
      /\ n \in Nat /\ n <= MaxLevel /\ MaxLevel \in Nat /\ gen[p].exCov \in 0 .. 100
      /\ AloneLevels(p) /\ AloneBest(p) /\ AloneFiles(p) /\ Dir(p) = found[k]
  BY AloneTypes DEF Reads, Read, Dir
<1>1. Filled(p) = n
  BY <1>0 DEF Filled
<1>2. \A i \in 0 .. k : i < k => LineCoverage(found[i]) <= gen[p].exCov
  BY <1>0 DEF AloneBest
<1>3. /\ gen' \in [Processes -> GenType] /\ OnlyStep(p)
      /\ UNCHANGED <<dirs, tested, levels, compiled, testless>> /\ found[k] \in Coverages
      /\ gen'[p].class = c /\ gen'[p].exCov = gen[p].exCov
      /\ \/ /\ LineCoverage(found[k]) <= gen[p].exCov /\ gen'[p].level = n
            /\ \/ /\ gen'[p].at = "poll" /\ gen'[p].iter = k + 1
                  /\ scripts' = scripts \cup {[class |-> c, iter |-> k + 1]}
               \/ gen'[p].at = "clear" /\ gen'[p].iter = k /\ scripts' = scripts
         \/ /\ LineCoverage(found[k]) > gen[p].exCov
            /\ gen'[p].at = "mkdir" /\ gen'[p].level = n + 1
            /\ gen'[p].cov = LineCoverage(found[k])
            /\ gen'[p].iter = k /\ scripts' = scripts
  BY <1>0, ReadCases DEF Reads, IInv
<1>4. gen'[p].iter \in Iterations
  BY <1>3 DEF GenType
<1>5. AloneAtWork(p)' /\ AloneFiles(p)'
  BY <1>0, <1>3, <1>4, FilesAlone DEF InLoop
<1>6. Filled(p)' = n
  BY <1>0, <1>3 DEF Filled
<1>7. AloneLevels(p)'
  <2>1. \A i \in 0 .. k - 1 : found[i] \in Coverages
    BY <1>0 DEF AloneFiles
  <2>2. gen'[p].iter \in Nat /\ gen'[p].iter >= k
    BY <1>0, <1>3
  <2>3. gen'[p].at \in {"mkdir", "copy"} =>
           gen'[p].cov = LineCoverage(found[gen'[p].iter]) /\ gen'[p].cov > gen[p].exCov
    BY <1>3
  <2>4. gen[p].class = c /\ gen[p].iter = k /\ gen'[p].class = c
    BY <1>3
  <2> HIDE DEF c, k, n
  <2> QED
    BY <1>0, <1>1, <1>3, <1>6, <2>1, <2>2, <2>3, <2>4, AloneLevelsKept DEF found
<1>8. AloneBest(p)'
  <2>1. ASSUME NEW i \in 0 .. gen'[p].iter, i < gen'[p].iter \/ gen'[p].at = "clear"
        PROVE  LineCoverage(found[i]) <= gen[p].exCov
    <3>1. i \in 0 .. k /\ (i < k \/ i = k)
      BY <1>0, <1>3, <2>1
    <3>2. i = k => LineCoverage(found[k]) <= gen[p].exCov
      BY <1>0, <1>3, <2>1
    <3> HIDE DEF found, k
    <3> QED
      BY <1>2, <3>1, <3>2
  <2> HIDE DEF c, k, n
  <2> QED
    BY <1>3, <2>1 DEF AloneBest, found
<1> QED
  BY <1>5, <1>7, <1>8 DEF AloneInv

\* What a process alone copies into a level: the report of the last iteration that has
\* tests, which covers no less than the others that have.
LEMMA ReportAlone ==
    ASSUME IInv, NEW p \in Processes, Alone(p), CopyLevel(p)
    PROVE  LET c == gen[p].class  k == gen[p].iter  n == gen[p].level
           IN  \E report \in DirType :
                  /\ levels' = [levels EXCEPT ![c][n] = report]
                  /\ (\E i \in 0 .. k : i \in tested[c]) => report \in Coverages
                  /\ report \in Coverages =>
                        \E last \in (0 .. k) \cap tested[c] :
                           /\ report = dirs[c][last]
                           /\ \A i \in (0 .. k) \cap tested[c] : i <= last
<1> DEFINE c == gen[p].class
           k == gen[p].iter
           n == gen[p].level
<1>0. /\ gen[p].at = "copy" /\ c \in Classes /\ k \in Iterations /\ k \in Nat
      /\ n \in Nat /\ AloneLevels(p) /\ AloneFiles(p) /\ TypeOK /\ ClassesInLoop /\ LoopBounds
  BY AloneTypes DEF CopyLevel, IInv
<1>1. /\ n \in Levels
      /\ \E new \in DirType :
            /\ levels' = [levels EXCEPT ![c][n] = new]
            /\ \/ LastReport(c, k) = {} /\ new = levels[c][n]
               \/ \E i \in LastReport(c, k) : new \in Coverages /\ new = dirs[c][i]
  BY <1>0, CopyCases
<1>2. levels[c][n] \notin Coverages
  <2>1. Filled(p) = n - 1 /\ n > n - 1
    BY <1>0 DEF Filled
  <2> QED
    BY <1>0, <1>1, <2>1 DEF AloneLevels, Measured
<1>3. \A i \in 0 .. k : dirs[c][i] \in Coverages
  <2>1. \A i \in 0 .. k : i = k \/ i \in 0 .. k - 1
    BY <1>0
  <2> QED
    BY <1>0, <2>1 DEF AloneFiles
<1> HIDE DEF c, k, n
<1>4. PICK new \in DirType :
         /\ levels' = [levels EXCEPT ![c][n] = new]
         /\ \/ LastReport(c, k) = {} /\ new = levels[c][n]
            \/ \E i \in LastReport(c, k) : new \in Coverages /\ new = dirs[c][i]
  BY <1>1
<1>5. ASSUME NEW i \in 0 .. k, i \in tested[c]
      PROVE  new \in Coverages
  BY <1>0, <1>3, <1>4, <1>5, LastIsThere
<1>6. ASSUME new \in Coverages
      PROVE  \E last \in (0 .. k) \cap tested[c] :
                new = dirs[c][last] /\ \A i \in (0 .. k) \cap tested[c] : i <= last
  <2>1. PICK last \in LastReport(c, k) : new = dirs[c][last]
    BY <1>2, <1>4, <1>6
  <2>2. last \in (0 .. k) \cap tested[c] /\ \A i \in (0 .. k) \cap tested[c] : i <= last
    BY <1>0, <1>3, LastIsLast
  <2> QED
    BY <2>1, <2>2
<1> QED
  BY <1>4, <1>5, <1>6 DEF c, k, n

\* The reports of the iterations a process alone has made cover more and more.
LEMMA FoundAlone ==
    ASSUME IInv, NEW p \in Processes, Alone(p), Dir(p) \in Coverages
    PROVE  LET c == gen[p].class  k == gen[p].iter
           IN  /\ \A i \in 0 .. k : /\ i \in Iterations /\ dirs[c][i] \in Coverages
                                    /\ dirs[c][i].over = {c}
                                    /\ LineCoverage(dirs[c][i]) \in 0 .. 100
               /\ \A i, j \in 0 .. k : i <= j =>
                     /\ dirs[c][i].blocks \subseteq dirs[c][j].blocks
                     /\ Percent(dirs[c][i]) <= Percent(dirs[c][j])
<1> DEFINE c == gen[p].class
           k == gen[p].iter
           found == dirs[c]
<1>0. c \in Classes /\ k \in Iterations /\ k \in Nat /\ AloneFiles(p) /\ found[k] \in Coverages
  BY AloneTypes DEF Dir
<1>1. \A i \in 0 .. k : i \in Iterations /\ (i = k \/ i \in 0 .. k - 1)
  BY <1>0, LimitsAssumption DEF Iterations
<1>2. \A i \in 0 .. k : found[i] \in Coverages
  BY <1>0, <1>1 DEF AloneFiles
<1>3. /\ \A i \in Iterations : found[i] \in Coverages => found[i].over = {c}
      /\ \A i, j \in Iterations :
            i <= j /\ found[i] \in Coverages /\ found[j] \in Coverages =>
                found[i].blocks \subseteq found[j].blocks
  BY <1>0 DEF AloneFiles
<1> HIDE DEF c, k, found
<1>4. \A i \in 0 .. k : found[i].over = {c} /\ LineCoverage(found[i]) \in 0 .. 100
  BY <1>1, <1>2, <1>3, LineCoverageRange
<1>5. ASSUME NEW i \in 0 .. k, NEW j \in 0 .. k, i <= j
      PROVE  found[i].blocks \subseteq found[j].blocks /\ Percent(found[i]) <= Percent(found[j])
  <2>1. found[i].blocks \subseteq found[j].blocks
    BY <1>1, <1>2, <1>3, <1>5
  <2> QED
    BY <1>0, <1>2, <1>4, <2>1, PercentGrows
<1> QED
  BY <1>1, <1>2, <1>4, <1>5 DEF c, k, found

\* The level is filled with a report that covers no less than those below it, and more
\* if its own iteration has tests as those of the levels below it had.
LEMMA CopiesAlone ==
    ASSUME IInv, NEW p \in Processes, Alone(p), CopyLevel(p)
    PROVE  /\ AloneInv(p)'
           /\ LevelsGrow'
           /\ \A d \in Classes, l \in Levels :
                 levels[d][l] \in Coverages => levels'[d][l] = levels[d][l]
<1> DEFINE c == gen[p].class
           k == gen[p].iter
           n == gen[p].level
           found == dirs[c]
           good == (0 .. k) \cap tested[c]
<1>0. /\ gen[p].at = "copy" /\ c \in Classes /\ k \in Iterations /\ k \in Nat
      /\ n \in Nat /\ n <= MaxLevel /\ MaxLevel \in Nat /\ gen[p].exCov \in 0 .. 100
      /\ AloneLevels(p) /\ AloneBest(p) /\ AloneFiles(p) /\ Dir(p) = found[k]
      /\ gen[p].class = c /\ gen[p].iter = k
  BY AloneTypes DEF CopyLevel, Dir
<1>1. Filled(p) = n - 1
  BY <1>0 DEF Filled
<1>2. found[k] \in Coverages
  BY <1>0 DEF AloneFiles
<1>3. /\ n \in Levels /\ gen' \in [Processes -> GenType] /\ OnlyStep(p)
      /\ UNCHANGED <<dirs, tested, compiled, disturbed>>
      /\ testless' = IF k \in tested[c] THEN testless ELSE testless \cup {c}
      /\ gen'[p].class = c /\ gen'[p].exCov = gen[p].cov /\ gen'[p].level = n
      /\ \/ /\ gen'[p].at = "poll" /\ gen'[p].iter = k + 1
            /\ scripts' = scripts \cup {[class |-> c, iter |-> k + 1]}
         \/ gen'[p].at = "clear" /\ gen'[p].iter = k /\ scripts' = scripts
  <2>1. TypeOK /\ ClassesInLoop /\ LoopBounds
    BY DEF IInv
  <2> QED
    BY <2>1, CopyCases DEF OnlyStep
<1>4. gen'[p].iter \in Iterations /\ n > 0 /\ k <= gen'[p].iter
  BY <1>0, <1>3 DEF GenType, Levels
<1>5. AloneAtWork(p)' /\ AloneFiles(p)'
  BY <1>0, <1>2, <1>3, <1>4, FilesAlone DEF InLoop
<1>6. Filled(p)' = n
  BY <1>3 DEF Filled
<1>7. /\ \A l \in Levels : l > n - 1 => levels[c][l] \notin Coverages
      /\ \A l \in Levels : levels[c][l] \in Coverages => \E i \in good : levels[c][l] = found[i]
      /\ c \notin testless =>
            /\ \A l \in 1 .. n - 1 : levels[c][l] \in Coverages
            /\ n - 1 > 0 => gen[p].exCov = LineCoverage(levels[c][n - 1])
      /\ gen[p].cov = LineCoverage(found[k]) /\ gen[p].cov > gen[p].exCov
  BY <1>0, <1>1 DEF AloneLevels, Measured
<1>8. /\ \A i \in 0 .. k : /\ i \in Iterations /\ found[i] \in Coverages /\ found[i].over = {c}
                           /\ LineCoverage(found[i]) \in 0 .. 100
      /\ \A i, j \in 0 .. k : i <= j =>
            found[i].blocks \subseteq found[j].blocks /\ Percent(found[i]) <= Percent(found[j])
  BY <1>0, <1>2, FoundAlone
<1>9. PICK report \in DirType :
         /\ levels' = [levels EXCEPT ![c][n] = report]
         /\ (\E i \in 0 .. k : i \in tested[c]) => report \in Coverages
         /\ report \in Coverages =>
               \E last \in good : report = found[last] /\ \A i \in good : i <= last
  BY ReportAlone
<1>10. \A d \in Classes, l \in Levels :
          levels'[d][l] = IF d = c /\ l = n THEN report ELSE levels[d][l]
  <2>1. levels \in [Classes -> [Levels -> DirType]]
    BY DEF IInv, TypeOK, DirType
  <2> HIDE DEF c, n, DirType
  <2> QED
    BY <1>3, <1>9, <2>1
<1> HIDE DEF c, k, n, found
<1>11. \A i \in good : report \in Coverages /\ Percent(found[i]) <= Percent(report)
  <2> SUFFICES ASSUME NEW i \in good
               PROVE  report \in Coverages /\ Percent(found[i]) <= Percent(report)
    OBVIOUS
  <2>1. report \in Coverages
    BY <1>9
  <2>2. PICK last \in good : report = found[last] /\ i <= last
    BY <1>9, <2>1
  <2> QED
    BY <1>8, <2>1, <2>2
<1>12. k \in tested[c] => report = found[k]
  <2> SUFFICES ASSUME k \in tested[c] PROVE report = found[k]
    OBVIOUS
  <2>1. k \in good
    BY <1>0
  <2>2. PICK last \in good : report = found[last] /\ k <= last
    BY <1>9, <2>1
  <2> QED
    BY <1>0, <2>2
<1>13. levels'[c][n] = report /\ \A l \in Levels : l > n => levels'[c][l] \notin Coverages
  <2>1. ASSUME NEW l \in Levels, l > n
        PROVE  levels'[c][l] \notin Coverages
    <3>1. l > n - 1 /\ l # n
      BY <1>0, <2>1 DEF Levels
    <3> QED
      BY <1>0, <1>7, <1>10, <3>1
  <2> QED
    BY <1>0, <1>3, <1>10, <2>1
<1>14. AloneLevels(p)'
  <2>1. ASSUME NEW l \in Levels, levels'[c][l] \in Coverages
        PROVE  \E i \in (0 .. gen'[p].iter) \cap tested[c] : levels'[c][l] = found[i]
    <3>1. \E i \in good : levels'[c][l] = found[i]
      BY <1>0, <1>7, <1>9, <1>10, <2>1
    <3>2. \A i \in good : i \in 0 .. gen'[p].iter
      BY <1>0, <1>4, LimitsAssumption DEF Iterations
    <3> QED
      BY <3>1, <3>2
  <2>2. \E j \in 0 .. gen'[p].iter : MadeLevel(p, j)'
    <3>1. PICK j \in 0 .. gen'[p].iter : j = k
      BY <1>0, <1>4, LimitsAssumption DEF Iterations
    <3>2. /\ dirs'[c] = found /\ tested' = tested /\ levels'[c][n] = report
          /\ gen'[p].class = c /\ gen'[p].exCov = LineCoverage(found[j])
      BY <1>3, <1>7, <1>13, <3>1 DEF found
    <3>3. \A i \in (0 .. j) \cap tested[c] :
             report \in Coverages /\ Percent(found[i]) <= Percent(report)
      BY <1>11, <3>1
    <3>4. found[j] \in Coverages
      BY <1>2, <3>1
    <3>5. MadeLevel(p, j)'
      BY <1>6, <3>2, <3>3, <3>4 DEF MadeLevel, Measured
    <3> QED
      BY <3>5
  <2>4. ASSUME c \notin testless'
        PROVE  /\ \A l \in 1 .. n : levels'[c][l] \in Coverages
               /\ gen'[p].exCov = LineCoverage(levels'[c][n])
    <3>1. k \in tested[c] /\ c \notin testless
      BY <1>3, <2>4
    <3>2. \A l \in 1 .. n : l = n \/ (l \in 1 .. n - 1 /\ l \in Levels)
      BY <1>0 DEF Levels
    <3> QED
      BY <1>0, <1>2, <1>3, <1>7, <1>10, <1>12, <1>13, <3>1, <3>2
  <2> QED
    <3>1. /\ dirs'[c] = found /\ tested' = tested /\ gen'[p].class = c
          /\ gen'[p].at \notin {"mkdir", "copy"}
      BY <1>3 DEF found
    <3>2. n > 0 /\ \E j \in 0 .. gen'[p].iter : MadeLevel(p, j)'
      BY <1>4, <2>2
    <3> QED
      BY <1>0, <1>6, <1>13, <2>1, <2>4, <3>1, <3>2 DEF AloneLevels, Measured
<1>15. AloneBest(p)'
  <2>1. \A i \in 0 .. k : i < k => LineCoverage(found[i]) <= gen[p].exCov
    BY <1>0 DEF AloneBest, found
  <2>2. ASSUME NEW i \in 0 .. gen'[p].iter, i < gen'[p].iter \/ gen'[p].at = "clear"
        PROVE  LineCoverage(found[i]) <= gen[p].cov
    <3>1. i \in 0 .. k /\ (i < k \/ i = k)
      BY <1>0, <1>3, <2>2
    <3> QED
      <4>1. LineCoverage(found[i]) \in 0 .. 100 /\ LineCoverage(found[k]) \in 0 .. 100
        BY <1>0, <1>8, <3>1
      <4>2. i < k => LineCoverage(found[i]) <= gen[p].exCov
        BY <2>1, <3>1
      <4> QED
        <5>1. gen[p].exCov \in 0 .. 100 /\ gen[p].cov = LineCoverage(found[k])
          BY <1>0, <1>7
        <5>2. gen[p].exCov < LineCoverage(found[k])
          BY <1>7, <4>1, <5>1
        <5>3. CASE i = k
          BY <4>1, <5>1, <5>3
        <5>4. CASE i < k
          <6>1. LineCoverage(found[i]) <= gen[p].exCov
            BY <4>2, <5>4
          <6>2. \A x, y, z \in 0 .. 100 : x <= y /\ y < z => x <= z
            OBVIOUS
          <6> QED
            BY <4>1, <5>1, <5>2, <6>1, <6>2
        <5> QED
          BY <3>1, <5>3, <5>4
  <2> QED
    BY <1>3, <2>2 DEF AloneBest, found
<1>16. ASSUME n - 1 > 0, levels[c][n - 1] \in Coverages,
              gen[p].exCov = LineCoverage(levels[c][n - 1])
       PROVE  Percent(levels[c][n - 1]) < Percent(found[k])
  <2>1. n - 1 \in Levels
    BY <1>0, <1>16 DEF Levels
  <2>2. PICK i \in good : levels[c][n - 1] = found[i]
    BY <1>7, <1>16, <2>1
  <2>3. i \in 0 .. k /\ k \in 0 .. k /\ i <= k
    BY <1>0
  <2>4. LineCoverage(found[i]) < LineCoverage(found[k])
    BY <1>0, <1>7, <1>8, <1>16, <2>2, <2>3
  <2> QED
    BY <1>0, <1>8, <2>2, <2>3, <2>4, ReadAsMore
<1>17. LevelsGrow'
  <2> SUFFICES ASSUME NEW d \in Classes \ disturbed, NEW l \in Levels, NEW m \in Levels,
                      l < m, levels'[d][m] \in Coverages
               PROVE  /\ levels'[d][l] \in Coverages =>
                            Percent(levels'[d][l]) <= Percent(levels'[d][m])
                      /\ d \notin testless' =>
                            /\ levels'[d][l] \in Coverages
                            /\ Percent(levels'[d][l]) < Percent(levels'[d][m])
    BY <1>3 DEF LevelsGrow, Measured
  <2>1. CASE d # c \/ m < n
    <3>1. levels'[d][m] = levels[d][m] /\ levels'[d][l] = levels[d][l]
      BY <1>0, <1>10, <2>1 DEF Levels
    <3>2. d \notin testless' => d \notin testless
      BY <1>3
    <3> QED
      BY <2>1, <3>1, <3>2 DEF IInv, LevelsGrow, Measured
  <2>2. CASE d = c /\ m >= n
    <3>1. m = n /\ l \in 1 .. n - 1 /\ (l = n - 1 \/ l < n - 1) /\ n - 1 \in Levels /\ n - 1 > 0
      BY <1>0, <1>13, <2>2 DEF Levels
    <3>2. levels'[d][m] = report /\ levels'[d][l] = levels[c][l]
      BY <1>10, <1>13, <2>2, <3>1
    <3>3. levels[c][l] \in Coverages => Percent(levels[c][l]) <= Percent(report)
      BY <1>7, <1>11
    <3>4. ASSUME c \notin testless'
          PROVE  levels[c][l] \in Coverages /\ Percent(levels[c][l]) < Percent(report)
      <4>1. c \notin testless /\ report = found[k]
        BY <1>3, <1>12, <3>4
      <4>2. /\ levels[c][l] \in Coverages /\ levels[c][n - 1] \in Coverages
            /\ Percent(levels[c][n - 1]) < Percent(report)
        BY <1>0, <1>7, <1>16, <3>1, <4>1
      <4>3. l < n - 1 => Percent(levels[c][l]) < Percent(levels[c][n - 1])
        <5>1. c \in Classes \ disturbed
          BY <2>2
        <5> QED
          BY <3>1, <4>1, <4>2, <5>1 DEF IInv, LevelsGrow, Measured
      <4>4. /\ Percent(levels[c][l]) \in Nat /\ Percent(levels[c][n - 1]) \in Nat
            /\ Percent(report) \in Nat
        BY <1>2, <4>1, <4>2, PercentRange
      <4> QED
        BY <3>1, <4>2, <4>3, <4>4
    <3> QED
      BY <2>2, <3>2, <3>3, <3>4
  <2> QED
    BY <1>0, <2>1, <2>2 DEF Levels
<1>18. ASSUME NEW d \in Classes, NEW l \in Levels, levels[d][l] \in Coverages
       PROVE  levels'[d][l] = levels[d][l]
  <2>1. ~(d = c /\ l = n)
    BY <1>0, <1>3, <1>7, <1>18
  <2> QED
    BY <1>10, <2>1
<1> QED
  BY <1>5, <1>14, <1>15, <1>17, <1>18 DEF AloneInv

LEMMA AloneStep ==
    ASSUME IInv, [Next]_vars, TypeOK'
    PROVE  \A q \in Processes : Alone(q)' => AloneInv(q)'
<1> SUFFICES ASSUME NEW q \in Processes, Alone(q)'
             PROVE  AloneInv(q)'
  OBVIOUS
<1>0. /\ TypeOK /\ ClassesInLoop /\ LoopBounds /\ disturbed \subseteq disturbed'
      /\ Alone(q) => AloneInv(q)
  BY DisturbedStays DEF IInv
<1>1. q \in Working' /\ gen'[q].class # None /\ gen'[q].class \notin disturbed'
  BY DEF Alone, Working
<1>2. CASE FilesKept /\ gen' = gen
  <2>1. Alone(q) /\ \A r \in Processes : r \in Working' => r \in Working
    BY <1>0, <1>1, <1>2 DEF Alone, Working
  <2> QED
    BY <1>0, <1>2, <2>1, AloneInvKept
<1>3. ASSUME NEW p \in Processes, Idles(p)
      PROVE  AloneInv(q)'
  <2>1. OnlyStep(p) /\ FilesKept /\ gen'[p].class = None
    BY <1>3 DEF Idles
  <2>2. q # p
    BY <1>1, <2>1
  <2>3. Alone(q) /\ gen'[q] = gen[q]
    BY <1>3, <2>1, <2>2, OthersIdle
  <2>4. \A r \in Processes : r \in Working' => r \in Working
    BY <2>1 DEF Working, OnlyStep
  <2> QED
    BY <1>0, <2>1, <2>3, <2>4, AloneInvKept
<1>4. ASSUME NEW p \in Processes, Polls(p) \/ Reads(p) \/ Makes(p) \/ CopyLevel(p)
      PROVE  AloneInv(q)'
  <2>1. OnlyStep(p) /\ p \in Working /\ gen'[p].class = gen[p].class
    BY <1>0, <1>4, LoopStep, AtWork
  <2>2. q = p
    BY <2>1, OthersIdle
  <2>3. Alone(p)
    BY <1>0, <1>1, <2>1, <2>2 DEF Alone
  <2> QED
    BY <1>4, <2>2, <2>3, PollsAlone, ReadsAlone, MakesAlone, CopiesAlone
<1>5. ASSUME NEW p \in Processes, Clears(p)
      PROVE  FALSE
  <2>1. OnlyStep(p) /\ gen[p].at = "clear" /\ gen'[p].class = None
    BY <1>5 DEF Clears
  <2>2. p \in Working /\ q # p
    BY <1>0, <1>1, <2>1, AtWork DEF InLoop
  <2> QED
    BY <2>1, <2>2, OthersIdle
<1>6. ASSUME NEW p \in Processes, NEW c \in Classes, Takes(p, c)
      PROVE  AloneInv(q)'
  <2>1. OnlyStep(p) /\ gen'[p].at \in InLoop
    BY <1>6 DEF Takes, InLoop
  <2>2. q = p
    BY <1>6, <2>1, OthersIdle DEF Idles
  <2> QED
    BY <1>6, <2>2, TakesAlone
<1>7. ASSUME NEW s \in scripts, Script(s)
      PROVE  AloneInv(q)'
  <2>1. Alone(q)
    BY <1>1, <1>7 DEF Script, Alone, Working
  <2> QED
    BY <1>7, <2>1, ScriptAlone
<1>8. CASE Restart
  <2>1. gen'[q].class = None
    BY <1>0, <1>8 DEF Restart, At, ClassesInLoop, InLoop
  <2> QED
    BY <1>1, <2>1
<1>9. CASE Recover
  BY <1>1, <1>9 DEF Recover, Working
<1> QED
  BY <1>0, <1>2, <1>3, <1>4, <1>5, <1>6, <1>7, <1>8, <1>9, KindsOfSteps

-----------------------------------------------------------------------------
(* The levels.                                                             *)

\* Levels of a class that was not disturbed are filled by a process that is alone:
\* one above another, and each of them once.
LEMMA LevelsKept ==
    ASSUME IInv, [Next]_vars
    PROVE  /\ LevelsGrow'
           /\ \A c \in Classes, l \in Levels :
                 levels[c][l] \in Coverages /\ c \notin disturbed' => levels'[c][l] = levels[c][l]
<1>0. /\ TypeOK /\ ClassesInLoop /\ LoopBounds /\ disturbed \subseteq disturbed'
      /\ testless \subseteq testless' /\ LevelsGrow
      /\ None \notin Coverages /\ NoReport \notin Coverages
  BY DisturbedStays, LimitsAssumption DEF IInv
<1>1. ASSUME \A c \in Classes, l \in Levels :
                c \notin disturbed' =>
                    \/ levels'[c][l] = levels[c][l]
                    \/ levels[c][l] \notin Coverages /\ levels'[c][l] \notin Coverages
      PROVE  /\ LevelsGrow'
             /\ \A c \in Classes, l \in Levels :
                   levels[c][l] \in Coverages /\ c \notin disturbed' =>
                       levels'[c][l] = levels[c][l]
  <2>1. ASSUME NEW c \in Classes \ disturbed', NEW l \in Levels, NEW m \in Levels,
               l < m, levels'[c][m] \in Coverages
        PROVE  /\ levels'[c][l] \in Coverages =>
                     Percent(levels'[c][l]) <= Percent(levels'[c][m])
               /\ c \notin testless' =>
                     /\ levels'[c][l] \in Coverages
                     /\ Percent(levels'[c][l]) < Percent(levels'[c][m])
    <3>1. levels'[c][m] = levels[c][m]
      BY <1>1, <2>1
    <3>2. \/ levels'[c][l] = levels[c][l]
          \/ levels[c][l] \notin Coverages /\ levels'[c][l] \notin Coverages
      BY <1>1, <2>1
    <3>3. /\ levels[c][l] \in Coverages => Percent(levels[c][l]) <= Percent(levels[c][m])
          /\ c \notin testless => /\ levels[c][l] \in Coverages
                                  /\ Percent(levels[c][l]) < Percent(levels[c][m])
      BY <1>0, <2>1, <3>1 DEF LevelsGrow, Measured
    <3> QED
      BY <1>0, <3>1, <3>2, <3>3
  <2>2. LevelsGrow'
    BY <2>1 DEF LevelsGrow, Measured
  <2> QED
    BY <1>1, <2>2
<1>2. CASE levels' = levels
  BY <1>1, <1>2
<1>3. ASSUME NEW p \in Processes, MakeLevel(p), levels' # levels
      PROVE  \A c \in Classes, l \in Levels :
                \/ levels'[c][l] = levels[c][l]
                \/ levels[c][l] \notin Coverages /\ levels'[c][l] \notin Coverages
  <2> DEFINE c == gen[p].class
             n == gen[p].level
             new == IF levels[c][n] = None THEN NoReport ELSE levels[c][n]
  <2>1. levels' = [levels EXCEPT ![c][n] = new]
    BY <1>3 DEF MakeLevel
  <2>2. levels \in [Classes -> [Levels -> DirType]]
    BY <1>0 DEF TypeOK, DirType
  <2>3. \A d \in Classes, l \in Levels :
           levels'[d][l] = IF d = c /\ l = n THEN new ELSE levels[d][l]
    <3> HIDE DEF new, c, n, DirType
    <3> QED
      BY <2>1, <2>2
  <2> QED
    BY <1>0, <2>3
<1>4. ASSUME NEW p \in Processes, CopyLevel(p)
      PROVE  /\ LevelsGrow'
             /\ \A c \in Classes, l \in Levels :
                   levels[c][l] \in Coverages /\ c \notin disturbed' =>
                       levels'[c][l] = levels[c][l]
  <2>1. p \in Working /\ gen[p].class \in Classes /\ gen[p].level \in Levels
    BY <1>0, <1>4, CopyCases
  <2>2. CASE Alone(p)
    BY <1>4, <2>2, CopiesAlone
  <2>3. CASE gen[p].class \in disturbed
    <3>1. PICK new \in DirType :
             levels' = [levels EXCEPT ![gen[p].class][gen[p].level] = new]
      BY <1>0, <1>4, CopyCases
    <3>2. levels \in [Classes -> [Levels -> DirType]]
      BY <1>0 DEF TypeOK, DirType
    <3>3. \A d \in Classes : d # gen[p].class => levels'[d] = levels[d]
      BY <3>1, <3>2
    <3>4. \A d \in Classes : d \notin disturbed' => levels'[d] = levels[d]
      BY <1>0, <2>3, <3>3
    <3> QED
      BY <1>1, <3>4
  <2> QED
    BY <2>1, <2>2, <2>3 DEF Alone
<1> QED
  BY <1>0, <1>1, <1>2, <1>3, <1>4, LevelsStep

-----------------------------------------------------------------------------
(* What is left behind.                                                    *)

\* A process that has failed is not started again.
LEMMA FailedStays ==
    ASSUME TypeOK, ClassesInLoop, LoopBounds, [Next]_vars, NEW q \in Processes,
           gen[q].at = "failed"
    PROVE  gen'[q].at = "failed"
<1>1. q \notin Working
  BY DEF Working, ClassesInLoop, InLoop
<1>2. ASSUME NEW p \in Processes, OnlyStep(p), gen[p].at # "failed"
      PROVE  gen'[q].at = "failed"
  <2>1. gen'[q] = gen[q]
    BY <1>2 DEF OnlyStep
  <2> QED
    BY <2>1
<1>3. ASSUME NEW p \in Processes, Polls(p) \/ Reads(p) \/ Makes(p) \/ CopyLevel(p)
      PROVE  OnlyStep(p) /\ gen[p].at # "failed"
  BY <1>3, LoopStep DEF InLoop
<1>4. ASSUME NEW p \in Processes, Idles(p) \/ Clears(p)
      PROVE  OnlyStep(p) /\ gen[p].at # "failed"
  BY <1>4 DEF Idles, Clears
<1>5. ASSUME NEW p \in Processes, NEW c \in Classes, Takes(p, c)
      PROVE  OnlyStep(p) /\ gen[p].at # "failed"
  BY <1>5 DEF Takes, Begin
<1>6. CASE Restart
  BY <1>6 DEF Restart, At
<1>7. CASE gen' = gen
  BY <1>7
<1> QED
  BY <1>2, <1>3, <1>4, <1>5, <1>6, <1>7, KindsOfSteps DEF Script, Recover

LEMMA TidyStep ==
    ASSUME IInv, [Next]_vars
    PROVE  Tidy'
<1> SUFFICES ASSUME disturbed' = {}, \A p \in Processes : gen'[p].at # "failed"
             PROVE  /\ Working' = {} => /\ scripts' = {} /\ compiled' = {}
                                        /\ \A c \in Classes : dirs'[c] = NoDirs
                    /\ \A p \in Working' : \A c \in Classes \ {gen'[p].class} :
                          dirs'[c] = NoDirs
  BY DEF Tidy, NoDirs
<1>0. /\ TypeOK /\ ClassesInLoop /\ LoopBounds /\ disturbed = {} /\ disturbed' = disturbed
      /\ \A p \in Processes : gen[p].at # "failed"
  BY DisturbedStays, FailedStays DEF IInv
<1>1. /\ Working = {} => scripts = {} /\ compiled = {} /\ \A c \in Classes : dirs[c] = NoDirs
      /\ \A p \in Working : \A c \in Classes \ {gen[p].class} : dirs[c] = NoDirs
  BY <1>0 DEF IInv, Tidy
<1>2. \A p \in Working : Alone(p) /\ AloneAtWork(p)
  BY <1>0 DEF IInv, Alone, AloneInv, Working
<1>3. CASE FilesKept /\ gen' = gen
  BY <1>1, <1>3 DEF FilesKept, Working
<1>4. ASSUME NEW p \in Processes, Idles(p)
      PROVE  FilesKept /\ Working' = Working /\ \A q \in Working : gen'[q] = gen[q]
  <2>1. p \notin Working /\ gen'[p].class = None /\ OnlyStep(p) /\ FilesKept
    BY <1>4 DEF Idles
  <2> QED
    BY <2>1 DEF Working, OnlyStep
<1>5. ASSUME NEW p \in Processes, Polls(p) \/ Reads(p) \/ Makes(p) \/ CopyLevel(p)
      PROVE  /\ Working' = {p} /\ gen'[p].class = gen[p].class /\ p \in Working
             /\ dirs' = dirs
  <2>1. /\ OnlyStep(p) /\ p \in Working /\ gen'[p].class = gen[p].class
        /\ gen[p].class # None
    BY <1>0, <1>5, LoopStep, AtWork DEF Working
  <2>2. dirs' = dirs
    BY <1>0, <1>5, ReadCases, CopyCases DEF Polls, Reads, Makes, FilesKept
  <2>3. \A q \in Working : q = p
    BY <1>2, <2>1 DEF AloneAtWork
  <2> QED
    BY <2>1, <2>2, <2>3 DEF Working, OnlyStep
<1>6. ASSUME NEW p \in Processes, Clears(p)
      PROVE  /\ Working' = {} /\ scripts' = {} /\ compiled' = {}
             /\ \A c \in Classes : dirs'[c] = NoDirs
  <2>1. /\ OnlyStep(p) /\ gen[p].at = "clear" /\ gen'[p].class = None /\ scripts' = scripts
        /\ compiled' = {} /\ \A c \in Classes : dirs'[c] = NoDirs
    BY <1>6 DEF Clears
  <2>2. p \in Working
    BY <1>0, <2>1, AtWork DEF InLoop
  <2>3. (\A q \in Working : q = p) /\ scripts = {}
    BY <1>2, <2>1, <2>2 DEF AloneAtWork
  <2>4. Working' = {}
    BY <2>1, <2>3 DEF Working, OnlyStep
  <2> QED
    BY <2>1, <2>3, <2>4
<1>7. ASSUME NEW p \in Processes, NEW c \in Classes, Takes(p, c)
      PROVE  Working' = {p} /\ \A d \in Classes : dirs'[d] = NoDirs
  <2>1. Working = {}
    BY <1>7, TakesCases
  <2>2. OnlyStep(p) /\ gen'[p].class = c /\ c # None /\ dirs' = dirs
    BY <1>7, LimitsAssumption DEF Takes
  <2>3. Working' = {p}
    BY <2>1, <2>2 DEF Working, OnlyStep
  <2> QED
    BY <1>1, <2>1, <2>2, <2>3
<1>8. ASSUME NEW s \in scripts, Script(s)
      PROVE  /\ Working' # {}
             /\ \A p \in Working' : \A c \in Classes \ {gen'[p].class} : dirs'[c] = NoDirs
  <2>1. gen' = gen /\ Working' = Working /\ Working # {}
    BY <1>1, <1>8 DEF Script, Working
  <2>2. \A c \in Classes : c # s.class => dirs'[c] = dirs[c]
    <3>1. dirs \in [Classes -> [Iterations -> DirType]]
      BY <1>0 DEF TypeOK, DirType
    <3> QED
      BY <1>8, <3>1 DEF Script
  <2>3. \A p \in Working : gen[p].class = s.class
    BY <1>2 DEF AloneAtWork
  <2> QED
    BY <1>1, <2>1, <2>2, <2>3
<1>9. CASE Restart
  <2>1. Working = {} /\ Working' = {}
    BY <1>0, <1>9 DEF Restart, At, Working, ClassesInLoop, InLoop
  <2> QED
    BY <1>1, <1>9, <2>1 DEF Restart
<1>10. CASE Recover
  <2>1. Working = {} /\ Working' = {}
    BY <1>10 DEF Recover, Working
  <2> QED
    BY <1>1, <1>10, <2>1 DEF Recover
<1>11. ASSUME NEW p \in Processes, Idles(p)
       PROVE  /\ Working' = {} => /\ scripts' = {} /\ compiled' = {}
                                  /\ \A c \in Classes : dirs'[c] = NoDirs
              /\ \A q \in Working' : \A c \in Classes \ {gen'[q].class} : dirs'[c] = NoDirs
  BY <1>1, <1>4, <1>11 DEF FilesKept
<1>12. ASSUME NEW p \in Processes, Polls(p) \/ Reads(p) \/ Makes(p) \/ CopyLevel(p)
       PROVE  /\ Working' # {}
              /\ \A q \in Working' : \A c \in Classes \ {gen'[q].class} : dirs'[c] = NoDirs
  BY <1>1, <1>5, <1>12
<1>13. ASSUME NEW p \in Processes, NEW c \in Classes, Takes(p, c)
       PROVE  /\ Working' # {}
              /\ \A q \in Working' : \A d \in Classes \ {gen'[q].class} : dirs'[d] = NoDirs
  BY <1>7, <1>13
<1> QED
  BY <1>0, <1>3, <1>6, <1>8, <1>9, <1>10, <1>11, <1>12, <1>13, <1>1, KindsOfSteps
  DEF FilesKept, Working

-----------------------------------------------------------------------------
(* The invariant.                                                          *)

LEMMA InitIInv == Init => IInv
<1> SUFFICES ASSUME Init PROVE IInv
  OBVIOUS
<1>1. /\ TypeOK /\ ClassesInLoop /\ LoopBounds /\ NoGap /\ LevelsBegun
      /\ Working = {} /\ LevelsGrow /\ Tidy
  BY InitType, InitLoop, InitLevels, InitAlone
<1>2. \A p \in Processes : ~Alone(p)
  BY <1>1 DEF Alone
<1> QED
  BY <1>1, <1>2 DEF IInv

LEMMA NextIInv ==
    ASSUME IInv, [Next]_vars
    PROVE  IInv'
<1>1. TypeOK /\ ClassesInLoop /\ LoopBounds /\ NoGap /\ LevelsBegun
  BY DEF IInv
<1>2. TypeOK' /\ ClassesInLoop' /\ LoopBounds' /\ NoGap' /\ LevelsBegun'
  BY <1>1, TypeStep, LoopKept, BegunKept
<1>3. \A p \in Processes : Alone(p)' => AloneInv(p)'
  BY <1>2, AloneStep
<1>4. LevelsGrow' /\ Tidy'
  BY LevelsKept, TidyStep
<1> QED
  BY <1>2, <1>3, <1>4 DEF IInv

LEMMA Invariance == Spec => []IInv
<1>1. IInv /\ [Next]_vars => IInv'
  BY NextIInv
<1> QED
  BY InitIInv, <1>1, PTL DEF Spec

\* Whatever uploads start whichever processes, and whenever they are killed, every
\* variable keeps its type and the counters of the loop of file_testing stay within
\* its limits: so no iteration writes outside its directories.
THEOREM TypeCorrectness == Spec => []TypeOK
<1>1. IInv => TypeOK
  BY DEF IInv
<1> QED
  BY Invariance, <1>1, PTL

\* The directories of the levels of a class are made one after the other and never
\* removed: even of a class that several processes generate at a time, one of which
\* is killed, the first level is there if any is, which is all Main looks for.
THEOREM LevelsWithoutGap == Spec => []NoGap
<1>1. IInv => NoGap
  BY DEF IInv
<1> QED
  BY Invariance, <1>1, PTL

\* The levels file_testing makes of a class that is generated alone never cover less
\* than one below them; they are numbered without a gap, each covering more than the one
\* below it, if every run that made one wrote tests.
THEOREM LevelsOnlyGrow == Spec => []LevelsGrow
<1>1. IInv => LevelsGrow
  BY DEF IInv
<1> QED
  BY Invariance, <1>1, PTL

\* When file_testing ends undisturbed, no iteration with tests covered more than the
\* last level it has made, but for a whole coverage, which is read as 10, and for one
\* that a run without tests had reached before it.
THEOREM BestIsKept == Spec => []BestRunIsALevel
<1>1. IInv => BestRunIsALevel
  <2> SUFFICES ASSUME IInv, NEW p \in Processes, gen[p].at = "clear",
                      gen[p].class \notin disturbed,
                      NEW i \in (0 .. gen[p].iter) \cap tested[gen[p].class]
               PROVE  LET c == gen[p].class  last == gen[p].level
                      IN  \/ Percent(dirs[c][i]) \in {0, 100}
                          \/ /\ last > 0 /\ Measured(c, last)
                             /\ Percent(dirs[c][i]) <= Percent(levels[c][last])
                          \/ \E j \in (0 .. i - 1) \ tested[c] :
                                Percent(dirs[c][j]) = Percent(dirs[c][i])
    BY DEF BestRunIsALevel
  <2> DEFINE c == gen[p].class
             k == gen[p].iter
             n == gen[p].level
             found == dirs[c]
  <2>1. Alone(p)
    BY AtWork DEF IInv, Alone, InLoop
  <2>2. /\ AloneBest(p) /\ AloneLevels(p) /\ AloneFiles(p) /\ k \in Nat /\ n \in Nat
        /\ c \in Classes /\ Filled(p) = n
    BY <2>1, AloneTypes DEF Filled
  <2>3. Dir(p) \in Coverages
    BY <2>2 DEF AloneFiles, Dir
  <2>4. /\ \A a \in 0 .. k : found[a] \in Coverages
        /\ \A a, b \in 0 .. k : a <= b => Percent(found[a]) <= Percent(found[b])
    BY <2>1, <2>3, FoundAlone
  <2>5. LineCoverage(found[i]) <= gen[p].exCov
    BY <2>2 DEF AloneBest
  <2>6. n = 0 => gen[p].exCov = 0
    BY <2>2 DEF AloneLevels
  <2>7. n > 0 => \E j \in 0 .. k : MadeLevel(p, j)
    BY <2>2 DEF AloneLevels
  <2>8. \A j : MadeLevel(p, j) =>
           /\ gen[p].exCov = LineCoverage(found[j])
           /\ \A a \in (0 .. j) \cap tested[c] :
                 Measured(c, n) /\ Percent(found[a]) <= Percent(levels[c][n])
    BY <2>2 DEF MadeLevel
  <2> HIDE DEF c, k, n, found
  <2>9. i \in 0 .. k /\ i \in tested[c]
    BY DEF c, k
  <2>10. CASE n = 0
    BY <2>4, <2>5, <2>6, <2>9, <2>10, NothingRead DEF found, c
  <2>11. CASE n > 0
    <3>1. PICK j \in 0 .. k : MadeLevel(p, j)
      BY <2>7, <2>11
    <3>2. Percent(found[i]) = 100 \/ Percent(found[i]) <= Percent(found[j])
      BY <2>4, <2>5, <2>8, <2>9, <3>1, NotReadAsMore
    <3>3. CASE i <= j
      <4>1. Measured(c, n) /\ Percent(found[i]) <= Percent(levels[c][n])
        BY <2>2, <2>8, <2>9, <3>1, <3>3
      <4> QED
        BY <2>11, <4>1 DEF found, c, n
    <3>4. CASE j < i
      <4>1. Percent(found[j]) <= Percent(found[i])
        BY <2>2, <2>4, <2>9, <3>4
      <4>2. Percent(found[i]) \in 0 .. 100 /\ Percent(found[j]) \in 0 .. 100
        BY <2>4, <2>9, PercentRange
      <4>3. j \in 0 .. i - 1
        BY <2>2, <2>9, <3>4
      <4>4. CASE j \in tested[c]
        <5>1. Measured(c, n) /\ Percent(found[j]) <= Percent(levels[c][n])
          BY <2>8, <3>1, <4>4
        <5>2. levels[c][n] \in Coverages /\ Percent(levels[c][n]) \in 0 .. 100
          BY <5>1, PercentRange DEF Measured
        <5>3. Percent(found[i]) = 100 \/ Percent(found[i]) <= Percent(levels[c][n])
          BY <3>2, <4>2, <5>1, <5>2
        <5> QED
          BY <2>11, <5>1, <5>3 DEF found, c, n
      <4>5. CASE j \notin tested[c]
        <5>1. Percent(found[i]) = 100 \/ Percent(found[j]) = Percent(found[i])
          BY <3>2, <4>1, <4>2
        <5> QED
          BY <4>3, <4>5, <5>1 DEF found, c
      <4> QED
        BY <4>4, <4>5
    <3> QED
      BY <2>2, <2>9, <3>3, <3>4
  <2> QED
    BY <2>2, <2>10, <2>11
<1> QED
  BY Invariance, <1>1, PTL

\* The loop of file_testing that waits for an archive, without a limit, has the
\* archive or a robot.sh at work that will make it, as long as it is alone.
THEOREM ArchiveIsThereOrComes == Spec => []AwaitedArchiveComes
<1>1. IInv => AwaitedArchiveComes
  <2> SUFFICES ASSUME IInv, NEW p \in Processes, gen[p].at = "poll",
                      gen[p].class \notin disturbed, Dir(p) = None
               PROVE  [class |-> gen[p].class, iter |-> gen[p].iter] \in scripts
    BY DEF AwaitedArchiveComes
  <2>1. Alone(p)
    BY AtWork DEF IInv, Alone, InLoop
  <2>2. AloneAtWork(p) /\ AloneFiles(p)
    BY <2>1, AloneTypes
  <2>3. scripts # {}
    BY <2>2 DEF AloneFiles, Dir
  <2> QED
    BY <2>2, <2>3 DEF AloneAtWork
<1> QED
  BY Invariance, <1>1, PTL

\* Processes that were not disturbed and did not fail leave nothing in ./classes nor
\* in the directories of the iterations.
THEOREM CleanAfterwards == Spec => []NothingIsLeft
<1>1. IInv => NothingIsLeft
  BY DEF IInv, Tidy, NothingIsLeft
<1> QED
  BY Invariance, <1>1, PTL

\* No later process writes into a level of an undisturbed class once it was measured.
THEOREM MeasuredLevelsStay == Spec => LevelsStay
<1>1. IInv /\ [Next]_vars =>
         [\A c \in Classes : \A l \in Levels :
             Measured(c, l) /\ c \notin disturbed' => levels'[c][l] = levels[c][l]]_vars
  BY LevelsKept DEF Measured
<1> QED
  BY Invariance, <1>1, PTL DEF Spec, LevelsStay
=============================================================================

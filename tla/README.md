# ENACTEST: a verification project in TLA+

ENACTEST is a web game about software testing: a student picks a Java class,
writes a JUnit test for it in the browser, and the coverage of the test is
compared with that of tests generated by robots (Randoop and EvoSuite).  The
repository holds the game as a set of services, one directory per task.

## 1. Inventory

| Part | Code | State | Operations | What is hard | What makes it correct | Model |
|---|---|---|---|---|---|---|
| Game repository | `T4-G18/api/{game,round,turn}`, `model`, `main.go` | PostgreSQL tables games, players, player_games, rounds, turns, metadata; archives on disk | create, update, delete of games, rounds, turns; upload of archives; periodic cleanup | keys and foreign keys under every order of requests; archive and table written apart; statements that fail half-way | a turn always has its round and player; ids are never reused; an error changes no table | `GameRepository` |
| Rate limiter | `T4-G18/limiter`, `main.go` | one token bucket per client | Limit, periodic Cleanup | look-up and token under different locks; a bucket that is forgotten | it behaves like one bucket per client that is never forgotten | `ClientLimiter`, `TokenBucket` |
| Play | `T5-G2/t5` (GuiController, GameDataWriter), its pages | one `Game` object for all requests; CSV files; connections to T4; localStorage of each page | choice of a class, save-data, update-data | overlapping requests; a choice that waits in the shared object for a second request; T4, file system and page updated in separate steps; lost answers; restart; leaked connections | what the page shows is what T4 and the file system hold; retries leave no gap; a game has the class its player chose | `GameSession` over `GameRepository`, `GameChoice` over both |
| Remote compiler | `T7-G31/RemoteCCC` | one Maven project directory shared by all requests | compile-and-codecoverage | overlapping requests in one directory; stale reports; exceptions that leave files behind; tests that never end | a coverage is of the request's own two files | `RemoteCompiler` |
| Accounts | `T23-G1` | tables Students and authenticated_users; cookies; mails | register, login, logout, password reset and change | each handler reads a row, works on a copy and saves it back, without a transaction | an e-mail is one student; the password chosen last is the one that logs in; a token is good once | `Accounts` |
| Level generation, Randoop | `T9-G19/Progetto-SAD-G19-master` | directories of generated tests, shared by all runs | generate until saturation | termination, growth of the coverage, overlapping runs, a killed run | levels grow, and are never generated again; a run leaves nothing for the next | `RandoopLevels` |
| Robot repository | `T4-G18/api/robot` | table robots | create in bulk, find by class, type and difficulty, delete by class | no uniqueness; random choice; retries of T1 | an upload stores each level once | `Catalogue` (all but the delete, which nothing calls) |
| Class catalogue | `T1-G11/applicazione/manvsclass` | MongoDB documents, class files, volumes, the log, one administrator object | uploads with generated or given robots, insert, edit, delete, entry of administrators | a chain of steps that fails anywhere; overlapping requests; ids from a count | a listed class has its file and its robots; the log is in order | `Catalogue` |
| Level generation, EvoSuite | `T8-G21/.../opt_livelli/Prototipo2.0` | the suites, their reports, levels of all classes | generate, select by rank, measure, clear up | fixed names in one directory; what a run leaves behind; boundaries of the selection | levels are of their own class and version, distinct, of growing coverage | `EvoLevels` |
| Measuring server | `T8-G21/.../Serv` | one Maven project, its report, statistics.csv, tests per turn and class | measure (the page of T5 posts each attempt to it) | shared files; an exception ends the process; EvoSuite fails unnoticed; tests that never end | a request alone is given the rows of its own test or nothing; the history is current; requests end unless a test loops | `MeasuringServer` |
| Run and verdict | `T6-G12/T6` (MyController, RunnerHelper) | none | /run, /sendInfo, report | boundary of the comparison; three PUTs that may half fail | | choice in `GameSession`, see 3.2 |
| Pages of T5 other than the editor, queries of T4, search and likes of T1 | GuiController, FileController, `api/*/controller.go`, SearchRepositoryImpl | none, or single inserts | | | | not modelled: reads |
| Gateways | `api_gateway`, `ui_gateway` | none | routing, check of a signature | a token checked and then forwarded | | not modelled: stateless |
| Editor of T6, installers, end-to-end tests, samples, vendored libraries | | | | | | not modelled: not the deployed program's own logic |

Calls: browser → ui_gateway → api_gateway → T5 and T6; T5 → T4, T1, the file
system; the page of T5 → the measuring server (attempts, and the stored tests for
the history); T6 → T7, T4; T1 → T9, T8 (as processes on shared volumes) and T4
(robots); T1 and T5 ask T23 whether a token is valid.

## 2. Modules

| Module | Role |
|---|---|
| `GameRepository` | the tables of T4 and every handler that writes them |
| `GameSession` | extends it: the play of T5, whose calls of T4 are actions of `GameRepository` |
| `GameChoice` | extends that: the choice of a class before a game |
| `TokenBucket` | what the limiter promises |
| `ClientLimiter` | the limiter of T4, shown to implement `TokenBucket` |
| `RemoteCompiler` | the handler of T7 |
| `Accounts` | the handlers of T23 |
| `RandoopLevels` | Main, the loop and the script of T9, and their processes |
| `EvoLevels` | the three scripts of T8 that generate, select and measure levels |
| `Catalogue` | the handlers of T1 that write, and the robots of T4; T9 and T8 are one step each |
| `MeasuringServer` | the node server of T8 and its script |
| `MC…` | instances for TLC: views, symmetry, and the constants that are operators |
| `…_proofs` | theorems, with the inductive invariants they rest on |

Operators named `X_Something` that precede `X`, under the comment *mutated form*,
are wrong versions of `X` as a plausible bug would make it.  No specification uses
them; replacing `X` by one makes TLC report the property named with it in
`PROJECT.json`, which shows that the property depends on the code.

## 3. What is modelled, and how it corresponds to the code

### 3.1 GameRepository (T4)

One variable per table, one per id sequence, `archives` for the files under the
data directory and `reply` for the answer, which the clients read.  Each handler
runs in one gorm transaction and is one action; the table of its cases is that of
its early returns.  What comes from gorm and PostgreSQL rather than from the
handlers, and matters, is modelled where it acts: the upsert of the players draws
a sequence value for known accounts too; a row of `CreateBulk` without an id draws
one from the sequence; primary keys are checked row by row and foreign keys at the
end of the statement; a column with a zero value is not written by an update;
`First` orders by primary key.  Only keys, foreign keys and `closed` are kept as
columns; scores, names and times are written by the same rules and read by no
handler.

Requests enumerate up to two players with repetition, any id up to the bound of
its sequence, 0 for an id that is not sent.  Games are created with the ids the
sequence hands out; rounds and turns may name games and rounds that do not exist.

Code facts that the model makes visible:
- `PUT` and `DELETE` of a turn select by number only (run `repo_update_one`).
- an upload is renamed into place before a metadata row that can never be stored;
  it always answers 500 (invariant `NoMetadata`).
- `PUT` of a row that does not exist answers 200, although
  `postman/schemas/index.yaml` lists a 404 for it: the number of rows the statement
  matched is not looked at.

### 3.2 GameSession (T5 over T4)

`g` is the one `Game` object of the controller; `pc` and `local` are the request
each player has in flight; `browser` is the localStorage of a page; `csv` are the
files under StudentLogin.  Requests run on different threads and nothing is
locked, so that each call of T4, each CSV file, and each access to `g` that
another thread can see is a step.  Several fields of `g` that are read one after
the other by a single operation are read in one step: the two fields that a save
writes, id and round, are written in two.

A call of T4 may fail before or after T4 has acted; a CSV file may not be
written; an answer may be lost; T5 may be restarted (its memory is lost and its
connections are closed; the tables, the files and the pages stay).  A response
of `POST /turns` is not consumed, so that its connection is never returned to the
pool (`leaked`), and a call waits without a timeout for one that is free.

Two players act at once, in every order.  `owner` is history: the player of the
game in `g`, as long as no request of anybody else has been handled since its save
began.  What a page shows is promised to the owner only; that the three inserts of
a save belong together is promised to all.

The outcome of an attempt is a choice: after it, a page sends update-data, or
forgets its game, or does nothing.  This is wider than what T6 does today: `/run`
reads a parameter the page does not send (`MyController.java:189`), and would
then read a Boolean as a string (`RunnerHelper.java:70`), so that every attempt
is answered with an error.  The model is that of T5 with any T6.  Two tabs of one
page are not modelled: they share the localStorage of one player.  A CSV file is
its path; its rows are not kept.

`GameChoice` adds the step before: `Choose` stores the class in `g` and opens the
report, `Save` sends the save from there, `GoBack` leaves it, and the second insert
of the save stores the round with the class that is then in `g` (`tested`).  A
class is identified with the player who chose it, which is what the property needs
to tell apart; robot and level are set with it and are not kept.  The three setters
of `receiveGameVariables` are one step.  `overtaken` is history: the players at
their report whose choice has left `g`.  The back button of the browser is not
modelled.

When the CSV file of a save cannot be written, `g` is already on the new game
while the page is not; the properties therefore speak of a page that agrees with
`g` on the game (`InStep`).

### 3.3 ClientLimiter and TokenBucket (T4)

`Lookup` is `getOrAdd`, under the mutex of the map; `Allow` is the call of the
limiter it returned, outside that mutex; `Cleanup` removes old entries; `Tick` is
time.  The clock is read before the limiter's own lock, but a goroutine of the
model reads and decides in one step: two goroutines of one client that swap
between the two would see the clock go back by less than a tick.  `MaxStall`
bounds how long a goroutine may be held up between its two locks, and
`TimeoutAssumption` says that a bucket fills within the time-out less that stall;
the values of `main.go` (burst 4, two a second, three minutes) satisfy it with a
stall of almost three minutes.

### 3.4 RemoteCompiler (T7)

A request is a chain of steps: two files saved, the three phases of
`mvn clean compile test`, the report read, the files deleted.  A test passes, fails,
holds no test, does not compile, or never ends (`Hang`): neither Surefire nor the wait
for Maven has a time limit, and its standard error is not read, so that a test that
fills it blocks as well as one that loops.  `testFiles` says
whose code is in a test file, `target` and `report` what the build directory
holds.  The phases of two Mavens interleave, and a phase that finds another Maven
at work may also fail (`Collide`), which stands for everything two processes in
one directory do to each other short of mixing the content of a single file.
An exception leaves the handler before it deletes the files.

### 3.5 Accounts (T23)

A handler that writes is three steps: its checks up to `findByEmail`, the save,
the answer (with the mail a reset sends before it).  A request that a check
refuses changes nothing and is no step.  `SaveRow` writes the whole row that was
read, and nothing when the copy was not changed.  With two rows of one e-mail
`findByEmail` throws, and the request ends with an error.  An e-mail stands for
all spellings that the database takes for equal.  Tokens carry times in seconds,
so that two of one student in one tick are equal.  Captcha, validation of names
and the rules for passwords are part of the checks and abstracted: the model takes
every password for valid.  (The code does not: `register` asks for at least 8
characters and a change accepts 3.)  `POST /logout` is modelled although no page
calls it; `isJwtValid` checks signature and time only, and never the table that
logout edits.

The variables `met`, `chosen`, `resets` and `changes` are history: they record
which kinds of requests for an e-mail ran together, so that a property can say
exactly which overlap breaks it.

### 3.6 RandoopLevels (T9, started by T1)

Every upload starts a process (`Start`), which walks over the classes
(`Skip`, `Begin`, `Misnamed`, `EndOfList`) and, for each, goes round the loop of
`file_testing`: the script is started and not waited for (`Launch`), its archive
is polled for (`Poll`), the report is read (`Read`), a better one becomes a level
in two steps (`MakeLevel`, `CopyLevel`), and at the end everything is cleared
(`Clear`).  `dirs` are the directories of the iterations, `compiled` the files in
`./classes`; both are shared by all processes.  `robot.sh` is one step of its own:
whatever fails in it, it ends by making the archive.  `tested` are the iterations
Randoop wrote tests for: it may write none, since a test it tries may end its process,
and a report without tests is not copied into a level (`CopyLevel`).  Such a level has
no report, or that of an earlier iteration.

A coverage is the set of blocks executed, over the set of classes instrumented
with it: of these only the class under test is executed, so that a class left in
`./classes` dilutes the figure (classes are taken to be of equal size).  The
blocks Randoop reaches are arbitrary.  `LineCoverage` reads two characters of the
figure: 100 is read as 10.  T1 reads the same figure correctly, so that the level
shows 100 once it is stored.

A process, or the whole container, may be killed at any step; a process that is
killed leaves its script at work.  A script that is killed with its container is
taken to have left no directory: what it really leaves always coexists with a
class in `./classes`, so that the next generation counts as disturbed either way.
`Recover` is the clean-up that `T9-G19/README.md:19` asks of the administrator;
that text does not mention `./classes`, and neither does the action.

`disturbed` is history: the classes that were generated while something of another
run was there.  The properties hold for all others.  `testless` is history too: the
classes one of whose levels was made by a run that wrote no tests.  Their levels may
have gaps, and the last may be less than the best run; they never get worse.

### 3.7 EvoLevels (T8, started by T1)

Each upload runs `robot_generazione.sh` in one directory.  `Generate` and `Move`
make the suites one by one and put each aside with its report (`slots`); `Select`
is `generazione_livelli.java`; `Level` is one turn of the loop of
`misurazione_livelli.sh`, `Clear` its end.  A directory of tests says for each
class which version its test is of, a version being the run that brought it, so
that what one run leaves for another is visible.  Making a suite and measuring it
is one step.  A fault is a run killed at any step, a second run that starts while
one is at work, or a suite that EvoSuite does not make (then whatever is left of an
earlier suite is measured).  What a killed run leaves in `pom.xml` is part of the
disturbance that a fault stands for; `delete.sh`, run by hand, is not modelled.

`alone`, `fair` and `calm` are history: a run is fair if it meets no other and the
two before it came to their end.  One is not enough, since the clean-up forgets
`evosuite-tests`, which the next run puts aside with its first suite.

### 3.8 Catalogue (T1, the robots of T4)

A request is a chain of steps, one per access that another request can see: save
the file, put it into the volume of T9, start T9, list its levels and post them one
by one, run T8, list and post its levels, number the log entry, save it, save the
document.  An upload with tests unpacks two archives instead, and nothing looks at what
they hold (`Entries`): any levels, or none, as a file that is no archive, or a stray
entry (level 0), which makes the loop over the results throw.  A level of Randoop may
have no report, which makes it throw too.  Each step may throw, which ends the request
and undoes nothing.  T4 may refuse a robot, and nobody looks.
`admin` is the one `userAdmin` of the controller; T1 may be restarted.

`met` is history: the requests in flight together with each, and `refused` those of
which T4 refused a robot.  They let a property say what excuses what.  Versions of a
class are the requests that uploaded them, and the tests of a level carry the version
they were generated for: those of Randoop stay when the class is uploaded again
(`RandoopLevels`: a class with a first level is skipped), those of EvoSuite are made
anew.

T9's process generates for every class without a first level, or ends early; its
inside is `RandoopLevels`, and that of T8 is `EvoLevels`.  An upload with tests is
sent only while no other request is in flight when it would be the second: the
renaming of two archives at once adds nothing to what an overlap with a plain
upload shows.  Contents, descriptions, likes and reports of classes are left out.

### 3.9 MeasuringServer (T8, called by the page of T5)

A request is the write of the test, then the commands of
`robot_misurazione_utente.sh` one by one, then the call-back of `exec`.  All share
the Maven project (`copies` of the classes, `tests`, `target`), the report
directory and the csv.  `cp -n` never replaces a class, so that after a new upload
the server goes on with its old copy; `mvn install` compiles all tests together,
so that one test that does not compile with the copy leaves nobody a class file.  It
also runs all of them: one that loops leaves the script at work for ever (`stuck`), now
and in every later request until it is replaced, and one that floods the output makes
`exec` kill the script.  EvoSuite may fail for any criterion, or for all: the script
checks nothing, and runs a jar in a directory where nothing puts it.  `rows` is history:
how many rows it wrote for each request.
A test that cannot be written makes the handler call a method the response does
not have, which ends the process; the container may be started again, and its files
stay.  The test is taken from the project when it is copied into the volume under
its turn, by when another request may have replaced it.

Two writes into one file that mix their content are not modelled.  The volume starts
with version 1 of every class.

## 4. Runs

| Run | Instance | Checks | Shows |
|---|---|---|---|
| `repo_players` | 2 accounts, 2 games, 1 round, 1 turn | `NewGamesAreFresh` | games with two players, repeated and known accounts; deleted games never lend their players to new ones |
| `repo_turns` | 1 account, 1 game, 2 rounds, 2 turns | `TurnIntegrity`, `ErrorsChangeNoTable`, `TurnsLeaveOnRequest` | turns moved between rounds, conflicts, deletes, uploads |
| `repo_update_one` | 1 account, 2 rounds, 1 turn | `UpdateTouchesOneTurn` (violated) | a PUT closes the turns with its number in every round |
| `session` | 2 players, 2 games, 2 rounds, 4 turns, 2 connections, every fault, 2 restarts | `SessionCoherent`, `AtMostOneAhead`, `SavesAreCoherent`, `ChoiceIsKept`, `AnsweredOrExhausted` | what an undisturbed page shows is stored; retries leave no gap; the inserts of a save belong together; a choice that nobody overtook is stored; a request is answered or finds the pool used up |
| `session_overlap` | 2 players, no fault | `CsvBackedByDatabase` (violated) | two overlapping saves: a CSV file under the name of the other player |
| `limiter` | 1 client, 2 goroutines, burst 2, rate 1, 6 ticks, time-out 2 | `RateIsKept`, `NeverForgets` | the limiter refines one bucket that is never forgotten |
| `compiler` | 2 requests, 2 classes, 5 kinds of tests | `TypeOK`, `FilesHaveOwners`, `CoverageIsFresh`, `AloneIsJudgedFairly`, `RequestsAreAnswered` | no stale report, no forgotten file, fair judgement for a request alone, every request answered unless an exception or a test that never ends prevents it |
| `accounts` | 2 e-mails, 2 passwords, 3 browsers, 5 requests, 3 instants | `RegistersOnce`, `ChosenPasswordStays`, `TokensChangeOnce`, `LoginsKnowThePassword` | which overlaps break a promise, and that no other order does |
| `levels` | 2 runs of T9, 2 classes, 2 blocks, 2 iterations, as long as a class is undisturbed | `TypeOK`, `LevelsGrow`, `BestRunIsALevel`, `AwaitedArchiveComes`, `NothingIsLeft`, `LevelsStay` | levels of a class generated undisturbed never get worse and stay, whatever is killed; they grow without a gap when their runs wrote tests |
| `evo_levels` | 4 runs of T8, 2 classes, 3 suites, 0 or 2 levels, 2 coverages, 1 fault | `TypeOK`, `LevelsAreItsOwn`, `LevelsAreRanked` | a run after two complete ones makes levels of its own, in the order of their coverage |
| `catalogue` | an upload and a second request of any kind, 2 names, 3 administrators, 2 levels, 4 pairs of archives, 1 entry, 1 fault | `TypeOK`, `ListedWithItsRobots`, `RobotsOfOneUpload`, `LogIsOrdered` | a listed class has the robots generated for it or all that its archives held, robots are stored once, the log is in order |
| `measuring` | 2 requests that may overlap and a third after them, 2 classes, 2 turns, 2 criteria, tests that end, loop or flood, failed writes, 1 restart | `TypeOK`, `HistoryIsCurrent`, `AloneIsServed`, `OnlyWritesKill`, `EveryRequestEnds` | a request alone is given the rows EvoSuite wrote for its own test and no other, or no answer, whatever it finds; the history is current; requests end unless their script runs a test that loops |

The violated properties quote a document or a comment of the repository; each is a
finding in `PROJECT.json`.

Bounds.  Ids come from sequences that only grow, so that a bound on them bounds a
run; two of each is what it takes to confuse one with another, and what a delete
and a new insert need (`repo_players`: game 1 deleted, game 2 created).
`repo_turns` has two rounds and two numbers, the least at which a PUT may move
two turns onto one key.  In `session` two games of two players overlap in every
way, or are two games of one, abandoned, lost or begun again; two restarts give a
play before, between and after.  Two processes in one directory
are what every collision of T7 and T9 needs.  Four requests are needed to spend a
token twice (register, reset, change, change), and three browsers to overlap two
of them with a third.  The limiter has 6 ticks, over twice the time-out.
`MaxIter`, `MaxSat`, `MaxLevel` are 5, 10 and 10 in `RandoopSubject` (so that
saturation never ends the loop before the iterations do); the run takes 2 of each:
one merge, one saturation, two levels.  The state
constraint `SomeUndisturbed` of `MCRandoopLevels` stops where every class has been
disturbed: nothing is promised of any of them from there on, but for the types and the
counters, which are proved.  `evo_levels` has one disturbed run, two
complete ones and one that is judged; three suites, so that two levels are picked
by a rank that leaves one out.  The other ranks, those of 13 suites, are settled
by proof (`RanksOfThirteen`).  In `catalogue` two requests are what every overlap
and every repetition needs, and two levels what a chain that breaks off between two
posts needs; one fault breaks one chain, and the second request meets what it left.
The archives of an upload with tests (`MCMenu`) are both full, hold no level or no first
level for one robot, or have a stray entry.
`measuring` lets two requests overlap and a third find the result, which is the
shortest way from a disturbance to a request that is alone again.

Views and symmetry.  No guard of `GameRepository` reads the last reply, so that it
is left out of the fingerprint, except for its status where errors are told apart;
action properties are evaluated on every step nevertheless.  The view of
`MCGameSession` leaves out what neither a step nor a property reads any more: the
reply after the step that receives it, local values of a request that are over or
not set yet, the ids of a game that was won, and a choice that is stored or lost.
Symmetry is
used over accounts, goroutines, requests, browsers, e-mails, passwords, processes
and classes, which no definition tells apart, and never in a run with a liveness
property.

Deadlock is not checked: ids, requests, processes and time are bounded, and a
behaviour that has used them up stops.  What must go on is stated as liveness
(`AnsweredOrExhausted`, `RequestsAreAnswered`, `EveryRequestEnds`).

Fairness.  Weak fairness of `Handle(r)` and `Handle(p)`: a servlet container runs the
thread of every request it has accepted, node its call-backs, and a call of T4 returns
or fails.  Maven, EvoSuite and the commands of a script end unless a test they run
does not: such a test is a step of its own, into `hung` or `stuck`, which no step
leaves, and the two properties except what runs one.  Nothing is assumed of the
browser (it may never send another request), of faults, of restarts or of the order of
threads.  The other specifications assume no fairness: their properties are about what
never happens.

## 5. Proofs

All proofs are for arbitrary values of the constants, under the assumptions named
in the modules, and are checked by TLAPS to the last leaf.

**`Game_proofs`, the repository.** `Invariance` proves `IInv`: types, empty metadata,
keys behind their sequences, registered players and the integrity of turns.  They
need each other: a turn has its player because `playerId` never forgets an
account (`RegisteredPlayers`), two accounts never share a row because the sequence
is ahead of every id (`SequencesAhead`), a delete of a round leaves the turns
intact because no metadata row can refuse it (`NoMetadata`).  From it follow
`TypeCorrectness`, `TurnsKeepIntegrity`, `PlayersAreRegistered`,
`MetadataStaysEmpty`, `KeysBehindSequences`, and the action properties
`GamesStartFresh`, `ErrorsKeepTables` and `TurnsLeaveAsAsked`.
The hard case is `CreateBulk`, whose
rows come from two lists of different lengths: a row without a player is refused
by its foreign key because no sequence hands out 0.

**`Game_proofs`, the play.** `ImplementsRepository` proves `SessionSpec => Spec`: each
step of the play is a handler of `GameRepository` or changes nothing there, so that
all that is proved of the repository holds while games are played.  For that the
invariant `SInv` keeps the ids in pages, requests and `g` within the bounds
(`Holds`).  It adds what a save has stored so far and what of it belongs together
(`Request`), from which `SavesStayCoherent` follows under any interleaving, and
what holds for the owner of `g` (`Owned`), from which `PagesAreStored` and
`NoGapInTurns`.  The hard case is an insert whose answer is lost: T4 is one turn
ahead, the page repeats the number, and the key of the table refuses it.
`ChoicesAreKept` follows a choice from the report to the round stored under it
(`ChoiceInv`, inductive relative to `SInv`); `ChoiceRefinesSession` carries the
theorems above over to the play with choices.

**`ClientLimiter_proofs`.** The invariant adds that two clients never share a
limiter, that a pending request is younger than `MaxStall`, that the last token was
taken no later than `MaxStall` after the client was last seen, and that tokens and
admissions add up to the burst and the rate.  From the first three and
`TimeoutAssumption` an entry that is removed is full (`ForgottenIsFull`), which is
why a new limiter makes no difference.  `ImplementsTokenBucket` proves the
refinement `Spec => Bucket!BucketSpec`; `LimiterIsCurrent` and `RateBound` the two
safety properties.

**`RemoteCompiler_proofs`.** For each step of a handler the invariant says what the
directory holds: in general only that the report is not older than the handler's own
`clean` (enough for `NoStaleCoverage`), and for a request that nothing disturbed all
of it (`AloneIsFair`; a test that loops is never judged).  `FilesHaveOwners` is
inductive with the types alone (`NoFileIsForgotten`).

**`Accounts_proofs`.** The invariant says what a handler may still rely on between
its read and its write, as long as it met no request of the kind that breaks it:
the e-mail of a registration is still free, the password a reset read is still the
student's, a token that was accepted has changed nothing yet.  From it follow
`OneStudentPerEmail`, `PasswordsStay`, `TokensAreSpent` and `LoginsAreEarned`.

**`MeasuringServer_proofs`.** The invariant follows a request that is alone through
its script: after each command, what the project, the report and the csv hold of it,
row by row of what EvoSuite wrote, which may be none (`AloneServed`).  It orders
requests by the time of their writes, so that what the history shows is never older
than a request alone (`HistoryStaysCurrent`), and shows that the csv, once there,
stays, so that no call-back throws any more (`OnlyFailedWritesKill`).

**`Catalogue_proofs`.** `TypeCorrectness` bounds what the chain stores by what was
sent.  `LogStaysOrdered` rests on what an entry was numbered by: those that did not
overlap it were in the log when it counted.  `RobotsStoredOnce` follows each entry of
a listing to its row in T4 (`RInv`: what is still to be stored is not stored, and no
version is of a request that was not sent).  `ListedClassesComplete` follows the first
upload of a class through its chain (`PInv`): no other upload of the name can be in
flight with it or have been before (`FirstIsAlone`, `FirstFindsNothing`), so that it
finds the directories as it left them, and what is due of either robot (`Due`: the
first level, or all that its archive held) is in T4 or still in its loop from the
listing on (`Progress`).  Each of the three invariants is inductive relative to those
before it.

**`EvoLevels_proofs`.** The invariant says what is in the directory after none, one
and two complete runs (`Quiet`), and while a run is at work alone (`InWork`): this is
where it shows that two are needed.  `OwnLevels` follows.  `RankedLevels` follows
from the order of the suites and from ranks that grow (`RanksGrow`, an assumption on
the number of suites that `RanksOfThirteen` proves for the 13 of the scripts and up
to 11 levels).

**`RandoopLevels_proofs`.** `LevelsGrow` is far from inductive: that the next level
covers more than the last follows only from everything a process that is alone can
rely on.  The invariant has two parts.  Of every process, whatever the others do to
its files, it bounds the counters of the loop (`LoopBounds`: `sat` never passes
`iter`, and a level is only begun below `MaxLevel`) and says which directories of
levels are there (`NoGap`, `LevelsBegun`); from this follow `TypeCorrectness` and
`LevelsWithoutGap`.  Of a process that is alone (`AloneInv`) it says that no other
script is at work and `./classes` holds the one class (`AloneAtWork`); that every
iteration so far was measured, over this class only, and covers the blocks of the one
before it, because `robot.sh` merges them (`AloneFiles`); that the levels filled are
reports of iterations with tests, the last of them, while no run was without, the one
the next is compared with (`AloneLevels`); and that no iteration looked at was better
(`AloneBest`).  A process that starts next to another ends being alone for both, so
that a step of another process leaves nothing to prove (`OthersIdle`).  The crux is
`ReadAsMore`: although 100 is read as 10, what is read as more is more, since after
100 the merged figure can only be 100 again; `NotReadAsMore` is its counterpart, and
shows why `BestRunIsALevel` has to leave out a whole coverage.  What a run without
tests spoils is followed by `MadeLevel`: the figure the next run is compared with is
that of an iteration whose report may be nowhere, but no iteration with tests up to it
covers more than the level.  `Tidy` strengthens `NothingIsLeft` with what a process at
work leaves outside its class.  The figures are divided by the number of classes of
the report, hence the assumption that `Classes` is finite.

**Proved but not in a run.** The types of `GameRepository`, `ClientLimiter`,
`Accounts` and `GameSession`, `SequencesAhead`, `RegisteredPlayers`, `NoMetadata`,
`HoldsCurrentLimiter`, and the directories of levels without a gap
(`LevelsWithoutGap`) hold by theorem for all constants; no run repeats them.

**Model-checked only.** Liveness (`AnsweredOrExhausted`, `RequestsAreAnswered`,
`EveryRequestEnds`), which needs fairness and `ENABLED`.  The safety half of each is
proved: `StepsAreNumbered` of `Game_proofs`, `RemoteCompiler_proofs` and
`MeasuringServer_proofs` counts the steps a request has left, shows that each of its
steps is one of them and that no step of another, no restart and no upload adds to
them.  What is left to TLC is that the next step can be taken until the request has
ended (for T5, as long as the pool has a connection).  Every other property of a
passing run is also a theorem.

## 6. Not modelled, and why

- Queries, pages, gateways, metrics, installers: no state, or no interaction.
- T6: it writes nothing as it stands (3.2).
- `DELETE /robots` of T4: nothing calls it.
- `delete.sh` of T8 and the other clean-ups made by hand, except `Recover` of T9.
- Content: Java code, reports, mails and pages are the members of small sets; what
  gorm, PostgreSQL, JPA, Maven, EMMA and `rate.Limiter` do is modelled where the
  code relies on it, and nothing is said about them otherwise.

## 7. Remarks on the code

Facts met while modelling that are no finding of a run:
- after two saved turns the client of T5 has no connection left, and the next call
  waits for ever (`GameDataWriter.java:119` and 169): `AnsweredOrExhausted` holds
  only because of its second half.
- an exception in T7 leaves the two files in the project: they are compiled with
  every later class until a request for the same class deletes them.
- two registrations that overlap store an e-mail twice, after which no request for
  it succeeds.
- a class that is misnamed in the volume of T9 ends every later generation at the
  same place, for the classes that follow it.
- a choice of class waits in the shared object for the second request of its page:
  another choice in between makes the game be stored under the wrong class
  (`GuiController.java:202`); `ChoiceIsKept` says that nothing else does.  In the
  page itself, clicking another class keeps the level chosen for the first
  (`main.js:39-96`).
- every upload of an archive to T4 is renamed into place and then answered with 500.
- of two overlapping requests to T7 for one class each may get the other's coverage.
- a test that the measuring server cannot write ends its process
  (`prova_esecuzione_parametri4.js:36`); a class uploaded again is never copied
  there, so that its tests are measured with the old one.
- a second upload with tests renames a level of the first to an archive, after which
  every upload of that class throws; a plain second upload keeps the Randoop levels
  of the old version, while EvoSuite's are of the new one.  T4 then holds a level
  twice and answers the oldest row for EvoSuite and any for Randoop.
- overlapping operations of administrators take the same number in the log.
- a run of T8 that is asked for no level throws at a division by zero
  (`generazione_livelli.java:70`) and leaves its directory full.  A class uploaded
  again gets new scores for the tests of the old levels: `mv` onto a directory that
  is not empty fails.  `$NOME_CLASS` (`misurazione_livelli.sh:51`) is never set, so
  that the whole directory of tests is moved.  Levels are ranked by overall
  coverage, while T1 stores the line figure.  `generazione_livelli.java:114-124`
  reads all of one output before the other, so that a script that fills the second
  would block both.
- a run of Randoop that writes no tests but raises the coverage makes a level directory
  without a report (`RandoopSubject.java:101-103`).  If it was the first level, the
  class is skipped ever after, and every upload of it throws when T1 reads the report.
- T1 lists a class whose archives hold no first level, or no level at all, although
  nobody can play it: what an archive holds is not looked at (`RobotUtil.java:50-80`).
- a test that never ends is never answered by T7 (`App.java:135-144`), nor by the
  measuring server, where it stays in the project and hangs every later request
  (`robot_misurazione_utente.sh:67`).  The EvoSuite jar the script runs is not in the
  directory it expects, and a request EvoSuite writes no row for gets no answer.
- `RunRandoop.java:45` never reads the output of the script, so that a script that
  fills the pipe would never make the archive its process polls for.
- an operation is logged under the name of the administrator who entered last, whoever
  asked for it (`HomeController.java:61`).
- a class whose first level exists is never completed after a crash, and one whose
  generation reached 100 % after a level of 10 % or more keeps the lower level.

## 8. Plan

What is left, in the order of what it would add:
1. The rows of the CSV files of T5 (scores and opponents), once `/run` of T6 gives an
   answer other than an error.
2. The rounding of the percentages of T6 and T7 and the comparison with a robot, over
   bounded counts: today no state depends on them.

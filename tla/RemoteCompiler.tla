--------------------------- MODULE RemoteCompiler --------------------------
(***************************************************************************)
(* The remote compiler, T7 (RemoteCCC/App.java).  A request brings a class *)
(* and a test of it; both are saved in the one Maven project of the        *)
(* service, "mvn clean compile test" is run there, the JaCoCo report is    *)
(* read back and the two files are deleted.  Nothing keeps the requests    *)
(* apart: files are named after the class, so that two requests share the  *)
(* build directory and, for the same class, the files too.                 *)
(***************************************************************************)
EXTENDS Naturals

CONSTANTS
    Requests,  \* requests, each a thread of the service; every one is sent once
    Classes,   \* classes under test; the test of class C is TestC.java
    None       \* no file, no report, no request

\* A test passes, fails, has nothing Surefire would run (its class is not named
\* Test...), does not compile, or never ends: it loops, or writes more to standard
\* error than the pipe holds, which nobody reads.
Tests == {"passes", "fails", "empty", "broken", "loops"}

\* What a build can have compiled and measured.
TestMap == [Classes -> Requests \cup {None}]
Targets == [tests : TestMap, classes : SUBSET Classes]
Reports == [built : Targets, during : SUBSET Requests]

ASSUME NoneAssumption == None \notin Requests /\ None \notin Reports

VARIABLES
    testFiles,   \* class -> the request whose code is in TestC.java, or None
    classFiles,  \* the classes C with a file C.java
    target,      \* what the build directory holds compiled: [tests, classes]
    report,      \* jacoco.xml in the build directory: what was compiled, and the
                 \* requests handled when it was written; or None
    req,         \* what each request asks and where its handler is
    alone        \* history: the requests nothing has disturbed

vars == <<testFiles, classFiles, target, report, req, alone>>

NoTests == [c \in Classes |-> None]
EmptyTarget == [tests |-> NoTests, classes |-> {}]

Busy(r) == req[r].at \notin {"unsent", "answered", "failed"}
BusyRequests == {r \in Requests : Busy(r)}
ProjectIsEmpty == testFiles = NoTests /\ classFiles = {}

Goto(r, step) == req' = [req EXCEPT ![r].at = step]
Answer(r, answer) == req' = [req EXCEPT ![r].at = "delete", ![r].answer = answer]
Error == [error |-> TRUE, coverage |-> None]

\* The kinds of the tests in a map from classes to requests.
Kinds(tests) == {req[tests[c]].test : c \in {d \in Classes : tests[d] # None}}

-----------------------------------------------------------------------------
Send(r, class, test) ==
    /\ req[r].at = "unsent"
    /\ req' = [req EXCEPT ![r] = [@ EXCEPT !.at = "saveTest", !.class = class, !.test = test]]
    /\ alone' = IF BusyRequests = {} /\ ProjectIsEmpty
                THEN alone \cup {r} ELSE alone \ BusyRequests
    /\ UNCHANGED <<testFiles, classFiles, target, report>>

\* saveCodeToFile, for the test and for the class.
SaveTest(r) ==
    /\ req[r].at = "saveTest"
    /\ testFiles' = [testFiles EXCEPT ![req[r].class] = r]
    /\ Goto(r, "saveClass")
    /\ UNCHANGED <<classFiles, target, report, alone>>

SaveClass(r) ==
    /\ req[r].at = "saveClass"
    /\ classFiles' = classFiles \cup {req[r].class}
    /\ Goto(r, "clean")
    /\ UNCHANGED <<testFiles, target, report, alone>>

\* A file cannot be written or Maven not be started: the exception leaves the
\* handler, which answers 500 and deletes nothing.
Throw(r) ==
    /\ req[r].at \in {"saveTest", "saveClass", "clean"}
    /\ Goto(r, "failed")
    /\ UNCHANGED <<testFiles, classFiles, target, report, alone>>

\* Mutated form of Clean: the reports of earlier builds are kept.
Clean_KeepsReport(r) ==
    /\ req[r].at = "clean"
    /\ target' = EmptyTarget
    /\ Goto(r, "compile")
    /\ UNCHANGED <<testFiles, classFiles, report, alone>>

\* mvn clean: the build directory is removed, with the report in it.
Clean(r) ==
    /\ req[r].at = "clean"
    /\ target' = EmptyTarget
    /\ report' = None
    /\ Goto(r, "compile")
    /\ UNCHANGED <<testFiles, classFiles, alone>>

\* The sources compile if each of them does and every test has its class.
Compiles ==
    /\ "broken" \notin Kinds(testFiles)
    /\ \A c \in Classes : testFiles[c] # None => c \in classFiles

\* mvn compile: every source in the project, whoever it is of.
Compile(r) ==
    /\ req[r].at = "compile"
    /\ IF Compiles
       THEN /\ target' = [tests |-> testFiles, classes |-> classFiles]
            /\ Goto(r, "test")
       ELSE Answer(r, Error) /\ UNCHANGED target
    /\ UNCHANGED <<testFiles, classFiles, report, alone>>

\* Mutated form of Test: test failures are ignored.
Test_IgnoresFailures(r) ==
    /\ req[r].at = "test"
    /\ "loops" \notin Kinds(target.tests)
    /\ report' = IF Kinds(target.tests) \cap {"passes", "fails"} # {}
                 THEN [built |-> target, during |-> BusyRequests] ELSE report
    /\ Goto(r, "read")
    /\ UNCHANGED <<testFiles, classFiles, target, alone>>

\* mvn test: every compiled test is run; a failure ends the build before the
\* report, and without a test that ran there is none to write.
Test(r) ==
    /\ req[r].at = "test"
    /\ "loops" \notin Kinds(target.tests)
    /\ IF "fails" \in Kinds(target.tests)
       THEN Answer(r, Error) /\ UNCHANGED report
       ELSE /\ report' = IF "passes" \in Kinds(target.tests)
                         THEN [built |-> target, during |-> BusyRequests] ELSE report
            /\ Goto(r, "read")
    /\ UNCHANGED <<testFiles, classFiles, target, alone>>

\* A compiled test never ends, nor does Maven: neither Surefire nor waitFor is given
\* a time limit.
Hang(r) ==
    /\ req[r].at = "test"
    /\ "loops" \in Kinds(target.tests)
    /\ Goto(r, "hung")
    /\ UNCHANGED <<testFiles, classFiles, target, report, alone>>

\* A step of Maven fails because another Maven works in the same directory.
Collide(r) ==
    /\ req[r].at \in {"clean", "compile", "test"}
    /\ \E other \in Requests \ {r} : req[other].at \in {"clean", "compile", "test", "hung"}
    /\ Answer(r, Error)
    /\ UNCHANGED <<testFiles, classFiles, target, report, alone>>

\* Mutated form of ReadReport: the handler waits for the report.
ReadReport_Waits(r) ==
    /\ req[r].at = "read"
    /\ report # None
    /\ Answer(r, [error |-> FALSE, coverage |-> report])
    /\ UNCHANGED <<testFiles, classFiles, target, report, alone>>

\* Mutated form of ReadReport: a missing report is sent as null.
ReadReport_Null(r) ==
    /\ req[r].at = "read"
    /\ Answer(r, [error |-> FALSE, coverage |-> report])
    /\ UNCHANGED <<testFiles, classFiles, target, report, alone>>

\* readFileToString: without a report the exception leaves the handler, before
\* the files are deleted.
ReadReport(r) ==
    /\ req[r].at = "read"
    /\ IF report = None
       THEN Goto(r, "failed")
       ELSE Answer(r, [error |-> FALSE, coverage |-> report])
    /\ UNCHANGED <<testFiles, classFiles, target, report, alone>>

\* Mutated form of Delete: only a successful build is tidied up.
Delete_OnSuccess(r) ==
    /\ req[r].at = "delete"
    /\ IF req[r].answer.error THEN UNCHANGED <<testFiles, classFiles>>
       ELSE /\ testFiles' = [testFiles EXCEPT ![req[r].class] = None]
            /\ classFiles' = classFiles \ {req[r].class}
    /\ Goto(r, "answered")
    /\ UNCHANGED <<target, report, alone>>

\* deleteFile, by name, and the answer.
Delete(r) ==
    /\ req[r].at = "delete"
    /\ testFiles' = [testFiles EXCEPT ![req[r].class] = None]
    /\ classFiles' = classFiles \ {req[r].class}
    /\ Goto(r, "answered")
    /\ UNCHANGED <<target, report, alone>>

Handle(r) ==
    \/ SaveTest(r) \/ SaveClass(r) \/ Throw(r)
    \/ Clean(r) \/ Compile(r) \/ Test(r) \/ Hang(r) \/ Collide(r)
    \/ ReadReport(r) \/ Delete(r)

Init ==
    /\ testFiles = NoTests /\ classFiles = {}
    /\ target = EmptyTarget /\ report = None
    /\ \E class \in Classes, test \in Tests :
          req = [r \in Requests |-> [at |-> "unsent", class |-> class, test |-> test,
                                     answer |-> Error]]
    /\ alone = {}

Next == \E r \in Requests :
            Handle(r) \/ \E class \in Classes, test \in Tests : Send(r, class, test)

Spec == Init /\ [][Next]_vars

\* Tomcat runs every handler on a thread of its own, and every step of Maven ends
\* but the test of a build with a test that loops: no step leaves "hung".
FairSpec == Spec /\ \A r \in Requests : WF_vars(Handle(r))

-----------------------------------------------------------------------------
(* Properties.                                                             *)

Steps == {"unsent", "saveTest", "saveClass", "clean", "compile", "test", "hung",
          "read", "delete", "answered", "failed"}
Answers == {Error} \cup [error : {FALSE}, coverage : Reports]

\* Every variable keeps its type.
TypeOK ==
    /\ testFiles \in TestMap /\ classFiles \in SUBSET Classes
    /\ target \in Targets /\ report \in Reports \cup {None}
    /\ req \in [Requests -> [at : Steps, class : Classes, test : Tests, answer : Answers]]
    /\ alone \in SUBSET Requests

\* A file is in the project only while a request that brought it is handled, or
\* because an exception kept such a request from deleting it: whatever the order
\* in which requests for one class save and delete, none leaves a file behind.
FilesHaveOwners ==
    \A c \in Classes : (testFiles[c] # None \/ c \in classFiles) =>
        \E r \in Requests : req[r].class = c /\ (Busy(r) \/ req[r].at = "failed")

\* A coverage was measured while the request that got it was handled, by its own
\* build or by one it overlapped; it is never left over from an earlier request.
CoverageIsFresh ==
    \A r \in Requests : (req[r].at \in {"delete", "answered"} /\ ~req[r].answer.error)
        => r \in req[r].answer.coverage.during

Own(r) == [tests |-> [NoTests EXCEPT ![req[r].class] = r], classes |-> {req[r].class}]

\* A request alone in an empty project is judged by its own two files: it gets
\* their coverage if and only if its test passes.
AloneIsJudgedFairly ==
    \A r \in alone : req[r].at \in {"delete", "answered"} =>
        IF req[r].test = "passes"
        THEN ~req[r].answer.error /\ req[r].answer.coverage.built = Own(r)
        ELSE req[r].test \notin {"empty", "loops"} /\ req[r].answer.error

\* Every request is answered, with a coverage or an error, unless its build ran a
\* test that never ends, its own or one another request had in the project.
RequestsAreAnswered ==
    \A r \in Requests : Busy(r) ~>
        \/ req[r].at \in {"answered", "failed"}
        \/ /\ req[r].at = "hung"
           /\ \E q \in Requests : req[q].at # "unsent" /\ req[q].test = "loops"
=============================================================================

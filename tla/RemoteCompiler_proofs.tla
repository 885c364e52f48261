----------------------- MODULE RemoteCompiler_proofs -----------------------
(***************************************************************************)
(* Proofs about RemoteCompiler, for any number of requests and classes.    *)
(* The inductive invariant says, for every step of a handler, what the     *)
(* directory holds for it: in general only that the report is not older    *)
(* than the handler's own "clean", and, for a request nothing disturbed,   *)
(* all of it.                                                              *)
(***************************************************************************)
EXTENDS RemoteCompiler, TLAPS

\* From its own "clean" on, a report was written while the request was handled.
ReportIsFresh ==
    \A r \in Requests : (req[r].at \in {"compile", "test", "read"} /\ report # None)
        => r \in report.during

\* The project holds the two files of r.
HoldsOwn(r) == testFiles = Own(r).tests /\ classFiles = Own(r).classes

\* What the directory holds for a request alone in it.
Undisturbed(r) ==
    /\ \A other \in Requests \ {r} : ~Busy(other)
    /\ req[r].at = "saveTest" => ProjectIsEmpty
    /\ req[r].at = "saveClass" => testFiles = Own(r).tests /\ classFiles = {}
    /\ req[r].at \in {"clean", "compile", "test", "read"} => HoldsOwn(r)
    /\ req[r].at \in {"compile", "test"} => report = None
    /\ req[r].at = "test" => target = Own(r) /\ req[r].test # "broken"
    /\ req[r].at = "read" =>
          \/ req[r].test = "passes" /\ report # None /\ report.built = Own(r)
          \/ req[r].test = "empty" /\ report = None

AloneIsUndisturbed == \A r \in alone : Busy(r) => Undisturbed(r)

AloneWasSent == \A r \in alone : req[r].at # "unsent"

Inv ==
    /\ TypeOK
    /\ FilesHaveOwners
    /\ ReportIsFresh
    /\ CoverageIsFresh
    /\ AloneWasSent
    /\ AloneIsUndisturbed
    /\ AloneIsJudgedFairly

-----------------------------------------------------------------------------
(* Lemmas about the steps.                                                 *)

\* A step of a handler touches no other request, nor what its own request asks.
LEMMA Frame ==
    ASSUME TypeOK, NEW r \in Requests, Handle(r)
    PROVE  /\ alone' = alone
           /\ \A other \in Requests \ {r} : req'[other] = req[other]
           /\ req'[r].class = req[r].class /\ req'[r].test = req[r].test
           /\ Busy(r)
BY DEF TypeOK, Handle, SaveTest, SaveClass, Throw, Clean, Compile, Test, Hang, Collide,
       ReadReport, Delete, Goto, Answer, Busy

\* Sending a request touches nothing but this request and the history.
LEMMA SendFrame ==
    ASSUME TypeOK, NEW r \in Requests, NEW class \in Classes, NEW test \in Tests,
           Send(r, class, test)
    PROVE  /\ testFiles' = testFiles /\ classFiles' = classFiles
           /\ target' = target /\ report' = report
           /\ \A other \in Requests \ {r} : req'[other] = req[other]
           /\ req[r].at = "unsent" /\ req'[r].at = "saveTest"
           /\ alone' = IF BusyRequests = {} /\ ProjectIsEmpty
                       THEN alone \cup {r} ELSE alone \ BusyRequests
BY DEF TypeOK, Send

\* The only test among the own files of a request is its own.
LEMMA OwnKinds ==
    ASSUME TypeOK, NEW r \in Requests
    PROVE  Kinds(Own(r).tests) = {req[r].test}
<1> DEFINE t == Own(r).tests
<1>1. t \in [Classes -> Requests \cup {None}] /\ req[r].class \in Classes
  BY DEF Own, NoTests, TypeOK
<1>2. t[req[r].class] = r
  BY DEF Own, NoTests, TypeOK
<1>3. \A c \in Classes : c # req[r].class => t[c] = None
  BY DEF Own, NoTests, TypeOK
<1>4. {d \in Classes : t[d] # None} = {req[r].class}
  BY <1>1, <1>2, <1>3, NoneAssumption
<1> HIDE DEF t
<1>5. Kinds(t) = {req[r].test}
  BY <1>2, <1>4 DEF Kinds
<1> QED
  BY <1>5 DEF t

\* Own files compile unless the test is broken.
LEMMA OwnCompiles ==
    ASSUME TypeOK, NEW r \in Requests, HoldsOwn(r)
    PROVE  Compiles <=> req[r].test # "broken"
<1>1. Kinds(testFiles) = {req[r].test}
  BY OwnKinds DEF HoldsOwn
<1>2. \A c \in Classes : testFiles[c] # None => c \in classFiles
  BY DEF HoldsOwn, Own, NoTests, TypeOK
<1> QED
  BY <1>1, <1>2 DEF Compiles

-----------------------------------------------------------------------------
(* Every step keeps the types.                                             *)

LEMMA InitInv == Init => Inv
<1> SUFFICES ASSUME Init PROVE Inv
  OBVIOUS
<1>1. PICK class \in Classes, test \in Tests :
         req = [r \in Requests |-> [at |-> "unsent", class |-> class, test |-> test,
                                    answer |-> Error]]
  BY DEF Init
<1>2. TypeOK
  BY <1>1 DEF Init, TypeOK, TestMap, Targets, NoTests, EmptyTarget, Steps, Answers
<1>3. FilesHaveOwners
  BY DEF Init, FilesHaveOwners, NoTests
<1>4. ReportIsFresh /\ CoverageIsFresh
  BY <1>1 DEF ReportIsFresh, CoverageIsFresh
<1>5. AloneWasSent /\ AloneIsUndisturbed /\ AloneIsJudgedFairly
  BY DEF Init, AloneWasSent, AloneIsUndisturbed, AloneIsJudgedFairly
<1> QED
  BY <1>2, <1>3, <1>4, <1>5 DEF Inv

LEMMA TypeStep ==
    ASSUME TypeOK, [Next]_vars
    PROVE  TypeOK'
<1> DEFINE Req == [at : Steps, class : Classes, test : Tests, answer : Answers]
<1>0. CASE UNCHANGED vars
  BY <1>0 DEF vars, TypeOK
<1>1. ASSUME NEW r \in Requests, NEW class \in Classes, NEW test \in Tests,
             Send(r, class, test)
      PROVE  TypeOK'
  <2>1. req' \in [Requests -> Req]
    BY ZenonT(60), <1>1 DEF Send, TypeOK, Steps
  <2>2. alone' \in SUBSET Requests
    BY <1>1 DEF Send, TypeOK
  <2> QED
    BY <1>1, <2>1, <2>2 DEF Send, TypeOK
<1>2. ASSUME NEW r \in Requests, Handle(r)
      PROVE  TypeOK'
  <2> USE DEF TypeOK
  <2>0. alone' \in SUBSET Requests
    BY <1>2, Frame
  <2>a. ASSUME NEW step \in Steps, Goto(r, step)
        PROVE  req' \in [Requests -> Req]
    BY <2>a DEF Goto
  <2>b. ASSUME NEW answer \in Answers, Answer(r, answer)
        PROVE  req' \in [Requests -> Req]
    BY ZenonT(60), <2>b DEF Answer, Steps
  <2>c. Error \in Answers
    BY DEF Answers
  <2>1. CASE SaveTest(r)
    BY <2>1, <2>0, <2>a DEF SaveTest, TestMap, Steps
  <2>2. CASE SaveClass(r)
    BY <2>2, <2>0, <2>a DEF SaveClass, Steps
  <2>3. CASE Throw(r)
    BY <2>3, <2>0, <2>a DEF Throw, Steps
  <2>4. CASE Clean(r)
    BY <2>4, <2>0, <2>a DEF Clean, Steps, EmptyTarget, NoTests, Targets, TestMap
  <2>5. CASE Compile(r)
    <3>1. CASE Compiles
      BY <2>5, <3>1, <2>0, <2>a DEF Compile, Steps, Targets
    <3>2. CASE ~Compiles
      BY <2>5, <3>2, <2>0, <2>b, <2>c DEF Compile
    <3> QED
      BY <3>1, <3>2
  <2>6. CASE Test(r)
    <3>1. [built |-> target, during |-> BusyRequests] \in Reports
      BY DEF Reports, BusyRequests
    <3>2. CASE "fails" \in Kinds(target.tests)
      BY <2>6, <3>2, <2>0, <2>b, <2>c DEF Test
    <3>3. CASE "fails" \notin Kinds(target.tests)
      BY <2>6, <3>1, <3>3, <2>0, <2>a DEF Test, Steps
    <3> QED
      BY <3>2, <3>3
  <2>6a. CASE Hang(r)
    BY <2>6a, <2>0, <2>a DEF Hang, Steps
  <2>7. CASE Collide(r)
    BY <2>7, <2>0, <2>b, <2>c DEF Collide
  <2>8. CASE ReadReport(r)
    <3>1. CASE report = None
      BY <2>8, <3>1, <2>0, <2>a DEF ReadReport, Steps
    <3>2. CASE report # None
      <4>1. [error |-> FALSE, coverage |-> report] \in Answers
        BY <3>2 DEF Answers
      <4> QED
        BY <2>8, <3>2, <4>1, <2>0, <2>b DEF ReadReport
    <3> QED
      BY <3>1, <3>2
  <2>9. CASE Delete(r)
    BY <2>9, <2>0, <2>a DEF Delete, TestMap, Steps
  <2> QED
    BY <1>2, <2>1, <2>2, <2>3, <2>4, <2>5, <2>6, <2>6a, <2>7, <2>8, <2>9 DEF Handle
<1> QED
  BY <1>0, <1>1, <1>2 DEF Next

-----------------------------------------------------------------------------
(* Files and reports, under every interleaving.                            *)

LEMMA OwnersStep ==
    ASSUME TypeOK, FilesHaveOwners, [Next]_vars
    PROVE  FilesHaveOwners'
<1> DEFINE Present(c) == testFiles[c] # None \/ c \in classFiles
           Owner(r, c) == req[r].class = c /\ (Busy(r) \/ req[r].at = "failed")
<1>0. CASE UNCHANGED vars
  BY <1>0 DEF vars, FilesHaveOwners, Busy
<1>1. ASSUME NEW r \in Requests, NEW class \in Classes, NEW test \in Tests,
             Send(r, class, test)
      PROVE  FilesHaveOwners'
  <2>1. \A o \in Requests, c \in Classes : Owner(o, c) => o # r /\ Owner(o, c)'
    BY <1>1, SendFrame DEF Busy
  <2>2. \A c \in Classes : Present(c)' => Present(c)
    BY <1>1, SendFrame
  <2> QED
    BY <2>1, <2>2 DEF FilesHaveOwners
<1>2. ASSUME NEW r \in Requests, Handle(r), ~Delete(r)
      PROVE  FilesHaveOwners'
  <2>1. \A o \in Requests \ {r}, c \in Classes : Owner(o, c) => Owner(o, c)'
    BY <1>2, Frame DEF Busy
  <2>2. Owner(r, req[r].class)'
    BY SMTT(60), <1>2, Frame DEF Handle, SaveTest, SaveClass, Throw, Clean, Compile, Test, Hang,
                       Collide, ReadReport, Goto, Answer, Busy, TypeOK
  <2>3. \A c \in Classes : c # req[r].class /\ Present(c)' => Present(c)
    BY <1>2 DEF Handle, SaveTest, SaveClass, Throw, Clean, Compile, Test, Hang, Collide,
                ReadReport, TypeOK, TestMap
  <2>4. \A c \in Classes : Owner(r, c) => c = req[r].class
    OBVIOUS
  <2> QED
    BY <2>1, <2>2, <2>3, <2>4, Frame, <1>2 DEF FilesHaveOwners
<1>3. ASSUME NEW r \in Requests, Handle(r), Delete(r)
      PROVE  FilesHaveOwners'
  <2>1. \A o \in Requests \ {r}, c \in Classes : Owner(o, c) => Owner(o, c)'
    BY <1>3, Frame DEF Busy
  <2>2. \A c \in Classes : Present(c)' => c # req[r].class /\ Present(c)
    BY <1>3 DEF Delete, TypeOK, TestMap
  <2> QED
    BY <2>1, <2>2 DEF FilesHaveOwners
<1> QED
  BY <1>0, <1>1, <1>2, <1>3 DEF Next

LEMMA FreshStep ==
    ASSUME TypeOK, ReportIsFresh, CoverageIsFresh, [Next]_vars
    PROVE  ReportIsFresh' /\ CoverageIsFresh'
<1>0. CASE UNCHANGED vars
  BY <1>0 DEF vars, ReportIsFresh, CoverageIsFresh
<1>1. ASSUME NEW r \in Requests, NEW class \in Classes, NEW test \in Tests,
             Send(r, class, test)
      PROVE  ReportIsFresh' /\ CoverageIsFresh'
  BY <1>1, SendFrame DEF ReportIsFresh, CoverageIsFresh
<1>2. ASSUME NEW r \in Requests, Handle(r)
      PROVE  ReportIsFresh' /\ CoverageIsFresh'
  <2> USE DEF TypeOK
  <2>1. CASE Clean(r)
    BY <2>1, <1>2, Frame DEF Clean, Goto, ReportIsFresh, CoverageIsFresh
  <2>2. CASE Test(r)
    <3>1. report' = report \/ report'.during = BusyRequests
      BY <2>2 DEF Test
    <3>2. \A o \in Requests : req[o].at \in {"compile", "test", "read"} => o \in BusyRequests
      BY DEF BusyRequests, Busy
    <3>3. req[r].at = "test" /\ (req'[r].at = "read" \/ req'[r].answer.error)
      BY <2>2 DEF Test, Goto, Answer, Error
    <3>4. ReportIsFresh'
      BY <1>2, <2>2, <3>1, <3>2, <3>3, Frame DEF ReportIsFresh, Test, Goto, Answer
    <3>5. CoverageIsFresh'
      BY <1>2, <3>3, Frame DEF CoverageIsFresh
    <3> QED
      BY <3>4, <3>5
  <2>3. CASE ReadReport(r)
    BY <2>3, <1>2, Frame DEF ReadReport, Goto, Answer, ReportIsFresh, CoverageIsFresh
  <2>4. CASE SaveTest(r) \/ SaveClass(r) \/ Throw(r) \/ Compile(r) \/ Hang(r) \/ Collide(r) \/ Delete(r)
    <3>1. report' = report
      BY <2>4 DEF SaveTest, SaveClass, Throw, Compile, Hang, Collide, Delete
    <3>2. /\ req'[r].at \in {"compile", "test", "read"}
             => req[r].at \in {"compile", "test", "read"}
          /\ (req'[r].at \in {"delete", "answered"} /\ ~req'[r].answer.error)
             => req[r].at = "delete" /\ req'[r].answer = req[r].answer
      BY <2>4 DEF SaveTest, SaveClass, Throw, Compile, Hang, Collide, Delete, Goto, Answer, Error
    <3> QED
      BY <1>2, <3>1, <3>2, Frame DEF ReportIsFresh, CoverageIsFresh
  <2> QED
    BY <1>2, <2>1, <2>2, <2>3, <2>4 DEF Handle
<1> QED
  BY <1>0, <1>1, <1>2 DEF Next

-----------------------------------------------------------------------------
(* A request that is alone.                                                *)

LEMMA AloneSend ==
    ASSUME Inv, NEW r \in Requests, NEW class \in Classes, NEW test \in Tests,
           Send(r, class, test)
    PROVE  AloneWasSent' /\ AloneIsUndisturbed' /\ AloneIsJudgedFairly'
<1> USE DEF Inv
<1>1. r \notin alone
  BY SendFrame DEF AloneWasSent
<1>2. AloneWasSent'
  BY SendFrame DEF AloneWasSent, TypeOK
<1>3. AloneIsJudgedFairly'
  BY <1>1, SendFrame DEF AloneIsJudgedFairly, Own, TypeOK
<1>4. AloneIsUndisturbed'
  <2> SUFFICES ASSUME NEW a \in alone', Busy(a)' PROVE Undisturbed(a)'
    BY DEF AloneIsUndisturbed
  <2>1. CASE a = r
    <3>1. BusyRequests = {} /\ ProjectIsEmpty
      BY <1>1, <2>1, SendFrame
    <3>2. \A other \in Requests \ {r} : ~Busy(other)'
      BY <3>1, SendFrame DEF BusyRequests, Busy
    <3>3. ProjectIsEmpty' /\ req'[r].at = "saveTest"
      BY <3>1, SendFrame DEF ProjectIsEmpty
    <3> QED
      BY <2>1, <3>2, <3>3 DEF Undisturbed
  <2>2. CASE a # r
    <3>1. a \in alone /\ a \in Requests
      BY <2>2, SendFrame DEF TypeOK
    <3>2. Busy(a)
      BY <2>2, <3>1, SendFrame DEF Busy
    <3>3. a \in BusyRequests
      BY <3>1, <3>2 DEF BusyRequests
    <3> QED
      BY <2>2, <3>1, <3>3, SendFrame
  <2> QED
    BY <2>1, <2>2
<1> QED
  BY <1>2, <1>3, <1>4

\* The step of a handler whose request is alone: by the step it is at.
LEMMA AloneHandles ==
    ASSUME Inv, NEW r \in alone, Handle(r)
    PROVE  /\ Busy(r)' => Undisturbed(r)'
           /\ req'[r].at \in {"delete", "answered"} =>
                 IF req[r].test = "passes"
                 THEN ~req'[r].answer.error /\ req'[r].answer.coverage.built = Own(r)
                 ELSE req[r].test \notin {"empty", "loops"} /\ req'[r].answer.error
<1> DEFINE Fair == IF req[r].test = "passes"
                   THEN ~req'[r].answer.error /\ req'[r].answer.coverage.built = Own(r)
                   ELSE req[r].test \notin {"empty", "loops"} /\ req'[r].answer.error
<1>1. TypeOK /\ r \in Requests /\ req[r].class \in Classes /\ req[r].test \in Tests
  BY DEF Inv, TypeOK
<1>2. Busy(r) /\ Undisturbed(r)
  BY <1>1, Frame DEF Inv, AloneIsUndisturbed
<1>3. \A other \in Requests \ {r} : ~Busy(other)'
  BY <1>1, <1>2, Frame DEF Undisturbed, Busy
<1>4. Own(r)' = Own(r) /\ req'[r].test = req[r].test /\ req'[r].class = req[r].class
  BY <1>1, Frame DEF Own, NoTests
<1>5. Own(r).tests = [NoTests EXCEPT ![req[r].class] = r] /\ Own(r).classes = {req[r].class}
  BY DEF Own
<1> USE DEF Goto, Answer
<1>a. CASE SaveTest(r)
  <2>1. req[r].at = "saveTest" /\ req'[r].at = "saveClass"
    BY <1>1, <1>a DEF SaveTest, TypeOK
  <2>2. testFiles' = Own(r).tests /\ classFiles' = {}
    BY <1>a, <1>2, <1>5, <2>1 DEF SaveTest, Undisturbed, ProjectIsEmpty
  <2> QED
    BY <1>3, <1>4, <2>1, <2>2 DEF Undisturbed
<1>b. CASE SaveClass(r)
  <2>1. req[r].at = "saveClass" /\ req'[r].at = "clean"
    BY <1>1, <1>b DEF SaveClass, TypeOK
  <2>2. HoldsOwn(r)'
    BY <1>b, <1>2, <1>4, <1>5, <2>1 DEF SaveClass, Undisturbed, HoldsOwn
  <2> QED
    BY <1>3, <2>1, <2>2 DEF Undisturbed
<1>c. CASE Throw(r)
  BY <1>1, <1>c DEF Throw, TypeOK, Busy
<1>d. CASE Clean(r)
  <2>1. req[r].at = "clean" /\ req'[r].at = "compile" /\ report' = None
    BY <1>1, <1>d DEF Clean, TypeOK
  <2>2. HoldsOwn(r)'
    BY <1>d, <1>2, <1>4, <2>1 DEF Clean, Undisturbed, HoldsOwn
  <2> QED
    BY <1>3, <2>1, <2>2 DEF Undisturbed
<1>e. CASE Compile(r)
  <2>1. req[r].at = "compile" /\ HoldsOwn(r) /\ report = None /\ report' = None
    BY <1>2, <1>e DEF Compile, Undisturbed
  <2>2. HoldsOwn(r)'
    BY <1>e, <1>4, <2>1 DEF Compile, HoldsOwn
  <2>3. Compiles <=> req[r].test # "broken"
    BY <1>1, <2>1, OwnCompiles
  <2>4. CASE Compiles
    <3>1. req'[r].at = "test" /\ target' = [tests |-> testFiles, classes |-> classFiles]
      BY <1>1, <1>e, <2>4 DEF Compile, TypeOK
    <3>2. target' = Own(r)
      BY <2>1, <3>1, <1>5 DEF HoldsOwn, Own
    <3> QED
      BY <1>3, <1>4, <2>1, <2>2, <2>3, <2>4, <3>1, <3>2 DEF Undisturbed
  <2>5. CASE ~Compiles
    <3>1. req'[r].at = "delete" /\ req'[r].answer.error
      BY <1>1, <1>e, <2>5 DEF Compile, TypeOK, Error
    <3> QED
      BY <1>3, <2>3, <2>5, <3>1 DEF Undisturbed
  <2> QED
    BY <2>4, <2>5
<1>f. CASE Test(r)
  <2>1. /\ req[r].at = "test" /\ HoldsOwn(r) /\ report = None
        /\ target = Own(r) /\ req[r].test # "broken"
    BY <1>2, <1>f DEF Test, Undisturbed
  <2>2. Kinds(target.tests) = {req[r].test}
    BY <1>1, <2>1, OwnKinds
  <2>3. HoldsOwn(r)'
    BY <1>f, <1>4, <2>1 DEF Test, HoldsOwn
  <2>4. CASE req[r].test = "fails"
    <3>1. req'[r].at = "delete" /\ req'[r].answer.error
      BY <1>1, <1>f, <2>2, <2>4 DEF Test, TypeOK, Error
    <3> QED
      BY <1>3, <2>4, <3>1 DEF Undisturbed
  <2>5. CASE req[r].test # "fails"
    <3>1. req'[r].at = "read"
      BY <1>1, <1>f, <2>2, <2>5 DEF Test, TypeOK
    <3>2. report' = IF req[r].test = "passes"
                    THEN [built |-> target, during |-> BusyRequests] ELSE None
      BY <1>f, <2>1, <2>2, <2>5 DEF Test
    <3>3. req[r].test = "passes" \/ req[r].test = "empty"
      BY <1>1, <1>f, <2>1, <2>2, <2>5 DEF Test, Tests
    <3>4. req[r].test = "passes" => report'.built = Own(r) /\ report' # None
      BY <1>1, <2>1, <3>2, NoneAssumption DEF TypeOK, Reports, BusyRequests
    <3> QED
      BY <1>3, <1>4, <2>3, <3>1, <3>2, <3>3, <3>4 DEF Undisturbed
  <2> QED
    BY <2>4, <2>5
<1>j. CASE Hang(r)
  <2>1. req[r].at = "test" /\ req'[r].at = "hung"
    BY <1>1, <1>j DEF Hang, TypeOK
  <2> QED
    BY <1>3, <2>1 DEF Undisturbed
<1>g. CASE Collide(r)
  BY <1>2, <1>g DEF Collide, Undisturbed, Busy
<1>h. CASE ReadReport(r)
  <2>1. /\ req[r].at = "read"
        /\ \/ req[r].test = "passes" /\ report # None /\ report.built = Own(r)
           \/ req[r].test = "empty" /\ report = None
    BY <1>2, <1>h DEF ReadReport, Undisturbed
  <2>2. CASE report = None
    <3>1. req'[r].at = "failed"
      BY <1>1, <1>h, <2>2 DEF ReadReport, TypeOK
    <3> QED
      BY <3>1 DEF Busy
  <2>3. CASE report # None
    <3>1. req'[r].at = "delete" /\ ~req'[r].answer.error /\ req'[r].answer.coverage = report
      BY <1>1, <1>h, <2>3 DEF ReadReport, TypeOK
    <3> QED
      BY <1>3, <2>1, <2>3, <3>1 DEF Undisturbed
  <2> QED
    BY <2>2, <2>3
<1>i. CASE Delete(r)
  <2>1. req[r].at = "delete" /\ req'[r].at = "answered" /\ req'[r].answer = req[r].answer
    BY <1>1, <1>i DEF Delete, TypeOK
  <2> QED
    BY <2>1 DEF Busy, Inv, AloneIsJudgedFairly
<1> QED
  BY <1>a, <1>b, <1>c, <1>d, <1>e, <1>f, <1>g, <1>h, <1>i, <1>j DEF Handle

LEMMA AloneStep ==
    ASSUME Inv, [Next]_vars
    PROVE  AloneWasSent' /\ AloneIsUndisturbed' /\ AloneIsJudgedFairly'
<1>0. CASE UNCHANGED vars
  BY <1>0 DEF vars, Inv, AloneWasSent, AloneIsUndisturbed, AloneIsJudgedFairly, Undisturbed,
              Own, NoTests, HoldsOwn, ProjectIsEmpty, Busy
<1>1. ASSUME NEW r \in Requests, NEW class \in Classes, NEW test \in Tests,
             Send(r, class, test)
      PROVE  AloneWasSent' /\ AloneIsUndisturbed' /\ AloneIsJudgedFairly'
  BY <1>1, AloneSend
<1>2. ASSUME NEW r \in Requests, Handle(r)
      PROVE  AloneWasSent' /\ AloneIsUndisturbed' /\ AloneIsJudgedFairly'
  <2>1. TypeOK /\ alone' = alone /\ alone \subseteq Requests /\ Busy(r)
    BY <1>2, Frame DEF Inv, TypeOK
  <2>2. AloneWasSent'
    <3>1. req'[r].at # "unsent"
      BY <1>2 DEF Inv, TypeOK, Handle, SaveTest, SaveClass, Throw, Clean, Compile, Test, Hang,
                  Collide, ReadReport, Delete, Goto, Answer
    <3> QED
      BY <1>2, <2>1, <3>1, Frame DEF Inv, AloneWasSent
  <2>3. ASSUME NEW a \in alone, a # r PROVE ~Busy(a)'
    <3>1. ~Busy(a)
      BY <2>1, <2>3 DEF Inv, AloneIsUndisturbed, Undisturbed
    <3> QED
      BY <1>2, <2>1, <2>3, <3>1, Frame DEF Busy
  <2>4. AloneIsUndisturbed'
    BY <1>2, <2>1, <2>3, AloneHandles DEF AloneIsUndisturbed
  <2>5. ASSUME NEW a \in alone, req'[a].at \in {"delete", "answered"}
        PROVE  IF req'[a].test = "passes"
               THEN ~req'[a].answer.error /\ req'[a].answer.coverage.built = Own(a)'
               ELSE req'[a].test \notin {"empty", "loops"} /\ req'[a].answer.error
    <3>1. CASE a = r
      <4>1. Own(a)' = Own(a) /\ req'[a].test = req[a].test
        BY <1>2, <2>1, <3>1, Frame DEF Own, NoTests
      <4> QED
        BY <1>2, <2>5, <3>1, <4>1, AloneHandles
    <3>2. CASE a # r
      <4>1. req'[a] = req[a] /\ Own(a)' = Own(a)
        BY <1>2, <2>1, <3>2, Frame DEF Own, NoTests
      <4> QED
        BY <2>5, <4>1 DEF Inv, AloneIsJudgedFairly
    <3> QED
      BY <3>1, <3>2
  <2>6. AloneIsJudgedFairly'
    BY <2>1, <2>5 DEF AloneIsJudgedFairly
  <2> QED
    BY <2>2, <2>4, <2>6
<1> QED
  BY <1>0, <1>1, <1>2 DEF Next

-----------------------------------------------------------------------------
(* The theorems.                                                           *)

\* The inductive invariant: what the directory holds at every step of a handler.
THEOREM Invariance == Spec => []Inv
<1>1. Inv /\ [Next]_vars => Inv'
  BY TypeStep, OwnersStep, FreshStep, AloneStep DEF Inv
<1> QED
  BY InitInv, <1>1, PTL DEF Spec

\* Every variable keeps its type.
THEOREM TypeCorrectness == Spec => []TypeOK
<1>1. Inv => TypeOK
  BY DEF Inv
<1> QED
  BY Invariance, <1>1, PTL

\* No interleaving of the handlers, not even of requests for one class, leaves a
\* file in the project, unless an exception ended one of them (compileAndTest).
THEOREM NoFileIsForgotten == Spec => []FilesHaveOwners
<1>1. Inv => FilesHaveOwners
  BY DEF Inv
<1> QED
  BY Invariance, <1>1, PTL

\* No request gets a coverage measured before it came: "mvn clean" removes the
\* report of every earlier build (compileExecuteCovarageWithMaven).
THEOREM NoStaleCoverage == Spec => []CoverageIsFresh
<1>1. Inv => CoverageIsFresh
  BY DEF Inv
<1> QED
  BY Invariance, <1>1, PTL

\* A request that finds the project empty and is not overlapped gets the coverage
\* of its own test on its own class exactly when its test passes.
THEOREM AloneIsFair == Spec => []AloneIsJudgedFairly
<1>1. Inv => AloneIsJudgedFairly
  BY DEF Inv
<1> QED
  BY Invariance, <1>1, PTL

-----------------------------------------------------------------------------
(* How many steps a request has left: what its answer needs besides fairness. *)

StepsLeft(r) ==
    CASE req[r].at = "saveTest"  -> 7
      [] req[r].at = "saveClass" -> 6
      [] req[r].at = "clean"     -> 5
      [] req[r].at = "compile"   -> 4
      [] req[r].at = "test"      -> 3
      [] req[r].at = "read"      -> 2
      [] req[r].at \in {"delete", "hung"} -> 1
      [] OTHER                   -> 0

\* Every step of a handler is one of at most seven it has left, and no other request
\* gives it more or is waited for: a request that is never answered is one whose
\* Maven hangs in a test that never ends.
THEOREM StepsAreNumbered ==
    Spec => [][\A r \in Requests :
                  Busy(r) =>
                      /\ StepsLeft(r) \in 1 .. 7
                      /\ StepsLeft(r)' <= StepsLeft(r)
                      /\ Handle(r) => StepsLeft(r)' < StepsLeft(r)]_vars
<1> DEFINE A == \A r \in Requests :
                   Busy(r) =>
                       /\ StepsLeft(r) \in 1 .. 7
                       /\ StepsLeft(r)' <= StepsLeft(r)
                       /\ Handle(r) => StepsLeft(r)' < StepsLeft(r)
<1>1. ASSUME Inv, [Next]_vars
      PROVE  A
  <2>0. TypeOK
    BY <1>1 DEF Inv
  <2> SUFFICES ASSUME NEW r \in Requests, Busy(r)
               PROVE  /\ StepsLeft(r) \in 1 .. 7
                      /\ StepsLeft(r)' <= StepsLeft(r)
                      /\ Handle(r) => StepsLeft(r)' < StepsLeft(r)
    OBVIOUS
  <2>1. StepsLeft(r) \in 1 .. 7
    <3>1. req[r].at \in Steps
      BY <2>0 DEF TypeOK
    <3> QED
      BY <3>1 DEF StepsLeft, Steps, Busy
  <2>2. req'[r] = req[r] => StepsLeft(r)' = StepsLeft(r)
    BY DEF StepsLeft
  <2>3. ASSUME NEW q \in Requests \ {r}, Handle(q)
        PROVE  req'[r] = req[r]
    BY <2>0, <2>3, Frame
  <2>4. ASSUME NEW q \in Requests, NEW class \in Classes, NEW test \in Tests,
               Send(q, class, test)
        PROVE  req'[r] = req[r]
    BY <2>0, <2>4, SendFrame DEF Busy
  <2>5. ASSUME Handle(r)
        PROVE  StepsLeft(r)' < StepsLeft(r)
    <3>1. ASSUME NEW step, Goto(r, step)
          PROVE  req'[r].at = step
      BY <2>0, <3>1 DEF Goto, TypeOK
    <3>2. ASSUME NEW answer, Answer(r, answer)
          PROVE  req'[r].at = "delete"
      BY <2>0, <3>2 DEF Answer, TypeOK
    <3>3. CASE SaveTest(r) \/ SaveClass(r) \/ Clean(r)
      <4>1. \/ req[r].at = "saveTest" /\ req'[r].at = "saveClass"
            \/ req[r].at = "saveClass" /\ req'[r].at = "clean"
            \/ req[r].at = "clean" /\ req'[r].at = "compile"
        BY <3>1, <3>3 DEF SaveTest, SaveClass, Clean
      <4> QED
        BY <4>1 DEF StepsLeft
    <3>4. CASE Throw(r)
      <4>1. req'[r].at = "failed"
        BY <3>1, <3>4 DEF Throw
      <4>2. StepsLeft(r)' = 0
        BY <4>1 DEF StepsLeft
      <4> QED
        BY <2>1, <4>2
    <3>5. CASE Compile(r) \/ Test(r) \/ Hang(r)
      <4>1. \/ req[r].at = "compile" /\ req'[r].at \in {"test", "delete"}
            \/ req[r].at = "test" /\ req'[r].at \in {"read", "delete", "hung"}
        BY <3>1, <3>2, <3>5 DEF Compile, Test, Hang
      <4> QED
        BY <4>1 DEF StepsLeft
    <3>6. CASE Collide(r)
      <4>1. req[r].at \in {"clean", "compile", "test"} /\ req'[r].at = "delete"
        BY <3>2, <3>6 DEF Collide
      <4> QED
        BY <4>1 DEF StepsLeft
    <3>7. CASE ReadReport(r) \/ Delete(r)
      <4>1. \/ req[r].at = "read" /\ req'[r].at \in {"delete", "failed"}
            \/ req[r].at = "delete" /\ req'[r].at = "answered"
        BY <3>1, <3>2, <3>7 DEF ReadReport, Delete
      <4> QED
        BY <4>1 DEF StepsLeft
    <3> QED
      BY <2>5, <3>3, <3>4, <3>5, <3>6, <3>7 DEF Handle
  <2>6. Handle(r) \/ req'[r] = req[r]
    BY <1>1, <2>3, <2>4 DEF Next, vars
  <2>7. StepsLeft(r)' \in Nat
    BY DEF StepsLeft
  <2> QED
    BY <2>1, <2>2, <2>5, <2>6, <2>7
<1>2. Inv /\ [Next]_vars => [A]_vars
  BY <1>1
<1>3. []Inv /\ [][Next]_vars => [][A]_vars
  BY <1>2, PTL
<1> QED
  BY <1>3, Invariance, PTL DEF Spec
=============================================================================

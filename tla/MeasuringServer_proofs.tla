------------------------ MODULE MeasuringServer_proofs ------------------------
(***************************************************************************)
(* Proofs about MeasuringServer, for any number of requests, classes,      *)
(* turns, criteria and restarts.  The inductive invariant follows a        *)
(* request that is alone from step to step, and orders the requests: one   *)
(* that is pending was sent after every request that was alone.            *)
(***************************************************************************)
EXTENDS MeasuringServer, TLAPS

\* Only a process that runs has requests.
PendingUp == \A r \in Requests : pc[r] \in Pending => up

\* Requests are sent in order.
SentInOrder ==
    \A q, r \in Requests : q < r /\ pc[r] # "unsent" => pc[q] # "unsent"

\* q is a test of class c that has been sent, or none.
IsTestOf(q, c) == q # NoTest => pc[q] # "unsent" /\ req[q].class = c

FilesAreOfTheirClass ==
    \A c \in Classes :
        /\ IsTestOf(tests[c], c)
        /\ \A t \in Turns : IsTestOf(stored[t][c], c)

\* A request that is alone has no company, and what is pending was sent later.
AloneHasNoCompany ==
    \A r \in Requests : undisturbed[r] =>
        /\ pc[r] # "unsent"
        /\ \A q \in Requests \ {r} :
               pc[q] \in Pending => pc[r] \notin Pending /\ q > r

\* The rows EvoSuite has written for r, if r is alone.
OwnReport(r) == [i \in 1 .. rows[r] |-> OwnRow(r)]

\* What a request that is alone finds and leaves, step by step.
Follows(r) ==
    LET c == req[r].class
    IN  /\ pc[r] # "write" => tests[c] = r
        /\ pc[r] \in {"write", "copy", "clean", "compile"} => ~reportDir /\ rows[r] = 0
        /\ pc[r] = "compile" => target = [d \in Classes |-> Nothing]
        /\ pc[r] = "measure" => target[c] = OwnRow(r) /\ (Compiles => req[r].runs = "ends")
        /\ pc[r] \in {"measure", "move"} => report = OwnReport(r)
        /\ pc[r] \in {"measure", "move", "remove"} => (reportDir <=> rows[r] > 0)
        /\ pc[r] = "remove" => (rows[r] > 0 => csv = OwnReport(r))
        /\ pc[r] = "answer" => rows[r] > 0 /\ csv = OwnReport(r)

AloneIsFollowed ==
    \A r \in Requests : undisturbed[r] /\ pc[r] \in Pending => Follows(r)

\* The requests whose test has been written.
Written == Copied \cup {r \in Requests : pc[r] = "copy"}

\* The test of a class in the project is not older than any sent for the class by
\* a request that was alone.
TestsAreCurrent ==
    \A r \in Written : undisturbed[r] =>
        tests[req[r].class] = NoTest \/ tests[req[r].class] >= r

\* A script that is about to copy a test finds one, and not that of a request
\* that was alone, other than its own.
CopiesOwnOrDisturbed ==
    \A r \in Requests : pc[r] = "copy" =>
        LET q == tests[req[r].class]
        IN  q # NoTest /\ (q = r \/ ~undisturbed[q])

AnsweredHasCsv == (\E q \in Requests : pc[q] = "answered") => csv # <<>>

Inv ==
    /\ TypeOK
    /\ PendingUp
    /\ SentInOrder
    /\ FilesAreOfTheirClass
    /\ AloneHasNoCompany
    /\ AloneIsFollowed
    /\ TestsAreCurrent
    /\ CopiesOwnOrDisturbed
    /\ HistoryIsCurrent
    /\ AnsweredHasCsv

-----------------------------------------------------------------------------
(* Sequences of equal rows.                                                *)

\* Appending a row to a report of equal rows makes it longer by one.
LEMMA AppendRow ==
    ASSUME NEW k \in Nat, NEW row \in Built
    PROVE  Append([i \in 1 .. k |-> row], row) = [i \in 1 .. k + 1 |-> row]
<1> DEFINE s == [i \in 1 .. k |-> row]
<1>1. s \in Seq(Built) /\ Len(s) = k
  OBVIOUS
<1>2. Append(s, row) = [i \in 1 .. k + 1 |-> IF i = k + 1 THEN row ELSE s[i]]
  BY <1>1
<1>. QED BY <1>2

\* The report that is not there has no row.
LEMMA EmptySeq == ASSUME NEW S PROVE <<>> \in Seq(S)
OBVIOUS

\* A report with a row is not empty.
LEMMA NotEmpty ==
    ASSUME NEW k \in Nat \ {0}, NEW row
    PROVE  [i \in 1 .. k |-> row] # <<>>
OBVIOUS

-----------------------------------------------------------------------------
(* Frames: what a step leaves alone.                                       *)

\* A step of a request changes neither what it asks nor the history; either it
\* moves this request alone, or the process dies with all that is pending.
LEMMA HandleFrame ==
    ASSUME TypeOK, NEW r \in Requests, Handle(r)
    PROVE  /\ req' = req /\ undisturbed' = undisturbed /\ volume' = volume
           /\ pc[r] \in Pending
           /\ pc' \in [Requests -> {"unsent"} \cup Pending \cup Ended]
           /\ \/ /\ up' = up
                 /\ \A q \in Requests \ {r} : pc'[q] = pc[q]
                 /\ pc'[r] # "unsent"
              \/ /\ up' = FALSE
                 /\ \A q \in Requests : pc'[q] = IF pc[q] \in Pending THEN "lost" ELSE pc[q]
<1>1. /\ req' = req /\ undisturbed' = undisturbed /\ volume' = volume
      /\ pc[r] \in Pending
  BY DEF Handle, Write, Copy, Clean, Compile, Measure, Move, Remove, Answer, Pending, project
<1>2. \/ Die
      \/ up' = up /\ \E step \in {"copy", "clean", "compile", "measure", "stuck", "move",
                                  "remove", "answer", "silent", "answered"} : Goto(r, step)
  <2>0. ASSUME NEW ran, Stop(r, ran)
        PROVE  Goto(r, "stuck") \/ Goto(r, "silent")
    BY <2>0 DEF Stop
  <2>1. CASE Measure(r)
    <3>1. /\ up' = up
          /\ \/ Goto(r, IF left[r] = 1 THEN "move" ELSE "measure")
             \/ Goto(r, "stuck") \/ Goto(r, "silent")
      BY <2>0, <2>1 DEF Measure
    <3>. QED BY <3>1
  <2>5. CASE Compile(r)
    <3>1. up' = up /\ (Goto(r, "measure") \/ Goto(r, "stuck") \/ Goto(r, "silent"))
      BY <2>0, <2>5 DEF Compile
    <3>. QED BY <3>1
  <2>2. CASE Remove(r)
    <3>1. up' = up /\ Goto(r, IF reportDir THEN "answer" ELSE "silent")
      BY <2>2 DEF Remove
    <3>. QED BY <3>1
  <2>3. CASE Write(r) \/ Copy(r) \/ Clean(r) \/ Move(r)
    BY <2>3 DEF Write, Copy, Clean, Move
  <2>4. CASE Answer(r)
    BY <2>4 DEF Answer
  <2>. QED BY <2>1, <2>2, <2>3, <2>4, <2>5 DEF Handle
<1>3. pc \in [Requests -> {"unsent"} \cup Pending \cup Ended]
  BY DEF TypeOK
<1>4. CASE Die
  BY <1>1, <1>3, <1>4 DEF Die, InFlight, Ended
<1>5. ASSUME NEW step \in {"copy", "clean", "compile", "measure", "stuck", "move",
                          "remove", "answer", "silent", "answered"},
             Goto(r, step)
      PROVE  /\ \A q \in Requests \ {r} : pc'[q] = pc[q]
             /\ pc'[r] # "unsent"
             /\ pc' \in [Requests -> {"unsent"} \cup Pending \cup Ended]
  BY <1>3, <1>5 DEF Goto, Pending, Ended
<1>. QED BY <1>1, <1>2, <1>4, <1>5

\* Sending a request touches nothing but this request and the history.
LEMMA SendFrame ==
    ASSUME TypeOK, NEW r \in Requests, Send(r)
    PROVE  /\ up' = up /\ project' = project /\ left' = left /\ rows' = rows
           /\ pc[r] = "unsent" /\ pc'[r] = IF up THEN "write" ELSE "refused"
           /\ \A q \in Requests \ {r} : pc'[q] = pc[q] /\ req'[q] = req[q]
           /\ \A q \in Requests \ {r} : undisturbed'[q] => undisturbed[q]
           /\ up => \A q \in Requests : undisturbed'[q] /\ q # r => pc[q] \notin Pending
           /\ up /\ undisturbed'[r] => ~reportDir /\ \A q \in Requests : pc[q] \notin Pending
           /\ ~up => undisturbed' = undisturbed
           /\ \A q \in Requests : q < r => pc[q] # "unsent"
<1>1. /\ up' = up /\ project' = project /\ left' = left /\ rows' = rows
      /\ pc[r] = "unsent" /\ pc'[r] = IF up THEN "write" ELSE "refused"
      /\ \A q \in Requests \ {r} : pc'[q] = pc[q] /\ req'[q] = req[q]
  BY ZenonT(60) DEF TypeOK, Send, Goto, project
<1>2. \A q \in Requests : q < r => pc[q] # "unsent"
  BY DEF Send, Requests
<1>3. ~up => undisturbed' = undisturbed
  BY DEF Send
<1>4. ASSUME up
      PROVE  /\ \A q \in Requests \ {r} : undisturbed'[q] = (undisturbed[q] /\ q \notin InFlight)
             /\ undisturbed'[r] = (InFlight = {} /\ ~reportDir)
  BY <1>4 DEF Send
<1>5. up => /\ \A q \in Requests \ {r} : undisturbed'[q] => undisturbed[q] /\ pc[q] \notin Pending
            /\ undisturbed'[r] => ~reportDir /\ \A q \in Requests : pc[q] \notin Pending
  BY <1>4 DEF InFlight
<1>. QED BY <1>1, <1>2, <1>3, <1>5

-----------------------------------------------------------------------------
(* The types.                                                              *)

LEMMA InitIsTyped == Init => TypeOK
<1> SUFFICES ASSUME Init PROVE TypeOK
  OBVIOUS
<1> USE DEF Init
<1>1. up \in BOOLEAN /\ restarts \in 0 .. MaxRestarts /\ left \in [Requests -> 0 .. Rows]
  BY MeasuringAssumption
<1>2. pc \in [Requests -> {"unsent"} \cup Pending \cup Ended]
  BY DEF Pending, Ended
<1>3. req \in [Requests -> [class : Classes, turn : Turns, fits : SUBSET Nat, runs : TestRuns]]
  BY MeasuringAssumption DEF TestRuns
<1>4. /\ volume \in [Classes -> Nat] /\ copies \in [Classes -> Nat]
      /\ \A c \in Classes : copies[c] <= volume[c] /\ volume[c] <= MaxVersion[c]
  BY MeasuringAssumption
<1>5. /\ tests \in [Classes -> 0 .. MaxRequests]
      /\ stored \in [Turns -> [Classes -> 0 .. MaxRequests]]
  BY MeasuringAssumption DEF NoTest
<1>6. target \in [Classes -> Built]
  BY MeasuringAssumption DEF Built, Nothing, NoTest
<1>7. report \in Seq(Built) /\ csv \in Seq(Built) /\ reportDir \in BOOLEAN /\ report = <<>>
  BY EmptySeq
<1>8. undisturbed \in [Requests -> BOOLEAN]
      /\ rows \in [Requests -> Nat] /\ \A r \in Requests : pc[r] = "unsent" => rows[r] = 0
  OBVIOUS
<1>9. \A r \in Requests : pc[r] # "measure"
  OBVIOUS
<1>. QED BY <1>1, <1>2, <1>3, <1>4, <1>5, <1>6, <1>7, <1>8, <1>9 DEF TypeOK

LEMMA SendIsTyped ==
    ASSUME TypeOK, NEW r \in Requests, Send(r)
    PROVE  TypeOK'
<1>1. PICK a \in Attempts[r] : \E fits \in {{}, {volume[a.class]}, 1 .. volume[a.class]} :
          req' = [req EXCEPT ![r] = [class |-> a.class, turn |-> a.turn, fits |-> fits,
                                     runs |-> a.runs]]
  BY DEF Send
<1>2. a.class \in Classes /\ a.turn \in Turns /\ a.runs \in TestRuns
  BY MeasuringAssumption DEF Requests
<1>3. volume[a.class] \in Nat
  BY <1>2 DEF TypeOK
<1>4. \A fits \in {{}, {volume[a.class]}, 1 .. volume[a.class]} : fits \in SUBSET Nat
  BY <1>3
<1>5. req' \in [Requests -> [class : Classes, turn : Turns, fits : SUBSET Nat, runs : TestRuns]]
  <2>1. req \in [Requests -> [class : Classes, turn : Turns, fits : SUBSET Nat, runs : TestRuns]]
    BY DEF TypeOK
  <2>2. PICK fits \in {{}, {volume[a.class]}, 1 .. volume[a.class]} :
           req' = [req EXCEPT ![r] = [class |-> a.class, turn |-> a.turn, fits |-> fits,
                                      runs |-> a.runs]]
    BY <1>1
  <2>3. fits \in SUBSET Nat
    BY <1>4
  <2>4. [class |-> a.class, turn |-> a.turn, fits |-> fits, runs |-> a.runs]
            \in [class : Classes, turn : Turns, fits : SUBSET Nat, runs : TestRuns]
    BY <1>2, <2>3
  <2>. QED BY <2>1, <2>2, <2>4
<1>6. pc' \in [Requests -> {"unsent"} \cup Pending \cup Ended]
  BY ZenonT(60) DEF Send, Goto, TypeOK, Pending, Ended
<1>7. undisturbed' \in [Requests -> BOOLEAN]
  <2>1. CASE up
    <3> DEFINE kept(q) == IF q = r THEN InFlight = {} /\ ~reportDir
                                   ELSE undisturbed[q] /\ q \notin InFlight
    <3>1. undisturbed' = [q \in Requests |-> kept(q)]
      BY <2>1 DEF Send
    <3>2. \A q \in Requests : kept(q) \in BOOLEAN
      OBVIOUS
    <3> HIDE DEF kept
    <3>. QED BY <3>1, <3>2
  <2>2. CASE ~up
    BY <2>2 DEF Send, TypeOK
  <2>. QED BY <2>1, <2>2
<1>8. \A q \in Requests : /\ pc'[q] = "measure" => left'[q] > 0
                          /\ pc'[q] = "unsent" => rows'[q] = 0
  <2>1. /\ left' = left /\ rows' = rows
        /\ \A q \in Requests : pc'[q] \in {"measure", "unsent"} => pc'[q] = pc[q]
    BY SendFrame
  <2>. QED BY <2>1 DEF TypeOK
<1>. QED BY <1>5, <1>6, <1>7, <1>8 DEF Send, TypeOK, project

LEMMA HandleIsTyped ==
    ASSUME TypeOK, NEW r \in Requests, Handle(r)
    PROVE  TypeOK'
<1> DEFINE c == req[r].class
<1>1. c \in Classes /\ req[r].turn \in Turns
  BY DEF TypeOK
<1>2. pc' \in [Requests -> {"unsent"} \cup Pending \cup Ended]
  BY HandleFrame
<1>0. \A q \in Requests \ {r} : pc'[q] = "measure" => left[q] > 0
  BY HandleFrame DEF TypeOK
<1>3. r \in 0 .. MaxRequests /\ NoTest \in 0 .. MaxRequests
  BY MeasuringAssumption DEF Requests, NoTest
<1>12. rows' \in [Requests -> Nat] /\ \A q \in Requests : pc'[q] = "unsent" => rows'[q] = 0
  <2>1. rows' = rows \/ rows' = [rows EXCEPT ![r] = @ + 1]
    BY DEF Handle, Write, Copy, Clean, Compile, Measure, Move, Remove, Answer
  <2>2. pc'[r] # "unsent" /\ \A q \in Requests \ {r} : pc'[q] = "unsent" => pc[q] = "unsent"
    BY HandleFrame DEF Pending
  <2>3. rows' \in [Requests -> Nat] /\ \A q \in Requests \ {r} : rows'[q] = rows[q]
    <3>1. rows \in [Requests -> Nat] /\ rows[r] + 1 \in Nat
      BY DEF TypeOK
    <3>2. CASE rows' = rows
      BY <3>1, <3>2
    <3>3. CASE rows' = [rows EXCEPT ![r] = @ + 1]
      BY <3>1, <3>3
    <3>. QED BY <2>1, <3>2, <3>3
  <2>. QED BY <2>2, <2>3 DEF TypeOK
<1>4. CASE Write(r)
  <2>1. tests' \in [Classes -> 0 .. MaxRequests] /\ up' \in BOOLEAN
    <3>1. tests \in [Classes -> 0 .. MaxRequests] /\ up \in BOOLEAN
      BY DEF TypeOK
    <3>2. \/ tests' \in {tests, [tests EXCEPT ![c] = r], [tests EXCEPT ![c] = NoTest]}
      BY <1>4 DEF Write
    <3>3. tests' \in [Classes -> 0 .. MaxRequests]
      BY <1>1, <1>3, <3>1, <3>2
    <3>4. up' \in BOOLEAN
      BY <1>4, <3>1 DEF Write, Die
    <3>. QED BY <3>3, <3>4
  <2>2. \A q \in Requests : pc'[q] = "measure" => left[q] > 0
    BY <1>0, <1>4 DEF Write, Die, Goto, TypeOK
  <2>. QED BY <1>2, <1>4, <1>12, <2>1, <2>2 DEF Write, TypeOK
<1>5. CASE Copy(r)
  BY <1>0, <1>1, <1>2, <1>5, <1>12 DEF Goto, Copy, CopyTest, TypeOK
<1>6. CASE Clean(r)
  BY <1>0, <1>2, <1>3, <1>6, <1>12 DEF Goto, Clean, TypeOK, Built, Nothing
<1>7. CASE Compile(r)
  <2>1. \A d \in Classes :
           [version |-> copies[d], test |-> IF Compiles THEN tests[d] ELSE target[d].test]
               \in Built
    BY <1>3 DEF TypeOK, Built
  <2>2. target' \in [Classes -> Built]
    BY <1>7, <2>1 DEF Compile
  <2>3. /\ left' \in [Requests -> 0 .. Rows]
        /\ \A q \in Requests : pc'[q] = "measure" => left'[q] > 0
    <3>1. left \in [Requests -> 0 .. Rows] /\ left' = [left EXCEPT ![r] = Rows]
      BY <1>7 DEF Compile, TypeOK
    <3>2. Rows \in 0 .. Rows /\ Rows > 0
      BY MeasuringAssumption
    <3>. QED BY <1>0, <3>1, <3>2
  <2>. QED BY <1>2, <1>7, <1>12, <2>2, <2>3 DEF Compile, TypeOK
<1>8. CASE Measure(r)
  <2>1. target[c] \in Built
    BY <1>1 DEF TypeOK
  <2>2. report' \in Seq(Built) /\ reportDir' \in BOOLEAN /\ (report' # <<>> => reportDir')
    <3>1. CASE report' = Append(report, target[c]) /\ reportDir' = TRUE
      BY <2>1, <3>1 DEF TypeOK
    <3>2. CASE UNCHANGED <<report, reportDir>>
      BY <3>2 DEF TypeOK
    <3>. QED BY <1>8, <3>1, <3>2 DEF Measure
  <2>3. left[r] \in 1 .. Rows
    BY <1>8 DEF Measure, TypeOK
  <2>4. /\ left' \in [Requests -> 0 .. Rows]
        /\ \A q \in Requests : pc'[q] = "measure" => left'[q] > 0
    <3>1. left[r] - 1 \in 0 .. Rows /\ (left[r] # 1 => left[r] - 1 > 0)
      BY <2>3, MeasuringAssumption
    <3>2. /\ left' = [left EXCEPT ![r] = left[r] - 1]
          /\ pc'[r] = "measure" => left[r] # 1
      BY <1>8 DEF Measure, Goto, Stop, TypeOK
    <3>3. left' \in [Requests -> 0 .. Rows]
      BY <3>1, <3>2 DEF TypeOK
    <3>4. pc'[r] = "measure" => left'[r] > 0
      BY <3>1, <3>2 DEF TypeOK
    <3>5. \A q \in Requests \ {r} : left'[q] = left[q]
      BY <3>2 DEF TypeOK
    <3>. QED BY <1>0, <3>3, <3>4, <3>5
  <2>. QED BY <1>2, <1>8, <1>12, <2>2, <2>4 DEF Measure, TypeOK
<1>9. CASE Move(r)
  BY SMTT(30), <1>0, <1>2, <1>9, <1>12 DEF Goto, Move, TypeOK
<1>10. CASE Remove(r)
  <2>1. report' \in Seq(Built) /\ report' = <<>>
    BY <1>10, EmptySeq DEF Remove
  <2>. QED BY <1>0, <1>2, <1>10, <1>12, <2>1 DEF Goto, Remove, TypeOK
<1>11. CASE Answer(r)
  BY <1>0, <1>2, <1>11, <1>12 DEF Goto, Answer, Die, TypeOK, project
<1>. QED BY <1>4, <1>5, <1>6, <1>7, <1>8, <1>9, <1>10, <1>11 DEF Handle

LEMMA UploadIsTyped ==
    ASSUME TypeOK, NEW c \in Classes, Upload(c)
    PROVE  TypeOK'
<1>1. volume' \in [Classes -> Nat]
  BY DEF Upload, TypeOK
<1>2. \A d \in Classes : copies[d] <= volume'[d] /\ volume'[d] <= MaxVersion[d]
  <2> TAKE d \in Classes
  <2>1. copies[d] \in Nat /\ volume[d] \in Nat /\ MaxVersion[d] \in Nat
    BY MeasuringAssumption DEF TypeOK
  <2>2. volume'[d] = IF d = c THEN volume[d] + 1 ELSE volume[d]
    BY DEF Upload, TypeOK
  <2>. QED BY <2>1, <2>2 DEF Upload, TypeOK
<1>. QED BY <1>1, <1>2 DEF Upload, TypeOK

LEMMA TypeStep == ASSUME TypeOK, [Next]_vars PROVE TypeOK'
<1>1. CASE Restart
  BY <1>1, MeasuringAssumption DEF Restart, TypeOK, project
<1>2. CASE UNCHANGED vars
  BY <1>2 DEF vars, TypeOK
<1>. QED BY <1>1, <1>2, SendIsTyped, HandleIsTyped, UploadIsTyped DEF Next

-----------------------------------------------------------------------------
(* The order of the requests.                                              *)

Ordered == PendingUp /\ SentInOrder /\ AloneHasNoCompany

LEMMA SendKeepsOrder ==
    ASSUME TypeOK, Ordered, NEW r \in Requests, Send(r)
    PROVE  Ordered'
<1> USE DEF Ordered
<1>1. PendingUp'
  BY SendFrame DEF PendingUp, Pending
<1>2. SentInOrder'
  BY SendFrame DEF SentInOrder, Requests
<1>3. AloneHasNoCompany'
  <2> SUFFICES ASSUME NEW p \in Requests, undisturbed'[p]
               PROVE  /\ pc'[p] # "unsent"
                      /\ \A q \in Requests \ {p} :
                             pc'[q] \in Pending => pc'[p] \notin Pending /\ q > p
    BY DEF AloneHasNoCompany
  <2>1. CASE p = r
    BY <2>1, SendFrame DEF AloneHasNoCompany, Pending, PendingUp
  <2>2. CASE p # r
    <3>1. undisturbed[p] /\ pc[p] # "unsent" /\ pc'[p] = pc[p]
      BY <2>2, SendFrame DEF AloneHasNoCompany
    <3>2. p < r
      BY <2>2, <3>1, SendFrame DEF SentInOrder, Requests
    <3>3. up => pc[p] \notin Pending
      BY <2>2, SendFrame
    <3>4. ~up => pc'[r] \notin Pending
      BY SendFrame DEF Pending
    <3>. QED BY <2>2, <3>1, <3>2, <3>3, <3>4, SendFrame DEF AloneHasNoCompany, Requests
  <2>. QED BY <2>1, <2>2
<1>. QED BY <1>1, <1>2, <1>3

LEMMA HandleKeepsOrder ==
    ASSUME TypeOK, Ordered, NEW r \in Requests, Handle(r)
    PROVE  Ordered'
<1> USE DEF Ordered
<1>1. undisturbed' = undisturbed /\ \A q \in Requests : pc[q] # "unsent" => pc'[q] # "unsent"
  BY HandleFrame
<1>2. \A q \in Requests : /\ pc'[q] \in Pending => pc[q] \in Pending /\ up'
                          /\ pc[q] = "unsent" => pc'[q] = "unsent"
  <2>1. pc[r] \in Pending /\ pc[r] # "unsent" /\ up
    BY HandleFrame DEF PendingUp, Pending
  <2>. QED BY <2>1, HandleFrame DEF PendingUp, Pending
<1>3. PendingUp' /\ SentInOrder'
  BY <1>1, <1>2 DEF PendingUp, SentInOrder
<1>4. AloneHasNoCompany'
  BY <1>1, <1>2 DEF AloneHasNoCompany
<1>. QED BY <1>3, <1>4

LEMMA OrderStep == ASSUME TypeOK, Ordered, [Next]_vars PROVE Ordered'
<1>1. CASE Restart
  BY <1>1 DEF Restart, Ordered, PendingUp, SentInOrder, AloneHasNoCompany
<1>2. CASE \E c \in Classes : Upload(c)
  BY <1>2 DEF Upload, Ordered, PendingUp, SentInOrder, AloneHasNoCompany
<1>3. CASE UNCHANGED vars
  BY <1>3 DEF vars, Ordered, PendingUp, SentInOrder, AloneHasNoCompany
<1>. QED BY <1>1, <1>2, <1>3, SendKeepsOrder, HandleKeepsOrder DEF Next

-----------------------------------------------------------------------------
(* The tests.                                                              *)

\* A request that was sent keeps its class and turn, and stays sent.
LEMMA SentStays ==
    ASSUME TypeOK, [Next]_vars, NEW r \in Requests, pc[r] # "unsent"
    PROVE  pc'[r] # "unsent" /\ req'[r] = req[r] /\ (undisturbed'[r] => undisturbed[r])
<1>1. ASSUME NEW q \in Requests, Send(q)
      PROVE  pc'[r] # "unsent" /\ req'[r] = req[r] /\ (undisturbed'[r] => undisturbed[r])
  BY <1>1, SendFrame
<1>2. ASSUME NEW q \in Requests, Handle(q)
      PROVE  pc'[r] # "unsent" /\ req'[r] = req[r] /\ (undisturbed'[r] => undisturbed[r])
  BY <1>2, HandleFrame
<1>. QED BY <1>1, <1>2 DEF Next, Upload, Restart, project, vars

LEMMA FilesStep ==
    ASSUME TypeOK, FilesAreOfTheirClass, [Next]_vars
    PROVE  FilesAreOfTheirClass'
<1>1. \A q \in 0 .. MaxRequests, c \in Classes : IsTestOf(q, c) => IsTestOf(q, c)'
  BY SentStays DEF IsTestOf, Requests, NoTest
<1>2. /\ \A c \in Classes : tests[c] \in 0 .. MaxRequests
      /\ \A t \in Turns, c \in Classes : stored[t][c] \in 0 .. MaxRequests
  BY DEF TypeOK
<1>3. ASSUME NEW c \in Classes
      PROVE  tests'[c] = tests[c] \/ IsTestOf(tests[c], c)'
  <2>1. ASSUME NEW r \in Requests, Write(r)
        PROVE  tests'[c] = tests[c] \/ IsTestOf(tests[c], c)'
    <3>1. tests'[c] # tests[c] => tests'[c] = NoTest \/ (tests'[c] = r /\ req[r].class = c)
      BY <2>1 DEF Write, TypeOK
    <3>2. pc'[r] # "unsent" /\ req'[r] = req[r]
      BY <2>1, HandleFrame DEF Handle, Pending
    <3>. QED BY <3>1, <3>2 DEF IsTestOf
  <2>. QED BY <2>1 DEF Next, Send, Handle, Copy, Clean, Compile, Measure, Move, Remove,
                       Answer, Upload, Restart, project, vars
<1>4. ASSUME NEW c \in Classes, NEW t \in Turns
      PROVE  stored'[t][c] = stored[t][c] \/ stored'[t][c] = tests[c]
  <2>1. ASSUME NEW r \in Requests, Copy(r)
        PROVE  stored'[t][c] = stored[t][c] \/ stored'[t][c] = tests[c]
    BY <2>1 DEF Copy, CopyTest, TypeOK
  <2>. QED BY <2>1 DEF Next, Send, Handle, Write, Clean, Compile, Measure, Move, Remove,
                       Answer, Upload, Restart, project, vars
<1>. QED BY <1>1, <1>2, <1>3, <1>4 DEF FilesAreOfTheirClass

-----------------------------------------------------------------------------
(* A request that is alone.                                                *)

\* Its own steps lead from what it should find to what it should find next.
LEMMA OwnStepFollows ==
    ASSUME TypeOK, NEW r \in Requests, Handle(r), Follows(r), pc'[r] \in Pending
    PROVE  Follows(r)'
<1> DEFINE c == req[r].class
<1>1. c \in Classes /\ req' = req /\ pc[r] \in Pending /\ rows[r] \in Nat
  BY HandleFrame DEF TypeOK
<1>2. OwnRow(r) \in Built
  BY <1>1, MeasuringAssumption DEF TypeOK, Built, Requests, OwnRow, NoTest
<1>3. ASSUME UNCHANGED <<copies, tests>>
      PROVE  Compiles' = Compiles /\ OwnRow(r)' = OwnRow(r)
  BY <1>1, <1>3 DEF Compiles, OwnRow
<1>a. ASSUME UNCHANGED <<copies, tests>>, rows'[r] = rows[r]
      PROVE  OwnReport(r)' = OwnReport(r)
  BY <1>3, <1>a DEF OwnReport
<1>4. CASE Write(r)
  <2>1. pc'[r] = "copy" /\ tests'[c] = r /\ ~reportDir' /\ rows'[r] = 0
    BY <1>1, <1>4 DEF Write, Goto, Die, InFlight, Follows, TypeOK, Pending
  <2>. QED BY <1>1, <2>1 DEF Follows
<1>5. CASE Copy(r)
  <2>1. pc'[r] = "clean" /\ tests'[c] = r /\ ~reportDir' /\ rows'[r] = 0
    BY <1>1, <1>5 DEF Copy, Goto, Follows, TypeOK
  <2>. QED BY <1>1, <2>1 DEF Follows
<1>6. CASE Clean(r)
  <2>1. /\ pc'[r] = "compile" /\ tests'[c] = r /\ ~reportDir' /\ rows'[r] = 0
        /\ target' = [d \in Classes |-> Nothing]
    BY <1>1, <1>6 DEF Clean, Goto, Follows, TypeOK
  <2>. QED BY <1>1, <2>1 DEF Follows
<1>7. CASE Compile(r)
  <2>1. UNCHANGED <<copies, tests>> /\ tests[c] = r /\ pc[r] = "compile"
    BY <1>1, <1>7 DEF Compile, Follows
  <2>2. rows' = rows /\ rows[r] = 0 /\ report' = <<>> /\ ~reportDir'
    BY <1>7, <2>1 DEF Compile, Follows, TypeOK
  <2>3. target'[c] = OwnRow(r)'
    <3>1. target[c].test = NoTest
      BY <1>1, <2>1 DEF Follows, Nothing
    <3>2. target'[c] = OwnRow(r)
      BY <1>1, <1>7, <2>1, <3>1 DEF Compile, OwnRow
    <3>. QED BY <1>3, <2>1, <3>2
  <2>4. pc'[r] = "measure" => (Compiles => req[r].runs = "ends")
    <3>1. ASSUME Compiles, pc'[r] = "measure"
          PROVE  req[r].runs = "ends"
      <4>1. r \in Ran
        BY <1>1, <2>1, <3>1 DEF Ran, Requests, NoTest
      <4>2. \A q \in Ran : req[q].runs = "ends"
        BY <1>7, <3>1 DEF Compile, Stop, Goto, TypeOK
      <4>. QED BY <4>1, <4>2
    <3>. QED BY <3>1
  <2>5. pc'[r] \in {"measure", "stuck"}
    BY <1>7 DEF Compile, Goto, Stop, TypeOK, Pending
  <2>6. report' = OwnReport(r)'
    BY <2>2 DEF OwnReport
  <2>. QED BY <1>1, <1>3, <2>1, <2>2, <2>3, <2>4, <2>5, <2>6 DEF Follows
<1>8. CASE Measure(r)
  <2>1. UNCHANGED <<tests, copies, target>> /\ tests[c] = r /\ target[c] = OwnRow(r)
    BY <1>8 DEF Measure, Follows
  <2>2. report = OwnReport(r) /\ (reportDir <=> rows[r] > 0) /\ (Compiles => req[r].runs = "ends")
    BY <1>8 DEF Measure, Follows
  <2>3. ~Stop(r, {target[c].test} \ {NoTest})
    <3>1. target[c].test # NoTest => target[c].test = r /\ Compiles
      BY <2>1 DEF OwnRow
    <3>. QED BY <2>2, <3>1 DEF Stop
  <2>4. pc'[r] = IF left[r] = 1 THEN "move" ELSE "measure"
    BY <1>8, <2>3 DEF Measure, Goto, TypeOK
  <2>5. report' = OwnReport(r)' /\ (reportDir' <=> rows'[r] > 0)
    <3>1. CASE /\ report' = Append(report, target[c]) /\ reportDir' = TRUE
               /\ rows' = [rows EXCEPT ![r] = @ + 1]
      <4>1. rows'[r] = rows[r] + 1
        BY <3>1 DEF TypeOK
      <4>2. report' = [i \in 1 .. rows[r] + 1 |-> OwnRow(r)]
        BY <1>1, <1>2, <2>1, <2>2, <3>1, AppendRow DEF OwnReport
      <4>. QED BY <1>1, <1>3, <2>1, <3>1, <4>1, <4>2 DEF OwnReport
    <3>2. CASE UNCHANGED <<report, reportDir, rows>>
      BY <1>a, <2>1, <2>2, <3>2
    <3>. QED BY <1>8, <3>1, <3>2 DEF Measure
  <2>. QED BY <1>1, <1>3, <2>1, <2>2, <2>4, <2>5 DEF Follows
<1>9. CASE Move(r)
  <2>1. /\ UNCHANGED <<tests, copies, reportDir, rows>> /\ tests[c] = r /\ pc'[r] = "remove"
        /\ report = OwnReport(r) /\ (reportDir <=> rows[r] > 0)
    BY <1>9 DEF Move, Goto, Follows, TypeOK
  <2>2. rows[r] > 0 => csv' = OwnReport(r)
    <3>1. rows[r] > 0 => OwnReport(r) # <<>>
      BY <1>1, NotEmpty DEF OwnReport
    <3>. QED BY <1>9, <2>1, <3>1 DEF Move
  <2>. QED BY <1>1, <1>a, <2>1, <2>2 DEF Follows
<1>10. CASE Remove(r)
  <2>1. /\ UNCHANGED <<tests, copies, csv, rows>> /\ tests[c] = r /\ pc'[r] = "answer"
        /\ reportDir
    BY <1>10 DEF Remove, Goto, Follows, TypeOK, Pending
  <2>2. rows[r] > 0 /\ csv = OwnReport(r)
    BY <1>10, <2>1 DEF Remove, Follows
  <2>. QED BY <1>1, <1>a, <2>1, <2>2 DEF Follows
<1>11. CASE Answer(r)
  BY <1>11 DEF Answer, Goto, Die, InFlight, TypeOK, Pending
<1>. QED BY <1>4, <1>5, <1>6, <1>7, <1>8, <1>9, <1>10, <1>11 DEF Handle

LEMMA FollowStep ==
    ASSUME TypeOK, Ordered, AloneIsFollowed, [Next]_vars
    PROVE  AloneIsFollowed'
<1> SUFFICES ASSUME NEW r \in Requests, undisturbed'[r], pc'[r] \in Pending
             PROVE  Follows(r)'
  BY DEF AloneIsFollowed
<1> DEFINE Same == UNCHANGED <<pc, req, left, undisturbed, copies, tests, target, reportDir,
                               report, csv, rows>>
<1>1. ASSUME NEW q \in Requests, Send(q)
      PROVE  Follows(r)'
  <2>1. q = r
    BY <1>1, SendFrame DEF Ordered, PendingUp
  <2>2. pc'[r] = "write" /\ ~reportDir' /\ rows'[r] = 0
    BY <1>1, <2>1, SendFrame DEF project, Pending, TypeOK
  <2>. QED BY <2>2 DEF Follows
<1>2. ASSUME NEW q \in Requests, Handle(q)
      PROVE  Follows(r)'
  <2>1. undisturbed[r] /\ pc[r] \in Pending /\ pc[q] \in Pending
    BY <1>2, HandleFrame DEF Pending
  <2>2. q = r
    BY <2>1 DEF Ordered, AloneHasNoCompany
  <2>. QED BY <1>2, <2>1, <2>2, OwnStepFollows DEF AloneIsFollowed
<1>3. ASSUME Same
      PROVE  Follows(r)'
  <2>1. Follows(r)' = Follows(r)
    BY <1>3 DEF Follows, Compiles, OwnReport, OwnRow
  <2>. QED BY <1>3, <2>1 DEF AloneIsFollowed
<1>4. CASE Restart
  BY <1>3, <1>4 DEF Restart, project
<1>5. ASSUME NEW c \in Classes, Upload(c)
      PROVE  Follows(r)'
  BY <1>3, <1>5 DEF Upload
<1>6. CASE UNCHANGED vars
  BY <1>3, <1>6 DEF vars
<1>. QED BY <1>1, <1>2, <1>4, <1>5, <1>6 DEF Next

-----------------------------------------------------------------------------
(* The tests in the project and in the volume.                             *)

\* A request whose test is written, or copied, after a step, and that was alone,
\* was so before, or writes or copies it in this step.
LEMMA WrittenBefore ==
    ASSUME TypeOK, [Next]_vars, NEW r \in Requests, undisturbed'[r]
    PROVE  /\ r \in Written' => undisturbed[r] /\ (r \in Written \/ Write(r))
           /\ r \in Copied' => undisturbed[r] /\ (r \in Copied \/ Copy(r))
<1> USE DEF Written, Copied, Pending
<1>1. ASSUME NEW q \in Requests, Send(q)
      PROVE  /\ r \in Written' => undisturbed[r] /\ r \in Written
             /\ r \in Copied' => undisturbed[r] /\ r \in Copied
  BY <1>1, SendFrame
<1>2. ASSUME NEW q \in Requests, Handle(q)
      PROVE  /\ r \in Written' => undisturbed[r] /\ (r \in Written \/ Write(r))
             /\ r \in Copied' => undisturbed[r] /\ (r \in Copied \/ Copy(r))
  <2>1. CASE q # r
    BY <1>2, <2>1, HandleFrame
  <2>2. CASE q = r
    <3>1. pc[r] \in Pending /\ undisturbed' = undisturbed
      BY <1>2, <2>2, HandleFrame
    <3>2. pc[r] = "write" => Write(r)
      BY <1>2, <2>2 DEF Handle, Copy, Clean, Compile, Measure, Move, Remove, Answer
    <3>3. pc[r] = "copy" => Copy(r)
      BY <1>2, <2>2 DEF Handle, Write, Clean, Compile, Measure, Move, Remove, Answer
    <3>4. Write(r) => pc'[r] \in {"copy", "lost"}
      BY DEF Write, Goto, Die, InFlight, TypeOK
    <3>. QED BY <3>1, <3>2, <3>3, <3>4
  <2>. QED BY <2>1, <2>2
<1>. QED BY <1>1, <1>2 DEF Next, Upload, Restart, project, vars

\* Only Write changes the tests of the project, and Copy those of the volume.
LEMMA OnlyWriteAndCopy ==
    ASSUME TypeOK, [Next]_vars
    PROVE  /\ tests' = tests \/ \E r \in Requests : Write(r)
           /\ stored' = stored \/ \E r \in Requests : Copy(r)
BY DEF Next, Send, Handle, Clean, Compile, Measure, Move, Remove, Answer, Write, Copy,
       Upload, Restart, project, vars

LEMMA CurrentStep ==
    ASSUME TypeOK, Ordered, FilesAreOfTheirClass, TestsAreCurrent, [Next]_vars
    PROVE  TestsAreCurrent'
<1> SUFFICES ASSUME NEW r \in Requests, r \in Written', undisturbed'[r],
                    tests'[req'[r].class] # NoTest
             PROVE  tests'[req'[r].class] >= r
  BY WrittenBefore DEF TestsAreCurrent, Written, Copied
<1> DEFINE c == req[r].class
<1>1. undisturbed[r] /\ (r \in Written \/ Write(r))
  BY WrittenBefore
<1>2. pc[r] # "unsent" /\ req'[r] = req[r] /\ c \in Classes
  BY <1>1, SentStays DEF Written, Copied, Write, Pending, TypeOK
<1>3. CASE r \notin Written
  <2>1. Write(r) /\ pc'[r] # "lost"
    BY <1>1, <1>3 DEF Written, Copied, Pending
  <2>2. tests'[c] = r
    BY <1>2, <2>1 DEF Write, Die, InFlight, Pending, TypeOK
  <2>. QED BY <1>2, <2>2 DEF Requests
<1>4. CASE r \in Written
  <2>1. tests[c] = NoTest \/ tests[c] >= r
    BY <1>1, <1>4 DEF TestsAreCurrent
  <2>2. ASSUME NEW q \in Requests, Write(q)
        PROVE  tests'[c] >= r
    <3>1. tests'[c] \in {tests[c], q, NoTest}
      BY SMTT(30), <1>2, <2>2 DEF Write, TypeOK
    <3>2. q >= r
      BY <1>1, <2>2 DEF Write, Ordered, AloneHasNoCompany, Pending, Requests
    <3>. QED BY <1>2, <2>1, <3>1, <3>2
  <2>. QED BY <1>2, <2>1, <2>2, OnlyWriteAndCopy
<1>. QED BY <1>3, <1>4

LEMMA CopyStep ==
    ASSUME TypeOK, Ordered, CopiesOwnOrDisturbed, [Next]_vars
    PROVE  CopiesOwnOrDisturbed'
<1> SUFFICES ASSUME NEW r \in Requests, pc'[r] = "copy"
             PROVE  LET q == tests'[req'[r].class]
                    IN  q # NoTest /\ (q = r \/ ~undisturbed'[q])
  BY DEF CopiesOwnOrDisturbed
<1> DEFINE c == req[r].class
<1>1. ASSUME NEW p \in Requests, Send(p)
      PROVE  /\ pc[r] = "copy" /\ req'[r] = req[r] /\ tests' = tests
             /\ \A q \in 1 .. MaxRequests : q = tests[c] /\ undisturbed'[q] => undisturbed[q]
  <2>1. pc[r] = "copy" /\ req'[r] = req[r] /\ tests' = tests
    BY <1>1, SendFrame DEF project
  <2>2. up /\ (undisturbed'[p] => pc[r] \notin Pending)
    BY <1>1, <2>1, SendFrame DEF Ordered, PendingUp, Pending
  <2>. QED BY <1>1, <2>1, <2>2, SendFrame DEF Requests, Pending
<1>2. ASSUME NEW p \in Requests, Handle(p), ~Write(p)
      PROVE  pc[r] = "copy" /\ req' = req /\ tests' = tests /\ undisturbed' = undisturbed
  BY <1>2, HandleFrame DEF Handle, Copy, Clean, Compile, Measure, Move, Remove, Answer, Goto,
     Stop, Die, InFlight, TypeOK, project
<1>3. ASSUME NEW p \in Requests, Write(p)
      PROVE  LET q == tests'[c] IN q # NoTest /\ (q = r \/ ~undisturbed'[q])
  <2>1. pc' = [pc EXCEPT ![p] = "copy"] /\ tests' = [tests EXCEPT ![req[p].class] = p]
    <3>1. \/ pc' = [pc EXCEPT ![p] = "copy"] /\ tests' = [tests EXCEPT ![req[p].class] = p]
          \/ pc' = [q \in Requests |-> IF q \in InFlight THEN "lost" ELSE pc[q]]
      BY <1>3 DEF Write, Die, Goto
    <3>2. pc[r] = "copy" => r \in InFlight
      BY DEF InFlight, Pending
    <3>. QED BY <3>1, <3>2
  <2>2. undisturbed' = undisturbed /\ p # NoTest
    BY <1>3 DEF Write, Requests, NoTest
  <2>3. c \in Classes
    BY DEF TypeOK
  <2>4. CASE p = r
    BY <2>1, <2>2, <2>3, <2>4 DEF TypeOK
  <2>5. CASE p # r
    <3>1. pc[r] = "copy" /\ ~undisturbed[p]
      BY <1>3, <2>1, <2>5 DEF Write, Ordered, AloneHasNoCompany, Pending, TypeOK
    <3>. QED BY <2>1, <2>2, <2>3, <3>1 DEF CopiesOwnOrDisturbed, TypeOK
  <2>. QED BY <2>4, <2>5
<1>4. tests[c] \in 0 .. MaxRequests /\ (tests[c] # NoTest => tests[c] \in Requests)
  <2>1. c \in Classes /\ MaxRequests \in Nat
    BY MeasuringAssumption DEF TypeOK
  <2>. QED BY <2>1 DEF TypeOK, Requests, NoTest
<1>5. req'[r] = req[r] \/ \E p \in Requests : Send(p)
  BY HandleFrame DEF Next, Upload, Restart, vars
<1>6. ASSUME NEW p \in Requests, Send(p)
      PROVE  LET q == tests'[req'[r].class]
             IN  q # NoTest /\ (q = r \/ ~undisturbed'[q])
  BY <1>1, <1>4, <1>6 DEF CopiesOwnOrDisturbed, Requests
<1>7. ASSUME NEW p \in Requests, Handle(p)
      PROVE  LET q == tests'[req'[r].class]
             IN  q # NoTest /\ (q = r \/ ~undisturbed'[q])
  BY <1>2, <1>3, <1>7, HandleFrame DEF CopiesOwnOrDisturbed
<1>. QED BY <1>6, <1>7 DEF Next, Upload, Restart, project, vars, CopiesOwnOrDisturbed

LEMMA HistoryStep ==
    ASSUME TypeOK, Ordered, FilesAreOfTheirClass, TestsAreCurrent, CopiesOwnOrDisturbed,
           HistoryIsCurrent, [Next]_vars
    PROVE  HistoryIsCurrent'
<1> SUFFICES ASSUME NEW t \in Turns, NEW c \in Classes
             PROVE  LET q == stored'[t][c]
                    IN  /\ q # NoTest =>
                               req'[q].class = c /\ (req'[q].turn = t \/ ~undisturbed'[q])
                        /\ \A r \in Copied' :
                               undisturbed'[r] /\ req'[r].class = c /\ req'[r].turn = t => q >= r
  BY DEF HistoryIsCurrent, TestShown
<1>1. stored[t][c] \in 0 .. MaxRequests /\ tests[c] \in 0 .. MaxRequests
  BY DEF TypeOK
<1>2. ASSUME NEW r \in Requests, Copy(r)
      PROVE  /\ stored'[t][c] = IF c = req[r].class /\ t = req[r].turn THEN tests[c]
                                                                       ELSE stored[t][c]
             /\ pc[r] = "copy" /\ r \notin Copied
  <2>1. stored' = [stored EXCEPT ![req[r].turn][req[r].class] = tests[req[r].class]]
    BY <1>2 DEF Copy, CopyTest
  <2>2. stored'[t] = IF t = req[r].turn
                     THEN [stored[t] EXCEPT ![req[r].class] = tests[req[r].class]]
                     ELSE stored[t]
    BY <2>1 DEF TypeOK
  <2>3. stored[t] \in [Classes -> 0 .. MaxRequests]
    BY DEF TypeOK
  <2>4. pc[r] = "copy" /\ r \notin Copied
    BY <1>2 DEF Copy, Copied, Pending
  <2>. QED BY <2>2, <2>3, <2>4
<1>3. ASSUME NEW q \in Requests, q = stored'[t][c]
      PROVE  req'[q].class = c /\ (req'[q].turn = t \/ ~undisturbed'[q])
  <2>1. CASE q = stored[t][c]
    <3>1. pc[q] # "unsent" /\ req[q].class = c /\ (req[q].turn = t \/ ~undisturbed[q])
      BY <2>1 DEF FilesAreOfTheirClass, IsTestOf, HistoryIsCurrent, TestShown, Requests, NoTest
    <3>. QED BY <3>1, SentStays
  <2>2. CASE q # stored[t][c]
    <3>1. PICK r \in Requests : Copy(r)
      BY <1>3, <2>2, OnlyWriteAndCopy
    <3>2. req[r].class = c /\ req[r].turn = t /\ q = tests[c]
      BY <1>2, <1>3, <2>2, <3>1
    <3>3. pc[q] # "unsent" /\ req[q].class = c
      BY <3>2 DEF FilesAreOfTheirClass, IsTestOf, Requests, NoTest
    <3>4. req[q].turn = t \/ ~undisturbed[q]
      BY <1>2, <3>1, <3>2 DEF CopiesOwnOrDisturbed
    <3>. QED BY <3>3, <3>4, SentStays
  <2>. QED BY <2>1, <2>2
<1>4. ASSUME NEW r \in Requests, r \in Copied', undisturbed'[r],
             req'[r].class = c, req'[r].turn = t
      PROVE  stored'[t][c] >= r
  <2>1. undisturbed[r] /\ (r \in Copied \/ Copy(r))
    BY <1>4, WrittenBefore
  <2>2. pc[r] # "unsent" /\ req'[r] = req[r]
    BY <1>2, <2>1, SentStays DEF Copied, Pending
  <2>3. CASE Copy(r)
    <3>1. stored'[t][c] = tests[c]
      BY <1>2, <1>4, <2>2, <2>3
    <3>2. r \in Written /\ tests[c] # NoTest
      BY <1>2, <1>4, <2>2, <2>3 DEF Written, CopiesOwnOrDisturbed
    <3>. QED BY <1>4, <2>1, <2>2, <3>1, <3>2 DEF TestsAreCurrent
  <2>4. CASE r \in Copied
    <3>1. stored[t][c] >= r
      BY <1>4, <2>1, <2>2, <2>4 DEF HistoryIsCurrent, TestShown
    <3>2. ASSUME NEW q \in Requests, Copy(q), req[q].class = c
          PROVE  tests[c] >= r
      <4>1. tests[c] # NoTest
        BY <1>2, <3>2 DEF CopiesOwnOrDisturbed
      <4>. QED BY <1>4, <2>1, <2>2, <2>4, <4>1 DEF TestsAreCurrent, Written
    <3>. QED BY <1>2, <3>1, <3>2, OnlyWriteAndCopy
  <2>. QED BY <2>1, <2>3, <2>4
<1>5. stored'[t][c] \in 0 .. MaxRequests
  BY SMTT(30), TypeStep DEF TypeOK
<1>. QED BY <1>3, <1>4, <1>5 DEF Requests, NoTest, Copied

\* A csv is replaced by a report with rows only, and deleted by nobody.
LEMMA CsvStays == ASSUME TypeOK, [Next]_vars PROVE csv # <<>> => csv' # <<>>
BY DEF Next, Send, Handle, Write, Copy, Clean, Compile, Measure, Move, Remove, Answer,
       Upload, Restart, project, vars

LEMMA AnsweredStep ==
    ASSUME TypeOK, AnsweredHasCsv, [Next]_vars
    PROVE  AnsweredHasCsv'
<1> SUFFICES ASSUME NEW r \in Requests, pc'[r] = "answered"
             PROVE  csv # <<>>
  BY CsvStays DEF AnsweredHasCsv
<1>1. CASE pc[r] = "answered"
  BY <1>1 DEF AnsweredHasCsv
<1>2. ASSUME pc[r] # "answered", NEW q \in Requests, Handle(q)
      PROVE  csv # <<>>
  <2>1. q = r
    BY <1>2, HandleFrame
  <2>. QED BY <1>2, <2>1 DEF Handle, Write, Copy, Clean, Compile, Measure, Move, Remove,
               Answer, Goto, Stop, Die, InFlight, TypeOK
<1>3. pc[r] # "answered" => \E q \in Requests : Handle(q)
  BY SendFrame DEF Next, Upload, Restart, vars
<1>. QED BY <1>1, <1>2, <1>3

-----------------------------------------------------------------------------
(* The invariant.                                                          *)

LEMMA InvInit == Init => Inv
<1> SUFFICES ASSUME Init PROVE Inv
  OBVIOUS
<1>1. /\ \A r \in Requests : pc[r] = "unsent" /\ undisturbed[r] = FALSE
      /\ \A c \in Classes : tests[c] = NoTest /\ \A t \in Turns : stored[t][c] = NoTest
  BY DEF Init
<1>2. Written = {} /\ Copied = {}
  BY <1>1 DEF Written, Copied, Pending
<1>3. PendingUp /\ SentInOrder /\ AloneHasNoCompany /\ AnsweredHasCsv
  BY <1>1 DEF PendingUp, SentInOrder, AloneHasNoCompany, AnsweredHasCsv, Pending
<1>4. FilesAreOfTheirClass /\ AloneIsFollowed /\ TestsAreCurrent /\ CopiesOwnOrDisturbed
  BY <1>1, <1>2 DEF FilesAreOfTheirClass, IsTestOf, AloneIsFollowed, TestsAreCurrent,
                    CopiesOwnOrDisturbed
<1>5. HistoryIsCurrent
  BY <1>1, <1>2 DEF HistoryIsCurrent, TestShown
<1>. QED BY <1>3, <1>4, <1>5, InitIsTyped DEF Inv

LEMMA InvStep == ASSUME Inv, [Next]_vars PROVE Inv'
<1> USE DEF Inv
<1>1. Ordered
  BY DEF Ordered
<1>2. TypeOK' /\ Ordered'
  BY <1>1, TypeStep, OrderStep
<1>3. FilesAreOfTheirClass' /\ AloneIsFollowed'
  BY <1>1, FilesStep, FollowStep
<1>4. TestsAreCurrent' /\ CopiesOwnOrDisturbed' /\ HistoryIsCurrent'
  BY <1>1, CurrentStep, CopyStep, HistoryStep
<1>5. AnsweredHasCsv'
  BY AnsweredStep
<1>. QED BY <1>2, <1>3, <1>4, <1>5 DEF Ordered

LEMMA Invariance == Spec => []Inv
BY InvInit, InvStep, PTL DEF Spec

-----------------------------------------------------------------------------
(* Theorems.                                                               *)

\* Every variable keeps its type: no script measures more criteria than there
\* are, and no report lies outside its directory.
THEOREM TypeCorrectness == Spec => []TypeOK
BY Invariance, PTL DEF Inv

\* The history shows tests of the right class, of the right turn unless requests
\* overlapped, and none older than what a request that was alone has stored.
THEOREM HistoryStaysCurrent == Spec => []HistoryIsCurrent
BY Invariance, PTL DEF Inv

\* A request that is alone is answered with all the rows EvoSuite wrote for its own
\* test and no others, whatever earlier requests left behind; without a row nobody
\* answers it.
THEOREM AloneServed == Spec => AloneIsServed
<1> DEFINE Served(r) ==
              \/ rows[r] > 0 /\ pc'[r] = "answered" /\ csv = [i \in 1 .. rows[r] |-> OwnRow(r)]
              \/ rows[r] = 0 /\ pc'[r] = "silent"
           A == \A r \in Requests :
                   undisturbed[r] /\ pc[r] \in Pending \ {"write"} /\ pc'[r] \in Ended
                   => Served(r)
<1>1. ASSUME Inv, [Next]_vars
      PROVE  A
  <2> SUFFICES ASSUME NEW r \in Requests, undisturbed[r],
                      pc[r] \in Pending \ {"write"}, pc'[r] \in Ended
               PROVE  Served(r)
    OBVIOUS
  <2>1. TypeOK /\ Follows(r) /\ rows[r] \in Nat
    BY <1>1 DEF Inv, AloneIsFollowed, TypeOK
  <2>2. ASSUME NEW q \in Requests, Handle(q)
        PROVE  q = r
    BY <1>1, <2>1, <2>2, HandleFrame DEF Inv, AloneHasNoCompany
  <2>3. pc'[r] # pc[r]
    BY DEF Pending, Ended
  <2>4. Handle(r)
    <3>1. ASSUME NEW q \in Requests, Send(q) PROVE FALSE
      BY <2>1, <2>3, <3>1, SendFrame DEF Pending
    <3>. QED BY <1>1, <2>2, <2>3, <3>1 DEF Next, Upload, Restart, vars
  <2>5. CASE Remove(r)
    BY <2>1, <2>5 DEF Remove, Goto, Follows, TypeOK, Ended
  <2>6. CASE Answer(r)
    <3>1. rows[r] > 0 /\ csv = OwnReport(r)
      BY <2>1, <2>6 DEF Answer, Follows
    <3>2. csv # <<>>
      BY <2>1, <3>1, NotEmpty DEF OwnReport
    <3>. QED BY <2>1, <2>6, <3>1, <3>2 DEF Answer, Goto, TypeOK, OwnReport
  <2>7. CASE Compile(r)
    <3>1. pc'[r] = "silent"
      BY <2>1, <2>7 DEF Compile, Goto, Stop, TypeOK, Ended
    <3>. QED BY <2>1, <2>7, <3>1 DEF Compile, Follows
  <2>8. CASE Measure(r)
    <3> DEFINE test == target[req[r].class].test
    <3>1. Stop(r, {test} \ {NoTest})
      BY <2>1, <2>8 DEF Measure, Goto, TypeOK, Ended
    <3>2. test # NoTest => test = r /\ req[r].runs = "ends"
      BY <2>1, <2>8 DEF Measure, Follows, OwnRow
    <3>. QED BY <3>1, <3>2 DEF Stop
  <2>9. CASE Write(r) \/ Copy(r) \/ Clean(r) \/ Move(r)
    BY SMTT(30), <2>1, <2>9 DEF Write, Copy, Clean, Move, Goto, TypeOK, Ended
  <2>. QED BY <2>4, <2>5, <2>6, <2>7, <2>8, <2>9 DEF Handle
<1>2. Inv /\ [Next]_vars => [A]_vars
  BY <1>1
<1>3. []Inv /\ [][Next]_vars => [][A]_vars
  BY <1>2, PTL
<1>. QED BY <1>3, Invariance, PTL DEF Spec, AloneIsServed

\* Once a measurement has been answered, only a test that cannot be written stops
\* the server: the csv it answers is never missing again.
THEOREM OnlyFailedWritesKill == Spec => OnlyWritesKill
<1> DEFINE A == up /\ ~up' /\ (\E q \in Requests : pc[q] = "answered")
                  => \E r \in Requests : pc[r] = "write"
<1>1. ASSUME Inv, [Next]_vars
      PROVE  A
  <2> SUFFICES ASSUME up, ~up', NEW q \in Requests, pc[q] = "answered"
               PROVE  \E r \in Requests : pc[r] = "write"
    OBVIOUS
  <2>1. csv # <<>>
    BY <1>1 DEF Inv, AnsweredHasCsv
  <2>. QED BY <1>1, <2>1 DEF Next, Send, Handle, Write, Copy, Clean, Compile, Measure, Move,
               Remove, Answer, Upload, Restart, vars
<1>2. Inv /\ [Next]_vars => [A]_vars
  BY <1>1
<1>3. []Inv /\ [][Next]_vars => [][A]_vars
  BY <1>2, PTL
<1>. QED BY <1>3, Invariance, PTL DEF Spec, OnlyWritesKill

-----------------------------------------------------------------------------
(* How many steps a request has left: what its end needs besides fairness. *)

StepsLeft(r) ==
    CASE pc[r] = "write"   -> Rows + 7
      [] pc[r] = "copy"    -> Rows + 6
      [] pc[r] = "clean"   -> Rows + 5
      [] pc[r] = "compile" -> Rows + 4
      [] pc[r] = "measure" -> left[r] + 3
      [] pc[r] = "move"    -> 3
      [] pc[r] = "remove"  -> 2
      [] pc[r] = "answer"  -> 1
      [] pc[r] = "stuck"   -> 1
      [] OTHER             -> 0

\* The steps that are left to a request that has arrived.
LEMMA StepsAreFinite ==
    ASSUME TypeOK, NEW r \in Requests
    PROVE  /\ StepsLeft(r) \in 0 .. Rows + 7
           /\ pc[r] \in Pending => StepsLeft(r) > 0
           /\ pc[r] \notin Pending => StepsLeft(r) = 0
<1>1. Rows \in Nat /\ left[r] \in 0 .. Rows
  BY MeasuringAssumption DEF TypeOK
<1>2. pc[r] \in Pending => StepsLeft(r) \in 0 .. Rows + 7 /\ StepsLeft(r) > 0
  BY <1>1 DEF StepsLeft, Pending
<1>3. pc[r] \notin Pending => StepsLeft(r) = 0
  BY DEF StepsLeft, Pending
<1> QED
  BY <1>1, <1>2, <1>3

\* A step of a request is one of those it had left.
LEMMA StepIsSpent ==
    ASSUME TypeOK, NEW r \in Requests, Handle(r)
    PROVE  StepsLeft(r)' < StepsLeft(r)
<1>1. Rows \in Nat /\ Rows > 0 /\ left[r] \in 0 .. Rows
  BY MeasuringAssumption DEF TypeOK
<1>2. ASSUME NEW step, Goto(r, step)
      PROVE  pc'[r] = step
  BY <1>2 DEF Goto, TypeOK
<1>3. CASE Die
  <2>1. pc[r] \in Pending /\ pc'[r] = "lost"
    BY <1>3, HandleFrame DEF Die, InFlight
  <2> QED
    BY <2>1, StepsAreFinite DEF StepsLeft
<1>4. CASE Write(r) /\ ~Die
  <2>1. pc[r] = "write" /\ pc'[r] = "copy"
    BY <1>2, <1>4 DEF Write
  <2> QED
    BY <1>1, <2>1 DEF StepsLeft
<1>5. CASE Copy(r)
  <2>1. pc[r] = "copy" /\ pc'[r] = "clean"
    BY <1>2, <1>5 DEF Copy
  <2> QED
    BY <1>1, <2>1 DEF StepsLeft
<1>6. CASE Clean(r)
  <2>1. pc[r] = "clean" /\ pc'[r] = "compile"
    BY <1>2, <1>6 DEF Clean
  <2> QED
    BY <1>1, <2>1 DEF StepsLeft
<1>7. CASE Compile(r)
  <2>1. pc[r] = "compile" /\ pc'[r] \in {"measure", "stuck", "silent"} /\ left'[r] = Rows
    BY <1>2, <1>7 DEF Compile, Stop, TypeOK
  <2> QED
    BY <1>1, <2>1 DEF StepsLeft
<1>8. CASE Measure(r)
  <2>1. /\ pc[r] = "measure" /\ left'[r] = left[r] - 1
        /\ \/ pc'[r] = IF left[r] = 1 THEN "move" ELSE "measure"
           \/ pc'[r] \in {"stuck", "silent"}
    BY <1>2, <1>8 DEF Measure, Stop, TypeOK
  <2>2. left[r] > 0
    BY <2>1 DEF TypeOK
  <2> QED
    BY <1>1, <2>1, <2>2 DEF StepsLeft
<1>9. CASE Move(r)
  <2>1. pc[r] = "move" /\ pc'[r] = "remove"
    BY <1>2, <1>9 DEF Move
  <2> QED
    BY <2>1 DEF StepsLeft
<1>10. CASE Remove(r)
  <2>1. pc[r] = "remove" /\ pc'[r] \in {"answer", "silent"}
    BY <1>2, <1>10 DEF Remove
  <2> QED
    BY <2>1 DEF StepsLeft
<1>11. CASE Answer(r) /\ ~Die
  <2>1. pc[r] = "answer" /\ pc'[r] = "answered"
    BY <1>2, <1>11 DEF Answer
  <2> QED
    BY <2>1 DEF StepsLeft
<1> QED
  BY <1>3, <1>4, <1>5, <1>6, <1>7, <1>8, <1>9, <1>10, <1>11 DEF Handle

\* Every step of the server on behalf of a request is one of at most Rows + 7 it has
\* left, and no other request, upload or restart ever gives it more: what is pending
\* for ever is a request whose script runs a test that does not end.
THEOREM StepsAreNumbered ==
    Spec => [][\A r \in Requests :
                  pc[r] \in Pending =>
                      /\ StepsLeft(r) \in 1 .. Rows + 7
                      /\ StepsLeft(r)' <= StepsLeft(r)
                      /\ Handle(r) => StepsLeft(r)' < StepsLeft(r)]_vars
<1> DEFINE A == \A r \in Requests :
                   pc[r] \in Pending =>
                       /\ StepsLeft(r) \in 1 .. Rows + 7
                       /\ StepsLeft(r)' <= StepsLeft(r)
                       /\ Handle(r) => StepsLeft(r)' < StepsLeft(r)
<1>1. ASSUME Inv, [Next]_vars
      PROVE  A
  <2>0. TypeOK
    BY <1>1 DEF Inv
  <2> SUFFICES ASSUME NEW r \in Requests, pc[r] \in Pending
               PROVE  /\ StepsLeft(r) \in 1 .. Rows + 7
                      /\ StepsLeft(r)' <= StepsLeft(r)
                      /\ Handle(r) => StepsLeft(r)' < StepsLeft(r)
    OBVIOUS
  <2>1. StepsLeft(r) \in 1 .. Rows + 7
    <3>1. Rows \in Nat
      BY MeasuringAssumption
    <3> QED
      BY <2>0, <3>1, StepsAreFinite
  <2>2. pc'[r] = pc[r] /\ left'[r] = left[r] => StepsLeft(r)' = StepsLeft(r)
    BY DEF StepsLeft
  <2>3. pc'[r] \notin Pending => StepsLeft(r)' = 0
    BY DEF StepsLeft, Pending
  <2>4. ASSUME NEW q \in Requests \ {r}, Handle(q)
        PROVE  pc'[r] = "lost" \/ (pc'[r] = pc[r] /\ left'[r] = left[r])
    <3>1. pc'[r] = "lost" \/ pc'[r] = pc[r]
      BY <2>0, <2>4, HandleFrame
    <3>2. left'[r] = left[r]
      BY <2>0, <2>4 DEF Handle, Write, Copy, Clean, Compile, Measure, Move, Remove, Answer, TypeOK
    <3> QED
      BY <3>1, <3>2
  <2>5. ASSUME NEW q \in Requests, Send(q)
        PROVE  pc'[r] = pc[r] /\ left'[r] = left[r]
    BY <2>0, <2>5, SendFrame DEF Pending
  <2>6. \/ Handle(r)
        \/ pc'[r] = "lost"
        \/ pc'[r] = pc[r] /\ left'[r] = left[r]
    BY <1>1, <2>4, <2>5 DEF Next, Upload, Restart, vars
  <2>7. pc'[r] = "lost" => StepsLeft(r)' = 0
    BY <2>3 DEF Pending
  <2>8. Handle(r) => StepsLeft(r)' < StepsLeft(r) /\ StepsLeft(r)' <= StepsLeft(r)
    <3>1. ASSUME Handle(r)
          PROVE  StepsLeft(r)' < StepsLeft(r)
      BY <2>0, <3>1, StepIsSpent
    <3>2. Rows \in Nat /\ left'[r] \in Nat
      <4>1. TypeOK'
        BY <1>1, <2>0, TypeStep
      <4> QED
        BY <4>1, MeasuringAssumption DEF TypeOK
    <3>3. StepsLeft(r)' \in Nat
      BY <3>2 DEF StepsLeft
    <3> QED
      BY <2>1, <3>1, <3>3
  <2> QED
    BY <2>1, <2>2, <2>6, <2>7, <2>8
<1>2. Inv /\ [Next]_vars => [A]_vars
  BY <1>1
<1>3. []Inv /\ [][Next]_vars => [][A]_vars
  BY <1>2, PTL
<1> QED
  BY <1>3, Invariance, PTL DEF Spec
=============================================================================

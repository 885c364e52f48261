--------------------------- MODULE Catalogue_proofs ---------------------------
(***************************************************************************)
(* Proofs about Catalogue, for any number of requests, names, levels,      *)
(* administrators and faults.  The order of the log follows from the       *)
(* acquaintance of the requests that are in flight together; so does that  *)
(* the first upload of a class works undisturbed, from which it follows    *)
(* that what is listed has its robots.                                     *)
(***************************************************************************)
EXTENDS Catalogue, TLAPS

\* Requests that are in flight together have met.
InFlightHaveMet == \A q \in InFlight : \A r \in InFlight \ {q} : r \in met[q]

\* A request that was not sent has met none.
UnsentAlone == \A r \in Requests : pc[r] = "unsent" => met[r] = {}

\* An entry was numbered before it was inserted.
NumberedBefore == \A i \in 1 .. Len(log) : log[i].id < i

\* An entry still to be inserted was numbered after those of the requests its own
\* has not met.
CountedAll ==
    \A r \in Requests : pc[r] = "log" =>
        /\ local[r].id <= Len(log)
        /\ \A i \in 1 .. Len(log) : log[i].of \notin met[r] => i <= local[r].id

IInv ==
    /\ TypeOK
    /\ InFlightHaveMet
    /\ UnsentAlone
    /\ NumberedBefore
    /\ CountedAll
    /\ LogIsOrdered

-----------------------------------------------------------------------------
(* Types.                                                                  *)

\* Local variables at the start of a handler.
LEMMA NoLocalsType == NoLocals \in Locals
BY CatalogueAssumption DEF NoLocals, Locals, People, Entries

\* A request goes to a step with local variables of their types.
LEMMA GotoType ==
    ASSUME TypeOK, NEW r \in Requests, NEW step \in Steps, NEW l \in Locals, Goto(r, step, l)
    PROVE  pc' \in [Requests -> Steps] /\ local' \in [Requests -> Locals]
BY NoLocalsType DEF Goto, TypeOK

\* What a directory lists are levels, or 0.
LEMMA ListedType ==
    ASSUME NEW d \in Tests
    PROVE  Listed(d) \in Entries
BY CatalogueAssumption DEF Listed, Levels, Tests, Entries

\* Generation adds levels to a directory.
LEMMA GeneratedType ==
    ASSUME NEW d \in Tests, NEW k \in Int, NEW v \in 0 .. MaxRequests
    PROVE  Generated(d, k, v) \in Tests
BY DEF Generated, Tests

\* So does an archive that is unpacked.
LEMMA UnpackedType ==
    ASSUME NEW d \in Tests, NEW held, NEW r \in Requests
    PROVE  Unpacked(d, held, r) \in Tests
<1>1. r \in 0 .. MaxRequests
  BY CatalogueAssumption DEF Requests
<1>2. [l \in Levels |-> IF l \in held THEN r ELSE d.level[l]] \in [Levels -> 0 .. MaxRequests]
  BY <1>1 DEF Tests
<1>3. d.odd \cup {r} \in SUBSET Requests /\ d.odd \ {r} \in SUBSET Requests
  BY DEF Tests
<1> QED
  BY <1>2, <1>3 DEF Unpacked, Tests

\* Listing a directory leaves the types as they are.
LEMMA ListType ==
    ASSUME TypeOK, NEW r \in Requests, NEW d \in Tests, NEW step \in Steps, List(r, d, step)
    PROVE  pc' \in [Requests -> Steps] /\ local' \in [Requests -> Locals]
<1>1. [local[r] EXCEPT !.todo = Listed(d)] \in Locals
  <2>1. local[r] \in Locals
    BY DEF TypeOK
  <2> QED
    BY <2>1, ListedType DEF Locals
<1>2. "failed" \in Steps
  BY DEF Steps
<1>3. CASE Goto(r, step, [local[r] EXCEPT !.todo = Listed(d)])
  BY <1>1, <1>3, GotoType
<1>4. CASE Goto(r, "failed", NoLocals)
  BY <1>2, <1>4, GotoType, NoLocalsType
<1> QED
  BY <1>3, <1>4 DEF List

\* A robot added to the table of T4.
LEMMA AddRobotType ==
    ASSUME IsABag(robots), BagToSet(robots) \subseteq Robots, NEW x \in Robots,
           robots' = robots (+) SetToBag({x})
    PROVE  IsABag(robots)' /\ BagToSet(robots)' \subseteq Robots
BY DEF IsABag, BagToSet, SetToBag, (+)

\* One turn of a loop over the results keeps the types.
LEMMA StoreType ==
    ASSUME TypeOK, NEW r \in Requests, NEW t \in RobotTypes, NEW l \in local[r].todo,
           Store(r, t, l)
    PROVE  /\ pc' \in [Requests -> Steps] /\ local' \in [Requests -> Locals]
           /\ IsABag(robots)' /\ BagToSet(robots)' \subseteq Robots
           /\ refused' \subseteq Requests /\ faults' \in 0 .. MaxFaults
<1>1. l \in 0 .. MaxLevel
  BY DEF TypeOK, Locals, Entries
<1>2. CASE Goto(r, "failed", NoLocals) /\ UNCHANGED <<robots, refused, faults>>
  <2>1. "failed" \in Steps
    BY DEF Steps
  <2>2. pc' \in [Requests -> Steps] /\ local' \in [Requests -> Locals]
    BY <1>2, <2>1, GotoType, NoLocalsType
  <2> QED
    BY <1>2, <2>2 DEF TypeOK, IsABag, BagToSet
<1>3. CASE l # 0 /\ Post(r, t, l) /\ Goto(r, pc[r], [local[r] EXCEPT !.todo = @ \ {l},
                                         !.liv = IF t = "randoop" /\ l > @ THEN l ELSE @])
  <2> DEFINE L == [local[r] EXCEPT !.todo = @ \ {l},
                                   !.liv = IF t = "randoop" /\ l > @ THEN l ELSE @]
             x == [name |-> req[r].name, type |-> t, level |-> l,
                   version |-> tests[t][req[r].name].level[l], by |-> r]
  <2>1. L \in Locals
    <3>1. local[r] \in Locals
      BY DEF TypeOK
    <3> QED
      BY <1>1, <3>1 DEF Locals, Entries
  <2>2. pc[r] \in Steps
    BY DEF TypeOK
  <2>3. pc' \in [Requests -> Steps] /\ local' \in [Requests -> Locals]
    BY <1>3, <2>1, <2>2, GotoType
  <2>4. x \in Robots
    <3>1. l \in Levels /\ req[r].name \in Names
      BY SMTT(30), <1>1, <1>3, CatalogueAssumption DEF TypeOK, Asked, Levels
    <3>2. tests[t][req[r].name] \in Tests
      BY <3>1 DEF TypeOK
    <3>3. tests[t][req[r].name].level[l] \in 0 .. MaxRequests
      BY <3>1, <3>2 DEF Tests
    <3> QED
      BY <3>1, <3>3 DEF Robots
  <2>5. CASE robots' = robots (+) SetToBag({x}) /\ UNCHANGED <<refused, faults>>
    <3>1. IsABag(robots)' /\ BagToSet(robots)' \subseteq Robots
      BY <2>4, <2>5, AddRobotType DEF TypeOK
    <3> QED
      BY <2>3, <2>5, <3>1 DEF TypeOK
  <2>6. CASE Fault /\ UNCHANGED robots /\ refused' = refused \cup {r}
    <3>1. faults' \in 0 .. MaxFaults
      <4>1. faults < MaxFaults /\ faults' = faults + 1
        BY <2>6 DEF Fault
      <4>2. faults \in 0 .. MaxFaults /\ MaxFaults \in Nat
        BY CatalogueAssumption DEF TypeOK
      <4> QED
        BY <4>1, <4>2
    <3>2. IsABag(robots)' /\ BagToSet(robots)' \subseteq Robots
      BY <2>6 DEF TypeOK, IsABag, BagToSet
    <3> QED
      BY <2>3, <2>6, <3>1, <3>2 DEF TypeOK
  <2> QED
    BY <1>3, <2>5, <2>6 DEF Post
<1> QED
  BY <1>2, <1>3 DEF Store

-----------------------------------------------------------------------------
(* Every step keeps the types.                                             *)

\* What only some steps change.
SessionTypes ==
    /\ admin \in People /\ accounts \subseteq Admins /\ entries \in 0 .. MaxEntries
DiskTypes ==
    /\ files \in [Names -> 0 .. MaxRequests]
    /\ source \in [Names -> 0 .. MaxRequests]
    /\ tests \in [RobotTypes -> [Names -> Tests]]
RobotTypesOK == IsABag(robots) /\ BagToSet(robots) \subseteq Robots
ListTypes ==
    /\ docs \subseteq [upload : Requests, name : Names]
    /\ log \in Seq([id : Nat, admin : People, of : Requests])
HistoryTypes == met \in [Requests -> SUBSET Requests] /\ refused \subseteq Requests
ReqTypes == req \in [Requests -> Asked]

Parts ==
    /\ pc \in [Requests -> Steps] /\ local \in [Requests -> Locals]
    /\ ReqTypes /\ SessionTypes /\ DiskTypes /\ RobotTypesOK /\ ListTypes
    /\ HistoryTypes /\ faults \in 0 .. MaxFaults

\* The type invariant by its parts, before and after a step.
LEMMA TypesOfParts == (Parts => TypeOK) /\ (Parts' => TypeOK')
BY DEF Parts, TypeOK, ReqTypes, SessionTypes, DiskTypes, RobotTypesOK, ListTypes, HistoryTypes

\* What stays as it was keeps its types.
LEMMA SameParts ==
    ASSUME TypeOK
    PROVE  /\ UNCHANGED req => ReqTypes'
           /\ UNCHANGED session => SessionTypes'
           /\ UNCHANGED disk => DiskTypes'
           /\ UNCHANGED robots => RobotTypesOK'
           /\ UNCHANGED lists => ListTypes'
           /\ UNCHANGED history => HistoryTypes'
           /\ UNCHANGED faults => faults' \in 0 .. MaxFaults
BY DEF TypeOK, ReqTypes, SessionTypes, DiskTypes, RobotTypesOK, ListTypes, HistoryTypes,
       session, disk, lists, history, IsABag, BagToSet

LEMMA InitType == Init => TypeOK
<1> SUFFICES ASSUME Init PROVE TypeOK
  OBVIOUS
<1>1. local \in [Requests -> Locals]
  BY NoLocalsType DEF Init
<1>2. ReqTypes
  <2>1. (CHOOSE n \in Names : TRUE) \in Names
    BY CatalogueAssumption
  <2>2. [t \in RobotTypes |-> {}] \in [RobotTypes -> Entries]
    BY DEF Entries
  <2> QED
    BY <2>1, <2>2 DEF Init, ReqTypes, Asked, Kinds, People
<1>3. DiskTypes
  <2>1. NoTests \in Tests
    BY CatalogueAssumption DEF NoTests, Tests
  <2> QED
    BY <2>1, CatalogueAssumption DEF Init, DiskTypes
<1>4. RobotTypesOK
  BY DEF Init, RobotTypesOK, EmptyBag, SetToBag, IsABag, BagToSet
<1>5. pc \in [Requests -> Steps] /\ SessionTypes /\ ListTypes /\ HistoryTypes
        /\ faults \in 0 .. MaxFaults
  BY CatalogueAssumption
  DEF Init, Steps, SessionTypes, People, ListTypes, HistoryTypes
<1> QED
  BY <1>1, <1>2, <1>3, <1>4, <1>5, TypesOfParts DEF Parts

\* Steps of a session.
LEMMA EnterType ==
    ASSUME TypeOK, NEW a \in Admins, Register(a) \/ Login(a)
    PROVE  TypeOK'
<1>2. SessionTypes'
  BY CatalogueAssumption DEF TypeOK, SessionTypes, Register, Login, People
<1>3. faults' \in 0 .. MaxFaults
  BY CatalogueAssumption DEF TypeOK, Register, Login, Fault
<1>4. pc' \in [Requests -> Steps] /\ local' \in [Requests -> Locals]
  BY DEF TypeOK, Register, Login
<1>5. UNCHANGED <<req, robots, lists, disk, history>>
  BY DEF Register, Login
<1>6. ReqTypes' /\ DiskTypes' /\ RobotTypesOK' /\ ListTypes' /\ HistoryTypes'
  BY <1>5, SameParts
<1> QED
  BY <1>2, <1>3, <1>4, <1>6, TypesOfParts DEF Parts

LEMMA SendType ==
    ASSUME TypeOK, NEW r \in Requests, Send(r)
    PROVE  TypeOK'
<1>1. PICK m \in Menu[r] : req' = [req EXCEPT ![r] = m] /\ Goto(r, First(m.kind), NoLocals)
  BY DEF Send
<1>2. m \in Asked /\ m.kind \in Kinds
  BY CatalogueAssumption DEF Requests, Asked, People
<1>3. First(m.kind) \in Steps
  BY <1>2 DEF First, Steps, Kinds
<1>4. pc' \in [Requests -> Steps] /\ local' \in [Requests -> Locals]
  BY <1>1, <1>3, GotoType, NoLocalsType
<1>5. ReqTypes'
  BY <1>1, <1>2 DEF TypeOK, ReqTypes
<1>6. HistoryTypes'
  BY SMTT(30) DEF TypeOK, HistoryTypes, Send, InFlight
<1>7. SessionTypes' /\ DiskTypes' /\ RobotTypesOK' /\ ListTypes' /\ faults' \in 0 .. MaxFaults
  BY SameParts DEF Send
<1> QED
  BY <1>4, <1>5, <1>6, <1>7, TypesOfParts DEF Parts

\* The steps of an upload.
LEMMA UploadType ==
    ASSUME TypeOK, NEW r \in Requests, Upload(r)
    PROVE  TypeOK'
<1> DEFINE n == req[r].name
<1>0. /\ n \in Names /\ req[r].kind \in Kinds
      /\ r \in 0 .. MaxRequests
      /\ source[n] \in 0 .. MaxRequests
      /\ \A t \in RobotTypes : tests[t][n] \in Tests
      /\ local[r] \in Locals
  BY CatalogueAssumption DEF TypeOK, Asked, Requests
<1>1. ReqTypes' /\ SessionTypes' /\ ListTypes'
  BY SameParts DEF Upload, Save, PlaceSource, Randoop, StoreRandoop, Evosuite, StoreEvosuite,
                   PlaceArchives, Unzip
<1>2. ASSUME UNCHANGED <<robots, history, faults>>
      PROVE  RobotTypesOK' /\ HistoryTypes' /\ faults' \in 0 .. MaxFaults
  BY <1>2, SameParts
<1>3. CASE Save(r)
  <2>1. pc' \in [Requests -> Steps] /\ local' \in [Requests -> Locals]
    BY <1>3, GotoType, NoLocalsType DEF Save, Steps
  <2>2. DiskTypes'
    BY <1>0, <1>3 DEF TypeOK, Save, DiskTypes
  <2> QED
    BY <1>1, <1>2, <1>3, <2>1, <2>2, TypesOfParts DEF Parts, Save
<1>4. CASE PlaceSource(r)
  <2>0. (IF req[r].kind = "upload" THEN "randoop" ELSE "archives") \in Steps
    BY DEF Steps
  <2>1. pc' \in [Requests -> Steps] /\ local' \in [Requests -> Locals]
    BY <1>4, <2>0, GotoType, NoLocalsType DEF PlaceSource
  <2>2. DiskTypes'
    BY <1>0, <1>4 DEF TypeOK, PlaceSource, DiskTypes
  <2> QED
    BY <1>1, <1>2, <1>4, <2>1, <2>2, TypesOfParts DEF Parts, PlaceSource
<1>5. CASE Randoop(r)
  <2>1. PICK k \in [Names -> -1 .. MaxLevel] :
          tests' = [tests EXCEPT !["randoop"] =
              [c \in Names |-> IF k[c] = -1 THEN @[c] ELSE Generated(@[c], k[c], source[c])]]
    BY <1>5 DEF Randoop
  <2>2. \A c \in Names : Generated(tests["randoop"][c], k[c], source[c]) \in Tests
    <3>1. "randoop" \in RobotTypes
      BY DEF RobotTypes
    <3>2. \A c \in Names : /\ tests["randoop"][c] \in Tests /\ k[c] \in Int
                           /\ source[c] \in 0 .. MaxRequests
      BY <2>1, <3>1, CatalogueAssumption DEF TypeOK
    <3> QED
      BY <3>2, GeneratedType
  <2>3. tests' \in [RobotTypes -> [Names -> Tests]]
    BY <2>1, <2>2 DEF TypeOK, RobotTypes
  <2>4. DiskTypes'
    BY <1>5, <2>3 DEF TypeOK, Randoop, DiskTypes
  <2>5. tests'["randoop"][n] \in Tests
    BY <1>0, <2>3 DEF RobotTypes
  <2>6. pc' \in [Requests -> Steps] /\ local' \in [Requests -> Locals]
    BY <1>5, <2>5, ListType DEF Randoop, Steps
  <2> QED
    BY <1>1, <1>2, <1>5, <2>4, <2>6, TypesOfParts DEF Parts, Randoop
<1>6. CASE StoreRandoop(r)
  <2>1. "randoop" \in RobotTypes
    BY DEF RobotTypes
  <2>2. /\ pc' \in [Requests -> Steps] /\ local' \in [Requests -> Locals]
        /\ IsABag(robots)' /\ BagToSet(robots)' \subseteq Robots
        /\ refused' \subseteq Requests /\ faults' \in 0 .. MaxFaults
    BY <1>6, <2>1, StoreType DEF StoreRandoop
  <2>3. RobotTypesOK' /\ HistoryTypes'
    BY <1>6, <2>2 DEF TypeOK, StoreRandoop, RobotTypesOK, HistoryTypes
  <2>4. DiskTypes'
    BY <1>6, SameParts DEF StoreRandoop
  <2> QED
    BY <1>1, <2>2, <2>3, <2>4, TypesOfParts DEF Parts
<1>7. CASE Evosuite(r)
  <2>1. tests' \in [RobotTypes -> [Names -> Tests]]
    <3>1. CASE UNCHANGED tests
      BY <3>1 DEF TypeOK
    <3>2. ASSUME NEW k \in 1 .. local[r].liv,
                 tests' = [tests EXCEPT !["evosuite"][n] = Generated(@, k, source[n])]
          PROVE  tests' \in [RobotTypes -> [Names -> Tests]]
      <4>1. "evosuite" \in RobotTypes /\ k \in Int
        BY <1>0, CatalogueAssumption DEF RobotTypes, Locals
      <4>2. Generated(tests["evosuite"][n], k, source[n]) \in Tests
        BY <1>0, <4>1, GeneratedType
      <4> QED
        BY <1>0, <3>2, <4>1, <4>2 DEF TypeOK
    <3> QED
      BY <1>7, <3>1, <3>2 DEF Evosuite
  <2>2. tests'["evosuite"][n] \in Tests
    BY <1>0, <2>1 DEF RobotTypes
  <2>3. pc' \in [Requests -> Steps] /\ local' \in [Requests -> Locals]
    BY <1>7, <2>2, ListType DEF Evosuite, Steps
  <2>4. DiskTypes'
    BY <1>7, <2>1 DEF TypeOK, Evosuite, DiskTypes
  <2> QED
    BY <1>1, <1>2, <1>7, <2>3, <2>4, TypesOfParts DEF Parts, Evosuite
<1>8. CASE StoreEvosuite(r)
  <2>1. "evosuite" \in RobotTypes /\ "count" \in Steps
    BY DEF RobotTypes, Steps
  <2>2. DiskTypes'
    BY <1>8, SameParts DEF StoreEvosuite
  <2>3. CASE \E l \in local[r].todo : Store(r, "evosuite", l)
    <3>1. /\ pc' \in [Requests -> Steps] /\ local' \in [Requests -> Locals]
          /\ IsABag(robots)' /\ BagToSet(robots)' \subseteq Robots
          /\ refused' \subseteq Requests /\ faults' \in 0 .. MaxFaults
      BY <2>1, <2>3, StoreType
    <3>2. RobotTypesOK' /\ HistoryTypes'
      BY <1>8, <3>1 DEF TypeOK, StoreEvosuite, RobotTypesOK, HistoryTypes
    <3> QED
      BY <1>1, <2>2, <3>1, <3>2, TypesOfParts DEF Parts
  <2>4. CASE Goto(r, "count", NoLocals) /\ UNCHANGED <<robots, refused, faults>>
    <3>1. pc' \in [Requests -> Steps] /\ local' \in [Requests -> Locals]
      BY <2>1, <2>4, GotoType, NoLocalsType
    <3>2. UNCHANGED history
      BY <1>8, <2>4 DEF StoreEvosuite, history
    <3> QED
      BY <1>1, <1>2, <2>2, <2>4, <3>1, <3>2, TypesOfParts DEF Parts
  <2> QED
    BY <1>8, <2>3, <2>4 DEF StoreEvosuite
<1>9. CASE PlaceArchives(r)
  <2> DEFINE Hidden(d, l) == [d EXCEPT !.made = TRUE, !.odd = @ \cup {r},
                                  !.level = [m \in Levels |-> IF m = l THEN 0 ELSE @[m]]]
  <2>1. PICK first \in [RobotTypes -> 0 .. MaxLevel + 1] :
          /\ tests' = [t \in RobotTypes |-> [tests[t] EXCEPT ![n] = Hidden(@, first[t])]]
          /\ Goto(r, "unzip", [NoLocals EXCEPT !.took =
                                  {t \in RobotTypes : first[t] = MaxLevel + 1}])
    BY <1>9 DEF PlaceArchives
  <2>2. \A d \in Tests, l \in Int : Hidden(d, l) \in Tests
    <3>1. SUFFICES ASSUME NEW d \in Tests, NEW l \in Int PROVE Hidden(d, l) \in Tests
      OBVIOUS
    <3>2. [m \in Levels |-> IF m = l THEN 0 ELSE d.level[m]] \in [Levels -> 0 .. MaxRequests]
      BY CatalogueAssumption DEF Tests
    <3>3. d.odd \cup {r} \in SUBSET Requests
      BY DEF Tests
    <3> QED
      BY <3>2, <3>3 DEF Tests
  <2>3. \A t \in RobotTypes : first[t] \in Int
    BY CatalogueAssumption
  <2>4. \A t \in RobotTypes : Hidden(tests[t][n], first[t]) \in Tests
    BY <1>0, <2>2, <2>3
  <2> HIDE DEF Hidden
  <2>5. tests' \in [RobotTypes -> [Names -> Tests]]
    BY <1>0, <2>1, <2>4 DEF TypeOK
  <2>6. [NoLocals EXCEPT !.took = {t \in RobotTypes : first[t] = MaxLevel + 1}] \in Locals
    BY NoLocalsType DEF Locals
  <2>7. pc' \in [Requests -> Steps] /\ local' \in [Requests -> Locals]
    BY <2>1, <2>6, GotoType DEF Steps
  <2>8. DiskTypes'
    BY <1>9, <2>5 DEF TypeOK, PlaceArchives, DiskTypes
  <2> QED
    BY <1>1, <1>2, <1>9, <2>7, <2>8, TypesOfParts DEF Parts, PlaceArchives
<1>10. CASE Unzip(r)
  <2> DEFINE good == {t \in local[r].took : t = "evosuite" => "randoop" \in local[r].took}
  <2>1. tests' = [t \in RobotTypes |->
                     IF t \in good THEN [tests[t] EXCEPT ![n] = Unpacked(@, req[r].holds[t], r)]
                                  ELSE tests[t]]
    BY <1>10 DEF Unzip
  <2>2. \A t \in RobotTypes : Unpacked(tests[t][n], req[r].holds[t], r) \in Tests
    BY <1>0, UnpackedType
  <2>4. tests' \in [RobotTypes -> [Names -> Tests]]
    BY <1>0, <2>1, <2>2 DEF TypeOK
  <2>5. tests'["randoop"][n] \in Tests
    BY <1>0, <2>4 DEF RobotTypes
  <2>6. "storeRandoop" \in Steps /\ "failed" \in Steps
    BY DEF Steps
  <2>7. pc' \in [Requests -> Steps] /\ local' \in [Requests -> Locals]
    BY <1>10, <2>5, <2>6, ListType, GotoType, NoLocalsType DEF Unzip
  <2>8. DiskTypes'
    BY <1>10, <2>4 DEF TypeOK, Unzip, DiskTypes
  <2> QED
    BY <1>1, <1>2, <1>10, <2>7, <2>8, TypesOfParts DEF Parts, Unzip
<1> QED
  BY <1>3, <1>4, <1>5, <1>6, <1>7, <1>8, <1>9, <1>10 DEF Upload

\* The steps over the log and the classes, and a step that throws.
LEMMA RecordType ==
    ASSUME TypeOK, NEW r \in Requests, Record(r) \/ Fail(r)
    PROVE  TypeOK'
<1>0. /\ req[r].name \in Names /\ req[r].to \in Names /\ req[r].kind \in Kinds
      /\ local[r] \in Locals
  BY DEF TypeOK, Asked
<1>1. ReqTypes' /\ SessionTypes' /\ RobotTypesOK' /\ HistoryTypes'
  BY SameParts DEF Record, Count, Log, ListClass, Remove, Unlist, Edit, Fail
<1>2. faults' \in 0 .. MaxFaults
  BY SMTT(30), CatalogueAssumption
  DEF TypeOK, Record, Count, Log, ListClass, Remove, Unlist, Edit, Fail, Fault
<1>3. pc' \in [Requests -> Steps] /\ local' \in [Requests -> Locals]
  <2>1. CASE Count(r)
    <3>1. [NoLocals EXCEPT !.id = Len(log), !.admin = admin] \in Locals
      <4>1. Len(log) \in Nat /\ admin \in People
        BY DEF TypeOK
      <4> QED
        BY <4>1, NoLocalsType DEF Locals
    <3> QED
      BY <2>1, <3>1, GotoType DEF Count, Steps
  <2>2. CASE Log(r)
    <3>1. AfterLog(req[r].kind) \in Steps
      BY <1>0 DEF AfterLog, Steps, Kinds
    <3> QED
      BY <2>2, <3>1, GotoType, NoLocalsType DEF Log
  <2>3. CASE ListClass(r) \/ Unlist(r) \/ Edit(r) \/ Fail(r)
    BY <2>3, GotoType, NoLocalsType DEF ListClass, Unlist, Edit, Fail, Steps
  <2>4. CASE Remove(r)
    <3>1. (IF req[r].kind = "delete" THEN "count" ELSE "done") \in Steps
      BY DEF Steps
    <3> QED
      BY <2>4, <3>1, GotoType, NoLocalsType DEF Remove
  <2> QED
    BY <2>1, <2>2, <2>3, <2>4 DEF Record
<1>4. DiskTypes'
  <2>1. CASE Remove(r)
    <3>1. files' \in [Names -> 0 .. MaxRequests]
      <4>1. CASE files' = [files EXCEPT ![req[r].name] = 0]
        <5>1. 0 \in 0 .. MaxRequests
          BY CatalogueAssumption
        <5>2. files \in [Names -> 0 .. MaxRequests]
          BY DEF TypeOK, DiskTypes
        <5> QED
          BY <4>1, <5>1, <5>2
      <4>2. CASE UNCHANGED files
        BY <4>2 DEF TypeOK, DiskTypes
      <4> QED
        BY <2>1, <4>1, <4>2 DEF Remove
    <3>2. UNCHANGED <<source, tests>>
      BY <2>1 DEF Remove
    <3> QED
      BY <3>1, <3>2 DEF TypeOK, DiskTypes
  <2>2. CASE UNCHANGED disk
    BY <2>2, SameParts
  <2> QED
    BY <2>1, <2>2 DEF Record, Count, Log, ListClass, Unlist, Edit, Fail
<1>5. ListTypes'
  <2>1. CASE Log(r)
    <3>1. [id |-> local[r].id, admin |-> local[r].admin, of |-> r]
            \in [id : Nat, admin : People, of : Requests]
      BY <1>0 DEF Locals
    <3> QED
      BY <2>1, <3>1 DEF TypeOK, Log, ListTypes
  <2>2. CASE ListClass(r)
    BY <1>0, <2>2 DEF TypeOK, ListClass, ListTypes
  <2>3. CASE Unlist(r)
    BY <2>3 DEF TypeOK, Unlist, ListTypes
  <2>4. CASE Edit(r)
    BY <1>0, <2>4 DEF TypeOK, Edit, ListTypes, Called
  <2>5. CASE UNCHANGED lists
    BY <2>5, SameParts
  <2> QED
    BY <2>1, <2>2, <2>3, <2>4, <2>5 DEF Record, Count, Remove, Fail
<1> QED
  BY <1>1, <1>2, <1>3, <1>4, <1>5, TypesOfParts DEF Parts

LEMMA RestartType ==
    ASSUME TypeOK, Restart
    PROVE  TypeOK'
<1>1. pc' \in [Requests -> Steps] /\ local' \in [Requests -> Locals]
  BY NoLocalsType DEF TypeOK, Restart, Steps
<1>2. SessionTypes'
  BY DEF TypeOK, Restart, SessionTypes, People
<1>3. faults' \in 0 .. MaxFaults
  BY CatalogueAssumption DEF TypeOK, Restart, Fault
<1>4. ReqTypes' /\ DiskTypes' /\ RobotTypesOK' /\ ListTypes' /\ HistoryTypes'
  BY SameParts DEF Restart
<1> QED
  BY <1>1, <1>2, <1>3, <1>4, TypesOfParts DEF Parts

LEMMA NextType == TypeOK /\ [Next]_vars => TypeOK'
<1> SUFFICES ASSUME TypeOK, [Next]_vars PROVE TypeOK'
  OBVIOUS
<1>1. CASE UNCHANGED vars
  <2>1. pc' \in [Requests -> Steps] /\ local' \in [Requests -> Locals]
    BY <1>1 DEF TypeOK, vars
  <2>2. /\ ReqTypes' /\ SessionTypes' /\ DiskTypes' /\ RobotTypesOK' /\ ListTypes'
        /\ HistoryTypes' /\ faults' \in 0 .. MaxFaults
    BY <1>1, SameParts DEF vars
  <2> QED
    BY <2>1, <2>2, TypesOfParts DEF Parts
<1> QED
  BY <1>1, EnterType, SendType, UploadType, RecordType, RestartType DEF Next

\* Every variable of T1, the directories of the generators and the table of robots
\* keep their types: no level above the last is ever stored.
THEOREM TypeCorrectness == Spec => []TypeOK
BY InitType, NextType, PTL DEF Spec

-----------------------------------------------------------------------------
(* The administrator and the order of the log.                             *)

\* What a step does with pc and the log, whichever it is.
LEMMA StepsOfOne ==
    ASSUME TypeOK, NEW r \in Requests, Upload(r) \/ Record(r) \/ Fail(r)
    PROVE  /\ UNCHANGED <<req, met, session>>
           /\ pc[r] \notin Over
           /\ \A q \in Requests \ {r} : pc'[q] = pc[q] /\ local'[q] = local[q]
           /\ pc'[r] # "unsent"
           /\ pc'[r] = "log" => Count(r)
           /\ Log(r) \/ UNCHANGED log
<1>1. ASSUME NEW step, NEW l, Goto(r, step, l)
      PROVE  /\ \A q \in Requests \ {r} : pc'[q] = pc[q] /\ local'[q] = local[q]
             /\ pc'[r] = step
  BY <1>1 DEF Goto, TypeOK
<1>2. ASSUME NEW d, NEW step \in {"storeRandoop", "storeEvosuite"}, List(r, d, step)
      PROVE  /\ \A q \in Requests \ {r} : pc'[q] = pc[q] /\ local'[q] = local[q]
             /\ pc'[r] \in {step, "failed"}
  BY <1>1, <1>2 DEF List
<1>3. ASSUME NEW t, NEW l, Store(r, t, l), pc[r] \in {"storeRandoop", "storeEvosuite"}
      PROVE  /\ \A q \in Requests \ {r} : pc'[q] = pc[q] /\ local'[q] = local[q]
             /\ pc'[r] \in {pc[r], "failed"}
  BY <1>1, <1>3 DEF Store
<1>4. CASE Save(r) \/ PlaceSource(r) \/ PlaceArchives(r)
  <2>1. CASE Save(r)
    BY <1>1, <2>1 DEF Save, Over, history, session, lists
  <2>2. CASE PlaceSource(r)
    <3>1. /\ \A q \in Requests \ {r} : pc'[q] = pc[q] /\ local'[q] = local[q]
          /\ pc'[r] \in {"randoop", "archives"}
      BY <1>1, <2>2 DEF PlaceSource
    <3> QED
      BY <2>2, <3>1 DEF PlaceSource, Over, history, session, lists
  <2>3. CASE PlaceArchives(r)
    <3>1. /\ \A q \in Requests \ {r} : pc'[q] = pc[q] /\ local'[q] = local[q]
          /\ pc'[r] = "unzip"
      BY <1>1, <2>3 DEF PlaceArchives
    <3> QED
      BY <2>3, <3>1 DEF PlaceArchives, Over, history, session, lists
  <2> QED
    BY <1>4, <2>1, <2>2, <2>3
<1>5. CASE Randoop(r) \/ Evosuite(r)
  BY <1>2, <1>5 DEF Randoop, Evosuite, Over, history, session, lists
<1>6. CASE StoreRandoop(r)
  BY <1>3, <1>6 DEF StoreRandoop, Over, session, lists
<1>7. CASE StoreEvosuite(r)
  BY <1>1, <1>3, <1>7 DEF StoreEvosuite, Over, session, lists
<1>8. CASE Unzip(r)
  <2>1. pc[r] = "unzip" /\ UNCHANGED <<req, session, lists, history>>
    BY <1>8 DEF Unzip
  <2>2. \/ \E d : List(r, d, "storeRandoop")
        \/ Goto(r, "failed", NoLocals)
    BY <1>8 DEF Unzip
  <2>3. /\ \A q \in Requests \ {r} : pc'[q] = pc[q] /\ local'[q] = local[q]
        /\ pc'[r] \in {"storeRandoop", "failed"}
    BY <1>1, <1>2, <2>2
  <2> QED
    BY <2>1, <2>3 DEF Over, history, session, lists
<1>9. CASE Record(r)
  <2>1. req[r].kind \in Kinds
    BY DEF TypeOK, Asked
  <2>2. AfterLog(req[r].kind) \in {"list", "unlist", "done"}
    BY <2>1 DEF AfterLog, Kinds
  <2> QED
    BY <1>1, <1>9, <2>2
    DEF Record, Count, Log, ListClass, Remove, Unlist, Edit, Over, history, session, lists
<1>10. CASE Fail(r)
  BY <1>1, <1>10 DEF Fail, Over, history, session, lists
<1> QED
  BY <1>4, <1>5, <1>6, <1>7, <1>8, <1>9, <1>10 DEF Upload

LEMMA InitInv == Init => IInv
<1> SUFFICES ASSUME Init PROVE IInv
  OBVIOUS
<1>1. TypeOK
  BY InitType
<1>2. InFlightHaveMet /\ UnsentAlone /\ CountedAll
  BY DEF Init, UnsentAlone, InFlightHaveMet, CountedAll, InFlight, Over
<1>3. NumberedBefore /\ LogIsOrdered
  BY DEF Init, NumberedBefore, LogIsOrdered
<1> QED
  BY <1>1, <1>2, <1>3 DEF IInv

\* What relates pc, the numbers and the requests that have met does not depend on the
\* log.
LEMMA LogIrrelevant ==
    ASSUME IInv, UNCHANGED log,
           \A r \in Requests : met[r] \subseteq met'[r],
           \A r \in Requests : pc'[r] = "log" => pc[r] = "log" /\ local'[r] = local[r]
    PROVE  NumberedBefore' /\ CountedAll' /\ LogIsOrdered'
<1>1. \A i \in 1 .. Len(log) : log[i].of \in Requests
  <2> DEFINE Entry == [id : Nat, admin : People, of : Requests]
  <2>1. log \in Seq(Entry)
    BY DEF IInv, TypeOK
  <2> HIDE DEF Entry
  <2>2. \A i \in 1 .. Len(log) : log[i] \in Entry
    BY <2>1
  <2> QED
    BY <2>2 DEF Entry
<1> QED
  BY <1>1 DEF IInv, NumberedBefore, CountedAll, LogIsOrdered

LEMMA EnterInv ==
    ASSUME IInv, NEW a \in Admins, Register(a) \/ Login(a)
    PROVE  IInv'
<1>1. TypeOK'
  BY EnterType DEF IInv
<1>2. UNCHANGED <<pc, req, local, log, met>>
  BY DEF Register, Login, lists, history
<1>3. InFlightHaveMet' /\ UnsentAlone'
  BY <1>2 DEF IInv, InFlightHaveMet, InFlight, UnsentAlone
<1>4. NumberedBefore' /\ CountedAll' /\ LogIsOrdered'
  BY <1>2, LogIrrelevant
<1> QED
  BY <1>1, <1>3, <1>4 DEF IInv

LEMMA SendInv ==
    ASSUME IInv, NEW r \in Requests, Send(r)
    PROVE  IInv'
<1>1. TypeOK'
  BY SendType DEF IInv
<1>2. PICK m \in Menu[r] : req' = [req EXCEPT ![r] = m] /\ Goto(r, First(m.kind), NoLocals)
  BY DEF Send
<1>3. First(m.kind) \notin Over \cup {"log"}
  <2>1. m.kind \in Kinds
    BY CatalogueAssumption DEF Requests
  <2> QED
    BY <2>1 DEF First, Kinds, Over
<1>4. /\ pc[r] = "unsent" /\ pc'[r] = First(m.kind)
      /\ \A q \in Requests \ {r} : pc'[q] = pc[q] /\ local'[q] = local[q] /\ req'[q] = req[q]
  BY <1>2 DEF Send, Goto, IInv, TypeOK
<1>7. InFlight' = InFlight \cup {r} /\ r \notin InFlight
  BY <1>3, <1>4 DEF InFlight, Over
<1>8. met' = [q \in Requests |-> IF q = r THEN InFlight
                               ELSE IF q \in InFlight THEN met[q] \cup {r} ELSE met[q]]
  BY DEF Send
<1>9. InFlightHaveMet'
  <2>1. SUFFICES ASSUME NEW p \in InFlight \cup {r}, NEW q \in (InFlight \cup {r}) \ {p}
                 PROVE  q \in met'[p]
    BY <1>7 DEF InFlightHaveMet
  <2>2. p \in Requests
    BY DEF InFlight
  <2> QED
    BY <1>7, <1>8, <2>2 DEF IInv, InFlightHaveMet
<1>10. NumberedBefore' /\ CountedAll' /\ LogIsOrdered'
  <2>1. \A q \in Requests : pc'[q] = "log" => pc[q] = "log" /\ local'[q] = local[q]
    BY <1>3, <1>4
  <2>2. \A q \in Requests : met[q] \subseteq met'[q]
    BY <1>4, <1>8 DEF IInv, UnsentAlone
  <2>3. UNCHANGED log
    BY DEF Send, lists
  <2> QED
    BY <2>1, <2>2, <2>3, LogIrrelevant
<1>11. UnsentAlone'
  BY <1>3, <1>4, <1>8 DEF IInv, UnsentAlone, InFlight, Over
<1> QED
  BY <1>1, <1>9, <1>10, <1>11 DEF IInv

LEMMA RestartInv ==
    ASSUME IInv, Restart
    PROVE  IInv'
<1>1. TypeOK'
  BY RestartType DEF IInv
<1>2. /\ UNCHANGED <<req, log, met>>
      /\ pc' = [r \in Requests |-> IF r \in InFlight THEN "failed" ELSE pc[r]]
  BY DEF Restart, lists, history
<1>3. \A r \in Requests : pc'[r] \in Over
  BY <1>2 DEF InFlight, Over
<1>4. InFlightHaveMet' /\ UnsentAlone'
  BY <1>2, <1>3 DEF IInv, InFlightHaveMet, InFlight, UnsentAlone, Over
<1>5. NumberedBefore' /\ CountedAll' /\ LogIsOrdered'
  <2>1. \A r \in Requests : pc'[r] # "log"
    BY <1>3 DEF Over
  <2> QED
    BY <1>2, <2>1, LogIrrelevant
<1> QED
  BY <1>1, <1>4, <1>5 DEF IInv

\* An entry inserted by r comes after those it counted, and any request that still
\* has one to insert has met r.
LEMMA LogInv ==
    ASSUME IInv, NEW r \in Requests, Log(r)
    PROVE  NumberedBefore' /\ CountedAll' /\ LogIsOrdered'
<1> DEFINE e == [id |-> local[r].id, admin |-> local[r].admin, of |-> r]
<1>1. /\ log' = Append(log, e) /\ UNCHANGED met /\ pc[r] = "log" /\ pc'[r] # "log"
      /\ \A q \in Requests \ {r} : pc'[q] = pc[q] /\ local'[q] = local[q]
  <2>1. UNCHANGED met
    BY DEF Log, history
  <2>2. TypeOK /\ (pc'[r] = "log" => Count(r))
    BY StepsOfOne DEF IInv, Record
  <2>3. \A q \in Requests \ {r} : pc'[q] = pc[q] /\ local'[q] = local[q]
    BY StepsOfOne DEF IInv, Record
  <2> QED
    BY <2>1, <2>2, <2>3 DEF Log, Count
<1>2. /\ Len(log') = Len(log) + 1 /\ Len(log) \in Nat
      /\ \A i \in 1 .. Len(log) : /\ log'[i] = log[i] /\ log[i].of \in Requests
                                 /\ log[i].id \in Nat
      /\ log'[Len(log) + 1] = e
  <2> DEFINE Entry == [id : Nat, admin : People, of : Requests]
  <2>1. log \in Seq(Entry)
    BY DEF IInv, TypeOK
  <2>2. e \in Entry
    BY DEF IInv, TypeOK, Locals
  <2> HIDE DEF Entry, e
  <2>3. /\ Len(log') = Len(log) + 1 /\ Len(log) \in Nat
        /\ \A i \in 1 .. Len(log) : log'[i] = log[i] /\ log[i] \in Entry
        /\ log'[Len(log) + 1] = e
    BY <1>1, <2>1, <2>2
  <2> QED
    BY <2>3 DEF Entry
<1>3. /\ local[r].id \in Nat /\ local[r].id <= Len(log)
      /\ \A i \in 1 .. Len(log) : log[i].of \notin met[r] => i <= local[r].id
  BY <1>1 DEF IInv, TypeOK, Locals, CountedAll
<1>4. NumberedBefore'
  BY <1>2, <1>3 DEF IInv, NumberedBefore
<1>5. CountedAll'
  <2>1. SUFFICES ASSUME NEW q \in Requests, pc'[q] = "log"
                 PROVE  /\ local'[q].id <= Len(log')
                        /\ \A i \in 1 .. Len(log') : log'[i].of \notin met'[q] => i <= local'[q].id
    BY DEF CountedAll
  <2>2. q # r /\ pc[q] = "log" /\ local'[q] = local[q]
    BY <1>1, <2>1
  <2>3. r \in met[q]
    BY <1>1, <2>2 DEF IInv, InFlightHaveMet, InFlight, Over
  <2>4. local[q].id \in Nat /\ local[q].id <= Len(log)
    BY <2>2 DEF IInv, TypeOK, Locals, CountedAll
  <2>5. \A i \in 1 .. Len(log) : log[i].of \notin met[q] => i <= local[q].id
    BY <2>2 DEF IInv, CountedAll
  <2> QED
    BY <1>1, <1>2, <2>2, <2>3, <2>4, <2>5
<1>6. LogIsOrdered'
  <2>1. SUFFICES ASSUME NEW i \in 1 .. Len(log'), NEW j \in 1 .. Len(log'),
                        i < j, log'[i].of \notin met'[log'[j].of]
                 PROVE  log'[i].id < log'[j].id
    BY DEF LogIsOrdered
  <2>2. CASE j = Len(log) + 1
    <3>1. i \in 1 .. Len(log) /\ log[i].of \notin met[r]
      BY <1>1, <1>2, <2>1, <2>2
    <3>2. log[i].id < i
      BY <3>1 DEF IInv, NumberedBefore
    <3> QED
      BY <1>2, <1>3, <2>2, <3>1, <3>2
  <2>3. CASE j \in 1 .. Len(log)
    <3>1. i \in 1 .. Len(log) /\ log[i].of \notin met[log[j].of]
      BY <1>1, <1>2, <2>1, <2>3
    <3> QED
      BY <1>2, <2>1, <2>3, <3>1 DEF IInv, LogIsOrdered
  <2> QED
    BY <1>2, <2>2, <2>3
<1> QED
  BY <1>4, <1>5, <1>6

\* A step of the handler of r.
LEMMA HandlerInv ==
    ASSUME IInv, NEW r \in Requests, Upload(r) \/ Record(r) \/ Fail(r)
    PROVE  IInv'
<1>0. /\ UNCHANGED <<req, met, session>>
      /\ pc[r] \notin Over
      /\ \A q \in Requests \ {r} : pc'[q] = pc[q] /\ local'[q] = local[q]
      /\ pc'[r] # "unsent"
      /\ pc'[r] = "log" => Count(r)
      /\ Log(r) \/ UNCHANGED log
  BY StepsOfOne DEF IInv
<1>1. TypeOK'
  BY UploadType, RecordType DEF IInv
<1>2. UnsentAlone'
  BY <1>0 DEF IInv, UnsentAlone, Over
<1>3. InFlightHaveMet'
  BY <1>0 DEF IInv, InFlightHaveMet, InFlight, Over
<1>4. NumberedBefore' /\ CountedAll' /\ LogIsOrdered'
  <2>1. CASE Log(r)
    BY <2>1, LogInv
  <2>2. CASE pc'[r] # "log" /\ UNCHANGED log
    <3>1. \A q \in Requests : pc'[q] = "log" => pc[q] = "log" /\ local'[q] = local[q]
      BY <1>0, <2>2
    <3> QED
      BY <1>0, <2>2, <3>1, LogIrrelevant
  <2>3. CASE Count(r) /\ UNCHANGED log
    <3>1. Len(log) \in Nat
      BY DEF IInv, TypeOK
    <3>2. local'[r].id = Len(log)
      BY <2>3 DEF Count, Goto, Over, NoLocals, IInv, TypeOK
    <3>3. CountedAll'
      BY <1>0, <2>3, <3>1, <3>2 DEF IInv, CountedAll
    <3> QED
      BY <1>0, <2>3, <3>3 DEF IInv, NumberedBefore, LogIsOrdered
  <2> QED
    BY <1>0, <2>1, <2>2, <2>3
<1> QED
  BY <1>1, <1>2, <1>3, <1>4 DEF IInv

LEMMA NextInv == IInv /\ [Next]_vars => IInv'
<1> SUFFICES ASSUME IInv, [Next]_vars PROVE IInv'
  OBVIOUS
<1>1. CASE UNCHANGED vars
  <2>1. TypeOK'
    BY <1>1, NextType DEF IInv
  <2>2. UNCHANGED <<pc, local, log, met>>
    BY <1>1 DEF vars, lists, history
  <2> QED
    BY <2>1, <2>2 DEF IInv, InFlightHaveMet, InFlight, UnsentAlone, NumberedBefore, CountedAll,
                      LogIsOrdered
<1> QED
  BY <1>1, EnterInv, SendInv, HandlerInv, RestartInv DEF Next

\* The entries of operations that did not overlap are numbered in their order, for
\* any number of requests and whatever fails or is restarted in between.
THEOREM LogStaysOrdered == Spec => []LogIsOrdered
<1>1. IInv => LogIsOrdered
  BY DEF IInv
<1> QED
  BY <1>1, InitInv, NextInv, PTL DEF Spec

-----------------------------------------------------------------------------
(* The robots that T4 stores.                                              *)

\* Requests are sent in the order of their numbers.
SentInOrder ==
    \A p, q \in Requests : p < q /\ pc[p] = "unsent" => pc[q] = "unsent"

\* A request in flight has met all that were sent after it.
LaterHaveMet ==
    \A r \in InFlight : \A q \in Requests : r < q /\ pc[q] # "unsent" => q \in met[r]

\* A version is that of a request that was sent; 0 is none.
Sent(v) == v = 0 \/ pc[v] # "unsent"
VersionsSent ==
    /\ \A n \in Names : Sent(source[n])
    /\ \A t \in RobotTypes, n \in Names, l \in Levels : Sent(tests[t][n].level[l])

\* The steps of an upload before it stores its first robot.
Before == {"unsent", "save", "source", "randoop", "archives", "unzip"}

\* The robots of request r of which a loop has still to find out are not stored.
StillToStore ==
    \A x \in BagToSet(robots) :
        /\ pc[x.by] \notin Before
        /\ pc[x.by] = "storeRandoop" => x.type = "randoop" /\ x.level \notin local[x.by].todo
        /\ pc[x.by] = "storeEvosuite" /\ x.type = "evosuite" => x.level \notin local[x.by].todo

\* A request stores a level of a robot once.
StoredOnce ==
    \A x \in BagToSet(robots) :
        /\ robots[x] = 1
        /\ \A y \in BagToSet(robots) :
               x.by = y.by /\ x.type = y.type /\ x.level = y.level => x = y

\* The version of a robot was sent before its upload or has met it.
KnownVersions == \A x \in BagToSet(robots) : x.version <= x.by \/ x.version \in met[x.by]

RInv ==
    /\ SentInOrder
    /\ LaterHaveMet
    /\ VersionsSent
    /\ StillToStore
    /\ StoredOnce
    /\ KnownVersions

\* What a step of the handler of r stores: nothing, or one entry of those its loop
\* has still to store.
Loop(t) == IF t = "randoop" THEN "storeRandoop" ELSE "storeEvosuite"
Row(r, t, l) ==
    [name |-> req[r].name, type |-> t, level |-> l,
     version |-> tests[t][req[r].name].level[l], by |-> r]
Adds(r, t, l) ==
    /\ robots' = robots (+) SetToBag({Row(r, t, l)})
    /\ pc[r] = Loop(t) /\ pc'[r] = pc[r]
    /\ local'[r].todo = local[r].todo \ {l}
    /\ UNCHANGED <<source, tests>>
Keeps(r) ==
    /\ UNCHANGED robots
    /\ pc'[r] \in Before => pc[r] \in Before
    /\ pc'[r] = "storeRandoop" =>
           \/ pc[r] \in Before
           \/ pc[r] = "storeRandoop" /\ local'[r].todo \subseteq local[r].todo
    /\ pc'[r] = "storeEvosuite" =>
           \/ pc[r] = "storeRandoop"
           \/ pc[r] = "storeEvosuite" /\ local'[r].todo \subseteq local[r].todo

\* A step of a loop adds its entry, or goes on without it.
LEMMA StoreSteps ==
    ASSUME TypeOK, NEW r \in Requests, NEW t \in RobotTypes, NEW l \in local[r].todo,
           Store(r, t, l), pc[r] = Loop(t), UNCHANGED disk
    PROVE  (l \in Levels /\ Adds(r, t, l)) \/ Keeps(r)
<1>1. l \in 0 .. MaxLevel
  BY DEF TypeOK, Locals, Entries
<1>2. CASE Goto(r, "failed", NoLocals) /\ UNCHANGED <<robots, refused, faults>>
  BY <1>2 DEF Goto, TypeOK, Keeps, Before
<1>3. CASE l # 0 /\ Post(r, t, l) /\ Goto(r, pc[r], [local[r] EXCEPT !.todo = @ \ {l},
                                         !.liv = IF t = "randoop" /\ l > @ THEN l ELSE @])
  <2>1. pc[r] \in {"storeRandoop", "storeEvosuite"}
    BY DEF Loop
  <2>2. pc'[r] = pc[r] /\ local'[r].todo = local[r].todo \ {l}
    BY SMTT(30), <1>3, <2>1 DEF Goto, TypeOK, Over, Locals
  <2>3. l \in Levels
    BY <1>1, <1>3, CatalogueAssumption DEF Levels
  <2>4. CASE robots' = robots (+) SetToBag({Row(r, t, l)})
    BY <2>2, <2>3, <2>4 DEF Adds, disk
  <2>5. CASE UNCHANGED robots
    BY <2>1, <2>2, <2>5 DEF Keeps, Before
  <2> QED
    BY <1>3, <2>4, <2>5 DEF Post, Row
<1> QED
  BY <1>2, <1>3 DEF Store

\* Every step of the handler of r.
LEMMA RobotSteps ==
    ASSUME TypeOK, NEW r \in Requests, Upload(r) \/ Record(r) \/ Fail(r)
    PROVE  (\E t \in RobotTypes, l \in Levels : l \in local[r].todo /\ Adds(r, t, l)) \/ Keeps(r)
<1>1. ASSUME NEW step, NEW l, Goto(r, step, l)
      PROVE  pc'[r] = step
  BY <1>1 DEF Goto, TypeOK
<1>2. ASSUME NEW d, NEW step \in {"storeRandoop", "storeEvosuite"}, List(r, d, step)
      PROVE  pc'[r] \in {step, "failed"}
  BY <1>1, <1>2 DEF List
<1>3. CASE Save(r) \/ PlaceSource(r)
  <2>1. pc'[r] \in Before /\ pc[r] \in Before /\ UNCHANGED robots
    BY <1>1, <1>3 DEF Save, PlaceSource, Before
  <2> QED
    BY <2>1 DEF Keeps, Before
<1>4. CASE PlaceArchives(r)
  <2>1. pc'[r] \in Before /\ pc[r] \in Before /\ UNCHANGED robots
    BY <1>1, <1>4 DEF PlaceArchives, Before
  <2> QED
    BY <2>1 DEF Keeps, Before
<1>5. CASE Randoop(r) \/ Unzip(r)
  <2>1. pc'[r] \in {"storeRandoop", "failed"} /\ pc[r] \in Before /\ UNCHANGED robots
    BY <1>1, <1>2, <1>5 DEF Randoop, Unzip, Before
  <2> QED
    BY <2>1 DEF Keeps, Before
<1>6. CASE Evosuite(r)
  <2>1. pc'[r] \in {"storeEvosuite", "failed"} /\ pc[r] = "storeRandoop" /\ UNCHANGED robots
    BY <1>2, <1>6 DEF Evosuite
  <2> QED
    BY <2>1 DEF Keeps, Before
<1>7. CASE StoreRandoop(r)
  <2>1. PICK l \in local[r].todo : Store(r, "randoop", l)
    BY <1>7 DEF StoreRandoop
  <2>2. "randoop" \in RobotTypes /\ pc[r] = Loop("randoop") /\ UNCHANGED disk
    BY <1>7 DEF StoreRandoop, RobotTypes, Loop
  <2> QED
    BY <2>1, <2>2, StoreSteps
<1>8. CASE StoreEvosuite(r)
  <2>2. "evosuite" \in RobotTypes /\ pc[r] = Loop("evosuite") /\ UNCHANGED disk
    BY <1>8 DEF StoreEvosuite, RobotTypes, Loop
  <2>3. CASE \E l \in local[r].todo : Store(r, "evosuite", l)
    BY <2>2, <2>3, StoreSteps
  <2>4. CASE Goto(r, "count", NoLocals) /\ UNCHANGED <<robots, refused, faults>>
    BY <1>1, <2>4 DEF Keeps, Before
  <2> QED
    BY <1>8, <2>3, <2>4 DEF StoreEvosuite
<1>9. CASE Record(r)
  <2>1. req[r].kind \in Kinds
    BY DEF TypeOK, Asked
  <2>2. AfterLog(req[r].kind) \in {"list", "unlist", "done"}
    BY <2>1 DEF AfterLog, Kinds
  <2>3. UNCHANGED robots /\ pc'[r] \in {"log", "list", "unlist", "done", "count"}
    BY <1>1, <1>9, <2>2 DEF Record, Count, Log, ListClass, Remove, Unlist, Edit
  <2> QED
    BY <2>3 DEF Keeps, Before
<1>10. CASE Fail(r)
  <2>1. UNCHANGED robots /\ pc'[r] = "failed"
    BY <1>1, <1>10 DEF Fail
  <2> QED
    BY <2>1 DEF Keeps, Before
<1> QED
  BY <1>3, <1>4, <1>5, <1>6, <1>7, <1>8, <1>9, <1>10 DEF Upload

\* What lies in the volumes after a step of a handler was there before, or is of a
\* request that was sent.
LEMMA VersionSteps ==
    ASSUME TypeOK, VersionsSent, NEW r \in Requests, Upload(r) \/ Record(r) \/ Fail(r)
    PROVE  /\ \A n \in Names : Sent(source'[n])
           /\ \A t \in RobotTypes, n \in Names, l \in Levels : Sent(tests'[t][n].level[l])
<1> DEFINE n == req[r].name
<1>0. /\ n \in Names /\ pc[r] # "unsent" /\ Sent(r) /\ Sent(0)
      /\ \A t \in RobotTypes, m \in Names : tests[t][m] \in Tests
      /\ "randoop" \in RobotTypes /\ "evosuite" \in RobotTypes
  BY StepsOfOne DEF TypeOK, Asked, Sent, Over, RobotTypes
<1>1. ASSUME NEW t \in RobotTypes, NEW m \in Names, NEW k, NEW v, Sent(v), NEW l \in Levels
      PROVE  Sent(Generated(tests[t][m], k, v).level[l])
  BY <1>0, <1>1 DEF Generated, Tests, VersionsSent
<1>2. CASE UNCHANGED <<source, tests>>
  BY <1>2 DEF VersionsSent
<1>3. CASE PlaceSource(r)
  <2>1. \A m \in Names : source'[m] \in {source[m], r}
    BY <1>0, <1>3 DEF PlaceSource, TypeOK
  <2> QED
    BY <1>0, <1>3, <2>1 DEF PlaceSource, VersionsSent
<1>4. CASE Randoop(r)
  <2>1. PICK k \in [Names -> -1 .. MaxLevel] :
          tests' = [tests EXCEPT !["randoop"] =
              [c \in Names |-> IF k[c] = -1 THEN @[c] ELSE Generated(@[c], k[c], source[c])]]
    BY <1>4 DEF Randoop
  <2>2. \A m \in Names :
          /\ tests'["randoop"][m] = IF k[m] = -1 THEN tests["randoop"][m]
                                    ELSE Generated(tests["randoop"][m], k[m], source[m])
          /\ tests'["evosuite"][m] = tests["evosuite"][m]
    BY <1>0, <2>1 DEF TypeOK
  <2>3. \A m \in Names : Sent(source[m])
    BY DEF VersionsSent
  <2>4. UNCHANGED source
    BY <1>4 DEF Randoop
  <2>5. ASSUME NEW t \in RobotTypes, NEW m \in Names, NEW l \in Levels
        PROVE  Sent(tests'[t][m].level[l])
    <3>1. CASE t = "evosuite"
      BY <2>2, <3>1 DEF VersionsSent
    <3>2. CASE t = "randoop"
      <4>1. Sent(Generated(tests["randoop"][m], k[m], source[m]).level[l])
        BY <1>0, <1>1, <2>3
      <4> QED
        BY <2>2, <3>2, <4>1 DEF VersionsSent
    <3> QED
      BY <3>1, <3>2 DEF RobotTypes
  <2> QED
    BY <2>3, <2>4, <2>5
<1>5. CASE Evosuite(r)
  <2>1. UNCHANGED source
    BY <1>5 DEF Evosuite
  <2>2. ASSUME NEW k \in 1 .. local[r].liv,
               tests' = [tests EXCEPT !["evosuite"][n] = Generated(@, k, source[n])]
        PROVE  \A t \in RobotTypes, m \in Names, l \in Levels : Sent(tests'[t][m].level[l])
    <3>1. ASSUME NEW t \in RobotTypes, NEW m \in Names, NEW l \in Levels
          PROVE  Sent(tests'[t][m].level[l])
      <4>1. Sent(Generated(tests["evosuite"][n], k, source[n]).level[l])
        BY <1>0, <1>1 DEF VersionsSent
      <4>2. tests'[t][m] = IF t = "evosuite" /\ m = n
                           THEN Generated(tests["evosuite"][n], k, source[n])
                           ELSE tests[t][m]
        BY <1>0, <2>2 DEF TypeOK
      <4> QED
        BY <4>1, <4>2 DEF VersionsSent
    <3> QED
      BY <3>1
  <2> QED
    BY <1>2, <1>5, <2>1, <2>2 DEF Evosuite, VersionsSent
<1>6. CASE PlaceArchives(r)
  <2>1. UNCHANGED source
    BY <1>6 DEF PlaceArchives
  <2> DEFINE Hidden(d, l) == [d EXCEPT !.made = TRUE, !.odd = @ \cup {r},
                                  !.level = [m \in Levels |-> IF m = l THEN 0 ELSE @[m]]]
  <2>2. PICK first \in [RobotTypes -> 0 .. MaxLevel + 1] :
          tests' = [t \in RobotTypes |-> [tests[t] EXCEPT ![n] = Hidden(@, first[t])]]
    BY <1>6 DEF PlaceArchives
  <2>3. ASSUME NEW t \in RobotTypes, NEW m \in Names, NEW l \in Levels
        PROVE  tests'[t][m].level[l] \in {tests[t][m].level[l], 0}
    <3>1. Hidden(tests[t][n], first[t]).level[l] \in {tests[t][n].level[l], 0}
      BY <1>0 DEF Tests
    <3> HIDE DEF Hidden
    <3>2. tests'[t][m] = IF m = n THEN Hidden(tests[t][n], first[t]) ELSE tests[t][m]
      BY <1>0, <2>2 DEF TypeOK
    <3> QED
      BY <3>1, <3>2
  <2> QED
    BY <1>0, <2>1, <2>3 DEF VersionsSent
<1>7. CASE Unzip(r)
  <2>1. UNCHANGED source
    BY <1>7 DEF Unzip
  <2> DEFINE good == {t \in local[r].took : t = "evosuite" => "randoop" \in local[r].took}
  <2>2. tests' = [t \in RobotTypes |-> IF t \in good
                     THEN [tests[t] EXCEPT ![n] = Unpacked(@, req[r].holds[t], r)]
                     ELSE tests[t]]
    BY <1>7 DEF Unzip
  <2> HIDE DEF good
  <2>3. ASSUME NEW t \in RobotTypes, NEW m \in Names, NEW l \in Levels
        PROVE  Sent(tests'[t][m].level[l])
    <3>1. tests'[t][m] = IF t \in good /\ m = n THEN Unpacked(tests[t][n], req[r].holds[t], r)
                                                ELSE tests[t][m]
      BY <1>0, <2>2 DEF TypeOK
    <3>2. Unpacked(tests[t][n], req[r].holds[t], r).level[l] \in {r, tests[t][n].level[l]}
      BY DEF Unpacked
    <3>3. Sent(Unpacked(tests[t][n], req[r].holds[t], r).level[l])
      BY <1>0, <3>2 DEF VersionsSent
    <3> QED
      BY <3>1, <3>3 DEF VersionsSent
  <2> QED
    BY <2>1, <2>3 DEF VersionsSent
<1> QED
  BY <1>2, <1>3, <1>4, <1>5, <1>6, <1>7
  DEF Upload, Save, StoreRandoop, StoreEvosuite, Record, Count, Log, ListClass, Remove, Unlist,
      Edit, Fail, disk

\* A version in the volumes is 0 or a request.
LEMMA VersionTypes ==
    ASSUME TypeOK
    PROVE  /\ \A n \in Names : source[n] \in Requests \cup {0}
           /\ \A t \in RobotTypes, n \in Names, l \in Levels :
                  tests[t][n].level[l] \in Requests \cup {0}
<1>1. 0 .. MaxRequests = Requests \cup {0}
  BY CatalogueAssumption DEF Requests
<1>2. ASSUME NEW t \in RobotTypes, NEW n \in Names, NEW l \in Levels
      PROVE  tests[t][n].level[l] \in 0 .. MaxRequests
  BY DEF TypeOK, Tests
<1> QED
  BY <1>1, <1>2 DEF TypeOK

\* Requests are not unsent.
LEMMA VersionsStaySent ==
    ASSUME TypeOK, VersionsSent, UNCHANGED <<source, tests>>,
           \A q \in Requests : pc[q] # "unsent" => pc'[q] # "unsent"
    PROVE  VersionsSent'
BY VersionTypes DEF VersionsSent, Sent

LEMMA InitRInv == Init => RInv
<1> SUFFICES ASSUME Init PROVE RInv
  OBVIOUS
<1>1. BagToSet(robots) = {}
  BY DEF Init, EmptyBag, SetToBag, BagToSet
<1>2. VersionsSent
  BY DEF Init, VersionsSent, Sent, NoTests
<1>3. SentInOrder /\ LaterHaveMet
  BY DEF Init, SentInOrder, LaterHaveMet, InFlight, Over
<1> QED
  BY <1>1, <1>2, <1>3 DEF RInv, StillToStore, StoredOnce, KnownVersions

LEMMA SendRInv ==
    ASSUME IInv, RInv, NEW r \in Requests, Send(r)
    PROVE  RInv'
<1>1. PICK m \in Menu[r] : Goto(r, First(m.kind), NoLocals)
  BY DEF Send
<1>2. First(m.kind) \notin Over
  <2>1. m.kind \in Kinds
    BY CatalogueAssumption DEF Requests
  <2> QED
    BY <2>1 DEF First, Kinds, Over
<1>3. /\ pc[r] = "unsent" /\ pc'[r] \notin Over
      /\ \A q \in Requests \ {r} : pc'[q] = pc[q] /\ local'[q] = local[q]
      /\ \A q \in Requests : q < r => pc[q] # "unsent"
      /\ r \in Nat
      /\ \A q \in Requests : q \in Nat
  BY <1>1, <1>2 DEF Send, Goto, IInv, TypeOK, Requests
<1>4. InFlight' = InFlight \cup {r} /\ r \notin InFlight
  BY <1>3 DEF InFlight, Over
<1>5. met' = [q \in Requests |-> IF q = r THEN InFlight
                                ELSE IF q \in InFlight THEN met[q] \cup {r} ELSE met[q]]
  BY DEF Send
<1>6. SentInOrder'
  BY <1>3 DEF RInv, SentInOrder, Over
<1>7. LaterHaveMet'
  <2>1. SUFFICES ASSUME NEW p \in InFlight \cup {r}, NEW q \in Requests,
                        p < q, pc'[q] # "unsent"
                 PROVE  q \in met'[p]
    BY <1>4 DEF LaterHaveMet
  <2>2. CASE p = r
    <3>1. pc[q] = "unsent" /\ q # r
      BY <1>3, <2>1, <2>2 DEF RInv, SentInOrder
    <3> QED
      BY <1>3, <2>1, <3>1
  <2>3. CASE p \in InFlight /\ p # r
    BY <1>3, <1>5, <2>1, <2>3 DEF RInv, LaterHaveMet, InFlight
  <2> QED
    BY <2>1, <2>2, <2>3
<1>8. UNCHANGED <<robots, source, tests>>
  BY DEF Send, disk
<1>9. VersionsSent'
  BY <1>3, <1>8, VersionsStaySent DEF IInv, RInv, Over
<1>10. ASSUME NEW x \in BagToSet(robots) PROVE x.by \in Requests /\ x.by # r
  BY <1>3 DEF IInv, TypeOK, Robots, RInv, StillToStore, Before
<1>11. StillToStore' /\ StoredOnce' /\ BagToSet(robots)' = BagToSet(robots)
  BY <1>3, <1>8, <1>10 DEF RInv, StillToStore, StoredOnce, BagToSet
<1>12. KnownVersions'
  BY <1>5, <1>10, <1>11 DEF RInv, KnownVersions
<1> QED
  BY <1>6, <1>7, <1>9, <1>11, <1>12 DEF RInv

LEMMA HandlerRInv ==
    ASSUME IInv, RInv, NEW r \in Requests, Upload(r) \/ Record(r) \/ Fail(r)
    PROVE  RInv'
<1>0. /\ UNCHANGED <<req, met, session>>
      /\ pc[r] \notin Over
      /\ \A q \in Requests \ {r} : pc'[q] = pc[q] /\ local'[q] = local[q]
      /\ pc'[r] # "unsent"
  BY StepsOfOne DEF IInv
<1>1. SentInOrder' /\ LaterHaveMet'
  BY <1>0 DEF RInv, SentInOrder, LaterHaveMet, InFlight, Over
<1>2. VersionsSent'
  <2>1. TypeOK'
    BY UploadType, RecordType DEF IInv
  <2>2. /\ \A n \in Names : source'[n] \in Requests \cup {0}
        /\ \A t \in RobotTypes, n \in Names, l \in Levels :
               tests'[t][n].level[l] \in Requests \cup {0}
    <3>1. 0 .. MaxRequests = Requests \cup {0}
      BY CatalogueAssumption DEF Requests
    <3> QED
      BY SMTT(30), <2>1, <3>1 DEF TypeOK, Tests
  <2>3. \A v \in Requests \cup {0} : Sent(v) => Sent(v)'
    BY <1>0 DEF Sent
  <2> QED
    BY <2>2, <2>3, VersionSteps DEF IInv, RInv, VersionsSent, Sent
<1>3. CASE Keeps(r)
  <2>1. BagToSet(robots)' = BagToSet(robots)
    BY <1>3 DEF Keeps, BagToSet
  <2>2. \A x \in BagToSet(robots) : x.by \in Requests
    BY DEF IInv, TypeOK, Robots
  <2>3. StillToStore'
    BY <1>0, <1>3, <2>1, <2>2 DEF RInv, StillToStore, Keeps, Before
  <2>4. StoredOnce' /\ KnownVersions'
    BY <1>0, <1>3, <2>1 DEF RInv, StoredOnce, KnownVersions, Keeps
  <2> QED
    BY <1>1, <1>2, <2>3, <2>4 DEF RInv
<1>4. ASSUME NEW t \in RobotTypes, NEW l \in Levels, l \in local[r].todo, Adds(r, t, l)
      PROVE  RInv'
  <2> DEFINE x == Row(r, t, l)
  <2>1. \A y \in BagToSet(robots) : y.by = r /\ y.type = t => y.level # l
    BY <1>4 DEF RInv, StillToStore, Adds, Loop, RobotTypes
  <2>2. x.by = r /\ x.type = t /\ x.level = l /\ x.version = tests[t][req[r].name].level[l]
    BY DEF Row
  <2>3. x \notin BagToSet(robots)
    BY <2>1, <2>2
  <2> HIDE DEF x
  <2>4. /\ BagToSet(robots)' = BagToSet(robots) \cup {x}
        /\ robots'[x] = 1
        /\ \A y \in BagToSet(robots) : robots'[y] = robots[y]
    <3>1. robots' = robots (+) SetToBag({x}) /\ IsABag(robots)
      BY <1>4 DEF Adds, x, IInv, TypeOK
    <3> QED
      BY <2>3, <3>1 DEF IsABag, BagToSet, SetToBag, (+)
  <2>5. StillToStore'
    <3>1. /\ pc'[r] = pc[r] /\ local'[r].todo = local[r].todo \ {l} /\ pc[r] = Loop(t)
      BY <1>4 DEF Adds
    <3>2. ASSUME NEW y \in BagToSet(robots), y.by = r
          PROVE  /\ pc'[r] \notin Before
                 /\ pc'[r] = "storeRandoop" => y.type = "randoop" /\ y.level \notin local'[r].todo
                 /\ pc'[r] = "storeEvosuite" /\ y.type = "evosuite" => y.level \notin local'[r].todo
      BY <3>1, <3>2 DEF RInv, StillToStore
    <3>3. /\ pc'[r] \notin Before
          /\ pc'[r] = "storeRandoop" => t = "randoop" /\ l \notin local'[r].todo
          /\ pc'[r] = "storeEvosuite" /\ t = "evosuite" => l \notin local'[r].todo
      BY <3>1 DEF Loop, Before, RobotTypes
    <3>4. \A y \in BagToSet(robots) : y.by \in Requests
      BY DEF IInv, TypeOK, Robots
    <3> QED
      BY <1>0, <2>2, <2>4, <3>2, <3>3, <3>4 DEF RInv, StillToStore
  <2>6. StoredOnce'
    BY <2>1, <2>2, <2>4 DEF RInv, StoredOnce
  <2>7. KnownVersions'
    <3>1. tests[t][req[r].name].level[l] \in 0 .. MaxRequests
      <4>1. req[r].name \in Names
        BY DEF IInv, TypeOK, Asked
      <4> QED
        BY <4>1 DEF IInv, TypeOK, Tests
    <3>2. Sent(x.version) /\ x.version \in 0 .. MaxRequests
      <4>1. req[r].name \in Names
        BY DEF IInv, TypeOK, Asked
      <4> QED
        BY <2>2, <3>1, <4>1 DEF RInv, VersionsSent
    <3>3. x.version <= r \/ x.version \in met[r]
      <4>1. SUFFICES ASSUME r < x.version PROVE x.version \in met[r]
        BY <3>2 DEF Requests
      <4>2. x.version \in Requests /\ pc[x.version] # "unsent" /\ r \in InFlight
        BY <1>0, <3>2, <4>1 DEF Sent, Requests, InFlight
      <4> QED
        BY <4>1, <4>2 DEF RInv, LaterHaveMet
    <3> QED
      BY <1>0, <2>2, <2>4, <3>3 DEF RInv, KnownVersions
  <2> QED
    BY <1>1, <1>2, <2>5, <2>6, <2>7 DEF RInv
<1> QED
  BY <1>3, <1>4, RobotSteps DEF IInv

LEMMA NextRInv == IInv /\ RInv /\ [Next]_vars => RInv'
<1> SUFFICES ASSUME IInv, RInv, [Next]_vars PROVE RInv'
  OBVIOUS
<1>1. ASSUME UNCHANGED <<pc, local, met, robots, source, tests>> PROVE RInv'
  BY <1>1 DEF RInv, SentInOrder, LaterHaveMet, InFlight, VersionsSent, Sent, StillToStore,
              StoredOnce, KnownVersions, BagToSet
<1>2. CASE UNCHANGED vars
  BY <1>1, <1>2 DEF vars, history, disk
<1>3. ASSUME NEW a \in Admins, Register(a) \/ Login(a) PROVE RInv'
  BY <1>1, <1>3 DEF Register, Login, history, disk
<1>4. CASE Restart
  <2>1. UNCHANGED <<met, robots, source, tests>>
    BY <1>4 DEF Restart, history, disk
  <2>2. \A r \in Requests : \/ r \in InFlight /\ pc'[r] = "failed"
                            \/ r \notin InFlight /\ pc'[r] = pc[r]
    BY <1>4 DEF Restart
  <2>3. \A r \in Requests : (pc'[r] = "unsent" <=> pc[r] = "unsent") /\ pc'[r] \in Over
    BY <2>2 DEF InFlight, Over
  <2>4. InFlight' = {}
    BY <2>3 DEF InFlight, Over
  <2>5. SentInOrder' /\ LaterHaveMet'
    BY <2>3, <2>4 DEF RInv, SentInOrder, LaterHaveMet
  <2>6. VersionsSent'
    BY <2>1, <2>3, VersionsStaySent DEF IInv, RInv
  <2>7. \A x \in BagToSet(robots) : x.by \in Requests
    BY DEF IInv, TypeOK, Robots
  <2>8. StillToStore'
    BY <2>1, <2>3, <2>7 DEF RInv, StillToStore, Before, Over, BagToSet
  <2>9. StoredOnce' /\ KnownVersions'
    BY <2>1 DEF RInv, StoredOnce, KnownVersions, BagToSet
  <2> QED
    BY <2>5, <2>6, <2>8, <2>9 DEF RInv
<1> QED
  BY <1>2, <1>3, <1>4, SendRInv, HandlerRInv DEF Next

\* T4, which has no key for a robot, stores each level of each robot once for an
\* upload, with tests of its own version, of an older one or of one it overlapped.
THEOREM RobotsStoredOnce == Spec => []RobotsOfOneUpload
<1>1. IInv /\ RInv => RobotsOfOneUpload
  BY DEF RInv, StoredOnce, KnownVersions, RobotsOfOneUpload
<1> QED
  BY <1>1, InitInv, NextInv, InitRInv, NextRInv, PTL DEF Spec

-----------------------------------------------------------------------------
(* What is listed can be played.                                           *)

UploadKinds == {"upload", "uploadTest"}
Chain == {"save", "source", "randoop", "archives", "unzip", "storeRandoop", "storeEvosuite"}
UploadSteps == Chain \cup {"count", "log", "list", "done", "failed"}

\* The steps that a request may be at.
KindSteps ==
    \A r \in Requests : pc[r] # "unsent" =>
        /\ pc[r] \in Chain => req[r].kind \in UploadKinds
        /\ req[r].kind \in UploadKinds => pc[r] \in UploadSteps
        /\ pc[r] = "randoop" => req[r].kind = "upload"
        /\ pc[r] \in {"archives", "unzip"} => req[r].kind = "uploadTest"
        /\ pc[r] = "remove" => req[r].kind \in {"delete", "deleteFile"}

\* A document is that of a request whose chain has come to its end.
DocsDone == \A d \in docs : pc[d.upload] = "done"

\* Sources and tests of a class come from an upload that has placed its source.
Placed(n) == \E q \in Uploads : req[q].name = n /\ pc[q] \notin {"save", "source"}
Contents ==
    \A n \in Names :
        source[n] # 0 \/ (\E t \in RobotTypes : tests[t][n] # NoTests) => Placed(n)

\* A directory in which nothing is hidden and no level is without the first.
Clean(d) == d.odd = {} /\ (d.level[1] = 0 => \A l \in Levels : d.level[l] = 0)

FirstUpload(r) == r \in Uploads /\ FirstOf(r)

\* The levels of a robot without which the class is not listed; T4 has them or has
\* refused one, or they have still to be stored.  Randoop may have generated none.
Due(r, t) == IF req[r].kind = "upload" THEN {1} ELSE req[r].holds[t]
Got(r, t) == r \in refused \/ Due(r, t) \subseteq StoredBy(r, t)
Halfway(r, t) == r \in refused \/ Due(r, t) \subseteq local[r].todo \cup StoredBy(r, t)
Idle(r) == req[r].kind = "upload" /\ local[r].todo = {} /\ local[r].liv = 0

\* The first upload of a class finds the volumes as it left them, since any other
\* that might change them would have met it.
FilePresent(r) ==
    pc[r] \notin {"save", "failed"} => files[req[r].name] # 0 \/ Deleted(req[r].name)
SourcePresent(r) ==
    pc[r] \notin {"save", "source", "failed"} => source[req[r].name] # 0
TestsAsLeft(r) ==
    /\ pc[r] = "randoop" => Clean(tests["randoop"][req[r].name]) /\ local[r].liv = 0
    /\ pc[r] \in {"randoop", "storeRandoop"} /\ req[r].kind = "upload" =>
           ~tests["evosuite"][req[r].name].made
    /\ pc[r] = "storeRandoop" /\ req[r].kind = "uploadTest" =>
           req[r].holds["evosuite"] \subseteq Listed(tests["evosuite"][req[r].name])
Progress(r) ==
    /\ pc[r] = "storeRandoop" => Idle(r) \/ Halfway(r, "randoop")
    /\ pc[r] = "storeEvosuite" => Got(r, "randoop") /\ Halfway(r, "evosuite")
    /\ pc[r] \in {"count", "log", "list", "done"} => Got(r, "randoop") /\ Got(r, "evosuite")
Served(r) ==
    FirstUpload(r) => FilePresent(r) /\ SourcePresent(r) /\ TestsAsLeft(r) /\ Progress(r)

PInv ==
    /\ KindSteps
    /\ DocsDone
    /\ Contents
    /\ \A r \in Requests : Served(r)

\* Where a handler may go.
Moves(kind) ==
    {<<"save", "source">>, <<"source", IF kind = "upload" THEN "randoop" ELSE "archives">>,
     <<"randoop", "storeRandoop">>, <<"archives", "unzip">>, <<"unzip", "storeRandoop">>,
     <<"storeRandoop", "storeRandoop">>, <<"storeRandoop", "storeEvosuite">>,
     <<"storeEvosuite", "storeEvosuite">>, <<"storeEvosuite", "count">>, <<"count", "log">>,
     <<"log", AfterLog(kind)>>, <<"list", "done">>, <<"unlist", "done">>,
     <<"remove", IF kind = "delete" THEN "count" ELSE "done">>,
     <<"edit", "count">>, <<"edit", "done">>}

LEMMA PcSteps ==
    ASSUME TypeOK, NEW r \in Requests, Upload(r) \/ Record(r) \/ Fail(r)
    PROVE  pc'[r] = "failed" \/ <<pc[r], pc'[r]>> \in Moves(req[r].kind)
<1>1. ASSUME NEW step, NEW l, Goto(r, step, l)
      PROVE  pc'[r] = step
  BY <1>1 DEF Goto, TypeOK
<1>2. ASSUME NEW d, NEW step \in {"storeRandoop", "storeEvosuite"}, List(r, d, step)
      PROVE  pc'[r] \in {step, "failed"}
  BY <1>1, <1>2 DEF List
<1>3. ASSUME NEW t, NEW l, Store(r, t, l)
      PROVE  pc'[r] \in {pc[r], "failed"}
  BY <1>1, <1>3 DEF Store
<1>4. CASE Save(r) \/ PlaceSource(r)
  BY <1>1, <1>4 DEF Save, PlaceSource, Moves
<1>5. CASE PlaceArchives(r)
  <2>1. pc[r] = "archives" /\ pc'[r] = "unzip"
    BY <1>1, <1>5 DEF PlaceArchives
  <2> QED
    BY <2>1 DEF Moves
<1>6. CASE Randoop(r) \/ Unzip(r)
  <2>1. pc'[r] \in {"storeRandoop", "failed"} /\ pc[r] \in {"randoop", "unzip"}
    BY <1>1, <1>2, <1>6 DEF Randoop, Unzip
  <2> QED
    BY <2>1 DEF Moves
<1>7. CASE Evosuite(r)
  <2>1. pc'[r] \in {"storeEvosuite", "failed"} /\ pc[r] = "storeRandoop"
    BY <1>2, <1>7 DEF Evosuite
  <2> QED
    BY <2>1 DEF Moves
<1>8. CASE StoreRandoop(r) \/ StoreEvosuite(r)
  <2>1. CASE StoreRandoop(r)
    BY <1>3, <2>1 DEF StoreRandoop, Moves
  <2>2. CASE StoreEvosuite(r)
    BY <1>1, <1>3, <2>2 DEF StoreEvosuite, Moves
  <2> QED
    BY <1>8, <2>1, <2>2
<1>9. CASE Record(r)
  BY <1>1, <1>9 DEF Record, Count, Log, ListClass, Remove, Unlist, Edit, Moves
<1>10. CASE Fail(r)
  BY <1>1, <1>10 DEF Fail
<1> QED
  BY <1>4, <1>5, <1>6, <1>7, <1>8, <1>9, <1>10 DEF Upload

\* What the handler of q may do to the directories of class n.
LEMMA DirSteps ==
    ASSUME TypeOK, NEW q \in Requests, Upload(q) \/ Record(q) \/ Fail(q), NEW n \in Names
    PROVE  /\ \/ source'[n] = source[n]
              \/ pc[q] = "source" /\ req[q].name = n /\ source'[n] = q /\ pc'[q] # "source"
           /\ \/ tests'["randoop"][n] = tests["randoop"][n]
              \/ source[n] # 0 /\ \E k \in 0 .. MaxLevel :
                     tests'["randoop"][n] = Generated(tests["randoop"][n], k, source[n])
              \/ pc[q] \in {"archives", "unzip"} /\ req[q].name = n
           /\ \/ tests'["evosuite"][n] = tests["evosuite"][n]
              \/ pc[q] \in {"storeRandoop", "archives", "unzip"} /\ req[q].name = n
           /\ \/ files'[n] = files[n]
              \/ files'[n] = q
              \/ pc[q] = "remove" /\ req[q].name = n
<1>0. /\ req[q].name \in Names /\ "randoop" \in RobotTypes /\ "evosuite" \in RobotTypes
      /\ RobotTypes = {"randoop", "evosuite"}
  BY DEF TypeOK, Asked, RobotTypes
<1>1. CASE UNCHANGED disk
  BY <1>1 DEF disk
<1>2. CASE Save(q)
  BY <1>0, <1>2 DEF Save, TypeOK
<1>3. CASE PlaceSource(q)
  <2>1. pc'[q] # "source"
    BY <1>3 DEF PlaceSource, Goto, TypeOK
  <2> QED
    BY <1>0, <1>3, <2>1 DEF PlaceSource, TypeOK
<1>4. CASE Randoop(q)
  <2>1. PICK k \in [Names -> -1 .. MaxLevel] :
          /\ \A c \in Names :
                 source[c] = 0 \/ tests["randoop"][c].level[1] # 0 => k[c] = -1
          /\ tests' = [tests EXCEPT !["randoop"] =
              [c \in Names |-> IF k[c] = -1 THEN @[c] ELSE Generated(@[c], k[c], source[c])]]
    BY <1>4 DEF Randoop
  <2>2. /\ tests'["randoop"][n] = IF k[n] = -1 THEN tests["randoop"][n]
                                  ELSE Generated(tests["randoop"][n], k[n], source[n])
        /\ tests'["evosuite"][n] = tests["evosuite"][n]
    BY <1>0, <2>1 DEF TypeOK
  <2>3. k[n] # -1 => k[n] \in 0 .. MaxLevel /\ source[n] # 0
    BY <2>1, CatalogueAssumption
  <2> QED
    BY <1>4, <2>2, <2>3 DEF Randoop
<1>5. CASE Evosuite(q)
  BY ZenonT(60), <1>0, <1>5 DEF Evosuite, TypeOK
<1>6. CASE PlaceArchives(q)
  <2> DEFINE Hidden(d, l) == [d EXCEPT !.made = TRUE, !.odd = @ \cup {q},
                                  !.level = [m \in Levels |-> IF m = l THEN 0 ELSE @[m]]]
  <2>1. PICK first \in [RobotTypes -> 0 .. MaxLevel + 1] :
          tests' = [t \in RobotTypes |-> [tests[t] EXCEPT ![req[q].name] = Hidden(@, first[t])]]
    BY <1>6 DEF PlaceArchives
  <2> HIDE DEF Hidden
  <2>2. n # req[q].name => \A t \in RobotTypes : tests'[t][n] = tests[t][n]
    BY <1>0, <2>1 DEF TypeOK
  <2>3. pc[q] = "archives" /\ UNCHANGED <<source, files>>
    BY <1>6 DEF PlaceArchives
  <2> QED
    BY <1>0, <2>2, <2>3
<1>7. CASE Unzip(q)
  <2> DEFINE good == {t \in local[q].took : t = "evosuite" => "randoop" \in local[q].took}
  <2>1. tests' = [t \in RobotTypes |-> IF t \in good
            THEN [tests[t] EXCEPT ![req[q].name] = Unpacked(@, req[q].holds[t], q)]
            ELSE tests[t]]
    BY <1>7 DEF Unzip
  <2> HIDE DEF good
  <2>2. n # req[q].name => \A t \in RobotTypes : tests'[t][n] = tests[t][n]
    BY <1>0, <2>1 DEF TypeOK
  <2>3. pc[q] = "unzip" /\ UNCHANGED <<source, files>>
    BY <1>7 DEF Unzip
  <2> QED
    BY <1>0, <2>2, <2>3
<1>8. CASE Remove(q)
  BY <1>0, <1>8 DEF Remove, TypeOK
<1>9. CASE StoreRandoop(q) \/ StoreEvosuite(q) \/ Fail(q)
  BY <1>1, <1>9 DEF StoreRandoop, StoreEvosuite, Fail
<1>10. CASE Count(q) \/ Log(q) \/ ListClass(q) \/ Unlist(q) \/ Edit(q)
  BY <1>1, <1>10 DEF Count, Log, ListClass, Unlist, Edit
<1> QED
  BY <1>2, <1>3, <1>4, <1>5, <1>6, <1>7, <1>8, <1>9, <1>10 DEF Upload, Record

\* Tables and histories only grow.
LEMMA HandlerGrows ==
    ASSUME TypeOK, NEW r \in Requests, Upload(r) \/ Record(r) \/ Fail(r)
    PROVE  BagToSet(robots) \subseteq BagToSet(robots)' /\ refused \subseteq refused'
<1>1. BagToSet(robots) \subseteq BagToSet(robots)'
  <2>1. CASE UNCHANGED robots
    BY <2>1 DEF BagToSet
  <2>2. ASSUME NEW x, robots' = robots (+) SetToBag({x})
        PROVE  BagToSet(robots) \subseteq BagToSet(robots)'
    BY <2>2 DEF BagToSet, SetToBag, (+)
  <2> QED
    BY <2>1, <2>2, RobotSteps DEF Keeps, Adds
<1>2. refused \subseteq refused'
  <2>1. ASSUME NEW t, NEW l, Store(r, t, l) PROVE refused \subseteq refused'
    BY <2>1 DEF Store, Post
  <2>2. CASE StoreRandoop(r) \/ StoreEvosuite(r)
    BY <2>1, <2>2 DEF StoreRandoop, StoreEvosuite
  <2> QED
    BY <2>2 DEF Upload, Save, PlaceSource, Randoop, Evosuite, PlaceArchives, Unzip, Record, Count,
                Log, ListClass, Remove, Unlist, Edit, Fail, history
<1> QED
  BY <1>1, <1>2

\* While the first upload of a class is in flight, no other one is.
LEMMA FirstIsAlone ==
    ASSUME IInv, NEW r \in InFlight, FirstUpload(r),
           NEW q \in InFlight, req[q].name = req[r].name, req[q].kind \in UploadKinds
    PROVE  q = r
<1>1. q \in Uploads
  BY DEF Uploads, InFlight, UploadKinds, Over
<1>2. q # r => q \in met[r]
  BY DEF IInv, InFlightHaveMet
<1> QED
  BY <1>1, <1>2 DEF FirstUpload, FirstOf

\* Nor has another one placed its source before.
LEMMA FirstFindsNothing ==
    ASSUME IInv, RInv, KindSteps, Contents, NEW r \in Requests, FirstUpload(r),
           pc[r] \in {"save", "source"}
    PROVE  /\ source[req[r].name] = 0
           /\ \A t \in RobotTypes : tests[t][req[r].name] = NoTests
<1> DEFINE n == req[r].name
<1>1. n \in Names /\ r \in InFlight
  BY DEF IInv, TypeOK, Asked, InFlight, Over
<1>2. ~Placed(n)
  <2>1. SUFFICES ASSUME NEW q \in Uploads, req[q].name = n, pc[q] \notin {"save", "source"}
                 PROVE  FALSE
    BY DEF Placed
  <2>2. q > r /\ q \notin met[r] /\ q \in Requests /\ pc[q] # "unsent"
    BY <2>1 DEF FirstUpload, FirstOf, Uploads
  <2> QED
    BY <1>1, <2>2 DEF RInv, LaterHaveMet, Requests
<1> QED
  BY <1>1, <1>2 DEF Contents

\* What a first upload has done stays, whatever a step of others does.
LEMMA OthersServe ==
    ASSUME IInv, NEW r \in Requests, Served(r),
           pc'[r] = pc[r], local'[r] = local[r], req'[r] = req[r],
           FirstUpload(r)' => FirstUpload(r),
           BagToSet(robots) \subseteq BagToSet(robots)', refused \subseteq refused',
           files[req[r].name] # 0 \/ Deleted(req[r].name) =>
               files'[req[r].name] # 0 \/ Deleted(req[r].name)',
           source[req[r].name] # 0 => source'[req[r].name] # 0,
           r \in InFlight /\ FirstUpload(r) =>
               /\ tests'["evosuite"][req[r].name] = tests["evosuite"][req[r].name]
               /\ Clean(tests["randoop"][req[r].name]) => Clean(tests'["randoop"][req[r].name])
    PROVE  Served(r)'
<1> DEFINE n == req[r].name
<1>0. SUFFICES ASSUME FirstUpload(r)'
               PROVE  FilePresent(r)' /\ SourcePresent(r)' /\ TestsAsLeft(r)' /\ Progress(r)'
  BY DEF Served
<1>1. FirstUpload(r)
  BY <1>0
<1>2. FilePresent(r) /\ SourcePresent(r) /\ TestsAsLeft(r) /\ Progress(r)
  BY <1>1 DEF Served
<1>3. FilePresent(r)' /\ SourcePresent(r)'
  BY <1>2 DEF FilePresent, SourcePresent
<1>4. TestsAsLeft(r)'
  <2>1. CASE pc[r] \in {"randoop", "storeRandoop"}
    <3>1. r \in InFlight
      BY <2>1 DEF InFlight, Over
    <3> QED
      BY <1>1, <1>2, <3>1 DEF TestsAsLeft
  <2> QED
    BY <2>1 DEF TestsAsLeft
<1>5. Progress(r)'
  <2>1. ASSUME NEW t PROVE Due(r, t)' = Due(r, t) /\ StoredBy(r, t) \subseteq StoredBy(r, t)'
    BY DEF Due, StoredBy
  <2>2. ASSUME NEW t PROVE Halfway(r, t) => Halfway(r, t)'
    BY <2>1 DEF Halfway
  <2>3. Idle(r) => Idle(r)'
    BY DEF Idle
  <2>4. ASSUME NEW t PROVE Got(r, t) => Got(r, t)'
    BY <2>1 DEF Got
  <2> QED
    BY <1>2, <2>2, <2>3, <2>4 DEF Progress
<1> QED
  BY <1>3, <1>4, <1>5

\* A clean directory stays so when levels are generated in it.
LEMMA GeneratedClean ==
    ASSUME NEW d \in Tests, Clean(d), NEW k \in 0 .. MaxLevel, NEW v, v # 0
    PROVE  Clean(Generated(d, k, v))
<1>1. 1 \in Levels /\ \A l \in Levels : l \in Nat /\ l >= 1
  BY CatalogueAssumption DEF Levels
<1>2. /\ Generated(d, k, v).odd = d.odd
      /\ \A l \in Levels : Generated(d, k, v).level[l] = IF l <= k THEN v ELSE d.level[l]
  BY DEF Generated, Tests
<1>3. CASE k = 0
  BY <1>1, <1>2, <1>3 DEF Clean
<1>4. CASE k >= 1
  BY <1>1, <1>2, <1>4 DEF Clean
<1> QED
  BY <1>3, <1>4

\* A step of another handler.
LEMMA OtherHandlers ==
    ASSUME IInv, RInv, PInv, NEW q \in Requests, Upload(q) \/ Record(q) \/ Fail(q),
           NEW r \in Requests \ {q}
    PROVE  Served(r)'
<1> DEFINE n == req[r].name
<1>0. /\ UNCHANGED <<req, met, session>> /\ pc[q] \notin Over
      /\ pc'[r] = pc[r] /\ local'[r] = local[r] /\ pc'[q] # "unsent"
      /\ \A p \in Requests \ {q} : pc'[p] = pc[p]
  BY StepsOfOne DEF IInv
<1>1. Uploads' = Uploads
  BY <1>0 DEF Uploads, Over
<1>2. FirstUpload(r)' => FirstUpload(r)
  BY <1>0, <1>1 DEF FirstUpload, FirstOf
<1>3. n \in Names
  BY DEF IInv, TypeOK, Asked
<1>4. /\ \/ source'[n] = source[n]
         \/ pc[q] = "source" /\ req[q].name = n /\ source'[n] = q /\ pc'[q] # "source"
      /\ \/ tests'["randoop"][n] = tests["randoop"][n]
         \/ source[n] # 0 /\ \E k \in 0 .. MaxLevel :
                tests'["randoop"][n] = Generated(tests["randoop"][n], k, source[n])
         \/ pc[q] \in {"archives", "unzip"} /\ req[q].name = n
      /\ \/ tests'["evosuite"][n] = tests["evosuite"][n]
         \/ pc[q] \in {"storeRandoop", "archives", "unzip"} /\ req[q].name = n
      /\ \/ files'[n] = files[n]
         \/ files'[n] = q
         \/ pc[q] = "remove" /\ req[q].name = n
  BY <1>3, DirSteps DEF IInv
<1>5. q # 0
  BY DEF Requests
<1>6. Deleted(n) => Deleted(n)'
  BY <1>0 DEF Deleted, Over
<1>7. pc[q] = "remove" /\ req[q].name = n => Deleted(n)
  BY DEF PInv, KindSteps, Deleted
<1>8. ASSUME r \in InFlight, FirstUpload(r)
      PROVE  /\ tests'["evosuite"][n] = tests["evosuite"][n]
             /\ Clean(tests["randoop"][n]) => Clean(tests'["randoop"][n])
  <2>1. ~(pc[q] \in {"storeRandoop", "archives", "unzip"} /\ req[q].name = n)
    <3>1. q \in InFlight
      BY <1>0 DEF InFlight
    <3>2. pc[q] \in Chain => req[q].kind \in UploadKinds
      BY <1>0 DEF PInv, KindSteps, Over
    <3> QED
      BY <1>8, <3>1, <3>2, FirstIsAlone DEF Chain
  <2>2. tests["randoop"][n] \in Tests
    BY <1>3 DEF IInv, TypeOK, RobotTypes
  <2> QED
    BY <1>4, <2>1, <2>2, GeneratedClean
<1>9. BagToSet(robots) \subseteq BagToSet(robots)' /\ refused \subseteq refused'
  BY HandlerGrows DEF IInv
<1>10. Served(r) /\ req'[r] = req[r]
  BY <1>0 DEF PInv
<1>11. files[n] # 0 \/ Deleted(n) => files'[n] # 0 \/ Deleted(n)'
  BY <1>4, <1>5, <1>6, <1>7
<1>12. source[n] # 0 => source'[n] # 0
  BY <1>4, <1>5
<1> QED
  BY <1>0, <1>2, <1>8, <1>9, <1>10, <1>11, <1>12, OthersServe

\* One turn of a loop: afterwards each level is still to store, or T4 has it or has
\* refused one, if that was so before.
LEMMA StoreProgress ==
    ASSUME TypeOK, NEW r \in Requests, NEW t \in RobotTypes, NEW l \in local[r].todo,
           Store(r, t, l), pc[r] = Loop(t), UNCHANGED req, pc'[r] # "failed"
    PROVE  /\ pc'[r] = pc[r]
           /\ Halfway(r, t) => Halfway(r, t)'
<1>1. l # 0 /\ Post(r, t, l) /\ Goto(r, pc[r], [local[r] EXCEPT !.todo = @ \ {l},
                                         !.liv = IF t = "randoop" /\ l > @ THEN l ELSE @])
  BY DEF Store, Goto, TypeOK
<1>2. pc[r] \in {"storeRandoop", "storeEvosuite"}
  BY DEF Loop
<1>3. pc'[r] = pc[r] /\ local'[r].todo = local[r].todo \ {l}
  BY SMTT(30), <1>1, <1>2 DEF Goto, TypeOK, Over, Locals
<1>4. refused \subseteq refused' /\ StoredBy(r, t) \subseteq StoredBy(r, t)'
  <2>1. refused \subseteq refused'
    BY <1>1 DEF Post
  <2>2. BagToSet(robots) \subseteq BagToSet(robots)'
    BY <1>1 DEF Post, BagToSet, SetToBag, (+)
  <2> QED
    BY <2>1, <2>2 DEF StoredBy
<1>5. r \in refused' \/ l \in StoredBy(r, t)'
  <2>1. CASE refused' = refused \cup {r}
    BY <2>1
  <2>2. CASE robots' = robots (+) SetToBag({Row(r, t, l)})
    <3>1. Row(r, t, l) \in BagToSet(robots)'
      BY <2>2 DEF BagToSet, SetToBag, (+)
    <3>2. /\ Row(r, t, l).type = t /\ Row(r, t, l).name = req[r].name
          /\ Row(r, t, l).level = l /\ Row(r, t, l).by = r
      BY DEF Row
    <3> HIDE DEF Row
    <3> QED
      BY <3>1, <3>2 DEF StoredBy
  <2> QED
    BY <1>1, <2>1, <2>2 DEF Post, Row
<1>6. Due(r, t)' = Due(r, t)
  BY DEF Due
<1> QED
  BY <1>3, <1>4, <1>5, <1>6 DEF Halfway

\* What a listing finds.
LEMMA ListProgress ==
    ASSUME TypeOK, NEW r \in Requests, NEW d, NEW step \in {"storeRandoop", "storeEvosuite"},
           List(r, d, step), pc'[r] # "failed"
    PROVE  /\ d.made /\ pc'[r] = step
           /\ local'[r].todo = Listed(d) /\ local'[r].liv = local[r].liv
<1>1. d.made /\ Goto(r, step, [local[r] EXCEPT !.todo = Listed(d)])
  BY DEF List, Goto, TypeOK
<1> HIDE DEF Listed
<1> QED
  BY <1>1 DEF Goto, TypeOK, Over, Locals

\* The steps of an upload that is the first of its class.
LEMMA OwnTests ==
    ASSUME IInv, RInv, PInv, NEW r \in Requests, FirstUpload(r),
           Upload(r) \/ Record(r) \/ Fail(r), pc'[r] # "failed"
    PROVE  SourcePresent(r)' /\ TestsAsLeft(r)' /\ Progress(r)'
<1> DEFINE n == req[r].name
<1>0. /\ UNCHANGED req /\ n \in Names /\ r # 0 /\ pc[r] # "unsent"
      /\ RobotTypes = {"randoop", "evosuite"} /\ 1 \in Levels
      /\ \A t \in RobotTypes : tests[t][n] \in Tests
      /\ req[r].kind \in UploadKinds
      /\ pc[r] \in UploadSteps
  <2>1. UNCHANGED req /\ pc[r] # "unsent"
    BY StepsOfOne DEF IInv, Over
  <2>2. n \in Names /\ \A t \in RobotTypes : tests[t][n] \in Tests
    BY DEF IInv, TypeOK, Asked
  <2>3. req[r].kind \in UploadKinds
    BY DEF FirstUpload, Uploads, UploadKinds
  <2> QED
    BY <2>1, <2>2, <2>3, CatalogueAssumption
    DEF PInv, KindSteps, RobotTypes, Requests, Levels, UploadSteps
<1>1. SourcePresent(r) /\ TestsAsLeft(r) /\ Progress(r)
  BY DEF PInv, Served
<1>2. ASSUME NEW t PROVE Got(r, t) => Got(r, t)'
  <2>1. BagToSet(robots) \subseteq BagToSet(robots)' /\ refused \subseteq refused'
    BY HandlerGrows DEF IInv
  <2> QED
    BY <1>0, <2>1 DEF Got, Due, StoredBy
<1>3. CASE Save(r)
  <2>1. pc'[r] = "source"
    BY <1>3 DEF Save, Goto, IInv, TypeOK
  <2> QED
    BY <2>1 DEF SourcePresent, TestsAsLeft, Progress
<1>4. CASE PlaceSource(r)
  <2>1. /\ pc[r] = "source" /\ UNCHANGED tests
        /\ pc'[r] = (IF req[r].kind = "upload" THEN "randoop" ELSE "archives")
        /\ local'[r] = NoLocals
        /\ source'[n] = r
    BY <1>0, <1>4 DEF PlaceSource, Goto, IInv, TypeOK
  <2>2. \A t \in RobotTypes : tests[t][n] = NoTests
    BY <2>1, FirstFindsNothing DEF PInv
  <2>3. Clean(NoTests) /\ ~NoTests.made /\ NoLocals.liv = 0
    BY CatalogueAssumption DEF Clean, NoTests, NoLocals, Levels
  <2>4. SourcePresent(r)'
    BY <1>0, <2>1 DEF SourcePresent
  <2>5. TestsAsLeft(r)'
    BY <1>0, <2>1, <2>2, <2>3 DEF TestsAsLeft
  <2>6. Progress(r)'
    BY <2>1 DEF Progress
  <2> QED
    BY <2>4, <2>5, <2>6
<1>5. CASE Randoop(r)
  <2>1. /\ pc[r] = "randoop" /\ req[r].kind = "upload" /\ UNCHANGED source
        /\ List(r, tests'["randoop"][n], "storeRandoop")
    BY <1>0, <1>5 DEF Randoop, PInv, KindSteps
  <2>2. /\ pc'[r] = "storeRandoop"
        /\ local'[r].todo = Listed(tests'["randoop"][n]) /\ local'[r].liv = local[r].liv
    BY <2>1, ListProgress DEF IInv
  <2>3. /\ \/ tests'["randoop"][n] = tests["randoop"][n]
           \/ source[n] # 0 /\ \E k \in 0 .. MaxLevel :
                  tests'["randoop"][n] = Generated(tests["randoop"][n], k, source[n])
        /\ tests'["evosuite"][n] = tests["evosuite"][n]
    BY <1>0, <2>1, DirSteps DEF IInv
  <2>4. Clean(tests'["randoop"][n])
    BY <1>0, <1>1, <2>1, <2>3, GeneratedClean DEF TestsAsLeft
  <2>5. Listed(tests'["randoop"][n]) = {} \/ 1 \in Listed(tests'["randoop"][n])
    BY <1>0, <2>4 DEF Clean, Listed
  <2>6. Progress(r)'
    BY <1>0, <1>1, <2>1, <2>2, <2>5 DEF Progress, Idle, Halfway, Due, TestsAsLeft
  <2>7. TestsAsLeft(r)'
    BY <1>0, <1>1, <2>1, <2>2, <2>3 DEF TestsAsLeft
  <2>8. SourcePresent(r)'
    BY <1>0, <1>1, <2>1 DEF SourcePresent
  <2> QED
    BY <2>6, <2>7, <2>8
<1>6. CASE StoreRandoop(r)
  <2>1. PICK l \in local[r].todo : Store(r, "randoop", l)
    BY <1>6 DEF StoreRandoop
  <2>2. pc[r] = "storeRandoop" /\ UNCHANGED <<source, tests>>
    BY <1>6 DEF StoreRandoop, disk
  <2>3. /\ pc'[r] = "storeRandoop"
        /\ Halfway(r, "randoop") => Halfway(r, "randoop")'
    BY <1>0, <2>1, <2>2, StoreProgress DEF Loop, IInv
  <2>4. Halfway(r, "randoop")
    BY <1>1, <2>1, <2>2 DEF Progress, Idle
  <2> QED
    BY <1>0, <1>1, <2>2, <2>3, <2>4 DEF SourcePresent, TestsAsLeft, Progress
<1>7. CASE Evosuite(r)
  <2>1. /\ pc[r] = "storeRandoop" /\ local[r].todo = {} /\ UNCHANGED source
        /\ List(r, tests'["evosuite"][n], "storeEvosuite")
    BY <1>7 DEF Evosuite
  <2>2. /\ tests'["evosuite"][n].made /\ pc'[r] = "storeEvosuite"
        /\ local'[r].todo = Listed(tests'["evosuite"][n])
    BY <2>1, ListProgress DEF IInv
  <2>3. source[n] # 0
    BY <1>1, <2>1 DEF SourcePresent
  <2>4. /\ Due(r, "evosuite") \subseteq Listed(tests'["evosuite"][n])
        /\ ~Idle(r)
    <3>1. CASE UNCHANGED tests
      <4>1. req[r].kind # "upload"
        BY <1>1, <2>1, <2>2, <3>1 DEF TestsAsLeft
      <4> QED
        BY <1>0, <1>1, <2>1, <3>1, <4>1 DEF TestsAsLeft, UploadKinds, Idle, Due
    <3>2. ASSUME req[r].kind = "upload", NEW k \in 1 .. local[r].liv,
                 tests' = [tests EXCEPT !["evosuite"][n] = Generated(@, k, source[n])]
          PROVE  Due(r, "evosuite") \subseteq Listed(tests'["evosuite"][n]) /\ ~Idle(r)
      <4>1. tests'["evosuite"][n] = Generated(tests["evosuite"][n], k, source[n])
        BY <1>0, <3>2 DEF IInv, TypeOK
      <4>2. k \in Nat /\ k >= 1 /\ local[r].liv # 0
        <5>1. local[r].liv \in Nat
          BY CatalogueAssumption DEF IInv, TypeOK, Locals
        <5> QED
          BY <3>2, <5>1
      <4>3. tests'["evosuite"][n].level[1] = source[n]
        BY <1>0, <4>1, <4>2 DEF Generated, Tests
      <4>4. 1 \in Listed(tests'["evosuite"][n])
        BY <1>0, <2>3, <4>3 DEF Listed
      <4> QED
        BY <3>2, <4>2, <4>4 DEF Idle, Due
    <3> QED
      BY <1>7, <3>1, <3>2 DEF Evosuite
  <2>5. Due(r, "evosuite")' = Due(r, "evosuite")
    BY <1>0 DEF Due
  <2>6. Halfway(r, "evosuite")'
    BY <2>2, <2>4, <2>5 DEF Halfway
  <2>7. Got(r, "randoop")'
    BY <1>1, <1>2, <2>1, <2>4 DEF Progress, Halfway, Got
  <2> QED
    BY <1>0, <1>1, <2>1, <2>2, <2>6, <2>7 DEF SourcePresent, TestsAsLeft, Progress
<1>8. CASE StoreEvosuite(r)
  <2>1. pc[r] = "storeEvosuite" /\ UNCHANGED <<source, tests>>
    BY <1>8 DEF StoreEvosuite, disk
  <2>2. Got(r, "randoop")' /\ Halfway(r, "evosuite")
    BY <1>1, <1>2, <2>1 DEF Progress
  <2>3. ASSUME NEW l \in local[r].todo, Store(r, "evosuite", l)
        PROVE  pc'[r] = "storeEvosuite" /\ Halfway(r, "evosuite")'
    BY <1>0, <2>1, <2>2, <2>3, StoreProgress DEF Loop, IInv
  <2>4. ASSUME local[r].todo = {}, Goto(r, "count", NoLocals)
        PROVE  pc'[r] = "count" /\ Got(r, "evosuite")'
    <3>1. Got(r, "evosuite")
      BY <2>2, <2>4 DEF Halfway, Got
    <3> QED
      BY <1>2, <2>4, <3>1 DEF Goto, IInv, TypeOK
  <2>5. \/ pc'[r] = "storeEvosuite" /\ Halfway(r, "evosuite")'
        \/ pc'[r] = "count" /\ Got(r, "evosuite")'
    BY <1>8, <2>3, <2>4 DEF StoreEvosuite
  <2> QED
    BY <1>0, <1>1, <2>1, <2>2, <2>5 DEF SourcePresent, TestsAsLeft, Progress
<1>9. CASE PlaceArchives(r)
  <2>1. pc[r] = "archives" /\ UNCHANGED source
    BY <1>9 DEF PlaceArchives
  <2>2. pc'[r] = "unzip"
    BY <2>1, PcSteps DEF IInv, Moves
  <2> QED
    BY <1>0, <1>1, <2>1, <2>2 DEF SourcePresent, TestsAsLeft, Progress
<1>10. CASE Unzip(r)
  <2> DEFINE good == {t \in local[r].took : t = "evosuite" => "randoop" \in local[r].took}
  <2>1. /\ pc[r] = "unzip" /\ UNCHANGED source /\ req[r].kind = "uploadTest"
        /\ pc'[r] = "storeRandoop"
    <3>1. pc[r] = "unzip" /\ UNCHANGED source
      BY <1>10 DEF Unzip
    <3> QED
      BY <1>0, <3>1, PcSteps DEF IInv, Moves, PInv, KindSteps
  <2>2. good = RobotTypes /\ List(r, tests'["randoop"][n], "storeRandoop")
    BY <1>10, <2>1 DEF Unzip, Goto, IInv, TypeOK
  <2>3. tests' = [t \in RobotTypes |-> IF t \in good
                     THEN [tests[t] EXCEPT ![n] = Unpacked(@, req[r].holds[t], r)]
                     ELSE tests[t]]
    BY <1>10 DEF Unzip
  <2> HIDE DEF good
  <2>4. ASSUME NEW t \in RobotTypes
        PROVE  req[r].holds[t] \subseteq Listed(tests'[t][n])
    <3>1. tests'[t][n] = Unpacked(tests[t][n], req[r].holds[t], r)
      BY <1>0, <2>2, <2>3 DEF IInv, TypeOK
    <3>2. req[r].holds[t] \subseteq 0 .. MaxLevel
      BY DEF IInv, TypeOK, Asked, Entries
    <3>3. 0 .. MaxLevel = Levels \cup {0}
      BY CatalogueAssumption DEF Levels
    <3>4. ASSUME NEW l \in req[r].holds[t], l # 0
          PROVE  l \in Levels /\ tests'[t][n].level[l] # 0
      <4>1. l \in Levels
        BY <3>2, <3>3, <3>4
      <4>2. tests'[t][n].level[l] = r
        BY <3>1, <3>4, <4>1 DEF Unpacked
      <4> QED
        BY <1>0, <4>1, <4>2
    <3>5. 0 \in req[r].holds[t] => tests'[t][n].odd # {}
      BY <3>1 DEF Unpacked
    <3> QED
      BY <3>2, <3>3, <3>4, <3>5 DEF Listed
  <2>5. local'[r].todo = Listed(tests'["randoop"][n])
    BY <2>1, <2>2, ListProgress DEF IInv
  <2>6. Halfway(r, "randoop")'
    <3>1. Due(r, "randoop")' = req[r].holds["randoop"]
      BY <1>0, <2>1 DEF Due
    <3> QED
      BY <1>0, <2>4, <2>5, <3>1 DEF Halfway
  <2> QED
    BY <1>0, <1>1, <2>1, <2>4, <2>6 DEF SourcePresent, TestsAsLeft, Progress
<1>11. CASE Record(r)
  <2>1. UNCHANGED <<source, tests>>
    BY <1>11 DEF Record, Count, Log, ListClass, Remove, Unlist, Edit, disk
  <2>2. pc[r] \in {"count", "log", "list"} /\ pc'[r] \in {"log", "list", "done"}
    <3>1. pc[r] \in {"count", "log", "list", "remove", "unlist", "edit"}
      BY <1>11 DEF Record, Count, Log, ListClass, Remove, Unlist, Edit
    <3>2. pc[r] \in {"count", "log", "list"}
      BY <1>0, <3>1 DEF Chain, UploadSteps
    <3>3. AfterLog(req[r].kind) = "list"
      BY <1>0 DEF AfterLog, UploadKinds
    <3> QED
      BY <3>2, <3>3, PcSteps DEF IInv, Moves
  <2> QED
    BY <1>0, <1>1, <1>2, <2>1, <2>2 DEF SourcePresent, TestsAsLeft, Progress
<1>12. CASE Fail(r)
  BY <1>12 DEF Fail, Goto, IInv, TypeOK
<1> QED
  BY <1>3, <1>4, <1>5, <1>6, <1>7, <1>8, <1>9, <1>10, <1>11, <1>12 DEF Upload

LEMMA OwnHandler ==
    ASSUME IInv, RInv, PInv, NEW r \in Requests, Upload(r) \/ Record(r) \/ Fail(r)
    PROVE  Served(r)'
<1> DEFINE n == req[r].name
<1>0. /\ UNCHANGED <<req, met>> /\ pc[r] \notin Over /\ pc'[r] # "unsent"
      /\ \A p \in Requests \ {r} : pc'[p] = pc[p]
  BY StepsOfOne DEF IInv
<1>1. SUFFICES ASSUME FirstUpload(r)'
               PROVE  FilePresent(r)' /\ SourcePresent(r)' /\ TestsAsLeft(r)' /\ Progress(r)'
  BY DEF Served
<1>2. FirstUpload(r)
  <2>1. Uploads' = Uploads
    BY <1>0 DEF Uploads, Over
  <2> QED
    BY <1>0, <1>1, <2>1 DEF FirstUpload, FirstOf
<1>3. CASE pc'[r] = "failed"
  BY <1>3 DEF FilePresent, SourcePresent, TestsAsLeft, Progress
<1>4. CASE pc'[r] # "failed"
  <2>1. SourcePresent(r)' /\ TestsAsLeft(r)' /\ Progress(r)'
    BY <1>2, <1>4, OwnTests
  <2>2. n \in Names /\ r # 0 /\ req[r].kind \in UploadKinds
    <3>1. n \in Names
      BY DEF IInv, TypeOK, Asked
    <3>2. r # 0
      BY DEF Requests
    <3>3. req[r].kind \in UploadKinds
      BY <1>2 DEF FirstUpload, Uploads, UploadKinds
    <3> QED
      BY <3>1, <3>2, <3>3
  <2>3. \/ files'[n] = files[n]
        \/ files'[n] = r
    <3>1. pc[r] # "remove"
      BY <1>0, <2>2 DEF PInv, KindSteps, UploadKinds, Over, Chain, UploadSteps
    <3> QED
      BY <2>2, <3>1, DirSteps DEF IInv
  <2>4. CASE pc[r] = "save"
    <3>1. Save(r)
      <4>1. pc[r] # "unsent" /\ ~Fail(r)
        BY <1>4, <2>4 DEF Fail, Goto, IInv, TypeOK
      <4> QED
        BY <2>4, <4>1
        DEF Upload, PlaceSource, Randoop, StoreRandoop, Evosuite, StoreEvosuite, PlaceArchives,
            Unzip, Record, Count, Log, ListClass, Remove, Unlist, Edit
    <3>2. files'[n] = r
      BY <2>2, <3>1 DEF Save, IInv, TypeOK
    <3> QED
      BY <1>0, <2>1, <2>2, <3>2 DEF FilePresent
  <2>5. CASE pc[r] # "save"
    <3>1. FilePresent(r) /\ pc[r] # "failed"
      BY <1>0, <1>2 DEF PInv, Served, Over
    <3>2. Deleted(n) => Deleted(n)'
      BY <1>0 DEF Deleted, Over
    <3>3. FilePresent(r)'
      BY <1>0, <2>2, <2>3, <2>5, <3>1, <3>2 DEF FilePresent
    <3> QED
      BY <2>1, <3>3
  <2> QED
    BY <2>4, <2>5
<1> QED
  BY <1>3, <1>4

\* Where requests are, what was listed and who has placed a source.
LEMMA HandlerPInv ==
    ASSUME IInv, RInv, PInv, NEW r \in Requests, Upload(r) \/ Record(r) \/ Fail(r)
    PROVE  PInv'
<1>0. /\ UNCHANGED <<req, met>> /\ pc[r] \notin Over /\ pc'[r] # "unsent"
      /\ \A p \in Requests \ {r} : pc'[p] = pc[p]
  BY StepsOfOne DEF IInv
<1>1. pc'[r] = "failed" \/ <<pc[r], pc'[r]>> \in Moves(req[r].kind)
  BY PcSteps DEF IInv
<1>2. KindSteps'
  <2>1. AfterLog(req[r].kind) = IF req[r].kind \in UploadKinds \cup {"insert"} THEN "list"
                                ELSE IF req[r].kind = "delete" THEN "unlist" ELSE "done"
    <3>1. req[r].kind \in Kinds
      BY DEF IInv, TypeOK, Asked
    <3> QED
      BY <3>1 DEF AfterLog, Kinds, UploadKinds
  <2>2. /\ pc[r] \in Chain => req[r].kind \in UploadKinds
        /\ req[r].kind \in UploadKinds => pc[r] \in UploadSteps
        /\ pc[r] = "randoop" => req[r].kind = "upload"
        /\ pc[r] \in {"archives", "unzip"} => req[r].kind = "uploadTest"
    BY <1>0 DEF PInv, KindSteps, Over
  <2>3. /\ pc'[r] \in Chain => req[r].kind \in UploadKinds
        /\ req[r].kind \in UploadKinds => pc'[r] \in UploadSteps
        /\ pc'[r] = "randoop" => req[r].kind = "upload"
        /\ pc'[r] \in {"archives", "unzip"} => req[r].kind = "uploadTest"
        /\ pc'[r] # "remove"
    BY <1>1, <2>1, <2>2 DEF Moves, Chain, UploadKinds, UploadSteps
  <2> QED
    BY <1>0, <2>3 DEF PInv, KindSteps
<1>3. DocsDone'
  <2>1. CASE UNCHANGED docs
    BY <1>0, <2>1 DEF PInv, DocsDone, Over, IInv, TypeOK
  <2>2. CASE ListClass(r)
    <3>1. pc'[r] = "done"
      BY <2>2 DEF ListClass, Goto, IInv, TypeOK
    <3> QED
      BY SMTT(30), <1>0, <2>2, <3>1 DEF ListClass, PInv, DocsDone, Over, IInv, TypeOK
  <2>3. CASE Unlist(r)
    BY SMTT(30), <1>0, <2>3 DEF Unlist, PInv, DocsDone, Over, IInv, TypeOK
  <2>4. CASE Edit(r)
    <3>1. \A e \in docs' : \E d \in docs : e.upload = d.upload
      BY <2>4 DEF Edit, Called, IInv, TypeOK
    <3>2. \A d \in docs : d.upload \in Requests /\ pc'[d.upload] = "done"
      BY <1>0 DEF PInv, DocsDone, Over, IInv, TypeOK
    <3> QED
      BY <3>1, <3>2 DEF DocsDone
  <2> QED
    BY <2>1, <2>2, <2>3, <2>4
    DEF Upload, Save, PlaceSource, Randoop, StoreRandoop, Evosuite, StoreEvosuite, PlaceArchives,
        Unzip, Record, Count, Log, Remove, Fail, lists
<1>4. Contents'
  <2>1. SUFFICES ASSUME NEW n \in Names,
                        source'[n] # 0 \/ \E t \in RobotTypes : tests'[t][n] # NoTests
                 PROVE  Placed(n)'
    BY DEF Contents
  <2>2. Placed(n) => Placed(n)'
    <3>1. pc[r] \notin {"save", "source"} => pc'[r] \notin {"save", "source"}
      <4>1. AfterLog(req[r].kind) \notin {"save", "source"}
        <5>1. req[r].kind \in Kinds
          BY DEF IInv, TypeOK, Asked
        <5> QED
          BY <5>1 DEF AfterLog, Kinds
      <4> QED
        BY <1>1, <4>1 DEF Moves
    <3>2. Uploads' = Uploads
      BY <1>0 DEF Uploads, Over
    <3> QED
      BY <1>0, <3>1, <3>2 DEF Placed, Uploads
  <2>3. ASSUME pc'[r] \notin {"save", "source"}, req[r].name = n, pc[r] \in Chain
        PROVE  Placed(n)'
    <3>1. r \in Uploads'
      BY <1>0, <2>3 DEF PInv, KindSteps, Over, Uploads, UploadKinds
    <3> QED
      BY <1>0, <2>3, <3>1 DEF Placed
  <2>4. /\ \/ source'[n] = source[n]
           \/ pc[r] = "source" /\ req[r].name = n /\ source'[n] = r /\ pc'[r] # "source"
        /\ \/ tests'["randoop"][n] = tests["randoop"][n]
           \/ source[n] # 0
           \/ pc[r] \in {"archives", "unzip"} /\ req[r].name = n
        /\ \/ tests'["evosuite"][n] = tests["evosuite"][n]
           \/ pc[r] \in {"storeRandoop", "archives", "unzip"} /\ req[r].name = n
    BY DirSteps DEF IInv
  <2>5. pc[r] \in {"source", "storeRandoop", "archives", "unzip"} /\ pc'[r] # "source"
          => pc'[r] \notin {"save", "source"}
    BY <1>1 DEF Moves
  <2>6. pc[r] \in {"storeRandoop", "archives", "unzip"} => pc'[r] # "source"
    BY <1>1 DEF Moves
  <2>7. CASE pc[r] \in {"source", "storeRandoop", "archives", "unzip"} /\ pc'[r] # "source"
               /\ req[r].name = n
    BY <2>3, <2>5, <2>7 DEF Chain
  <2>8. CASE source[n] # 0 \/ \E t \in RobotTypes : tests[t][n] # NoTests
    BY <2>2, <2>8 DEF PInv, Contents
  <2> QED
    BY <2>1, <2>4, <2>6, <2>7, <2>8 DEF RobotTypes
<1>5. ASSUME NEW q \in Requests PROVE Served(q)'
  BY OwnHandler, OtherHandlers
<1> QED
  BY <1>2, <1>3, <1>4, <1>5 DEF PInv

LEMMA InitPInv == Init => PInv
<1> SUFFICES ASSUME Init PROVE PInv
  OBVIOUS
<1>1. Uploads = {}
  BY DEF Init, Uploads
<1>2. Contents
  BY DEF Init, Contents
<1> QED
  BY <1>1, <1>2 DEF Init, PInv, KindSteps, DocsDone, Served, FirstUpload

LEMMA SendPInv ==
    ASSUME IInv, RInv, PInv, NEW r \in Requests, Send(r)
    PROVE  PInv'
<1>1. PICK m \in Menu[r] : req' = [req EXCEPT ![r] = m] /\ Goto(r, First(m.kind), NoLocals)
  BY DEF Send
<1>2. m.kind \in Kinds /\ First(m.kind) \notin Over
  <2>1. m.kind \in Kinds
    BY CatalogueAssumption DEF Requests
  <2> QED
    BY <2>1 DEF First, Kinds, Over
<1>3. /\ pc[r] = "unsent" /\ pc'[r] = First(m.kind) /\ req'[r] = m
      /\ \A q \in Requests \ {r} : pc'[q] = pc[q] /\ local'[q] = local[q] /\ req'[q] = req[q]
      /\ UNCHANGED <<robots, docs, files, source, tests, refused>>
  BY <1>1 DEF Send, Goto, IInv, TypeOK, disk, lists
<1>4. \A q \in Requests : met[q] \subseteq met'[q]
  <2>1. met' = [q \in Requests |-> IF q = r THEN InFlight
                                   ELSE IF q \in InFlight THEN met[q] \cup {r} ELSE met[q]]
    BY DEF Send
  <2> QED
    BY <1>3, <2>1 DEF IInv, UnsentAlone
<1>5. KindSteps'
  <2>1. /\ First(m.kind) \in Chain => m.kind \in UploadKinds
        /\ m.kind \in UploadKinds => First(m.kind) \in Chain
        /\ First(m.kind) \notin {"randoop", "archives", "unzip"}
        /\ First(m.kind) = "remove" => m.kind \in {"delete", "deleteFile"}
    BY <1>2 DEF First, Kinds, Chain, UploadKinds
  <2> QED
    BY <1>3, <2>1 DEF PInv, KindSteps, UploadSteps
<1>6. DocsDone'
  BY <1>3 DEF PInv, DocsDone, IInv, TypeOK
<1>7. Uploads \subseteq Uploads' /\ \A q \in Uploads : q # r
  BY <1>3 DEF Uploads
<1>8. Contents'
  BY <1>3, <1>7 DEF PInv, Contents, Placed, Uploads
<1>9. ASSUME NEW q \in Requests PROVE Served(q)'
  <2>1. CASE q = r
    <3>1. q \in Uploads' => pc'[q] = "save"
      BY <1>2, <1>3, <2>1 DEF Uploads, First
    <3> QED
      BY <3>1 DEF Served, FirstUpload, FilePresent, SourcePresent, TestsAsLeft, Progress
  <2>2. CASE q # r
    <3>1. FirstUpload(q)' => FirstUpload(q)
      <4>1. q \in Uploads' => q \in Uploads
        BY <1>3, <2>2 DEF Uploads
      <4> QED
        BY <1>3, <1>4, <1>7, <2>2, <4>1 DEF FirstUpload, FirstOf, Uploads
    <3>2. Deleted(req[q].name) => Deleted(req[q].name)'
      BY <1>3, <2>2 DEF Deleted
    <3>3. BagToSet(robots)' = BagToSet(robots)
      BY <1>3 DEF BagToSet
    <3> QED
      BY <1>3, <2>2, <3>1, <3>2, <3>3, OthersServe DEF PInv
  <2> QED
    BY <2>1, <2>2
<1> QED
  BY <1>5, <1>6, <1>8, <1>9 DEF PInv

LEMMA NextPInv == IInv /\ RInv /\ PInv /\ [Next]_vars => PInv'
<1> SUFFICES ASSUME IInv, RInv, PInv, [Next]_vars PROVE PInv'
  OBVIOUS
<1>1. ASSUME UNCHANGED <<pc, req, local, met, docs, files, source, tests, robots, refused>>
      PROVE  PInv'
  <2>1. KindSteps' /\ DocsDone'
    BY <1>1 DEF PInv, KindSteps, DocsDone
  <2>2. Uploads' = Uploads /\ \A n : Placed(n)' = Placed(n) /\ Deleted(n)' = Deleted(n)
    BY <1>1 DEF Uploads, Placed, Deleted
  <2>3. Contents'
    BY <1>1, <2>2 DEF PInv, Contents
  <2>4. \A r, t : StoredBy(r, t)' = StoredBy(r, t) /\ Due(r, t)' = Due(r, t)
    BY <1>1 DEF StoredBy, Due, BagToSet
  <2>5. ASSUME NEW r \in Requests
        PROVE  Served(r)'
    <3>1. FirstUpload(r)' = FirstUpload(r)
      BY <1>1, <2>2 DEF FirstUpload, FirstOf
    <3>2. FilePresent(r)' = FilePresent(r) /\ SourcePresent(r)' = SourcePresent(r)
      BY <1>1, <2>2 DEF FilePresent, SourcePresent
    <3>3. TestsAsLeft(r)' = TestsAsLeft(r)
      BY <1>1 DEF TestsAsLeft
    <3>4. Progress(r)' = Progress(r)
      BY <1>1, <2>4 DEF Progress, Idle, Halfway, Got
    <3> QED
      BY <3>1, <3>2, <3>3, <3>4 DEF Served, PInv
  <2> QED
    BY <2>1, <2>3, <2>5 DEF PInv
<1>2. CASE UNCHANGED vars
  BY <1>1, <1>2 DEF vars, history, disk, lists
<1>3. ASSUME NEW a \in Admins, Register(a) \/ Login(a) PROVE PInv'
  BY <1>1, <1>3 DEF Register, Login, history, disk, lists
<1>4. CASE Restart
  <2>1. UNCHANGED <<req, met, robots, docs, files, source, tests, refused>>
    BY <1>4 DEF Restart, history, disk, lists
  <2>2. \A r \in Requests : \/ r \in InFlight /\ pc'[r] = "failed"
                            \/ r \notin InFlight /\ pc'[r] = pc[r] /\ pc[r] \in Over
    BY <1>4 DEF Restart, InFlight
  <2>3. \A r \in Requests : (pc'[r] = "unsent" <=> pc[r] = "unsent") /\ pc'[r] \in Over
    BY <2>2 DEF InFlight, Over
  <2>4. KindSteps'
    BY <2>1, <2>2, <2>3 DEF PInv, KindSteps, Over, Chain, UploadSteps
  <2>5. DocsDone'
    BY <2>1, <2>2 DEF PInv, DocsDone, Over, InFlight, IInv, TypeOK
  <2>6. Uploads' = Uploads
    BY <2>1, <2>3 DEF Uploads
  <2>7. Contents'
    BY <2>1, <2>3, <2>6 DEF PInv, Contents, Placed, Uploads, Over
  <2>8. ASSUME NEW r \in Requests PROVE Served(r)'
    <3>1. CASE pc'[r] \in {"unsent", "failed"}
      BY <3>1 DEF Served, FirstUpload, Uploads, FilePresent, SourcePresent, TestsAsLeft, Progress
    <3>2. CASE pc'[r] = "done" /\ pc[r] = "done"
      <4>1. Served(r)
        BY DEF PInv
      <4> QED
        BY <2>1, <2>3, <2>6, <3>2, <4>1
        DEF Served, FirstUpload, FirstOf, FilePresent, SourcePresent, TestsAsLeft, Progress, Got,
            Due, StoredBy, Deleted, BagToSet
    <3> QED
      BY <2>2, <3>1, <3>2 DEF Over
  <2> QED
    BY <2>4, <2>5, <2>7, <2>8 DEF PInv
<1> QED
  BY <1>2, <1>3, <1>4, SendPInv, HandlerPInv DEF Next

\* A class that the list shows under the name it was uploaded with has its file,
\* unless somebody asked to remove it, and its robots (the first level of each that
\* was generated, every level of the archives it came with) when it is the first of
\* its name and T4 refused no robot.
THEOREM ListedClassesComplete == Spec => []ListedWithItsRobots
<1>1. ASSUME TypeOK, PInv PROVE ListedWithItsRobots
  <2>1. SUFFICES ASSUME NEW d \in docs, d.upload \in Uploads, FirstOf(d.upload),
                        d.upload \notin refused, d.name = req[d.upload].name
                 PROVE  /\ files[d.name] # 0 \/ Deleted(d.name)
                        /\ \A t \in RobotTypes :
                               /\ req[d.upload].kind = "upload" => 1 \in StoredBy(d.upload, t)
                               /\ req[d.upload].kind = "uploadTest" =>
                                      req[d.upload].holds[t] \subseteq StoredBy(d.upload, t)
    BY DEF ListedWithItsRobots
  <2>2. pc[d.upload] = "done" /\ d.upload \in Requests
    BY <1>1, <2>1 DEF PInv, DocsDone, TypeOK
  <2>3. FilePresent(d.upload) /\ Progress(d.upload)
    BY <1>1, <2>1, <2>2 DEF PInv, Served, FirstUpload
  <2>4. \A t \in RobotTypes : Due(d.upload, t) \subseteq StoredBy(d.upload, t)
    BY <2>1, <2>2, <2>3 DEF Progress, Got, RobotTypes
  <2> QED
    BY <2>1, <2>2, <2>3, <2>4 DEF FilePresent, Due
<1>2. IInv => TypeOK
  BY DEF IInv
<1> QED
  BY <1>1, <1>2, InitInv, NextInv, InitRInv, NextRInv, InitPInv, NextPInv, PTL DEF Spec
=============================================================================

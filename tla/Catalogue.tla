------------------------------- MODULE Catalogue -------------------------------
(***************************************************************************)
(* The catalogue of classes: the handlers of T1 (HomeController) with the  *)
(* uploads of RobotUtil, and the table of robots of T4.  An upload is a    *)
(* chain of steps over the file system, two generators, T4 and MongoDB,    *)
(* without a transaction: each may fail, and the steps of several          *)
(* requests interleave.  T1 keeps one administrator object for all of      *)
(* them, and numbers the entries of its log by counting those there are.   *)
(*                                                                         *)
(* Requests are numbered in the order in which they are sent; a version of *)
(* a class is the number of the request that uploaded it.                  *)
(***************************************************************************)
EXTENDS Integers, Sequences, FiniteSets, Bags

CONSTANTS
    MaxRequests,  \* bound on the requests
    Menu,         \* for each of them, what it may be: kind, class, new name, sender,
                  \* what its archives hold, and the bound on the requests in flight
                  \* when it is sent
    Names,        \* names of classes
    MaxLevel,     \* levels of a robot (10)
    Admins,       \* names of administrators
    Known,        \* those with an account when T1 starts
    Default,      \* the name before anybody has logged in
    MaxEntries,   \* bound on attempts to log in or register
    MaxFaults     \* bound on faults: a step throws, T4 refuses a robot, T1 restarts

Kinds == {"upload", "uploadTest", "insert", "delete", "deleteFile", "update"}

RobotTypes == {"randoop", "evosuite"}

\* What lies in an archive or in a directory of tests: levels, and 0 for an entry
\* whose name is not that of one.  It may be nothing, or the second without the first.
Entries == SUBSET (0 .. MaxLevel)

ASSUME CatalogueAssumption ==
    /\ MaxRequests \in Nat /\ MaxEntries \in Nat /\ MaxFaults \in Nat
    /\ MaxLevel \in Nat \ {0} /\ Names # {}
    /\ Default \notin Admins /\ Known \subseteq Admins
    /\ Menu \in [1 .. MaxRequests ->
           SUBSET [kind : Kinds, name : Names, to : Names, by : Admins,
                   holds : [RobotTypes -> Entries], company : Nat]]

VARIABLES
    pc,        \* where each request is
    req,       \* what it asks, and who sent it
    local,     \* the local variables of its handler
    admin,     \* userAdmin: one for all requests
    accounts,  \* the collection Admin
    docs,      \* the collection ClassUT: the upload and the name of each document
    log,       \* the collection Operation, in the order of insertion
    files,     \* Files-Upload: the version of each class, 0 for none
    source,    \* the version in the volume of T9, which both generators read
    tests,     \* the directory of tests of each robot and class
    robots,    \* the table of T4: a bag, as there is no key but the id
    entries, faults,
    met,       \* history: the requests in flight together with each
    refused    \* history: the uploads of which T4 has refused a robot

session == <<admin, accounts, entries>>
lists == <<docs, log>>
disk == <<files, source, tests>>
history == <<met, refused>>
vars == <<pc, req, local, robots, session, lists, disk, history, faults>>

-----------------------------------------------------------------------------
Requests == 1 .. MaxRequests
Levels == 1 .. MaxLevel

\* A directory of tests: whether it exists, the version each level is for (0: no
\* such level), and what else lies in it: archives, levels renamed to one, entries
\* that an archive held besides its levels, each as the number of its request.
NoTests == [made |-> FALSE, level |-> [l \in Levels |-> 0], odd |-> {}]

\* What listFiles finds.
Listed(d) == {l \in Levels : d.level[l] # 0} \cup (IF d.odd = {} THEN {} ELSE {0})

\* The entries still to store, the highest level of Randoop so far, the robots whose
\* archive was found again; the number and the administrator of the log entry.
NoLocals == [todo |-> {}, liv |-> 0, took |-> {}, id |-> 0, admin |-> Default]

Over == {"unsent", "done", "failed"}
InFlight == {r \in Requests : pc[r] \notin Over}
Goto(r, step, l) ==
    /\ pc' = [pc EXCEPT ![r] = step]
    /\ local' = [local EXCEPT ![r] = IF step \in Over THEN NoLocals ELSE l]

\* One more fault.
Fault == faults < MaxFaults /\ faults' = faults + 1

\* The first step of a handler, and the one after its entry has been logged.
First(kind) ==
    CASE kind \in {"upload", "uploadTest"} -> "save"
      [] kind = "insert" -> "count"
      [] kind \in {"delete", "deleteFile"} -> "remove"
      [] kind = "update" -> "edit"
AfterLog(kind) ==
    CASE kind \in {"upload", "uploadTest", "insert"} -> "list"
      [] kind = "delete" -> "unlist"
      [] OTHER -> "done"

-----------------------------------------------------------------------------
(* Administrators.                                                         *)

\* registraAdmin: userAdmin is set before the account is stored.
Register(a) ==
    /\ entries < MaxEntries /\ entries' = entries + 1
    /\ admin' = a
    /\ \/ accounts' = accounts \cup {a}
          /\ UNCHANGED faults
       \/ Fault /\ UNCHANGED accounts
    /\ UNCHANGED <<pc, req, local, robots, lists, disk, history>>

\* loginAdmin, with the right password or a wrong one.
Login(a) ==
    /\ entries < MaxEntries /\ entries' = entries + 1
    /\ a \in accounts
    /\ admin' \in {a, admin}
    /\ UNCHANGED <<accounts, pc, req, local, robots, lists, disk, history, faults>>

\* The page of an administrator sends a request.
Send(r) ==
    /\ pc[r] = "unsent" /\ \A q \in 1 .. r - 1 : pc[q] # "unsent"
    /\ \E m \in Menu[r] :
           /\ m.by \in accounts /\ Cardinality(InFlight) <= m.company
           /\ req' = [req EXCEPT ![r] = m]
           /\ Goto(r, First(m.kind), NoLocals)
    /\ met' = [q \in Requests |-> IF q = r THEN InFlight
                                  ELSE IF q \in InFlight THEN met[q] \cup {r} ELSE met[q]]
    /\ UNCHANGED <<robots, session, lists, disk, refused, faults>>

-----------------------------------------------------------------------------
(* Uploads.                                                                *)

\* FileUploadUtil.saveCLassFile
Save(r) ==
    /\ pc[r] = "save"
    /\ files' = [files EXCEPT ![req[r].name] = r]
    /\ Goto(r, "source", NoLocals)
    /\ UNCHANGED <<req, robots, session, lists, source, tests, history, faults>>

\* caricaFile into the volume of T9.
PlaceSource(r) ==
    /\ pc[r] = "source"
    /\ source' = [source EXCEPT ![req[r].name] = r]
    /\ Goto(r, IF req[r].kind = "upload" THEN "randoop" ELSE "archives", NoLocals)
    /\ UNCHANGED <<req, robots, session, lists, files, tests, history, faults>>

\* The levels up to k, generated for version v, over those there are.
Generated(d, k, v) ==
    [d EXCEPT !.made = TRUE, !.level = [l \in Levels |-> IF l <= k THEN v ELSE @[l]]]

\* Mutated form of List: a directory that is not there has no entries.
List_NullIsEmpty(r, d, step) == Goto(r, step, [local[r] EXCEPT !.todo = Listed(d)])

\* listFiles, which is null for a directory that is not there.
List(r, d, step) ==
    \/ d.made /\ Goto(r, step, [local[r] EXCEPT !.todo = Listed(d)])
    \/ ~d.made /\ Goto(r, "failed", NoLocals)

\* The process of T9 generates for every class that has a source and no first
\* level, or ends before (-1); then the handler lists what there is for its own.
Randoop(r) ==
    /\ pc[r] = "randoop"
    /\ \E k \in [Names -> -1 .. MaxLevel] :
           /\ \A c \in Names :
                  source[c] = 0 \/ tests["randoop"][c].level[1] # 0 => k[c] = -1
           /\ tests' = [tests EXCEPT !["randoop"] =
                  [c \in Names |-> IF k[c] = -1 THEN @[c] ELSE Generated(@[c], k[c], source[c])]]
    /\ List(r, tests'["randoop"][req[r].name], "storeRandoop")
    /\ UNCHANGED <<req, robots, session, lists, files, source, history, faults>>

\* Mutated form of Post: the lower half of the levels is posted twice.
Post_Twice(r, t, l) ==
    LET row == [name |-> req[r].name, type |-> t, level |-> l,
                version |-> tests[t][req[r].name].level[l], by |-> r]
    IN  \/ /\ robots' = robots (+) [x \in {row} |-> IF 2 * l <= MaxLevel THEN 2 ELSE 1]
           /\ UNCHANGED <<refused, faults>>
        \/ Fault /\ UNCHANGED robots /\ refused' = refused \cup {r}

\* saveT4: the status of the answer is not looked at.
Post(r, t, l) ==
    \/ /\ robots' = robots (+) SetToBag({[name |-> req[r].name, type |-> t, level |-> l,
                                          version |-> tests[t][req[r].name].level[l],
                                          by |-> r]})
       /\ UNCHANGED <<refused, faults>>
    \/ Fault /\ UNCHANGED robots /\ refused' = refused \cup {r}

\* Mutated form of Store: liv is the level that would come next.
Store_NextLevel(r, t, l) ==
    \/ /\ l = 0 \/ t = "randoop"
       /\ Goto(r, "failed", NoLocals) /\ UNCHANGED <<robots, refused, faults>>
    \/ /\ l # 0 /\ (t = "randoop" => tests[t][req[r].name].level[l] # 0)
       /\ Post(r, t, l)
       /\ Goto(r, pc[r], [local[r] EXCEPT !.todo = @ \ {l}, !.liv = l + 1])

\* One turn of a loop over the results: the coverage of level l is read and posted.
\* A name that is not a level's throws, and so does a level of Randoop without a
\* report: one that has gone, or was made by a run without tests, or came so in an
\* archive (what a level has inside is not kept).  For one of EvoSuite without a
\* report the coverage is 0 (and the version, when it has gone).
Store(r, t, l) ==
    \/ /\ l = 0 \/ t = "randoop"
       /\ Goto(r, "failed", NoLocals) /\ UNCHANGED <<robots, refused, faults>>
    \/ /\ l # 0 /\ (t = "randoop" => tests[t][req[r].name].level[l] # 0)
       /\ Post(r, t, l)
       /\ Goto(r, pc[r], [local[r] EXCEPT !.todo = @ \ {l},
                                          !.liv = IF t = "randoop" /\ l > @ THEN l ELSE @])

StoreRandoop(r) ==
    /\ pc[r] = "storeRandoop"
    /\ \E l \in local[r].todo : Store(r, "randoop", l)
    /\ UNCHANGED <<req, session, lists, disk, met>>

\* The loop over Randoop has ended.  An upload with tests goes on with those of
\* EvoSuite; otherwise robot_generazione.sh generates liv levels, or fewer when it is
\* cut short, or fails, as it does for none.
Evosuite(r) ==
    /\ pc[r] = "storeRandoop" /\ local[r].todo = {}
    /\ \/ UNCHANGED tests
       \/ /\ req[r].kind = "upload"
          /\ \E k \in 1 .. local[r].liv :
                 tests' = [tests EXCEPT !["evosuite"][req[r].name] =
                               Generated(@, k, source[req[r].name])]
    /\ List(r, tests'["evosuite"][req[r].name], "storeEvosuite")
    /\ UNCHANGED <<req, robots, session, lists, files, source, history, faults>>

StoreEvosuite(r) ==
    /\ pc[r] = "storeEvosuite"
    /\ \/ \E l \in local[r].todo : Store(r, "evosuite", l)
       \/ local[r].todo = {} /\ Goto(r, "count", NoLocals)
          /\ UNCHANGED <<robots, refused, faults>>
    /\ UNCHANGED <<req, session, lists, disk, met>>

\* saveRobots: both archives are put into the directories of tests, and the first
\* entry of each directory is renamed to the name of an archive.  It is the new
\* archive (MaxLevel + 1) only by chance if there is something else.
PlaceArchives(r) ==
    LET n == req[r].name
        Hidden(d, l) == [d EXCEPT !.made = TRUE, !.odd = @ \cup {r},
                                  !.level = [m \in Levels |-> IF m = l THEN 0 ELSE @[m]]]
    IN  /\ pc[r] = "archives"
        /\ \E first \in [RobotTypes -> 0 .. MaxLevel + 1] :
               /\ \A t \in RobotTypes : first[t] = MaxLevel + 1 \/ first[t] \in Listed(tests[t][n])
               /\ tests' = [t \in RobotTypes |-> [tests[t] EXCEPT ![n] = Hidden(@, first[t])]]
               /\ Goto(r, "unzip", [NoLocals EXCEPT !.took =
                                       {t \in RobotTypes : first[t] = MaxLevel + 1}])
        /\ UNCHANGED <<req, robots, session, lists, files, source, history, faults>>

\* The archive of request r, which held this, unpacked into d and deleted.
Unpacked(d, held, r) ==
    [made |-> TRUE, level |-> [l \in Levels |-> IF l \in held THEN r ELSE d.level[l]],
     odd |-> IF 0 \in held THEN d.odd \cup {r} ELSE d.odd \ {r}]

\* unzip and Files.delete of both archives, that of Randoop first; a directory that
\* was renamed cannot be opened.  What an archive holds is not looked at: a file that
\* is no archive unpacks to nothing.
Unzip(r) ==
    LET n == req[r].name
        good == {t \in local[r].took : t = "evosuite" => "randoop" \in local[r].took}
    IN  /\ pc[r] = "unzip"
        /\ tests' = [t \in RobotTypes |->
               IF t \in good
               THEN [tests[t] EXCEPT ![n] = Unpacked(@, req[r].holds[t], r)]
               ELSE tests[t]]
        /\ \/ good = RobotTypes /\ List(r, tests'["randoop"][n], "storeRandoop")
           \/ good # RobotTypes /\ Goto(r, "failed", NoLocals)
        /\ UNCHANGED <<req, robots, session, lists, files, source, history, faults>>

-----------------------------------------------------------------------------
(* The log and the collection of classes.                                  *)

\* Mutated form of Count: the entries are numbered by counting the classes.
Count_Classes(r) ==
    /\ pc[r] = "count"
    /\ Goto(r, "log", [NoLocals EXCEPT !.id = Cardinality(docs), !.admin = admin])
    /\ UNCHANGED <<req, robots, session, lists, disk, history, faults>>

\* The entry is made: numbered by the entries there are, in the name of userAdmin.
Count(r) ==
    /\ pc[r] = "count"
    /\ Goto(r, "log", [NoLocals EXCEPT !.id = Len(log), !.admin = admin])
    /\ UNCHANGED <<req, robots, session, lists, disk, history, faults>>

\* orepo.save
Log(r) ==
    /\ pc[r] = "log"
    /\ log' = Append(log, [id |-> local[r].id, admin |-> local[r].admin, of |-> r])
    /\ Goto(r, AfterLog(req[r].kind), NoLocals)
    /\ UNCHANGED <<req, docs, robots, session, disk, history, faults>>

\* repo.save: a document has no key of its own, so that one is added.
ListClass(r) ==
    /\ pc[r] = "list"
    /\ docs' = docs \cup {[upload |-> r, name |-> req[r].name]}
    /\ Goto(r, "done", NoLocals)
    /\ UNCHANGED <<req, log, robots, session, disk, history, faults>>

\* eliminaFile: the directory of the class goes, if there is one; eliminaClasse goes
\* on whatever the answer is.
Remove(r) ==
    /\ pc[r] = "remove"
    /\ \/ files' = [files EXCEPT ![req[r].name] = 0] /\ UNCHANGED faults
       \/ Fault /\ UNCHANGED files
    /\ Goto(r, IF req[r].kind = "delete" THEN "count" ELSE "done", NoLocals)
    /\ UNCHANGED <<req, robots, session, lists, source, tests, history>>

Called(n) == {d \in docs : d.name = n}

\* findAndRemove: one document of that name goes, if there is one.
Unlist(r) ==
    /\ pc[r] = "unlist"
    /\ \/ \E d \in Called(req[r].name) : docs' = docs \ {d}
       \/ Called(req[r].name) = {} /\ UNCHANGED docs
    /\ Goto(r, "done", NoLocals)
    /\ UNCHANGED <<req, log, robots, session, disk, history, faults>>

\* updateFirst: one document of that name is changed; nothing is logged when there
\* is none or nothing in it differs.
Edit(r) ==
    LET there == Called(req[r].name)
    IN  /\ pc[r] = "edit"
        /\ \/ /\ \E d \in there : docs' = (docs \ {d}) \cup {[d EXCEPT !.name = req[r].to]}
              /\ Goto(r, "count", NoLocals)
           \/ /\ there = {} \/ req[r].to = req[r].name
              /\ UNCHANGED docs
              /\ Goto(r, "done", NoLocals)
        /\ UNCHANGED <<req, log, robots, session, disk, history, faults>>

-----------------------------------------------------------------------------
(* Faults.                                                                 *)

\* What a request does next throws.
Fail(r) ==
    /\ pc[r] \notin Over /\ Fault
    /\ Goto(r, "failed", NoLocals)
    /\ UNCHANGED <<req, robots, session, lists, disk, history>>

\* T1 ends and starts again: the open pages remain, the one administrator does not.
Restart ==
    /\ Fault
    /\ pc' = [r \in Requests |-> IF r \in InFlight THEN "failed" ELSE pc[r]]
    /\ local' = [r \in Requests |-> NoLocals]
    /\ admin' = Default
    /\ UNCHANGED <<req, robots, accounts, entries, lists, disk, history>>

-----------------------------------------------------------------------------
Init ==
    /\ pc = [r \in Requests |-> "unsent"]
    /\ req = [r \in Requests |-> [kind |-> "insert", name |-> CHOOSE n \in Names : TRUE,
                                  to |-> CHOOSE n \in Names : TRUE, by |-> Default,
                                  holds |-> [t \in RobotTypes |-> {}], company |-> 0]]
    /\ local = [r \in Requests |-> NoLocals]
    /\ admin = Default /\ accounts = Known /\ docs = {} /\ log = <<>> /\ robots = EmptyBag
    /\ files = [n \in Names |-> 0]
    /\ source = [n \in Names |-> 0]
    /\ tests = [t \in RobotTypes |-> [n \in Names |-> NoTests]]
    /\ entries = 0 /\ faults = 0
    /\ met = [r \in Requests |-> {}] /\ refused = {}

Upload(r) ==
    \/ Save(r) \/ PlaceSource(r)
    \/ Randoop(r) \/ StoreRandoop(r) \/ Evosuite(r) \/ StoreEvosuite(r)
    \/ PlaceArchives(r) \/ Unzip(r)
Record(r) == Count(r) \/ Log(r) \/ ListClass(r) \/ Remove(r) \/ Unlist(r) \/ Edit(r)

Next ==
    \/ \E a \in Admins : Register(a) \/ Login(a)
    \/ \E r \in Requests : Send(r) \/ Upload(r) \/ Record(r) \/ Fail(r)
    \/ Restart

Spec == Init /\ [][Next]_vars

-----------------------------------------------------------------------------
(* Properties.                                                             *)

People == Admins \cup {Default}
Steps == {"unsent", "save", "source", "randoop", "storeRandoop", "storeEvosuite", "archives",
          "unzip", "count", "log", "list", "remove", "unlist", "edit", "done", "failed"}
Tests == [made : BOOLEAN, level : [Levels -> 0 .. MaxRequests], odd : SUBSET Requests]
Asked == [kind : Kinds, name : Names, to : Names, by : People,
          holds : [RobotTypes -> Entries], company : Nat]
Locals == [todo : Entries, liv : 0 .. MaxLevel, took : SUBSET RobotTypes, id : Nat,
           admin : People]
Robots == [name : Names, type : RobotTypes, level : Levels, version : 0 .. MaxRequests,
           by : Requests]

\* The types of the state of T1, of the volumes and of the table of robots.
TypeOK ==
    /\ pc \in [Requests -> Steps]
    /\ req \in [Requests -> Asked]
    /\ local \in [Requests -> Locals]
    /\ admin \in People /\ accounts \subseteq Admins
    /\ docs \subseteq [upload : Requests, name : Names]
    /\ log \in Seq([id : Nat, admin : People, of : Requests])
    /\ files \in [Names -> 0 .. MaxRequests]
    /\ source \in [Names -> 0 .. MaxRequests]
    /\ tests \in [RobotTypes -> [Names -> Tests]]
    /\ IsABag(robots)
    /\ BagToSet(robots) \subseteq Robots
    /\ entries \in 0 .. MaxEntries /\ faults \in 0 .. MaxFaults
    /\ met \in [Requests -> SUBSET Requests] /\ refused \subseteq Requests

\* The levels of a robot that request r has stored under the name of its class.
StoredBy(r, t) ==
    {x.level : x \in {y \in BagToSet(robots) : y.by = r /\ y.type = t /\ y.name = req[r].name}}

Uploads == {r \in Requests : pc[r] # "unsent" /\ req[r].kind \in {"upload", "uploadTest"}}
FirstOf(r) == \A q \in Uploads \ {r} : req[q].name = req[r].name => q > r /\ q \notin met[r]
Deleted(n) == \E q \in Requests : /\ pc[q] # "unsent" /\ req[q].name = n
                                 /\ req[q].kind \in {"delete", "deleteFile"}

\* A document is saved only after everything else: a class in the list has its file,
\* unless its removal was asked for, and its robots.  When they were generated, each
\* has a first level, without which nobody can play; when they came with the upload,
\* T4 has every level of both archives, and an archive with an entry that is no level
\* is not listed at all.  So it is for the first upload of a name, under the name it
\* was given, when T4 has refused none of its robots; nothing in the chain checks any
\* of it.
ListedWithItsRobots ==
    \A d \in docs :
        d.upload \in Uploads /\ FirstOf(d.upload) /\ d.upload \notin refused
          /\ d.name = req[d.upload].name
        => /\ files[d.name] # 0 \/ Deleted(d.name)
           /\ \A t \in RobotTypes :
                  /\ req[d.upload].kind = "upload" => 1 \in StoredBy(d.upload, t)
                  /\ req[d.upload].kind = "uploadTest" =>
                         req[d.upload].holds[t] \subseteq StoredBy(d.upload, t)

\* T4 has no key for a robot: an upload stores each level of each robot once, so
\* that a level found twice is of two uploads.  And the tests it stores are for
\* its own version of the class, for an older one (of levels generated before, or
\* 0 when they have gone), or for that of an upload it overlapped.
RobotsOfOneUpload ==
    \A x \in BagToSet(robots) :
        /\ robots[x] = 1
        /\ \A y \in BagToSet(robots) :
               x # y /\ x.name = y.name /\ x.type = y.type /\ x.level = y.level => x.by # y.by
        /\ x.version <= x.by \/ x.version \in met[x.by]

\* The number of an entry is the number of entries counted before it is saved:
\* entries of operations that did not overlap are numbered in their order, with
\* no number taken twice.
LogIsOrdered ==
    \A i, j \in 1 .. Len(log) :
        i < j /\ log[i].of \notin met[log[j].of] => log[i].id < log[j].id
=============================================================================

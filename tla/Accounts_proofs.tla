-------------------------- MODULE Accounts_proofs --------------------------
(***************************************************************************)
(* Proofs about Accounts, for any number of clients, addresses, passwords  *)
(* and requests.  The inductive invariant says what a handler may rely on  *)
(* between its read and its write: that the requests it runs together with *)
(* are recorded, and what of the row it has read is still so.              *)
(***************************************************************************)
EXTENDS Accounts, TLAPS

Reads(c) == request[c].stage = "read"

\* What a handler has checked before its write.
ChecksPassed(c) ==
    /\ request[c].op \in Ops /\ request[c].email \in Emails
    /\ request[c].op \in {"register", "login", "change"} => request[c].password \in Passwords
    /\ request[c].op \in {"login", "reset", "change"} =>
          /\ request[c].id \in DOMAIN students
          /\ request[c].user \in Rows
          /\ request[c].user.email = request[c].email
          /\ students[request[c].id].email = request[c].email
    /\ request[c].op = "change" => request[c].user.resetToken # None

Checked ==
    \A c \in Clients :
        /\ Reads(c) => ChecksPassed(c)
        /\ request[c].stage = "saved" /\ request[c].op = "reset" => request[c].token \in Tokens

\* Requests for one e-mail that run together have met.
PairsMet ==
    \A c, d \in Clients :
        c # d /\ Reads(c) /\ Reads(d) /\ request[c].email = request[d].email
            => ~Never(request[c].email, request[c].op, request[d].op)

\* A registration that nothing overtook still finds its e-mail free.
StillFree ==
    \A c \in Clients :
        Writing(c, "register") /\ Never(request[c].email, "register", "register")
            => RowsOf(request[c].email) = {}

\* A reset that no change met writes the password back that is there.
StillRead ==
    \A c \in Clients :
        /\ Writing(c, "reset")
        /\ Never(request[c].email, "register", "register")
        /\ Never(request[c].email, "reset", "change")
        => request[c].user.password = students[request[c].id].password

\* The password of a login is still the student's.
StillKnown ==
    \A c \in Clients :
        /\ Writing(c, "login")
        /\ Never(request[c].email, "register", "register")
        /\ Never(request[c].email, "login", "change")
        /\ Never(request[c].email, "reset", "change")
        => students[request[c].id].password = request[c].password

\* A token that is stored, or was accepted, is one that has changed nothing yet.
TokenIsUnused ==
    \A e \in Emails :
        Never(e, "register", "register") /\ Never(e, "change", "change") =>
            /\ \A i \in RowsOf(e) : students[i].resetToken # None => changes[e] < resets[e]
            /\ \A c \in Clients : Writing(c, "change") /\ request[c].email = e
                  => changes[e] < resets[e]

Inv ==
    /\ TypeOK
    /\ Checked
    /\ PairsMet
    /\ StillFree
    /\ RegistersOnce
    /\ StillRead
    /\ ChosenPasswordStays
    /\ StillKnown
    /\ TokenIsUnused
    /\ TokensChangeOnce

-----------------------------------------------------------------------------
LEMMA InitInv == Init => Inv
<1> SUFFICES ASSUME Init PROVE Inv
  OBVIOUS
<1>1. Idle \in Requests
  BY DEF Idle, Requests
<1>2. TypeOK
  BY <1>1, ConstantsAssumption DEF Init, TypeOK
<1>3. \A c \in Clients : request[c].stage = "idle"
  BY DEF Init, Idle
<1>4. \A e \in Emails : RowsOf(e) = {}
  <2>1. DOMAIN students = {}
    BY DEF Init
  <2> QED
    BY <2>1 DEF RowsOf
<1>5. Checked /\ PairsMet /\ StillFree /\ StillRead /\ StillKnown
  BY <1>3 DEF Checked, PairsMet, StillFree, StillRead, StillKnown, Reads, Writing
<1>6. RegistersOnce /\ ChosenPasswordStays /\ TokenIsUnused
  BY <1>3, <1>4 DEF RegistersOnce, ChosenPasswordStays, TokenIsUnused, Writing
<1>7. TokensChangeOnce
  BY DEF Init, TokensChangeOnce
<1> QED
  BY <1>2, <1>5, <1>6, <1>7 DEF Inv

\* Who met does not depend on who came first.
LEMMA NeverIsSymmetric ==
    ASSUME NEW e, NEW a, NEW b
    PROVE  Never(e, a, b) = Never(e, b, a)
<1>1. {a, b} = {b, a}
  OBVIOUS
<1> QED
  BY <1>1 DEF Never

\* What a student's token holds.
LEMMA GeneratedTokens ==
    ASSUME TypeOK, NEW i \in DOMAIN students
    PROVE  GenerateToken(i) \in Tokens /\ GenerateToken(i) # None
<1>1. i \in Nat \ {0} /\ students[i] \in Rows
  BY DEF TypeOK
<1>2. clock \in Nat
  BY ConstantsAssumption DEF TypeOK
<1>3. GenerateToken(i) \in Tokens
  BY <1>1, <1>2 DEF GenerateToken, Tokens, Rows
<1> QED
  BY <1>3, ConstantsAssumption DEF Tokens

\* The check of a handler opens its request: r holds what was read.
Opens(c, r) ==
    /\ Begin(c, r)
    /\ r \in Requests /\ r.stage = "read" /\ r.op \in Ops /\ r.email \in Emails
    /\ r.op = "register" => r.password \in Passwords /\ RowsOf(r.email) = {}
    /\ r.op \in {"login", "change"} => r.password \in Passwords
    /\ r.op \in {"login", "reset", "change"} =>
          /\ r.id \in DOMAIN students /\ r.user = students[r.id]
          /\ students[r.id].email = r.email
    /\ r.op = "login" => r.password = students[r.id].password
    /\ r.op = "change" => students[r.id].resetToken # None

LEMMA ChecksOpen ==
    ASSUME TypeOK, NEW c \in Clients, Check(c)
    PROVE  \E r : Opens(c, r)
<1>0. \A i \in DOMAIN students : i \in Nat /\ students[i] \in Rows
  BY DEF TypeOK
<1>1. CASE Register(c)
  <2>1. PICK e \in Emails, p \in Passwords :
           /\ RowsOf(e) = {}
           /\ Begin(c, [Idle EXCEPT !.stage = "read", !.op = "register",
                                    !.email = e, !.password = p])
    BY <1>1 DEF Register
  <2> DEFINE r == [Idle EXCEPT !.stage = "read", !.op = "register",
                               !.email = e, !.password = p]
  <2>2. r \in Requests
    BY DEF Idle, Requests, Ops
  <2>3. r.stage = "read" /\ r.op = "register" /\ r.email = e /\ r.password = p
    BY DEF Idle
  <2> HIDE DEF r
  <2> QED
    BY <2>1, <2>2, <2>3 DEF Opens, Ops, r
<1>2. CASE Login(c)
  <2>1. PICK e \in Emails, p \in Passwords, i \in DOMAIN students :
           /\ FindByEmail(e, i) /\ students[i].password = p
           /\ Begin(c, [Idle EXCEPT !.stage = "read", !.op = "login", !.email = e,
                            !.password = p, !.id = i, !.user = students[i]])
    BY <1>2 DEF Login
  <2> DEFINE r == [Idle EXCEPT !.stage = "read", !.op = "login", !.email = e,
                            !.password = p, !.id = i, !.user = students[i]]
  <2>2. r \in Requests
    BY <1>0 DEF Idle, Requests, Ops
  <2>3. /\ r.stage = "read" /\ r.op = "login" /\ r.email = e /\ r.password = p
        /\ r.id = i /\ r.user = students[i]
    BY DEF Idle
  <2>4. students[i].email = e
    BY <2>1 DEF FindByEmail, RowsOf
  <2> HIDE DEF r
  <2> QED
    BY <2>1, <2>2, <2>3, <2>4 DEF Opens, Ops, r
<1>3. CASE Logout(c)
  <2>1. cookie[c] \in Tokens
    BY <1>3 DEF Logout, TypeOK
  <2> DEFINE r == [Idle EXCEPT !.stage = "read", !.op = "logout",
                               !.email = cookie[c].email, !.token = cookie[c]]
  <2>2. r \in Requests
    BY <2>1 DEF Idle, Requests, Ops, Tokens
  <2>3. r.stage = "read" /\ r.op = "logout" /\ r.email \in Emails
    BY <2>1 DEF Idle, Tokens
  <2>4. Begin(c, r)
    BY <1>3 DEF Logout
  <2> HIDE DEF r
  <2> QED
    BY <2>2, <2>3, <2>4 DEF Opens, Ops
<1>4. CASE ResetPassword(c)
  <2>1. PICK e \in Emails, i \in DOMAIN students :
           /\ FindByEmail(e, i)
           /\ Begin(c, [Idle EXCEPT !.stage = "read", !.op = "reset", !.email = e,
                                    !.id = i, !.user = students[i]])
    BY <1>4 DEF ResetPassword
  <2> DEFINE r == [Idle EXCEPT !.stage = "read", !.op = "reset", !.email = e,
                                    !.id = i, !.user = students[i]]
  <2>2. r \in Requests
    BY <1>0 DEF Idle, Requests, Ops
  <2>3. /\ r.stage = "read" /\ r.op = "reset" /\ r.email = e
        /\ r.id = i /\ r.user = students[i]
    BY DEF Idle
  <2>4. students[i].email = e
    BY <2>1 DEF FindByEmail, RowsOf
  <2> HIDE DEF r
  <2> QED
    BY <2>1, <2>2, <2>3, <2>4 DEF Opens, Ops, r
<1>5. CASE ChangePassword(c)
  <2>1. PICK e \in Emails, p \in Passwords, t \in mailbox, i \in DOMAIN students :
           /\ FindByEmail(e, i) /\ students[i].resetToken = t
           /\ Begin(c, [Idle EXCEPT !.stage = "read", !.op = "change", !.email = e,
                            !.password = p, !.id = i, !.user = students[i]])
    BY <1>5 DEF ChangePassword
  <2> DEFINE r == [Idle EXCEPT !.stage = "read", !.op = "change", !.email = e,
                            !.password = p, !.id = i, !.user = students[i]]
  <2>2. r \in Requests
    BY <1>0 DEF Idle, Requests, Ops
  <2>3. /\ r.stage = "read" /\ r.op = "change" /\ r.email = e /\ r.password = p
        /\ r.id = i /\ r.user = students[i]
    BY DEF Idle
  <2>4. students[i].email = e
    BY <2>1 DEF FindByEmail, RowsOf
  <2>5. t # None
    BY ConstantsAssumption DEF TypeOK, Tokens
  <2> HIDE DEF r
  <2> QED
    BY ZenonT(60), <2>1, <2>2, <2>3, <2>4, <2>5 DEF Opens, Ops, r
<1> QED
  BY <1>1, <1>2, <1>3, <1>4, <1>5 DEF Check

-----------------------------------------------------------------------------
(* Opening a request.                                                      *)

LEMMA OpenStep ==
    ASSUME Inv, NEW c \in Clients, NEW r, Opens(c, r), TypeOK'
    PROVE  Inv'
<1> DEFINE Others == Clients \ {c}
<1>1. /\ students' = students /\ chosen' = chosen
      /\ resets' = resets /\ changes' = changes
      /\ request'[c] = r /\ \A d \in Others : request'[d] = request[d]
      /\ request[c].stage = "idle" /\ r.stage = "read"
  BY DEF Inv, TypeOK, Opens, Begin, Idle, tables
<1>2. \A e, a, b : Never(e, a, b)' => Never(e, a, b)
  BY DEF Opens, Begin, Never
<1>3. \A e : RowsOf(e)' = RowsOf(e)
  BY <1>1 DEF RowsOf
<1>4. Checked'
  <2>0. \A i \in DOMAIN students : students[i] \in Rows
    BY DEF Inv, TypeOK
  <2>1. ChecksPassed(c)'
    BY <1>1, <2>0 DEF Opens, ChecksPassed
  <2>2. \A d \in Others : ChecksPassed(d) => ChecksPassed(d)'
    BY <1>1 DEF ChecksPassed
  <2>3. \A d \in Others :
          /\ Reads(d)' => ChecksPassed(d)'
          /\ request'[d].stage = "saved" /\ request'[d].op = "reset"
                => request'[d].token \in Tokens
    BY <1>1, <2>2 DEF Inv, Checked, Reads
  <2>4. request'[c].stage # "saved"
    BY <1>1
  <2> QED
    BY <2>1, <2>3, <2>4 DEF Checked
<1>5. PairsMet'
  <2>1. ASSUME NEW d \in Others, Reads(d), request[d].email = r.email
        PROVE  ~Never(r.email, r.op, request[d].op)'
    <3>1. <<r.email, {r.op, request[d].op}>> \in Together(r.email, r.op)
      BY <2>1 DEF Together, Reads
    <3> QED
      BY <1>1, <3>1 DEF Never, Opens, Begin
  <2>2. ASSUME NEW d \in Others, Reads(d), request[d].email = r.email
        PROVE  ~Never(r.email, request[d].op, r.op)'
    <3>1. {r.op, request[d].op} = {request[d].op, r.op}
      OBVIOUS
    <3> QED
      BY <2>1, <2>2, <3>1 DEF Never
  <2> QED
    BY <1>1, <1>2, <2>1, <2>2 DEF Inv, PairsMet, Reads
<1>6. StillFree' /\ RegistersOnce'
  BY <1>1, <1>2, <1>3 DEF Inv, StillFree, RegistersOnce, Writing, Opens
<1>7. StillRead' /\ ChosenPasswordStays'
  BY <1>1, <1>2, <1>3 DEF Inv, StillRead, ChosenPasswordStays, Writing, Opens
<1>8. StillKnown'
  BY <1>1, <1>2, <1>3 DEF Inv, StillKnown, Writing, Opens
<1>9. TokenIsUnused' /\ TokensChangeOnce'
  <2>1. ASSUME r.op = "change", Never(r.email, "register", "register"),
               Never(r.email, "change", "change")
        PROVE  changes[r.email] < resets[r.email]
    BY <2>1 DEF Opens, Inv, TokenIsUnused, RowsOf
  <2> QED
    BY <1>1, <1>2, <1>3, <2>1 DEF Inv, TokenIsUnused, TokensChangeOnce, Writing, Opens
<1> QED
  BY <1>4, <1>5, <1>6, <1>7, <1>8, <1>9 DEF Inv

-----------------------------------------------------------------------------
(* Steps that change no student and end a request or leave it.             *)

LEMMA QuietStep ==
    ASSUME Inv, TypeOK', students' = students, UNCHANGED history,
           \A d \in Clients :
               \/ request'[d] = request[d]
               \/ request'[d].stage = "idle"
               \/ /\ Reads(d) /\ request'[d].stage = "saved"
                  /\ request'[d].op = request[d].op /\ request[d].op # "reset"
    PROVE  Inv'
<1>1. \A e, a, b : Never(e, a, b)' = Never(e, a, b)
  BY DEF Never, history
<1>2. \A e : RowsOf(e)' = RowsOf(e)
  BY DEF RowsOf
<1>3. \A d \in Clients : Reads(d)' => request'[d] = request[d] /\ Reads(d)
  BY DEF Reads
<1>4. \A d \in Clients : \A op : Writing(d, op)' => request'[d] = request[d] /\ Writing(d, op)
  BY DEF Writing, Reads
<1>5. Checked'
  <2>1. \A d \in Clients : request'[d] = request[d] /\ ChecksPassed(d) => ChecksPassed(d)'
    BY DEF ChecksPassed
  <2> QED
    BY <1>3, <2>1 DEF Inv, Checked
<1>6. PairsMet'
  BY <1>1, <1>3 DEF Inv, PairsMet
<1>7. StillFree' /\ RegistersOnce'
  BY <1>1, <1>2, <1>4 DEF Inv, StillFree, RegistersOnce
<1>8. StillRead' /\ ChosenPasswordStays'
  BY <1>1, <1>2, <1>4 DEF Inv, StillRead, ChosenPasswordStays, history
<1>9. StillKnown'
  BY <1>1, <1>2, <1>4 DEF Inv, StillKnown
<1>10. TokenIsUnused' /\ TokensChangeOnce'
  BY <1>1, <1>2, <1>4 DEF Inv, TokenIsUnused, TokensChangeOnce, history
<1> QED
  BY <1>5, <1>6, <1>7, <1>8, <1>9, <1>10 DEF Inv

-----------------------------------------------------------------------------
(* The writes to the table of the students.                                *)

\* A handler that writes no longer reads, and disturbs the request of nobody.
LEMMA WriteFrame ==
    ASSUME TypeOK, NEW c \in Clients, NEW t, Reads(c), Saved(c, t)
    PROVE  /\ \A d \in Clients \ {c} : request'[d] = request[d]
           /\ request'[c].stage = "saved" /\ request'[c].op = request[c].op
           /\ request'[c].token = t
           /\ \A d \in Clients : Reads(d)' => d # c /\ request'[d] = request[d] /\ Reads(d)
           /\ \A d \in Clients : \A op : Writing(d, op)' =>
                 d # c /\ request'[d] = request[d] /\ Writing(d, op)
<1>1. request[c] \in Requests
  BY DEF TypeOK
<1>2. /\ request'[c].stage = "saved" /\ request'[c].op = request[c].op
      /\ request'[c].token = t
  BY <1>1 DEF Saved, TypeOK, Requests
<1>3. \A d \in Clients \ {c} : request'[d] = request[d]
  BY DEF Saved, TypeOK
<1> QED
  BY <1>2, <1>3 DEF Reads, Writing

LEMMA InsertStep ==
    ASSUME Inv, NEW c \in Clients, Insert(c), TypeOK'
    PROVE  Inv'
<1> DEFINE n == Len(students) + 1
<1>0. PICK e0 : e0 = request[c].email
  OBVIOUS
<1>1. Reads(c) /\ Saved(c, None) /\ TypeOK
  BY DEF Insert, Writing, Reads, Inv
<1>2. /\ \A d \in Clients : Reads(d)' => d # c /\ request'[d] = request[d] /\ Reads(d)
      /\ \A d \in Clients : \A op : Writing(d, op)' =>
            d # c /\ request'[d] = request[d] /\ Writing(d, op)
      /\ \A d \in Clients \ {c} : request'[d] = request[d]
      /\ request'[c].op = request[c].op
  BY <1>1, WriteFrame
<1>3. ChecksPassed(c) /\ request[c].op = "register"
  BY <1>1 DEF Inv, Checked, Insert, Writing
<1>4. e0 \in Emails /\ request[c].password \in Passwords
  BY <1>0, <1>3 DEF ChecksPassed
<1>5. /\ DOMAIN students' = DOMAIN students \cup {n} /\ n \notin DOMAIN students
      /\ \A i \in DOMAIN students : students'[i] = students[i]
      /\ students'[n] = [email |-> e0, password |-> request[c].password, resetToken |-> None]
  <2>1. students \in Seq(Rows)
    BY <1>1 DEF TypeOK
  <2>2. Len(students) \in Nat /\ DOMAIN students = 1 .. Len(students)
    BY <2>1
  <2>3. students' = Append(students, [email |-> e0, password |-> request[c].password,
                                      resetToken |-> None])
    BY <1>0 DEF Insert
  <2>4. Len(students') = n /\ DOMAIN students' = 1 .. n
    BY <2>1, <2>3
  <2>5. \A i \in DOMAIN students : students'[i] = students[i]
    BY <2>1, <2>3
  <2> QED
    BY <2>1, <2>2, <2>3, <2>4, <2>5
<1>6. \A e, a, b : Never(e, a, b)' = Never(e, a, b)
  BY DEF Never, Insert
<1>7. /\ RowsOf(e0)' = RowsOf(e0) \cup {n}
      /\ \A e : e # e0 => RowsOf(e)' = RowsOf(e)
      /\ \A e : \A i \in RowsOf(e) : i # n /\ students'[i] = students[i]
  BY <1>5 DEF RowsOf
<1>8. Checked'
  <2>1. \A d \in Clients \ {c} : ChecksPassed(d) => ChecksPassed(d)'
    BY <1>2, <1>5 DEF ChecksPassed
  <2>2. request'[c].op # "reset"
    BY <1>2, <1>3
  <2>3. \A d \in Clients \ {c} :
          /\ Reads(d)' => ChecksPassed(d)'
          /\ request'[d].stage = "saved" /\ request'[d].op = "reset"
                => request'[d].token \in Tokens
    BY <1>2, <2>1 DEF Inv, Checked
  <2>4. ~Reads(c)'
    BY <1>2
  <2> QED
    BY <2>2, <2>3, <2>4 DEF Checked
<1>9. PairsMet'
  BY <1>2, <1>6 DEF Inv, PairsMet
<1>10. Never(e0, "register", "register") => RowsOf(e0) = {}
  BY <1>0, <1>1, <1>3 DEF Inv, StillFree, Insert
<1>11. StillFree'
  <2>1. \A d \in Clients : Writing(d, "register")' /\ request[d].email = e0
           => ~Never(e0, "register", "register")
    BY <1>0, <1>1, <1>2, <1>3 DEF Inv, PairsMet, Writing, Reads
  <2> QED
    BY <1>2, <1>6, <1>7, <2>1 DEF Inv, StillFree
<1>12. RegistersOnce'
  BY <1>6, <1>7, <1>10 DEF Inv, RegistersOnce
<1>13. StillRead' /\ StillKnown'
  <2>1. \A d \in Clients : Writing(d, "reset")' \/ Writing(d, "login")' =>
           /\ request'[d] = request[d]
           /\ students'[request[d].id] = students[request[d].id]
    <3>1. \A d \in Clients : Writing(d, "reset") \/ Writing(d, "login")
             => request[d].id \in DOMAIN students
      BY DEF Inv, Checked, ChecksPassed, Writing, Reads
    <3> QED
      BY <1>2, <1>5, <3>1
  <2> QED
    BY <1>2, <1>6, <2>1 DEF Inv, StillRead, StillKnown
<1>14. ChosenPasswordStays'
  <2>1. chosen'[e0] = request[c].password /\ \A e \in Emails \ {e0} : chosen'[e] = chosen[e]
    BY <1>0, <1>1, <1>4 DEF Insert, TypeOK
  <2> QED
    BY <1>5, <1>6, <1>7, <1>10, <2>1 DEF Inv, ChosenPasswordStays
<1>15. TokenIsUnused' /\ TokensChangeOnce'
  <2>1. changes' = changes /\ resets' = resets
    BY DEF Insert
  <2> QED
    BY <1>2, <1>5, <1>6, <1>7, <2>1 DEF Inv, TokenIsUnused, TokensChangeOnce
<1> QED
  BY <1>8, <1>9, <1>11, <1>12, <1>13, <1>14, <1>15 DEF Inv

\* A row that is written back keeps its place and its e-mail.
LEMMA RowFrame ==
    ASSUME TypeOK, NEW c \in Clients, NEW row, ChecksPassed(c),
           request[c].op \in {"reset", "change"},
           row.email = request[c].email, SaveRow(c, row)
    PROVE  /\ request[c].id \in DOMAIN students
           /\ students[request[c].id].email = request[c].email
           /\ DOMAIN students' = DOMAIN students
           /\ \A i \in DOMAIN students :
                 /\ students'[i].email = students[i].email
                 /\ i # request[c].id => students'[i] = students[i]
           /\ students'[request[c].id] =
                 IF row = request[c].user THEN students[request[c].id] ELSE row
           /\ \A e : RowsOf(e)' = RowsOf(e)
<1>1. students \in Seq(Rows)
  BY DEF TypeOK
<1>2. /\ request[c].id \in DOMAIN students
      /\ students[request[c].id].email = request[c].email
  BY DEF ChecksPassed
<1>3. /\ DOMAIN students' = DOMAIN students
      /\ \A i \in DOMAIN students : i # request[c].id => students'[i] = students[i]
      /\ students'[request[c].id] =
            IF row = request[c].user THEN students[request[c].id] ELSE row
  BY <1>1, <1>2 DEF SaveRow
<1>4. \A i \in DOMAIN students : students'[i].email = students[i].email
  BY <1>2, <1>3
<1>5. \A e : RowsOf(e)' = RowsOf(e)
  BY <1>3, <1>4 DEF RowsOf
<1> QED
  BY <1>2, <1>3, <1>4, <1>5

LEMMA SaveResetStep ==
    ASSUME Inv, NEW c \in Clients, SaveReset(c), TypeOK'
    PROVE  Inv'
<1>0. PICK e0, k, t, row :
         /\ e0 = request[c].email /\ k = request[c].id /\ t = GenerateToken(k)
         /\ row = [request[c].user EXCEPT !.resetToken = t]
  OBVIOUS
<1>1. Reads(c) /\ Saved(c, t) /\ TypeOK /\ SaveRow(c, row)
  BY <1>0 DEF SaveReset, Writing, Reads, Inv
<1>2. /\ \A d \in Clients : Reads(d)' => d # c /\ request'[d] = request[d] /\ Reads(d)
      /\ \A d \in Clients : \A op : Writing(d, op)' =>
            d # c /\ request'[d] = request[d] /\ Writing(d, op)
      /\ \A d \in Clients \ {c} : request'[d] = request[d]
      /\ request'[c].token = t
  BY <1>1, WriteFrame
<1>3. ChecksPassed(c) /\ request[c].op = "reset"
  BY <1>1 DEF Inv, Checked, SaveReset, Writing
<1>4. /\ e0 \in Emails /\ request[c].user \in Rows /\ request[c].user.email = e0
      /\ k \in DOMAIN students
  BY <1>0, <1>3 DEF ChecksPassed
<1>5. t \in Tokens /\ t # None
  BY <1>0, <1>1, <1>4, GeneratedTokens
<1>6. row.email = e0 /\ row.password = request[c].user.password /\ row.resetToken = t
  BY <1>0, <1>4 DEF Rows
<1>7. /\ students[k].email = e0 /\ DOMAIN students' = DOMAIN students
      /\ \A i \in DOMAIN students :
            /\ students'[i].email = students[i].email
            /\ i # k => students'[i] = students[i]
      /\ students'[k] = IF row = request[c].user THEN students[k] ELSE row
      /\ \A e : RowsOf(e)' = RowsOf(e)
  <2>1. row.email = request[c].email
    BY <1>0, <1>6
  <2>2. /\ k \in DOMAIN students /\ students[k].email = e0
        /\ DOMAIN students' = DOMAIN students
        /\ \A i \in DOMAIN students :
              /\ students'[i].email = students[i].email
              /\ i # request[c].id => students'[i] = students[i]
        /\ students'[request[c].id] =
              IF row = request[c].user THEN students[request[c].id] ELSE row
        /\ \A e : RowsOf(e)' = RowsOf(e)
    BY ZenonT(60), <1>0, <1>1, <1>3, <2>1, RowFrame
  <2> QED
    BY <1>0, <2>2
<1>8. \A e, a, b : Never(e, a, b)' = Never(e, a, b)
  BY DEF Never, SaveReset
<1>9. \A i \in DOMAIN students :
         Never(students[i].email, "register", "register")
         /\ Never(students[i].email, "reset", "change")
            => students'[i].password = students[i].password
  <2>1. Never(e0, "register", "register") /\ Never(e0, "reset", "change")
           => request[c].user.password = students[k].password
    BY <1>0, <1>1, <1>3 DEF Inv, StillRead, Writing, Reads
  <2> QED
    BY <1>6, <1>7, <2>1
<1>10. Checked'
  <2>1. \A d \in Clients \ {c} : ChecksPassed(d) => ChecksPassed(d)'
    BY <1>2, <1>7 DEF ChecksPassed
  <2>2. \A d \in Clients \ {c} :
          /\ Reads(d)' => ChecksPassed(d)'
          /\ request'[d].stage = "saved" /\ request'[d].op = "reset"
                => request'[d].token \in Tokens
    BY <1>2, <2>1 DEF Inv, Checked
  <2>3. ~Reads(c)' /\ request'[c].token \in Tokens
    BY <1>2, <1>5
  <2> QED
    BY <2>2, <2>3 DEF Checked
<1>11. PairsMet' /\ StillFree' /\ RegistersOnce'
  BY <1>2, <1>7, <1>8 DEF Inv, PairsMet, StillFree, RegistersOnce
<1>12. \A d \in Clients : Writing(d, "reset") \/ Writing(d, "login") =>
          request[d].id \in DOMAIN students /\ students[request[d].id].email = request[d].email
  BY DEF Inv, Checked, ChecksPassed, Writing, Reads
<1>13. StillRead'
  BY <1>2, <1>8, <1>9, <1>12 DEF Inv, StillRead
<1>14. StillKnown'
  BY <1>2, <1>8, <1>9, <1>12 DEF Inv, StillKnown
<1>15. ChosenPasswordStays'
  <2>1. chosen' = chosen
    BY DEF SaveReset
  <2> QED
    BY <1>7, <1>8, <1>9, <2>1 DEF Inv, ChosenPasswordStays, RowsOf
<1>16. /\ changes' = changes /\ changes[e0] \in Nat /\ resets[e0] \in Nat
       /\ resets'[e0] = resets[e0] + 1
       /\ \A e \in Emails : e # e0 => resets'[e] = resets[e]
  BY <1>0, <1>1, <1>4 DEF SaveReset, TypeOK
<1>17. TokensChangeOnce'
  BY <1>8, <1>16 DEF Inv, TokensChangeOnce
<1>18. TokenIsUnused'
  <2>1. \A e \in Emails : e # e0 => \A i \in RowsOf(e) : students'[i] = students[i]
    BY <1>7 DEF RowsOf
  <2>2. Never(e0, "register", "register") /\ Never(e0, "change", "change")
          => changes'[e0] < resets'[e0]
    BY <1>4, <1>16 DEF Inv, TokensChangeOnce
  <2> QED
    BY <1>2, <1>7, <1>8, <1>16, <2>1, <2>2 DEF Inv, TokenIsUnused
<1> QED
  BY <1>10, <1>11, <1>13, <1>14, <1>15, <1>17, <1>18 DEF Inv

LEMMA SaveChangeStep ==
    ASSUME Inv, NEW c \in Clients, SaveChange(c), TypeOK'
    PROVE  Inv'
<1>0. PICK e0, k, p, row :
         /\ e0 = request[c].email /\ k = request[c].id /\ p = request[c].password
         /\ row = [request[c].user EXCEPT !.password = p, !.resetToken = None]
  OBVIOUS
<1>1. Reads(c) /\ Saved(c, None) /\ TypeOK /\ SaveRow(c, row)
  BY <1>0 DEF SaveChange, Writing, Reads, Inv
<1>2. /\ \A d \in Clients : Reads(d)' => d # c /\ request'[d] = request[d] /\ Reads(d)
      /\ \A d \in Clients : \A op : Writing(d, op)' =>
            d # c /\ request'[d] = request[d] /\ Writing(d, op)
      /\ \A d \in Clients \ {c} : request'[d] = request[d]
      /\ request'[c].op = request[c].op
  BY <1>1, WriteFrame
<1>3. ChecksPassed(c) /\ request[c].op = "change"
  BY <1>1 DEF Inv, Checked, SaveChange, Writing
<1>4. /\ e0 \in Emails /\ request[c].user \in Rows /\ request[c].user.email = e0
      /\ k \in DOMAIN students /\ request[c].user.resetToken # None
  BY <1>0, <1>3 DEF ChecksPassed
<1>5. row.email = e0 /\ row.password = p /\ row.resetToken = None /\ row # request[c].user
  BY <1>0, <1>4 DEF Rows
<1>6. /\ students[k].email = e0 /\ DOMAIN students' = DOMAIN students
      /\ \A i \in DOMAIN students :
            /\ students'[i].email = students[i].email
            /\ i # k => students'[i] = students[i]
      /\ students'[k] = row
      /\ \A e : RowsOf(e)' = RowsOf(e)
  BY ZenonT(60), <1>0, <1>1, <1>3, <1>5, RowFrame
<1>7. \A e, a, b : Never(e, a, b)' = Never(e, a, b)
  BY DEF Never, SaveChange
<1>8. \A d \in Clients \ {c} :
         Reads(d) /\ request[d].email = e0 => ~Never(e0, request[d].op, "change")
  BY <1>0, <1>1, <1>3 DEF Inv, PairsMet
<1>9. \A e \in Emails : e # e0 => \A i \in RowsOf(e) : students'[i] = students[i]
  BY <1>6 DEF RowsOf
<1>10. Never(e0, "register", "register") => RowsOf(e0) = {k}
  BY <1>4, <1>6 DEF Inv, RegistersOnce, RowsOf
<1>11. Checked'
  <2>1. \A d \in Clients \ {c} : ChecksPassed(d) => ChecksPassed(d)'
    BY <1>2, <1>6 DEF ChecksPassed
  <2>2. \A d \in Clients \ {c} :
          /\ Reads(d)' => ChecksPassed(d)'
          /\ request'[d].stage = "saved" /\ request'[d].op = "reset"
                => request'[d].token \in Tokens
    BY <1>2, <2>1 DEF Inv, Checked
  <2>3. ~Reads(c)' /\ request'[c].op # "reset"
    BY <1>2, <1>3
  <2> QED
    BY <2>2, <2>3 DEF Checked
<1>12. PairsMet' /\ StillFree' /\ RegistersOnce'
  BY <1>2, <1>6, <1>7 DEF Inv, PairsMet, StillFree, RegistersOnce
<1>13. \A d \in Clients : Writing(d, "reset") \/ Writing(d, "login") =>
          /\ request[d].id \in DOMAIN students /\ request[d].email \in Emails
          /\ students[request[d].id].email = request[d].email
  BY DEF Inv, Checked, ChecksPassed, Writing, Reads
<1>14. StillRead'
  <2>1. \A d \in Clients : Writing(d, "reset")' /\ Never(request[d].email, "reset", "change")
           => request[d].email # e0
    BY <1>2, <1>8 DEF Writing, Reads
  <2>2. \A d \in Clients : Writing(d, "reset")' /\ Never(request[d].email, "reset", "change")
           => students'[request[d].id] = students[request[d].id]
    BY <1>2, <1>6, <1>13, <2>1
  <2> QED
    BY <1>2, <1>7, <2>2 DEF Inv, StillRead
<1>15. StillKnown'
  <2>1. \A d \in Clients : Writing(d, "login")' /\ Never(request[d].email, "login", "change")
           => request[d].email # e0
    BY <1>2, <1>8 DEF Writing, Reads
  <2>2. \A d \in Clients : Writing(d, "login")' /\ Never(request[d].email, "login", "change")
           => students'[request[d].id] = students[request[d].id]
    BY <1>2, <1>6, <1>13, <2>1
  <2> QED
    BY <1>2, <1>7, <2>2 DEF Inv, StillKnown
<1>16. ChosenPasswordStays'
  <2>1. chosen'[e0] = p /\ \A e \in Emails : e # e0 => chosen'[e] = chosen[e]
    BY <1>0, <1>1, <1>4 DEF SaveChange, TypeOK
  <2> QED
    BY <1>5, <1>6, <1>7, <1>9, <1>10, <2>1 DEF Inv, ChosenPasswordStays
<1>17. /\ resets' = resets /\ changes[e0] \in Nat /\ resets[e0] \in Nat
       /\ changes'[e0] = changes[e0] + 1
       /\ \A e \in Emails : e # e0 => changes'[e] = changes[e]
  BY <1>0, <1>1, <1>4 DEF SaveChange, TypeOK
<1>18. TokensChangeOnce'
  <2>1. Never(e0, "register", "register") /\ Never(e0, "change", "change")
          => changes[e0] < resets[e0]
    BY <1>0, <1>1, <1>3, <1>4 DEF Inv, TokenIsUnused, Writing, Reads
  <2> QED
    BY <1>7, <1>17, <2>1 DEF Inv, TokensChangeOnce
<1>19. TokenIsUnused'
  <2>1. \A d \in Clients : Writing(d, "change")' /\ request[d].email = e0
           => ~Never(e0, "change", "change")
    BY <1>2, <1>8 DEF Writing, Reads
  <2>2. Never(e0, "register", "register")
          => \A i \in RowsOf(e0) : students'[i].resetToken = None
    BY <1>5, <1>6, <1>10
  <2> QED
    BY <1>2, <1>6, <1>7, <1>9, <1>17, <2>1, <2>2 DEF Inv, TokenIsUnused
<1> QED
  BY <1>11, <1>12, <1>14, <1>15, <1>16, <1>18, <1>19 DEF Inv

-----------------------------------------------------------------------------
(* Every step keeps the types.                                             *)

LEMMA RequestTypes ==
    ASSUME TypeOK, NEW c \in Clients, NEW t \in Tokens \cup {None}, Saved(c, t)
    PROVE  request' \in [Clients -> Requests]
<1>1. [request[c] EXCEPT !.stage = "saved", !.token = t] \in Requests
  BY ZenonT(60) DEF TypeOK, Requests
<1>2. request' = [request EXCEPT ![c] = [request[c] EXCEPT !.stage = "saved", !.token = t]]
  BY DEF Saved, TypeOK, Requests
<1> QED
  BY <1>1, <1>2 DEF TypeOK

LEMMA RowTypes ==
    ASSUME TypeOK, NEW c \in Clients, NEW row \in Rows, SaveRow(c, row),
           request[c].id \in DOMAIN students
    PROVE  students' \in Seq(Rows)
BY DEF TypeOK, SaveRow

LEMMA WriteTypes ==
    ASSUME TypeOK, Checked, NEW c \in Clients, Write(c)
    PROVE  TypeOK'
<1>1. Reads(c) /\ ChecksPassed(c)
  BY DEF Write, Insert, SaveLogin, DeleteLogin, SaveReset, SaveChange, Writing, Checked, Reads
<1>2. request[c].op \in {"login", "reset"} => GenerateToken(request[c].id) \in Tokens
  BY <1>1, GeneratedTokens DEF ChecksPassed
<1>3. CASE Insert(c)
  <2>1. [email |-> request[c].email, password |-> request[c].password,
         resetToken |-> None] \in Rows
    BY <1>1, <1>3 DEF ChecksPassed, Insert, Writing, Rows
  <2>2. students' \in Seq(Rows)
    BY <2>1, <1>3 DEF Insert, TypeOK
  <2>3. request' \in [Clients -> Requests]
    BY <1>3, RequestTypes DEF Insert
  <2>4. chosen' \in [Emails -> Passwords \cup {None}]
    BY <1>1, <1>3 DEF ChecksPassed, Insert, Writing, TypeOK
  <2> QED
    BY <1>3, <2>2, <2>3, <2>4 DEF Insert, TypeOK
<1>4. CASE SaveLogin(c)
  <2>1. request' \in [Clients -> Requests]
    BY <1>2, <1>4, RequestTypes DEF SaveLogin, Writing
  <2> QED
    BY <1>2, <1>4, <2>1 DEF SaveLogin, Writing, TypeOK, history
<1>5. CASE DeleteLogin(c)
  <2>1. request' \in [Clients -> Requests]
    BY <1>5, RequestTypes DEF DeleteLogin
  <2> QED
    BY <1>5, <2>1 DEF DeleteLogin, TypeOK, history
<1>6. CASE SaveReset(c)
  <2> DEFINE t == GenerateToken(request[c].id)
             row == [request[c].user EXCEPT !.resetToken = t]
  <2>1. t \in Tokens
    BY <1>2, <1>6 DEF SaveReset, Writing
  <2>2. row \in Rows /\ request[c].id \in DOMAIN students
    <3>1. request[c].user \in Rows /\ request[c].id \in DOMAIN students
      BY <1>1, <1>6 DEF ChecksPassed, SaveReset, Writing
    <3> QED
      BY <2>1, <3>1 DEF Rows
  <2>3. students' \in Seq(Rows)
    <3>1. SaveRow(c, row)
      BY <1>6 DEF SaveReset
    <3> HIDE DEF row
    <3> QED
      BY <2>2, <3>1, RowTypes
  <2>4. request' \in [Clients -> Requests]
    BY <1>6, <2>1, RequestTypes DEF SaveReset
  <2>5. resets' \in [Emails -> Nat]
    BY <1>1, <1>6 DEF ChecksPassed, SaveReset, TypeOK
  <2> QED
    BY <1>6, <2>3, <2>4, <2>5 DEF SaveReset, TypeOK
<1>7. CASE SaveChange(c)
  <2> DEFINE row == [request[c].user EXCEPT !.password = request[c].password,
                                            !.resetToken = None]
  <2>1. /\ request[c].user \in Rows /\ request[c].id \in DOMAIN students
        /\ request[c].password \in Passwords
    BY <1>1, <1>7 DEF ChecksPassed, SaveChange, Writing
  <2>2. row \in Rows
    BY <2>1 DEF Rows
  <2>3. students' \in Seq(Rows)
    <3>1. SaveRow(c, row)
      BY <1>7 DEF SaveChange
    <3> HIDE DEF row
    <3> QED
      BY <2>1, <2>2, <3>1, RowTypes
  <2>4. request' \in [Clients -> Requests]
    BY <1>7, RequestTypes DEF SaveChange
  <2>5. changes' \in [Emails -> Nat]
    BY <1>1, <1>7 DEF ChecksPassed, SaveChange, TypeOK
  <2>6. chosen' \in [Emails -> Passwords \cup {None}]
    BY <1>7, <2>1 DEF SaveChange, TypeOK
  <2> QED
    BY <1>7, <2>3, <2>4, <2>5, <2>6 DEF SaveChange, TypeOK
<1> QED
  BY <1>3, <1>4, <1>5, <1>6, <1>7 DEF Write

LEMMA OpenTypes ==
    ASSUME TypeOK, Checked, NEW c \in Clients, NEW r, Opens(c, r)
    PROVE  TypeOK'
<1>1. request' \in [Clients -> Requests]
  BY DEF TypeOK, Opens, Begin
<1>2. \A d \in Clients : request[d].stage = "read" => request[d].op \in Ops
  BY DEF Checked, ChecksPassed, Reads
<1>3. sent' \in 0 .. MaxRequests
  BY ConstantsAssumption DEF TypeOK, Opens, Begin
<1>4. met' \subseteq Emails \X SUBSET Ops
  <2>1. Together(r.email, r.op) \subseteq Emails \X SUBSET Ops
    <3>1. ASSUME NEW d \in Clients, request[d].stage = "read"
          PROVE  <<r.email, {r.op, request[d].op}>> \in Emails \X SUBSET Ops
      <4>1. {r.op, request[d].op} \in SUBSET Ops
        BY <1>2, <3>1 DEF Opens
      <4> QED
        BY <4>1 DEF Opens
    <3> QED
      BY <3>1 DEF Together
  <2> QED
    BY <2>1 DEF TypeOK, Opens, Begin
<1>5. UNCHANGED <<students, authenticated, cookie, mailbox, clock, chosen, resets, changes>>
  BY DEF Opens, Begin, tables
<1> QED
  BY <1>1, <1>3, <1>4, <1>5 DEF TypeOK

\* Finish, Lose, ForgetCookie and Tick.
Rests == (\E c \in Clients : Finish(c) \/ Lose(c) \/ ForgetCookie(c)) \/ Tick

LEMMA RestStep ==
    ASSUME Inv, Rests
    PROVE  Inv'
<1>0. TypeOK /\ Idle \in Requests /\ Idle.stage = "idle"
  BY DEF Inv, Idle, Requests
<1>1. ASSUME NEW c \in Clients, Finish(c)
      PROVE  Inv'
  <2>1. request[c] \in Requests /\ request[c].stage = "saved"
    BY <1>0, <1>1 DEF TypeOK, Finish
  <2>2. request[c].op = "reset" => request[c].token \in Tokens
    BY <2>1 DEF Inv, Checked
  <2>3. mailbox' \subseteq Tokens
    BY <1>0, <1>1, <2>2 DEF TypeOK, Finish
  <2>4. cookie' \in [Clients -> Tokens \cup {None}]
    BY <1>0, <1>1, <2>1 DEF TypeOK, Finish, Requests
  <2>5. TypeOK'
    BY <1>0, <1>1, <2>3, <2>4 DEF TypeOK, Finish, tables, history
  <2> QED
    BY <1>0, <1>1, <2>5, QuietStep DEF Finish, tables, TypeOK
<1>2. ASSUME NEW c \in Clients, Lose(c)
      PROVE  Inv'
  <2>1. TypeOK'
    BY <1>0, <1>2 DEF TypeOK, Lose, tables, history
  <2> QED
    BY <1>0, <1>2, <2>1, QuietStep DEF Lose, tables, TypeOK
<1>3. ASSUME NEW c \in Clients, ForgetCookie(c)
      PROVE  Inv'
  <2>1. TypeOK'
    BY <1>0, <1>3 DEF TypeOK, ForgetCookie, tables, history
  <2> QED
    BY <1>3, <2>1, QuietStep DEF ForgetCookie, tables
<1>4. ASSUME Tick
      PROVE  Inv'
  <2>1. TypeOK'
    BY <1>0, <1>4, ConstantsAssumption DEF TypeOK, Tick, tables, history
  <2> QED
    BY <1>4, <2>1, QuietStep DEF Tick, tables
<1> QED
  BY <1>1, <1>2, <1>3, <1>4 DEF Rests

LEMMA LoginTableStep ==
    ASSUME Inv, NEW c \in Clients, SaveLogin(c) \/ DeleteLogin(c), TypeOK'
    PROVE  Inv'
<1>1. PICK t : Saved(c, t) /\ Reads(c) /\ request[c].op # "reset"
  BY DEF SaveLogin, DeleteLogin, Writing, Reads
<1>2. UNCHANGED <<students, history>>
  BY DEF SaveLogin, DeleteLogin
<1>3. \A d \in Clients : request'[d] = request[d]
         \/ (Reads(d) /\ request'[d].stage = "saved"
             /\ request'[d].op = request[d].op /\ request[d].op # "reset")
  BY <1>1, WriteFrame DEF Inv
<1> QED
  BY <1>2, <1>3, QuietStep

LEMMA NextStep ==
    ASSUME Inv, [Next]_vars
    PROVE  Inv'
<1>0. TypeOK /\ Checked
  BY DEF Inv
<1>1. ASSUME NEW c \in Clients, Check(c)
      PROVE  Inv'
  <2>1. PICK r : Opens(c, r)
    BY <1>0, <1>1, ChecksOpen
  <2>2. TypeOK'
    BY <1>0, <2>1, OpenTypes
  <2> QED
    BY <2>1, <2>2, OpenStep
<1>2. ASSUME NEW c \in Clients, Write(c)
      PROVE  Inv'
  <2>1. TypeOK'
    BY <1>0, <1>2, WriteTypes
  <2> QED
    BY <1>2, <2>1, InsertStep, LoginTableStep, SaveResetStep, SaveChangeStep DEF Write
<1>3. CASE UNCHANGED vars
  <2>1. TypeOK'
    BY <1>0, <1>3 DEF TypeOK, vars, tables, history
  <2> QED
    BY <1>3, <2>1, QuietStep DEF vars, tables
<1> QED
  BY <1>1, <1>2, <1>3, RestStep DEF Next, Rests

-----------------------------------------------------------------------------
(* The theorems.                                                           *)

\* The inductive invariant: what of its read a handler may still rely on.
THEOREM Invariance == Spec => []Inv
<1>1. Inv /\ [Next]_vars => Inv'
  BY NextStep
<1> QED
  BY InitInv, <1>1, PTL DEF Spec

\* Every variable keeps its type.
THEOREM TypeCorrectness == Spec => []TypeOK
<1>1. Inv => TypeOK
  BY DEF Inv
<1> QED
  BY Invariance, <1>1, PTL

\* An e-mail is never registered twice unless two registrations of it ran
\* together (register, between findByEmail and save).
THEOREM OneStudentPerEmail == Spec => []RegistersOnce
<1>1. Inv => RegistersOnce
  BY DEF Inv
<1> QED
  BY Invariance, <1>1, PTL

\* Only a reset that runs together with a change can undo it (resetPassword and
\* changePassword save the whole row that they have read).
THEOREM PasswordsStay == Spec => []ChosenPasswordStays
<1>1. Inv => ChosenPasswordStays
  BY DEF Inv
<1> QED
  BY Invariance, <1>1, PTL

\* A reset token is good for one change of the password, unless two changes ran
\* together (changePassword clears it in the same save).
THEOREM TokensAreSpent == Spec => []TokensChangeOnce
<1>1. Inv => TokensChangeOnce
  BY DEF Inv
<1> QED
  BY Invariance, <1>1, PTL

\* What login compared is still so when it records the login.
THEOREM LoginsAreEarned == Spec => LoginsKnowThePassword
<1> DEFINE Earned(c) ==
      LET e == request[c].email IN
          /\ Writing(c, "login") /\ request'[c].stage = "saved"
          /\ Never(e, "register", "register")
          /\ Never(e, "login", "change") /\ Never(e, "reset", "change")
          => students'[request[c].id].password = request[c].password
<1>1. ASSUME Inv, [Next]_vars
      PROVE  [\A c \in Clients : Earned(c)]_vars
  <2> SUFFICES ASSUME Next, NEW c \in Clients, Writing(c, "login"), request'[c].stage = "saved",
                      Never(request[c].email, "register", "register"),
                      Never(request[c].email, "login", "change"),
                      Never(request[c].email, "reset", "change")
               PROVE  students'[request[c].id].password = request[c].password
    BY <1>1
  <2>1. students[request[c].id].password = request[c].password
    BY <1>1 DEF Inv, StillKnown
  <2>2. students' = students
    <3>0. TypeOK /\ request[c].stage = "read" /\ request[c].op = "login"
      BY <1>1 DEF Inv, Writing
    <3>1. ASSUME NEW d \in Clients, Check(d)
          PROVE  students' = students
      <4>1. PICK r : Opens(d, r)
        BY <3>0, <3>1, ChecksOpen
      <4> QED
        BY <4>1 DEF Opens, Begin, tables
    <3>2. ASSUME NEW d \in Clients, Write(d), d # c
          PROVE  FALSE
      <4>1. PICK t : Saved(d, t)
        BY <3>2 DEF Write, Insert, SaveLogin, DeleteLogin, SaveReset, SaveChange
      <4>2. request'[c] = request[c]
        BY <3>0, <3>2, <4>1 DEF Saved, TypeOK
      <4> QED
        BY <3>0, <4>2
    <3>3. ASSUME Write(c)
          PROVE  students' = students
      BY <3>0, <3>3 DEF Write, Insert, SaveLogin, DeleteLogin, SaveReset, SaveChange, Writing
    <3>4. ASSUME Rests
          PROVE  students' = students
      BY <3>4 DEF Rests, Finish, Lose, ForgetCookie, Tick, tables
    <3> QED
      BY <3>1, <3>2, <3>3, <3>4 DEF Next, Rests
  <2> QED
    BY <2>1, <2>2
<1> QED
  BY Invariance, <1>1, PTL DEF Spec, LoginsKnowThePassword
=============================================================================

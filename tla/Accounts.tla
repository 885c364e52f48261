------------------------------ MODULE Accounts ------------------------------
(***************************************************************************)
(* The accounts of the students (T23-G1, Controller.java): registration,   *)
(* login, logout and the two steps of a forgotten password, over the       *)
(* tables Students and authenticated_users.                                *)
(*                                                                         *)
(* A handler reads a row with findByEmail, works on its own copy of it and *)
(* saves the copy; no transaction spans the two and no column but the keys *)
(* is unique.  A request is therefore three steps: the checks up to the    *)
(* read, the write, and the answer with the mail that precedes it.  A      *)
(* request that a check refuses changes nothing and is no step here.       *)
(*                                                                         *)
(* An e-mail stands for the addresses the database takes for equal.  A     *)
(* student has no other data than what the handlers compare.               *)
(***************************************************************************)
EXTENDS Integers, Sequences

CONSTANTS
    Emails, Passwords,
    Clients,        \* browsers: each keeps one cookie and awaits its answer
    None,           \* a null column, no cookie, no token
    Lifetime,       \* of a token, in ticks of the clock (an hour)
    MaxTime,        \* bound on the clock
    MaxRequests     \* bound on the requests that pass their checks

ASSUME ConstantsAssumption ==
    /\ Lifetime \in Nat \ {0} /\ MaxTime \in Nat /\ MaxRequests \in Nat
    /\ None \notin Emails \cup Passwords \cup [email : Emails, id : Nat \ {0}, issued : Nat]

VARIABLES
    students,       \* table Students: the row of each ID
    authenticated,  \* table authenticated_users, keyed by its token
    request,        \* what each client's request holds
    cookie,         \* the jwt cookie of each client
    mailbox,        \* the reset tokens that were mailed
    clock,
    sent,           \* requests so far
    met,            \* history: which requests for an e-mail ran together
    chosen,         \* history: the password last saved for an e-mail
    resets, changes \* history: resets and changes saved for an e-mail

tables == <<students, authenticated>>
history == <<met, chosen, resets, changes>>
vars == <<tables, request, cookie, mailbox, clock, sent, history>>

Ops == {"register", "login", "logout", "reset", "change"}
Tokens == [email : Emails, id : Nat \ {0}, issued : Nat]
Rows == [email : Emails, password : Passwords, resetToken : Tokens \cup {None}]
NoRow == [email |-> None, password |-> None, resetToken |-> None]
Requests == [stage : {"idle", "read", "saved"}, op : Ops \cup {None},
             email : Emails \cup {None}, password : Passwords \cup {None},
             id : Nat, user : Rows \cup {NoRow}, token : Tokens \cup {None}]
Idle == [stage |-> "idle", op |-> None, email |-> None, password |-> None,
         id |-> 0, user |-> NoRow, token |-> None]

IsJwtValid(t) == t # None /\ clock < t.issued + Lifetime

\* Everything in the token is known to the second, so that two tokens of one
\* student in one tick are equal.
GenerateToken(id) ==
    [email |-> students[id].email, id |-> id, issued |-> clock]

\* findByEmail expects at most one row: with two it throws, and the request
\* ends with an error.
RowsOf(e) == {i \in DOMAIN students : students[i].email = e}
FindByEmail(e, i) == RowsOf(e) = {i}

Together(e, op) ==
    {<<e, {op, request[d].op}>> :
        d \in {d \in Clients : request[d].stage = "read" /\ request[d].email = e}}

\* The request of c holds r once its checks are passed.
Begin(c, r) ==
    /\ request[c] = Idle /\ sent < MaxRequests
    /\ request' = [request EXCEPT ![c] = r]
    /\ met' = met \cup Together(r.email, r.op)
    /\ sent' = sent + 1
    /\ UNCHANGED <<tables, cookie, mailbox, clock, chosen, resets, changes>>

-----------------------------------------------------------------------------
(* The checks of each handler, up to its read. *)

\* Mutated form of Register: the lookup of the e-mail is left out.
Register_NoLookup(c) ==
    /\ ~IsJwtValid(cookie[c])
    /\ \E e \in Emails, p \in Passwords :
          Begin(c, [Idle EXCEPT !.stage = "read", !.op = "register",
                                !.email = e, !.password = p])

Register(c) ==
    /\ ~IsJwtValid(cookie[c])
    /\ \E e \in Emails, p \in Passwords :
          /\ RowsOf(e) = {}
          /\ Begin(c, [Idle EXCEPT !.stage = "read", !.op = "register",
                                   !.email = e, !.password = p])

\* Mutated form of Login: the password is not compared.
Login_AnyPassword(c) ==
    /\ ~IsJwtValid(cookie[c])
    /\ \E e \in Emails, p \in Passwords, i \in DOMAIN students :
          /\ FindByEmail(e, i)
          /\ Begin(c, [Idle EXCEPT !.stage = "read", !.op = "login", !.email = e,
                           !.password = p, !.id = i, !.user = students[i]])

Login(c) ==
    /\ ~IsJwtValid(cookie[c])
    /\ \E e \in Emails, p \in Passwords, i \in DOMAIN students :
          /\ FindByEmail(e, i)
          /\ students[i].password = p
          /\ Begin(c, [Idle EXCEPT !.stage = "read", !.op = "login", !.email = e,
                           !.password = p, !.id = i, !.user = students[i]])

\* POST /logout.  (GET /logout only forgets the cookie.)
Logout(c) ==
    /\ cookie[c] \in authenticated
    /\ Begin(c, [Idle EXCEPT !.stage = "read", !.op = "logout",
                     !.email = cookie[c].email, !.token = cookie[c]])

ResetPassword(c) ==
    /\ ~IsJwtValid(cookie[c])
    /\ \E e \in Emails, i \in DOMAIN students :
          /\ FindByEmail(e, i)
          /\ Begin(c, [Idle EXCEPT !.stage = "read", !.op = "reset", !.email = e,
                                   !.id = i, !.user = students[i]])

ChangePassword(c) ==
    /\ ~IsJwtValid(cookie[c])
    /\ \E e \in Emails, p \in Passwords, t \in mailbox, i \in DOMAIN students :
          /\ FindByEmail(e, i)
          /\ students[i].resetToken = t
          /\ Begin(c, [Idle EXCEPT !.stage = "read", !.op = "change", !.email = e,
                           !.password = p, !.id = i, !.user = students[i]])

-----------------------------------------------------------------------------
(* The writes. *)

Writing(c, op) == request[c].stage = "read" /\ request[c].op = op

Saved(c, t) == request' = [request EXCEPT ![c].stage = "saved", ![c].token = t]

\* userRepository.save of a row that was read before: every column is written,
\* and none when the copy is as it was read.
SaveRow(c, row) ==
    students' = IF row = request[c].user THEN students
                ELSE [students EXCEPT ![request[c].id] = row]

Insert(c) ==
    /\ Writing(c, "register")
    /\ students' = Append(students, [email |-> request[c].email,
                                     password |-> request[c].password,
                                     resetToken |-> None])
    /\ chosen' = [chosen EXCEPT ![request[c].email] = request[c].password]
    /\ Saved(c, None)
    /\ UNCHANGED <<authenticated, cookie, mailbox, clock, sent, met, resets, changes>>

\* The new row of authenticated_users; one with the same token is the same row.
SaveLogin(c) ==
    /\ Writing(c, "login")
    /\ authenticated' = authenticated \cup {GenerateToken(request[c].id)}
    /\ Saved(c, GenerateToken(request[c].id))
    /\ UNCHANGED <<students, cookie, mailbox, clock, sent, history>>

DeleteLogin(c) ==
    /\ Writing(c, "logout")
    /\ authenticated' = authenticated \ {request[c].token}
    /\ Saved(c, None)
    /\ UNCHANGED <<students, cookie, mailbox, clock, sent, history>>

SaveReset(c) ==
    LET t == GenerateToken(request[c].id) IN
    /\ Writing(c, "reset")
    /\ SaveRow(c, [request[c].user EXCEPT !.resetToken = t])
    /\ resets' = [resets EXCEPT ![request[c].email] = @ + 1]
    /\ Saved(c, t)
    /\ UNCHANGED <<authenticated, cookie, mailbox, clock, sent, met, chosen, changes>>

\* Mutated form of SaveChange: the new password is not set.
SaveChange_SameRow(c) ==
    /\ Writing(c, "change")
    /\ SaveRow(c, [request[c].user EXCEPT !.resetToken = None])
    /\ chosen' = [chosen EXCEPT ![request[c].email] = request[c].password]
    /\ changes' = [changes EXCEPT ![request[c].email] = @ + 1]
    /\ Saved(c, None)
    /\ UNCHANGED <<authenticated, cookie, mailbox, clock, sent, met, resets>>

\* Mutated form of SaveChange: the token is not cleared.
SaveChange_KeepsToken(c) ==
    /\ Writing(c, "change")
    /\ SaveRow(c, [request[c].user EXCEPT !.password = request[c].password])
    /\ chosen' = [chosen EXCEPT ![request[c].email] = request[c].password]
    /\ changes' = [changes EXCEPT ![request[c].email] = @ + 1]
    /\ Saved(c, None)
    /\ UNCHANGED <<authenticated, cookie, mailbox, clock, sent, met, resets>>

SaveChange(c) ==
    /\ Writing(c, "change")
    /\ SaveRow(c, [request[c].user EXCEPT !.password = request[c].password,
                                          !.resetToken = None])
    /\ chosen' = [chosen EXCEPT ![request[c].email] = request[c].password]
    /\ changes' = [changes EXCEPT ![request[c].email] = @ + 1]
    /\ Saved(c, None)
    /\ UNCHANGED <<authenticated, cookie, mailbox, clock, sent, met, resets>>

-----------------------------------------------------------------------------
(* The mail and the answer. *)

Finish(c) ==
    /\ request[c].stage = "saved"
    /\ mailbox' = IF request[c].op = "reset" THEN mailbox \cup {request[c].token}
                  ELSE mailbox
    /\ cookie' = IF request[c].op \in {"login", "logout"}
                 THEN [cookie EXCEPT ![c] = request[c].token] ELSE cookie
    /\ request' = [request EXCEPT ![c] = Idle]
    /\ UNCHANGED <<tables, clock, sent, history>>

\* A query or a mail that fails, a restart of the service, a lost answer: what
\* was written stays.
Lose(c) ==
    /\ request[c] # Idle
    /\ request' = [request EXCEPT ![c] = Idle]
    /\ UNCHANGED <<tables, cookie, mailbox, clock, sent, history>>

ForgetCookie(c) ==
    /\ request[c] = Idle /\ cookie[c] # None
    /\ cookie' = [cookie EXCEPT ![c] = None]
    /\ UNCHANGED <<tables, request, mailbox, clock, sent, history>>

Tick ==
    /\ clock < MaxTime
    /\ clock' = clock + 1
    /\ UNCHANGED <<tables, request, cookie, mailbox, sent, history>>

Init ==
    /\ students = <<>> /\ authenticated = {} /\ mailbox = {}
    /\ request = [c \in Clients |-> Idle]
    /\ cookie = [c \in Clients |-> None]
    /\ clock = 0 /\ sent = 0
    /\ met = {}
    /\ chosen = [e \in Emails |-> None]
    /\ resets = [e \in Emails |-> 0]
    /\ changes = [e \in Emails |-> 0]

Check(c) ==
    Register(c) \/ Login(c) \/ Logout(c) \/ ResetPassword(c) \/ ChangePassword(c)

Write(c) ==
    Insert(c) \/ SaveLogin(c) \/ DeleteLogin(c) \/ SaveReset(c) \/ SaveChange(c)

Next ==
    \/ \E c \in Clients : Check(c) \/ Write(c) \/ Finish(c) \/ Lose(c) \/ ForgetCookie(c)
    \/ Tick

Spec == Init /\ [][Next]_vars

-----------------------------------------------------------------------------
(* Properties *)

\* Every variable has its type.
TypeOK ==
    /\ students \in Seq(Rows)
    /\ authenticated \subseteq Tokens /\ mailbox \subseteq Tokens
    /\ request \in [Clients -> Requests]
    /\ cookie \in [Clients -> Tokens \cup {None}]
    /\ clock \in 0 .. MaxTime /\ sent \in 0 .. MaxRequests
    /\ met \subseteq Emails \X SUBSET Ops
    /\ chosen \in [Emails -> Passwords \cup {None}]
    /\ resets \in [Emails -> Nat] /\ changes \in [Emails -> Nat]

\* No request of kind a ran, between its read and its write, together with one
\* of kind b for e.
Never(e, a, b) == <<e, {a, b}>> \notin met

\* An e-mail registers once, unless two registrations of it ran together: only
\* the read before the insert keeps the table free of a second row.
RegistersOnce ==
    \A e \in Emails : Never(e, "register", "register") =>
        \A i, j \in RowsOf(e) : i = j

\* The password that was last saved for an e-mail is the one that logs in, unless
\* a reset ran together with a change, in whatever order all other requests
\* interleave: a reset writes back the whole row that it has read.
ChosenPasswordStays ==
    \A e \in Emails :
        Never(e, "register", "register") /\ Never(e, "reset", "change") =>
            \A i \in RowsOf(e) : students[i].password = chosen[e]

\* A reset token changes the password once, unless two changes ran together:
\* there are never more changes than resets.
TokensChangeOnce ==
    \A e \in Emails :
        Never(e, "register", "register") /\ Never(e, "change", "change") =>
            changes[e] <= resets[e]

\* A login is recorded only with the password of that moment, unless the
\* password was being changed, or a change undone, while the login ran.
LoginsKnowThePassword ==
    [][ \A c \in Clients :
          LET e == request[c].email IN
          /\ Writing(c, "login") /\ request'[c].stage = "saved"
          /\ Never(e, "register", "register")
          /\ Never(e, "login", "change") /\ Never(e, "reset", "change")
          => students'[request[c].id].password = request[c].password ]_vars
=============================================================================

--------------------------- MODULE ClientLimiter ----------------------------
(***************************************************************************)
(* The rate limiter of T4 (limiter/limiter.go).  A map holds one limiter   *)
(* per client address; a goroutine removes the entries not seen for some   *)
(* time.  A request looks its limiter up under the mutex of the map and    *)
(* asks it for a token after the mutex is released, so that requests of    *)
(* one client and the cleanup interleave.                                  *)
(*                                                                         *)
(* A limiter is that of golang.org/x/time/rate: it stores the tokens left  *)
(* by the last admitted request and fills them when it is asked again.     *)
(* One unit of time is one tick of the model.                              *)
(***************************************************************************)
EXTENDS Integers, Sequences

CONSTANTS
    Ips, Burst, Rate, MaxTime,
    Workers,    \* goroutines that serve requests
    Timeout,    \* an entry older than this is removed
    MaxStall    \* the time a goroutine may spend between the two locks

ASSUME LimiterAssumption ==
    /\ Burst \in Nat \ {0} /\ Rate \in Nat \ {0} /\ MaxTime \in Nat
    /\ Timeout \in Nat /\ MaxStall \in Nat

\* The configuration of T4 (burst 4, 2 tokens a second, 3 minutes): a bucket has
\* time to fill between the last token taken from it and its removal.
ASSUME TimeoutAssumption ==
    /\ MaxStall <= Timeout
    /\ Rate * (Timeout + 1 - MaxStall) >= Burst

VARIABLES
    now,       \* the clock
    clients,   \* address -> index of its limiter, 0 when not in the map
    lastSeen,  \* address -> time of its last lookup
    limiters,  \* the limiters made so far: [tokens, last]
    pending,   \* what each goroutine holds: [ip, limiter, since]
    admitted, outcome

vars == <<now, clients, lastSeen, limiters, pending, admitted, outcome>>

Idle(w) == pending[w].limiter = 0
NoRequest(ip) == [ip |-> ip, limiter |-> 0, since |-> 0]

AtMost(bound, n) == IF n < bound THEN n ELSE bound

\* rate.Limiter.advance
Level(limiter) == AtMost(Burst, limiter.tokens + Rate * (now - limiter.last))

-----------------------------------------------------------------------------
\* getOrAdd: a new limiter is full.
GetOrAdd(ip) ==
    /\ lastSeen' = [lastSeen EXCEPT ![ip] = now]
    /\ IF clients[ip] # 0
       THEN UNCHANGED <<clients, limiters>>
       ELSE /\ limiters' = Append(limiters, [tokens |-> Burst, last |-> now])
            /\ clients' = [clients EXCEPT ![ip] = Len(limiters) + 1]

\* A request arrives and looks its limiter up.
Lookup(w, ip) ==
    /\ Idle(w)
    /\ GetOrAdd(ip)
    /\ pending' = [pending EXCEPT ![w] =
                      [ip |-> ip, limiter |-> clients'[ip], since |-> now]]
    /\ UNCHANGED <<now, admitted, outcome>>

\* Mutated form of Allow: the tokens are written back without the time.
Allow_KeepsTime(w) ==
    LET request == pending[w]
        limiter == limiters[request.limiter]
    IN  /\ ~Idle(w)
        /\ pending' = [pending EXCEPT ![w] = NoRequest(request.ip)]
        /\ \/ /\ Level(limiter) > 0
              /\ limiters' = [limiters EXCEPT ![request.limiter].tokens = Level(limiter) - 1]
              /\ admitted' = [admitted EXCEPT ![request.ip] = @ + 1]
              /\ outcome' = [ip |-> request.ip, allowed |-> TRUE]
           \/ /\ Level(limiter) = 0
              /\ outcome' = [ip |-> request.ip, allowed |-> FALSE]
              /\ UNCHANGED <<limiters, admitted>>
        /\ UNCHANGED <<now, clients, lastSeen>>

\* limiter.Allow: a token is taken, or the request is answered with 429 and the
\* limiter left as it was.
Allow(w) ==
    LET request == pending[w]
        limiter == limiters[request.limiter]
    IN  /\ ~Idle(w)
        /\ pending' = [pending EXCEPT ![w] = NoRequest(request.ip)]
        /\ \/ /\ Level(limiter) > 0
              /\ limiters' = [limiters EXCEPT ![request.limiter] =
                                 [tokens |-> Level(limiter) - 1, last |-> now]]
              /\ admitted' = [admitted EXCEPT ![request.ip] = @ + 1]
              /\ outcome' = [ip |-> request.ip, allowed |-> TRUE]
           \/ /\ Level(limiter) = 0
              /\ outcome' = [ip |-> request.ip, allowed |-> FALSE]
              /\ UNCHANGED <<limiters, admitted>>
        /\ UNCHANGED <<now, clients, lastSeen>>

\* Mutated form of Cleanup: off by one in the age of an entry.
Cleanup_Early ==
    /\ clients' = [ip \in Ips |->
                      IF now - lastSeen[ip] >= Timeout THEN 0 ELSE clients[ip]]
    /\ UNCHANGED <<now, lastSeen, limiters, pending, admitted, outcome>>

\* Cleanup, which a goroutine of main.go calls once a minute.
Cleanup ==
    /\ clients' = [ip \in Ips |->
                      IF now - lastSeen[ip] > Timeout THEN 0 ELSE clients[ip]]
    /\ UNCHANGED <<now, lastSeen, limiters, pending, admitted, outcome>>

\* Time passes while no goroutine is held up for longer than MaxStall.
Tick ==
    /\ now < MaxTime
    /\ \A w \in Workers : ~Idle(w) => now - pending[w].since < MaxStall
    /\ now' = now + 1
    /\ UNCHANGED <<clients, lastSeen, limiters, pending, admitted, outcome>>

Init ==
    /\ now = 0
    /\ clients = [ip \in Ips |-> 0]
    /\ lastSeen = [ip \in Ips |-> 0]
    /\ limiters = <<>>
    /\ \E ip \in Ips :
          /\ pending = [w \in Workers |-> NoRequest(ip)]
          /\ outcome = [ip |-> ip, allowed |-> TRUE]
    /\ admitted = [ip \in Ips |-> 0]

Next ==
    \/ \E w \in Workers : Allow(w) \/ \E ip \in Ips : Lookup(w, ip)
    \/ Cleanup
    \/ Tick

Spec == Init /\ [][Next]_vars

-----------------------------------------------------------------------------
(* Properties.                                                             *)

LimiterType == [tokens : 0 .. Burst, last : 0 .. now]

\* Every variable keeps its type, and no limiter was asked in the future.
TypeOK ==
    /\ now \in Nat
    /\ limiters \in Seq(LimiterType)
    /\ clients \in [Ips -> 0 .. Len(limiters)]
    /\ lastSeen \in [Ips -> 0 .. now]
    /\ pending \in [Workers -> [ip : Ips, limiter : 0 .. Len(limiters), since : 0 .. now]]
    /\ admitted \in [Ips -> Nat]
    /\ outcome \in [ip : Ips, allowed : BOOLEAN]

\* A goroutine between the two locks asks the limiter the map holds for its
\* client: the cleanup has not replaced it, although it ran without the mutex.
HoldsCurrentLimiter ==
    \A w \in Workers : ~Idle(w) => pending[w].limiter = clients[pending[w].ip]

\* No client gets more than its burst and its rate allow, whatever the cleanup
\* forgets.
RateIsKept == \A ip \in Ips : admitted[ip] <= Burst + Rate * now

\* The bucket of a client that was forgotten would be full.
BucketLevel ==
    [ip \in Ips |-> IF clients[ip] = 0 THEN Burst ELSE Level(limiters[clients[ip]])]

Bucket == INSTANCE TokenBucket WITH tokens <- BucketLevel

\* The limiter is a bucket per client that is never forgotten: no request is
\* refused while the bucket holds a token, none admitted when it is empty.
NeverForgets == Bucket!BucketSpec
=============================================================================

---------------------------- MODULE TokenBucket -----------------------------
(***************************************************************************)
(* What the rate limiter of T4 promises each of its clients: one bucket of *)
(* Burst tokens that is never forgotten, filled with Rate tokens per unit  *)
(* of time, from which every admitted request takes one.  A request is     *)
(* refused only when the bucket is empty.                                  *)
(***************************************************************************)
EXTENDS Integers

CONSTANTS
    Ips,     \* the clients, told apart by their address
    Burst,   \* capacity of a bucket, a positive number
    Rate,    \* tokens per unit of time, a positive number
    MaxTime  \* bound on the clock, a number

VARIABLES
    now,       \* the clock
    tokens,    \* tokens in the bucket of each client
    admitted,  \* requests of each client that went through
    outcome    \* the last decision [ip, allowed]

bucketVars == <<now, tokens, admitted, outcome>>

AtMost(bound, n) == IF n < bound THEN n ELSE bound

BucketInit ==
    /\ now = 0
    /\ tokens = [ip \in Ips |-> Burst]
    /\ admitted = [ip \in Ips |-> 0]
    /\ outcome \in [ip : Ips, allowed : {TRUE}]

Fill ==
    /\ now < MaxTime
    /\ now' = now + 1
    /\ tokens' = [ip \in Ips |-> AtMost(Burst, tokens[ip] + Rate)]
    /\ UNCHANGED <<admitted, outcome>>

Admit(ip) ==
    /\ tokens[ip] > 0
    /\ tokens' = [tokens EXCEPT ![ip] = @ - 1]
    /\ admitted' = [admitted EXCEPT ![ip] = @ + 1]
    /\ outcome' = [ip |-> ip, allowed |-> TRUE]
    /\ UNCHANGED now

Refuse(ip) ==
    /\ tokens[ip] = 0
    /\ outcome' = [ip |-> ip, allowed |-> FALSE]
    /\ UNCHANGED <<now, tokens, admitted>>

BucketNext == Fill \/ \E ip \in Ips : Admit(ip) \/ Refuse(ip)

BucketSpec == BucketInit /\ [][BucketNext]_bucketVars
=============================================================================

------------------------ MODULE ClientLimiter_proofs ------------------------
(***************************************************************************)
(* The rate limiter keeps the limiter of a request in the map, admits no   *)
(* more than burst and rate allow, and implements a bucket per client that *)
(* is never forgotten, for every number of clients and goroutines, every   *)
(* burst, rate, timeout and stall that meet TimeoutAssumption.             *)
(***************************************************************************)
EXTENDS ClientLimiter, TLAPS

\* Two clients never share a limiter.
LimitersApart ==
    \A i, j \in Ips : clients[i] = clients[j] /\ clients[i] # 0 => i = j

\* A request is younger than MaxStall, and its client was seen since it came.
RequestsAreYoung ==
    \A w \in Workers : ~Idle(w) =>
        /\ now - pending[w].since <= MaxStall
        /\ pending[w].since <= lastSeen[pending[w].ip]

\* The last token was taken soon after the client was last seen.
TakenAfterSeen ==
    \A ip \in Ips : clients[ip] # 0 =>
        limiters[clients[ip]].last <= lastSeen[ip] + MaxStall

\* What a client got and what its bucket holds add up to what it may have.
TokensAddUp ==
    \A ip \in Ips : admitted[ip] + BucketLevel[ip] <= Burst + Rate * now

IInv == /\ TypeOK
        /\ HoldsCurrentLimiter
        /\ LimitersApart
        /\ RequestsAreYoung
        /\ TakenAfterSeen
        /\ TokensAddUp

-----------------------------------------------------------------------------
(* Arithmetic.                                                             *)

\* Multiplication by the rate: one more unit of time adds one rate, and a longer
\* time does not fill less.
LEMMA RateStep == \A n \in Int : Rate * (n + 1) = Rate * n + Rate
BY LimiterAssumption, SMT

LEMMA RateMonotone ==
    ASSUME NEW m \in Nat, NEW n \in Nat, m <= n
    PROVE  Rate * m \in Nat /\ Rate * n \in Nat /\ Rate * m <= Rate * n
<1>1. PICK d \in Nat : n = m + d
  BY SMT
<1>2. Rate * n = Rate * m + Rate * d
  BY <1>1, LimiterAssumption, SMT
<1>3. Rate * m \in Nat /\ Rate * d \in Nat
  BY LimiterAssumption, SMT
<1> QED  BY <1>2, <1>3, SMT

\* The level of a limiter lies between nothing and the burst.
LEMMA LevelRange ==
    ASSUME TypeOK, NEW limiter \in LimiterType
    PROVE  Level(limiter) \in 0 .. Burst
<1>1. now - limiter.last \in Nat /\ limiter.tokens \in 0 .. Burst
  BY DEF TypeOK, LimiterType
<1>2. Rate * (now - limiter.last) \in Nat
  BY <1>1, RateMonotone
<1> QED  BY <1>1, <1>2, LimiterAssumption DEF Level, AtMost

-----------------------------------------------------------------------------
(* What each action does to the buckets.                                   *)

\* A limiter the map holds is one of those made.
LEMMA HeldLimiter ==
    ASSUME TypeOK, NEW ip \in Ips, clients[ip] # 0
    PROVE  clients[ip] \in DOMAIN limiters /\ limiters[clients[ip]] \in LimiterType
BY DEF TypeOK

\* The bucket of every client holds between nothing and the burst.
LEMMA BucketRange == TypeOK => BucketLevel \in [Ips -> 0 .. Burst]
BY HeldLimiter, LevelRange, LimiterAssumption DEF BucketLevel

\* Looking a limiter up fills no bucket and empties none: a new one is full, as
\* was the bucket of a client that is not in the map.
LEMMA LookupLevels ==
    ASSUME TypeOK, NEW w \in Workers, NEW ip \in Ips, Lookup(w, ip)
    PROVE  BucketLevel' = BucketLevel
<1>1. CASE clients[ip] # 0
  BY <1>1 DEF Lookup, GetOrAdd, BucketLevel, Level, AtMost
<1>2. CASE clients[ip] = 0
  <2>1. /\ limiters' = Append(limiters, [tokens |-> Burst, last |-> now])
        /\ clients' = [clients EXCEPT ![ip] = Len(limiters) + 1]
        /\ now' = now
    BY <1>2 DEF Lookup, GetOrAdd
  <2>2. \A j \in Ips : clients[j] # 0 => limiters'[clients[j]] = limiters[clients[j]]
    <3>1. limiters \in Seq(LimiterType)
      BY DEF TypeOK
    <3>2. [tokens |-> Burst, last |-> now] \in LimiterType
      BY LimiterAssumption DEF LimiterType, TypeOK
    <3>3. \A j \in Ips : clients[j] # 0 => clients[j] \in 1 .. Len(limiters)
      BY HeldLimiter
    <3> HIDE DEF LimiterType
    <3> QED
      BY <2>1, <3>1, <3>2, <3>3
  <2>3. limiters'[Len(limiters) + 1] = [tokens |-> Burst, last |-> now]
    BY <2>1 DEF TypeOK
  <2>4. Rate * (now - now) = 0
    BY LimiterAssumption DEF TypeOK
  <2>5. AtMost(Burst, Burst + Rate * (now - now)) = Burst
    BY <2>4, LimiterAssumption DEF AtMost
  <2>6. clients'[ip] # 0 /\ BucketLevel'[ip] = Burst /\ BucketLevel[ip] = Burst
    BY SMTT(30), <1>2, <2>1, <2>3, <2>5 DEF BucketLevel, Level, TypeOK
  <2>7. ASSUME NEW j \in Ips, j # ip
        PROVE  BucketLevel'[j] = BucketLevel[j]
    BY <2>1, <2>2, <2>7 DEF BucketLevel, Level, TypeOK
  <2> QED  BY <2>6, <2>7 DEF BucketLevel
<1> QED  BY <1>1, <1>2

\* A limiter that is not asked for longer than Timeout is full.
LEMMA ForgottenIsFull ==
    ASSUME TypeOK, TakenAfterSeen, NEW ip \in Ips,
           clients[ip] # 0, now - lastSeen[ip] > Timeout
    PROVE  Level(limiters[clients[ip]]) = Burst
<1> DEFINE limiter == limiters[clients[ip]]
<1>1. limiter \in LimiterType
  BY HeldLimiter
<1>2. /\ limiter.last \in 0 .. now /\ limiter.tokens \in 0 .. Burst
      /\ lastSeen[ip] \in 0 .. now /\ now \in Nat
  BY <1>1 DEF TypeOK, LimiterType
<1>3. limiter.last <= lastSeen[ip] + MaxStall
  BY DEF TakenAfterSeen
<1>4. /\ Timeout + 1 - MaxStall \in Nat /\ now - limiter.last \in Nat
      /\ Timeout + 1 - MaxStall <= now - limiter.last
  BY <1>2, <1>3, LimiterAssumption, TimeoutAssumption
<1>5. Rate * (Timeout + 1 - MaxStall) <= Rate * (now - limiter.last)
      /\ Rate * (now - limiter.last) \in Nat
  BY <1>4, RateMonotone
<1>6. Rate * (Timeout + 1 - MaxStall) >= Burst
      /\ Rate * (Timeout + 1 - MaxStall) \in Nat
  BY <1>4, RateMonotone, TimeoutAssumption
<1>7. limiter.tokens + Rate * (now - limiter.last) >= Burst
  BY <1>2, <1>5, <1>6, LimiterAssumption
<1> HIDE DEF limiter
<1>8. Level(limiter) = Burst
  BY <1>2, <1>5, <1>7, LimiterAssumption DEF Level, AtMost
<1> QED  BY <1>8 DEF limiter

LEMMA CleanupLevels ==
    ASSUME TypeOK, TakenAfterSeen, Cleanup
    PROVE  BucketLevel' = BucketLevel
<1>1. ASSUME NEW ip \in Ips
      PROVE  BucketLevel'[ip] = BucketLevel[ip]
  <2>1. limiters' = limiters /\ now' = now
    BY DEF Cleanup
  <2>2. CASE clients'[ip] = clients[ip]
    BY <2>1, <2>2 DEF BucketLevel, Level
  <2>3. CASE clients'[ip] # clients[ip]
    <3>1. clients'[ip] = 0 /\ clients[ip] # 0 /\ now - lastSeen[ip] > Timeout
      BY <2>3 DEF Cleanup
    <3> QED  BY <3>1, ForgottenIsFull DEF BucketLevel
  <2> QED  BY <2>2, <2>3
<1> QED  BY <1>1 DEF BucketLevel

\* One tick adds the rate to every bucket that is not full.
LEMMA TickLevels ==
    ASSUME TypeOK, Tick
    PROVE  BucketLevel' = [ip \in Ips |-> AtMost(Burst, BucketLevel[ip] + Rate)]
<1>1. ASSUME NEW ip \in Ips
      PROVE  BucketLevel'[ip] = AtMost(Burst, BucketLevel[ip] + Rate)
  <2>1. limiters' = limiters /\ clients' = clients /\ now' = now + 1 /\ now \in Nat
    BY DEF Tick, TypeOK
  <2>2. CASE clients[ip] = 0
    BY <2>1, <2>2, LimiterAssumption DEF BucketLevel, AtMost
  <2>3. CASE clients[ip] # 0
    <3> DEFINE limiter == limiters[clients[ip]]
               filled == limiter.tokens + Rate * (now - limiter.last)
    <3>1. limiter.last \in 0 .. now /\ limiter.tokens \in 0 .. Burst
      BY <2>3, HeldLimiter DEF LimiterType
    <3>2. now - limiter.last \in Nat /\ (now + 1) - limiter.last = (now - limiter.last) + 1
      BY <2>1, <3>1
    <3>3. Rate * (now - limiter.last) \in Nat
          /\ Rate * ((now + 1) - limiter.last) = Rate * (now - limiter.last) + Rate
      BY <3>2, RateStep, RateMonotone
    <3>4. filled \in Nat
          /\ limiter.tokens + Rate * ((now + 1) - limiter.last) = filled + Rate
      BY <3>1, <3>3, LimiterAssumption
    <3>5. BucketLevel'[ip] = AtMost(Burst, filled + Rate)
      BY <2>1, <2>3, <3>4 DEF BucketLevel, Level
    <3>6. BucketLevel[ip] = AtMost(Burst, filled)
      BY <2>3 DEF BucketLevel, Level
    <3> HIDE DEF filled
    <3> QED  BY <3>4, <3>5, <3>6, LimiterAssumption DEF AtMost
  <2> QED  BY <2>2, <2>3
<1> QED  BY <1>1 DEF BucketLevel

\* An admitted request takes one token from the bucket of its client, a refused
\* one found it empty.
LEMMA AllowLevels ==
    ASSUME TypeOK, HoldsCurrentLimiter, LimitersApart, NEW w \in Workers, Allow(w)
    PROVE  LET ip == pending[w].ip
           IN  \/ /\ BucketLevel[ip] > 0
                  /\ BucketLevel' = [BucketLevel EXCEPT ![ip] = @ - 1]
                  /\ admitted' = [admitted EXCEPT ![ip] = @ + 1]
                  /\ outcome' = [ip |-> ip, allowed |-> TRUE]
               \/ /\ BucketLevel[ip] = 0
                  /\ BucketLevel' = BucketLevel
                  /\ admitted' = admitted
                  /\ outcome' = [ip |-> ip, allowed |-> FALSE]
<1> DEFINE ip == pending[w].ip
           limiter == limiters[clients[ip]]
<1>1. /\ ip \in Ips /\ clients[ip] # 0 /\ pending[w].limiter = clients[ip]
      /\ clients' = clients /\ now' = now /\ now \in Nat
  BY DEF Allow, HoldsCurrentLimiter, TypeOK, Idle
<1>2. clients[ip] \in DOMAIN limiters /\ limiter \in LimiterType
  BY <1>1, HeldLimiter
<1>3. BucketLevel[ip] = Level(limiter) /\ Level(limiter) \in 0 .. Burst
  BY <1>1, <1>2, LevelRange DEF BucketLevel
<1>4. CASE Level(limiter) = 0 /\ UNCHANGED <<limiters, admitted>>
                /\ outcome' = [ip |-> ip, allowed |-> FALSE]
  <2>1. BucketLevel' = BucketLevel
    BY <1>1, <1>4 DEF BucketLevel, Level
  <2> QED  BY <2>1, <1>3, <1>4
<1>5. CASE /\ Level(limiter) > 0
           /\ limiters' = [limiters EXCEPT ![clients[ip]] =
                               [tokens |-> Level(limiter) - 1, last |-> now]]
           /\ admitted' = [admitted EXCEPT ![ip] = @ + 1]
           /\ outcome' = [ip |-> ip, allowed |-> TRUE]
  <2>1. limiters'[clients[ip]] = [tokens |-> Level(limiter) - 1, last |-> now]
    BY <1>2, <1>5 DEF TypeOK
  <2>2. Rate * (now - now) = 0
    BY <1>1, LimiterAssumption
  <2>3. BucketLevel'[ip] = AtMost(Burst, (Level(limiter) - 1) + Rate * (now - now))
    BY <1>1, <2>1 DEF BucketLevel, Level
  <2>4. BucketLevel'[ip] = BucketLevel[ip] - 1
    BY <1>3, <1>5, <2>2, <2>3, LimiterAssumption DEF AtMost
  <2>5. ASSUME NEW j \in Ips, j # ip
        PROVE  BucketLevel'[j] = BucketLevel[j]
    <3>1. clients[j] # 0 => clients[j] # clients[ip]
      BY <1>1, <2>5 DEF LimitersApart
    <3>2. clients[j] # 0 => limiters'[clients[j]] = limiters[clients[j]]
      BY <1>5, <3>1, HeldLimiter DEF TypeOK
    <3> QED  BY <1>1, <3>2 DEF BucketLevel, Level
  <2>6. BucketLevel' = [BucketLevel EXCEPT ![ip] = @ - 1]
    BY <2>4, <2>5, <1>1 DEF BucketLevel
  <2> QED  BY <2>6, <1>3, <1>5
<1> QED  BY <1>1, <1>4, <1>5 DEF Allow

-----------------------------------------------------------------------------
(* The invariant.                                                          *)

LEMMA InitInv == Init => IInv
<1> SUFFICES ASSUME Init PROVE IInv
  OBVIOUS
<1>1. TypeOK
  BY LimiterAssumption DEF Init, TypeOK, NoRequest, LimiterType
<1>2. BucketLevel = [ip \in Ips |-> Burst]
  BY DEF Init, BucketLevel
<1>3. TokensAddUp
  <2>1. Rate * 0 = 0
    BY LimiterAssumption
  <2>2. ASSUME NEW ip \in Ips
        PROVE  admitted[ip] = 0 /\ BucketLevel[ip] = Burst
    BY <1>2 DEF Init
  <2>3. 0 + Burst <= Burst + Rate * 0
    BY <2>1, LimiterAssumption
  <2>4. now = 0
    BY DEF Init
  <2> QED  BY <2>2, <2>3, <2>4 DEF TokensAddUp
<1> QED
  BY <1>1, <1>3 DEF Init, IInv, HoldsCurrentLimiter, LimitersApart,
     RequestsAreYoung, TakenAfterSeen, Idle, NoRequest

\* Time passes within the stall of every pending request.
LEMMA TickInv == IInv /\ Tick => IInv'
<1> SUFFICES ASSUME IInv, Tick PROVE IInv'
  OBVIOUS
<1>1. TypeOK' 
  <2>1. LimiterType \subseteq LimiterType'
    BY DEF IInv, TypeOK, Tick, LimiterType
  <2>2. limiters' \in Seq(LimiterType')
    BY <2>1 DEF IInv, TypeOK, Tick
  <2> QED  BY <2>2 DEF IInv, TypeOK, Tick
<1>2. HoldsCurrentLimiter' /\ LimitersApart' /\ TakenAfterSeen'
  BY DEF IInv, Tick, HoldsCurrentLimiter, LimitersApart, TakenAfterSeen, Idle
<1>3. RequestsAreYoung'
  <2>1. ASSUME NEW w \in Workers, pending[w].limiter # 0
        PROVE  /\ now' - pending[w].since <= MaxStall
               /\ pending[w].since <= lastSeen[pending[w].ip]
    <3>1. /\ pending[w].since \in 0 .. now /\ now \in Nat /\ now' = now + 1
          /\ now - pending[w].since < MaxStall
          /\ pending[w].since <= lastSeen[pending[w].ip]
      BY <2>1 DEF IInv, TypeOK, Tick, RequestsAreYoung, Idle
    <3> QED  BY <3>1, LimiterAssumption
  <2> QED  BY <2>1 DEF Tick, RequestsAreYoung, Idle
<1>4. TokensAddUp'
  <2>1. ASSUME NEW ip \in Ips
        PROVE  admitted[ip] + BucketLevel'[ip] <= Burst + Rate * (now + 1)
    <3>1. /\ BucketLevel[ip] \in 0 .. Burst /\ admitted[ip] \in Nat /\ now \in Nat
          /\ admitted[ip] + BucketLevel[ip] <= Burst + Rate * now
      BY BucketRange DEF IInv, TypeOK, TokensAddUp
    <3>2. BucketLevel'[ip] = AtMost(Burst, BucketLevel[ip] + Rate)
      BY TickLevels DEF IInv
    <3>3. BucketLevel'[ip] <= BucketLevel[ip] + Rate /\ BucketLevel'[ip] \in Nat
      BY <3>1, <3>2, LimiterAssumption DEF AtMost
    <3>4. Rate * (now + 1) = Rate * now + Rate /\ Rate * now \in Nat
      BY <3>1, RateStep, RateMonotone
    <3> QED  BY <3>1, <3>3, <3>4, LimiterAssumption
  <2> QED  BY <2>1 DEF Tick, TokensAddUp
<1> QED  BY <1>1, <1>2, <1>3, <1>4 DEF IInv

\* A lookup refreshes the entry of the client or makes a new limiter for it.
LEMMA LookupInv ==
    ASSUME IInv, NEW w \in Workers, NEW ip \in Ips, Lookup(w, ip)
    PROVE  IInv'
<1> USE DEF Lookup, GetOrAdd
<1>1. Len(limiters) \in Nat /\ now \in Nat /\ clients \in [Ips -> 0 .. Len(limiters)]
  BY SMTT(30) DEF IInv, TypeOK
<1>2. /\ clients' \in [Ips -> 0 .. Len(limiters')] /\ clients'[ip] # 0
      /\ limiters' \in Seq(LimiterType) /\ Len(limiters) <= Len(limiters')
  <2>1. CASE clients[ip] # 0
    BY <2>1 DEF IInv, TypeOK
  <2>2. CASE clients[ip] = 0
    <3>1. [tokens |-> Burst, last |-> now] \in LimiterType
      BY <1>1, LimiterAssumption DEF LimiterType
    <3>2. limiters \in Seq(LimiterType)
      BY DEF IInv, TypeOK
    <3>3. limiters' = Append(limiters, [tokens |-> Burst, last |-> now])
      BY <2>2
    <3>4. limiters' \in Seq(LimiterType) /\ Len(limiters') = Len(limiters) + 1
      BY <3>1, <3>2, <3>3
    <3>5. clients' = [clients EXCEPT ![ip] = Len(limiters) + 1]
      BY <2>2
    <3>6. clients' \in [Ips -> 0 .. (Len(limiters) + 1)] /\ clients'[ip] # 0
      BY <1>1, <3>5
    <3> QED  BY <1>1, <3>4, <3>6
  <2> QED  BY <2>1, <2>2
<1>3. pending' \in [Workers -> [ip : Ips, limiter : 0 .. Len(limiters'), since : 0 .. now]]
  <2>1. [ip |-> ip, limiter |-> clients'[ip], since |-> now]
            \in [ip : Ips, limiter : 0 .. Len(limiters'), since : 0 .. now]
    BY <1>1, <1>2
  <2>2. Len(limiters') \in Nat
    BY <1>2
  <2>3. \A v \in Workers : pending[v] \in [ip : Ips, limiter : 0 .. Len(limiters'), since : 0 .. now]
    BY SMTT(30), <1>1, <1>2, <2>2 DEF IInv, TypeOK
  <2> QED  BY <2>1, <2>3 DEF IInv, TypeOK
<1>4. TypeOK'
  BY <1>1, <1>2, <1>3 DEF IInv, TypeOK, LimiterType
<1>5. HoldsCurrentLimiter'
  <2> SUFFICES ASSUME NEW v \in Workers, pending'[v].limiter # 0
               PROVE  pending'[v].limiter = clients'[pending'[v].ip]
    BY DEF HoldsCurrentLimiter, Idle
  <2>1. CASE v = w
    BY <2>1 DEF IInv, TypeOK
  <2>2. CASE v # w
    <3>1. /\ pending'[v] = pending[v] /\ pending[v].ip \in Ips
          /\ pending[v].limiter = clients[pending[v].ip]
          /\ clients[pending[v].ip] # 0
      BY <2>2 DEF IInv, TypeOK, HoldsCurrentLimiter, Idle
    <3> QED  BY <3>1, <1>1
  <2> QED  BY <2>1, <2>2
<1>6. LimitersApart'
  <2>1. CASE clients[ip] # 0
    BY <2>1 DEF IInv, LimitersApart
  <2>2. CASE clients[ip] = 0
    BY <1>1, <2>2 DEF IInv, LimitersApart
  <2> QED  BY <2>1, <2>2
<1>7. RequestsAreYoung'
  <2> SUFFICES ASSUME NEW v \in Workers, pending'[v].limiter # 0
               PROVE  /\ now - pending'[v].since <= MaxStall
                      /\ pending'[v].since <= lastSeen'[pending'[v].ip]
    BY DEF RequestsAreYoung, Idle
  <2>1. CASE v = w
    <3>1. pending'[v].since = now /\ pending'[v].ip = ip
      BY <2>1 DEF IInv, TypeOK
    <3>2. lastSeen'[ip] = now
      BY DEF IInv, TypeOK
    <3> QED  BY <1>1, <3>1, <3>2, LimiterAssumption
  <2>2. CASE v # w
    <3>1. /\ pending'[v] = pending[v] /\ pending[v].ip \in Ips
          /\ now - pending[v].since <= MaxStall
          /\ pending[v].since <= lastSeen[pending[v].ip]
          /\ pending[v].since \in 0 .. now
      BY <2>2 DEF IInv, TypeOK, RequestsAreYoung, Idle
    <3>2. lastSeen'[pending[v].ip] \in {now, lastSeen[pending[v].ip]}
      BY <3>1 DEF IInv, TypeOK
    <3> QED  BY <1>1, <3>1, <3>2
  <2> QED  BY <2>1, <2>2
<1>8. TakenAfterSeen'
  <2> SUFFICES ASSUME NEW j \in Ips, clients'[j] # 0
               PROVE  limiters'[clients'[j]].last <= lastSeen'[j] + MaxStall
    BY DEF TakenAfterSeen
  <2>1. CASE clients[j] # 0
    <3>1. clients'[j] = clients[j] /\ limiters'[clients[j]] = limiters[clients[j]]
      <4>1. clients[j] \in 1 .. Len(limiters) /\ limiters \in Seq(LimiterType)
        BY SMTT(30), <1>1, <2>1 DEF IInv, TypeOK
      <4>2. CASE clients[ip] # 0
        BY <4>2
      <4>3. CASE clients[ip] = 0
        <5>1. j # ip
          BY <2>1, <4>3
        <5> QED  BY <1>1, <4>1, <4>3, <5>1
      <4> QED  BY <4>2, <4>3
    <3>2. limiters[clients[j]].last <= lastSeen[j] + MaxStall
          /\ limiters[clients[j]].last \in 0 .. now
      BY <2>1, HeldLimiter DEF IInv, TakenAfterSeen, LimiterType
    <3>3. lastSeen'[j] \in 0 .. now /\ (lastSeen'[j] = lastSeen[j] \/ lastSeen'[j] = now)
      BY <1>1 DEF IInv, TypeOK
    <3> QED  BY <3>1, <3>2, <3>3, <1>1, LimiterAssumption
  <2>2. CASE clients[j] = 0
    <3>1. j = ip /\ limiters' = Append(limiters, [tokens |-> Burst, last |-> now])
          /\ clients'[j] = Len(limiters) + 1 /\ lastSeen'[j] = now
      BY <1>1, <2>2 DEF IInv, TypeOK
    <3>2. limiters'[Len(limiters) + 1].last = now
      BY <3>1 DEF IInv, TypeOK
    <3> QED  BY <3>1, <3>2, <1>1, LimiterAssumption
  <2> QED  BY <2>1, <2>2
<1>9. TokensAddUp'
  BY LookupLevels DEF IInv, TokensAddUp
<1> QED  BY <1>4, <1>5, <1>6, <1>7, <1>8, <1>9 DEF IInv

\* The request takes its token from the limiter the map still holds.
LEMMA AllowInv ==
    ASSUME IInv, NEW w \in Workers, Allow(w)
    PROVE  IInv'
<1> DEFINE ip == pending[w].ip
<1>1. /\ ip \in Ips /\ clients[ip] # 0 /\ pending[w].limiter = clients[ip]
      /\ clients' = clients /\ lastSeen' = lastSeen /\ now' = now /\ now \in Nat
      /\ pending' = [pending EXCEPT ![w] = NoRequest(ip)]
  BY DEF IInv, Allow, HoldsCurrentLimiter, TypeOK, Idle
<1>2. clients[ip] \in 1 .. Len(limiters) /\ limiters[clients[ip]] \in LimiterType
      /\ limiters \in Seq(LimiterType) /\ Len(limiters) \in Nat
  <2>1. TypeOK /\ limiters \in Seq(LimiterType)
    BY DEF IInv, TypeOK
  <2>2. clients[ip] \in DOMAIN limiters /\ limiters[clients[ip]] \in LimiterType
    BY <1>1, <2>1, HeldLimiter
  <2> HIDE DEF LimiterType
  <2> QED
    BY <2>1, <2>2
<1>3. Level(limiters[clients[ip]]) \in 0 .. Burst
  BY <1>2, LevelRange DEF IInv
<1>4. \/ UNCHANGED <<limiters, admitted>>
      \/ /\ limiters' = [limiters EXCEPT ![clients[ip]] =
                             [tokens |-> Level(limiters[clients[ip]]) - 1, last |-> now]]
         /\ admitted' = [admitted EXCEPT ![ip] = @ + 1]
         /\ Level(limiters[clients[ip]]) > 0
  BY <1>1 DEF Allow
<1>5. limiters' \in Seq(LimiterType) /\ Len(limiters') = Len(limiters)
  <2>1. CASE Level(limiters[clients[ip]]) > 0
    <3>1. [tokens |-> Level(limiters[clients[ip]]) - 1, last |-> now] \in LimiterType
      BY <1>1, <1>3, <2>1, LimiterAssumption DEF LimiterType
    <3> QED  BY <1>2, <1>4, <3>1
  <2>2. CASE ~(Level(limiters[clients[ip]]) > 0)
    BY <1>2, <1>4, <2>2
  <2> QED  BY <2>1, <2>2
<1>6. pending' \in [Workers -> [ip : Ips, limiter : 0 .. Len(limiters), since : 0 .. now]]
  <2>1. NoRequest(ip) \in [ip : Ips, limiter : 0 .. Len(limiters), since : 0 .. now]
    BY <1>1, <1>2 DEF NoRequest
  <2> QED  BY <1>1, <2>1 DEF IInv, TypeOK
<1>7. outcome' \in [ip : Ips, allowed : BOOLEAN]
  <2>1. \/ outcome' = [ip |-> ip, allowed |-> TRUE]
        \/ outcome' = [ip |-> ip, allowed |-> FALSE]
    BY DEF Allow
  <2>2. ip \in Ips
    BY <1>1
  <2> HIDE DEF ip
  <2>3. CASE outcome' = [ip |-> ip, allowed |-> TRUE]
    BY <2>2, <2>3
  <2>4. CASE outcome' = [ip |-> ip, allowed |-> FALSE]
    BY <2>2, <2>4
  <2> QED  BY <2>1, <2>3, <2>4
<1>8. TypeOK'
  <2>1. admitted' \in [Ips -> Nat]
    BY SMTT(30), <1>1, <1>4 DEF IInv, TypeOK
  <2>2. LimiterType' = LimiterType
    BY <1>1 DEF LimiterType
  <2> QED  BY <1>1, <1>5, <1>6, <1>7, <2>1, <2>2 DEF IInv, TypeOK
<1>9. HoldsCurrentLimiter' /\ LimitersApart' /\ RequestsAreYoung'
  BY <1>1 DEF IInv, TypeOK, HoldsCurrentLimiter, LimitersApart, RequestsAreYoung,
     Idle, NoRequest
<1>10. TakenAfterSeen'
  <2> SUFFICES ASSUME NEW j \in Ips, clients[j] # 0
               PROVE  limiters'[clients[j]].last <= lastSeen[j] + MaxStall
    BY <1>1 DEF TakenAfterSeen
  <2>1. clients[j] \in 1 .. Len(limiters)
        /\ limiters[clients[j]].last <= lastSeen[j] + MaxStall
    BY SMTT(30), <1>2 DEF IInv, TypeOK, TakenAfterSeen
  <2>2. CASE limiters'[clients[j]] = limiters[clients[j]]
    BY <2>1, <2>2
  <2>3. CASE limiters'[clients[j]] # limiters[clients[j]]
    <3>1. clients[j] = clients[ip]
      BY <1>2, <1>4, <2>1, <2>3
    <3>2. j = ip
      BY <1>1, <3>1 DEF IInv, LimitersApart
    <3>3. limiters'[clients[j]].last = now
      BY <1>2, <1>4, <2>3, <3>1
    <3>4. /\ now - pending[w].since <= MaxStall /\ pending[w].since <= lastSeen[ip]
          /\ pending[w].since \in 0 .. now /\ lastSeen[ip] \in 0 .. now
      BY <1>1 DEF IInv, TypeOK, RequestsAreYoung, Idle
    <3> QED  BY <1>1, <3>2, <3>3, <3>4, LimiterAssumption
  <2> QED  BY <2>2, <2>3
<1>11. TokensAddUp'
  <2>1. ASSUME NEW j \in Ips
        PROVE  admitted'[j] + BucketLevel'[j] = admitted[j] + BucketLevel[j]
    <3>1. /\ admitted \in [Ips -> Nat] /\ BucketLevel \in [Ips -> 0 .. Burst]
      BY BucketRange DEF IInv, TypeOK
    <3>2. \/ BucketLevel' = BucketLevel /\ admitted' = admitted
          \/ /\ BucketLevel' = [BucketLevel EXCEPT ![ip] = @ - 1]
             /\ admitted' = [admitted EXCEPT ![ip] = @ + 1]
      BY AllowLevels DEF IInv
    <3> HIDE DEF ip
    <3> QED  BY <3>1, <3>2, LimiterAssumption
  <2> QED  BY <1>1, <2>1 DEF IInv, TokensAddUp
<1> QED  BY <1>8, <1>9, <1>10, <1>11 DEF IInv

\* The cleanup removes no entry a goroutine is about to use.
LEMMA CleanupInv == IInv /\ Cleanup => IInv'
<1> SUFFICES ASSUME IInv, Cleanup PROVE IInv'
  OBVIOUS
<1>1. TypeOK'
  BY DEF IInv, Cleanup, TypeOK, LimiterType
<1>2. HoldsCurrentLimiter'
  <2> SUFFICES ASSUME NEW w \in Workers, pending[w].limiter # 0
               PROVE  pending[w].limiter = clients'[pending[w].ip]
    BY DEF Cleanup, HoldsCurrentLimiter, Idle
  <2>1. /\ pending[w].ip \in Ips /\ pending[w].limiter = clients[pending[w].ip]
        /\ now - pending[w].since <= MaxStall
        /\ pending[w].since <= lastSeen[pending[w].ip]
        /\ pending[w].since \in 0 .. now /\ lastSeen[pending[w].ip] \in 0 .. now
        /\ now \in Nat
    BY DEF IInv, TypeOK, HoldsCurrentLimiter, RequestsAreYoung, Idle
  <2>2. ~(now - lastSeen[pending[w].ip] > Timeout)
    BY <2>1, LimiterAssumption, TimeoutAssumption
  <2> QED  BY <2>1, <2>2 DEF Cleanup
<1>3. LimitersApart' /\ TakenAfterSeen'
  BY DEF IInv, Cleanup, LimitersApart, TakenAfterSeen
<1>4. RequestsAreYoung'
  BY DEF IInv, Cleanup, RequestsAreYoung, Idle
<1>5. TokensAddUp'
  BY CleanupLevels DEF IInv, Cleanup, TokensAddUp
<1> QED  BY <1>1, <1>2, <1>3, <1>4, <1>5 DEF IInv

\* Every reachable state satisfies the invariant.
THEOREM Invariance == Spec => []IInv
<1>1. ASSUME IInv, [Next]_vars
      PROVE  IInv'
  <2>1. CASE Tick
    BY <1>1, <2>1, TickInv
  <2>2. CASE Cleanup
    BY <1>1, <2>2, CleanupInv
  <2>3. ASSUME NEW w \in Workers, NEW ip \in Ips, Lookup(w, ip)
        PROVE  IInv'
    BY <1>1, <2>3, LookupInv
  <2>4. ASSUME NEW w \in Workers, Allow(w)
        PROVE  IInv'
    BY <1>1, <2>4, AllowInv
  <2>5. CASE UNCHANGED vars
    BY <1>1, <2>5 DEF vars, IInv, TypeOK, HoldsCurrentLimiter, LimitersApart,
       RequestsAreYoung, TakenAfterSeen, TokensAddUp, BucketLevel, Level, Idle,
       LimiterType
  <2> QED  BY <1>1, <2>1, <2>2, <2>3, <2>4, <2>5 DEF Next
<1> QED  BY InitInv, <1>1, PTL DEF Spec

\* Type correctness of the limiter.
THEOREM TypeCorrectness == Spec => []TypeOK
BY Invariance, PTL DEF IInv

\* Between the two locks the cleanup never replaces the limiter of a request.
THEOREM LimiterIsCurrent == Spec => []HoldsCurrentLimiter
BY Invariance, PTL DEF IInv

\* Burst and rate bound what every client gets, over any time.
THEOREM RateBound == Spec => []RateIsKept
<1>1. IInv => RateIsKept
  <2> SUFFICES ASSUME IInv, NEW ip \in Ips
               PROVE  admitted[ip] <= Burst + Rate * now
    BY DEF RateIsKept
  <2>1. BucketLevel[ip] \in 0 .. Burst /\ admitted[ip] \in Nat /\ now \in Nat
    BY BucketRange DEF IInv, TypeOK
  <2>2. Rate * now \in Nat
    BY <2>1, RateMonotone
  <2>3. admitted[ip] + BucketLevel[ip] <= Burst + Rate * now
    BY DEF IInv, TokensAddUp
  <2> QED  BY <2>1, <2>2, <2>3, LimiterAssumption
<1> QED  BY <1>1, Invariance, PTL

\* The limiter implements a bucket per client that is never forgotten.
THEOREM ImplementsTokenBucket == Spec => NeverForgets
<1>1. Init => Bucket!BucketInit
  BY DEF Init, Bucket!BucketInit, BucketLevel
<1>2. ASSUME IInv, [Next]_vars
      PROVE  [Bucket!BucketNext]_<<now, BucketLevel, admitted, outcome>>
  <2>1. CASE Tick
    <3>1. BucketLevel' = [ip \in Ips |-> AtMost(Burst, BucketLevel[ip] + Rate)]
      BY <1>2, <2>1, TickLevels DEF IInv
    <3>2. Bucket!Fill
      BY <2>1, <3>1 DEF Tick, Bucket!Fill, Bucket!AtMost, AtMost
    <3> QED  BY <3>2 DEF Bucket!BucketNext
  <2>2. CASE Cleanup
    BY <1>2, <2>2, CleanupLevels DEF IInv, Cleanup
  <2>3. ASSUME NEW w \in Workers, NEW ip \in Ips, Lookup(w, ip)
        PROVE  UNCHANGED <<now, BucketLevel, admitted, outcome>>
    BY <1>2, <2>3, LookupLevels DEF IInv, Lookup
  <2>4. ASSUME NEW w \in Workers, Allow(w)
        PROVE  \E ip \in Ips : Bucket!Admit(ip) \/ Bucket!Refuse(ip)
    <3>1. pending[w].ip \in Ips /\ now' = now
      BY <1>2, <2>4 DEF IInv, TypeOK, Allow
    <3>2. Bucket!Admit(pending[w].ip) \/ Bucket!Refuse(pending[w].ip)
      BY <1>2, <2>4, <3>1, AllowLevels DEF IInv, Bucket!Admit, Bucket!Refuse
    <3> QED  BY <3>1, <3>2
  <2>5. CASE UNCHANGED vars
    BY <2>5 DEF vars, BucketLevel, Level
  <2> QED  BY <1>2, <2>1, <2>2, <2>3, <2>4, <2>5 DEF Next, Bucket!BucketNext
<1> QED  BY <1>1, <1>2, Invariance, PTL DEF Spec, NeverForgets, Bucket!BucketSpec, Bucket!bucketVars
=============================================================================

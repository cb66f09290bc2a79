-------------------------- MODULE DiscoveryProofs --------------------------
(***************************************************************************)
(* Proofs about Discovery, for any number of servers and getters, any      *)
(* timeouts and any bounds.                                                *)
(*                                                                         *)
(* Two chains of "no older than" hold the proof together.  In the          *)
(* registry, a server that beats has beaten within one period, and the     *)
(* registry knows of that beat unless it was started later.  From there on *)
(* to a getter: an answer is as old as its beats plus RegTimeout, the list *)
(* as old as the answer plus its way, a choice as old as the list plus     *)
(* DiscTimeout; no answer is mistaken for another, since grd.mu allows one *)
(* exchange at a time.  Round robin is a window on the list, which ends    *)
(* where index is.                                                         *)
(***************************************************************************)
EXTENDS Discovery, Integers, Functions, FiniteSetTheorems, FunctionTheorems, TLAPS

Sizes == Len(servers) <= N /\ Len(answer) <= N /\ now >= 1

\* grd.mu is held across an exchange by the getter whose exchange it is.
Holder == \A g \in Getters : gpc[g] \in {"http", "answered"} <=> dmu = g

Registered ==
    /\ \A s \in Servers : hb[s] = "beating" =>
          /\ now <= beat[s] + Period
          /\ regUp /\ (regSince = 0 \/ beat[s] > regSince) =>
                s \in DOMAIN start /\ start[s] = beat[s]
    /\ \A s \in DOMAIN start : start[s] <= beat[s]

AnswerRecent ==
    \A g \in Getters : gpc[g] = "answered" =>
        /\ now <= answeredAt + MaxDelay
        /\ RegTimeout > 0 => \A i \in DOMAIN answer :
              answer[i] # None => answeredAt <= beat[answer[i]] + RegTimeout

ListRecent ==
    RegTimeout > 0 /\ ~byHand => \A i \in DOMAIN servers :
        servers[i] # None => lastUpdate <= beat[servers[i]] + RegTimeout + MaxDelay

AskedRecent ==
    \A g \in Getters : gpc[g] = "choose" => asked[g] < lastUpdate + DiscTimeout

\* The inductive invariant.
IInv ==
    /\ TypeOK /\ Sizes /\ Holder
    /\ Registered /\ AnswerRecent /\ ListRecent /\ AskedRecent

\* Where the choice was that is followed by d others, the next one being at i,
\* on a list of n servers.
Spot(i, d, n) == IF i > d THEN i - d ELSE i - d + n

\* The list has no server twice, and the turns are the latest choices from it.
Rotation ==
    /\ IsInjective(servers) /\ IsInjective(answer)
    /\ Len(turns) <= Len(servers) /\ (turns # <<>> => index < Len(servers))
    /\ \A k \in 1 .. Len(turns) :
          turns[k] = servers[Spot(index, Len(turns) - k, Len(servers))]

-----------------------------------------------------------------------------
(* Numbers. *)

\* Division with remainder, ...
LEMMA Division ==
    ASSUME NEW x \in Nat, NEW n \in Nat \ {0}
    PROVE  /\ x % n \in 0 .. n - 1 /\ x \div n \in Nat
           /\ x = n * (x \div n) + (x % n)
OBVIOUS

\* ... of which there is one.
LEMMA Remainder ==
    ASSUME NEW x \in Nat, NEW n \in Nat \ {0}, NEW q \in Nat, NEW r \in 0 .. n - 1,
           x = n * q + r
    PROVE  x % n = r
OBVIOUS

\* The next index: one more, or 0 at the end of the list.
LEMMA NextIndex ==
    ASSUME NEW x \in Nat, NEW n \in Nat \ {0}
    PROVE  /\ x % n \in 0 .. n - 1
           /\ (x + 1) % n = IF x % n = n - 1 THEN 0 ELSE (x % n) + 1
<1> DEFINE q == x \div n
           r == x % n
<1>1. q \in Nat /\ r \in 0 .. n - 1 /\ x = n * q + r
  BY Division
<1> HIDE DEF q, r
<1>2. CASE r = n - 1
  <2>1. x + 1 = n * (q + 1) + 0
    BY <1>1, <1>2
  <2>2. (x + 1) % n = 0
    BY <1>1, <2>1, Remainder, 0 \in 0 .. n - 1, q + 1 \in Nat, x + 1 \in Nat
  <2> QED BY <1>1, <1>2, <2>2 DEF r
<1>3. CASE r # n - 1
  <2>1. x + 1 = n * q + (r + 1) /\ r + 1 \in 0 .. n - 1
    BY <1>1, <1>3
  <2>2. (x + 1) % n = r + 1
    BY <1>1, <2>1, Remainder, x + 1 \in Nat
  <2> QED BY <1>1, <1>3, <2>2 DEF r
<1> QED BY <1>2, <1>3

\* An index below n is its own remainder.
LEMMA SmallIndex ==
    ASSUME NEW x \in Nat, NEW n \in Nat \ {0}, x < n
    PROVE  x % n = x
OBVIOUS

\* After a choice at x the spots move by one: the choice itself is the latest,
\* the others are followed by one more.
LEMMA SpotsMove ==
    ASSUME NEW n \in Nat \ {0}, NEW x \in Nat, NEW d \in 0 .. n - 1, d > 0 => x < n
    PROVE  Spot((x + 1) % n, d, n) = IF d = 0 THEN (x % n) + 1 ELSE Spot(x, d - 1, n)
<1> DEFINE r == x % n
           y == (x + 1) % n
<1>1. r \in 0 .. n - 1 /\ y = IF r = n - 1 THEN 0 ELSE r + 1
  BY NextIndex
<1>2. d > 0 => r = x
  BY SmallIndex
<1> HIDE DEF r, y
<1>3. Spot(y, d, n) = IF d = 0 THEN r + 1 ELSE Spot(x, d - 1, n)
  BY <1>1, <1>2 DEF Spot
<1> QED BY <1>3 DEF r, y

\* The spots of different choices differ.
LEMMA SpotsDiffer ==
    ASSUME NEW n \in Nat \ {0}, NEW x \in 0 .. n - 1,
           NEW d \in 0 .. n - 1, NEW e \in 0 .. n - 1, d # e
    PROVE  Spot(x, d, n) \in 1 .. n /\ Spot(x, d, n) # Spot(x, e, n)
BY DEF Spot

-----------------------------------------------------------------------------
(* Sorted lists. *)

\* A set of servers has no more than N elements.
LEMMA FewServers ==
    ASSUME NEW S \in SUBSET Servers
    PROVE  IsFiniteSet(S) /\ Cardinality(S) \in 0 .. N
<1>1. IsFiniteSet(Servers) /\ Cardinality(Servers) = N
  BY DiscoveryAssumption, FS_Interval DEF Servers
<1>2. IsFiniteSet(S) /\ Cardinality(S) <= Cardinality(Servers)
  BY <1>1, FS_Subset
<1> QED BY <1>1, <1>2, FS_CardinalityType

\* A set of servers can be put in order: each comes as late as there are servers
\* up to it.
LEMMA CanBeSorted ==
    ASSUME NEW S \in SUBSET Servers
    PROVE  \E q \in [1 .. Cardinality(S) -> S] :
              \A i, j \in 1 .. Cardinality(S) : i < j => q[i] < q[j]
<1> DEFINE n == Cardinality(S)
           UpTo(s) == {t \in S : t <= s}
           rank == [s \in S |-> Cardinality(UpTo(s))]
<1>1. IsFiniteSet(S) /\ n \in Nat /\ S \subseteq Nat
  BY FewServers, DiscoveryAssumption DEF Servers
<1>2. \A s \in S : IsFiniteSet(UpTo(s)) /\ Cardinality(UpTo(s)) \in 1 .. n
  <2> SUFFICES ASSUME NEW s \in S
               PROVE  IsFiniteSet(UpTo(s)) /\ Cardinality(UpTo(s)) \in 1 .. n
    OBVIOUS
  <2>1. UpTo(s) \in SUBSET S /\ UpTo(s) # {}
    BY <1>1
  <2>2. IsFiniteSet(UpTo(s)) /\ Cardinality(UpTo(s)) <= n
    BY <1>1, <2>1, FS_Subset
  <2>3. Cardinality(UpTo(s)) \in Nat /\ Cardinality(UpTo(s)) # 0
    BY <2>1, <2>2, FS_CardinalityType, FS_EmptySet
  <2> HIDE DEF UpTo, n
  <2> QED BY <1>1, <2>2, <2>3
<1>3. \A s, u \in S : s < u => rank[s] < rank[u]
  <2> SUFFICES ASSUME NEW s \in S, NEW u \in S, s < u
               PROVE  rank[s] < rank[u]
    OBVIOUS
  <2>1. UpTo(s) \in SUBSET UpTo(u) /\ u \in UpTo(u) /\ u \notin UpTo(s)
    <3>1. \A t \in S : t <= s => t <= u
      BY <1>1
    <3>2. u <= u /\ ~(u <= s)
      BY <1>1
    <3> QED BY <3>1, <3>2, Zenon
  <2>2. Cardinality(UpTo(s)) <= Cardinality(UpTo(u))
        /\ Cardinality(UpTo(s)) # Cardinality(UpTo(u))
    <3> HIDE DEF UpTo
    <3> QED BY <1>2, <2>1, FS_Subset
  <2>3. rank[s] = Cardinality(UpTo(s)) /\ rank[u] = Cardinality(UpTo(u))
    OBVIOUS
  <2> HIDE DEF rank, UpTo, n
  <2> QED BY <1>1, <1>2, <2>2, <2>3
<1>4. rank \in [S -> 1 .. n]
  BY <1>2
<1> HIDE DEF rank, n
<1>5. \A s, u \in S : s # u => rank[s] # rank[u]
  BY <1>1, <1>3, <1>4
<1>6. rank \in Surjection(S, 1 .. n)
  <2>1. rank \in Injection(S, 1 .. n)
    BY <1>4, <1>5 DEF Injection, IsInjective
  <2>2. IsFiniteSet(1 .. n) /\ Cardinality(1 .. n) = n
    BY <1>1, FS_Interval
  <2> QED BY <2>1, <2>2, FS_Injection DEF n
<1> DEFINE q == [i \in 1 .. n |-> CHOOSE s \in S : rank[s] = i]
<1>7. q \in [1 .. n -> S] /\ \A i \in 1 .. n : rank[q[i]] = i
  BY <1>6 DEF Surjection
<1> HIDE DEF q
<1>8. ASSUME NEW i \in 1 .. n, NEW j \in 1 .. n, i < j
      PROVE  q[i] < q[j]
  <2>1. q[i] \in S /\ q[j] \in S /\ q[i] \in Nat /\ q[j] \in Nat
    BY <1>1, <1>7
  <2>2. q[j] < q[i] => j < i
    BY <1>3, <1>7, <2>1
  <2>3. q[j] = q[i] => j = i
    BY <1>7
  <2> QED BY <1>1, <1>8, <2>1, <2>2, <2>3
<1> QED BY <1>7, <1>8 DEF n

\* What Sorted returns.
LEMMA SortedList ==
    ASSUME NEW S \in SUBSET Servers
    PROVE  /\ Sorted(S) \in Seq(S) /\ Len(Sorted(S)) <= N
           /\ IsInjective(Sorted(S))
<1> DEFINE n == Cardinality(S)
           q == Sorted(S)
<1>1. n \in 0 .. N /\ S \subseteq Nat
  BY FewServers, DiscoveryAssumption DEF Servers
<1>2. q \in [1 .. n -> S] /\ \A i, j \in 1 .. n : i < j => q[i] < q[j]
  BY CanBeSorted DEF Sorted
<1> HIDE DEF q, n
<1>3. q \in Seq(S) /\ Len(q) = n /\ DOMAIN q = 1 .. n
  <2>1. n \in Nat /\ q \in [1 .. n -> S]
    BY <1>1, <1>2, DiscoveryAssumption
  <2> QED BY <2>1
<1>4. ASSUME NEW i \in 1 .. n, NEW j \in 1 .. n, i < j
      PROVE  q[i] # q[j]
  <2>1. q[i] \in Nat /\ q[j] \in Nat /\ q[i] < q[j]
    BY <1>1, <1>2, <1>4
  <2> QED BY <2>1
<1>5. \A i, j \in 1 .. n : q[i] = q[j] => i = j
  BY <1>1, <1>4
<1> QED BY <1>1, <1>3, <1>5, DiscoveryAssumption DEF q, IsInjective

-----------------------------------------------------------------------------
(* The invariant. *)

\* The initial states have it.
LEMMA InvInit == Init => IInv
<1> SUFFICES ASSUME Init PROVE IInv
  OBVIOUS
<1> USE DiscoveryAssumption
<1>1. TypeOK
  <2>1. /\ now \in 0 .. MaxTime /\ regUp \in BOOLEAN /\ regSince \in 0 .. MaxTime
        /\ 0 \in 0 .. now
    BY DEF Init
  <2>2. DOMAIN start \subseteq Servers /\ \A s \in DOMAIN start : start[s] \in 0 .. now
    BY DEF Init
  <2>3. /\ hb \in [Servers -> {"off", "beating", "stopped"}]
        /\ beat \in [Servers -> 0 .. now] /\ asked \in [Getters -> 0 .. now]
        /\ gpc \in [Getters -> {"idle", "http", "answered", "choose"}]
    BY <2>1 DEF Init
  <2>4. index \in 0 .. N /\ lastUpdate \in 0 .. now /\ answeredAt \in 0 .. now
    BY <2>1 DEF Init, AnyIndex
  <2>5. servers = <<>> /\ answer = <<>> /\ turns = <<>>
    BY DEF Init
  <2>6. byHand \in BOOLEAN /\ dmu \in Getters \cup {Nobody}
    BY DEF Init
  <2> QED BY <2>1, <2>2, <2>3, <2>4, <2>5, <2>6 DEF TypeOK
<1>2. Sizes
  BY DEF Init, Sizes
<1> QED BY <1>1, <1>2 DEF Init, IInv, Holder, Registered, AnswerRecent, ListRecent,
                          AskedRecent

\* What a heartbeat does, in the ticker's loop or before it.
LEMMA HeartbeatInv ==
    ASSUME IInv, NEW s \in Servers, SendHeartbeat(s),
           UNCHANGED <<now, regUp, regSince, listVars, getVars, turns>>
    PROVE  IInv'
<1> USE DEF listVars, getVars
<1>t. TypeOK
  BY DEF IInv
<1>s. Sizes /\ Holder /\ Registered /\ AnswerRecent /\ ListRecent /\ AskedRecent
  BY DEF IInv
<1>n. /\ now \in Nat /\ lastUpdate \in Nat /\ answeredAt \in Nat
      /\ RegTimeout \in Nat /\ MaxDelay \in Nat /\ Period \in Nat
  BY <1>t, DiscoveryAssumption DEF TypeOK
<1>1. CASE /\ regUp
           /\ PutServer(s)
           /\ beat' = [beat EXCEPT ![s] = now]
           /\ hb' = [hb EXCEPT ![s] = "beating"]
  <2>1. /\ DOMAIN start' = DOMAIN start \cup {s}
        /\ \A t \in DOMAIN start' : start'[t] = IF t = s THEN now ELSE start[t]
    BY <1>1 DEF PutServer
  <2>2. /\ \A t \in Servers : beat'[t] = IF t = s THEN now ELSE beat[t]
        /\ \A t \in Servers : hb'[t] = IF t = s THEN "beating" ELSE hb[t]
        /\ beat' \in [Servers -> 0 .. now]
        /\ hb' \in [Servers -> {"off", "beating", "stopped"}]
    BY <1>1, <1>t DEF TypeOK
  <2>3. \A t \in Servers : beat[t] <= beat'[t] /\ beat[t] \in Nat /\ beat'[t] \in Nat
    <3> SUFFICES ASSUME NEW t \in Servers
                 PROVE  beat[t] <= beat'[t] /\ beat[t] \in Nat /\ beat'[t] \in Nat
      OBVIOUS
    <3>1. beat[t] \in 0 .. now
      BY <1>t DEF TypeOK
    <3> QED BY <1>n, <2>2, <3>1
  <2>4. TypeOK'
    BY <2>1, <2>2, <1>t DEF TypeOK
  <2>5. Sizes' /\ Holder' /\ AskedRecent'
    BY <1>s DEF Sizes, Holder, AskedRecent
  <2>6. Registered'
    <3>1. \A t \in Servers : hb'[t] = "beating" => now <= beat'[t] + Period
      <4> SUFFICES ASSUME NEW t \in Servers, hb'[t] = "beating"
                   PROVE  now <= beat'[t] + Period
        OBVIOUS
      <4>1. now <= now + Period
        BY <1>n
      <4>2. t # s => now <= beat[t] + Period
        BY <2>2, <1>s DEF Registered
      <4> QED BY <2>2, <4>1, <4>2
    <3>2. ASSUME NEW t \in Servers, hb'[t] = "beating", regSince = 0 \/ beat'[t] > regSince
          PROVE  t \in DOMAIN start' /\ start'[t] = beat'[t]
      BY <1>1, <2>1, <2>2, <3>2, <1>s DEF Registered
    <3>3. \A t \in DOMAIN start' : start'[t] <= beat'[t]
      BY <2>1, <2>2, <1>t, <1>s DEF Registered, TypeOK
    <3> QED BY <3>1, <3>2, <3>3, <1>s DEF Registered
  <2>7. AnswerRecent'
    <3> SUFFICES ASSUME NEW g \in Getters, gpc[g] = "answered", RegTimeout > 0,
                        NEW i \in DOMAIN answer, answer[i] # None
                 PROVE  answeredAt <= beat'[answer[i]] + RegTimeout
      BY <1>s DEF AnswerRecent
    <3>1. answer[i] \in Servers /\ answeredAt <= beat[answer[i]] + RegTimeout
      BY <1>t, <1>s DEF AnswerRecent, TypeOK
    <3>2. \A a \in Servers : answeredAt <= beat[a] + RegTimeout =>
                             answeredAt <= beat'[a] + RegTimeout
      BY <2>3, <1>n
    <3> QED BY <3>1, <3>2
  <2>8. ListRecent'
    <3> SUFFICES ASSUME RegTimeout > 0, ~byHand, NEW i \in DOMAIN servers, servers[i] # None
                 PROVE  lastUpdate <= beat'[servers[i]] + RegTimeout + MaxDelay
      BY <1>s DEF ListRecent
    <3>1. servers[i] \in Servers /\ lastUpdate <= beat[servers[i]] + RegTimeout + MaxDelay
      BY <1>t, <1>s DEF ListRecent, TypeOK
    <3>2. \A a \in Servers : lastUpdate <= beat[a] + RegTimeout + MaxDelay =>
                             lastUpdate <= beat'[a] + RegTimeout + MaxDelay
      BY <2>3, <1>n
    <3> QED BY <3>1, <3>2
  <2> QED BY <2>4, <2>5, <2>6, <2>7, <2>8 DEF IInv
<1>2. CASE /\ hb' = [hb EXCEPT ![s] = "stopped"]
           /\ UNCHANGED <<start, beat>>
  <2>1. \A t \in Servers : hb'[t] = "beating" => hb[t] = "beating"
    BY <1>2, <1>t DEF TypeOK
  <2>2. TypeOK'
    BY <1>2, <1>t DEF TypeOK
  <2>3. Registered'
    BY <1>2, <2>1, <1>s DEF Registered
  <2> QED BY <1>2, <2>2, <2>3, <1>s
           DEF IInv, Sizes, Holder, AnswerRecent, ListRecent, AskedRecent
<1> QED BY <1>1, <1>2 DEF SendHeartbeat

\* The registry, a server's end, and the clock.
LEMMA WorldInv ==
    ASSUME IInv, RegistryCrash \/ RegistryStart \/ (\E s \in Servers : CrashServer(s)) \/ Tick
    PROVE  IInv'
<1>t. TypeOK
  BY DEF IInv
<1>s. Sizes /\ Holder /\ Registered /\ AnswerRecent /\ ListRecent /\ AskedRecent
  BY DEF IInv
<1>1. CASE RegistryCrash
  <2>1. TypeOK'
    BY <1>1, <1>t DEF TypeOK, RegistryCrash, hbVars, listVars, getVars
  <2>2. Registered'
    BY <1>1, <1>s DEF RegistryCrash, Registered, hbVars
  <2> QED BY <1>1, <1>s, <2>1, <2>2
          DEF IInv, Sizes, Holder, AnswerRecent, ListRecent, AskedRecent, RegistryCrash,
              hbVars, listVars, getVars
<1>2. CASE RegistryStart
  <2>1. TypeOK'
    BY <1>2, <1>t DEF TypeOK, RegistryStart, hbVars, listVars, getVars
  <2>2. Registered'
    <3>1. \A s \in Servers : ~(regSince' = 0 \/ beat'[s] > regSince')
      <4> SUFFICES ASSUME NEW s \in Servers
                   PROVE  ~(regSince' = 0 \/ beat'[s] > regSince')
        OBVIOUS
      <4>1. beat[s] \in 0 .. now /\ now \in Nat /\ now >= 1 /\ beat' = beat /\ regSince' = now
        BY <1>2, <1>s, <1>t, DiscoveryAssumption DEF TypeOK, Sizes, RegistryStart, hbVars
      <4> QED BY <4>1
    <3> QED BY <1>2, <1>s, <3>1 DEF RegistryStart, Registered, hbVars
  <2> QED BY <1>2, <1>s, <2>1, <2>2
          DEF IInv, Sizes, Holder, AnswerRecent, ListRecent, AskedRecent, RegistryStart,
              hbVars, listVars, getVars
<1>3. ASSUME NEW s \in Servers, CrashServer(s)
      PROVE  IInv'
  <2>1. TypeOK'
    BY <1>3, <1>t DEF TypeOK, CrashServer, regVars, listVars, getVars
  <2>2. \A t \in Servers : hb'[t] = "beating" => hb[t] = "beating"
    BY <1>3, <1>t DEF TypeOK, CrashServer
  <2>3. Registered'
    BY <1>3, <1>s, <2>2 DEF CrashServer, Registered, regVars
  <2> QED BY <1>3, <1>s, <2>1, <2>3
          DEF IInv, Sizes, Holder, AnswerRecent, ListRecent, AskedRecent, CrashServer,
              regVars, listVars, getVars
<1>4. CASE Tick
  <2> USE DEF regVars, hbVars, listVars, getVars
  <2>1. now \in Nat /\ now' = now + 1 /\ now < MaxTime /\ MaxTime \in Nat
    BY <1>4, <1>t, DiscoveryAssumption DEF TypeOK, Tick
  <2>2. 0 .. now \subseteq 0 .. now'
    BY <2>1
  <2>3. TypeOK'
    <3>1. /\ now' \in 0 .. MaxTime
          /\ \A s \in DOMAIN start : start[s] \in 0 .. now'
          /\ beat \in [Servers -> 0 .. now'] /\ asked \in [Getters -> 0 .. now']
          /\ lastUpdate \in 0 .. now' /\ answeredAt \in 0 .. now'
      BY <1>t, <2>1, <2>2 DEF TypeOK
    <3> QED BY <1>4, <1>t, <3>1 DEF TypeOK, Tick
  <2>4. Registered'
    <3>1. ASSUME NEW s \in Servers, hb[s] = "beating"
          PROVE  now' <= beat[s] + Period
      <4>1. beat[s] \in Nat /\ Period \in Nat
        BY <1>t, DiscoveryAssumption DEF TypeOK
      <4>2. ~(now >= beat[s] + Period)
        BY <1>4, <3>1 DEF Tick, Due
      <4> QED BY <2>1, <4>1, <4>2
    <3> QED BY <1>4, <1>s, <3>1 DEF Registered, Tick
  <2>5. AnswerRecent'
    <3>1. ASSUME NEW g \in Getters, gpc[g] = "answered"
          PROVE  now' <= answeredAt + MaxDelay
      <4>1. now < answeredAt + MaxDelay
        BY <1>4, <3>1 DEF Tick
      <4> QED BY <1>t, <2>1, <4>1, DiscoveryAssumption DEF TypeOK
    <3> QED BY <1>4, <1>s, <3>1 DEF AnswerRecent, Tick
  <2>6. Sizes'
    BY <1>4, <1>s, <2>1 DEF Sizes, Tick
  <2> QED BY <1>4, <1>s, <2>3, <2>4, <2>5, <2>6
          DEF IInv, Holder, ListRecent, AskedRecent, Tick
<1> QED BY <1>1, <1>2, <1>3, <1>4

\* An exchange with the registry begins, or is not needed, and may fail.
LEMMA AskInv ==
    ASSUME IInv, NEW g \in Getters, AskRefresh(g) \/ RefreshFails(g)
    PROVE  IInv'
<1> USE DEF regVars, hbVars, listVars
<1>t. TypeOK
  BY DEF IInv
<1>s. Sizes /\ Holder /\ Registered /\ AnswerRecent /\ ListRecent /\ AskedRecent
  BY DEF IInv
<1>1. CASE AskRefresh(g)
  <2>0. UNCHANGED <<now, regVars, hbVars, listVars, answer, answeredAt, turns>>
    BY <1>1 DEF AskRefresh
  <2>1. gpc[g] = "idle" /\ dmu = Nobody
    BY <1>1 DEF AskRefresh
  <2>2. \A h \in Getters : gpc[h] \notin {"http", "answered"}
    BY <1>s, <2>1, DiscoveryAssumption DEF Holder
  <2>3. CASE /\ Fresh
             /\ gpc' = [gpc EXCEPT ![g] = "choose"]
             /\ asked' = [asked EXCEPT ![g] = now]
             /\ UNCHANGED dmu
    <3>1. TypeOK'
      BY <1>t, <2>0, <2>3, DiscoveryAssumption DEF TypeOK
    <3>2. \A h \in Getters : gpc'[h] = IF h = g THEN "choose" ELSE gpc[h]
      BY <1>t, <2>3 DEF TypeOK
    <3>3. Holder' /\ AnswerRecent'
      BY <2>1, <2>2, <2>3, <3>2, DiscoveryAssumption DEF Holder, AnswerRecent
    <3>4. AskedRecent'
      <4> SUFFICES ASSUME NEW h \in Getters, gpc'[h] = "choose"
                   PROVE  asked'[h] < lastUpdate + DiscTimeout
        BY <2>0 DEF AskedRecent
      <4>1. now \in Nat /\ lastUpdate \in Nat /\ DiscTimeout \in Nat
        BY <1>t, DiscoveryAssumption DEF TypeOK
      <4>2. now < lastUpdate + DiscTimeout
        BY <2>3, <4>1 DEF Fresh
      <4>3. asked'[h] = IF h = g THEN now ELSE asked[h]
        BY <1>t, <2>3 DEF TypeOK
      <4> QED BY <1>s, <3>2, <4>2, <4>3 DEF AskedRecent
    <3> QED BY <1>s, <2>0, <3>1, <3>3, <3>4 DEF IInv, Sizes, Registered, ListRecent
  <2>4. CASE /\ ~Fresh
             /\ gpc' = [gpc EXCEPT ![g] = "http"]
             /\ dmu' = g
             /\ UNCHANGED asked
    <3>1. TypeOK'
      BY <1>t, <2>0, <2>4 DEF TypeOK
    <3>2. \A h \in Getters : gpc'[h] = IF h = g THEN "http" ELSE gpc[h]
      BY <1>t, <2>4 DEF TypeOK
    <3>3. Holder' /\ AnswerRecent'
      BY <2>1, <2>2, <2>4, <3>2 DEF Holder, AnswerRecent
    <3>4. AskedRecent'
      BY <1>s, <2>0, <2>4, <3>2 DEF AskedRecent
    <3> QED BY <1>s, <2>0, <3>1, <3>3, <3>4 DEF IInv, Sizes, Registered, ListRecent
  <2> QED BY <1>1, <2>3, <2>4 DEF AskRefresh
<1>2. CASE RefreshFails(g)
  <2>0. UNCHANGED <<now, regVars, hbVars, listVars, asked, turns>> /\ dmu' = Nobody
        /\ answer' = <<>> /\ answeredAt' = 0
    BY <1>2 DEF RefreshFails
  <2>1. \A h \in Getters : gpc'[h] = IF h = g THEN "idle" ELSE gpc[h]
    BY <1>2, <1>t DEF TypeOK, RefreshFails
  <2>2. dmu = g
    BY <1>2, <1>s DEF RefreshFails, Holder
  <2>3. \A h \in Getters : gpc'[h] \notin {"http", "answered"}
    BY <1>s, <2>1, <2>2 DEF Holder
  <2>4. TypeOK'
    <3>1. 0 \in 0 .. now
      BY <1>t, DiscoveryAssumption DEF TypeOK
    <3>2. gpc' \in [Getters -> {"idle", "http", "answered", "choose"}]
      BY <1>2, <1>t DEF TypeOK, RefreshFails
    <3> QED BY <1>t, <2>0, <3>1, <3>2 DEF TypeOK
  <2>5. Holder' /\ AnswerRecent'
    BY <2>0, <2>3, DiscoveryAssumption DEF Holder, AnswerRecent
  <2>6. AskedRecent'
    BY <1>s, <2>0, <2>1 DEF AskedRecent
  <2>7. Sizes'
    BY <1>s, <2>0, DiscoveryAssumption DEF Sizes
  <2> QED BY <1>s, <2>0, <2>4, <2>5, <2>6, <2>7 DEF IInv, Registered, ListRecent
<1> QED BY <1>1, <1>2

\* What the registry answers: known servers, each once, and never more than N.
LEMMA AnswerList ==
    ASSUME TypeOK, NEW g \in Getters, RegistryAnswers(g)
    PROVE  /\ answer' \in Seq(Servers \cup {None}) /\ Len(answer') <= N
           /\ \A i \in DOMAIN answer' : answer'[i] # None => answer'[i] \in Alive
           /\ IsInjective(answer')
<1>1. CASE Alive = {}
  <2>1. answer' = <<None>>
    BY <1>1 DEF RegistryAnswers
  <2>2. Len(<<None>>) = 1 /\ <<None>> \in Seq(Servers \cup {None}) /\ <<None>>[1] = None
        /\ DOMAIN <<None>> = {1}
    OBVIOUS
  <2> QED BY <2>1, <2>2, DiscoveryAssumption DEF IsInjective
<1>2. CASE Alive # {}
  <2>1. answer' = Sorted(Alive)
    BY <1>2 DEF RegistryAnswers
  <2>2. Alive \in SUBSET Servers
    BY DEF TypeOK, Alive
  <2>3. Sorted(Alive) \in Seq(Alive) /\ Len(Sorted(Alive)) <= N /\ IsInjective(Sorted(Alive))
    BY <2>2, SortedList
  <2> HIDE DEF Alive
  <2>4. Sorted(Alive) \in Seq(Servers \cup {None})
    BY <2>2, <2>3
  <2> QED BY <2>1, <2>3, <2>4
<1> QED BY <1>1, <1>2

LEMMA AnswersInv ==
    ASSUME IInv, NEW g \in Getters, RegistryAnswers(g)
    PROVE  IInv'
<1> USE DEF hbVars, listVars
<1>t. TypeOK
  BY DEF IInv
<1>s. Sizes /\ Holder /\ Registered /\ AnswerRecent /\ ListRecent /\ AskedRecent
  BY DEF IInv
<1>0. /\ UNCHANGED <<now, regUp, regSince, hbVars, listVars, dmu, asked, turns>>
      /\ start' = [s \in Alive |-> start[s]] /\ answeredAt' = now /\ gpc[g] = "http"
      /\ gpc' = [gpc EXCEPT ![g] = "answered"]
  BY DEF RegistryAnswers
<1>a. /\ answer' \in Seq(Servers \cup {None}) /\ Len(answer') <= N
      /\ \A i \in DOMAIN answer' : answer'[i] # None => answer'[i] \in Alive
  BY <1>t, AnswerList
<1>1. /\ now \in Nat /\ RegTimeout \in Nat /\ MaxDelay \in Nat /\ Period \in Nat
      /\ \A s \in Servers : beat[s] \in Nat
  BY <1>t, DiscoveryAssumption DEF TypeOK
<1>2. \A h \in Getters : gpc'[h] = IF h = g THEN "answered" ELSE gpc[h]
  BY <1>0, <1>t DEF TypeOK
<1>3. DOMAIN start' = Alive /\ \A s \in Alive : start'[s] = start[s] /\ s \in DOMAIN start
  BY <1>0 DEF Alive
<1>4. TypeOK'
  <2>1. now \in 0 .. now
    BY <1>1
  <2> QED BY <1>0, <1>a, <1>t, <1>3, <2>1 DEF TypeOK
<1>5. Holder' /\ AskedRecent' /\ Sizes'
  BY <1>0, <1>a, <1>s, <1>2 DEF Holder, AskedRecent, Sizes
<1>6. Registered'
  <2>1. ASSUME NEW s \in Servers, hb[s] = "beating", s \in DOMAIN start, start[s] = beat[s]
        PROVE  s \in Alive
    <3>1. now <= beat[s] + Period
      BY <1>s, <2>1 DEF Registered
    <3>2. RegTimeout = 0 \/ Period <= RegTimeout
      BY DiscoveryAssumption
    <3> QED BY <1>1, <2>1, <3>1, <3>2 DEF Alive
  <2> QED BY <1>0, <1>s, <1>3, <2>1 DEF Registered
<1>7. AnswerRecent'
  <2> SUFFICES ASSUME NEW h \in Getters, gpc'[h] = "answered"
               PROVE  /\ now <= now + MaxDelay
                      /\ RegTimeout > 0 => \A i \in DOMAIN answer' :
                            answer'[i] # None => now <= beat[answer'[i]] + RegTimeout
    BY <1>0 DEF AnswerRecent
  <2>1. ASSUME RegTimeout > 0, NEW s \in Alive
        PROVE  now <= beat[s] + RegTimeout
    <3>1. s \in DOMAIN start /\ now <= start[s] + RegTimeout
      BY <1>1, <2>1 DEF Alive
    <3>2. start[s] <= beat[s] /\ s \in Servers /\ start[s] \in Nat
      BY <1>s, <1>t, <3>1 DEF Registered, TypeOK
    <3> QED BY <1>1, <3>1, <3>2
  <2> QED BY <1>a, <1>1, <2>1
<1> QED BY <1>0, <1>s, <1>4, <1>5, <1>6, <1>7 DEF IInv, ListRecent

\* The list is replaced, by the registry's or by a user's.
LEMMA NewListInv ==
    ASSUME IInv, (\E g \in Getters : RefreshDone(g)) \/ (\E list \in HandLists : Update(list))
    PROVE  IInv'
<1> USE DEF regVars, hbVars, getVars
<1>t. TypeOK
  BY DEF IInv
<1>s. Sizes /\ Holder /\ Registered /\ AnswerRecent /\ ListRecent /\ AskedRecent
  BY DEF IInv
<1>n. /\ now \in Nat /\ lastUpdate \in 0 .. now /\ now \in 0 .. now /\ 0 \in 0 .. now
      /\ RegTimeout \in Nat /\ DiscTimeout \in Nat /\ DiscTimeout >= 1 /\ MaxDelay \in Nat
      /\ answeredAt \in 0 .. now
      /\ \A s \in Servers : beat[s] \in Nat
  BY <1>t, DiscoveryAssumption DEF TypeOK
<1>1. ASSUME NEW g \in Getters, RefreshDone(g)
      PROVE  IInv'
  <2>0. /\ UNCHANGED <<now, regVars, hbVars, index>> /\ gpc[g] = "answered"
        /\ servers' = answer /\ lastUpdate' = now /\ byHand' = FALSE
        /\ turns' = IF answer = servers THEN turns ELSE <<>>
        /\ dmu' = Nobody /\ answer' = <<>> /\ answeredAt' = 0
        /\ gpc' = [gpc EXCEPT ![g] = "choose"] /\ asked' = [asked EXCEPT ![g] = now]
    BY <1>1 DEF RefreshDone
  <2>1. \A h \in Getters : /\ gpc'[h] = IF h = g THEN "choose" ELSE gpc[h]
                           /\ asked'[h] = IF h = g THEN now ELSE asked[h]
    BY <1>t, <2>0 DEF TypeOK
  <2>2. TypeOK'
    <3>1. turns' \in Seq(Servers \cup {None}) /\ <<>> \in Seq(Servers \cup {None})
      BY <1>t, <2>0 DEF TypeOK
    <3>2. asked' \in [Getters -> 0 .. now]
          /\ gpc' \in [Getters -> {"idle", "http", "answered", "choose"}]
      BY <1>t, <1>n, <2>0 DEF TypeOK
    <3> QED BY <1>t, <1>n, <2>0, <3>1, <3>2 DEF TypeOK
  <2>3. Sizes'
    BY <1>s, <2>0, DiscoveryAssumption DEF Sizes
  <2>4. Holder' /\ AnswerRecent'
    <3>1. dmu = g
      BY <1>s, <2>0 DEF Holder
    <3>2. \A h \in Getters : gpc'[h] \notin {"http", "answered"}
      BY <1>s, <2>1, <3>1 DEF Holder
    <3> QED BY <2>0, <3>2, DiscoveryAssumption DEF Holder, AnswerRecent
  <2>5. ListRecent'
    <3> SUFFICES ASSUME RegTimeout > 0, NEW i \in DOMAIN answer, answer[i] # None
                 PROVE  now <= beat[answer[i]] + RegTimeout + MaxDelay
      BY <2>0 DEF ListRecent
    <3>1. now <= answeredAt + MaxDelay /\ answeredAt <= beat[answer[i]] + RegTimeout
      BY <1>s, <2>0 DEF AnswerRecent
    <3>2. answer[i] \in Servers
      BY <1>t DEF TypeOK
    <3>3. beat[answer[i]] \in Nat
      BY <1>n, <3>2
    <3> QED BY <1>n, <3>1, <3>3
  <2>6. AskedRecent'
    <3> SUFFICES ASSUME NEW h \in Getters, gpc'[h] = "choose"
                 PROVE  asked'[h] < now + DiscTimeout
      BY <2>0 DEF AskedRecent
    <3>1. asked'[h] \in 0 .. now
      BY <1>n, <1>t, <2>1 DEF TypeOK
    <3> QED BY <1>n, <3>1
  <2> QED BY <1>s, <2>0, <2>2, <2>3, <2>4, <2>5, <2>6 DEF IInv, Registered
<1>2. ASSUME NEW list \in HandLists, Update(list)
      PROVE  IInv'
  <2>0. /\ UNCHANGED <<now, regVars, hbVars, index, getVars>>
        /\ servers' = list /\ lastUpdate' = now /\ byHand' = TRUE
        /\ turns' = IF list = servers THEN turns ELSE <<>>
        /\ list \in Seq(Servers) /\ Len(list) <= N
    BY <1>2, DiscoveryAssumption DEF Update
  <2>1. TypeOK'
    <3>1. turns' \in Seq(Servers \cup {None}) /\ list \in Seq(Servers \cup {None})
      BY <1>t, <2>0 DEF TypeOK
    <3> QED BY <1>t, <1>n, <2>0, <3>1 DEF TypeOK
  <2>2. AskedRecent'
    <3> SUFFICES ASSUME NEW h \in Getters, gpc[h] = "choose"
                 PROVE  asked[h] < now + DiscTimeout
      BY <2>0 DEF AskedRecent
    <3>1. asked[h] \in 0 .. now
      BY <1>t DEF TypeOK
    <3> QED BY <1>n, <3>1
  <2> QED BY <1>s, <2>0, <2>1, <2>2
          DEF IInv, Sizes, Holder, Registered, AnswerRecent, ListRecent
<1> QED BY <1>1, <1>2

\* Get chooses a server, in its turn.
TakesTurn(g) ==
    LET mod == Len(servers) IN
    /\ mod > 0
    /\ turns' = LET all == Append(turns, servers[(index % mod) + 1])
                IN SubSeq(all, IF Len(all) > mod THEN 2 ELSE 1, Len(all))
    /\ index' = (index + 1) % mod

LEMMA ChooseInv ==
    ASSUME IInv, NEW g \in Getters, Choose(g) \/ GetAll(g)
    PROVE  IInv'
<1> USE DEF regVars, hbVars, listVars
<1>t. TypeOK
  BY DEF IInv
<1>s. Sizes /\ Holder /\ Registered /\ AnswerRecent /\ ListRecent /\ AskedRecent
  BY DEF IInv
<1>0. /\ UNCHANGED <<now, regVars, hbVars, servers, lastUpdate, byHand, dmu, answer, answeredAt>>
      /\ gpc[g] = "choose" /\ gpc' = [gpc EXCEPT ![g] = "idle"]
      /\ asked' = [asked EXCEPT ![g] = 0]
      /\ UNCHANGED <<index, turns>> \/ TakesTurn(g)
  BY DEF Choose, GetAll, TakesTurn
<1>1. \A h \in Getters : /\ gpc'[h] = IF h = g THEN "idle" ELSE gpc[h]
                         /\ asked'[h] = IF h = g THEN 0 ELSE asked[h]
  BY <1>t, <1>0 DEF TypeOK
<1>2. index' \in 0 .. N /\ turns' \in Seq(Servers \cup {None})
  <2>1. CASE UNCHANGED <<index, turns>>
    BY <1>t, <2>1 DEF TypeOK
  <2>2. CASE TakesTurn(g)
    <3> DEFINE mod == Len(servers)
               spot == (index % mod) + 1
               all == Append(turns, servers[spot])
    <3>1. mod \in Nat \ {0} /\ mod <= N /\ index \in Nat /\ N \in Nat
      BY <1>t, <1>s, <2>2, DiscoveryAssumption DEF TypeOK, Sizes, TakesTurn
    <3>2. index' \in 0 .. mod - 1 /\ index % mod \in 0 .. mod - 1
      <4> HIDE DEF mod
      <4>1. index' = (index + 1) % mod
        BY <2>2 DEF TakesTurn, mod
      <4> QED BY <3>1, <4>1, NextIndex, Division, index + 1 \in Nat
    <3>3. spot \in 1 .. mod
      <4> HIDE DEF mod
      <4> QED BY <3>1, <3>2
    <3>4. all \in Seq(Servers \cup {None})
      <4> HIDE DEF spot
      <4>1. servers[spot] \in Servers \cup {None}
        BY <1>t, <3>3 DEF TypeOK
      <4> QED BY <1>t, <4>1 DEF TypeOK
    <3>5. turns' = SubSeq(all, IF Len(all) > mod THEN 2 ELSE 1, Len(all))
      BY <2>2 DEF TakesTurn
    <3> HIDE DEF all, mod
    <3>6. turns' \in Seq(Servers \cup {None})
      BY <3>1, <3>4, <3>5
    <3> QED BY <3>1, <3>2, <3>6
  <2> QED BY <1>0, <2>1, <2>2
<1>3. TypeOK'
  <2>1. 0 \in 0 .. now
    BY <1>t, DiscoveryAssumption DEF TypeOK
  <2> QED BY <1>t, <1>0, <1>2, <2>1 DEF TypeOK
<1>4. Holder' /\ AnswerRecent' /\ AskedRecent'
  BY <1>s, <1>0, <1>1 DEF Holder, AnswerRecent, AskedRecent
<1> QED BY <1>s, <1>0, <1>3, <1>4 DEF IInv, Sizes, Registered, ListRecent

LEMMA InvStep == IInv /\ [Next]_vars => IInv'
<1> SUFFICES ASSUME IInv, [Next]_vars PROVE IInv'
  OBVIOUS
<1>1. ASSUME NEW s \in Servers, StartServer(s) \/ Beat(s)
      PROVE  IInv'
  BY <1>1, HeartbeatInv DEF StartServer, Beat
<1>2. ASSUME NEW g \in Getters,
             AskRefresh(g) \/ RegistryAnswers(g) \/ RefreshDone(g)
             \/ RefreshFails(g) \/ Choose(g) \/ GetAll(g)
      PROVE  IInv'
  BY <1>2, AskInv, AnswersInv, NewListInv, ChooseInv
<1>3. CASE UNCHANGED vars
  BY <1>3 DEF vars, regVars, hbVars, listVars, getVars, IInv, TypeOK, Sizes, Holder,
              Registered, AnswerRecent, ListRecent, AskedRecent, Alive
<1> QED BY <1>1, <1>2, <1>3, WorldInv, NewListInv DEF Next

LEMMA Invariance == Spec => []IInv
BY InvInit, InvStep, PTL DEF Spec

-----------------------------------------------------------------------------
(* The theorems. *)

\* Whatever the servers, the registry and the getters do, every variable of the
\* discovery keeps to its type, index and the list's length to the number of
\* servers.
THEOREM TypeCorrect == Spec => []TypeOK
<1>1. IInv => TypeOK
  BY DEF IInv
<1> QED BY <1>1, Invariance, PTL

\* aliveServers deletes no server that keeps sending heartbeats, and a registry
\* that was restarted knows them all after one period.
THEOREM NeverDelisted == Spec => []StaysListed
<1>1. IInv => StaysListed
  <2> SUFFICES ASSUME IInv, NEW s \in Servers, hb[s] = "beating", regUp,
                      regSince > 0 => now > regSince + Period
               PROVE  s \in Alive
    BY DEF StaysListed
  <2>1. /\ now \in Nat /\ regSince \in Nat /\ Period \in Nat /\ RegTimeout \in Nat
        /\ beat[s] \in Nat
    BY DiscoveryAssumption DEF IInv, TypeOK
  <2>2. now <= beat[s] + Period
    BY DEF IInv, Registered
  <2>3. regSince = 0 \/ beat[s] > regSince
    BY <2>1, <2>2
  <2>4. s \in DOMAIN start /\ start[s] = beat[s]
    BY <2>3 DEF IInv, Registered
  <2> QED BY <2>1, <2>2, <2>4, DiscoveryAssumption DEF Alive
<1> QED BY <1>1, Invariance, PTL

\* The bound on how long ago a server that is chosen from the registry's list has
\* sent its last heartbeat: the two timeouts and the time the list has travelled.
THEOREM RecentChoice == Spec => []ChosenIsRecent
<1>1. IInv => ChosenIsRecent
  <2> SUFFICES ASSUME IInv, RegTimeout > 0, ~byHand, NEW g \in Getters,
                      NEW i \in DOMAIN servers, gpc[g] = "choose", servers[i] # None
               PROVE  asked[g] < beat[servers[i]] + RegTimeout + DiscTimeout + MaxDelay
    BY DEF ChosenIsRecent
  <2>1. servers[i] \in Servers
    BY DEF IInv, TypeOK
  <2>2. /\ asked[g] \in Nat /\ lastUpdate \in Nat /\ RegTimeout \in Nat
        /\ DiscTimeout \in Nat /\ MaxDelay \in Nat /\ beat[servers[i]] \in Nat
    BY <2>1, DiscoveryAssumption DEF IInv, TypeOK
  <2>3. asked[g] < lastUpdate + DiscTimeout
    BY DEF IInv, AskedRecent
  <2>4. lastUpdate <= beat[servers[i]] + RegTimeout + MaxDelay
    BY DEF IInv, ListRecent
  <2> QED BY <2>2, <2>3, <2>4
<1> QED BY <1>1, Invariance, PTL

-----------------------------------------------------------------------------
(* Round robin. *)

\* A turn leaves the window on the list one further, and no longer than the list.
LEMMA TurnTaken ==
    ASSUME IInv, Rotation, NEW g \in Getters, TakesTurn(g), UNCHANGED <<servers, answer>>
    PROVE  Rotation'
<1> DEFINE n == Len(servers)
           m == Len(turns)
           x == servers[(index % n) + 1]
           all == Append(turns, x)
<1>1. /\ n \in Nat \ {0} /\ m \in 0 .. n /\ index \in Nat /\ (m > 0 => index < n)
      /\ turns \in Seq(Servers \cup {None})
  BY DEF IInv, TypeOK, Rotation, TakesTurn
<1>2. /\ index' = (index + 1) % n
      /\ turns' = SubSeq(all, IF Len(all) > n THEN 2 ELSE 1, Len(all))
  BY DEF TakesTurn
<1>3. x \in Servers \cup {None}
  <2>1. (index % n) + 1 \in 1 .. n
    <3> HIDE DEF n
    <3>1. index % n \in 0 .. n - 1
      BY <1>1, Division
    <3> QED BY <1>1, <3>1
  <2> QED BY <2>1 DEF IInv, TypeOK
<1>4. /\ all \in Seq(Servers \cup {None}) /\ Len(all) = m + 1 /\ all[m + 1] = x
      /\ \A k \in 1 .. m : all[k] = turns[k]
  <2> HIDE DEF x
  <2> QED BY <1>1, <1>3
<1> DEFINE off == IF m = n THEN 1 ELSE 0
<1>5. /\ Len(turns') = m + 1 - off /\ Len(turns') \in 1 .. n
      /\ \A k \in 1 .. m + 1 - off : turns'[k] = all[k + off]
  <2> HIDE DEF n, m, all
  <2>1. turns' = SubSeq(all, 1 + off, m + 1)
    BY <1>1, <1>2, <1>4
  <2> QED BY <1>1, <1>4, <2>1
<1>6. ASSUME NEW k \in 1 .. Len(turns')
      PROVE  turns'[k] = servers[Spot(index', Len(turns') - k, n)]
  <2> DEFINE d == m + 1 - off - k
  <2>1. /\ d \in 0 .. n - 1 /\ d = Len(turns') - k /\ k + off = m + 1 - d
        /\ d > 0 => m - (m + 1 - d) = d - 1 /\ m + 1 - d \in 1 .. m
    <3> HIDE DEF n, m
    <3> QED BY <1>1, <1>5, <1>6
  <2>2. d > 0 => index < n
    <3> HIDE DEF n, m
    <3> QED BY <1>1, <2>1
  <2>3. Spot(index', d, n) = IF d = 0 THEN (index % n) + 1 ELSE Spot(index, d - 1, n)
    <3> HIDE DEF n, d
    <3> QED BY <1>1, <1>2, <2>1, <2>2, SpotsMove
  <2>4. turns'[k] = all[m + 1 - d]
    <3> HIDE DEF n, m, all
    <3> QED BY <1>5, <1>6, <2>1
  <2>5. CASE d = 0
    <3>1. all[m + 1 - d] = x
      <4> HIDE DEF n, m, all, x
      <4> QED BY <1>1, <1>4, <2>5
    <3> HIDE DEF all, m, d
    <3> QED BY <2>1, <2>3, <2>4, <2>5, <3>1
  <2>6. CASE d > 0
    <3>1. all[m + 1 - d] = turns[m + 1 - d]
      <4> HIDE DEF n, m, all, d
      <4> QED BY <1>4, <2>1, <2>6
    <3>2. turns[m + 1 - d] = servers[Spot(index, m - (m + 1 - d), n)]
      <4> HIDE DEF d
      <4> QED BY <2>1, <2>6 DEF Rotation
    <3>3. m - (m + 1 - d) = d - 1
      BY <2>1, <2>6
    <3> HIDE DEF all, m, d, n
    <3> QED BY <2>1, <2>3, <2>4, <2>6, <3>1, <3>2, <3>3
  <2> HIDE DEF d
  <2> QED BY <2>1, <2>5, <2>6
<1>7. index' < n
  <2> HIDE DEF n
  <2> QED BY <1>1, <1>2, NextIndex, Division, index + 1 \in Nat
<1>8. IsInjective(servers) /\ IsInjective(answer)
  BY DEF Rotation
<1>9. servers' = servers /\ answer' = answer
  OBVIOUS
<1> HIDE DEF m, x, all, off
<1> QED BY <1>5, <1>6, <1>7, <1>8, <1>9 DEF Rotation

LEMMA RotationStep ==
    ASSUME \A list \in HandLists : IsInjective(list), IInv, Rotation, [Next]_vars
    PROVE  Rotation'
<1>t. TypeOK
  BY DEF IInv
<1>0. IsInjective(<<>>)
  BY DEF IsInjective
<1> USE DEF listVars, getVars
<1>1. CASE UNCHANGED <<servers, answer, turns, index>>
  BY <1>1 DEF Rotation
<1>2. ASSUME NEW s \in Servers, StartServer(s) \/ Beat(s) \/ CrashServer(s)
      PROVE  Rotation'
  BY <1>1, <1>2 DEF StartServer, Beat, CrashServer
<1>3. CASE RegistryCrash \/ RegistryStart \/ Tick
  BY <1>1, <1>3 DEF RegistryCrash, RegistryStart, Tick
<1>4. ASSUME NEW g \in Getters, AskRefresh(g)
      PROVE  Rotation'
  BY <1>1, <1>4 DEF AskRefresh
<1>5. ASSUME NEW g \in Getters, RegistryAnswers(g)
      PROVE  Rotation'
  <2>1. IsInjective(answer') /\ UNCHANGED <<servers, turns, index>>
    BY <1>t, <1>5, AnswerList DEF RegistryAnswers
  <2> QED BY <2>1 DEF Rotation
<1>6. ASSUME NEW g \in Getters, RefreshDone(g)
      PROVE  Rotation'
  <2>1. servers' = answer /\ answer' = <<>> /\ index' = index
        /\ turns' = IF answer = servers THEN turns ELSE <<>>
    BY <1>6 DEF RefreshDone
  <2>2. CASE answer = servers
    BY <1>0, <2>1, <2>2 DEF Rotation
  <2>3. CASE answer # servers
    <3>1. turns' = <<>> /\ Len(<<>>) = 0 /\ Len(servers') >= 0
      BY <1>t, <2>1, <2>3 DEF TypeOK
    <3> QED BY <1>0, <2>1, <3>1 DEF Rotation
  <2> QED BY <2>2, <2>3
<1>7. ASSUME NEW g \in Getters, RefreshFails(g)
      PROVE  Rotation'
  BY <1>0, <1>7 DEF Rotation, RefreshFails
<1>8. ASSUME NEW list \in HandLists, Update(list)
      PROVE  Rotation'
  <2>1. /\ servers' = list /\ answer' = answer /\ index' = index
        /\ turns' = IF list = servers THEN turns ELSE <<>>
        /\ IsInjective(list) /\ list \in Seq(Servers)
    BY <1>8, DiscoveryAssumption DEF Update
  <2>2. CASE list = servers
    BY <2>1, <2>2 DEF Rotation
  <2>3. CASE list # servers
    <3>1. turns' = <<>> /\ Len(<<>>) = 0 /\ Len(servers') >= 0
      BY <2>1, <2>3
    <3> QED BY <2>1, <3>1 DEF Rotation
  <2> QED BY <2>2, <2>3
<1>9. ASSUME NEW g \in Getters, Choose(g) \/ GetAll(g)
      PROVE  Rotation'
  <2>1. UNCHANGED <<servers, answer>> /\ (UNCHANGED <<index, turns>> \/ TakesTurn(g))
    BY <1>9 DEF Choose, GetAll, TakesTurn
  <2> QED BY <1>1, <2>1, TurnTaken
<1>10. CASE UNCHANGED vars
  BY <1>1, <1>10 DEF vars
<1> QED BY <1>2, <1>3, <1>4, <1>5, <1>6, <1>7, <1>8, <1>9, <1>10 DEF Next

\* With round robin, through refreshes by any getters that bring the same list,
\* no server has a second turn before every other one had its turn: provided that
\* the lists users set by hand have no server twice.  The registry's never do.
THEOREM FairTurns ==
    ASSUME \A list \in HandLists : IsInjective(list)
    PROVE  Spec => []TakesTurns
<1>1. Init => Rotation
  BY DEF Init, Rotation, IsInjective
<1>2. IInv /\ Rotation /\ [Next]_vars => Rotation'
  BY RotationStep
<1>3. IInv /\ Rotation => TakesTurns
  <2> SUFFICES ASSUME IInv, Rotation, NEW i \in DOMAIN turns, NEW j \in DOMAIN turns, i # j
               PROVE  turns[i] # turns[j]
    BY DEF TakesTurns
  <2> DEFINE n == Len(servers)
             m == Len(turns)
  <2>1. /\ m \in 0 .. n /\ n \in Nat /\ index \in Nat /\ servers \in Seq(Servers \cup {None})
        /\ i \in 1 .. m /\ j \in 1 .. m
    BY DEF IInv, TypeOK, Rotation
  <2>2. n \in Nat \ {0} /\ index \in 0 .. n - 1
    BY <2>1 DEF Rotation
  <2>3. m - i \in 0 .. n - 1 /\ m - j \in 0 .. n - 1 /\ m - i # m - j
    <3> HIDE DEF n, m
    <3> QED BY <2>1
  <2>4. /\ Spot(index, m - i, n) \in 1 .. n /\ Spot(index, m - j, n) \in 1 .. n
        /\ Spot(index, m - i, n) # Spot(index, m - j, n)
    <3> HIDE DEF n, m
    <3> QED BY <2>2, <2>3, SpotsDiffer
  <2>5. /\ turns[i] = servers[Spot(index, m - i, n)]
        /\ turns[j] = servers[Spot(index, m - j, n)]
    BY <2>1 DEF Rotation
  <2>6. DOMAIN servers = 1 .. n /\ IsInjective(servers)
    BY <2>1 DEF Rotation
  <2> HIDE DEF n, m
  <2> QED BY <2>4, <2>5, <2>6 DEF IsInjective
<1> QED BY <1>1, <1>2, <1>3, InvInit, InvStep, PTL DEF Spec
=============================================================================

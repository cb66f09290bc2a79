----------------------------- MODULE Discovery -----------------------------
(***************************************************************************)
(* geerpc/registry and geerpc/xclient/discovery*.go: RPC servers that send *)
(* heartbeats to a GeeRegistry, and goroutines that share one              *)
(* GeeRegistryDiscovery to choose a server.  Time is a counter; a due      *)
(* heartbeat is sent before the clock goes on.                             *)
(*                                                                         *)
(* grd.mu is held by a Refresh for its whole HTTP exchange with the        *)
(* registry; Get releases it after Refresh and takes it again to choose.   *)
(***************************************************************************)
EXTENDS Naturals, FiniteSets, Sequences

CONSTANTS N,            \* number of RPC servers; their addresses are 1 .. N
          Getters,      \* goroutines that call Get
          Nobody,       \* mutex free
          Crashing,     \* the servers whose process may end
          RegTimeout,   \* GeeRegistry.timeout
          Period,       \* the duration given to Heartbeat
          DiscTimeout,  \* GeeRegistryDiscovery.timeout
          MaxDelay,     \* bound on the time an answer of the registry travels
          MaxTime,      \* bound on the clock
          HandLists     \* the lists a user may pass to Update

Servers == 1 .. N
None == 0   \* the empty address

ASSUME DiscoveryAssumption ==
    /\ N \in Nat \ {0} /\ Crashing \subseteq Servers /\ Nobody \notin Getters
    /\ RegTimeout \in Nat /\ DiscTimeout \in Nat \ {0} /\ Period \in Nat \ {0}
    /\ RegTimeout = 0 \/ Period <= RegTimeout
    /\ MaxDelay \in Nat /\ MaxTime \in Nat /\ DiscTimeout <= MaxTime
    /\ HandLists \subseteq Seq(Servers) /\ \A list \in HandLists : Len(list) <= N

VARIABLES
    now,        \* the clock
    regUp,      \* the registry's process is running
    regSince,   \* when it was started last
    start,      \* GeeRegistry.servers: the heartbeat time of each known server
    hb,         \* the goroutine of each server's Heartbeat
    beat,       \* when the last heartbeat of each server arrived
    servers,    \* MultiServersDiscovery.servers
    index,      \* MultiServersDiscovery.index
    lastUpdate, \* GeeRegistryDiscovery.lastUpdate, 0 before the first one
    dmu,        \* the getter holding grd.mu across Refresh's HTTP exchange
    gpc,        \* where each getter is
    asked,      \* when its Refresh was satisfied with the list
    answer,     \* the header value on its way from the registry ...
    answeredAt, \* ... and when it was sent
    byHand,     \* the list comes from Update
    turns       \* history: latest round-robin choices from an unchanged list

regVars == <<regUp, regSince, start>>
hbVars == <<hb, beat>>
listVars == <<servers, index, lastUpdate, byHand>>
getVars == <<dmu, gpc, asked, answer, answeredAt>>
vars == <<now, regVars, hbVars, listVars, getVars, turns>>

\* NewMultiServersDiscovery: round robin starts anywhere.  Of the random index only
\* its remainder is ever used.
AnyIndex == 0 .. N

Init ==
    /\ now = DiscTimeout     \* so that 0 is long ago
    /\ regUp = TRUE /\ regSince = 0 /\ start = [s \in {} |-> 0]
    /\ hb = [s \in Servers |-> "off"]
    /\ beat = [s \in Servers |-> 0]
    /\ servers = <<>> /\ index \in AnyIndex /\ lastUpdate = 0 /\ byHand = FALSE
    /\ dmu = Nobody /\ gpc = [g \in Getters |-> "idle"]
    /\ asked = [g \in Getters |-> 0]
    /\ answer = <<>> /\ answeredAt = 0
    /\ turns = <<>>

-----------------------------------------------------------------------------
(* GeeRegistry. *)

\* putServer: an entry is made or renewed.
PutServer(s) ==
    start' = [t \in DOMAIN start \cup {s} |-> IF t = s THEN now ELSE start[t]]

\* Mutant: a server expires when its timeout is just reached.
AliveTooShort == {s \in DOMAIN start : RegTimeout = 0 \/ now < start[s] + RegTimeout}

\* aliveServers: those whose last heartbeat is no older than the timeout.
Alive == {s \in DOMAIN start : RegTimeout = 0 \/ now <= start[s] + RegTimeout}

\* sort.Strings, on addresses.
Sorted(S) == CHOOSE q \in [1 .. Cardinality(S) -> S] :
                \A i, j \in 1 .. Cardinality(S) : i < j => q[i] < q[j]

\* The registry's process ends (once, as a bound) and is started again with an
\* empty map.
RegistryCrash ==
    /\ regUp /\ regSince = 0
    /\ regUp' = FALSE
    /\ start' = [s \in {} |-> 0]
    /\ UNCHANGED <<now, regSince, hbVars, listVars, getVars, turns>>

RegistryStart ==
    /\ ~regUp
    /\ regUp' = TRUE /\ regSince' = now
    /\ UNCHANGED <<now, start, hbVars, listVars, getVars, turns>>

-----------------------------------------------------------------------------
(* Heartbeat, in the process of server s. *)

\* sendHeartbeat: the POST arrives, or fails and ends the goroutine for good.
SendHeartbeat(s) ==
    \/ /\ regUp
       /\ PutServer(s)
       /\ beat' = [beat EXCEPT ![s] = now]
       /\ hb' = [hb EXCEPT ![s] = "beating"]
    \/ /\ hb' = [hb EXCEPT ![s] = "stopped"]
       /\ UNCHANGED <<start, beat>>

\* Mutant: every other tick is missed.
DueLate(s) == hb[s] = "beating" /\ now >= beat[s] + 2 * Period

\* The ticker of the loop has fired.
Due(s) == hb[s] = "beating" /\ now >= beat[s] + Period

Beat(s) ==
    /\ Due(s)
    /\ SendHeartbeat(s)
    /\ UNCHANGED <<now, regUp, regSince, listVars, getVars, turns>>

\* Heartbeat is called: a first heartbeat, and the loop if that succeeded.
StartServer(s) ==
    /\ hb[s] = "off"
    /\ SendHeartbeat(s)
    /\ UNCHANGED <<now, regUp, regSince, listVars, getVars, turns>>

CrashServer(s) ==
    /\ s \in Crashing
    /\ hb[s] # "off"
    /\ hb' = [hb EXCEPT ![s] = "off"]
    /\ UNCHANGED <<now, regVars, beat, listVars, getVars, turns>>

-----------------------------------------------------------------------------
(* GeeRegistryDiscovery. *)

\* Mutant: the list is used for one more unit of time.
FreshTooLong == lastUpdate + DiscTimeout >= now

\* lastUpdate.Add(timeout).After(time.Now())
Fresh == lastUpdate + DiscTimeout > now

\* Refresh at the start of Get: the list is still good, or grd.mu is kept for
\* the request to the registry.
AskRefresh(g) ==
    /\ gpc[g] = "idle" /\ dmu = Nobody
    /\ \/ /\ Fresh
          /\ gpc' = [gpc EXCEPT ![g] = "choose"]
          /\ asked' = [asked EXCEPT ![g] = now]
          /\ UNCHANGED dmu
       \/ /\ ~Fresh
          /\ gpc' = [gpc EXCEPT ![g] = "http"]
          /\ dmu' = g
          /\ UNCHANGED asked
    /\ UNCHANGED <<now, regVars, hbVars, listVars, answer, answeredAt, turns>>

\* Mutant: expired servers are deleted and still sent once more.
RegistryAnswersAll(g) ==
    /\ gpc[g] = "http" /\ regUp
    /\ start' = [s \in Alive |-> start[s]]
    /\ answer' = IF start = << >> THEN <<None>>
                 ELSE Sorted(DOMAIN start)
    /\ answeredAt' = now
    /\ gpc' = [gpc EXCEPT ![g] = "answered"]
    /\ UNCHANGED <<now, regUp, regSince, hbVars, listVars, dmu, asked, turns>>

\* The registry serves the GET: expired servers are deleted, the others sent in
\* sorted order.  No server gives an empty header, which strings.Split turns
\* into one empty address.
RegistryAnswers(g) ==
    /\ gpc[g] = "http" /\ regUp
    /\ start' = [s \in Alive |-> start[s]]
    /\ answer' = IF Alive = {} THEN <<None>> ELSE Sorted(Alive)
    /\ answeredAt' = now
    /\ gpc' = [gpc EXCEPT ![g] = "answered"]
    /\ UNCHANGED <<now, regUp, regSince, hbVars, listVars, dmu, asked, turns>>

\* Mutant: Refresh starts the rotation anew.
RefreshResets(g) ==
    /\ gpc[g] = "answered"
    /\ servers' = answer /\ lastUpdate' = now /\ byHand' = FALSE
    /\ turns' = IF answer = servers THEN turns ELSE <<>>
    /\ dmu' = Nobody
    /\ gpc' = [gpc EXCEPT ![g] = "choose"]
    /\ asked' = [asked EXCEPT ![g] = now]
    /\ answer' = <<>> /\ answeredAt' = 0
    /\ index' = 0
    /\ UNCHANGED <<now, regVars, hbVars>>

\* The answer has arrived: Refresh stores it, and returns.
RefreshDone(g) ==
    /\ gpc[g] = "answered"
    /\ servers' = answer /\ lastUpdate' = now /\ byHand' = FALSE
    /\ turns' = IF answer = servers THEN turns ELSE <<>>
    /\ dmu' = Nobody
    /\ gpc' = [gpc EXCEPT ![g] = "choose"]
    /\ asked' = [asked EXCEPT ![g] = now]
    /\ answer' = <<>> /\ answeredAt' = 0
    /\ UNCHANGED <<now, regVars, hbVars, index>>

\* The exchange fails: Get returns the error although a list is there.
RefreshFails(g) ==
    /\ gpc[g] \in {"http", "answered"}
    /\ dmu' = Nobody
    /\ gpc' = [gpc EXCEPT ![g] = "idle"]
    /\ answer' = <<>> /\ answeredAt' = 0
    /\ UNCHANGED <<now, regVars, hbVars, listVars, asked, turns>>

\* GeeRegistryDiscovery.Update, by a user of the package.
Update(list) ==
    /\ dmu = Nobody
    /\ servers' = list /\ lastUpdate' = now /\ byHand' = TRUE
    /\ turns' = IF list = servers THEN turns ELSE <<>>
    /\ UNCHANGED <<now, regVars, hbVars, index, getVars>>

\* MultiServersDiscovery.Get.
Choose(g) ==
    /\ gpc[g] = "choose" /\ dmu = Nobody
    /\ gpc' = [gpc EXCEPT ![g] = "idle"]
    /\ asked' = [asked EXCEPT ![g] = 0]
    /\ \/ /\ servers = <<>>     \* "no servers"
          /\ UNCHANGED <<index, turns>>
       \/ /\ servers # <<>>     \* RandomMode: any element, index stays
          /\ UNCHANGED <<index, turns>>
       \/ LET mod == Len(servers) IN     \* RoundRobinMode
          /\ mod > 0
          /\ turns' = LET all == Append(turns, servers[(index % mod) + 1])
                      IN SubSeq(all, IF Len(all) > mod THEN 2 ELSE 1, Len(all))
          /\ index' = (index + 1) % mod
    /\ UNCHANGED <<now, regVars, hbVars, servers, lastUpdate, byHand, dmu,
                   answer, answeredAt>>

\* GetAll, after the same Refresh: a copy of the list, and no turn is taken.
GetAll(g) ==
    /\ gpc[g] = "choose" /\ dmu = Nobody
    /\ gpc' = [gpc EXCEPT ![g] = "idle"]
    /\ asked' = [asked EXCEPT ![g] = 0]
    /\ UNCHANGED <<now, regVars, hbVars, listVars, dmu, answer, answeredAt, turns>>

-----------------------------------------------------------------------------
\* Time passes: no heartbeat that is due and no answer is left behind.
Tick ==
    /\ now < MaxTime
    /\ \A s \in Servers : ~Due(s)
    /\ \A g \in Getters : gpc[g] = "answered" => now < answeredAt + MaxDelay
    /\ now' = now + 1
    /\ UNCHANGED <<regVars, hbVars, listVars, getVars, turns>>

Next ==
    \/ \E s \in Servers : StartServer(s) \/ Beat(s) \/ CrashServer(s)
    \/ \E g \in Getters : AskRefresh(g) \/ RegistryAnswers(g) \/ RefreshDone(g)
                          \/ RefreshFails(g) \/ Choose(g) \/ GetAll(g)
    \/ \E list \in HandLists : Update(list)
    \/ RegistryCrash \/ RegistryStart \/ Tick

Spec == Init /\ [][Next]_vars

-----------------------------------------------------------------------------
(* Properties. *)

\* Every variable keeps to its type.
TypeOK ==
    /\ now \in 0 .. MaxTime /\ regUp \in BOOLEAN /\ regSince \in 0 .. MaxTime
    /\ DOMAIN start \subseteq Servers /\ \A s \in DOMAIN start : start[s] \in 0 .. now
    /\ hb \in [Servers -> {"off", "beating", "stopped"}]
    /\ beat \in [Servers -> 0 .. now]
    /\ servers \in Seq(Servers \cup {None}) /\ index \in 0 .. N
    /\ lastUpdate \in 0 .. now /\ byHand \in BOOLEAN
    /\ dmu \in Getters \cup {Nobody}
    /\ gpc \in [Getters -> {"idle", "http", "answered", "choose"}]
    /\ asked \in [Getters -> 0 .. now]
    /\ answer \in Seq(Servers \cup {None}) /\ answeredAt \in 0 .. now
    /\ turns \in Seq(Servers \cup {None})

\* A server that keeps sending heartbeats is never missing from an answer of
\* the registry, although every GET deletes what has expired; after a restart
\* of the registry it is back within one period.
StaysListed ==
    \A s \in Servers :
        hb[s] = "beating" /\ regUp /\ (regSince > 0 => now > regSince + Period)
            => s \in Alive

\* The two timeouts add up, and no more than that: when a getter is about to
\* choose, every server of the list has sent a heartbeat less than RegTimeout +
\* DiscTimeout before its Refresh was satisfied, plus the time the answer of the
\* registry may have taken to arrive.
ChosenIsRecent ==
    RegTimeout > 0 /\ ~byHand =>
        \A g \in Getters, i \in DOMAIN servers :
            gpc[g] = "choose" /\ servers[i] # None =>
                asked[g] < beat[servers[i]] + RegTimeout + DiscTimeout + MaxDelay

\* Round robin goes on through refreshes: as long as the list is the same, no
\* server is chosen again before every other one had its turn.
TakesTurns ==
    \A i, j \in DOMAIN turns : i # j => turns[i] # turns[j]
=============================================================================

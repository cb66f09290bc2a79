------------------------------ MODULE GeeCache ------------------------------
(***************************************************************************)
(* geecache: one Group on a cluster of nodes, each with its cache, its     *)
(* HTTPPool and its SingleCall.  A Get that reaches a node is a frame; one *)
(* that is forwarded puts a frame of the peer's handler on top, so that    *)
(* stack[c] is the chain of nodes that work for caller c.                  *)
(*                                                                         *)
(* HTTPPool.Set may be called again while Gets are under way, on one node  *)
(* at a time: meanwhile the pools disagree about the owner of a key.       *)
(***************************************************************************)
EXTENDS Lru, ConsistentHash

CONSTANTS Nodes,      \* nodes of the cluster, by their URL
          Keys,       \* keys of the group
          Callers,    \* users' goroutines that call Get; one may turn into a handler
                      \* whose connection has broken
          Nobody,     \* no caller
          Pending,    \* no value yet
          Error,      \* the zero ByteView and an error
          Changing,   \* keys whose data, behind the getter, may change
          Failing,    \* keys the getter may fail to find
          MaxVersion, \* bound on the number of times it does
          Hash,       \* the hash function of every pool's ring
          InitLists,  \* the lists HTTPPool.Set is given first ...
          NextLists,  \* ... and later on
          MaxSets     \* bound on the later calls

Values == Keys \X (0 .. MaxVersion)

ASSUME GeeCacheAssumption ==
    /\ Changing \subseteq Keys /\ Failing \subseteq Keys
    /\ Nobody \notin Callers /\ {Pending, Error} \cap Values = {} /\ Pending # Error
    /\ MaxVersion \in Nat /\ MaxSets \in Nat
    /\ MaxBytes \in Nat /\ SizeOf \in [Values -> Nat \ {0}]
    /\ \A k \in Keys : Hash[k] \in Nat
    /\ \A i \in 0 .. Replicas - 1, n \in Nodes : Hash[<<i, n>>] \in Nat
    /\ InitLists \cup NextLists \subseteq Seq(Nodes) \ {<<>>}

VARIABLES
    db,      \* the version of each key behind the group's getter
    peers,   \* the list each node's ring has been made from, <<>> for a new ring
    adding,  \* the list HTTPPool.Set is about to add to a new ring, or <<>>
    sets,    \* number of later calls of Set
    split,   \* history: two rings, of one time or not, have disagreed about an owner
    cache,   \* Group.mainCache of each node
    flight,  \* SingleCall.m of each node: who runs fn, and c.val
    stack    \* the frames that work for each caller, the active one last

ringVars == <<peers, adding, sets, split>>
vars == <<db, ringVars, cache, flight, stack>>

\* The owner of each key on the ring made from each list.
Rings == [list \in InitLists \cup NextLists |->
             [k \in Keys |-> RingGet(Hash, list, k)]]

NoFlight == [by |-> Nobody, val |-> Pending]

\* The list a node's ring has been, or is being, made from.
Listed(n) == IF adding[n] = <<>> THEN peers[n] ELSE adding[n]

\* A frame at a node: the key, where its Group.Get is, the peer PickPeer gave,
\* the value.
Frame(n, k) == [at |-> n, key |-> k, pc |-> "get", peer |-> n, val |-> Pending]

Top(c) == Last(stack[c])
At(c, pc) == stack[c] # <<>> /\ Top(c).pc = pc
Here(c) == Top(c).at
Key(c) == Top(c).key

Init ==
    /\ db = [k \in Keys |-> 0]
    /\ peers \in [Nodes -> InitLists]
    /\ adding = [n \in Nodes |-> <<>>]
    /\ sets = 0
    /\ split = \E m, n \in Nodes : Rings[peers[m]] # Rings[peers[n]]
    /\ cache = [n \in Nodes |-> New]
    /\ flight = [n \in Nodes |-> [k \in Keys |-> NoFlight]]
    /\ stack = [c \in Callers |-> <<>>]

-----------------------------------------------------------------------------
\* The active frame of c goes on to pc.
Goto(c, pc) ==
    stack' = [stack EXCEPT ![c] = Append(Front(@), [Last(@) EXCEPT !.pc = pc])]

\* Its Group.Get is about to return val.
Done(c, val) ==
    stack' = [stack EXCEPT ![c] =
                  Append(Front(@), [Last(@) EXCEPT !.pc = "done", !.val = val])]

\* A user calls Get on node n.
Ask(c, n, k) ==
    /\ stack[c] = <<>>
    /\ stack' = [stack EXCEPT ![c] = <<Frame(n, k)>>]
    /\ UNCHANGED <<db, ringVars, cache, flight>>

\* mainCache.get: a hit is returned and becomes the most recently used entry.
LookUp(c) ==
    /\ At(c, "get")
    /\ \/ /\ Has(cache[Here(c)], Key(c))
          /\ cache' = [cache EXCEPT ![Here(c)] = Touch(@, Key(c))]
          /\ Done(c, ValueAt(cache[Here(c)], Key(c)))
       \/ /\ ~Has(cache[Here(c)], Key(c))
          /\ Goto(c, "load")
          /\ UNCHANGED cache
    /\ UNCHANGED <<db, ringVars, flight>>

\* Mutant: a node's own address is not told from a peer's.
PickPeerEvenSelf(c) ==
    /\ At(c, "load") /\ adding[Here(c)] = <<>>
    /\ stack' = [stack EXCEPT ![c] =
           Append(Front(@), [Last(@) EXCEPT !.pc = "do",
                                !.peer = Rings[peers[Here(c)]][Key(c)]])]
    /\ UNCHANGED <<db, ringVars, cache, flight>>

\* load: PickPeer, under the pool's mutex, for this call only.
PickPeer(c) ==
    /\ At(c, "load") /\ adding[Here(c)] = <<>>
    /\ LET owner == Rings[peers[Here(c)]][Key(c)] IN
           stack' = [stack EXCEPT ![c] =
               Append(Front(@), [Last(@) EXCEPT
                                    !.pc = IF owner = Here(c) THEN "fetch" ELSE "do",
                                    !.peer = owner])]
    /\ UNCHANGED <<db, ringVars, cache, flight>>

\* getLocally, the user's getter: it returns the data as it is by then, or fails.
Fetch(c) ==
    /\ At(c, "fetch")
    /\ \/ Key(c) \in Failing /\ Done(c, Error)
       \/ stack' = [stack EXCEPT ![c] =
              Append(Front(@), [Last(@) EXCEPT !.pc = "add",
                                               !.val = <<Key(c), db[Key(c)]>>])]
    /\ UNCHANGED <<db, ringVars, cache, flight>>

\* getLocally, mainCache.add: other loads of the key may have gone between.
AddLocally(c) ==
    /\ At(c, "add")
    /\ cache' = [cache EXCEPT ![Here(c)] = Add(@, Top(c).val)]
    /\ Done(c, Top(c).val)
    /\ UNCHANGED <<db, ringVars, flight>>

\* Mutant: any flight of the node is joined.
JoinAny(c) ==
    /\ At(c, "do")
    /\ \E k \in Keys :
          /\ flight[Here(c)][k] # NoFlight
          /\ IF flight[Here(c)][k].val = Pending THEN Goto(c, "wait")
             ELSE Done(c, flight[Here(c)][k].val)
    /\ UNCHANGED <<db, ringVars, cache, flight>>

\* SingleCall.Do: the key's flight is joined, whoever leads it.
Join(c) ==
    /\ At(c, "do") /\ flight[Here(c)][Key(c)] # NoFlight
    /\ LET val == flight[Here(c)][Key(c)].val IN
           IF val = Pending THEN Goto(c, "wait") ELSE Done(c, val)
    /\ UNCHANGED <<db, ringVars, cache, flight>>

\* SingleCall.Do: a new flight, whose fn sends the request to the peer picked
\* before.  http.Get has no timeout.
Lead(c) ==
    /\ At(c, "do") /\ flight[Here(c)][Key(c)] = NoFlight
    /\ peers[Here(c)] # <<>>
    /\ flight' = [flight EXCEPT ![Here(c)][Key(c)].by = c]
    /\ stack' = [stack EXCEPT ![c] =
           Append(Append(Front(@), [Last(@) EXCEPT !.pc = "http"]), Frame(Top(c).peer, Key(c)))]
    /\ UNCHANGED <<db, ringVars, cache>>

\* First fn logs the owner's name, without the pool's mutex.  A ring that Set has
\* not filled yet divides by zero; the HTTP server that runs the Get recovers
\* from the panic and breaks its connection.  The flight stays in m.
LeadPanics(c) ==
    /\ At(c, "do") /\ flight[Here(c)][Key(c)] = NoFlight
    /\ peers[Here(c)] = <<>>
    /\ flight' = [flight EXCEPT ![Here(c)][Key(c)].by = c]
    /\ IF Len(stack[c]) = 1 THEN stack' = [stack EXCEPT ![c] = <<>>] ELSE Done(c, Error)
    /\ UNCHANGED <<db, ringVars, cache>>

\* What httpGetter.Get makes of the handler's answer: an error status or a broken
\* exchange is an error, and so is a request that no handler has taken.
Answered(c) == Len(stack[c]) > 1 /\ (At(c, "done") \/ At(c, "get"))
Received(c) == {Top(c).val, Error} \ {Pending}

\* Mutant: those who wait are not woken.
AnswerWakesNone(c) ==
    /\ Answered(c)
    /\ \E val \in Received(c) :
          LET n == stack[c][Len(stack[c]) - 1].at IN
          /\ flight' = [flight EXCEPT ![n][Key(c)].val = val]
          /\ stack' = [stack EXCEPT ![c] = Append(Front(Front(@)),
                         [Last(Front(@)) EXCEPT !.pc = "landed", !.val = val])]
    /\ UNCHANGED <<db, ringVars, cache>>

\* wg.Done: the frames, when they wait for the flight of key k at node n, have
\* its value.
Woken(frames, n, k, val) ==
    IF frames # <<>> /\ Last(frames).pc = "wait" /\ Last(frames).at = n /\ Last(frames).key = k
    THEN Append(Front(frames), [Last(frames) EXCEPT !.pc = "done", !.val = val])
    ELSE frames

\* The peer's handler answers, or the request was refused, and getFromPeer returns;
\* c.val is set and wg.Done wakes those who wait.
Answer(c) ==
    /\ Answered(c)
    /\ \E val \in Received(c) :
          LET n == stack[c][Len(stack[c]) - 1].at IN
          /\ flight' = [flight EXCEPT ![n][Key(c)].val = val]
          /\ stack' = [d \in Callers |->
                 IF d = c THEN Append(Front(Front(stack[c])),
                     [Last(Front(stack[c])) EXCEPT !.pc = "landed", !.val = val])
                 ELSE Woken(stack[d], n, Key(c), val)]
    /\ UNCHANGED <<db, ringVars, cache>>

\* The connection to a peer breaks, and getFromPeer returns the error.  The peer's
\* handler does not know and goes on, with the flights it leads: its frames are now
\* those of a goroutine that was idle.
Break(c, d) ==
    /\ stack[d] = <<>>
    /\ \E i \in DOMAIN stack[c] :
          LET f == stack[c][i]
              cut == [stack EXCEPT
                         ![c] = Append(SubSeq(@, 1, i - 1), [f EXCEPT !.pc = "landed", !.val = Error]),
                         ![d] = SubSeq(stack[c], i + 1, Len(stack[c]))]
              Above(n, k) == \E j \in i + 1 .. Len(stack[c]) :
                                 stack[c][j].pc = "http" /\ stack[c][j].at = n /\ stack[c][j].key = k
          IN /\ f.pc = "http"
             /\ stack' = [e \in Callers |-> Woken(cut[e], f.at, f.key, Error)]
             /\ flight' = [n \in Nodes |-> [k \in Keys |->
                    [by |-> IF Above(n, k) THEN d ELSE flight[n][k].by,
                     val |-> IF n = f.at /\ k = f.key THEN Error ELSE flight[n][k].val]]]
    /\ UNCHANGED <<db, ringVars, cache>>

\* The end of Do: the flight is deleted, and what came from a peer not cached.
Forget(c) ==
    /\ At(c, "landed")
    /\ flight' = [flight EXCEPT ![Here(c)][Key(c)] = NoFlight]
    /\ Goto(c, "done")
    /\ UNCHANGED <<db, ringVars, cache>>

\* The user's Get returns.
Return(c) ==
    /\ At(c, "done") /\ Len(stack[c]) = 1
    /\ stack' = [stack EXCEPT ![c] = <<>>]
    /\ UNCHANGED <<db, ringVars, cache, flight>>

-----------------------------------------------------------------------------
\* The data behind the getter changes.
Change(k) ==
    /\ db[k] < MaxVersion
    /\ db' = [db EXCEPT ![k] = @ + 1]
    /\ UNCHANGED <<ringVars, cache, flight, stack>>

\* HTTPPool.Set on node n makes a new ring, empty at first, ...
SetNew(n, list) ==
    /\ sets < MaxSets /\ adding[n] = <<>> /\ list # peers[n]
    /\ sets' = sets + 1
    /\ peers' = [peers EXCEPT ![n] = <<>>]
    /\ adding' = [adding EXCEPT ![n] = list]
    /\ split' = (split \/ \E m \in Nodes : Rings[list] # Rings[Listed(m)])
    /\ UNCHANGED <<db, cache, flight, stack>>

\* ... and adds the nodes, still under the mutex.  What is cached stays cached.
SetAdd(n) ==
    /\ adding[n] # <<>>
    /\ peers' = [peers EXCEPT ![n] = adding[n]]
    /\ adding' = [adding EXCEPT ![n] = <<>>]
    /\ UNCHANGED <<db, sets, split, cache, flight, stack>>

\* One step of the goroutines that work for c.
Work(c) ==
    \/ LookUp(c) \/ PickPeer(c) \/ Fetch(c) \/ AddLocally(c) \/ Join(c) \/ Lead(c)
    \/ LeadPanics(c) \/ Answer(c) \/ Forget(c) \/ Return(c)

Next ==
    \/ \E c \in Callers : Work(c)
    \/ \E c \in Callers, n \in Nodes, k \in Keys : Ask(c, n, k)
    \/ \E c, d \in Callers : Break(c, d)
    \/ \E k \in Changing : Change(k)
    \/ \E n \in Nodes : SetAdd(n) \/ \E list \in NextLists : SetNew(n, list)

Spec == Init /\ [][Next]_vars

\* Goroutines are scheduled, getters return and peers that take a request answer
\* it or break the connection.
FairSpec == Spec /\ \A c \in Callers : WF_vars(Work(c))
                 /\ \A n \in Nodes : WF_vars(SetAdd(n))

-----------------------------------------------------------------------------
(* Properties. *)

\* Every variable keeps to its type; a Get that is over has a value or an error.
TypeOK ==
    /\ db \in [Keys -> 0 .. MaxVersion]
    /\ peers \in [Nodes -> InitLists \cup NextLists \cup {<<>>}]
    /\ adding \in [Nodes -> NextLists \cup {<<>>}]
    /\ sets \in 0 .. MaxSets /\ split \in BOOLEAN
    /\ \A n \in Nodes : cache[n].ll \in Seq(Values) /\ cache[n].nBytes \in Int
    /\ flight \in [Nodes -> [Keys -> [by : Callers \cup {Nobody},
                                      val : Values \cup {Pending, Error}]]]
    /\ \A c \in Callers : \A i \in DOMAIN stack[c] :
          /\ stack[c][i].at \in Nodes /\ stack[c][i].key \in Keys /\ stack[c][i].peer \in Nodes
          /\ stack[c][i].pc \in {"get", "load", "fetch", "add", "do", "wait", "http",
                                 "landed", "done"}
          /\ stack[c][i].val \in
                 IF stack[c][i].pc = "done" THEN Values \cup {Error}
                 ELSE Values \cup {Pending, Error}

\* Whatever was added, replaced by another load, touched and evicted, nBytes is
\* what the entries take.
ByteCount ==
    \A n \in Nodes :
        cache[n].nBytes = FoldSeq(LAMBDA val, sum : SizeOf[val] + sum, 0, cache[n].ll)

\* A Get returns a value of the key it was given, through whatever flights and
\* nodes it came.
RightValue ==
    /\ \A c \in Callers : \A i \in DOMAIN stack[c] :
          stack[c][i].val \in Values => KeyOf(stack[c][i].val) = stack[c][i].key
    /\ \A n \in Nodes, k \in Keys :
          flight[n][k].val \in Values => KeyOf(flight[n][k].val) = k

\* d runs fn for key k at node n.
Leads(d, n, k) == \E i \in DOMAIN stack[d] :
    stack[d][i].pc = "http" /\ stack[d][i].at = n /\ stack[d][i].key = k

\* c waits for a flight that d leads.
WaitsFor(c, d) ==
    /\ At(c, "wait") /\ flight[Here(c)][Key(c)].by = d
    /\ Leads(d, Here(c), Key(c))

\* c is one of some callers that wait for each other, or for itself.
Deadlocked(c) ==
    \E some \in SUBSET Callers :
        c \in some /\ \A d \in some : \E e \in some : WaitsFor(d, e)

\* Callers wait for each other for ever only after two pools have disagreed: one
\* node's flight for a key then asks a peer that asks this node, which joins that
\* flight.  The pools need not disagree at one time: calls under way may go by
\* rings that have been replaced.
DeadlockNeedsSplit == (\E c \in Callers : Deadlocked(c)) => split

\* c waits for a flight whose fn has panicked: it is still in m.
WaitsForPanicked(c) ==
    /\ At(c, "wait")
    /\ LET f == flight[Here(c)][Key(c)] IN
           f.by # Nobody /\ f.val = Pending /\ ~Leads(f.by, Here(c), Key(c))

\* c waits, through other callers or not, for such a flight or for itself.
Stranded(c) == \E some \in SUBSET Callers :
    /\ c \in some
    /\ \A d \in some : WaitsForPanicked(d) \/ \E e \in some : WaitsFor(d, e)

\* Every Get returns that is not one of a cycle of flights and does not end up
\* at a flight that has panicked; no slow, failing or evicting node stops it.
EveryGetReturns ==
    \A c \in Callers : (stack[c] # <<>>) ~> (stack[c] = <<>> \/ Stranded(c))
=============================================================================

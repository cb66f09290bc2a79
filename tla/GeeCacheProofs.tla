--------------------------- MODULE GeeCacheProofs ---------------------------
(***************************************************************************)
(* GeeCache for any nodes, keys, callers, hash functions and pools: it is  *)
(* type correct, a Get has a value of its own key, callers wait for each   *)
(* other only after two rings have disagreed, and a cache's counter is the *)
(* size of its entries.  ConsistentHash keeps its promises about nodes     *)
(* that are added.  At the end, the same for SingleFlight: one flight of a *)
(* key at a time, shared by those it overlaps only.                        *)
(***************************************************************************)
EXTENDS GeeCache, SingleFlight, SequenceTheorems, FiniteSetTheorems, WellFoundedInduction, TLAPS

-----------------------------------------------------------------------------
(* The ring. *)

\* A nonempty set of numbers has a least one, ...
LEMMA LeastOf ==
    ASSUME NEW T \in SUBSET Nat, T # {}
    PROVE  \E x \in T : \A y \in T : x <= y
<1> DEFINE R == OpToRel(<, Nat)
<1>1. IsWellFoundedOn(R, Nat)
  BY NatLessThanWellFounded
<1>2. \A y, x \in Nat : y < x => <<y, x>> \in R
  BY DEF OpToRel
<1> HIDE DEF R
<1>3. PICK x \in T : \A y \in T : ~(<<y, x>> \in R)
  BY <1>1, WFMin, Zenon
<1>4. \A y \in T : ~(y < x)
  <2> TAKE y \in T
  <2>1. y \in Nat /\ x \in Nat
    OBVIOUS
  <2> QED BY <1>2, <1>3, <2>1, Zenon
<1>5. \A y, z \in Nat : ~(y < z) => z <= y
  OBVIOUS
<1> QED BY <1>4, <1>5, Zenon

\* ... and, if it is bounded, a greatest one.
LEMMA GreatestOf ==
    ASSUME NEW n \in Nat, NEW T \in SUBSET (1 .. n), T # {}
    PROVE  \E x \in T : \A y \in T : y <= x
<1> DEFINE U == {u \in Nat : n - u \in T}
<1>1. U \in SUBSET Nat /\ U # {}
  <2>1. PICK x \in T : x \in 1 .. n
    OBVIOUS
  <2>2. n - x \in Nat /\ n - (n - x) = x
    BY <2>1
  <2> QED BY <2>2
<1>2. PICK u \in U : \A v \in U : u <= v
  <2> HIDE DEF U
  <2> QED BY <1>1, LeastOf
<1>3. ASSUME NEW y \in T
      PROVE  y <= n - u
  <2>1. y \in 1 .. n /\ n - y \in Nat /\ n - (n - y) = y
    OBVIOUS
  <2>2. n - y \in U
    BY <2>1
  <2>3. u <= n - y
    BY <1>2, <2>2
  <2> QED BY <2>1, <2>3
<1> QED BY <1>3

LEMMA PositionsAre ==
    ASSUME NEW hash, NEW list, NEW p
    PROVE  p \in Positions(hash, list) <=>
              \E i \in 0 .. Replicas - 1 : \E j \in DOMAIN list : p = hash[<<i, list[j]>>]
BY DEF Positions

\* A virtual node of list[j] is at p; p is the position that answers for h.
Hits(list, j, p) == \E i \in 0 .. Replicas - 1 : Hash[<<i, list[j]>>] = p
Answers(all, h, p) ==
    /\ p \in all
    /\ \/ p >= h /\ \A q \in all : q >= h => p <= q
       \/ \A q \in all : q < h /\ p <= q

\* The positions of a list are numbers, and there are some.
LEMMA PositionsType ==
    ASSUME NEW list \in Seq(Nodes) \ {<<>>}
    PROVE  Positions(Hash, list) \in SUBSET Nat /\ Positions(Hash, list) # {}
<1> DEFINE all == Positions(Hash, list)
<1>1. \A j \in DOMAIN list : list[j] \in Nodes
  OBVIOUS
<1>2. 1 \in DOMAIN list /\ 0 \in 0 .. Replicas - 1
  BY ReplicasAssumption
<1>3. Hash[<<0, list[1]>>] \in all
  BY <1>2, PositionsAre, Zenon
<1>4. ASSUME NEW i \in 0 .. Replicas - 1, NEW j \in DOMAIN list
      PROVE  Hash[<<i, list[j]>>] \in Nat
  BY <1>1, GeeCacheAssumption, Zenon
<1>5. ASSUME NEW p \in all
      PROVE  p \in Nat
  <2>1. PICK i \in 0 .. Replicas - 1, j \in DOMAIN list : p = Hash[<<i, list[j]>>]
    BY PositionsAre
  <2> QED BY <1>4, <2>1
<1> QED BY <1>3, <1>5, Zenon

\* One position answers for a hash.
LEMMA OneAnswers ==
    ASSUME NEW all \in SUBSET Nat, NEW h \in Nat, NEW p, NEW q,
           Answers(all, h, p), Answers(all, h, q)
    PROVE  p = q
<1>1. p \in Nat /\ q \in Nat /\ p \in all /\ q \in all
  BY DEF Answers
<1>2. p <= q /\ q <= p
  BY <1>1 DEF Answers
<1> QED BY <1>1, <1>2

\* The owner of a key is the last node added at the position that answers.
LEMMA OwnerIs ==
    ASSUME NEW list \in Seq(Nodes) \ {<<>>}, NEW k \in Keys
    PROVE  \E p \in Nat, j \in DOMAIN list :
              /\ Answers(Positions(Hash, list), Hash[k], p)
              /\ Hits(list, j, p)
              /\ \A l \in DOMAIN list : Hits(list, l, p) => l <= j
              /\ RingGet(Hash, list, k) = list[j]
<1> DEFINE all == Positions(Hash, list)
           after == {p \in all : p >= Hash[k]}
           from == IF after = {} THEN all ELSE after
           p0 == CHOOSE p \in from : \A q \in from : p <= q
           here == {j \in DOMAIN list : \E i \in 0 .. Replicas - 1 : Hash[<<i, list[j]>>] = p0}
           j0 == CHOOSE j \in here : \A l \in here : l <= j
<1>1. all \in SUBSET Nat /\ all # {} /\ Hash[k] \in Nat
  BY PositionsType, GeeCacheAssumption
<1>2. from \in SUBSET Nat /\ from # {} /\ from \subseteq all
  BY <1>1
<1>3. p0 \in from /\ \A q \in from : p0 <= q
  <2> HIDE DEF from
  <2>1. \E p \in from : \A q \in from : p <= q
    BY <1>2, LeastOf
  <2> QED BY <2>1
<1>4. Answers(all, Hash[k], p0) /\ p0 \in Nat
  <2> HIDE DEF all, p0
  <2> QED BY <1>1, <1>2, <1>3 DEF Answers
<1>5. here # {}
  <2> HIDE DEF p0, from
  <2>1. p0 \in all
    BY <1>2, <1>3
  <2>2. PICK i \in 0 .. Replicas - 1, j \in DOMAIN list : p0 = Hash[<<i, list[j]>>]
    BY <2>1, PositionsAre
  <2>3. j \in here
    BY <2>2, Zenon
  <2> QED BY <2>3
<1>6. here \in SUBSET (1 .. Len(list)) /\ Len(list) \in Nat
  OBVIOUS
<1>7. j0 \in here /\ \A l \in here : l <= j0
  <2> HIDE DEF here
  <2>1. \E j \in here : \A l \in here : l <= j
    BY <1>5, <1>6, GreatestOf
  <2> QED BY <2>1
<1>8. \A l \in DOMAIN list : l \in here <=> Hits(list, l, p0)
  BY Zenon DEF Hits
<1>9. RingGet(Hash, list, k) = list[j0]
  BY Zenon DEF RingGet, NodeAt
<1>10. j0 \in DOMAIN list
  <2> HIDE DEF j0
  <2> QED BY <1>7
<1> HIDE DEF all, p0, here, j0
<1>11. Hits(list, j0, p0) /\ \A l \in DOMAIN list : Hits(list, l, p0) => l <= j0
  BY <1>7, <1>8, <1>10, Zenon
<1> QED BY <1>4, <1>9, <1>10, <1>11, Zenon DEF all

\* The owner of a key is a node of the list.
LEMMA OwnerIsNode ==
    ASSUME NEW list \in Seq(Nodes) \ {<<>>}, NEW k \in Keys
    PROVE  RingGet(Hash, list, k) \in Nodes
<1>1. PICK j \in DOMAIN list : RingGet(Hash, list, k) = list[j]
  BY OwnerIs, Zenon
<1> QED BY <1>1

\* Map.Add of one more node: it takes keys over, and no key moves between the
\* nodes that were there, so that a peer that joins leaves the caches of the
\* others of use.
THEOREM JoinMovesToJoiner ==
    ASSUME NEW list \in Seq(Nodes) \ {<<>>}, NEW x \in Nodes, NEW k \in Keys
    PROVE  RingGet(Hash, Append(list, x), k) \in {RingGet(Hash, list, k), x}
<1> DEFINE more == Append(list, x)
           n == Len(list)
<1>1. more \in Seq(Nodes) \ {<<>>} /\ n \in Nat /\ DOMAIN list = 1 .. n
      /\ DOMAIN more = 1 .. n + 1 /\ more[n + 1] = x
      /\ \A j \in 1 .. n : more[j] = list[j]
  OBVIOUS
<1> HIDE DEF more, n
<1>2. PICK p \in Nat, j \in DOMAIN list :
         /\ Answers(Positions(Hash, list), Hash[k], p)
         /\ Hits(list, j, p)
         /\ \A l \in DOMAIN list : Hits(list, l, p) => l <= j
         /\ RingGet(Hash, list, k) = list[j]
  BY OwnerIs
<1>3. PICK q \in Nat, u \in DOMAIN more :
         /\ Answers(Positions(Hash, more), Hash[k], q)
         /\ Hits(more, u, q)
         /\ \A l \in DOMAIN more : Hits(more, l, q) => l <= u
         /\ RingGet(Hash, more, k) = more[u]
  BY <1>1, OwnerIs
<1>4. CASE u = n + 1
  BY <1>1, <1>3, <1>4 DEF more
<1>5. CASE u \in 1 .. n
  <2>1. \A l \in 1 .. n : \A r : Hits(more, l, r) <=> Hits(list, l, r)
    BY <1>1, Zenon DEF Hits
  <2>2. Positions(Hash, list) \subseteq Positions(Hash, more)
    <3> SUFFICES ASSUME NEW r \in Positions(Hash, list)
                 PROVE  r \in Positions(Hash, more)
      OBVIOUS
    <3>1. PICK i \in 0 .. Replicas - 1, l \in DOMAIN list : r = Hash[<<i, list[l]>>]
      BY PositionsAre
    <3>2. l \in DOMAIN more /\ more[l] = list[l]
      BY <1>1
    <3> QED BY <3>1, <3>2, PositionsAre
  <2>3. q \in Positions(Hash, list)
    BY <1>1, <1>3, <1>5, <2>1, PositionsAre, Zenon DEF Hits
  <2>4. Answers(Positions(Hash, list), Hash[k], q)
    BY <1>3, <2>2, <2>3, Zenon DEF Answers
  <2>5. Hash[k] \in Nat /\ Positions(Hash, list) \in SUBSET Nat
    BY GeeCacheAssumption, PositionsType
  <2>6. p = q
    BY <1>2, <2>4, <2>5, OneAnswers
  <2>7. u <= j /\ j <= u
    <3>1. Hits(list, u, p) /\ Hits(more, j, q)
      BY <1>1, <1>2, <1>3, <1>5, <2>1, <2>6, Zenon
    <3>2. j \in DOMAIN more /\ u \in DOMAIN list
      BY <1>1, <1>5
    <3> QED BY <1>2, <1>3, <3>1, <3>2, Zenon
  <2>8. u = j
    BY <1>1, <1>5, <2>7
  <2> QED BY <1>1, <1>2, <1>3, <2>8 DEF more
<1>6. u = n + 1 \/ u \in 1 .. n
  BY <1>1, <1>3
<1> QED BY <1>4, <1>5, <1>6

\* Peers that were given the same nodes, in whatever order and however often,
\* agree on the owner of every key, as long as no two nodes hash to one
\* position: the order of Set only decides collisions.
THEOREM OrderDecidesCollisionsOnly ==
    ASSUME NEW list \in Seq(Nodes) \ {<<>>}, NEW other \in Seq(Nodes) \ {<<>>}, NEW k \in Keys,
           {list[j] : j \in DOMAIN list} = {other[j] : j \in DOMAIN other},
           \A a, b \in Nodes : \A i, l \in 0 .. Replicas - 1 :
              Hash[<<i, a>>] = Hash[<<l, b>>] => a = b
    PROVE  RingGet(Hash, list, k) = RingGet(Hash, other, k)
<1>1. PICK p \in Nat, j \in DOMAIN list :
         /\ Answers(Positions(Hash, list), Hash[k], p)
         /\ Hits(list, j, p)
         /\ RingGet(Hash, list, k) = list[j]
  BY OwnerIs, Zenon
<1>2. PICK q \in Nat, u \in DOMAIN other :
         /\ Answers(Positions(Hash, other), Hash[k], q)
         /\ Hits(other, u, q)
         /\ RingGet(Hash, other, k) = other[u]
  BY OwnerIs, Zenon
<1>3. ASSUME NEW r
      PROVE  r \in Positions(Hash, list) <=> r \in Positions(Hash, other)
  <2>1. \A l \in DOMAIN list : \E o \in DOMAIN other : list[l] = other[o]
    OBVIOUS
  <2>2. \A o \in DOMAIN other : \E l \in DOMAIN list : list[l] = other[o]
    OBVIOUS
  <2>3. ASSUME NEW l \in DOMAIN list, NEW i \in 0 .. Replicas - 1, r = Hash[<<i, list[l]>>]
        PROVE  r \in Positions(Hash, other)
    <3>1. PICK o \in DOMAIN other : list[l] = other[o]
      BY <2>1
    <3> QED BY <2>3, <3>1, PositionsAre
  <2>4. ASSUME NEW o \in DOMAIN other, NEW i \in 0 .. Replicas - 1, r = Hash[<<i, other[o]>>]
        PROVE  r \in Positions(Hash, list)
    <3>1. PICK l \in DOMAIN list : list[l] = other[o]
      BY <2>2
    <3> QED BY <2>4, <3>1, PositionsAre
  <2>5. ASSUME r \in Positions(Hash, list)
        PROVE  r \in Positions(Hash, other)
    <3>1. PICK i \in 0 .. Replicas - 1, l \in DOMAIN list : r = Hash[<<i, list[l]>>]
      BY <2>5, PositionsAre
    <3> QED BY <2>3, <3>1, Zenon
  <2>6. ASSUME r \in Positions(Hash, other)
        PROVE  r \in Positions(Hash, list)
    <3>1. PICK i \in 0 .. Replicas - 1, o \in DOMAIN other : r = Hash[<<i, other[o]>>]
      BY <2>6, PositionsAre
    <3> QED BY <2>4, <3>1, Zenon
  <2> QED BY <2>5, <2>6, Zenon
<1>4. Positions(Hash, list) = Positions(Hash, other)
  BY <1>3, Zenon
<1>5. Hash[k] \in Nat /\ Positions(Hash, list) \in SUBSET Nat
  BY GeeCacheAssumption, PositionsType
<1>6. p = q
  BY <1>1, <1>2, <1>4, <1>5, OneAnswers
<1>7. list[j] \in Nodes /\ other[u] \in Nodes
  OBVIOUS
<1>8. PICK i \in 0 .. Replicas - 1 : Hash[<<i, list[j]>>] = p
  BY <1>1, Zenon DEF Hits
<1>9. PICK l \in 0 .. Replicas - 1 : Hash[<<l, other[u]>>] = q
  BY <1>2, Zenon DEF Hits
<1>10. Hash[<<i, list[j]>>] = Hash[<<l, other[u]>>]
  BY <1>6, <1>8, <1>9, Zenon
<1>11. list[j] = other[u]
  BY <1>7, <1>10, Zenon
<1> QED BY <1>1, <1>2, <1>11, Zenon

-----------------------------------------------------------------------------
(* The inductive invariant. *)

Places == {"get", "load", "fetch", "add", "do", "wait", "http", "landed", "done"}
FrameType == [at : Nodes, key : Keys, pc : Places, peer : Nodes,
              val : Values \cup {Pending, Error}]

\* A frame has a value by the time it caches, shares or returns it, one of its
\* own key.
Honest(f) ==
    /\ f.pc = "add" => f.val \in Values
    /\ f.pc \in {"landed", "done"} => f.val \in Values \cup {Error}
    /\ f.val \in Values => KeyOf(f.val) = f.key

\* A frame under another one waits for the answer of its peer, where the other
\* one works on the same key.
Chain(st) ==
    /\ st \in Seq(FrameType)
    /\ \A i \in 1 .. Len(st) :
          /\ Honest(st[i])
          /\ i = Len(st) <=> st[i].pc # "http"
          /\ i < Len(st) => st[i + 1].at = st[i].peer /\ st[i + 1].key = st[i].key

\* A frame that goes to a peer goes to the owner of its key, by all rings.
RightWay(f) ==
    f.pc \in {"do", "wait", "http", "landed"} =>
        /\ f.at # f.peer
        /\ \A n \in Nodes : Rings[Listed(n)][f.key] = f.peer

CacheType == [ll : Seq(Values), nBytes : Int]

Typed ==
    /\ db \in [Keys -> 0 .. MaxVersion]
    /\ peers \in [Nodes -> InitLists \cup NextLists \cup {<<>>}]
    /\ adding \in [Nodes -> NextLists \cup {<<>>}]
    /\ sets \in 0 .. MaxSets /\ split \in BOOLEAN
    /\ cache \in [Nodes -> CacheType]
    /\ flight \in [Nodes -> [Keys -> [by : Callers \cup {Nobody},
                                      val : Values \cup {Pending, Error}]]]
    /\ stack \in [Callers -> Seq(FrameType)]

\* A ring without nodes is about to get some.
RingsMade == \A n \in Nodes : Listed(n) # <<>>

StacksChained == \A c \in Callers : Chain(stack[c])

FlightsHonest ==
    \A n \in Nodes, k \in Keys : flight[n][k].val \in Values => KeyOf(flight[n][k].val) = k

\* As long as all rings have agreed.
Agreed ==
    ~split =>
        /\ \A o, n \in Nodes : Rings[Listed(o)] = Rings[Listed(n)]
        /\ \A c \in Callers : \A i \in 1 .. Len(stack[c]) : RightWay(stack[c][i])

IInv == Typed /\ RingsMade /\ StacksChained /\ FlightsHonest /\ Agreed

-----------------------------------------------------------------------------
(* Stacks: the top frame is replaced, ... *)

LEMMA FrontOf ==
    ASSUME NEW S, NEW st \in Seq(S), st # <<>>
    PROVE  /\ Len(st) \in Nat \ {0} /\ Last(st) = st[Len(st)] /\ Last(st) \in S
           /\ Front(st) \in Seq(S) /\ Len(Front(st)) = Len(st) - 1
           /\ \A i \in 1 .. Len(st) - 1 : Front(st)[i] = st[i]
<1>1. Len(st) \in Nat \ {0} /\ \A i \in 1 .. Len(st) : st[i] \in S
  OBVIOUS
<1>2. Last(st) = st[Len(st)] /\ Last(st) \in S
  BY <1>1 DEF Last
<1>3. Front(st) = SubSeq(st, 1, Len(st) - 1)
  BY DEF Front
<1>4. /\ SubSeq(st, 1, Len(st) - 1) \in Seq(S) /\ Len(SubSeq(st, 1, Len(st) - 1)) = Len(st) - 1
      /\ \A i \in 1 .. Len(st) - 1 : SubSeq(st, 1, Len(st) - 1)[i] = st[i]
  <2>1. Len(st) - 1 \in Nat /\ \A i \in 1 .. Len(st) - 1 : st[i] \in S
    BY <1>1
  <2>2. /\ SubSeq(st, 1, Len(st) - 1) \in Seq(S)
        /\ Len(SubSeq(st, 1, Len(st) - 1)) = IF 1 <= Len(st) - 1 THEN (Len(st) - 1) - 1 + 1 ELSE 0
        /\ \A i \in 1 .. (Len(st) - 1) - 1 + 1 :
              SubSeq(st, 1, Len(st) - 1)[i] = st[1 + i - 1]
    <3>1. 1 \in Int /\ Len(st) - 1 \in Int
      BY <2>1
    <3> QED BY <2>1, <3>1, SubSeqProperties
  <2>3. \A o \in Nat : /\ o - 1 + 1 = o /\ (IF 1 <= o THEN o - 1 + 1 ELSE 0) = o
                       /\ \A i \in 1 .. o : 1 + i - 1 = i
    OBVIOUS
  <2>4. Len(SubSeq(st, 1, Len(st) - 1)) = Len(st) - 1
    BY <2>1, <2>2, <2>3, Zenon
  <2>5. \A i \in 1 .. Len(st) - 1 : SubSeq(st, 1, Len(st) - 1)[i] = st[i]
    BY <2>1, <2>2, <2>3, Zenon
  <2> QED BY <2>2, <2>4, <2>5
<1> QED BY <1>1, <1>2, <1>3, <1>4, Zenon

LEMMA AppendOf ==
    ASSUME NEW S, NEW st \in Seq(S), NEW f \in S
    PROVE  /\ Append(st, f) \in Seq(S) /\ Len(Append(st, f)) = Len(st) + 1
           /\ Append(st, f)[Len(st) + 1] = f
           /\ \A i \in 1 .. Len(st) : Append(st, f)[i] = st[i]
OBVIOUS

LEMMA Replaced ==
    ASSUME NEW st, Chain(st), st # <<>>, NEW f \in FrameType, Honest(f), f.pc # "http",
           f.at = Last(st).at, f.key = Last(st).key
    PROVE  LET new == Append(Front(st), f)
           IN /\ Chain(new)
              /\ \A i \in 1 .. Len(new) :
                    new[i] = f \/ \E j \in 1 .. Len(st) : new[i] = st[j]
<1> DEFINE new == Append(Front(st), f)
<1>1. st \in Seq(FrameType)
  BY DEF Chain
<1>2. /\ Len(st) \in Nat \ {0} /\ Last(st) = st[Len(st)]
      /\ Front(st) \in Seq(FrameType) /\ Len(Front(st)) = Len(st) - 1
      /\ \A i \in 1 .. Len(st) - 1 : Front(st)[i] = st[i]
  BY <1>1, FrontOf
<1>3. /\ new \in Seq(FrameType) /\ Len(new) = Len(st) /\ new[Len(st)] = f
      /\ \A i \in 1 .. Len(st) - 1 : new[i] = st[i]
  BY <1>2, AppendOf
<1> HIDE DEF new
<1>4. ASSUME NEW i \in 1 .. Len(new)
      PROVE  /\ Honest(new[i])
             /\ i = Len(new) <=> new[i].pc # "http"
             /\ i < Len(new) => new[i + 1].at = new[i].peer /\ new[i + 1].key = new[i].key
             /\ new[i] = f \/ \E j \in 1 .. Len(st) : new[i] = st[j]
  <2>1. CASE i = Len(st)
    BY <1>2, <1>3, <2>1
  <2>2. CASE i < Len(st)
    <3>1. i \in 1 .. Len(st) /\ new[i] = st[i] /\ i + 1 \in 1 .. Len(st)
      BY <1>2, <1>3, <2>2
    <3>2. /\ Honest(st[i]) /\ st[i].pc = "http"
          /\ st[i + 1].at = st[i].peer /\ st[i + 1].key = st[i].key
      BY <1>2, <2>2, <3>1 DEF Chain
    <3>3. new[i + 1].at = st[i + 1].at /\ new[i + 1].key = st[i + 1].key
      BY SMTT(30), <1>2, <1>3, <2>2
    <3> QED BY <1>3, <2>2, <3>1, <3>2, <3>3
  <2> QED BY <1>2, <1>3, <2>1, <2>2
<1>5. Chain(new)
  BY <1>3, <1>4 DEF Chain
<1> QED BY <1>4, <1>5 DEF new

\* ... one is pushed, while the one below becomes f, ...
LEMMA Pushed ==
    ASSUME NEW st, Chain(st), st # <<>>,
           NEW f \in FrameType, Honest(f), f.pc = "http",
           f.at = Last(st).at, f.key = Last(st).key,
           NEW g \in FrameType, Honest(g), g.pc # "http", g.at = f.peer, g.key = f.key
    PROVE  LET new == Append(Append(Front(st), f), g)
           IN /\ Chain(new)
              /\ \A i \in 1 .. Len(new) :
                    new[i] = f \/ new[i] = g \/ \E j \in 1 .. Len(st) : new[i] = st[j]
<1> DEFINE mid == Append(Front(st), f)
           new == Append(mid, g)
<1>1. st \in Seq(FrameType)
  BY DEF Chain
<1>2. /\ Len(st) \in Nat \ {0} /\ Last(st) = st[Len(st)]
      /\ Front(st) \in Seq(FrameType) /\ Len(Front(st)) = Len(st) - 1
      /\ \A i \in 1 .. Len(st) - 1 : Front(st)[i] = st[i]
  BY <1>1, FrontOf
<1>3. /\ mid \in Seq(FrameType) /\ Len(mid) = Len(st) /\ mid[Len(st)] = f
      /\ \A i \in 1 .. Len(st) - 1 : mid[i] = st[i]
  BY <1>2, AppendOf
<1> HIDE DEF mid
<1>4. /\ new \in Seq(FrameType) /\ Len(new) = Len(st) + 1 /\ new[Len(st) + 1] = g
      /\ new[Len(st)] = f /\ \A i \in 1 .. Len(st) - 1 : new[i] = st[i]
  BY <1>2, <1>3, AppendOf
<1> HIDE DEF new
<1>5. ASSUME NEW i \in 1 .. Len(new)
      PROVE  /\ Honest(new[i])
             /\ i = Len(new) <=> new[i].pc # "http"
             /\ i < Len(new) => new[i + 1].at = new[i].peer /\ new[i + 1].key = new[i].key
             /\ new[i] = f \/ new[i] = g \/ \E j \in 1 .. Len(st) : new[i] = st[j]
  <2>1. CASE i >= Len(st)
    BY <1>2, <1>4, <2>1
  <2>2. CASE i < Len(st)
    <3>1. i \in 1 .. Len(st) /\ new[i] = st[i] /\ i + 1 \in 1 .. Len(st)
      BY <1>2, <1>4, <2>2
    <3>2. /\ Honest(st[i]) /\ st[i].pc = "http"
          /\ st[i + 1].at = st[i].peer /\ st[i + 1].key = st[i].key
      BY <1>2, <2>2, <3>1 DEF Chain
    <3>3. new[i + 1].at = st[i + 1].at /\ new[i + 1].key = st[i + 1].key
      <4>1. CASE i + 1 = Len(st)
        BY <1>2, <1>4, <4>1
      <4>2. CASE i + 1 < Len(st)
        <5>1. i + 1 \in 1 .. Len(st) - 1
          BY <1>2, <4>2
        <5> QED BY <1>4, <5>1
      <4> QED BY <1>2, <2>2, <4>1, <4>2
    <3> QED BY <1>4, <2>2, <3>1, <3>2, <3>3
  <2> QED BY <1>2, <1>4, <2>1, <2>2
<1>6. Chain(new)
  BY <1>4, <1>5 DEF Chain
<1> QED BY <1>5, <1>6 DEF new, mid

\* ... or popped, while the one below becomes f.
LEMMA Popped ==
    ASSUME NEW st, Chain(st), Len(st) > 1,
           NEW f \in FrameType, Honest(f), f.pc # "http",
           f.at = st[Len(st) - 1].at, f.key = st[Len(st) - 1].key
    PROVE  LET new == Append(Front(Front(st)), f)
           IN /\ Chain(new)
              /\ \A i \in 1 .. Len(new) :
                    new[i] = f \/ \E j \in 1 .. Len(st) : new[i] = st[j]
<1> DEFINE mid == Front(st)
           new == Append(Front(mid), f)
<1>1. st \in Seq(FrameType) /\ Len(st) \in Nat
  BY DEF Chain
<1>2. /\ mid \in Seq(FrameType) /\ Len(mid) = Len(st) - 1
      /\ \A i \in 1 .. Len(st) - 1 : mid[i] = st[i]
  BY <1>1, FrontOf
<1> HIDE DEF mid
<1>3. /\ Front(mid) \in Seq(FrameType) /\ Len(Front(mid)) = Len(st) - 2
      /\ \A i \in 1 .. Len(st) - 2 : Front(mid)[i] = st[i]
  <2>1. mid # <<>> /\ Len(mid) - 1 = Len(st) - 2
    BY <1>1, <1>2
  <2>2. /\ Front(mid) \in Seq(FrameType) /\ Len(Front(mid)) = Len(mid) - 1
        /\ \A i \in 1 .. Len(mid) - 1 : Front(mid)[i] = mid[i]
    BY <1>2, <2>1, FrontOf
  <2> QED BY <1>1, <1>2, <2>1, <2>2
<1>4. /\ new \in Seq(FrameType) /\ Len(new) = Len(st) - 1 /\ new[Len(st) - 1] = f
      /\ \A i \in 1 .. Len(st) - 2 : new[i] = st[i]
  BY <1>1, <1>3, AppendOf
<1> HIDE DEF new
<1>5. ASSUME NEW i \in 1 .. Len(new)
      PROVE  /\ Honest(new[i])
             /\ i = Len(new) <=> new[i].pc # "http"
             /\ i < Len(new) => new[i + 1].at = new[i].peer /\ new[i + 1].key = new[i].key
             /\ new[i] = f \/ \E j \in 1 .. Len(st) : new[i] = st[j]
  <2>1. CASE i = Len(st) - 1
    BY <1>1, <1>4, <2>1
  <2>2. CASE i < Len(st) - 1
    <3>1. i \in 1 .. Len(st) /\ new[i] = st[i] /\ i + 1 \in 1 .. Len(st)
      BY <1>1, <1>4, <2>2
    <3>2. /\ Honest(st[i]) /\ st[i].pc = "http"
          /\ st[i + 1].at = st[i].peer /\ st[i + 1].key = st[i].key
      BY <1>1, <2>2, <3>1 DEF Chain
    <3>3. new[i + 1].at = st[i + 1].at /\ new[i + 1].key = st[i + 1].key
      BY <1>1, <1>4, <2>2
    <3> QED BY <1>4, <2>2, <3>1, <3>2, <3>3
  <2> QED BY <1>1, <1>4, <2>1, <2>2
<1>6. Chain(new)
  BY <1>4, <1>5 DEF Chain
<1> QED BY <1>5, <1>6 DEF new, mid

-----------------------------------------------------------------------------
(* The cache. *)

\* What is cached under a key is a value of that key.
LEMMA ValueFound ==
    ASSUME NEW c \in CacheType, NEW k, Has(c, k)
    PROVE  /\ Index(c, k) \in 1 .. Len(c.ll)
           /\ ValueAt(c, k) \in Values /\ KeyOf(ValueAt(c, k)) = k
<1>1. \E i \in DOMAIN c.ll : KeyOf(c.ll[i]) = k
  BY DEF Has
<1>2. Index(c, k) \in DOMAIN c.ll /\ KeyOf(c.ll[Index(c, k)]) = k
  BY <1>1, Zenon DEF Index
<1>3. c.ll \in Seq(Values)
  BY DEF CacheType
<1> QED BY <1>2, <1>3 DEF ValueAt

LEMMA OthersType ==
    ASSUME NEW c \in CacheType, NEW k
    PROVE  Others(c, k) \in Seq(Values)
<1>1. c.ll \in Seq(Values)
  BY DEF CacheType
<1>2. CASE Has(c, k)
  <2>1. Index(c, k) \in 1 .. Len(c.ll)
    BY <1>2, ValueFound
  <2>2. ASSUME NEW i \in 1 .. Len(c.ll)
        PROVE  RemoveAt(c.ll, i) \in Seq(Values)
    <3>1. SubSeq(c.ll, 1, i - 1) \in Seq(Values) /\ SubSeq(c.ll, i + 1, Len(c.ll)) \in Seq(Values)
      <4>1. \A j \in 1 .. Len(c.ll) : c.ll[j] \in Values
        BY <1>1
      <4>2. i - 1 \in Int /\ i + 1 \in Int /\ Len(c.ll) \in Int
        BY <1>1
      <4>3. /\ \A j \in 1 .. i - 1 : c.ll[j] \in Values
            /\ \A j \in i + 1 .. Len(c.ll) : c.ll[j] \in Values
        BY <4>1, <4>2
      <4> QED BY <4>2, <4>3, SubSeqProperties
    <3> QED BY <3>1 DEF RemoveAt
  <2> QED BY <1>2, <2>1, <2>2 DEF Others
<1>3. CASE ~Has(c, k)
  BY <1>1, <1>3 DEF Others
<1> QED BY <1>2, <1>3

\* Touching, adding and evicting keep the cache one.
LEMMA TouchType ==
    ASSUME NEW c \in CacheType, NEW k, Has(c, k)
    PROVE  Touch(c, k) \in CacheType
<1>1. ValueAt(c, k) \in Values /\ Others(c, k) \in Seq(Values)
  BY ValueFound, OthersType
<1>2. <<ValueAt(c, k)>> \o Others(c, k) \in Seq(Values)
  BY <1>1
<1> QED BY <1>2 DEF Touch, CacheType

LEMMA AddType ==
    ASSUME NEW c \in CacheType, NEW v \in Values
    PROVE  Add(c, v) \in CacheType
<1>1. \A w \in Values : SizeOf[w] \in Nat
  BY GeeCacheAssumption
<1>2. Put(c, v) \in CacheType
  <2>1. <<v>> \o Others(c, KeyOf(v)) \in Seq(Values)
    BY OthersType
  <2>2. Has(c, KeyOf(v)) => SizeOf[ValueAt(c, KeyOf(v))] \in Nat
    BY <1>1, ValueFound
  <2>3. c.nBytes \in Int
    BY DEF CacheType
  <2> QED BY <1>1, <2>1, <2>2, <2>3 DEF Put, CacheType
<1>3. ASSUME NEW d \in CacheType
      PROVE  RemoveOldest(d) \in CacheType
  <2>1. d.ll \in Seq(Values) /\ d.nBytes \in Int
    BY DEF CacheType
  <2>2. ASSUME d.ll # <<>>
        PROVE  Front(d.ll) \in Seq(Values) /\ SizeOf[Last(d.ll)] \in Nat
    BY <1>1, <2>1, <2>2, FrontOf
  <2> QED BY <2>1, <2>2 DEF RemoveOldest, CacheType
<1> QED BY <1>2, <1>3 DEF Add

-----------------------------------------------------------------------------
(* Initially. *)

LEMMA InitIInv == Init => IInv
<1> SUFFICES ASSUME Init PROVE IInv
  OBVIOUS
<1>1. Typed
  <2>1. New \in CacheType
    BY DEF New, CacheType
  <2>2. NoFlight \in [by : Callers \cup {Nobody}, val : Values \cup {Pending, Error}]
    BY DEF NoFlight
  <2>3. <<>> \in Seq(FrameType)
    OBVIOUS
  <2> HIDE DEF CacheType, FrameType
  <2>4. /\ db \in [Keys -> 0 .. MaxVersion] /\ sets \in 0 .. MaxSets
        /\ peers \in [Nodes -> InitLists \cup NextLists \cup {<<>>}]
        /\ adding \in [Nodes -> NextLists \cup {<<>>}]
    BY GeeCacheAssumption DEF Init
  <2>5. split \in BOOLEAN
    BY DEF Init
  <2>6. cache \in [Nodes -> CacheType] /\ stack \in [Callers -> Seq(FrameType)]
    BY <2>1, <2>3 DEF Init
  <2>7. flight \in [Nodes -> [Keys -> [by : Callers \cup {Nobody},
                                       val : Values \cup {Pending, Error}]]]
    BY <2>2 DEF Init
  <2> QED BY <2>4, <2>5, <2>6, <2>7 DEF Typed
<1>2. ASSUME NEW n \in Nodes
      PROVE  Listed(n) = peers[n] /\ Listed(n) # <<>>
  BY GeeCacheAssumption DEF Init, Listed
<1>3. StacksChained /\ \A c \in Callers : Len(stack[c]) = 0
  <2>1. Chain(<<>>)
    BY DEF Chain
  <2> QED BY <2>1 DEF Init, StacksChained
<1>4. FlightsHonest
  <2>1. Pending \notin Values
    BY GeeCacheAssumption
  <2> QED BY <2>1 DEF Init, NoFlight, FlightsHonest
<1>5. Agreed
  BY <1>2, <1>3 DEF Init, Agreed
<1> QED BY <1>1, <1>2, <1>3, <1>4, <1>5 DEF IInv, RingsMade

-----------------------------------------------------------------------------
(* The steps. *)

LEMMA TopFrame ==
    ASSUME IInv, NEW c \in Callers, stack[c] # <<>>
    PROVE  /\ Chain(stack[c]) /\ stack[c] \in Seq(FrameType)
           /\ Len(stack[c]) \in Nat \ {0} /\ Top(c) = stack[c][Len(stack[c])]
           /\ Top(c) \in FrameType /\ Honest(Top(c)) /\ Top(c).pc # "http"
           /\ Here(c) \in Nodes /\ Key(c) \in Keys /\ Top(c).peer \in Nodes
           /\ ~split => RightWay(Top(c))
<1>1. Chain(stack[c]) /\ stack[c] \in Seq(FrameType)
  BY DEF IInv, StacksChained, Chain
<1>2. /\ Len(stack[c]) \in Nat \ {0} /\ Top(c) = stack[c][Len(stack[c])]
      /\ Top(c) \in FrameType
  BY <1>1, FrontOf DEF Top
<1>3. Len(stack[c]) \in 1 .. Len(stack[c])
  BY <1>2
<1>4. Honest(Top(c)) /\ Top(c).pc # "http"
  BY <1>1, <1>2, <1>3 DEF Chain
<1>5. ~split => RightWay(Top(c))
  BY <1>2, <1>3, Zenon DEF IInv, Agreed
<1>6. Here(c) \in Nodes /\ Key(c) \in Keys /\ Top(c).peer \in Nodes
  BY <1>2 DEF FrameType, Here, Key
<1> QED BY <1>1, <1>2, <1>4, <1>5, <1>6

\* A step that leaves the rings alone may replace frames by ones that go the
\* right way.
LEMMA NewStacks ==
    ASSUME IInv, UNCHANGED ringVars, stack' = [c \in Callers |-> stack'[c]],
           ASSUME NEW c \in Callers
           PROVE  /\ Chain(stack'[c])
                  /\ \A i \in 1 .. Len(stack'[c]) :
                        \/ ~split => RightWay(stack'[c][i])
                        \/ \E j \in 1 .. Len(stack[c]) : stack'[c][i] = stack[c][j]
    PROVE  stack' \in [Callers -> Seq(FrameType)] /\ StacksChained' /\ Agreed'
<1>1. stack' \in [Callers -> Seq(FrameType)]
  BY DEF Chain
<1>2. StacksChained'
  BY DEF StacksChained
<1>3. \A n \in Nodes : Listed(n)' = Listed(n)
  BY DEF ringVars, Listed
<1>4. ASSUME ~split, NEW c \in Callers, NEW i \in 1 .. Len(stack'[c])
      PROVE  RightWay(stack[c][i])'
  <2>1. RightWay(stack'[c][i])
    <3>1. ASSUME NEW j \in 1 .. Len(stack[c])
          PROVE  RightWay(stack[c][j])
      BY <1>4, Zenon DEF IInv, Agreed
    <3> QED BY <1>4, <3>1
  <2> QED BY <1>3, <2>1, Zenon DEF RightWay
<1>5. Agreed'
  <2>1. split' = split
    BY DEF ringVars
  <2>2. ~split => \A o, n \in Nodes : Rings[Listed(o)] = Rings[Listed(n)]
    BY Zenon DEF IInv, Agreed
  <2>3. ~split => \A o, n \in Nodes : Rings[Listed(o)'] = Rings[Listed(n)']
    BY <1>3, <2>2, Zenon
  <2> QED BY <1>4, <2>1, <2>3, Zenon DEF Agreed
<1> QED BY <1>1, <1>2, <1>5

\* The frames of only one caller change.
LEMMA NewStack ==
    ASSUME IInv, UNCHANGED ringVars, NEW c \in Callers, NEW st, Chain(st),
           \A i \in 1 .. Len(st) : \/ ~split => RightWay(st[i])
                                   \/ \E j \in 1 .. Len(stack[c]) : st[i] = stack[c][j],
           stack' = [stack EXCEPT ![c] = st]
    PROVE  stack' \in [Callers -> Seq(FrameType)] /\ StacksChained' /\ Agreed'
<1>1. /\ stack' = [d \in Callers |-> stack'[d]]
      /\ \A d \in Callers : stack'[d] = IF d = c THEN st ELSE stack[d]
  BY DEF IInv, Typed
<1>2. ASSUME NEW d \in Callers
      PROVE  /\ Chain(stack'[d])
             /\ \A i \in 1 .. Len(stack'[d]) :
                   \/ ~split => RightWay(stack'[d][i])
                   \/ \E j \in 1 .. Len(stack[d]) : stack'[d][i] = stack[d][j]
  <2>1. CASE d = c
    <3>1. stack'[d] = st
      BY <1>1, <2>1
    <3> QED BY <2>1, <3>1, Zenon
  <2>2. CASE d # c
    <3>1. stack'[d] = stack[d]
      BY <1>1, <2>2
    <3>2. Chain(stack[d])
      BY DEF IInv, StacksChained
    <3> QED BY <3>1, <3>2
  <2> QED BY <2>1, <2>2
<1> QED BY <1>1, <1>2, NewStacks

\* Only the top frame of one caller is replaced.
LEMMA NewTop ==
    ASSUME IInv, UNCHANGED ringVars, NEW c \in Callers, stack[c] # <<>>,
           NEW f \in FrameType, Honest(f), f.pc # "http", f.at = Here(c), f.key = Key(c),
           ~split => RightWay(f),
           stack' = [stack EXCEPT ![c] = Append(Front(@), f)]
    PROVE  stack' \in [Callers -> Seq(FrameType)] /\ StacksChained' /\ Agreed'
<1> DEFINE st == Append(Front(stack[c]), f)
<1>1. /\ Chain(st)
      /\ \A i \in 1 .. Len(st) : st[i] = f \/ \E j \in 1 .. Len(stack[c]) : st[i] = stack[c][j]
  BY TopFrame, Replaced DEF Here, Key, Top
<1>2. stack' = [stack EXCEPT ![c] = st]
  OBVIOUS
<1> HIDE DEF st
<1>3. ASSUME NEW i \in 1 .. Len(st)
      PROVE  \/ ~split => RightWay(st[i])
             \/ \E j \in 1 .. Len(stack[c]) : st[i] = stack[c][j]
  BY <1>1, Zenon
<1> QED BY <1>1, <1>2, <1>3, NewStack

\* What the active frame does when it goes on to p or is done with v.
LEMMA GotoStacks ==
    ASSUME IInv, UNCHANGED ringVars, NEW c \in Callers, stack[c] # <<>>,
           NEW p \in Places, Goto(c, p), p \notin {"http", "add", "do", "landed"},
           p = "done" => Top(c).val \in Values \cup {Error},
           p = "wait" => Top(c).pc = "do"
    PROVE  stack' \in [Callers -> Seq(FrameType)] /\ StacksChained' /\ Agreed'
<1> DEFINE f == [Top(c) EXCEPT !.pc = p]
<1>1. /\ Top(c) \in FrameType /\ Honest(Top(c)) /\ (~split => RightWay(Top(c)))
  BY TopFrame
<1>2. /\ f \in FrameType /\ f.at = Here(c) /\ f.key = Key(c) /\ f.pc = p
      /\ f.peer = Top(c).peer /\ f.val = Top(c).val
  BY <1>1 DEF FrameType, Here, Key
<1>3. stack' = [stack EXCEPT ![c] = Append(Front(@), f)]
  BY DEF Goto, Top
<1> HIDE DEF f
<1>4. Honest(f)
  BY <1>1, <1>2 DEF Honest, Key
<1>5. ~split => RightWay(f)
  BY <1>1, <1>2 DEF RightWay, Here, Key
<1> QED BY <1>2, <1>3, <1>4, <1>5, NewTop

LEMMA DoneStacks ==
    ASSUME IInv, UNCHANGED ringVars, NEW c \in Callers, stack[c] # <<>>,
           NEW v \in Values \cup {Error}, Done(c, v), v \in Values => KeyOf(v) = Key(c)
    PROVE  stack' \in [Callers -> Seq(FrameType)] /\ StacksChained' /\ Agreed'
<1> DEFINE f == [Top(c) EXCEPT !.pc = "done", !.val = v]
<1>1. Top(c) \in FrameType /\ Top(c).peer \in Nodes
  BY TopFrame
<1>2. /\ f \in FrameType /\ f.at = Here(c) /\ f.key = Key(c) /\ f.pc = "done" /\ f.val = v
  <2>1. "done" \in Places
    BY DEF Places
  <2> QED BY <1>1, <2>1 DEF FrameType, Here, Key
<1>3. stack' = [stack EXCEPT ![c] = Append(Front(@), f)]
  BY DEF Done, Top
<1> HIDE DEF f
<1>4. Honest(f)
  BY <1>2 DEF Honest
<1>5. RightWay(f)
  BY <1>2 DEF RightWay
<1> QED BY <1>2, <1>3, <1>4, <1>5, NewTop

\* A caller may get a single new frame, or none.
LEMMA AskOrReturn ==
    ASSUME IInv, UNCHANGED <<db, ringVars, cache, flight>>, NEW c \in Callers,
           NEW st, st = <<>> \/ \E n \in Nodes, k \in Keys : st = <<Frame(n, k)>>,
           stack' = [stack EXCEPT ![c] = st]
    PROVE  IInv'
<1>1. Chain(st) /\ \A i \in 1 .. Len(st) : RightWay(st[i])
  <2>1. CASE st = <<>>
    BY <2>1 DEF Chain
  <2>2. ASSUME NEW n \in Nodes, NEW k \in Keys, st = <<Frame(n, k)>>
        PROVE  Chain(st) /\ \A i \in 1 .. Len(st) : RightWay(st[i])
    <3>1. /\ Frame(n, k) \in FrameType /\ Honest(Frame(n, k))
          /\ Frame(n, k).pc = "get" /\ RightWay(Frame(n, k))
      BY GeeCacheAssumption DEF Frame, FrameType, Honest, Places, RightWay
    <3> HIDE DEF Frame
    <3>2. st \in Seq(FrameType) /\ Len(st) = 1 /\ st[1] = Frame(n, k)
      BY <2>2, <3>1
    <3> QED BY <3>1, <3>2 DEF Chain
  <2> QED BY <2>1, <2>2
<1>2. stack' \in [Callers -> Seq(FrameType)] /\ StacksChained' /\ Agreed'
  BY <1>1, NewStack
<1> QED BY <1>2 DEF IInv, Typed, RingsMade, Listed, FlightsHonest, ringVars

LEMMA LookUpIInv == ASSUME IInv, NEW c \in Callers, LookUp(c) PROVE IInv'
<1>1. /\ stack[c] # <<>> /\ Here(c) \in Nodes /\ Key(c) \in Keys
      /\ cache \in [Nodes -> CacheType]
  <2>1. stack[c] # <<>>
    BY DEF LookUp, At
  <2> QED BY <2>1, TopFrame DEF IInv, Typed
<1>2. CASE Has(cache[Here(c)], Key(c))
  <2>1. /\ cache' = [cache EXCEPT ![Here(c)] = Touch(@, Key(c))]
        /\ Done(c, ValueAt(cache[Here(c)], Key(c)))
    BY <1>2 DEF LookUp
  <2>2. /\ ValueAt(cache[Here(c)], Key(c)) \in Values
        /\ KeyOf(ValueAt(cache[Here(c)], Key(c))) = Key(c)
    BY <1>1, <1>2, ValueFound
  <2>3. Touch(cache[Here(c)], Key(c)) \in CacheType
    BY <1>1, <1>2, TouchType
  <2>4. stack' \in [Callers -> Seq(FrameType)] /\ StacksChained' /\ Agreed'
    BY <1>1, <2>1, <2>2, DoneStacks DEF LookUp
  <2>5. cache' \in [Nodes -> CacheType]
    BY <1>1, <2>1, <2>3
  <2> QED BY <2>4, <2>5 DEF IInv, Typed, RingsMade, Listed, FlightsHonest, ringVars, LookUp
<1>3. CASE ~Has(cache[Here(c)], Key(c))
  <2>1. Goto(c, "load") /\ UNCHANGED cache
    BY <1>3 DEF LookUp
  <2>2. "load" \in Places
    BY DEF Places
  <2>3. stack' \in [Callers -> Seq(FrameType)] /\ StacksChained' /\ Agreed'
    BY <1>1, <2>1, <2>2, GotoStacks DEF LookUp
  <2> QED BY <2>1, <2>3 DEF IInv, Typed, RingsMade, Listed, FlightsHonest, ringVars, LookUp
<1> QED BY <1>2, <1>3

LEMMA PickPeerIInv == ASSUME IInv, NEW c \in Callers, PickPeer(c) PROVE IInv'
<1> DEFINE owner == Rings[peers[Here(c)]][Key(c)]
           p == IF owner = Here(c) THEN "fetch" ELSE "do"
           f == [Top(c) EXCEPT !.pc = p, !.peer = owner]
<1>1. stack[c] # <<>> /\ Top(c).pc = "load" /\ adding[Here(c)] = <<>>
  BY DEF PickPeer, At
<1>2. /\ Top(c) \in FrameType /\ Honest(Top(c)) /\ Here(c) \in Nodes /\ Key(c) \in Keys
  BY <1>1, TopFrame
<1>3. /\ peers[Here(c)] = Listed(Here(c)) /\ peers[Here(c)] \in InitLists \cup NextLists
      /\ peers[Here(c)] \in Seq(Nodes) \ {<<>>}
  BY <1>1, <1>2, GeeCacheAssumption DEF IInv, Typed, RingsMade, Listed
<1>4. owner = RingGet(Hash, peers[Here(c)], Key(c))
  BY <1>2, <1>3, Zenon DEF Rings
<1>5. owner \in Nodes
  BY <1>2, <1>3, <1>4, OwnerIsNode
<1>6. ASSUME ~split, NEW n \in Nodes
      PROVE  Rings[Listed(n)][Key(c)] = owner
  BY <1>2, <1>3, <1>6, Zenon DEF IInv, Agreed
<1>7. stack' = [stack EXCEPT ![c] = Append(Front(@), f)]
  BY DEF PickPeer, Top
<1>8. p \in Places /\ p \in {"fetch", "do"} /\ (p = "do" => owner # Here(c))
  BY DEF Places
<1> HIDE DEF p, owner
<1>9. f \in FrameType /\ f.at = Here(c) /\ f.key = Key(c) /\ f.pc = p /\ f.peer = owner
      /\ f.val = Top(c).val
  BY <1>2, <1>5, <1>8 DEF FrameType, Here, Key
<1> HIDE DEF f
<1>10. Honest(f) /\ f.pc # "http"
  BY <1>2, <1>8, <1>9 DEF Honest, Key
<1>11. ~split => RightWay(f)
  BY <1>6, <1>8, <1>9 DEF RightWay
<1>12. stack' \in [Callers -> Seq(FrameType)] /\ StacksChained' /\ Agreed'
  BY <1>1, <1>7, <1>9, <1>10, <1>11, NewTop DEF PickPeer
<1> QED BY <1>12 DEF IInv, Typed, RingsMade, Listed, FlightsHonest, ringVars, PickPeer

LEMMA FetchIInv == ASSUME IInv, NEW c \in Callers, Fetch(c) PROVE IInv'
<1>1. stack[c] # <<>>
  BY DEF Fetch, At
<1>2. /\ Top(c) \in FrameType /\ Here(c) \in Nodes /\ Key(c) \in Keys
  BY <1>1, TopFrame
<1>3. CASE Done(c, Error)
  <2>1. Error \notin Values
    BY GeeCacheAssumption
  <2> QED BY <1>1, <1>3, <2>1, DoneStacks DEF Fetch, IInv, Typed, RingsMade, Listed, FlightsHonest, ringVars
<1>4. CASE stack' = [stack EXCEPT ![c] = Append(Front(@), [Last(@) EXCEPT !.pc = "add",
                                               !.val = <<Key(c), db[Key(c)]>>])]
  <2> DEFINE v == <<Key(c), db[Key(c)]>>
             f == [Top(c) EXCEPT !.pc = "add", !.val = v]
  <2>1. v \in Values /\ KeyOf(v) = Key(c) /\ "add" \in Places
    BY <1>2 DEF IInv, Typed, Values, KeyOf, Places
  <2>2. stack' = [stack EXCEPT ![c] = Append(Front(@), f)]
    BY <1>4 DEF Top
  <2> HIDE DEF v
  <2>3. f \in FrameType /\ f.at = Here(c) /\ f.key = Key(c) /\ f.pc = "add" /\ f.val = v
    <3>1. v \in Values \cup {Pending, Error}
      BY <2>1
    <3> QED BY <1>2, <2>1, <3>1 DEF FrameType, Here, Key
  <2> HIDE DEF f
  <2>4. Honest(f) /\ RightWay(f) /\ f.pc # "http"
    BY <2>1, <2>3 DEF Honest, RightWay
  <2>5. stack' \in [Callers -> Seq(FrameType)] /\ StacksChained' /\ Agreed'
    BY <1>1, <2>2, <2>3, <2>4, NewTop DEF Fetch
  <2> QED BY <2>5 DEF IInv, Typed, RingsMade, Listed, FlightsHonest, ringVars, Fetch
<1> QED BY <1>3, <1>4 DEF Fetch

LEMMA AddLocallyIInv == ASSUME IInv, NEW c \in Callers, AddLocally(c) PROVE IInv'
<1>1. /\ stack[c] # <<>> /\ Top(c).pc = "add"
      /\ cache' = [cache EXCEPT ![Here(c)] = Add(@, Top(c).val)] /\ Done(c, Top(c).val)
  BY DEF AddLocally, At
<1>2. /\ Top(c) \in FrameType /\ Here(c) \in Nodes
      /\ Top(c).val \in Values /\ KeyOf(Top(c).val) = Key(c)
  BY <1>1, TopFrame DEF Honest, Key
<1>3. cache' \in [Nodes -> CacheType]
  <2>1. cache \in [Nodes -> CacheType]
    BY DEF IInv, Typed
  <2>2. Add(cache[Here(c)], Top(c).val) \in CacheType
    BY <1>2, <2>1, AddType
  <2> QED BY <1>1, <1>2, <2>1, <2>2
<1>4. stack' \in [Callers -> Seq(FrameType)] /\ StacksChained' /\ Agreed'
  BY <1>1, <1>2, DoneStacks DEF AddLocally
<1> QED BY <1>3, <1>4 DEF IInv, Typed, RingsMade, Listed, FlightsHonest, ringVars, AddLocally

LEMMA JoinIInv == ASSUME IInv, NEW c \in Callers, Join(c) PROVE IInv'
<1> DEFINE v == flight[Here(c)][Key(c)].val
<1>1. stack[c] # <<>> /\ Top(c).pc = "do"
  BY DEF Join, At
<1>2. Here(c) \in Nodes /\ Key(c) \in Keys
  BY <1>1, TopFrame
<1>3. v \in Values \cup {Pending, Error} /\ (v \in Values => KeyOf(v) = Key(c))
  BY <1>2 DEF IInv, Typed, FlightsHonest
<1>4. stack' \in [Callers -> Seq(FrameType)] /\ StacksChained' /\ Agreed'
  <2>1. CASE v = Pending
    <3>1. Goto(c, "wait")
      BY <2>1 DEF Join
    <3>2. "wait" \in Places
      BY DEF Places
    <3> QED BY <1>1, <3>1, <3>2, GotoStacks DEF Join
  <2>2. CASE v # Pending
    <3>1. Done(c, v)
      BY <2>2 DEF Join
    <3> HIDE DEF v
    <3> QED BY <1>1, <1>3, <2>2, <3>1, DoneStacks DEF Join
  <2> QED BY <2>1, <2>2
<1> QED BY <1>4 DEF IInv, Typed, RingsMade, Listed, FlightsHonest, ringVars, Join

LEMMA FlightLed == ASSUME IInv, NEW c \in Callers, NEW n \in Nodes, NEW k \in Keys,
           flight' = [flight EXCEPT ![n][k].by = c]
    PROVE  FlightsHonest' /\ flight' \in [Nodes -> [Keys -> [by : Callers \cup {Nobody},
                                                         val : Values \cup {Pending, Error}]]]
BY DEF FlightsHonest, IInv, Typed

LEMMA LeadIInv == ASSUME IInv, NEW c \in Callers, Lead(c) PROVE IInv'
<1> DEFINE f == [Top(c) EXCEPT !.pc = "http"]
           g == Frame(Top(c).peer, Key(c))
           st == Append(Append(Front(stack[c]), f), g)
<1>1. /\ stack[c] # <<>> /\ Top(c).pc = "do"
      /\ flight' = [flight EXCEPT ![Here(c)][Key(c)].by = c]
  BY DEF Lead, At
<1>2. /\ Top(c) \in FrameType /\ Honest(Top(c)) /\ (~split => RightWay(Top(c)))
      /\ Here(c) \in Nodes /\ Key(c) \in Keys /\ Top(c).peer \in Nodes
      /\ Chain(stack[c])
  BY <1>1, TopFrame
<1>3. /\ f \in FrameType /\ f.at = Here(c) /\ f.key = Key(c) /\ f.pc = "http"
      /\ f.peer = Top(c).peer /\ f.val = Top(c).val
  BY <1>2 DEF FrameType, Places, Here, Key
<1>4. /\ g \in FrameType /\ g.at = Top(c).peer /\ g.key = Key(c) /\ g.pc = "get"
      /\ Honest(g)
  BY <1>2, GeeCacheAssumption DEF FrameType, Places, Frame, Honest
<1>5. stack' = [stack EXCEPT ![c] = st]
  BY DEF Lead, Top
<1> HIDE DEF f, g
<1>6. Honest(f) /\ (~split => RightWay(f)) /\ RightWay(g)
  BY <1>1, <1>2, <1>3, <1>4 DEF Honest, RightWay, Here, Key
<1>7. /\ Chain(st)
      /\ \A i \in 1 .. Len(st) :
            st[i] = f \/ st[i] = g \/ \E j \in 1 .. Len(stack[c]) : st[i] = stack[c][j]
  <2>1. f.at = Last(stack[c]).at /\ f.key = Last(stack[c]).key /\ g.at = f.peer /\ g.key = f.key
    BY <1>3, <1>4 DEF Here, Key, Top
  <2>2. f.pc = "http" /\ g.pc # "http"
    BY <1>3, <1>4
  <2> QED BY <1>1, <1>2, <1>3, <1>4, <1>6, <2>1, <2>2, Pushed
<1> HIDE DEF st
<1>8. ASSUME NEW i \in 1 .. Len(st)
      PROVE  \/ ~split => RightWay(st[i])
             \/ \E j \in 1 .. Len(stack[c]) : st[i] = stack[c][j]
  BY <1>6, <1>7, Zenon
<1>9. stack' \in [Callers -> Seq(FrameType)] /\ StacksChained' /\ Agreed'
  BY <1>5, <1>7, <1>8, NewStack DEF Lead
<1> QED BY <1>1, <1>2, <1>9, FlightLed DEF IInv, Typed, RingsMade, Listed, ringVars, Lead

LEMMA LeadPanicsIInv == ASSUME IInv, NEW c \in Callers, LeadPanics(c) PROVE IInv'
<1>1. /\ stack[c] # <<>> /\ Top(c).pc = "do"
      /\ flight' = [flight EXCEPT ![Here(c)][Key(c)].by = c]
  BY DEF LeadPanics, At
<1>2. Here(c) \in Nodes /\ Key(c) \in Keys
  BY <1>1, TopFrame
<1>3. stack' \in [Callers -> Seq(FrameType)] /\ StacksChained' /\ Agreed'
  <2>1. CASE stack' = [stack EXCEPT ![c] = <<>>]
    <3> DEFINE st == <<>>
    <3>1. Chain(st) /\ \A i \in 1 .. Len(st) : RightWay(st[i])
      BY DEF Chain
    <3> HIDE DEF st
    <3>2. stack' = [stack EXCEPT ![c] = st]
      BY <2>1 DEF st
    <3> QED BY <3>1, <3>2, NewStack DEF LeadPanics
  <2>2. CASE Done(c, Error)
    <3>1. Error \notin Values
      BY GeeCacheAssumption
    <3> QED BY <1>1, <2>2, <3>1, DoneStacks DEF LeadPanics
  <2> QED BY <2>1, <2>2 DEF LeadPanics
<1> QED BY <1>1, <1>2, <1>3, FlightLed DEF IInv, Typed, RingsMade, Listed, ringVars, LeadPanics

LEMMA ForgetIInv == ASSUME IInv, NEW c \in Callers, Forget(c) PROVE IInv'
<1>1. /\ stack[c] # <<>> /\ Top(c).pc = "landed" /\ Goto(c, "done")
      /\ flight' = [flight EXCEPT ![Here(c)][Key(c)] = NoFlight]
  BY DEF Forget, At
<1>2. /\ Here(c) \in Nodes /\ Key(c) \in Keys /\ Top(c).val \in Values \cup {Error}
  BY <1>1, TopFrame DEF Honest
<1>3. stack' \in [Callers -> Seq(FrameType)] /\ StacksChained' /\ Agreed'
  <2>1. "done" \in Places
    BY DEF Places
  <2> QED BY <1>1, <1>2, <2>1, GotoStacks DEF Forget
<1>4. NoFlight \in [by : Callers \cup {Nobody}, val : Values \cup {Pending, Error}]
      /\ NoFlight.val \notin Values
  BY GeeCacheAssumption DEF NoFlight
<1>5. FlightsHonest' /\ flight' \in [Nodes -> [Keys -> [by : Callers \cup {Nobody},
                                      val : Values \cup {Pending, Error}]]]
  BY <1>1, <1>2, <1>4 DEF FlightsHonest, IInv, Typed
<1> QED BY <1>3, <1>5 DEF IInv, Typed, RingsMade, Listed, ringVars, Forget

\* The rings change, but not the way, unless split says so.
LEMMA NewRings ==
    ASSUME IInv, UNCHANGED <<db, cache, flight, stack>>,
           peers' \in [Nodes -> InitLists \cup NextLists \cup {<<>>}],
           adding' \in [Nodes -> NextLists \cup {<<>>}],
           sets' \in 0 .. MaxSets, split' \in BOOLEAN, split => split',
           \A n \in Nodes : Listed(n)' # <<>>,
           ~split' => \A n \in Nodes : Rings[Listed(n)'] = Rings[Listed(n)]
    PROVE  IInv'
<1>1. ASSUME ~split'
      PROVE  /\ \A o, n \in Nodes : Rings[Listed(o)'] = Rings[Listed(n)']
             /\ \A c \in Callers : \A i \in 1 .. Len(stack[c]) : RightWay(stack[c][i])'
  <2>1. /\ \A o, n \in Nodes : Rings[Listed(o)] = Rings[Listed(n)]
        /\ \A c \in Callers : \A i \in 1 .. Len(stack[c]) : RightWay(stack[c][i])
    BY <1>1, Zenon DEF IInv, Agreed
  <2>2. ASSUME NEW o \in Nodes, NEW n \in Nodes
        PROVE  Rings[Listed(o)'] = Rings[Listed(n)']
    BY <1>1, <2>1, Zenon
  <2>3. ASSUME NEW c \in Callers, NEW i \in 1 .. Len(stack[c])
        PROVE  RightWay(stack[c][i])'
    <3>1. RightWay(stack[c][i]) /\ stack' = stack
      BY <2>1
    <3> QED BY <1>1, <3>1, Zenon DEF RightWay
  <2> QED BY <2>2, <2>3
<1>2. Agreed'
  BY <1>1, Zenon DEF Agreed
<1> QED BY <1>2 DEF IInv, Typed, RingsMade, StacksChained, FlightsHonest

LEMMA SetNewIInv ==
    ASSUME IInv, NEW n \in Nodes, NEW list \in NextLists, SetNew(n, list)
    PROVE  IInv'
<1>1. list # <<>>
  BY GeeCacheAssumption
<1>2. /\ peers' = [peers EXCEPT ![n] = <<>>] /\ adding' = [adding EXCEPT ![n] = list]
      /\ sets' = sets + 1 /\ sets < MaxSets
      /\ split' = (split \/ \E o \in Nodes : Rings[list] # Rings[Listed(o)])
  BY DEF SetNew
<1>3. /\ peers' \in [Nodes -> InitLists \cup NextLists \cup {<<>>}]
      /\ adding' \in [Nodes -> NextLists \cup {<<>>}]
  BY <1>2 DEF IInv, Typed
<1>4. sets' \in 0 .. MaxSets
  BY <1>2, GeeCacheAssumption DEF IInv, Typed
<1>5. \A o \in Nodes : Listed(o)' = IF o = n THEN list ELSE Listed(o)
  BY <1>1, <1>2 DEF IInv, Typed, Listed
<1>6. ASSUME NEW o \in Nodes
      PROVE  Listed(o)' # <<>> /\ (~split' => Rings[Listed(o)'] = Rings[Listed(o)])
  BY <1>1, <1>2, <1>5 DEF IInv, RingsMade
<1>7. split' \in BOOLEAN /\ (split => split')
  BY <1>2
<1> QED BY <1>3, <1>4, <1>6, <1>7, NewRings DEF SetNew

LEMMA SetAddIInv == ASSUME IInv, NEW n \in Nodes, SetAdd(n) PROVE IInv'
<1>1. /\ adding[n] # <<>> /\ UNCHANGED <<sets, split>>
      /\ peers' = [peers EXCEPT ![n] = adding[n]] /\ adding' = [adding EXCEPT ![n] = <<>>]
  BY DEF SetAdd
<1>2. /\ peers' \in [Nodes -> InitLists \cup NextLists \cup {<<>>}]
      /\ adding' \in [Nodes -> NextLists \cup {<<>>}]
      /\ sets' \in 0 .. MaxSets /\ split' \in BOOLEAN
  BY <1>1 DEF IInv, Typed
<1>3. \A o \in Nodes : Listed(o)' = Listed(o)
  BY <1>1 DEF IInv, Typed, Listed
<1> QED BY <1>1, <1>2, <1>3, NewRings DEF SetAdd, IInv, RingsMade

\* Those who are woken have the value, the others what they had.
LEMMA WokenIs ==
    ASSUME NEW st, Chain(st), NEW n, NEW k, NEW v \in Values \cup {Error},
           v \in Values => KeyOf(v) = k
    PROVE  LET new == Woken(st, n, k, v)
           IN /\ Chain(new)
              /\ \A i \in 1 .. Len(new) :
                    RightWay(new[i]) \/ \E j \in 1 .. Len(st) : new[i] = st[j]
<1> DEFINE new == Woken(st, n, k, v)
           waits == st # <<>> /\ Last(st).pc = "wait" /\ Last(st).at = n /\ Last(st).key = k
           f == [Last(st) EXCEPT !.pc = "done", !.val = v]
<1>1. CASE waits
  <2>1. new = Append(Front(st), f)
    BY <1>1 DEF Woken
  <2>2. Last(st) \in FrameType
    BY <1>1, FrontOf DEF Chain
  <2>3. /\ f \in FrameType /\ f.at = Last(st).at /\ f.key = Last(st).key /\ f.key = k
        /\ f.pc = "done" /\ f.val = v
    BY <1>1, <2>2 DEF FrameType, Places
  <2> HIDE DEF f
  <2>4. Honest(f) /\ RightWay(f) /\ f.pc # "http"
    BY <2>3 DEF Honest, RightWay
  <2>5. /\ Chain(new)
        /\ \A i \in 1 .. Len(new) : new[i] = f \/ \E j \in 1 .. Len(st) : new[i] = st[j]
    BY <1>1, <2>1, <2>3, <2>4, Replaced
  <2> HIDE DEF new
  <2> QED BY <2>4, <2>5, Zenon DEF new
<1>2. CASE ~waits
  <2>1. new = st
    BY <1>2, Zenon DEF Woken
  <2> HIDE DEF new
  <2> QED BY <2>1 DEF new
<1> QED BY <1>1, <1>2

LEMMA AnswerIInv == ASSUME IInv, NEW c \in Callers, Answer(c) PROVE IInv'
<1> DEFINE below == stack[c][Len(stack[c]) - 1]
           n == below.at
<1>1. stack[c] # <<>> /\ Len(stack[c]) > 1
  BY DEF Answer, Answered, At
<1>2. /\ Chain(stack[c]) /\ stack[c] \in Seq(FrameType)
      /\ Len(stack[c]) \in Nat \ {0} /\ Top(c) = stack[c][Len(stack[c])]
      /\ Top(c).val \in Values \cup {Pending, Error}
      /\ (Top(c).val \in Values => KeyOf(Top(c).val) = Key(c))
      /\ Key(c) \in Keys
  BY <1>1, TopFrame DEF Honest, Key, FrameType
<1>3. /\ below \in FrameType /\ below.pc = "http" /\ below.key = Key(c) /\ n \in Nodes
      /\ ~split => RightWay(below)
  <2>1. Len(stack[c]) - 1 \in 1 .. Len(stack[c])
    BY <1>1, <1>2
  <2>2. below.pc = "http" /\ Top(c).key = below.key
    BY <1>1, <1>2, <2>1 DEF Chain
  <2>3. below \in FrameType
    BY <1>2, <2>1
  <2>4. ~split => RightWay(below)
    BY <2>1, Zenon DEF IInv, Agreed
  <2> QED BY <2>2, <2>3, <2>4 DEF FrameType, Key
<1>4. Last(Front(stack[c])) = below
  <2>1. /\ Front(stack[c]) \in Seq(FrameType) /\ Len(Front(stack[c])) = Len(stack[c]) - 1
        /\ \A i \in 1 .. Len(stack[c]) - 1 : Front(stack[c])[i] = stack[c][i]
    BY <1>1, <1>2, FrontOf
  <2>2. Last(Front(stack[c])) = Front(stack[c])[Len(stack[c]) - 1]
    BY <2>1 DEF Last
  <2>3. Len(stack[c]) - 1 \in 1 .. Len(stack[c]) - 1
    BY <1>1, <1>2
  <2> QED BY <2>1, <2>2, <2>3
<1>5. PICK v \in Received(c) :
         /\ flight' = [flight EXCEPT ![n][Key(c)].val = v]
         /\ stack' = [d \in Callers |->
                IF d = c THEN Append(Front(Front(stack[c])),
                    [Last(Front(stack[c])) EXCEPT !.pc = "landed", !.val = v])
                ELSE Woken(stack[d], n, Key(c), v)]
  BY Zenon DEF Answer
<1>6. v \in Values \cup {Error} /\ (v \in Values => KeyOf(v) = Key(c))
  BY <1>2, GeeCacheAssumption DEF Received
<1> HIDE DEF below
<1>7. ASSUME NEW d \in Callers
      PROVE  /\ Chain(stack'[d])
             /\ \A i \in 1 .. Len(stack'[d]) :
                   \/ ~split => RightWay(stack'[d][i])
                   \/ \E j \in 1 .. Len(stack[d]) : stack'[d][i] = stack[d][j]
  <2>1. CASE d = c
    <3> DEFINE f == [below EXCEPT !.pc = "landed", !.val = v]
               st == Append(Front(Front(stack[c])), f)
    <3>1. /\ f \in FrameType /\ f.at = below.at /\ f.key = below.key /\ f.pc = "landed"
          /\ f.peer = below.peer /\ f.val = v
      BY <1>3, <1>6 DEF FrameType, Places
    <3>2. stack'[d] = st
      BY <1>4, <1>5, <2>1
    <3> HIDE DEF f
    <3>3. Honest(f) /\ (~split => RightWay(f))
      BY <1>3, <1>6, <3>1 DEF Honest, RightWay
    <3>4. /\ Chain(st)
          /\ \A i \in 1 .. Len(st) : st[i] = f \/ \E j \in 1 .. Len(stack[c]) : st[i] = stack[c][j]
      <4>1. f.pc # "http" /\ f.at = stack[c][Len(stack[c]) - 1].at /\ f.key = stack[c][Len(stack[c]) - 1].key
        BY <3>1 DEF below
      <4> QED BY <1>1, <1>2, <3>1, <3>3, <4>1, Popped
    <3> HIDE DEF st
    <3> QED BY <2>1, <3>2, <3>3, <3>4, Zenon
  <2>2. CASE d # c
    <3>1. stack'[d] = Woken(stack[d], n, Key(c), v)
      BY <1>5, <2>2
    <3>2. Chain(stack[d])
      BY DEF IInv, StacksChained
    <3> DEFINE new == Woken(stack[d], n, Key(c), v)
    <3>3. /\ Chain(new)
          /\ \A i \in 1 .. Len(new) :
                RightWay(new[i]) \/ \E j \in 1 .. Len(stack[d]) : new[i] = stack[d][j]
      BY <1>6, <3>2, WokenIs
    <3> HIDE DEF new
    <3>4. stack'[d] = new
      BY <3>1 DEF new
    <3> QED BY <3>3, <3>4, Zenon
  <2> QED BY <2>1, <2>2
<1>8. stack' = [d \in Callers |-> stack'[d]]
  BY <1>5
<1>9. stack' \in [Callers -> Seq(FrameType)] /\ StacksChained' /\ Agreed'
  BY <1>7, <1>8, NewStacks DEF Answer
<1>10. FlightsHonest' /\ flight' \in [Nodes -> [Keys -> [by : Callers \cup {Nobody},
                                      val : Values \cup {Pending, Error}]]]
  <2>1. flight \in [Nodes -> [Keys -> [by : Callers \cup {Nobody},
                                      val : Values \cup {Pending, Error}]]]
    BY DEF IInv, Typed
  <2>2. v \in Values \cup {Pending, Error}
    BY <1>6
  <2> HIDE DEF n
  <2>3. flight' = [flight EXCEPT ![n][Key(c)].val = v]
    BY <1>5
  <2>4. n \in Nodes /\ Key(c) \in Keys
    BY <1>2, <1>3
  <2>5. flight' \in [Nodes -> [Keys -> [by : Callers \cup {Nobody},
                                      val : Values \cup {Pending, Error}]]]
    BY SMTT(30), <2>1, <2>2, <2>3, <2>4
  <2>6. FlightsHonest'
    BY <1>6, <2>1, <2>3, <2>4 DEF FlightsHonest, IInv
  <2> QED BY <2>5, <2>6
<1> QED BY <1>9, <1>10 DEF IInv, Typed, RingsMade, Listed, ringVars, Answer

\* A stack is cut: the frame at i becomes f, ...
LEMMA CutBelow ==
    ASSUME NEW st, Chain(st), NEW i \in 1 .. Len(st),
           NEW f \in FrameType, Honest(f), f.pc # "http", f.at = st[i].at, f.key = st[i].key
    PROVE  LET new == Append(SubSeq(st, 1, i - 1), f)
           IN /\ Chain(new)
              /\ \A r \in 1 .. Len(new) : new[r] = f \/ \E j \in 1 .. Len(st) : new[r] = st[j]
<1> DEFINE pre == SubSeq(st, 1, i - 1)
           new == Append(pre, f)
<1>1. st \in Seq(FrameType) /\ Len(st) \in Nat /\ i \in Nat \ {0} /\ i <= Len(st)
      /\ \A j \in 1 .. Len(st) : st[j] \in FrameType
  BY DEF Chain
<1>2. /\ pre \in Seq(FrameType) /\ Len(pre) = i - 1
      /\ \A j \in 1 .. i - 1 : pre[j] = st[j]
  <2>1. /\ i - 1 \in Int /\ 1 \in Int /\ \A j \in 1 .. i - 1 : st[j] \in FrameType
    BY <1>1
  <2>2. /\ pre \in Seq(FrameType)
        /\ Len(pre) = IF 1 <= i - 1 THEN (i - 1) - 1 + 1 ELSE 0
        /\ \A j \in 1 .. (i - 1) - 1 + 1 : pre[j] = st[1 + j - 1]
    BY <2>1, SubSeqProperties
  <2>3. \A o \in Nat : /\ o - 1 + 1 = o /\ (IF 1 <= o THEN o - 1 + 1 ELSE 0) = o
                       /\ \A j \in 1 .. o : 1 + j - 1 = j
    OBVIOUS
  <2>4. i - 1 \in Nat
    BY <1>1
  <2> HIDE DEF pre
  <2>5. Len(pre) = i - 1
    BY <2>2, <2>3, <2>4, Zenon
  <2>6. \A j \in 1 .. i - 1 : pre[j] = st[j]
    BY <2>2, <2>3, <2>4, Zenon
  <2> QED BY <2>2, <2>5, <2>6
<1> HIDE DEF pre
<1>3. /\ new \in Seq(FrameType) /\ Len(new) = i /\ new[i] = f
      /\ \A j \in 1 .. i - 1 : new[j] = st[j]
  BY <1>1, <1>2, AppendOf
<1> HIDE DEF new
<1>4. ASSUME NEW r \in 1 .. Len(new)
      PROVE  /\ Honest(new[r])
             /\ r = Len(new) <=> new[r].pc # "http"
             /\ r < Len(new) => new[r + 1].at = new[r].peer /\ new[r + 1].key = new[r].key
             /\ new[r] = f \/ \E j \in 1 .. Len(st) : new[r] = st[j]
  <2>1. CASE r = i
    BY <1>1, <1>3, <2>1
  <2>2. CASE r < i
    <3>1. r \in 1 .. Len(st) /\ new[r] = st[r] /\ r + 1 \in 1 .. Len(st) /\ r < Len(st)
      BY <1>1, <1>3, <2>2
    <3>2. /\ Honest(st[r]) /\ st[r].pc = "http"
          /\ st[r + 1].at = st[r].peer /\ st[r + 1].key = st[r].key
      BY <1>1, <3>1 DEF Chain
    <3>3. new[r + 1].at = st[r + 1].at /\ new[r + 1].key = st[r + 1].key
      <4>1. CASE r + 1 = i
        BY <1>3, <4>1
      <4>2. CASE r + 1 < i
        BY <1>1, <1>3, <4>2
      <4> QED BY <1>1, <2>2, <4>1, <4>2
    <3> QED BY <1>3, <2>2, <3>1, <3>2, <3>3
  <2> QED BY <1>1, <1>3, <2>1, <2>2
<1>5. Chain(new)
  BY <1>3, <1>4 DEF Chain
<1> QED BY <1>4, <1>5 DEF new, pre

\* ... and those above it make a stack of their own.
LEMMA CutAbove ==
    ASSUME NEW st, Chain(st), NEW i \in 1 .. Len(st), i < Len(st)
    PROVE  LET new == SubSeq(st, i + 1, Len(st))
           IN /\ Chain(new)
              /\ \A r \in 1 .. Len(new) : \E j \in 1 .. Len(st) : new[r] = st[j]
<1> DEFINE new == SubSeq(st, i + 1, Len(st))
           len == Len(st) - i
<1>1. st \in Seq(FrameType) /\ Len(st) \in Nat /\ i \in Nat \ {0}
      /\ \A j \in 1 .. Len(st) : st[j] \in FrameType
  BY DEF Chain
<1>2. /\ new \in Seq(FrameType) /\ Len(new) = len
      /\ \A r \in 1 .. len : new[r] = st[i + r]
  <2>1. /\ i + 1 \in Int /\ Len(st) \in Int /\ \A j \in i + 1 .. Len(st) : st[j] \in FrameType
        /\ i + 1 <= Len(st)
    BY <1>1
  <2>2. /\ new \in Seq(FrameType)
        /\ Len(new) = IF i + 1 <= Len(st) THEN Len(st) - (i + 1) + 1 ELSE 0
        /\ \A r \in 1 .. Len(st) - (i + 1) + 1 : new[r] = st[(i + 1) + r - 1]
    BY <2>1, SubSeqProperties
  <2>3. Len(st) - (i + 1) + 1 = len /\ \A r \in 1 .. len : (i + 1) + r - 1 = i + r
    BY <1>1
  <2> HIDE DEF new, len
  <2> QED BY <2>1, <2>2, <2>3, Zenon
<1> HIDE DEF new
<1>3. ASSUME NEW r \in 1 .. len
      PROVE  /\ Honest(new[r])
             /\ r = len <=> new[r].pc # "http"
             /\ r < len => new[r + 1].at = new[r].peer /\ new[r + 1].key = new[r].key
             /\ \E j \in 1 .. Len(st) : new[r] = st[j]
  <2>1. i + r \in 1 .. Len(st) /\ new[r] = st[i + r] /\ (r = len <=> i + r = Len(st))
        /\ (r < len <=> i + r < Len(st))
    BY <1>1, <1>2
  <2>2. /\ Honest(st[i + r]) /\ (i + r = Len(st) <=> st[i + r].pc # "http")
        /\ i + r < Len(st) => /\ st[i + r + 1].at = st[i + r].peer
                              /\ st[i + r + 1].key = st[i + r].key
    BY <2>1 DEF Chain
  <2>3. ASSUME r < len
        PROVE  new[r + 1] = st[i + r + 1]
    <3>1. r + 1 \in 1 .. len /\ i + (r + 1) = i + r + 1
      BY <1>1, <2>3
    <3> HIDE DEF len
    <3>2. new[r + 1] = st[i + (r + 1)]
      BY <1>2, <3>1
    <3> QED BY <3>1, <3>2, Zenon
  <2> HIDE DEF len
  <2> QED BY <2>1, <2>2, <2>3
<1>4. Chain(new)
  BY <1>2, <1>3 DEF Chain
<1> QED BY <1>2, <1>3, <1>4 DEF new

LEMMA BreakIInv == ASSUME IInv, NEW c \in Callers, NEW d \in Callers, Break(c, d) PROVE IInv'
<1>1. PICK i \in DOMAIN stack[c] :
         LET f == stack[c][i]
             cut == [stack EXCEPT
                        ![c] = Append(SubSeq(@, 1, i - 1), [f EXCEPT !.pc = "landed", !.val = Error]),
                        ![d] = SubSeq(stack[c], i + 1, Len(stack[c]))]
             Above(n, k) == \E j \in i + 1 .. Len(stack[c]) :
                                stack[c][j].pc = "http" /\ stack[c][j].at = n /\ stack[c][j].key = k
         IN /\ f.pc = "http"
            /\ stack' = [e \in Callers |-> Woken(cut[e], f.at, f.key, Error)]
            /\ flight' = [n \in Nodes |-> [k \in Keys |->
                   [by |-> IF Above(n, k) THEN d ELSE flight[n][k].by,
                    val |-> IF n = f.at /\ k = f.key THEN Error ELSE flight[n][k].val]]]
  BY Zenon DEF Break
<1> DEFINE f == stack[c][i]
           g == [f EXCEPT !.pc = "landed", !.val = Error]
           below == Append(SubSeq(stack[c], 1, i - 1), g)
           above == SubSeq(stack[c], i + 1, Len(stack[c]))
           cut == [stack EXCEPT ![c] = below, ![d] = above]
<1>2. stack[d] = <<>> /\ UNCHANGED ringVars
  BY DEF Break
<1>3. /\ Chain(stack[c]) /\ stack[c] \in Seq(FrameType) /\ stack \in [Callers -> Seq(FrameType)]
      /\ i \in 1 .. Len(stack[c]) /\ c # d
  <2>1. Chain(stack[c]) /\ stack[c] \in Seq(FrameType) /\ stack \in [Callers -> Seq(FrameType)]
    BY DEF IInv, Typed, StacksChained
  <2>2. i \in 1 .. Len(stack[c])
    BY <2>1
  <2> QED BY <1>2, <2>1, <2>2
<1>4. f \in FrameType /\ f.pc = "http" /\ i < Len(stack[c]) /\ (~split => RightWay(f))
  <2>1. f.pc = "http"
    BY <1>1
  <2>2. ~split => RightWay(f)
    BY <1>3, Zenon DEF IInv, Agreed
  <2>3. i # Len(stack[c])
    BY <1>3, <2>1 DEF Chain
  <2> QED BY <1>3, <2>1, <2>2, <2>3
<1>5. /\ stack' = [e \in Callers |-> Woken(cut[e], f.at, f.key, Error)]
  BY <1>1
<1> HIDE DEF f
<1>6. /\ g \in FrameType /\ g.at = f.at /\ g.key = f.key /\ g.peer = f.peer
      /\ g.pc = "landed" /\ g.val = Error
  BY <1>4 DEF FrameType, Places
<1> HIDE DEF g
<1>7. Error \notin Values /\ Honest(g) /\ (~split => RightWay(g))
  BY <1>4, <1>6, GeeCacheAssumption DEF Honest, RightWay
<1>8. /\ Chain(below)
      /\ \A r \in 1 .. Len(below) :
            below[r] = g \/ \E j \in 1 .. Len(stack[c]) : below[r] = stack[c][j]
  <2>1. g.pc # "http" /\ g.at = stack[c][i].at /\ g.key = stack[c][i].key
    BY <1>6 DEF f
  <2> QED BY <1>3, <1>6, <1>7, <2>1, CutBelow
<1>9. /\ Chain(above)
      /\ \A r \in 1 .. Len(above) : \E j \in 1 .. Len(stack[c]) : above[r] = stack[c][j]
  BY <1>3, <1>4, CutAbove
<1> HIDE DEF below, above
<1>10. ASSUME ~split, NEW j \in 1 .. Len(stack[c])
       PROVE  RightWay(stack[c][j])
  BY <1>10, Zenon DEF IInv, Agreed
<1>11. ASSUME NEW e \in Callers
       PROVE  /\ Chain(cut[e])
              /\ \A r \in 1 .. Len(cut[e]) :
                    \/ ~split => RightWay(cut[e][r])
                    \/ \E j \in 1 .. Len(stack[e]) : cut[e][r] = stack[e][j]
  <2>1. CASE e = c
    <3>1. cut[e] = below
      BY <1>3, <2>1
    <3> HIDE DEF cut
    <3> QED BY <1>7, <1>8, <2>1, <3>1, Zenon
  <2>2. CASE e = d
    <3>1. cut[e] = above
      BY <1>3, <2>2
    <3> HIDE DEF cut
    <3>2. ASSUME ~split, NEW r \in 1 .. Len(above)
          PROVE  RightWay(above[r])
      BY <1>9, <1>10, <3>2, Zenon
    <3> QED BY <1>9, <3>1, <3>2, Zenon
  <2>3. CASE e # c /\ e # d
    <3>1. cut[e] = stack[e]
      BY <1>3, <2>3
    <3> HIDE DEF cut
    <3>2. Chain(stack[e])
      BY DEF IInv, StacksChained
    <3> QED BY <3>1, <3>2
  <2> QED BY <2>1, <2>2, <2>3
<1> HIDE DEF cut
<1>12. ASSUME NEW e \in Callers
       PROVE  /\ Chain(stack'[e])
              /\ \A r \in 1 .. Len(stack'[e]) :
                    \/ ~split => RightWay(stack'[e][r])
                    \/ \E j \in 1 .. Len(stack[e]) : stack'[e][r] = stack[e][j]
  <2> DEFINE new == Woken(cut[e], f.at, f.key, Error)
  <2>1. /\ Chain(new)
        /\ \A r \in 1 .. Len(new) :
              RightWay(new[r]) \/ \E j \in 1 .. Len(cut[e]) : new[r] = cut[e][j]
    BY <1>7, <1>11, WokenIs
  <2>2. stack'[e] = new
    BY <1>5
  <2> HIDE DEF new
  <2>3. ASSUME NEW r \in 1 .. Len(new)
        PROVE  \/ ~split => RightWay(new[r])
               \/ \E j \in 1 .. Len(stack[e]) : new[r] = stack[e][j]
    <3>1. CASE RightWay(new[r])
      BY <3>1
    <3>2. ASSUME NEW j \in 1 .. Len(cut[e]), new[r] = cut[e][j]
          PROVE  \/ ~split => RightWay(new[r])
                 \/ \E l \in 1 .. Len(stack[e]) : new[r] = stack[e][l]
      BY <1>11, <3>2
    <3> QED BY <2>1, <3>1, <3>2
  <2> QED BY <2>1, <2>2, <2>3, Zenon
<1>13. stack' \in [Callers -> Seq(FrameType)] /\ StacksChained' /\ Agreed'
  <2>1. stack' = [e \in Callers |-> stack'[e]]
    BY <1>5
  <2> QED BY <1>2, <1>12, <2>1, NewStacks
<1>14. FlightsHonest' /\ flight' \in [Nodes -> [Keys -> [by : Callers \cup {Nobody},
                                      val : Values \cup {Pending, Error}]]]
  <2>1. /\ flight' = [n \in Nodes |-> [k \in Keys |-> flight'[n][k]]]
        /\ \A n \in Nodes, k \in Keys :
              /\ flight'[n][k] = [by |-> flight'[n][k].by, val |-> flight'[n][k].val]
              /\ flight'[n][k].by \in {d, flight[n][k].by}
              /\ flight'[n][k].val \in {Error, flight[n][k].val}
    BY <1>1, Zenon
  <2>2. \A n \in Nodes, k \in Keys :
           /\ flight[n][k].by \in Callers \cup {Nobody}
           /\ flight[n][k].val \in Values \cup {Pending, Error}
           /\ flight[n][k].val \in Values => KeyOf(flight[n][k].val) = k
    BY DEF IInv, Typed, FlightsHonest
  <2>3. ASSUME NEW n \in Nodes, NEW k \in Keys
        PROVE  /\ flight'[n][k] \in [by : Callers \cup {Nobody}, val : Values \cup {Pending, Error}]
               /\ flight'[n][k].val \in Values => KeyOf(flight'[n][k].val) = k
    <3> DEFINE b == flight'[n][k].by
               v == flight'[n][k].val
    <3>1. b \in {d, flight[n][k].by} /\ v \in {Error, flight[n][k].val}
          /\ flight'[n][k] = [by |-> b, val |-> v]
      BY <2>1, Zenon
    <3> HIDE DEF b, v
    <3>2. b \in Callers \cup {Nobody} /\ v \in Values \cup {Pending, Error}
          /\ (v \in Values => KeyOf(v) = k)
      BY <1>7, <2>2, <3>1
    <3>3. flight'[n][k] \in [by : Callers \cup {Nobody}, val : Values \cup {Pending, Error}]
      BY <3>1, <3>2
    <3> QED BY <3>2, <3>3 DEF v
  <2>4. flight' \in [Nodes -> [Keys -> [by : Callers \cup {Nobody},
                                        val : Values \cup {Pending, Error}]]]
    BY <2>1, <2>3
  <2> QED BY <2>3, <2>4 DEF FlightsHonest
<1> QED BY <1>13, <1>14 DEF IInv, Typed, RingsMade, Listed, ringVars, Break

LEMMA NextIInv == IInv /\ [Next]_vars => IInv'
<1> SUFFICES ASSUME IInv, [Next]_vars PROVE IInv'
  OBVIOUS
<1>1. CASE UNCHANGED vars
  BY <1>1 DEF vars, ringVars, IInv, Typed, RingsMade, Listed, StacksChained, FlightsHonest,
              Agreed, RightWay
<1>2. ASSUME NEW c \in Callers, Work(c)
      PROVE  IInv'
  <2>1. CASE Return(c)
    BY <2>1, AskOrReturn DEF Return
  <2> QED BY <1>2, <2>1, LookUpIInv, PickPeerIInv, FetchIInv, AddLocallyIInv, JoinIInv, LeadIInv,
             LeadPanicsIInv, AnswerIInv, ForgetIInv DEF Work
<1>3. ASSUME NEW c \in Callers, NEW n \in Nodes, NEW k \in Keys, Ask(c, n, k)
      PROVE  IInv'
  BY <1>3, AskOrReturn DEF Ask
<1>4. ASSUME NEW k \in Changing, Change(k)
      PROVE  IInv'
  <2>1. db' \in [Keys -> 0 .. MaxVersion]
    BY <1>4, GeeCacheAssumption DEF Change, IInv, Typed
  <2>2. UNCHANGED <<ringVars, cache, flight, stack>>
    BY <1>4 DEF Change
  <2> QED BY <2>1, <2>2 DEF ringVars, IInv, Typed, RingsMade, Listed, StacksChained,
                            FlightsHonest, Agreed, RightWay
<1>5. ASSUME NEW n \in Nodes, SetAdd(n)
      PROVE  IInv'
  BY <1>5, SetAddIInv
<1>6. ASSUME NEW n \in Nodes, NEW list \in NextLists, SetNew(n, list)
      PROVE  IInv'
  BY <1>6, SetNewIInv
<1>7. ASSUME NEW c \in Callers, NEW d \in Callers, Break(c, d)
      PROVE  IInv'
  BY <1>7, BreakIInv
<1> QED BY <1>1, <1>2, <1>3, <1>4, <1>5, <1>6, <1>7, Zenon DEF Next

\* All along, the inductive invariant holds.
THEOREM Invariance == Spec => []IInv
<1> QED BY InitIInv, NextIInv, PTL DEF Spec

-----------------------------------------------------------------------------
(* The properties. *)

\* Every variable keeps to its type; a Get that is over has a value or an error.
THEOREM TypeCorrect == Spec => []TypeOK
<1>1. IInv => TypeOK
  <2> SUFFICES ASSUME IInv PROVE TypeOK
    OBVIOUS
  <2>1. ASSUME NEW c \in Callers, NEW i \in DOMAIN stack[c]
        PROVE  /\ stack[c][i].at \in Nodes /\ stack[c][i].key \in Keys /\ stack[c][i].peer \in Nodes
               /\ stack[c][i].pc \in {"get", "load", "fetch", "add", "do", "wait", "http",
                                      "landed", "done"}
               /\ stack[c][i].val \in
                      IF stack[c][i].pc = "done" THEN Values \cup {Error}
                      ELSE Values \cup {Pending, Error}
    <3>1. stack[c] \in Seq(FrameType) /\ i \in 1 .. Len(stack[c])
      BY DEF IInv, Typed
    <3>2. stack[c][i] \in FrameType /\ Honest(stack[c][i])
      BY <3>1 DEF IInv, StacksChained, Chain
    <3> QED BY <3>2 DEF FrameType, Places, Honest
  <2>2. ASSUME NEW n \in Nodes
        PROVE  cache[n].ll \in Seq(Values) /\ cache[n].nBytes \in Int
    BY DEF IInv, Typed, CacheType
  <2> QED BY <2>1, <2>2 DEF IInv, Typed, TypeOK
<1> QED BY <1>1, Invariance, PTL

\* A Get returns a value of its own key, through any chain of nodes and flights:
\* frames of one caller are about one key, and so are all that share a flight.
THEOREM OwnValue == Spec => []RightValue
<1>1. IInv => RightValue
  <2> SUFFICES ASSUME IInv PROVE RightValue
    OBVIOUS
  <2>1. ASSUME NEW c \in Callers, NEW i \in DOMAIN stack[c]
        PROVE  Honest(stack[c][i])
    <3>1. i \in 1 .. Len(stack[c])
      BY DEF IInv, Typed
    <3> QED BY <3>1 DEF IInv, StacksChained, Chain
  <2> QED BY <2>1 DEF Honest, IInv, FlightsHonest, RightValue
<1> QED BY <1>1, Invariance, PTL

\* As long as all rings have agreed nobody waits who leads a flight as well: the
\* frame that waits is at another node than the owner of its key, and a frame under
\* it would have sent it to the owner.  So waiting ends at somebody who does not wait.
THEOREM CyclesNeedSplit == Spec => []DeadlockNeedsSplit
<1>1. IInv => DeadlockNeedsSplit
  <2> SUFFICES ASSUME IInv, ~split, NEW c \in Callers, Deadlocked(c) PROVE FALSE
    BY DEF DeadlockNeedsSplit
  <2>1. ASSUME NEW d \in Callers, At(d, "wait"), NEW n, NEW k
        PROVE  ~Leads(d, n, k)
    <3> DEFINE len == Len(stack[d])
    <3>1. /\ stack[d] # <<>> /\ Chain(stack[d]) /\ len \in Nat \ {0}
          /\ Top(d) = stack[d][len] /\ Top(d).pc = "wait"
          /\ stack[d] \in Seq(FrameType) /\ RightWay(Top(d))
      BY <2>1, TopFrame DEF At
    <3>2. Here(d) # Top(d).peer /\ \A o \in Nodes : Rings[Listed(o)][Key(d)] = Top(d).peer
      BY <3>1 DEF RightWay, Here, Key
    <3>3. ASSUME len > 1
          PROVE  FALSE
      <4> DEFINE f == stack[d][len - 1]
      <4>1. len - 1 \in 1 .. len /\ len - 1 + 1 = len /\ len - 1 < len
        <5>1. \A o \in Nat \ {0} : o > 1 => o - 1 \in 1 .. o /\ o - 1 + 1 = o /\ o - 1 < o
          OBVIOUS
        <5> QED BY <3>1, <3>3, <5>1, Zenon
      <4>2. f.pc = "http" /\ Top(d).at = f.peer /\ Top(d).key = f.key
        BY <3>1, <4>1 DEF Chain
      <4>3. RightWay(f)
        BY <4>1, Zenon DEF IInv, Agreed
      <4>4. \A o \in Nodes : Rings[Listed(o)][Key(d)] = Here(d)
        BY <4>2, <4>3 DEF RightWay, Here, Key
      <4>5. Here(d) \in Nodes
        BY <3>1, TopFrame
      <4> QED BY <3>2, <4>4, <4>5
    <3>4. len = 1
      <4>1. \A o \in Nat \ {0} : ~(o > 1) => o = 1
        OBVIOUS
      <4> QED BY <3>1, <3>3, <4>1, Zenon
    <3>5. ASSUME NEW i \in DOMAIN stack[d]
          PROVE  stack[d][i].pc = "wait"
      BY <3>1, <3>4
    <3> QED BY <3>5 DEF Leads
  <2>2. PICK some \in SUBSET Callers :
           c \in some /\ \A d \in some : \E e \in some : WaitsFor(d, e)
    BY DEF Deadlocked
  <2>3. PICK e \in some : WaitsFor(c, e)
    BY <2>2
  <2>4. PICK g \in some : WaitsFor(e, g)
    BY <2>2, <2>3
  <2>5. Leads(e, Here(c), Key(c)) /\ At(e, "wait")
    BY <2>3, <2>4 DEF WaitsFor
  <2> QED BY <2>1, <2>5
<1> QED BY <1>1, Invariance, PTL

-----------------------------------------------------------------------------
(* The bytes of a cache. *)

\* Induction: a set with 0 and the successors of its members has all numbers.
LEMMA Induction ==
    ASSUME NEW P, 0 \in P, \A n \in Nat : n \in P => n + 1 \in P
    PROVE  \A n \in Nat : n \in P
<1> SUFFICES ASSUME NEW n \in Nat, n \notin P PROVE FALSE
  OBVIOUS
<1> DEFINE T == Nat \ P
<1>1. PICK x \in T : \A y \in T : x <= y
  <2>1. T \in SUBSET Nat /\ T # {}
    OBVIOUS
  <2> QED BY <2>1, LeastOf
<1>2. x # 0 /\ x \in Nat
  OBVIOUS
<1>3. x - 1 \in Nat /\ ~(x <= x - 1) /\ (x - 1) + 1 = x
  BY <1>2
<1>4. x - 1 \in P
  BY <1>1, <1>3
<1> QED BY <1>3, <1>4

\* Recursion: what is defined step by step exists.
LEMMA Recursion ==
    ASSUME NEW V, NEW base \in V, NEW n \in Nat, NEW step \in [1 .. n -> [V -> V]]
    PROVE  \E f \in [0 .. n -> V] :
              f[0] = base /\ \A i \in 1 .. n : f[i] = step[i][f[i - 1]]
<1> DEFINE Good(k, f) == f[0] = base /\ \A i \in 1 .. k : f[i] = step[i][f[i - 1]]
           P == {k \in Nat : k <= n => \E f \in [0 .. k -> V] : Good(k, f)}
<1>1. 0 \in P
  <2>1. [i \in 0 .. 0 |-> base] \in [0 .. 0 -> V] /\ Good(0, [i \in 0 .. 0 |-> base])
    OBVIOUS
  <2> QED BY <2>1
<1>2. ASSUME NEW k \in Nat, k \in P
      PROVE  k + 1 \in P
  <2> SUFFICES ASSUME k + 1 <= n
               PROVE  \E f \in [0 .. k + 1 -> V] : Good(k + 1, f)
    OBVIOUS
  <2>1. PICK f \in [0 .. k -> V] : Good(k, f)
    BY <1>2
  <2> DEFINE g == [i \in 0 .. k + 1 |-> IF i = k + 1 THEN step[i][f[k]] ELSE f[i]]
  <2>2. step[k + 1][f[k]] \in V
    BY <1>2
  <2>3. g \in [0 .. k + 1 -> V]
    BY <2>2
  <2>4. Good(k + 1, g)
    BY <2>1
  <2> QED BY <2>3, <2>4
<1> HIDE DEF P
<1>3. n \in P
  BY <1>1, <1>2, Induction
<1> QED BY <1>3 DEF P

\* Numbers have sums: of the first of them, and of any of them in whatever order.
Weights(n) == [1 .. n -> Nat]
HasSums(n, w) ==
    \E f \in [0 .. n -> Nat] : f[0] = 0 /\ \A i \in 1 .. n : f[i] = f[i - 1] + w[i]
HasSetSums(n, w) ==
    \E g \in [SUBSET (1 .. n) -> Nat] :
       g[{}] = 0 /\ \A t \in SUBSET (1 .. n) : \A x \in t : g[t] = w[x] + g[t \ {x}]

LEMMA PartialSums ==
    ASSUME NEW n, NEW p, n \in Nat, p \in Weights(n)
    PROVE  HasSums(n, p)
<1> USE DEF Weights
<1> DEFINE V == Nat
           none == 0
           step == [i \in 1 .. n |-> [x \in Nat |-> x + p[i]]]
<1>1. none \in V /\ n \in Nat /\ step \in [1 .. n -> [V -> V]]
  OBVIOUS
<1>2. PICK f \in [0 .. n -> V] : f[0] = none /\ \A i \in 1 .. n : f[i] = step[i][f[i - 1]]
  <2> HIDE DEF V, none, step
  <2>1. \E f \in [0 .. n -> V] :
           f[0] = none /\ \A i \in 1 .. n : f[i] = step[i][f[i - 1]]
    BY ONLY <1>1, Recursion
  <2> QED BY <2>1
<1>3. \A i \in 1 .. n : i - 1 \in 0 .. n
  OBVIOUS
<1> QED BY <1>2, <1>3 DEF HasSums

LEMMA SetSums ==
    ASSUME NEW n, NEW w, n \in Nat, w \in Weights(n)
    PROVE  HasSetSums(n, w)
<1> DEFINE Part(t, i) == IF i \in t THEN w[i] ELSE 0
           Adds(t, f) == f[0] = 0 /\ \A i \in 1 .. n : f[i] = f[i - 1] + Part(t, i)
           sums(t) == CHOOSE f \in [0 .. n -> Nat] : Adds(t, f)
           g == [t \in SUBSET (1 .. n) |-> sums(t)[n]]
<1>0. \A p \in Weights(n) : HasSums(n, p)
  BY PartialSums
<1> USE DEF Weights
<1>1. ASSUME NEW t \in SUBSET (1 .. n)
      PROVE  sums(t) \in [0 .. n -> Nat] /\ Adds(t, sums(t))
  <2> DEFINE p == [i \in 1 .. n |-> Part(t, i)]
  <2>1. n \in Nat /\ p \in [1 .. n -> Nat]
    OBVIOUS
  <2>2. \A i \in 1 .. n : p[i] = Part(t, i)
    OBVIOUS
  <2>3. PICK f \in [0 .. n -> Nat] : f[0] = 0 /\ \A i \in 1 .. n : f[i] = f[i - 1] + p[i]
    <3> HIDE DEF p, Weights
    <3>1. p \in Weights(n)
      BY <2>1 DEF Weights
    <3>2. HasSums(n, p)
      BY <1>0, <3>1
    <3> QED BY <3>2 DEF HasSums
  <2>4. Adds(t, f)
    <3> HIDE DEF Part, p
    <3> QED BY <2>2, <2>3
  <2> HIDE DEF Adds
  <2> QED BY <2>4
<1>2. g \in [SUBSET (1 .. n) -> Nat]
  <2> HIDE DEF sums, Adds
  <2>1. \A t \in SUBSET (1 .. n) : sums(t)[n] \in Nat
    BY <1>1
  <2> QED BY <2>1
<1>3. ASSUME NEW t \in SUBSET (1 .. n), NEW x \in t
      PROVE  sums(t)[n] = w[x] + sums(t \ {x})[n]
  <2> DEFINE f == sums(t)
             h == sums(t \ {x})
             P == {i \in Nat : i <= n => f[i] = h[i] + (IF i < x THEN 0 ELSE w[x])}
  <2>1. /\ f \in [0 .. n -> Nat] /\ h \in [0 .. n -> Nat] /\ Adds(t, f) /\ Adds(t \ {x}, h)
        /\ x \in 1 .. n /\ w[x] \in Nat
    BY <1>1
  <2> HIDE DEF f, h
  <2>2. 0 \in P
    BY <2>1
  <2>3. ASSUME NEW i \in Nat, i \in P PROVE i + 1 \in P
    <3> SUFFICES ASSUME i + 1 <= n
                 PROVE  f[i + 1] = h[i + 1] + (IF i + 1 < x THEN 0 ELSE w[x])
      OBVIOUS
    <3>1. i + 1 \in 1 .. n /\ (i + 1) - 1 = i /\ i \in 0 .. n /\ w[i + 1] \in Nat
      OBVIOUS
    <3>2. f[i + 1] = f[i] + Part(t, i + 1) /\ h[i + 1] = h[i] + Part(t \ {x}, i + 1)
      BY <2>1, <3>1
    <3>3. f[i] = h[i] + (IF i < x THEN 0 ELSE w[x])
      BY <2>3, <3>1
    <3>4. h[i] \in Nat
      BY <2>1, <3>1
    <3>5. CASE i + 1 = x
      <4>1. Part(t, i + 1) = w[x] /\ Part(t \ {x}, i + 1) = 0
        BY <3>5
      <4>2. i < x /\ ~(i + 1 < x)
        BY <3>5
      <4> HIDE DEF Part
      <4> QED BY <2>1, <3>2, <3>3, <3>4, <4>1, <4>2
    <3>6. CASE i + 1 # x
      <4>1. Part(t, i + 1) = Part(t \ {x}, i + 1) /\ Part(t, i + 1) \in Nat
        BY <3>1, <3>6
      <4>2. i < x <=> i + 1 < x
        BY SMTT(30), <2>1, <3>6
      <4> DEFINE more == IF i + 1 < x THEN 0 ELSE w[x]
      <4>3. more \in Nat /\ f[i] = h[i] + more
        BY <2>1, <3>3, <4>2
      <4> HIDE DEF Part, more
      <4>4. f[i + 1] = h[i + 1] + more
        BY <3>2, <3>4, <4>1, <4>3
      <4> QED BY <4>4 DEF more
    <3> QED BY <3>5, <3>6
  <2> HIDE DEF P
  <2>4. n \in P
    BY <2>2, <2>3, Induction
  <2>5. ~(n < x) /\ h[n] \in Nat
    BY <2>1
  <2>6. f[n] = h[n] + w[x]
    BY <2>4, <2>5 DEF P
  <2>7. f[n] = w[x] + h[n]
    BY <2>1, <2>5, <2>6
  <2> QED BY <2>7 DEF f, h
<1>4. sums({})[n] = 0
  <2> DEFINE f == sums({})
             P == {i \in Nat : i <= n => f[i] = 0}
  <2>1. f \in [0 .. n -> Nat] /\ Adds({}, f)
    <3> HIDE DEF sums, Adds
    <3>1. {} \in SUBSET (1 .. n)
      OBVIOUS
    <3>2. sums({}) \in [0 .. n -> Nat] /\ Adds({}, sums({}))
      BY <1>1, <3>1
    <3> QED BY <3>2
  <2> HIDE DEF f
  <2>2. 0 \in P
    BY <2>1
  <2>3. ASSUME NEW i \in Nat, i \in P PROVE i + 1 \in P
    <3> SUFFICES ASSUME i + 1 <= n PROVE f[i + 1] = 0
      OBVIOUS
    <3>1. i + 1 \in 1 .. n /\ (i + 1) - 1 = i /\ f[i] = 0
      BY <2>3
    <3> QED BY <2>1, <3>1
  <2> HIDE DEF P
  <2>4. n \in P
    BY <2>2, <2>3, Induction
  <2> QED BY <2>4 DEF P, f
<1> HIDE DEF sums
<1>5. \A t \in SUBSET (1 .. n) : \A x \in t : t \ {x} \in SUBSET (1 .. n)
  OBVIOUS
<1>6. g[{}] = 0 /\ \A t \in SUBSET (1 .. n) : \A x \in t : g[t] = w[x] + g[t \ {x}]
  BY <1>3, <1>4, <1>5
<1> QED BY <1>2, <1>6 DEF HasSetSums

\* The bytes of a list: the sum ByteCount takes.
Total(s) == FoldSeq(LAMBDA v, sum : SizeOf[v] + sum, 0, s)

\* It is what is counted entry by entry.
Counts(f, s) == f[0] = 0 /\ \A i \in 1 .. Len(s) : f[i] = f[i - 1] + SizeOf[s[i]]

LEMMA TotalCounts ==
    ASSUME NEW s \in Seq(Values)
    PROVE  \E f \in [0 .. Len(s) -> Nat] : Counts(f, s) /\ Total(s) = f[Len(s)]
<1> DEFINE n == Len(s)
           w == [i \in 1 .. n |-> SizeOf[s[i]]]
           pick(t) == CHOOSE i \in t : TRUE
           Is(it) == it = [t \in SUBSET (1 .. n) |->
                             IF t = {} THEN 0 ELSE SizeOf[s[pick(t)]] + it[t \ {pick(t)}]]
           iter == CHOOSE it : Is(it)
<1>1. n \in Nat /\ DOMAIN s = 1 .. n
  OBVIOUS
<1>2. w \in [1 .. n -> Nat]
  <2>1. \A i \in 1 .. n : s[i] \in Values
    OBVIOUS
  <2> QED BY <2>1, GeeCacheAssumption
<1>3. Total(s) = iter[1 .. n]
  BY <1>1, Zenon DEF Total, FoldSeq, FoldFunction, FoldFunctionOnSet, MapThenFoldSet
<1>4. PICK g \in [SUBSET (1 .. n) -> Nat] :
         /\ g[{}] = 0
         /\ \A t \in SUBSET (1 .. n) : \A x \in t : g[t] = w[x] + g[t \ {x}]
  <2>1. w \in Weights(n)
    BY <1>2 DEF Weights
  <2> HIDE DEF w
  <2>2. HasSetSums(n, w)
    BY <1>1, <2>1, SetSums
  <2> QED BY <2>2 DEF HasSetSums
<1>5. Is(g)
  <2>1. ASSUME NEW t \in SUBSET (1 .. n), t # {}
        PROVE  g[t] = SizeOf[s[pick(t)]] + g[t \ {pick(t)}]
    <3>1. pick(t) \in t
      BY <2>1
    <3> HIDE DEF pick
    <3>2. w[pick(t)] = SizeOf[s[pick(t)]]
      BY <3>1
    <3> QED BY <1>4, <3>1, <3>2
  <2> HIDE DEF w, pick
  <2>2. \A t \in SUBSET (1 .. n) :
           g[t] = IF t = {} THEN 0 ELSE SizeOf[s[pick(t)]] + g[t \ {pick(t)}]
    BY <1>4, <2>1
  <2> QED BY <2>2
<1>6. Is(iter)
  <2> HIDE DEF Is
  <2> QED BY <1>5
<1> HIDE DEF iter
<1>7. \A t \in SUBSET (1 .. n) :
         iter[t] = IF t = {} THEN 0 ELSE SizeOf[s[pick(t)]] + iter[t \ {pick(t)}]
  <2> HIDE DEF pick
  <2> QED BY <1>6
\* The two agree, on larger and larger sets.
<1>8. iter[1 .. n] = g[1 .. n]
  <2> DEFINE P == {k \in Nat : \A t \in SUBSET (1 .. n) : Cardinality(t) <= k => iter[t] = g[t]}
  <2>1. ASSUME NEW t \in SUBSET (1 .. n)
        PROVE  /\ IsFiniteSet(t) /\ Cardinality(t) \in Nat
               /\ t # {} => /\ pick(t) \in t /\ t \ {pick(t)} \in SUBSET (1 .. n)
                            /\ Cardinality(t \ {pick(t)}) = Cardinality(t) - 1
               /\ t = {} <=> Cardinality(t) = 0
    <3>1. IsFiniteSet(1 .. n)
      BY <1>1, FS_Interval
    <3>2. IsFiniteSet(t)
      BY <3>1, FS_Subset
    <3>3. t # {} => pick(t) \in t
      OBVIOUS
    <3> HIDE DEF pick
    <3>4. t # {} => Cardinality(t \ {pick(t)}) = Cardinality(t) - 1
      BY <3>2, <3>3, FS_RemoveElement
    <3> QED BY <3>2, <3>3, <3>4, FS_CardinalityType, FS_EmptySet
  <2> HIDE DEF pick
  <2>2. 0 \in P
    <3>1. ASSUME NEW t \in SUBSET (1 .. n), Cardinality(t) <= 0
          PROVE  iter[t] = g[t]
      <4>1. t = {}
        <5>1. Cardinality(t) \in Nat /\ (t = {} <=> Cardinality(t) = 0)
          BY <2>1
        <5> QED BY <3>1, <5>1
      <4> QED BY <1>4, <1>7, <4>1
    <3> QED BY <3>1
  <2>3. ASSUME NEW k \in Nat, k \in P PROVE k + 1 \in P
    <3>1. ASSUME NEW t \in SUBSET (1 .. n), Cardinality(t) <= k + 1
          PROVE  iter[t] = g[t]
      <4>1. CASE t = {}
        BY <1>4, <1>7, <4>1
      <4>2. CASE t # {}
        <5>1. /\ pick(t) \in t /\ t \ {pick(t)} \in SUBSET (1 .. n)
              /\ Cardinality(t \ {pick(t)}) <= k
          <6>1. /\ pick(t) \in t /\ t \ {pick(t)} \in SUBSET (1 .. n)
                /\ Cardinality(t \ {pick(t)}) = Cardinality(t) - 1
                /\ Cardinality(t) \in Nat
            BY <2>1, <4>2
          <6>2. Cardinality(t) - 1 <= k
            BY <3>1, <6>1
          <6> QED BY <6>1, <6>2
        <5>2. iter[t \ {pick(t)}] = g[t \ {pick(t)}]
          BY <2>3, <5>1
        <5>3. w[pick(t)] = SizeOf[s[pick(t)]]
          BY <5>1
        <5> HIDE DEF w
        <5> QED BY <1>4, <1>7, <4>2, <5>1, <5>2, <5>3
      <4> QED BY <4>1, <4>2
    <3>2. k + 1 \in Nat
      OBVIOUS
    <3> QED BY <3>1, <3>2
  <2> HIDE DEF P
  <2>4. \A k \in Nat : k \in P
    BY <2>2, <2>3, Induction
  <2>5. 1 .. n \in SUBSET (1 .. n) /\ Cardinality(1 .. n) \in Nat
    BY <2>1
  <2>6. Cardinality(1 .. n) \in P
    BY <2>4, <2>5
  <2> QED BY <2>5, <2>6 DEF P
\* And the sums over the first entries are what is counted.
<1> DEFINE f == [i \in 0 .. n |-> g[1 .. i]]
<1>9. f \in [0 .. n -> Nat]
  <2>1. \A i \in 0 .. n : 1 .. i \in SUBSET (1 .. n)
    BY <1>1
  <2> QED BY <2>1
<1>10. f[0] = 0
  <2>1. 1 .. 0 = {} /\ 0 \in 0 .. n
    BY <1>1
  <2> QED BY <1>4, <2>1
<1>11. ASSUME NEW i \in 1 .. n
       PROVE  f[i] = f[i - 1] + SizeOf[s[i]]
  <2>1. /\ i \in 0 .. n /\ i - 1 \in 0 .. n /\ 1 .. i \in SUBSET (1 .. n) /\ i \in 1 .. i
        /\ 1 .. i - 1 = (1 .. i) \ {i}
    BY <1>1
  <2>2. g[1 .. i] = w[i] + g[(1 .. i) \ {i}]
    <3> HIDE DEF w
    <3> QED BY <1>4, <2>1
  <2>3. w[i] = SizeOf[s[i]] /\ w[i] \in Nat /\ f[i - 1] \in Nat
    BY <1>2, <1>9, <2>1
  <2>4. f[i] = w[i] + f[i - 1]
    <3> HIDE DEF w
    <3> QED BY <2>1, <2>2
  <2> HIDE DEF w, f
  <2> QED BY <2>3, <2>4
<1>12. f[n] = Total(s)
  BY <1>1, <1>3, <1>8
<1> HIDE DEF f
<1> QED BY <1>9, <1>10, <1>11, <1>12 DEF Counts

\* There is one way to count.
LEMMA TotalIs ==
    ASSUME NEW s \in Seq(Values), NEW f, Counts(f, s)
    PROVE  Total(s) = f[Len(s)] /\ \A i \in 0 .. Len(s) : f[i] \in Nat
<1> DEFINE n == Len(s)
<1>1. PICK h \in [0 .. n -> Nat] : Counts(h, s) /\ Total(s) = h[n]
  BY TotalCounts
<1> DEFINE P == {i \in Nat : i <= n => f[i] = h[i]}
<1>2. 0 \in P
  BY <1>1 DEF Counts
<1>3. ASSUME NEW i \in Nat, i \in P PROVE i + 1 \in P
  <2>1. ASSUME i + 1 <= n PROVE f[i + 1] = h[i + 1]
    <3>1. n \in Nat
      OBVIOUS
    <3>2. i + 1 \in 1 .. n /\ (i + 1) - 1 = i /\ i <= n
      BY <2>1, <3>1
    <3>3. f[i + 1] = f[i] + SizeOf[s[i + 1]] /\ h[i + 1] = h[i] + SizeOf[s[i + 1]]
      BY <1>1, <3>2 DEF Counts
    <3> QED BY <1>3, <3>2, <3>3
  <2> QED BY <2>1
<1> HIDE DEF P
<1>4. \A i \in Nat : i \in P
  BY <1>2, <1>3, Induction
<1>5. \A i \in 0 .. n : f[i] = h[i]
  BY <1>4 DEF P
<1>6. n \in 0 .. n
  OBVIOUS
<1> QED BY <1>1, <1>5, <1>6

LEMMA SizesAre ==
    ASSUME NEW s \in Seq(Values), NEW i \in 1 .. Len(s)
    PROVE  SizeOf[s[i]] \in Nat
<1>1. s[i] \in Values
  OBVIOUS
<1> QED BY <1>1, GeeCacheAssumption

\* An entry in front, the last one gone, one in the middle gone.
LEMMA TotalCons ==
    ASSUME NEW s \in Seq(Values), NEW v \in Values
    PROVE  Total(<<v>> \o s) = SizeOf[v] + Total(s) /\ SizeOf[v] \in Nat /\ Total(s) \in Nat
<1> DEFINE n == Len(s)
           r == <<v>> \o s
<1>1. PICK f \in [0 .. n -> Nat] : Counts(f, s) /\ Total(s) = f[n]
  BY TotalCounts
<1>2. SizeOf[v] \in Nat /\ n \in Nat
  BY GeeCacheAssumption
<1>3. /\ r \in Seq(Values) /\ Len(r) = n + 1 /\ r[1] = v
      /\ \A i \in 2 .. n + 1 : r[i] = s[i - 1]
  OBVIOUS
<1> DEFINE h == [i \in 0 .. n + 1 |-> IF i = 0 THEN 0 ELSE SizeOf[v] + f[i - 1]]
<1> HIDE DEF r
<1>4. Counts(h, r)
  <2>1. h[0] = 0
    BY <1>2
  <2>2. ASSUME NEW i \in 1 .. n + 1 PROVE h[i] = h[i - 1] + SizeOf[r[i]]
    <3>1. CASE i = 1
      <4>1. h[1] = SizeOf[v] + f[0] /\ h[0] = 0 /\ f[0] = 0
        BY <1>1, <1>2 DEF Counts
      <4> QED BY <1>2, <1>3, <3>1, <4>1
    <3>2. CASE i # 1
      <4>1. i \in 2 .. n + 1 /\ i - 1 \in 1 .. n /\ (i - 1) - 1 \in 0 .. n
        BY <1>2, <3>2
      <4>2. f[i - 1] = f[(i - 1) - 1] + SizeOf[s[i - 1]]
        BY <1>1, <4>1 DEF Counts
      <4>3. h[i] = SizeOf[v] + f[i - 1] /\ h[i - 1] = SizeOf[v] + f[(i - 1) - 1]
        BY <1>2, <4>1
      <4>4. f[(i - 1) - 1] \in Nat /\ SizeOf[s[i - 1]] \in Nat
        BY <4>1, SizesAre
      <4>5. SizeOf[r[i]] = SizeOf[s[i - 1]]
        BY <1>3, <4>1
      <4> HIDE DEF h
      <4> QED BY <1>2, <4>2, <4>3, <4>4, <4>5
    <3> QED BY <3>1, <3>2
  <2> HIDE DEF h
  <2> QED BY <1>3, <2>1, <2>2 DEF Counts
<1>5. h[n + 1] = SizeOf[v] + f[n] /\ f[n] \in Nat
  <2>1. n + 1 \in 0 .. n + 1 /\ n + 1 # 0 /\ (n + 1) - 1 = n /\ n \in 0 .. n
    BY <1>2
  <2> HIDE DEF n
  <2> QED BY <2>1
<1> HIDE DEF h
<1>6. Total(r) = h[n + 1]
  BY <1>3, <1>4, TotalIs
<1> QED BY <1>1, <1>2, <1>5, <1>6 DEF r

LEMMA TotalFront ==
    ASSUME NEW s \in Seq(Values), s # <<>>
    PROVE  Total(Front(s)) = Total(s) - SizeOf[Last(s)]
<1> DEFINE n == Len(s)
           r == Front(s)
<1>1. /\ n \in Nat \ {0} /\ Last(s) = s[n] /\ r \in Seq(Values) /\ Len(r) = n - 1
      /\ \A i \in 1 .. n - 1 : r[i] = s[i]
  BY FrontOf
<1> HIDE DEF r
<1>2. PICK f \in [0 .. n -> Nat] : Counts(f, s) /\ Total(s) = f[n]
  BY TotalCounts
<1>3. Counts(f, r)
  <2>1. \A i \in 1 .. n - 1 : i \in 1 .. n
    BY <1>1
  <2> QED BY <1>1, <1>2, <2>1 DEF Counts
<1>4. Total(r) = f[n - 1]
  BY <1>1, <1>3, TotalIs
<1>5. n \in 1 .. n /\ n - 1 \in 0 .. n
  BY <1>1
<1>6. f[n] = f[n - 1] + SizeOf[s[n]] /\ f[n - 1] \in Nat /\ SizeOf[s[n]] \in Nat
  BY <1>2, <1>5, SizesAre DEF Counts
<1> QED BY <1>1, <1>2, <1>4, <1>6 DEF r

LEMMA TotalRemove ==
    ASSUME NEW s \in Seq(Values), NEW k \in 1 .. Len(s)
    PROVE  Total(RemoveAt(s, k)) = Total(s) - SizeOf[s[k]]
<1> DEFINE n == Len(s)
           r == RemoveAt(s, k)
<1>1. n \in Nat /\ k \in 1 .. n /\ n - 1 \in Nat
  OBVIOUS
<1>2. /\ r \in Seq(Values) /\ Len(r) = n - 1
      /\ \A i \in 1 .. n - 1 : r[i] = IF i < k THEN s[i] ELSE s[i + 1]
  <2> DEFINE t == SubSeq(s, 1, k - 1)
             u == SubSeq(s, k + 1, n)
  <2>1. t \in Seq(Values) /\ Len(t) = k - 1 /\ \A i \in 1 .. k - 1 : t[i] = s[i]
    BY <1>1
  <2>2. u \in Seq(Values) /\ Len(u) = n - k /\ \A i \in 1 .. n - k : u[i] = s[k + i]
    BY <1>1
  <2>3. r = t \o u
    BY DEF RemoveAt
  <2> HIDE DEF t, u, r
  <2>4. /\ t \o u \in Seq(Values) /\ Len(t \o u) = Len(t) + Len(u)
        /\ \A i \in 1 .. Len(t) + Len(u) :
              (t \o u)[i] = IF i <= Len(t) THEN t[i] ELSE u[i - Len(t)]
    <3>1. t \in Seq(Values) /\ u \in Seq(Values)
      BY <2>1, <2>2
    <3> QED BY ONLY <3>1
  <2>5. (k - 1) + (n - k) = n - 1
    BY <1>1
  <2>6. ASSUME NEW i \in 1 .. n - 1
        PROVE  r[i] = IF i < k THEN s[i] ELSE s[i + 1]
    <3>1. CASE i < k
      <4>1. i \in 1 .. k - 1
        BY <1>1, <3>1
      <4> QED BY <1>1, <2>1, <2>2, <2>3, <2>4, <2>5, <3>1, <4>1
    <3>2. CASE ~(i < k)
      <4>1. i - (k - 1) \in 1 .. n - k /\ ~(i <= k - 1) /\ k + (i - (k - 1)) = i + 1
        BY <1>1, <3>2
      <4>2. r[i] = u[i - (k - 1)]
        BY <1>1, <2>1, <2>2, <2>3, <2>4, <2>5, <4>1
      <4> QED BY <2>2, <3>2, <4>1, <4>2
    <3> QED BY <3>1, <3>2
  <2>7. Len(r) = n - 1
    BY <2>1, <2>2, <2>3, <2>4, <2>5
  <2> QED BY <2>3, <2>4, <2>6, <2>7
<1> HIDE DEF r
<1>3. PICK f \in [0 .. n -> Nat] : Counts(f, s) /\ Total(s) = f[n]
  BY TotalCounts
<1> DEFINE size == SizeOf[s[k]]
           h == [i \in 0 .. n - 1 |-> IF i < k THEN f[i] ELSE f[i + 1] - size]
<1>4. size \in Nat /\ f[k] = f[k - 1] + size /\ f[k - 1] \in Nat
  <2>1. k - 1 \in 0 .. n
    BY <1>1
  <2> QED BY <1>1, <1>3, <2>1, SizesAre DEF Counts
<1>5. Counts(h, r)
  <2>1. h[0] = 0
    <3>1. 0 < k /\ 0 \in 0 .. n - 1
      BY <1>1
    <3> QED BY <1>3, <3>1 DEF Counts
  <2>2. ASSUME NEW i \in 1 .. n - 1 PROVE h[i] = h[i - 1] + SizeOf[r[i]]
    <3>1. /\ i \in 0 .. n - 1 /\ i - 1 \in 0 .. n - 1 /\ i \in 1 .. n /\ i + 1 \in 1 .. n
          /\ (i + 1) - 1 = i /\ (i - 1) + 1 = i /\ i - 1 \in 0 .. n /\ i \in 0 .. n
      BY <1>1
    <3>2. /\ f[i] = f[i - 1] + SizeOf[s[i]] /\ f[i + 1] = f[i] + SizeOf[s[i + 1]]
          /\ f[i - 1] \in Nat /\ f[i] \in Nat /\ SizeOf[s[i]] \in Nat /\ SizeOf[s[i + 1]] \in Nat
      BY <1>3, <3>1, SizesAre DEF Counts
    <3>3. h[i] = IF i < k THEN f[i] ELSE f[i + 1] - size
      BY <3>1
    <3>4. h[i - 1] = IF i - 1 < k THEN f[i - 1] ELSE f[i] - size
      BY <3>1
    <3> HIDE DEF h, size
    <3>5. /\ f[i + 1] - size = (f[i] - size) + SizeOf[s[i + 1]]
          /\ f[i] = f[i - 1] + size => f[i + 1] - size = f[i - 1] + SizeOf[s[i + 1]]
      <4> DEFINE before == f[i - 1]
                 here == f[i]
                 next == f[i + 1]
                 step == SizeOf[s[i + 1]]
      <4>1. /\ before \in Nat /\ here \in Nat /\ step \in Nat /\ size \in Nat
            /\ next = here + step
        BY Zenon, <1>4, <3>2
      <4> HIDE DEF before, here, next, step
      <4>2. /\ next - size = (here - size) + step
            /\ here = before + size => next - size = before + step
        BY <4>1
      <4> QED BY Zenon, <4>2 DEF before, here, next, step
    <3>6. CASE i < k
      <4>1. i - 1 < k /\ r[i] = s[i]
        BY SMTT(30), <1>1, <1>2, <3>6
      <4>2. h[i] = f[i] /\ h[i - 1] = f[i - 1]
        BY Zenon, <3>3, <3>4, <3>6, <4>1
      <4> QED BY Zenon, <3>2, <4>1, <4>2
    <3>7. CASE i = k
      <4>1. i - 1 < k /\ ~(i < k) /\ r[i] = s[i + 1]
        BY <1>1, <1>2, <3>7
      <4>2. f[i] = f[i - 1] + size
        BY <1>4, <3>7
      <4>3. h[i] = f[i + 1] - size /\ h[i - 1] = f[i - 1]
        BY Zenon, <3>3, <3>4, <4>1
      <4> QED BY Zenon, <3>5, <4>1, <4>2, <4>3
    <3>8. CASE i > k
      <4>1. ~(i - 1 < k) /\ ~(i < k) /\ r[i] = s[i + 1]
        BY <1>1, <1>2, <3>8
      <4>2. h[i] = f[i + 1] - size /\ h[i - 1] = f[i] - size
        BY Zenon, <3>3, <3>4, <4>1
      <4> QED BY Zenon, <3>5, <4>1, <4>2
    <3> QED BY <1>1, <3>6, <3>7, <3>8
  <2> HIDE DEF h
  <2> QED BY <1>2, <2>1, <2>2 DEF Counts
<1>6. h[n - 1] = f[n] - size
  <2>1. n - 1 \in 0 .. n - 1 /\ (n - 1) + 1 = n
    BY <1>1
  <2>2. CASE n - 1 < k
    <3>1. n = k /\ n - 1 = k - 1
      BY <1>1, <2>2
    <3>2. h[n - 1] = f[n - 1]
      BY <2>1, <2>2
    <3> HIDE DEF h, size
    <3> QED BY <1>4, <3>1, <3>2
  <2>3. CASE ~(n - 1 < k)
    BY <2>1, <2>3
  <2> QED BY <2>2, <2>3
<1> HIDE DEF h
<1>7. Total(r) = h[n - 1]
  BY <1>2, <1>5, TotalIs
<1> QED BY <1>3, <1>6, <1>7 DEF r

\* A cache counts what it has; touching, adding and evicting keep it so.
Counted(c) == c.nBytes = Total(c.ll)

LEMMA OthersTotal ==
    ASSUME NEW c \in CacheType, NEW k
    PROVE  Total(Others(c, k)) = IF Has(c, k) THEN Total(c.ll) - SizeOf[ValueAt(c, k)]
                                 ELSE Total(c.ll)
<1>1. c.ll \in Seq(Values)
  BY DEF CacheType
<1>2. CASE Has(c, k)
  <2>1. Index(c, k) \in 1 .. Len(c.ll)
    BY <1>2, ValueFound
  <2> QED BY <1>1, <1>2, <2>1, TotalRemove DEF Others, ValueAt
<1>3. CASE ~Has(c, k)
  BY <1>3 DEF Others
<1> QED BY <1>2, <1>3

LEMMA TotalType ==
    ASSUME NEW s \in Seq(Values)
    PROVE  Total(s) \in Nat
<1>1. PICK f \in [0 .. Len(s) -> Nat] : Total(s) = f[Len(s)]
  BY TotalCounts
<1>2. Len(s) \in 0 .. Len(s)
  OBVIOUS
<1> QED BY <1>1, <1>2

LEMMA TouchCounted ==
    ASSUME NEW c \in CacheType, NEW k, Has(c, k), Counted(c)
    PROVE  Counted(Touch(c, k))
<1>1. ValueAt(c, k) \in Values /\ Others(c, k) \in Seq(Values) /\ c.ll \in Seq(Values)
  BY ValueFound, OthersType DEF CacheType
<1> DEFINE ll == <<ValueAt(c, k)>> \o Others(c, k)
<1>2. Total(ll) = SizeOf[ValueAt(c, k)] + Total(Others(c, k)) /\ SizeOf[ValueAt(c, k)] \in Nat
  BY <1>1, TotalCons
<1>3. Total(Others(c, k)) = Total(c.ll) - SizeOf[ValueAt(c, k)] /\ Total(c.ll) \in Nat
  BY <1>1, OthersTotal, TotalType
<1>4. Total(ll) = Total(c.ll)
  <2> HIDE DEF ll
  <2> QED BY <1>2, <1>3
<1>5. Touch(c, k).ll = ll /\ Touch(c, k).nBytes = c.nBytes
  BY DEF Touch, CacheType
<1> HIDE DEF ll
<1> QED BY <1>4, <1>5 DEF Counted

LEMMA AddCounted ==
    ASSUME NEW c \in CacheType, NEW v \in Values, Counted(c)
    PROVE  Counted(Add(c, v))
<1> DEFINE k == KeyOf(v)
           ll == <<v>> \o Others(c, k)
           put == Put(c, v)
           old == IF Has(c, k) THEN SizeOf[ValueAt(c, k)] ELSE 0
<1>1. ll \in Seq(Values) /\ Total(ll) = SizeOf[v] + Total(Others(c, k)) /\ SizeOf[v] \in Nat
  <2>1. Others(c, k) \in Seq(Values)
    BY OthersType
  <2> QED BY <2>1, TotalCons
<1>2. Total(Others(c, k)) = Total(c.ll) - old /\ Total(c.ll) \in Nat /\ old \in Nat
  <2>1. Total(c.ll) \in Nat
    BY TotalType DEF CacheType
  <2>2. Has(c, k) => SizeOf[ValueAt(c, k)] \in Nat
    BY ValueFound, GeeCacheAssumption
  <2> QED BY <2>1, <2>2, OthersTotal
<1>3. put = [ll |-> ll, nBytes |-> c.nBytes + SizeOf[v] - old]
  BY DEF Put
<1>4. put.ll = ll /\ put.nBytes = c.nBytes + SizeOf[v] - old
  <2> HIDE DEF put, ll, old
  <2> QED BY <1>3
<1>5. c.nBytes = Total(c.ll)
  BY DEF Counted
<1> HIDE DEF put, ll, old, k
<1>6. Counted(put)
  BY <1>1, <1>2, <1>4, <1>5 DEF Counted
<1>7. Counted(RemoveOldest(put))
  <2>1. CASE put.ll = <<>>
    BY <1>6, <2>1 DEF RemoveOldest
  <2>2. CASE put.ll # <<>>
    <3>1. /\ RemoveOldest(put).ll = Front(put.ll)
          /\ RemoveOldest(put).nBytes = put.nBytes - SizeOf[Last(put.ll)]
      BY <2>2 DEF RemoveOldest
    <3>2. Total(Front(put.ll)) = Total(put.ll) - SizeOf[Last(put.ll)]
      BY <1>1, <1>4, <2>2, TotalFront
    <3> QED BY <1>6, <3>1, <3>2 DEF Counted
  <2> QED BY <2>1, <2>2
<1> QED BY <1>6, <1>7 DEF Add, put

LEMMA TotalEmpty == Total(<<>>) = 0
<1>1. <<>> \in Seq(Values) /\ Len(<<>>) = 0
  OBVIOUS
<1>2. PICK f \in [0 .. Len(<<>>) -> Nat] : Counts(f, <<>>) /\ Total(<<>>) = f[Len(<<>>)]
  BY <1>1, TotalCounts
<1> QED BY <1>1, <1>2 DEF Counts

\* Only a hit and a load change a cache.
LEMMA NextCounted ==
    ASSUME IInv, \A n \in Nodes : Counted(cache[n]), [Next]_vars
    PROVE  \A n \in Nodes : Counted(cache'[n])
<1>1. cache \in [Nodes -> CacheType]
  BY DEF IInv, Typed
<1>2. ASSUME NEW c \in Callers, LookUp(c)
      PROVE  \A n \in Nodes : Counted(cache'[n])
  <2>1. CASE UNCHANGED cache
    BY <2>1
  <2>2. CASE /\ Has(cache[Here(c)], Key(c))
             /\ cache' = [cache EXCEPT ![Here(c)] = Touch(@, Key(c))]
    <3> TAKE n \in Nodes
    <3>1. CASE n = Here(c)
      BY <1>1, <2>2, <3>1, TouchCounted
    <3>2. CASE n # Here(c)
      BY <1>1, <2>2, <3>2
    <3> QED BY <3>1, <3>2
  <2> QED BY <1>2, <2>1, <2>2 DEF LookUp
<1>3. ASSUME NEW c \in Callers, AddLocally(c)
      PROVE  \A n \in Nodes : Counted(cache'[n])
  <2>1. Top(c).val \in Values
    BY <1>3, TopFrame DEF AddLocally, At, Honest
  <2>2. cache' = [cache EXCEPT ![Here(c)] = Add(@, Top(c).val)]
    BY <1>3 DEF AddLocally
  <2> TAKE n \in Nodes
  <2>3. CASE n = Here(c)
    BY <1>1, <2>1, <2>2, <2>3, AddCounted
  <2>4. CASE n # Here(c)
    BY <1>1, <2>2, <2>4
  <2> QED BY <2>3, <2>4
<1>4. CASE UNCHANGED cache
  BY <1>4
<1> QED BY <1>2, <1>3, <1>4
        DEF Next, Work, PickPeer, Fetch, Join, Lead, LeadPanics, Answer, Break, Forget, Return,
            Ask, Change, SetAdd, SetNew, vars

\* However loads of a key, hits and evictions follow each other, a cache counts the
\* bytes of its entries (lru.Cache.Add, Get and RemoveOldest).
THEOREM BytesCounted == Spec => []ByteCount
<1>1. Init => \A n \in Nodes : Counted(cache[n])
  BY TotalEmpty DEF Init, New, Counted
<1>2. IInv /\ (\A n \in Nodes : Counted(cache[n])) /\ [Next]_vars
         => (\A n \in Nodes : Counted(cache[n]))'
  BY NextCounted
<1>3. (\A n \in Nodes : Counted(cache[n])) => ByteCount
  BY Zenon DEF ByteCount, Counted, Total
<1> QED BY <1>1, <1>2, <1>3, Invariance, PTL DEF Spec

-----------------------------------------------------------------------------
(* singleflight: the SingleCall of one node on its own (SingleFlight).  The *)
(* variables are those of SingleFlight, for calls of Do.                    *)

\* The caller has registered a call and has not deleted it yet.
Leading(p) == pc[p] \in {"fn", "fnReturns", "delete", "panicked"}

\* The leaders are exactly the callers registered in m.
LeadersRegistered ==
    \A p \in Goroutines : Leading(p) => m[Asked[p]] = p /\ call[p] = p
EntriesLead ==
    \A k \in FlightKeys : m[k] # NoCaller => Asked[m[k]] = k /\ Leading(m[k])

\* A caller has a flight from Join or Lead on.
FlightChosen ==
    \A p \in Goroutines :
        /\ pc[p] \in {"idle", "lock"} => call[p] = NoCaller
        /\ pc[p] \notin {"idle", "lock"} => call[p] # NoCaller
        /\ pc[p] = "returned" => call[p] \in done

\* wg.Done comes before delete, and only from a caller running its own call.
DoneOrder ==
    /\ \A p \in Goroutines : pc[p] = "delete" => p \in done
    /\ \A p \in done : pc[p] \in {"delete", "returned"} /\ call[p] = p

\* The history variables mean what they say.
FlightHistory ==
    \A p \in Goroutines :
        /\ \A q \in gone[p] : pc[q] = "returned"
        /\ atStart[p] <= version[Asked[p]]
        /\ pc[p] \in {"fnReturns", "delete"} => atStart[p] <= val[p]
        /\ p \in done => atStart[p] <= val[p]

FlightInv ==
    /\ FlightTypeOK /\ LeadersRegistered /\ EntriesLead /\ FlightChosen
    /\ DoneOrder /\ FlightHistory /\ NoStaleFlight /\ WaitersHaveLeader

LEMMA FlightStarts == FlightInit => FlightInv
<1> USE FlightAssumption
<1> QED BY DEF FlightInit, FlightInv, FlightTypeOK, LeadersRegistered, EntriesLead, FlightChosen,
              DoneOrder, FlightHistory, NoStaleFlight, WaitersHaveLeader, Leading

\* The inductive step, one action at a time.
LEMMA FlightSteps == FlightInv /\ [FlightNext]_flightVars => FlightInv'
<1> SUFFICES ASSUME FlightInv, [FlightNext]_flightVars PROVE FlightInv'
    OBVIOUS
<1> USE FlightAssumption DEF FlightInv, FlightTypeOK, LeadersRegistered, EntriesLead,
        FlightChosen, DoneOrder, FlightHistory, NoStaleFlight, WaitersHaveLeader,
        Leading
<1>1. CASE UNCHANGED flightVars
      BY <1>1 DEF flightVars
<1>2. ASSUME NEW p \in Goroutines, Enter(p) PROVE FlightInv'
      BY <1>2 DEF Enter
<1>3. ASSUME NEW p \in Goroutines, JoinCall(p) PROVE FlightInv'
      BY <1>3 DEF JoinCall
<1>4. ASSUME NEW p \in Goroutines, StartCall(p) PROVE FlightInv'
      BY <1>4 DEF StartCall
<1>5. ASSUME NEW p \in Goroutines, FnReads(p) PROVE FlightInv'
      BY <1>5 DEF FnReads
<1>6. ASSUME NEW p \in Goroutines, FnDone(p) PROVE FlightInv'
      BY <1>6 DEF FnDone
<1>7. ASSUME NEW p \in Goroutines, FnPanics(p) PROVE FlightInv'
      BY <1>7 DEF FnPanics
<1>8. ASSUME NEW p \in Goroutines, DeleteEntry(p) PROVE FlightInv'
      BY <1>8 DEF DeleteEntry
<1>9. ASSUME NEW p \in Goroutines, Awake(p) PROVE FlightInv'
      BY <1>9 DEF Awake
<1>10. ASSUME NEW k \in FlightKeys, ChangeData(k) PROVE FlightInv'
      BY <1>10 DEF ChangeData
<1> QED BY <1>1, <1>2, <1>3, <1>4, <1>5, <1>6, <1>7, <1>8, <1>9, <1>10
        DEF FlightNext, Do

\* All along, the inductive invariant holds.
THEOREM FlightInvariance == FlightSpec => []FlightInv
<1> QED BY FlightStarts, FlightSteps, PTL DEF FlightSpec

\* Every variable keeps to its type.
THEOREM FlightTypeCorrect == FlightSpec => []FlightTypeOK
<1>1. FlightInv => FlightTypeOK
      BY DEF FlightInv
<1> QED BY <1>1, FlightInvariance, PTL

\* fn runs at most once per key at any time: both runners would be the caller
\* registered under the key.
THEOREM FlightIsSingle == FlightSpec => []OneFlight
<1>1. FlightInv => OneFlight
      BY DEF FlightInv, LeadersRegistered, Leading, OneFlight, Running
<1> QED BY <1>1, FlightInvariance, PTL

\* Results are shared with overlapping callers only, and only per key.
THEOREM NoStaleSharing == FlightSpec => []NoStaleFlight
<1>1. FlightInv => NoStaleFlight
      BY DEF FlightInv
<1> QED BY <1>1, FlightInvariance, PTL

\* The age of a result is bounded by the entry of the leader of its flight.
THEOREM AgeBound == FlightSpec => []NotOlderThanFlight
<1>1. FlightInv => NotOlderThanFlight
  <2> SUFFICES ASSUME FlightInv, NEW p \in Goroutines, pc[p] = "returned"
               PROVE  val[call[p]] >= atStart[call[p]]
      BY DEF NotOlderThanFlight
  <2>1. call[p] \in done /\ call[p] \in Goroutines
      BY DEF FlightInv, FlightChosen, FlightTypeOK
  <2>2. atStart[call[p]] <= val[call[p]]
      BY <2>1 DEF FlightInv, FlightHistory
  <2> QED BY <2>1, <2>2 DEF FlightInv, FlightTypeOK
<1> QED BY <1>1, FlightInvariance, PTL

\* A waiter's leader is still registered or has released it.
THEOREM NoLostWaiter == FlightSpec => []WaitersHaveLeader
<1>1. FlightInv => WaitersHaveLeader
      BY DEF FlightInv
<1> QED BY <1>1, FlightInvariance, PTL
=============================================================================

---------------------------- MODULE GeeWebProofs ----------------------------
(***************************************************************************)
(* Theorems about GeeWeb, for any middlewares, groups, routes and paths:   *)
(* handlers run once and in order, with the right middlewares, and the     *)
(* trie leads a request to a route that matches it, if there is one.       *)
(***************************************************************************)
EXTENDS GeeWeb, Integers, SequenceTheorems, FiniteSetTheorems, WellFoundedInduction, TLAPS

-----------------------------------------------------------------------------
(* Induction and recursion, in terms of sets and functions. *)

\* A nonempty set of numbers has a least one.
LEMMA LeastOf ==
    ASSUME NEW T \in SUBSET Nat, T # {}
    PROVE  \E x \in T : \A y \in T : x <= y
<1> DEFINE R == OpToRel(<, Nat)
<1>1. IsWellFoundedOn(R, Nat)
  BY NatLessThanWellFounded
<1>2. \A y, x \in Nat : y < x => <<y, x>> \in R
  BY DEF OpToRel
<1> HIDE DEF R
<1>3. PICK x \in T : \A y \in T : ~(<<y, x>> \in R)
  BY <1>1, WFMin, Zenon
<1>4. \A y \in T : ~(y < x)
  <2> TAKE y \in T
  <2>1. y \in Nat /\ x \in Nat
    OBVIOUS
  <2> QED BY <1>2, <1>3, <2>1, Zenon
<1>5. \A y, z \in Nat : ~(y < z) => z <= y
  OBVIOUS
<1> QED BY <1>4, <1>5, Zenon

\* Induction: a set with 0 and the successors of its members has all numbers.
LEMMA Induction ==
    ASSUME NEW P, 0 \in P, \A n \in Nat : n \in P => n + 1 \in P
    PROVE  \A n \in Nat : n \in P
<1> SUFFICES ASSUME NEW n \in Nat, n \notin P PROVE FALSE
  OBVIOUS
<1> DEFINE T == Nat \ P
<1>1. PICK x \in T : \A y \in T : x <= y
  <2>1. T \in SUBSET Nat /\ T # {}
    OBVIOUS
  <2> QED BY <2>1, LeastOf
<1>2. x # 0 /\ x \in Nat
  OBVIOUS
<1>3. x - 1 \in Nat /\ ~(x <= x - 1) /\ (x - 1) + 1 = x
  BY <1>2
<1>4. x - 1 \in P
  BY <1>1, <1>3
<1> QED BY <1>3, <1>4

\* Recursion: what is defined step by step exists.
LEMMA Recursion ==
    ASSUME NEW V, NEW base \in V, NEW n \in Nat, NEW step \in [1 .. n -> [V -> V]]
    PROVE  \E f \in [0 .. n -> V] :
              f[0] = base /\ \A i \in 1 .. n : f[i] = step[i][f[i - 1]]
<1> DEFINE Good(k, f) == f[0] = base /\ \A i \in 1 .. k : f[i] = step[i][f[i - 1]]
           P == {k \in Nat : k <= n => \E f \in [0 .. k -> V] : Good(k, f)}
<1>1. 0 \in P
  <2>1. [i \in 0 .. 0 |-> base] \in [0 .. 0 -> V] /\ Good(0, [i \in 0 .. 0 |-> base])
    OBVIOUS
  <2> QED BY <2>1
<1>2. ASSUME NEW k \in Nat, k \in P
      PROVE  k + 1 \in P
  <2> SUFFICES ASSUME k + 1 <= n
               PROVE  \E f \in [0 .. k + 1 -> V] : Good(k + 1, f)
    OBVIOUS
  <2>1. PICK f \in [0 .. k -> V] : Good(k, f)
    BY <1>2
  <2> DEFINE g == [i \in 0 .. k + 1 |-> IF i = k + 1 THEN step[i][f[k]] ELSE f[i]]
  <2>2. step[k + 1][f[k]] \in V
    BY <1>2
  <2>3. g \in [0 .. k + 1 -> V]
    BY <2>2
  <2>4. Good(k + 1, g)
    BY <2>1
  <2> QED BY <2>3, <2>4
<1> HIDE DEF P
<1>3. n \in P
  BY <1>1, <1>2, Induction
<1> QED BY <1>3 DEF P

-----------------------------------------------------------------------------
(* Sequences. *)

LEMMA Concat ==
    ASSUME NEW A, NEW t \in Seq(A), NEW u \in Seq(A)
    PROVE  /\ t \o u \in Seq(A) /\ Len(t \o u) = Len(t) + Len(u)
           /\ Len(t) \in Nat /\ Len(u) \in Nat
           /\ \A k \in 1 .. Len(t) : (t \o u)[k] = t[k]
           /\ \A k \in 1 .. Len(u) : (t \o u)[Len(t) + k] = u[k]
           /\ \A k \in 1 .. Len(t) + Len(u) :
                 (t \o u)[k] = IF k <= Len(t) THEN t[k] ELSE u[k - Len(t)]
OBVIOUS

\* FlattenSeq, step by step.
LEMMA Flatten ==
    ASSUME NEW A, NEW s \in Seq(Seq(A)), s # <<>>
    PROVE  \E f \in [1 .. Len(s) -> Seq(A)] :
              /\ FlattenSeq(s) = f[Len(s)] /\ f[1] = s[1]
              /\ \A i \in 2 .. Len(s) : f[i] = f[i - 1] \o s[i]
<1> DEFINE n == Len(s)
           step == [i \in 1 .. n |-> [x \in Seq(A) |-> x \o s[i]]]
           Is(f) == f = [i \in 1 .. n |-> IF i = 1 THEN s[i] ELSE f[i - 1] \o s[i]]
           fl == CHOOSE f : Is(f)
<1>1. n \in Nat /\ n > 0 /\ \A i \in 1 .. n : s[i] \in Seq(A)
  OBVIOUS
<1>2. step \in [1 .. n -> [Seq(A) -> Seq(A)]]
  BY <1>1
<1>3. PICK f \in [0 .. n -> Seq(A)] :
         f[0] = <<>> /\ \A i \in 1 .. n : f[i] = step[i][f[i - 1]]
  <2> DEFINE V == Seq(A)
             none == <<>>
  <2>1. none \in V /\ n \in Nat /\ step \in [1 .. n -> [V -> V]]
    BY <1>1, <1>2
  <2> HIDE DEF step, n, V, none
  <2>2. \E f \in [0 .. n -> V] :
           f[0] = none /\ \A i \in 1 .. n : f[i] = step[i][f[i - 1]]
    BY ONLY SMTT(30), <2>1, Recursion
  <2> QED BY <2>2 DEF V, none
<1>4. \A i \in 1 .. n : f[i - 1] \in Seq(A) /\ f[i] = f[i - 1] \o s[i]
  <2> TAKE i \in 1 .. n
  <2>1. i - 1 \in 0 .. n
    BY <1>1
  <2>2. f[i - 1] \in Seq(A) /\ f[i] = step[i][f[i - 1]]
    BY <1>3, <2>1
  <2> QED BY <2>2
<1> DEFINE g == [i \in 1 .. n |-> f[i]]
<1>5. Is(g)
  <2>1. ASSUME NEW i \in 1 .. n
        PROVE  g[i] = IF i = 1 THEN s[i] ELSE g[i - 1] \o s[i]
    <3>1. CASE i = 1
      <4>1. f[1] = f[0] \o s[1] /\ f[0] = <<>>
        <5>1. 1 - 1 = 0 /\ 1 \in 1 .. n
          BY <1>1
        <5> QED BY <1>3, <1>4, <5>1
      <4>2. <<>> \o s[1] = s[1]
        BY <1>1
      <4> QED BY <3>1, <4>1, <4>2
    <3>2. CASE i # 1
      <4>1. i - 1 \in 1 .. n
        BY <3>2
      <4> QED BY <1>4, <3>2, <4>1
    <3> QED BY <3>1, <3>2
  <2> QED BY <2>1
<1>6. Is(fl)
  <2> HIDE DEF Is, g
  <2> QED BY <1>5
<1>7. FlattenSeq(s) = fl[n]
  BY <1>1 DEF FlattenSeq
<1>8. \A i \in 1 .. n : fl[i] = IF i = 1 THEN s[i] ELSE fl[i - 1] \o s[i]
  <2> HIDE DEF fl
  <2> QED BY <1>6
<1>9. \A i \in 1 .. n : fl[i] \in Seq(A)
  <2> DEFINE P == {k \in Nat : k \in 1 .. n => fl[k] \in Seq(A)}
  <2>1. 0 \in P
    OBVIOUS
  <2>2. ASSUME NEW k \in Nat, k \in P PROVE k + 1 \in P
    <3> HIDE DEF fl
    <3> SUFFICES ASSUME k + 1 \in 1 .. n PROVE fl[k + 1] \in Seq(A)
      OBVIOUS
    <3>1. CASE k = 0
      BY SMTT(30), <1>1, <1>8, <3>1
    <3>2. CASE k # 0
      <4>1. k \in 1 .. n /\ k + 1 # 1 /\ (k + 1) - 1 = k
        BY <3>2
      <4>2. fl[k] \in Seq(A) /\ s[k + 1] \in Seq(A)
        BY <1>1, <2>2, <4>1
      <4>3. fl[k + 1] = fl[k] \o s[k + 1]
        BY <1>8, <4>1
      <4> QED BY <4>2, <4>3
    <3> QED BY <3>1, <3>2
  <2> HIDE DEF P, fl
  <2>3. \A k \in Nat : k \in P
    BY <2>1, <2>2, Induction
  <2> QED BY <2>3 DEF P
<1>10. DOMAIN fl = 1 .. n
  <2> HIDE DEF fl
  <2> QED BY <1>6
<1>11. fl \in [1 .. n -> Seq(A)]
  <2>1. fl = [i \in 1 .. n |-> fl[i]]
    <3> HIDE DEF fl
    <3> QED BY <1>6
  <2> HIDE DEF fl
  <2> QED BY <1>9, <2>1
<1> HIDE DEF fl
<1>12. fl[1] = s[1] /\ \A i \in 2 .. n : fl[i] = fl[i - 1] \o s[i]
  <2>1. 1 \in 1 .. n /\ \A i \in 2 .. n : i \in 1 .. n /\ i # 1
    BY <1>1
  <2> HIDE DEF n
  <2> QED BY <1>8, <2>1
<1> QED BY <1>7, <1>11, <1>12

\* What is in it: what is in its sequences.
LEMMA FlattenHas ==
    ASSUME NEW A, NEW s \in Seq(Seq(A)), s # <<>>
    PROVE  /\ FlattenSeq(s) \in Seq(A)
           /\ \A x : (\E k \in 1 .. Len(FlattenSeq(s)) : FlattenSeq(s)[k] = x)
                    <=> \E i \in 1 .. Len(s) : \E k \in 1 .. Len(s[i]) : s[i][k] = x
<1> DEFINE n == Len(s)
           In(x, t) == \E k \in 1 .. Len(t) : t[k] = x
<1>1. n \in Nat /\ n > 0 /\ \A i \in 1 .. n : s[i] \in Seq(A)
  OBVIOUS
<1>2. PICK f \in [1 .. n -> Seq(A)] :
         /\ FlattenSeq(s) = f[n] /\ f[1] = s[1]
         /\ \A i \in 2 .. n : f[i] = f[i - 1] \o s[i]
  BY Flatten
<1>3. \A t, u \in Seq(A) : \A x : In(x, t \o u) <=> In(x, t) \/ In(x, u)
  <2> TAKE t \in Seq(A), u \in Seq(A)
  <2> TAKE x
  <2>1. /\ Len(t) \in Nat /\ Len(u) \in Nat /\ Len(t \o u) = Len(t) + Len(u)
        /\ \A k \in 1 .. Len(t) + Len(u) :
              (t \o u)[k] = IF k <= Len(t) THEN t[k] ELSE u[k - Len(t)]
    OBVIOUS
  <2>2. ASSUME In(x, t) PROVE In(x, t \o u)
    <3>1. PICK k \in 1 .. Len(t) : t[k] = x
      BY <2>2
    <3>2. k \in 1 .. Len(t) + Len(u) /\ k <= Len(t)
      BY <2>1
    <3> QED BY <2>1, <3>1, <3>2
  <2>3. ASSUME In(x, u) PROVE In(x, t \o u)
    <3>1. PICK k \in 1 .. Len(u) : u[k] = x
      BY <2>3
    <3>2. /\ k + Len(t) \in 1 .. Len(t) + Len(u) /\ ~(k + Len(t) <= Len(t))
          /\ (k + Len(t)) - Len(t) = k
      BY <2>1
    <3> QED BY <2>1, <3>1, <3>2
  <2>4. ASSUME In(x, t \o u) PROVE In(x, t) \/ In(x, u)
    <3>1. PICK k \in 1 .. Len(t) + Len(u) : (t \o u)[k] = x
      BY <2>1, <2>4
    <3>2. CASE k <= Len(t)
      BY <2>1, <3>1, <3>2
    <3>3. CASE ~(k <= Len(t))
      <4>1. k - Len(t) \in 1 .. Len(u)
        BY <2>1, <3>3
      <4> QED BY <2>1, <3>1, <3>3, <4>1
    <3> QED BY <3>2, <3>3
  <2> QED BY <2>2, <2>3, <2>4
<1> DEFINE P == {m \in Nat : m \in 1 .. n =>
                    \A x : In(x, f[m]) <=> \E i \in 1 .. m : In(x, s[i])}
<1>4. 0 \in P
  OBVIOUS
<1>5. ASSUME NEW m \in Nat, m \in P PROVE m + 1 \in P
  <2> HIDE DEF In
  <2> SUFFICES ASSUME m + 1 \in 1 .. n, NEW x
               PROVE  In(x, f[m + 1]) <=> \E i \in 1 .. m + 1 : In(x, s[i])
    OBVIOUS
  <2>1. CASE m = 0
    BY <1>2, <2>1
  <2>2. CASE m # 0
    <3>1. m \in 1 .. n /\ m + 1 \in 2 .. n /\ (m + 1) - 1 = m
      BY <2>2
    <3>2. In(x, f[m]) <=> \E i \in 1 .. m : In(x, s[i])
      BY <1>5, <3>1
    <3>3. f[m + 1] = f[m] \o s[m + 1] /\ f[m] \in Seq(A) /\ s[m + 1] \in Seq(A)
      BY <1>1, <1>2, <3>1
    <3>4. In(x, f[m + 1]) <=> In(x, f[m]) \/ In(x, s[m + 1])
      BY <1>3, <3>3
    <3>5. \A i : i \in 1 .. m + 1 <=> (i \in 1 .. m \/ i = m + 1)
      OBVIOUS
    <3> QED BY <3>2, <3>4, <3>5
  <2> QED BY <2>1, <2>2
<1>6. n \in P
  <2> HIDE DEF P
  <2>1. \A m \in Nat : m \in P
    BY <1>4, <1>5, Induction
  <2> QED BY <1>1, <2>1
<1>7. f[n] \in Seq(A) /\ \A x : In(x, f[n]) <=> \E i \in 1 .. n : In(x, s[i])
  <2>1. n \in 1 .. n
    BY <1>1
  <2> HIDE DEF In
  <2> QED BY <1>2, <1>6, <2>1
<1> QED BY <1>2, <1>7

-----------------------------------------------------------------------------
(* Groups and their slices. *)

GroupType == [prefix : Texts, parent : Nat, array : Nat, len : Nat, own : SUBSET Handlers]

\* Every item of p stands at its place in q.
Heads(p, q) == Len(p) <= Len(q) /\ \A i \in 1 .. Len(p) : p[i] = q[i]

Slot(g, i) == arrays[groups[g].array][i]

Quota == left \in [groups : Nat, uses : 0 .. Len(Middlewares), routes : Nat]

\* The slices lie in their arrays; a group's prefix continues its parent's, and a
\* route's pattern its group's, if that is plain.
Slices ==
    /\ groups \in Seq(GroupType) /\ groups # <<>>
    /\ arrays \in Seq(Seq(Handlers \cup {"empty"}))
    /\ \A g \in 1 .. Len(groups) :
          /\ groups[g].array \in 1 .. Len(arrays)
          /\ groups[g].len <= Len(arrays[groups[g].array])
          /\ groups[g].parent \in 1 .. Len(groups)
          /\ Heads(groups[groups[g].parent].prefix, groups[g].prefix)
    /\ routes \in Seq([pattern : Seq(Parts), group : Nat])
    /\ \A i \in 1 .. Len(routes) :
          /\ routes[i].group \in 1 .. Len(groups)
          /\ Plain(groups[routes[i].group].prefix)
                => Heads(groups[routes[i].group].prefix, routes[i].pattern)
    /\ Quota

\* As long as no append has overwritten another group's middleware, a group's
\* slice has what was used on it, and nothing that was not used on it or on a
\* group around it.
Inherited ==
    ~clash => \A g \in 1 .. Len(groups) :
        /\ \A m \in groups[g].own : \E i \in 1 .. groups[g].len : Slot(g, i) = m
        /\ \A i \in 1 .. groups[g].len : \E a \in 1 .. Len(groups) :
              Slot(g, i) \in groups[a].own /\ Heads(groups[a].prefix, groups[g].prefix)

LEMMA HeadsTransitive ==
    ASSUME NEW p \in Texts, NEW q \in Texts, NEW r \in Texts,
           Heads(p, q), Heads(q, r)
    PROVE  Heads(p, r)
<1>1. Len(p) \in Nat /\ Len(q) \in Nat /\ Len(r) \in Nat
  BY DEF Texts
<1>2. \A i \in 1 .. Len(p) : i \in 1 .. Len(q)
  BY <1>1 DEF Heads
<1> QED BY <1>1, <1>2 DEF Heads

LEMMA HeadsConcat ==
    ASSUME NEW p \in Texts, NEW q \in Texts
    PROVE  p \o q \in Texts /\ Heads(p, p \o q) /\ Heads(p, p)
BY DEF Heads, Texts

\* parsePattern, item by item.
LEMMA ParseIs ==
    ASSUME NEW text \in Texts
    PROVE  \E u \in [0 .. Len(text) -> Seq(Parts)] :
              /\ ParsePattern(text) = u[Len(text)] /\ u[0] = <<>>
              /\ \A i \in 1 .. Len(text) :
                    u[i] = IF text[i] = Empty \/ Ended(u[i - 1]) THEN u[i - 1]
                           ELSE Append(u[i - 1], text[i])
<1> DEFINE n == Len(text)
           V == Seq(Parts)
           More(s, i) == IF text[i] = Empty \/ Ended(s) THEN s ELSE Append(s, text[i])
           none == <<>>
           step == [i \in 1 .. n |-> [s \in V |-> More(s, i)]]
           Is(f) == f = [i \in 0 .. n |-> IF i = 0 THEN none ELSE More(f[i - 1], i)]
           fl == CHOOSE f : Is(f)
<1>1. n \in Nat /\ \A i \in 1 .. n : text[i] \in Items
  BY DEF Texts
<1>2. \A i \in 1 .. n, s \in V : More(s, i) \in V
  <2> TAKE i \in 1 .. n, s \in V
  <2>1. text[i] # Empty => text[i] \in Parts
    BY <1>1 DEF Items
  <2> QED BY <2>1
<1>3. step \in [1 .. n -> [V -> V]] /\ none \in V
  <2>1. none \in V
    OBVIOUS
  <2> HIDE DEF More, n, V
  <2> QED BY <1>2, <2>1
<1> HIDE DEF V, More, none
<1>4. PICK g \in [0 .. n -> V] : g[0] = none /\ \A i \in 1 .. n : g[i] = step[i][g[i - 1]]
  <2> HIDE DEF n, step
  <2> QED BY ONLY <1>1, <1>3, Recursion
<1>5. Is(g)
  <2>1. ASSUME NEW i \in 0 .. n
        PROVE  g[i] = IF i = 0 THEN none ELSE More(g[i - 1], i)
    <3>1. CASE i = 0
      BY <1>4, <3>1
    <3>2. CASE i # 0
      <4>1. i \in 1 .. n /\ i - 1 \in 0 .. n
        BY <1>1, <3>2
      <4> QED BY <1>4, <3>2, <4>1
    <3> QED BY <3>1, <3>2
  <2>2. g = [i \in 0 .. n |-> g[i]]
    BY <1>4
  <2> QED BY <2>1, <2>2
<1>6. Is(fl)
  <2> HIDE DEF Is
  <2> QED BY <1>5
<1>7. ParsePattern(text) = fl[n]
  BY DEF ParsePattern, More, none
<1> HIDE DEF fl
<1>8. fl[0] = none /\ \A i \in 1 .. n : fl[i] = More(fl[i - 1], i)
  <2>1. 0 \in 0 .. n /\ \A i \in 1 .. n : i \in 0 .. n /\ i # 0
    BY <1>1
  <2> HIDE DEF n
  <2> QED BY <1>6, <2>1
<1>9. \A i \in 0 .. n : fl[i] \in V
  <2> DEFINE P == {k \in Nat : k \in 0 .. n => fl[k] \in V}
  <2>1. 0 \in P
    BY <1>3, <1>8
  <2>2. ASSUME NEW k \in Nat, k \in P PROVE k + 1 \in P
    <3> SUFFICES ASSUME k + 1 \in 0 .. n PROVE fl[k + 1] \in V
      OBVIOUS
    <3>1. k \in 0 .. n /\ k + 1 \in 1 .. n /\ (k + 1) - 1 = k
      BY <1>1
    <3>2. fl[k] \in V /\ fl[k + 1] = More(fl[k], k + 1)
      BY <1>8, <2>2, <3>1
    <3> QED BY <1>2, <3>1, <3>2
  <2> HIDE DEF P
  <2>3. \A k \in Nat : k \in P
    BY <2>1, <2>2, Induction
  <2> QED BY <1>1, <2>3 DEF P
<1>10. fl \in [0 .. n -> V]
  <2>1. fl = [i \in 0 .. n |-> fl[i]]
    BY <1>6
  <2> QED BY <1>9, <2>1
<1> QED BY <1>7, <1>8, <1>10 DEF V, More, none

\* Nothing follows an asterisk.
EndStars(p) == \A i \in 1 .. Len(p) - 1 : p[i] \notin Stars

\* The parts of a text: as many as its items or fewer, with an asterisk only at
\* the end.  As long as no item is empty they are the items, up to an asterisk.
LEMMA ParseRight ==
    ASSUME NEW text \in Texts
    PROVE  LET parts == ParsePattern(text)
           IN /\ parts \in Seq(Parts) /\ EndStars(parts) /\ Len(parts) <= Len(text)
              /\ \A k \in 0 .. Len(text) : (\A i \in 1 .. k : text[i] # Empty) =>
                    /\ \A i \in 1 .. k : i <= Len(parts) => parts[i] = text[i]
                    /\ Ended(parts) \/ k <= Len(parts)
<1> DEFINE n == Len(text)
<1>1. n \in Nat /\ \A i \in 1 .. n : text[i] \in Items
  BY DEF Texts
<1>2. PICK u \in [0 .. n -> Seq(Parts)] :
         /\ ParsePattern(text) = u[n] /\ u[0] = <<>>
         /\ \A i \in 1 .. n : u[i] = IF text[i] = Empty \/ Ended(u[i - 1]) THEN u[i - 1]
                                      ELSE Append(u[i - 1], text[i])
  BY ParseIs
<1> HIDE DEF n
<1> DEFINE Good(s, j, k) == /\ EndStars(s) /\ Len(s) <= j
                            /\ (\A i \in 1 .. k : text[i] # Empty) =>
                                  /\ \A i \in 1 .. k : i <= Len(s) => s[i] = text[i]
                                  /\ Ended(s) \/ k <= Len(s) \/ j <= Len(s)
           P == {j \in Nat : j <= n => \A k \in 0 .. n : Good(u[j], j, k)}
<1>3. 0 \in P
  <2>1. Len(u[0]) = 0 /\ EndStars(u[0])
    BY <1>2 DEF EndStars
  <2> QED BY <2>1
<1>4. ASSUME NEW j \in Nat, j \in P PROVE j + 1 \in P
  <2> SUFFICES ASSUME j + 1 <= n, NEW k \in 0 .. n PROVE Good(u[j + 1], j + 1, k)
    OBVIOUS
  <2> DEFINE s == u[j]
             c == text[j + 1]
  <2>1. /\ j \in 0 .. n /\ j + 1 \in 1 .. n /\ (j + 1) - 1 = j /\ k \in Nat
    BY <1>1
  <2>2. s \in Seq(Parts) /\ Good(s, j, k)
    BY <1>2, <1>4, <2>1
  <2>3. u[j + 1] = IF c = Empty \/ Ended(s) THEN s ELSE Append(s, c)
    BY <1>2, <2>1
  <2>4. Len(s) \in Nat /\ (c # Empty => c \in Parts)
    BY <1>1, <2>1, <2>2 DEF Items
  <2> HIDE DEF s, c
  <2>5. CASE c = Empty \/ Ended(s)
    <3>1. u[j + 1] = s
      BY <2>3, <2>5
    <3>2. ASSUME \A i \in 1 .. k : text[i] # Empty, ~Ended(s), ~(k <= Len(s)) PROVE FALSE
      <4>1. j <= Len(s) /\ ~(j + 1 \in 1 .. k)
        BY <2>2, <2>5, <3>2 DEF c
      <4> QED BY <2>1, <2>4, <3>2, <4>1
    <3> QED BY <2>1, <2>2, <2>4, <3>1, <3>2
  <2>6. CASE ~(c = Empty \/ Ended(s))
    <3> DEFINE r == Append(s, c)
    <3>1. u[j + 1] = r
      BY <2>3, <2>6
    <3>2. /\ Len(r) = Len(s) + 1 /\ r[Len(s) + 1] = c /\ \A i \in 1 .. Len(s) : r[i] = s[i]
      BY <2>2, <2>4, <2>6
    <3> HIDE DEF r
    <3>3. EndStars(r)
      <4> SUFFICES ASSUME NEW i \in 1 .. Len(r) - 1 PROVE r[i] \notin Stars
        BY DEF EndStars
      <4>1. i \in 1 .. Len(s) /\ (i \in 1 .. Len(s) - 1 \/ i = Len(s)) /\ r[i] = s[i]
        BY <2>4, <3>2
      <4>2. i = Len(s) => s # <<>> /\ Last(s) = s[i]
        BY <4>1 DEF Last
      <4> QED BY <2>2, <2>6, <4>1, <4>2 DEF EndStars, Ended
    <3>4. ASSUME \A i \in 1 .. k : text[i] # Empty
          PROVE  /\ \A i \in 1 .. k : i <= Len(r) => r[i] = text[i]
                 /\ k <= Len(r) \/ j + 1 <= Len(r)
      <4>1. /\ \A i \in 1 .. k : i <= Len(s) => s[i] = text[i]
            /\ k <= Len(s) \/ j <= Len(s)
        BY <2>2, <2>6, <3>4
      <4>2. ASSUME NEW i \in 1 .. k, i <= Len(r) PROVE r[i] = text[i]
        <5>1. CASE i <= Len(s)
          BY <3>2, <4>1, <5>1
        <5>2. CASE ~(i <= Len(s))
          <6>1. i = Len(s) + 1 /\ j = Len(s)
            BY <2>1, <2>2, <2>4, <3>2, <4>1, <4>2, <5>2
          <6> QED BY <3>2, <6>1 DEF c
        <5> QED BY <5>1, <5>2
      <4> QED BY <2>1, <2>4, <3>2, <4>1, <4>2
    <3> QED BY <2>1, <2>2, <2>4, <3>1, <3>2, <3>3, <3>4
  <2> QED BY <2>5, <2>6
<1> HIDE DEF P
<1>5. n \in P
  <2>1. \A j \in Nat : j \in P
    BY <1>3, <1>4, Induction
  <2> QED BY <1>1, <2>1
<1>6. \A k \in 0 .. n : Good(u[n], n, k)
  BY <1>1, <1>5 DEF P
<1>7. u[n] \in Seq(Parts)
  BY <1>1, <1>2
<1>8. \A k \in 0 .. n : n <= Len(u[n]) => k <= Len(u[n])
  BY <1>1, <1>7
<1> DEFINE s == u[n]
<1> HIDE DEF s
<1>9. /\ EndStars(s) /\ Len(s) <= n
      /\ \A k \in 0 .. n : (\A i \in 1 .. k : text[i] # Empty) =>
            /\ \A i \in 1 .. k : i <= Len(s) => s[i] = text[i]
            /\ Ended(s) \/ k <= Len(s)
  <2>1. 0 \in 0 .. n
    BY <1>1
  <2> QED BY <1>6, <1>8, <2>1 DEF s
<1> QED BY <1>2, <1>7, <1>9 DEF n, s

\* The pattern of a route begins with the prefix of its group, if that is plain.
LEMMA ParseHeads ==
    ASSUME NEW prefix \in Texts, NEW comp \in Texts, Plain(prefix)
    PROVE  Heads(prefix, ParsePattern(prefix \o comp))
<1> DEFINE text == prefix \o comp
           parts == ParsePattern(text)
           k == Len(prefix)
<1>1. text \in Texts /\ Heads(prefix, text) /\ k \in Nat /\ DOMAIN prefix = 1 .. k
  BY HeadsConcat DEF Texts
<1>2. \A i \in 1 .. k : text[i] = prefix[i] /\ text[i] # Empty /\ text[i] \notin Stars
  BY <1>1 DEF Heads, Plain, Wild
<1> HIDE DEF text
<1>3. k \in 0 .. Len(text)
  BY <1>1 DEF Heads, Texts
<1>4. /\ parts \in Seq(Parts)
      /\ \A i \in 1 .. k : i <= Len(parts) => parts[i] = text[i]
      /\ Ended(parts) \/ k <= Len(parts)
  BY <1>1, <1>2, <1>3, ParseRight
<1> HIDE DEF parts, k
<1>5. Len(parts) \in Nat
  BY <1>4
<1>6. k <= Len(parts)
  <2> SUFFICES ASSUME ~(k <= Len(parts)) PROVE FALSE
    OBVIOUS
  <2>1. parts # <<>> /\ parts[Len(parts)] \in Stars
    BY <1>4 DEF Ended, Last
  <2>2. Len(parts) \in 1 .. k
    BY <1>1, <1>4, <1>5, <2>1
  <2> QED BY <1>2, <1>4, <1>5, <2>1, <2>2
<1>7. \A i \in 1 .. k : parts[i] = prefix[i]
  BY <1>1, <1>2, <1>4, <1>5, <1>6
<1> QED BY <1>6, <1>7 DEF Heads, k, parts, text

\* A call takes something off what is left.
LEMMA QuotaKept ==
    ASSUME Quota, NEW what \in {"groups", "uses", "routes"}, Setup(what)
    PROVE  Quota' /\ (what = "uses" => left'.uses = left.uses - 1 /\ left.uses > 0)
<1>1. left.groups \in Nat /\ left.uses \in 0 .. Len(Middlewares) /\ left.routes \in Nat
  BY DEF Quota
<1>2. Len(Middlewares) \in Nat
  BY GeeWebAssumption
<1>3. left[what] > 0 /\ left' = [left EXCEPT ![what] = left[what] - 1]
  BY DEF Setup
<1>4. CASE what = "groups"
  BY <1>1, <1>2, <1>3, <1>4 DEF Quota
<1>5. CASE what = "uses"
  BY <1>1, <1>2, <1>3, <1>5 DEF Quota
<1>6. CASE what = "routes"
  BY <1>1, <1>2, <1>3, <1>6 DEF Quota
<1> QED BY <1>4, <1>5, <1>6

LEMMA SetupInit == Init => Slices /\ Inherited
<1> SUFFICES ASSUME Init PROVE Slices /\ Inherited
  OBVIOUS
<1> DEFINE root == [prefix |-> <<>>, parent |-> 1, array |-> 1, len |-> 0, own |-> {}]
<1>1. groups = <<root>> /\ arrays = << <<>> >> /\ routes = <<>> /\ clash = FALSE
  BY DEF Init
<1>2. root \in GroupType
  BY DEF GroupType, Texts
<1>3. Len(groups) = 1 /\ groups[1] = root /\ groups \in Seq(GroupType) /\ groups # <<>>
  <2> HIDE DEF root
  <2> QED BY <1>1, <1>2
<1>4. Len(arrays) = 1 /\ arrays[1] = <<>> /\ arrays \in Seq(Seq(Handlers \cup {"empty"}))
  BY <1>1
<1>5. routes \in Seq([pattern : Seq(Parts), group : Nat]) /\ Len(routes) = 0
  BY <1>1
<1>6. Heads(root.prefix, root.prefix)
  BY DEF Heads
<1>7. Quota
  BY GeeWebAssumption DEF Init, Quota
<1>8. Slices
  BY <1>3, <1>4, <1>5, <1>6, <1>7 DEF Slices
<1>9. Inherited
  BY <1>1, <1>3 DEF Inherited
<1> QED BY <1>8, <1>9

\* Group.
LEMMA SetupGroup ==
    ASSUME Slices, Inherited, NEW g \in DOMAIN groups, NEW prefix \in GroupPrefixes,
           Group(g, prefix)
    PROVE  Slices' /\ Inherited'
<1> DEFINE n == Len(groups)
           new == [groups[g] EXCEPT !.prefix = @ \o prefix, !.parent = g, !.own = {}]
<1>1. /\ groups' = Append(groups, new) /\ UNCHANGED <<arrays, clash, routes>>
  BY DEF Group, Setup, requestVars
<1>2. g \in 1 .. n /\ n \in Nat /\ groups[g] \in GroupType /\ prefix \in Texts
  BY GeeWebAssumption, SMTT(30) DEF Slices
<1>3. /\ new \in GroupType /\ new.prefix = groups[g].prefix \o prefix /\ new.parent = g
      /\ new.own = {} /\ new.array = groups[g].array /\ new.len = groups[g].len
  <2> DEFINE p == groups[g].prefix \o prefix
  <2>1. p \in Texts /\ g \in Nat
    BY <1>2, HeadsConcat DEF GroupType
  <2> HIDE DEF p
  <2>2. \A f \in GroupType :
           LET new2 == [f EXCEPT !.prefix = p, !.parent = g, !.own = {}]
           IN  /\ new2 \in GroupType /\ new2.prefix = p /\ new2.parent = g /\ new2.own = {}
               /\ new2.array = f.array /\ new2.len = f.len
    BY <2>1 DEF GroupType
  <2>3. new = [groups[g] EXCEPT !.prefix = p, !.parent = g, !.own = {}]
    BY DEF p
  <2> HIDE DEF new
  <2> QED BY <1>2, <2>2, <2>3 DEF p
<1> HIDE DEF new
<1>4. /\ groups' \in Seq(GroupType) /\ groups' # <<>> /\ Len(groups') = n + 1
      /\ \A h \in 1 .. n : groups'[h] = groups[h]
      /\ groups'[n + 1] = new
  <2>1. groups \in Seq(GroupType)
    BY DEF Slices
  <2> QED BY <1>1, <1>3, <2>1
<1>5. \A h \in 1 .. n + 1 : h \in 1 .. n \/ h = n + 1
  BY <1>2
<1>6. Heads(groups[g].prefix, new.prefix)
  BY <1>2, <1>3, HeadsConcat DEF GroupType
<1>7. Quota'
  BY QuotaKept DEF Slices, Group
<1>8. Slices'
  <2>1. ASSUME NEW h \in 1 .. n + 1
        PROVE  /\ groups'[h].array \in 1 .. Len(arrays')
               /\ groups'[h].len <= Len(arrays'[groups'[h].array])
               /\ groups'[h].parent \in 1 .. n + 1
               /\ Heads(groups'[groups'[h].parent].prefix, groups'[h].prefix)
    <3>1. CASE h \in 1 .. n
      BY <1>1, <1>2, <1>4, <3>1 DEF Slices
    <3>2. CASE h = n + 1
      <4>1. groups'[h] = new /\ groups'[g] = groups[g] /\ g \in 1 .. n + 1
        BY <1>2, <1>4, <3>2
      <4>2. groups[g].array \in 1 .. Len(arrays) /\ groups[g].len <= Len(arrays[groups[g].array])
        BY <1>2 DEF Slices
      <4> QED BY <1>1, <1>3, <1>6, <4>1, <4>2
    <3> QED BY <1>5, <3>1, <3>2
  <2>2. ASSUME NEW i \in 1 .. Len(routes')
        PROVE  /\ routes'[i].group \in 1 .. n + 1
               /\ Plain(groups'[routes'[i].group].prefix)
                     => Heads(groups'[routes'[i].group].prefix, routes'[i].pattern)
    BY <1>1, <1>2, <1>4 DEF Slices
  <2> QED BY <1>1, <1>4, <1>7, <2>1, <2>2 DEF Slices
<1>9. Inherited'
  <2> SUFFICES ASSUME ~clash, NEW h \in 1 .. n + 1
               PROVE  /\ \A m \in groups'[h].own : \E i \in 1 .. groups'[h].len : Slot(h, i)' = m
                      /\ \A i \in 1 .. groups'[h].len : \E a \in 1 .. n + 1 :
                            /\ Slot(h, i)' \in groups'[a].own
                            /\ Heads(groups'[a].prefix, groups'[h].prefix)
    BY <1>1, <1>4 DEF Inherited
  <2>1. CASE h \in 1 .. n
    <3>1. \A i : Slot(h, i)' = Slot(h, i)
      BY <1>1, <1>4, <2>1 DEF Slot
    <3>2. \A a \in 1 .. n : a \in 1 .. n + 1
      BY <1>2
    <3>3. groups'[h] = groups[h]
      BY <1>4, <2>1
    <3>4. /\ \A m \in groups[h].own : \E i \in 1 .. groups[h].len : Slot(h, i) = m
          /\ \A i \in 1 .. groups[h].len : \E a \in 1 .. n :
                Slot(h, i) \in groups[a].own /\ Heads(groups[a].prefix, groups[h].prefix)
      BY <2>1 DEF Inherited
    <3> QED BY <1>4, <3>1, <3>2, <3>3, <3>4, SMTT(30)
  <2>2. CASE h = n + 1
    <3>1. \A i : Slot(h, i)' = Slot(g, i)
      BY <1>1, <1>3, <1>4, <2>2 DEF Slot
    <3>2. ASSUME NEW i \in 1 .. groups[g].len
          PROVE  \E a \in 1 .. n + 1 : /\ Slot(g, i) \in groups'[a].own
                                       /\ Heads(groups'[a].prefix, new.prefix)
      <4>1. PICK a \in 1 .. n : Slot(g, i) \in groups[a].own
                                /\ Heads(groups[a].prefix, groups[g].prefix)
        BY <1>2 DEF Inherited
      <4>2. groups[a] \in GroupType /\ a \in 1 .. n + 1
        BY <1>2 DEF Slices
      <4>3. Heads(groups[a].prefix, new.prefix)
        BY <1>2, <1>3, <1>6, <4>1, <4>2, HeadsTransitive DEF GroupType
      <4> QED BY <1>4, <4>1, <4>2, <4>3
    <3>3. groups'[h] = new
      BY <1>4, <2>2
    <3> QED BY <1>3, <3>1, <3>2, <3>3
  <2> QED BY <1>5, <2>1, <2>2
<1> QED BY <1>8, <1>9

\* Use.
LEMMA SetupUse ==
    ASSUME Slices, Inherited, NEW g \in DOMAIN groups, Use(g)
    PROVE  Slices' /\ Inherited'
<1> DEFINE n == Len(groups)
           A == groups[g].array
           len == groups[g].len
           old == arrays[A]
           m == Middlewares[Len(Middlewares) - left'.uses]
           room == len < Len(old)
           grown == Held(g) \o <<m>> \o [i \in 1 .. len - 1 |-> "empty"]
           over == \E h \in DOMAIN groups : groups[h].array = A /\ groups[h].len > len
           new == [groups[g] EXCEPT !.array = IF room THEN @ ELSE Len(arrays) + 1,
                                    !.len = @ + 1, !.own = @ \cup {m}]
           Full == Handlers \cup {"empty"}
<1>1. /\ arrays' = IF room THEN [arrays EXCEPT ![A][len + 1] = m] ELSE Append(arrays, grown)
      /\ groups' = [groups EXCEPT ![g] = new]
      /\ clash' = (clash \/ (room /\ over))
      /\ routes' = routes
  BY DEF Use, Setup, requestVars
<1>2. /\ g \in 1 .. n /\ n \in Nat /\ groups[g] \in GroupType /\ A \in 1 .. Len(arrays)
      /\ len \in Nat /\ len <= Len(old) /\ Len(old) \in Nat /\ old \in Seq(Full)
      /\ Len(arrays) \in Nat
  <2>1. g \in 1 .. n /\ n \in Nat /\ groups[g] \in GroupType
    BY DEF Slices
  <2>2. A \in 1 .. Len(arrays) /\ len <= Len(old) /\ arrays \in Seq(Seq(Full))
    BY <2>1 DEF Slices
  <2>3. old \in Seq(Full) /\ Len(arrays) \in Nat
    BY <2>2
  <2>4. len \in Nat
    BY <2>1 DEF GroupType
  <2> QED BY <2>1, <2>2, <2>3, <2>4
<1>3. m \in Handlers /\ Quota'
  <2>1. Len(Middlewares) \in Nat /\ Quota
    BY GeeWebAssumption DEF Slices
  <2>2. left.uses \in 1 .. Len(Middlewares) /\ left'.uses = left.uses - 1 /\ Quota'
    <3>1. left.uses \in 0 .. Len(Middlewares) /\ Setup("uses")
      BY <2>1 DEF Quota, Use
    <3> QED BY <2>1, <3>1, QuotaKept
  <2>3. Len(Middlewares) - left'.uses \in 1 .. Len(Middlewares)
    BY <1>1, <2>1, <2>2
  <2> QED BY <2>2, <2>3, GeeWebAssumption
<1> HIDE DEF m
<1>4. /\ new \in GroupType /\ new.prefix = groups[g].prefix /\ new.parent = groups[g].parent
      /\ new.own = groups[g].own \cup {m} /\ new.len = len + 1
      /\ new.array = IF room THEN A ELSE Len(arrays) + 1
  <2> DEFINE where == IF room THEN A ELSE Len(arrays) + 1
  <2>1. where \in Nat
    BY <1>2
  <2>2. new = [groups[g] EXCEPT !.array = where, !.len = @ + 1, !.own = @ \cup {m}]
    OBVIOUS
  <2> HIDE DEF where, new
  <2>3. \A f \in GroupType :
           LET f2 == [f EXCEPT !.array = where, !.len = @ + 1, !.own = @ \cup {m}]
           IN  /\ f2 \in GroupType /\ f2.prefix = f.prefix /\ f2.parent = f.parent
               /\ f2.own = f.own \cup {m} /\ f2.len = f.len + 1 /\ f2.array = where
    <3> TAKE f \in GroupType
    <3> DEFINE wide == f.own \cup {m}
               more == f.len + 1
    <3>1. wide \in SUBSET Handlers /\ more \in Nat
      BY <1>3 DEF GroupType
    <3> HIDE DEF wide, more
    <3>2. LET f2 == [f EXCEPT !.array = where, !.len = more, !.own = wide]
          IN  /\ f2 \in GroupType /\ f2.prefix = f.prefix /\ f2.parent = f.parent
              /\ f2.own = wide /\ f2.len = more /\ f2.array = where
      BY <2>1, <3>1 DEF GroupType
    <3> QED BY <3>2 DEF wide, more
  <2> QED BY <1>2, <2>2, <2>3 DEF where
<1> HIDE DEF new
<1>5. /\ groups' \in Seq(GroupType) /\ groups' # <<>> /\ Len(groups') = n /\ groups'[g] = new
      /\ \A h \in 1 .. n : h # g => groups'[h] = groups[h]
      /\ \A h \in 1 .. n : groups'[h].prefix = groups[h].prefix
                             /\ groups'[h].parent = groups[h].parent
                             /\ groups[h].own \subseteq groups'[h].own
  <2>1. groups \in Seq(GroupType) /\ groups # <<>>
    BY DEF Slices
  <2>2. groups' \in Seq(GroupType) /\ Len(groups') = n
    BY <1>1, <1>2, <1>4, <2>1
  <2>3. \A h \in 1 .. n : groups'[h] = IF h = g THEN new ELSE groups[h]
    BY SMTT(30), <1>1, <1>2, <2>1
  <2>4. n > 0
    BY <1>2
  <2> QED BY <1>2, <1>4, <2>2, <2>3, <2>4
\* The arrays: what was in front of the new middleware stays, and it comes next.
<1>6. /\ arrays' \in Seq(Seq(Full)) /\ new.array \in 1 .. Len(arrays')
      /\ Len(arrays) <= Len(arrays')
      /\ len + 1 <= Len(arrays'[new.array])
      /\ arrays'[new.array][len + 1] = m
      /\ \A i \in 1 .. len : arrays'[new.array][i] = old[i]
      /\ \A a \in 1 .. Len(arrays) : /\ Len(arrays'[a]) = Len(arrays[a])
                                     /\ a # A \/ ~room => arrays'[a] = arrays[a]
                                     /\ \A i \in 1 .. len : arrays'[A][i] = old[i]
  <2>1. CASE room
    <3> DEFINE put == [old EXCEPT ![len + 1] = m]
    <3>1. len + 1 \in 1 .. Len(old)
      BY <1>2, <2>1
    <3>2. put \in Seq(Full) /\ Len(put) = Len(old)
      BY <1>2, <1>3, <3>1
    <3>3. put[len + 1] = m /\ \A i \in 1 .. len : put[i] = old[i]
      BY <1>2, <3>1
    <3>4. arrays' = [arrays EXCEPT ![A] = put]
      BY <1>1, <2>1
    <3> HIDE DEF put
    <3>5. /\ arrays' \in Seq(Seq(Full)) /\ Len(arrays') = Len(arrays) /\ arrays'[A] = put
          /\ \A a \in 1 .. Len(arrays) : a # A => arrays'[a] = arrays[a]
      BY <1>2, <3>2, <3>4 DEF Slices
    <3>6. new.array = A
      BY <1>4, <2>1
    <3> QED BY SMTT(30), <1>2, <2>1, <3>1, <3>2, <3>3, <3>5, <3>6
  <2>2. CASE ~room
    <3>1. Held(g) \in Seq(Full) /\ Len(Held(g)) = len /\ \A i \in 1 .. len : Held(g)[i] = old[i]
      BY <1>2 DEF Held
    <3>2. [i \in 1 .. len - 1 |-> "empty"] \in Seq(Full)
      <4>1. CASE len = 0
        <5>1. 1 .. len - 1 = 1 .. 0
          BY <4>1
        <5>2. [i \in 1 .. 0 |-> "empty"] \in Seq(Full)
          OBVIOUS
        <5> QED BY <5>1, <5>2, Zenon
      <4>2. CASE len # 0
        <5>1. len - 1 \in Nat
          BY <1>2, <4>2
        <5> QED BY <5>1
      <4> QED BY <4>1, <4>2
    <3>3. m \in Full
      BY <1>3
    <3> DEFINE pad == [i \in 1 .. len - 1 |-> "empty"]
               held == Held(g)
    <3>4. grown = held \o <<m>> \o pad
      OBVIOUS
    <3> HIDE DEF pad, held, grown
    <3>5. /\ grown \in Seq(Full) /\ grown[len + 1] = m /\ len + 1 <= Len(grown)
          /\ \A i \in 1 .. len : grown[i] = old[i]
      <4>1. pad \in Seq(Full) /\ held \in Seq(Full) /\ Len(held) = len
            /\ \A i \in 1 .. len : held[i] = old[i]
        BY <3>1, <3>2 DEF pad, held
      <4> DEFINE front == held \o <<m>>
      <4>2. /\ front \in Seq(Full) /\ Len(front) = len + 1 /\ front[len + 1] = m
            /\ \A i \in 1 .. len : front[i] = old[i]
        <5> HIDE DEF len, old
        <5> QED BY SMTT(30), <1>2, <3>3, <4>1
      <4> HIDE DEF front
      <4>3. grown = front \o pad
        BY <3>4 DEF front
      <4>4. /\ front \o pad \in Seq(Full) /\ Len(front \o pad) = Len(front) + Len(pad)
            /\ \A i \in 1 .. Len(front) : (front \o pad)[i] = front[i]
            /\ Len(pad) \in Nat
        <5>1. front \in Seq(Full) /\ pad \in Seq(Full)
          BY <4>1, <4>2
        <5> QED BY ONLY <5>1, Concat
      <4>5. len + 1 \in 1 .. Len(front) /\ \A i \in 1 .. len : i \in 1 .. Len(front)
        BY <1>2, <4>2
      <4> QED BY <1>2, <4>2, <4>3, <4>4, <4>5
    <3>6. arrays' = Append(arrays, grown) /\ new.array = Len(arrays) + 1
      BY <1>1, <1>4, <2>2
    <3>7. /\ arrays' \in Seq(Seq(Full)) /\ Len(arrays') = Len(arrays) + 1
          /\ arrays'[Len(arrays) + 1] = grown
          /\ \A a \in 1 .. Len(arrays) : arrays'[a] = arrays[a]
      BY <3>5, <3>6 DEF Slices
    <3> QED BY <1>2, <2>2, <3>5, <3>6, <3>7
  <2> QED BY <2>1, <2>2
<1>7. Slices'
  <2>1. ASSUME NEW h \in 1 .. n
        PROVE  /\ groups'[h].array \in 1 .. Len(arrays')
               /\ groups'[h].len <= Len(arrays'[groups'[h].array])
               /\ groups'[h].parent \in 1 .. n
               /\ Heads(groups'[groups'[h].parent].prefix, groups'[h].prefix)
    <3>1. groups[h].parent \in 1 .. n /\ Heads(groups[groups[h].parent].prefix, groups[h].prefix)
      BY DEF Slices
    <3>2. CASE h = g
      BY SMTT(30), <1>4, <1>5, <1>6, <3>1, <3>2
    <3>3. CASE h # g
      <4>1. groups[h].array \in 1 .. Len(arrays) /\ groups[h].len <= Len(arrays[groups[h].array])
            /\ groups'[h] = groups[h]
        BY <1>5, <3>3 DEF Slices
      <4>2. groups[h].array \in 1 .. Len(arrays')
        BY <1>2, <1>6, <4>1
      <4> QED BY <1>5, <1>6, <3>1, <4>1, <4>2
    <3> QED BY <3>2, <3>3
  <2>2. ASSUME NEW i \in 1 .. Len(routes')
        PROVE  /\ routes'[i].group \in 1 .. n
               /\ Plain(groups'[routes'[i].group].prefix)
                     => Heads(groups'[routes'[i].group].prefix, routes'[i].pattern)
    <3>1. /\ routes[i].group \in 1 .. n
          /\ Plain(groups[routes[i].group].prefix)
                => Heads(groups[routes[i].group].prefix, routes[i].pattern)
      BY <1>1 DEF Slices
    <3> QED BY <1>1, <1>5, <3>1
  <2> QED BY <1>1, <1>3, <1>5, <1>6, <2>1, <2>2 DEF Slices
<1>8. Inherited'
  <2> SUFFICES ASSUME ~clash', NEW h \in 1 .. n
               PROVE  /\ \A x \in groups'[h].own : \E i \in 1 .. groups'[h].len : Slot(h, i)' = x
                      /\ \A i \in 1 .. groups'[h].len : \E a \in 1 .. n :
                            /\ Slot(h, i)' \in groups'[a].own
                            /\ Heads(groups'[a].prefix, groups'[h].prefix)
    BY <1>5 DEF Inherited
  <2>1. ~clash /\ (room => ~over)
    BY <1>1
  <2>2. /\ \A x \in groups[h].own : \E i \in 1 .. groups[h].len : Slot(h, i) = x
        /\ \A i \in 1 .. groups[h].len : \E a \in 1 .. n :
              Slot(h, i) \in groups[a].own /\ Heads(groups[a].prefix, groups[h].prefix)
    BY <2>1 DEF Inherited
  <2>3. \A i \in 1 .. groups[h].len : Slot(h, i)' = Slot(h, i)
    <3>1. CASE h = g
      BY <1>5, <1>6, <3>1 DEF Slot
    <3>2. CASE h # g
      <4>1. groups[h].array \in 1 .. Len(arrays) /\ groups'[h] = groups[h] /\ groups[h].len \in Nat
        <5>1. groups[h] \in GroupType /\ groups[h].array \in 1 .. Len(arrays)
          BY DEF Slices
        <5> QED BY <1>5, <3>2, <5>1 DEF GroupType
      <4>2. CASE groups[h].array = A /\ room
        <5>1. h \in DOMAIN groups
          BY DEF Slices
        <5>2. ~(groups[h].len > len)
          BY <2>1, <4>2, <5>1
        <5>3. \A i \in 1 .. groups[h].len : i \in 1 .. len
          BY <1>2, <4>1, <5>2
        <5> QED BY <1>6, <4>1, <4>2, <5>3 DEF Slot
      <4>3. CASE ~(groups[h].array = A /\ room)
        BY <1>6, <4>1, <4>3 DEF Slot
      <4> QED BY <4>2, <4>3
    <3> QED BY <3>1, <3>2
  <2>4. \A i \in 1 .. groups[h].len : \E a \in 1 .. n :
           /\ Slot(h, i)' \in groups'[a].own /\ Heads(groups'[a].prefix, groups'[h].prefix)
    BY <1>5, <2>2, <2>3
  <2>5. CASE h = g
    <3>1. len + 1 \in 1 .. len + 1 /\ \A i : i \in 1 .. len + 1 <=> i \in 1 .. len \/ i = len + 1
      BY <1>2
    <3>2. \A i : i = len + 1 => Slot(h, i)' = m
      BY <1>5, <1>6, <2>5 DEF Slot
    <3>3. Heads(groups'[g].prefix, groups'[g].prefix) /\ m \in groups'[g].own
      BY <1>4, <1>5 DEF Heads
    <3>4. groups'[h].len = len + 1 /\ groups[h].len = len /\ groups'[h].own = groups[g].own \cup {m}
      BY <1>4, <1>5, <2>5
    <3>5. ASSUME NEW x \in groups'[h].own
          PROVE  \E i \in 1 .. len + 1 : Slot(h, i)' = x
      <4>1. CASE x = m
        BY <3>1, <3>2, <4>1
      <4>2. CASE x # m
        BY <2>2, <2>3, <2>5, <3>1, <3>4, <4>2
      <4> QED BY <4>1, <4>2
    <3>6. ASSUME NEW i \in 1 .. len + 1
          PROVE  \E a \in 1 .. n : /\ Slot(h, i)' \in groups'[a].own
                                   /\ Heads(groups'[a].prefix, groups'[h].prefix)
      <4>1. CASE i \in 1 .. len
        BY <2>4, <3>4, <4>1
      <4>2. CASE i = len + 1
        <5>1. Slot(h, i)' = m
          BY <3>2, <4>2
        <5> QED BY <2>5, <3>3, <5>1
      <4> QED BY <3>1, <4>1, <4>2
    <3> QED BY <3>4, <3>5, <3>6
  <2>6. CASE h # g
    BY <1>5, <2>2, <2>3, <2>4, <2>6
  <2> QED BY <2>5, <2>6
<1> QED BY <1>7, <1>8

\* GET, and so Static.
LEMMA SetupGET ==
    ASSUME Slices, Inherited, NEW g \in DOMAIN groups, NEW comp \in Texts, GET(g, comp)
    PROVE  Slices' /\ Inherited'
<1> DEFINE pattern == ParsePattern(groups[g].prefix \o comp)
           n == Len(routes)
           new == [pattern |-> pattern, group |-> g]
<1>1. /\ groups' = groups /\ arrays' = arrays /\ clash' = clash
      /\ routes' = Append(routes, new)
  BY DEF GET
<1>2. g \in 1 .. Len(groups) /\ groups[g] \in GroupType /\ n \in Nat /\ Len(groups) \in Nat
  BY DEF Slices
<1>3. pattern \in Seq(Parts) /\ (Plain(groups[g].prefix) => Heads(groups[g].prefix, pattern))
  BY <1>2, HeadsConcat, ParseRight, ParseHeads DEF GroupType
<1> HIDE DEF pattern
<1>4. /\ routes' \in Seq([pattern : Seq(Parts), group : Nat]) /\ Len(routes') = n + 1
      /\ routes'[n + 1] = new /\ \A i \in 1 .. n : routes'[i] = routes[i]
  <2>1. new \in [pattern : Seq(Parts), group : Nat]
    BY <1>2, <1>3
  <2>2. routes \in Seq([pattern : Seq(Parts), group : Nat])
    BY DEF Slices
  <2> HIDE DEF new
  <2> QED BY <1>1, <2>1, <2>2
<1>5. Quota'
  <2>1. Quota /\ Setup("routes")
    BY DEF Slices, GET
  <2> QED BY <2>1, QuotaKept
<1>6. ASSUME NEW i \in 1 .. n + 1
      PROVE  /\ routes'[i].group \in 1 .. Len(groups)
             /\ Plain(groups[routes'[i].group].prefix)
                   => Heads(groups[routes'[i].group].prefix, routes'[i].pattern)
  <2>1. CASE i \in 1 .. n
    BY <1>4, <2>1 DEF Slices
  <2>2. CASE i = n + 1
    BY <1>2, <1>3, <1>4, <2>2
  <2> QED BY <1>2, <2>1, <2>2
<1>7. Slices'
  BY <1>1, <1>4, <1>5, <1>6 DEF Slices
<1>8. Inherited'
  <2>1. \A h, i : Slot(h, i)' = Slot(h, i)
    BY <1>1 DEF Slot
  <2> QED BY <1>1, <2>1 DEF Inherited
<1> QED BY <1>7, <1>8

\* What is done while a request is served leaves that alone.
LEMMA SetupOver ==
    ASSUME Slices, Inherited, UNCHANGED <<setupVars, left>>
    PROVE  Slices' /\ Inherited'
<1>1. UNCHANGED <<groups, arrays, clash, routes, left>>
  BY DEF setupVars
<1>2. \A h, i : Slot(h, i)' = Slot(h, i)
  BY <1>1 DEF Slot
<1>3. Slices'
  BY <1>1 DEF Slices, Quota
<1>4. Inherited'
  BY <1>1, <1>2 DEF Inherited
<1> QED BY <1>3, <1>4

\* Static adds a text like any other.
LEMMA StaticIsGET ==
    ASSUME NEW g, NEW relative \in Statics, Static(g, relative)
    PROVE  \E comp \in Texts : GET(g, comp)
<1>1. PICK filepath \in Stars : GET(g, relative \o <<filepath>>)
  BY DEF Static
<1>2. relative \in Texts /\ filepath \in Items
  BY GeeWebAssumption, TrieAssumption DEF Items
<1>3. relative \o <<filepath>> \in Texts
  BY ONLY <1>2 DEF Texts
<1> QED BY <1>1, <1>3

LEMMA SetupKept ==
    ASSUME Slices, Inherited, [Next]_vars
    PROVE  Slices' /\ Inherited'
<1>1. CASE UNCHANGED vars
  BY <1>1, SetupOver DEF vars
<1>2. ASSUME NEW g \in DOMAIN groups, Use(g) PROVE Slices' /\ Inherited'
  BY <1>2, SetupUse
<1>3. ASSUME NEW g \in DOMAIN groups, NEW prefix \in GroupPrefixes, Group(g, prefix)
      PROVE  Slices' /\ Inherited'
  BY <1>3, SetupGroup
<1>4. ASSUME NEW g \in DOMAIN groups, NEW comp \in Comps, GET(g, comp)
      PROVE  Slices' /\ Inherited'
  <2>1. comp \in Texts
    BY GeeWebAssumption
  <2> QED BY <1>4, <2>1, SetupGET
<1>5. ASSUME NEW g \in DOMAIN groups, NEW relative \in Statics, Static(g, relative)
      PROVE  Slices' /\ Inherited'
  BY <1>5, StaticIsGET, SetupGET
<1>6. ASSUME NEW p \in Paths, Serve(p) PROVE Slices' /\ Inherited'
  BY <1>6, SetupOver DEF Serve
<1>7. CASE Loop \/ CallNext \/ Returns \/ Panics
  BY <1>7, SetupOver DEF Loop, CallNext, Returns, Panics
<1> QED BY <1>1, <1>2, <1>3, <1>4, <1>5, <1>6, <1>7 DEF Next

-----------------------------------------------------------------------------
(* A request and its handlers. *)

\* The slices of the groups whose prefix a path has, the empty one for others.
Chosen(p) == [g \in DOMAIN groups |->
                 IF HasPrefix(p, groups[g].prefix) THEN Held(g) ELSE <<>>]

\* The request has what Serve has given it.
Served ==
    /\ at = "setup" => started = <<>> /\ active = <<>> /\ found = 0
    /\ at # "setup" => /\ path \in Paths /\ found = Search(nodes, ParsePattern(path))
                       /\ params = IF found = 0 THEN <<>>
                                   ELSE RouteParams(nodes[found].pattern, ParsePattern(path))
                       /\ handlers = HandlersFor(path, found)

LEMMA FirstOf ==
    ASSUME NEW T \in SUBSET Nat, T # {}
    PROVE  First(T) \in T /\ \A x \in T : First(T) <= x
BY LeastOf DEF First

LEMMA HeldType ==
    ASSUME Slices, NEW g \in 1 .. Len(groups)
    PROVE  /\ Held(g) \in Seq(Handlers \cup {"empty"}) /\ Len(Held(g)) = groups[g].len
           /\ \A i \in 1 .. groups[g].len : Held(g)[i] = Slot(g, i)
<1> DEFINE Full == Handlers \cup {"empty"}
           old == arrays[groups[g].array]
           len == groups[g].len
<1>1. len \in Nat /\ groups[g].array \in 1 .. Len(arrays) /\ len <= Len(old)
  <2>1. groups[g] \in GroupType /\ groups[g].array \in 1 .. Len(arrays) /\ len <= Len(old)
    BY DEF Slices
  <2> QED BY <2>1 DEF GroupType
<1>2. old \in Seq(Full)
  <2>1. arrays \in Seq(Seq(Full))
    BY DEF Slices
  <2> QED BY <1>1, <2>1
<1>3. Held(g) = SubSeq(old, 1, len)
  BY DEF Held
<1> HIDE DEF old, len, Full
<1>4. /\ SubSeq(old, 1, len) \in Seq(Full) /\ Len(SubSeq(old, 1, len)) = len
      /\ \A i \in 1 .. len : SubSeq(old, 1, len)[i] = old[i]
  BY <1>1, <1>2
<1> QED BY <1>3, <1>4 DEF Slot, len, old, Full

LEMMA ChosenType ==
    ASSUME Slices, NEW p
    PROVE  /\ Chosen(p) \in Seq(Seq(Handlers \cup {"empty"})) /\ Chosen(p) # <<>>
           /\ Len(Chosen(p)) = Len(groups)
           /\ FlattenSeq(Chosen(p)) \in Seq(Handlers \cup {"empty"})
<1> DEFINE Full == Handlers \cup {"empty"}
           n == Len(groups)
<1>1. n \in Nat /\ n > 0 /\ DOMAIN groups = 1 .. n
  BY DEF Slices
<1>2. \A g \in 1 .. n : Chosen(p)[g] \in Seq(Full)
  <2> TAKE g \in 1 .. n
  <2>1. Held(g) \in Seq(Full) /\ <<>> \in Seq(Full)
    BY HeldType
  <2> QED BY <1>1, <2>1 DEF Chosen
<1>3. Chosen(p) = [g \in 1 .. n |-> Chosen(p)[g]]
  BY <1>1 DEF Chosen
<1>4. Chosen(p) \in [1 .. n -> Seq(Full)]
  BY <1>2, <1>3
<1>5. Chosen(p) \in Seq(Seq(Full)) /\ Len(Chosen(p)) = n /\ Chosen(p) # <<>>
  <2> DEFINE V == Seq(Full)
             c == Chosen(p)
  <2>1. c \in [1 .. n -> V]
    BY <1>4
  <2> HIDE DEF V, c
  <2>2. c \in Seq(V) /\ Len(c) = n /\ c # <<>>
    BY <1>1, <2>1
  <2> QED BY <2>2 DEF V, c
<1>6. FlattenSeq(Chosen(p)) \in Seq(Full)
  BY <1>5, FlattenHas
<1> QED BY <1>5, <1>6

\* The handlers: those of the chosen slices, and the last, which is the route's.
LEMMA HandlersType ==
    ASSUME Slices, NEW p, NEW node
    PROVE  /\ HandlersFor(p, node) \in Seq(Handlers \cup {"empty"})
           /\ Len(HandlersFor(p, node)) = Len(FlattenSeq(Chosen(p))) + 1
           /\ \A i \in 1 .. Len(FlattenSeq(Chosen(p))) :
                 HandlersFor(p, node)[i] = FlattenSeq(Chosen(p))[i]
<1> DEFINE Full == Handlers \cup {"empty"}
           front == FlattenSeq(Chosen(p))
           last == IF node = 0 THEN "404" ELSE "route"
<1>1. front \in Seq(Full) /\ last \in Full
  BY ChosenType, GeeWebAssumption
<1>2. HandlersFor(p, node) = front \o <<last>>
  BY DEF HandlersFor, Chosen
<1> HIDE DEF Full, front, last
<1>3. /\ front \o <<last>> \in Seq(Full) /\ Len(front \o <<last>>) = Len(front) + 1
      /\ \A i \in 1 .. Len(front) : (front \o <<last>>)[i] = front[i]
  BY ONLY <1>1
<1> QED BY <1>2, <1>3 DEF Full, front

LEMMA ServedKept ==
    ASSUME Served, [Next]_vars
    PROVE  Served'
<1>1. CASE UNCHANGED vars
  BY <1>1 DEF vars, setupVars, requestVars, Served, HandlersFor, Held
<1>2. CASE \E g \in DOMAIN groups :
              \/ Use(g)
              \/ \E prefix \in GroupPrefixes : Group(g, prefix)
              \/ \E comp \in Comps : GET(g, comp)
              \/ \E relative \in Statics : Static(g, relative)
  <2>1. at = "setup" /\ at' = "setup" /\ UNCHANGED <<started, active, found>>
    BY <1>2 DEF Use, Group, GET, Static, Setup, requestVars
  <2> QED BY <2>1 DEF Served
<1>3. ASSUME NEW p \in Paths, Serve(p) PROVE Served'
  BY <1>3 DEF Serve, Served, HandlersFor, Held, setupVars
<1>4. CASE Loop \/ CallNext \/ Returns \/ Panics
  <2>1. at # "setup" /\ at' # "setup"
    BY <1>4 DEF Loop, CallNext, Returns, Panics
  <2>2. UNCHANGED <<nodes, groups, arrays, path, found, params, handlers>>
    BY <1>4 DEF Loop, CallNext, Returns, Panics, setupVars
  <2> QED BY <2>1, <2>2 DEF Served, HandlersFor, Held
<1> QED BY <1>1, <1>2, <1>3, <1>4 DEF Next

\* Nothing is skipped: a loop is at the handler after the last one started, or
\* behind the end, and so is a handler that has called Next.
Running ==
    /\ started \in Seq(Nat) /\ \A i \in 1 .. Len(started) : started[i] = i
    /\ active \in Seq([handler : Nat, nexts : Nat]) /\ index \in Nat
    /\ Len(handlers) \in Nat /\ Len(started) <= Len(handlers)
    /\ at \in {"setup", "loop", "handler", "done", "crashed"}
    /\ at = "loop" => \/ index = Len(started) + 1
                      \/ Len(started) = Len(handlers) /\ index > Len(handlers)
    /\ at = "handler" => /\ active # <<>>
                         /\ \/ index = Len(started)
                            \/ Len(started) = Len(handlers) /\ index > Len(handlers)
                         /\ active[1].nexts > 0 => Len(started) = Len(handlers)
    /\ at = "done" => Len(started) = Len(handlers)

LEMMA RunningInit == Init => Served /\ Running
<1> SUFFICES ASSUME Init PROVE Served /\ Running
  OBVIOUS
<1>1. /\ started = <<>> /\ active = <<>> /\ index = 0 /\ handlers = <<>> /\ at = "setup"
      /\ found = 0
  BY DEF Init
<1> QED BY <1>1 DEF Served, Running

LEMMA RunningKept ==
    ASSUME Slices, Served, Running, [Next]_vars
    PROVE  Running'
<1> DEFINE Call == [handler : Nat, nexts : Nat]
<1>1. CASE UNCHANGED vars
  BY <1>1 DEF vars, setupVars, requestVars, Running
<1>2. CASE \E g \in DOMAIN groups :
              \/ Use(g)
              \/ \E prefix \in GroupPrefixes : Group(g, prefix)
              \/ \E comp \in Comps : GET(g, comp)
              \/ \E relative \in Statics : Static(g, relative)
  <2>1. at' = at /\ UNCHANGED requestVars
    BY <1>2 DEF Use, Group, GET, Static, Setup
  <2> QED BY <2>1, SMTT(30) DEF Running, requestVars
<1>3. ASSUME NEW p \in Paths, Serve(p) PROVE Running'
  <2>1. /\ at' = "loop" /\ started' = <<>> /\ active' = <<>> /\ index' = 1
        /\ handlers' = HandlersFor(p, found')
    BY <1>3 DEF Serve, Served
  <2>2. handlers' \in Seq(Handlers \cup {"empty"})
    BY <2>1, HandlersType
  <2>3. Len(handlers') \in Nat
    BY <2>2
  <2>4. /\ started' \in Seq(Nat) /\ Len(started') = 0 /\ active' \in Seq(Call)
    BY <2>1
  <2> QED BY <2>1, <2>3, <2>4 DEF Running
<1>4. CASE Loop
  <2> DEFINE first == [handler |-> index, nexts |-> 0]
  <2>1. at = "loop" /\ UNCHANGED <<handlers, index>>
    BY <1>4 DEF Loop
  <2>2. CASE /\ index <= Len(handlers) /\ active' = <<first>> \o active
             /\ started' = Append(started, index) /\ at' = "handler"
    <3>1. index = Len(started) + 1 /\ Len(started) \in Nat
      BY <2>1, <2>2 DEF Running
    <3>2. /\ started' \in Seq(Nat) /\ Len(started') = index
          /\ \A i \in 1 .. index : started'[i] = i
      BY <2>2, <3>1 DEF Running
    <3>3. active' \in Seq(Call) /\ active' # <<>> /\ active'[1].nexts = 0
      <4>1. first \in Call /\ first.nexts = 0 /\ active \in Seq(Call)
        BY DEF Running
      <4> HIDE DEF first, Call
      <4>2. /\ <<first>> \o active \in Seq(Call) /\ <<first>> \o active # <<>>
            /\ (<<first>> \o active)[1] = first
        BY ONLY <4>1
      <4> QED BY <2>2, <4>1, <4>2
    <3> QED BY <2>1, <2>2, <3>1, <3>2, <3>3 DEF Running
  <2>3. CASE /\ index > Len(handlers)
             /\ at' = (IF active = <<>> THEN "done" ELSE "handler")
             /\ UNCHANGED <<active, started>>
    <3>1. Len(started) = Len(handlers)
      BY <2>1, <2>3 DEF Running
    <3> QED BY <2>1, <2>3, <3>1 DEF Running
  <2> QED BY <1>4, <2>2, <2>3 DEF Loop
\* A handler calls Next or ends, and some of those that run may end with it.
<1>5. ASSUME at = "handler", at' = "loop", index' = index + 1, active' \in Seq(Call),
             UNCHANGED <<handlers, started>>
      PROVE  Running'
  <2>1. /\ Len(started) \in Nat /\ Len(handlers) \in Nat /\ index \in Nat
        /\ Len(started) <= Len(handlers)
    BY DEF Running
  <2>2. \/ index = Len(started)
        \/ Len(started) = Len(handlers) /\ index > Len(handlers)
    BY <1>5 DEF Running
  <2>3. \/ index' = Len(started) + 1
        \/ Len(started) = Len(handlers) /\ index' > Len(handlers)
    BY <1>5, <2>1, <2>2
  <2> QED BY <1>5, <2>1, <2>3 DEF Running
<1>6. CASE CallNext
  <2>1. active \in Seq(Call) /\ active # <<>>
    BY <1>6 DEF Running, CallNext
  <2>2. active[1] \in Call
    <3> HIDE DEF Call
    <3> QED BY <2>1
  <2> DEFINE more == [active[1] EXCEPT !.nexts = @ + 1]
  <2>3. more \in Call
    BY <2>2
  <2>4. active' = [active EXCEPT ![1] = more]
    BY <1>6 DEF CallNext
  <2> HIDE DEF more, Call
  <2>5. active' \in Seq(Call)
    BY <2>1, <2>3, <2>4
  <2> QED BY <1>5, <1>6, <2>5 DEF CallNext
<1>7. CASE Returns
  <2>1. active \in Seq(Call) /\ active # <<>>
    BY <1>7 DEF Running, Returns
  <2> HIDE DEF Call
  <2>2. Tail(active) \in Seq(Call)
    BY <2>1
  <2> QED BY <1>5, <1>7, <2>2 DEF Returns
<1>8. CASE Panics
  <2> DEFINE recovering == {i \in DOMAIN active : "recover" \in May[handlers[active[i].handler]]}
  <2>1. active \in Seq(Call)
    BY DEF Running
  <2>2. CASE recovering = {}
    <3>1. at' = "crashed" /\ UNCHANGED <<active, index, handlers, started>>
      BY <1>8, <2>2 DEF Panics
    <3> QED BY <3>1 DEF Running
  <2>3. CASE recovering # {}
    <3>1. recovering \in SUBSET Nat /\ Len(active) \in Nat
      BY <2>1
    <3>2. First(recovering) \in Nat
      <4> HIDE DEF recovering
      <4> QED BY <2>3, <3>1, FirstOf
    <3>3. active' = SubSeq(active, First(recovering) + 1, Len(active))
      BY <1>8, <2>3 DEF Panics
    <3> HIDE DEF recovering, Call
    <3>4. active' \in Seq(Call)
      <4>1. /\ First(recovering) + 1 \in 1 .. Len(active) + 1 \/ First(recovering) + 1 > Len(active)
        BY <3>1, <3>2
      <4> QED BY <2>1, <3>1, <3>2, <3>3
    <3>5. at' = "loop" /\ index' = index + 1 /\ UNCHANGED <<handlers, started>>
      BY <1>8, <2>3 DEF Panics, recovering
    <3> QED BY <1>5, <1>8, <3>4, <3>5 DEF Panics
  <2> QED BY <2>2, <2>3
<1> QED BY <1>1, <1>2, <1>3, <1>4, <1>6, <1>7, <1>8 DEF Next

WebInv == Slices /\ Inherited /\ Served /\ Running

LEMMA WebInvariance == Spec => []WebInv
<1>1. Init => WebInv
  BY SetupInit, RunningInit DEF WebInv
<1>2. WebInv /\ [Next]_vars => WebInv'
  BY SetupKept, ServedKept, RunningKept DEF WebInv
<1> QED BY <1>1, <1>2, PTL DEF Spec

\* Handlers, whatever they do with Next and with panics, run at most once and in
\* order (Context.Next).
THEOREM HandlersRunOnce == Spec => []EachOnce
<1>1. WebInv => EachOnce
  BY DEF WebInv, Running, EachOnce
<1> QED BY <1>1, WebInvariance, PTL

-----------------------------------------------------------------------------
(* The middlewares of a request. *)

LEMMA PrefixHeads ==
    ASSUME NEW p \in Texts, NEW q \in Texts, NEW r \in Texts,
           Heads(q, r), HasPrefix(p, r)
    PROVE  HasPrefix(p, q)
<1> DEFINE Begun(a, b) == a = Empty \/ <<a, b>> \in Begins
<1>1. Len(p) \in Nat /\ Len(q) \in Nat /\ Len(r) \in Nat
  BY DEF Texts
<1>2. DOMAIN q = 1 .. Len(q) /\ DOMAIN r = 1 .. Len(r)
  BY DEF Texts
<1>3. Len(q) <= Len(r) /\ Len(r) <= Len(p) /\ Len(q) <= Len(p)
  BY <1>1 DEF Heads, HasPrefix
<1>4. ASSUME NEW i \in DOMAIN q
      PROVE  p[i] = q[i] \/ (i = Len(q) /\ Begun(q[i], p[i]))
  <2>1. i \in DOMAIN r /\ r[i] = q[i]
    BY <1>1, <1>2, <1>3 DEF Heads
  <2>2. p[i] = r[i] \/ (i = Len(r) /\ Begun(r[i], p[i]))
    BY <2>1 DEF HasPrefix
  <2>3. i = Len(r) => i = Len(q)
    <3>1. i \in 1 .. Len(q)
      BY <1>2
    <3> QED BY ONLY <1>1, <1>3, <3>1
  <2> QED BY <2>1, <2>2, <2>3
<1> QED BY <1>3, <1>4 DEF HasPrefix

\* A request's middlewares: those in the slices of the groups whose prefix its
\* path has.
LEMMA RunIs ==
    ASSUME Slices, Served, at # "setup",
           NEW m
    PROVE  m \in {handlers[i] : i \in 1 .. Len(handlers) - 1}
              <=> \E g \in 1 .. Len(groups) : /\ HasPrefix(path, groups[g].prefix)
                                              /\ \E i \in 1 .. groups[g].len : Slot(g, i) = m
<1> DEFINE Full == Handlers \cup {"empty"}
           c == Chosen(path)
           front == FlattenSeq(c)
           n == Len(groups)
<1>1. c \in Seq(Seq(Full)) /\ c # <<>> /\ Len(c) = n /\ front \in Seq(Full)
  BY ChosenType
<1>2. /\ Len(handlers) = Len(front) + 1
      /\ \A i \in 1 .. Len(front) : handlers[i] = front[i]
  BY HandlersType DEF Served
<1>3. (\E k \in 1 .. Len(front) : front[k] = m)
         <=> \E g \in 1 .. Len(c) : \E k \in 1 .. Len(c[g]) : c[g][k] = m
  <2> HIDE DEF c, Full
  <2>1. \A x : (\E k \in 1 .. Len(FlattenSeq(c)) : FlattenSeq(c)[k] = x)
                  <=> \E g \in 1 .. Len(c) : \E k \in 1 .. Len(c[g]) : c[g][k] = x
    BY ONLY <1>1, FlattenHas
  <2> QED BY <2>1
<1>4. m \in {handlers[i] : i \in 1 .. Len(handlers) - 1} <=> \E k \in 1 .. Len(front) : front[k] = m
  <2> HIDE DEF front
  <2>1. Len(front) \in Nat
    BY <1>1
  <2>2. 1 .. Len(handlers) - 1 = 1 .. Len(front)
    BY <1>2, <2>1
  <2> QED BY <1>2, <2>2
<1>5. ASSUME NEW g \in 1 .. n
      PROVE  (\E k \in 1 .. Len(c[g]) : c[g][k] = m)
                <=> /\ HasPrefix(path, groups[g].prefix)
                    /\ \E i \in 1 .. groups[g].len : Slot(g, i) = m
  <2>1. g \in DOMAIN groups
    BY DEF Slices
  <2>2. CASE HasPrefix(path, groups[g].prefix)
    <3>1. c[g] = Held(g)
      BY <2>1, <2>2 DEF Chosen
    <3>2. Len(Held(g)) = groups[g].len /\ \A i \in 1 .. groups[g].len : Held(g)[i] = Slot(g, i)
      BY HeldType
    <3> HIDE DEF c
    <3> QED BY <2>2, <3>1, <3>2
  <2>3. CASE ~HasPrefix(path, groups[g].prefix)
    <3>1. c[g] = <<>>
      BY <2>1, <2>3 DEF Chosen
    <3>2. 1 .. Len(c[g]) = {}
      <4> HIDE DEF c
      <4> QED BY <3>1
    <3> QED BY <2>3, <3>2
  <2> QED BY <2>2, <2>3
<1> HIDE DEF c, front
<1> QED BY <1>1, <1>3, <1>4, <1>5

\* A group is found by the paths of its routes, as is every group around it.
LEMMA RoutePrefix ==
    ASSUME NEW p \in Texts, NEW pattern \in Seq(Parts), NEW prefix \in Texts,
           Plain(prefix) => Heads(prefix, pattern), Matches(pattern, ParsePattern(p)),
           Plain(prefix), PlainAlong(prefix, p)
    PROVE  HasPrefix(p, prefix)
<1> DEFINE parts == ParsePattern(p)
           k == Len(prefix)
<1>1. /\ Len(p) \in Nat /\ Len(pattern) \in Nat /\ k \in Nat
      /\ DOMAIN prefix = 1 .. k /\ DOMAIN pattern = 1 .. Len(pattern) /\ DOMAIN p = 1 .. Len(p)
  BY DEF Texts
<1>2. parts \in Seq(Parts) /\ Len(parts) <= Len(p)
  BY ParseRight
<1>3. ASSUME NEW i \in 1 .. k
      PROVE  i \in 1 .. Len(parts) /\ parts[i] = prefix[i]
  <2>1. i \in DOMAIN pattern /\ pattern[i] = prefix[i] /\ ~Wild(pattern[i])
    BY <1>1 DEF Heads, Plain
  <2>2. DOMAIN parts = 1 .. Len(parts)
    BY <1>2
  <2> QED BY <2>1, <2>2 DEF Matches
<1> HIDE DEF parts, k
<1>4. k <= Len(parts) /\ k <= Len(p)
  <2>1. Len(parts) \in Nat
    BY <1>2
  <2>2. k = 0 \/ k \in 1 .. k
    BY <1>1
  <2> QED BY <1>1, <1>2, <1>3, <2>1, <2>2
<1>5. ASSUME NEW i \in 1 .. k PROVE p[i] = prefix[i]
  <2>1. \A m \in 1 .. k : p[m] # Empty
    BY <1>1, <1>4 DEF PlainAlong
  <2>2. k \in 0 .. Len(p)
    BY <1>1, <1>4
  <2>3. i <= Len(parts) => parts[i] = p[i]
    BY <2>1, <2>2, ParseRight DEF parts
  <2> QED BY <1>1, <1>2, <1>3, <1>4, <2>3
<1> QED BY <1>1, <1>4, <1>5 DEF HasPrefix, k

LEMMA PrefixType ==
    ASSUME Slices
    PROVE  /\ DOMAIN groups = 1 .. Len(groups)
           /\ \A k \in 1 .. Len(groups) : groups[k].prefix \in Texts
<1>1. DOMAIN groups = 1 .. Len(groups) /\ \A k \in 1 .. Len(groups) : groups[k] \in GroupType
  BY DEF Slices
<1> QED BY <1>1 DEF GroupType

LEMMA AncestorsHead ==
    ASSUME Slices, NEW g \in 1 .. Len(groups), NEW a \in Ancestors(g)
    PROVE  a \in 1 .. Len(groups) /\ Heads(groups[a].prefix, groups[g].prefix)
<1> DEFINE line == {k \in DOMAIN groups : Heads(groups[k].prefix, groups[g].prefix)}
<1>1. /\ DOMAIN groups = 1 .. Len(groups)
      /\ \A k \in 1 .. Len(groups) : groups[k].prefix \in Texts
  BY PrefixType
<1>2. g \in line
  BY <1>1, HeadsConcat
<1>3. ASSUME NEW k \in line PROVE groups[k].parent \in line
  <2>1. /\ groups[k].parent \in 1 .. Len(groups)
        /\ Heads(groups[groups[k].parent].prefix, groups[k].prefix)
    BY <1>1 DEF Slices
  <2>2. Heads(groups[groups[k].parent].prefix, groups[g].prefix)
    BY <1>1, <2>1, HeadsTransitive
  <2> QED BY <1>1, <2>1, <2>2
<1>4. a \in line
  <2>1. line \in SUBSET DOMAIN groups
    OBVIOUS
  <2> HIDE DEF line
  <2> QED BY <1>2, <1>3, <2>1 DEF Ancestors
<1> QED BY <1>1, <1>4

LEMMA MiddlewaresRight ==
    ASSUME WebInv
    PROVE  GuardedRoutes
<1> DEFINE n == Len(groups)
           run == {handlers[i] : i \in 1 .. Len(handlers) - 1}
<1> SUFFICES ASSUME at # "setup", ~clash
             PROVE  /\ \A m \in run : \E g \in DOMAIN groups :
                          m \in groups[g].own /\ HasPrefix(path, groups[g].prefix)
                    /\ \A i \in DOMAIN routes :
                          /\ Matches(routes[i].pattern, ParsePattern(path))
                          /\ Plain(groups[routes[i].group].prefix)
                          /\ PlainAlong(groups[routes[i].group].prefix, path)
                          => \A g \in Ancestors(routes[i].group) : groups[g].own \subseteq run
  BY DEF GuardedRoutes, Requested
<1>1. /\ DOMAIN groups = 1 .. n
      /\ \A k \in 1 .. n : groups[k].prefix \in Texts
  BY PrefixType DEF WebInv
<1>2. path \in Texts
  BY GeeWebAssumption DEF WebInv, Served
<1>3. \A m : m \in run <=> \E g \in 1 .. n : /\ HasPrefix(path, groups[g].prefix)
                                            /\ \E i \in 1 .. groups[g].len : Slot(g, i) = m
  BY RunIs DEF WebInv
<1>4. \A g \in 1 .. n :
         /\ \A m \in groups[g].own : \E i \in 1 .. groups[g].len : Slot(g, i) = m
         /\ \A i \in 1 .. groups[g].len : \E a \in 1 .. n :
               Slot(g, i) \in groups[a].own /\ Heads(groups[a].prefix, groups[g].prefix)
  BY DEF WebInv, Inherited
<1> HIDE DEF run
<1>5. ASSUME NEW m \in run
      PROVE  \E g \in DOMAIN groups : m \in groups[g].own /\ HasPrefix(path, groups[g].prefix)
  <2>1. PICK g \in 1 .. n : /\ HasPrefix(path, groups[g].prefix)
                            /\ \E i \in 1 .. groups[g].len : Slot(g, i) = m
    BY <1>3
  <2>2. PICK a \in 1 .. n : m \in groups[a].own /\ Heads(groups[a].prefix, groups[g].prefix)
    BY <1>4, <2>1
  <2> QED BY <1>1, <1>2, <2>1, <2>2, PrefixHeads
<1>6. ASSUME NEW i \in DOMAIN routes,
             NEW g \in Ancestors(routes[i].group),
             Matches(routes[i].pattern, ParsePattern(path)),
             Plain(groups[routes[i].group].prefix),
             PlainAlong(groups[routes[i].group].prefix, path)
      PROVE  \A m \in groups[g].own : m \in run
  <2> DEFINE h == routes[i].group
  <2>1. /\ h \in 1 .. n /\ (Plain(groups[h].prefix) => Heads(groups[h].prefix, routes[i].pattern))
        /\ routes[i].pattern \in Seq(Parts)
    <3>1. routes[i] \in [pattern : Seq(Parts), group : Nat] /\ i \in 1 .. Len(routes)
      <4> DEFINE Route == [pattern : Seq(Parts), group : Nat]
      <4>1. routes \in Seq(Route)
        BY DEF WebInv, Slices
      <4> HIDE DEF Route
      <4>2. routes[i] \in Route /\ i \in 1 .. Len(routes)
        BY <4>1
      <4> QED BY <4>2 DEF Route
    <3> QED BY <3>1 DEF WebInv, Slices
  <2>2. HasPrefix(path, groups[h].prefix)
    BY <1>1, <1>2, <1>6, <2>1, RoutePrefix
  <2>3. g \in 1 .. n /\ Heads(groups[g].prefix, groups[h].prefix)
    BY <1>6, <2>1, AncestorsHead DEF WebInv
  <2>4. HasPrefix(path, groups[g].prefix)
    BY <1>1, <1>2, <2>1, <2>2, <2>3, PrefixHeads
  <2> QED BY <1>3, <1>4, <2>3, <2>4
<1> QED BY <1>5, <1>6

\* The middlewares of a request are those of the groups whose prefix the text of its
\* path has, and, where prefix and path are plain, a route has those of the groups
\* it is in (RouterGroup.Use, Group, ServeHTTP).
THEOREM RoutesAreGuarded == Spec => []GuardedRoutes
<1>1. WebInv => GuardedRoutes
  BY MiddlewaresRight
<1> QED BY <1>1, WebInvariance, PTL

-----------------------------------------------------------------------------
(* The trie: its nodes and their ways. *)

\* SameKind is an equivalence, and parts of one kind match alike.
LEMMA Kinds ==
    /\ \A p : SameKind(p, p)
    /\ \A p, q : SameKind(p, q) => /\ SameKind(q, p) /\ (Wild(p) <=> Wild(q))
                                   /\ (p \in Stars <=> q \in Stars) /\ (~Wild(p) => p = q)
    /\ \A p, q, r : SameKind(p, q) /\ SameKind(q, r) => SameKind(p, r)
BY TrieAssumption DEF SameKind, Wild

\* The parts of p are of the kinds of those q begins with, or of all of q.
Along(p, q) == Len(p) <= Len(q) /\ \A i \in 1 .. Len(p) : SameKind(p[i], q[i])
Alike(p, q) == Len(p) = Len(q) /\ Along(p, q)

LEMMA AlongTransitive ==
    ASSUME NEW p \in Seq(Parts), NEW q \in Seq(Parts), NEW r \in Seq(Parts),
           Along(p, q), Along(q, r)
    PROVE  Along(p, r)
<1>1. Len(p) \in Nat /\ Len(q) \in Nat /\ Len(r) \in Nat
  OBVIOUS
<1>2. \A i \in 1 .. Len(p) : i \in 1 .. Len(q)
  BY <1>1 DEF Along
<1>3. Len(p) <= Len(r)
  BY <1>1 DEF Along
<1>4. \A i \in 1 .. Len(p) : SameKind(p[i], r[i])
  BY <1>2, Kinds DEF Along
<1> QED BY <1>3, <1>4 DEF Along

LEMMA AlikeSymmetric ==
    ASSUME NEW p, NEW q, Alike(p, q)
    PROVE  Alike(q, p)
BY Kinds DEF Alike, Along

LEMMA HeadsAlong ==
    ASSUME NEW p, NEW q, Heads(p, q)
    PROVE  Along(p, q)
BY Kinds DEF Heads, Along

NodeType == [parent : Nat, part : Parts \cup {""}, pattern : Seq(Parts) \cup {NoPattern}]

\* t is a trie, and w[n] the way from its root to n: a node comes after its
\* parent, and a wildcard after its siblings, which are different.
Tree(t, w) ==
    /\ t \in Seq(NodeType) /\ Len(t) >= 1 /\ w \in [1 .. Len(t) -> Seq(Parts)]
    /\ t[1].part = "" /\ t[1].parent = 0 /\ w[1] = <<>>
    /\ \A n \in 2 .. Len(t) : /\ t[n].parent \in 1 .. n - 1 /\ t[n].part \in Parts
                              /\ w[n] = Append(w[t[n].parent], t[n].part)
    /\ \A m, n \in 2 .. Len(t) : m < n /\ t[m].parent = t[n].parent
                                 => ~Wild(t[m].part) /\ t[m].part # t[n].part

\* A node's way is its parent's and its own part.
LEMMA WayIs ==
    ASSUME NEW t, NEW w, Tree(t, w)
    PROVE  /\ Len(t) \in Nat /\ DOMAIN t = 1 .. Len(t)
           /\ \A n \in 1 .. Len(t) : w[n] \in Seq(Parts) /\ Len(w[n]) \in Nat
           /\ Len(w[1]) = 0 /\ 1 \in 1 .. Len(t) /\ t[1].parent = 0 /\ t[1].part \notin Stars
           /\ \A n \in 2 .. Len(t) :
                 /\ t[n].parent \in 1 .. Len(t) /\ t[n].parent < n
                 /\ Len(w[n]) = Len(w[t[n].parent]) + 1 /\ Len(w[n]) > 0
                 /\ w[n][Len(w[n])] = t[n].part
                 /\ \A i \in 1 .. Len(w[t[n].parent]) : w[n][i] = w[t[n].parent][i]
<1>1. Len(t) \in Nat /\ DOMAIN t = 1 .. Len(t)
  <2>1. t \in Seq(NodeType)
    BY DEF Tree
  <2> QED BY ONLY <2>1
<1>2. \A n \in 1 .. Len(t) : w[n] \in Seq(Parts) /\ Len(w[n]) \in Nat
  <2>1. w \in [1 .. Len(t) -> Seq(Parts)]
    BY DEF Tree
  <2> QED BY <2>1
<1>3. \A s \in Seq(Parts), p \in Parts :
         /\ Len(Append(s, p)) = Len(s) + 1 /\ Append(s, p)[Len(s) + 1] = p
         /\ \A i \in 1 .. Len(s) : Append(s, p)[i] = s[i]
  OBVIOUS
<1>4. ASSUME NEW n \in 2 .. Len(t)
      PROVE  /\ t[n].parent \in 1 .. Len(t) /\ t[n].parent < n
             /\ Len(w[n]) = Len(w[t[n].parent]) + 1 /\ Len(w[n]) > 0
             /\ w[n][Len(w[n])] = t[n].part
             /\ \A i \in 1 .. Len(w[t[n].parent]) : w[n][i] = w[t[n].parent][i]
  <2>1. t[n].parent \in 1 .. n - 1 /\ t[n].part \in Parts
        /\ w[n] = Append(w[t[n].parent], t[n].part)
    BY DEF Tree
  <2>2. t[n].parent \in 1 .. Len(t) /\ t[n].parent < n
    BY <1>1, <2>1
  <2> QED BY <1>2, <1>3, <2>1, <2>2
<1>5. w[1] = <<>> /\ t[1].parent = 0 /\ t[1].part \notin Stars
  BY TrieAssumption DEF Tree
<1>6. 1 \in 1 .. Len(t)
  <2>1. Len(t) >= 1
    BY DEF Tree
  <2> QED BY <1>1, <2>1
<1> QED BY <1>1, <1>2, <1>4, <1>5, <1>6

\* No two nodes have ways of the same kinds.
LEMMA Unique ==
    ASSUME NEW t, NEW w, Tree(t, w), NEW m \in 1 .. Len(t), NEW n \in 1 .. Len(t),
           Alike(w[m], w[n])
    PROVE  m = n
<1> DEFINE P == {d \in Nat : \A i, j \in 1 .. Len(t) :
                    Len(w[i]) = d /\ Alike(w[i], w[j]) => i = j}
<1>1. \A i \in 1 .. Len(t) : i = 1 \/ i \in 2 .. Len(t)
  BY WayIs
<1>2. 0 \in P
  <2>1. \A i \in 2 .. Len(t) : Len(w[i]) > 0
    BY WayIs
  <2>2. \A i \in 1 .. Len(t) : Len(w[i]) = 0 => i = 1
    BY ONLY <1>1, <2>1
  <2> QED BY <2>2 DEF Alike
<1>3. ASSUME NEW d \in Nat, d \in P PROVE d + 1 \in P
  <2> SUFFICES ASSUME NEW i \in 1 .. Len(t), NEW j \in 1 .. Len(t),
                      Len(w[i]) = d + 1, Alike(w[i], w[j])
               PROVE  i = j
    OBVIOUS
  <2> DEFINE a == t[i].parent
             b == t[j].parent
  <2>1. Len(w[j]) = d + 1
    BY DEF Alike
  <2>2. i \in 2 .. Len(t) /\ j \in 2 .. Len(t)
    <3>1. Len(w[1]) # d + 1
      BY WayIs
    <3> QED BY <1>1, <2>1, <3>1
  <2>3. /\ a \in 1 .. Len(t) /\ b \in 1 .. Len(t) /\ Len(w[a]) = d /\ Len(w[b]) = d
        /\ w[i][d + 1] = t[i].part /\ w[j][d + 1] = t[j].part
        /\ \A k \in 1 .. d : w[i][k] = w[a][k] /\ w[j][k] = w[b][k]
    <3>1. ASSUME NEW c \in 2 .. Len(t), Len(w[c]) = d + 1
          PROVE  /\ t[c].parent \in 1 .. Len(t) /\ Len(w[t[c].parent]) = d
                 /\ w[c][d + 1] = t[c].part
                 /\ \A k \in 1 .. d : w[c][k] = w[t[c].parent][k]
      <4>1. /\ t[c].parent \in 1 .. Len(t) /\ Len(w[c]) = Len(w[t[c].parent]) + 1
            /\ w[c][Len(w[c])] = t[c].part
            /\ \A k \in 1 .. Len(w[t[c].parent]) : w[c][k] = w[t[c].parent][k]
        BY WayIs
      <4>2. Len(w[t[c].parent]) \in Nat
        BY <4>1, WayIs
      <4>3. Len(w[t[c].parent]) = d
        BY <3>1, <4>1, <4>2
      <4> QED BY <3>1, <4>1, <4>3
    <3> QED BY <2>1, <2>2, <3>1
  <2>4. \A k \in 1 .. d + 1 : SameKind(w[i][k], w[j][k])
    BY DEF Alike, Along
  <2>5. Alike(w[a], w[b])
    <3>1. \A k \in 1 .. d : SameKind(w[a][k], w[b][k])
      BY <2>3, <2>4
    <3> QED BY <2>3, <3>1 DEF Alike, Along
  <2>6. a = b
    BY <1>3, <2>3, <2>5
  <2>7. SameKind(t[i].part, t[j].part)
    <3>1. d + 1 \in 1 .. d + 1
      OBVIOUS
    <3> QED BY <2>3, <2>4, <3>1
  <2>8. ~(i < j) /\ ~(j < i)
    <3>1. ~Wild(t[i].part) => t[i].part = t[j].part
      BY <2>7, Kinds
    <3>2. ~Wild(t[j].part) => t[j].part = t[i].part
      BY <2>7, Kinds
    <3> QED BY <2>2, <2>6, <3>1, <3>2 DEF Tree
  <2> QED BY <2>2, <2>8
<1> HIDE DEF P
<1>4. \A d \in Nat : d \in P
  BY <1>2, <1>3, Induction
<1>5. Len(w[m]) \in Nat
  BY WayIs
<1> QED BY <1>4, <1>5 DEF P

\* On the way to a node there is one at every height.
LEMMA AncestorAt ==
    ASSUME NEW t, NEW w, Tree(t, w), NEW e \in 1 .. Len(t), NEW h \in 0 .. Len(w[e])
    PROVE  \E a \in 1 .. Len(t) : Len(w[a]) = h /\ Heads(w[a], w[e])
<1> DEFINE n == Len(w[e])
           At(k) == \E a \in 1 .. Len(t) : Len(w[a]) = k /\ Heads(w[a], w[e])
           P == {d \in Nat : d <= n => At(n - d)}
<1>1. n \in Nat /\ w[e] \in Seq(Parts)
  BY WayIs
<1>2. 0 \in P
  <2>1. Heads(w[e], w[e])
    BY <1>1 DEF Heads
  <2>2. n - 0 = n
    BY <1>1
  <2> QED BY <2>1, <2>2
<1>3. ASSUME NEW d \in Nat, d \in P PROVE d + 1 \in P
  <2> SUFFICES ASSUME d + 1 <= n PROVE At(n - (d + 1))
    OBVIOUS
  <2>1. n - d \in Nat /\ n - d > 0 /\ d <= n /\ n - (d + 1) = (n - d) - 1
    BY <1>1
  <2>2. PICK a \in 1 .. Len(t) : Len(w[a]) = n - d /\ Heads(w[a], w[e])
    BY <1>3, <2>1
  <2> DEFINE b == t[a].parent
  <2>3. a \in 2 .. Len(t)
    BY <2>1, <2>2, WayIs
  <2>4. /\ b \in 1 .. Len(t) /\ Len(w[b]) + 1 = Len(w[a]) /\ Len(w[b]) \in Nat
        /\ \A i \in 1 .. Len(w[b]) : w[a][i] = w[b][i]
    BY <2>3, WayIs
  <2>5. \A i \in 1 .. Len(w[b]) : i \in 1 .. Len(w[a])
    BY <2>4
  <2>6. Heads(w[b], w[e])
    <3>1. Len(w[b]) <= n
      BY <1>1, <2>2, <2>4 DEF Heads
    <3> QED BY <2>2, <2>4, <2>5, <3>1 DEF Heads
  <2>7. Len(w[b]) = n - (d + 1)
    BY <2>1, <2>2, <2>4
  <2> QED BY <2>4, <2>6, <2>7
<1> HIDE DEF P
<1>4. \A d \in Nat : d \in P
  BY <1>2, <1>3, Induction
<1>5. n - h \in Nat /\ n - h <= n /\ n - (n - h) = h
  BY <1>1
<1>6. At(h)
  BY <1>4, <1>5 DEF P
<1> QED BY <1>6

-----------------------------------------------------------------------------
(* Search. *)

\* What the search finds from each node of a height, next being what it finds
\* from those one part further.
Level(t, p, h, next) ==
    [n \in DOMAIN t |->
        IF h = Len(p) \/ t[n].part \in Stars
        THEN IF t[n].pattern = NoPattern THEN 0 ELSE n
        ELSE LET hits == {c \in MatchChildren(t, n, p[h + 1]) : next[c] # 0}
             IN IF hits = {} THEN 0 ELSE next[First(hits)]]

LEMMA LevelType ==
    ASSUME NEW t, NEW w, Tree(t, w), NEW p, NEW h, NEW next \in [DOMAIN t -> Nat]
    PROVE  Level(t, p, h, next) \in [DOMAIN t -> Nat]
<1>1. DOMAIN t \in SUBSET Nat
  BY WayIs
<1>2. ASSUME NEW n \in DOMAIN t
      PROVE  Level(t, p, h, next)[n] \in Nat
  <2> DEFINE hits == {c \in MatchChildren(t, n, p[h + 1]) : next[c] # 0}
  <2>1. hits \in SUBSET DOMAIN t
    BY DEF MatchChildren
  <2>2. hits # {} => First(hits) \in hits
    <3>1. hits \in SUBSET Nat
      BY <1>1, <2>1
    <3> HIDE DEF hits
    <3> QED BY <3>1, FirstOf
  <2>3. hits # {} => next[First(hits)] \in Nat
    <3> HIDE DEF hits
    <3> QED BY <2>1, <2>2
  <2>4. Level(t, p, h, next)[n] =
            IF h = Len(p) \/ t[n].part \in Stars
            THEN IF t[n].pattern = NoPattern THEN 0 ELSE n
            ELSE IF hits = {} THEN 0 ELSE next[First(hits)]
    BY DEF Level
  <2>5. n \in Nat
    BY <1>1
  <2> HIDE DEF hits
  <2> QED BY <2>3, <2>4, <2>5
<1>3. Level(t, p, h, next) = [n \in DOMAIN t |-> Level(t, p, h, next)[n]]
  BY DEF Level
<1> QED BY <1>2, <1>3

LEMMA SearchIs ==
    ASSUME NEW t, NEW w, Tree(t, w), NEW p \in Seq(Parts)
    PROVE  \E f : /\ f \in [0 .. Len(p) -> [DOMAIN t -> Nat]] /\ Search(t, p) = f[0][1]
                  /\ \A h \in 0 .. Len(p) : f[h] = Level(t, p, h, f[h + 1])
<1> DEFINE L == Len(p)
           V == [DOMAIN t -> Nat]
           none == [n \in DOMAIN t |-> 0]
           base == Level(t, p, L, none)
           step == [k \in 1 .. L |-> [next \in V |-> Level(t, p, L - k, next)]]
           Is(f) == f = [h \in 0 .. L |-> Level(t, p, h, f[h + 1])]
           fl == CHOOSE f : Is(f)
<1>1. L \in Nat
  OBVIOUS
<1>2. base \in V
  <2>1. none \in V
    OBVIOUS
  <2> HIDE DEF none
  <2> QED BY <2>1, LevelType
<1>3. step \in [1 .. L -> [V -> V]]
  <2>1. \A h : \A next \in V : Level(t, p, h, next) \in V
    BY LevelType
  <2> HIDE DEF V
  <2> QED BY <2>1
<1>4. PICK g \in [0 .. L -> V] : g[0] = base /\ \A k \in 1 .. L : g[k] = step[k][g[k - 1]]
  <2> HIDE DEF L, V, base, step
  <2> QED BY ONLY <1>1, <1>2, <1>3, Recursion
<1> DEFINE f == [h \in 0 .. L |-> g[L - h]]
<1>5. f \in [0 .. L -> V]
  <2>1. \A h \in 0 .. L : L - h \in 0 .. L
    BY <1>1
  <2> HIDE DEF V, L
  <2> QED BY <1>4, <2>1
<1>6. ASSUME NEW h \in 0 .. L
      PROVE  f[h] = Level(t, p, h, f[h + 1])
  <2>1. CASE h = L
    <3>1. \A x, y : Level(t, p, L, x) = Level(t, p, L, y)
      BY DEF Level
    <3>2. f[h] = base
      <4>1. L - L = 0 /\ L \in 0 .. L
        BY <1>1
      <4> HIDE DEF L, base
      <4> QED BY <1>4, <2>1, <4>1
    <3> HIDE DEF L, none
    <3> QED BY <2>1, <3>1, <3>2
  <2>2. CASE h # L
    <3>1. /\ h + 1 \in 0 .. L /\ L - h \in 1 .. L /\ (L - h) - 1 = L - (h + 1) /\ L - (L - h) = h
      BY <1>1, <2>2
    <3>2. (L - h) - 1 \in 0 .. L
      BY <1>1, <3>1
    <3>3. f[h] = step[L - h][g[(L - h) - 1]] /\ f[h + 1] = g[(L - h) - 1]
      <4> HIDE DEF L, V, step
      <4> QED BY <1>4, <3>1
    <3>4. g[(L - h) - 1] \in V
      <4> HIDE DEF L, V, step
      <4> QED BY <1>4, <3>2
    <3>5. step[L - h][g[(L - h) - 1]] = Level(t, p, L - (L - h), g[(L - h) - 1])
      <4> HIDE DEF L, V
      <4> QED BY <3>1, <3>4
    <3> QED BY <3>1, <3>3, <3>5
  <2> QED BY <2>1, <2>2
<1>7. Is(f)
  <2> DEFINE k == f
  <2>1. \A h \in 0 .. L : k[h] = Level(t, p, h, k[h + 1])
    BY <1>6
  <2>2. k = [h \in 0 .. L |-> k[h]]
    OBVIOUS
  <2> HIDE DEF k, L
  <2>3. k = [h \in 0 .. L |-> Level(t, p, h, k[h + 1])]
    BY <2>1, <2>2
  <2> QED BY <2>3 DEF k
<1> HIDE DEF f
<1>8. Is(fl)
  <2> HIDE DEF Is
  <2> QED BY <1>7
<1>9. Search(t, p) = fl[0][1]
  BY DEF Search, Level
<1> HIDE DEF fl
<1>10. DOMAIN fl = 0 .. L /\ \A h \in 0 .. L : fl[h] = Level(t, p, h, fl[h + 1])
  <2>1. fl = [h \in 0 .. L |-> Level(t, p, h, fl[h + 1])]
    BY <1>8
  <2> QED BY ONLY <2>1
<1>11. \A h \in 0 .. L : fl[h] \in V
  <2> DEFINE P == {d \in Nat : d <= L => fl[L - d] \in V}
  <2>1. 0 \in P
    <3>1. fl[L] = Level(t, p, L, fl[L + 1])
      BY <1>1, <1>10
    <3>2. \A x, y : Level(t, p, L, x) = Level(t, p, L, y)
      BY DEF Level
    <3>3. fl[L] = base
      <4> HIDE DEF L, none
      <4> QED BY <3>1, <3>2
    <3>4. L - 0 = L
      BY <1>1
    <3> HIDE DEF L, V, base
    <3> QED BY <1>2, <3>3, <3>4
  <2>2. ASSUME NEW d \in Nat, d \in P PROVE d + 1 \in P
    <3> SUFFICES ASSUME d + 1 <= L PROVE fl[L - (d + 1)] \in V
      OBVIOUS
    <3>1. d <= L /\ L - (d + 1) \in 0 .. L /\ (L - (d + 1)) + 1 = L - d
      BY <1>1
    <3>2. fl[L - d] \in V
      BY <2>2, <3>1
    <3>3. fl[L - (d + 1)] = Level(t, p, L - (d + 1), fl[L - d])
      BY <1>10, <3>1
    <3> HIDE DEF L
    <3> QED BY <3>2, <3>3, LevelType
  <2>3. \A d \in Nat : d \in P
    <3> HIDE DEF P
    <3> QED BY <2>1, <2>2, Induction
  <2> HIDE DEF V, L
  <2> SUFFICES ASSUME NEW h \in 0 .. L PROVE fl[h] \in V
    OBVIOUS
  <2>4. L - h \in Nat /\ L - h <= L /\ L - (L - h) = h
    BY <1>1
  <2>5. L - h \in P
    BY <2>3, <2>4
  <2> QED BY <2>4, <2>5
<1>12. fl \in [0 .. L -> V]
  <2>1. fl = [h \in 0 .. L |-> fl[h]]
    <3>1. fl = [h \in 0 .. L |-> Level(t, p, h, fl[h + 1])]
      BY <1>8
    <3> QED BY ONLY <3>1
  <2> HIDE DEF V, L
  <2> QED BY <1>11, <2>1
<1> HIDE DEF V
<1>13. /\ fl \in [0 .. L -> V] /\ Search(t, p) = fl[0][1]
       /\ \A h \in 0 .. L : fl[h] = Level(t, p, h, fl[h + 1])
  BY <1>9, <1>10, <1>12
<1> QED BY <1>13 DEF V

\* Of what the search finds, every part matches.
LEMMA SearchSound ==
    ASSUME NEW t, NEW w, Tree(t, w), NEW p \in Seq(Parts), Search(t, p) # 0
    PROVE  /\ Search(t, p) \in 1 .. Len(t) /\ t[Search(t, p)].pattern # NoPattern
           /\ Matches(w[Search(t, p)], p)
<1> DEFINE L == Len(p)
           Fit(q, r) == q = r \/ Wild(q)
           Fits(n) == \A i \in 1 .. Len(w[n]) : Fit(w[n][i], p[i])
           Good(e) == e \in 1 .. Len(t) /\ t[e].pattern # NoPattern /\ Matches(w[e], p)
<1>1. L \in Nat /\ DOMAIN p = 1 .. L
  OBVIOUS
<1>2. PICK f : /\ f \in [0 .. L -> [DOMAIN t -> Nat]] /\ Search(t, p) = f[0][1]
               /\ \A h \in 0 .. L : f[h] = Level(t, p, h, f[h + 1])
  BY SearchIs
<1> DEFINE P == {d \in Nat : d <= L => \A n \in 1 .. Len(t) :
                    Len(w[n]) = L - d /\ Fits(n) /\ f[L - d][n] # 0 => Good(f[L - d][n])}
<1>3. \A n \in 1 .. Len(t) : n = 1 \/ n \in 2 .. Len(t)
  BY WayIs
<1>4. ASSUME NEW h \in 0 .. L, NEW n \in 1 .. Len(t), Len(w[n]) = h, Fits(n), f[h][n] # 0,
             h = L \/ t[n].part \in Stars
      PROVE  Good(f[h][n])
  <2>1. f[h][n] = n /\ t[n].pattern # NoPattern
    <3>1. f[h] = Level(t, p, h, f[h + 1]) /\ n \in DOMAIN t
      BY <1>2, WayIs
    <3>2. f[h][n] = IF t[n].pattern = NoPattern THEN 0 ELSE n
      BY <1>4, <3>1 DEF Level
    <3> QED BY <1>4, <3>2
  <2>2. w[n] \in Seq(Parts)
    BY WayIs
  <2>3. ASSUME L > h
        PROVE  w[n] # <<>> /\ Last(w[n]) \in Stars
    <3>1. t[n].part \in Stars
      BY <1>4, <2>3
    <3>2. n # 1
      BY <3>1, WayIs
    <3>3. n \in 2 .. Len(t)
      BY <1>3, <3>2
    <3>4. Len(w[n]) > 0 /\ w[n][Len(w[n])] = t[n].part
      BY <3>3, WayIs
    <3> QED BY <2>2, <3>1, <3>4 DEF Last
  <2>4. DOMAIN w[n] = 1 .. h
    BY <1>4, <2>2
  <2>5. \A i \in 1 .. h : i \in 1 .. L /\ Fit(w[n][i], p[i])
    <3>1. \A i \in 1 .. h : i \in 1 .. L
      BY <1>1
    <3>2. \A i \in 1 .. h : Fit(w[n][i], p[i])
      BY ONLY <1>4
    <3> QED BY <3>1, <3>2
  <2>6. Matches(w[n], p)
    <3> HIDE DEF L
    <3> QED BY <1>1, <1>4, <2>3, <2>4, <2>5 DEF Matches, L
  <2> QED BY <2>1, <2>6
<1>5. 0 \in P
  <2>1. L - 0 = L /\ L \in 0 .. L
    BY <1>1
  <2> HIDE DEF L, Good, Fits
  <2> QED BY <1>4, <2>1
<1>6. ASSUME NEW d \in Nat, d \in P PROVE d + 1 \in P
  <2> DEFINE h == L - (d + 1)
  <2> SUFFICES ASSUME d + 1 <= L, NEW n \in 1 .. Len(t), Len(w[n]) = h, Fits(n), f[h][n] # 0
               PROVE  Good(f[h][n])
    OBVIOUS
  <2>1. h \in 0 .. L /\ h # L /\ h + 1 = L - d /\ d <= L /\ h + 1 \in 1 .. L /\ h \in Nat
    <3>1. L \in Nat /\ d + 1 <= L /\ h = L - (d + 1)
      BY <1>1
    <3> HIDE DEF L, h
    <3>2. h \in Nat /\ L = h + d + 1
      BY ONLY <3>1, d \in Nat
    <3> QED BY ONLY <3>2, d \in Nat
  <2>2. \A c \in 1 .. Len(t) : Len(w[c]) = h + 1 /\ Fits(c) /\ f[h + 1][c] # 0 => Good(f[h + 1][c])
    BY <1>6, <2>1
  <2> HIDE DEF h, L, Good, P
  <2>3. CASE t[n].part \in Stars
    BY <1>4, <2>1, <2>3
  <2>4. CASE t[n].part \notin Stars
    <3> DEFINE hits == {c \in MatchChildren(t, n, p[h + 1]) : f[h + 1][c] # 0}
               c == First(hits)
    <3>1. f[h][n] = IF hits = {} THEN 0 ELSE f[h + 1][First(hits)]
      <4>1. f[h] = Level(t, p, h, f[h + 1]) /\ n \in DOMAIN t
        BY <1>2, <2>1, WayIs
      <4> QED BY <2>1, <2>4, <4>1 DEF Level, L
    <3>2. hits \in SUBSET (1 .. Len(t)) /\ hits \in SUBSET Nat
      BY WayIs DEF MatchChildren
    <3>3. c \in hits
      <4> HIDE DEF hits
      <4>1. hits # {}
        BY <3>1
      <4> QED BY <3>2, <4>1, FirstOf
    <3>4. c \in 1 .. Len(t) /\ t[c].parent = n /\ Fit(t[c].part, p[h + 1]) /\ f[h + 1][c] # 0
      <4> HIDE DEF c
      <4> QED BY <3>2, <3>3 DEF MatchChildren
    <3>5. f[h][n] = f[h + 1][c]
      <4> HIDE DEF hits
      <4> QED BY <3>1, <3>3
    <3> HIDE DEF hits, c, Fit
    <3>6. c \in 2 .. Len(t)
      <4>1. c # 1
        <5>1. t[1].parent = 0 /\ n # 0
          BY WayIs
        <5> QED BY <3>4, <5>1
      <4> QED BY <1>3, <3>4, <4>1
    <3>7. /\ Len(w[c]) = h + 1 /\ w[c][h + 1] = t[c].part
          /\ \A i \in 1 .. h : w[c][i] = w[n][i]
      BY SMTT(30), <3>4, <3>6, WayIs
    <3>8. Fits(c)
      <4>1. \A i \in 1 .. h + 1 : i \in 1 .. h \/ i = h + 1
        BY <2>1
      <4> QED BY <3>4, <3>7, <4>1
    <3> QED BY <2>2, <3>4, <3>5, <3>7, <3>8
  <2> QED BY <2>3, <2>4
<1>7. L \in P
  <2> HIDE DEF P
  <2> QED BY <1>1, <1>5, <1>6, Induction
<1>8. 1 \in 1 .. Len(t) /\ Len(w[1]) = 0 /\ L - L = 0
  BY <1>1, WayIs
<1>9. Fits(1)
  BY <1>8
<1>10. Good(f[0][1])
  <2> HIDE DEF Good, L, Fits
  <2> QED BY <1>1, <1>2, <1>7, <1>8, <1>9
<1> QED BY <1>2, <1>10

\* It finds something if a node with a route matches, unless an asterisk comes
\* before the end of the way there.
LEMMA SearchComplete ==
    ASSUME NEW t, NEW w, Tree(t, w), NEW p \in Seq(Parts),
           NEW e \in 1 .. Len(t), t[e].pattern # NoPattern, Matches(w[e], p),
           \A i \in 1 .. Len(w[e]) - 1 : w[e][i] \notin Stars
    PROVE  Search(t, p) # 0
<1> DEFINE L == Len(p)
           d == Len(w[e])
<1>1. L \in Nat /\ DOMAIN p = 1 .. L /\ d \in Nat /\ w[e] \in Seq(Parts) /\ DOMAIN w[e] = 1 .. d
  BY WayIs
<1>2. PICK f : /\ f \in [0 .. L -> [DOMAIN t -> Nat]] /\ Search(t, p) = f[0][1]
               /\ \A h \in 0 .. L : f[h] = Level(t, p, h, f[h + 1])
  BY SearchIs
<1>3. /\ \A i \in 1 .. d : i \in 1 .. L /\ (w[e][i] = p[i] \/ Wild(w[e][i]))
      /\ d < L => d > 0 /\ w[e][d] \in Stars
  <2>1. /\ \A i \in 1 .. d : i \in 1 .. L /\ (w[e][i] = p[i] \/ Wild(w[e][i]))
        /\ L > d => w[e] # <<>> /\ Last(w[e]) \in Stars
    BY <1>1 DEF Matches
  <2> QED BY <1>1, <2>1 DEF Last
<1>4. d <= L
  <2> SUFFICES ASSUME ~(d <= L) PROVE FALSE
    OBVIOUS
  <2>1. d \in 1 .. d
    BY <1>1
  <2>2. d \in 1 .. L
    BY <1>3, <2>1
  <2> QED BY <1>1, <2>2
<1>5. \A n \in 1 .. Len(t) : n = 1 \/ n \in 2 .. Len(t)
  BY WayIs
<1> DEFINE Found(h) == \E a \in 1 .. Len(t) : Len(w[a]) = h /\ Heads(w[a], w[e]) /\ f[h][a] # 0
           P == {k \in Nat : k <= d => Found(d - k)}
<1>6. 0 \in P
  <2>1. d = L \/ t[e].part \in Stars
    <3> SUFFICES ASSUME d < L PROVE t[e].part \in Stars
      BY <1>1, <1>4
    <3>1. e # 1
      BY <1>3, WayIs
    <3> QED BY <1>3, <1>5, <3>1, WayIs
  <2>2. f[d][e] = e
    <3>1. f[d] = Level(t, p, d, f[d + 1]) /\ e \in DOMAIN t
      BY <1>1, <1>2, <1>4, WayIs
    <3> QED BY <2>1, <3>1 DEF Level
  <2>3. Heads(w[e], w[e]) /\ d - 0 = d /\ e # 0
    BY <1>1 DEF Heads
  <2> QED BY <2>2, <2>3
<1>7. ASSUME NEW k \in Nat, k \in P PROVE k + 1 \in P
  <2> DEFINE h == d - (k + 1)
  <2> SUFFICES ASSUME k + 1 <= d PROVE Found(h)
    BY SMTT(30)
  <2>1. /\ h \in 0 .. L /\ h # L /\ h + 1 = d - k /\ k <= d /\ h \in Nat
        /\ h + 1 \in 1 .. d /\ h <= d /\ (h > 0 => h \in 1 .. d - 1)
    BY <1>1, <1>4
  <2>2. PICK a \in 1 .. Len(t) : Len(w[a]) = h + 1 /\ Heads(w[a], w[e]) /\ f[h + 1][a] # 0
    BY <1>7, <2>1
  <2> DEFINE b == t[a].parent
  <2> HIDE DEF h, P
  <2>3. a \in 2 .. Len(t)
    <3>1. Len(w[1]) # h + 1
      BY <2>1, WayIs
    <3> QED BY <1>5, <2>2, <3>1
  <2>4. /\ b \in 1 .. Len(t) /\ Len(w[a]) = Len(w[b]) + 1 /\ w[a][Len(w[a])] = t[a].part
        /\ \A i \in 1 .. Len(w[b]) : w[a][i] = w[b][i]
    BY <2>3, WayIs
  <2>5. Len(w[b]) = h /\ w[a][h + 1] = t[a].part
    <3>1. Len(w[b]) \in Nat
      BY <2>4, WayIs
    <3> QED BY SMTT(30), <2>1, <2>2, <2>4, <3>1
  <2>6. \A i \in 1 .. h + 1 : w[a][i] = w[e][i]
    BY <2>2 DEF Heads
  <2>7. Heads(w[b], w[e])
    <3>1. \A i \in 1 .. h : i \in 1 .. h + 1 /\ w[a][i] = w[b][i]
      BY <2>1, <2>4, <2>5
    <3> QED BY <2>1, <2>5, <2>6, <3>1 DEF Heads
  <2>8. t[b].part \notin Stars
    <3>1. CASE b = 1
      BY <3>1, WayIs
    <3>2. CASE b # 1
      <4>1. b \in 2 .. Len(t)
        BY <1>5, <2>4, <3>2
      <4>2. h > 0 /\ w[b][h] = t[b].part
        <5>1. Len(w[b]) > 0 /\ w[b][Len(w[b])] = t[b].part
          BY <4>1, WayIs, SMTT(30)
        <5> QED BY <2>5, <5>1
      <4>3. h \in 1 .. d - 1 /\ h \in 1 .. Len(w[b])
        BY <2>1, <2>5, <4>2
      <4>4. w[e][h] = w[b][h]
        BY <2>7, <4>3 DEF Heads
      <4> QED BY <4>2, <4>3, <4>4
    <3> QED BY <3>1, <3>2
  <2> DEFINE hits == {c \in MatchChildren(t, b, p[h + 1]) : f[h + 1][c] # 0}
  <2>9. a \in hits
    <3>1. w[e][h + 1] = p[h + 1] \/ Wild(w[e][h + 1])
      BY <1>3, <2>1
    <3>2. w[e][h + 1] = t[a].part
      <4>1. h + 1 \in 1 .. h + 1
        BY <2>1
      <4> QED BY <2>5, <2>6, <4>1
    <3>3. a \in DOMAIN t
      BY WayIs
    <3> QED BY <2>2, <3>1, <3>2, <3>3 DEF MatchChildren
  <2>10. f[h][b] = f[h + 1][First(hits)]
    <3>1. f[h] = Level(t, p, h, f[h + 1]) /\ b \in DOMAIN t
      BY <1>2, <2>1, <2>4, WayIs
    <3>2. f[h][b] = IF hits = {} THEN 0 ELSE f[h + 1][First(hits)]
      BY <2>1, <2>8, <3>1 DEF Level
    <3> HIDE DEF hits
    <3> QED BY <2>9, <3>2
  <2>11. f[h + 1][First(hits)] # 0
    <3>1. hits \in SUBSET Nat
      BY WayIs DEF MatchChildren
    <3>2. First(hits) \in hits
      <4> HIDE DEF hits
      <4> QED BY <2>9, <3>1, FirstOf
    <3> QED BY <3>2
  <2> QED BY <2>4, <2>5, <2>7, <2>10, <2>11
<1>8. d \in P
  <2> HIDE DEF P
  <2> QED BY <1>1, <1>6, <1>7, Induction
<1>9. PICK a \in 1 .. Len(t) : Len(w[a]) = 0 /\ f[0][a] # 0
  <2>1. d - d = 0 /\ d <= d
    BY <1>1
  <2> QED BY <1>8, <2>1
<1>10. a = 1
  BY <1>5, <1>9, WayIs
<1> QED BY <1>2, <1>9, <1>10

-----------------------------------------------------------------------------
(* Insert. *)

\* The child that a part goes to, if there is one.
LEMMA ChildIs ==
    ASSUME NEW t, NEW w, Tree(t, w), NEW n \in 1 .. Len(t), NEW part
    PROVE  LET c == MatchChild(t, n, part)
               Fit(d) == t[d].parent = n /\ (t[d].part = part \/ Wild(t[d].part))
           IN  /\ c = 0 => \A d \in 1 .. Len(t) : ~Fit(d)
               /\ c # 0 => c \in 2 .. Len(t) /\ Fit(c) /\ \A d \in 1 .. Len(t) : Fit(d) => c <= d
<1> DEFINE c == MatchChild(t, n, part)
           Fit(d) == t[d].parent = n /\ (t[d].part = part \/ Wild(t[d].part))
           all == MatchChildren(t, n, part)
<1>1. \A d : d \in all <=> d \in 1 .. Len(t) /\ Fit(d)
  BY WayIs DEF MatchChildren
<1>2. c = First(all)
  BY DEF MatchChild
<1>3. all \in SUBSET Nat /\ \A d \in all : d # 0 /\ d # 1
  <2>1. \A d \in 1 .. Len(t) : d \in Nat /\ d # 0
    BY WayIs
  <2>2. t[1].parent = 0 /\ n # 0
    BY WayIs
  <2> HIDE DEF all
  <2> QED BY <1>1, <2>1, <2>2
<1> HIDE DEF all
<1>4. all = {} => c = 0
  BY <1>2 DEF First
<1>5. all # {} => c \in all /\ \A d \in all : c <= d
  BY <1>2, <1>3, FirstOf
<1>6. \A d \in 1 .. Len(t) : d # 1 => d \in 2 .. Len(t)
  BY WayIs
<1> HIDE DEF c
<1>7. c = 0 => all = {}
  BY <1>3, <1>5
<1>8. c # 0 => c \in 2 .. Len(t) /\ Fit(c) /\ \A d \in 1 .. Len(t) : Fit(d) => c <= d
  BY <1>1, <1>3, <1>4, <1>5, <1>6
<1>9. c = 0 => \A d \in 1 .. Len(t) : ~Fit(d)
  BY <1>1, <1>7
<1> QED BY <1>8, <1>9 DEF c

NewNode(n, part) == [parent |-> n, part |-> part, pattern |-> NoPattern]
Further(w, k, way) == [i \in 1 .. k + 1 |-> IF i <= k THEN w[i] ELSE way]
Mark(t, n, p) == [t EXCEPT ![n].pattern = p]

\* No child of n has the part, or takes it.
Fresh(t, n, part) ==
    /\ n \in 1 .. Len(t) /\ part \in Parts
    /\ \A d \in 1 .. Len(t) : t[d].parent = n => t[d].part # part /\ ~Wild(t[d].part)

\* The trie u has one node more than t, a child of n.
Grows(t, w, n, part, u, v) ==
    /\ Tree(u, v) /\ Len(u) = Len(t) + 1 /\ u[Len(t) + 1] = NewNode(n, part)
    /\ \A i \in 1 .. Len(t) : u[i] = t[i] /\ v[i] = w[i]
    /\ v[Len(t) + 1] = Append(w[n], part)

\* A trie with a new child, for which the node has no other.
LEMMA Grown ==
    ASSUME NEW t, NEW w, Tree(t, w), NEW n, NEW part, Fresh(t, n, part),
           NEW u, u = Append(t, NewNode(n, part)),
           NEW v, v = Further(w, Len(t), Append(w[n], part))
    PROVE  Grows(t, w, n, part, u, v)
<1> USE DEF Fresh
<1> DEFINE N == Len(t)
           new == NewNode(n, part)
           way == Append(w[n], part)
<1>1. N \in Nat /\ 1 \in 1 .. N /\ n \in Nat /\ t \in Seq(NodeType)
  <2>1. t \in Seq(NodeType)
    BY DEF Tree
  <2> QED BY <2>1, WayIs
<1>2. new \in NodeType /\ new.parent = n /\ new.part = part
  BY <1>1 DEF NodeType, NewNode
<1> HIDE DEF new
<1>3. /\ u \in Seq(NodeType) /\ Len(u) = N + 1 /\ u[N + 1] = new
      /\ \A i \in 1 .. N : u[i] = t[i]
  <2>1. u = Append(t, new)
    BY DEF new
  <2> QED BY ONLY <1>1, <1>2, <2>1 DEF N
<1>4. \A i \in 1 .. N : w[i] \in Seq(Parts)
  BY WayIs
<1>5. way \in Seq(Parts)
  BY <1>4
<1> HIDE DEF way
<1>6. /\ v \in [1 .. N + 1 -> Seq(Parts)] /\ v[N + 1] = way
      /\ \A i \in 1 .. N : v[i] = w[i]
  <2>1. N + 1 \in 1 .. N + 1 /\ ~(N + 1 <= N) /\ \A i \in 1 .. N : i \in 1 .. N + 1 /\ i <= N
    BY <1>1
  <2>2. \A i \in 1 .. N + 1 : i <= N => i \in 1 .. N
    BY <1>1
  <2>3. v = [i \in 1 .. N + 1 |-> IF i <= N THEN w[i] ELSE way]
    BY DEF Further, way
  <2> HIDE DEF N
  <2> QED BY <1>4, <1>5, <2>1, <2>2, <2>3
<1>8. \A i \in 2 .. N + 1 : i = N + 1 \/ i \in 2 .. N
  BY <1>1
<1>9. \A i \in 2 .. N : i \in 1 .. N /\ i # N + 1 /\ ~(N + 1 < i)
  BY <1>1
<1>10. u[1].part = "" /\ u[1].parent = 0 /\ v[1] = <<>>
  <2>1. t[1].part = "" /\ t[1].parent = 0 /\ w[1] = <<>>
    BY DEF Tree
  <2> QED BY <1>1, <1>3, <1>6, <2>1
<1>11. ASSUME NEW i \in 2 .. N + 1
       PROVE  /\ u[i].parent \in 1 .. i - 1 /\ u[i].part \in Parts
              /\ v[i] = Append(v[u[i].parent], u[i].part)
  <2>1. CASE i = N + 1
    <3>1. n \in 1 .. i - 1
      BY <1>1, <2>1
    <3>2. v[i] = Append(w[n], part) /\ v[n] = w[n]
      BY <1>6, <2>1 DEF way
    <3> QED BY <1>2, <1>3, <2>1, <3>1, <3>2
  <2>2. CASE i \in 2 .. N
    <3>1. t[i].parent \in 1 .. i - 1 /\ t[i].part \in Parts /\ w[i] = Append(w[t[i].parent], t[i].part)
      BY <2>2 DEF Tree
    <3>2. t[i].parent \in 1 .. N /\ i \in 1 .. N
      BY <1>9, <2>2, WayIs
    <3>3. u[i] = t[i] /\ v[i] = w[i] /\ v[t[i].parent] = w[t[i].parent]
      BY <1>3, <1>6, <3>2
    <3> QED BY <3>1, <3>3
  <2> QED BY <1>8, <2>1, <2>2
<1>12. ASSUME NEW l \in 2 .. N + 1, NEW i \in 2 .. N + 1, l < i, u[l].parent = u[i].parent
       PROVE  ~Wild(u[l].part) /\ u[l].part # u[i].part
  <2>1. l \in 2 .. N /\ u[l] = t[l]
    <3>1. l \in 2 .. N
      BY <1>1, <1>12
    <3> QED BY <1>3, <1>9, <3>1
  <2>2. CASE i = N + 1
    <3>1. u[i] = new
      BY <1>3, <2>2
    <3> QED BY <1>2, <1>9, <1>12, <2>1, <3>1
  <2>3. CASE i \in 2 .. N
    <3>1. u[i] = t[i]
      BY <1>3, <1>9, <2>3
    <3> QED BY <1>12, <2>1, <2>3, <3>1 DEF Tree
  <2> QED BY <1>8, <2>2, <2>3
<1>13. Tree(u, v)
  <2>1. Len(u) >= 1 /\ Len(u) = N + 1 /\ u \in Seq(NodeType)
    BY <1>1, <1>3
  <2>2. v \in [1 .. Len(u) -> Seq(Parts)]
    BY <1>6, <2>1
  <2>3. \A i \in 2 .. N + 1 : /\ u[i].parent \in 1 .. i - 1 /\ u[i].part \in Parts
                              /\ v[i] = Append(v[u[i].parent], u[i].part)
    BY <1>11
  <2>4. \A l, i \in 2 .. N + 1 : l < i /\ u[l].parent = u[i].parent
                                 => ~Wild(u[l].part) /\ u[l].part # u[i].part
    BY <1>12
  <2>5. \A i \in 2 .. Len(u) : /\ u[i].parent \in 1 .. i - 1 /\ u[i].part \in Parts
                               /\ v[i] = Append(v[u[i].parent], u[i].part)
    BY ONLY <2>1, <2>3
  <2>6. \A l, i \in 2 .. Len(u) : l < i /\ u[l].parent = u[i].parent
                                  => ~Wild(u[l].part) /\ u[l].part # u[i].part
    BY ONLY <2>1, <2>4
  <2> QED BY ONLY <1>10, <2>1, <2>2, <2>5, <2>6 DEF Tree
<1> QED BY <1>3, <1>6, <1>13 DEF new, way, Grows

\* A trie with another pattern at a node.
LEMMA Marked ==
    ASSUME NEW t, NEW w, Tree(t, w), NEW n \in 1 .. Len(t), NEW p \in Seq(Parts),
           NEW u, u = Mark(t, n, p)
    PROVE  /\ Tree(u, w) /\ Len(u) = Len(t) /\ u[n].pattern = p
           /\ \A i \in 1 .. Len(t) : i # n => u[i] = t[i]
<1> DEFINE new == [t[n] EXCEPT !.pattern = p]
           N == Len(t)
<1>1. t \in Seq(NodeType) /\ N \in Nat
  <2>1. t \in Seq(NodeType)
    BY DEF Tree
  <2> QED BY <2>1, WayIs
<1>2. t[n] \in NodeType
  BY ONLY <1>1, n \in 1 .. Len(t)
<1>3. new \in NodeType /\ new.parent = t[n].parent /\ new.part = t[n].part /\ new.pattern = p
  BY <1>2 DEF NodeType
<1>4. u = [t EXCEPT ![n] = new]
  BY DEF Mark
<1> HIDE DEF new
<1>5. /\ u \in Seq(NodeType) /\ Len(u) = N /\ u[n] = new
      /\ \A i \in 1 .. N : i # n => u[i] = t[i]
  BY <1>1, <1>3, <1>4
<1>6. \A i \in 1 .. N : u[i].parent = t[i].parent /\ u[i].part = t[i].part
  BY <1>3, <1>5
<1>7. 1 \in 1 .. N /\ \A i \in 2 .. N : i \in 1 .. N
  BY WayIs
<1>8. Tree(u, w)
  <2> HIDE DEF N
  <2>1. /\ Len(u) >= 1 /\ w \in [1 .. Len(u) -> Seq(Parts)]
        /\ u[1].part = "" /\ u[1].parent = 0 /\ w[1] = <<>>
    BY <1>5, <1>6, <1>7 DEF Tree, N
  <2>2. \A i \in 2 .. N : /\ u[i].parent \in 1 .. i - 1 /\ u[i].part \in Parts
                          /\ w[i] = Append(w[u[i].parent], u[i].part)
    BY <1>6, <1>7 DEF Tree, N
  <2>3. \A l, i \in 2 .. N : l < i /\ u[l].parent = u[i].parent
                                 => ~Wild(u[l].part) /\ u[l].part # u[i].part
    <3>1. \A l, i \in 2 .. N : l < i /\ t[l].parent = t[i].parent
                                 => ~Wild(t[l].part) /\ t[l].part # t[i].part
      BY DEF Tree, N
    <3>2. \A i \in 2 .. N : u[i].parent = t[i].parent /\ u[i].part = t[i].part
      BY <1>6, <1>7
    <3> QED BY ONLY <3>1, <3>2
  <2> QED BY <1>5, <2>1, <2>2, <2>3 DEF Tree
<1> QED BY <1>3, <1>5, <1>8

\* Insert, step by step.
LEMMA InsertIs ==
    ASSUME NEW t, t \in Seq(NodeType), NEW p, p \in Seq(Parts)
    PROVE  \E g : /\ g[0] = [t |-> t, n |-> 1]
                  /\ \A k \in 1 .. Len(p) : g[k] = Down(g[k - 1], p[k])
                  /\ Insert(t, p) = Mark(g[Len(p)].t, g[Len(p)].n, p)
<1> DEFINE L == Len(p)
           V == [t : Seq(NodeType), n : Nat]
           base == [t |-> t, n |-> 1]
           step == [k \in 1 .. L |-> [at0 \in V |-> Down(at0, p[k])]]
           Is(f) == f = [h \in 0 .. L |-> IF h = 0 THEN base ELSE Down(f[h - 1], p[h])]
           fl == CHOOSE f : Is(f)
<1>1. L \in Nat /\ \A k \in 1 .. L : p[k] \in Parts
  OBVIOUS
<1>2. base \in V
  OBVIOUS
<1>3. ASSUME NEW a \in V, NEW part \in Parts
      PROVE  Down(a, part) \in V
  <2> DEFINE c == MatchChild(a.t, a.n, part)
             new == [parent |-> a.n, part |-> part, pattern |-> NoPattern]
  <2>1. a.t \in Seq(NodeType) /\ a.n \in Nat /\ Len(a.t) \in Nat
    OBVIOUS
  <2>2. new \in NodeType
    BY <2>1 DEF NodeType
  <2>3. c \in Nat
    <3> DEFINE all == MatchChildren(a.t, a.n, part)
    <3>1. all \in SUBSET Nat
      BY <2>1 DEF MatchChildren
    <3>2. c = First(all)
      BY DEF MatchChild
    <3> HIDE DEF all, c
    <3>3. CASE all = {}
      BY <3>2, <3>3 DEF First
    <3>4. CASE all # {}
      BY <3>1, <3>2, <3>4, FirstOf
    <3> QED BY <3>3, <3>4
  <2>4. Down(a, part) = IF c # 0 THEN [a EXCEPT !.n = c]
                        ELSE [t |-> Append(a.t, new), n |-> Len(a.t) + 1]
    BY DEF Down
  <2> HIDE DEF c, new
  <2>5. Append(a.t, new) \in Seq(NodeType)
    BY ONLY <2>1, <2>2
  <2>6. [a EXCEPT !.n = c] \in V
    BY <2>3
  <2> QED BY <2>1, <2>4, <2>5, <2>6
<1>4. step \in [1 .. L -> [V -> V]]
  <2> HIDE DEF V, L
  <2> QED BY <1>1, <1>3
<1>5. PICK g \in [0 .. L -> V] : g[0] = base /\ \A k \in 1 .. L : g[k] = step[k][g[k - 1]]
  <2>1. L \in Nat
    BY <1>1
  <2> HIDE DEF L, V, base, step
  <2> QED BY ONLY <2>1, <1>2, <1>4, Recursion
<1>6. Is(g)
  <2>1. ASSUME NEW h \in 0 .. L
        PROVE  g[h] = IF h = 0 THEN base ELSE Down(g[h - 1], p[h])
    <3>1. CASE h = 0
      BY <1>5, <3>1
    <3>2. CASE h # 0
      <4>1. h \in 1 .. L /\ h - 1 \in 0 .. L
        BY <1>1, <3>2
      <4>2. g[h] = step[h][g[h - 1]] /\ g[h - 1] \in V
        <5> HIDE DEF V, L, step
        <5> QED BY <1>5, <4>1
      <4>3. step[h][g[h - 1]] = Down(g[h - 1], p[h])
        <5> HIDE DEF V, L
        <5> QED BY <4>1, <4>2
      <4> QED BY <3>2, <4>2, <4>3
    <3> QED BY <3>1, <3>2
  <2>2. g = [h \in 0 .. L |-> g[h]]
    <3> HIDE DEF V, L
    <3> QED BY <1>5
  <2> HIDE DEF L, base
  <2> QED BY <2>1, <2>2
<1>7. Is(fl)
  <2> HIDE DEF Is
  <2> QED BY <1>6
<1>8. Insert(t, p) = Mark(fl[L].t, fl[L].n, p)
  BY DEF Insert, Mark
<1> HIDE DEF fl
<1>9. \A h \in 0 .. L : fl[h] = IF h = 0 THEN base ELSE Down(fl[h - 1], p[h])
  <2> HIDE DEF L, base
  <2> QED BY <1>7
<1>10. fl[0] = base /\ \A k \in 1 .. L : fl[k] = Down(fl[k - 1], p[k])
  <2>1. 0 \in 0 .. L /\ \A k \in 1 .. L : k \in 0 .. L /\ k # 0
    BY <1>1
  <2> HIDE DEF L, base
  <2> QED BY <1>9, <2>1
<1> QED BY <1>8, <1>10

\* The nodes where a route ends have its pattern, as long as the way there ...
Stored(t, w, pats) ==
    \A n \in 1 .. Len(t) :
        t[n].pattern # NoPattern => /\ \E k \in 1 .. Len(pats) : t[n].pattern = pats[k]
                                    /\ Len(t[n].pattern) = Len(w[n])

\* ... and of the same kinds; every route has its end, and every node is on the
\* way to one.
Placed(t, w, pats) ==
    /\ \A n \in 1 .. Len(t) : t[n].pattern # NoPattern => Alike(w[n], t[n].pattern)
    /\ \A k \in 1 .. Len(pats) :
          \E e \in 1 .. Len(t) : Alike(w[e], pats[k]) /\ t[e].pattern # NoPattern
    /\ \A n \in 2 .. Len(t) : \E k \in 1 .. Len(pats) : Along(w[n], pats[k])

\* A route that is not led astray comes to children of its own kinds.
LEMMA RightChild ==
    ASSUME NEW t, NEW w, Tree(t, w), NEW pats, \A k \in 1 .. Len(pats) : pats[k] \in Seq(Parts),
           Len(pats) \in Nat, Placed(t, w, pats),
           NEW p, p \in Seq(Parts), NEW routes0, Len(routes0) = Len(pats) + 1,
           \A k \in 1 .. Len(pats) : routes0[k] = pats[k], routes0[Len(pats) + 1] = p,
           ~Astray(routes0, Len(pats) + 1),
           NEW n \in 1 .. Len(t), Along(w[n], p), Len(w[n]) < Len(p),
           MatchChild(t, n, p[Len(w[n]) + 1]) # 0
    PROVE  SameKind(t[MatchChild(t, n, p[Len(w[n]) + 1])].part, p[Len(w[n]) + 1])
<1> DEFINE k == Len(w[n])
           i == k + 1
           c == MatchChild(t, n, p[i])
           j == Len(pats) + 1
<1> SUFFICES ASSUME ~SameKind(t[c].part, p[i]) PROVE FALSE
  OBVIOUS
<1>1. k \in Nat /\ Len(p) \in Nat /\ i \in 1 .. Len(p) /\ DOMAIN p = 1 .. Len(p)
      /\ \A x \in 1 .. k : x \in 1 .. Len(p)
  <2>1. k \in Nat
    BY WayIs
  <2>2. Len(p) \in Nat /\ DOMAIN p = 1 .. Len(p)
    BY ONLY p \in Seq(Parts)
  <2> HIDE DEF k
  <2>3. k < Len(p)
    BY DEF k
  <2> QED BY <2>1, <2>2, <2>3
<1>2. /\ c \in 2 .. Len(t) /\ t[c].parent = n /\ (t[c].part = p[i] \/ Wild(t[c].part))
      /\ \A d \in 1 .. Len(t) :
            t[d].parent = n /\ (t[d].part = p[i] \/ Wild(t[d].part)) => c <= d
  BY ChildIs
<1> HIDE DEF c
<1>3. Wild(t[c].part)
  BY <1>2, Kinds
<1>4. /\ Len(w[c]) = i /\ w[c][i] = t[c].part /\ \A x \in 1 .. k : w[c][x] = w[n][x]
  <2>1. /\ Len(w[c]) = Len(w[t[c].parent]) + 1 /\ w[c][Len(w[c])] = t[c].part
        /\ \A x \in 1 .. Len(w[t[c].parent]) : w[c][x] = w[t[c].parent][x]
    BY SMTT(30), <1>2, WayIs
  <2> QED BY <1>2, <2>1
<1>5. PICK l \in 1 .. Len(pats) : Along(w[c], pats[l])
  BY <1>2 DEF Placed
<1>6. /\ DOMAIN pats[l] = 1 .. Len(pats[l]) /\ Len(pats[l]) \in Nat /\ i <= Len(pats[l])
      /\ \A x \in 1 .. i : SameKind(w[c][x], pats[l][x])
  <2>1. pats[l] \in Seq(Parts)
    OBVIOUS
  <2>2. DOMAIN pats[l] = 1 .. Len(pats[l]) /\ Len(pats[l]) \in Nat
    BY ONLY <2>1
  <2> QED BY <1>4, <1>5, <2>2 DEF Along
<1>7. \A x \in 1 .. k : SameKind(w[n][x], p[x])
  BY DEF Along
<1>8. \A x \in 1 .. k : x \in 1 .. i /\ x \in 1 .. Len(pats[l])
  BY <1>1, <1>6, SMTT(30)
<1>9. SameWay(pats[l], p, i - 1)
  <2>1. i - 1 = k
    BY <1>1
  <2>2. ASSUME NEW x \in 1 .. k
        PROVE  x \in DOMAIN pats[l] \cap DOMAIN p /\ SameKind(pats[l][x], p[x])
    <3>1. SameKind(w[n][x], pats[l][x]) /\ SameKind(w[n][x], p[x])
      BY <1>4, <1>6, <1>7, <1>8
    <3>2. SameKind(pats[l][x], p[x])
      BY <3>1, Kinds
    <3> QED BY <1>1, <1>6, <1>8, <3>2
  <2> QED BY <2>1, <2>2 DEF SameWay
<1>10. i \in DOMAIN pats[l] /\ Wild(pats[l][i]) /\ ~SameKind(pats[l][i], p[i])
  <2>1. i \in 1 .. i /\ i \in 1 .. Len(pats[l])
    BY <1>1, <1>6
  <2>2. SameKind(t[c].part, pats[l][i])
    BY <1>4, <1>6, <2>1
  <2> QED BY <1>3, <1>6, <2>1, <2>2, Kinds
<1>11. PICK r \in 1 .. Len(pats) : SameWay(pats[r], p, i)
  <2>1. l \in 1 .. j - 1 /\ j - 1 = Len(pats) /\ routes0[l] = pats[l] /\ routes0[j] = p
    OBVIOUS
  <2> HIDE DEF i, j
  <2>2. /\ i \in DOMAIN routes0[j] /\ l \in 1 .. j - 1
        /\ SameWay(routes0[l], routes0[j], i - 1) /\ i \in DOMAIN routes0[l]
        /\ Wild(routes0[l][i]) /\ ~SameKind(routes0[l][i], routes0[j][i])
    BY <1>1, <1>9, <1>10, <2>1
  <2>3. ~Astray(routes0, j)
    BY DEF j
  <2>4. PICK r \in 1 .. l - 1 : SameWay(routes0[r], routes0[j], i)
    BY <2>2, <2>3 DEF Astray
  <2>5. r \in 1 .. Len(pats)
    BY <2>1, <2>4
  <2> QED BY <2>1, <2>4, <2>5
<1>12. PICK e \in 1 .. Len(t) : Alike(w[e], pats[r])
  BY DEF Placed
<1>13. /\ Len(w[e]) = Len(pats[r]) /\ Len(w[e]) \in Nat /\ i <= Len(w[e])
       /\ \A x \in 1 .. i : SameKind(w[e][x], pats[r][x]) /\ SameKind(pats[r][x], p[x])
  <2>1. pats[r] \in Seq(Parts)
    OBVIOUS
  <2>2. DOMAIN pats[r] = 1 .. Len(pats[r]) /\ Len(pats[r]) \in Nat
    BY ONLY <2>1
  <2>3. Len(w[e]) = Len(pats[r]) /\ \A x \in 1 .. Len(w[e]) : SameKind(w[e][x], pats[r][x])
    BY <1>12 DEF Alike, Along
  <2>4. \A x \in 1 .. i : x \in 1 .. Len(pats[r]) /\ SameKind(pats[r][x], p[x])
    BY <1>11, <2>2 DEF SameWay
  <2>5. i <= Len(pats[r])
    <3>1. i \in 1 .. i
      BY <1>1
    <3>2. i \in 1 .. Len(pats[r])
      BY <2>4, <3>1
    <3> QED BY <2>2, <3>2
  <2> QED BY <2>2, <2>3, <2>4, <2>5
<1>14. PICK a \in 1 .. Len(t) : Len(w[a]) = i /\ Heads(w[a], w[e])
  <2>1. i \in 0 .. Len(w[e])
    BY <1>1, <1>13
  <2> QED BY <2>1, AncestorAt
<1> HIDE DEF k
<1>15. /\ a \in 2 .. Len(t) /\ t[a].parent \in 1 .. Len(t) /\ Len(w[t[a].parent]) = k
       /\ w[a][i] = t[a].part /\ \A x \in 1 .. k : w[a][x] = w[t[a].parent][x]
  <2>1. a \in 2 .. Len(t)
    <3>1. Len(w[1]) # i
      BY <1>1, WayIs
    <3>2. a # 1
      BY <1>14, <3>1
    <3> QED BY <3>2, WayIs
  <2>2. /\ t[a].parent \in 1 .. Len(t) /\ Len(w[a]) = Len(w[t[a].parent]) + 1
        /\ w[a][Len(w[a])] = t[a].part
        /\ \A x \in 1 .. Len(w[t[a].parent]) : w[a][x] = w[t[a].parent][x]
    BY <2>1, WayIs
  <2>3. Len(w[t[a].parent]) \in Nat
    BY <2>2, WayIs
  <2>4. Len(w[t[a].parent]) = k
    <3>1. k \in Nat /\ i = k + 1
      BY <1>1
    <3> QED BY ONLY <1>14, <2>2, <2>3, <3>1, SMTT(30)
  <2> QED BY <1>14, <2>1, <2>2, <2>4
<1>16. \A x \in 1 .. i : SameKind(w[a][x], p[x])
  <2>1. \A x \in 1 .. i : w[a][x] = w[e][x]
    BY <1>14 DEF Heads
  <2> QED BY <1>13, <2>1, Kinds
<1>17. t[a].parent = n
  <2>1. \A x \in 1 .. k : SameKind(w[t[a].parent][x], w[n][x])
    <3> TAKE x \in 1 .. k
    <3>1. x \in 1 .. i /\ w[a][x] = w[t[a].parent][x]
      BY <1>8, <1>15
    <3>2. SameKind(w[a][x], p[x]) /\ SameKind(w[n][x], p[x])
      BY <1>7, <1>16, <3>1
    <3> QED BY <3>1, <3>2, Kinds
  <2>2. Alike(w[t[a].parent], w[n])
    BY <1>15, <2>1 DEF Alike, Along, k
  <2> QED BY <1>15, <2>2, Unique
<1>18. SameKind(t[a].part, p[i])
  <2>1. i \in 1 .. i
    BY <1>1
  <2> QED BY <1>15, <1>16, <2>1
<1>19. c <= a /\ c # a
  <2>1. t[a].part = p[i] \/ Wild(t[a].part)
    BY <1>18, Kinds
  <2>2. c <= a
    BY <1>2, <1>17, <2>1
  <2> QED BY <1>18, <2>2
<1>20. c < a /\ a \in 2 .. Len(t)
  BY <1>2, <1>15, <1>19
<1> QED BY <1>2, <1>3, <1>17, <1>20 DEF Tree

\* Insert has come to a node at the height k: of the old trie, or the last one.
Reached(a, v, t, w, k) ==
    /\ a \in [t : Seq(NodeType), n : Nat]
    /\ Tree(a.t, v) /\ a.n \in 1 .. Len(a.t) /\ Len(v[a.n]) = k
    /\ \/ a.t = t /\ v = w
       \/ Len(a.t) > Len(t) /\ a.n = Len(a.t)
    /\ Len(t) <= Len(a.t)
    /\ \A n \in 1 .. Len(t) : a.t[n] = t[n] /\ v[n] = w[n]
    /\ \A n \in Len(t) + 1 .. Len(a.t) : a.t[n].pattern = NoPattern

\* It is on its way, and so are the nodes it has made.
OnWay(a, v, t, p) ==
    Along(v[a.n], p) /\ \A n \in Len(t) + 1 .. Len(a.t) : Along(v[n], p)

\* It is not led astray.
Led(t, w, p) ==
    \A n \in 1 .. Len(t) :
        /\ Along(w[n], p) /\ Len(w[n]) < Len(p) /\ MatchChild(t, n, p[Len(w[n]) + 1]) # 0
        => SameKind(t[MatchChild(t, n, p[Len(w[n]) + 1])].part, p[Len(w[n]) + 1])

LEMMA AlongNext ==
    ASSUME NEW s, s \in Seq(Parts), NEW r, r \in Seq(Parts), NEW p, p \in Seq(Parts),
           NEW k \in Nat, Along(s, p), Len(s) = k, k < Len(p), Len(r) = k + 1,
           \A x \in 1 .. k : r[x] = s[x],
           SameKind(r[k + 1], p[k + 1])
    PROVE  Along(r, p)
<1>1. Len(s) \in Nat /\ Len(r) \in Nat /\ Len(p) \in Nat
  OBVIOUS
<1>2. Len(r) <= Len(p)
  BY <1>1
<1>3. \A x \in 1 .. Len(s) : SameKind(r[x], p[x])
  BY DEF Along
<1>4. \A x \in 1 .. Len(r) : x \in 1 .. Len(s) \/ x = Len(s) + 1
  BY <1>1
<1> QED BY <1>2, <1>3, <1>4 DEF Along

LEMMA DownReached ==
    ASSUME NEW t, NEW w, Tree(t, w), NEW p, p \in Seq(Parts), NEW k \in Nat, k < Len(p),
           NEW a, NEW v, Reached(a, v, t, w, k)
    PROVE  \E u : /\ Reached(Down(a, p[k + 1]), u, t, w, k + 1)
                  /\ Led(t, w, p) /\ OnWay(a, v, t, p) => OnWay(Down(a, p[k + 1]), u, t, p)
<1> DEFINE part == p[k + 1]
           N == Len(a.t)
           b == Down(a, part)
           c == MatchChild(a.t, a.n, part)
<1>1. /\ a \in [t : Seq(NodeType), n : Nat] /\ Tree(a.t, v) /\ a.n \in 1 .. N
      /\ Len(v[a.n]) = k /\ Len(t) <= N /\ v[a.n] \in Seq(Parts)
      /\ \/ a.t = t /\ v = w
         \/ N > Len(t) /\ a.n = N
      /\ \A n \in 1 .. Len(t) : a.t[n] = t[n] /\ v[n] = w[n]
      /\ \A n \in Len(t) + 1 .. N : a.t[n].pattern = NoPattern
  BY WayIs DEF Reached
<1>2. part \in Parts /\ Len(p) \in Nat
  BY ONLY p \in Seq(Parts), k \in Nat, k < Len(p)
<1>3. Len(t) \in Nat /\ N \in Nat
  BY <1>1, WayIs
<1>4. CASE c # 0
  <2>1. c \in 2 .. N /\ a.t[c].parent = a.n
    BY <1>1, <1>4, ChildIs
  <2>2. a.t = t /\ v = w
    <3>1. a.t[c].parent < c
      BY <1>1, <2>1, WayIs
    <3> QED BY <1>1, <1>3, <2>1, <3>1
  <2>3. b.t = a.t /\ b.n = c /\ b \in [t : Seq(NodeType), n : Nat]
    <3>1. b = [a EXCEPT !.n = c]
      BY <1>4 DEF Down
    <3>2. c \in Nat
      BY <1>3, <2>1
    <3> HIDE DEF c
    <3> QED BY <1>1, <3>1, <3>2
  <2> HIDE DEF b
  <2>4. /\ Len(v[c]) = k + 1 /\ v[c][k + 1] = a.t[c].part /\ v[c] \in Seq(Parts)
        /\ \A x \in 1 .. k : v[c][x] = v[a.n][x]
    <3>1. /\ Len(v[c]) = Len(v[a.t[c].parent]) + 1 /\ v[c][Len(v[c])] = a.t[c].part
          /\ \A x \in 1 .. Len(v[a.t[c].parent]) : v[c][x] = v[a.t[c].parent][x]
      <4>1. Tree(a.t, v) /\ c \in 2 .. Len(a.t)
        BY <1>1, <2>1
      <4> HIDE DEF c
      <4> QED BY ONLY <4>1, WayIs, SMTT(30)
    <3>2. v[c] \in Seq(Parts)
      BY <1>1, <2>1, WayIs
    <3> QED BY <1>1, <2>1, <3>1, <3>2
  <2>5. c \in 1 .. N
    BY <1>3, <2>1
  <2> HIDE DEF c
  <2>6. Reached(b, v, t, w, k + 1)
    BY <1>1, <2>2, <2>3, <2>4, <2>5 DEF Reached
  <2>7. ASSUME Led(t, w, p), OnWay(a, v, t, p)
        PROVE  OnWay(b, v, t, p)
    <3>1. Along(v[a.n], p)
      BY <2>7 DEF OnWay
    <3>2. SameKind(a.t[c].part, part)
      BY <1>1, <1>4, <2>2, <2>7, <3>1 DEF Led, c
    <3>3. Along(v[c], p)
      <4>1. /\ v[a.n] \in Seq(Parts) /\ v[c] \in Seq(Parts) /\ Len(v[a.n]) = k /\ Len(v[c]) = k + 1
            /\ \A x \in 1 .. k : v[c][x] = v[a.n][x]
        BY <1>1, <2>4
      <4>2. SameKind(v[c][k + 1], p[k + 1])
        BY <2>4, <3>2
      <4>3. k \in Nat /\ k < Len(p) /\ p \in Seq(Parts)
        OBVIOUS
      <4> DEFINE from == v[a.n]
                 to == v[c]
      <4>4. /\ from \in Seq(Parts) /\ to \in Seq(Parts) /\ Len(from) = k /\ Len(to) = k + 1
            /\ (\A x \in 1 .. k : to[x] = from[x]) /\ SameKind(to[k + 1], p[k + 1])
            /\ Along(from, p)
        BY <3>1, <4>1, <4>2
      <4> HIDE DEF from, to
      <4>5. Along(to, p)
        BY ONLY <4>3, <4>4, AlongNext, SMTT(30)
      <4> QED BY <4>5 DEF to
    <3> QED BY <2>3, <2>7, <3>3 DEF OnWay
  <2> QED BY <2>6, <2>7 DEF b
<1>5. CASE c = 0
  <2> DEFINE new == NewNode(a.n, part)
             T == Append(a.t, new)
             u == Further(v, N, Append(v[a.n], part))
  <2>1. \A d \in 1 .. N : a.t[d].parent = a.n => a.t[d].part # part /\ ~Wild(a.t[d].part)
    BY <1>1, <1>5, ChildIs
  <2>2. /\ Tree(T, u) /\ Len(T) = N + 1 /\ T[N + 1] = new
        /\ \A i \in 1 .. N : T[i] = a.t[i] /\ u[i] = v[i]
        /\ u[N + 1] = Append(v[a.n], part)
    <3>1. Tree(a.t, v) /\ a.n \in 1 .. N /\ part \in Parts
      BY <1>1, <1>2
    <3>2. /\ new = NewNode(a.n, part) /\ T = Append(a.t, NewNode(a.n, part))
          /\ u = Further(v, Len(a.t), Append(v[a.n], part))
      OBVIOUS
    <3>3. Fresh(a.t, a.n, part)
      BY ONLY <2>1, <3>1 DEF Fresh
    <3> HIDE DEF part, new, T, u
    <3>4. Grows(a.t, v, a.n, part, T, u)
      BY ONLY <3>1, <3>2, <3>3, Grown
    <3> QED BY ONLY <3>2, <3>4 DEF Grows
  <2>3. b = [t |-> T, n |-> N + 1]
    BY <1>5 DEF Down, NewNode
  <2>4. new.pattern = NoPattern
    BY DEF NewNode
  <2> HIDE DEF b, T, u, new
  <2>5. b.t = T /\ b.n = N + 1 /\ b \in [t : Seq(NodeType), n : Nat]
    <3>1. T \in Seq(NodeType)
      BY <2>2 DEF Tree
    <3> QED BY <1>3, <2>3, <3>1
  <2>6. /\ Len(u[N + 1]) = k + 1 /\ u[N + 1][k + 1] = part /\ u[N + 1] \in Seq(Parts)
        /\ \A x \in 1 .. k : u[N + 1][x] = v[a.n][x]
    <3>1. v[a.n] \in Seq(Parts) /\ Len(v[a.n]) = k
      BY <1>1
    <3> HIDE DEF part, N
    <3>2. /\ Len(Append(v[a.n], part)) = k + 1 /\ Append(v[a.n], part)[k + 1] = part
          /\ Append(v[a.n], part) \in Seq(Parts)
          /\ \A x \in 1 .. k : Append(v[a.n], part)[x] = v[a.n][x]
      BY <1>2, <3>1
    <3> QED BY <2>2, <3>2
  <2>7. /\ N + 1 \in 1 .. N + 1 /\ Len(t) <= N + 1 /\ N + 1 > Len(t)
        /\ \A n \in 1 .. Len(t) : n \in 1 .. N
        /\ \A n \in Len(t) + 1 .. N + 1 : n = N + 1 \/ (n \in Len(t) + 1 .. N /\ n \in 1 .. N)
    <3>1. Len(t) <= N
      BY <1>1
    <3> HIDE DEF N
    <3> QED BY ONLY <1>3, <3>1
  <2>8. /\ \A n \in 1 .. Len(t) : T[n] = t[n] /\ u[n] = w[n]
        /\ \A n \in Len(t) + 1 .. N + 1 : T[n].pattern = NoPattern
    BY <1>1, <2>2, <2>4, <2>7
  <2>9. Reached(b, u, t, w, k + 1)
    <3> HIDE DEF N
    <3> QED BY <2>2, <2>5, <2>6, <2>7, <2>8 DEF Reached
  <2>10. ASSUME OnWay(a, v, t, p)
         PROVE  OnWay(b, u, t, p)
    <3>1. Along(v[a.n], p) /\ SameKind(part, part)
      BY <2>10, Kinds DEF OnWay
    <3>2. Along(u[N + 1], p)
      <4>1. /\ v[a.n] \in Seq(Parts) /\ u[N + 1] \in Seq(Parts) /\ Len(v[a.n]) = k
            /\ Len(u[N + 1]) = k + 1 /\ \A x \in 1 .. k : u[N + 1][x] = v[a.n][x]
        BY <1>1, <2>6
      <4>2. SameKind(u[N + 1][k + 1], p[k + 1])
        BY <2>6, <3>1
      <4>3. k \in Nat /\ k < Len(p) /\ p \in Seq(Parts)
        OBVIOUS
      <4> DEFINE from == v[a.n]
                 to == u[N + 1]
      <4>4. /\ from \in Seq(Parts) /\ to \in Seq(Parts) /\ Len(from) = k /\ Len(to) = k + 1
            /\ (\A x \in 1 .. k : to[x] = from[x]) /\ SameKind(to[k + 1], p[k + 1])
            /\ Along(from, p)
        BY <3>1, <4>1, <4>2
      <4> HIDE DEF from, to
      <4>5. Along(to, p)
        BY ONLY <4>3, <4>4, AlongNext, SMTT(30)
      <4> QED BY <4>5 DEF to
    <3>3. \A n \in Len(t) + 1 .. N : Along(v[n], p)
      BY <2>10 DEF OnWay
    <3> HIDE DEF N
    <3>4. \A n \in Len(t) + 1 .. N + 1 : Along(u[n], p)
      BY <2>2, <2>7, <3>2, <3>3
    <3> QED BY <2>2, <2>5, <3>2, <3>4 DEF OnWay
  <2> QED BY <2>9, <2>10 DEF b
<1> QED BY <1>4, <1>5

\* The new trie stands for the routes and the new one.
LEMMA InsertKept ==
    ASSUME NEW t, NEW w, Tree(t, w), NEW pats, Len(pats) \in Nat,
           \A k \in 1 .. Len(pats) : pats[k] \in Seq(Parts), Stored(t, w, pats),
           NEW p, p \in Seq(Parts), NEW more, Len(more) = Len(pats) + 1,
           \A k \in 1 .. Len(pats) : more[k] = pats[k], more[Len(pats) + 1] = p
    PROVE  \E v : /\ Tree(Insert(t, p), v) /\ Stored(Insert(t, p), v, more)
                  /\ Placed(t, w, pats) /\ ~Astray(more, Len(pats) + 1)
                     => Placed(Insert(t, p), v, more)
<1> DEFINE L == Len(p)
           Right == Placed(t, w, pats) /\ ~Astray(more, Len(pats) + 1)
<1>1. t \in Seq(NodeType) /\ L \in Nat
  <2>1. L \in Nat
    BY ONLY p \in Seq(Parts)
  <2> QED BY <2>1 DEF Tree
<1>2. PICK g : /\ g[0] = [t |-> t, n |-> 1]
               /\ \A k \in 1 .. L : g[k] = Down(g[k - 1], p[k])
               /\ Insert(t, p) = Mark(g[L].t, g[L].n, p)
  BY ONLY <1>1, p \in Seq(Parts), InsertIs
<1>3. Right => Led(t, w, p)
  BY RightChild DEF Led
<1> DEFINE Come(k) == \E v : Reached(g[k], v, t, w, k) /\ (Right => OnWay(g[k], v, t, p))
           P == {k \in Nat : k <= L => Come(k)}
<1> HIDE DEF Right
<1>4. 0 \in P
  <2> DEFINE a == [t |-> t, n |-> 1]
  <2>1. a.t = t /\ a.n = 1 /\ a \in [t : Seq(NodeType), n : Nat]
    BY <1>1
  <2>2. g[0] = a
    BY <1>2
  <2> HIDE DEF a
  <2>3. 1 \in 1 .. Len(t) /\ Len(w[1]) = 0 /\ Len(t) \in Nat
    BY WayIs
  <2>4. \A n : n \notin Len(t) + 1 .. Len(t)
    BY <2>3
  <2>5. Reached(a, w, t, w, 0)
    BY <2>1, <2>3, <2>4 DEF Reached
  <2>6. OnWay(a, w, t, p)
    <3>1. Along(w[1], p)
      <4>1. 0 <= L
        BY <1>1
      <4> QED BY <2>3, <4>1 DEF Along
    <3> QED BY <2>1, <2>4, <3>1 DEF OnWay
  <2> QED BY <2>2, <2>5, <2>6
<1>5. ASSUME NEW k \in Nat, k \in P PROVE k + 1 \in P
  <2> SUFFICES ASSUME k + 1 <= L PROVE Come(k + 1)
    OBVIOUS
  <2>1. k < L /\ k <= L /\ k + 1 \in 1 .. L /\ (k + 1) - 1 = k
    BY <1>1
  <2>2. PICK v : Reached(g[k], v, t, w, k) /\ (Right => OnWay(g[k], v, t, p))
    BY <1>5, <2>1
  <2>3. g[k + 1] = Down(g[k], p[k + 1])
    BY <1>2, <2>1
  <2>4. PICK u : /\ Reached(Down(g[k], p[k + 1]), u, t, w, k + 1)
                 /\ Led(t, w, p) /\ OnWay(g[k], v, t, p) => OnWay(Down(g[k], p[k + 1]), u, t, p)
    BY <2>1, <2>2, DownReached
  <2> QED BY <1>3, <2>2, <2>3, <2>4
<1>6. Come(L)
  <2>1. L \in P
    <3> HIDE DEF P
    <3> QED BY <1>1, <1>4, <1>5, Induction
  <2> QED BY <1>1, <2>1
<1>7. PICK v : Reached(g[L], v, t, w, L) /\ (Right => OnWay(g[L], v, t, p))
  BY <1>6
<1> DEFINE T == g[L].t
           e == g[L].n
           u == Insert(t, p)
<1>8. /\ Tree(T, v) /\ e \in 1 .. Len(T) /\ Len(v[e]) = L /\ Len(t) <= Len(T)
      /\ \A n \in 1 .. Len(t) : T[n] = t[n] /\ v[n] = w[n]
      /\ \A n \in Len(t) + 1 .. Len(T) : T[n].pattern = NoPattern
  BY <1>7 DEF Reached
<1>9. /\ Tree(u, v) /\ Len(u) = Len(T) /\ u[e].pattern = p
      /\ \A i \in 1 .. Len(T) : i # e => u[i] = T[i]
  <2> HIDE DEF T, e
  <2>1. u = Mark(T, e, p)
    BY <1>2 DEF T, e
  <2> HIDE DEF u
  <2>2. Tree(T, v) /\ e \in 1 .. Len(T)
    BY <1>8
  <2> QED BY ONLY <2>1, <2>2, p \in Seq(Parts), Marked
<1> HIDE DEF T, e, u
<1>10. Len(t) \in Nat /\ Len(T) \in Nat
  BY <1>8, WayIs
<1>11. ASSUME NEW n \in 1 .. Len(u), n # e, u[n].pattern # NoPattern
       PROVE  n \in 1 .. Len(t) /\ u[n] = t[n] /\ v[n] = w[n]
  <2>1. u[n] = T[n]
    BY <1>9, <1>11
  <2>2. n \in 1 .. Len(t)
    BY <1>8, <1>9, <1>10, <1>11, <2>1
  <2> QED BY <1>8, <2>1, <2>2
<1>12. /\ Len(pats) + 1 \in 1 .. Len(more) /\ more[Len(pats) + 1] = p
       /\ \A k \in 1 .. Len(pats) : k \in 1 .. Len(more) /\ more[k] = pats[k]
       /\ \A k \in 1 .. Len(more) : k = Len(pats) + 1 \/ k \in 1 .. Len(pats)
  OBVIOUS
<1>13. Stored(u, v, more)
  <2> SUFFICES ASSUME NEW n \in 1 .. Len(u), u[n].pattern # NoPattern
               PROVE  /\ \E k \in 1 .. Len(more) : u[n].pattern = more[k]
                      /\ Len(u[n].pattern) = Len(v[n])
    BY DEF Stored
  <2>1. CASE n = e
    BY <1>8, <1>9, <1>12, <2>1
  <2>2. CASE n # e
    BY <1>11, <1>12, <2>2 DEF Stored
  <2> QED BY <2>1, <2>2
<1>14. ASSUME Right PROVE Placed(u, v, more)
  <2>1. Placed(t, w, pats) /\ OnWay(g[L], v, t, p)
    BY <1>7, <1>14 DEF Right
  <2>2. Alike(v[e], p)
    BY <1>8, <2>1 DEF OnWay, Alike, e
  <2>3. ASSUME NEW n \in 1 .. Len(u), u[n].pattern # NoPattern
        PROVE  Alike(v[n], u[n].pattern)
    <3>1. CASE n = e
      BY <1>9, <2>2, <3>1
    <3>2. CASE n # e
      BY <1>11, <2>1, <2>3, <3>2 DEF Placed
    <3> QED BY <3>1, <3>2
  <2>4. ASSUME NEW k \in 1 .. Len(more)
        PROVE  \E n \in 1 .. Len(u) : Alike(v[n], more[k]) /\ u[n].pattern # NoPattern
    <3>1. p # NoPattern /\ e \in 1 .. Len(u)
      BY <1>8, <1>9, TrieAssumption
    <3>2. CASE k = Len(pats) + 1
      BY <1>9, <1>12, <2>2, <3>1, <3>2
    <3>3. CASE k \in 1 .. Len(pats)
      <4>1. PICK n \in 1 .. Len(t) : Alike(w[n], pats[k]) /\ t[n].pattern # NoPattern
        BY <2>1, <3>3 DEF Placed
      <4>2. n \in 1 .. Len(u) /\ v[n] = w[n] /\ T[n] = t[n]
        BY <1>8, <1>9, <1>10
      <4>3. u[n].pattern # NoPattern
        BY <1>9, <3>1, <4>1, <4>2
      <4> QED BY <1>12, <3>3, <4>1, <4>2, <4>3
    <3> QED BY <1>12, <3>2, <3>3
  <2>5. ASSUME NEW n \in 2 .. Len(u)
        PROVE  \E k \in 1 .. Len(more) : Along(v[n], more[k])
    <3>1. CASE n \in 2 .. Len(t)
      <4>1. v[n] = w[n]
        BY <1>8, <1>10, <3>1
      <4>2. PICK k \in 1 .. Len(pats) : Along(w[n], pats[k])
        BY <2>1, <3>1 DEF Placed
      <4> QED BY <1>12, <4>1, <4>2
    <3>2. CASE n \notin 2 .. Len(t)
      <4>1. n \in Len(t) + 1 .. Len(T)
        BY <1>9, <1>10, <3>2
      <4>2. Along(v[n], p)
        BY <2>1, <4>1 DEF OnWay, T
      <4> QED BY <1>12, <4>2
    <3> QED BY <3>1, <3>2
  <2> QED BY <2>3, <2>4, <2>5 DEF Placed
<1> QED BY <1>9, <1>13, <1>14 DEF Right, u

\* A trie for the routes, in which they are placed if none is led astray.
TrieFor(t, pats) ==
    \E w : Tree(t, w) /\ Stored(t, w, pats) /\ (Orderly(pats) => Placed(t, w, pats))

LEMMA RootTrie ==
    ASSUME NEW pats, Len(pats) = 0
    PROVE  TrieFor(Root, pats)
<1> DEFINE root == [parent |-> 0, part |-> "", pattern |-> NoPattern]
           w == [n \in 1 .. 1 |-> <<>>]
<1>1. root \in NodeType /\ root.pattern = NoPattern /\ root.part = "" /\ root.parent = 0
  BY DEF NodeType
<1>2. Root = <<root>>
  BY DEF Root
<1> HIDE DEF root
<1>3. Root \in Seq(NodeType) /\ Len(Root) = 1 /\ Root[1] = root
  <2>1. root \in NodeType
    BY <1>1
  <2>2. <<root>> \in Seq(NodeType) /\ Len(<<root>>) = 1 /\ <<root>>[1] = root
    BY ONLY <2>1
  <2> QED BY <1>2, <2>2
<1>4. /\ w \in [1 .. 1 -> Seq(Parts)] /\ w[1] = <<>>
      /\ (\A n : n \notin 2 .. 1) /\ (\A n \in 1 .. 1 : n = 1) /\ (\A k : k \notin 1 .. 0)
  OBVIOUS
<1> HIDE DEF w
<1>5. Tree(Root, w)
  <2>1. Len(Root) >= 1 /\ 1 .. Len(Root) = 1 .. 1 /\ 2 .. Len(Root) = 2 .. 1
    BY <1>3
  <2>2. Root[1].part = "" /\ Root[1].parent = 0
    BY <1>1, <1>3
  <2> QED BY ONLY <1>3, <1>4, <2>1, <2>2 DEF Tree
<1>6. Stored(Root, w, pats) /\ Placed(Root, w, pats)
  BY ONLY <1>1, <1>3, <1>4, Len(pats) = 0 DEF Stored, Placed
<1> QED BY <1>5, <1>6 DEF TrieFor

\* The routes before the last one do not depend on it.
LEMMA OrderlyBefore ==
    ASSUME NEW pats, Len(pats) \in Nat, DOMAIN pats = 1 .. Len(pats),
           NEW more, Len(more) = Len(pats) + 1, DOMAIN more = 1 .. Len(pats) + 1,
           \A k \in 1 .. Len(pats) : more[k] = pats[k], Orderly(more)
    PROVE  Orderly(pats) /\ ~Astray(more, Len(pats) + 1)
<1>1. ~Astray(more, Len(pats) + 1)
  BY DEF Orderly
<1>2. ASSUME NEW j \in 1 .. Len(pats)
      PROVE  ~Astray(pats, j)
  <2>1. ~Astray(more, j)
    BY DEF Orderly
  <2>2. more[j] = pats[j] /\ \A k \in 1 .. j - 1 : more[k] = pats[k]
    OBVIOUS
  <2>3. \A k \in 1 .. j - 1 : \A l \in 1 .. k - 1 : more[l] = pats[l]
    OBVIOUS
  <2> SUFFICES ASSUME NEW i \in DOMAIN pats[j], NEW k \in 1 .. j - 1,
                      SameWay(pats[k], pats[j], i - 1), i \in DOMAIN pats[k],
                      Wild(pats[k][i]), ~SameKind(pats[k][i], pats[j][i]),
                      \A l \in 1 .. k - 1 : ~SameWay(pats[l], pats[j], i)
               PROVE  FALSE
    BY DEF Astray
  <2>4. \A l \in 1 .. k - 1 : ~SameWay(more[l], more[j], i)
    BY <2>2, <2>3
  <2> QED BY <2>1, <2>2, <2>4 DEF Astray
<1> QED BY <1>1, <1>2 DEF Orderly

LEMMA TrieKept ==
    ASSUME NEW t, NEW pats, pats \in Seq(Seq(Parts)), TrieFor(t, pats), NEW p, p \in Seq(Parts)
    PROVE  TrieFor(Insert(t, p), Append(pats, p))
<1> DEFINE more == Append(pats, p)
<1>1. /\ Len(pats) \in Nat /\ DOMAIN pats = 1 .. Len(pats)
      /\ \A k \in 1 .. Len(pats) : pats[k] \in Seq(Parts)
      /\ Len(more) = Len(pats) + 1 /\ DOMAIN more = 1 .. Len(pats) + 1
      /\ \A k \in 1 .. Len(pats) : more[k] = pats[k]
      /\ more[Len(pats) + 1] = p
  <2> DEFINE A == Seq(Parts)
  <2>1. pats \in Seq(A) /\ p \in A
    OBVIOUS
  <2> HIDE DEF A
  <2>2. /\ Len(pats) \in Nat /\ DOMAIN pats = 1 .. Len(pats)
        /\ \A k \in 1 .. Len(pats) : pats[k] \in A
        /\ Len(more) = Len(pats) + 1 /\ DOMAIN more = 1 .. Len(pats) + 1
        /\ \A k \in 1 .. Len(pats) : more[k] = pats[k]
        /\ more[Len(pats) + 1] = p
    BY ONLY <2>1
  <2> QED BY <2>2 DEF A
<1> HIDE DEF more
<1>2. PICK w : Tree(t, w) /\ Stored(t, w, pats) /\ (Orderly(pats) => Placed(t, w, pats))
  BY DEF TrieFor
<1>3. PICK v : /\ Tree(Insert(t, p), v) /\ Stored(Insert(t, p), v, more)
               /\ Placed(t, w, pats) /\ ~Astray(more, Len(pats) + 1)
                     => Placed(Insert(t, p), v, more)
  BY ONLY <1>1, <1>2, p \in Seq(Parts), InsertKept
<1>4. Orderly(more) => Orderly(pats) /\ ~Astray(more, Len(pats) + 1)
  BY ONLY <1>1, OrderlyBefore
<1> QED BY <1>2, <1>3, <1>4 DEF TrieFor, more

\* Patterns of the same kinds match the same paths.
LEMMA MatchesAlike ==
    ASSUME NEW p, p \in Seq(Parts), NEW q, q \in Seq(Parts), Alike(p, q), NEW r, Matches(p, r)
    PROVE  Matches(q, r)
<1>1. /\ Len(p) \in Nat /\ DOMAIN p = 1 .. Len(p) /\ Len(q) = Len(p) /\ DOMAIN q = DOMAIN p
      /\ \A i \in DOMAIN p : SameKind(p[i], q[i])
  BY DEF Alike, Along
<1>2. \A i \in DOMAIN q : i \in DOMAIN r /\ (q[i] = r[i] \/ Wild(q[i]))
  BY <1>1, Kinds DEF Matches
<1>3. ASSUME Len(r) > Len(q)
      PROVE  q # <<>> /\ Last(q) \in Stars
  <2>1. p # <<>> /\ p[Len(p)] \in Stars
    BY <1>1, <1>3 DEF Matches, Last
  <2>2. Len(p) \in DOMAIN p
    BY <1>1, <2>1
  <2>3. q # <<>>
    BY <1>1, <2>1
  <2> QED BY <1>1, <2>1, <2>2, <2>3, Kinds DEF Last
<1> QED BY <1>2, <1>3 DEF Matches

\* What search finds, by the routes.
LEMMA SearchRight ==
    ASSUME NEW t, NEW pats, TrieFor(t, pats), Len(pats) \in Nat,
           \A k \in 1 .. Len(pats) : pats[k] \in Seq(Parts) /\ EndStars(pats[k]),
           NEW r, r \in Seq(Parts), NEW e, e = Search(t, r)
    PROVE  /\ e # 0 => /\ e \in 1 .. Len(t) /\ Len(t[e].pattern) <= Len(r)
                       /\ \E k \in 1 .. Len(pats) : pats[k] = t[e].pattern
           /\ Orderly(pats) => /\ e # 0 => Matches(t[e].pattern, r)
                               /\ e = 0 => \A k \in 1 .. Len(pats) : ~Matches(pats[k], r)
<1>1. PICK w : Tree(t, w) /\ Stored(t, w, pats) /\ (Orderly(pats) => Placed(t, w, pats))
  BY DEF TrieFor
<1>2. Len(r) \in Nat /\ DOMAIN r = 1 .. Len(r)
  BY ONLY r \in Seq(Parts)
<1>3. ASSUME e # 0
      PROVE  /\ e \in 1 .. Len(t) /\ Len(t[e].pattern) <= Len(r)
             /\ \E k \in 1 .. Len(pats) : pats[k] = t[e].pattern
             /\ Orderly(pats) => Matches(t[e].pattern, r)
  <2>1. e \in 1 .. Len(t) /\ t[e].pattern # NoPattern /\ Matches(w[e], r)
    BY <1>1, <1>3, SearchSound
  <2>2. Len(t[e].pattern) = Len(w[e]) /\ \E k \in 1 .. Len(pats) : pats[k] = t[e].pattern
    BY <1>1, <2>1 DEF Stored
  <2>3. w[e] \in Seq(Parts) /\ t[e].pattern \in Seq(Parts)
    BY <1>1, <2>1, <2>2, WayIs
  <2>4. Len(w[e]) <= Len(r)
    <3>1. Len(w[e]) \in Nat /\ \A i \in 1 .. Len(w[e]) : i \in 1 .. Len(r)
      BY <1>2, <2>1, <2>3 DEF Matches
    <3> QED BY <1>2, <3>1
  <2>5. ASSUME Orderly(pats) PROVE Matches(t[e].pattern, r)
    <3>1. Alike(w[e], t[e].pattern)
      BY <1>1, <2>1, <2>5 DEF Placed
    <3> QED BY <2>1, <2>3, <3>1, MatchesAlike
  <2> QED BY <2>1, <2>2, <2>4, <2>5
<1>4. ASSUME e = 0, Orderly(pats), NEW k \in 1 .. Len(pats), Matches(pats[k], r)
      PROVE  FALSE
  <2>1. PICK n \in 1 .. Len(t) : Alike(w[n], pats[k]) /\ t[n].pattern # NoPattern
    BY <1>1, <1>4 DEF Placed
  <2>2. w[n] \in Seq(Parts) /\ pats[k] \in Seq(Parts) /\ Len(w[n]) = Len(pats[k])
    BY <1>1, <2>1, WayIs DEF Alike
  <2>3. Matches(w[n], r)
    BY <1>4, <2>1, <2>2, AlikeSymmetric, MatchesAlike
  <2>4. ASSUME NEW i \in 1 .. Len(w[n]) - 1 PROVE w[n][i] \notin Stars
    <3>1. i \in 1 .. Len(w[n]) /\ pats[k][i] \notin Stars
      BY <2>2 DEF EndStars
    <3> QED BY <2>1, <3>1, Kinds DEF Alike, Along
  <2> QED BY <1>1, <1>4, <2>1, <2>3, <2>4, SearchComplete
<1> QED BY <1>3, <1>4

LEMMA SameSeq ==
    ASSUME NEW A, NEW s, s \in Seq(A), NEW u, u \in Seq(A), Len(s) = Len(u),
           \A k \in 1 .. Len(s) : s[k] = u[k]
    PROVE  s = u
<1>1. s = [k \in 1 .. Len(s) |-> s[k]] /\ u = [k \in 1 .. Len(u) |-> u[k]]
  OBVIOUS
<1> QED BY <1>1

\* Pieces of a sequence.
LEMMA Pieces ==
    ASSUME NEW A, NEW s, s \in Seq(A), NEW i, i \in 1 .. Len(s), NEW j, j \in i .. Len(s)
    PROVE  /\ SubSeq(s, i, j) \in Seq(A) /\ SubSeq(s, i, i) = <<s[i]>>
           /\ SubSeq(s, 1, Len(s)) = s
           /\ SubSeq(s, 1, i - 1) \o SubSeq(s, i, j) = SubSeq(s, 1, j)
<1> DEFINE a == SubSeq(s, 1, i - 1)
           b == SubSeq(s, i, j)
           c == SubSeq(s, 1, j)
<1>1. Len(s) \in Nat /\ i \in Nat /\ j \in Nat /\ 1 <= i /\ i <= j /\ j <= Len(s)
  OBVIOUS
<1>2. a \in Seq(A) /\ Len(a) = i - 1 /\ \A k \in 1 .. i - 1 : a[k] = s[k]
  BY <1>1
<1>3. b \in Seq(A) /\ Len(b) = j - i + 1 /\ \A k \in 1 .. j - i + 1 : b[k] = s[i + k - 1]
  BY <1>1
<1>4. c \in Seq(A) /\ Len(c) = j /\ \A k \in 1 .. j : c[k] = s[k]
  BY <1>1
<1>5. SubSeq(s, i, i) = <<s[i]>>
  <2>1. /\ SubSeq(s, i, i) \in Seq(A) /\ Len(SubSeq(s, i, i)) = 1 /\ SubSeq(s, i, i)[1] = s[i]
    BY ONLY <1>1, s \in Seq(A)
  <2>2. <<s[i]>> \in Seq(A) /\ Len(<<s[i]>>) = 1 /\ <<s[i]>>[1] = s[i]
    BY <1>1
  <2>3. \A k \in 1 .. 1 : k = 1
    OBVIOUS
  <2> QED BY ONLY <2>1, <2>2, <2>3, SameSeq
<1>6. SubSeq(s, 1, Len(s)) = s
  <2>1. /\ SubSeq(s, 1, Len(s)) \in Seq(A) /\ Len(SubSeq(s, 1, Len(s))) = Len(s)
        /\ \A k \in 1 .. Len(s) : SubSeq(s, 1, Len(s))[k] = s[k]
    <3>1. 1 <= Len(s)
      BY <1>1
    <3> QED BY ONLY <1>1, <3>1, s \in Seq(A)
  <2> QED BY <2>1, SameSeq
<1> HIDE DEF a, b, c
<1>7. a \o b = c
  <2>1. /\ a \o b \in Seq(A) /\ Len(a \o b) = Len(a) + Len(b)
        /\ \A k \in 1 .. Len(a) + Len(b) :
              (a \o b)[k] = IF k <= Len(a) THEN a[k] ELSE b[k - Len(a)]
    <3>1. a \in Seq(A) /\ b \in Seq(A)
      BY <1>2, <1>3
    <3> QED BY ONLY <3>1, Concat
  <2>2. Len(a) + Len(b) = j
    BY <1>1, <1>2, <1>3
  <2>3. ASSUME NEW k \in 1 .. j
        PROVE  (a \o b)[k] = c[k]
    <3>1. CASE k <= i - 1
      BY <1>1, <1>2, <1>4, <2>1, <2>2, <3>1
    <3>2. CASE ~(k <= i - 1)
      <4>1. k - (i - 1) \in 1 .. j - i + 1 /\ i + (k - (i - 1)) - 1 = k
        BY <1>1, <3>2
      <4>2. (a \o b)[k] = b[k - (i - 1)]
        BY <1>2, <2>1, <2>2, <3>2
      <4> QED BY <1>3, <1>4, <4>1, <4>2
    <3> QED BY <3>1, <3>2
  <2> QED BY <1>4, <2>1, <2>2, <2>3, SameSeq
<1> QED BY <1>3, <1>5, <1>6, <1>7 DEF a, b, c

\* The parameters of a route, put into its pattern, give the path.
LEMMA FilledIs ==
    ASSUME NEW pattern, pattern \in Seq(Parts), EndStars(pattern),
           NEW r, r \in Seq(Parts), Matches(pattern, r), NamesDiffer(pattern),
           params = RouteParams(pattern, r)
    PROVE  Filled(pattern) = r
<1> DEFINE n == Len(pattern)
           L == Len(r)
           end(i) == IF pattern[i] \in Stars THEN L ELSE i
           part(i) == IF Wild(pattern[i]) THEN params[NameOf[pattern[i]]] ELSE <<pattern[i]>>
           s == [i \in DOMAIN pattern |-> part(i)]
<1>1. n \in Nat /\ DOMAIN pattern = 1 .. n /\ L \in Nat /\ DOMAIN r = 1 .. L
  OBVIOUS
<1>2. /\ \A i \in 1 .. n : i \in 1 .. L /\ (pattern[i] = r[i] \/ Wild(pattern[i]))
      /\ L > n => pattern # <<>> /\ pattern[n] \in Stars
  BY <1>1 DEF Matches, Last
<1>3. n <= L
  BY <1>1, <1>2
<1>4. ASSUME NEW i \in 1 .. n
      PROVE  part(i) = SubSeq(r, i, end(i)) /\ end(i) \in i .. L
  <2>1. end(i) \in i .. L
    BY <1>1, <1>2
  <2>3. CASE Wild(pattern[i])
    <3> DEFINE name == NameOf[pattern[i]]
               Here(k) == /\ Names(pattern, k, name)
                          /\ \A m \in k + 1 .. Len(pattern) : ~Names(pattern, m, name)
               k == CHOOSE x \in DOMAIN pattern : Here(x)
    <3>1. Here(i)
      BY <1>1, <2>3 DEF Names, NamesDiffer
    <3>2. k \in DOMAIN pattern /\ Here(k)
      <4> HIDE DEF Here
      <4> QED BY <1>1, <3>1
    <3>3. k = i
      BY <1>1, <2>3, <3>2 DEF Names, NamesDiffer
    <3>4. name \in {NameOf[p] : p \in {q \in ToSet(pattern) : Wild(q)}}
      BY <1>1, <2>3 DEF ToSet
    <3>5. params[name] = SubSeq(r, k, IF pattern[k] \in Stars THEN Len(r) ELSE k)
      BY <3>4 DEF RouteParams
    <3> HIDE DEF k
    <3> QED BY <2>1, <2>3, <3>3, <3>5
  <2>4. CASE ~Wild(pattern[i])
    <3>1. pattern[i] = r[i] /\ end(i) = i
      BY <1>2, <2>4 DEF Wild
    <3>2. SubSeq(r, i, i) = <<r[i]>>
      <4>1. i \in 1 .. Len(r) /\ i \in i .. Len(r)
        BY <1>1, <1>2
      <4> QED BY ONLY r \in Seq(Parts), <4>1, Pieces
    <3> QED BY <2>1, <2>4, <3>1, <3>2
  <2> QED BY <2>1, <2>3, <2>4
<1>5. CASE n = 0
  <2>1. L = 0
    BY <1>1, <1>2, <1>5
  <2>2. r = <<>>
    BY <2>1
  <2>3. Filled(pattern) = FlattenSeq(s)
    BY DEF Filled
  <2>4. s = <<>>
    BY <1>1, <1>5
  <2>5. FlattenSeq(<<>>) = <<>>
    BY DEF FlattenSeq
  <2> QED BY <2>2, <2>3, <2>4, <2>5
<1>6. CASE n # 0
  <2>1. Filled(pattern) = FlattenSeq(s)
    BY DEF Filled
  <2>2. \A i \in 1 .. n : part(i) \in Seq(Parts)
    <3> TAKE i \in 1 .. n
    <3>1. i \in 1 .. Len(r) /\ end(i) \in i .. Len(r) /\ part(i) = SubSeq(r, i, end(i))
      BY <1>2, <1>4
    <3> HIDE DEF end, part
    <3> QED BY ONLY r \in Seq(Parts), <3>1, Pieces
  <2>3. s \in Seq(Seq(Parts)) /\ Len(s) = n /\ s # <<>> /\ \A i \in 1 .. n : s[i] = part(i)
    <3> HIDE DEF part
    <3>1. s = [i \in 1 .. n |-> part(i)] /\ n > 0 /\ n \in Nat
      BY <1>1, <1>6
    <3> DEFINE A == Seq(Parts)
    <3>2. \A i \in 1 .. n : part(i) \in A
      BY <2>2
    <3> HIDE DEF s, n, A
    <3>3. s \in Seq(A) /\ Len(s) = n /\ s # <<>> /\ \A i \in 1 .. n : s[i] = part(i)
      BY ONLY <3>1, <3>2
    <3> QED BY <3>3 DEF A
  <2> HIDE DEF s, part, end
  <2>4. PICK f \in [1 .. n -> Seq(Parts)] :
           /\ FlattenSeq(s) = f[n] /\ f[1] = s[1]
           /\ \A i \in 2 .. n : f[i] = f[i - 1] \o s[i]
    <3>1. s \in Seq(Seq(Parts)) /\ s # <<>> /\ n = Len(s)
      BY <2>3
    <3> HIDE DEF n
    <3> QED BY ONLY <3>1, Flatten
  <2> DEFINE P == {m \in Nat : m \in 1 .. n => f[m] = SubSeq(r, 1, end(m))}
  <2>5. 0 \in P
    OBVIOUS
  <2>6. ASSUME NEW m \in Nat, m \in P PROVE m + 1 \in P
    <3> SUFFICES ASSUME m + 1 \in 1 .. n
                 PROVE  f[m + 1] = SubSeq(r, 1, end(m + 1))
      OBVIOUS
    <3>1. s[m + 1] = SubSeq(r, m + 1, end(m + 1)) /\ end(m + 1) \in m + 1 .. L /\ m + 1 \in 1 .. L
      BY <1>2, <1>4, <2>3
    <3>2. CASE m = 0
      BY <2>4, <3>1, <3>2
    <3>3. CASE m # 0
      <4>1. m \in 1 .. n /\ m \in 1 .. Len(pattern) - 1 /\ m + 1 \in 2 .. n /\ (m + 1) - 1 = m
        BY <1>1, <3>3
      <4>2. end(m) = m
        BY <4>1 DEF EndStars, end
      <4>3. f[m + 1] = SubSeq(r, 1, m) \o SubSeq(r, m + 1, end(m + 1))
        BY <2>4, <2>6, <3>1, <4>1, <4>2
      <4>4. SubSeq(r, 1, (m + 1) - 1) \o SubSeq(r, m + 1, end(m + 1)) = SubSeq(r, 1, end(m + 1))
        <5>1. m + 1 \in 1 .. Len(r) /\ end(m + 1) \in m + 1 .. Len(r)
          BY <3>1
        <5> DEFINE i == m + 1
                   j == end(m + 1)
        <5>2. i \in 1 .. Len(r) /\ j \in i .. Len(r)
          BY <5>1
        <5> HIDE DEF n, L, i, j
        <5>3. SubSeq(r, 1, i - 1) \o SubSeq(r, i, j) = SubSeq(r, 1, j)
          BY ONLY r \in Seq(Parts), <5>2, Pieces
        <5> QED BY <5>3 DEF i, j
      <4> QED BY <4>1, <4>3, <4>4
    <3> QED BY <3>2, <3>3
  <2>7. f[n] = SubSeq(r, 1, end(n))
    <3>1. n \in P
      <4> HIDE DEF P
      <4> QED BY <1>1, <2>5, <2>6, Induction
    <3>2. n \in 1 .. n
      BY <1>1, <1>6
    <3> QED BY <3>1, <3>2
  <2>8. end(n) = L
    <3>1. n \in Nat /\ L \in Nat /\ n <= L /\ (L > n => pattern[n] \in Stars)
      BY <1>1, <1>2, <1>3
    <3> HIDE DEF n, L
    <3>2. L > n \/ n = L
      BY ONLY <3>1
    <3> QED BY ONLY <3>1, <3>2 DEF end
  <2>9. SubSeq(r, 1, L) = r
    <3>1. n \in 1 .. L /\ end(n) \in n .. L
      BY <1>1, <1>2, <1>4, <1>6
    <3> QED BY <3>1, Pieces
  <2> QED BY <2>1, <2>4, <2>7, <2>8, <2>9
<1> QED BY <1>5, <1>6

-----------------------------------------------------------------------------
(* The router. *)

\* The trie is one for the routes, with an asterisk only at the end of a pattern.
Routed ==
    /\ \A i \in 1 .. Len(routes) : EndStars(routes[i].pattern)
    /\ TrieFor(nodes, Patterns)

LEMMA PatternsType ==
    ASSUME Slices
    PROVE  /\ Patterns \in Seq(Seq(Parts)) /\ Len(Patterns) = Len(routes) /\ Len(routes) \in Nat
           /\ DOMAIN routes = 1 .. Len(routes)
           /\ \A i \in 1 .. Len(routes) : /\ Patterns[i] = routes[i].pattern
                                          /\ routes[i].pattern \in Seq(Parts)
<1> DEFINE n == Len(routes)
           A == Seq(Parts)
           Route == [pattern : A, group : Nat]
<1>1. routes \in Seq(Route)
  BY DEF Slices
<1> HIDE DEF Route
<1>2. n \in Nat /\ DOMAIN routes = 1 .. n /\ \A i \in 1 .. n : routes[i] \in Route
  BY <1>1
<1> HIDE DEF A
<1>3. \A i \in 1 .. n : routes[i].pattern \in A
  BY <1>2 DEF Route
<1>4. Patterns = [i \in 1 .. n |-> routes[i].pattern]
  BY <1>2 DEF Patterns
<1> DEFINE p == [i \in 1 .. n |-> routes[i].pattern]
<1>5. p \in Seq(A) /\ Len(p) = n /\ \A i \in 1 .. n : p[i] = routes[i].pattern
  <2> HIDE DEF n
  <2> QED BY <1>2, <1>3
<1> QED BY <1>2, <1>3, <1>4, <1>5 DEF A

LEMMA RoutedInit == Init => Routed
<1> SUFFICES ASSUME Init PROVE Routed
  OBVIOUS
<1>1. Slices
  BY SetupInit
<1>2. nodes = Root /\ Len(routes) = 0
  BY DEF Init
<1>3. TrieFor(nodes, Patterns)
  <2>1. Len(Patterns) = 0
    BY <1>1, <1>2, PatternsType
  <2> QED BY <1>2, <2>1, RootTrie
<1> QED BY <1>2, <1>3 DEF Routed

LEMMA RoutedOver ==
    ASSUME Routed, UNCHANGED <<nodes, routes>>
    PROVE  Routed'
<1>1. Patterns' = Patterns
  BY DEF Patterns
<1> QED BY <1>1 DEF Routed

LEMMA RoutedGET ==
    ASSUME Slices, Routed, NEW g \in DOMAIN groups, NEW comp \in Texts, GET(g, comp)
    PROVE  Routed'
<1> DEFINE p == ParsePattern(groups[g].prefix \o comp)
           n == Len(routes)
           new == [pattern |-> p, group |-> g]
           Route == [pattern : Seq(Parts), group : Nat]
<1>1. nodes' = Insert(nodes, p) /\ routes' = Append(routes, new)
  BY DEF GET
<1>2. g \in 1 .. Len(groups) /\ groups[g].prefix \in Texts
  BY PrefixType
<1>3. p \in Seq(Parts) /\ EndStars(p)
  BY <1>2, HeadsConcat, ParseRight
<1> HIDE DEF p
<1>4. new \in Route /\ new.pattern = p
  <2>1. g \in Nat
    BY <1>2 DEF Slices
  <2> QED BY <1>3, <2>1
<1>5. routes \in Seq(Route)
  BY DEF Slices
<1> HIDE DEF new, Route
<1>6. /\ DOMAIN routes = 1 .. n /\ n \in Nat /\ DOMAIN routes' = 1 .. n + 1 /\ Len(routes') = n + 1
      /\ routes'[n + 1] = new /\ \A i \in 1 .. n : routes'[i] = routes[i]
  BY <1>1, <1>4, <1>5
<1>7. \A i \in 1 .. n + 1 : i \in 1 .. n \/ i = n + 1
  BY <1>6
<1>8. \A i \in 1 .. n + 1 : EndStars(routes'[i].pattern)
  BY <1>3, <1>4, <1>6, <1>7 DEF Routed
<1>9. Patterns' = Append(Patterns, p)
  <2>1. Patterns \in Seq(Seq(Parts)) /\ Len(Patterns) = n
        /\ \A i \in 1 .. n : Patterns[i] = routes[i].pattern
    BY PatternsType
  <2>2. Patterns' = [i \in 1 .. n + 1 |-> routes'[i].pattern]
    BY <1>6 DEF Patterns
  <2> DEFINE A == Seq(Parts)
             more == Append(Patterns, p)
  <2>3. /\ more \in Seq(A) /\ Len(more) = n + 1 /\ more[n + 1] = p
        /\ \A i \in 1 .. n : more[i] = Patterns[i]
    <3>1. Patterns \in Seq(A) /\ p \in A
      BY <1>3, <2>1
    <3> HIDE DEF A
    <3> QED BY ONLY <1>6, <2>1, <3>1
  <2> HIDE DEF more
  <2>4. more = [i \in 1 .. n + 1 |-> more[i]]
    BY <2>3
  <2>5. \A i \in 1 .. n + 1 : more[i] = routes'[i].pattern
    BY <1>4, <1>6, <1>7, <2>1, <2>3
  <2> QED BY <2>2, <2>4, <2>5 DEF more
<1>10. TrieFor(nodes', Patterns')
  <2>1. TrieFor(nodes, Patterns) /\ Patterns \in Seq(Seq(Parts))
    BY PatternsType DEF Routed
  <2>2. TrieFor(Insert(nodes, p), Append(Patterns, p))
    BY ONLY <1>3, <2>1, TrieKept
  <2> QED BY <1>1, <1>9, <2>2
<1> QED BY <1>6, <1>8, <1>10 DEF Routed

LEMMA RoutedKept ==
    ASSUME Slices, Routed, [Next]_vars
    PROVE  Routed'
<1>1. ASSUME UNCHANGED <<nodes, routes>> PROVE Routed'
  BY <1>1, RoutedOver
<1>2. ASSUME NEW g \in DOMAIN groups, Use(g) PROVE Routed'
  BY <1>1, <1>2 DEF Use
<1>3. ASSUME NEW g \in DOMAIN groups, NEW prefix \in GroupPrefixes, Group(g, prefix) PROVE Routed'
  BY <1>1, <1>3 DEF Group
<1>4. ASSUME NEW g \in DOMAIN groups, NEW comp \in Comps, GET(g, comp) PROVE Routed'
  <2>1. comp \in Texts
    BY GeeWebAssumption
  <2> QED BY <1>4, <2>1, RoutedGET
<1>5. ASSUME NEW g \in DOMAIN groups, NEW relative \in Statics, Static(g, relative) PROVE Routed'
  BY <1>5, StaticIsGET, RoutedGET
<1>6. CASE UNCHANGED vars
  BY <1>1, <1>6 DEF vars, setupVars
<1>7. ASSUME NEW p \in Paths, Serve(p) PROVE Routed'
  BY <1>1, <1>7 DEF Serve, setupVars
<1>8. CASE Loop \/ CallNext \/ Returns \/ Panics
  BY <1>1, <1>8 DEF Loop, CallNext, Returns, Panics, setupVars
<1> QED BY <1>2, <1>3, <1>4, <1>5, <1>6, <1>7, <1>8 DEF Next

LEMMA RightRoute ==
    ASSUME WebInv, Routed
    PROVE  RoutedRight
<1> SUFFICES ASSUME Requested PROVE RoutedRight
  BY DEF RoutedRight
<1> DEFINE pattern == nodes[found].pattern
           n == Len(routes)
           parts == ParsePattern(path)
<1>1. /\ path \in Paths /\ found = Search(nodes, parts)
      /\ found # 0 => params = RouteParams(pattern, parts)
  BY DEF WebInv, Served, Requested
<1>2. parts \in Seq(Parts)
  BY <1>1, GeeWebAssumption, ParseRight
<1> HIDE DEF parts
<1>3. /\ Len(Patterns) = n /\ n \in Nat /\ DOMAIN routes = 1 .. n
      /\ \A i \in 1 .. n : Patterns[i] = routes[i].pattern /\ routes[i].pattern \in Seq(Parts)
  BY PatternsType DEF WebInv
<1>4. \A i \in 1 .. n : Patterns[i] \in Seq(Parts) /\ EndStars(Patterns[i])
  BY <1>3 DEF Routed
<1>5. TrieFor(nodes, Patterns)
  BY DEF Routed
<1>6. /\ found # 0 => /\ found \in 1 .. Len(nodes) /\ Len(pattern) <= Len(parts)
                      /\ \E k \in 1 .. n : Patterns[k] = pattern
      /\ Orderly(Patterns) => /\ found # 0 => Matches(pattern, parts)
                              /\ found = 0 => \A k \in 1 .. n : ~Matches(Patterns[k], parts)
  <2>1. \A i \in 1 .. Len(Patterns) : Patterns[i] \in Seq(Parts) /\ EndStars(Patterns[i])
    BY <1>3, <1>4
  <2>2. Len(Patterns) \in Nat
    BY <1>3
  <2> HIDE DEF n
  <2>3. /\ found # 0 => /\ found \in 1 .. Len(nodes) /\ Len(nodes[found].pattern) <= Len(parts)
                        /\ \E k \in 1 .. Len(Patterns) : Patterns[k] = nodes[found].pattern
        /\ Orderly(Patterns) =>
              /\ found # 0 => Matches(nodes[found].pattern, parts)
              /\ found = 0 => \A k \in 1 .. Len(Patterns) : ~Matches(Patterns[k], parts)
    BY ONLY <1>1, <1>2, <1>5, <2>1, <2>2, SearchRight
  <2> QED BY <1>3, <2>3
<1>7. ASSUME found # 0, Orderly(Patterns), NamesDiffer(pattern)
      PROVE  Filled(pattern) = parts
  <2>1. pattern \in Seq(Parts) /\ EndStars(pattern)
    BY <1>4, <1>6, <1>7
  <2> HIDE DEF pattern
  <2> QED BY <1>1, <1>2, <1>6, <1>7, <2>1, FilledIs
<1> QED BY <1>3, <1>6, <1>7 DEF RoutedRight, parts

LEMMA RoutedInvariance == Spec => [](WebInv /\ Routed)
<1>1. Init => Routed
  BY RoutedInit
<1>2. WebInv /\ Routed /\ [Next]_vars => Routed'
  BY RoutedKept DEF WebInv
<1> QED BY <1>1, <1>2, WebInvariance, PTL DEF Spec

\* A request gets a route exactly if one matches, one that does and with the
\* parameters of its path, unless a wildcard has led a route astray (router.go and
\* trie.go: addRoute, getRoute, insert, search).
THEOREM RoutesAreFound == Spec => []RoutedRight
<1>1. WebInv /\ Routed => RoutedRight
  BY RightRoute
<1> QED BY <1>1, RoutedInvariance, PTL

\* Every variable keeps to its type.
THEOREM WebTypeCorrect == Spec => []TypeOK
<1>1. ASSUME WebInv, Routed PROVE TypeOK
  <2>1. PICK w : Tree(nodes, w)
    BY <1>1 DEF Routed, TrieFor
  <2>2. \A n \in DOMAIN nodes : nodes[n].parent \in 0 .. n - 1
    <3> TAKE n \in DOMAIN nodes
    <3>1. n \in 1 .. Len(nodes) /\ Len(nodes) \in Nat /\ nodes[1].parent = 0
      BY <2>1, WayIs
    <3>2. CASE n = 1
      BY <3>1, <3>2
    <3>3. CASE n # 1
      <4>1. n \in 2 .. Len(nodes)
        BY <3>1, <3>3
      <4>2. nodes[n].parent \in 1 .. n - 1
        BY <2>1, <4>1 DEF Tree
      <4> QED BY <3>1, <4>2
    <3> QED BY <3>2, <3>3
  <2>3. \A g \in DOMAIN groups : groups[g].array \in DOMAIN arrays
                                 /\ groups[g].len <= Len(arrays[groups[g].array])
    <3>1. arrays \in Seq(Seq(Handlers \cup {"empty"})) /\ DOMAIN groups = 1 .. Len(groups)
      BY <1>1 DEF WebInv, Slices
    <3>2. DOMAIN arrays = 1 .. Len(arrays)
      BY ONLY <3>1
    <3> QED BY <1>1, <3>1, <3>2 DEF WebInv, Slices
  <2>4. found \in 0 .. Len(nodes)
    <3>1. Len(nodes) \in Nat
      BY <2>1, WayIs
    <3>2. CASE found = 0
      BY <3>1, <3>2
    <3>3. CASE found # 0
      <4>1. path \in Paths /\ found = Search(nodes, ParsePattern(path))
        BY <1>1, <3>3 DEF WebInv, Served
      <4>2. ParsePattern(path) \in Seq(Parts)
        BY <4>1, GeeWebAssumption, ParseRight
      <4>3. found \in 1 .. Len(nodes)
        BY <2>1, <3>3, <4>1, <4>2, SearchSound
      <4> QED BY <3>1, <4>3
    <3> QED BY <3>2, <3>3
  <2>5. index \in Nat /\ at \in {"setup", "loop", "handler", "done", "crashed"}
    BY <1>1 DEF WebInv, Running
  <2> QED BY <2>2, <2>3, <2>4, <2>5 DEF TypeOK
<1> QED BY <1>1, RoutedInvariance, PTL
=============================================================================

---------------------------- MODULE GeeOrmProofs ----------------------------
(***************************************************************************)
(* Proofs about GeeOrm and the Session it uses, for any tables, rows,      *)
(* conditions, hooks and bounds.                                           *)
(*                                                                         *)
(* The call stack carries the proof.  Its shape says in which session      *)
(* every frame works, so that all that runs above a Transaction runs in    *)
(* it and cannot touch the committed database.  A frame that is not known  *)
(* to be meddled with has chained just what its session holds, unless the  *)
(* frame above it is an operation that will clear the clauses first.       *)
(***************************************************************************)
EXTENDS GeeOrm, Integers, TLAPS

Clauses == [Types -> Wheres \cup {NoClause, 1}]
Marks == UNION {[ks -> BOOLEAN] : ks \in SUBSET Keys}
Differences == [add : SUBSET Columns, del : SUBSET Columns]
Databases == [main : Tables \cup {NoTable}, tmp : Tables \cup {NoTable}]
SessionType == [clause : Clauses, tx : {"nil", "open", "done"}, model : BOOLEAN]

Operations == {"insert", "find", "first", "update", "delete", "count", "raw", "has",
               "create", "drop"}
Pending == {"before", "into", "run"}
Phases == Pending \cup {"rows", "after"}
HookNames == {"BeforeInsert", "BeforeQuery", "BeforeUpdate", "BeforeDelete",
              "AfterInsert", "AfterQuery", "AfterUpdate", "AfterDelete"}
Places == Phases \cup HookNames
          \cup {"", "has", "create", "select", "alter", "copy", "ok", "error"}
FrameType ==
    [kind : Operations \cup Code \cup {"migrate", "panic"}, s : Sessions, at : Places,
     arg : (SUBSET Keys) \cup Values \cup Marks \cup Differences,
     chain : Clauses, meddled : BOOLEAN]

\* A frame has the argument that its kind and its phase call for.
Proper(f) ==
    /\ f.at \in Phases => f.kind \in Operations
    /\ f.at \in Pending /\ f.kind = "insert" => f.arg \in SUBSET Keys
    /\ f.at \in Pending /\ f.kind = "update" => f.arg \in Values
    /\ f.at = "rows" => f.arg \in Marks
    /\ f.at = "alter" => f.arg \in Differences

\* A Transaction or Migrate runs: its frame lies on the user's.
InTx(st) == Len(st) > 1 /\ st[Len(st) - 1].kind \in {"tf", "migrate"}

\* The user is at the bottom, a transaction's function next, a panic on top.  What
\* runs above a transaction works in its session, all else in the user's.
Shape(st) ==
    /\ st \in Seq(FrameType) /\ Len(st) > 0 /\ \A i \in 1 .. Len(st) : Proper(st[i])
    /\ st[Len(st)].kind = "user" /\ st[Len(st)].s = "plain"
    /\ \A i \in 1 .. Len(st) - 1 : st[i].kind # "user"
    /\ \A i \in 1 .. Len(st) - 2 : st[i].kind \notin {"tf", "migrate"}
    /\ \A i \in 2 .. Len(st) : /\ st[i].kind # "panic"
                               /\ st[i].kind = "migrate" => st[i - 1].kind = "panic"
    /\ InTx(st) => \A i \in 1 .. Len(st) - 1 : st[i].s = "tx"
    /\ ~InTx(st) => /\ \A i \in 2 .. Len(st) : st[i].s = "plain"
                    /\ st[1].s = "tx" => st[1].kind = "panic" /\ Len(st) = 2

\* The session holds what the frame has chained, if the frame can know.
Fits(f, ses) == f.kind # "panic" /\ ~f.meddled => f.chain = ses[f.s].clause

\* The frame g above f will clear the clauses, or has left them as they are to
\* whoever recovers.
Covers(g, f) == g.at \in Pending \/ (g.kind = "panic" /\ g.s = f.s)

\* Insert has made its session a model when it comes to the records.
Rest(st, ses) ==
    /\ \A i \in 2 .. Len(st) : Covers(st[i - 1], st[i]) \/ Fits(st[i], ses)
    /\ \A i \in 1 .. Len(st) : st[i].at = "into" => ses[st[i].s].model

Chained(st, ses) == Fits(st[1], ses) /\ Rest(st, ses)

\* The transactions: one at most, and never two sessions'.
Transactions ==
    /\ InTx(stack) <=> sess["tx"].tx = "open"
    /\ InTx(stack) => /\ sess["plain"].tx # "open" /\ outcome = "none" /\ db = before
                      /\ task = stack[Len(stack) - 1].kind
                      /\ task = "tf" => work.tmp = NoTable
    /\ sess["plain"].tx = "open" => work.tmp = NoTable
    /\ db.tmp = NoTable
    /\ AllOrNothing

\* Every row has kept what it had, and has nothing in the columns it has gained.
SameRows(new, old, columns) ==
    /\ DOMAIN new.rows = DOMAIN old.rows
    /\ \A k \in DOMAIN old.rows, f \in columns :
          new.rows[k][f] = IF f \in old.cols THEN old.rows[k][f] ELSE Null

\* The main table when the columns in add are still to be added.
Altered(new, old, add) ==
    /\ new # NoTable /\ old # NoTable /\ new.pk = old.pk
    /\ add \subseteq Fields \ old.cols
    /\ new.cols = old.cols \cup (Fields \ add)
    /\ SameRows(new, old, new.cols)

\* What Migrate is to make of the database.
Migrated(new, old) ==
    /\ new.main # NoTable /\ new.main.cols = Fields /\ new.tmp = NoTable
    /\ old.main # NoTable =>
          /\ SameRows(new.main, old.main, Fields)
          /\ new.main.pk <=> (old.main.pk /\ old.main.cols \subseteq Fields)

\* How far it has got, by the place it is at.
Stage(f, new, old) ==
    /\ f.at \in {"has", "create", "select"} => new = old
    /\ f.at = "select" => old.main # NoTable
    /\ f.at = "alter" => /\ new.tmp = NoTable /\ Altered(new.main, old.main, f.arg.add)
                         /\ f.arg.del = old.main.cols \ Fields
    /\ f.at = "copy" => /\ new.tmp = NoTable /\ Altered(new.main, old.main, {})
                        /\ old.main.cols \ Fields # {}
    /\ f.at = "ok" => Migrated(new, old)

Migrating ==
    /\ Top.kind = "migrate" => Stage(Top, work, before)
    /\ MigrationKeeps

Typed ==
    /\ db \in Databases /\ work \in Databases /\ before \in Databases
    /\ sess \in [Sessions -> SessionType]
    /\ outcome \in {"none", "ok", "error", "panic"}

\* The inductive invariant.
IInv ==
    /\ Typed /\ Shape(stack)
    /\ Chained(stack, sess) /\ StatementsAsChained
    /\ Transactions /\ Migrating

-----------------------------------------------------------------------------
(* Sequences and frames. *)

\* A sequence with an element put before it, ...
LEMMA Pushing ==
    ASSUME NEW S, NEW f \in S, NEW t \in Seq(S)
    PROVE  LET st == <<f>> \o t
           IN /\ st \in Seq(S) /\ Len(st) = Len(t) + 1 /\ st[1] = f /\ Tail(st) = t
              /\ \A i \in 2 .. Len(st) : st[i] = t[i - 1]
OBVIOUS

LEMMA OneFrame ==
    ASSUME NEW S, NEW f \in S
    PROVE  <<f>> \in Seq(S) /\ Len(<<f>>) = 1 /\ <<f>>[1] = f
OBVIOUS

LEMMA PushTwo ==
    ASSUME NEW S, NEW f \in S, NEW g \in S, NEW t \in Seq(S)
    PROVE  <<f, g>> \o t = <<f>> \o (<<g>> \o t)
<1> DEFINE a == <<f, g>> \o t
           u == <<g>> \o t
           b == <<f>> \o u
           n == Len(t)
<1>1. n \in Nat /\ u \in Seq(S) /\ Len(u) = n + 1 /\ \A i \in 2 .. n + 1 : u[i] = t[i - 1]
  BY Pushing
<1>2. u[1] = g
  BY Pushing
<1>3. a \in Seq(S) /\ Len(a) = n + 2 /\ a[1] = f /\ a[2] = g
  OBVIOUS
<1>4. \A i \in 3 .. n + 2 : a[i] = t[i - 2]
  OBVIOUS
<1> HIDE DEF u
<1>5. b \in Seq(S) /\ Len(b) = n + 2 /\ b[1] = f /\ \A i \in 2 .. n + 2 : b[i] = u[i - 1]
  BY <1>1, Pushing
<1> HIDE DEF a, b, n
<1>6. ASSUME NEW i \in 1 .. n + 2
      PROVE  a[i] = b[i]
  <2>1. CASE i = 1
    BY <1>3, <1>5, <2>1
  <2>2. CASE i = 2
    BY <1>1, <1>2, <1>3, <1>5, <2>2
  <2>3. CASE i > 2
    <3>1. i - 1 \in 2 .. n + 1 /\ (i - 1) - 1 = i - 2
      BY <1>1, <2>3
    <3>2. b[i] = u[i - 1] /\ u[i - 1] = t[i - 2]
      BY <1>1, <1>5, <2>3, <3>1
    <3>3. a[i] = t[i - 2]
      BY <1>1, <1>4, <2>3
    <3> QED BY <3>2, <3>3
  <2> QED BY <1>1, <2>1, <2>2, <2>3
<1>7. a = b
  <2>1. a \in [1 .. n + 2 -> S] /\ b \in [1 .. n + 2 -> S]
    BY <1>3, <1>5
  <2>2. a = [i \in 1 .. n + 2 |-> a[i]] /\ b = [i \in 1 .. n + 2 |-> b[i]]
    BY <2>1
  <2>3. [i \in 1 .. n + 2 |-> a[i]] = [i \in 1 .. n + 2 |-> b[i]]
    BY <1>6, Zenon
  <2> QED BY <2>2, <2>3
<1> QED BY <1>7 DEF a, b, u

\* ... and one without its first element.
LEMMA Popping ==
    ASSUME NEW S, NEW st \in Seq(S), Len(st) > 0
    PROVE  /\ Tail(st) \in Seq(S) /\ Len(Tail(st)) = Len(st) - 1
           /\ \A i \in 1 .. Len(Tail(st)) : Tail(st)[i] = st[i + 1]
OBVIOUS

\* Which rows Find has, and whether they have a NULL.
LEMMA MarksAre ==
    /\ \A D \in SUBSET Keys : \A m \in [D -> BOOLEAN] : m \in Marks
    /\ \A m \in Marks : DOMAIN m \in SUBSET Keys /\ m \in [DOMAIN m -> BOOLEAN]
<1>1. ASSUME NEW D \in SUBSET Keys, NEW m \in [D -> BOOLEAN]
      PROVE  m \in Marks
  BY Zenon DEF Marks
<1>2. ASSUME NEW m \in Marks
      PROVE  DOMAIN m \in SUBSET Keys /\ m \in [DOMAIN m -> BOOLEAN]
  <2>1. PICK D \in SUBSET Keys : m \in [D -> BOOLEAN]
    BY Zenon DEF Marks
  <2>2. DOMAIN m = D
    BY <2>1
  <2> QED BY <2>1, <2>2
<1> QED BY <1>1, <1>2

\* What tables are, ...
LEMMA TablesAre ==
    ASSUME NEW t \in Tables
    PROVE  /\ t.cols \in SUBSET Columns /\ t.pk \in BOOLEAN /\ DOMAIN t.rows \in SUBSET Keys
           /\ t.rows \in [DOMAIN t.rows -> [t.cols -> Values \cup {Null}]]
           /\ t = [cols |-> t.cols, pk |-> t.pk, rows |-> t.rows]
<1> DEFINE RowsOf(cs) == UNION {[ks -> [cs -> Values \cup {Null}]] : ks \in SUBSET Keys}
<1>1. PICK cs \in SUBSET Columns : t \in [cols : {cs}, pk : BOOLEAN, rows : RowsOf(cs)]
  BY Zenon DEF Tables
<1> HIDE DEF RowsOf
<1>2. /\ t.cols = cs /\ t.pk \in BOOLEAN /\ t.rows \in RowsOf(cs)
      /\ t = [cols |-> t.cols, pk |-> t.pk, rows |-> t.rows]
  BY <1>1
<1>3. PICK ks \in SUBSET Keys : t.rows \in [ks -> [cs -> Values \cup {Null}]]
  BY <1>2, Zenon DEF RowsOf
<1>4. DOMAIN t.rows = ks
  BY <1>3
<1> QED BY <1>2, <1>3, <1>4

\* ... and what is one.
LEMMA TableMade ==
    ASSUME NEW cs \in SUBSET Columns, NEW pk \in BOOLEAN, NEW ks \in SUBSET Keys,
           NEW rows \in [ks -> [cs -> Values \cup {Null}]]
    PROVE  [cols |-> cs, pk |-> pk, rows |-> rows] \in Tables
<1> DEFINE All(c) == UNION {[k -> [c -> Values \cup {Null}]] : k \in SUBSET Keys}
           Some(c) == [cols : {c}, pk : BOOLEAN, rows : All(c)]
           t == [cols |-> cs, pk |-> pk, rows |-> rows]
<1>1. rows \in All(cs)
  BY Zenon
<1> HIDE DEF All
<1>2. t \in Some(cs)
  BY <1>1
<1> HIDE DEF Some, t
<1>3. t \in UNION {Some(c) : c \in SUBSET Columns}
  BY <1>2, Zenon
<1> QED BY <1>3, Zenon DEF Tables, All, Some, t

\* Frame makes frames.
LEMMA FrameMade ==
    ASSUME NEW kind \in Operations \cup Code \cup {"migrate", "panic"},
           NEW s \in Sessions, NEW at \in Places,
           NEW arg \in (SUBSET Keys) \cup Values \cup Marks \cup Differences
    PROVE  LET f == Frame(kind, s, at, arg)
           IN /\ f \in FrameType
              /\ f.kind = kind /\ f.s = s /\ f.at = at /\ f.arg = arg
              /\ f.chain = Empty /\ ~f.meddled
BY DEF Frame, FrameType, Empty, Clauses

\* Two stacks that differ in clauses, arguments and phases only have one shape.
Alike(st, old) ==
    /\ st \in Seq(FrameType) /\ Len(st) = Len(old)
    /\ \A i \in 1 .. Len(st) :
          st[i].kind = old[i].kind /\ st[i].s = old[i].s /\ Proper(st[i])

LEMMA AlikeShape ==
    ASSUME NEW old, NEW st, Shape(old), Alike(st, old)
    PROVE  /\ Shape(st) /\ (InTx(st) <=> InTx(old)) /\ st[1].kind = old[1].kind
           /\ st[1].s = old[1].s
           /\ InTx(old) => st[Len(st) - 1].kind = old[Len(old) - 1].kind
<1> DEFINE n == Len(old)
<1>1. /\ st \in Seq(FrameType) /\ Len(st) = n /\ n \in Nat /\ n > 0
      /\ \A i \in 1 .. n :
            st[i].kind = old[i].kind /\ st[i].s = old[i].s /\ Proper(st[i])
  BY DEF Shape, Alike
<1>2. \A i \in 2 .. n : i - 1 \in 1 .. n
  BY <1>1
<1>3. InTx(st) <=> InTx(old)
  BY <1>1 DEF InTx, n
<1> HIDE DEF n
<1>4. \A i \in 1 .. n - 1 : st[i].kind # "user"
  BY <1>1 DEF Shape, n
<1>5. \A i \in 1 .. n - 2 : st[i].kind \notin {"tf", "migrate"}
  BY <1>1 DEF Shape, n
<1>6. \A i \in 2 .. n : /\ st[i].kind # "panic"
                        /\ st[i].kind = "migrate" => st[i - 1].kind = "panic"
  BY <1>1, <1>2 DEF Shape, n
<1>7. st[n].kind = "user" /\ st[n].s = "plain" /\ \A i \in 1 .. n : Proper(st[i])
  BY <1>1 DEF Shape, n
<1>8. InTx(old) => \A i \in 1 .. n - 1 : st[i].s = "tx"
  BY <1>1 DEF Shape, n
<1>9. ~InTx(old) => /\ \A i \in 2 .. n : st[i].s = "plain"
                    /\ st[1].s = "tx" => st[1].kind = "panic" /\ n = 2
  BY <1>1 DEF Shape, n
<1>10. Shape(st)
  BY <1>1, <1>3, <1>4, <1>5, <1>6, <1>7, <1>8, <1>9 DEF Shape
<1> QED BY <1>1, <1>3, <1>10 DEF InTx, n

\* A frame called from the one at the top.
LEMMA PushShape ==
    ASSUME NEW st, NEW f \in FrameType, Shape(st), Proper(f), f.s = st[1].s,
           st[1].kind # "panic", f.kind \notin {"user", "tf", "migrate"},
           st[1].kind = "migrate" => f.kind = "panic"
    PROVE  /\ Shape(<<f>> \o st) /\ (InTx(<<f>> \o st) <=> InTx(st))
           /\ InTx(st) => (<<f>> \o st)[Len(<<f>> \o st) - 1].kind = st[Len(st) - 1].kind
<1> DEFINE new == <<f>> \o st
           n == Len(st)
<1>1. /\ new \in Seq(FrameType) /\ Len(new) = n + 1 /\ new[1] = f
      /\ \A i \in 2 .. n + 1 : new[i] = st[i - 1]
      /\ n \in Nat /\ n > 0
  BY Pushing DEF Shape
<1> HIDE DEF new, n
<1>2. \A i \in 2 .. n + 1 : i - 1 \in 1 .. n
  BY <1>1
<1>3. InTx(new) <=> InTx(st)
  <2>1. CASE n = 1
    BY <1>1, <2>1 DEF InTx, n
  <2>2. CASE n > 1
    BY <1>1, <2>2 DEF InTx, n
  <2> QED BY <1>1, <2>1, <2>2
<1>4. InTx(st) => new[Len(new) - 1].kind = st[n - 1].kind
  BY <1>1 DEF InTx, n
<1>5. \A i \in 1 .. n + 1 : Proper(new[i])
  BY <1>1, <1>2 DEF Shape, n
<1>6. new[n + 1].kind = "user" /\ new[n + 1].s = "plain"
  BY <1>1 DEF Shape, n
<1>7. \A i \in 1 .. n : new[i].kind # "user"
  <2>1. \A i \in 2 .. n : new[i] = st[i - 1] /\ i - 1 \in 1 .. n - 1
    BY <1>1
  <2>2. \A j \in 1 .. n - 1 : st[j].kind # "user"
    BY DEF Shape, n
  <2>3. \A i \in 1 .. n : i = 1 \/ i \in 2 .. n
    OBVIOUS
  <2> QED BY <1>1, <2>1, <2>2, <2>3
<1>8. \A i \in 1 .. n - 1 : new[i].kind \notin {"tf", "migrate"}
  <2>1. \A i \in 2 .. n - 1 : new[i] = st[i - 1] /\ i - 1 \in 1 .. n - 2
    BY <1>1
  <2>2. \A j \in 1 .. n - 2 : st[j].kind \notin {"tf", "migrate"}
    BY DEF Shape, n
  <2>3. \A i \in 1 .. n - 1 : i = 1 \/ i \in 2 .. n - 1
    OBVIOUS
  <2> QED BY <1>1, <2>1, <2>2, <2>3
<1>9. \A i \in 2 .. n + 1 : /\ new[i].kind # "panic"
                            /\ new[i].kind = "migrate" => new[i - 1].kind = "panic"
  <2> SUFFICES ASSUME NEW i \in 2 .. n + 1
               PROVE  /\ new[i].kind # "panic"
                      /\ new[i].kind = "migrate" => new[i - 1].kind = "panic"
    OBVIOUS
  <2>1. CASE i = 2
    BY <1>1, <2>1
  <2>2. CASE i > 2
    <3>1. i - 1 \in 2 .. n /\ new[i] = st[i - 1] /\ new[i - 1] = st[i - 2]
      BY <1>1, <2>2
    <3> QED BY <3>1 DEF Shape, n
  <2> QED BY <2>1, <2>2
<1>10. InTx(st) => \A i \in 1 .. n : new[i].s = "tx"
  <2> SUFFICES ASSUME InTx(st), NEW i \in 1 .. n
               PROVE  new[i].s = "tx"
    OBVIOUS
  <2>1. \A j \in 1 .. n - 1 : st[j].s = "tx"
    BY DEF Shape, n
  <2>2. n > 1
    BY DEF InTx, n
  <2> QED BY <1>1, <2>1, <2>2
<1>11. ~InTx(st) => \A i \in 1 .. n + 1 : new[i].s = "plain"
  <2> SUFFICES ASSUME ~InTx(st), NEW i \in 1 .. n + 1
               PROVE  new[i].s = "plain"
    OBVIOUS
  <2>1. \A j \in 1 .. n : st[j].s = "plain"
    <3>1. st[1].s \in Sessions
      BY <1>1 DEF Shape, FrameType
    <3> QED BY <1>1, <3>1 DEF Shape, n, Sessions
  <2> QED BY <1>1, <2>1
<1> QED BY <1>1, <1>3, <1>4, <1>5, <1>6, <1>7, <1>8, <1>9, <1>10, <1>11 DEF Shape, new, n

\* A frame that is over, but no transaction's.
LEMMA PopShape ==
    ASSUME NEW st, Shape(st), st[1].kind \notin {"user", "tf", "migrate"}
    PROVE  /\ Len(st) > 1 /\ Shape(Tail(st)) /\ (InTx(Tail(st)) <=> InTx(st))
           /\ InTx(st) => Tail(st)[Len(Tail(st)) - 1].kind = st[Len(st) - 1].kind
           /\ Tail(st)[1] = st[2] /\ st[2].kind # "panic"
           /\ st[1].kind # "panic" => st[2].s = st[1].s /\ st[2].kind # "migrate"
<1> DEFINE new == Tail(st)
           n == Len(st)
<1>1. n \in Nat /\ n > 1
  BY DEF Shape
<1>2. /\ new \in Seq(FrameType) /\ Len(new) = n - 1
      /\ \A i \in 1 .. n - 1 : new[i] = st[i + 1]
  BY <1>1, Popping DEF Shape
<1> HIDE DEF new, n
<1>3. /\ \A i \in 1 .. n - 1 : i + 1 \in 1 .. n /\ i + 1 \in 2 .. n
      /\ \A i \in 1 .. n - 2 : i + 1 \in 1 .. n - 1
      /\ \A i \in 1 .. n - 3 : i + 1 \in 1 .. n - 2
  BY <1>1
<1>4. InTx(st) => n > 2
  <2>1. n = 2 => st[n - 1] = st[1]
    OBVIOUS
  <2> QED BY <1>1, <2>1 DEF InTx, n
<1>5. (InTx(new) <=> InTx(st)) /\ (InTx(st) => new[Len(new) - 1].kind = st[n - 1].kind)
  <2>1. CASE n > 2
    <3>1. n - 2 \in 1 .. n - 1 /\ (n - 2) + 1 = n - 1 /\ (n - 1) - 1 = n - 2
      BY <1>1, <2>1
    <3>2. new[n - 2] = st[n - 1]
      BY <1>2, <3>1
    <3> QED BY <1>1, <1>2, <2>1, <3>1, <3>2 DEF InTx, n
  <2>2. CASE n = 2
    BY <1>2, <1>4, <2>2 DEF InTx, n
  <2> QED BY <1>1, <2>1, <2>2
<1>6. \A i \in 1 .. n - 1 : Proper(new[i])
  BY <1>2, <1>3 DEF Shape, n
<1>7. new[n - 1].kind = "user" /\ new[n - 1].s = "plain"
  BY <1>1, <1>2 DEF Shape, n
<1>8. \A i \in 1 .. n - 2 : new[i].kind # "user"
  <2>1. \A i \in 1 .. n - 2 : new[i] = st[i + 1]
    BY <1>1, <1>2
  <2> QED BY <1>3, <2>1 DEF Shape, n
<1>9. \A i \in 1 .. n - 3 : new[i].kind \notin {"tf", "migrate"}
  <2>1. \A i \in 1 .. n - 3 : new[i] = st[i + 1]
    BY <1>1, <1>2
  <2> QED BY <1>3, <2>1 DEF Shape, n
<1>10. \A i \in 1 .. n - 1 : new[i].kind # "panic"
  BY <1>2, <1>3 DEF Shape, n
<1>11. \A i \in 2 .. n - 1 : new[i].kind # "migrate"
  <2> SUFFICES ASSUME NEW i \in 2 .. n - 1
               PROVE  new[i].kind # "migrate"
    OBVIOUS
  <2>1. new[i] = st[i + 1] /\ i + 1 \in 2 .. n /\ i \in 2 .. n /\ (i + 1) - 1 = i
    BY <1>1, <1>2
  <2>2. st[i].kind # "panic"
    BY <2>1 DEF Shape, n
  <2> QED BY <2>1, <2>2 DEF Shape, n
<1>12. InTx(st) => \A i \in 1 .. n - 2 : new[i].s = "tx"
  <2>1. \A i \in 1 .. n - 2 : new[i] = st[i + 1]
    BY <1>1, <1>2
  <2> QED BY <1>3, <2>1 DEF Shape, n
<1>13. ~InTx(st) => \A i \in 1 .. n - 1 : new[i].s = "plain"
  BY <1>2, <1>3 DEF Shape, n
<1>14. new[1] = st[2] /\ 1 \in 1 .. n - 1 /\ 2 \in 2 .. n /\ 2 - 1 = 1
  BY <1>1, <1>2
<1>15. Shape(new)
  <2>1. \A i \in 2 .. n - 1 : i \in 1 .. n - 1
    BY <1>1
  <2> QED BY <1>1, <1>2, <1>5, <1>6, <1>7, <1>8, <1>9, <1>10, <1>11, <1>12, <1>13, <1>14,
             <2>1 DEF Shape, n
<1>16. ASSUME st[1].kind # "panic"
       PROVE  st[2].s = st[1].s /\ st[2].kind # "migrate"
  <2>1. CASE InTx(st)
    BY <1>1, <1>4, <1>14, <1>16, <2>1 DEF Shape, n
  <2>2. CASE ~InTx(st)
    <3>1. st[1].s \in Sessions
      <4>1. st[1] \in FrameType
        BY <1>1 DEF Shape, n
      <4> QED BY <4>1 DEF FrameType
    <3> QED BY <1>1, <1>14, <1>16, <2>2, <3>1 DEF Shape, n, Sessions
  <2> QED BY <2>1, <2>2
<1> QED BY <1>1, <1>5, <1>10, <1>14, <1>15, <1>16 DEF new, n

-----------------------------------------------------------------------------
(* What the frames know of their sessions' clauses. *)

\* A frame put on others.
LEMMA PushRest ==
    ASSUME NEW f \in FrameType, NEW t \in Seq(FrameType), NEW ses, Rest(t, ses),
           f.at = "into" => ses[f.s].model,
           Len(t) > 0 => Covers(f, t[1]) \/ Fits(t[1], ses)
    PROVE  Rest(<<f>> \o t, ses) /\ (<<f>> \o t)[1] = f
<1> DEFINE st == <<f>> \o t
           n == Len(t)
<1>1. /\ Len(st) = n + 1 /\ st[1] = f /\ n \in Nat
      /\ \A i \in 2 .. n + 1 : st[i] = t[i - 1]
  BY Pushing
<1> HIDE DEF st, n
<1>2. ASSUME NEW i \in 2 .. n + 1
      PROVE  Covers(st[i - 1], st[i]) \/ Fits(st[i], ses)
  <2>1. CASE i = 2
    <3>1. st[i] = t[1] /\ st[i - 1] = f /\ n > 0
      BY <1>1, <2>1
    <3> QED BY <3>1 DEF n
  <2>2. CASE i > 2
    <3>1. i - 1 \in 2 .. n /\ st[i] = t[i - 1] /\ st[i - 1] = t[(i - 1) - 1]
      BY <1>1, <2>2
    <3>2. Covers(t[(i - 1) - 1], t[i - 1]) \/ Fits(t[i - 1], ses)
      BY <3>1 DEF Rest, n
    <3> QED BY <3>1, <3>2
  <2> QED BY <2>1, <2>2
<1>3. ASSUME NEW i \in 1 .. n + 1, st[i].at = "into"
      PROVE  ses[st[i].s].model
  <2>1. CASE i = 1
    BY <1>1, <1>3, <2>1
  <2>2. CASE i > 1
    <3>1. i - 1 \in 1 .. n /\ st[i] = t[i - 1]
      BY <1>1, <2>2
    <3> QED BY <1>3, <3>1 DEF Rest, n
  <2> QED BY <2>1, <2>2
<1> QED BY <1>1, <1>2, <1>3 DEF Rest, st

LEMMA PushChained ==
    ASSUME NEW f \in FrameType, NEW t \in Seq(FrameType), NEW ses, Rest(t, ses),
           Fits(f, ses), f.at = "into" => ses[f.s].model,
           Len(t) > 0 => Covers(f, t[1]) \/ Fits(t[1], ses)
    PROVE  Chained(<<f>> \o t, ses)
BY PushRest DEF Chained

\* The frames below the first.
LEMMA PopRest ==
    ASSUME NEW st \in Seq(FrameType), Len(st) > 0, NEW ses, Rest(st, ses)
    PROVE  /\ Rest(Tail(st), ses)
           /\ Len(st) > 1 => Tail(st)[1] = st[2] /\ (Covers(st[1], st[2]) \/ Fits(st[2], ses))
<1> DEFINE t == Tail(st)
           n == Len(st)
<1>1. /\ Len(t) = n - 1 /\ n \in Nat /\ n > 0
      /\ \A i \in 1 .. n - 1 : t[i] = st[i + 1]
  BY Popping
<1> HIDE DEF t, n
<1>2. ASSUME NEW i \in 2 .. n - 1
      PROVE  Covers(t[i - 1], t[i]) \/ Fits(t[i], ses)
  <2>1. i + 1 \in 2 .. n /\ t[i] = st[i + 1] /\ t[i - 1] = st[(i + 1) - 1]
    BY <1>1
  <2>2. Covers(st[(i + 1) - 1], st[i + 1]) \/ Fits(st[i + 1], ses)
    BY <2>1 DEF Rest, n
  <2> QED BY <2>1, <2>2
<1>3. ASSUME NEW i \in 1 .. n - 1, t[i].at = "into"
      PROVE  ses[t[i].s].model
  <2>1. i + 1 \in 1 .. n /\ t[i] = st[i + 1]
    BY <1>1
  <2> QED BY <1>3, <2>1 DEF Rest, n
<1>4. n > 1 => t[1] = st[2] /\ (Covers(st[1], st[2]) \/ Fits(st[2], ses))
  <2>1. n > 1 => 2 \in 2 .. n /\ 2 - 1 = 1 /\ t[1] = st[2]
    BY <1>1
  <2> QED BY <2>1 DEF Rest, n
<1> QED BY <1>1, <1>2, <1>3, <1>4 DEF Rest, t, n

\* Frames and sessions that change without any frame becoming wrong.
Carried(t2, ses2, t, ses) ==
    /\ Len(t2) = Len(t)
    /\ \A i \in 1 .. Len(t) :
          /\ t2[i].kind = t[i].kind /\ t2[i].s = t[i].s /\ t2[i].at = t[i].at
          /\ Fits(t[i], ses) => Fits(t2[i], ses2)
          /\ ses[t[i].s].model => ses2[t[i].s].model

LEMMA CarriedRest ==
    ASSUME NEW t \in Seq(FrameType), NEW t2, NEW ses, NEW ses2,
           Carried(t2, ses2, t, ses), Rest(t, ses)
    PROVE  Rest(t2, ses2)
<1> DEFINE n == Len(t)
<1>1. /\ n \in Nat /\ Len(t2) = n
      /\ \A i \in 1 .. n :
          /\ t2[i].kind = t[i].kind /\ t2[i].s = t[i].s /\ t2[i].at = t[i].at
          /\ Fits(t[i], ses) => Fits(t2[i], ses2)
          /\ ses[t[i].s].model => ses2[t[i].s].model
  BY DEF Carried
<1> HIDE DEF n
<1>2. ASSUME NEW i \in 2 .. n
      PROVE  Covers(t2[i - 1], t2[i]) \/ Fits(t2[i], ses2)
  <2>1. i \in 1 .. n /\ i - 1 \in 1 .. n
    BY <1>1
  <2>2. Covers(t[i - 1], t[i]) \/ Fits(t[i], ses)
    BY DEF Rest, n
  <2>3. Covers(t[i - 1], t[i]) => Covers(t2[i - 1], t2[i])
    BY <1>1, <2>1 DEF Covers
  <2> QED BY <1>1, <2>1, <2>2, <2>3
<1>3. \A i \in 1 .. n : t2[i].at = "into" => ses2[t2[i].s].model
  BY <1>1 DEF Rest, n
<1> QED BY <1>1, <1>2, <1>3 DEF Rest

\* Frames whose meddled alone may differ.
SameFrames(t2, t) ==
    /\ t2 \in Seq(FrameType) /\ Len(t2) = Len(t)
    /\ \A i \in 1 .. Len(t) :
          /\ t2[i].kind = t[i].kind /\ t2[i].s = t[i].s /\ t2[i].at = t[i].at
          /\ t2[i].arg = t[i].arg /\ t2[i].chain = t[i].chain

\* Where a clause is set for s, all that disturbs the other frames of s is known
\* to them; those of the other session notice nothing.
LEMMA DisturbedFrames ==
    ASSUME NEW t \in Seq(FrameType), NEW s \in Sessions, NEW ses, NEW ses2,
           \A z \in Sessions : z # s => ses2[z].clause = ses[z].clause,
           \A z \in Sessions : ses[z].model => ses2[z].model
    PROVE  LET t2 == Disturbed(t, s)
           IN /\ SameFrames(t2, t) /\ Carried(t2, ses2, t, ses)
              /\ \A i \in 1 .. Len(t) : t2[i].s = s => Fits(t2[i], ses2)
<1> DEFINE t2 == Disturbed(t, s)
           n == Len(t)
<1>1. /\ n \in Nat /\ DOMAIN t = 1 .. n /\ \A i \in 1 .. n : t[i] \in FrameType
  OBVIOUS
<1>2. t2 = [i \in 1 .. n |-> [t[i] EXCEPT !.meddled = @ \/ t[i].s = s]]
  BY <1>1 DEF Disturbed
<1> HIDE DEF t2, n
<1>3. ASSUME NEW i \in 1 .. n
      PROVE  /\ t2[i] \in FrameType
             /\ t2[i].kind = t[i].kind /\ t2[i].s = t[i].s /\ t2[i].at = t[i].at
             /\ t2[i].arg = t[i].arg /\ t2[i].chain = t[i].chain
             /\ t2[i].meddled <=> (t[i].meddled \/ t[i].s = s)
             /\ t[i].s \in Sessions
  <2>1. t[i] \in FrameType
    BY <1>1
  <2>2. t2[i] = [t[i] EXCEPT !.meddled = @ \/ t[i].s = s]
    BY <1>2
  <2> QED BY <2>1, <2>2 DEF FrameType
<1>4. t2 \in Seq(FrameType) /\ Len(t2) = n
  <2>1. t2 \in [1 .. n -> FrameType]
    <3>1. t2 = [i \in 1 .. n |-> t2[i]]
      BY <1>2
    <3> QED BY <1>3, <3>1
  <2> QED BY <1>1, <2>1
<1>5. \A i \in 1 .. n : /\ t2[i].s = s => Fits(t2[i], ses2)
                        /\ Fits(t[i], ses) => Fits(t2[i], ses2)
  BY <1>3 DEF Fits
<1> QED BY <1>3, <1>4, <1>5 DEF SameFrames, Carried, t2, n

\* The same where they are cleared.
LEMMA WipedFrames ==
    ASSUME NEW t \in Seq(FrameType), NEW s \in Sessions, NEW ses, NEW ses2,
           \A z \in Sessions : z # s => ses2[z].clause = ses[z].clause,
           ses2[s].clause = Empty,
           \A z \in Sessions : ses[z].model => ses2[z].model
    PROVE  LET t2 == Wiped(t, s)
           IN /\ SameFrames(t2, t) /\ Carried(t2, ses2, t, ses)
              /\ \A i \in 1 .. Len(t) : t2[i].s = s => Fits(t2[i], ses2)
<1> DEFINE t2 == Wiped(t, s)
           n == Len(t)
           now(i) == IF t[i].s = s THEN t[i].chain # Empty ELSE t[i].meddled
<1>1. /\ n \in Nat /\ DOMAIN t = 1 .. n /\ \A i \in 1 .. n : t[i] \in FrameType
  OBVIOUS
<1>2. t2 = [i \in 1 .. n |-> [t[i] EXCEPT !.meddled = now(i)]]
  BY <1>1 DEF Wiped
<1> HIDE DEF t2, n
<1>3. ASSUME NEW i \in 1 .. n
      PROVE  /\ t2[i] \in FrameType
             /\ t2[i].kind = t[i].kind /\ t2[i].s = t[i].s /\ t2[i].at = t[i].at
             /\ t2[i].arg = t[i].arg /\ t2[i].chain = t[i].chain
             /\ t2[i].meddled <=> now(i)
             /\ t[i].s \in Sessions
  <2>1. t[i] \in FrameType
    BY <1>1
  <2>2. t2[i] = [t[i] EXCEPT !.meddled = now(i)] /\ now(i) \in BOOLEAN
    BY <1>2, <2>1 DEF FrameType
  <2> HIDE DEF now
  <2> QED BY <2>1, <2>2 DEF FrameType
<1>4. t2 \in Seq(FrameType) /\ Len(t2) = n
  <2>1. t2 \in [1 .. n -> FrameType]
    <3>1. t2 = [i \in 1 .. n |-> t2[i]]
      BY <1>2
    <3> QED BY <1>3, <3>1
  <2> QED BY <1>1, <2>1
<1>5. \A i \in 1 .. n : /\ t2[i].s = s => Fits(t2[i], ses2)
                        /\ Fits(t[i], ses) => Fits(t2[i], ses2)
  BY <1>3 DEF Fits
<1> QED BY <1>3, <1>4, <1>5 DEF SameFrames, Carried, t2, n

-----------------------------------------------------------------------------
(* Steps of the stack. *)

\* A stack that has its shape, and the transaction of the old one.
Fine(st, old) ==
    /\ Shape(st) /\ (InTx(st) <=> InTx(old))
    /\ InTx(old) => st[Len(st) - 1].kind = old[Len(old) - 1].kind

LEMMA FineTwice ==
    ASSUME NEW a, NEW b, NEW c, Fine(a, b), Fine(b, c)
    PROVE  Fine(a, c)
BY DEF Fine

\* Frames below the top that are the same but for meddled, and a new top that
\* continues the old one.
LEMMA SwapFine ==
    ASSUME NEW st, Shape(st), NEW t2, SameFrames(t2, Tail(st)),
           NEW f \in FrameType, Proper(f), f.kind = st[1].kind, f.s = st[1].s
    PROVE  Fine(<<f>> \o t2, st)
<1> DEFINE new == <<f>> \o t2
           n == Len(st)
<1>1. /\ n \in Nat /\ n > 0 /\ Tail(st) \in Seq(FrameType) /\ Len(Tail(st)) = n - 1
      /\ \A i \in 1 .. n - 1 : Tail(st)[i] = st[i + 1]
  BY Popping DEF Shape
<1>2. /\ new \in Seq(FrameType) /\ Len(new) = n /\ new[1] = f
      /\ \A i \in 2 .. n : new[i] = t2[i - 1]
  <2>1. t2 \in Seq(FrameType) /\ Len(t2) = n - 1
    BY <1>1 DEF SameFrames
  <2> HIDE DEF n
  <2> QED BY <1>1, <2>1, Pushing
<1> HIDE DEF new
<1>3. ASSUME NEW i \in 1 .. n
      PROVE  new[i].kind = st[i].kind /\ new[i].s = st[i].s /\ Proper(new[i])
  <2>1. CASE i = 1
    BY <1>2, <2>1
  <2>2. CASE i > 1
    <3>1. i - 1 \in 1 .. n - 1 /\ new[i] = t2[i - 1] /\ Tail(st)[i - 1] = st[i]
      <4> HIDE DEF n
      <4> QED BY <1>1, <1>2, <2>2
    <3>2. /\ t2[i - 1].kind = st[i].kind /\ t2[i - 1].s = st[i].s /\ t2[i - 1].at = st[i].at
          /\ t2[i - 1].arg = st[i].arg
      BY <1>1, <3>1 DEF SameFrames
    <3>3. Proper(st[i])
      BY DEF Shape
    <3> QED BY <3>1, <3>2, <3>3 DEF Proper
  <2> QED BY <2>1, <2>2
<1>4. Alike(new, st)
  BY <1>2, <1>3 DEF Alike
<1>5. /\ Shape(new) /\ (InTx(new) <=> InTx(st))
      /\ InTx(st) => new[Len(new) - 1].kind = st[Len(st) - 1].kind
  BY <1>4, AlikeShape, Zenon
<1> QED BY <1>5 DEF Fine, new

\* Frames that are the same but for meddled, the top included.
LEMMA SameFine ==
    ASSUME NEW st, Shape(st), NEW t2, SameFrames(t2, st)
    PROVE  Fine(t2, st)
<1>1. ASSUME NEW i \in 1 .. Len(t2)
      PROVE  t2[i].kind = st[i].kind /\ t2[i].s = st[i].s /\ Proper(t2[i])
  <2>1. Proper(st[i])
    BY DEF Shape, SameFrames
  <2> QED BY <2>1 DEF Proper, SameFrames
<1>2. Alike(t2, st)
  BY <1>1 DEF Alike, SameFrames
<1>3. /\ Shape(t2) /\ (InTx(t2) <=> InTx(st))
      /\ InTx(st) => t2[Len(t2) - 1].kind = st[Len(st) - 1].kind
  BY <1>2, AlikeShape, Zenon
<1> QED BY <1>3 DEF Fine

\* What a frame at the top may rely on.
LEMMA TopFrame ==
    ASSUME Shape(stack)
    PROVE  /\ stack \in Seq(FrameType) /\ Len(stack) > 0 /\ Top \in FrameType /\ Proper(Top)
           /\ Top = stack[1] /\ Top.s \in Sessions /\ Top.chain \in Clauses
           /\ Below \in Seq(FrameType) /\ Len(Below) = Len(stack) - 1
           /\ \A i \in 1 .. Len(Below) : Below[i] = stack[i + 1]
<1>1. stack \in Seq(FrameType) /\ Len(stack) > 0 /\ Proper(stack[1])
  BY DEF Shape
<1>2. stack[1] \in FrameType
  BY <1>1
<1>3. stack[1].s \in Sessions /\ stack[1].chain \in Clauses
  BY <1>2 DEF FrameType
<1> QED BY <1>1, <1>2, <1>3, Popping DEF Top, Below

\* In a panic the frames stay to be unwound, covered by it.
LEMMA RaiseFine ==
    ASSUME Shape(stack), Chained(stack, sess), Raise, Top.kind # "panic"
    PROVE  Fine(stack', stack) /\ Chained(stack', sess) /\ stack'[1].kind = "panic"
<1> DEFINE f == Frame("panic", Top.s, "", {})
<1>1. /\ f \in FrameType /\ f.kind = "panic" /\ f.s = Top.s /\ f.at = ""
  <2>1. {} \in (SUBSET Keys) \cup Values \cup Marks \cup Differences
    OBVIOUS
  <2>2. Top.s \in Sessions
    BY TopFrame, Zenon
  <2> HIDE DEF f
  <2>3. "panic" \in Operations \cup Code \cup {"migrate", "panic"} /\ "" \in Places
    BY DEF Places
  <2>4. Frame("panic", Top.s, "", {}) \in FrameType
    BY <2>1, <2>2, <2>3, FrameMade, Zenon
  <2> QED BY <2>4 DEF f, Frame
<1>2. stack' = <<f>> \o stack
  BY DEF Raise
<1> HIDE DEF f
<1>3. Proper(f) /\ Fits(f, sess) /\ Covers(f, stack[1])
  BY <1>1, TopFrame DEF Proper, Phases, Pending, Fits, Covers
<1>4. Fine(stack', stack)
  BY <1>1, <1>2, <1>3, PushShape, TopFrame DEF Fine
<1>5. Chained(stack', sess)
  BY <1>1, <1>2, <1>3, PushChained, TopFrame DEF Chained
<1>6. stack'[1] = f
  BY <1>1, <1>2, Pushing, TopFrame
<1> QED BY <1>1, <1>4, <1>5, <1>6

\* The outcome of a step of a session, as far as the stack goes.
Shifted ==
    Fine(stack', stack) /\ Chained(stack', sess') /\ stack'[1].kind # "migrate"

\* What a step may do to the sessions when no clause matters.
SameClauses(ses2, ses) ==
    \A z \in Sessions : /\ ses2[z].clause = ses[z].clause
                        /\ ses[z].model => ses2[z].model

LEMMA SameClausesChained ==
    ASSUME NEW st, Shape(st), NEW ses, NEW ses2, SameClauses(ses2, ses), Chained(st, ses)
    PROVE  Chained(st, ses2)
<1>1. st \in Seq(FrameType) /\ Len(st) > 0
  BY DEF Shape
<1>2. ASSUME NEW i \in 1 .. Len(st)
      PROVE  /\ Fits(st[i], ses) => Fits(st[i], ses2)
             /\ ses[st[i].s].model => ses2[st[i].s].model
  <2>1. st[i] \in FrameType
    BY <1>1
  <2>2. st[i].s \in Sessions
    BY <2>1 DEF FrameType
  <2> QED BY <2>2 DEF Fits, SameClauses
<1>3. Carried(st, ses2, st, ses)
  BY <1>2 DEF Carried
<1>4. Rest(st, ses2)
  BY <1>1, <1>3, CarriedRest DEF Chained
<1> QED BY <1>1, <1>2, <1>4 DEF Chained

\* A hook is called over frames, or is not there, or cannot be.
LEMMA HookShifted ==
    ASSUME Shape(stack), Chained(stack, sess), Top.kind \notin {"panic", "migrate"},
           NEW name \in HookNames, NEW frames, Fine(frames, stack),
           Here.model => Chained(frames, sess'),
           frames[1].kind \notin {"panic", "migrate"}, frames[1].s = Top.s,
           Here.model \/ sess' = sess, CallMethod(name, frames)
    PROVE  Shifted
<1>1. CASE ~Here.model
  <2>1. Raise /\ sess' = sess
    BY <1>1 DEF CallMethod
  <2>2. Fine(stack', stack) /\ Chained(stack', sess) /\ stack'[1].kind = "panic"
    BY <2>1, RaiseFine, Zenon
  <2> QED BY <2>1, <2>2 DEF Shifted
<1>2. CASE Here.model /\ name \notin Hooks
  <2>1. stack' = frames
    BY <1>2 DEF CallMethod
  <2> QED BY <1>2, <2>1 DEF Shifted
<1>3. CASE Here.model /\ name \in Hooks
  <2> DEFINE plain == Frame("hook", Top.s, name, {})
             hook == [plain EXCEPT !.meddled = frames[1].meddled \/ frames[1].chain # Empty]
  <2>1. stack' = <<hook>> \o frames
    BY <1>3 DEF CallMethod
  <2>2. /\ plain \in FrameType /\ plain.kind = "hook" /\ plain.s = Top.s /\ plain.at = name
        /\ plain.chain = Empty
    <3>1. {} \in (SUBSET Keys) \cup Values \cup Marks \cup Differences
      OBVIOUS
    <3>2. "hook" \in Operations \cup Code \cup {"migrate", "panic"} /\ name \in Places
      BY DEF Code, Places
    <3>3. Top.s \in Sessions
      BY TopFrame, Zenon
    <3>4. plain \in FrameType
      BY <3>1, <3>2, <3>3, FrameMade, Zenon
    <3> HIDE DEF hook
    <3> QED BY <3>4 DEF Frame
  <2>3. frames \in Seq(FrameType) /\ Len(frames) > 0 /\ frames[1] \in FrameType
    <3>1. Shape(frames)
      BY DEF Fine
    <3> QED BY <3>1 DEF Shape
  <2> HIDE DEF plain
  <2>4. /\ hook \in FrameType /\ hook.kind = "hook" /\ hook.s = Top.s /\ hook.at = name
        /\ hook.chain = Empty
        /\ hook.meddled <=> (frames[1].meddled \/ frames[1].chain # Empty)
    <3>1. (frames[1].meddled \/ frames[1].chain # Empty) \in BOOLEAN
      BY <2>3 DEF FrameType
    <3> QED BY <2>2, <3>1 DEF FrameType
  <2> HIDE DEF hook
  <2>5. Proper(hook) /\ hook.at # "into"
    BY <2>4 DEF Proper, Phases, Pending, HookNames
  <2>6. Fits(frames[1], sess') /\ Rest(frames, sess')
    BY <1>3 DEF Chained
  <2>7. Fits(hook, sess')
    BY <2>4, <2>6 DEF Fits
  <2>8. Chained(stack', sess')
    BY <2>1, <2>3, <2>4, <2>5, <2>6, <2>7, PushChained
  <2>9. Fine(stack', frames)
    <3>1. Shape(frames)
      BY DEF Fine
    <3> QED BY <2>1, <2>4, <2>5, <3>1, PushShape DEF Fine
  <2>10. stack'[1] = hook
    BY <2>1, <2>3, <2>4, Pushing
  <2>11. Fine(stack', stack)
    BY <2>9, FineTwice
  <2> QED BY <2>4, <2>8, <2>10, <2>11 DEF Shifted
<1> QED BY <1>1, <1>2, <1>3

\* The frame at the top is over.
LEMMA PopKnown ==
    ASSUME Shape(stack), Chained(stack, sess),
           Top.kind \notin {"user", "tf", "migrate", "panic"}, Top.at \notin Pending
    PROVE  /\ Fine(Below, stack) /\ Chained(Below, sess) /\ Len(stack) > 1
           /\ Below[1].kind \notin {"panic", "migrate"} /\ Below[1].s = Top.s
<1>1. /\ Len(stack) > 1 /\ Shape(Below) /\ (InTx(Below) <=> InTx(stack))
      /\ InTx(stack) => Below[Len(Below) - 1].kind = stack[Len(stack) - 1].kind
      /\ Below[1] = stack[2] /\ stack[2].kind # "panic" /\ stack[2].kind # "migrate"
      /\ stack[2].s = stack[1].s /\ Top = stack[1] /\ stack \in Seq(FrameType)
  BY PopShape, TopFrame DEF Top, Below
<1>2. Fine(Below, stack)
  BY <1>1 DEF Fine
<1>3. Rest(Below, sess) /\ (Covers(stack[1], stack[2]) \/ Fits(stack[2], sess))
  BY <1>1, PopRest DEF Chained, Below
<1>4. ~Covers(stack[1], stack[2])
  BY <1>1 DEF Covers
<1> QED BY <1>1, <1>2, <1>3, <1>4 DEF Chained

LEMMA PopShifted ==
    ASSUME Shape(stack), Chained(stack, sess), stack' = Below,
           Top.kind \notin {"user", "tf", "migrate", "panic"}, Top.at \notin Pending,
           SameClauses(sess', sess)
    PROVE  Shifted /\ Len(stack) > 1
<1>1. /\ Fine(Below, stack) /\ Chained(Below, sess) /\ Len(stack) > 1
      /\ Below[1].kind \notin {"panic", "migrate"}
  BY PopKnown
<1>2. Chained(Below, sess')
  BY <1>1, SameClausesChained DEF Fine
<1> QED BY <1>1, <1>2 DEF Shifted

-----------------------------------------------------------------------------
(* The steps of a session. *)

SessTyped == sess \in [Sessions -> SessionType]

\* Code calls from the top, and is in no phase.
LEMMA CodeTop ==
    ASSUME Shape(stack), Top.kind \in Code
    PROVE  Top.at \notin Phases /\ Top.kind \notin {"panic", "migrate"}
BY TopFrame DEF Proper, Code, Operations

\* A clause set in the session at the top.
LEMMA ClauseSet ==
    ASSUME Shape(stack), SessTyped, NEW clause \in Clauses,
           sess' = [sess EXCEPT ![Top.s].clause = clause]
    PROVE  /\ sess'[Top.s].clause = clause
           /\ \A z \in Sessions : /\ z # Top.s => sess'[z].clause = sess[z].clause
                                  /\ sess'[z].model = sess[z].model
                                  /\ sess'[z].tx = sess[z].tx
           /\ SessTyped'
BY TopFrame DEF SessTyped, SessionType

LEMMA ModelShifted ==
    ASSUME Shape(stack), Chained(stack, sess), SessTyped, Model
    PROVE  Shifted
<1>1. Top.s \in Sessions /\ Top = stack[1] /\ stack' = stack
      /\ sess' = [sess EXCEPT ![Top.s].model = TRUE]
      /\ Top.kind \notin {"panic", "migrate"}
  BY TopFrame, CodeTop DEF Model, Issue
<1>2. SameClauses(sess', sess)
  BY <1>1 DEF SameClauses, SessTyped, SessionType
<1>3. Chained(stack, sess')
  BY <1>2, SameClausesChained
<1> QED BY <1>1, <1>3 DEF Shifted, Fine

LEMMA ChainShifted ==
    ASSUME Shape(stack), Chained(stack, sess), SessTyped,
           NEW t \in Types, NEW value \in Wheres \cup {NoClause, 1}, Chain(t, value)
    PROVE  Shifted
<1> DEFINE f == [Top EXCEPT !.chain = Set(@, t, value)]
           frames == Disturbed(Below, Top.s)
<1>1. /\ Top \in FrameType /\ Proper(Top) /\ Top = stack[1] /\ Top.s \in Sessions
      /\ Below \in Seq(FrameType) /\ Len(Below) = Len(stack) - 1 /\ Below = Tail(stack)
      /\ Top.kind \notin {"panic", "migrate"} /\ Top.at \notin Phases
      /\ Here \in SessionType
  BY TopFrame, CodeTop DEF Chain, Issue, Below, Here, SessTyped
<1>2. stack' = <<f>> \o frames /\ sess' = [sess EXCEPT ![Top.s].clause = Set(@, t, value)]
  BY DEF Chain
<1>3. Set(Here.clause, t, value) \in Clauses /\ Set(Top.chain, t, value) \in Clauses
  BY <1>1 DEF SessionType, FrameType, Clauses, Set
<1>4. /\ sess'[Top.s].clause = Set(Here.clause, t, value)
      /\ \A z \in Sessions : /\ z # Top.s => sess'[z].clause = sess[z].clause
                             /\ sess'[z].model = sess[z].model
  BY <1>2, <1>3, ClauseSet DEF Here
<1>5. /\ f \in FrameType /\ f.kind = Top.kind /\ f.s = Top.s /\ f.at = Top.at /\ f.arg = Top.arg
      /\ f.chain = Set(Top.chain, t, value) /\ f.meddled = Top.meddled
  BY <1>1, <1>3 DEF FrameType
<1> HIDE DEF f
<1>6. Proper(f) /\ f.at # "into"
  BY <1>1, <1>5 DEF Proper, Phases, Pending
<1>7. Fits(f, sess')
  <2>1. Fits(Top, sess)
    BY <1>1 DEF Chained
  <2> QED BY <1>1, <1>4, <1>5, <2>1 DEF Fits, Here
<1>8. SameFrames(frames, Below) /\ Carried(frames, sess', Below, sess)
  BY <1>1, <1>4, DisturbedFrames
<1>9. Rest(Below, sess) /\ (Len(stack) > 1 => Covers(stack[1], stack[2]) \/ Fits(stack[2], sess))
      /\ (Len(stack) > 1 => Below[1] = stack[2])
  BY <1>1, PopRest DEF Chained, Shape
<1>10. Rest(frames, sess')
  BY <1>1, <1>8, <1>9, CarriedRest
<1>11. ~Covers(stack[1], stack[2])
  BY <1>1 DEF Covers, Phases
<1>12. Len(frames) > 0 => Fits(frames[1], sess')
  <2>1. Len(frames) = Len(Below)
    BY <1>8 DEF SameFrames
  <2>2. Len(stack) \in Nat
    BY DEF Shape
  <2> HIDE DEF frames
  <2>3. Len(frames) > 0 => Len(stack) > 1 /\ 1 \in 1 .. Len(Below)
    BY <1>1, <2>1, <2>2
  <2> QED BY <1>8, <1>9, <1>11, <2>3 DEF Carried
<1>13. Chained(stack', sess')
  <2>1. frames \in Seq(FrameType)
    BY <1>8 DEF SameFrames
  <2> HIDE DEF frames
  <2> QED BY <1>2, <1>5, <1>6, <1>7, <1>10, <1>12, <2>1, PushChained
<1>14. Fine(stack', stack)
  BY <1>1, <1>2, <1>5, <1>6, <1>8, SwapFine
<1>15. stack'[1] = f
  BY <1>2, <1>5, <1>8, Pushing DEF SameFrames
<1> QED BY <1>1, <1>5, <1>13, <1>14, <1>15 DEF Shifted

\* Below a frame that is no operation about to clear the clauses, all is known.
LEMMA BelowCarried ==
    ASSUME Shape(stack), Chained(stack, sess), Top.at \notin Pending, Top.kind # "panic",
           NEW t2, NEW ses2, Carried(t2, ses2, Below, sess)
    PROVE  Rest(t2, ses2) /\ (Len(t2) > 0 => Fits(t2[1], ses2))
<1>1. /\ stack \in Seq(FrameType) /\ Len(stack) > 0 /\ Top = stack[1] /\ Below = Tail(stack)
      /\ Below \in Seq(FrameType) /\ Len(Below) = Len(stack) - 1 /\ Len(stack) \in Nat
  BY TopFrame DEF Below
<1>2. /\ Rest(Below, sess)
      /\ Len(stack) > 1 => Below[1] = stack[2] /\ (Covers(stack[1], stack[2]) \/ Fits(stack[2], sess))
  BY <1>1, PopRest DEF Chained
<1>3. ~Covers(stack[1], stack[2])
  BY <1>1 DEF Covers
<1>4. Len(t2) > 0 => Len(stack) > 1 /\ 1 \in 1 .. Len(Below)
  BY <1>1 DEF Carried
<1>5. Len(t2) > 0 => Fits(t2[1], ses2)
  BY <1>2, <1>3, <1>4 DEF Carried
<1>6. Rest(t2, ses2)
  BY <1>1, <1>2, CarriedRest
<1> QED BY <1>5, <1>6

\* What an operation of this kind may be called with.
Argument(kind, arg) ==
    CASE kind = "insert" -> arg \in SUBSET Keys
      [] kind = "update" -> arg \in Values
      [] OTHER -> arg = {}

LEMMA CallShifted ==
    ASSUME Shape(stack), Chained(stack, sess), SessTyped,
           NEW kind \in Operations, NEW arg, Argument(kind, arg), Call(kind, arg)
    PROVE  Shifted
<1> DEFINE limit(c) == IF kind = "first" THEN Set(c, "LIMIT", 1) ELSE c
           at == IF kind \in {"insert", "find", "first", "update", "delete"}
                 THEN "before" ELSE "run"
           plain == Frame(kind, Top.s, at, arg)
           op == [plain EXCEPT !.chain = limit(Top.chain), !.meddled = Top.meddled]
           code == [Top EXCEPT !.chain = Empty, !.meddled = FALSE]
           rest == IF kind = "first" THEN Disturbed(Below, Top.s) ELSE Below
           st == <<code>> \o rest
<1>1. /\ Top \in FrameType /\ Proper(Top) /\ Top = stack[1] /\ Top.s \in Sessions
      /\ Below \in Seq(FrameType) /\ Len(Below) = Len(stack) - 1 /\ Below = Tail(stack)
      /\ Top.kind \notin {"panic", "migrate"} /\ Top.at \notin Phases
      /\ Here \in SessionType
  BY TopFrame, CodeTop DEF Call, Issue, Below, Here, SessTyped
<1>2. stack' = <<op, code>> \o rest /\ sess' = [sess EXCEPT ![Top.s].clause = limit(@)]
  BY DEF Call
<1>3. limit(Here.clause) \in Clauses /\ limit(Top.chain) \in Clauses
  <2>1. Here.clause \in Clauses /\ Top.chain \in Clauses
    BY <1>1 DEF SessionType, FrameType
  <2> QED BY <2>1 DEF Clauses, Set, Types
<1>4. /\ sess'[Top.s].clause = limit(Here.clause)
      /\ \A z \in Sessions : /\ z # Top.s => sess'[z].clause = sess[z].clause
                             /\ sess'[z].model = sess[z].model
  BY <1>2, <1>3, ClauseSet DEF Here
<1>5. /\ plain \in FrameType /\ plain.kind = kind /\ plain.s = Top.s /\ plain.at = at
      /\ plain.arg = arg
  <2>1. at \in {"before", "run"} /\ at \in Places
    BY DEF Places, Phases, Pending
  <2>2. arg \in SUBSET Keys \/ arg \in Values
    <3>1. CASE kind = "insert"
      BY <3>1 DEF Argument
    <3>2. CASE kind = "update"
      BY <3>2 DEF Argument
    <3>3. CASE kind \notin {"insert", "update"}
      <4>1. arg = {}
        BY <3>3 DEF Argument
      <4> QED BY <4>1
    <3> QED BY <3>1, <3>2, <3>3
  <2>3. /\ kind \in Operations \cup Code \cup {"migrate", "panic"}
        /\ arg \in (SUBSET Keys) \cup Values \cup Marks \cup Differences
    BY <2>2
  <2> HIDE DEF at
  <2>4. plain \in FrameType
    BY <1>1, <2>1, <2>3, FrameMade, Zenon
  <2> QED BY <2>4 DEF Frame
<1> HIDE DEF plain
<1>6. /\ op \in FrameType /\ op.kind = kind /\ op.s = Top.s /\ op.at = at /\ op.arg = arg
      /\ op.chain = limit(Top.chain) /\ op.meddled = Top.meddled
  <2>1. Top.meddled \in BOOLEAN
    BY <1>1 DEF FrameType
  <2> HIDE DEF limit, at
  <2> QED BY <1>3, <1>5, <2>1 DEF FrameType
<1>7. /\ code \in FrameType /\ code.kind = Top.kind /\ code.s = Top.s /\ code.at = Top.at
      /\ code.arg = Top.arg
  <2>1. Empty \in Clauses
    BY DEF Empty, Clauses
  <2> QED BY <1>1, <2>1 DEF FrameType
<1> HIDE DEF op, code
<1>8. Proper(op) /\ op.at \in Pending /\ op.at # "into" /\ op.kind \notin {"panic", "migrate"}
      /\ op.kind \notin {"user", "tf", "migrate"}
  <2>1. op.at \in {"before", "run"} /\ kind \notin Code /\ kind \notin {"panic", "migrate"}
    BY <1>6 DEF Code, Operations
  <2>2. kind = "insert" => arg \in SUBSET Keys
    BY DEF Argument
  <2>3. kind = "update" => arg \in Values
    BY DEF Argument
  <2> QED BY <1>6, <2>1, <2>2, <2>3 DEF Proper, Pending, Code
<1>9. Proper(code) /\ code.at # "into" /\ code.kind \notin {"panic", "migrate"}
  BY <1>1, <1>7 DEF Proper, Phases, Pending
<1>10. Fits(op, sess')
  <2>1. Fits(Top, sess)
    BY <1>1 DEF Chained
  <2> HIDE DEF limit
  <2>2. ~Top.meddled => Top.chain = Here.clause
    BY <1>1, <2>1 DEF Fits, Here
  <2> QED BY <1>4, <1>6, <2>2 DEF Fits
<1>11. SameFrames(rest, Below) /\ Carried(rest, sess', Below, sess)
  <2>1. CASE kind = "first"
    BY <1>1, <1>4, <2>1, DisturbedFrames
  <2>2. CASE kind # "first"
    <3>1. \A z \in Sessions : sess'[z].clause = sess[z].clause
      BY <1>4, <2>2 DEF Here
    <3>2. \A i \in 1 .. Len(Below) : Below[i].s \in Sessions
      <4>1. \A i \in 1 .. Len(Below) : Below[i] \in FrameType
        BY <1>1
      <4> QED BY <4>1 DEF FrameType
    <3> QED BY <1>1, <1>4, <2>2, <3>1, <3>2 DEF SameFrames, Carried, Fits
  <2> QED BY <2>1, <2>2
<1> HIDE DEF rest
<1>12. Rest(rest, sess') /\ (Len(rest) > 0 => Fits(rest[1], sess'))
  BY <1>1, <1>11, BelowCarried DEF Phases
<1>13. rest \in Seq(FrameType)
  BY <1>11 DEF SameFrames
<1>14. Rest(st, sess') /\ st[1] = code
  BY <1>7, <1>9, <1>12, <1>13, PushRest
<1>15. Fine(st, stack)
  BY <1>1, <1>7, <1>9, <1>11, SwapFine
<1>16. st \in Seq(FrameType) /\ Len(st) > 0 /\ Shape(st)
  BY <1>15 DEF Fine, Shape
<1>17. stack' = <<op>> \o st
  <2>1. op \in FrameType /\ code \in FrameType
    BY <1>6, <1>7
  <2>2. <<op, code>> \o rest = <<op>> \o (<<code>> \o rest)
    BY <1>13, <2>1, PushTwo
  <2> QED BY <1>2, <2>2
<1> HIDE DEF st
<1>18. Chained(stack', sess')
  BY <1>6, <1>8, <1>10, <1>14, <1>16, <1>17, PushChained DEF Covers
<1>19. Fine(stack', st)
  BY <1>6, <1>7, <1>8, <1>9, <1>14, <1>16, <1>17, PushShape DEF Fine
<1>20. Fine(stack', stack) /\ stack'[1] = op
  BY <1>6, <1>15, <1>16, <1>17, <1>19, FineTwice, Pushing
<1> QED BY <1>8, <1>18, <1>20 DEF Shifted

LEMMA HookReturnsShifted ==
    ASSUME Shape(stack), Chained(stack, sess), HookReturns
    PROVE  Shifted
<1>1. Top.kind = "hook" /\ stack' = Below /\ sess' = sess
  BY DEF HookReturns
<1>2. Top.at \notin Pending
  BY <1>1, CodeTop DEF Code, Phases
<1>3. SameClauses(sess', sess)
  BY <1>1 DEF SameClauses
<1> QED BY <1>1, <1>2, <1>3, PopShifted

\* A panic is the session's in which it was raised.
LEMMA PanicSession ==
    ASSUME Shape(stack), Top.kind = "panic", Below[1].kind # "user"
    PROVE  Top.s = Below[1].s
<1> DEFINE n == Len(stack)
<1>1. Top = stack[1] /\ n \in Nat /\ n > 1 /\ Below[1] = stack[2] /\ Top.s \in Sessions
  <2>1. Top = stack[1] /\ Top.s \in Sessions /\ stack \in Seq(FrameType)
    BY TopFrame
  <2>2. n > 1 /\ Tail(stack)[1] = stack[2]
    BY <2>1, PopShape
  <2> QED BY <2>1, <2>2 DEF Below
<1>2. n > 2
  BY <1>1 DEF Shape
<1>3. CASE InTx(stack)
  BY <1>1, <1>2, <1>3 DEF Shape
<1>4. CASE ~InTx(stack)
  BY <1>1, <1>2, <1>4 DEF Shape, Sessions
<1> QED BY <1>3, <1>4

LEMMA UnwindShifted ==
    ASSUME Shape(stack), Chained(stack, sess), Unwind
    PROVE  Shifted
<1>1. /\ Top.kind = "panic" /\ sess' = sess /\ Top = stack[1] /\ Top.s \in Sessions
      /\ Top \in FrameType /\ Proper(Top) /\ Below = Tail(stack)
  BY TopFrame DEF Unwind, Below
<1>2. /\ Fine(Below, stack) /\ Shape(Below) /\ Below[1] = stack[2] /\ Below[1].kind # "panic"
      /\ Len(stack) > 1
  BY <1>1, PopShape DEF Fine
<1>3. Rest(Below, sess) /\ (Covers(Top, Below[1]) \/ Fits(Below[1], sess))
  <2>1. stack \in Seq(FrameType) /\ Rest(stack, sess)
    BY DEF Shape, Chained
  <2> QED BY <1>1, <1>2, <2>1, PopRest
<1>4. Below \in Seq(FrameType) /\ Len(Below) > 0 /\ Below[1] \in FrameType /\ Proper(Below[1])
  BY <1>2 DEF Shape
<1>5. CASE Below[1].kind \notin {"user", "tf", "migrate"} /\ stack' = <<Top>> \o Tail(Below)
  <2> DEFINE st == Tail(Below)
  <2>1. /\ Fine(st, Below) /\ Shape(st) /\ st[1] = Below[2] /\ Below[2].kind # "panic"
        /\ Below[2].s = Below[1].s /\ Len(Below) > 1
    BY <1>2, <1>5, PopShape DEF Fine
  <2>2. Top.s = st[1].s
    BY <1>1, <1>5, <2>1, PanicSession
  <2>3. Rest(st, sess) /\ st \in Seq(FrameType) /\ Len(st) > 0
    <3>1. Shape(st)
      BY <2>1
    <3> HIDE DEF st
    <3>2. Rest(Tail(Below), sess)
      BY <1>3, <1>4, PopRest
    <3> QED BY <3>1, <3>2 DEF Shape, st
  <2> HIDE DEF st
  <2>4. stack' = <<Top>> \o st
    BY <1>5 DEF st
  <2>5. Top.at # "into"
    BY <1>1 DEF Proper, Phases, Pending, Operations
  <2>6. Fits(Top, sess) /\ Covers(Top, st[1])
    BY <1>1, <2>2 DEF Fits, Covers
  <2>7. Chained(stack', sess')
    BY <1>1, <2>3, <2>4, <2>5, <2>6, PushChained
  <2>8. Fine(stack', st)
    BY <1>1, <2>1, <2>2, <2>4, PushShape DEF Fine
  <2>9. Fine(stack', Below)
    BY <2>1, <2>8, FineTwice
  <2>10. Fine(stack', stack) /\ stack'[1] = Top
    BY <1>1, <1>2, <2>3, <2>4, <2>9, FineTwice, Pushing
  <2> QED BY <1>1, <2>7, <2>10 DEF Shifted
<1>6. CASE Below[1].kind = "user" /\ stack' = Disturbed(Below, Top.s)
  <2>1. /\ SameFrames(stack', Below) /\ Carried(stack', sess', Below, sess)
        /\ \A i \in 1 .. Len(Below) : stack'[i].s = Top.s => Fits(stack'[i], sess')
    BY <1>1, <1>4, <1>6, DisturbedFrames
  <2>2. Fine(stack', Below)
    BY <1>2, <2>1, SameFine
  <2>3. Fine(stack', stack)
    BY <1>2, <2>2, FineTwice
  <2>4. Rest(stack', sess')
    BY <1>3, <1>4, <2>1, CarriedRest
  <2>5. 1 \in 1 .. Len(Below) /\ stack'[1].s = Below[1].s /\ stack'[1].kind = Below[1].kind
    BY <1>4, <2>1 DEF SameFrames
  <2>6. Fits(stack'[1], sess')
    <3>1. CASE Top.s = Below[1].s
      BY <2>1, <2>5, <3>1
    <3>2. CASE Top.s # Below[1].s
      <4>1. Top.at \notin Pending
        BY <1>1 DEF Proper, Phases, Operations
      <4>2. Fits(Below[1], sess)
        BY <1>3, <3>2, <4>1 DEF Covers
      <4> QED BY <2>1, <2>5, <4>2 DEF Carried
    <3> QED BY <3>1, <3>2
  <2> QED BY <1>6, <2>3, <2>4, <2>5, <2>6 DEF Shifted, Chained
<1> QED BY <1>5, <1>6 DEF Unwind

LEMMA ThrowShifted ==
    ASSUME Shape(stack), Chained(stack, sess), Throw
    PROVE  Shifted
<1>1. Top.kind # "panic" /\ Raise /\ sess' = sess
  BY DEF Throw
<1> QED BY <1>1, RaiseFine DEF Shifted

LEMMA BeforeShifted ==
    ASSUME Shape(stack), Chained(stack, sess), Before
    PROVE  Shifted
<1> DEFINE f(next) == [Top EXCEPT !.at = next]
<1>1. /\ Top.at = "before" /\ sess' = sess /\ Top = stack[1] /\ Top.s \in Sessions
      /\ Top \in FrameType /\ Proper(Top) /\ Below \in Seq(FrameType) /\ Below = Tail(stack)
      /\ Len(stack) > 0 /\ stack \in Seq(FrameType)
  BY TopFrame DEF Before, Below
<1>2. Top.kind \in Operations /\ Top.kind \notin {"panic", "migrate"}
  BY <1>1 DEF Proper, Phases, Pending, Operations
<1>3. SameFrames(Below, Below)
  BY <1>1 DEF SameFrames
<1>4. ASSUME NEW next \in {"into", "run"}, NEW name \in HookNames,
             CallMethod(name, Moved(next))
      PROVE  Shifted
  <2>1. /\ f(next) \in FrameType /\ f(next).kind = Top.kind /\ f(next).s = Top.s
        /\ f(next).at = next /\ f(next).arg = Top.arg /\ f(next).chain = Top.chain
        /\ f(next).meddled = Top.meddled
    <3>1. next \in Places
      BY DEF Places, Phases, Pending
    <3> QED BY <1>1, <3>1 DEF FrameType
  <2> DEFINE frames == <<f(next)>> \o Below
  <2>2. Moved(next) = frames
    BY DEF Moved
  <2> HIDE DEF f
  <2>3. Proper(f(next)) /\ f(next).at \in Pending
    BY <1>1, <2>1 DEF Proper, Phases, Pending
  <2>4. Fine(frames, stack)
    BY <1>1, <1>3, <2>1, <2>3, SwapFine
  <2>5. Here.model => Chained(frames, sess')
    <3>1. Rest(Below, sess) /\ Fits(Top, sess)
      BY <1>1, PopRest DEF Chained
    <3>2. Fits(f(next), sess) /\ \A g : Covers(f(next), g)
      BY <2>1, <2>3, <3>1 DEF Fits, Covers
    <3> HIDE DEF frames
    <3>3. Here.model => (f(next).at = "into" => sess[f(next).s].model)
      BY <2>1 DEF Here
    <3> QED BY <1>1, <2>1, <3>1, <3>2, <3>3, PushChained DEF frames
  <2>6. frames[1] = f(next)
    BY <1>1, <2>1, Pushing
  <2> HIDE DEF frames
  <2>7. /\ frames[1].kind \notin {"panic", "migrate"} /\ frames[1].s = Top.s
        /\ CallMethod(name, frames)
    BY <1>2, <1>4, <2>1, <2>2, <2>6
  <2> QED BY <1>1, <1>2, <2>4, <2>5, <2>7, HookShifted
<1>5. \E next \in {"into", "run"}, name \in HookNames : CallMethod(name, Moved(next))
  BY DEF Before, HookNames
<1> QED BY <1>4, <1>5

LEMMA IntoShifted ==
    ASSUME Shape(stack), Chained(stack, sess), SessTyped, Into
    PROVE  Shifted
<1> DEFINE f == [Top EXCEPT !.at = "run", !.chain = Set(@, "INSERT", 1)]
           rest == Disturbed(Below, Top.s)
           frames == <<f>> \o rest
<1>1. /\ Top.at = "into" /\ Top = stack[1] /\ Top.s \in Sessions
      /\ Top \in FrameType /\ Proper(Top) /\ Below \in Seq(FrameType) /\ Below = Tail(stack)
      /\ Len(stack) > 0 /\ stack \in Seq(FrameType) /\ Here \in SessionType
  BY TopFrame DEF Into, Below, SessTyped, Here
<1>2. Top.kind \in Operations /\ Top.kind \notin {"panic", "migrate"}
  BY <1>1 DEF Proper, Phases, Pending, Operations
<1>3. /\ sess' = [sess EXCEPT ![Top.s].clause = Set(@, "INSERT", 1)]
      /\ CallMethod("BeforeInsert", frames) \/ stack' = frames
  BY DEF Into
<1>4. Set(Here.clause, "INSERT", 1) \in Clauses /\ Set(Top.chain, "INSERT", 1) \in Clauses
  BY <1>1 DEF SessionType, FrameType, Clauses, Set, Types
<1>5. /\ sess'[Top.s].clause = Set(Here.clause, "INSERT", 1)
      /\ \A z \in Sessions : /\ z # Top.s => sess'[z].clause = sess[z].clause
                             /\ sess'[z].model = sess[z].model
  BY <1>3, <1>4, ClauseSet DEF Here
<1>6. /\ f \in FrameType /\ f.kind = Top.kind /\ f.s = Top.s /\ f.at = "run" /\ f.arg = Top.arg
      /\ f.chain = Set(Top.chain, "INSERT", 1) /\ f.meddled = Top.meddled
  <2>1. "run" \in Places
    BY DEF Places, Phases, Pending
  <2> QED BY <1>1, <1>4, <2>1 DEF FrameType
<1> HIDE DEF f
<1>7. Proper(f) /\ \A g : Covers(f, g)
  BY <1>1, <1>6 DEF Proper, Phases, Pending, Covers
<1>8. Fits(f, sess')
  <2>1. Fits(Top, sess)
    BY <1>1 DEF Chained
  <2> QED BY <1>2, <1>5, <1>6, <2>1 DEF Fits, Here
<1>9. SameFrames(rest, Below) /\ Carried(rest, sess', Below, sess)
  BY <1>1, <1>5, DisturbedFrames
<1>10. Rest(Below, sess)
  BY <1>1, PopRest DEF Chained
<1>11. Rest(rest, sess') /\ rest \in Seq(FrameType)
  BY <1>1, <1>9, <1>10, CarriedRest DEF SameFrames
<1>12. Fine(frames, stack)
  BY <1>1, <1>6, <1>7, <1>9, SwapFine
<1> HIDE DEF rest
<1>13. Chained(frames, sess') /\ frames[1] = f
  BY <1>6, <1>7, <1>8, <1>11, PushChained, Pushing
<1>14. Here.model
  BY <1>1 DEF Chained, Rest, Here
<1> HIDE DEF frames
<1>15. CASE stack' = frames
  BY <1>2, <1>6, <1>12, <1>13, <1>15 DEF Shifted
<1>16. CASE CallMethod("BeforeInsert", frames)
  <2>1. "BeforeInsert" \in HookNames
    BY DEF HookNames
  <2>2. frames[1].kind \notin {"panic", "migrate"} /\ frames[1].s = Top.s
    BY <1>2, <1>6, <1>13
  <2> QED BY <1>2, <1>12, <1>13, <1>14, <1>16, <2>1, <2>2, HookShifted
<1> QED BY <1>3, <1>15, <1>16

LEMMA AfterHookShifted ==
    ASSUME Shape(stack), Chained(stack, sess), AfterHook
    PROVE  Shifted
<1>1. /\ Top.at = "after" /\ sess' = sess
      /\ \E name \in HookNames : CallMethod(name, Below)
  BY DEF AfterHook, HookNames
<1>2. Top.kind \in Operations
  BY <1>1, TopFrame DEF Proper, Phases
<1>3. Top.kind \notin {"user", "tf", "migrate", "panic"} /\ Top.at \notin Pending
  BY <1>1, <1>2 DEF Operations, Pending
<1>4. /\ Fine(Below, stack) /\ Chained(Below, sess)
      /\ Below[1].kind \notin {"panic", "migrate"} /\ Below[1].s = Top.s
  BY <1>3, PopKnown
<1> QED BY <1>1, <1>3, <1>4, HookShifted

LEMMA RowsShifted ==
    ASSUME Shape(stack), Chained(stack, sess), Rows
    PROVE  Shifted
<1>1. /\ Top.at = "rows" /\ sess' = sess /\ Top = stack[1] /\ Top.s \in Sessions
      /\ Top \in FrameType /\ Proper(Top) /\ Below \in Seq(FrameType) /\ Below = Tail(stack)
      /\ Len(stack) > 0 /\ stack \in Seq(FrameType)
  BY TopFrame DEF Rows, Below
<1>2. Top.kind \in Operations /\ Top.arg \in Marks
  BY <1>1 DEF Proper, Phases
<1>3. Top.kind \notin {"user", "tf", "migrate", "panic"} /\ Top.at \notin Pending
  BY <1>1, <1>2 DEF Operations, Pending
<1>4. /\ Fine(Below, stack) /\ Chained(Below, sess) /\ Len(stack) > 1
      /\ Below[1].kind \notin {"panic", "migrate"} /\ Below[1].s = Top.s
  BY <1>3, PopKnown
<1>5. CASE stack' = Below
  BY <1>1, <1>4, <1>5 DEF Shifted
<1>6. ASSUME NEW k \in DOMAIN Top.arg,
             CallMethod("AfterQuery",
                <<[Top EXCEPT !.arg = [j \in DOMAIN Top.arg \ {k} |-> Top.arg[j]]]>> \o Below)
      PROVE  Shifted
  <2> DEFINE left == [j \in DOMAIN Top.arg \ {k} |-> Top.arg[j]]
             f == [Top EXCEPT !.arg = left]
             frames == <<f>> \o Below
  <2>1. left \in Marks
    <3>1. DOMAIN Top.arg \in SUBSET Keys /\ Top.arg \in [DOMAIN Top.arg -> BOOLEAN]
      BY <1>2, MarksAre
    <3>2. DOMAIN Top.arg \ {k} \in SUBSET Keys /\ left \in [DOMAIN Top.arg \ {k} -> BOOLEAN]
      BY <3>1
    <3> HIDE DEF left
    <3> QED BY <3>2, MarksAre
  <2> HIDE DEF left
  <2>2. /\ f \in FrameType /\ f.kind = Top.kind /\ f.s = Top.s /\ f.at = "rows"
        /\ f.arg = left /\ f.chain = Top.chain /\ f.meddled = Top.meddled
    BY <1>1, <2>1 DEF FrameType
  <2> HIDE DEF f
  <2>3. Proper(f) /\ f.at # "into"
    BY <1>2, <2>1, <2>2 DEF Proper, Phases, Pending
  <2>4. Fine(frames, stack)
    <3>1. SameFrames(Below, Below)
      BY <1>1 DEF SameFrames
    <3> QED BY <1>1, <2>2, <2>3, <3>1, SwapFine
  <2>5. Chained(frames, sess) /\ frames[1] = f
    <3>1. Fits(Top, sess)
      BY <1>1 DEF Chained
    <3>2. Fits(f, sess)
      BY <2>2, <3>1 DEF Fits
    <3>3. Rest(Below, sess) /\ Fits(Below[1], sess)
      BY <1>4 DEF Chained
    <3>4. Chained(frames, sess)
      BY <1>1, <2>2, <2>3, <3>2, <3>3, PushChained
    <3> QED BY <1>1, <2>2, <3>4, Pushing
  <2>6. "AfterQuery" \in HookNames
    BY DEF HookNames
  <2>7. CallMethod("AfterQuery", frames)
    BY <1>6 DEF f, left
  <2> HIDE DEF frames
  <2>8. frames[1].kind \notin {"panic", "migrate"} /\ frames[1].s = Top.s
    BY <1>3, <2>2, <2>5
  <2> QED BY <1>1, <1>3, <2>4, <2>5, <2>6, <2>7, <2>8, HookShifted
<1> QED BY <1>5, <1>6 DEF Rows

\* The rows a query finds are given as marks.
RowsMarked ==
    LET used == Build(Here.clause, TypesOf(Top.kind))
    IN Top.kind \in {"find", "first"} /\ Accepts(Top, Current.main, used)
          => Found(Current.main, used) \subseteq Marks

LEMMA RunShifted ==
    ASSUME Shape(stack), Chained(stack, sess), SessTyped, RowsMarked, Run
    PROVE  Shifted /\ SessTyped' /\ StatementsAsChained'
<1> DEFINE used == Build(Here.clause, TypesOf(Top.kind))
           rest == Wiped(Below, Top.s)
           then(at, arg) == <<Frame(Top.kind, Top.s, at, arg)>> \o rest
<1>1. /\ Top.at = "run" /\ Top = stack[1] /\ Top.s \in Sessions
      /\ Top \in FrameType /\ Proper(Top) /\ Below \in Seq(FrameType) /\ Below = Tail(stack)
      /\ Len(stack) > 0 /\ stack \in Seq(FrameType) /\ Here \in SessionType
  BY TopFrame DEF Run, Below, SessTyped, Here
<1>2. Top.kind \in Operations /\ Top.kind \notin {"user", "tf", "migrate", "panic"}
  BY <1>1 DEF Proper, Phases, Pending, Operations
<1>3. /\ Shape(Below) /\ Fine(Below, stack) /\ Below[1].kind \notin {"panic", "migrate"}
      /\ Below[1].s = Top.s
  BY <1>1, <1>2, PopShape DEF Fine, Below
<1>4. sess' = [sess EXCEPT ![Top.s].clause = Empty]
  BY DEF Run, Clear
<1>5. /\ sess'[Top.s].clause = Empty
      /\ \A z \in Sessions : /\ z # Top.s => sess'[z].clause = sess[z].clause
                             /\ sess'[z].model = sess[z].model
      /\ SessTyped'
  <2>1. Empty \in Clauses
    BY DEF Empty, Clauses
  <2> QED BY <1>4, <2>1, ClauseSet
<1>6. /\ SameFrames(rest, Below) /\ Carried(rest, sess', Below, sess)
      /\ \A i \in 1 .. Len(Below) : rest[i].s = Top.s => Fits(rest[i], sess')
  BY <1>1, <1>5, WipedFrames
<1> HIDE DEF rest
<1>7. Rest(rest, sess') /\ Fine(rest, Below)
  <2>1. Rest(Below, sess)
    BY <1>1, PopRest DEF Chained
  <2> QED BY <1>1, <1>3, <1>6, <2>1, CarriedRest, SameFine
<1>8. /\ 1 \in 1 .. Len(Below) /\ rest[1].s = Top.s /\ rest[1].kind \notin {"panic", "migrate"}
      /\ rest \in Seq(FrameType) /\ Shape(rest) /\ Fine(rest, stack)
  <2>1. 1 \in 1 .. Len(Below)
    BY <1>1, <1>3 DEF Shape
  <2>2. Fine(rest, stack)
    BY <1>3, <1>7, FineTwice
  <2> QED BY <1>3, <1>6, <1>7, <2>1, <2>2 DEF SameFrames, Fine
<1>9. Chained(rest, sess')
  BY <1>6, <1>7, <1>8 DEF Chained
<1>10. ASSUME stack' = rest
       PROVE  Shifted
  BY <1>8, <1>9, <1>10 DEF Shifted
<1>11. ASSUME NEW at \in {"rows", "after"}, NEW arg, stack' = then(at, arg),
              IF at = "rows" THEN arg \in Marks ELSE arg = {}
       PROVE  Shifted
  <2> DEFINE f == Frame(Top.kind, Top.s, at, arg)
  <2>1. /\ f \in FrameType /\ f.kind = Top.kind /\ f.s = Top.s /\ f.at = at /\ f.arg = arg
        /\ f.chain = Empty
    <3>1. /\ Top.kind \in Operations \cup Code \cup {"migrate", "panic"}
          /\ arg \in (SUBSET Keys) \cup Values \cup Marks \cup Differences
          /\ at \in Places
      BY <1>2, <1>11 DEF Places, Phases
    <3>2. f \in FrameType
      BY <1>1, <3>1, FrameMade, Zenon
    <3> QED BY <3>2 DEF Frame
  <2>2. stack' = <<f>> \o rest
    BY <1>11
  <2> HIDE DEF f
  <2>3. Proper(f) /\ f.at # "into" /\ Fits(f, sess')
    BY <1>2, <1>5, <1>11, <2>1 DEF Proper, Pending, Fits
  <2>4. Fits(rest[1], sess')
    BY <1>9 DEF Chained
  <2>5. Chained(stack', sess')
    BY <1>7, <1>8, <2>1, <2>2, <2>3, <2>4, PushChained
  <2>6. f.kind \notin {"user", "tf", "migrate"} /\ f.s = rest[1].s
    BY <1>2, <1>8, <2>1
  <2>7. Fine(stack', rest)
    BY <1>8, <2>1, <2>2, <2>3, <2>6, PushShape DEF Fine
  <2>8. stack'[1] = f
    BY <1>8, <2>1, <2>2, Pushing
  <2>9. Fine(stack', stack)
    BY <1>8, <2>7, FineTwice
  <2> QED BY <2>5, <2>6, <2>8, <2>9 DEF Shifted
<1>12. Shifted
  <2>1. \/ stack' = rest \/ stack' = then("after", {})
        \/ /\ Top.kind \in {"find", "first"} /\ Accepts(Top, Current.main, used)
           /\ \E rows \in Found(Current.main, used) : stack' = then("rows", rows)
    BY DEF Run, rest
  <2>2. ASSUME \E rows \in Found(Current.main, used) :
                  /\ Top.kind \in {"find", "first"} /\ Accepts(Top, Current.main, used)
                  /\ stack' = then("rows", rows)
        PROVE  Shifted
    <3>1. PICK rows \in Found(Current.main, used) :
                /\ Top.kind \in {"find", "first"} /\ Accepts(Top, Current.main, used)
                /\ stack' = then("rows", rows)
      BY <2>2
    <3>2. rows \in Marks
      BY <3>1 DEF RowsMarked
    <3> QED BY <1>11, <3>1, <3>2
  <2> QED BY <1>10, <1>11, <2>1, <2>2
<1>13. StatementsAsChained'
  <2>1. last' = [used |-> used, wanted |-> Build(Top.chain, TypesOf(Top.kind)),
                 meddled |-> Top.meddled]
    BY DEF Run
  <2>2. Fits(Top, sess)
    BY <1>1 DEF Chained
  <2>3. Top.meddled \/ Top.chain = Here.clause
    BY <1>2, <2>2 DEF Fits, Here
  <2> QED BY <2>1, <2>3 DEF StatementsAsChained
<1> QED BY <1>5, <1>12, <1>13

LEMMA RunWithoutModelShifted ==
    ASSUME Shape(stack), Chained(stack, sess), RunWithoutModel
    PROVE  Shifted
<1> DEFINE f == [Below[1] EXCEPT !.chain = Top.chain, !.meddled = Top.meddled]
           rest == Tail(Below)
<1>1. /\ Top.at = "run" /\ sess' = sess /\ Top = stack[1] /\ Top.s \in Sessions
      /\ Top \in FrameType /\ Proper(Top) /\ Below = Tail(stack)
      /\ Len(stack) > 0 /\ stack \in Seq(FrameType)
  BY TopFrame DEF RunWithoutModel, Below
<1>2. Top.kind \in Operations /\ Top.kind \notin {"user", "tf", "migrate", "panic"}
  BY <1>1 DEF Proper, Phases, Pending, Operations
<1>3. CASE Raise
  BY <1>1, <1>2, <1>3, RaiseFine DEF Shifted
<1>4. CASE stack' = <<f>> \o rest
  <2>1. /\ Shape(Below) /\ Fine(Below, stack) /\ Below[1].kind \notin {"panic", "migrate"}
        /\ Below[1].s = Top.s
    BY <1>1, <1>2, PopShape DEF Fine, Below
  <2>2. /\ Below \in Seq(FrameType) /\ Len(Below) > 0 /\ Below[1] \in FrameType
        /\ Proper(Below[1])
    BY <2>1 DEF Shape
  <2>3. /\ f \in FrameType /\ f.kind = Below[1].kind /\ f.s = Top.s /\ f.at = Below[1].at
        /\ f.arg = Below[1].arg /\ f.chain = Top.chain /\ f.meddled = Top.meddled
    BY <1>1, <2>1, <2>2 DEF FrameType
  <2> HIDE DEF f
  <2>4. Proper(f)
    BY <2>2, <2>3 DEF Proper
  <2>5. Fits(f, sess)
    <3>1. Fits(Top, sess)
      BY <1>1 DEF Chained
    <3> QED BY <1>2, <2>1, <2>3, <3>1 DEF Fits
  <2>6. rest \in Seq(FrameType) /\ Len(rest) = Len(Below) - 1
    BY <2>2, Popping
  <2>7. Fine(<<f>> \o rest, Below)
    <3>1. SameFrames(rest, rest)
      BY <2>6 DEF SameFrames
    <3> QED BY <2>1, <2>3, <2>4, <3>1, SwapFine
  <2>8. Rest(Below, sess)
    BY <1>1, PopRest DEF Chained
  <2>9. /\ Rest(rest, sess)
        /\ Len(Below) > 1 => rest[1] = Below[2] /\ (Covers(Below[1], Below[2]) \/ Fits(Below[2], sess))
    BY <2>2, <2>8, PopRest
  <2>10. f.at = "into" => sess[f.s].model
    <3>1. 1 \in 1 .. Len(Below)
      BY <2>2
    <3> QED BY <2>1, <2>3, <2>8, <3>1 DEF Rest
  <2>11. Covers(Below[1], Below[2]) => Covers(f, Below[2])
    BY <2>1, <2>3 DEF Covers
  <2>12. Len(rest) > 0 => Len(Below) > 1
    BY <2>2, <2>6
  <2> HIDE DEF rest
  <2>13. Chained(stack', sess')
    BY <1>1, <1>4, <2>3, <2>5, <2>6, <2>9, <2>10, <2>11, <2>12, PushChained
  <2>14. stack'[1] = f
    BY <1>4, <2>3, <2>6, Pushing
  <2>15. Fine(stack', stack)
    BY <1>4, <2>1, <2>7, FineTwice
  <2> QED BY <2>1, <2>3, <2>13, <2>14, <2>15 DEF Shifted
<1> QED BY <1>3, <1>4 DEF RunWithoutModel

-----------------------------------------------------------------------------
(* The data. *)

LEMMA PutRows ==
    ASSUME NEW S, NEW A, NEW B, NEW new \in [A -> S], NEW rows \in [B -> S]
    PROVE  Put(new, rows) \in [A \cup B -> S]
BY DEF Put

\* A table with other rows.
LEMMA OtherRows ==
    ASSUME NEW t \in Tables, NEW ks \in SUBSET Keys,
           NEW rows \in [ks -> [t.cols -> Values \cup {Null}]]
    PROVE  [t EXCEPT !.rows = rows] \in Tables
<1>1. t.cols \in SUBSET Columns /\ t.pk \in BOOLEAN
      /\ t = [cols |-> t.cols, pk |-> t.pk, rows |-> t.rows]
  BY TablesAre
<1>2. [t EXCEPT !.rows = rows] = [cols |-> t.cols, pk |-> t.pk, rows |-> rows]
  BY <1>1
<1>3. [cols |-> t.cols, pk |-> t.pk, rows |-> rows] \in Tables
  BY <1>1, TableMade, Zenon
<1> QED BY <1>2, <1>3

LEMMA NewTableMade == NewTable \in Tables
<1>1. Fields \in SUBSET Columns /\ {} \in SUBSET Keys
  BY SessionAssumption
<1>2. <<>> \in [{} -> [Fields -> Values \cup {Null}]]
  OBVIOUS
<1>3. [cols |-> Fields, pk |-> TRUE, rows |-> <<>>] \in Tables
  BY <1>1, <1>2, TableMade, Zenon
<1> QED BY <1>3 DEF NewTable

\* A statement the database accepts leaves a table or none.
LEMMA AfterIsTable ==
    ASSUME NEW op, NEW t \in Tables \cup {NoTable}, NEW c, Accepts(op, t, c),
           op.kind = "insert" => op.arg \in SUBSET Keys,
           op.kind = "update" => op.arg \in Values
    PROVE  After(op, t, c) \in Tables \cup {NoTable}
<1>1. CASE op.kind = "insert" /\ c["INSERT"] # NoClause
  <2> DEFINE fresh == [f \in t.cols |-> CHOOSE v \in Values : TRUE]
             new == [k \in op.arg |-> fresh]
  <2>1. t \in Tables
    BY <1>1 DEF Accepts
  <2>2. (CHOOSE v \in Values : TRUE) \in Values
    BY SessionAssumption
  <2>3. fresh \in [t.cols -> Values \cup {Null}]
    BY <2>2
  <2> HIDE DEF fresh
  <2>4. /\ t.rows \in [DOMAIN t.rows -> [t.cols -> Values \cup {Null}]]
        /\ DOMAIN t.rows \in SUBSET Keys
    BY <2>1, TablesAre
  <2>5. new \in [op.arg -> [t.cols -> Values \cup {Null}]]
    BY <2>3
  <2> HIDE DEF new
  <2>6. Put(new, t.rows) \in [op.arg \cup DOMAIN t.rows -> [t.cols -> Values \cup {Null}]]
    BY <2>4, <2>5, PutRows, Zenon
  <2>7. op.arg \cup DOMAIN t.rows \in SUBSET Keys
    BY <1>1, <2>4
  <2>8. [t EXCEPT !.rows = Put(new, t.rows)] \in Tables
    BY <2>1, <2>6, <2>7, OtherRows, Zenon
  <2>9. After(op, t, c) = [t EXCEPT !.rows = Put(new, t.rows)]
    BY <1>1 DEF After, new, fresh
  <2> QED BY <2>8, <2>9
<1>2. CASE op.kind = "update"
  <2> DEFINE chosen == Selected(t, c)
             put(k) == [f \in t.cols |-> IF f \in Fields THEN op.arg ELSE t.rows[k][f]]
             new == [k \in chosen |-> put(k)]
  <2>1. t \in Tables
    BY <1>2 DEF Accepts
  <2>2. /\ t.rows \in [DOMAIN t.rows -> [t.cols -> Values \cup {Null}]]
        /\ DOMAIN t.rows \in SUBSET Keys
    BY <2>1, TablesAre
  <2>3. chosen \in SUBSET DOMAIN t.rows
    BY DEF Selected
  <2>4. \A k \in chosen : put(k) \in [t.cols -> Values \cup {Null}]
    BY <1>2, <2>2, <2>3
  <2> HIDE DEF chosen, put
  <2>5. new \in [chosen -> [t.cols -> Values \cup {Null}]]
    BY <2>4
  <2> HIDE DEF new
  <2>6. Put(new, t.rows) \in [chosen \cup DOMAIN t.rows -> [t.cols -> Values \cup {Null}]]
    BY <2>2, <2>5, PutRows, Zenon
  <2>7. chosen \cup DOMAIN t.rows \in SUBSET Keys
    BY <2>2, <2>3
  <2>8. [t EXCEPT !.rows = Put(new, t.rows)] \in Tables
    BY <2>1, <2>6, <2>7, OtherRows, Zenon
  <2>9. After(op, t, c) = [t EXCEPT !.rows = Put(new, t.rows)]
    BY <1>2 DEF After, new, put, chosen
  <2> QED BY <2>8, <2>9
<1>3. CASE op.kind = "delete"
  <2> DEFINE left == DOMAIN t.rows \ Selected(t, c)
             rows == [k \in left |-> t.rows[k]]
  <2>1. t \in Tables
    BY <1>3 DEF Accepts
  <2>2. /\ t.rows \in [DOMAIN t.rows -> [t.cols -> Values \cup {Null}]]
        /\ DOMAIN t.rows \in SUBSET Keys
    BY <2>1, TablesAre
  <2>3. left \in SUBSET Keys /\ rows \in [left -> [t.cols -> Values \cup {Null}]]
    BY <2>2
  <2>4. After(op, t, c) = [t EXCEPT !.rows = rows]
    BY <1>3 DEF After
  <2> HIDE DEF left, rows
  <2>5. [t EXCEPT !.rows = rows] \in Tables
    BY <2>1, <2>3, OtherRows, Zenon
  <2> QED BY <2>4, <2>5
<1>4. CASE op.kind = "create"
  BY <1>4, NewTableMade DEF After
<1>5. CASE op.kind \notin {"insert", "update", "delete", "create"}
           \/ (op.kind = "insert" /\ c["INSERT"] = NoClause)
  BY <1>5 DEF After
<1> QED BY <1>1, <1>2, <1>3, <1>4, <1>5

\* What Find gets are keys, with a mark each.
LEMMA FoundMarked ==
    ASSUME NEW t \in Tables, NEW c
    PROVE  Found(t, c) \subseteq Marks
<1>1. Selected(t, c) \in SUBSET Keys
  BY TablesAre DEF Selected
<1> DEFINE sets == IF c["LIMIT"] = NoClause \/ Selected(t, c) = {} THEN {Selected(t, c)}
                   ELSE {{k} : k \in Selected(t, c)}
           mark(ks) == [k \in ks |-> \E f \in Fields : t.rows[k][f] = Null]
<1>2. \A ks \in sets : ks \in SUBSET Keys
  BY <1>1
<1>3. \A ks : mark(ks) \in [ks -> BOOLEAN]
  OBVIOUS
<1>4. Found(t, c) = {mark(ks) : ks \in sets}
  BY DEF Found
<1> HIDE DEF sets, mark
<1>5. \A ks \in sets : mark(ks) \in Marks
  BY <1>2, <1>3, MarksAre, Zenon
<1> QED BY <1>4, <1>5

\* Only Run executes statements: in the transaction, if one is open.
LEMMA RunData ==
    ASSUME Typed, Shape(stack), Run
    PROVE  /\ db' \in Databases /\ work' \in Databases /\ RowsMarked
           /\ db'.tmp = db.tmp /\ work'.tmp = work.tmp
           /\ db' # db => Top.kind # "panic" /\ Here.tx # "open"
<1> DEFINE used == Build(Here.clause, TypesOf(Top.kind))
           d == [Current EXCEPT !.main = After(Top, @, used)]
<1>1. /\ Top.at = "run" /\ Proper(Top)
      /\ db \in Databases /\ work \in Databases
      /\ Current = IF Here.tx = "open" THEN work ELSE db
  BY TopFrame DEF Run, Typed, Current
<1>2. Top.kind \in Operations /\ Top.kind # "panic"
  BY <1>1 DEF Proper, Phases, Pending, Operations
<1>3. Current \in Databases /\ Current.main \in Tables \cup {NoTable}
  BY <1>1 DEF Databases
<1>4. RowsMarked
  <2> SUFFICES ASSUME Top.kind \in {"find", "first"}, Accepts(Top, Current.main, used)
               PROVE  Found(Current.main, used) \subseteq Marks
    BY DEF RowsMarked
  <2>1. Current.main \in Tables
    BY <1>3 DEF Accepts
  <2> QED BY <2>1, FoundMarked
<1>5. \/ Accepts(Top, Current.main, used) /\ Store(d)
      \/ UNCHANGED <<db, work>>
  BY DEF Run
<1>6. ASSUME Accepts(Top, Current.main, used)
      PROVE  d \in Databases /\ d.tmp = Current.tmp
  <2>1. /\ Top.kind = "insert" => Top.arg \in SUBSET Keys
        /\ Top.kind = "update" => Top.arg \in Values
    BY <1>1 DEF Proper, Pending
  <2> HIDE DEF used
  <2>2. After(Top, Current.main, used) \in Tables \cup {NoTable}
    BY <1>3, <1>6, <2>1, AfterIsTable, Zenon
  <2> QED BY <1>3, <2>2 DEF Databases
<1> HIDE DEF d, used
<1>7. CASE Accepts(Top, Current.main, used) /\ Store(d)
  BY <1>1, <1>2, <1>4, <1>6, <1>7 DEF Store
<1>8. CASE UNCHANGED <<db, work>>
  BY <1>1, <1>4, <1>8
<1> QED BY <1>5, <1>7, <1>8

LEMMA StepData ==
    ASSUME Typed, Shape(stack), Calls \/ Operation
    PROVE  /\ db' \in Databases /\ work' \in Databases
           /\ db'.tmp = db.tmp /\ work'.tmp = work.tmp
           /\ db' # db => Top.kind # "panic" /\ Here.tx # "open"
<1>1. CASE Run
  BY <1>1, RunData
<1>2. CASE UNCHANGED <<db, work>>
  BY <1>2 DEF Typed
<1>3. Run \/ UNCHANGED <<db, work>>
  BY DEF Calls, Operation, Model, Chain, Call, HookReturns, Throw, Unwind, Before, Into,
         RunWithoutModel, Rows, AfterHook
<1> QED BY <1>1, <1>2, <1>3

\* The sessions keep to their transactions.
LEMMA StepSessions ==
    ASSUME Shape(stack), SessTyped, Calls \/ Operation
    PROVE  SessTyped' /\ \A z \in Sessions : sess'[z].tx = sess[z].tx
<1>1. ASSUME NEW clause \in Clauses, sess' = [sess EXCEPT ![Top.s].clause = clause]
      PROVE  SessTyped' /\ \A z \in Sessions : sess'[z].tx = sess[z].tx
  BY <1>1, ClauseSet, TopFrame
<1>2. ASSUME sess' = [sess EXCEPT ![Top.s].model = TRUE]
      PROVE  SessTyped' /\ \A z \in Sessions : sess'[z].tx = sess[z].tx
  BY <1>2, TopFrame DEF SessTyped, SessionType
<1>3. ASSUME sess' = sess
      PROVE  SessTyped' /\ \A z \in Sessions : sess'[z].tx = sess[z].tx
  BY <1>3 DEF SessTyped
<1>4. Here.clause \in Clauses /\ Here = sess[Top.s]
  BY TopFrame DEF SessTyped, SessionType, Here
<1>5. /\ Empty \in Clauses
      /\ \A t \in Types, value \in Wheres \cup {NoClause, 1} :
            Set(Here.clause, t, value) \in Clauses
  BY <1>4 DEF Clauses, Empty, Set
<1>6. ASSUME NEW t \in Types, NEW value \in Wheres \cup {NoClause, 1}, Chain(t, value)
      PROVE  SessTyped' /\ \A z \in Sessions : sess'[z].tx = sess[z].tx
  <2>1. sess' = [sess EXCEPT ![Top.s].clause = Set(Here.clause, t, value)]
    BY <1>4, <1>6 DEF Chain
  <2> QED BY <1>1, <1>5, <2>1
<1>7. ASSUME NEW kind, NEW arg, Call(kind, arg)
      PROVE  SessTyped' /\ \A z \in Sessions : sess'[z].tx = sess[z].tx
  <2> DEFINE clause == IF kind = "first" THEN Set(Here.clause, "LIMIT", 1) ELSE Here.clause
  <2>1. sess' = [sess EXCEPT ![Top.s].clause = clause]
    BY <1>4, <1>7 DEF Call
  <2>2. clause \in Clauses
    BY <1>4, <1>5 DEF Types
  <2> HIDE DEF clause
  <2> QED BY <1>1, <2>1, <2>2
<1>8. CASE Into
  <2>1. sess' = [sess EXCEPT ![Top.s].clause = Set(Here.clause, "INSERT", 1)]
    BY <1>4, <1>8 DEF Into
  <2>2. Set(Here.clause, "INSERT", 1) \in Clauses
    BY <1>5 DEF Types
  <2> QED BY <1>1, <2>1, <2>2
<1>9. CASE Run
  <2>1. sess' = [sess EXCEPT ![Top.s].clause = Empty]
    BY <1>9 DEF Run, Clear
  <2> QED BY <1>1, <1>5, <2>1
<1>10. CASE Calls
  <2>1. CASE Model
    BY <1>2, <2>1 DEF Model
  <2>2. CASE HookReturns \/ Throw \/ Unwind
    BY <1>3, <2>2 DEF HookReturns, Throw, Unwind
  <2>3. CASE (\E w \in Wheres : Chain("WHERE", w)) \/ Chain("LIMIT", 1) \/ Chain("ORDERBY", 1)
    <3>1. \E t \in Types, value \in Wheres \cup {NoClause, 1} : Chain(t, value)
      BY <2>3 DEF Types
    <3> QED BY <1>6, <3>1
  <2>4. CASE \E kind, arg : Call(kind, arg)
    BY <1>7, <2>4
  <2> QED BY <1>10, <2>1, <2>2, <2>3, <2>4 DEF Calls
<1>11. CASE Operation
  <2>1. CASE Before \/ RunWithoutModel \/ Rows \/ AfterHook
    BY <1>3, <2>1 DEF Before, RunWithoutModel, Rows, AfterHook
  <2> QED BY <1>8, <1>9, <1>11, <2>1 DEF Operation
<1> QED BY <1>10, <1>11

\* The stack and the clauses in a step of a session.
LEMMA StepShifted ==
    ASSUME Typed, Shape(stack), Chained(stack, sess), StatementsAsChained, Calls \/ Operation
    PROVE  Shifted /\ StatementsAsChained'
<1>1. SessTyped
  BY DEF Typed, SessTyped
<1>2. CASE Run
  BY <1>1, <1>2, RunData, RunShifted
<1>3. CASE Calls
  <2>1. ASSUME NEW t \in Types, NEW value \in Wheres \cup {NoClause, 1}, Chain(t, value)
        PROVE  Shifted /\ last' = last
    BY <1>1, <2>1, ChainShifted DEF Chain
  <2>2. ASSUME NEW kind \in Operations, NEW arg, Argument(kind, arg), Call(kind, arg)
        PROVE  Shifted /\ last' = last
    BY <1>1, <2>2, CallShifted DEF Call
  <2>3. CASE (\E w \in Wheres : Chain("WHERE", w)) \/ Chain("LIMIT", 1) \/ Chain("ORDERBY", 1)
    <3>1. \E t \in Types, value \in Wheres \cup {NoClause, 1} : Chain(t, value)
      BY <2>3 DEF Types
    <3> QED BY <2>1, <3>1 DEF StatementsAsChained
  <2>4. CASE \/ \E batch \in Batches : Call("insert", batch)
             \/ \E v \in Values : Call("update", v)
             \/ \E kind \in {"find", "first", "delete", "count", "raw", "has", "create", "drop"} :
                   Call(kind, {})
    <3>1. \E kind \in Operations : \E arg : Argument(kind, arg) /\ Call(kind, arg)
      <4>1. ASSUME NEW batch \in Batches, Call("insert", batch)
            PROVE  "insert" \in Operations /\ Argument("insert", batch)
        BY SessionAssumption DEF Operations, Argument
      <4>2. ASSUME NEW v \in Values
            PROVE  "update" \in Operations /\ Argument("update", v)
        BY DEF Operations, Argument
      <4>3. ASSUME NEW kind \in {"find", "first", "delete", "count", "raw", "has", "create", "drop"}
            PROVE  kind \in Operations /\ Argument(kind, {})
        BY DEF Operations, Argument
      <4> QED BY <2>4, <4>1, <4>2, <4>3
    <3> QED BY <2>2, <3>1 DEF StatementsAsChained
  <2>5. CASE Model
    BY <1>1, <2>5, ModelShifted DEF Model, StatementsAsChained
  <2>6. CASE HookReturns
    BY <2>6, HookReturnsShifted DEF HookReturns, StatementsAsChained
  <2>7. CASE Throw
    BY <2>7, ThrowShifted DEF Throw, StatementsAsChained
  <2>8. CASE Unwind
    BY <2>8, UnwindShifted DEF Unwind, StatementsAsChained
  <2> QED BY <1>3, <2>3, <2>4, <2>5, <2>6, <2>7, <2>8 DEF Calls
<1>4. CASE Operation
  <2>1. CASE Before
    BY <2>1, BeforeShifted DEF Before, StatementsAsChained
  <2>2. CASE Into
    BY <1>1, <2>2, IntoShifted DEF Into, StatementsAsChained
  <2>3. CASE RunWithoutModel
    BY <2>3, RunWithoutModelShifted DEF RunWithoutModel, StatementsAsChained
  <2>4. CASE Rows
    BY <2>4, RowsShifted DEF Rows, StatementsAsChained
  <2>5. CASE AfterHook
    BY <2>5, AfterHookShifted DEF AfterHook, StatementsAsChained
  <2> QED BY <1>2, <1>4, <2>1, <2>2, <2>3, <2>4, <2>5 DEF Operation
<1> QED BY <1>3, <1>4

-----------------------------------------------------------------------------
(* The invariant. *)

LEMMA SessionStepInv ==
    ASSUME IInv, SessionStep
    PROVE  IInv'
<1>1. /\ Typed /\ Shape(stack) /\ Chained(stack, sess) /\ StatementsAsChained /\ Transactions
      /\ SessTyped
  BY DEF IInv, Typed, SessTyped
<1>2. (Calls \/ Operation) /\ outcome' = "none" /\ task' = task /\ before' = before
  BY DEF SessionStep
<1>3. Shifted /\ StatementsAsChained'
  BY <1>1, <1>2, StepShifted
<1>4. SessTyped' /\ \A z \in Sessions : sess'[z].tx = sess[z].tx
  BY <1>1, <1>2, StepSessions
<1>5. /\ db' \in Databases /\ work' \in Databases
      /\ db'.tmp = db.tmp /\ work'.tmp = work.tmp
      /\ db' # db => Top.kind # "panic" /\ Here.tx # "open"
  BY <1>1, <1>2, StepData
<1>6. Typed'
  BY <1>1, <1>2, <1>4, <1>5 DEF Typed, SessTyped
<1>7. /\ Shape(stack') /\ Chained(stack', sess') /\ stack'[1].kind # "migrate"
      /\ InTx(stack') <=> InTx(stack)
      /\ InTx(stack) => stack'[Len(stack') - 1].kind = stack[Len(stack) - 1].kind
  BY <1>3 DEF Shifted, Fine
<1>8. InTx(stack) => db' = db
  <2> SUFFICES ASSUME InTx(stack), db' # db
               PROVE  FALSE
    OBVIOUS
  <2>1. Top.s = "tx"
    BY <1>1, TopFrame DEF Shape, InTx
  <2>2. sess["tx"].tx = "open"
    BY <1>1 DEF Transactions
  <2> QED BY <1>5, <2>1, <2>2 DEF Here
<1>9. "tx" \in Sessions /\ "plain" \in Sessions
  BY DEF Sessions
<1>10. AllOrNothing'
  BY <1>2 DEF AllOrNothing
<1>11. Transactions'
  <2>1. InTx(stack') <=> sess'["tx"].tx = "open"
    BY <1>1, <1>4, <1>7, <1>9 DEF Transactions
  <2>2. InTx(stack') => /\ sess'["plain"].tx # "open" /\ outcome' = "none" /\ db' = before'
                        /\ task' = stack'[Len(stack') - 1].kind
                        /\ task' = "tf" => work'.tmp = NoTable
    BY <1>1, <1>2, <1>4, <1>5, <1>7, <1>8, <1>9 DEF Transactions
  <2>3. (sess'["plain"].tx = "open" => work'.tmp = NoTable) /\ db'.tmp = NoTable
    BY <1>1, <1>4, <1>5, <1>9 DEF Transactions
  <2> QED BY <1>10, <2>1, <2>2, <2>3 DEF Transactions
<1>12. Migrating'
  BY <1>2, <1>7 DEF Migrating, MigrationKeeps, Top
<1> QED BY <1>3, <1>6, <1>7, <1>11, <1>12 DEF IInv

\* With the user at the top nothing else is on the stack.
LEMMA UserAlone ==
    ASSUME Shape(stack), Top.kind = "user"
    PROVE  /\ Len(stack) = 1 /\ Top.s = "plain" /\ ~InTx(stack) /\ Top = stack[1]
           /\ stack \in Seq(FrameType) /\ Proper(Top) /\ Top \in FrameType
<1>1. Top = stack[1] /\ stack \in Seq(FrameType) /\ Proper(Top) /\ Top \in FrameType
  BY TopFrame, Zenon
<1>2. Len(stack) \in Nat /\ Len(stack) > 0 /\ stack[Len(stack)].s = "plain"
  BY DEF Shape
<1>3. Len(stack) = 1
  <2>1. Len(stack) > 1 => 1 \in 1 .. Len(stack) - 1
    BY <1>2
  <2>2. Len(stack) > 1 => stack[1].kind # "user"
    BY <2>1 DEF Shape
  <2> QED BY <1>1, <1>2, <2>2
<1> QED BY <1>1, <1>2, <1>3 DEF InTx

LEMMA UserTxInv ==
    ASSUME IInv, UserTx
    PROVE  IInv'
<1>1. /\ Typed /\ Shape(stack) /\ Chained(stack, sess) /\ StatementsAsChained /\ Transactions
  BY DEF IInv
<1>2. /\ Top.kind = "user" /\ outcome' = "none" /\ stack' = stack /\ last' = last
      /\ task' = task /\ before' = before
  BY DEF UserTx, Issue
<1>3. Top.s = "plain" /\ ~InTx(stack) /\ Top = stack[1]
  BY <1>1, <1>2, UserAlone
<1>4. sess["tx"].tx # "open"
  BY <1>1, <1>3 DEF Transactions
<1>5. PICK tx \in {"nil", "open", "done"} :
         /\ sess' = [sess EXCEPT !["plain"].tx = tx]
         /\ \/ tx = "open" /\ work' = db /\ db' = db
            \/ tx = "nil" /\ work' = work /\ db' = db
            \/ tx = "done" /\ work' = work /\ sess["plain"].tx = "open" /\ db' = work
            \/ tx = "done" /\ work' = work /\ db' = db
  <2>1. Here = sess["plain"] /\ sess \in [Sessions -> SessionType]
    BY <1>1, <1>3 DEF Here, Typed
  <2>2. \/ sess' = [sess EXCEPT !["plain"] = [Here EXCEPT !.tx = "open"]] /\ work' = db /\ db' = db
        \/ sess' = [sess EXCEPT !["plain"] = [Here EXCEPT !.tx = "nil"]] /\ work' = work /\ db' = db
        \/ /\ sess' = [sess EXCEPT !["plain"].tx = "done"] /\ work' = work
           /\ Here.tx = "open" /\ db' = work
        \/ sess' = [sess EXCEPT !["plain"].tx = "done"] /\ work' = work /\ db' = db
    BY DEF UserTx, Begin, Committed, RolledBack, Over
  <2> QED BY <2>1, <2>2
<1>6. /\ sess' \in [Sessions -> SessionType] /\ SameClauses(sess', sess)
      /\ sess'["tx"].tx = sess["tx"].tx /\ sess'["plain"].tx = tx
  BY <1>1, <1>5 DEF Typed, SessionType, SameClauses, Sessions
<1>7. Typed'
  BY <1>1, <1>2, <1>5, <1>6 DEF Typed
<1>8. Chained(stack', sess')
  BY <1>1, <1>2, <1>6, SameClausesChained
<1>9. db'.tmp = NoTable /\ (tx = "open" => work'.tmp = NoTable)
  BY <1>1, <1>5 DEF Transactions
<1>10. Transactions'
  <2>1. ~InTx(stack') /\ sess'["tx"].tx # "open"
    BY <1>2, <1>3, <1>4, <1>6
  <2> QED BY <1>2, <1>6, <1>9, <2>1 DEF Transactions, AllOrNothing
<1>11. Migrating'
  BY <1>2, <1>3 DEF Migrating, MigrationKeeps, Top
<1> QED BY <1>1, <1>2, <1>7, <1>8, <1>10, <1>11 DEF IInv, StatementsAsChained

LEMMA TransactionInv ==
    ASSUME IInv, NEW kind \in {"tf", "migrate"}, Transaction(kind)
    PROVE  IInv'
<1> DEFINE f == Frame(kind, "tx", "has", {})
<1>1. /\ Typed /\ Shape(stack) /\ Chained(stack, sess) /\ StatementsAsChained /\ Transactions
  BY DEF IInv
<1>2. /\ Top.kind = "user" /\ Here.tx # "open" /\ Begin("tx", Fresh("nil"))
      /\ before' = db /\ task' = kind /\ db' = db /\ last' = last
      /\ IF sess'["tx"].tx = "open"
         THEN outcome' = "none" /\ stack' = <<f>> \o stack
         ELSE outcome' = "error" /\ stack' = stack
  BY DEF Transaction, Issue
<1>3. /\ Top.s = "plain" /\ ~InTx(stack) /\ Top = stack[1] /\ Len(stack) = 1
      /\ stack \in Seq(FrameType) /\ Proper(Top) /\ Top \in FrameType
      /\ Here = sess["plain"]
  BY <1>1, <1>2, UserAlone DEF Here
<1>4. PICK tx \in {"nil", "open"} :
         /\ sess' = [sess EXCEPT !["tx"] = Fresh(tx)]
         /\ work' = (IF tx = "open" THEN db ELSE work)
  <2>1. \A z : Fresh(z) \in [clause : {Empty}, tx : {z}, model : {FALSE}]
    BY DEF Fresh
  <2>2. /\ [Fresh("nil") EXCEPT !.tx = "open"] = Fresh("open")
        /\ [Fresh("nil") EXCEPT !.tx = "nil"] = Fresh("nil")
    BY <2>1
  <2> QED BY <1>2, <2>2 DEF Begin
<1>5. /\ sess'["plain"] = sess["plain"] /\ sess'["tx"] = Fresh(tx)
      /\ Fresh(tx) \in SessionType /\ Fresh(tx).tx = tx /\ Fresh(tx).clause = Empty
      /\ sess' \in [Sessions -> SessionType]
  <2>1. Empty \in Clauses
    BY DEF Empty, Clauses
  <2>2. Fresh(tx) \in SessionType /\ Fresh(tx).tx = tx /\ Fresh(tx).clause = Empty
    BY <2>1 DEF Fresh, SessionType
  <2> QED BY <1>1, <1>4, <2>2 DEF Typed, Sessions
<1>6. Typed'
  BY <1>1, <1>2, <1>4, <1>5 DEF Typed
<1>7. StatementsAsChained'
  BY <1>1, <1>2 DEF StatementsAsChained
<1>8. Rest(stack, sess') /\ Fits(Top, sess') /\ Top.at # "into"
  <2>1. Fits(Top, sess) /\ Top.at # "into"
    BY <1>1, <1>2, <1>3 DEF Chained, Proper, Phases, Pending, Operations
  <2> QED BY <1>3, <1>5, <2>1 DEF Rest, Fits
<1>9. db.tmp = NoTable /\ sess["plain"].tx # "open"
  BY <1>1, <1>2, <1>3 DEF Transactions
<1>10. CASE tx = "nil"
  <2>1. outcome' = "error" /\ stack' = stack /\ work' = work
    BY <1>2, <1>4, <1>5, <1>10
  <2>2. Chained(stack', sess')
    BY <1>3, <1>8, <2>1 DEF Chained
  <2>3. Transactions'
    BY <1>2, <1>3, <1>5, <1>9, <1>10, <2>1 DEF Transactions, AllOrNothing
  <2>4. Migrating'
    BY <1>2, <1>3, <2>1 DEF Migrating, MigrationKeeps, Top
  <2> QED BY <1>1, <1>6, <1>7, <2>1, <2>2, <2>3, <2>4 DEF IInv
<1>11. CASE tx = "open"
  <2>1. outcome' = "none" /\ stack' = <<f>> \o stack /\ work' = db
    BY <1>2, <1>4, <1>5, <1>11
  <2>2. /\ f \in FrameType /\ f.kind = kind /\ f.s = "tx" /\ f.at = "has" /\ f.arg = {}
        /\ f.chain = Empty
    <3>1. /\ kind \in Operations \cup Code \cup {"migrate", "panic"}
          /\ {} \in (SUBSET Keys) \cup Values \cup Marks \cup Differences
          /\ "has" \in Places /\ "tx" \in Sessions
      BY DEF Places, Code, Sessions
    <3>2. f \in FrameType
      BY <3>1, FrameMade, Zenon
    <3> QED BY <3>2 DEF Frame
  <2> HIDE DEF f
  <2>3. Proper(f) /\ f.at # "into" /\ Fits(f, sess')
    BY <1>5, <2>2 DEF Proper, Phases, Pending, Fits
  <2>4. /\ stack' \in Seq(FrameType) /\ Len(stack') = 2 /\ stack'[1] = f /\ stack'[2] = Top
    BY <1>3, <2>1, <2>2, Pushing
  <2>5. Chained(stack', sess')
    BY <1>3, <1>8, <2>1, <2>2, <2>3, PushChained
  <2>6. InTx(stack') /\ stack'[Len(stack') - 1] = f
    BY <2>2, <2>4 DEF InTx
  <2>7. Shape(stack')
    <3>1. \A i \in 1 .. 2 : i = 1 \/ i = 2
      OBVIOUS
    <3>2. \A i \in 1 .. 2 : Proper(stack'[i])
      BY <1>3, <2>3, <2>4, <3>1
    <3>3. f.kind \notin {"user", "panic"} /\ Top.kind \notin {"panic", "migrate", "tf"}
      BY <1>2, <2>2
    <3> QED BY <1>2, <1>3, <2>2, <2>4, <2>6, <3>1, <3>2, <3>3 DEF Shape
  <2>8. Transactions'
    BY <1>2, <1>5, <1>9, <1>11, <2>1, <2>2, <2>6 DEF Transactions, AllOrNothing
  <2>9. Migrating'
    <3>1. Stage(f, work', before')
      BY <1>2, <2>1, <2>2 DEF Stage
    <3> QED BY <2>1, <2>4, <3>1 DEF Migrating, MigrationKeeps, Top
  <2> QED BY <1>6, <1>7, <2>5, <2>7, <2>8, <2>9 DEF IInv
<1> QED BY <1>10, <1>11

\* A transaction's function that is at the top has only the user below it.
LEMMA FunctionOverUser ==
    ASSUME Shape(stack), Chained(stack, sess), Top.kind \in {"tf", "migrate"}
    PROVE  /\ Len(stack) = 2 /\ InTx(stack) /\ Top = stack[1] /\ Top.s = "tx"
           /\ stack \in Seq(FrameType) /\ Proper(Top) /\ Top \in FrameType
           /\ stack[Len(stack) - 1] = Top /\ Top.at \notin Phases
           /\ Below = Tail(stack) /\ Below \in Seq(FrameType) /\ Len(Below) = 1
           /\ Below[1] = stack[2] /\ Below[1].kind = "user" /\ Below[1].s = "plain"
           /\ Proper(Below[1]) /\ Fits(Below[1], sess) /\ Rest(Below, sess)
<1>1. /\ Top = stack[1] /\ stack \in Seq(FrameType) /\ Proper(Top) /\ Top \in FrameType
      /\ Below \in Seq(FrameType) /\ Len(Below) = Len(stack) - 1
      /\ Len(stack) \in Nat /\ Len(stack) > 0
  BY TopFrame
<1>2. Len(stack) # 1
  BY <1>1 DEF Shape
<1>3. Len(stack) = 2
  <2>1. Len(stack) > 2 => 1 \in 1 .. Len(stack) - 2
    BY <1>1
  <2>2. \A i \in 1 .. Len(stack) - 2 : stack[i].kind \notin {"tf", "migrate"}
    BY DEF Shape
  <2> QED BY <1>1, <1>2, <2>1, <2>2
<1>4. InTx(stack) /\ stack[Len(stack) - 1] = Top
  BY <1>1, <1>3 DEF InTx
<1>5. Top.s = "tx"
  BY <1>1, <1>3, <1>4 DEF Shape
<1>6. Top.at \notin Phases
  BY <1>1 DEF Proper, Operations
<1>7. Below[1] = stack[2] /\ stack[2].kind = "user" /\ stack[2].s = "plain" /\ Proper(stack[2])
  BY <1>1, <1>3, Popping DEF Shape, Below
<1>8. Rest(Below, sess) /\ Fits(Below[1], sess)
  <2>1. Carried(Below, sess, Below, sess)
    BY DEF Carried
  <2>2. Top.at \notin Pending /\ Top.kind # "panic"
    BY <1>6 DEF Phases
  <2>3. Rest(Below, sess) /\ (Len(Below) > 0 => Fits(Below[1], sess))
    BY <2>1, <2>2, BelowCarried, Zenon
  <2> QED BY <1>1, <1>3, <2>3
<1>9. Below = Tail(stack)
  BY DEF Below
<1>10. Len(Below) = 1
  BY <1>1, <1>3
<1> QED BY <1>1, <1>3, <1>4, <1>5, <1>6, <1>7, <1>8, <1>9, <1>10, Zenon

\* The transaction's session is closed, and nothing that frames know of changes.
LEMMA Closed ==
    ASSUME Typed, Over("tx")
    PROVE  /\ sess' \in [Sessions -> SessionType] /\ SameClauses(sess', sess)
           /\ sess'["tx"].tx = "done" /\ sess'["plain"] = sess["plain"]
BY DEF Over, Typed, SessionType, SameClauses, Sessions

LEMMA TxReturnsInv ==
    ASSUME IInv, TxReturns
    PROVE  IInv'
<1>1. /\ Typed /\ Shape(stack) /\ Chained(stack, sess) /\ StatementsAsChained /\ Transactions
      /\ Migrating
  BY DEF IInv
<1>2. /\ Top.kind \in {"tf", "migrate"} /\ stack' = Below /\ work' = work /\ last' = last
      /\ task' = task /\ before' = before /\ Over("tx")
      /\ \/ db' = work /\ outcome' = "ok" /\ (Top.kind = "migrate" => Top.at = "ok")
         \/ db' = db /\ outcome' = "error"
  BY DEF TxReturns, End, Committed, RolledBack
<1>3. /\ Len(stack) = 2 /\ InTx(stack) /\ stack[Len(stack) - 1] = Top
      /\ Below \in Seq(FrameType) /\ Len(Below) = 1
      /\ Below[1].kind = "user" /\ Below[1].s = "plain"
      /\ Proper(Below[1]) /\ Fits(Below[1], sess) /\ Rest(Below, sess)
  BY <1>1, <1>2, FunctionOverUser
<1>4. /\ sess' \in [Sessions -> SessionType] /\ SameClauses(sess', sess)
      /\ sess'["tx"].tx = "done" /\ sess'["plain"] = sess["plain"]
  BY <1>1, <1>2, Closed
<1>5. Shape(Below) /\ ~InTx(Below)
  <2>1. \A i \in 1 .. 1 : i = 1
    OBVIOUS
  <2> QED BY <1>3, <2>1 DEF Shape, InTx
<1>6. Chained(stack', sess')
  <2>1. Chained(Below, sess)
    BY <1>3 DEF Chained
  <2> QED BY <1>2, <1>4, <1>5, <2>1, SameClausesChained
<1>7. Typed'
  BY <1>1, <1>2, <1>4 DEF Typed
<1>8. /\ db = before /\ db.tmp = NoTable /\ task = Top.kind /\ sess["plain"].tx # "open"
      /\ Top.kind = "tf" => work.tmp = NoTable
  BY <1>1, <1>3 DEF Transactions
<1>9. Top.kind = "migrate" /\ Top.at = "ok" => Migrated(work, before)
  BY <1>1 DEF Migrating, Stage
<1>10. outcome' = "ok" => db' = work /\ db'.tmp = NoTable
  BY <1>2, <1>8, <1>9 DEF Migrated
<1>11. Transactions'
  <2>1. db'.tmp = NoTable /\ ~InTx(stack') /\ sess'["plain"].tx # "open"
    BY <1>2, <1>4, <1>5, <1>8, <1>10
  <2> QED BY <1>2, <1>4, <1>8, <2>1 DEF Transactions, AllOrNothing
<1>12. Migrating'
  <2>1. MigrationKeeps'
    <3> SUFFICES ASSUME task' = "migrate", outcome' = "ok"
                 PROVE  Migrated(db', before')
      BY DEF MigrationKeeps, Migrated, SameRows
    <3> QED BY <1>2, <1>8, <1>9
  <2> QED BY <1>2, <1>3, <2>1 DEF Migrating, Top
<1> QED BY <1>1, <1>2, <1>5, <1>6, <1>7, <1>11, <1>12 DEF IInv, StatementsAsChained

LEMMA TxPanicsInv ==
    ASSUME IInv, TxPanics
    PROVE  IInv'
<1>1. /\ Typed /\ Shape(stack) /\ Chained(stack, sess) /\ StatementsAsChained /\ Transactions
  BY DEF IInv
<1>2. /\ Top.kind = "panic" /\ Below[1].kind \in {"tf", "migrate"} /\ work' = work
      /\ last' = last /\ task' = task /\ before' = before /\ Over("tx") /\ db' = db
      /\ outcome' = "panic" /\ stack' = <<Top>> \o Tail(Below)
  BY DEF TxPanics, RolledBack
<1>3. /\ Top = stack[1] /\ stack \in Seq(FrameType) /\ Proper(Top) /\ Top \in FrameType
      /\ Below = Tail(stack)
  BY <1>1, TopFrame DEF Below
<1>4. /\ Len(stack) > 1 /\ Shape(Below) /\ (InTx(Below) <=> InTx(stack)) /\ Below[1] = stack[2]
      /\ Rest(Below, sess)
  BY <1>1, <1>2, <1>3, PopShape, PopRest DEF Chained
<1>5. Len(Below) = 2 /\ Below \in Seq(FrameType)
  <2>1. Len(Below) \in Nat /\ Len(Below) > 0 /\ Below \in Seq(FrameType)
    BY <1>4 DEF Shape
  <2>2. Len(Below) # 1
    BY <1>2, <1>4 DEF Shape
  <2>3. Len(Below) > 2 => 1 \in 1 .. Len(Below) - 2
    BY <2>1
  <2>4. Len(Below) > 2 => Below[1].kind \notin {"tf", "migrate"}
    BY <1>4, <2>3 DEF Shape
  <2>5. Below[1].kind \in {"tf", "migrate"}
    BY <1>2
  <2>6. ~(Len(Below) > 2)
    BY <2>4, <2>5, Zenon
  <2>7. \A m \in Nat : m > 0 /\ m # 1 /\ ~(m > 2) => m = 2
    OBVIOUS
  <2> QED BY <2>1, <2>2, <2>6, <2>7, Zenon
<1>6. /\ Below[2].kind = "user" /\ Below[2].s = "plain" /\ Below[2] \in FrameType
      /\ Proper(Below[1]) /\ Proper(Below[2]) /\ InTx(Below)
  <2>1. 1 \in 1 .. Len(Below) /\ 2 \in 1 .. Len(Below) /\ Len(Below) - 1 = 1
    BY <1>5
  <2>2. Below[Len(Below)].kind = "user" /\ Below[Len(Below)].s = "plain"
    BY <1>4 DEF Shape
  <2>3. Proper(Below[1]) /\ Proper(Below[2])
    BY <1>4, <2>1 DEF Shape
  <2> QED BY <1>2, <1>5, <2>1, <2>2, <2>3 DEF InTx
<1>7. Fits(Below[2], sess)
  <2>1. Covers(Below[1], Below[2]) \/ Fits(Below[2], sess)
    BY <1>4, <1>5 DEF Rest
  <2>2. ~Covers(Below[1], Below[2])
    BY <1>2, <1>6 DEF Covers, Proper, Phases, Operations
  <2> QED BY <2>1, <2>2
<1>8. /\ sess' \in [Sessions -> SessionType] /\ SameClauses(sess', sess)
      /\ sess'["tx"].tx = "done" /\ sess'["plain"] = sess["plain"]
  BY <1>1, <1>2, Closed
<1> DEFINE t == Tail(Below)
<1>9. t \in Seq(FrameType) /\ Len(t) = 1 /\ t[1] = Below[2]
  <2>1. Below \in Seq(FrameType) /\ Len(Below) > 0
    BY <1>5
  <2>2. /\ t \in Seq(FrameType) /\ Len(t) = Len(Below) - 1
        /\ \A i \in 1 .. Len(t) : t[i] = Below[i + 1]
    BY <2>1, Popping, Zenon
  <2> HIDE DEF t
  <2> QED BY <1>5, <2>2
<1> HIDE DEF t
<1>10. stack' \in Seq(FrameType) /\ Len(stack') = 2 /\ stack'[1] = Top /\ stack'[2] = Below[2]
  <2>1. stack' = <<Top>> \o t
    BY <1>2 DEF t
  <2>2. /\ stack' \in Seq(FrameType) /\ Len(stack') = Len(t) + 1 /\ stack'[1] = Top
        /\ \A i \in 2 .. Len(stack') : stack'[i] = t[i - 1]
    BY <1>3, <1>9, <2>1, Pushing
  <2> QED BY <1>9, <2>2
<1>11. ~InTx(stack') /\ InTx(stack)
  <2>1. Len(stack') - 1 = 1
    BY <1>10
  <2>2. ~InTx(stack')
    BY <1>2, <1>10, <2>1 DEF InTx
  <2> QED BY <1>4, <1>6, <2>2
<1>12. Shape(stack')
  <2>1. \A i \in 1 .. 2 : i = 1 \/ i = 2
    OBVIOUS
  <2>2. \A i \in 1 .. 2 : Proper(stack'[i])
    BY <1>3, <1>6, <1>10, <2>1
  <2>3. Top.kind = "panic" /\ Below[2].kind \notin {"panic", "migrate"}
    BY <1>2, <1>6
  <2>4. 2 - 1 = 1 /\ 2 - 2 = 0 /\ \A i \in 1 .. 1 : i = 1
    OBVIOUS
  <2>5. \A i \in 2 .. 2 : i = 2
    OBVIOUS
  <2> QED BY <1>6, <1>10, <1>11, <2>2, <2>3, <2>4, <2>5 DEF Shape
<1>13. Chained(stack', sess')
  <2>1. Fits(Top, sess')
    BY <1>2 DEF Fits
  <2>2. Fits(Below[2], sess')
    BY <1>6, <1>7, <1>8 DEF Fits
  <2>3. Top.at # "into" /\ Below[2].at # "into"
    BY <1>2, <1>3, <1>6 DEF Proper, Phases, Pending, Operations
  <2>4. \A i \in 1 .. 2 : i = 1 \/ i = 2
    OBVIOUS
  <2> QED BY <1>10, <2>1, <2>2, <2>3, <2>4 DEF Chained, Rest
<1>14. Typed'
  BY <1>1, <1>2, <1>8 DEF Typed
<1>15. Transactions'
  <2>1. db = before /\ db.tmp = NoTable /\ sess["plain"].tx # "open"
    BY <1>1, <1>11 DEF Transactions
  <2> QED BY <1>2, <1>8, <1>11, <2>1 DEF Transactions, AllOrNothing
<1>16. Migrating'
  BY <1>2, <1>10 DEF Migrating, MigrationKeeps, Top
<1> QED BY <1>1, <1>2, <1>12, <1>13, <1>14, <1>15, <1>16 DEF IInv, StatementsAsChained

\* Migrate goes on: what it is to have done by then decides.
LEMMA MigrateGoesOn ==
    ASSUME IInv, NEW at, NEW next \in Places \ Phases, NEW arg \in {{}} \cup Differences,
           Step(at, next, arg), next = "alter" => arg \in Differences,
           UNCHANGED <<db, sess, last, outcome, task, before>>, work' \in Databases,
           \A f : f.at = next /\ f.arg = arg => Stage(f, work', before)
    PROVE  IInv'
<1> DEFINE f == [Top EXCEPT !.at = next, !.arg = arg]
<1>1. /\ Typed /\ Shape(stack) /\ Chained(stack, sess) /\ StatementsAsChained /\ Transactions
      /\ Migrating
  BY DEF IInv
<1>2. Top.kind = "migrate" /\ stack' = <<f>> \o Below
  BY DEF Step
<1>3. /\ Len(stack) = 2 /\ InTx(stack) /\ Top = stack[1]
      /\ Top \in FrameType /\ stack[Len(stack) - 1] = Top /\ Top.at \notin Phases
      /\ Below = Tail(stack) /\ Below \in Seq(FrameType)
      /\ Fits(Below[1], sess) /\ Rest(Below, sess)
  BY <1>1, <1>2, FunctionOverUser
<1>4. /\ f \in FrameType /\ f.kind = "migrate" /\ f.s = Top.s /\ f.at = next /\ f.arg = arg
      /\ f.chain = Top.chain /\ f.meddled = Top.meddled
  <2>1. next \in Places /\ arg \in (SUBSET Keys) \cup Values \cup Marks \cup Differences
    OBVIOUS
  <2> QED BY <1>2, <1>3, <2>1 DEF FrameType
<1> HIDE DEF f
<1>5. Proper(f) /\ f.at # "into"
  BY <1>4 DEF Proper, Phases, Pending
<1>6. Fine(stack', stack)
  <2>1. SameFrames(Below, Tail(stack))
    BY <1>3 DEF SameFrames
  <2> QED BY <1>1, <1>2, <1>3, <1>4, <1>5, <2>1, SwapFine
<1>7. Chained(stack', sess')
  <2>1. Fits(Top, sess)
    BY <1>1, <1>3 DEF Chained
  <2>2. Fits(f, sess)
    BY <1>2, <1>4, <2>1 DEF Fits
  <2>3. Chained(stack', sess)
    BY <1>2, <1>3, <1>4, <1>5, <2>2, PushChained
  <2> QED BY <2>3
<1>8. stack'[1] = f
  BY <1>2, <1>3, <1>4, Pushing
<1>9. Typed'
  BY <1>1 DEF Typed
<1>10. Shape(stack') /\ InTx(stack') /\ stack'[Len(stack') - 1].kind = "migrate"
  BY <1>2, <1>3, <1>6 DEF Fine
<1>11. /\ sess["tx"].tx = "open" /\ sess["plain"].tx # "open" /\ outcome = "none" /\ db = before
       /\ task = "migrate" /\ db.tmp = NoTable
  BY <1>1, <1>2, <1>3 DEF Transactions
<1>12. Transactions'
  BY <1>10, <1>11 DEF Transactions, AllOrNothing
<1>13. Migrating'
  <2>1. Stage(f, work', before)
    BY <1>4
  <2> QED BY <1>8, <1>11, <2>1 DEF Migrating, MigrationKeeps, Top
<1> QED BY <1>1, <1>7, <1>9, <1>10, <1>12, <1>13 DEF IInv, StatementsAsChained

\* The step of Migrate that panics.
LEMMA MigrateRaises ==
    ASSUME IInv, Top.kind = "migrate", Raise,
           UNCHANGED <<db, work, sess, last, outcome, task, before>>
    PROVE  IInv'
<1>1. /\ Typed /\ Shape(stack) /\ Chained(stack, sess) /\ StatementsAsChained /\ Transactions
      /\ Migrating
  BY DEF IInv
<1>2. Fine(stack', stack) /\ Chained(stack', sess) /\ stack'[1].kind = "panic"
  BY <1>1, RaiseFine
<1>3. Typed' /\ StatementsAsChained'
  BY <1>1 DEF Typed, StatementsAsChained
<1>4. /\ Shape(stack') /\ (InTx(stack') <=> InTx(stack))
      /\ InTx(stack) => stack'[Len(stack') - 1].kind = stack[Len(stack) - 1].kind
  BY <1>2 DEF Fine
<1>5. Chained(stack', sess')
  BY <1>2
<1>6. Transactions'
  BY <1>1, <1>4 DEF Transactions, AllOrNothing
<1>7. Migrating'
  BY <1>1, <1>2 DEF Migrating, MigrationKeeps, Top
<1> QED BY <1>3, <1>4, <1>5, <1>6, <1>7 DEF IInv

\* What Migrate may rely on.
LEMMA MigrateKnows ==
    ASSUME IInv, Top.kind = "migrate"
    PROVE  /\ Stage(Top, work, before) /\ work \in Databases /\ before \in Databases
           /\ before.tmp = NoTable
           /\ Top.at = "alter" => Top.arg \in Differences
<1>1. Typed /\ Shape(stack) /\ Chained(stack, sess) /\ Transactions /\ Migrating
  BY DEF IInv
<1>2. InTx(stack) /\ Proper(Top)
  BY <1>1, FunctionOverUser
<1> QED BY <1>1, <1>2 DEF Typed, Transactions, Migrating, Proper

LEMMA MigrateHasInv ==
    ASSUME IInv, Top.kind = "migrate", MigrateHas
    PROVE  IInv'
<1>1. Stage(Top, work, before) /\ work \in Databases
  BY MigrateKnows
<1>2. UNCHANGED <<db, work, sess, last, outcome, task, before>>
  BY DEF MigrateHas, Unstored
<1>3. Top.at = "has"
  BY DEF MigrateHas, Step
<1>4. work = before
  BY <1>1, <1>3 DEF Stage
<1>5. {} \in {{}} \cup Differences
  OBVIOUS
<1>6. CASE work.main # NoTable /\ Step("has", "select", {})
  <2>1. "select" \in Places \ Phases
    BY DEF Places, Phases, Pending
  <2>2. \A f : f.at = "select" /\ f.arg = {} => Stage(f, work', before)
    BY <1>2, <1>4, <1>6 DEF Stage
  <2> QED BY <1>1, <1>2, <1>5, <1>6, <2>1, <2>2, MigrateGoesOn
<1>7. CASE Step("has", "create", {})
  <2>1. "create" \in Places \ Phases
    BY DEF Places, Phases, Pending
  <2>2. \A f : f.at = "create" /\ f.arg = {} => Stage(f, work', before)
    BY <1>2, <1>4 DEF Stage
  <2> QED BY <1>1, <1>2, <1>5, <1>7, <2>1, <2>2, MigrateGoesOn
<1> QED BY <1>6, <1>7 DEF MigrateHas

LEMMA MigrateCreateInv ==
    ASSUME IInv, Top.kind = "migrate", MigrateCreate
    PROVE  IInv'
<1>1. Stage(Top, work, before) /\ work \in Databases /\ before.tmp = NoTable
  BY MigrateKnows
<1>2. UNCHANGED <<db, sess, last, outcome, task, before>>
  BY DEF MigrateCreate, Stored, Unstored
<1>3. Top.at = "create"
  BY DEF MigrateCreate, Step
<1>4. work = before
  BY <1>1, <1>3 DEF Stage
<1>5. {} \in {{}} \cup Differences /\ "ok" \in Places \ Phases /\ "error" \in Places \ Phases
  BY DEF Places, Phases, Pending
<1>6. CASE work.main = NoTable /\ Step("create", "ok", {}) /\ Stored(NewTable)
  <2>1. work' = [work EXCEPT !.main = NewTable] /\ NewTable \in Tables
    BY <1>6, NewTableMade DEF Stored
  <2>2. work' \in Databases /\ work'.main = NewTable /\ work'.tmp = NoTable
    BY <1>1, <1>4, <2>1 DEF Databases
  <2>3. NewTable # NoTable /\ NewTable.cols = Fields
    BY <2>1, SessionAssumption DEF NewTable
  <2>4. Migrated(work', before)
    BY <1>4, <1>6, <2>2, <2>3 DEF Migrated
  <2>5. \A f : f.at = "ok" /\ f.arg = {} => Stage(f, work', before)
    BY <2>4 DEF Stage
  <2> QED BY <1>2, <1>5, <1>6, <2>2, <2>5, MigrateGoesOn
<1>7. CASE Step("create", "error", {}) /\ Unstored
  <2>1. work' = work
    BY <1>7 DEF Unstored
  <2>2. \A f : f.at = "error" /\ f.arg = {} => Stage(f, work', before)
    BY DEF Stage
  <2> QED BY <1>1, <1>2, <1>5, <1>7, <2>1, <2>2, MigrateGoesOn
<1> QED BY <1>6, <1>7 DEF MigrateCreate

LEMMA MigrateSelectInv ==
    ASSUME IInv, Top.kind = "migrate", MigrateSelect
    PROVE  IInv'
<1> DEFINE arg == [add |-> Fields \ work.main.cols, del |-> work.main.cols \ Fields]
<1>1. Stage(Top, work, before) /\ work \in Databases /\ before.tmp = NoTable
  BY MigrateKnows
<1>2. UNCHANGED <<db, work, sess, last, outcome, task, before>>
  BY DEF MigrateSelect, Unstored
<1>3. CASE Step("select", "alter", arg)
  <2>1. Top.at = "select"
    BY <1>3 DEF Step
  <2>2. work = before /\ before.main # NoTable /\ before.main \in Tables
    BY <1>1, <2>1 DEF Stage, Databases
  <2>3. before.main.cols \in SUBSET Columns /\ Fields \subseteq Columns
    BY <2>2, TablesAre, SessionAssumption
  <2>4. arg \in Differences /\ arg.add = Fields \ before.main.cols
        /\ arg.del = before.main.cols \ Fields
    BY <2>2, <2>3 DEF Differences
  <2> HIDE DEF arg
  <2>5. Altered(before.main, before.main, arg.add)
    BY <2>2, <2>4 DEF Altered, SameRows
  <2>6. \A f : f.at = "alter" /\ f.arg = arg => Stage(f, work', before)
    BY <1>1, <1>2, <2>2, <2>4, <2>5 DEF Stage
  <2>7. "alter" \in Places \ Phases
    BY DEF Places, Phases, Pending
  <2> QED BY <1>1, <1>2, <1>3, <2>4, <2>6, <2>7, MigrateGoesOn
<1>4. CASE Raise
  BY <1>2, <1>4, MigrateRaises
<1> QED BY <1>3, <1>4 DEF MigrateSelect

\* A column added to a table, without a value.
LEMMA ColumnAdded ==
    ASSUME NEW t \in Tables, NEW old, NEW add, Altered(t, old, add), NEW c \in add
    PROVE  LET cols == t.cols \cup {c}
               new == [t EXCEPT !.cols = cols, !.rows = [k \in DOMAIN @ |->
                          [f \in cols |-> IF f = c THEN Null ELSE @[k][f]]]]
           IN new \in Tables /\ Altered(new, old, add \ {c})
<1> DEFINE cols == t.cols \cup {c}
           row(k) == [f \in cols |-> IF f = c THEN Null ELSE t.rows[k][f]]
           rows == [k \in DOMAIN t.rows |-> row(k)]
           new == [t EXCEPT !.cols = cols, !.rows = rows]
           made == [cols |-> cols, pk |-> t.pk, rows |-> rows]
<1>1. /\ t.cols \in SUBSET Columns /\ t.pk \in BOOLEAN /\ DOMAIN t.rows \in SUBSET Keys
      /\ t.rows \in [DOMAIN t.rows -> [t.cols -> Values \cup {Null}]]
      /\ t = [cols |-> t.cols, pk |-> t.pk, rows |-> t.rows]
  BY TablesAre
<1>2. /\ old # NoTable /\ t.pk = old.pk /\ add \subseteq Fields \ old.cols
      /\ t.cols = old.cols \cup (Fields \ add) /\ SameRows(t, old, t.cols)
  BY DEF Altered
<1>3. c \in Fields /\ c \notin old.cols /\ c \in Columns /\ c \notin t.cols
  BY <1>2, SessionAssumption
<1>4. \A k \in DOMAIN t.rows : row(k) \in [cols -> Values \cup {Null}]
  BY <1>1
<1>5. /\ cols \in SUBSET Columns
      /\ cols = old.cols \cup (Fields \ (add \ {c}))
  BY <1>1, <1>2, <1>3
<1>6. \A k \in DOMAIN t.rows, f \in cols :
         row(k)[f] = IF f = c THEN Null ELSE t.rows[k][f]
  OBVIOUS
<1>7. \A f \in cols : f = c \/ f \in t.cols
  OBVIOUS
<1> HIDE DEF row, cols
<1>8. rows \in [DOMAIN t.rows -> [cols -> Values \cup {Null}]] /\ DOMAIN rows = DOMAIN t.rows
      /\ \A k \in DOMAIN t.rows : rows[k] = row(k)
  BY <1>4
<1> HIDE DEF rows
<1>9. made \in Tables
  BY <1>1, <1>5, <1>8, TableMade, Zenon
<1>10. new = made
  <2>1. t = [cols |-> t.cols, pk |-> t.pk, rows |-> t.rows]
    BY <1>1
  <2>2. t \in [cols : {t.cols}, pk : {t.pk}, rows : {t.rows}]
    BY <2>1
  <2>3. made \in [cols : {cols}, pk : {t.pk}, rows : {rows}]
    OBVIOUS
  <2>4. new \in [cols : {cols}, pk : {t.pk}, rows : {rows}]
    BY <2>2
  <2> QED BY <2>3, <2>4
<1>11. made.cols = cols /\ made.pk = t.pk /\ made.rows = rows
  OBVIOUS
<1>12. made # NoTable
  BY <1>9, SessionAssumption
<1> HIDE DEF made
<1>13. SameRows(made, old, cols)
  <2>1. DOMAIN rows = DOMAIN old.rows
    BY <1>2, <1>8 DEF SameRows
  <2>2. ASSUME NEW k \in DOMAIN old.rows, NEW f \in cols
        PROVE  rows[k][f] = IF f \in old.cols THEN old.rows[k][f] ELSE Null
    <3>1. k \in DOMAIN t.rows /\ rows[k][f] = IF f = c THEN Null ELSE t.rows[k][f]
      BY <1>6, <1>8, <2>1
    <3>2. CASE f = c
      BY <1>3, <3>1, <3>2
    <3>3. CASE f # c
      <4>1. f \in t.cols
        BY <1>7, <3>3
      <4>2. t.rows[k][f] = IF f \in old.cols THEN old.rows[k][f] ELSE Null
        BY <1>2, <4>1 DEF SameRows
      <4> QED BY <3>1, <3>3, <4>2
    <3> QED BY <3>2, <3>3
  <2> QED BY <1>11, <2>1, <2>2 DEF SameRows
<1>14. Altered(made, old, add \ {c})
  BY <1>2, <1>5, <1>11, <1>12, <1>13 DEF Altered
<1>15. new \in Tables /\ Altered(new, old, add \ {c})
  BY <1>9, <1>10, <1>14
<1> QED BY <1>15 DEF new, rows, row, cols

LEMMA MigrateAlterInv ==
    ASSUME IInv, Top.kind = "migrate", MigrateAlter
    PROVE  IInv'
<1>1. /\ Stage(Top, work, before) /\ work \in Databases /\ before.tmp = NoTable
      /\ Top.at = "alter" /\ Top.arg \in Differences
  BY MigrateKnows DEF MigrateAlter
<1>2. UNCHANGED <<db, sess, last, outcome, task, before>>
  BY DEF MigrateAlter, Stored, Unstored
<1>3. /\ work.tmp = NoTable /\ Altered(work.main, before.main, Top.arg.add)
      /\ Top.arg.del = before.main.cols \ Fields
      /\ work.main \in Tables
  BY <1>1 DEF Stage, Altered, Databases
<1>4. /\ {} \in {{}} \cup Differences /\ "ok" \in Places \ Phases /\ "error" \in Places \ Phases
      /\ "alter" \in Places \ Phases /\ "copy" \in Places \ Phases
  BY DEF Places, Phases, Pending
<1>5. ASSUME NEW c \in Top.arg.add,
             LET t == work.main
                 cols == t.cols \cup {c}
             IN /\ Step("alter", "alter", [Top.arg EXCEPT !.add = @ \ {c}])
                /\ Stored([t EXCEPT !.cols = cols, !.rows = [k \in DOMAIN @ |->
                             [f \in cols |-> IF f = c THEN Null ELSE @[k][f]]]])
      PROVE  IInv'
  <2> DEFINE t == work.main
             cols == t.cols \cup {c}
             new == [t EXCEPT !.cols = cols, !.rows = [k \in DOMAIN @ |->
                             [f \in cols |-> IF f = c THEN Null ELSE @[k][f]]]]
             arg == [Top.arg EXCEPT !.add = @ \ {c}]
  <2>1. new \in Tables /\ Altered(new, before.main, Top.arg.add \ {c})
    BY <1>3, ColumnAdded
  <2>2. Step("alter", "alter", arg) /\ work' = [work EXCEPT !.main = new]
    BY <1>5 DEF Stored
  <2> HIDE DEF new
  <2>3. work' \in Databases /\ work'.main = new /\ work'.tmp = NoTable
    BY <1>1, <1>3, <2>1, <2>2 DEF Databases
  <2>4. arg \in Differences /\ arg.add = Top.arg.add \ {c} /\ arg.del = Top.arg.del
    BY <1>1 DEF Differences
  <2> HIDE DEF arg
  <2>5. \A f : f.at = "alter" /\ f.arg = arg => Stage(f, work', before)
    BY <1>3, <2>1, <2>3, <2>4 DEF Stage
  <2> QED BY <1>2, <1>4, <2>2, <2>3, <2>4, <2>5, MigrateGoesOn
<1>6. CASE Step("alter", "error", {}) /\ Unstored
  <2>1. work' = work
    BY <1>6 DEF Unstored
  <2>2. \A f : f.at = "error" /\ f.arg = {} => Stage(f, work', before)
    BY DEF Stage
  <2> QED BY <1>1, <1>2, <1>4, <1>6, <2>1, <2>2, MigrateGoesOn
<1>7. CASE /\ Top.arg.add = {} /\ Unstored
           /\ Step("alter", IF Top.arg.del = {} THEN "ok" ELSE "copy", {})
  <2>1. work' = work
    BY <1>7 DEF Unstored
  <2>2. Altered(work.main, before.main, {})
    BY <1>3, <1>7
  <2>3. CASE Top.arg.del = {}
    <3>1. Step("alter", "ok", {})
      BY <1>7, <2>3
    <3>2. /\ work.main # NoTable /\ work.main.pk = before.main.pk
          /\ work.main.cols = before.main.cols \cup Fields
          /\ SameRows(work.main, before.main, work.main.cols)
      BY <2>2 DEF Altered
    <3>3. before.main.cols \subseteq Fields /\ work.main.cols = Fields
      BY <1>3, <2>3, <3>2
    <3>4. Migrated(work, before)
      BY <1>3, <3>2, <3>3 DEF Migrated
    <3>5. \A f : f.at = "ok" /\ f.arg = {} => Stage(f, work', before)
      BY <2>1, <3>4 DEF Stage
    <3> QED BY <1>1, <1>2, <1>4, <2>1, <3>1, <3>5, MigrateGoesOn
  <2>4. CASE Top.arg.del # {}
    <3>1. Step("alter", "copy", {})
      BY <1>7, <2>4
    <3>2. \A f : f.at = "copy" /\ f.arg = {} => Stage(f, work', before)
      BY <1>3, <2>1, <2>2, <2>4 DEF Stage
    <3> QED BY <1>1, <1>2, <1>4, <2>1, <3>1, <3>2, MigrateGoesOn
  <2> QED BY <2>3, <2>4
<1>8. \/ \E c \in Top.arg.add :
            LET t == work.main
                cols == t.cols \cup {c}
            IN /\ Step("alter", "alter", [Top.arg EXCEPT !.add = @ \ {c}])
               /\ Stored([t EXCEPT !.cols = cols, !.rows = [k \in DOMAIN @ |->
                            [f \in cols |-> IF f = c THEN Null ELSE @[k][f]]]])
      \/ Step("alter", "error", {}) /\ Unstored
      \/ /\ Top.arg.add = {} /\ Unstored
         /\ Step("alter", IF Top.arg.del = {} THEN "ok" ELSE "copy", {})
  BY DEF MigrateAlter
<1> QED BY <1>5, <1>6, <1>7, <1>8

\* The copy has the model's columns.
LEMMA Copied ==
    ASSUME NEW t \in Tables, NEW old, Altered(t, old, {})
    PROVE  /\ Copy(t) \in Tables /\ Copy(t).cols = Fields /\ Copy(t).pk = FALSE
           /\ SameRows(Copy(t), old, Fields)
<1> DEFINE row(k) == [f \in Fields |-> t.rows[k][f]]
           rows == [k \in DOMAIN t.rows |-> row(k)]
           made == [cols |-> Fields, pk |-> FALSE, rows |-> rows]
<1>1. /\ DOMAIN t.rows \in SUBSET Keys
      /\ t.rows \in [DOMAIN t.rows -> [t.cols -> Values \cup {Null}]]
  BY TablesAre
<1>2. Fields \subseteq t.cols /\ SameRows(t, old, t.cols) /\ Fields \in SUBSET Columns
  BY SessionAssumption DEF Altered
<1>3. \A k \in DOMAIN t.rows : /\ row(k) \in [Fields -> Values \cup {Null}]
                               /\ \A f \in Fields : row(k)[f] = t.rows[k][f]
  BY <1>1, <1>2
<1>4. Copy(t) = made
  BY DEF Copy
<1> HIDE DEF row
<1>5. /\ rows \in [DOMAIN t.rows -> [Fields -> Values \cup {Null}]]
      /\ DOMAIN rows = DOMAIN t.rows /\ \A k \in DOMAIN t.rows : rows[k] = row(k)
  BY <1>3
<1> HIDE DEF rows
<1>6. made \in Tables
  BY <1>1, <1>2, <1>5, TableMade, Zenon
<1>7. made.cols = Fields /\ made.pk = FALSE /\ made.rows = rows
  OBVIOUS
<1> HIDE DEF made
<1>8. SameRows(made, old, Fields)
  <2>1. DOMAIN rows = DOMAIN old.rows
    BY <1>2, <1>5 DEF SameRows
  <2>2. ASSUME NEW k \in DOMAIN old.rows, NEW f \in Fields
        PROVE  rows[k][f] = IF f \in old.cols THEN old.rows[k][f] ELSE Null
    <3>1. rows[k][f] = t.rows[k][f]
      BY <1>3, <1>5, <2>1
    <3>2. t.rows[k][f] = IF f \in old.cols THEN old.rows[k][f] ELSE Null
      BY <1>2 DEF SameRows
    <3> QED BY <3>1, <3>2
  <2> QED BY <1>7, <2>1, <2>2 DEF SameRows
<1> QED BY <1>4, <1>6, <1>7, <1>8

LEMMA MigrateCopyInv ==
    ASSUME IInv, Top.kind = "migrate", MigrateCopy
    PROVE  IInv'
<1>1. /\ Stage(Top, work, before) /\ work \in Databases /\ before.tmp = NoTable
      /\ Top.at = "copy"
  BY MigrateKnows DEF MigrateCopy
<1>2. UNCHANGED <<db, sess, last, outcome, task, before>>
  BY DEF MigrateCopy
<1>3. /\ work.tmp = NoTable /\ Altered(work.main, before.main, {})
      /\ before.main.cols \ Fields # {}
      /\ work.main \in Tables /\ before.main # NoTable
  BY <1>1 DEF Stage, Altered, Databases
<1>4. {} \in {{}} \cup Differences /\ "ok" \in Places \ Phases /\ "error" \in Places \ Phases
  BY DEF Places, Phases, Pending
<1>5. /\ Copy(work.main) \in Tables /\ Copy(work.main).cols = Fields
      /\ Copy(work.main).pk = FALSE
      /\ SameRows(Copy(work.main), before.main, Fields)
  BY <1>3, Copied
<1>6. PICK n \in 0 .. 3 :
         /\ work' = [main |-> IF n = 3 THEN Copy(work.main)
                              ELSE IF n = 2 THEN NoTable ELSE work.main,
                     tmp |-> IF n \in {1, 2} THEN Copy(work.main) ELSE NoTable]
         /\ Step("copy", IF n = 3 THEN "ok" ELSE "error", {})
  BY DEF MigrateCopy
<1>7. work' \in Databases
  BY <1>3, <1>5, <1>6 DEF Databases
<1>8. CASE n = 3
  <2>1. work'.main = Copy(work.main) /\ work'.tmp = NoTable /\ Step("copy", "ok", {})
    BY <1>6, <1>8
  <2>2. Copy(work.main) # NoTable
    BY <1>5, SessionAssumption
  <2>3. Migrated(work', before)
    BY <1>3, <1>5, <2>1, <2>2 DEF Migrated
  <2>4. \A f : f.at = "ok" /\ f.arg = {} => Stage(f, work', before)
    BY <2>3 DEF Stage
  <2> QED BY <1>2, <1>4, <1>7, <2>1, <2>4, MigrateGoesOn
<1>9. CASE n # 3
  <2>1. Step("copy", "error", {})
    BY <1>6, <1>9
  <2>2. \A f : f.at = "error" /\ f.arg = {} => Stage(f, work', before)
    BY DEF Stage
  <2> QED BY <1>2, <1>4, <1>7, <2>1, <2>2, MigrateGoesOn
<1> QED BY <1>8, <1>9

LEMMA InvInit == Init => IInv
<1> SUFFICES ASSUME Init
             PROVE  IInv
  OBVIOUS
<1> DEFINE f == Frame("user", "plain", "", {})
<1>1. Empty \in Clauses /\ Fresh("nil") \in SessionType /\ Fresh("nil").tx = "nil"
      /\ Fresh("nil").clause = Empty
  BY DEF Empty, Clauses, Fresh, SessionType
<1>2. /\ db \in Databases /\ db.tmp = NoTable /\ work = db /\ before = db
      /\ sess = [s \in Sessions |-> Fresh("nil")] /\ stack = <<f>> /\ outcome = "none"
      /\ last.used = last.wanted
  BY GeeOrmAssumption DEF Init, Databases
<1>3. /\ f \in FrameType /\ f.kind = "user" /\ f.s = "plain" /\ f.at = "" /\ f.chain = Empty
  <2>1. /\ "user" \in Operations \cup Code \cup {"migrate", "panic"} /\ "" \in Places
        /\ "plain" \in Sessions /\ {} \in (SUBSET Keys) \cup Values \cup Marks \cup Differences
    BY DEF Code, Places, Sessions
  <2>2. f \in FrameType
    BY <2>1, FrameMade, Zenon
  <2> QED BY <2>2 DEF Frame
<1> HIDE DEF f
<1>4. Proper(f) /\ f.at # "into"
  BY <1>3 DEF Proper, Phases, Pending
<1>5. stack \in Seq(FrameType) /\ Len(stack) = 1 /\ stack[1] = f
  <2>1. <<f>> \in Seq(FrameType) /\ Len(<<f>>) = 1 /\ <<f>>[1] = f
    BY <1>3, OneFrame, Zenon
  <2> QED BY <1>2, <2>1, Zenon
<1>6. Shape(stack) /\ ~InTx(stack)
  <2>1. /\ \A i \in 1 .. Len(stack) : i = 1
        /\ \A i \in 1 .. Len(stack) - 1 : FALSE
        /\ \A i \in 1 .. Len(stack) - 2 : FALSE
        /\ \A i \in 2 .. Len(stack) : FALSE
    BY <1>5
  <2>2. ~InTx(stack)
    BY <1>5 DEF InTx
  <2>3. stack[Len(stack)] = f /\ Len(stack) > 0
    BY <1>5
  <2>4. \A i \in 1 .. Len(stack) : Proper(stack[i])
    BY <1>4, <1>5, <2>1
  <2> QED BY <1>3, <1>5, <2>1, <2>2, <2>3, <2>4, Zenon DEF Shape
<1>7. "plain" \in Sessions /\ "tx" \in Sessions
  BY DEF Sessions
<1>8. Chained(stack, sess)
  <2>1. Fits(f, sess)
    BY <1>1, <1>2, <1>3, <1>7 DEF Fits
  <2>2. Rest(stack, sess)
    <3>1. (\A i \in 1 .. 1 : i = 1) /\ (\A i \in 2 .. 1 : FALSE)
      OBVIOUS
    <3> QED BY <1>4, <1>5, <3>1 DEF Rest
  <2> QED BY <1>5, <2>1, <2>2 DEF Chained
<1>9. Typed
  BY <1>1, <1>2 DEF Typed
<1>10. Transactions
  BY <1>1, <1>2, <1>6, <1>7 DEF Transactions, AllOrNothing
<1>11. Migrating
  BY <1>2, <1>3, <1>5 DEF Migrating, MigrationKeeps, Top
<1> QED BY <1>2, <1>6, <1>8, <1>9, <1>10, <1>11 DEF IInv, StatementsAsChained

LEMMA InvStep == IInv /\ [Next]_vars => IInv'
<1> SUFFICES ASSUME IInv, [Next]_vars
             PROVE  IInv'
  OBVIOUS
<1>1. CASE SessionStep
  BY <1>1, SessionStepInv
<1>2. CASE UserTx
  BY <1>2, UserTxInv
<1>3. CASE Transaction("tf") \/ Transaction("migrate")
  BY <1>3, TransactionInv
<1>4. CASE TxReturns
  BY <1>4, TxReturnsInv
<1>5. CASE TxPanics
  BY <1>5, TxPanicsInv
<1>6. CASE Migration
  BY <1>6, MigrateHasInv, MigrateCreateInv, MigrateSelectInv, MigrateAlterInv, MigrateCopyInv
     DEF Migration
<1>7. CASE UNCHANGED vars
  BY <1>7 DEF vars, sessionVars, IInv, Typed, StatementsAsChained, Transactions, AllOrNothing,
              Migrating, MigrationKeeps, Top
<1> QED BY <1>1, <1>2, <1>3, <1>4, <1>5, <1>6, <1>7 DEF Next

LEMMA Invariance == Spec => []IInv
BY InvInit, InvStep, PTL DEF Spec

-----------------------------------------------------------------------------
(* The theorems. *)

\* Every variable keeps to its type, and the user stays at the bottom of the stack.
THEOREM TypeCorrect == Spec => []TypeOK
<1>1. IInv => TypeOK
  <2> SUFFICES ASSUME IInv
               PROVE  TypeOK
    OBVIOUS
  <2>1. Typed /\ Shape(stack)
    BY DEF IInv
  <2>2. stack # <<>> /\ stack[Len(stack)].kind = "user"
    BY <2>1 DEF Shape
  <2> QED BY <2>1, <2>2 DEF Typed, TypeOK, Databases, SessionType
<1> QED BY <1>1, Invariance, PTL

\* A Transaction or Migrate that fails or panics has changed nothing, one that
\* succeeds has committed all it did, and none stays open: for every function,
\* every hook, and every statement that may fail.
THEOREM Atomic == Spec => []AllOrNothing
<1>1. IInv => AllOrNothing
  BY DEF IInv, Transactions
<1> QED BY <1>1, Invariance, PTL

\* No operation loses a condition chained for it, or takes one left over from
\* another statement, unless code has changed the session's clauses in between.
THEOREM OwnConditions == Spec => []StatementsAsChained
<1>1. IInv => StatementsAsChained
  BY DEF IInv
<1> QED BY <1>1, Invariance, PTL

\* A Migrate that succeeds keeps every row, and of it what the model still has.
THEOREM RowsMigrate == Spec => []MigrationKeeps
<1>1. IInv => MigrationKeeps
  BY DEF IInv, Migrating
<1> QED BY <1>1, Invariance, PTL
=============================================================================

------------------------------- MODULE Session -------------------------------
(***************************************************************************)
(* geeorm/session: a Session, as the code that uses it and its hooks see   *)
(* it.  Chained calls put clauses into the session, a record operation     *)
(* builds a statement from them, executes it and clears them.  Between the *)
(* two, and afterwards, CallMethod hands the same session to a hook of the *)
(* model, which may call whatever it likes.                                *)
(*                                                                         *)
(* One goroutine uses a session: its call stack is the variable stack.     *)
(* Frames of code ("user", "tf", "hook") call the session, the others are  *)
(* operations under way.  Of the SQL text only the clauses matter that the *)
(* caller chooses; rows come in any order, whatever is set by OrderBy.     *)
(*                                                                         *)
(* The database has one table, given by its columns other than the key,    *)
(* and by its rows.                                                        *)
(***************************************************************************)
EXTENDS Naturals, Sequences, FiniteSets

CONSTANTS Keys,      \* primary keys
          Columns,   \* columns a table may have beside the key
          Fields,    \* those that are fields of the model
          Values,    \* what columns hold
          Null,      \* ... or nothing
          NoTable,
          NoClause,  \* a clause that is not set
          Wheres,    \* conditions passed to Where, as the keys they select
          Batches,   \* keys of the records passed to one Insert
          Hooks,     \* hook methods the model has
          MaxDepth,  \* bound on the calls from hooks
          MaxCalls   \* bound on the calls from code

Sessions == {"plain", "tx"}   \* the user's own, and the one of Transaction

\* A table may lack the PRIMARY KEY, and each row has a value or none in each column.
Tables ==
    UNION {[cols : {cs}, pk : BOOLEAN, rows : UNION {[ks -> [cs -> Values \cup {Null}]] :
              ks \in SUBSET Keys}] : cs \in SUBSET Columns}

ASSUME SessionAssumption ==
    /\ Fields \subseteq Columns /\ Null \notin Values /\ Values # {} /\ NoTable \notin Tables
    /\ Wheres \subseteq SUBSET Keys /\ NoClause \notin Wheres /\ NoClause # 1
    /\ Batches \subseteq SUBSET Keys /\ \A b \in Batches : Cardinality(b) \in 1 .. 2
    /\ MaxDepth \in Nat /\ MaxCalls \in Nat

VARIABLES db,     \* the committed database: the table, and a temporary one
          work,   \* the database as the open transaction sees it
          sess,   \* per session: clause, tx, and whether refTable is set
          stack,  \* frames, innermost first
          calls,  \* how many calls code has made
          last    \* history: the statement executed last

sessionVars == <<db, work, sess, stack, calls, last>>

\* clause.Clause, as far as statements differ by it: Set and Build.
Types == {"INSERT", "WHERE", "ORDERBY", "LIMIT"}
Empty == [t \in Types |-> NoClause]
Set(clause, t, value) == [clause EXCEPT ![t] = value]
Build(clause, types) == [t \in Types |-> IF t \in types THEN clause[t] ELSE NoClause]

\* The clauses each operation builds its statement from.
TypesOf(kind) ==
    CASE kind = "insert" -> {"INSERT"}
      [] kind \in {"find", "first"} -> {"WHERE", "ORDERBY", "LIMIT"}
      [] kind \in {"update", "delete", "count"} -> {"WHERE"}
      [] OTHER -> {}

\* chain is what the frame's code has asked for since its last statement;
\* meddled, that another frame has changed the session's clauses meanwhile.
Frame(kind, s, at, arg) ==
    [kind |-> kind, s |-> s, at |-> at, arg |-> arg, chain |-> Empty, meddled |-> FALSE]

Fresh(tx) == [clause |-> Empty, tx |-> tx, model |-> FALSE]

Code == {"user", "tf", "hook"}
Top == stack[1]
Below == Tail(stack)
Here == sess[Top.s]

-----------------------------------------------------------------------------
(* The database. *)

NewTable == [cols |-> Fields, pk |-> TRUE, rows |-> <<>>]

\* What a statement of the session is executed on, and what it leaves.
Current == IF Here.tx = "open" THEN work ELSE db
Store(d) ==
    IF Here.tx = "open" THEN work' = d /\ UNCHANGED db ELSE db' = d /\ UNCHANGED work

Selected(t, c) == IF c["WHERE"] = NoClause THEN DOMAIN t.rows ELSE DOMAIN t.rows \cap c["WHERE"]

\* The rows with some of them new or replaced.
Put(new, rows) ==
    [k \in DOMAIN new \cup DOMAIN rows |-> IF k \in DOMAIN new THEN new[k] ELSE rows[k]]

\* The table after an operation whose statement was built from c.  VALUES
\* without INSERT INTO is a query.
After(op, t, c) ==
    CASE op.kind = "insert" /\ c["INSERT"] # NoClause ->
           [t EXCEPT !.rows =
               Put([k \in op.arg |-> [f \in t.cols |-> CHOOSE v \in Values : TRUE]], @)]
      [] op.kind = "update" ->
           [t EXCEPT !.rows = Put([k \in Selected(t, c) |->
               [f \in t.cols |-> IF f \in Fields THEN op.arg ELSE t.rows[k][f]]], @)]
      [] op.kind = "delete" ->
           [t EXCEPT !.rows = [k \in DOMAIN @ \ Selected(t, c) |-> @[k]]]
      [] op.kind = "create" -> NewTable
      [] op.kind = "drop" -> NoTable
      [] OTHER -> t

\* The database accepts the statement built from c: the table and its columns are
\* there, and no key twice (the only way to have one twice is a table that has
\* lost its PRIMARY KEY; such inserts are left out).
Accepts(op, t, c) ==
    LET inserts == op.kind = "insert" /\ c["INSERT"] # NoClause
    IN /\ op.kind = "create" => t = NoTable
       /\ inserts \/ op.kind \in {"find", "first", "update", "delete", "count"} => t # NoTable
       /\ inserts \/ op.kind \in {"find", "first", "update"} => Fields \subseteq t.cols
       /\ inserts => op.arg \cap DOMAIN t.rows = {}

-----------------------------------------------------------------------------
(* Calls from code. *)

Issue == Top.kind \in Code /\ calls < MaxCalls /\ calls' = calls + 1

\* Another frame has set a clause of the session s, or has cleared them all:
\* what the frame's code has chained is no longer what the session holds.
Disturbed(frames, s) ==
    [i \in DOMAIN frames |->
        [frames[i] EXCEPT !.meddled = @ \/ frames[i].s = s]]
Wiped(frames, s) ==
    [i \in DOMAIN frames |->
        [frames[i] EXCEPT !.meddled = IF frames[i].s = s THEN frames[i].chain # Empty ELSE @]]

\* Session.Model on a session without a table.
Model ==
    /\ Issue /\ ~Here.model
    /\ sess' = [sess EXCEPT ![Top.s].model = TRUE]
    /\ UNCHANGED <<db, work, stack, last>>

\* Where, OrderBy and Limit: a second one replaces the first.
Chain(t, value) ==
    /\ Issue
    /\ sess' = [sess EXCEPT ![Top.s].clause = Set(@, t, value)]
    /\ stack' = <<[Top EXCEPT !.chain = Set(@, t, value)]>> \o Disturbed(Below, Top.s)
    /\ UNCHANGED <<db, work, last>>

\* A call of a record or table operation.  First is Limit(1) and then Find.
Call(kind, arg) ==
    /\ Issue /\ Len(stack) < MaxDepth
    /\ LET limit(c) == IF kind = "first" THEN Set(c, "LIMIT", 1) ELSE c
           op == [Frame(kind, Top.s, IF kind \in {"insert", "find", "first", "update", "delete"}
                                     THEN "before" ELSE "run", arg)
                  EXCEPT !.chain = limit(Top.chain), !.meddled = Top.meddled]
           code == [Top EXCEPT !.chain = Empty, !.meddled = FALSE]
       IN /\ stack' = <<op, code>> \o (IF kind = "first" THEN Disturbed(Below, Top.s) ELSE Below)
          /\ sess' = [sess EXCEPT ![Top.s].clause = limit(@)]
    /\ UNCHANGED <<db, work, last>>

\* The code of a hook returns: an error is only logged, the operation goes on.
HookReturns ==
    /\ Top.kind = "hook"
    /\ stack' = Below
    /\ UNCHANGED <<db, work, sess, calls, last>>

Raise == stack' = <<Frame("panic", Top.s, "", {})>> \o stack

Throw ==
    /\ Top.kind \in {"hook", "tf"}
    /\ Raise
    /\ UNCHANGED <<db, work, sess, calls, last>>

\* A panic leaves an operation or a hook: nothing is deferred there.  The user
\* at the bottom recovers it (as net/http does) and keeps the session.
Unwind ==
    /\ Top.kind = "panic"
    /\ \/ /\ Below[1].kind \notin {"user", "tf", "migrate"}
          /\ stack' = <<Top>> \o Tail(Below)
       \/ /\ Below[1].kind = "user"
          /\ stack' = Disturbed(Below, Top.s)
    /\ UNCHANGED <<db, work, sess, calls, last>>

-----------------------------------------------------------------------------
(* Operations. *)

\* CallMethod(name), after which frames go on: a hook of this name is handed the
\* session, with the clauses that are pending.  Without a refTable it panics.
CallMethod(name, frames) ==
    LET hook == [Frame("hook", Top.s, name, {}) EXCEPT
                   !.meddled = frames[1].meddled \/ frames[1].chain # Empty]
    IN IF ~Here.model THEN Raise
       ELSE stack' = IF name \in Hooks THEN <<hook>> \o frames ELSE frames

Moved(next) == <<[Top EXCEPT !.at = next]>> \o Below

\* The hook before an operation.
Before ==
    /\ Top.at = "before"
    /\ \/ Top.kind = "insert" /\ CallMethod("BeforeInsert", Moved("into"))
       \/ Top.kind \in {"find", "first"} /\ CallMethod("BeforeQuery", Moved("run"))
       \/ Top.kind = "update" /\ CallMethod("BeforeUpdate", Moved("run"))
       \/ Top.kind = "delete" /\ CallMethod("BeforeDelete", Moved("run"))
    /\ UNCHANGED <<db, work, sess, calls, last>>

\* Insert sets the INSERT clause, and calls the hook again if there is a second
\* record.
Into ==
    /\ Top.at = "into"
    /\ sess' = [sess EXCEPT ![Top.s].clause = Set(@, "INSERT", 1)]
    /\ LET frames == <<[Top EXCEPT !.at = "run", !.chain = Set(@, "INSERT", 1)]>>
                     \o Disturbed(Below, Top.s)
       IN IF Cardinality(Top.arg) > 1 THEN CallMethod("BeforeInsert", frames)
          ELSE stack' = frames
    /\ UNCHANGED <<db, work, calls, last>>

\* Mutant: Clear is not deferred, an error returns before it.
ClearIfOk(ok) == IF ok THEN Empty ELSE Here.clause

\* The deferred Clear of Exec, QueryRow and QueryRows.
Clear(ok) == Empty

\* What Find may get: one row of those selected under a LIMIT, or all of them.
\* Each is marked with whether it has a NULL, which Scan refuses.
Found(t, c) ==
    LET selected == Selected(t, c)
        sets == IF c["LIMIT"] = NoClause \/ selected = {} THEN {selected}
                ELSE {{k} : k \in selected}
    IN {[k \in ks |-> \E f \in Fields : t.rows[k][f] = Null] : ks \in sets}

\* The statement of the operation at hand is executed, or fails.  One of a
\* transaction that is over always fails.
Run ==
    /\ Top.at = "run" /\ (Here.model \/ Top.kind = "raw")
    /\ LET used == Build(Here.clause, TypesOf(Top.kind))
           rest == Wiped(Below, Top.s)
           then(at, arg) == <<Frame(Top.kind, Top.s, at, arg)>> \o rest
       IN /\ last' = [used |-> used, wanted |-> Build(Top.chain, TypesOf(Top.kind)),
                      meddled |-> Top.meddled]
          /\ \/ /\ Here.tx # "done" /\ Accepts(Top, Current.main, used)
                /\ sess' = [sess EXCEPT ![Top.s].clause = Clear(TRUE)]
                /\ Store([Current EXCEPT !.main = After(Top, @, used)])
                /\ \/ /\ Top.kind \in {"find", "first"}
                      /\ \E rows \in Found(Current.main, used) : stack' = then("rows", rows)
                   \/ Top.kind \in {"insert", "update", "delete"} /\ stack' = then("after", {})
                   \/ Top.kind \in {"count", "raw", "has", "create", "drop"} /\ stack' = rest
             \/ /\ sess' = [sess EXCEPT ![Top.s].clause = Clear(FALSE)]
                /\ stack' = rest
                /\ UNCHANGED <<db, work>>
    /\ UNCHANGED calls

\* Without a refTable CreateTable returns an error, the others dereference nil.
RunWithoutModel ==
    /\ Top.at = "run" /\ ~Here.model /\ Top.kind # "raw"
    /\ \/ /\ Top.kind = "create"
          /\ stack' = <<[Below[1] EXCEPT !.chain = Top.chain, !.meddled = Top.meddled]>>
                      \o Tail(Below)
       \/ Top.kind # "create" /\ Raise
    /\ UNCHANGED <<db, work, sess, calls, last>>

\* Find scans a row and hands it to AfterQuery, or returns: at the end, or
\* because Scan fails.
Rows ==
    /\ Top.at = "rows"
    /\ \/ DOMAIN Top.arg = {} /\ stack' = Below
       \/ \E k \in DOMAIN Top.arg :
             LET left == [j \in DOMAIN Top.arg \ {k} |-> Top.arg[j]]
             IN IF Top.arg[k] THEN stack' = Below
                ELSE CallMethod("AfterQuery", <<[Top EXCEPT !.arg = left]>> \o Below)
    /\ UNCHANGED <<db, work, sess, calls, last>>

\* The hook after an operation that changes rows is the last thing it does.
AfterHook ==
    /\ Top.at = "after"
    /\ \/ Top.kind = "insert" /\ CallMethod("AfterInsert", Below)
       \/ Top.kind = "update" /\ CallMethod("AfterUpdate", Below)
       \/ Top.kind = "delete" /\ CallMethod("AfterDelete", Below)
    /\ UNCHANGED <<db, work, sess, calls, last>>

-----------------------------------------------------------------------------
Calls ==
    \/ Model
    \/ \E w \in Wheres : Chain("WHERE", w)
    \/ Chain("LIMIT", 1) \/ Chain("ORDERBY", 1)
    \/ \E batch \in Batches : Call("insert", batch)
    \/ \E v \in Values : Call("update", v)
    \/ \E kind \in {"find", "first", "delete", "count", "raw", "has", "create", "drop"} :
          Call(kind, {})
    \/ HookReturns \/ Throw \/ Unwind

Operation == Before \/ Into \/ Run \/ RunWithoutModel \/ Rows \/ AfterHook

-----------------------------------------------------------------------------
(* Property. *)

\* An operation uses exactly the conditions that its caller has chained since the
\* caller's last statement: none is lost, and none is left over, not even from a
\* statement that has failed.  The exceptions are a session whose clauses another
\* frame has set or cleared in between (a hook that runs any statement in
\* BeforeDelete makes Delete one of all rows) and one that is used again after a
\* panic has left it with clauses.
StatementsAsChained == last.meddled \/ last.used = last.wanted
=============================================================================

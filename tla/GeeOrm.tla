------------------------------- MODULE GeeOrm -------------------------------
(***************************************************************************)
(* geeorm: an Engine used by one goroutine, which works with a Session of  *)
(* its own, with or without Begin, and calls Transaction and Migrate, each *)
(* of which makes a session and a transaction for the function it runs.    *)
(* Any statement, Begin or Commit may fail, and functions and hooks may    *)
(* panic.                                                                  *)
(*                                                                         *)
(* Code uses transactions as they are meant: Transaction is not called     *)
(* within a transaction of the user's own, which Begin does not start      *)
(* twice, and the function given to Transaction leaves Commit and Rollback *)
(* to it.                                                                  *)
(***************************************************************************)
EXTENDS Session

CONSTANT InitTables   \* tables the program may find: older models' among them

ASSUME GeeOrmAssumption == InitTables \subseteq Tables \cup {NoTable}

VARIABLES outcome,   \* how Transaction or Migrate has just ended, or "none"
          task,      \* which of the two
          before     \* history: the database when it was called

vars == <<sessionVars, outcome, task, before>>

Init ==
    /\ db \in [main : InitTables, tmp : {NoTable}]
    /\ work = db /\ before = db
    /\ sess = [s \in Sessions |-> Fresh("nil")]
    /\ stack = <<Frame("user", "plain", "", {})>>
    /\ calls = 0 /\ outcome = "none" /\ task = "none"
    /\ last = [used |-> Empty, wanted |-> Empty, meddled |-> FALSE]

\* A call of the session, or a step of one.
SessionStep ==
    /\ Calls \/ Operation
    /\ outcome' = "none" /\ UNCHANGED <<task, before>>

-----------------------------------------------------------------------------
(* Session.Begin, Commit and Rollback. *)

\* Begin sets tx, to nil if it fails.
Begin(s, fresh) ==
    \/ /\ sess' = [sess EXCEPT ![s] = [fresh EXCEPT !.tx = "open"]]
       /\ work' = db
    \/ /\ sess' = [sess EXCEPT ![s] = [fresh EXCEPT !.tx = "nil"]]
       /\ UNCHANGED work

\* tx stays set.
Over(s) == sess' = [sess EXCEPT ![s].tx = "done"]

Committed(s) == Over(s) /\ db' = work
RolledBack(s) == Over(s) /\ UNCHANGED db

\* The user's own transaction.  Where Commit fails the database rolls back.
UserTx ==
    /\ Issue /\ Top.kind = "user"
    /\ \/ Here.tx # "open" /\ Begin("plain", Here) /\ UNCHANGED db
       \/ Here.tx = "open" /\ (Committed("plain") \/ RolledBack("plain")) /\ UNCHANGED work
    /\ outcome' = "none" /\ UNCHANGED <<stack, last, task, before>>

-----------------------------------------------------------------------------
(* Engine.Transaction. *)

\* NewSession and Begin; an error of Begin is returned.
Transaction(kind) ==
    /\ Issue /\ Top.kind = "user" /\ Here.tx # "open"
    /\ Begin("tx", Fresh("nil"))
    /\ before' = db /\ task' = kind
    /\ IF sess'["tx"].tx = "open"
       THEN outcome' = "none" /\ stack' = <<Frame(kind, "tx", "has", {})>> \o stack
       ELSE outcome' = "error" /\ UNCHANGED stack
    /\ UNCHANGED <<db, last>>

\* Mutant: the deferred function looks at an err that the function shadows.
EndShadowed(err) ==
    \/ Committed("tx") /\ outcome' = IF err THEN "error" ELSE "ok"
    \/ RolledBack("tx") /\ outcome' = "error"

\* The deferred function of Transaction when tf has returned: Rollback keeps
\* the error, an error of Commit becomes the result.
End(err) ==
    \/ ~err /\ Committed("tx") /\ outcome' = "ok"
    \/ RolledBack("tx") /\ outcome' = "error"

\* tf, or the function of Migrate, returns.
TxReturns ==
    /\ \/ Top.kind = "tf" /\ (End(TRUE) \/ End(FALSE))
       \/ Top.kind = "migrate" /\ Top.at \in {"error", "ok"} /\ End(Top.at = "error")
    /\ stack' = Below
    /\ UNCHANGED <<work, calls, last, task, before>>

\* It panics: Rollback, and the panic goes on.
TxPanics ==
    /\ Top.kind = "panic" /\ Below[1].kind \in {"tf", "migrate"}
    /\ RolledBack("tx") /\ outcome' = "panic"
    /\ stack' = <<Top>> \o Tail(Below)
    /\ UNCHANGED <<work, calls, last, task, before>>

-----------------------------------------------------------------------------
(* The function Migrate passes to Transaction.  Its statements are executed by *)
(* Exec and its like, but nothing is ever pending in this session.             *)

Step(at, next, arg) ==
    /\ Top.kind = "migrate" /\ Top.at = at
    /\ stack' = <<[Top EXCEPT !.at = next, !.arg = arg]>> \o Below

Unstored == UNCHANGED <<db, work, sess, calls, last, outcome, task, before>>
Stored(table) ==
    /\ work' = [work EXCEPT !.main = table]
    /\ UNCHANGED <<db, sess, calls, last, outcome, task, before>>

\* HasTable: an error of its query is taken for a table that is not there.
\* CreateTable then decides what Migrate returns.
MigrateHas ==
    /\ \/ work.main # NoTable /\ Step("has", "select", {})
       \/ Step("has", "create", {})
    /\ Unstored

MigrateCreate ==
    \/ work.main = NoTable /\ Step("create", "ok", {}) /\ Stored(NewTable)
    \/ Step("create", "error", {}) /\ Unstored

\* The columns of the old table give addCols and delCols, the argument.  The
\* error of the query is ignored: then rows is nil, and Columns panics.
MigrateSelect ==
    /\ \/ Step("select", "alter", [add |-> Fields \ work.main.cols,
                                   del |-> work.main.cols \ Fields])
       \/ Top.kind = "migrate" /\ Top.at = "select" /\ Raise
    /\ Unstored

\* ALTER TABLE for one column after the other.
MigrateAlter ==
    /\ Top.at = "alter"
    /\ \/ \E f \in Top.arg.add :
             LET t == work.main
                 cols == t.cols \cup {f}
             IN /\ Step("alter", "alter", [Top.arg EXCEPT !.add = @ \ {f}])
                /\ Stored([t EXCEPT !.cols = cols, !.rows = [k \in DOMAIN @ |->
                             [c \in cols |-> IF c = f THEN Null ELSE @[k][c]]]])
       \/ Top.arg.add # {} /\ Step("alter", "error", {}) /\ Unstored
       \/ /\ Top.arg.add = {}
          /\ Step("alter", IF Top.arg.del = {} THEN "ok" ELSE "copy", {})
          /\ Unstored

\* Mutant: the new table is created from the model, without AS SELECT.
CopyNothing(t) == [cols |-> Fields, pk |-> FALSE, rows |-> <<>>]

\* The table as CREATE TABLE ... AS SELECT makes it: rows, but no constraints.
Copy(t) ==
    [cols |-> Fields, pk |-> FALSE,
     rows |-> [k \in DOMAIN t.rows |-> [f \in Fields |-> t.rows[k][f]]]]

\* CREATE TABLE tmp AS SELECT, DROP TABLE and RENAME in one Exec, of which the
\* database executes one after the other until one fails.
MigrateCopy ==
    /\ Top.at = "copy"
    /\ \E n \in 0 .. 3 :
          /\ work' = [main |-> IF n = 3 THEN Copy(work.main)
                               ELSE IF n = 2 THEN NoTable ELSE work.main,
                      tmp |-> IF n \in {1, 2} THEN Copy(work.main) ELSE NoTable]
          /\ Step("copy", IF n = 3 THEN "ok" ELSE "error", {})
    /\ UNCHANGED <<db, sess, calls, last, outcome, task, before>>

Migration ==
    /\ Top.kind = "migrate"
    /\ MigrateHas \/ MigrateCreate \/ MigrateSelect \/ MigrateAlter \/ MigrateCopy

-----------------------------------------------------------------------------
Next ==
    \/ SessionStep \/ UserTx
    \/ Transaction("tf") \/ Transaction("migrate")
    \/ TxReturns \/ TxPanics
    \/ Migration

Spec == Init /\ [][Next]_vars

-----------------------------------------------------------------------------
(* Properties. *)

\* Every variable keeps to its type.
TypeOK ==
    /\ {db, work, before} \subseteq [main : Tables \cup {NoTable}, tmp : Tables \cup {NoTable}]
    /\ \A s \in Sessions : sess[s].tx \in {"nil", "open", "done"} /\ sess[s].model \in BOOLEAN
    /\ stack # <<>> /\ stack[Len(stack)].kind = "user"
    /\ outcome \in {"none", "ok", "error", "panic"}

\* A Transaction that reports an error or panics, at whatever statement, hook or
\* Commit, has changed nothing; one that reports success has committed all that
\* its statements did.  In either case no transaction stays open.
AllOrNothing ==
    /\ outcome \in {"error", "panic"} => db = before
    /\ outcome = "ok" => db = work
    /\ outcome # "none" => sess["tx"].tx # "open"

\* A Migrate that succeeds leaves the model's columns, every row with the value
\* it had in each column that stays, and no temporary table.  The PRIMARY KEY
\* survives unless a column is removed.
MigrationKeeps ==
    task = "migrate" /\ outcome = "ok" =>
        LET old == before.main
            new == db.main
        IN /\ new # NoTable /\ new.cols = Fields /\ db.tmp = NoTable
           /\ old # NoTable =>
                 /\ DOMAIN new.rows = DOMAIN old.rows
                 /\ \A k \in DOMAIN old.rows, f \in Fields :
                       new.rows[k][f] = IF f \in old.cols THEN old.rows[k][f] ELSE Null
                 /\ new.pk <=> (old.pk /\ old.cols \subseteq Fields)
=============================================================================

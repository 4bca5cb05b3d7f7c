-------------------------- MODULE TableController --------------------------
(***************************************************************************)
(* controllers/postgrestable_controller.go: the reconciler that creates    *)
(* the table of a PostgresTable object, or adds to an existing table, in   *)
(* one transaction, the columns it lacks.                                  *)
(*                                                                         *)
(* Several objects may name one table.  Between two of the worker's calls  *)
(* applications insert rows and administrators add columns, drop tables    *)
(* and drop schemas.  ALTER TABLE locks its table until the transaction    *)
(* ends, and waits, without a timeout, for transactions of others that use *)
(* the table.  While it has the lock or waits, nobody else gets the table. *)
(***************************************************************************)
EXTENDS SqlReconciler

CONSTANTS
  TableNames,  \* a name stands for server, database, schema and name
  Schemas,
  SchemaOf,    \* [TableNames -> Schemas]
  ColumnName,
  ColumnType,  \* what users may write for a type
  PgTypes,     \* types there are by their quoted name: int4, not integer
  ColumnsByHand \* columns that administrators may add

VARIABLES
  schemas,  \* the schemas there are
  tables,   \* the committed tables: columns, and whether there are rows
  busy,     \* tables that an open transaction of another session uses
  toAdd,    \* columnsToAdd that are left
  added     \* columns added by the open transaction

tableVars == <<schemas, tables, busy, toAdd, added>>
vars == <<store, watch, cache, queue, pc, obj, access, edits, faults, tableVars>>

(* PostgresColumn                                                          *)
Column == [name: ColumnName, type: ColumnType, nullable: BOOLEAN, primaryKey: BOOLEAN]

ASSUME TableAssumption ==
  /\ SchemaOf \in [TableNames -> Schemas]
  /\ \A r \in Resources : \A s \in SpecsOf[r] :
       s.table \in TableNames /\ s.columns \subseteq Column
  /\ ColumnsByHand \subseteq Column

NoTable == [exists |-> FALSE, columns |-> {}, rows |-> FALSE]

ColumnNames(columns) == {c.name : c \in columns}

Spc == obj.spec
Tbl == tables[obj.spec.table]

(* The transaction's lock, or its place in the queue for it.               *)
Locked(t) ==
  /\ pc = "alter"
  /\ Spc.table = t
  /\ added # {} \/ (toAdd # {} /\ t \in busy)

(* Mutant: the rollback is forgotten.                                      *)
NoTransaction_StaysOpen == toAdd' = {} /\ added' = added

(* tx.Rollback, deferred: nothing is left of the transaction.              *)
NoTransaction == toAdd' = {} /\ added' = {}

Init ==
  /\ ReconcilerInit
  /\ schemas = {}
  /\ tables = [t \in TableNames |-> NoTable]
  /\ busy = {}
  /\ toAdd = {} /\ added = {}

-----------------------------------------------------------------------------
(* createTable.                                                            *)

(* CREATE SCHEMA IF NOT EXISTS                                             *)
EnsureSchema ==
  /\ pc = "ensureSchema"
  /\ schemas' = schemas \cup {SchemaOf[Spc.table]}
  /\ Reply("createTable")
  /\ UNCHANGED <<store, watch, cache, access, edits, tables, busy, toAdd, added>>

(* The columns that CREATE TABLE makes of the spec's: those of the primary *)
(* key are not nullable.                                                   *)
Built(columns) == {[c EXCEPT !.nullable = @ /\ ~c.primaryKey] : c \in columns}

CreateAccepted ==
  /\ SchemaOf[Spc.table] \in schemas
  /\ \A c \in Spc.columns : c.type \in PgTypes
  /\ \A c, d \in Spc.columns : c.name = d.name => c = d

(* Mutant: a duplicate counts as created.                                  *)
CreateTable_NeverAlters ==
  /\ pc = "createTable"
  /\ IF ~CreateAccepted
       THEN UNCHANGED tables /\ Rejected
       ELSE IF Tbl.exists
         THEN UNCHANGED tables /\ Reply("succeeded")
         ELSE /\ tables' = [tables EXCEPT ![Spc.table] =
                   [exists |-> TRUE, columns |-> Built(Spc.columns), rows |-> FALSE]]
              /\ Reply("succeeded")
  /\ UNCHANGED <<store, watch, cache, access, edits, schemas, busy, toAdd, added>>

(* CREATE TABLE: a duplicate is altered.  PostgreSQL looks at types and    *)
(* column names first.                                                     *)
CreateTable ==
  /\ pc = "createTable"
  /\ IF ~CreateAccepted
       THEN UNCHANGED tables /\ Rejected
       ELSE IF Tbl.exists
         THEN UNCHANGED tables /\ Reply("readColumns")
         ELSE /\ tables' = [tables EXCEPT ![Spc.table] =
                   [exists |-> TRUE, columns |-> Built(Spc.columns), rows |-> FALSE]]
              /\ Reply("succeeded")
  /\ UNCHANGED <<store, watch, cache, access, edits, schemas, busy, toAdd, added>>

-----------------------------------------------------------------------------
(* alterExistingTable.                                                     *)

(* The columns that information_schema does not show, and BEGIN.           *)
ReadColumns ==
  /\ pc = "readColumns"
  /\ toAdd' = {c \in Spc.columns : c.name \notin ColumnNames(Tbl.columns)}
  /\ added' = {}
  /\ pc' = "alter"
  /\ UNCHANGED <<store, watch, cache, queue, obj, access, edits, faults,
                 schemas, tables, busy>>

(* ADD COLUMN never makes a column part of the primary key.                *)
Plain(c) == [c EXCEPT !.primaryKey = FALSE]

AddAccepted(c) ==
  /\ Tbl.exists
  /\ c.type \in PgTypes
  /\ c.name \notin ColumnNames(Tbl.columns \cup added)
  /\ c.nullable \/ ~Tbl.rows

Rollback == NoTransaction /\ Rejected

(* Mutant: every ALTER TABLE is a transaction of its own.                  *)
AddColumn_Autocommits(c) ==
  /\ pc = "alter"
  /\ c \in toAdd
  /\ Spc.table \notin busy
  /\ IF ~AddAccepted(c)
       THEN Rollback /\ UNCHANGED tables
       ELSE /\ tables' = [tables EXCEPT ![Spc.table].columns = @ \cup {Plain(c)}]
            /\ toAdd' = toAdd \ {c}
            /\ UNCHANGED <<added, pc, queue, obj, faults>>
  /\ UNCHANGED <<store, watch, cache, access, edits, schemas, busy>>

(* Mutant: a refused ALTER TABLE leaves the transaction open.              *)
AddColumn_NeverRollsBack(c) ==
  /\ pc = "alter"
  /\ c \in toAdd
  /\ Spc.table \notin busy
  /\ AddAccepted(c)
  /\ added' = added \cup {Plain(c)}
  /\ toAdd' = toAdd \ {c}
  /\ UNCHANGED <<pc, queue, obj, faults, store, watch, cache, access, edits,
                 schemas, tables, busy>>

(* Mutant: an error is logged and the loop goes on.                        *)
AddColumn_GoesOn(c) ==
  /\ pc = "alter"
  /\ c \in toAdd
  /\ Spc.table \notin busy
  /\ added' = IF AddAccepted(c) THEN added \cup {Plain(c)} ELSE added
  /\ toAdd' = toAdd \ {c}
  /\ UNCHANGED <<pc, queue, obj, faults, store, watch, cache, access, edits,
                 schemas, tables, busy>>

(* ALTER TABLE ... ADD COLUMN; an error rolls back.                        *)
AddColumn(c) ==
  /\ pc = "alter"
  /\ c \in toAdd
  /\ Spc.table \notin busy
  /\ IF ~AddAccepted(c)
       THEN Rollback
       ELSE /\ added' = added \cup {Plain(c)}
            /\ toAdd' = toAdd \ {c}
            /\ UNCHANGED <<pc, queue, obj, faults>>
  /\ UNCHANGED <<store, watch, cache, access, edits, schemas, tables, busy>>

Commit ==
  /\ pc = "alter"
  /\ toAdd = {}
  /\ tables' = [tables EXCEPT ![Spc.table].columns = @ \cup added]
  /\ NoTransaction
  /\ Reply("succeeded")
  /\ UNCHANGED <<store, watch, cache, access, edits, schemas, busy>>

Worker ==
  \/ (Connect("ensureSchema") \/ Succeed) /\ UNCHANGED tableVars
  \/ EnsureSchema \/ CreateTable \/ ReadColumns \/ Commit
  \/ \E c \in toAdd : AddColumn(c)

-----------------------------------------------------------------------------
(* Other sessions of the database.                                         *)

ByHand ==
  /\ faults < MaxFaults
  /\ faults' = faults + 1
  /\ UNCHANGED <<store, watch, cache, queue, pc, obj, access, edits, toAdd, added>>

(* Its first statement on the table; statements come and go meanwhile.     *)
BeginTransaction(t) ==
  /\ tables[t].exists
  /\ t \notin busy
  /\ ~Locked(t)
  /\ busy' = busy \cup {t}
  /\ UNCHANGED <<schemas, tables>>
  /\ ByHand

EndTransaction(t) ==
  /\ t \in busy
  /\ busy' = busy \ {t}
  /\ UNCHANGED <<store, watch, cache, queue, pc, obj, access, edits, faults,
                 schemas, tables, toAdd, added>>

InsertRow(t) ==
  /\ tables[t].exists
  /\ ~tables[t].rows
  /\ ~Locked(t)
  /\ tables' = [tables EXCEPT ![t].rows = TRUE]
  /\ UNCHANGED <<schemas, busy>>
  /\ ByHand

(* ALTER TABLE and DROP wait for transactions as well.                     *)
Free(t) == t \notin busy /\ ~Locked(t)

AddColumnByHand(t, c) ==
  /\ c \in ColumnsByHand
  /\ tables[t].exists
  /\ c.name \notin ColumnNames(tables[t].columns)
  /\ Free(t)
  /\ tables' = [tables EXCEPT ![t].columns = @ \cup {c}]
  /\ UNCHANGED <<schemas, busy>>
  /\ ByHand

DropTableByHand(t) ==
  /\ tables[t].exists
  /\ Free(t)
  /\ tables' = [tables EXCEPT ![t] = NoTable]
  /\ UNCHANGED <<schemas, busy>>
  /\ ByHand

(* DROP SCHEMA ... CASCADE                                                 *)
DropSchemaByHand(n) ==
  /\ n \in schemas
  /\ \A t \in TableNames : SchemaOf[t] = n => Free(t)
  /\ schemas' = schemas \ {n}
  /\ tables' = [t \in TableNames |-> IF SchemaOf[t] = n THEN NoTable ELSE tables[t]]
  /\ UNCHANGED busy
  /\ ByHand

Sessions ==
  \/ \E t \in TableNames :
       \/ BeginTransaction(t) \/ EndTransaction(t)
       \/ InsertRow(t) \/ DropTableByHand(t)
       \/ \E c \in Column : AddColumnByHand(t, c)
  \/ \E n \in Schemas : DropSchemaByHand(n)

-----------------------------------------------------------------------------
Writes == \E r \in Resources : \E s \in SpecsOf[r] : UserCreate(r, s) \/ UserEdit(r, s)

Next ==
  \/ Worker \/ Sessions
  \/ (Around \/ Writes) /\ UNCHANGED tableVars
  \/ (CallFails \/ Crash) /\ NoTransaction /\ UNCHANGED <<schemas, tables, busy>>
  \/ \E r \in Resources : Begin(r) /\ UNCHANGED tableVars

Spec == Init /\ [][Next]_vars

(* The worker, the informer and the SyncPeriod do not stop, and the queue  *)
(* is first in first out: a request is not passed over forever.            *)
Fairness ==
  /\ WF_vars(Worker)
  /\ WF_vars(Informer /\ UNCHANGED tableVars)
  /\ \A r \in Resources :
       /\ SF_vars(Begin(r) /\ UNCHANGED tableVars)
       /\ WF_vars(Resync(r) /\ UNCHANGED tableVars)

FairSpec == Spec /\ Fairness

-----------------------------------------------------------------------------
(* Every variable holds a value of its type, and there is a transaction    *)
(* only while the worker alters.                                           *)
TypeOK ==
  /\ ReconcilerTypeOK
  /\ pc \in {"idle", "connect", "ensureSchema", "createTable", "readColumns",
            "alter", "succeeded"}
  /\ schemas \subseteq Schemas
  /\ tables \in [TableNames -> [exists: BOOLEAN, columns: SUBSET Column, rows: BOOLEAN]]
  /\ busy \subseteq TableNames
  /\ toAdd \subseteq Column
  /\ added \subseteq Column
  /\ toAdd \cup added # {} => pc = "alter"

(* While the worker alters a table, each column of its spec is there, or   *)
(* added by its transaction, or still to be added; and once it has added   *)
(* one, nobody drops the table before the transaction ends.                *)
AlterInv ==
  pc = "alter" =>
    /\ Tbl.exists =>
         ColumnNames(Spc.columns) \subseteq ColumnNames(Tbl.columns \cup toAdd \cup added)
    /\ added # {} => Tbl.exists

(* Whatever the worker does to a table, it leaves it with every column its *)
(* spec lists: no crash, refused ALTER TABLE, lost reply or concurrent     *)
(* change leaves a table with some of the columns that were missing        *)
(* (alterExistingTable's transaction).                                     *)
AllColumnsOrNone ==
  [][\A t \in TableNames :
       <<pc, toAdd, added>>' # <<pc, toAdd, added>> /\ tables'[t] # tables[t] =>
         /\ t = Spc.table
         /\ ColumnNames(Spc.columns) \subseteq ColumnNames(tables'[t].columns)]_vars

(* The operator does not keep a table from its users for good: refused     *)
(* statements, broken connections and crashes all end its transaction      *)
(* (defer Rollback), if only the transactions end that it waits for.       *)
LockReleased ==
  \A t \in TableNames : []<>(t \notin busy) => (Locked(t) ~> ~Locked(t))

(* The table has a column of each name listed.  Its type, whether it is    *)
(* nullable and whether it is part of the primary key are not compared:    *)
(* columns that the table has already are left as they are.                *)
HasColumns(r) ==
  ColumnNames(store[r].spec.columns)
    \subseteq ColumnNames(tables[store[r].spec.table].columns)

(* PostgreSQL accepts what the object needs: known types, a name for each  *)
(* column, and no new NOT NULL column for a table with rows.               *)
Possible(r) ==
  LET s == store[r].spec
      t == tables[s.table]
  IN /\ \A c \in s.columns : c.type \in PgTypes
     /\ \A c, d \in s.columns : c.name = d.name => c = d
     /\ \A c \in s.columns :
          c.nullable \/ ~t.rows \/ c.name \in ColumnNames(t.columns)

(* The table of an object that stays gets a column of each name that the   *)
(* object lists, for good, also when other objects name the same table,    *)
(* when administrators add the columns themselves or drop the table, and   *)
(* after crashes.  No table may be in use for ever: the one worker would   *)
(* wait, for all objects.  Nothing is said of the columns' attributes: a   *)
(* key column that is added to a table there is does not become part of    *)
(* the primary key (Plain), and a column of another type or nullability    *)
(* that is found under a listed name stays as it is.                       *)
TableConverges ==
  \A r \in Resources :
    <>[](store[r].present /\ access /\ Possible(r) /\ busy = {}) => <>[]HasColumns(r)

=============================================================================

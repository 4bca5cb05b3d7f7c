---------------------------- MODULE TableProofs ----------------------------
(***************************************************************************)
(* Proofs about TableController: its types, and that the worker leaves no  *)
(* table with some of the columns of an object but not with all.           *)
(***************************************************************************)
EXTENDS TableController, SqlReconcilerProofs

Specs == UNION {SpecsOf[r] : r \in Resources}

TableInv == TypeOK /\ CopiesWithin(Specs) /\ AlterInv

Table == [exists: BOOLEAN, columns: SUBSET Column, rows: BOOLEAN]

-----------------------------------------------------------------------------
(* Operators.                                                              *)

(* The worker's object names a table and lists columns.                    *)
LEMMA SpecType ==
  ASSUME ReconcilerTypeOK
  PROVE  Spc.table \in TableNames /\ Spc.columns \subseteq Column
<1>1. PICK r \in Resources : obj.spec \in SpecsOf[r]
  BY ObjectFields DEF ReconcilerTypeOK
<1> QED
  BY <1>1, TableAssumption DEF Spc

(* What CREATE TABLE and ADD COLUMN make of columns are columns of the     *)
(* same names.                                                             *)
LEMMA ColumnsMade ==
  ASSUME NEW C \in SUBSET Column
  PROVE  /\ Built(C) \subseteq Column
         /\ ColumnNames(Built(C)) = ColumnNames(C)
         /\ \A c \in C : Plain(c) \in Column /\ Plain(c).name = c.name
<1> DEFINE built(c) == [c EXCEPT !.nullable = @ /\ ~c.primaryKey]
<1>1. ASSUME NEW c \in Column
      PROVE  built(c) \in Column /\ built(c).name = c.name
  BY DEF Column
<1>2. \A c \in C : Plain(c) \in Column /\ Plain(c).name = c.name
  BY DEF Plain, Column
<1>3. Built(C) = {built(c) : c \in C}
  BY DEF Built
<1> HIDE DEF built
<1>4. Built(C) \subseteq Column
  BY <1>1, <1>3
<1>5. \A n : n \in ColumnNames(Built(C)) <=> n \in ColumnNames(C)
  BY <1>1, <1>3 DEF ColumnNames
<1> QED
  BY <1>2, <1>4, <1>5

(* The name of a column is among those of every set that has it.           *)
LEMMA NamesGrow ==
  ASSUME NEW C, NEW D, C \subseteq D
  PROVE  ColumnNames(C) \subseteq ColumnNames(D)
BY DEF ColumnNames

(* A table is what its type says.                                          *)
LEMMA TableFields ==
  ASSUME TypeOK, NEW t \in TableNames
  PROVE  /\ tables[t] \in Table
         /\ tables[t].exists \in BOOLEAN
         /\ tables[t].columns \subseteq Column
BY DEF TypeOK, Table

-----------------------------------------------------------------------------
(* Steps that take no part in an ALTER TABLE.                              *)

(* Whoever leaves the columns alone while the worker does not alter leaves *)
(* the invariant alone.                                                    *)
LEMMA OutsideTransaction ==
  ASSUME TypeOK, ReconcilerTypeOK', CopiesWithin(Specs)',
         pc' \in {"idle", "connect", "ensureSchema", "createTable", "readColumns",
                  "succeeded"},
         schemas' \subseteq Schemas, tables' \in [TableNames -> Table],
         busy' \subseteq TableNames, toAdd' = {}, added' = {}
  PROVE  TableInv'
BY DEF TableInv, TypeOK, AlterInv, Table

(* The steps of SqlReconciler.                                             *)
LEMMA SharedSteps ==
  ASSUME TableInv,
         \/ (Connect("ensureSchema") \/ Succeed) /\ UNCHANGED tableVars
         \/ (Around \/ Writes) /\ UNCHANGED tableVars
         \/ (CallFails \/ Crash) /\ NoTransaction /\ UNCHANGED <<schemas, tables, busy>>
         \/ \E r \in Resources : Begin(r) /\ UNCHANGED tableVars
  PROVE  TableInv'
<1>1. TypeOK /\ ReconcilerTypeOK /\ CopiesWithin(Specs)
      /\ tables \in [TableNames -> Table]
  BY DEF TableInv, TypeOK, Table
<1>2. ASSUME pc # "alter"
      PROVE  toAdd = {} /\ added = {}
  BY <1>1, <1>2 DEF TypeOK
<1>3. CASE Connect("ensureSchema") /\ UNCHANGED tableVars
  <2>1. /\ ReconcilerTypeOK' /\ CopiesWithin(Specs)'
        /\ pc = "connect" /\ pc' \in {"ensureSchema", "idle"}
    BY <1>1, <1>3, ConnectStep
  <2> QED
    BY <1>1, <1>2, <1>3, <2>1, OutsideTransaction DEF tableVars, TypeOK
<1>4. CASE Succeed /\ UNCHANGED tableVars
  <2>1. /\ ReconcilerTypeOK' /\ CopiesWithin(Specs)'
        /\ pc = "succeeded" /\ pc' = "idle"
    BY <1>1, <1>4, SucceedStep
  <2> QED
    BY <1>1, <1>2, <1>4, <2>1, OutsideTransaction DEF tableVars, TypeOK
<1>5. CASE (Around \/ Writes) /\ UNCHANGED tableVars
  <2>1. ReconcilerTypeOK' /\ CopiesWithin(Specs)' /\ UNCHANGED <<pc, obj>>
    <3>1. CASE Around
      BY <1>1, <3>1, AroundStep
    <3>2. CASE Writes
      <4>1. PICK r \in Resources : \E s \in SpecsOf[r] : UserCreate(r, s) \/ UserEdit(r, s)
        BY <3>2 DEF Writes
      <4>2. PICK s \in SpecsOf[r] : UserCreate(r, s) \/ UserEdit(r, s)
        BY <4>1
      <4>3. s \in Specs
        BY DEF Specs
      <4> QED
        BY <1>1, <4>2, <4>3, UserStep
    <3> QED
      BY <1>5, <3>1, <3>2
  <2> QED
    BY <1>1, <1>5, <2>1 DEF TableInv, TypeOK, AlterInv, Spc, Tbl, tableVars
<1>6. CASE (CallFails \/ Crash) /\ NoTransaction /\ UNCHANGED <<schemas, tables, busy>>
  <2>1. ReconcilerTypeOK' /\ CopiesWithin(Specs)' /\ pc' = "idle"
    BY <1>1, <1>6, FailureStep
  <2> QED
    BY <1>1, <1>6, <2>1, OutsideTransaction DEF NoTransaction, TypeOK
<1>7. ASSUME NEW r \in Resources, Begin(r) /\ UNCHANGED tableVars
      PROVE  TableInv'
  <2>1. /\ ReconcilerTypeOK' /\ CopiesWithin(Specs)'
        /\ pc = "idle" /\ pc' \in {"idle", "connect"}
    BY <1>1, <1>7, BeginStep
  <2> QED
    BY <1>1, <1>2, <1>7, <2>1, OutsideTransaction DEF tableVars, TypeOK
<1> QED
  BY <1>3, <1>4, <1>5, <1>6, <1>7

(* CREATE SCHEMA and CREATE TABLE.                                         *)
LEMMA CreateSteps ==
  ASSUME TableInv, EnsureSchema \/ CreateTable
  PROVE  TableInv'
<1>1. /\ TypeOK /\ ReconcilerTypeOK /\ CopiesWithin(Specs)
      /\ tables \in [TableNames -> Table]
      /\ schemas \subseteq Schemas /\ busy \subseteq TableNames
      /\ Spc.table \in TableNames /\ Spc.columns \subseteq Column
  BY SpecType DEF TableInv, TypeOK, Table
<1>2. CASE EnsureSchema
  <2>1. SchemaOf[Spc.table] \in Schemas
    BY <1>1, TableAssumption
  <2>2. /\ ReconcilerTypeOK' /\ CopiesWithin(Specs)'
        /\ pc' \in {"createTable", "idle"}
    BY <1>1, <1>2, ReplyStep DEF EnsureSchema
  <2> QED
    BY <1>1, <1>2, <2>1, <2>2, OutsideTransaction DEF EnsureSchema, TypeOK
<1>3. CASE CreateTable
  <2>1. tables' \in [TableNames -> Table]
    <3>1. [exists |-> TRUE, columns |-> Built(Spc.columns), rows |-> FALSE] \in Table
      BY <1>1, ColumnsMade DEF Table
    <3> QED
      BY <1>1, <1>3, <3>1 DEF CreateTable
  <2>2. /\ ReconcilerTypeOK' /\ CopiesWithin(Specs)'
        /\ pc' \in {"readColumns", "succeeded", "idle"}
    <3>1. CASE Rejected
      BY <1>1, <1>3, <3>1, RejectedStep DEF CreateTable
    <3>2. CASE Reply("readColumns")
      BY <1>1, <1>3, <3>2, ReplyStep DEF CreateTable
    <3>3. CASE Reply("succeeded")
      BY <1>1, <1>3, <3>3, ReplyStep DEF CreateTable
    <3> QED
      BY <1>3, <3>1, <3>2, <3>3 DEF CreateTable
  <2> QED
    BY <1>1, <1>3, <2>1, <2>2, OutsideTransaction DEF CreateTable, TypeOK
<1> QED
  BY <1>2, <1>3

-----------------------------------------------------------------------------
(* The transaction.                                                        *)

(* The worker starts with the columns that are missing.                    *)
LEMMA ReadStep ==
  ASSUME TableInv, ReadColumns
  PROVE  TableInv'
<1>1. /\ TypeOK /\ ReconcilerTypeOK /\ CopiesWithin(Specs)
      /\ Spc.columns \subseteq Column
  BY SpecType DEF TableInv, TypeOK
<1>2. /\ toAdd' = {c \in Spc.columns : c.name \notin ColumnNames(Tbl.columns)}
      /\ added' = {} /\ pc = "readColumns" /\ pc' = "alter"
      /\ UNCHANGED <<store, watch, cache, queue, obj, access, edits, faults,
                     schemas, tables, busy>>
  BY DEF ReadColumns
<1>3. ReconcilerTypeOK' /\ CopiesWithin(Specs)'
  <2>1. ApiTypeOK' /\ obj' \in Object /\ CopiesWithin(Specs)'
    BY <1>1, <1>2, StepWithCopy
  <2> QED
    BY <1>1, <1>2, <2>1 DEF ReconcilerTypeOK
<1>4. toAdd' \subseteq Column
  BY <1>1, <1>2
<1>5. TypeOK'
  BY <1>1, <1>2, <1>3, <1>4 DEF TypeOK
<1>6. ColumnNames(Spc.columns) \subseteq ColumnNames(Tbl.columns \cup toAdd')
  BY <1>2 DEF ColumnNames
<1>7. ColumnNames(Tbl.columns \cup toAdd') \subseteq
        ColumnNames(Tbl.columns \cup toAdd' \cup added')
  BY NamesGrow
<1>8. AlterInv'
  BY <1>2, <1>6, <1>7 DEF AlterInv, Spc, Tbl
<1> QED
  BY <1>3, <1>5, <1>8 DEF TableInv

(* A column passes from those left to those added, or the transaction ends. *)
LEMMA AddStep ==
  ASSUME TableInv, NEW c \in toAdd, AddColumn(c)
  PROVE  TableInv'
<1>1. /\ TypeOK /\ ReconcilerTypeOK /\ CopiesWithin(Specs) /\ AlterInv
      /\ toAdd \subseteq Column /\ added \subseteq Column
  BY DEF TableInv, TypeOK
<1>2. CASE ~AddAccepted(c)
  <2>1. ReconcilerTypeOK' /\ CopiesWithin(Specs)' /\ pc' = "idle"
    BY <1>1, <1>2, RejectedStep DEF AddColumn, Rollback
  <2> QED
    BY <1>1, <1>2, <2>1, OutsideTransaction
       DEF AddColumn, Rollback, NoTransaction, TypeOK, Table
<1>3. CASE AddAccepted(c)
  <2>1. /\ pc = "alter" /\ Tbl.exists
        /\ added' = added \cup {Plain(c)} /\ toAdd' = toAdd \ {c}
        /\ UNCHANGED <<pc, queue, obj, faults, store, watch, cache, access, edits,
                       schemas, tables, busy>>
    BY <1>3 DEF AddColumn, AddAccepted
  <2>2. ReconcilerTypeOK' /\ CopiesWithin(Specs)'
    <3>1. ApiTypeOK' /\ obj' \in Object /\ CopiesWithin(Specs)'
      BY <1>1, <2>1, StepWithCopy
    <3> QED
      BY <1>1, <2>1, <3>1 DEF ReconcilerTypeOK
  <2>3. Plain(c) \in Column /\ Plain(c).name = c.name
    BY <1>1, ColumnsMade
  <2>4. TypeOK'
    BY <1>1, <2>1, <2>2, <2>3 DEF TypeOK
  <2>5. ColumnNames(Tbl.columns \cup toAdd \cup added) \subseteq
          ColumnNames(Tbl.columns \cup toAdd' \cup added')
    BY <2>1, <2>3 DEF ColumnNames
  <2>6. ColumnNames(Spc.columns) \subseteq
          ColumnNames(Tbl.columns \cup toAdd \cup added)
    BY <1>1, <2>1 DEF AlterInv
  <2>7. AlterInv'
    BY <2>1, <2>5, <2>6 DEF AlterInv, Spc, Tbl
  <2> QED
    BY <2>2, <2>4, <2>7 DEF TableInv
<1> QED
  BY <1>2, <1>3

(* The transaction's columns become the table's.                           *)
LEMMA CommitStep ==
  ASSUME TableInv, Commit
  PROVE  TableInv'
<1>1. /\ TypeOK /\ ReconcilerTypeOK /\ CopiesWithin(Specs)
      /\ tables \in [TableNames -> Table] /\ added \subseteq Column
      /\ Spc.table \in TableNames
  BY SpecType DEF TableInv, TypeOK, Table
<1>2. tables' \in [TableNames -> Table]
  <2>1. tables' = [tables EXCEPT ![Spc.table].columns = @ \cup added]
    BY DEF Commit
  <2> QED
    BY <1>1, <2>1 DEF Table
<1>3. /\ ReconcilerTypeOK' /\ CopiesWithin(Specs)'
      /\ pc' \in {"succeeded", "idle"}
  BY <1>1, ReplyStep DEF Commit
<1> QED
  BY <1>1, <1>2, <1>3, OutsideTransaction DEF Commit, NoTransaction, TypeOK

-----------------------------------------------------------------------------
(* Other sessions.                                                         *)

(* What other sessions do leaves the invariant, if they leave the table of *)
(* an open transaction with its columns, and do not create tables.         *)
LEMMA SessionStep ==
  ASSUME TableInv,
         UNCHANGED <<store, watch, cache, queue, pc, obj, access, edits, toAdd, added>>,
         faults' \in 0 .. MaxFaults,
         schemas' \subseteq Schemas, busy' \subseteq TableNames,
         tables' \in [TableNames -> Table],
         \A t \in TableNames :
           \/ ~tables'[t].exists /\ ~Locked(t)
           \/ /\ tables'[t].exists = tables[t].exists
              /\ tables[t].columns \subseteq tables'[t].columns
  PROVE  TableInv'
<1>1. /\ TypeOK /\ ReconcilerTypeOK /\ CopiesWithin(Specs) /\ AlterInv
      /\ Spc.table \in TableNames
  BY SpecType DEF TableInv, TypeOK
<1>2. ReconcilerTypeOK' /\ CopiesWithin(Specs)'
  <2>1. ApiTypeOK' /\ obj' \in Object /\ CopiesWithin(Specs)'
    BY <1>1, StepWithCopy
  <2> QED
    BY <1>1, <2>1 DEF ReconcilerTypeOK
<1>3. TypeOK'
  BY <1>1, <1>2 DEF TypeOK, Table
<1>4. ASSUME pc = "alter"
      PROVE  /\ Tbl'.exists =>
                  ColumnNames(Spc.columns) \subseteq ColumnNames(Tbl'.columns \cup toAdd \cup added)
             /\ added # {} => Tbl'.exists
  <2>1. Tbl' = tables'[Spc.table] /\ Tbl = tables[Spc.table]
    BY DEF Tbl, Spc
  <2>2. CASE ~Tbl'.exists /\ ~Locked(Spc.table)
    BY <1>4, <2>2 DEF Locked
  <2>3. CASE Tbl'.exists = Tbl.exists /\ Tbl.columns \subseteq Tbl'.columns
    <3>1. ColumnNames(Tbl.columns \cup toAdd \cup added) \subseteq
            ColumnNames(Tbl'.columns \cup toAdd \cup added)
      <4>1. Tbl.columns \cup toAdd \cup added \subseteq Tbl'.columns \cup toAdd \cup added
        BY <2>3
      <4> QED
        BY <4>1, NamesGrow
    <3>2. /\ Tbl.exists => ColumnNames(Spc.columns)
                            \subseteq ColumnNames(Tbl.columns \cup toAdd \cup added)
          /\ added # {} => Tbl.exists
      BY <1>1, <1>4 DEF AlterInv
    <3> QED
      BY <2>3, <3>1, <3>2
  <2> QED
    BY <1>1, <2>1, <2>2, <2>3
<1>5. AlterInv'
  BY <1>4 DEF AlterInv, Spc, Tbl
<1> QED
  BY <1>2, <1>3, <1>5 DEF TableInv

(* The sessions there are do.                                              *)
LEMMA SessionsSteps ==
  ASSUME TableInv, Sessions
  PROVE  TableInv'
<1>1. /\ TypeOK /\ ReconcilerTypeOK /\ faults \in 0 .. MaxFaults
      /\ schemas \subseteq Schemas /\ busy \subseteq TableNames
      /\ tables \in [TableNames -> Table]
      /\ \A t \in TableNames : /\ tables[t].exists \in BOOLEAN
                               /\ tables[t].columns \subseteq Column
                               /\ tables[t].rows \in BOOLEAN
  BY DEF TableInv, TypeOK, ReconcilerTypeOK, Table
<1>2. ASSUME ByHand
      PROVE  faults' \in 0 .. MaxFaults
  BY <1>1, <1>2, FaultType DEF ByHand
<1>3. ASSUME NEW t \in TableNames, BeginTransaction(t) \/ EndTransaction(t)
      PROVE  TableInv'
  <2>1. tables' = tables /\ schemas' = schemas /\ busy' \subseteq TableNames
    BY <1>1, <1>3 DEF BeginTransaction, EndTransaction
  <2>2. faults' \in 0 .. MaxFaults
    BY <1>1, <1>2, <1>3 DEF BeginTransaction, EndTransaction
  <2> QED
    BY <1>1, <1>3, <2>1, <2>2, SessionStep DEF BeginTransaction, EndTransaction, ByHand
<1>4. ASSUME NEW t \in TableNames, InsertRow(t)
      PROVE  TableInv'
  <2>1. tables' = [tables EXCEPT ![t].rows = TRUE] /\ ByHand
    BY <1>4 DEF InsertRow
  <2>2. tables' \in [TableNames -> Table]
    <3>1. tables[t] \in Table
      BY <1>1
    <3>2. [tables[t] EXCEPT !.rows = TRUE] \in Table
      BY <1>1, <3>1 DEF Table
    <3> QED
      BY <1>1, <2>1, <3>2
  <2>3. \A q \in TableNames : /\ tables'[q].exists = tables[q].exists
                               /\ tables'[q].columns = tables[q].columns
    BY <1>1, <2>1 DEF Table
  <2> QED
    BY <1>1, <1>2, <1>4, <2>1, <2>2, <2>3, SessionStep DEF InsertRow, ByHand
<1>5. ASSUME NEW t \in TableNames, NEW c \in Column, AddColumnByHand(t, c)
      PROVE  TableInv'
  <2>1. tables' = [tables EXCEPT ![t].columns = @ \cup {c}] /\ ByHand
    BY <1>5 DEF AddColumnByHand
  <2>2. tables' \in [TableNames -> Table]
    <3>1. tables[t] \in Table
      BY <1>1
    <3>2. [tables[t] EXCEPT !.columns = @ \cup {c}] \in Table
      BY <1>1, <3>1 DEF Table
    <3> QED
      BY <1>1, <2>1, <3>2
  <2>3. \A q \in TableNames : /\ tables'[q].exists = tables[q].exists
                               /\ tables[q].columns \subseteq tables'[q].columns
    BY <1>1, <2>1 DEF Table
  <2> QED
    BY <1>1, <1>2, <1>5, <2>1, <2>2, <2>3, SessionStep DEF AddColumnByHand, ByHand
<1>6. NoTable \in Table /\ ~NoTable.exists
  BY DEF NoTable, Table
<1>7. ASSUME NEW t \in TableNames, DropTableByHand(t)
      PROVE  TableInv'
  <2>1. tables' = [tables EXCEPT ![t] = NoTable] /\ ~Locked(t) /\ ByHand
    BY <1>7 DEF DropTableByHand, Free
  <2>2. tables' \in [TableNames -> Table]
    BY <1>1, <1>6, <2>1
  <2>3. \A q \in TableNames : \/ q = t /\ tables'[q] = NoTable
                              \/ tables'[q] = tables[q]
    BY <1>1, <2>1
  <2>4. \A q \in TableNames :
          \/ ~tables'[q].exists /\ ~Locked(q)
          \/ /\ tables'[q].exists = tables[q].exists
             /\ tables[q].columns \subseteq tables'[q].columns
    BY <1>6, <2>1, <2>3
  <2> QED
    BY <1>1, <1>2, <1>7, <2>1, <2>2, <2>4, SessionStep DEF DropTableByHand, ByHand
<1>8. ASSUME NEW n \in Schemas, DropSchemaByHand(n)
      PROVE  TableInv'
  <2>1. /\ schemas' = schemas \ {n} /\ busy' = busy /\ ByHand
        /\ \A t \in TableNames : SchemaOf[t] = n => ~Locked(t)
        /\ tables' = [t \in TableNames |-> IF SchemaOf[t] = n THEN NoTable ELSE tables[t]]
    BY <1>8 DEF DropSchemaByHand, Free
  <2>2. tables' \in [TableNames -> Table]
    BY <1>1, <1>6, <2>1
  <2>3. \A q \in TableNames :
          \/ ~tables'[q].exists /\ ~Locked(q)
          \/ /\ tables'[q].exists = tables[q].exists
             /\ tables[q].columns \subseteq tables'[q].columns
    BY <1>6, <2>1
  <2> QED
    BY <1>1, <1>2, <2>1, <2>2, <2>3, SessionStep DEF ByHand
<1> QED
  BY <1>3, <1>4, <1>5, <1>7, <1>8 DEF Sessions

-----------------------------------------------------------------------------
(* At first there is nothing.                                              *)
LEMMA TableInit == Init => TableInv
<1> SUFFICES ASSUME Init PROVE TableInv
  OBVIOUS
<1>1. ReconcilerTypeOK /\ CopiesWithin(Specs) /\ pc = "idle"
  BY ReconcilerInitType DEF Init, ReconcilerInit
<1>2. NoTable \in [exists: BOOLEAN, columns: SUBSET Column, rows: BOOLEAN]
  BY DEF NoTable
<1> QED
  BY <1>1, <1>2 DEF Init, TableInv, TypeOK, AlterInv

(* No step violates the invariant.                                         *)
LEMMA TableStep == TableInv /\ [Next]_vars => TableInv'
<1> SUFFICES ASSUME TableInv, [Next]_vars PROVE TableInv'
  OBVIOUS
<1>1. CASE Worker
  BY <1>1, SharedSteps, CreateSteps, ReadStep, AddStep, CommitStep DEF Worker
<1>2. CASE Sessions
  BY <1>2, SessionsSteps
<1>3. CASE (Around \/ Writes) /\ UNCHANGED tableVars
  BY <1>3, SharedSteps
<1>4. CASE (CallFails \/ Crash) /\ NoTransaction /\ UNCHANGED <<schemas, tables, busy>>
  BY <1>4, SharedSteps
<1>5. CASE \E r \in Resources : Begin(r) /\ UNCHANGED tableVars
  BY <1>5, SharedSteps
<1>6. CASE UNCHANGED vars
  BY <1>6 DEF vars, tableVars, TableInv, TypeOK, ReconcilerTypeOK, ApiTypeOK,
              CopiesWithin, AlterInv, Spc, Tbl
<1> QED
  BY <1>1, <1>2, <1>3, <1>4, <1>5, <1>6 DEF Next

(* The variables of the table reconciler, the database and the API server  *)
(* keep their types, and the open transaction stays what AlterInv says.    *)
THEOREM TableInvariance == Spec => [](TypeOK /\ AlterInv)
<1>1. TableInv => TypeOK /\ AlterInv
  BY DEF TableInv
<1> QED
  BY <1>1, TableInit, TableStep, PTL DEF Spec

(* Every variable keeps its type.                                          *)
THEOREM TableTypes == Spec => []TypeOK
<1>1. TableInv => TypeOK
  BY DEF TableInv
<1> QED
  BY <1>1, TableInit, TableStep, PTL DEF Spec

-----------------------------------------------------------------------------
(* A step of the worker gives no table some of the columns only.           *)
LEMMA AllOrNoneStep ==
  ASSUME TableInv, [Next]_vars, NEW t \in TableNames,
         <<pc, toAdd, added>>' # <<pc, toAdd, added>>, tables'[t] # tables[t]
  PROVE  /\ t = Spc.table
         /\ ColumnNames(Spc.columns) \subseteq ColumnNames(tables'[t].columns)
<1>1. /\ TypeOK /\ AlterInv /\ tables \in [TableNames -> Table]
      /\ Spc.table \in TableNames /\ Spc.columns \subseteq Column
  BY SpecType DEF TableInv, TypeOK, Table
<1>2. CreateTable \/ Commit
  <2>1. tables' # tables /\ ~UNCHANGED <<pc, toAdd, added>>
    OBVIOUS
  <2>2. ~Sessions
    BY <2>1 DEF Sessions, BeginTransaction, EndTransaction, InsertRow, AddColumnByHand,
                DropTableByHand, DropSchemaByHand, ByHand
  <2>3. ~EnsureSchema /\ ~ReadColumns /\ \A c \in toAdd : ~AddColumn(c)
    BY <2>1 DEF EnsureSchema, ReadColumns, AddColumn
  <2>4. ~UNCHANGED tableVars /\ ~UNCHANGED <<schemas, tables, busy>> /\ ~UNCHANGED vars
    BY <2>1 DEF tableVars, vars
  <2> QED
    BY <2>2, <2>3, <2>4 DEF Next, Worker
<1>3. CASE CreateTable
  <2>1. tables' = [tables EXCEPT ![Spc.table] =
          [exists |-> TRUE, columns |-> Built(Spc.columns), rows |-> FALSE]]
    BY <1>3 DEF CreateTable
  <2>2. t = Spc.table /\ tables'[t].columns = Built(Spc.columns)
    BY <1>1, <2>1
  <2> QED
    BY <1>1, <2>2, ColumnsMade
<1>4. CASE Commit
  <2>1. /\ pc = "alter" /\ toAdd = {}
        /\ tables' = [tables EXCEPT ![Spc.table].columns = @ \cup added]
    BY <1>4 DEF Commit
  <2>2. t = Spc.table
    BY <1>1, <2>1
  <2>3. tables'[t].columns = Tbl.columns \cup toAdd \cup added
    BY <1>1, <2>1, <2>2 DEF Tbl, Spc, Table
  <2>4. added # {}
    <3>1. tables[t] \in Table
      BY <1>1
    <3>2. tables'[t] = [tables[t] EXCEPT !.columns = @ \cup added]
      BY <1>1, <2>1, <2>2
    <3> QED
      BY <3>1, <3>2 DEF Table
  <2> QED
    BY <1>1, <2>1, <2>2, <2>3, <2>4 DEF AlterInv
<1> QED
  BY <1>2, <1>3, <1>4

(* Whatever fails, is lost or is done by others, the worker leaves a table *)
(* with all the columns of its object or as it was.                        *)
THEOREM AllOrNone == Spec => AllColumnsOrNone
<1>1. TableInv /\ [Next]_vars =>
        [\A t \in TableNames :
           <<pc, toAdd, added>>' # <<pc, toAdd, added>> /\ tables'[t] # tables[t] =>
             /\ t = Spc.table
             /\ ColumnNames(Spc.columns) \subseteq ColumnNames(tables'[t].columns)]_vars
  BY AllOrNoneStep
<1> QED
  BY <1>1, TableInit, TableStep, PTL DEF Spec, AllColumnsOrNone

=============================================================================

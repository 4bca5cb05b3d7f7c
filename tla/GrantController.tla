-------------------------- MODULE GrantController --------------------------
(***************************************************************************)
(* controllers/postgresgrant_controller.go: the reconciler that grants the *)
(* privileges of a PostgresGrant object, one statement for each object it  *)
(* lists, type by type.                                                    *)
(*                                                                         *)
(* Its statements are GRANT ... ON name, without the word that says what   *)
(* kind of object the name is: PostgreSQL looks for a table, a sequence or *)
(* another relation, whatever list the name comes from.                    *)
(***************************************************************************)
EXTENDS SqlReconciler, GrantWebhook

CONSTANTS
  KindOf,    \* what relation a name can be: "table", "sequence" or "none"
  Droppable  \* relations that administrators may drop

ASSUME GrantAssumption ==
  /\ \A r \in Resources : SpecsOf[r] \subseteq GrantSpec
  /\ KindOf \in [Identifiers -> {"table", "sequence", "none"}]
  /\ Droppable \subseteq Identifiers

VARIABLES
  relations, \* the relations there are
  granted,   \* the privileges that roles have been granted on them
  left       \* statements of this reconciliation that are left

grantVars == <<relations, granted, left>>
vars == <<store, watch, cache, queue, pc, obj, access, edits, faults, grantVars>>

Grant == [role: Roles, id: Identifiers, privilege: Privilege]

Init ==
  /\ ReconcilerInit
  /\ relations = {}
  /\ granted = {}
  /\ left = {}

-----------------------------------------------------------------------------
(* PostgreSQL: GRANT on a relation.                                        *)

KindPrivileges(kind) ==
  IF kind = "none" THEN {} ELSE ValidPrivileges[kind] \ {"ALL"}

RelationPrivileges == KindPrivileges("table") \cup KindPrivileges("sequence")

(* A table has no USAGE.                                                   *)
GrantAccepted(id, privileges) ==
  /\ id \in relations
  /\ privileges = {"ALL"} \/ privileges \subseteq RelationPrivileges
  /\ KindOf[id] = "table" => "USAGE" \notin privileges

(* Of privileges that a sequence does not have PostgreSQL only warns.      *)
Given(id, privileges) ==
  IF privileges = {"ALL"} THEN KindPrivileges(KindOf[id])
                          ELSE privileges \cap KindPrivileges(KindOf[id])

-----------------------------------------------------------------------------
(* Reconcile.                                                              *)

objectTypesToReconcile == <<"database", "function", "schema", "sequence", "table">>

Rank(t) == CHOOSE i \in 1 .. 5 : objectTypesToReconcile[i] = t

(* A statement stands for the list and the name in it.                     *)
Statements(s) == {p \in ObjectTypes \X Identifiers : p[2] \in s.objects[p[1]]}

(* Mutant: an empty list grants nothing.                                   *)
Privileges_NoDefault(s, t) == ToSet(s.privileges[t])

(* Mutant: sequences get the privileges meant for tables.                  *)
Privileges_WrongList(s, t) ==
  LET list == s.privileges[IF t = "sequence" THEN "table" ELSE t]
  IN IF list = <<>> THEN {"ALL"} ELSE ToSet(list)

(* PrivilegesForType, with ALL for an empty list.                          *)
Privileges(s, t) ==
  IF s.privileges[t] = <<>> THEN {"ALL"} ELSE ToSet(s.privileges[t])

(* Mutant: what a failed reconciliation had left to do is kept.            *)
Stop_KeepsStatements == left' = left

(* A reconciliation ends, and its local variables with it.                 *)
Stop == left' = {}

Start ==
  /\ Connect("grant")
  /\ left' = IF access THEN Statements(obj.spec) ELSE {}
  /\ UNCHANGED <<relations, granted>>

(* Mutant: a refused statement is passed over.                             *)
GrantNext_PassesOver(t, id) ==
  /\ pc = "grant"
  /\ <<t, id>> \in left
  /\ \A rest \in left : Rank(t) <= Rank(rest[1])
  /\ IF GrantAccepted(id, Privileges(obj.spec, t))
       THEN granted' = granted \cup
              {[role |-> obj.spec.role, id |-> id, privilege |-> p] :
                 p \in Given(id, Privileges(obj.spec, t))}
       ELSE UNCHANGED granted
  /\ left' = left \ {<<t, id>>}
  /\ UNCHANGED <<store, watch, cache, queue, pc, obj, access, edits, faults, relations>>

(* reconcileObjectGrants: one GRANT.  The first error ends it all.         *)
GrantNext(t, id) ==
  /\ pc = "grant"
  /\ <<t, id>> \in left
  /\ \A rest \in left : Rank(t) <= Rank(rest[1])
  /\ IF GrantAccepted(id, Privileges(obj.spec, t))
       THEN /\ granted' = granted \cup
                 {[role |-> obj.spec.role, id |-> id, privilege |-> p] :
                    p \in Given(id, Privileges(obj.spec, t))}
            /\ \/ left' = left \ {<<t, id>>} /\ UNCHANGED <<pc, obj, queue, faults>>
               \/ faults < MaxFaults /\ faults' = faults + 1 /\ Requeue /\ Stop
       ELSE Rejected /\ Stop /\ UNCHANGED granted
  /\ UNCHANGED <<store, watch, cache, access, edits, relations>>

Finish ==
  /\ pc = "grant"
  /\ left = {}
  /\ pc' = "succeeded"
  /\ UNCHANGED <<store, watch, cache, queue, obj, access, edits, faults, grantVars>>

Worker ==
  \/ Start \/ Finish
  \/ Succeed /\ UNCHANGED grantVars
  \/ \E t \in ObjectTypes, id \in Identifiers : GrantNext(t, id)

-----------------------------------------------------------------------------
(* Other sessions of the database, and users of the API server.            *)

CreateRelation(id) ==
  /\ KindOf[id] # "none"
  /\ id \notin relations
  /\ relations' = relations \cup {id}
  /\ UNCHANGED <<store, watch, cache, queue, pc, obj, access, edits, faults,
                 granted, left>>

DropRelation(id) ==
  /\ id \in relations \cap Droppable
  /\ faults < MaxFaults
  /\ faults' = faults + 1
  /\ relations' = relations \ {id}
  /\ granted' = {g \in granted : g.id # id}
  /\ UNCHANGED <<store, watch, cache, queue, pc, obj, access, edits, left>>

Submit(r, s) == Admitted(s) /\ (UserCreate(r, s) \/ UserEdit(r, s))

Next ==
  \/ Worker
  \/ \E id \in Identifiers : CreateRelation(id) \/ DropRelation(id)
  \/ Around /\ UNCHANGED grantVars
  \/ (CallFails \/ Crash) /\ Stop /\ UNCHANGED <<relations, granted>>
  \/ \E r \in Resources :
       (Begin(r) \/ \E s \in SpecsOf[r] : Submit(r, s)) /\ UNCHANGED grantVars

Spec == Init /\ [][Next]_vars

(* As in TableController.                                                  *)
Fairness ==
  /\ WF_vars(Worker)
  /\ WF_vars(Informer /\ UNCHANGED grantVars)
  /\ \A r \in Resources :
       /\ SF_vars(Begin(r) /\ UNCHANGED grantVars)
       /\ WF_vars(Resync(r) /\ UNCHANGED grantVars)

FairSpec == Spec /\ Fairness

-----------------------------------------------------------------------------
(* Every variable holds a value of its type.                               *)
TypeOK ==
  /\ ReconcilerTypeOK
  /\ pc \in {"idle", "connect", "grant", "succeeded"}
  /\ relations \subseteq Identifiers
  /\ granted \subseteq Grant
  /\ left \subseteq ObjectTypes \X Identifiers
  /\ left # {} => pc = "grant"

(* The webhook's loop lets in exactly the lists that the types allow: the  *)
(* controller puts them into statements as they are ("already validated by *)
(* admission webhook").                                                    *)
OnlyWellFormed ==
  /\ \A r \in Resources : store[r].present => WellFormed(store[r].spec)
  /\ \A r \in Resources : \A s \in SpecsOf[r] : WellFormed(s) => Admitted(s)

(* The privileges that a list of a spec asks for on a relation.            *)
AskedFor(s, t) ==
  IF s.privileges[t] \in {<<>>, <<"ALL">>} THEN ValidPrivileges[t]
                                           ELSE ToSet(s.privileges[t])

(* What stands in a list of databases, schemas or functions is no relation *)
(* besides, and a list without privileges, or with ALL, has relations of   *)
(* its own kind only.                                                      *)
NoNamesakes ==
  \A r \in Resources : \A s \in SpecsOf[r], t \in ObjectTypes : \A id \in s.objects[t] :
    /\ t \notin {"table", "sequence"} => KindOf[id] = "none"
    /\ s.privileges[t] \in {<<>>, <<"ALL">>} => KindOf[id] \in {t, "none"}

Holds(s, t, id) ==
  \A p \in AskedFor(s, t) \cap KindPrivileges(KindOf[id]) :
    [role |-> s.role, id |-> id, privilege |-> p] \in granted

(* The worker works on an object, and what it has done of it is done: the  *)
(* role holds what the spec asks for on every relation but those that are  *)
(* left and those that may have been dropped since.                        *)
GrantInv ==
  /\ \A id \in relations : KindOf[id] # "none"
  /\ pc # "idle" => obj.present
  /\ obj.present => WellFormed(obj.spec)
  /\ pc = "grant" =>
       /\ left \subseteq Statements(obj.spec)
       /\ \A t \in ObjectTypes : \A id \in obj.spec.objects[t] \ Droppable :
            <<t, id>> \in left \/ (id \in relations /\ Holds(obj.spec, t, id))

(* Nobody is given what no admitted object asked for: the right role, a    *)
(* relation that is listed as a table or a sequence, and a privilege of    *)
(* that list, also when lists of several types, edits and retries mix.     *)
GrantedAsAsked ==
  [][\A g \in granted' \ granted :
       /\ WellFormed(obj.spec)
       /\ g.role = obj.spec.role
       /\ \E t \in {"table", "sequence"} :
            g.id \in obj.spec.objects[t] /\ g.privilege \in AskedFor(obj.spec, t)]_vars

(* Success is reported only when the role has everything the worker's copy *)
(* asks for, so one refused statement among many must not be passed over.  *)
(* (A relation dropped meanwhile is set apart: Droppable.)                 *)
SuccessMeansGranted ==
  [][pc' = "succeeded" /\ pc # "succeeded" =>
       \A t \in ObjectTypes : \A id \in obj.spec.objects[t] \ Droppable :
         id \in relations /\ Holds(obj.spec, t, id)]_vars

(* PostgreSQL can execute all the statements.                              *)
Grantable(s) ==
  \A t \in ObjectTypes : \A id \in s.objects[t] :
    GrantAccepted(id, IF s.privileges[t] = <<>> THEN {"ALL"} ELSE ToSet(s.privileges[t]))

(* The role of an object that stays gets what the object asks for, for     *)
(* good: also when a table is created only after the object, or is dropped *)
(* and created again, and after crashes and lost replies.                  *)
GrantConverges ==
  \A r \in Resources :
    <>[](store[r].present /\ access /\ Grantable(store[r].spec)) =>
    <>[](\A t \in ObjectTypes : \A id \in store[r].spec.objects[t] :
           Holds(store[r].spec, t, id))

(* Tables is "the list of tables to grant privileges for": the tables of a *)
(* grant that stays are granted, whatever other lists the grant has.       *)
TablesGranted ==
  \A r \in Resources :
    <>[](/\ store[r].present /\ access
         /\ store[r].spec.objects["table"] \subseteq relations) =>
    <>[](\A id \in store[r].spec.objects["table"] : Holds(store[r].spec, "table", id))

=============================================================================

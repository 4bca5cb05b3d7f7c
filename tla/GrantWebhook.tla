---------------------------- MODULE GrantWebhook ----------------------------
(***************************************************************************)
(* api/v1alpha1/postgresgrant_webhook.go: which PostgresGrant objects the  *)
(* validating webhook lets into the API server.  It looks at the lists of  *)
(* privileges only.                                                        *)
(***************************************************************************)
EXTENDS Naturals, Sequences, SequencesExt

CONSTANTS
  Roles,
  OtherWords, \* what users write for a privilege that is none
  Identifiers \* names of tables, sequences, databases, schemas, functions

ObjectTypes == {"table", "sequence", "database", "schema", "function"}

ValidPrivileges == [t \in ObjectTypes |->
  CASE t = "table" -> {"SELECT", "INSERT", "UPDATE", "DELETE", "TRUNCATE",
                       "REFERENCES", "TRIGGER", "ALL"}
    [] t = "sequence" -> {"USAGE", "SELECT", "UPDATE", "ALL"}
    [] t = "database" -> {"CREATE", "CONNECT", "TEMPORARY", "TEMP", "ALL"}
    [] t = "schema" -> {"CREATE", "USAGE", "ALL"}
    [] t = "function" -> {"EXECUTE", "ALL"}]

Privilege == UNION {ValidPrivileges[t] : t \in ObjectTypes} \cup OtherWords

(* PostgresGrantSpec, with the five lists of objects and the five lists of *)
(* privileges as functions of the type (IdentifiersForType and             *)
(* PrivilegesForType select them).                                         *)
GrantSpec == [role: Roles, objects: [ObjectTypes -> SUBSET Identifiers],
              privileges: [ObjectTypes -> Seq(Privilege)]]

(* Mutant: a privilege may be listed twice.                                *)
Check_AllowsDuplicates(oType, result, privilege) ==
  IF result.error # "" THEN result
  ELSE IF privilege \notin ValidPrivileges[oType] THEN [result EXCEPT !.error = "invalid"]
  ELSE [result EXCEPT !.wanted = @ \cup {privilege}, !.hasAll = @ \/ privilege = "ALL"]

(* One turn of validatePrivilegesForType's loop.                           *)
Check(oType, result, privilege) ==
  IF result.error # "" THEN result
  ELSE IF privilege \notin ValidPrivileges[oType] THEN [result EXCEPT !.error = "invalid"]
  ELSE IF privilege \in result.wanted THEN [result EXCEPT !.error = "duplicate"]
  ELSE [result EXCEPT !.wanted = @ \cup {privilege}, !.hasAll = @ \/ privilege = "ALL"]

(* What the loop knows after its first i turns.                            *)
Loop(privileges, oType) ==
  LET result[i \in 0 .. Len(privileges)] ==
        IF i = 0 THEN [error |-> "", wanted |-> {}, hasAll |-> FALSE]
                 ELSE Check(oType, result[i - 1], privileges[i])
  IN result

ValidatePrivilegesForType(privileges, oType) ==
  LET result == Loop(privileges, oType)[Len(privileges)]
  IN IF result.error # "" THEN result.error
     ELSE IF result.hasAll /\ Len(privileges) > 1 THEN "all" ELSE ""

(* validatePrivileges, of ValidateCreate and ValidateUpdate.               *)
Admitted(s) ==
  \A t \in ObjectTypes : ValidatePrivilegesForType(s.privileges[t], t) = ""

(* What the types and the webhook's messages ask of a list of privileges,  *)
(* said of the whole list: known ones, none twice, ALL by itself.          *)
WellFormed(s) ==
  \A t \in ObjectTypes :
    LET list == s.privileges[t]
        used == {list[i] : i \in 1 .. Len(list)}
    IN /\ used \subseteq ValidPrivileges[t]
       /\ \A i, j \in 1 .. Len(list) : list[i] = list[j] => i = j
       /\ "ALL" \in used => used = {"ALL"}

=============================================================================

------------------------ MODULE PublicationManager -------------------------
(***************************************************************************)
(* controllers/publicationmanager: what the statements that StdManager and *)
(* AivenManager build from a PostgresPublication's spec do to the          *)
(* publication they name, given PostgreSQL's rules for those statements.   *)
(*                                                                         *)
(* The text of the statements is abstracted away, except where it decides  *)
(* the outcome: an empty table list gives FOR ALL TABLES in CREATE, and a  *)
(* statement PostgreSQL cannot parse in ALTER.                             *)
(***************************************************************************)
CONSTANTS
  PublicationNames, \* a name stands for server, database and publication name
  Tables,           \* tables a publication can list
  Operations        \* insert, update, delete, truncate

(* PostgresPublicationSpec, with postgresRef reduced to its variant (a     *)
(* change of host or database is a change of name here).  "other" is any   *)
(* variant string that the controller does not know.                       *)
PublicationSpec == [name: PublicationNames, tables: SUBSET Tables,
                    operations: SUBSET Operations,
                    variant: {"standard", "aiven", "other"}]

(* A row of pg_publication with its tables, or the absence of one.         *)
Publication == [exists: BOOLEAN, allTables: BOOLEAN,
                tables: SUBSET Tables, operations: SUBSET Operations]

NoPublication ==
  [exists |-> FALSE, allTables |-> FALSE, tables |-> {}, operations |-> {}]

(* publicationManager() returns a manager for these variants only.         *)
KnownVariant(s) == s.variant \in {"standard", "aiven"}

(* An empty list publishes every operation: CREATE leaves the parameter    *)
(* out, ALTER and aiven_extras are passed defaultPublishOperations.        *)
PublishedOperations(s) == IF s.operations = {} THEN Operations ELSE s.operations

(* CREATE PUBLICATION ... FOR ALL TABLES or FOR TABLE ...                  *)
StdCreated(s) ==
  [exists |-> TRUE, allTables |-> s.tables = {},
   tables |-> s.tables, operations |-> PublishedOperations(s)]

(* aiven_extras.pg_create_publication(name, publish, VARIADIC tables) is   *)
(* given the table list whether or not it is empty: never FOR ALL TABLES.  *)
AivenCreated(s) ==
  [exists |-> TRUE, allTables |-> FALSE,
   tables |-> s.tables, operations |-> PublishedOperations(s)]

CreatedPublication(s) ==
  IF s.variant = "aiven" THEN AivenCreated(s) ELSE StdCreated(s)

(* ALTER PUBLICATION ... SET TABLE does not parse with an empty list, and  *)
(* is refused for a publication that is FOR ALL TABLES.                    *)
SetTableAccepted(pub, s) == pub.exists /\ ~pub.allTables /\ s.tables # {}

WithTables(pub, s) == [pub EXCEPT !.tables = s.tables]

WithoutTable(pub, t) == [pub EXCEPT !.tables = @ \ {t}]

(* ALTER PUBLICATION ... SET (publish = ...)                               *)
SetPublishAccepted(pub) == pub.exists

(* Mutant: an empty list leaves the parameter as it is.                    *)
WithOperations_KeepsDefault(pub, s) ==
  IF s.operations = {} THEN pub ELSE [pub EXCEPT !.operations = s.operations]

WithOperations(pub, s) == [pub EXCEPT !.operations = PublishedOperations(s)]

=============================================================================

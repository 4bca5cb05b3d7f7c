------------------------------ MODULE MCGrant ------------------------------
(***************************************************************************)
(* Instances of GrantController for TLC.                                   *)
(***************************************************************************)
EXTENDS GrantController

CONSTANTS r1, r2, app, jobs, ids, db

(* f with the types of g replaced.                                         *)
Lists(default, g) == g @@ [t \in ObjectTypes |-> default]

Spc(objects, privileges) ==
  [role |-> app, objects |-> Lists({}, objects), privileges |-> Lists(<<>>, privileges)]

Kinds == jobs :> "table" @@ ids :> "sequence" @@ db :> "none"

(* A table and a sequence in one object and in two; every way for a list   *)
(* of privileges to be right or wrong; a list of databases.                *)
MixedSpecs ==
  r1 :> {Spc("table" :> {jobs} @@ "sequence" :> {ids},
             "table" :> <<"SELECT", "UPDATE">> @@ "sequence" :> <<"USAGE">>),
         Spc("table" :> {ids}, "table" :> <<"SELECT", "INSERT">>),
         Spc("sequence" :> {jobs}, "sequence" :> <<"USAGE">>),
         Spc("table" :> {jobs}, "table" :> <<"SELECT", "SELECT">>),
         Spc("table" :> {jobs}, "table" :> <<"DUMMY">>),
         Spc("table" :> {jobs}, "table" :> <<"SELECT", "ALL">>),
         Spc("table" :> {jobs}, "table" :> <<"ALL">>)}
  @@ r2 :> {Spc("sequence" :> {ids}, <<>>),
            Spc("database" :> {db} @@ "table" :> {jobs}, "database" :> <<"CONNECT">>)}

(* A database by itself or with a table.                                   *)
DatabaseSpecs ==
  r1 :> {Spc("database" :> {db}, <<>>), Spc("database" :> {db} @@ "table" :> {jobs}, <<>>)}

=============================================================================

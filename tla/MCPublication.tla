--------------------------- MODULE MCPublication ---------------------------
(***************************************************************************)
(* Instances of PublicationController for TLC.                             *)
(***************************************************************************)
EXTENDS PublicationInvariant, TLC

CONSTANTS r1, r2, x, y, t1, t2, insert, update, user

Spc(n, ts, ops, v) == [name |-> n, tables |-> ts, operations |-> ops, variant |-> v]

Pub(all, ts, ops) ==
  [exists |-> TRUE, allTables |-> all, tables |-> ts, operations |-> ops]

(* Two objects that share one publication: every shape of the spec.        *)
SharedSpecs ==
  r1 :> {Spc(x, {t1}, {insert}, "standard"), Spc(x, {}, {}, "aiven"),
         Spc(x, {t1}, {}, "other")}
  @@ r2 :> {Spc(x, {}, {}, "standard"), Spc(x, {t1}, {}, "standard")}

(* Publications found there: one that lists a table, one of all tables.    *)
Found == {Pub(FALSE, {t2}, {insert}), Pub(TRUE, {}, {insert, update})}

(* r1 can be renamed, and then take what r2 names; or list no tables, which *)
(* makes its publication one FOR ALL TABLES, before or after it lists some. *)
RenamingSpecs ==
  r1 :> {Spc(x, {t1}, {}, "standard"), Spc(y, {t1}, {insert}, "standard"),
         Spc(x, {}, {}, "standard")}
  @@ r2 :> {Spc(y, {t2}, {}, "standard")}

(* One object, which lists a table or none.                                *)
EmptyOrNot == r1 :> {Spc(x, {}, {}, "standard"), Spc(x, {t1}, {}, "standard")}

=============================================================================

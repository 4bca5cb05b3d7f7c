------------------------------ MODULE MCTable ------------------------------
(***************************************************************************)
(* Instances of TableController for TLC.                                   *)
(***************************************************************************)
EXTENDS TableController, TLC

CONSTANTS r1, r2, t1, public

Col(n, type, nullable, key) ==
  [name |-> n, type |-> type, nullable |-> nullable, primaryKey |-> key]

Id == Col("id", "uuid", FALSE, TRUE)
Foo == Col("foo", "uuid", TRUE, FALSE)
Bar == Col("bar", "text", FALSE, FALSE)
KeyFoo == Col("foo", "uuid", FALSE, TRUE)
IntegerBar == Col("bar", "integer", TRUE, FALSE)

(* Two objects that share a table: columns in common and of their own, a   *)
(* type that is none when quoted, two columns of one name.                 *)
SharedSpecs ==
  r1 :> {[table |-> t1, columns |-> {Id}], [table |-> t1, columns |-> {Id, Foo, Bar}]}
  @@ r2 :> {[table |-> t1, columns |-> {Foo, KeyFoo}], [table |-> t1, columns |-> {Foo}],
            [table |-> t1, columns |-> {IntegerBar}]}

(* One object, first with one column and then with more.                   *)
OneSpecs ==
  r1 :> {[table |-> t1, columns |-> {Id}], [table |-> t1, columns |-> {Id, Foo}],
         [table |-> t1, columns |-> {Id, Foo, Bar}]}

OneSchema == t1 :> public

FooAndBar == {Foo, Bar}

None == {}

=============================================================================

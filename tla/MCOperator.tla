----------------------------- MODULE MCOperator -----------------------------
(***************************************************************************)
(* Instances of Operator for TLC.                                          *)
(***************************************************************************)
EXTENDS Operator, TLC

CONSTANTS c1, ra, a, t1, t2, insert

Spc(n, ts) ==
  [name |-> n, tables |-> ts, operations |-> {}, variant |-> "standard"]

(* ConfigController's references, and that of nobody's objects.            *)
MCOwners ==
  [config: {c1}, uid: 1 .. MaxConfigEdits] \cup {[config |-> NoConfig, uid |-> 0]}

(* One publication, listed with one table or another, or not.              *)
OneNames == <<c1, a>> :> ra

OneSpecs == ra :> {Spc(a, {t1}), Spc(a, {t2})}

OneDesired == {{}, {Spc(a, {t1})}, {Spc(a, {t2})}}

=============================================================================

----------------------------- MODULE MCManagers -----------------------------
(***************************************************************************)
(* Instances of Managers for TLC.                                          *)
(***************************************************************************)
EXTENDS Managers, TLC

CONSTANTS r1, x, t1, t2, insert, user

Spc(n, ts) ==
  [name |-> n, tables |-> ts, operations |-> {}, variant |-> "standard"]

OneSpecs == r1 :> {Spc(x, {t1}), Spc(x, {t2})}

=============================================================================

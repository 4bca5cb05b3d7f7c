------------------------------ MODULE MCConfig ------------------------------
(***************************************************************************)
(* Instances of ConfigController for TLC.                                  *)
(***************************************************************************)
EXTENDS ConfigController, FiniteSets, TLC

CONSTANTS
  c1, ra, rb, a, b, one, two,
  MaxTogether, \* bound of BoundedSpec: writes of configs and faults
  MaxLag       \* bound of BoundedSpec: object versions on their way to the informer

Spc(n, content) == [name |-> n, content |-> content]

MCOwners == Reference \cup {NoOwner}

(* Two publications with an object each.                                   *)
DistinctNames == <<c1, a>> :> ra @@ <<c1, b>> :> rb

DistinctSpecs == ra :> {Spc(a, one), Spc(a, two)} @@ rb :> {Spc(b, two)}

DistinctDesired == {{}, {Spc(a, one), Spc(b, two)}, {Spc(a, two)}}

(* The names a_b and a-b: both become the object c1-a-b.                   *)
CollidingNames == <<c1, a>> :> ra @@ <<c1, b>> :> ra

CollidingSpecs == ra :> {Spc(a, one), Spc(b, one)}

CollidingDesired == {{Spc(a, one)}, {Spc(b, one)}}

Bounded ==
  /\ configEdits' + faults' <= MaxTogether
  /\ Cardinality(watch') <= MaxLag

(* MaxLag holds up whoever writes an object until the informer, which does *)
(* not stop, has delivered one: nobody waits for good.                     *)
BoundedSpec == Init /\ [][Next /\ Bounded]_vars /\ Fairness

=============================================================================

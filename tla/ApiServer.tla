----------------------------- MODULE ApiServer -----------------------------
(***************************************************************************)
(* The Kubernetes side of the operator for one custom resource kind: the   *)
(* API server's objects and the informer cache the reconcilers read.  None *)
(* of this code is in the repository; it is modelled from the calls the    *)
(* controllers make (r.Get and r.List on the cache; r.Create, r.Update and *)
(* r.Delete on the API server).                                            *)
(*                                                                         *)
(*  - Every write gives the object another rv (resourceVersion), and an    *)
(*    update that carries an old one conflicts.                            *)
(*  - watch holds the versions not yet delivered to the informer.  Those   *)
(*    of one object come in order.  Between objects any order is allowed,  *)
(*    though the server's stream has just one.                             *)
(*  - An object with finalizers survives its deletion: it is marked, and   *)
(*    disappears when its last finalizer is removed.  What remains here is *)
(*    a tombstone, with an rv of its own: a new object of the same name    *)
(*    is never taken for the old one.                                      *)
(***************************************************************************)
EXTENDS Naturals

CONSTANTS
  Resources,         \* names of the objects of this kind
  Owners,            \* controller references an object can carry
  SpecsOf,           \* SpecsOf[r]: the specs the object named r may be given
  OperatorFinalizer, \* "postgres.glints.com/finalizer"
  ForeignFinalizers  \* finalizers of others, e.g. that of foreground deletion

AnyResource == CHOOSE r \in Resources : TRUE
AnyOwner == CHOOSE w \in Owners : TRUE
AnySpec(r) == CHOOSE s \in SpecsOf[r] : TRUE

ASSUME ResourcesAssumption ==
  /\ Resources # {}
  /\ Owners # {}
  /\ \A r \in Resources : SpecsOf[r] # {}

Finalizers == {OperatorFinalizer} \cup ForeignFinalizers

Object == [name: Resources, present: BOOLEAN, rv: Nat, owner: Owners,
           spec: UNION {SpecsOf[r] : r \in Resources},
           finalizers: SUBSET Finalizers, deleting: BOOLEAN]

VARIABLES
  store,     \* the API server: the current object, or tombstone, of a name
  watch,     \* object versions on their way to the informer
  cache      \* the informer's copy, what a reconciler's Get and List return

apiVars == <<store, watch, cache>>

Tombstone(r, rv) ==
  [name |-> r, present |-> FALSE, rv |-> rv, owner |-> AnyOwner,
   spec |-> AnySpec(r), finalizers |-> {}, deleting |-> FALSE]

NewObject(r, s, w) ==
  [name |-> r, present |-> TRUE, rv |-> 0, owner |-> w,
   spec |-> s, finalizers |-> {}, deleting |-> FALSE]

ApiInit ==
  /\ store = [r \in Resources |-> Tombstone(r, 0)]
  /\ watch = {}
  /\ cache = store

(* What the server keeps of a written object: the object with the next rv, *)
(* or a tombstone if it was marked and has no finalizer left.              *)
NextRv(o) == store[o.name].rv + 1

Written(o) ==
  IF o.deleting /\ o.finalizers = {}
    THEN Tombstone(o.name, NextRv(o))
    ELSE [o EXCEPT !.rv = NextRv(o)]

Put(o) ==
  /\ store' = [store EXCEPT ![o.name] = Written(o)]
  /\ watch' = watch \cup {Written(o)}
  /\ cache' = cache

(* client.Update succeeds only on the version it was computed from.        *)
UpdateAccepted(o) == store[o.name].present /\ store[o.name].rv = o.rv

CreateObject(r, s, w) == ~store[r].present /\ Put(NewObject(r, s, w))

EditObject(r, s) == store[r].present /\ Put([store[r] EXCEPT !.spec = s])

(* A deletion marks the object, adding the finalizers fs its propagation   *)
(* policy asks for; deleting a marked object changes nothing.              *)
DeleteObject(r, fs) ==
  /\ store[r].present
  /\ ~store[r].deleting
  /\ Put([store[r] EXCEPT !.deleting = TRUE, !.finalizers = @ \cup fs])

(* The garbage collector or another operator releases its own finalizer.   *)
ReleaseForeign(r, f) ==
  /\ store[r].deleting
  /\ f \in store[r].finalizers \cap ForeignFinalizers
  /\ Put([store[r] EXCEPT !.finalizers = @ \ {f}])

(* The oldest undelivered version of an object reaches the cache.          *)
Deliver(o) ==
  /\ o \in watch
  /\ \A other \in watch : other.name = o.name => o.rv <= other.rv
  /\ watch' = watch \ {o}
  /\ cache' = [cache EXCEPT ![o.name] = o]
  /\ UNCHANGED store

(* A new informer lists the server's objects before it watches.            *)
Relist ==
  /\ cache' = store
  /\ watch' = {}
  /\ UNCHANGED store

ApiTypeOK ==
  /\ store \in [Resources -> Object]
  /\ watch \subseteq Object
  /\ cache \in [Resources -> Object]

(* A copy is a version its object has had: older than the server's, or     *)
(* the same.                                                               *)
Version(o) ==
  /\ o.rv <= store[o.name].rv
  /\ o.rv = store[o.name].rv => o = store[o.name]

(* The informer has nothing but versions of the objects, each under its    *)
(* name.                                                                   *)
CopiesInv ==
  /\ \A r \in Resources :
       store[r].name = r /\ cache[r].name = r /\ Version(cache[r])
  /\ \A o \in watch : Version(o)

=============================================================================

-------------------------- MODULE ApiServerProofs --------------------------
(***************************************************************************)
(* Lemmas about ApiServer that the proofs about every reconciler need:     *)
(* what its writes, deliveries and restarts leave an object.               *)
(***************************************************************************)
EXTENDS ApiServer, TLAPS

(* The arbitrary object, owner and specs that fill a tombstone exist.      *)
LEMMA AnyType ==
  /\ AnyResource \in Resources
  /\ AnyOwner \in Owners
  /\ \A r \in Resources : AnySpec(r) \in SpecsOf[r]
<1>1. AnyResource \in Resources
  BY ResourcesAssumption DEF AnyResource
<1>2. AnyOwner \in Owners
  BY ResourcesAssumption DEF AnyOwner
<1>3. ASSUME NEW r \in Resources
      PROVE  AnySpec(r) \in SpecsOf[r]
  BY ResourcesAssumption DEF AnySpec
<1> QED
  BY <1>1, <1>2, <1>3

(* The fields of an object have their types.                               *)
LEMMA ObjectFields ==
  ASSUME NEW o \in Object
  PROVE  /\ o.name \in Resources
         /\ o.present \in BOOLEAN
         /\ o.rv \in Nat
         /\ o.owner \in Owners
         /\ o.spec \in UNION {SpecsOf[r] : r \in Resources}
         /\ o.finalizers \in SUBSET Finalizers
         /\ o.deleting \in BOOLEAN
BY DEF Object

(* A tombstone is a value of an object, and what is left of its spec is    *)
(* one the object may have.                                                *)
LEMMA TombstoneType ==
  ASSUME NEW r \in Resources, NEW n \in Nat
  PROVE  /\ Tombstone(r, n) \in Object
         /\ Tombstone(r, n).name = r
         /\ Tombstone(r, n).rv = n
         /\ Tombstone(r, n).spec \in SpecsOf[r]
         /\ Tombstone(r, n).finalizers = {}
         /\ ~Tombstone(r, n).present
         /\ ~Tombstone(r, n).deleting
BY AnyType DEF Tombstone, Object

(* At first there are only tombstones, and the informer has them all.      *)
LEMMA ApiInitType == ApiInit => ApiTypeOK
BY TombstoneType DEF ApiInit, ApiTypeOK

(* What the server keeps of a written object has its name and the next rv, *)
(* and is the object itself or a tombstone.                                *)
LEMMA WrittenType ==
  ASSUME ApiTypeOK, NEW o \in Object
  PROVE  /\ Written(o) \in Object
         /\ Written(o).name = o.name
         /\ Written(o).rv = store[o.name].rv + 1
         /\ \/ /\ o.deleting /\ o.finalizers = {}
               /\ ~Written(o).present /\ ~Written(o).deleting
               /\ Written(o).finalizers = {}
               /\ Written(o).spec \in SpecsOf[o.name]
            \/ /\ ~(o.deleting /\ o.finalizers = {})
               /\ Written(o).present = o.present
               /\ Written(o).deleting = o.deleting
               /\ Written(o).finalizers = o.finalizers
               /\ Written(o).owner = o.owner
               /\ Written(o).spec = o.spec
<1>1. NextRv(o) \in Nat /\ NextRv(o) = store[o.name].rv + 1 /\ o.name \in Resources
  BY ObjectFields DEF ApiTypeOK, NextRv
<1>2. CASE o.deleting /\ o.finalizers = {}
  <2>1. Written(o) = Tombstone(o.name, NextRv(o))
    BY <1>2 DEF Written
  <2> QED
    BY <1>1, <1>2, <2>1, TombstoneType
<1>3. CASE ~(o.deleting /\ o.finalizers = {})
  <2>1. Written(o) = [o EXCEPT !.rv = NextRv(o)]
    BY <1>3 DEF Written
  <2> QED
    BY <1>1, <1>3, <2>1 DEF Object
<1> QED
  BY <1>2, <1>3

(* A write changes the one object, and its new version is on the way to    *)
(* the informer.                                                           *)
LEMMA PutType ==
  ASSUME ApiTypeOK, NEW o \in Object, Put(o)
  PROVE  /\ ApiTypeOK'
         /\ store'[o.name] = Written(o)
         /\ \A r \in Resources \ {o.name} : store'[r] = store[r]
BY WrittenType, ObjectFields DEF Put, ApiTypeOK

(* The writes of users and of the garbage collector are writes of objects, *)
(* and leave all the fields alone but those they are for.                  *)
LEMMA OthersObjects ==
  ASSUME ApiTypeOK, NEW r \in Resources
  PROVE  /\ \A s \in SpecsOf[r] : [store[r] EXCEPT !.spec = s] \in Object
         /\ \A s \in SpecsOf[r], w \in Owners : NewObject(r, s, w) \in Object
         /\ \A fs \in SUBSET Finalizers :
              [store[r] EXCEPT !.deleting = TRUE, !.finalizers = @ \cup fs] \in Object
         /\ \A f \in Finalizers :
              /\ [store[r] EXCEPT !.finalizers = @ \ {f}] \in Object
              /\ [store[r] EXCEPT !.finalizers = @ \cup {f}] \in Object
<1>1. \A s \in SpecsOf[r] : s \in UNION {SpecsOf[q] : q \in Resources}
  OBVIOUS
<1>2. store[r] \in Object
  BY DEF ApiTypeOK
<1>3. \A s \in SpecsOf[r] : [store[r] EXCEPT !.spec = s] \in Object
  BY <1>1, <1>2 DEF Object
<1>4. \A s \in SpecsOf[r], w \in Owners : NewObject(r, s, w) \in Object
  BY <1>1 DEF NewObject, Object
<1>5. \A fs \in SUBSET Finalizers :
        [store[r] EXCEPT !.deleting = TRUE, !.finalizers = @ \cup fs] \in Object
  BY <1>2 DEF Object
<1>6. \A f \in Finalizers :
        /\ [store[r] EXCEPT !.finalizers = @ \ {f}] \in Object
        /\ [store[r] EXCEPT !.finalizers = @ \cup {f}] \in Object
  BY <1>2 DEF Object
<1> QED
  BY <1>3, <1>4, <1>5, <1>6

(* A delivery hands one version from the watch to the cache.               *)
LEMMA DeliverType ==
  ASSUME ApiTypeOK, NEW o, Deliver(o)
  PROVE  ApiTypeOK' /\ o \in Object
BY ObjectFields DEF Deliver, ApiTypeOK

(* A restarted informer has what the server has.                           *)
LEMMA RelistType ==
  ASSUME ApiTypeOK, Relist
  PROVE  ApiTypeOK'
BY DEF Relist, ApiTypeOK

-----------------------------------------------------------------------------
(* Versions.                                                               *)

(* A write makes every copy of its object an old one, and leaves those of  *)
(* others alone.                                                           *)
LEMMA PutVersion ==
  ASSUME ApiTypeOK, NEW o \in Object, Put(o), NEW c \in Object, Version(c)
  PROVE  /\ Version(c)'
         /\ c.name = o.name => c.rv < store'[c.name].rv
<1>1. /\ c.name \in Resources /\ c.rv \in Nat /\ store[c.name].rv \in Nat
      /\ store'[o.name].rv = store[o.name].rv + 1
      /\ \A r \in Resources \ {o.name} : store'[r] = store[r]
  BY PutType, WrittenType, ObjectFields DEF ApiTypeOK
<1>2. CASE c.name = o.name
  BY <1>1, <1>2 DEF Version
<1>3. CASE c.name # o.name
  BY <1>1, <1>3 DEF Version
<1> QED
  BY <1>2, <1>3

(* What was written is the server's version.                               *)
LEMMA WrittenVersion ==
  ASSUME ApiTypeOK, NEW o \in Object, Put(o), NEW W, W = Written(o)
  PROVE  Version(W)'
<1>1. store'[W.name] = W /\ W.rv \in Nat
  BY PutType, WrittenType, ObjectFields
<1> QED
  BY <1>1 DEF Version

(* A write keeps the informer's copies versions of their objects.          *)
LEMMA PutCopies ==
  ASSUME ApiTypeOK, CopiesInv, NEW o \in Object, Put(o)
  PROVE  CopiesInv'
<1>1. /\ store'[o.name] = Written(o) /\ Written(o).name = o.name
      /\ o.name \in Resources
      /\ \A r \in Resources \ {o.name} : store'[r] = store[r]
      /\ watch' = watch \cup {Written(o)} /\ cache' = cache
  BY PutType, WrittenType, ObjectFields DEF Put
<1>2. ASSUME NEW c \in watch \cup {cache[q] : q \in Resources}
      PROVE  Version(c)'
  <2>1. c \in Object /\ Version(c)
    BY DEF CopiesInv, ApiTypeOK
  <2> QED
    BY <2>1, PutVersion
<1>3. \A r \in Resources : store'[r].name = r
  BY <1>1 DEF CopiesInv
<1>4. \A r \in Resources : cache'[r].name = r /\ Version(cache[r])'
  BY <1>1, <1>2 DEF CopiesInv, Version
<1>5. \A c \in watch' : Version(c)'
  <2>1. PICK W : W = Written(o)
    OBVIOUS
  <2>2. Version(W)'
    BY <2>1, WrittenVersion
  <2> QED
    BY <1>1, <1>2, <2>1, <2>2
<1> QED
  BY <1>3, <1>4, <1>5 DEF CopiesInv, Version

(* So does a delivery.                                                     *)
LEMMA DeliverCopies ==
  ASSUME ApiTypeOK, CopiesInv, NEW v, Deliver(v)
  PROVE  CopiesInv'
<1>1. /\ v \in watch /\ v \in Object /\ v.name \in Resources
      /\ watch' \subseteq watch /\ store' = store
      /\ cache' = [cache EXCEPT ![v.name] = v]
  BY DeliverType, ObjectFields DEF Deliver
<1>2. \A r \in Resources : cache'[r] = cache[r] \/ (cache'[r] = v /\ v.name = r)
  BY <1>1 DEF ApiTypeOK
<1> QED
  BY <1>1, <1>2 DEF CopiesInv, Version

(* So does a restart.                                                      *)
LEMMA RelistCopies ==
  ASSUME ApiTypeOK, CopiesInv, Relist
  PROVE  CopiesInv'
<1>1. \A r \in Resources : store[r].rv \in Nat
  BY ObjectFields DEF ApiTypeOK
<1> QED
  BY <1>1 DEF Relist, CopiesInv, Version

(* At first the informer has all the tombstones there are.                 *)
LEMMA InitCopies == ApiInit => CopiesInv
<1> SUFFICES ASSUME ApiInit PROVE CopiesInv
  OBVIOUS
<1>1. /\ \A r \in Resources : store[r] = Tombstone(r, 0)
      /\ cache = store /\ watch = {}
  BY DEF ApiInit
<1>2. ASSUME NEW r \in Resources
      PROVE  store[r].name = r /\ store[r].rv = 0
  <2>1. store[r] = Tombstone(r, 0)
    BY <1>1
  <2> QED
    BY <2>1, TombstoneType
<1> QED
  BY <1>1, <1>2 DEF CopiesInv, Version

=============================================================================

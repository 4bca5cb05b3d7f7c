---------------------------- MODULE ManagersProofs ----------------------------
(***************************************************************************)
(* Proofs about Managers, for all constants that satisfy                   *)
(* ManagersAssumption.  While a process leads, its steps and those of      *)
(* users are steps of the lone process of PublicationController, whose     *)
(* lemmas PA and PB bring in; what is left to show is that a process which *)
(* does not lead is ready to.                                              *)
(***************************************************************************)
EXTENDS Managers, Naturals, TLAPS

PA == INSTANCE PublicationProofs WITH
  watch <- watchA, cache <- cacheA, queue <- queueA, pc <- pcA, obj <- objA

PB == INSTANCE PublicationProofs WITH
  watch <- watchB, cache <- cacheB, queue <- queueB, pc <- pcB, obj <- objB

(* What PA and PB assume is assumed of Managers.                           *)
LEMMA Assumptions ==
  /\ PA!ResourcesAssumption /\ PA!PublicationAssumption
  /\ PB!ResourcesAssumption /\ PB!PublicationAssumption
BY ManagersAssumption
   DEF A!ResourcesAssumption, A!PublicationAssumption, A!Publication, A!PublicationSpec,
       PA!ResourcesAssumption, PA!PublicationAssumption, PA!Publication,
       PA!PublicationSpec, PB!ResourcesAssumption, PB!PublicationAssumption,
       PB!Publication, PB!PublicationSpec

-----------------------------------------------------------------------------
(* Lagging.                                                                *)

Object == A!Object

(* A!Lagging and B!Lagging, of any objects, watch and cache.               *)
LaggingOf(s, w, c) ==
  /\ \A r \in Resources :
       /\ c[r].name = r
       /\ c[r].rv <= s[r].rv
       /\ s[r] \in w \cup {c[r]}
  /\ \A o \in w : c[o.name].rv < o.rv /\ o.rv <= s[o.name].rv
  /\ \A o, p \in w : o.name = p.name /\ o.rv = p.rv => o = p

(* The fields of an object that order its versions.                        *)
LEMMA ObjectType ==
  ASSUME NEW o \in Object
  PROVE  o.name \in Resources /\ o.rv \in Nat
BY DEF Object, A!Object

(* A new version of an object, on its way to an informer, comes after all  *)
(* that this informer has and all that is on its way.                      *)
LEMMA WriteLagging ==
  ASSUME NEW s \in [Resources -> Object], NEW w \in SUBSET Object,
         NEW c \in [Resources -> Object], LaggingOf(s, w, c),
         NEW v \in Object, v.rv = s[v.name].rv + 1
  PROVE  LaggingOf([s EXCEPT ![v.name] = v], w \cup {v}, c)
<1> DEFINE t == [s EXCEPT ![v.name] = v]
<1>1. /\ v.name \in Resources /\ v.rv \in Nat /\ s[v.name].rv \in Nat
      /\ t[v.name] = v
      /\ \A r \in Resources : r # v.name => t[r] = s[r]
  BY ObjectType
<1>2. \A r \in Resources : c[r].rv \in Nat /\ s[r].rv \in Nat /\ s[r].rv <= t[r].rv
  <2> TAKE r \in Resources
  <2>1. c[r].rv \in Nat /\ s[r].rv \in Nat
    BY ObjectType
  <2> QED
    BY <1>1, <2>1
<1> HIDE DEF t
<1>3. ASSUME NEW r \in Resources
      PROVE  c[r].name = r /\ c[r].rv <= t[r].rv /\ t[r] \in (w \cup {v}) \cup {c[r]}
  <2>1. c[r].name = r /\ c[r].rv <= s[r].rv /\ s[r] \in w \cup {c[r]}
    BY DEF LaggingOf
  <2>2. c[r].rv \in Nat /\ s[r].rv \in Nat /\ t[r].rv \in Nat /\ s[r].rv <= t[r].rv
    <3>1. t[r] = v \/ t[r] = s[r]
      BY <1>1
    <3> QED
      BY <1>1, <1>2, <3>1
  <2>3. CASE r = v.name
    BY <1>1, <2>1, <2>2, <2>3
  <2>4. CASE r # v.name
    BY <1>1, <2>1, <2>2, <2>4
  <2> QED
    BY <2>3, <2>4
<1>4. ASSUME NEW o \in w
      PROVE  /\ c[o.name].rv < o.rv /\ o.rv <= t[o.name].rv
             /\ o.name = v.name => o.rv < v.rv
  <2>1. o.name \in Resources /\ o.rv \in Nat
    BY ObjectType
  <2>2. c[o.name].rv < o.rv /\ o.rv <= s[o.name].rv
    BY DEF LaggingOf
  <2>3. /\ s[o.name].rv <= t[o.name].rv /\ s[o.name].rv \in Nat
        /\ t[o.name].rv \in Nat
    <3>1. t[o.name] = v \/ t[o.name] = s[o.name]
      BY <1>1, <2>1
    <3> QED
      BY <1>1, <1>2, <2>1, <3>1
  <2> QED
    BY <1>1, <2>1, <2>2, <2>3
<1>5. c[v.name].rv < v.rv /\ v.rv <= t[v.name].rv
  <2>1. c[v.name].rv <= s[v.name].rv
    BY <1>1 DEF LaggingOf
  <2> QED
    BY <1>1, <1>2, <2>1
<1>6. ASSUME NEW o \in w \cup {v}, NEW p \in w \cup {v}, o.name = p.name, o.rv = p.rv
      PROVE  o = p
  <2>1. CASE o \in w /\ p \in w
    BY <1>6, <2>1 DEF LaggingOf
  <2>2. \A q \in w : q.rv \in Nat
    BY ObjectType
  <2>3. ~(o \in w /\ p = v) /\ ~(p \in w /\ o = v)
    BY <1>1, <1>4, <1>6, <2>2
  <2> QED
    BY <2>1, <2>3
<1>7. LaggingOf(t, w \cup {v}, c)
  BY <1>3, <1>4, <1>5, <1>6 DEF LaggingOf
<1> QED
  BY <1>7 DEF t

(* The oldest version on its way is not the server's present one, unless   *)
(* it is the last.                                                         *)
LEMMA DeliverLagging ==
  ASSUME NEW s \in [Resources -> Object], NEW w \in SUBSET Object,
         NEW c \in [Resources -> Object], LaggingOf(s, w, c),
         \A r \in Resources : s[r].name = r,
         NEW o \in w, \A other \in w : other.name = o.name => o.rv <= other.rv
  PROVE  LaggingOf(s, w \ {o}, [c EXCEPT ![o.name] = o])
<1> DEFINE d == [c EXCEPT ![o.name] = o]
<1>1. /\ o.name \in Resources /\ o.rv \in Nat /\ d[o.name] = o
      /\ \A r \in Resources : r # o.name => d[r] = c[r]
      /\ \A r \in Resources : c[r].rv \in Nat /\ s[r].rv \in Nat
      /\ \A p \in w : p.name \in Resources /\ p.rv \in Nat
  BY ObjectType
<1>2. c[o.name].rv < o.rv /\ o.rv <= s[o.name].rv
  BY DEF LaggingOf
<1> HIDE DEF d
<1>3. ASSUME NEW r \in Resources
      PROVE  d[r].name = r /\ d[r].rv <= s[r].rv /\ s[r] \in (w \ {o}) \cup {d[r]}
  <2>1. c[r].name = r /\ c[r].rv <= s[r].rv /\ s[r] \in w \cup {c[r]}
    BY DEF LaggingOf
  <2>2. CASE r = o.name
    <3>1. s[r] # c[r]
      BY <1>1, <1>2, <2>2
    <3> QED
      BY <1>1, <1>2, <2>1, <2>2, <3>1
  <2>3. CASE r # o.name
    <3>1. s[r] # o
      BY <2>3
    <3> QED
      BY <1>1, <2>1, <2>3, <3>1
  <2> QED
    BY <2>2, <2>3
<1>4. ASSUME NEW p \in w \ {o}
      PROVE  d[p.name].rv < p.rv /\ p.rv <= s[p.name].rv
  <2>1. c[p.name].rv < p.rv /\ p.rv <= s[p.name].rv
    BY DEF LaggingOf
  <2>2. CASE p.name = o.name
    <3>1. p.rv # o.rv /\ o.rv <= p.rv
      BY <2>2 DEF LaggingOf
    <3>2. p.rv \in Nat /\ o.rv \in Nat /\ d[p.name] = o
      BY <1>1, <2>2
    <3> QED
      BY <2>1, <3>1, <3>2
  <2>3. CASE p.name # o.name
    BY <1>1, <2>1, <2>3
  <2> QED
    BY <2>2, <2>3
<1>5. LaggingOf(s, w \ {o}, d)
  BY <1>3, <1>4 DEF LaggingOf
<1> QED
  BY <1>5 DEF d

(* An informer that has just listed the objects does not lag.              *)
LEMMA RelistLagging ==
  ASSUME NEW s \in [Resources -> Object], \A r \in Resources : s[r].name = r
  PROVE  LaggingOf(s, {}, s)
<1>1. \A r \in Resources : s[r].rv <= s[r].rv
  <2> TAKE r \in Resources
  <2>1. s[r].rv \in Nat
    BY ObjectType
  <2> QED
    BY <2>1
<1> QED
  BY <1>1 DEF LaggingOf

-----------------------------------------------------------------------------
(* The processes.                                                          *)

(* The two instances of the first process say the same.                    *)
LEMMA SameA ==
  /\ A!TypeOK <=> PA!TypeOK
  /\ A!TypeOK' <=> PA!TypeOK'
  /\ A!StoreInv <=> PA!StoreInv
  /\ A!StoreInv' <=> PA!StoreInv'
  /\ A!Inv <=> PA!Inv
  /\ A!Inv' <=> PA!Inv'
BY DEF A!TypeOK, PA!TypeOK, A!ApiTypeOK, PA!ApiTypeOK, A!Object, PA!Object,
       A!Finalizers, PA!Finalizers, A!Publication, PA!Publication,
       A!PublicationSpec, PA!PublicationSpec, A!Calls, PA!Calls, A!StoreInv,
       PA!StoreInv, A!InformerInv, PA!InformerInv, A!WorkerInv, PA!WorkerInv,
       A!Inv, PA!Inv, A!Faithful, PA!Faithful, A!WellFormed, PA!WellFormed,
       A!Version, PA!Version, A!Held, PA!Held

(* Their steps are the same, too.                                          *)
LEMMA SameStepsA ==
  /\ A!Worker <=> PA!Worker
  /\ A!CallFails <=> PA!CallFails
  /\ \A r \in Resources : A!Begin(r) <=> PA!Begin(r)
  /\ \A r \in Resources : A!Resync(r) <=> PA!Resync(r)
  /\ \A o \in watchA : A!Event(o) <=> PA!Event(o)
  /\ A!Users <=> PA!Users
  /\ A!LoseAccess <=> PA!LoseAccess
  /\ A!RegainAccess <=> PA!RegainAccess
  /\ \A p \in PublicationNames : A!DropByHand(p) <=> PA!DropByHand(p)
<1>1. A!Worker <=> PA!Worker
  BY DEF A!Worker, PA!Worker, A!Connect, PA!Connect, A!AfterConnect,
         PA!AfterConnect, A!AddFinalizer, PA!AddFinalizer, A!Create, PA!Create,
         A!SetTables, PA!SetTables, A!SetPublish, PA!SetPublish, A!Succeed,
         PA!Succeed, A!Drop, PA!Drop, A!RemoveFinalizer, PA!RemoveFinalizer,
         A!Held, PA!Held, A!UpdateAccepted, PA!UpdateAccepted, A!WithFinalizer,
         PA!WithFinalizer, A!WithoutFinalizer, PA!WithoutFinalizer, A!Reply,
         PA!Reply, A!Rejected, PA!Rejected, A!Requeue, PA!Requeue, A!Done,
         PA!Done, A!NoRequest, PA!NoRequest, A!AnyResource, PA!AnyResource,
         A!Put, PA!Put, A!Written, PA!Written, A!NextRv, PA!NextRv,
         A!Tombstone, PA!Tombstone, A!AnyOwner, PA!AnyOwner, A!AnySpec,
         PA!AnySpec, A!CreatedPublication, PA!CreatedPublication, A!StdCreated,
         PA!StdCreated, A!AivenCreated, PA!AivenCreated, A!PublishedOperations,
         PA!PublishedOperations, A!SetTableAccepted, PA!SetTableAccepted,
         A!SetPublishAccepted, PA!SetPublishAccepted, A!WithTables,
         PA!WithTables, A!WithOperations, PA!WithOperations, A!NoPublication,
         PA!NoPublication, A!Listable, PA!Listable, A!KnownVariant,
         PA!KnownVariant
<1>2. A!CallFails <=> PA!CallFails
  BY DEF A!CallFails, PA!CallFails, A!Calls, PA!Calls, A!Requeue, PA!Requeue,
         A!NoRequest, PA!NoRequest, A!Tombstone, PA!Tombstone, A!AnyResource,
         PA!AnyResource, A!AnyOwner, PA!AnyOwner, A!AnySpec, PA!AnySpec
<1>3. /\ \A r \in Resources : A!Begin(r) <=> PA!Begin(r)
      /\ \A r \in Resources : A!Resync(r) <=> PA!Resync(r)
      /\ \A o \in watchA : A!Event(o) <=> PA!Event(o)
  BY DEF A!Begin, PA!Begin, A!Resync, PA!Resync, A!Event, PA!Event, A!Deliver,
         PA!Deliver
<1>4. A!Users <=> PA!Users
  BY DEF A!Users, PA!Users, A!UserEdit, PA!UserEdit, A!UserCreate,
         PA!UserCreate, A!UserDelete, PA!UserDelete, A!EditObject,
         PA!EditObject, A!CreateObject, PA!CreateObject, A!DeleteObject,
         PA!DeleteObject, A!NewObject, PA!NewObject, A!UserWrite, PA!UserWrite,
         A!Put, PA!Put, A!Written, PA!Written, A!NextRv, PA!NextRv,
         A!Tombstone, PA!Tombstone, A!AnyOwner, PA!AnyOwner, A!AnySpec,
         PA!AnySpec
<1>5. /\ A!LoseAccess <=> PA!LoseAccess
      /\ A!RegainAccess <=> PA!RegainAccess
      /\ \A p \in PublicationNames : A!DropByHand(p) <=> PA!DropByHand(p)
  BY DEF A!LoseAccess, PA!LoseAccess, A!RegainAccess, PA!RegainAccess,
         A!DropByHand, PA!DropByHand, A!NoPublication, PA!NoPublication
<1> QED
  BY <1>1, <1>2, <1>3, <1>4, <1>5

(* The two instances of the second process say the same.                    *)
LEMMA SameB ==
  /\ B!TypeOK <=> PB!TypeOK
  /\ B!TypeOK' <=> PB!TypeOK'
  /\ B!StoreInv <=> PB!StoreInv
  /\ B!StoreInv' <=> PB!StoreInv'
  /\ B!Inv <=> PB!Inv
  /\ B!Inv' <=> PB!Inv'
BY DEF B!TypeOK, PB!TypeOK, B!ApiTypeOK, PB!ApiTypeOK, B!Object, PB!Object,
       B!Finalizers, PB!Finalizers, B!Publication, PB!Publication,
       B!PublicationSpec, PB!PublicationSpec, B!Calls, PB!Calls, B!StoreInv,
       PB!StoreInv, B!InformerInv, PB!InformerInv, B!WorkerInv, PB!WorkerInv,
       B!Inv, PB!Inv, B!Faithful, PB!Faithful, B!WellFormed, PB!WellFormed,
       B!Version, PB!Version, B!Held, PB!Held

(* Their steps are the same, too.                                          *)
LEMMA SameStepsB ==
  /\ B!Worker <=> PB!Worker
  /\ B!CallFails <=> PB!CallFails
  /\ \A r \in Resources : B!Begin(r) <=> PB!Begin(r)
  /\ \A r \in Resources : B!Resync(r) <=> PB!Resync(r)
  /\ \A o \in watchB : B!Event(o) <=> PB!Event(o)
  /\ B!Users <=> PB!Users
  /\ B!LoseAccess <=> PB!LoseAccess
  /\ B!RegainAccess <=> PB!RegainAccess
  /\ \A p \in PublicationNames : B!DropByHand(p) <=> PB!DropByHand(p)
<1>1. B!Worker <=> PB!Worker
  BY DEF B!Worker, PB!Worker, B!Connect, PB!Connect, B!AfterConnect,
         PB!AfterConnect, B!AddFinalizer, PB!AddFinalizer, B!Create, PB!Create,
         B!SetTables, PB!SetTables, B!SetPublish, PB!SetPublish, B!Succeed,
         PB!Succeed, B!Drop, PB!Drop, B!RemoveFinalizer, PB!RemoveFinalizer,
         B!Held, PB!Held, B!UpdateAccepted, PB!UpdateAccepted, B!WithFinalizer,
         PB!WithFinalizer, B!WithoutFinalizer, PB!WithoutFinalizer, B!Reply,
         PB!Reply, B!Rejected, PB!Rejected, B!Requeue, PB!Requeue, B!Done,
         PB!Done, B!NoRequest, PB!NoRequest, B!AnyResource, PB!AnyResource,
         B!Put, PB!Put, B!Written, PB!Written, B!NextRv, PB!NextRv,
         B!Tombstone, PB!Tombstone, B!AnyOwner, PB!AnyOwner, B!AnySpec,
         PB!AnySpec, B!CreatedPublication, PB!CreatedPublication, B!StdCreated,
         PB!StdCreated, B!AivenCreated, PB!AivenCreated, B!PublishedOperations,
         PB!PublishedOperations, B!SetTableAccepted, PB!SetTableAccepted,
         B!SetPublishAccepted, PB!SetPublishAccepted, B!WithTables,
         PB!WithTables, B!WithOperations, PB!WithOperations, B!NoPublication,
         PB!NoPublication, B!Listable, PB!Listable, B!KnownVariant,
         PB!KnownVariant
<1>2. B!CallFails <=> PB!CallFails
  BY DEF B!CallFails, PB!CallFails, B!Calls, PB!Calls, B!Requeue, PB!Requeue,
         B!NoRequest, PB!NoRequest, B!Tombstone, PB!Tombstone, B!AnyResource,
         PB!AnyResource, B!AnyOwner, PB!AnyOwner, B!AnySpec, PB!AnySpec
<1>3. /\ \A r \in Resources : B!Begin(r) <=> PB!Begin(r)
      /\ \A r \in Resources : B!Resync(r) <=> PB!Resync(r)
      /\ \A o \in watchB : B!Event(o) <=> PB!Event(o)
  BY DEF B!Begin, PB!Begin, B!Resync, PB!Resync, B!Event, PB!Event, B!Deliver,
         PB!Deliver
<1>4. B!Users <=> PB!Users
  BY DEF B!Users, PB!Users, B!UserEdit, PB!UserEdit, B!UserCreate,
         PB!UserCreate, B!UserDelete, PB!UserDelete, B!EditObject,
         PB!EditObject, B!CreateObject, PB!CreateObject, B!DeleteObject,
         PB!DeleteObject, B!NewObject, PB!NewObject, B!UserWrite, PB!UserWrite,
         B!Put, PB!Put, B!Written, PB!Written, B!NextRv, PB!NextRv,
         B!Tombstone, PB!Tombstone, B!AnyOwner, PB!AnyOwner, B!AnySpec,
         PB!AnySpec
<1>5. /\ B!LoseAccess <=> PB!LoseAccess
      /\ B!RegainAccess <=> PB!RegainAccess
      /\ \A p \in PublicationNames : B!DropByHand(p) <=> PB!DropByHand(p)
  BY DEF B!LoseAccess, PB!LoseAccess, B!RegainAccess, PB!RegainAccess,
         B!DropByHand, PB!DropByHand, B!NoPublication, PB!NoPublication
<1> QED
  BY <1>1, <1>2, <1>3, <1>4, <1>5

(* The objects of A and B are the same, and their informers have nothing   *)
(* else.                                                                   *)
LEMMA Types ==
  ASSUME TypeOK
  PROVE  /\ store \in [Resources -> Object]
         /\ watchA \in SUBSET Object /\ cacheA \in [Resources -> Object]
         /\ watchB \in SUBSET Object /\ cacheB \in [Resources -> Object]
BY DEF TypeOK, Object, A!Object, B!Object, A!Finalizers, B!Finalizers,
       A!TypeOK, A!ApiTypeOK, B!TypeOK, B!ApiTypeOK

(* Lagging is LaggingOf.                                                   *)
LEMMA LaggingIs ==
  /\ A!Lagging <=> LaggingOf(store, watchA, cacheA)
  /\ A!Lagging' <=> LaggingOf(store', watchA', cacheA')
  /\ B!Lagging <=> LaggingOf(store, watchB, cacheB)
  /\ B!Lagging' <=> LaggingOf(store', watchB', cacheB')
BY DEF A!Lagging, B!Lagging, LaggingOf

Writes(v) == v.rv = store[v.name].rv + 1 /\ store' = [store EXCEPT ![v.name] = v]

(* The versions that a step makes.                                         *)
LEMMA VersionsOf ==
  ASSUME TypeOK
  PROVE  /\ UNCHANGED store => Versions = {}
         /\ \A v \in Object : Writes(v) => Versions = {v}
<1>1. UNCHANGED store => Versions = {}
  BY DEF Versions
<1>2. ASSUME NEW v \in Object, Writes(v)
      PROVE  Versions = {v}
  <2>1. v.name \in Resources /\ store[v.name].rv \in Nat
    BY Types, ObjectType
  <2>2. /\ store'[v.name] = v /\ store'[v.name] # store[v.name]
        /\ \A r \in Resources : r # v.name => store'[r] = store[r]
    BY <1>2, <2>1, Types DEF Writes
  <2> QED
    BY <2>1, <2>2 DEF Versions
<1> QED
  BY <1>1, <1>2

(* An informer that is told of what is written keeps its order.            *)
LEMMA NotifiedLagging ==
  ASSUME TypeOK, UNCHANGED store \/ \E v \in Object : Writes(v),
         NEW w \in SUBSET Object, NEW c \in [Resources -> Object],
         LaggingOf(store, w, c)
  PROVE  LaggingOf(store', w \cup Versions, c)
<1>1. CASE UNCHANGED store
  <2>1. w \cup Versions = w /\ store' = store
    BY <1>1, VersionsOf
  <2> QED
    BY <2>1
<1>2. ASSUME NEW v \in Object, Writes(v)
      PROVE  LaggingOf(store', w \cup Versions, c)
  <2>1. store' = [store EXCEPT ![v.name] = v] /\ Versions = {v}
    BY <1>2, VersionsOf DEF Writes
  <2>2. v.rv = store[v.name].rv + 1 /\ store \in [Resources -> Object]
    BY <1>2, Types DEF Writes
  <2> QED
    BY <2>1, <2>2, WriteLagging
<1> QED
  BY <1>1, <1>2

(* A step of the process is one of the lone process that does not die,     *)
(* unless it acquires the lease, dies, or only listens.                    *)
LEMMA StepsOfA ==
  ASSUME A!ManagerStep
  PROVE  \/ /\ PA!Next
            /\ A!Running \/ pcA # "idle"
            /\ UNCHANGED <<leaderElect, leader>>
         \/ A!Lead
         \/ A!Exit
         \/ /\ \E o \in watchA : A!Deliver(o)
            /\ ~A!Running
            /\ UNCHANGED <<queueA, pcA, objA, pg, creator, relations, access,
                           edits, faults, leaderElect, leader>>
<1>1. CASE A!ManagerWorker \/ (A!CallFails /\ A!Lease)
  <2>1. pcA # "idle"
    BY <1>1 DEF A!ManagerWorker, A!Worker, A!Connect, A!AddFinalizer, A!Create,
         A!SetTables, A!SetPublish, A!Succeed, A!Drop, A!RemoveFinalizer,
         A!CallFails, A!Calls
  <2>2. PA!Worker \/ PA!CallFails
    BY <1>1, SameStepsA DEF A!ManagerWorker
  <2> QED
    BY <1>1, <2>1, <2>2 DEF PA!Next, A!ManagerWorker, A!Lease
<1>2. ASSUME NEW r \in Resources, A!ManagerBegin(r) \/ A!ManagerResync(r)
      PROVE  PA!Next /\ A!Running /\ UNCHANGED <<leaderElect, leader>>
  <2>1. PA!Begin(r) \/ PA!Resync(r)
    BY <1>2, SameStepsA DEF A!ManagerBegin, A!ManagerResync
  <2> QED
    BY <1>2, <2>1 DEF PA!Next, A!ManagerBegin, A!ManagerResync, A!Lease
<1>3. ASSUME NEW o \in watchA, A!ManagerEvent(o), A!Running
      PROVE  PA!Next /\ UNCHANGED <<leaderElect, leader>>
  <2>1. PA!Event(o)
    BY <1>3, SameStepsA DEF A!ManagerEvent
  <2> QED
    BY <1>3, <2>1 DEF PA!Next, PA!Informer, A!ManagerEvent, A!Lease
<1>4. ASSUME NEW o \in watchA, A!ManagerEvent(o), ~A!Running
      PROVE  /\ A!Deliver(o)
             /\ UNCHANGED <<queueA, pcA, objA, pg, creator, relations, access,
                            edits, faults, leaderElect, leader>>
  BY <1>4 DEF A!ManagerEvent, A!Lease
<1> QED
  BY <1>1, <1>2, <1>3, <1>4 DEF A!ManagerStep, A!ManagerInformer

(* Users and administrators do to a process what they do to the lone one.  *)
LEMMA OutsideOfA ==
  ASSUME A!Outside
  PROVE  /\ PA!Next
         /\ \/ PA!Users \/ PA!LoseAccess \/ PA!RegainAccess
            \/ \E p \in PublicationNames : PA!DropByHand(p)
         /\ UNCHANGED <<leaderElect, leader>>
BY SameStepsA DEF A!Outside, A!Lease, PA!Next

(* A step writes one object or none.                                       *)
LEMMA WritesOfA ==
  ASSUME A!TypeOK, PA!Next
  PROVE  \/ UNCHANGED store
         \/ \E v \in Object : Writes(v)
<1>1. PA!TypeOK
  BY SameA
<1>2. UNCHANGED store \/ \E o \in PA!Object : PA!Put(o)
  BY <1>1, Assumptions, PA!StepOnObjects
     DEF PA!ObjectsStep, PA!ResourcesAssumption, PA!PublicationAssumption,
         PA!Relist, PA!Deliver
<1>3. ASSUME NEW o \in PA!Object, PA!Put(o)
      PROVE  \E v \in Object : Writes(v)
  <2>1. PICK v : v = PA!Written(o)
    OBVIOUS
  <2>2. v \in PA!Object /\ v.name = o.name /\ v.rv = store[o.name].rv + 1
    BY <1>1, <2>1, Assumptions, PA!WrittenType
       DEF PA!ResourcesAssumption, PA!TypeOK
  <2>3. v \in Object
    BY <2>2 DEF Object, A!Object, PA!Object, A!Finalizers, PA!Finalizers
  <2> QED
    BY <1>3, <2>1, <2>2, <2>3 DEF PA!Put, Writes
<1> QED
  BY <1>2, <1>3

(* A step of the process is one of the lone process that does not die,     *)
(* unless it acquires the lease, dies, or only listens.                    *)
LEMMA StepsOfB ==
  ASSUME B!ManagerStep
  PROVE  \/ /\ PB!Next
            /\ B!Running \/ pcB # "idle"
            /\ UNCHANGED <<leaderElect, leader>>
         \/ B!Lead
         \/ B!Exit
         \/ /\ \E o \in watchB : B!Deliver(o)
            /\ ~B!Running
            /\ UNCHANGED <<queueB, pcB, objB, pg, creator, relations, access,
                           edits, faults, leaderElect, leader>>
<1>1. CASE B!ManagerWorker \/ (B!CallFails /\ B!Lease)
  <2>1. pcB # "idle"
    BY <1>1 DEF B!ManagerWorker, B!Worker, B!Connect, B!AddFinalizer, B!Create,
         B!SetTables, B!SetPublish, B!Succeed, B!Drop, B!RemoveFinalizer,
         B!CallFails, B!Calls
  <2>2. PB!Worker \/ PB!CallFails
    BY <1>1, SameStepsB DEF B!ManagerWorker
  <2> QED
    BY <1>1, <2>1, <2>2 DEF PB!Next, B!ManagerWorker, B!Lease
<1>2. ASSUME NEW r \in Resources, B!ManagerBegin(r) \/ B!ManagerResync(r)
      PROVE  PB!Next /\ B!Running /\ UNCHANGED <<leaderElect, leader>>
  <2>1. PB!Begin(r) \/ PB!Resync(r)
    BY <1>2, SameStepsB DEF B!ManagerBegin, B!ManagerResync
  <2> QED
    BY <1>2, <2>1 DEF PB!Next, B!ManagerBegin, B!ManagerResync, B!Lease
<1>3. ASSUME NEW o \in watchB, B!ManagerEvent(o), B!Running
      PROVE  PB!Next /\ UNCHANGED <<leaderElect, leader>>
  <2>1. PB!Event(o)
    BY <1>3, SameStepsB DEF B!ManagerEvent
  <2> QED
    BY <1>3, <2>1 DEF PB!Next, PB!Informer, B!ManagerEvent, B!Lease
<1>4. ASSUME NEW o \in watchB, B!ManagerEvent(o), ~B!Running
      PROVE  /\ B!Deliver(o)
             /\ UNCHANGED <<queueB, pcB, objB, pg, creator, relations, access,
                            edits, faults, leaderElect, leader>>
  BY <1>4 DEF B!ManagerEvent, B!Lease
<1> QED
  BY <1>1, <1>2, <1>3, <1>4 DEF B!ManagerStep, B!ManagerInformer

(* Users and administrators do to a process what they do to the lone one.  *)
LEMMA OutsideOfB ==
  ASSUME B!Outside
  PROVE  /\ PB!Next
         /\ \/ PB!Users \/ PB!LoseAccess \/ PB!RegainAccess
            \/ \E p \in PublicationNames : PB!DropByHand(p)
         /\ UNCHANGED <<leaderElect, leader>>
BY SameStepsB DEF B!Outside, B!Lease, PB!Next

(* A step writes one object or none.                                       *)
LEMMA WritesOfB ==
  ASSUME B!TypeOK, PB!Next
  PROVE  \/ UNCHANGED store
         \/ \E v \in Object : Writes(v)
<1>1. PB!TypeOK
  BY SameB
<1>2. UNCHANGED store \/ \E o \in PB!Object : PB!Put(o)
  BY <1>1, Assumptions, PB!StepOnObjects
     DEF PB!ObjectsStep, PB!ResourcesAssumption, PB!PublicationAssumption,
         PB!Relist, PB!Deliver
<1>3. ASSUME NEW o \in PB!Object, PB!Put(o)
      PROVE  \E v \in Object : Writes(v)
  <2>1. PICK v : v = PB!Written(o)
    OBVIOUS
  <2>2. v \in PB!Object /\ v.name = o.name /\ v.rv = store[o.name].rv + 1
    BY <1>1, <2>1, Assumptions, PB!WrittenType
       DEF PB!ResourcesAssumption, PB!TypeOK
  <2>3. v \in Object
    BY <2>2 DEF Object, A!Object, PB!Object, A!Finalizers, PB!Finalizers
  <2> QED
    BY <1>3, <2>1, <2>2, <2>3 DEF PB!Put, Writes
<1> QED
  BY <1>2, <1>3

(* A step of the process keeps its types.                                  *)
LEMMA TypeOfA ==
  ASSUME A!TypeOK, A!ManagerStep
  PROVE  A!TypeOK'
<1>1. CASE PA!Next
  BY <1>1, SameA, Assumptions, PA!NextType
     DEF PA!ResourcesAssumption, PA!PublicationAssumption
<1>2. CASE A!Lead
  BY <1>2 DEF A!Lead, A!TypeOK, A!ApiTypeOK
<1>3. CASE A!Exit
  <2>1. A!NoRequest \in A!Object
    BY Assumptions, PA!NoRequestType
       DEF PA!ResourcesAssumption, PA!PublicationAssumption, A!Object, PA!Object,
           A!Finalizers, PA!Finalizers, A!NoRequest, PA!NoRequest, A!Tombstone,
           PA!Tombstone, A!AnyResource, PA!AnyResource, A!AnyOwner, PA!AnyOwner,
           A!AnySpec, PA!AnySpec
  <2>2. MaxFaults \in Nat
    BY ManagersAssumption DEF A!PublicationAssumption
  <2> QED
    BY <1>3, <2>1, <2>2 DEF A!Exit, A!Relist, A!TypeOK, A!ApiTypeOK
<1>4. ASSUME NEW o \in watchA, A!Deliver(o),
             UNCHANGED <<queueA, pcA, objA, pg, creator, relations, access, edits, faults>>
      PROVE  A!TypeOK'
  <2>1. o \in A!Object /\ o.name \in Resources
    BY DEF A!TypeOK, A!ApiTypeOK, A!Object
  <2> QED
    BY <1>4, <2>1 DEF A!Deliver, A!TypeOK, A!ApiTypeOK
<1> QED
  BY <1>1, <1>2, <1>3, <1>4, StepsOfA

(* So does what it hears of the steps of the other.                        *)
LEMMA ListeningA ==
  ASSUME A!TypeOK, B!TypeOK', NotifyA
  PROVE  A!TypeOK'
<1>1. store' \in [Resources -> A!Object]
  BY DEF B!TypeOK, B!ApiTypeOK, B!Object, A!Object, A!Finalizers, B!Finalizers
<1>2. Versions \in SUBSET A!Object
  BY <1>1 DEF Versions
<1>3. A!Publication = B!Publication
  BY DEF A!Publication, B!Publication
<1> QED
  BY <1>1, <1>2, <1>3 DEF NotifyA, A!TypeOK, A!ApiTypeOK, B!TypeOK

(* A step of the process keeps its types.                                  *)
LEMMA TypeOfB ==
  ASSUME B!TypeOK, B!ManagerStep
  PROVE  B!TypeOK'
<1>1. CASE PB!Next
  BY <1>1, SameB, Assumptions, PB!NextType
     DEF PB!ResourcesAssumption, PB!PublicationAssumption
<1>2. CASE B!Lead
  BY <1>2 DEF B!Lead, B!TypeOK, B!ApiTypeOK
<1>3. CASE B!Exit
  <2>1. B!NoRequest \in B!Object
    BY Assumptions, PB!NoRequestType
       DEF PB!ResourcesAssumption, PB!PublicationAssumption, B!Object, PB!Object,
           B!Finalizers, PB!Finalizers, B!NoRequest, PB!NoRequest, B!Tombstone,
           PB!Tombstone, B!AnyResource, PB!AnyResource, B!AnyOwner, PB!AnyOwner,
           B!AnySpec, PB!AnySpec
  <2>2. MaxFaults \in Nat
    BY ManagersAssumption DEF B!PublicationAssumption
  <2> QED
    BY <1>3, <2>1, <2>2 DEF B!Exit, B!Relist, B!TypeOK, B!ApiTypeOK
<1>4. ASSUME NEW o \in watchB, B!Deliver(o),
             UNCHANGED <<queueB, pcB, objB, pg, creator, relations, access, edits, faults>>
      PROVE  B!TypeOK'
  <2>1. o \in B!Object /\ o.name \in Resources
    BY DEF B!TypeOK, B!ApiTypeOK, B!Object
  <2> QED
    BY <1>4, <2>1 DEF B!Deliver, B!TypeOK, B!ApiTypeOK
<1> QED
  BY <1>1, <1>2, <1>3, <1>4, StepsOfB

(* So does what it hears of the steps of the other.                        *)
LEMMA ListeningB ==
  ASSUME B!TypeOK, A!TypeOK', NotifyB
  PROVE  B!TypeOK'
<1>1. store' \in [Resources -> B!Object]
  BY DEF A!TypeOK, A!ApiTypeOK, A!Object, B!Object, B!Finalizers, A!Finalizers
<1>2. Versions \in SUBSET B!Object
  BY <1>1 DEF Versions
<1>3. B!Publication = A!Publication
  BY DEF B!Publication, A!Publication
<1> QED
  BY <1>1, <1>2, <1>3 DEF NotifyB, B!TypeOK, B!ApiTypeOK, A!TypeOK

-----------------------------------------------------------------------------
(* The invariant.                                                          *)

(* No publication outlives its object, if objects keep their names.        *)
NoneLeft == A!NamesStable => A!NoOrphan /\ A!CreatorNames

(* What the leader relies on, whichever process it is.                     *)
Relied == A!StoreInv /\ NoneLeft

(* Whether names are stable is a matter of the constants.                  *)
LEMMA Constant == A!NamesStable' <=> A!NamesStable
BY DEF A!NamesStable

(* It says the same of the two.                                            *)
LEMMA SameRelied ==
  /\ Relied <=> B!StoreInv /\ (PB!NamesStable => PB!NoOrphan /\ PB!CreatorNames)
  /\ Relied' <=> B!StoreInv' /\ (PB!NamesStable => PB!NoOrphan' /\ PB!CreatorNames')
  /\ Relied <=> A!StoreInv /\ (PA!NamesStable => PA!NoOrphan /\ PA!CreatorNames)
  /\ Relied' <=> A!StoreInv' /\ (PA!NamesStable => PA!NoOrphan' /\ PA!CreatorNames')
BY DEF Relied, NoneLeft, A!StoreInv, B!StoreInv, A!WellFormed, B!WellFormed,
       A!Held, PA!Held, B!Held, PB!Held, A!NoOrphan, PA!NoOrphan, PB!NoOrphan,
       A!CreatorNames, PA!CreatorNames, PB!CreatorNames, A!NamesStable,
       PA!NamesStable, PB!NamesStable

(* The server keeps each object under its name.                            *)
LEMMA Names ==
  ASSUME Relied
  PROVE  \A r \in Resources : store[r].name = r
BY DEF Relied, A!StoreInv

(* A process whose informer has caught up can lead.                        *)
LEMMA CaughtUpA ==
  ASSUME TypeOK, A!StoreInv, A!Lagging, watchA = {}, pcA = "idle"
  PROVE  A!Inv
<1>1. \A r \in Resources : cacheA[r] = store[r] /\ store[r].rv \in Nat
  BY Types, ObjectType DEF A!Lagging
<1>2. A!InformerInv
  BY <1>1 DEF A!StoreInv, A!InformerInv, A!Faithful, A!Version, A!Held
<1>3. A!WorkerInv
  BY DEF A!WorkerInv
<1> QED
  BY <1>2, <1>3 DEF A!Inv

(* What users write is on its way to the process.                          *)
LEMMA OutsideNotifiesA ==
  ASSUME A!TypeOK, TypeOK, A!StoreInv, A!Outside
  PROVE  NotifyA
<1>1. CASE PA!Users
  <2>1. PA!TypeOK /\ PA!StoreInv
    BY SameA
  <2>2. PICK o \in PA!Object : PA!Put(o) /\ UNCHANGED <<queueA, pcA, objA>>
    BY <1>1, <2>1, Assumptions, PA!UsersPut
       DEF PA!ResourcesAssumption, PA!PublicationAssumption
  <2>3. PICK v : v = PA!Written(o)
    OBVIOUS
  <2>4. v \in PA!Object /\ v.name = o.name /\ v.rv = store[o.name].rv + 1
    BY <2>1, <2>2, <2>3, Assumptions, PA!WrittenType
       DEF PA!ResourcesAssumption, PA!TypeOK
  <2>5. v \in Object
    BY <2>4 DEF Object, A!Object, PA!Object, A!Finalizers, PA!Finalizers
  <2>6. /\ store' = [store EXCEPT ![v.name] = v]
        /\ watchA' = watchA \cup {v} /\ cacheA' = cacheA
    BY <2>2, <2>3, <2>4 DEF PA!Put
  <2>7. Versions = {v}
    BY <2>4, <2>5, <2>6, VersionsOf DEF Writes
  <2> QED
    BY <2>2, <2>6, <2>7 DEF NotifyA
<1>2. CASE \/ PA!LoseAccess \/ PA!RegainAccess
           \/ \E p \in PublicationNames : PA!DropByHand(p)
  <2>1. UNCHANGED <<store, watchA, cacheA, queueA, pcA, objA>>
    BY <1>2 DEF PA!LoseAccess, PA!RegainAccess, PA!DropByHand
  <2>2. Versions = {}
    BY <2>1, VersionsOf
  <2> QED
    BY <2>1, <2>2 DEF NotifyA
<1> QED
  BY <1>1, <1>2, OutsideOfA

(* A process keeps its part of the invariant while nothing changes that it *)
(* is about, whoever is the leader among the others.                       *)
LEMMA QuietA ==
  ASSUME TypeOK, NotifyA, UNCHANGED <<store, pg>>, A!ProcessInv,
         leader' = "A" <=> leader = "A"
  PROVE  A!ProcessInv'
<1>1. UNCHANGED <<store, pg, watchA, cacheA, queueA, pcA, objA>>
  BY VersionsOf DEF NotifyA
<1>2. (A!Inv <=> A!Inv') /\ (A!Lagging <=> A!Lagging')
  BY <1>1 DEF A!Inv, A!StoreInv, A!InformerInv, A!WorkerInv, A!Faithful,
       A!WellFormed, A!Version, A!Held, A!Lagging
<1> QED
  BY <1>1, <1>2 DEF A!ProcessInv

(* A process that does not lead keeps up with a step that writes one       *)
(* object.                                                                 *)
LEMMA KeepsUpA ==
  ASSUME TypeOK, NotifyA, UNCHANGED store \/ \E v \in Object : Writes(v),
         UNCHANGED leader, leader # "A", A!ProcessInv
  PROVE  A!ProcessInv'
<1>1. LaggingOf(store, watchA, cacheA) /\ pcA = "idle"
  BY LaggingIs DEF A!ProcessInv
<1>2. LaggingOf(store', watchA \cup Versions, cacheA)
  BY <1>1, Types, NotifiedLagging
<1>3. A!Lagging' /\ pcA' = "idle" /\ leader' # "A"
  BY <1>1, <1>2, LaggingIs DEF NotifyA
<1> QED
  BY <1>3 DEF A!ProcessInv

(* A process whose informer has caught up can lead.                        *)
LEMMA CaughtUpB ==
  ASSUME TypeOK, B!StoreInv, B!Lagging, watchB = {}, pcB = "idle"
  PROVE  B!Inv
<1>1. \A r \in Resources : cacheB[r] = store[r] /\ store[r].rv \in Nat
  BY Types, ObjectType DEF B!Lagging
<1>2. B!InformerInv
  BY <1>1 DEF B!StoreInv, B!InformerInv, B!Faithful, B!Version, B!Held
<1>3. B!WorkerInv
  BY DEF B!WorkerInv
<1> QED
  BY <1>2, <1>3 DEF B!Inv

(* What users write is on its way to the process.                          *)
LEMMA OutsideNotifiesB ==
  ASSUME B!TypeOK, TypeOK, B!StoreInv, B!Outside
  PROVE  NotifyB
<1>1. CASE PB!Users
  <2>1. PB!TypeOK /\ PB!StoreInv
    BY SameB
  <2>2. PICK o \in PB!Object : PB!Put(o) /\ UNCHANGED <<queueB, pcB, objB>>
    BY <1>1, <2>1, Assumptions, PB!UsersPut
       DEF PB!ResourcesAssumption, PB!PublicationAssumption
  <2>3. PICK v : v = PB!Written(o)
    OBVIOUS
  <2>4. v \in PB!Object /\ v.name = o.name /\ v.rv = store[o.name].rv + 1
    BY <2>1, <2>2, <2>3, Assumptions, PB!WrittenType
       DEF PB!ResourcesAssumption, PB!TypeOK
  <2>5. v \in Object
    BY <2>4 DEF Object, A!Object, PB!Object, A!Finalizers, PB!Finalizers
  <2>6. /\ store' = [store EXCEPT ![v.name] = v]
        /\ watchB' = watchB \cup {v} /\ cacheB' = cacheB
    BY <2>2, <2>3, <2>4 DEF PB!Put
  <2>7. Versions = {v}
    BY <2>4, <2>5, <2>6, VersionsOf DEF Writes
  <2> QED
    BY <2>2, <2>6, <2>7 DEF NotifyB
<1>2. CASE \/ PB!LoseAccess \/ PB!RegainAccess
           \/ \E p \in PublicationNames : PB!DropByHand(p)
  <2>1. UNCHANGED <<store, watchB, cacheB, queueB, pcB, objB>>
    BY <1>2 DEF PB!LoseAccess, PB!RegainAccess, PB!DropByHand
  <2>2. Versions = {}
    BY <2>1, VersionsOf
  <2> QED
    BY <2>1, <2>2 DEF NotifyB
<1> QED
  BY <1>1, <1>2, OutsideOfB

(* A process keeps its part of the invariant while nothing changes that it *)
(* is about, whoever is the leader among the others.                       *)
LEMMA QuietB ==
  ASSUME TypeOK, NotifyB, UNCHANGED <<store, pg>>, B!ProcessInv,
         leader' = "B" <=> leader = "B"
  PROVE  B!ProcessInv'
<1>1. UNCHANGED <<store, pg, watchB, cacheB, queueB, pcB, objB>>
  BY VersionsOf DEF NotifyB
<1>2. (B!Inv <=> B!Inv') /\ (B!Lagging <=> B!Lagging')
  BY <1>1 DEF B!Inv, B!StoreInv, B!InformerInv, B!WorkerInv, B!Faithful,
       B!WellFormed, B!Version, B!Held, B!Lagging
<1> QED
  BY <1>1, <1>2 DEF B!ProcessInv

(* A process that does not lead keeps up with a step that writes one       *)
(* object.                                                                 *)
LEMMA KeepsUpB ==
  ASSUME TypeOK, NotifyB, UNCHANGED store \/ \E v \in Object : Writes(v),
         UNCHANGED leader, leader # "B", B!ProcessInv
  PROVE  B!ProcessInv'
<1>1. LaggingOf(store, watchB, cacheB) /\ pcB = "idle"
  BY LaggingIs DEF B!ProcessInv
<1>2. LaggingOf(store', watchB \cup Versions, cacheB)
  BY <1>1, Types, NotifiedLagging
<1>3. B!Lagging' /\ pcB' = "idle" /\ leader' # "B"
  BY <1>1, <1>2, LaggingIs DEF NotifyB
<1> QED
  BY <1>3 DEF B!ProcessInv

(* A step of the process keeps the invariant.                              *)
LEMMA InvOfA ==
  ASSUME Inv, leaderElect, StepA
  PROVE  Relied' /\ A!ProcessInv' /\ B!ProcessInv'
<1>1. /\ TypeOK /\ A!TypeOK /\ A!StoreInv /\ Relied
      /\ A!ProcessInv /\ B!ProcessInv /\ A!ManagerStep /\ NotifyB
  BY SameRelied DEF Inv, TypeOK, Relied, NoneLeft, StepA
<1>2. CASE PA!Next /\ (A!Running \/ pcA # "idle") /\ UNCHANGED <<leaderElect, leader>>
  <2>1. leader = "A" /\ leader' = "A" /\ A!Inv
    BY <1>1, <1>2 DEF A!ProcessInv, A!Running
  <2>2. /\ PA!TypeOK /\ PA!Inv
        /\ PA!NamesStable => PA!NoOrphan /\ PA!CreatorNames
    BY <1>1, <2>1, SameA, SameRelied
  <2>3. PA!Inv'
    BY <1>2, <2>2, Assumptions, PA!NextInv
       DEF PA!ResourcesAssumption, PA!PublicationAssumption
  <2>4. PA!NamesStable => PA!NoOrphan' /\ PA!CreatorNames'
    BY <1>2, <2>2, <2>3, Assumptions, PA!NextNoOrphan
       DEF PA!ResourcesAssumption, PA!PublicationAssumption
  <2>5. A!Inv' /\ A!StoreInv' /\ Relied'
    BY <2>3, <2>4, SameA, SameRelied DEF PA!Inv
  <2>6. B!ProcessInv'
    <3>1. UNCHANGED store \/ \E v \in Object : Writes(v)
      BY <1>1, <1>2, WritesOfA
    <3> QED
      BY <1>1, <2>1, <3>1, KeepsUpB
  <2>7. A!ProcessInv'
    BY <2>1, <2>5 DEF A!ProcessInv
  <2> QED
    BY <2>5, <2>6, <2>7, SameRelied DEF Relied
<1>3. CASE A!Lead
  <2>1. /\ leader = NoOne /\ leader' = "A" /\ leader \notin {"A", "B"} /\ watchA = {}
        /\ UNCHANGED <<store, watchA, cacheA, pcA, objA, pg, creator>>
    BY <1>3, ManagersAssumption DEF A!Lead
  <2>2. A!Inv
    BY <1>1, <2>1, CaughtUpA DEF A!ProcessInv
  <2>3. A!Inv'
    BY <2>1, <2>2 DEF A!Inv, A!StoreInv, A!InformerInv, A!WorkerInv, A!Faithful,
         A!WellFormed, A!Version, A!Held
  <2>4. B!ProcessInv'
    BY <1>1, <2>1, QuietB
  <2>5. Relied'
    BY <1>1, <2>1
       DEF Relied, NoneLeft, A!NamesStable, A!StoreInv, A!WellFormed, A!NoOrphan,
           A!Held, A!CreatorNames
  <2> QED
    BY <2>1, <2>3, <2>4, <2>5 DEF A!ProcessInv
<1>4. CASE A!Exit
  <2>1. /\ leader' = (IF leader = "A" THEN NoOne ELSE leader)
        /\ watchA' = {} /\ cacheA' = store /\ pcA' = "idle"
        /\ UNCHANGED <<store, pg, creator>>
    BY <1>4 DEF A!Exit, A!Relist
  <2>2. leader' # "A" /\ (leader' = "B" <=> leader = "B")
    BY <2>1, ManagersAssumption
  <2>3. A!Lagging'
    BY <1>1, <2>1, Types, Names, RelistLagging, LaggingIs
  <2>4. B!ProcessInv'
    BY <1>1, <2>1, <2>2, QuietB
  <2>5. Relied'
    BY <1>1, <2>1
       DEF Relied, NoneLeft, A!NamesStable, A!StoreInv, A!WellFormed, A!NoOrphan,
           A!Held, A!CreatorNames
  <2> QED
    BY <2>1, <2>2, <2>3, <2>4, <2>5 DEF A!ProcessInv
<1>5. ASSUME NEW o \in watchA, A!Deliver(o), ~A!Running,
             UNCHANGED <<queueA, pcA, objA, pg, creator, relations, access,
                         edits, faults, leaderElect, leader>>
      PROVE  Relied' /\ A!ProcessInv' /\ B!ProcessInv'
  <2>1. /\ leader # "A" /\ UNCHANGED <<store, pg, creator, leader, pcA>>
        /\ watchA' = watchA \ {o} /\ cacheA' = [cacheA EXCEPT ![o.name] = o]
        /\ \A other \in watchA : other.name = o.name => o.rv <= other.rv
    BY <1>5 DEF A!Running, A!Deliver
  <2>2. A!Lagging /\ pcA = "idle"
    BY <1>1, <2>1 DEF A!ProcessInv
  <2>3. LaggingOf(store, watchA, cacheA)
    BY <2>2, LaggingIs
  <2>4. LaggingOf(store, watchA \ {o}, [cacheA EXCEPT ![o.name] = o])
    BY <1>1, <2>1, <2>3, Types, Names, DeliverLagging
  <2>5. A!Lagging'
    BY <2>1, <2>4, LaggingIs
  <2>6. B!ProcessInv'
    BY <1>1, <2>1, QuietB
  <2>7. Relied'
    BY <1>1, <2>1
       DEF Relied, NoneLeft, A!NamesStable, A!StoreInv, A!WellFormed, A!NoOrphan,
           A!Held, A!CreatorNames
  <2> QED
    BY <2>1, <2>2, <2>5, <2>6, <2>7 DEF A!ProcessInv
<1> QED
  BY <1>1, <1>2, <1>3, <1>4, <1>5, StepsOfA

(* So does what users and administrators do.                               *)
LEMMA OutsideOnA ==
  ASSUME Inv, leaderElect, A!Outside
  PROVE  Relied' /\ A!ProcessInv'
<1>1. /\ TypeOK /\ A!TypeOK /\ A!StoreInv /\ Relied
      /\ A!ProcessInv
  BY SameRelied DEF Inv, TypeOK, Relied, NoneLeft
<1>2. /\ PA!TypeOK /\ PA!StoreInv
      /\ PA!NamesStable => PA!NoOrphan /\ PA!CreatorNames
  BY <1>1, SameA, SameRelied
<1>3. PA!Next /\ UNCHANGED <<leaderElect, leader>>
  BY OutsideOfA
<1>4. /\ PA!StoreInv'
      /\ PA!NamesStable => PA!NoOrphan' /\ PA!CreatorNames'
  BY <1>2, OutsideOfA, Assumptions, PA!OthersKeepObjects, PA!OthersNoOrphan
     DEF PA!ResourcesAssumption, PA!PublicationAssumption
<1>5. Relied'
  BY <1>4, SameA, SameRelied
<1>6. CASE leader = "A"
  <2>1. PA!Inv
    BY <1>1, <1>6, SameA DEF A!ProcessInv
  <2>2. PA!Inv'
    BY <1>2, <1>3, <2>1, Assumptions, PA!NextInv
       DEF PA!ResourcesAssumption, PA!PublicationAssumption
  <2> QED
    BY <1>3, <1>5, <1>6, <2>2, SameA DEF A!ProcessInv
<1>7. CASE leader # "A"
  <2>1. NotifyA
    BY <1>1, OutsideNotifiesA
  <2>2. UNCHANGED store \/ \E v \in Object : Writes(v)
    BY <1>1, <1>3, WritesOfA
  <2> QED
    BY <1>1, <1>3, <1>5, <1>7, <2>1, <2>2, KeepsUpA
<1> QED
  BY <1>6, <1>7

(* A step of the process keeps the invariant.                              *)
LEMMA InvOfB ==
  ASSUME Inv, leaderElect, StepB
  PROVE  Relied' /\ B!ProcessInv' /\ A!ProcessInv'
<1>1. /\ TypeOK /\ B!TypeOK /\ B!StoreInv /\ Relied
      /\ B!ProcessInv /\ A!ProcessInv /\ B!ManagerStep /\ NotifyA
  BY SameRelied DEF Inv, TypeOK, Relied, NoneLeft, StepB
<1>2. CASE PB!Next /\ (B!Running \/ pcB # "idle") /\ UNCHANGED <<leaderElect, leader>>
  <2>1. leader = "B" /\ leader' = "B" /\ B!Inv
    BY <1>1, <1>2 DEF B!ProcessInv, B!Running
  <2>2. /\ PB!TypeOK /\ PB!Inv
        /\ PB!NamesStable => PB!NoOrphan /\ PB!CreatorNames
    BY <1>1, <2>1, SameB, SameRelied
  <2>3. PB!Inv'
    BY <1>2, <2>2, Assumptions, PB!NextInv
       DEF PB!ResourcesAssumption, PB!PublicationAssumption
  <2>4. PB!NamesStable => PB!NoOrphan' /\ PB!CreatorNames'
    BY <1>2, <2>2, <2>3, Assumptions, PB!NextNoOrphan
       DEF PB!ResourcesAssumption, PB!PublicationAssumption
  <2>5. B!Inv' /\ B!StoreInv' /\ Relied'
    BY <2>3, <2>4, SameB, SameRelied DEF PB!Inv
  <2>6. A!ProcessInv'
    <3>1. UNCHANGED store \/ \E v \in Object : Writes(v)
      BY <1>1, <1>2, WritesOfB
    <3> QED
      BY <1>1, <2>1, <3>1, KeepsUpA
  <2>7. B!ProcessInv'
    BY <2>1, <2>5 DEF B!ProcessInv
  <2> QED
    BY <2>5, <2>6, <2>7, SameRelied DEF Relied
<1>3. CASE B!Lead
  <2>1. /\ leader = NoOne /\ leader' = "B" /\ leader \notin {"B", "A"} /\ watchB = {}
        /\ UNCHANGED <<store, watchB, cacheB, pcB, objB, pg, creator>>
    BY <1>3, ManagersAssumption DEF B!Lead
  <2>2. B!Inv
    BY <1>1, <2>1, CaughtUpB DEF B!ProcessInv
  <2>3. B!Inv'
    BY <2>1, <2>2 DEF B!Inv, B!StoreInv, B!InformerInv, B!WorkerInv, B!Faithful,
         B!WellFormed, B!Version, B!Held
  <2>4. A!ProcessInv'
    BY <1>1, <2>1, QuietA
  <2>5. Relied'
    BY <1>1, <2>1
       DEF Relied, NoneLeft, A!NamesStable, A!StoreInv, A!WellFormed, A!NoOrphan,
           A!Held, A!CreatorNames
  <2> QED
    BY <2>1, <2>3, <2>4, <2>5 DEF B!ProcessInv
<1>4. CASE B!Exit
  <2>1. /\ leader' = (IF leader = "B" THEN NoOne ELSE leader)
        /\ watchB' = {} /\ cacheB' = store /\ pcB' = "idle"
        /\ UNCHANGED <<store, pg, creator>>
    BY <1>4 DEF B!Exit, B!Relist
  <2>2. leader' # "B" /\ (leader' = "A" <=> leader = "A")
    BY <2>1, ManagersAssumption
  <2>3. B!Lagging'
    BY <1>1, <2>1, Types, Names, RelistLagging, LaggingIs
  <2>4. A!ProcessInv'
    BY <1>1, <2>1, <2>2, QuietA
  <2>5. Relied'
    BY <1>1, <2>1
       DEF Relied, NoneLeft, A!NamesStable, A!StoreInv, A!WellFormed, A!NoOrphan,
           A!Held, A!CreatorNames
  <2> QED
    BY <2>1, <2>2, <2>3, <2>4, <2>5 DEF B!ProcessInv
<1>5. ASSUME NEW o \in watchB, B!Deliver(o), ~B!Running,
             UNCHANGED <<queueB, pcB, objB, pg, creator, relations, access,
                         edits, faults, leaderElect, leader>>
      PROVE  Relied' /\ B!ProcessInv' /\ A!ProcessInv'
  <2>1. /\ leader # "B" /\ UNCHANGED <<store, pg, creator, leader, pcB>>
        /\ watchB' = watchB \ {o} /\ cacheB' = [cacheB EXCEPT ![o.name] = o]
        /\ \A other \in watchB : other.name = o.name => o.rv <= other.rv
    BY <1>5 DEF B!Running, B!Deliver
  <2>2. B!Lagging /\ pcB = "idle"
    BY <1>1, <2>1 DEF B!ProcessInv
  <2>3. LaggingOf(store, watchB, cacheB)
    BY <2>2, LaggingIs
  <2>4. LaggingOf(store, watchB \ {o}, [cacheB EXCEPT ![o.name] = o])
    BY <1>1, <2>1, <2>3, Types, Names, DeliverLagging
  <2>5. B!Lagging'
    BY <2>1, <2>4, LaggingIs
  <2>6. A!ProcessInv'
    BY <1>1, <2>1, QuietA
  <2>7. Relied'
    BY <1>1, <2>1
       DEF Relied, NoneLeft, A!NamesStable, A!StoreInv, A!WellFormed, A!NoOrphan,
           A!Held, A!CreatorNames
  <2> QED
    BY <2>1, <2>2, <2>5, <2>6, <2>7 DEF B!ProcessInv
<1> QED
  BY <1>1, <1>2, <1>3, <1>4, <1>5, StepsOfB

(* So does what users and administrators do.                               *)
LEMMA OutsideOnB ==
  ASSUME Inv, leaderElect, B!Outside
  PROVE  Relied' /\ B!ProcessInv'
<1>1. /\ TypeOK /\ B!TypeOK /\ B!StoreInv /\ Relied
      /\ B!ProcessInv
  BY SameRelied DEF Inv, TypeOK, Relied, NoneLeft
<1>2. /\ PB!TypeOK /\ PB!StoreInv
      /\ PB!NamesStable => PB!NoOrphan /\ PB!CreatorNames
  BY <1>1, SameB, SameRelied
<1>3. PB!Next /\ UNCHANGED <<leaderElect, leader>>
  BY OutsideOfB
<1>4. /\ PB!StoreInv'
      /\ PB!NamesStable => PB!NoOrphan' /\ PB!CreatorNames'
  BY <1>2, OutsideOfB, Assumptions, PB!OthersKeepObjects, PB!OthersNoOrphan
     DEF PB!ResourcesAssumption, PB!PublicationAssumption
<1>5. Relied'
  BY <1>4, SameB, SameRelied
<1>6. CASE leader = "B"
  <2>1. PB!Inv
    BY <1>1, <1>6, SameB DEF B!ProcessInv
  <2>2. PB!Inv'
    BY <1>2, <1>3, <2>1, Assumptions, PB!NextInv
       DEF PB!ResourcesAssumption, PB!PublicationAssumption
  <2> QED
    BY <1>3, <1>5, <1>6, <2>2, SameB DEF B!ProcessInv
<1>7. CASE leader # "B"
  <2>1. NotifyB
    BY <1>1, OutsideNotifiesB
  <2>2. UNCHANGED store \/ \E v \in Object : Writes(v)
    BY <1>1, <1>3, WritesOfB
  <2> QED
    BY <1>1, <1>3, <1>5, <1>7, <2>1, <2>2, KeepsUpB
<1> QED
  BY <1>6, <1>7

(* Every step keeps the types.                                             *)
LEMMA NextType ==
  ASSUME TypeOK, [Next]_vars
  PROVE  TypeOK'
<1>1. CASE StepA
  <2>1. A!TypeOK'
    BY <1>1, TypeOfA DEF StepA, TypeOK
  <2>2. B!TypeOK'
    BY <1>1, <2>1, ListeningB DEF StepA, TypeOK
  <2>3. leaderElect' \in BOOLEAN /\ leader' \in {"A", "B", NoOne}
    BY <1>1, StepsOfA DEF StepA, TypeOK, A!Lead, A!Exit
  <2> QED
    BY <2>1, <2>2, <2>3 DEF TypeOK
<1>2. CASE StepB
  <2>1. B!TypeOK'
    BY <1>2, TypeOfB DEF StepB, TypeOK
  <2>2. A!TypeOK'
    BY <1>2, <2>1, ListeningA DEF StepB, TypeOK
  <2>3. leaderElect' \in BOOLEAN /\ leader' \in {"A", "B", NoOne}
    BY <1>2, StepsOfB DEF StepB, TypeOK, B!Lead, B!Exit
  <2> QED
    BY <2>1, <2>2, <2>3 DEF TypeOK
<1>3. CASE Outside
  <2>1. PA!TypeOK /\ PA!Next /\ PB!TypeOK /\ PB!Next /\ UNCHANGED <<leaderElect, leader>>
    BY <1>3, OutsideOfA, OutsideOfB, SameA, SameB DEF Outside, TypeOK
  <2>2. PA!TypeOK'
    BY <2>1, Assumptions, PA!NextType
       DEF PA!ResourcesAssumption, PA!PublicationAssumption
  <2>3. PB!TypeOK'
    BY <2>1, Assumptions, PB!NextType
       DEF PB!ResourcesAssumption, PB!PublicationAssumption
  <2> QED
    BY <2>1, <2>2, <2>3, SameA, SameB DEF TypeOK
<1>4. CASE UNCHANGED vars
  BY <1>4 DEF vars, TypeOK, A!TypeOK, B!TypeOK, A!ApiTypeOK, B!ApiTypeOK
<1> QED
  BY <1>1, <1>2, <1>3, <1>4 DEF Next

(* The flag is never changed.                                              *)
LEMMA ElectionStays ==
  ASSUME [Next]_vars
  PROVE  leaderElect' = leaderElect
BY StepsOfA, StepsOfB, OutsideOfA
   DEF Next, StepA, StepB, Outside, vars, A!Lead, A!Exit, B!Lead, B!Exit

(* Every step keeps the invariant.                                         *)
LEMMA NextInv ==
  ASSUME Inv, [Next]_vars
  PROVE  Inv'
<1>1. TypeOK'
  BY NextType DEF Inv
<1>2. leaderElect' = leaderElect
  BY ElectionStays
<1>3. ASSUME leaderElect
      PROVE  Relied' /\ A!ProcessInv' /\ B!ProcessInv'
  <2>1. CASE StepA
    BY <1>3, <2>1, InvOfA
  <2>2. CASE StepB
    BY <1>3, <2>2, InvOfB, SameRelied
  <2>3. CASE Outside
    BY <1>3, <2>3, OutsideOnA, OutsideOnB DEF Outside
  <2>4. CASE UNCHANGED vars
    <3>1. TypeOK /\ A!ProcessInv /\ B!ProcessInv /\ Relied
      BY <1>3 DEF Inv, Relied, NoneLeft
    <3>2. NotifyA /\ NotifyB
      BY <2>4, <3>1, VersionsOf DEF NotifyA, NotifyB, vars
    <3>3. A!ProcessInv' /\ B!ProcessInv'
      BY <2>4, <3>1, <3>2, QuietA, QuietB DEF vars
    <3>4. Relied'
      BY <2>4, <3>1
         DEF vars, Relied, NoneLeft, A!NamesStable, A!StoreInv, A!WellFormed,
             A!NoOrphan, A!Held, A!CreatorNames
    <3> QED
      BY <3>3, <3>4
  <2> QED
    BY <2>1, <2>2, <2>3, <2>4 DEF Next
<1> QED
  BY <1>1, <1>2, <1>3, Constant DEF Inv, Relied, NoneLeft

(* The first states of a process are those of the lone one.                *)
LEMMA InitIsInit == Init => PA!Init /\ PB!Init
BY DEF Init, A!ManagerInit, B!ManagerInit, A!Init, PA!Init, B!Init, PB!Init,
       A!ApiInit, PA!ApiInit, B!ApiInit, PB!ApiInit, A!Tombstone, PA!Tombstone,
       B!Tombstone, PB!Tombstone, A!NoRequest, PA!NoRequest, B!NoRequest,
       PB!NoRequest, A!AnyResource, PA!AnyResource, B!AnyResource, PB!AnyResource,
       A!AnyOwner, PA!AnyOwner, B!AnyOwner, PB!AnyOwner, A!AnySpec, PA!AnySpec,
       B!AnySpec, PB!AnySpec, A!NoPublication, PA!NoPublication, B!NoPublication,
       PB!NoPublication

(* The invariant holds at first.                                           *)
LEMMA InitInv == Init => Inv
<1> SUFFICES ASSUME Init PROVE Inv
  OBVIOUS
<1>1. PA!Init /\ PB!Init
  BY InitIsInit
<1>2. PA!TypeOK /\ PB!TypeOK
  BY <1>1, Assumptions, PA!InitType, PB!InitType
     DEF PA!ResourcesAssumption, PA!PublicationAssumption,
         PB!ResourcesAssumption, PB!PublicationAssumption
<1>3. TypeOK
  BY <1>2, SameA, SameB, ManagersAssumption DEF TypeOK, Init, A!ManagerInit
<1>4. PA!Inv
  BY <1>1, Assumptions, PA!InitInv DEF PA!ResourcesAssumption, PA!PublicationAssumption
<1>5. A!StoreInv
  BY <1>4, SameA DEF PA!Inv
<1>6. A!NoOrphan /\ A!CreatorNames
  BY DEF Init, A!ManagerInit, A!Init, A!NoOrphan, A!CreatorNames
<1>7. /\ leader \notin {"A", "B"} /\ pcA = "idle" /\ pcB = "idle"
      /\ watchA = {} /\ watchB = {} /\ cacheA = store /\ cacheB = store
  BY ManagersAssumption DEF Init, A!ManagerInit, B!ManagerInit, A!Init, B!Init,
     A!ApiInit, B!ApiInit
<1>8. LaggingOf(store, {}, store)
  BY <1>3, <1>5, Types, RelistLagging DEF A!StoreInv
<1>9. A!Lagging /\ B!Lagging
  BY <1>7, <1>8, LaggingIs
<1> QED
  BY <1>3, <1>5, <1>6, <1>7, <1>9 DEF Inv, A!ProcessInv, B!ProcessInv

-----------------------------------------------------------------------------
(* Every variable holds a value of its type.                               *)
THEOREM ManagersTypes == Spec => []TypeOK
<1>1. Init => TypeOK
  BY InitInv DEF Inv
<1>2. TypeOK /\ [Next]_vars => TypeOK'
  BY NextType
<1> QED
  BY <1>1, <1>2, PTL DEF Spec

(* With leader election, whoever leads can rely on all that a single       *)
(* process relies on, and the next holder of the lease will be able to.    *)
THEOREM ManagersInvariance == Spec => []Inv
<1>1. Init => Inv
  BY InitInv
<1>2. Inv /\ [Next]_vars => Inv'
  BY NextInv
<1> QED
  BY <1>1, <1>2, PTL DEF Spec

(* With leader election, and only then, no publication outlives its        *)
(* object, however often the lease changes hands.                          *)
THEOREM ManagersNoOrphan ==
  ASSUME A!NamesStable
  PROVE  Spec => []NoOrphan
<1>1. Inv => NoOrphan
  BY DEF Inv, NoOrphan
<1> QED
  BY <1>1, ManagersInvariance, PTL

-----------------------------------------------------------------------------
(* The refinement.                                                         *)

(* The abstract state is read off the same objects and publications,       *)
(* whichever process is looked at.                                         *)
LEMMA SameView ==
  /\ PA!StatusNow = A!StatusNow /\ PA!NamingNow = A!NamingNow
  /\ PA!GuardedNow = A!GuardedNow /\ PA!PublishedNow = A!PublishedNow
  /\ PA!PossibleNames = A!PossibleNames /\ PB!StatusNow = A!StatusNow
  /\ PB!NamingNow = A!NamingNow /\ PB!GuardedNow = A!GuardedNow
  /\ PB!PublishedNow = A!PublishedNow /\ PB!PossibleNames = A!PossibleNames
  /\ PA!StatusNow' = A!StatusNow' /\ PA!NamingNow' = A!NamingNow'
  /\ PA!GuardedNow' = A!GuardedNow' /\ PA!PublishedNow' = A!PublishedNow'
  /\ PB!StatusNow' = A!StatusNow' /\ PB!NamingNow' = A!NamingNow'
  /\ PB!GuardedNow' = A!GuardedNow' /\ PB!PublishedNow' = A!PublishedNow'
BY DEF A!StatusNow, PA!StatusNow, PB!StatusNow, A!NamingNow, PA!NamingNow,
       PB!NamingNow, A!GuardedNow, PA!GuardedNow, PB!GuardedNow,
       A!PublishedNow, PA!PublishedNow, PB!PublishedNow, A!PossibleNames,
       PA!PossibleNames, PB!PossibleNames, A!Status, PA!Status, PB!Status,
       A!NameGiven, PA!NameGiven, PB!NameGiven, A!Held, PA!Held, PB!Held

(* What the one takes for a step of the abstract specification is one:     *)
(* what it may yet drop is some of what the two may.                       *)
LEMMA LifeStepOfA ==
  ASSUME PA!Lifecycle!LifeStep
  PROVE  Lifecycle!LifeStep
<1>1. \A r \in Resources : PA!DoomedNow[r] \subseteq DoomedNow[r]
  BY DEF PA!DoomedNow, DoomedNow, A!DoomedNow, PA!Copies, A!Copies,
         PA!Held, A!Held
<1> QED
  BY <1>1, SameView
     DEF Lifecycle!LifeStep, PA!Lifecycle!LifeStep, Lifecycle!Submit,
         PA!Lifecycle!Submit, Lifecycle!Rename, PA!Lifecycle!Rename,
         Lifecycle!Withdraw, PA!Lifecycle!Withdraw, Lifecycle!Vanish,
         PA!Lifecycle!Vanish, Lifecycle!Guard, PA!Lifecycle!Guard,
         Lifecycle!Unguard, PA!Lifecycle!Unguard, Lifecycle!Provision,
         PA!Lifecycle!Provision, Lifecycle!Drop, PA!Lifecycle!Drop,
         Lifecycle!DropByOthers, PA!Lifecycle!DropByOthers

(* What the one takes for a step of the abstract specification is one:     *)
(* what it may yet drop is some of what the two may.                       *)
LEMMA LifeStepOfB ==
  ASSUME PB!Lifecycle!LifeStep
  PROVE  Lifecycle!LifeStep
<1>1. \A r \in Resources : PB!DoomedNow[r] \subseteq DoomedNow[r]
  BY DEF PB!DoomedNow, DoomedNow, B!DoomedNow, PB!Copies, B!Copies,
         PB!Held, B!Held
<1> QED
  BY <1>1, SameView
     DEF Lifecycle!LifeStep, PB!Lifecycle!LifeStep, Lifecycle!Submit,
         PB!Lifecycle!Submit, Lifecycle!Rename, PB!Lifecycle!Rename,
         Lifecycle!Withdraw, PB!Lifecycle!Withdraw, Lifecycle!Vanish,
         PB!Lifecycle!Vanish, Lifecycle!Guard, PB!Lifecycle!Guard,
         Lifecycle!Unguard, PB!Lifecycle!Unguard, Lifecycle!Provision,
         PB!Lifecycle!Provision, Lifecycle!Drop, PB!Lifecycle!Drop,
         Lifecycle!DropByOthers, PB!Lifecycle!DropByOthers

(* A step that neither objects nor publications show is a stutter.         *)
LEMMA UnseenLifeStep ==
  ASSUME UNCHANGED <<store, pg>>
  PROVE  Lifecycle!LifeStep
BY DEF Lifecycle!LifeStep, A!StatusNow, A!NamingNow, A!GuardedNow, A!PublishedNow,
       A!Status, A!NameGiven, A!Held

(* A copy of r that says it is deleted was there before, or is the         *)
(* server's own version.                                                   *)
CopiesStep(before, after, r) ==
  \A c \in after : c.deleting => c \in before \/ c = store'[r]

(* That is so of the copies that a process has when it hears of a step.    *)
LEMMA NotifiedCopiesA ==
  ASSUME A!StoreInv', NotifyA, NEW r \in Resources
  PROVE  CopiesStep(A!Copies(r), A!Copies(r)', r)
<1>1. \A v \in Versions : v.name = r => v = store'[r]
  BY DEF Versions, A!StoreInv
<1> QED
  BY <1>1 DEF NotifyA, CopiesStep, A!Copies

(* It is so of its own steps, too.                                         *)
LEMMA OwnCopiesA ==
  ASSUME Inv, leaderElect, A!ManagerStep, NEW r \in Resources
  PROVE  CopiesStep(A!Copies(r), A!Copies(r)', r)
<1>1. PA!Copies(r) = A!Copies(r) /\ PA!Copies(r)' = A!Copies(r)'
  BY DEF PA!Copies, A!Copies
<1>2. CASE PA!Next /\ (A!Running \/ pcA # "idle")
  <2>1. PA!TypeOK /\ PA!Inv
    BY <1>2, SameA DEF Inv, TypeOK, A!ProcessInv, A!Running
  <2>2. PA!ObjectsStep
    BY <1>2, <2>1, Assumptions, PA!StepOnObjects
       DEF PA!ResourcesAssumption, PA!PublicationAssumption
  <2> QED
    BY <1>1, <2>1, <2>2, Assumptions, PA!NewCopies
       DEF PA!ResourcesAssumption, PA!PublicationAssumption, CopiesStep
<1>3. CASE A!Lead
  BY <1>3 DEF A!Lead, CopiesStep, A!Copies
<1>4. CASE A!Exit
  <2>1. ~A!NoRequest.deleting
    BY DEF A!NoRequest, A!Tombstone
  <2> QED
    BY <1>4, <2>1 DEF A!Exit, A!Relist, CopiesStep, A!Copies
<1>5. ASSUME NEW o \in watchA, A!Deliver(o), UNCHANGED objA
      PROVE  CopiesStep(A!Copies(r), A!Copies(r)', r)
  <2>1. cacheA \in [Resources -> Object]
    BY Types DEF Inv
  <2>2. /\ watchA' \subseteq watchA /\ store' = store
        /\ cacheA'[r] = cacheA[r] \/ (cacheA'[r] = o /\ o.name = r)
    BY <1>5, <2>1 DEF A!Deliver
  <2> QED
    BY <1>5, <2>2 DEF CopiesStep, A!Copies
<1> QED
  BY <1>2, <1>3, <1>4, <1>5, StepsOfA

(* That is so of the copies that a process has when it hears of a step.    *)
LEMMA NotifiedCopiesB ==
  ASSUME B!StoreInv', NotifyB, NEW r \in Resources
  PROVE  CopiesStep(B!Copies(r), B!Copies(r)', r)
<1>1. \A v \in Versions : v.name = r => v = store'[r]
  BY DEF Versions, B!StoreInv
<1> QED
  BY <1>1 DEF NotifyB, CopiesStep, B!Copies

(* It is so of its own steps, too.                                         *)
LEMMA OwnCopiesB ==
  ASSUME Inv, leaderElect, B!ManagerStep, NEW r \in Resources
  PROVE  CopiesStep(B!Copies(r), B!Copies(r)', r)
<1>1. PB!Copies(r) = B!Copies(r) /\ PB!Copies(r)' = B!Copies(r)'
  BY DEF PB!Copies, B!Copies
<1>2. CASE PB!Next /\ (B!Running \/ pcB # "idle")
  <2>1. PB!TypeOK /\ PB!Inv
    BY <1>2, SameB DEF Inv, TypeOK, B!ProcessInv, B!Running
  <2>2. PB!ObjectsStep
    BY <1>2, <2>1, Assumptions, PB!StepOnObjects
       DEF PB!ResourcesAssumption, PB!PublicationAssumption
  <2> QED
    BY <1>1, <2>1, <2>2, Assumptions, PB!NewCopies
       DEF PB!ResourcesAssumption, PB!PublicationAssumption, CopiesStep
<1>3. CASE B!Lead
  BY <1>3 DEF B!Lead, CopiesStep, B!Copies
<1>4. CASE B!Exit
  <2>1. ~B!NoRequest.deleting
    BY DEF B!NoRequest, B!Tombstone
  <2> QED
    BY <1>4, <2>1 DEF B!Exit, B!Relist, CopiesStep, B!Copies
<1>5. ASSUME NEW o \in watchB, B!Deliver(o), UNCHANGED objB
      PROVE  CopiesStep(B!Copies(r), B!Copies(r)', r)
  <2>1. cacheB \in [Resources -> Object]
    BY Types DEF Inv
  <2>2. /\ watchB' \subseteq watchB /\ store' = store
        /\ cacheB'[r] = cacheB[r] \/ (cacheB'[r] = o /\ o.name = r)
    BY <1>5, <2>1 DEF B!Deliver
  <2> QED
    BY <1>5, <2>2 DEF CopiesStep, B!Copies
<1> QED
  BY <1>2, <1>3, <1>4, <1>5, StepsOfB

(* So nothing becomes doomed that the server does not have deleted,        *)
(* guarded and naming it.                                                  *)
LEMMA CopiesAreDoom ==
  ASSUME TypeOK', A!StoreInv',
         \A r \in Resources : /\ CopiesStep(A!Copies(r), A!Copies(r)', r)
                              /\ CopiesStep(B!Copies(r), B!Copies(r)', r)
  PROVE  Lifecycle!Doom
<1>1. \A r \in Resources :
        /\ DoomedNow[r] = {c.spec.name : c \in {d \in A!Copies(r) \cup B!Copies(r) :
                                                  d.deleting /\ A!Held(d)}}
        /\ DoomedNow'[r] = {c.spec.name : c \in {d \in A!Copies(r)' \cup B!Copies(r)' :
                                                   d.deleting /\ A!Held(d)}}
  BY DEF DoomedNow, A!DoomedNow, B!DoomedNow, A!Held, B!Held
<1>2. ASSUME NEW r \in Resources, NEW c \in A!Copies(r)' \cup B!Copies(r)'
      PROVE  c.spec.name \in PublicationNames
  <2>1. c \in PA!Object
    BY <1>2 DEF A!Copies, B!Copies, TypeOK, A!TypeOK, B!TypeOK, A!ApiTypeOK,
                B!ApiTypeOK, A!Object, B!Object, PA!Object, A!Finalizers,
                B!Finalizers, PA!Finalizers
  <2> QED
    BY <2>1, Assumptions, PA!SpecType
       DEF PA!ResourcesAssumption, PA!PublicationAssumption
<1>3. DoomedNow' \in [Resources -> SUBSET PublicationNames]
  BY <1>1, <1>2 DEF DoomedNow
<1>4. ASSUME NEW r \in Resources, NEW p \in DoomedNow'[r] \ DoomedNow[r]
      PROVE  A!StatusNow'[r] = "terminating" /\ A!GuardedNow'[r] /\ A!NamingNow'[r] = p
  <2>1. PICK c \in A!Copies(r)' \cup B!Copies(r)' :
          c.deleting /\ A!Held(c) /\ c.spec.name = p
    BY <1>1, <1>4
  <2>2. c \notin A!Copies(r) \cup B!Copies(r)
    BY <1>1, <1>4, <2>1
  <2>3. c = store'[r]
    BY <2>1, <2>2 DEF CopiesStep
  <2>4. store'[r].present
    BY <2>1, <2>3 DEF A!StoreInv, A!WellFormed, A!Held
  <2>5. /\ A!StatusNow'[r] = A!Status(store'[r])
        /\ A!NamingNow'[r] = A!NameGiven(store'[r])
        /\ A!GuardedNow'[r] = A!Held(store'[r])
    BY DEF A!StatusNow, A!NamingNow, A!GuardedNow
  <2> QED
    BY <2>1, <2>3, <2>4, <2>5 DEF A!Status, A!NameGiven
<1> QED
  BY <1>3, <1>4 DEF Lifecycle!Doom

(* What a process does by itself shows as one step, or as none.            *)
LEMMA LifeStepOfStepA ==
  ASSUME Inv, leaderElect, A!ManagerStep
  PROVE  Lifecycle!LifeStep
<1>1. CASE PA!Next /\ (A!Running \/ pcA # "idle")
  <2>1. PA!TypeOK /\ PA!Inv
    BY <1>1, SameA DEF Inv, TypeOK, A!ProcessInv, A!Running
  <2> QED
    BY <1>1, <2>1, LifeStepOfA, Assumptions, PA!StepIsLifeStep
       DEF PA!ResourcesAssumption, PA!PublicationAssumption
<1>2. CASE UNCHANGED <<store, pg>>
  BY <1>2, UnseenLifeStep
<1> QED
  BY <1>1, <1>2, StepsOfA DEF A!Lead, A!Exit, A!Relist, A!Deliver

(* What a process does by itself shows as one step, or as none.            *)
LEMMA LifeStepOfStepB ==
  ASSUME Inv, leaderElect, B!ManagerStep
  PROVE  Lifecycle!LifeStep
<1>1. CASE PB!Next /\ (B!Running \/ pcB # "idle")
  <2>1. PB!TypeOK /\ PB!Inv
    BY <1>1, SameB DEF Inv, TypeOK, B!ProcessInv, B!Running
  <2> QED
    BY <1>1, <2>1, LifeStepOfB, Assumptions, PB!StepIsLifeStep
       DEF PB!ResourcesAssumption, PB!PublicationAssumption
<1>2. CASE UNCHANGED <<store, pg>>
  BY <1>2, UnseenLifeStep
<1> QED
  BY <1>1, <1>2, StepsOfB DEF B!Lead, B!Exit, B!Relist, B!Deliver

(* With election every step is one of PublicationLifecycle, a takeover and *)
(* what leads to it included.                                              *)
LEMMA StepIsLifeNext ==
  ASSUME Inv, Inv', leaderElect, leaderElect', Next
  PROVE  Lifecycle!LifeNext
<1>1. TypeOK' /\ A!StoreInv' /\ B!StoreInv' /\ TypeOK /\ A!StoreInv /\ B!StoreInv
  BY SameRelied DEF Inv, Relied, NoneLeft
<1>2. CASE StepA
  <2>1. \A r \in Resources : /\ CopiesStep(A!Copies(r), A!Copies(r)', r)
                             /\ CopiesStep(B!Copies(r), B!Copies(r)', r)
    BY <1>1, <1>2, OwnCopiesA, NotifiedCopiesB DEF StepA
  <2> QED
    BY <1>1, <1>2, <2>1, CopiesAreDoom, LifeStepOfStepA DEF StepA, Lifecycle!LifeNext
<1>3. CASE StepB
  <2>1. \A r \in Resources : /\ CopiesStep(A!Copies(r), A!Copies(r)', r)
                             /\ CopiesStep(B!Copies(r), B!Copies(r)', r)
    BY <1>1, <1>3, OwnCopiesB, NotifiedCopiesA DEF StepB
  <2> QED
    BY <1>1, <1>3, <2>1, CopiesAreDoom, LifeStepOfStepB DEF StepB, Lifecycle!LifeNext
<1>4. CASE Outside
  <2>1. NotifyA /\ NotifyB
    BY <1>1, <1>4, OutsideNotifiesA, OutsideNotifiesB DEF Outside, TypeOK
  <2>2. \A r \in Resources : /\ CopiesStep(A!Copies(r), A!Copies(r)', r)
                             /\ CopiesStep(B!Copies(r), B!Copies(r)', r)
    BY <1>1, <2>1, NotifiedCopiesA, NotifiedCopiesB
  <2>3. PA!Lifecycle!LifeStep
    BY <1>1, <1>4, SameA, OutsideOfA, Assumptions, PA!OthersAreLifeSteps
       DEF PA!ResourcesAssumption, PA!PublicationAssumption, Outside, TypeOK
  <2> QED
    BY <1>1, <2>2, <2>3, CopiesAreDoom, LifeStepOfA DEF Lifecycle!LifeNext
<1> QED
  BY <1>2, <1>3, <1>4 DEF Next

(* Both processes start without any object.                                *)
LEMMA InitIsLifeInit == Init => Lifecycle!LifeInit
<1> SUFFICES ASSUME Init PROVE Lifecycle!LifeInit
  OBVIOUS
<1>1. PA!Lifecycle!LifeInit /\ PB!Lifecycle!LifeInit
  BY InitIsInit, Assumptions, PA!InitIsLifeInit, PB!InitIsLifeInit
     DEF PA!ResourcesAssumption, PA!PublicationAssumption,
         PB!ResourcesAssumption, PB!PublicationAssumption
<1>2. DoomedNow = [r \in Resources |-> {}]
  <2>1. ASSUME NEW r \in Resources
        PROVE  A!DoomedNow[r] = {} /\ B!DoomedNow[r] = {}
    <3>1. PA!DoomedNow[r] = {} /\ PB!DoomedNow[r] = {}
      BY <1>1 DEF PA!Lifecycle!LifeInit, PB!Lifecycle!LifeInit
    <3> QED
      BY <3>1 DEF A!DoomedNow, PA!DoomedNow, B!DoomedNow, PB!DoomedNow, A!Copies,
                  PA!Copies, B!Copies, PB!Copies, A!Held, PA!Held, B!Held, PB!Held
  <2> QED
    BY <2>1 DEF DoomedNow
<1> QED
  BY <1>1, <1>2, SameView DEF Lifecycle!LifeInit, PA!Lifecycle!LifeInit

(* With leader election two managers go through PublicationLifecycle as    *)
(* one does: whatever the informer of the next leader still shows, it      *)
(* drops only what was deleted, and releases only what is gone.            *)
THEOREM ManagersLifecycle == Spec => ImplementsLifecycle
<1>1. Init => Lifecycle!LifeInit
  BY InitIsLifeInit
<1>2. Inv /\ Inv' /\ [Next]_vars
        => [leaderElect => Lifecycle!LifeNext]_(Lifecycle!lifeVars)
  <2> SUFFICES ASSUME Inv, Inv', [Next]_vars, leaderElect,
                      Lifecycle!lifeVars' # Lifecycle!lifeVars
               PROVE  Lifecycle!LifeNext
    OBVIOUS
  <2>1. CASE Next
    BY <2>1, ElectionStays, StepIsLifeNext
  <2>2. CASE UNCHANGED vars
    BY <2>2 DEF vars, Lifecycle!lifeVars, A!StatusNow, A!NamingNow, A!GuardedNow,
                A!PublishedNow, A!Status, A!NameGiven, A!Held, DoomedNow, A!DoomedNow,
                B!DoomedNow, A!Copies, B!Copies, B!Held
  <2> QED
    BY <2>1, <2>2
<1> QED
  BY <1>1, <1>2, ManagersInvariance, PTL DEF Spec, ImplementsLifecycle

=============================================================================

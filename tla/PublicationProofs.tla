-------------------------- MODULE PublicationProofs --------------------------
(***************************************************************************)
(* Theorems about PublicationController, for any objects, specs and bounds *)
(* that satisfy ResourcesAssumption and PublicationAssumption.             *)
(***************************************************************************)
EXTENDS PublicationInvariant, ApiServerProofs

(* The specs that objects may be given are publication specs.              *)
LEMMA SpecType ==
  ASSUME NEW o \in Object
  PROVE  /\ o.spec \in PublicationSpec
         /\ o.spec.name \in PublicationNames
         /\ o.name \in Resources
         /\ o.rv \in Nat
         /\ o.finalizers \in SUBSET Finalizers
<1>1. o.spec \in UNION {SpecsOf[r] : r \in Resources}
  BY DEF Object
<1>2. o.spec \in PublicationSpec
  BY <1>1, PublicationAssumption
<1> QED
  BY <1>2 DEF Object, PublicationSpec

(* What a spec makes of a publication is a publication.                    *)
LEMMA ManagerType ==
  ASSUME NEW s \in PublicationSpec, NEW p \in Publication
  PROVE  /\ WithTables(p, s) \in Publication
         /\ WithTables(p, s).exists = p.exists
         /\ WithOperations(p, s) \in Publication
         /\ WithOperations(p, s).exists = p.exists
BY DEF WithTables, WithOperations, PublishedOperations, Publication, PublicationSpec

(* A publication that loses a table is still there.                        *)
LEMMA WithoutTableType ==
  ASSUME NEW p \in Publication, NEW t
  PROVE  /\ WithoutTable(p, t) \in Publication
         /\ WithoutTable(p, t).exists = p.exists
BY DEF WithoutTable, Publication

(* So is what CREATE makes, and the absence of one.                        *)
LEMMA CreatedType ==
  /\ \A s \in PublicationSpec :
       CreatedPublication(s) \in Publication /\ CreatedPublication(s).exists
  /\ NoPublication \in Publication /\ ~NoPublication.exists
BY DEF CreatedPublication, StdCreated, AivenCreated, PublishedOperations,
       NoPublication, Publication, PublicationSpec

(* The worker's changes to an object keep its type.                        *)
LEMMA FinalizerType ==
  ASSUME NEW o \in Object
  PROVE  /\ WithFinalizer(o) \in Object
         /\ WithoutFinalizer(o) \in Object
BY DEF WithFinalizer, WithoutFinalizer, Object, Finalizers

(* The idle worker's copy is an object.                                    *)
LEMMA NoRequestType == NoRequest \in Object
BY TombstoneType, AnyType DEF NoRequest

(* The ends of a call keep the types.                                      *)
LEMMA RequeueType ==
  ASSUME TypeOK, Requeue
  PROVE  /\ queue' \subseteq Resources
         /\ pc' = "idle"
         /\ obj' \in Object
BY NoRequestType, SpecType DEF Requeue, TypeOK

(* So does a reply, whatever the step next it leads to.                    *)
LEMMA ReplyType ==
  ASSUME TypeOK, NEW o \in Object, NEW next, Reply(o, next)
  PROVE  /\ queue' \subseteq Resources
         /\ pc' \in {next, "idle"}
         /\ obj' \in Object
         /\ faults' \in 0 .. MaxFaults
<1>1. CASE Requeue /\ faults < MaxFaults /\ faults' = faults + 1
  BY <1>1, RequeueType, PublicationAssumption DEF TypeOK
<1>2. CASE UNCHANGED <<queue, faults>> /\ obj' = o /\ pc' = next
  BY <1>2 DEF TypeOK
<1> QED
  BY <1>1, <1>2 DEF Reply

-----------------------------------------------------------------------------
(* The initial states.                                                     *)
LEMMA InitType == Init => TypeOK
<1> SUFFICES ASSUME Init PROVE TypeOK
  OBVIOUS
<1>1. \A r \in Resources : Tombstone(r, 0) \in Object
  BY TombstoneType
<1>2. ApiTypeOK
  BY <1>1 DEF Init, ApiInit, ApiTypeOK
<1>3. pg \in [PublicationNames -> Publication]
  <2>1. {NoPublication} \cup PreExisting \subseteq Publication
    BY CreatedType, PublicationAssumption
  <2> QED
    BY <2>1 DEF Init
<1> QED
  BY <1>2, <1>3, NoRequestType, PublicationAssumption DEF Init, TypeOK

(* Taking a request from the queue.                                        *)
LEMMA BeginType ==
  ASSUME TypeOK, NEW r \in Resources, Begin(r)
  PROVE  TypeOK'
BY DEF Begin, TypeOK, ApiTypeOK

(* Connecting and choosing a branch.                                       *)
LEMMA ConnectType ==
  ASSUME TypeOK, Connect
  PROVE  TypeOK'
<1>1. CASE Requeue
  BY <1>1, RequeueType DEF Connect, TypeOK, ApiTypeOK
<1>2. CASE Done
  BY <1>2, NoRequestType DEF Connect, Done, TypeOK, ApiTypeOK
<1>3. CASE /\ AfterConnect(obj) # "stop"
           /\ pc' = AfterConnect(obj)
           /\ UNCHANGED <<obj, queue>>
  <2>1. pc' \in Calls
    BY <1>3 DEF AfterConnect, Calls
  <2> QED
    BY <2>1, <1>3 DEF Connect, TypeOK, ApiTypeOK
<1> QED
  BY <1>1, <1>2, <1>3 DEF Connect

(* The update that adds the finalizer.                                     *)
LEMMA AddFinalizerType ==
  ASSUME TypeOK, AddFinalizer
  PROVE  TypeOK'
<1>1. CASE Rejected /\ UNCHANGED <<store, watch, cache>>
  BY <1>1, RequeueType DEF AddFinalizer, Rejected, TypeOK, ApiTypeOK
<1>2. CASE Put(WithFinalizer(obj)) /\ Reply(Written(WithFinalizer(obj)), "create")
  <2>1. WithFinalizer(obj) \in Object
    BY FinalizerType DEF TypeOK
  <2>2. ApiTypeOK' /\ Written(WithFinalizer(obj)) \in Object
    BY <2>1, <1>2, PutType, WrittenType DEF TypeOK
  <2>3. /\ queue' \subseteq Resources
        /\ pc' \in {"create", "idle"}
        /\ obj' \in Object
        /\ faults' \in 0 .. MaxFaults
    BY <2>2, <1>2, ReplyType
  <2> QED
    BY <2>2, <2>3 DEF AddFinalizer, TypeOK, Calls
<1> QED
  BY <1>1, <1>2 DEF AddFinalizer

(* CREATE PUBLICATION.                                                     *)
LEMMA CreateType ==
  ASSUME TypeOK, Create
  PROVE  TypeOK'
<1>1. /\ queue' \subseteq Resources
      /\ pc' \in {"setTables", "succeeded", "idle"}
      /\ obj' \in Object
      /\ faults' \in 0 .. MaxFaults
  <2>1. CASE Reply(obj, "setTables") \/ Reply(obj, "succeeded")
    BY <2>1, ReplyType DEF TypeOK
  <2>2. CASE Rejected
    BY <2>2, RequeueType DEF Rejected, TypeOK
  <2> QED
    BY <2>1, <2>2 DEF Create
<1>2. pg' \in [PublicationNames -> Publication]
  <2>1. /\ obj.spec.name \in PublicationNames
        /\ CreatedPublication(obj.spec) \in Publication
    BY SpecType, CreatedType DEF TypeOK
  <2> QED
    BY <2>1 DEF Create, TypeOK
<1>3. creator' \in [PublicationNames -> Resources \cup {NoResource}]
  BY SpecType DEF Create, TypeOK
<1> QED
  BY <1>1, <1>2, <1>3 DEF Create, TypeOK, ApiTypeOK, Calls

(* ALTER PUBLICATION ... SET TABLE.                                        *)
LEMMA SetTablesType ==
  ASSUME TypeOK, SetTables
  PROVE  TypeOK'
<1>1. CASE Rejected /\ UNCHANGED pg
  BY <1>1, RequeueType DEF SetTables, Rejected, TypeOK, ApiTypeOK
<1>2. CASE /\ pg' = [pg EXCEPT ![obj.spec.name] = WithTables(@, obj.spec)]
           /\ Reply(obj, "setPublish")
  <2>1. /\ queue' \subseteq Resources
        /\ pc' \in {"setPublish", "idle"}
        /\ obj' \in Object
        /\ faults' \in 0 .. MaxFaults
    BY <1>2, ReplyType DEF TypeOK
  <2>2. pg' \in [PublicationNames -> Publication]
    BY <1>2, SpecType, ManagerType DEF TypeOK
  <2> QED
    BY <2>1, <2>2 DEF SetTables, TypeOK, ApiTypeOK, Calls
<1> QED
  BY <1>1, <1>2 DEF SetTables

(* ALTER PUBLICATION ... SET (publish).                                    *)
LEMMA SetPublishType ==
  ASSUME TypeOK, SetPublish
  PROVE  TypeOK'
<1>1. CASE Rejected /\ UNCHANGED pg
  BY <1>1, RequeueType DEF SetPublish, Rejected, TypeOK, ApiTypeOK
<1>2. CASE /\ pg' = [pg EXCEPT ![obj.spec.name] = WithOperations(@, obj.spec)]
           /\ Reply(obj, "succeeded")
  <2>1. /\ queue' \subseteq Resources
        /\ pc' \in {"succeeded", "idle"}
        /\ obj' \in Object
        /\ faults' \in 0 .. MaxFaults
    BY <1>2, ReplyType DEF TypeOK
  <2>2. pg' \in [PublicationNames -> Publication]
    BY <1>2, SpecType, ManagerType DEF TypeOK
  <2> QED
    BY <2>1, <2>2 DEF SetPublish, TypeOK, ApiTypeOK, Calls
<1> QED
  BY <1>1, <1>2 DEF SetPublish

(* The end of a reconciliation.                                            *)
LEMMA SucceedType ==
  ASSUME TypeOK, Succeed
  PROVE  TypeOK'
BY NoRequestType DEF Succeed, Done, TypeOK, ApiTypeOK

(* DROP PUBLICATION.                                                       *)
LEMMA DropType ==
  ASSUME TypeOK, Drop
  PROVE  TypeOK'
<1>1. CASE Rejected /\ UNCHANGED <<pg, creator>>
  BY <1>1, RequeueType DEF Drop, Rejected, TypeOK, ApiTypeOK
<1>2. CASE /\ pg' = [pg EXCEPT ![obj.spec.name] = NoPublication]
           /\ creator' = [creator EXCEPT ![obj.spec.name] = NoResource]
           /\ Reply(obj, "removeFinalizer")
  <2>1. /\ queue' \subseteq Resources
        /\ pc' \in {"removeFinalizer", "idle"}
        /\ obj' \in Object
        /\ faults' \in 0 .. MaxFaults
    BY <1>2, ReplyType DEF TypeOK
  <2>2. NoPublication \in Publication
    BY DEF NoPublication, Publication
  <2>3. /\ pg' \in [PublicationNames -> Publication]
        /\ creator' \in [PublicationNames -> Resources \cup {NoResource}]
    BY <1>2, <2>2 DEF TypeOK
  <2> QED
    BY <2>1, <2>3 DEF Drop, TypeOK, ApiTypeOK, Calls
<1> QED
  BY <1>1, <1>2 DEF Drop

(* The update that removes the finalizer.                                  *)
LEMMA RemoveFinalizerType ==
  ASSUME TypeOK, RemoveFinalizer
  PROVE  TypeOK'
<1>1. CASE Rejected /\ UNCHANGED <<store, watch, cache>>
  BY <1>1, RequeueType DEF RemoveFinalizer, Rejected, TypeOK, ApiTypeOK
<1>2. CASE Put(WithoutFinalizer(obj)) /\ Reply(NoRequest, "idle")
  <2>1. ApiTypeOK'
    BY <1>2, PutType, FinalizerType DEF TypeOK
  <2>2. /\ queue' \subseteq Resources
        /\ pc' = "idle"
        /\ obj' \in Object
        /\ faults' \in 0 .. MaxFaults
    BY <1>2, ReplyType, NoRequestType
  <2> QED
    BY <2>1, <2>2 DEF RemoveFinalizer, TypeOK
<1> QED
  BY <1>1, <1>2 DEF RemoveFinalizer

(* A fault that leaves the objects and the database alone.                 *)
LEMMA CallFailsType ==
  ASSUME TypeOK, CallFails
  PROVE  TypeOK'
BY RequeueType, PublicationAssumption DEF CallFails, TypeOK, ApiTypeOK

(* The death of the manager and the start of the next.                     *)
LEMMA CrashType ==
  ASSUME TypeOK, Crash
  PROVE  TypeOK'
BY NoRequestType, PublicationAssumption DEF Crash, Relist, TypeOK, ApiTypeOK

(* Losing and regaining access.                                            *)
LEMMA AccessType ==
  ASSUME TypeOK, LoseAccess \/ RegainAccess
  PROVE  TypeOK'
<1>1. access' \in BOOLEAN
  BY ZenonT(20) DEF LoseAccess, RegainAccess
<1>2. faults' \in 0 .. MaxFaults
  BY PublicationAssumption DEF LoseAccess, RegainAccess, TypeOK
<1>3. UNCHANGED <<store, watch, cache, queue, pc, obj, pg, creator, relations, edits>>
  BY DEF LoseAccess, RegainAccess
<1> QED
  BY <1>1, <1>2, <1>3 DEF TypeOK, ApiTypeOK

(* A publication dropped by hand.                                          *)
LEMMA DropByHandType ==
  ASSUME TypeOK, NEW p \in PublicationNames, DropByHand(p)
  PROVE  TypeOK'
<1>1. NoPublication \in Publication
  BY CreatedType
<1>2. /\ pg' \in [PublicationNames -> Publication]
      /\ creator' \in [PublicationNames -> Resources \cup {NoResource}]
  BY <1>1 DEF DropByHand, TypeOK
<1> QED
  BY <1>2, PublicationAssumption DEF DropByHand, TypeOK, ApiTypeOK

(* A table created or dropped.                                             *)
LEMMA TableType ==
  ASSUME TypeOK, NEW t \in Tables, TableAppears(t) \/ TableGoes(t)
  PROVE  TypeOK'
<1>1. CASE TableAppears(t)
  BY <1>1 DEF TableAppears, TypeOK, ApiTypeOK
<1>2. CASE TableGoes(t)
  <2>1. pg' \in [PublicationNames -> Publication]
    <3>1. \A p \in PublicationNames : WithoutTable(pg[p], t) \in Publication
      BY WithoutTableType DEF TypeOK
    <3> QED
      BY <1>2, <3>1 DEF TableGoes
  <2> QED
    BY <1>2, <2>1, PublicationAssumption DEF TableGoes, TypeOK, ApiTypeOK
<1> QED
  BY <1>1, <1>2

(* What users and the garbage collector write is an object.                *)
LEMMA UserObjects ==
  ASSUME TypeOK, NEW r \in Resources
  PROVE  /\ \A s \in SpecsOf[r] : [store[r] EXCEPT !.spec = s] \in Object
         /\ \A s \in SpecsOf[r], w \in Owners : NewObject(r, s, w) \in Object
         /\ \A fs \in SUBSET ForeignFinalizers :
              [store[r] EXCEPT !.deleting = TRUE, !.finalizers = @ \cup fs] \in Object
         /\ \A f \in ForeignFinalizers :
              [store[r] EXCEPT !.finalizers = @ \ {f}] \in Object
BY OthersObjects DEF TypeOK, Finalizers

(* Users and the garbage collector write through the API server.           *)
LEMMA UsersType ==
  ASSUME TypeOK, Users
  PROVE  TypeOK'
<1>1. ASSUME UserWrite, NEW o \in Object, Put(o)
      PROVE  TypeOK'
  BY <1>1, PutType, PublicationAssumption DEF UserWrite, TypeOK
<1>2. ASSUME NEW r \in Resources, NEW s \in SpecsOf[r], UserEdit(r, s)
      PROVE  TypeOK'
  BY <1>1, <1>2, UserObjects DEF UserEdit, EditObject
<1>3. ASSUME NEW r \in Resources, NEW s \in SpecsOf[r], NEW w \in Owners,
             UserCreate(r, s, w)
      PROVE  TypeOK'
  BY <1>1, <1>3, UserObjects DEF UserCreate, CreateObject
<1>4. ASSUME NEW r \in Resources, NEW fs \in SUBSET ForeignFinalizers,
             UserDelete(r, fs)
      PROVE  TypeOK'
  BY <1>1, <1>4, UserObjects DEF UserDelete, DeleteObject
<1> QED
  BY <1>2, <1>3, <1>4 DEF Users

(* A foreign finalizer is released.                                        *)
LEMMA ReleaseType ==
  ASSUME TypeOK, NEW r \in Resources, NEW f \in ForeignFinalizers, Release(r, f)
  PROVE  TypeOK'
<1>1. [store[r] EXCEPT !.finalizers = @ \ {f}] \in Object
  BY UserObjects
<1> QED
  BY <1>1, PutType DEF Release, ReleaseForeign, TypeOK

(* A version reaches the informer.                                         *)
LEMMA InformerType ==
  ASSUME TypeOK, Informer
  PROVE  TypeOK'
BY SpecType DEF Informer, Event, Deliver, TypeOK, ApiTypeOK

(* A periodic resync.                                                      *)
LEMMA ResyncType ==
  ASSUME TypeOK, NEW r \in Resources, Resync(r)
  PROVE  TypeOK'
BY DEF Resync, TypeOK, ApiTypeOK

(* Every step of the specification keeps the types.                        *)
LEMMA NextType ==
  ASSUME TypeOK, [Next]_vars
  PROVE  TypeOK'
<1>1. CASE Worker
  BY <1>1, ConnectType, AddFinalizerType, CreateType, SetTablesType,
     SetPublishType, SucceedType, DropType, RemoveFinalizerType DEF Worker
<1>2. CASE CallFails \/ Crash \/ LoseAccess \/ RegainAccess
  BY <1>2, CallFailsType, CrashType, AccessType
<1>3. CASE Users \/ Informer
  BY <1>3, UsersType, InformerType
<1>4. ASSUME NEW p \in PublicationNames, DropByHand(p)
      PROVE  TypeOK'
  BY <1>4, DropByHandType
<1>5. ASSUME NEW r \in Resources,
             \/ Begin(r) \/ Resync(r)
             \/ \E f \in ForeignFinalizers : Release(r, f)
      PROVE  TypeOK'
  BY <1>5, BeginType, ResyncType, ReleaseType
<1>6. ASSUME NEW t \in Tables, TableAppears(t) \/ TableGoes(t)
      PROVE  TypeOK'
  BY <1>6, TableType
<1>7. CASE UNCHANGED vars
  BY <1>7 DEF vars, TypeOK, ApiTypeOK
<1> QED
  BY <1>1, <1>2, <1>3, <1>4, <1>5, <1>6, <1>7 DEF Next

(* Type correctness of the reconciler and its environment.                 *)
THEOREM TypeCorrect == Spec => []TypeOK
<1>1. Init => TypeOK
  BY InitType
<1>2. TypeOK /\ [Next]_vars => TypeOK'
  BY NextType
<1> QED
  BY <1>1, <1>2, PTL DEF Spec

-----------------------------------------------------------------------------
(* The inductive invariant.                                                *)

(* What the API server keeps of a written object.                          *)
LEMMA WrittenFacts ==
  ASSUME TypeOK, NEW o \in Object, o.present, o.spec \in SpecsOf[o.name]
  PROVE  /\ Written(o) \in Object
         /\ Written(o).name = o.name
         /\ Written(o).rv = store[o.name].rv + 1
         /\ WellFormed(Written(o))
         /\ Held(Written(o)) <=> Held(o)
         /\ Held(o) => /\ Written(o).present
                       /\ Written(o).deleting = o.deleting
                       /\ Written(o).spec = o.spec
BY WrittenType, ObjectFields DEF TypeOK, WellFormed, Held

(* After a write, a faithful copy still is one, if the write keeps the     *)
(* operator's finalizer or the copy says nothing about it.                 *)
LEMMA PutFaithful ==
  ASSUME TypeOK, NEW o \in Object, Put(o),
         o.present, o.spec \in SpecsOf[o.name],
         NEW c \in Object, Faithful(c),
         \/ c.name # o.name
         \/ Held(store[o.name]) => Held(o)
         \/ ~(c.present /\ ~c.deleting /\ Held(c))
  PROVE  /\ c.name = o.name => c.rv < Written(o).rv
         /\ c.rv <= store'[c.name].rv
         /\ c.rv = store'[c.name].rv => c = store'[c.name]
         /\ c.present /\ ~c.deleting /\ Held(c) => Held(store'[c.name])
<1> DEFINE W == Written(o)
<1>1. W.rv = store[o.name].rv + 1 /\ (Held(W) <=> Held(o))
  BY WrittenFacts
<1>2. store' = [store EXCEPT ![o.name] = W]
  BY DEF Put
<1>3. /\ c.name \in Resources /\ o.name \in Resources
      /\ c.rv \in Nat /\ store[c.name].rv \in Nat
  BY SpecType DEF TypeOK, ApiTypeOK
<1> HIDE DEF W
<1>4. CASE c.name = o.name
  <2>1. store'[c.name] = W
    BY <1>2, <1>3, <1>4 DEF TypeOK, ApiTypeOK
  <2>2. c.rv < W.rv
    BY <1>1, <1>3, <1>4 DEF Faithful, Version
  <2> QED
    BY <2>1, <2>2, <1>1, <1>3, <1>4 DEF Faithful, Version, W
<1>5. CASE c.name # o.name
  <2>1. store'[c.name] = store[c.name]
    BY <1>2, <1>3, <1>5 DEF TypeOK, ApiTypeOK
  <2> QED
    BY <2>1, <1>5 DEF Faithful, Version
<1> QED
  BY <1>4, <1>5

(* A write of the API server keeps the first two parts of the invariant.   *)
LEMMA PutInv ==
  ASSUME TypeOK, StoreInv, InformerInv, NEW o \in Object, Put(o),
         o.present, o.spec \in SpecsOf[o.name],
         \/ Held(store[o.name]) => Held(o)
         \/ \A c \in watch \cup {cache[o.name]} :
              c.name = o.name => ~(c.present /\ ~c.deleting /\ Held(c))
  PROVE  StoreInv' /\ InformerInv'
<1> PICK W \in Object : W = Written(o)
  BY WrittenFacts
<1>1. /\ W.name = o.name
      /\ W.rv = store[o.name].rv + 1
      /\ WellFormed(W)
  BY WrittenFacts
<1>2. /\ store' = [store EXCEPT ![o.name] = W]
      /\ watch' = watch \cup {W}
      /\ cache' = cache
  BY DEF Put
<1>3. /\ o.name \in Resources /\ store'[o.name] = W
      /\ W.rv \in Nat
  BY <1>2, SpecType DEF TypeOK, ApiTypeOK
<1>4. StoreInv'
  <2> SUFFICES ASSUME NEW r \in Resources
               PROVE  /\ store'[r].name = r
                      /\ WellFormed(store'[r])
    BY DEF StoreInv, WellFormed
  <2>1. CASE r = o.name
    BY <2>1, <1>1, <1>3
  <2>2. CASE r # o.name
    BY <2>2, <1>2, <1>3 DEF StoreInv, TypeOK, ApiTypeOK
  <2> QED
    BY <2>1, <2>2
<1>5. ASSUME NEW c \in watch \cup {cache[q] : q \in Resources}
      PROVE  /\ Faithful(c)'
             /\ c.name = o.name => c.rv < W.rv
             /\ c \in Object
  <2>1. c \in Object /\ Faithful(c)
    BY DEF InformerInv, TypeOK, ApiTypeOK
  <2>2. \/ c.name # o.name
        \/ Held(store[o.name]) => Held(o)
        \/ ~(c.present /\ ~c.deleting /\ Held(c))
    BY DEF InformerInv
  <2> QED
    BY <2>1, <2>2, PutFaithful DEF Faithful, Version
<1>6. Faithful(W)'
  BY <1>1, <1>3 DEF Faithful, Version
<1>7. \A q \in Resources :
        cache'[q].name = q /\ Faithful(cache[q])' /\ WellFormed(cache'[q])
  BY <1>2, <1>5 DEF InformerInv, Faithful, Version
<1>8. \A c \in watch' : Faithful(c)' /\ WellFormed(c) /\ cache'[c.name].rv < c.rv
  <2>1. cache[o.name].name = o.name /\ cache[o.name].rv < W.rv
    BY <1>3, <1>5 DEF InformerInv
  <2> QED
    BY <1>1, <1>2, <1>5, <1>6, <2>1 DEF InformerInv, Faithful, Version
<1>9. \A c, d \in watch' : c.name = d.name /\ c.rv = d.rv => c = d
  <2>1. \A c \in watch : c.name = W.name => c.rv # W.rv
    BY <1>1, <1>3, <1>5, SpecType
  <2> QED
    BY <1>2, <2>1 DEF InformerInv
<1> QED
  BY <1>2, <1>4, <1>7, <1>8, <1>9 DEF InformerInv, Faithful, Version, WellFormed

(* Steps that leave the objects and their copies alone.                    *)
LEMMA QuietInv ==
  ASSUME StoreInv, InformerInv, UNCHANGED <<store, watch, cache>>
  PROVE  StoreInv' /\ InformerInv'
BY DEF StoreInv, InformerInv, Faithful, Version, WellFormed

(* An idle worker relies on nothing.                                       *)
LEMMA IdleInv ==
  ASSUME pc' = "idle"
  PROVE  WorkerInv'
BY DEF WorkerInv

(* At first there are only tombstones, and the worker is idle.             *)
LEMMA InitInv == Init => Inv
<1> SUFFICES ASSUME Init PROVE Inv
  OBVIOUS
<1>1. /\ store = [r \in Resources |-> Tombstone(r, 0)] /\ cache = store
      /\ watch = {} /\ pc = "idle"
  BY DEF Init, ApiInit
<1>2. ASSUME NEW r \in Resources
      PROVE  /\ cache[r] = store[r] /\ store[r].name = r
             /\ store[r].rv = 0
             /\ WellFormed(store[r]) /\ ~store[r].present
  <2>1. store[r] = Tombstone(r, 0) /\ cache[r] = store[r]
    BY <1>1
  <2> QED
    BY <2>1, TombstoneType DEF WellFormed
<1>3. \A r \in Resources : store[r].rv <= store[r].rv
  <2> SUFFICES ASSUME NEW r \in Resources PROVE store[r].rv <= store[r].rv
    OBVIOUS
  <2>1. store[r].rv \in Nat
    BY <1>2
  <2> QED
    BY <2>1
<1>4. StoreInv /\ InformerInv
  <2>1. StoreInv
    BY <1>2 DEF StoreInv
  <2>2. \A r \in Resources : Faithful(cache[r])
    BY <1>2, <1>3 DEF Faithful, Version
  <2> QED
    BY <1>1, <1>2, <2>1, <2>2 DEF InformerInv
<1>5. WorkerInv
  BY <1>1 DEF WorkerInv
<1> QED
  BY <1>4, <1>5 DEF Inv

(* The worker takes the informer's copy, whatever its age.                 *)
LEMMA BeginInv ==
  ASSUME TypeOK, Inv, NEW r \in Resources, Begin(r)
  PROVE  Inv'
<1>1. StoreInv' /\ InformerInv'
  BY QuietInv DEF Begin, Inv
<1>2. CASE cache[r].present
  <2>1. pc' = "connect" /\ obj' = cache[r] /\ cache' = cache /\ store' = store
    BY <1>2 DEF Begin
  <2>2. /\ Faithful(cache[r]) /\ WellFormed(cache[r]) /\ cache[r].name = r
        /\ cache[r].rv \in Nat
    BY SpecType DEF Inv, InformerInv, TypeOK, ApiTypeOK
  <2>3. WorkerInv'
    BY <1>2, <2>1, <2>2 DEF WorkerInv, Faithful, Version, WellFormed
  <2> QED
    BY <1>1, <2>3 DEF Inv
<1>3. CASE ~cache[r].present
  BY <1>1, <1>3, IdleInv DEF Begin, Inv
<1> QED
  BY <1>2, <1>3

(* The worker goes from one call to another, or back to idle.              *)
LEMMA ConnectInv ==
  ASSUME TypeOK, Inv, Connect
  PROVE  Inv'
<1>1. StoreInv' /\ InformerInv'
  BY QuietInv DEF Connect, Inv
<1>2. CASE pc' = "idle"
  BY <1>1, <1>2, IdleInv DEF Inv
<1>3. CASE /\ AfterConnect(obj) # "stop"
           /\ pc' = AfterConnect(obj)
           /\ UNCHANGED <<obj, queue>>
  <2>1. /\ pc = "connect" /\ obj' = obj /\ pg' = pg
        /\ store' = store /\ cache' = cache
    BY <1>3 DEF Connect
  <2>2. /\ obj.present /\ Faithful(obj) /\ WellFormed(obj)
        /\ obj.rv <= cache[obj.name].rv
    BY <2>1 DEF Inv, WorkerInv
  <2>3. Faithful(obj)' /\ WellFormed(obj)'
    BY <2>1, <2>2 DEF Faithful, Version, WellFormed
  <2>4. CASE ~obj.deleting /\ ~Held(obj)
    <3>1. pc' = "addFinalizer"
      BY <1>3, <2>4 DEF AfterConnect
    <3> QED
      BY <1>1, <2>1, <2>2, <2>3, <2>4, <3>1 DEF Inv, WorkerInv
  <2>5. CASE ~obj.deleting /\ Held(obj)
    <3>1. pc' = "create" /\ Held(obj)'
      BY <1>3, <2>1, <2>5 DEF AfterConnect, Held
    <3> QED
      BY <1>1, <2>1, <2>2, <2>3, <2>5, <3>1 DEF Inv, WorkerInv
  <2>6. CASE obj.deleting
    <3>1. pc' = "drop" /\ Held(obj)'
      BY <1>3, <2>1, <2>6 DEF AfterConnect, Held
    <3> QED
      BY <1>1, <2>1, <2>2, <2>3, <2>6, <3>1 DEF Inv, WorkerInv
  <2> QED
    BY <2>4, <2>5, <2>6
<1> QED
  BY <1>2, <1>3 DEF Connect, Requeue, Done

(* The update succeeds on the server's version only, and makes it guarded. *)
LEMMA AddFinalizerInv ==
  ASSUME TypeOK, Inv, AddFinalizer
  PROVE  Inv'
<1> DEFINE o == WithFinalizer(obj)
<1>1. /\ obj.present /\ ~obj.deleting /\ obj.spec \in SpecsOf[obj.name]
      /\ obj \in Object
  BY DEF AddFinalizer, Inv, WorkerInv, WellFormed, TypeOK
<1>2. /\ o \in Object /\ o.present /\ ~o.deleting /\ Held(o)
      /\ o.name = obj.name /\ o.spec = obj.spec
  BY <1>1, FinalizerType DEF WithFinalizer, Object, Held
<1> HIDE DEF o
<1>3. CASE Rejected /\ UNCHANGED <<store, watch, cache>>
  BY <1>3, QuietInv, IdleInv DEF Rejected, Requeue, Inv
<1>4. CASE Put(o) /\ Reply(Written(o), "create")
  <2>1. StoreInv' /\ InformerInv'
    BY <1>1, <1>2, <1>4, PutInv DEF Inv
  <2>2. CASE pc' = "idle"
    BY <2>1, <2>2, IdleInv DEF Inv
  <2>3. CASE pc' = "create" /\ obj' = Written(o)
    <3>1. PICK W \in Object : W = Written(o)
      BY <1>1, <1>2, WrittenFacts
    <3>2. /\ W.name = o.name /\ WellFormed(W)
          /\ W.present /\ ~W.deleting /\ Held(W)
      BY <1>1, <1>2, <3>1, WrittenFacts
    <3>3. store'[W.name] = W /\ W.rv \in Nat
      BY <1>2, <1>4, <3>1, <3>2, SpecType DEF Put, TypeOK, ApiTypeOK
    <3>4. WorkerInv'
      BY <2>3, <3>1, <3>2, <3>3 DEF WorkerInv, Faithful, Version, WellFormed, Held
    <3> QED
      BY <2>1, <3>4 DEF Inv
  <2> QED
    BY <1>4, <2>2, <2>3 DEF Reply, Requeue
<1> QED
  BY <1>3, <1>4 DEF AddFinalizer, o

(* The statements on the database leave the objects alone.                 *)
LEMMA ProvisionInv ==
  ASSUME TypeOK, Inv, Create \/ SetTables \/ SetPublish \/ Succeed
  PROVE  Inv'
<1>1. StoreInv' /\ InformerInv'
  BY QuietInv DEF Create, SetTables, SetPublish, Succeed, Inv
<1>2. CASE pc' = "idle"
  BY <1>1, <1>2, IdleInv DEF Inv
<1>3. CASE /\ pc \in {"create", "setTables", "setPublish"}
           /\ pc' \in {"setTables", "setPublish", "succeeded"}
           /\ obj' = obj
           /\ store' = store
  BY <1>1, <1>3 DEF Inv, WorkerInv, Faithful, Version, WellFormed, Held
<1>4. \/ pc' = "idle"
      \/ /\ pc \in {"create", "setTables", "setPublish"}
         /\ pc' \in {"setTables", "setPublish", "succeeded"}
         /\ obj' = obj
         /\ store' = store
  BY DEF Create, SetTables, SetPublish, Succeed, Reply, Rejected, Requeue, Done
<1> QED
  BY <1>2, <1>3, <1>4

(* After the DROP there is no publication.                                 *)
LEMMA DropInv ==
  ASSUME TypeOK, Inv, Drop
  PROVE  Inv'
<1>1. StoreInv' /\ InformerInv'
  BY QuietInv DEF Drop, Inv
<1>2. CASE pc' = "idle"
  BY <1>1, <1>2, IdleInv DEF Inv
<1>3. CASE /\ pg' = [pg EXCEPT ![obj.spec.name] = NoPublication]
           /\ pc' = "removeFinalizer"
           /\ obj' = obj
  <2>1. obj.spec.name \in PublicationNames /\ ~NoPublication.exists
    BY SpecType, CreatedType DEF TypeOK
  <2>2. ~pg'[obj'.spec.name].exists
    BY <1>3, <2>1 DEF TypeOK
  <2>3. pc = "drop" /\ store' = store /\ cache' = cache
    BY DEF Drop
  <2>4. WorkerInv'
    BY <1>3, <2>2, <2>3 DEF Inv, WorkerInv, Faithful, Version, WellFormed, Held
  <2> QED
    BY <1>1, <2>4 DEF Inv
<1> QED
  BY <1>2, <1>3 DEF Drop, Reply, Rejected, Requeue

(* The finalizer is given up on the server's version only; then the        *)
(* informer has the same version, and there is no other on its way.        *)
LEMMA RemoveFinalizerInv ==
  ASSUME TypeOK, Inv, RemoveFinalizer
  PROVE  Inv'
<1> DEFINE o == WithoutFinalizer(obj)
<1>1. /\ obj.present /\ obj.deleting /\ obj.spec \in SpecsOf[obj.name]
      /\ obj.rv <= cache[obj.name].rv
      /\ obj \in Object
  BY DEF RemoveFinalizer, Inv, WorkerInv, WellFormed, TypeOK
<1>2. /\ o \in Object /\ o.present
      /\ o.name = obj.name /\ o.spec = obj.spec
  BY <1>1, FinalizerType DEF WithoutFinalizer, Object
<1> HIDE DEF o
<1>3. CASE Rejected /\ UNCHANGED <<store, watch, cache>>
  BY <1>3, QuietInv, IdleInv DEF Rejected, Requeue, Inv
<1>4. CASE UpdateAccepted(obj) /\ Put(o) /\ Reply(NoRequest, "idle")
  <2>1. obj.name \in Resources /\ obj.rv \in Nat /\ cache[obj.name].rv \in Nat
        /\ \A c \in watch : c.rv \in Nat
    BY SpecType DEF TypeOK, ApiTypeOK
  <2>2. store[obj.name].rv = obj.rv
    BY <1>4 DEF UpdateAccepted
  <2>3. cache[obj.name].deleting
    <3>1. store[obj.name] = obj
      BY <2>1, <2>2, <1>4 DEF Inv, WorkerInv, Faithful, Version, RemoveFinalizer
    <3>2. cache[obj.name].name = obj.name /\ Faithful(cache[obj.name])
      BY <2>1 DEF Inv, InformerInv
    <3>3. cache[obj.name] = store[obj.name]
      BY <1>1, <2>1, <2>2, <3>2 DEF Faithful, Version
    <3> QED
      BY <1>1, <3>1, <3>3
  <2>4. \A c \in watch : c.name # obj.name
    <3> SUFFICES ASSUME NEW c \in watch, c.name = obj.name
                 PROVE  FALSE
      OBVIOUS
    <3>1. c.rv <= store[obj.name].rv /\ cache[obj.name].rv < c.rv
      BY DEF Inv, InformerInv, Faithful, Version
    <3> QED
      BY <1>1, <2>1, <2>2, <3>1
  <2>5. StoreInv' /\ InformerInv'
    BY <1>1, <1>2, <1>4, <2>3, <2>4, PutInv DEF Inv
  <2>6. pc' = "idle"
    BY <1>4 DEF Reply, Requeue
  <2> QED
    BY <2>5, <2>6, IdleInv DEF Inv
<1> QED
  BY <1>3, <1>4 DEF RemoveFinalizer, o

(* A write of somebody else that keeps the operator's finalizer.           *)
LEMMA OthersPutInv ==
  ASSUME TypeOK, Inv, NEW o \in Object, Put(o), o.present,
         o.spec \in SpecsOf[o.name], Held(store[o.name]) => Held(o),
         UNCHANGED <<pc, obj, pg>>
  PROVE  Inv'
<1>1. StoreInv' /\ InformerInv'
  BY PutInv DEF Inv
<1>2. CASE pc = "idle"
  BY <1>1, <1>2, IdleInv DEF Inv
<1>3. CASE pc # "idle"
  <2>1. PICK c \in Object : c = obj
    BY DEF TypeOK
  <2>2. Faithful(c)
    BY <1>3, <2>1 DEF Inv, WorkerInv
  <2>3. Faithful(obj)'
    BY <2>1, <2>2, PutFaithful DEF Inv, Faithful, Version
  <2>4. WorkerInv'
    BY <1>3, <2>3 DEF Put, Inv, WorkerInv, WellFormed, Held
  <2> QED
    BY <1>1, <2>4 DEF Inv
<1> QED
  BY <1>2, <1>3

(* What users do to the objects, whoever it is that does it: the           *)
(* reconciler of PostgresConfigs counts as one of them (module Operator).  *)
OthersWrite ==
  /\ \E r \in Resources :
       \/ \E s \in SpecsOf[r] :
            EditObject(r, s) \/ \E w \in Owners : CreateObject(r, s, w)
       \/ \E fs \in SUBSET ForeignFinalizers : DeleteObject(r, fs)
  /\ UNCHANGED <<queue, pc, obj, pg, creator>>

(* A step of others that the publication worker has no part in.            *)
Elsewhere ==
  OthersWrite \/ UNCHANGED <<store, watch, cache, queue, pc, obj, pg, creator>>

(* Users do no more to the objects than that.                              *)
LEMMA UsersWrite ==
  ASSUME Users
  PROVE  OthersWrite
BY DEF Users, UserEdit, UserCreate, UserDelete, UserWrite, OthersWrite

(* Such a write is that of an object under its name, with a spec it may    *)
(* have, and keeps the finalizer; a new object's predecessor had none.     *)
LEMMA OthersPut ==
  ASSUME TypeOK, StoreInv, OthersWrite
  PROVE  \E o \in Object :
           /\ Put(o)
           /\ o.present
           /\ o.spec \in SpecsOf[o.name]
           /\ Held(store[o.name]) => Held(o)
           /\ UNCHANGED <<queue, pc, obj, pg, creator>>
<1> DEFINE UserPut(o) ==
             /\ Put(o)
             /\ o.present
             /\ o.spec \in SpecsOf[o.name]
             /\ Held(store[o.name]) => Held(o)
             /\ UNCHANGED <<queue, pc, obj, pg, creator>>
<1>1. ASSUME NEW r \in Resources, NEW s \in SpecsOf[r], EditObject(r, s)
      PROVE  \E o \in Object : UserPut(o)
  <2> DEFINE o == [store[r] EXCEPT !.spec = s]
  <2>1. o \in Object /\ store[r] \in Object /\ store[r].name = r
    BY UserObjects DEF TypeOK, ApiTypeOK, StoreInv
  <2>2. /\ o.name = r /\ o.spec = s /\ o.present = store[r].present
        /\ o.finalizers = store[r].finalizers
    BY <2>1 DEF Object
  <2>3. Put(o) /\ store[r].present /\ UNCHANGED <<queue, pc, obj, pg, creator>>
    BY <1>1 DEF EditObject, OthersWrite
  <2> HIDE DEF o
  <2> QED
    BY <2>1, <2>2, <2>3 DEF Held
<1>2. ASSUME NEW r \in Resources, NEW s \in SpecsOf[r], NEW w \in Owners,
             CreateObject(r, s, w)
      PROVE  \E o \in Object : UserPut(o)
  <2> DEFINE o == NewObject(r, s, w)
  <2>1. o \in Object
    BY UserObjects
  <2>2. o.name = r /\ o.spec = s /\ o.present
    BY DEF NewObject
  <2>3. Put(o) /\ ~store[r].present /\ UNCHANGED <<queue, pc, obj, pg, creator>>
    BY <1>2 DEF CreateObject, OthersWrite
  <2>4. ~Held(store[r])
    BY <2>3 DEF StoreInv, WellFormed, Held
  <2> HIDE DEF o
  <2> QED
    BY <2>1, <2>2, <2>3, <2>4
<1>3. ASSUME NEW r \in Resources, NEW fs \in SUBSET ForeignFinalizers,
             DeleteObject(r, fs)
      PROVE  \E o \in Object : UserPut(o)
  <2> DEFINE o == [store[r] EXCEPT !.deleting = TRUE, !.finalizers = @ \cup fs]
  <2>1. o \in Object /\ store[r] \in Object /\ store[r].name = r
        /\ store[r].spec \in SpecsOf[r]
    BY UserObjects DEF TypeOK, ApiTypeOK, StoreInv, WellFormed
  <2>2. /\ o.name = r /\ o.spec = store[r].spec /\ o.present = store[r].present
        /\ o.finalizers = store[r].finalizers \cup fs
    BY <2>1 DEF Object
  <2>3. Put(o) /\ store[r].present /\ UNCHANGED <<queue, pc, obj, pg, creator>>
    BY <1>3 DEF DeleteObject, OthersWrite
  <2> HIDE DEF o
  <2> QED
    BY <2>1, <2>2, <2>3 DEF Held
<1> QED
  BY <1>1, <1>2, <1>3 DEF OthersWrite

(* Users do the same.                                                      *)
LEMMA UsersPut ==
  ASSUME TypeOK, StoreInv, Users
  PROVE  \E o \in Object :
           /\ Put(o)
           /\ o.present
           /\ o.spec \in SpecsOf[o.name]
           /\ Held(store[o.name]) => Held(o)
           /\ UNCHANGED <<queue, pc, obj, pg, creator>>
BY OthersPut, UsersWrite

(* So the invariant holds on.                                              *)
LEMMA ElsewhereInv ==
  ASSUME TypeOK, Inv, Elsewhere
  PROVE  Inv'
<1>1. CASE OthersWrite
  <2>1. PICK o \in Object : /\ Put(o) /\ o.present /\ o.spec \in SpecsOf[o.name]
                            /\ Held(store[o.name]) => Held(o)
                            /\ UNCHANGED <<pc, obj, pg>>
    BY <1>1, OthersPut DEF Inv
  <2> QED
    BY <2>1, OthersPutInv
<1>2. CASE UNCHANGED <<store, watch, cache, queue, pc, obj, pg, creator>>
  <2>1. StoreInv' /\ InformerInv'
    BY <1>2, QuietInv DEF Inv
  <2> QED
    BY <1>2, <2>1 DEF Inv, WorkerInv, Faithful, Version, WellFormed, Held
<1> QED
  BY <1>1, <1>2 DEF Elsewhere

(* Also after what users do.                                               *)
LEMMA UsersInv ==
  ASSUME TypeOK, Inv, Users
  PROVE  Inv'
BY UsersWrite, ElsewhereInv DEF Elsewhere

(* Releasing a foreign finalizer keeps the operator's.                     *)
LEMMA ReleaseInv ==
  ASSUME TypeOK, Inv, NEW r \in Resources, NEW f \in ForeignFinalizers, Release(r, f)
  PROVE  Inv'
<1> DEFINE o == [store[r] EXCEPT !.finalizers = @ \ {f}]
<1>1. o \in Object /\ store[r] \in Object /\ store[r].name = r
      /\ store[r].spec \in SpecsOf[r]
  BY UserObjects DEF TypeOK, ApiTypeOK, Inv, StoreInv, WellFormed
<1>2. /\ o.name = r /\ o.spec = store[r].spec /\ o.present = store[r].present
      /\ o.finalizers = store[r].finalizers \ {f}
  BY <1>1 DEF Object
<1>3. Put(o) /\ f \in store[r].finalizers /\ UNCHANGED <<pc, obj, pg>>
  BY DEF Release, ReleaseForeign
<1>4. store[r].present /\ OperatorFinalizer # f
  BY <1>3, PublicationAssumption DEF Inv, StoreInv, WellFormed
<1> HIDE DEF o
<1> QED
  BY <1>1, <1>2, <1>3, <1>4, OthersPutInv DEF Held

(* The informer's copy only ever gets newer, so the worker's, taken from   *)
(* it, stays no newer.                                                     *)
LEMMA InformerStepInv ==
  ASSUME TypeOK, Inv, Informer
  PROVE  Inv'
<1> PICK v \in watch : Event(v)
  BY DEF Informer
<1>1. /\ \A c \in watch : c.name = v.name => v.rv <= c.rv
      /\ watch' = watch \ {v}
      /\ cache' = [cache EXCEPT ![v.name] = v]
      /\ UNCHANGED <<store, pc, obj, pg>>
  BY DEF Event, Deliver
<1>2. /\ v \in Object /\ v.name \in Resources
      /\ Faithful(v) /\ WellFormed(v) /\ cache[v.name].rv < v.rv
      /\ v.rv \in Nat
      /\ \A r \in Resources : cache[r].rv \in Nat
      /\ \A c \in watch : c.rv \in Nat
  BY SpecType DEF Inv, InformerInv, TypeOK, ApiTypeOK
<1>3. /\ cache'[v.name] = v
      /\ \A r \in Resources \ {v.name} : cache'[r] = cache[r]
  BY <1>1, <1>2 DEF TypeOK, ApiTypeOK
<1>4. StoreInv'
  BY <1>1 DEF Inv, StoreInv, WellFormed
<1>5. InformerInv'
  <2>1. \A r \in Resources :
          /\ cache'[r].name = r /\ WellFormed(cache'[r])
          /\ cache'[r].rv <= store[r].rv
          /\ cache'[r].rv = store[r].rv => cache'[r] = store[r]
          /\ cache'[r].present /\ ~cache'[r].deleting /\ Held(cache'[r])
               => Held(store[r])
    BY <1>2, <1>3 DEF Inv, InformerInv, Faithful, Version
  <2>2. ASSUME NEW c \in watch'
        PROVE  cache'[c.name].rv < c.rv
    <3>1. /\ c \in watch /\ c # v /\ cache[c.name].rv < c.rv
          /\ c.name \in Resources
          /\ c.name = v.name => v.rv <= c.rv /\ c.rv # v.rv
      BY <1>1, SpecType DEF Inv, InformerInv, TypeOK, ApiTypeOK
    <3> QED
      BY <3>1, <1>2, <1>3
  <2>3. \A c \in watch' : c \in watch
    BY <1>1
  <2>4. \A c \in watch' : Faithful(c)' /\ WellFormed(c)
    BY <1>1, <2>3 DEF Inv, InformerInv, Faithful, Version
  <2>5. \A c, d \in watch' : c.name = d.name /\ c.rv = d.rv => c = d
    BY <2>3 DEF Inv, InformerInv
  <2> QED
    BY <1>1, <2>1, <2>2, <2>4, <2>5 DEF InformerInv, Faithful, Version, WellFormed, Held
<1>6. WorkerInv'
  <2>1. ASSUME obj.rv <= cache[obj.name].rv
        PROVE  obj.rv <= cache'[obj.name].rv
    <3>1. obj.name \in Resources /\ obj.rv \in Nat
      BY SpecType DEF TypeOK
    <3> QED
      BY <1>2, <1>3, <2>1, <3>1
  <2> QED
    BY <1>1, <2>1 DEF Inv, WorkerInv, Faithful, Version, WellFormed, Held
<1> QED
  BY <1>4, <1>5, <1>6 DEF Inv

(* The next manager starts from the server's objects.                      *)
LEMMA CrashInv ==
  ASSUME TypeOK, Inv, Crash
  PROVE  Inv'
<1>1. /\ cache' = store /\ watch' = {} /\ pc' = "idle"
      /\ store' = store
  BY DEF Crash, Relist
<1>2. \A r \in Resources : store[r].rv \in Nat
  BY SpecType DEF TypeOK, ApiTypeOK
<1>3. StoreInv' /\ InformerInv'
  BY <1>1, <1>2 DEF Inv, StoreInv, InformerInv, Faithful, Version, WellFormed, Held
<1> QED
  BY <1>1, <1>3, IdleInv DEF Inv

(* The other faults, tables, and resyncs: nothing the invariant is about   *)
(* changes, except that a publication may disappear.                       *)
LEMMA OtherInv ==
  ASSUME TypeOK, Inv,
         \/ CallFails \/ LoseAccess \/ RegainAccess
         \/ \E p \in PublicationNames : DropByHand(p)
         \/ \E t \in Tables : TableAppears(t) \/ TableGoes(t)
         \/ \E r \in Resources : Resync(r)
         \/ UNCHANGED vars
  PROVE  Inv'
<1>1. UNCHANGED <<store, watch, cache>>
  BY DEF CallFails, LoseAccess, RegainAccess, DropByHand, TableAppears, TableGoes,
         Resync, vars
<1>2. StoreInv' /\ InformerInv'
  BY <1>1, QuietInv DEF Inv
<1>3. CASE CallFails
  BY <1>2, <1>3, IdleInv DEF CallFails, Requeue, Inv
<1>4. CASE UNCHANGED <<pc, obj, pg>>
  BY <1>1, <1>2, <1>4 DEF Inv, WorkerInv, Faithful, Version, WellFormed, Held
<1>5. ASSUME NEW p \in PublicationNames, DropByHand(p)
      PROVE  Inv'
  <2>1. UNCHANGED <<pc, obj>> /\ pg' = [pg EXCEPT ![p] = NoPublication]
    BY <1>5 DEF DropByHand
  <2>2. obj.spec.name \in PublicationNames /\ ~NoPublication.exists
    BY SpecType, CreatedType DEF TypeOK
  <2>3. ~pg[obj.spec.name].exists => ~pg'[obj.spec.name].exists
    BY <2>1, <2>2 DEF TypeOK
  <2> QED
    BY <1>1, <1>2, <2>1, <2>3 DEF Inv, WorkerInv, Faithful, Version, WellFormed, Held
<1>6. ASSUME NEW t \in Tables, TableGoes(t)
      PROVE  Inv'
  <2>1. UNCHANGED <<pc, obj>> /\ pg' = [p \in PublicationNames |-> WithoutTable(pg[p], t)]
    BY <1>6 DEF TableGoes
  <2>2. obj.spec.name \in PublicationNames
    BY SpecType DEF TypeOK
  <2>3. pg'[obj.spec.name].exists = pg[obj.spec.name].exists
    BY <2>1, <2>2, WithoutTableType DEF TypeOK
  <2> QED
    BY <1>1, <1>2, <2>1, <2>3 DEF Inv, WorkerInv, Faithful, Version, WellFormed, Held
<1> QED
  BY <1>3, <1>4, <1>5, <1>6 DEF LoseAccess, RegainAccess, TableAppears, Resync, vars

(* Every step of the specification keeps the invariant.                    *)
LEMMA NextInv ==
  ASSUME TypeOK, Inv, [Next]_vars
  PROVE  Inv'
<1>1. CASE Worker
  BY <1>1, ConnectInv, AddFinalizerInv, ProvisionInv, DropInv, RemoveFinalizerInv
     DEF Worker
<1>2. CASE CallFails \/ LoseAccess \/ RegainAccess \/ UNCHANGED vars
  BY <1>2, OtherInv
<1>3. CASE Crash \/ Users \/ Informer
  BY <1>3, CrashInv, UsersInv, InformerStepInv
<1>4. ASSUME \/ \E p \in PublicationNames : DropByHand(p)
             \/ \E t \in Tables : TableAppears(t) \/ TableGoes(t)
      PROVE  Inv'
  BY <1>4, OtherInv
<1>5. ASSUME NEW r \in Resources,
             \/ Begin(r) \/ Resync(r)
             \/ \E f \in ForeignFinalizers : Release(r, f)
      PROVE  Inv'
  BY <1>5, BeginInv, OtherInv, ReleaseInv
<1> QED
  BY <1>1, <1>2, <1>3, <1>4, <1>5 DEF Next

(* The worker and the informer never run ahead of the API server, and the  *)
(* worker's copy supports what its next call does.                         *)
THEOREM Invariance == Spec => []Inv
<1>1. Init => TypeOK /\ Inv
  BY InitType, InitInv
<1>2. TypeOK /\ Inv /\ [Next]_vars => (TypeOK /\ Inv)'
  BY NextType, NextInv
<1> QED
  BY <1>1, <1>2, PTL DEF Spec

-----------------------------------------------------------------------------
(* What follows from it.                                                   *)

(* Both invariants at once, for the theorems below.                        *)
LEMMA TypedInvariance == Spec => [](TypeOK /\ Inv)
BY TypeCorrect, Invariance, PTL

(* Provisioning happens only under the finalizer on the API server.        *)
LEMMA InvGuarded ==
  ASSUME TypeOK, Inv
  PROVE  GuardedCreate
<1> SUFFICES ASSUME pc \in {"create", "setTables", "setPublish"}
             PROVE  store[obj.name].present /\ Held(store[obj.name])
  BY DEF GuardedCreate
<1>1. Held(store[obj.name]) /\ obj.name \in Resources
  BY SpecType DEF Inv, WorkerInv, Faithful, Version, TypeOK
<1> QED
  BY <1>1 DEF Inv, StoreInv, WellFormed, Held

(* The statements that create or alter a publication run only while the    *)
(* API server has the object, with the operator's finalizer on it.         *)
THEOREM Guarded == Spec => []GuardedCreate
BY InvGuarded, TypedInvariance, PTL

(* Only the worker's second update takes the operator's finalizer away.    *)
LEMMA KeepsFinalizer ==
  ASSUME TypeOK, Inv, [Next]_vars, NEW r \in Resources, Held(store[r])
  PROVE  Held(store'[r]) \/ (RemoveFinalizer /\ r = obj.name)
<1>1. ASSUME NEW o \in Object, Put(o), o.present, o.spec \in SpecsOf[o.name],
             r = o.name => Held(o)
      PROVE  Held(store'[r])
  <2>1. store' = [store EXCEPT ![o.name] = Written(o)]
    BY <1>1 DEF Put
  <2>2. Held(Written(o)) <=> Held(o)
    BY <1>1, WrittenFacts
  <2> QED
    BY <1>1, <2>1, <2>2 DEF TypeOK, ApiTypeOK
<1>2. CASE store' = store
  BY <1>2
<1>3. CASE AddFinalizer /\ store' # store
  <2>1. /\ obj \in Object /\ obj.present /\ obj.spec \in SpecsOf[obj.name]
        /\ Put(WithFinalizer(obj))
    BY <1>3 DEF AddFinalizer, Inv, WorkerInv, WellFormed, TypeOK
  <2>2. LET o == WithFinalizer(obj)
        IN  o \in Object /\ o.present /\ o.spec \in SpecsOf[o.name] /\ Held(o)
    BY <2>1, FinalizerType DEF WithFinalizer, Object, Held
  <2> QED
    BY <1>1, <2>1, <2>2
<1>4. CASE RemoveFinalizer /\ store' # store
  <2>1. /\ obj \in Object /\ obj.present /\ obj.spec \in SpecsOf[obj.name]
        /\ Put(WithoutFinalizer(obj))
    BY <1>4 DEF RemoveFinalizer, Inv, WorkerInv, WellFormed, TypeOK
  <2>2. LET o == WithoutFinalizer(obj)
        IN  /\ o \in Object /\ o.present /\ o.spec \in SpecsOf[o.name]
            /\ o.name = obj.name
    BY <2>1, FinalizerType DEF WithoutFinalizer, Object
  <2> QED
    BY <1>1, <1>4, <2>1, <2>2
<1>5. CASE Users
  <2>1. ASSUME NEW q \in Resources, NEW s \in SpecsOf[q], UserEdit(q, s)
        PROVE  Held(store'[r])
    <3> DEFINE o == [store[q] EXCEPT !.spec = s]
    <3>1. o \in Object /\ store[q] \in Object /\ store[q].name = q
      BY UserObjects DEF TypeOK, ApiTypeOK, Inv, StoreInv
    <3>2. /\ o.name = q /\ o.spec = s /\ o.present = store[q].present
          /\ o.finalizers = store[q].finalizers
      BY <3>1 DEF Object
    <3>3. Put(o) /\ store[q].present
      BY <2>1 DEF UserEdit, EditObject
    <3> HIDE DEF o
    <3> QED
      BY <1>1, <3>1, <3>2, <3>3 DEF Held
  <2>2. ASSUME NEW q \in Resources, NEW s \in SpecsOf[q], NEW w \in Owners,
               UserCreate(q, s, w)
        PROVE  Held(store'[r])
    <3>1. /\ NewObject(q, s, w) \in Object
          /\ NewObject(q, s, w).name = q
          /\ NewObject(q, s, w).spec = s
          /\ NewObject(q, s, w).present
      BY UserObjects DEF NewObject
    <3>2. Put(NewObject(q, s, w)) /\ ~store[q].present
      BY <2>2 DEF UserCreate, CreateObject
    <3>3. q # r
      BY <3>2 DEF Inv, StoreInv, WellFormed, Held
    <3> QED
      BY <1>1, <3>1, <3>2, <3>3
  <2>3. ASSUME NEW q \in Resources, NEW fs \in SUBSET ForeignFinalizers,
               UserDelete(q, fs)
        PROVE  Held(store'[r])
    <3> DEFINE o == [store[q] EXCEPT !.deleting = TRUE, !.finalizers = @ \cup fs]
    <3>1. o \in Object /\ store[q] \in Object /\ store[q].name = q
          /\ store[q].spec \in SpecsOf[q]
      BY UserObjects DEF TypeOK, ApiTypeOK, Inv, StoreInv, WellFormed
    <3>2. /\ o.name = q /\ o.spec = store[q].spec /\ o.present = store[q].present
          /\ o.finalizers = store[q].finalizers \cup fs
      BY <3>1 DEF Object
    <3>3. Put(o) /\ store[q].present
      BY <2>3 DEF UserDelete, DeleteObject
    <3> HIDE DEF o
    <3> QED
      BY <1>1, <3>1, <3>2, <3>3 DEF Held
  <2> QED
    BY <1>5, <2>1, <2>2, <2>3 DEF Users
<1>6. ASSUME NEW q \in Resources, NEW f \in ForeignFinalizers, Release(q, f)
      PROVE  Held(store'[r])
  <2> DEFINE o == [store[q] EXCEPT !.finalizers = @ \ {f}]
  <2>1. o \in Object /\ store[q] \in Object /\ store[q].name = q
        /\ store[q].spec \in SpecsOf[q]
    BY UserObjects DEF TypeOK, ApiTypeOK, Inv, StoreInv, WellFormed
  <2>2. /\ o.name = q /\ o.spec = store[q].spec /\ o.present = store[q].present
        /\ o.finalizers = store[q].finalizers \ {f}
    BY <2>1 DEF Object
  <2>3. Put(o) /\ f \in store[q].finalizers
    BY <1>6 DEF Release, ReleaseForeign
  <2>4. store[q].present /\ OperatorFinalizer # f
    BY <2>3, PublicationAssumption DEF Inv, StoreInv, WellFormed
  <2> HIDE DEF o
  <2> QED
    BY <1>1, <2>1, <2>2, <2>3, <2>4 DEF Held
<1>7. \/ store' = store \/ AddFinalizer \/ RemoveFinalizer \/ Users
      \/ \E q \in Resources : \E f \in ForeignFinalizers : Release(q, f)
  BY DEF Next, Worker, Connect, Create, SetTables, SetPublish, Succeed, Drop,
         CallFails, Crash, Relist, LoseAccess, RegainAccess, DropByHand,
         TableAppears, TableGoes, Informer, Event, Deliver, Begin, Resync, vars
<1> QED
  BY <1>2, <1>3, <1>4, <1>5, <1>6, <1>7

(* A step leaves no publication without its guarded creator.               *)
LEMMA NextNoOrphan ==
  ASSUME NamesStable, TypeOK, Inv, Inv', NoOrphan, CreatorNames, [Next]_vars
  PROVE  NoOrphan' /\ CreatorNames'
<1>1. \/ UNCHANGED <<pg, creator>>
      \/ /\ UNCHANGED creator
         /\ \A p \in PublicationNames : pg'[p].exists = pg[p].exists
      \/ \E p \in PublicationNames :
           /\ pg' = [pg EXCEPT ![p] = NoPublication]
           /\ creator' = [creator EXCEPT ![p] = NoResource]
      \/ Create /\ creator' = [creator EXCEPT ![obj.spec.name] = obj.name]
                /\ pg' = [pg EXCEPT ![obj.spec.name] = CreatedPublication(obj.spec)]
  <2>1. CASE SetTables \/ SetPublish
    <3>1. obj.spec.name \in PublicationNames /\ obj.spec \in PublicationSpec
          /\ pg[obj.spec.name] \in Publication
      BY SpecType DEF TypeOK
    <3>2. \/ UNCHANGED pg
          \/ pg' = [pg EXCEPT ![obj.spec.name] = WithTables(@, obj.spec)]
          \/ pg' = [pg EXCEPT ![obj.spec.name] = WithOperations(@, obj.spec)]
      BY <2>1 DEF SetTables, SetPublish
    <3>3. \A p \in PublicationNames : pg'[p].exists = pg[p].exists
      BY <3>1, <3>2, ManagerType DEF TypeOK
    <3> QED
      BY <2>1, <3>3 DEF SetTables, SetPublish
  <2>2. CASE Drop
    BY <2>2, SpecType DEF Drop, TypeOK
  <2>3. CASE Create
    BY <2>3 DEF Create
  <2>4. ASSUME NEW p \in PublicationNames, DropByHand(p)
        PROVE  \E q \in PublicationNames :
                 /\ pg' = [pg EXCEPT ![q] = NoPublication]
                 /\ creator' = [creator EXCEPT ![q] = NoResource]
    BY <2>4 DEF DropByHand
  <2>5. ASSUME NEW t \in Tables, TableGoes(t)
        PROVE  /\ UNCHANGED creator
               /\ \A p \in PublicationNames : pg'[p].exists = pg[p].exists
    BY <2>5, WithoutTableType DEF TableGoes, TypeOK
  <2> QED
    BY <2>1, <2>2, <2>3, <2>4, <2>5
       DEF Next, Worker, Connect, AddFinalizer, Succeed, RemoveFinalizer,
           CallFails, Crash, LoseAccess, RegainAccess, TableAppears, Users, UserEdit, UserCreate,
           UserDelete, UserWrite, Release, Informer, Event, Begin, Resync, vars
<1>2. ASSUME NEW p \in PublicationNames, pg'[p].exists, creator'[p] # NoResource
      PROVE  /\ creator'[p] \in Resources
             /\ Held(store[creator'[p]])
             /\ \A s \in SpecsOf[creator'[p]] : s.name = p
  <2>1. CASE creator'[p] = creator[p] /\ pg[p].exists
    BY <1>2, <2>1 DEF NoOrphan, CreatorNames, TypeOK
  <2>2. CASE /\ pc = "create"
             /\ p = obj.spec.name
             /\ creator'[p] = obj.name
    <3>1. obj.name \in Resources /\ Held(store[obj.name]) /\ obj.spec \in SpecsOf[obj.name]
      BY <2>2, InvGuarded, SpecType DEF GuardedCreate, Inv, WorkerInv, WellFormed, TypeOK
    <3> QED
      BY <2>2, <3>1 DEF NamesStable
  <2>3. obj.spec.name \in PublicationNames /\ ~NoPublication.exists
    BY SpecType, CreatedType DEF TypeOK
  <2> QED
    BY <1>1, <1>2, <2>1, <2>2, <2>3 DEF Create, TypeOK
<1>3. ASSUME NEW p \in PublicationNames, creator'[p] # NoResource
      PROVE  \A s \in SpecsOf[creator'[p]] : s.name = p
  <2>1. CASE creator'[p] = creator[p]
    BY <1>3, <2>1 DEF CreatorNames
  <2>2. CASE pg'[p].exists
    BY <1>2, <1>3, <2>2
  <2>3. obj.spec \in PublicationSpec
    BY SpecType DEF TypeOK
  <2> QED
    BY <1>1, <1>3, <2>1, <2>2, <2>3, CreatedType DEF TypeOK
<1>4. ASSUME NEW p \in PublicationNames, pg'[p].exists, creator'[p] # NoResource
      PROVE  Held(store'[creator'[p]])
  <2>1. CASE RemoveFinalizer /\ creator'[p] = obj.name
    <3>1. obj.spec \in SpecsOf[obj.name] /\ ~pg[obj.spec.name].exists /\ pg' = pg
      BY <2>1 DEF RemoveFinalizer, Inv, WorkerInv, WellFormed
    <3>2. obj.spec.name = p
      BY <1>2, <1>4, <2>1, <3>1
    <3> QED
      BY <1>4, <3>1, <3>2
  <2> QED
    BY <1>2, <1>4, <2>1, KeepsFinalizer
<1>5. \A r \in Resources : Held(store'[r]) => store'[r].present
  BY DEF Inv, StoreInv, WellFormed, Held
<1>6. NoOrphan'
  BY <1>2, <1>4, <1>5 DEF NoOrphan, Held
<1> QED
  BY <1>3, <1>6 DEF CreatorNames

(* Others keep the server's objects well-formed, and guarded, whatever the *)
(* worker is doing.                                                        *)
LEMMA WriteKeepsObjects ==
  ASSUME TypeOK, StoreInv, OthersWrite
  PROVE  /\ StoreInv'
         /\ \A r \in Resources : store[r].present /\ Held(store[r]) =>
              store'[r].present /\ Held(store'[r])
<1>1. PICK o \in Object : /\ Put(o) /\ o.present /\ o.spec \in SpecsOf[o.name]
                          /\ Held(store[o.name]) => Held(o)
                          /\ UNCHANGED <<pg, creator>>
  BY OthersPut
<1>2. PICK v : v = Written(o)
  OBVIOUS
<1>3. /\ v.name = o.name /\ WellFormed(v)
      /\ Held(v) <=> Held(o)
      /\ Held(o) => v.present
  BY <1>1, <1>2, WrittenFacts
<1>4. /\ o.name \in Resources /\ store'[o.name] = v
      /\ \A r \in Resources \ {o.name} : store'[r] = store[r]
  BY <1>1, <1>2, PutType, ObjectFields DEF TypeOK
<1>5. StoreInv'
  BY <1>3, <1>4 DEF StoreInv, WellFormed
<1>6. ASSUME NEW r \in Resources, store[r].present, Held(store[r])
      PROVE  store'[r].present /\ Held(store'[r])
  BY <1>1, <1>3, <1>4, <1>6
<1> QED
  BY <1>5, <1>6

(* Neither do users and administrators do any harm to them.                *)
LEMMA OthersKeepObjects ==
  ASSUME TypeOK, StoreInv,
         \/ Users \/ LoseAccess \/ RegainAccess
         \/ \E p \in PublicationNames : DropByHand(p)
  PROVE  StoreInv'
<1>1. CASE Users
  BY <1>1, UsersWrite, WriteKeepsObjects
<1>2. CASE UNCHANGED store
  BY <1>2 DEF StoreInv, WellFormed
<1> QED
  BY <1>1, <1>2 DEF LoseAccess, RegainAccess, DropByHand

(* So others leave no publication behind.                                  *)
LEMMA WriteNoOrphan ==
  ASSUME TypeOK, StoreInv, NoOrphan, CreatorNames, OthersWrite
  PROVE  NoOrphan' /\ CreatorNames'
<1>1. UNCHANGED <<pg, creator>>
  BY DEF OthersWrite
<1>2. \A r \in Resources : store[r].present /\ Held(store[r]) =>
        store'[r].present /\ Held(store'[r])
  BY WriteKeepsObjects
<1> QED
  BY <1>1, <1>2 DEF NoOrphan, CreatorNames, TypeOK, Held

(* Nor does a step that the worker has no part in.                         *)
LEMMA ElsewhereNoOrphan ==
  ASSUME TypeOK, StoreInv, NoOrphan, CreatorNames, Elsewhere
  PROVE  NoOrphan' /\ CreatorNames'
<1>1. CASE UNCHANGED <<store, watch, cache, queue, pc, obj, pg, creator>>
  BY <1>1 DEF NoOrphan, CreatorNames, Held
<1> QED
  BY <1>1, WriteNoOrphan DEF Elsewhere

(* Nor do users and administrators.                                        *)
LEMMA OthersNoOrphan ==
  ASSUME TypeOK, StoreInv, NoOrphan, CreatorNames,
         \/ Users \/ LoseAccess \/ RegainAccess
         \/ \E p \in PublicationNames : DropByHand(p)
  PROVE  NoOrphan' /\ CreatorNames'
<1>1. CASE Users
  BY <1>1, UsersWrite, WriteNoOrphan
<1>2. CASE LoseAccess \/ RegainAccess
  BY <1>2 DEF LoseAccess, RegainAccess, NoOrphan, CreatorNames, Held
<1>3. ASSUME NEW p \in PublicationNames, DropByHand(p)
      PROVE  NoOrphan' /\ CreatorNames'
  <2>1. /\ UNCHANGED store
        /\ pg' = [pg EXCEPT ![p] = NoPublication]
        /\ creator' = [creator EXCEPT ![p] = NoResource]
    BY <1>3 DEF DropByHand
  <2>2. \A q \in PublicationNames : creator'[q] # NoResource =>
          creator'[q] = creator[q] /\ pg'[q] = pg[q]
    BY <2>1 DEF TypeOK
  <2> QED
    BY <2>1, <2>2 DEF NoOrphan, CreatorNames, Held
<1> QED
  BY <1>1, <1>2, <1>3

(* If the specs of an object all name the same publication, then whatever  *)
(* publication the operator created exists only while the object that      *)
(* asked for it does, guarded by the finalizer.                            *)
THEOREM NoOrphans ==
  ASSUME NamesStable
  PROVE  Spec => []NoOrphan
<1>1. Init => NoOrphan /\ CreatorNames
  BY DEF Init, NoOrphan, CreatorNames
<1>2. TypeOK /\ Inv /\ Inv' /\ NoOrphan /\ CreatorNames /\ [Next]_vars
        => NoOrphan' /\ CreatorNames'
  BY NextNoOrphan
<1> QED
  BY <1>1, <1>2, TypedInvariance, PTL DEF Spec

-----------------------------------------------------------------------------
(* The reconciler keeps the promises of PublicationLifecycle.              *)


(* A write shows in the abstract state at the written object only.         *)
LEMMA PutView ==
  ASSUME TypeOK, NEW o \in Object, Put(o)
  PROVE  /\ StatusNow' = [StatusNow EXCEPT ![o.name] = Status(Written(o))]
         /\ NamingNow' = [NamingNow EXCEPT ![o.name] = NameGiven(Written(o))]
         /\ GuardedNow' = [GuardedNow EXCEPT ![o.name] = Held(Written(o))]
<1>1. /\ o.name \in Resources /\ store'[o.name] = Written(o)
      /\ \A r \in Resources \ {o.name} : store'[r] = store[r]
  BY PutType, ObjectFields DEF TypeOK
<1> QED
  BY <1>1 DEF StatusNow, NamingNow, GuardedNow

(* Without a write there is nothing new to see of the objects.             *)
LEMMA QuietView ==
  ASSUME UNCHANGED store
  PROVE  UNCHANGED <<StatusNow, NamingNow, GuardedNow>>
BY DEF StatusNow, NamingNow, GuardedNow

(* What an existing object of the server looks like in the abstract state. *)
LEMMA ViewOf ==
  ASSUME NEW r \in Resources
  PROVE  /\ StatusNow[r] = Status(store[r])
         /\ NamingNow[r] = NameGiven(store[r])
         /\ GuardedNow[r] = Held(store[r])
         /\ PossibleNames[r] = {s.name : s \in SpecsOf[r]}
         /\ DOMAIN StatusNow = Resources
         /\ DOMAIN NamingNow = Resources
         /\ DOMAIN GuardedNow = Resources
         /\ StatusNow = [StatusNow EXCEPT ![r] = Status(store[r])]
         /\ NamingNow = [NamingNow EXCEPT ![r] = NameGiven(store[r])]
         /\ GuardedNow = [GuardedNow EXCEPT ![r] = Held(store[r])]
BY DEF StatusNow, NamingNow, GuardedNow, PossibleNames

-----------------------------------------------------------------------------
(* The objects.                                                            *)

(* Creating an object submits it.                                          *)
LEMMA CreateSubmits ==
  ASSUME TypeOK, StoreInv, NEW r \in Resources, NEW s \in SpecsOf[r], NEW w \in Owners,
         CreateObject(r, s, w), pg' = pg
  PROVE  Lifecycle!Submit(r)
<1> DEFINE o == NewObject(r, s, w)
<1>1. o \in Object /\ Put(o) /\ ~store[r].present /\ pg' = pg
  BY UserObjects DEF CreateObject
<1>2. /\ o.name = r /\ o.spec = s /\ o.present /\ ~o.deleting
      /\ o.finalizers = {}
  BY DEF NewObject
<1> HIDE DEF o
<1>3. /\ Written(o).present /\ ~Written(o).deleting /\ Written(o).spec = s
      /\ Written(o).finalizers = {}
  BY <1>1, <1>2, WrittenType DEF TypeOK
<1>4. Status(Written(o)) = "live" /\ NameGiven(Written(o)) = s.name /\ ~Held(Written(o))
  BY <1>3 DEF Status, NameGiven, Held
<1>5. /\ StatusNow' = [StatusNow EXCEPT ![r] = "live"]
      /\ NamingNow' = [NamingNow EXCEPT ![r] = s.name]
      /\ GuardedNow' = [GuardedNow EXCEPT ![r] = FALSE]
  BY <1>1, <1>2, <1>4, PutView
<1>6. StatusNow[r] = "absent"
  BY <1>1, ViewOf DEF Status
<1>7. GuardedNow' = GuardedNow
  <2>1. Held(store[r]) = FALSE
    BY <1>1 DEF StoreInv, WellFormed, Held
  <2> QED
    BY <1>5, <2>1, ViewOf
<1>8. s.name \in PossibleNames[r]
  BY ViewOf
<1> QED
  BY <1>1, <1>5, <1>6, <1>7, <1>8 DEF Lifecycle!Submit, PublishedNow

(* An object that its write leaves a tombstone of was not guarded.         *)
LEMMA Vanishes ==
  ASSUME TypeOK, NEW o \in Object, Put(o), o.deleting /\ o.finalizers = {},
         store[o.name].present, ~Held(store[o.name]), pg' = pg
  PROVE  Lifecycle!Vanish(o.name)
<1>1. o.name \in Resources
  BY ObjectFields
<1>2. /\ Status(Written(o)) = "absent" /\ NameGiven(Written(o)) = NoResource
      /\ ~Held(Written(o))
  BY WrittenType DEF TypeOK, Status, NameGiven, Held
<1>3. /\ StatusNow' = [StatusNow EXCEPT ![o.name] = "absent"]
      /\ NamingNow' = [NamingNow EXCEPT ![o.name] = NoResource]
      /\ GuardedNow' = [GuardedNow EXCEPT ![o.name] = FALSE]
  BY <1>2, PutView
<1>4. /\ StatusNow[o.name] # "absent" /\ GuardedNow[o.name] = FALSE
      /\ GuardedNow = [GuardedNow EXCEPT ![o.name] = FALSE]
  <2>1. Status(store[o.name]) # "absent" /\ Held(store[o.name]) = FALSE
    BY DEF Status, Held
  <2> QED
    BY <2>1, <1>1, ViewOf
<1> QED
  BY <1>3, <1>4 DEF Lifecycle!Vanish, PublishedNow

(* A write that leaves the object there shows its fields.                  *)
LEMMA Stays ==
  ASSUME TypeOK, NEW o \in Object, Put(o), ~(o.deleting /\ o.finalizers = {})
  PROVE  /\ StatusNow' = [StatusNow EXCEPT ![o.name] = Status(o)]
         /\ NamingNow' = [NamingNow EXCEPT ![o.name] = NameGiven(o)]
         /\ GuardedNow' = [GuardedNow EXCEPT ![o.name] = Held(o)]
<1>1. /\ Status(Written(o)) = Status(o) /\ NameGiven(Written(o)) = NameGiven(o)
      /\ Held(Written(o)) = Held(o)
  BY WrittenType DEF TypeOK, Status, NameGiven, Held
<1> QED
  BY <1>1, PutView

(* An edit renames the object, if it does not finish its deletion.         *)
LEMMA EditRenames ==
  ASSUME TypeOK, StoreInv, NEW r \in Resources, NEW s \in SpecsOf[r],
         EditObject(r, s), pg' = pg
  PROVE  Lifecycle!Rename(r) \/ Lifecycle!Vanish(r)
<1> DEFINE o == [store[r] EXCEPT !.spec = s]
<1>1. /\ o \in Object /\ Put(o) /\ store[r].present /\ pg' = pg
      /\ store[r] \in Object /\ store[r].name = r
  BY UserObjects DEF EditObject, TypeOK, ApiTypeOK, StoreInv
<1>2. /\ o.name = r /\ o.spec = s /\ o.present
      /\ o.deleting = store[r].deleting /\ o.finalizers = store[r].finalizers
  BY <1>1 DEF Object
<1> HIDE DEF o
<1>3. CASE o.deleting /\ o.finalizers = {}
  <2>1. ~Held(store[r])
    BY <1>2, <1>3 DEF Held
  <2> QED
    BY <1>1, <1>2, <1>3, <2>1, Vanishes
<1>4. CASE ~(o.deleting /\ o.finalizers = {})
  <2>1. /\ Status(o) = Status(store[r]) /\ NameGiven(o) = s.name
        /\ Held(o) = Held(store[r]) /\ Status(store[r]) # "absent"
    BY <1>1, <1>2 DEF Status, NameGiven, Held
  <2>2. /\ StatusNow' = StatusNow /\ GuardedNow' = GuardedNow
        /\ NamingNow' = [NamingNow EXCEPT ![r] = s.name]
        /\ StatusNow[r] # "absent"
    BY <1>1, <1>2, <1>4, <2>1, Stays, ViewOf
  <2>3. s.name \in PossibleNames[r]
    BY ViewOf
  <2> QED
    BY <1>1, <2>2, <2>3 DEF Lifecycle!Rename, PublishedNow
<1> QED
  BY <1>3, <1>4

(* A deletion withdraws the object, at once if nothing keeps it.           *)
LEMMA DeleteWithdraws ==
  ASSUME TypeOK, StoreInv, NEW r \in Resources, NEW fs \in SUBSET ForeignFinalizers,
         DeleteObject(r, fs), pg' = pg
  PROVE  Lifecycle!Withdraw(r) \/ Lifecycle!Vanish(r)
<1> DEFINE o == [store[r] EXCEPT !.deleting = TRUE, !.finalizers = @ \cup fs]
<1>1. /\ o \in Object /\ Put(o) /\ store[r].present /\ ~store[r].deleting /\ pg' = pg
      /\ store[r] \in Object /\ store[r].name = r
  BY UserObjects DEF DeleteObject, TypeOK, ApiTypeOK, StoreInv
<1>2. /\ o.name = r /\ o.spec = store[r].spec /\ o.present
      /\ o.deleting /\ o.finalizers = store[r].finalizers \cup fs
  BY <1>1 DEF Object
<1> HIDE DEF o
<1>3. CASE o.finalizers = {}
  <2>1. ~Held(store[r])
    BY <1>2, <1>3 DEF Held
  <2> QED
    BY <1>1, <1>2, <1>3, <2>1, Vanishes
<1>4. CASE o.finalizers # {}
  <2>1. OperatorFinalizer \notin fs
    BY PublicationAssumption
  <2>2. /\ Status(o) = "terminating" /\ NameGiven(o) = NameGiven(store[r])
        /\ Held(o) = Held(store[r]) /\ Status(store[r]) = "live"
    BY <1>1, <1>2, <2>1 DEF Status, NameGiven, Held
  <2>3. /\ StatusNow' = [StatusNow EXCEPT ![r] = "terminating"]
        /\ GuardedNow' = GuardedNow
        /\ NamingNow' = NamingNow
        /\ StatusNow[r] = "live"
    BY <1>1, <1>2, <1>4, <2>2, Stays, ViewOf
  <2> QED
    BY <1>1, <2>3 DEF Lifecycle!Withdraw, PublishedNow
<1> QED
  BY <1>3, <1>4

(* Nothing abstract changes.                                               *)
Quiet == UNCHANGED <<StatusNow, NamingNow, GuardedNow, PublishedNow>>

(* Releasing a foreign finalizer may end the object, and else shows        *)
(* nothing.                                                                *)
LEMMA ReleaseVanishes ==
  ASSUME TypeOK, Inv, NEW r \in Resources, NEW f \in ForeignFinalizers, Release(r, f)
  PROVE  Lifecycle!Vanish(r) \/ Quiet
<1> DEFINE o == [store[r] EXCEPT !.finalizers = @ \ {f}]
<1>1. /\ o \in Object /\ Put(o) /\ store[r].deleting /\ f \in store[r].finalizers
      /\ store[r] \in Object /\ store[r].name = r /\ store[r].present /\ pg' = pg
  BY UserObjects DEF Release, ReleaseForeign, TypeOK, ApiTypeOK, Inv, StoreInv, WellFormed
<1>2. /\ o.name = r /\ o.spec = store[r].spec /\ o.present
      /\ o.deleting /\ o.finalizers = store[r].finalizers \ {f}
  BY <1>1 DEF Object
<1>3. f # OperatorFinalizer
  BY PublicationAssumption
<1> HIDE DEF o
<1>4. CASE o.finalizers = {}
  <2>1. ~Held(store[r])
    BY <1>2, <1>3, <1>4 DEF Held
  <2> QED
    BY <1>1, <1>2, <1>4, <2>1, Vanishes
<1>5. CASE o.finalizers # {}
  <2>1. /\ Status(o) = Status(store[r]) /\ NameGiven(o) = NameGiven(store[r])
        /\ Held(o) = Held(store[r])
    BY <1>1, <1>2, <1>3 DEF Status, NameGiven, Held
  <2>2. /\ StatusNow' = StatusNow /\ GuardedNow' = GuardedNow
        /\ NamingNow' = NamingNow
    BY <1>1, <1>2, <1>5, <2>1, Stays, ViewOf
  <2> QED
    BY <1>1, <2>2 DEF Quiet, PublishedNow
<1> QED
  BY <1>4, <1>5

(* An accepted update was computed from the server's version.              *)
LEMMA AcceptedIsCurrent ==
  ASSUME TypeOK, Inv, pc # "idle", UpdateAccepted(obj)
  PROVE  /\ obj = store[obj.name] /\ obj \in Object /\ obj.name \in Resources
         /\ obj.present /\ obj.spec \in SpecsOf[obj.name]
<1>1. obj.name \in Resources /\ obj \in Object
  BY ObjectFields DEF TypeOK
<1> QED
  BY <1>1 DEF UpdateAccepted, Inv, WorkerInv, Faithful, Version, WellFormed

(* The worker's first update guards the object.                            *)
LEMMA AddFinalizerGuards ==
  ASSUME TypeOK, Inv, AddFinalizer
  PROVE  Lifecycle!Guard(obj.name) \/ Quiet
<1> DEFINE o == WithFinalizer(obj)
<1>1. CASE UNCHANGED store
  BY <1>1, QuietView DEF Quiet, PublishedNow, AddFinalizer
<1>2. CASE UpdateAccepted(obj) /\ Put(o)
  <2>1. /\ obj = store[obj.name] /\ obj \in Object /\ obj.name \in Resources
        /\ obj.present /\ ~obj.deleting /\ pg' = pg
    BY <1>2, AcceptedIsCurrent DEF AddFinalizer, Inv, WorkerInv
  <2>2. /\ o \in Object /\ o.present /\ ~o.deleting /\ o.name = obj.name
        /\ o.spec = obj.spec /\ Held(o)
    BY <2>1, FinalizerType DEF WithFinalizer, Object, Held
  <2> HIDE DEF o
  <2>3. /\ Status(o) = "live" /\ NameGiven(o) = NameGiven(obj)
        /\ Status(obj) = "live" /\ Held(o) = TRUE
    BY <2>1, <2>2 DEF Status, NameGiven, Held
  <2>4. /\ StatusNow' = StatusNow /\ NamingNow' = NamingNow
        /\ GuardedNow' = [GuardedNow EXCEPT ![obj.name] = TRUE]
        /\ StatusNow[obj.name] = "live"
    BY <1>2, <2>1, <2>2, <2>3, Stays, ViewOf
  <2>5. CASE Held(obj)
    <3>1. Held(store[obj.name]) = TRUE
      BY <2>1, <2>5 DEF Held
    <3>2. GuardedNow' = GuardedNow
      BY <2>1, <2>4, <3>1, ViewOf
    <3> QED
      BY <2>1, <2>4, <3>2 DEF Quiet, PublishedNow
  <2>6. CASE ~Held(obj)
    <3>1. Held(store[obj.name]) = FALSE
      BY <2>1, <2>6 DEF Held
    <3>2. GuardedNow[obj.name] = FALSE
      BY <2>1, <3>1, ViewOf
    <3> QED
      BY <2>1, <2>4, <3>2 DEF Lifecycle!Guard, PublishedNow
  <2> QED
    BY <2>5, <2>6
<1> QED
  BY <1>1, <1>2 DEF AddFinalizer

(* The worker's second update gives the finalizer up, when the object is   *)
(* deleted and what it names is gone.                                      *)
LEMMA RemoveFinalizerUnguards ==
  ASSUME TypeOK, Inv, RemoveFinalizer
  PROVE  Lifecycle!Unguard(obj.name) \/ Quiet
<1> DEFINE o == WithoutFinalizer(obj)
<1>1. CASE UNCHANGED store
  BY <1>1, QuietView DEF Quiet, PublishedNow, RemoveFinalizer
<1>2. CASE UpdateAccepted(obj) /\ Put(o)
  <2>1. /\ obj = store[obj.name] /\ obj \in Object /\ obj.name \in Resources
        /\ obj.present /\ obj.deleting /\ Held(obj) /\ pg' = pg
        /\ ~pg[obj.spec.name].exists
    BY <1>2, AcceptedIsCurrent DEF RemoveFinalizer, Inv, WorkerInv
  <2>2. /\ o \in Object /\ o.present /\ o.deleting /\ o.name = obj.name
        /\ o.spec = obj.spec /\ ~Held(o)
    BY <2>1, FinalizerType DEF WithoutFinalizer, Object, Held
  <2> HIDE DEF o
  <2>3. /\ Status(o) = "terminating" /\ NameGiven(o) = NameGiven(obj)
        /\ Status(obj) = "terminating" /\ NameGiven(obj) = obj.spec.name
        /\ Held(obj) = TRUE /\ Held(o) = FALSE
    BY <2>1, <2>2 DEF Status, NameGiven, Held
  <2>4. /\ StatusNow[obj.name] = "terminating"
        /\ GuardedNow[obj.name] = TRUE
        /\ NamingNow[obj.name] \notin PublishedNow
        /\ PublishedNow' = PublishedNow
    BY <2>1, <2>3, ViewOf DEF PublishedNow
  <2>5. CASE o.finalizers = {}
    <3>1. /\ Status(Written(o)) = "absent" /\ NameGiven(Written(o)) = NoResource
          /\ Held(Written(o)) = FALSE
      BY <2>2, <2>5, WrittenType DEF TypeOK, Status, NameGiven, Held
    <3>2. /\ StatusNow' = [StatusNow EXCEPT ![obj.name] = "absent"]
          /\ NamingNow' = [NamingNow EXCEPT ![obj.name] = NoResource]
          /\ GuardedNow' = [GuardedNow EXCEPT ![obj.name] = FALSE]
      BY <1>2, <2>2, <3>1, PutView
    <3> QED
      BY <2>4, <3>2 DEF Lifecycle!Unguard
  <2>6. CASE o.finalizers # {}
    <3>1. /\ StatusNow' = StatusNow /\ NamingNow' = NamingNow
          /\ GuardedNow' = [GuardedNow EXCEPT ![obj.name] = FALSE]
      BY <1>2, <2>1, <2>2, <2>3, <2>6, Stays, ViewOf
    <3> QED
      BY <2>4, <3>1 DEF Lifecycle!Unguard
  <2> QED
    BY <2>5, <2>6
<1> QED
  BY <1>1, <1>2 DEF RemoveFinalizer

-----------------------------------------------------------------------------
(* The publications.                                                       *)

(* Altering a publication neither makes nor drops one.                     *)
LEMMA AlterShowsNothing ==
  ASSUME TypeOK, SetTables \/ SetPublish \/ \E t \in Tables : TableGoes(t)
  PROVE  Quiet
<1>1. obj.spec.name \in PublicationNames /\ obj.spec \in PublicationSpec
      /\ pg[obj.spec.name] \in Publication
  BY SpecType DEF TypeOK
<1>2. UNCHANGED store
  BY DEF SetTables, SetPublish, TableGoes
<1>3. ASSUME NEW t \in Tables, TableGoes(t), NEW p \in PublicationNames
      PROVE  pg'[p].exists = pg[p].exists
  BY <1>3, WithoutTableType DEF TableGoes, TypeOK
<1>4. ASSUME SetTables \/ SetPublish, NEW p \in PublicationNames
      PROVE  pg'[p].exists = pg[p].exists
  <2>1. \/ UNCHANGED pg
        \/ pg' = [pg EXCEPT ![obj.spec.name] = WithTables(@, obj.spec)]
        \/ pg' = [pg EXCEPT ![obj.spec.name] = WithOperations(@, obj.spec)]
    BY <1>4 DEF SetTables, SetPublish
  <2> QED
    BY <1>1, <2>1, ManagerType DEF TypeOK
<1>5. PublishedNow' = PublishedNow
  BY <1>3, <1>4 DEF PublishedNow
<1> QED
  BY <1>2, <1>5, QuietView DEF Quiet

(* CREATE publishes under the protection of the finalizer.                 *)
LEMMA CreateProvisions ==
  ASSUME TypeOK, Inv, Create
  PROVE  Lifecycle!Provision(obj.name, obj.spec.name) \/ Quiet
<1>1. UNCHANGED <<StatusNow, NamingNow, GuardedNow>>
  BY QuietView DEF Create
<1>2. CASE UNCHANGED pg
  BY <1>1, <1>2 DEF Quiet, PublishedNow
<1>3. CASE pg' = [pg EXCEPT ![obj.spec.name] = CreatedPublication(obj.spec)]
  <2>1. /\ obj.name \in Resources /\ obj.spec \in SpecsOf[obj.name]
        /\ obj.spec.name \in PublicationNames /\ obj.spec \in PublicationSpec
        /\ Held(store[obj.name])
    BY SpecType, InvGuarded
       DEF Create, GuardedCreate, Inv, WorkerInv, WellFormed, TypeOK
  <2>2. CreatedPublication(obj.spec).exists
    BY <2>1, CreatedType
  <2>3. PublishedNow' = PublishedNow \cup {obj.spec.name}
    BY <1>3, <2>1, <2>2 DEF PublishedNow, TypeOK
  <2>4. GuardedNow[obj.name] /\ obj.spec.name \in PossibleNames[obj.name]
    BY <2>1, ViewOf
  <2> QED
    BY <1>1, <2>3, <2>4 DEF Lifecycle!Provision
<1> QED
  BY <1>2, <1>3 DEF Create

(* DROP is for an object that some copy has deleted and guarded.           *)
LEMMA DropIsDoomed ==
  ASSUME TypeOK, Inv, Drop
  PROVE  Lifecycle!Drop(obj.name, obj.spec.name) \/ Quiet
<1>1. UNCHANGED <<StatusNow, NamingNow, GuardedNow>>
  BY QuietView DEF Drop
<1>2. CASE UNCHANGED pg
  BY <1>1, <1>2 DEF Quiet, PublishedNow
<1>3. CASE pg' = [pg EXCEPT ![obj.spec.name] = NoPublication]
  <2>1. /\ obj.name \in Resources /\ obj.spec.name \in PublicationNames
        /\ obj.deleting /\ Held(obj)
    BY SpecType DEF Drop, Inv, WorkerInv, TypeOK
  <2>2. PublishedNow' = PublishedNow \ {obj.spec.name}
    BY <1>3, <2>1, CreatedType DEF PublishedNow, TypeOK
  <2>3. obj \in Copies(obj.name)
    BY DEF Copies
  <2>4. obj.spec.name \in DoomedNow[obj.name]
    BY <2>1, <2>3 DEF DoomedNow
  <2> QED
    BY <1>1, <2>2, <2>4 DEF Lifecycle!Drop
<1> QED
  BY <1>2, <1>3 DEF Drop

(* A publication dropped by hand.                                          *)
LEMMA ByHandDrops ==
  ASSUME TypeOK, NEW p \in PublicationNames, DropByHand(p)
  PROVE  Lifecycle!DropByOthers(p)
<1>1. UNCHANGED <<StatusNow, NamingNow, GuardedNow>>
  BY QuietView DEF DropByHand
<1>2. PublishedNow' = PublishedNow \ {p}
  BY CreatedType DEF DropByHand, PublishedNow, TypeOK
<1> QED
  BY <1>1, <1>2 DEF Lifecycle!DropByOthers, DropByHand

(* What others write shows as what users do.                               *)
LEMMA WriteIsLifeStep ==
  ASSUME TypeOK, StoreInv, OthersWrite
  PROVE  Lifecycle!LifeStep
<1>1. pg' = pg
  BY DEF OthersWrite
<1>2. ASSUME NEW r \in Resources, NEW s \in SpecsOf[r], EditObject(r, s)
      PROVE  Lifecycle!LifeStep
  BY <1>1, <1>2, EditRenames DEF Lifecycle!LifeStep
<1>3. ASSUME NEW r \in Resources, NEW s \in SpecsOf[r], NEW w \in Owners,
             CreateObject(r, s, w)
      PROVE  Lifecycle!LifeStep
  BY <1>1, <1>3, CreateSubmits DEF Lifecycle!LifeStep
<1>4. ASSUME NEW r \in Resources, NEW fs \in SUBSET ForeignFinalizers,
             DeleteObject(r, fs)
      PROVE  Lifecycle!LifeStep
  BY <1>1, <1>4, DeleteWithdraws DEF Lifecycle!LifeStep
<1> QED
  BY <1>2, <1>3, <1>4 DEF OthersWrite

(* What users and administrators do shows as that, whatever the worker     *)
(* does.                                                                   *)
LEMMA OthersAreLifeSteps ==
  ASSUME TypeOK, StoreInv,
         \/ Users \/ LoseAccess \/ RegainAccess
         \/ \E p \in PublicationNames : DropByHand(p)
  PROVE  Lifecycle!LifeStep
<1>1. CASE Users
  BY <1>1, UsersWrite, WriteIsLifeStep
<1>2. CASE LoseAccess \/ RegainAccess
  BY <1>2, QuietView DEF LoseAccess, RegainAccess, PublishedNow, Lifecycle!LifeStep
<1>3. ASSUME NEW p \in PublicationNames, DropByHand(p)
      PROVE  Lifecycle!LifeStep
  BY <1>3, ByHandDrops DEF Lifecycle!LifeStep
<1> QED
  BY <1>1, <1>2, <1>3

(* Every step shows as one of the abstract specification, or as none.      *)
LEMMA StepIsLifeStep ==
  ASSUME TypeOK, Inv, [Next]_vars
  PROVE  Lifecycle!LifeStep
<1>1. CASE Quiet
  BY <1>1 DEF Quiet, Lifecycle!LifeStep
<1>2. CASE Users
  BY <1>2, UsersWrite, WriteIsLifeStep DEF Inv
<1>3. ASSUME NEW r \in Resources, NEW f \in ForeignFinalizers, Release(r, f)
      PROVE  Lifecycle!LifeStep
  BY <1>1, <1>3, ReleaseVanishes DEF Lifecycle!LifeStep
<1>4. obj.name \in Resources /\ obj.spec.name \in PublicationNames
  BY SpecType DEF TypeOK
<1>5. CASE AddFinalizer \/ RemoveFinalizer
  BY <1>1, <1>4, <1>5, AddFinalizerGuards, RemoveFinalizerUnguards
     DEF Lifecycle!LifeStep
<1>6. CASE Create \/ Drop
  BY <1>1, <1>4, <1>6, CreateProvisions, DropIsDoomed DEF Lifecycle!LifeStep
<1>7. CASE SetTables \/ SetPublish \/ \E t \in Tables : TableGoes(t)
  BY <1>1, <1>7, AlterShowsNothing
<1>8. ASSUME NEW p \in PublicationNames, DropByHand(p)
      PROVE  Lifecycle!LifeStep
  BY <1>8, ByHandDrops DEF Lifecycle!LifeStep
<1>9. CASE UNCHANGED <<store, pg>>
  BY <1>1, <1>9, QuietView DEF Quiet, PublishedNow
<1>10. \/ Users \/ AddFinalizer \/ RemoveFinalizer \/ Create \/ Drop
       \/ SetTables \/ SetPublish \/ \E t \in Tables : TableGoes(t)
       \/ \E r \in Resources : \E f \in ForeignFinalizers : Release(r, f)
       \/ \E p \in PublicationNames : DropByHand(p)
       \/ UNCHANGED <<store, pg>>
  BY DEF Next, Worker, Connect, Succeed, CallFails, Crash, Relist, LoseAccess,
         RegainAccess, TableAppears, Informer, Event, Deliver, Begin, Resync, vars
<1> QED
  BY <1>2, <1>3, <1>5, <1>6, <1>7, <1>8, <1>9, <1>10

-----------------------------------------------------------------------------
(* What the operator may yet drop.                                         *)

(* What a step does to the objects and their copies: nothing, the worker   *)
(* takes the informer's copy, the informer's version moves or is listed    *)
(* anew, or an object is written, after which the worker has what it had,  *)
(* nothing, or what it wrote.                                              *)
ObjectsStep ==
  \/ UNCHANGED <<store, watch, cache>> /\ obj' \in {obj, NoRequest}
  \/ /\ UNCHANGED <<store, watch, cache>>
     /\ \E r \in Resources : obj' = cache[r]
  \/ Relist /\ obj' = NoRequest
  \/ \E v \in watch : Deliver(v) /\ obj' = obj
  \/ \E o \in Object : Put(o) /\ obj' \in {obj, NoRequest, Written(o)}

(* The steps that the worker has no part in do nothing else to them.       *)
LEMMA ElsewhereOnObjects ==
  ASSUME TypeOK, Inv, Elsewhere
  PROVE  ObjectsStep
BY OthersPut DEF Elsewhere, ObjectsStep, Inv

(* Nor do those of the component.                                          *)
LEMMA StepOnObjects ==
  ASSUME TypeOK, [Next]_vars
  PROVE  ObjectsStep
<1> USE DEF ObjectsStep
<1>1. CASE Users
  <2>1. ASSUME NEW r \in Resources, NEW s \in SpecsOf[r], UserEdit(r, s)
        PROVE  \E o \in Object : Put(o) /\ obj' = obj
    BY <2>1, UserObjects DEF UserEdit, EditObject, UserWrite
  <2>2. ASSUME NEW r \in Resources, NEW s \in SpecsOf[r], NEW w \in Owners,
               UserCreate(r, s, w)
        PROVE  \E o \in Object : Put(o) /\ obj' = obj
    BY <2>2, UserObjects DEF UserCreate, CreateObject, UserWrite
  <2>3. ASSUME NEW r \in Resources, NEW fs \in SUBSET ForeignFinalizers,
               UserDelete(r, fs)
        PROVE  \E o \in Object : Put(o) /\ obj' = obj
    BY <2>3, UserObjects DEF UserDelete, DeleteObject, UserWrite
  <2> QED
    BY <1>1, <2>1, <2>2, <2>3 DEF Users
<1>2. ASSUME NEW r \in Resources, NEW f \in ForeignFinalizers, Release(r, f)
      PROVE  \E o \in Object : Put(o) /\ obj' = obj
  BY <1>2, UserObjects DEF Release, ReleaseForeign
<1>3. CASE AddFinalizer
  <2>1. WithFinalizer(obj) \in Object
    BY FinalizerType DEF TypeOK
  <2> QED
    BY <1>3, <2>1 DEF AddFinalizer, Reply, Rejected, Requeue
<1>4. CASE RemoveFinalizer
  <2>1. WithoutFinalizer(obj) \in Object
    BY FinalizerType DEF TypeOK
  <2> QED
    BY <1>4, <2>1 DEF RemoveFinalizer, Reply, Rejected, Requeue
<1>5. CASE Connect \/ Create \/ SetTables \/ SetPublish \/ Succeed \/ Drop \/ CallFails
  BY <1>5 DEF Connect, Create, SetTables, SetPublish, Succeed, Drop, CallFails,
              Reply, Rejected, Requeue, Done
<1>6. CASE Crash \/ LoseAccess \/ RegainAccess \/ Informer \/ UNCHANGED vars
  BY <1>6 DEF Crash, LoseAccess, RegainAccess, Informer, Event, vars
<1>7. ASSUME NEW p \in PublicationNames, DropByHand(p)
      PROVE  UNCHANGED <<store, watch, cache, obj>>
  BY <1>7 DEF DropByHand
<1>8. ASSUME NEW t \in Tables, TableAppears(t) \/ TableGoes(t)
      PROVE  UNCHANGED <<store, watch, cache, obj>>
  BY <1>8 DEF TableAppears, TableGoes
<1>9. ASSUME NEW r \in Resources, Begin(r) \/ Resync(r)
      PROVE  UNCHANGED <<store, watch, cache>> /\ obj' \in {obj, cache[r]}
  BY <1>9 DEF Begin, Resync
<1> QED
  BY <1>1, <1>2, <1>3, <1>4, <1>5, <1>6, <1>7, <1>8, <1>9
     DEF Next, Worker

(* Only the informer moves versions; the others write one object or none.  *)
LEMMA CallsOnObjects ==
  ASSUME TypeOK, StoreInv,
         \/ Worker \/ CallFails \/ LoseAccess \/ RegainAccess \/ Users
         \/ \E r \in Resources : Begin(r) \/ Resync(r)
  PROVE  UNCHANGED <<store, watch, cache>> \/ \E o \in Object : Put(o)
<1>1. WithFinalizer(obj) \in Object /\ WithoutFinalizer(obj) \in Object
  BY FinalizerType DEF TypeOK
<1>2. CASE Worker
  BY <1>1, <1>2
     DEF Worker, Connect, AddFinalizer, Create, SetTables, SetPublish, Succeed,
         Drop, RemoveFinalizer
<1>3. CASE Users
  BY <1>3, UsersPut
<1> QED
  BY <1>2, <1>3 DEF CallFails, LoseAccess, RegainAccess, Begin, Resync

(* A copy that says an object is deleted was there before, or is the       *)
(* server's own version.                                                   *)
LEMMA NewCopies ==
  ASSUME TypeOK, Inv, ObjectsStep, NEW r \in Resources, NEW c \in Copies(r)', c.deleting
  PROVE  c \in Copies(r) \/ c = store'[r]
<1>1. \/ c = store'[r] \/ c = cache'[r]
      \/ c \in watch' /\ c.name = r
      \/ c = obj' /\ c.name = r
  BY DEF Copies
<1>2. ~NoRequest.deleting
  BY AnyType, TombstoneType DEF NoRequest
<1>3. \A q \in Resources : cache[q].name = q
  BY DEF Inv, InformerInv
<1>4. /\ store[r] \in Copies(r) /\ cache[r] \in Copies(r)
      /\ \A v \in watch : v.name = r => v \in Copies(r)
      /\ obj.name = r => obj \in Copies(r)
  BY DEF Copies
<1>5. CASE UNCHANGED <<store, watch, cache>> /\ obj' \in {obj, NoRequest}
  BY <1>1, <1>2, <1>4, <1>5
<1>6. CASE UNCHANGED <<store, watch, cache>> /\ \E q \in Resources : obj' = cache[q]
  BY <1>1, <1>3, <1>4, <1>6
<1>7. CASE Relist /\ obj' = NoRequest
  BY <1>1, <1>2, <1>4, <1>7 DEF Relist
<1>8. ASSUME NEW v \in watch, Deliver(v), obj' = obj
      PROVE  c \in Copies(r) \/ c = store'[r]
  <2>1. /\ watch' \subseteq watch /\ store' = store
        /\ cache'[r] = cache[r] \/ (cache'[r] = v /\ v.name = r)
    BY <1>8 DEF Deliver, TypeOK, ApiTypeOK
  <2> QED
    BY <1>1, <1>4, <1>8, <2>1
<1>9. ASSUME NEW o \in Object, Put(o), obj' \in {obj, NoRequest, Written(o)}
      PROVE  c \in Copies(r) \/ c = store'[r]
  <2>1. /\ store'[o.name] = Written(o) /\ Written(o).name = o.name
    BY <1>9, PutType, WrittenType DEF TypeOK
  <2>2. watch' = watch \cup {Written(o)} /\ cache' = cache
    BY <1>9 DEF Put
  <2> QED
    BY <1>1, <1>2, <1>4, <1>9, <2>1, <2>2
<1> QED
  BY <1>5, <1>6, <1>7, <1>8, <1>9 DEF ObjectsStep

(* So a name becomes doomed only while the server has it deleted, guarded  *)
(* and naming it.                                                          *)
LEMMA StepIsDoom ==
  ASSUME TypeOK, Inv, TypeOK', Inv', ObjectsStep
  PROVE  Lifecycle!Doom
<1>1. DoomedNow' \in [Resources -> SUBSET PublicationNames]
  <2>1. ASSUME NEW r \in Resources, NEW c \in Copies(r)'
        PROVE  c \in Object
    BY <2>1 DEF Copies, TypeOK, ApiTypeOK
  <2>2. \A r \in Resources : \A c \in Copies(r)' : c.spec.name \in PublicationNames
    BY <2>1, SpecType
  <2> QED
    BY <2>2 DEF DoomedNow
<1>2. ASSUME NEW r \in Resources, NEW p \in DoomedNow'[r] \ DoomedNow[r]
      PROVE  StatusNow'[r] = "terminating" /\ GuardedNow'[r] /\ NamingNow'[r] = p
  <2>1. PICK c \in Copies(r)' : c.deleting /\ Held(c) /\ c.spec.name = p
    <3>1. DoomedNow'[r] =
            {o.spec.name : o \in {c \in Copies(r)' : c.deleting /\ Held(c)}}
      BY DEF DoomedNow, Held
    <3> QED
      BY <3>1
  <2>2. c \notin Copies(r)
    <3>1. DoomedNow[r] =
            {o.spec.name : o \in {d \in Copies(r) : d.deleting /\ Held(d)}}
      BY DEF DoomedNow
    <3> QED
      BY <2>1, <3>1
  <2>3. c = store'[r]
    BY <2>1, <2>2, NewCopies
  <2>4. store'[r].present
    BY <2>1, <2>3 DEF Inv, StoreInv, WellFormed, Held
  <2>5. /\ StatusNow'[r] = Status(store'[r]) /\ NamingNow'[r] = NameGiven(store'[r])
        /\ GuardedNow'[r] = Held(store'[r])
    BY DEF StatusNow, NamingNow, GuardedNow
  <2> QED
    BY <2>1, <2>3, <2>4, <2>5 DEF Status, NameGiven
<1> QED
  BY <1>1, <1>2 DEF Lifecycle!Doom

(* At first there are no objects, whatever publications there are.         *)
LEMMA InitIsLifeInit == Init => Lifecycle!LifeInit
<1> SUFFICES ASSUME Init PROVE Lifecycle!LifeInit
  OBVIOUS
<1>1. ASSUME NEW r \in Resources
      PROVE  /\ Status(store[r]) = "absent" /\ NameGiven(store[r]) = NoResource
             /\ Held(store[r]) = FALSE
  <2>1. store[r] = Tombstone(r, 0)
    BY DEF Init, ApiInit
  <2>2. ~store[r].present /\ store[r].finalizers = {}
    BY <2>1, TombstoneType
  <2> QED
    BY <2>2 DEF Status, NameGiven, Held
<1>2. ASSUME NEW r \in Resources, NEW c \in Copies(r)
      PROVE  ~c.deleting
  <2>1. /\ \A q \in Resources : store[q] = Tombstone(q, 0)
        /\ cache = store /\ watch = {} /\ obj = Tombstone(AnyResource, 0)
    BY DEF Init, ApiInit, NoRequest
  <2>2. AnyResource \in Resources
    BY AnyType
  <2> QED
    BY <2>1, <2>2, TombstoneType DEF Copies
<1>3. DoomedNow = [r \in Resources |-> {}]
  BY <1>2 DEF DoomedNow
<1>4. PublishedNow \subseteq PublicationNames
  BY DEF PublishedNow
<1> QED
  BY <1>1, <1>3, <1>4 DEF Lifecycle!LifeInit, StatusNow, NamingNow, GuardedNow

(* Both parts of a step of the abstract specification.                     *)
LEMMA StepIsLifeNext ==
  ASSUME TypeOK, Inv, TypeOK', Inv', [Next]_vars
  PROVE  Lifecycle!LifeNext
BY StepOnObjects, StepIsLifeStep, StepIsDoom DEF Lifecycle!LifeNext

(* Also of a step that the worker has no part in.                          *)
LEMMA ElsewhereIsLifeNext ==
  ASSUME TypeOK, Inv, TypeOK', Inv', Elsewhere
  PROVE  Lifecycle!LifeNext
<1>1. Lifecycle!Doom
  BY ElsewhereOnObjects, StepIsDoom
<1>2. CASE UNCHANGED <<store, watch, cache, queue, pc, obj, pg, creator>>
  <2>1. UNCHANGED store /\ UNCHANGED pg
    BY <1>2
  <2>2. UNCHANGED <<StatusNow, NamingNow, GuardedNow>> /\ PublishedNow' = PublishedNow
    BY <2>1, QuietView DEF PublishedNow
  <2>3. Lifecycle!LifeStep
    BY <2>2 DEF Lifecycle!LifeStep
  <2> QED
    BY <1>1, <2>3 DEF Lifecycle!LifeNext
<1> QED
  BY <1>1, <1>2, WriteIsLifeStep DEF Elsewhere, Inv, Lifecycle!LifeNext

(* Whatever the reconciler does on stale copies, through conflicts, lost   *)
(* replies and crashes, looks to the users like PublicationLifecycle.      *)
THEOREM Refinement == Spec => ImplementsLifecycle
<1>1. Init => Lifecycle!LifeInit
  BY InitIsLifeInit
<1>2. TypeOK /\ Inv /\ (TypeOK /\ Inv)' /\ [Next]_vars
        => [Lifecycle!LifeNext]_(Lifecycle!lifeVars)
  BY StepIsLifeNext
<1> QED
  BY <1>1, <1>2, TypedInvariance, PTL
     DEF Spec, ImplementsLifecycle, Lifecycle!LifeSpec

-----------------------------------------------------------------------------
(* The action properties.                                                  *)

(* The worker writes only what it computed from the server's version, and  *)
(* changes nothing of it but its own finalizer.                            *)
LEMMA StepKeepsOthersWrites ==
  ASSUME TypeOK, Inv, [Next]_vars, pc' # pc,
         NEW r \in Resources, store'[r].present
  PROVE  /\ store[r].present
         /\ store'[r].spec = store[r].spec
         /\ store'[r].deleting = store[r].deleting
         /\ store'[r].finalizers \ {OperatorFinalizer}
              = store[r].finalizers \ {OperatorFinalizer}
<1>1. ASSUME NEW o \in Object, Put(o), obj = store[obj.name],
             o.name = obj.name, o.present = obj.present, o.spec = obj.spec,
             o.deleting = obj.deleting,
             o.finalizers \ {OperatorFinalizer} = obj.finalizers \ {OperatorFinalizer}
      PROVE  /\ store[r].present
             /\ store'[r].spec = store[r].spec
             /\ store'[r].deleting = store[r].deleting
             /\ store'[r].finalizers \ {OperatorFinalizer}
                  = store[r].finalizers \ {OperatorFinalizer}
  <2>1. /\ store'[o.name] = Written(o)
        /\ \A q \in Resources \ {o.name} : store'[q] = store[q]
    BY <1>1, PutType DEF TypeOK
  <2>2. CASE r # o.name
    BY <2>1, <2>2
  <2>3. CASE r = o.name
    <3>1. /\ Written(o).present = o.present /\ Written(o).spec = o.spec
          /\ Written(o).deleting = o.deleting /\ Written(o).finalizers = o.finalizers
      BY <2>1, <2>3, WrittenType DEF TypeOK
    <3> QED
      BY <1>1, <2>1, <2>3, <3>1
  <2> QED
    BY <2>2, <2>3
<1>2. CASE UNCHANGED store
  BY <1>2
<1>3. CASE AddFinalizer /\ ~UNCHANGED store
  <2>1. /\ obj = store[obj.name] /\ obj \in Object
        /\ Put(WithFinalizer(obj))
    BY <1>3, AcceptedIsCurrent DEF AddFinalizer
  <2>2. LET o == WithFinalizer(obj)
        IN  /\ o \in Object
            /\ o.name = obj.name /\ o.present = obj.present /\ o.spec = obj.spec
            /\ o.deleting = obj.deleting
            /\ o.finalizers \ {OperatorFinalizer} = obj.finalizers \ {OperatorFinalizer}
    BY <2>1, FinalizerType DEF WithFinalizer, Object
  <2> QED
    BY <1>1, <2>1, <2>2
<1>4. CASE RemoveFinalizer /\ ~UNCHANGED store
  <2>1. /\ obj = store[obj.name] /\ obj \in Object
        /\ Put(WithoutFinalizer(obj))
    BY <1>4, AcceptedIsCurrent DEF RemoveFinalizer
  <2>2. LET o == WithoutFinalizer(obj)
        IN  /\ o \in Object
            /\ o.name = obj.name /\ o.present = obj.present /\ o.spec = obj.spec
            /\ o.deleting = obj.deleting
            /\ o.finalizers \ {OperatorFinalizer} = obj.finalizers \ {OperatorFinalizer}
    BY <2>1, FinalizerType DEF WithoutFinalizer, Object
  <2> QED
    BY <1>1, <2>1, <2>2
<1>5. UNCHANGED store \/ AddFinalizer \/ RemoveFinalizer
  BY DEF Next, Worker, Connect, Create, SetTables, SetPublish, Succeed, Drop,
         CallFails, Crash, Relist, LoseAccess, RegainAccess, DropByHand,
         TableAppears, TableGoes, Users, UserEdit, UserCreate, UserDelete, UserWrite,
         Release, Informer, Event, Deliver, Begin, Resync, vars
<1> QED
  BY <1>2, <1>3, <1>4, <1>5

(* The worker's updates, computed from cached copies, never undo what a    *)
(* user or another controller wrote to the object.                         *)
THEOREM KeepsOthersWrites == Spec => WorkerKeepsOthersWrites
<1>1. TypeOK /\ Inv /\ [Next]_vars =>
        [pc' # pc =>
           \A r \in Resources : store'[r].present =>
             /\ store[r].present
             /\ store'[r].spec = store[r].spec
             /\ store'[r].deleting = store[r].deleting
             /\ store'[r].finalizers \ {OperatorFinalizer}
                  = store[r].finalizers \ {OperatorFinalizer}]_vars
  BY StepKeepsOthersWrites
<1> QED
  BY <1>1, TypedInvariance, PTL DEF Spec, WorkerKeepsOthersWrites

(* What the second statement of an ALTER relies on outlives any step of    *)
(* the others.                                                             *)
LEMMA NextAlter ==
  ASSUME TypeOK, AlterInv, [Next]_vars
  PROVE  AlterInv'
<1>1. obj.spec.name \in PublicationNames /\ obj.spec \in PublicationSpec
      /\ pg[obj.spec.name] \in Publication /\ {} \in SUBSET Volatile
  BY SpecType DEF TypeOK
<1>2. CASE pc' # "setPublish"
  BY <1>2 DEF AlterInv
<1>3. CASE UNCHANGED <<pc, obj, pg>>
  BY <1>3 DEF AlterInv
<1>4. CASE SetTables /\ pc' = "setPublish"
  <2>1. /\ SetTableAccepted(pg[obj.spec.name], obj.spec) /\ obj' = obj
        /\ pg' = [pg EXCEPT ![obj.spec.name] = WithTables(@, obj.spec)]
    BY <1>4 DEF SetTables, Reply, Rejected, Requeue
  <2>2. pg'[obj.spec.name] = WithTables(pg[obj.spec.name], obj.spec)
    BY <1>1, <2>1 DEF TypeOK
  <2>3. /\ ~pg'[obj.spec.name].allTables /\ obj.spec.tables # {}
        /\ pg'[obj.spec.name].tables = obj.spec.tables
    BY <1>1, <2>1, <2>2 DEF SetTableAccepted, WithTables, Publication
  <2>4. pg'[obj.spec.name].tables \cup {} = obj.spec.tables
    BY <2>3
  <2> QED
    BY <1>1, <2>1, <2>3, <2>4 DEF AlterInv
<1>5. ASSUME NEW p \in PublicationNames, DropByHand(p)
      PROVE  AlterInv'
  <2>1. UNCHANGED <<pc, obj>> /\ pg' = [pg EXCEPT ![p] = NoPublication]
    BY <1>5 DEF DropByHand
  <2>2. pg'[obj.spec.name] = pg[obj.spec.name] \/ ~pg'[obj.spec.name].exists
    BY <1>1, <2>1, CreatedType DEF TypeOK
  <2> QED
    BY <2>1, <2>2 DEF AlterInv
<1>6. ASSUME NEW t \in Tables, TableGoes(t), pc = "setPublish",
             pg'[obj.spec.name].exists
      PROVE  AlterInv'
  <2>1. /\ UNCHANGED <<pc, obj>> /\ t \in Volatile
        /\ pg'[obj.spec.name] = WithoutTable(pg[obj.spec.name], t)
    BY <1>1, <1>6 DEF TableGoes
  <2>2. /\ pg'[obj.spec.name].tables = pg[obj.spec.name].tables \ {t}
        /\ pg'[obj.spec.name].allTables = pg[obj.spec.name].allTables
        /\ pg[obj.spec.name].exists
    BY <1>1, <1>6, <2>1 DEF WithoutTable, Publication
  <2>3. PICK lost \in SUBSET Volatile :
          pg[obj.spec.name].tables \cup lost = obj.spec.tables
    BY <1>6, <2>2 DEF AlterInv
  <2>4. /\ ~pg'[obj.spec.name].allTables /\ obj.spec.tables # {}
    BY <1>6, <2>2 DEF AlterInv
  <2>5. CASE t \in pg[obj.spec.name].tables
    <3>1. /\ lost \cup {t} \in SUBSET Volatile
          /\ pg'[obj.spec.name].tables \cup (lost \cup {t}) = obj.spec.tables
      BY <2>1, <2>2, <2>3, <2>5
    <3> QED
      BY <2>1, <2>4, <3>1 DEF AlterInv
  <2>6. CASE t \notin pg[obj.spec.name].tables
    <3>1. pg'[obj.spec.name].tables \cup lost = obj.spec.tables
      BY <2>2, <2>3, <2>6
    <3> QED
      BY <2>1, <2>4, <3>1 DEF AlterInv
  <2> QED
    BY <2>5, <2>6
<1>7. ASSUME NEW t \in Tables, TableGoes(t),
             ~(pc = "setPublish" /\ pg'[obj.spec.name].exists)
      PROVE  AlterInv'
  BY <1>7 DEF TableGoes, AlterInv
<1>8. \/ pc' # "setPublish"
      \/ UNCHANGED <<pc, obj, pg>>
      \/ SetTables
      \/ \E p \in PublicationNames : DropByHand(p)
      \/ \E t \in Tables : TableGoes(t)
  <2>1. CASE Connect
    BY <2>1 DEF Connect, AfterConnect, Requeue, Done
  <2>2. CASE AddFinalizer \/ Create \/ SetPublish \/ Succeed \/ Drop
             \/ RemoveFinalizer \/ CallFails \/ Crash
    BY <2>2 DEF AddFinalizer, Create, SetPublish, Succeed, Drop, RemoveFinalizer,
                CallFails, Crash, Reply, Rejected, Requeue, Done
  <2>3. CASE LoseAccess \/ RegainAccess \/ UNCHANGED vars
             \/ \E t \in Tables : TableAppears(t)
    BY <2>3 DEF LoseAccess, RegainAccess, TableAppears, vars
  <2>4. CASE Users \/ Informer
             \/ \E r \in Resources : \E f \in ForeignFinalizers : Release(r, f)
    BY <2>4 DEF Users, UserEdit, UserCreate, UserDelete, UserWrite, Release,
                Informer, Event
  <2>5. ASSUME NEW r \in Resources, Begin(r) \/ Resync(r)
        PROVE  pc' # "setPublish" \/ UNCHANGED <<pc, obj, pg>>
    BY <2>5 DEF Begin, Resync
  <2> QED
    BY <2>1, <2>2, <2>3, <2>4, <2>5 DEF Next, Worker
<1> QED
  BY <1>2, <1>3, <1>4, <1>5, <1>6, <1>7, <1>8

(* A step to success leaves the publication as the spec says.              *)
LEMMA StepToSuccess ==
  ASSUME TypeOK, AlterInv, [Next]_vars, pc' = "succeeded", pc # "succeeded"
  PROVE  \/ \E lost \in SUBSET Volatile :
              Applied([pg'[obj.spec.name] EXCEPT !.tables = @ \cup lost], obj.spec)
         \/ obj.spec.tables = {} /\ obj.spec.variant = "aiven"
<1>1. obj.spec.name \in PublicationNames /\ obj.spec \in PublicationSpec
      /\ pg[obj.spec.name] \in Publication /\ {} \in SUBSET Volatile
  BY SpecType DEF TypeOK
<1>2. CASE Create
  <2>1. pg' = [pg EXCEPT ![obj.spec.name] = CreatedPublication(obj.spec)]
    BY <1>2 DEF Create, Reply, Rejected, Requeue
  <2> DEFINE pub == pg'[obj.spec.name]
  <2>2. pub = CreatedPublication(obj.spec)
    BY <1>1, <2>1 DEF TypeOK
  <2>3. CASE ~(obj.spec.tables = {} /\ obj.spec.variant = "aiven")
    <3>1. /\ pub \in Publication /\ pub.exists /\ pub.tables = obj.spec.tables
          /\ pub.operations = PublishedOperations(obj.spec)
      BY <1>1, <2>2, CreatedType DEF CreatedPublication, StdCreated, AivenCreated
    <3>2. pub.allTables = (obj.spec.tables = {})
      <4>1. CASE obj.spec.variant = "aiven"
        <5>1. pub.allTables = FALSE
          BY <2>2, <4>1 DEF CreatedPublication, AivenCreated
        <5>2. (obj.spec.tables = {}) = FALSE
          BY <2>3, <4>1
        <5> QED
          BY <5>1, <5>2, Zenon
      <4>2. CASE obj.spec.variant # "aiven"
        BY <2>2, <4>2 DEF CreatedPublication, StdCreated
      <4> QED
        BY <4>1, <4>2
    <3> HIDE DEF pub
    <3>3. /\ [pub EXCEPT !.tables = @ \cup {}].exists
          /\ [pub EXCEPT !.tables = @ \cup {}].tables = obj.spec.tables
          /\ [pub EXCEPT !.tables = @ \cup {}].operations = PublishedOperations(obj.spec)
          /\ [pub EXCEPT !.tables = @ \cup {}].allTables = pub.allTables
      BY <3>1 DEF Publication
    <3>4. Applied([pub EXCEPT !.tables = @ \cup {}], obj.spec)
      BY <3>2, <3>3 DEF Applied, PublishedOperations
    <3> QED
      BY <1>1, <3>4 DEF pub
  <2> QED
    BY <2>3
<1>3. CASE SetPublish
  <2>1. /\ pg' = [pg EXCEPT ![obj.spec.name] = WithOperations(@, obj.spec)]
        /\ pg[obj.spec.name].exists /\ pc = "setPublish"
    BY <1>3 DEF SetPublish, SetPublishAccepted, Reply, Rejected, Requeue
  <2>2. PICK lost \in SUBSET Volatile :
          pg[obj.spec.name].tables \cup lost = obj.spec.tables
    BY <2>1 DEF AlterInv
  <2>3. ~pg[obj.spec.name].allTables /\ obj.spec.tables # {}
    BY <2>1 DEF AlterInv
  <2>4. pg'[obj.spec.name] = WithOperations(pg[obj.spec.name], obj.spec)
    BY <1>1, <2>1 DEF TypeOK
  <2>5. Applied([pg'[obj.spec.name] EXCEPT !.tables = @ \cup lost], obj.spec)
    BY <1>1, <2>1, <2>2, <2>3, <2>4
       DEF WithOperations, PublishedOperations, Applied, Publication, PublicationSpec
  <2> QED
    BY <2>5
<1>4. Create \/ SetPublish
  <2>1. CASE Connect
    BY <2>1 DEF Connect, AfterConnect, Requeue, Done
  <2>2. CASE AddFinalizer \/ SetTables \/ Succeed \/ Drop
             \/ RemoveFinalizer \/ CallFails \/ Crash
    BY <2>2 DEF AddFinalizer, SetTables, Succeed, Drop, RemoveFinalizer,
                CallFails, Crash, Reply, Rejected, Requeue, Done
  <2>3. CASE \/ LoseAccess \/ RegainAccess \/ UNCHANGED vars
             \/ \E t \in Tables : TableAppears(t) \/ TableGoes(t)
             \/ \E p \in PublicationNames : DropByHand(p)
    BY <2>3 DEF LoseAccess, RegainAccess, TableAppears, TableGoes, DropByHand, vars
  <2>4. CASE Users \/ Informer
             \/ \E r \in Resources : \E f \in ForeignFinalizers : Release(r, f)
    BY <2>4 DEF Users, UserEdit, UserCreate, UserDelete, UserWrite, Release,
                Informer, Event
  <2>5. ASSUME NEW r \in Resources, Begin(r) \/ Resync(r)
        PROVE  FALSE
    BY <2>5 DEF Begin, Resync
  <2> QED
    BY <2>1, <2>2, <2>3, <2>4, <2>5 DEF Next, Worker
<1> QED
  BY <1>2, <1>3, <1>4

(* A reconciliation that reports success has brought the publication to    *)
(* what its copy of the spec asks for.                                     *)
THEOREM SuccessApplies == Spec => SuccessMeansApplied
<1>1. Init => AlterInv
  BY DEF Init, AlterInv
<1>2. TypeOK /\ AlterInv /\ [Next]_vars => AlterInv'
  BY NextAlter
<1>3. TypeOK /\ AlterInv /\ [Next]_vars =>
        [pc' = "succeeded" /\ pc # "succeeded" =>
           \/ \E lost \in SUBSET Volatile :
                Applied([pg'[obj.spec.name] EXCEPT !.tables = @ \cup lost], obj.spec)
           \/ obj.spec.tables = {} /\ obj.spec.variant = "aiven"]_vars
  BY StepToSuccess
<1> QED
  BY <1>1, <1>2, <1>3, TypeCorrect, PTL DEF Spec, SuccessMeansApplied

=============================================================================

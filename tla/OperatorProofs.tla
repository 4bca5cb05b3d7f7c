--------------------------- MODULE OperatorProofs ---------------------------
(***************************************************************************)
(* Proofs about Operator, for all constants that satisfy                   *)
(* ResourcesAssumption and OperatorAssumption.  A step of either           *)
(* reconciler is a step of its component, whose lemmas PP and CP bring in, *)
(* and for the other component one of users, or none: what each relies on  *)
(* survives what the other writes.                                         *)
(***************************************************************************)
EXTENDS Operator, TLAPS

PP == INSTANCE PublicationProofs

CP == INSTANCE ConfigProofs WITH queue <- configQueue, pc <- configPc

(* What the two components assume is assumed here.                         *)
LEMMA Assumptions ==
  /\ PP!ResourcesAssumption /\ PP!PublicationAssumption
  /\ CP!ResourcesAssumption /\ CP!ConfigAssumption
<1>1. PP!ResourcesAssumption /\ CP!ResourcesAssumption
  BY ResourcesAssumption DEF PP!ResourcesAssumption, CP!ResourcesAssumption
<1>2. PP!PublicationAssumption
  BY OperatorAssumption
     DEF PP!PublicationAssumption, PP!Publication, PP!PublicationSpec, P!Publication,
         P!PublicationSpec
<1>3. CP!ConfigAssumption
  BY OperatorAssumption
     DEF CP!ConfigAssumption, CP!Reference, CP!NoOwner, C!Reference, C!NoOwner
<1> QED
  BY <1>1, <1>2, <1>3

-----------------------------------------------------------------------------
(* The two instances of each component say the same.                       *)

(* So do their objects and writes, and those of Operator itself.           *)
LEMMA SameObjects ==
  /\ PP!Object = Object /\ CP!Object = Object
  /\ \A o : (PP!Put(o) <=> Put(o)) /\ (CP!Put(o) <=> Put(o))
  /\ \A r, s, w : (PP!CreateObject(r, s, w) <=> CreateObject(r, s, w))
                  /\ (CP!CreateObject(r, s, w) <=> CreateObject(r, s, w))
  /\ \A r, s : (PP!EditObject(r, s) <=> EditObject(r, s))
               /\ (CP!EditObject(r, s) <=> EditObject(r, s))
  /\ \A r, fs : (PP!DeleteObject(r, fs) <=> DeleteObject(r, fs))
                /\ (CP!DeleteObject(r, fs) <=> DeleteObject(r, fs))
<1>1. PP!Object = Object /\ CP!Object = Object
  BY DEF Object, PP!Object, CP!Object, Finalizers, PP!Finalizers, CP!Finalizers
<1>2. \A o : (PP!Written(o) = Written(o)) /\ (CP!Written(o) = Written(o))
  BY DEF Written, PP!Written, CP!Written, Tombstone, PP!Tombstone, CP!Tombstone,
         NextRv, PP!NextRv, CP!NextRv, AnyOwner, PP!AnyOwner, CP!AnyOwner, AnySpec,
         PP!AnySpec, CP!AnySpec
<1>3. \A o : (PP!Put(o) <=> Put(o)) /\ (CP!Put(o) <=> Put(o))
  BY <1>2 DEF Put, PP!Put, CP!Put
<1> QED
  BY <1>1, <1>3
     DEF CreateObject, PP!CreateObject, CP!CreateObject, EditObject, PP!EditObject,
         CP!EditObject, DeleteObject, PP!DeleteObject, CP!DeleteObject, NewObject,
         PP!NewObject, CP!NewObject

(* What is said of the states of the publication component.                *)
LEMMA SameP ==
  /\ P!TypeOK <=> PP!TypeOK
  /\ P!TypeOK' <=> PP!TypeOK'
  /\ P!Inv <=> PP!Inv
  /\ P!Inv' <=> PP!Inv'
  /\ P!NoOrphan <=> PP!NoOrphan
  /\ P!NoOrphan' <=> PP!NoOrphan'
  /\ P!NamesStable <=> PP!NamesStable
BY DEF P!TypeOK, PP!TypeOK, P!Inv, PP!Inv, P!NoOrphan, PP!NoOrphan, P!NamesStable,
       PP!NamesStable, P!ApiTypeOK, PP!ApiTypeOK, P!Calls, PP!Calls, P!Object,
       PP!Object, P!Publication, PP!Publication, P!StoreInv, PP!StoreInv,
       P!InformerInv, PP!InformerInv, P!WorkerInv, PP!WorkerInv, P!Held, PP!Held,
       P!Finalizers, PP!Finalizers, P!WellFormed, PP!WellFormed, P!Faithful,
       PP!Faithful, P!Version, PP!Version

(* And of those of the config component.                                   *)
LEMMA SameC ==
  /\ C!TypeOK <=> CP!TypeOK
  /\ C!TypeOK' <=> CP!TypeOK'
  /\ C!ConfigInv <=> CP!ConfigInv
  /\ C!ConfigInv' <=> CP!ConfigInv'
  /\ C!ListedInv <=> CP!ListedInv
  /\ C!ListedInv' <=> CP!ListedInv'
BY DEF C!TypeOK, CP!TypeOK, C!ConfigInv, CP!ConfigInv, C!ListedInv, CP!ListedInv,
       C!ApiTypeOK, CP!ApiTypeOK, C!ConfigVersion, CP!ConfigVersion, C!Object,
       CP!Object, C!HasUid, CP!HasUid, C!Finalizers, CP!Finalizers

(* The steps of the publication component.                                 *)
LEMMA SameStepsP ==
  /\ P!Init <=> PP!Init
  /\ P!Worker <=> PP!Worker
  /\ P!CallFails <=> PP!CallFails
  /\ P!LoseAccess <=> PP!LoseAccess
  /\ P!RegainAccess <=> PP!RegainAccess
  /\ P!Crash <=> PP!Crash
  /\ \A r : (P!Begin(r) <=> PP!Begin(r)) /\ (P!Resync(r) <=> PP!Resync(r))
  /\ \A o : P!Event(o) <=> PP!Event(o)
  /\ \A r, s, w : P!UserCreate(r, s, w) <=> PP!UserCreate(r, s, w)
  /\ \A r, s : P!UserEdit(r, s) <=> PP!UserEdit(r, s)
  /\ \A r, fs : P!UserDelete(r, fs) <=> PP!UserDelete(r, fs)
<1>1. P!Worker <=> PP!Worker
  BY DEF P!Worker, PP!Worker, P!Connect, PP!Connect, P!AddFinalizer,
         PP!AddFinalizer, P!Create, PP!Create, P!SetTables, PP!SetTables,
         P!SetPublish, PP!SetPublish, P!Succeed, PP!Succeed, P!Drop, PP!Drop,
         P!RemoveFinalizer, PP!RemoveFinalizer, P!KnownVariant, PP!KnownVariant,
         P!Requeue, PP!Requeue, P!AfterConnect, PP!AfterConnect, P!Done, PP!Done,
         P!UpdateAccepted, PP!UpdateAccepted, P!Put, PP!Put, P!WithFinalizer,
         PP!WithFinalizer, P!Reply, PP!Reply, P!Written, PP!Written, P!Rejected,
         PP!Rejected, P!Listable, PP!Listable, P!CreatedPublication,
         PP!CreatedPublication, P!SetTableAccepted, PP!SetTableAccepted,
         P!WithTables, PP!WithTables, P!SetPublishAccepted, PP!SetPublishAccepted,
         P!WithOperations, PP!WithOperations, P!NoPublication, PP!NoPublication,
         P!WithoutFinalizer, PP!WithoutFinalizer, P!NoRequest, PP!NoRequest, P!Held,
         PP!Held, P!Tombstone, PP!Tombstone, P!NextRv, PP!NextRv, P!AivenCreated,
         PP!AivenCreated, P!StdCreated, PP!StdCreated, P!PublishedOperations,
         PP!PublishedOperations, P!AnyResource, PP!AnyResource, P!AnyOwner,
         PP!AnyOwner, P!AnySpec, PP!AnySpec
<1>2. /\ P!Init <=> PP!Init
      /\ P!CallFails <=> PP!CallFails
      /\ P!LoseAccess <=> PP!LoseAccess
      /\ P!RegainAccess <=> PP!RegainAccess
      /\ P!Crash <=> PP!Crash
  BY DEF P!Init, PP!Init, P!CallFails, PP!CallFails, P!LoseAccess, PP!LoseAccess,
         P!RegainAccess, PP!RegainAccess, P!Crash, PP!Crash, P!ApiInit, PP!ApiInit,
         P!NoRequest, PP!NoRequest, P!NoPublication, PP!NoPublication, P!Calls,
         PP!Calls, P!Requeue, PP!Requeue, P!Relist, PP!Relist, P!Tombstone,
         PP!Tombstone, P!AnyResource, PP!AnyResource, P!AnyOwner, PP!AnyOwner,
         P!AnySpec, PP!AnySpec
<1>3. /\ \A r : (P!Begin(r) <=> PP!Begin(r)) /\ (P!Resync(r) <=> PP!Resync(r))
      /\ \A o : P!Event(o) <=> PP!Event(o)
  BY DEF P!Begin, PP!Begin, P!Resync, PP!Resync, P!Event, PP!Event, P!Deliver,
         PP!Deliver
<1>4. /\ \A r, s, w : P!UserCreate(r, s, w) <=> PP!UserCreate(r, s, w)
      /\ \A r, s : P!UserEdit(r, s) <=> PP!UserEdit(r, s)
      /\ \A r, fs : P!UserDelete(r, fs) <=> PP!UserDelete(r, fs)
  BY DEF P!UserCreate, PP!UserCreate, P!UserEdit, PP!UserEdit, P!UserDelete,
         PP!UserDelete, P!CreateObject, PP!CreateObject, P!UserWrite, PP!UserWrite,
         P!EditObject, PP!EditObject, P!DeleteObject, PP!DeleteObject, P!Put,
         PP!Put, P!NewObject, PP!NewObject, P!Written, PP!Written, P!Tombstone,
         PP!Tombstone, P!NextRv, PP!NextRv, P!AnyOwner, PP!AnyOwner, P!AnySpec,
         PP!AnySpec
<1> QED
  BY <1>1, <1>2, <1>3, <1>4

(* Those of the config component.                                          *)
LEMMA SameStepsC ==
  /\ C!Init <=> CP!Init
  /\ C!Worker <=> CP!Worker
  /\ C!CallFails <=> CP!CallFails
  /\ C!Users <=> CP!Users
  /\ C!Crash <=> CP!Crash
  /\ \A c : /\ C!Begin(c) <=> CP!Begin(c)
            /\ C!Resync(c) <=> CP!Resync(c)
            /\ C!ConfigEvent(c) <=> CP!ConfigEvent(c)
  /\ \A o : C!ChildEvent(o) <=> CP!ChildEvent(o)
  /\ \A r : C!Collect(r) <=> CP!Collect(r)
<1>1. C!Worker <=> CP!Worker
  BY DEF C!Worker, CP!Worker, C!List, CP!List, C!Finish, CP!Finish, C!CreateChild,
         CP!CreateChild, C!UpdateChild, CP!UpdateChild, C!DeleteChild,
         CP!DeleteChild, C!ByName, CP!ByName, C!Children, CP!Children, C!WithSpec,
         CP!WithSpec, C!Stop, CP!Stop, C!Refused, CP!Refused, C!CreateObject,
         CP!CreateObject, C!Continue, CP!Continue, C!UpdateAccepted,
         CP!UpdateAccepted, C!Put, CP!Put, C!DeleteObject, CP!DeleteObject,
         C!NoVersion, CP!NoVersion, C!Fail, CP!Fail, C!NewObject, CP!NewObject,
         C!Written, CP!Written, C!Tombstone, CP!Tombstone, C!NextRv, CP!NextRv,
         C!AnyOwner, CP!AnyOwner, C!AnySpec, CP!AnySpec
<1>2. /\ C!Init <=> CP!Init
      /\ C!CallFails <=> CP!CallFails
      /\ C!Users <=> CP!Users
      /\ C!Crash <=> CP!Crash
  BY DEF C!Init, CP!Init, C!CallFails, CP!CallFails, C!Users, CP!Users, C!Crash,
         CP!Crash, C!ApiInit, CP!ApiInit, C!NoVersion, CP!NoVersion, C!Fail,
         CP!Fail, C!ConfigDelete, CP!ConfigDelete, C!ConfigCreate, CP!ConfigCreate,
         C!ConfigEdit, CP!ConfigEdit, C!Relist, CP!Relist, C!Stop, CP!Stop,
         C!Tombstone, CP!Tombstone, C!NewVersion, CP!NewVersion, C!AnyOwner,
         CP!AnyOwner, C!AnySpec, CP!AnySpec
<1>3. /\ \A c : /\ C!Begin(c) <=> CP!Begin(c)
                /\ C!Resync(c) <=> CP!Resync(c)
                /\ C!ConfigEvent(c) <=> CP!ConfigEvent(c)
      /\ \A o : C!ChildEvent(o) <=> CP!ChildEvent(o)
      /\ \A r : C!Collect(r) <=> CP!Collect(r)
  BY DEF C!Begin, CP!Begin, C!Resync, CP!Resync, C!ConfigEvent, CP!ConfigEvent,
         C!ChildEvent, CP!ChildEvent, C!Collect, CP!Collect, C!Deliver, CP!Deliver,
         C!NoOwner, CP!NoOwner, C!Current, CP!Current, C!DeleteObject,
         CP!DeleteObject, C!others, CP!others, C!Put, CP!Put, C!Written, CP!Written,
         C!Tombstone, CP!Tombstone, C!NextRv, CP!NextRv, C!AnyOwner, CP!AnyOwner,
         C!AnySpec, CP!AnySpec
<1> QED
  BY <1>1, <1>2, <1>3

-----------------------------------------------------------------------------
(* The steps.                                                              *)

(* The steps that the config reconciler has no part in, those that the     *)
(* other has no part in, and those of both.                                *)
PublicationStep ==
  \/ PublicationWorker \/ Outside
  \/ \E r \in Resources : PublicationBegin(r) \/ PublicationResync(r)

ConfigStep ==
  \/ ConfigWorker \/ ConfigOutside
  \/ \E r \in Resources : Collect(r)
  \/ \E c \in Configs : ConfigBegin(c) \/ ConfigResync(c) \/ ConfigEvent(c)

CommonStep == Informer \/ Crash \/ UNCHANGED vars

(* There are no others.                                                    *)
LEMMA Steps ==
  ASSUME [Next]_vars
  PROVE  PublicationStep \/ ConfigStep \/ CommonStep
BY DEF Next, PublicationStep, ConfigStep, CommonStep

(* A step of the publication reconciler, or of a user, is one of its       *)
(* component, which writes an object or none.                              *)
LEMMA PublicationSteps ==
  ASSUME P!TypeOK, P!Inv, PublicationStep
  PROVE  PP!Next /\ CP!Elsewhere
<1>1. PP!TypeOK /\ PP!StoreInv
  BY SameP DEF PP!Inv
<1>2. UNCHANGED configVars
  BY DEF PublicationStep, PublicationWorker, Outside, PublicationBegin,
         PublicationResync
<1>3. \/ PP!Worker \/ PP!CallFails \/ PP!LoseAccess \/ PP!RegainAccess \/ PP!Users
      \/ \E r \in Resources : PP!Begin(r) \/ PP!Resync(r)
  <2>1. C!NoOwner \in Owners /\ UserObjects \subseteq Resources
        /\ {} \in SUBSET ForeignFinalizers
    BY OperatorAssumption
  <2>2. Outside =>
          PP!CallFails \/ PP!LoseAccess \/ PP!RegainAccess \/ PP!Users
    BY <2>1, SameStepsP DEF Outside, PP!Users
  <2> QED
    BY <2>2, SameStepsP
       DEF PublicationStep, PublicationWorker, PublicationBegin, PublicationResync
<1>4. UNCHANGED <<store, watch, cache>> \/ \E o \in CP!Object : CP!Put(o)
  <2>1. UNCHANGED <<store, watch, cache>> \/ \E o \in PP!Object : PP!Put(o)
    BY <1>1, <1>3, Assumptions, PP!CallsOnObjects
       DEF PP!ResourcesAssumption, PP!PublicationAssumption
  <2> QED
    BY <2>1, SameObjects
<1>5. PP!Next
  BY <1>3 DEF PP!Next
<1>6. CP!Elsewhere
  BY <1>2, <1>4 DEF configVars, CP!Elsewhere
<1> QED
  BY <1>5, <1>6

(* A step of the config reconciler, of the garbage collector, or of a user *)
(* who writes configs, is one of its component.                            *)
LEMMA ConfigSteps ==
  ASSUME ConfigStep
  PROVE  CP!Next /\ UNCHANGED publicationVars
<1>1. UNCHANGED publicationVars
  BY DEF ConfigStep, ConfigWorker, ConfigOutside, Collect, ConfigBegin, ConfigResync,
         ConfigEvent
<1>2. ConfigOutside => CP!CallFails \/ CP!Users
  <2>1. ConfigOutside => C!CallFails \/ C!Users
    BY DEF ConfigOutside, C!Users
  <2> QED
    BY <2>1, SameStepsC
<1>3. ASSUME NEW c \in Configs, ConfigEvent(c)
      PROVE  CP!Informers
  BY <1>3, SameStepsC DEF ConfigEvent, CP!Informers
<1> QED
  BY <1>1, <1>2, <1>3, SameStepsC
     DEF ConfigStep, ConfigWorker, Collect, ConfigBegin, ConfigResync, CP!Next

(* An event is one for both, and the end of the process the end of both.   *)
LEMMA CommonSteps ==
  ASSUME CommonStep
  PROVE  [PP!Next]_(PP!vars) /\ [CP!Next]_(CP!vars)
<1>1. CASE Informer
  <2>1. PP!Informer /\ CP!Informers
    BY <1>1, SameStepsP, SameStepsC DEF Informer, Event, PP!Informer, CP!Informers
  <2> QED
    BY <2>1 DEF PP!Next, CP!Next
<1>2. CASE Crash
  BY <1>2, SameStepsP, SameStepsC DEF Crash, PP!Next, CP!Next
<1>3. CASE UNCHANGED vars
  BY <1>3 DEF vars, apiVars, publicationVars, configVars, PP!vars, CP!vars
<1> QED
  BY <1>1, <1>2, <1>3 DEF CommonStep

-----------------------------------------------------------------------------
(* Types.                                                                  *)

(* The first states are those of the components.                           *)
LEMMA InitInv == Init => TypeOK /\ Inv /\ P!NoOrphan /\ PP!CreatorNames
<1> SUFFICES ASSUME Init PROVE TypeOK /\ Inv /\ P!NoOrphan /\ PP!CreatorNames
  OBVIOUS
<1>1. PP!Init /\ CP!Init
  BY SameStepsP, SameStepsC DEF Init
<1>2. PP!TypeOK /\ PP!Inv
  BY <1>1, Assumptions, PP!InitType, PP!InitInv
     DEF PP!ResourcesAssumption, PP!PublicationAssumption
<1>3. CP!TypeOK /\ CP!ConfigInv
  BY <1>1, Assumptions, CP!InitType
     DEF CP!ResourcesAssumption, CP!ConfigAssumption
<1>4. C!ListedInv /\ toUpdate = {}
  BY DEF Init, C!Init, C!ListedInv
<1>5. PP!NoOrphan /\ PP!CreatorNames
  BY <1>1 DEF PP!Init, PP!NoOrphan, PP!CreatorNames
<1> QED
  BY <1>2, <1>3, <1>4, <1>5, SameP, SameC DEF TypeOK, Inv

(* Every step keeps the types, and the configs' UIDs.                      *)
LEMMA NextType ==
  ASSUME TypeOK, P!Inv, C!ConfigInv, [Next]_vars
  PROVE  TypeOK' /\ C!ConfigInv'
<1>1. PP!TypeOK /\ CP!TypeOK /\ CP!ConfigInv
  BY SameP, SameC DEF TypeOK
<1>2. CASE PublicationStep
  <2>1. PP!Next /\ CP!Elsewhere
    BY <1>2, PublicationSteps DEF TypeOK
  <2>2. PP!TypeOK'
    BY <1>1, <2>1, Assumptions, PP!NextType
       DEF PP!ResourcesAssumption, PP!PublicationAssumption
  <2>3. CP!TypeOK' /\ CP!ConfigInv'
    BY <1>1, <2>1, <2>2, Assumptions, CP!ElsewhereType
       DEF PP!TypeOK, CP!ResourcesAssumption, CP!ConfigAssumption
  <2> QED
    BY <2>2, <2>3, SameP, SameC DEF TypeOK
<1>3. CASE ConfigStep
  <2>1. CP!Next /\ UNCHANGED publicationVars
    BY <1>3, ConfigSteps
  <2>2. CP!TypeOK' /\ CP!ConfigInv'
    BY <1>1, <2>1, Assumptions, CP!NextType
       DEF CP!ResourcesAssumption, CP!ConfigAssumption
  <2>3. faults' \in 0 .. MaxFaults /\ CP!ApiTypeOK'
    BY <2>2 DEF CP!TypeOK
  <2>4. PP!ApiTypeOK'
    BY <2>3, SameObjects DEF CP!ApiTypeOK, PP!ApiTypeOK
  <2>5. PP!TypeOK'
    BY <1>1, <2>1, <2>3, <2>4, SameObjects DEF publicationVars, PP!TypeOK
  <2> QED
    BY <2>2, <2>5, SameP, SameC DEF TypeOK
<1>4. CASE CommonStep
  <2>1. PP!TypeOK'
    BY <1>1, <1>4, CommonSteps, Assumptions, PP!NextType
       DEF PP!ResourcesAssumption, PP!PublicationAssumption
  <2>2. CP!TypeOK' /\ CP!ConfigInv'
    BY <1>1, <1>4, CommonSteps, Assumptions, CP!NextType
       DEF CP!ResourcesAssumption, CP!ConfigAssumption
  <2> QED
    BY <2>1, <2>2, SameP, SameC DEF TypeOK
<1> QED
  BY <1>2, <1>3, <1>4, Steps

-----------------------------------------------------------------------------
(* What each may rely on.                                                  *)

(* Every copy that the informer has is a version of its object.            *)
LEMMA Copies ==
  ASSUME TypeOK, P!Inv
  PROVE  CP!CopiesInv
BY DEF P!Inv, P!StoreInv, P!InformerInv, P!Faithful, P!Version, CP!CopiesInv,
       CP!Version

(* The config component's invariant is part of the whole one.              *)
LEMMA ConfigComponent ==
  ASSUME TypeOK, Inv
  PROVE  CP!TypeOK /\ CP!Inv
BY Copies, SameC DEF TypeOK, Inv, CP!Inv

(* To PostgresPublications, what the config reconciler writes is what a    *)
(* user might have written.                                                *)
LEMMA ConfigStepElsewhere ==
  ASSUME TypeOK, Inv, ConfigStep
  PROVE  PP!Elsewhere
<1>1. UNCHANGED <<queue, pc, obj, pg, creator>>
  BY ConfigSteps DEF publicationVars
<1>2. CASE UNCHANGED <<store, watch, cache>>
  BY <1>1, <1>2 DEF PP!Elsewhere
<1>3. ASSUME NEW r \in Resources, NEW s \in SpecsOf[r],
             EditObject(r, s) \/ \E w \in Owners : CreateObject(r, s, w)
      PROVE  PP!Elsewhere
  BY <1>1, <1>3, SameObjects DEF PP!Elsewhere, PP!OthersWrite
<1>4. ASSUME NEW r \in Resources, DeleteObject(r, {})
      PROVE  PP!Elsewhere
  <2>1. {} \in SUBSET ForeignFinalizers /\ PP!DeleteObject(r, {})
    BY <1>4, SameObjects
  <2> QED
    BY <1>1, <2>1 DEF PP!Elsewhere, PP!OthersWrite
<1>5. CASE CP!Worker \/ CP!CallFails
  <2>1. \/ UNCHANGED <<store, watch, cache>>
        \/ \E r \in Resources : \E s \in SpecsOf[r] : \E w \in Owners :
             CP!CreateObject(r, s, w)
        \/ \E o \in toUpdate : CP!EditObject(o.name, o.spec)
        \/ \E r \in Resources : CP!DeleteObject(r, {})
    BY <1>5, ConfigComponent, Assumptions, CP!WorkerOnObjects
       DEF CP!ResourcesAssumption, CP!ConfigAssumption
  <2>2. \A o \in toUpdate : o.name \in Resources /\ o.spec \in SpecsOf[o.name]
    BY ConfigComponent DEF CP!TypeOK, CP!Object, Inv
  <2> QED
    BY <1>2, <1>3, <1>4, <2>1, <2>2, SameObjects
<1>6. ASSUME NEW r \in Resources, Collect(r)
      PROVE  PP!Elsewhere
  <2>1. CP!DeleteObject(r, {})
    BY <1>6, SameStepsC DEF Collect, CP!Collect
  <2> QED
    BY <1>4, <2>1, SameObjects
<1>7. ASSUME NEW c \in Configs, ConfigBegin(c) \/ ConfigResync(c) \/ ConfigEvent(c)
      PROVE  UNCHANGED <<store, watch, cache>>
  BY <1>7 DEF ConfigBegin, ConfigResync, ConfigEvent, C!Begin, C!Resync, C!ConfigEvent
<1>8. CASE ConfigOutside
  <2>1. CP!CallFails \/ UNCHANGED <<store, watch, cache>>
    BY <1>8, SameStepsC
       DEF ConfigOutside, C!ConfigDelete, C!ConfigCreate, C!ConfigEdit, C!NewVersion
  <2> QED
    BY <1>2, <1>5, <2>1
<1> QED
  BY <1>2, <1>5, <1>6, <1>7, <1>8, SameStepsC DEF ConfigStep, ConfigWorker

(* What the worker of configs is going to write is a spec that the object  *)
(* may have.                                                               *)
Allowed == \A o \in toUpdate : o.spec \in SpecsOf[o.name]

(* It lists such updates only, for what the config lists under a name may  *)
(* stand in every object that has that name.                               *)
LEMMA ListAllowed ==
  ASSUME TypeOK, Inv, CP!List
  PROVE  Allowed'
<1>1. PICK current \in CP!ByName(CP!Children(req)) :
        LET wanted(o) == {s \in conf.desired : s.name = o.spec.name}
        IN toUpdate' = UNION {{CP!WithSpec(o, s) : s \in wanted(o)} : o \in current}
  BY DEF CP!List
<1>2. ASSUME NEW p \in current
      PROVE  /\ p \in Object /\ p.name \in Resources /\ p.spec \in SpecsOf[p.name]
  <2>1. p \in CP!Children(req)
    BY <1>1 DEF CP!ByName
  <2>2. PICK q \in Resources : p = cache[q]
    BY <2>1 DEF CP!Children
  <2>3. p \in CP!Object
    BY <2>2, ConfigComponent DEF CP!TypeOK, CP!ApiTypeOK
  <2>4. p.name = q /\ p.spec \in SpecsOf[p.name]
    BY <2>2 DEF Inv, P!Inv, P!InformerInv, P!WellFormed
  <2> QED
    BY <2>2, <2>3, <2>4, SameObjects
<1>3. conf.desired \in Desired \cup {{}}
  BY ConfigComponent DEF CP!TypeOK, CP!ConfigVersion
<1>4. ASSUME NEW p \in current, NEW s \in conf.desired, s.name = p.spec.name
      PROVE  LET o == CP!WithSpec(p, s) IN o.spec \in SpecsOf[o.name]
  <2>1. s \in SpecsOf[p.name]
    BY <1>2, <1>3, <1>4, OperatorAssumption
  <2> QED
    BY <1>2, <2>1 DEF CP!WithSpec, Object
<1> QED
  BY <1>1, <1>4 DEF Allowed

(* Every step keeps the invariant.                                         *)
LEMMA NextInv ==
  ASSUME TypeOK, Inv, [Next]_vars
  PROVE  Inv'
<1>1. PP!TypeOK /\ PP!Inv /\ CP!TypeOK /\ CP!Inv /\ P!TypeOK /\ Allowed
  BY ConfigComponent, SameP DEF TypeOK, Inv, Allowed
<1>2. CASE PublicationStep
  <2>1. PP!Next /\ CP!Elsewhere
    BY <1>1, <1>2, PublicationSteps DEF Inv
  <2>2. PP!Inv'
    BY <1>1, <2>1, Assumptions, PP!NextInv
       DEF PP!ResourcesAssumption, PP!PublicationAssumption
  <2>3. CP!ListedInv'
    BY <1>1, <2>1, Assumptions, CP!ElsewhereListed
       DEF CP!Inv, CP!ResourcesAssumption, CP!ConfigAssumption
  <2>4. Allowed'
    BY <1>1, <2>1 DEF CP!Elsewhere, Allowed
  <2> QED
    BY <2>2, <2>3, <2>4, NextType, SameP, SameC DEF Inv, Allowed
<1>3. CASE ConfigStep
  <2>1. CP!Next
    BY <1>3, ConfigSteps
  <2>2. PP!Inv'
    BY <1>1, <1>3, ConfigStepElsewhere, Assumptions, PP!ElsewhereInv
       DEF PP!ResourcesAssumption, PP!PublicationAssumption
  <2>3. CP!Inv'
    BY <1>1, <2>1, Assumptions, CP!NextInv
       DEF CP!ResourcesAssumption, CP!ConfigAssumption
  <2>4. Allowed'
    <3>1. \/ toUpdate' = {}
          \/ toUpdate' \subseteq toUpdate
          \/ CP!List
          \/ \E c \in Configs : CP!Begin(c)
      BY <1>1, <2>1, Assumptions, CP!StepOnObjects
         DEF CP!Inv, CP!ResourcesAssumption, CP!ConfigAssumption
    <3>2. \A c \in Configs : CP!Begin(c) => toUpdate' = toUpdate
      BY DEF CP!Begin
    <3> QED
      BY <1>1, <3>1, <3>2, ListAllowed DEF Allowed
  <2> QED
    BY <2>2, <2>3, <2>4, NextType, SameP, SameC DEF Inv, Allowed, CP!Inv
<1>4. CASE CommonStep
  <2>1. PP!Inv'
    BY <1>1, <1>4, CommonSteps, Assumptions, PP!NextInv
       DEF PP!ResourcesAssumption, PP!PublicationAssumption
  <2>2. CP!Inv'
    BY <1>1, <1>4, CommonSteps, Assumptions, CP!NextInv
       DEF CP!ResourcesAssumption, CP!ConfigAssumption
  <2>3. toUpdate' \in {toUpdate, {}}
    BY <1>4
       DEF CommonStep, Informer, Event, C!ChildEvent, Crash, C!Crash, C!Stop, vars,
           configVars
  <2> QED
    BY <1>1, <2>1, <2>2, <2>3, NextType, SameP, SameC DEF Inv, Allowed, CP!Inv
<1> QED
  BY <1>2, <1>3, <1>4, Steps

(* Type correctness of the whole operator.  It needs the invariant: the    *)
(* owner that a child gets has the UID of a config that was there.         *)
THEOREM OperatorTypes == Spec => []TypeOK
<1>1. Init => TypeOK /\ Inv
  BY InitInv
<1>2. TypeOK /\ Inv /\ [Next]_vars => (TypeOK /\ Inv)'
  BY NextType, NextInv DEF Inv
<1> QED
  BY <1>1, <1>2, PTL DEF Spec

(* Each reconciler can rely on all that it relies on alone, though the     *)
(* other writes the same objects from copies that may be old.              *)
THEOREM OperatorInvariance == Spec => []Inv
<1>1. Init => TypeOK /\ Inv
  BY InitInv
<1>2. TypeOK /\ Inv /\ [Next]_vars => (TypeOK /\ Inv)'
  BY NextType, NextInv DEF Inv
<1> QED
  BY <1>1, <1>2, PTL DEF Spec

-----------------------------------------------------------------------------
(* The worker of configs writes its own.                                   *)

(* No step but those of the config reconciler moves its worker, and those  *)
(* overwrite a spec only in a child of the config.                         *)
LEMMA StepUpdatesOwn ==
  ASSUME TypeOK, Inv, [Next]_vars, NEW r \in Resources,
         <<configPc, C!workVars>>' # <<configPc, C!workVars>>,
         store[r].present, store'[r].present,
         store'[r].spec # store[r].spec
  PROVE  /\ store[r].owner.config = req
         /\ store'[r].owner = store[r].owner
         /\ store'[r].finalizers = store[r].finalizers
         /\ store'[r].deleting = store[r].deleting
<1>1. [CP!Next]_(CP!vars)
  <2>1. ~PublicationStep
    BY PublicationSteps DEF TypeOK, Inv, C!workVars, CP!Elsewhere
  <2> QED
    BY <2>1, Steps, ConfigSteps, CommonSteps
<1>2. <<configPc, CP!workVars>>' # <<configPc, CP!workVars>>
  BY DEF C!workVars, CP!workVars
<1> QED
  BY <1>1, <1>2, ConfigComponent, Assumptions, CP!StepUpdatesOwn
     DEF CP!ResourcesAssumption, CP!ConfigAssumption

(* With a real finalizer on the children, and users who edit them and put  *)
(* objects of their own in their place, the worker still overwrites specs  *)
(* of its config's own children only, and never a finalizer, a deletion    *)
(* mark or a reference.                                                    *)
THEOREM OperatorUpdatesOwn == Spec => UpdatesOwnChildrenOnly
<1>1. TypeOK /\ Inv /\ [Next]_vars =>
        [\A r \in Resources :
           /\ <<configPc, C!workVars>>' # <<configPc, C!workVars>>
           /\ store[r].present /\ store'[r].present
           /\ store'[r].spec # store[r].spec
           => /\ store[r].owner.config = req
              /\ store'[r].owner = store[r].owner
              /\ store'[r].finalizers = store[r].finalizers
              /\ store'[r].deleting = store[r].deleting]_(C!vars)
  BY StepUpdatesOwn
<1> QED
  BY <1>1, OperatorTypes, OperatorInvariance, PTL
     DEF Spec, UpdatesOwnChildrenOnly, C!UpdatesOwnChildrenOnly

-----------------------------------------------------------------------------
(* No orphans.                                                             *)

(* Neither reconciler leaves a publication without its object.             *)
LEMMA NextNoOrphan ==
  ASSUME P!NamesStable, TypeOK, Inv, PP!NoOrphan, PP!CreatorNames, [Next]_vars
  PROVE  PP!NoOrphan' /\ PP!CreatorNames'
<1>1. /\ PP!TypeOK /\ PP!Inv /\ PP!StoreInv /\ P!TypeOK /\ P!Inv /\ PP!NamesStable
      /\ PP!Inv'
  BY NextInv, SameP DEF TypeOK, Inv, PP!Inv
<1>2. CASE PublicationStep \/ CommonStep
  <2>1. [PP!Next]_(PP!vars)
    BY <1>1, <1>2, PublicationSteps, CommonSteps
  <2> QED
    BY <1>1, <2>1, Assumptions, PP!NextNoOrphan
       DEF PP!ResourcesAssumption, PP!PublicationAssumption
<1>3. CASE ConfigStep
  BY <1>1, <1>3, ConfigStepElsewhere, Assumptions, PP!ElsewhereNoOrphan
     DEF PP!ResourcesAssumption, PP!PublicationAssumption
<1> QED
  BY <1>2, <1>3, Steps

(* If the specs of an object all name the same publication, no publication *)
(* that the operator made outlives the object that asked for it, although  *)
(* the config reconciler writes and deletes these objects too.             *)
THEOREM OperatorNoOrphans ==
  ASSUME P!NamesStable
  PROVE  Spec => []NoOrphan
<1>1. Init => TypeOK /\ Inv /\ PP!NoOrphan /\ PP!CreatorNames
  BY InitInv, SameP
<1>2. TypeOK /\ Inv /\ PP!NoOrphan /\ PP!CreatorNames /\ [Next]_vars
        => (TypeOK /\ Inv /\ PP!NoOrphan /\ PP!CreatorNames)'
  BY NextType, NextInv, NextNoOrphan DEF Inv
<1>3. PP!NoOrphan => NoOrphan
  BY SameP DEF NoOrphan
<1> QED
  BY <1>1, <1>2, <1>3, PTL DEF Spec

-----------------------------------------------------------------------------
(* Refinement.                                                             *)

(* Both instances show the same to PublicationLifecycle.                   *)
LEMMA SameLifecycle ==
  /\ PP!Lifecycle!LifeInit => P!Lifecycle!LifeInit
  /\ PP!Lifecycle!LifeNext => P!Lifecycle!LifeNext
<1>1. /\ P!StatusNow = PP!StatusNow /\ P!NamingNow = PP!NamingNow
      /\ P!GuardedNow = PP!GuardedNow /\ P!DoomedNow = PP!DoomedNow
      /\ P!PublishedNow = PP!PublishedNow /\ P!PossibleNames = PP!PossibleNames
  BY DEF P!StatusNow, PP!StatusNow, P!NamingNow, PP!NamingNow, P!GuardedNow,
         PP!GuardedNow, P!DoomedNow, PP!DoomedNow, P!PublishedNow, PP!PublishedNow,
         P!PossibleNames, PP!PossibleNames, P!Status, PP!Status, P!NameGiven,
         PP!NameGiven, P!Held, PP!Held, P!Copies, PP!Copies
<1>2. /\ P!StatusNow' = PP!StatusNow' /\ P!NamingNow' = PP!NamingNow'
      /\ P!GuardedNow' = PP!GuardedNow' /\ P!DoomedNow' = PP!DoomedNow'
      /\ P!PublishedNow' = PP!PublishedNow'
  BY DEF P!StatusNow, PP!StatusNow, P!NamingNow, PP!NamingNow, P!GuardedNow,
         PP!GuardedNow, P!DoomedNow, PP!DoomedNow, P!PublishedNow, PP!PublishedNow,
         P!Status, PP!Status, P!NameGiven, PP!NameGiven, P!Held, PP!Held, P!Copies,
         PP!Copies
<1>3. PP!Lifecycle!LifeInit => P!Lifecycle!LifeInit
  BY <1>1
     DEF P!Lifecycle!LifeInit, PP!Lifecycle!LifeInit
<1>4. PP!Lifecycle!LifeStep => P!Lifecycle!LifeStep
  BY <1>1, <1>2
     DEF P!Lifecycle!LifeStep, PP!Lifecycle!LifeStep, P!Lifecycle!Submit,
         PP!Lifecycle!Submit, P!Lifecycle!Rename, PP!Lifecycle!Rename,
         P!Lifecycle!Withdraw, PP!Lifecycle!Withdraw, P!Lifecycle!Vanish,
         PP!Lifecycle!Vanish, P!Lifecycle!Guard, PP!Lifecycle!Guard,
         P!Lifecycle!Unguard, PP!Lifecycle!Unguard, P!Lifecycle!Provision,
         PP!Lifecycle!Provision, P!Lifecycle!Drop, PP!Lifecycle!Drop,
         P!Lifecycle!DropByOthers, PP!Lifecycle!DropByOthers
<1>5. PP!Lifecycle!Doom => P!Lifecycle!Doom
  BY <1>1, <1>2
     DEF P!Lifecycle!Doom, PP!Lifecycle!Doom
<1> QED
  BY <1>3, <1>4, <1>5
     DEF P!Lifecycle!LifeNext, PP!Lifecycle!LifeNext

(* Every step is one of PublicationLifecycle.                              *)
LEMMA StepIsLifeNext ==
  ASSUME TypeOK, Inv, [Next]_vars
  PROVE  P!Lifecycle!LifeNext
<1>1. PP!TypeOK /\ PP!Inv /\ P!TypeOK /\ P!Inv /\ PP!TypeOK' /\ PP!Inv'
  BY NextType, NextInv, SameP DEF TypeOK, Inv
<1>2. CASE PublicationStep \/ CommonStep
  <2>1. [PP!Next]_(PP!vars)
    BY <1>1, <1>2, PublicationSteps, CommonSteps
  <2> QED
    BY <1>1, <2>1, Assumptions, SameLifecycle, PP!StepIsLifeNext
       DEF PP!ResourcesAssumption, PP!PublicationAssumption
<1>3. CASE ConfigStep
  BY <1>1, <1>3, ConfigStepElsewhere, Assumptions, SameLifecycle,
     PP!ElsewhereIsLifeNext
     DEF PP!ResourcesAssumption, PP!PublicationAssumption
<1> QED
  BY <1>2, <1>3, Steps

(* With both reconcilers at work the objects and publications go through   *)
(* PublicationLifecycle alone: nothing that the config reconciler writes   *)
(* has the other drop a publication that no deleted object named, or give  *)
(* up a finalizer too early.                                               *)
THEOREM OperatorLifecycle == Spec => ImplementsLifecycle
<1>1. Init => P!Lifecycle!LifeInit
  BY SameLifecycle, SameStepsP, Assumptions, PP!InitIsLifeInit
     DEF Init, PP!ResourcesAssumption, PP!PublicationAssumption
<1>2. TypeOK /\ Inv /\ [Next]_vars
        => [P!Lifecycle!LifeNext]_(P!Lifecycle!lifeVars)
  BY StepIsLifeNext
<1> QED
  BY <1>1, <1>2, OperatorTypes, OperatorInvariance, PTL
     DEF Spec, ImplementsLifecycle, P!ImplementsLifecycle, P!Lifecycle!LifeSpec

=============================================================================

---------------------------- MODULE ConfigProofs ----------------------------
(***************************************************************************)
(* Theorems about ConfigController, for any configs, names and bounds that *)
(* satisfy ResourcesAssumption and ConfigAssumption.                       *)
(***************************************************************************)
EXTENDS ConfigController, ApiServerProofs

(* A config that is not there has no UID, and lists nothing.               *)
LEMMA NoVersionType ==
  /\ NoVersion \in ConfigVersion /\ HasUid(NoVersion)
  /\ NoVersion.uid = 0 /\ ~NoVersion.present
BY ConfigAssumption DEF NoVersion, ConfigVersion, HasUid

(* What a version of a config lists are specs of objects, under the names  *)
(* that the config gives them.                                             *)
LEMMA DesiredType ==
  ASSUME NEW v \in ConfigVersion
  PROVE  /\ v.uid \in 0 .. MaxConfigEdits /\ v.present \in BOOLEAN
         /\ v.desired \subseteq UNION Desired
         /\ \A s \in v.desired : \A c \in Configs :
              /\ ResourceName[<<c, s.name>>] \in Resources
              /\ s \in SpecsOf[ResourceName[<<c, s.name>>]]
<1>1. v.desired \in Desired \cup {{}} /\ v.uid \in 0 .. MaxConfigEdits
      /\ v.present \in BOOLEAN
  BY DEF ConfigVersion
<1>2. v.desired \subseteq UNION Desired
  BY <1>1
<1>3. ASSUME NEW s \in v.desired, NEW c \in Configs
      PROVE  /\ ResourceName[<<c, s.name>>] \in Resources
             /\ s \in SpecsOf[ResourceName[<<c, s.name>>]]
  BY <1>1, <1>3, ConfigAssumption
<1> QED
  BY <1>1, <1>2, <1>3

(* The end of a reconciliation, with or without an error.                  *)
LEMMA StopType ==
  ASSUME TypeOK, Stop
  PROVE  /\ pc' = "idle" /\ req' \in Configs \cup {NoConfig}
         /\ conf' \in ConfigVersion
         /\ toCreate' = {} /\ toUpdate' = {} /\ toDelete' = {}
BY NoVersionType DEF Stop

(* What a reconciliation goes on with when a call has had its effect.      *)
LEMMA ContinueType ==
  ASSUME TypeOK, ConfigInv, pc = "apply",
         NEW create \in SUBSET toCreate, NEW update \in SUBSET toUpdate,
         NEW remove \in SUBSET toDelete,
         Continue(create, update, remove)
  PROVE  /\ queue' \subseteq Configs
         /\ pc' \in {"idle", "list", "apply"}
         /\ req' \in Configs \cup {NoConfig}
         /\ conf' \in ConfigVersion
         /\ toCreate' \subseteq UNION Desired
         /\ toUpdate' \subseteq Object
         /\ toDelete' \subseteq Object
         /\ faults' \in 0 .. MaxFaults
<1>1. CASE Fail /\ faults < MaxFaults /\ faults' = faults + 1
  <2>1. queue' = queue \cup {req} /\ req \in Configs
    BY <1>1 DEF Fail, ConfigInv
  <2> QED
    BY <1>1, <2>1, StopType, ConfigAssumption DEF Fail, TypeOK
<1>2. CASE /\ toCreate' = create /\ toUpdate' = update /\ toDelete' = remove
           /\ UNCHANGED <<pc, req, conf, queue, faults>>
  BY <1>2 DEF TypeOK
<1> QED
  BY <1>1, <1>2 DEF Continue

(* A refused call ends the reconciliation.                                 *)
LEMMA RefusedType ==
  ASSUME TypeOK, ConfigInv, pc = "apply", Refused,
         UNCHANGED <<config, feed, seen, configEdits>>
  PROVE  TypeOK'
<1>1. queue' = queue \cup {req} /\ req \in Configs
  BY DEF Refused, Fail, ConfigInv
<1> QED
  BY <1>1, StopType DEF Refused, Fail, TypeOK, ApiTypeOK

-----------------------------------------------------------------------------
(* Types.                                                                  *)

(* At first there are no objects and no configs.                           *)
LEMMA InitType == Init => TypeOK /\ ConfigInv
<1> SUFFICES ASSUME Init PROVE TypeOK /\ ConfigInv
  OBVIOUS
<1>1. ApiTypeOK
  BY ApiInitType DEF Init
<1>2. <<>> \in Seq(ConfigVersion)
  OBVIOUS
<1>3. TypeOK
  BY <1>1, <1>2, NoVersionType, ConfigAssumption DEF Init, TypeOK
<1>4. ConfigInv
  BY NoVersionType DEF Init, ConfigInv
<1> QED
  BY <1>3, <1>4

(* Taking a request, and the informer's version of the config.             *)
LEMMA BeginType ==
  ASSUME TypeOK, ConfigInv, NEW c \in Configs, Begin(c)
  PROVE  TypeOK' /\ ConfigInv'
<1>1. TypeOK'
  BY DEF Begin, TypeOK, ApiTypeOK
<1>2. UNCHANGED <<config, feed, seen>>
  BY DEF Begin
<1>3. pc' # "idle" => req' \in Configs /\ conf'.present /\ HasUid(conf')
  BY DEF Begin, ConfigInv
<1> QED
  BY <1>1, <1>2, <1>3 DEF ConfigInv, HasUid

(* Sorting the children into three lists.                                  *)
LEMMA ListType ==
  ASSUME TypeOK, ConfigInv, List
  PROVE  TypeOK' /\ ConfigInv'
<1>1. PICK current \in ByName(Children(req)) :
        LET wanted(o) == {s \in conf.desired : s.name = o.spec.name}
        IN /\ toCreate' = {s \in conf.desired :
                             \A o \in current : o.spec.name # s.name}
           /\ toUpdate' = UNION {{WithSpec(o, s) : s \in wanted(o)} : o \in current}
           /\ toDelete' = {o \in current : wanted(o) = {}}
  BY DEF List
<1>2. current \subseteq Object
  BY <1>1 DEF ByName, Children, TypeOK, ApiTypeOK
<1>3. PICK c \in Configs : c = req
  BY DEF List, ConfigInv
<1>4. /\ conf.desired \subseteq UNION Desired
      /\ \A s \in conf.desired : s \in UNION {SpecsOf[r] : r \in Resources}
  BY <1>3, DesiredType DEF TypeOK
<1>5. \A o \in Object : \A s \in UNION {SpecsOf[r] : r \in Resources} :
        WithSpec(o, s) \in Object
  BY DEF WithSpec, Object
<1>6. toUpdate' \subseteq Object
  BY <1>1, <1>2, <1>4, <1>5
<1>7. TypeOK'
  BY <1>1, <1>2, <1>4, <1>6 DEF List, TypeOK, ApiTypeOK
<1>8. ConfigInv'
  BY DEF List, ConfigInv, HasUid
<1> QED
  BY <1>7, <1>8

(* The call has had its effect on the objects, and the reply arrives or    *)
(* is lost.                                                                *)
LEMMA ApplyType ==
  ASSUME TypeOK, ConfigInv, pc = "apply", ApiTypeOK',
         UNCHANGED <<config, feed, seen, configEdits>>,
         NEW create \in SUBSET toCreate, NEW update \in SUBSET toUpdate,
         NEW remove \in SUBSET toDelete,
         Continue(create, update, remove)
  PROVE  TypeOK' /\ ConfigInv'
<1>1. TypeOK'
  BY ContinueType DEF TypeOK
<1>2. pc' # "idle" => UNCHANGED <<req, conf>>
  BY DEF Continue, Fail, Stop
<1>3. ConfigInv'
  BY <1>2 DEF ConfigInv, HasUid
<1> QED
  BY <1>1, <1>3

(* A refused call.                                                         *)
LEMMA RefusedInv ==
  ASSUME TypeOK, ConfigInv, pc = "apply", Refused,
         UNCHANGED <<config, feed, seen, configEdits>>
  PROVE  TypeOK' /\ ConfigInv'
<1>1. pc' = "idle"
  BY DEF Refused, Fail, Stop
<1> QED
  BY <1>1, RefusedType DEF ConfigInv, HasUid

(* The child the worker creates has a spec it may have, and the config it  *)
(* reconciles as its owner.                                                *)
LEMMA ChildSpec ==
  ASSUME TypeOK, ConfigInv, pc = "apply", NEW s \in toCreate
  PROVE  /\ ResourceName[<<req, s.name>>] \in Resources
         /\ s \in SpecsOf[ResourceName[<<req, s.name>>]]
         /\ [config |-> req, uid |-> conf.uid] \in Owners
<1>1. PICK d \in Desired : s \in d
  BY DEF TypeOK
<1>2. req \in Configs /\ conf.uid \in 1 .. MaxConfigEdits
  BY DesiredType, ConfigAssumption DEF ConfigInv, HasUid, TypeOK
<1>3. [config |-> req, uid |-> conf.uid] \in Owners
  BY <1>2, ConfigAssumption DEF Reference
<1>4. PICK r \in Resources : r = ResourceName[<<req, s.name>>]
  BY <1>1, <1>2, ConfigAssumption
<1>5. s \in SpecsOf[r]
  BY <1>1, <1>2, <1>4, ConfigAssumption
<1> QED
  BY <1>3, <1>4, <1>5

(* It is an object.                                                        *)
LEMMA ChildType ==
  ASSUME TypeOK, ConfigInv, pc = "apply", NEW s \in toCreate
  PROVE  /\ ResourceName[<<req, s.name>>] \in Resources
         /\ NewObject(ResourceName[<<req, s.name>>], s,
                      [config |-> req, uid |-> conf.uid]) \in Object
<1>1. PICK r \in Resources : r = ResourceName[<<req, s.name>>] /\ s \in SpecsOf[r]
  BY ChildSpec
<1>2. PICK w \in Owners : w = [config |-> req, uid |-> conf.uid]
  BY ChildSpec
<1>3. NewObject(r, s, w) \in Object
  BY <1>1, OthersObjects DEF TypeOK
<1> QED
  BY <1>1, <1>2, <1>3

(* Creating a child.                                                       *)
LEMMA CreateChildType ==
  ASSUME TypeOK, ConfigInv, NEW s \in toCreate, CreateChild(s)
  PROVE  TypeOK' /\ ConfigInv'
<1>1. pc = "apply" /\ UNCHANGED <<config, feed, seen, configEdits>>
  BY DEF CreateChild
<1>2. CASE Refused
  BY <1>1, <1>2, RefusedInv
<1>3. CASE /\ Put(NewObject(ResourceName[<<req, s.name>>], s,
                            [config |-> req, uid |-> conf.uid]))
           /\ Continue(toCreate \ {s}, toUpdate, toDelete)
  <2>1. ApiTypeOK'
    BY <1>1, <1>3, ChildType, PutType DEF TypeOK
  <2> QED
    BY <1>1, <1>3, <2>1, ApplyType
<1> QED
  BY <1>2, <1>3 DEF CreateChild, CreateObject

(* Updating one.                                                           *)
LEMMA UpdateChildType ==
  ASSUME TypeOK, ConfigInv, NEW o \in toUpdate, UpdateChild(o)
  PROVE  TypeOK' /\ ConfigInv'
<1>1. /\ pc = "apply" /\ UNCHANGED <<config, feed, seen, configEdits>>
      /\ o \in Object
  BY DEF UpdateChild, TypeOK
<1>2. CASE Refused
  BY <1>1, <1>2, RefusedInv
<1>3. CASE /\ UNCHANGED <<store, watch, cache>> \/ Put(o)
           /\ Continue(toCreate, toUpdate \ {o}, toDelete)
  <2>1. ApiTypeOK'
    BY <1>1, <1>3, PutType DEF TypeOK, ApiTypeOK
  <2> QED
    BY <1>1, <1>3, <2>1, ApplyType
<1> QED
  BY <1>2, <1>3 DEF UpdateChild

(* A deletion writes the marked object.                                    *)
LEMMA DeleteType ==
  ASSUME ApiTypeOK, NEW r \in Resources, DeleteObject(r, {})
  PROVE  /\ [store[r] EXCEPT !.deleting = TRUE, !.finalizers = @ \cup {}] \in Object
         /\ Put([store[r] EXCEPT !.deleting = TRUE, !.finalizers = @ \cup {}])
         /\ ApiTypeOK'
<1>1. {} \in SUBSET Finalizers
  OBVIOUS
<1>2. [store[r] EXCEPT !.deleting = TRUE, !.finalizers = @ \cup {}] \in Object
  BY <1>1, OthersObjects
<1> QED
  BY <1>2, PutType DEF DeleteObject

(* Deleting one.                                                           *)
LEMMA DeleteChildType ==
  ASSUME TypeOK, ConfigInv, NEW o \in toDelete, DeleteChild(o)
  PROVE  TypeOK' /\ ConfigInv'
<1>1. /\ pc = "apply" /\ UNCHANGED <<config, feed, seen, configEdits>>
      /\ o.name \in Resources
  BY ObjectFields DEF DeleteChild, TypeOK
<1>2. CASE Refused
  BY <1>1, <1>2, RefusedInv
<1>3. CASE /\ UNCHANGED <<store, watch, cache>> \/ DeleteObject(o.name, {})
           /\ Continue(toCreate, toUpdate, toDelete \ {o})
  <2>1. ApiTypeOK'
    BY <1>1, <1>3, DeleteType DEF TypeOK, ApiTypeOK
  <2> QED
    BY <1>1, <1>3, <2>1, ApplyType
<1> QED
  BY <1>2, <1>3 DEF DeleteChild

(* The end of a reconciliation, a failed call, a crash.                    *)
LEMMA EndType ==
  ASSUME TypeOK, ConfigInv, Finish \/ CallFails \/ Crash
  PROVE  TypeOK' /\ ConfigInv'
<1>1. /\ pc' = "idle" /\ Stop /\ config' = config
      /\ faults' \in 0 .. MaxFaults
      /\ queue' \subseteq Configs
  BY ConfigAssumption DEF Finish, CallFails, Crash, Fail, Stop, ConfigInv, TypeOK
<1>2. ApiTypeOK'
  BY RelistType DEF Finish, CallFails, Crash, TypeOK, ApiTypeOK
<1>3. \/ UNCHANGED <<seen, feed>>
      \/ seen' = config /\ feed' = [c \in Configs |-> <<>>]
  BY DEF Finish, CallFails, Crash
<1>4. <<>> \in Seq(ConfigVersion)
  OBVIOUS
<1>5. TypeOK'
  BY <1>1, <1>2, <1>3, <1>4, StopType DEF Finish, CallFails, Crash, TypeOK
<1>6. ConfigInv'
  BY <1>1, <1>3 DEF ConfigInv, HasUid
<1> QED
  BY <1>5, <1>6

(* A version of a config reaches the informer.                             *)
LEMMA ConfigEventType ==
  ASSUME TypeOK, ConfigInv, NEW c \in Configs, ConfigEvent(c)
  PROVE  TypeOK' /\ ConfigInv'
<1>1. /\ feed[c] \in Seq(ConfigVersion) /\ feed[c] # <<>>
      /\ seen' = [seen EXCEPT ![c] = Head(feed[c])]
      /\ feed' = [feed EXCEPT ![c] = Tail(feed[c])]
      /\ UNCHANGED <<store, watch, cache, config, pc, req, conf,
                     toCreate, toUpdate, toDelete, configEdits, faults>>
      /\ queue' = queue \cup {c}
  BY DEF ConfigEvent, TypeOK
<1>2. /\ Head(feed[c]) \in ConfigVersion /\ Tail(feed[c]) \in Seq(ConfigVersion)
      /\ HasUid(Head(feed[c]))
      /\ \A i \in DOMAIN Tail(feed[c]) : HasUid(Tail(feed[c])[i])
  <2>1. PICK f \in Seq(ConfigVersion) : f = feed[c]
    BY <1>1
  <2>2. \A i \in DOMAIN f : HasUid(f[i])
    BY <2>1 DEF ConfigInv
  <2>3. f # <<>> => /\ Head(f) \in ConfigVersion /\ Tail(f) \in Seq(ConfigVersion)
                    /\ 1 \in DOMAIN f /\ Head(f) = f[1]
                    /\ \A i \in DOMAIN Tail(f) : i + 1 \in DOMAIN f /\ Tail(f)[i] = f[i + 1]
    OBVIOUS
  <2> QED
    BY <1>1, <2>1, <2>2, <2>3
<1>3. TypeOK'
  BY <1>1, <1>2 DEF TypeOK, ApiTypeOK
<1>4. ASSUME NEW d \in Configs
      PROVE  HasUid(seen'[d]) /\ \A i \in DOMAIN feed'[d] : HasUid(feed'[d][i])
  BY <1>1, <1>2 DEF ConfigInv, TypeOK
<1>5. ConfigInv'
  BY <1>1, <1>4 DEF ConfigInv, HasUid
<1> QED
  BY <1>3, <1>5

(* A child's version reaches the informer, and its config is enqueued.     *)
LEMMA ChildEventType ==
  ASSUME TypeOK, ConfigInv, NEW o \in watch, ChildEvent(o)
  PROVE  TypeOK' /\ ConfigInv'
<1>1. /\ ApiTypeOK' /\ o \in Object /\ o.name \in Resources
  BY DeliverType, ObjectFields DEF ChildEvent, TypeOK
<1>2. \A v \in {o, cache[o.name]} : v.owner \in Owners
  BY <1>1, ObjectFields DEF TypeOK, ApiTypeOK
<1>3. \A v \in {o, cache[o.name]} : v.owner.config \in Configs \cup {NoConfig}
  BY <1>2, ConfigAssumption DEF Reference, NoOwner
<1>4. queue' \subseteq Configs
  BY <1>3 DEF ChildEvent, TypeOK
<1>5. TypeOK'
  BY <1>1, <1>4 DEF ChildEvent, TypeOK
<1>6. ConfigInv'
  BY DEF ChildEvent, ConfigInv, HasUid
<1> QED
  BY <1>5, <1>6

(* Users write configs.                                                    *)
LEMMA NewVersionType ==
  ASSUME TypeOK, ConfigInv, NEW c \in Configs, NEW v \in ConfigVersion, HasUid(v),
         NewVersion(c, v)
  PROVE  TypeOK' /\ ConfigInv'
<1>1. /\ config' = [config EXCEPT ![c] = v]
      /\ feed' = [feed EXCEPT ![c] = Append(feed[c], v)]
      /\ feed[c] \in Seq(ConfigVersion)
      /\ configEdits' \in 0 .. MaxConfigEdits
      /\ UNCHANGED <<store, watch, cache, seen, queue, pc, req, conf,
                     toCreate, toUpdate, toDelete, faults>>
  BY ConfigAssumption DEF NewVersion, TypeOK
<1>2. /\ Append(feed[c], v) \in Seq(ConfigVersion)
      /\ \A i \in DOMAIN Append(feed[c], v) : HasUid(Append(feed[c], v)[i])
  <2>1. PICK f \in Seq(ConfigVersion) : f = feed[c]
    BY <1>1
  <2>2. \A i \in DOMAIN f : HasUid(f[i])
    BY <2>1 DEF ConfigInv
  <2>3. /\ Append(f, v) \in Seq(ConfigVersion)
        /\ \A i \in DOMAIN Append(f, v) :
             (i \in DOMAIN f /\ Append(f, v)[i] = f[i]) \/ Append(f, v)[i] = v
    OBVIOUS
  <2> QED
    BY <2>1, <2>2, <2>3
<1>3. TypeOK'
  BY <1>1, <1>2 DEF TypeOK, ApiTypeOK
<1>4. ASSUME NEW d \in Configs
      PROVE  HasUid(config'[d]) /\ \A i \in DOMAIN feed'[d] : HasUid(feed'[d][i])
  BY <1>1, <1>2 DEF ConfigInv, TypeOK
<1>5. ConfigInv'
  BY <1>1, <1>4 DEF ConfigInv, HasUid
<1> QED
  BY <1>3, <1>5

(* Their new versions are versions.                                        *)
LEMMA UsersType ==
  ASSUME TypeOK, ConfigInv, Users
  PROVE  TypeOK' /\ ConfigInv'
<1>1. ASSUME NEW c \in Configs, ConfigDelete(c)
      PROVE  TypeOK' /\ ConfigInv'
  BY <1>1, NoVersionType, NewVersionType DEF ConfigDelete
<1>2. ASSUME NEW c \in Configs, NEW d \in Desired, ConfigCreate(c, d)
      PROVE  TypeOK' /\ ConfigInv'
  <2> DEFINE v == [present |-> TRUE, uid |-> configEdits + 1, desired |-> d]
  <2>1. NewVersion(c, v) /\ configEdits < MaxConfigEdits
    BY <1>2 DEF ConfigCreate, NewVersion
  <2>2. v \in ConfigVersion /\ HasUid(v)
    BY <2>1, ConfigAssumption DEF ConfigVersion, HasUid, TypeOK
  <2> HIDE DEF v
  <2> QED
    BY <2>1, <2>2, NewVersionType
<1>3. ASSUME NEW c \in Configs, NEW d \in Desired, ConfigEdit(c, d)
      PROVE  TypeOK' /\ ConfigInv'
  <2> DEFINE v == [config[c] EXCEPT !.desired = d]
  <2>1. NewVersion(c, v) /\ config[c].present /\ config[c] \in ConfigVersion
    BY <1>3 DEF ConfigEdit, TypeOK
  <2>2. v \in ConfigVersion /\ HasUid(v)
    BY <2>1 DEF ConfigVersion, HasUid, ConfigInv
  <2> HIDE DEF v
  <2> QED
    BY <2>1, <2>2, NewVersionType
<1> QED
  BY <1>1, <1>2, <1>3 DEF Users

(* The publication reconciler and the garbage collector write objects.     *)
LEMMA OthersWrite ==
  ASSUME TypeOK, NEW r \in Resources, Guard(r) \/ Unguard(r) \/ Collect(r)
  PROVE  UNCHANGED others /\ \E o \in Object : Put(o)
<1>1. OperatorFinalizer \in Finalizers
  BY DEF Finalizers
<1>2. CASE Guard(r) \/ Unguard(r)
  BY <1>1, <1>2, OthersObjects DEF Guard, Unguard, TypeOK
<1>3. CASE Collect(r)
  BY <1>3, DeleteType DEF Collect, TypeOK
<1> QED
  BY <1>2, <1>3

(* So they keep the types.                                                 *)
LEMMA OthersType ==
  ASSUME TypeOK, ConfigInv, NEW r \in Resources, Guard(r) \/ Unguard(r) \/ Collect(r)
  PROVE  TypeOK' /\ ConfigInv'
<1>1. ApiTypeOK' /\ UNCHANGED others
  BY OthersWrite, PutType DEF TypeOK
<1> QED
  BY <1>1 DEF others, TypeOK, ConfigInv, HasUid

(* Every step keeps the types.                                             *)
LEMMA NextType ==
  ASSUME TypeOK, ConfigInv, [Next]_vars
  PROVE  TypeOK' /\ ConfigInv'
<1>1. CASE List \/ Finish \/ CallFails \/ Crash \/ Users
  BY <1>1, ListType, EndType, UsersType
<1>2. ASSUME NEW s \in toCreate, CreateChild(s)
      PROVE  TypeOK' /\ ConfigInv'
  BY <1>2, CreateChildType
<1>3. ASSUME NEW o \in toUpdate, UpdateChild(o)
      PROVE  TypeOK' /\ ConfigInv'
  BY <1>3, UpdateChildType
<1>4. ASSUME NEW o \in toDelete, DeleteChild(o)
      PROVE  TypeOK' /\ ConfigInv'
  BY <1>4, DeleteChildType
<1>5. CASE Informers
  BY <1>5, ChildEventType, ConfigEventType DEF Informers
<1>6. ASSUME NEW c \in Configs, Begin(c)
      PROVE  TypeOK' /\ ConfigInv'
  BY <1>6, BeginType
<1>7. ASSUME NEW c \in Configs, Resync(c)
      PROVE  TypeOK' /\ ConfigInv'
  BY <1>7 DEF Resync, TypeOK, ApiTypeOK, ConfigInv, HasUid
<1>8. ASSUME NEW r \in Resources, Guard(r) \/ Unguard(r) \/ Collect(r)
      PROVE  TypeOK' /\ ConfigInv'
  BY <1>8, OthersType
<1>9. CASE UNCHANGED vars
  BY <1>9 DEF vars, TypeOK, ApiTypeOK, ConfigInv, HasUid
<1> QED
  BY <1>1, <1>2, <1>3, <1>4, <1>5, <1>6, <1>7, <1>8, <1>9 DEF Next, Worker

(* Type correctness of the config reconciler and its environment.  The     *)
(* types alone are not inductive: an owner reference needs the UID of a    *)
(* config that is there.                                                   *)
THEOREM ConfigTypes == Spec => []TypeOK
<1>1. Init => TypeOK /\ ConfigInv
  BY InitType
<1>2. TypeOK /\ ConfigInv /\ [Next]_vars => (TypeOK /\ ConfigInv)'
  BY NextType
<1> QED
  BY <1>1, <1>2, PTL DEF Spec

-----------------------------------------------------------------------------
(* What the worker has listed.                                             *)

(* What a step does to the objects and to the list of updates: the worker  *)
(* makes the list, or shortens it, or drops it.                            *)
LEMMA StepOnObjects ==
  ASSUME TypeOK, ConfigInv, [Next]_vars
  PROVE  /\ \/ UNCHANGED <<store, watch, cache>>
            \/ \E o \in Object : Put(o)
            \/ \E v \in watch : Deliver(v)
            \/ Relist /\ toUpdate' = {}
         /\ \/ toUpdate' = {}
            \/ UNCHANGED <<pc, req>> /\ toUpdate' \subseteq toUpdate
            \/ List
            \/ \E c \in Configs : Begin(c)
<1> DEFINE Objects == \/ UNCHANGED <<store, watch, cache>>
                      \/ \E o \in Object : Put(o)
                      \/ \E v \in watch : Deliver(v)
                      \/ Relist /\ toUpdate' = {}
           Listed == \/ toUpdate' = {}
                     \/ UNCHANGED <<pc, req>> /\ toUpdate' \subseteq toUpdate
                     \/ List
                     \/ \E c \in Configs : Begin(c)
<1>1. ASSUME NEW create, NEW update, NEW remove, update \subseteq toUpdate,
             Continue(create, update, remove)
      PROVE  Listed
  BY <1>1 DEF Continue, Fail, Stop
<1>2. CASE Refused
  BY <1>2 DEF Refused, Fail, Stop
<1>3. ASSUME NEW s \in toCreate, CreateChild(s)
      PROVE  Objects /\ Listed
  <2>1. pc = "apply"
    BY <1>3 DEF CreateChild
  <2>2. CASE Refused
    BY <1>2, <2>2
  <2>3. CASE /\ Put(NewObject(ResourceName[<<req, s.name>>], s,
                              [config |-> req, uid |-> conf.uid]))
             /\ Continue(toCreate \ {s}, toUpdate, toDelete)
    BY <1>1, <2>1, <2>3, ChildType
  <2> QED
    BY <1>3, <2>2, <2>3 DEF CreateChild, CreateObject
<1>4. ASSUME NEW o \in toUpdate, UpdateChild(o)
      PROVE  Objects /\ Listed
  <2>1. CASE Refused
    BY <1>2, <2>1
  <2>2. CASE /\ UNCHANGED <<store, watch, cache>> \/ Put(o)
             /\ Continue(toCreate, toUpdate \ {o}, toDelete)
    BY <1>1, <2>2 DEF TypeOK
  <2> QED
    BY <1>4, <2>1, <2>2 DEF UpdateChild
<1>5. ASSUME NEW o \in toDelete, DeleteChild(o)
      PROVE  Objects /\ Listed
  <2>1. o.name \in Resources /\ ApiTypeOK
    BY ObjectFields DEF TypeOK
  <2>2. CASE Refused
    BY <1>2, <2>2
  <2>3. CASE /\ UNCHANGED <<store, watch, cache>> \/ DeleteObject(o.name, {})
             /\ Continue(toCreate, toUpdate, toDelete \ {o})
    BY <1>1, <2>1, <2>3, DeleteType
  <2> QED
    BY <1>5, <2>2, <2>3 DEF DeleteChild
<1>6. CASE List \/ Finish \/ CallFails \/ Crash \/ UNCHANGED vars
  BY <1>6 DEF List, Finish, CallFails, Crash, Fail, Stop, vars
<1>7. CASE Users \/ Informers
  BY <1>7 DEF Users, ConfigDelete, ConfigCreate, ConfigEdit, NewVersion,
              Informers, ChildEvent, ConfigEvent
<1>8. ASSUME NEW c \in Configs, Begin(c) \/ Resync(c)
      PROVE  Objects /\ Listed
  BY <1>8 DEF Begin, Resync
<1>9. ASSUME NEW r \in Resources, Guard(r) \/ Unguard(r) \/ Collect(r)
      PROVE  Objects /\ Listed
  BY <1>9, OthersWrite DEF others
<1> QED
  BY <1>3, <1>4, <1>5, <1>6, <1>7, <1>8, <1>9 DEF Next, Worker

(* The informer has only versions of the objects.                          *)
LEMMA NextCopies ==
  ASSUME TypeOK, ConfigInv, CopiesInv, [Next]_vars
  PROVE  CopiesInv'
<1>1. CASE UNCHANGED <<store, watch, cache>>
  BY <1>1 DEF CopiesInv, Version
<1> QED
  BY <1>1, StepOnObjects, PutCopies, DeliverCopies, RelistCopies DEF TypeOK

(* A listed child is the config's, and a version of its object but for its *)
(* spec.                                                                   *)
Listed(o) ==
  /\ o.owner.config = req
  /\ o.rv <= store[o.name].rv
  /\ o.rv = store[o.name].rv => o = [store[o.name] EXCEPT !.spec = o.spec]

(* It stays one when an object is written.                                 *)
LEMMA PutListed ==
  ASSUME ApiTypeOK, NEW o \in Object, Listed(o), req' = req,
         NEW p \in Object, Put(p)
  PROVE  Listed(o)'
<1>1. o.name \in Resources /\ o.rv \in Nat /\ store[o.name].rv \in Nat
  BY ObjectFields DEF ApiTypeOK
<1>2. /\ store'[p.name].rv = store[p.name].rv + 1
      /\ \A r \in Resources \ {p.name} : store'[r] = store[r]
  BY PutType, WrittenType
<1>3. o.name = p.name => o.rv < store'[o.name].rv
  BY <1>1, <1>2 DEF Listed
<1> QED
  BY <1>1, <1>2, <1>3 DEF Listed

(* It stays one, whatever happens.                                         *)
LEMMA StaysListed ==
  ASSUME TypeOK, ConfigInv, [Next]_vars, NEW o \in Object, Listed(o), req' = req
  PROVE  Listed(o)'
<1>1. CASE store' = store
  BY <1>1 DEF Listed
<1>2. ASSUME NEW p \in Object, Put(p)
      PROVE  Listed(o)'
  BY <1>2, PutListed DEF TypeOK
<1> QED
  BY <1>1, <1>2, StepOnObjects DEF Deliver, Relist

(* The children are listed from the informer's copies.                     *)
LEMMA ListsVersions ==
  ASSUME TypeOK, CopiesInv, List, NEW o \in toUpdate'
  PROVE  Listed(o)'
<1>1. PICK current \in ByName(Children(req)) :
        LET wanted(p) == {s \in conf.desired : s.name = p.spec.name}
        IN toUpdate' = UNION {{WithSpec(p, s) : s \in wanted(p)} : p \in current}
  BY DEF List
<1>2. PICK p \in current : \E s : o = WithSpec(p, s)
  BY <1>1
<1>3. p \in Children(req)
  BY <1>1, <1>2 DEF ByName
<1>4. PICK q \in Resources : p = cache[q] /\ p.owner.config = req
  BY <1>3 DEF Children
<1>5. PICK s : o = WithSpec(p, s)
  BY <1>2
<1>6. p \in Object /\ Version(p)
  BY <1>4 DEF CopiesInv, TypeOK, ApiTypeOK
<1>7. /\ o.name = p.name /\ o.rv = p.rv /\ o.owner = p.owner /\ o.spec = s
      /\ o = [p EXCEPT !.spec = o.spec]
  BY <1>5, <1>6 DEF WithSpec, Object
<1>8. store' = store /\ req' = req
  BY DEF List
<1> QED
  BY <1>4, <1>6, <1>7, <1>8 DEF Version, Listed

(* Every step keeps the invariant.                                         *)
LEMMA NextInv ==
  ASSUME TypeOK, Inv, [Next]_vars
  PROVE  Inv'
<1>1. CopiesInv' /\ ConfigInv' /\ TypeOK'
  BY NextType, NextCopies DEF Inv
<1>2. CASE toUpdate' = {}
  BY <1>1, <1>2 DEF Inv, ListedInv
<1>3. CASE UNCHANGED <<pc, req>> /\ toUpdate' \subseteq toUpdate
  <2>1. \A o \in toUpdate' : o \in Object /\ Listed(o)
    BY <1>3 DEF Inv, ListedInv, Listed, TypeOK
  <2>2. \A o \in toUpdate' : Listed(o)'
    BY <1>3, <2>1, StaysListed DEF Inv
  <2> QED
    BY <1>1, <1>3, <2>2 DEF Inv, ListedInv, Listed
<1>4. CASE List
  <2>1. \A o \in toUpdate' : Listed(o)'
    BY <1>4, ListsVersions DEF Inv
  <2>2. pc' = "apply"
    BY <1>4 DEF List
  <2> QED
    BY <1>1, <2>1, <2>2 DEF Inv, ListedInv, Listed
<1>5. ASSUME NEW c \in Configs, Begin(c)
      PROVE  Inv'
  <2>1. toUpdate = {} /\ toUpdate' = toUpdate
    BY <1>5 DEF Begin, Inv, ListedInv
  <2> QED
    BY <1>2, <2>1
<1> QED
  BY <1>2, <1>3, <1>4, <1>5, StepOnObjects DEF Inv

(* The informer and the list the worker made from it have only versions    *)
(* the objects have had.                                                   *)
THEOREM ConfigInvariance == Spec => [](TypeOK /\ Inv)
<1>1. Init => TypeOK /\ Inv
  BY InitType, InitCopies DEF Init, Inv, ListedInv
<1>2. TypeOK /\ Inv /\ [Next]_vars => (TypeOK /\ Inv)'
  BY NextType, NextInv DEF Inv
<1> QED
  BY <1>1, <1>2, PTL DEF Spec

-----------------------------------------------------------------------------
(* The worker's writes.                                                    *)

(* A step of the worker overwrites a spec only in its own child, and       *)
(* nothing else of the object.                                             *)
LEMMA StepUpdatesOwn ==
  ASSUME TypeOK, Inv, [Next]_vars, NEW r \in Resources,
         <<pc, workVars>>' # <<pc, workVars>>,
         store[r].present, store'[r].present,
         store'[r].spec # store[r].spec
  PROVE  /\ store[r].owner.config = req
         /\ store'[r].owner = store[r].owner
         /\ store'[r].finalizers = store[r].finalizers
         /\ store'[r].deleting = store[r].deleting
<1>1. ASSUME NEW s \in toCreate, CreateChild(s)
      PROVE  FALSE
  <2> DEFINE q == ResourceName[<<req, s.name>>]
             o == NewObject(q, s, [config |-> req, uid |-> conf.uid])
  <2>1. q \in Resources /\ o \in Object /\ o.name = q
    BY <1>1, ChildType DEF CreateChild, Inv, NewObject
  <2>2. UNCHANGED store \/ (~store[q].present /\ Put(o))
    BY <1>1 DEF CreateChild, CreateObject, Refused
  <2> HIDE DEF q, o
  <2>3. UNCHANGED store \/ (~store[q].present /\ \A p \in Resources \ {q} : store'[p] = store[p])
    BY <2>1, <2>2, PutType DEF TypeOK
  <2> QED
    BY <2>3
<1>2. ASSUME NEW o \in toDelete, DeleteChild(o)
      PROVE  FALSE
  <2>1. o.name \in Resources
    BY ObjectFields DEF TypeOK
  <2> DEFINE p == [store[o.name] EXCEPT !.deleting = TRUE, !.finalizers = @ \cup {}]
  <2>2. UNCHANGED store \/ (p \in Object /\ Put(p))
    BY <1>2, <2>1, DeleteType DEF DeleteChild, Refused, TypeOK
  <2>3. p.name = store[o.name].name /\ p.spec = store[o.name].spec
    BY <2>1 DEF TypeOK, ApiTypeOK, Object
  <2>4. store[o.name].name = o.name
    BY <2>1 DEF Inv, CopiesInv
  <2> HIDE DEF p
  <2>5. CASE p \in Object /\ Put(p)
    <3>1. /\ store'[o.name] = Written(p)
          /\ \A q \in Resources \ {o.name} : store'[q] = store[q]
          /\ Written(p).present => Written(p).spec = p.spec
      BY <2>3, <2>4, <2>5, PutType, WrittenType DEF TypeOK
    <3> QED
      BY <2>3, <3>1
  <2> QED
    BY <2>2, <2>5
<1>3. ASSUME NEW o \in toUpdate, UpdateChild(o)
      PROVE  /\ store[r].owner.config = req
             /\ store'[r].owner = store[r].owner
             /\ store'[r].finalizers = store[r].finalizers
             /\ store'[r].deleting = store[r].deleting
  <2>1. o \in Object /\ o.name \in Resources
    BY ObjectFields DEF TypeOK
  <2>2. UNCHANGED store \/ (UpdateAccepted(o) /\ Put(o))
    BY <1>3 DEF UpdateChild, Refused
  <2>3. CASE UpdateAccepted(o) /\ Put(o)
    <3>1. /\ store'[o.name] = Written(o)
          /\ \A q \in Resources \ {o.name} : store'[q] = store[q]
      BY <2>1, <2>3, PutType DEF TypeOK
    <3>2. r = o.name
      BY <3>1
    <3>3. o = [store[o.name] EXCEPT !.spec = o.spec] /\ o.owner.config = req
      BY <2>1, <2>3 DEF UpdateAccepted, Inv, ListedInv
    <3>4. store[o.name] \in Object
      BY <2>1 DEF TypeOK, ApiTypeOK
    <3>5. /\ o.owner = store[o.name].owner /\ o.finalizers = store[o.name].finalizers
          /\ o.deleting = store[o.name].deleting
      BY <3>3, <3>4 DEF Object
    <3>6. /\ Written(o).owner = o.owner /\ Written(o).finalizers = o.finalizers
          /\ Written(o).deleting = o.deleting
      BY <2>1, <3>1, <3>2, WrittenType DEF TypeOK
    <3> QED
      BY <3>1, <3>2, <3>3, <3>5, <3>6
  <2> QED
    BY <2>2, <2>3
<1>4. \/ \E s \in toCreate : CreateChild(s)
      \/ \E o \in toDelete : DeleteChild(o)
      \/ \E o \in toUpdate : UpdateChild(o)
  <2>1. CASE List \/ Finish \/ CallFails \/ Crash
    BY <2>1 DEF List, Finish, CallFails, Crash, Relist
  <2>2. CASE Users \/ Informers \/ UNCHANGED vars
    BY <2>2 DEF Users, ConfigDelete, ConfigCreate, ConfigEdit, NewVersion,
                Informers, ChildEvent, ConfigEvent, workVars, vars
  <2>3. ASSUME NEW c \in Configs, Begin(c) \/ Resync(c)
        PROVE  FALSE
    BY <2>3 DEF Begin, Resync, workVars
  <2>4. ASSUME NEW q \in Resources, Guard(q) \/ Unguard(q) \/ Collect(q)
        PROVE  FALSE
    BY <2>4, OthersWrite DEF others, workVars
  <2> QED
    BY <2>1, <2>2, <2>3, <2>4 DEF Next, Worker
<1> QED
  BY <1>1, <1>2, <1>3, <1>4

(* Whatever the age of what it lists, the worker overwrites specs of its   *)
(* config's own children only, and never a finalizer, a deletion mark or a *)
(* reference.                                                              *)
THEOREM UpdatesOwn == Spec => UpdatesOwnChildrenOnly
<1>1. TypeOK /\ Inv /\ [Next]_vars =>
        [\A r \in Resources :
           /\ <<pc, workVars>>' # <<pc, workVars>>
           /\ store[r].present /\ store'[r].present
           /\ store'[r].spec # store[r].spec
           => /\ store[r].owner.config = req
              /\ store'[r].owner = store[r].owner
              /\ store'[r].finalizers = store[r].finalizers
              /\ store'[r].deleting = store[r].deleting]_vars
  BY StepUpdatesOwn
<1> QED
  BY <1>1, ConfigInvariance, PTL DEF Spec, UpdatesOwnChildrenOnly

-----------------------------------------------------------------------------
(* Steps that are not those of this reconciler: others write an object, or *)
(* have nothing to do with the objects, and configs and worker stay.       *)
Elsewhere ==
  /\ UNCHANGED <<store, watch, cache>> \/ \E o \in Object : Put(o)
  /\ UNCHANGED <<config, feed, seen, queue, pc, req, conf,
                 toCreate, toUpdate, toDelete, configEdits>>

(* They keep the types, and the configs' UIDs.                             *)
LEMMA ElsewhereType ==
  ASSUME TypeOK, ConfigInv, Elsewhere, faults' \in 0 .. MaxFaults
  PROVE  TypeOK' /\ ConfigInv'
<1>1. ApiTypeOK'
  BY PutType DEF Elsewhere, TypeOK, ApiTypeOK
<1> QED
  BY <1>1 DEF Elsewhere, TypeOK, ConfigInv, HasUid

(* What the worker has listed stays the config's, and versions.            *)
LEMMA ElsewhereListed ==
  ASSUME TypeOK, ListedInv, Elsewhere
  PROVE  ListedInv'
<1>1. ASSUME NEW o \in toUpdate
      PROVE  Listed(o)'
  <2>1. o \in Object /\ Listed(o) /\ req' = req
    BY DEF TypeOK, ListedInv, Listed, Elsewhere
  <2>2. CASE UNCHANGED store
    BY <2>1, <2>2 DEF Listed
  <2>3. CASE \E p \in Object : Put(p)
    BY <2>1, <2>3, PutListed DEF TypeOK
  <2> QED
    BY <2>2, <2>3 DEF Elsewhere
<1> QED
  BY <1>1 DEF Elsewhere, ListedInv, Listed

-----------------------------------------------------------------------------
(* What the worker does to the objects is nothing that a user could not    *)
(* do: it creates them, edits their specs and deletes them.                *)
LEMMA WorkerOnObjects ==
  ASSUME TypeOK, Inv, Worker \/ CallFails
  PROVE  \/ UNCHANGED <<store, watch, cache>>
         \/ \E r \in Resources : \E s \in SpecsOf[r] : \E w \in Owners :
              CreateObject(r, s, w)
         \/ \E o \in toUpdate : EditObject(o.name, o.spec)
         \/ \E r \in Resources : DeleteObject(r, {})
<1>1. CASE List \/ Finish \/ CallFails
  BY <1>1 DEF List, Finish, CallFails
<1>2. ASSUME NEW s \in toCreate, CreateChild(s)
      PROVE  \/ UNCHANGED <<store, watch, cache>>
             \/ \E r \in Resources : \E t \in SpecsOf[r] : \E w \in Owners :
                  CreateObject(r, t, w)
  <2>1. pc = "apply"
    BY <1>2 DEF CreateChild
  <2>2. PICK r \in Resources : r = ResourceName[<<req, s.name>>] /\ s \in SpecsOf[r]
    BY <2>1, ChildSpec DEF Inv
  <2>3. PICK w \in Owners : w = [config |-> req, uid |-> conf.uid]
    BY <2>1, ChildSpec DEF Inv
  <2>4. UNCHANGED <<store, watch, cache>> \/ CreateObject(r, s, w)
    BY <1>2, <2>2, <2>3 DEF CreateChild, Refused
  <2> QED
    BY <2>2, <2>4
<1>3. ASSUME NEW o \in toUpdate, UpdateChild(o)
      PROVE  UNCHANGED <<store, watch, cache>> \/ EditObject(o.name, o.spec)
  <2>1. CASE UpdateAccepted(o) /\ Put(o)
    <3>1. o = [store[o.name] EXCEPT !.spec = o.spec] /\ store[o.name].present
      BY <2>1 DEF UpdateAccepted, Inv, ListedInv
    <3>2. \A p : p = o => Put(p)
      BY <2>1
    <3> QED
      BY <3>1, <3>2 DEF EditObject
  <2> QED
    BY <1>3, <2>1 DEF UpdateChild, Refused
<1>4. ASSUME NEW o \in toDelete, DeleteChild(o)
      PROVE  \/ UNCHANGED <<store, watch, cache>>
             \/ o.name \in Resources /\ DeleteObject(o.name, {})
  BY <1>4, ObjectFields DEF DeleteChild, Refused, TypeOK
<1> QED
  BY <1>1, <1>2, <1>3, <1>4 DEF Worker

=============================================================================

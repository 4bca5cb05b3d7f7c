------------------------ MODULE SqlReconcilerProofs ------------------------
(***************************************************************************)
(* What the shared actions of the table and the grant reconciler do to the *)
(* variables they share: their types stay right, no copy of an object gets *)
(* a spec from nowhere, and where the worker goes next.                    *)
(***************************************************************************)
EXTENDS SqlReconciler, ApiServerProofs

(* The worker without a request has a value of its type, which is no       *)
(* object.                                                                 *)
LEMMA NoRequestType == NoRequest \in Object /\ ~NoRequest.present
BY AnyType, TombstoneType DEF NoRequest

(* The initial values have their types, and there are no objects.          *)
LEMMA ReconcilerInitType ==
  ASSUME ReconcilerInit, NEW S
  PROVE  ReconcilerTypeOK /\ CopiesWithin(S)
<1>1. ReconcilerTypeOK
  BY ApiInitType, NoRequestType, ReconcilerAssumption DEF ReconcilerInit, ReconcilerTypeOK
<1>2. /\ \A r \in Resources : store[r] = Tombstone(r, 0)
      /\ cache = store /\ watch = {}
  BY DEF ReconcilerInit, ApiInit
<1>3. ASSUME NEW r \in Resources
      PROVE  ~store[r].present
  <2>1. store[r] = Tombstone(r, 0)
    BY <1>2
  <2> QED
    BY <2>1, TombstoneType
<1> QED
  BY <1>1, <1>2, <1>3, NoRequestType DEF ReconcilerInit, CopiesWithin

(* A step that leaves the objects alone, and with which the worker keeps   *)
(* or gives up its copy.                                                   *)
LEMMA StepWithCopy ==
  ASSUME ReconcilerTypeOK, UNCHANGED <<store, watch, cache>>,
         \/ obj' = obj /\ (pc' = pc \/ pc # "idle")
         \/ obj' = NoRequest /\ pc' = "idle",
         NEW S, CopiesWithin(S)
  PROVE  /\ ApiTypeOK' /\ obj' \in Object
         /\ CopiesWithin(S)'
BY NoRequestType DEF ReconcilerTypeOK, ApiTypeOK, CopiesWithin

(* Giving a request back keeps the queue a queue of names.                 *)
LEMMA RequeueType ==
  ASSUME ReconcilerTypeOK, Requeue
  PROVE  queue' \subseteq Resources
BY ObjectFields DEF Requeue, ReconcilerTypeOK

(* One more fault, below the bound.                                        *)
LEMMA FaultType ==
  ASSUME ReconcilerTypeOK, faults < MaxFaults, faults' = faults + 1
  PROVE  faults' \in 0 .. MaxFaults
BY ReconcilerAssumption DEF ReconcilerTypeOK

(* An answer or its loss.                                                  *)
LEMMA ReplyStep ==
  ASSUME ReconcilerTypeOK, NEW next, Reply(next), pc # "idle",
         UNCHANGED <<store, watch, cache, access, edits>>,
         NEW S, CopiesWithin(S)
  PROVE  /\ ReconcilerTypeOK' /\ CopiesWithin(S)'
         /\ \/ pc' = next /\ obj' = obj
            \/ pc' = "idle"
<1>1. CASE pc' = next /\ UNCHANGED <<obj, queue, faults>>
  <2>1. ApiTypeOK' /\ obj' \in Object /\ CopiesWithin(S)'
    BY <1>1, StepWithCopy
  <2> QED
    BY <1>1, <2>1 DEF ReconcilerTypeOK
<1>2. CASE faults < MaxFaults /\ faults' = faults + 1 /\ Requeue
  BY <1>2, StepWithCopy, RequeueType, FaultType DEF ReconcilerTypeOK, Requeue
<1> QED
  BY <1>1, <1>2 DEF Reply

(* A refused statement.                                                    *)
LEMMA RejectedStep ==
  ASSUME ReconcilerTypeOK, Rejected,
         UNCHANGED <<store, watch, cache, access, edits>>,
         NEW S, CopiesWithin(S)
  PROVE  ReconcilerTypeOK' /\ CopiesWithin(S)' /\ pc' = "idle"
BY StepWithCopy, RequeueType DEF ReconcilerTypeOK, Rejected, Requeue

(* A new process.                                                          *)
LEMMA RestartStep ==
  ASSUME ReconcilerTypeOK, Restart, faults' \in 0 .. MaxFaults,
         NEW S, CopiesWithin(S)
  PROVE  ReconcilerTypeOK' /\ CopiesWithin(S)' /\ pc' = "idle"
<1>1. ApiTypeOK'
  BY RelistType DEF Restart, ReconcilerTypeOK
<1> QED
  BY <1>1, NoRequestType DEF Restart, Relist, ReconcilerTypeOK, CopiesWithin

(* The worker takes a request and the copy the cache has, or panics.       *)
LEMMA BeginStep ==
  ASSUME ReconcilerTypeOK, NEW r \in Resources, Begin(r),
         NEW S, CopiesWithin(S)
  PROVE  /\ ReconcilerTypeOK' /\ CopiesWithin(S)'
         /\ pc = "idle" /\ pc' \in {"idle", "connect"}
<1>1. pc = "idle" /\ faults' \in 0 .. MaxFaults
  BY DEF Begin, ReconcilerTypeOK
<1>2. CASE ~HasLog
  BY <1>1, <1>2, RestartStep DEF Begin
<1>3. CASE HasLog /\ cache[r].present
  BY <1>1, <1>3 DEF Begin, ReconcilerTypeOK, ApiTypeOK, CopiesWithin
<1>4. CASE HasLog /\ ~cache[r].present
  BY <1>1, <1>4 DEF Begin, ReconcilerTypeOK, ApiTypeOK, CopiesWithin
<1> QED
  BY <1>2, <1>3, <1>4

(* The connection is made or not.                                          *)
LEMMA ConnectStep ==
  ASSUME ReconcilerTypeOK, NEW next, Connect(next),
         NEW S, CopiesWithin(S)
  PROVE  /\ ReconcilerTypeOK' /\ CopiesWithin(S)'
         /\ pc = "connect"
         /\ \/ access /\ pc' = next /\ obj' = obj
            \/ ~access /\ pc' = "idle"
<1>1. CASE access
  <2>1. /\ pc = "connect" /\ pc' = next
        /\ UNCHANGED <<obj, queue, store, watch, cache, access, edits, faults>>
    BY <1>1 DEF Connect
  <2>2. ApiTypeOK' /\ obj' \in Object /\ CopiesWithin(S)'
    BY <2>1, StepWithCopy
  <2> QED
    BY <1>1, <2>1, <2>2 DEF ReconcilerTypeOK
<1>2. CASE ~access
  BY <1>2, StepWithCopy, RequeueType DEF Connect, Requeue, ReconcilerTypeOK
<1> QED
  BY <1>1, <1>2

(* A reconciliation ends well.                                             *)
LEMMA SucceedStep ==
  ASSUME ReconcilerTypeOK, Succeed, NEW S, CopiesWithin(S)
  PROVE  /\ ReconcilerTypeOK' /\ CopiesWithin(S)'
         /\ pc = "succeeded" /\ pc' = "idle"
BY StepWithCopy DEF Succeed, Done, ReconcilerTypeOK

(* A statement fails, or the process ends.                                 *)
LEMMA FailureStep ==
  ASSUME ReconcilerTypeOK, CallFails \/ Crash, NEW S, CopiesWithin(S)
  PROVE  ReconcilerTypeOK' /\ CopiesWithin(S)' /\ pc' = "idle"
<1>1. CASE CallFails
  BY <1>1, StepWithCopy, RequeueType, FaultType DEF CallFails, Requeue, ReconcilerTypeOK
<1>2. CASE Crash
  BY <1>2, RestartStep, FaultType DEF Crash
<1> QED
  BY <1>1, <1>2

(* A write of a user changes one object, to the spec that was given.       *)
LEMMA WriteStep ==
  ASSUME ReconcilerTypeOK, NEW o \in Object, Put(o), UserWrite,
         NEW S, CopiesWithin(S), o.present => o.spec \in S
  PROVE  /\ ReconcilerTypeOK' /\ CopiesWithin(S)'
         /\ UNCHANGED <<pc, obj>>
<1>1. ApiTypeOK
  BY DEF ReconcilerTypeOK
<1>2. /\ ApiTypeOK' /\ store'[o.name] = Written(o)
      /\ \A r \in Resources \ {o.name} : store'[r] = store[r]
  BY <1>1, PutType
<1>3. PICK W : W = Written(o)
  OBVIOUS
<1>4. W.present => W.spec \in S
  BY <1>1, <1>3, WrittenType
<1>5. /\ watch' = watch \cup {W} /\ cache' = cache /\ store'[o.name] = W
  BY <1>2, <1>3 DEF Put
<1>6. CopiesWithin(S)'
  BY <1>2, <1>4, <1>5 DEF CopiesWithin, UserWrite
<1> QED
  BY <1>2, <1>6, ReconcilerAssumption DEF UserWrite, ReconcilerTypeOK

(* Users give objects the specs they are allowed to give.                  *)
LEMMA UserStep ==
  ASSUME ReconcilerTypeOK, NEW r \in Resources, NEW s \in SpecsOf[r],
         UserCreate(r, s) \/ UserEdit(r, s),
         NEW S, CopiesWithin(S), s \in S
  PROVE  /\ ReconcilerTypeOK' /\ CopiesWithin(S)'
         /\ UNCHANGED <<pc, obj>>
<1>1. ApiTypeOK /\ store[r] \in Object
  BY DEF ReconcilerTypeOK, ApiTypeOK
<1>2. CASE UserCreate(r, s)
  <2>1. NewObject(r, s, AnyOwner) \in Object /\ NewObject(r, s, AnyOwner).spec = s
    BY <1>1, AnyType, OthersObjects DEF NewObject
  <2> QED
    BY <1>2, <2>1, WriteStep DEF UserCreate, CreateObject
<1>3. CASE UserEdit(r, s)
  <2>1. [store[r] EXCEPT !.spec = s] \in Object /\ [store[r] EXCEPT !.spec = s].spec = s
    BY <1>1, OthersObjects DEF Object
  <2> QED
    BY <1>3, <2>1, WriteStep DEF UserEdit, EditObject
<1> QED
  BY <1>2, <1>3

(* Deletions, deliveries, resyncs and changes of the Secret.               *)
LEMMA AroundStep ==
  ASSUME ReconcilerTypeOK, Around, NEW S, CopiesWithin(S)
  PROVE  /\ ReconcilerTypeOK' /\ CopiesWithin(S)'
         /\ UNCHANGED <<pc, obj>>
<1>1. ApiTypeOK
  BY DEF ReconcilerTypeOK
<1>2. CASE LoseAccess
  <2>1. faults' \in 0 .. MaxFaults
    BY <1>2, FaultType DEF LoseAccess
  <2> QED
    BY <1>2, <2>1 DEF LoseAccess, ReconcilerTypeOK, ApiTypeOK, CopiesWithin
<1>3. CASE RegainAccess
  BY <1>3 DEF RegainAccess, ReconcilerTypeOK, ApiTypeOK, CopiesWithin
<1>4. ASSUME NEW o \in watch, Event(o)
      PROVE  ReconcilerTypeOK' /\ CopiesWithin(S)' /\ UNCHANGED <<pc, obj>>
  <2>1. ApiTypeOK' /\ o \in Object /\ o.name \in Resources
    BY <1>1, <1>4, DeliverType, ObjectFields DEF Event
  <2>2. \A r \in Resources : cache'[r] = cache[r] \/ cache'[r] = o
    BY <1>1, <1>4 DEF Event, Deliver, ApiTypeOK
  <2> QED
    BY <1>4, <2>1, <2>2 DEF Event, Deliver, ReconcilerTypeOK, CopiesWithin
<1>5. ASSUME NEW r \in Resources, Resync(r)
      PROVE  ReconcilerTypeOK' /\ CopiesWithin(S)' /\ UNCHANGED <<pc, obj>>
  BY <1>5 DEF Resync, ReconcilerTypeOK, ApiTypeOK, CopiesWithin
<1>6. ASSUME NEW r \in Resources, UserDelete(r)
      PROVE  ReconcilerTypeOK' /\ CopiesWithin(S)' /\ UNCHANGED <<pc, obj>>
  <2> DEFINE o == [store[r] EXCEPT !.deleting = TRUE, !.finalizers = @ \cup {}]
  <2>1. o \in Object /\ Put(o) /\ UserWrite
    BY <1>1, <1>6, OthersObjects DEF UserDelete, DeleteObject
  <2>2. o.present => o.spec \in S
    BY <1>1 DEF ApiTypeOK, Object, CopiesWithin
  <2> HIDE DEF o
  <2> QED
    BY <2>1, <2>2, WriteStep
<1> QED
  BY <1>2, <1>3, <1>4, <1>5, <1>6 DEF Around, Informer

=============================================================================

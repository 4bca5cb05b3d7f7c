----------------------- MODULE PublicationController -----------------------
(***************************************************************************)
(* controllers/postgrespublication_controller.go: the reconciler of        *)
(* PostgresPublication objects, one call at a time, over the API server    *)
(* (ApiServer) and PostgreSQL (PublicationManager).                        *)
(*                                                                         *)
(* The reconciler has one worker (MaxConcurrentReconciles is left at 1),   *)
(* here in one manager process; module Managers has two.  Between two of   *)
(* its calls the users, the garbage collector, the watch and database      *)
(* administrators run: that is what makes the order of its calls matter.   *)
(***************************************************************************)
EXTENDS ApiServer, PublicationManager

CONSTANTS
  PreExisting, \* publications that may exist before the operator runs
  ByHand,      \* publications an administrator may drop behind its back
  Volatile,    \* tables that others create and drop
  NoResource,  \* not the name of an object
  MaxEdits,    \* bound: writes of users
  MaxFaults    \* bound: lost calls and replies, crashes, drops by hand

ASSUME PublicationAssumption ==
  /\ \A r \in Resources : SpecsOf[r] \subseteq PublicationSpec
  /\ PreExisting \subseteq Publication
  /\ Volatile \subseteq Tables
  /\ \A pub \in PreExisting : pub.tables \cap Volatile = {}
  /\ ByHand \subseteq PublicationNames
  /\ NoResource \notin Resources
  /\ OperatorFinalizer \notin ForeignFinalizers
  /\ MaxEdits \in Nat
  /\ MaxFaults \in Nat

VARIABLES
  queue,     \* the work queue: requests not yet handed to the worker
  pc,        \* the next call of the worker
  obj,       \* the worker's copy of the object it reconciles
  pg,        \* PostgreSQL: the publication of each name
  creator,   \* history: the object whose reconciliation created it
  relations, \* PostgreSQL: the tables there are
  access,    \* the Secret can be read and its credentials connect
  edits,     \* writes of users so far
  faults     \* faults so far

vars == <<store, watch, cache,
          queue, pc, obj, pg, creator, relations, access, edits, faults>>

Calls == {"addFinalizer", "create", "setTables", "setPublish",
          "drop", "removeFinalizer"}

NoRequest == Tombstone(AnyResource, 0)

Held(o) == OperatorFinalizer \in o.finalizers

Init ==
  /\ ApiInit
  /\ queue = {}
  /\ pc = "idle"
  /\ obj = NoRequest
  /\ pg \in [PublicationNames -> {NoPublication} \cup PreExisting]
  /\ creator = [p \in PublicationNames |-> NoResource]
  /\ relations = Tables \ Volatile
  /\ access = TRUE
  /\ edits = 0
  /\ faults = 0

-----------------------------------------------------------------------------
(* The ends of a reconciliation and of its calls.                          *)

(* Result{} and no error: the request is forgotten.                        *)
Done ==
  /\ pc' = "idle"
  /\ obj' = NoRequest
  /\ queue' = queue

(* Result{Requeue: true} or an error: the request is retried later.        *)
Requeue ==
  /\ pc' = "idle"
  /\ obj' = NoRequest
  /\ queue' = queue \cup {obj.name}

(* A call has had its effect, and its reply o leads to the step next; or   *)
(* the reply is lost, which the caller cannot tell from a failed call.     *)
Reply(o, next) ==
  \/ /\ pc' = next
     /\ obj' = o
     /\ UNCHANGED <<queue, faults>>
  \/ /\ faults < MaxFaults
     /\ faults' = faults + 1
     /\ Requeue

Rejected == Requeue /\ UNCHANGED faults

-----------------------------------------------------------------------------
(* The steps of Reconcile.                                                 *)

(* r.Get, from the informer cache; IgnoreNotFound drops the request.       *)
Begin(r) ==
  /\ pc = "idle"
  /\ r \in queue
  /\ queue' = queue \ {r}
  /\ IF cache[r].present
       THEN pc' = "connect" /\ obj' = cache[r]
       ELSE UNCHANGED <<pc, obj>>
  /\ UNCHANGED <<store, watch, cache,
                 pg, creator, relations, access, edits, faults>>

(* Mutant: the finalizer is given up before the publication is dropped.    *)
AfterConnect_ReleasesFirst(o) ==
  IF o.deleting THEN (IF Held(o) THEN "removeFinalizer" ELSE "stop")
                ELSE (IF Held(o) THEN "create" ELSE "addFinalizer")

(* Mutant: deleted objects are left alone.                                 *)
AfterConnect_IgnoresDeletion(o) ==
  IF o.deleting THEN "stop"
                ELSE (IF Held(o) THEN "create" ELSE "addFinalizer")

(* handleFinalizers branches on the worker's copy.                         *)
AfterConnect(o) ==
  IF o.deleting THEN (IF Held(o) THEN "drop" ELSE "stop")
                ELSE (IF Held(o) THEN "create" ELSE "addFinalizer")

(* Mutant: reconciliation goes on although handleFinalizers said to stop.  *)
Connect_NeverStops ==
  /\ pc = "connect"
  /\ IF ~access \/ ~KnownVariant(obj.spec)
       THEN Requeue
       ELSE pc' = AfterConnect(obj) /\ UNCHANGED <<obj, queue>>
  /\ UNCHANGED <<store, watch, cache,
                 pg, creator, relations, access, edits, faults>>

(* SetupPostgresConnection, then publicationManager.                       *)
Connect ==
  /\ pc = "connect"
  /\ IF ~access \/ ~KnownVariant(obj.spec)
       THEN Requeue
       ELSE IF AfterConnect(obj) = "stop"
         THEN Done
         ELSE pc' = AfterConnect(obj) /\ UNCHANGED <<obj, queue>>
  /\ UNCHANGED <<store, watch, cache,
                 pg, creator, relations, access, edits, faults>>

(* controllerutil.AddFinalizer and r.Update.                               *)
WithFinalizer(o) == [o EXCEPT !.finalizers = @ \cup {OperatorFinalizer}]

(* Mutant: a failed update is logged, and reconciliation goes on.          *)
AddFinalizer_IgnoresConflict ==
  /\ pc = "addFinalizer"
  /\ IF UpdateAccepted(obj)
       THEN /\ Put(WithFinalizer(obj))
            /\ Reply(Written(WithFinalizer(obj)), "create")
       ELSE /\ UNCHANGED <<store, watch, cache, faults, queue, obj>>
            /\ pc' = "create"
  /\ UNCHANGED <<pg, creator, relations, access, edits>>

(* Mutant: the update carries no resourceVersion.                          *)
AddFinalizer_Overwrites ==
  /\ pc = "addFinalizer"
  /\ IF store[obj.name].present
       THEN /\ Put(WithFinalizer(obj))
            /\ Reply(Written(WithFinalizer(obj)), "create")
       ELSE /\ UNCHANGED <<store, watch, cache>>
            /\ Rejected
  /\ UNCHANGED <<pg, creator, relations, access, edits>>

AddFinalizer ==
  /\ pc = "addFinalizer"
  /\ IF UpdateAccepted(obj)
       THEN /\ Put(WithFinalizer(obj))
            /\ Reply(Written(WithFinalizer(obj)), "create")
       ELSE /\ UNCHANGED <<store, watch, cache>>
            /\ Rejected
  /\ UNCHANGED <<pg, creator, relations, access, edits>>

(* PostgreSQL refuses to list tables that are not there.                   *)
Listable(s) == s.tables \subseteq relations

(* Mutant: a duplicate counts as created.                                  *)
Create_NeverAlters ==
  /\ pc = "create"
  /\ IF pg[obj.spec.name].exists
       THEN /\ UNCHANGED <<pg, creator>>
            /\ Reply(obj, "succeeded")
       ELSE IF Listable(obj.spec)
         THEN /\ pg' = [pg EXCEPT ![obj.spec.name] = CreatedPublication(obj.spec)]
              /\ creator' = [creator EXCEPT ![obj.spec.name] = obj.name]
              /\ Reply(obj, "succeeded")
         ELSE UNCHANGED <<pg, creator>> /\ Rejected
  /\ UNCHANGED <<store, watch, cache, relations, access, edits>>

(* manager.CreatePublication: a duplicate is altered instead.              *)
Create ==
  /\ pc = "create"
  /\ IF pg[obj.spec.name].exists
       THEN /\ UNCHANGED <<pg, creator>>
            /\ Reply(obj, "setTables")
       ELSE IF Listable(obj.spec)
         THEN /\ pg' = [pg EXCEPT ![obj.spec.name] = CreatedPublication(obj.spec)]
              /\ creator' = [creator EXCEPT ![obj.spec.name] = obj.name]
              /\ Reply(obj, "succeeded")
         ELSE UNCHANGED <<pg, creator>> /\ Rejected
  /\ UNCHANGED <<store, watch, cache, relations, access, edits>>

(* manager.AlterExistingPublication, its first statement.                  *)
SetTables ==
  /\ pc = "setTables"
  /\ IF SetTableAccepted(pg[obj.spec.name], obj.spec) /\ Listable(obj.spec)
       THEN /\ pg' = [pg EXCEPT ![obj.spec.name] = WithTables(@, obj.spec)]
            /\ Reply(obj, "setPublish")
       ELSE UNCHANGED pg /\ Rejected
  /\ UNCHANGED <<store, watch, cache, creator, relations, access, edits>>

(* manager.AlterExistingPublication, its second statement.                 *)
SetPublish ==
  /\ pc = "setPublish"
  /\ IF SetPublishAccepted(pg[obj.spec.name])
       THEN /\ pg' = [pg EXCEPT ![obj.spec.name] = WithOperations(@, obj.spec)]
            /\ Reply(obj, "succeeded")
       ELSE UNCHANGED pg /\ Rejected
  /\ UNCHANGED <<store, watch, cache, creator, relations, access, edits>>

(* The SuccessfulReconcile event, and the end.                             *)
Succeed ==
  /\ pc = "succeeded"
  /\ Done
  /\ UNCHANGED <<store, watch, cache,
                 pg, creator, relations, access, edits, faults>>

(* deleteExternalResources: DROP PUBLICATION fails if there is none.       *)
Drop ==
  /\ pc = "drop"
  /\ IF pg[obj.spec.name].exists
       THEN /\ pg' = [pg EXCEPT ![obj.spec.name] = NoPublication]
            /\ creator' = [creator EXCEPT ![obj.spec.name] = NoResource]
            /\ Reply(obj, "removeFinalizer")
       ELSE UNCHANGED <<pg, creator>> /\ Rejected
  /\ UNCHANGED <<store, watch, cache, relations, access, edits>>

(* controllerutil.RemoveFinalizer and r.Update; reconciliation stops.      *)
WithoutFinalizer(o) == [o EXCEPT !.finalizers = @ \ {OperatorFinalizer}]

RemoveFinalizer ==
  /\ pc = "removeFinalizer"
  /\ IF UpdateAccepted(obj)
       THEN /\ Put(WithoutFinalizer(obj))
            /\ Reply(NoRequest, "idle")
       ELSE /\ UNCHANGED <<store, watch, cache>>
            /\ Rejected
  /\ UNCHANGED <<pg, creator, relations, access, edits>>

Worker ==
  \/ Connect \/ AddFinalizer \/ Create \/ SetTables \/ SetPublish \/ Succeed
  \/ Drop \/ RemoveFinalizer

-----------------------------------------------------------------------------
(* Faults: a call that never arrives, the manager's death, lost access and *)
(* an administrator who drops a publication.                               *)

(* Mutant: a failed DROP is logged, and the finalizer removed.             *)
CallFails_DropErrorIgnored ==
  /\ pc \in Calls
  /\ faults < MaxFaults
  /\ faults' = faults + 1
  /\ IF pc = "drop"
       THEN pc' = "removeFinalizer" /\ UNCHANGED <<obj, queue>>
       ELSE Requeue
  /\ UNCHANGED <<store, watch, cache, pg, creator, relations, access, edits>>

CallFails ==
  /\ pc \in Calls
  /\ faults < MaxFaults
  /\ faults' = faults + 1
  /\ Requeue
  /\ UNCHANGED <<store, watch, cache, pg, creator, relations, access, edits>>

(* The next manager lists every object and reconciles it.                  *)
Crash ==
  /\ faults < MaxFaults
  /\ faults' = faults + 1
  /\ Relist
  /\ queue' = {r \in Resources : store[r].present}
  /\ pc' = "idle"
  /\ obj' = NoRequest
  /\ UNCHANGED <<pg, creator, relations, access, edits>>

LoseAccess ==
  /\ access
  /\ faults < MaxFaults
  /\ faults' = faults + 1
  /\ access' = FALSE
  /\ UNCHANGED <<store, watch, cache, queue, pc, obj, pg, creator, relations, edits>>

RegainAccess ==
  /\ ~access
  /\ access' = TRUE
  /\ UNCHANGED <<store, watch, cache,
                 queue, pc, obj, pg, creator, relations, edits, faults>>

DropByHand(p) ==
  /\ p \in ByHand
  /\ pg[p].exists
  /\ faults < MaxFaults
  /\ faults' = faults + 1
  /\ pg' = [pg EXCEPT ![p] = NoPublication]
  /\ creator' = [creator EXCEPT ![p] = NoResource]
  /\ UNCHANGED <<store, watch, cache, queue, pc, obj, relations, access, edits>>

(* CREATE TABLE by others, among them the table reconciler.                *)
TableAppears(t) ==
  /\ t \in Volatile \ relations
  /\ relations' = relations \cup {t}
  /\ UNCHANGED <<store, watch, cache,
                 queue, pc, obj, pg, creator, access, edits, faults>>

(* DROP TABLE takes the table off every list.                              *)
TableGoes(t) ==
  /\ t \in Volatile \cap relations
  /\ faults < MaxFaults
  /\ faults' = faults + 1
  /\ relations' = relations \ {t}
  /\ pg' = [p \in PublicationNames |-> WithoutTable(pg[p], t)]
  /\ UNCHANGED <<store, watch, cache, queue, pc, obj, creator, access, edits>>

-----------------------------------------------------------------------------
(* Users, the garbage collector, the informer.                             *)

UserWrite ==
  /\ edits < MaxEdits
  /\ edits' = edits + 1
  /\ UNCHANGED <<queue, pc, obj, pg, creator, relations, access, faults>>

UserCreate(r, s, w) == CreateObject(r, s, w) /\ UserWrite

(* An edit that keeps the spec stands for one of the metadata.             *)
UserEdit(r, s) == EditObject(r, s) /\ UserWrite

(* Background deletion adds no finalizer, foreground deletion its own.     *)
UserDelete(r, fs) == DeleteObject(r, fs) /\ UserWrite

Release(r, f) ==
  /\ ReleaseForeign(r, f)
  /\ UNCHANGED <<queue, pc, obj, pg, creator, relations, access, edits, faults>>

(* The informer's handler enqueues the object of every event.              *)
Event(o) ==
  /\ Deliver(o)
  /\ queue' = queue \cup {o.name}
  /\ UNCHANGED <<pc, obj, pg, creator, relations, access, edits, faults>>

(* The manager's SyncPeriod enqueues every cached object.                  *)
Resync(r) ==
  /\ cache[r].present
  /\ r \notin queue
  /\ queue' = queue \cup {r}
  /\ UNCHANGED <<store, watch, cache,
                 pc, obj, pg, creator, relations, access, edits, faults>>

Informer == \E o \in watch : Event(o)

Users ==
  \E r \in Resources :
    \/ \E s \in SpecsOf[r] : UserEdit(r, s) \/ \E w \in Owners : UserCreate(r, s, w)
    \/ \E fs \in SUBSET ForeignFinalizers : UserDelete(r, fs)

Next ==
  \/ Worker
  \/ CallFails \/ Crash \/ LoseAccess \/ RegainAccess
  \/ \E p \in PublicationNames : DropByHand(p)
  \/ \E t \in Tables : TableAppears(t) \/ TableGoes(t)
  \/ Users
  \/ Informer
  \/ \E r \in Resources :
       \/ Begin(r)
       \/ Resync(r)
       \/ \E f \in ForeignFinalizers : Release(r, f)

Spec == Init /\ [][Next]_vars

(* The worker, the informer and the garbage collector do not stop.  The    *)
(* queue is first in first out: a request is not passed over forever.      *)
Fairness ==
  /\ WF_vars(Worker)
  /\ WF_vars(Informer)
  /\ \A r \in Resources :
       /\ SF_vars(Begin(r))
       /\ WF_vars(Resync(r))
       /\ \A f \in ForeignFinalizers : WF_vars(Release(r, f))

FairSpec == Spec /\ Fairness

-----------------------------------------------------------------------------
(* Types.                                                                  *)

(* Every variable holds a value of its type; only the worker's steps are   *)
(* values of pc.                                                           *)
TypeOK ==
  /\ ApiTypeOK
  /\ queue \subseteq Resources
  /\ pc \in Calls \cup {"idle", "connect", "succeeded"}
  /\ obj \in Object
  /\ pg \in [PublicationNames -> Publication]
  /\ creator \in [PublicationNames -> Resources \cup {NoResource}]
  /\ relations \subseteq Tables
  /\ access \in BOOLEAN
  /\ edits \in 0 .. MaxEdits
  /\ faults \in 0 .. MaxFaults

-----------------------------------------------------------------------------
(* Safety.                                                                 *)

(* The name an object's specs give to its publication never changes.       *)
NamesStable ==
  \A r \in Resources : \E p \in PublicationNames : \A s \in SpecsOf[r] : s.name = p

(* Whenever a statement that creates or alters a publication is about to   *)
(* run, the API server, not just the worker's possibly stale copy, has the *)
(* object with the operator's finalizer: the user can no longer delete the *)
(* object without the operator being told (handleFinalizers before         *)
(* reconcile).  A stale cache, a conflict or a crash must not break this.  *)
GuardedCreate ==
  pc \in {"create", "setTables", "setPublish"} =>
    store[obj.name].present /\ Held(store[obj.name])

(* No publication that the operator created outlives the object that asked *)
(* for it: while it exists that object exists, with the finalizer          *)
(* (deleteExternalResources before RemoveFinalizer).                       *)
NoOrphan ==
  \A p \in PublicationNames :
    pg[p].exists /\ creator[p] # NoResource =>
      store[creator[p]].present /\ Held(store[creator[p]])

(* The publication is the one the types promise: exactly the tables of the *)
(* spec, or all tables when it lists none, and its operations, or all      *)
(* operations when it lists none.                                          *)
Applied(pub, s) ==
  /\ pub.exists
  /\ pub.allTables = (s.tables = {})
  /\ pub.tables = s.tables
  /\ pub.operations = IF s.operations = {} THEN Operations ELSE s.operations

(* A reconciliation that reports success leaves the publication as its     *)
(* copy of the spec says, whether it created, adopted, altered or repaired *)
(* it.  aiven_extras has no FOR ALL TABLES: its empty lists are set apart, *)
(* and so are tables that others drop meanwhile.                           *)
SuccessMeansApplied ==
  [][pc' = "succeeded" /\ pc # "succeeded" =>
       \/ \E lost \in SUBSET Volatile :
            Applied([pg'[obj.spec.name] EXCEPT !.tables = @ \cup lost], obj.spec)
       \/ obj.spec.tables = {} /\ obj.spec.variant = "aiven"]_vars

(* The worker's two writes to the API server, computed from a cached copy, *)
(* never undo what anybody else wrote: spec, deletion mark and foreign     *)
(* finalizers stay, and a deleted object is not brought back.              *)
WorkerKeepsOthersWrites ==
  [][pc' # pc =>
       \A r \in Resources : store'[r].present =>
         /\ store[r].present
         /\ store'[r].spec = store[r].spec
         /\ store'[r].deleting = store[r].deleting
         /\ store'[r].finalizers \ {OperatorFinalizer}
              = store[r].finalizers \ {OperatorFinalizer}]_vars

-----------------------------------------------------------------------------
(* Refinement.                                                             *)

(* Whatever anybody may still take for the present version of r.           *)
Copies(r) == {store[r], cache[r]} \cup {o \in watch \cup {obj} : o.name = r}

Status(o) ==
  IF ~o.present THEN "absent" ELSE IF o.deleting THEN "terminating" ELSE "live"

NameGiven(o) == IF o.present THEN o.spec.name ELSE NoResource

PossibleNames == [r \in Resources |-> {s.name : s \in SpecsOf[r]}]
StatusNow == [r \in Resources |-> Status(store[r])]
NamingNow == [r \in Resources |-> NameGiven(store[r])]
GuardedNow == [r \in Resources |-> Held(store[r])]
PublishedNow == {p \in PublicationNames : pg[p].exists}

(* The publications that some copy of the object has the worker drop.      *)
DoomedNow ==
  [r \in Resources |-> {o.spec.name : o \in {c \in Copies(r) : c.deleting /\ Held(c)}}]

Lifecycle == INSTANCE PublicationLifecycle WITH
  Objects <- Resources,
  Publications <- PublicationNames,
  NamesOf <- PossibleNames,
  Unprotected <- ByHand,
  Nothing <- NoResource,
  life <- StatusNow,
  naming <- NamingNow,
  guarded <- GuardedNow,
  doomed <- DoomedNow,
  published <- PublishedNow

(* Read off the API server and PostgreSQL, every step of the reconciler    *)
(* and its environment is a step of PublicationLifecycle: in particular a  *)
(* publication is dropped only for an object that named it when its user   *)
(* had deleted it, and a finalizer is given up only when nothing of the    *)
(* name is left, however stale the copy the reconciler acts on.            *)
ImplementsLifecycle == Lifecycle!LifeSpec

-----------------------------------------------------------------------------
(* Liveness.                                                               *)

SoleOwner(r) ==
  \A q \in Resources \ {r} :
    store[q].present => store[q].spec.name # store[r].spec.name

(* r can be reconciled, its tables are there, and it is alone in naming    *)
(* its publication.                                                        *)
Reconcilable(r) ==
  /\ store[r].present
  /\ ~store[r].deleting
  /\ KnownVariant(store[r].spec)
  /\ Listable(store[r].spec)
  /\ SoleOwner(r)
  /\ access

Match(r) == Applied(pg[store[r].spec.name], store[r].spec)

(* ALTER PUBLICATION ... SET TABLE can bring the publication to the spec:  *)
(* the spec lists tables, and the publication is not FOR ALL TABLES, which *)
(* a former spec of the object, another object or somebody else made it.   *)
Alterable(r) ==
  /\ store[r].spec.tables # {}
  /\ ~pg[store[r].spec.name].allTables

(* An object that stays reconcilable gets its publication, for good,       *)
(* whatever conflicts, crashes and lost replies came before, and also if   *)
(* the publication was there or was dropped by hand.  Two cases are left   *)
(* out, in which SET TABLE is refused on every retry: a spec that lists no *)
(* tables, and one that lists some while its publication stays FOR ALL     *)
(* TABLES.  For these see ConvergesAsDocumented.                           *)
Converges ==
  \A r \in Resources : <>[](Reconcilable(r) /\ Alterable(r)) => <>[]Match(r)

(* The types say that an empty table list stands for all tables            *)
(* (PostgresPublicationSpec.Tables): such a spec must be reached as well.  *)
ConvergesAsDocumented ==
  \A r \in Resources : <>[]Reconcilable(r) => <>[]Match(r)

(* The publication of an object that is being deleted gets dropped, unless *)
(* its spec changes or the database cannot be reached any more.            *)
DropEventually ==
  \A r \in Resources : \A p \in PublicationNames :
    store[r].deleting /\ Held(store[r]) /\ store[r].spec.name = p
      ~> \/ ~pg[p].exists
         \/ store[r].spec.name # p
         \/ ~KnownVariant(store[r].spec)
         \/ ~access

=============================================================================

-------------------------- MODULE ConfigController --------------------------
(***************************************************************************)
(* controllers/postgresconfig_controller.go: the reconciler that keeps one *)
(* PostgresPublication object for each publication a PostgresConfig lists. *)
(*                                                                         *)
(* The objects of ApiServer are here the PostgresPublications, the configs *)
(* have variables of their own.  The two kinds have separate informers, so *)
(* the worker's config and the children it lists may be of different ages. *)
(* Of the publication reconciler only its finalizer is left, and users     *)
(* write configs only: module Operator has the rest of both.               *)
(***************************************************************************)
EXTENDS ApiServer, Sequences

CONSTANTS
  Configs,        \* names of PostgresConfig objects
  Names,          \* names of publications
  Desired,        \* lists of publications a config may have: sets of specs
  ResourceName,   \* publicationResourceName: [Configs \X Names -> Resources]
  NoConfig,       \* not the name of a config
  MaxConfigEdits, \* bound: writes of configs by users
  MaxFaults,      \* bound: failed calls, lost replies and crashes
  MaxStale        \* bound: see Collect

(* A controller reference names a config and its UID.                      *)
Reference == [config: Configs, uid: 1 .. MaxConfigEdits]
NoOwner == [config |-> NoConfig, uid |-> 0]

ASSUME ConfigAssumption ==
  /\ Owners = Reference \cup {NoOwner}
  /\ NoConfig \notin Configs
  /\ ResourceName \in [Configs \X Names -> Resources]
  /\ \A d \in Desired : \A s \in d :
       /\ s.name \in Names
       /\ \A c \in Configs : s \in SpecsOf[ResourceName[<<c, s.name>>]]
       /\ \A t \in d : s.name = t.name => s = t
  /\ OperatorFinalizer \notin ForeignFinalizers
  /\ MaxConfigEdits \in Nat
  /\ MaxFaults \in Nat /\ MaxStale \in Nat

ConfigVersion == [present: BOOLEAN, uid: 0 .. MaxConfigEdits, desired: Desired \cup {{}}]
NoVersion == [present |-> FALSE, uid |-> 0, desired |-> {}]

VARIABLES
  config,   \* the API server's version of each config
  feed,     \* its versions on their way to the informer, oldest first
  seen,     \* the informer's version
  queue,    \* the config work queue
  pc,       \* "idle", "list" or "apply"
  req,      \* the config that is reconciled, or NoConfig
  conf,     \* the worker's copy of it
  toCreate, \* specs without a child
  toUpdate, \* listed children, with the specs they shall have
  toDelete, \* listed children that are not wanted
  configEdits, faults

configVars == <<config, feed, seen>>
workVars == <<toCreate, toUpdate, toDelete>>
vars == <<store, watch, cache, config, feed, seen, queue, pc, req, conf,
          toCreate, toUpdate, toDelete, configEdits, faults>>

Init ==
  /\ ApiInit
  /\ config = [c \in Configs |-> NoVersion]
  /\ feed = [c \in Configs |-> <<>>]
  /\ seen = config
  /\ queue = {}
  /\ pc = "idle"
  /\ req = NoConfig
  /\ conf = NoVersion
  /\ toCreate = {} /\ toUpdate = {} /\ toDelete = {}
  /\ configEdits = 0 /\ faults = 0

-----------------------------------------------------------------------------
(* Reconcile.                                                              *)

Stop ==
  /\ pc' = "idle"
  /\ req' = NoConfig
  /\ conf' = NoVersion
  /\ toCreate' = {} /\ toUpdate' = {} /\ toDelete' = {}

(* Mutant: the request is read after it has been cleared.                  *)
Fail_ClearsFirst == Stop /\ queue' = queue \cup {req'}

(* An error: the request comes back after a back-off.                      *)
Fail == Stop /\ queue' = queue \cup {req}

(* r.Get; IgnoreNotFound drops the request.                                *)
Begin(c) ==
  /\ pc = "idle"
  /\ c \in queue
  /\ queue' = queue \ {c}
  /\ IF seen[c].present
       THEN pc' = "list" /\ req' = c /\ conf' = seen[c]
       ELSE UNCHANGED <<pc, req, conf>>
  /\ UNCHANGED <<store, watch, cache, config, feed, seen,
                 toCreate, toUpdate, toDelete, configEdits, faults>>

(* r.List with the index on the name of the controller's reference.        *)
Children(c) == {cache[r] : r \in {q \in Resources :
                  cache[q].present /\ cache[q].owner.config = c}}

(* Mutant: the update is a newly built object with the old one's version.  *)
WithSpec_Rebuilt(o, s) == [NewObject(o.name, s, o.owner) EXCEPT !.rv = o.rv]

WithSpec(o, s) == [o EXCEPT !.spec = s]

(* currentPublicationsByName: of children with one name, the last listed   *)
(* wins.                                                                   *)
ByName(children) ==
  {chosen \in SUBSET children :
     /\ \A o, p \in chosen : o.spec.name = p.spec.name => o = p
     /\ {o.spec.name : o \in chosen} = {o.spec.name : o \in children}}

(* Mutant: what is listed already is left as it is.                        *)
List_NeverUpdates ==
  /\ pc = "list"
  /\ pc' = "apply"
  /\ \E current \in ByName(Children(req)) :
       LET wanted(o) == {s \in conf.desired : s.name = o.spec.name}
       IN /\ toCreate' = {s \in conf.desired :
                            \A o \in current : o.spec.name # s.name}
          /\ toUpdate' = {}
          /\ toDelete' = {o \in current : wanted(o) = {}}
  /\ UNCHANGED <<store, watch, cache, config, feed, seen,
                 queue, req, conf, configEdits, faults>>

(* Mutant: children that are not wanted any more stay.                     *)
List_NeverDeletes ==
  /\ pc = "list"
  /\ pc' = "apply"
  /\ \E current \in ByName(Children(req)) :
       LET wanted(o) == {s \in conf.desired : s.name = o.spec.name}
       IN /\ toCreate' = {s \in conf.desired :
                            \A o \in current : o.spec.name # s.name}
          /\ toUpdate' = UNION {{WithSpec(o, s) : s \in wanted(o)} : o \in current}
          /\ toDelete' = {}
  /\ UNCHANGED <<store, watch, cache, config, feed, seen,
                 queue, req, conf, configEdits, faults>>

List ==
  /\ pc = "list"
  /\ pc' = "apply"
  /\ \E current \in ByName(Children(req)) :
       LET wanted(o) == {s \in conf.desired : s.name = o.spec.name}
       IN /\ toCreate' = {s \in conf.desired :
                            \A o \in current : o.spec.name # s.name}
          /\ toUpdate' = UNION {{WithSpec(o, s) : s \in wanted(o)} : o \in current}
          /\ toDelete' = {o \in current : wanted(o) = {}}
  /\ UNCHANGED <<store, watch, cache, config, feed, seen,
                 queue, req, conf, configEdits, faults>>

(* A call of the API server: done, with the work that is left; or without  *)
(* a reply, and Reconcile returns the error at once.                       *)
Continue(create, update, remove) ==
  \/ /\ toCreate' = create /\ toUpdate' = update /\ toDelete' = remove
     /\ UNCHANGED <<pc, req, conf, queue, faults>>
  \/ /\ faults < MaxFaults
     /\ faults' = faults + 1
     /\ Fail

Refused == Fail /\ UNCHANGED <<store, watch, cache, faults>>

(* Mutant: the built object has no owner reference.                        *)
CreateChild_NoReference(s) ==
  /\ pc = "apply"
  /\ s \in toCreate
  /\ LET r == ResourceName[<<req, s.name>>]
     IN IF store[r].present
          THEN Refused
          ELSE /\ CreateObject(r, s, NoOwner)
               /\ Continue(toCreate \ {s}, toUpdate, toDelete)
  /\ UNCHANGED <<config, feed, seen, configEdits>>

(* createPublications: one r.Create, in the random order of a map.         *)
CreateChild(s) ==
  /\ pc = "apply"
  /\ s \in toCreate
  /\ LET r == ResourceName[<<req, s.name>>]
     IN IF store[r].present
          THEN Refused
          ELSE /\ CreateObject(r, s, [config |-> req, uid |-> conf.uid])
               /\ Continue(toCreate \ {s}, toUpdate, toDelete)
  /\ UNCHANGED <<config, feed, seen, configEdits>>

(* Mutant: the update carries no resourceVersion.                          *)
UpdateChild_Overwrites(o) ==
  /\ pc = "apply"
  /\ toCreate = {}
  /\ o \in toUpdate
  /\ IF ~store[o.name].present
       THEN Refused
       ELSE /\ IF store[o.name] = o THEN UNCHANGED <<store, watch, cache>>
                                    ELSE Put(o)
            /\ Continue(toCreate, toUpdate \ {o}, toDelete)
  /\ UNCHANGED <<config, feed, seen, configEdits>>

(* updatePublications: one r.Update.  The API server does not write an     *)
(* update that changes nothing.                                            *)
UpdateChild(o) ==
  /\ pc = "apply"
  /\ toCreate = {}
  /\ o \in toUpdate
  /\ IF ~UpdateAccepted(o)
       THEN Refused
       ELSE /\ IF store[o.name] = o THEN UNCHANGED <<store, watch, cache>>
                                    ELSE Put(o)
            /\ Continue(toCreate, toUpdate \ {o}, toDelete)
  /\ UNCHANGED <<config, feed, seen, configEdits>>

(* deletePublications: one r.Delete, by name alone; of an object already   *)
(* marked, it succeeds and changes nothing.                                *)
DeleteChild(o) ==
  /\ pc = "apply"
  /\ toCreate = {} /\ toUpdate = {}
  /\ o \in toDelete
  /\ IF ~store[o.name].present
       THEN Refused
       ELSE /\ IF store[o.name].deleting
                 THEN UNCHANGED <<store, watch, cache>>
                 ELSE DeleteObject(o.name, {})
            /\ Continue(toCreate, toUpdate, toDelete \ {o})
  /\ UNCHANGED <<config, feed, seen, configEdits>>

Finish ==
  /\ pc = "apply"
  /\ toCreate = {} /\ toUpdate = {} /\ toDelete = {}
  /\ Stop
  /\ UNCHANGED <<store, watch, cache, config, feed, seen,
                 queue, configEdits, faults>>

Worker ==
  \/ List \/ Finish
  \/ \E s \in toCreate : CreateChild(s)
  \/ \E o \in toUpdate : UpdateChild(o)
  \/ \E o \in toDelete : DeleteChild(o)

-----------------------------------------------------------------------------
(* Faults.                                                                 *)

CallFails ==
  /\ pc = "apply"
  /\ toCreate \cup toUpdate \cup toDelete # {}
  /\ faults < MaxFaults
  /\ faults' = faults + 1
  /\ Fail
  /\ UNCHANGED <<store, watch, cache, config, feed, seen,
                 configEdits>>

Crash ==
  /\ faults < MaxFaults
  /\ faults' = faults + 1
  /\ Relist
  /\ seen' = config
  /\ feed' = [c \in Configs |-> <<>>]
  /\ queue' = {c \in Configs :
                 \/ config[c].present
                 \/ \E r \in Resources : store[r].present /\ store[r].owner.config = c}
  /\ Stop
  /\ UNCHANGED <<config, configEdits>>

-----------------------------------------------------------------------------
(* Informers.                                                              *)

ConfigEvent(c) ==
  /\ feed[c] # <<>>
  /\ seen' = [seen EXCEPT ![c] = Head(feed[c])]
  /\ feed' = [feed EXCEPT ![c] = Tail(@)]
  /\ queue' = queue \cup {c}
  /\ UNCHANGED <<store, watch, cache, config, pc, req, conf,
                 toCreate, toUpdate, toDelete, configEdits, faults>>

(* Mutant: objects of nobody enqueue a request too.                        *)
ChildEvent_EveryOwner(o) ==
  /\ Deliver(o)
  /\ queue' = queue \cup {v.owner.config : v \in {w \in {o, cache[o.name]} : w.present}}
  /\ UNCHANGED <<config, feed, seen, pc, req, conf,
                 toCreate, toUpdate, toDelete, configEdits, faults>>

(* Owns: an event enqueues the config that its object's controller         *)
(* reference names, in the old version and in the new.                     *)
ChildEvent(o) ==
  /\ Deliver(o)
  /\ queue' = queue \cup ({v.owner.config : v \in {w \in {o, cache[o.name]} : w.present}}
                          \ {NoConfig})
  /\ UNCHANGED <<config, feed, seen, pc, req, conf,
                 toCreate, toUpdate, toDelete, configEdits, faults>>

Resync(c) ==
  /\ seen[c].present
  /\ c \notin queue
  /\ queue' = queue \cup {c}
  /\ UNCHANGED <<store, watch, cache, config, feed, seen, pc, req, conf,
                 toCreate, toUpdate, toDelete, configEdits, faults>>

Informers == (\E o \in watch : ChildEvent(o)) \/ (\E c \in Configs : ConfigEvent(c))

-----------------------------------------------------------------------------
(* The publication reconciler's finalizer, the garbage collector and users. *)

others == <<config, feed, seen, queue, pc, req, conf,
            toCreate, toUpdate, toDelete, configEdits, faults>>

Guard(r) ==
  /\ store[r].present
  /\ ~store[r].deleting
  /\ OperatorFinalizer \notin store[r].finalizers
  /\ Put([store[r] EXCEPT !.finalizers = @ \cup {OperatorFinalizer}])
  /\ UNCHANGED others

Unguard(r) ==
  /\ store[r].deleting
  /\ OperatorFinalizer \in store[r].finalizers
  /\ Put([store[r] EXCEPT !.finalizers = @ \ {OperatorFinalizer}])
  /\ UNCHANGED others

Current(w) == config[w.config].present /\ config[w.config].uid = w.uid

(* The garbage collector deletes objects whose controller is gone.  Until  *)
(* the informer learns of that, the worker may create them again: beyond   *)
(* rv MaxStale the collector waits for the informer, which ends this.      *)
Collect(r) ==
  /\ store[r].owner # NoOwner
  /\ ~Current(store[r].owner)
  /\ store[r].rv < MaxStale \/ feed[store[r].owner.config] = <<>>
  /\ DeleteObject(r, {})
  /\ UNCHANGED others

NewVersion(c, v) ==
  /\ configEdits < MaxConfigEdits
  /\ configEdits' = configEdits + 1
  /\ config' = [config EXCEPT ![c] = v]
  /\ feed' = [feed EXCEPT ![c] = Append(@, v)]
  /\ UNCHANGED <<store, watch, cache, seen, queue, pc, req, conf,
                 toCreate, toUpdate, toDelete, faults>>

ConfigCreate(c, d) ==
  /\ ~config[c].present
  /\ NewVersion(c, [present |-> TRUE, uid |-> configEdits + 1, desired |-> d])

ConfigEdit(c, d) ==
  /\ config[c].present
  /\ config[c].desired # d
  /\ NewVersion(c, [config[c] EXCEPT !.desired = d])

ConfigDelete(c) == config[c].present /\ NewVersion(c, NoVersion)

Users ==
  \E c \in Configs :
    \/ ConfigDelete(c)
    \/ \E d \in Desired : ConfigCreate(c, d) \/ ConfigEdit(c, d)

Next ==
  \/ Worker \/ CallFails \/ Crash \/ Informers \/ Users
  \/ \E c \in Configs : Begin(c) \/ Resync(c)
  \/ \E r \in Resources : Guard(r) \/ Unguard(r) \/ Collect(r)

Spec == Init /\ [][Next]_vars

(* As in PublicationController; and a deleted publication object is let    *)
(* go, so that this reconciler is judged by its own work.                  *)
Fairness ==
  /\ WF_vars(Worker)
  /\ WF_vars(\E o \in watch : ChildEvent(o))
  /\ \A c \in Configs : WF_vars(ConfigEvent(c)) /\ SF_vars(Begin(c)) /\ WF_vars(Resync(c))
  /\ \A r \in Resources : WF_vars(Unguard(r)) /\ WF_vars(Collect(r))

FairSpec == Spec /\ Fairness

-----------------------------------------------------------------------------
(* Every variable holds a value of its type.                               *)
TypeOK ==
  /\ ApiTypeOK
  /\ config \in [Configs -> ConfigVersion]
  /\ feed \in [Configs -> Seq(ConfigVersion)]
  /\ seen \in [Configs -> ConfigVersion]
  /\ queue \subseteq Configs
  /\ pc \in {"idle", "list", "apply"}
  /\ req \in Configs \cup {NoConfig}
  /\ conf \in ConfigVersion
  /\ toCreate \subseteq UNION Desired
  /\ toUpdate \subseteq Object
  /\ toDelete \subseteq Object
  /\ configEdits \in 0 .. MaxConfigEdits
  /\ faults \in 0 .. MaxFaults

(* Present versions of configs have a UID, and the worker has one of them. *)
HasUid(v) == v.present => v.uid > 0

ConfigInv ==
  /\ \A c \in Configs :
       /\ HasUid(config[c]) /\ HasUid(seen[c])
       /\ \A i \in DOMAIN feed[c] : HasUid(feed[c][i])
  /\ pc # "idle" => req \in Configs /\ conf.present /\ HasUid(conf)

(* What the worker has listed belongs to the config, and is a version its  *)
(* object has had, but for the spec.                                       *)
ListedInv ==
  /\ toUpdate # {} => pc = "apply"
  /\ \A o \in toUpdate :
       /\ o.owner.config = req
       /\ o.rv <= store[o.name].rv
       /\ o.rv = store[o.name].rv => o = [store[o.name] EXCEPT !.spec = o.spec]

(* The inductive invariant.                                                *)
Inv == CopiesInv /\ ConfigInv /\ ListedInv

(* When the worker overwrites the spec of an object, the object belongs to *)
(* the config it reconciles, and finalizers, deletion mark and reference   *)
(* stay as the API server has them, however old the listed copy is: an     *)
(* overwritten finalizer would let a publication outlive its object.       *)
UpdatesOwnChildrenOnly ==
  [][\A r \in Resources :
       /\ <<pc, workVars>>' # <<pc, workVars>>
       /\ store[r].present /\ store'[r].present
       /\ store'[r].spec # store[r].spec
       => /\ store[r].owner.config = req
          /\ store'[r].owner = store[r].owner
          /\ store'[r].finalizers = store[r].finalizers
          /\ store'[r].deleting = store[r].deleting]_vars

ChildOf(c, r) == store[r].present /\ store[r].owner.config = c

(* c has exactly the children it lists, live, as it lists them, and with   *)
(* its present UID.                                                        *)
Converged(c) ==
  /\ \A s \in config[c].desired : ChildOf(c, ResourceName[<<c, s.name>>])
  /\ \A r \in Resources : ChildOf(c, r) =>
       /\ ~store[r].deleting
       /\ Current(store[r].owner)
       /\ store[r].spec \in config[c].desired
       /\ r = ResourceName[<<c, store[r].spec.name>>]

(* Nobody else has an object where c wants one, and c's objects have the   *)
(* names and publications that c gave them.                                *)
Unobstructed(c) ==
  \A r \in Resources : store[r].present =>
    /\ ChildOf(c, r) => r = ResourceName[<<c, store[r].spec.name>>]
    /\ \A s \in config[c].desired : r = ResourceName[<<c, s.name>>] =>
         ChildOf(c, r) /\ store[r].spec.name = s.name

(* A config that nothing obstructs gets the objects it lists and no other, *)
(* for good: after stale lists, conflicts, partial failures, crashes, and  *)
(* after a config of the same name was deleted and created again.          *)
ConfigConverges ==
  \A c \in Configs :
    <>[](config[c].present /\ Unobstructed(c)) => <>[]Converged(c)

(* The objects that configs asked for go away with the configs, even those *)
(* a worker creates from a copy of a config that is already deleted.       *)
ChildrenCollected ==
  \A r \in Resources :
    <>[](\A c \in Configs, n \in Names :
           r = ResourceName[<<c, n>>] => ~config[c].present)
      => <>[]~store[r].present

(* The config moves "closer to the desired state": when only configs are   *)
(* edited, a config that stays gets the objects it lists and no other.     *)
RenameCompletes ==
  \A c \in Configs : <>[]config[c].present => <>[]Converged(c)

=============================================================================

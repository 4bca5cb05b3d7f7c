------------------------------ MODULE Operator ------------------------------
(***************************************************************************)
(* The operator's two reconcilers that share objects, in one process: that *)
(* of PostgresConfigs (ConfigController) writes the PostgresPublications   *)
(* that that of PostgresPublications (PublicationController) guards with   *)
(* its finalizer and realises in PostgreSQL.                               *)
(*                                                                         *)
(* They meet only in the API server's objects and in the one informer that *)
(* the manager keeps for each kind.  Each has a worker of its own, and the *)
(* steps of the two interleave.                                            *)
(***************************************************************************)
EXTENDS ApiServer

CONSTANTS
  PublicationNames, Tables, Operations, PreExisting, ByHand, Volatile, NoResource,
  Configs, Names, Desired, ResourceName, NoConfig,
  UserObjects,  \* publication objects that users write
  MaxConfigEdits, MaxEdits, MaxFaults, MaxStale,
  MaxTogether   \* bound: all writes of users, and faults

VARIABLES
  queue, pc, obj,                    \* the publication worker
  pg, creator, relations, access,    \* PostgreSQL
  config, feed, seen,                \* PostgresConfig objects
  configQueue, configPc, req, conf,  \* the config worker
  toCreate, toUpdate, toDelete,
  edits, configEdits, faults

P == INSTANCE PublicationInvariant

C == INSTANCE ConfigController WITH queue <- configQueue, pc <- configPc

publicationVars == <<queue, pc, obj, pg, creator, relations, access, edits>>
configVars == <<config, feed, seen, configQueue, configPc, req, conf,
                toCreate, toUpdate, toDelete, configEdits>>
vars == <<apiVars, publicationVars, configVars, faults>>

(* The assumptions of both components; and what a config lists under a     *)
(* name may stand in every object that can have that name, as in the code  *)
(* any spec may: users can give a child the name of another.               *)
ASSUME OperatorAssumption ==
  /\ \A r \in Resources : SpecsOf[r] \subseteq P!PublicationSpec
  /\ PreExisting \subseteq P!Publication
  /\ Volatile = {}  \* the tables stay as they are
  /\ ByHand \subseteq PublicationNames
  /\ NoResource \notin Resources
  /\ Owners = C!Reference \cup {C!NoOwner}
  /\ NoConfig \notin Configs
  /\ ResourceName \in [Configs \X Names -> Resources]
  /\ \A d \in Desired : \A s \in d :
       /\ s.name \in Names
       /\ \A c \in Configs : s \in SpecsOf[ResourceName[<<c, s.name>>]]
       /\ \A t \in d : s.name = t.name => s = t
       /\ \A r \in Resources : \A t \in SpecsOf[r] :
            s.name = t.name => s \in SpecsOf[r]
  /\ UserObjects \subseteq Resources
  /\ OperatorFinalizer \notin ForeignFinalizers
  /\ {MaxConfigEdits, MaxEdits, MaxFaults, MaxStale, MaxTogether} \subseteq Nat

Init == P!Init /\ C!Init

Bounded == configEdits' + edits' + faults' <= MaxTogether

-----------------------------------------------------------------------------
(* The publication reconciler, PostgreSQL, and what users do to the        *)
(* objects of either's making.                                             *)

PublicationWorker == P!Worker /\ UNCHANGED configVars /\ Bounded
PublicationBegin(r) == P!Begin(r) /\ UNCHANGED configVars
PublicationResync(r) == P!Resync(r) /\ UNCHANGED configVars

Outside ==
  /\ \/ P!CallFails \/ P!LoseAccess \/ P!RegainAccess
     \/ \E r \in UserObjects :
          \/ \E s \in SpecsOf[r] : P!UserCreate(r, s, C!NoOwner) \/ P!UserEdit(r, s)
          \/ P!UserDelete(r, {})
  /\ UNCHANGED configVars
  /\ Bounded

-----------------------------------------------------------------------------
(* The config reconciler, the garbage collector, and what users do to      *)
(* configs.                                                                *)

ConfigWorker == C!Worker /\ UNCHANGED publicationVars /\ Bounded
ConfigBegin(c) == C!Begin(c) /\ UNCHANGED publicationVars
ConfigResync(c) == C!Resync(c) /\ UNCHANGED publicationVars
ConfigEvent(c) == C!ConfigEvent(c) /\ UNCHANGED publicationVars
Collect(r) == C!Collect(r) /\ UNCHANGED publicationVars

ConfigOutside ==
  /\ \/ C!CallFails
     \/ \E c \in Configs :
          \/ C!ConfigDelete(c)
          \/ \E d \in Desired : C!ConfigCreate(c, d) \/ C!ConfigEdit(c, d)
  /\ UNCHANGED publicationVars
  /\ Bounded

-----------------------------------------------------------------------------
(* Both: one event of the informer makes requests for both queues, and the *)
(* end of the process is the end of both workers.                          *)

Event(o) == P!Event(o) /\ C!ChildEvent(o)
Informer == \E o \in watch : Event(o)

Crash == P!Crash /\ C!Crash /\ Bounded

Next ==
  \/ PublicationWorker \/ ConfigWorker
  \/ Outside \/ ConfigOutside
  \/ Informer \/ Crash
  \/ \E r \in Resources : PublicationBegin(r) \/ PublicationResync(r) \/ Collect(r)
  \/ \E c \in Configs : ConfigBegin(c) \/ ConfigResync(c) \/ ConfigEvent(c)

Spec == Init /\ [][Next]_vars

(* As in the two components, but nothing depends on the SyncPeriod here.   *)
Fairness ==
  /\ WF_vars(PublicationWorker)
  /\ WF_vars(ConfigWorker)
  /\ WF_vars(Informer)
  /\ \A r \in Resources :
       /\ SF_vars(PublicationBegin(r))
       /\ WF_vars(Collect(r))
  /\ \A c \in Configs :
       /\ SF_vars(ConfigBegin(c))
       /\ WF_vars(ConfigEvent(c))

FairSpec == Spec /\ Fairness

-----------------------------------------------------------------------------
(* Every variable holds a value of its type.                               *)
TypeOK == P!TypeOK /\ C!TypeOK

(* The inductive invariant: each reconciler can rely on what it relies on  *)
(* alone, though the other writes the same objects; and what the worker of *)
(* configs is going to write is a spec that the object may have.           *)
Inv ==
  /\ P!Inv
  /\ C!ConfigInv
  /\ C!ListedInv
  /\ \A o \in toUpdate : o.spec \in SpecsOf[o.name]

(* No publication outlives its object here either: none of the writes of   *)
(* the config reconciler, some of them computed from old copies, takes the *)
(* finalizer off an object whose publication is there.                     *)
NoOrphan == P!NoOrphan

(* As in ConfigController, but beside the real finalizer, and with users   *)
(* who put an object of their own in a child's place, or edit the child.   *)
UpdatesOwnChildrenOnly == C!UpdatesOwnChildrenOnly

(* Seen from the objects and PostgreSQL, the config reconciler is one more *)
(* user: with it, too, every step is a step of PublicationLifecycle.       *)
ImplementsLifecycle == P!ImplementsLifecycle

(* A deletion that cannot finish: the publication is dropped already, and  *)
(* DROP PUBLICATION fails for what is not there.                           *)
Stuck(r) ==
  /\ store[r].deleting
  /\ P!Held(store[r])
  /\ ~pg[store[r].spec.name].exists

(* Nobody else's object names what c lists.                                *)
Undisputed(c) ==
  \A r \in Resources : store[r].present =>
    \A s \in config[c].desired :
      store[r].spec.name = s.name => r = ResourceName[<<c, s.name>>]

AsListed(c) ==
  /\ C!Converged(c)
  /\ \A s \in config[c].desired : P!Applied(pg[s.name], s)

(* What a config lists is what PostgreSQL publishes, for good, however the *)
(* two workers interleave: if the config stays and PostgreSQL can be       *)
(* reached, if nobody else holds the names of its objects or publications, *)
(* and no deletion is stuck.                                               *)
PublishedAsListed ==
  \A c \in Configs :
    <>[](/\ config[c].present /\ access
         /\ C!Unobstructed(c) /\ Undisputed(c)
         /\ \A r \in Resources : ~Stuck(r))
      => <>[]AsListed(c)

(* The same, when only configs are ever edited, with nothing set apart:    *)
(* "Creating and maintaining publications" (README.md).                    *)
PublicationsMaintained ==
  \A c \in Configs : <>[](config[c].present /\ access) => <>[]AsListed(c)

(* A publication that the operator made goes away for good once no config  *)
(* lists it and no object of a user names it, in particular when a config  *)
(* is deleted, even if a worker acts on an old copy of it at that time.    *)
UnpublishedWithConfig ==
  \A p \in PublicationNames :
    <>[](/\ access
         /\ \A c \in Configs : config[c].present =>
              \A s \in config[c].desired : s.name # p
         /\ \A r \in Resources : store[r].present /\ store[r].owner = C!NoOwner =>
              store[r].spec.name # p)
      => <>[](pg[p].exists => creator[p] = NoResource)

=============================================================================

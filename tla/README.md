# Verification of postgres-config-operator

TLA+ models, TLC runs and TLAPS proofs for the operator in `src/`: a Kubernetes
controller manager that keeps PostgreSQL publications, tables and grants as custom
resources describe them.

    tlc -workers 2 -config PublicationSafety.cfg MCPublication    # a run: PROJECT.json lists them
    tlapm PublicationProofs.tla                                   # proofs: section 4 lists the modules

## 1. Inventory

| component | state | operations | modelled in |
|---|---|---|---|
| Publication reconciler (`postgrespublication_controller.go`) | none of its own between requests; a finalizer on the object, a publication in PostgreSQL | read the object, connect, add finalizer, CREATE, two ALTERs; on deletion DROP, remove finalizer | `PublicationController`, `PublicationLifecycle` |
| Publication managers (`publicationmanager/`) | - | the statements for the variants `standard` and `aiven` | `PublicationManager` |
| Config reconciler (`postgresconfig_controller.go`) | child `PostgresPublication` objects | list children, create, update, delete them | `ConfigController`; beside the publication reconciler in `Operator` |
| Table reconciler (`postgrestable_controller.go`) | schema and table in PostgreSQL | CREATE SCHEMA, CREATE TABLE, or read the columns and add the missing ones in a transaction | `TableController` |
| Grant reconciler (`postgresgrant_controller.go`) | privileges in PostgreSQL | one GRANT per listed object | `GrantController` |
| Grant webhook (`postgresgrant_webhook.go`) | - | validate the lists of privileges on create and update | `GrantWebhook` |
| Connection, request logger (`utils/`) | - | read the Secret, connect; attach a logger to the context | `Connect`, `Begin` |
| Manager (`main.go`) | work queues and caches of the four controllers; a lease | start, resync, restart, leader election (off by default) | `Manager`, `Managers`, `Operator`; restart and resync in each module |
| API server, garbage collector, informers | objects, versions under way | writes, watch events, optimistic concurrency, finalizers | `ApiServer` (external) |

**Interactions.** The config reconciler writes `PostgresPublication` objects that the
publication reconciler reads and puts its finalizer on: the two meet only in the API
server (`Operator`). Two manager processes meet there and in PostgreSQL (`Managers`).
All reconcilers read from informer caches and write to the API server, so every read may
be old and every update may conflict. PostgreSQL is shared with administrators,
applications and other custom resources.

**What is hard here.** Each `Reconcile` is a sequence of remote calls.  Between any two
of them users, the garbage collector, the informer and other database sessions run, and
the manager may die.  Every call may fail, or take effect and lose its reply.  Nothing
is remembered but the objects, the database and the finalizer, so the *order* of calls
and the behaviour of *retries* carry all of the correctness.  `PROJECT.json` lists the
hazards one by one with the line where each bites.

**What makes each component correct.**

- Publication reconciler: a publication is created only under the finalizer, dropped
  only after the user deleted the object, and the finalizer is given up only when
  nothing is left to drop; updates undo nobody else's writes; objects that stay converge.
- Config reconciler: exactly the listed children, of the config's present UID; its
  updates touch no one else's fields; children go away with their config.
- Both together: PostgreSQL publishes what the config lists, and stops with it.
- Manager: with leader election one process carries on where another ended, without the
  two ever working on the same thing.
- Table reconciler: all missing columns or none; the lock is given back; convergence.
- Grant reconciler and webhook: the webhook lets in exactly the well-formed lists; only
  what was asked for is granted; success means that all of it was.

## 2. Modules

    ApiServer                     external: objects, rv, finalizers, watch, cache
     |- PublicationController     + PublicationManager (what the statements do)
     |    |- PublicationLifecycle     abstract specification (INSTANCE)
     |    '- PublicationInvariant     the inductive invariant
     |         |- MCPublication       TLC instances
     |         '- Manager             one process, which may have to lead
     |              '- Managers       two of them (INSTANCE twice)  - MCManagers
     |- ConfigController  - MCConfig
     |- Operator                  PublicationController and ConfigController
     |                            (INSTANCE) in one process         - MCOperator
     '- SqlReconciler             what the next two share
          |- TableController  - MCTable
          '- GrantController  - MCGrant    + GrantWebhook

The proofs are in modules of their own, one lemma per action:

    ApiServerProofs               types and copies
     |- PublicationProofs         PublicationInvariant, PublicationLifecycle
     |    '- ManagersProofs           Managers (INSTANCE twice)
     |- ConfigProofs              ConfigController
     |- OperatorProofs            Operator (INSTANCE of PublicationProofs and
     |                            ConfigProofs)
     '- SqlReconcilerProofs       what the next two share
          |- TableProofs          TableController
          '- GrantProofs          GrantController, GrantWebhook

**ApiServer.**  `store` is the server's object of each name, or a *tombstone* with an
`rv` of its own, so that a new object of an old name is never mistaken for the old one.
A write (`Put`) adds the new version to `watch`; `Deliver` brings versions of one object
to `cache` in order.  `client.Update` succeeds only with the current `rv`
(`UpdateAccepted`).  An object with finalizers survives deletion until its last
finalizer goes.  After a restart the informer lists the server's present state
(`Relist`); a list from an API server that lags behind is not modelled.

**PublicationController.** `pc` names the worker's next remote call, `obj` is its copy
of the object. `Begin` is `r.Get`; `Connect` is `SetupPostgresConnection`,
`publicationManager` and the branch that `handleFinalizers` takes; `AddFinalizer`,
`Drop`, `RemoveFinalizer` are the rest of it; `Create`, `SetTables`, `SetPublish` are
`reconcile`. `Reply` gives each call two outcomes, the reply or its loss; `CallFails` is
the call that never takes effect. `creator` is a history variable: the object whose
reconciliation created the publication. `LoseAccess`/`RegainAccess` stand for the
Secret, the network and the server; `DropByHand` is an administrator. `relations` are
the tables there are: the `Volatile` ones come and go (`TableAppears`, which may be the
work of the table reconciler, and `TableGoes`), PostgreSQL refuses to list one that is
not there, and no event tells the operator when it comes. A publication *name* stands
for server, database and name, so a new `postgresRef` is a new name.

**PublicationLifecycle** is the promise to a user of `PostgresPublication`: objects that
are absent, live or terminating, the publication each names now, whether it is guarded by
the finalizer, and the set of publications.  A publication is made only for a guarded
object; the finalizer goes only when nothing of the object's present name is left.
Objects may share a publication and be renamed at any time.  `doomed` is what the
operator may yet drop for an object: names that the object had while it was deleted and
guarded, and that some copy (cache, watch, worker) still shows.  It is there because the
code really drops late: a request for an object that is already gone is served from an
old cache and sends DROP once more, and the publication may by then be another object's,
which gets it back at its next reconciliation only.

**PublicationManager.**  What a statement does to a row of `pg_publication`.  The SQL
text is abstracted to what decides its outcome: an empty list gives FOR ALL TABLES in
CREATE and a syntax error in ALTER; SET TABLE is refused for a FOR ALL TABLES publication.

**ConfigController.**  The objects of `ApiServer` are the children; configs have
`config`, `feed` and `seen` (server, events, informer), so that the worker's config and
its list of children can be of different ages.  `List` is the comparison; `CreateChild`,
`UpdateChild`, `DeleteChild` are single calls, in any order within a phase (the code
ranges over maps), and the phases in the order of the code.  An owner reference is a
config's name and UID: the index looks at the name, the garbage collector (`Collect`) at
the UID.  `Guard`/`Unguard` are what is left here of the publication reconciler; users
write configs only.

**Operator** puts the two reconcilers into one process: `P` and `C` are instances over the
same `store`, `watch` and `cache`, each with a queue and a worker of its own.  One informer
event makes requests in both queues (`Event`), a crash ends both (`Crash`), every other
step is a step of one of them.  Users write configs, and publication objects in the
children's place.

**Manager, Managers.**  `Manager` adds `leaderElect` (the flag, the same for all
processes) and `leader` to the publication reconciler: a process works while it leads, or
always if there is no election.  It has its informer running in any case, because
`SetupWithManager` of the config controller makes an index, and so the informer, before any
controller starts.  A process that loses its lease exits (`mgr.Start` returns an error),
which is a crash and restart (`Exit`).  The next holder acquires the lease afterwards; its
informer has caught up by then (`watch = {}` in `Lead`): a lease lasts for seconds, the
informer's lag is far shorter.  In `Managers` each write of one process or user is also on
its way to the other's informer (`NotifyA`, `NotifyB`).

**SqlReconciler, TableController.**  `toAdd` and `added` are the loop of
`alterExistingTable` and its open transaction; from the first ADD COLUMN, or from its
place in the queue for the lock, to the end of the transaction the table is `Locked` for
others. `busy` are the tables that other sessions use in an open transaction
(`BeginTransaction`, `EndTransaction`): ALTER TABLE waits for them, without a timeout.
Others insert rows (which makes a NOT NULL column impossible), add columns, drop the
table or the schema. They do not create tables or drop single columns. Exact repetitions
of a column in a spec are not represented (columns are a set); two different columns of
one name are.

**GrantWebhook, GrantController.**  `Check` is one turn of the loop of
`validatePrivilegesForType`, with its early returns, and `Loop` what is known after each
turn (a recursive function of the number of turns); `WellFormed` is the rule for the whole
list that it must agree with.  `left` holds the statements that a reconciliation still has to
run; PostgreSQL takes every name for a relation (`GrantAccepted`), because the
statement does not say otherwise.  That the role exists is taken for granted.

`HasLog` is the reconciler's `Log` field, which `suite_test.go` sets and `main.go` does
not (for tables and grants).  The runs `Table` and `Grant` set it, as the suite does; the
run `TableUnlogged` is the reconciler as `main.go` builds it.

## 3. Runs

Passing runs (together they fire every action):

| run | instance | shows |
|---|---|---|
| PublicationSafety | 2 objects, 1 publication (absent, listing another table, or FOR ALL TABLES at first), all shapes of spec, a table that comes and goes, foreground finalizer; 3 writes, 1 fault | `TypeOK`, `GuardedCreate`, `NoOrphan`, the inductive `Inv`; `SuccessMeansApplied`; `WorkerKeepsOthersWrites` |
| PublicationLiveness | 2 objects, 2 publications, renames onto each other's, a table list that becomes empty or is filled, drop by hand, a table that comes and goes; 3 writes, 1 fault | `Converges`, `DropEventually`; every step is a step of `PublicationLifecycle` |
| ConfigPartial | 2 publications; 3 writes of the config, or 2 and a fault | `TypeOK`, the inductive `Inv`, `UpdatesOwnChildrenOnly`; `ConfigConverges` after partial failure and for a config created anew, `ChildrenCollected` |
| Operator | 1 config, 1 publication with two contents, users who also write the child; 3 writes and faults together | `TypeOK`, the inductive `Inv`, `NoOrphan`; `UpdatesOwnChildrenOnly` beside the real finalizer; `PublishedAsListed`, `UnpublishedWithConfig`, `ImplementsLifecycle` |
| Managers | 2 processes, 1 object, with and without election; 2 writes, 1 fault | `Converges` in both cases; `DropEventually`, `NoOrphan`, the inductive `Inv` and `ImplementsLifecycle` with election |
| Table | 2 objects, 1 table, 3 columns; 3 writes, 2 faults or changes by hand | `TypeOK`, the inductive `AlterInv`, `AllColumnsOrNone`; `LockReleased`, `TableConverges` |
| Grant | 2 objects, a table, a sequence, a database; 3 writes, 1 fault | `TypeOK`, the inductive `GrantInv`, `OnlyWellFormed`, `GrantedAsAsked`, `SuccessMeansGranted`; `GrantConverges` |

Violation runs, each a finding of `PROJECT.json`:

| run | what TLC finds |
|---|---|
| PublicationEmptyTables | a table list that becomes empty (or an empty one reconciled twice) is retried for good |
| ConfigCollision | replacing publication `a_b` by `a-b` never gets past AlreadyExists |
| OperatorReadd | without a fault: a publication is put back on the list while its child is terminating; the config worker's update makes the removal of the finalizer conflict after the DROP, the next DROP fails for good, and the listed publication is never there |
| TableUnlogged | without `Log` the first request ends the process, and so after each restart |
| GrantDatabase | the refused GRANT on a database keeps the tables after it from being granted |

**Bounds.**  `MaxEdits`, `MaxConfigEdits` bound writes of users, `MaxFaults` bounds lost
calls and replies, crashes and changes by hand. Three writes are create, edit or delete,
and create again, which is what stale copies need to be confused with a later object of
the name; one fault at any point of a reconciliation leaves the retry undisturbed, two
(in Table) let it fail again. In `Operator` `MaxTogether` bounds writes and faults
together: three of them, in any mixture (three writes of the config, or two and a crash,
or one of each). In `ConfigPartial` it is the same: three writes of the config (create,
delete, and create again among children of the first UID), or two and a fault; and with
`MaxLag` no more than three versions of children are under way to the informer at a time,
so that whoever writes the next waits for it (both bounds are in `MCConfig!BoundedSpec`).
Three suffice for the creation of both children and the mark or finalizer of one to be
unseen at once. In `Managers` two writes (create; edit or delete) and one death are
enough for a takeover at every point of a reconciliation. `rv` is bounded by these,
except where the garbage collector and a worker with an old config could delete and
create in turns: beyond `rv` `MaxStale` (1 or more, so that it happens once) the
collector waits for the informer. Two objects are enough for every interaction between
objects there is (sharing or taking over a publication or table). Runs have
CHECK_DEADLOCK FALSE because the system rests once the bounds are used up and nothing is
left to do.

**With and without leader election.**  It is off by default.  `NoOrphan`,
`DropEventually` and `ImplementsLifecycle` are stated for `leaderElect` because they fail
without it: one manager has dropped the publication and released the object while the other, which still sees the live
object with its finalizer, is about to CREATE; the publication then stays for good.
`Converges` holds either way: the last reconciliation of a live object sets it right.

**What the conditions leave out.** `SuccessMeansApplied` sets apart aiven specs without
tables, and tables that others drop between the statement and its success.
`PublishedAsListed` is for configs whose objects and publications nobody else holds and
whose children are not stuck (see OperatorReadd); `UnpublishedWithConfig` for
publications that no user's object names. `Converges` is about specs with tables that are there in the end, known variants and sole
owners of a name, and not about publications that stay `FOR ALL TABLES`, because an empty
list made them so or they were found that way: SET TABLE is refused for these on every
retry (`Alterable`; PublicationEmptyTables shows such an object). Without that condition
TLC finds `Converges` violated in PublicationLiveness too, by an object that is created
with an empty list and then given a table. In `Operator` and `Managers` the tables stay as they are, and in `Managers` no other
controller has finalizers of its own. `TableConverges` is
about the names of columns, not about their types, nullability or primary key: the types
document `nullable` and `primaryKey` (`common_types.go:47`, `50`) and the tests' matcher
demands both, but the reconciler gives a primary key only in CREATE TABLE (a key column
added later is not in the key, see `Plain`) and leaves a column alone that has a listed
name already. It is also
about specs PostgreSQL can satisfy (`Possible`) and, like `LockReleased`, about
transactions of others that end: one that stays open keeps the worker, and with it every
object, waiting. `GrantConverges` is about statements it accepts (`Grantable`), and
`SuccessMeansGranted` sets relations apart that are dropped meanwhile. In `Grant` no
database has the name of a relation: where one has, a role is granted privileges on the
relation, because the statement lacks the word DATABASE.

**Fairness.**  Weak fairness of the worker and of the informer, of each process that
there is: it runs and is restarted. A lease nobody holds is acquired (`Lead`). Strong
fairness of `Begin` for each request: the queue is first in first out and the worker is
idle again and again, so no request is passed over for good. Weak fairness of `Resync`:
the manager's SyncPeriod (ten hours by default) enqueues every cached object; `Operator`,
whose tables stay and whose publications nobody drops, does without. The
garbage collector keeps working. Nothing is assumed of users, administrators, faults, or
of access coming back: the liveness properties make access a condition.

## 4. Proofs

Each theorem holds for every value of the constants that satisfies the `ASSUME`s of its
module: nonempty sets of objects, owners and specs, types of specs, natural bounds, and
what stands beside the theorem here.  Sets of objects, specs, tables, configs and names
may be of any size, and the bounds on writes and faults any number.

| theorem | states |
|---|---|
| `PublicationProofs!TypeCorrect`, `Invariance`, `Guarded` | `TypeOK`, `Inv`, `GuardedCreate` |
| `PublicationProofs!NoOrphans` | `NoOrphan`, if `NamesStable` |
| `PublicationProofs!Refinement` | `Spec => ImplementsLifecycle`: the abstract specification is implemented |
| `PublicationProofs!KeepsOthersWrites`, `SuccessApplies` | the action properties `WorkerKeepsOthersWrites`, `SuccessMeansApplied` |
| `ManagersProofs!ManagersTypes`, `ManagersInvariance` | `TypeOK`, `Inv` of two processes |
| `ManagersProofs!ManagersNoOrphan` | `NoOrphan` of two processes, if `NamesStable` |
| `ManagersProofs!ManagersLifecycle` | `Spec => ImplementsLifecycle` of two processes, with election |
| `ConfigProofs!ConfigTypes`, `ConfigInvariance`, `UpdatesOwn` | `TypeOK`, `Inv`, the action property `UpdatesOwnChildrenOnly` |
| `OperatorProofs!OperatorTypes`, `OperatorInvariance`, `OperatorUpdatesOwn` | `TypeOK`, `Inv`, `UpdatesOwnChildrenOnly` of both reconcilers in one process |
| `OperatorProofs!OperatorNoOrphans` | `NoOrphan` of both, if `NamesStable` |
| `OperatorProofs!OperatorLifecycle` | `Spec => ImplementsLifecycle` of both |
| `TableProofs!TableTypes`, `TableInvariance`, `AllOrNone` | `TypeOK`, `AlterInv`, the action property `AllColumnsOrNone` |
| `GrantProofs!WebhookCorrect` | the webhook's loop agrees with `WellFormed` on lists of any length |
| `GrantProofs!GrantTypes`, `GrantProgress`, `Admission` | `TypeOK`, `GrantInv`, `OnlyWellFormed` |
| `GrantProofs!SuccessGranted` | the action property `SuccessMeansGranted` |
| `GrantProofs!AsAsked` | the action property `GrantedAsAsked`, if `NoNamesakes` |

TLC checks each of these invariants and properties in a run as well (`TypeOK` of
`Managers` as a part of its `Inv`).

**Publications.**  `GuardedCreate` and `NoOrphan` are not inductive: whether a statement
is safe depends on how old the worker's copy may be.  `Inv` says it.  *StoreInv*: objects
carry their own name and a permitted spec.  *InformerInv*: each copy, delivered or under
way, is `Faithful`: never newer than the server's object, equal to it if of the same `rv`,
and if it shows a live guarded object then the server's object is still guarded (only the
worker removes the finalizer, and only from an object that is marked as deleted);
versions under way are newer than the cache.  *WorkerInv*: what each `pc` may rely on,
and that the copy the worker decides from is no newer than the cache.  That last part is
what makes `RemoveFinalizer` safe: if its update is accepted, its copy is the server's
present version, hence the cache's too, and no live guarded version is left anywhere
whose `Faithful` could break.  `KeepsFinalizer` then says that only `RemoveFinalizer`
takes the finalizer away, after `Drop`, which gives `NoOrphan`.  `NamesStable` is
necessary: a rename of `spec.name` leaves the old publication behind.

**The refinement.**  `PublicationLifecycle`'s state is a function of the objects and
publications, and of `doomed`, a function of the copies.  Each step of the controller has
a lemma that says which action of the abstract specification it is (`CreateSubmits`,
`DeleteWithdraws`, `AddFinalizerGuards`, `RemoveFinalizerUnguards`, `CreateProvisions`,
`DropIsDoomed`, ...) or that it changes nothing there (`QuietView`).  The work is in two
of them: a late DROP is of a doomed name, because the worker's copy is one of those that
`doomed` is collected from, and `RemoveFinalizer` finds nothing left of the object's
present name, because its update is accepted on the version whose name `Drop` used.
`StepIsDoom` shows that a name becomes doomed only by a version that the server has just
then, deleted and guarded: the only copy that a step makes anew is what it writes
(`StepOnObjects`, `NewCopies`).
`SuccessApplies` needs one more invariant, `AlterInv`: between the two statements of an
ALTER the tables are those of the spec but for the ones that others have dropped.

**Two processes.**  `NoOrphan` with a change of the leader needs more than the invariant
of one process: the informer of a process that does not lead may believe that an object is
still guarded which the leader has released, so `Inv` is false of it.  What is true of it
is `Lagging`: nothing it has is newer than the server's objects, and the present version
of each has arrived or is on its way, after all older ones.  `ManagersProofs` shows that
the leader keeps `Inv`, that the others keep `Lagging` (each step writes at most one
object, and `NotifyA` and `NotifyB` announce it), and that a process that has caught up,
as `Lead` requires, gets from the second to the first (`CaughtUpA`, `CaughtUpB`).  A
leader's steps are steps of the lone process, so `PublicationProofs`' lemmas do the rest.
The argument shows on what the takeover rests: that a lease outlasts both its holder's
last step (`Exit`) and the lag of the next holder's informer (`Lead`).

For `ManagersLifecycle` the abstract state is the same but for `doomed`, which is now
collected from the copies of both processes.  A leader's step is one of
`PublicationLifecycle` as in the proof for the lone process, with more that is doomed
(`LifeStepOfA`, `LifeStepOfB`); a crash, a takeover and what a waiting informer hears show
nothing of themselves (`UnseenLifeStep`).  Nothing becomes doomed on the way: a copy that
says it is deleted was there before or is the server's version, in the process that took
the step (`OwnCopiesA`) and in the one that hears of it (`NotifiedCopiesB`).  This does
not need `NamesStable`, so `Inv` has `NoOrphan` under that condition only.

**Configs.**  `UpdatesOwnChildrenOnly` rests on optimistic concurrency: `toUpdate` has
versions, but for the spec, of objects that belonged to the config when they were listed
(`ListedInv`), and an accepted update is one of the server's present version.  For the
same to hold of what is yet to be listed, `CopiesInv` says that the informer has nothing
but versions.  That an informer's copy of the same `rv` is the same object is what
`Tombstone`'s own `rv` is for.

**Both reconcilers.**  Each step of `Operator` is a step of one reconciler's
specification or an event or a crash of both.  For the other reconciler a step of the one
is `Elsewhere` (defined in `PublicationProofs` and in `ConfigProofs`, each from its own
side): its worker rests, and at most one object is written; seen from the publication
reconciler, as a user might have written it.  The lemmas `Elsewhere...` show that such a step keeps each component's
invariant; `WorkerOnObjects` and `CallsOnObjects` show that the workers' writes are of this
kind.  So `Inv` is the invariants of the two (`CopiesInv` follows from `P!Inv`, because
copies that are `Faithful` are copies of versions) and one conjunct more: what the config
worker is about to write is a spec that the object may have.  It needs `P!Inv` in turn,
since the objects come from the informer, and the assumption on `Desired`.  `TypeOK` needs
`Inv`: the reference that a child gets has the UID of a config that was there.

`OperatorLifecycle` adds what each call of the config worker is in the abstract
specification: `Create` a submission, `Delete` a withdrawal, and an accepted `Update` an
edit that keeps the finalizer and the deletion mark, by `ListedInv`.  An update that is not
accepted changes nothing.  Hence a worker with an old list cannot undo what
the publication reconciler has done, and its late writes make no name doomed that was
not the name of a deleted, guarded object.

The assumptions are those of the two modules, and two of `OperatorAssumption`.  `Volatile` is
empty: the tables stay as they are.  And `SpecsOf` is closed: if an object may have a spec
that names a publication, it may have any spec that a config lists under that name.  The
code lets users and configs write any spec into any object, of which this is a part;
it is needed because a child that a user has renamed is listed by its present
`spec.name`, and gets the spec of that name.

**Tables.**  `AlterInv` relates the transaction to what was read before it began: each
column of the spec is in the table, added by the transaction, or still to be added, and
the table stays once the transaction holds its lock.  Others may add columns in between,
which makes the first set larger (`NamesGrow`), or drop the table, which ends the
transaction.  So what `Commit` publishes is everything that was missing.

**Grants.**  `WebhookCorrect` is an induction on the length of the list: `LoopDefined` is
the existence of the recursive function, `LoopMeaning` that after `i` turns there is no
error exactly if the first `i` privileges are known and different, and that `wanted` and
`hasAll` are what they contain.  `GrantInv` says that whatever the worker's copy asks for
on a relation is either among the statements left or granted, unless the relation has
been dropped.  `AsAsked` needs `NoNamesakes`: PostgreSQL takes each listed name for that
of a relation, so a database, schema or function with the name of one gets its role
privileges on the relation, and GRANT ALL on a sequence listed as a table those of a
sequence.  The theorem says that this is the only way to be given more than was asked
for; where a name is shared, `GrantedAsAsked` does not hold.

**Induction.**  The library's induction theorems take an operator as a parameter, which
the provers cannot instantiate.  `GrantProofs!SetInduction` states the same of a *set* of
natural numbers, from the least element of its complement (`WFMin`), and can be used.

**Only model-checked.**  All liveness: fairness and ENABLED are out of the prover's reach.
Of `Operator` that is `PublishedAsListed` and `UnpublishedWithConfig`, of the reconcilers
and of `Managers` the properties that something is done in the end (`Converges`,
`DropEventually`, `ConfigConverges`, `ChildrenCollected`, `LockReleased`,
`TableConverges`, `GrantConverges`).

## 5. Not modelled

Building SQL text and connection URLs, events and logging, deep copies, test helpers,
manifests; metrics, health checks and flags of `main.go`, which have no state that the
reconcilers see. In `Managers` only the publication controller runs. A holder of the
lease that works on past its expiry (paused, or with a clock far off): client-go's
elections exclude it by timing only. A statement still running in PostgreSQL when its
manager has died and the next one has begun. Users who remove the operator's finalizer
themselves. Foreground deletion of configs. `spec.tables` of a config, which no code
reads.

## 6. Plan

Done: the publication reconciler with its abstract specification and first proofs; the
config reconciler, and both together; two managers; the table and grant reconcilers and
the webhook.

Proved: for each of the four reconcilers its types, its inductive invariant and its safety
and action properties; the webhook; the refinement; leader election; and the same for the
publication and config reconcilers together, whose steps are also those of the abstract
specification, and so are those of two managers with an election.  Every invariant and
action property of the passing runs is a theorem.

What is left: two objects in `Operator`'s run, so that configs compete for a publication,
and two names in `Managers`' run (the theorems hold for any number of both); table and
grant controllers in the same process as the others, where a panic of one ends all.

--------------------------- MODULE SqlReconciler ---------------------------
(***************************************************************************)
(* What the table and the grant reconciler have in common: one worker that *)
(* takes requests from a queue, reads the object, connects to PostgreSQL   *)
(* and runs statements, and never writes to the API server.                *)
(*                                                                         *)
(* The actions here say nothing of the database: a module that extends     *)
(* this one adds the database and the statements.                          *)
(***************************************************************************)
EXTENDS ApiServer

CONSTANTS
  HasLog,    \* the reconciler's Log field is set: main.go leaves it empty
  MaxEdits,  \* bound: writes of users
  MaxFaults  \* bound: lost calls and replies, crashes, changes by hand

ASSUME ReconcilerAssumption ==
  HasLog \in BOOLEAN /\ MaxEdits \in Nat /\ MaxFaults \in Nat

VARIABLES
  queue,   \* the work queue: requests not yet handed to the worker
  pc,      \* the next call of the worker
  obj,     \* the worker's copy of the object it reconciles
  access,  \* the Secret can be read and its credentials connect
  edits,   \* writes of users so far
  faults   \* faults so far

NoRequest == Tombstone(AnyResource, 0)

ReconcilerInit ==
  /\ ApiInit
  /\ queue = {}
  /\ pc = "idle"
  /\ obj = NoRequest
  /\ access = TRUE
  /\ edits = 0
  /\ faults = 0

(* Result{} and no error: the request is forgotten.                        *)
Done ==
  /\ pc' = "idle"
  /\ obj' = NoRequest
  /\ queue' = queue

(* Result{Requeue: true} or an error: the request is retried later.        *)
Requeue ==
  /\ pc' = "idle"
  /\ obj' = NoRequest
  /\ queue' = queue \cup {obj.name}

(* A statement is answered, which leads to the step next; or its reply is  *)
(* lost, which the caller cannot tell from a failed call.                  *)
Reply(next) ==
  \/ pc' = next /\ UNCHANGED <<obj, queue, faults>>
  \/ faults < MaxFaults /\ faults' = faults + 1 /\ Requeue

Rejected == Requeue /\ UNCHANGED faults

(* The process ends.  The next one lists every object and reconciles it.   *)
Restart ==
  /\ Relist
  /\ queue' = {r \in Resources : store[r].present}
  /\ pc' = "idle"
  /\ obj' = NoRequest
  /\ UNCHANGED <<access, edits>>

(* WithRequestLogger, then r.Get from the informer cache; IgnoreNotFound   *)
(* drops the request.  WithValues of an empty logr.Logger (v1.2.3) panics, *)
(* and the panic ends the process.                                         *)
Begin(r) ==
  /\ pc = "idle"
  /\ r \in queue
  /\ IF ~HasLog
       THEN Restart
       ELSE /\ queue' = queue \ {r}
            /\ IF cache[r].present
                 THEN pc' = "connect" /\ obj' = cache[r]
                 ELSE UNCHANGED <<pc, obj>>
            /\ UNCHANGED <<store, watch, cache, access, edits>>
  /\ UNCHANGED faults

(* SetupPostgresConnection.                                                *)
Connect(next) ==
  /\ pc = "connect"
  /\ IF access THEN pc' = next /\ UNCHANGED <<obj, queue>> ELSE Requeue
  /\ UNCHANGED <<store, watch, cache, access, edits, faults>>

Succeed ==
  /\ pc = "succeeded"
  /\ Done
  /\ UNCHANGED <<store, watch, cache, access, edits, faults>>

(* A statement does not arrive, or the connection breaks.                  *)
CallFails ==
  /\ pc \notin {"idle", "connect", "succeeded"}
  /\ faults < MaxFaults
  /\ faults' = faults + 1
  /\ Requeue
  /\ UNCHANGED <<store, watch, cache, access, edits>>

Crash ==
  /\ faults < MaxFaults
  /\ faults' = faults + 1
  /\ Restart

LoseAccess ==
  /\ access
  /\ faults < MaxFaults
  /\ faults' = faults + 1
  /\ access' = FALSE
  /\ UNCHANGED <<store, watch, cache, queue, pc, obj, edits>>

RegainAccess ==
  /\ ~access
  /\ access' = TRUE
  /\ UNCHANGED <<store, watch, cache, queue, pc, obj, edits, faults>>

UserWrite ==
  /\ edits < MaxEdits
  /\ edits' = edits + 1
  /\ UNCHANGED <<queue, pc, obj, access, faults>>

UserCreate(r, s) == CreateObject(r, s, AnyOwner) /\ UserWrite
UserEdit(r, s) == store[r].spec # s /\ EditObject(r, s) /\ UserWrite
UserDelete(r) == DeleteObject(r, {}) /\ UserWrite

(* The informer's handler enqueues the object of every event.              *)
Event(o) ==
  /\ Deliver(o)
  /\ queue' = queue \cup {o.name}
  /\ UNCHANGED <<pc, obj, access, edits, faults>>

(* The manager's SyncPeriod enqueues every cached object.                  *)
Resync(r) ==
  /\ cache[r].present
  /\ r \notin queue
  /\ queue' = queue \cup {r}
  /\ UNCHANGED <<store, watch, cache, pc, obj, access, edits, faults>>

Informer == \E o \in watch : Event(o)

(* Steps that neither the worker nor the database takes part in.           *)
Around ==
  \/ LoseAccess \/ RegainAccess \/ Informer
  \/ \E r \in Resources : Resync(r) \/ UserDelete(r)

ReconcilerTypeOK ==
  /\ ApiTypeOK
  /\ queue \subseteq Resources
  /\ obj \in Object
  /\ access \in BOOLEAN
  /\ edits \in 0 .. MaxEdits
  /\ faults \in 0 .. MaxFaults

(* The objects there are, in the API server and in copies, have specs of S, *)
(* and the worker is never without an object.                              *)
CopiesWithin(S) ==
  /\ \A r \in Resources :
       /\ store[r].present => store[r].spec \in S
       /\ cache[r].present => cache[r].spec \in S
  /\ \A o \in watch : o.present => o.spec \in S
  /\ obj.present => obj.spec \in S
  /\ pc # "idle" => obj.present

=============================================================================

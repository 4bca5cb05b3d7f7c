------------------------------ MODULE Manager ------------------------------
(***************************************************************************)
(* main.go: one manager process.  With --leader-elect it runs its          *)
(* controllers only while it leads; without (the default) it always does.  *)
(* Its controllers are here the one of PostgresPublications.               *)
(*                                                                         *)
(* A process that does not lead has its informer running nevertheless: the *)
(* index of SetupWithManager makes it before the controllers start.  One   *)
(* that loses its lease exits, and is started again.  Another one acquires *)
(* the lease only after that (the lease lasts longer than its holder may   *)
(* go on without renewing it).                                             *)
(***************************************************************************)
EXTENDS PublicationInvariant

CONSTANTS
  Self,   \* this process
  NoOne   \* the holder of a lease that nobody holds

VARIABLES
  leaderElect, \* enableLeaderElection, the same for all processes
  leader       \* the holder of the lease

Running == leaderElect => leader = Self

Lease == UNCHANGED <<leaderElect, leader>>

ManagerInit == Init /\ leaderElect \in BOOLEAN /\ leader = NoOne

(* Mutant: the controller starts before its informer has caught up.        *)
Lead_Early ==
  /\ leaderElect
  /\ leader = NoOne
  /\ leader' = Self
  /\ queue' = {r \in Resources : cache[r].present}
  /\ UNCHANGED <<leaderElect, store, watch, cache,
                 pc, obj, pg, creator, relations, access, edits, faults>>

(* The controller starts on the cache that the informer has by then.  That *)
(* it has caught up is an assumption about time: a lease lasts longer than *)
(* the informer's lag.  Nothing in main.go or its libraries waits for it.  *)
Lead ==
  /\ leaderElect
  /\ leader = NoOne
  /\ watch = {}
  /\ leader' = Self
  /\ queue' = {r \in Resources : cache[r].present}
  /\ UNCHANGED <<leaderElect, store, watch, cache,
                 pc, obj, pg, creator, relations, access, edits, faults>>

(* Mutant: a process that loses its lease goes on with what it has begun.  *)
Exit_WorksOn ==
  /\ faults < MaxFaults
  /\ faults' = faults + 1
  /\ leader' = IF leader = Self THEN NoOne ELSE leader
  /\ UNCHANGED <<leaderElect, store, watch, cache,
                 queue, pc, obj, pg, creator, relations, access, edits>>

(* A crash, or the end of the process because its lease is lost.           *)
Exit ==
  /\ faults < MaxFaults
  /\ faults' = faults + 1
  /\ Relist
  /\ queue' = IF leaderElect THEN {} ELSE {r \in Resources : store[r].present}
  /\ pc' = "idle"
  /\ obj' = NoRequest
  /\ leader' = IF leader = Self THEN NoOne ELSE leader
  /\ UNCHANGED <<leaderElect, pg, creator, relations, access, edits>>

ManagerEvent(o) ==
  /\ IF Running
       THEN Event(o)
       ELSE /\ Deliver(o)
            /\ UNCHANGED <<queue, pc, obj,
                           pg, creator, relations, access, edits, faults>>
  /\ Lease

ManagerInformer == \E o \in watch : ManagerEvent(o)

ManagerWorker == Worker /\ Lease
ManagerBegin(r) == Running /\ Begin(r) /\ Lease
ManagerResync(r) == Running /\ Resync(r) /\ Lease

ManagerStep ==
  \/ ManagerWorker \/ ManagerInformer \/ Lead \/ Exit
  \/ CallFails /\ Lease
  \/ \E r \in Resources : ManagerBegin(r) \/ ManagerResync(r)

(* Users and administrators, outside of any manager.                       *)
Outside ==
  /\ \/ Users \/ LoseAccess \/ RegainAccess
     \/ \E p \in PublicationNames : DropByHand(p)
  /\ Lease

-----------------------------------------------------------------------------
(* The informer of a process that does not lead lags behind: it may take a *)
(* finalizer to be there that the leader has removed.  But it has nothing  *)
(* newer than the server's objects, and the server's present version of    *)
(* each has arrived or is on its way, after all older ones.                *)
Lagging ==
  /\ \A r \in Resources :
       /\ cache[r].name = r
       /\ cache[r].rv <= store[r].rv
       /\ store[r] \in watch \cup {cache[r]}
  /\ \A o \in watch : cache[o.name].rv < o.rv /\ o.rv <= store[o.name].rv
  /\ \A o, p \in watch : o.name = p.name /\ o.rv = p.rv => o = p

(* The leader works by the invariant of PublicationInvariant, as if it     *)
(* were alone; any other process does nothing but listen.                  *)
ProcessInv == IF leader = Self THEN Inv ELSE Lagging /\ pc = "idle"

=============================================================================

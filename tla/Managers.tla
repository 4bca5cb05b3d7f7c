------------------------------ MODULE Managers ------------------------------
(***************************************************************************)
(* Two manager processes over one API server and one PostgreSQL.           *)
(***************************************************************************)
CONSTANTS
  Resources, Owners, SpecsOf, OperatorFinalizer, ForeignFinalizers,
  PublicationNames, Tables, Operations, PreExisting, ByHand,
  Volatile, NoResource, NoOne, MaxEdits, MaxFaults

VARIABLES
  store, pg, creator, relations, access, edits, faults, leaderElect, leader,
  watchA, cacheA, queueA, pcA, objA,  \* one process
  watchB, cacheB, queueB, pcB, objB   \* the other

A == INSTANCE Manager WITH Self <- "A",
       watch <- watchA, cache <- cacheA, queue <- queueA, pc <- pcA, obj <- objA

B == INSTANCE Manager WITH Self <- "B",
       watch <- watchB, cache <- cacheB, queue <- queueB, pc <- pcB, obj <- objB

(* The tables of the database stay as they are, and no other controller    *)
(* has a finalizer of its own on the objects: Outside is all that happens  *)
(* outside of the managers.                                                *)
ASSUME ManagersAssumption ==
  /\ A!ResourcesAssumption
  /\ A!PublicationAssumption
  /\ Volatile = {}
  /\ ForeignFinalizers = {}
  /\ NoOne \notin {"A", "B"}

vars == <<store, pg, creator, relations, access, edits, faults,
          leaderElect, leader,
          watchA, cacheA, queueA, pcA, objA, watchB, cacheB, queueB, pcB, objB>>

Init == A!ManagerInit /\ B!ManagerInit

(* What one process or a user writes is also on its way to the other's     *)
(* informer.                                                               *)
Versions == {store'[r] : r \in {q \in Resources : store'[q] # store[q]}}

NotifyA == watchA' = watchA \cup Versions /\ UNCHANGED <<cacheA, queueA, pcA, objA>>
NotifyB == watchB' = watchB \cup Versions /\ UNCHANGED <<cacheB, queueB, pcB, objB>>

StepA == A!ManagerStep /\ NotifyB
StepB == B!ManagerStep /\ NotifyA
Outside == A!Outside /\ B!Outside

Next == StepA \/ StepB \/ Outside

Spec == Init /\ [][Next]_vars

(* As in PublicationController, for each process; and a lease that nobody  *)
(* holds is acquired.                                                      *)
FairA ==
  /\ WF_vars(A!ManagerWorker /\ NotifyB)
  /\ WF_vars(A!ManagerInformer /\ NotifyB)
  /\ WF_vars(A!Lead /\ NotifyB)
  /\ \A r \in Resources :
       SF_vars(A!ManagerBegin(r) /\ NotifyB) /\ WF_vars(A!ManagerResync(r) /\ NotifyB)

FairB ==
  /\ WF_vars(B!ManagerWorker /\ NotifyA)
  /\ WF_vars(B!ManagerInformer /\ NotifyA)
  /\ WF_vars(B!Lead /\ NotifyA)
  /\ \A r \in Resources :
       SF_vars(B!ManagerBegin(r) /\ NotifyA) /\ WF_vars(B!ManagerResync(r) /\ NotifyA)

FairSpec == Spec /\ FairA /\ FairB

-----------------------------------------------------------------------------
(* Every variable holds a value of its type.                               *)
TypeOK ==
  /\ A!TypeOK
  /\ B!TypeOK
  /\ leaderElect \in BOOLEAN
  /\ leader \in {"A", "B", NoOne}

(* With leader election, and only then, no publication outlives its        *)
(* object.                                                                 *)
NoOrphan == leaderElect => A!NoOrphan

(* The inductive invariant.  With leader election, whoever leads can rely  *)
(* on all that a single process relies on, and the next holder of the      *)
(* lease will be able to.  What an object that changes its name leaves     *)
(* behind, NoOrphan does not cover.                                        *)
Inv ==
  /\ TypeOK
  /\ leaderElect => /\ A!StoreInv /\ A!ProcessInv /\ B!ProcessInv
                    /\ A!NamesStable => A!NoOrphan /\ A!CreatorNames

(* What either process may yet drop.                                       *)
DoomedNow == [r \in Resources |-> A!DoomedNow[r] \cup B!DoomedNow[r]]

Lifecycle == INSTANCE PublicationLifecycle WITH
  Objects <- Resources,
  Publications <- PublicationNames,
  NamesOf <- A!PossibleNames,
  Unprotected <- ByHand,
  Nothing <- NoResource,
  life <- A!StatusNow,
  naming <- A!NamingNow,
  guarded <- A!GuardedNow,
  doomed <- DoomedNow,
  published <- A!PublishedNow

(* With leader election two managers keep the promise of one, from the     *)
(* last step of one to the first of the other: what the new leader drops   *)
(* has been deleted, and what it gives up is gone.                         *)
ImplementsLifecycle ==
  /\ Lifecycle!LifeInit
  /\ [][leaderElect => Lifecycle!LifeNext]_(Lifecycle!lifeVars)

(* An object that stays gets its publication for good, also when two       *)
(* managers work on it at once.                                            *)
Converges == A!Converges

(* Likewise, every deletion is carried out.                                *)
DropEventually == leaderElect => A!DropEventually

=============================================================================

------------------------ MODULE PublicationLifecycle ------------------------
(***************************************************************************)
(* What the operator promises of PostgresPublication objects and of the    *)
(* publications they name, whatever the order of calls, crashes and stale  *)
(* reads: it makes a publication only under the protection of a finalizer, *)
(* drops one only for an object that its user has deleted, and gives up an *)
(* object's finalizer only when what the object names is gone.  A deletion *)
(* may be acted on late: the object can be gone, and the publication be    *)
(* another object's.                                                       *)
(*                                                                         *)
(* Objects may share a publication and may be given another name at any    *)
(* time.  Publications may be there before any object, and administrators  *)
(* may drop some of them.                                                  *)
(***************************************************************************)
CONSTANTS
  Objects,
  Publications,
  NamesOf,      \* NamesOf[o]: the publications that object o may name
  Unprotected,  \* publications that administrators may drop
  Nothing       \* what an absent object names

VARIABLES
  life,      \* "absent", "live" or "terminating"
  naming,    \* the publication an object names now
  guarded,   \* the operator's finalizer is on the object
  doomed,    \* what the operator may yet drop for an object
  published  \* the publications that exist

lifeVars == <<life, naming, guarded, doomed, published>>

LifeInit ==
  /\ life = [o \in Objects |-> "absent"]
  /\ naming = [o \in Objects |-> Nothing]
  /\ guarded = [o \in Objects |-> FALSE]
  /\ doomed = [o \in Objects |-> {}]
  /\ published \subseteq Publications

Submit(o) ==
  /\ life[o] = "absent"
  /\ life' = [life EXCEPT ![o] = "live"]
  /\ \E p \in NamesOf[o] : naming' = [naming EXCEPT ![o] = p]
  /\ UNCHANGED <<guarded, published>>

Rename(o) ==
  /\ life[o] # "absent"
  /\ \E p \in NamesOf[o] : naming' = [naming EXCEPT ![o] = p]
  /\ UNCHANGED <<life, guarded, published>>

Withdraw(o) ==
  /\ life[o] = "live"
  /\ life' = [life EXCEPT ![o] = "terminating"]
  /\ UNCHANGED <<naming, guarded, published>>

(* Without the finalizer an object may go at any time.                     *)
Vanish(o) ==
  /\ life[o] # "absent"
  /\ ~guarded[o]
  /\ life' = [life EXCEPT ![o] = "absent"]
  /\ naming' = [naming EXCEPT ![o] = Nothing]
  /\ UNCHANGED <<guarded, published>>

Guard(o) ==
  /\ life[o] = "live"
  /\ ~guarded[o]
  /\ guarded' = [guarded EXCEPT ![o] = TRUE]
  /\ UNCHANGED <<life, naming, published>>

(* The object may have been deleted or renamed since it was read, but is   *)
(* still there.                                                            *)
Provision(o, p) ==
  /\ guarded[o]
  /\ p \in NamesOf[o]
  /\ published' = published \cup {p}
  /\ UNCHANGED <<life, naming, guarded>>

Drop(o, p) ==
  /\ p \in doomed[o]
  /\ published' = published \ {p}
  /\ UNCHANGED <<life, naming, guarded>>

(* The finalizer goes when nothing is left that the object names now; it   *)
(* goes last, or another finalizer still keeps the object.                 *)
Unguard(o) ==
  /\ life[o] = "terminating"
  /\ guarded[o]
  /\ naming[o] \notin published
  /\ guarded' = [guarded EXCEPT ![o] = FALSE]
  /\ \/ UNCHANGED <<life, naming>>
     \/ /\ life' = [life EXCEPT ![o] = "absent"]
        /\ naming' = [naming EXCEPT ![o] = Nothing]
  /\ UNCHANGED published

DropByOthers(p) ==
  /\ p \in Unprotected
  /\ published' = published \ {p}
  /\ UNCHANGED <<life, naming, guarded>>

LifeStep ==
  \/ \E o \in Objects :
       \/ Submit(o) \/ Rename(o) \/ Withdraw(o) \/ Vanish(o)
       \/ Guard(o) \/ Unguard(o)
       \/ \E p \in Publications : Provision(o, p) \/ Drop(o, p)
  \/ \E p \in Publications : DropByOthers(p)
  \/ UNCHANGED <<life, naming, guarded, published>>

(* Only what a deleted and guarded object names becomes doomed.  The       *)
(* operator may forget it at any time.                                     *)
Doom ==
  /\ doomed' \in [Objects -> SUBSET Publications]
  /\ \A o \in Objects : \A p \in doomed'[o] \ doomed[o] :
       life'[o] = "terminating" /\ guarded'[o] /\ naming'[o] = p

LifeNext == LifeStep /\ Doom

LifeSpec == LifeInit /\ [][LifeNext]_lifeVars

=============================================================================

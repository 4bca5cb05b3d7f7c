------------------------ MODULE PublicationInvariant ------------------------
(***************************************************************************)
(* The inductive invariant of PublicationController: what the worker's     *)
(* copy, the informer's cache and the versions on their way to it have to  *)
(* do with the API server's objects.                                       *)
(***************************************************************************)
EXTENDS PublicationController

(* A copy is a version of its object; and if the operator guarded the      *)
(* object it copies and nobody had deleted it, then the server's object is *)
(* still guarded.                                                          *)
Faithful(o) ==
  /\ Version(o)
  /\ o.present /\ ~o.deleting /\ Held(o) => Held(store[o.name])

WellFormed(o) ==
  /\ o.spec \in SpecsOf[o.name]
  /\ ~o.present => o.finalizers = {}

StoreInv ==
  \A r \in Resources :
    /\ store[r].name = r
    /\ WellFormed(store[r])

(* The informer learns of versions in order.                               *)
InformerInv ==
  /\ \A r \in Resources :
       cache[r].name = r /\ Faithful(cache[r]) /\ WellFormed(cache[r])
  /\ \A o \in watch :
       Faithful(o) /\ WellFormed(o) /\ cache[o.name].rv < o.rv
  /\ \A o, p \in watch : o.name = p.name /\ o.rv = p.rv => o = p

(* What each step of the worker may rely on.                               *)
WorkerInv ==
  /\ pc # "idle" => obj.present /\ Faithful(obj) /\ WellFormed(obj)
  /\ pc = "addFinalizer" => ~obj.deleting
  /\ pc \in {"create", "setTables", "setPublish"} => ~obj.deleting /\ Held(obj)
  /\ pc \in {"drop", "removeFinalizer"} => obj.deleting /\ Held(obj)
  /\ pc \in {"connect", "addFinalizer", "drop", "removeFinalizer"} =>
       obj.rv <= cache[obj.name].rv
  /\ pc = "removeFinalizer" => ~pg[obj.spec.name].exists

(* The worker and the informer never run ahead of the API server, the      *)
(* worker's decisions come from a version no newer than the informer's,    *)
(* and when it is about to give up the finalizer nothing is left to drop.  *)
Inv == StoreInv /\ InformerInv /\ WorkerInv

(* A creator's specs all name the publication it created.                  *)
CreatorNames ==
  \A p \in PublicationNames : creator[p] # NoResource =>
    \A s \in SpecsOf[creator[p]] : s.name = p

(* Between the two statements of an ALTER the publication, if it is still  *)
(* there, lists the tables of the spec but those that others have dropped. *)
AlterInv ==
  pc = "setPublish" /\ pg[obj.spec.name].exists =>
    /\ ~pg[obj.spec.name].allTables
    /\ obj.spec.tables # {}
    /\ \E lost \in SUBSET Volatile :
         pg[obj.spec.name].tables \cup lost = obj.spec.tables

=============================================================================

--------------------------- MODULE Reconciliation ---------------------------
(***************************************************************************)
(* What a controller promises about the objects of its cluster, without    *)
(* saying how: while it works for one observed version of its owner, it    *)
(* only provides objects that version wants, and only removes objects this *)
(* very incarnation controls, that the version does not want, and that the *)
(* cleanup tables let it delete. There is no tracked set, no listing and   *)
(* no goroutine here.                                                      *)
(*                                                                         *)
(* One window is part of the promise: an object that somebody else created *)
(* while the reconcile was running, under a key the operator had seen      *)
(* carrying its own reference, may be removed too (the delete call names   *)
(* the key and states no precondition).                                    *)
(***************************************************************************)
EXTENDS Cluster

VARIABLES
  owner,     \* the owner stored by the API server
  objs,      \* the objects stored by the API server
  seen,      \* the owner version the current reconcile works for
  replaced,  \* keys others have created since that reconcile began
  actor      \* who took the last step

rvars == <<owner, objs, seen, replaced, actor>>

\* A user creates, edits or deletes the owner.
OwnerChanges ==
  /\ owner' \in Owner
  /\ actor' = "user"
  /\ UNCHANGED <<objs, seen, replaced>>

\* Somebody else creates an object.
OthersCreate(k) ==
  /\ objs[k] = Absent
  /\ \E o \in OthersObject(k, owner) : objs' = [objs EXCEPT ![k] = o]
  /\ replaced' = replaced \cup {k}
  /\ actor' = "others"
  /\ UNCHANGED <<owner, seen>>

\* Somebody else deletes an object.
OthersDelete(k) ==
  /\ objs' = [objs EXCEPT ![k] = Absent]
  /\ actor' = "others"
  /\ UNCHANGED <<owner, seen, replaced>>

\* The garbage collector deletes an object whose owner is gone.
Collect(k) ==
  /\ objs[k] # Absent
  /\ objs[k].ctrl \in Uids \ {owner.uid}
  /\ objs' = [objs EXCEPT ![k] = Absent]
  /\ actor' = "gc"
  /\ UNCHANGED <<owner, seen, replaced>>

\* A reconcile begins for some version of the owner, or ends.
Observe ==
  /\ seen' \in Owner
  /\ replaced' = {}
  /\ actor' = "operator"
  /\ UNCHANGED <<owner, objs>>

\* The operator creates or adopts a desired object.
Provide(k) ==
  /\ seen.uid # NoUid
  /\ k \in Desired(seen.spec)
  /\ Appliable(k, objs[k])
  /\ objs' = [objs EXCEPT ![k] = AppliedObject(k, @, seen.uid)]
  /\ actor' = "operator"
  /\ UNCHANGED <<owner, seen, replaced>>

\* The operator removes an orphan of the owner it works for.
Remove(k) ==
  /\ seen.uid # NoUid
  /\ k \in Deletable \ Desired(seen.spec)
  /\ objs[k] # Absent
  /\ objs[k].ctrl = seen.uid \/ k \in replaced
  /\ objs' = [objs EXCEPT ![k] = Absent]
  /\ actor' = "operator"
  /\ UNCHANGED <<owner, seen, replaced>>

\* The operator does something that leaves the cluster alone.
Work ==
  /\ actor' = "operator"
  /\ UNCHANGED <<owner, objs, seen, replaced>>

Init ==
  /\ owner = NoOwner
  /\ objs = [k \in Keys |-> Absent]
  /\ seen = NoOwner
  /\ replaced = {}
  /\ actor = "user"

Next ==
  \/ OwnerChanges
  \/ Observe
  \/ Work
  \/ \E k \in Keys : OthersCreate(k) \/ OthersDelete(k) \/ Collect(k)
                       \/ Provide(k) \/ Remove(k)

Spec == Init /\ [][Next]_rvars
=============================================================================

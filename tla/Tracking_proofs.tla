-------------------------- MODULE Tracking_proofs --------------------------
(***************************************************************************)
(* The tracking client is safe for every set of keys, kinds, allow lists   *)
(* and owner incarnations, and for any number of edits, faults and         *)
(* intrusions.                                                             *)
(***************************************************************************)
EXTENDS Tracking, TLAPS

USE DEF api, watch, local, bounds

\* What an apply leaves behind is an object; on a CRD it has no owner's
\* reference unless one was there before.
LEMMA AppliedIsObject ==
  ASSUME NEW k \in Keys, NEW o \in Object \cup {Absent}, NEW u \in Uids \cup {NoUid}
  PROVE  /\ AppliedObject(k, o, u) \in Object
         /\ AppliedObject(k, o, u) # Absent
         /\ k \in CRDs /\ (o # Absent => o.ctrl \notin Uids)
              => AppliedObject(k, o, u).ctrl \notin Uids
<1>1. Absent \notin Object
  BY IdentityAssumption DEF Object
<1>2. ASSUME NEW c \in Uids \cup {NoUid, Foreign}
      PROVE  [ctrl |-> c, labelled |-> TRUE] \in Object
  BY DEF Object
<1>3. CASE k \notin CRDs
  <2>1. AppliedObject(k, o, u) = [ctrl |-> u, labelled |-> TRUE]
    BY <1>3 DEF AppliedObject
  <2> QED
    BY <1>1, <1>2, <1>3, <2>1
<1>4. CASE k \in CRDs /\ o = Absent
  <2>1. AppliedObject(k, o, u) = [ctrl |-> NoUid, labelled |-> TRUE]
    BY <1>4 DEF AppliedObject
  <2>2. AppliedObject(k, o, u).ctrl = NoUid
    BY <2>1
  <2> QED
    BY <1>1, <1>2, <2>1, <2>2, IdentityAssumption
<1>5. CASE k \in CRDs /\ o # Absent
  <2>1. AppliedObject(k, o, u) = [ctrl |-> o.ctrl, labelled |-> TRUE]
    BY <1>5 DEF AppliedObject
  <2>2. AppliedObject(k, o, u).ctrl = o.ctrl
    BY <2>1
  <2>3. o.ctrl \in Uids \cup {NoUid, Foreign}
    BY <1>5 DEF Object
  <2> QED
    BY <1>1, <1>2, <1>5, <2>1, <2>2, <2>3
<1> QED
  BY <1>3, <1>4, <1>5

\* The manifest is a finite list of objects to apply.
LEMMA ManifestLength == Len(Manifest) \in Nat
BY KeysAssumption

\* What others may create is an object.
LEMMA OthersIsObject ==
  ASSUME NEW k \in Keys, NEW o \in Owner, NEW x \in OthersObject(k, o)
  PROVE  x \in Object /\ x # Absent /\ (k \in CRDs => x.ctrl \notin Uids)
BY IdentityAssumption DEF OthersObject, Object, Owner

\* What is desired is a set of keys.
LEMMA DesiredKeys ==
  ASSUME NEW s \in SUBSET Optional
  PROVE  Desired(s) \subseteq Applied /\ Applied \subseteq Keys
BY KeysAssumption DEF Desired, Applied

\* A listing by owner label consists of items.
LEMMA LabelledItems ==
  ASSUME TypeOK, NEW g \in CleanupKinds
  PROVE  Labelled(g) \subseteq Item
BY DEF TypeOK, Labelled, Item, Object

\* A new incarnation of the owner has one of the identities.
LEMMA NewUidType == Uids \ used # {} => NewUid \in Uids \ used
BY DEF NewUid

\* The missing owner counts as an owner version.
LEMMA NoOwnerIsOwner == NoOwner \in Owner
BY DEF NoOwner, Owner

(***************************************************************************)
(* Typing                                                                  *)
(***************************************************************************)

\* The freshly started operator has well-typed state.
LEMMA TypeInit == Init => TypeOK
<1> SUFFICES ASSUME Init PROVE TypeOK
  OBVIOUS
<1>1. next \in 1..(Len(Manifest) + 1)
  BY ManifestLength DEF Init
<1>2. worker \in [CleanupKinds -> WorkerState] /\ listed \in [CleanupKinds -> SUBSET Item]
  BY DEF Init, NoListing, AllWorkers, WorkerState
<1>3. edits \in Nat /\ faults \in Nat /\ intrusions \in Nat
  BY BudgetsAssumption DEF Init
<1> QED
  BY <1>1, <1>2, <1>3, NoOwnerIsOwner DEF Init, TypeOK

\* Every call, goroutine step, fault and outside action keeps the types.
LEMMA TypeStep == TypeOK /\ [Next]_vars => TypeOK'
<1> SUFFICES ASSUME TypeOK, [Next]_vars PROVE TypeOK'
  OBVIOUS
<1> USE ManifestLength, NoOwnerIsOwner DEF TypeOK
<1>0. Return => /\ pc' = "idle" /\ seen' \in Owner /\ next' \in 1..(Len(Manifest) + 1)
                /\ tracked' \subseteq Keys /\ replaced' \subseteq Keys
                /\ worker' \in [CleanupKinds -> WorkerState]
                /\ listed' \in [CleanupKinds -> SUBSET Item]
                /\ cancelled' \in BOOLEAN
  <2> SUFFICES ASSUME Return PROVE /\ next' \in 1..(Len(Manifest) + 1)
                                   /\ worker' \in [CleanupKinds -> WorkerState]
                                   /\ listed' \in [CleanupKinds -> SUBSET Item]
    BY DEF Return
  <2> QED
    BY DEF Return, AllWorkers, NoListing, WorkerState
<1>1. CASE Users
  <2>1. CASE CreateOwner
    BY <2>1, NewUidType DEF CreateOwner, Owner
  <2>2. CASE EditSpec
    BY <2>2 DEF EditSpec, Owner
  <2>3. CASE DeleteOwner
    BY <2>3 DEF DeleteOwner
  <2> QED
    BY <1>1, <2>1, <2>2, <2>3 DEF Users
<1>2. ASSUME NEW k \in Keys, OthersCreate(k) PROVE TypeOK'
  <2>1. PICK o \in OthersObject(k, owner) : objs' = [objs EXCEPT ![k] = o]
    BY <1>2 DEF OthersCreate
  <2>2. objs' \in [Keys -> Object \cup {Absent}]
    BY <2>1, OthersIsObject
  <2>3. news' \in BOOLEAN
    BY <1>2 DEF OthersCreate, Reported
  <2>4. QED
    BY <1>2, <2>2, <2>3 DEF OthersCreate
<1>3. ASSUME NEW k \in Keys, OthersDelete(k) PROVE TypeOK'
  BY <1>3 DEF OthersDelete, Reported
<1>4. ASSUME NEW k \in Keys, Collect(k) PROVE TypeOK'
  BY <1>4 DEF Collect
<1>5. CASE Delivery
  BY <1>5 DEF Delivery, SyncOwner, DeliverNews
<1>6. CASE Begin \/ BeginNotFound
  BY <1>6 DEF Begin, BeginNotFound
<1>7. ASSUME NEW k \in Keys, Skip(k) PROVE TypeOK'
  BY <1>7 DEF Skip, Pending
<1>8. ASSUME NEW k \in Keys, ApplyOwned(k) PROVE TypeOK'
  <2>1. AppliedObject(k, objs[k], seen.uid) \in Object
    BY AppliedIsObject DEF Owner
  <2> QED
    BY <1>8, <2>1 DEF ApplyOwned, Pending
<1>9. ASSUME NEW k \in Keys, ApplyFails(k) PROVE TypeOK'
  BY <1>9 DEF ApplyFails
<1>10. ASSUME NEW k \in Keys, ApplyLost(k) PROVE TypeOK'
  <2>1. AppliedObject(k, objs[k], seen.uid) \in Object
    BY AppliedIsObject DEF Owner
  <2> QED
    BY <1>10, <2>1 DEF ApplyLost
<1>11. CASE CleanupOrphans
  BY <1>11 DEF CleanupOrphans, AllWorkers, WorkerState
<1>12. ASSUME NEW g \in CleanupKinds, List(g) PROVE TypeOK'
  BY <1>12, LabelledItems DEF List, WorkerState
<1>13. ASSUME NEW g \in CleanupKinds, NEW it \in listed[g], SpareItem(g, it) PROVE TypeOK'
  BY <1>13 DEF SpareItem
<1>14. ASSUME NEW g \in CleanupKinds, NEW it \in listed[g], DeleteItem(g, it) PROVE TypeOK'
  BY <1>14 DEF DeleteItem, Reported
<1>15. ASSUME NEW g \in CleanupKinds, NEW it \in listed[g], DeleteLost(g, it) PROVE TypeOK'
  <2>1. worker' \in [CleanupKinds -> WorkerState]
    BY <1>15 DEF DeleteLost, WorkerState
  <2>2. objs' \in [Keys -> Object \cup {Absent}] /\ news' \in BOOLEAN
    BY <1>15 DEF DeleteLost, Reported
  <2> QED
    BY <1>15, <2>1, <2>2 DEF DeleteLost
<1>16. ASSUME NEW g \in CleanupKinds, WorkerDone(g) \/ WorkerFails(g) PROVE TypeOK'
  <2>1. worker' \in [CleanupKinds -> WorkerState]
    BY <1>16 DEF WorkerDone, WorkerFails, WorkerState
  <2>2. faults' \in Nat
    BY <1>16 DEF WorkerDone, WorkerFails
  <2>3. cancelled' \in BOOLEAN
    BY <1>16 DEF WorkerDone, WorkerFails
  <2> QED
    BY <1>16, <2>1, <2>2, <2>3 DEF WorkerDone, WorkerFails
<1>17. CASE CleanupSucceeds
  BY <1>17, <1>0 DEF CleanupSucceeds
<1>18. CASE CleanupFails
  BY <1>18 DEF CleanupFails
<1>19. CASE HandleError
  BY <1>19, <1>0 DEF HandleError
<1>20. CASE Crash
  <2>1. faults' \in Nat
    BY <1>20 DEF Crash
  <2>2. Return /\ queued' \in BOOLEAN /\ news' \in BOOLEAN
    BY <1>20, Zenon DEF Crash
  <2> QED
    BY <1>20, <1>0, <2>1, <2>2 DEF Crash
<1>21. CASE UNCHANGED vars
  BY <1>21 DEF vars
<1> QED
  BY <1>1, <1>2, <1>3, <1>4, <1>5, <1>6, <1>7, <1>8, <1>9, <1>10, <1>11, <1>12, <1>13, <1>14,
     <1>15, <1>16, <1>17, <1>18, <1>19, <1>20, <1>21
  DEF Next, Others, Reconcile, Applying, Worker, Deleting

\* Every variable keeps its type (tracking.go, whole client).
THEOREM TypeCorrect == Spec => []TypeOK
<1>1. Init => TypeOK
  BY TypeInit
<1>2. TypeOK /\ [Next]_vars => TypeOK'
  BY TypeStep
<1> QED
  BY <1>1, <1>2, PTL DEF Spec

(***************************************************************************)
(* The inductive invariant                                                 *)
(***************************************************************************)

\* The freshly started operator satisfies the inductive invariant.
LEMMA InvInit == Init => IInv
<1> SUFFICES ASSUME Init PROVE IInv
  OBVIOUS
<1>1. TypeOK
  BY TypeInit
<1>2. OwnersWellFormed /\ PhasesWellFormed
  BY DEF Init, OwnersWellFormed, PhasesWellFormed, AllWorkers, NoListing, NoOwner
<1>3. TrackedSoFar /\ CleanupStartsComplete /\ ListedStillOwned /\ OrphansListed
  BY DEF Init, TrackedSoFar, CleanupStartsComplete, ListedStillOwned, OrphansListed, NoListing
<1>4. CRDsUncontrolled /\ UnservedEmpty
  BY KeysAssumption DEF Init, CRDsUncontrolled, UnservedEmpty
<1> QED
  BY <1>1, <1>2, <1>3, <1>4 DEF IInv

\* Between two applies the tracked set grows by exactly the key at hand.
LEMMA ManifestStep ==
  ASSUME TypeOK, NEW k \in Keys, Pending(k), next' = next + 1, pc' = pc, seen' = seen,
         TrackedSoFar,
         tracked' = IF k \in Desired(seen.spec) THEN tracked \cup {k} ELSE tracked
  PROVE  TrackedSoFar'
<1> DEFINE Before(n) == {j \in Desired(seen.spec) : \E i \in 1..(n - 1) : j = Manifest[i]}
<1>1. tracked = Before(next) /\ k = Manifest[next] /\ next \in Nat \ {0}
  BY ManifestLength DEF TrackedSoFar, Pending, TypeOK
<1>2. 1..next = 1..(next - 1) \cup {next}
  BY <1>1
<1>3. tracked' = Before(next + 1)
  BY <1>1, <1>2
<1> QED
  BY <1>3 DEF TrackedSoFar

\* With the manifest exhausted the tracked set is the desired state.
LEMMA ManifestEnd ==
  ASSUME TypeOK, TrackedSoFar, pc = "apply", next > Len(Manifest)
  PROVE  tracked = Desired(seen.spec)
<1>1. next - 1 = Len(Manifest)
  BY ManifestLength DEF TypeOK
<1>2. Desired(seen.spec) \subseteq Applied
  BY DesiredKeys DEF TypeOK, Owner
<1> QED
  BY <1>1, <1>2 DEF TrackedSoFar, Applied

\* Every step preserves the inductive invariant: one case per action, and
\* under it one step per conjunct the action can disturb.
LEMMA InvStep == IInv /\ [Next]_vars => IInv'
<1> SUFFICES ASSUME IInv, [Next]_vars PROVE IInv'
  OBVIOUS
<1> USE DEF IInv
<1>type. TypeOK'
  BY TypeStep
<1>cluster. UNCHANGED objs => CRDsUncontrolled' /\ UnservedEmpty'
  BY DEF CRDsUncontrolled, UnservedEmpty
<1>phases. UNCHANGED <<pc, seen, next, tracked, worker, listed>> => PhasesWellFormed'
  BY DEF PhasesWellFormed
<1>progress. UNCHANGED <<pc, seen, next, tracked>> => TrackedSoFar' /\ CleanupStartsComplete'
  BY DEF TrackedSoFar, CleanupStartsComplete
<1>deletion. UNCHANGED <<objs, pc, seen, tracked, worker, listed, replaced>>
               => ListedStillOwned' /\ OrphansListed'
  BY DEF ListedStillOwned, OrphansListed
<1>before. pc' # "cleanup" /\ UNCHANGED listed
             => ListedStillOwned' /\ OrphansListed' /\ CleanupStartsComplete'
  BY DEF ListedStillOwned, OrphansListed, CleanupStartsComplete
<1>owners. UNCHANGED <<owner, cached, seen>> => OwnersWellFormed'
  BY DEF OwnersWellFormed
<1>return. Return => /\ PhasesWellFormed' /\ TrackedSoFar' /\ CleanupStartsComplete'
                     /\ ListedStillOwned' /\ OrphansListed' /\ seen' = NoOwner
  BY DEF Return, PhasesWellFormed, TrackedSoFar, CleanupStartsComplete, ListedStillOwned,
         OrphansListed, AllWorkers, NoListing
<1>1. CASE Users
  <2>1. OwnersWellFormed'
    BY <1>1, IdentityAssumption, NewUidType
    DEF Users, CreateOwner, EditSpec, DeleteOwner, OwnersWellFormed, NoOwner, TypeOK, Owner
  <2> QED
    BY <1>1, <1>type, <1>cluster, <1>phases, <1>progress, <1>deletion, <2>1
    DEF Users, CreateOwner, EditSpec, DeleteOwner
<1>2. ASSUME NEW k \in Keys, OthersCreate(k) PROVE IInv'
  <2>1. PICK o \in OthersObject(k, owner) : objs' = [objs EXCEPT ![k] = o]
    BY <1>2 DEF OthersCreate
  <2>2. o \in Object /\ o # Absent /\ (k \in CRDs => o.ctrl \notin Uids)
    BY OthersIsObject DEF TypeOK
  <2>3. CRDsUncontrolled'
    BY <2>1, <2>2 DEF CRDsUncontrolled, TypeOK
  <2>4. UnservedEmpty'
    BY <1>2, <2>1 DEF OthersCreate, UnservedEmpty, TypeOK
  <2>5. ListedStillOwned' /\ OrphansListed'
    BY <1>2, <2>1 DEF OthersCreate, ListedStillOwned, OrphansListed, TypeOK, Item, Deletable
  <2> QED
    BY <1>2, <1>type, <1>phases, <1>progress, <1>owners, <2>3, <2>4, <2>5 DEF OthersCreate
<1>3. ASSUME NEW k \in Keys, OthersDelete(k) \/ Collect(k) PROVE IInv'
  <2>1. objs' = [objs EXCEPT ![k] = Absent]
    BY <1>3 DEF OthersDelete, Collect
  <2>2. UNCHANGED <<owner, cached, local, replaced>>
    BY <1>3 DEF OthersDelete, Collect
  <2>3. CRDsUncontrolled' /\ UnservedEmpty'
    BY <2>1 DEF CRDsUncontrolled, UnservedEmpty, TypeOK
  <2>4. ListedStillOwned' /\ OrphansListed'
    BY <2>1, <2>2 DEF ListedStillOwned, OrphansListed, TypeOK, Item, Deletable
  <2> QED
    BY <1>type, <1>phases, <1>progress, <1>owners, <2>2, <2>3, <2>4
<1>4. CASE Delivery
  <2>1. OwnersWellFormed'
    BY <1>4 DEF Delivery, SyncOwner, DeliverNews, OwnersWellFormed
  <2> QED
    BY <1>4, <1>type, <1>cluster, <1>phases, <1>progress, <1>deletion, <2>1
    DEF Delivery, SyncOwner, DeliverNews
<1>5. CASE Begin
  <2>1. seen'.uid \in Uids
    BY <1>5 DEF Begin, OwnersWellFormed, TypeOK, Owner
  <2>2. PhasesWellFormed' /\ OwnersWellFormed'
    BY <1>5, <2>1 DEF Begin, PhasesWellFormed, OwnersWellFormed
  <2>3. TrackedSoFar'
    <3>1. next' = 1 /\ tracked' = {}
      BY <1>5 DEF Begin, PhasesWellFormed
    <3> QED
      BY <3>1 DEF TrackedSoFar
  <2> QED
    BY <1>5, <1>type, <1>cluster, <1>before, <2>2, <2>3 DEF Begin
<1>6. CASE BeginNotFound
  BY <1>6, <1>type, <1>cluster, <1>phases, <1>progress, <1>deletion, <1>owners DEF BeginNotFound
<1>7. ASSUME NEW k \in Keys, Skip(k) PROVE IInv'
  <2>1. TrackedSoFar'
    BY <1>7, ManifestStep DEF Skip
  <2>2. PhasesWellFormed'
    BY <1>7 DEF Skip, Pending, PhasesWellFormed
  <2> QED
    BY <1>7, <1>type, <1>cluster, <1>before, <1>owners, <2>1, <2>2 DEF Skip, Pending
<1>8. ASSUME NEW k \in Keys, ApplyOwned(k) \/ ApplyLost(k) PROVE IInv'
  <2>1. /\ objs' = [objs EXCEPT ![k] = AppliedObject(k, objs[k], seen.uid)]
        /\ pc = "apply" /\ pc' # "cleanup" /\ k \in Desired(seen.spec)
        /\ UNCHANGED <<owner, cached, seen, worker, listed>>
    BY <1>8 DEF ApplyOwned, ApplyLost, Pending
  <2>2. AppliedObject(k, objs[k], seen.uid).ctrl \notin Uids \/ k \notin CRDs
    BY AppliedIsObject DEF CRDsUncontrolled, TypeOK, Owner
  <2>3. CRDsUncontrolled'
    BY <2>1, <2>2 DEF CRDsUncontrolled, TypeOK
  <2>4. kindOf[k] \notin Unserved
    BY <2>1, UnservedAssumption, DesiredKeys DEF TypeOK, Owner
  <2>5. UnservedEmpty'
    BY <2>1, <2>4 DEF UnservedEmpty, TypeOK
  <2>6. TrackedSoFar'
    <3>1. CASE ApplyOwned(k)
      BY <3>1, ManifestStep DEF ApplyOwned
    <3>2. CASE ApplyLost(k)
      BY <3>2 DEF ApplyLost, TrackedSoFar
    <3> QED
      BY <1>8, <3>1, <3>2
  <2>7. PhasesWellFormed'
    BY <1>8, <2>1 DEF ApplyOwned, ApplyLost, PhasesWellFormed
  <2> QED
    BY <1>type, <1>before, <1>owners, <2>1, <2>3, <2>5, <2>6, <2>7
<1>9. ASSUME NEW k \in Keys, ApplyFails(k) PROVE IInv'
  <2>1. PhasesWellFormed' /\ TrackedSoFar'
    BY <1>9 DEF ApplyFails, Pending, PhasesWellFormed, TrackedSoFar
  <2> QED
    BY <1>9, <1>type, <1>cluster, <1>before, <1>owners, <2>1 DEF ApplyFails
<1>10. CASE CleanupOrphans
  <2>1. PhasesWellFormed' /\ TrackedSoFar' /\ OwnersWellFormed'
    BY <1>10, <1>owners DEF CleanupOrphans, PhasesWellFormed, TrackedSoFar, AllWorkers
  <2>2. CleanupStartsComplete'
    BY <1>10, ManifestEnd DEF CleanupOrphans, CleanupStartsComplete
  <2>3. ListedStillOwned'
    BY <1>10 DEF CleanupOrphans, PhasesWellFormed, ListedStillOwned
  <2>4. OrphansListed'
    BY <1>10, KeysAssumption DEF CleanupOrphans, OrphansListed, AllWorkers, Deletable
  <2> QED
    BY <1>10, <1>type, <1>cluster, <2>1, <2>2, <2>3, <2>4 DEF CleanupOrphans
<1>11. ASSUME NEW g \in CleanupKinds, List(g) PROVE IInv'
  <2>1. pc = "cleanup" /\ pc' = "cleanup"
    BY <1>11 DEF List, PhasesWellFormed, TypeOK
  <2>2. PhasesWellFormed'
    BY <1>11, <2>1 DEF List, PhasesWellFormed, TypeOK
  <2>3. ListedStillOwned'
    <3>1. ASSUME NEW it \in Labelled(g)
          PROVE  /\ kindOf[it.key] = g /\ it.ctrl = objs[it.key].ctrl
                 /\ it.key \in CRDs => it.ctrl \notin Uids
      BY DEF Labelled, CRDsUncontrolled
    <3> QED
      BY <1>11, <3>1 DEF List, ListedStillOwned, TypeOK
  <2>4. OrphansListed'
    <3> SUFFICES ASSUME NEW k \in Deletable \ (Desired(seen.spec) \cup replaced),
                        worker'[kindOf[k]] \in {"delete", "done"},
                        objs[k] # Absent, objs[k].labelled, objs[k].ctrl = seen.uid
                 PROVE  /\ worker'[kindOf[k]] = "delete"
                        /\ [key |-> k, ctrl |-> seen.uid] \in listed'[kindOf[k]]
      BY <1>11 DEF List, OrphansListed
    <3>1. CASE kindOf[k] = g
      <4>1. k \in Keys /\ g \notin Unserved
        BY <3>1 DEF UnservedEmpty, Deletable
      <4>2. [key |-> k, ctrl |-> seen.uid] \in Labelled(g)
        BY <3>1, <4>1 DEF Labelled
      <4> QED
        BY <1>11, <3>1, <4>1, <4>2 DEF List, TypeOK
    <3>2. CASE kindOf[k] # g
      BY <1>11, <2>1, <3>2 DEF List, OrphansListed, TypeOK, Deletable
    <3> QED
      BY <3>1, <3>2
  <2> QED
    BY <1>11, <1>type, <1>cluster, <1>progress, <1>owners, <2>2, <2>3, <2>4 DEF List
<1>12. ASSUME NEW g \in CleanupKinds, NEW it \in listed[g], SpareItem(g, it) PROVE IInv'
  <2>1. PhasesWellFormed' /\ ListedStillOwned'
    BY <1>12 DEF SpareItem, PhasesWellFormed, ListedStillOwned, TypeOK
  <2>2. OrphansListed'
    <3> SUFFICES ASSUME pc = "cleanup",
                        NEW k \in Deletable \ (Desired(seen.spec) \cup replaced),
                        worker[kindOf[k]] \in {"delete", "done"},
                        objs[k] # Absent, objs[k].labelled, objs[k].ctrl = seen.uid
                 PROVE  /\ worker[kindOf[k]] = "delete"
                        /\ [key |-> k, ctrl |-> seen.uid] \in listed'[kindOf[k]]
      BY <1>12 DEF SpareItem, OrphansListed
    <3>1. /\ worker[kindOf[k]] = "delete"
          /\ [key |-> k, ctrl |-> seen.uid] \in listed[kindOf[k]]
      BY DEF OrphansListed
    <3>2. it # [key |-> k, ctrl |-> seen.uid]
      BY <1>12 DEF SpareItem, IsOrphan, CleanupStartsComplete, Deletable
    <3> QED
      BY <1>12, <3>1, <3>2 DEF SpareItem, TypeOK, Deletable
  <2> QED
    BY <1>12, <1>type, <1>cluster, <1>progress, <1>owners, <2>1, <2>2 DEF SpareItem
<1>13. ASSUME NEW g \in CleanupKinds, NEW it \in listed[g], DeleteItem(g, it) PROVE IInv'
  <2>1. it.key \in Keys
    BY DEF TypeOK, Item
  <2>2. CRDsUncontrolled' /\ UnservedEmpty'
    BY <1>13, <2>1 DEF DeleteItem, CRDsUncontrolled, UnservedEmpty, TypeOK
  <2>3. PhasesWellFormed'
    BY <1>13 DEF DeleteItem, PhasesWellFormed, TypeOK
  <2>4. ListedStillOwned'
    BY <1>13, <2>1 DEF DeleteItem, ListedStillOwned, TypeOK, Item
  <2>5. OrphansListed'
    <3> SUFFICES ASSUME pc = "cleanup",
                        NEW k \in Deletable \ (Desired(seen.spec) \cup replaced),
                        worker[kindOf[k]] \in {"delete", "done"},
                        objs'[k] # Absent, objs'[k].labelled, objs'[k].ctrl = seen.uid
                 PROVE  /\ worker[kindOf[k]] = "delete"
                        /\ [key |-> k, ctrl |-> seen.uid] \in listed'[kindOf[k]]
      BY <1>13 DEF DeleteItem, OrphansListed
    <3>1. k # it.key /\ objs'[k] = objs[k]
      BY <1>13, <2>1 DEF DeleteItem, TypeOK, Deletable
    <3>2. /\ worker[kindOf[k]] = "delete"
          /\ [key |-> k, ctrl |-> seen.uid] \in listed[kindOf[k]]
      BY <3>1 DEF OrphansListed
    <3> QED
      BY <1>13, <3>1, <3>2 DEF DeleteItem, TypeOK, Deletable
  <2> QED
    BY <1>13, <1>type, <1>progress, <1>owners, <2>2, <2>3, <2>4, <2>5 DEF DeleteItem
<1>14. ASSUME NEW g \in CleanupKinds, NEW it \in listed[g], DeleteLost(g, it) PROVE IInv'
  <2>1. it.key \in Keys
    BY DEF TypeOK, Item
  <2>2. CRDsUncontrolled' /\ UnservedEmpty'
    BY <1>14, <2>1 DEF DeleteLost, CRDsUncontrolled, UnservedEmpty, TypeOK
  <2>3. PhasesWellFormed'
    BY <1>14 DEF DeleteLost, PhasesWellFormed, TypeOK
  <2>4. ListedStillOwned' /\ OrphansListed'
    BY <1>14, <2>1 DEF DeleteLost, ListedStillOwned, OrphansListed, TypeOK, Item, Deletable
  <2> QED
    BY <1>14, <1>type, <1>progress, <1>owners, <2>2, <2>3, <2>4 DEF DeleteLost
<1>15. ASSUME NEW g \in CleanupKinds, WorkerDone(g) \/ WorkerFails(g) PROVE IInv'
  <2>1. PhasesWellFormed'
    BY <1>15 DEF WorkerDone, WorkerFails, Calling, PhasesWellFormed, TypeOK
  <2>2. ListedStillOwned' /\ OrphansListed'
    BY <1>15 DEF WorkerDone, WorkerFails, ListedStillOwned, OrphansListed, TypeOK, Deletable
  <2> QED
    BY <1>15, <1>type, <1>cluster, <1>progress, <1>owners, <2>1, <2>2 DEF WorkerDone, WorkerFails
<1>16. CASE CleanupSucceeds
  <2>1. OwnersWellFormed'
    BY <1>16, <1>return DEF CleanupSucceeds, OwnersWellFormed
  <2> QED
    BY <1>16, <1>type, <1>cluster, <1>return, <2>1 DEF CleanupSucceeds
<1>17. CASE CleanupFails
  <2>1. PhasesWellFormed' /\ TrackedSoFar'
    BY <1>17 DEF CleanupFails, PhasesWellFormed, TrackedSoFar
  <2> QED
    BY <1>17, <1>type, <1>cluster, <1>before, <1>owners, <2>1 DEF CleanupFails
<1>18. CASE HandleError
  <2>1. OwnersWellFormed'
    BY <1>18, <1>return DEF HandleError, OwnersWellFormed
  <2> QED
    BY <1>18, <1>type, <1>cluster, <1>return, <2>1 DEF HandleError
<1>19. CASE Crash
  <2>1. OwnersWellFormed'
    BY <1>19, <1>return DEF Crash, OwnersWellFormed
  <2> QED
    BY <1>19, <1>type, <1>cluster, <1>return, <2>1 DEF Crash
<1>20. CASE UNCHANGED vars
  BY <1>20, <1>type, <1>cluster, <1>phases, <1>progress, <1>deletion, <1>owners DEF vars
<1> QED
  BY <1>1, <1>2, <1>3, <1>4, <1>5, <1>6, <1>7, <1>8, <1>9, <1>10, <1>11, <1>12, <1>13, <1>14,
     <1>15, <1>16, <1>17, <1>18, <1>19, <1>20
  DEF Next, Others, Reconcile, Applying, Worker, Deleting

\* The strengthened invariant holds in every reachable state.
THEOREM Invariance == Spec => []IInv
<1>1. Init => IInv
  BY InvInit
<1>2. IInv /\ [Next]_vars => IInv'
  BY InvStep
<1> QED
  BY <1>1, <1>2, PTL DEF Spec

(***************************************************************************)
(* Consequences                                                            *)
(***************************************************************************)

\* Deletion never starts before everything the observed spec wants has been
\* applied and tracked, whichever applies fail, are skipped, change nothing
\* or lose their answer (Reconcile and CleanupOrphans).
THEOREM StartsComplete == Spec => []CleanupStartsComplete
<1>1. IInv => CleanupStartsComplete
  BY DEF IInv
<1> QED
  BY <1>1, Invariance, PTL

\* When CleanupOrphans is about to report success, none of its parallel
\* goroutines has left a deletable orphan of the owner it worked for behind.
THEOREM LeavesNoOrphan == Spec => []CleanupLeavesNoOrphan
<1>1. IInv => CleanupLeavesNoOrphan
  <2> SUFFICES ASSUME IInv, pc = "cleanup", \A g \in CleanupKinds : worker[g] = "done",
                      NEW k \in Deletable \ (Desired(seen.spec) \cup replaced),
                      objs[k] # Absent, objs[k].labelled, objs[k].ctrl = seen.uid
               PROVE  FALSE
    BY DEF CleanupLeavesNoOrphan
  <2>1. worker[kindOf[k]] = "done"
    BY DEF Deletable
  <2> QED
    BY <2>1 DEF IInv, OrphansListed
<1> QED
  BY <1>1, Invariance, PTL

\* An object the cleanup loop is about to delete is not desired, is deletable
\* and is controlled by the owner it works for, unless somebody put it under
\* this key after the reconcile began.
LEMMA OrphanIsOurs ==
  ASSUME IInv, NEW g \in CleanupKinds, NEW it \in listed[g], worker[g] = "delete", IsOrphan(it)
  PROVE  /\ it.key \in Deletable \ Desired(seen.spec)
         /\ it.key \notin CRDs /\ it.key \in Keys
         /\ seen.uid \in Uids
         /\ objs[it.key] # Absent => objs[it.key].ctrl = seen.uid \/ it.key \in replaced
<1>1. pc = "cleanup"
  BY DEF IInv, PhasesWellFormed, TypeOK
<1>2. it.key \in Keys /\ kindOf[it.key] = g
  BY DEF IInv, TypeOK, Item, ListedStillOwned
<1>3. it.key \in Deletable \ Desired(seen.spec)
  BY <1>1, <1>2 DEF IInv, CleanupStartsComplete, IsOrphan, Deletable
<1>4. seen.uid \in Uids
  BY <1>1 DEF IInv, PhasesWellFormed
<1> QED
  BY <1>1, <1>2, <1>3, <1>4 DEF IInv, ListedStillOwned, IsOrphan

\* Who deletes what: others; the collector, what a deleted owner controlled;
\* the operator, orphans that are not CRDs.
LEMMA Deletions ==
  ASSUME IInv, [Next]_vars, NEW k \in Keys, objs[k] # Absent, objs'[k] = Absent
  PROVE  \/ actor' = "others"
         \/ objs[k].ctrl \in Uids \ {owner.uid}
         \/ k \in Deletable \ (Desired(seen.spec) \cup CRDs)
<1> DEFINE Goal == \/ actor' = "others"
                   \/ objs[k].ctrl \in Uids \ {owner.uid}
                   \/ k \in Deletable \ (Desired(seen.spec) \cup CRDs)
<1>0. objs' # objs
  OBVIOUS
<1>1. ASSUME NEW j \in Keys, OthersCreate(j) \/ OthersDelete(j) PROVE Goal
  BY <1>1 DEF OthersCreate, OthersDelete
<1>2. ASSUME NEW j \in Keys, Collect(j) PROVE Goal
  BY <1>2 DEF Collect, IInv, TypeOK
<1>3. ASSUME NEW j \in Keys, ApplyOwned(j) \/ ApplyLost(j) PROVE FALSE
  <2>1. objs' = [objs EXCEPT ![j] = AppliedObject(j, objs[j], seen.uid)]
    BY <1>3 DEF ApplyOwned, ApplyLost
  <2>2. AppliedObject(j, objs[j], seen.uid) # Absent
    BY AppliedIsObject DEF IInv, TypeOK, Owner
  <2> QED
    BY <2>1, <2>2 DEF IInv, TypeOK
<1>4. ASSUME NEW g \in CleanupKinds, NEW it \in listed[g], DeleteItem(g, it) \/ DeleteLost(g, it)
      PROVE  Goal
  <2>1. worker[g] = "delete" /\ IsOrphan(it) /\ objs' = [objs EXCEPT ![it.key] = Absent]
    BY <1>4 DEF DeleteItem, DeleteLost
  <2>2. it.key \in Deletable \ (Desired(seen.spec) \cup CRDs) /\ it.key \in Keys
    BY <2>1, OrphanIsOurs
  <2> QED
    BY <2>1, <2>2 DEF IInv, TypeOK
<1>5. ASSUME NEW j \in Keys, Skip(j) \/ ApplyFails(j) PROVE FALSE
  BY <1>0, <1>5 DEF Skip, ApplyFails
<1>6. ASSUME NEW g \in CleanupKinds, List(g) \/ WorkerDone(g) \/ WorkerFails(g) PROVE FALSE
  BY <1>0, <1>6 DEF List, WorkerDone, WorkerFails
<1>7. ASSUME NEW g \in CleanupKinds, NEW it \in listed[g], SpareItem(g, it) PROVE FALSE
  BY <1>0, <1>7 DEF SpareItem
<1>8. CASE Users \/ Delivery \/ Crash
  BY <1>0, <1>8 DEF Users, CreateOwner, EditSpec, DeleteOwner, Delivery, SyncOwner, DeliverNews,
                    Crash
<1>9. CASE \/ Begin \/ BeginNotFound \/ CleanupOrphans \/ CleanupSucceeds \/ CleanupFails
           \/ HandleError \/ UNCHANGED vars
  BY <1>0, <1>9 DEF Begin, BeginNotFound, CleanupOrphans, CleanupSucceeds, CleanupFails,
                    HandleError, vars
<1> QED
  BY <1>1, <1>2, <1>3, <1>4, <1>5, <1>6, <1>7, <1>8, <1>9
  DEF Next, Others, Reconcile, Applying, Worker, Deleting

\* A mandatory object that the existing owner controls is deleted by nobody
\* but others, however stale the spec and the owner that a reconcile has read.
THEOREM MandatoryKept == Spec => MandatoryStays
<1> DEFINE Kept == \A k \in Applied \ Optional :
                     /\ owner # NoOwner
                     /\ objs[k] # Absent /\ objs[k].ctrl = owner.uid
                     /\ objs'[k] = Absent
                     => actor' = "others"
<1>1. IInv /\ [Next]_vars => [Kept]_vars
  <2> SUFFICES ASSUME IInv, [Next]_vars, NEW k \in Applied \ Optional,
                      objs[k] # Absent, objs[k].ctrl = owner.uid, objs'[k] = Absent
               PROVE  actor' = "others"
    OBVIOUS
  <2>1. k \in Keys
    BY KeysAssumption DEF Applied
  <2>2. k \in Desired(seen.spec)
    BY DEF Desired
  <2> QED
    BY <2>1, <2>2, Deletions
<1> QED
  BY <1>1, Invariance, PTL DEF Spec, MandatoryStays

\* Neither the operator nor the collector ever deletes a CRD: SetOwnership
\* gives CRDs no controller reference, so neither has a claim on them.
THEOREM CRDsKept == Spec => CRDsSurvive
<1> DEFINE Kept == \A k \in CRDs : objs[k] # Absent /\ objs'[k] = Absent => actor' = "others"
<1>1. IInv /\ [Next]_vars => [Kept]_vars
  <2> SUFFICES ASSUME IInv, [Next]_vars, NEW k \in CRDs, objs[k] # Absent, objs'[k] = Absent
               PROVE  actor' = "others"
    OBVIOUS
  <2>1. k \in Keys
    BY KeysAssumption
  <2>2. objs[k].ctrl \notin Uids
    BY DEF IInv, CRDsUncontrolled
  <2> QED
    BY <2>1, <2>2, Deletions
<1> QED
  BY <1>1, Invariance, PTL DEF Spec, CRDsSurvive

(***************************************************************************)
(* Refinement                                                              *)
(***************************************************************************)

\* The abstract specification's vocabulary is the same.
LEMMA SameVocabulary ==
  /\ Promise!Owner = Owner /\ Promise!NoOwner = NoOwner /\ Promise!Deletable = Deletable
  /\ \A s : Promise!Desired(s) = Desired(s)
  /\ \A k, o : Promise!OthersObject(k, o) = OthersObject(k, o)
  /\ \A k, o : Promise!Appliable(k, o) = Appliable(k, o)
  /\ \A k, o, u : Promise!AppliedObject(k, o, u) = AppliedObject(k, o, u)
<1>1. Promise!Owner = Owner /\ Promise!NoOwner = NoOwner
  BY DEF Promise!Owner, Owner, Promise!NoOwner, NoOwner
<1>2. Promise!Deletable = Deletable
  BY DEF Promise!Deletable, Deletable, Promise!IsAllowed, IsAllowed
<1>3. \A s : Promise!Desired(s) = Desired(s)
  BY DEF Promise!Desired, Desired, Promise!Applied, Applied
<1>4. \A k, o : Promise!OthersObject(k, o) = OthersObject(k, o)
  BY DEF Promise!OthersObject, OthersObject
<1>5. \A k, o : Promise!Appliable(k, o) = Appliable(k, o)
  BY DEF Promise!Appliable, Appliable
<1>6. \A k, o, u : Promise!AppliedObject(k, o, u) = AppliedObject(k, o, u)
  BY DEF Promise!AppliedObject, AppliedObject
<1> QED
  BY <1>1, <1>2, <1>3, <1>4, <1>5, <1>6

\* Every step of the reconcile and of its surroundings is a step the promise
\* allows, or none of the promise's concern.
LEMMA PromiseStep == IInv /\ TypeOK' /\ [Next]_vars => [Promise!Next]_(Promise!rvars)
<1> SUFFICES ASSUME IInv, TypeOK', [Next]_vars PROVE Promise!Next \/ UNCHANGED Promise!rvars
  OBVIOUS
<1>0. Promise!Work => Promise!Next
  BY DEF Promise!Next
<1>return. Return /\ actor' = "operator" /\ UNCHANGED <<owner, objs>> => Promise!Next
  BY SameVocabulary DEF Return, Promise!Next, Promise!Observe, TypeOK
<1>1. CASE Users
  <2>1. Promise!OwnerChanges
    BY <1>1, SameVocabulary
    DEF Users, CreateOwner, EditSpec, DeleteOwner, Promise!OwnerChanges, TypeOK
  <2> QED
    BY <2>1 DEF Promise!Next
<1>2. ASSUME NEW k \in Keys, OthersCreate(k) PROVE Promise!Next
  <2>1. Promise!OthersCreate(k)
    BY <1>2, SameVocabulary DEF OthersCreate, Promise!OthersCreate
  <2> QED
    BY <2>1 DEF Promise!Next
<1>3. ASSUME NEW k \in Keys, OthersDelete(k) PROVE Promise!Next
  <2>1. Promise!OthersDelete(k)
    BY <1>3 DEF OthersDelete, Promise!OthersDelete
  <2> QED
    BY <2>1 DEF Promise!Next
<1>4. ASSUME NEW k \in Keys, Collect(k) PROVE Promise!Next
  <2>1. Promise!Collect(k)
    BY <1>4 DEF Collect, Promise!Collect
  <2> QED
    BY <2>1 DEF Promise!Next
<1>5. CASE Delivery \/ BeginNotFound \/ CleanupOrphans \/ CleanupFails
  <2>1. Promise!Work
    BY <1>5 DEF Delivery, SyncOwner, DeliverNews, BeginNotFound, CleanupOrphans, CleanupFails,
                Promise!Work
  <2> QED
    BY <2>1, <1>0
<1>6. CASE Begin
  <2>1. Promise!Observe
    BY <1>6, SameVocabulary DEF Begin, Promise!Observe, TypeOK
  <2> QED
    BY <2>1 DEF Promise!Next
<1>7. ASSUME NEW k \in Keys, Skip(k) \/ ApplyFails(k) PROVE Promise!Next
  <2>1. Promise!Work
    BY <1>7 DEF Skip, ApplyFails, Promise!Work
  <2> QED
    BY <2>1, <1>0
<1>8. ASSUME NEW k \in Keys, ApplyOwned(k) \/ ApplyLost(k) PROVE Promise!Next
  <2>1. seen.uid # NoUid
    BY <1>8, IdentityAssumption
    DEF ApplyOwned, ApplyLost, Pending, IInv, PhasesWellFormed
  <2>2. Promise!Provide(k)
    BY <1>8, <2>1, SameVocabulary DEF ApplyOwned, ApplyLost, Promise!Provide
  <2> QED
    BY <2>2 DEF Promise!Next
<1>9. ASSUME NEW g \in CleanupKinds, List(g) \/ WorkerDone(g) \/ WorkerFails(g) PROVE Promise!Next
  <2>1. Promise!Work
    BY <1>9 DEF List, WorkerDone, WorkerFails, Promise!Work
  <2> QED
    BY <2>1, <1>0
<1>10. ASSUME NEW g \in CleanupKinds, NEW it \in listed[g], SpareItem(g, it) PROVE Promise!Next
  <2>1. Promise!Work
    BY <1>10 DEF SpareItem, Promise!Work
  <2> QED
    BY <2>1, <1>0
<1>11. ASSUME NEW g \in CleanupKinds, NEW it \in listed[g], DeleteItem(g, it) \/ DeleteLost(g, it)
       PROVE  Promise!Next
  <2>1. /\ worker[g] = "delete" /\ IsOrphan(it)
        /\ objs' = [objs EXCEPT ![it.key] = Absent]
        /\ actor' = "operator"
        /\ UNCHANGED <<owner, seen, replaced>>
    BY <1>11 DEF DeleteItem, DeleteLost
  <2>2. /\ it.key \in Deletable \ Desired(seen.spec) /\ it.key \in Keys
        /\ seen.uid # NoUid
        /\ objs[it.key] # Absent => objs[it.key].ctrl = seen.uid \/ it.key \in replaced
    BY <2>1, OrphanIsOurs, IdentityAssumption
  <2>3. CASE objs[it.key] = Absent
    <3>1. objs' = objs
      BY <2>1, <2>2, <2>3 DEF IInv, TypeOK
    <3>2. Promise!Work
      BY <2>1, <3>1 DEF Promise!Work
    <3> QED
      BY <3>2, <1>0
  <2>4. CASE objs[it.key] # Absent
    <3>1. Promise!Remove(it.key)
      BY <2>1, <2>2, <2>4, SameVocabulary DEF Promise!Remove
    <3> QED
      BY <2>2, <3>1 DEF Promise!Next
  <2> QED
    BY <2>3, <2>4
<1>12. CASE CleanupSucceeds \/ HandleError \/ Crash
  BY <1>12, <1>return DEF CleanupSucceeds, HandleError, Crash
<1>13. CASE UNCHANGED vars
  BY <1>13 DEF vars, Promise!rvars
<1> QED
  BY <1>1, <1>2, <1>3, <1>4, <1>5, <1>6, <1>7, <1>8, <1>9, <1>10, <1>11, <1>12, <1>13
  DEF Next, Others, Reconcile, Applying, Worker, Deleting

\* The reconcile implements the abstract promise: whatever interleaving of
\* goroutines, faults, crashes, users and other controllers, the operator
\* only provides what the observed spec wants and only removes the observed
\* incarnation's own orphans.
THEOREM Refinement == Spec => KeepsPromise
<1>1. Init => Promise!Init
  BY SameVocabulary DEF Init, Promise!Init
<1>2. IInv /\ IInv' /\ [Next]_vars => [Promise!Next]_(Promise!rvars)
  BY PromiseStep DEF IInv
<1> QED
  BY <1>1, <1>2, Invariance, PTL DEF Spec, KeepsPromise, Promise!Spec
=============================================================================

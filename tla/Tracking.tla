------------------------------ MODULE Tracking ------------------------------
(***************************************************************************)
(* A reconcile that uses the tracking client (operator/pkg/tracking), as   *)
(* every Konflux controller does: read the owner from the informer cache,  *)
(* apply the manifest in order and remember what was applied, and, only    *)
(* when every apply succeeded, delete the owned objects that were not      *)
(* applied, one goroutine per kind. Any call may fail, with or without     *)
(* having taken effect; the process may crash; users, other controllers    *)
(* and the garbage collector run at any time.                              *)
(***************************************************************************)
EXTENDS Cluster

CONSTANTS
  Watched,    \* the kinds the controller Owns: it hears of changes of its objects
  Budgets     \* how many changes users may make to the owner, how many calls may fail or
              \* processes crash, and how many objects others may create or delete

ASSUME WatchedAssumption == Watched \subseteq Kinds

ASSUME BudgetsAssumption ==
  Budgets \subseteq [edits : Nat, faults : Nat, intrusions : Nat]

VARIABLES
  owner,      \* the owner stored by the API server
  used,       \* uids given out so far
  cached,     \* the owner in the operator's informer cache
  objs,       \* the objects stored by the API server
  news,       \* a watch event about an owned object is on its way
  queued,     \* the work queue holds a request for the owner
  pc,         \* the phase of the reconcile
  seen,       \* the copy of the owner the reconcile works with
  next,       \* position in the manifest
  tracked,    \* keys applied by this reconcile (Client.tracked)
  worker,     \* state of the cleanup goroutine of each kind
  listed,     \* items of its listing the goroutine has not examined yet
  cancelled,  \* the errgroup's context is cancelled
  replaced,   \* history: keys others created since the reconcile began
  actor,      \* history: who took the last step
  edits, faults, intrusions   \* how many of each there may still be

api    == <<owner, used, objs>>
watch  == <<cached, news, queued>>
local  == <<pc, seen, next, tracked, worker, listed, cancelled>>
bounds == <<edits, faults, intrusions>>
vars   == <<owner, used, objs, cached, news, queued, pc, seen, next, tracked,
            worker, listed, cancelled, replaced, actor, edits, faults, intrusions>>

\* An item of a listing, as the goroutine keeps it: the object may change or
\* be replaced on the server after it was listed.
Item == [key : Keys, ctrl : Uids \cup {NoUid, Foreign}]

WorkerState == {"off", "list", "delete", "done", "failed"}

AllWorkers(s) == [g \in CleanupKinds |-> s]
NoListing == [g \in CleanupKinds |-> {}]

(***************************************************************************)
(* The end of a reconcile: the client and its tracked set are dropped.     *)
(***************************************************************************)
Return ==
  /\ pc' = "idle"
  /\ seen' = NoOwner
  /\ next' = 1
  /\ tracked' = {}
  /\ worker' = AllWorkers("off")
  /\ listed' = NoListing
  /\ cancelled' = FALSE
  /\ replaced' = {}

\* A change of object o under key k is reported to the owner's controller:
\* Owns maps controller references, the CRD watch the names of its manifests.
Reported(k, o) ==
  /\ o # Absent
  /\ \/ o.ctrl \in Uids /\ kindOf[k] \in Watched
     \/ k \in CRDs \cap Applied

(***************************************************************************)
(* Users, other controllers, the garbage collector                         *)
(***************************************************************************)

\* An identity that no incarnation of the owner has had.
NewUid == CHOOSE u \in Uids : u \notin used

CreateOwner ==
  /\ edits > 0 /\ edits' = edits - 1
  /\ owner = NoOwner
  /\ Uids \ used # {}
  /\ \E s \in SUBSET Optional : owner' = [uid |-> NewUid, spec |-> s]
  /\ used' = used \cup {NewUid}
  /\ actor' = "user"
  /\ UNCHANGED <<objs, watch, local, replaced, faults, intrusions>>

EditSpec ==
  /\ edits > 0 /\ edits' = edits - 1
  /\ owner # NoOwner
  /\ \E s \in SUBSET Optional : owner' = [uid |-> owner.uid, spec |-> s]
  /\ actor' = "user"
  /\ UNCHANGED <<used, objs, watch, local, replaced, faults, intrusions>>

DeleteOwner ==
  /\ edits > 0 /\ edits' = edits - 1
  /\ owner # NoOwner
  /\ owner' = NoOwner
  /\ actor' = "user"
  /\ UNCHANGED <<used, objs, watch, local, replaced, faults, intrusions>>

OthersCreate(k) ==
  /\ intrusions > 0 /\ intrusions' = intrusions - 1
  /\ kindOf[k] \notin Unserved
  /\ objs[k] = Absent
  /\ \E o \in OthersObject(k, owner) : objs' = [objs EXCEPT ![k] = o]
  /\ news' = (news \/ Reported(k, objs'[k]))
  /\ replaced' = replaced \cup {k}
  /\ actor' = "others"
  /\ UNCHANGED <<owner, used, cached, queued, local, edits, faults>>

OthersDelete(k) ==
  /\ intrusions > 0 /\ intrusions' = intrusions - 1
  /\ objs[k] # Absent
  /\ objs' = [objs EXCEPT ![k] = Absent]
  /\ news' = (news \/ Reported(k, objs[k]))
  /\ actor' = "others"
  /\ UNCHANGED <<owner, used, cached, queued, local, replaced, edits, faults>>

\* Objects whose controller no longer exists are collected.
Collect(k) ==
  /\ objs[k] # Absent
  /\ objs[k].ctrl \in Uids \ {owner.uid}
  /\ objs' = [objs EXCEPT ![k] = Absent]
  /\ news' = (news \/ Reported(k, objs[k]))
  /\ actor' = "gc"
  /\ UNCHANGED <<owner, used, cached, queued, local, replaced, bounds>>

(***************************************************************************)
(* Informers and the work queue                                            *)
(***************************************************************************)

SyncOwner ==
  /\ cached # owner
  /\ cached' = owner
  /\ queued' = TRUE
  /\ actor' = "operator"
  /\ UNCHANGED <<api, news, local, replaced, bounds>>

DeliverNews ==
  /\ news
  /\ news' = FALSE
  /\ queued' = TRUE
  /\ actor' = "operator"
  /\ UNCHANGED <<api, cached, local, replaced, bounds>>

(***************************************************************************)
(* Reconcile                                                               *)
(***************************************************************************)

\* The request is taken off the queue and the owner read from the cache.
Begin ==
  /\ queued /\ pc = "idle"
  /\ cached # NoOwner
  /\ queued' = FALSE
  /\ pc' = "apply"
  /\ seen' = cached
  /\ replaced' = {}
  /\ actor' = "operator"
  /\ UNCHANGED <<api, cached, news, next, tracked, worker, listed, cancelled, bounds>>

\* The owner is gone: nothing to do.
BeginNotFound ==
  /\ queued /\ pc = "idle"
  /\ cached = NoOwner
  /\ queued' = FALSE
  /\ actor' = "operator"
  /\ UNCHANGED <<api, cached, news, local, replaced, bounds>>

Pending(k) == pc = "apply" /\ next <= Len(Manifest) /\ k = Manifest[next]

\* Mutant of Skip: the component after a disabled one is passed over as well.
SkipTwo(k) ==
  /\ Pending(k) /\ k \notin Desired(seen.spec)
  /\ next' = next + 2
  /\ actor' = "operator"
  /\ UNCHANGED <<api, watch, pc, seen, tracked, worker, listed, cancelled, replaced, bounds>>

\* An optional component that the spec does not enable is passed over.
Skip(k) ==
  /\ Pending(k) /\ k \notin Desired(seen.spec)
  /\ next' = next + 1
  /\ actor' = "operator"
  /\ UNCHANGED <<api, watch, pc, seen, tracked, worker, listed, cancelled, replaced, bounds>>

\* Mutant of ApplyOwned: only an apply that changed something is tracked.
ApplyOwnedTracksChanges(k) ==
  /\ Pending(k) /\ k \in Desired(seen.spec)
  /\ Appliable(k, objs[k])
  /\ objs' = [objs EXCEPT ![k] = AppliedObject(k, @, seen.uid)]
  /\ news' = (news \/ (objs' # objs /\ Reported(k, objs'[k])))
  /\ tracked' = IF objs' # objs THEN tracked \cup {k} ELSE tracked
  /\ next' = next + 1
  /\ actor' = "operator"
  /\ UNCHANGED <<owner, used, cached, queued, pc, seen, worker, listed, cancelled, replaced, bounds>>

\* The object is labelled, given its controller reference, applied and, when
\* the call succeeds, tracked; an apply that changes nothing is tracked too.
ApplyOwned(k) ==
  /\ Pending(k) /\ k \in Desired(seen.spec)
  /\ Appliable(k, objs[k])
  /\ objs' = [objs EXCEPT ![k] = AppliedObject(k, @, seen.uid)]
  /\ news' = (news \/ (objs' # objs /\ Reported(k, objs'[k])))
  /\ tracked' = tracked \cup {k}
  /\ next' = next + 1
  /\ actor' = "operator"
  /\ UNCHANGED <<owner, used, cached, queued, pc, seen, worker, listed, cancelled, replaced, bounds>>

\* The call fails before it reaches the server or the server refuses it.
ApplyFails(k) ==
  /\ Pending(k) /\ k \in Desired(seen.spec)
  /\ \/ ~Appliable(k, objs[k]) /\ UNCHANGED faults
     \/ faults > 0 /\ faults' = faults - 1
  /\ pc' = "error"
  /\ actor' = "operator"
  /\ UNCHANGED <<api, watch, seen, next, tracked, worker, listed, cancelled, replaced, edits, intrusions>>

\* The server carries out the call and its answer is lost.
ApplyLost(k) ==
  /\ Pending(k) /\ k \in Desired(seen.spec)
  /\ faults > 0 /\ faults' = faults - 1
  /\ Appliable(k, objs[k])
  /\ objs' = [objs EXCEPT ![k] = AppliedObject(k, @, seen.uid)]
  /\ news' = (news \/ (objs' # objs /\ Reported(k, objs'[k])))
  /\ pc' = "error"
  /\ actor' = "operator"
  /\ UNCHANGED <<owner, used, cached, queued, seen, next, tracked, worker, listed, cancelled,
                 replaced, edits, intrusions>>

\* Every apply succeeded: CleanupOrphans starts one goroutine per kind.
CleanupOrphans ==
  /\ pc = "apply" /\ next > Len(Manifest)
  /\ pc' = "cleanup"
  /\ worker' = AllWorkers("list")
  /\ actor' = "operator"
  /\ UNCHANGED <<api, watch, seen, next, tracked, listed, cancelled, replaced, bounds>>

\* The items of kind g that carry the owner label. Unstructured lists are not
\* served from the informer cache, so this is what the server stores now.
Labelled(g) ==
  {[key |-> k, ctrl |-> objs[k].ctrl] :
     k \in {j \in Keys : kindOf[j] = g /\ objs[j] # Absent /\ objs[j].labelled}}

List(g) ==
  /\ worker[g] = "list" /\ ~cancelled
  /\ listed' = [listed EXCEPT ![g] = Labelled(g)]
  /\ worker' = [worker EXCEPT ![g] = IF g \in Unserved THEN "done" ELSE "delete"]
  /\ actor' = "operator"
  /\ UNCHANGED <<api, watch, pc, seen, next, tracked, cancelled, replaced, bounds>>

\* Mutant of IsOrphan: what this reconcile has applied is not spared.
IsOrphanUntracked(it) == it.ctrl = seen.uid /\ IsAllowed(it.key)

\* Mutant of IsOrphan: the allow list is not consulted.
IsOrphanByOwner(it) == it.key \notin tracked /\ it.ctrl = seen.uid

\* The loop over the items, for an item that is to be deleted.
IsOrphan(it) ==
  /\ it.key \notin tracked
  /\ it.ctrl = seen.uid
  /\ IsAllowed(it.key)

\* An item that is tracked, controlled by another owner or not on the allow
\* list is passed over.
SpareItem(g, it) ==
  /\ worker[g] = "delete" /\ it \in listed[g]
  /\ ~IsOrphan(it)
  /\ listed' = [listed EXCEPT ![g] = @ \ {it}]
  /\ actor' = "operator"
  /\ UNCHANGED <<api, watch, pc, seen, next, tracked, worker, cancelled, replaced, bounds>>

\* The delete call names the object and states no precondition; an object
\* that is already gone is not an error.
DeleteItem(g, it) ==
  /\ worker[g] = "delete" /\ it \in listed[g]
  /\ IsOrphan(it) /\ ~cancelled
  /\ objs' = [objs EXCEPT ![it.key] = Absent]
  /\ news' = (news \/ Reported(it.key, objs[it.key]))
  /\ listed' = [listed EXCEPT ![g] = @ \ {it}]
  /\ actor' = "operator"
  /\ UNCHANGED <<owner, used, cached, queued, pc, seen, next, tracked, worker, cancelled,
                 replaced, bounds>>

\* The server carries out the delete and its answer is lost.
DeleteLost(g, it) ==
  /\ worker[g] = "delete" /\ it \in listed[g]
  /\ IsOrphan(it)
  /\ faults > 0 /\ faults' = faults - 1
  /\ objs' = [objs EXCEPT ![it.key] = Absent]
  /\ news' = (news \/ Reported(it.key, objs[it.key]))
  /\ worker' = [worker EXCEPT ![g] = "failed"]
  /\ cancelled' = TRUE
  /\ actor' = "operator"
  /\ UNCHANGED <<owner, used, cached, queued, pc, seen, next, tracked, listed,
                 replaced, edits, intrusions>>

WorkerDone(g) ==
  /\ worker[g] = "delete" /\ listed[g] = {}
  /\ worker' = [worker EXCEPT ![g] = "done"]
  /\ actor' = "operator"
  /\ UNCHANGED <<api, watch, pc, seen, next, tracked, listed, cancelled, replaced, bounds>>

\* The goroutine is about to call the API server.
Calling(g) ==
  \/ worker[g] = "list"
  \/ worker[g] = "delete" /\ \E it \in listed[g] : IsOrphan(it)

\* Mutant of WorkerFails: the error is logged and not returned.
WorkerFailsSilently(g) ==
  /\ Calling(g)
  /\ faults > 0 /\ faults' = faults - 1
  /\ worker' = [worker EXCEPT ![g] = "done"]
  /\ actor' = "operator"
  /\ UNCHANGED <<api, watch, pc, seen, next, tracked, listed, cancelled, replaced, edits, intrusions>>

\* A list or delete call fails, or is refused because another goroutine's
\* failure has cancelled the shared context.
WorkerFails(g) ==
  /\ Calling(g)
  /\ \/ cancelled /\ UNCHANGED faults
     \/ faults > 0 /\ faults' = faults - 1
  /\ worker' = [worker EXCEPT ![g] = "failed"]
  /\ cancelled' = TRUE
  /\ actor' = "operator"
  /\ UNCHANGED <<api, watch, pc, seen, next, tracked, listed, replaced, edits, intrusions>>

\* Wait returns once every goroutine has, with the first error if there is one.
CleanupSucceeds ==
  /\ pc = "cleanup" /\ \A g \in CleanupKinds : worker[g] = "done"
  /\ Return
  /\ actor' = "operator"
  /\ UNCHANGED <<api, watch, bounds>>

CleanupFails ==
  /\ pc = "cleanup" /\ \A g \in CleanupKinds : worker[g] \in {"done", "failed"}
  /\ \E g \in CleanupKinds : worker[g] = "failed"
  /\ pc' = "error"
  /\ actor' = "operator"
  /\ UNCHANGED <<api, watch, seen, next, tracked, worker, listed, cancelled, replaced, bounds>>

\* Mutant of HandleError: the failure is reported and no error returned.
HandleErrorForgets ==
  /\ pc = "error"
  /\ Return
  /\ actor' = "operator"
  /\ UNCHANGED <<api, watch, bounds>>

\* The error handler reports the failure and returns the error, which puts
\* the request back on the queue.
HandleError ==
  /\ pc = "error"
  /\ Return
  /\ queued' = TRUE
  /\ actor' = "operator"
  /\ UNCHANGED <<api, cached, news, bounds>>

\* The process dies and restarts: caches are filled afresh and every existing
\* owner is queued.
Crash ==
  /\ faults > 0 /\ faults' = faults - 1
  /\ Return
  /\ cached' = owner
  /\ queued' = TRUE
  /\ news' = FALSE
  /\ actor' = "operator"
  /\ UNCHANGED <<api, edits, intrusions>>

(***************************************************************************)
(* Specification                                                           *)
(***************************************************************************)

\* The operator has started in a cluster without any of its objects; Others
\* may create some before there is an owner.
Init ==
  /\ owner = NoOwner
  /\ used = {}
  /\ cached = NoOwner
  /\ objs = [k \in Keys |-> Absent]
  /\ news = FALSE
  /\ queued = FALSE
  /\ pc = "idle"
  /\ seen = NoOwner
  /\ next = 1
  /\ tracked = {}
  /\ worker = AllWorkers("off")
  /\ listed = NoListing
  /\ cancelled = FALSE
  /\ replaced = {}
  /\ actor = "user"
  /\ \E b \in Budgets : edits = b.edits /\ faults = b.faults /\ intrusions = b.intrusions

Users == CreateOwner \/ EditSpec \/ DeleteOwner

Others == \E k \in Keys : OthersCreate(k) \/ OthersDelete(k)

Delivery == SyncOwner \/ DeliverNews

Applying == \E k \in Keys : Skip(k) \/ ApplyOwned(k) \/ ApplyFails(k) \/ ApplyLost(k)

Deleting(g) == \E it \in listed[g] : SpareItem(g, it) \/ DeleteItem(g, it) \/ DeleteLost(g, it)

Worker(g) == List(g) \/ Deleting(g) \/ WorkerDone(g) \/ WorkerFails(g)

Reconcile ==
  \/ Begin \/ BeginNotFound
  \/ Applying
  \/ CleanupOrphans
  \/ \E g \in CleanupKinds : Worker(g)
  \/ CleanupSucceeds \/ CleanupFails
  \/ HandleError

Next ==
  \/ Users
  \/ Others
  \/ \E k \in Keys : Collect(k)
  \/ Delivery
  \/ Reconcile
  \/ Crash

\* The scheduler runs goroutines that can run, informers deliver what they
\* have, and the collector collects. Users, others and faults owe nothing.
Fairness ==
  /\ WF_vars(SyncOwner) /\ WF_vars(DeliverNews)
  /\ \A k \in Keys : WF_vars(Collect(k))
  /\ WF_vars(Begin \/ BeginNotFound \/ Applying \/ CleanupOrphans
               \/ CleanupSucceeds \/ CleanupFails \/ HandleError)
  /\ \A g \in CleanupKinds : WF_vars(Worker(g))

Spec == Init /\ [][Next]_vars

FairSpec == Spec /\ Fairness

(***************************************************************************)
(* Properties                                                              *)
(***************************************************************************)

\* Every variable of the reconcile has its type; in particular the position in
\* the manifest never runs past its end, which the applies rely on.
TypeOK ==
  /\ owner \in Owner /\ cached \in Owner /\ seen \in Owner
  /\ used \subseteq Uids
  /\ objs \in [Keys -> Object \cup {Absent}]
  /\ news \in BOOLEAN /\ queued \in BOOLEAN /\ cancelled \in BOOLEAN
  /\ pc \in {"idle", "apply", "cleanup", "error"}
  /\ next \in 1..(Len(Manifest) + 1)
  /\ tracked \subseteq Keys /\ replaced \subseteq Keys
  /\ worker \in [CleanupKinds -> WorkerState]
  /\ listed \in [CleanupKinds -> SUBSET Item]
  /\ actor \in {"user", "others", "gc", "operator"}
  /\ edits \in Nat /\ faults \in Nat /\ intrusions \in Nat

\* The reconcile implements the promise made to users: it only provides what
\* the observed spec wants and only removes this owner's own orphans.
Promise == INSTANCE Reconciliation WITH
             owner <- owner, objs <- objs, seen <- seen, replaced <- replaced, actor <- actor
KeepsPromise == Promise!Spec

\* Deletion never starts before the tracked set is the whole desired state of
\* the observed spec: a failed, skipped or unchanged apply is never taken for
\* an object that is no longer wanted.
CleanupStartsComplete == pc = "cleanup" => tracked = Desired(seen.spec)

\* A cleanup about to report success leaves no deletable orphan of the owner
\* incarnation it worked for, although its goroutines run in parallel, some
\* may fail and one failure cancels the calls of the others. (Objects that
\* others create while it runs may be missed.)
CleanupLeavesNoOrphan ==
  pc = "cleanup" /\ (\A g \in CleanupKinds : worker[g] = "done") =>
    \A k \in Deletable \ (Desired(seen.spec) \cup replaced) :
      objs[k] # Absent /\ objs[k].labelled => objs[k].ctrl # seen.uid

\* A mandatory object that the existing owner controls is never deleted by
\* the operator or the collector, whatever stale version of the spec or of
\* the owner a reconcile works with and whichever call fails.
MandatoryStays ==
  [][\A k \in Applied \ Optional :
       /\ owner # NoOwner
       /\ objs[k] # Absent /\ objs[k].ctrl = owner.uid
       /\ objs'[k] = Absent
       => actor' = "others"]_vars

\* Neither the operator nor the collector ever deletes a CRD, even after the
\* owner that applied it is gone.
CRDsSurvive ==
  [][\A k \in CRDs : objs[k] # Absent /\ objs'[k] = Absent => actor' = "others"]_vars

\* The cluster holds what the stored owner wants and none of its orphans.
Converged ==
  owner # NoOwner =>
    /\ \A k \in Desired(owner.spec) :
         objs[k] # Absent /\ (k \notin CRDs => objs[k].ctrl = owner.uid)
    /\ \A k \in Deletable \ Desired(owner.spec) :
         objs[k] # Absent /\ objs[k].labelled => objs[k].ctrl # owner.uid

\* Somebody else's controller holds an object the owner wants, or wants to
\* get rid of: every apply is refused.
Blocked ==
  \E k \in Desired(owner.spec) : ~Appliable(k, objs[k])

\* Once users, others and faults leave the cluster alone, it converges and
\* stays converged: no event that the operator needs is lost.
Converges == <>[](Converged \/ Blocked)

(***************************************************************************)
(* The inductive invariant behind the safety properties                    *)
(***************************************************************************)

OwnersWellFormed ==
  \A o \in {owner, cached, seen} : o.uid = NoUid => o = NoOwner

\* A reconcile starts from an empty tracked set and has an owner while it
\* works; goroutines only run during cleanup.
PhasesWellFormed ==
  /\ pc = "idle" => next = 1 /\ tracked = {}
  /\ pc \in {"apply", "cleanup"} => seen.uid \in Uids
  /\ pc \in {"idle", "apply"} => \A g \in CleanupKinds : worker[g] = "off"
  /\ pc = "error" => \A g \in CleanupKinds : worker[g] \notin {"list", "delete"}
  /\ pc = "cleanup" => \A g \in CleanupKinds : worker[g] # "off"
  /\ \A g \in CleanupKinds : worker[g] \in {"off", "list"} => listed[g] = {}

\* While applying, the tracked set is the desired part of the manifest so far.
TrackedSoFar ==
  pc = "apply" =>
    tracked = {k \in Desired(seen.spec) : \E i \in 1..(next - 1) : k = Manifest[i]}

\* A listed item is of its goroutine's kind, a listed CRD has no owner, and
\* where an item was listed as the owner's, its key holds nothing else unless
\* somebody put it there since.
ListedStillOwned ==
  \A g \in CleanupKinds : \A it \in listed[g] :
    /\ kindOf[it.key] = g
    /\ it.key \in CRDs => it.ctrl \notin Uids
    /\ pc = "cleanup" /\ it.ctrl = seen.uid /\ it.key \notin tracked
         /\ objs[it.key] # Absent /\ it.key \notin replaced
       => objs[it.key].ctrl = seen.uid

\* An orphan that a goroutine has listed is gone or still to be examined.
OrphansListed ==
  pc = "cleanup" =>
    \A k \in Deletable \ (Desired(seen.spec) \cup replaced) :
      /\ worker[kindOf[k]] \in {"delete", "done"}
      /\ objs[k] # Absent /\ objs[k].labelled /\ objs[k].ctrl = seen.uid
      => /\ worker[kindOf[k]] = "delete"
         /\ [key |-> k, ctrl |-> seen.uid] \in listed[kindOf[k]]

CRDsUncontrolled ==
  \A k \in CRDs : objs[k] # Absent => objs[k].ctrl \notin Uids

UnservedEmpty ==
  \A k \in Keys : kindOf[k] \in Unserved => objs[k] = Absent

IInv ==
  /\ TypeOK
  /\ OwnersWellFormed
  /\ PhasesWellFormed
  /\ TrackedSoFar
  /\ CleanupStartsComplete
  /\ ListedStillOwned
  /\ OrphansListed
  /\ CRDsUncontrolled
  /\ UnservedEmpty
=============================================================================

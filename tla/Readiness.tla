----------------------------- MODULE Readiness -----------------------------
(***************************************************************************)
(* How the health of Deployments becomes the Ready condition of the        *)
(* Konflux CR and the konflux_up metric. Each component's controller turns *)
(* the Deployments it finds in the cache into the Ready condition of its   *)
(* sub-CR; the Konflux controller applies the sub-CRs, copies their        *)
(* conditions from the cache, aggregates them, lets a missing cert-manager *)
(* override the result and writes its status. Status writes carry the      *)
(* version that was read and are refused when it is not the stored one.    *)
(* A controller that watches Certificates does not start before their CRD  *)
(* exists; the others do, and one that runs stays when the CRD disappears. *)
(***************************************************************************)
EXTENDS Naturals, Sequences

CONSTANTS
  Setups,     \* the components a cluster may have, in the order their status is collected,
              \* whether everything is deployed already, and how many edits of the spec,
              \* installations and removals of cert-manager, changes of Deployments' health,
              \* and failed calls and crashes there may be
  Optional,   \* components that the Konflux spec may disable
  NeedsCerts  \* components that apply and watch Certificates

AllComponents == UNION {{s.order[i] : i \in 1..Len(s.order)} : s \in Setups}

ASSUME ReadinessAssumption ==
  /\ Setups \subseteq [order: Seq(AllComponents), deployed: BOOLEAN, edits: Nat, installs: Nat, flips: Nat, faults: Nat]
  /\ \A s \in Setups : \A i, j \in 1..Len(s.order) : s.order[i] = s.order[j] => i = j

VARIABLES
  order,      \* the components of this cluster; it never changes
  enabled,    \* Konflux.spec: the components it wants
  status,     \* Konflux.status
  cEnabled, cStatus, kBehind,   \* the Konflux CR in the cache, and whether it is outdated
  sub,        \* the Ready condition of each sub-CR, or that it does not exist
  cSub, lag,  \* the sub-CRs in the cache, and how outdated they are
  health,     \* each component's Deployment as the API server stores it
  cHealth,    \* the same in the cache
  orphaned,   \* components whose Deployment is controlled by a deleted sub-CR
  certs,      \* cert-manager is installed
  up,         \* the konflux_up metric
  kQueued, cQueued,             \* the work queues
  kLater,     \* the Konflux request is to be queued after a while
  kpc, kSeen, kCopy, kNext, kAllReady, kCurrent,   \* the Konflux reconcile
  cpc, cLag,            \* the components' reconciles
  started,    \* components whose controller has started its workers
  edits, installs, flips, faults   \* how many of each there may still be

Components == {order[i] : i \in 1..Len(order)}

konflux  == <<enabled, status, cEnabled, cStatus, kBehind>>
subs     == <<sub, cSub, lag>>
deploys  == <<health, cHealth, orphaned>>
queues   == <<kQueued, cQueued, kLater>>
kLocal   == <<kpc, kSeen, kCopy, kNext, kAllReady, kCurrent>>
cLocal   == <<cpc, cLag, started>>
used     == <<edits, installs, flips, faults>>
vars     == <<konflux, subs, deploys, certs, up, queues, kLocal, cLocal, used>>

\* Conditions as statuses: "none" when there is no such condition. A copy in
\* memory remembers whether a LastTransitionTime was touched.
Status == [ready : {"none", "true", "false"},
           cm    : {"none", "true", "false", "unknown"},
           conds : [Components -> {"none", "true", "false"}]]

StatusCopy == [ready : {"none", "true", "false"},
               cm    : {"none", "true", "false", "unknown"},
               conds : [Components -> {"none", "true", "false"}],
               touched : BOOLEAN]

NoStatus == [ready |-> "none", cm |-> "none", conds |-> [c \in Components |-> "none"]]

Copy(s, t) == [ready |-> s.ready, cm |-> s.cm, conds |-> s.conds, touched |-> t]
Stored(s) == [ready |-> s.ready, cm |-> s.cm, conds |-> s.conds]

\* SetStatusCondition: an unchanged condition keeps its transition time.
SetReady(s, v) == [s EXCEPT !.ready = v, !.touched = (@ \/ s.ready # v)]
SetCertManager(s, v) == [s EXCEPT !.cm = v, !.touched = (@ \/ s.cm # v)]

\* Mutant of CopySubCRStatus: conditions are removed and added afresh.
CopySubCRStatusAfresh(s, c, v) ==
  [s EXCEPT !.conds[c] = IF v = "unknown" THEN "none" ELSE v, !.touched = TRUE]

\* The sub-CR's condition replaces the prefixed one; a sub-CR that has not
\* reported yet has no condition, and the prefixed one is removed.
CopySubCRStatus(s, c, v) ==
  LET w == IF v = "unknown" THEN "none" ELSE v
  IN  [s EXCEPT !.conds[c] = w, !.touched = (@ \/ s.conds[c] # w)]

\* How outdated a copy of a sub-CR is: its status or spec has changed, or that
\* incarnation has been deleted.
Lag == {"none", "changed", "deleted"}
Changed(l) == IF l = "none" THEN "changed" ELSE l

(***************************************************************************)
(* Users, the cluster and the informers                                    *)
(***************************************************************************)

EditSpec(c) ==
  /\ edits > 0 /\ edits' = edits - 1
  /\ c \in Optional
  /\ enabled' = IF c \in enabled THEN enabled \ {c} ELSE enabled \cup {c}
  /\ kBehind' = TRUE
  /\ kCurrent' = FALSE
  /\ UNCHANGED <<status, cEnabled, cStatus, subs, deploys, certs, up, queues, kpc, kSeen, kCopy,
                 kNext, kAllReady, cLocal, installs, flips, faults>>

InstallCertManager ==
  /\ installs > 0 /\ installs' = installs - 1
  /\ ~certs
  /\ certs' = TRUE
  /\ UNCHANGED <<konflux, subs, deploys, up, queues, kLocal, cLocal, edits, flips, faults>>

\* The Certificates disappear with their CRD, which their controllers hear of;
\* nobody watches for the CRD itself.
RemoveCertManager ==
  /\ installs > 0 /\ installs' = installs - 1
  /\ certs
  /\ certs' = FALSE
  /\ cQueued' = cQueued \cup {c \in started \cap NeedsCerts : health[c] # "none"}
  /\ UNCHANGED <<konflux, subs, deploys, up, kQueued, kLater, kLocal, cLocal, edits, flips, faults>>

\* Pods become ready or fail.
Flip(c) ==
  /\ flips > 0 /\ flips' = flips - 1
  /\ health[c] # "none"
  /\ health' = [health EXCEPT ![c] = IF @ = "up" THEN "down" ELSE "up"]
  /\ UNCHANGED <<konflux, subs, cHealth, orphaned, certs, up, queues, kLocal, cLocal, edits, installs, faults>>

\* The Deployment of a deleted sub-CR is collected.
Collect(c) ==
  /\ c \in orphaned
  /\ orphaned' = orphaned \ {c}
  /\ health' = [health EXCEPT ![c] = "none"]
  /\ UNCHANGED <<konflux, subs, cHealth, certs, up, queues, kLocal, cLocal, used>>

SyncKonflux ==
  /\ kBehind
  /\ kBehind' = FALSE
  /\ cEnabled' = enabled /\ cStatus' = status
  /\ kQueued' = TRUE
  /\ UNCHANGED <<enabled, status, subs, deploys, certs, up, cQueued, kLater, kLocal, cLocal, used>>

\* A change of a sub-CR concerns its own controller and Konflux's.
SyncSub(c) ==
  /\ lag[c] # "none"
  /\ lag' = [lag EXCEPT ![c] = "none"]
  /\ cSub' = [cSub EXCEPT ![c] = sub[c]]
  /\ kQueued' = TRUE
  /\ cQueued' = cQueued \cup {c}
  /\ UNCHANGED <<konflux, sub, deploys, certs, up, kLater, kLocal, cLocal, used>>

\* Mutant of SyncHealth: the predicate only lets a lost readiness pass.
SyncHealthLost(c) ==
  /\ cHealth[c] # health[c]
  /\ cHealth' = [cHealth EXCEPT ![c] = health[c]]
  /\ cQueued' = IF health[c] = "up" THEN cQueued ELSE cQueued \cup {c}
  /\ UNCHANGED <<konflux, subs, health, orphaned, certs, up, kQueued, kLater, kLocal, cLocal, used>>

\* DeploymentReadinessPredicate lets every change of health pass.
SyncHealth(c) ==
  /\ cHealth[c] # health[c]
  /\ cHealth' = [cHealth EXCEPT ![c] = health[c]]
  /\ cQueued' = cQueued \cup {c}
  /\ UNCHANGED <<konflux, subs, health, orphaned, certs, up, kQueued, kLater, kLocal, cLocal, used>>

RequeueKonflux ==
  /\ kLater
  /\ kLater' = FALSE
  /\ kQueued' = TRUE
  /\ UNCHANGED <<konflux, subs, deploys, certs, up, cQueued, kLocal, cLocal, used>>

(***************************************************************************)
(* A component's controller                                                *)
(***************************************************************************)

\* The controllers that start with the process: the source of a kind whose CRD
\* is missing is not synced, and the workers wait for all sources.
Startable == IF certs THEN Components ELSE Components \ NeedsCerts

\* The missing CRD is looked for again and again. What the other sources have
\* queued meanwhile is worked on now.
StartController(c) ==
  /\ c \in Startable \ started
  /\ started' = started \cup {c}
  /\ UNCHANGED <<konflux, subs, deploys, certs, up, queues, kLocal, cpc, cLag, used>>

cReturn(c) ==
  /\ cpc' = [cpc EXCEPT ![c] = "idle"]
  /\ cLag' = [cLag EXCEPT ![c] = "none"]
  /\ UNCHANGED started

\* The sub-CR is read from the cache.
ComponentBegin(c) ==
  /\ c \in cQueued \cap started /\ cpc[c] = "idle"
  /\ cQueued' = cQueued \ {c}
  /\ IF cSub[c] = "absent"
       THEN UNCHANGED cLocal
       ELSE /\ cpc' = [cpc EXCEPT ![c] = "apply"]
            /\ cLag' = [cLag EXCEPT ![c] = lag[c]]
            /\ UNCHANGED started
  /\ UNCHANGED <<konflux, subs, deploys, certs, up, kQueued, kLater, kLocal, used>>

\* The manifests are applied, the Deployment among them. It belongs to the
\* sub-CR that was read, which may be gone.
ComponentApply(c) ==
  /\ cpc[c] = "apply"
  /\ c \in NeedsCerts => certs
  /\ cpc' = [cpc EXCEPT ![c] = "update"]
  /\ health' = [health EXCEPT ![c] = IF @ = "none" THEN "down" ELSE @]
  /\ orphaned' = IF cLag[c] = "deleted" THEN orphaned \cup {c} ELSE orphaned \ {c}
  /\ UNCHANGED <<konflux, subs, cHealth, certs, up, queues, kLocal, cLag, started, used>>

\* A status write; one that changes nothing makes no event.
SetSub(c, v) ==
  /\ sub' = [sub EXCEPT ![c] = v]
  /\ lag' = [lag EXCEPT ![c] = IF sub[c] = v THEN @ ELSE Changed(@)]

\* UpdateComponentStatuses: all the Deployments in the cache are ready.
\* Without any, the component counts as ready.
ComponentReady(c) == IF cHealth[c] = "down" THEN "false" ELSE "true"

\* The write is refused (Conflict or NotFound) unless the copy is current.
ComponentUpdate(c) ==
  /\ cpc[c] = "update"
  /\ IF cLag[c] = "none"
       THEN SetSub(c, ComponentReady(c)) /\ UNCHANGED cQueued
       ELSE cQueued' = cQueued \cup {c} /\ UNCHANGED <<sub, lag>>
  /\ cReturn(c)
  /\ UNCHANGED <<konflux, cSub, deploys, certs, up, kQueued, kLater, kLocal, used>>

\* The error handler reports Ready=False, if the copy is current.
ReportSub(c) ==
  IF cLag[c] = "none" THEN SetSub(c, "false") ELSE UNCHANGED <<sub, lag>>

\* It returns the error: the request is queued again.
ComponentError(c) ==
  /\ cReturn(c)
  /\ cQueued' = cQueued \cup {c}
  /\ UNCHANGED <<konflux, cSub, deploys, certs, up, kQueued, kLater, kLocal, edits, installs, flips>>

\* Certificates cannot be applied without cert-manager.
ComponentRefused(c) ==
  /\ cpc[c] = "apply" /\ c \in NeedsCerts /\ ~certs
  /\ ReportSub(c)
  /\ ComponentError(c)
  /\ UNCHANGED faults

\* A call fails, and perhaps the report of the failure as well.
ComponentFails(c) ==
  /\ cpc[c] # "idle"
  /\ faults > 0 /\ faults' = faults - 1
  /\ ReportSub(c) \/ UNCHANGED <<sub, lag>>
  /\ ComponentError(c)

(***************************************************************************)
(* The Konflux controller                                                  *)
(***************************************************************************)

kReturn(k) ==
  /\ kpc' = "idle"
  /\ kSeen' = {} /\ kCopy' = Copy(NoStatus, FALSE) /\ kNext' = 1 /\ kAllReady' = TRUE /\ kCurrent' = FALSE
  /\ up' = (k.ready = "true")

KonfluxBegin ==
  /\ kQueued /\ kpc = "idle"
  /\ kQueued' = FALSE
  /\ kpc' = "apply"
  /\ kSeen' = cEnabled /\ kCopy' = Copy(cStatus, FALSE) /\ kCurrent' = ~kBehind
  /\ UNCHANGED <<konflux, subs, deploys, certs, up, cQueued, kLater, kNext, kAllReady, cLocal, used>>

\* The enabled sub-CRs are applied and the others cleaned up (see Tracking).
\* A sub-CR that changes here is no longer what its controller has read.
ApplySubCRs ==
  /\ kpc = "apply"
  /\ kpc' = "collect"
  /\ LET created == {c \in kSeen : sub[c] = "absent"}
         deleted == {c \in Components \ kSeen : sub[c] # "absent"}
     IN  /\ sub' = [c \in Components |-> IF c \in created THEN "unknown"
                                         ELSE IF c \in deleted THEN "absent" ELSE sub[c]]
         /\ lag' = [c \in Components |-> IF c \in created THEN Changed(lag[c])
                                         ELSE IF c \in deleted THEN "deleted" ELSE lag[c]]
         /\ cLag' = [c \in Components |-> IF c \in deleted /\ cpc[c] # "idle" THEN "deleted"
                                          ELSE cLag[c]]
         /\ orphaned' = orphaned \cup {c \in deleted : health[c] # "none"}
  /\ UNCHANGED <<konflux, cSub, health, cHealth, certs, up, queues, kSeen, kCopy, kNext, kAllReady,
                 kCurrent, cpc, started, used>>

AtComponent(c) == kpc = "collect" /\ kNext <= Len(order) /\ c = order[kNext]

\* Mutant of Collected: an error of the Get is ignored.
CollectedAnyway(c) == c \in kSeen

\* The sub-CR is wanted and the cache has it.
Collected(c) == c \in kSeen /\ cSub[c] # "absent"

\* The condition is copied, and counts.
CollectStatus(c) ==
  /\ AtComponent(c) /\ Collected(c)
  /\ kCopy' = CopySubCRStatus(kCopy, c, cSub[c])
  /\ kAllReady' = (kAllReady /\ cSub[c] = "true")
  /\ kNext' = kNext + 1
  /\ UNCHANGED <<konflux, subs, deploys, certs, up, queues, kpc, kSeen, kCurrent, cLocal, used>>

\* A disabled component is neither copied nor counted.
SkipStatus(c) ==
  /\ AtComponent(c) /\ c \notin kSeen
  /\ kNext' = kNext + 1
  /\ UNCHANGED <<konflux, subs, deploys, certs, up, queues, kpc, kSeen, kCopy, kAllReady, kCurrent,
                 cLocal, used>>

\* A status write makes an event unless it changes nothing. Transition times
\* have a resolution of one second, so a new one may look like the old one.
SetKonflux(s) ==
  /\ status' = Stored(s)
  /\ \/ kBehind' = (kBehind \/ status' # status)
     \/ s.touched /\ kBehind' = TRUE

\* The error handler reports Ready=False with what has been copied so far, if
\* the copy is current.
Failed == SetReady(kCopy, "false")
ReportKonflux == IF kCurrent THEN SetKonflux(Failed) ELSE UNCHANGED <<status, kBehind>>

\* It returns the error: the request is queued again.
KonfluxError ==
  /\ kReturn(Failed)
  /\ kQueued' = TRUE
  /\ UNCHANGED <<enabled, cEnabled, cStatus, subs, deploys, certs, cQueued, kLater, cLocal, edits,
                 installs, flips>>

\* The cache does not have the sub-CR yet.
CollectNotFound(c) ==
  /\ AtComponent(c) /\ c \in kSeen /\ ~Collected(c)
  /\ ReportKonflux
  /\ KonfluxError
  /\ UNCHANGED faults

\* A call fails, and perhaps the report of the failure as well.
KonfluxFails ==
  /\ kpc # "idle"
  /\ faults > 0 /\ faults' = faults - 1
  /\ ReportKonflux \/ UNCHANGED <<status, kBehind>>
  /\ KonfluxError

\* SetAggregatedReadyCondition.
Aggregate(s) == SetReady(s, IF kAllReady THEN "true" ELSE "false")

\* checkCertManagerAvailability with the answer v: an explicit no overrides.
CheckCertManager(s, v) ==
  LET t == SetCertManager(s, v) IN IF t.cm = "false" THEN SetReady(t, "false") ELSE t

\* Mutant of FinalStatus: the override comes before the aggregation.
FinalStatusSwapped(s, v) == Aggregate(CheckCertManager(s, v))

FinalStatus(s, v) == CheckCertManager(Aggregate(s), v)

\* The check is repeated after a while unless cert-manager is there.
RecheckLater(v) == v # "true"

\* The whole status is written at once, or refused; only a write that
\* succeeds returns the result of the cert-manager check.
KonfluxUpdate ==
  /\ kpc = "collect" /\ kNext > Len(order)
  /\ \E v \in {IF certs THEN "true" ELSE "false", "unknown"} :
       /\ IF v = "unknown" THEN faults > 0 /\ faults' = faults - 1 ELSE UNCHANGED faults
       /\ kReturn(FinalStatus(kCopy, v))
       /\ IF kCurrent
            THEN /\ SetKonflux(FinalStatus(kCopy, v))
                 /\ kLater' = (kLater \/ RecheckLater(v))
                 /\ UNCHANGED kQueued
            ELSE kQueued' = TRUE /\ UNCHANGED <<status, kBehind, kLater>>
  /\ UNCHANGED <<enabled, cEnabled, cStatus, subs, deploys, certs, cQueued, cLocal, edits, installs, flips>>

\* The process ends and starts again: caches full, everything queued, metric
\* zero.
RestartProcess ==
  /\ cEnabled' = enabled /\ cStatus' = status /\ kBehind' = FALSE
  /\ cSub' = sub /\ lag' = [c \in Components |-> "none"] /\ cHealth' = health
  /\ kReturn(NoStatus)
  /\ cpc' = [c \in Components |-> "idle"]
  /\ cLag' = lag'
  /\ started' = Startable
  /\ kQueued' = TRUE /\ cQueued' = Components /\ kLater' = FALSE
  /\ UNCHANGED <<enabled, status, sub, health, orphaned, certs, edits, installs, flips>>

Crash ==
  /\ faults > 0 /\ faults' = faults - 1
  /\ RestartProcess

\* A controller whose sources are not synced after two minutes ends the manager
\* with an error; the Konflux controller has been at work by then.
CacheSyncTimeout ==
  /\ started # Components
  /\ kpc = "idle" /\ ~kQueued
  /\ RestartProcess
  /\ UNCHANGED faults

(***************************************************************************)
(* Specification                                                           *)
(***************************************************************************)

\* A Konflux CR with everything enabled was just created; the operator has been
\* started with or without cert-manager installed.
NewCluster ==
  /\ status = NoStatus
  /\ sub = [c \in Components |-> "absent"]
  /\ health = [c \in Components |-> "none"]
  /\ certs \in BOOLEAN
  /\ cQueued = {}

\* The operator has been started in a cluster where everything is deployed and
\* ready.
DeployedCluster ==
  /\ status = [ready |-> "true", cm |-> "true", conds |-> [c \in Components |-> "true"]]
  /\ sub = [c \in Components |-> "true"]
  /\ health = [c \in Components |-> "up"]
  /\ certs = TRUE
  /\ cQueued = Components

Init ==
  /\ \E s \in Setups : /\ order = s.order
                       /\ IF s.deployed THEN DeployedCluster ELSE NewCluster
                       /\ edits = s.edits /\ installs = s.installs
                       /\ flips = s.flips /\ faults = s.faults
  /\ enabled = Components
  /\ cEnabled = enabled /\ cStatus = status /\ kBehind = FALSE
  /\ cSub = sub /\ lag = [c \in Components |-> "none"]
  /\ cHealth = health /\ orphaned = {}
  /\ up = FALSE
  /\ kQueued = TRUE /\ kLater = FALSE
  /\ kpc = "idle" /\ kSeen = {} /\ kCopy = Copy(NoStatus, FALSE) /\ kNext = 1 /\ kAllReady = TRUE
  /\ kCurrent = FALSE
  /\ cpc = [c \in Components |-> "idle"]
  /\ cLag = [c \in Components |-> "none"]
  /\ started = Startable

Konflux ==
  \/ KonfluxBegin \/ ApplySubCRs \/ KonfluxUpdate
  \/ \E c \in Components : CollectStatus(c) \/ SkipStatus(c) \/ CollectNotFound(c)

Component(c) ==
  \/ ComponentBegin(c) \/ ComponentApply(c)
  \/ ComponentUpdate(c) \/ ComponentRefused(c)

Next ==
  \/ InstallCertManager \/ RemoveCertManager
  \/ SyncKonflux \/ RequeueKonflux
  \/ \E c \in Components :
       \/ EditSpec(c) \/ Flip(c) \/ Collect(c)
       \/ SyncSub(c) \/ SyncHealth(c)
       \/ StartController(c) \/ Component(c) \/ ComponentFails(c)
  \/ Konflux \/ KonfluxFails
  \/ Crash \/ CacheSyncTimeout

\* Informers deliver, timers fire, the collector collects and every
\* controller starts once it can and its worker goroutine runs. Users, pods and
\* faults owe nothing.
Fairness ==
  /\ WF_vars(SyncKonflux) /\ WF_vars(RequeueKonflux) /\ WF_vars(Konflux)
  /\ \A c \in AllComponents :
       /\ WF_vars(c \in Components /\ SyncSub(c))
       /\ WF_vars(c \in Components /\ SyncHealth(c))
       /\ WF_vars(c \in Components /\ Collect(c))
       /\ WF_vars(c \in Components /\ StartController(c))
       /\ WF_vars(c \in Components /\ Component(c))

Spec == Init /\ [][Next /\ UNCHANGED order]_<<vars, order>>

FairSpec == Spec /\ Fairness

(***************************************************************************)
(* Properties                                                              *)
(***************************************************************************)

\* Every variable has its type; in particular only conditions a sub-CR reported
\* are ever copied to the Konflux CR.
TypeOK ==
  /\ {enabled, cEnabled, kSeen, orphaned, cQueued, started} \subseteq SUBSET Components
  /\ {status, cStatus} \subseteq Status /\ kCopy \in StatusCopy
  /\ {lag, cLag} \subseteq [Components -> Lag]
  /\ {sub, cSub} \subseteq [Components -> {"absent", "unknown", "true", "false"}]
  /\ {health, cHealth} \subseteq [Components -> {"none", "down", "up"}]
  /\ {kBehind, certs, up, kQueued, kLater, kAllReady, kCurrent} \subseteq BOOLEAN
  /\ kpc \in {"idle", "apply", "collect"}
  /\ kNext \in 1..(Len(order) + 1)
  /\ cpc \in [Components -> {"idle", "apply", "update"}]

\* Ready=True never stands next to a condition that contradicts it: neither a
\* missing cert-manager nor a mandatory component whose copied condition is
\* not True, on whatever path the status was written.
StatusConsistent ==
  status.ready = "true" =>
    /\ status.cm # "false"
    /\ \A c \in Components \ Optional : status.conds[c] = "true"

Healthy(c) == health[c] = "up" /\ (c \in NeedsCerts => certs)
AllHealthy == certs /\ \A c \in enabled : Healthy(c)

\* Once users, pods and faults come to rest, the Ready condition, the copied
\* conditions of the enabled components and the metric tell the truth about
\* Deployments and cert-manager, through two caches, two optimistic locks and
\* one timer. (A component whose controller waits for the CRD of Certificates
\* keeps the condition it had; Ready is False then.)
ReadyConverges ==
  <>[](/\ status.ready = (IF AllHealthy THEN "true" ELSE "false")
       /\ up = AllHealthy
       /\ \A c \in enabled \cap started :
            status.conds[c] = (IF Healthy(c) THEN "true" ELSE "false"))

\* With cert-manager installed the controllers come to rest: their own status
\* writes do not keep waking them up.
Quiesces == <>[](certs => kpc = "idle" /\ ~kQueued /\ \A c \in Components : cpc[c] = "idle")
=============================================================================

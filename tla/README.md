# Konflux operator: TLA+ models

The repository installs and operates Konflux on a Kubernetes cluster. Its core is
`operator/`, a Kubernetes operator with one controller per component. This project
models the behaviour of those controllers: what they do to the cluster, in which order,
and what happens when calls fail, caches lag, the process dies, or users, other
controllers and the garbage collector act in between.

## The system

### Components, their state and operations

| part | state | operations |
|---|---|---|
| Tracking client (`pkg/tracking`) | per reconcile: the set of applied keys | `ApplyOwned`, `SetOwnership`, `CreateOrUpdate`, `CleanupOrphans` |
| Konflux controller (`internal/controller/konflux`) | the `Konflux` CR, fifteen sub-CRs | apply the enabled sub-CRs, clean up the others, collect and aggregate status, check for cert-manager |
| Component controllers (`internal/controller/*`) | one sub-CR each, its Deployments, ConfigMaps, Secrets, RBAC objects | apply manifests, clean up orphans, report status |
| Conditions and error handler (`internal/condition`) | conditions in the CRs' status | set, copy, aggregate, override; report a failure and return it |
| Internal registry and default tenant | two Secrets and a copy | rotate credentials, copy them to the tenant |
| Metrics wiring (`pkg/kubernetes`, `internal/common`, `internal/operatormetrics`) | scrape tokens, ServiceMonitors, TLS Secrets | mint and refresh tokens, gate and resync ServiceMonitors |
| KonfluxInfo and version poller | info ConfigMap, last version seen | poll, notify, refresh |
| KonfluxUI (`internal/controller/ui`) | dex and proxy Deployments, hashed ConfigMap and Secret, client secret, Ingress, ConsoleLink | determine the endpoint, configure the login, roll out, clean up |
| Operand controllers (build, integration, image, release, namespace-lister, segment bridge, enterprise contract, cert-manager, RBAC, application API) | one sub-CR each and the objects of its embedded manifests | customise and apply, skip what is switched off, clean up |
| Hashed ConfigMaps and Secrets | ConfigMaps named after their content | create the new one, delete the old ones |
| Overrides (`cmd/overrides`, `pkg/overrides`) | kustomizations, a copy of them, the manifests the operator embeds | replace sources and images, rebuild |
| Predicates and handlers | none | decide which events reach which queue |
| Builders (`dex`, `oauth2proxy`, `ingress`, `customization`) and manifest store | none | construct objects |

### How they interact

Everything goes through the API server. Users edit the `Konflux` CR; the Konflux
controller turns it into sub-CRs, which are the input of the component controllers; these
write their status, which the Konflux controller aggregates. Controllers learn of changes
through watches, read CRs, Secrets and Deployments from informer caches that lag behind,
and write to the API server directly. Each controller has one worker goroutine and a work
queue that collapses duplicate requests. Inside a reconcile, `CleanupOrphans` runs one
goroutine per kind. The garbage collector deletes objects whose controlling owner is gone.

### What is hard

* A cleanup that deletes what was not applied, over a partial set of applied objects.
* Parallel goroutines of which one fails and cancels the others.
* Labels that survive the owner's recreation, controller references that do not.
* Decisions on cached state that was overtaken; two writes that should be one.
* Status writes that are refused, lost or wake up their own writer.
* An optional component that is disabled and enabled again while its old objects are
  still being collected.
* Timers that are the only way back (cert-manager, missing Secrets, tokens).
* The order of ConfigMap, Secret, Deployment and cleanup when a configuration changes.
* Tables (watched kinds, cleanup lists, allow lists) kept apart from the code they must fit.
* A tool that edits files in place and is run again on what it left.

`PROJECT.json` lists these as hazards, each at its line and with the properties for it.

### What makes each part correct

* Tracking: delete only one's own orphans, and only after everything desired was applied;
  report success only without orphans; never delete a mandatory object or a CRD; converge.
* Registry credentials: registry and clients hold the same password; the tenant has the
  current one or none.
* Readiness: Ready never contradicts the conditions next to it; condition and metric end
  up telling the truth; status writes come to rest.
* Metrics wiring: a token never expires while it is in use; Prometheus learns of a new one.
* Version poller: every change of version reaches the info ConfigMap.
* KonfluxUI: no Pod refers to a ConfigMap or Secret the operator has deleted; a client secret
  is kept; the parts of the login agree; the last configuration runs or its error is told.
* Operands: a successful pass restores everything, also of kinds nobody watches; settings win
  by layer; what is switched off goes; events alone lead to the last spec.
* Overrides: nothing that is to be replaced is left, repeating heals a failed run, and a
  rebuilt component does not depend on earlier runs.

## Modules

| module | models |
|---|---|
| `Cluster` | keys, kinds, cleanup tables, objects, owners, what an apply leaves behind |
| `Reconciliation` | abstract: what a controller promises about the objects of its cluster |
| `Tracking` | a reconcile with the tracking client, call by call, with its surroundings |
| `RegistryCredentials` | `ensureRegistryCredentials` and the tenant's copy of the credentials |
| `Readiness` | from Deployments through sub-CRs to the `Konflux` CR and the metric |
| `InfoVersions` | the versions in `info.json`: the version poller, its channel, the KonfluxInfo reconcile |
| `ScrapeToken` | the scrape token, its ServiceMonitor, the TLS gate and the resync annotations, with a clock |
| `UIRollout` | the KonfluxUI controller: hashed ConfigMap and Secret, both Deployments and their rollout, client secret, ingress, login configuration |
| `Customization` | operators: container, environment, argument and volume overlays, the merge of pipelines |
| `Operands` | the ten operand controllers, extends `Customization` |
| `Overrides` | `Runner.Apply` of the override tool over repeated runs |
| `MC*` | instances for TLC |
| `*_proofs` | the proofs about `Tracking`, `RegistryCredentials`, `Readiness`, `InfoVersions`, `ScrapeToken`, `UIRollout`, `Operands` and `Overrides` |

`Tracking` extends `Cluster` and instantiates `Reconciliation` with its own variables and constants as
the refinement mapping. `Operands` takes `CleanupOrphans` as one step per pass, since `Tracking`
shows what its goroutines do, and the ServiceMonitor's waiting as a choice, since `ScrapeToken`
shows what it waits for.

### Tracking

One owner (any CR of the operator) and its objects. `Manifest` is the order in which
`applyManifests`, or the Konflux controller, applies objects; `Optional` are those the
spec may switch off. A reconcile goes through the phases `apply` (one step per object:
`Skip`, `ApplyOwned`, `ApplyFails`, `ApplyLost`), `cleanup` (one goroutine per kind:
`List`, then `SpareItem` or `DeleteItem` per item) and `error`. Phases, not code lines, are
the atomic steps: each makes at most one API call, so everything else can happen between
two calls. `seen` is the copy of the owner that was read from the cache, `tracked` the
client's set, `listed` what each goroutine still has to examine. An object is its
controller reference (the owner's uid, somebody else's, or none) and whether it carries
the owner label, which holds the owner's name and so survives its recreation.

The cleanup list is unstructured and therefore not served from the cache; the delete
states no precondition. `Foreign` is a controller reference of somebody else's owner, which
makes an apply fail. Users create, edit and delete the owner (`Uids` are its incarnations, and
a new one gets a uid that is not in use);
others create and delete objects, possibly with copied labels and references, which is
the case the uid check and the allow list are for.

`Reconciliation` says what users may rely on, without tracked sets, listings or goroutines:
while a controller works for a version of its owner, it provides only what that version
wants and removes only what this incarnation controls, the version does not want and the
tables allow. One exception is part of the promise because the code has it: an object
that others created during the reconcile, under a name that had belonged to the operator,
may be removed. `KeepsPromise` is the refinement: `Promise == INSTANCE Reconciliation WITH ...`
names the state function that stands for each abstract variable.

### RegistryCredentials

Two controllers, each with its queue. Every read (`htpasswd?`, `client?`) and write
(`htpasswd!`, `client!`) of `ensureRegistryCredentials` is a step. Secret events travel in
order from the API server to the cache (`events`); `CreateOrUpdate` compares with the
cached Secret and is refused when the cache is not current, since a create then meets an
existing object and an update a newer version. A password is a value; a fresh one is a
value in use nowhere, so a handful of passwords suffices.

### Readiness

Conditions are reduced to their status; a copy in memory remembers whether a transition
time was touched, which is what makes a status write an event. `ApplySubCRs` takes the
applies and the cleanup of sub-CRs as one step, since `Tracking` shows what they do.
A component's reconcile reads its sub-CR, applies its Deployment, which a sub-CR that is
already deleted may still own (`orphaned`), and writes the Ready condition that the cached
Deployments justify. The Konflux reconcile copies one sub-CR per step and writes once.
`cLag` and `kCurrent` say whether a copy is still the stored version: if not, the write is
refused. `cert-manager` comes and goes; a component with Certificates cannot be applied
without it, and its controller, which `Owns` Certificates, does not start before that CRD is
there (`Startable`, `StartController`): its queue fills meanwhile, and controller-runtime gives up
after two minutes and ends the process (`CacheSyncTimeout`). A controller that has been started
goes on when cert-manager is removed, until the next restart.

### ScrapeToken

One namespace's scrape wiring. `ReconcilePrometheusScrapeToken` is a sequence of phases with
one API call each (`read`, `publish`, `tls`, `retain`, `probe`, `apply`, `resync`, then
`clean` and `finish`), run by the `caller`: an operand controller or the operator's
`ScrapeTokenRotator`. They differ in what follows the scrape part (orphan cleanup
or nothing), in what an error leads to (backoff of the work queue, or the full rotation
interval), and in who else wakes them (`TokenRotationBroadcaster` and the ServiceMonitor
watch, or the timer alone). The work queue keeps the earliest delayed request, the rotator
replaces its timer; both channels have one slot, so `wake` is a Boolean.

Time is kept as what is left until each deadline, so it needs no bound: `left` of the token,
`settle` of the marker, `timer` and `ticker`. A reconcile takes less than a unit and is not
delayed by one. Tokens and versions of the Secret are only compared, so a fresh one is a
value in use nowhere. The token Secret is read from the cache, whose events travel in order
(`news`); the certificate and the ServiceMonitor are read from the API server. `told` is
what prometheus-operator, which is external, read when the ServiceMonitor last changed.

A stale cache makes the reconcile mint twice and then apply its cached copy of the first
token over the second. Both are fresh; with an informer that is late at every single reconcile
the two would be published in turn for ever, and `ScrapeConverges` and `SettleRetried` say that
this ends when it is not: the ServiceMonitor and a token that prometheus-operator has read stay.

### InfoVersions

The Kubernetes and OpenShift versions in `info.json`. The reconcile asks the API server for
the one (an error leaves it empty and is otherwise ignored) and reads the other from the cached
`ClusterVersion` history (no completed entry is an error), then applies the ConfigMap and
writes its status, which is refused when its copy of the CR is outdated. The poller is three
steps: its first question, a tick, and the send that drops the event when the channel is full.
The handlers list the CRs in the cache, so an event that comes before the CR is dropped too.
Cluster ID, ingress domain, banner and cluster-config are data or can only fail.

`VersionsPublished` names the two cases in which `info.json` stays outdated until something else
happens. `missed`: see the finding below. `blind`: two errors of `K8sVersion` in a row leave an
empty version, since the second apply changes nothing and so makes no event. Without either
exception TLC finds a counterexample.

### UIRollout

One pass is `Begin` (read, namespace, endpoint), `reconcileDexConfigMap`, `reconcileSegmentSecret`,
`applyManifests` with the ingress, `ensureUISecrets`, `CleanupOrphans`, `UpdateStatus`, in the order of
`KonfluxUIReconciler.Reconcile`; each may fail on its own, and a failed apply leaves the objects
before the failing call. A name with a content hash is the pair of base name and content.
The dex ConfigMaps and the client secret are read from caches (`mapCache`, `clientCache`) that informers
bring up to date; `news` are the events on their way, which queue a request when they arrive. The orphan
cleanup lists unstructured, so it sees and deletes everything of the owner on the API server that the pass
has not tracked (`Orphans`): hashed Secrets, the client secret, Ingress and console link. `pass.tracked` is
filled where the code applies or creates them, and a cleanup that fails may have deleted any of them. `roll` is what a
Deployment's status knows: `late` is a new template whose generation has not been observed, with the
counters of the old one, which `IsDeploymentReady` takes for ready; `rolling` Pods become ready when
what they mount exists. Endpoint, issuer, callbacks, host and link are computed by one operator per
builder, as in the code, which is what `LoginAgrees` compares.

### Customization and Operands

`operand` says which controller a behaviour is about. An object stands for all objects of the operand
that are treated alike (`Manifests`), and `Work(spec)` is the list the controller's own
`Reconcile...` and `apply...Manifests` operators make of it: what is skipped by platform or
setting, what is built in code, in which order. `Content` is what an apply writes. A pass is `Begin`,
one `ApplyNext` per object, `CleanupOrphans` over the kinds of `CleanupKinds`, `UpdateStatus`; users
edit and delete in between. Only objects in `Watched` queue a request when they change. Of the
KonfluxUI, from which integration-service takes the console URL, only creation, deletion, edits and
changes of enabled, host name or URL of its ingress status do (`KonfluxUIIngressStatusChangedPredicate`);
its other status updates pass by.

`Customization` has the overlay functions in the order the controllers compose them: environment
lists are sequences, because merges replace in place or append and duplicates are possible; a value
is a tuple, to tell "set to nothing" from "not set". The pipeline merge is a fold over the entries.

### Overrides

The three trees of files (`upstream`, `work`, `manifests`) are functions from components; a run
validates, copies, rewrites resources by git rules, patches image entries, rebuilds the components
with git rules and edits images in the manifests, one file per step, and may fail at each. `kustomize
build` is external and modelled by what it does to resources and images, entry by entry. Repositories
are compared as `normalizeOrgRepo` and `githubURLParts` give them: `OrgRepo` is what is left of an
accepted spelling without URL, slash and `.git`, everything else is refused, and `ToLower` is the
library's. Runs follow each other with the same or other overrides on what the last one left.
Left out: `component-sources.json`, which nothing reads, the counters for the log, and a copy that
fails half-way, which differs from a failure before the first file only in a directory that the
next run removes.

`RerunHeals` and `RebuildForgets` say what later runs may rely on and what not: image-only runs edit
the checked-out kustomizations in place, so later runs start from them; overrides that feed each
other backwards give another result when repeated. `NoOriginalLeft` allows an image that some override
is for only where a later override has made it.

## Runs

| run | bounds | what it shows |
|---|---|---|
| `tracking` | 4 objects, 2 owner incarnations; 3 edits with 1 fault or 1 intrusion, 2 edits with both | promise kept, cleanup starts complete and leaves no orphan, CRDs and mandatory objects stay, convergence |
| `registry` | 2 edits, 1 meddling, 1 fault, 2 events in flight; or 3 edits, 1 event in flight | clients only get what was just hashed, both Secrets come to hold a password, the tenant's copy converges |
| `registry_sync` | 1 edit, 2 events in flight | violated: see below |
| `readiness` | a new cluster with a mandatory component and two of fault, flip and cert-manager change, 1 each, or an optional one with 1 edit and 1 flip; a cluster where both are ready with two of edits, flips and the others; cert-manager removed and installed around a crash | status never contradicts itself, Ready and metric converge, writes come to rest |
| `info` | 2 upgrades, 1 deletion, 2 faults, both platforms | info.json converges, except in two named cases; OpenShift versions never run ahead or go back; Ready tells |
| `info_missed` | 1 upgrade | violated: see below |
| `scrape` | rotator or operand controller, 1 change or 2 faults | the token outlives a failed reconcile, prometheus-operator hears of every token and CA, the settle marker stays until its deadline and the retry is made; an operand's ServiceMonitor without certificate is removed, and with componentMetrics off everything goes; while they stay on, ServiceMonitor and token come to stay and are read |
| `scrape_stale` | rotator, 1 change | violated: see below |
| `ui` | 4 specs, 3 sorts of key, on OpenShift and elsewhere, 2 events | mounted Secrets exist, the client secret is kept, the login agrees, the last configuration runs or its error is told |
| `ui_inuse` | as `ui` | violated: see below |
| `operands` | 10 operands, both platforms, 1 to 4 specs each, 3 events (2 for the build and integration services) | passes restore, settings win by layer, convergence by events alone |
| `overrides` | 2 components, 14 overrides, 4 runs | no original left, rules followed, repetition heals |

An event is an edit, an act of a user or a failure. A run with several sets of bounds gives them
as a constant (`Budgets`, `Setups`, `Starts`, `MaxEvents` by operand) from which a behaviour starts with one.

The instances of `Tracking` have one object of each sort that the code distinguishes
(mandatory and namespaced, optional and on the allow list, cluster-scoped and not on it,
CRD, a kind that is not served) and enough edits to create the owner, delete it and create it
again, so that adoption and collection under another uid happen, beside a fault or an intrusion;
one fault suffices for every single point of failure, and the proofs cover the rest. Two
events in flight are what it takes for the cache to have one of two Secrets. In
`Readiness` two edits disable and enable a component, two flips let one of two
components fail and recover, the operator starts before cert-manager is there, and in `InfoVersions` two upgrades
let the second meet the event of the first in the channel. In `ScrapeToken` a unit stands for
seven and a half minutes of the token's hour: the interval is two units and half the life
four, as in the code, and the delays far shorter than the interval are one. One fault is what
a token must outlive, wherever it comes and also when another follows a success; a change is one
of the certificate, of the Secret, of the ServiceMonitor or of `spec.componentMetrics`, at any moment of a reconcile. In `UIRollout` a behaviour
begins with a new installation, which costs no event; two events are then a change, such as a rotated
key, and a fault in the middle of carrying it out, or two changes one of which the cache has not
seen; in `Operands` three let a setting go on and off with a failure between. Four runs are
a failed one, another, and two that repeat. Deadlock is checked for `ScrapeToken`, where time
always goes on, and not elsewhere: a cluster at rest, with all bounds used up, is where the
system is meant to stop.

### Findings

`registry_sync`: `ensureRegistryCredentials` "keeps Zot htpasswd credentials and the client
dockerconfig secret in sync" (comment at `konfluxinternalregistry_controller.go:209`). TLC
finds a behaviour without any fault in which they settle with different passwords. The
first reconcile creates both Secrets; a second begins when the cache has the first Secret
only, rotates, updates `htpasswd` and is refused when it tries to create the client Secret
that exists already. From then on both Secrets have data, which is all the code looks at.

`scrape_stale`: while `metrics-server-cert` is absent, "retain is skipped so orphan cleanup
removes the stale SM" (comment of `ReconcilePrometheusScrapeToken`,
`internal/common/scrape_token.go:80`). The operator's rotator calls the same function and has
no orphan cleanup: its ServiceMonitor keeps referring to the missing Secret. For an operand
controller it is removed (`scrape`, `OperandRemovesStale`).

`info_missed`: the poller "polls for cluster version changes and sends events to a channel so
the KonfluxInfo controller can refresh the info ConfigMap" (`info/poller.go:31`). A change after
the first reconcile's question and before the poller's is the poller's starting point, makes no
event, and is not published until an unrelated event or a restart.

`ui_inuse`: "cleanupOld removes old ConfigMaps that are no longer in use"
(`pkg/hashedconfigmap/hashedconfigmap.go:148`). It runs as soon as the new ConfigMap is written, while
the dex Deployment mounts the old one: a Pod that is started before the Deployment is applied, or while
a later step of the pass keeps failing, waits for a volume that is gone. `UIConverges` shows that
this ends when a pass succeeds. The Secret with the write key is left to the orphan cleanup at the
end of the pass and has no such gap (`MountedSegmentExists`).

## Fairness

Weak fairness of informers (a watch delivers or is re-established), of each controller's
worker and each cleanup goroutine (the Go scheduler runs what can run), of `RequeueAfter`
timers and of the garbage collector; in `Readiness` also of controllers, which start when their
sources can be synced. None of users, other controllers, pods or faults: they
may stop at any time, and they do once their bounds are used up. In `UIRollout` also of the Deployment
controller and the kubelet, which start Pods that can be started; in `Operands` only of the worker. In `ScrapeToken` time passes
(weak fairness of `Tick`) and the informer is, again and again, in time for the next
reconcile (strong fairness of a delivery between two reconciles): it takes milliseconds, and
losing every race for ever is not a schedule a running cluster produces. Liveness properties say
what holds from then on.

## Proofs

Every type invariant, safety invariant and safety action property of the runs is proved for every
value of the constants. An inductive invariant was first
checked by TLC on the instance of its run, then proved. Each lemma `...Step` has one case per action.

| module | theorems | states |
|---|---|---|
| `Tracking_proofs` | `TypeCorrect`, `StartsComplete`, `LeavesNoOrphan`, `MandatoryKept`, `CRDsKept`, `Refinement` | `TypeOK`, `CleanupStartsComplete`, `CleanupLeavesNoOrphan`, `MandatoryStays`, `CRDsSurvive`, `KeepsPromise` |
| `RegistryCredentials_proofs` | `TypeCorrect`, `ClientHashed` | `TypeOK`, `ClientGetsHashed` |
| `Readiness_proofs` | `TypeCorrect`, `StatusSafe` | `TypeOK`, `StatusConsistent` |
| `InfoVersions_proofs` | `NotAhead` | `NeverAhead` |
| `ScrapeToken_proofs` | `TypeCorrect`, `MarkerHeld`, `AlwaysAlive`, `AlwaysNudged` | `TypeOK`, `SettleHeld`, `TokenAlive`, `Nudged` |
| `UIRollout_proofs` | `TypeCorrect`, `ClientKept`, `MountedSafe`, `LoginSafe` | `TypeOK`, `ClientSecretKept`, `MountedSegmentExists`, `LoginAgrees` |
| `Operands_proofs` | `AlwaysListed`, `Restores`, `Customises` | `DefaultPipelineListed`, `PassRestores`, `CustomisedAsSpecified` |
| `Overrides_proofs` | `Forgets`, `FollowRules`, `NoneLeft`, `Heals` | `RebuildForgets`, `SourcesFollowRules`, `NoOriginalLeft`, `RerunHeals` |

### Tracking

None of the properties is inductive. `IInv` adds what a reconcile knows in the middle:

* `TrackedSoFar`: while applying, the tracked set is the desired part of the manifest so
  far; at its end this is the whole desired state, which gives `CleanupStartsComplete`;
* `PhasesWellFormed`: goroutines run only during cleanup, a reconcile starts from an empty
  tracked set and has an owner while it works;
* `ListedStillOwned`: where an item was listed as the owner's, the key still holds such an
  object or nothing, unless others replaced it, which is what a delete without
  precondition needs to keep the promise;
* `OrphansListed`: an orphan of a kind that was listed is gone or still in the listing;
  with every goroutine done this is `CleanupLeavesNoOrphan`;
* `CRDsUncontrolled` and `UnservedEmpty`: no CRD has an owner of the operator, no object of
  an unserved kind exists.

`Deletions` says who deletes what, and gives
the two action properties; `PromiseStep` maps each action to one of the promise or to a
stutter. Assumptions: the tables are of their types; desired kinds are served; uids, `NoUid` and
`Foreign` differ.

### RegistryCredentials and Readiness

`ClientGetsHashed` compares what the API server accepts with a password that the reconcile hashed
some steps before, read from a cache. `CacheInv` says that the cache may lag but not diverge: the last event about
a Secret carries the stored version, and without an event the cache has it, so an accepted update
(its resourceVersion is the stored one) was made from the stored content. `HashInv` keeps the new password
in hand between the two writes of a rotation. Assumptions: `NoPassword` and `Absent` are no
passwords and no Secrets, the budgets are numbers, a cache lags by at least one event.

`StatusConsistent` is about what was written; `ReadyInv` adds what a pass holds on the way to the
write: mandatory components are wanted in every copy of the spec, and while the pass has seen
only ready sub-CRs, each wanted component it has looked at has the condition true in its copy of the status. Assumption: no component is twice in the order. The proof of
`TypeOK` failed at first because the model's `RemoveCertManager` reset the health of components
that the cluster of a behaviour may not have; the action was corrected.

### InfoVersions and ScrapeToken

`NeverAhead` needs that histories are ordered (`Ordered`), that the cached history is not ahead of the
stored one and that what a reconcile has read is not older than what `info.json` shows (`InfoInv`).

`TokenAlive` is arithmetic. With `Half` the remaining life at which a token is renewed, `Wait` the time until
the next attempt and `Spent` the one or two intervals that a failed attempt may have cost, `LifeInv` bounds the
life that is left: `left + Spent > Half + Wait` as long as fewer than two attempts have failed in a row. It
needs `Coherent` (copies of one token age alike, so the decision on a cached copy is one on
the stored token) and `PhaseInv`. The assumption `2 * Interval <= Half` is what makes one failed
attempt harmless: the life of a token is at least four rotation intervals (one hour and 15 minutes in the code, exactly four).

`Nudged` needs `ToldInv` (an annotation with the stored version means that prometheus-operator
has read it), `CertInv` (nobody has seen a version of the certificate that is to come), `DecidedInv` and `QuietInv`
(while nothing is on its way, what the pass has read is what is stored). `SettleHeld` needs only
`SettleInv`: between the probe and the resync the marker is the one the probe saw or none.

### UIRollout

`TypeOK` is strengthened by `PassOK`: a pass works with a spec whose endpoint can be determined, and holds the name
of the Secret it is to mount once it has made it. `TrackedInv` says what the pass has tracked by when: the
Secret it mounts before the apply, the client secret before the cleanup, the console link exactly where the
spec wants it. `ClientSecretKept` follows, since the cleanup deletes only what is not tracked. `SegmentInv` (for `MountedSegmentExists`): as long as
nobody meddles, the Secret that the Deployment mounts exists, so does the one that the pass has made and will mount, and
before the cleanup the two are the same, which is tracked, so that a cleanup of everything else spares it.
`LoginInv` (for `LoginAgrees`): what is configured is what one spec asks for, and with nothing queued
that spec is the current one. Assumptions: specs are typed, `Absent` and the empty values are no keys and
no client secrets, some client secret can be generated.

### Operands

`DefaultPipelineListed` is a statement about `MergePipelineConfig` for any list of pipelines: the fold's
intermediate results exist (`MergeLoop`), each keeps the names distinct (`UpsertFacts`, `MergeFacts`,
`MergedFacts`), so the default that `ConfigListed` looks up is found exactly once. `PassRestores`
needs `WorkInv` (what the spec asks for is applied, still to do, or deferred with the
ServiceMonitor) and `AsAsked` (an object that was applied and not touched since is what the
pass's spec asks for). `KeyMatters` and `LastSecretFacts` are there because the segment bridge reads its
write key only in the last step.

`CustomisedAsSpecified` compares a Deployment built by nested merges with the layers of settings it should
show: the manifest, the operator's own settings, the user's. The argument is about keyed lists, of which the
container reads the last entry of a name. `ConcatFacts` says what is effective after an append,
`DropFacts` after `WithoutEnv`, `PutFacts` after one turn of a merge loop (replace in place or append),
`PutsFacts` after all of them (`MergeIsPuts`, `IsMerged`): the later list wins where it has the name,
the earlier one elsewhere. `ArgFacts` says the same of arguments. `BuildEnv`, `IntegrationEnv`,
`ImageEnv`, `ReleaseEnv` and `ListerEnv` put each operand's overlay together from these, and
`LayerFacts` identifies the result with `AsSpecified`.

Assumptions: a spec has the fields of the CR with the CRD's types (replicas a number, the Pipelines as
Code switch unset, on or off, a log level of the enumeration, environment entries with a name), and the
CRD's validation accepts its pipelines.

### Overrides

`RunInv` (each loop visits a component once, runs have valid overrides) supports four arguments:
`UpstreamInv` and `BuildInv` say what each loop has made of the components it has visited, as a
function of the pristine files and this run's overrides only, which is `RebuildForgets`; `SourceInv` says
it of the resources when earlier runs may have changed images in the repository (`SourcesFollowRules`); `CleanInv`
says it of the images (`NoOriginalLeft`); `HealInv` says that manifests are as checked out, or as the
overrides leave them, and that replacing again changes nothing (`ReplaceAgain`), for `RerunHeals`.
Assumptions: files and overrides are typed, no directory is walked twice.

### Recursion

`ReplaceImage`, `FlattenSeq` and the pipeline merge are folds. What they compute is proved without
the library's induction theorems: an explicit function of the intermediate results is shown to
exist, and a claim about all of them by its first counterexample (`FirstOf`).

### Only model-checked

Everything under fairness (`Converges`, `CredentialsProvided`, `CopyConverges`,
`VersionsPublished`, `ReadyTells`, `ReadyConverges`, `Quiesces`, `SettleRetried`,
`ScrapeConverges`, `OperandRemovesStale`, `DisabledRemoves`, `UIConverges`, `OperandConverges`,
`LeftoversRemoved`) is liveness, which is out of the prover's reach: the rules for
`WF_` and `SF_` need `ENABLED`. The invariants these properties rest on are among the theorems.

## Not modelled

Contents of objects beyond what a property compares: of dex's configuration its addresses, login and
number of connectors, of Pod templates their environment, arguments, replicas and mounts; resources,
probes, security contexts and cookies are left out. Messages of conditions, and reasons outside
`UIRollout` and `Operands`. `IgnoreStatusUpdatesPredicate` (no modelled object has a status-only update
that matters). The scraping objects of the UI, which follow `ScrapeToken`. Hash collisions. The parsing
of embedded manifests and the installation of CRDs before the manager starts. In the override tool,
`writeComponentSources` (a record nobody here reads), the syntax of YAML and paths. Generated code
(`zz_generated.deepcopy.go`), whose copies the models have for free. Deployment and test scripts.
A controller that does not watch a kind it applies restores
such objects only at the next event: `Converges` is about controllers that watch them all,
`PassRestores` about the pass that the next event brings.
A cluster without the ServiceMonitor CRD, on which the scrape wiring does nothing, is left out.

## Plan

1. `Tracking`, `Reconciliation`, `RegistryCredentials`, `Readiness` and the proofs about
   `Tracking` (done).
2. `ScrapeToken` (done).
3. `InfoVersions` (done).
4. `UIRollout` with the hashed ConfigMap and Secret (done).
5. `Customization`, `Operands` and `Overrides` (done).
6. Proofs of the safety properties of `RegistryCredentials`, `Readiness`, `InfoVersions`, `ScrapeToken`,
   `UIRollout`, `Operands` and `Overrides` (done).
7. `CustomisedAsSpecified`: what the merges leave effective for every list, then the layers of each
   operand (done).
8. Left: the lemmas on keyed lists carried over to the CronJobs of `Operands`; the effect of `Customization`
   on the segment bridge and the snapshot collector, which only `PassRestores` covers now.

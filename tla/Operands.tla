------------------------------ MODULE Operands ------------------------------
(***************************************************************************)
(* The controllers of the operands: build, integration, release and image  *)
(* service, namespace-lister, segment bridge, enterprise contract,         *)
(* cert-manager, RBAC and application API. They run the same pass, one     *)
(* per custom resource: read the CR (and, for some, another object),       *)
(* apply the embedded manifests one after the other, some customised and   *)
(* some left out, delete what is left over, write the status. The module   *)
(* follows one of them at a time.                                          *)
(*                                                                         *)
(* An object here stands for all objects of the operand that are treated   *)
(* alike.                                                                  *)
(***************************************************************************)
EXTENDS Customization

CONSTANTS
  Operands,       \* the operands to follow, a subset of AllOperands
  Platforms,      \* what IsOpenShift() may have found at start
  Specs,          \* the specs a user may write for each operand
  Ingresses,      \* the ingress statuses that the KonfluxUI controller may write
  Absent,         \* no such object
  MaxEvents       \* edits, deletions by users and failures of a behaviour, by operand

AllOperands ==
  {"build", "integration", "image", "release", "lister", "bridge", "contract",
   "certs", "rbac", "api"}
Scraped == {"build", "integration", "image", "release"}

\* Status.Ingress of the KonfluxUI CR. The hostname lacks the port of the URL.
UIURL == [host: STRING, slash: BOOLEAN]
IngressStatus == [enabled: BOOLEAN, hostname: STRING, url: UIURL]

\* The settings of all operand CRs; each controller reads its own. A manager
\* is the ControllerManagerDeploymentSpec, with 0 replicas when it is nil.
DefaultSpec ==
  [replicas |-> 0, manager |-> NoSpec, cron |-> NoSpec, metrics |-> FALSE, encoder |-> "",
   pac |-> "unset", webhooks |-> "", pipelines |-> NoPipelineConfig,
   timeout |-> <<>>, keep |-> <<>>, caBundle |-> "", debug |-> FALSE, overrides |-> "",
   logLevel |-> "", resync |-> <<>>, key |-> "", ref |-> "none", limit |-> 1000,
   skipPolicies |-> FALSE, createIssuer |-> TRUE]

ASSUME OperandsAssumption ==
  /\ Operands \subseteq AllOperands
  /\ Platforms \subseteq BOOLEAN
  /\ \A o \in Operands : \A s \in Specs[o] :
       /\ DOMAIN s = DOMAIN DefaultSpec
       /\ s.replicas \in Nat /\ s.pac \in {"unset", "yes", "no"}
       /\ s.logLevel \in {"", "debug", "info", "warn", "error"}
       /\ s.manager.env \in Seq([name : STRING, value : Seq(STRING)])
       /\ s.pipelines \in PipelineConfig /\ ValidPipelineConfig(s.pipelines)
  /\ Ingresses \subseteq IngressStatus /\ Absent \notin Ingresses
  /\ \A o \in Operands : MaxEvents[o] \in Nat

VARIABLES
  operand,        \* the controller that is followed
  openShift,      \* ClusterInfo.IsOpenShift(), detected at start
  spec,           \* the spec of its CR, or Absent
  ui,             \* the status of the KonfluxUI CR, or Absent
  keySecret,      \* the write key in the Secret that segmentKeySecretRef names
  objs,           \* the objects of the operand
  status,         \* the Ready condition of the CR
  queued,         \* a request is in the work queue
  pass,           \* the reconcile in progress
  unread,         \* the latest pass could not read the KonfluxUI CR
  events          \* edits, deletions by users and failures so far

inputs == <<operand, openShift, spec, ui, keySecret>>
vars == <<inputs, objs, status, queued, pass, unread, events>>

-----------------------------------------------------------------------------
(* What the controllers apply *)

\* The embedded manifests, in the order of the object store.
Manifests ==
  [build |-> <<"Namespace", "MetricsReader", "PipelineConfig", "Deployment", "ServiceMonitor",
               "SecurityContextConstraints">>,
   integration |-> <<"Namespace", "MetricsReader", "Deployment", "CronJob", "ServiceMonitor">>,
   image |-> <<"Namespace", "MetricsReader", "Deployment", "CronJob", "ServiceMonitor">>,
   release |-> <<"Namespace", "MetricsReader", "Deployment", "ReleaseServiceConfig",
                 "ServiceMonitor">>,
   lister |-> <<"Namespace", "Deployment", "NetworkPolicy">>,
   bridge |-> <<"Namespace", "Role", "CronJob">>,
   contract |-> <<"Namespace", "EnterpriseContractPolicy">>,
   certs |-> <<"Certificate", "ClusterIssuer">>,
   rbac |-> <<"ClusterRole">>,
   api |-> <<"CustomResourceDefinition">>]

\* What the code itself builds, and what an earlier release has left behind.
Built ==
  [build |-> {"TrustedCA", "WebhookConfig", "ScrapeToken"},
   integration |-> {"TrustedCA", "ScrapeToken"},
   image |-> {"ScrapeToken"}, release |-> {"ScrapeToken"},
   lister |-> {}, bridge |-> {"Secret"}, contract |-> {}, certs |-> {}, rbac |-> {}, api |-> {}]
Legacy == IF operand \in Scraped \cup {"certs"} THEN {"Legacy"} ELSE {}

Objects == ToSet(Manifests[operand]) \cup Built[operand] \cup Legacy

\* The objects that CleanupOrphans may delete: those of the cleanup kinds that
\* are namespaced or in the allow list.
ScrapingCleanup == {"MetricsReader", "ScrapeToken", "ServiceMonitor", "Legacy"}
CertManagerCleanup == {"Certificate", "ClusterIssuer", "Legacy"}
\* Mutant: the policies are left out of the cleanup list.
CleanupKindsWithoutPolicies ==
  [o \in AllOperands |->
     CASE o \in Scraped -> ScrapingCleanup
       [] o = "certs" -> CertManagerCleanup
       [] o \notin Scraped \cup {"certs"} -> {}]

CleanupKinds ==
  [o \in AllOperands |->
     CASE o \in Scraped -> ScrapingCleanup
       [] o = "contract" -> {"EnterpriseContractPolicy"}
       [] o = "certs" -> CertManagerCleanup
       [] o \notin Scraped \cup {"contract", "certs"} -> {}]

\* The objects whose events the controller gets (SetupWithManager).
Watched == IF operand = "bridge" THEN Objects \ {"Role"} ELSE Objects

IsComponentMetricsScrapeResource(o) == o \in {"MetricsReader", "ScrapeToken", "ServiceMonitor"}

\* What each applyManifests leaves out. With metrics the ServiceMonitor is
\* deferred, without them everything for scraping is skipped.
Applied(o, skipped) == Filter(Manifests[o], ToSet(Manifests[o]) \ skipped)
SkippedScraping(o, s) ==
  {m \in ToSet(Manifests[o]) :
     m = "ServiceMonitor" \/ (~s.metrics /\ IsComponentMetricsScrapeResource(m))}

applyBuildManifests(s) ==
  Applied("build", SkippedScraping("build", s)
                     \cup (IF openShift THEN {} ELSE {"SecurityContextConstraints"}))
applyIntegrationManifests(s) == Applied("integration", SkippedScraping("integration", s))
applyImageManifests(s) == Applied("image", SkippedScraping("image", s))
applyReleaseManifests(s) == Applied("release", SkippedScraping("release", s))
applyContractManifests(s) ==
  Applied("contract", IF s.skipPolicies THEN {"EnterpriseContractPolicy"} ELSE {})
applyListerManifests == Manifests["lister"]
applyBridgeManifests == Manifests["bridge"]
applyCertsManifests == Manifests["certs"]
applyRBACManifests == Manifests["rbac"]
applyAPIManifests == Manifests["api"]

\* The Pod templates of the embedded manifests.
ManifestArgs ==
  IF operand = "lister" THEN <<>>
  ELSE <<Arg("leader-elect", IF operand = "integration" THEN "" ELSE "false"),
         Arg("health-probe", "8081")>>
ManifestEnv ==
  CASE operand = "lister" -> <<EnvVar("AUTH_USERNAME_HEADER", <<"X-User">>)>>
    [] operand = "release" -> <<EnvVar("SERVICE_NAMESPACE", <<"valueFrom">>)>>
    [] operand \notin {"lister", "release"} -> <<>>
ManifestVolumes ==
  [v \in CASE operand = "build" -> {"webhook-config"}
           [] operand = "image" -> {"quay-ca-bundle"}
           [] operand \notin {"build", "image"} -> {} |-> v]
ManifestPod ==
  [env |-> ManifestEnv, resources |-> "manifest", args |-> ManifestArgs,
   volumes |-> ManifestVolumes]
ManifestCron ==
  [env |-> IF operand = "image" THEN <<EnvVar("QUAY_TOKEN", <<"valueFrom">>)>> ELSE <<>>,
   resources |-> "manifest", args |-> <<>>, volumes |-> <<>>]
ManifestPipelines ==
  [default |-> "docker",
   pipelines |-> <<Pipeline("fbc", "b0", ""), Pipeline("docker", "b0", "minimal")>>]

-----------------------------------------------------------------------------
(* Customisation, operand by operand *)

\* The name of a hashed ConfigMap stands for its content. An empty mapping is
\* written when none is configured.
webhookConfigMapName(s) == IF s.webhooks = "" THEN "{}" ELSE s.webhooks

buildBuildControllerManagerOverlay(s) ==
  LET base == IF openShift THEN <<>> ELSE WithEnv(<<>>, "PAC_NAMESPACE", <<"tekton-pipelines">>)
      hook == IF openShift \/ s.webhooks # "" THEN base
              ELSE WithEnv(base, "PAC_WEBHOOK_URL", <<"service">>)
      user == FromContainerSpec(hook, s.manager)
      env == CASE s.pac = "unset" -> user
               [] s.pac = "yes" -> WithEnvOverride(user, "PAC_WEBHOOK_INSECURE_SSL", <<"1">>)
               [] s.pac = "no" -> WithoutEnv(user, "PAC_WEBHOOK_INSECURE_SSL")
      args == WithLeaderElection(WithArgReplace(<<>>, "zap-encoder", s.encoder), s.replicas)
  IN  PodOverlay(env, s.manager.resources, args,
                 [v \in {"webhook-config"} |-> webhookConfigMapName(s)])

\* The templates of the console links, empty without a URL.
consoleURLTemplate(url) == IF url = Absent THEN <<>> ELSE <<url.host, "pipelinerun">>
consoleURLTasklogTemplate(url) ==
  IF url = Absent THEN <<>> ELSE consoleURLTemplate(url) \o <<"logs">>

buildControllerManagerOverlay(s, url) ==
  LET user == FromContainerSpec(<<>>, s.manager)
      link == WithEnvOverride(user, "CONSOLE_URL", consoleURLTemplate(url))
      logs == WithEnvOverride(link, "CONSOLE_URL_TASKLOG", consoleURLTasklogTemplate(url))
  IN  PodOverlay(WithOptionalEnvOverride(logs, "PIPELINE_TIMEOUT", s.timeout),
                 s.manager.resources, WithLeaderElection(<<>>, s.replicas), <<>>)

buildImageControllerManagerOverlay(s) ==
  LET ca == IF s.caBundle = "" THEN <<>>
            ELSE WithEnv(<<>>, "QUAY_ADDITIONAL_CA", <<"/etc/ssl/certs/quay-ca", "key">>)
      args == WithLeaderElection(WithArgReplace(<<>>, "zap-encoder", s.encoder), s.replicas)
  IN  PodOverlay(FromContainerSpec(ca, s.manager), s.manager.resources, args,
                 [v \in IF s.caBundle \in {"", "quay-ca-bundle"} THEN {} ELSE {"quay-ca-bundle"}
                    |-> s.caBundle])

buildReleaseControllerManagerOverlay(s) ==
  PodOverlay(FromContainerSpec(<<>>, s.manager), s.manager.resources,
             WithLeaderElection(<<>>, s.replicas), <<>>)

logLevelToEnvValue == [debug |-> "-4", info |-> "0", warn |-> "4", error |-> "8"]
resolveLogLevelEnvValue(level) == IF level = "" THEN <<>> ELSE <<logLevelToEnvValue[level]>>

applyNamespaceListerCustomizations(s) ==
  LET user == FromContainerSpec(<<>>, s.manager)
      sync == WithOptionalEnvOverride(user, "CACHE_RESYNC_PERIOD", s.resync)
  IN  PodOverlay(WithOptionalEnvOverride(sync, "LOG_LEVEL", resolveLogLevelEnvValue(s.logLevel)),
                 s.manager.resources, <<>>, <<>>)

DeploymentFor(s, url) ==
  [replicas |-> IF s.replicas = 0 THEN 1 ELSE s.replicas,
   pod |-> ApplyToPodTemplateSpec(ManifestPod,
             CASE operand = "build" -> buildBuildControllerManagerOverlay(s)
               [] operand = "integration" -> buildControllerManagerOverlay(s, url)
               [] operand = "image" -> buildImageControllerManagerOverlay(s)
               [] operand = "release" -> buildReleaseControllerManagerOverlay(s)
               [] operand = "lister" -> applyNamespaceListerCustomizations(s))]

\* The snapshot garbage collector has typed fields, applied in a second round.
applySnapshotGCCustomizations(s) ==
  LET first == ApplyCronJobContainerSpec(ManifestCron, s.cron)
  IN  IF s.keep = <<>> THEN first
      ELSE ApplyToPodTemplateSpec(first,
             PodOverlay(WithOptionalEnvOverride(<<>>, "PR_SNAPSHOTS_TO_KEEP", s.keep),
                        "", <<>>, <<>>))

CronJobFor(s) ==
  IF operand = "integration" THEN applySnapshotGCCustomizations(s)
                             ELSE ApplyCronJobContainerSpec(ManifestCron, s.cron)

applyReleaseServiceConfigCustomizations(s) ==
  [debug |-> s.debug, EmptyDirOverrides |-> IF s.overrides = "" THEN Absent ELSE s.overrides]

\* The write key: the one in the CR, or the referenced one, which may be
\* missing only if it is optional.
Unresolved == "unresolved"
resolveKey(s, secret) ==
  CASE s.key # "" -> s.key
    [] s.key = "" /\ s.ref = "none" -> ""
    [] s.key = "" /\ s.ref # "none" ->
         IF secret # Absent THEN secret ELSE IF s.ref = "optional" THEN "" ELSE Unresolved

tektonResultsAPIAddr == IF openShift THEN "openshift-pipelines" ELSE "tekton-pipelines"

reconcileSegmentBridgeSecret(s, secret) ==
  [addr |-> tektonResultsAPIAddr, key |-> resolveKey(s, secret), limit |-> s.limit]

Customised ==
  {"Deployment", "CronJob", "PipelineConfig", "WebhookConfig", "ReleaseServiceConfig", "Secret"}

\* What is written when object o is applied.
Content(o, s, url, secret) ==
  CASE o = "Deployment" -> DeploymentFor(s, url)
    [] o = "CronJob" -> CronJobFor(s)
    [] o = "PipelineConfig" -> applyPipelineConfigMerge(ManifestPipelines, s.pipelines)
    [] o = "WebhookConfig" -> webhookConfigMapName(s)
    [] o = "ReleaseServiceConfig" -> applyReleaseServiceConfigCustomizations(s)
    [] o = "Secret" -> reconcileSegmentBridgeSecret(s, secret)
    [] o \notin Customised -> "manifest"

\* The objects that a pass of each controller applies, in this order: what its
\* Reconcile ensures first, the manifests, and what it adds to them. With
\* metrics, the ServiceMonitor comes last, after the token it refers to.
EnsureNamespaceExists == <<"Namespace">>
EnsureTrustedCAConfigMap == IF openShift THEN <<"TrustedCA">> ELSE <<>>
ScrapeWiring(s) == IF s.metrics THEN <<"ScrapeToken", "ServiceMonitor">> ELSE <<>>

ReconcileBuild(s) ==
  EnsureNamespaceExists \o EnsureTrustedCAConfigMap \o <<"WebhookConfig">>
    \o applyBuildManifests(s) \o ScrapeWiring(s)
ReconcileIntegration(s) ==
  EnsureNamespaceExists \o EnsureTrustedCAConfigMap \o applyIntegrationManifests(s)
    \o ScrapeWiring(s)
ReconcileImage(s) == applyImageManifests(s) \o ScrapeWiring(s)
ReconcileRelease(s) == applyReleaseManifests(s) \o ScrapeWiring(s)
ReconcileLister == applyListerManifests
ReconcileBridge == applyBridgeManifests \o <<"Secret">>
ReconcileContract(s) == applyContractManifests(s)
ReconcileCerts(s) == IF s.createIssuer THEN applyCertsManifests ELSE <<>>
ReconcileRBAC == applyRBACManifests
ReconcileAPI == applyAPIManifests

Work(s) ==
  CASE operand = "build" -> ReconcileBuild(s)
    [] operand = "integration" -> ReconcileIntegration(s)
    [] operand = "image" -> ReconcileImage(s)
    [] operand = "release" -> ReconcileRelease(s)
    [] operand = "lister" -> ReconcileLister
    [] operand = "bridge" -> ReconcileBridge
    [] operand = "contract" -> ReconcileContract(s)
    [] operand = "certs" -> ReconcileCerts(s)
    [] operand = "rbac" -> ReconcileRBAC
    [] operand = "api" -> ReconcileAPI

-----------------------------------------------------------------------------
NoPass ==
  [at |-> "idle", spec |-> Absent, url |-> Absent, secret |-> Absent, todo |-> <<>>,
   tracked |-> {}, touched |-> {}, again |-> FALSE, outdated |-> FALSE]

ReasonOf(o) ==
  CASE o = "WebhookConfig" \/ o = "TrustedCA" -> "ConfigMapFailed"
    [] o = "Secret" -> "SecretCreationFailed"
    [] o \notin {"WebhookConfig", "TrustedCA", "Secret"} -> "ApplyFailed"

Secrets == {"k1", "k2"}
AllURLs == {i.url : i \in Ingresses} \cup {Absent}

\* The KonfluxUI CR for the integration service: ready or not, and its ingress
\* status, which is nil until the first pass of its controller has succeeded.
KonfluxUI == [ready: BOOLEAN, ingress: Ingresses \cup {Absent}]
NewUI == [ready |-> FALSE, ingress |-> Absent]
consoleURL == IF ui = Absent \/ ui.ingress = Absent THEN Absent ELSE ui.ingress.url

\* An earlier release of the operator may have left objects behind.
Init ==
  /\ operand \in Operands /\ openShift \in Platforms
  /\ spec = Absent /\ keySecret = Absent
  /\ ui \in {Absent} \cup (IF operand = "integration" THEN [ready: {TRUE}, ingress: Ingresses] ELSE {})
  /\ objs \in {[o \in Objects |-> IF o \in left THEN "manifest" ELSE Absent] :
                 left \in SUBSET Legacy}
  /\ status = "" /\ queued = FALSE /\ pass = NoPass /\ unread = FALSE
  /\ events = 0

-----------------------------------------------------------------------------
(* The reconcile pass *)

At(step) == pass.at = step

\* A write that changes a watched object is an event for the controller.
Write(new) ==
  /\ objs' = new
  /\ queued' = (queued \/ \E o \in Watched : new[o] # objs[o])

\* The status is written with the resource version that the pass has read.
Publish(s) == status' = IF pass.outdated THEN status ELSE s

Handle(reason) ==
  /\ Publish(reason)
  /\ pass' = NoPass /\ queued' = TRUE

Spend == events < MaxEvents[operand] /\ events' = events + 1

\* The CR is read and, by the integration service, the URL of the KonfluxUI.
Begin ==
  /\ At("idle") /\ queued /\ spec # Absent
  /\ pass' = [NoPass EXCEPT !.at = "apply", !.spec = spec, !.url = consoleURL, !.todo = Work(spec)]
  /\ queued' = FALSE /\ unread' = FALSE
  /\ UNCHANGED <<inputs, objs, status, events>>

\* A KonfluxUI that cannot be read counts as one without a URL.
BeginUnread ==
  /\ At("idle") /\ queued /\ spec # Absent /\ operand = "integration" /\ ui # Absent
  /\ Spend
  /\ pass' = [NoPass EXCEPT !.at = "apply", !.spec = spec, !.todo = Work(spec)]
  /\ queued' = FALSE /\ unread' = TRUE
  /\ UNCHANGED <<inputs, objs, status>>

BeginNotFound ==
  /\ At("idle") /\ queued /\ spec = Absent
  /\ queued' = FALSE
  /\ UNCHANGED <<inputs, objs, status, pass, unread, events>>

KeyUnresolved ==
  /\ Head(pass.todo) = "Secret"
  /\ resolveKey(pass.spec, keySecret) = Unresolved

\* The next object is customised, applied and tracked.
ApplyNext ==
  /\ At("apply") /\ pass.todo # <<>> /\ ~KeyUnresolved
  /\ LET o == Head(pass.todo)
     IN  /\ Write([objs EXCEPT ![o] = Content(o, pass.spec, pass.url, keySecret)])
         /\ pass' = [pass EXCEPT !.todo = Tail(@), !.secret = keySecret,
                                 !.tracked = @ \cup {o}, !.touched = @ \ {o}]
  /\ UNCHANGED <<inputs, status, unread, events>>

SecretRefused ==
  /\ At("apply") /\ pass.todo # <<>> /\ KeyUnresolved
  /\ Handle("SecretCreationFailed")
  /\ UNCHANGED <<inputs, objs, unread, events>>

\* The metrics certificate is not there yet: the ServiceMonitor is left out and
\* the request comes back after a while.
MonitorWaits ==
  /\ At("apply") /\ pass.todo = <<"ServiceMonitor">>
  /\ Spend
  /\ pass' = [pass EXCEPT !.todo = <<>>, !.again = TRUE]
  /\ UNCHANGED <<inputs, objs, status, queued, unread>>

ApplyDone ==
  /\ At("apply") /\ pass.todo = <<>>
  /\ pass' = [pass EXCEPT !.at = "cleanup"]
  /\ UNCHANGED <<inputs, objs, status, queued, unread, events>>

\* Mutant: a deferred ServiceMonitor does not count as applied.
OrphansWithMonitor ==
  {o \in Objects \cap CleanupKinds[operand] : o \notin pass.tracked \ {"ServiceMonitor"}}

Orphans == {o \in Objects \cap CleanupKinds[operand] : o \notin pass.tracked}
Without(gone) == [o \in Objects |-> IF o \in gone THEN Absent ELSE objs[o]]

CleanupOrphans ==
  /\ At("cleanup")
  /\ Write(Without(Orphans))
  /\ pass' = [pass EXCEPT !.at = "status"]
  /\ UNCHANGED <<inputs, status, unread, events>>

\* Other kinds are still cleaned up when one fails.
CleanupFails ==
  /\ At("cleanup") /\ Spend
  /\ \E gone \in SUBSET Orphans :
       /\ objs' = Without(gone)
       /\ gone # Orphans
  /\ Handle("CleanupFailed")
  /\ UNCHANGED <<inputs, unread>>

\* A conflict is returned as an error. A new status is an event of the CR.
UpdateStatus ==
  /\ At("status")
  /\ Publish("reconciled")
  /\ queued' = (queued \/ pass.again \/ pass.outdated \/ status' # status)
  /\ pass' = NoPass
  /\ UNCHANGED <<inputs, objs, unread, events>>

ApplyFails ==
  /\ At("apply") /\ pass.todo # <<>> /\ Spend
  /\ Handle(IF Head(pass.todo) = "Namespace" /\ pass.tracked = {} /\ operand \in {"build", "integration"}
            THEN "NamespaceCreationFailed" ELSE ReasonOf(Head(pass.todo)))
  /\ UNCHANGED <<inputs, objs, unread>>

\* The operator restarts, or its final status write fails.
Abandon ==
  /\ ~At("idle") /\ Spend
  /\ pass' = NoPass /\ queued' = TRUE
  /\ UNCHANGED <<inputs, objs, status, unread>>

Reconcile ==
  \/ Begin \/ BeginNotFound \/ ApplyNext \/ SecretRefused \/ ApplyDone
  \/ CleanupOrphans \/ UpdateStatus

-----------------------------------------------------------------------------
(* Users and the KonfluxUI controller *)

CreateCR(s) ==
  /\ spec = Absent
  /\ spec' = s /\ queued' = TRUE
  /\ UNCHANGED <<operand, openShift, ui, keySecret, objs, status, pass, unread, events>>

EditSpec(s) ==
  /\ spec \notin {Absent, s} /\ Spend
  /\ spec' = s /\ queued' = TRUE
  /\ pass' = IF At("idle") THEN pass ELSE [pass EXCEPT !.outdated = TRUE]
  /\ UNCHANGED <<operand, openShift, ui, keySecret, objs, status, unread>>

\* Mutant: the URL is taken for a function of the hostname.
IngressHostnameChanged(edited, old, new) ==
  \/ edited
  \/ (old = Absent) # (new = Absent)
  \/ /\ old # Absent /\ new # Absent
     /\ old.enabled # new.enabled \/ old.hostname # new.hostname

\* The updates of the KonfluxUI that get through to the integration service:
\* those of its spec or metadata, and another ingress status.
KonfluxUIIngressStatusChangedPredicate(edited, old, new) ==
  \/ edited
  \/ (old = Absent) # (new = Absent)
  \/ /\ old # Absent /\ new # Absent
     /\ old.enabled # new.enabled \/ old.hostname # new.hostname \/ old.url # new.url

\* Creation and deletion always get through, also when there is no CR yet.
CreateUI ==
  /\ operand = "integration" /\ ui = Absent /\ Spend
  /\ ui' = NewUI /\ queued' = TRUE
  /\ UNCHANGED <<operand, openShift, spec, keySecret, objs, status, pass, unread>>

DeleteUI ==
  /\ operand = "integration" /\ ui # Absent /\ Spend
  /\ ui' = Absent /\ queued' = TRUE
  /\ UNCHANGED <<operand, openShift, spec, keySecret, objs, status, pass, unread>>

\* A user edits the KonfluxUI, or its controller writes its status: the ingress
\* status after a pass that succeeds, the Ready condition alone otherwise.
UpdateUI(edited, new) ==
  /\ operand = "integration" /\ ui # Absent /\ Spend
  /\ IF edited THEN new = ui ELSE new # ui /\ new.ingress \in Ingresses \cup {ui.ingress}
  /\ ui' = new
  /\ queued' = (queued \/ KonfluxUIIngressStatusChangedPredicate(edited, ui.ingress, new.ingress))
  /\ UNCHANGED <<operand, openShift, spec, keySecret, objs, status, pass, unread>>

\* Mutant: an optional reference is not followed.
MapRequiredReference == spec # Absent /\ spec.ref = "required"

mapSegmentKeySecretToSegmentBridge == spec # Absent /\ spec.ref # "none"

RotateKey(k) ==
  /\ operand = "bridge" /\ k # keySecret /\ Spend
  /\ keySecret' = k
  /\ queued' = (queued \/ mapSegmentKeySecretToSegmentBridge)
  /\ UNCHANGED <<operand, openShift, spec, ui, objs, status, pass, unread>>

UserDeletes(o) ==
  /\ o # "Namespace" /\ objs[o] # Absent /\ Spend
  /\ Write([objs EXCEPT ![o] = Absent])
  /\ pass' = IF At("idle") THEN pass ELSE [pass EXCEPT !.touched = @ \cup {o}]
  /\ UNCHANGED <<inputs, status, unread>>

Next ==
  \/ Reconcile \/ BeginUnread \/ MonitorWaits \/ ApplyFails \/ CleanupFails \/ Abandon
  \/ \E s \in Specs[operand] : CreateCR(s) \/ EditSpec(s)
  \/ CreateUI \/ DeleteUI \/ \E edited \in BOOLEAN, new \in KonfluxUI : UpdateUI(edited, new)
  \/ \E k \in Secrets \cup {Absent} : RotateKey(k)
  \/ \E o \in Objects : UserDeletes(o)

Spec == Init /\ [][Next]_vars

\* The work queue hands out a request again until a pass succeeds.
FairSpec == Spec /\ WF_vars(Reconcile)

-----------------------------------------------------------------------------
(* Properties *)

Wanted(s) == ToSet(Work(s))
Good == spec # Absent /\ resolveKey(spec, keySecret) # Unresolved

\* Once nobody interferes, every object that the last spec asks for is there
\* with the content it asks for, the write key of the referenced Secret and the
\* URL of the console included, and the status says so; a key that cannot be
\* resolved is told instead. After failures, restarts, edits in the middle of
\* a pass and deletions by users, with no other trigger than the events of
\* SetupWithManager. Objects of kinds that are not watched, and the Deployment
\* whose URL could not be read, are the exceptions.
OperandConverges ==
  <>[](/\ Good => /\ status = "reconciled"
                  /\ \A o \in Watched \cap Wanted(spec) : (o = "Deployment" => ~unread) =>
                       objs[o] = Content(o, spec, consoleURL, keySecret)
       /\ spec # Absent /\ ~Good => status = "SecretCreationFailed")

\* What a spec no longer asks for goes away, and so does what an earlier
\* release has left behind: the kinds and names that CleanupOrphans is given
\* cover everything that the applyManifests functions may leave out.
LeftoversRemoved ==
  <>[](Good => \A o \in Objects \ Wanted(spec) : objs[o] = Absent)

\* The environment variable as the container sees it: the last one counts.
Effective(env, name) ==
  LET at == {i \in DOMAIN env : env[i].name = name}
  IN  IF at = {} THEN Absent ELSE env[CHOOSE i \in at : \A j \in at : j <= i].value

\* A pass that succeeds has restored everything of its spec, objects of
\* kinds that are not watched included, except what users deleted after it was
\* applied: nothing that the pass has applied is cleaned up by the same pass.
PassRestores ==
  [][At("status") /\ status' = "reconciled" /\ pass' = NoPass /\ events' = events =>
       \A o \in (Objects \cap Wanted(pass.spec)) \ pass.touched :
         \/ o = "ServiceMonitor" /\ pass.again
         \/ objs[o] = Content(o, pass.spec, pass.url, pass.secret)]_vars

\* Settings by name; those of one layer hide those below.
Setting(name, value) == [n \in {name} |-> value]
Over(top, below) ==
  [n \in DOMAIN top \cup DOMAIN below |-> IF n \in DOMAIN top THEN top[n] ELSE below[n]]

\* Who decides on an environment variable of the managers, by layer.
Typed(s, url) ==
  CASE operand = "build" -> IF s.pac = "unset" THEN << >>
                            ELSE Setting("PAC_WEBHOOK_INSECURE_SSL",
                                         IF s.pac = "yes" THEN <<"1">> ELSE Absent)
    [] operand = "integration" ->
         Over(Over(Setting("CONSOLE_URL", consoleURLTemplate(url)),
                   Setting("CONSOLE_URL_TASKLOG", consoleURLTasklogTemplate(url))),
              IF s.timeout = <<>> THEN << >> ELSE Setting("PIPELINE_TIMEOUT", s.timeout))
    [] operand = "lister" ->
         Over(IF s.logLevel = "" THEN << >>
              ELSE Setting("LOG_LEVEL", <<logLevelToEnvValue[s.logLevel]>>),
              IF s.resync = <<>> THEN << >> ELSE Setting("CACHE_RESYNC_PERIOD", s.resync))
    [] operand \in {"image", "release"} -> << >>
Platform(s) ==
  CASE operand = "build" /\ ~openShift ->
         Over(Setting("PAC_NAMESPACE", <<"tekton-pipelines">>),
              IF s.webhooks = "" THEN Setting("PAC_WEBHOOK_URL", <<"service">>) ELSE << >>)
    [] operand = "image" /\ s.caBundle # "" ->
         Setting("QUAY_ADDITIONAL_CA", <<"/etc/ssl/certs/quay-ca", "key">>)
    [] ~(operand = "build" /\ ~openShift) /\ ~(operand = "image" /\ s.caBundle # "") -> << >>
AsFunction(env) == [n \in {env[i].name : i \in DOMAIN env} |-> Effective(env, n)]

\* Typed fields of the CR win over the environment that the user gives for the
\* container, which wins over what the platform needs, which wins over the
\* manifest; a variable or a flag never appears twice; several replicas elect a
\* leader; the hashed ConfigMap of the pass is the one that is mounted.
AsSpecified(s, url, pod) ==
  LET layers == Over(Typed(s, url), Over(AsFunction(s.manager.env),
                  Over(Platform(s), AsFunction(ManifestEnv))))
  IN  /\ \A n \in DOMAIN layers : Effective(pod.env, n) = layers[n]
      /\ \A e \in ToSet(pod.env) : e.name \in DOMAIN layers
      /\ \A i, j \in DOMAIN pod.env : pod.env[i].name = pod.env[j].name => i = j
      /\ \A i, j \in DOMAIN pod.args : pod.args[i].flag = pod.args[j].flag => i = j
      /\ s.replicas > 1 /\ operand # "lister" => Arg("leader-elect", "true") \in ToSet(pod.args)
      /\ operand = "build" => pod.volumes["webhook-config"] = webhookConfigMapName(s)

\* Every Deployment that a pass writes is customised as its spec says, by
\* layers (BuildPodOverlay, mergeEnvByName and the options of each controller).
CustomisedAsSpecified ==
  [][\A o \in {"Deployment"} \cap Objects : objs'[o] # objs[o] /\ objs'[o] # Absent =>
       AsSpecified(pass.spec, pass.url, objs'[o].pod)]_vars

\* The default pipeline that build-service is told is one that it is told, as
\* long as there is any; an entry of the user replaces the default of the same
\* name instead of joining it, whatever the order of entries and removals.
DefaultPipelineListed ==
  operand = "build" /\ objs["PipelineConfig"] # Absent =>
    LET config == objs["PipelineConfig"]
        names == [i \in DOMAIN config.pipelines |-> config.pipelines[i].name]
    IN  /\ config.pipelines # <<>> => config.default \in ToSet(names)
        /\ IsInjective(names)
=============================================================================

----------------------------- MODULE UIRollout -----------------------------
(***************************************************************************)
(* The KonfluxUI controller: a content-hashed ConfigMap for dex, a         *)
(* content-hashed Secret for the proxy, the two Deployments that mount     *)
(* them, the Ingress and ConsoleLink, the client secret, the cleanup of    *)
(* orphans and the status.                                                 *)
(*                                                                         *)
(* A reconcile pass is a sequence of API calls: any of them may fail, the  *)
(* operator may restart between any two, and users edit the CRs and rotate *)
(* the write key meanwhile. Typed reads and lists (the dex ConfigMaps, the *)
(* client secret) come from informer caches that lag behind the API        *)
(* server; the orphans are listed unstructured, which is a live list.      *)
(***************************************************************************)
EXTENDS Naturals, FiniteSets

CONSTANTS
  Starts,         \* the platforms and inputs that a behaviour may start with
  Specs,          \* the KonfluxUI specs a user may write, a subset of UISpec
  Bridges,        \* the KonfluxSegmentBridge specs a user may write
  Keys,           \* the Segment write keys
  Clients,        \* the values generateRandomBytes may return
  Absent,         \* no such object
  MaxEvents       \* edits, meddling and faults of a behaviour

\* The key inside the referenced Secret may be missing while the Secret exists.
NoKey == "no such key"
Empty == "empty"

UISpec ==
  [fqdn: {"", "host", "host:port"}, hostname: {"", "label"},
   enabled: {"unset", "yes", "no"}, dexHost: {"", "dex"},
   connectors: 0..1, passwordDB: {"unset", "yes", "no"}, login: {"unset", "yes", "no"},
   watson: {"off", "named", "unnamed"}, nodePort: {"none", "any", "fixed"}]

BridgeSpec ==
  [inline: Keys \cup {""}, ref: BOOLEAN, optional: BOOLEAN]

ASSUME InputsAssumption ==
  /\ Specs \subseteq UISpec
  /\ Bridges \subseteq BridgeSpec
  /\ Starts \subseteq [openShift: BOOLEAN, ui: Specs, bridge: Bridges \cup {Absent},
                      keySecret: Keys \cup {Absent, NoKey}]
  /\ Absent \notin BridgeSpec
  /\ {Absent, NoKey, "", Empty} \cap (Keys \cup Clients) = {}
  /\ Clients # {}
  /\ MaxEvents \in Nat

VARIABLES
  openShift,      \* ClusterInfo.IsOpenShift(), detected at start
  ui,             \* the spec of the KonfluxUI CR
  bridge,         \* the spec of the KonfluxSegmentBridge CR, or Absent
  keySecret,      \* the Secret that segmentKeySecretRef names
  dexMaps,        \* the dex ConfigMaps in the API server
  mapCache,       \* ... and in the informer cache
  segments,       \* the hashed Segment Secrets of the proxy
  client,         \* the client secret of oauth2-proxy and dex
  clientCache,    \* ... and in the informer cache
  news,           \* the informers with a watch event to deliver
  front,          \* the proxy Service and the ServiceAccount of dex, or Absent
  dex,            \* the ConfigMap that the dex Deployment mounts, or Absent
  proxy,          \* what the proxy Deployment mounts and is told, or Absent
  roll,           \* how far the rollout of each Deployment is
  ingress,        \* the host of the Ingress, or Absent
  link,           \* the address in the ConsoleLink, or Absent
  status,         \* of the KonfluxUI CR
  queued,         \* a KonfluxUI request is in the work queue
  pass,           \* the reconcile in progress
  edits,          \* edits of the two CRs and of the key Secret
  meddles,        \* objects of the operator that a user deleted or emptied
  faults          \* failed API calls and operator restarts

Budget == edits + meddles + faults < MaxEvents

inputs == <<openShift, ui, bridge, keySecret, edits>>
objects == <<dexMaps, segments, client, front, dex, proxy, roll, ingress, link>>
caches == <<mapCache, clientCache, news>>
vars == <<inputs, objects, caches, status, queued, pass, meddles, faults>>

-----------------------------------------------------------------------------
(* Endpoint, dex configuration and write key: pure functions of the inputs *)

Deref(preference, default) ==
  IF preference = "unset" THEN default ELSE preference = "yes"

IngressEnabled(s) == Deref(s.enabled, openShift)

isOpenShiftLoginEnabled(s) == openShift /\ Deref(s.login, TRUE)

URL(host, port) == [host |-> host, port |-> port]
DefaultEndpoint == URL("localhost", "9443")
InvalidFQDN == "InvalidIngressFQDN"

\* The default domain of the cluster is read from the API server.
NeedsDomain(s) ==
  /\ s.fqdn = ""
  /\ openShift
  /\ s.hostname # "" \/ IngressEnabled(s)

\* Absent stands for ErrFQDNPortWithManagedIngress.
DetermineEndpointURL(s) ==
  CASE s.fqdn = "host:port" -> IF IngressEnabled(s) THEN Absent ELSE URL("host", "port")
    [] s.fqdn = "host" -> URL("host", "")
    [] s.fqdn = "" /\ s.hostname # "" /\ openShift -> URL("label.domain", "")
    [] s.fqdn = "" /\ ~(s.hostname # "" /\ openShift) ->
         IF IngressEnabled(s) /\ openShift THEN URL("konflux-ui.domain", "") ELSE DefaultEndpoint

ResolveDexEndpoint(s) ==
  IF s.dexHost = "" THEN DetermineEndpointURL(s) ELSE URL(s.dexHost, "")

JoinPath(url, path) == [at |-> url, path |-> path]

\* The configuration of dex as far as others have to know it: the issuer, the
\* address it sends clients of oauth2-proxy back to, and the one that an
\* identity provider sends the user back to.
NewDexConfig(s) ==
  LET base == ResolveDexEndpoint(s)
      connectors == s.connectors + (IF isOpenShiftLoginEnabled(s) THEN 1 ELSE 0)
  IN  [issuer |-> JoinPath(base, "/idp/"),
       redirectURI |-> JoinPath(base, "/oauth2/callback"),
       callback |-> JoinPath(base, "/idp/callback"),
       connectors |-> connectors,
       passwordDB |-> Deref(s.passwordDB, connectors = 0)]

\* The addresses that oauth2-proxy is told, from the endpoint itself.
WithOIDCURLs(endpoint) ==
  [issuer |-> JoinPath(endpoint, "/idp/"), redirectURL |-> JoinPath(endpoint, "/oauth2/callback")]
WithWhitelistDomain(endpoint) == endpoint

buildOAuth2ProxyOptions(s) ==
  LET endpoint == DetermineEndpointURL(s)
  IN  [urls |-> WithOIDCURLs(endpoint),
       whitelist |-> WithWhitelistDomain(endpoint),
       unverifiedEmail |-> isOpenShiftLoginEnabled(s)]

\* The optional endpoint Watson needs the name of a Secret.
appendEndpointOverlays(s) == IF s.watson = "unnamed" THEN Absent ELSE s.watson

\* The Pod template of the proxy, Absent when it cannot be built.
buildProxyOverlay(s, segment) ==
  IF appendEndpointOverlays(s) = Absent THEN Absent
  ELSE [segment |-> segment, oauth2 |-> buildOAuth2ProxyOptions(s),
        watson |-> appendEndpointOverlays(s), runAsUser |-> ~openShift]

applyUIServiceCustomizations(s) ==
  CASE s.nodePort = "none" -> [type |-> "ClusterIP", fixed |-> FALSE]
    [] s.nodePort # "none" -> [type |-> "NodePort", fixed |-> s.nodePort = "fixed"]

\* Mutant: the callback of oauth2-proxy instead of the one of dex.
AccountForProxy(s) ==
  IF isOpenShiftLoginEnabled(s) THEN JoinPath(DetermineEndpointURL(s), "/oauth2/callback")
                                ELSE Absent

\* Where the OpenShift login may send the user back to.
applyUIServiceAccountCustomizations(s) ==
  IF isOpenShiftLoginEnabled(s) THEN JoinPath(DetermineEndpointURL(s), "/idp/callback")
                                ELSE Absent

\* A name with a hash of the content: another content has another name.
HashedName(base, content) == <<base, content>>

DexMapName(s) == HashedName("dex", NewDexConfig(s))

\* The Pod template of dex: the ConfigMap that it mounts.
buildDexOverlay(s) == DexMapName(s)

\* The host that the Ingress serves, and where the ConsoleLink leads.
BuildForUI(s) == DetermineEndpointURL(s).host
consolelinkBuild(s) == DetermineEndpointURL(s)

ResolveError == "unresolved"

ResolveWriteKeySecretRef(b) ==
  CASE ~b.ref -> ""
    [] b.ref /\ keySecret \in {Absent, NoKey} -> IF b.optional THEN "" ELSE ResolveError
    [] b.ref /\ keySecret \notin {Absent, NoKey} -> keySecret

\* segmentKeySecretRef is not looked at when the key is in the CR.
ResolveWriteKey(b) == IF b.inline # "" THEN b.inline ELSE ResolveWriteKeySecretRef(b)

\* The write key for the browser; none without a KonfluxSegmentBridge.
WriteKey == IF bridge = Absent THEN "" ELSE ResolveWriteKey(bridge)

\* The volume of the manifest names an optional Secret that nobody creates.
ManifestSegment == <<"segment-bridge-config">>

\* Mutant: an empty key is put into a Secret as well.
SegmentNameAlways(key) == HashedName("segment-bridge-config", key)

SegmentName(key) ==
  IF key = "" THEN ManifestSegment ELSE HashedName("segment-bridge-config", key)
-----------------------------------------------------------------------------
Deployments == {"dex", "proxy"}
Steps == {"idle", "configmap", "segment", "apply", "secrets", "orphans", "status"}
NoPass == [at |-> "idle", ui |-> Absent, segment |-> Absent, tracked |-> {}]
Reasons == {"", InvalidFQDN, "NamespaceCreationFailed", "EndpointDeterminationFailed",
            "ConfigMapFailed", "SecretCreationFailed", "ApplyFailed", "IngressReconcileFailed",
            "CleanupFailed"}

\* The tracked names beside those of the hashed Secrets.
ClientSecret == <<"oauth2-proxy-client-secret">>
IngressName == <<"Ingress">>
LinkName == <<"ConsoleLink">>

DexMapNames == {DexMapName(s) : s \in Specs}
SegmentNames == {SegmentName(k) : k \in Keys}
Trackable == SegmentNames \cup {ClientSecret, IngressName, LinkName}
URLs == {DetermineEndpointURL(s) : s \in Specs} \ {Absent}
Fronts ==
  {[service |-> applyUIServiceCustomizations(s),
    account |-> applyUIServiceAccountCustomizations(s)] : s \in Specs}
Templates ==
  {buildProxyOverlay(s, name) : s \in Specs, name \in SegmentNames \cup {ManifestSegment}}

PassType ==
  [at: Steps, ui: Specs \cup {Absent}, segment: SegmentNames \cup {ManifestSegment, Absent},
   tracked: SUBSET Trackable]

TypeOK ==
  /\ openShift \in BOOLEAN
  /\ ui \in Specs
  /\ bridge \in Bridges \cup {Absent}
  /\ keySecret \in Keys \cup {Absent, NoKey}
  /\ dexMaps \subseteq DexMapNames /\ mapCache \subseteq DexMapNames
  /\ segments \subseteq SegmentNames
  /\ client \in Clients \cup {Absent, Empty}
  /\ clientCache \in Clients \cup {Absent, Empty}
  /\ news \subseteq {"maps", "secrets"}
  /\ dex \in DexMapNames \cup {Absent}
  /\ front \in Fronts \cup {Absent}
  /\ proxy \in Templates \cup {Absent}
  /\ roll \in [Deployments -> {"absent", "ready", "late", "rolling"}]
  /\ ingress \in {u.host : u \in URLs} \cup {Absent}
  /\ link \in URLs \cup {Absent}
  /\ status \in [ready: BOOLEAN, reason: Reasons, url: URLs \cup {Absent}]
  /\ pass \in PassType
  /\ queued \in BOOLEAN
  /\ edits \in Nat /\ meddles \in Nat /\ faults \in Nat
  /\ edits + meddles + faults <= MaxEvents

\* A new installation: the CR has just been created, the Secret with the
\* write key perhaps before.
Init ==
  /\ \E start \in Starts :
       /\ openShift = start.openShift
       /\ ui = start.ui /\ bridge = start.bridge /\ keySecret = start.keySecret
  /\ dexMaps = {} /\ mapCache = {}
  /\ segments = {}
  /\ client = Absent
  /\ clientCache = Absent
  /\ news = {}
  /\ front = Absent /\ dex = Absent /\ proxy = Absent
  /\ roll = [d \in Deployments |-> "absent"]
  /\ ingress = Absent /\ link = Absent
  /\ status = [ready |-> FALSE, reason |-> "", url |-> Absent]
  /\ queued = TRUE /\ pass = NoPass
  /\ edits = 0 /\ meddles = 0 /\ faults = 0

-----------------------------------------------------------------------------
(* The reconcile pass of the KonfluxUI controller *)

At(step) == pass.at = step
Goto(step) == pass' = [pass EXCEPT !.at = step]

Secrets == <<segments, client>>
Optional == <<ingress, link>>

\* A write is an event for the informer, also when a later one undoes it.
Watched ==
  news' = news \cup (IF dexMaps' # dexMaps THEN {"maps"} ELSE {})
               \cup (IF Secrets' # Secrets THEN {"secrets"} ELSE {})

\* A status write carries the resource version the pass has read: it is
\* refused once the CR has been edited. A status that changes is an event of
\* the CR itself, which the controller watches without a predicate.
Publish(s) == status' = IF ui = pass.ui THEN s ELSE status

\* Mutant: a condition that is failed already is not written again.
HandleOnce(reason) ==
  /\ Publish(IF status.reason = "" THEN [status EXCEPT !.ready = FALSE, !.reason = reason]
                                   ELSE status)
  /\ pass' = NoPass
  /\ queued' = TRUE

\* Handle: the failed condition is written, the error returned and the
\* request queued again.
Handle(reason) ==
  /\ Publish([status EXCEPT !.ready = FALSE, !.reason = reason])
  /\ pass' = NoPass
  /\ queued' = TRUE

\* Reading the CR, ensuring the namespace and determining the endpoint.
Begin ==
  /\ At("idle") /\ queued
  /\ DetermineEndpointURL(ui) # Absent
  /\ pass' = [NoPass EXCEPT !.at = "configmap", !.ui = ui]
  /\ queued' = FALSE
  /\ UNCHANGED <<inputs, objects, caches, status, meddles, faults>>

EndpointRefused ==
  /\ At("idle") /\ queued
  /\ DetermineEndpointURL(ui) = Absent
  /\ status' = [status EXCEPT !.ready = FALSE, !.reason = InvalidFQDN]
  /\ UNCHANGED <<inputs, objects, caches, queued, pass, meddles, faults>>

OldMaps == mapCache \ {DexMapName(pass.ui)}

\* HashedConfigMap.Apply writes the ConfigMap and then, in cleanupOld, deletes
\* the others of the cached list. A failed list or delete is logged and the
\* pass goes on.
reconcileDexConfigMap ==
  /\ At("configmap")
  /\ \E kept \in SUBSET (OldMaps \cap dexMaps) :
       /\ dexMaps' = (dexMaps \ (OldMaps \ kept)) \cup {DexMapName(pass.ui)}
       /\ \/ kept = {} /\ UNCHANGED faults
          \/ kept # {} /\ Budget /\ faults' = faults + 1
  /\ Goto("segment")
  /\ UNCHANGED <<inputs, segments, client, front, dex, proxy, roll, ingress, link,
                 mapCache, clientCache, status, queued, meddles>>
  /\ Watched

reconcileSegmentSecret ==
  /\ At("segment")
  /\ WriteKey # ResolveError
  /\ segments' = IF WriteKey = "" THEN segments ELSE segments \cup {SegmentName(WriteKey)}
  /\ pass' = [pass EXCEPT !.at = "apply", !.segment = SegmentName(WriteKey),
                          !.tracked = IF WriteKey = "" THEN {} ELSE {SegmentName(WriteKey)}]
  /\ UNCHANGED <<inputs, dexMaps, client, front, dex, proxy, roll, ingress, link,
                 mapCache, clientCache, status, queued, meddles, faults>>
  /\ Watched

SegmentUnresolved ==
  /\ At("segment")
  /\ WriteKey = ResolveError
  /\ Handle("SecretCreationFailed")
  /\ UNCHANGED <<inputs, objects, caches, meddles, faults>>

\* A changed Pod template is a new generation: until the Deployment
\* controller has seen it the counters in the status are the old ones.
NewTemplate(state) == IF state \in {"absent", "rolling"} THEN "rolling" ELSE "late"

\* reconcileIngress writes the fourth and the fifth object of a pass.
reconcileIngress(n) ==
  LET s == pass.ui
      managed == IngressEnabled(s)
  IN  /\ ingress' = IF n >= 4 /\ managed THEN BuildForUI(s) ELSE ingress
      /\ link' = IF n >= 5 /\ managed /\ openShift THEN consolelinkBuild(s) ELSE link

\* applyManifests and reconcileIngress write the ServiceAccount and Service,
\* the dex Deployment, the proxy Deployment, the Ingress and the ConsoleLink in
\* this order: the first n of them.
Apply(n) ==
  LET s == pass.ui
  IN  /\ front' = IF n >= 1 THEN [service |-> applyUIServiceCustomizations(s),
                                  account |-> applyUIServiceAccountCustomizations(s)]
                            ELSE front
      /\ dex' = IF n >= 2 THEN buildDexOverlay(s) ELSE dex
      /\ proxy' = IF n >= 3 THEN buildProxyOverlay(s, pass.segment) ELSE proxy
      /\ reconcileIngress(n)
      /\ roll' = [d \in Deployments |->
                    IF IF d = "dex" THEN dex' # dex ELSE proxy' # proxy
                    THEN NewTemplate(roll[d]) ELSE roll[d]]

Applied == <<front, dex, proxy, ingress, link>>
Buildable == buildProxyOverlay(pass.ui, pass.segment) # Absent

\* The optional objects that reconcileIngress applies, and so tracks.
IngressTracked(s) ==
  {name \in {IngressName, LinkName} :
     IngressEnabled(s) /\ (name = LinkName => openShift)}

\* What changes is an event for the controller.
applyManifests ==
  /\ At("apply") /\ Buildable
  /\ Apply(5)
  /\ pass' = [pass EXCEPT !.at = "secrets", !.tracked = @ \cup IngressTracked(pass.ui)]
  /\ queued' = (queued \/ Applied' # Applied)
  /\ UNCHANGED <<inputs, dexMaps, segments, client, caches, status, meddles, faults>>

\* The template of the proxy cannot be built: dex has its new one already.
ProxyRefused ==
  /\ At("apply") /\ ~Buildable
  /\ Apply(2)
  /\ Handle("ApplyFailed")
  /\ UNCHANGED <<inputs, dexMaps, segments, client, caches, meddles, faults>>

\* One of the calls fails: the objects before it have been written.
ApplyFails(n) ==
  /\ At("apply")
  /\ n >= 3 => Buildable
  /\ Budget
  /\ faults' = faults + 1
  /\ Apply(n)
  /\ Handle(IF n < 3 THEN "ApplyFailed" ELSE "IngressReconcileFailed")
  /\ UNCHANGED <<inputs, dexMaps, segments, client, caches, meddles>>

\* A random value: another one than there is.
generateRandomBytes == CHOOSE c \in Clients : c # client

\* Mutant: the generated value is applied whatever the API server holds.
ensureSecretForced ==
  client' = IF clientCache \in Clients THEN client ELSE generateRandomBytes

\* CreateOrUpdate on the cached Secret: a value is generated when the cached
\* one is missing or empty.
ensureSecret ==
  \/ clientCache \in Clients /\ UNCHANGED client
  \/ clientCache \notin Clients /\ client = clientCache /\ client' = generateRandomBytes

\* ... and is not written when the cache was out of date: a Create is refused
\* when the Secret exists, an Update when it has changed.
Conflict == clientCache \notin Clients /\ client # clientCache

\* Mutant: CreateOrUpdate of the embedded client, which tracks nothing.
ensureUISecretsUntracked ==
  /\ At("secrets")
  /\ \/ ensureSecret /\ Goto("orphans") /\ UNCHANGED <<queued, status>>
     \/ Conflict /\ Handle("SecretCreationFailed") /\ UNCHANGED client
  /\ UNCHANGED <<inputs, dexMaps, segments, front, dex, proxy, roll, ingress, link,
                 mapCache, clientCache, meddles, faults>>
  /\ Watched

\* The Secret is tracked whether it was created, updated or left unchanged.
ensureUISecrets ==
  /\ At("secrets")
  /\ \/ /\ ensureSecret
        /\ pass' = [pass EXCEPT !.at = "orphans", !.tracked = @ \cup {ClientSecret}]
        /\ UNCHANGED <<queued, status>>
     \/ Conflict /\ Handle("SecretCreationFailed") /\ UNCHANGED client
  /\ UNCHANGED <<inputs, dexMaps, segments, front, dex, proxy, roll, ingress, link,
                 mapCache, clientCache, meddles, faults>>
  /\ Watched

\* The client secret is there and the cookie secret, the second, fails.
CookieFails ==
  /\ At("secrets")
  /\ Budget
  /\ faults' = faults + 1
  /\ ensureSecret /\ client' # client
  /\ Handle("SecretCreationFailed")
  /\ UNCHANGED <<inputs, dexMaps, segments, front, dex, proxy, roll, ingress, link,
                 mapCache, clientCache, meddles>>
  /\ Watched

\* The objects of the kinds to clean up that carry the owner's label.
Owned ==
  segments \cup {name \in {ClientSecret, IngressName, LinkName} :
                 /\ name = ClientSecret => client # Absent
                 /\ name = IngressName => ingress # Absent
                 /\ name = LinkName => link # Absent}

\* Mutant: the Secret that the proxy mounts is not tracked.
OrphansUntracked == Owned \ (pass.tracked \ segments)

\* The list is a live one of the API server.
Orphans == Owned \ pass.tracked

Delete(gone) ==
  /\ segments' = segments \ gone
  /\ client' = IF ClientSecret \in gone THEN Absent ELSE client
  /\ ingress' = IF IngressName \in gone THEN Absent ELSE ingress
  /\ link' = IF LinkName \in gone THEN Absent ELSE link

CleanupOrphans ==
  /\ At("orphans")
  /\ Delete(Orphans)
  /\ queued' = (queued \/ Optional' # Optional)
  /\ Goto("status")
  /\ UNCHANGED <<inputs, dexMaps, front, dex, proxy, roll, mapCache, clientCache,
                 status, meddles, faults>>
  /\ Watched

\* A list or a delete fails: any of the orphans may be gone by then, since the
\* kinds are cleaned up in parallel.
CleanupFails ==
  /\ At("orphans")
  /\ Budget
  /\ faults' = faults + 1
  /\ \E gone \in SUBSET Orphans : Delete(gone)
  /\ Handle("CleanupFailed")
  /\ UNCHANGED <<inputs, dexMaps, front, dex, proxy, roll, mapCache, clientCache, meddles>>
  /\ Watched

\* The replica counters of the status: they say nothing of its generation.
IsDeploymentReady(d) == roll[d] \in {"ready", "late"}

UpdateStatus ==
  /\ At("status")
  /\ Publish([ready |-> \A d \in Deployments : IsDeploymentReady(d), reason |-> "",
              url |-> DetermineEndpointURL(pass.ui)])
  /\ queued' = (queued \/ ui # pass.ui \/ status' # status)
  /\ pass' = NoPass
  /\ UNCHANGED <<inputs, objects, caches, meddles, faults>>

\* The reason an error of each step is reported with.
ReasonOf ==
  [configmap |-> "ConfigMapFailed", segment |-> "SecretCreationFailed",
   secrets |-> "SecretCreationFailed"]

\* The API call of a step fails. A failed final status write is only returned.
StepFails ==
  /\ pass.at \in DOMAIN ReasonOf \cup {"status"}
  /\ Budget
  /\ faults' = faults + 1
  /\ IF At("status") THEN pass' = NoPass /\ queued' = TRUE /\ UNCHANGED status
                     ELSE Handle(ReasonOf[pass.at])
  /\ UNCHANGED <<inputs, objects, caches, meddles>>

\* The namespace cannot be applied, or the lookup of the cluster's domain fails.
BeginFails(reason) ==
  /\ At("idle") /\ queued
  /\ reason = "NamespaceCreationFailed" \/ NeedsDomain(ui)
  /\ Budget
  /\ faults' = faults + 1
  /\ status' = [status EXCEPT !.ready = FALSE, !.reason = reason]
  /\ UNCHANGED <<inputs, objects, caches, queued, pass, meddles>>

\* The operator restarts: the caches are listed anew and every CR is queued.
Restart ==
  /\ ~At("idle")
  /\ Budget
  /\ faults' = faults + 1
  /\ pass' = NoPass /\ queued' = TRUE
  /\ mapCache' = dexMaps
  /\ clientCache' = client
  /\ news' = {}
  /\ UNCHANGED <<inputs, objects, status, meddles>>

Reconcile ==
  \/ Begin \/ EndpointRefused \/ reconcileDexConfigMap
  \/ reconcileSegmentSecret \/ SegmentUnresolved \/ applyManifests \/ ProxyRefused
  \/ ensureUISecrets \/ CleanupOrphans \/ UpdateStatus
-----------------------------------------------------------------------------
(* Deployment controller, informers and users *)

ObserveTemplate(d) ==
  /\ roll[d] = "late"
  /\ roll' = [roll EXCEPT ![d] = "rolling"]
  /\ queued' = TRUE
  /\ UNCHANGED <<inputs, dexMaps, segments, client, front, dex, proxy, ingress, link,
                 caches, status, pass, meddles, faults>>

\* Pods start once what they mount exists; the Segment volume is optional.
Mountable(d) ==
  /\ client \in Clients
  /\ d = "dex" => dex \in dexMaps

PodsReady(d) ==
  /\ roll[d] = "rolling" /\ Mountable(d)
  /\ roll' = [roll EXCEPT ![d] = "ready"]
  /\ queued' = TRUE
  /\ UNCHANGED <<inputs, dexMaps, segments, client, front, dex, proxy, ingress, link,
                 caches, status, pass, meddles, faults>>

\* The Deployment controller takes one or the other, by the state of the rollout.
Rollout(d) == ObserveTemplate(d) \/ PodsReady(d)

SyncConfigMaps ==
  /\ "maps" \in news
  /\ mapCache' = dexMaps /\ news' = news \ {"maps"}
  /\ queued' = TRUE
  /\ UNCHANGED <<inputs, objects, clientCache, status, pass, meddles, faults>>

SyncSecrets ==
  /\ "secrets" \in news
  /\ clientCache' = client
  /\ news' = news \ {"secrets"}
  /\ queued' = TRUE
  /\ UNCHANGED <<inputs, objects, mapCache, status, pass, meddles, faults>>

EditUI(s) ==
  /\ Budget /\ s # ui
  /\ ui' = s /\ queued' = TRUE /\ edits' = edits + 1
  /\ UNCHANGED <<openShift, bridge, keySecret, objects, caches, status, pass,
                 meddles, faults>>

\* mapSegmentBridgeToUI queues the KonfluxUI on every event of the bridge.
EditBridge(b) ==
  /\ Budget /\ b # bridge
  /\ bridge' = b /\ edits' = edits + 1
  /\ queued' = TRUE
  /\ UNCHANGED <<openShift, ui, keySecret, objects, caches, status, pass, meddles, faults>>

\* An event of the key Secret counts when the bridge refers to it.
mapSegmentKeySecretToUI == bridge # Absent /\ bridge.ref

RotateKey(k) ==
  /\ Budget /\ k # keySecret
  /\ keySecret' = k /\ edits' = edits + 1
  /\ queued' = (queued \/ mapSegmentKeySecretToUI)
  /\ UNCHANGED <<openShift, ui, bridge, objects, caches, status, pass, meddles, faults>>

\* A user deletes ConfigMaps or Secrets of the operator, or empties a Secret.
Meddle ==
  /\ Budget
  /\ meddles' = meddles + 1
  /\ \/ dexMaps # {} /\ dexMaps' = {} /\ UNCHANGED <<segments, client>>
     \/ segments # {} /\ segments' = {} /\ UNCHANGED <<dexMaps, client>>
     \/ client \in Clients /\ client' \in {Absent, Empty} /\ UNCHANGED <<dexMaps, segments>>
  /\ UNCHANGED <<inputs, front, dex, proxy, roll, ingress, link, mapCache, clientCache,
                 status, queued, pass, faults>>
  /\ Watched

Next ==
  \/ Reconcile \/ StepFails \/ CookieFails \/ CleanupFails
  \/ Restart
  \/ (\E n \in 0..4 : ApplyFails(n))
  \/ \E reason \in {"NamespaceCreationFailed", "EndpointDeterminationFailed"} : BeginFails(reason)
  \/ \E d \in Deployments : Rollout(d)
  \/ SyncConfigMaps \/ SyncSecrets
  \/ \E s \in Specs : EditUI(s)
  \/ \E b \in Bridges \cup {Absent} : EditBridge(b)
  \/ \E k \in Keys \cup {Absent, NoKey} : RotateKey(k)
  \/ Meddle

Spec == Init /\ [][Next]_vars

Fairness ==
  /\ WF_vars(Reconcile)
  /\ \A d \in Deployments : WF_vars(Rollout(d))
  /\ WF_vars(SyncConfigMaps) /\ WF_vars(SyncSecrets)

FairSpec == Spec /\ Fairness

-----------------------------------------------------------------------------
(* Properties *)

\* The Secret that the proxy Deployment mounts exists in every state, also
\* between the steps of a pass and after one that failed: it is written
\* before the Deployment refers to it, and removed only after the Deployment
\* has been told of another one. Users may delete it.
MountedSegmentExists ==
  meddles = 0 /\ proxy # Absent /\ proxy.segment # ManifestSegment
    => proxy.segment \in segments

\* What hashedconfigmap.go says of its cleanup, for the ConfigMap of dex: only
\* ConfigMaps "that are no longer in use" are removed.
CleanupSparesUsed ==
  meddles = 0 /\ dex # Absent => dex \in dexMaps

\* A client secret is never replaced by the operator, whatever its cache
\* shows, nor removed as an orphan: users stay logged in and dex and
\* oauth2-proxy keep agreeing.
ClientSecretKept ==
  [][meddles' = meddles /\ client \in Clients => client' = client]_vars

\* The configuration can be carried out.
Good ==
  /\ DetermineEndpointURL(ui) # Absent
  /\ WriteKey # ResolveError
  /\ appendEndpointOverlays(ui) # Absent

Quiet == At("idle") /\ ~queued /\ news = {}

\* Once the controller is quiet the parts of the login agree, though each is
\* configured by code of its own: oauth2-proxy expects the issuer that dex
\* announces and asks to be called back where dex allows it, and the OpenShift
\* account of dex allows the callback that dex asks for. (A host of its own for
\* dex is not told to oauth2-proxy.)
LoginAgrees ==
  Quiet /\ Good /\ ui.dexHost = "" =>
    LET config == dex[2]
    IN  /\ proxy.oauth2.urls.issuer = config.issuer
        /\ proxy.oauth2.urls.redirectURL = config.redirectURI
        /\ isOpenShiftLoginEnabled(ui) => front.account = config.callback
        /\ link # Absent => link = config.issuer.at

Deployed ==
  LET url == DetermineEndpointURL(ui)
  IN  /\ dex = buildDexOverlay(ui) /\ dex \in dexMaps
      /\ faults = 0 => dexMaps = {dex}
      /\ proxy = buildProxyOverlay(ui, SegmentName(WriteKey))
      /\ segments = {proxy.segment} \ {ManifestSegment}
      /\ ingress = IF IngressEnabled(ui) THEN url.host ELSE Absent
      /\ link = IF IngressEnabled(ui) /\ openShift THEN url ELSE Absent
      /\ \A d \in Deployments : roll[d] = "ready"
      /\ status = [ready |-> TRUE, reason |-> "", url |-> url]

ReasonOfBad ==
  CASE DetermineEndpointURL(ui) = Absent -> InvalidFQDN
    [] DetermineEndpointURL(ui) # Absent ->
         IF WriteKey = ResolveError THEN "SecretCreationFailed" ELSE "ApplyFailed"

\* Once nobody edits, what the last CRs and the last key ask for is deployed,
\* Pods run it, nothing of an earlier configuration is left over, and the
\* status says so; also after failed calls, restarts, stale caches and
\* deletions by users, and with no other trigger than the events the
\* controller watches. (A ConfigMap whose deletion failed may stay: that
\* error is only logged.) A configuration that cannot be carried out ends
\* with Ready=False and its reason, also when an earlier one was Ready.
UIConverges ==
  <>[](/\ Good => Deployed
       /\ ~Good => ~status.ready /\ status.reason = ReasonOfBad)
=============================================================================

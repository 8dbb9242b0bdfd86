-------------------------- MODULE UIRollout_proofs --------------------------
(***************************************************************************)
(* The KonfluxUI rollout for every set of specs, bridges, keys and client  *)
(* secrets, and any number of edits, deletions by users, failed calls and  *)
(* restarts.                                                               *)
(***************************************************************************)
EXTENDS UIRollout, TLAPS

USE DEF inputs, objects, caches, PassType

(***************************************************************************)
(* What the operator computes depends on the platform only                 *)
(***************************************************************************)

\* The endpoint of a spec does not change: the platform is detected once.
LEMMA EndpointStable ==
  ASSUME openShift' = openShift, NEW s
  PROVE  /\ DetermineEndpointURL(s)' = DetermineEndpointURL(s)
         /\ IngressEnabled(s)' = IngressEnabled(s)
         /\ isOpenShiftLoginEnabled(s)' = isOpenShiftLoginEnabled(s)
BY DEF DetermineEndpointURL, IngressEnabled, isOpenShiftLoginEnabled, Deref, URL, DefaultEndpoint

\* Neither do the configuration of dex, the options of the proxy and the
\* service account that are built from it.
LEMMA BuildersStable ==
  ASSUME openShift' = openShift, NEW s, NEW segment
  PROVE  /\ DexMapName(s)' = DexMapName(s)
         /\ buildDexOverlay(s)' = buildDexOverlay(s)
         /\ buildOAuth2ProxyOptions(s)' = buildOAuth2ProxyOptions(s)
         /\ applyUIServiceAccountCustomizations(s)' = applyUIServiceAccountCustomizations(s)
         /\ buildProxyOverlay(s, segment)' = buildProxyOverlay(s, segment)
BY EndpointStable
   DEF DexMapName, NewDexConfig, ResolveDexEndpoint, buildDexOverlay, buildOAuth2ProxyOptions,
       applyUIServiceAccountCustomizations, buildProxyOverlay, appendEndpointOverlays,
       DetermineEndpointURL, IngressEnabled, isOpenShiftLoginEnabled, Deref, URL, DefaultEndpoint,
       HashedName, JoinPath, WithOIDCURLs, WithWhitelistDomain

\* The specs whose endpoint can be determined.
Resolved == {s \in Specs : DetermineEndpointURL(s) # Absent}

\* Nor do the sets of names, addresses and templates.
LEMMA NamesStable ==
  ASSUME openShift' = openShift
  PROVE  /\ DexMapNames' = DexMapNames
         /\ URLs' = URLs
         /\ Fronts' = Fronts
         /\ Templates' = Templates
         /\ Resolved' = Resolved
<1>1. DexMapNames' = DexMapNames
  BY BuildersStable DEF DexMapNames
<1>2. URLs' = URLs
  BY EndpointStable DEF URLs
<1>3. Fronts' = Fronts
  BY BuildersStable DEF Fronts
<1>4. Templates' = Templates
  BY BuildersStable DEF Templates
<1>5. Resolved' = Resolved
  BY EndpointStable DEF Resolved
<1> QED
  BY <1>1, <1>2, <1>3, <1>4, <1>5

(***************************************************************************)
(* Typing                                                                  *)
(***************************************************************************)

\* From the read of the CR on a pass holds a spec whose endpoint is known, and
\* from the third step on the name of the Secret that the proxy is to mount.
PassOK ==
  /\ pass.at # "idle" => pass.ui \in Resolved
  /\ pass.at \in {"apply", "secrets", "orphans", "status"}
       => pass.segment \in SegmentNames \cup {ManifestSegment}

TypeInv == TypeOK /\ PassOK

\* The events of a behaviour are bounded.
LEMMA BoundNat == MaxEvents \in Nat
BY InputsAssumption

\* The new installation is well typed.
LEMMA TypeInit == Init => TypeInv
<1> SUFFICES ASSUME Init PROVE TypeInv
  OBVIOUS
<1>1. 0 + 0 + 0 <= MaxEvents
  BY BoundNat
<1>2. pass \in PassType
  BY DEF Init, NoPass, Steps
<1>3. PassOK
  BY DEF Init, NoPass, PassOK
<1>4. status \in [ready: BOOLEAN, reason: Reasons, url: URLs \cup {Absent}]
  BY DEF Init, Reasons
<1> QED
  <2>1. /\ openShift \in BOOLEAN /\ ui \in Specs /\ bridge \in Bridges \cup {Absent}
        /\ keySecret \in Keys \cup {Absent, NoKey}
    <3>1. PICK start \in Starts : /\ openShift = start.openShift /\ ui = start.ui
                                  /\ bridge = start.bridge /\ keySecret = start.keySecret
      BY DEF Init
    <3>2. start \in [openShift: BOOLEAN, ui: Specs, bridge: Bridges \cup {Absent},
                     keySecret: Keys \cup {Absent, NoKey}]
      BY InputsAssumption
    <3> QED
      BY <3>1, <3>2
  <2> QED
    BY <1>1, <1>2, <1>3, <1>4, <2>1 DEF Init, TypeInv, TypeOK

\* The key for the browser is empty, one of the keys or an error.
LEMMA WriteKeyType ==
  ASSUME TypeOK
  PROVE  WriteKey \in Keys \cup {"", ResolveError}
<1>1. CASE bridge = Absent
  BY <1>1 DEF WriteKey
<1>2. CASE bridge # Absent
  <2>1. bridge \in BridgeSpec
    BY <1>2, InputsAssumption DEF TypeOK
  <2>2. ResolveWriteKeySecretRef(bridge) \in Keys \cup {"", ResolveError}
    <3>1. CASE ~bridge.ref
      BY <3>1 DEF ResolveWriteKeySecretRef
    <3>2. CASE bridge.ref /\ keySecret \in {Absent, NoKey}
      BY <3>2 DEF ResolveWriteKeySecretRef
    <3>3. CASE bridge.ref /\ keySecret \notin {Absent, NoKey}
      BY <3>3 DEF ResolveWriteKeySecretRef, TypeOK
    <3> QED
      BY <3>1, <3>2, <3>3
  <2> QED
    BY <1>2, <2>1, <2>2 DEF WriteKey, ResolveWriteKey, BridgeSpec
<1> QED
  BY <1>1, <1>2

\* The platform is never detected again.
LEMMA PlatformStable == [Next]_vars => openShift' = openShift
BY DEF Next, vars, Reconcile, Begin, EndpointRefused, reconcileDexConfigMap, reconcileSegmentSecret,
       SegmentUnresolved, applyManifests, ProxyRefused, ensureUISecrets, CleanupOrphans,
       CookieFails, CleanupFails, UpdateStatus, StepFails, ApplyFails, Restart, BeginFails, Rollout, ObserveTemplate, PodsReady,
       SyncConfigMaps, SyncSecrets, EditUI, EditBridge, RotateKey, Meddle

\* What a pass writes, up to any failure, is built from one of the specs.
LEMMA ApplyType ==
  ASSUME TypeInv, At("apply"), NEW n \in 0..5, n >= 3 => Buildable, Apply(n)
  PROVE  /\ front' \in Fronts \cup {Absent}
         /\ dex' \in DexMapNames \cup {Absent}
         /\ proxy' \in Templates \cup {Absent}
         /\ ingress' \in {u.host : u \in URLs} \cup {Absent}
         /\ link' \in URLs \cup {Absent}
         /\ roll' \in [Deployments -> {"absent", "ready", "late", "rolling"}]
<1> DEFINE s == pass.ui
<1>1. /\ s \in Specs /\ DetermineEndpointURL(s) # Absent
      /\ pass.segment \in SegmentNames \cup {ManifestSegment}
  BY DEF TypeInv, PassOK, At, Resolved
<1>2. DetermineEndpointURL(s) \in URLs
  BY <1>1 DEF URLs
<1>3. front' \in Fronts \cup {Absent}
  BY <1>1 DEF Apply, Fronts, TypeInv, TypeOK
<1>4. dex' \in DexMapNames \cup {Absent}
  BY <1>1 DEF Apply, DexMapNames, buildDexOverlay, TypeInv, TypeOK
<1>5. proxy' \in Templates \cup {Absent}
  BY <1>1 DEF Apply, Templates, TypeInv, TypeOK
<1>6. ingress' \in {u.host : u \in URLs} \cup {Absent}
  BY <1>2 DEF Apply, reconcileIngress, BuildForUI, TypeInv, TypeOK
<1>7. link' \in URLs \cup {Absent}
  BY <1>2 DEF Apply, reconcileIngress, consolelinkBuild, TypeInv, TypeOK
<1>8. roll' \in [Deployments -> {"absent", "ready", "late", "rolling"}]
  BY DEF Apply, NewTemplate, TypeInv, TypeOK
<1> QED
  BY <1>3, <1>4, <1>5, <1>6, <1>7, <1>8

\* A failed step writes a reason into the status, or nothing, and ends the pass.
LEMMA HandleType ==
  ASSUME TypeInv, NEW reason \in Reasons, Handle(reason)
  PROVE  /\ status' \in [ready: BOOLEAN, reason: Reasons, url: URLs \cup {Absent}]
         /\ pass' = NoPass /\ queued' = TRUE
BY DEF TypeInv, TypeOK, Handle, Publish

\* A client secret is written only where there is none.
LEMMA EnsureType ==
  ASSUME TypeOK, ensureSecret
  PROVE  /\ client' \in Clients \cup {Absent, Empty}
         /\ client \in Clients => client' = client
<1>1. CASE UNCHANGED client
  BY <1>1 DEF TypeOK
<1>2. CASE client \notin Clients /\ client' = generateRandomBytes
  <2>0. Clients # {}
    BY InputsAssumption
  <2>1. PICK c \in Clients : c # client
    BY <1>2, <2>0
  <2>2. (CHOOSE x \in Clients : x # client) \in Clients
    BY <2>1
  <2> QED
    BY <1>2, <2>2 DEF generateRandomBytes
<1> QED
  BY <1>1, <1>2 DEF ensureSecret

\* Between two passes there is nothing to hold.
LEMMA NoPassType ==
  /\ NoPass \in PassType
  /\ NoPass.at = "idle"
BY DEF NoPass, Steps

\* Every step of the controller, the informers, the cluster and the users keeps
\* the types.
LEMMA TypeStep == TypeInv /\ [Next]_vars => TypeInv'
<1> SUFFICES ASSUME TypeInv, [Next]_vars PROVE TypeInv'
  OBVIOUS
<1>s. /\ openShift' = openShift /\ DexMapNames' = DexMapNames /\ URLs' = URLs
      /\ Fronts' = Fronts /\ Templates' = Templates /\ Resolved' = Resolved
  BY PlatformStable, NamesStable
<1>b. MaxEvents \in Nat
  BY BoundNat
<1>n. ASSUME Budget PROVE /\ edits + 1 + meddles + faults <= MaxEvents
                          /\ edits + (meddles + 1) + faults <= MaxEvents
                          /\ edits + meddles + (faults + 1) <= MaxEvents
  BY <1>n, <1>b DEF Budget, TypeInv, TypeOK
<1> USE <1>s, NoPassType DEF TypeInv, TypeOK, PassOK, At
<1>1. CASE Begin
  <2>1. ui \in Resolved
    BY <1>1 DEF Begin, Resolved
  <2>2. pass' = [at |-> "configmap", ui |-> ui, segment |-> Absent, tracked |-> {}]
    BY <1>1 DEF Begin, NoPass
  <2>3. queued' \in BOOLEAN /\ UNCHANGED <<inputs, objects, caches, status, meddles, faults>>
    BY <1>1 DEF Begin
  <2>4. pass' \in PassType
    BY <2>2 DEF Steps
  <2>5. PassOK'
    <3>1. pass'.ui = ui /\ pass'.at = "configmap"
      BY <2>2
    <3> QED
      BY <2>1, <3>1
  <2>6. TypeOK'
    <3> HIDE DEF PassOK
    <3> QED
      BY <2>3, <2>4
  <2> QED
    BY <2>5, <2>6
<1>2. CASE EndpointRefused
  <2>1. status' \in [ready: BOOLEAN, reason: Reasons, url: URLs \cup {Absent}]
    BY <1>2 DEF EndpointRefused, Reasons, InvalidFQDN
  <2>2. UNCHANGED <<inputs, objects, caches, queued, pass, meddles, faults>>
    BY <1>2 DEF EndpointRefused
  <2> QED
    BY <2>1, <2>2
<1>3. CASE reconcileDexConfigMap
  <2>1. DexMapName(pass.ui) \in DexMapNames
    BY <1>3 DEF reconcileDexConfigMap, DexMapNames, Resolved
  <2>2. pass' \in PassType
        /\ pass'.ui = pass.ui /\ pass'.at = "segment"
    BY <1>3 DEF reconcileDexConfigMap, Goto, Steps
  <2>3. news' \subseteq {"maps", "secrets"}
    BY <1>3 DEF reconcileDexConfigMap, Watched
  <2>4. dexMaps' \subseteq DexMapNames
    BY <1>3, <2>1 DEF reconcileDexConfigMap
  <2>5. faults' \in Nat /\ edits' + meddles' + faults' <= MaxEvents
    BY <1>3, <1>n DEF reconcileDexConfigMap
  <2> QED
    BY <1>3, <2>2, <2>3, <2>4, <2>5 DEF reconcileDexConfigMap
<1>4. CASE reconcileSegmentSecret
  <2>1. SegmentName(WriteKey) \in SegmentNames \cup {ManifestSegment}
    BY <1>4, WriteKeyType DEF reconcileSegmentSecret, SegmentNames, SegmentName
  <2>2. WriteKey # "" => SegmentName(WriteKey) \in SegmentNames
    BY <1>4, WriteKeyType DEF reconcileSegmentSecret, SegmentNames
  <2>3. pass' \in PassType
        /\ pass'.ui = pass.ui /\ pass'.at = "apply" /\ pass'.segment = SegmentName(WriteKey)
    <3> DEFINE t == IF WriteKey = "" THEN {} ELSE {SegmentName(WriteKey)}
    <3>1. pass' = [pass EXCEPT !.at = "apply", !.segment = SegmentName(WriteKey), !.tracked = t]
      BY <1>4 DEF reconcileSegmentSecret
    <3>2. t \in SUBSET Trackable
      BY <2>2 DEF Trackable
    <3>3. pass \in PassType
      OBVIOUS
    <3> HIDE DEF TypeInv, TypeOK, t
    <3> QED
      BY <2>1, <3>1, <3>2, <3>3 DEF PassType, Steps
  <2>4. news' \subseteq {"maps", "secrets"}
    BY <1>4 DEF reconcileSegmentSecret, Watched
  <2>5. segments' \subseteq SegmentNames
    <3>1. segments' = IF WriteKey = "" THEN segments ELSE segments \cup {SegmentName(WriteKey)}
      BY <1>4 DEF reconcileSegmentSecret
    <3>2. segments \subseteq SegmentNames
      OBVIOUS
    <3> HIDE DEF TypeInv, TypeOK
    <3> QED
      BY <2>2, <3>1, <3>2
  <2>6. UNCHANGED <<inputs, dexMaps, client, front, dex, proxy, roll, ingress, link,
                    mapCache, clientCache, status, queued, meddles, faults>>
        /\ At("segment")
    BY <1>4 DEF reconcileSegmentSecret
  <2> QED
    BY <2>1, <2>3, <2>4, <2>5, <2>6
<1>5. CASE SegmentUnresolved
  <2>1. UNCHANGED <<inputs, objects, caches, meddles, faults>> /\ Handle("SecretCreationFailed")
    BY <1>5 DEF SegmentUnresolved
  <2>2. "SecretCreationFailed" \in Reasons
    BY DEF Reasons
  <2>3. /\ status' \in [ready: BOOLEAN, reason: Reasons, url: URLs \cup {Absent}]
        /\ pass' = NoPass /\ queued' = TRUE
    BY <2>1, <2>2, HandleType
  <2> QED
    BY <2>1, <2>3
<1>6. CASE applyManifests
  <2>1. pass' \in PassType
        /\ pass'.ui = pass.ui /\ pass'.segment = pass.segment
    BY <1>6 DEF applyManifests, Steps, IngressTracked, Trackable
  <2>2. queued' \in BOOLEAN
    BY <1>6 DEF applyManifests
  <2> HIDE DEF PassOK
  <2>3. PassOK'
    BY <1>6, <2>1 DEF applyManifests, PassOK
  <2> QED
    BY <1>6, <2>1, <2>2, <2>3, ApplyType DEF applyManifests
<1>7. CASE ProxyRefused
  <2>1. /\ UNCHANGED <<inputs, dexMaps, segments, client, caches, meddles, faults>>
        /\ Handle("ApplyFailed") /\ Apply(2) /\ At("apply")
    BY <1>7 DEF ProxyRefused
  <2>2. "ApplyFailed" \in Reasons
    BY DEF Reasons
  <2>3. /\ status' \in [ready: BOOLEAN, reason: Reasons, url: URLs \cup {Absent}]
        /\ pass' = NoPass /\ queued' = TRUE
    BY <2>1, <2>2, HandleType
  <2>4. 2 \in 0..5 /\ ~(2 >= 3)
    OBVIOUS
  <2> HIDE DEF TypeInv
  <2>5. /\ front' \in Fronts \cup {Absent}
        /\ dex' \in DexMapNames \cup {Absent}
        /\ proxy' \in Templates \cup {Absent}
        /\ ingress' \in {u.host : u \in URLs} \cup {Absent}
        /\ link' \in URLs \cup {Absent}
        /\ roll' \in [Deployments -> {"absent", "ready", "late", "rolling"}]
    BY <2>1, <2>4, ApplyType
  <2> QED
    BY <2>1, <2>3, <2>5 DEF TypeInv
<1>8. ASSUME NEW n \in 0..4, ApplyFails(n) PROVE TypeInv'
  <2>1. (IF n < 3 THEN "ApplyFailed" ELSE "IngressReconcileFailed") \in Reasons
    BY DEF Reasons
  <2>2. n \in 0..5
    OBVIOUS
  <2>3. /\ UNCHANGED <<inputs, dexMaps, segments, client, caches, meddles>> /\ Budget
        /\ faults' = faults + 1 /\ Apply(n) /\ At("apply") /\ (n >= 3 => Buildable)
        /\ Handle(IF n < 3 THEN "ApplyFailed" ELSE "IngressReconcileFailed")
    BY <1>8 DEF ApplyFails
  <2>4. /\ status' \in [ready: BOOLEAN, reason: Reasons, url: URLs \cup {Absent}]
        /\ pass' = NoPass /\ queued' = TRUE
    BY <2>1, <2>3, HandleType
  <2> HIDE DEF TypeInv
  <2>5. /\ front' \in Fronts \cup {Absent}
        /\ dex' \in DexMapNames \cup {Absent}
        /\ proxy' \in Templates \cup {Absent}
        /\ ingress' \in {u.host : u \in URLs} \cup {Absent}
        /\ link' \in URLs \cup {Absent}
        /\ roll' \in [Deployments -> {"absent", "ready", "late", "rolling"}]
    BY <2>2, <2>3, ApplyType
  <2> QED
    BY <1>n, <2>3, <2>4, <2>5 DEF TypeInv
<1>9. CASE ensureUISecrets
  <2>1. news' \subseteq {"maps", "secrets"}
    BY <1>9 DEF ensureUISecrets, Watched
  <2>2. UNCHANGED <<inputs, dexMaps, segments, front, dex, proxy, roll, ingress, link,
                    mapCache, clientCache, meddles, faults>>
    BY <1>9 DEF ensureUISecrets
  <2>3. client' \in Clients \cup {Absent, Empty}
    BY <1>9, EnsureType DEF ensureUISecrets
  <2>4. CASE /\ pass' = [pass EXCEPT !.at = "orphans", !.tracked = @ \cup {ClientSecret}]
             /\ UNCHANGED <<queued, status>>
    <3>1. pass' \in PassType /\ pass'.ui = pass.ui /\ pass'.segment = pass.segment
      BY <2>4 DEF Steps, Trackable
    <3>2. At("secrets")
      BY <1>9 DEF ensureUISecrets
    <3> QED
      BY <2>1, <2>2, <2>3, <2>4, <3>1, <3>2
  <2>5. CASE Handle("SecretCreationFailed")
    <3>1. "SecretCreationFailed" \in Reasons
      BY DEF Reasons
    <3>2. /\ status' \in [ready: BOOLEAN, reason: Reasons, url: URLs \cup {Absent}]
          /\ pass' = NoPass /\ queued' = TRUE
      BY <2>5, <3>1, HandleType
    <3> QED
      BY <2>1, <2>2, <2>3, <3>2
  <2> QED
    BY <1>9, <2>4, <2>5 DEF ensureUISecrets
<1>9c. CASE CookieFails
  <2>1. news' \subseteq {"maps", "secrets"}
    BY <1>9c DEF CookieFails, Watched
  <2>2. /\ UNCHANGED <<inputs, dexMaps, segments, front, dex, proxy, roll, ingress, link,
                       mapCache, clientCache, meddles>>
        /\ Budget /\ faults' = faults + 1 /\ Handle("SecretCreationFailed") /\ ensureSecret
    BY <1>9c DEF CookieFails
  <2>3. client' \in Clients \cup {Absent, Empty}
    BY <2>2, EnsureType
  <2>4. "SecretCreationFailed" \in Reasons
    BY DEF Reasons
  <2>5. /\ status' \in [ready: BOOLEAN, reason: Reasons, url: URLs \cup {Absent}]
        /\ pass' = NoPass /\ queued' = TRUE
    BY <2>2, <2>4, HandleType
  <2> QED
    BY <1>n, <2>1, <2>2, <2>3, <2>5
<1>10. CASE CleanupOrphans
  <2>1. news' \subseteq {"maps", "secrets"}
    BY <1>10 DEF CleanupOrphans, Watched
  <2>2. pass' \in PassType /\ pass'.ui = pass.ui /\ pass'.segment = pass.segment
    BY <1>10 DEF CleanupOrphans, Goto, Steps
  <2>3. /\ At("orphans") /\ segments' \subseteq segments /\ queued' \in BOOLEAN
        /\ client' \in {client, Absent}
        /\ ingress' \in {ingress, Absent} /\ link' \in {link, Absent}
    BY <1>10 DEF CleanupOrphans, Delete
  <2>4. UNCHANGED <<inputs, dexMaps, front, dex, proxy, roll, mapCache, clientCache,
                    status, meddles, faults>>
    BY <1>10 DEF CleanupOrphans
  <2> QED
    BY <2>1, <2>2, <2>3, <2>4
<1>10f. CASE CleanupFails
  <2>1. news' \subseteq {"maps", "secrets"}
    BY <1>10f DEF CleanupFails, Watched
  <2>2. /\ segments' \subseteq segments /\ client' \in {client, Absent}
        /\ ingress' \in {ingress, Absent} /\ link' \in {link, Absent}
    BY <1>10f DEF CleanupFails, Delete
  <2>3. /\ UNCHANGED <<inputs, dexMaps, front, dex, proxy, roll, mapCache, clientCache, meddles>>
        /\ Budget /\ faults' = faults + 1 /\ Handle("CleanupFailed")
    BY <1>10f DEF CleanupFails
  <2>4. "CleanupFailed" \in Reasons
    BY DEF Reasons
  <2>5. /\ status' \in [ready: BOOLEAN, reason: Reasons, url: URLs \cup {Absent}]
        /\ pass' = NoPass /\ queued' = TRUE
    BY <2>3, <2>4, HandleType
  <2> QED
    BY <1>n, <2>1, <2>2, <2>3, <2>5
<1>11. CASE UpdateStatus
  <2>1. DetermineEndpointURL(pass.ui) \in URLs
    <3>1. pass.ui \in Resolved
      BY <1>11 DEF UpdateStatus
    <3> HIDE DEF TypeInv, TypeOK, PassOK
    <3> QED
      BY <3>1 DEF Resolved, URLs
  <2>2. status' \in [ready: BOOLEAN, reason: Reasons, url: URLs \cup {Absent}]
    BY <1>11, <2>1 DEF UpdateStatus, Publish, Reasons
  <2>3. queued' \in BOOLEAN
    BY <1>11 DEF UpdateStatus
  <2>4. UNCHANGED <<inputs, objects, caches, meddles, faults>> /\ pass' = NoPass
    BY <1>11 DEF UpdateStatus
  <2> QED
    BY <2>2, <2>3, <2>4
<1>12. CASE StepFails
  <2>1. CASE At("status")
    BY <1>12, <1>n, <2>1 DEF StepFails
  <2>2. CASE ~At("status")
    <3>1. pass.at \in {"configmap", "segment", "secrets"}
      BY <1>12, <2>2 DEF StepFails, ReasonOf
    <3>2. ReasonOf[pass.at] \in Reasons
      <4>1. /\ ReasonOf["configmap"] = "ConfigMapFailed"
            /\ ReasonOf["segment"] = "SecretCreationFailed"
            /\ ReasonOf["secrets"] = "SecretCreationFailed"
        BY DEF ReasonOf
      <4> QED
        BY <3>1, <4>1 DEF Reasons
    <3>3. UNCHANGED <<inputs, objects, caches, meddles>> /\ Budget /\ faults' = faults + 1
          /\ Handle(ReasonOf[pass.at])
      BY <1>12, <2>2 DEF StepFails
    <3>4. /\ status' \in [ready: BOOLEAN, reason: Reasons, url: URLs \cup {Absent}]
          /\ pass' = NoPass /\ queued' = TRUE
      BY <3>2, <3>3, HandleType
    <3> QED
      BY <1>n, <3>3, <3>4
  <2> QED
    BY <2>1, <2>2
<1>13. ASSUME NEW reason \in {"NamespaceCreationFailed", "EndpointDeterminationFailed"},
              BeginFails(reason)
       PROVE TypeInv'
  <2>1. status' \in [ready: BOOLEAN, reason: Reasons, url: URLs \cup {Absent}]
    BY <1>13 DEF BeginFails, Reasons
  <2>2. UNCHANGED <<inputs, objects, caches, queued, pass, meddles>> /\ Budget
        /\ faults' = faults + 1
    BY <1>13 DEF BeginFails
  <2> QED
    BY <1>n, <2>1, <2>2
<1>14. CASE Restart
  BY <1>14, <1>n DEF Restart
<1>15. ASSUME NEW d \in Deployments, Rollout(d) PROVE TypeInv'
  <2>1. roll' \in [Deployments -> {"absent", "ready", "late", "rolling"}] /\ queued' = TRUE
    BY <1>15 DEF Rollout, ObserveTemplate, PodsReady
  <2>2. UNCHANGED <<inputs, dexMaps, segments, client, front, dex, proxy, ingress, link,
                    caches, status, pass, meddles, faults>>
    BY <1>15 DEF Rollout, ObserveTemplate, PodsReady
  <2> QED
    BY <2>1, <2>2
<1>16. CASE SyncConfigMaps \/ SyncSecrets
  <2>1. CASE SyncConfigMaps
    BY <2>1 DEF SyncConfigMaps
  <2>2. CASE SyncSecrets
    BY <2>2 DEF SyncSecrets
  <2> QED
    BY <1>16, <2>1, <2>2
<1>17. ASSUME NEW s \in Specs, EditUI(s) PROVE TypeInv'
  BY <1>17, <1>n DEF EditUI
<1>18. ASSUME NEW b \in Bridges \cup {Absent}, EditBridge(b) PROVE TypeInv'
  BY <1>18, <1>n DEF EditBridge
<1>19. ASSUME NEW k \in Keys \cup {Absent, NoKey}, RotateKey(k) PROVE TypeInv'
  BY <1>19, <1>n DEF RotateKey
<1>20. CASE Meddle
  <2>1. news' \subseteq {"maps", "secrets"}
    BY <1>20 DEF Meddle, Watched
  <2> QED
    BY <1>20, <1>n, <2>1 DEF Meddle
<1>21. CASE UNCHANGED vars
  BY <1>21 DEF vars
<1> QED
  BY <1>1, <1>2, <1>3, <1>4, <1>5, <1>6, <1>7, <1>8, <1>9, <1>9c, <1>10, <1>10f, <1>11, <1>12, <1>13,
     <1>14, <1>15, <1>16, <1>17, <1>18, <1>19, <1>20, <1>21 DEF Next, Reconcile

\* Every state that the rollout reaches has the types of the model: names,
\* addresses and templates are built from specs and keys that the API server
\* accepted, and a pass that works with one holds one.
THEOREM TypeCorrect == Spec => []TypeOK
<1>1. TypeInv => TypeOK
  BY DEF TypeInv
<1> QED
  BY <1>1, TypeInit, TypeStep, PTL DEF Spec

(***************************************************************************)
(* What a pass tracks                                                      *)
(***************************************************************************)

\* The cleanup finds tracked what its pass has applied: the Secret that the
\* proxy is to mount, the client secret, and the ConsoleLink exactly when the
\* spec asks for one.
TrackedInv ==
  /\ pass.at \in {"apply", "secrets", "orphans", "status"} /\ pass.segment # ManifestSegment
       => pass.segment \in pass.tracked
  /\ pass.at = "apply" => LinkName \notin pass.tracked
  /\ pass.at \in {"secrets", "orphans"}
       => (LinkName \in pass.tracked <=> IngressEnabled(pass.ui) /\ openShift)
  /\ pass.at = "orphans" => ClientSecret \in pass.tracked

\* The names of the other kinds are none of hashed Secrets, nor of each other.
LEMMA OtherNames ==
  /\ \A key : LinkName # HashedName("segment-bridge-config", key)
  /\ LinkName # ClientSecret /\ LinkName # IngressName
<1>1. /\ LinkName[1] = "ConsoleLink" /\ ClientSecret[1] = "oauth2-proxy-client-secret"
      /\ IngressName[1] = "Ingress"
  BY DEF LinkName, ClientSecret, IngressName
<1>2. \A key : HashedName("segment-bridge-config", key)[1] = "segment-bridge-config"
  BY DEF HashedName
<1> QED
  BY <1>1, <1>2

\* Nothing is tracked before a pass begins.
LEMMA TrackedInit == Init => TrackedInv
BY NoPassType DEF Init, TrackedInv

\* A pass tracks what it applies, and forgets nothing of it.
LEMMA TrackedStep == TypeInv /\ TrackedInv /\ [Next]_vars => TrackedInv'
<1> SUFFICES ASSUME TypeInv, TrackedInv, [Next]_vars PROVE TrackedInv'
  OBVIOUS
<1>p. openShift' = openShift
  BY PlatformStable
<1>t. pass \in PassType
  BY DEF TypeInv, TypeOK
<1>e. \A s : IngressEnabled(s)' = IngressEnabled(s)
  BY <1>p, EndpointStable
<1>1. ASSUME pass'.at \in {"idle", "configmap", "segment"} PROVE TrackedInv'
  BY <1>1 DEF TrackedInv
<1>2. ASSUME UNCHANGED pass PROVE TrackedInv'
  <2>1. PICK s : s = pass.ui
    OBVIOUS
  <2>2. pass'.ui = s /\ pass' = pass
    BY <1>2, <2>1
  <2> QED
    BY <1>p, <1>e, <2>1, <2>2 DEF TrackedInv
<1>3. CASE reconcileSegmentSecret
  <2>1. /\ pass'.at = "apply" /\ pass'.segment = SegmentName(WriteKey)
        /\ pass'.tracked = IF WriteKey = "" THEN {} ELSE {SegmentName(WriteKey)}
    BY <1>t, <1>3 DEF reconcileSegmentSecret
  <2>2. /\ WriteKey = "" => SegmentName(WriteKey) = ManifestSegment
        /\ WriteKey # "" => LinkName # SegmentName(WriteKey)
    BY OtherNames DEF SegmentName
  <2> QED
    BY <2>1, <2>2 DEF TrackedInv
<1>4. CASE applyManifests
  <2>1. PICK s : s = pass.ui
    OBVIOUS
  <2>2. /\ pass.at = "apply" /\ pass'.at = "secrets" /\ pass'.segment = pass.segment
        /\ pass'.ui = s /\ pass'.tracked = pass.tracked \cup IngressTracked(s)
    BY <1>t, <1>4, <2>1 DEF applyManifests, At
  <2>3. LinkName \in IngressTracked(s) <=> IngressEnabled(s) /\ openShift
    BY DEF IngressTracked
  <2> QED
    BY <1>p, <1>e, <2>2, <2>3 DEF TrackedInv
<1>5. CASE ensureUISecrets
  <2>1. CASE pass' = [pass EXCEPT !.at = "orphans", !.tracked = @ \cup {ClientSecret}]
    <3>1. PICK s : s = pass.ui
      OBVIOUS
    <3>2. /\ pass.at = "secrets" /\ pass'.at = "orphans" /\ pass'.segment = pass.segment
          /\ pass'.ui = s /\ pass'.tracked = pass.tracked \cup {ClientSecret}
      BY <1>t, <1>5, <2>1, <3>1 DEF ensureUISecrets, At
    <3> QED
      BY <1>p, <1>e, <3>1, <3>2, OtherNames DEF TrackedInv
  <2>2. CASE Handle("SecretCreationFailed")
    BY <1>1, <2>2, NoPassType DEF Handle
  <2> QED
    BY <1>5, <2>1, <2>2 DEF ensureUISecrets
<1>6. CASE CleanupOrphans
  <2>1. /\ pass.at = "orphans" /\ pass'.at = "status" /\ pass'.segment = pass.segment
        /\ pass'.tracked = pass.tracked
    BY <1>t, <1>6 DEF CleanupOrphans, Goto, At
  <2> QED
    BY <2>1 DEF TrackedInv
<1>7. CASE Begin \/ reconcileDexConfigMap
  <2>1. pass'.at \in {"configmap", "segment"}
    BY <1>t, <1>7 DEF Begin, reconcileDexConfigMap, Goto, NoPass
  <2> QED
    BY <1>1, <2>1
<1>8. CASE SegmentUnresolved \/ ProxyRefused \/ UpdateStatus \/ StepFails \/ CookieFails
           \/ CleanupFails \/ Restart
  <2>1. pass' = NoPass
    BY <1>8 DEF SegmentUnresolved, ProxyRefused, UpdateStatus, StepFails, CookieFails,
                CleanupFails, Restart, Handle
  <2> QED
    BY <1>1, <2>1, NoPassType
<1>9. ASSUME NEW n \in 0..4, ApplyFails(n) PROVE TrackedInv'
  BY <1>1, <1>9, NoPassType DEF ApplyFails, Handle
<1>10. CASE EndpointRefused \/ SyncConfigMaps \/ SyncSecrets \/ Meddle \/ UNCHANGED vars
  BY <1>2, <1>10 DEF EndpointRefused, SyncConfigMaps, SyncSecrets, Meddle, vars
<1>11. ASSUME NEW d \in Deployments, Rollout(d) PROVE TrackedInv'
  BY <1>2, <1>11 DEF Rollout, ObserveTemplate, PodsReady
<1>12. ASSUME NEW x, EditUI(x) \/ EditBridge(x) \/ RotateKey(x) \/ BeginFails(x) PROVE TrackedInv'
  BY <1>2, <1>12 DEF EditUI, EditBridge, RotateKey, BeginFails
<1> QED
  BY <1>3, <1>4, <1>5, <1>6, <1>7, <1>8, <1>9, <1>10, <1>11, <1>12 DEF Next, Reconcile

(***************************************************************************)
(* The client secret                                                       *)
(***************************************************************************)

\* Nobody but a user replaces or removes a client secret that the API server
\* holds: the operator writes one only if its cached copy is missing or empty
\* and equals what the API server has, and tracks it before it looks for
\* orphans.
THEOREM ClientKept == Spec => ClientSecretKept
<1>1. ASSUME TypeInv, TrackedInv, [Next]_vars, meddles' = meddles, client \in Clients
      PROVE  client' = client
  <2>1. CASE ensureUISecrets \/ CookieFails
    <3>1. ensureSecret \/ UNCHANGED client
      BY <2>1 DEF ensureUISecrets, CookieFails
    <3> QED
      BY <1>1, <3>1, EnsureType DEF TypeInv
  <2>2. CASE Meddle
    BY <1>1, <2>2 DEF Meddle, TypeInv, TypeOK
  <2>3. CASE CleanupOrphans \/ CleanupFails
    <3>1. PICK gone \in SUBSET Orphans : Delete(gone) /\ pass.at = "orphans"
      BY <2>3 DEF CleanupOrphans, CleanupFails, At
    <3>2. ClientSecret \notin gone
      BY <1>1, <3>1 DEF TrackedInv, Orphans
    <3> QED
      BY <3>1, <3>2 DEF Delete
  <2>4. CASE ~ensureUISecrets /\ ~CookieFails /\ ~Meddle /\ ~CleanupOrphans /\ ~CleanupFails
    BY <1>1, <2>4
       DEF Next, vars, Reconcile, Begin, EndpointRefused, reconcileDexConfigMap,
           reconcileSegmentSecret, SegmentUnresolved, applyManifests, ProxyRefused,
           UpdateStatus, StepFails, ApplyFails, Restart, BeginFails, Rollout, ObserveTemplate, PodsReady,
           SyncConfigMaps, SyncSecrets, EditUI, EditBridge, RotateKey
  <2> QED
    BY <2>1, <2>2, <2>3, <2>4
<1> QED
  BY <1>1, TypeInit, TypeStep, TrackedInit, TrackedStep, PTL DEF Spec, ClientSecretKept

(***************************************************************************)
(* The Secret that the proxy mounts                                        *)
(***************************************************************************)

\* Unless a user has deleted some object: the Secrets that the Deployment
\* mounts and that the pass is about to mount exist, and when orphans are
\* removed the two are the same.
SegmentInv ==
  meddles = 0 =>
    /\ proxy # Absent /\ proxy.segment # ManifestSegment => proxy.segment \in segments
    /\ pass.at \in {"apply", "secrets", "orphans", "status"} /\ pass.segment # ManifestSegment
         => pass.segment \in segments
    /\ pass.at \in {"secrets", "orphans"} => proxy # Absent /\ proxy.segment = pass.segment

\* What the first n writes do to the proxy's Deployment.
LEMMA ApplyProxy ==
  ASSUME NEW n \in 0..5, n >= 3 => Buildable, Apply(n)
  PROVE  /\ n >= 3 => proxy' # Absent /\ proxy'.segment = pass.segment
                      /\ proxy'.oauth2 = buildOAuth2ProxyOptions(pass.ui)
         /\ n < 3 => proxy' = proxy
BY DEF Apply, Buildable, buildProxyOverlay

\* The Secret is written before the Deployment refers to it and survives the
\* cleanup of the pass that wrote it.
LEMMA SegmentStep == TypeInv /\ TrackedInv /\ SegmentInv /\ [Next]_vars => SegmentInv'
<1> SUFFICES ASSUME TypeInv, TrackedInv, SegmentInv, [Next]_vars, meddles' = 0 PROVE SegmentInv'
  BY DEF SegmentInv
<1>0. meddles = 0 \/ Meddle
  BY DEF Next, vars, Reconcile, Begin, EndpointRefused, reconcileDexConfigMap,
         reconcileSegmentSecret, SegmentUnresolved, applyManifests, ProxyRefused, CleanupOrphans,
         ensureUISecrets, CookieFails, CleanupFails, UpdateStatus, StepFails, ApplyFails, Restart, BeginFails,
         Rollout, ObserveTemplate, PodsReady, SyncConfigMaps, SyncSecrets, EditUI, EditBridge, RotateKey
<1>m. ~Meddle
  BY DEF Meddle, TypeInv, TypeOK
<1>t. /\ pass \in PassType
      /\ NoPass.at = "idle"
  BY NoPassType DEF TypeInv, TypeOK
<1> USE <1>0, <1>m, <1>t DEF SegmentInv, At
<1>1. ASSUME UNCHANGED <<segments, proxy>>,
             pass' = NoPass \/ pass'.at \in {"configmap", "segment"} \/ UNCHANGED pass
      PROVE  SegmentInv'
  BY <1>1
<1>2. CASE Begin \/ EndpointRefused \/ SegmentUnresolved \/ UpdateStatus \/ StepFails \/ Restart
           \/ SyncConfigMaps \/ SyncSecrets \/ reconcileDexConfigMap
  BY <1>1, <1>2 DEF Begin, EndpointRefused, SegmentUnresolved, UpdateStatus, StepFails, Restart,
     SyncConfigMaps, SyncSecrets, reconcileDexConfigMap, Handle, Goto, NoPass
<1>3. CASE reconcileSegmentSecret
  <2>1. pass'.at = "apply" /\ pass'.segment = SegmentName(WriteKey)
    BY <1>3 DEF reconcileSegmentSecret
  <2>2. pass'.segment # ManifestSegment => pass'.segment \in segments'
    BY <1>3, <2>1 DEF reconcileSegmentSecret, SegmentName
  <2>3. segments \subseteq segments' /\ UNCHANGED proxy
    BY <1>3 DEF reconcileSegmentSecret
  <2> QED
    BY <2>1, <2>2, <2>3
<1>4. CASE applyManifests
  <2>1. /\ Apply(5) /\ Buildable /\ UNCHANGED segments
        /\ pass'.segment = pass.segment /\ pass'.at = "secrets" /\ pass.at = "apply"
    BY <1>4 DEF applyManifests
  <2>2. proxy' # Absent /\ proxy'.segment = pass.segment
    BY <2>1, ApplyProxy
  <2> QED
    BY <2>1, <2>2
<1>5. ASSUME NEW n \in 0..4, ApplyFails(n) PROVE SegmentInv'
  <2>1. Apply(n) /\ (n >= 3 => Buildable) /\ UNCHANGED segments /\ pass' = NoPass /\ pass.at = "apply"
    BY <1>5 DEF ApplyFails, Handle
  <2>2. n >= 3 => proxy' # Absent /\ proxy'.segment = pass.segment
    BY <2>1, ApplyProxy
  <2>3. n < 3 => proxy' = proxy
    BY <2>1, ApplyProxy
  <2> QED
    BY <2>1, <2>2, <2>3
<1>6. CASE ProxyRefused
  <2>1. proxy' = proxy /\ UNCHANGED segments /\ pass' = NoPass
    BY <1>6 DEF ProxyRefused, Handle, Apply
  <2> QED
    BY <2>1, <1>1
<1>7. CASE ensureUISecrets
  <2>1. UNCHANGED <<segments, proxy>> /\ pass.at = "secrets"
    BY <1>7 DEF ensureUISecrets
  <2>2. pass' = NoPass \/ (pass'.at = "orphans" /\ pass'.segment = pass.segment)
    BY <1>7 DEF ensureUISecrets, Handle
  <2> QED
    BY <2>1, <2>2
<1>7c. CASE CookieFails
  BY <1>1, <1>7c DEF CookieFails, Handle
<1>8. CASE CleanupOrphans
  <2>1. /\ segments' = segments \ Orphans /\ UNCHANGED proxy
        /\ pass.at = "orphans" /\ pass'.at = "status" /\ pass'.segment = pass.segment
    BY <1>8 DEF CleanupOrphans, Goto, Delete
  <2>2. pass.segment # ManifestSegment => pass.segment \notin Orphans
    BY <2>1 DEF Orphans, TrackedInv
  <2> QED
    BY <2>1, <2>2
<1>8f. CASE CleanupFails
  <2>1. PICK gone \in SUBSET Orphans : Delete(gone)
    BY <1>8f DEF CleanupFails
  <2>2. segments' = segments \ gone /\ UNCHANGED proxy /\ pass.at = "orphans" /\ pass' = NoPass
    BY <1>8f, <2>1 DEF CleanupFails, Delete, Handle
  <2>3. pass.segment # ManifestSegment => pass.segment \notin gone
    BY <2>2 DEF Orphans, TrackedInv
  <2> QED
    BY <2>2, <2>3
<1>9. CASE UNCHANGED vars
  BY <1>1, <1>9 DEF vars
<1>10. ASSUME NEW d \in Deployments, Rollout(d) PROVE SegmentInv'
  BY <1>1, <1>10 DEF Rollout, ObserveTemplate, PodsReady
<1>11. ASSUME NEW x, EditUI(x) \/ EditBridge(x) \/ RotateKey(x) \/ BeginFails(x) PROVE SegmentInv'
  BY <1>1, <1>11 DEF EditUI, EditBridge, RotateKey, BeginFails
<1> QED
  BY <1>2, <1>3, <1>4, <1>5, <1>6, <1>7, <1>7c, <1>8, <1>8f, <1>9, <1>10,
     <1>11 DEF Next, Reconcile

\* In every state the Secret that the proxy Deployment mounts exists, unless a
\* user has deleted objects of the operator: it is written first, and the
\* cleanup that follows spares what the pass has tracked.
THEOREM MountedSafe == Spec => []MountedSegmentExists
<1>1. Init => SegmentInv
  <2>1. Init => proxy = Absent /\ pass.at = "idle"
    BY NoPassType DEF Init
  <2> QED
    BY <2>1 DEF SegmentInv
<1>2. SegmentInv => MountedSegmentExists
  BY DEF SegmentInv, MountedSegmentExists
<1> QED
  BY <1>1, <1>2, TypeInit, TypeStep, TrackedInit, TrackedStep, SegmentStep, PTL DEF Spec

(***************************************************************************)
(* The parts of the login agree                                            *)
(***************************************************************************)

\* The two Deployments, the account and the ConsoleLink are what a spec asks for.
Configured(s) ==
  /\ dex = buildDexOverlay(s)
  /\ proxy.oauth2 = buildOAuth2ProxyOptions(s)
  /\ front.account = applyUIServiceAccountCustomizations(s)
  /\ IngressEnabled(s) /\ openShift => link = DetermineEndpointURL(s)

LinkRight(s) == link # Absent => link = DetermineEndpointURL(s)

\* A pass that works with a spec that is no longer the current one has a
\* successor in the queue; what a pass has applied is what its spec asks for,
\* and with nothing queued that is the current one.
LoginInv ==
  /\ pass.at # "idle" /\ pass.ui # ui => queued
  /\ pass.at \in {"secrets", "orphans", "status"} => Configured(pass.ui)
  /\ pass.at = "status" => LinkRight(pass.ui)
  /\ pass.at = "idle" /\ ~queued => Configured(ui) /\ LinkRight(ui)

\* What is configured stays so as long as nothing is applied.
LEMMA ConfiguredStable ==
  ASSUME UNCHANGED <<openShift, dex, proxy, front, link>>, NEW s
  PROVE  /\ Configured(s) => Configured(s)'
         /\ LinkRight(s) => LinkRight(s)'
BY EndpointStable, BuildersStable DEF Configured, LinkRight

\* Passes are queued again as long as what they applied is out of date.
LEMMA LoginStep == TypeInv /\ TrackedInv /\ LoginInv /\ [Next]_vars => LoginInv'
<1> SUFFICES ASSUME TypeInv, TrackedInv, LoginInv, [Next]_vars PROVE LoginInv'
  OBVIOUS
<1>p. openShift' = openShift
  BY PlatformStable
<1>t. /\ pass \in PassType
      /\ NoPass.at = "idle" /\ queued \in BOOLEAN
  BY NoPassType DEF TypeInv, TypeOK
<1>q. ASSUME pass'.at = "idle", queued' PROVE LoginInv'
  BY <1>q DEF LoginInv
<1>1. ASSUME UNCHANGED <<dex, proxy, front, link>>,
             pass'.at \in {"configmap", "segment", "apply"},
             pass'.ui # ui' => queued'
      PROVE  LoginInv'
  BY <1>1 DEF LoginInv
<1>2. ASSUME UNCHANGED <<dex, proxy, front, link, pass>>,
             queued => queued', UNCHANGED ui \/ queued'
      PROVE  LoginInv'
  <2>1. PICK s, u : s = pass.ui /\ u = ui
    OBVIOUS
  <2>2. pass'.ui = s /\ (ui' # u => queued')
    BY <1>2, <2>1
  <2>3. /\ Configured(s) => Configured(s)'
        /\ Configured(u) => Configured(u)'
        /\ LinkRight(s) => LinkRight(s)'
        /\ LinkRight(u) => LinkRight(u)'
    BY <1>2, <1>p, ConfiguredStable
  <2> QED
    BY <1>2, <1>t, <2>1, <2>2, <2>3 DEF LoginInv

<1>3. CASE Begin
  <2>1. pass'.at = "configmap" /\ pass'.ui = ui
    BY <1>3 DEF Begin, NoPass
  <2> QED
    BY <1>1, <1>3, <2>1 DEF Begin
<1>4. CASE reconcileDexConfigMap
  <2>1. pass'.at = "segment" /\ pass'.ui = pass.ui /\ pass.at # "idle"
    BY <1>t, <1>4 DEF reconcileDexConfigMap, Goto, At
  <2>2. UNCHANGED <<dex, proxy, front, link, ui, queued>>
    BY <1>4 DEF reconcileDexConfigMap
  <2> QED
    BY <1>1, <2>1, <2>2 DEF LoginInv
<1>5. CASE reconcileSegmentSecret
  <2>1. pass'.at = "apply" /\ pass'.ui = pass.ui /\ pass.at # "idle"
    BY <1>t, <1>5 DEF reconcileSegmentSecret, At
  <2>2. UNCHANGED <<dex, proxy, front, link, ui, queued>>
    BY <1>5 DEF reconcileSegmentSecret
  <2> QED
    BY <1>1, <2>1, <2>2 DEF LoginInv
<1>6. CASE applyManifests
  <2>1. PICK s : s = pass.ui
    OBVIOUS
  <2>2. /\ pass.at = "apply" /\ pass'.at = "secrets" /\ pass'.ui = s
        /\ Apply(5) /\ Buildable /\ UNCHANGED ui /\ (queued => queued')
    BY <1>t, <1>6, <2>1 DEF applyManifests, At
  <2>3. proxy'.oauth2 = buildOAuth2ProxyOptions(s)
    BY <2>1, <2>2, ApplyProxy
  <2>4. /\ dex' = buildDexOverlay(s)
        /\ front'.account = applyUIServiceAccountCustomizations(s)
        /\ IngressEnabled(s) /\ openShift => link' = DetermineEndpointURL(s)
    BY <2>1, <2>2 DEF Apply, reconcileIngress, consolelinkBuild
  <2>5. Configured(s)'
    BY <1>p, <2>3, <2>4, EndpointStable, BuildersStable DEF Configured
  <2> QED
    BY <2>1, <2>2, <2>5 DEF LoginInv
<1>7. CASE ensureUISecrets
  <2>1. CASE /\ pass' = [pass EXCEPT !.at = "orphans", !.tracked = @ \cup {ClientSecret}]
             /\ UNCHANGED queued
    <3>1. PICK s : s = pass.ui
      OBVIOUS
    <3>2. /\ pass.at = "secrets" /\ pass'.at = "orphans" /\ pass'.ui = s
          /\ UNCHANGED <<dex, proxy, front, link, ui, queued>>
      BY <1>t, <1>7, <2>1, <3>1 DEF ensureUISecrets, At
    <3>3. Configured(s)'
      BY <1>p, <3>1, <3>2, ConfiguredStable DEF LoginInv
    <3> QED
      BY <3>1, <3>2, <3>3 DEF LoginInv
  <2>2. CASE Handle("SecretCreationFailed")
    BY <1>q, <1>t, <2>2 DEF Handle
  <2> QED
    BY <1>7, <2>1, <2>2 DEF ensureUISecrets
<1>8. CASE CleanupOrphans
  <2>1. PICK s : s = pass.ui
    OBVIOUS
  <2>2. /\ pass.at = "orphans" /\ pass'.at = "status" /\ pass'.ui = s
        /\ UNCHANGED <<dex, proxy, front, ui>> /\ (queued => queued')
        /\ link' = IF LinkName \in Orphans THEN Absent ELSE link
    BY <1>t, <1>8, <2>1 DEF CleanupOrphans, Goto, At, Delete
  <2>l. /\ IngressEnabled(s) /\ openShift => link' = link
        /\ ~(IngressEnabled(s) /\ openShift) => link' = Absent
    <3>1. LinkName \in pass.tracked <=> IngressEnabled(s) /\ openShift
      BY <2>1, <2>2 DEF TrackedInv
    <3>2. link # Absent => LinkName \in Owned
      BY OtherNames DEF Owned
    <3> QED
      BY <2>2, <3>1, <3>2 DEF Orphans
  <2>3. Configured(s)
    BY <2>1, <2>2 DEF LoginInv
  <2>4. Configured(s)' /\ LinkRight(s)'
    BY <1>p, <2>2, <2>3, <2>l, EndpointStable, BuildersStable DEF Configured, LinkRight
  <2> QED
    BY <2>1, <2>2, <2>4 DEF LoginInv
<1>9. CASE UpdateStatus
  <2>1. PICK s : s = pass.ui
    OBVIOUS
  <2>2. /\ pass.at = "status" /\ pass' = NoPass /\ (queued \/ ui # s => queued')
        /\ UNCHANGED <<dex, proxy, front, link, ui>>
    BY <1>9, <2>1 DEF UpdateStatus, At
  <2>3. Configured(s)' /\ LinkRight(s)'
    BY <1>p, <2>1, <2>2, ConfiguredStable DEF LoginInv
  <2> QED
    BY <1>t, <2>2, <2>3 DEF LoginInv
<1>10. CASE SegmentUnresolved \/ ProxyRefused
  BY <1>q, <1>t, <1>10 DEF SegmentUnresolved, ProxyRefused, Handle
<1>11. CASE StepFails \/ Restart \/ CookieFails \/ CleanupFails
  BY <1>q, <1>t, <1>11 DEF StepFails, Restart, CookieFails, CleanupFails, Handle
<1>12. ASSUME NEW n \in 0..4, ApplyFails(n) PROVE LoginInv'
  BY <1>q, <1>t, <1>12 DEF ApplyFails, Handle
<1>13. CASE EndpointRefused \/ SyncConfigMaps \/ SyncSecrets \/ Meddle \/ UNCHANGED vars
  BY <1>2, <1>13 DEF EndpointRefused, SyncConfigMaps, SyncSecrets, Meddle, vars
<1>14. ASSUME NEW d \in Deployments, Rollout(d) PROVE LoginInv'
  BY <1>2, <1>14 DEF Rollout, ObserveTemplate, PodsReady
<1>15. ASSUME NEW x, EditUI(x) \/ EditBridge(x) \/ RotateKey(x) \/ BeginFails(x) PROVE LoginInv'
  BY <1>2, <1>15 DEF EditUI, EditBridge, RotateKey, BeginFails
<1> QED
  BY <1>3, <1>4, <1>5, <1>6, <1>7, <1>8, <1>9, <1>10, <1>11, <1>12, <1>13, <1>14, <1>15
     DEF Next, Reconcile

\* Whenever the controller is quiet, oauth2-proxy, dex, its OpenShift account
\* and the ConsoleLink agree on the issuer and on the callbacks, for every
\* valid spec without a host of its own for dex.
THEOREM LoginSafe == Spec => []LoginAgrees
<1>1. Init => LoginInv
  <2>1. Init => queued /\ pass.at = "idle"
    BY NoPassType DEF Init
  <2> QED
    BY <2>1 DEF LoginInv
<1>2. LoginInv => LoginAgrees
  <2> SUFFICES ASSUME LoginInv, Quiet, Good, ui.dexHost = ""
               PROVE  /\ proxy.oauth2.urls.issuer = dex[2].issuer
                      /\ proxy.oauth2.urls.redirectURL = dex[2].redirectURI
                      /\ isOpenShiftLoginEnabled(ui) => front.account = dex[2].callback
                      /\ link # Absent => link = dex[2].issuer.at
    BY DEF LoginAgrees
  <2>1. Configured(ui) /\ LinkRight(ui)
    BY DEF LoginInv, Quiet, At
  <2> DEFINE url == DetermineEndpointURL(ui)
  <2>2. /\ dex[2].issuer = JoinPath(url, "/idp/")
        /\ dex[2].redirectURI = JoinPath(url, "/oauth2/callback")
        /\ dex[2].callback = JoinPath(url, "/idp/callback")
    <3>1. dex[2] = NewDexConfig(ui)
      BY <2>1 DEF Configured, buildDexOverlay, DexMapName, HashedName
    <3>2. ResolveDexEndpoint(ui) = url
      BY DEF ResolveDexEndpoint
    <3>3. /\ NewDexConfig(ui).issuer = JoinPath(ResolveDexEndpoint(ui), "/idp/")
          /\ NewDexConfig(ui).redirectURI = JoinPath(ResolveDexEndpoint(ui), "/oauth2/callback")
          /\ NewDexConfig(ui).callback = JoinPath(ResolveDexEndpoint(ui), "/idp/callback")
      BY DEF NewDexConfig
    <3> QED
      BY <3>1, <3>2, <3>3
  <2>3. /\ proxy.oauth2.urls.issuer = JoinPath(url, "/idp/")
        /\ proxy.oauth2.urls.redirectURL = JoinPath(url, "/oauth2/callback")
    <3>1. proxy.oauth2 = buildOAuth2ProxyOptions(ui)
      BY <2>1 DEF Configured
    <3>2. buildOAuth2ProxyOptions(ui).urls = WithOIDCURLs(url)
      BY DEF buildOAuth2ProxyOptions
    <3>3. /\ WithOIDCURLs(url).issuer = JoinPath(url, "/idp/")
          /\ WithOIDCURLs(url).redirectURL = JoinPath(url, "/oauth2/callback")
      BY DEF WithOIDCURLs
    <3> QED
      BY <3>1, <3>2, <3>3
  <2>4. isOpenShiftLoginEnabled(ui) => front.account = JoinPath(url, "/idp/callback")
    BY <2>1 DEF Configured, applyUIServiceAccountCustomizations
  <2>5. link # Absent => link = JoinPath(url, "/idp/").at
    BY <2>1 DEF LinkRight, JoinPath
  <2> QED
    BY <2>2, <2>3, <2>4, <2>5
<1> QED
  BY <1>1, <1>2, TypeInit, TypeStep, TrackedInit, TrackedStep, LoginStep, PTL DEF Spec
=============================================================================

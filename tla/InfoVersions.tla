---------------------------- MODULE InfoVersions ----------------------------
(***************************************************************************)
(* The versions that konflux-public-info shows. The KonfluxInfo controller *)
(* asks the API server for the Kubernetes version, reads the OpenShift     *)
(* version from its cache and applies the ConfigMap. Nobody can watch the  *)
(* Kubernetes version: the VersionPoller asks for it now and then, keeps   *)
(* the last answer and, when it differs, sends an event through a channel  *)
(* of one slot without waiting for room.                                   *)
(***************************************************************************)
EXTENDS Naturals, Sequences

CONSTANTS
  None,          \* the empty string, and no object
  MaxUpgrades,   \* bound on upgrades of Kubernetes and OpenShift together
  MaxMeddles,    \* bound on deletions of the ConfigMap by users
  MaxFaults      \* bound on failed calls and crashes

ASSUME InfoAssumption ==
  /\ {MaxUpgrades, MaxMeddles, MaxFaults} \subseteq Nat
  /\ None \notin Nat

VARIABLES
  openShift,         \* the platform, detected when the process starts
  version,           \* the Kubernetes version
  history, cHistory, \* ClusterVersion.status.history, newest first, and its cached copy
  exists, known,     \* the KonfluxInfo CR exists; the cache has it
  crNews, cmNews,    \* events about the CR and the ConfigMap on their way
  ready,             \* the Ready condition of the CR
  cm,                \* info.json, as the API server stores it
  queued,            \* the request is in the work queue
  rpc, run, stale,   \* the reconcile: phase, versions it has read, its copy of the CR is outdated
  ppc, lastVersion,  \* the poller: phase and lastVersion
  channel,           \* upgradeEvents holds an event
  seen, missed, blind,  \* history: see VersionsPublished
  meddles, faults    \* how much of each bound is used up

cluster == <<openShift, version, history, exists>>
objects == <<known, crNews, cmNews, ready, cm>>
local   == <<rpc, run, stale>>
poller  == <<ppc, lastVersion, channel>>
ghosts  == <<seen, missed, blind>>
vars    == <<openShift, version, history, exists, cHistory, known, crNews, cmNews, ready, cm,
             queued, rpc, run, stale, ppc, lastVersion, channel, seen, missed, blind, meddles,
             faults>>

NewRun == [k8s |-> None, os |-> None]

\* An entry of the history is a record of a version and whether its update is done.
Completed(h) == {i \in 1..Len(h) : h[i].done}

\* Mutant: the newest entry counts, completed or not.
NewestVersion(h) == h[1].version

\* The newest completed entry.
GetOpenShiftVersion(h) == h[CHOOSE i \in Completed(h) : \A j \in Completed(h) : i <= j].version

(***************************************************************************)
(* The version poller                                                      *)
(***************************************************************************)

\* The first answer is the one later answers are compared with; an error leaves it empty.
PollStart ==
  /\ ppc = "start"
  /\ \/ /\ lastVersion' = version
        /\ missed' = (seen \notin {None, version})
        /\ UNCHANGED faults
     \/ /\ faults < MaxFaults /\ faults' = faults + 1
        /\ UNCHANGED <<lastVersion, missed>>
  /\ ppc' = "wait"
  /\ UNCHANGED <<cluster, cHistory, objects, queued, local, channel, seen, blind, meddles>>

\* The ticker fires. After an error the poller waits for the next tick.
Poll ==
  /\ ppc = "wait"
  /\ \/ /\ version # lastVersion
        /\ lastVersion' = version
        /\ ppc' = "send"
        /\ UNCHANGED faults
     \/ /\ faults < MaxFaults /\ faults' = faults + 1
        /\ UNCHANGED <<lastVersion, ppc>>
  /\ UNCHANGED <<cluster, cHistory, objects, queued, local, channel, ghosts, meddles>>

\* Mutant: the channel has no buffer, and an event for which nobody is waiting is dropped.
SendUnbuffered ==
  /\ ppc = "send"
  /\ channel' \in {channel, TRUE}
  /\ ppc' = "wait"
  /\ UNCHANGED <<cluster, cHistory, objects, queued, local, lastVersion, ghosts, meddles, faults>>

\* An event for which there is no room is dropped.
Send ==
  /\ ppc = "send"
  /\ channel' = TRUE
  /\ ppc' = "wait"
  /\ UNCHANGED <<cluster, cHistory, objects, queued, local, lastVersion, ghosts, meddles, faults>>

\* The channel source takes the event; the handler lists the CRs in the cache.
enqueueKonfluxInfoForVersionChange ==
  /\ channel
  /\ channel' = FALSE
  /\ queued' = (queued \/ known)
  /\ UNCHANGED <<cluster, cHistory, objects, local, ppc, lastVersion, ghosts, meddles, faults>>

(***************************************************************************)
(* The KonfluxInfo controller                                              *)
(***************************************************************************)

\* The CR is read from the cache; without one there is nothing to do.
Begin ==
  /\ queued /\ rpc = "idle"
  /\ queued' = FALSE
  /\ rpc' = IF known THEN "version" ELSE "idle"
  /\ stale' = (known /\ crNews)
  /\ UNCHANGED <<cluster, cHistory, objects, run, poller, ghosts, meddles, faults>>

Return ==
  /\ rpc' = "idle" /\ run' = NewRun /\ stale' = FALSE

\* K8sVersion, asked anew. An error is ignored: the version stays empty.
ReadVersion ==
  /\ rpc = "version"
  /\ \/ /\ run' = [run EXCEPT !.k8s = version]
        /\ seen' = version /\ missed' = FALSE /\ blind' = FALSE
        /\ UNCHANGED faults
     \/ /\ faults < MaxFaults /\ faults' = faults + 1
        /\ blind' = TRUE
        /\ UNCHANGED <<run, seen, missed>>
  /\ rpc' = IF openShift THEN "openshift" ELSE "apply"
  /\ UNCHANGED <<cluster, cHistory, objects, queued, stale, poller, meddles>>

\* The OpenShift version and the cluster ID, from the cache.
ReadOpenShift ==
  /\ rpc = "openshift" /\ Completed(cHistory) # {}
  /\ run' = [run EXCEPT !.os = GetOpenShiftVersion(cHistory)]
  /\ rpc' = "apply"
  /\ UNCHANGED <<cluster, cHistory, objects, queued, stale, poller, ghosts, meddles, faults>>

\* An apply that changes nothing is not a write.
ApplyInfoConfigMap ==
  /\ rpc = "apply"
  /\ cm' = run
  /\ cmNews' = (cmNews \/ cm # run)
  /\ rpc' = "status"
  /\ UNCHANGED <<cluster, cHistory, known, crNews, ready, queued, run, stale, poller, ghosts,
                 meddles, faults>>

\* A status write, refused when the CR that was read is outdated. One that changes nothing
\* makes no event.
SetReady(v) ==
  IF stale
    THEN UNCHANGED <<ready, crNews>>
    ELSE ready' = v /\ crNews' = (crNews \/ ready # v)

\* The other ConfigMaps, the manifests and the cleanup, which may only fail, and the status.
UpdateStatus ==
  /\ rpc = "status"
  /\ SetReady("true")
  /\ queued' = (queued \/ stale)
  /\ Return
  /\ UNCHANGED <<cluster, cHistory, known, cmNews, cm, poller, ghosts, meddles, faults>>

\* Mutant: the error is reported and not returned.
HandleErrorForgets ==
  /\ Return
  /\ UNCHANGED <<cluster, cHistory, known, cmNews, cm, queued, poller, ghosts, meddles>>

\* The error handler reports Ready=False and returns the error: the request is queued again.
HandleError ==
  /\ queued' = TRUE
  /\ Return
  /\ UNCHANGED <<cluster, cHistory, known, cmNews, cm, poller, ghosts, meddles>>

\* ErrNoCompletedVersion.
NoCompletedVersion ==
  /\ rpc = "openshift" /\ Completed(cHistory) = {}
  /\ SetReady("false")
  /\ HandleError
  /\ UNCHANGED faults

\* A call fails, and perhaps the report of the failure as well.
Fail ==
  /\ rpc \in {"version", "openshift", "apply", "status"}
  /\ faults < MaxFaults /\ faults' = faults + 1
  /\ SetReady("false") \/ UNCHANGED <<ready, crNews>>
  /\ HandleError

Reconcile ==
  \/ Begin \/ ReadVersion \/ ReadOpenShift \/ ApplyInfoConfigMap \/ UpdateStatus
  \/ NoCompletedVersion

(***************************************************************************)
(* Events, the cluster and users                                           *)
(***************************************************************************)

InfoEvent ==
  /\ crNews
  /\ crNews' = FALSE /\ known' = TRUE /\ queued' = TRUE
  /\ UNCHANGED <<cluster, cHistory, cmNews, ready, cm, local, poller, ghosts, meddles, faults>>

ConfigMapEvent ==
  /\ cmNews
  /\ cmNews' = FALSE /\ queued' = TRUE
  /\ UNCHANGED <<cluster, cHistory, known, crNews, ready, cm, local, poller, ghosts, meddles,
                 faults>>

ClusterVersionEvent ==
  /\ openShift /\ cHistory # history
  /\ cHistory' = history
  /\ queued' = (queued \/ known)
  /\ UNCHANGED <<cluster, objects, local, poller, ghosts, meddles, faults>>

CreateInfo ==
  /\ ~exists
  /\ exists' = TRUE /\ crNews' = TRUE
  /\ UNCHANGED <<openShift, version, history, cHistory, known, cmNews, ready, cm, queued, local,
                 poller, ghosts, meddles, faults>>

DeleteConfigMap ==
  /\ meddles < MaxMeddles /\ meddles' = meddles + 1
  /\ cm # None
  /\ cm' = None /\ cmNews' = TRUE
  /\ UNCHANGED <<cluster, cHistory, known, crNews, ready, queued, local, poller, ghosts, faults>>

Upgrades == version + (IF openShift THEN Len(history) - 1 ELSE 0)

UpgradeKubernetes ==
  /\ Upgrades < MaxUpgrades
  /\ version' = version + 1
  /\ UNCHANGED <<openShift, history, exists, cHistory, objects, queued, local, poller, ghosts,
                 meddles, faults>>

\* An update of OpenShift begins, and is completed or superseded by the next.
UpgradeOpenShift ==
  /\ openShift
  /\ \/ /\ Upgrades < MaxUpgrades
        /\ history' = <<[done |-> FALSE, version |-> Len(history)]>> \o history
     \/ /\ ~history[1].done
        /\ history' = [history EXCEPT ![1].done = TRUE]
  /\ UNCHANGED <<openShift, version, exists, cHistory, objects, queued, local, poller, ghosts,
                 meddles, faults>>

\* The leader dies and another takes over: its caches list everything, which queues the CR,
\* and its poller starts.
Crash ==
  /\ faults < MaxFaults /\ faults' = faults + 1
  /\ cHistory' = history /\ known' = exists /\ crNews' = FALSE /\ cmNews' = FALSE
  /\ queued' = exists
  /\ Return
  /\ ppc' = "start" /\ lastVersion' = None /\ channel' = FALSE
  /\ seen' = None /\ missed' = FALSE /\ blind' = FALSE
  /\ UNCHANGED <<cluster, ready, cm, meddles>>

(***************************************************************************)
(* Specification                                                           *)
(***************************************************************************)

Init ==
  /\ openShift \in BOOLEAN
  /\ version = 0
  /\ history \in (IF openShift THEN {<<[done |-> d, version |-> 0]>> : d \in BOOLEAN} ELSE {<<>>})
  /\ cHistory = history
  /\ exists \in BOOLEAN /\ known = exists /\ queued = exists
  /\ crNews = FALSE /\ cmNews = FALSE /\ ready = "none" /\ cm = None
  /\ rpc = "idle" /\ run = NewRun /\ stale = FALSE
  /\ ppc = "start" /\ lastVersion = None /\ channel = FALSE
  /\ seen = None /\ missed = FALSE /\ blind = FALSE
  /\ meddles = 0 /\ faults = 0

Next ==
  \/ PollStart \/ Poll \/ Send \/ enqueueKonfluxInfoForVersionChange
  \/ Reconcile \/ Fail
  \/ InfoEvent \/ ConfigMapEvent \/ ClusterVersionEvent
  \/ CreateInfo \/ DeleteConfigMap \/ UpgradeKubernetes \/ UpgradeOpenShift \/ Crash

\* Goroutines run, the ticker ticks and informers deliver. Users, upgrades and faults owe
\* nothing.
Fairness ==
  /\ WF_vars(PollStart) /\ WF_vars(Poll) /\ WF_vars(Send)
  /\ WF_vars(enqueueKonfluxInfoForVersionChange)
  /\ WF_vars(Reconcile)
  /\ WF_vars(InfoEvent) /\ WF_vars(ConfigMapEvent) /\ WF_vars(ClusterVersionEvent)

Spec == Init /\ [][Next]_vars /\ Fairness

(***************************************************************************)
(* Properties                                                              *)
(***************************************************************************)

\* "This ensures we don't report an upgrade target version before it's actually been rolled
\* out": an OpenShift version is shown only once its update is completed, and is never
\* followed by an older one, however late the cache and whoever restarts.
NeverAhead ==
  [][openShift /\ cm' # None /\ cm' # cm
       => /\ \E i \in Completed(history) : history[i].version = cm'.os
          /\ cm # None => cm'.os >= cm.os]_vars

\* A reconcile can get to the end.
Possible == openShift => Completed(history) # {}

\* Once the cluster comes to rest info.json shows both of its versions, although a change of
\* the Kubernetes version makes a single event which may be dropped. Two cases are excepted,
\* in which it stays outdated until some other event: the last reconcile ignored an error of
\* K8sVersion (blind), and the version changed after the controller and before the poller
\* first asked for it, so that the poller takes the new one for the old (missed).
VersionsPublished ==
  <>[](exists /\ Possible =>
         \/ blind \/ missed
         \/ /\ cm # None
            /\ cm.k8s = version
            /\ openShift => cm.os = GetOpenShiftVersion(history))

\* The poller "polls for cluster version changes and sends events to a channel so the
\* KonfluxInfo controller can refresh the info ConfigMap": whatever the cluster's version comes
\* to be is shown in the end.
ChangesReachInfo == <>[](exists /\ Possible => cm # None /\ cm.k8s = version)

\* The Ready condition ends up saying whether info.json could be published: a cluster whose
\* first version is still being installed is retried until it is complete.
ReadyTells == <>[](exists => ready = (IF Possible THEN "true" ELSE "false"))
=============================================================================

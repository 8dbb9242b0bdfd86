------------------------ MODULE RegistryCredentials ------------------------
(***************************************************************************)
(* The credentials of the internal registry. The KonfluxInternalRegistry   *)
(* controller keeps a password in two Secrets, hashed in htpasswd for the  *)
(* registry and plain in a client Secret; the KonfluxDefaultTenant         *)
(* controller copies the client Secret into the tenant's namespace. Both   *)
(* read through the informer cache, which lags behind the API server, and  *)
(* write to the API server.                                                *)
(***************************************************************************)
EXTENDS Naturals, Sequences

CONSTANTS
  Passwords,   \* what generateRandomSecret may return
  NoPassword,  \* a Secret without data under the expected key
  Absent,      \* there is no such Secret
  Budgets      \* how many creations and deletions of custom resources, Secrets that users
               \* delete or empty, failed calls and crashes, and Secret events on their way
               \* to the cache there may be together

ASSUME RegistryBounds ==
  /\ NoPassword \notin Passwords
  /\ Absent \notin [pw : Passwords \cup {NoPassword}, uid : Nat]
  /\ Budgets \subseteq [edits : Nat, meddles : Nat, faults : Nat, lag : Nat \ {0}]

VARIABLES
  registry,   \* incarnation of the KonfluxInternalRegistry CR; 0: none
  made,       \* incarnations so far
  tenant,     \* the KonfluxDefaultTenant CR exists
  secrets,    \* the controller's two Secrets, as the API server stores them
  copy,       \* the Secret in the tenant's namespace
  cRegistry, cTenant, cSecrets,   \* the informer cache of these
  events,     \* events of the Secret informer on their way to the cache
  copyNews,   \* an event about the copy is on its way
  rQueued, tQueued,               \* the controllers' work queues
  tLater,     \* the tenant's request is to be queued after 10 seconds
  rpc, rSeen, rFull, rPassword,   \* registry reconcile: phase, CR, Secrets with data, new password
  tpc, tSource,                   \* tenant reconcile: phase, the client Secret it read
  hashed,     \* history: the password this registry reconcile wrote to htpasswd
  edits, meddles, faults,         \* what is left of the budget
  lag         \* the longest queue of events; it never changes

server   == <<registry, made, tenant, secrets, copy>>
caches   == <<cRegistry, cTenant, cSecrets, events, copyNews>>
queues   == <<rQueued, tQueued, tLater>>
rLocal   == <<rpc, rSeen, rFull, rPassword>>
tLocal   == <<tpc, tSource>>
used     == <<edits, meddles, faults>>
vars     == <<registry, made, tenant, secrets, copy, cRegistry, cTenant, cSecrets, events,
              copyNews, rQueued, tQueued, tLater, rpc, rSeen, rFull, rPassword, tpc, tSource,
              hashed, edits, meddles, faults>>

Names == {"htpasswd", "client"}

\* A Secret: its password and the incarnation of the CR that controls it.
Secret == [pw : Passwords \cup {NoPassword}, uid : Nat]

hasSecretData(s) == s # Absent /\ s.pw # NoPassword

\* A write to the API server; the informer will hear of it.
Write(n, s) ==
  /\ Len(events) < lag
  /\ secrets' = [secrets EXCEPT ![n] = s]
  /\ events' = Append(events, [name |-> n, secret |-> s])

\* The cache holds the stored version of Secret n.
Fresh(n) == \A i \in 1..Len(events) : events[i].name # n

\* Passwords in use; passwords are only ever compared.
InUse ==
  {s.pw : s \in ({secrets[n] : n \in Names} \cup {cSecrets[n] : n \in Names}
                   \cup {events[i].secret : i \in 1..Len(events)} \cup {copy, tSource})
                \ {Absent}}
    \cup {rPassword, hashed}

\* A random password is one that is in use nowhere; which one does not matter.
generateRandomSecret == CHOOSE p \in Passwords : p \notin InUse

\* A bound: there is such a password left.
PasswordLeft == \E p \in Passwords : p \notin InUse

(***************************************************************************)
(* Users and the garbage collector                                         *)
(***************************************************************************)

CreateRegistry ==
  /\ edits > 0 /\ edits' = edits - 1
  /\ registry = 0
  /\ made' = made + 1
  /\ registry' = made'
  /\ UNCHANGED <<tenant, secrets, copy, caches, queues, rLocal, tLocal, hashed, meddles, faults>>

DeleteRegistry ==
  /\ edits > 0 /\ edits' = edits - 1
  /\ registry # 0
  /\ registry' = 0
  /\ UNCHANGED <<made, tenant, secrets, copy, caches, queues, rLocal, tLocal, hashed, meddles,
                 faults>>

CreateTenant ==
  /\ edits > 0 /\ edits' = edits - 1
  /\ ~tenant
  /\ tenant' = TRUE
  /\ UNCHANGED <<registry, made, secrets, copy, caches, queues, rLocal, tLocal, hashed, meddles,
                 faults>>

\* A user deletes a Secret or removes its data.
Meddle(n) ==
  /\ meddles > 0 /\ meddles' = meddles - 1
  /\ secrets[n] # Absent
  /\ Write(n, Absent) \/ Write(n, [pw |-> NoPassword, uid |-> secrets[n].uid])
  /\ UNCHANGED <<registry, made, tenant, copy, cRegistry, cTenant, cSecrets, copyNews, queues,
                 rLocal, tLocal, hashed, edits, faults>>

\* A user deletes the copy.
MeddleCopy ==
  /\ meddles > 0 /\ meddles' = meddles - 1
  /\ copy # Absent
  /\ copy' = Absent
  /\ copyNews' = TRUE
  /\ UNCHANGED <<registry, made, tenant, secrets, cRegistry, cTenant, cSecrets, events, queues,
                 rLocal, tLocal, hashed, edits, faults>>

Collect(n) ==
  /\ secrets[n] # Absent /\ secrets[n].uid # registry
  /\ Write(n, Absent)
  /\ UNCHANGED <<registry, made, tenant, copy, cRegistry, cTenant, cSecrets, copyNews, queues,
                 rLocal, tLocal, hashed, used>>

(***************************************************************************)
(* Informers, watches and the work queues                                  *)
(***************************************************************************)

SyncRegistry ==
  /\ cRegistry # registry
  /\ cRegistry' = registry
  /\ rQueued' = TRUE
  /\ UNCHANGED <<server, cTenant, cSecrets, events, copyNews, tQueued, tLater, rLocal, tLocal,
                 hashed, used>>

SyncTenant ==
  /\ cTenant # tenant
  /\ cTenant' = tenant
  /\ tQueued' = TRUE
  /\ UNCHANGED <<server, cRegistry, cSecrets, events, copyNews, rQueued, tLater, rLocal, tLocal,
                 hashed, used>>

\* The registry controller owns both Secrets. The tenant controller watches
\* the client Secret and maps it to its CR, if the cache has one.
DeliverSecret ==
  /\ events # <<>>
  /\ events' = Tail(events)
  /\ cSecrets' = [cSecrets EXCEPT ![Head(events).name] = Head(events).secret]
  /\ rQueued' = TRUE
  /\ tQueued' = (tQueued \/ (Head(events).name = "client" /\ cTenant))
  /\ UNCHANGED <<server, cRegistry, cTenant, copyNews, tLater, rLocal, tLocal, hashed, used>>

DeliverCopy ==
  /\ copyNews
  /\ copyNews' = FALSE
  /\ tQueued' = TRUE
  /\ UNCHANGED <<server, cRegistry, cTenant, cSecrets, events, rQueued, tLater, rLocal, tLocal,
                 hashed, used>>

\* The 10 seconds of RequeueAfter are over.
RequeueTenant ==
  /\ tLater
  /\ tLater' = FALSE
  /\ tQueued' = TRUE
  /\ UNCHANGED <<server, caches, rQueued, rLocal, tLocal, hashed, used>>

(***************************************************************************)
(* KonfluxInternalRegistry: Reconcile and ensureRegistryCredentials        *)
(***************************************************************************)

rReturn ==
  /\ rpc' = "idle"
  /\ rSeen' = 0
  /\ rFull' = {}
  /\ rPassword' = NoPassword
  /\ hashed' = NoPassword

\* Read the CR from the cache; without one there is nothing to do.
RegistryBegin ==
  /\ rQueued /\ rpc = "idle"
  /\ rQueued' = FALSE
  /\ IF cRegistry = 0
       THEN UNCHANGED rLocal
       ELSE rpc' = "htpasswd?" /\ rSeen' = cRegistry /\ UNCHANGED <<rFull, rPassword>>
  /\ UNCHANGED <<server, caches, tQueued, tLater, tLocal, hashed, used>>

ReadHtpasswd ==
  /\ rpc = "htpasswd?"
  /\ rpc' = "client?"
  /\ rFull' = IF hasSecretData(cSecrets["htpasswd"]) THEN {"htpasswd"} ELSE {}
  /\ UNCHANGED <<server, caches, queues, rSeen, rPassword, tLocal, hashed, used>>

\* Mutant of RotateCredentials: only when both sides are missing.
RotateWhenBothMissing(full) == full = {}

\* Both sides are rotated when either is missing or empty.
RotateCredentials(full) == full # Names

ReadClient ==
  /\ rpc = "client?"
  /\ rpc' = "htpasswd!"
  /\ rFull' = rFull \cup (IF hasSecretData(cSecrets["client"]) THEN {"client"} ELSE {})
  /\ RotateCredentials(rFull') => PasswordLeft
  /\ rPassword' = IF RotateCredentials(rFull') THEN generateRandomSecret ELSE NoPassword
  /\ UNCHANGED <<server, caches, queues, rSeen, tLocal, hashed, used>>

\* What the mutate function makes of the cached Secret: ownership is set, the
\* data only when a new password was generated.
Mutated(n) ==
  [pw |-> IF rPassword # NoPassword THEN rPassword
          ELSE IF cSecrets[n] = Absent THEN NoPassword ELSE cSecrets[n].pw,
   uid |-> rSeen]

\* CreateOrUpdate on the cached Secret, when its call takes effect: nothing is
\* written when nothing changes, and the API server refuses to create what
\* exists and to update another version than the stored one.
Accepted(n) ==
  \/ Mutated(n) = cSecrets[n] /\ UNCHANGED <<secrets, events>>
  \/ Mutated(n) # cSecrets[n] /\ Fresh(n) /\ Write(n, Mutated(n))

\* The errors of CreateOrUpdate that a stale cache causes: AlreadyExists,
\* NotFound and Conflict.
Refused(n) == Mutated(n) # cSecrets[n] /\ ~Fresh(n) /\ UNCHANGED <<secrets, events>>

WriteHtpasswd ==
  /\ rpc = "htpasswd!"
  /\ Accepted("htpasswd")
  /\ hashed' = IF rPassword # NoPassword THEN rPassword ELSE hashed
  /\ rpc' = "client!"
  /\ UNCHANGED <<registry, made, tenant, copy, cRegistry, cTenant, cSecrets, copyNews, queues,
                 rSeen, rFull, rPassword, tLocal, used>>

\* Mutant of WriteClient: the mutate function generates a password of its own.
WriteClientRegenerates ==
  /\ rpc = "client!"
  /\ \/ rPassword = NoPassword /\ Accepted("client")
     \/ /\ rPassword # NoPassword /\ Fresh("client")
        /\ Write("client", [pw |-> generateRandomSecret, uid |-> rSeen])
  /\ rpc' = "cleanup"
  /\ UNCHANGED <<registry, made, tenant, copy, cRegistry, cTenant, cSecrets, copyNews, queues,
                 rSeen, rFull, rPassword, tLocal, hashed, used>>

WriteClient ==
  /\ rpc = "client!"
  /\ Accepted("client")
  /\ rpc' = "cleanup"
  /\ UNCHANGED <<registry, made, tenant, copy, cRegistry, cTenant, cSecrets, copyNews, queues,
                 rSeen, rFull, rPassword, tLocal, hashed, used>>

\* The error handler returns the error: the request is queued again.
WriteRefused ==
  /\ \/ rpc = "htpasswd!" /\ Refused("htpasswd")
     \/ rpc = "client!" /\ Refused("client")
  /\ rReturn
  /\ rQueued' = TRUE
  /\ UNCHANGED <<registry, made, tenant, copy, cRegistry, cTenant, cSecrets, copyNews, tQueued,
                 tLater, tLocal, used>>

\* CleanupOrphans finds both Secrets tracked; the status is updated.
RegistryDone ==
  /\ rpc = "cleanup"
  /\ rReturn
  /\ UNCHANGED <<server, caches, queues, tLocal, used>>

\* Any call of the reconcile fails without having taken effect. A write whose
\* answer is lost is a write followed by this.
RegistryFails ==
  /\ rpc # "idle"
  /\ faults > 0 /\ faults' = faults - 1
  /\ rReturn
  /\ rQueued' = TRUE
  /\ UNCHANGED <<server, caches, tQueued, tLater, tLocal, edits, meddles>>

(***************************************************************************)
(* KonfluxDefaultTenant: Reconcile and syncInternalRegistryCredentialsSecret*)
(***************************************************************************)

tReturn == tpc' = "idle" /\ tSource' = Absent

TenantBegin ==
  /\ tQueued /\ tpc = "idle"
  /\ tQueued' = FALSE
  /\ tpc' = IF cTenant THEN "registry?" ELSE "idle"
  /\ UNCHANGED <<server, caches, rQueued, tLater, rLocal, tSource, hashed, used>>

\* Without a registry CR there is nothing to copy, and nothing is tracked.
ReadRegistry ==
  /\ tpc = "registry?"
  /\ tpc' = IF cRegistry = 0 THEN "cleanup" ELSE "source?"
  /\ UNCHANGED <<server, caches, queues, rLocal, tSource, hashed, used>>

\* Mutant of ReadSource: no request for a later attempt.
ReadSourceOnce ==
  /\ tpc = "source?"
  /\ tpc' = IF cSecrets["client"] = Absent THEN "idle" ELSE "copy"
  /\ tSource' = cSecrets["client"]
  /\ UNCHANGED <<server, caches, queues, rLocal, hashed, used>>

\* Mutant of ReadSource: the answer is used without a look at the error.
ReadSourceUnchecked ==
  /\ tpc = "source?"
  /\ tpc' = "copy"
  /\ tSource' = cSecrets["client"]
  /\ UNCHANGED <<server, caches, queues, rLocal, hashed, used>>

\* A missing source ends the reconcile, before cleanup and status, with a
\* request for a later attempt.
ReadSource ==
  /\ tpc = "source?"
  /\ tpc' = IF cSecrets["client"] = Absent THEN "idle" ELSE "copy"
  /\ tSource' = cSecrets["client"]
  /\ tLater' = (tLater \/ cSecrets["client"] = Absent)
  /\ UNCHANGED <<server, caches, rQueued, tQueued, rLocal, hashed, used>>

\* The copy is applied and tracked, so cleanup leaves it alone.
ApplyCopy ==
  /\ tpc = "copy"
  /\ copy' = tSource
  /\ copyNews' = (copyNews \/ copy' # copy)
  /\ tReturn
  /\ UNCHANGED <<registry, made, tenant, secrets, cRegistry, cTenant, cSecrets, events, queues,
                 rLocal, hashed, used>>

\* Cleanup deletes a copy that was not applied.
CleanupCopy ==
  /\ tpc = "cleanup"
  /\ copy' = Absent
  /\ copyNews' = (copyNews \/ copy' # copy)
  /\ tReturn
  /\ UNCHANGED <<registry, made, tenant, secrets, cRegistry, cTenant, cSecrets, events, queues,
                 rLocal, hashed, used>>

TenantFails ==
  /\ tpc # "idle"
  /\ faults > 0 /\ faults' = faults - 1
  /\ tReturn
  /\ tQueued' = TRUE
  /\ UNCHANGED <<server, caches, rQueued, tLater, rLocal, hashed, edits, meddles>>

\* The process dies and restarts with full caches and every CR queued.
Crash ==
  /\ faults > 0 /\ faults' = faults - 1
  /\ rReturn /\ tReturn
  /\ cRegistry' = registry /\ cTenant' = tenant /\ cSecrets' = secrets
  /\ events' = <<>> /\ copyNews' = FALSE
  /\ rQueued' = TRUE /\ tQueued' = TRUE /\ tLater' = FALSE
  /\ UNCHANGED <<server, edits, meddles>>

(***************************************************************************)
(* Specification                                                           *)
(***************************************************************************)

Init ==
  /\ registry = 0 /\ made = 0 /\ tenant = FALSE
  /\ secrets = [n \in Names |-> Absent] /\ copy = Absent
  /\ cRegistry = 0 /\ cTenant = FALSE /\ cSecrets = secrets
  /\ events = <<>> /\ copyNews = FALSE
  /\ rQueued = FALSE /\ tQueued = FALSE /\ tLater = FALSE
  /\ rpc = "idle" /\ rSeen = 0 /\ rFull = {} /\ rPassword = NoPassword
  /\ tpc = "idle" /\ tSource = Absent
  /\ hashed = NoPassword
  /\ \E b \in Budgets : /\ edits = b.edits /\ meddles = b.meddles /\ faults = b.faults
                        /\ lag = b.lag

Users == CreateRegistry \/ DeleteRegistry \/ CreateTenant \/ MeddleCopy
           \/ \E n \in Names : Meddle(n)

Registry ==
  \/ RegistryBegin \/ ReadHtpasswd \/ ReadClient \/ WriteHtpasswd \/ WriteClient
  \/ WriteRefused \/ RegistryDone

Tenant == TenantBegin \/ ReadRegistry \/ ReadSource \/ ApplyCopy \/ CleanupCopy

Next ==
  \/ Users
  \/ \E n \in Names : Collect(n)
  \/ SyncRegistry \/ SyncTenant \/ DeliverSecret \/ DeliverCopy \/ RequeueTenant
  \/ Registry \/ RegistryFails
  \/ Tenant \/ TenantFails
  \/ Crash

\* Informers deliver, timers fire, the collector collects and each
\* controller's worker goroutine runs. Users and faults owe nothing.
Fairness ==
  /\ WF_vars(SyncRegistry) /\ WF_vars(SyncTenant)
  /\ WF_vars(DeliverSecret) /\ WF_vars(DeliverCopy) /\ WF_vars(RequeueTenant)
  /\ \A n \in Names : WF_vars(Collect(n))
  /\ WF_vars(Registry) /\ WF_vars(Tenant)

Spec == Init /\ [][Next /\ UNCHANGED lag]_<<vars, lag>>

FairSpec == Spec /\ Fairness

(***************************************************************************)
(* Properties                                                              *)
(***************************************************************************)

\* Every variable has its type, a registry reconcile always has a CR and the
\* tenant's apply always has a source Secret: no answer of a failed Get is used.
TypeOK ==
  /\ {registry, made, cRegistry, rSeen} \subseteq Nat
  /\ {tenant, cTenant, copyNews, rQueued, tQueued, tLater} \subseteq BOOLEAN
  /\ {secrets, cSecrets} \subseteq [Names -> Secret \cup {Absent}]
  /\ {copy, tSource} \subseteq Secret \cup {Absent}
  /\ events \in Seq([name : Names, secret : Secret \cup {Absent}])
  /\ rpc \in {"idle", "htpasswd?", "client?", "htpasswd!", "client!", "cleanup"}
  /\ rFull \subseteq Names
  /\ {rPassword, hashed} \subseteq Passwords \cup {NoPassword}
  /\ tpc \in {"idle", "registry?", "source?", "copy", "cleanup"}
  /\ rpc # "idle" => rSeen # 0
  /\ tpc = "copy" => tSource # Absent

\* The informers have delivered everything and both controllers are idle with
\* empty queues: nothing will change unless somebody outside makes it.
Settled ==
  /\ rpc = "idle" /\ tpc = "idle"
  /\ ~rQueued /\ ~tQueued /\ ~tLater
  /\ events = <<>> /\ ~copyNews
  /\ cRegistry = registry /\ cTenant = tenant

\* The comment on ensureRegistryCredentials says that it "keeps Zot htpasswd
\* credentials and the client dockerconfig secret in sync". Once everything
\* has settled, the registry accepts the password its clients present.
CredentialsInSync ==
  Settled /\ registry # 0 => secrets["client"].pw = secrets["htpasswd"].pw

\* A client is only ever given the password that the same reconcile has just
\* written, hashed, for the registry: never one the registry was not told, and
\* never one of an earlier attempt.
ClientGetsHashed ==
  [][hasSecretData(secrets'["client"]) /\ (hasSecretData(secrets["client"])
          => secrets'["client"].pw # secrets["client"].pw)
       => secrets'["client"].pw = hashed]_vars

\* While the registry CR exists, both Secrets come to hold a password and to
\* belong to its present incarnation, whoever deleted or emptied them and
\* however far the cache lagged behind.
CredentialsProvided ==
  <>[](registry # 0 => \A n \in Names : hasSecretData(secrets[n]) /\ secrets[n].uid = registry)

\* The tenant ends up with the client password of the existing registry, and
\* with none when there is no registry, although the tenant controller does
\* not watch the registry CR and may miss or outrun its deletion.
CopyConverges ==
  <>[](tenant => IF registry = 0 THEN copy = Absent
                 ELSE /\ copy # Absent /\ secrets["client"] # Absent
                      /\ copy.pw = secrets["client"].pw)
=============================================================================

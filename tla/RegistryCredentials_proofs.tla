--------------------- MODULE RegistryCredentials_proofs ---------------------
(***************************************************************************)
(* The credentials of the internal registry, for every set of passwords,   *)
(* any number of edits, meddling users, failed calls and crashes, and a    *)
(* cache that lags behind by any number of events.                         *)
(***************************************************************************)
EXTENDS RegistryCredentials, SequenceTheorems, TLAPS

USE DEF server, caches, queues, rLocal, tLocal, used

Step == Next /\ UNCHANGED lag

(***************************************************************************)
(* Typing                                                                  *)
(***************************************************************************)

\* An empty installation has well-typed state.
LEMMA TypeInit == Init => TypeOK
<1> SUFFICES ASSUME Init PROVE TypeOK
  OBVIOUS
<1>1. events \in Seq([name : Names, secret : Secret \cup {Absent}])
  BY EmptySeq DEF Init
<1>2. {secrets, cSecrets} \subseteq [Names -> Secret \cup {Absent}]
  BY DEF Init
<1>3. {tenant, cTenant, copyNews, rQueued, tQueued, tLater} \subseteq BOOLEAN
  BY DEF Init
<1>4. /\ registry = 0 /\ made = 0 /\ cRegistry = 0 /\ rSeen = 0 /\ copy = Absent /\ tSource = Absent
      /\ rpc = "idle" /\ tpc = "idle" /\ rFull = {} /\ rPassword = NoPassword /\ hashed = NoPassword
  BY DEF Init
<1> QED
  BY <1>1, <1>2, <1>3, <1>4 DEF TypeOK

\* A write of a Secret keeps the types of the store and of the event queue.
LEMMA WriteType ==
  ASSUME TypeOK, NEW n \in Names, NEW s \in Secret \cup {Absent}, Write(n, s)
  PROVE  /\ secrets' \in [Names -> Secret \cup {Absent}]
         /\ events' \in Seq([name : Names, secret : Secret \cup {Absent}])
<1>1. secrets' \in [Names -> Secret \cup {Absent}]
  BY DEF TypeOK, Write
<1>2. [name |-> n, secret |-> s] \in [name : Names, secret : Secret \cup {Absent}]
  OBVIOUS
<1>3. events' \in Seq([name : Names, secret : Secret \cup {Absent}])
  BY <1>2 DEF TypeOK, Write
<1> QED
  BY <1>1, <1>3

\* What the mutate function makes of a cached Secret is a Secret.
LEMMA MutatedType ==
  ASSUME TypeOK, NEW n \in Names
  PROVE  Mutated(n) \in Secret /\ Mutated(n) # Absent
<1>1. Mutated(n) \in Secret
  BY DEF Mutated, TypeOK, Secret
<1> QED
  BY <1>1, RegistryBounds DEF Secret

\* CreateOrUpdate keeps the types as well.
LEMMA AcceptedType ==
  ASSUME TypeOK, NEW n \in Names, Accepted(n)
  PROVE  /\ secrets' \in [Names -> Secret \cup {Absent}]
         /\ events' \in Seq([name : Names, secret : Secret \cup {Absent}])
BY MutatedType, WriteType DEF Accepted, TypeOK

\* A generated password is a password.
LEMMA GeneratedType == PasswordLeft => generateRandomSecret \in Passwords
BY DEF PasswordLeft, generateRandomSecret

\* Every step of users, informers and the two controllers keeps the types.
LEMMA TypeStep == TypeOK /\ [Step]_<<vars, lag>> => TypeOK'
<1> SUFFICES ASSUME TypeOK, [Step]_<<vars, lag>> PROVE TypeOK'
  OBVIOUS
<1> USE DEF TypeOK
<1>1. CASE CreateRegistry \/ DeleteRegistry \/ CreateTenant \/ MeddleCopy
  <2>1. CASE CreateRegistry
    BY <2>1 DEF CreateRegistry
  <2>2. CASE DeleteRegistry
    BY <2>2 DEF DeleteRegistry
  <2>3. CASE CreateTenant
    BY <2>3 DEF CreateTenant
  <2>4. CASE MeddleCopy
    BY <2>4 DEF MeddleCopy
  <2> QED
    BY <1>1, <2>1, <2>2, <2>3, <2>4
<1>2. ASSUME NEW n \in Names, Meddle(n) \/ Collect(n) PROVE TypeOK'
  <2>1. PICK s \in Secret \cup {Absent} : Write(n, s)
    <3>1. CASE Write(n, Absent)
      BY <3>1
    <3>2. CASE Write(n, [pw |-> NoPassword, uid |-> secrets[n].uid]) /\ secrets[n] # Absent
      <4>1. [pw |-> NoPassword, uid |-> secrets[n].uid] \in Secret
        BY <3>2 DEF Secret
      <4> QED
        BY <3>2, <4>1
    <3> QED
      BY <1>2, <3>1, <3>2 DEF Meddle, Collect
  <2>2. UNCHANGED <<registry, made, tenant, copy, cRegistry, cTenant, cSecrets, copyNews, queues,
                    rLocal, tLocal, hashed>>
    BY <1>2 DEF Meddle, Collect
  <2>3. /\ secrets' \in [Names -> Secret \cup {Absent}]
        /\ events' \in Seq([name : Names, secret : Secret \cup {Absent}])
    BY <2>1, WriteType
  <2> QED
    BY <2>2, <2>3
<1>3. CASE SyncRegistry \/ SyncTenant
  BY <1>3 DEF SyncRegistry, SyncTenant
<1>4. CASE DeliverSecret
  <2>1. /\ Head(events) \in [name : Names, secret : Secret \cup {Absent}]
        /\ Tail(events) \in Seq([name : Names, secret : Secret \cup {Absent}])
    BY <1>4, HeadTailProperties DEF DeliverSecret
  <2>2. cSecrets' \in [Names -> Secret \cup {Absent}]
    BY <1>4, <2>1 DEF DeliverSecret
  <2>3. tQueued' \in BOOLEAN
    BY <1>4 DEF DeliverSecret
  <2>4. /\ events' = Tail(events) /\ rQueued' = TRUE
        /\ UNCHANGED <<server, cRegistry, cTenant, copyNews, tLater, rLocal, tLocal, hashed>>
    BY <1>4 DEF DeliverSecret
  <2> QED
    BY <2>1, <2>2, <2>3, <2>4
<1>5. CASE DeliverCopy \/ RequeueTenant
  BY <1>5 DEF DeliverCopy, RequeueTenant
<1>6. CASE RegistryBegin
  <2>1. CASE cRegistry = 0
    BY <1>6, <2>1 DEF RegistryBegin
  <2>2. CASE cRegistry # 0
    BY <1>6, <2>2 DEF RegistryBegin
  <2> QED
    BY <2>1, <2>2
<1>7. CASE ReadHtpasswd
  BY <1>7 DEF ReadHtpasswd, Names
<1>8. CASE ReadClient
  <2>1. rPassword' \in Passwords \cup {NoPassword}
    BY <1>8, GeneratedType DEF ReadClient
  <2>2. rFull' \subseteq Names
    BY <1>8 DEF ReadClient, Names
  <2> QED
    BY <1>8, <2>1, <2>2 DEF ReadClient
<1>9. CASE WriteHtpasswd
  <2>1. "htpasswd" \in Names
    BY DEF Names
  <2> QED
    BY <1>9, <2>1, AcceptedType DEF WriteHtpasswd
<1>10. CASE WriteClient
  <2>1. "client" \in Names
    BY DEF Names
  <2> QED
    BY <1>10, <2>1, AcceptedType DEF WriteClient
<1>11. ASSUME rReturn
       PROVE  /\ rpc' = "idle" /\ rSeen' \in Nat /\ rFull' \subseteq Names
              /\ rPassword' \in Passwords \cup {NoPassword}
              /\ hashed' \in Passwords \cup {NoPassword}
  BY <1>11 DEF rReturn
<1>12. CASE WriteRefused
  BY <1>11, <1>12 DEF WriteRefused, Refused
<1>13. CASE RegistryDone \/ RegistryFails
  BY <1>11, <1>13 DEF RegistryDone, RegistryFails
<1>14. CASE TenantBegin
  BY <1>14 DEF TenantBegin
<1>15. CASE ReadRegistry
  BY <1>15 DEF ReadRegistry
<1>16. CASE ReadSource
  <2>1. cSecrets["client"] \in Secret \cup {Absent}
    BY DEF Names
  <2>2. tLater' \in BOOLEAN
    BY <1>16 DEF ReadSource
  <2> QED
    BY <1>16, <2>1, <2>2 DEF ReadSource
<1>17. CASE ApplyCopy \/ CleanupCopy
  <2>1. copyNews' \in BOOLEAN
    BY <1>17 DEF ApplyCopy, CleanupCopy
  <2> QED
    BY <1>17, <2>1 DEF ApplyCopy, CleanupCopy, tReturn
<1>18. CASE TenantFails
  BY <1>18 DEF TenantFails, tReturn
<1>19. CASE Crash
  <2>1. events' \in Seq([name : Names, secret : Secret \cup {Absent}])
    BY <1>19, EmptySeq DEF Crash
  <2> QED
    BY <1>11, <1>19, <2>1 DEF Crash, tReturn
<1>20. CASE UNCHANGED <<vars, lag>>
  BY <1>20 DEF vars
<1> QED
  BY <1>1, <1>2, <1>3, <1>4, <1>5, <1>6, <1>7, <1>8, <1>9, <1>10, <1>12, <1>13, <1>14, <1>15,
     <1>16, <1>17, <1>18, <1>19, <1>20 DEF Step, Next, Users, Registry, Tenant

\* Every reachable state has the types of the model; a registry reconcile
\* always has a CR, and the tenant controller never applies the answer of a
\* failed Get.
THEOREM TypeCorrect == Spec => []TypeOK
BY TypeInit, TypeStep, PTL DEF Spec, Step

(***************************************************************************)
(* The cache and the events on their way to it                             *)
(***************************************************************************)

\* Event i is the last one about Secret n.
LastOf(i, n) ==
  events[i].name = n /\ \A j \in 1..Len(events) : j > i => events[j].name # n

\* The cache lags behind but never diverges: the last event about a Secret
\* carries the stored version, and without one the cache has it already.
CacheInv ==
  \A n \in Names :
    /\ Fresh(n) => cSecrets[n] = secrets[n]
    /\ \A i \in 1..Len(events) : LastOf(i, n) => events[i].secret = secrets[n]

\* A write is followed by its event.
LEMMA CacheWrite ==
  ASSUME TypeOK, CacheInv, NEW n \in Names, NEW s \in Secret \cup {Absent}, Write(n, s),
         UNCHANGED cSecrets
  PROVE  CacheInv'
<1> DEFINE Event == [name : Names, secret : Secret \cup {Absent}]
           e == [name |-> n, secret |-> s]
<1>1. events \in Seq(Event) /\ e \in Event /\ secrets \in [Names -> Secret \cup {Absent}]
  BY DEF TypeOK
<1>2. secrets' = [secrets EXCEPT ![n] = s] /\ events' = Append(events, e)
  BY DEF Write
<1> HIDE DEF Event
<1>3. /\ Len(events) \in Nat /\ Len(events') = Len(events) + 1
      /\ \A i \in 1..Len(events) : events'[i] = events[i]
      /\ events'[Len(events) + 1] = e
  BY <1>1, <1>2, AppendProperties, LenProperties
<1> SUFFICES ASSUME NEW m \in Names
             PROVE  /\ Fresh(m)' => cSecrets[m] = secrets'[m]
                    /\ \A i \in 1..Len(events') : LastOf(i, m)' => events'[i].secret = secrets'[m]
  BY DEF CacheInv
<1>4. CASE m = n
  <2>1. ~Fresh(m)'
    BY <1>3, <1>4 DEF Fresh
  <2>2. ASSUME NEW i \in 1..Len(events'), LastOf(i, m)' PROVE i = Len(events) + 1
    BY <1>3, <1>4, <2>2 DEF LastOf
  <2>3. secrets'[m] = s
    BY <1>1, <1>2, <1>4
  <2> QED
    BY <1>3, <2>1, <2>2, <2>3
<1>5. CASE m # n
  <2>1. secrets'[m] = secrets[m]
    BY <1>1, <1>2, <1>5
  <2>2. Fresh(m)' => Fresh(m)
    BY <1>3 DEF Fresh
  <2>3. ASSUME NEW i \in 1..Len(events'), LastOf(i, m)'
        PROVE  i \in 1..Len(events) /\ LastOf(i, m)
    BY <1>3, <1>5, <2>3 DEF LastOf
  <2> QED
    BY <1>3, <2>1, <2>2, <2>3 DEF CacheInv
<1> QED
  BY <1>4, <1>5

\* A delivered event brings the cache closer to what is stored.
LEMMA CacheDeliver ==
  ASSUME TypeOK, CacheInv, DeliverSecret
  PROVE  CacheInv'
<1> DEFINE Event == [name : Names, secret : Secret \cup {Absent}]
<1>1. events \in Seq(Event) /\ cSecrets \in [Names -> Secret \cup {Absent}]
  BY DEF TypeOK
<1>2. /\ events # <<>> /\ events' = Tail(events) /\ UNCHANGED secrets
      /\ cSecrets' = [cSecrets EXCEPT ![Head(events).name] = Head(events).secret]
  BY DEF DeliverSecret
<1>e. Head(events) \in Event
  BY <1>1, <1>2, HeadTailProperties
<1>h. Head(events).name \in Names
  BY <1>e
<1> HIDE DEF Event
<1>3. /\ Len(events) \in Nat \ {0} /\ Len(events') = Len(events) - 1
      /\ \A i \in 1..Len(events') : events'[i] = events[i + 1]
      /\ Head(events) = events[1]
  BY <1>1, <1>2, EmptySeq, HeadTailProperties
<1> SUFFICES ASSUME NEW m \in Names
             PROVE  /\ Fresh(m)' => cSecrets'[m] = secrets[m]
                    /\ \A i \in 1..Len(events') : LastOf(i, m)' => events'[i].secret = secrets[m]
  BY <1>2 DEF CacheInv
<1>4. ASSUME NEW i \in 1..Len(events'), LastOf(i, m)'
      PROVE  i + 1 \in 1..Len(events) /\ LastOf(i + 1, m)
  <2>1. i + 1 \in 1..Len(events) /\ events[i + 1].name = m
    BY <1>3, <1>4 DEF LastOf
  <2>2. ASSUME NEW j \in 1..Len(events), j > i + 1 PROVE events[j].name # m
    <3>1. j - 1 \in 1..Len(events') /\ j - 1 > i /\ (j - 1) + 1 = j
      BY <1>3, <2>2
    <3>2. events'[j - 1] = events[j]
      BY <1>3, <3>1
    <3> QED
      BY <1>4, <3>1, <3>2 DEF LastOf
  <2> QED
    BY <2>1, <2>2 DEF LastOf
<1>5. ASSUME Fresh(m)' PROVE \A j \in 1..Len(events) : j > 1 => events[j].name # m
  <2> SUFFICES ASSUME NEW j \in 1..Len(events), j > 1 PROVE events[j].name # m
    OBVIOUS
  <2>1. j - 1 \in 1..Len(events') /\ (j - 1) + 1 = j
    BY <1>3
  <2>2. events'[j - 1] = events[j]
    BY <1>3, <2>1
  <2> QED
    BY <1>5, <2>1, <2>2 DEF Fresh
<1>6. CASE events[1].name = m
  <2>1. ASSUME Fresh(m)' PROVE cSecrets'[m] = secrets[m]
    <3>1. 1 \in 1..Len(events) /\ LastOf(1, m)
      BY <1>3, <1>5, <1>6, <2>1 DEF LastOf
    <3>2. events[1].secret = secrets[m]
      BY <3>1 DEF CacheInv
    <3> QED
      BY <1>1, <1>2, <1>3, <1>6, <3>2
  <2> QED
    BY <1>3, <1>4, <2>1 DEF CacheInv
<1>7. CASE events[1].name # m
  <2>1. ASSUME Fresh(m)' PROVE Fresh(m)
    BY <1>3, <1>5, <1>7, <2>1 DEF Fresh
  <2>2. cSecrets'[m] = cSecrets[m]
    BY <1>1, <1>2, <1>3, <1>7
  <2> QED
    BY <1>3, <1>4, <2>1, <2>2 DEF CacheInv
<1> QED
  BY <1>6, <1>7

(***************************************************************************)
(* What a client is given                                                  *)
(***************************************************************************)

\* Between its two writes a rotating reconcile has hashed its new password.
HashInv == rpc = "client!" /\ rPassword # NoPassword => hashed = rPassword

Inv == CacheInv /\ HashInv

\* Every step keeps the cache behind the store, and the new password in hand.
LEMMA InvStep == TypeOK /\ Inv /\ [Step]_<<vars, lag>> => Inv'
<1> SUFFICES ASSUME TypeOK, CacheInv, HashInv, [Step]_<<vars, lag>> PROVE CacheInv' /\ HashInv'
  BY DEF Inv
<1>c. ASSUME UNCHANGED <<secrets, cSecrets, events>> PROVE CacheInv'
  BY <1>c DEF CacheInv, Fresh, LastOf
<1>h. ASSUME UNCHANGED <<rpc, rPassword, hashed>> PROVE HashInv'
  BY <1>h DEF HashInv
<1>r. ASSUME rReturn PROVE HashInv'
  BY <1>r DEF HashInv, rReturn
<1>a. ASSUME NEW n \in Names, Accepted(n), UNCHANGED cSecrets PROVE CacheInv'
  <2>1. CASE UNCHANGED <<secrets, events>>
    BY <1>a, <1>c, <2>1
  <2>2. CASE Write(n, Mutated(n))
    <3>1. PICK s \in Secret \cup {Absent} : s = Mutated(n)
      BY MutatedType
    <3> QED
      BY <1>a, <2>2, <3>1, CacheWrite
  <2> QED
    BY <1>a, <2>1, <2>2 DEF Accepted
<1>1. CASE CreateRegistry \/ DeleteRegistry \/ CreateTenant \/ MeddleCopy
  BY <1>1, <1>c, <1>h DEF CreateRegistry, DeleteRegistry, CreateTenant, MeddleCopy
<1>2. ASSUME NEW n \in Names, Meddle(n) \/ Collect(n) PROVE CacheInv' /\ HashInv'
  <2>1. PICK s \in Secret \cup {Absent} : Write(n, s)
    <3>1. CASE Write(n, Absent)
      BY <3>1
    <3>2. CASE Write(n, [pw |-> NoPassword, uid |-> secrets[n].uid]) /\ secrets[n] # Absent
      <4>1. [pw |-> NoPassword, uid |-> secrets[n].uid] \in Secret
        BY <3>2 DEF Secret, TypeOK
      <4> QED
        BY <3>2, <4>1
    <3> QED
      BY <1>2, <3>1, <3>2 DEF Meddle, Collect
  <2>2. UNCHANGED <<cSecrets, rpc, rPassword, hashed>>
    BY <1>2 DEF Meddle, Collect
  <2> QED
    BY <1>h, <2>1, <2>2, CacheWrite
<1>3. CASE SyncRegistry \/ SyncTenant \/ DeliverCopy \/ RequeueTenant
  BY <1>3, <1>c, <1>h DEF SyncRegistry, SyncTenant, DeliverCopy, RequeueTenant
<1>4. CASE DeliverSecret
  BY <1>4, <1>h, CacheDeliver DEF DeliverSecret
<1>5. CASE RegistryBegin \/ ReadHtpasswd \/ ReadClient
  <2>1. UNCHANGED <<secrets, cSecrets, events>>
    BY <1>5 DEF RegistryBegin, ReadHtpasswd, ReadClient
  <2>2. rpc' # "client!"
    BY <1>5 DEF RegistryBegin, ReadHtpasswd, ReadClient
  <2> QED
    BY <1>c, <2>1, <2>2 DEF HashInv
<1>6. CASE WriteHtpasswd
  <2>1. "htpasswd" \in Names /\ Accepted("htpasswd") /\ UNCHANGED cSecrets
    BY <1>6 DEF WriteHtpasswd, Names
  <2>2. HashInv'
    BY <1>6 DEF WriteHtpasswd, HashInv
  <2> QED
    BY <1>a, <2>1, <2>2
<1>7. CASE WriteClient
  <2>1. "client" \in Names /\ Accepted("client") /\ UNCHANGED cSecrets /\ rpc' = "cleanup"
    BY <1>7 DEF WriteClient, Names
  <2> QED
    BY <1>a, <2>1 DEF HashInv
<1>8. CASE WriteRefused \/ RegistryDone \/ RegistryFails
  BY <1>8, <1>c, <1>r DEF WriteRefused, Refused, RegistryDone, RegistryFails
<1>9. CASE Tenant \/ TenantFails
  BY <1>9, <1>c, <1>h DEF Tenant, TenantBegin, ReadRegistry, ReadSource, ApplyCopy, CleanupCopy,
     TenantFails
<1>10. CASE Crash
  <2>1. /\ events' = <<>> /\ cSecrets' = secrets /\ UNCHANGED secrets /\ rReturn
    BY <1>10 DEF Crash
  <2>2. Len(events') = 0
    BY <2>1, EmptySeq
  <2>3. CacheInv'
    BY <2>1, <2>2 DEF CacheInv, Fresh
  <2> QED
    BY <1>r, <2>1, <2>3
<1>11. CASE UNCHANGED <<vars, lag>>
  BY <1>11, <1>c, <1>h DEF vars
<1> QED
  BY <1>1, <1>2, <1>3, <1>4, <1>5, <1>6, <1>7, <1>8, <1>9, <1>10, <1>11
     DEF Step, Next, Users, Registry

\* A client is only ever given a password that the same reconcile has just
\* hashed for the registry. The write that would give it another one carries
\* either the password in hand or that of a cached Secret, and then the API
\* server accepts it only if it holds that password already.
THEOREM ClientHashed == Spec => ClientGetsHashed
<1> DEFINE Given == hasSecretData(secrets'["client"])
                    /\ (hasSecretData(secrets["client"])
                          => secrets'["client"].pw # secrets["client"].pw)
<1>1. TypeOK /\ Inv /\ [Step]_<<vars, lag>> =>
        [Given => secrets'["client"].pw = hashed]_vars
  <2> SUFFICES ASSUME TypeOK, CacheInv, HashInv, Step, Given
               PROVE  secrets'["client"].pw = hashed
    BY DEF Inv, vars
  <2>1. secrets'["client"] # secrets["client"]
    BY DEF hasSecretData
  <2>2. "client" \in Names /\ "htpasswd" \in Names
    BY DEF Names
  <2>3. ~(\E n \in Names : Meddle(n) \/ Collect(n))
    <3> SUFFICES ASSUME NEW n \in Names, Meddle(n) \/ Collect(n) PROVE FALSE
      OBVIOUS
    <3>1. n = "client"
      BY <2>1, <2>2 DEF Meddle, Collect, Write, TypeOK
    <3>2. \/ secrets'["client"] = Absent
          \/ secrets'["client"] = [pw |-> NoPassword, uid |-> secrets[n].uid]
      BY <2>2, <3>1 DEF Meddle, Collect, Write, TypeOK
    <3> QED
      BY <3>2 DEF hasSecretData
  <2>4. ~WriteHtpasswd
    BY <2>1, <2>2 DEF WriteHtpasswd, Accepted, Write, TypeOK
  <2>5. WriteClient
    <3>1. ~UNCHANGED secrets
      BY <2>1
    <3> QED
      BY <2>3, <2>4, <3>1 DEF Step, Next, Users, CreateRegistry, DeleteRegistry, CreateTenant,
         MeddleCopy, SyncRegistry, SyncTenant, DeliverSecret, DeliverCopy, RequeueTenant, Registry,
         RegistryBegin, ReadHtpasswd, ReadClient, WriteRefused, Refused, RegistryDone,
         RegistryFails, Tenant, TenantBegin, ReadRegistry, ReadSource, ApplyCopy, CleanupCopy,
         TenantFails, Crash
  <2>6. Fresh("client") /\ secrets'["client"] = Mutated("client") /\ rpc = "client!"
    BY <2>1, <2>2, <2>5 DEF WriteClient, Accepted, Write, TypeOK
  <2>7. cSecrets["client"] = secrets["client"]
    BY <2>2, <2>6 DEF CacheInv
  <2>8. CASE rPassword # NoPassword
    BY <2>6, <2>8 DEF Mutated, HashInv
  <2>9. CASE rPassword = NoPassword
    <3>1. Mutated("client").pw = IF secrets["client"] = Absent THEN NoPassword
                                 ELSE secrets["client"].pw
      BY <2>7, <2>9 DEF Mutated
    <3> QED
      BY <2>6, <3>1 DEF hasSecretData
  <2> QED
    BY <2>8, <2>9
<1>2. Init => Inv
  <2> SUFFICES ASSUME Init PROVE CacheInv /\ HashInv
    BY DEF Inv
  <2>1. Len(events) = 0 /\ cSecrets = secrets /\ rpc = "idle"
    BY EmptySeq DEF Init
  <2> QED
    BY <2>1 DEF CacheInv, HashInv, Fresh
<1> QED
  BY <1>1, <1>2, TypeInit, TypeStep, InvStep, PTL DEF Spec, Step, ClientGetsHashed
=============================================================================

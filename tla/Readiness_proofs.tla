-------------------------- MODULE Readiness_proofs --------------------------
(***************************************************************************)
(* What the Konflux controller reports, for every set of components, any   *)
(* part of them optional or in need of Certificates, and any number of     *)
(* edits, installations, changes of health, failed calls and crashes.      *)
(***************************************************************************)
EXTENDS Readiness, TLAPS

USE DEF konflux, subs, deploys, queues, kLocal, cLocal, used

Step == Next /\ UNCHANGED order

(***************************************************************************)
(* Typing                                                                  *)
(***************************************************************************)

\* The components are a sequence, and outside the collection of statuses the
\* next one to look at is the first.
TypeInv ==
  /\ TypeOK
  /\ order \in Seq(AllComponents)
  /\ kpc # "collect" => kNext = 1

\* A component is one of the sequence.
LEMMA ComponentsIndex ==
  ASSUME order \in Seq(AllComponents)
  PROVE  Len(order) \in Nat /\ \A i \in 1..Len(order) : order[i] \in Components
BY DEF Components

\* The components of a cluster, and with them the types of statuses, are fixed.
LEMMA ComponentsStable ==
  ASSUME order' = order
  PROVE  /\ Components' = Components /\ Status' = Status
         /\ StatusCopy' = StatusCopy /\ NoStatus' = NoStatus
BY DEF Components, Status, StatusCopy, NoStatus

\* What an in-memory copy of the status becomes is a copy of a status, and can
\* be stored.
LEMMA CopyType ==
  /\ NoStatus \in Status
  /\ \A s \in Status, t \in BOOLEAN : Copy(s, t) \in StatusCopy
  /\ \A s \in StatusCopy : Stored(s) \in Status
  /\ \A s \in StatusCopy, v \in {"none", "true", "false"} : SetReady(s, v) \in StatusCopy
  /\ \A s \in StatusCopy, v \in {"none", "true", "false", "unknown"} :
       SetCertManager(s, v) \in StatusCopy
  /\ \A s \in StatusCopy, c \in Components, v \in {"unknown", "true", "false"} :
       CopySubCRStatus(s, c, v) \in StatusCopy
<1>1. NoStatus \in Status
  BY DEF NoStatus, Status
<1>2. \A s \in Status, t \in BOOLEAN : Copy(s, t) \in StatusCopy
  BY DEF Copy, Status, StatusCopy
<1>3. \A s \in StatusCopy : Stored(s) \in Status
  BY DEF Stored, Status, StatusCopy
<1>4. \A s \in StatusCopy, v \in {"none", "true", "false"} : SetReady(s, v) \in StatusCopy
  BY DEF SetReady, StatusCopy
<1>5. \A s \in StatusCopy, v \in {"none", "true", "false", "unknown"} :
         SetCertManager(s, v) \in StatusCopy
  BY DEF SetCertManager, StatusCopy
<1>6. \A s \in StatusCopy, c \in Components, v \in {"unknown", "true", "false"} :
         CopySubCRStatus(s, c, v) \in StatusCopy
  BY DEF CopySubCRStatus, StatusCopy
<1> QED
  BY <1>1, <1>2, <1>3, <1>4, <1>5, <1>6

\* A new Konflux CR has well-typed state.
LEMMA TypeInit == Init => TypeInv
<1> SUFFICES ASSUME Init PROVE TypeInv
  OBVIOUS
<1>1. order \in Seq(AllComponents)
  BY ReadinessAssumption DEF Init
<1>2. kNext \in 1..(Len(order) + 1) /\ kNext = 1
  BY <1>1, ComponentsIndex DEF Init
<1>3. /\ status \in Status /\ certs \in BOOLEAN /\ cQueued \in SUBSET Components
      /\ sub \in [Components -> {"absent", "unknown", "true", "false"}]
      /\ health \in [Components -> {"none", "down", "up"}]
  <2>1. CASE NewCluster
    BY <2>1, CopyType DEF NewCluster
  <2>2. CASE DeployedCluster
    BY <2>2 DEF DeployedCluster, Status
  <2> QED
    BY <2>1, <2>2 DEF Init
<1>4. cStatus \in Status /\ kCopy \in StatusCopy
  BY <1>3, CopyType DEF Init
<1>5. started \in SUBSET Components
  BY DEF Init, Startable
<1>6. /\ cSub = sub /\ cHealth = health /\ {enabled, cEnabled, kSeen, orphaned} \subseteq SUBSET Components
      /\ {lag, cLag} \subseteq [Components -> Lag]
  BY DEF Init, Lag
<1>7. /\ {kBehind, up, kQueued, kLater, kAllReady, kCurrent} \subseteq BOOLEAN /\ kpc = "idle"
      /\ cpc \in [Components -> {"idle", "apply", "update"}]
  BY DEF Init
<1>8. TypeOK
  BY <1>2, <1>3, <1>4, <1>5, <1>6, <1>7 DEF TypeOK
<1> QED
  BY <1>1, <1>2, <1>7, <1>8 DEF TypeInv

\* The final status is a copy of a status with the conditions collected, and
\* says Ready only if all of them do and cert-manager is not known to be missing.
LEMMA FinalStatusFacts ==
  ASSUME NEW s \in StatusCopy, NEW v \in {"true", "false", "unknown"}
  PROVE  /\ FinalStatus(s, v) \in StatusCopy
         /\ FinalStatus(s, v).conds = s.conds
         /\ FinalStatus(s, v).ready = "true" => kAllReady /\ FinalStatus(s, v).cm # "false"
<1> DEFINE r == IF kAllReady THEN "true" ELSE "false"
           a == Aggregate(s)
           t == SetCertManager(a, v)
<1>1. a \in StatusCopy /\ a.conds = s.conds /\ a.ready = r
  <2>1. a = SetReady(s, r)
    BY DEF Aggregate
  <2>2. r \in {"none", "true", "false"}
    OBVIOUS
  <2>3. SetReady(s, r) \in StatusCopy
    BY <2>2, CopyType
  <2>4. SetReady(s, r).conds = s.conds /\ SetReady(s, r).ready = r
    BY DEF SetReady, StatusCopy
  <2> QED
    BY <2>1, <2>3, <2>4
<1> HIDE DEF a
<1>2. t \in StatusCopy /\ t.conds = a.conds /\ t.ready = a.ready /\ t.cm = v
  <2>1. t \in StatusCopy
    BY <1>1, CopyType
  <2>2. t.conds = a.conds /\ t.ready = a.ready /\ t.cm = v
    BY <1>1 DEF SetCertManager, StatusCopy
  <2> QED
    BY <2>1, <2>2
<1>3. FinalStatus(s, v) = IF t.cm = "false" THEN SetReady(t, "false") ELSE t
  BY DEF FinalStatus, CheckCertManager, a
<1> HIDE DEF t
<1>4. CASE t.cm = "false"
  <2>1. SetReady(t, "false") \in StatusCopy
    BY <1>2, CopyType
  <2>2. SetReady(t, "false").conds = t.conds /\ SetReady(t, "false").ready = "false"
    BY <1>2 DEF SetReady, StatusCopy
  <2> QED
    BY <1>1, <1>2, <1>3, <1>4, <2>1, <2>2
<1>5. CASE t.cm # "false"
  BY <1>1, <1>2, <1>3, <1>5
<1> QED
  BY <1>4, <1>5

\* What a report of a failure leaves behind.
LEMMA FailedFacts ==
  ASSUME kCopy \in StatusCopy
  PROVE  Failed \in StatusCopy /\ Failed.ready = "false"
<1>1. Failed \in StatusCopy
  BY CopyType DEF Failed
<1>2. Failed.ready = "false"
  BY DEF Failed, SetReady, StatusCopy
<1> QED
  BY <1>1, <1>2

\* A return ends the pass of the Konflux controller.
LEMMA ReturnType ==
  ASSUME TypeInv, order' = order, NEW k, kReturn(k)
  PROVE  /\ kpc' = "idle" /\ kSeen' = {} /\ kCopy' \in StatusCopy /\ kNext' = 1
         /\ kNext' \in 1..(Len(order) + 1)
         /\ kAllReady' \in BOOLEAN /\ kCurrent' \in BOOLEAN /\ up' \in BOOLEAN
<1>1. kCopy' \in StatusCopy
  BY CopyType DEF kReturn
<1>2. 1 \in 1..(Len(order) + 1)
  BY ComponentsIndex DEF TypeInv
<1>3. up' \in BOOLEAN
  BY DEF kReturn
<1> QED
  BY <1>1, <1>2, <1>3 DEF kReturn

\* What the write of a status stores has the type of a status.
LEMMA StoreType ==
  ASSUME TypeInv, NEW s \in StatusCopy, SetKonflux(s)
  PROVE  status' = Stored(s) /\ status' \in Status /\ kBehind' \in BOOLEAN
<1>1. status' = Stored(s) /\ status' \in Status
  BY CopyType DEF SetKonflux
<1>2. kBehind' \in BOOLEAN
  BY DEF SetKonflux
<1> QED
  BY <1>1, <1>2

\* Writing the condition of a sub-CR.
LEMMA SetSubType ==
  ASSUME TypeInv, NEW c \in Components, NEW v \in {"true", "false"}, SetSub(c, v)
  PROVE  /\ sub' \in [Components -> {"absent", "unknown", "true", "false"}]
         /\ lag' \in [Components -> Lag]
BY DEF TypeInv, TypeOK, SetSub, Changed, Lag

\* Every step of users, informers and controllers keeps the types.
LEMMA TypeStep == TypeInv /\ [Step]_<<vars, order>> => TypeInv'
<1> SUFFICES ASSUME TypeInv, [Step]_<<vars, order>> PROVE TypeInv'
  OBVIOUS
<1>o. order' = order
  BY DEF Step
<1>s. Components' = Components /\ Status' = Status /\ StatusCopy' = StatusCopy
  BY <1>o, ComponentsStable
<1>n. Len(order) \in Nat
  BY ComponentsIndex DEF TypeInv
<1> USE <1>o, <1>s DEF TypeInv, TypeOK
<1>1. CASE InstallCertManager \/ RemoveCertManager
  <2>1. certs' \in BOOLEAN /\ cQueued' \subseteq Components
    BY <1>1 DEF InstallCertManager, RemoveCertManager
  <2>2. UNCHANGED <<konflux, subs, deploys, up, kQueued, kLater, kLocal, cLocal>>
    BY <1>1 DEF InstallCertManager, RemoveCertManager
  <2> QED
    BY <2>1, <2>2
<1>2. CASE SyncKonflux \/ RequeueKonflux
  <2>1. /\ kBehind' \in BOOLEAN /\ kQueued' \in BOOLEAN /\ kLater' \in BOOLEAN
        /\ cEnabled' \in {cEnabled, enabled} /\ cStatus' \in {cStatus, status}
    BY <1>2 DEF SyncKonflux, RequeueKonflux
  <2>2. UNCHANGED <<enabled, status, subs, deploys, certs, up, cQueued, kLocal, cLocal>>
    BY <1>2 DEF SyncKonflux, RequeueKonflux
  <2> QED
    BY <2>1, <2>2
<1>3. ASSUME NEW c \in Components, EditSpec(c) PROVE TypeInv'
  <2>1. enabled' \in SUBSET Components /\ kBehind' \in BOOLEAN /\ kCurrent' \in BOOLEAN
    BY <1>3 DEF EditSpec
  <2>2. UNCHANGED <<status, cEnabled, cStatus, subs, deploys, certs, up, queues, kpc, kSeen,
                    kCopy, kNext, kAllReady, cLocal>>
    BY <1>3 DEF EditSpec
  <2> QED
    BY <2>1, <2>2
<1>4. ASSUME NEW c \in Components, Flip(c) \/ Collect(c) PROVE TypeInv'
  BY <1>4 DEF Flip, Collect
<1>5. ASSUME NEW c \in Components, SyncSub(c) PROVE TypeInv'
  BY <1>5 DEF SyncSub, Lag
<1>6. ASSUME NEW c \in Components, SyncHealth(c) PROVE TypeInv'
  BY <1>6 DEF SyncHealth
<1>7. ASSUME NEW c \in Components, ComponentBegin(c) PROVE TypeInv'
  BY <1>7 DEF ComponentBegin
<1>8. ASSUME NEW c \in Components, ComponentApply(c) PROVE TypeInv'
  BY <1>8 DEF ComponentApply
<1>9. ASSUME NEW c \in Components, cReturn(c)
      PROVE  /\ cpc' \in [Components -> {"idle", "apply", "update"}]
             /\ cLag' \in [Components -> Lag] /\ started' = started
  BY <1>9 DEF cReturn, Lag
<1>10. ASSUME NEW c \in Components, ReportSub(c)
       PROVE  /\ sub' \in [Components -> {"absent", "unknown", "true", "false"}]
              /\ lag' \in [Components -> Lag]
  <2>1. CASE SetSub(c, "false")
    BY <2>1, SetSubType
  <2>2. CASE UNCHANGED <<sub, lag>>
    BY <2>2
  <2> QED
    BY <1>10, <2>1, <2>2 DEF ReportSub
<1>11. ASSUME NEW c \in Components, ComponentUpdate(c) PROVE TypeInv'
  <2>1. ComponentReady(c) \in {"true", "false"}
    BY DEF ComponentReady
  <2>2. /\ sub' \in [Components -> {"absent", "unknown", "true", "false"}]
        /\ lag' \in [Components -> Lag] /\ cQueued' \subseteq Components
    <3>1. CASE SetSub(c, ComponentReady(c)) /\ UNCHANGED cQueued
      BY <2>1, <3>1, SetSubType
    <3>2. CASE cQueued' = cQueued \cup {c} /\ UNCHANGED <<sub, lag>>
      BY <3>2
    <3> QED
      BY <1>11, <3>1, <3>2 DEF ComponentUpdate
  <2>3. cReturn(c) /\ UNCHANGED <<konflux, cSub, deploys, certs, up, kQueued, kLater, kLocal, used>>
    BY <1>11 DEF ComponentUpdate
  <2> QED
    BY <1>9, <2>2, <2>3
<1>12. ASSUME NEW c \in Components, ComponentRefused(c) \/ ComponentFails(c) PROVE TypeInv'
  <2>1. /\ sub' \in [Components -> {"absent", "unknown", "true", "false"}]
        /\ lag' \in [Components -> Lag]
    BY <1>10, <1>12 DEF ComponentRefused, ComponentFails
  <2>2. /\ cReturn(c) /\ cQueued' = cQueued \cup {c}
        /\ UNCHANGED <<konflux, cSub, deploys, certs, up, kQueued, kLater, kLocal>>
    BY <1>12 DEF ComponentRefused, ComponentFails, ComponentError
  <2> QED
    BY <1>9, <2>1, <2>2
<1>13. CASE KonfluxBegin
  <2>1. kCopy' \in StatusCopy
    BY <1>13, CopyType DEF KonfluxBegin
  <2>2. /\ kpc = "idle" /\ kpc' = "apply" /\ kSeen' = cEnabled
        /\ kQueued' \in BOOLEAN /\ kCurrent' \in BOOLEAN
        /\ UNCHANGED <<konflux, subs, deploys, certs, up, cQueued, kLater, kNext, kAllReady,
                       cLocal, used>>
    BY <1>13 DEF KonfluxBegin
  <2> QED
    BY <2>1, <2>2
<1>14. CASE ApplySubCRs
  <2>1. sub' \in [Components -> {"absent", "unknown", "true", "false"}]
    BY <1>14 DEF ApplySubCRs
  <2>2. lag' \in [Components -> Lag]
    BY <1>14 DEF ApplySubCRs, Changed, Lag
  <2>3. cLag' \in [Components -> Lag]
    BY <1>14 DEF ApplySubCRs, Lag
  <2>4. /\ orphaned' \subseteq Components /\ kpc' = "collect"
        /\ UNCHANGED <<konflux, cSub, health, cHealth, certs, up, queues, kSeen, kCopy, kNext,
                       kAllReady, kCurrent, cpc, started, used>>
    BY <1>14 DEF ApplySubCRs
  <2> QED
    BY <2>1, <2>2, <2>3, <2>4
<1>15. ASSUME NEW c \in Components, CollectStatus(c) PROVE TypeInv'
  <2>1. cSub[c] \in {"unknown", "true", "false"}
    BY <1>15 DEF CollectStatus, Collected
  <2>2. kCopy' \in StatusCopy
    BY <1>15, <2>1, CopyType DEF CollectStatus
  <2>3. kNext' \in 1..(Len(order) + 1) /\ kpc = "collect"
    BY <1>15, <1>n DEF CollectStatus, AtComponent
  <2>4. /\ kAllReady' \in BOOLEAN
        /\ UNCHANGED <<konflux, subs, deploys, certs, up, queues, kpc, kSeen, kCurrent, cLocal, used>>
    BY <1>15 DEF CollectStatus
  <2> QED
    BY <2>2, <2>3, <2>4
<1>16. ASSUME NEW c \in Components, SkipStatus(c) PROVE TypeInv'
  <2>1. kNext' \in 1..(Len(order) + 1) /\ kpc = "collect"
    BY <1>16, <1>n DEF SkipStatus, AtComponent
  <2> QED
    BY <1>16, <2>1 DEF SkipStatus
<1>17. ASSUME ReportKonflux \/ UNCHANGED <<status, kBehind>>, KonfluxError PROVE TypeInv'
  <2>1. status' \in Status /\ kBehind' \in BOOLEAN
    BY <1>17, FailedFacts, StoreType DEF ReportKonflux
  <2>2. /\ kReturn(Failed) /\ kQueued' = TRUE
        /\ UNCHANGED <<enabled, cEnabled, cStatus, subs, deploys, certs, cQueued, kLater, cLocal>>
    BY <1>17 DEF KonfluxError
  <2>3. /\ kpc' = "idle" /\ kSeen' = {} /\ kCopy' \in StatusCopy /\ kNext' = 1
        /\ kNext' \in 1..(Len(order) + 1)
        /\ kAllReady' \in BOOLEAN /\ kCurrent' \in BOOLEAN /\ up' \in BOOLEAN
    BY <2>2, ReturnType
  <2> QED
    BY <2>1, <2>2, <2>3
<1>18. ASSUME NEW c \in Components, CollectNotFound(c) PROVE TypeInv'
  BY <1>17, <1>18 DEF CollectNotFound
<1>19. CASE KonfluxFails
  BY <1>17, <1>19 DEF KonfluxFails
<1>20. CASE KonfluxUpdate
  <2>1. PICK v \in {"true", "false", "unknown"} :
          /\ kReturn(FinalStatus(kCopy, v))
          /\ IF kCurrent
               THEN /\ SetKonflux(FinalStatus(kCopy, v))
                    /\ kLater' = (kLater \/ RecheckLater(v))
                    /\ UNCHANGED kQueued
               ELSE kQueued' = TRUE /\ UNCHANGED <<status, kBehind, kLater>>
    BY <1>20 DEF KonfluxUpdate
  <2>2. status' \in Status /\ kBehind' \in BOOLEAN
    BY <2>1, FinalStatusFacts, StoreType
  <2>3. kLater' \in BOOLEAN /\ kQueued' \in BOOLEAN
    BY <2>1
  <2>4. /\ kpc' = "idle" /\ kSeen' = {} /\ kCopy' \in StatusCopy /\ kNext' = 1
        /\ kNext' \in 1..(Len(order) + 1)
        /\ kAllReady' \in BOOLEAN /\ kCurrent' \in BOOLEAN /\ up' \in BOOLEAN
    BY <2>1, ReturnType
  <2>5. UNCHANGED <<enabled, cEnabled, cStatus, subs, deploys, certs, cQueued, cLocal>>
    BY <1>20 DEF KonfluxUpdate
  <2> QED
    BY <2>2, <2>3, <2>4, <2>5
<1>21. ASSUME RestartProcess PROVE TypeInv'
  <2>1. /\ kReturn(NoStatus)
        /\ cEnabled' = enabled /\ cStatus' = status /\ kBehind' = FALSE
        /\ cSub' = sub /\ lag' = [c \in Components |-> "none"] /\ cHealth' = health
        /\ cpc' = [c \in Components |-> "idle"]
        /\ cLag' = [c \in Components |-> "none"] /\ started' = Startable
        /\ kQueued' = TRUE /\ cQueued' = Components /\ kLater' = FALSE
        /\ UNCHANGED <<enabled, status, sub, health, orphaned, certs>>
    BY <1>21 DEF RestartProcess
  <2>2. /\ kpc' = "idle" /\ kSeen' = {} /\ kCopy' \in StatusCopy /\ kNext' = 1
        /\ kNext' \in 1..(Len(order) + 1)
        /\ kAllReady' \in BOOLEAN /\ kCurrent' \in BOOLEAN /\ up' \in BOOLEAN
    BY <2>1, ReturnType
  <2>3. /\ lag' \in [Components -> Lag] /\ cLag' \in [Components -> Lag]
        /\ cpc' \in [Components -> {"idle", "apply", "update"}]
    BY <2>1 DEF Lag
  <2>4. /\ cEnabled' \in SUBSET Components /\ cQueued' \in SUBSET Components
        /\ started' \in SUBSET Components /\ cStatus' \in Status
        /\ cSub' \in [Components -> {"absent", "unknown", "true", "false"}]
        /\ cHealth' \in [Components -> {"none", "down", "up"}]
    BY <2>1 DEF Startable
  <2>5. kBehind' \in BOOLEAN /\ kQueued' \in BOOLEAN /\ kLater' \in BOOLEAN
    BY <2>1
  <2>6. UNCHANGED <<enabled, status, sub, health, orphaned, certs>>
    BY <2>1
  <2> QED
    BY <2>2, <2>3, <2>4, <2>5, <2>6
<1>22. CASE Crash \/ CacheSyncTimeout
  BY <1>21, <1>22 DEF Crash, CacheSyncTimeout
<1>23. ASSUME NEW c \in Components, StartController(c) PROVE TypeInv'
  BY <1>23 DEF StartController
<1>24. CASE UNCHANGED <<vars, order>>
  BY <1>24 DEF vars
<1> QED
  BY <1>1, <1>2, <1>3, <1>4, <1>5, <1>6, <1>7, <1>8, <1>11, <1>12, <1>13, <1>14, <1>15, <1>16,
     <1>18, <1>19, <1>20, <1>22, <1>23, <1>24 DEF Step, Next, Konflux, Component

\* Every reachable state has the types of the model: in particular no
\* condition is ever copied to the Konflux CR that a sub-CR cannot have reported.
THEOREM TypeCorrect == Spec => []TypeOK
<1>1. TypeInv => TypeOK
  BY DEF TypeInv
<1> QED
  BY <1>1, TypeInit, TypeStep, PTL DEF Spec, Step

(***************************************************************************)
(* The Ready condition and the conditions next to it                       *)
(***************************************************************************)

Mandatory == Components \ Optional

\* Users cannot disable a mandatory component, so every copy of the spec wants
\* it; while statuses are collected and all were ready so far, each one that was
\* wanted has been copied as ready.
ReadyInv ==
  /\ StatusConsistent
  /\ Mandatory \subseteq enabled /\ Mandatory \subseteq cEnabled
  /\ kpc # "idle" => Mandatory \subseteq kSeen
  /\ kpc = "collect" /\ kAllReady =>
       \A i \in 1..Len(order) : i < kNext /\ order[i] \in kSeen => kCopy.conds[order[i]] = "true"

\* No step writes Ready=True beside a condition that contradicts it.
LEMMA ReadyStep == TypeInv /\ ReadyInv /\ [Step]_<<vars, order>> => ReadyInv'
<1> SUFFICES ASSUME TypeInv, ReadyInv, [Step]_<<vars, order>> PROVE ReadyInv'
  OBVIOUS
<1>o. order' = order
  BY DEF Step
<1>s. Components' = Components /\ Mandatory' = Mandatory
  BY <1>o, ComponentsStable DEF Mandatory
<1>n. Len(order) \in Nat /\ kNext \in 1..(Len(order) + 1) /\ kCopy \in StatusCopy
  BY ComponentsIndex DEF TypeInv, TypeOK
<1> USE <1>o, <1>s DEF ReadyInv
\* The status is left alone and so is the Konflux reconcile.
<1>1. ASSUME UNCHANGED <<status, cEnabled, enabled, kpc, kSeen, kCopy, kNext, kAllReady>>
      PROVE  ReadyInv'
  BY <1>1 DEF StatusConsistent, Mandatory
<1>2. ASSUME NEW k, kReturn(k), UNCHANGED enabled, cEnabled' \in {cEnabled, enabled},
             StatusConsistent'
      PROVE  ReadyInv'
  BY <1>2 DEF kReturn
<1>3. CASE InstallCertManager \/ RemoveCertManager \/ RequeueKonflux \/ UNCHANGED vars
  BY <1>1, <1>3 DEF InstallCertManager, RemoveCertManager, RequeueKonflux, vars
<1>4. CASE SyncKonflux
  BY <1>4 DEF SyncKonflux, StatusConsistent, Mandatory
<1>5. ASSUME NEW c \in Components, EditSpec(c) PROVE ReadyInv'
  <2>1. Mandatory \subseteq enabled'
    BY <1>5 DEF EditSpec, Mandatory
  <2>2. UNCHANGED <<status, cEnabled, kpc, kSeen, kCopy, kNext, kAllReady>>
    BY <1>5 DEF EditSpec
  <2>3. StatusConsistent'
    BY <2>2 DEF StatusConsistent
  <2> QED
    BY <2>1, <2>2, <2>3
<1>6. ASSUME NEW c \in Components,
             \/ Flip(c) \/ Collect(c) \/ SyncSub(c) \/ SyncHealth(c)
             \/ StartController(c) \/ Component(c) \/ ComponentFails(c)
      PROVE  ReadyInv'
  BY <1>1, <1>6 DEF Flip, Collect, SyncSub, SyncHealth, StartController, Component, ComponentBegin,
     ComponentApply, ComponentUpdate, ComponentRefused, ComponentFails, ComponentError
<1>7. CASE KonfluxBegin
  <2>1. /\ kpc' = "apply" /\ kSeen' = cEnabled /\ UNCHANGED <<enabled, cEnabled, status>>
    BY <1>7 DEF KonfluxBegin
  <2> QED
    BY <2>1 DEF StatusConsistent
<1>8. CASE ApplySubCRs
  <2>1. /\ kpc = "apply" /\ kpc' = "collect" /\ kNext = 1
        /\ UNCHANGED <<enabled, cEnabled, status, kSeen, kCopy, kNext, kAllReady>>
    BY <1>8 DEF ApplySubCRs, TypeInv
  <2> QED
    BY <2>1 DEF StatusConsistent
<1>9. ASSUME NEW c \in Components, CollectStatus(c) PROVE ReadyInv'
  <2>1. /\ kpc = "collect" /\ c = order[kNext] /\ UNCHANGED <<enabled, cEnabled, status, kpc, kSeen>>
        /\ kNext' = kNext + 1 /\ kAllReady' = (kAllReady /\ cSub[c] = "true")
    BY <1>9 DEF CollectStatus, AtComponent
  <2>2. cSub[c] = "true" => kCopy'.conds = [kCopy.conds EXCEPT ![c] = "true"]
    BY <1>9, <1>n DEF CollectStatus, CopySubCRStatus, StatusCopy
  <2>3. kCopy.conds \in [Components -> {"none", "true", "false"}]
    BY <1>n DEF StatusCopy
  <2>4. ASSUME kAllReady', NEW i \in 1..Len(order), i < kNext', order[i] \in kSeen
        PROVE  kCopy'.conds[order[i]] = "true"
    <3>1. order[i] \in Components
      BY ComponentsIndex DEF TypeInv
    <3>2. cSub[c] = "true" /\ kAllReady
      BY <2>1, <2>4
    <3>3. i < kNext \/ i = kNext
      BY <1>n, <2>1, <2>4
    <3>4. CASE i = kNext
      BY <2>1, <2>2, <2>3, <3>2, <3>4
    <3>5. CASE i < kNext
      <4>1. kCopy.conds[order[i]] = "true"
        BY <2>1, <2>4, <3>2, <3>5
      <4> QED
        BY <2>2, <2>3, <3>1, <3>2, <4>1
    <3> QED
      BY <3>3, <3>4, <3>5
  <2>5. StatusConsistent'
    BY <2>1 DEF StatusConsistent
  <2> QED
    BY <2>1, <2>4, <2>5
<1>10. ASSUME NEW c \in Components, SkipStatus(c) PROVE ReadyInv'
  <2>1. /\ kpc = "collect" /\ c = order[kNext] /\ c \notin kSeen /\ kNext' = kNext + 1
        /\ UNCHANGED <<enabled, cEnabled, status, kpc, kSeen, kCopy, kAllReady>>
    BY <1>10 DEF SkipStatus, AtComponent
  <2>2. \A i \in 1..Len(order) : i < kNext' => i < kNext \/ i = kNext
    BY <1>n, <2>1
  <2>3. StatusConsistent'
    BY <2>1 DEF StatusConsistent
  <2> QED
    BY <2>1, <2>2, <2>3
<1>11. ASSUME ReportKonflux \/ UNCHANGED <<status, kBehind>>, KonfluxError PROVE ReadyInv'
  <2>1. CASE UNCHANGED status
    BY <1>2, <1>11, <2>1 DEF KonfluxError, StatusConsistent
  <2>2. CASE SetKonflux(Failed)
    <3>1. status' = Stored(Failed)
      BY <2>2 DEF SetKonflux
    <3>2. status'.ready = "false"
      BY <1>n, <3>1, FailedFacts DEF Stored
    <3> QED
      BY <1>2, <1>11, <3>2 DEF KonfluxError, StatusConsistent
  <2> QED
    BY <1>11, <2>1, <2>2 DEF ReportKonflux
<1>12. ASSUME NEW c \in Components, CollectNotFound(c) PROVE ReadyInv'
  BY <1>11, <1>12 DEF CollectNotFound
<1>13. CASE KonfluxFails
  BY <1>11, <1>13 DEF KonfluxFails
<1>14. CASE KonfluxUpdate
  <2>1. PICK v \in {"true", "false", "unknown"} :
          /\ kReturn(FinalStatus(kCopy, v))
          /\ SetKonflux(FinalStatus(kCopy, v)) \/ UNCHANGED status
    BY <1>14 DEF KonfluxUpdate
  <2>2. kpc = "collect" /\ kNext > Len(order) /\ UNCHANGED <<enabled, cEnabled>>
    BY <1>14 DEF KonfluxUpdate
  <2> DEFINE f == FinalStatus(kCopy, v)
  <2>3. ASSUME status' = Stored(f), status'.ready = "true" PROVE StatusConsistent'
    <3>1. /\ f.ready = "true" /\ status'.cm = f.cm /\ status'.conds = f.conds
      BY <2>3 DEF Stored
    <3>2. kAllReady /\ f.cm # "false" /\ f.conds = kCopy.conds
      BY <1>n, <3>1, FinalStatusFacts
    <3>3. ASSUME NEW c \in Mandatory PROVE kCopy.conds[c] = "true"
      <4>1. PICK i \in 1..Len(order) : c = order[i]
        BY DEF Mandatory, Components
      <4>2. i < kNext /\ order[i] \in kSeen
        BY <1>n, <2>2, <4>1
      <4> QED
        BY <2>2, <3>2, <4>1, <4>2
    <3> QED
      BY <3>1, <3>2, <3>3 DEF StatusConsistent, Mandatory
  <2>4. StatusConsistent'
    BY <2>1, <2>3 DEF SetKonflux, StatusConsistent
  <2> QED
    BY <1>2, <2>1, <2>2, <2>4
<1>15. CASE Crash \/ CacheSyncTimeout
  BY <1>2, <1>15 DEF Crash, CacheSyncTimeout, RestartProcess, StatusConsistent
<1> QED
  BY <1>3, <1>4, <1>5, <1>6, <1>7, <1>8, <1>9, <1>10, <1>12, <1>13, <1>14, <1>15
     DEF Step, Next, Konflux, vars

\* The Konflux CR never says Ready=True while it says as well that
\* cert-manager is missing or that a mandatory component is not ready, whatever
\* path wrote the status and however outdated what it was written from.
THEOREM StatusSafe == Spec => []StatusConsistent
<1>1. ASSUME Init PROVE ReadyInv
  <2>1. StatusConsistent
    <3>1. CASE NewCluster
      BY <3>1 DEF NewCluster, NoStatus, StatusConsistent
    <3>2. CASE DeployedCluster
      BY <3>2 DEF DeployedCluster, StatusConsistent
    <3> QED
      BY <1>1, <3>1, <3>2 DEF Init
  <2> QED
    BY <1>1, <2>1 DEF Init, ReadyInv, Mandatory
<1>2. ReadyInv => StatusConsistent
  BY DEF ReadyInv
<1> QED
  BY <1>1, <1>2, TypeInit, TypeStep, ReadyStep, PTL DEF Spec, Step
=============================================================================

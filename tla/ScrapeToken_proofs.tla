------------------------- MODULE ScrapeToken_proofs -------------------------
(***************************************************************************)
(* The scrape wiring for both callers, every token life, delay and bound,  *)
(* and any number of failed calls, crashes and changes by others.          *)
(***************************************************************************)
EXTENDS ScrapeToken, SequenceTheorems, TLAPS

USE DEF world, used

(***************************************************************************)
(* Constants and helpers                                                   *)
(***************************************************************************)

\* Half of a life is less than the life, and has room for two intervals.
LEMMA Times ==
  /\ TTL \in Nat \ {0} /\ Half \in Nat /\ Half < TTL
  /\ Interval \in Nat \ {0} /\ Interval + Interval <= Half
  /\ Settle \in Nat \ {0} /\ TLSRequeue \in Nat \ {0} /\ MinRequeue \in Nat \ {0}
  /\ MaxBackoff \in Nat \ {0}
  /\ NoTimer \in Nat /\ Interval < NoTimer
BY ScrapeAssumption DEF Half, NoTimer

\* None is neither a Secret nor a ServiceMonitor.
LEMMA NoneIsNothing ==
  None \notin Versions /\ None \notin Nat /\ None \notin Secret /\ None \notin ServiceMonitor
BY ScrapeAssumption

\* The smaller of two waits is one of them and no larger than either.
LEMMA SmallerFacts ==
  ASSUME NEW a \in Nat, NEW b \in Nat
  PROVE  Smaller(a, b) \in Nat /\ Smaller(a, b) <= a /\ Smaller(a, b) <= b
BY DEF Smaller

\* A new version is a version, and is in use nowhere.
LEMMA FreshFacts == CanStore => Fresh \in Versions /\ Fresh \notin InUse
BY DEF CanStore, Fresh

\* A new pass has the type of a pass.
LEMMA NewRunType == NewRun \in Run
BY Times DEF NewRun, Run

\* A Secret ages by one unit and is otherwise the same.
LEMMA OlderType ==
  ASSUME NEW s \in Secret \cup {None}
  PROVE  /\ Older(s) \in Secret \cup {None}
         /\ s = None <=> Older(s) = None
         /\ s # None => Older(s).token = s.token /\ Older(s).rv = s.rv
                        /\ Older(s).left = IF s.left > 0 THEN s.left - 1 ELSE 0
<1>1. CASE s = None
  BY <1>1 DEF Older
<1>2. CASE s # None
  <2>1. s \in Secret /\ Older(s) = [s EXCEPT !.left = IF s.left > 0 THEN s.left - 1 ELSE 0]
    BY <1>2 DEF Older
  <2>2. Older(s) \in Secret
    BY <2>1, Times DEF Secret
  <2>3. /\ Older(s).token = s.token /\ Older(s).rv = s.rv
        /\ Older(s).left = IF s.left > 0 THEN s.left - 1 ELSE 0
    BY <2>1 DEF Secret
  <2> QED
    BY <1>2, <2>2, <2>3, NoneIsNothing
<1> QED
  BY <1>1, <1>2

(***************************************************************************)
(* Typing                                                                  *)
(***************************************************************************)

\* The types hold initially.
LEMMA TypeInit == Init => TypeOK
<1> SUFFICES ASSUME Init PROVE TypeOK
  OBVIOUS
<1>1. caller \in {"operand", "rotator"} /\ faults \in Nat /\ changes \in Nat
  BY ScrapeAssumption DEF Init
<1>2. news \in Seq(Secret \cup {None}) /\ Len(news) <= MaxLag
  BY EmptySeq, ScrapeAssumption DEF Init
<1>3. cert \in Cert
  BY <1>1 DEF Init, Cert
<1>4. run \in Run
  BY NewRunType DEF Init
<1>5. enabled \in BOOLEAN /\ certNews \in BOOLEAN /\ wake \in BOOLEAN
  BY DEF Init
<1>6. timer \in 0..NoTimer /\ ticker \in 1..Interval /\ fails \in 0..2
  BY Times DEF Init
<1>7. /\ secret = None /\ cached = None /\ sm = None /\ pc = "idle"
      /\ told \in [token : Versions \cup {None}, ca : Nat \cup {None}]
  BY DEF Init
<1> QED
  BY <1>1, <1>2, <1>3, <1>4, <1>5, <1>6, <1>7 DEF TypeOK

\* A write of the Secret.
LEMMA StoreType ==
  ASSUME TypeOK, NEW s \in Secret \cup {None}, Store(s)
  PROVE  /\ secret' = s /\ secret' \in Secret \cup {None}
         /\ news' \in Seq(Secret \cup {None}) /\ Len(news') <= MaxLag
         /\ news' # <<>> /\ Len(news') = Len(news) + 1 /\ news'[Len(news')] = s
         /\ \A i \in 1..Len(news) : news'[i] = news[i]
<1> DEFINE S == Secret \cup {None}
<1>1. news \in Seq(S) /\ Len(news) < MaxLag /\ news' = Append(news, s) /\ secret' = s
  BY DEF Store, CanStore, TypeOK
<1>2. MaxLag \in Nat
  BY ScrapeAssumption
<1>3. s \in S
  OBVIOUS
<1> HIDE DEF S
<1>4. /\ news' \in Seq(S) /\ news' # <<>> /\ Len(news') = Len(news) + 1
      /\ news'[Len(news')] = s /\ Len(news) \in Nat
      /\ \A i \in 1..Len(news) : news'[i] = news[i]
  BY <1>1, <1>3, AppendProperties, LenProperties
<1>5. Len(news') <= MaxLag
  BY <1>1, <1>2, <1>4
<1> QED
  BY <1>1, <1>3, <1>4, <1>5 DEF S

\* A change of the ServiceMonitor.
LEMMA MonitorType ==
  ASSUME TypeOK, NEW m \in ServiceMonitor \cup {None}, ChangeMonitor(m)
  PROVE  /\ sm' = m /\ sm' \in ServiceMonitor \cup {None}
         /\ told' \in [token : Versions \cup {None}, ca : Nat \cup {None}]
<1>1. cert.rv \in Nat
  BY DEF TypeOK, Cert
<1>2. secret # None => secret.token \in Versions \cup {None}
  BY DEF TypeOK, Secret
<1>3. told' \in [token : Versions \cup {None}, ca : Nat \cup {None}]
  BY <1>1, <1>2 DEF ChangeMonitor, TypeOK
<1> QED
  BY <1>3 DEF ChangeMonitor

\* What the resync leaves is a ServiceMonitor.
LEMMA ResyncedType ==
  ASSUME TypeOK, NEW m \in ServiceMonitor, NEW t \in 0..Settle \cup {None}
  PROVE  Resynced(m, t) \in ServiceMonitor
BY DEF TypeOK, Run, Resynced, ServiceMonitor

\* The patches there are.
LEMMA PlanCases ==
  ASSUME TypeOK, NEW m
  PROVE  planServiceMonitorResync(m)
           \in {m, Resynced(m, Settle), Resynced(m, None), Resynced(m, m.settle)}
<1> DEFINE prior == IF run.prior = None THEN NewServiceMonitor ELSE run.prior
           differ == (run.rv # None /\ run.rv # prior.secretRV) \/ run.caRV # prior.caRV
<1>1. CASE run.updated
  BY <1>1 DEF planServiceMonitorResync
<1>2. CASE ~run.updated /\ ServiceMonitorResyncSettlePending(prior)
  BY <1>2 DEF planServiceMonitorResync
<1>3. CASE ~run.updated /\ ~ServiceMonitorResyncSettlePending(prior)
  BY <1>3 DEF planServiceMonitorResync
<1> QED
  BY <1>1, <1>2, <1>3 DEF TypeOK, Run

\* A planned resync is a ServiceMonitor.
LEMMA PlanType ==
  ASSUME TypeOK, NEW m \in ServiceMonitor
  PROVE  planServiceMonitorResync(m) \in ServiceMonitor
<1>1. Settle \in 0..Settle \cup {None} /\ None \in 0..Settle \cup {None}
  BY Times
<1>2. m.settle \in 0..Settle \cup {None}
  BY DEF ServiceMonitor
<1> QED
  BY <1>1, <1>2, PlanCases, ResyncedType

\* A scheduled request comes within the caller's delay.
LEMMA ScheduleType ==
  ASSUME TypeOK, NEW delay \in Nat, Schedule(delay)
  PROVE  /\ timer' \in 0..NoTimer
         /\ Operand => timer' <= timer
         /\ ~Operand => timer' <= Interval
<1>1. timer \in Nat /\ timer <= NoTimer
  BY Times DEF TypeOK
<1> QED
  BY <1>1, Times DEF Schedule, Smaller

\* A pass asks to come back after a natural number of steps.
LEMMA RequeueType == TypeOK => RequeueAfter \in Nat
<1> SUFFICES ASSUME TypeOK PROVE RequeueAfter \in Nat
  OBVIOUS
<1>1. run.settleWait \in Nat /\ run.left \in Nat
  BY Times DEF TypeOK, Run
<1>2. ScrapeTokenRequeueAfter(run.left) \in Nat
  BY <1>1, Times DEF ScrapeTokenRequeueAfter, Larger
<1>3. RequeueAfter \in {NoTimer, TLSRequeue, run.settleWait, ScrapeTokenRequeueAfter(run.left)}
  <2>1. CASE run.rv = None
    BY <2>1 DEF RequeueAfter
  <2>2. CASE run.rv # None /\ run.waitTLS
    BY <2>2 DEF RequeueAfter
  <2>3. CASE run.rv # None /\ ~run.waitTLS /\ run.settleWait > 0
    BY <2>3 DEF RequeueAfter
  <2>4. CASE run.rv # None /\ ~run.waitTLS /\ ~(run.settleWait > 0)
    BY <2>4 DEF RequeueAfter
  <2> QED
    BY <2>1, <2>2, <2>3, <2>4
<1> QED
  BY <1>1, <1>2, <1>3, Times

\* The next phase after the ServiceMonitor is one of the last two.
LEMMA AfterScrapeType == AfterScrape \in {"clean", "finish"}
BY DEF AfterScrape

\* What a token that is published looks like: minted it has its whole life
\* before it, applied again it is the copy that was read.
LEMMA PublishFacts ==
  ASSUME TypeOK, EnsurePrometheusScrapeToken
  PROVE  /\ run' \in Run
         /\ secret' \in Secret /\ secret' # None
         /\ news' \in Seq(Secret \cup {None}) /\ Len(news') <= MaxLag
         /\ run'.copy = run.copy /\ run'.rv \in Versions
         /\ \/ /\ ScrapeTokenNeedsRefresh(run.copy)
               /\ MintToken
               /\ secret'.left = TTL /\ secret'.token = Fresh /\ secret'.rv = Fresh
               /\ Fresh \in Versions /\ Fresh \notin InUse
               /\ Store(secret')
            \/ /\ run.copy # None /\ run.copy.token # None /\ run.copy.left > Half
               /\ secret'.token = run.copy.token
               /\ run'.rv = run.copy.rv /\ run'.updated = run.updated
               /\ \/ UNCHANGED <<secret, news>>
                  \/ /\ secret'.left = run.copy.left /\ secret'.rv = Fresh
                     /\ Fresh \in Versions /\ Fresh \notin InUse
                     /\ Store(secret')
<1>1. CASE ScrapeTokenNeedsRefresh(run.copy)
  <2>1. MintToken
    BY <1>1 DEF EnsurePrometheusScrapeToken
  <2> DEFINE s == [token |-> Fresh, left |-> TTL, rv |-> Fresh]
  <2>2. Store(s) /\ run' = [run EXCEPT !.updated = TRUE, !.left = TTL, !.rv = Fresh]
    BY <2>1 DEF MintToken
  <2>3. Fresh \in Versions /\ Fresh \notin InUse
    BY <2>2, FreshFacts DEF Store
  <2>4. s \in Secret
    BY <2>3, Times DEF Secret
  <2> HIDE DEF s
  <2>5. run' \in Run /\ run'.copy = run.copy /\ run'.rv = Fresh
    <3>1. PICK v \in Versions : v = Fresh
      BY <2>3
    <3>2. run' = [run EXCEPT !.updated = TRUE, !.left = TTL, !.rv = v]
      BY <2>2, <3>1
    <3>3. TTL \in 0..TTL /\ run \in Run
      BY Times DEF TypeOK
    <3> QED
      BY <3>1, <3>2, <3>3 DEF Run
  <2>6. secret' = s /\ news' \in Seq(Secret \cup {None}) /\ Len(news') <= MaxLag
    BY <2>2, <2>4, StoreType
  <2>7. s.left = TTL /\ s.token = Fresh /\ s.rv = Fresh
    BY DEF s
  <2> QED
    BY <1>1, <2>1, <2>2, <2>3, <2>4, <2>5, <2>6, <2>7, NoneIsNothing
<1>2. CASE ~ScrapeTokenNeedsRefresh(run.copy)
  <2>1. ReapplyToken
    BY <1>2 DEF EnsurePrometheusScrapeToken
  <2>2. run.copy \in Secret /\ run.copy # None
    BY <1>2 DEF ScrapeTokenNeedsRefresh, TypeOK, Run
  <2>3. run.copy.token # None /\ run.copy.left > Half
    BY <1>2, <2>2, Times DEF ScrapeTokenNeedsRefresh, Secret
  <2>4. run' = [run EXCEPT !.left = run.copy.left, !.rv = run.copy.rv]
    BY <2>1 DEF ReapplyToken
  <2>5. /\ run' \in Run /\ run'.copy = run.copy /\ run'.rv = run.copy.rv
        /\ run'.updated = run.updated /\ run.copy.rv \in Versions
    BY <2>2, <2>4 DEF TypeOK, Run, Secret
  <2>6. CASE UNCHANGED <<secret, news>> /\ secret # None /\ secret.token = run.copy.token
    <3>1. secret' \in Secret /\ secret' # None /\ secret'.token = run.copy.token
      BY <2>6 DEF TypeOK
    <3>2. news' \in Seq(Secret \cup {None}) /\ Len(news') <= MaxLag
      BY <2>6 DEF TypeOK
    <3> QED
      BY <2>2, <2>3, <2>5, <2>6, <3>1, <3>2
  <2>7. CASE Store([run.copy EXCEPT !.rv = Fresh])
    <3> DEFINE s == [run.copy EXCEPT !.rv = Fresh]
    <3>1. Fresh \in Versions /\ Fresh \notin InUse
      BY <2>7, FreshFacts DEF Store
    <3>2. /\ s \in Secret
          /\ s.token = run.copy.token /\ s.left = run.copy.left /\ s.rv = Fresh
      BY <2>2, <3>1 DEF Secret
    <3>3. Store(s)
      BY <2>7
    <3> HIDE DEF s
    <3>4. secret' = s /\ news' \in Seq(Secret \cup {None}) /\ Len(news') <= MaxLag
      BY <3>2, <3>3, StoreType
    <3> QED
      BY <2>2, <2>3, <2>5, <3>1, <3>2, <3>3, <3>4, NoneIsNothing
  <2> QED
    BY <2>1, <2>6, <2>7 DEF ReapplyToken
<1> QED
  BY <1>1, <1>2

\* What the probe, the TLS evaluation and the resync put into the run.
LEMMA RunType ==
  ASSUME TypeOK
  PROVE  /\ [run EXCEPT !.copy = cached] \in Run
         /\ [run EXCEPT !.caRV = cert.rv] \in Run
         /\ [run EXCEPT !.waitTLS = TRUE] \in Run
         /\ [run EXCEPT !.prior = sm] \in Run
         /\ [run EXCEPT !.applied = TRUE] \in Run
         /\ [run EXCEPT !.settleWait = IF run.updated THEN Settle
                                       ELSE ServiceMonitorResyncSettleRemaining(run.prior)] \in Run
<1>1. run \in Run /\ cached \in Secret \cup {None} /\ sm \in ServiceMonitor \cup {None}
  BY DEF TypeOK
<1>2. cert.rv \in Nat
  BY DEF TypeOK, Cert
<1>3. [run EXCEPT !.copy = cached] \in Run
  BY <1>1 DEF Run
<1>4. [run EXCEPT !.caRV = cert.rv] \in Run
  BY <1>1, <1>2 DEF Run
<1>5. [run EXCEPT !.waitTLS = TRUE] \in Run /\ [run EXCEPT !.applied = TRUE] \in Run
  BY <1>1 DEF Run
<1>6. [run EXCEPT !.prior = sm] \in Run
  BY <1>1 DEF Run
<1>7. PICK d : d = IF run.updated THEN Settle ELSE ServiceMonitorResyncSettleRemaining(run.prior)
  OBVIOUS
<1>8. d \in 0..Settle
  <2>1. run.prior \in ServiceMonitor \cup {None}
    BY <1>1 DEF Run
  <2>2. ServiceMonitorResyncSettleRemaining(run.prior) \in 0..Settle
    BY <2>1, Times
       DEF ServiceMonitorResyncSettleRemaining, ServiceMonitorResyncSettlePending, ServiceMonitor
  <2> QED
    BY <1>7, <2>2, Times
<1>9. [run EXCEPT !.settleWait = d] \in Run
  BY <1>1, <1>8 DEF Run
<1> QED
  BY <1>3, <1>4, <1>5, <1>6, <1>7, <1>9

\* The versions on their way age with the stored one.
LEMMA TickNews ==
  ASSUME TypeOK, Tick
  PROVE  /\ news' \in Seq(Secret \cup {None}) /\ Len(news') = Len(news) /\ Len(news') <= MaxLag
         /\ \A i \in 1..Len(news) : news'[i] = Older(news[i])
         /\ news' = <<>> <=> news = <<>>
<1> DEFINE S == Secret \cup {None}
<1>1. news \in Seq(S) /\ Len(news) \in Nat /\ Len(news) <= MaxLag
  BY LenProperties DEF TypeOK
<1>2. \A i \in 1..Len(news) : news[i] \in S
  BY <1>1, ElementOfSeq
<1>3. news' = [i \in 1..Len(news) |-> Older(news[i])]
  BY DEF Tick
<1>4. \A i \in 1..Len(news) : Older(news[i]) \in S
  BY <1>2, OlderType
<1> HIDE DEF S
<1>5. news' \in Seq(S) /\ Len(news') = Len(news)
  BY <1>1, <1>3, <1>4, IsASeq
<1>6. news' = <<>> <=> news = <<>>
  BY <1>1, <1>5, EmptySeq
<1> QED
  BY <1>1, <1>3, <1>5, <1>6 DEF S

\* Time only shortens what is left of a settle deadline.
LEMMA TickMonitor ==
  ASSUME TypeOK, Tick
  PROVE  /\ sm' \in ServiceMonitor \cup {None}
         /\ sm = None <=> sm' = None
         /\ sm # None => /\ sm'.secretRV = sm.secretRV /\ sm'.caRV = sm.caRV
                         /\ sm'.settle = None <=> sm.settle = None
<1>1. sm' = IF ServiceMonitorResyncSettleRemaining(sm) > 0 THEN [sm EXCEPT !.settle = @ - 1] ELSE sm
  BY DEF Tick
<1>2. CASE sm = None \/ ~(ServiceMonitorResyncSettleRemaining(sm) > 0)
  BY <1>1, <1>2 DEF TypeOK, ServiceMonitorResyncSettleRemaining, ServiceMonitorResyncSettlePending
<1>3. CASE sm # None /\ ServiceMonitorResyncSettleRemaining(sm) > 0
  <2>1. sm \in ServiceMonitor /\ sm.settle # None /\ sm.settle \in 1..Settle
    BY <1>3, Times DEF TypeOK, ServiceMonitor, ServiceMonitorResyncSettleRemaining,
                       ServiceMonitorResyncSettlePending
  <2>2. sm' = [sm EXCEPT !.settle = sm.settle - 1] /\ sm.settle - 1 \in 0..Settle
    BY <1>1, <1>3, <2>1, Times
  <2>3. sm' \in ServiceMonitor
    BY <2>1, <2>2 DEF ServiceMonitor
  <2>4. sm'.secretRV = sm.secretRV /\ sm'.caRV = sm.caRV /\ sm'.settle = sm.settle - 1
    BY <2>1, <2>2 DEF ServiceMonitor
  <2> QED
    BY <1>3, <2>1, <2>2, <2>3, <2>4, NoneIsNothing
<1> QED
  BY <1>2, <1>3

\* An event takes the oldest version to the cache.
LEMMA EventFacts ==
  ASSUME TypeOK, TokenEvent
  PROVE  /\ cached' \in Secret \cup {None} /\ cached' = news[1]
         /\ news' \in Seq(Secret \cup {None}) /\ Len(news') <= MaxLag
         /\ Len(news) >= 1 /\ Len(news') = Len(news) - 1
         /\ \A i \in 1..Len(news') : news'[i] = news[i + 1]
<1> DEFINE S == Secret \cup {None}
<1>1. news \in Seq(S) /\ news # <<>> /\ cached' = Head(news) /\ news' = Tail(news)
  BY DEF TokenEvent, TypeOK
<1>2. Len(news) \in Nat /\ Len(news) <= MaxLag /\ MaxLag \in Nat
  BY ScrapeAssumption, LenProperties DEF TypeOK
<1> HIDE DEF S
<1>3. Len(news) >= 1 /\ Head(news) = news[1]
  BY <1>1, <1>2, EmptySeq
<1>4. cached' \in S /\ cached' = news[1]
  BY <1>1, <1>2, <1>3, ElementOfSeq
<1>5. /\ news' \in Seq(S) /\ Len(news') = Len(news) - 1
      /\ \A i \in 1..Len(news') : news'[i] = news[i + 1]
  BY <1>1, HeadTailProperties
<1> QED
  BY <1>2, <1>3, <1>4, <1>5 DEF S

\* Every step keeps the types.
LEMMA TypeStep == TypeOK /\ [Next]_vars => TypeOK'
<1> SUFFICES ASSUME TypeOK, [Next]_vars PROVE TypeOK'
  OBVIOUS
<1>1. CASE Begin
  <2>1. timer' \in 0..NoTimer
    BY <1>1, Times DEF Begin, TypeOK
  <2> QED
    BY <1>1, <2>1 DEF Begin, TypeOK
<1>2. CASE ReadToken
  <2>1. run' \in Run
    BY <1>2, RunType DEF ReadToken
  <2> QED
    BY <1>2, <2>1 DEF ReadToken, TypeOK
<1>3. CASE EnsurePrometheusScrapeToken
  <2>1. /\ run' \in Run /\ secret' \in Secret \cup {None}
        /\ news' \in Seq(Secret \cup {None}) /\ Len(news') <= MaxLag
    BY <1>3, PublishFacts
  <2>2. /\ pc' = "tls"
        /\ UNCHANGED <<caller, enabled, cached, cert, certNews, sm, told, wake, timer, ticker,
                       fails, used>>
    BY <1>3 DEF EnsurePrometheusScrapeToken
  <2> QED
    BY <2>1, <2>2 DEF TypeOK
<1>4. CASE EvaluateMetricsScrapeTLS
  <2>1. /\ run' \in Run /\ pc' \in {"probe", "clean", "finish", "retain"}
        /\ UNCHANGED <<world, wake, timer, ticker, fails, used>>
    BY <1>4, RunType, AfterScrapeType DEF EvaluateMetricsScrapeTLS
  <2> QED
    BY <2>1 DEF TypeOK
<1>5. CASE retainOperandServiceMonitorIfPresent
  <2>1. /\ pc' \in {"apply", "clean", "finish"}
        /\ UNCHANGED <<world, run, wake, timer, ticker, fails, used>>
    BY <1>5, AfterScrapeType DEF retainOperandServiceMonitorIfPresent
  <2> QED
    BY <2>1 DEF TypeOK
<1>6. CASE ProbeServiceMonitor
  <2>1. /\ run' \in Run /\ faults' \in Nat /\ pc' = "apply"
        /\ UNCHANGED <<world, wake, timer, ticker, fails, changes>>
    BY <1>6, RunType DEF ProbeServiceMonitor, TypeOK
  <2> QED
    BY <2>1 DEF TypeOK
<1>7. CASE ApplyServiceMonitor
  <2>1. (IF sm = None THEN NewServiceMonitor ELSE sm) \in ServiceMonitor
    BY DEF TypeOK, NewServiceMonitor, ServiceMonitor
  <2>2. PICK m \in ServiceMonitor : ChangeMonitor(m)
    BY <1>7, <2>1 DEF ApplyServiceMonitor
  <2>3. /\ sm' \in ServiceMonitor \cup {None}
        /\ told' \in [token : Versions \cup {None}, ca : Nat \cup {None}]
    BY <2>2, MonitorType
  <2>4. run' \in Run /\ pc' \in {"clean", "finish", "resync"} /\ wake' \in BOOLEAN
    BY <1>7, RunType, AfterScrapeType DEF ApplyServiceMonitor
  <2>5. UNCHANGED <<caller, enabled, secret, cached, news, cert, certNews, timer, ticker, fails,
                    used>>
    BY <1>7 DEF ApplyServiceMonitor
  <2> QED
    BY <2>3, <2>4, <2>5 DEF TypeOK
<1>8. CASE ResyncOperandServiceMonitor
  <2>1. (IF sm = None THEN None ELSE planServiceMonitorResync(sm)) \in ServiceMonitor \cup {None}
    BY PlanType DEF TypeOK
  <2>2. PICK m \in ServiceMonitor \cup {None} : ChangeMonitor(m)
    BY <1>8, <2>1 DEF ResyncOperandServiceMonitor
  <2>3. /\ sm' \in ServiceMonitor \cup {None}
        /\ told' \in [token : Versions \cup {None}, ca : Nat \cup {None}]
    BY <2>2, MonitorType
  <2>4. run' \in Run /\ pc' \in {"clean", "finish"} /\ wake' \in BOOLEAN
    BY <1>8, RunType, AfterScrapeType DEF ResyncOperandServiceMonitor
  <2>5. UNCHANGED <<caller, enabled, secret, cached, news, cert, certNews, timer, ticker, fails,
                    used>>
    BY <1>8 DEF ResyncOperandServiceMonitor
  <2> QED
    BY <2>3, <2>4, <2>5 DEF TypeOK
<1>9. CASE CleanupServiceMonitor \/ MeddleServiceMonitor
  <2>1. ChangeMonitor(None)
    BY <1>9 DEF CleanupServiceMonitor, MeddleServiceMonitor
  <2>2. /\ sm' \in ServiceMonitor \cup {None}
        /\ told' \in [token : Versions \cup {None}, ca : Nat \cup {None}]
    BY <2>1, MonitorType
  <2>3. changes' \in Nat
    BY <1>9 DEF CleanupServiceMonitor, MeddleServiceMonitor, TypeOK
  <2>5. wake' \in BOOLEAN
    BY <1>9, Zenon DEF CleanupServiceMonitor, MeddleServiceMonitor, TypeOK
  <2>4. UNCHANGED <<caller, enabled, secret, cached, news, cert, certNews, pc, run, timer, ticker,
                    fails, faults>>
    BY <1>9 DEF CleanupServiceMonitor, MeddleServiceMonitor
  <2> QED
    BY <2>2, <2>3, <2>4, <2>5 DEF TypeOK
<1>10. CASE CleanupSecret \/ MeddleSecret
  <2>1. PICK s \in Secret \cup {None} : Store(s)
    <3>1. CASE Store(None)
      BY <3>1
    <3>2. CASE secret # None /\ Store([secret EXCEPT !.token = None, !.rv = Fresh])
      <4>1. Fresh \in Versions
        BY <3>2, FreshFacts DEF Store
      <4>2. [secret EXCEPT !.token = None, !.rv = Fresh] \in Secret
        BY <3>2, <4>1 DEF TypeOK, Secret
      <4> QED
        BY <3>2, <4>2
    <3> QED
      BY <1>10, <3>1, <3>2 DEF CleanupSecret, MeddleSecret
  <2>2. /\ secret' \in Secret \cup {None}
        /\ news' \in Seq(Secret \cup {None}) /\ Len(news') <= MaxLag
    BY <2>1, StoreType
  <2>3. changes' \in Nat
    BY <1>10 DEF CleanupSecret, MeddleSecret, TypeOK
  <2>4. UNCHANGED <<caller, enabled, cached, cert, certNews, sm, told, pc, run, wake, timer,
                    ticker, fails, faults>>
    BY <1>10 DEF CleanupSecret, MeddleSecret
  <2> QED
    BY <2>2, <2>3, <2>4 DEF TypeOK
<1>11. CASE CleanupOrphans
  BY <1>11 DEF CleanupOrphans, TypeOK
<1>12. CASE Finish
  <2>1. timer' \in 0..NoTimer
    BY <1>12, RequeueType, ScheduleType DEF Finish
  <2>2. run' \in Run
    BY <1>12, NewRunType DEF Finish
  <2> QED
    BY <1>12, <2>1, <2>2 DEF Finish, TypeOK
<1>13. CASE Fail
  <2>1. PICK delay \in Nat : Schedule(delay)
    BY <1>13, Times DEF Fail
  <2>2. timer' \in 0..NoTimer
    BY <2>1, ScheduleType
  <2>3. run' \in Run
    BY <1>13, NewRunType DEF Fail
  <2>4. fails' \in 0..2 /\ faults' \in Nat
    BY <1>13 DEF Fail, TypeOK, Smaller
  <2>5. pc' = "idle" /\ UNCHANGED <<world, wake, ticker, changes>>
    BY <1>13 DEF Fail
  <2> QED
    BY <2>2, <2>3, <2>4, <2>5 DEF TypeOK
<1>14. CASE Crash
  <2>1. news' \in Seq(Secret \cup {None}) /\ Len(news') <= MaxLag
    BY <1>14, EmptySeq, ScrapeAssumption DEF Crash
  <2>2. run' \in Run
    BY <1>14, NewRunType DEF Crash
  <2>3. timer' \in 0..NoTimer /\ ticker' \in 1..Interval /\ faults' \in Nat
    BY <1>14, Times DEF Crash, TypeOK
  <2>4. /\ cached' = secret /\ certNews' = FALSE /\ wake' = TRUE /\ pc' = "idle"
        /\ UNCHANGED <<caller, enabled, secret, cert, sm, told, fails, changes>>
    BY <1>14 DEF Crash
  <2> QED
    BY <2>1, <2>2, <2>3, <2>4 DEF TypeOK
<1>15. CASE Tick
  <2>1. secret' \in Secret \cup {None} /\ cached' \in Secret \cup {None}
    BY <1>15, OlderType DEF Tick, TypeOK
  <2>2. news' \in Seq(Secret \cup {None}) /\ Len(news') <= MaxLag
    BY <1>15, TickNews
  <2>3. sm' \in ServiceMonitor \cup {None}
    BY <1>15, TickMonitor
  <2>4. timer' \in 0..NoTimer /\ ticker' \in 1..Interval /\ wake' \in BOOLEAN
    BY <1>15, Times DEF Tick, TypeOK
  <2>5. UNCHANGED <<caller, enabled, cert, certNews, told, pc, run, fails, used>>
    BY <1>15 DEF Tick
  <2> QED
    BY <2>1, <2>2, <2>3, <2>4, <2>5 DEF TypeOK
<1>16. CASE TokenEvent
  <2>1. /\ cached' \in Secret \cup {None}
        /\ news' \in Seq(Secret \cup {None}) /\ Len(news') <= MaxLag
    BY <1>16, EventFacts
  <2> QED
    BY <1>16, <2>1 DEF TokenEvent, TypeOK
<1>17. CASE CertEvent
  <2>1. certNews' = FALSE /\ wake' = TRUE
    BY <1>17 DEF CertEvent
  <2>2. UNCHANGED <<caller, enabled, secret, cached, news, cert, sm, told, pc, run, timer,
                    ticker, fails, faults, changes>>
    BY <1>17 DEF CertEvent, used
  <2>3. certNews' \in BOOLEAN /\ wake' \in BOOLEAN
    BY <2>1
  <2> QED
    BY <2>2, <2>3 DEF TypeOK
<1>18. ASSUME NEW state \in {"missing", "bad", "ok"}, ChangeCert(state) PROVE TypeOK'
  <2>1. changes' \in Nat /\ cert' \in Cert
    BY <1>18 DEF ChangeCert, TypeOK, Cert
  <2> QED
    BY <1>18, <2>1 DEF ChangeCert, TypeOK
<1>19. CASE Toggle
  BY <1>19 DEF Toggle, TypeOK
<1>20. CASE UNCHANGED vars
  BY <1>20 DEF vars, TypeOK
<1> QED
  BY <1>1, <1>2, <1>3, <1>4, <1>5, <1>6, <1>7, <1>8, <1>9, <1>10, <1>11, <1>12, <1>13, <1>14,
     <1>15, <1>16, <1>17, <1>18, <1>19, <1>20 DEF Next, Reconcile

\* The scrape wiring keeps its types: Secrets, annotations, results and delays
\* stay what ReconcilePrometheusScrapeToken and its callers take them for.
THEOREM TypeCorrect == Spec => []TypeOK
BY TypeInit, TypeStep, PTL DEF Spec

(***************************************************************************)
(* The settle marker                                                       *)
(***************************************************************************)

\* Until the resync the ServiceMonitor has the marker that the probe saw, or
\* was created anew without one.
SettleInv ==
  /\ pc \in {"idle", "read", "publish", "tls", "retain", "probe"} => run.prior = None
  /\ pc \in {"apply", "resync"} /\ run.prior # None /\ sm # None /\ sm.settle # None
       => sm.settle = run.prior.settle

\* Every step keeps the marker as the probe saw it.
LEMMA SettleStep == TypeOK /\ SettleInv /\ [Next]_vars => SettleInv'
<1> SUFFICES ASSUME TypeOK, SettleInv, [Next]_vars PROVE SettleInv'
  OBVIOUS
<1> USE DEF SettleInv
<1>1. CASE pc \in {"idle", "read", "publish", "tls", "retain", "probe"} /\ run'.prior = run.prior
  BY <1>1
<1>2. CASE Begin \/ retainOperandServiceMonitorIfPresent
  BY <1>1, <1>2 DEF Begin, retainOperandServiceMonitorIfPresent
<1>3. CASE ReadToken
  BY <1>1, <1>3 DEF ReadToken, TypeOK, Run
<1>4. CASE EnsurePrometheusScrapeToken
  <2>1. pc = "publish" /\ run.prior = None /\ run \in Run
    BY <1>4 DEF EnsurePrometheusScrapeToken, TypeOK
  <2>2. run'.prior = run.prior
    <3>1. CASE MintToken
      BY <2>1, <3>1 DEF MintToken, Run
    <3>2. CASE ReapplyToken
      BY <2>1, <3>2 DEF ReapplyToken, Run
    <3> QED
      BY <1>4, <3>1, <3>2 DEF EnsurePrometheusScrapeToken
  <2> QED
    BY <1>1, <2>1, <2>2
<1>5. CASE EvaluateMetricsScrapeTLS
  BY <1>1, <1>5 DEF EvaluateMetricsScrapeTLS, TypeOK, Run
<1>6. CASE ProbeServiceMonitor
  <2>1. pc = "probe" /\ pc' = "apply" /\ sm' = sm /\ run.prior = None /\ run \in Run
    BY <1>6 DEF ProbeServiceMonitor, TypeOK
  <2>2. run'.prior = sm \/ run'.prior = None
    BY <1>6, <2>1 DEF ProbeServiceMonitor, Run
  <2> QED
    BY <2>1, <2>2
<1>7. CASE ApplyServiceMonitor
  <2>1. pc = "apply" /\ pc' \in {"clean", "finish", "resync"} /\ run \in Run
    BY <1>7, AfterScrapeType DEF ApplyServiceMonitor, TypeOK
  <2>2. run'.prior = run.prior
    BY <1>7, <2>1 DEF ApplyServiceMonitor, Run
  <2>3. sm' = IF sm = None THEN NewServiceMonitor ELSE sm
    BY <1>7 DEF ApplyServiceMonitor, ChangeMonitor
  <2>4. NewServiceMonitor.settle = None
    BY DEF NewServiceMonitor
  <2> QED
    BY <2>1, <2>2, <2>3, <2>4
<1>8. CASE ResyncOperandServiceMonitor
  BY <1>8, AfterScrapeType DEF ResyncOperandServiceMonitor
<1>9. CASE CleanupServiceMonitor \/ MeddleServiceMonitor
  BY <1>9 DEF CleanupServiceMonitor, MeddleServiceMonitor, ChangeMonitor
<1>10. CASE CleanupOrphans
  BY <1>10 DEF CleanupOrphans
<1>11. CASE Finish \/ Fail \/ Crash
  BY <1>11 DEF Finish, Fail, Crash, NewRun
<1>12. CASE Tick
  BY <1>12 DEF Tick
<1>13. CASE UNCHANGED <<pc, run, sm>>
  BY <1>13
<1> QED
  BY <1>2, <1>3, <1>4, <1>5, <1>6, <1>7, <1>8, <1>9, <1>10, <1>11, <1>12, <1>13
     DEF Next, Reconcile, vars, CleanupSecret, TokenEvent, CertEvent, ChangeCert, MeddleSecret,
         Toggle

\* The resync leaves a marker whose deadline has not come.
LEMMA MarkerKept ==
  ASSUME TypeOK, SettleInv, pc = "resync", sm # None, sm.settle # None, sm.settle > 0
  PROVE  planServiceMonitorResync(sm).settle # None
<1> DEFINE prior == IF run.prior = None THEN NewServiceMonitor ELSE run.prior
           differ == (run.rv # None /\ run.rv # prior.secretRV) \/ run.caRV # prior.caRV
<1>1. Resynced(sm, Settle).settle = Settle /\ Resynced(sm, sm.settle).settle = sm.settle
  BY DEF Resynced
<1>2. Settle # None
  BY Times, NoneIsNothing
<1>3. CASE run.updated
  BY <1>1, <1>2, <1>3 DEF planServiceMonitorResync
<1>4. CASE ~run.updated /\ ServiceMonitorResyncSettlePending(prior)
  <2>1. run.prior # None
    BY <1>4 DEF ServiceMonitorResyncSettlePending, NewServiceMonitor
  <2>2. prior = run.prior /\ prior.settle = sm.settle
    BY <2>1 DEF SettleInv
  <2>3. ServiceMonitorResyncSettleRemaining(prior) > 0
    BY <1>4, <2>2 DEF ServiceMonitorResyncSettleRemaining
  <2>4. planServiceMonitorResync(sm) = sm
    BY <1>4, <2>3 DEF planServiceMonitorResync
  <2> QED
    BY <2>4
<1>5. CASE ~run.updated /\ ~ServiceMonitorResyncSettlePending(prior)
  <2>1. planServiceMonitorResync(sm) \in {sm, Resynced(sm, sm.settle)}
    BY <1>5 DEF planServiceMonitorResync
  <2> QED
    BY <1>1, <2>1
<1> QED
  BY <1>3, <1>4, <1>5 DEF TypeOK, Run

\* No step takes back a settle marker that is due.
LEMMA HeldStep ==
  TypeOK /\ SettleInv /\ [Next]_vars =>
    (ServiceMonitorResyncSettleRemaining(sm) > 0 /\ sm' # None
       => ServiceMonitorResyncSettlePending(sm'))
<1> SUFFICES ASSUME TypeOK, SettleInv, [Next]_vars,
                    ServiceMonitorResyncSettleRemaining(sm) > 0, sm' # None
             PROVE  sm'.settle # None
  BY DEF ServiceMonitorResyncSettlePending
<1>1. sm # None /\ sm.settle # None /\ sm.settle > 0
  BY DEF ServiceMonitorResyncSettleRemaining, ServiceMonitorResyncSettlePending
<1>2. CASE ApplyServiceMonitor
  BY <1>1, <1>2 DEF ApplyServiceMonitor, ChangeMonitor
<1>3. CASE ResyncOperandServiceMonitor
  BY <1>1, <1>3, MarkerKept DEF ResyncOperandServiceMonitor, ChangeMonitor
<1>4. CASE CleanupServiceMonitor \/ MeddleServiceMonitor
  BY <1>4 DEF CleanupServiceMonitor, MeddleServiceMonitor, ChangeMonitor
<1>5. CASE Tick
  BY <1>1, <1>5, TickMonitor
<1>6. CASE UNCHANGED sm
  BY <1>1, <1>6
<1> QED
  BY <1>2, <1>3, <1>4, <1>5, <1>6
     DEF Next, Reconcile, vars, Begin, ReadToken, EnsurePrometheusScrapeToken,
         EvaluateMetricsScrapeTLS, retainOperandServiceMonitorIfPresent, ProbeServiceMonitor,
         CleanupSecret, CleanupOrphans, Finish, Fail, Crash, TokenEvent, CertEvent, ChangeCert,
         MeddleSecret, Toggle

\* No step, of the reconcile or of anyone else, takes away a settle marker
\* before its deadline unless the ServiceMonitor goes with it, although the
\* resync decides on a ServiceMonitor that it read before it applied its own.
THEOREM MarkerHeld == Spec => SettleHeld
<1>1. Init => SettleInv
  BY DEF Init, NewRun, SettleInv
<1> QED
  BY <1>1, TypeInit, TypeStep, SettleStep, HeldStep, PTL DEF Spec, SettleHeld

(***************************************************************************)
(* The token is valid                                                      *)
(***************************************************************************)

HasToken(s) == s # None /\ s.token # None

\* The copies of one token have the same time left.
Copies == {secret, cached, run.copy} \cup {news[i] : i \in 1..Len(news)}
Coherent == \A a, b \in Copies : HasToken(a) /\ HasToken(b) /\ a.token = b.token => a.left = b.left

\* How the reconcile goes through its phases.
PhaseInv ==
  /\ ~Operand => enabled /\ pc # "clean"
  /\ pc \in {"idle", "read"} => run.copy = None
  /\ pc \in {"idle", "read", "publish"} => run.rv = None
  /\ pc \in {"tls", "retain", "probe", "apply", "resync"} => run.rv # None
  /\ pc = "finish" /\ run.rv = None => secret = None
  /\ ~Operand /\ pc = "idle" /\ ~wake => timer <= Interval

\* How long it is until the next attempt.
Wait == IF pc # "idle" \/ wake THEN 0
        ELSE IF Operand THEN Smaller(timer, ticker) ELSE timer

\* The intervals that may have gone by since the token had half of its life.
Spent == IF fails = 0 THEN Interval ELSE Interval + Interval

LifeInv ==
  HasToken(secret) =>
    /\ run.rv # None => secret.left > Half
    /\ fails < 2 => secret.left + Spent > Half + Wait

AliveInv == Coherent /\ PhaseInv /\ LifeInv

\* Every step keeps what the phase says about the pass.
LEMMA PhaseStep == TypeOK /\ PhaseInv /\ [Next]_vars => PhaseInv'
<1> SUFFICES ASSUME TypeOK, PhaseInv, [Next]_vars PROVE PhaseInv'
  OBVIOUS
<1> USE DEF PhaseInv, Operand
<1>0. run \in Run
  BY DEF TypeOK
<1>1. CASE Begin
  BY <1>1 DEF Begin
<1>2. CASE ReadToken
  <2>1. run'.rv = run.rv
    BY <1>0, <1>2 DEF ReadToken, Run
  <2> QED
    BY <1>2, <2>1 DEF ReadToken
<1>3. CASE EnsurePrometheusScrapeToken
  <2>1. run'.rv # None
    BY <1>3, PublishFacts, NoneIsNothing
  <2> QED
    BY <1>3, <2>1 DEF EnsurePrometheusScrapeToken
<1>4. CASE EvaluateMetricsScrapeTLS
  <2>1. run'.rv = run.rv /\ pc = "tls" /\ UNCHANGED <<world, wake, timer>>
    BY <1>0, <1>4 DEF EvaluateMetricsScrapeTLS, Run
  <2>2. pc' \in {"probe", "retain", AfterScrape}
    BY <1>4 DEF EvaluateMetricsScrapeTLS
  <2> QED
    BY <2>1, <2>2 DEF AfterScrape
<1>5. CASE retainOperandServiceMonitorIfPresent
  BY <1>5 DEF retainOperandServiceMonitorIfPresent, AfterScrape
<1>6. CASE ProbeServiceMonitor
  <2>1. run'.rv = run.rv
    BY <1>0, <1>6 DEF ProbeServiceMonitor, Run
  <2> QED
    BY <1>6, <2>1 DEF ProbeServiceMonitor
<1>7. CASE ApplyServiceMonitor
  <2>1. run'.rv = run.rv
    BY <1>0, <1>7 DEF ApplyServiceMonitor, Run
  <2>2. /\ pc = "apply" /\ pc' \in {"resync", AfterScrape}
        /\ UNCHANGED <<caller, enabled, secret>>
    BY <1>7 DEF ApplyServiceMonitor
  <2> QED
    BY <2>1, <2>2 DEF AfterScrape
<1>8. CASE ResyncOperandServiceMonitor
  <2>1. run'.rv = run.rv
    BY <1>0, <1>8 DEF ResyncOperandServiceMonitor, Run
  <2>2. pc = "resync" /\ pc' = AfterScrape /\ UNCHANGED <<caller, enabled, secret>>
    BY <1>8 DEF ResyncOperandServiceMonitor
  <2> QED
    BY <2>1, <2>2 DEF AfterScrape
<1>9. CASE CleanupServiceMonitor
  BY <1>9 DEF CleanupServiceMonitor
<1>10. CASE CleanupSecret
  BY <1>10 DEF CleanupSecret
<1>11. CASE CleanupOrphans
  BY <1>11 DEF CleanupOrphans, OrphanSecret
<1>12. CASE Finish
  <2>1. ~Operand => timer' <= Interval
    BY <1>12, RequeueType, ScheduleType DEF Finish
  <2> QED
    BY <1>12, <2>1 DEF Finish, NewRun
<1>13. CASE Fail
  <2>1. ~Operand => timer' <= Interval
    <3>1. PICK delay \in Nat : Schedule(delay)
      BY <1>13, Times DEF Fail
    <3> QED
      BY <3>1, ScheduleType
  <2> QED
    BY <1>13, <2>1 DEF Fail, NewRun
<1>14. CASE Crash
  BY <1>14 DEF Crash, NewRun
<1>15. CASE Tick
  <2>1. timer' \in Nat /\ (timer <= Interval => timer' <= Interval)
    <3>1. timer > 0 /\ timer' = IF timer = NoTimer THEN NoTimer ELSE timer - 1
      BY <1>15 DEF Tick
    <3>2. timer \in 0..NoTimer
      BY DEF TypeOK
    <3> QED
      BY <3>1, <3>2, Times
  <2>2. pc = "idle" /\ ~wake /\ UNCHANGED <<caller, enabled, pc, run>>
    BY <1>15 DEF Tick
  <2> QED
    BY <2>1, <2>2
<1>16. CASE TokenEvent \/ CertEvent \/ MeddleServiceMonitor
  BY <1>16 DEF TokenEvent, CertEvent, MeddleServiceMonitor
<1>17. ASSUME NEW state \in {"missing", "bad", "ok"}, ChangeCert(state) PROVE PhaseInv'
  BY <1>17 DEF ChangeCert
<1>18. CASE MeddleSecret
  <2>1. secret # None
    BY <1>18 DEF MeddleSecret
  <2> QED
    BY <1>18, <2>1 DEF MeddleSecret
<1>19. CASE Toggle
  BY <1>19 DEF Toggle
<1>20. CASE UNCHANGED vars
  BY <1>20 DEF vars
<1> QED
  BY <1>1, <1>2, <1>3, <1>4, <1>5, <1>6, <1>7, <1>8, <1>9, <1>10, <1>11, <1>12, <1>13, <1>14,
     <1>15, <1>16, <1>17, <1>18, <1>19, <1>20 DEF Next, Reconcile

\* Copies are Secrets, and a new version is the token of none of them.
LEMMA CopyFacts ==
  ASSUME TypeOK, NEW a \in Copies
  PROVE  a \in Secret \cup {None} /\ (a # None => a.token \in InUse)
<1>1. \A i \in 1..Len(news) : news[i] \in Secret \cup {None}
  BY ElementOfSeq DEF TypeOK
<1>2. run.copy \in Secret \cup {None}
  BY DEF TypeOK, Run
<1>3. a \in Secret \cup {None}
  BY <1>1, <1>2 DEF Copies, TypeOK
<1>4. a # None => a.token \in InUse
  BY DEF Copies, InUse
<1> QED
  BY <1>3, <1>4

\* A write adds one copy.
LEMMA StoreCopies ==
  ASSUME TypeOK, NEW s \in Secret \cup {None}, Store(s), cached' = cached, run'.copy = run.copy
  PROVE  Copies' \subseteq Copies \cup {s}
<1>1. /\ secret' = s /\ Len(news') = Len(news) + 1 /\ news'[Len(news')] = s
      /\ \A i \in 1..Len(news) : news'[i] = news[i]
  BY StoreType
<1>2. Len(news) \in Nat
  BY LenProperties DEF TypeOK
<1>3. \A i \in 1..Len(news') : news'[i] = s \/ (i \in 1..Len(news) /\ news'[i] = news[i])
  BY <1>1, <1>2
<1> QED
  BY <1>1, <1>3 DEF Copies

\* Every step ages the copies of a token alike.
LEMMA CoherentStep == TypeOK /\ PhaseInv /\ Coherent /\ [Next]_vars => Coherent'
<1> SUFFICES ASSUME TypeOK, PhaseInv, Coherent, [Next]_vars PROVE Coherent'
  OBVIOUS
<1>1. CASE Copies' \subseteq Copies
  BY <1>1 DEF Coherent, HasToken
<1>2. ASSUME NEW s, ~HasToken(s), Copies' \subseteq Copies \cup {s} PROVE Coherent'
  BY <1>2 DEF Coherent, HasToken
<1>3. ASSUME NEW s \in Secret, NEW c \in Copies, HasToken(c), c.token = s.token, c.left = s.left,
             Copies' \subseteq Copies \cup {s}
      PROVE  Coherent'
  BY <1>3 DEF Coherent, HasToken
<1>4. ASSUME NEW s \in Secret, s.token \notin InUse, Copies' \subseteq Copies \cup {s}
      PROVE  Coherent'
  <2>1. \A c \in Copies : HasToken(c) => c.token # s.token
    BY <1>4, CopyFacts DEF HasToken
  <2> QED
    BY <1>4, <2>1 DEF Coherent, HasToken
<1>5. CASE ReadToken
  <2>1. run'.copy = cached /\ UNCHANGED <<secret, cached, news>>
    BY <1>5 DEF ReadToken, TypeOK, Run
  <2> QED
    BY <1>1, <2>1 DEF Copies
<1>6. CASE EnsurePrometheusScrapeToken
  <2>1. cached' = cached /\ run'.copy = run.copy /\ secret' \in Secret
    BY <1>6, PublishFacts DEF EnsurePrometheusScrapeToken
  <2>2. CASE UNCHANGED <<secret, news>>
    BY <1>1, <2>1, <2>2 DEF Copies
  <2>3. CASE Store(secret') /\ secret'.token = Fresh /\ Fresh \notin InUse
    <3>1. Copies' \subseteq Copies \cup {secret'}
      BY <2>1, <2>3, StoreCopies
    <3> QED
      BY <1>4, <2>1, <2>3, <3>1
  <2>4. CASE /\ Store(secret') /\ run.copy # None /\ run.copy.token # None
             /\ secret'.token = run.copy.token /\ secret'.left = run.copy.left
    <3>1. Copies' \subseteq Copies \cup {secret'}
      BY <2>1, <2>4, StoreCopies
    <3>2. run.copy \in Copies /\ HasToken(run.copy)
      BY <2>4 DEF Copies, HasToken
    <3> QED
      BY <1>3, <2>1, <2>4, <3>1, <3>2
  <2> QED
    BY <1>6, <2>2, <2>3, <2>4, PublishFacts
<1>7. CASE CleanupSecret \/ MeddleSecret
  <2>1. UNCHANGED <<cached, run>>
    BY <1>7 DEF CleanupSecret, MeddleSecret
  <2>2. PICK s \in Secret \cup {None} : Store(s) /\ ~HasToken(s)
    <3>1. CASE Store(None)
      BY <3>1 DEF HasToken
    <3>2. CASE secret # None /\ Store([secret EXCEPT !.token = None, !.rv = Fresh])
      <4>1. Fresh \in Versions
        BY <3>2, FreshFacts DEF Store
      <4>2. /\ [secret EXCEPT !.token = None, !.rv = Fresh] \in Secret
            /\ [secret EXCEPT !.token = None, !.rv = Fresh].token = None
        BY <3>2, <4>1 DEF TypeOK, Secret
      <4> QED
        BY <3>2, <4>2 DEF HasToken
    <3> QED
      BY <1>7, <3>1, <3>2 DEF CleanupSecret, MeddleSecret
  <2>3. Copies' \subseteq Copies \cup {s}
    BY <2>1, <2>2, StoreCopies
  <2> QED
    BY <1>2, <2>2, <2>3
<1>8. CASE Tick
  <2>1. /\ secret' = Older(secret) /\ cached' = Older(cached) /\ run' = run /\ pc = "idle"
    BY <1>8 DEF Tick
  <2>2. run'.copy = Older(run.copy)
    BY <2>1 DEF PhaseInv, Older
  <2>3. Len(news') = Len(news) /\ \A i \in 1..Len(news) : news'[i] = Older(news[i])
    BY <1>8, TickNews
  <2>4. \A a \in Copies' : \E c \in Copies : a = Older(c)
    BY <2>1, <2>2, <2>3 DEF Copies
  <2>5. \A c \in Copies : /\ c = None <=> Older(c) = None
                          /\ c # None => /\ Older(c).token = c.token
                                         /\ Older(c).left = IF c.left > 0 THEN c.left - 1 ELSE 0
    BY CopyFacts, OlderType
  <2> SUFFICES ASSUME NEW a \in Copies', NEW b \in Copies', HasToken(a), HasToken(b),
                      a.token = b.token
               PROVE  a.left = b.left
    BY DEF Coherent, HasToken
  <2>6. PICK c \in Copies, d \in Copies : a = Older(c) /\ b = Older(d)
    BY <2>4
  <2>7. HasToken(c) /\ HasToken(d) /\ c.token = d.token
    BY <2>5, <2>6 DEF HasToken
  <2>8. c.left = d.left
    BY <2>7 DEF Coherent
  <2> QED
    BY <2>5, <2>6, <2>7, <2>8 DEF HasToken
<1>9. CASE TokenEvent
  <2>1. /\ cached' = news[1] /\ Len(news) >= 1 /\ Len(news') = Len(news) - 1
        /\ \A i \in 1..Len(news') : news'[i] = news[i + 1]
    BY <1>9, EventFacts
  <2>2. UNCHANGED <<secret, run>> /\ Len(news) \in Nat
    BY <1>9, LenProperties DEF TokenEvent, TypeOK
  <2>3. \A i \in 1..Len(news') : i + 1 \in 1..Len(news) /\ 1 \in 1..Len(news)
    BY <2>1, <2>2
  <2>4. 1 \in 1..Len(news)
    BY <2>1, <2>2
  <2>5. \A i \in 1..Len(news') : news'[i] \in Copies
    BY <2>1, <2>3 DEF Copies
  <2>6. cached' \in Copies /\ secret' \in Copies /\ run'.copy \in Copies
    BY <2>1, <2>2, <2>4 DEF Copies
  <2> QED
    BY <1>1, <2>5, <2>6 DEF Copies
<1>10. CASE Finish \/ Fail
  <2>1. UNCHANGED <<secret, cached, news>> /\ run'.copy = None
    BY <1>10 DEF Finish, Fail, NewRun
  <2> QED
    BY <1>2, <2>1 DEF Copies, HasToken
<1>11. CASE Crash
  <2>1. secret' = secret /\ cached' = secret /\ Len(news') = 0 /\ run'.copy = None
    BY <1>11 DEF Crash, NewRun
  <2> QED
    BY <1>2, <2>1 DEF Copies, HasToken
<1>12. CASE UNCHANGED <<secret, cached, news>> /\ run'.copy = run.copy
  BY <1>1, <1>12 DEF Copies
<1>13. CASE EvaluateMetricsScrapeTLS \/ ProbeServiceMonitor \/ ApplyServiceMonitor
              \/ ResyncOperandServiceMonitor
  <2>1. run'.copy = run.copy
    BY <1>13 DEF EvaluateMetricsScrapeTLS, ProbeServiceMonitor, ApplyServiceMonitor,
                 ResyncOperandServiceMonitor, TypeOK, Run
  <2> QED
    BY <1>12, <1>13, <2>1
       DEF EvaluateMetricsScrapeTLS, ProbeServiceMonitor, ApplyServiceMonitor,
           ResyncOperandServiceMonitor
<1> QED
  BY <1>5, <1>6, <1>7, <1>8, <1>9, <1>10, <1>11, <1>12, <1>13
     DEF Next, Reconcile, vars, Begin, retainOperandServiceMonitorIfPresent,
         CleanupServiceMonitor, CleanupOrphans, CertEvent, ChangeCert, MeddleServiceMonitor,
         Toggle

\* The next attempt comes within the interval: by the broadcaster's ticker or
\* by the rotator's timer.
LEMMA WaitBound == TypeOK /\ PhaseInv => Wait \in Nat /\ Wait <= Interval
<1> SUFFICES ASSUME TypeOK, PhaseInv PROVE Wait \in Nat /\ Wait <= Interval
  OBVIOUS
<1>1. timer \in Nat /\ ticker \in Nat /\ ticker <= Interval
  BY Times DEF TypeOK
<1> QED
  BY <1>1, Times DEF Wait, Smaller, PhaseInv

\* The wait of the next state is within the interval too.
LEMMA WaitBoundNext == TypeOK' /\ PhaseInv' => (Wait \in Nat /\ Wait <= Interval)'
BY WaitBound, PTL

\* Every step leaves the token alive until the next look at it.
LEMMA LifeStep == TypeOK /\ AliveInv /\ [Next]_vars => LifeInv'
<1> SUFFICES ASSUME TypeOK, AliveInv, [Next]_vars, HasToken(secret)'
             PROVE  /\ run'.rv # None => secret'.left > Half
                    /\ fails' < 2 => secret'.left + Spent' > Half + Wait'
  BY DEF LifeInv
<1>1. /\ TypeOK' /\ PhaseInv' /\ run \in Run
      /\ Wait \in Nat /\ Wait' \in Nat /\ Wait' <= Interval
  <2>1. TypeOK' /\ PhaseInv'
    BY TypeStep, PhaseStep DEF AliveInv
  <2>2. Wait' \in Nat /\ Wait' <= Interval
    BY <2>1, WaitBoundNext
  <2> QED
    BY <2>1, <2>2, WaitBound DEF AliveInv, TypeOK
<1>2. /\ secret' \in Secret /\ secret'.left \in Nat /\ fails \in 0..2
      /\ secret # None => secret \in Secret /\ secret.left \in Nat
  <2>1. secret' \in Secret
    BY <1>1 DEF TypeOK, HasToken
  <2>2. secret'.left \in Nat
    BY <2>1, Times DEF Secret
  <2>3. secret # None => secret \in Secret /\ secret.left \in Nat
    BY Times DEF Secret, TypeOK
  <2> QED
    BY <2>1, <2>2, <2>3 DEF TypeOK
<1>3. /\ Spent \in {Interval, Interval + Interval} /\ Spent' \in {Interval, Interval + Interval}
      /\ fails' = fails => Spent' = Spent
  BY DEF Spent
<1>4. CASE UNCHANGED <<secret, fails>> /\ (run'.rv # None => run.rv # None) /\ Wait' <= Wait
  BY <1>1, <1>2, <1>3, <1>4, Times DEF AliveInv, LifeInv, HasToken
<1>5. CASE secret'.left > Half
  BY <1>1, <1>2, <1>3, <1>5, Times
<1>6. CASE EnsurePrometheusScrapeToken
  <2>1. CASE UNCHANGED secret /\ HasToken(run.copy) /\ secret'.token = run.copy.token
                /\ run.copy.left > Half
    <3>1. secret \in Copies /\ run.copy \in Copies /\ HasToken(secret)
      BY <2>1 DEF Copies, HasToken
    <3>2. secret.left = run.copy.left
      BY <2>1, <3>1 DEF AliveInv, Coherent
    <3> QED
      BY <1>5, <2>1, <3>2
  <2>2. CASE secret'.left = TTL
    BY <1>5, <2>2, Times
  <2>3. CASE run.copy.left > Half /\ secret'.left = run.copy.left
    BY <1>5, <2>3
  <2> QED
    BY <1>6, <2>1, <2>2, <2>3, PublishFacts DEF HasToken
<1>7. CASE CleanupSecret \/ MeddleSecret
  <2>1. CASE Store(None)
    BY <2>1 DEF Store, HasToken
  <2>2. CASE secret # None /\ Store([secret EXCEPT !.token = None, !.rv = Fresh])
    <3>1. secret' = [secret EXCEPT !.token = None, !.rv = Fresh] /\ secret \in Secret
      BY <2>2 DEF Store, TypeOK
    <3> QED
      BY <3>1 DEF Secret, HasToken
  <2> QED
    BY <1>7, <2>1, <2>2 DEF CleanupSecret, MeddleSecret
<1>8. CASE Finish
  <2>1. pc = "finish" /\ secret' = secret /\ secret # None
    BY <1>8 DEF Finish, HasToken
  <2>2. run.rv # None
    BY <2>1 DEF AliveInv, PhaseInv
  <2>3. secret.left > Half
    BY <2>1, <2>2 DEF AliveInv, LifeInv, HasToken
  <2> QED
    BY <1>5, <2>1, <2>3
<1>9. CASE Fail
  <2>1. pc # "idle" /\ secret' = secret /\ run'.rv = None /\ fails' = Smaller(fails + 1, 2)
    BY <1>9 DEF Fail, NewRun
  <2>2. fails' < 2 => fails = 0 /\ fails' = 1
    BY <1>2, <2>1 DEF Smaller
  <2>3. fails = 0 => secret.left + Interval > Half + Wait
    BY <2>1 DEF AliveInv, LifeInv, HasToken, Spent
  <2>4. fails' = 1 => Spent' = Interval + Interval
    BY DEF Spent
  <2> QED
    BY <1>1, <1>2, <2>1, <2>2, <2>3, <2>4, Times
<1>10. CASE Crash
  <2>1. UNCHANGED <<secret, fails>> /\ run'.rv = None /\ wake' = TRUE
    BY <1>10 DEF Crash, NewRun
  <2>2. Wait' = 0
    BY <2>1 DEF Wait
  <2> QED
    BY <1>1, <1>4, <2>1, <2>2
<1>11. CASE Tick
  <2>1. /\ pc = "idle" /\ ~wake /\ timer > 0 /\ secret' = Older(secret)
        /\ UNCHANGED <<run, fails, caller, pc>>
    BY <1>11 DEF Tick
  <2>2. run'.rv = None
    BY <2>1 DEF AliveInv, PhaseInv
  <2>3. Wait >= 1 /\ Wait' + 1 <= Wait
    <3>1. /\ timer \in Nat /\ timer <= NoTimer /\ ticker \in 1..Interval
          /\ timer' = (IF timer = NoTimer THEN NoTimer ELSE timer - 1)
          /\ ticker' = (IF ~Operand \/ ticker = 1 THEN Interval ELSE ticker - 1)
      BY <1>11, Times DEF Tick, TypeOK
    <3>4. wake' <=> (Operand /\ ticker = 1)
      BY <1>11, Zenon DEF Tick
    <3>2. CASE Operand
      <4>1. Operand'
        BY <2>1, <3>2 DEF Operand
      <4>2. CASE ticker = 1
        BY <2>1, <3>1, <3>2, <3>4, <4>2, Times DEF Wait, Smaller
      <4>3. CASE ticker # 1
        BY <2>1, <3>1, <3>2, <3>4, <4>1, <4>3, Times DEF Wait, Smaller
      <4> QED
        BY <4>2, <4>3
    <3>3. CASE ~Operand
      <4>1. ~Operand' /\ timer <= Interval
        BY <2>1, <3>3 DEF Operand, AliveInv, PhaseInv
      <4> QED
        BY <2>1, <3>1, <3>3, <3>4, <4>1, Times DEF Wait
    <3> QED
      BY <3>2, <3>3
  <2>4. secret # None /\ secret'.token = secret.token
        /\ secret'.left = IF secret.left > 0 THEN secret.left - 1 ELSE 0
    BY <2>1, OlderType DEF TypeOK, HasToken
  <2>5. fails < 2 => secret.left + Spent > Half + Wait
    BY <2>4 DEF AliveInv, LifeInv, HasToken
  <2> QED
    BY <1>1, <1>2, <1>3, <2>1, <2>2, <2>3, <2>4, <2>5, Times
<1>12. CASE pc # "idle" /\ pc' # "idle" /\ UNCHANGED <<secret, fails>> /\ run'.rv = run.rv
  <2>1. Wait = 0 /\ Wait' = 0
    BY <1>12 DEF Wait
  <2> QED
    BY <1>4, <1>12, <2>1
<1>13. CASE ReadToken \/ EvaluateMetricsScrapeTLS \/ retainOperandServiceMonitorIfPresent
              \/ ProbeServiceMonitor \/ ApplyServiceMonitor \/ ResyncOperandServiceMonitor
              \/ CleanupServiceMonitor \/ CleanupOrphans
  <2>1. run'.rv = run.rv
    BY <1>1, <1>13
       DEF ReadToken, EvaluateMetricsScrapeTLS, retainOperandServiceMonitorIfPresent,
           ProbeServiceMonitor, ApplyServiceMonitor, ResyncOperandServiceMonitor,
           CleanupServiceMonitor, CleanupOrphans, Run
  <2>2. pc # "idle" /\ pc' # "idle" /\ UNCHANGED <<secret, fails>>
    BY <1>13, AfterScrapeType
       DEF ReadToken, EvaluateMetricsScrapeTLS, retainOperandServiceMonitorIfPresent,
           ProbeServiceMonitor, ApplyServiceMonitor, ResyncOperandServiceMonitor,
           CleanupServiceMonitor, CleanupOrphans
  <2> QED
    BY <1>12, <2>1, <2>2
<1>14. CASE Begin
  <2>1. UNCHANGED <<secret, fails, run>> /\ pc' # "idle"
    BY <1>14 DEF Begin
  <2>2. Wait' = 0
    BY <2>1 DEF Wait
  <2> QED
    BY <1>1, <1>4, <2>1, <2>2
<1>15. CASE TokenEvent \/ CertEvent \/ MeddleServiceMonitor \/ Toggle
              \/ (\E state \in {"missing", "bad", "ok"} : ChangeCert(state)) \/ UNCHANGED vars
  <2>1. UNCHANGED <<secret, fails, run, pc, timer, ticker, caller>>
    BY <1>15 DEF TokenEvent, CertEvent, MeddleServiceMonitor, Toggle, ChangeCert, vars
  <2>2. wake => wake'
    BY <1>15, Zenon DEF TokenEvent, CertEvent, MeddleServiceMonitor, Toggle, ChangeCert, vars
  <2>3. Wait' \in {0, Wait}
    BY <2>1, <2>2 DEF Wait, Operand
  <2> QED
    BY <1>1, <1>4, <2>1, <2>3
<1> QED
  BY <1>6, <1>7, <1>8, <1>9, <1>10, <1>11, <1>13, <1>14, <1>15 DEF Next, Reconcile

\* Half of a life is enough for two intervals: a token that is in the Secret
\* is valid as long as no two reconciles in a row have failed, for both
\* callers, whatever a lagging cache makes EnsurePrometheusScrapeToken apply
\* and whenever a new leader starts.
THEOREM AlwaysAlive == Spec => []TokenAlive
<1>1. Init => AliveInv
  <2> SUFFICES ASSUME Init PROVE AliveInv
    OBVIOUS
  <2>1. secret = None /\ cached = None /\ run.copy = None /\ run.rv = None /\ Len(news) = 0
    BY EmptySeq DEF Init, NewRun
  <2>2. Coherent /\ LifeInv
    BY <2>1 DEF Coherent, Copies, LifeInv, HasToken
  <2>3. PhaseInv
    BY <2>1 DEF PhaseInv, Init, Operand
  <2> QED
    BY <2>2, <2>3 DEF AliveInv
<1>2. TypeOK /\ AliveInv /\ [Next]_vars => AliveInv'
  BY CoherentStep, PhaseStep, LifeStep DEF AliveInv
<1>3. TypeOK /\ AliveInv => TokenAlive
  <2> SUFFICES ASSUME TypeOK, AliveInv, HasToken(secret), fails < 2 PROVE secret.left > 0
    BY DEF TokenAlive, HasToken
  <2>1. secret.left \in Nat
    BY Times DEF TypeOK, Secret, HasToken
  <2>2. secret.left + Spent > Half + Wait /\ Wait \in Nat
    BY WaitBound DEF AliveInv, LifeInv
  <2> QED
    BY <2>1, <2>2, Times DEF Spent
<1> QED
  BY <1>1, <1>2, <1>3, TypeInit, TypeStep, PTL DEF Spec

(***************************************************************************)
(* prometheus-operator is told                                             *)
(***************************************************************************)

\* Nothing has happened that the reconcile does not know of, or will be
\* queued for.
Quiet == ~wake /\ news = <<>> /\ ~certNews

\* prometheus-operator has read what is stored.
Current == secret # None /\ told = [token |-> secret.token, ca |-> cert.rv]

\* The last version on its way, or else the cached one, is the stored one.
CacheInv == secret = IF news = <<>> THEN cached ELSE news[Len(news)]

\* The certificate's versions go down; nobody has seen one that is to come.
CertInv ==
  /\ cert.rv >= changes
  /\ run.caRV # None => run.caRV >= changes
  /\ sm # None /\ sm.caRV # None => sm.caRV >= changes

\* An annotation with the stored version shows that its content was read.
ToldInv ==
  /\ sm # None /\ secret # None /\ sm.secretRV = secret.rv => told.token = secret.token
  /\ sm # None /\ sm.caRV = cert.rv => told.ca = cert.rv

\* What the reconcile has decided.
DecidedInv ==
  /\ pc \in {"idle", "read", "publish"} => ~run.updated
  /\ pc \in {"idle", "read", "publish", "tls", "probe", "resync"} => ~run.waitTLS
  /\ pc = "retain" => run.waitTLS
  /\ pc \in {"clean", "finish"} /\ run.rv = None /\ enabled => wake

\* What it has read is what is stored, as long as nothing happens.
QuietInv ==
  Quiet =>
    /\ pc = "publish" => run.copy = secret
    /\ run.rv # None => secret # None /\ run.rv = secret.rv /\ ~run.updated
    /\ pc \in {"retain", "probe", "apply", "resync", "clean", "finish"} /\ run.rv # None
         => IF run.waitTLS THEN cert.state # "ok" ELSE cert.state = "ok" /\ run.caRV = cert.rv
    /\ pc = "apply" /\ sm # None /\ run.prior # None => sm = run.prior
    /\ pc = "resync" /\ sm # None /\ run.prior # None => sm = run.prior \/ Current
    /\ pc \in {"clean", "finish"} /\ run.rv # None /\ ~run.waitTLS /\ sm # None
         => Current \/ ServiceMonitorResyncSettlePending(sm)
    /\ pc = "idle" /\ timer > 0 /\ fails = 0 /\ enabled /\ cert.state = "ok" /\ sm # None
         => Current \/ ServiceMonitorResyncSettlePending(sm)

NudgeInv == CacheInv /\ CertInv /\ ToldInv /\ DecidedInv /\ QuietInv

\* Every step keeps the stored Secret the last news of the cache.
LEMMA CacheStep == TypeOK /\ CacheInv /\ [Next]_vars => CacheInv'
<1> SUFFICES ASSUME TypeOK, CacheInv, [Next]_vars PROVE CacheInv'
  OBVIOUS
<1> USE DEF CacheInv
<1>1. ASSUME NEW s \in Secret \cup {None}, Store(s) PROVE CacheInv'
  BY <1>1, StoreType
<1>2. CASE UNCHANGED <<secret, cached, news>>
  BY <1>2
<1>3. CASE EnsurePrometheusScrapeToken
  BY <1>1, <1>2, <1>3, PublishFacts DEF EnsurePrometheusScrapeToken
<1>4. CASE CleanupSecret \/ MeddleSecret
  <2>1. CASE Store(None)
    BY <1>1, <2>1
  <2>2. CASE secret # None /\ Store([secret EXCEPT !.token = None, !.rv = Fresh])
    <3>1. Fresh \in Versions
      BY <2>2, FreshFacts DEF Store
    <3>2. [secret EXCEPT !.token = None, !.rv = Fresh] \in Secret
      BY <2>2, <3>1 DEF TypeOK, Secret
    <3> QED
      BY <1>1, <2>2, <3>2
  <2> QED
    BY <1>4, <2>1, <2>2 DEF CleanupSecret, MeddleSecret
<1>5. CASE Tick
  <2>1. secret' = Older(secret) /\ cached' = Older(cached)
    BY <1>5 DEF Tick
  <2>2. /\ Len(news') = Len(news) /\ \A i \in 1..Len(news) : news'[i] = Older(news[i])
        /\ news' = <<>> <=> news = <<>>
    BY <1>5, TickNews
  <2>3. news # <<>> => Len(news) \in 1..Len(news)
    BY EmptySeq DEF TypeOK
  <2> QED
    BY <2>1, <2>2, <2>3
<1>6. CASE TokenEvent
  <2>1. /\ cached' = news[1] /\ Len(news) >= 1 /\ Len(news') = Len(news) - 1
        /\ \A i \in 1..Len(news') : news'[i] = news[i + 1]
        /\ news' \in Seq(Secret \cup {None})
    BY <1>6, EventFacts
  <2>2. secret' = secret /\ secret = news[Len(news)] /\ Len(news) \in Nat
    BY <1>6, LenProperties DEF TokenEvent, TypeOK
  <2>3. CASE news' = <<>>
    <3>1. Len(news) = 1
      BY <2>1, <2>2, <2>3, EmptySeq
    <3> QED
      BY <2>1, <2>2, <2>3, <3>1
  <2>4. CASE news' # <<>>
    <3>1. Len(news') \in Nat \ {0}
      BY <2>1, <2>4, EmptySeq
    <3>2. news'[Len(news')] = news[Len(news') + 1] /\ Len(news') + 1 = Len(news)
      BY <2>1, <2>2, <3>1
    <3> QED
      BY <2>2, <2>4, <3>2
  <2> QED
    BY <2>3, <2>4
<1>7. CASE Crash
  BY <1>7 DEF Crash
<1> QED
  BY <1>2, <1>3, <1>4, <1>5, <1>6, <1>7
     DEF Next, Reconcile, vars, Begin, ReadToken, EvaluateMetricsScrapeTLS,
         retainOperandServiceMonitorIfPresent, ProbeServiceMonitor, ApplyServiceMonitor,
         ResyncOperandServiceMonitor, CleanupServiceMonitor, CleanupOrphans, Finish, Fail,
         CertEvent, ChangeCert, MeddleServiceMonitor, Toggle

\* No step shows a version of the certificate that is to come.
LEMMA CertStep == TypeOK /\ CertInv /\ [Next]_vars => CertInv'
<1> SUFFICES ASSUME TypeOK, CertInv, [Next]_vars PROVE CertInv'
  OBVIOUS
<1> USE DEF CertInv
<1>0. /\ run \in Run /\ changes \in Nat /\ cert.rv \in Nat
      /\ run.caRV \in Nat \cup {None} /\ (sm # None => sm.caRV \in Nat \cup {None})
  BY DEF TypeOK, Run, Cert, ServiceMonitor
<1>1. CASE /\ UNCHANGED cert /\ changes' \in Nat /\ changes' <= changes
           /\ run'.caRV \in {run.caRV, cert.rv, None}
           /\ sm' # None => \/ sm # None /\ sm'.caRV = sm.caRV
                            \/ sm'.caRV \in {run.caRV, None}
  BY <1>0, <1>1
<1>2. CASE ReadToken \/ EvaluateMetricsScrapeTLS \/ ProbeServiceMonitor
  BY <1>0, <1>1, <1>2 DEF ReadToken, EvaluateMetricsScrapeTLS, ProbeServiceMonitor, Run
<1>3. CASE EnsurePrometheusScrapeToken
  <2>1. CASE MintToken
    BY <1>0, <1>1, <1>3, <2>1 DEF EnsurePrometheusScrapeToken, MintToken, Run
  <2>2. CASE ReapplyToken
    BY <1>0, <1>1, <1>3, <2>2 DEF EnsurePrometheusScrapeToken, ReapplyToken, Run
  <2> QED
    BY <1>3, <2>1, <2>2 DEF EnsurePrometheusScrapeToken
<1>4. CASE ApplyServiceMonitor
  <2>1. run'.caRV = run.caRV /\ UNCHANGED <<cert, changes>>
    BY <1>0, <1>4 DEF ApplyServiceMonitor, Run
  <2>2. sm' = IF sm = None THEN NewServiceMonitor ELSE sm
    BY <1>4 DEF ApplyServiceMonitor, ChangeMonitor
  <2> QED
    BY <1>0, <1>1, <2>1, <2>2 DEF NewServiceMonitor
<1>5. CASE ResyncOperandServiceMonitor
  <2>1. run'.caRV = run.caRV /\ UNCHANGED <<cert, changes>>
    BY <1>0, <1>5 DEF ResyncOperandServiceMonitor, Run
  <2>2. sm' = IF sm = None THEN None ELSE planServiceMonitorResync(sm)
    BY <1>5 DEF ResyncOperandServiceMonitor, ChangeMonitor
  <2>3. \A t : Resynced(sm, t).caRV \in {run.caRV, sm.caRV}
    BY DEF Resynced
  <2>4. sm # None => sm'.caRV \in {run.caRV, sm.caRV}
    BY <2>2, <2>3, PlanCases
  <2> QED
    BY <1>0, <1>1, <2>1, <2>2, <2>4
<1>6. CASE CleanupServiceMonitor \/ MeddleServiceMonitor
  BY <1>0, <1>1, <1>6 DEF CleanupServiceMonitor, MeddleServiceMonitor, ChangeMonitor
<1>7. CASE Finish \/ Fail \/ Crash
  BY <1>0, <1>1, <1>7 DEF Finish, Fail, Crash, NewRun
<1>8. CASE Tick
  <2>1. UNCHANGED <<run, cert, changes>>
    BY <1>8 DEF Tick
  <2> QED
    BY <1>0, <1>1, <1>8, <2>1, TickMonitor
<1>9. ASSUME NEW state, ChangeCert(state) PROVE CertInv'
  <2>1. cert'.rv = changes' /\ changes' \in Nat /\ changes' <= changes /\ UNCHANGED <<run, sm>>
    BY <1>0, <1>9 DEF ChangeCert
  <2> QED
    BY <1>0, <2>1
<1>10. CASE MeddleSecret \/ Toggle
  BY <1>0, <1>1, <1>10 DEF MeddleSecret, Toggle
<1>11. CASE UNCHANGED <<run, sm, cert, changes>>
  BY <1>11
<1> QED
  BY <1>2, <1>3, <1>4, <1>5, <1>6, <1>7, <1>8, <1>9, <1>10, <1>11
     DEF Next, Reconcile, vars, Begin, retainOperandServiceMonitorIfPresent, CleanupSecret,
         CleanupOrphans, TokenEvent, CertEvent

\* Every step keeps the annotations true to what prometheus-operator has read.
LEMMA ToldStep == TypeOK /\ CertInv /\ ToldInv /\ [Next]_vars => ToldInv'
<1> SUFFICES ASSUME TypeOK, CertInv, ToldInv, [Next]_vars PROVE ToldInv'
  OBVIOUS
<1> USE DEF ToldInv
<1>1. CASE UNCHANGED <<secret, cert, sm, told>>
  BY <1>1
<1>2. ASSUME UNCHANGED <<cert, sm, told>>,
             secret' # None => secret' = secret \/ secret'.rv \notin InUse
      PROVE  ToldInv'
  <2>1. sm # None => sm.secretRV \in InUse
    BY DEF InUse
  <2> QED
    BY <1>2, <2>1
<1>3. ASSUME UNCHANGED <<secret, cert>>, NEW m, ChangeMonitor(m) PROVE ToldInv'
  BY <1>3 DEF ChangeMonitor
<1>4. CASE EnsurePrometheusScrapeToken
  BY <1>2, <1>4, PublishFacts DEF EnsurePrometheusScrapeToken
<1>5. CASE CleanupSecret \/ MeddleSecret
  <2>1. UNCHANGED <<cert, sm, told>>
    BY <1>5 DEF CleanupSecret, MeddleSecret
  <2>2. CASE Store(None)
    BY <1>2, <2>1, <2>2 DEF Store
  <2>3. CASE secret # None /\ Store([secret EXCEPT !.token = None, !.rv = Fresh])
    <3>1. Fresh \notin InUse
      BY <2>3, FreshFacts DEF Store
    <3>2. secret' = [secret EXCEPT !.token = None, !.rv = Fresh] /\ secret \in Secret
      BY <2>3 DEF Store, TypeOK
    <3>3. secret'.rv = Fresh
      BY <3>2 DEF Secret
    <3> QED
      BY <1>2, <2>1, <3>1, <3>3
  <2> QED
    BY <1>5, <2>2, <2>3 DEF CleanupSecret, MeddleSecret
<1>6. CASE ApplyServiceMonitor \/ ResyncOperandServiceMonitor \/ CleanupServiceMonitor
             \/ MeddleServiceMonitor
  <2>1. UNCHANGED <<secret, cert>> /\ \E m : ChangeMonitor(m)
    BY <1>6 DEF ApplyServiceMonitor, ResyncOperandServiceMonitor, CleanupServiceMonitor,
                MeddleServiceMonitor
  <2> QED
    BY <1>3, <2>1
<1>7. CASE Tick
  <2>1. secret' = Older(secret) /\ UNCHANGED <<cert, told>>
    BY <1>7 DEF Tick
  <2>2. (secret' = None <=> secret = None)
        /\ (secret # None => secret'.token = secret.token /\ secret'.rv = secret.rv)
    BY <2>1, OlderType DEF TypeOK
  <2> QED
    BY <1>7, <2>1, <2>2, TickMonitor
<1>8. ASSUME NEW state, ChangeCert(state) PROVE ToldInv'
  <2>1. cert'.rv = changes - 1 /\ changes > 0 /\ changes \in Nat /\ UNCHANGED <<secret, sm, told>>
    BY <1>8 DEF ChangeCert, TypeOK
  <2>2. sm # None => sm.caRV \in Nat \cup {None} /\ (sm.caRV # None => sm.caRV >= changes)
    BY DEF CertInv, TypeOK, ServiceMonitor
  <2>3. sm # None => sm.caRV # cert'.rv
    BY <2>1, <2>2, NoneIsNothing
  <2> QED
    BY <2>1, <2>3
<1> QED
  BY <1>1, <1>4, <1>5, <1>6, <1>7, <1>8
     DEF Next, Reconcile, vars, Begin, ReadToken, EvaluateMetricsScrapeTLS,
         retainOperandServiceMonitorIfPresent, ProbeServiceMonitor, CleanupOrphans, Finish, Fail,
         Crash, TokenEvent, CertEvent, Toggle

\* What the publication leaves alone in the run.
LEMMA PublishKeeps ==
  ASSUME TypeOK, EnsurePrometheusScrapeToken
  PROVE  run'.waitTLS = run.waitTLS /\ run'.prior = run.prior
<1>1. run \in Run
  BY DEF TypeOK
<1>2. CASE MintToken
  BY <1>1, <1>2 DEF MintToken, Run
<1>3. CASE ReapplyToken
  BY <1>1, <1>3 DEF ReapplyToken, Run
<1> QED
  BY <1>2, <1>3 DEF EnsurePrometheusScrapeToken

\* Every step keeps the decisions of the reconcile in line with its phase.
LEMMA DecidedStep == TypeOK /\ PhaseInv /\ DecidedInv /\ [Next]_vars => DecidedInv'
<1> SUFFICES ASSUME TypeOK, PhaseInv, DecidedInv, [Next]_vars PROVE DecidedInv'
  OBVIOUS
<1> USE DEF DecidedInv
<1>0. run \in Run
  BY DEF TypeOK
<1>1. CASE Begin
  BY <1>1 DEF Begin
<1>2. CASE ReadToken
  <2>1. run'.waitTLS = run.waitTLS /\ run'.updated = run.updated
    BY <1>0, <1>2 DEF ReadToken, Run
  <2> QED
    BY <1>2, <2>1 DEF ReadToken
<1>3. CASE EnsurePrometheusScrapeToken
  BY <1>3, PublishKeeps DEF EnsurePrometheusScrapeToken
<1>4. CASE EvaluateMetricsScrapeTLS
  <2>1. run'.rv = run.rv /\ pc = "tls" /\ pc' \in {"probe", "retain", "clean", "finish"}
    BY <1>0, <1>4, AfterScrapeType DEF EvaluateMetricsScrapeTLS, Run
  <2>2. CASE cert.state = "ok"
    <3>1. run'.waitTLS = run.waitTLS /\ pc' = "probe"
      BY <1>0, <1>4, <2>2 DEF EvaluateMetricsScrapeTLS, Run
    <3> QED
      BY <2>1, <3>1
  <2>3. CASE cert.state # "ok"
    <3>1. run'.waitTLS = TRUE /\ pc' # "probe"
      BY <1>0, <1>4, <2>3, AfterScrapeType DEF EvaluateMetricsScrapeTLS, Run
    <3> QED
      BY <2>1, <3>1 DEF PhaseInv
  <2> QED
    BY <2>2, <2>3
<1>5. CASE retainOperandServiceMonitorIfPresent
  BY <1>5, AfterScrapeType DEF retainOperandServiceMonitorIfPresent, PhaseInv
<1>6. CASE ProbeServiceMonitor
  BY <1>6 DEF ProbeServiceMonitor
<1>7. CASE ApplyServiceMonitor
  <2>1. run'.rv = run.rv /\ run'.waitTLS = run.waitTLS
    BY <1>0, <1>7 DEF ApplyServiceMonitor, Run
  <2>2. /\ pc = "apply" /\ pc' \in {"resync", "clean", "finish"}
        /\ run.waitTLS => pc' # "resync"
    BY <1>7, AfterScrapeType DEF ApplyServiceMonitor
  <2> QED
    BY <2>1, <2>2 DEF PhaseInv
<1>8. CASE ResyncOperandServiceMonitor
  <2>1. run'.rv = run.rv /\ pc = "resync" /\ pc' \in {"clean", "finish"}
    BY <1>0, <1>8, AfterScrapeType DEF ResyncOperandServiceMonitor, Run
  <2> QED
    BY <2>1 DEF PhaseInv
<1>9. CASE CleanupServiceMonitor \/ CleanupSecret \/ CleanupOrphans
  BY <1>9 DEF CleanupServiceMonitor, CleanupSecret, CleanupOrphans
<1>10. CASE Finish \/ Fail \/ Crash
  BY <1>10 DEF Finish, Fail, Crash, NewRun
<1>11. CASE Tick
  BY <1>11 DEF Tick
<1>12. CASE TokenEvent \/ CertEvent \/ Toggle
  BY <1>12 DEF TokenEvent, CertEvent, Toggle
<1>13. CASE (\E state \in {"missing", "bad", "ok"} : ChangeCert(state)) \/ MeddleSecret
  BY <1>13 DEF ChangeCert, MeddleSecret
<1>14. CASE MeddleServiceMonitor
  <2>1. wake => wake'
    BY <1>14, Zenon DEF MeddleServiceMonitor
  <2>2. UNCHANGED <<pc, run, enabled>>
    BY <1>14 DEF MeddleServiceMonitor
  <2> QED
    BY <2>1, <2>2
<1>15. CASE UNCHANGED vars
  BY <1>15 DEF vars
<1> QED
  BY <1>1, <1>2, <1>3, <1>4, <1>5, <1>6, <1>7, <1>8, <1>9, <1>10, <1>11, <1>12, <1>13, <1>14,
     <1>15 DEF Next, Reconcile

\* Annotations with both stored versions show that both Secrets were read.
LEMMA Seen ==
  ASSUME TypeOK, ToldInv, sm # None, secret # None, sm.secretRV = secret.rv, sm.caRV = cert.rv
  PROVE  Current
<1>1. told.token = secret.token /\ told.ca = cert.rv
  BY DEF ToldInv
<1>2. told \in [token : Versions \cup {None}, ca : Nat \cup {None}]
  BY DEF TypeOK
<1> QED
  BY <1>1, <1>2 DEF Current

\* A resync that changes nothing leaves a ServiceMonitor that has no need of
\* it, or one with a settle-retry to come.
LEMMA PlanNothing ==
  ASSUME TypeOK, ToldInv, sm # None, secret # None, run.rv = secret.rv, ~run.updated,
         run.caRV = cert.rv, run.prior # None => sm = run.prior \/ Current,
         planServiceMonitorResync(sm) = sm
  PROVE  Current \/ sm.settle # None
<1> SUFFICES ASSUME ~Current, sm.settle = None PROVE FALSE
  OBVIOUS
<1> DEFINE prior == IF run.prior = None THEN NewServiceMonitor ELSE run.prior
           differ == (run.rv # None /\ run.rv # prior.secretRV) \/ run.caRV # prior.caRV
<1>1. run.rv # None /\ run.caRV # None
  <2>1. secret.rv \in Versions /\ cert.rv \in Nat
    BY DEF TypeOK, Secret, Cert
  <2> QED
    BY <2>1, NoneIsNothing
<1>2. prior = NewServiceMonitor \/ prior = sm
  OBVIOUS
<1>3. ~ServiceMonitorResyncSettlePending(prior)
  BY <1>2 DEF ServiceMonitorResyncSettlePending, NewServiceMonitor
<1>4. planServiceMonitorResync(sm) = IF differ THEN Resynced(sm, sm.settle) ELSE sm
  BY <1>3 DEF planServiceMonitorResync
<1>5. sm.secretRV = run.rv /\ sm.caRV = run.caRV
  <2>1. CASE differ
    <3>1. sm = Resynced(sm, sm.settle)
      BY <1>4, <2>1
    <3>2. Resynced(sm, sm.settle).secretRV = run.rv /\ Resynced(sm, sm.settle).caRV = run.caRV
      BY <1>1 DEF Resynced
    <3> QED
      BY <3>1, <3>2
  <2>2. CASE ~differ
    BY <1>1, <1>2, <2>2 DEF NewServiceMonitor
  <2> QED
    BY <2>1, <2>2
<1> QED
  BY <1>5, Seen

\* Every step keeps what the reconcile has read current while nothing happens.
LEMMA QuietStep ==
  TypeOK /\ SettleInv /\ PhaseInv /\ NudgeInv /\ [Next]_vars => QuietInv'
<1> SUFFICES ASSUME TypeOK, SettleInv, PhaseInv, CacheInv, ToldInv, DecidedInv, QuietInv,
                    [Next]_vars, Quiet'
             PROVE  QuietInv'
  BY DEF NudgeInv, QuietInv
<1>0. run \in Run
  BY DEF TypeOK
<1>1. ASSUME NEW s \in Secret \cup {None}, Store(s) PROVE FALSE
  BY <1>1, StoreType DEF Quiet
<1>2. CASE wake'
  BY <1>2 DEF Quiet
<1>3. CASE Begin
  <2>1. pc' \in {"read", "clean"} /\ run'.rv = None
    BY <1>3 DEF Begin, PhaseInv
  <2> QED
    BY <2>1 DEF QuietInv
<1>4. CASE ReadToken
  <2>1. pc' = "publish" /\ run'.copy = cached /\ run'.rv = None /\ UNCHANGED <<secret, cached, news>>
    BY <1>0, <1>4 DEF ReadToken, Run, PhaseInv
  <2>2. secret' = cached
    BY <2>1 DEF CacheInv, Quiet
  <2> QED
    BY <2>1, <2>2 DEF QuietInv
<1>5. CASE EnsurePrometheusScrapeToken
  <2>1. pc = "publish" /\ pc' = "tls" /\ UNCHANGED <<wake, certNews>>
    BY <1>5 DEF EnsurePrometheusScrapeToken
  <2>2. /\ UNCHANGED <<secret, news>> /\ run'.rv = run.copy.rv /\ run'.updated = run.updated
        /\ run.copy # None
    BY <1>1, <1>5, PublishFacts
  <2>3. run.copy = secret
    BY <2>1, <2>2 DEF QuietInv, Quiet
  <2>4. ~run.updated
    BY <2>1 DEF DecidedInv
  <2> QED
    BY <2>1, <2>2, <2>3, <2>4 DEF QuietInv
<1>6. CASE EvaluateMetricsScrapeTLS
  <2>1. /\ pc = "tls" /\ pc' \in {"probe", "retain", "clean", "finish"}
        /\ UNCHANGED <<world, wake>>
    BY <1>6, AfterScrapeType DEF EvaluateMetricsScrapeTLS
  <2>2. run'.rv = run.rv /\ run'.updated = run.updated
    BY <1>0, <1>6 DEF EvaluateMetricsScrapeTLS, Run
  <2>3. secret # None /\ run.rv = secret.rv /\ ~run.updated
    BY <2>1 DEF QuietInv, Quiet, PhaseInv
  <2>4. CASE cert.state = "ok"
    <3>1. run'.waitTLS = run.waitTLS /\ run'.caRV = cert.rv /\ pc' = "probe"
      BY <1>0, <1>6, <2>4 DEF EvaluateMetricsScrapeTLS, Run
    <3>2. ~run.waitTLS
      BY <2>1 DEF DecidedInv
    <3> QED
      BY <2>1, <2>2, <2>3, <2>4, <3>1, <3>2 DEF QuietInv
  <2>5. CASE cert.state # "ok"
    <3>1. run'.waitTLS = TRUE
      BY <1>0, <1>6, <2>5 DEF EvaluateMetricsScrapeTLS, Run
    <3> QED
      BY <2>1, <2>2, <2>3, <2>5, <3>1 DEF QuietInv
  <2> QED
    BY <2>4, <2>5
<1>7. CASE retainOperandServiceMonitorIfPresent
  <2>1. /\ pc = "retain" /\ pc' \in {"apply", "clean", "finish"}
        /\ UNCHANGED <<world, run, wake>>
    BY <1>7, AfterScrapeType DEF retainOperandServiceMonitorIfPresent
  <2>2. run.waitTLS /\ run.prior = None
    BY <2>1 DEF DecidedInv, SettleInv
  <2> QED
    BY <2>1, <2>2 DEF QuietInv, Quiet
<1>8. CASE ProbeServiceMonitor
  <2>1. pc = "probe" /\ pc' = "apply" /\ UNCHANGED <<world, wake>>
    BY <1>8 DEF ProbeServiceMonitor
  <2>2. /\ run'.rv = run.rv /\ run'.updated = run.updated /\ run'.waitTLS = run.waitTLS
        /\ run'.caRV = run.caRV
    BY <1>0, <1>8 DEF ProbeServiceMonitor, Run
  <2>3. run'.prior = sm \/ run'.prior = None
    <3>1. run.prior = None
      BY <2>1 DEF SettleInv
    <3> QED
      BY <1>0, <1>8, <3>1 DEF ProbeServiceMonitor, Run
  <2> QED
    BY <2>1, <2>2, <2>3 DEF QuietInv, Quiet
<1>9. CASE ApplyServiceMonitor
  <2>1. /\ pc = "apply" /\ pc' \in {"resync", "clean", "finish"}
        /\ ~run.waitTLS => pc' = "resync"
        /\ UNCHANGED <<secret, news, cert, certNews>>
    BY <1>9, AfterScrapeType DEF ApplyServiceMonitor
  <2>2. /\ run'.rv = run.rv /\ run'.updated = run.updated /\ run'.waitTLS = run.waitTLS
        /\ run'.caRV = run.caRV /\ run'.prior = run.prior
    BY <1>0, <1>9 DEF ApplyServiceMonitor, Run
  <2>3. wake => wake'
    BY <1>9, Zenon DEF ApplyServiceMonitor
  <2>4. Quiet
    BY <2>1, <2>3 DEF Quiet
  <2>5. /\ secret # None /\ run.rv = secret.rv /\ ~run.updated
        /\ IF run.waitTLS THEN cert.state # "ok" ELSE cert.state = "ok" /\ run.caRV = cert.rv
    BY <2>1, <2>4 DEF QuietInv, PhaseInv
  <2>6. CASE sm # None
    <3>1. sm' = sm
      BY <1>9, <2>6 DEF ApplyServiceMonitor, ChangeMonitor
    <3>2. run.prior # None => sm = run.prior
      BY <2>1, <2>4, <2>6 DEF QuietInv
    <3> QED
      BY <2>1, <2>2, <2>5, <3>1, <3>2 DEF QuietInv
  <2>7. CASE sm = None
    <3>1. NewServiceMonitor # None
      BY NoneIsNothing DEF NewServiceMonitor, ServiceMonitor
    <3>2. Current'
      BY <1>9, <2>1, <2>5, <2>7, <3>1 DEF ApplyServiceMonitor, ChangeMonitor, Current
    <3> QED
      BY <2>1, <2>2, <2>5, <3>2 DEF QuietInv
  <2> QED
    BY <2>6, <2>7
<1>10. CASE ResyncOperandServiceMonitor
  <2>1. /\ pc = "resync" /\ pc' \in {"clean", "finish"}
        /\ UNCHANGED <<secret, news, cert, certNews>>
    BY <1>10, AfterScrapeType DEF ResyncOperandServiceMonitor
  <2>2. /\ run'.rv = run.rv /\ run'.updated = run.updated /\ run'.waitTLS = run.waitTLS
        /\ run'.caRV = run.caRV
    BY <1>0, <1>10 DEF ResyncOperandServiceMonitor, Run
  <2>3. wake => wake'
    BY <1>10, Zenon DEF ResyncOperandServiceMonitor
  <2>4. Quiet
    BY <2>1, <2>3 DEF Quiet
  <2>5. /\ secret # None /\ run.rv = secret.rv /\ ~run.updated
        /\ ~run.waitTLS /\ cert.state = "ok" /\ run.caRV = cert.rv
        /\ sm # None /\ run.prior # None => sm = run.prior \/ Current
    BY <2>1, <2>4 DEF QuietInv, PhaseInv, DecidedInv
  <2>6. ChangeMonitor(IF sm = None THEN None ELSE planServiceMonitorResync(sm))
    BY <1>10 DEF ResyncOperandServiceMonitor
  <2>7. sm' # None => Current' \/ ServiceMonitorResyncSettlePending(sm')
    <3> SUFFICES ASSUME sm' # None PROVE Current' \/ sm'.settle # None
      BY DEF ServiceMonitorResyncSettlePending
    <3>1. sm # None /\ sm' = planServiceMonitorResync(sm)
      BY <2>6 DEF ChangeMonitor
    <3>2. CASE sm' = sm
      <4>1. told' = told
        BY <2>6, <3>1, <3>2 DEF ChangeMonitor
      <4>2. Current \/ sm.settle # None
        BY <2>5, <3>1, <3>2, PlanNothing
      <4> QED
        BY <2>1, <3>2, <4>1, <4>2 DEF Current
    <3>3. CASE sm' # sm
      BY <2>1, <2>5, <2>6, <3>1, <3>3 DEF ChangeMonitor, Current
    <3> QED
      BY <3>2, <3>3
  <2> QED
    BY <2>1, <2>2, <2>5, <2>7 DEF QuietInv
<1>11. CASE CleanupServiceMonitor \/ TokenEvent \/ CertEvent \/ Toggle \/ Crash
  <2>1. wake'
    BY <1>11 DEF CleanupServiceMonitor, TokenEvent, CertEvent, Toggle, Crash
  <2> QED
    BY <1>2, <2>1
<1>12. CASE CleanupSecret \/ MeddleSecret
  <2>1. CASE Store(None)
    BY <1>1, <2>1
  <2>2. CASE secret # None /\ Store([secret EXCEPT !.token = None, !.rv = Fresh])
    <3>1. Fresh \in Versions
      BY <2>2, FreshFacts DEF Store
    <3>2. [secret EXCEPT !.token = None, !.rv = Fresh] \in Secret
      BY <2>2, <3>1 DEF TypeOK, Secret
    <3> QED
      BY <1>1, <2>2, <3>2
  <2> QED
    BY <1>12, <2>1, <2>2 DEF CleanupSecret, MeddleSecret
<1>13. CASE CleanupOrphans
  <2>1. pc = "clean" /\ pc' = "finish" /\ UNCHANGED <<world, run, wake>>
    BY <1>13 DEF CleanupOrphans
  <2> QED
    BY <2>1 DEF QuietInv, Quiet, Current
<1>14. CASE Finish
  <2>1. pc = "finish" /\ pc' = "idle" /\ run'.rv = None /\ UNCHANGED <<world, wake>>
    BY <1>14 DEF Finish, NewRun
  <2>2. enabled => run.rv # None
    BY <2>1 DEF DecidedInv, Quiet
  <2> QED
    BY <2>1, <2>2 DEF QuietInv, Quiet, Current
<1>15. CASE Fail
  <2>1. fails' # 0 /\ pc' = "idle" /\ run'.rv = None
    BY <1>15 DEF Fail, NewRun, Smaller, TypeOK
  <2> QED
    BY <2>1 DEF QuietInv
<1>16. CASE Tick
  <2>1. /\ pc = "idle" /\ ~wake /\ timer > 0 /\ secret' = Older(secret)
        /\ UNCHANGED <<enabled, cert, certNews, told, pc, run, fails>>
    BY <1>16 DEF Tick
  <2>2. (secret' = None <=> secret = None) /\ (secret # None => secret'.token = secret.token)
    BY <2>1, OlderType DEF TypeOK
  <2>3. Quiet /\ run'.rv = None
    BY <1>16, <2>1, TickNews DEF Quiet, PhaseInv
  <2>4. /\ sm = None <=> sm' = None
        /\ ServiceMonitorResyncSettlePending(sm) => ServiceMonitorResyncSettlePending(sm')
    BY <1>16, TickMonitor DEF ServiceMonitorResyncSettlePending
  <2> QED
    BY <2>1, <2>2, <2>3, <2>4 DEF QuietInv, Current
<1>17. ASSUME NEW state \in {"missing", "bad", "ok"}, ChangeCert(state) PROVE QuietInv'
  BY <1>17 DEF ChangeCert, Quiet
<1>18. CASE MeddleServiceMonitor
  <2>1. sm' = None /\ UNCHANGED <<enabled, secret, news, cert, certNews, pc, run, timer, fails>>
    BY <1>18 DEF MeddleServiceMonitor, ChangeMonitor
  <2>2. wake => wake'
    BY <1>18, Zenon DEF MeddleServiceMonitor
  <2> QED
    BY <2>1, <2>2 DEF QuietInv, Quiet
<1>19. CASE UNCHANGED vars
  BY <1>19 DEF vars, QuietInv, Quiet, Current
<1> QED
  BY <1>3, <1>4, <1>5, <1>6, <1>7, <1>8, <1>9, <1>10, <1>11, <1>12, <1>13, <1>14, <1>15, <1>16,
     <1>17, <1>18, <1>19 DEF Next, Reconcile

\* When everything is handled and the last reconcile succeeded, the resync has
\* told prometheus-operator of the stored token and CA, or is waiting for the
\* settle deadline: for both callers, after any stale read, crash, failed
\* probe, meddling and change of the certificate.
THEOREM AlwaysNudged == Spec => []Nudged
<1>1. Init => SettleInv /\ PhaseInv /\ NudgeInv
  <2> SUFFICES ASSUME Init PROVE SettleInv /\ PhaseInv /\ NudgeInv
    OBVIOUS
  <2>1. /\ secret = None /\ cached = None /\ news = <<>> /\ sm = None /\ pc = "idle" /\ wake
        /\ run = NewRun
    BY DEF Init
  <2>2. run.copy = None /\ run.rv = None /\ run.prior = None /\ ~run.updated /\ ~run.waitTLS
    BY <2>1 DEF NewRun
  <2>3. ~Operand => enabled
    BY DEF Init
  <2>4. SettleInv /\ PhaseInv /\ DecidedInv
    BY <2>1, <2>2, <2>3 DEF SettleInv, PhaseInv, DecidedInv
  <2>5. cert.rv = changes /\ changes \in Nat
    BY ScrapeAssumption DEF Init
  <2>6. CertInv
    BY <2>1, <2>5 DEF CertInv, NewRun
  <2> QED
    BY <2>1, <2>4, <2>6 DEF NudgeInv, CacheInv, ToldInv, QuietInv, Quiet
<1>2. TypeOK /\ SettleInv /\ PhaseInv /\ NudgeInv /\ [Next]_vars
        => SettleInv' /\ PhaseInv' /\ NudgeInv'
  BY SettleStep, PhaseStep, CacheStep, CertStep, ToldStep, DecidedStep, QuietStep DEF NudgeInv
<1>3. NudgeInv => Nudged
  BY DEF NudgeInv, QuietInv, Quiet, Current, Nudged
<1> QED
  BY <1>1, <1>2, <1>3, TypeInit, TypeStep, PTL DEF Spec
=============================================================================

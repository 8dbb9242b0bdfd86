---------------------------- MODULE ScrapeToken ----------------------------
(***************************************************************************)
(* The scrape wiring of one namespace: the Secret with Prometheus' bearer  *)
(* token, which expires and is minted again at half of its life; the       *)
(* ServiceMonitor that refers to it, created only when the metrics         *)
(* certificate verifies; and the annotations that make prometheus-operator *)
(* read the Secrets again. ReconcilePrometheusScrapeToken is called by an  *)
(* operand controller, whose tracking client then deletes what it did not  *)
(* apply, or by the operator's own ScrapeTokenRotator, which has no such   *)
(* cleanup.                                                                *)
(*                                                                         *)
(* Time is discrete and kept as what is left until a deadline. A reconcile *)
(* takes less than one unit, and one that is due starts within the unit.   *)
(***************************************************************************)
EXTENDS Naturals, Sequences

CONSTANTS
  Setups,        \* who may be the caller, an operand controller or the operator's rotator, with
                 \* how many failed calls and crashes and how many changes by users and
                 \* cert-manager
  Versions,      \* tokens and versions of their Secret, compared for equality only
  None,          \* no object, no version, no token, no deadline
  TTL,           \* DefaultScrapeTokenTTL
  MinRequeue,    \* DefaultScrapeTokenMinRequeue
  Interval,      \* DefaultScrapeTokenRotationInterval
  Settle,        \* DefaultServiceMonitorResyncSettleDelay
  TLSRequeue,    \* DefaultMetricsTLSRequeue
  MaxBackoff,    \* the work queue's longest delay after an error
  MaxLag         \* bound on Secret events on their way to the cache

Half == TTL \div 2

\* left: until the time of the expires-at annotation.
Secret == [token : Versions \cup {None}, left : 0..TTL, rv : Versions]

\* The resync annotations; settle is what is left of the settle deadline.
ServiceMonitor == [secretRV : Versions \cup {None}, caRV : Nat \cup {None},
                   settle : 0..Settle \cup {None}]

\* Two rotation intervals fit into half of a token's life.
ASSUME ScrapeAssumption ==
  /\ Setups \subseteq [caller : {"operand", "rotator"}, faults : Nat, changes : Nat]
  /\ None \notin Versions \cup Nat \cup Secret \cup ServiceMonitor
  /\ {TTL, MinRequeue, Interval, Settle, TLSRequeue, MaxBackoff, MaxLag} \subseteq Nat \ {0}
  /\ 2 * Interval <= Half

VARIABLES
  caller,     \* the caller in this behaviour
  enabled,    \* spec.componentMetrics; the rotator has no switch
  secret,     \* prometheus-scrape-token, as the API server stores it
  cached,     \* the informer cache's copy of it
  news,       \* its versions on their way to the cache
  cert,       \* metrics-server-cert; the reconcile reads it uncached
  certNews,   \* an event about it is on its way
  sm,         \* the ServiceMonitor; unstructured, so never cached
  pc, run,    \* the reconcile: phase and local variables
  wake,       \* the request is queued, or the rotator's wake channel is full
  timer,      \* until the request is queued again
  ticker,     \* until the TokenRotationBroadcaster's next event; the rotator has no use for it
  told,       \* external: the token and the CA prometheus-operator read at its last event
  fails,      \* history: reconciles that failed in a row, two standing for more
  faults, changes   \* how many of each there may still be

world == <<caller, enabled, secret, cached, news, cert, certNews, sm, told>>
used  == <<faults, changes>>
vars  == <<caller, enabled, secret, cached, news, cert, certNews, sm, told, pc, run, wake, timer,
           ticker, fails, faults, changes>>

Operand == caller = "operand"

Smaller(a, b) == IF a < b THEN a ELSE b
Larger(a, b)  == IF a > b THEN a ELSE b

\* No delayed request: beyond every delay the code asks for.
NoTimer == TTL + MaxBackoff

\* "bad" stands for an empty ca.crt, an empty tls.crt and a leaf that does not verify.
\* Its version is the number of changes that were still to come.
Cert == [state : {"missing", "bad", "ok"}, rv : Nat]

NewServiceMonitor == [secretRV |-> None, caRV |-> None, settle |-> None]

\* What the reconcile knows: the Secret it read, EnsureScrapeTokenResult, the TLS result,
\* the ServiceMonitor it found, whether it applied it, and the settle delay to wait for.
NewRun == [copy |-> None, rv |-> None, updated |-> FALSE, left |-> 0, waitTLS |-> FALSE,
           caRV |-> None, prior |-> None, applied |-> FALSE, settleWait |-> 0]

Run == [copy : Secret \cup {None}, rv : Versions \cup {None}, updated : BOOLEAN, left : 0..TTL,
        waitTLS : BOOLEAN, caRV : Nat \cup {None}, prior : ServiceMonitor \cup {None},
        applied : BOOLEAN, settleWait : 0..Settle]

\* The tokens and versions of the Secret in use.
InUse ==
  LET secrets  == ({secret, cached, run.copy} \cup {news[i] : i \in 1..Len(news)}) \ {None}
      monitors == {sm, run.prior} \ {None}
  IN {s.rv : s \in secrets} \cup {s.token : s \in secrets}
       \cup {m.secretRV : m \in monitors} \cup {run.rv, told.token}

\* A new one; which one does not matter.
Fresh == CHOOSE v \in Versions : v \notin InUse

\* Bounds: there is a new version left, and room for its event.
CanStore == Len(news) < MaxLag /\ \E v \in Versions : v \notin InUse

\* A write of the Secret; the informer will hear of it.
Store(s) ==
  /\ CanStore
  /\ secret' = s
  /\ news' = Append(news, s)

\* The ServiceMonitor becomes m. prometheus-operator watches ServiceMonitors, not Secrets: it
\* reads the Secrets when a ServiceMonitor changes.
ChangeMonitor(m) ==
  /\ sm' = m
  /\ told' = IF m \in {sm, None}
               THEN told
               ELSE [token |-> IF secret = None THEN None ELSE secret.token, ca |-> cert.rv]

(***************************************************************************)
(* The reconcile                                                           *)
(***************************************************************************)

ScrapeTokenNeedsRefresh(s) == s = None \/ s.token = None \/ s.left <= Half

ScrapeTokenRequeueAfter(left) == Larger(MinRequeue, IF left > Half THEN left - Half ELSE 0)

ServiceMonitorResyncSettlePending(m) == m # None /\ m.settle # None

ServiceMonitorResyncSettleRemaining(m) ==
  IF ServiceMonitorResyncSettlePending(m) THEN m.settle ELSE 0

\* The next phase once the ServiceMonitor is dealt with.
AfterScrape == IF Operand THEN "clean" ELSE "finish"

\* The request is taken from the queue, or the rotator's select returns.
Begin ==
  /\ pc = "idle"
  /\ wake \/ timer = 0
  /\ pc' = IF enabled THEN "read" ELSE "clean"
  /\ wake' = FALSE
  /\ timer' = IF timer = 0 THEN NoTimer ELSE timer
  /\ UNCHANGED <<world, run, ticker, fails, used>>

ReadToken ==
  /\ pc = "read"
  /\ run' = [run EXCEPT !.copy = cached]
  /\ pc' = "publish"
  /\ UNCHANGED <<world, wake, timer, ticker, fails, used>>

MintToken ==
  LET v == Fresh
  IN /\ Store([token |-> v, left |-> TTL, rv |-> v])
     /\ run' = [run EXCEPT !.updated = TRUE, !.left = TTL, !.rv = v]

\* The copy that was read is applied again; an apply that changes nothing is not a write.
ReapplyToken ==
  /\ IF secret # None /\ secret.token = run.copy.token
       THEN UNCHANGED <<secret, news>>
       ELSE Store([run.copy EXCEPT !.rv = Fresh])
  /\ run' = [run EXCEPT !.left = run.copy.left, !.rv = run.copy.rv]

EnsurePrometheusScrapeToken ==
  /\ pc = "publish"
  /\ IF ScrapeTokenNeedsRefresh(run.copy) THEN MintToken ELSE ReapplyToken
  /\ pc' = "tls"
  /\ UNCHANGED <<caller, enabled, cached, cert, certNews, sm, told, wake, timer, ticker, fails,
                 used>>

\* Mutant: a ServiceMonitor is retained whatever is wrong with the certificate.
RetainAlways ==
  /\ pc = "tls"
  /\ \/ /\ cert.state = "ok"
        /\ run' = [run EXCEPT !.caRV = cert.rv]
        /\ pc' = "probe"
     \/ /\ cert.state # "ok"
        /\ run' = [run EXCEPT !.waitTLS = TRUE]
        /\ pc' = "retain"
  /\ UNCHANGED <<world, wake, timer, ticker, fails, used>>

EvaluateMetricsScrapeTLS ==
  /\ pc = "tls"
  /\ \/ /\ cert.state = "ok"
        /\ run' = [run EXCEPT !.caRV = cert.rv]
        /\ pc' = "probe"
     \/ /\ cert.state # "ok"
        /\ run' = [run EXCEPT !.waitTLS = TRUE]
        /\ pc' = IF cert.state = "missing" THEN AfterScrape ELSE "retain"
  /\ UNCHANGED <<world, wake, timer, ticker, fails, used>>

retainOperandServiceMonitorIfPresent ==
  /\ pc = "retain"
  /\ pc' = IF sm = None THEN AfterScrape ELSE "apply"
  /\ UNCHANGED <<world, run, wake, timer, ticker, fails, used>>

\* Get of the ServiceMonitor. After an error the reconcile goes on as if there were none.
ProbeServiceMonitor ==
  /\ pc = "probe"
  /\ \/ run' = [run EXCEPT !.prior = sm] /\ UNCHANGED faults
     \/ faults > 0 /\ faults' = faults - 1 /\ UNCHANGED run
  /\ pc' = "apply"
  /\ UNCHANGED <<world, wake, timer, ticker, fails, changes>>

\* The apply creates a ServiceMonitor without annotations and leaves those of an existing one.
\* The operand controller watches ServiceMonitors.
ApplyServiceMonitor ==
  /\ pc = "apply"
  /\ ChangeMonitor(IF sm = None THEN NewServiceMonitor ELSE sm)
  /\ run' = [run EXCEPT !.applied = TRUE]
  /\ pc' = IF run.waitTLS THEN AfterScrape ELSE "resync"
  /\ wake' = (wake \/ (Operand /\ sm = None))
  /\ UNCHANGED <<caller, enabled, secret, cached, news, cert, certNews, timer, ticker, fails,
                 used>>

\* Mutant: the two annotations are swapped.
ResyncedSwapped(m, settle) ==
  [secretRV |-> run.caRV, caRV |-> run.rv, settle |-> settle]

\* The patch of ResyncOperandServiceMonitor; settle is the marker it leaves.
Resynced(m, settle) ==
  [secretRV |-> IF run.rv # None THEN run.rv ELSE m.secretRV,
   caRV |-> IF run.caRV # None THEN run.caRV ELSE m.caRV,
   settle |-> settle]

\* Mutants: no ca-sync; a settle-retry before its deadline; a settle-retry that leaves its
\* marker.
PlanWithout(m, caSync, eager, marker) ==
  LET prior  == IF run.prior = None THEN NewServiceMonitor ELSE run.prior
      differ == (run.rv # None /\ run.rv # prior.secretRV) \/ (caSync /\ run.caRV # prior.caRV)
  IN CASE run.updated -> Resynced(m, Settle)
       [] ~run.updated /\ ServiceMonitorResyncSettlePending(prior) ->
            IF prior.settle > 0 /\ ~eager THEN m ELSE Resynced(m, marker)
       [] OTHER -> IF differ THEN Resynced(m, m.settle) ELSE m

PlanNoCASync(m) == PlanWithout(m, FALSE, FALSE, None)

PlanEagerly(m) == PlanWithout(m, TRUE, TRUE, None)

PlanKeepsMarker(m) == PlanWithout(m, TRUE, FALSE, 0)

\* The patch planServiceMonitorResync asks for, on the ServiceMonitor as it is now.
planServiceMonitorResync(m) ==
  LET prior  == IF run.prior = None THEN NewServiceMonitor ELSE run.prior
      differ == (run.rv # None /\ run.rv # prior.secretRV) \/ run.caRV # prior.caRV
  IN CASE run.updated -> Resynced(m, Settle)
       [] ~run.updated /\ ServiceMonitorResyncSettlePending(prior) ->
            IF ServiceMonitorResyncSettleRemaining(prior) > 0 THEN m ELSE Resynced(m, None)
       [] OTHER -> IF differ THEN Resynced(m, m.settle) ELSE m

ResyncOperandServiceMonitor ==
  /\ pc = "resync"
  /\ ChangeMonitor(IF sm = None THEN None ELSE planServiceMonitorResync(sm))
  /\ wake' = (wake \/ (Operand /\ sm' # sm))
  /\ run' = [run EXCEPT !.settleWait = IF run.updated THEN Settle
                                       ELSE ServiceMonitorResyncSettleRemaining(run.prior)]
  /\ pc' = AfterScrape
  /\ UNCHANGED <<caller, enabled, secret, cached, news, cert, certNews, timer, ticker, fails,
                 used>>

\* Mutant: the ServiceMonitor is applied without the tracking client.
OrphanSMUntracked == sm # None

\* CleanupOrphans deletes what this reconcile did not apply, one kind at a time, in any order.
OrphanSM == sm # None /\ ~run.applied

\* Mutant: Secrets are not among the kinds to clean up.
OrphanSecretKept == FALSE

OrphanSecret == secret # None /\ run.rv = None

CleanupServiceMonitor ==
  /\ pc = "clean" /\ OrphanSM
  /\ ChangeMonitor(None)
  /\ wake' = TRUE
  /\ UNCHANGED <<caller, enabled, secret, cached, news, cert, certNews, pc, run, timer, ticker,
                 fails, used>>

CleanupSecret ==
  /\ pc = "clean" /\ OrphanSecret
  /\ Store(None)
  /\ UNCHANGED <<caller, enabled, cached, cert, certNews, sm, told, pc, run, wake, timer,
                 ticker, fails, used>>

CleanupOrphans ==
  /\ pc = "clean" /\ ~OrphanSM /\ ~OrphanSecret
  /\ pc' = "finish"
  /\ UNCHANGED <<world, run, wake, timer, ticker, fails, used>>

\* RequeueAfter of the reconcile; a disabled operand asks for none.
RequeueAfter ==
  CASE run.rv = None -> NoTimer
    [] run.rv # None /\ run.waitTLS -> TLSRequeue
    [] run.rv # None /\ ~run.waitTLS /\ run.settleWait > 0 -> run.settleWait
    [] OTHER -> ScrapeTokenRequeueAfter(run.left)

\* Mutant: the interval is added to the requested delay instead of bounding it.
ScheduleLate(delay) ==
  timer' = IF Operand THEN Smaller(timer, delay) ELSE Smaller(Interval + delay, NoTimer)

\* The work queue keeps the earliest time at which a request is to be added; the rotator
\* starts a new timer.
Schedule(delay) ==
  timer' = IF Operand THEN Smaller(timer, delay) ELSE Smaller(Interval, delay)

Finish ==
  /\ pc = "finish"
  /\ Schedule(RequeueAfter)
  /\ fails' = 0
  /\ pc' = "idle"
  /\ run' = NewRun
  /\ UNCHANGED <<world, wake, ticker, used>>

\* A call fails and the reconcile returns the error: the work queue adds the request again
\* after a backoff, the rotator logs the error and waits for its interval.
Fail ==
  /\ pc \in {"read", "publish", "tls", "retain", "apply", "resync", "clean"}
              \cup (IF Operand THEN {"finish"} ELSE {})
  /\ faults > 0 /\ faults' = faults - 1
  /\ \E backoff \in 1..MaxBackoff : Schedule(IF Operand THEN backoff ELSE Interval)
  /\ fails' = Smaller(fails + 1, 2)
  /\ pc' = "idle"
  /\ run' = NewRun
  /\ UNCHANGED <<world, wake, ticker, changes>>

Reconcile ==
  \/ Begin \/ ReadToken \/ EnsurePrometheusScrapeToken \/ EvaluateMetricsScrapeTLS
  \/ retainOperandServiceMonitorIfPresent \/ ProbeServiceMonitor \/ ApplyServiceMonitor
  \/ ResyncOperandServiceMonitor \/ CleanupServiceMonitor \/ CleanupSecret \/ CleanupOrphans
  \/ Finish

(***************************************************************************)
(* Its environment                                                         *)
(***************************************************************************)

\* The leader dies and another takes over, with a cache listed anew and everything queued.
Crash ==
  /\ faults > 0 /\ faults' = faults - 1
  /\ pc' = "idle" /\ run' = NewRun
  /\ cached' = secret /\ news' = <<>> /\ certNews' = FALSE
  /\ wake' = TRUE /\ timer' = NoTimer /\ ticker' = Interval
  /\ UNCHANGED <<caller, enabled, secret, cert, sm, told, fails, changes>>

Older(s) == IF s = None THEN None ELSE [s EXCEPT !.left = IF @ > 0 THEN @ - 1 ELSE 0]

\* Time passes while nothing is due. The broadcaster's event stays in a channel that is
\* already full, so that wake is all that is left of it.
Tick ==
  /\ pc = "idle" /\ ~wake /\ timer > 0
  /\ secret' = Older(secret)
  /\ cached' = Older(cached)
  /\ news' = [i \in 1..Len(news) |-> Older(news[i])]
  /\ sm' = IF ServiceMonitorResyncSettleRemaining(sm) > 0 THEN [sm EXCEPT !.settle = @ - 1] ELSE sm
  /\ timer' = IF timer = NoTimer THEN NoTimer ELSE timer - 1
  /\ ticker' = IF ~Operand \/ ticker = 1 THEN Interval ELSE ticker - 1
  /\ wake' = (Operand /\ ticker = 1)
  /\ UNCHANGED <<caller, enabled, cert, certNews, told, pc, run, fails, used>>

\* An event reaches the cache and, by its handler, the queue or the wake channel.
TokenEvent ==
  /\ news # <<>>
  /\ cached' = Head(news)
  /\ news' = Tail(news)
  /\ wake' = TRUE
  /\ UNCHANGED <<caller, enabled, secret, cert, certNews, sm, told, pc, run, timer, ticker,
                 fails, used>>

CertEvent ==
  /\ certNews
  /\ certNews' = FALSE
  /\ wake' = TRUE
  /\ UNCHANGED <<caller, enabled, secret, cached, news, cert, sm, told, pc, run, timer, ticker,
                 fails, used>>

\* cert-manager issues or renews the certificate, someone empties or deletes the Secret.
ChangeCert(state) ==
  /\ changes > 0 /\ changes' = changes - 1
  /\ state = "missing" => cert.state # "missing"
  /\ cert' = [state |-> state, rv |-> changes']
  /\ certNews' = TRUE
  /\ UNCHANGED <<caller, enabled, secret, cached, news, sm, told, pc, run, wake, timer, ticker,
                 fails, faults>>

\* A user deletes the Secret or its token.
MeddleSecret ==
  /\ changes > 0 /\ changes' = changes - 1
  /\ secret # None
  /\ Store(None) \/ Store([secret EXCEPT !.token = None, !.rv = Fresh])
  /\ UNCHANGED <<caller, enabled, cached, cert, certNews, sm, told, pc, run, wake, timer,
                 ticker, fails, faults>>

MeddleServiceMonitor ==
  /\ changes > 0 /\ changes' = changes - 1
  /\ sm # None
  /\ ChangeMonitor(None)
  /\ wake' = (wake \/ Operand)
  /\ UNCHANGED <<caller, enabled, secret, cached, news, cert, certNews, pc, run, timer, ticker,
                 fails, faults>>

Toggle ==
  /\ Operand
  /\ changes > 0 /\ changes' = changes - 1
  /\ enabled' = ~enabled
  /\ wake' = TRUE
  /\ UNCHANGED <<caller, secret, cached, news, cert, certNews, sm, told, pc, run, timer, ticker,
                 fails, faults>>

Init ==
  /\ \E s \in Setups : caller = s.caller /\ faults = s.faults /\ changes = s.changes
  /\ enabled \in (IF Operand THEN BOOLEAN ELSE {TRUE})
  /\ secret = None /\ cached = None /\ news = <<>>
  /\ cert \in [state : {"missing", "ok"}, rv : {changes}] /\ certNews = FALSE
  /\ sm = None /\ told = [token |-> None, ca |-> None]
  /\ pc = "idle" /\ run = NewRun
  /\ wake = TRUE /\ timer = NoTimer /\ ticker = Interval
  /\ fails = 0

Next ==
  \/ Reconcile \/ Fail \/ Crash \/ Tick \/ TokenEvent \/ CertEvent
  \/ \E state \in {"missing", "bad", "ok"} : ChangeCert(state)
  \/ MeddleSecret \/ MeddleServiceMonitor \/ Toggle

\* The process keeps running, time passes and informers deliver, now and then before the next
\* reconcile has read the cache: an informer that always loses that race makes the reconcile
\* publish, in turn, two tokens it has minted on a stale cache.
Fairness ==
  /\ WF_vars(Reconcile) /\ WF_vars(Tick) /\ WF_vars(CertEvent)
  /\ WF_vars(TokenEvent) /\ SF_vars(pc = "idle" /\ TokenEvent)

Spec == Init /\ [][Next]_vars /\ Fairness

(***************************************************************************)
(* Properties                                                              *)
(***************************************************************************)

\* Types of the variables, as EnsureScrapeTokenResult and the annotations have them.
TypeOK ==
  /\ caller \in {"operand", "rotator"}
  /\ enabled \in BOOLEAN /\ certNews \in BOOLEAN /\ wake \in BOOLEAN
  /\ secret \in Secret \cup {None} /\ cached \in Secret \cup {None}
  /\ news \in Seq(Secret \cup {None}) /\ Len(news) <= MaxLag
  /\ cert \in Cert
  /\ sm \in ServiceMonitor \cup {None}
  /\ told \in [token : Versions \cup {None}, ca : Nat \cup {None}]
  /\ pc \in {"idle", "read", "publish", "tls", "retain", "probe", "apply", "resync", "clean",
             "finish"}
  /\ run \in Run
  /\ faults \in Nat /\ changes \in Nat
  /\ timer \in 0..NoTimer /\ ticker \in 1..Interval /\ fails \in 0..2

\* The published token is valid: the refresh at half of its life and the interval between
\* two attempts leave room for one failed reconcile, whether the call, the certificate, the
\* cache or a new leader is the cause.
TokenAlive == secret # None /\ secret.token # None /\ enabled /\ fails < 2 => secret.left > 0

\* Nobody removes the marker of a settle-retry before its deadline ("early Secret-watch
\* reconciles must not clear the marker").
SettleHeld ==
  [][ServiceMonitorResyncSettleRemaining(sm) > 0 /\ sm' # None
       => ServiceMonitorResyncSettlePending(sm')]_vars

\* When all events are handled and the last reconcile succeeded, prometheus-operator has read
\* the stored token and CA, or a settle-retry is still to come: the deferred apply and the
\* resync annotations never leave it with a Secret it was not told about.
Nudged ==
  pc = "idle" /\ ~wake /\ timer > 0 /\ fails = 0 /\ news = <<>> /\ ~certNews
    /\ enabled /\ cert.state = "ok" /\ sm # None
    => \/ told = [token |-> secret.token, ca |-> cert.rv]
       \/ ServiceMonitorResyncSettlePending(sm)

\* A settle-retry that is due is made, unless the ServiceMonitor or the certificate goes: no
\* marker stays for ever.
SettleRetried ==
  []<>(~ServiceMonitorResyncSettlePending(sm) \/ cert.state # "ok" \/ ~enabled)

\* While metrics-server-cert is absent "retain is skipped so orphan cleanup removes the stale
\* SM" whose tlsConfig.ca refers to it.
StaleMonitorRemoved == <>[](cert.state = "missing") => <>[](sm = None)

\* The same promise where there is an orphan cleanup to keep it.
OperandRemovesStale == <>[](Operand /\ cert.state = "missing") => <>[](sm = None)

\* Once componentMetrics stays off, both the ServiceMonitor and the token are gone.
DisabledRemoves == <>[](~enabled) => <>[](sm = None /\ secret = None)

\* While componentMetrics stays on and the certificate good, the callers come to rest again and
\* again with the ServiceMonitor and a token in place and prometheus-operator told of the stored
\* token and CA, whatever was cleaned up, deleted, minted twice on a stale cache or failed
\* before.
ScrapeConverges ==
  <>[](enabled /\ cert.state = "ok") =>
    []<>(/\ pc = "idle" /\ sm # None /\ secret # None
         /\ told = [token |-> secret.token, ca |-> cert.rv] /\ told.token # None)
=============================================================================

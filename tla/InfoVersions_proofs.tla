------------------------ MODULE InfoVersions_proofs ------------------------
(***************************************************************************)
(* The versions in konflux-public-info, for any number of upgrades,        *)
(* deletions, failed calls and crashes, and histories of any length.       *)
(***************************************************************************)
EXTENDS InfoVersions, SequenceTheorems, WellFoundedInduction, TLAPS

USE DEF cluster, objects, local, poller, ghosts

Entry == [done : BOOLEAN, version : Nat]

\* A history goes down from its newest entry.
Ordered(h) ==
  /\ h \in Seq(Entry)
  /\ \A i, j \in 1..Len(h) : i < j => h[i].version > h[j].version
  /\ \A i \in 1..Len(h) : h[i].version < Len(h)

\* The versions whose update is done.
Done(h) == {h[i].version : i \in Completed(h)}

\* The cache lags behind, and what is shown has been done for the cache too;
\* what the reconcile has read is not older than what is shown.
InfoInv ==
  /\ Ordered(history) /\ Ordered(cHistory)
  /\ openShift => history # <<>>
  /\ Done(cHistory) \subseteq Done(history)
  /\ openShift /\ cm # None => cm.os \in Done(cHistory)
  /\ run \in [k8s : Nat \cup {None}, os : Nat \cup {None}]
  /\ openShift /\ rpc = "apply"
       => run.os \in Done(cHistory) /\ (cm # None => cm.os <= run.os)
  /\ version \in Nat

\* A set of natural numbers has a smallest one.
LEMMA Smallest ==
  ASSUME NEW T \in SUBSET Nat, T # {}
  PROVE  \E x \in T : \A y \in T : x <= y
<1> DEFINE R == OpToRel(<, Nat)
<1>1. IsWellFoundedOn(R, Nat)
  BY NatLessThanWellFounded
<1>2. \A x, y \in Nat : y < x => <<y, x>> \in R
  BY DEF OpToRel
<1> HIDE DEF R
<1>3. PICK x \in T : \A y \in T : ~(<<y, x>> \in R)
  BY <1>1, WFMin
<1>4. \A y \in T : x <= y
  <2> TAKE y \in T
  <2>1. x \in Nat /\ y \in Nat
    OBVIOUS
  <2>2. ~(y < x)
    BY <1>2, <1>3, <2>1, Zenon
  <2> QED
    BY <2>1, <2>2
<1> QED
  BY <1>4

\* The newest completed entry has the largest version that is done.
LEMMA NewestIsLargest ==
  ASSUME NEW h, Ordered(h), Completed(h) # {}
  PROVE  /\ GetOpenShiftVersion(h) \in Done(h) /\ GetOpenShiftVersion(h) \in Nat
         /\ \A v \in Done(h) : v <= GetOpenShiftVersion(h)
<1>1. h \in Seq(Entry) /\ Len(h) \in Nat /\ \A i \in 1..Len(h) : h[i] \in Entry
  BY ElementOfSeq, LenProperties DEF Ordered
<1>2. Completed(h) \subseteq 1..Len(h) /\ Completed(h) \in SUBSET Nat
  BY <1>1 DEF Completed
<1>3. \E i \in Completed(h) : \A j \in Completed(h) : i <= j
  BY <1>2, Smallest
<1>4. PICK i \in Completed(h) : /\ \A j \in Completed(h) : i <= j
                                /\ GetOpenShiftVersion(h) = h[i].version
  BY <1>3 DEF GetOpenShiftVersion
<1>5. h[i].version \in Nat
  BY <1>1, <1>2 DEF Entry
<1>6. ASSUME NEW v \in Done(h) PROVE v <= h[i].version
  <2>1. PICK j \in Completed(h) : v = h[j].version
    BY DEF Done
  <2>2. i <= j /\ i \in 1..Len(h) /\ j \in 1..Len(h) /\ v \in Nat
    BY <1>1, <1>2, <1>4, <2>1 DEF Entry
  <2>3. CASE i = j
    BY <1>5, <2>1, <2>3
  <2>4. CASE i < j
    BY <1>5, <2>1, <2>2, <2>4 DEF Ordered
  <2> QED
    BY <1>2, <2>2, <2>3, <2>4
<1> QED
  BY <1>4, <1>5, <1>6 DEF Done

\* An upgrade keeps the order and takes back nothing that is done.
LEMMA UpgradeFacts ==
  ASSUME InfoInv, UpgradeOpenShift
  PROVE  Ordered(history') /\ history' # <<>> /\ Done(history) \subseteq Done(history')
<1>1. /\ history \in Seq(Entry) /\ Len(history) \in Nat \ {0}
      /\ \A i \in 1..Len(history) : history[i] \in Entry
  <2>1. history \in Seq(Entry) /\ history # <<>>
    BY DEF InfoInv, Ordered, UpgradeOpenShift
  <2> QED
    BY <2>1, ElementOfSeq, EmptySeq
<1>2. CASE history' = <<[done |-> FALSE, version |-> Len(history)]>> \o history
  <2> DEFINE e == [done |-> FALSE, version |-> Len(history)]
             s == <<e>>
  <2>1. e \in Entry /\ e.version = Len(history)
    BY <1>1 DEF Entry
  <2>2. s \in Seq(Entry) /\ Len(s) = 1 /\ s[1] = e
    BY <2>1
  <2>3. history' = s \o history
    BY <1>2
  <2> HIDE DEF e, s
  <2>4. /\ history' \in Seq(Entry) /\ Len(history') = Len(history) + 1
        /\ \A i \in 1..Len(history') :
             history'[i] = IF i <= Len(s) THEN s[i] ELSE history[i - Len(s)]
    <3>1. /\ s \o history \in Seq(Entry) /\ Len(s \o history) = Len(s) + Len(history)
          /\ \A i \in 1..Len(s) + Len(history) :
               (s \o history)[i] = IF i <= Len(s) THEN s[i] ELSE history[i - Len(s)]
      BY <1>1, <2>2, ConcatProperties
    <3>2. Len(s) + Len(history) = Len(history) + 1
      BY <1>1, <2>2
    <3> QED
      BY <2>3, <3>1, <3>2
  <2>5. \A i \in 1..Len(history') : /\ i = 1 => history'[i] = e
                                    /\ i # 1 => i - 1 \in 1..Len(history) /\ history'[i] = history[i - 1]
    BY <1>1, <2>2, <2>4
  <2>6. \A i \in 1..Len(history) : history[i].version \in Nat /\ history[i].version < Len(history)
    BY <1>1 DEF Entry, InfoInv, Ordered
  <2>7. \A i, j \in 1..Len(history) : i < j => history[i].version > history[j].version
    BY DEF InfoInv, Ordered
  <2>8. ASSUME NEW i \in 1..Len(history'), NEW j \in 1..Len(history'), i < j
        PROVE  history'[i].version > history'[j].version
    <3>1. j # 1 /\ j - 1 \in 1..Len(history) /\ history'[j] = history[j - 1]
      BY <1>1, <2>4, <2>5, <2>8
    <3>2. CASE i = 1
      BY <1>1, <2>1, <2>5, <2>6, <3>1, <3>2
    <3>3. CASE i # 1
      <4>1. i - 1 \in 1..Len(history) /\ history'[i] = history[i - 1] /\ i - 1 < j - 1
        BY <1>1, <2>4, <2>5, <2>8, <3>3
      <4> QED
        BY <2>7, <3>1, <4>1
    <3> QED
      BY <3>2, <3>3
  <2>9. ASSUME NEW i \in 1..Len(history') PROVE history'[i].version < Len(history')
    <3>1. CASE i = 1
      BY <1>1, <2>1, <2>4, <2>5, <3>1
    <3>2. CASE i # 1
      <4>1. i - 1 \in 1..Len(history) /\ history'[i] = history[i - 1]
        BY <2>5, <3>2
      <4>2. history'[i].version \in Nat /\ history'[i].version < Len(history)
        BY <2>6, <4>1
      <4> QED
        BY <1>1, <2>4, <4>2
    <3> QED
      BY <3>1, <3>2
  <2>10. Done(history) \subseteq Done(history')
    <3> SUFFICES ASSUME NEW i \in 1..Len(history), history[i].done
                 PROVE  \E k \in 1..Len(history') : history'[k].done
                                                    /\ history'[k].version = history[i].version
      BY DEF Done, Completed
    <3>1. i + 1 \in 1..Len(history') /\ i + 1 # 1 /\ (i + 1) - 1 = i
      BY <1>1, <2>4
    <3>2. history'[i + 1] = history[i]
      BY <2>5, <3>1
    <3> QED
      BY <3>1, <3>2
  <2>11. history' # <<>>
    BY <1>1, <2>4, EmptySeq
  <2> QED
    BY <2>4, <2>8, <2>9, <2>10, <2>11 DEF Ordered
<1>3. CASE history' = [history EXCEPT ![1].done = TRUE]
  <2>1. /\ history' \in Seq(Entry) /\ Len(history') = Len(history)
        /\ \A i \in 1..Len(history) : /\ history'[i].version = history[i].version
                                      /\ history[i].done => history'[i].done
    <3> DEFINE e == [history[1] EXCEPT !.done = TRUE]
    <3>1. 1 \in 1..Len(history) /\ e \in Entry /\ e.version = history[1].version /\ e.done
      <4>1. 1 \in 1..Len(history) /\ history[1] \in Entry
        BY <1>1
      <4> QED
        BY <4>1 DEF Entry
    <3>2. history' = [history EXCEPT ![1] = e]
      BY <1>3
    <3> HIDE DEF e
    <3>3. history' \in Seq(Entry) /\ Len(history') = Len(history)
      BY <1>1, <3>1, <3>2, ExceptSeq
    <3>4. \A i \in 1..Len(history) : history'[i] = IF i = 1 THEN e ELSE history[i]
      BY <1>1, <3>1, <3>2, ExceptSeq
    <3> QED
      BY <3>1, <3>3, <3>4
  <2>2. Ordered(history')
    BY <2>1 DEF InfoInv, Ordered
  <2>3. Done(history) \subseteq Done(history')
    BY <2>1 DEF Done, Completed
  <2>4. history' # <<>>
    BY <1>1, <2>1, EmptySeq
  <2> QED
    BY <2>2, <2>3, <2>4
<1> QED
  BY <1>2, <1>3 DEF UpgradeOpenShift

\* The invariant holds initially.
LEMMA InfoInit == Init => InfoInv
<1> SUFFICES ASSUME Init PROVE InfoInv
  OBVIOUS
<1>1. cm = None /\ run = NewRun /\ rpc = "idle" /\ cHistory = history /\ version = 0
  BY DEF Init
<1>2. Ordered(history) /\ (openShift => history # <<>>)
  <2>1. CASE openShift
    <3>1. PICK d \in BOOLEAN : history = <<[done |-> d, version |-> 0]>>
      BY <2>1 DEF Init
    <3> DEFINE e == [done |-> d, version |-> 0]
    <3>2. e \in Entry /\ e.version = 0
      BY DEF Entry
    <3>3. history = <<e>>
      BY <3>1
    <3> HIDE DEF e
    <3>4. history \in Seq(Entry) /\ Len(history) = 1 /\ history[1] = e
      BY <3>2, <3>3
    <3>5. history # <<>>
      BY <3>3
    <3> QED
      BY <3>2, <3>4, <3>5 DEF Ordered
  <2>2. CASE ~openShift
    <3>1. history = <<>>
      BY <2>2 DEF Init
    <3>2. history \in Seq(Entry) /\ Len(history) = 0
      BY <3>1, EmptySeq
    <3> QED
      BY <2>2, <3>2 DEF Ordered
  <2> QED
    BY <2>1, <2>2
<1> QED
  BY <1>1, <1>2 DEF InfoInv, NewRun

\* Every step keeps the invariant.
LEMMA InfoStep == InfoInv /\ [Next]_vars => InfoInv'
<1> SUFFICES ASSUME InfoInv, [Next]_vars PROVE InfoInv'
  OBVIOUS
<1>0. UNCHANGED openShift /\ NewRun \in [k8s : Nat \cup {None}, os : Nat \cup {None}]
  BY DEF Next, Reconcile, vars, PollStart, Poll, Send, enqueueKonfluxInfoForVersionChange, Fail,
         HandleError, InfoEvent, ConfigMapEvent, ClusterVersionEvent, CreateInfo,
         DeleteConfigMap, UpgradeKubernetes, UpgradeOpenShift, Crash, Begin, ReadVersion,
         ReadOpenShift, ApplyInfoConfigMap, UpdateStatus, NoCompletedVersion, NewRun
<1>1. CASE UNCHANGED <<history, cHistory, cm, run, version>> /\ rpc' \in {rpc, "version", "idle"}
  BY <1>0, <1>1 DEF InfoInv
<1>2. CASE PollStart \/ Poll \/ Send \/ enqueueKonfluxInfoForVersionChange \/ InfoEvent
             \/ ConfigMapEvent \/ CreateInfo \/ Begin \/ UNCHANGED vars
  BY <1>1, <1>2
     DEF PollStart, Poll, Send, enqueueKonfluxInfoForVersionChange, InfoEvent, ConfigMapEvent,
         CreateInfo, Begin, vars
<1>3. CASE UNCHANGED <<history, cHistory, cm, version>> /\ run' = NewRun /\ rpc' = "idle"
  BY <1>0, <1>3 DEF InfoInv
<1>4. CASE UpdateStatus \/ NoCompletedVersion \/ Fail
  BY <1>3, <1>4 DEF UpdateStatus, NoCompletedVersion, Fail, HandleError, Return
<1>5. CASE ReadVersion
  <2>1. UNCHANGED <<history, cHistory, cm, version>> /\ (openShift => rpc' = "openshift")
    BY <1>5 DEF ReadVersion
  <2>2. run' \in [k8s : Nat \cup {None}, os : Nat \cup {None}]
    BY <1>5 DEF ReadVersion, InfoInv
  <2> QED
    BY <1>0, <2>1, <2>2 DEF InfoInv
<1>6. CASE ReadOpenShift
  <2>1. UNCHANGED <<history, cHistory, cm, version>> /\ Completed(cHistory) # {}
    BY <1>6 DEF ReadOpenShift
  <2>2. PICK v \in Nat : /\ v = GetOpenShiftVersion(cHistory) /\ v \in Done(cHistory)
                         /\ \A w \in Done(cHistory) : w <= v
    BY <2>1, NewestIsLargest DEF InfoInv
  <2>3. run' = [run EXCEPT !.os = v]
    BY <1>6, <2>2 DEF ReadOpenShift
  <2>4. run' \in [k8s : Nat \cup {None}, os : Nat \cup {None}] /\ run'.os = v
    BY <2>3 DEF InfoInv
  <2> QED
    BY <1>0, <2>1, <2>2, <2>4 DEF InfoInv
<1>7. CASE ApplyInfoConfigMap
  <2>1. /\ UNCHANGED <<history, cHistory, run, version>> /\ cm' = run /\ rpc = "apply"
        /\ rpc' = "status"
    BY <1>7 DEF ApplyInfoConfigMap
  <2> QED
    BY <1>0, <2>1 DEF InfoInv
<1>8. CASE ClusterVersionEvent
  <2>1. cHistory' = history /\ UNCHANGED <<history, cm, run, rpc, version>>
    BY <1>8 DEF ClusterVersionEvent
  <2> QED
    BY <1>0, <2>1 DEF InfoInv
<1>9. CASE DeleteConfigMap
  <2>1. cm' = None /\ UNCHANGED <<history, cHistory, run, rpc, version>>
    BY <1>9 DEF DeleteConfigMap
  <2> QED
    BY <1>0, <2>1 DEF InfoInv
<1>10. CASE UpgradeKubernetes
  <2>1. version' = version + 1 /\ UNCHANGED <<history, cHistory, cm, run, rpc>>
    BY <1>10 DEF UpgradeKubernetes
  <2> QED
    BY <1>0, <2>1 DEF InfoInv
<1>11. CASE UpgradeOpenShift
  <2>1. UNCHANGED <<cHistory, cm, run, rpc, version>>
    BY <1>11 DEF UpgradeOpenShift
  <2> QED
    BY <1>0, <1>11, <2>1, UpgradeFacts DEF InfoInv
<1>12. CASE Crash
  <2>1. cHistory' = history /\ run' = NewRun /\ rpc' = "idle" /\ UNCHANGED <<history, cm, version>>
    BY <1>12 DEF Crash, Return
  <2> QED
    BY <1>0, <2>1 DEF InfoInv
<1> QED
  BY <1>2, <1>4, <1>5, <1>6, <1>7, <1>8, <1>9, <1>10, <1>11, <1>12 DEF Next, Reconcile

\* A step that changes info.json shows a completed version, and no older one.
LEMMA AheadStep ==
  InfoInv /\ [Next]_vars =>
    (openShift /\ cm' # None /\ cm' # cm
       => /\ \E i \in Completed(history) : history[i].version = cm'.os
          /\ cm # None => cm'.os >= cm.os)
<1> SUFFICES ASSUME InfoInv, [Next]_vars, openShift, cm' # None, cm' # cm
             PROVE  /\ \E i \in Completed(history) : history[i].version = cm'.os
                    /\ cm # None => cm'.os >= cm.os
  OBVIOUS
<1>1. ApplyInfoConfigMap
  BY DEF Next, Reconcile, vars, PollStart, Poll, Send, enqueueKonfluxInfoForVersionChange, Fail,
         HandleError, InfoEvent, ConfigMapEvent, ClusterVersionEvent, CreateInfo,
         DeleteConfigMap, UpgradeKubernetes, UpgradeOpenShift, Crash, Begin, ReadVersion,
         ReadOpenShift, UpdateStatus, NoCompletedVersion
<1>2. cm' = run /\ run.os \in Done(cHistory) /\ (cm # None => cm.os <= run.os)
  BY <1>1 DEF ApplyInfoConfigMap, InfoInv
<1>3. run.os \in Done(history)
  BY <1>2 DEF InfoInv
<1>4. cm # None => cm.os \in Done(cHistory)
  BY DEF InfoInv
<1>5. Done(cHistory) \subseteq Nat
  <2>1. \A i \in 1..Len(cHistory) : cHistory[i] \in Entry
    BY ElementOfSeq DEF InfoInv, Ordered
  <2> QED
    BY <2>1 DEF Done, Completed, Entry
<1> QED
  BY <1>2, <1>3, <1>4, <1>5 DEF Done

\* An OpenShift version is shown only once its update is completed and is
\* never followed by an older one, although the controller reads the history
\* from a cache that lags behind and a new leader starts with another one.
THEOREM NotAhead == Spec => NeverAhead
BY InfoInit, InfoStep, AheadStep, PTL DEF Spec, NeverAhead
=============================================================================

--------------------------- MODULE Operands_proofs ---------------------------
(***************************************************************************)
(* What a pass of an operand controller leaves behind, for every operand,  *)
(* any specs, URLs and number of edits, deletions and failures.            *)
(***************************************************************************)
EXTENDS Operands, SequenceTheorems, WellFoundedInduction, TLAPS

USE DEF inputs

-----------------------------------------------------------------------------
(* Lists *)

\* A set of natural numbers that has a member has a first one: either 0, or
\* one whose predecessor is not in the set.
LEMMA FirstOf ==
  ASSUME NEW T \in SUBSET Nat, T # {}
  PROVE  \E n \in T : n = 0 \/ n - 1 \in Nat \ T
<1> DEFINE R == OpToRel(<, Nat)
<1>1. IsWellFoundedOn(R, Nat)
  BY NatLessThanWellFounded
<1>2. \A x, y \in Nat : y < x => <<y, x>> \in R
  BY DEF OpToRel
<1> HIDE DEF R
<1>3. PICK n \in T : \A y \in T : ~(<<y, n>> \in R)
  BY <1>1, WFMin
<1>4. CASE n # 0
  <2>1. n - 1 \in Nat /\ n - 1 < n
    BY <1>4
  <2>2. n - 1 \notin T
    BY <1>2, <1>3, <2>1
  <2> QED
    BY <2>1, <2>2
<1> QED
  BY <1>4

\* The loop of FlattenSeq.
LEMMA FlattenLoop ==
  ASSUME NEW seqs, NEW N \in Nat
  PROVE  \E f : f = [i \in 1..N |-> IF i = 1 THEN seqs[i] ELSE f[i - 1] \o seqs[i]]
<1> DEFINE Is(f, m) == f = [i \in 1..m |-> IF i = 1 THEN seqs[i] ELSE f[i - 1] \o seqs[i]]
<1> DEFINE T == {m \in Nat : ~\E f : Is(f, m)}
<1>1. CASE T # {}
  <2>1. PICK m \in T : m = 0 \/ m - 1 \in Nat \ T
    <3> HIDE DEF T
    <3>1. T \in SUBSET Nat
      BY DEF T
    <3> QED
      BY <1>1, <3>1, FirstOf
  <2>2. CASE m = 0
    <3>1. Is([i \in 1..0 |-> i], 0)
      OBVIOUS
    <3> QED
      BY <2>2, <3>1
  <2>3. CASE m # 0
    <3>1. m \in Nat /\ m - 1 \in Nat
      BY <2>1, <2>3
    <3>2. PICK f : Is(f, m - 1)
      BY <2>1, <2>3
    <3> DEFINE g == [i \in 1..m |-> IF i = m THEN IF m = 1 THEN seqs[m] ELSE f[m - 1] \o seqs[m]
                                             ELSE f[i]]
    <3>3. ASSUME NEW i \in 1..m
          PROVE  g[i] = IF i = 1 THEN seqs[i] ELSE g[i - 1] \o seqs[i]
      <4>1. CASE i = m
        BY <2>3, <3>1, <4>1
      <4>2. CASE i # m
        <5>1. i \in 1..(m - 1) /\ g[i] = f[i] /\ (i # 1 => g[i - 1] = f[i - 1])
          BY <3>1, <4>2
        <5> QED
          BY <3>2, <5>1
      <4> QED
        BY <4>1, <4>2
    <3>4. Is(g, m)
      BY <3>3
    <3> QED
      BY <3>4
  <2> QED
    BY <2>2, <2>3
<1>2. CASE T = {}
  BY <1>2
<1> QED
  BY <1>1, <1>2

\* No name is twice in a list.
DistinctNames(s) == \A i, j \in 1..Len(s) : s[i].name = s[j].name => i = j

\* An element whose name is new may be appended.
LEMMA AppendFacts ==
  ASSUME NEW S, NEW s \in Seq(S), NEW x \in S
  PROVE  /\ s \o <<x>> \in Seq(S) /\ ToSet(s \o <<x>>) = ToSet(s) \cup {x}
         /\ DistinctNames(s) /\ (\A y \in ToSet(s) : y.name # x.name) => DistinctNames(s \o <<x>>)
<1> DEFINE t == s \o <<x>>
<1>1. <<x>> \in Seq(S) /\ Len(<<x>>) = 1 /\ <<x>>[1] = x
  OBVIOUS
<1>2. Len(s) \in Nat /\ DOMAIN s = 1..Len(s)
  BY LenProperties
<1>3. /\ t \in Seq(S) /\ Len(t) = Len(s) + 1
      /\ \A i \in 1..(Len(s) + 1) : t[i] = IF i <= Len(s) THEN s[i] ELSE x
  <2>1. /\ t \in Seq(S) /\ Len(t) = Len(s) + 1
        /\ \A i \in 1..(Len(s) + 1) : t[i] = IF i <= Len(s) THEN s[i] ELSE <<x>>[i - Len(s)]
    BY <1>1, ConcatProperties
  <2>2. \A i \in 1..(Len(s) + 1) : i <= Len(s) \/ i - Len(s) = 1
    BY <1>2
  <2> QED
    BY <1>1, <2>1, <2>2
<1>4. DOMAIN t = 1..(Len(s) + 1)
  BY <1>3, LenProperties
<1> HIDE DEF t
<1>5. /\ \A i \in 1..Len(s) : i \in DOMAIN t /\ t[i] = s[i]
      /\ Len(s) + 1 \in DOMAIN t /\ t[Len(s) + 1] = x
      /\ \A i \in DOMAIN t : i \in 1..Len(s) \/ i = Len(s) + 1
  BY <1>2, <1>3, <1>4
<1>6. ToSet(t) = ToSet(s) \cup {x}
  BY <1>2, <1>5 DEF ToSet
<1>7. ASSUME DistinctNames(s), \A y \in ToSet(s) : y.name # x.name PROVE DistinctNames(t)
  <2> SUFFICES ASSUME NEW i \in DOMAIN t, NEW j \in DOMAIN t, t[i].name = t[j].name PROVE i = j
    BY <1>3, <1>4 DEF DistinctNames
  <2>1. \A k \in 1..Len(s) : s[k].name # x.name
    BY <1>2, <1>7 DEF ToSet
  <2> QED
    BY <1>5, <1>7, <2>1 DEF DistinctNames
<1> QED
  BY <1>3, <1>6, <1>7 DEF t

\* What Filter keeps is in the list and in the set, and no name is kept twice
\* that is in the list once.
LEMMA FilterFacts ==
  ASSUME NEW S, NEW list \in Seq(S), NEW keep
  PROVE  /\ Filter(list, keep) \in Seq(S) /\ ToSet(Filter(list, keep)) \subseteq keep
         /\ DistinctNames(list) => DistinctNames(Filter(list, keep))
<1> DEFINE N == Len(list)
           parts == [n \in DOMAIN list |-> IF list[n] \in keep THEN <<list[n]>> ELSE <<>>]
<1>1. N \in Nat /\ DOMAIN list = 1..N /\ \A n \in 1..N : list[n] \in S
  BY LenProperties, ElementOfSeq
<1>2. parts \in Seq(Seq(S)) /\ Len(parts) = N
  <2>1. \A n \in 1..N : (IF list[n] \in keep THEN <<list[n]>> ELSE <<>>) \in Seq(S)
    BY <1>1
  <2> QED
    BY <1>1, <2>1
<1>3. \A n \in 1..N : parts[n] = IF list[n] \in keep THEN <<list[n]>> ELSE <<>>
  BY <1>1
<1>4. Filter(list, keep) = FlattenSeq(parts)
  BY DEF Filter
<1> HIDE DEF parts
<1>5. <<>> \in Seq(S) /\ ToSet(<<>>) = {} /\ DistinctNames(<<>>)
  BY DEF ToSet, DistinctNames
<1>6. CASE N = 0
  <2>1. FlattenSeq(parts) = parts /\ parts = <<>>
    BY <1>2, <1>6, EmptySeq DEF FlattenSeq
  <2> QED
    BY <1>4, <1>5, <2>1
<1>7. CASE N # 0
  <2> DEFINE f == CHOOSE f : f = [i \in 1..Len(parts) |-> IF i = 1 THEN parts[i] ELSE f[i - 1] \o parts[i]]
  <2>1. f = [i \in 1..Len(parts) |-> IF i = 1 THEN parts[i] ELSE f[i - 1] \o parts[i]]
    <3>1. Len(parts) \in Nat
      BY <1>1, <1>2
    <3> QED
      BY <3>1, FlattenLoop
  <2>2. FlattenSeq(parts) = f[N]
    BY <1>2, <1>7 DEF FlattenSeq
  <2> HIDE DEF f
  <2> DEFINE Kept(s, n) == /\ s \in Seq(S) /\ ToSet(s) \subseteq keep
                           /\ \A y \in ToSet(s) : \E i \in 1..n : y = list[i]
                           /\ DistinctNames(list) => DistinctNames(s)
             T == {n \in Nat : n \in 1..N /\ ~Kept(f[n], n)}
  <2>3. CASE T # {}
    <3>1. PICK m \in T : m = 0 \/ m - 1 \in Nat \ T
      <4>1. T \in SUBSET Nat
        OBVIOUS
      <4> HIDE DEF T
      <4> QED
        BY <2>3, <4>1, FirstOf
    <3>2. m \in 1..N /\ m \in Nat /\ ~Kept(f[m], m)
      BY <3>1
    <3> DEFINE s == IF m = 1 THEN <<>> ELSE f[m - 1]
               x == list[m]
    <3>3. Kept(s, m - 1)
      <4>1. CASE m = 1
        BY <1>5, <4>1
      <4>2. CASE m # 1
        <5>1. m - 1 \in 1..N /\ m - 1 \in Nat
          BY <1>1, <3>2, <4>2
        <5> HIDE DEF Kept
        <5> QED
          BY <3>1, <3>2, <4>2, <5>1
      <4> QED
        BY <4>1, <4>2
    <3>4. f[m] = IF m = 1 THEN parts[m] ELSE s \o parts[m]
      BY <1>1, <1>2, <2>1, <3>2
    <3>5. parts[m] \in Seq(S) /\ (m = 1 => s = <<>>)
      BY <1>2, <3>2, ElementOfSeq
    <3> HIDE DEF s
    <3>6. f[m] = s \o parts[m]
      BY <3>4, <3>5, ConcatEmptySeq
    <3>7. x \in S /\ \A i \in 1..(m - 1) : i \in 1..m /\ i \in 1..N /\ i # m
      BY <1>1, <3>2
    <3>8. CASE x \notin keep
      <4>1. f[m] = s
        <5>1. parts[m] = <<>>
          BY <1>3, <3>2, <3>8
        <5> QED
          BY <3>3, <3>6, <5>1, ConcatEmptySeq
      <4>2. Kept(s, m)
        BY <3>3, <3>7
      <4> QED
        BY <3>2, <4>1, <4>2
    <3>9. CASE x \in keep
      <4>1. f[m] = s \o <<x>>
        <5>1. parts[m] = <<x>>
          BY <1>3, <3>2, <3>9
        <5> QED
          BY <3>6, <5>1
      <4>2. /\ s \o <<x>> \in Seq(S) /\ ToSet(s \o <<x>>) = ToSet(s) \cup {x}
            /\ DistinctNames(s) /\ (\A y \in ToSet(s) : y.name # x.name) => DistinctNames(s \o <<x>>)
        BY <3>3, <3>7, AppendFacts
      <4>3. ASSUME DistinctNames(list) PROVE \A y \in ToSet(s) : y.name # x.name
        BY <3>2, <3>3, <3>7, <4>3 DEF DistinctNames
      <4>4. \A y \in ToSet(s \o <<x>>) : \E i \in 1..m : y = list[i]
        <5>1. m \in 1..m
          BY <3>2
        <5> QED
          BY <3>3, <3>7, <4>2, <5>1
      <4>5. Kept(s \o <<x>>, m)
        BY <3>3, <3>9, <4>2, <4>3, <4>4
      <4> QED
        BY <3>2, <4>1, <4>5
    <3> QED
      BY <3>8, <3>9
  <2>4. CASE T = {}
    <3>1. N \in 1..N
      BY <1>1, <1>7
    <3> HIDE DEF Kept
    <3>2. Kept(f[N], N)
      BY <1>1, <2>4, <3>1
    <3> QED
      BY <1>4, <2>2, <3>2 DEF Kept
  <2> QED
    BY <2>3, <2>4
<1> QED
  BY <1>6, <1>7

\* The least of some natural numbers is one of them, and no larger than any.
LEMMA LeastOf ==
  ASSUME NEW T \in SUBSET Nat, T # {}
  PROVE  Min(T) \in T /\ \A m \in T : Min(T) <= m
<1> DEFINE R == OpToRel(<, Nat)
<1>1. IsWellFoundedOn(R, Nat)
  BY NatLessThanWellFounded
<1>2. \A x, y \in Nat : y < x => <<y, x>> \in R
  BY DEF OpToRel
<1> HIDE DEF R
<1>3. PICK n \in T : \A y \in T : ~(<<y, n>> \in R)
  BY <1>1, WFMin
<1>4. ASSUME NEW y \in T PROVE n <= y
  <2>1. ~(y < n)
    BY <1>2, <1>3
  <2> QED
    BY <2>1
<1> QED
  BY <1>3, <1>4 DEF Min

-----------------------------------------------------------------------------
(* Build pipelines *)

\* The provers do not know that a literal is in STRING.
Text == STRING \cup {"fbc", "docker", "b0", "", "minimal"}
Entry == [name : Text, bundle : Text, description : Text]

\* An entry that replaces the one of its name, or joins the list when there is
\* none, leaves the names distinct.
LEMMA UpsertFacts ==
  ASSUME NEW S, NEW list \in Seq(S), NEW x \in S, DistinctNames(list)
  PROVE  Upsert(list, x, Name) \in Seq(S) /\ DistinctNames(Upsert(list, x, Name))
<1> DEFINE I == {i \in 1..Len(list) : list[i].name = x.name}
           k == IF I # {} THEN Min(I) ELSE 0
<1>1. Upsert(list, x, Name) = IF k = 0 THEN Append(list, x) ELSE [list EXCEPT ![k] = x]
  BY DEF Upsert, SelectInSeq, Name
<1>2. Len(list) \in Nat /\ DOMAIN list = 1..Len(list) /\ \A i \in 1..Len(list) : list[i] \in S
  BY LenProperties, ElementOfSeq
<1>3. CASE I = {}
  <2>1. Append(list, x) = list \o <<x>>
    BY AppendIsConcat
  <2>2. \A y \in ToSet(list) : y.name # x.name
    BY <1>2, <1>3 DEF ToSet
  <2> QED
    BY <1>1, <1>3, <2>1, <2>2, AppendFacts
<1>4. CASE I # {}
  <2>1. I \in SUBSET Nat
    BY <1>2
  <2>2. k \in I
    <3> HIDE DEF I
    <3> QED
      BY <1>4, <2>1, LeastOf
  <2>3. k \in 1..Len(list) /\ list[k].name = x.name /\ k # 0
    BY <1>2, <2>2
  <2> HIDE DEF k
  <2> DEFINE t == [list EXCEPT ![k] = x]
  <2>4. t \in Seq(S) /\ Len(t) = Len(list)
    BY <2>3, ExceptSeq
  <2>5. \A i \in 1..Len(list) : t[i].name = list[i].name
    BY <1>2, <2>3
  <2> HIDE DEF t
  <2>6. DistinctNames(t)
    BY <2>4, <2>5 DEF DistinctNames
  <2> QED
    BY <1>1, <2>3, <2>4, <2>6 DEF t
<1> QED
  BY <1>3, <1>4

\* So does an entry of a CR, whether it overrides, adds or removes.
LEMMA MergeFacts ==
  ASSUME NEW list \in Seq(Entry), NEW p \in Entry, DistinctNames(list)
  PROVE  MergePipeline(list, p) \in Seq(Entry) /\ DistinctNames(MergePipeline(list, p))
<1>1. CASE p.bundle = "removed"
  <2> DEFINE keep == {x \in ToSet(list) : x.name # p.name}
  <2>1. MergePipeline(list, p) = Filter(list, keep)
    BY <1>1 DEF MergePipeline, DropName, Value
  <2> HIDE DEF keep
  <2> QED
    BY <2>1, FilterFacts
<1>2. CASE p.bundle # "removed"
  <2> DEFINE I == {i \in 1..Len(list) : list[i].name = p.name}
             k == IF I # {} THEN Min(I) ELSE 0
             q == Overriding(list, p)
  <2>1. q = IF k # 0 /\ p.description = "" THEN [p EXCEPT !.description = list[k].description] ELSE p
    BY DEF Overriding, SelectInSeq
  <2>2. Len(list) \in Nat /\ \A i \in 1..Len(list) : list[i] \in Entry
    BY LenProperties, ElementOfSeq
  <2>3. k # 0 => k \in 1..Len(list)
    <3>1. I \in SUBSET Nat /\ I \subseteq 1..Len(list)
      BY <2>2
    <3> HIDE DEF I
    <3> QED
      BY <3>1, LeastOf
  <2> HIDE DEF k
  <2>4. q \in Entry
    BY <2>1, <2>2, <2>3 DEF Entry
  <2>5. MergePipeline(list, p) = Upsert(list, q, Name)
    BY <1>2 DEF MergePipeline
  <2> HIDE DEF q
  <2> QED
    BY <2>4, <2>5, UpsertFacts
<1> QED
  BY <1>1, <1>2

\* The loop over the entries of a CR has its intermediate results.
AreSteps(a, first, list, N) ==
  a = [i \in 0..N |-> IF i = 0 THEN {first} ELSE {MergePipeline(r, list[i]) : r \in a[i - 1]}]

\* There is such a sequence of results.
LEMMA MergeLoop ==
  ASSUME NEW first, NEW list, NEW N \in Nat
  PROVE  \E a : AreSteps(a, first, list, N)
<1> USE DEF AreSteps
<1> DEFINE Is(a, m) == a = [i \in 0..m |-> IF i = 0 THEN {first}
                                           ELSE {MergePipeline(r, list[i]) : r \in a[i - 1]}]
<1> DEFINE T == {m \in Nat : ~\E a : Is(a, m)}
<1>1. CASE T # {}
  <2>1. PICK m \in T : m = 0 \/ m - 1 \in Nat \ T
    <3> HIDE DEF T
    <3>1. T \in SUBSET Nat
      BY DEF T
    <3> QED
      BY <1>1, <3>1, FirstOf
  <2>2. CASE m = 0
    <3>1. Is([i \in 0..0 |-> {first}], 0)
      OBVIOUS
    <3> QED
      BY <2>2, <3>1
  <2>3. CASE m # 0
    <3>1. m \in Nat /\ m - 1 \in Nat
      BY <2>1, <2>3
    <3>2. PICK a : Is(a, m - 1)
      BY <2>1, <2>3
    <3> DEFINE g == [i \in 0..m |-> IF i = m THEN {MergePipeline(r, list[m]) : r \in a[m - 1]}
                                             ELSE a[i]]
    <3>3. ASSUME NEW i \in 0..m
          PROVE  g[i] = IF i = 0 THEN {first} ELSE {MergePipeline(r, list[i]) : r \in g[i - 1]}
      <4>1. CASE i = m
        <5>1. g[i] = {MergePipeline(r, list[m]) : r \in a[m - 1]} /\ g[m - 1] = a[m - 1]
          BY <3>1, <4>1
        <5> QED
          BY <2>3, <4>1, <5>1
      <4>2. CASE i # m
        <5>1. i \in 0..(m - 1) /\ g[i] = a[i] /\ (i # 0 => g[i - 1] = a[i - 1])
          BY <3>1, <4>2
        <5>2. a[i] = IF i = 0 THEN {first} ELSE {MergePipeline(r, list[i]) : r \in a[i - 1]}
          BY <3>2, <5>1
        <5> QED
          BY <5>1, <5>2
      <4> QED
        BY <4>1, <4>2
    <3>4. Is(g, m)
      BY <3>3
    <3> QED
      BY <3>4
  <2> QED
    BY <2>2, <2>3
<1>2. CASE T = {}
  BY <1>2
<1> QED
  BY <1>1, <1>2

\* The merged pipelines have distinct names if the defaults have.
LEMMA MergedFacts ==
  ASSUME NEW defaults \in Seq(Entry), NEW s \in PipelineConfig, DistinctNames(defaults)
  PROVE  mergePipelines(defaults, s) \in Seq(Entry) /\ DistinctNames(mergePipelines(defaults, s))
<1> DEFINE list == s.pipelines
           N == Len(list)
           first == IF s.removeDefaults THEN <<>> ELSE defaults
           a == CHOOSE a : a = [i \in 0..Len(list) |->
                       IF i = 0 THEN {first} ELSE {MergePipeline(r, list[i]) : r \in a[i - 1]}]
<1>1. list \in Seq(Entry) /\ N \in Nat /\ \A i \in 1..N : list[i] \in Entry
  <2>1. list \in Seq(Entry)
    <3>1. [name : STRING, bundle : STRING, description : STRING] \subseteq Entry
      BY DEF Entry, Text
    <3>2. list \in Seq([name : STRING, bundle : STRING, description : STRING])
      BY DEF PipelineConfig
    <3> HIDE DEF list
    <3> QED
      BY <3>1, <3>2, SeqMonotonic
  <2> HIDE DEF list
  <2> QED
    BY <2>1, LenProperties, ElementOfSeq
<1>2. first \in Seq(Entry) /\ DistinctNames(first)
  BY DEF DistinctNames
<1>3. mergePipelines(defaults, s) = Value(a[N])
  BY DEF mergePipelines, Loop
<1> HIDE DEF first, list
<1>4. a = [i \in 0..Len(list) |->
             IF i = 0 THEN {first} ELSE {MergePipeline(r, list[i]) : r \in a[i - 1]}]
  <2>1. Len(list) \in Nat
    BY <1>1
  <2>2. \E b : AreSteps(b, first, list, Len(list))
    BY <2>1, MergeLoop
  <2> QED
    BY <2>2, Zenon DEF AreSteps
<1> HIDE DEF a
<1> DEFINE Merged(n) == \E v : a[n] = {v} /\ v \in Seq(Entry) /\ DistinctNames(v)
           T == {n \in Nat : n <= N /\ ~Merged(n)}
<1>5. CASE T # {}
  <2>1. PICK m \in T : m = 0 \/ m - 1 \in Nat \ T
    <3>1. T \in SUBSET Nat
      OBVIOUS
    <3> HIDE DEF T
    <3> QED
      BY <1>5, <3>1, FirstOf
  <2>2. m \in Nat /\ m <= N /\ ~Merged(m)
    BY <2>1
  <2>3. CASE m = 0
    <3>1. a[0] = {first}
      BY <1>1, <1>4
    <3> QED
      BY <1>2, <2>2, <2>3, <3>1
  <2>4. CASE m # 0
    <3>1. m - 1 \in Nat /\ m - 1 <= N /\ m \in 1..N /\ m \in 0..Len(list)
      BY <1>1, <2>2, <2>4
    <3>2. PICK v : a[m - 1] = {v} /\ v \in Seq(Entry) /\ DistinctNames(v)
      <4> HIDE DEF Merged
      <4>1. Merged(m - 1)
        BY <2>1, <2>4, <3>1
      <4> QED
        BY <4>1 DEF Merged
    <3>3. a[m] = {MergePipeline(r, list[m]) : r \in a[m - 1]}
      BY <1>4, <2>4, <3>1
    <3>4. a[m] = {MergePipeline(v, list[m])}
      BY <3>2, <3>3
    <3>5. MergePipeline(v, list[m]) \in Seq(Entry) /\ DistinctNames(MergePipeline(v, list[m]))
      BY <1>1, <3>1, <3>2, MergeFacts
    <3> QED
      BY <2>2, <3>4, <3>5
  <2> QED
    BY <2>3, <2>4
<1>6. CASE T = {}
  <2>1. Merged(N)
    <3> HIDE DEF Merged
    <3>1. N <= N
      BY <1>1
    <3> QED
      BY <1>1, <1>6, <3>1
  <2> QED
    BY <1>3, <2>1 DEF Value
<1> QED
  BY <1>5, <1>6

\* A default pipeline that is one of the list, whose names are distinct.
Listed(config) ==
  LET names == [i \in DOMAIN config.pipelines |-> config.pipelines[i].name]
  IN  /\ config.pipelines # <<>> => config.default \in ToSet(names)
      /\ IsInjective(names)

\* What build-service is told is such a configuration, whatever the CR says.
LEMMA ConfigListed ==
  ASSUME NEW s \in PipelineConfig
  PROVE  Listed(applyPipelineConfigMerge(ManifestPipelines, s))
<1> DEFINE defaults == ManifestPipelines.pipelines
<1>1. defaults \in Seq(Entry) /\ Len(defaults) = 2
      /\ defaults[1].name = "fbc" /\ defaults[2].name = "docker"
      /\ ManifestPipelines.default = "docker"
  <2> DEFINE p == Pipeline("fbc", "b0", "")
             q == Pipeline("docker", "b0", "minimal")
  <2>1. p \in Entry /\ q \in Entry /\ p.name = "fbc" /\ q.name = "docker"
    BY DEF Pipeline, Entry, Text
  <2>2. ManifestPipelines = [default |-> "docker", pipelines |-> <<p, q>>]
    BY DEF ManifestPipelines
  <2> HIDE DEF p, q
  <2>3. defaults = <<p, q>> /\ ManifestPipelines.default = "docker"
    BY <2>2
  <2>4. <<p, q>> \in Seq(Entry) /\ Len(<<p, q>>) = 2 /\ <<p, q>>[1] = p /\ <<p, q>>[2] = q
    BY <2>1
  <2> QED
    BY <2>1, <2>3, <2>4
<1> HIDE DEF defaults
<1>2. DistinctNames(defaults)
  BY <1>1 DEF DistinctNames
<1>3. ASSUME NEW list \in Seq(Entry), NEW name, NEW config, DistinctNames(list), name # "",
             config.pipelines = list, config.default = ensureDefaultPipeline(name, list)
      PROVE  Listed(config)
  <2> DEFINE names == [i \in DOMAIN list |-> list[i].name]
  <2>1. Len(list) \in Nat /\ DOMAIN list = 1..Len(list)
    BY LenProperties
  <2>2. IsInjective(names)
    <3>1. \A i, j \in DOMAIN list : list[i].name = list[j].name => i = j
      BY <1>3, <2>1 DEF DistinctNames
    <3>2. DOMAIN names = DOMAIN list /\ \A i \in DOMAIN list : names[i] = list[i].name
      OBVIOUS
    <3> HIDE DEF names
    <3> QED
      BY <3>1, <3>2 DEF IsInjective
  <2>3. ASSUME list # <<>> PROVE config.default \in ToSet(names)
    <3>1. 1 \in DOMAIN list
      <4>1. Len(list) # 0
        BY <2>3, EmptySeq
      <4> QED
        BY <2>1, <4>1
    <3>2. \E i \in DOMAIN list : config.default = list[i].name
      BY <1>3, <2>3, <3>1 DEF ensureDefaultPipeline
    <3> QED
      BY <3>2 DEF ToSet
  <2> QED
    BY <1>3, <2>2, <2>3 DEF Listed
<1>4. CASE s = NoPipelineConfig
  <2>1. applyPipelineConfigMerge(ManifestPipelines, s) = ManifestPipelines
    BY <1>4 DEF applyPipelineConfigMerge
  <2>2. ensureDefaultPipeline("docker", defaults) = "docker"
    BY <1>1 DEF ensureDefaultPipeline
  <2> DEFINE config == ManifestPipelines
  <2>3. config.pipelines = defaults /\ config.default = "docker"
    BY <1>1 DEF defaults
  <2> HIDE DEF config
  <2>4. "docker" # ""
    OBVIOUS
  <2>5. Listed(config)
    BY <1>1, <1>2, <1>3, <2>2, <2>3, <2>4
  <2> QED
    BY <2>1, <2>5 DEF config
<1>5. CASE s # NoPipelineConfig
  <2> DEFINE list == mergePipelines(defaults, s)
             name == IF s.default # "" THEN s.default ELSE ManifestPipelines.default
             config == applyPipelineConfigMerge(ManifestPipelines, s)
  <2>1. list \in Seq(Entry) /\ DistinctNames(list)
    BY <1>1, <1>2, MergedFacts
  <2>2. name # ""
    BY <1>1
  <2>3. config.pipelines = list /\ config.default = ensureDefaultPipeline(name, list)
    BY <1>5 DEF applyPipelineConfigMerge, defaults
  <2> HIDE DEF list, name, config
  <2>4. Listed(config)
    BY <1>3, <2>1, <2>2, <2>3
  <2> QED
    BY <2>4 DEF config
<1> QED
  BY <1>4, <1>5

-----------------------------------------------------------------------------
(* What a pass has to do *)

\* The objects that a pass may apply.
Kinds ==
  {"Namespace", "MetricsReader", "PipelineConfig", "Deployment", "ServiceMonitor",
   "SecurityContextConstraints", "CronJob", "ReleaseServiceConfig", "NetworkPolicy", "Role",
   "EnterpriseContractPolicy", "Certificate", "ClusterIssuer", "ClusterRole",
   "CustomResourceDefinition", "TrustedCA", "WebhookConfig", "ScrapeToken", "Secret"}

\* The Secret of the segment bridge is the last object of its pass.
LastSecret(todo) == \A i \in 1..Len(todo) : todo[i] = "Secret" => i = Len(todo)

\* It stays the last one while the others are worked off.
LEMMA LastSecretFacts ==
  /\ \A list \in Seq(Kinds \ {"Secret"}) : list \in Seq(Kinds) /\ LastSecret(list)
  /\ \A list \in Seq(Kinds) : list # <<>> /\ LastSecret(list) =>
       /\ Tail(list) \in Seq(Kinds) /\ LastSecret(Tail(list))
       /\ Head(list) \in Kinds /\ (Head(list) = "Secret" => Tail(list) = <<>>)
       /\ ToSet(list) = {Head(list)} \cup ToSet(Tail(list))
<1>1. ASSUME NEW list \in Seq(Kinds \ {"Secret"})
      PROVE  list \in Seq(Kinds) /\ LastSecret(list)
  <2>1. list \in Seq(Kinds)
    BY SeqMonotonic
  <2>2. \A i \in 1..Len(list) : list[i] # "Secret"
    BY ElementOfSeq
  <2> QED
    BY <2>1, <2>2 DEF LastSecret
<1>2. ASSUME NEW list \in Seq(Kinds), list # <<>>, LastSecret(list)
      PROVE  /\ Tail(list) \in Seq(Kinds) /\ LastSecret(Tail(list))
             /\ Head(list) \in Kinds /\ (Head(list) = "Secret" => Tail(list) = <<>>)
             /\ ToSet(list) = {Head(list)} \cup ToSet(Tail(list))
  <2> DEFINE t == Tail(list)
  <2>1. /\ Head(list) \in Kinds /\ Head(list) = list[1] /\ t \in Seq(Kinds)
        /\ Len(t) = Len(list) - 1
        /\ \A i \in 1..Len(t) : t[i] = list[i + 1]
    BY <1>2, HeadTailProperties
  <2>2. Len(list) \in Nat /\ Len(list) # 0 /\ DOMAIN list = 1..Len(list) /\ DOMAIN t = 1..Len(t)
    BY <1>2, <2>1, LenProperties, EmptySeq
  <2>3. Len(t) = 0 => t = <<>>
    BY <2>1, EmptySeq
  <2> HIDE DEF t
  <2>4. LastSecret(t)
    BY <1>2, <2>1, <2>2 DEF LastSecret
  <2>5. list[1] = "Secret" => t = <<>>
    BY <1>2, <2>1, <2>2, <2>3 DEF LastSecret
  <2>6. ToSet(list) = {list[1]} \cup ToSet(t)
    <3>1. \A i \in DOMAIN list : i = 1 \/ (i - 1 \in DOMAIN t /\ t[i - 1] = list[i])
      BY <2>1, <2>2
    <3>2. \A i \in DOMAIN t : i + 1 \in DOMAIN list /\ t[i] = list[i + 1]
      BY <2>1, <2>2
    <3>3. 1 \in DOMAIN list
      BY <2>2
    <3> QED
      BY <3>1, <3>2, <3>3 DEF ToSet
  <2> QED
    BY <2>1, <2>4, <2>5, <2>6 DEF t
<1> QED
  BY <1>1, <1>2

\* What a pass of an operand has to apply.
LEMMA WorkFacts ==
  ASSUME operand \in Operands, NEW s
  PROVE  Work(s) \in Seq(Kinds) /\ LastSecret(Work(s))
<1> DEFINE Others == Kinds \ {"Secret"}
<1>1. operand \in AllOperands
  BY OperandsAssumption
<1>2. /\ Manifests["build"] \in Seq(Others) /\ Manifests["integration"] \in Seq(Others)
      /\ Manifests["image"] \in Seq(Others) /\ Manifests["release"] \in Seq(Others)
      /\ Manifests["lister"] \in Seq(Others) /\ Manifests["bridge"] = <<"Namespace", "Role", "CronJob">>
      /\ Manifests["contract"] \in Seq(Others) /\ Manifests["certs"] \in Seq(Others)
      /\ Manifests["rbac"] \in Seq(Others) /\ Manifests["api"] \in Seq(Others)
  BY DEF Manifests, Kinds
<1>3. /\ EnsureNamespaceExists \in Seq(Others) /\ EnsureTrustedCAConfigMap \in Seq(Others)
      /\ ScrapeWiring(s) \in Seq(Others) /\ <<"WebhookConfig">> \in Seq(Others)
      /\ <<>> \in Seq(Others)
  <2>1. /\ <<"Namespace">> \in Seq(Others) /\ <<"TrustedCA">> \in Seq(Others)
        /\ <<"WebhookConfig">> \in Seq(Others) /\ <<>> \in Seq(Others)
    BY DEF Kinds
  <2>2. <<"ScrapeToken", "ServiceMonitor">> \in Seq(Others)
    BY DEF Kinds
  <2> HIDE DEF Others
  <2>3. EnsureNamespaceExists \in Seq(Others)
    BY <2>1 DEF EnsureNamespaceExists
  <2>4. EnsureTrustedCAConfigMap \in Seq(Others)
    BY <2>1 DEF EnsureTrustedCAConfigMap
  <2>5. ScrapeWiring(s) \in Seq(Others)
    BY <2>1, <2>2 DEF ScrapeWiring
  <2> QED
    BY <2>1, <2>3, <2>4, <2>5
<1> HIDE DEF Others
<1>4. \A o \in {"build", "integration", "image", "release", "contract"} :
        \A skipped : Applied(o, skipped) \in Seq(Others)
  <2> TAKE o \in {"build", "integration", "image", "release", "contract"}
  <2> TAKE skipped
  <2> DEFINE keep == ToSet(Manifests[o]) \ skipped
  <2>1. Applied(o, skipped) = Filter(Manifests[o], keep)
    BY DEF Applied
  <2>2. Manifests[o] \in Seq(Others)
    BY <1>2
  <2> HIDE DEF keep
  <2> QED
    BY <2>1, <2>2, FilterFacts
<1>5. operand = "build" => Work(s) \in Seq(Others)
  BY <1>3, <1>4 DEF Work, ReconcileBuild, applyBuildManifests
<1>6. operand = "integration" => Work(s) \in Seq(Others)
  BY <1>3, <1>4 DEF Work, ReconcileIntegration, applyIntegrationManifests
<1>7. operand = "image" => Work(s) \in Seq(Others)
  BY <1>3, <1>4 DEF Work, ReconcileImage, applyImageManifests
<1>8. operand = "release" => Work(s) \in Seq(Others)
  BY <1>3, <1>4 DEF Work, ReconcileRelease, applyReleaseManifests
<1>9. operand = "contract" => Work(s) \in Seq(Others)
  BY <1>4 DEF Work, ReconcileContract, applyContractManifests
<1>10. operand \in {"lister", "certs", "rbac", "api"} => Work(s) \in Seq(Others)
  BY <1>2, <1>3 DEF Work, ReconcileLister, ReconcileCerts, ReconcileRBAC, ReconcileAPI,
                    applyListerManifests, applyCertsManifests, applyRBACManifests, applyAPIManifests
<1>11. CASE operand = "bridge"
  <2>1. Work(s) = <<"Namespace", "Role", "CronJob">> \o <<"Secret">>
    BY <1>2, <1>11 DEF Work, ReconcileBridge, applyBridgeManifests
  <2> DEFINE a == <<"Namespace", "Role", "CronJob">>
             b == <<"Secret">>
             t == a \o b
  <2>2. /\ a \in Seq(Kinds) /\ b \in Seq(Kinds) /\ Len(a) = 3 /\ Len(b) = 1
        /\ \A i \in 1..3 : a[i] # "Secret"
    BY DEF Kinds
  <2> HIDE DEF a, b
  <2>3. /\ t \in Seq(Kinds) /\ Len(t) = 4
        /\ \A i \in 1..4 : t[i] = IF i <= 3 THEN a[i] ELSE b[i - 3]
    <3>1. /\ t \in Seq(Kinds) /\ Len(t) = Len(a) + Len(b)
          /\ \A i \in 1..(Len(a) + Len(b)) : t[i] = IF i <= Len(a) THEN a[i] ELSE b[i - Len(a)]
      BY <2>2, ConcatProperties, Zenon
    <3> HIDE DEF t
    <3> QED
      BY <2>2, <3>1
  <2> HIDE DEF t
  <2>4. LastSecret(t)
    BY <2>2, <2>3 DEF LastSecret
  <2> QED
    BY <2>1, <2>3, <2>4 DEF a, b, t
<1>12. CASE operand # "bridge"
  <2>1. Work(s) \in Seq(Others)
    BY <1>1, <1>5, <1>6, <1>7, <1>8, <1>9, <1>10, <1>12 DEF AllOperands
  <2> QED
    BY <2>1, LastSecretFacts DEF Others
<1> QED
  BY <1>11, <1>12

\* A controller that stays the same has the same work and writes the same.
LEMMA SameWork ==
  ASSUME UNCHANGED <<operand, openShift>>, NEW s
  PROVE  Wanted(s)' = Wanted(s)
BY DEF Wanted, Work, ReconcileBuild, ReconcileIntegration, ReconcileImage, ReconcileRelease,
       ReconcileLister, ReconcileBridge, ReconcileContract, ReconcileCerts, ReconcileRBAC,
       ReconcileAPI, EnsureTrustedCAConfigMap, applyBuildManifests

\* It writes the same.
LEMMA SameContent ==
  ASSUME UNCHANGED <<operand, openShift>>, NEW o, NEW s, NEW u, NEW k
  PROVE  Content(o, s, u, k)' = Content(o, s, u, k)
BY DEF Content, DeploymentFor, CronJobFor, reconcileSegmentBridgeSecret, tektonResultsAPIAddr,
       ManifestPod, ManifestCron, ManifestEnv, ManifestArgs, ManifestVolumes,
       applySnapshotGCCustomizations, buildBuildControllerManagerOverlay,
       buildControllerManagerOverlay

\* It has the same objects.
LEMMA SameObjects ==
  ASSUME UNCHANGED operand
  PROVE  Objects' = Objects
BY DEF Objects, Legacy

\* Only the Secret of the segment bridge depends on the key.
LEMMA KeyMatters ==
  ASSUME NEW o, o # "Secret", NEW s, NEW u, NEW k, NEW l
  PROVE  Content(o, s, u, k) = Content(o, s, u, l)
BY DEF Content

-----------------------------------------------------------------------------
(* Types *)

PassRecord ==
  [at : {"idle", "apply", "cleanup", "status"}, spec : Specs[operand] \cup {Absent}, url : AllURLs,
   secret : Secrets \cup {Absent}, todo : Seq(Kinds), tracked : SUBSET Kinds,
   touched : SUBSET Objects, again : BOOLEAN, outdated : BOOLEAN]

PassInv ==
  /\ operand \in Operands /\ spec \in Specs[operand] \cup {Absent}
  /\ ui \in KonfluxUI \cup {Absent} /\ keySecret \in Secrets \cup {Absent}
  /\ pass \in PassRecord /\ (pass.at # "idle" => pass.spec \in Specs[operand])
  /\ objs = [o \in Objects |-> objs[o]]

\* The URL of the console is one that the KonfluxUI controller may announce.
LEMMA ConsoleURLType == ui \in KonfluxUI \cup {Absent} => consoleURL \in AllURLs
BY DEF consoleURL, KonfluxUI, AllURLs

\* No pass.
LEMMA NoPassFacts == NoPass \in PassRecord /\ NoPass.at = "idle"
BY DEF NoPass, PassRecord, AllURLs

\* The types hold initially.
LEMMA PassInit == Init => PassInv
<1> SUFFICES ASSUME Init PROVE PassInv
  OBVIOUS
<1>1. objs = [o \in Objects |-> objs[o]]
  BY DEF Init
<1> QED
  BY <1>1, NoPassFacts DEF Init, PassInv, KonfluxUI

\* Every step keeps the types.
LEMMA PassStep == PassInv /\ [Next]_vars => PassInv'
<1> SUFFICES ASSUME PassInv, [Next]_vars PROVE PassInv'
  OBVIOUS
<1>1. operand' = operand
  BY DEF Next, Reconcile, Begin, BeginUnread, BeginNotFound, ApplyNext, SecretRefused, MonitorWaits,
         ApplyDone, CleanupOrphans, CleanupFails, UpdateStatus, ApplyFails, Abandon, CreateCR,
         EditSpec, CreateUI, DeleteUI, UpdateUI, RotateKey, UserDeletes, vars
<1>2. Objects' = Objects
  BY <1>1, SameObjects
<1>3. NoPass \in PassRecord' /\ NoPass.at = "idle"
  BY <1>1, <1>2, NoPassFacts DEF PassRecord
<1>4. PassRecord' = PassRecord
  BY <1>1, <1>2 DEF PassRecord
<1>5. ASSUME objs' = objs PROVE (objs = [o \in Objects |-> objs[o]])'
  BY <1>2, <1>5 DEF PassInv
<1>6. ASSUME NEW o, NEW x, objs' = [objs EXCEPT ![o] = x] PROVE (objs = [p \in Objects |-> objs[p]])'
  BY <1>2, <1>6 DEF PassInv
<1>7. ASSUME NEW gone, objs' = Without(gone) PROVE (objs = [o \in Objects |-> objs[o]])'
  BY <1>2, <1>7 DEF Without
<1>8. spec # Absent => spec \in Specs[operand] /\ Work(spec) \in Seq(Kinds)
  BY WorkFacts DEF PassInv
<1>9. CASE Begin
  <2>1. pass' \in PassRecord /\ pass'.spec \in Specs[operand]
    BY <1>8, <1>9, NoPassFacts, ConsoleURLType DEF Begin, PassInv, PassRecord
  <2> QED
    BY <1>1, <1>4, <1>5, <1>9, <2>1 DEF Begin, PassInv
<1>10. CASE BeginUnread
  <2>1. pass' \in PassRecord /\ pass'.spec \in Specs[operand]
    BY <1>8, <1>10, NoPassFacts DEF BeginUnread, PassInv, PassRecord
  <2> QED
    BY <1>1, <1>4, <1>5, <1>10, <2>1 DEF BeginUnread, PassInv
<1>11. CASE ApplyNext
  <2>1. Head(pass.todo) \in Kinds /\ Tail(pass.todo) \in Seq(Kinds)
    <3>1. pass.todo \in Seq(Kinds) /\ pass.todo # <<>>
      BY <1>11 DEF ApplyNext, PassInv, PassRecord
    <3> QED
      BY <3>1, HeadTailProperties
  <2>2. pass' \in PassRecord /\ pass'.spec = pass.spec /\ pass'.at = pass.at
    BY <1>11, <2>1 DEF ApplyNext, PassInv, PassRecord
  <2>3. (objs = [o \in Objects |-> objs[o]])'
    BY <1>6, <1>11 DEF ApplyNext, Write
  <2> QED
    BY <1>1, <1>4, <1>11, <2>2, <2>3 DEF ApplyNext, PassInv
<1>12. CASE MonitorWaits
  <2>1. pass' \in PassRecord /\ pass'.spec = pass.spec /\ pass'.at = pass.at
    <3>1. pass' = [pass EXCEPT !.todo = <<>>, !.again = TRUE] /\ <<>> \in Seq(Kinds)
      BY <1>12 DEF MonitorWaits
    <3> QED
      BY <3>1 DEF PassInv, PassRecord
  <2> QED
    BY <1>1, <1>4, <1>5, <1>12, <2>1 DEF MonitorWaits, PassInv
<1>13. CASE ApplyDone
  <2>1. pass' \in PassRecord /\ pass'.spec \in Specs[operand]
    BY <1>13 DEF ApplyDone, At, PassInv, PassRecord
  <2> QED
    BY <1>1, <1>4, <1>5, <1>13, <2>1 DEF ApplyDone, PassInv
<1>14. CASE CleanupOrphans
  <2>1. pass' \in PassRecord /\ pass'.spec \in Specs[operand]
    BY <1>14 DEF CleanupOrphans, At, PassInv, PassRecord
  <2>2. (objs = [o \in Objects |-> objs[o]])'
    BY <1>7, <1>14 DEF CleanupOrphans, Write
  <2> QED
    BY <1>1, <1>4, <1>14, <2>1, <2>2 DEF CleanupOrphans, PassInv
<1>15. CASE CleanupFails
  <2>1. (objs = [o \in Objects |-> objs[o]])'
    BY <1>7, <1>15 DEF CleanupFails
  <2> QED
    BY <1>1, <1>3, <1>15, <2>1 DEF CleanupFails, Handle, PassInv
<1>16. CASE SecretRefused \/ UpdateStatus \/ ApplyFails \/ Abandon
  BY <1>1, <1>3, <1>5, <1>16 DEF SecretRefused, UpdateStatus, ApplyFails, Abandon, Handle, PassInv
<1>17. CASE BeginNotFound \/ UNCHANGED vars
  BY <1>1, <1>4, <1>5, <1>17 DEF BeginNotFound, vars, PassInv
<1>18. CASE \E s \in Specs[operand] : CreateCR(s) \/ EditSpec(s)
  <2>1. PICK s \in Specs[operand] : CreateCR(s) \/ EditSpec(s)
    BY <1>18
  <2>2. pass' \in PassRecord /\ pass'.spec = pass.spec /\ pass'.at = pass.at
    <3>1. pass' = pass \/ pass' = [pass EXCEPT !.outdated = TRUE]
      BY <2>1 DEF CreateCR, EditSpec
    <3> QED
      BY <3>1 DEF PassInv, PassRecord
  <2> QED
    BY <1>1, <1>4, <1>5, <2>1, <2>2 DEF CreateCR, EditSpec, PassInv
<1>19. CASE CreateUI \/ DeleteUI \/ \E e \in BOOLEAN, n \in KonfluxUI : UpdateUI(e, n)
  <2>1. ui' \in KonfluxUI \cup {Absent}
    <3>1. NewUI \in KonfluxUI
      BY DEF NewUI, KonfluxUI
    <3>2. \/ ui' = NewUI \/ ui' = Absent
          \/ \E e \in BOOLEAN, n \in KonfluxUI : ui' = n
      BY <1>19 DEF CreateUI, DeleteUI, UpdateUI
    <3> QED
      BY <3>1, <3>2
  <2>2. UNCHANGED <<operand, openShift, spec, keySecret, objs, status, pass, unread>>
    BY <1>19 DEF CreateUI, DeleteUI, UpdateUI
  <2> QED
    BY <1>1, <1>4, <1>5, <2>1, <2>2 DEF PassInv
<1>20. CASE \E k \in Secrets \cup {Absent} : RotateKey(k)
  BY <1>1, <1>4, <1>5, <1>20 DEF RotateKey, PassInv
<1>21. CASE \E o \in Objects : UserDeletes(o)
  <2>1. PICK o \in Objects : UserDeletes(o)
    BY <1>21
  <2>2. pass' \in PassRecord /\ pass'.spec = pass.spec /\ pass'.at = pass.at
    BY <2>1 DEF UserDeletes, PassInv, PassRecord
  <2>3. (objs = [p \in Objects |-> objs[p]])'
    BY <1>6, <2>1 DEF UserDeletes, Write
  <2> QED
    BY <1>1, <1>4, <2>1, <2>2, <2>3 DEF UserDeletes, PassInv
<1> QED
  BY <1>9, <1>10, <1>11, <1>12, <1>13, <1>14, <1>15, <1>16, <1>17, <1>18, <1>19, <1>20, <1>21
     DEF Next, Reconcile

\* What a step may do to an object: leave it, delete it, or write what the
\* spec of the pass asks for.
LEMMA WriteCases ==
  ASSUME PassInv, [Next]_vars, NEW o \in Objects
  PROVE  \/ objs'[o] = objs[o] \/ objs'[o] = Absent
         \/ pass.at = "apply" /\ objs'[o] = Content(o, pass.spec, pass.url, keySecret)
<1>1. CASE ApplyNext
  BY <1>1 DEF ApplyNext, At, Write, PassInv
<1>2. CASE CleanupOrphans
  BY <1>2 DEF CleanupOrphans, Write, Without
<1>3. CASE CleanupFails
  BY <1>3 DEF CleanupFails, Without
<1>4. CASE \E p \in Objects : UserDeletes(p)
  BY <1>4 DEF UserDeletes, Write, PassInv
<1>5. CASE Begin \/ BeginNotFound \/ SecretRefused \/ ApplyDone \/ UpdateStatus \/ BeginUnread
           \/ MonitorWaits \/ ApplyFails \/ Abandon \/ UNCHANGED vars
  BY <1>5 DEF Begin, BeginNotFound, SecretRefused, ApplyDone, UpdateStatus, BeginUnread,
              MonitorWaits, ApplyFails, Abandon, vars
<1>6. CASE \/ \E s \in Specs[operand] : CreateCR(s) \/ EditSpec(s)
           \/ CreateUI \/ DeleteUI \/ \E e \in BOOLEAN, n \in KonfluxUI : UpdateUI(e, n)
           \/ \E k \in Secrets \cup {Absent} : RotateKey(k)
  BY <1>6 DEF CreateCR, EditSpec, CreateUI, DeleteUI, UpdateUI, RotateKey
<1> QED
  BY <1>1, <1>2, <1>3, <1>4, <1>5, <1>6 DEF Next, Reconcile

\* No step changes the controller or the platform.
LEMMA SameController ==
  ASSUME [Next]_vars
  PROVE  UNCHANGED <<operand, openShift>>
BY DEF Next, Reconcile, Begin, BeginUnread, BeginNotFound, ApplyNext, SecretRefused, MonitorWaits,
       ApplyDone, CleanupOrphans, CleanupFails, UpdateStatus, ApplyFails, Abandon, CreateCR,
       EditSpec, CreateUI, DeleteUI, UpdateUI, RotateKey, UserDeletes, vars

\* build-service is told its pipelines.
LEMMA BuildObjects == operand = "build" => "PipelineConfig" \in Objects
<1>1. Manifests["build"][3] = "PipelineConfig" /\ 3 \in DOMAIN Manifests["build"]
  BY DEF Manifests
<1> QED
  BY <1>1 DEF Objects, ToSet

\* A step of build-service keeps a listed default.
LEMMA ListedStep == PassInv /\ DefaultPipelineListed /\ [Next]_vars => DefaultPipelineListed'
<1> SUFFICES ASSUME PassInv, DefaultPipelineListed, [Next]_vars,
                    operand = "build", objs'["PipelineConfig"] # Absent
             PROVE  Listed(objs'["PipelineConfig"])
  BY SameController DEF DefaultPipelineListed, Listed
<1> DEFINE o == "PipelineConfig"
<1>1. o \in Objects
  BY BuildObjects
<1>2. \/ objs'[o] = objs[o]
      \/ pass.at = "apply" /\ objs'[o] = Content(o, pass.spec, pass.url, keySecret)
  <2> HIDE DEF o
  <2>1. \/ objs'[o] = objs[o] \/ objs'[o] = Absent
        \/ pass.at = "apply" /\ objs'[o] = Content(o, pass.spec, pass.url, keySecret)
    BY <1>1, WriteCases
  <2> QED
    BY <2>1 DEF o
<1>3. CASE objs'[o] = objs[o]
  BY <1>3 DEF DefaultPipelineListed, Listed
<1>4. CASE pass.at = "apply" /\ objs'[o] = Content(o, pass.spec, pass.url, keySecret)
  <2>1. objs'[o] = applyPipelineConfigMerge(ManifestPipelines, pass.spec.pipelines)
    BY <1>4 DEF Content, Customised
  <2>2. pass.spec.pipelines \in PipelineConfig
    BY <1>4, OperandsAssumption DEF PassInv
  <2> QED
    BY <2>1, <2>2, ConfigListed
<1> QED
  BY <1>2, <1>3, <1>4

\* The default pipeline that build-service is told is one that it is told, and
\* no pipeline is told twice, whatever defaults a CR overrides or removes, in
\* whatever order, after any history of passes, edits and deletions.
THEOREM AlwaysListed == Spec => []DefaultPipelineListed
<1>1. Init => PassInv /\ DefaultPipelineListed
  <2>1. ASSUME Init, operand = "build" PROVE objs["PipelineConfig"] = Absent
    <3>1. PICK left \in SUBSET Legacy :
            objs = [o \in Objects |-> IF o \in left THEN "manifest" ELSE Absent]
      BY <2>1 DEF Init
    <3>2. "PipelineConfig" \notin left
      BY DEF Legacy
    <3> QED
      BY <2>1, <3>1, <3>2, BuildObjects
  <2> QED
    BY <2>1, PassInit DEF DefaultPipelineListed
<1>2. PassInv /\ DefaultPipelineListed /\ [Next]_vars => (PassInv /\ DefaultPipelineListed)'
  BY PassStep, ListedStep
<1> QED
  BY <1>1, <1>2, PTL DEF Spec

-----------------------------------------------------------------------------
(* What a pass restores *)

\* What the pass leaves to a later one.
Deferred == IF pass.again THEN {"ServiceMonitor"} ELSE {}

\* Everything that the spec of the pass asks for has been applied, is still to
\* do or is deferred; what has been applied is there as asked for, unless a
\* user has touched it since. The key is read anew for every object, but it
\* only goes into the Secret, after which nothing is applied.
WorkInv == pass.at # "idle" =>
  /\ Wanted(pass.spec) \subseteq pass.tracked \cup ToSet(pass.todo) \cup Deferred
  /\ pass.at # "apply" => pass.todo = <<>>
  /\ LastSecret(pass.todo)
  /\ "Secret" \in pass.tracked => pass.todo = <<>>
AsAsked == pass.at # "idle" =>
  \A o \in (Objects \cap pass.tracked) \ pass.touched :
    objs[o] = Content(o, pass.spec, pass.url, pass.secret)

\* Every step keeps what is applied, to do or deferred.
LEMMA WorkStep == PassInv /\ WorkInv /\ [Next]_vars => WorkInv'
<1> SUFFICES ASSUME PassInv, WorkInv, [Next]_vars PROVE WorkInv'
  OBVIOUS
<1>1. \A s : Wanted(s)' = Wanted(s)
  BY SameController, SameWork
<1>2. ASSUME pass'.at = pass.at, pass'.spec = pass.spec, pass'.tracked = pass.tracked,
             pass'.todo = pass.todo, pass'.again = pass.again
      PROVE  WorkInv'
  BY <1>1, <1>2 DEF WorkInv, Deferred
<1>3. ASSUME pass' = NoPass PROVE WorkInv'
  BY <1>3, NoPassFacts DEF WorkInv
<1>4. CASE Begin \/ BeginUnread
  <2>1. /\ pass'.todo = Work(spec) /\ pass'.spec = spec /\ pass'.tracked = {} /\ pass'.at = "apply"
        /\ pass'.again = FALSE
    BY <1>4 DEF Begin, BeginUnread, NoPass
  <2>2. Wanted(spec) = ToSet(Work(spec)) /\ LastSecret(Work(spec))
    BY WorkFacts DEF Wanted, PassInv
  <2> QED
    BY <1>1, <2>1, <2>2 DEF WorkInv, Deferred
<1>5. CASE ApplyNext
  <2> DEFINE h == Head(pass.todo)
             t == Tail(pass.todo)
  <2>1. pass.at = "apply" /\ pass.todo \in Seq(Kinds) /\ pass.todo # <<>>
    BY <1>5 DEF ApplyNext, At, PassInv, PassRecord
  <2>2. /\ pass'.at = pass.at /\ pass'.spec = pass.spec /\ pass'.again = pass.again
        /\ pass'.todo = t /\ pass'.tracked = pass.tracked \cup {h}
    BY <1>5 DEF ApplyNext, PassInv, PassRecord
  <2>3. /\ LastSecret(t) /\ (h = "Secret" => t = <<>>)
        /\ ToSet(pass.todo) = {h} \cup ToSet(t)
    BY <2>1, LastSecretFacts DEF WorkInv
  <2> HIDE DEF h, t
  <2>4. "Secret" \notin pass.tracked
    BY <2>1 DEF WorkInv
  <2> QED
    BY <1>1, <2>1, <2>2, <2>3, <2>4 DEF WorkInv, Deferred
<1>6. CASE MonitorWaits
  <2>1. pass.at = "apply" /\ ToSet(pass.todo) = {"ServiceMonitor"} /\ pass.todo # <<>>
    <3>1. pass.at = "apply" /\ pass.todo = <<"ServiceMonitor">>
      BY <1>6 DEF MonitorWaits, At
    <3> QED
      BY <3>1 DEF ToSet
  <2>2. /\ pass'.at = pass.at /\ pass'.spec = pass.spec /\ pass'.again = TRUE
        /\ pass'.todo = <<>> /\ pass'.tracked = pass.tracked
    BY <1>6 DEF MonitorWaits, PassInv, PassRecord
  <2>3. LastSecret(<<>>)
    BY DEF LastSecret
  <2> QED
    BY <1>1, <2>1, <2>2, <2>3 DEF WorkInv, Deferred
<1>7. CASE ApplyDone \/ CleanupOrphans
  <2>1. /\ pass.at # "idle" /\ pass.todo = <<>>
        /\ pass'.spec = pass.spec /\ pass'.again = pass.again
        /\ pass'.todo = <<>> /\ pass'.tracked = pass.tracked
    BY <1>7 DEF ApplyDone, CleanupOrphans, At, PassInv, PassRecord, WorkInv
  <2> QED
    BY <1>1, <2>1 DEF WorkInv, Deferred
<1>8. CASE SecretRefused \/ CleanupFails \/ UpdateStatus \/ ApplyFails \/ Abandon
  BY <1>3, <1>8 DEF SecretRefused, CleanupFails, UpdateStatus, ApplyFails, Abandon, Handle
<1>9. CASE \/ BeginNotFound \/ UNCHANGED vars
           \/ \E s \in Specs[operand] : CreateCR(s) \/ EditSpec(s)
           \/ CreateUI \/ DeleteUI \/ \E e \in BOOLEAN, n \in KonfluxUI : UpdateUI(e, n)
           \/ \E k \in Secrets \cup {Absent} : RotateKey(k)
           \/ \E o \in Objects : UserDeletes(o)
  <2>1. \/ pass' = pass \/ pass' = [pass EXCEPT !.outdated = TRUE]
        \/ \E o : pass' = [pass EXCEPT !.touched = @ \cup {o}]
    BY <1>9 DEF BeginNotFound, vars, CreateCR, EditSpec, CreateUI, DeleteUI, UpdateUI, RotateKey, UserDeletes
  <2> QED
    BY <1>2, <2>1 DEF PassInv, PassRecord
<1> QED
  BY <1>4, <1>5, <1>6, <1>7, <1>8, <1>9 DEF Next, Reconcile

\* Every step keeps what has been applied.
LEMMA AskedStep == PassInv /\ WorkInv /\ AsAsked /\ [Next]_vars => AsAsked'
<1> SUFFICES ASSUME PassInv, WorkInv, AsAsked, [Next]_vars PROVE AsAsked'
  OBVIOUS
<1>1. \A o, s, u, k : Content(o, s, u, k)' = Content(o, s, u, k)
  BY SameController, SameContent
<1>2. Objects' = Objects
  BY SameController, SameObjects
<1>3. ASSUME pass'.at # "idle" => pass.at # "idle", pass'.spec = pass.spec, pass'.url = pass.url,
             pass'.secret = pass.secret, pass'.tracked = pass.tracked,
             \A o \in (Objects \cap pass.tracked) \ pass'.touched :
               o \notin pass.touched /\ objs'[o] = objs[o]
      PROVE  AsAsked'
  BY <1>1, <1>2, <1>3 DEF AsAsked
<1>4. ASSUME pass' = NoPass PROVE AsAsked'
  BY <1>4, NoPassFacts DEF AsAsked
<1>5. CASE Begin \/ BeginUnread
  <2>1. pass'.tracked = {}
    BY <1>5 DEF Begin, BeginUnread, NoPass
  <2> QED
    BY <2>1 DEF AsAsked
<1>6. CASE ApplyNext
  <2> DEFINE h == Head(pass.todo)
  <2>1. /\ pass.at # "idle" /\ "Secret" \notin pass.tracked
        /\ pass'.spec = pass.spec /\ pass'.url = pass.url /\ pass'.secret = keySecret
        /\ pass'.tracked = pass.tracked \cup {h} /\ pass'.touched = pass.touched \ {h}
    BY <1>6 DEF ApplyNext, At, PassInv, PassRecord, WorkInv
  <2>2. \A o \in Objects : objs'[o] = IF o = h THEN Content(h, pass.spec, pass.url, keySecret)
                                      ELSE objs[o]
    BY <1>6 DEF ApplyNext, Write, PassInv
  <2> HIDE DEF h
  <2> SUFFICES ASSUME NEW o \in (Objects \cap pass'.tracked) \ pass'.touched
               PROVE  objs'[o] = Content(o, pass.spec, pass.url, keySecret)
    BY <1>1, <1>2, <2>1 DEF AsAsked
  <2>3. CASE o = h
    BY <2>2, <2>3
  <2>4. CASE o # h
    <3>1. objs'[o] = Content(o, pass.spec, pass.url, pass.secret) /\ o # "Secret"
      BY <2>1, <2>2, <2>4 DEF AsAsked
    <3> QED
      BY <3>1, KeyMatters
  <2> QED
    BY <2>3, <2>4
<1>7. CASE MonitorWaits \/ ApplyDone
  <2>1. /\ pass.at # "idle" /\ objs' = objs /\ pass'.touched = pass.touched
        /\ pass'.spec = pass.spec /\ pass'.url = pass.url
        /\ pass'.secret = pass.secret /\ pass'.tracked = pass.tracked
    BY <1>7 DEF MonitorWaits, ApplyDone, At, PassInv, PassRecord
  <2> QED
    BY <1>3, <2>1
<1>8. CASE CleanupOrphans
  <2>1. /\ pass.at # "idle" /\ pass'.touched = pass.touched
        /\ pass'.spec = pass.spec /\ pass'.url = pass.url
        /\ pass'.secret = pass.secret /\ pass'.tracked = pass.tracked
    BY <1>8 DEF CleanupOrphans, At, PassInv, PassRecord
  <2>2. \A o \in Objects \cap pass.tracked : objs'[o] = objs[o]
    BY <1>8 DEF CleanupOrphans, Write, Without, Orphans
  <2> QED
    BY <1>3, <2>1, <2>2
<1>9. CASE SecretRefused \/ CleanupFails \/ UpdateStatus \/ ApplyFails \/ Abandon
  BY <1>4, <1>9 DEF SecretRefused, CleanupFails, UpdateStatus, ApplyFails, Abandon, Handle
<1>10. CASE \/ BeginNotFound \/ UNCHANGED vars
            \/ \E s \in Specs[operand] : CreateCR(s) \/ EditSpec(s)
            \/ CreateUI \/ DeleteUI \/ \E e \in BOOLEAN, n \in KonfluxUI : UpdateUI(e, n)
            \/ \E k \in Secrets \cup {Absent} : RotateKey(k)
  <2>1. objs' = objs /\ (pass' = pass \/ pass' = [pass EXCEPT !.outdated = TRUE])
    BY <1>10 DEF BeginNotFound, vars, CreateCR, EditSpec, CreateUI, DeleteUI, UpdateUI, RotateKey
  <2>2. /\ pass'.at = pass.at /\ pass'.touched = pass.touched
        /\ pass'.spec = pass.spec /\ pass'.url = pass.url
        /\ pass'.secret = pass.secret /\ pass'.tracked = pass.tracked
    BY <2>1 DEF PassInv, PassRecord
  <2> QED
    BY <1>3, <2>1, <2>2
<1>11. CASE \E o \in Objects : UserDeletes(o)
  <2>1. PICK p \in Objects : UserDeletes(p)
    BY <1>11
  <2>2. CASE pass.at = "idle"
    BY <2>1, <2>2 DEF UserDeletes, At, AsAsked
  <2>3. CASE pass.at # "idle"
    <3>1. /\ pass'.at = pass.at /\ pass'.touched = pass.touched \cup {p}
          /\ pass'.spec = pass.spec /\ pass'.url = pass.url
          /\ pass'.secret = pass.secret /\ pass'.tracked = pass.tracked
      BY <2>1, <2>3 DEF UserDeletes, At, PassInv, PassRecord
    <3>2. \A o \in Objects \ {p} : objs'[o] = objs[o]
      BY <2>1 DEF UserDeletes, Write, PassInv
    <3> QED
      BY <1>3, <2>3, <3>1, <3>2
  <2> QED
    BY <2>2, <2>3
<1> QED
  BY <1>5, <1>6, <1>7, <1>8, <1>9, <1>10, <1>11 DEF Next, Reconcile

\* A pass that ends with success has restored everything that its spec asks
\* for, whatever failed before it and whatever users deleted or edited
\* meanwhile, except what was deleted after the pass had applied it; its own
\* cleanup takes nothing of it away.
THEOREM Restores == Spec => PassRestores
<1>1. Init => PassInv /\ WorkInv /\ AsAsked
  <2>1. Init => pass.at = "idle"
    BY NoPassFacts DEF Init
  <2> QED
    BY <2>1, PassInit DEF WorkInv, AsAsked
<1>2. PassInv /\ WorkInv /\ AsAsked /\ [Next]_vars => (PassInv /\ WorkInv /\ AsAsked)'
  BY PassStep, WorkStep, AskedStep
<1>3. ASSUME WorkInv, AsAsked, At("status"), NEW o \in (Objects \cap Wanted(pass.spec)) \ pass.touched
      PROVE  \/ o = "ServiceMonitor" /\ pass.again
             \/ objs[o] = Content(o, pass.spec, pass.url, pass.secret)
  <2>1. pass.at # "idle" /\ pass.at # "apply"
    BY <1>3 DEF At
  <2>2. ToSet(pass.todo) = {}
    <3>1. pass.todo = <<>>
      BY <1>3, <2>1 DEF WorkInv
    <3> QED
      BY <3>1 DEF ToSet
  <2>3. o \in pass.tracked \/ (o = "ServiceMonitor" /\ pass.again)
    BY <1>3, <2>1, <2>2 DEF WorkInv, Deferred
  <2> QED
    BY <1>3, <2>1, <2>3 DEF AsAsked
<1> DEFINE Restored == At("status") /\ status' = "reconciled" /\ pass' = NoPass /\ events' = events =>
             \A o \in (Objects \cap Wanted(pass.spec)) \ pass.touched :
               \/ o = "ServiceMonitor" /\ pass.again
               \/ objs[o] = Content(o, pass.spec, pass.url, pass.secret)
<1>4. PassInv /\ WorkInv /\ AsAsked /\ [Next]_vars => [Restored]_vars
  BY <1>3
<1>5. Spec => [][Restored]_vars
  BY <1>1, <1>2, <1>4, PTL DEF Spec
<1> QED
  BY <1>5 DEF PassRestores

-----------------------------------------------------------------------------
(* Keyed lists: the environment, by name, and the arguments, by flag *)

List(l) == l \in Seq(ToSet(l))
Keys(l, k) == {l[i][k] : i \in DOMAIN l}
Distinct(l, k) == \A i, j \in DOMAIN l : l[i][k] = l[j][k] => i = j

\* The value of a key: the last one counts.
ValueOf(l, k, n) ==
  LET at == {i \in DOMAIN l : l[i][k] = n}
  IN  IF at = {} THEN Absent ELSE l[CHOOSE i \in at : \A j \in at : j <= i].value

\* Every sequence is a list.
LEMMA ListFacts ==
  ASSUME NEW l
  PROVE  /\ \A S : l \in Seq(S) => List(l)
         /\ List(l) => Len(l) \in Nat /\ DOMAIN l = 1..Len(l) /\ \A i \in 1..Len(l) : l[i] \in ToSet(l)
<1>1. ASSUME NEW S, l \in Seq(S) PROVE List(l)
  <2>1. Len(l) \in Nat /\ DOMAIN l = 1..Len(l) /\ l \in [1..Len(l) -> S]
    BY <1>1, LenProperties
  <2>2. l = [i \in 1..Len(l) |-> l[i]] /\ \A i \in 1..Len(l) : l[i] \in ToSet(l)
    BY <2>1 DEF ToSet
  <2> QED
    BY <2>1, <2>2 DEF List
<1>2. ASSUME List(l)
      PROVE  Len(l) \in Nat /\ DOMAIN l = 1..Len(l) /\ \A i \in 1..Len(l) : l[i] \in ToSet(l)
  BY <1>2, LenProperties DEF List, ToSet
<1> QED
  BY <1>1, <1>2

\* The last entry with a key decides on its value.
LEMMA LastDecides ==
  ASSUME NEW l, List(l), NEW k, NEW i \in DOMAIN l,
         \A j \in DOMAIN l : l[j][k] = l[i][k] => j <= i
  PROVE  ValueOf(l, k, l[i][k]) = l[i].value
<1> DEFINE at == {j \in DOMAIN l : l[j][k] = l[i][k]}
<1>1. i \in at /\ at \subseteq Nat /\ \A j \in at : j <= i
  BY ListFacts
<1>2. ValueOf(l, k, l[i][k]) = IF at = {} THEN Absent ELSE l[CHOOSE m \in at : \A j \in at : j <= m].value
  BY DEF ValueOf
<1> HIDE DEF at
<1>3. \A m \in at : (\A j \in at : j <= m) => m = i
  BY <1>1
<1>4. (CHOOSE m \in at : \A j \in at : j <= m) = i
  BY <1>1, <1>3
<1> QED
  BY <1>1, <1>2, <1>4

\* A key of a list has a last entry.
LEMMA LastExists ==
  ASSUME NEW l, List(l), NEW k, NEW n \in Keys(l, k)
  PROVE  \E i \in DOMAIN l : l[i][k] = n /\ \A j \in DOMAIN l : l[j][k] = n => j <= i
<1>1. Len(l) \in Nat /\ DOMAIN l = 1..Len(l)
  BY ListFacts
<1> DEFINE T == {m \in Nat : \E i \in DOMAIN l : l[i][k] = n /\ m = Len(l) - i}
<1>2. T # {}
  <2>1. PICK i \in DOMAIN l : l[i][k] = n
    BY DEF Keys
  <2>2. Len(l) - i \in T
    BY <1>1, <2>1
  <2> QED
    BY <2>2
<1>3. Min(T) \in T /\ \A m \in T : Min(T) <= m
  <2>1. T \in SUBSET Nat
    OBVIOUS
  <2> HIDE DEF T
  <2> QED
    BY <1>2, <2>1, LeastOf
<1>4. PICK i \in DOMAIN l : l[i][k] = n /\ Min(T) = Len(l) - i
  BY <1>3
<1>5. ASSUME NEW j \in DOMAIN l, l[j][k] = n PROVE j <= i
  <2>1. Len(l) - j \in T
    BY <1>1, <1>5
  <2>2. Len(l) - i <= Len(l) - j
    BY <1>3, <1>4, <2>1
  <2> QED
    BY <1>1, <2>2
<1> QED
  BY <1>4, <1>5

\* Of two lists the second decides where it has the key.
LEMMA ConcatFacts ==
  ASSUME NEW a, NEW b, List(a), List(b), NEW k
  PROVE  /\ List(a \o b) /\ Keys(a \o b, k) = Keys(a, k) \cup Keys(b, k)
         /\ \A n : ValueOf(a \o b, k, n) = IF n \in Keys(b, k) THEN ValueOf(b, k, n) ELSE ValueOf(a, k, n)
<1> DEFINE c == a \o b
           S == ToSet(a) \cup ToSet(b)
<1>1. a \in Seq(S) /\ b \in Seq(S)
  BY SeqMonotonic DEF List
<1>2. /\ Len(a) \in Nat /\ DOMAIN a = 1..Len(a)
      /\ Len(b) \in Nat /\ DOMAIN b = 1..Len(b)
  BY ListFacts
<1> HIDE DEF S
<1>3. /\ c \in Seq(S) /\ Len(c) = Len(a) + Len(b)
      /\ \A i \in 1 .. Len(a) + Len(b) : c[i] = IF i <= Len(a) THEN a[i] ELSE b[i - Len(a)]
  BY <1>1, ConcatProperties
<1>4. List(c) /\ DOMAIN c = 1..(Len(a) + Len(b))
  BY <1>3, ListFacts
<1> HIDE DEF c
<1>5. /\ \A i \in DOMAIN a : i \in DOMAIN c /\ c[i] = a[i]
      /\ \A i \in DOMAIN b : Len(a) + i \in DOMAIN c /\ c[Len(a) + i] = b[i]
      /\ \A i \in DOMAIN c : \/ i \in DOMAIN a
                             \/ i > Len(a) /\ i - Len(a) \in DOMAIN b /\ c[i] = b[i - Len(a)]
  <2>1. ASSUME NEW i \in DOMAIN b PROVE Len(a) + i \in DOMAIN c /\ c[Len(a) + i] = b[i]
    <3>1. Len(a) + i \in 1..(Len(a) + Len(b)) /\ ~(Len(a) + i <= Len(a)) /\ (Len(a) + i) - Len(a) = i
      BY <1>2
    <3> QED
      BY <1>3, <1>4, <3>1
  <2>2. ASSUME NEW i \in DOMAIN a PROVE i \in DOMAIN c /\ c[i] = a[i]
    BY <1>2, <1>3, <1>4
  <2>3. ASSUME NEW i \in DOMAIN c, i \notin DOMAIN a
        PROVE  i > Len(a) /\ i - Len(a) \in DOMAIN b /\ c[i] = b[i - Len(a)]
    BY <1>2, <1>3, <1>4, <2>3
  <2> QED
    BY <2>1, <2>2, <2>3
<1>6. Keys(c, k) = Keys(a, k) \cup Keys(b, k)
  <2>1. \A n \in Keys(a, k) : n \in Keys(c, k)
    BY <1>5 DEF Keys
  <2>2. \A n \in Keys(b, k) : n \in Keys(c, k)
    BY <1>5 DEF Keys
  <2>3. \A n \in Keys(c, k) : n \in Keys(a, k) \cup Keys(b, k)
    BY <1>5 DEF Keys
  <2> QED
    BY <2>1, <2>2, <2>3
<1>7. ASSUME NEW n, n \in Keys(b, k) PROVE ValueOf(c, k, n) = ValueOf(b, k, n)
  <2>1. PICK i \in DOMAIN b : b[i][k] = n /\ \A j \in DOMAIN b : b[j][k] = n => j <= i
    BY <1>7, LastExists
  <2>2. \A j \in DOMAIN b : b[j][k] = b[i][k] => j <= i
    BY <2>1
  <2>3. ValueOf(b, k, n) = b[i].value
    BY <2>1, <2>2, LastDecides
  <2> DEFINE m == Len(a) + i
  <2>4. m \in DOMAIN c /\ c[m] = b[i]
    BY <1>5
  <2>5. ASSUME NEW j \in DOMAIN c, c[j][k] = c[m][k] PROVE j <= m
    <3>1. CASE j \in DOMAIN a
      BY <1>2, <3>1
    <3>2. CASE j \notin DOMAIN a
      <4>1. j - Len(a) \in DOMAIN b /\ c[j] = b[j - Len(a)]
        BY <1>5, <3>2
      <4>2. j - Len(a) <= i
        BY <2>1, <2>4, <2>5, <4>1
      <4> QED
        BY <1>2, <1>4, <4>2
    <3> QED
      BY <3>1, <3>2
  <2> HIDE DEF m
  <2>6. ValueOf(c, k, c[m][k]) = c[m].value
    BY <1>4, <2>4, <2>5, LastDecides
  <2> QED
    BY <2>1, <2>3, <2>4, <2>6
<1>8. ASSUME NEW n, n \notin Keys(b, k), n \in Keys(a, k) PROVE ValueOf(c, k, n) = ValueOf(a, k, n)
  <2>1. PICK i \in DOMAIN a : a[i][k] = n /\ \A j \in DOMAIN a : a[j][k] = n => j <= i
    BY <1>8, LastExists
  <2>2. \A j \in DOMAIN a : a[j][k] = a[i][k] => j <= i
    BY <2>1
  <2>3. ValueOf(a, k, n) = a[i].value
    BY <2>1, <2>2, LastDecides
  <2>4. i \in DOMAIN c /\ c[i] = a[i]
    BY <1>5
  <2>5. ASSUME NEW j \in DOMAIN c, c[j][k] = c[i][k] PROVE j <= i
    <3>1. j \in DOMAIN a
      BY <1>5, <1>8, <2>1, <2>4, <2>5 DEF Keys
    <3> QED
      BY <1>5, <2>1, <2>4, <2>5, <3>1
  <2>6. ValueOf(c, k, c[i][k]) = c[i].value
    BY <1>4, <2>4, <2>5, LastDecides
  <2> QED
    BY <2>1, <2>3, <2>4, <2>6
<1>9. ASSUME NEW n, n \notin Keys(b, k), n \notin Keys(a, k) PROVE ValueOf(c, k, n) = ValueOf(a, k, n)
  <2>1. n \notin Keys(c, k)
    BY <1>6, <1>9
  <2>2. ValueOf(c, k, n) = Absent /\ ValueOf(a, k, n) = Absent
    BY <1>9, <2>1 DEF ValueOf, Keys
  <2> QED
    BY <2>2
<1> QED
  BY <1>4, <1>6, <1>7, <1>8, <1>9 DEF c

\* A list of one entry, and one of none.
LEMMA OneFacts ==
  ASSUME NEW x, NEW k
  PROVE  /\ List(<<x>>) /\ Keys(<<x>>, k) = {x[k]} /\ ValueOf(<<x>>, k, x[k]) = x.value
         /\ Distinct(<<x>>, k)
         /\ List(<<>>) /\ Keys(<<>>, k) = {} /\ Distinct(<<>>, k)
<1> DEFINE l == <<x>>
<1>1. l \in Seq({x}) /\ DOMAIN l = {1} /\ l[1] = x /\ <<>> \in Seq({x}) /\ DOMAIN <<>> = {}
  OBVIOUS
<1> HIDE DEF l
<1>2. List(l) /\ List(<<>>)
  BY <1>1, ListFacts
<1>3. \A j \in DOMAIN l : l[j][k] = l[1][k] => j <= 1
  BY <1>1
<1>4. ValueOf(l, k, l[1][k]) = l[1].value
  BY <1>1, <1>2, <1>3, LastDecides
<1>5. Keys(l, k) = {x[k]} /\ Keys(<<>>, k) = {}
  BY <1>1 DEF Keys
<1>6. Distinct(l, k) /\ Distinct(<<>>, k)
  BY <1>1 DEF Distinct
<1> QED
  BY <1>1, <1>2, <1>4, <1>5, <1>6 DEF l

\* Upsert with the field that is the key.
Put(list, x, k) ==
  LET i == SelectInSeq(list, LAMBDA y : y[k] = x[k])
  IN  IF i = 0 THEN Append(list, x) ELSE [list EXCEPT ![i] = x]

\* In a list without doublets the new entry takes the place of the old one.
LEMMA PutFacts ==
  ASSUME NEW l, List(l), NEW k, Distinct(l, k), NEW x
  PROVE  /\ List(Put(l, x, k)) /\ Distinct(Put(l, x, k), k)
         /\ Keys(Put(l, x, k), k) = Keys(l, k) \cup {x[k]}
         /\ ToSet(Put(l, x, k)) \subseteq ToSet(l) \cup {x}
         /\ \A n : ValueOf(Put(l, x, k), k, n) = IF n = x[k] THEN x.value ELSE ValueOf(l, k, n)
<1> DEFINE I == {i \in 1..Len(l) : l[i][k] = x[k]}
           m == IF I # {} THEN Min(I) ELSE 0
<1>1. Put(l, x, k) = IF m = 0 THEN Append(l, x) ELSE [l EXCEPT ![m] = x]
  BY DEF Put, SelectInSeq
<1>2. Len(l) \in Nat /\ DOMAIN l = 1..Len(l)
  BY ListFacts
<1>3. CASE I = {}
  <2> DEFINE b == <<x>>
             c == l \o b
  <2>1. Put(l, x, k) = c
    <3>1. Append(l, x) = l \o <<x>>
      <4>1. l \in Seq(ToSet(l) \cup {x}) /\ x \in ToSet(l) \cup {x}
        BY SeqMonotonic DEF List
      <4> QED
        BY <4>1, AppendIsConcat
    <3> QED
      BY <1>1, <1>3, <3>1
  <2>2. List(b) /\ Keys(b, k) = {x[k]} /\ ValueOf(b, k, x[k]) = x.value
    BY OneFacts
  <2>3. /\ List(c) /\ Keys(c, k) = Keys(l, k) \cup Keys(b, k)
        /\ \A n : ValueOf(c, k, n) = IF n \in Keys(b, k) THEN ValueOf(b, k, n) ELSE ValueOf(l, k, n)
    BY <2>2, ConcatFacts
  <2>4. Distinct(c, k)
    <3>1. /\ DOMAIN c = 1..(Len(l) + 1)
          /\ \A i \in DOMAIN c : (i \in DOMAIN l /\ c[i] = l[i]) \/ (i = Len(l) + 1 /\ c[i] = x)
      <4>1. l \in Seq(ToSet(l) \cup {x}) /\ b \in Seq(ToSet(l) \cup {x})
        BY SeqMonotonic DEF List
      <4>2. Len(b) = 1 /\ b[1] = x
        OBVIOUS
      <4> HIDE DEF b
      <4>3. /\ Len(c) = Len(l) + 1 /\ c \in Seq(ToSet(l) \cup {x})
            /\ \A i \in 1 .. Len(l) + 1 : c[i] = IF i <= Len(l) THEN l[i] ELSE b[i - Len(l)]
        BY <4>1, <4>2, ConcatProperties
      <4>4. DOMAIN c = 1..(Len(l) + 1)
        BY <4>3, LenProperties
      <4>5. ASSUME NEW i \in 1..(Len(l) + 1), i \notin 1..Len(l) PROVE i = Len(l) + 1 /\ c[i] = x
        <5>1. i = Len(l) + 1 /\ i - Len(l) = 1 /\ ~(i <= Len(l))
          BY <1>2, <4>5
        <5> QED
          BY <4>2, <4>3, <5>1
      <4>6. ASSUME NEW i \in 1..Len(l) PROVE c[i] = l[i]
        BY <1>2, <4>3
      <4> HIDE DEF c
      <4>7. ASSUME NEW i \in DOMAIN c
            PROVE  (i \in DOMAIN l /\ c[i] = l[i]) \/ (i = Len(l) + 1 /\ c[i] = x)
        <5>1. CASE i \in 1..Len(l)
          BY <1>2, <4>6, <5>1
        <5>2. CASE i \notin 1..Len(l)
          BY <4>4, <4>5, <5>2
        <5> QED
          BY <5>1, <5>2
      <4> QED
        BY <4>4, <4>7
    <3>2. \A i \in DOMAIN l : l[i][k] # x[k]
      BY <1>2, <1>3
    <3> HIDE DEF c
    <3> QED
      BY <3>1, <3>2 DEF Distinct
  <2>5. ToSet(c) = ToSet(l) \cup {x}
    <3>1. l \in Seq(ToSet(l) \cup {x}) /\ x \in ToSet(l) \cup {x}
      BY SeqMonotonic DEF List
    <3> QED
      BY <3>1, AppendFacts
  <2> HIDE DEF b, c
  <2> QED
    BY <2>1, <2>2, <2>3, <2>4, <2>5
<1>4. CASE I # {}
  <2>1. I \in SUBSET Nat
    BY <1>2
  <2>2. m \in I
    <3> HIDE DEF I
    <3> QED
      BY <1>4, <2>1, LeastOf
  <2>3. m \in DOMAIN l /\ l[m][k] = x[k] /\ m # 0
    BY <1>2, <2>2
  <2> HIDE DEF m, I
  <2> DEFINE t == [l EXCEPT ![m] = x]
  <2>4. List(t) /\ DOMAIN t = DOMAIN l
    <3>1. l \in Seq(ToSet(l) \cup {x}) /\ x \in ToSet(l) \cup {x}
      BY SeqMonotonic DEF List
    <3>2. t \in Seq(ToSet(l) \cup {x})
      BY <1>2, <2>3, <3>1, ExceptSeq
    <3> QED
      BY <3>2, ListFacts
  <2>5. \A i \in DOMAIN l : t[i] = IF i = m THEN x ELSE l[i]
    OBVIOUS
  <2> HIDE DEF t
  <2>6. \A i \in DOMAIN l : t[i][k] = l[i][k]
    BY <2>3, <2>5
  <2>7. Distinct(t, k)
    BY <2>4, <2>6 DEF Distinct
  <2>8. Keys(t, k) = Keys(l, k) /\ x[k] \in Keys(l, k)
    BY <2>3, <2>4, <2>6 DEF Keys
  <2>9. ASSUME NEW i \in DOMAIN l PROVE ValueOf(t, k, l[i][k]) = t[i].value /\ ValueOf(l, k, l[i][k]) = l[i].value
    <3>1. /\ \A j \in DOMAIN l : l[j][k] = l[i][k] => j <= i
          /\ \A j \in DOMAIN t : t[j][k] = t[i][k] => j <= i
      <4>1. i <= i
        BY <1>2
      <4> QED
        BY <2>4, <2>7, <4>1 DEF Distinct
    <3>2. ValueOf(l, k, l[i][k]) = l[i].value
      BY <3>1, LastDecides
    <3>3. ValueOf(t, k, t[i][k]) = t[i].value
      BY <2>4, <3>1, LastDecides
    <3> QED
      BY <2>6, <3>2, <3>3
  <2>10. ASSUME NEW n PROVE ValueOf(t, k, n) = IF n = x[k] THEN x.value ELSE ValueOf(l, k, n)
    <3>1. CASE n \in Keys(l, k)
      <4>1. PICK i \in DOMAIN l : l[i][k] = n
        BY <3>1 DEF Keys
      <4>2. n = x[k] <=> i = m
        BY <2>3, <4>1 DEF Distinct
      <4> QED
        BY <2>5, <2>9, <4>1, <4>2
    <3>2. CASE n \notin Keys(l, k)
      <4>1. ValueOf(l, k, n) = Absent /\ ValueOf(t, k, n) = Absent
        BY <2>8, <3>2 DEF ValueOf, Keys
      <4> QED
        BY <2>8, <3>2, <4>1
    <3> QED
      BY <3>1, <3>2
  <2>11. Put(l, x, k) = t
    BY <1>1, <2>3 DEF t
  <2>12. ToSet(t) \subseteq ToSet(l) \cup {x}
    BY <2>4, <2>5 DEF ToSet
  <2> QED
    BY <2>4, <2>7, <2>8, <2>10, <2>11, <2>12
<1> QED
  BY <1>3, <1>4

\* The first n entries of a list.
Prefix(l, n) == [i \in 1..n |-> l[i]]

\* A list grows by one entry after the other.
LEMMA PrefixFacts ==
  ASSUME NEW l, List(l)
  PROVE  /\ Prefix(l, 0) = <<>> /\ Prefix(l, Len(l)) = l
         /\ \A n \in 0..Len(l) : List(Prefix(l, n))
         /\ \A n \in 1..Len(l) : Prefix(l, n) = Prefix(l, n - 1) \o <<l[n]>>
<1>1. Len(l) \in Nat /\ DOMAIN l = 1..Len(l) /\ \A i \in 1..Len(l) : l[i] \in ToSet(l)
  BY ListFacts
<1>2. l \in Seq(ToSet(l))
  BY DEF List
<1>3. Prefix(l, 0) = <<>>
  BY DEF Prefix
<1>4. ASSUME NEW n \in 0..Len(l) PROVE Prefix(l, n) \in Seq(ToSet(l)) /\ Len(Prefix(l, n)) = n
  <2>1. n \in Nat /\ \A i \in 1..n : l[i] \in ToSet(l)
    BY <1>1
  <2> QED
    BY <2>1 DEF Prefix
<1>5. Prefix(l, Len(l)) = l
  <2>1. Len(l) \in 0..Len(l)
    BY <1>1
  <2>2. \A i \in 1..Len(l) : Prefix(l, Len(l))[i] = l[i]
    BY DEF Prefix
  <2>3. Prefix(l, Len(l)) \in Seq(ToSet(l)) /\ Len(Prefix(l, Len(l))) = Len(l)
    BY <1>4, <2>1
  <2> QED
    BY <1>2, <2>2, <2>3, SeqEqual
<1>6. ASSUME NEW n \in 1..Len(l) PROVE Prefix(l, n) = Prefix(l, n - 1) \o <<l[n]>>
  <2> DEFINE a == Prefix(l, n - 1)
             b == <<l[n]>>
             c == Prefix(l, n)
  <2>1. n \in 0..Len(l) /\ n - 1 \in 0..Len(l) /\ l[n] \in ToSet(l)
    BY <1>1
  <2>2. a \in Seq(ToSet(l)) /\ Len(a) = n - 1 /\ c \in Seq(ToSet(l)) /\ Len(c) = n
    BY <1>4, <2>1
  <2>3. b \in Seq(ToSet(l)) /\ Len(b) = 1 /\ b[1] = l[n]
    BY <2>1
  <2>4. (\A i \in 1..(n - 1) : a[i] = l[i]) /\ (\A i \in 1..n : c[i] = l[i])
    BY DEF Prefix
  <2> HIDE DEF a, b, c
  <2>5. /\ a \o b \in Seq(ToSet(l)) /\ Len(a \o b) = (n - 1) + 1
        /\ \A i \in 1..((n - 1) + 1) : (a \o b)[i] = IF i <= n - 1 THEN a[i] ELSE b[i - (n - 1)]
    <3>1. /\ a \o b \in Seq(ToSet(l)) /\ Len(a \o b) = Len(a) + Len(b)
          /\ \A i \in 1 .. Len(a) + Len(b) : (a \o b)[i] = IF i <= Len(a) THEN a[i] ELSE b[i - Len(a)]
      BY <2>2, <2>3, ConcatProperties
    <3> QED
      BY <2>2, <2>3, <3>1
  <2>6. (n - 1) + 1 = n
    BY <2>1
  <2>7. ASSUME NEW i \in 1..n PROVE (a \o b)[i] = c[i]
    <3>1. CASE i <= n - 1
      <4>1. i \in 1..(n - 1)
        BY <1>1, <3>1
      <4> QED
        BY <2>4, <2>5, <2>6, <3>1, <4>1
    <3>2. CASE ~(i <= n - 1)
      <4>1. i = n /\ i - (n - 1) = 1
        BY <1>1, <3>2
      <4> QED
        BY <2>3, <2>4, <2>5, <2>6, <3>2, <4>1
    <3> QED
      BY <3>1, <3>2
  <2>8. c = a \o b
    BY <2>2, <2>5, <2>6, <2>7, SeqEqual
  <2> QED
    BY <2>8 DEF a, b, c
<1> QED
  BY <1>3, <1>4, <1>5, <1>6, ListFacts

\* What WithoutEnv leaves: everything under other names, in its order.
LEMMA DropFacts ==
  ASSUME NEW list, List(list), NEW name
  PROVE  /\ List(DropName(list, name))
         /\ Keys(DropName(list, name), "name") = Keys(list, "name") \ {name}
         /\ \A n : n # name => ValueOf(DropName(list, name), "name", n) = ValueOf(list, "name", n)
<1> DEFINE N == Len(list)
           S == ToSet(list)
           keep == {x \in ToSet(list) : x.name # name}
           parts == [n \in DOMAIN list |-> IF list[n] \in keep THEN <<list[n]>> ELSE <<>>]
<1>1. N \in Nat /\ DOMAIN list = 1..N /\ \A n \in 1..N : list[n] \in S
  BY ListFacts
<1>2. parts \in Seq(Seq(S)) /\ Len(parts) = N
  <2>1. \A n \in 1..N : (IF list[n] \in keep THEN <<list[n]>> ELSE <<>>) \in Seq(S)
    BY <1>1
  <2> QED
    BY <1>1, <2>1
<1>3. \A n \in 1..N : parts[n] = IF list[n].name # name THEN <<list[n]>> ELSE <<>>
  BY <1>1
<1>4. DropName(list, name) = FlattenSeq(parts)
  BY DEF DropName, Value, Filter
<1> HIDE DEF parts, keep
<1> DEFINE Left(r, l) == /\ List(r) /\ Keys(r, "name") = Keys(l, "name") \ {name}
                         /\ \A n : n # name => ValueOf(r, "name", n) = ValueOf(l, "name", n)
<1>5. Left(<<>>, <<>>)
  BY OneFacts
<1>6. ASSUME NEW r, NEW l, Left(r, l), List(l), NEW x, x.name # name PROVE Left(r \o <<x>>, l \o <<x>>)
  <2> DEFINE b == <<x>>
  <2>1. List(b) /\ Keys(b, "name") = {x.name}
    BY OneFacts
  <2> HIDE DEF b
  <2>2. /\ List(r \o b) /\ Keys(r \o b, "name") = Keys(r, "name") \cup Keys(b, "name")
        /\ \A n : ValueOf(r \o b, "name", n) = IF n \in Keys(b, "name") THEN ValueOf(b, "name", n) ELSE ValueOf(r, "name", n)
    BY <1>6, <2>1, ConcatFacts
  <2>3. /\ Keys(l \o b, "name") = Keys(l, "name") \cup Keys(b, "name")
        /\ \A n : ValueOf(l \o b, "name", n) = IF n \in Keys(b, "name") THEN ValueOf(b, "name", n) ELSE ValueOf(l, "name", n)
    BY <1>6, <2>1, ConcatFacts
  <2>4. Left(r \o b, l \o b)
    BY <1>6, <2>1, <2>2, <2>3
  <2> HIDE DEF Left
  <2> QED
    BY <2>4 DEF b
<1>7. ASSUME NEW r, NEW l, Left(r, l), List(l), NEW x, x.name = name PROVE Left(r, l \o <<x>>)
  <2> DEFINE b == <<x>>
  <2>1. List(b) /\ Keys(b, "name") = {x.name}
    BY OneFacts
  <2> HIDE DEF b
  <2>3. /\ Keys(l \o b, "name") = Keys(l, "name") \cup Keys(b, "name")
        /\ \A n : ValueOf(l \o b, "name", n) = IF n \in Keys(b, "name") THEN ValueOf(b, "name", n) ELSE ValueOf(l, "name", n)
    BY <1>7, <2>1, ConcatFacts
  <2>4. Left(r, l \o b)
    BY <1>7, <2>1, <2>3
  <2> HIDE DEF Left
  <2> QED
    BY <2>4 DEF b
<1> HIDE DEF Left
<1>8. CASE N = 0
  <2>1. FlattenSeq(parts) = parts /\ parts = <<>>
    BY <1>2, <1>8, EmptySeq DEF FlattenSeq
  <2>2. list = <<>>
    BY <1>8, PrefixFacts
  <2>3. Left(FlattenSeq(parts), list)
    BY <1>5, <2>1, <2>2
  <2> QED
    BY <1>4, <2>3 DEF Left
<1>9. CASE N # 0
  <2> DEFINE f == CHOOSE f : f = [i \in 1..Len(parts) |-> IF i = 1 THEN parts[i] ELSE f[i - 1] \o parts[i]]
  <2>1. f = [i \in 1..Len(parts) |-> IF i = 1 THEN parts[i] ELSE f[i - 1] \o parts[i]]
    <3>1. Len(parts) \in Nat
      BY <1>1, <1>2
    <3> QED
      BY <3>1, FlattenLoop
  <2>2. FlattenSeq(parts) = f[N]
    BY <1>2, <1>9 DEF FlattenSeq
  <2> HIDE DEF f
  <2> DEFINE T == {n \in Nat : n \in 1..N /\ ~Left(f[n], Prefix(list, n))}
  <2>3. CASE T # {}
    <3>1. PICK m \in T : m = 0 \/ m - 1 \in Nat \ T
      <4>1. T \in SUBSET Nat
        OBVIOUS
      <4> HIDE DEF T
      <4> QED
        BY <2>3, <4>1, FirstOf
    <3>2. m \in 1..N /\ m \in Nat /\ ~Left(f[m], Prefix(list, m))
      BY <3>1
    <3> DEFINE r == IF m = 1 THEN <<>> ELSE f[m - 1]
               l == Prefix(list, m - 1)
               x == list[m]
    <3>3. Left(r, l) /\ List(l) /\ Prefix(list, m) = l \o <<x>>
      <4>1. m - 1 \in 0..N
        BY <1>1, <3>2
      <4>2. List(l) /\ Prefix(list, m) = l \o <<x>>
        BY <3>2, <4>1, PrefixFacts
      <4>3. CASE m = 1
        <5>1. l = <<>>
          BY <4>3, PrefixFacts
        <5> QED
          BY <1>5, <4>2, <4>3, <5>1
      <4>4. CASE m # 1
        <5>1. m - 1 \in 1..N /\ m - 1 \in Nat
          BY <1>1, <3>2, <4>4
        <5> QED
          BY <3>1, <3>2, <4>2, <4>4, <5>1
      <4> QED
        BY <4>3, <4>4
    <3>4. f[m] = IF m = 1 THEN parts[m] ELSE r \o parts[m]
      BY <1>1, <1>2, <2>1, <3>2
    <3>5. parts[m] \in Seq(S) /\ (m = 1 => r = <<>>)
      BY <1>2, <3>2, ElementOfSeq
    <3> HIDE DEF r, l
    <3>6. f[m] = r \o parts[m]
      BY <3>4, <3>5, ConcatEmptySeq
    <3>7. CASE x.name = name
      <4>1. parts[m] = <<>> /\ r \in Seq(ToSet(r))
        BY <1>3, <3>2, <3>3, <3>7 DEF Left, List
      <4>2. f[m] = r
        BY <3>6, <4>1, ConcatEmptySeq
      <4> QED
        BY <1>7, <3>2, <3>3, <3>7, <4>2
    <3>8. CASE x.name # name
      <4>1. parts[m] = <<x>>
        BY <1>3, <3>2, <3>8
      <4> QED
        BY <1>6, <3>2, <3>3, <3>6, <3>8, <4>1
    <3> QED
      BY <3>7, <3>8
  <2>4. CASE T = {}
    <3>1. N \in 1..N /\ N \in Nat
      BY <1>1, <1>9
    <3>2. Left(f[N], Prefix(list, N))
      BY <2>4, <3>1
    <3>3. Left(f[N], list)
      BY <3>2, PrefixFacts
    <3> QED
      BY <1>4, <2>2, <3>3 DEF Left
  <2> QED
    BY <2>3, <2>4
<1> QED
  BY <1>8, <1>9

\* The loop that puts the entries of a list into another.
ArePuts(a, first, list, N, k) ==
  a = [i \in 0..N |-> IF i = 0 THEN {first} ELSE {Put(r, list[i], k) : r \in a[i - 1]}]

\* It has its intermediate results.
LEMMA PutLoop ==
  ASSUME NEW first, NEW list, NEW N \in Nat, NEW k
  PROVE  \E a : ArePuts(a, first, list, N, k)
<1> USE DEF ArePuts
<1> DEFINE Is(a, m) == a = [i \in 0..m |-> IF i = 0 THEN {first}
                                           ELSE {Put(r, list[i], k) : r \in a[i - 1]}]
<1> DEFINE T == {m \in Nat : ~\E a : Is(a, m)}
<1>1. CASE T # {}
  <2>1. PICK m \in T : m = 0 \/ m - 1 \in Nat \ T
    <3> HIDE DEF T
    <3>1. T \in SUBSET Nat
      BY DEF T
    <3> QED
      BY <1>1, <3>1, FirstOf
  <2>2. CASE m = 0
    <3>1. Is([i \in 0..0 |-> {first}], 0)
      OBVIOUS
    <3> QED
      BY <2>2, <3>1
  <2>3. CASE m # 0
    <3>1. m \in Nat /\ m - 1 \in Nat
      BY <2>1, <2>3
    <3>2. PICK a : Is(a, m - 1)
      BY <2>1, <2>3
    <3> DEFINE g == [i \in 0..m |-> IF i = m THEN {Put(r, list[m], k) : r \in a[m - 1]} ELSE a[i]]
    <3>3. ASSUME NEW i \in 0..m
          PROVE  g[i] = IF i = 0 THEN {first} ELSE {Put(r, list[i], k) : r \in g[i - 1]}
      <4>1. CASE i = m
        <5>1. g[i] = {Put(r, list[m], k) : r \in a[m - 1]} /\ g[m - 1] = a[m - 1]
          BY <3>1, <4>1
        <5> QED
          BY <2>3, <4>1, <5>1
      <4>2. CASE i # m
        <5>1. i \in 0..(m - 1) /\ g[i] = a[i] /\ (i # 0 => g[i - 1] = a[i - 1])
          BY <3>1, <4>2
        <5>2. a[i] = IF i = 0 THEN {first} ELSE {Put(r, list[i], k) : r \in a[i - 1]}
          BY <3>2, <5>1
        <5> QED
          BY <5>1, <5>2
      <4> QED
        BY <4>1, <4>2
    <3>4. Is(g, m)
      BY <3>3
    <3> QED
      BY <3>4
  <2> QED
    BY <2>2, <2>3
<1>2. CASE T = {}
  BY <1>2
<1> QED
  BY <1>1, <1>2

\* Putting the entries of one list into another without doublets.
Merged(base, over, k) == Loop(LAMBDA r, x : Put(r, x, k), base, over)
IsMerged(r, base, over, k) ==
  /\ List(r) /\ Distinct(r, k) /\ Keys(r, k) = Keys(base, k) \cup Keys(over, k)
  /\ \A n : ValueOf(r, k, n) = IF n \in Keys(over, k) THEN ValueOf(over, k, n)
                                                       ELSE ValueOf(base, k, n)

\* No key comes twice, and where the second list has the key it decides.
LEMMA PutsFacts ==
  ASSUME NEW base, NEW over, NEW k, List(base), List(over), Distinct(base, k)
  PROVE  /\ IsMerged(Merged(base, over, k), base, over, k)
         /\ ToSet(Merged(base, over, k)) \subseteq ToSet(base) \cup ToSet(over)
<1> DEFINE N == Len(over)
           a == CHOOSE a : a = [i \in 0..Len(over) |->
                       IF i = 0 THEN {base} ELSE {Put(r, over[i], k) : r \in a[i - 1]}]
<1>1. N \in Nat /\ DOMAIN over = 1..N
  BY ListFacts
<1>2. Merged(base, over, k) = Value(a[N])
  BY DEF Merged, Loop
<1>3. a = [i \in 0..Len(over) |-> IF i = 0 THEN {base} ELSE {Put(r, over[i], k) : r \in a[i - 1]}]
  <2>1. \E b : ArePuts(b, base, over, Len(over), k)
    BY <1>1, PutLoop
  <2> QED
    BY <2>1, Zenon DEF ArePuts
<1> HIDE DEF a
<1>4. IsMerged(base, base, <<>>, k)
  BY OneFacts DEF IsMerged
<1>5. ASSUME NEW v, NEW l, IsMerged(v, base, l, k), List(l), NEW x
      PROVE  IsMerged(Put(v, x, k), base, l \o <<x>>, k)
  <2> DEFINE b == <<x>>
             p == Put(v, x, k)
  <2>1. List(b) /\ Keys(b, k) = {x[k]} /\ ValueOf(b, k, x[k]) = x.value
    BY OneFacts
  <2> HIDE DEF b
  <2>2. /\ Keys(l \o b, k) = Keys(l, k) \cup Keys(b, k)
        /\ \A n : ValueOf(l \o b, k, n) = IF n \in Keys(b, k) THEN ValueOf(b, k, n) ELSE ValueOf(l, k, n)
    BY <1>5, <2>1, ConcatFacts
  <2>3. /\ List(p) /\ Distinct(p, k) /\ Keys(p, k) = Keys(v, k) \cup {x[k]}
        /\ \A n : ValueOf(p, k, n) = IF n = x[k] THEN x.value ELSE ValueOf(v, k, n)
    BY <1>5, PutFacts DEF IsMerged
  <2> HIDE DEF p
  <2>4. IsMerged(p, base, l \o b, k)
    BY <1>5, <2>1, <2>2, <2>3 DEF IsMerged
  <2> QED
    BY <2>4 DEF p, b
<1> DEFINE Right(n) == \E v : /\ a[n] = {v} /\ IsMerged(v, base, Prefix(over, n), k)
                              /\ ToSet(v) \subseteq ToSet(base) \cup ToSet(over)
           T == {n \in Nat : n <= N /\ ~Right(n)}
<1>6. CASE T # {}
  <2>1. PICK m \in T : m = 0 \/ m - 1 \in Nat \ T
    <3>1. T \in SUBSET Nat
      OBVIOUS
    <3> HIDE DEF T
    <3> QED
      BY <1>6, <3>1, FirstOf
  <2>2. m \in Nat /\ m <= N /\ ~Right(m)
    BY <2>1
  <2>3. CASE m = 0
    <3>1. a[0] = {base} /\ Prefix(over, 0) = <<>>
      BY <1>1, <1>3, PrefixFacts
    <3> QED
      BY <1>4, <2>2, <2>3, <3>1
  <2>4. CASE m # 0
    <3>1. m - 1 \in Nat /\ m - 1 <= N /\ m \in 1..N /\ m \in 0..Len(over) /\ m - 1 \in 0..Len(over)
      BY <1>1, <2>2, <2>4
    <3>2. PICK v : /\ a[m - 1] = {v} /\ IsMerged(v, base, Prefix(over, m - 1), k)
                   /\ ToSet(v) \subseteq ToSet(base) \cup ToSet(over)
      <4> HIDE DEF Right
      <4>1. Right(m - 1)
        BY <2>1, <2>4, <3>1
      <4> QED
        BY <4>1 DEF Right
    <3>3. a[m] = {Put(r, over[m], k) : r \in a[m - 1]}
      BY <1>3, <2>4, <3>1
    <3>4. a[m] = {Put(v, over[m], k)}
      BY <3>2, <3>3
    <3>5. List(Prefix(over, m - 1)) /\ Prefix(over, m) = Prefix(over, m - 1) \o <<over[m]>>
      BY <3>1, PrefixFacts
    <3>6. IsMerged(Put(v, over[m], k), base, Prefix(over, m), k)
      BY <1>5, <3>2, <3>5
    <3>7. ToSet(Put(v, over[m], k)) \subseteq ToSet(base) \cup ToSet(over)
      <4>1. over[m] \in ToSet(over)
        BY <1>1, <3>1 DEF ToSet
      <4>2. ToSet(Put(v, over[m], k)) \subseteq ToSet(v) \cup {over[m]}
        BY <3>2, PutFacts DEF IsMerged
      <4> QED
        BY <3>2, <4>1, <4>2
    <3> QED
      BY <2>2, <3>4, <3>6, <3>7
  <2> QED
    BY <2>3, <2>4
<1>7. CASE T = {}
  <2>1. Right(N)
    <3> HIDE DEF Right
    <3>1. N <= N
      BY <1>1
    <3> QED
      BY <1>1, <1>7, <3>1
  <2>2. PICK v : /\ a[N] = {v} /\ IsMerged(v, base, Prefix(over, N), k)
                 /\ ToSet(v) \subseteq ToSet(base) \cup ToSet(over)
    BY <2>1
  <2>3. Value(a[N]) = v
    BY <2>2 DEF Value
  <2> QED
    BY <1>2, <2>2, <2>3, PrefixFacts
<1> QED
  BY <1>6, <1>7

\* The two loops of mergeContainerList.
LEMMA MergeIsPuts ==
  ASSUME NEW base, NEW over
  PROVE  /\ mergeEnvByName(base, over) = Merged(base, over, "name")
         /\ Loop(LAMBDA args, a : Upsert(args, a, argKey), base, over) = Merged(base, over, "flag")
BY DEF mergeEnvByName, Merged, Loop, Upsert, Put, Name, argKey, SelectInSeq

\* The environment of a container, in the terms of CustomisedAsSpecified.
LEMMA EffectiveFacts ==
  ASSUME NEW env
  PROVE  /\ \A n : Effective(env, n) = ValueOf(env, "name", n)
         /\ DOMAIN AsFunction(env) = Keys(env, "name")
         /\ \A n \in Keys(env, "name") : AsFunction(env)[n] = ValueOf(env, "name", n)
<1>1. \A n : Effective(env, n) = ValueOf(env, "name", n)
  BY DEF Effective, ValueOf
<1>2. /\ DOMAIN AsFunction(env) = Keys(env, "name")
      /\ \A n \in Keys(env, "name") : AsFunction(env)[n] = Effective(env, n)
  BY DEF AsFunction, Keys
<1> QED
  BY <1>1, <1>2

-----------------------------------------------------------------------------
(* The overlays of the managers *)

\* What the options make of an environment.
LEMMA OptionFacts ==
  ASSUME NEW env, List(env), NEW name, NEW value
  PROVE  /\ List(WithEnv(env, name, value))
         /\ Keys(WithEnv(env, name, value), "name") = Keys(env, "name") \cup {name}
         /\ \A n : ValueOf(WithEnv(env, name, value), "name", n)
                     = IF n = name THEN value ELSE ValueOf(env, "name", n)
         /\ List(WithEnvOverride(env, name, value))
         /\ Keys(WithEnvOverride(env, name, value), "name") = Keys(env, "name") \cup {name}
         /\ \A n : ValueOf(WithEnvOverride(env, name, value), "name", n)
                     = IF n = name THEN value ELSE ValueOf(env, "name", n)
<1>1. ASSUME NEW e, List(e)
      PROVE  /\ List(WithEnv(e, name, value))
             /\ Keys(WithEnv(e, name, value), "name") = Keys(e, "name") \cup {name}
             /\ \A n : ValueOf(WithEnv(e, name, value), "name", n)
                         = IF n = name THEN value ELSE ValueOf(e, "name", n)
  <2> DEFINE x == EnvVar(name, value)
             b == <<x>>
  <2>1. x.name = name /\ x.value = value
    BY DEF EnvVar
  <2>2. WithEnv(e, name, value) = e \o b
    <3>1. e \in Seq(ToSet(e) \cup {x}) /\ x \in ToSet(e) \cup {x}
      BY <1>1, SeqMonotonic DEF List
    <3> QED
      BY <3>1, AppendIsConcat DEF WithEnv
  <2> HIDE DEF x
  <2>3. List(b) /\ Keys(b, "name") = {name} /\ ValueOf(b, "name", name) = value
    BY <2>1, OneFacts
  <2> HIDE DEF b
  <2>4. /\ List(e \o b) /\ Keys(e \o b, "name") = Keys(e, "name") \cup Keys(b, "name")
        /\ \A n : ValueOf(e \o b, "name", n) = IF n \in Keys(b, "name") THEN ValueOf(b, "name", n)
                                                                       ELSE ValueOf(e, "name", n)
    BY <1>1, <2>3, ConcatFacts
  <2> QED
    BY <2>2, <2>3, <2>4
<1> DEFINE d == WithoutEnv(env, name)
<1>2. /\ List(d) /\ Keys(d, "name") = Keys(env, "name") \ {name}
      /\ \A n : n # name => ValueOf(d, "name", n) = ValueOf(env, "name", n)
  BY DropFacts DEF WithoutEnv
<1>3. WithEnvOverride(env, name, value) = WithEnv(d, name, value)
  BY DEF WithEnvOverride
<1> HIDE DEF d
<1>4. /\ List(WithEnv(d, name, value))
      /\ Keys(WithEnv(d, name, value), "name") = Keys(d, "name") \cup {name}
      /\ \A n : ValueOf(WithEnv(d, name, value), "name", n)
                  = IF n = name THEN value ELSE ValueOf(d, "name", n)
  BY <1>1, <1>2
<1> QED
  BY <1>1, <1>2, <1>3, <1>4

\* The environment of the user comes after the defaults of the platform.
LEMMA UserFacts ==
  ASSUME NEW env, List(env), NEW c, List(c.env)
  PROVE  /\ List(FromContainerSpec(env, c))
         /\ Keys(FromContainerSpec(env, c), "name") = Keys(env, "name") \cup Keys(c.env, "name")
         /\ \A n : ValueOf(FromContainerSpec(env, c), "name", n)
                     = IF n \in Keys(c.env, "name") THEN ValueOf(c.env, "name", n)
                                                    ELSE ValueOf(env, "name", n)
BY ConcatFacts DEF FromContainerSpec

\* An overlay's environment has the settings of the typed fields, then those of
\* the user, then those of the platform.
Layered(env, typed, user, platform) ==
  /\ List(env)
  /\ Keys(env, "name") \subseteq DOMAIN typed \cup Keys(user, "name") \cup DOMAIN platform
  /\ \A n \in DOMAIN typed :
       IF n \in Keys(env, "name") THEN ValueOf(env, "name", n) = typed[n]
                                  ELSE typed[n] = Absent /\ n \notin Keys(ManifestEnv, "name")
  /\ \A n \in Keys(user, "name") \ DOMAIN typed :
       n \in Keys(env, "name") /\ ValueOf(env, "name", n) = ValueOf(user, "name", n)
  /\ \A n \in DOMAIN platform \ (DOMAIN typed \cup Keys(user, "name")) :
       n \in Keys(env, "name") /\ ValueOf(env, "name", n) = platform[n]

\* The embedded manifests set nothing twice.
LEMMA ManifestFacts ==
  ASSUME operand \in AllOperands
  PROVE  /\ List(ManifestEnv) /\ Distinct(ManifestEnv, "name")
         /\ List(ManifestArgs) /\ Distinct(ManifestArgs, "flag")
<1>1. \A x, k : List(<<x>>) /\ Distinct(<<x>>, k) /\ List(<<>>) /\ Distinct(<<>>, k)
  BY OneFacts
<1>2. List(ManifestEnv) /\ Distinct(ManifestEnv, "name")
  <2>1. CASE operand = "lister"
    BY <1>1, <2>1 DEF ManifestEnv
  <2>2. CASE operand = "release"
    BY <1>1, <2>2 DEF ManifestEnv
  <2>3. CASE operand \notin {"lister", "release"}
    BY <1>1, <2>3 DEF ManifestEnv
  <2> QED
    BY <2>1, <2>2, <2>3
<1>3. List(ManifestArgs) /\ Distinct(ManifestArgs, "flag")
  <2>1. CASE operand = "lister"
    BY <1>1, <2>1 DEF ManifestArgs
  <2>2. CASE operand # "lister"
    <3> DEFINE x == Arg("leader-elect", IF operand = "integration" THEN "" ELSE "false")
               y == Arg("health-probe", "8081")
               l == <<x, y>>
    <3>1. ManifestArgs = l
      BY <2>2 DEF ManifestArgs
    <3>2. x.flag = "leader-elect" /\ y.flag = "health-probe"
      BY DEF Arg
    <3> HIDE DEF x, y
    <3>3. l \in Seq({x, y}) /\ DOMAIN l = {1, 2} /\ l[1] = x /\ l[2] = y
      OBVIOUS
    <3> HIDE DEF l
    <3>4. List(l)
      BY <3>3, ListFacts
    <3>5. Distinct(l, "flag")
      BY <3>2, <3>3 DEF Distinct
    <3> QED
      BY <3>1, <3>4, <3>5
  <2> QED
    BY <2>1, <2>2
<1> QED
  BY <1>2, <1>3

\* What an overlay makes of the Pod of a manager.
LEMMA PodFacts ==
  ASSUME operand \in AllOperands, NEW env, NEW resources, NEW args, NEW volumes, List(env), List(args)
  PROVE  LET pod == ApplyToPodTemplateSpec(ManifestPod, PodOverlay(env, resources, args, volumes))
         IN  /\ IsMerged(pod.env, ManifestEnv, env, "name")
             /\ IsMerged(pod.args, ManifestArgs, args, "flag")
             /\ ToSet(pod.args) \subseteq ToSet(ManifestArgs) \cup ToSet(args)
             /\ pod.volumes = applyConfigMapVolumeUpdates(ManifestVolumes, volumes)
<1> DEFINE o == PodOverlay(env, resources, args, volumes)
           pod == ApplyToPodTemplateSpec(ManifestPod, o)
<1>1. o.env = env /\ o.args = args /\ o.volumes = volumes
  BY DEF PodOverlay
<1> HIDE DEF o
<1>2. /\ pod.env = mergeEnvByName(ManifestEnv, env)
      /\ pod.args = Loop(LAMBDA as, a : Upsert(as, a, argKey), ManifestArgs, args)
      /\ pod.volumes = applyConfigMapVolumeUpdates(ManifestVolumes, volumes)
  BY <1>1 DEF ApplyToPodTemplateSpec, mergeContainerList, ManifestPod
<1>3. pod.env = Merged(ManifestEnv, env, "name") /\ pod.args = Merged(ManifestArgs, args, "flag")
  BY <1>2, MergeIsPuts
<1> HIDE DEF pod
<1>4. /\ IsMerged(pod.env, ManifestEnv, env, "name") /\ IsMerged(pod.args, ManifestArgs, args, "flag")
      /\ ToSet(pod.args) \subseteq ToSet(ManifestArgs) \cup ToSet(args)
  BY <1>3, ManifestFacts, PutsFacts
<1> QED
  BY <1>2, <1>4 DEF pod, o

\* An overlay with its layers gives the effective environment its layers.
LEMMA LayerFacts ==
  ASSUME NEW env, NEW typed, NEW user, NEW platform, Layered(env, typed, user, platform),
         NEW result, IsMerged(result, ManifestEnv, env, "name")
  PROVE  LET layers == Over(typed, Over(AsFunction(user), Over(platform, AsFunction(ManifestEnv))))
         IN  /\ \A n \in DOMAIN layers : Effective(result, n) = layers[n]
             /\ \A e \in ToSet(result) : e.name \in DOMAIN layers
             /\ \A i, j \in DOMAIN result : result[i].name = result[j].name => i = j
<1> DEFINE U == AsFunction(user)
           M == AsFunction(ManifestEnv)
           layers == Over(typed, Over(U, Over(platform, M)))
<1>1. /\ DOMAIN U = Keys(user, "name")
      /\ \A n \in Keys(user, "name") : U[n] = ValueOf(user, "name", n)
      /\ DOMAIN M = Keys(ManifestEnv, "name")
      /\ \A n \in Keys(ManifestEnv, "name") : M[n] = ValueOf(ManifestEnv, "name", n)
  BY EffectiveFacts
<1> HIDE DEF U, M
<1>2. \A n : Effective(result, n) = ValueOf(result, "name", n)
  BY EffectiveFacts
<1>3. DOMAIN layers = DOMAIN typed \cup (DOMAIN U \cup (DOMAIN platform \cup DOMAIN M))
  BY DEF Over
<1>4. \A n \in DOMAIN layers :
        layers[n] = IF n \in DOMAIN typed THEN typed[n]
                    ELSE IF n \in DOMAIN U THEN U[n]
                    ELSE IF n \in DOMAIN platform THEN platform[n] ELSE M[n]
  BY DEF Over
<1> HIDE DEF layers
<1>5. /\ Keys(result, "name") = Keys(ManifestEnv, "name") \cup Keys(env, "name")
      /\ \A n : ValueOf(result, "name", n) = IF n \in Keys(env, "name") THEN ValueOf(env, "name", n)
                                                                      ELSE ValueOf(ManifestEnv, "name", n)
  BY DEF IsMerged
<1>6. \A n : n \notin Keys(ManifestEnv, "name") => ValueOf(ManifestEnv, "name", n) = Absent
  BY DEF ValueOf, Keys
<1>7. ASSUME NEW n \in DOMAIN layers PROVE Effective(result, n) = layers[n]
  <2>1. CASE n \in DOMAIN typed
    BY <1>2, <1>4, <1>5, <1>6, <2>1 DEF Layered
  <2>2. CASE n \notin DOMAIN typed /\ n \in Keys(user, "name")
    BY <1>1, <1>2, <1>4, <1>5, <2>2 DEF Layered
  <2>3. CASE n \notin DOMAIN typed /\ n \notin Keys(user, "name") /\ n \in DOMAIN platform
    BY <1>1, <1>2, <1>4, <1>5, <2>3 DEF Layered
  <2>4. CASE n \notin DOMAIN typed /\ n \notin Keys(user, "name") /\ n \notin DOMAIN platform
    <3>1. n \notin Keys(env, "name")
      BY <2>4 DEF Layered
    <3> QED
      BY <1>1, <1>2, <1>3, <1>4, <1>5, <2>4, <3>1
  <2> QED
    BY <2>1, <2>2, <2>3, <2>4
<1>8. ASSUME NEW e \in ToSet(result) PROVE e.name \in DOMAIN layers
  <2>1. e.name \in Keys(result, "name")
    BY DEF ToSet, Keys
  <2> QED
    BY <1>1, <1>3, <1>5, <2>1 DEF Layered
<1>9. \A i, j \in DOMAIN result : result[i].name = result[j].name => i = j
  BY DEF IsMerged, Distinct
<1> QED
  BY <1>7, <1>8, <1>9 DEF layers, U, M

\* Every element is an argument.
AreArgs(list) == \A a \in ToSet(list) : a = Arg(a.flag, a.value)

\* Several replicas elect a leader.
LEMMA LeaderFacts ==
  ASSUME NEW args, List(args), AreArgs(args), NEW replicas
  PROVE  LET new == WithLeaderElection(args, replicas)
         IN  /\ List(new) /\ AreArgs(new)
             /\ replicas > 1 => /\ "leader-elect" \in Keys(new, "flag")
                                /\ ValueOf(new, "flag", "leader-elect") = "true"
<1> DEFINE x == Arg("leader-elect", "true")
           b == <<x>>
           new == WithLeaderElection(args, replicas)
<1>1. x.flag = "leader-elect" /\ x.value = "true" /\ x = Arg(x.flag, x.value)
  BY DEF Arg
<1>2. CASE replicas > 1
  <2>1. args \in Seq(ToSet(args) \cup {x}) /\ x \in ToSet(args) \cup {x}
    BY SeqMonotonic DEF List
  <2>2. new = args \o b
    BY <1>2, <2>1, AppendIsConcat DEF WithLeaderElection
  <2> HIDE DEF x
  <2>3. ToSet(args \o b) = ToSet(args) \cup {x}
    BY <2>1, AppendFacts
  <2>4. List(b) /\ Keys(b, "flag") = {"leader-elect"} /\ ValueOf(b, "flag", "leader-elect") = "true"
    BY <1>1, OneFacts
  <2> HIDE DEF b
  <2>5. /\ List(args \o b) /\ Keys(args \o b, "flag") = Keys(args, "flag") \cup Keys(b, "flag")
        /\ \A n : ValueOf(args \o b, "flag", n)
                    = IF n \in Keys(b, "flag") THEN ValueOf(b, "flag", n) ELSE ValueOf(args, "flag", n)
    BY <2>4, ConcatFacts
  <2> QED
    BY <1>1, <2>2, <2>3, <2>4, <2>5 DEF AreArgs
<1>3. CASE ~(replicas > 1)
  BY <1>3 DEF WithLeaderElection
<1> QED
  BY <1>2, <1>3

\* The encoder is the only argument that comes from another setting.
LEMMA EncoderFacts ==
  ASSUME NEW encoder
  PROVE  LET args == WithArgReplace(<<>>, "zap-encoder", encoder)
         IN  List(args) /\ AreArgs(args) /\ List(<<>>) /\ AreArgs(<<>>)
<1> DEFINE x == Arg("zap-encoder", encoder)
           b == <<x>>
<1>1. x = Arg(x.flag, x.value)
  BY DEF Arg
<1>2. WithArgReplace(<<>>, "zap-encoder", encoder) \in {<<>>, b}
  <2>1. Append(<<>>, x) = b
    OBVIOUS
  <2> QED
    BY <2>1 DEF WithArgReplace
<1> HIDE DEF x
<1>3. ToSet(b) = {x} /\ ToSet(<<>>) = {}
  BY DEF ToSet
<1>4. List(b) /\ List(<<>>)
  BY OneFacts
<1> HIDE DEF b
<1> QED
  BY <1>1, <1>2, <1>3, <1>4 DEF AreArgs

\* The arguments of a manager: no flag comes twice, and the election is asked for.
LEMMA ArgFacts ==
  ASSUME operand \in AllOperands, NEW args, AreArgs(args), NEW result,
         IsMerged(result, ManifestArgs, args, "flag"),
         ToSet(result) \subseteq ToSet(ManifestArgs) \cup ToSet(args)
  PROVE  /\ \A i, j \in DOMAIN result : result[i].flag = result[j].flag => i = j
         /\ "leader-elect" \in Keys(args, "flag") /\ ValueOf(args, "flag", "leader-elect") = "true"
              => Arg("leader-elect", "true") \in ToSet(result)
<1>1. \A i, j \in DOMAIN result : result[i].flag = result[j].flag => i = j
  BY DEF IsMerged, Distinct
<1>2. ASSUME "leader-elect" \in Keys(args, "flag"), ValueOf(args, "flag", "leader-elect") = "true"
      PROVE  Arg("leader-elect", "true") \in ToSet(result)
  <2>1. /\ List(result) /\ "leader-elect" \in Keys(result, "flag")
        /\ ValueOf(result, "flag", "leader-elect") = "true"
    BY <1>2 DEF IsMerged
  <2>2. PICK i \in DOMAIN result : result[i].flag = "leader-elect"
    BY <2>1 DEF Keys
  <2>3. \A j \in DOMAIN result : result[j].flag = result[i].flag => j <= i
    <3>1. i <= i
      BY <2>1, ListFacts
    <3> QED
      BY <1>1, <3>1
  <2>4. ValueOf(result, "flag", result[i].flag) = result[i].value
    BY <2>1, <2>3, LastDecides
  <2>5. result[i] \in ToSet(result)
    BY DEF ToSet
  <2>6. AreArgs(ManifestArgs)
    <3>1. CASE operand = "lister"
      BY <3>1 DEF AreArgs, ManifestArgs, ToSet
    <3>2. CASE operand # "lister"
      <4> DEFINE x == Arg("leader-elect", IF operand = "integration" THEN "" ELSE "false")
                 y == Arg("health-probe", "8081")
      <4>1. x = Arg(x.flag, x.value) /\ y = Arg(y.flag, y.value)
        BY DEF Arg
      <4>2. ManifestArgs = <<x, y>>
        BY <3>2 DEF ManifestArgs
      <4> HIDE DEF x, y
      <4>3. ToSet(<<x, y>>) = {x, y}
        BY DEF ToSet
      <4> QED
        BY <4>1, <4>2, <4>3 DEF AreArgs
    <3> QED
      BY <3>1, <3>2
  <2>7. result[i] = Arg(result[i].flag, result[i].value)
    BY <2>5, <2>6 DEF AreArgs
  <2> QED
    BY <2>1, <2>2, <2>4, <2>5, <2>7
<1> QED
  BY <1>1, <1>2

\* The overlay of build-service.
LEMMA BuildEnv ==
  ASSUME operand = "build", NEW s, List(s.manager.env), s.pac \in {"unset", "yes", "no"}, NEW url
  PROVE  Layered(buildBuildControllerManagerOverlay(s).env, Typed(s, url), s.manager.env, Platform(s))
<1> DEFINE base == IF openShift THEN <<>> ELSE WithEnv(<<>>, "PAC_NAMESPACE", <<"tekton-pipelines">>)
           hook == IF openShift \/ s.webhooks # "" THEN base
                   ELSE WithEnv(base, "PAC_WEBHOOK_URL", <<"service">>)
           user == FromContainerSpec(hook, s.manager)
           env == CASE s.pac = "unset" -> user
                    [] s.pac = "yes" -> WithEnvOverride(user, "PAC_WEBHOOK_INSECURE_SSL", <<"1">>)
                    [] s.pac = "no" -> WithoutEnv(user, "PAC_WEBHOOK_INSECURE_SSL")
           U == s.manager.env
           T == Typed(s, url)
           P == Platform(s)
<1>1. buildBuildControllerManagerOverlay(s).env = env
  BY DEF buildBuildControllerManagerOverlay, PodOverlay
<1>2. List(<<>>) /\ Keys(<<>>, "name") = {}
  BY OneFacts
<1>3. /\ List(base)
      /\ IF openShift THEN Keys(base, "name") = {}
         ELSE Keys(base, "name") = {"PAC_NAMESPACE"} /\ ValueOf(base, "name", "PAC_NAMESPACE") = <<"tekton-pipelines">>
  <2>1. CASE openShift
    BY <1>2, <2>1
  <2>2. CASE ~openShift
    <3>1. base = WithEnv(<<>>, "PAC_NAMESPACE", <<"tekton-pipelines">>)
      BY <2>2
    <3> HIDE DEF base
    <3> QED
      BY <1>2, <2>2, <3>1, OptionFacts
  <2> QED
    BY <2>1, <2>2
<1> HIDE DEF base
<1>4. /\ DOMAIN P = IF openShift THEN {}
                    ELSE IF s.webhooks = "" THEN {"PAC_NAMESPACE", "PAC_WEBHOOK_URL"} ELSE {"PAC_NAMESPACE"}
      /\ ~openShift => P["PAC_NAMESPACE"] = <<"tekton-pipelines">>
      /\ ~openShift /\ s.webhooks = "" => P["PAC_WEBHOOK_URL"] = <<"service">>
  <2>1. CASE openShift
    BY <2>1 DEF Platform
  <2>2. CASE ~openShift /\ s.webhooks = ""
    BY <2>2 DEF Platform, Over, Setting
  <2>3. CASE ~openShift /\ s.webhooks # ""
    <3> DEFINE A == Setting("PAC_NAMESPACE", <<"tekton-pipelines">>)
    <3>1. P = Over(A, <<>>)
      BY <2>3 DEF Platform
    <3>2. DOMAIN A = {"PAC_NAMESPACE"} /\ A["PAC_NAMESPACE"] = <<"tekton-pipelines">> /\ DOMAIN <<>> = {}
      BY DEF Setting
    <3> HIDE DEF A, P
    <3>3. DOMAIN P = {"PAC_NAMESPACE"} /\ P["PAC_NAMESPACE"] = A["PAC_NAMESPACE"]
      BY <3>1, <3>2 DEF Over
    <3> QED
      BY <2>3, <3>2, <3>3
  <2> QED
    BY <2>1, <2>2, <2>3
<1> HIDE DEF P
<1>5. List(hook) /\ Keys(hook, "name") = DOMAIN P /\ \A n \in DOMAIN P : ValueOf(hook, "name", n) = P[n]
  <2>1. CASE openShift \/ s.webhooks # ""
    BY <1>3, <1>4, <2>1
  <2>2. CASE ~openShift /\ s.webhooks = ""
    <3>1. hook = WithEnv(base, "PAC_WEBHOOK_URL", <<"service">>)
      BY <2>2
    <3> HIDE DEF hook
    <3>2. /\ List(hook) /\ Keys(hook, "name") = Keys(base, "name") \cup {"PAC_WEBHOOK_URL"}
          /\ \A n : ValueOf(hook, "name", n) = IF n = "PAC_WEBHOOK_URL" THEN <<"service">> ELSE ValueOf(base, "name", n)
      BY <1>3, <3>1, OptionFacts
    <3> QED
      BY <1>3, <1>4, <2>2, <3>2
  <2> QED
    BY <2>1, <2>2
<1> HIDE DEF hook
<1>6. /\ List(user) /\ Keys(user, "name") = DOMAIN P \cup Keys(U, "name")
      /\ \A n : ValueOf(user, "name", n) = IF n \in Keys(U, "name") THEN ValueOf(U, "name", n)
                                                                  ELSE ValueOf(hook, "name", n)
  BY <1>5, UserFacts
<1> HIDE DEF user, U
<1>7. CASE s.pac = "unset"
  <2>1. DOMAIN T = {} /\ env = user
    BY <1>7 DEF Typed
  <2> HIDE DEF T, env
  <2>2. Layered(env, T, U, P)
    BY <1>5, <1>6, <2>1 DEF Layered
  <2> QED
    BY <1>1, <2>2 DEF T, U, P
<1>8. CASE s.pac = "yes"
  <2>1. /\ DOMAIN T = {"PAC_WEBHOOK_INSECURE_SSL"} /\ T["PAC_WEBHOOK_INSECURE_SSL"] = <<"1">>
        /\ env = WithEnvOverride(user, "PAC_WEBHOOK_INSECURE_SSL", <<"1">>)
    BY <1>8 DEF Typed, Setting
  <2> HIDE DEF T, env
  <2>2. /\ List(env) /\ Keys(env, "name") = Keys(user, "name") \cup {"PAC_WEBHOOK_INSECURE_SSL"}
        /\ \A n : ValueOf(env, "name", n)
                    = IF n = "PAC_WEBHOOK_INSECURE_SSL" THEN <<"1">> ELSE ValueOf(user, "name", n)
    BY <1>6, <2>1, OptionFacts
  <2>3. Layered(env, T, U, P)
    BY <1>5, <1>6, <2>1, <2>2 DEF Layered
  <2> QED
    BY <1>1, <2>3 DEF T, U, P
<1>9. CASE s.pac = "no"
  <2>1. /\ DOMAIN T = {"PAC_WEBHOOK_INSECURE_SSL"} /\ T["PAC_WEBHOOK_INSECURE_SSL"] = Absent
        /\ env = DropName(user, "PAC_WEBHOOK_INSECURE_SSL")
    BY <1>9 DEF Typed, Setting, WithoutEnv
  <2> HIDE DEF T, env
  <2>2. /\ List(env) /\ Keys(env, "name") = Keys(user, "name") \ {"PAC_WEBHOOK_INSECURE_SSL"}
        /\ \A n : n # "PAC_WEBHOOK_INSECURE_SSL" => ValueOf(env, "name", n) = ValueOf(user, "name", n)
    BY <1>6, <2>1, DropFacts
  <2>3. Keys(ManifestEnv, "name") = {}
    BY <1>2 DEF ManifestEnv
  <2>4. Layered(env, T, U, P)
    BY <1>5, <1>6, <2>1, <2>2, <2>3 DEF Layered
  <2> QED
    BY <1>1, <2>4 DEF T, U, P
<1> QED
  BY <1>7, <1>8, <1>9

\* An option that overrides a variable if it has a value.
LEMMA OptionalFacts ==
  ASSUME NEW env, List(env), NEW name, NEW value
  PROVE  LET new == WithOptionalEnvOverride(env, name, value)
         IN  /\ List(new)
             /\ IF value = <<>> THEN new = env
                ELSE /\ Keys(new, "name") = Keys(env, "name") \cup {name}
                     /\ \A n : ValueOf(new, "name", n) = IF n = name THEN value ELSE ValueOf(env, "name", n)
BY OptionFacts DEF WithOptionalEnvOverride

\* The overlay of integration-service.
LEMMA IntegrationEnv ==
  ASSUME operand = "integration", NEW s, List(s.manager.env), NEW url
  PROVE  Layered(buildControllerManagerOverlay(s, url).env, Typed(s, url), s.manager.env, Platform(s))
<1> DEFINE user == FromContainerSpec(<<>>, s.manager)
           link == WithEnvOverride(user, "CONSOLE_URL", consoleURLTemplate(url))
           logs == WithEnvOverride(link, "CONSOLE_URL_TASKLOG", consoleURLTasklogTemplate(url))
           env == WithOptionalEnvOverride(logs, "PIPELINE_TIMEOUT", s.timeout)
           U == s.manager.env
           T == Typed(s, url)
           P == Platform(s)
<1>1. buildControllerManagerOverlay(s, url).env = env
  BY DEF buildControllerManagerOverlay, PodOverlay
<1>2. List(<<>>) /\ Keys(<<>>, "name") = {}
  BY OneFacts
<1>3. /\ List(user) /\ Keys(user, "name") = Keys(U, "name")
      /\ \A n \in Keys(U, "name") : ValueOf(user, "name", n) = ValueOf(U, "name", n)
  BY <1>2, UserFacts
<1>4. DOMAIN P = {}
  BY DEF Platform
<1> HIDE DEF user, U, P
<1>5. /\ List(link) /\ Keys(link, "name") = Keys(user, "name") \cup {"CONSOLE_URL"}
      /\ \A n : ValueOf(link, "name", n) = IF n = "CONSOLE_URL" THEN consoleURLTemplate(url) ELSE ValueOf(user, "name", n)
  BY <1>3, OptionFacts
<1> HIDE DEF link
<1>6. /\ List(logs) /\ Keys(logs, "name") = Keys(link, "name") \cup {"CONSOLE_URL_TASKLOG"}
      /\ \A n : ValueOf(logs, "name", n)
                  = IF n = "CONSOLE_URL_TASKLOG" THEN consoleURLTasklogTemplate(url) ELSE ValueOf(link, "name", n)
  BY <1>5, OptionFacts
<1> HIDE DEF logs
<1>7. /\ List(env)
      /\ IF s.timeout = <<>> THEN env = logs
         ELSE /\ Keys(env, "name") = Keys(logs, "name") \cup {"PIPELINE_TIMEOUT"}
              /\ \A n : ValueOf(env, "name", n) = IF n = "PIPELINE_TIMEOUT" THEN s.timeout ELSE ValueOf(logs, "name", n)
  BY <1>6, OptionalFacts
<1> HIDE DEF env
<1>8. /\ DOMAIN T = IF s.timeout = <<>> THEN {"CONSOLE_URL", "CONSOLE_URL_TASKLOG"}
                    ELSE {"CONSOLE_URL", "CONSOLE_URL_TASKLOG", "PIPELINE_TIMEOUT"}
      /\ T["CONSOLE_URL"] = consoleURLTemplate(url)
      /\ T["CONSOLE_URL_TASKLOG"] = consoleURLTasklogTemplate(url)
      /\ s.timeout # <<>> => T["PIPELINE_TIMEOUT"] = s.timeout
  <2>1. CASE s.timeout = <<>>
    BY <2>1 DEF Typed, Over, Setting
  <2>2. CASE s.timeout # <<>>
    BY <2>2 DEF Typed, Over, Setting
  <2> QED
    BY <2>1, <2>2
<1> HIDE DEF T
<1>9. Layered(env, T, U, P)
  <2>1. CASE s.timeout = <<>>
    BY <1>3, <1>4, <1>5, <1>6, <1>7, <1>8, <2>1 DEF Layered
  <2>2. CASE s.timeout # <<>>
    BY <1>3, <1>4, <1>5, <1>6, <1>7, <1>8, <2>2 DEF Layered
  <2> QED
    BY <2>1, <2>2
<1> QED
  BY <1>1, <1>9 DEF T, U, P

\* The overlay of image-controller.
LEMMA ImageEnv ==
  ASSUME operand = "image", NEW s, List(s.manager.env), NEW url
  PROVE  Layered(buildImageControllerManagerOverlay(s).env, Typed(s, url), s.manager.env, Platform(s))
<1> DEFINE ca == IF s.caBundle = "" THEN <<>>
                 ELSE WithEnv(<<>>, "QUAY_ADDITIONAL_CA", <<"/etc/ssl/certs/quay-ca", "key">>)
           env == FromContainerSpec(ca, s.manager)
           U == s.manager.env
           T == Typed(s, url)
           P == Platform(s)
<1>1. buildImageControllerManagerOverlay(s).env = env
  BY DEF buildImageControllerManagerOverlay, PodOverlay
<1>2. List(<<>>) /\ Keys(<<>>, "name") = {}
  BY OneFacts
<1>3. DOMAIN T = {}
  BY DEF Typed
<1> HIDE DEF T
<1>4. List(ca) /\ Keys(ca, "name") = DOMAIN P /\ \A n \in DOMAIN P : ValueOf(ca, "name", n) = P[n]
  <2>1. CASE s.caBundle = ""
    <3>1. P = <<>> /\ ca = <<>>
      BY <2>1 DEF Platform
    <3> HIDE DEF P, ca
    <3>2. DOMAIN P = {}
      BY <3>1
    <3> QED
      BY <1>2, <3>1, <3>2
  <2>2. CASE s.caBundle # ""
    <3>1. /\ DOMAIN P = {"QUAY_ADDITIONAL_CA"} /\ P["QUAY_ADDITIONAL_CA"] = <<"/etc/ssl/certs/quay-ca", "key">>
          /\ ca = WithEnv(<<>>, "QUAY_ADDITIONAL_CA", <<"/etc/ssl/certs/quay-ca", "key">>)
      BY <2>2 DEF Platform, Setting
    <3> HIDE DEF P, ca
    <3>2. /\ List(ca) /\ Keys(ca, "name") = Keys(<<>>, "name") \cup {"QUAY_ADDITIONAL_CA"}
          /\ ValueOf(ca, "name", "QUAY_ADDITIONAL_CA") = <<"/etc/ssl/certs/quay-ca", "key">>
      BY <1>2, <3>1, OptionFacts
    <3> QED
      BY <1>2, <3>1, <3>2
  <2> QED
    BY <2>1, <2>2
<1> HIDE DEF ca, P
<1>5. /\ List(env) /\ Keys(env, "name") = DOMAIN P \cup Keys(U, "name")
      /\ \A n : ValueOf(env, "name", n) = IF n \in Keys(U, "name") THEN ValueOf(U, "name", n)
                                                                 ELSE ValueOf(ca, "name", n)
  BY <1>4, UserFacts
<1> HIDE DEF env, U
<1>6. Layered(env, T, U, P)
  BY <1>3, <1>4, <1>5 DEF Layered
<1> QED
  BY <1>1, <1>6 DEF T, U, P

\* The overlay of release-service.
LEMMA ReleaseEnv ==
  ASSUME operand = "release", NEW s, List(s.manager.env), NEW url
  PROVE  Layered(buildReleaseControllerManagerOverlay(s).env, Typed(s, url), s.manager.env, Platform(s))
<1> DEFINE env == FromContainerSpec(<<>>, s.manager)
           U == s.manager.env
           T == Typed(s, url)
           P == Platform(s)
<1>1. buildReleaseControllerManagerOverlay(s).env = env
  BY DEF buildReleaseControllerManagerOverlay, PodOverlay
<1>2. List(<<>>) /\ Keys(<<>>, "name") = {}
  BY OneFacts
<1>3. /\ List(env) /\ Keys(env, "name") = Keys(U, "name")
      /\ \A n \in Keys(U, "name") : ValueOf(env, "name", n) = ValueOf(U, "name", n)
  BY <1>2, UserFacts
<1>4. DOMAIN P = {} /\ DOMAIN T = {}
  BY DEF Platform, Typed
<1> HIDE DEF env, U, P, T
<1>5. Layered(env, T, U, P)
  BY <1>3, <1>4 DEF Layered
<1> QED
  BY <1>1, <1>5 DEF T, U, P

\* The overlay of namespace-lister.
LEMMA ListerEnv ==
  ASSUME operand = "lister", NEW s, List(s.manager.env), NEW url
  PROVE  Layered(applyNamespaceListerCustomizations(s).env, Typed(s, url), s.manager.env, Platform(s))
<1> DEFINE user == FromContainerSpec(<<>>, s.manager)
           sync == WithOptionalEnvOverride(user, "CACHE_RESYNC_PERIOD", s.resync)
           level == resolveLogLevelEnvValue(s.logLevel)
           env == WithOptionalEnvOverride(sync, "LOG_LEVEL", level)
           U == s.manager.env
           T == Typed(s, url)
           P == Platform(s)
           A == IF s.logLevel = "" THEN << >> ELSE Setting("LOG_LEVEL", level)
           B == IF s.resync = <<>> THEN << >> ELSE Setting("CACHE_RESYNC_PERIOD", s.resync)
<1>1. applyNamespaceListerCustomizations(s).env = env
  BY DEF applyNamespaceListerCustomizations, PodOverlay
<1>2. List(<<>>) /\ Keys(<<>>, "name") = {}
  BY OneFacts
<1>3. /\ List(user) /\ Keys(user, "name") = Keys(U, "name")
      /\ \A n \in Keys(U, "name") : ValueOf(user, "name", n) = ValueOf(U, "name", n)
  BY <1>2, UserFacts
<1>4. DOMAIN P = {} /\ T = Over(A, B)
  BY DEF Platform, Typed, resolveLogLevelEnvValue
<1>5. s.logLevel = "" <=> level = <<>>
  BY DEF resolveLogLevelEnvValue
<1> HIDE DEF user, U, P, T
<1>6. /\ DOMAIN A = IF s.logLevel = "" THEN {} ELSE {"LOG_LEVEL"}
      /\ s.logLevel # "" => A["LOG_LEVEL"] = level
  <2> HIDE DEF level
  <2>1. CASE s.logLevel = ""
    <3>1. A = <<>>
      BY <2>1
    <3> HIDE DEF A
    <3>2. DOMAIN A = {}
      BY <3>1
    <3> QED
      BY <2>1, <3>2
  <2>2. CASE s.logLevel # ""
    <3>1. A = Setting("LOG_LEVEL", level)
      BY <2>2
    <3> HIDE DEF A
    <3> QED
      BY <2>2, <3>1 DEF Setting
  <2> QED
    BY <2>1, <2>2
<1>7. /\ DOMAIN B = IF s.resync = <<>> THEN {} ELSE {"CACHE_RESYNC_PERIOD"}
      /\ s.resync # <<>> => B["CACHE_RESYNC_PERIOD"] = s.resync
  BY DEF Setting
<1> HIDE DEF A, B
<1>8. /\ DOMAIN T = DOMAIN A \cup DOMAIN B
      /\ \A n \in DOMAIN T : T[n] = IF n \in DOMAIN A THEN A[n] ELSE B[n]
  BY <1>4 DEF Over
<1>9. /\ List(sync)
      /\ IF s.resync = <<>> THEN sync = user
         ELSE /\ Keys(sync, "name") = Keys(user, "name") \cup {"CACHE_RESYNC_PERIOD"}
              /\ \A n : ValueOf(sync, "name", n)
                          = IF n = "CACHE_RESYNC_PERIOD" THEN s.resync ELSE ValueOf(user, "name", n)
  BY <1>3, OptionalFacts
<1> HIDE DEF sync, level
<1>10. /\ List(env)
       /\ IF level = <<>> THEN env = sync
          ELSE /\ Keys(env, "name") = Keys(sync, "name") \cup {"LOG_LEVEL"}
               /\ \A n : ValueOf(env, "name", n) = IF n = "LOG_LEVEL" THEN level ELSE ValueOf(sync, "name", n)
  BY <1>9, OptionalFacts
<1> HIDE DEF env
<1>11. /\ Keys(sync, "name") = Keys(U, "name") \cup DOMAIN B
       /\ \A n \in DOMAIN B : ValueOf(sync, "name", n) = B[n]
       /\ \A n \in Keys(U, "name") \ DOMAIN B : ValueOf(sync, "name", n) = ValueOf(U, "name", n)
  <2>1. CASE s.resync = <<>>
    BY <1>3, <1>7, <1>9, <2>1
  <2>2. CASE s.resync # <<>>
    BY <1>3, <1>7, <1>9, <2>2
  <2> QED
    BY <2>1, <2>2
<1>12. /\ Keys(env, "name") = Keys(sync, "name") \cup DOMAIN A
       /\ \A n \in DOMAIN A : ValueOf(env, "name", n) = A[n]
       /\ \A n \in Keys(sync, "name") \ DOMAIN A : ValueOf(env, "name", n) = ValueOf(sync, "name", n)
  <2>1. CASE s.logLevel = ""
    BY <1>5, <1>6, <1>10, <2>1
  <2>2. CASE s.logLevel # ""
    BY <1>5, <1>6, <1>10, <2>2
  <2> QED
    BY <2>1, <2>2
<1>13. Layered(env, T, U, P)
  BY <1>4, <1>8, <1>10, <1>11, <1>12 DEF Layered
<1> QED
  BY <1>1, <1>13 DEF T, U, P

\* An overlay with its layers makes a Deployment as specified.
LEMMA OverlayFacts ==
  ASSUME operand \in AllOperands, NEW s, NEW url, NEW env, NEW resources, NEW args, NEW volumes,
         Layered(env, Typed(s, url), s.manager.env, Platform(s)), List(args), AreArgs(args),
         s.replicas > 1 /\ operand # "lister" => /\ "leader-elect" \in Keys(args, "flag")
                                                 /\ ValueOf(args, "flag", "leader-elect") = "true",
         operand = "build" => volumes = [v \in {"webhook-config"} |-> webhookConfigMapName(s)]
  PROVE  AsSpecified(s, url, ApplyToPodTemplateSpec(ManifestPod, PodOverlay(env, resources, args, volumes)))
<1> DEFINE pod == ApplyToPodTemplateSpec(ManifestPod, PodOverlay(env, resources, args, volumes))
<1>1. /\ IsMerged(pod.env, ManifestEnv, env, "name")
      /\ IsMerged(pod.args, ManifestArgs, args, "flag")
      /\ ToSet(pod.args) \subseteq ToSet(ManifestArgs) \cup ToSet(args)
      /\ pod.volumes = applyConfigMapVolumeUpdates(ManifestVolumes, volumes)
  <2>1. List(env)
    BY DEF Layered
  <2> QED
    BY <2>1, PodFacts
<1> HIDE DEF pod
<1> DEFINE layers == Over(Typed(s, url), Over(AsFunction(s.manager.env),
                       Over(Platform(s), AsFunction(ManifestEnv))))
<1>2. /\ \A n \in DOMAIN layers : Effective(pod.env, n) = layers[n]
      /\ \A e \in ToSet(pod.env) : e.name \in DOMAIN layers
      /\ \A i, j \in DOMAIN pod.env : pod.env[i].name = pod.env[j].name => i = j
  BY <1>1, LayerFacts
<1>3. /\ \A i, j \in DOMAIN pod.args : pod.args[i].flag = pod.args[j].flag => i = j
      /\ s.replicas > 1 /\ operand # "lister" => Arg("leader-elect", "true") \in ToSet(pod.args)
  BY <1>1, ArgFacts
<1>4. ASSUME operand = "build" PROVE pod.volumes["webhook-config"] = webhookConfigMapName(s)
  <2>1. "webhook-config" \in DOMAIN ManifestVolumes
    BY <1>4 DEF ManifestVolumes
  <2>2. DOMAIN volumes = {"webhook-config"} /\ volumes["webhook-config"] = webhookConfigMapName(s)
    BY <1>4
  <2> QED
    BY <1>1, <2>1, <2>2 DEF applyConfigMapVolumeUpdates
<1>5. AsSpecified(s, url, pod)
  BY <1>2, <1>3, <1>4 DEF AsSpecified
<1> QED
  BY <1>5 DEF pod

\* The controllers that apply the Deployment of a manager.
LEMMA Managers ==
  ASSUME operand \in AllOperands, "Deployment" \in Objects
  PROVE  operand \in {"build", "integration", "image", "release", "lister"}
<1>1. ASSUME NEW l, \A i \in DOMAIN l : l[i] # "Deployment" PROVE "Deployment" \notin ToSet(l)
  BY <1>1 DEF ToSet
<1>2. \A i \in DOMAIN Manifests["bridge"] : Manifests["bridge"][i] # "Deployment"
  BY DEF Manifests
<1>3. \A i \in DOMAIN Manifests["contract"] : Manifests["contract"][i] # "Deployment"
  BY DEF Manifests
<1>4. \A i \in DOMAIN Manifests["certs"] : Manifests["certs"][i] # "Deployment"
  BY DEF Manifests
<1>5. \A i \in DOMAIN Manifests["rbac"] : Manifests["rbac"][i] # "Deployment"
  BY DEF Manifests
<1>6. \A i \in DOMAIN Manifests["api"] : Manifests["api"][i] # "Deployment"
  BY DEF Manifests
<1>7. ASSUME operand \in {"bridge", "contract", "certs", "rbac", "api"} PROVE FALSE
  <2>1. "Deployment" \notin ToSet(Manifests[operand])
    BY <1>1, <1>2, <1>3, <1>4, <1>5, <1>6, <1>7
  <2>2. "Deployment" \notin Built[operand] /\ "Deployment" \notin Legacy
    BY <1>7 DEF Built, Legacy
  <2> QED
    BY <2>1, <2>2 DEF Objects
<1> QED
  BY <1>7 DEF AllOperands

\* Every manager's Deployment is as its spec says.
LEMMA DeploymentFacts ==
  ASSUME operand \in {"build", "integration", "image", "release", "lister"}, NEW s, NEW url,
         List(s.manager.env), s.pac \in {"unset", "yes", "no"}
  PROVE  AsSpecified(s, url, DeploymentFor(s, url).pod)
<1> DEFINE encoded == WithArgReplace(<<>>, "zap-encoder", s.encoder)
           elected == WithLeaderElection(encoded, s.replicas)
           plain == WithLeaderElection(<<>>, s.replicas)
<1>1. List(encoded) /\ AreArgs(encoded) /\ List(<<>>) /\ AreArgs(<<>>)
  BY EncoderFacts
<1> HIDE DEF encoded
<1>2. /\ List(elected) /\ AreArgs(elected)
      /\ s.replicas > 1 => /\ "leader-elect" \in Keys(elected, "flag")
                           /\ ValueOf(elected, "flag", "leader-elect") = "true"
  BY <1>1, LeaderFacts
<1>3. /\ List(plain) /\ AreArgs(plain)
      /\ s.replicas > 1 => /\ "leader-elect" \in Keys(plain, "flag")
                           /\ ValueOf(plain, "flag", "leader-elect") = "true"
  BY <1>1, LeaderFacts
<1> HIDE DEF elected, plain
<1>0. operand \in AllOperands
  BY DEF AllOperands
<1>4. CASE operand = "build"
  <2> DEFINE o == buildBuildControllerManagerOverlay(s)
             volumes == [v \in {"webhook-config"} |-> webhookConfigMapName(s)]
  <2>1. Layered(o.env, Typed(s, url), s.manager.env, Platform(s))
    BY <1>4, BuildEnv
  <2>2. o = PodOverlay(o.env, s.manager.resources, elected, volumes)
    BY DEF buildBuildControllerManagerOverlay, PodOverlay, elected, encoded
  <2>3. DeploymentFor(s, url).pod = ApplyToPodTemplateSpec(ManifestPod, o)
    BY <1>4 DEF DeploymentFor
  <2> HIDE DEF o
  <2>4. AsSpecified(s, url, ApplyToPodTemplateSpec(ManifestPod,
                            PodOverlay(o.env, s.manager.resources, elected, volumes)))
    BY <1>0, <1>2, <2>1, OverlayFacts
  <2> QED
    BY <2>2, <2>3, <2>4
<1>5. CASE operand = "integration"
  <2> DEFINE o == buildControllerManagerOverlay(s, url)
  <2>1. Layered(o.env, Typed(s, url), s.manager.env, Platform(s))
    BY <1>5, IntegrationEnv
  <2>2. o = PodOverlay(o.env, s.manager.resources, plain, <<>>)
    BY DEF buildControllerManagerOverlay, PodOverlay, plain
  <2>3. DeploymentFor(s, url).pod = ApplyToPodTemplateSpec(ManifestPod, o)
    BY <1>5 DEF DeploymentFor
  <2> HIDE DEF o
  <2>4. AsSpecified(s, url, ApplyToPodTemplateSpec(ManifestPod,
                            PodOverlay(o.env, s.manager.resources, plain, <<>>)))
    BY <1>0, <1>3, <1>5, <2>1, OverlayFacts
  <2> QED
    BY <2>2, <2>3, <2>4
<1>6. CASE operand = "image"
  <2> DEFINE o == buildImageControllerManagerOverlay(s)
             volumes == [v \in IF s.caBundle \in {"", "quay-ca-bundle"} THEN {} ELSE {"quay-ca-bundle"}
                           |-> s.caBundle]
  <2>1. Layered(o.env, Typed(s, url), s.manager.env, Platform(s))
    BY <1>6, ImageEnv
  <2>2. o = PodOverlay(o.env, s.manager.resources, elected, volumes)
    BY DEF buildImageControllerManagerOverlay, PodOverlay, elected, encoded
  <2>3. DeploymentFor(s, url).pod = ApplyToPodTemplateSpec(ManifestPod, o)
    BY <1>6 DEF DeploymentFor
  <2> HIDE DEF o, volumes
  <2>4. AsSpecified(s, url, ApplyToPodTemplateSpec(ManifestPod,
                            PodOverlay(o.env, s.manager.resources, elected, volumes)))
    BY <1>0, <1>2, <1>6, <2>1, OverlayFacts
  <2> QED
    BY <2>2, <2>3, <2>4
<1>7. CASE operand = "release"
  <2> DEFINE o == buildReleaseControllerManagerOverlay(s)
  <2>1. Layered(o.env, Typed(s, url), s.manager.env, Platform(s))
    BY <1>7, ReleaseEnv
  <2>2. o = PodOverlay(o.env, s.manager.resources, plain, <<>>)
    BY DEF buildReleaseControllerManagerOverlay, PodOverlay, plain
  <2>3. DeploymentFor(s, url).pod = ApplyToPodTemplateSpec(ManifestPod, o)
    BY <1>7 DEF DeploymentFor
  <2> HIDE DEF o
  <2>4. AsSpecified(s, url, ApplyToPodTemplateSpec(ManifestPod,
                            PodOverlay(o.env, s.manager.resources, plain, <<>>)))
    BY <1>0, <1>3, <1>7, <2>1, OverlayFacts
  <2> QED
    BY <2>2, <2>3, <2>4
<1>8. CASE operand = "lister"
  <2> DEFINE o == applyNamespaceListerCustomizations(s)
  <2>1. Layered(o.env, Typed(s, url), s.manager.env, Platform(s))
    BY <1>8, ListerEnv
  <2>2. o = PodOverlay(o.env, s.manager.resources, <<>>, <<>>)
    BY DEF applyNamespaceListerCustomizations, PodOverlay
  <2>3. DeploymentFor(s, url).pod = ApplyToPodTemplateSpec(ManifestPod, o)
    BY <1>8 DEF DeploymentFor
  <2> HIDE DEF o
  <2>4. AsSpecified(s, url, ApplyToPodTemplateSpec(ManifestPod,
                            PodOverlay(o.env, s.manager.resources, <<>>, <<>>)))
    BY <1>0, <1>1, <1>8, <2>1, OverlayFacts
  <2> QED
    BY <2>2, <2>3, <2>4
<1> QED
  BY <1>4, <1>5, <1>6, <1>7, <1>8

\* CustomisedAsSpecified for every spec: the Deployment that a pass writes has
\* the typed fields of the CR over the environment of the user over what the
\* platform needs over the manifest, no variable and no flag twice, a leader
\* election for several replicas and the hashed ConfigMap of the pass, however
\* long the lists of the CR are and whatever they name, and in whatever order.
THEOREM Customises == Spec => CustomisedAsSpecified
<1> DEFINE Written ==
             \A o \in {"Deployment"} \cap Objects : objs'[o] # objs[o] /\ objs'[o] # Absent =>
               AsSpecified(pass.spec, pass.url, objs'[o].pod)
<1>1. ASSUME PassInv, [Next]_vars, NEW o \in {"Deployment"} \cap Objects,
             objs'[o] # objs[o], objs'[o] # Absent
      PROVE  AsSpecified(pass.spec, pass.url, objs'[o].pod)
  <2>1. pass.at = "apply" /\ objs'[o] = Content(o, pass.spec, pass.url, keySecret)
    BY <1>1, WriteCases
  <2>2. objs'[o] = DeploymentFor(pass.spec, pass.url)
    <3>1. o = "Deployment"
      BY <1>1
    <3>2. Content(o, pass.spec, pass.url, keySecret) = DeploymentFor(pass.spec, pass.url)
      BY <3>1 DEF Content, Customised
    <3> QED
      BY <2>1, <3>2
  <2>3. operand \in Operands /\ pass.spec \in Specs[operand]
    BY <1>1, <2>1 DEF PassInv
  <2>4. operand \in {"build", "integration", "image", "release", "lister"}
    <3>1. operand \in AllOperands /\ "Deployment" \in Objects
      BY <1>1, <2>3, OperandsAssumption
    <3> QED
      BY <3>1, Managers
  <2>5. List(pass.spec.manager.env) /\ pass.spec.pac \in {"unset", "yes", "no"}
    BY <2>3, OperandsAssumption, ListFacts
  <2> QED
    BY <2>2, <2>4, <2>5, DeploymentFacts
<1>2. PassInv /\ [Next]_vars => [Written]_vars
  BY <1>1
<1>3. Spec => [][Written]_vars
  BY <1>2, PassInit, PassStep, PTL DEF Spec
<1> QED
  BY <1>3 DEF CustomisedAsSpecified
=============================================================================

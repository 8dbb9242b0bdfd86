-------------------------- MODULE Overrides_proofs --------------------------
(***************************************************************************)
(* What a sequence of runs of cmd/overrides leaves in the manifests, for   *)
(* any components, kustomizations, overrides and number of runs.           *)
(***************************************************************************)
EXTENDS Overrides, SequenceTheorems, WellFoundedInduction, TLAPS

-----------------------------------------------------------------------------
(* Loops over sequences *)

\* A set of natural numbers that has a member has a first one: either 0, or
\* one whose predecessor is not in the set.
LEMMA FirstOf ==
  ASSUME NEW T \in SUBSET Nat, T # {}
  PROVE  \E n \in T : n = 0 \/ n - 1 \in Nat \ T
<1> DEFINE R == OpToRel(<, Nat)
<1>1. IsWellFoundedOn(R, Nat)
  BY NatLessThanWellFounded
<1>2. \A x, y \in Nat : y < x => <<y, x>> \in R
  BY DEF OpToRel
<1> HIDE DEF R
<1>3. PICK n \in T : \A y \in T : ~(<<y, n>> \in R)
  BY <1>1, WFMin
<1>4. CASE n # 0
  <2>1. n - 1 \in Nat /\ n - 1 < n
    BY <1>4
  <2>2. n - 1 \notin T
    BY <1>2, <1>3, <2>1
  <2> QED
    BY <2>1, <2>2
<1> QED
  BY <1>4

\* The loop of applyImageOverridesInManifests over the overrides: f[n] is the
\* image when n of them are done.
IsLoop(f, image, ovs, N) ==
  f = [n \in 0..N |-> IF n = 0 THEN image ELSE replaceStringNodes(f[n - 1], ovs[n])]

\* There is a function of the intermediate results.
LEMMA ReplaceLoop ==
  ASSUME NEW image, NEW ovs, NEW N \in Nat
  PROVE  \E f : IsLoop(f, image, ovs, N)
<1> DEFINE Is(f, m) == f = [n \in 0..m |-> IF n = 0 THEN image
                                           ELSE replaceStringNodes(f[n - 1], ovs[n])]
<1> DEFINE T == {m \in Nat : ~\E f : Is(f, m)}
<1>1. CASE T # {}
  <2>1. PICK m \in T : m = 0 \/ m - 1 \in Nat \ T
    <3> HIDE DEF T
    <3>1. T \in SUBSET Nat
      BY DEF T
    <3> QED
      BY <1>1, <3>1, FirstOf
  <2>2. CASE m = 0
    <3>1. Is([n \in 0..0 |-> image], 0)
      OBVIOUS
    <3> QED
      BY <2>2, <3>1
  <2>3. CASE m # 0
    <3>1. m \in Nat /\ m - 1 \in Nat
      BY <2>1, <2>3
    <3>2. PICK f : Is(f, m - 1)
      BY <2>1, <2>3
    <3> DEFINE g == [n \in 0..m |-> IF n = m THEN replaceStringNodes(f[m - 1], ovs[m]) ELSE f[n]]
    <3>3. ASSUME NEW n \in 0..m
          PROVE  g[n] = IF n = 0 THEN image ELSE replaceStringNodes(g[n - 1], ovs[n])
      <4>1. CASE n = m
        BY <2>3, <3>1, <4>1
      <4>2. CASE n # m
        <5>1. n \in 0..(m - 1) /\ g[n] = f[n] /\ (n # 0 => g[n - 1] = f[n - 1])
          BY <3>1, <4>2
        <5> QED
          BY <3>2, <5>1
      <4> QED
        BY <4>1, <4>2
    <3>4. Is(g, m)
      BY <3>3
    <3> QED
      BY <3>4
  <2> QED
    BY <2>2, <2>3
<1>2. CASE T = {}
  BY <1>2 DEF IsLoop
<1> QED
  BY <1>1, <1>2

\* The loop of FlattenSeq.
LEMMA FlattenLoop ==
  ASSUME NEW seqs, NEW N \in Nat
  PROVE  \E f : f = [i \in 1..N |-> IF i = 1 THEN seqs[i] ELSE f[i - 1] \o seqs[i]]
<1> DEFINE Is(f, m) == f = [i \in 1..m |-> IF i = 1 THEN seqs[i] ELSE f[i - 1] \o seqs[i]]
<1> DEFINE T == {m \in Nat : ~\E f : Is(f, m)}
<1>1. CASE T # {}
  <2>1. PICK m \in T : m = 0 \/ m - 1 \in Nat \ T
    <3> HIDE DEF T
    <3>1. T \in SUBSET Nat
      BY DEF T
    <3> QED
      BY <1>1, <3>1, FirstOf
  <2>2. CASE m = 0
    <3>1. Is([i \in 1..0 |-> i], 0)
      OBVIOUS
    <3> QED
      BY <2>2, <3>1
  <2>3. CASE m # 0
    <3>1. m \in Nat /\ m - 1 \in Nat
      BY <2>1, <2>3
    <3>2. PICK f : Is(f, m - 1)
      BY <2>1, <2>3
    <3> DEFINE g == [i \in 1..m |-> IF i = m THEN IF m = 1 THEN seqs[m] ELSE f[m - 1] \o seqs[m]
                                             ELSE f[i]]
    <3>3. ASSUME NEW i \in 1..m
          PROVE  g[i] = IF i = 1 THEN seqs[i] ELSE g[i - 1] \o seqs[i]
      <4>1. CASE i = m
        BY <2>3, <3>1, <4>1
      <4>2. CASE i # m
        <5>1. i \in 1..(m - 1) /\ g[i] = f[i] /\ (i # 1 => g[i - 1] = f[i - 1])
          BY <3>1, <4>2
        <5> QED
          BY <3>2, <5>1
      <4> QED
        BY <4>1, <4>2
    <3>4. Is(g, m)
      BY <3>3
    <3> QED
      BY <3>4
  <2> QED
    BY <2>2, <2>3
<1>2. CASE T = {}
  BY <1>2
<1> QED
  BY <1>1, <1>2

\* No element is twice in a sequence.
Distinct(s) == \A i, j \in 1..Len(s) : s[i] = s[j] => i = j

\* A concatenation holds the elements of both, and holds none twice if
\* neither does and they have none in common.
LEMMA ConcatRange ==
  ASSUME NEW S, NEW s \in Seq(S), NEW t \in Seq(S)
  PROVE  /\ s \o t \in Seq(S)
         /\ Range(s \o t) = Range(s) \cup Range(t)
         /\ Distinct(s) /\ Distinct(t) /\ Range(s) \cap Range(t) = {} => Distinct(s \o t)
<1>1. /\ Len(s) \in Nat /\ DOMAIN s = 1..Len(s)
      /\ Len(t) \in Nat /\ DOMAIN t = 1..Len(t)
  BY LenProperties
<1>2. /\ s \o t \in Seq(S) /\ Len(s \o t) = Len(s) + Len(t)
      /\ \A i \in 1..(Len(s) + Len(t)) :
           (s \o t)[i] = IF i <= Len(s) THEN s[i] ELSE t[i - Len(s)]
  BY ConcatProperties
<1>3. DOMAIN (s \o t) = 1..(Len(s) + Len(t))
  BY <1>2, LenProperties
<1> DEFINE u == s \o t
<1>4. /\ \A i \in 1..Len(s) : i \in DOMAIN u /\ u[i] = s[i]
      /\ \A i \in 1..Len(t) : i + Len(s) \in DOMAIN u /\ u[i + Len(s)] = t[i]
  <2>1. ASSUME NEW i \in 1..Len(t) PROVE i + Len(s) \in DOMAIN u /\ u[i + Len(s)] = t[i]
    <3>1. i + Len(s) \in 1..(Len(s) + Len(t)) /\ ~(i + Len(s) <= Len(s)) /\ (i + Len(s)) - Len(s) = i
      BY <1>1
    <3> QED
      BY <1>2, <1>3, <3>1
  <2>2. ASSUME NEW i \in 1..Len(s) PROVE i \in DOMAIN u /\ u[i] = s[i]
    BY <1>1, <1>2, <1>3
  <2> QED
    BY <2>1, <2>2
<1>5. \A i \in DOMAIN u : \/ i \in 1..Len(s) /\ u[i] = s[i]
                          \/ i - Len(s) \in 1..Len(t) /\ u[i] = t[i - Len(s)]
  BY <1>1, <1>2, <1>3
<1> HIDE DEF u
<1>6. Range(u) = Range(s) \cup Range(t)
  BY <1>1, <1>4, <1>5 DEF Range
<1>7. ASSUME Distinct(s), Distinct(t), Range(s) \cap Range(t) = {} PROVE Distinct(u)
  <2> SUFFICES ASSUME NEW i \in DOMAIN u, NEW j \in DOMAIN u, u[i] = u[j] PROVE i = j
    BY <1>2, <1>3 DEF Distinct, u
  <2>1. i \in Nat /\ j \in Nat
    BY <1>1, <1>3 DEF u
  <2>2. CASE i \in 1..Len(s) /\ u[i] = s[i]
    <3>1. CASE j \in 1..Len(s) /\ u[j] = s[j]
      BY <1>7, <2>2, <3>1 DEF Distinct
    <3>2. CASE j - Len(s) \in 1..Len(t) /\ u[j] = t[j - Len(s)]
      BY <1>1, <1>7, <2>2, <3>2 DEF Range
    <3> QED
      BY <1>5, <3>1, <3>2
  <2>3. CASE i - Len(s) \in 1..Len(t) /\ u[i] = t[i - Len(s)]
    <3>1. CASE j \in 1..Len(s) /\ u[j] = s[j]
      BY <1>1, <1>7, <2>3, <3>1 DEF Range
    <3>2. CASE j - Len(s) \in 1..Len(t) /\ u[j] = t[j - Len(s)]
      <4>1. i - Len(s) = j - Len(s)
        BY <1>7, <2>3, <3>2 DEF Distinct
      <4> QED
        BY <1>1, <2>1, <4>1
    <3> QED
      BY <1>5, <3>1, <3>2
  <2> QED
    BY <1>5, <2>2, <2>3
<1> QED
  BY <1>2, <1>6, <1>7 DEF u

\* The elements of any of the first n sequences.
UpTo(seqs, n) == UNION {Range(seqs[i]) : i \in 1..n}

\* FlattenSeq makes a sequence of all elements, and none is in it twice if
\* none is in a part twice or in two parts.
LEMMA FlattenFacts ==
  ASSUME NEW S, NEW seqs \in Seq(Seq(S))
  PROVE  /\ FlattenSeq(seqs) \in Seq(S)
         /\ Range(FlattenSeq(seqs)) = UpTo(seqs, Len(seqs))
         /\ (/\ \A i \in 1..Len(seqs) : Distinct(seqs[i])
             /\ \A i, j \in 1..Len(seqs) : i # j => Range(seqs[i]) \cap Range(seqs[j]) = {})
            => Distinct(FlattenSeq(seqs))
<1> DEFINE N == Len(seqs)
<1> DEFINE Apart == /\ \A i \in 1..Len(seqs) : Distinct(seqs[i])
                    /\ \A i, j \in 1..Len(seqs) : i # j => Range(seqs[i]) \cap Range(seqs[j]) = {}
<1>1. N \in Nat /\ \A i \in 1..N : seqs[i] \in Seq(S)
  BY LenProperties, ElementOfSeq
<1>2. CASE N = 0
  <2>1. FlattenSeq(seqs) = seqs /\ seqs = <<>>
    BY <1>2, EmptySeq DEF FlattenSeq
  <2>2. <<>> \in Seq(S) /\ Len(<<>>) = 0 /\ DOMAIN <<>> = 1..0
    BY EmptySeq, LenProperties
  <2>3. Range(<<>>) = {} /\ UpTo(seqs, 0) = {} /\ Distinct(<<>>)
    BY <2>2 DEF Range, UpTo, Distinct
  <2> QED
    BY <1>2, <2>1, <2>2, <2>3
<1>3. CASE N # 0
  <2> DEFINE f == CHOOSE f : f = [i \in 1..Len(seqs) |-> IF i = 1 THEN seqs[i] ELSE f[i - 1] \o seqs[i]]
  <2>1. f = [i \in 1..Len(seqs) |-> IF i = 1 THEN seqs[i] ELSE f[i - 1] \o seqs[i]]
    BY <1>1, FlattenLoop
  <2>2. FlattenSeq(seqs) = f[N]
    BY <1>3 DEF FlattenSeq
  <2> HIDE DEF f
  <2> DEFINE Good(n) == /\ f[n] \in Seq(S) /\ Range(f[n]) = UpTo(seqs, n)
                        /\ Apart => Distinct(f[n])
  <2> DEFINE T == {m \in Nat : m \in 1..N /\ ~Good(m)}
  <2>3. CASE T # {}
    <3>1. PICK m \in T : m = 0 \/ m - 1 \in Nat \ T
      <4>1. T \in SUBSET Nat
        OBVIOUS
      <4> HIDE DEF T
      <4> QED
        BY <2>3, <4>1, FirstOf
    <3>2. m \in 1..N /\ ~Good(m)
      BY <3>1
    <3>3. CASE m = 1
      <4>1. f[1] = seqs[1]
        BY <1>1, <1>3, <2>1
      <4>2. UpTo(seqs, 1) = Range(seqs[1])
        BY DEF UpTo
      <4>3. Good(1)
        BY <1>1, <1>3, <4>1, <4>2
      <4> QED
        BY <3>2, <3>3, <4>3
    <3>4. CASE m # 1
      <4>1. m - 1 \in 1..N /\ m - 1 \notin T /\ m \in Nat
        <5> HIDE DEF T, Good
        <5> QED
          BY <1>1, <3>1, <3>2, <3>4
      <4>2. Good(m - 1)
        <5> HIDE DEF Good
        <5>1. m - 1 \in Nat
          BY <4>1
        <5> QED
          BY <4>1, <5>1
      <4>3. f[m] = f[m - 1] \o seqs[m] /\ seqs[m] \in Seq(S)
        BY <1>1, <2>1, <3>2, <3>4
      <4>4. 1..m = (1..(m - 1)) \cup {m}
        BY <4>1
      <4>5. UpTo(seqs, m) = UpTo(seqs, m - 1) \cup Range(seqs[m])
        BY <4>4 DEF UpTo
      <4>6. /\ f[m] \in Seq(S) /\ Range(f[m]) = Range(f[m - 1]) \cup Range(seqs[m])
            /\ Distinct(f[m - 1]) /\ Distinct(seqs[m]) /\ Range(f[m - 1]) \cap Range(seqs[m]) = {}
               => Distinct(f[m])
        <5> HIDE DEF Good
        <5> DEFINE g == f[m - 1]
        <5>1. g \in Seq(S)
          BY <4>2 DEF Good
        <5> QED
          BY <4>3, <5>1, ConcatRange
      <4>7. ASSUME Apart PROVE Range(f[m - 1]) \cap Range(seqs[m]) = {}
        <5>1. \A i \in 1..(m - 1) : i \in 1..N /\ i # m
          BY <1>1, <3>2
        <5>2. \A i \in 1..(m - 1) : Range(seqs[i]) \cap Range(seqs[m]) = {}
          BY <3>2, <4>7, <5>1
        <5>3. Range(f[m - 1]) = UpTo(seqs, m - 1)
          BY <4>2
        <5> QED
          BY <5>2, <5>3 DEF UpTo
      <4>8. Good(m)
        BY <3>2, <4>2, <4>5, <4>6, <4>7
      <4> QED
        BY <3>2, <4>8
    <3> QED
      BY <3>3, <3>4
  <2>4. CASE T = {}
    <3>1. N \in 1..N
      BY <1>1, <1>3
    <3>2. Good(N)
      BY <1>1, <2>4, <3>1
    <3> QED
      BY <2>2, <3>2
  <2> QED
    BY <2>3, <2>4
<1> QED
  BY <1>2, <1>3
-----------------------------------------------------------------------------
(* What overrides do to an image in a manifest *)

\* The intermediate results of ReplaceImage.
LEMMA ReplaceSteps ==
  ASSUME NEW image, NEW ovs \in Seq(ImageOverride)
  PROVE  \E f : /\ f[0] = image /\ ReplaceImage(image, ovs) = f[Len(ovs)]
                /\ \A n \in 1..Len(ovs) : f[n] = replaceStringNodes(f[n - 1], ovs[n])
<1>1. Len(ovs) \in Nat
  BY LenProperties
<1> DEFINE f == CHOOSE f : IsLoop(f, image, ovs, Len(ovs))
<1>2. f = [n \in 0..Len(ovs) |-> IF n = 0 THEN image ELSE replaceStringNodes(f[n - 1], ovs[n])]
  <2>1. IsLoop(f, image, ovs, Len(ovs))
    BY <1>1, ReplaceLoop
  <2> HIDE DEF f
  <2> QED
    BY <2>1 DEF IsLoop
<1>3. ReplaceImage(image, ovs) = f[Len(ovs)]
  BY DEF ReplaceImage, IsLoop
<1> HIDE DEF f
<1>4. f[0] = image
  BY <1>1, <1>2
<1>5. \A n \in 1..Len(ovs) : f[n] = replaceStringNodes(f[n - 1], ovs[n])
  BY <1>1, <1>2
<1> QED
  BY <1>3, <1>4, <1>5

\* An image ends as it was, if no override is for it, or as what an override
\* makes of it, if no later one is for that.
EndsAs(image, y, ovs, n) ==
  \/ y = image /\ \A j \in 1..n : ovs[j].orig # image.name
  \/ \E i \in 1..n : /\ y = ovs[i].replacement
                     /\ \A j \in (i + 1)..n : ovs[j].orig # y.name

\* Where the replacements of an image end.
LEMMA ReplaceEnds ==
  ASSUME NEW image, NEW ovs \in Seq(ImageOverride)
  PROVE  EndsAs(image, ReplaceImage(image, ovs), ovs, Len(ovs))
<1>1. Len(ovs) \in Nat
  BY LenProperties
<1>2. PICK f : /\ f[0] = image /\ ReplaceImage(image, ovs) = f[Len(ovs)]
               /\ \A n \in 1..Len(ovs) : f[n] = replaceStringNodes(f[n - 1], ovs[n])
  BY ReplaceSteps
<1> DEFINE T == {m \in Nat : m <= Len(ovs) /\ ~EndsAs(image, f[m], ovs, m)}
<1>3. CASE T # {}
  <2>1. PICK m \in T : m = 0 \/ m - 1 \in Nat \ T
    <3>1. T \in SUBSET Nat
      OBVIOUS
    <3> HIDE DEF T
    <3> QED
      BY <1>3, <3>1, FirstOf
  <2>2. m \in Nat /\ m <= Len(ovs) /\ ~EndsAs(image, f[m], ovs, m)
    BY <2>1
  <2>3. CASE m = 0
    BY <1>2, <2>2, <2>3 DEF EndsAs
  <2>4. CASE m # 0
    <3>1. m - 1 \in Nat /\ m - 1 <= Len(ovs) /\ m \in 1..Len(ovs)
      BY <1>1, <2>2, <2>4
    <3>2. EndsAs(image, f[m - 1], ovs, m - 1)
      BY <2>1, <2>4, <3>1
    <3>3. f[m] = replaceStringNodes(f[m - 1], ovs[m])
      BY <1>2, <3>1
    <3>4. CASE f[m - 1].name = ovs[m].orig
      <4>1. f[m] = ovs[m].replacement
        BY <3>3, <3>4 DEF replaceStringNodes
      <4>2. m \in 1..m /\ (m + 1)..m = {}
        BY <2>2, <3>1
      <4> QED
        BY <2>2, <4>1, <4>2 DEF EndsAs
    <3>5. CASE f[m - 1].name # ovs[m].orig
      <4>1. f[m] = f[m - 1]
        BY <3>3, <3>5 DEF replaceStringNodes
      <4>2. CASE f[m - 1] = image /\ \A j \in 1..(m - 1) : ovs[j].orig # image.name
        <5>1. ASSUME NEW j \in 1..m PROVE ovs[j].orig # image.name
          <6>1. j = m \/ j \in 1..(m - 1)
            BY <2>2
          <6> QED
            BY <3>5, <4>2, <6>1
        <5> QED
          BY <2>2, <4>1, <4>2, <5>1 DEF EndsAs
      <4>3. CASE \E i \in 1..(m - 1) : /\ f[m - 1] = ovs[i].replacement
                                       /\ \A j \in (i + 1)..(m - 1) : ovs[j].orig # f[m - 1].name
        <5>1. PICK i \in 1..(m - 1) : /\ f[m - 1] = ovs[i].replacement
                                      /\ \A j \in (i + 1)..(m - 1) : ovs[j].orig # f[m - 1].name
          BY <4>3
        <5>2. ASSUME NEW j \in (i + 1)..m PROVE ovs[j].orig # f[m - 1].name
          <6>1. j = m \/ j \in (i + 1)..(m - 1)
            BY <2>2
          <6> QED
            BY <3>5, <5>1, <6>1
        <5>3. i \in 1..m
          BY <2>2
        <5> QED
          BY <2>2, <4>1, <5>1, <5>2, <5>3 DEF EndsAs
      <4> QED
        BY <3>2, <4>2, <4>3 DEF EndsAs
    <3> QED
      BY <3>4, <3>5
  <2> QED
    BY <2>3, <2>4
<1>4. CASE T = {}
  BY <1>1, <1>2, <1>4
<1> QED
  BY <1>3, <1>4

\* An image stays if every override for it makes that very image.
LEMMA ReplaceKeeps ==
  ASSUME NEW image, NEW ovs \in Seq(ImageOverride),
         \A j \in 1..Len(ovs) : ovs[j].orig = image.name => ovs[j].replacement = image
  PROVE  ReplaceImage(image, ovs) = image
<1>1. Len(ovs) \in Nat
  BY LenProperties
<1>2. PICK f : /\ f[0] = image /\ ReplaceImage(image, ovs) = f[Len(ovs)]
               /\ \A n \in 1..Len(ovs) : f[n] = replaceStringNodes(f[n - 1], ovs[n])
  BY ReplaceSteps
<1> DEFINE T == {m \in Nat : m <= Len(ovs) /\ f[m] # image}
<1>3. CASE T # {}
  <2>1. PICK m \in T : m = 0 \/ m - 1 \in Nat \ T
    <3>1. T \in SUBSET Nat
      OBVIOUS
    <3> HIDE DEF T
    <3> QED
      BY <1>3, <3>1, FirstOf
  <2>2. m \in Nat /\ m <= Len(ovs) /\ f[m] # image
    BY <2>1
  <2>3. m # 0
    BY <1>2, <2>2
  <2>4. m - 1 \in Nat /\ m - 1 <= Len(ovs) /\ m \in 1..Len(ovs)
    BY <1>1, <2>2, <2>3
  <2>5. f[m - 1] = image /\ f[m] = replaceStringNodes(f[m - 1], ovs[m])
    BY <1>2, <2>1, <2>3, <2>4
  <2> QED
    BY <2>2, <2>4, <2>5 DEF replaceStringNodes
<1>4. CASE T = {}
  BY <1>1, <1>2, <1>4
<1> QED
  BY <1>3, <1>4

\* Overrides that do not feed each other backwards change nothing when they
\* are applied again.
LEMMA ReplaceAgain ==
  ASSUME NEW image, NEW ovs \in Seq(ImageOverride),
         \A i \in DOMAIN ovs : \A j \in 1..(i - 1) : ovs[i].replacement.name # ovs[j].orig
  PROVE  ReplaceImage(ReplaceImage(image, ovs), ovs) = ReplaceImage(image, ovs)
<1> DEFINE y == ReplaceImage(image, ovs)
<1>1. Len(ovs) \in Nat /\ DOMAIN ovs = 1..Len(ovs)
  BY LenProperties
<1>2. EndsAs(image, y, ovs, Len(ovs))
  BY ReplaceEnds
<1> HIDE DEF y
<1>3. ASSUME NEW j \in 1..Len(ovs), ovs[j].orig = y.name PROVE ovs[j].replacement = y
  <2>1. CASE y = image /\ \A k \in 1..Len(ovs) : ovs[k].orig # image.name
    BY <1>3, <2>1
  <2>2. CASE \E i \in 1..Len(ovs) : /\ y = ovs[i].replacement
                                    /\ \A k \in (i + 1)..Len(ovs) : ovs[k].orig # y.name
    <3>1. PICK i \in 1..Len(ovs) : /\ y = ovs[i].replacement
                                   /\ \A k \in (i + 1)..Len(ovs) : ovs[k].orig # y.name
      BY <2>2
    <3>2. j \notin (i + 1)..Len(ovs) /\ j \notin 1..(i - 1)
      BY <1>1, <1>3, <3>1
    <3>3. i = j
      BY <1>1, <3>2
    <3> QED
      BY <3>1, <3>3
  <2> QED
    BY <1>2, <2>1, <2>2 DEF EndsAs
<1>4. ReplaceImage(y, ovs) = y
  BY <1>3, ReplaceKeeps
<1> QED
  BY <1>4 DEF y
-----------------------------------------------------------------------------
(* What the overrides of a run say *)

GitNames(cfg) == Range(componentsWithGitRules(cfg))

\* Valid overrides: a list of images, and components that are named once.
LEMMA ConfigFacts ==
  ASSUME NEW cfg \in Configs, validateOverrides(cfg)
  PROVE  /\ imageOverrides(cfg) \in Seq(ImageOverride)
         /\ componentsWithGitRules(cfg) \in Seq(STRING)
         /\ Distinct(componentsWithGitRules(cfg))
         /\ \A c \in GitNames(cfg) : RulesOf(cfg, c) \in Seq(GitRule)
<1>1. /\ cfg \in Seq(Override) /\ Len(cfg) \in Nat /\ DOMAIN cfg = 1..Len(cfg)
      /\ \A i \in 1..Len(cfg) : cfg[i] \in Override
  BY FilesAssumption, LenProperties, ElementOfSeq
<1>2. \A i \in 1..Len(cfg) : /\ cfg[i].name \in STRING
                             /\ cfg[i].git \in Seq(GitRule)
                             /\ cfg[i].images \in Seq(ImageOverride)
  BY <1>1 DEF Override
<1> DEFINE Part(i) == IF cfg[i].git = <<>> THEN <<>> ELSE <<cfg[i].name>>
<1> DEFINE images == [i \in DOMAIN cfg |-> cfg[i].images]
           names == [i \in DOMAIN cfg |-> Part(i)]
<1>3. images \in Seq(Seq(ImageOverride))
  BY <1>1, <1>2
<1>4. imageOverrides(cfg) \in Seq(ImageOverride)
  <2>1. imageOverrides(cfg) = FlattenSeq(images)
    BY DEF imageOverrides
  <2> HIDE DEF images
  <2> QED
    BY <1>3, <2>1, FlattenFacts
<1>5. \A i \in 1..Len(cfg) :
        /\ Part(i) \in Seq(STRING) /\ Distinct(Part(i))
        /\ Range(Part(i)) = IF cfg[i].git = <<>> THEN {} ELSE {cfg[i].name}
  <2> TAKE i \in 1..Len(cfg)
  <2>1. CASE cfg[i].git = <<>>
    <3>1. Part(i) = <<>> /\ DOMAIN <<>> = {} /\ Len(<<>>) = 0 /\ <<>> \in Seq(STRING)
      BY <2>1
    <3> HIDE DEF Part
    <3> QED
      BY <2>1, <3>1 DEF Range, Distinct
  <2>2. CASE cfg[i].git # <<>>
    <3>1. Part(i) = <<cfg[i].name>>
      BY <2>2
    <3> HIDE DEF Part
    <3> DEFINE s == <<cfg[i].name>>
    <3>2. s \in Seq(STRING) /\ Len(s) = 1 /\ DOMAIN s = {1} /\ s[1] = cfg[i].name
      BY <1>2
    <3> HIDE DEF s
    <3>3. Range(s) = {cfg[i].name} /\ Distinct(s)
      BY <3>2 DEF Range, Distinct
    <3> QED
      BY <2>2, <3>1, <3>2, <3>3 DEF s
  <2> QED
    BY <2>1, <2>2
<1> HIDE DEF Part
<1>6. /\ names \in Seq(Seq(STRING)) /\ Len(names) = Len(cfg)
      /\ \A i \in 1..Len(cfg) : names[i] = Part(i)
  BY <1>1, <1>5
<1>7. componentsWithGitRules(cfg) = FlattenSeq(names)
  BY DEF componentsWithGitRules, Part
<1> HIDE DEF names
<1>8. \A i, j \in 1..Len(cfg) : i # j => cfg[i].name # cfg[j].name
  <2> SUFFICES ASSUME NEW i \in 1..Len(cfg), NEW j \in 1..Len(cfg), i # j
               PROVE  cfg[i].name # cfg[j].name
    OBVIOUS
  <2>1. j \in 1..(i - 1) \/ i \in 1..(j - 1)
    BY <1>1
  <2> QED
    BY <1>1, <2>1 DEF validateOverrides
<1>9. \A i, j \in 1..Len(names) : i # j => Range(names[i]) \cap Range(names[j]) = {}
  <2> SUFFICES ASSUME NEW i \in 1..Len(cfg), NEW j \in 1..Len(cfg), i # j
               PROVE  Range(Part(i)) \cap Range(Part(j)) = {}
    BY <1>6
  <2>1. cfg[i].name # cfg[j].name
    BY <1>8
  <2> QED
    BY <1>5, <2>1
<1>10. /\ FlattenSeq(names) \in Seq(STRING)
       /\ Range(FlattenSeq(names)) = UpTo(names, Len(names))
       /\ Distinct(FlattenSeq(names))
  BY <1>5, <1>6, <1>9, FlattenFacts
<1>11. ASSUME NEW c \in GitNames(cfg) PROVE RulesOf(cfg, c) \in Seq(GitRule)
  <2>1. PICK i \in 1..Len(cfg) : c \in Range(Part(i))
    BY <1>6, <1>7, <1>10 DEF GitNames, UpTo
  <2>2. c = cfg[i].name
    BY <1>5, <2>1
  <2>3. \E k \in DOMAIN cfg : cfg[k].name = c
    BY <1>1, <2>2
  <2> DEFINE k == CHOOSE k \in DOMAIN cfg : cfg[k].name = c
  <2>4. k \in DOMAIN cfg
    BY <2>3
  <2>5. RulesOf(cfg, c) = cfg[k].git
    BY DEF RulesOf
  <2> HIDE DEF k
  <2> QED
    BY <1>1, <1>2, <2>4, <2>5
<1> QED
  BY <1>4, <1>7, <1>10, <1>11

\* The rules that come first for their repository.
Source(rules, i) == normalizeOrgRepo(rules[i].sourceRepo)
FirstRules(rules) ==
  {i \in DOMAIN rules : \A j \in 1..(i - 1) : Source(rules, j) # Source(rules, i)}

\* A resource goes where the first rule for its repository points.
LEMMA RewriteFacts ==
  ASSUME NEW rules \in Seq(GitRule), NEW r
  PROVE  /\ ~OnGitHub(r) => Rewrite(r, rules) = r
         /\ (\A i \in FirstRules(rules) : Source(rules, i) # githubURLParts(r)) => Rewrite(r, rules) = r
         /\ \A i \in FirstRules(rules) :
              OnGitHub(r) /\ Source(rules, i) = githubURLParts(r) => Rewrite(r, rules) = Target(rules[i])
<1>1. /\ Len(rules) \in Nat /\ DOMAIN rules = 1..Len(rules)
      /\ \A i \in DOMAIN rules : rules[i] \in GitRule /\ rules[i] # Absent
  BY FilesAssumption, LenProperties, ElementOfSeq
<1> DEFINE first == {i \in DOMAIN rules : /\ Source(rules, i) = githubURLParts(r)
                                          /\ \A j \in 1..(i - 1) : Source(rules, j) # githubURLParts(r)}
<1>2. firstMatchingRule(githubURLParts(r), rules) = IF first = {} THEN Absent ELSE rules[CHOOSE i \in first : TRUE]
  BY DEF firstMatchingRule, Source
<1>3. first = {i \in FirstRules(rules) : Source(rules, i) = githubURLParts(r)}
  BY DEF FirstRules
<1>4. \A i, j \in first : i = j
  <2> SUFFICES ASSUME NEW i \in first, NEW j \in first, i # j PROVE FALSE
    OBVIOUS
  <2>1. i \in 1..(j - 1) \/ j \in 1..(i - 1)
    BY <1>1
  <2> QED
    BY <2>1
<1> HIDE DEF first
<1>5. first \subseteq DOMAIN rules
  BY DEF first
<1>6. CASE ~OnGitHub(r)
  BY <1>6 DEF Rewrite, RuleOf
<1>7. CASE OnGitHub(r) /\ first = {}
  <2>1. Rewrite(r, rules) = r
    BY <1>2, <1>7 DEF Rewrite, RuleOf
  <2> QED
    BY <1>3, <1>7, <2>1
<1>8. CASE OnGitHub(r) /\ first # {}
  <2>1. PICK i \in first : i = CHOOSE k \in first : TRUE
    BY <1>8
  <2>2. RuleOf(r, rules) = rules[i] /\ rules[i] # Absent
    BY <1>1, <1>2, <1>5, <1>8, <2>1 DEF RuleOf
  <2>3. Rewrite(r, rules) = Target(rules[i])
    BY <2>2 DEF Rewrite, Target
  <2>4. \A k \in FirstRules(rules) : Source(rules, k) = githubURLParts(r) => k = i
    BY <1>3, <1>4, <2>1
  <2> QED
    BY <1>3, <1>8, <2>1, <2>3, <2>4
<1> QED
  BY <1>6, <1>7, <1>8
-----------------------------------------------------------------------------
(* What holds in the middle of a run *)

IsKustomization(k) == k = [resources |-> k.resources, images |-> k.images]
IsManifest(m) == m = [sources |-> m.sources, images |-> m.images]
Files(f) == f = [c \in Components |-> f[c]]

Loops == {"git", "kustomizations", "rebuild", "manifests"}

\* The loops visit each component once; a run works on valid overrides.
RunInv ==
  /\ stage \in Loops \cup {"idle", "done", "failed"}
  /\ stage \in Loops \cup {"done"} => config \in Configs /\ validateOverrides(config) /\ config \in used
  /\ used # {} => config \in used
  /\ todo \in Seq(STRING) /\ Distinct(todo)
  /\ stage \in {"git", "rebuild"} => HasGit(config) /\ Range(todo) \subseteq GitNames(config)
  /\ stage \in {"kustomizations", "manifests"} => Range(todo) \subseteq Components
  /\ Files(upstream) /\ Files(manifests)
  /\ HasGit(config) /\ stage \in {"git", "kustomizations", "rebuild"} => Files(work)

\* The kustomizations of the repository stay as they are while runs have git rules.
UpstreamInv == (\A cfg \in used : HasGit(cfg)) => upstream = Pristine

\* What each loop is to make of a component with git rules.
Gitted(cfg, c) ==
  IF c \in GitNames(cfg)
  THEN applyGitRulesToKustomization(Pristine[c], RulesOf(cfg, c)) ELSE Pristine[c]
Edited(cfg, c) == ImageOverridesInKustomization(Gitted(cfg, c), imageOverrides(cfg))
Built(cfg, c) == Build(c, Edited(cfg, c))
Finished(cfg, c) == ImageOverridesInManifest(Built(cfg, c), imageOverrides(cfg))

\* A loop has done its work on what it has visited, the loops before it on all.
BuildInv ==
  HasGit(config) /\ upstream = Pristine =>
    /\ stage = "git" =>
         \A c \in Components : work[c] = IF c \in Range(todo) THEN Pristine[c] ELSE Gitted(config, c)
    /\ stage = "kustomizations" =>
         \A c \in Components : work[c] = IF c \in Range(todo) THEN Gitted(config, c) ELSE Edited(config, c)
    /\ stage = "rebuild" =>
         \A c \in Components : /\ work[c] = Edited(config, c)
                               /\ c \in GitNames(config) \ Range(todo) => manifests[c] = Built(config, c)
    /\ stage = "manifests" =>
         \A c \in Components \cap GitNames(config) :
           manifests[c] = IF c \in Range(todo) THEN Built(config, c) ELSE Finished(config, c)
    /\ stage = "done" =>
         \A c \in Components \cap GitNames(config) : manifests[c] = Finished(config, c)

Rewritten(cfg, c) ==
  IF c \in GitNames(cfg)
  THEN [i \in DOMAIN Pristine[c].resources |-> Rewrite(Pristine[c].resources[i], RulesOf(cfg, c))]
  ELSE Pristine[c].resources

\* The same of the resources alone, which images in the repository do not touch.
SourceInv ==
  /\ \A c \in Components : /\ IsKustomization(upstream[c]) /\ IsManifest(manifests[c])
                           /\ upstream[c].resources = Pristine[c].resources
  /\ HasGit(config) =>
       /\ stage = "git" =>
            \A c \in Components :
              /\ IsKustomization(work[c])
              /\ work[c].resources = IF c \in Range(todo) THEN Pristine[c].resources ELSE Rewritten(config, c)
       /\ stage \in {"kustomizations", "rebuild"} =>
            \A c \in Components : IsKustomization(work[c]) /\ work[c].resources = Rewritten(config, c)
       /\ stage = "rebuild" =>
            \A c \in (Components \cap GitNames(config)) \ Range(todo) :
              manifests[c].sources = Range(Rewritten(config, c))
       /\ stage \in {"manifests", "done"} =>
            \A c \in Components \cap GitNames(config) : manifests[c].sources = Range(Rewritten(config, c))

\* No image of a manifest is left that was to be replaced.
Clean(cfg, m) ==
  \A i \in DOMAIN m.images :
    m.images[i].name \in Origs(cfg) => MadeLast(m.images[i], imageOverrides(cfg))

CleanInv ==
  /\ stage = "manifests" => \A c \in Components \ Range(todo) : Clean(config, manifests[c])
  /\ stage = "done" => \A c \in Components : Clean(config, manifests[c])

Original(c) == Build(c, Pristine[c])
Replayed(cfg, c) == ImageOverridesInManifest(Original(c), imageOverrides(cfg))

\* With one and the same overrides, a manifest that is not rebuilt is the one
\* checked out or has all its images replaced.
HealInv ==
  /\ used = {} => \A c \in Components : manifests[c] = Original(c)
  /\ used = {config} /\ Forward(config) =>
       \A c \in Components \ GitNames(config) :
         /\ manifests[c] \in {Original(c), Replayed(config, c)}
         /\ stage = "manifests" /\ c \notin Range(todo) => manifests[c] = Replayed(config, c)
         /\ stage = "done" => manifests[c] = Replayed(config, c)


\* A step of a loop.
LEMMA LoopFacts ==
  ASSUME RunInv, todo # <<>>
  PROVE  /\ Head(todo) \in Range(todo) /\ Tail(todo) \in Seq(STRING) /\ Distinct(Tail(todo))
         /\ Range(Tail(todo)) = Range(todo) \ {Head(todo)}
<1>1. todo \in Seq(STRING) /\ Distinct(todo)
  BY DEF RunInv
<1>2. Len(todo) \in Nat \ {0} /\ DOMAIN todo = 1..Len(todo) /\ Head(todo) = todo[1]
  BY <1>1, EmptySeq, LenProperties
<1> DEFINE s == Tail(todo)
<1>3. /\ s \in Seq(STRING) /\ Len(s) = Len(todo) - 1
      /\ \A i \in 1..Len(s) : s[i] = todo[i + 1]
  BY <1>1, HeadTailProperties
<1>4. DOMAIN s = 1..(Len(todo) - 1)
  BY <1>3, LenProperties
<1> HIDE DEF s
<1>5. Distinct(s)
  <2> SUFFICES ASSUME NEW i \in 1..Len(s), NEW j \in 1..Len(s), s[i] = s[j] PROVE i = j
    BY DEF Distinct
  <2>1. i + 1 \in 1..Len(todo) /\ j + 1 \in 1..Len(todo) /\ todo[i + 1] = todo[j + 1]
    BY <1>2, <1>3
  <2>2. i + 1 = j + 1
    BY <1>1, <2>1 DEF Distinct
  <2> QED
    BY <1>2, <1>3, <2>2
<1>6. Range(s) \subseteq Range(todo) \ {Head(todo)}
  <2> SUFFICES ASSUME NEW i \in 1..(Len(todo) - 1) PROVE s[i] \in Range(todo) \ {todo[1]}
    BY <1>2, <1>4 DEF Range
  <2>1. i + 1 \in 1..Len(todo) /\ s[i] = todo[i + 1] /\ i + 1 # 1 /\ 1 \in 1..Len(todo)
    BY <1>2, <1>3
  <2> QED
    BY <1>1, <1>2, <2>1 DEF Range, Distinct
<1>7. Range(todo) \ {Head(todo)} \subseteq Range(s)
  <2> SUFFICES ASSUME NEW i \in 1..Len(todo), todo[i] # todo[1] PROVE todo[i] \in Range(s)
    BY <1>2 DEF Range
  <2>1. i - 1 \in DOMAIN s /\ s[i - 1] = todo[i]
    BY <1>2, <1>3, <1>4
  <2> QED
    BY <2>1 DEF Range
<1>8. Head(todo) \in Range(todo)
  BY <1>2 DEF Range
<1> QED
  BY <1>3, <1>5, <1>6, <1>7, <1>8 DEF s

\* The walk over all directories.
LEMMA WalkFacts == Walk \in Seq(STRING) /\ Distinct(Walk) /\ Range(Walk) = Components
  BY FilesAssumption, LenProperties DEF Distinct, Components

\* What the steps of the loops do, file by file.
LEMMA GitEffect ==
  ASSUME RunInv, applyGitRules
  PROVE  /\ stage = "git" /\ stage' = "git" /\ todo # <<>> /\ todo' = Tail(todo)
         /\ config' = config /\ used' = used /\ upstream' = upstream /\ manifests' = manifests
         /\ Files(work')
         /\ \A d \in Components :
              work'[d] = IF d = Head(todo)
                         THEN applyGitRulesToKustomization(work[d], RulesOf(config, d)) ELSE work[d]
<1>1. /\ stage = "git" /\ stage' = "git" /\ todo # <<>> /\ todo' = Tail(todo)
      /\ config' = config /\ used' = used /\ upstream' = upstream /\ manifests' = manifests
  BY DEF applyGitRules, Visiting
<1>2. Files(work)
  BY <1>1 DEF RunInv
<1> DEFINE c == Head(todo)
           v == applyGitRulesToKustomization(work[c], RulesOf(config, c))
<1>3. \/ c \notin Components /\ work' = work
      \/ work' = [work EXCEPT ![c] = v]
  BY DEF applyGitRules
<1> HIDE DEF v
<1>4. /\ Files([work EXCEPT ![c] = v])
      /\ \A d \in Components : [work EXCEPT ![c] = v][d] = IF d = c THEN v ELSE work[d]
  BY <1>2 DEF Files
<1>5. Files(work') /\ \A d \in Components : work'[d] = IF d = c THEN v ELSE work[d]
  BY <1>2, <1>3, <1>4
<1> QED
  BY <1>1, <1>5 DEF v

\* What rewriting the kustomizations of a component changes.
LEMMA KustomizationEffect ==
  ASSUME RunInv, applyImageOverridesInKustomizations
  PROVE  /\ stage = "kustomizations" /\ stage' = "kustomizations" /\ todo # <<>> /\ todo' = Tail(todo)
         /\ config' = config /\ used' = used /\ manifests' = manifests
         /\ HasGit(config) =>
              /\ upstream' = upstream /\ Files(work')
              /\ \A d \in Components :
                   work'[d] = IF d = Head(todo)
                              THEN ImageOverridesInKustomization(work[d], imageOverrides(config))
                              ELSE work[d]
         /\ ~HasGit(config) =>
              /\ work' = work /\ Files(upstream')
              /\ \A d \in Components :
                   upstream'[d] = IF d = Head(todo)
                                  THEN ImageOverridesInKustomization(upstream[d], imageOverrides(config))
                                  ELSE upstream[d]
<1>1. /\ stage = "kustomizations" /\ stage' = "kustomizations" /\ todo # <<>> /\ todo' = Tail(todo)
      /\ config' = config /\ used' = used /\ manifests' = manifests
  BY DEF applyImageOverridesInKustomizations, Visiting
<1>2. Files(upstream) /\ (HasGit(config) => Files(work))
  BY <1>1 DEF RunInv
<1> DEFINE c == Head(todo)
           w == ImageOverridesInKustomization(work[c], imageOverrides(config))
           u == ImageOverridesInKustomization(upstream[c], imageOverrides(config))
<1>3. /\ HasGit(config) => upstream' = upstream /\ work' = [work EXCEPT ![c] = w]
      /\ ~HasGit(config) => work' = work /\ upstream' = [upstream EXCEPT ![c] = u]
  BY DEF applyImageOverridesInKustomizations
<1> HIDE DEF w, u
<1>4. CASE HasGit(config)
  <2>1. /\ Files([work EXCEPT ![c] = w])
        /\ \A d \in Components : [work EXCEPT ![c] = w][d] = IF d = c THEN w ELSE work[d]
    BY <1>2, <1>4 DEF Files
  <2>2. upstream' = upstream /\ Files(work') /\ \A d \in Components : work'[d] = IF d = c THEN w ELSE work[d]
    BY <1>3, <1>4, <2>1
  <2> QED
    BY <1>1, <1>4, <2>2 DEF w
<1>5. CASE ~HasGit(config)
  <2>1. /\ Files([upstream EXCEPT ![c] = u])
        /\ \A d \in Components : [upstream EXCEPT ![c] = u][d] = IF d = c THEN u ELSE upstream[d]
    BY <1>2 DEF Files
  <2>2. work' = work /\ Files(upstream') /\ \A d \in Components : upstream'[d] = IF d = c THEN u ELSE upstream[d]
    BY <1>3, <1>5, <2>1
  <2> QED
    BY <1>1, <1>5, <2>2 DEF u
<1> QED
  BY <1>4, <1>5

\* What rebuilding a component changes.
LEMMA RebuildEffect ==
  ASSUME RunInv, rebuildManifests
  PROVE  /\ stage = "rebuild" /\ stage' = "rebuild" /\ todo # <<>> /\ todo' = Tail(todo)
         /\ config' = config /\ used' = used /\ upstream' = upstream /\ work' = work
         /\ Files(manifests')
         /\ \A d \in Components :
              manifests'[d] = IF d = Head(todo) THEN Build(d, work[d]) ELSE manifests[d]
<1>1. /\ stage = "rebuild" /\ stage' = "rebuild" /\ todo # <<>> /\ todo' = Tail(todo)
      /\ config' = config /\ used' = used /\ upstream' = upstream /\ work' = work
  BY DEF rebuildManifests, Visiting
<1>2. Files(manifests)
  BY DEF RunInv
<1> DEFINE c == Head(todo)
           v == Build(c, work[c])
<1>3. \/ c \notin Components /\ manifests' = manifests
      \/ manifests' = [manifests EXCEPT ![c] = v]
  BY DEF rebuildManifests
<1> HIDE DEF v
<1>4. /\ Files([manifests EXCEPT ![c] = v])
      /\ \A d \in Components : [manifests EXCEPT ![c] = v][d] = IF d = c THEN v ELSE manifests[d]
  BY <1>2 DEF Files
<1>5. Files(manifests') /\ \A d \in Components : manifests'[d] = IF d = c THEN v ELSE manifests[d]
  BY <1>2, <1>3, <1>4
<1> QED
  BY <1>1, <1>5 DEF v

\* What replacing the images of a component changes.
LEMMA ManifestEffect ==
  ASSUME RunInv, applyImageOverridesInManifests
  PROVE  /\ stage = "manifests" /\ stage' = "manifests" /\ todo # <<>> /\ todo' = Tail(todo)
         /\ config' = config /\ used' = used /\ upstream' = upstream /\ work' = work
         /\ Files(manifests')
         /\ \A d \in Components :
              manifests'[d] = IF d = Head(todo)
                              THEN ImageOverridesInManifest(manifests[d], imageOverrides(config))
                              ELSE manifests[d]
<1>1. /\ stage = "manifests" /\ stage' = "manifests" /\ todo # <<>> /\ todo' = Tail(todo)
      /\ config' = config /\ used' = used /\ upstream' = upstream /\ work' = work
  BY DEF applyImageOverridesInManifests, Visiting
<1>2. Files(manifests)
  BY DEF RunInv
<1> DEFINE c == Head(todo)
           v == ImageOverridesInManifest(manifests[c], imageOverrides(config))
<1>3. manifests' = [manifests EXCEPT ![c] = v]
  BY DEF applyImageOverridesInManifests
<1> HIDE DEF v
<1>4. /\ Files([manifests EXCEPT ![c] = v])
      /\ \A d \in Components : [manifests EXCEPT ![c] = v][d] = IF d = c THEN v ELSE manifests[d]
  BY <1>2 DEF Files
<1>5. Files(manifests') /\ \A d \in Components : manifests'[d] = IF d = c THEN v ELSE manifests[d]
  BY <1>3, <1>4
<1> QED
  BY <1>1, <1>5 DEF v

\* The loop ends and the next one starts.
LEMMA AdvanceEffect ==
  ASSUME RunInv, Advance
  PROVE  /\ todo = <<>> /\ Range(todo) = {}
         /\ config' = config /\ used' = used /\ upstream' = upstream
         /\ manifests' = manifests /\ work' = work
         /\ config \in Configs /\ validateOverrides(config)
         /\ \/ /\ stage = "git" /\ stage' = "kustomizations"
               /\ HasGit(config) /\ todo' = Walk
            \/ /\ stage = "kustomizations" /\ stage' = "rebuild"
               /\ HasGit(config) /\ todo' = componentsWithGitRules(config)
            \/ /\ stage = "kustomizations" /\ stage' = "manifests"
               /\ ~HasGit(config) /\ todo' = Walk
            \/ /\ stage = "rebuild" /\ stage' = "manifests"
               /\ HasGit(config) /\ todo' = Walk
            \/ stage = "manifests" /\ stage' = "done" /\ todo' = todo
<1>1. todo = <<>> => Range(todo) = {}
  BY DEF Range
<1>2. stage \in Loops
  BY DEF Advance, Loops
<1> QED
  BY <1>1, <1>2 DEF Advance, RunInv

\* The types hold initially.
LEMMA RunInit == Init => RunInv
<1> SUFFICES ASSUME Init PROVE RunInv
  OBVIOUS
<1>1. Files(upstream) /\ Files(manifests)
  BY FilesAssumption DEF Init, Files
<1>2. todo \in Seq(STRING) /\ Distinct(todo)
  BY DEF Init, Distinct
<1> QED
  BY <1>1, <1>2 DEF Init, RunInv, Loops

\* Every step keeps the types.
LEMMA RunStep == RunInv /\ [Next]_vars => RunInv'
<1> SUFFICES ASSUME RunInv, [Next]_vars PROVE RunInv'
  OBVIOUS
<1>1. ASSUME NEW cfg \in Configs, Begin(cfg) PROVE RunInv'
  <2>1. /\ config' = cfg /\ used' = used \cup {cfg} /\ validateOverrides(cfg)
        /\ upstream' = upstream /\ manifests' = manifests
        /\ IF HasGit(cfg) THEN work' = upstream /\ stage' = "git" /\ todo' = componentsWithGitRules(cfg)
                          ELSE stage' = "kustomizations" /\ todo' = Walk /\ work' = work
    BY <1>1 DEF Begin
  <2>2. todo' \in Seq(STRING) /\ Distinct(todo')
    BY <2>1, ConfigFacts, WalkFacts
  <2>3. Files(upstream) /\ Files(manifests)
    BY DEF RunInv
  <2> QED
    BY <2>1, <2>2, <2>3, WalkFacts DEF RunInv, Loops, GitNames
<1>2. ASSUME NEW cfg \in Configs, Refuse(cfg) PROVE RunInv'
  BY <1>2 DEF Refuse, RunInv, Loops
<1>3. CASE Advance
  <2>1. todo' \in Seq(STRING) /\ Distinct(todo')
    BY <1>3, AdvanceEffect, ConfigFacts, WalkFacts DEF RunInv
  <2> QED
    BY <1>3, <2>1, AdvanceEffect, WalkFacts DEF RunInv, Loops, GitNames
<1>4. ASSUME stage \in Loops, todo # <<>>, todo' = Tail(todo), stage' = stage,
             config' = config, used' = used,
             Files(upstream'), Files(manifests'), Files(work) => Files(work')
      PROVE  RunInv'
  <2>1. /\ todo' \in Seq(STRING) /\ Distinct(todo') /\ Range(todo') \subseteq Range(todo)
    BY <1>4, LoopFacts
  <2> QED
    BY <1>4, <2>1 DEF RunInv
<1>5. CASE applyGitRules
  BY <1>4, <1>5, GitEffect DEF RunInv, Loops
<1>6. CASE applyImageOverridesInKustomizations
  BY <1>4, <1>6, KustomizationEffect DEF RunInv, Loops
<1>7. CASE rebuildManifests
  BY <1>4, <1>7, RebuildEffect DEF RunInv, Loops
<1>8. CASE applyImageOverridesInManifests
  BY <1>4, <1>8, ManifestEffect DEF RunInv, Loops
<1>9. CASE Fail
  <2>1. <<>> \in Seq(STRING) /\ Distinct(<<>>)
    BY DEF Distinct
  <2> QED
    BY <1>9, <2>1 DEF Fail, RunInv, Loops
<1>10. CASE UNCHANGED vars
  BY <1>10 DEF vars, RunInv
<1> QED
  BY <1>1, <1>2, <1>3, <1>5, <1>6, <1>7, <1>8, <1>9, <1>10 DEF Next
-----------------------------------------------------------------------------
(* What a rebuilt component is made of *)

\* Every step keeps the upstream tree of a component.
LEMMA UpstreamStep == RunInv /\ UpstreamInv /\ [Next]_vars => UpstreamInv'
<1> SUFFICES ASSUME RunInv, UpstreamInv, [Next]_vars, \A cfg \in used' : HasGit(cfg)
             PROVE  upstream' = Pristine
  BY DEF UpstreamInv
<1>1. ASSUME NEW cfg \in Configs, Begin(cfg) PROVE upstream' = Pristine
  BY <1>1 DEF Begin, UpstreamInv
<1>2. ASSUME used' = used, upstream' = upstream PROVE upstream' = Pristine
  BY <1>2 DEF UpstreamInv
<1>3. CASE applyImageOverridesInKustomizations
  <2>1. config \in used /\ used' = used
    BY <1>3, KustomizationEffect DEF RunInv, Loops
  <2>2. HasGit(config)
    BY <2>1
  <2> QED
    BY <1>2, <1>3, <2>1, <2>2, KustomizationEffect
<1>4. CASE applyGitRules \/ rebuildManifests \/ applyImageOverridesInManifests
  BY <1>2, <1>4, GitEffect, RebuildEffect, ManifestEffect
<1>5. CASE Advance
  BY <1>2, <1>5, AdvanceEffect
<1>6. CASE Fail \/ \E cfg \in Configs : Refuse(cfg)
  BY <1>2, <1>6 DEF Fail, Refuse
<1>7. CASE UNCHANGED vars
  BY <1>2, <1>7 DEF vars
<1> QED
  BY <1>1, <1>3, <1>4, <1>5, <1>6, <1>7 DEF Next

\* Every step keeps what a build was made of.
LEMMA BuildStep == RunInv /\ BuildInv /\ [Next]_vars => BuildInv'
<1> SUFFICES ASSUME RunInv, BuildInv, [Next]_vars, HasGit(config'), upstream' = Pristine
             PROVE  BuildInv'
  BY DEF BuildInv
<1>1. ASSUME NEW cfg \in Configs, Begin(cfg) PROVE BuildInv'
  <2>1. /\ config' = cfg /\ upstream' = upstream /\ validateOverrides(cfg)
        /\ work' = upstream /\ stage' = "git" /\ todo' = componentsWithGitRules(cfg)
    BY <1>1 DEF Begin
  <2>2. \A c \in Components : work'[c] = IF c \in Range(todo') THEN Pristine[c] ELSE Gitted(config', c)
    BY <2>1 DEF Gitted, GitNames
  <2> QED
    BY <2>1, <2>2 DEF BuildInv
<1>2. ASSUME NEW cfg \in Configs, Refuse(cfg) PROVE BuildInv'
  BY <1>2 DEF Refuse, BuildInv
<1>3. CASE Advance
  <2>1. /\ config' = config /\ upstream' = upstream /\ manifests' = manifests /\ work' = work
        /\ Range(todo) = {} /\ HasGit(config) /\ upstream = Pristine
    BY <1>3, AdvanceEffect
  <2>2. CASE stage = "git" /\ stage' = "kustomizations" /\ todo' = Walk
    BY <2>1, <2>2, WalkFacts DEF BuildInv
  <2>3. CASE stage = "kustomizations" /\ stage' = "rebuild" /\ todo' = componentsWithGitRules(config)
    BY <2>1, <2>3 DEF BuildInv, GitNames
  <2>4. CASE stage = "rebuild" /\ stage' = "manifests" /\ todo' = Walk
    BY <2>1, <2>4, WalkFacts DEF BuildInv
  <2>5. CASE stage = "manifests" /\ stage' = "done" /\ todo' = todo
    BY <2>1, <2>5 DEF BuildInv
  <2> QED
    BY <1>3, <2>1, <2>2, <2>3, <2>4, <2>5, AdvanceEffect
<1>4. CASE applyGitRules
  <2>1. /\ stage = "git" /\ stage' = "git" /\ config' = config /\ HasGit(config) /\ upstream = Pristine
        /\ Range(todo') = Range(todo) \ {Head(todo)}
        /\ Head(todo) \in Range(todo) /\ Head(todo) \in GitNames(config)
    BY <1>4, GitEffect, LoopFacts DEF RunInv
  <2>2. ASSUME NEW c \in Components
        PROVE  work'[c] = IF c \in Range(todo') THEN Pristine[c] ELSE Gitted(config', c)
    <3>1. work[c] = IF c \in Range(todo) THEN Pristine[c] ELSE Gitted(config, c)
      BY <2>1 DEF BuildInv
    <3>2. work'[c] = IF c = Head(todo)
                     THEN applyGitRulesToKustomization(work[c], RulesOf(config, c)) ELSE work[c]
      BY <1>4, GitEffect
    <3>3. CASE c = Head(todo)
      BY <2>1, <3>1, <3>2, <3>3 DEF Gitted
    <3>4. CASE c # Head(todo)
      BY <2>1, <3>1, <3>2, <3>4
    <3> QED
      BY <3>3, <3>4
  <2> QED
    BY <2>1, <2>2 DEF BuildInv
<1>5. CASE applyImageOverridesInKustomizations
  <2>1. /\ stage = "kustomizations" /\ stage' = "kustomizations" /\ config' = config
        /\ HasGit(config) /\ upstream = Pristine
        /\ Range(todo') = Range(todo) \ {Head(todo)} /\ Head(todo) \in Range(todo)
    BY <1>5, KustomizationEffect, LoopFacts
  <2>2. ASSUME NEW c \in Components
        PROVE  work'[c] = IF c \in Range(todo') THEN Gitted(config', c) ELSE Edited(config', c)
    <3>1. work[c] = IF c \in Range(todo) THEN Gitted(config, c) ELSE Edited(config, c)
      BY <2>1 DEF BuildInv
    <3>2. work'[c] = IF c = Head(todo)
                     THEN ImageOverridesInKustomization(work[c], imageOverrides(config)) ELSE work[c]
      BY <1>5, <2>1, KustomizationEffect
    <3>3. CASE c = Head(todo)
      BY <2>1, <3>1, <3>2, <3>3 DEF Edited
    <3>4. CASE c # Head(todo)
      BY <2>1, <3>1, <3>2, <3>4
    <3> QED
      BY <3>3, <3>4
  <2> QED
    BY <2>1, <2>2 DEF BuildInv
<1>6. CASE rebuildManifests
  <2>1. /\ stage = "rebuild" /\ stage' = "rebuild" /\ config' = config /\ work' = work
        /\ HasGit(config) /\ upstream = Pristine
        /\ Range(todo') = Range(todo) \ {Head(todo)} /\ Head(todo) \in Range(todo)
    BY <1>6, RebuildEffect, LoopFacts
  <2>2. ASSUME NEW c \in Components
        PROVE  /\ work'[c] = Edited(config', c)
               /\ c \in GitNames(config') \ Range(todo') => manifests'[c] = Built(config', c)
    <3>1. /\ work[c] = Edited(config, c)
          /\ c \in GitNames(config) \ Range(todo) => manifests[c] = Built(config, c)
      BY <2>1 DEF BuildInv
    <3>2. manifests'[c] = IF c = Head(todo) THEN Build(c, work[c]) ELSE manifests[c]
      BY <1>6, RebuildEffect
    <3> QED
      BY <2>1, <3>1, <3>2 DEF Built
  <2> QED
    BY <2>1, <2>2 DEF BuildInv
<1>7. CASE applyImageOverridesInManifests
  <2>1. /\ stage = "manifests" /\ stage' = "manifests" /\ config' = config
        /\ HasGit(config) /\ upstream = Pristine
        /\ Range(todo') = Range(todo) \ {Head(todo)} /\ Head(todo) \in Range(todo)
    BY <1>7, ManifestEffect, LoopFacts
  <2>2. ASSUME NEW c \in Components \cap GitNames(config)
        PROVE  manifests'[c] = IF c \in Range(todo') THEN Built(config', c) ELSE Finished(config', c)
    <3>1. manifests[c] = IF c \in Range(todo) THEN Built(config, c) ELSE Finished(config, c)
      BY <2>1 DEF BuildInv
    <3>2. manifests'[c] = IF c = Head(todo)
                          THEN ImageOverridesInManifest(manifests[c], imageOverrides(config)) ELSE manifests[c]
      BY <1>7, ManifestEffect
    <3>3. CASE c = Head(todo)
      BY <2>1, <3>1, <3>2, <3>3 DEF Finished
    <3>4. CASE c # Head(todo)
      BY <2>1, <3>1, <3>2, <3>4
    <3> QED
      BY <3>3, <3>4
  <2> QED
    BY <2>1, <2>2 DEF BuildInv
<1>8. CASE Fail
  BY <1>8 DEF Fail, BuildInv
<1>9. CASE UNCHANGED vars
  BY <1>9 DEF vars, BuildInv
<1> QED
  BY <1>1, <1>2, <1>3, <1>4, <1>5, <1>6, <1>7, <1>8, <1>9 DEF Next

\* What FromPristine says of a component.
LEMMA FromPristineFacts ==
  ASSUME NEW cfg, NEW c \in Components
  PROVE  FromPristine(cfg)[c] = IF c \in GitNames(cfg) THEN Finished(cfg, c) ELSE Replayed(cfg, c)
  BY DEF FromPristine, Finished, Built, Edited, Gitted, Replayed, Original, GitNames

\* A rebuilt component does not depend on earlier runs that had git rules
\* too: the kustomizations are still the ones checked out, and they are all
\* that the build looks at (Runner.Apply copies them afresh).
THEOREM Forgets == Spec => []RebuildForgets
<1>1. Init => RunInv /\ UpstreamInv /\ BuildInv
  <2> SUFFICES ASSUME Init PROVE RunInv /\ UpstreamInv /\ BuildInv
    OBVIOUS
  <2>1. upstream = Pristine /\ stage = "idle"
    BY DEF Init
  <2> QED
    BY <2>1, RunInit DEF UpstreamInv, BuildInv
<1>2. RunInv /\ UpstreamInv /\ BuildInv => RebuildForgets
  <2> SUFFICES ASSUME RunInv, UpstreamInv, BuildInv PROVE RebuildForgets
    OBVIOUS
  <2>1. ASSUME stage = "done", upstream = Pristine, NEW c \in Components \cap GitNames(config)
        PROVE  manifests[c] = FromPristine(config)[c]
    <3>1. HasGit(config)
      BY DEF HasGit, GitNames, Range
    <3> QED
      BY <2>1, <3>1, FromPristineFacts DEF BuildInv
  <2> QED
    BY <2>1 DEF RebuildForgets, UpstreamInv, GitNames
<1> QED
  BY <1>1, <1>2, RunStep, UpstreamStep, BuildStep, PTL DEF Spec
-----------------------------------------------------------------------------
(* Sources *)

\* What the edits of a kustomization, the build and the edit of a manifest
\* make of resources and images.
LEMMA GitFacts ==
  ASSUME NEW k, NEW rules
  PROVE  /\ IsKustomization(applyGitRulesToKustomization(k, rules))
         /\ applyGitRulesToKustomization(k, rules).resources
              = [i \in DOMAIN k.resources |-> Rewrite(k.resources[i], rules)]
  BY DEF applyGitRulesToKustomization, IsKustomization

\* An image override leaves the resources of a kustomization.
LEMMA PatchFacts ==
  ASSUME NEW k, NEW ovs, IsKustomization(k)
  PROVE  /\ IsKustomization(ImageOverridesInKustomization(k, ovs))
         /\ ImageOverridesInKustomization(k, ovs).resources = k.resources
  BY DEF ImageOverridesInKustomization, IsKustomization

\* A build has the resources of its kustomization as its sources.
LEMMA BuildFacts ==
  ASSUME NEW c, NEW k
  PROVE  IsManifest(Build(c, k)) /\ Build(c, k).sources = Range(k.resources)
  BY DEF Build, IsManifest

\* An image override leaves the sources of a manifest.
LEMMA ReplaceFacts ==
  ASSUME NEW m, NEW ovs, IsManifest(m)
  PROVE  /\ IsManifest(ImageOverridesInManifest(m, ovs))
         /\ ImageOverridesInManifest(m, ovs).sources = m.sources
  BY DEF ImageOverridesInManifest, IsManifest

\* It replaces the images of a manifest one by one.
LEMMA ReplacedImages ==
  ASSUME NEW m, NEW ovs, IsManifest(m)
  PROVE  ImageOverridesInManifest(m, ovs).images
           = [i \in DOMAIN m.images |-> ReplaceImage(m.images[i], ovs)]
  BY DEF ImageOverridesInManifest, IsManifest

\* The sources follow the rules initially.
LEMMA SourceInit == Init => SourceInv
<1> SUFFICES ASSUME Init PROVE SourceInv
  OBVIOUS
<1>1. \A c \in Components : IsKustomization(Pristine[c])
  BY FilesAssumption DEF Kustomization, IsKustomization
<1>2. /\ upstream = Pristine /\ stage = "idle"
      /\ \A c \in Components : manifests[c] = Build(c, Pristine[c])
  BY DEF Init
<1> QED
  BY <1>1, <1>2, BuildFacts DEF SourceInv

\* Every step keeps the sources of what has been rewritten.
LEMMA SourceStep == RunInv /\ SourceInv /\ [Next]_vars => SourceInv'
<1> SUFFICES ASSUME RunInv, SourceInv, [Next]_vars PROVE SourceInv'
  OBVIOUS
<1> DEFINE Files1 == \A c \in Components : /\ IsKustomization(upstream[c]) /\ IsManifest(manifests[c])
                                           /\ upstream[c].resources = Pristine[c].resources
<1>0. Files1
  BY DEF SourceInv
<1>1. ASSUME NEW cfg \in Configs, Begin(cfg) PROVE SourceInv'
  <2>1. /\ config' = cfg /\ upstream' = upstream /\ manifests' = manifests /\ validateOverrides(cfg)
        /\ stage' \in {"git", "kustomizations"}
        /\ HasGit(cfg) => work' = upstream /\ stage' = "git" /\ todo' = componentsWithGitRules(cfg)
    BY <1>1 DEF Begin
  <2>2. ASSUME HasGit(cfg), NEW c \in Components
        PROVE  /\ IsKustomization(work'[c])
               /\ work'[c].resources = IF c \in Range(todo') THEN Pristine[c].resources ELSE Rewritten(config', c)
    BY <1>0, <2>1, <2>2 DEF Rewritten, GitNames
  <2> QED
    BY <1>0, <2>1, <2>2 DEF SourceInv
<1>2. ASSUME NEW cfg \in Configs, Refuse(cfg) PROVE SourceInv'
  BY <1>2 DEF Refuse, SourceInv
<1>3. CASE Advance
  <2>1. /\ config' = config /\ upstream' = upstream /\ manifests' = manifests /\ work' = work
        /\ Range(todo) = {}
    BY <1>3, AdvanceEffect
  <2>2. CASE ~HasGit(config)
    BY <1>0, <2>1, <2>2 DEF SourceInv
  <2>3. CASE HasGit(config)
    <3>1. CASE stage = "git" /\ stage' = "kustomizations"
      BY <2>1, <2>3, <3>1 DEF SourceInv
    <3>2. CASE stage = "kustomizations" /\ stage' = "rebuild" /\ todo' = componentsWithGitRules(config)
      BY <2>1, <2>3, <3>2 DEF SourceInv, GitNames
    <3>3. CASE stage = "rebuild" /\ stage' = "manifests"
      BY <2>1, <2>3, <3>3 DEF SourceInv
    <3>4. CASE stage = "manifests" /\ stage' = "done"
      BY <2>1, <2>3, <3>4 DEF SourceInv
    <3> QED
      BY <1>3, <2>3, <3>1, <3>2, <3>3, <3>4, AdvanceEffect
  <2> QED
    BY <2>2, <2>3
<1>4. CASE applyGitRules
  <2>1. /\ stage = "git" /\ stage' = "git" /\ config' = config
        /\ upstream' = upstream /\ manifests' = manifests /\ HasGit(config)
        /\ Range(todo') = Range(todo) \ {Head(todo)}
        /\ Head(todo) \in Range(todo) /\ Head(todo) \in GitNames(config)
    BY <1>4, GitEffect, LoopFacts DEF RunInv
  <2>2. ASSUME NEW c \in Components
        PROVE  /\ IsKustomization(work'[c])
               /\ work'[c].resources = IF c \in Range(todo') THEN Pristine[c].resources ELSE Rewritten(config', c)
    <3>1. /\ IsKustomization(work[c])
          /\ work[c].resources = IF c \in Range(todo) THEN Pristine[c].resources ELSE Rewritten(config, c)
      BY <2>1 DEF SourceInv
    <3>2. work'[c] = IF c = Head(todo)
                     THEN applyGitRulesToKustomization(work[c], RulesOf(config, c)) ELSE work[c]
      BY <1>4, GitEffect
    <3>3. CASE c = Head(todo)
      <4>1. /\ IsKustomization(work'[c])
            /\ work'[c].resources = [i \in DOMAIN work[c].resources |->
                                       Rewrite(work[c].resources[i], RulesOf(config, c))]
        BY <3>2, <3>3, GitFacts
      <4> QED
        BY <2>1, <3>1, <3>3, <4>1 DEF Rewritten
    <3>4. CASE c # Head(todo)
      BY <2>1, <3>1, <3>2, <3>4
    <3> QED
      BY <3>3, <3>4
  <2> QED
    BY <1>0, <2>1, <2>2 DEF SourceInv
<1>5. CASE applyImageOverridesInKustomizations
  <2>1. /\ stage = "kustomizations" /\ stage' = "kustomizations" /\ config' = config
        /\ manifests' = manifests
    BY <1>5, KustomizationEffect
  <2>2. CASE HasGit(config)
    <3>1. ASSUME NEW c \in Components
          PROVE  IsKustomization(work'[c]) /\ work'[c].resources = Rewritten(config', c)
      <4>1. IsKustomization(work[c]) /\ work[c].resources = Rewritten(config, c)
        BY <2>1, <2>2 DEF SourceInv
      <4>2. work'[c] = work[c] \/ work'[c] = ImageOverridesInKustomization(work[c], imageOverrides(config))
        BY <1>5, <2>2, KustomizationEffect
      <4> QED
        BY <2>1, <4>1, <4>2, PatchFacts
    <3>2. upstream' = upstream
      BY <1>5, <2>2, KustomizationEffect
    <3> QED
      BY <1>0, <2>1, <3>1, <3>2 DEF SourceInv
  <2>3. CASE ~HasGit(config)
    <3>1. ASSUME NEW c \in Components
          PROVE  IsKustomization(upstream'[c]) /\ upstream'[c].resources = Pristine[c].resources
      <4>1. upstream'[c] = upstream[c] \/ upstream'[c] = ImageOverridesInKustomization(upstream[c], imageOverrides(config))
        BY <1>5, <2>3, KustomizationEffect
      <4> QED
        BY <1>0, <4>1, PatchFacts
    <3> QED
      BY <1>0, <2>1, <2>3, <3>1 DEF SourceInv
  <2> QED
    BY <2>2, <2>3
<1>6. CASE rebuildManifests
  <2>1. /\ stage = "rebuild" /\ stage' = "rebuild" /\ config' = config /\ work' = work
        /\ upstream' = upstream /\ HasGit(config)
        /\ Range(todo') = Range(todo) \ {Head(todo)} /\ Head(todo) \in Range(todo)
    BY <1>6, RebuildEffect, LoopFacts DEF RunInv
  <2>2. ASSUME NEW c \in Components
        PROVE  /\ IsManifest(manifests'[c])
               /\ c \in GitNames(config') \ Range(todo') => manifests'[c].sources = Range(Rewritten(config', c))
    <3>1. /\ work[c].resources = Rewritten(config, c)
          /\ c \in GitNames(config) \ Range(todo) => manifests[c].sources = Range(Rewritten(config, c))
      BY <2>1 DEF SourceInv
    <3>2. manifests'[c] = IF c = Head(todo) THEN Build(c, work[c]) ELSE manifests[c]
      BY <1>6, RebuildEffect
    <3>3. IsManifest(Build(c, work[c])) /\ Build(c, work[c]).sources = Range(work[c].resources)
      BY BuildFacts
    <3> QED
      BY <1>0, <2>1, <3>1, <3>2, <3>3
  <2> QED
    BY <1>0, <2>1, <2>2 DEF SourceInv
<1>7. CASE applyImageOverridesInManifests
  <2>1. /\ stage = "manifests" /\ stage' = "manifests" /\ config' = config
        /\ upstream' = upstream
    BY <1>7, ManifestEffect
  <2>2. ASSUME NEW c \in Components
        PROVE  IsManifest(manifests'[c]) /\ manifests'[c].sources = manifests[c].sources
    <3>1. manifests'[c] = manifests[c] \/ manifests'[c] = ImageOverridesInManifest(manifests[c], imageOverrides(config))
      BY <1>7, ManifestEffect
    <3>2. /\ IsManifest(ImageOverridesInManifest(manifests[c], imageOverrides(config)))
          /\ ImageOverridesInManifest(manifests[c], imageOverrides(config)).sources = manifests[c].sources
      BY <1>0, ReplaceFacts
    <3> QED
      BY <1>0, <3>1, <3>2
  <2>3. HasGit(config) => \A c \in Components \cap GitNames(config) : manifests[c].sources = Range(Rewritten(config, c))
    BY <2>1 DEF SourceInv
  <2> QED
    BY <1>0, <2>1, <2>2, <2>3 DEF SourceInv
<1>8. CASE Fail
  BY <1>8 DEF Fail, SourceInv
<1>9. CASE UNCHANGED vars
  BY <1>9 DEF vars, SourceInv
<1> QED
  BY <1>1, <1>2, <1>3, <1>4, <1>5, <1>6, <1>7, <1>8, <1>9 DEF Next

\* The resources that the rules make are the ones SourcesFollowRules names.
LEMMA RewrittenSources ==
  ASSUME NEW rules \in Seq(GitRule), NEW res
  PROVE  {Rewrite(r, rules) : r \in res} =
           {r \in res : ~OnGitHub(r) \/ \A i \in FirstRules(rules) : Source(rules, i) # githubURLParts(r)}
           \cup {Target(rules[i]) : i \in {j \in FirstRules(rules) :
                                             \E r \in res : OnGitHub(r) /\ githubURLParts(r) = Source(rules, j)}}
<1> DEFINE Kept == {r \in res : ~OnGitHub(r) \/ \A i \in FirstRules(rules) : Source(rules, i) # githubURLParts(r)}
           Hit == {j \in FirstRules(rules) : \E r \in res : OnGitHub(r) /\ githubURLParts(r) = Source(rules, j)}
<1>1. ASSUME NEW r \in res PROVE Rewrite(r, rules) \in Kept \cup {Target(rules[i]) : i \in Hit}
  <2>1. CASE r \in Kept
    BY <2>1, RewriteFacts
  <2>2. CASE r \notin Kept
    <3>1. OnGitHub(r) /\ \E i \in FirstRules(rules) : Source(rules, i) = githubURLParts(r)
      BY <2>2
    <3>2. PICK i \in FirstRules(rules) : Source(rules, i) = githubURLParts(r)
      BY <3>1
    <3>3. Rewrite(r, rules) = Target(rules[i]) /\ i \in Hit
      BY <3>1, <3>2, RewriteFacts
    <3> QED
      BY <3>3
  <2> QED
    BY <2>1, <2>2
<1>2. ASSUME NEW r \in Kept PROVE r \in {Rewrite(q, rules) : q \in res}
  <2>1. Rewrite(r, rules) = r
    BY RewriteFacts
  <2> QED
    BY <2>1
<1>3. ASSUME NEW i \in Hit PROVE Target(rules[i]) \in {Rewrite(q, rules) : q \in res}
  <2>1. PICK r \in res : OnGitHub(r) /\ githubURLParts(r) = Source(rules, i)
    OBVIOUS
  <2>2. Rewrite(r, rules) = Target(rules[i])
    BY <2>1, RewriteFacts
  <2> QED
    BY <2>2
<1> QED
  BY <1>1, <1>2, <1>3

\* "First matching sourceRepo per resource URL wins" (firstMatchingRule): in
\* every manifest that a run has rebuilt, whatever earlier runs did.
THEOREM FollowRules == Spec => []SourcesFollowRules
<1>1. RunInv /\ SourceInv => SourcesFollowRules
  <2> SUFFICES ASSUME RunInv, SourceInv, stage = "done",
                      NEW c \in Components \cap Range(componentsWithGitRules(config))
               PROVE  LET rules == RulesOf(config, c)
                          first == FirstRules(rules)
                      IN  manifests[c].sources =
                            {r \in Range(Pristine[c].resources) :
                               ~OnGitHub(r) \/ \A i \in first : Source(rules, i) # githubURLParts(r)}
                            \cup {Target(rules[i]) :
                                    i \in {j \in first : \E r \in Range(Pristine[c].resources) :
                                                           OnGitHub(r) /\ githubURLParts(r) = Source(rules, j)}}
    BY DEF SourcesFollowRules, FirstRules, Source
  <2> DEFINE rules == RulesOf(config, c)
             res == Pristine[c].resources
  <2>1. config \in Configs /\ validateOverrides(config)
    BY DEF RunInv
  <2>2. rules \in Seq(GitRule)
    BY <2>1, ConfigFacts DEF GitNames
  <2>3. HasGit(config) /\ c \in GitNames(config)
    BY DEF HasGit, GitNames, Range
  <2>4. manifests[c].sources = Range(Rewritten(config, c))
    BY <2>3 DEF SourceInv
  <2>5. Range(Rewritten(config, c)) = {Rewrite(r, rules) : r \in Range(res)}
    BY <2>3 DEF Rewritten, Range
  <2> HIDE DEF rules, res
  <2>6. manifests[c].sources = {Rewrite(r, rules) : r \in Range(res)}
    BY <2>4, <2>5
  <2> QED
    BY <2>2, <2>6, RewrittenSources DEF rules, res
<1> QED
  BY <1>1, RunInit, RunStep, SourceInit, SourceStep, PTL DEF Spec
-----------------------------------------------------------------------------
(* Images *)

\* A manifest whose images have been through the overrides is clean.
LEMMA ReplacedIsClean ==
  ASSUME NEW cfg, imageOverrides(cfg) \in Seq(ImageOverride), NEW m, IsManifest(m)
  PROVE  Clean(cfg, ImageOverridesInManifest(m, imageOverrides(cfg)))
<1> DEFINE ovs == imageOverrides(cfg)
           e == ImageOverridesInManifest(m, ovs)
<1>1. e.images = [i \in DOMAIN m.images |-> ReplaceImage(m.images[i], ovs)]
  BY ReplacedImages
<1>2. DOMAIN ovs = 1..Len(ovs)
  BY LenProperties
<1> HIDE DEF e
<1>3. ASSUME NEW i \in DOMAIN e.images, e.images[i].name \in Origs(cfg)
      PROVE  MadeLast(e.images[i], ovs)
  <2> DEFINE x == m.images[i]
             y == ReplaceImage(x, ovs)
  <2>1. e.images[i] = y
    BY <1>1
  <2>2. EndsAs(x, y, ovs, Len(ovs))
    BY ReplaceEnds
  <2> HIDE DEF x, y
  <2>3. PICK j \in DOMAIN ovs : ovs[j].orig = y.name
    BY <1>3, <2>1 DEF Origs, Range
  <2>4. \E k \in 1..Len(ovs) : /\ y = ovs[k].replacement
                               /\ \A n \in (k + 1)..Len(ovs) : ovs[n].orig # y.name
    BY <1>2, <2>2, <2>3 DEF EndsAs
  <2> QED
    BY <1>2, <2>1, <2>4 DEF MadeLast
<1> QED
  BY <1>3 DEF Clean, e

\* Every step keeps replaced images replaced.
LEMMA CleanStep == RunInv /\ SourceInv /\ CleanInv /\ [Next]_vars => CleanInv'
<1> SUFFICES ASSUME RunInv, SourceInv, CleanInv, [Next]_vars PROVE CleanInv'
  OBVIOUS
<1>1. CASE \E cfg \in Configs : Begin(cfg) \/ Refuse(cfg)
  BY <1>1 DEF Begin, Refuse, CleanInv
<1>2. CASE Advance
  <2>1. /\ config' = config /\ manifests' = manifests /\ Range(todo) = {}
        /\ stage' = "done" => stage = "manifests"
        /\ stage' = "manifests" => Range(todo') = Components
    BY <1>2, AdvanceEffect, WalkFacts
  <2> QED
    BY <2>1 DEF CleanInv
<1>3. CASE applyGitRules \/ applyImageOverridesInKustomizations \/ rebuildManifests
  BY <1>3, GitEffect, KustomizationEffect, RebuildEffect DEF CleanInv
<1>4. CASE applyImageOverridesInManifests
  <2>1. /\ stage = "manifests" /\ stage' = "manifests" /\ config' = config
        /\ Range(todo') = Range(todo) \ {Head(todo)}
        /\ config \in Configs /\ validateOverrides(config)
    BY <1>4, ManifestEffect, LoopFacts DEF RunInv, Loops
  <2>2. ASSUME NEW c \in Components \ Range(todo') PROVE Clean(config', manifests'[c])
    <3>1. manifests'[c] = IF c = Head(todo)
                          THEN ImageOverridesInManifest(manifests[c], imageOverrides(config)) ELSE manifests[c]
      BY <1>4, ManifestEffect
    <3>2. CASE c = Head(todo)
      <4>1. IsManifest(manifests[c])
        BY DEF SourceInv
      <4> QED
        BY <2>1, <3>1, <3>2, <4>1, ConfigFacts, ReplacedIsClean
    <3>3. CASE c # Head(todo)
      BY <2>1, <3>1, <3>3 DEF CleanInv
    <3> QED
      BY <3>2, <3>3
  <2> QED
    BY <2>1, <2>2 DEF CleanInv
<1>5. CASE Fail
  BY <1>5 DEF Fail, CleanInv
<1>6. CASE UNCHANGED vars
  BY <1>6 DEF vars, CleanInv
<1> QED
  BY <1>1, <1>2, <1>3, <1>4, <1>5, <1>6 DEF Next

\* After a run that succeeded no image that was to be replaced is left in any
\* manifest (applyImageOverridesInManifests), whatever runs came before, unless
\* it was made by an override after all that are for it.
THEOREM NoneLeft == Spec => []NoOriginalLeft
<1>1. Init => CleanInv
  BY DEF Init, CleanInv
<1>2. CleanInv => NoOriginalLeft
  BY DEF CleanInv, Clean, NoOriginalLeft
<1> QED
  BY <1>1, <1>2, RunInit, RunStep, SourceInit, SourceStep, CleanStep, PTL DEF Spec
-----------------------------------------------------------------------------
(* Repeated runs *)

\* A manifest that has been through overrides which do not feed each other
\* backwards stays as it is when it goes through them again.
LEMMA ReplayedAgain ==
  ASSUME NEW cfg, imageOverrides(cfg) \in Seq(ImageOverride), Forward(cfg), NEW c
  PROVE  ImageOverridesInManifest(Replayed(cfg, c), imageOverrides(cfg)) = Replayed(cfg, c)
<1> DEFINE ovs == imageOverrides(cfg)
           m == Original(c)
           e == ImageOverridesInManifest(m, ovs)
           f == ImageOverridesInManifest(e, ovs)
<1>1. IsManifest(m)
  BY BuildFacts DEF Original
<1>2. IsManifest(e) /\ e.images = [i \in DOMAIN m.images |-> ReplaceImage(m.images[i], ovs)]
  BY <1>1, ReplaceFacts, ReplacedImages
<1> HIDE DEF e
<1>3. IsManifest(f) /\ f.sources = e.sources
  BY <1>2, ReplaceFacts
<1>4. f.images = [i \in DOMAIN e.images |-> ReplaceImage(e.images[i], ovs)]
  <2>1. IsManifest(e)
    BY <1>2
  <2> QED
    BY <2>1, ReplacedImages
<1> HIDE DEF f, m, ovs
<1>5. ASSUME NEW i \in DOMAIN m.images PROVE ReplaceImage(e.images[i], ovs) = e.images[i]
  <2>1. e.images[i] = ReplaceImage(m.images[i], ovs)
    BY <1>2
  <2>2. \A k \in DOMAIN ovs : \A j \in 1..(k - 1) : ovs[k].replacement.name # ovs[j].orig
    BY DEF Forward, ovs
  <2>3. ovs \in Seq(ImageOverride)
    BY DEF ovs
  <2> QED
    BY <2>1, <2>2, <2>3, ReplaceAgain
<1>6. f.images = e.images
  <2>1. DOMAIN e.images = DOMAIN m.images
    BY <1>2
  <2>2. f.images = [i \in DOMAIN m.images |-> e.images[i]]
    BY <1>4, <1>5, <2>1
  <2>3. e.images = [i \in DOMAIN m.images |-> e.images[i]]
    BY <1>2
  <2> QED
    BY <2>2, <2>3
<1>7. f = e
  BY <1>2, <1>3, <1>6 DEF IsManifest
<1> QED
  BY <1>7 DEF Replayed, e, f, m, ovs

\* Every step keeps what a repeated run would make of the files.
LEMMA HealStep == RunInv /\ HealInv /\ [Next]_vars => HealInv'
<1> SUFFICES ASSUME RunInv, HealInv, [Next]_vars PROVE HealInv'
  OBVIOUS
<1>1. ASSUME NEW cfg \in Configs, Begin(cfg) PROVE HealInv'
  <2>1. /\ config' = cfg /\ used' = used \cup {cfg} /\ manifests' = manifests
        /\ stage' \in {"git", "kustomizations"}
    BY <1>1 DEF Begin
  <2>2. ASSUME used' = {cfg}, Forward(cfg), NEW c \in Components \ GitNames(cfg)
        PROVE  manifests[c] \in {Original(c), Replayed(cfg, c)}
    <3>1. used = {} \/ (used = {cfg} /\ config = cfg)
      BY <2>1, <2>2 DEF RunInv
    <3> QED
      BY <2>2, <3>1 DEF HealInv
  <2> QED
    BY <2>1, <2>2 DEF HealInv
<1>2. ASSUME NEW cfg \in Configs, Refuse(cfg) PROVE HealInv'
  BY <1>2 DEF Refuse, HealInv
<1>3. CASE Advance
  <2>1. /\ config' = config /\ used' = used /\ manifests' = manifests /\ Range(todo) = {}
        /\ stage' = "done" => stage = "manifests"
        /\ stage' = "manifests" => Range(todo') = Components
    BY <1>3, AdvanceEffect, WalkFacts
  <2> QED
    BY <2>1 DEF HealInv
<1>4. CASE applyGitRules \/ applyImageOverridesInKustomizations
  BY <1>4, GitEffect, KustomizationEffect DEF HealInv
<1>5. CASE rebuildManifests
  <2>1. /\ config' = config /\ used' = used /\ stage' = "rebuild"
        /\ Head(todo) \in GitNames(config) /\ config \in used
    BY <1>5, RebuildEffect, LoopFacts DEF RunInv, Loops
  <2>2. \A c \in Components \ GitNames(config) : manifests'[c] = manifests[c]
    BY <1>5, <2>1, RebuildEffect
  <2> QED
    BY <2>1, <2>2 DEF HealInv
<1>6. CASE applyImageOverridesInManifests
  <2>1. /\ stage = "manifests" /\ stage' = "manifests" /\ config' = config /\ used' = used
        /\ Range(todo') = Range(todo) \ {Head(todo)}
        /\ config \in Configs /\ validateOverrides(config) /\ config \in used
    BY <1>6, ManifestEffect, LoopFacts DEF RunInv, Loops
  <2>2. ASSUME used = {config}, Forward(config), NEW c \in Components \ GitNames(config)
        PROVE  /\ manifests'[c] \in {Original(c), Replayed(config, c)}
               /\ c \notin Range(todo') => manifests'[c] = Replayed(config, c)
    <3>1. manifests'[c] = IF c = Head(todo)
                          THEN ImageOverridesInManifest(manifests[c], imageOverrides(config)) ELSE manifests[c]
      BY <1>6, ManifestEffect
    <3>2. /\ manifests[c] \in {Original(c), Replayed(config, c)}
          /\ c \notin Range(todo) => manifests[c] = Replayed(config, c)
      BY <2>1, <2>2 DEF HealInv
    <3>3. ImageOverridesInManifest(Original(c), imageOverrides(config)) = Replayed(config, c)
      BY DEF Replayed
    <3>4. ImageOverridesInManifest(Replayed(config, c), imageOverrides(config)) = Replayed(config, c)
      BY <2>1, <2>2, ConfigFacts, ReplayedAgain
    <3>5. CASE c = Head(todo)
      BY <3>1, <3>2, <3>3, <3>4, <3>5
    <3>6. CASE c # Head(todo)
      BY <2>1, <3>1, <3>2, <3>6
    <3> QED
      BY <3>5, <3>6
  <2> QED
    BY <2>1, <2>2 DEF HealInv
<1>7. CASE Fail
  BY <1>7 DEF Fail, HealInv
<1>8. CASE UNCHANGED vars
  BY <1>8 DEF vars, HealInv
<1> QED
  BY <1>1, <1>2, <1>3, <1>4, <1>5, <1>6, <1>7, <1>8 DEF Next

\* Repeating a run with the same overrides heals one that failed half-way and
\* does no harm to one that succeeded (Runner.Apply), unless the overrides
\* feed each other backwards: the manifests are what one run makes of the
\* repository as it was checked out.
THEOREM Heals == Spec => []RerunHeals
<1>1. Init => RunInv /\ UpstreamInv /\ BuildInv /\ HealInv
  <2> SUFFICES ASSUME Init PROVE RunInv /\ UpstreamInv /\ BuildInv /\ HealInv
    OBVIOUS
  <2>1. upstream = Pristine /\ stage = "idle" /\ used = {}
        /\ \A c \in Components : manifests[c] = Original(c)
    BY DEF Init, Original
  <2> QED
    BY <2>1, RunInit DEF UpstreamInv, BuildInv, HealInv
<1>2. RunInv /\ UpstreamInv /\ BuildInv /\ HealInv => RerunHeals
  <2> SUFFICES ASSUME RunInv, UpstreamInv, BuildInv, HealInv,
                      stage = "done", used = {config}, Forward(config)
               PROVE  manifests = FromPristine(config)
    BY DEF RerunHeals
  <2>1. ASSUME NEW c \in Components PROVE manifests[c] = FromPristine(config)[c]
    <3>1. CASE c \in GitNames(config)
      <4>1. HasGit(config)
        BY <3>1 DEF HasGit, GitNames, Range
      <4>2. upstream = Pristine
        BY <4>1 DEF UpstreamInv
      <4> QED
        BY <3>1, <4>1, <4>2, FromPristineFacts DEF BuildInv
    <3>2. CASE c \notin GitNames(config)
      BY <3>2, FromPristineFacts DEF HealInv
    <3> QED
      BY <3>1, <3>2
  <2>2. Files(manifests)
    BY DEF RunInv
  <2>3. FromPristine(config) = [c \in Components |-> FromPristine(config)[c]]
    BY DEF FromPristine
  <2> QED
    BY <2>1, <2>2, <2>3 DEF Files
<1> QED
  BY <1>1, <1>2, RunStep, UpstreamStep, BuildStep, HealStep, PTL DEF Spec
=============================================================================

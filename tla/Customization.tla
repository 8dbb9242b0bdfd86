--------------------------- MODULE Customization ---------------------------
(***************************************************************************)
(* How the operand controllers customise what the embedded manifests       *)
(* contain: the overlay on a Pod template and the merge of the build       *)
(* pipelines. Lists are sequences, since the code appends, filters and     *)
(* replaces the first match; a value is a tuple of its parts, <<>> being   *)
(* the empty string.                                                       *)
(***************************************************************************)
EXTENDS Naturals, Sequences, SequencesExt, FiniteSets, TLC

\* Replace the first element with the same key, or append.
Upsert(list, x, Key(_)) ==
  LET i == SelectInSeq(list, LAMBDA y : Key(y) = Key(x))
  IN  IF i = 0 THEN Append(list, x) ELSE [list EXCEPT ![i] = x]

\* The value of an expression, bound to a variable: TLC evaluates a bound
\* variable once and an argument at every use.
Value(set) == CHOOSE v \in set : TRUE

\* The elements of list that are in keep, in their order.
Filter(list, keep) ==
  FlattenSeq([n \in DOMAIN list |-> IF list[n] \in keep THEN <<list[n]>> ELSE <<>>])
DropName(list, name) ==
  Value({Filter(l, {x \in ToSet(l) : x.name # name}) : l \in {list}})

\* A loop over list that updates a result: FoldLeft.
Loop(Step(_, _), result, list) ==
  LET after[i \in 0..Len(list)] ==
        IF i = 0 THEN {result} ELSE {Step(r, list[i]) : r \in after[i - 1]}
  IN  Value(after[Len(list)])

-----------------------------------------------------------------------------
(* Containers *)

EnvVar(name, value) == [name |-> name, value |-> value]
Name(x) == x.name

\* A ContainerSpec of a CR; NoSpec is nil.
ContainerSpec(env, resources) == [env |-> env, resources |-> resources]
NoSpec == ContainerSpec(<<>>, "")

\* Options that build the environment of a container overlay, in the order
\* they are given.
FromContainerSpec(env, spec) == env \o spec.env
WithEnv(env, name, value) == Append(env, EnvVar(name, value))
WithoutEnv(env, name) == DropName(env, name)

\* Mutant: the override goes before what the user has set.
EnvOverrideFirst(env, name, value) == <<EnvVar(name, value)>> \o env

WithEnvOverride(env, name, value) == WithEnv(WithoutEnv(env, name), name, value)
WithOptionalEnvOverride(env, name, value) ==
  IF value = <<>> THEN env ELSE WithEnvOverride(env, name, value)

mergeEnvByName(base, overlay) ==
  Loop(LAMBDA env, e : Upsert(env, e, Name), base, overlay)

\* An argument --flag=value; the key is the flag.
Arg(flag, value) == [flag |-> flag, value |-> value]
argKey(arg) == arg.flag

WithArgReplace(args, flag, value) ==
  IF value = "" THEN args ELSE Append(args, Arg(flag, value))
WithLeaderElection(args, replicas) ==
  IF replicas > 1 THEN Append(args, Arg("leader-elect", "true")) ELSE args

\* A PodOverlay: the overlay of the container, the arguments to replace and the
\* ConfigMap volumes to point elsewhere.
PodOverlay(env, resources, args, volumes) ==
  [env |-> env, resources |-> resources, args |-> args, volumes |-> volumes]

mergeContainerList(base, overlay) ==
  [base EXCEPT !.env = mergeEnvByName(@, overlay.env),
               !.resources = IF overlay.resources = "" THEN @ ELSE overlay.resources,
               !.args = Loop(LAMBDA args, a : Upsert(args, a, argKey), @, overlay.args)]

\* Only volumes that the template has are updated.
applyConfigMapVolumeUpdates(volumes, updates) ==
  [v \in DOMAIN volumes |-> IF v \in DOMAIN updates THEN updates[v] ELSE volumes[v]]

ApplyToPodTemplateSpec(template, overlay) ==
  LET merged == mergeContainerList(template, overlay)
  IN  [merged EXCEPT !.volumes = applyConfigMapVolumeUpdates(@, overlay.volumes)]

ApplyCronJobContainerSpec(template, spec) ==
  ApplyToPodTemplateSpec(template, PodOverlay(spec.env, spec.resources, <<>>, <<>>))

-----------------------------------------------------------------------------
(* Build pipelines *)

\* An entry of the ConfigMap, and one of the CR, which may also be a removal.
Pipeline(name, bundle, description) ==
  [name |-> name, bundle |-> bundle, description |-> description]
Removal(name) == Pipeline(name, "removed", "")
PipelineConfig ==
  [removeDefaults : BOOLEAN, default : STRING,
   pipelines : Seq([name : STRING, bundle : STRING, description : STRING])]

\* An override keeps the description it finds unless it brings its own.
Overriding(list, p) ==
  LET i == SelectInSeq(list, LAMBDA q : q.name = p.name)
  IN  IF i # 0 /\ p.description = "" THEN [p EXCEPT !.description = list[i].description] ELSE p

MergePipeline(list, p) ==
  IF p.bundle = "removed" THEN DropName(list, p.name)
                          ELSE Upsert(list, Overriding(list, p), Name)

mergePipelines(defaults, spec) ==
  Loop(MergePipeline, IF spec.removeDefaults THEN <<>> ELSE defaults, spec.pipelines)

\* Mutant: the default is kept although it has been removed.
KeepDefaultPipeline(name, pipelines) == name

\* A default that is not in the list gives way to the first entry.
ensureDefaultPipeline(name, pipelines) ==
  IF name = "" \/ pipelines = <<>> \/ \E i \in DOMAIN pipelines : pipelines[i].name = name
  THEN name ELSE pipelines[1].name

NoPipelineConfig == [removeDefaults |-> FALSE, default |-> "", pipelines |-> <<>>]

applyPipelineConfigMerge(config, spec) ==
  IF spec = NoPipelineConfig THEN config
  ELSE LET pipelines == mergePipelines(config.pipelines, spec)
           default == IF spec.default # "" THEN spec.default ELSE config.default
       IN  [pipelines |-> pipelines, default |-> ensureDefaultPipeline(default, pipelines)]

\* What the API server admits (the CEL rules of PipelineConfigSpec).
ValidPipelineConfig(spec) ==
  LET entries == ToSet(spec.pipelines)
      kept == {p.name : p \in {q \in entries : q.bundle # "removed"}}
      removed == {p.name : p \in {q \in entries : q.bundle = "removed"}}
  IN  /\ spec.removeDefaults => spec.default \in kept
      /\ spec.default # "" => spec.default \notin removed
=============================================================================

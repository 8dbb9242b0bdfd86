----------------------------- MODULE Overrides -----------------------------
(***************************************************************************)
(* cmd/overrides: before a test deployment, sources and images of          *)
(* components are replaced in the checked-out repository. Apply edits files *)
(* one after the other (kustomizations, a copy of them, the manifests that *)
(* the operator embeds), may fail at any of them, and is run again, with   *)
(* the same overrides or others, on what the last run has left.            *)
(***************************************************************************)
EXTENDS Naturals, Sequences, SequencesExt

CONSTANTS
  Walk,           \* the component directories in the order WalkDir visits them
  Pristine,       \* the kustomization of each component, as checked out
  Base,           \* the images that the sources of each component name
  Digests,        \* what isOCIImageDigest accepts; other pins are tags
  RepoOf,         \* the GitHub repository that an image name ends with
  OrgRepo,        \* org/repo of what normalizeOrgRepo accepts as a repository
  ToLower(_),     \* strings.ToLower
  LocalDirs,      \* the local paths that are directories
  SafeNames,      \* the names validatePathSegment accepts
  Configs,        \* the overrides users may pass
  Absent,
  MaxRuns

Components == Range(Walk)

\* A kustomization: the resources, URLs on GitHub with a ref or local paths, and
\* the entries under images. An entry always has a name in a file that kustomize
\* accepts. An image or entry with neither newTag nor digest has the pin "".
Resource(repo, ref) == [repo |-> repo, ref |-> ref]
Local == "local"

Image(name, pin) == [name |-> name, pin |-> pin]
Kustomization ==
  [resources : Seq([repo : STRING, ref : STRING]),
   images : Seq([name : STRING \ {""}, newName : STRING, pin : STRING])]

\* What the YAML of the overrides is parsed into.
GitRule == [sourceRepo : STRING, localPath : STRING,
            remote : {Absent} \cup [repo : STRING, ref : STRING]]
ImageOverride == [orig : STRING, replacement : [name : STRING, pin : STRING]]
Override == [name : STRING, git : Seq(GitRule), images : Seq(ImageOverride)]

ASSUME FilesAssumption ==
  /\ MaxRuns \in Nat
  /\ Walk \in Seq(STRING) /\ \A i, j \in DOMAIN Walk : Walk[i] = Walk[j] => i = j
  /\ Pristine \in [Components -> Kustomization]
  /\ Base \in [Components -> Seq(STRING)]
  /\ Configs \subseteq Seq(Override)
  /\ Absent \notin GitRule

ASSUME RepoAssumption == \A s \in DOMAIN OrgRepo : ToLower(OrgRepo[s]) # ""

VARIABLES
  upstream,       \* UpstreamDir: the kustomizations of the repository
  work,           \* TmpDir/upstream-kustomizations
  manifests,      \* ManifestsDir: the manifests the operator embeds
  config,         \* the overrides of this run
  stage, todo,    \* the loop that Apply is in and what it has yet to visit
  used,           \* history: the configurations of the runs so far
  runs

vars == <<upstream, work, manifests, config, stage, todo, used, runs>>
-----------------------------------------------------------------------------
(* Validation *)

\* A repository may be written as a URL, with .git or a slash at its end and in
\* any case; "" stands for the error.
normalizeOrgRepo(s) == IF s \in DOMAIN OrgRepo THEN ToLower(OrgRepo[s]) ELSE ""

validateGitRule(g) ==
  /\ normalizeOrgRepo(g.sourceRepo) # ""
  /\ (g.remote # Absent) # (g.localPath # "")
  /\ g.remote # Absent => normalizeOrgRepo(g.remote.repo) # "" /\ g.remote.ref # ""

validateImage(o) == o.orig # "" /\ o.replacement.name # ""

validateOverrides(cfg) ==
  /\ cfg # <<>>
  /\ \A i \in DOMAIN cfg :
       /\ cfg[i].name \in SafeNames
       /\ \A j \in 1..(i - 1) : cfg[j].name # cfg[i].name
       /\ cfg[i].git # <<>> \/ cfg[i].images # <<>>
       /\ \A j \in DOMAIN cfg[i].git : validateGitRule(cfg[i].git[j])
       /\ \A j \in DOMAIN cfg[i].images : validateImage(cfg[i].images[j])

-----------------------------------------------------------------------------
(* What is done to one file *)

\* The first rule for a repository, Absent without one.
firstMatchingRule(repo, rules) ==
  LET first == {i \in DOMAIN rules :
                  /\ normalizeOrgRepo(rules[i].sourceRepo) = repo
                  /\ \A j \in 1..(i - 1) : normalizeOrgRepo(rules[j].sourceRepo) # repo}
  IN  IF first = {} THEN Absent ELSE rules[CHOOSE i \in first : TRUE]

OnGitHub(r) == r.ref # Local

\* The repository of a URL, to which rules are compared.
githubURLParts(r) == ToLower(r.repo)

RuleOf(r, rules) == IF OnGitHub(r) THEN firstMatchingRule(githubURLParts(r), rules) ELSE Absent

\* Where a rule points.
Target(g) == IF g.remote # Absent THEN Resource(normalizeOrgRepo(g.remote.repo), g.remote.ref)
                                  ELSE Resource(g.localPath, Local)

\* Mutant: the last matching rule wins.
RewriteByLast(r, rules) ==
  LET g == IF OnGitHub(r) THEN firstMatchingRule(githubURLParts(r), Reverse(rules)) ELSE Absent
  IN  IF g = Absent THEN r ELSE Target(g)

Rewrite(r, rules) ==
  LET g == RuleOf(r, rules)
  IN  IF g = Absent THEN r ELSE Target(g)

\* A resource is to come from a path that is no directory.
NotADirectory(k, rules) ==
  \E i \in DOMAIN k.resources :
    LET g == RuleOf(k.resources[i], rules)
    IN  g # Absent /\ g.remote = Absent /\ g.localPath \notin LocalDirs

\* newTag follows the new source, for the images of the repositories that were
\* replaced and only if all of those have one ref.
ReplacedResources(k, rules) ==
  {i \in DOMAIN k.resources :
     LET g == RuleOf(k.resources[i], rules) IN g # Absent /\ g.remote # Absent}
NewRefs(k, rules) == {RuleOf(k.resources[i], rules).remote.ref : i \in ReplacedResources(k, rules)}
Bumped(k, i, rules) ==
  /\ \E ref \in NewRefs(k, rules) : NewRefs(k, rules) = {ref}
  /\ k.images[i].pin # "" /\ k.images[i].pin \notin Digests
  /\ \E j \in ReplacedResources(k, rules) :
       RepoOf[k.images[i].name] = githubURLParts(k.resources[j])

applyGitRulesToKustomization(k, rules) ==
  [resources |-> [i \in DOMAIN k.resources |-> Rewrite(k.resources[i], rules)],
   images |-> [i \in DOMAIN k.images |->
                 IF Bumped(k, i, rules)
                 THEN [k.images[i] EXCEPT !.pin = CHOOSE ref \in NewRefs(k, rules) : TRUE]
                 ELSE k.images[i]]]

parseImageReference(image) ==
  [name |-> image.name, pin |-> IF image.pin = "" THEN "latest" ELSE image.pin]

\* One override on one entry under images.
OverrideEntry(e, o) ==
  IF e.name # o.orig THEN e
  ELSE [name |-> e.name, newName |-> parseImageReference(o.replacement).name,
        pin |-> parseImageReference(o.replacement).pin]

\* Only a file that pins some image by its digest is touched.
Patched(k, overrides) ==
  /\ \E i \in DOMAIN k.images : k.images[i].pin \in Digests
  /\ \E i \in DOMAIN k.images, j \in DOMAIN overrides : k.images[i].name = overrides[j].orig

PatchEntry(e, overrides) == FoldLeft(OverrideEntry, e, overrides)

ImageOverridesInKustomization(k, overrides) ==
  IF ~Patched(k, overrides) THEN k
  ELSE [k EXCEPT !.images = [i \in DOMAIN k.images |-> PatchEntry(k.images[i], overrides)]]

\* kustomize build: the entries one after the other, each for the images that
\* then have its name; without newName or pin the image keeps its own.
Render(image, e) ==
  IF image.name # e.name THEN image
  ELSE Image(IF e.newName = "" THEN image.name ELSE e.newName,
             IF e.pin = "" THEN image.pin ELSE e.pin)

RenderImage(name, k) == FoldLeft(Render, Image(name, ""), k.images)

Build(c, k) ==
  [sources |-> Range(k.resources),
   images |-> [i \in DOMAIN Base[c] |-> RenderImage(Base[c][i], k)]]

\* Mutant: an image with a tag or a digest is not found.
ReplaceBareOnly(image, o) ==
  IF image.name = o.orig /\ image.pin = "" THEN o.replacement ELSE image

\* A string that is the image's name, up to a tag or digest, becomes the
\* replacement as it was given.
replaceStringNodes(image, o) == IF image.name = o.orig THEN o.replacement ELSE image

\* The overrides one after the other: what one has made, a later one may match.
ReplaceImage(image, overrides) ==
  LET after[n \in 0..Len(overrides)] ==
        IF n = 0 THEN image ELSE replaceStringNodes(after[n - 1], overrides[n])
  IN  after[Len(overrides)]

ImageOverridesInManifest(m, overrides) ==
  [m EXCEPT !.images = [i \in DOMAIN m.images |-> ReplaceImage(m.images[i], overrides)]]
-----------------------------------------------------------------------------
(* One run of the program *)

imageOverrides(cfg) == FlattenSeq([i \in DOMAIN cfg |-> cfg[i].images])

componentsWithGitRules(cfg) ==
  FlattenSeq([i \in DOMAIN cfg |-> IF cfg[i].git = <<>> THEN <<>> ELSE <<cfg[i].name>>])

RulesOf(cfg, name) == cfg[CHOOSE i \in DOMAIN cfg : cfg[i].name = name].git

HasGit(cfg) == componentsWithGitRules(cfg) # <<>>

Init ==
  /\ upstream = Pristine
  /\ work = <<>>
  /\ manifests = [c \in Components |-> Build(c, Pristine[c])]
  /\ config = <<>> /\ stage = "idle" /\ todo = <<>>
  /\ used = {} /\ runs = 0

Resting == stage \in {"idle", "done", "failed"}

\* Invalid overrides are refused before any file is touched.
Refuse(cfg) ==
  /\ Resting /\ runs < MaxRuns /\ ~validateOverrides(cfg)
  /\ runs' = runs + 1 /\ stage' = "failed"
  /\ UNCHANGED <<upstream, work, manifests, config, todo, used>>

\* Mutant: the copy of an earlier run is used again.
BeginOnOldCopy(cfg) ==
  /\ Resting /\ runs < MaxRuns /\ validateOverrides(cfg)
  /\ runs' = runs + 1 /\ config' = cfg /\ used' = used \cup {cfg}
  /\ IF HasGit(cfg)
     THEN /\ work' = IF work = <<>> THEN upstream ELSE work
          /\ stage' = "git" /\ todo' = componentsWithGitRules(cfg)
     ELSE /\ stage' = "kustomizations" /\ todo' = Walk
          /\ UNCHANGED work
  /\ UNCHANGED <<upstream, manifests>>

\* Apply until its first loop: with git rules it works on a fresh copy. (A copy
\* that fails half-way is as a Fail at once: what there is of it is not read, the
\* next run removes it. component-sources.json, written before, nobody reads.)
Begin(cfg) ==
  /\ Resting /\ runs < MaxRuns /\ validateOverrides(cfg)
  /\ runs' = runs + 1 /\ config' = cfg /\ used' = used \cup {cfg}
  /\ IF HasGit(cfg)
     THEN /\ work' = upstream
          /\ stage' = "git" /\ todo' = componentsWithGitRules(cfg)
     ELSE /\ stage' = "kustomizations" /\ todo' = Walk
          /\ UNCHANGED work
  /\ UNCHANGED <<upstream, manifests>>

\* The loop of a stage has ended.
Advance ==
  /\ todo = <<>>
  /\ \/ stage = "git" /\ stage' = "kustomizations" /\ todo' = Walk
     \/ /\ stage = "kustomizations" /\ HasGit(config)
        /\ stage' = "rebuild" /\ todo' = componentsWithGitRules(config)
     \/ /\ stage = "kustomizations" /\ ~HasGit(config)
        /\ stage' = "manifests" /\ todo' = Walk
     \/ stage = "rebuild" /\ stage' = "manifests" /\ todo' = Walk
     \/ stage = "manifests" /\ stage' = "done" /\ UNCHANGED todo
  /\ UNCHANGED <<upstream, work, manifests, config, used, runs>>

Visiting(s) == stage = s /\ todo # <<>>

\* A component without a directory is passed over.
applyGitRules ==
  /\ Visiting("git")
  /\ LET c == Head(todo)
     IN  IF c \notin Components THEN UNCHANGED work
         ELSE /\ ~NotADirectory(work[c], RulesOf(config, c))
              /\ work' = [work EXCEPT ![c] =
                            applyGitRulesToKustomization(@, RulesOf(config, c))]
  /\ todo' = Tail(todo)
  /\ UNCHANGED <<upstream, manifests, config, stage, used, runs>>

\* Without git rules the kustomizations of the repository itself are edited.
applyImageOverridesInKustomizations ==
  /\ Visiting("kustomizations")
  /\ LET files == IF HasGit(config) THEN work ELSE upstream
         edited == [files EXCEPT ![Head(todo)] =
                      ImageOverridesInKustomization(@, imageOverrides(config))]
     IN  IF HasGit(config) THEN work' = edited /\ UNCHANGED upstream
                           ELSE upstream' = edited /\ UNCHANGED work
  /\ todo' = Tail(todo)
  /\ UNCHANGED <<manifests, config, stage, used, runs>>

\* Mutant: the build looks at the repository instead of the edited copy.
rebuildFromUpstream ==
  /\ Visiting("rebuild")
  /\ LET c == Head(todo)
     IN  IF c \notin Components THEN UNCHANGED manifests
         ELSE manifests' = [manifests EXCEPT ![c] = Build(c, upstream[c])]
  /\ todo' = Tail(todo)
  /\ UNCHANGED <<upstream, work, config, stage, used, runs>>

rebuildManifests ==
  /\ Visiting("rebuild")
  /\ LET c == Head(todo)
     IN  IF c \notin Components THEN UNCHANGED manifests
         ELSE manifests' = [manifests EXCEPT ![c] = Build(c, work[c])]
  /\ todo' = Tail(todo)
  /\ UNCHANGED <<upstream, work, config, stage, used, runs>>

applyImageOverridesInManifests ==
  /\ Visiting("manifests")
  /\ manifests' = [manifests EXCEPT ![Head(todo)] =
                     ImageOverridesInManifest(@, imageOverrides(config))]
  /\ todo' = Tail(todo)
  /\ UNCHANGED <<upstream, work, config, stage, used, runs>>

\* A file cannot be read or written, a build fails, a path is no directory:
\* Apply returns with what it has done so far, the program exits with 1.
Fail ==
  /\ ~Resting /\ todo # <<>>
  /\ stage' = "failed" /\ todo' = <<>>
  /\ UNCHANGED <<upstream, work, manifests, config, used, runs>>

Next ==
  \/ \E cfg \in Configs : Begin(cfg) \/ Refuse(cfg)
  \/ Advance
  \/ applyGitRules \/ applyImageOverridesInKustomizations
  \/ rebuildManifests \/ applyImageOverridesInManifests
  \/ Fail

Spec == Init /\ [][Next]_vars
-----------------------------------------------------------------------------
(* Properties *)

Origs(cfg) == {o.orig : o \in Range(imageOverrides(cfg))}

\* The last override that could have replaced it has made this image.
MadeLast(image, overrides) ==
  \E n \in DOMAIN overrides :
    /\ image = overrides[n].replacement
    /\ \A j \in (n + 1)..Len(overrides) : overrides[j].orig # image.name

\* After a run that succeeded no image that was to be replaced is left in any
\* manifest, wherever it came from: the embedded manifests, a rebuilt one, a
\* kustomization edited in place by an earlier run, a new tag, or another
\* override, unless all that are for it come before that one.
NoOriginalLeft ==
  stage = "done" =>
    \A c \in Components : \A i \in DOMAIN manifests[c].images :
      manifests[c].images[i].name \in Origs(config)
        => MadeLast(manifests[c].images[i], imageOverrides(config))

\* "First matching sourceRepo per resource URL wins", however the repository is
\* written: what a rebuilt manifest is made of is where the first rule for it
\* points.
SourcesFollowRules ==
  stage = "done" =>
    \A c \in Components \cap Range(componentsWithGitRules(config)) :
      LET rules == RulesOf(config, c)
          Source(i) == normalizeOrgRepo(rules[i].sourceRepo)
          first == {i \in DOMAIN rules : \A j \in 1..(i - 1) : Source(j) # Source(i)}
      IN  manifests[c].sources =
            {r \in Range(Pristine[c].resources) :
               ~OnGitHub(r) \/ \A i \in first : Source(i) # githubURLParts(r)}
            \cup {Target(rules[i]) :
                    i \in {j \in first : \E r \in Range(Pristine[c].resources) :
                                           OnGitHub(r) /\ githubURLParts(r) = Source(j)}}

\* What a run is to make of the files as they were checked out.
FromPristine(cfg) ==
  [c \in Components |->
     LET git == c \in Range(componentsWithGitRules(cfg))
         k == IF git THEN applyGitRulesToKustomization(Pristine[c], RulesOf(cfg, c)) ELSE Pristine[c]
         built == Build(c, IF git THEN ImageOverridesInKustomization(k, imageOverrides(cfg)) ELSE k)
     IN  ImageOverridesInManifest(built, imageOverrides(cfg))]

\* No override makes an image that an earlier one replaces.
Forward(cfg) ==
  LET ovs == imageOverrides(cfg)
  IN  \A i \in DOMAIN ovs : \A j \in 1..(i - 1) : ovs[i].replacement.name # ovs[j].orig

\* Repeating a run heals one that failed half-way, and does no harm to one
\* that succeeded: the manifests are what a single run makes of the
\* repository. (Of overrides that feed each other backwards that is not true,
\* nor after a run with other overrides, which cannot be undone.)
RerunHeals ==
  stage = "done" /\ used = {config} /\ Forward(config) => manifests = FromPristine(config)

\* A rebuilt component does not depend on earlier runs with other overrides, as
\* long as those had git rules: the kustomizations of the repository are still
\* the ones checked out then, and they are all the build looks at.
RebuildForgets ==
  /\ (\A cfg \in used : HasGit(cfg)) => upstream = Pristine
  /\ stage = "done" /\ upstream = Pristine =>
       \A c \in Components \cap Range(componentsWithGitRules(config)) :
         manifests[c] = FromPristine(config)[c]
=============================================================================

---------------------------- MODULE MCOverrides ----------------------------
(***************************************************************************)
(* Two components, one pinned by a tag and one by digests, and overrides   *)
(* with remote and local sources, with tags, digests and neither, that     *)
(* feed each other or repeat a name, and invalid ones. Repositories are    *)
(* written in upper and lower case and as URLs.                            *)
(***************************************************************************)
EXTENDS Overrides
MCEntry(name, newName, pin) == [name |-> name, newName |-> newName, pin |-> pin]
MCWalk == <<"bridge", "ui">>
MCPristine ==
  [bridge |-> [resources |-> <<Resource("o/bridge", "v1"), Resource("O/Lib", "v1")>>,
               images |-> <<MCEntry("o/bridge", "o/bridge", "v1")>>],
   ui |-> [resources |-> <<Resource("dir", "local"), Resource("o/ui", "v1")>>,
           images |-> <<MCEntry("o/ui", "", "v1"), MCEntry("proxy", "o/proxy", ""),
                        MCEntry("o/proxy", "o/caddy", "sha1")>>]]
MCBase == [bridge |-> <<"o/bridge">>, ui |-> <<"o/ui", "proxy">>]
MCDigests == {"sha1", "sha2"}
MCRepoOf == [n \in {"o/bridge", "o/ui", "o/caddy", "o/proxy", "fork/ui"} |-> n] @@ [proxy |-> "none"]
\* The repositories as they may be written, and without URL, slash and .git.
MCOrgRepo ==
  [n \in {"o/bridge", "o/lib", "o/ui", "fork/ui", "fork/bridge", "Fork/UI"} |-> n]
  @@ ("https://github.com/O/Bridge.git" :> "O/Bridge") @@ ("O/UI/" :> "O/UI")
MCLower == ("O/Bridge" :> "o/bridge") @@ ("O/Lib" :> "o/lib") @@ ("O/UI" :> "o/ui")
           @@ ("Fork/UI" :> "fork/ui")
MCToLower(s) == IF s \in DOMAIN MCLower THEN MCLower[s] ELSE s
MCRemote(source, repo, ref) ==
  [sourceRepo |-> source, remote |-> [repo |-> repo, ref |-> ref], localPath |-> ""]
MCLocal(source, path) == [sourceRepo |-> source, remote |-> Absent, localPath |-> path]
MCImage(orig, name, pin) == [orig |-> orig, replacement |-> Image(name, pin)]
MCOverride(name, git, images) == [name |-> name, git |-> git, images |-> images]
MCConfigs ==
  {\* images only: a tag, a digest, neither
   <<MCOverride("bridge", <<>>, <<MCImage("o/bridge", "o/bridge", "pr")>>)>>,
   <<MCOverride("ui", <<>>, <<MCImage("proxy", "o/proxy", ""), MCImage("o/ui", "fork/ui", "sha2")>>)>>,
   \* a source and its image, two rules for one repository
   <<MCOverride("bridge", <<MCRemote("https://github.com/O/Bridge.git", "o/bridge", "pr"),
                            MCRemote("o/bridge", "fork/bridge", "v2")>>,
                          <<MCImage("o/bridge", "o/bridge", "pr")>>)>>,
   \* two refs, a local directory, images of the other component
   <<MCOverride("bridge", <<MCRemote("o/bridge", "o/bridge", "pr"),
                            MCRemote("o/lib", "o/lib", "v2")>>, <<>>),
     MCOverride("ui", <<MCLocal("O/UI/", "here")>>, <<MCImage("o/caddy", "o/caddy", "pr")>>)>>,
   \* one image becomes another, which is replaced in turn; and the other way round
   <<MCOverride("ui", <<MCRemote("o/ui", "Fork/UI", "pr")>>,
                      <<MCImage("o/ui", "fork/ui", "pr"), MCImage("fork/ui", "o/caddy", "")>>)>>,
   <<MCOverride("ui", <<>>, <<MCImage("fork/ui", "o/caddy", ""), MCImage("o/ui", "fork/ui", "pr")>>)>>,
   \* no such component; no such directory
   <<MCOverride("ghost", <<MCRemote("o/ui", "fork/ui", "pr")>>, <<>>)>>,
   <<MCOverride("ui", <<MCLocal("o/ui", "nowhere")>>, <<>>)>>,
   \* invalid: no org, in either place, both kinds of source, a name twice, no
   \* image, nothing to do
   <<MCOverride("ui", <<MCLocal("ui", "here")>>, <<>>)>>,
   <<MCOverride("ui", <<MCRemote("o/ui", "ui", "pr")>>, <<>>)>>,
   <<MCOverride("ui", <<[MCLocal("o/ui", "here") EXCEPT !.remote = [repo |-> "fork/ui", ref |-> "pr"]]>>, <<>>)>>,
   <<MCOverride("ui", <<>>, <<MCImage("o/ui", "fork/ui", "")>>),
     MCOverride("ui", <<>>, <<MCImage("proxy", "o/ui", "pr")>>)>>,
   <<MCOverride("ui", <<>>, <<MCImage("o/ui", "", "pr")>>)>>,
   <<MCOverride("ui", <<>>, <<>>)>>}
=============================================================================

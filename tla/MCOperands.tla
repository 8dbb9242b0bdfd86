----------------------------- MODULE MCOperands -----------------------------
(***************************************************************************)
(* A few specs for each operand: its defaults, metrics and several         *)
(* replicas, and the typed fields together with an environment of the user *)
(* that says otherwise.                                                    *)
(***************************************************************************)
EXTENDS Operands

MCEnv(names) == [i \in DOMAIN names |-> EnvVar(names[i], <<"user">>)]
MCUser(names) == ContainerSpec(MCEnv(names), "large")
MCMetrics == [DefaultSpec EXCEPT !.metrics = TRUE, !.replicas = 2]
MCNoDefault == [NoPipelineConfig EXCEPT !.pipelines =
                  <<Removal("docker"), Pipeline("own", "b1", "")>>]
MCRemovedAgain == [NoPipelineConfig EXCEPT !.default = "fbc", !.pipelines =
                     <<Pipeline("own", "b1", ""), Pipeline("docker", "b2", ""), Removal("own"),
                       Pipeline("fbc", "b3", "user"), Removal("docker")>>]
MCOnlyOwn == [removeDefaults |-> TRUE, default |-> "own", pipelines |->
                <<Pipeline("own", "b1", ""), Pipeline("docker", "b2", "")>>]
MCNoneLeft == [NoPipelineConfig EXCEPT !.pipelines = <<Removal("docker"), Removal("fbc")>>]

MCSpecs ==
  [build |->
     {[MCMetrics EXCEPT !.pipelines = MCNoDefault],
      [DefaultSpec EXCEPT !.webhooks = "w2", !.pipelines = MCRemovedAgain],
      [DefaultSpec EXCEPT !.pac = "yes", !.encoder = "console", !.replicas = 1,
          !.pipelines = MCOnlyOwn,
          !.manager = MCUser(<<"PAC_WEBHOOK_INSECURE_SSL", "PAC_NAMESPACE", "OWN">>)],
      [DefaultSpec EXCEPT !.pac = "no", !.webhooks = "w1", !.replicas = 3,
          !.pipelines = MCNoneLeft,
          !.manager = MCUser(<<"PAC_WEBHOOK_URL", "PAC_WEBHOOK_INSECURE_SSL">>)]},
   integration |->
     {DefaultSpec,
      [MCMetrics EXCEPT !.timeout = <<"2h">>, !.keep = <<"5">>,
          !.cron = MCUser(<<"PR_SNAPSHOTS_TO_KEEP">>),
          !.manager = MCUser(<<"PIPELINE_TIMEOUT", "CONSOLE_URL">>)]},
   image |->
     {[MCMetrics EXCEPT !.encoder = "json"],
      [DefaultSpec EXCEPT !.caBundle = "own-ca", !.replicas = 1, !.cron = MCUser(<<"QUAY_TOKEN">>),
          !.manager = MCUser(<<"QUAY_ADDITIONAL_CA">>)],
      [DefaultSpec EXCEPT !.caBundle = "quay-ca-bundle"]},
   release |->
     {[MCMetrics EXCEPT !.debug = TRUE],
      [DefaultSpec EXCEPT !.overrides = "o1", !.replicas = 1,
          !.manager = MCUser(<<"SERVICE_NAMESPACE">>)]},
   lister |->
     {[DefaultSpec EXCEPT !.replicas = 2, !.logLevel = "debug",
          !.manager = MCUser(<<"LOG_LEVEL", "OWN", "LOG_LEVEL">>)],
      [DefaultSpec EXCEPT !.replicas = 1, !.resync = <<"1m">>, !.logLevel = "error",
          !.manager = MCUser(<<"AUTH_USERNAME_HEADER", "CACHE_RESYNC_PERIOD">>)]},
   bridge |->
     {[DefaultSpec EXCEPT !.key = "k0", !.ref = "required"],
      [DefaultSpec EXCEPT !.ref = "required", !.limit = 10, !.cron = MCUser(<<"OWN">>)],
      [DefaultSpec EXCEPT !.ref = "optional"], DefaultSpec},
   contract |-> {DefaultSpec, [DefaultSpec EXCEPT !.skipPolicies = TRUE]},
   certs |-> {DefaultSpec, [DefaultSpec EXCEPT !.createIssuer = FALSE]},
   rbac |-> {DefaultSpec},
   api |-> {DefaultSpec}]

MCEvents == [o \in AllOperands |-> IF o \in {"build", "integration"} THEN 2 ELSE 3]

\* An ingress of the operator, and two without one, at a port of its own or not.
MCIngress(enabled, url) == [enabled |-> enabled, hostname |-> "h", url |-> url]
MCIngresses ==
  {MCIngress(TRUE, [host |-> "h", slash |-> FALSE]), MCIngress(FALSE, [host |-> "h", slash |-> FALSE]),
   MCIngress(FALSE, [host |-> "h:8443", slash |-> TRUE])}
=============================================================================

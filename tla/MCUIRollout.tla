---------------------------- MODULE MCUIRollout ----------------------------
(***************************************************************************)
(* Four KonfluxUI specs: the defaults, a host name and a NodePort of the   *)
(* user's own, one with a port, which a managed Ingress refuses, and       *)
(* an optional endpoint that cannot be configured. The key is in a Secret  *)
(* that has to exist, in one that need not, or in the CR itself. An        *)
(* installation begins on OpenShift, where there is an Ingress to keep in  *)
(* agreement, without a bridge, and elsewhere with a bridge and its key.   *)
(***************************************************************************)
EXTENDS UIRollout
MCDefault ==
  [fqdn |-> "", hostname |-> "", enabled |-> "unset", dexHost |-> "",
   connectors |-> 0, passwordDB |-> "unset", login |-> "unset",
   watson |-> "off", nodePort |-> "none"]
MCHost ==
  [MCDefault EXCEPT !.fqdn = "host", !.enabled = "no", !.nodePort = "any", !.connectors = 1,
     !.login = "no"]
MCSpecs ==
  {MCDefault, MCHost,
   [MCDefault EXCEPT !.fqdn = "host:port", !.enabled = "yes"],
   [MCDefault EXCEPT !.hostname = "label", !.watson = "unnamed", !.dexHost = "dex"]}
MCRequired == [inline |-> "", ref |-> TRUE, optional |-> FALSE]
MCOptional == [MCRequired EXCEPT !.optional = TRUE]
MCBridges == {MCRequired, MCOptional, [MCRequired EXCEPT !.inline = "k1"]}
MCKeys == {"k1", "k2"}
MCStarts ==
  {[openShift |-> TRUE, ui |-> MCDefault, bridge |-> Absent, keySecret |-> Absent],
   [openShift |-> FALSE, ui |-> MCDefault, bridge |-> MCRequired, keySecret |-> "k1"]}
=============================================================================

---------------------------- MODULE MCReadiness ----------------------------
(***************************************************************************)
(* A mandatory and an optional component, both with Certificates: each on  *)
(* its own in a new cluster, and both together, in the order the Konflux   *)
(* controller collects them, where both have been ready. Two things happen *)
(* to each of them, in most of the combinations there are; cert-manager is *)
(* also removed and installed again around a crash.                        *)
(***************************************************************************)
EXTENDS Readiness
MCSetup(components, deployed, bounds) ==
  [order |-> components, deployed |-> deployed,
   edits |-> bounds[1], installs |-> bounds[2], flips |-> bounds[3], faults |-> bounds[4]]
MCSetups ==
  {MCSetup(<<"ui">>, FALSE, b) : b \in {<<0, 1, 1, 0>>, <<0, 1, 0, 1>>, <<0, 0, 1, 1>>}}
  \cup {MCSetup(<<"imagecontroller">>, FALSE, <<1, 0, 1, 0>>)}
  \cup {MCSetup(<<"ui", "imagecontroller">>, TRUE, b) :
          b \in {<<2, 0, 0, 0>>, <<1, 0, 1, 0>>, <<1, 0, 0, 1>>,
                 <<0, 1, 1, 0>>, <<0, 0, 2, 0>>, <<0, 0, 1, 1>>}}
  \cup {MCSetup(<<"ui">>, TRUE, <<0, 2, 0, 1>>)}
=============================================================================

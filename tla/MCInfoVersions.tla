--------------------------- MODULE MCInfoVersions ---------------------------
(***************************************************************************)
(* Two upgrades: the second may meet the event of the first in the channel.*)
(***************************************************************************)
EXTENDS InfoVersions
=============================================================================

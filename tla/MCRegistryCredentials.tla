----------------------- MODULE MCRegistryCredentials -----------------------
(***************************************************************************)
(* Six passwords: one more than are in use at any time in these runs, so   *)
(* that generateRandomSecret always has a fresh one to return. Either two  *)
(* edits with a meddling user and a fault, or three edits on their own: a  *)
(* registry with a tenant, created and deleted.                            *)
(***************************************************************************)
EXTENDS RegistryCredentials
MCBudgets == {[edits |-> 2, meddles |-> 1, faults |-> 1, lag |-> 2],
              [edits |-> 3, meddles |-> 0, faults |-> 0, lag |-> 1]}
MCOneEdit == {[edits |-> 1, meddles |-> 0, faults |-> 0, lag |-> 2]}
=============================================================================

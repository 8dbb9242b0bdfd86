----------------------------- MODULE MCTracking -----------------------------
(***************************************************************************)
(* A controller with one mandatory object of a kind that cleanup looks at  *)
(* (as the certificates of the cert-manager controller), one optional      *)
(* sub-CR on the allow list (as KonfluxImageController), one cluster-      *)
(* scoped object of the same kind that is not on the list, and a CRD. The  *)
(* kind of ConsoleLink is asked for and not served, as outside OpenShift.  *)
(* The owner may be created, deleted and created again, or be edited twice *)
(* beside a fault and an intrusion.                                        *)
(***************************************************************************)
EXTENDS Tracking, TLC

MCKeys == {"cert", "imagecontroller", "stray", "crd"}
MCManifest == <<"crd", "cert", "imagecontroller">>
MCOptional == {"imagecontroller"}
MCCRDs == {"crd"}
MCNamespaced == {"cert"}
MCKinds == {"Certificate", "KonfluxImageController", "ConsoleLink", "CRD"}
MCkindOf == ("cert" :> "Certificate" @@ "imagecontroller" :> "KonfluxImageController"
             @@ "stray" :> "KonfluxImageController" @@ "crd" :> "CRD")
MCCleanupKinds == {"Certificate", "KonfluxImageController", "ConsoleLink"}
MCWatched == {"Certificate", "KonfluxImageController"}
MCUnserved == {"ConsoleLink"}
MCAllowList == ("KonfluxImageController" :> {"imagecontroller"})
MCBudget(e, f, i) == [edits |-> e, faults |-> f, intrusions |-> i]
MCBudgets == {MCBudget(3, 1, 0), MCBudget(3, 0, 1), MCBudget(2, 1, 1)}
=============================================================================

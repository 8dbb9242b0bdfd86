--------------------------- MODULE MCScrapeToken ---------------------------
(***************************************************************************)
(* A quarter of an hour is two units, so that the delays shorter than it   *)
(* (settle, TLS, minimal requeue) are one. Eight versions are more than    *)
(* are in use at any time. There is a change or two failures.              *)
(***************************************************************************)
EXTENDS ScrapeToken
MCSetup(c, f, n) == [caller |-> c, faults |-> f, changes |-> n]
MCSetups == {MCSetup(c, b[1], b[2]) : c \in {"operand", "rotator"}, b \in {<<0, 1>>, <<2, 0>>}}
MCRotator == {MCSetup("rotator", 0, 1)}
=============================================================================

----------------------------- MODULE MCIngress -----------------------------
(* Ingress for TLC. *)
EXTENDS Ingress

CONSTANT d1
=============================================================================

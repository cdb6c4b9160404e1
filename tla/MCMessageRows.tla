--------------------------- MODULE MCMessageRows ---------------------------
(* MessageRows for TLC. *)
EXTENDS MessageRows

CONSTANT m1
=============================================================================

--------------------------- MODULE MCBulkMessages ---------------------------
(* BulkMessages for TLC. *)
EXTENDS BulkMessages

CONSTANTS b1, c1, c2
=============================================================================

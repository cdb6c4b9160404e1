--------------------------- MODULE MCSalesLedger ---------------------------
(* SalesLedger for TLC. *)
EXTENDS SalesLedger, TLC

CONSTANTS r1, r2, c1, c2, c3, b1, b2, x1, x2, x3, x4, ali, Ali, Zoe

Capitals == (ali :> Ali) @@ (Ali :> Ali) @@ (Zoe :> Zoe)
Symmetry == Permutations(Requests) \cup Permutations(Customers) \cup Permutations(Bills) \cup Permutations(Records)
=============================================================================

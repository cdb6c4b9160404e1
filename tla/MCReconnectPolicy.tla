-------------------------- MODULE MCReconnectPolicy --------------------------
(* Instances of ReconnectPolicy for TLC: configurations an operator may store, and timings that
   fall on both sides of the stability window. *)
EXTENDS ReconnectPolicy

Attempts == {NotANumber, -1, 0, 1, 3, 10, 25}
Delays == {NotANumber, 0, 60, 1000}
=============================================================================

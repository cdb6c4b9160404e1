-------------------------- MODULE MCPluginLifecycle --------------------------
(* PluginLifecycle for TLC. *)
EXTENDS PluginLifecycle
=============================================================================

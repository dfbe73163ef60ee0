---------------------------- MODULE MCPluginBridge ----------------------------
(* A single-deck instance of PluginBridge for TLC. *)
EXTENDS PluginBridge

OneDeck == {1}

=============================================================================

---------------------------- MODULE MCSetDocument ----------------------------
(* Two songs, one of them with a provider's id; a request that edits and one  *)
(* that restores.                                                             *)
EXTENDS SetDocument, TLC
=============================================================================

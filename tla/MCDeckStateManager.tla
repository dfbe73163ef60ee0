-------------------------- MODULE MCDeckStateManager --------------------------
(* Small instances of DeckStateManager for TLC. *)
EXTENDS DeckStateManager

TwoDecks == {1, 2}
ThreeDecks == {1, 2, 3}

=============================================================================

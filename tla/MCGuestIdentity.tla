--------------------------- MODULE MCGuestIdentity ---------------------------
(* Three guests, two requests served at once, which are interchangeable. *)
EXTENDS GuestIdentity, TLC

Symmetry == Permutations(Transactions) \cup Permutations(Emails)
=============================================================================

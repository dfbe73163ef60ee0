-------------------------- MODULE MCGuestRequests --------------------------
(* GuestRequests for TLC: guests and workers are interchangeable. *)
EXTENDS GuestRequests, TLC

Symmetry == Permutations(Guests) \cup Permutations(Songs) \cup Permutations(Sessions)
=============================================================================

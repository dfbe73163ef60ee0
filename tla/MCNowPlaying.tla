--------------------------- MODULE MCNowPlaying ---------------------------
(* Finite instances of NowPlaying for TLC. *)
EXTENDS NowPlaying, TLC

(* Sessions are interchangeable worker threads; so are requests, and no *)
(* property distinguishes them.                                         *)
Symmetry == Permutations(Sessions) \cup Permutations(Requests)

=============================================================================

---------------------------- MODULE MCBridgeClient ----------------------------
(* A small instance of BridgeClient for TLC. *)
EXTENDS BridgeClient, TLC

SlotSymmetry == Permutations(Slots) \cup Permutations(Replays) \cup Permutations(Tracks)

\* States that differ in the observer of clears only, which no action and none of the
\* run's properties reads, count as one.
WithoutCleared == <<breaker, buffer, calls, lastTrack, debounce, shown>>

=============================================================================

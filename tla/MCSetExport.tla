----------------------------- MODULE MCSetExport -----------------------------
(* Three workers, two tabs, four attempts; workers and tabs are               *)
(* interchangeable.                                                           *)
EXTENDS SetExport, TLC

Symmetry == Permutations(Sessions) \cup Permutations(Tabs)
=============================================================================

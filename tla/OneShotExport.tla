---------------------------- MODULE OneShotExport ----------------------------
(* What a set's export to Apple Music promises: one creation of a playlist at *)
(* a time.  A claim is given up only when Apple refused the creation, when    *)
(* its playlist is known to be complete, or when the creation is in doubt and *)
(* the DJ has looked for it.                                                  *)
EXTENDS Naturals

CONSTANTS Attempts, None

VARIABLES
    open,    \* the attempt that may create a playlist
    inDoubt, \* nobody knows what became of its creation
    apple,   \* what Apple made of each attempt
    playlist \* the playlist the set is exported to

vars == <<open, inDoubt, apple, playlist>>

Created == {a \in Attempts : apple[a] \in {"created", "filled"}}

Init ==
    /\ open = None
    /\ inDoubt = FALSE
    /\ apple = [a \in Attempts |-> "unasked"]
    /\ playlist = None

Claim ==
    /\ open = None
    /\ \E a \in Attempts : apple[a] = "unasked" /\ open' = a
    /\ inDoubt' = FALSE
    /\ UNCHANGED <<apple, playlist>>

Ask ==
    /\ open # None /\ ~inDoubt
    /\ apple[open] = "unasked"
    /\ \E answer \in {"asked", "created", "refused"} :
          apple' = [apple EXCEPT ![open] = answer]
    /\ UNCHANGED <<open, inDoubt, playlist>>

AppleActs ==
    /\ \E a \in Attempts :
          \/ apple[a] = "asked" /\ apple' = [apple EXCEPT ![a] = "created"]
          \/ apple[a] = "created" /\ apple' = [apple EXCEPT ![a] = "filled"]
    /\ UNCHANGED <<open, inDoubt, playlist>>

Doubt ==
    /\ open # None
    /\ inDoubt' = TRUE
    /\ UNCHANGED <<open, apple, playlist>>

Close ==
    /\ open # None
    /\ \/ apple[open] = "refused" /\ UNCHANGED playlist
       \/ apple[open] = "filled" /\ playlist' = open
       \/ inDoubt /\ (UNCHANGED playlist \/ playlist' \in Created)
    /\ open' = None
    /\ inDoubt' = FALSE
    /\ UNCHANGED apple

Next == Claim \/ Ask \/ AppleActs \/ Doubt \/ Close

Spec == Init /\ [][Next]_vars
=============================================================================

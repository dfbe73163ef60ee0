------------------------------ MODULE SetExport ------------------------------
(* The export of a set to an Apple Music playlist: a claim on the set's row,  *)
(* one creation request that Apple may answer, refuse or leave in doubt, the  *)
(* check of the playlist's tracks, and the DJ's finding when the outcome is   *)
(* in doubt.  Workers of the server, a crash of the server, failures of the   *)
(* database, Apple's delays and the DJ's browser tabs interleave.             *)
EXTENDS Naturals, FiniteSets

CONSTANTS
    Sessions,    \* workers serving export requests
    Tabs,        \* browser tabs in which the DJ reports a finding
    MaxAttempts, \* bound: attempts ever claimed
    None

ASSUME SetExportAssumption ==
    /\ MaxAttempts \in Nat
    /\ None \notin 1..MaxAttempts

VARIABLES
    claim,     \* Set.apple_music_export_attempt_id; export_pending is claim # None
    uncertain, \* Set.apple_music_export_uncertain
    recovery,  \* Set.apple_music_export_recovery_playlist_id
    playlist,  \* Set.apple_music_playlist_id, with exported_at and status
    step,      \* where each worker is in export_to_apple_music
    mine,      \* its attempt_id
    library,   \* what Apple made of each attempt's request; a playlist is named by its attempt
    finding,   \* the DJ's finding a tab has yet to submit: <<attempt, playlist>>
    settled,   \* history: attempts of which the outcome is known
    misfiled   \* history: attempts closed by a finding about another one

vars == <<claim, uncertain, recovery, playlist, step, mine, library, finding, settled, misfiled>>
row == <<claim, uncertain, recovery, playlist>>

Attempts == 1..MaxAttempts
Used == {a \in Attempts : library[a] # "unasked"} \cup {claim} \cup {mine[s] : s \in Sessions}
Created == {a \in Attempts : library[a] \in {"created", "filled"}}

Goto(s, next) == step' = [step EXCEPT ![s] = next] /\ UNCHANGED mine
Return(s) == step' = [step EXCEPT ![s] = "idle"] /\ mine' = [mine EXCEPT ![s] = None]

(* Mutant: the next claim starts in doubt. *)
ClearClaimOnly ==
    /\ claim' = None
    /\ recovery' = None
    /\ UNCHANGED uncertain

ClearClaim ==
    /\ claim' = None
    /\ uncertain' = FALSE
    /\ recovery' = None

---------------------------------------------------------------------------
(* export_to_apple_music.  Its UPDATEs name the set and the attempt, commit,  *)
(* and may fail; a failed COMMIT may have been applied.                       *)

(* Mutant: any claim will do. *)
OwnsAny(s) == claim # None

Owns(s) == claim = mine[s]

(* When the answer of the claim's COMMIT is lost, the claim has no worker. *)
ClaimExport(s) ==
    /\ step[s] = "idle"
    /\ claim = None
    /\ \E a \in Attempts \ Used :
          /\ claim' = a
          /\ \/ step' = [step EXCEPT ![s] = "create"] /\ mine' = [mine EXCEPT ![s] = a]
             \/ UNCHANGED <<step, mine>>
    /\ uncertain' = FALSE
    /\ recovery' = None
    /\ UNCHANGED <<playlist, library, finding, settled, misfiled>>

(* Mutant: a request that timed out is a request that failed. *)
AfterAnswerTimedOut(answer) ==
    CASE answer = "refused" -> {"release"}
      [] answer = "created" -> {"persist", "mark"}
      [] answer = "asked" -> {"release"}

(* apple_post: refused by Apple; created, with the playlist's id or with a    *)
(* body that cannot be read; no answer, and the playlist made or not yet.     *)
AfterAnswer(answer) ==
    CASE answer = "refused" -> {"release"}
      [] answer = "created" -> {"persist", "mark"}
      [] answer = "asked" -> {"mark"}

CreatePlaylist(s) ==
    /\ step[s] = "create"
    /\ \E answer \in {"refused", "created", "asked"} :
          /\ library' = [library EXCEPT ![mine[s]] = answer]
          /\ \E next \in AfterAnswer(answer) : Goto(s, next)
          /\ settled' = IF answer = "refused" THEN settled \cup {mine[s]} ELSE settled
    /\ UNCHANGED <<row, finding, misfiled>>

PersistCreatedPlaylistId(s) ==
    /\ step[s] = "persist"
    /\ \/ Owns(s) /\ recovery' = mine[s] /\ (Goto(s, "verify") \/ Goto(s, "markPlaylist"))
       \/ Goto(s, "markPlaylist") /\ UNCHANGED recovery
    /\ UNCHANGED <<claim, uncertain, playlist, library, finding, settled, misfiled>>

(* Up to five reads of the playlist; the tracks may take longer, or Apple may *)
(* refuse the reads.                                                          *)
VerifyTracks(s) ==
    /\ step[s] = "verify"
    /\ \/ library[mine[s]] = "filled" /\ Goto(s, "finish") /\ settled' = settled \cup {mine[s]}
       \/ Goto(s, "markPlaylist") /\ UNCHANGED settled
    /\ UNCHANGED <<row, library, finding, misfiled>>

(* The last UPDATE also names the recovery id; when it finds no row the       *)
(* request fails and marks nothing.                                           *)
FinishExport(s) ==
    /\ step[s] = "finish"
    /\ \/ /\ Owns(s) /\ recovery = mine[s]
          /\ playlist' = mine[s]
          /\ ClearClaim
          /\ Return(s) \/ Goto(s, "markPlaylist")
       \/ ~(Owns(s) /\ recovery = mine[s]) /\ Return(s) /\ UNCHANGED row
       \/ Goto(s, "markPlaylist") /\ UNCHANGED row
    /\ UNCHANGED <<library, finding, settled, misfiled>>

MarkExportUncertain(s) ==
    /\ step[s] \in {"mark", "markPlaylist"}
    /\ \/ /\ Owns(s)
          /\ uncertain' = TRUE
          /\ recovery' = IF step[s] = "markPlaylist" THEN mine[s] ELSE recovery
       \/ UNCHANGED <<uncertain, recovery>>
    /\ Return(s)
    /\ UNCHANGED <<claim, playlist, library, finding, settled, misfiled>>

ReleaseClaim(s) ==
    /\ step[s] = "release"
    /\ (Owns(s) /\ ClearClaim) \/ UNCHANGED <<claim, uncertain, recovery>>
    /\ Return(s)
    /\ UNCHANGED <<playlist, library, finding, settled, misfiled>>

(* A restart of the server ends every request. *)
Crash ==
    /\ step' = [s \in Sessions |-> "idle"]
    /\ mine' = [s \in Sessions |-> None]
    /\ UNCHANGED <<row, library, finding, settled, misfiled>>

---------------------------------------------------------------------------
(* Apple and the DJ *)

AppleActs ==
    /\ \E a \in Attempts :
          \/ library[a] = "asked" /\ library' = [library EXCEPT ![a] = "created"]
          \/ library[a] = "created" /\ library' = [library EXCEPT ![a] = "filled"]
    /\ UNCHANGED <<row, step, mine, finding, settled, misfiled>>

(* Told that the export is in doubt, the DJ looks for its playlist. *)
Look(t) ==
    /\ finding[t] = None
    /\ claim # None /\ uncertain
    /\ finding' = [finding EXCEPT ![t] = <<claim, IF claim \in Created THEN claim ELSE None>>]
    /\ UNCHANGED <<row, step, mine, library, settled, misfiled>>

(* Mutant: the claim need not be in doubt. *)
ReconcilableClaimed == claim # None

Reconcilable == claim # None /\ uncertain

(* The request does not say which attempt the finding is about; it is refused *)
(* when no claim is in doubt, and its UPDATE may fail.                        *)
ReconcileUncertainExport(t) ==
    /\ finding[t] # None
    /\ \/ /\ Reconcilable
          /\ ClearClaim
          /\ playlist' = IF finding[t][2] # None THEN finding[t][2] ELSE playlist
          /\ IF finding[t][1] = claim
             THEN settled' = settled \cup {claim} /\ UNCHANGED misfiled
             ELSE misfiled' = misfiled \cup {claim} /\ UNCHANGED settled
       \/ UNCHANGED <<row, settled, misfiled>>
    /\ finding' = [finding EXCEPT ![t] = None]
    /\ UNCHANGED <<step, mine, library>>

---------------------------------------------------------------------------
Init ==
    /\ claim = None /\ uncertain = FALSE /\ recovery = None /\ playlist = None
    /\ step = [s \in Sessions |-> "idle"]
    /\ mine = [s \in Sessions |-> None]
    /\ library = [a \in Attempts |-> "unasked"]
    /\ finding = [t \in Tabs |-> None]
    /\ settled = {} /\ misfiled = {}

Export(s) ==
    \/ ClaimExport(s) \/ CreatePlaylist(s) \/ PersistCreatedPlaylistId(s)
    \/ VerifyTracks(s) \/ FinishExport(s) \/ MarkExportUncertain(s) \/ ReleaseClaim(s)

Next ==
    \/ \E s \in Sessions : Export(s)
    \/ Crash
    \/ AppleActs
    \/ \E t \in Tabs : Look(t) \/ ReconcileUncertainExport(t)

Spec == Init /\ [][Next]_vars

---------------------------------------------------------------------------
(* Properties *)

(* Types; and only a claim is in doubt or has a recovery id. *)
SetExportTypeOK ==
    /\ claim \in Attempts \cup {None}
    /\ recovery \in Attempts \cup {None} /\ playlist \in Attempts \cup {None}
    /\ uncertain \in BOOLEAN
    /\ claim = None => ~uncertain /\ recovery = None
    /\ step \in [Sessions -> {"idle", "create", "persist", "verify", "finish",
                              "mark", "markPlaylist", "release"}]
    /\ mine \in [Sessions -> Attempts \cup {None}]
    /\ library \in [Attempts -> {"unasked", "asked", "created", "filled", "refused"}]
    /\ finding \in [Tabs -> {None} \cup (Attempts \X (Attempts \cup {None}))]
    /\ settled \subseteq Attempts /\ misfiled \subseteq Attempts

(* No second playlist is asked for while what became of an earlier request is *)
(* unknown, whatever crashes, timeouts and failed writes there were: at most  *)
(* one attempt was asked for and neither settled nor given up by a finding    *)
(* that was about another attempt (export_apple_music.py:303-423).            *)
OneOpenCreation ==
    \A a, b \in Attempts \ (settled \cup misfiled) :
        library[a] # "unasked" /\ library[b] # "unasked" => a = b

(* The playlist the DJ is told to look for is the one of the attempt in       *)
(* doubt: no stale worker writes its own on a later claim (138-161, 205-229). *)
RecoveryIsTheClaims == recovery # None => recovery = claim /\ claim \in Created

(* The export is an export of one attempt at a time (see OneShotExport).      *)
OneShot == INSTANCE OneShotExport
              WITH open <- claim, inDoubt <- uncertain, apple <- library, playlist <- playlist
OneShotSpec == OneShot!Spec

(* export_apple_music.py:36, of a claim that is not in doubt: "Another        *)
(* request already owns the one-shot playlist creation claim."  The run finds *)
(* a claim that no request owns and that no finding may close.                *)
ClaimIsOwned == claim # None /\ ~uncertain => \E s \in Sessions : mine[s] = claim
=============================================================================

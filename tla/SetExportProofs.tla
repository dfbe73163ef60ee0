--------------------------- MODULE SetExportProofs ---------------------------
(* The export keeps its invariant and implements OneShotExport, for any       *)
(* number of workers, tabs and attempts.                                      *)
EXTENDS SetExport, TLAPS

(* What a worker's step says about its attempt. *)
CreateInv ==
    \A s \in Sessions : step[s] = "create" =>
        claim = mine[s] /\ ~uncertain /\ library[mine[s]] = "unasked"

AnswerInv ==
    \A s \in Sessions :
        /\ step[s] = "idle" <=> mine[s] = None
        /\ step[s] \in {"persist", "verify", "markPlaylist"} => mine[s] \in Created
        /\ step[s] = "finish" => library[mine[s]] = "filled" /\ mine[s] \in settled
        /\ step[s] = "mark" => library[mine[s]] \notin {"unasked", "refused"}
        /\ step[s] = "release" => library[mine[s]] = "refused" /\ mine[s] \in settled

(* An attempt has one worker. *)
OwnerInv == \A s, r \in Sessions : mine[s] # None /\ mine[s] = mine[r] => s = r

(* Only the claim's own request can be open. *)
OpenInv ==
    /\ \A a \in Attempts : library[a] # "unasked" => a \in settled \cup misfiled \/ a = claim
    /\ uncertain => library[claim] # "unasked"

FindingInv == \A t \in Tabs : finding[t] # None /\ finding[t][2] # None => finding[t][2] \in Created

ExportInv ==
    /\ SetExportTypeOK /\ CreateInv /\ AnswerInv /\ OwnerInv
    /\ OpenInv /\ FindingInv /\ RecoveryIsTheClaims

-------------------------------------------------------------------------------
(* Every action keeps the invariant *)

(* A claim finds the row free, and takes an attempt nobody has used. *)
LEMMA ClaimExportKeeps ==
    ASSUME ExportInv, NEW s \in Sessions, ClaimExport(s)
    PROVE  ExportInv'
<1>1. SetExportTypeOK'
  <2>1. /\ claim' \in Attempts \cup {None} /\ recovery' \in Attempts \cup {None}
        /\ playlist' \in Attempts \cup {None} /\ uncertain' \in BOOLEAN
        /\ claim' = None => ~uncertain' /\ recovery' = None
    BY DEF ClaimExport, ExportInv, SetExportTypeOK, Used
  <2>2. /\ step' \in [Sessions -> {"idle", "create", "persist", "verify", "finish",
                                   "mark", "markPlaylist", "release"}]
        /\ mine' \in [Sessions -> Attempts \cup {None}]
    BY DEF ClaimExport, ExportInv, SetExportTypeOK, Attempts, Used
  <2>3. /\ library' \in [Attempts -> {"unasked", "asked", "created", "filled", "refused"}]
        /\ finding' \in [Tabs -> {None} \cup (Attempts \X (Attempts \cup {None}))]
        /\ settled' \subseteq Attempts /\ misfiled' \subseteq Attempts
    BY DEF ClaimExport, ExportInv, SetExportTypeOK, Attempts, Used
  <2>4. QED
    BY <2>1, <2>2, <2>3 DEF SetExportTypeOK
<1>2. CreateInv'
  BY DEF ClaimExport, ExportInv, CreateInv, SetExportTypeOK, AnswerInv, Used
<1>3. AnswerInv'
  BY DEF ClaimExport, ExportInv, AnswerInv, SetExportTypeOK, Created, Used
<1>4. OwnerInv'
  BY DEF ClaimExport, ExportInv, OwnerInv, SetExportTypeOK, Used
<1>5. OpenInv'
  BY SetExportAssumption DEF ClaimExport, ExportInv, OpenInv, Attempts, Used
<1>6. FindingInv'
  BY DEF ClaimExport, ExportInv, FindingInv, Created, Used
<1>7. RecoveryIsTheClaims'
  BY DEF ClaimExport, ExportInv, RecoveryIsTheClaims, Used
<1>8. QED
  BY <1>1, <1>2, <1>3, <1>4, <1>5, <1>6, <1>7 DEF ExportInv

(* The claim is the one of the worker that asks, so no other request opens. *)
LEMMA CreatePlaylistKeeps ==
    ASSUME ExportInv, NEW s \in Sessions, CreatePlaylist(s)
    PROVE  ExportInv'
<1>1. SetExportTypeOK'
  BY DEF CreatePlaylist, ExportInv, SetExportTypeOK, AnswerInv, AfterAnswer, Goto, row
<1>2. CreateInv'
  BY DEF CreatePlaylist, ExportInv, CreateInv, SetExportTypeOK, AnswerInv, OwnerInv,
     AfterAnswer, Goto
<1>3. AnswerInv'
  BY DEF CreatePlaylist, ExportInv, AnswerInv, SetExportTypeOK, OwnerInv, Created,
     AfterAnswer, Goto
<1>4. OwnerInv'
  BY DEF CreatePlaylist, ExportInv, OwnerInv, AfterAnswer, Goto
<1>5. OpenInv'
  BY DEF CreatePlaylist, ExportInv, OpenInv, CreateInv, AfterAnswer, Goto, row
<1>6. FindingInv'
  BY DEF CreatePlaylist, ExportInv, FindingInv, CreateInv, Created, AfterAnswer, Goto
<1>7. RecoveryIsTheClaims'
  BY DEF CreatePlaylist, ExportInv, RecoveryIsTheClaims, CreateInv, Created,
     AfterAnswer, Goto, row
<1>8. QED
  BY <1>1, <1>2, <1>3, <1>4, <1>5, <1>6, <1>7 DEF ExportInv

(* The id is written only on the claim of the worker that created it. *)
LEMMA PersistCreatedPlaylistIdKeeps ==
    ASSUME ExportInv, NEW s \in Sessions, PersistCreatedPlaylistId(s)
    PROVE  ExportInv'
<1>1. SetExportTypeOK'
  BY DEF PersistCreatedPlaylistId, ExportInv, SetExportTypeOK, Owns, Goto
<1>2. CreateInv'
  BY DEF PersistCreatedPlaylistId, ExportInv, CreateInv, SetExportTypeOK, Owns, Goto
<1>3. AnswerInv'
  BY DEF PersistCreatedPlaylistId, ExportInv, AnswerInv, SetExportTypeOK, Created,
     Owns, Goto
<1>4. OwnerInv'
  BY DEF PersistCreatedPlaylistId, ExportInv, OwnerInv, Owns, Goto
<1>5. OpenInv'
  BY DEF PersistCreatedPlaylistId, ExportInv, OpenInv, Owns, Goto
<1>6. FindingInv'
  BY DEF PersistCreatedPlaylistId, ExportInv, FindingInv, Created, Owns, Goto
<1>7. RecoveryIsTheClaims'
  BY DEF PersistCreatedPlaylistId, ExportInv, RecoveryIsTheClaims, AnswerInv, Created,
     Owns, Goto
<1>8. QED
  BY <1>1, <1>2, <1>3, <1>4, <1>5, <1>6, <1>7 DEF ExportInv

(* Reading the playlist settles the attempt and touches no row. *)
LEMMA VerifyTracksKeeps ==
    ASSUME ExportInv, NEW s \in Sessions, VerifyTracks(s)
    PROVE  ExportInv'
<1>1. SetExportTypeOK'
  <2>1. /\ claim' \in Attempts \cup {None} /\ recovery' \in Attempts \cup {None}
        /\ playlist' \in Attempts \cup {None}
    BY DEF VerifyTracks, ExportInv, SetExportTypeOK, Attempts, Goto, row
  <2>2. uncertain' \in BOOLEAN
    BY DEF VerifyTracks, ExportInv, SetExportTypeOK, Goto, row
  <2>3. claim' = None => ~uncertain' /\ recovery' = None
    BY DEF VerifyTracks, ExportInv, SetExportTypeOK, Goto, row
  <2>4. /\ step' \in [Sessions -> {"idle", "create", "persist", "verify", "finish",
                                   "mark", "markPlaylist", "release"}]
        /\ mine' \in [Sessions -> Attempts \cup {None}]
    BY DEF VerifyTracks, ExportInv, SetExportTypeOK, Attempts, Goto
  <2>5. /\ library' \in [Attempts -> {"unasked", "asked", "created", "filled", "refused"}]
        /\ finding' \in [Tabs -> {None} \cup (Attempts \X (Attempts \cup {None}))]
    BY DEF VerifyTracks, ExportInv, SetExportTypeOK, Attempts, Goto
  <2>6. mine[s] \in Attempts
    BY DEF VerifyTracks, ExportInv, AnswerInv, Created
  <2>7. settled' \subseteq Attempts /\ misfiled' \subseteq Attempts
    BY <2>6 DEF VerifyTracks, ExportInv, SetExportTypeOK
  <2>8. QED
    BY <2>1, <2>2, <2>3, <2>4, <2>5, <2>7 DEF SetExportTypeOK
<1>2. CreateInv'
  BY DEF VerifyTracks, ExportInv, CreateInv, SetExportTypeOK, Goto, row
<1>3. AnswerInv'
  BY DEF VerifyTracks, ExportInv, AnswerInv, SetExportTypeOK, Created, Goto
<1>4. OwnerInv'
  BY DEF VerifyTracks, ExportInv, OwnerInv, Goto
<1>5. OpenInv'
  BY DEF VerifyTracks, ExportInv, OpenInv, Goto, row
<1>6. FindingInv'
  BY DEF VerifyTracks, ExportInv, FindingInv, Created, Goto
<1>7. RecoveryIsTheClaims'
  BY DEF VerifyTracks, ExportInv, RecoveryIsTheClaims, Created, Goto, row
<1>8. QED
  BY <1>1, <1>2, <1>3, <1>4, <1>5, <1>6, <1>7 DEF ExportInv

(* The claim is given up with its attempt settled. *)
LEMMA FinishExportKeeps ==
    ASSUME ExportInv, NEW s \in Sessions, FinishExport(s)
    PROVE  ExportInv'
<1>1. SetExportTypeOK'
  <2>1. /\ claim' \in Attempts \cup {None} /\ recovery' \in Attempts \cup {None}
        /\ playlist' \in Attempts \cup {None}
    BY DEF FinishExport, ExportInv, SetExportTypeOK, Attempts, Owns, ClearClaim,
       Goto, Return, row
  <2>2. uncertain' \in BOOLEAN
    BY DEF FinishExport, ExportInv, SetExportTypeOK, Owns, ClearClaim, Goto, Return, row
  <2>3. claim' = None => ~uncertain' /\ recovery' = None
    BY DEF FinishExport, ExportInv, SetExportTypeOK, Owns, ClearClaim, Goto, Return, row
  <2>4. /\ step' \in [Sessions -> {"idle", "create", "persist", "verify", "finish",
                                   "mark", "markPlaylist", "release"}]
        /\ mine' \in [Sessions -> Attempts \cup {None}]
    BY DEF FinishExport, ExportInv, SetExportTypeOK, Attempts, Owns, ClearClaim,
       Goto, Return
  <2>5. /\ library' \in [Attempts -> {"unasked", "asked", "created", "filled", "refused"}]
        /\ finding' \in [Tabs -> {None} \cup (Attempts \X (Attempts \cup {None}))]
        /\ settled' \subseteq Attempts /\ misfiled' \subseteq Attempts
    BY DEF FinishExport, ExportInv, SetExportTypeOK, Attempts, Owns, ClearClaim,
       Goto, Return
  <2>6. QED
    BY <2>1, <2>2, <2>3, <2>4, <2>5 DEF SetExportTypeOK
<1>2. CreateInv'
  BY DEF FinishExport, ExportInv, CreateInv, SetExportTypeOK, RecoveryIsTheClaims,
     Created, Owns, ClearClaim, Goto, Return, row
<1>3. AnswerInv'
  BY DEF FinishExport, ExportInv, AnswerInv, SetExportTypeOK, Created, Owns,
     ClearClaim, Goto, Return
<1>4. OwnerInv'
  BY DEF FinishExport, ExportInv, OwnerInv, SetExportTypeOK, Owns, ClearClaim, Goto,
     Return
<1>5. OpenInv'
  BY DEF FinishExport, ExportInv, OpenInv, AnswerInv, Owns, ClearClaim, Goto, Return,
     row
<1>6. FindingInv'
  BY DEF FinishExport, ExportInv, FindingInv, Created, Owns, ClearClaim, Goto, Return
<1>7. RecoveryIsTheClaims'
  BY DEF FinishExport, ExportInv, RecoveryIsTheClaims, Created, Owns, ClearClaim,
     Goto, Return, row
<1>8. QED
  BY <1>1, <1>2, <1>3, <1>4, <1>5, <1>6, <1>7 DEF ExportInv

(* The claim in doubt is one whose creation was asked for. *)
LEMMA MarkExportUncertainKeeps ==
    ASSUME ExportInv, NEW s \in Sessions, MarkExportUncertain(s)
    PROVE  ExportInv'
<1>1. SetExportTypeOK'
  <2>1. /\ claim' \in Attempts \cup {None} /\ recovery' \in Attempts \cup {None}
        /\ playlist' \in Attempts \cup {None}
    BY DEF MarkExportUncertain, ExportInv, SetExportTypeOK, Attempts, Owns, Return
  <2>2. uncertain' \in BOOLEAN
    BY DEF MarkExportUncertain, ExportInv, SetExportTypeOK, Owns, Return
  <2>3. claim' = None => ~uncertain' /\ recovery' = None
    BY DEF MarkExportUncertain, ExportInv, SetExportTypeOK, AnswerInv, Owns, Return
  <2>4. /\ step' \in [Sessions -> {"idle", "create", "persist", "verify", "finish",
                                   "mark", "markPlaylist", "release"}]
        /\ mine' \in [Sessions -> Attempts \cup {None}]
    BY DEF MarkExportUncertain, ExportInv, SetExportTypeOK, Attempts, Owns, Return
  <2>5. /\ library' \in [Attempts -> {"unasked", "asked", "created", "filled", "refused"}]
        /\ finding' \in [Tabs -> {None} \cup (Attempts \X (Attempts \cup {None}))]
        /\ settled' \subseteq Attempts /\ misfiled' \subseteq Attempts
    BY DEF MarkExportUncertain, ExportInv, SetExportTypeOK, Attempts, Owns, Return
  <2>6. QED
    BY <2>1, <2>2, <2>3, <2>4, <2>5 DEF SetExportTypeOK
<1>2. CreateInv'
  BY DEF MarkExportUncertain, ExportInv, CreateInv, AnswerInv, Created, Owns, Return
<1>3. AnswerInv'
  BY DEF MarkExportUncertain, ExportInv, AnswerInv, SetExportTypeOK, Created, Owns,
     Return
<1>4. OwnerInv'
  BY DEF MarkExportUncertain, ExportInv, OwnerInv, Owns, Return
<1>5. OpenInv'
  BY DEF MarkExportUncertain, ExportInv, OpenInv, AnswerInv, Created, Owns, Return
<1>6. FindingInv'
  BY DEF MarkExportUncertain, ExportInv, FindingInv, Created, Owns, Return
<1>7. RecoveryIsTheClaims'
  BY DEF MarkExportUncertain, ExportInv, RecoveryIsTheClaims, AnswerInv, Created,
     Owns, Return
<1>8. QED
  BY <1>1, <1>2, <1>3, <1>4, <1>5, <1>6, <1>7 DEF ExportInv

(* A claim released is one Apple refused. *)
LEMMA ReleaseClaimKeeps ==
    ASSUME ExportInv, NEW s \in Sessions, ReleaseClaim(s)
    PROVE  ExportInv'
<1>1. SetExportTypeOK'
  <2>1. /\ claim' \in Attempts \cup {None} /\ recovery' \in Attempts \cup {None}
        /\ playlist' \in Attempts \cup {None}
    BY DEF ReleaseClaim, ExportInv, SetExportTypeOK, Attempts, Owns, ClearClaim, Return
  <2>2. uncertain' \in BOOLEAN
    BY DEF ReleaseClaim, ExportInv, SetExportTypeOK, Owns, ClearClaim, Return
  <2>3. claim' = None => ~uncertain' /\ recovery' = None
    BY DEF ReleaseClaim, ExportInv, SetExportTypeOK, Owns, ClearClaim, Return
  <2>4. /\ step' \in [Sessions -> {"idle", "create", "persist", "verify", "finish",
                                   "mark", "markPlaylist", "release"}]
        /\ mine' \in [Sessions -> Attempts \cup {None}]
    BY DEF ReleaseClaim, ExportInv, SetExportTypeOK, Attempts, Owns, ClearClaim, Return
  <2>5. /\ library' \in [Attempts -> {"unasked", "asked", "created", "filled", "refused"}]
        /\ finding' \in [Tabs -> {None} \cup (Attempts \X (Attempts \cup {None}))]
        /\ settled' \subseteq Attempts /\ misfiled' \subseteq Attempts
    BY DEF ReleaseClaim, ExportInv, SetExportTypeOK, Attempts, Owns, ClearClaim, Return
  <2>6. QED
    BY <2>1, <2>2, <2>3, <2>4, <2>5 DEF SetExportTypeOK
<1>2. CreateInv'
  BY DEF ReleaseClaim, ExportInv, CreateInv, OwnerInv, Owns, ClearClaim, Return
<1>3. AnswerInv'
  BY DEF ReleaseClaim, ExportInv, AnswerInv, SetExportTypeOK, Created, Owns,
     ClearClaim, Return
<1>4. OwnerInv'
  BY DEF ReleaseClaim, ExportInv, OwnerInv, Owns, ClearClaim, Return
<1>5. OpenInv'
  BY DEF ReleaseClaim, ExportInv, OpenInv, AnswerInv, Owns, ClearClaim, Return
<1>6. FindingInv'
  BY DEF ReleaseClaim, ExportInv, FindingInv, Created, Owns, ClearClaim, Return
<1>7. RecoveryIsTheClaims'
  BY DEF ReleaseClaim, ExportInv, RecoveryIsTheClaims, Created, Owns, ClearClaim, Return
<1>8. QED
  BY <1>1, <1>2, <1>3, <1>4, <1>5, <1>6, <1>7 DEF ExportInv

(* The claim outlives its worker, and nothing is asked in its name. *)
LEMMA CrashKeeps ==
    ASSUME ExportInv, Crash
    PROVE  ExportInv'
<1>1. SetExportTypeOK'
  BY DEF Crash, ExportInv, SetExportTypeOK, row
<1>2. CreateInv'
  BY DEF Crash, ExportInv, CreateInv
<1>3. AnswerInv'
  BY DEF Crash, ExportInv, AnswerInv
<1>4. OwnerInv'
  BY DEF Crash, ExportInv, OwnerInv
<1>5. OpenInv'
  BY DEF Crash, ExportInv, OpenInv, row
<1>6. FindingInv'
  BY DEF Crash, ExportInv, FindingInv, Created
<1>7. RecoveryIsTheClaims'
  BY DEF Crash, ExportInv, RecoveryIsTheClaims, Created, row
<1>8. QED
  BY <1>1, <1>2, <1>3, <1>4, <1>5, <1>6, <1>7 DEF ExportInv

(* What was created stays created. *)
LEMMA AppleActsKeeps ==
    ASSUME ExportInv, AppleActs
    PROVE  ExportInv'
<1>1. SetExportTypeOK'
  <2>1. /\ claim' \in Attempts \cup {None} /\ recovery' \in Attempts \cup {None}
        /\ playlist' \in Attempts \cup {None} /\ uncertain' \in BOOLEAN
        /\ claim' = None => ~uncertain' /\ recovery' = None
    BY DEF AppleActs, ExportInv, SetExportTypeOK, row
  <2>2. /\ step' \in [Sessions -> {"idle", "create", "persist", "verify", "finish",
                                   "mark", "markPlaylist", "release"}]
        /\ mine' \in [Sessions -> Attempts \cup {None}]
    BY DEF AppleActs, ExportInv, SetExportTypeOK, Attempts
  <2>3. /\ library' \in [Attempts -> {"unasked", "asked", "created", "filled", "refused"}]
        /\ finding' \in [Tabs -> {None} \cup (Attempts \X (Attempts \cup {None}))]
        /\ settled' \subseteq Attempts /\ misfiled' \subseteq Attempts
    BY DEF AppleActs, ExportInv, SetExportTypeOK, Attempts
  <2>4. QED
    BY <2>1, <2>2, <2>3 DEF SetExportTypeOK
<1>2. CreateInv'
  BY SetExportAssumption DEF AppleActs, ExportInv, CreateInv, SetExportTypeOK,
     AnswerInv, row
<1>3. AnswerInv'
  BY SetExportAssumption DEF AppleActs, ExportInv, AnswerInv, SetExportTypeOK, Created
<1>4. OwnerInv'
  BY DEF AppleActs, ExportInv, OwnerInv
<1>5. OpenInv'
  BY SetExportAssumption DEF AppleActs, ExportInv, OpenInv, SetExportTypeOK, row
<1>6. FindingInv'
  <2>1. Created \subseteq Created'
    BY DEF AppleActs, Created, ExportInv, SetExportTypeOK
  <2>2. QED
    BY <2>1 DEF AppleActs, ExportInv, FindingInv
<1>7. RecoveryIsTheClaims'
  BY SetExportAssumption DEF AppleActs, ExportInv, RecoveryIsTheClaims,
     SetExportTypeOK, Created, row
<1>8. QED
  BY <1>1, <1>2, <1>3, <1>4, <1>5, <1>6, <1>7 DEF ExportInv

(* A finding names a playlist that exists, or none. *)
LEMMA LookKeeps ==
    ASSUME ExportInv, NEW t \in Tabs, Look(t)
    PROVE  ExportInv'
<1>1. SetExportTypeOK'
  BY DEF Look, ExportInv, SetExportTypeOK, row
<1>2. CreateInv'
  BY DEF Look, ExportInv, CreateInv
<1>3. AnswerInv'
  BY DEF Look, ExportInv, AnswerInv, Created
<1>4. OwnerInv'
  BY DEF Look, ExportInv, OwnerInv
<1>5. OpenInv'
  BY DEF Look, ExportInv, OpenInv, row
<1>6. FindingInv'
  BY DEF Look, ExportInv, FindingInv, Created
<1>7. RecoveryIsTheClaims'
  BY DEF Look, ExportInv, RecoveryIsTheClaims, Created, row
<1>8. QED
  BY <1>1, <1>2, <1>3, <1>4, <1>5, <1>6, <1>7 DEF ExportInv

(* The attempt of the claim is settled, or misfiled, as the claim is closed. *)
LEMMA ReconcileUncertainExportKeeps ==
    ASSUME ExportInv, NEW t \in Tabs, ReconcileUncertainExport(t)
    PROVE  ExportInv'
<1>1. SetExportTypeOK'
  <2>1. /\ claim' \in Attempts \cup {None} /\ recovery' \in Attempts \cup {None}
        /\ playlist' \in Attempts \cup {None}
    BY DEF ReconcileUncertainExport, ExportInv, SetExportTypeOK, Attempts,
       Reconcilable, ClearClaim, row
  <2>2. uncertain' \in BOOLEAN
    BY DEF ReconcileUncertainExport, ExportInv, SetExportTypeOK, Reconcilable,
       ClearClaim, row
  <2>3. claim' = None => ~uncertain' /\ recovery' = None
    BY DEF ReconcileUncertainExport, ExportInv, SetExportTypeOK, Reconcilable,
       ClearClaim, row
  <2>4. /\ step' \in [Sessions -> {"idle", "create", "persist", "verify", "finish",
                                   "mark", "markPlaylist", "release"}]
        /\ mine' \in [Sessions -> Attempts \cup {None}]
    BY DEF ReconcileUncertainExport, ExportInv, SetExportTypeOK, Attempts,
       Reconcilable, ClearClaim
  <2>5. /\ library' \in [Attempts -> {"unasked", "asked", "created", "filled", "refused"}]
        /\ finding' \in [Tabs -> {None} \cup (Attempts \X (Attempts \cup {None}))]
        /\ settled' \subseteq Attempts /\ misfiled' \subseteq Attempts
    BY DEF ReconcileUncertainExport, ExportInv, SetExportTypeOK, Attempts,
       Reconcilable, ClearClaim
  <2>6. QED
    BY <2>1, <2>2, <2>3, <2>4, <2>5 DEF SetExportTypeOK
<1>2. CreateInv'
  BY DEF ReconcileUncertainExport, ExportInv, CreateInv, Reconcilable, ClearClaim, row
<1>3. AnswerInv'
  BY DEF ReconcileUncertainExport, ExportInv, AnswerInv, Created, Reconcilable,
     ClearClaim
<1>4. OwnerInv'
  BY DEF ReconcileUncertainExport, ExportInv, OwnerInv, Reconcilable, ClearClaim
<1>5. OpenInv'
  BY DEF ReconcileUncertainExport, ExportInv, OpenInv, Reconcilable, ClearClaim, row
<1>6. FindingInv'
  BY DEF ReconcileUncertainExport, ExportInv, FindingInv, Created, Reconcilable,
     ClearClaim
<1>7. RecoveryIsTheClaims'
  BY DEF ReconcileUncertainExport, ExportInv, RecoveryIsTheClaims, Created,
     Reconcilable, ClearClaim, row
<1>8. QED
  BY <1>1, <1>2, <1>3, <1>4, <1>5, <1>6, <1>7 DEF ExportInv

(* No claim, and nothing asked. *)
LEMMA ExportInit == Init => ExportInv
BY DEF Init, ExportInv, SetExportTypeOK, CreateInv, AnswerInv, OwnerInv, OpenInv,
   FindingInv, RecoveryIsTheClaims, Attempts, Created

(* Every step keeps the invariant. *)
LEMMA ExportNext == ExportInv /\ [Next]_vars => ExportInv'
<1> SUFFICES ASSUME ExportInv, [Next]_vars PROVE ExportInv'
  OBVIOUS
<1>1. ASSUME NEW s \in Sessions, Export(s) PROVE ExportInv'
  BY <1>1, ClaimExportKeeps, CreatePlaylistKeeps, PersistCreatedPlaylistIdKeeps,
     VerifyTracksKeeps,
     FinishExportKeeps, MarkExportUncertainKeeps, ReleaseClaimKeeps DEF Export
<1>2. CASE UNCHANGED vars
  BY <1>2 DEF vars, ExportInv, SetExportTypeOK, CreateInv, AnswerInv, OwnerInv,
     OpenInv, FindingInv, RecoveryIsTheClaims, Created
<1>3. QED
  BY <1>1, <1>2, CrashKeeps, AppleActsKeeps, LookKeeps, ReconcileUncertainExportKeeps
     DEF Next

(* The strengthened invariant holds in every reachable state. *)
THEOREM ExportInvariance == Spec => []ExportInv
BY ExportInit, ExportNext, PTL DEF Spec

(* The columns of the claim and the workers' places are of their types; only  *)
(* a claim is in doubt or has a recovery id (export_apple_music.py:164-300).  *)
THEOREM SetExportTypeCorrect == Spec => []SetExportTypeOK
<1>1. ExportInv => SetExportTypeOK
  BY DEF ExportInv
<1>2. QED
  BY <1>1, ExportInvariance, PTL

(* At most one creation is open, for any number of workers, crashes, lost     *)
(* answers and findings (export_apple_music.py:303-423).                      *)
THEOREM NoSecondCreation == Spec => []OneOpenCreation
<1>1. ExportInv => OneOpenCreation
  BY DEF ExportInv, OpenInv, OneOpenCreation
<1>2. QED
  BY <1>1, ExportInvariance, PTL

(* No stale worker leaves its playlist's id on another attempt's claim        *)
(* (export_apple_music.py:138-161, 205-229).                                  *)
THEOREM RecoveryOfTheClaim == Spec => []RecoveryIsTheClaims
<1>1. ExportInv => RecoveryIsTheClaims
  BY DEF ExportInv
<1>2. QED
  BY <1>1, ExportInvariance, PTL

-------------------------------------------------------------------------------
(* The export implements OneShotExport *)

(* A step of a worker, a tab, Apple or a crash is a step of OneShotExport, or
   changes nothing of it: only the last UPDATE, a release and a finding close. *)
LEMMA Simulation ==
    ASSUME ExportInv, [Next]_vars
    PROVE  [OneShot!Next]_(OneShot!vars)
<1>1. ASSUME NEW s \in Sessions, ClaimExport(s) PROVE OneShot!Claim
  BY <1>1 DEF ClaimExport, OneShot!Claim, ExportInv, Used
<1>2. ASSUME NEW s \in Sessions, CreatePlaylist(s) PROVE OneShot!Ask
  BY <1>2 DEF CreatePlaylist, OneShot!Ask, OneShot!vars, OneShot!Created, ExportInv,
     CreateInv, AnswerInv, Goto, row
<1>3. ASSUME NEW s \in Sessions, PersistCreatedPlaylistId(s) PROVE UNCHANGED OneShot!vars
  BY <1>3 DEF PersistCreatedPlaylistId, OneShot!vars, ExportInv, Created, Owns, Goto
<1>4. ASSUME NEW s \in Sessions, VerifyTracks(s) PROVE UNCHANGED OneShot!vars
  BY <1>4 DEF VerifyTracks, OneShot!vars, ExportInv, Goto, row
<1>5. ASSUME NEW s \in Sessions, FinishExport(s) PROVE OneShot!Close \/ UNCHANGED OneShot!vars
  BY <1>5 DEF FinishExport, OneShot!Close, OneShot!vars, ExportInv, AnswerInv, Owns,
     ClearClaim, Goto, Return, row
<1>6. ASSUME NEW s \in Sessions, MarkExportUncertain(s) PROVE OneShot!Doubt \/ UNCHANGED OneShot!vars
  BY <1>6 DEF MarkExportUncertain, OneShot!Doubt, OneShot!vars, ExportInv, AnswerInv,
     Owns, Return
<1>7. ASSUME NEW s \in Sessions, ReleaseClaim(s) PROVE OneShot!Close \/ UNCHANGED OneShot!vars
  BY <1>7 DEF ReleaseClaim, OneShot!Close, OneShot!vars, ExportInv, AnswerInv, Owns,
     ClearClaim, Return
<1>8. ASSUME Crash PROVE UNCHANGED OneShot!vars
  BY <1>8 DEF Crash, OneShot!vars, ExportInv, row
<1>9. ASSUME AppleActs PROVE OneShot!AppleActs
  BY <1>9 DEF AppleActs, OneShot!AppleActs, ExportInv, row
<1>10. ASSUME NEW t \in Tabs, Look(t) PROVE UNCHANGED OneShot!vars
  BY <1>10 DEF Look, OneShot!vars, ExportInv, row
<1>11. ASSUME NEW t \in Tabs, ReconcileUncertainExport(t) PROVE OneShot!Close \/ UNCHANGED OneShot!vars
  BY <1>11 DEF ReconcileUncertainExport, OneShot!Close, OneShot!vars, OneShot!Created,
     ExportInv, FindingInv, Created, ClearClaim, row, Reconcilable
<1>12. CASE UNCHANGED vars
  BY <1>12 DEF vars, OneShot!vars
<1>13. QED
  BY <1>1, <1>2, <1>3, <1>4, <1>5, <1>6, <1>7, <1>8, <1>9, <1>10, <1>11, <1>12 DEF
     Next, Export, OneShot!Next

(* Every worker, crash and finding together behave as one creation at a time  *)
(* (export_apple_music.py:232-423).                                           *)
THEOREM ImplementsOneShot == Spec => OneShotSpec
<1>1. Init => OneShot!Init
  BY DEF Init, OneShot!Init
<1>2. QED
  BY <1>1, ExportInvariance, Simulation, PTL DEF Spec, OneShotSpec, OneShot!Spec
=============================================================================

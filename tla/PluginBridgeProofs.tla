-------------------------- MODULE PluginBridgeProofs --------------------------
(***************************************************************************)
(* Theorems about PluginBridge, for any set of decks, any number of calls  *)
(* in progress and any configuration.  DeckStateManagerProofs is about a   *)
(* manager that nothing destroys; here its calls and its timers may come   *)
(* at any point of a start, a stop, a restart or a reconnection, so what   *)
(* they keep is proved again, from less.                                   *)
(***************************************************************************)
EXTENDS PluginBridge, DeckStateManagerProofs

-------------------------------------------------------------------------------
(* The inductive invariant *)

\* The decks are of their type, and a deck that plays knows since when.
DecksTyped(D) ==
  /\ D \in [Decks -> DeckState]
  /\ \A d \in Decks : D[d].isPlaying => D[d].playAge # Unset

LiveType == [deck : Decks \cup {NoDeck}, track : Tracks \cup {NoTrack}]

\* No timer of the manager is pending.
Still == switchTimer = Unset /\ \A d \in Decks : timers[d] = NoTimer

\* A manager that nobody listens to was cleared when its listeners went, and only
\* a stop that is still in progress leaves a stopped bridge listening to it.
QuietInv ==
  /\ destroyed => Still
  /\ ~running => ~reconnectTimer
  /\ ~listening => live = NoLive
  /\ ~running /\ listening =>
       \E c \in Calls : calls[c].pc \in {"stopping", "restart_stopping"}

BridgeInv == BridgeTypeOK /\ QuietInv

\* What every step of the manager keeps, destroyed or not.
DeckStepOK ==
  /\ TypeOK'
  /\ destroyed' = destroyed /\ listening' = listening
  /\ destroyed /\ Still => Still'
  /\ ~listening => live' = live

-------------------------------------------------------------------------------
(* The manager's steps *)

\* A report or a scan changes the reported flags and the role.
LEMMA ReportTypes ==
  ASSUME NEW D, DecksTyped(D), NEW d \in Decks, Report(D, d), live \in LiveType
  PROVE  /\ DecksTyped(decks') /\ nowPlaying' \in Decks /\ switchTimer' = Unset
         /\ live' \in LiveType /\ (~listening => live' = live)
<1>1. decks' = [D EXCEPT ![d].hasBeenReported = TRUE] /\ nowPlaying' = d /\ switchTimer' = Unset
  BY DEF Report
<1>2. DecksTyped(decks')
  BY <1>1 DEF DecksTyped, DeckState
<1>3. [deck |-> d, track |-> D[d].track] \in LiveType
  BY DEF DecksTyped, DeckState, LiveType
<1>4. live' = IF listening THEN [deck |-> d, track |-> D[d].track] ELSE live
  BY DEF Report, Emit
<1>5. QED
  BY <1>1, <1>2, <1>3, <1>4

\* A scan leaves no switch timer.
LEMMA ScanTypes ==
  ASSUME NEW D, DecksTyped(D), Scan(D), live \in LiveType
  PROVE  /\ DecksTyped(decks') /\ nowPlaying' \in Decks \cup {NoDeck} /\ switchTimer' = Unset
         /\ live' \in LiveType /\ (~listening => live' = live)
<1>1. ASSUME NEW d \in Candidates(D), Report(D, d)
      PROVE  /\ DecksTyped(decks') /\ nowPlaying' \in Decks \cup {NoDeck} /\ switchTimer' = Unset
             /\ live' \in LiveType /\ (~listening => live' = live)
  <2>1. d \in Decks
    BY DEF Candidates, Known
  <2>2. QED
    BY <1>1, <2>1, ReportTypes
<1>2. NoLive \in LiveType
  BY DEF NoLive, LiveType
<1>3. QED
  BY <1>1, <1>2 DEF Scan, Emit

\* A check starts no timer either.
LEMMA CheckTypes ==
  ASSUME NEW D, DecksTyped(D), NEW d \in Decks, CheckAndReport(D, d), live \in LiveType,
         nowPlaying \in Decks \cup {NoDeck}
  PROVE  /\ DecksTyped(decks') /\ nowPlaying' \in Decks \cup {NoDeck}
         /\ switchTimer' \in {Unset, switchTimer}
         /\ live' \in LiveType /\ (~listening => live' = live)
<1>1. CASE Reportable(D, d) /\ ~HeldByAnother(D, d)
  <2>1. Report(D, d)
    BY <1>1 DEF CheckAndReport
  <2>2. QED
    BY <2>1, ReportTypes
<1>2. CASE ~(Reportable(D, d) /\ ~HeldByAnother(D, d))
  BY <1>2 DEF CheckAndReport
<1>3. QED
  BY <1>1, <1>2

\* The type invariant, by its parts.
LEMMA TypeParts ==
  /\ TypeOK => /\ DecksTyped(decks) /\ timers \in [Decks -> Timer]
               /\ switchTimer \in {Unset} \cup Nat /\ nowPlaying \in Decks \cup {NoDeck}
               /\ destroyed \in BOOLEAN /\ listening \in BOOLEAN /\ live \in LiveType
  /\ DecksTyped(decks)' /\ timers' \in [Decks -> Timer]
       /\ switchTimer' \in {Unset} \cup Nat /\ nowPlaying' \in Decks \cup {NoDeck}
       /\ destroyed' \in BOOLEAN /\ listening' \in BOOLEAN /\ live' \in LiveType => TypeOK'
BY DEF TypeOK, DecksTyped, LiveType

\* A look-up keeps the types, evicts with the timer, and starts no timer.
LEMMA LookUpTypes ==
  ASSUME NEW D, DecksTyped(D), NEW d \in Decks, NEW o \in GetDeckState(D, d),
         timers \in [Decks -> Timer], nowPlaying \in Decks \cup {NoDeck}
  PROVE  /\ DecksTyped(o.decks) /\ o.timers \in [Decks -> Timer]
         /\ o.nowPlaying \in Decks \cup {NoDeck}
         /\ \A e \in Decks : o.timers[e] \in {timers[e], NoTimer}
<1>1. D \in [Decks -> DeckState]
  BY DEF DecksTyped
<1>2. /\ o.decks \in [Decks -> DeckState] /\ o.timers \in [Decks -> Timer]
      /\ \A e \in Decks :
           \/ o.decks[e] = D[e] /\ o.timers[e] = timers[e]
           \/ o.decks[e] = EmptyDeck /\ o.timers[e] = timers[e]
           \/ o.decks[e] = AbsentDeck /\ o.timers[e] = NoTimer
  BY <1>1, LookUp
<1>3. ~EmptyDeck.isPlaying /\ ~AbsentDeck.isPlaying
  BY DEF EmptyDeck, AbsentDeck
<1>4. DecksTyped(o.decks)
  BY <1>2, <1>3 DEF DecksTyped
<1>5. o.nowPlaying \in {nowPlaying, NoDeck}
  BY DEF GetDeckState, Admit
<1>6. QED
  BY <1>2, <1>4, <1>5

\* A load, an unload, or a load that plays at once.
LEMMA PutTrackTypes ==
  ASSUME TypeOK, NEW d \in Decks, NEW contents \in DeckState, NEW ticks \in Nat,
         PutTrack(d, contents, ticks), contents.isPlaying => contents.playAge # Unset
  PROVE  DeckStepOK
<1>0. /\ DecksTyped(decks) /\ timers \in [Decks -> Timer]
      /\ switchTimer \in {Unset} \cup Nat /\ nowPlaying \in Decks \cup {NoDeck}
      /\ destroyed \in BOOLEAN /\ listening \in BOOLEAN /\ live \in LiveType
  BY TypeParts
<1>1. PICK o \in GetDeckState(decks, d) :
        LET D == [o.decks EXCEPT ![d] = [contents EXCEPT !.faderUp = o.decks[d].faderUp,
                                                         !.isMaster = o.decks[d].isMaster]]
            T == [o.timers EXCEPT ![d] = NoTimer]
        IN /\ timers' = IF contents.isPlaying THEN StartTimer(T, d, "threshold", ticks) ELSE T
           /\ IF d = nowPlaying
                THEN Scan(D)
                ELSE /\ decks' = D
                     /\ nowPlaying' = o.nowPlaying
                     /\ UNCHANGED <<switchTimer, live>>
           /\ UNCHANGED <<destroyed, listening>>
  BY DEF PutTrack
<1> DEFINE put == [contents EXCEPT !.faderUp = o.decks[d].faderUp, !.isMaster = o.decks[d].isMaster]
           D == [o.decks EXCEPT ![d] = put]
           T == [o.timers EXCEPT ![d] = NoTimer]
           cue == [kind |-> "threshold", left |-> ticks]
<1>2. /\ DecksTyped(o.decks) /\ o.timers \in [Decks -> Timer]
      /\ o.nowPlaying \in Decks \cup {NoDeck}
      /\ \A e \in Decks : o.timers[e] \in {timers[e], NoTimer}
  BY <1>0, LookUpTypes
<1>3. put \in DeckState /\ (put.isPlaying => put.playAge # Unset)
  BY <1>2 DEF DecksTyped, DeckState
<1>4. DecksTyped(D)
  BY <1>2, <1>3 DEF DecksTyped
<1>5. cue \in Timer /\ NoTimer \in Timer
  BY DEF Timer, NoTimer
<1>6. /\ T \in [Decks -> Timer] /\ [T EXCEPT ![d] = cue] \in [Decks -> Timer]
      /\ \A e \in Decks : T[e] \in {timers[e], NoTimer}
  BY <1>2, <1>5
<1>7. timers' = T \/ (~destroyed /\ timers' = [T EXCEPT ![d] = cue])
  BY <1>1 DEF StartTimer
<1>a. /\ d = nowPlaying => Scan(D)
      /\ d # nowPlaying => decks' = D /\ nowPlaying' = o.nowPlaying /\ UNCHANGED <<switchTimer, live>>
      /\ UNCHANGED <<destroyed, listening>>
  BY <1>1
<1> HIDE DEF put, D, T, cue
<1>8. /\ DecksTyped(decks)' /\ nowPlaying' \in Decks \cup {NoDeck}
      /\ switchTimer' \in {Unset, switchTimer} /\ live' \in LiveType
      /\ (~listening => live' = live)
  <2>1. CASE d = nowPlaying
    BY <1>0, <1>4, <1>a, <2>1, ScanTypes DEF DecksTyped
  <2>2. CASE d # nowPlaying
    BY <1>0, <1>2, <1>4, <1>a, <2>2 DEF DecksTyped
  <2>3. QED
    BY <2>1, <2>2
<1>9. TypeOK'
  <2>1. timers' \in [Decks -> Timer]
    BY <1>6, <1>7
  <2>2. QED
    BY <1>0, <1>8, <1>a, <2>1, TypeParts
<1>10. destroyed /\ Still => Still'
  BY <1>6, <1>7, <1>8 DEF Still
<1>11. QED
  BY <1>8, <1>9, <1>10, <1>a DEF DeckStepOK

\* What every call and every timer of the manager comes down to: it leaves decks of
\* their type, and on a destroyed manager it starts no timer.
LEMMA StepTypes ==
  ASSUME TypeOK, DecksTyped(decks'), timers' \in [Decks -> Timer],
         ~destroyed \/ \A e \in Decks : timers'[e] \in {timers[e], NoTimer},
         switchTimer' \in {Unset, switchTimer} \/ (~destroyed /\ switchTimer' \in Nat),
         nowPlaying' \in Decks \cup {NoDeck}, live' \in LiveType, ~listening => live' = live,
         UNCHANGED <<destroyed, listening>>
  PROVE  DeckStepOK
<1>1. TypeOK'
  BY TypeParts DEF DecksTyped
<1>2. destroyed /\ Still => Still'
  BY DEF Still
<1>3. QED
  BY <1>1, <1>2 DEF DeckStepOK

\* An ignored play event leaves only a look-up behind.
LEMMA PlayStateIgnoredTypes ==
  ASSUME TypeOK, NEW d \in Decks, NEW b \in BOOLEAN, PlayStateIgnored(d, b)
  PROVE  DeckStepOK
<1>0. /\ DecksTyped(decks) /\ timers \in [Decks -> Timer]
      /\ nowPlaying \in Decks \cup {NoDeck} /\ live \in LiveType
  BY TypeParts
<1>1. PICK o \in GetDeckState(decks, d) :
        /\ decks' = o.decks /\ timers' = o.timers /\ nowPlaying' = o.nowPlaying
        /\ UNCHANGED <<switchTimer, destroyed, listening, live>>
  BY DEF PlayStateIgnored
<1>2. /\ DecksTyped(o.decks) /\ o.timers \in [Decks -> Timer]
      /\ o.nowPlaying \in Decks \cup {NoDeck}
      /\ \A e \in Decks : o.timers[e] \in {timers[e], NoTimer}
  BY <1>0, LookUpTypes
<1>3. QED
  BY <1>0, <1>1, <1>2, StepTypes DEF DecksTyped

\* A play cues the deck with the time it lacks, or resumes it.
LEMMA PlayStartTypes ==
  ASSUME TypeOK, NEW d \in Decks, PlayStart(d)
  PROVE  DeckStepOK
<1>0. /\ DecksTyped(decks) /\ timers \in [Decks -> Timer]
      /\ nowPlaying \in Decks \cup {NoDeck} /\ live \in LiveType
  BY TypeParts
<1> DEFINE deck == decks[d]
           resumes == deck.state \in {"PLAYING", "ENDED"}
           kept == KeptTime(deck)
           new == [deck EXCEPT !.state = IF resumes THEN "PLAYING" ELSE "CUEING",
                               !.isPlaying = TRUE, !.playAge = 0,
                               !.accum = kept, !.pauseAge = Unset]
           cue == [kind |-> "threshold", left |-> LiveThreshold - kept]
<1>1. deck \in DeckState
  BY <1>0 DEF DecksTyped
<1>2. kept \in 0..AccumCap
  BY <1>1, ConstantFacts DEF KeptTime, DeckState
<1>3. cue \in Timer
  BY <1>2, ConstantFacts DEF Timer, AccumCap
<1>4. new \in DeckState /\ new.playAge # Unset
  <2>1. 0 \in {Unset} \cup 0..AccumCap /\ Unset \in {Unset} \cup 0..PauseCap /\ 0 # Unset
    BY ConstantFacts DEF Unset
  <2>2. QED
    BY <1>1, <1>2, <2>1 DEF DeckState, Phases
<1>5. /\ decks' = [decks EXCEPT ![d] = new]
      /\ timers' = timers \/ (~destroyed /\ timers' = [timers EXCEPT ![d] = cue])
      /\ nowPlaying' = nowPlaying /\ live' = live
      /\ switchTimer' = IF d = nowPlaying THEN Unset ELSE switchTimer
      /\ UNCHANGED <<destroyed, listening>>
  BY DEF PlayStart, StartTimer
<1> HIDE DEF new, cue
<1>6. DecksTyped(decks')
  BY <1>0, <1>4, <1>5 DEF DecksTyped
<1>7. timers' \in [Decks -> Timer]
  BY <1>0, <1>3, <1>5
<1>8. QED
  BY <1>0, <1>5, <1>6, <1>7, StepTypes

\* A pause starts the grace timer and maybe the switch timer, on a manager that lives.
LEMMA PlayStopTypes ==
  ASSUME TypeOK, NEW d \in Decks, PlayStop(d)
  PROVE  DeckStepOK
<1>0. /\ DecksTyped(decks) /\ timers \in [Decks -> Timer]
      /\ nowPlaying \in Decks \cup {NoDeck} /\ live \in LiveType
      /\ destroyed \in BOOLEAN
  BY TypeParts
<1> DEFINE deck == decks[d]
           pauses == deck.state = "PLAYING"
           stopped == [timers EXCEPT ![d] = NoTimer]
           sum == AtMost(AccumCap, deck.accum + deck.playAge)
           new == [deck EXCEPT !.state = IF pauses THEN "PLAYING" ELSE "LOADED",
                               !.isPlaying = FALSE, !.playAge = Unset,
                               !.accum = sum, !.pauseAge = 0]
           grace == [kind |-> "grace", left |-> PauseGrace]
<1>1. deck \in DeckState /\ deck.playAge # Unset
  BY <1>0 DEF DecksTyped, PlayStop
<1>2. sum \in 0..AccumCap
  <2>1. deck.accum \in Nat /\ deck.playAge \in Nat
    BY <1>1, ConstantFacts DEF DeckState
  <2>2. QED
    BY <2>1, ConstantFacts DEF AtMost
<1>3. grace \in Timer /\ NoTimer \in Timer
  BY ConstantFacts DEF Timer, NoTimer
<1>4. new \in DeckState /\ ~new.isPlaying
  <2>1. Unset \in {Unset} \cup 0..AccumCap /\ 0 \in {Unset} \cup 0..PauseCap
    BY ConstantFacts
  <2>2. QED
    BY <1>1, <1>2, <2>1 DEF DeckState, Phases
<1>5. /\ decks' = [decks EXCEPT ![d] = new]
      /\ timers' = stopped \/ (~destroyed /\ timers' = [stopped EXCEPT ![d] = grace])
      /\ nowPlaying' = nowPlaying /\ live' = live
      /\ switchTimer' = switchTimer \/ (~destroyed /\ switchTimer' = NowPlayingPause)
      /\ UNCHANGED <<destroyed, listening>>
  BY <1>0 DEF PlayStop, StartTimer
<1> HIDE DEF new, grace
<1>6. DecksTyped(decks')
  BY <1>0, <1>4, <1>5 DEF DecksTyped
<1>7. /\ timers' \in [Decks -> Timer]
      /\ ~destroyed \/ \A e \in Decks : timers'[e] \in {timers[e], NoTimer}
  BY <1>0, <1>3, <1>5
<1>8. QED
  BY <1>0, <1>5, <1>6, <1>7, ConstantFacts, StepTypes

\* The fader starts the switch timer of a manager that lives, or has its deck checked.
LEMMA UpdateFaderTypes ==
  ASSUME TypeOK, NEW d \in Decks, NEW b \in BOOLEAN, UpdateFaderLevel(d, b)
  PROVE  DeckStepOK
<1>0. /\ DecksTyped(decks) /\ timers \in [Decks -> Timer]
      /\ nowPlaying \in Decks \cup {NoDeck} /\ live \in LiveType
      /\ destroyed \in BOOLEAN
  BY TypeParts
<1>1. PICK o \in GetDeckState(decks, d) :
        LET D == [o.decks EXCEPT ![d].faderUp = b]
        IN /\ timers' = o.timers
           /\ \/ CheckAndReport(D, d)
              \/ /\ decks' = D
                 /\ nowPlaying' = o.nowPlaying
                 /\ switchTimer' = switchTimer \/ (~destroyed /\ switchTimer' = NowPlayingPause)
                 /\ UNCHANGED live
           /\ UNCHANGED <<destroyed, listening>>
  <2>1. PICK o \in GetDeckState(decks, d) :
          LET D == [o.decks EXCEPT ![d].faderUp = b]
              wasLow == ~o.decks[d].faderUp
          IN /\ timers' = o.timers
             /\ IF wasLow /\ b /\ D[d].state = "PLAYING"
                  THEN CheckAndReport(D, d)
                  ELSE /\ decks' = D
                       /\ nowPlaying' = o.nowPlaying
                       /\ switchTimer' = IF d = nowPlaying /\ ~b /\ ~wasLow /\ ~destroyed
                                           THEN NowPlayingPause ELSE switchTimer
                       /\ UNCHANGED live
             /\ UNCHANGED <<destroyed, listening>>
    BY DEF UpdateFaderLevel
  <2>2. QED
    BY <2>1
<1> DEFINE D == [o.decks EXCEPT ![d].faderUp = b]
<1>2. /\ DecksTyped(o.decks) /\ o.timers \in [Decks -> Timer]
      /\ o.nowPlaying \in Decks \cup {NoDeck}
      /\ \A e \in Decks : o.timers[e] \in {timers[e], NoTimer}
  BY <1>0, LookUpTypes
<1>3. DecksTyped(D)
  BY <1>2 DEF DecksTyped, DeckState
<1>4. CASE CheckAndReport(D, d)
  <2>1. /\ DecksTyped(decks') /\ nowPlaying' \in Decks \cup {NoDeck}
        /\ switchTimer' \in {Unset, switchTimer}
        /\ live' \in LiveType /\ (~listening => live' = live)
    BY <1>0, <1>3, <1>4, CheckTypes
  <2>2. QED
    BY <1>1, <1>2, <2>1, StepTypes
<1>5. CASE /\ decks' = D /\ nowPlaying' = o.nowPlaying /\ UNCHANGED live
           /\ switchTimer' = switchTimer \/ (~destroyed /\ switchTimer' = NowPlayingPause)
  <2>1. DecksTyped(decks')
    BY <1>3, <1>5
  <2>2. QED
    BY <1>0, <1>1, <1>2, <1>5, <2>1, ConstantFacts, StepTypes
<1>6. QED
  BY <1>1, <1>4, <1>5

\* The look-up of a new master may throw: then the old one is already dropped.
LEMMA SetMasterTypes ==
  ASSUME TypeOK, NEW d \in Decks, SetMasterDeck(d)
  PROVE  DeckStepOK
<1>0. /\ DecksTyped(decks) /\ timers \in [Decks -> Timer]
      /\ nowPlaying \in Decks \cup {NoDeck} /\ live \in LiveType
  BY TypeParts
<1> DEFINE bare == [e \in Decks |-> [decks[e] EXCEPT !.isMaster = FALSE]]
<1>1. DecksTyped(bare)
  BY <1>0 DEF DecksTyped, DeckState
<1>2. UNCHANGED <<destroyed, listening>>
  BY DEF SetMasterDeck
<1>3. ASSUME NEW o \in GetDeckState(bare, d), timers' = o.timers,
             LET D == [o.decks EXCEPT ![d].isMaster = TRUE]
             IN \/ CheckAndReport(D, d)
                \/ /\ decks' = D /\ nowPlaying' = o.nowPlaying
                   /\ UNCHANGED <<switchTimer, live>>
      PROVE  DeckStepOK
  <2> DEFINE D == [o.decks EXCEPT ![d].isMaster = TRUE]
  <2>1. /\ DecksTyped(o.decks) /\ o.timers \in [Decks -> Timer]
        /\ o.nowPlaying \in Decks \cup {NoDeck}
        /\ \A e \in Decks : o.timers[e] \in {timers[e], NoTimer}
    BY <1>0, <1>1, LookUpTypes
  <2>2. DecksTyped(D)
    BY <2>1 DEF DecksTyped, DeckState
  <2>3. CASE CheckAndReport(D, d)
    <3>1. /\ DecksTyped(decks') /\ nowPlaying' \in Decks \cup {NoDeck}
          /\ switchTimer' \in {Unset, switchTimer}
          /\ live' \in LiveType /\ (~listening => live' = live)
      BY <1>0, <2>2, <2>3, CheckTypes
    <3>2. QED
      BY <1>2, <1>3, <2>1, <3>1, StepTypes
  <2>4. CASE decks' = D /\ nowPlaying' = o.nowPlaying /\ UNCHANGED <<switchTimer, live>>
    <3>1. DecksTyped(decks')
      BY <2>2, <2>4
    <3>2. QED
      BY <1>0, <1>2, <1>3, <2>1, <2>4, <3>1, StepTypes
  <2>5. QED
    BY <1>3, <2>3, <2>4
<1>4. CASE decks' = bare /\ UNCHANGED <<timers, nowPlaying, switchTimer, live>>
  <2>1. DecksTyped(decks')
    BY <1>1, <1>4
  <2>2. QED
    BY <1>0, <1>2, <1>4, <2>1, StepTypes
<1>5. QED
  BY <1>3, <1>4 DEF SetMasterDeck

\* A deck that has reached the threshold plays, and is checked.
LEMMA ThresholdTypes ==
  ASSUME TypeOK, NEW d \in Decks, ThresholdReached(d)
  PROVE  DeckStepOK
<1>0. /\ DecksTyped(decks) /\ timers \in [Decks -> Timer]
      /\ nowPlaying \in Decks \cup {NoDeck} /\ live \in LiveType
  BY TypeParts
<1> DEFINE D == [decks EXCEPT ![d].state = "PLAYING"]
<1>1. DecksTyped(D)
  BY <1>0 DEF DecksTyped, DeckState, Phases
<1>2. NoTimer \in Timer
  BY DEF Timer, NoTimer
<1>3. /\ timers' = [timers EXCEPT ![d] = NoTimer] /\ UNCHANGED <<destroyed, listening>>
      /\ \/ CheckAndReport(D, d)
         \/ UNCHANGED <<decks, nowPlaying, switchTimer, live>>
  BY DEF ThresholdReached
<1>4. timers' \in [Decks -> Timer] /\ \A e \in Decks : timers'[e] \in {timers[e], NoTimer}
  BY <1>0, <1>2, <1>3
<1>5. CASE CheckAndReport(D, d)
  <2>1. /\ DecksTyped(decks') /\ nowPlaying' \in Decks \cup {NoDeck}
        /\ switchTimer' \in {Unset, switchTimer}
        /\ live' \in LiveType /\ (~listening => live' = live)
    BY <1>0, <1>1, <1>5, CheckTypes
  <2>2. QED
    BY <1>3, <1>4, <2>1, StepTypes
<1>6. CASE UNCHANGED <<decks, nowPlaying, switchTimer, live>>
  <2>1. DecksTyped(decks')
    BY <1>0, <1>6
  <2>2. QED
    BY <1>0, <1>3, <1>4, <1>6, <2>1, StepTypes
<1>7. QED
  BY <1>3, <1>5, <1>6

\* A pause beyond the grace period ends the deck, and may hand its role over.
LEMMA GraceTypes ==
  ASSUME TypeOK, NEW d \in Decks, GracePeriodExpired(d)
  PROVE  DeckStepOK
<1>0. /\ DecksTyped(decks) /\ timers \in [Decks -> Timer]
      /\ nowPlaying \in Decks \cup {NoDeck} /\ live \in LiveType
  BY TypeParts
<1> DEFINE D == [decks EXCEPT ![d].state = "ENDED"]
<1>1. DecksTyped(D)
  BY <1>0 DEF DecksTyped, DeckState, Phases
<1>2. NoTimer \in Timer
  BY DEF Timer, NoTimer
<1>3. /\ timers' = [timers EXCEPT ![d] = NoTimer] /\ UNCHANGED <<destroyed, listening>>
      /\ \/ Scan(D)
         \/ decks' \in {D, decks} /\ UNCHANGED <<nowPlaying, switchTimer, live>>
  BY DEF GracePeriodExpired
<1>4. timers' \in [Decks -> Timer] /\ \A e \in Decks : timers'[e] \in {timers[e], NoTimer}
  BY <1>0, <1>2, <1>3
<1>5. CASE Scan(D)
  <2>1. /\ DecksTyped(decks') /\ nowPlaying' \in Decks \cup {NoDeck} /\ switchTimer' = Unset
        /\ live' \in LiveType /\ (~listening => live' = live)
    BY <1>0, <1>1, <1>5, ScanTypes
  <2>2. QED
    BY <1>3, <1>4, <2>1, StepTypes
<1>6. CASE decks' \in {D, decks} /\ UNCHANGED <<nowPlaying, switchTimer, live>>
  <2>1. DecksTyped(decks')
    BY <1>0, <1>1, <1>6
  <2>2. QED
    BY <1>0, <1>3, <1>4, <1>6, <2>1, StepTypes
<1>7. QED
  BY <1>3, <1>5, <1>6

\* The switch timer's scan.
LEMMA SwitchTimerTypes ==
  ASSUME TypeOK, NowPlayingSwitchTimerExpired
  PROVE  DeckStepOK
<1>0. /\ DecksTyped(decks) /\ timers \in [Decks -> Timer] /\ live \in LiveType
  BY TypeParts
<1>1. Scan(decks) /\ UNCHANGED <<timers, destroyed, listening>>
  BY DEF NowPlayingSwitchTimerExpired
<1>2. /\ DecksTyped(decks') /\ nowPlaying' \in Decks \cup {NoDeck} /\ switchTimer' = Unset
      /\ live' \in LiveType /\ (~listening => live' = live)
  BY <1>0, <1>1, ScanTypes
<1>3. QED
  BY <1>0, <1>1, <1>2, StepTypes

\* A tick comes only when nothing is due, so what is pending has a tick left.
LEMMA TickTypes ==
  ASSUME TypeOK, Tick
  PROVE  DeckStepOK
<1>0. /\ DecksTyped(decks) /\ timers \in [Decks -> Timer]
      /\ switchTimer \in {Unset} \cup Nat /\ nowPlaying \in Decks \cup {NoDeck}
      /\ destroyed \in BOOLEAN /\ listening \in BOOLEAN /\ live \in LiveType
  BY TypeParts
<1>1. ASSUME NEW d \in Decks
      PROVE  decks'[d] \in DeckState /\ (decks'[d].isPlaying => decks'[d].playAge # Unset)
  <2> DEFINE deck == decks[d]
             play == Older(AccumCap, deck.playAge)
             pause == Older(PauseCap, deck.pauseAge)
             new == [deck EXCEPT !.playAge = play, !.pauseAge = pause]
  <2>1. deck \in DeckState /\ (deck.isPlaying => deck.playAge # Unset)
    BY <1>0 DEF DecksTyped
  <2>2. deck.playAge \in {Unset} \cup 0..AccumCap /\ deck.pauseAge \in {Unset} \cup 0..PauseCap
    BY <2>1 DEF DeckState
  <2>3. /\ play \in {Unset} \cup 0..AccumCap /\ pause \in {Unset} \cup 0..PauseCap
        /\ deck.playAge # Unset => play # Unset
    BY <2>2, ConstantFacts DEF Older, AtMost, Unset
  <2>4. new \in DeckState /\ new.playAge = play /\ new.isPlaying = deck.isPlaying
    BY <2>1, <2>3 DEF DeckState
  <2>5. decks'[d] = new
    BY DEF Tick, Aged
  <2>6. QED
    BY <2>1, <2>3, <2>4, <2>5
<1>2. ASSUME NEW d \in Decks
      PROVE  timers'[d] \in Timer /\ (timers[d] = NoTimer => timers'[d] = NoTimer)
  <2>1. timers[d] \in Timer
    BY <1>0
  <2>2. CASE timers[d].kind = "none"
    BY <2>2 DEF Tick, Timer, NoTimer
  <2>3. CASE timers[d].kind # "none"
    <3>1. timers[d].left \in Nat /\ timers[d].left # 0
      BY <2>1, <2>3 DEF Timer, Tick, Due
    <3>2. timers'[d] = [timers[d] EXCEPT !.left = timers[d].left - 1]
      BY <2>3 DEF Tick
    <3>3. timers[d] # NoTimer
      BY <2>3 DEF NoTimer
    <3>4. QED
      BY <2>1, <3>1, <3>2, <3>3 DEF Timer
  <2>4. QED
    BY <2>2, <2>3
<1>3. DecksTyped(decks)' /\ timers' \in [Decks -> Timer]
  <2>1. /\ decks' = [d \in Decks |-> Aged(decks[d])]
        /\ timers' = [d \in Decks |-> IF timers[d].kind = "none" THEN NoTimer
                                       ELSE [timers[d] EXCEPT !.left = @ - 1]]
    BY DEF Tick
  <2>2. decks' \in [Decks -> DeckState]
    <3>1. \A d \in Decks : Aged(decks[d]) \in DeckState
      BY <1>1, <2>1
    <3>2. QED
      BY <2>1, <3>1
  <2>3. timers' \in [Decks -> Timer]
    BY <1>2, <2>1
  <2>4. QED
    BY <1>1, <2>2, <2>3 DEF DecksTyped
<1>4. switchTimer' \in {Unset} \cup Nat /\ (switchTimer = Unset => switchTimer' = Unset)
  <2>1. switchTimer # 0 /\ switchTimer' = IF switchTimer = Unset THEN Unset ELSE switchTimer - 1
    BY DEF Tick, Due
  <2>2. QED
    BY <1>0, <2>1 DEF Unset
<1>5. UNCHANGED <<nowPlaying, destroyed, listening, live>>
  BY DEF Tick
<1>6. TypeOK'
  BY <1>0, <1>3, <1>4, <1>5, TypeParts
<1>7. QED
  BY <1>2, <1>4, <1>5, <1>6 DEF DeckStepOK, Still

-------------------------------------------------------------------------------
(* The bridge's steps *)

\* A step of the manager disturbs nothing else.
LEMMA ManagerSteps ==
  ASSUME BridgeInv, DeckStepOK, UNCHANGED bridgeVars
  PROVE  BridgeInv'
<1>1. BridgeTypeOK'
  BY DEF BridgeInv, BridgeTypeOK, DeckStepOK, bridgeVars
<1>2. QuietInv'
  BY DEF BridgeInv, QuietInv, DeckStepOK, bridgeVars
<1>3. QED
  BY <1>1, <1>2 DEF BridgeInv

\* What the plugin reports of a deck reaches one call of the manager.
LEMMA DeviceEventKeeps ==
  ASSUME BridgeInv, DeviceEvent
  PROVE  BridgeInv'
<1>1. TypeOK
  BY DEF BridgeInv, BridgeTypeOK
<1>2. EmptyDeck \in DeckState /\ ~EmptyDeck.isPlaying
  BY FreshDecks DEF EmptyDeck
<1>3. ASSUME NEW d \in Decks, NEW t \in Tracks \cup {NoTrack}, HandleTrack(d, t)
      PROVE  DeckStepOK
  <2>1. CASE UnloadTrack(d)
    BY <1>1, <1>2, <2>1, PutTrackTypes DEF UnloadTrack
  <2>2. ASSUME t \in Tracks
        PROVE  LoadedDeck(t) \in DeckState /\ ~LoadedDeck(t).isPlaying
    BY <1>2, <2>2 DEF LoadedDeck, DeckState, Phases
  <2>3. CASE t \in Tracks /\ LoadTrack(d, t)
    BY <1>1, <2>2, <2>3, PutTrackTypes DEF LoadTrack
  <2>4. CASE t \in Tracks /\ LoadAndPlay(d, t)
    <3> DEFINE loaded == LoadedDeck(t)
               cued == [loaded EXCEPT !.state = "CUEING", !.isPlaying = TRUE, !.playAge = 0]
    <3>1. loaded \in DeckState
      BY <2>2, <2>4
    <3> HIDE DEF loaded
    <3>2. 0 \in {Unset} \cup 0..AccumCap /\ 0 # Unset
      BY ConstantFacts DEF Unset
    <3>3. cued \in DeckState /\ cued.playAge # Unset
      BY <3>1, <3>2 DEF DeckState, Phases
    <3>4. PutTrack(d, cued, LiveThreshold)
      BY <2>4 DEF LoadAndPlay, loaded
    <3> HIDE DEF cued
    <3>5. QED
      BY <1>1, <3>3, <3>4, ConstantFacts, PutTrackTypes
  <2>5. QED
    BY <1>3, <2>1, <2>3, <2>4 DEF HandleTrack
<1>4. ASSUME NEW d \in Decks, NEW b \in BOOLEAN, HandlePlayState(d, b)
      PROVE  DeckStepOK
  BY <1>1, <1>4, PlayStateIgnoredTypes, PlayStartTypes, PlayStopTypes DEF HandlePlayState
<1>5. DeckStepOK
  BY <1>1, <1>3, <1>4, UpdateFaderTypes, SetMasterTypes DEF DeviceEvent
<1>6. QED
  BY <1>5, ManagerSteps DEF DeviceEvent

\* So do the manager's timers and the passing of time.
LEMMA TimersKeep ==
  ASSUME BridgeInv, DeckTimer \/ TimePasses
  PROVE  BridgeInv'
<1>1. TypeOK
  BY DEF BridgeInv, BridgeTypeOK
<1>2. DeckStepOK
  BY <1>1, ThresholdTypes, GraceTypes, SwitchTimerTypes, TickTypes DEF DeckTimer, Fire, TimePasses
<1>3. QED
  BY <1>2, ManagerSteps DEF DeckTimer, TimePasses

\* The call of slot c comes to another await.
LEMMA MoveTypes ==
  ASSUME calls \in [Calls -> [pc : Points, owns : BOOLEAN]], NEW c \in Calls,
         NEW pc \in Points, NEW owns \in BOOLEAN,
         calls' = [calls EXCEPT ![c] = [pc |-> pc, owns |-> owns]]
  PROVE  /\ calls' \in [Calls -> [pc : Points, owns : BOOLEAN]]
         /\ calls'[c].pc = pc
         /\ \A x \in Calls \ {c} : calls'[x] = calls[x]
OBVIOUS

\* A slot that is at rest.
LEMMA IdleTypes == Idle = [pc |-> "idle", owns |-> FALSE] /\ "idle" \in Points
BY DEF Idle, Points

\* After a cleanup nothing is pending and nothing is shown; it does not matter which
\* calls are still in progress.
LEMMA CleanupKeeps ==
  ASSUME BridgeInv, Cleanup, running' \in BOOLEAN, wasConnected' \in BOOLEAN,
         pluginRunning' \in BOOLEAN,
         calls' \in [Calls -> [pc : Points, owns : BOOLEAN]]
  PROVE  BridgeInv'
<1>1. TypeOK
  BY DEF BridgeInv, BridgeTypeOK
<1>2. /\ destroyed' = TRUE /\ listening' = FALSE
      /\ timers' = [d \in Decks |-> NoTimer] /\ switchTimer' = Unset
      /\ decks' = decks /\ nowPlaying' = nowPlaying /\ live' = NoLive
      /\ reconnectTimer' = FALSE /\ heartbeat' = FALSE /\ wired' = FALSE
  BY DEF Cleanup, Destroy, ClearNowPlaying
<1>3. TypeOK'
  <2>1. NoLive \in LiveType /\ NoTimer \in Timer
    BY DEF NoLive, LiveType, Timer, NoTimer
  <2>2. DecksTyped(decks)'
    BY <1>1, <1>2, TypeParts DEF DecksTyped
  <2>3. QED
    BY <1>1, <1>2, <2>1, <2>2, TypeParts
<1>4. BridgeTypeOK'
  BY <1>2, <1>3 DEF BridgeTypeOK
<1>5. QuietInv'
  BY <1>2 DEF QuietInv, Still
<1>6. QED
  BY <1>4, <1>5 DEF BridgeInv

\* A reset leaves a fresh map, on a manager that is as destroyed as it was.
LEMMA ResetTypes ==
  ASSUME TypeOK, Reset, live' \in {live, NoLive}
  PROVE  /\ TypeOK' /\ Still' /\ destroyed' = destroyed /\ listening' = listening
<1>1. /\ decks' = [d \in Decks |-> AbsentDeck] /\ timers' = [d \in Decks |-> NoTimer]
      /\ switchTimer' = Unset /\ nowPlaying' = NoDeck
      /\ destroyed' = destroyed /\ listening' = listening
  BY DEF Reset
<1>2. NoLive \in LiveType /\ NoTimer \in Timer
  BY DEF NoLive, LiveType, Timer, NoTimer
<1>3. AbsentDeck \in DeckState /\ ~AbsentDeck.isPlaying
  BY FreshDecks DEF AbsentDeck, EmptyDeck
<1>4. DecksTyped(decks)'
  BY <1>1, <1>3 DEF DecksTyped
<1>5. TypeOK'
  BY <1>1, <1>2, <1>4, TypeParts
<1>6. QED
  BY <1>1, <1>5 DEF Still

\* A step that leaves the manager to itself and keeps the stop in progress, if any.
LEMMA CallMoves ==
  ASSUME BridgeInv, UNCHANGED vars, running' = running, wasConnected' \in BOOLEAN,
         heartbeat' \in BOOLEAN, reconnectTimer' \in BOOLEAN, pluginRunning' \in BOOLEAN,
         wired' \in BOOLEAN, calls' \in [Calls -> [pc : Points, owns : BOOLEAN]],
         ~running => ~reconnectTimer',
         \A x \in Calls : calls[x].pc \in {"stopping", "restart_stopping"} => calls'[x] = calls[x]
  PROVE  BridgeInv'
<1>1. TypeOK'
  BY DEF BridgeInv, BridgeTypeOK, TypeOK, vars
<1>2. BridgeTypeOK'
  BY <1>1 DEF BridgeInv, BridgeTypeOK
<1>3. QuietInv'
  BY DEF BridgeInv, QuietInv, Still, vars
<1>4. QED
  BY <1>2, <1>3 DEF BridgeInv

\* start() listens to the manager again, and runs from then on.
LEMMA StartKeeps ==
  ASSUME BridgeInv, NEW c \in Calls, Start(c),
         calls[c].pc \notin {"stopping", "restart_stopping"}
  PROVE  BridgeInv'
<1>1. CASE running /\ calls' = [calls EXCEPT ![c] = Idle]
           /\ UNCHANGED <<vars, running, wasConnected, heartbeat, reconnectTimer, pluginRunning, wired>>
  BY <1>1, IdleTypes, CallMoves DEF BridgeInv, BridgeTypeOK
<1>2. CASE /\ ~running /\ running' = TRUE /\ wasConnected' = FALSE /\ listening' = TRUE
           /\ wired' = TRUE /\ CallPluginStart(c, "starting")
           /\ UNCHANGED <<decks, timers, switchTimer, nowPlaying, destroyed, live,
                          heartbeat, reconnectTimer>>
  <2>1. TypeOK'
    BY <1>2 DEF BridgeInv, BridgeTypeOK, TypeOK
  <2>2. BridgeTypeOK'
    BY <1>2, <2>1 DEF BridgeInv, BridgeTypeOK, CallPluginStart, MoveTo, Points
  <2>3. QuietInv'
    BY <1>2 DEF BridgeInv, QuietInv, Still
  <2>4. QED
    BY <2>2, <2>3 DEF BridgeInv
<1>3. QED
  BY <1>1, <1>2 DEF Start

\* stop() ends what may reconnect at once, and waits for the plugin.
LEMMA StopKeeps ==
  ASSUME BridgeInv, NEW c \in Calls, NEW pc \in {"stopping", "restart_stopping"}, Stop(c, pc)
  PROVE  BridgeInv'
<1>1. /\ running' = FALSE /\ reconnectTimer' = FALSE /\ pluginRunning' = FALSE
      /\ calls' = [calls EXCEPT ![c] = [pc |-> pc, owns |-> pluginRunning]]
      /\ UNCHANGED <<vars, wasConnected, heartbeat, wired>>
  BY DEF Stop, CallPluginStop, MoveTo
<1>2. calls' \in [Calls -> [pc : Points, owns : BOOLEAN]] /\ calls'[c].pc = pc
  <2>1. pc \in Points /\ pluginRunning \in BOOLEAN
    BY DEF Points, BridgeInv, BridgeTypeOK
  <2>2. QED
    BY <1>1, <2>1, MoveTypes DEF BridgeInv, BridgeTypeOK
<1>3. BridgeTypeOK'
  <2>1. TypeOK'
    BY <1>1 DEF BridgeInv, BridgeTypeOK, TypeOK, vars
  <2>2. QED
    BY <1>1, <1>2, <2>1 DEF BridgeInv, BridgeTypeOK
<1>4. QuietInv'
  BY <1>1, <1>2 DEF BridgeInv, QuietInv, Still, vars
<1>5. QED
  BY <1>3, <1>4 DEF BridgeInv

\* The commands that a slot at rest may take up.
LEMMA CommandsKeep ==
  ASSUME BridgeInv, NEW c \in Calls,
         CallStop(c) \/ CallRestart(c) \/ CallReconnect(c) \/ ReconnectTimerFires(c)
  PROVE  BridgeInv'
<1>1. /\ running \in BOOLEAN /\ wasConnected \in BOOLEAN /\ heartbeat \in BOOLEAN
      /\ pluginRunning \in BOOLEAN /\ wired \in BOOLEAN
      /\ calls \in [Calls -> [pc : Points, owns : BOOLEAN]]
  BY DEF BridgeInv, BridgeTypeOK
<1>2. calls[c].pc = "idle"
  BY DEF CallStop, CallRestart, CallReconnect, ReconnectTimerFires, At
<1>3. CASE CallStop(c)
  BY <1>3, StopKeeps DEF CallStop
<1>4. CASE CallRestart(c)
  BY <1>2, <1>4, StopKeeps, StartKeeps DEF CallRestart
<1>5. CASE reconnectTimer' = FALSE /\ AttemptReconnect(c)
  <2>1. /\ pluginRunning' = FALSE
        /\ calls' = [calls EXCEPT ![c] = [pc |-> "reconnect_stopping", owns |-> pluginRunning]]
        /\ UNCHANGED <<vars, running, wasConnected, heartbeat, wired>>
    BY <1>5 DEF AttemptReconnect, CallPluginStop, MoveTo
  <2>2. calls' \in [Calls -> [pc : Points, owns : BOOLEAN]]
        /\ \A x \in Calls \ {c} : calls'[x] = calls[x]
    <3>1. "reconnect_stopping" \in Points
      BY DEF Points
    <3>2. QED
      BY <1>1, <2>1, <3>1, MoveTypes
  <2>3. QED
    BY <1>1, <1>2, <1>5, <2>1, <2>2, CallMoves
<1>6. CASE /\ reconnectTimer' = FALSE /\ ~running
           /\ UNCHANGED <<vars, running, wasConnected, heartbeat, pluginRunning, wired, calls>>
  BY <1>1, <1>6, CallMoves
<1>7. QED
  BY <1>3, <1>4, <1>5, <1>6 DEF CallReconnect, ReconnectTimerFires

\* A reconnection that has stopped the plugin resets the decks and starts it again.
LEMMA ReconnectStoppedKeeps ==
  ASSUME BridgeInv, NEW c \in Calls, ReconnectStopped(c)
  PROVE  BridgeInv'
<1>1. /\ calls[c].pc = "reconnect_stopping" /\ Reset /\ live' = live /\ wired' = TRUE
      /\ pluginRunning' = TRUE
      /\ calls' = [calls EXCEPT ![c] = [pc |-> "reconnect_starting", owns |-> ~pluginRunning]]
      /\ UNCHANGED <<running, wasConnected, heartbeat, reconnectTimer>>
  BY DEF ReconnectStopped, CallPluginStart, MoveTo, At
<1>2. /\ TypeOK' /\ Still' /\ destroyed' = destroyed /\ listening' = listening
  BY <1>1, ResetTypes DEF BridgeInv, BridgeTypeOK
<1>3. calls' \in [Calls -> [pc : Points, owns : BOOLEAN]]
      /\ \A x \in Calls \ {c} : calls'[x] = calls[x]
  <2>1. "reconnect_starting" \in Points /\ (~pluginRunning) \in BOOLEAN
    BY DEF Points
  <2>2. QED
    BY <1>1, <2>1, MoveTypes DEF BridgeInv, BridgeTypeOK
<1>4. BridgeTypeOK'
  BY <1>1, <1>2, <1>3 DEF BridgeInv, BridgeTypeOK
<1>5. QuietInv'
  BY <1>1, <1>2, <1>3 DEF BridgeInv, QuietInv
<1>6. QED
  BY <1>4, <1>5 DEF BridgeInv

\* A call that returns, in time or not.
LEMMA ReturnsKeep ==
  ASSUME BridgeInv, NEW c \in Calls, CallReturns(c)
  PROVE  BridgeInv'
<1>1. /\ running \in BOOLEAN /\ wasConnected \in BOOLEAN /\ heartbeat \in BOOLEAN
      /\ reconnectTimer \in BOOLEAN /\ pluginRunning \in BOOLEAN /\ wired \in BOOLEAN
      /\ calls \in [Calls -> [pc : Points, owns : BOOLEAN]]
      /\ ~running => ~reconnectTimer
  BY DEF BridgeInv, BridgeTypeOK, QuietInv
<1>2. /\ [calls EXCEPT ![c] = Idle] \in [Calls -> [pc : Points, owns : BOOLEAN]]
      /\ \A x \in Calls \ {c} : [calls EXCEPT ![c] = Idle][x] = calls[x]
  BY <1>1, IdleTypes
<1>3. CASE Started(c) \/ ReconnectStarted(c)
  <2>1. /\ calls[c].pc \notin {"stopping", "restart_stopping"}
        /\ calls' = [calls EXCEPT ![c] = Idle]
        /\ UNCHANGED <<vars, running, wasConnected, heartbeat, reconnectTimer, pluginRunning, wired>>
    BY <1>3 DEF Started, ReconnectStarted, At
  <2>2. QED
    BY <1>1, <1>2, <2>1, CallMoves
<1>4. CASE StartFailed(c)
  <2>1. /\ running' = FALSE /\ Cleanup /\ calls' = [calls EXCEPT ![c] = Idle]
        /\ pluginRunning' \in {pluginRunning, FALSE} /\ wasConnected' = wasConnected
    BY <1>4 DEF StartFailed
  <2>2. QED
    BY <1>1, <1>2, <2>1, CleanupKeeps
<1>5. CASE Stopped(c)
  <2>1. PICK pc \in {"idle", "restart_stopped"} : MoveTo(c, pc, FALSE)
    BY <1>5 DEF Stopped
  <2>2. calls' \in [Calls -> [pc : Points, owns : BOOLEAN]]
    BY <1>1, <2>1 DEF MoveTo, Points
  <2>3. QED
    BY <1>1, <1>5, <2>2, CleanupKeeps DEF Stopped
<1>6. CASE RestartGoesOn(c)
  BY <1>6, StartKeeps DEF RestartGoesOn, At
<1>7. CASE ReconnectFailed(c)
  <2>1. /\ calls[c].pc \notin {"stopping", "restart_stopping"}
        /\ calls' = [calls EXCEPT ![c] = Idle]
        /\ reconnectTimer' = (reconnectTimer \/ running)
        /\ pluginRunning' \in {pluginRunning, FALSE}
        /\ UNCHANGED <<vars, running, wasConnected, heartbeat, wired>>
    BY <1>7 DEF ReconnectFailed, At, ScheduleReconnect
  <2>2. reconnectTimer' \in BOOLEAN /\ (~running => ~reconnectTimer')
    BY <1>1, <2>1
  <2>3. QED
    BY <1>1, <1>2, <2>1, <2>2, CallMoves
<1>8. QED
  BY <1>3, <1>4, <1>5, <1>6, <1>7, ReconnectStoppedKeeps DEF CallReturns

\* A device that comes or goes.
LEMMA DevicesKeep ==
  ASSUME BridgeInv, Connected \/ Disconnected
  PROVE  BridgeInv'
<1>1. /\ running \in BOOLEAN /\ wasConnected \in BOOLEAN /\ heartbeat \in BOOLEAN
      /\ reconnectTimer \in BOOLEAN /\ pluginRunning \in BOOLEAN /\ wired \in BOOLEAN
      /\ calls \in [Calls -> [pc : Points, owns : BOOLEAN]]
      /\ ~running => ~reconnectTimer
  BY DEF BridgeInv, BridgeTypeOK, QuietInv
<1>2. CASE Connected
  BY <1>1, <1>2, CallMoves DEF Connected
<1>3. CASE Disconnected
  <2>1. /\ heartbeat' = FALSE /\ live' = NoLive
        /\ reconnectTimer' \in {reconnectTimer, reconnectTimer \/ running}
        /\ UNCHANGED <<decks, timers, switchTimer, nowPlaying, destroyed, listening,
                       running, wasConnected, pluginRunning, wired, calls>>
    BY <1>3 DEF Disconnected, ClearNowPlaying, ScheduleReconnect
  <2>2. NoLive \in LiveType
    BY DEF NoLive, LiveType
  <2>3. TypeOK'
    BY <2>1, <2>2 DEF BridgeInv, BridgeTypeOK, TypeOK, LiveType
  <2>4. reconnectTimer' \in BOOLEAN /\ (~running => ~reconnectTimer')
    BY <1>1, <2>1
  <2>5. BridgeTypeOK'
    BY <1>1, <2>1, <2>3, <2>4 DEF BridgeTypeOK
  <2>6. QuietInv'
    BY <2>1, <2>4 DEF BridgeInv, QuietInv, Still
  <2>7. QED
    BY <2>5, <2>6 DEF BridgeInv
<1>4. QED
  BY <1>2, <1>3

\* resetDecks() clears the display along with the map.
LEMMA ResetDecksKeeps ==
  ASSUME BridgeInv, ResetDecks
  PROVE  BridgeInv'
<1>1. Reset /\ live' = NoLive /\ UNCHANGED bridgeVars
  BY DEF ResetDecks, ClearNowPlaying
<1>2. /\ TypeOK' /\ Still' /\ destroyed' = destroyed /\ listening' = listening
  BY <1>1, ResetTypes DEF BridgeInv, BridgeTypeOK
<1>3. BridgeTypeOK'
  BY <1>1, <1>2 DEF BridgeInv, BridgeTypeOK, bridgeVars
<1>4. QuietInv'
  BY <1>1, <1>2 DEF BridgeInv, QuietInv, bridgeVars
<1>5. QED
  BY <1>3, <1>4 DEF BridgeInv

-------------------------------------------------------------------------------
(* The theorems *)

\* main() has called start() on a fresh manager, which is listened to.
LEMMA BridgeInitInv == BridgeInit => BridgeInv
<1> SUFFICES ASSUME BridgeInit PROVE BridgeInv
  OBVIOUS
<1>1. Inv
  BY InitInv DEF BridgeInit
<1>2. TypeOK
  <2>1. NoLive \in LiveType /\ live = NoLive
    BY DEF NoLive, LiveType, BridgeInit, Init
  <2>2. DecksTyped(decks)
    BY <1>1 DEF Inv, DeckOK, DecksTyped
  <2>3. QED
    BY <1>1, <2>1, <2>2 DEF Inv, RoleOK, TypeOK, DecksTyped, LiveType
<1>3. PICK c \in Calls : calls = [x \in Calls |-> IF x = c THEN [pc |-> "main_starting", owns |-> TRUE]
                                                   ELSE Idle]
  BY DEF BridgeInit
<1>4. calls \in [Calls -> [pc : Points, owns : BOOLEAN]]
  BY <1>3, IdleTypes DEF Points
<1>5. BridgeTypeOK
  BY <1>2, <1>4 DEF BridgeTypeOK, BridgeInit
<1>6. QuietInv
  BY DEF BridgeInit, Init, QuietInv
<1>7. QED
  BY <1>5, <1>6 DEF BridgeInv

\* Every step keeps the invariant.
LEMMA BridgeNextInv == BridgeInv /\ [BridgeNext]_allVars => BridgeInv'
<1> SUFFICES ASSUME BridgeInv, [BridgeNext]_allVars PROVE BridgeInv'
  OBVIOUS
<1>1. CASE BridgeNext
  BY <1>1, CommandsKeep, ReturnsKeep, ResetDecksKeeps, DevicesKeep, DeviceEventKeeps, TimersKeep
     DEF BridgeNext
<1>2. CASE UNCHANGED allVars
  BY <1>2 DEF allVars, vars, bridgeVars, BridgeInv, BridgeTypeOK, TypeOK, QuietInv, Still
<1>3. QED
  BY <1>1, <1>2

\* The inductive invariant holds in every reachable state.
THEOREM BridgeInvariant == BridgeSpec => []BridgeInv
BY BridgeInitInv, BridgeNextInv, PTL DEF BridgeSpec

\* Every variable of the composition keeps its type, whatever calls overlap.
THEOREM BridgeTypes == BridgeSpec => []BridgeTypeOK
<1>1. BridgeInv => BridgeTypeOK
  BY DEF BridgeInv
<1>2. QED
  BY <1>1, BridgeInvariant, PTL

\* What is stopped stays quiet (cleanup, destroy and the destroyed guards of the
\* timers): a destroyed manager never has a timer again, a stopped bridge has no
\* reconnection scheduled, and once its calls are over the display is clear.
THEOREM StoppedStaysQuiet == BridgeSpec => []StoppedIsQuiet
<1>1. BridgeInv => StoppedIsQuiet
  <2> SUFFICES ASSUME BridgeInv PROVE StoppedIsQuiet
    OBVIOUS
  <2>1. ASSUME ~running, \A c \in Calls : At(c, "idle")
        PROVE  live = NoLive
    BY <2>1 DEF BridgeInv, QuietInv, At
  <2>2. QED
    BY <2>1 DEF BridgeInv, QuietInv, Still, StoppedIsQuiet
<1>2. QED
  BY <1>1, BridgeInvariant, PTL
=============================================================================

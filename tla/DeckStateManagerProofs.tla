------------------------ MODULE DeckStateManagerProofs ------------------------
(***************************************************************************)
(* Theorems about DeckStateManager, for any set of decks and any           *)
(* configuration.  The inductive invariant is a condition on each deck and *)
(* its timer (DeckOK) and one on the now-playing role (RoleOK).            *)
(***************************************************************************)
EXTENDS DeckStateManager, FiniteSetTheorems, TLAPS

\* A deck and the timer pending for it: typed, and a wait has a matching timer.
DeckOK(deck, timer) ==
  /\ deck \in DeckState
  /\ timer \in Timer
  /\ deck.isPlaying => deck.playAge # Unset
  /\ deck.state = "CUEING" =>
       /\ deck.isPlaying
       /\ timer.kind = "threshold"
       /\ timer.left + deck.accum + deck.playAge = LiveThreshold
  /\ deck.state = "PLAYING" /\ ~deck.isPlaying =>
       /\ deck.pauseAge # Unset
       /\ timer.kind = "grace"
       /\ timer.left + deck.pauseAge = PauseGrace

\* Who is now playing, the switch timer, and what the listeners were told.
RoleOK(D, np, lv, st) ==
  /\ np \in Decks \cup {NoDeck}
  /\ np # NoDeck => D[np].state = "PLAYING" /\ D[np].hasBeenReported
  /\ lv = IF np = NoDeck THEN NoLive ELSE [deck |-> np, track |-> D[np].track]
  /\ st \in {Unset} \cup Nat
  /\ st # Unset => np # NoDeck

\* The inductive invariant.  Without PluginBridge around it nothing destroys the
\* manager or detaches its listeners.
Inv ==
  /\ decks \in [Decks -> DeckState]
  /\ timers \in [Decks -> Timer]
  /\ \A d \in Decks : DeckOK(decks[d], timers[d])
  /\ RoleOK(decks, nowPlaying, live, switchTimer)
  /\ destroyed = FALSE
  /\ listening = TRUE

-------------------------------------------------------------------------------
(* Facts about the constants and the pieces actions are made of *)

\* The caps are numbers, and the markers are not values of what they stand in for.
LEMMA ConstantFacts ==
  /\ AccumCap \in Nat /\ PauseCap \in Nat /\ NoDeck \notin Decks
  /\ NowPlayingPause \in Nat /\ LiveThreshold \in Nat /\ PauseGrace \in Nat
BY DecksAssumption, ConfigAssumption DEF AccumCap, PauseCap, NoDeck

\* The decks that are created, and an evicted deck, need no timer.
LEMMA FreshDecks ==
  /\ EmptyDeck \in DeckState /\ AbsentDeck \in DeckState /\ NoTimer \in Timer
  /\ \A t \in Timer : DeckOK(EmptyDeck, t) /\ DeckOK(AbsentDeck, t)
<1>1. EmptyDeck \in DeckState
  BY ConstantFacts DEF EmptyDeck, DeckState, Phases, Unset
<1>2. AbsentDeck \in DeckState
  BY <1>1 DEF AbsentDeck, DeckState, Phases
<1>3. NoTimer \in Timer
  BY DEF NoTimer, Timer
<1>4. QED
  BY <1>1, <1>2, <1>3 DEF EmptyDeck, AbsentDeck, DeckOK

\* A look-up leaves every deck as it is, but creates d when it is not in the map,
\* for which it may evict a deck that is not PLAYING, timer included.
LEMMA LookUp ==
  ASSUME NEW D \in [Decks -> DeckState], NEW d \in Decks, NEW o \in GetDeckState(D, d),
         timers \in [Decks -> Timer]
  PROVE  /\ o.decks \in [Decks -> DeckState]
         /\ o.timers \in [Decks -> Timer]
         /\ \A e \in Decks :
              \/ o.decks[e] = D[e] /\ o.timers[e] = timers[e]
              \/ /\ o.decks[e] = EmptyDeck /\ o.timers[e] = timers[e]
                 /\ D[e].state = "ABSENT"
              \/ /\ o.decks[e] = AbsentDeck /\ o.timers[e] = NoTimer
                 /\ D[e].state # "PLAYING"
         /\ \/ o.nowPlaying = nowPlaying
            \/ D[nowPlaying].state # "PLAYING"
<1>1. CASE d \in Known(D)
  BY <1>1 DEF GetDeckState
<1>2. CASE d \notin Known(D) /\ Cardinality(Known(D)) < MaxDecks
  <2>1. o = [decks |-> [D EXCEPT ![d] = EmptyDeck], timers |-> timers, nowPlaying |-> nowPlaying]
    BY <1>2 DEF GetDeckState
  <2>2. D[d].state = "ABSENT"
    BY <1>2 DEF Known
  <2>3. QED
    BY <2>1, <2>2, FreshDecks
<1>3. CASE d \notin Known(D) /\ ~(Cardinality(Known(D)) < MaxDecks)
  <2>1. PICK v \in Victims(D) : o = Admit(D, d, v)
    BY <1>3 DEF GetDeckState
  <2>2. v \in Decks /\ v # d /\ D[v].state # "PLAYING" /\ D[d].state = "ABSENT"
    BY <1>3 DEF Victims, Known
  <2>3. /\ o.decks = [e \in Decks |-> IF e = d THEN EmptyDeck
                                      ELSE IF e = v THEN AbsentDeck ELSE D[e]]
        /\ o.timers = [e \in Decks |-> IF e = v THEN NoTimer ELSE timers[e]]
        /\ o.nowPlaying = IF v = nowPlaying THEN NoDeck ELSE nowPlaying
    BY <2>1, <2>2 DEF Admit
  <2>4. QED
    BY <2>2, <2>3, FreshDecks
<1>4. QED
  BY <1>1, <1>2, <1>3

\* DeckOK survives a look-up.
LEMMA LookUpOK ==
  ASSUME NEW D \in [Decks -> DeckState], NEW d \in Decks, NEW o \in GetDeckState(D, d),
         timers \in [Decks -> Timer], \A e \in Decks : DeckOK(D[e], timers[e])
  PROVE  \A e \in Decks : DeckOK(o.decks[e], o.timers[e])
BY LookUp, FreshDecks

\* What an action leaves when it has computed the decks D and ends by reporting
\* or not: D but for reports, and a role that is in order.
Settled(D) ==
  /\ decks' \in [Decks -> DeckState]
  /\ \A e \in Decks : \/ decks'[e] = D[e]
                       \/ decks'[e] = [D[e] EXCEPT !.hasBeenReported = TRUE]
  /\ RoleOK(decks', nowPlaying', live', switchTimer')

\* Being reported is no business of the timers.
LEMMA ReportedOK ==
  ASSUME NEW deck, NEW timer, DeckOK(deck, timer)
  PROVE  DeckOK([deck EXCEPT !.hasBeenReported = TRUE], timer)
BY DEF DeckOK, DeckState

\* So what an action computed agrees with its timers after the report too.
LEMMA SettledOK ==
  ASSUME NEW D, Settled(D), \A e \in Decks : DeckOK(D[e], timers'[e])
  PROVE  \A e \in Decks : DeckOK(decks'[e], timers'[e])
BY ReportedOK DEF Settled

\* A report of a PLAYING deck puts the role in order.
LEMMA ReportSettles ==
  ASSUME NEW D \in [Decks -> DeckState], NEW d \in Decks, Report(D, d),
         D[d].state = "PLAYING", listening = TRUE
  PROVE  Settled(D)
<1>1. decks' = [D EXCEPT ![d].hasBeenReported = TRUE]
  BY DEF Report
<1>2. /\ decks' \in [Decks -> DeckState]
      /\ \A e \in Decks : decks'[e] = IF e = d THEN [D[e] EXCEPT !.hasBeenReported = TRUE]
                                       ELSE D[e]
  BY <1>1 DEF DeckState
<1>3. decks'[d].state = "PLAYING" /\ decks'[d].hasBeenReported /\ decks'[d].track = D[d].track
  BY <1>2 DEF DeckState
<1>4. nowPlaying' = d /\ switchTimer' = Unset /\ live' = [deck |-> d, track |-> D[d].track]
  BY DEF Report, Emit
<1>5. RoleOK(decks', nowPlaying', live', switchTimer')
  BY <1>3, <1>4, ConstantFacts DEF RoleOK
<1>6. QED
  BY <1>2, <1>5 DEF Settled

\* The conditional report keeps a role that is in order.
LEMMA CheckSettles ==
  ASSUME NEW D \in [Decks -> DeckState], NEW d \in Decks, CheckAndReport(D, d),
         RoleOK(D, nowPlaying, live, switchTimer), listening = TRUE
  PROVE  Settled(D)
<1>1. CASE Reportable(D, d) /\ ~HeldByAnother(D, d)
  BY <1>1, ReportSettles DEF CheckAndReport, Reportable
<1>2. CASE ~(Reportable(D, d) /\ ~HeldByAnother(D, d))
  BY <1>2 DEF CheckAndReport, Settled
<1>3. QED
  BY <1>1, <1>2

\* A scan puts the role in order whatever it was before: it hands it to a PLAYING
\* deck or gives it up, and says so.
LEMMA ScanSettles ==
  ASSUME NEW D \in [Decks -> DeckState], Scan(D), listening = TRUE
  PROVE  Settled(D)
<1>1. ASSUME NEW d \in Candidates(D), Report(D, d)
      PROVE  Settled(D)
  BY <1>1, ReportSettles DEF Candidates, Known, Reportable
<1>2. CASE Candidates(D) = {} /\ decks' = D /\ nowPlaying' = NoDeck
           /\ switchTimer' = Unset /\ Emit(NoLive)
  BY <1>2 DEF Settled, RoleOK, Emit
<1>3. QED
  BY <1>1, <1>2 DEF Scan

\* The role does not depend on what changes in other decks, nor on the fader, the
\* master flag and the clocks of its own.
LEMMA RoleKept ==
  ASSUME NEW D, NEW E, NEW np, NEW lv, NEW st, RoleOK(D, np, lv, st),
         np # NoDeck => /\ E[np].state = D[np].state
                        /\ E[np].hasBeenReported = D[np].hasBeenReported
                        /\ E[np].track = D[np].track
  PROVE  RoleOK(E, np, lv, st)
BY DEF RoleOK

\* A look-up never takes the role away: its holder is PLAYING.
LEMMA LookUpRole ==
  ASSUME NEW D \in [Decks -> DeckState], NEW d \in Decks, NEW o \in GetDeckState(D, d),
         timers \in [Decks -> Timer], RoleOK(D, nowPlaying, live, switchTimer)
  PROVE  /\ o.nowPlaying = nowPlaying
         /\ RoleOK(o.decks, nowPlaying, live, switchTimer)
         /\ nowPlaying # NoDeck => o.decks[nowPlaying] = D[nowPlaying]
<1>1. CASE nowPlaying = NoDeck
  <2>1. o.nowPlaying = NoDeck
    BY <1>1, ConstantFacts DEF GetDeckState, Admit
  <2>2. QED
    BY <1>1, <2>1 DEF RoleOK
<1>2. CASE nowPlaying # NoDeck
  <2>1. nowPlaying \in Decks /\ D[nowPlaying].state = "PLAYING"
    BY <1>2 DEF RoleOK
  <2>2. o.nowPlaying = nowPlaying /\ o.decks[nowPlaying] = D[nowPlaying]
    BY <2>1, LookUp
  <2>3. QED
    BY <2>2, RoleKept
<1>3. QED
  BY <1>1, <1>2

\* Every action computes decks that agree with the timers it leaves, and settles.
LEMMA Closing ==
  ASSUME NEW D, Settled(D), timers' \in [Decks -> Timer],
         \A e \in Decks : DeckOK(D[e], timers'[e]),
         Inv, UNCHANGED <<destroyed, listening>>
  PROVE  Inv'
BY SettledOK DEF Settled, Inv

-------------------------------------------------------------------------------
(* Each action keeps the invariant *)

\* A load or an unload: the new contents do not play, so they wait for nothing.
LEMMA PutTrackKeeps ==
  ASSUME Inv, NEW d \in Decks, NEW contents \in DeckState, NEW ticks, PutTrack(d, contents, ticks),
         ~contents.isPlaying, contents.state \notin {"CUEING", "PLAYING"}
  PROVE  Inv'
<1>1. PICK o \in GetDeckState(decks, d) :
        LET D == [o.decks EXCEPT ![d] = [contents EXCEPT !.faderUp = o.decks[d].faderUp,
                                                         !.isMaster = o.decks[d].isMaster]]
        IN /\ timers' = [o.timers EXCEPT ![d] = NoTimer]
           /\ IF d = nowPlaying
                THEN Scan(D)
                ELSE /\ decks' = D
                     /\ nowPlaying' = o.nowPlaying
                     /\ UNCHANGED <<switchTimer, live>>
           /\ UNCHANGED <<destroyed, listening>>
  BY DEF PutTrack
<1> DEFINE put == [contents EXCEPT !.faderUp = o.decks[d].faderUp, !.isMaster = o.decks[d].isMaster]
           D == [o.decks EXCEPT ![d] = put]
<1>2. /\ o.decks \in [Decks -> DeckState] /\ o.timers \in [Decks -> Timer]
      /\ \A e \in Decks : DeckOK(o.decks[e], o.timers[e])
      /\ o.nowPlaying = nowPlaying /\ RoleOK(o.decks, nowPlaying, live, switchTimer)
  BY LookUp, LookUpOK, LookUpRole DEF Inv
<1>3. put \in DeckState /\ ~put.isPlaying /\ put.state \notin {"CUEING", "PLAYING"}
  BY <1>2 DEF DeckState
<1>4. timers' \in [Decks -> Timer] /\ D \in [Decks -> DeckState]
  BY <1>1, <1>2, <1>3, FreshDecks
<1>5. \A e \in Decks : DeckOK(D[e], timers'[e])
  <2>1. DeckOK(put, NoTimer)
    BY <1>3, FreshDecks DEF DeckOK
  <2>2. QED
    BY <1>1, <1>2, <2>1
<1>6. Settled(D)
  <2>1. CASE d = nowPlaying
    BY <1>1, <1>4, <2>1, ScanSettles DEF Inv
  <2>2. CASE d # nowPlaying
    <3>1. RoleOK(D, nowPlaying, live, switchTimer)
      <4>1. nowPlaying # NoDeck => D[nowPlaying] = o.decks[nowPlaying]
        BY <1>2, <2>2 DEF RoleOK
      <4>2. QED
        BY <1>2, <4>1, RoleKept
    <3>2. QED
      BY <1>1, <1>2, <1>4, <2>2, <3>1 DEF Settled
  <2>3. QED
    BY <2>1, <2>2
<1>7. QED
  BY <1>1, <1>4, <1>5, <1>6, Closing

\* An ignored play event leaves only a look-up behind.
LEMMA PlayStateIgnoredKeeps ==
  ASSUME Inv, NEW d \in Decks, NEW b \in BOOLEAN, PlayStateIgnored(d, b)
  PROVE  Inv'
<1>1. PICK o \in GetDeckState(decks, d) :
        /\ decks' = o.decks /\ timers' = o.timers /\ nowPlaying' = o.nowPlaying
        /\ UNCHANGED <<switchTimer, destroyed, listening, live>>
  BY DEF PlayStateIgnored
<1>2. /\ o.decks \in [Decks -> DeckState] /\ o.timers \in [Decks -> Timer]
      /\ \A e \in Decks : DeckOK(o.decks[e], o.timers[e])
      /\ o.nowPlaying = nowPlaying /\ RoleOK(o.decks, nowPlaying, live, switchTimer)
  BY LookUp, LookUpOK, LookUpRole DEF Inv
<1>3. QED
  BY <1>1, <1>2 DEF Inv

\* A play cues the deck with the time it still lacks, or resumes it.
LEMMA PlayStartKeeps ==
  ASSUME Inv, NEW d \in Decks, PlayStart(d)
  PROVE  Inv'
<1> DEFINE deck == decks[d]
           resumes == deck.state \in {"PLAYING", "ENDED"}
           kept == KeptTime(deck)
           new == [deck EXCEPT !.state = IF resumes THEN "PLAYING" ELSE "CUEING",
                               !.isPlaying = TRUE, !.playAge = 0,
                               !.accum = kept, !.pauseAge = Unset]
           cue == [kind |-> "threshold", left |-> LiveThreshold - kept]
<1>1. deck \in DeckState /\ deck.state \notin {"ABSENT", "EMPTY"} /\ ~deck.isPlaying
  BY DEF PlayStart, Inv
<1>2. kept \in 0..AccumCap
  BY <1>1, ConstantFacts DEF KeptTime, DeckState
<1>3. cue \in Timer
  BY <1>2, ConstantFacts DEF Timer, AccumCap
<1>4. /\ new \in DeckState
      /\ new.state = IF resumes THEN "PLAYING" ELSE "CUEING"
      /\ new.isPlaying /\ new.playAge = 0 /\ new.accum = kept
      /\ new.hasBeenReported = deck.hasBeenReported /\ new.track = deck.track
  <2>1. 0 \in {Unset} \cup 0..AccumCap /\ Unset \in {Unset} \cup 0..PauseCap
    BY ConstantFacts
  <2>2. QED
    BY <1>1, <1>2, <2>1 DEF DeckState, Phases
<1>5. /\ decks' = [decks EXCEPT ![d] = new]
      /\ timers' = IF resumes THEN timers ELSE [timers EXCEPT ![d] = cue]
      /\ nowPlaying' = nowPlaying /\ live' = live
      /\ switchTimer' = IF d = nowPlaying THEN Unset ELSE switchTimer
      /\ UNCHANGED <<destroyed, listening>>
  BY DEF PlayStart, StartTimer, Inv
<1>6. decks' \in [Decks -> DeckState] /\ timers' \in [Decks -> Timer]
  BY <1>3, <1>4, <1>5 DEF Inv
<1>7. DeckOK(new, timers'[d])
  <2>1. CASE resumes
    BY <1>4, <1>6, <2>1 DEF DeckOK, Unset
  <2>2. CASE ~resumes
    <3>1. timers'[d] = cue
      BY <1>5, <2>2 DEF Inv
    <3>2. cue.left + new.accum + new.playAge = LiveThreshold
      BY <1>2, <1>4, ConstantFacts
    <3>3. QED
      BY <1>3, <1>4, <2>2, <3>1, <3>2 DEF DeckOK, Unset
  <2>3. QED
    BY <2>1, <2>2
<1>8. \A e \in Decks : DeckOK(decks'[e], timers'[e])
  BY <1>5, <1>7 DEF Inv
<1>9. RoleOK(decks', nowPlaying', live', switchTimer')
  <2>1. RoleOK(decks, nowPlaying, live, switchTimer) /\ RoleOK(decks, nowPlaying, live, Unset)
    BY DEF Inv, RoleOK
  <2>2. nowPlaying # NoDeck => /\ decks'[nowPlaying].state = decks[nowPlaying].state
                               /\ decks'[nowPlaying].hasBeenReported = decks[nowPlaying].hasBeenReported
                               /\ decks'[nowPlaying].track = decks[nowPlaying].track
    BY <1>4, <1>5, <2>1 DEF RoleOK, Inv
  <2>3. RoleOK(decks', nowPlaying, live, switchTimer) /\ RoleOK(decks', nowPlaying, live, Unset)
    BY <2>1, <2>2, RoleKept
  <2>4. QED
    BY <1>5, <2>3
<1>10. QED
  BY <1>5, <1>6, <1>8, <1>9 DEF Inv

\* A stop sends a cued deck back and gives a PLAYING one its grace period; the
\* now-playing deck starts the switch timer as well.
LEMMA PlayStopKeeps ==
  ASSUME Inv, NEW d \in Decks, PlayStop(d)
  PROVE  Inv'
<1> DEFINE deck == decks[d]
           pauses == deck.state = "PLAYING"
           sum == AtMost(AccumCap, deck.accum + deck.playAge)
           new == [deck EXCEPT !.state = IF pauses THEN "PLAYING" ELSE "LOADED",
                               !.isPlaying = FALSE, !.playAge = Unset,
                               !.accum = sum, !.pauseAge = 0]
           grace == [kind |-> "grace", left |-> PauseGrace]
<1>1. deck \in DeckState /\ deck.isPlaying /\ deck.playAge # Unset
  BY DEF PlayStop, Inv, DeckOK
<1>2. sum \in 0..AccumCap
  <2>1. deck.accum \in 0..AccumCap /\ deck.playAge \in 0..AccumCap
    BY <1>1 DEF DeckState
  <2>2. QED
    BY <2>1, ConstantFacts DEF AtMost
<1>3. /\ new \in DeckState
      /\ new.state = IF pauses THEN "PLAYING" ELSE "LOADED"
      /\ ~new.isPlaying /\ new.pauseAge = 0
      /\ new.hasBeenReported = deck.hasBeenReported /\ new.track = deck.track
  <2>1. Unset \in {Unset} \cup 0..AccumCap /\ 0 \in {Unset} \cup 0..PauseCap
    BY ConstantFacts
  <2>2. QED
    BY <1>1, <1>2, <2>1 DEF DeckState, Phases
<1>4. /\ decks' = [decks EXCEPT ![d] = new]
      /\ timers' = [timers EXCEPT ![d] = IF pauses THEN grace ELSE NoTimer]
      /\ nowPlaying' = nowPlaying /\ live' = live
      /\ switchTimer' = IF pauses /\ d = nowPlaying THEN NowPlayingPause ELSE switchTimer
      /\ UNCHANGED <<destroyed, listening>>
  BY DEF PlayStop, StartTimer, Inv
<1>5. grace \in Timer /\ NoTimer \in Timer
  BY ConstantFacts, FreshDecks DEF Timer
<1>6. decks' \in [Decks -> DeckState] /\ timers' \in [Decks -> Timer]
  BY <1>3, <1>4, <1>5 DEF Inv
<1>7. DeckOK(new, timers'[d])
  <2>1. CASE pauses
    <3>1. timers'[d] = grace
      BY <1>4, <2>1 DEF Inv
    <3>2. grace.left + new.pauseAge = PauseGrace
      BY <1>3, ConstantFacts
    <3>3. QED
      BY <1>3, <1>5, <2>1, <3>1, <3>2 DEF DeckOK, Unset
  <2>2. CASE ~pauses
    BY <1>3, <1>6, <2>2 DEF DeckOK
  <2>3. QED
    BY <2>1, <2>2
<1>8. \A e \in Decks : DeckOK(decks'[e], timers'[e])
  BY <1>4, <1>7 DEF Inv
<1>9. RoleOK(decks', nowPlaying', live', switchTimer')
  <2>1. RoleOK(decks, nowPlaying, live, switchTimer')
    BY <1>4, ConstantFacts DEF Inv, RoleOK
  <2>2. nowPlaying # NoDeck => /\ decks'[nowPlaying].state = decks[nowPlaying].state
                               /\ decks'[nowPlaying].hasBeenReported = decks[nowPlaying].hasBeenReported
                               /\ decks'[nowPlaying].track = decks[nowPlaying].track
    BY <1>3, <1>4, <2>1 DEF RoleOK, Inv
  <2>3. QED
    BY <1>4, <2>1, <2>2, RoleKept
<1>10. QED
  BY <1>4, <1>6, <1>8, <1>9 DEF Inv

\* The fader: raised, it may report the deck; dropped, it may start the switch timer.
LEMMA UpdateFaderLevelKeeps ==
  ASSUME Inv, NEW d \in Decks, NEW up \in BOOLEAN, UpdateFaderLevel(d, up)
  PROVE  Inv'
<1>1. PICK o \in GetDeckState(decks, d) :
        LET D == [o.decks EXCEPT ![d].faderUp = up]
            wasLow == ~o.decks[d].faderUp
        IN /\ timers' = o.timers
           /\ IF wasLow /\ up /\ D[d].state = "PLAYING"
                THEN CheckAndReport(D, d)
                ELSE /\ decks' = D
                     /\ nowPlaying' = o.nowPlaying
                     /\ switchTimer' = IF d = nowPlaying /\ ~up /\ ~wasLow /\ ~destroyed
                                         THEN NowPlayingPause ELSE switchTimer
                     /\ UNCHANGED live
           /\ UNCHANGED <<destroyed, listening>>
  BY DEF UpdateFaderLevel
<1> DEFINE new == [o.decks[d] EXCEPT !.faderUp = up]
           D == [o.decks EXCEPT ![d].faderUp = up]
<1>2. /\ o.decks \in [Decks -> DeckState] /\ o.timers \in [Decks -> Timer]
      /\ \A e \in Decks : DeckOK(o.decks[e], o.timers[e])
      /\ o.nowPlaying = nowPlaying /\ RoleOK(o.decks, nowPlaying, live, switchTimer)
  BY LookUp, LookUpOK, LookUpRole DEF Inv
<1>3. /\ D = [o.decks EXCEPT ![d] = new]
      /\ DeckOK(new, o.timers[d])
      /\ new.state = o.decks[d].state /\ new.track = o.decks[d].track
      /\ new.hasBeenReported = o.decks[d].hasBeenReported
  BY <1>2 DEF DeckOK, DeckState
<1>4. D \in [Decks -> DeckState] /\ \A e \in Decks : DeckOK(D[e], timers'[e])
  BY <1>1, <1>2, <1>3 DEF DeckOK
<1>5. RoleOK(D, nowPlaying, live, switchTimer)
  <2>1. nowPlaying # NoDeck => /\ D[nowPlaying].state = o.decks[nowPlaying].state
                               /\ D[nowPlaying].hasBeenReported = o.decks[nowPlaying].hasBeenReported
                               /\ D[nowPlaying].track = o.decks[nowPlaying].track
    BY <1>2, <1>3 DEF RoleOK
  <2>2. QED
    BY <1>2, <2>1, RoleKept
<1>6. Settled(D)
  <2>1. CASE ~o.decks[d].faderUp /\ up /\ D[d].state = "PLAYING"
    BY <1>1, <1>4, <1>5, <2>1, CheckSettles DEF Inv
  <2>2. CASE ~(~o.decks[d].faderUp /\ up /\ D[d].state = "PLAYING")
    <3>1. /\ decks' = D /\ nowPlaying' = nowPlaying /\ live' = live
          /\ \/ switchTimer' = switchTimer
             \/ switchTimer' = NowPlayingPause /\ d = nowPlaying
      BY <1>1, <1>2, <2>2
    <3>2. RoleOK(D, nowPlaying, live, switchTimer')
      BY <1>5, <3>1, ConstantFacts DEF RoleOK
    <3>3. QED
      BY <1>4, <3>1, <3>2 DEF Settled
  <2>3. QED
    BY <2>1, <2>2
<1>7. QED
  BY <1>1, <1>2, <1>4, <1>6, Closing

\* A new master: every other deck loses the flag, found or not.
LEMMA SetMasterDeckKeeps ==
  ASSUME Inv, NEW d \in Decks, SetMasterDeck(d)
  PROVE  Inv'
<1> DEFINE unmastered == [e \in Decks |-> [decks[e] EXCEPT !.isMaster = FALSE]]
<1>1. /\ unmastered \in [Decks -> DeckState]
      /\ \A e \in Decks : DeckOK(unmastered[e], timers[e])
      /\ \A e \in Decks : /\ unmastered[e].state = decks[e].state
                          /\ unmastered[e].track = decks[e].track
                          /\ unmastered[e].hasBeenReported = decks[e].hasBeenReported
  BY DEF Inv, DeckOK, DeckState
<1>2. RoleOK(unmastered, nowPlaying, live, switchTimer)
  <2>1. RoleOK(decks, nowPlaying, live, switchTimer)
    BY DEF Inv
  <2>2. QED
    BY <1>1, <2>1, RoleKept DEF RoleOK
<1>3. ASSUME NEW o \in GetDeckState(unmastered, d),
             LET D == [o.decks EXCEPT ![d].isMaster = TRUE]
             IN /\ timers' = o.timers
                /\ IF D[d].state = "PLAYING" /\ ~decks[d].isMaster
                     THEN CheckAndReport(D, d)
                     ELSE /\ decks' = D
                          /\ nowPlaying' = o.nowPlaying
                          /\ UNCHANGED <<switchTimer, live>>,
             UNCHANGED <<destroyed, listening>>
      PROVE  Inv'
  <2> DEFINE new == [o.decks[d] EXCEPT !.isMaster = TRUE]
             D == [o.decks EXCEPT ![d].isMaster = TRUE]
  <2>1. /\ o.decks \in [Decks -> DeckState] /\ o.timers \in [Decks -> Timer]
        /\ \A e \in Decks : DeckOK(o.decks[e], o.timers[e])
        /\ o.nowPlaying = nowPlaying /\ RoleOK(o.decks, nowPlaying, live, switchTimer)
    <3> HIDE DEF unmastered
    <3> QED
      BY <1>1, <1>2, LookUp, LookUpOK, LookUpRole DEF Inv
  <2>2. /\ D = [o.decks EXCEPT ![d] = new]
        /\ DeckOK(new, o.timers[d])
        /\ new.state = o.decks[d].state /\ new.track = o.decks[d].track
        /\ new.hasBeenReported = o.decks[d].hasBeenReported
    BY <2>1 DEF DeckOK, DeckState
  <2>3. D \in [Decks -> DeckState] /\ \A e \in Decks : DeckOK(D[e], timers'[e])
    BY <1>3, <2>1, <2>2 DEF DeckOK
  <2>4. RoleOK(D, nowPlaying, live, switchTimer)
    <3>1. nowPlaying # NoDeck => /\ D[nowPlaying].state = o.decks[nowPlaying].state
                                 /\ D[nowPlaying].hasBeenReported = o.decks[nowPlaying].hasBeenReported
                                 /\ D[nowPlaying].track = o.decks[nowPlaying].track
      BY <2>1, <2>2 DEF RoleOK
    <3>2. QED
      BY <2>1, <3>1, RoleKept
  <2>5. Settled(D)
    <3>1. CASE D[d].state = "PLAYING" /\ ~decks[d].isMaster
      BY <1>3, <2>3, <2>4, <3>1, CheckSettles DEF Inv
    <3>2. CASE ~(D[d].state = "PLAYING" /\ ~decks[d].isMaster)
      BY <1>3, <2>1, <2>3, <2>4, <3>2 DEF Settled
    <3>3. QED
      BY <3>1, <3>2
  <2>6. QED
    BY <1>3, <2>1, <2>3, <2>5, Closing
<1>4. ASSUME decks' = unmastered,
             UNCHANGED <<timers, nowPlaying, switchTimer, live, destroyed, listening>>
      PROVE  Inv'
  <2> HIDE DEF unmastered
  <2> QED
    BY <1>1, <1>2, <1>4 DEF Inv
<1>5. QED
  BY <1>3, <1>4 DEF SetMasterDeck

\* A threshold timer that is due takes its deck to PLAYING and may report it.
LEMMA ThresholdReachedKeeps ==
  ASSUME Inv, NEW d \in Decks, ThresholdReached(d)
  PROVE  Inv'
<1> DEFINE new == [decks[d] EXCEPT !.state = "PLAYING"]
           D == [decks EXCEPT ![d].state = "PLAYING"]
<1>1. /\ timers[d] = [kind |-> "threshold", left |-> 0]
      /\ timers' = [timers EXCEPT ![d] = NoTimer]
      /\ UNCHANGED <<destroyed, listening>>
  BY DEF ThresholdReached
<1>2. timers' \in [Decks -> Timer]
  BY <1>1, FreshDecks DEF Inv
<1>3. CASE decks[d].state = "CUEING" /\ decks[d].isPlaying
  <2>1. /\ D = [decks EXCEPT ![d] = new]
        /\ DeckOK(new, NoTimer) /\ new \in DeckState
    BY <1>3, FreshDecks DEF Inv, DeckOK, DeckState, Phases
  <2>2. D \in [Decks -> DeckState] /\ \A e \in Decks : DeckOK(D[e], timers'[e])
    BY <1>1, <2>1 DEF Inv
  <2>3. RoleOK(D, nowPlaying, live, switchTimer)
    <3>1. RoleOK(decks, nowPlaying, live, switchTimer) /\ nowPlaying # d
      BY <1>3, ConstantFacts DEF Inv, RoleOK
    <3>2. nowPlaying # NoDeck => D[nowPlaying] = decks[nowPlaying]
      BY <3>1 DEF Inv, RoleOK
    <3>3. QED
      BY <3>1, <3>2, RoleKept
  <2>4. Settled(D)
    BY <1>3, <2>2, <2>3, CheckSettles DEF ThresholdReached, Inv
  <2>5. QED
    BY <1>1, <1>2, <2>2, <2>4, Closing
<1>4. CASE ~(decks[d].state = "CUEING" /\ decks[d].isPlaying)
  <2>1. UNCHANGED <<decks, nowPlaying, switchTimer, live>>
    BY <1>4 DEF ThresholdReached
  <2>2. DeckOK(decks[d], NoTimer)
    BY <1>1, <1>4, FreshDecks DEF Inv, DeckOK
  <2>3. \A e \in Decks : DeckOK(decks[e], timers'[e])
    BY <1>1, <2>2 DEF Inv
  <2>4. QED
    BY <1>1, <1>2, <2>1, <2>3 DEF Inv
<1>5. QED
  BY <1>3, <1>4

\* A grace timer that is due ends a deck that is still paused.
LEMMA GracePeriodExpiredKeeps ==
  ASSUME Inv, NEW d \in Decks, GracePeriodExpired(d)
  PROVE  Inv'
<1> DEFINE new == [decks[d] EXCEPT !.state = "ENDED"]
           D == [decks EXCEPT ![d].state = "ENDED"]
<1>1. /\ timers[d] = [kind |-> "grace", left |-> 0]
      /\ timers' = [timers EXCEPT ![d] = NoTimer]
      /\ UNCHANGED <<destroyed, listening>>
  BY DEF GracePeriodExpired
<1>2. timers' \in [Decks -> Timer]
  BY <1>1, FreshDecks DEF Inv
<1>3. CASE decks[d].state = "PLAYING" /\ ~decks[d].isPlaying
  <2>1. /\ D = [decks EXCEPT ![d] = new]
        /\ DeckOK(new, NoTimer) /\ new \in DeckState
    BY <1>3, FreshDecks DEF Inv, DeckOK, DeckState, Phases
  <2>2. D \in [Decks -> DeckState] /\ \A e \in Decks : DeckOK(D[e], timers'[e])
    BY <1>1, <2>1 DEF Inv
  <2>3. Settled(D)
    <3>1. CASE d = nowPlaying
      BY <1>3, <2>2, <3>1, ScanSettles DEF GracePeriodExpired, Inv
    <3>2. CASE d # nowPlaying
      <4>1. nowPlaying # NoDeck => D[nowPlaying] = decks[nowPlaying]
        BY <3>2 DEF Inv, RoleOK
      <4>2. RoleOK(D, nowPlaying, live, switchTimer)
        BY <4>1, RoleKept DEF Inv
      <4>3. QED
        BY <1>3, <2>2, <3>2, <4>2 DEF GracePeriodExpired, Settled
    <3>3. QED
      BY <3>1, <3>2
  <2>4. QED
    BY <1>1, <1>2, <2>2, <2>3, Closing
<1>4. CASE ~(decks[d].state = "PLAYING" /\ ~decks[d].isPlaying)
  <2>1. UNCHANGED <<decks, nowPlaying, switchTimer, live>>
    BY <1>4 DEF GracePeriodExpired
  <2>2. DeckOK(decks[d], NoTimer)
    BY <1>1, <1>4, FreshDecks DEF Inv, DeckOK
  <2>3. \A e \in Decks : DeckOK(decks[e], timers'[e])
    BY <1>1, <2>2 DEF Inv
  <2>4. QED
    BY <1>1, <1>2, <2>1, <2>3 DEF Inv
<1>5. QED
  BY <1>3, <1>4

\* The switch timer's expiry is a scan with the timer gone.
LEMMA SwitchTimerExpiredKeeps ==
  ASSUME Inv, NowPlayingSwitchTimerExpired
  PROVE  Inv'
<1>1. Settled(decks)
  BY ScanSettles DEF NowPlayingSwitchTimerExpired, Inv
<1>2. QED
  BY <1>1, Closing DEF NowPlayingSwitchTimerExpired, Inv

\* A tick moves what is left of a wait to what has been waited.
LEMMA TickKeeps ==
  ASSUME Inv, Tick
  PROVE  Inv'
<1>1. ASSUME NEW d \in Decks
      PROVE  /\ decks'[d] = Aged(decks[d])
             /\ DeckOK(decks'[d], timers'[d])
             /\ decks'[d].state = decks[d].state /\ decks'[d].track = decks[d].track
             /\ decks'[d].hasBeenReported = decks[d].hasBeenReported
  <2> DEFINE deck == decks[d]
             timer == timers[d]
             play == Older(AccumCap, deck.playAge)
             pause == Older(PauseCap, deck.pauseAge)
             new == [deck EXCEPT !.playAge = play, !.pauseAge = pause]
  <2>1. DeckOK(deck, timer) /\ deck \in DeckState /\ timer \in Timer
    BY DEF Inv, DeckOK
  <2>2. decks'[d] = new
    BY DEF Tick, Aged
  <2>3. /\ deck.playAge \in {Unset} \cup 0..AccumCap
        /\ deck.pauseAge \in {Unset} \cup 0..PauseCap
        /\ deck.accum \in 0..AccumCap
    BY <2>1 DEF DeckState
  <2>4. /\ play \in {Unset} \cup 0..AccumCap
        /\ pause \in {Unset} \cup 0..PauseCap
        /\ deck.playAge # Unset => play # Unset
        /\ deck.pauseAge # Unset => pause # Unset
    BY <2>3, ConstantFacts DEF Older, AtMost, Unset
  <2>5. /\ new \in DeckState /\ new.playAge = play /\ new.pauseAge = pause
        /\ new.accum = deck.accum /\ new.state = deck.state /\ new.track = deck.track
        /\ new.isPlaying = deck.isPlaying /\ new.hasBeenReported = deck.hasBeenReported
    BY <2>1, <2>4 DEF DeckState
  <2>6. timer.kind # "none" => /\ timer.left \in Nat \ {0}
                               /\ timers'[d] = [timer EXCEPT !.left = timer.left - 1]
    <3>1. timer.kind # "none" => timer.left # 0
      BY DEF Tick, Due
    <3>2. timer.kind # "none" => timer.left \in Nat
      BY <2>1 DEF Timer
    <3>3. QED
      BY <3>1, <3>2 DEF Tick
  <2>7. timer.kind = "none" => timers'[d] = NoTimer
    BY DEF Tick
  <2>8. timer.kind # "none" => /\ timers'[d] \in Timer
                               /\ timers'[d].kind = timer.kind
                               /\ timers'[d].left = timer.left - 1
    BY <2>1, <2>6 DEF Timer
  <2>9. timers'[d] \in Timer
    BY <2>7, <2>8, FreshDecks
  <2>10. ASSUME deck.state = "CUEING"
         PROVE  /\ timers'[d].kind = "threshold"
                /\ timers'[d].left + new.accum + new.playAge = LiveThreshold
    <3>1. /\ deck.playAge # Unset /\ timer.kind = "threshold"
          /\ timer.left + deck.accum + deck.playAge = LiveThreshold
      BY <2>1, <2>10 DEF DeckOK
    <3>2. play = deck.playAge + 1
      BY <2>3, <2>6, <3>1, ConstantFacts DEF Older, AtMost, AccumCap
    <3>3. QED
      BY <2>3, <2>5, <2>6, <2>8, <3>1, <3>2, ConstantFacts
  <2>11. ASSUME deck.state = "PLAYING", ~deck.isPlaying
         PROVE  /\ timers'[d].kind = "grace"
                /\ timers'[d].left + new.pauseAge = PauseGrace
    <3>1. /\ deck.pauseAge # Unset /\ timer.kind = "grace"
          /\ timer.left + deck.pauseAge = PauseGrace
      BY <2>1, <2>11 DEF DeckOK
    <3>2. pause = deck.pauseAge + 1
      BY <2>3, <2>6, <3>1, ConstantFacts DEF Older, AtMost, PauseCap
    <3>3. QED
      BY <2>3, <2>5, <2>6, <2>8, <3>1, <3>2, ConstantFacts
  <2>12. DeckOK(new, timers'[d])
    BY <2>1, <2>4, <2>5, <2>9, <2>10, <2>11 DEF DeckOK
  <2>13. QED
    BY <2>2, <2>5, <2>12 DEF Aged
<1>2. decks' \in [Decks -> DeckState] /\ timers' \in [Decks -> Timer]
  <2>1. \A d \in Decks : decks'[d] \in DeckState /\ timers'[d] \in Timer
    BY <1>1 DEF DeckOK
  <2>2. QED
    BY <2>1 DEF Tick
<1>3. RoleOK(decks', nowPlaying', live', switchTimer')
  <2>1. RoleOK(decks, nowPlaying, live, switchTimer)
    BY DEF Inv
  <2>2. switchTimer' \in {Unset} \cup Nat /\ (switchTimer' # Unset => switchTimer # Unset)
    <3>1. switchTimer \in {Unset} \cup Nat
      BY <2>1 DEF RoleOK
    <3>2. switchTimer # 0
      BY DEF Tick, Due
    <3>3. switchTimer' = IF switchTimer = Unset THEN Unset ELSE switchTimer - 1
      BY DEF Tick
    <3>4. QED
      BY <3>1, <3>2, <3>3 DEF Unset
  <2>3. RoleOK(decks, nowPlaying, live, switchTimer')
    BY <2>1, <2>2 DEF RoleOK
  <2>4. RoleOK(decks', nowPlaying, live, switchTimer')
    BY <1>1, <2>3, RoleKept DEF RoleOK
  <2>5. QED
    BY <2>4 DEF Tick
<1>4. QED
  BY <1>1, <1>2, <1>3 DEF Inv, Tick

-------------------------------------------------------------------------------
(* The theorems *)

\* An empty map satisfies the invariant.
LEMMA InitInv == Init => Inv
<1> SUFFICES ASSUME Init PROVE Inv
  OBVIOUS
<1>1. decks \in [Decks -> DeckState] /\ timers \in [Decks -> Timer]
  BY FreshDecks DEF Init
<1>2. \A d \in Decks : DeckOK(decks[d], timers[d])
  BY FreshDecks DEF Init
<1>3. QED
  BY <1>1, <1>2 DEF Init, Inv, RoleOK

\* Every call and every timer keeps the invariant.
LEMMA NextInv == Inv /\ [Next]_vars => Inv'
<1> SUFFICES ASSUME Inv, [Next]_vars PROVE Inv'
  OBVIOUS
<1>1. ASSUME NEW d \in Decks, UnloadTrack(d) PROVE Inv'
  <2>1. EmptyDeck \in DeckState /\ ~EmptyDeck.isPlaying /\ EmptyDeck.state = "EMPTY"
    BY FreshDecks DEF EmptyDeck
  <2>2. QED
    BY <1>1, <2>1, PutTrackKeeps DEF UnloadTrack
<1>2. ASSUME NEW d \in Decks, NEW t \in Tracks, LoadTrack(d, t) PROVE Inv'
  <2>1. EmptyDeck \in DeckState /\ ~EmptyDeck.isPlaying
    BY FreshDecks DEF EmptyDeck
  <2>2. /\ LoadedDeck(t) \in DeckState /\ ~LoadedDeck(t).isPlaying
        /\ LoadedDeck(t).state = "LOADED"
    BY <2>1 DEF LoadedDeck, DeckState, Phases
  <2>3. QED
    BY <1>2, <2>2, PutTrackKeeps DEF LoadTrack
<1>3. ASSUME NEW d \in Decks, DeckEvent(d) PROVE Inv'
  BY <1>1, <1>2, <1>3, PlayStateIgnoredKeeps, PlayStartKeeps, PlayStopKeeps,
     UpdateFaderLevelKeeps, SetMasterDeckKeeps DEF DeckEvent
<1>4. ASSUME NEW d \in Decks, Fire(d) PROVE Inv'
  BY <1>4, ThresholdReachedKeeps, GracePeriodExpiredKeeps DEF Fire
<1>5. CASE UNCHANGED vars
  BY <1>5 DEF vars, Inv
<1>6. QED
  BY <1>3, <1>4, <1>5, SwitchTimerExpiredKeeps, TickKeeps DEF Next

\* The inductive invariant holds in every reachable state.
THEOREM Invariance == Spec => []Inv
BY InitInv, NextInv, PTL DEF Spec

\* Every variable of the deck state machine keeps its type, and a deck that plays
\* knows since when (deck-state.ts, deck-state-manager.ts).
THEOREM TypeCorrect == Spec => []TypeOK
<1>1. Inv => TypeOK
  <2> SUFFICES ASSUME Inv PROVE TypeOK
    OBVIOUS
  <2>1. live \in [deck : Decks \cup {NoDeck}, track : Tracks \cup {NoTrack}]
    <3>1. CASE nowPlaying = NoDeck
      BY <3>1 DEF Inv, RoleOK, NoLive
    <3>2. CASE nowPlaying # NoDeck
      BY <3>2 DEF Inv, RoleOK, DeckState
    <3>3. QED
      BY <3>1, <3>2
  <2>2. QED
    BY <2>1 DEF TypeOK, Inv, RoleOK, DeckOK
<1>2. QED
  BY <1>1, Invariance, PTL

\* The now-playing deck is in PLAYING and has been reported, in any configuration.
THEOREM NowPlayingReported == Spec => []NowPlayingIsReported
<1>1. Inv => NowPlayingIsReported
  BY DEF Inv, RoleOK, NowPlayingIsReported
<1>2. QED
  BY <1>1, Invariance, PTL

\* What the listeners were last told is what the manager believes.
THEOREM LiveIsCurrent == Spec => []LiveIsNowPlaying
<1>1. Inv => LiveIsNowPlaying
  BY DEF Inv, RoleOK, LiveIsNowPlaying
<1>2. QED
  BY <1>1, Invariance, PTL

\* A deck that is cued, or paused within its grace period, has a timer with exactly
\* the missing time left: no sequence of plays, pauses and loads strands it.
THEOREM WaitsAreTimed == Spec => []WaitingDeckHasTimer
<1>1. Inv => WaitingDeckHasTimer
  BY DEF Inv, DeckOK, WaitingDeckHasTimer
<1>2. QED
  BY <1>1, Invariance, PTL

\* The switch timer runs only on behalf of a now-playing deck.
THEOREM SwitchTimerOwned == Spec => []SwitchTimerHasOwner
<1>1. Inv => SwitchTimerHasOwner
  BY DEF Inv, RoleOK, SwitchTimerHasOwner
<1>2. QED
  BY <1>1, Invariance, PTL

-------------------------------------------------------------------------------
(* The deck map, and what a step does to the decks in it *)

\* A map within its capacity, with one master at most.
MapOK(D) ==
  /\ \A d, e \in Decks : D[d].isMaster /\ D[e].isMaster => d = e
  /\ Cardinality(Known(D)) <= MaxDecks

\* E is D but for things that make no deck eligible, except one that resumes:
\* no PLAYING deck goes, none but an ENDED one becomes PLAYING, none becomes master.
Quiet(D, E) ==
  \A e \in Decks :
    /\ D[e].state = "PLAYING" => E[e].state # "ABSENT"
    /\ E[e].state = "PLAYING" =>
         \/ D[e].state = "ENDED"
         \/ /\ D[e].state = "PLAYING" /\ (E[e].hasBeenReported <=> D[e].hasBeenReported)
            /\ UseFaderDetection /\ E[e].faderUp => D[e].faderUp
    /\ E[e].isMaster => D[e].isMaster
    /\ E[e].isMaster /\ E[e].state # "ABSENT" => D[e].state # "ABSENT"

\* E has the decks of D, in the same states and with the same master.
SameMap(D, E) ==
  \A e \in Decks : E[e].state = D[e].state /\ (E[e].isMaster <=> D[e].isMaster)

\* The action properties, as relations between a state and the next.
StateStep ==
  \A d \in Decks :
    /\ decks[d].state = "PLAYING" => decks'[d].state # "ABSENT"
    /\ decks[d].state = "CUEING" /\ decks'[d].state = "PLAYING" =>
         decks[d].accum + decks[d].playAge >= LiveThreshold
RoleStep ==
  nowPlaying # NoDeck /\ nowPlaying' # nowPlaying =>
    \/ decks'[nowPlaying].state \in {"EMPTY", "LOADED", "CUEING"}
    \/ timers[nowPlaying] = [kind |-> "grace", left |-> 0]
    \/ switchTimer = 0
EligibleStep ==
  nowPlaying' = NoDeck =>
    \A d \in Decks : Reportable(decks', d) =>
      \/ Reportable(decks, d) /\ nowPlaying = NoDeck
      \/ decks[d].state = "ENDED"
      \/ HasMaster(decks) /\ ~HasMaster(decks')

StepOK == MapOK(decks)' /\ StateStep /\ RoleStep /\ EligibleStep

\* A deck that is created, and one that is evicted, are no master and not PLAYING.
LEMMA FreshFlags ==
  /\ EmptyDeck.state = "EMPTY" /\ ~EmptyDeck.isMaster
  /\ AbsentDeck.state = "ABSENT" /\ ~AbsentDeck.isMaster
BY DEF EmptyDeck, AbsentDeck

\* The decks in a map are finitely many.
LEMMA KnownFinite ==
  ASSUME NEW D PROVE IsFiniteSet(Known(D)) /\ Cardinality(Known(D)) \in Nat
<1>1. IsFiniteSet(Known(D))
  BY DecksAssumption, FS_Subset DEF Known
<1>2. QED
  BY <1>1, FS_CardinalityType

\* A map with the same decks in the same states is as full.
LEMMA SameMapOK ==
  ASSUME NEW D, NEW E, SameMap(D, E), MapOK(D)
  PROVE  Known(E) = Known(D) /\ MapOK(E)
<1>1. Known(E) = Known(D)
  BY DEF SameMap, Known
<1>2. QED
  BY <1>1 DEF SameMap, MapOK

\* A look-up lets one deck in only where there is room, or when another has gone.
LEMMA LookUpMap ==
  ASSUME NEW D \in [Decks -> DeckState], NEW d \in Decks, NEW o \in GetDeckState(D, d),
         timers \in [Decks -> Timer], MapOK(D)
  PROVE  MapOK(o.decks) /\ o.decks[d].state # "ABSENT" /\ Quiet(D, o.decks)
<1>1. /\ o.decks \in [Decks -> DeckState]
      /\ \A e \in Decks :
           \/ o.decks[e] = D[e]
           \/ o.decks[e] = EmptyDeck /\ D[e].state = "ABSENT"
           \/ o.decks[e] = AbsentDeck /\ D[e].state # "PLAYING"
  BY LookUp
<1>2. \A e, f \in Decks : o.decks[e].isMaster /\ o.decks[f].isMaster => e = f
  BY <1>1, FreshFlags DEF MapOK
<1>3. o.decks[d].state # "ABSENT" /\ Cardinality(Known(o.decks)) <= MaxDecks
  <2>1. CASE d \in Known(D)
    <3>1. o.decks = D
      BY <2>1 DEF GetDeckState
    <3>2. D[d].state # "ABSENT" /\ Cardinality(Known(D)) <= MaxDecks
      BY <2>1 DEF Known, MapOK
    <3>3. QED
      BY <3>1, <3>2
  <2>2. CASE d \notin Known(D) /\ Cardinality(Known(D)) < MaxDecks
    <3>1. o.decks = [D EXCEPT ![d] = EmptyDeck]
      BY <2>2 DEF GetDeckState
    <3>2. Known(o.decks) = Known(D) \cup {d}
      BY <3>1, FreshFlags DEF Known
    <3>3. Cardinality(Known(D) \cup {d}) = Cardinality(Known(D)) + 1
      BY <2>2, KnownFinite, FS_AddElement
    <3>4. Cardinality(Known(o.decks)) <= MaxDecks
      <4>1. Cardinality(Known(D)) \in Nat /\ MaxDecks \in Nat
        BY KnownFinite, ConfigAssumption
      <4>2. QED
        BY <2>2, <3>2, <3>3, <4>1
    <3>5. o.decks[d] = EmptyDeck
      BY <3>1
    <3>6. QED
      BY <3>4, <3>5, FreshFlags
  <2>3. CASE d \notin Known(D) /\ ~(Cardinality(Known(D)) < MaxDecks)
    <3>1. PICK v \in Victims(D) : o = Admit(D, d, v)
      BY <2>3 DEF GetDeckState
    <3>2. v \in Known(D) /\ v # d
      BY <2>3 DEF Victims
    <3>3. o.decks = [e \in Decks |-> IF e = d THEN EmptyDeck ELSE IF e = v THEN AbsentDeck ELSE D[e]]
      BY <3>1, <3>2 DEF Admit
    <3>4. Known(o.decks) = (Known(D) \ {v}) \cup {d}
      BY <3>2, <3>3, FreshFlags DEF Known
    <3>5. /\ IsFiniteSet(Known(D) \ {v})
          /\ Cardinality(Known(D) \ {v}) = Cardinality(Known(D)) - 1
      BY <3>2, KnownFinite, FS_RemoveElement
    <3>6. d \notin Known(D) \ {v}
      BY <2>3
    <3>7. Cardinality((Known(D) \ {v}) \cup {d}) = Cardinality(Known(D) \ {v}) + 1
      BY <3>5, <3>6, FS_AddElement
    <3>8. Cardinality(Known(o.decks)) = Cardinality(Known(D))
      BY <3>4, <3>5, <3>7, KnownFinite
    <3>9. QED
      BY <3>3, <3>8, FreshFlags DEF MapOK
  <2>4. QED
    BY <2>1, <2>2, <2>3
<1>4. Quiet(D, o.decks)
  BY <1>1, FreshFlags DEF Quiet
<1>5. QED
  BY <1>2, <1>3, <1>4 DEF MapOK

\* A quiet step that leaves the role alone makes no deck eligible.
LEMMA QuietStep ==
  ASSUME Quiet(decks, decks'), nowPlaying' = nowPlaying
  PROVE  StateStep /\ RoleStep /\ EligibleStep
<1>1. StateStep
  BY DEF Quiet, StateStep
<1>2. ASSUME NEW d \in Decks, nowPlaying' = NoDeck, Reportable(decks', d),
             decks[d].state # "ENDED", ~(HasMaster(decks) /\ ~HasMaster(decks'))
      PROVE  Reportable(decks, d) /\ nowPlaying = NoDeck
  <2>1. decks'[d].state = "PLAYING" /\ ~decks'[d].hasBeenReported
        /\ (UseFaderDetection => decks'[d].faderUp)
        /\ (MasterDeckPriority /\ HasMaster(decks') => decks'[d].isMaster)
    BY <1>2 DEF Reportable
  <2>2. decks[d].state = "PLAYING" /\ ~decks[d].hasBeenReported /\ (UseFaderDetection => decks[d].faderUp)
    BY <1>2, <2>1 DEF Quiet
  <2>3. MasterDeckPriority /\ HasMaster(decks) => decks[d].isMaster
    BY <1>2, <2>1 DEF Quiet
  <2>4. QED
    BY <1>2, <2>2, <2>3 DEF Reportable
<1>3. EligibleStep
  BY <1>2 DEF EligibleStep
<1>4. QED
  BY <1>1, <1>3 DEF RoleStep

\* What a report leaves behind: the same decks, and a deck that is now playing.
LEMMA ReportLeaves ==
  ASSUME NEW D \in [Decks -> DeckState], NEW d \in Decks, Report(D, d)
  PROVE  SameMap(D, decks') /\ nowPlaying' = d /\ nowPlaying' # NoDeck
<1>1. decks' = [D EXCEPT ![d].hasBeenReported = TRUE] /\ nowPlaying' = d
  BY DEF Report
<1>2. SameMap(D, decks')
  BY <1>1 DEF SameMap, DeckState
<1>3. QED
  BY <1>1, <1>2, ConstantFacts

\* A scan gives the role up only when no deck of the map but its old holder could
\* have it.
LEMMA ScanLeaves ==
  ASSUME NEW D \in [Decks -> DeckState], Scan(D)
  PROVE  /\ SameMap(D, decks')
         /\ nowPlaying' = NoDeck =>
              decks' = D /\ \A e \in Decks \ {nowPlaying} : ~Reportable(D, e)
<1>1. ASSUME NEW d \in Candidates(D), Report(D, d)
      PROVE  SameMap(D, decks') /\ nowPlaying' # NoDeck
  BY <1>1, ReportLeaves DEF Candidates, Known
<1>2. CASE Candidates(D) = {} /\ decks' = D
  <2>1. SameMap(D, D)
    BY DEF SameMap
  <2>2. \A e \in Decks \ {nowPlaying} : ~Reportable(D, e)
    BY <1>2 DEF Candidates, Known, Reportable
  <2>3. QED
    BY <1>2, <2>1, <2>2
<1>3. QED
  BY <1>1, <1>2 DEF Scan

\* The conditional report never takes the role from a deck that is PLAYING; when
\* nothing is now playing after it, the deck is not eligible.
LEMMA CheckLeaves ==
  ASSUME NEW D \in [Decks -> DeckState], NEW d \in Decks, CheckAndReport(D, d),
         nowPlaying # NoDeck => D[nowPlaying].state = "PLAYING"
  PROVE  /\ SameMap(D, decks')
         /\ nowPlaying # NoDeck => nowPlaying' = nowPlaying
         /\ nowPlaying' = NoDeck => decks' = D /\ nowPlaying = NoDeck /\ ~Reportable(D, d)
<1>1. CASE Reportable(D, d) /\ ~HeldByAnother(D, d)
  <2>1. SameMap(D, decks') /\ nowPlaying' = d /\ nowPlaying' # NoDeck
    BY <1>1, ReportLeaves DEF CheckAndReport
  <2>2. nowPlaying # NoDeck => nowPlaying = d
    BY <1>1 DEF HeldByAnother
  <2>3. QED
    BY <2>1, <2>2
<1>2. CASE ~(Reportable(D, d) /\ ~HeldByAnother(D, d))
  <2>1. decks' = D /\ nowPlaying' = nowPlaying
    BY <1>2 DEF CheckAndReport
  <2>2. nowPlaying = NoDeck => ~Reportable(D, d)
    BY <1>2 DEF HeldByAnother
  <2>3. SameMap(D, D)
    BY DEF SameMap
  <2>4. QED
    BY <2>1, <2>2, <2>3
<1>3. QED
  BY <1>1, <1>2

-------------------------------------------------------------------------------
(* Each action, step by step *)

\* The now-playing deck of the invariant is PLAYING.
LEMMA RoleFacts ==
  ASSUME Inv
  PROVE  /\ decks \in [Decks -> DeckState] /\ timers \in [Decks -> Timer]
         /\ nowPlaying \in Decks \cup {NoDeck} /\ NoDeck \notin Decks
         /\ nowPlaying # NoDeck => /\ nowPlaying \in Decks
                                   /\ decks[nowPlaying].state = "PLAYING"
                                   /\ decks[nowPlaying].hasBeenReported
BY ConstantFacts DEF Inv, RoleOK

\* A load or an unload takes its own deck out of PLAYING, and only that one.
LEMMA PutTrackSteps ==
  ASSUME Inv, MapOK(decks), NEW d \in Decks, NEW contents \in DeckState, NEW ticks,
         PutTrack(d, contents, ticks), contents.state \in {"EMPTY", "LOADED"}
  PROVE  StepOK
<1>1. PICK o \in GetDeckState(decks, d) :
        LET D == [o.decks EXCEPT ![d] = [contents EXCEPT !.faderUp = o.decks[d].faderUp,
                                                         !.isMaster = o.decks[d].isMaster]]
        IN IF d = nowPlaying
             THEN Scan(D)
             ELSE /\ decks' = D
                  /\ nowPlaying' = o.nowPlaying
                  /\ UNCHANGED <<switchTimer, live>>
  BY DEF PutTrack
<1> DEFINE put == [contents EXCEPT !.faderUp = o.decks[d].faderUp, !.isMaster = o.decks[d].isMaster]
           D == [o.decks EXCEPT ![d] = put]
<1>2. /\ o.decks \in [Decks -> DeckState] /\ o.nowPlaying = nowPlaying
      /\ MapOK(o.decks) /\ o.decks[d].state # "ABSENT" /\ Quiet(decks, o.decks)
  BY LookUp, LookUpRole, LookUpMap DEF Inv
<1>3. /\ put \in DeckState /\ put.state \in {"EMPTY", "LOADED"}
      /\ put.isMaster = o.decks[d].isMaster
  BY <1>2 DEF DeckState
<1>4. /\ D \in [Decks -> DeckState] /\ D[d] = put
      /\ \A e \in Decks \ {d} : D[e] = o.decks[e]
  BY <1>2, <1>3
<1> HIDE DEF put, D
<1>5. MapOK(D)
  <2>1. Known(D) = Known(o.decks)
    BY <1>2, <1>3, <1>4 DEF Known
  <2>2. \A e, f \in Decks : D[e].isMaster /\ D[f].isMaster => e = f
    BY <1>2, <1>3, <1>4 DEF MapOK
  <2>3. QED
    BY <1>2, <2>1, <2>2 DEF MapOK
<1>6. Quiet(decks, D)
  BY <1>2, <1>3, <1>4 DEF Quiet
<1>7. CASE d = nowPlaying
  <2>1. Scan(D)
    BY <1>1, <1>7 DEF D, put
  <2>2. /\ SameMap(D, decks')
        /\ nowPlaying' = NoDeck => decks' = D /\ \A e \in Decks \ {nowPlaying} : ~Reportable(D, e)
    BY <1>4, <2>1, ScanLeaves
  <2>3. MapOK(decks')
    BY <1>5, <2>2, SameMapOK
  <2>4. StateStep
    BY <1>6, <2>2 DEF Quiet, SameMap, StateStep
  <2>5. RoleStep
    BY <1>3, <1>4, <1>7, <2>2 DEF SameMap, RoleStep
  <2>6. EligibleStep
    <3>1. ~Reportable(D, d)
      BY <1>3, <1>4 DEF Reportable
    <3>2. nowPlaying' = NoDeck => decks' = D /\ \A e \in Decks : ~Reportable(D, e)
      BY <1>7, <2>2, <3>1
    <3>3. QED
      BY <3>2 DEF EligibleStep
  <2>7. QED
    BY <2>3, <2>4, <2>5, <2>6 DEF StepOK, MapOK, Known
<1>8. CASE d # nowPlaying
  <2>1. decks' = D /\ nowPlaying' = nowPlaying
    BY <1>1, <1>2, <1>8 DEF D, put
  <2>2. QED
    BY <1>5, <1>6, <2>1, QuietStep DEF StepOK, MapOK, Known
<1>9. QED
  BY <1>7, <1>8

\* An ignored play event leaves only a look-up behind.
LEMMA PlayStateIgnoredSteps ==
  ASSUME Inv, MapOK(decks), NEW d \in Decks, NEW b \in BOOLEAN, PlayStateIgnored(d, b)
  PROVE  StepOK
<1>1. PICK o \in GetDeckState(decks, d) : decks' = o.decks /\ nowPlaying' = o.nowPlaying
  BY DEF PlayStateIgnored
<1>2. o.nowPlaying = nowPlaying /\ MapOK(o.decks) /\ Quiet(decks, o.decks)
  BY LookUpRole, LookUpMap DEF Inv
<1>3. QED
  BY <1>1, <1>2, QuietStep DEF StepOK, MapOK, Known

\* One deck changes, quietly, and stays in the map.
LEMMA OneDeckSteps ==
  ASSUME Inv, MapOK(decks), NEW d \in Decks, NEW new \in DeckState,
         decks' = [decks EXCEPT ![d] = new], nowPlaying' = nowPlaying,
         decks[d].state # "ABSENT", new.state # "ABSENT",
         new.isMaster <=> decks[d].isMaster,
         new.state = "PLAYING" =>
           \/ decks[d].state = "ENDED"
           \/ /\ decks[d].state = "PLAYING"
              /\ (new.hasBeenReported <=> decks[d].hasBeenReported)
              /\ UseFaderDetection /\ new.faderUp => decks[d].faderUp
  PROVE  StepOK
<1>1. decks'[d] = new /\ \A e \in Decks \ {d} : decks'[e] = decks[e]
  BY DEF Inv
<1>2. Known(decks') = Known(decks)
  BY <1>1 DEF Known
<1>3. MapOK(decks')
  BY <1>1, <1>2 DEF MapOK
<1>4. Quiet(decks, decks')
  BY <1>1 DEF Quiet
<1>5. QED
  BY <1>3, <1>4, QuietStep DEF StepOK, MapOK, Known

\* A play resumes a deck or cues it.
LEMMA PlayStartSteps ==
  ASSUME Inv, MapOK(decks), NEW d \in Decks, PlayStart(d)
  PROVE  StepOK
<1> DEFINE deck == decks[d]
           resumes == deck.state \in {"PLAYING", "ENDED"}
           kept == KeptTime(deck)
           new == [deck EXCEPT !.state = IF resumes THEN "PLAYING" ELSE "CUEING",
                               !.isPlaying = TRUE, !.playAge = 0,
                               !.accum = kept, !.pauseAge = Unset]
<1>1. deck \in DeckState /\ deck.state \notin {"ABSENT", "EMPTY"}
  BY DEF PlayStart, Inv
<1>2. kept \in 0..AccumCap
  BY <1>1, ConstantFacts DEF KeptTime, DeckState
<1>3. /\ new \in DeckState
      /\ new.state = IF resumes THEN "PLAYING" ELSE "CUEING"
      /\ new.hasBeenReported = deck.hasBeenReported /\ new.faderUp = deck.faderUp
      /\ new.isMaster = deck.isMaster
  <2>1. 0 \in {Unset} \cup 0..AccumCap /\ Unset \in {Unset} \cup 0..PauseCap
    BY ConstantFacts
  <2>2. QED
    BY <1>1, <1>2, <2>1 DEF DeckState, Phases
<1>4. decks' = [decks EXCEPT ![d] = new] /\ nowPlaying' = nowPlaying
  BY DEF PlayStart
<1> HIDE DEF new
<1>5. QED
  BY <1>1, <1>3, <1>4, OneDeckSteps

\* A stop pauses a deck or sends it back.
LEMMA PlayStopSteps ==
  ASSUME Inv, MapOK(decks), NEW d \in Decks, PlayStop(d)
  PROVE  StepOK
<1> DEFINE deck == decks[d]
           accum == AtMost(AccumCap, deck.accum + deck.playAge)
           new == [deck EXCEPT !.state = IF deck.state = "PLAYING" THEN "PLAYING" ELSE "LOADED",
                               !.isPlaying = FALSE, !.playAge = Unset,
                               !.accum = accum, !.pauseAge = 0]
<1>1. deck \in DeckState /\ deck.state \notin {"ABSENT", "EMPTY"} /\ deck.playAge # Unset
  BY DEF PlayStop, Inv, DeckOK
<1>2. accum \in 0..AccumCap
  <2>1. deck.accum \in 0..AccumCap /\ deck.playAge \in 0..AccumCap
    BY <1>1 DEF DeckState
  <2>2. QED
    BY <2>1, ConstantFacts DEF AtMost
<1>3. /\ new \in DeckState
      /\ new.state = IF deck.state = "PLAYING" THEN "PLAYING" ELSE "LOADED"
      /\ new.hasBeenReported = deck.hasBeenReported /\ new.faderUp = deck.faderUp
      /\ new.isMaster = deck.isMaster
  <2>1. Unset \in {Unset} \cup 0..AccumCap /\ 0 \in {Unset} \cup 0..PauseCap
    BY ConstantFacts
  <2> HIDE DEF accum
  <2>2. QED
    BY <1>1, <1>2, <2>1 DEF DeckState, Phases
<1>4. decks' = [decks EXCEPT ![d] = new] /\ nowPlaying' = nowPlaying
  BY DEF PlayStop
<1> HIDE DEF new
<1>5. QED
  BY <1>1, <1>3, <1>4, OneDeckSteps

\* A fader that comes up over a PLAYING deck has it checked; nothing else that a
\* fader does makes a deck eligible.
LEMMA UpdateFaderLevelSteps ==
  ASSUME Inv, MapOK(decks), NEW d \in Decks, NEW up \in BOOLEAN, UpdateFaderLevel(d, up)
  PROVE  StepOK
<1>1. PICK o \in GetDeckState(decks, d) :
        LET D == [o.decks EXCEPT ![d].faderUp = up]
            wasLow == ~o.decks[d].faderUp
        IN IF wasLow /\ up /\ D[d].state = "PLAYING"
             THEN CheckAndReport(D, d)
             ELSE decks' = D /\ nowPlaying' = o.nowPlaying
  BY DEF UpdateFaderLevel
<1> DEFINE new == [o.decks[d] EXCEPT !.faderUp = up]
           D == [o.decks EXCEPT ![d].faderUp = up]
<1>2. /\ o.decks \in [Decks -> DeckState] /\ o.nowPlaying = nowPlaying
      /\ MapOK(o.decks) /\ o.decks[d].state # "ABSENT" /\ Quiet(decks, o.decks)
      /\ nowPlaying # NoDeck => o.decks[nowPlaying] = decks[nowPlaying]
  BY LookUp, LookUpRole, LookUpMap DEF Inv
<1>3. /\ D = [o.decks EXCEPT ![d] = new] /\ new \in DeckState
      /\ new.state = o.decks[d].state /\ new.isMaster = o.decks[d].isMaster
      /\ new.hasBeenReported = o.decks[d].hasBeenReported /\ new.faderUp = up
  BY <1>2 DEF DeckState
<1>4. /\ D \in [Decks -> DeckState] /\ D[d] = new
      /\ \A e \in Decks \ {d} : D[e] = o.decks[e]
  BY <1>2, <1>3
<1>a. /\ ~o.decks[d].faderUp /\ up /\ D[d].state = "PLAYING" => CheckAndReport(D, d)
      /\ ~(~o.decks[d].faderUp /\ up /\ D[d].state = "PLAYING") => decks' = D /\ nowPlaying' = nowPlaying
  BY <1>1, <1>2
<1> HIDE DEF new, D
<1>5. SameMap(o.decks, D)
  BY <1>3, <1>4 DEF SameMap
<1>6. MapOK(D)
  BY <1>2, <1>5, SameMapOK
<1>7. CASE ~o.decks[d].faderUp /\ up /\ D[d].state = "PLAYING"
  <2>1. /\ SameMap(D, decks')
        /\ nowPlaying # NoDeck => nowPlaying' = nowPlaying
        /\ nowPlaying' = NoDeck => decks' = D /\ nowPlaying = NoDeck /\ ~Reportable(D, d)
    <3>1. nowPlaying # NoDeck => D[nowPlaying].state = "PLAYING"
      BY <1>2, <1>5, RoleFacts DEF SameMap
    <3>2. QED
      BY <1>4, <1>7, <1>a, <3>1, CheckLeaves
  <2>2. MapOK(decks')
    BY <1>6, <2>1, SameMapOK
  <2>3. StateStep
    BY <1>2, <1>5, <2>1 DEF Quiet, SameMap, StateStep
  <2>4. EligibleStep
    <3>1. ASSUME nowPlaying' = NoDeck, NEW e \in Decks, Reportable(decks', e),
                 decks[e].state # "ENDED", ~(HasMaster(decks) /\ ~HasMaster(decks'))
          PROVE  Reportable(decks, e)
      <4>1. decks' = D /\ e # d /\ D[e] = o.decks[e]
        BY <1>4, <2>1, <3>1
      <4>2. decks[e].state = "PLAYING" /\ ~decks[e].hasBeenReported
            /\ (UseFaderDetection => decks[e].faderUp)
        BY <1>2, <3>1, <4>1 DEF Quiet, Reportable
      <4>3. MasterDeckPriority /\ HasMaster(decks) => decks[e].isMaster
        BY <1>2, <3>1, <4>1 DEF Quiet, Reportable
      <4>4. QED
        BY <4>2, <4>3 DEF Reportable
    <3>2. QED
      BY <2>1, <3>1 DEF EligibleStep
  <2>5. QED
    BY <2>1, <2>2, <2>3, <2>4 DEF StepOK, RoleStep, MapOK, Known
<1>8. CASE ~(~o.decks[d].faderUp /\ up /\ D[d].state = "PLAYING")
  <2>1. D[d].state = "PLAYING" /\ D[d].faderUp => o.decks[d].faderUp
    BY <1>3, <1>4, <1>8
  <2>2. Quiet(decks, D)
    BY <1>2, <1>3, <1>4, <2>1 DEF Quiet
  <2>3. QED
    BY <1>6, <1>8, <1>a, <2>2, QuietStep DEF StepOK, MapOK, Known
<1>9. QED
  BY <1>7, <1>8

\* A new master is checked when it was none before; the others are no masters.
LEMMA SetMasterDeckSteps ==
  ASSUME Inv, MapOK(decks), NEW d \in Decks, SetMasterDeck(d)
  PROVE  StepOK
<1> DEFINE unmastered == [e \in Decks |-> [decks[e] EXCEPT !.isMaster = FALSE]]
<1>1. /\ unmastered \in [Decks -> DeckState]
      /\ \A e \in Decks : /\ unmastered[e].state = decks[e].state /\ ~unmastered[e].isMaster
                          /\ unmastered[e].hasBeenReported = decks[e].hasBeenReported
                          /\ unmastered[e].faderUp = decks[e].faderUp
                          /\ unmastered[e].track = decks[e].track
  BY DEF Inv, DeckState
<1>2. MapOK(unmastered) /\ Known(unmastered) = Known(decks)
  <2>1. Known(unmastered) = Known(decks)
    BY <1>1 DEF Known
  <2>2. QED
    BY <1>1, <2>1 DEF MapOK
<1>3. RoleOK(unmastered, nowPlaying, live, switchTimer)
  <2>1. RoleOK(decks, nowPlaying, live, switchTimer)
    BY DEF Inv
  <2>2. QED
    BY <1>1, <2>1, RoleKept DEF RoleOK
<1> HIDE DEF unmastered
<1>4. Quiet(decks, unmastered) /\ ~HasMaster(unmastered)
  BY <1>1 DEF Quiet, HasMaster, Known
<1>5. ASSUME NEW o \in GetDeckState(unmastered, d),
             LET D == [o.decks EXCEPT ![d].isMaster = TRUE]
             IN IF D[d].state = "PLAYING" /\ ~decks[d].isMaster
                  THEN CheckAndReport(D, d)
                  ELSE decks' = D /\ nowPlaying' = o.nowPlaying
      PROVE  StepOK
  <2> DEFINE new == [o.decks[d] EXCEPT !.isMaster = TRUE]
             D == [o.decks EXCEPT ![d].isMaster = TRUE]
  <2>1. /\ o.decks \in [Decks -> DeckState] /\ o.nowPlaying = nowPlaying
        /\ MapOK(o.decks) /\ o.decks[d].state # "ABSENT" /\ Quiet(unmastered, o.decks)
        /\ nowPlaying # NoDeck => o.decks[nowPlaying] = unmastered[nowPlaying]
    BY <1>1, <1>2, <1>3, LookUp, LookUpRole, LookUpMap DEF Inv
  <2>2. /\ D = [o.decks EXCEPT ![d] = new] /\ new \in DeckState
        /\ new.state = o.decks[d].state /\ new.isMaster
        /\ new.hasBeenReported = o.decks[d].hasBeenReported /\ new.faderUp = o.decks[d].faderUp
    BY <2>1 DEF DeckState
  <2>3. /\ D \in [Decks -> DeckState] /\ D[d] = new
        /\ \A e \in Decks \ {d} : D[e] = o.decks[e]
    BY <2>1, <2>2
  <2>a. /\ D[d].state = "PLAYING" /\ ~decks[d].isMaster => CheckAndReport(D, d)
        /\ ~(D[d].state = "PLAYING" /\ ~decks[d].isMaster) => decks' = D /\ nowPlaying' = nowPlaying
    BY <1>5, <2>1
  <2> HIDE DEF new, D
  <2>4. \A e \in Decks : ~o.decks[e].isMaster
    BY <1>1, <2>1 DEF Quiet
  <2>5. MapOK(D)
    <3>1. Known(D) = Known(o.decks)
      BY <2>2, <2>3 DEF Known
    <3>2. QED
      BY <2>1, <2>3, <2>4, <3>1 DEF MapOK
  <2>6. \A e \in Decks :
           /\ decks[e].state = "PLAYING" => D[e].state # "ABSENT"
           /\ D[e].state = "PLAYING" =>
                \/ decks[e].state = "ENDED"
                \/ /\ decks[e].state = "PLAYING" /\ (D[e].hasBeenReported <=> decks[e].hasBeenReported)
                   /\ UseFaderDetection /\ D[e].faderUp => decks[e].faderUp
    BY <1>1, <2>1, <2>2, <2>3 DEF Quiet
  <2>7. HasMaster(D)
    BY <2>1, <2>2, <2>3 DEF HasMaster, Known
  <2>8. /\ SameMap(D, decks')
        /\ nowPlaying # NoDeck => nowPlaying' = nowPlaying
        /\ nowPlaying' = NoDeck =>
             decks' = D /\ nowPlaying = NoDeck /\ (~decks[d].isMaster => ~Reportable(D, d))
    <3>1. CASE D[d].state = "PLAYING" /\ ~decks[d].isMaster
      <4>1. nowPlaying # NoDeck => D[nowPlaying].state = "PLAYING"
        BY <1>1, <2>1, <2>2, <2>3, RoleFacts
      <4>2. QED
        BY <2>3, <2>a, <3>1, <4>1, CheckLeaves
    <3>2. CASE ~(D[d].state = "PLAYING" /\ ~decks[d].isMaster)
      BY <2>a, <3>2 DEF SameMap, Reportable
    <3>3. QED
      BY <3>1, <3>2
  <2>9. MapOK(decks')
    BY <2>5, <2>8, SameMapOK
  <2>10. StateStep
    BY <2>6, <2>8 DEF SameMap, StateStep
  <2>11. EligibleStep
    <3>1. ASSUME nowPlaying' = NoDeck, NEW e \in Decks, Reportable(decks', e), decks[e].state # "ENDED"
          PROVE  Reportable(decks, e)
      <4>1. decks' = D /\ (~decks[d].isMaster => e # d)
        BY <2>8, <3>1
      <4>2. decks[e].state = "PLAYING" /\ ~decks[e].hasBeenReported
            /\ (UseFaderDetection => decks[e].faderUp)
        BY <2>6, <3>1, <4>1 DEF Reportable
      <4>3. MasterDeckPriority => D[e].isMaster
        BY <2>7, <3>1, <4>1 DEF Reportable
      <4>4. MasterDeckPriority => e = d
        BY <2>3, <2>4, <4>3
      <4>5. QED
        BY <4>1, <4>2, <4>4 DEF Reportable
    <3>2. QED
      BY <2>8, <3>1 DEF EligibleStep
  <2>12. QED
    BY <2>8, <2>9, <2>10, <2>11 DEF StepOK, RoleStep, MapOK, Known
<1>6. ASSUME decks' = unmastered, nowPlaying' = nowPlaying
      PROVE  StepOK
  BY <1>2, <1>4, <1>6, QuietStep DEF StepOK, MapOK, Known
<1>7. QED
  BY <1>5, <1>6 DEF SetMasterDeck, unmastered

\* A threshold timer goes off when the deck has played for as long as it takes.
LEMMA ThresholdReachedSteps ==
  ASSUME Inv, MapOK(decks), NEW d \in Decks, ThresholdReached(d)
  PROVE  StepOK
<1> DEFINE new == [decks[d] EXCEPT !.state = "PLAYING"]
           D == [decks EXCEPT ![d].state = "PLAYING"]
<1>1. CASE decks[d].state = "CUEING" /\ decks[d].isPlaying
  <2>1. CheckAndReport(D, d)
    BY <1>1 DEF ThresholdReached
  <2>2. /\ D = [decks EXCEPT ![d] = new] /\ new \in DeckState /\ new.state = "PLAYING"
        /\ (new.isMaster <=> decks[d].isMaster)
    BY DEF Inv, DeckState, Phases
  <2>3. /\ D \in [Decks -> DeckState] /\ D[d] = new
        /\ \A e \in Decks \ {d} : D[e] = decks[e]
    BY <2>2 DEF Inv
  <2> HIDE DEF new, D
  <2>4. Known(D) = Known(decks)
    BY <1>1, <2>2, <2>3 DEF Known
  <2>5. MapOK(D) /\ (HasMaster(D) <=> HasMaster(decks))
    <3>1. \A e \in Decks : D[e].isMaster <=> decks[e].isMaster
      BY <2>2, <2>3
    <3>2. MapOK(D)
      BY <2>4, <3>1 DEF MapOK
    <3>3. HasMaster(D) <=> HasMaster(decks)
      BY <2>4, <3>1 DEF HasMaster, Known
    <3>4. QED
      BY <3>2, <3>3
  <2>6. decks[d].accum + decks[d].playAge >= LiveThreshold
    <3>1. timers[d].left = 0 /\ DeckOK(decks[d], timers[d])
      BY DEF ThresholdReached, Inv
    <3>2. decks[d].accum \in Nat /\ decks[d].playAge \in Nat
      BY <1>1, <3>1, ConstantFacts DEF DeckOK, DeckState
    <3>3. timers[d].left + decks[d].accum + decks[d].playAge = LiveThreshold
      BY <1>1, <3>1 DEF DeckOK
    <3>4. QED
      BY <3>1, <3>2, <3>3, ConstantFacts
  <2>7. /\ SameMap(D, decks')
        /\ nowPlaying # NoDeck => nowPlaying' = nowPlaying
        /\ nowPlaying' = NoDeck => decks' = D /\ nowPlaying = NoDeck /\ ~Reportable(D, d)
    <3>1. nowPlaying # NoDeck => D[nowPlaying].state = "PLAYING"
      BY <2>2, <2>3, RoleFacts
    <3>2. QED
      BY <2>1, <2>3, <3>1, CheckLeaves
  <2>8. MapOK(decks')
    BY <2>5, <2>7, SameMapOK
  <2>9. StateStep
    BY <2>2, <2>3, <2>6, <2>7 DEF SameMap, StateStep
  <2>10. EligibleStep
    <3>1. ASSUME nowPlaying' = NoDeck, NEW e \in Decks, Reportable(decks', e)
          PROVE  Reportable(decks, e)
      BY <2>3, <2>5, <2>7, <3>1 DEF Reportable
    <3>2. QED
      BY <2>7, <3>1 DEF EligibleStep
  <2>11. QED
    BY <2>7, <2>8, <2>9, <2>10 DEF StepOK, RoleStep, MapOK, Known
<1>2. CASE ~(decks[d].state = "CUEING" /\ decks[d].isPlaying)
  <2>1. decks' = decks /\ nowPlaying' = nowPlaying
    BY <1>2 DEF ThresholdReached
  <2>2. Quiet(decks, decks)
    BY DEF Quiet
  <2>3. QED
    BY <2>1, <2>2, QuietStep DEF StepOK, MapOK, Known
<1>3. QED
  BY <1>1, <1>2

\* A grace timer ends its deck; the now-playing deck gives the role up, and a scan
\* follows.
LEMMA GracePeriodExpiredSteps ==
  ASSUME Inv, MapOK(decks), NEW d \in Decks, GracePeriodExpired(d)
  PROVE  StepOK
<1> DEFINE new == [decks[d] EXCEPT !.state = "ENDED"]
           D == [decks EXCEPT ![d].state = "ENDED"]
<1>1. CASE decks[d].state = "PLAYING" /\ ~decks[d].isPlaying
  <2>1. /\ D = [decks EXCEPT ![d] = new] /\ new \in DeckState /\ new.state = "ENDED"
        /\ (new.isMaster <=> decks[d].isMaster)
    BY DEF Inv, DeckState, Phases
  <2>2. CASE d = nowPlaying
    <3>1. /\ D \in [Decks -> DeckState] /\ D[d] = new
          /\ \A e \in Decks \ {d} : D[e] = decks[e]
      BY <2>1 DEF Inv
    <3>2. Scan(D) /\ timers[d] = [kind |-> "grace", left |-> 0]
      BY <1>1, <2>2 DEF GracePeriodExpired
    <3> HIDE DEF new, D
    <3>3. MapOK(D)
      <4>1. Known(D) = Known(decks)
        BY <1>1, <2>1, <3>1 DEF Known
      <4>2. QED
        BY <2>1, <3>1, <4>1 DEF MapOK
    <3>4. /\ SameMap(D, decks')
          /\ nowPlaying' = NoDeck => decks' = D /\ \A e \in Decks \ {nowPlaying} : ~Reportable(D, e)
      BY <3>1, <3>2, ScanLeaves
    <3>5. MapOK(decks')
      BY <3>3, <3>4, SameMapOK
    <3>6. StateStep
      BY <2>1, <3>1, <3>4 DEF SameMap, StateStep
    <3>7. EligibleStep
      <4>1. ~Reportable(D, d)
        BY <2>1, <3>1 DEF Reportable
      <4>2. QED
        BY <2>2, <3>4, <4>1 DEF EligibleStep
    <3>8. QED
      BY <2>2, <3>2, <3>5, <3>6, <3>7 DEF StepOK, RoleStep, MapOK, Known
  <2>3. CASE d # nowPlaying
    <3>1. decks' = D /\ nowPlaying' = nowPlaying
      BY <1>1, <2>3 DEF GracePeriodExpired
    <3> HIDE DEF new
    <3>2. QED
      BY <1>1, <2>1, <3>1, OneDeckSteps
  <2>4. QED
    BY <2>2, <2>3
<1>2. CASE ~(decks[d].state = "PLAYING" /\ ~decks[d].isPlaying)
  <2>1. decks' = decks /\ nowPlaying' = nowPlaying
    BY <1>2 DEF GracePeriodExpired
  <2>2. Quiet(decks, decks)
    BY DEF Quiet
  <2>3. QED
    BY <2>1, <2>2, QuietStep DEF StepOK, MapOK, Known
<1>3. QED
  BY <1>1, <1>2

\* The switch timer's scan passes over the deck it takes the role from, which has
\* been reported.
LEMMA SwitchTimerExpiredSteps ==
  ASSUME Inv, MapOK(decks), NowPlayingSwitchTimerExpired
  PROVE  StepOK
<1>1. Scan(decks) /\ switchTimer = 0
  BY DEF NowPlayingSwitchTimerExpired
<1>2. /\ SameMap(decks, decks')
      /\ nowPlaying' = NoDeck =>
           decks' = decks /\ \A e \in Decks \ {nowPlaying} : ~Reportable(decks, e)
  BY <1>1, ScanLeaves, RoleFacts
<1>3. MapOK(decks')
  BY <1>2, SameMapOK
<1>4. StateStep
  BY <1>2 DEF SameMap, StateStep
<1>5. EligibleStep
  <2>1. \A e \in Decks : e = nowPlaying => ~Reportable(decks, e)
    BY RoleFacts DEF Reportable
  <2>2. QED
    BY <1>2, <2>1 DEF EligibleStep
<1>6. QED
  BY <1>1, <1>3, <1>4, <1>5 DEF StepOK, RoleStep, MapOK, Known

\* A tick changes clocks only.
LEMMA TickSteps ==
  ASSUME Inv, MapOK(decks), Tick
  PROVE  StepOK
<1>1. ASSUME NEW e \in Decks
      PROVE  /\ decks'[e].state = decks[e].state
             /\ decks'[e].isMaster = decks[e].isMaster
             /\ decks'[e].hasBeenReported = decks[e].hasBeenReported
             /\ decks'[e].faderUp = decks[e].faderUp
  BY DEF Tick, Aged, Inv, DeckState
<1>2. SameMap(decks, decks') /\ Quiet(decks, decks')
  BY <1>1 DEF SameMap, Quiet
<1>3. MapOK(decks')
  BY <1>2, SameMapOK
<1>4. QED
  BY <1>2, <1>3, QuietStep DEF Tick, StepOK, MapOK, Known

-------------------------------------------------------------------------------
(* Theorems about the map and about steps *)

\* Every step keeps the map in order and does only what the properties allow.
LEMMA NextSteps == Inv /\ MapOK(decks) /\ [Next]_vars => StepOK
<1> SUFFICES ASSUME Inv, MapOK(decks), [Next]_vars PROVE StepOK
  OBVIOUS
<1>1. ASSUME NEW d \in Decks, UnloadTrack(d) PROVE StepOK
  <2>1. EmptyDeck \in DeckState /\ EmptyDeck.state = "EMPTY"
    BY FreshDecks DEF EmptyDeck
  <2>2. QED
    BY <1>1, <2>1, PutTrackSteps DEF UnloadTrack
<1>2. ASSUME NEW d \in Decks, NEW t \in Tracks, LoadTrack(d, t) PROVE StepOK
  <2>1. EmptyDeck \in DeckState
    BY FreshDecks
  <2>2. LoadedDeck(t) \in DeckState /\ LoadedDeck(t).state = "LOADED"
    BY <2>1 DEF LoadedDeck, DeckState, Phases
  <2>3. QED
    BY <1>2, <2>2, PutTrackSteps DEF LoadTrack
<1>3. ASSUME NEW d \in Decks, DeckEvent(d) PROVE StepOK
  BY <1>1, <1>2, <1>3, PlayStateIgnoredSteps, PlayStartSteps, PlayStopSteps,
     UpdateFaderLevelSteps, SetMasterDeckSteps DEF DeckEvent
<1>4. ASSUME NEW d \in Decks, Fire(d) PROVE StepOK
  BY <1>4, ThresholdReachedSteps, GracePeriodExpiredSteps DEF Fire
<1>5. CASE UNCHANGED vars
  <2>1. decks' = decks /\ nowPlaying' = nowPlaying
    BY <1>5 DEF vars
  <2>2. Quiet(decks, decks)
    BY DEF Quiet
  <2>3. QED
    BY <2>1, <2>2, QuietStep DEF StepOK, MapOK, Known
<1>6. QED
  BY <1>3, <1>4, <1>5, SwitchTimerExpiredSteps, TickSteps DEF Next

\* The map is within its capacity and has one master at most, always.
LEMMA MapInvariance == Spec => [](Inv /\ MapOK(decks))
<1>1. Init => Inv /\ MapOK(decks)
  <2> SUFFICES ASSUME Init PROVE MapOK(decks)
    BY InitInv
  <2>1. \A d \in Decks : decks[d].state = "ABSENT" /\ ~decks[d].isMaster
    BY FreshFlags DEF Init
  <2>2. Known(decks) = {}
    BY <2>1 DEF Known
  <2>3. Cardinality(Known(decks)) = 0
    BY <2>2, FS_EmptySet
  <2>4. QED
    BY <2>1, <2>3, ConfigAssumption DEF MapOK
<1>2. Inv /\ MapOK(decks) /\ [Next]_vars => (Inv /\ MapOK(decks))'
  BY NextInv, NextSteps DEF StepOK
<1>3. QED
  BY <1>1, <1>2, PTL DEF Spec

\* At most one deck is master, through every change of master and every eviction
\* (deck-state-manager.ts, setMasterDeck).
THEOREM OneMaster == Spec => []SingleMaster
<1>1. MapOK(decks) => SingleMaster
  BY DEF MapOK, SingleMaster
<1>2. QED
  BY <1>1, MapInvariance, PTL

\* The deck map never exceeds MAX_DECKS, whatever decks are named
\* (deck-state-manager.ts:77-114).
THEOREM MapIsBounded == Spec => []CapacityRespected
<1>1. MapOK(decks) => CapacityRespected
  BY DEF MapOK, CapacityRespected
<1>2. QED
  BY <1>1, MapInvariance, PTL

\* No call for one more deck takes a PLAYING deck out of the map.
THEOREM PlayingStaysInMap == Spec => PlayingNeverEvicted
<1>1. Inv /\ MapOK(decks) /\ [Next]_vars =>
        [\A d \in Decks : decks[d].state = "PLAYING" => decks'[d].state # "ABSENT"]_vars
  BY NextSteps DEF StepOK, StateStep
<1>2. QED
  BY <1>1, MapInvariance, PTL DEF Spec, PlayingNeverEvicted

\* A deck goes live only with the play time that the threshold asks for, whatever
\* pauses there were.
THEOREM ThresholdIsEarned == Spec => ThresholdHonoured
<1>1. Inv /\ MapOK(decks) /\ [Next]_vars =>
        [\A d \in Decks :
           decks[d].state = "CUEING" /\ decks'[d].state = "PLAYING" =>
             decks[d].accum + decks[d].playAge >= LiveThreshold]_vars
  BY NextSteps DEF StepOK, StateStep
<1>2. QED
  BY <1>1, MapInvariance, PTL DEF Spec, ThresholdHonoured

\* No other deck takes the role from the now-playing one.
THEOREM RoleIsHeld == Spec => PriorityHeld
<1>1. Inv /\ MapOK(decks) /\ [Next]_vars =>
        [nowPlaying # NoDeck /\ nowPlaying' # nowPlaying =>
           \/ decks'[nowPlaying].state \in {"EMPTY", "LOADED", "CUEING"}
           \/ timers[nowPlaying] = [kind |-> "grace", left |-> 0]
           \/ switchTimer = 0]_vars
  BY NextSteps DEF StepOK, RoleStep
<1>2. QED
  BY <1>1, MapInvariance, PTL DEF Spec, PriorityHeld

\* No step leaves a deck that has become eligible unreported while nothing is now
\* playing, but for the exceptions that the property names.
THEOREM EligibleIsReported == Spec => EligibleDeckReported
<1>1. Inv /\ MapOK(decks) /\ [Next]_vars =>
        [nowPlaying' = NoDeck =>
           \A d \in Decks : Reportable(decks', d) =>
             \/ Reportable(decks, d) /\ nowPlaying = NoDeck
             \/ decks[d].state = "ENDED"
             \/ HasMaster(decks) /\ ~HasMaster(decks')]_vars
  BY NextSteps DEF StepOK, EligibleStep
<1>2. QED
  BY <1>1, MapInvariance, PTL DEF Spec, EligibleDeckReported

=============================================================================

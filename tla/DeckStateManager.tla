--------------------------- MODULE DeckStateManager ---------------------------
(***************************************************************************)
(* The per-deck state machine of the bridge (bridge/src/deck-state-        *)
(* manager.ts).  It turns the raw events of the DJ equipment (track        *)
(* loaded, play, pause, fader, master) into at most one "now playing"      *)
(* deck, and tells its listeners when that deck changes (deckLive) or when *)
(* nothing is live any more (nowPlayingCleared).                           *)
(*                                                                         *)
(* One action is one call of a public method or one timer callback; the    *)
(* JavaScript event loop runs each of them to completion, so an action is  *)
(* the whole handler.  Time is a Tick that passes only when no timer that  *)
(* is due is still waiting to run; a caller may still come in between.     *)
(*                                                                         *)
(* Abstracted: the fader is up or down (the code only compares it with 0   *)
(* once it is clamped); a track is a member of Tracks; ages of a play or a *)
(* pause are counted up to the bound beyond which the code does not tell   *)
(* them apart; among several decks equally good to evict, any may go (the  *)
(* code takes the one inserted first).                                     *)
(***************************************************************************)
EXTENDS Integers, FiniteSets

CONSTANTS
  Decks,              \* deck identifiers, positive numbers: the scan goes in numeric order
  Tracks,             \* tracks a deck may hold
  NoTrack,            \* no track
  MaxDecks,           \* MAX_DECKS, the capacity of the deck map
  LiveThreshold,      \* liveThresholdSeconds, in ticks
  PauseGrace,         \* pauseGraceSeconds, in ticks
  NowPlayingPause,    \* nowPlayingPauseSeconds, in ticks
  UseFaderDetection,  \* config.useFaderDetection
  MasterDeckPriority  \* config.masterDeckPriority

ASSUME DecksAssumption == Decks \subseteq Nat \ {0} /\ IsFiniteSet(Decks)
ASSUME NoTrackAssumption == NoTrack \notin Tracks
ASSUME ConfigAssumption ==
  /\ MaxDecks \in Nat \ {0}
  /\ LiveThreshold \in Nat /\ PauseGrace \in Nat /\ NowPlayingPause \in Nat
  /\ UseFaderDetection \in BOOLEAN /\ MasterDeckPriority \in BOOLEAN

VARIABLES
  decks,        \* deck -> its DeckState; an "ABSENT" deck is not in the map
  timers,       \* deck -> the timer pending for it
  switchTimer,  \* ticks left before the now-playing switch timer is due, or Unset
  nowPlaying,   \* currentNowPlayingDeckId, or NoDeck
  destroyed,    \* destroy() was called
  listening,    \* the bridge's listeners are attached
  live          \* what the last event a listener received says is live

vars == <<decks, timers, switchTimer, nowPlaying, destroyed, listening, live>>

-----------------------------------------------------------------------------
(* Values *)

Unset == -1
NoDeck == 0
Phases == {"ABSENT", "EMPTY", "LOADED", "CUEING", "PLAYING", "ENDED"}

\* Beyond these an age or an accumulated time makes no difference to the code.
AccumCap == LiveThreshold
PauseCap == PauseGrace + 1

DeckState ==
  [state : Phases, track : Tracks \cup {NoTrack}, isPlaying : BOOLEAN,
   playAge : {Unset} \cup 0..AccumCap,    \* since playStartTime
   accum : 0..AccumCap,                   \* accumulatedPlayTime
   pauseAge : {Unset} \cup 0..PauseCap,   \* since lastPauseTime
   faderUp : BOOLEAN, isMaster : BOOLEAN, hasBeenReported : BOOLEAN]

EmptyDeck ==
  [state |-> "EMPTY", track |-> NoTrack, isPlaying |-> FALSE,
   playAge |-> Unset, accum |-> 0, pauseAge |-> Unset,
   faderUp |-> TRUE, isMaster |-> FALSE, hasBeenReported |-> FALSE]

AbsentDeck == [EmptyDeck EXCEPT !.state = "ABSENT"]

Timer == [kind : {"threshold", "grace"}, left : Nat] \cup {[kind |-> "none", left |-> 0]}
NoTimer == [kind |-> "none", left |-> 0]

NoLive == [deck |-> NoDeck, track |-> NoTrack]

AtMost(cap, n) == IF n > cap THEN cap ELSE n
Older(cap, age) == IF age = Unset THEN Unset ELSE AtMost(cap, age + 1)

-----------------------------------------------------------------------------
(* The deck map *)

Known(D) == {d \in Decks : D[d].state # "ABSENT"}

HasMaster(D) == \E d \in Known(D) : D[d].isMaster

\* Order in which evictStaleDeck gives decks up; a PLAYING deck never goes.
EvictionRank ==
  [EMPTY |-> 1, ENDED |-> 2, LOADED |-> 3, CUEING |-> 4, PLAYING |-> 5, ABSENT |-> 6]

\* Mutant: a full map gives up whatever deck ranks first, PLAYING included.
VictimsPlayingToo(D) ==
  {v \in Known(D) : \A e \in Known(D) : EvictionRank[D[v].state] <= EvictionRank[D[e].state]}

Victims(D) ==
  {v \in Known(D) : /\ D[v].state # "PLAYING"
                    /\ \A e \in Known(D) :
                         EvictionRank[D[v].state] <= EvictionRank[D[e].state]}

\* What evicting v (NoDeck: nothing to evict) to let deck d in leaves behind.
Admit(D, d, v) ==
  [decks |-> [e \in Decks |-> CASE e = d -> EmptyDeck
                                [] e = v -> AbsentDeck
                                [] OTHER -> D[e]],
   timers |-> [e \in Decks |-> IF e = v THEN NoTimer ELSE timers[e]],
   nowPlaying |-> IF v = nowPlaying THEN NoDeck ELSE nowPlaying]

\* getDeckState: the outcomes of looking up d, none when it throws.
GetDeckState(D, d) ==
  IF d \in Known(D)
    THEN {[decks |-> D, timers |-> timers, nowPlaying |-> nowPlaying]}
  ELSE IF Cardinality(Known(D)) < MaxDecks
    THEN {[decks |-> [D EXCEPT ![d] = EmptyDeck], timers |-> timers,
           nowPlaying |-> nowPlaying]}
  ELSE {Admit(D, d, v) : v \in Victims(D)}

\* Mutant: no timer when nothing is missing.
StartTimerIfPositive(T, d, kind, ticks) ==
  IF destroyed \/ ticks = 0 THEN T ELSE [T EXCEPT ![d] = [kind |-> kind, left |-> ticks]]

StartTimer(T, d, kind, ticks) ==
  IF destroyed THEN T ELSE [T EXCEPT ![d] = [kind |-> kind, left |-> ticks]]

-----------------------------------------------------------------------------
(* Reporting *)

Emit(event) == live' = IF listening THEN event ELSE live

\* shouldReportTrack, and the conditions a scan puts on a candidate.
Reportable(D, d) ==
  /\ D[d].state = "PLAYING"
  /\ ~D[d].hasBeenReported
  /\ UseFaderDetection => D[d].faderUp
  /\ MasterDeckPriority /\ HasMaster(D) => D[d].isMaster

\* Mutant: a brief pause already loses the priority.
HeldByAnotherPlaying(D, d) == nowPlaying \notin {NoDeck, d} /\ D[nowPlaying].isPlaying

\* Another deck is now playing, and still plays or only pauses briefly.
HeldByAnother(D, d) ==
  /\ nowPlaying \notin {NoDeck, d}
  /\ D[nowPlaying].isPlaying \/ D[nowPlaying].state = "PLAYING"

Report(D, d) ==
  /\ decks' = [D EXCEPT ![d].hasBeenReported = TRUE]
  /\ nowPlaying' = d
  /\ switchTimer' = Unset
  /\ Emit([deck |-> d, track |-> D[d].track])

CheckAndReport(D, d) ==
  IF Reportable(D, d) /\ ~HeldByAnother(D, d)
    THEN Report(D, d)
    ELSE decks' = D /\ UNCHANGED <<nowPlaying, switchTimer, live>>

\* Mutant: the scan insists on a master even when no deck is one.
CandidatesMasterOnly(D) ==
  {d \in Known(D) \ {nowPlaying} :
     Reportable(D, d) /\ (MasterDeckPriority => D[d].isMaster)}

\* scanForNowPlayingCandidate, always called with the switch timer cleared.
Candidates(D) == {d \in Known(D) \ {nowPlaying} : Reportable(D, d)}

\* Mutants of a scan that finds nothing: it does not give the role up; it does not
\* say so; it leaves a switch timer behind.
ScanKeepsRole(D) ==
  \/ \E d \in Candidates(D) : (\A e \in Candidates(D) : d <= e) /\ Report(D, d)
  \/ /\ Candidates(D) = {}
     /\ decks' = D
     /\ switchTimer' = Unset
     /\ Emit(NoLive)
     /\ UNCHANGED nowPlaying

ScanSilent(D) ==
  \/ \E d \in Candidates(D) : (\A e \in Candidates(D) : d <= e) /\ Report(D, d)
  \/ /\ Candidates(D) = {}
     /\ decks' = D
     /\ nowPlaying' = NoDeck
     /\ switchTimer' = Unset
     /\ UNCHANGED live

ScanKeepsTimer(D) ==
  \/ \E d \in Candidates(D) : (\A e \in Candidates(D) : d <= e) /\ Report(D, d)
  \/ /\ Candidates(D) = {}
     /\ decks' = D
     /\ nowPlaying' = NoDeck
     /\ Emit(NoLive)
     /\ UNCHANGED switchTimer

Scan(D) ==
  \/ \E d \in Candidates(D) : (\A e \in Candidates(D) : d <= e) /\ Report(D, d)
  \/ /\ Candidates(D) = {}
     /\ decks' = D
     /\ nowPlaying' = NoDeck
     /\ switchTimer' = Unset
     /\ Emit(NoLive)

-----------------------------------------------------------------------------
(* Calls from the equipment plugin *)

\* Replaces the contents of deck d, keeping its fader and its master flag.
PutTrack(d, contents, ticks) ==
  \E o \in GetDeckState(decks, d) :
    LET D == [o.decks EXCEPT ![d] = [contents EXCEPT !.faderUp = o.decks[d].faderUp,
                                                     !.isMaster = o.decks[d].isMaster]]
        T == [o.timers EXCEPT ![d] = NoTimer]
    IN /\ timers' = IF contents.isPlaying THEN StartTimer(T, d, "threshold", ticks) ELSE T
       /\ IF d = nowPlaying
            THEN Scan(D)
            ELSE /\ decks' = D
                 /\ nowPlaying' = o.nowPlaying
                 /\ UNCHANGED <<switchTimer, live>>
       /\ UNCHANGED <<destroyed, listening>>

LoadedDeck(track) == [EmptyDeck EXCEPT !.state = "LOADED", !.track = track]

UnloadTrack(d) == PutTrack(d, EmptyDeck, 0)
LoadTrack(d, track) == PutTrack(d, LoadedDeck(track), 0)

\* A plugin without play states: the load is followed by a synthesized play in
\* the same handler (PluginBridge.handleTrack).
LoadAndPlay(d, track) ==
  PutTrack(d, [LoadedDeck(track) EXCEPT !.state = "CUEING", !.isPlaying = TRUE,
                                        !.playAge = 0], LiveThreshold)

\* A play event for an empty deck, or one that repeats what the deck does: only
\* the look-up leaves a trace.
PlayStateIgnored(d, isPlaying) ==
  \E o \in GetDeckState(decks, d) :
    /\ o.decks[d].state = "EMPTY" \/ o.decks[d].isPlaying = isPlaying
    /\ decks' = o.decks
    /\ timers' = o.timers
    /\ nowPlaying' = o.nowPlaying
    /\ UNCHANGED <<switchTimer, destroyed, listening, live>>

\* Mutant: a brief pause counts as play time.
KeptTimeAndPause(deck) ==
  IF deck.pauseAge # Unset /\ deck.pauseAge <= PauseGrace THEN deck.accum + deck.pauseAge ELSE 0

\* Play time kept on a resume: a pause beyond the grace period forfeits it.
KeptTime(deck) ==
  IF deck.pauseAge # Unset /\ deck.pauseAge <= PauseGrace THEN deck.accum ELSE 0

\* Mutant: the threshold timer credits time that a long pause has forfeited.
PlayStartUnforfeited(d) ==
  LET deck == decks[d]
      resumes == deck.state \in {"PLAYING", "ENDED"}
  IN /\ deck.state \notin {"ABSENT", "EMPTY"}
     /\ ~deck.isPlaying
     /\ decks' = [decks EXCEPT ![d] =
                    [deck EXCEPT !.state = IF resumes THEN "PLAYING" ELSE "CUEING",
                                 !.isPlaying = TRUE, !.playAge = 0,
                                 !.accum = KeptTime(deck), !.pauseAge = Unset]]
     /\ switchTimer' = IF d = nowPlaying THEN Unset ELSE switchTimer
     /\ timers' = IF resumes THEN timers
                  ELSE StartTimer(timers, d, "threshold", LiveThreshold - deck.accum)
     /\ UNCHANGED <<nowPlaying, destroyed, listening, live>>

PlayStart(d) ==
  LET deck == decks[d]
      resumes == deck.state \in {"PLAYING", "ENDED"}
  IN /\ deck.state \notin {"ABSENT", "EMPTY"}
     /\ ~deck.isPlaying
     /\ decks' = [decks EXCEPT ![d] =
                    [deck EXCEPT !.state = IF resumes THEN "PLAYING" ELSE "CUEING",
                                 !.isPlaying = TRUE, !.playAge = 0,
                                 !.accum = KeptTime(deck), !.pauseAge = Unset]]
     /\ switchTimer' = IF d = nowPlaying THEN Unset ELSE switchTimer
     /\ timers' = IF resumes THEN timers
                  ELSE StartTimer(timers, d, "threshold", LiveThreshold - KeptTime(deck))
     /\ UNCHANGED <<nowPlaying, destroyed, listening, live>>

PlayStop(d) ==
  LET deck == decks[d]
      pauses == deck.state = "PLAYING"
      stopped == [timers EXCEPT ![d] = NoTimer]
  IN /\ deck.state \notin {"ABSENT", "EMPTY"}
     /\ deck.isPlaying
     /\ timers' = IF pauses THEN StartTimer(stopped, d, "grace", PauseGrace) ELSE stopped
     /\ switchTimer' = IF pauses /\ d = nowPlaying /\ ~destroyed
                         THEN NowPlayingPause ELSE switchTimer
     /\ decks' = [decks EXCEPT ![d] =
                    [deck EXCEPT !.state = IF pauses THEN "PLAYING" ELSE "LOADED",
                                 !.isPlaying = FALSE, !.playAge = Unset,
                                 !.accum = AtMost(AccumCap, deck.accum + deck.playAge),
                                 !.pauseAge = 0]]
     /\ UNCHANGED <<nowPlaying, destroyed, listening, live>>

UpdateFaderLevel(d, up) ==
  \E o \in GetDeckState(decks, d) :
    LET D == [o.decks EXCEPT ![d].faderUp = up]
        wasLow == ~o.decks[d].faderUp
    IN /\ timers' = o.timers
       /\ IF wasLow /\ up /\ D[d].state = "PLAYING"
            THEN CheckAndReport(D, d)
            ELSE /\ decks' = D
                 /\ nowPlaying' = o.nowPlaying
                 /\ switchTimer' = IF d = nowPlaying /\ ~up /\ ~wasLow /\ ~destroyed
                                     THEN NowPlayingPause ELSE switchTimer
                 /\ UNCHANGED live
       /\ UNCHANGED <<destroyed, listening>>

\* The old master is dropped before the new one is looked up, so a look-up
\* that throws leaves no master at all.
SetMasterDeck(d) ==
  LET unmastered == [e \in Decks |-> [decks[e] EXCEPT !.isMaster = FALSE]]
  IN /\ \/ \E o \in GetDeckState(unmastered, d) :
             LET D == [o.decks EXCEPT ![d].isMaster = TRUE]
             IN /\ timers' = o.timers
                /\ IF D[d].state = "PLAYING" /\ ~decks[d].isMaster
                     THEN CheckAndReport(D, d)
                     ELSE /\ decks' = D
                          /\ nowPlaying' = o.nowPlaying
                          /\ UNCHANGED <<switchTimer, live>>
        \/ /\ GetDeckState(unmastered, d) = {}
           /\ decks' = unmastered
           /\ UNCHANGED <<timers, nowPlaying, switchTimer, live>>
     /\ UNCHANGED <<destroyed, listening>>

-----------------------------------------------------------------------------
(* Timer callbacks *)

ThresholdReached(d) ==
  /\ timers[d] = [kind |-> "threshold", left |-> 0]
  /\ timers' = [timers EXCEPT ![d] = NoTimer]
  /\ IF decks[d].state = "CUEING" /\ decks[d].isPlaying
       THEN CheckAndReport([decks EXCEPT ![d].state = "PLAYING"], d)
       ELSE UNCHANGED <<decks, nowPlaying, switchTimer, live>>
  /\ UNCHANGED <<destroyed, listening>>

GracePeriodExpired(d) ==
  LET D == [decks EXCEPT ![d].state = "ENDED"]
  IN /\ timers[d] = [kind |-> "grace", left |-> 0]
     /\ timers' = [timers EXCEPT ![d] = NoTimer]
     /\ IF decks[d].state = "PLAYING" /\ ~decks[d].isPlaying
          THEN IF d = nowPlaying
                 THEN Scan(D)
                 ELSE decks' = D /\ UNCHANGED <<nowPlaying, switchTimer, live>>
          ELSE UNCHANGED <<decks, nowPlaying, switchTimer, live>>
     /\ UNCHANGED <<destroyed, listening>>

NowPlayingSwitchTimerExpired ==
  /\ switchTimer = 0
  /\ Scan(decks)
  /\ UNCHANGED <<timers, destroyed, listening>>

-----------------------------------------------------------------------------
(* Life cycle.  Neither call emits an event; the caller, PluginBridge, may emit *)
(* one of its own in the same handler, so live' is left to it.                 *)

Reset ==
  /\ decks' = [d \in Decks |-> AbsentDeck]
  /\ timers' = [d \in Decks |-> NoTimer]
  /\ switchTimer' = Unset
  /\ nowPlaying' = NoDeck
  /\ UNCHANGED <<destroyed, listening>>

Destroy ==
  /\ destroyed' = TRUE
  /\ listening' = FALSE
  /\ timers' = [d \in Decks |-> NoTimer]
  /\ switchTimer' = Unset
  /\ UNCHANGED <<decks, nowPlaying>>

-----------------------------------------------------------------------------
(* Time *)

Due == switchTimer = 0 \/ \E d \in Decks : timers[d].kind # "none" /\ timers[d].left = 0

Aged(deck) ==
  [deck EXCEPT !.playAge = Older(AccumCap, deck.playAge),
               !.pauseAge = Older(PauseCap, deck.pauseAge)]

Tick ==
  /\ ~Due
  /\ decks' = [d \in Decks |-> Aged(decks[d])]
  /\ timers' = [d \in Decks |-> IF timers[d].kind = "none" THEN NoTimer
                                ELSE [timers[d] EXCEPT !.left = @ - 1]]
  /\ switchTimer' = IF switchTimer = Unset THEN Unset ELSE switchTimer - 1
  /\ UNCHANGED <<nowPlaying, destroyed, listening, live>>

-----------------------------------------------------------------------------

Init ==
  /\ decks = [d \in Decks |-> AbsentDeck]
  /\ timers = [d \in Decks |-> NoTimer]
  /\ switchTimer = Unset
  /\ nowPlaying = NoDeck
  /\ destroyed = FALSE
  /\ listening = TRUE
  /\ live = NoLive

Fire(d) == ThresholdReached(d) \/ GracePeriodExpired(d)

DeckEvent(d) ==
  \/ UnloadTrack(d)
  \/ \E t \in Tracks : LoadTrack(d, t)
  \/ \E b \in BOOLEAN : PlayStateIgnored(d, b)
  \/ PlayStart(d)
  \/ PlayStop(d)
  \/ \E b \in BOOLEAN : UpdateFaderLevel(d, b)
  \/ SetMasterDeck(d)

Next ==
  \/ \E d \in Decks : DeckEvent(d) \/ Fire(d)
  \/ NowPlayingSwitchTimerExpired
  \/ Tick

\* setTimeout callbacks run once they are due.  Time diverges: only finitely many
\* calls fit between two ticks, so Tick, which a timer that is due holds up only
\* until it runs or is cancelled, is taken again and again.
Fairness ==
  /\ SF_vars(Tick)
  /\ WF_vars(NowPlayingSwitchTimerExpired)
  /\ \A d \in Decks : WF_vars(Fire(d))

Spec == Init /\ [][Next]_vars /\ Fairness
-----------------------------------------------------------------------------
(* Properties *)

\* Every variable keeps its type; a deck that plays knows since when.
TypeOK ==
  /\ decks \in [Decks -> DeckState]
  /\ \A d \in Decks : decks[d].isPlaying => decks[d].playAge # Unset
  /\ timers \in [Decks -> Timer]
  /\ switchTimer \in {Unset} \cup Nat
  /\ nowPlaying \in Decks \cup {NoDeck}
  /\ destroyed \in BOOLEAN
  /\ listening \in BOOLEAN
  /\ live \in [deck : Decks \cup {NoDeck}, track : Tracks \cup {NoTrack}]

\* The now-playing deck is in the map, in PLAYING, and has been reported: every
\* path that takes a deck out of PLAYING (load, unload, grace expiry, eviction)
\* also gives the now-playing role up (deck-state-manager.ts:97-114, 137, 156, 357).
NowPlayingIsReported ==
  nowPlaying # NoDeck =>
    decks[nowPlaying].state = "PLAYING" /\ decks[nowPlaying].hasBeenReported

\* What the last event told the listeners is what the manager believes: the
\* track of the now-playing deck, or nothing when there is none.  No path
\* drops the role without nowPlayingCleared, and none changes the track under
\* it without an event.
LiveIsNowPlaying ==
  live = IF nowPlaying = NoDeck THEN NoLive
         ELSE [deck |-> nowPlaying, track |-> decks[nowPlaying].track]

\* A deck that waits for something has a timer that will end the wait, and the
\* timer has exactly the missing time left: a CUEING deck what it lacks of the
\* live threshold, a paused PLAYING deck what remains of its grace period.
\* A timer is never left over from an earlier cue or an earlier pause.
WaitingDeckHasTimer ==
  \A d \in Decks : LET deck == decks[d] IN
    /\ deck.state = "CUEING" =>
         /\ timers[d].kind = "threshold"
         /\ timers[d].left + deck.accum + deck.playAge = LiveThreshold
    /\ deck.state = "PLAYING" /\ ~deck.isPlaying =>
         /\ timers[d].kind = "grace"
         /\ timers[d].left + deck.pauseAge = PauseGrace

\* The switch timer runs only while some deck is now playing, so that its expiry
\* never clears a display nobody holds.
SwitchTimerHasOwner == switchTimer # Unset => nowPlaying # NoDeck

\* At most one deck is master (setMasterDeck clears the others first).
SingleMaster ==
  \A d, e \in Decks : decks[d].isMaster /\ decks[e].isMaster => d = e

\* Whatever makes a deck satisfy every condition for being reported, or frees
\* the now-playing role, also reports an eligible deck at once: no step leaves a
\* newly eligible deck waiting while nothing is now playing.  The exceptions are
\* a deck that resumes from ENDED, which goes back to PLAYING without a check
\* (deck-state-manager.ts:209-238), and the loss of the master flag without a
\* successor (the master is evicted, or the look-up in setMasterDeck throws),
\* which makes the other decks eligible without a check.
EligibleDeckReported ==
  [][nowPlaying' = NoDeck =>
       \A d \in Decks : Reportable(decks', d) =>
         \/ Reportable(decks, d) /\ nowPlaying = NoDeck
         \/ decks[d].state = "ENDED"
         \/ HasMaster(decks) /\ ~HasMaster(decks')]_vars

\* The deck map never exceeds its capacity (MAX_DECKS).
CapacityRespected == Cardinality(Known(decks)) <= MaxDecks

\* A call for one more deck never takes a PLAYING deck out of the map to make room.
PlayingNeverEvicted ==
  [][\A d \in Decks : decks[d].state = "PLAYING" => decks'[d].state # "ABSENT"]_vars

\* A deck enters PLAYING from CUEING only when the play time accumulated over
\* pauses no longer than the grace period has reached the live threshold.
ThresholdHonoured ==
  [][\A d \in Decks :
       decks[d].state = "CUEING" /\ decks'[d].state = "PLAYING" =>
         decks[d].accum + decks[d].playAge >= LiveThreshold]_vars

\* The now-playing deck loses its role only by a load or unload on it, by the
\* end of its own grace period, or by the switch timer: never because another
\* deck reaches its threshold, raises its fader or becomes master.
PriorityHeld ==
  [][nowPlaying # NoDeck /\ nowPlaying' # nowPlaying =>
       \/ decks'[nowPlaying].state \in {"EMPTY", "LOADED", "CUEING"}
       \/ timers[nowPlaying] = [kind |-> "grace", left |-> 0]
       \/ switchTimer = 0]_vars

\* A now-playing deck that stays paused gives the role up in the end.
PausedDeckReleased ==
  \A d \in Decks :
    nowPlaying = d /\ ~decks[d].isPlaying ~> nowPlaying # d \/ decks[d].isPlaying

\* A cued deck that is left to play goes live: CUEING does not last.
CuedDeckDecides == \A d \in Decks : decks[d].state = "CUEING" ~> decks[d].state # "CUEING"

-----------------------------------------------------------------------------
(* What the repository says of this component and the code does not do *)

\* deck-state-manager.ts:387: "If the current now-playing deck's fader drops to
\* 0, start the switch timer.  This handles the common DJ fade-out transition
\* pattern": a deck faded out for good gives the role up.
FadedDeckReleased ==
  \A d \in Decks :
    nowPlaying = d /\ ~decks[d].faderUp ~> nowPlaying # d \/ decks[d].faderUp

=============================================================================

----------------------------- MODULE BridgeClient -----------------------------
(***************************************************************************)
(* How the bridge talks to the backend: bridge/src/bridge.ts (now-playing  *)
(* posts, clears, status posts, replay), circuit-breaker.ts, track-        *)
(* history-buffer.ts and command-poller.ts.                                *)
(*                                                                         *)
(* Every call is async and nothing serialises them: a post that is waiting *)
(* to retry, a clear, a status post, a command poll and a replay may all   *)
(* be in flight together.  A call in flight occupies a slot; one action is *)
(* what runs between two awaits.                                           *)
(*                                                                         *)
(* The backend is external here and is seen as the bridge sees it: an      *)
(* attempt may take effect or not, and its answer may be lost after it did *)
(* (NowPlaying.tla models what the backend does with it).                  *)
(*                                                                         *)
(* Abstracted: payloads are tracks; every duration.  An attempt may outlast *)
(* the breaker's cooldown: the 10 s of http-retry.ts end with the headers,  *)
(* and the body of an error is read without a limit.                       *)
(***************************************************************************)
EXTENDS Integers, Sequences

CONSTANTS
  Tracks, NoTrack,
  Slots,             \* slots for calls in flight
  Replays,           \* slots for replays in flight: a bound on how many overlap
  FailureThreshold,  \* failureThreshold (3)
  Capacity,          \* capacity of the track buffer (20)
  PostAttempts,      \* MAX_RETRIES + 1 (4)
  DeleteAttempts     \* DELETE_MAX_RETRIES + 1 (3)

ASSUME ClientAssumption ==
  /\ NoTrack \notin Tracks
  /\ Slots \cap Replays = {}
  /\ FailureThreshold \in Nat \ {0} /\ Capacity \in Nat \ {0}
  /\ PostAttempts \in Nat \ {0} /\ DeleteAttempts \in Nat \ {0}

VARIABLES
  breaker,    \* the CircuitBreaker
  buffer,     \* the TrackHistoryBuffer, oldest first
  calls,      \* slot -> the call in flight in it
  lastTrack,  \* lastTrackKey
  debounce,   \* less than minPlaySeconds since lastPostTime
  shown,      \* the track the backend shows for the event
  cleared     \* observer: the decks last asked for a clear, and a DELETE has succeeded since

clientVars == <<breaker, buffer, calls, lastTrack, debounce, shown, cleared>>

AllSlots == Slots \cup Replays

-----------------------------------------------------------------------------
(* The circuit breaker *)

BreakerType ==
  [state : {"CLOSED", "OPEN", "HALF_OPEN"}, failures : 0..FailureThreshold,
   probeInFlight : BOOLEAN, cooled : BOOLEAN]

ClosedBreaker == [state |-> "CLOSED", failures |-> 0, probeInFlight |-> FALSE, cooled |-> TRUE]

\* Mutant: a half-open breaker lets every request through.
AllowsHalfOpen(b) ==
  \/ b.state = "CLOSED"
  \/ b.state = "OPEN" /\ b.cooled
  \/ b.state = "HALF_OPEN"

\* allowRequest(): its answer, and the breaker it leaves when the answer is yes.
Allows(b) ==
  \/ b.state = "CLOSED"
  \/ b.state = "OPEN" /\ b.cooled
  \/ b.state = "HALF_OPEN" /\ ~b.probeInFlight

Allowed(b) ==
  IF b.state = "CLOSED" THEN b ELSE [b EXCEPT !.state = "HALF_OPEN", !.probeInFlight = TRUE]

RecordSuccess(b) ==
  [b EXCEPT !.state = "CLOSED", !.failures = 0, !.probeInFlight = FALSE]

\* Mutant: the breaker opens one failure too late.
RecordFailureLate(b) ==
  LET n == IF b.failures < FailureThreshold THEN b.failures + 1 ELSE b.failures
  IN [state |-> IF b.state = "CLOSED" /\ n <= FailureThreshold THEN "CLOSED" ELSE "OPEN",
      failures |-> n, probeInFlight |-> FALSE, cooled |-> FALSE]

\* The count is kept only up to the threshold, beyond which it tells nothing.
RecordFailure(b) ==
  LET n == IF b.failures < FailureThreshold THEN b.failures + 1 ELSE b.failures
  IN [state |-> IF b.state = "CLOSED" /\ n < FailureThreshold THEN "CLOSED" ELSE "OPEN",
      failures |-> n, probeInFlight |-> FALSE, cooled |-> FALSE]

-----------------------------------------------------------------------------
(* Calls in flight *)

Kinds == {"idle", "track", "replay", "status", "poll", "clear"}
Call == [kind : Kinds, track : Tracks \cup {NoTrack}, rest : Seq(Tracks),
         tries : Nat, waiting : BOOLEAN]

Idle == [kind |-> "idle", track |-> NoTrack, rest |-> <<>>, tries |-> 0, waiting |-> FALSE]

Send(kind, track, rest, tries) ==
  [kind |-> kind, track |-> track, rest |-> rest, tries |-> tries, waiting |-> FALSE]

InFlight == {c \in AllSlots : calls[c].kind # "idle"}
\* The calls that went through the breaker: a clear does not.
Counted == {c \in InFlight : calls[c].kind # "clear"}
Free(c) == c \in Slots /\ calls[c] = Idle

\* Mutants: the buffer grows past its capacity; a full buffer refuses the new track.
PushUnbounded(b, track) == Append(IF Len(b) <= Capacity THEN b ELSE Tail(b), track)
PushRefused(b, track) == IF Len(b) < Capacity THEN Append(b, track) ELSE b

\* TrackHistoryBuffer.push: the oldest track makes room.
Push(b, track) == Append(IF Len(b) < Capacity THEN b ELSE Tail(b), track)

\* The first attempt of a post, when the breaker lets it through.
StartPost(c, kind, track) ==
  /\ Allows(breaker)
  /\ breaker' = Allowed(breaker)
  /\ calls' = [calls EXCEPT ![c] = Send(kind, track, <<>>, PostAttempts)]

-----------------------------------------------------------------------------
(* What the decks and the timers start *)

\* deckLive: dropped when it repeats the last track or comes too soon after it;
\* otherwise remembered as the last track, before it is posted, and posted.
DeckLive(c, track) ==
  /\ Free(c)
  /\ cleared' = FALSE
  /\ IF track = lastTrack \/ debounce
       THEN UNCHANGED <<breaker, buffer, calls, lastTrack, debounce>>
       ELSE /\ lastTrack' = track
            /\ debounce' = TRUE
            /\ \/ StartPost(c, "track", track) /\ UNCHANGED buffer
               \/ /\ ~Allows(breaker)
                  /\ buffer' = Push(buffer, track)
                  /\ UNCHANGED <<breaker, calls>>
  /\ UNCHANGED shown

\* clearNowPlaying goes out whatever the breaker says, and touches neither the
\* last track nor the buffer.
ClearNowPlaying(c) ==
  /\ Free(c)
  /\ cleared' = FALSE
  /\ calls' = [calls EXCEPT ![c] = Send("clear", NoTrack, <<>>, DeleteAttempts)]
  /\ UNCHANGED <<breaker, buffer, lastTrack, debounce, shown>>

\* Heartbeat and connection changes; nothing is kept of one that is skipped.
PostBridgeStatus(c) ==
  /\ Free(c)
  /\ StartPost(c, "status", NoTrack)
  /\ UNCHANGED <<buffer, lastTrack, debounce, shown, cleared>>

\* CommandPoller.poll: one attempt, behind the same breaker.
Poll(c) ==
  /\ Free(c)
  /\ Allows(breaker)
  /\ breaker' = Allowed(breaker)
  /\ calls' = [calls EXCEPT ![c] = Send("poll", NoTrack, <<>>, 1)]
  /\ UNCHANGED <<buffer, lastTrack, debounce, shown, cleared>>

-----------------------------------------------------------------------------
(* Attempts *)

\* What an attempt does to the display when it takes effect; a replayed track
\* counts like any other, `delayed' or not.
Effect(call) ==
  CASE call.kind \in {"track", "replay"} -> call.track
    [] call.kind = "clear" -> NoTrack
    [] OTHER -> shown

Answering(c) == calls[c].kind # "idle" /\ ~calls[c].waiting

\* A post or poll is answered.  A replay goes on with its next track.  The
\* breaker hears of it, and if that closes it the buffer is drained into a new
\* replay, whose first post goes out at once.
PostSucceeds(c) ==
  LET call == calls[c]
      next == IF call.rest = <<>> THEN Idle
              ELSE Send("replay", Head(call.rest), Tail(call.rest), PostAttempts)
      drains == breaker.state # "CLOSED" /\ buffer # <<>>
  IN /\ Answering(c) /\ call.kind # "clear"
     /\ shown' = Effect(call)
     /\ breaker' = RecordSuccess(breaker)
     /\ \/ /\ ~drains
           /\ calls' = [calls EXCEPT ![c] = next]
           /\ UNCHANGED buffer
        \/ /\ drains
           /\ \E r \in Replays :
                /\ calls[r] = Idle
                /\ calls' = [calls EXCEPT ![c] = next,
                               ![r] = Send("replay", Head(buffer), Tail(buffer), PostAttempts)]
           /\ buffer' = <<>>
     /\ UNCHANGED <<lastTrack, debounce, cleared>>

ClearSucceeds(c) ==
  /\ Answering(c) /\ calls[c].kind = "clear"
  /\ shown' = NoTrack
  /\ calls' = [calls EXCEPT ![c] = Idle]
  /\ cleared' = TRUE
  /\ UNCHANGED <<breaker, buffer, lastTrack, debounce>>

\* The buffer after the last attempt of a call has failed.
Rebuffered(call) == IF call.kind = "track" THEN Push(buffer, call.track) ELSE buffer

\* An attempt fails, or takes effect and its answer is lost.  A call with tries
\* left waits to retry.  At the last one the breaker hears of a failed post, but
\* not of a failed poll; a live track goes to the buffer, a replay is given up
\* with all that it had drained.
AttemptFails(c) ==
  LET call == calls[c]
      posts == call.kind \in {"track", "replay", "status"}
  IN /\ Answering(c)
     /\ shown' \in {shown, Effect(call)}
     /\ IF call.tries > 1
          THEN /\ calls' = [calls EXCEPT ![c].waiting = TRUE, ![c].tries = @ - 1]
               /\ UNCHANGED <<breaker, buffer>>
          ELSE /\ calls' = [calls EXCEPT ![c] = Idle]
               /\ breaker' = IF posts THEN RecordFailure(breaker) ELSE breaker
               /\ buffer' = Rebuffered(call)
     /\ UNCHANGED <<lastTrack, debounce, cleared>>

Retry(c) ==
  /\ calls[c].waiting
  /\ calls' = [calls EXCEPT ![c].waiting = FALSE]
  /\ UNCHANGED <<breaker, buffer, lastTrack, debounce, shown, cleared>>

DebounceOver ==
  /\ debounce
  /\ debounce' = FALSE
  /\ UNCHANGED <<breaker, buffer, calls, lastTrack, shown, cleared>>

\* cooldownMs since lastFailureTime, whatever calls are still under way.
CooldownElapses ==
  /\ breaker.state = "OPEN" /\ ~breaker.cooled
  /\ breaker' = [breaker EXCEPT !.cooled = TRUE]
  /\ UNCHANGED <<buffer, calls, lastTrack, debounce, shown, cleared>>

-----------------------------------------------------------------------------

ClientInit ==
  /\ breaker = ClosedBreaker
  /\ buffer = <<>>
  /\ calls = [c \in AllSlots |-> Idle]
  /\ lastTrack = NoTrack
  /\ debounce = FALSE
  /\ shown = NoTrack
  /\ cleared = FALSE

Answer(c) == PostSucceeds(c) \/ ClearSucceeds(c) \/ AttemptFails(c) \/ Retry(c)

ClientNext ==
  \/ \E c \in Slots :
       \/ \E t \in Tracks : DeckLive(c, t)
       \/ ClearNowPlaying(c) \/ PostBridgeStatus(c) \/ Poll(c)
  \/ \E c \in AllSlots : Answer(c)
  \/ DebounceOver
  \/ CooldownElapses

\* Attempts end (one without headers is aborted after 10 s, and a body that is
\* being read ends or breaks off) and are retried, the cooldown and the debounce run
\* out, and heartbeats and polls keep coming.
ClientFairness ==
  /\ \A c \in AllSlots : WF_clientVars(Answer(c))
  /\ WF_clientVars(DebounceOver)
  /\ WF_clientVars(CooldownElapses)
  /\ SF_clientVars(\E c \in Slots : PostBridgeStatus(c))
  /\ SF_clientVars(\E c \in Slots : Poll(c))

ClientSpec == ClientInit /\ [][ClientNext]_clientVars /\ ClientFairness

-----------------------------------------------------------------------------
(* Properties *)

\* State is of its types; the buffer stays within its capacity however many calls
\* fail together.
ClientTypeOK ==
  /\ breaker \in BreakerType
  /\ buffer \in Seq(Tracks) /\ Len(buffer) <= Capacity
  /\ calls \in [AllSlots -> Call]
  /\ lastTrack \in Tracks \cup {NoTrack} /\ shown \in Tracks \cup {NoTrack}
  /\ debounce \in BOOLEAN /\ cleared \in BOOLEAN

\* The breaker is closed only below the failure threshold, and it waits for a probe
\* exactly while it is half open: late answers to calls sent before it opened, or to
\* an earlier probe, move it to another state but never leave it in between.
BreakerConsistent ==
  /\ breaker.state = "CLOSED" => breaker.failures < FailureThreshold
  /\ breaker.probeInFlight <=> breaker.state = "HALF_OPEN"

\* circuit-breaker.ts:64: "In HALF_OPEN state, only one probe request is allowed at
\* a time."  While the breaker is not closed a call starts only as the first one
\* after a cooldown, and the breaker waits for it; calls sent before it opened, and
\* a probe whose verdict a late failure has anticipated, may be under way beside it.
OneProbePerCooldown ==
  [][breaker.state # "CLOSED" /\ breaker'.state # "CLOSED" /\ ~(Counted' \subseteq Counted)
       => breaker.state = "OPEN" /\ breaker.cooled /\ breaker'.probeInFlight]_clientVars

\* The tracks the bridge still has to deliver.
Pending ==
  {buffer[i] : i \in DOMAIN buffer}
    \cup {calls[c].track : c \in {x \in AllSlots : calls[x].kind \in {"track", "replay"}}}
    \cup UNION {{calls[c].rest[i] : i \in DOMAIN calls[c].rest} : c \in AllSlots}

ReplayEnds(r) == calls[r].kind = "replay" /\ calls'[r].kind = "idle"

\* A track the bridge has accepted is in flight or buffered until the backend
\* shows it, whichever way posts fail, the breaker opens or replays overlap; it is
\* dropped only as the oldest of a full buffer, or with a replay given up.
NoTrackVanishes ==
  [][/\ lastTrack' # lastTrack => lastTrack' \in Pending'
     /\ \A t \in Pending \ Pending' :
          \/ shown' = t
          \/ Len(buffer) = Capacity /\ buffer[1] = t
          \/ \E r \in Replays : ReplayEnds(r)]_clientVars

\* circuit-breaker.ts:12-13: "HALF_OPEN -> CLOSED: probe request succeeds", "HALF_
\* OPEN -> OPEN: probe request fails (resets cooldown)".  As attempts always end,
\* the breaker does not stay half open.
ProbeIsDecided == breaker.state = "HALF_OPEN" ~> breaker.state # "HALF_OPEN"

\* bridge.ts:209: clearNowPlaying is the "authoritative clear on disconnect/
\* shutdown".  When it has succeeded, nothing has gone live since and no call is
\* under way, the backend shows nothing.
ClearIsAuthoritative == cleared /\ InFlight = {} => shown = NoTrack
=============================================================================

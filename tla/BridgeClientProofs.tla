-------------------------- MODULE BridgeClientProofs --------------------------
(* The breaker stays consistent and no track is lost, for any number of calls *)
(* in flight, any threshold, capacity and number of attempts.                 *)
EXTENDS BridgeClient, TLAPS

\* Tracks are posted and replayed; only a replay has more to deliver.
CallInv ==
  \A c \in AllSlots :
    /\ calls[c].kind \in {"track", "replay"} => calls[c].track \in Tracks
    /\ calls[c].rest # <<>> => calls[c].kind = "replay"
    /\ calls[c].kind = "replay" => c \in Replays

ClientInv == ClientTypeOK /\ CallInv /\ BreakerConsistent

-------------------------------------------------------------------------------
(* Sequences of tracks *)

\* What a full buffer drops to take a new track is its oldest.
LEMMA PushKeeps ==
  ASSUME NEW b \in Seq(Tracks), Len(b) <= Capacity, NEW track \in Tracks
  PROVE  /\ Push(b, track) \in Seq(Tracks) /\ Len(Push(b, track)) <= Capacity
         /\ \E j \in DOMAIN Push(b, track) : Push(b, track)[j] = track
         /\ \A i \in DOMAIN b :
              \/ \E j \in DOMAIN Push(b, track) : Push(b, track)[j] = b[i]
              \/ Len(b) = Capacity /\ i = 1
<1>1. CASE Len(b) < Capacity
  <2>1. Push(b, track) = Append(b, track)
    BY <1>1 DEF Push
  <2>2. /\ Append(b, track) \in Seq(Tracks) /\ Len(Append(b, track)) = Len(b) + 1
        /\ DOMAIN Append(b, track) = 1..(Len(b) + 1)
        /\ Append(b, track)[Len(b) + 1] = track
        /\ \A i \in DOMAIN b : i \in 1..Len(b) /\ Append(b, track)[i] = b[i]
    OBVIOUS
  <2>3. QED
    BY <1>1, <2>1, <2>2, ClientAssumption
<1>2. CASE Len(b) = Capacity
  <2> DEFINE p == Append(Tail(b), track)
  <2>1. Push(b, track) = p
    BY <1>2 DEF Push
  <2>2. b # <<>> /\ Len(b) \in Nat \ {0}
    BY <1>2, ClientAssumption
  <2>3. /\ Tail(b) \in Seq(Tracks) /\ Len(Tail(b)) = Len(b) - 1
        /\ \A i \in 1..(Len(b) - 1) : Tail(b)[i] = b[i + 1]
    BY <2>2
  <2> DEFINE u == Tail(b)
  <2>4. u \in Seq(Tracks) /\ Len(u) = Len(b) - 1
    BY <2>3
  <2> HIDE DEF u
  <2>5. /\ Append(u, track) \in Seq(Tracks) /\ Len(Append(u, track)) = Len(u) + 1
        /\ DOMAIN Append(u, track) = 1..(Len(u) + 1)
        /\ Append(u, track)[Len(u) + 1] = track
        /\ \A i \in 1..Len(u) : Append(u, track)[i] = u[i]
    BY <2>4
  <2>6. /\ p \in Seq(Tracks) /\ Len(p) = Len(b) /\ DOMAIN p = 1..Len(b) /\ p[Len(b)] = track
        /\ \A i \in 1..(Len(b) - 1) : p[i] = b[i + 1]
    BY <2>2, <2>3, <2>4, <2>5 DEF u
  <2> HIDE DEF p
  <2>7. ASSUME NEW i \in DOMAIN b, i # 1
        PROVE  \E j \in DOMAIN p : p[j] = b[i]
    <3>1. i - 1 \in 1..(Len(b) - 1) /\ (i - 1) + 1 = i
      BY <2>2, <2>7
    <3>2. p[i - 1] = b[i] /\ i - 1 \in DOMAIN p
      BY <2>2, <2>6, <3>1
    <3>3. QED
      BY <3>2
  <2>8. QED
    BY <1>2, <2>1, <2>2, <2>6, <2>7
<1>3. QED
  BY <1>1, <1>2, ClientAssumption

\* A replay posts the first track and keeps the others.
LEMMA HeadAndTail ==
  ASSUME NEW b \in Seq(Tracks), b # <<>>
  PROVE  /\ Head(b) \in Tracks /\ Tail(b) \in Seq(Tracks)
         /\ \A i \in DOMAIN b : b[i] = Head(b) \/ \E j \in DOMAIN Tail(b) : Tail(b)[j] = b[i]
<1>1. /\ Head(b) \in Tracks /\ Tail(b) \in Seq(Tracks) /\ Len(b) \in Nat \ {0} /\ Head(b) = b[1]
      /\ DOMAIN b = 1..Len(b) /\ DOMAIN Tail(b) = 1..(Len(b) - 1)
      /\ \A j \in 1..(Len(b) - 1) : Tail(b)[j] = b[j + 1]
  OBVIOUS
<1>2. ASSUME NEW i \in DOMAIN b, i # 1
      PROVE  \E j \in DOMAIN Tail(b) : Tail(b)[j] = b[i]
  <2>1. i - 1 \in 1..(Len(b) - 1) /\ (i - 1) + 1 = i
    BY <1>1, <1>2
  <2>2. QED
    BY <1>1, <2>1
<1>3. QED
  BY <1>1, <1>2

-------------------------------------------------------------------------------
(* The breaker *)

\* What each operator of the breaker does to its state and its count
LEMMA BreakerOperators ==
  ASSUME NEW b \in BreakerType
  PROVE  /\ Allows(b) => /\ Allowed(b) \in BreakerType
                         /\ b.state = "CLOSED" => Allowed(b) = b
                         /\ b.state # "CLOSED" =>
                              Allowed(b).state = "HALF_OPEN" /\ Allowed(b).probeInFlight
         /\ /\ RecordSuccess(b) \in BreakerType
            /\ RecordSuccess(b).state = "CLOSED" /\ RecordSuccess(b).failures = 0
            /\ ~RecordSuccess(b).probeInFlight
         /\ /\ RecordFailure(b) \in BreakerType
            /\ RecordFailure(b).state = "CLOSED" => RecordFailure(b).failures < FailureThreshold
            /\ RecordFailure(b).state # "HALF_OPEN"
            /\ ~RecordFailure(b).probeInFlight /\ ~RecordFailure(b).cooled
<1>1. Allows(b) => /\ Allowed(b) \in BreakerType
                   /\ b.state = "CLOSED" => Allowed(b) = b
                   /\ b.state # "CLOSED" => Allowed(b).state = "HALF_OPEN" /\ Allowed(b).probeInFlight
  BY DEF BreakerType, Allowed
<1>2. /\ RecordSuccess(b) \in BreakerType
      /\ RecordSuccess(b).state = "CLOSED" /\ RecordSuccess(b).failures = 0
      /\ ~RecordSuccess(b).probeInFlight
  <2>1. RecordSuccess(b) \in BreakerType
    <3>1. 0 \in 0..FailureThreshold
      BY ClientAssumption
    <3>2. QED
      BY <3>1 DEF BreakerType, RecordSuccess
  <2>2. RecordSuccess(b).state = "CLOSED" /\ RecordSuccess(b).failures = 0
    BY DEF BreakerType, RecordSuccess
  <2>3. RecordSuccess(b).probeInFlight = FALSE
    BY DEF BreakerType, RecordSuccess
  <2>4. QED
    BY <2>1, <2>2, <2>3
<1>3. /\ RecordFailure(b) \in BreakerType
      /\ RecordFailure(b).state = "CLOSED" => RecordFailure(b).failures < FailureThreshold
      /\ RecordFailure(b).state # "HALF_OPEN"
      /\ ~RecordFailure(b).probeInFlight /\ ~RecordFailure(b).cooled
  <2> DEFINE n == IF b.failures < FailureThreshold THEN b.failures + 1 ELSE b.failures
  <2>1. n \in 0..FailureThreshold
    BY ClientAssumption DEF BreakerType
  <2>2. n < FailureThreshold \/ ~(n < FailureThreshold)
    OBVIOUS
  <2> HIDE DEF n
  <2>3. RecordFailure(b) =
          [state |-> IF b.state = "CLOSED" /\ n < FailureThreshold THEN "CLOSED" ELSE "OPEN",
           failures |-> n, probeInFlight |-> FALSE, cooled |-> FALSE]
    BY DEF RecordFailure, n
  <2>4. QED
    BY <2>1, <2>3 DEF BreakerType
<1>4. QED
  BY <1>1, <1>2, <1>3

-------------------------------------------------------------------------------
(* Calls *)

SafeCall(c, call) ==
  /\ call \in Call
  /\ call.kind \in {"track", "replay"} => call.track \in Tracks
  /\ call.rest # <<>> => call.kind = "replay"
  /\ call.kind = "replay" => c \in Replays

\* CallInv in terms of one call at a time
LEMMA CallsAreSafe ==
  ASSUME ClientInv, NEW c \in AllSlots
  PROVE  SafeCall(c, calls[c])
BY DEF ClientInv, ClientTypeOK, CallInv, SafeCall

\* A free slot carries nothing.
LEMMA IdleIsSafe ==
  ASSUME NEW c
  PROVE  SafeCall(c, Idle) /\ Idle.kind = "idle"
BY DEF SafeCall, Idle, Call, Kinds

\* A call that is sent carries what it was given.
LEMMA SendIsSafe ==
  ASSUME NEW c, NEW kind \in Kinds, NEW track \in Tracks \cup {NoTrack}, NEW rest \in Seq(Tracks),
         NEW tries \in Nat,
         kind \in {"track", "replay"} => track \in Tracks,
         rest # <<>> => kind = "replay", kind = "replay" => c \in Replays
  PROVE  /\ SafeCall(c, Send(kind, track, rest, tries))
         /\ Send(kind, track, rest, tries).kind = kind
         /\ Send(kind, track, rest, tries).track = track
         /\ Send(kind, track, rest, tries).rest = rest
BY DEF SafeCall, Send, Call

\* A step that changes one call keeps the others as they were.
LEMMA OneCallChanges ==
  ASSUME ClientInv, NEW c \in AllSlots, NEW call, SafeCall(c, call),
         calls' = [calls EXCEPT ![c] = call]
  PROVE  /\ calls' \in [AllSlots -> Call] /\ CallInv'
         /\ calls'[c] = call /\ \A d \in AllSlots \ {c} : calls'[d] = calls[d]
         /\ Counted' = (Counted \ {c}) \cup (IF call.kind \in {"idle", "clear"} THEN {} ELSE {c})
<1>1. calls \in [AllSlots -> Call]
  BY DEF ClientInv, ClientTypeOK
<1>2. /\ calls' \in [AllSlots -> Call]
      /\ calls'[c] = call /\ \A d \in AllSlots \ {c} : calls'[d] = calls[d]
  BY <1>1 DEF SafeCall
<1>3. CallInv'
  BY <1>2 DEF ClientInv, CallInv, SafeCall
<1>4. Counted' = (Counted \ {c}) \cup (IF call.kind \in {"idle", "clear"} THEN {} ELSE {c})
  BY <1>2 DEF Counted, InFlight
<1>5. QED
  BY <1>2, <1>3, <1>4

\* What OneProbePerCooldown says of a step: a counted call that starts beside a
\* breaker that is not closed is its probe.
Probes ==
  breaker.state # "CLOSED" /\ breaker'.state # "CLOSED" /\ ~(Counted' \subseteq Counted)
    => breaker.state = "OPEN" /\ breaker.cooled /\ breaker'.probeInFlight

\* Letting a call through.
LEMMA StartPostKeeps ==
  ASSUME ClientInv, NEW c \in Slots, calls[c] = Idle, NEW call, SafeCall(c, call),
         call.kind \notin {"idle", "clear"},
         Allows(breaker), breaker' = Allowed(breaker), calls' = [calls EXCEPT ![c] = call],
         buffer' \in Seq(Tracks), Len(buffer') <= Capacity, lastTrack' \in Tracks \cup {NoTrack},
         debounce' \in BOOLEAN, cleared' \in BOOLEAN, UNCHANGED shown
  PROVE  ClientInv' /\ Probes
<1>1. c \in AllSlots /\ breaker \in BreakerType /\ BreakerConsistent
  BY DEF AllSlots, ClientInv, ClientTypeOK
<1>2. Counted' = Counted \cup {c} /\ CallInv' /\ calls' \in [AllSlots -> Call]
  BY <1>1, OneCallChanges
<1>3. breaker' \in BreakerType
  BY <1>1, BreakerOperators
<1>4. BreakerConsistent' /\ Probes
  <2>1. CASE breaker.state = "CLOSED"
    BY <1>1, <2>1, BreakerOperators DEF BreakerConsistent, Probes
  <2>2. CASE breaker.state # "CLOSED"
    <3>1. breaker.state = "OPEN" /\ breaker.cooled
      BY <1>1, <2>2 DEF BreakerConsistent, Allows, BreakerType
    <3>2. breaker'.state = "HALF_OPEN" /\ breaker'.probeInFlight
      BY <1>1, <2>2, BreakerOperators
    <3>3. QED
      BY <3>1, <3>2 DEF BreakerConsistent, Probes
  <2>3. QED
    BY <2>1, <2>2
<1>5. ClientTypeOK'
  BY <1>2, <1>3 DEF ClientInv, ClientTypeOK
<1>6. QED
  BY <1>2, <1>4, <1>5 DEF ClientInv

\* A live deck starts a post, or its track goes to the buffer; both keep ClientInv.
LEMMA DeckLiveKeeps ==
  ASSUME ClientInv, NEW c \in Slots, NEW track \in Tracks, DeckLive(c, track)
  PROVE  ClientInv' /\ Probes
<1>1. /\ c \in AllSlots /\ calls[c] = Idle /\ cleared' = FALSE /\ shown' = shown
      /\ buffer \in Seq(Tracks) /\ Len(buffer) <= Capacity /\ ClientTypeOK
  BY DEF DeckLive, Free, AllSlots, ClientInv, ClientTypeOK
<1>2. CASE UNCHANGED <<breaker, buffer, calls, lastTrack, debounce>>
  BY <1>1, <1>2 DEF ClientInv, ClientTypeOK, CallInv, BreakerConsistent, Counted, InFlight, Probes
<1>3. CASE /\ lastTrack' = track /\ debounce' = TRUE
           /\ StartPost(c, "track", track) /\ UNCHANGED buffer
  <2>1. SafeCall(c, Send("track", track, <<>>, PostAttempts))
        /\ Send("track", track, <<>>, PostAttempts).kind = "track"
    <3>1. PostAttempts \in Nat /\ <<>> \in Seq(Tracks)
      BY ClientAssumption
    <3>2. QED
      BY <3>1 DEF SafeCall, Send, Call, Kinds
  <2>2. QED
    BY <1>1, <1>3, <2>1, StartPostKeeps DEF StartPost
<1>4. CASE /\ lastTrack' = track /\ debounce' = TRUE
           /\ buffer' = Push(buffer, track) /\ UNCHANGED <<breaker, calls>>
  <2>1. ClientTypeOK'
    BY <1>1, <1>4, PushKeeps DEF ClientTypeOK
  <2>2. QED
    BY <1>4, <2>1 DEF ClientInv, CallInv, BreakerConsistent, Counted, InFlight, Probes
<1>5. QED
  BY <1>2, <1>3, <1>4 DEF DeckLive

\* A clear starts a call that carries no track.
LEMMA ClearNowPlayingKeeps ==
  ASSUME ClientInv, NEW c \in Slots, ClearNowPlaying(c)
  PROVE  ClientInv' /\ Probes
<1> DEFINE call == Send("clear", NoTrack, <<>>, DeleteAttempts)
<1>1. SafeCall(c, call) /\ call.kind = "clear"
  <2>1. DeleteAttempts \in Nat /\ <<>> \in Seq(Tracks)
    BY ClientAssumption
  <2>2. QED
    BY <2>1 DEF SafeCall, Send, Call, Kinds
<1> HIDE DEF call
<1>2. /\ c \in AllSlots /\ calls' = [calls EXCEPT ![c] = call] /\ cleared' = FALSE
      /\ UNCHANGED <<breaker, buffer, lastTrack, debounce, shown>>
  BY DEF ClearNowPlaying, AllSlots, call
<1>3. calls' \in [AllSlots -> Call] /\ CallInv' /\ Counted' \subseteq Counted
  BY <1>1, <1>2, OneCallChanges
<1>4. ClientTypeOK'
  BY <1>2, <1>3 DEF ClientInv, ClientTypeOK
<1>5. QED
  BY <1>2, <1>3, <1>4 DEF ClientInv, BreakerConsistent, Probes

\* So do the status report and the command poll, which carry no track.
LEMMA StatusAndPollKeep ==
  ASSUME ClientInv, NEW c \in Slots, PostBridgeStatus(c) \/ Poll(c)
  PROVE  ClientInv' /\ Probes
<1>1. PICK kind \in {"status", "poll"}, tries \in {1, PostAttempts} :
        calls' = [calls EXCEPT ![c] = Send(kind, NoTrack, <<>>, tries)]
  BY DEF PostBridgeStatus, Poll, StartPost
<1> DEFINE call == Send(kind, NoTrack, <<>>, tries)
<1>2. SafeCall(c, call) /\ call.kind = kind
  <2>1. tries \in Nat /\ <<>> \in Seq(Tracks)
    BY ClientAssumption
  <2>2. QED
    BY <2>1 DEF SafeCall, Send, Call, Kinds
<1> HIDE DEF call
<1>3. /\ calls[c] = Idle /\ calls' = [calls EXCEPT ![c] = call]
      /\ Allows(breaker) /\ breaker' = Allowed(breaker)
      /\ UNCHANGED <<buffer, lastTrack, debounce, shown, cleared>>
  BY <1>1 DEF PostBridgeStatus, Poll, StartPost, Free, call
<1>4. QED
  BY <1>2, <1>3, StartPostKeeps DEF ClientInv, ClientTypeOK

-------------------------------------------------------------------------------
(* Answers *)

\* What is shown is always a track that was posted, or nothing.
LEMMA EffectType ==
  ASSUME ClientInv, NEW c \in AllSlots
  PROVE  Effect(calls[c]) \in Tracks \cup {NoTrack}
BY CallsAreSafe DEF ClientInv, ClientTypeOK, SafeCall, Effect

\* What follows in the slot of a call that has been answered.
NextCall(call) ==
  IF call.rest = <<>> THEN Idle ELSE Send("replay", Head(call.rest), Tail(call.rest), PostAttempts)

\* A replay goes on with the rest of its own tracks.
LEMMA NextCallIsSafe ==
  ASSUME ClientInv, NEW c \in AllSlots
  PROVE  SafeCall(c, NextCall(calls[c]))
<1>1. SafeCall(c, calls[c]) /\ calls[c].rest \in Seq(Tracks)
  BY CallsAreSafe DEF SafeCall, Call
<1>2. CASE calls[c].rest = <<>>
  BY <1>2, IdleIsSafe DEF NextCall
<1>3. CASE calls[c].rest # <<>>
  <2>1. Head(calls[c].rest) \in Tracks /\ Tail(calls[c].rest) \in Seq(Tracks) /\ c \in Replays
    BY <1>1, <1>3, HeadAndTail DEF SafeCall
  <2>2. QED
    BY <1>3, <2>1, ClientAssumption, SendIsSafe DEF NextCall, Kinds
<1>4. QED
  BY <1>2, <1>3

\* The replay that a closing breaker starts.
Drained == Send("replay", Head(buffer), Tail(buffer), PostAttempts)

\* A post that succeeds ends its call, starts a replay, or goes on with one.
LEMMA PostSucceedsCases ==
  ASSUME ClientInv, NEW c \in AllSlots, PostSucceeds(c)
  PROVE  \/ calls' = [calls EXCEPT ![c] = NextCall(calls[c])] /\ UNCHANGED buffer
         \/ /\ buffer # <<>> /\ buffer' = <<>>
            /\ \E r \in Replays : /\ calls[r] = Idle /\ r # c
                                  /\ calls' = [calls EXCEPT ![c] = NextCall(calls[c]), ![r] = Drained]
BY IdleIsSafe DEF PostSucceeds, NextCall, Drained, Answering

\* It keeps ClientInv.
LEMMA PostSucceedsKeeps ==
  ASSUME ClientInv, NEW c \in AllSlots, PostSucceeds(c)
  PROVE  ClientInv' /\ Probes
<1> DEFINE next == NextCall(calls[c])
<1>1. SafeCall(c, next)
  BY NextCallIsSafe
<1>2. /\ shown' \in Tracks \cup {NoTrack} /\ breaker' = RecordSuccess(breaker)
      /\ UNCHANGED <<lastTrack, debounce, cleared>> /\ ClientTypeOK
  BY EffectType DEF PostSucceeds, ClientInv
<1>3. breaker' \in BreakerType /\ BreakerConsistent' /\ Probes
  BY <1>2, BreakerOperators, ClientAssumption DEF ClientTypeOK, BreakerConsistent, Probes
<1> HIDE DEF next
<1>4. CASE calls' = [calls EXCEPT ![c] = next] /\ UNCHANGED buffer
  <2>1. calls' \in [AllSlots -> Call] /\ CallInv'
    BY <1>1, <1>4, OneCallChanges
  <2>2. QED
    BY <1>2, <1>3, <1>4, <2>1 DEF ClientInv, ClientTypeOK
<1>5. ASSUME buffer # <<>>, buffer' = <<>>, NEW r \in Replays, r # c,
             calls' = [calls EXCEPT ![c] = next, ![r] = Drained]
      PROVE  ClientInv' /\ Probes
  <2>1. SafeCall(r, Drained)
    <3>1. Head(buffer) \in Tracks /\ Tail(buffer) \in Seq(Tracks)
      BY <1>2, <1>5, HeadAndTail DEF ClientTypeOK
    <3>2. QED
      BY <3>1, ClientAssumption, SendIsSafe DEF Drained, Kinds
  <2>2. /\ r \in AllSlots /\ calls' \in [AllSlots -> Call] /\ calls'[c] = next /\ calls'[r] = Drained
        /\ \A d \in AllSlots \ {c, r} : calls'[d] = calls[d]
    BY <1>1, <1>2, <1>5, <2>1 DEF ClientTypeOK, SafeCall, AllSlots
  <2>3. CallInv'
    BY <1>1, <2>1, <2>2 DEF ClientInv, CallInv, SafeCall
  <2>4. buffer' \in Seq(Tracks) /\ Len(buffer') <= Capacity
    BY <1>5, ClientAssumption
  <2>5. QED
    BY <1>2, <1>3, <2>2, <2>3, <2>4 DEF ClientInv, ClientTypeOK
<1>6. QED
  BY <1>4, <1>5, PostSucceedsCases DEF next

\* So does a clear that succeeds.
LEMMA ClearSucceedsKeeps ==
  ASSUME ClientInv, NEW c \in AllSlots, ClearSucceeds(c)
  PROVE  ClientInv' /\ Probes
<1>1. /\ calls' = [calls EXCEPT ![c] = Idle] /\ shown' = NoTrack /\ cleared' = TRUE
      /\ UNCHANGED <<breaker, buffer, lastTrack, debounce>>
  BY DEF ClearSucceeds
<1>2. calls' \in [AllSlots -> Call] /\ CallInv' /\ Counted' \subseteq Counted
  <2>1. SafeCall(c, Idle) /\ Idle.kind = "idle"
    BY IdleIsSafe
  <2>2. QED
    BY <1>1, <2>1, OneCallChanges
<1>3. ClientTypeOK'
  BY <1>1, <1>2 DEF ClientInv, ClientTypeOK
<1>4. QED
  BY <1>1, <1>2, <1>3 DEF ClientInv, BreakerConsistent, Probes

\* A call that goes on waiting, or tries again, is the same call.
LEMMA SameCall ==
  ASSUME ClientInv, NEW c \in AllSlots, NEW waiting \in BOOLEAN, NEW tries \in Nat,
         NEW call, call = [calls[c] EXCEPT !.waiting = waiting, !.tries = tries]
  PROVE  /\ SafeCall(c, call) /\ call.kind = calls[c].kind
         /\ call.track = calls[c].track /\ call.rest = calls[c].rest
<1>1. calls[c] \in Call /\ SafeCall(c, calls[c])
  BY CallsAreSafe DEF SafeCall
<1>2. /\ call \in Call /\ call.kind = calls[c].kind
      /\ call.track = calls[c].track /\ call.rest = calls[c].rest
  BY <1>1 DEF Call
<1>3. QED
  BY <1>1, <1>2 DEF SafeCall

\* A failed attempt is retried, or it is counted once and its track is kept.
LEMMA AttemptFailsKeeps ==
  ASSUME ClientInv, NEW c \in AllSlots, AttemptFails(c)
  PROVE  ClientInv' /\ Probes
<1>1. /\ shown' \in Tracks \cup {NoTrack} /\ UNCHANGED <<lastTrack, debounce, cleared>>
      /\ ClientTypeOK /\ calls[c] \in Call /\ SafeCall(c, calls[c]) /\ calls[c].kind # "idle"
  BY EffectType, CallsAreSafe DEF AttemptFails, Answering, ClientInv, ClientTypeOK, SafeCall
<1>2. CASE calls[c].tries > 1
  <2> DEFINE call == [calls[c] EXCEPT !.waiting = TRUE, !.tries = calls[c].tries - 1]
  <2>1. calls' = [calls EXCEPT ![c] = call] /\ UNCHANGED <<breaker, buffer>>
    BY <1>1, <1>2 DEF AttemptFails, ClientTypeOK
  <2>2. calls[c].tries - 1 \in Nat
    BY <1>1, <1>2 DEF Call
  <2>3. SafeCall(c, call) /\ call.kind = calls[c].kind
    BY <2>2, SameCall
  <2> HIDE DEF call
  <2>4. calls' \in [AllSlots -> Call] /\ CallInv' /\ Counted' \subseteq Counted
    BY <1>1, <2>1, <2>3, OneCallChanges DEF Counted, InFlight
  <2>5. ClientTypeOK'
    BY <1>1, <2>1, <2>4 DEF ClientTypeOK
  <2>6. QED
    BY <2>1, <2>4, <2>5 DEF ClientInv, BreakerConsistent, Probes
<1>3. CASE ~(calls[c].tries > 1)
  <2>1. /\ calls' = [calls EXCEPT ![c] = Idle] /\ buffer' = Rebuffered(calls[c])
        /\ breaker' \in {breaker, RecordFailure(breaker)}
    BY <1>3 DEF AttemptFails
  <2>2. SafeCall(c, Idle) /\ Idle.kind = "idle"
    BY IdleIsSafe
  <2>3. calls' \in [AllSlots -> Call] /\ CallInv' /\ Counted' \subseteq Counted
    BY <2>1, <2>2, OneCallChanges
  <2>4. buffer' \in Seq(Tracks) /\ Len(buffer') <= Capacity
    <3>1. calls[c].kind = "track" => calls[c].track \in Tracks
      BY <1>1 DEF SafeCall
    <3>2. QED
      BY <1>1, <2>1, <3>1, PushKeeps DEF Rebuffered, ClientTypeOK
  <2>5. breaker' \in BreakerType
    BY <1>1, <2>1, BreakerOperators DEF ClientTypeOK
  <2>6. BreakerConsistent'
    <3>1. CASE breaker' = breaker
      BY <1>1, <3>1 DEF ClientInv, BreakerConsistent
    <3>2. CASE breaker' = RecordFailure(breaker)
      BY <1>1, <3>2, BreakerOperators DEF ClientTypeOK, BreakerConsistent
    <3>3. QED
      BY <2>1, <3>1, <3>2
  <2>7. ClientTypeOK'
    BY <1>1, <2>3, <2>4, <2>5 DEF ClientTypeOK
  <2>8. QED
    BY <2>3, <2>6, <2>7 DEF ClientInv, Probes
<1>4. QED
  BY <1>2, <1>3

\* A retry sends the same call again.
LEMMA RetryKeeps ==
  ASSUME ClientInv, NEW c \in AllSlots, Retry(c)
  PROVE  /\ ClientInv' /\ Probes
         /\ \E call : /\ calls' = [calls EXCEPT ![c] = call]
                      /\ call.kind = calls[c].kind /\ call.track = calls[c].track
                      /\ call.rest = calls[c].rest
<1> DEFINE call == [calls[c] EXCEPT !.waiting = FALSE, !.tries = calls[c].tries]
<1>1. calls[c] \in Call /\ ClientTypeOK /\ calls[c].tries \in Nat
  BY CallsAreSafe DEF SafeCall, Call, ClientInv
<1>2. calls' = [calls EXCEPT ![c] = call]
      /\ UNCHANGED <<breaker, buffer, lastTrack, debounce, shown, cleared>>
  <2>1. call = [calls[c] EXCEPT !.waiting = FALSE]
    BY <1>1 DEF Call
  <2> HIDE DEF call
  <2>2. calls' = [calls EXCEPT ![c] = [calls[c] EXCEPT !.waiting = FALSE]]
    BY <1>1 DEF Retry, ClientTypeOK
  <2>3. QED
    BY <2>1, <2>2 DEF Retry
<1>3. SafeCall(c, call) /\ call.kind = calls[c].kind /\ call.track = calls[c].track
      /\ call.rest = calls[c].rest
  BY <1>1, SameCall
<1> HIDE DEF call
<1>4. calls' \in [AllSlots -> Call] /\ CallInv' /\ Counted' \subseteq Counted
  BY <1>1, <1>2, <1>3, OneCallChanges DEF Counted, InFlight
<1>5. ClientTypeOK'
  BY <1>1, <1>2, <1>4 DEF ClientTypeOK
<1>6. QED
  BY <1>2, <1>3, <1>4, <1>5 DEF ClientInv, BreakerConsistent, Probes

\* The cooldown and the timers of polls and retries touch no call.
LEMMA TimersKeep ==
  ASSUME ClientInv, DebounceOver \/ CooldownElapses
  PROVE  ClientInv' /\ Probes /\ UNCHANGED <<buffer, calls>> /\ UNCHANGED lastTrack
<1>1. CASE DebounceOver
  BY <1>1 DEF DebounceOver, ClientInv, ClientTypeOK, CallInv, BreakerConsistent, Counted, InFlight, Probes
<1>2. CASE CooldownElapses
  <2>1. /\ breaker.state = "OPEN" /\ breaker \in BreakerType
        /\ breaker' = [breaker EXCEPT !.cooled = TRUE] /\ BreakerConsistent
        /\ UNCHANGED <<buffer, calls, lastTrack, debounce, shown, cleared>>
    BY <1>2 DEF CooldownElapses, ClientInv, ClientTypeOK
  <2>2. /\ breaker' \in BreakerType /\ breaker'.state = "OPEN"
        /\ breaker'.probeInFlight = breaker.probeInFlight
    BY <2>1 DEF BreakerType
  <2>3. BreakerConsistent'
    BY <2>1, <2>2 DEF BreakerConsistent
  <2>4. Probes
    BY <2>1 DEF Counted, InFlight, Probes
  <2>5. QED
    BY <2>1, <2>2, <2>3, <2>4 DEF ClientInv, ClientTypeOK, CallInv
<1>3. QED
  BY <1>1, <1>2

-------------------------------------------------------------------------------
(* The invariant *)

\* The client starts with a closed breaker and nothing in flight.
LEMMA ClientInitHolds == ClientInit => ClientInv
<1> SUFFICES ASSUME ClientInit PROVE ClientInv
  OBVIOUS
<1>1. \A c \in AllSlots : calls[c] = Idle /\ SafeCall(c, Idle) /\ Idle.kind = "idle"
  BY IdleIsSafe DEF ClientInit
<1>2. calls \in [AllSlots -> Call] /\ CallInv
  BY <1>1 DEF ClientInit, CallInv, SafeCall
<1>3. breaker \in BreakerType /\ BreakerConsistent
  BY ClientAssumption DEF ClientInit, ClosedBreaker, BreakerType, BreakerConsistent
<1>4. buffer \in Seq(Tracks) /\ Len(buffer) <= Capacity
  BY ClientAssumption DEF ClientInit
<1>5. QED
  BY <1>2, <1>3, <1>4 DEF ClientInit, ClientInv, ClientTypeOK

\* ClientInv is inductive.
LEMMA ClientNextKeeps == ClientInv /\ [ClientNext]_clientVars => ClientInv' /\ [Probes]_clientVars
<1> SUFFICES ASSUME ClientInv, [ClientNext]_clientVars PROVE ClientInv' /\ [Probes]_clientVars
  OBVIOUS
<1>1. ASSUME UNCHANGED clientVars PROVE ClientInv'
  BY <1>1 DEF clientVars, ClientInv, ClientTypeOK, CallInv, BreakerConsistent, Counted, InFlight
<1>2. ASSUME NEW c \in Slots, NEW t \in Tracks, DeckLive(c, t) PROVE ClientInv' /\ Probes
  BY <1>2, DeckLiveKeeps
<1>3. ASSUME NEW c \in Slots, ClearNowPlaying(c) PROVE ClientInv' /\ Probes
  BY <1>3, ClearNowPlayingKeeps
<1>4. ASSUME NEW c \in Slots, PostBridgeStatus(c) \/ Poll(c) PROVE ClientInv' /\ Probes
  BY <1>4, StatusAndPollKeep
<1>5. ASSUME NEW c \in AllSlots, Answer(c) PROVE ClientInv' /\ Probes
  BY <1>5, PostSucceedsKeeps, ClearSucceedsKeeps, AttemptFailsKeeps, RetryKeeps DEF Answer
<1>6. ASSUME DebounceOver \/ CooldownElapses PROVE ClientInv' /\ Probes
  BY <1>6, TimersKeep
<1>7. QED
  BY <1>1, <1>2, <1>3, <1>4, <1>5, <1>6 DEF ClientNext

-------------------------------------------------------------------------------
(* What is pending stays pending until it is shown *)

\* A call still has track t to deliver; so has the buffer b or one of the calls.
Owes(call, t) ==
  \/ call.kind \in {"track", "replay"} /\ call.track = t
  \/ \E i \in DOMAIN call.rest : call.rest[i] = t
IsPending(b, inFlight, t) ==
  (\E i \in DOMAIN b : b[i] = t) \/ (\E c \in AllSlots : Owes(inFlight[c], t))

\* A track is owed by the buffer or by a call, before and after a step.
LEMMA PendingTracks ==
  \A t : /\ t \in Pending <=> IsPending(buffer, calls, t)
         /\ t \in Pending' <=> IsPending(buffer', calls', t)
<1>1. \A t : t \in Pending <=> IsPending(buffer, calls, t)
  BY DEF Pending, IsPending, Owes
<1>2. \A t : t \in Pending' <=> IsPending(buffer', calls', t)
  BY DEF Pending, IsPending, Owes
<1>3. QED
  BY <1>1, <1>2

\* What NoTrackVanishes says of a step.
Delivers ==
  /\ lastTrack' # lastTrack => lastTrack' \in Pending'
  /\ \A t \in Pending \ Pending' :
       \/ shown' = t
       \/ Len(buffer) = Capacity /\ buffer[1] = t
       \/ \E r \in Replays : ReplayEnds(r)

\* When one call changes, only it and the buffer can lose a track.
LEMMA OneCallDelivers ==
  ASSUME NEW c \in AllSlots, \A d \in AllSlots \ {c} : calls'[d] = calls[d],
         UNCHANGED lastTrack,
         \A t : Owes(calls[c], t) =>
           \/ t \in Pending' \/ shown' = t \/ \E r \in Replays : ReplayEnds(r),
         \A i \in DOMAIN buffer :
           buffer[i] \in Pending' \/ (Len(buffer) = Capacity /\ i = 1)
  PROVE  Delivers
<1> SUFFICES ASSUME NEW t \in Pending, t \notin Pending'
             PROVE  \/ shown' = t
                    \/ Len(buffer) = Capacity /\ buffer[1] = t
                    \/ \E r \in Replays : ReplayEnds(r)
  BY DEF Delivers
<1>1. CASE \E i \in DOMAIN buffer : buffer[i] = t
  BY <1>1
<1>2. CASE \E d \in AllSlots : Owes(calls[d], t)
  <2>1. PICK d \in AllSlots : Owes(calls[d], t)
    BY <1>2
  <2>2. d = c
    BY <2>1, PendingTracks DEF IsPending
  <2>3. QED
    BY <2>1, <2>2
<1>3. QED
  BY <1>1, <1>2, PendingTracks DEF IsPending

\* A step in which the buffer stays and no call owes less.
LEMMA NothingLost ==
  ASSUME NEW c \in AllSlots, \A d \in AllSlots \ {c} : calls'[d] = calls[d],
         UNCHANGED <<lastTrack, buffer>>, \A t : Owes(calls[c], t) => Owes(calls'[c], t)
  PROVE  Delivers
<1>1. \A d \in AllSlots : \A t : Owes(calls[d], t) => Owes(calls'[d], t)
  OBVIOUS
<1>2. QED
  BY <1>1, PendingTracks DEF IsPending, Delivers

\* A free slot owes no track.
LEMMA IdleOwesNothing == \A t : ~Owes(Idle, t)
BY DEF Owes, Idle

\* A live deck adds to what is owed.
LEMMA DeckLiveDelivers ==
  ASSUME ClientInv, NEW c \in Slots, NEW track \in Tracks, DeckLive(c, track)
  PROVE  Delivers
<1>1. /\ c \in AllSlots /\ calls[c] = Idle /\ ClientTypeOK
      /\ buffer \in Seq(Tracks) /\ Len(buffer) <= Capacity
  BY DEF DeckLive, Free, AllSlots, ClientInv, ClientTypeOK
<1>2. CASE UNCHANGED <<breaker, buffer, calls, lastTrack, debounce>>
  BY <1>2, PendingTracks DEF Delivers
<1>3. CASE lastTrack' = track /\ StartPost(c, "track", track) /\ UNCHANGED buffer
  <2> DEFINE call == Send("track", track, <<>>, PostAttempts)
  <2>1. Owes(call, track)
    BY DEF Owes, Send
  <2> HIDE DEF call
  <2>2. calls'[c] = call /\ \A d \in AllSlots \ {c} : calls'[d] = calls[d]
    BY <1>1, <1>3 DEF StartPost, ClientTypeOK, call
  <2>3. lastTrack' \in Pending'
    BY <1>1, <1>3, <2>1, <2>2, PendingTracks DEF IsPending
  <2>4. \A t \in Pending : t \in Pending'
    BY <1>1, <1>3, <2>2, PendingTracks, IdleOwesNothing DEF IsPending
  <2>5. QED
    BY <2>3, <2>4 DEF Delivers
<1>4. CASE lastTrack' = track /\ buffer' = Push(buffer, track) /\ UNCHANGED calls
  <2>1. /\ \E j \in DOMAIN buffer' : buffer'[j] = track
        /\ \A i \in DOMAIN buffer :
             \/ \E j \in DOMAIN buffer' : buffer'[j] = buffer[i]
             \/ Len(buffer) = Capacity /\ i = 1
    <3> DEFINE p == Push(buffer, track)
    <3>1. /\ \E j \in DOMAIN p : p[j] = track
          /\ \A i \in DOMAIN buffer :
               \/ \E j \in DOMAIN p : p[j] = buffer[i]
               \/ Len(buffer) = Capacity /\ i = 1
      BY <1>1, PushKeeps
    <3> HIDE DEF p
    <3>2. buffer' = p
      BY <1>4 DEF p
    <3>3. QED
      BY <3>1, <3>2
  <2>2. lastTrack' \in Pending'
    BY <1>4, <2>1, PendingTracks DEF IsPending
  <2>3. \A t \in Pending \ Pending' : Len(buffer) = Capacity /\ buffer[1] = t
    BY <1>4, <2>1, PendingTracks DEF IsPending
  <2>4. QED
    BY <2>2, <2>3 DEF Delivers
<1>5. QED
  BY <1>2, <1>3, <1>4 DEF DeckLive

\* A call that starts takes nothing from what is owed.
LEMMA StartsDeliver ==
  ASSUME ClientInv, NEW c \in Slots, ClearNowPlaying(c) \/ PostBridgeStatus(c) \/ Poll(c)
  PROVE  Delivers
<1>1. /\ c \in AllSlots /\ calls[c] = Idle /\ UNCHANGED <<buffer, lastTrack>>
      /\ \A d \in AllSlots \ {c} : calls'[d] = calls[d]
  BY DEF ClearNowPlaying, PostBridgeStatus, Poll, StartPost, Free, AllSlots, ClientInv, ClientTypeOK
<1>2. QED
  BY <1>1, NothingLost, IdleOwesNothing

\* The effect of a track's or a replay's post is its track.
LEMMA AnsweredIsShown ==
  ASSUME ClientInv, NEW c \in AllSlots, NEW t, Owes(calls[c], t)
  PROVE  \/ Effect(calls[c]) = t
         \/ Owes(NextCall(calls[c]), t)
<1>1. SafeCall(c, calls[c])
  BY CallsAreSafe
<1>2. CASE calls[c].kind \in {"track", "replay"} /\ calls[c].track = t
  BY <1>2 DEF Effect
<1>3. CASE \E i \in DOMAIN calls[c].rest : calls[c].rest[i] = t
  <2> DEFINE rest == calls[c].rest
  <2>1. rest \in Seq(Tracks) /\ rest # <<>>
    BY <1>1, <1>3 DEF SafeCall, Call
  <2>2. Head(rest) = t \/ \E j \in DOMAIN Tail(rest) : Tail(rest)[j] = t
    BY <1>3, <2>1, HeadAndTail
  <2>3. /\ NextCall(calls[c]).kind = "replay" /\ NextCall(calls[c]).track = Head(rest)
        /\ NextCall(calls[c]).rest = Tail(rest)
    BY <2>1 DEF NextCall, Send
  <2>4. QED
    BY <2>2, <2>3 DEF Owes
<1>4. QED
  BY <1>2, <1>3 DEF Owes

\* A post that succeeds delivers its track and owes the rest of its replay.
LEMMA PostSucceedsDelivers ==
  ASSUME ClientInv, NEW c \in AllSlots, PostSucceeds(c)
  PROVE  Delivers
<1> DEFINE next == NextCall(calls[c])
<1>1. /\ shown' = Effect(calls[c]) /\ UNCHANGED lastTrack /\ ClientTypeOK
      /\ \A t : Owes(calls[c], t) => shown' = t \/ Owes(next, t)
  BY AnsweredIsShown DEF PostSucceeds, ClientInv
<1> HIDE DEF next
<1>2. CASE calls' = [calls EXCEPT ![c] = next] /\ UNCHANGED buffer
  <2>1. calls'[c] = next /\ \A d \in AllSlots \ {c} : calls'[d] = calls[d]
    BY <1>1, <1>2 DEF ClientTypeOK
  <2>2. \A t : Owes(calls[c], t) => t \in Pending' \/ shown' = t
    BY <1>1, <2>1, PendingTracks DEF IsPending
  <2>3. \A i \in DOMAIN buffer : buffer[i] \in Pending'
    BY <1>2, PendingTracks DEF IsPending
  <2>4. QED
    BY <1>1, <2>1, <2>2, <2>3, OneCallDelivers
<1>3. ASSUME buffer # <<>>, buffer' = <<>>, NEW r \in Replays, r # c, calls[r] = Idle,
             calls' = [calls EXCEPT ![c] = next, ![r] = Drained]
      PROVE  Delivers
  <2>1. /\ r \in AllSlots /\ calls'[c] = next /\ calls'[r] = Drained
        /\ \A d \in AllSlots \ {c, r} : calls'[d] = calls[d]
    BY <1>1, <1>3 DEF ClientTypeOK, AllSlots
  <2>2. \A i \in DOMAIN buffer : Owes(Drained, buffer[i])
    <3>1. \A i \in DOMAIN buffer :
            buffer[i] = Head(buffer) \/ \E j \in DOMAIN Tail(buffer) : Tail(buffer)[j] = buffer[i]
      BY <1>1, <1>3, HeadAndTail DEF ClientTypeOK
    <3>2. Drained.kind = "replay" /\ Drained.track = Head(buffer) /\ Drained.rest = Tail(buffer)
      BY DEF Drained, Send
    <3>3. QED
      BY <3>1, <3>2 DEF Owes
  <2>3. \A i \in DOMAIN buffer : buffer[i] \in Pending'
    BY <2>1, <2>2, PendingTracks DEF IsPending
  <2>4. \A t, d : d \in AllSlots /\ Owes(calls[d], t) => t \in Pending' \/ shown' = t
    BY <1>1, <1>3, <2>1, PendingTracks, IdleOwesNothing DEF IsPending
  <2>5. \A t \in Pending : t \in Pending' \/ shown' = t
    BY <2>3, <2>4, PendingTracks DEF IsPending
  <2>6. QED
    BY <1>1, <2>5 DEF Delivers
<1>4. QED
  BY <1>2, <1>3, PostSucceedsCases DEF next

\* A clear owes nothing.
LEMMA ClearSucceedsDelivers ==
  ASSUME ClientInv, NEW c \in AllSlots, ClearSucceeds(c)
  PROVE  Delivers
<1>1. \A t : ~Owes(calls[c], t)
  <2>1. calls[c].kind = "clear" /\ calls[c].rest = <<>>
    BY CallsAreSafe DEF ClearSucceeds, SafeCall
  <2>2. QED
    BY <2>1 DEF Owes
<1>2. UNCHANGED <<buffer, lastTrack>> /\ \A d \in AllSlots \ {c} : calls'[d] = calls[d]
  BY DEF ClearSucceeds, ClientInv, ClientTypeOK
<1>3. QED
  BY <1>1, <1>2, NothingLost

\* A failed attempt keeps its track in the call or puts it back in the buffer.
LEMMA AttemptFailsDelivers ==
  ASSUME ClientInv, NEW c \in AllSlots, AttemptFails(c)
  PROVE  Delivers
<1>1. /\ UNCHANGED lastTrack /\ ClientTypeOK /\ SafeCall(c, calls[c]) /\ calls[c] \in Call
      /\ calls[c].kind # "idle" /\ buffer \in Seq(Tracks) /\ Len(buffer) <= Capacity
  BY CallsAreSafe DEF AttemptFails, Answering, ClientInv, ClientTypeOK, SafeCall
<1>2. CASE calls[c].tries > 1
  <2> DEFINE call == [calls[c] EXCEPT !.waiting = TRUE, !.tries = calls[c].tries - 1]
  <2>1. calls' = [calls EXCEPT ![c] = call] /\ UNCHANGED buffer
    BY <1>1, <1>2 DEF AttemptFails, ClientTypeOK
  <2>2. calls[c].tries - 1 \in Nat
    BY <1>1, <1>2 DEF Call
  <2>3. call.kind = calls[c].kind /\ call.track = calls[c].track /\ call.rest = calls[c].rest
    BY <2>2, SameCall
  <2> HIDE DEF call
  <2>4. calls'[c] = call /\ \A d \in AllSlots \ {c} : calls'[d] = calls[d]
    BY <1>1, <2>1 DEF ClientTypeOK
  <2>5. QED
    BY <1>1, <2>1, <2>3, <2>4, NothingLost DEF Owes
<1>3. CASE ~(calls[c].tries > 1)
  <2>1. /\ calls' = [calls EXCEPT ![c] = Idle] /\ buffer' = Rebuffered(calls[c])
    BY <1>3 DEF AttemptFails
  <2>2. calls'[c] = Idle /\ \A d \in AllSlots \ {c} : calls'[d] = calls[d]
    BY <1>1, <2>1 DEF ClientTypeOK
  <2>3. CASE calls[c].kind = "replay"
    <3>1. ReplayEnds(c) /\ c \in Replays
      BY <1>1, <2>2, <2>3 DEF ReplayEnds, SafeCall, Idle
    <3>2. QED
      BY <1>1, <3>1 DEF Delivers
  <2>4. CASE calls[c].kind = "track"
    <3>1. calls[c].track \in Tracks /\ calls[c].rest = <<>> /\ buffer' = Push(buffer, calls[c].track)
      BY <1>1, <2>1, <2>4 DEF SafeCall, Rebuffered
    <3>2. /\ \E j \in DOMAIN buffer' : buffer'[j] = calls[c].track
          /\ \A i \in DOMAIN buffer :
               \/ \E j \in DOMAIN buffer' : buffer'[j] = buffer[i]
               \/ Len(buffer) = Capacity /\ i = 1
      <4> DEFINE p == Push(buffer, calls[c].track)
      <4>1. /\ \E j \in DOMAIN p : p[j] = calls[c].track
            /\ \A i \in DOMAIN buffer :
                 \/ \E j \in DOMAIN p : p[j] = buffer[i]
                 \/ Len(buffer) = Capacity /\ i = 1
        BY <1>1, <3>1, PushKeeps
      <4> HIDE DEF p
      <4>2. buffer' = p
        BY <3>1 DEF p
      <4>3. QED
        BY <4>1, <4>2
    <3>3. \A t : Owes(calls[c], t) => t \in Pending'
      BY <3>1, <3>2, PendingTracks DEF IsPending, Owes
    <3>4. \A i \in DOMAIN buffer : buffer[i] \in Pending' \/ (Len(buffer) = Capacity /\ i = 1)
      BY <3>2, PendingTracks DEF IsPending
    <3>5. QED
      BY <1>1, <2>2, <3>3, <3>4, OneCallDelivers
  <2>5. CASE calls[c].kind \notin {"track", "replay"}
    <3>1. \A t : ~Owes(calls[c], t)
      BY <1>1, <2>5 DEF SafeCall, Owes
    <3>2. buffer' = buffer
      BY <2>1, <2>5 DEF Rebuffered
    <3>3. QED
      BY <1>1, <2>2, <3>1, <3>2, NothingLost
  <2>6. QED
    BY <2>3, <2>4, <2>5
<1>4. QED
  BY <1>2, <1>3

\* A retry owes what it owed.
LEMMA RetryDelivers ==
  ASSUME ClientInv, NEW c \in AllSlots, Retry(c)
  PROVE  Delivers
<1>1. PICK call : /\ calls' = [calls EXCEPT ![c] = call]
                  /\ call.kind = calls[c].kind /\ call.track = calls[c].track /\ call.rest = calls[c].rest
  BY RetryKeeps
<1>2. UNCHANGED <<buffer, lastTrack>> /\ calls'[c] = call
      /\ \A d \in AllSlots \ {c} : calls'[d] = calls[d]
  BY <1>1 DEF Retry, ClientInv, ClientTypeOK
<1>3. QED
  BY <1>1, <1>2, NothingLost DEF Owes

\* So no step of the client loses a track that is owed.
LEMMA ClientStepDelivers == ClientInv /\ [ClientNext]_clientVars => [Delivers]_clientVars
<1> SUFFICES ASSUME ClientInv, ClientNext PROVE Delivers
  OBVIOUS
<1>1. ASSUME NEW c \in Slots, NEW t \in Tracks, DeckLive(c, t) PROVE Delivers
  BY <1>1, DeckLiveDelivers
<1>2. ASSUME NEW c \in Slots, ClearNowPlaying(c) \/ PostBridgeStatus(c) \/ Poll(c) PROVE Delivers
  BY <1>2, StartsDeliver
<1>3. ASSUME NEW c \in AllSlots, Answer(c) PROVE Delivers
  BY <1>3, PostSucceedsDelivers, ClearSucceedsDelivers, AttemptFailsDelivers, RetryDelivers DEF Answer
<1>4. CASE DebounceOver \/ CooldownElapses
  BY <1>4, TimersKeep, PendingTracks DEF Delivers
<1>5. QED
  BY <1>1, <1>2, <1>3, <1>4 DEF ClientNext

-------------------------------------------------------------------------------
(* Theorems *)

\* State, calls and breaker agree in every reachable state.
THEOREM ClientInvariant == ClientSpec => []ClientInv
<1>1. ClientInit => ClientInv
  BY ClientInitHolds
<1>2. ClientInv /\ [ClientNext]_clientVars => ClientInv'
  BY ClientNextKeeps
<1>3. QED
  BY <1>1, <1>2, PTL DEF ClientSpec

\* State is of its types and the buffer within its capacity, whatever calls fail
\* together (track-history-buffer.ts).
THEOREM ClientTypes == ClientSpec => []ClientTypeOK
<1>1. ClientInv => ClientTypeOK
  BY DEF ClientInv
<1>2. QED
  BY <1>1, ClientInvariant, PTL

\* The breaker is closed only below the threshold, and waits for a probe exactly
\* while it is half open, however late the answers (circuit-breaker.ts:97-115).
THEOREM BreakerStaysConsistent == ClientSpec => []BreakerConsistent
<1>1. ClientInv => BreakerConsistent
  BY DEF ClientInv
<1>2. QED
  BY <1>1, ClientInvariant, PTL

\* While the breaker is not closed it lets one call through per cooldown
\* (circuit-breaker.ts:64).
THEOREM ProbesAreAlone == ClientSpec => OneProbePerCooldown
<1>1. ClientSpec => [][Probes]_clientVars
  BY ClientInvariant, ClientNextKeeps, PTL DEF ClientSpec
<1>2. QED
  BY <1>1 DEF OneProbePerCooldown, Probes

\* A track that has been accepted is in flight or buffered until it is shown, but
\* for the oldest of a full buffer and a replay given up (bridge.ts:239-290).
THEOREM TracksAreDelivered == ClientSpec => NoTrackVanishes
<1>1. ClientInv /\ [ClientNext]_clientVars => [Delivers]_clientVars
  BY ClientStepDelivers
<1>2. ClientSpec => [][Delivers]_clientVars
  BY <1>1, ClientInvariant, PTL DEF ClientSpec
<1>3. QED
  BY <1>2 DEF NoTrackVanishes, Delivers
=============================================================================

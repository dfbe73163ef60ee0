----------------------------- MODULE PluginBridge -----------------------------
(***************************************************************************)
(* The life cycle of the equipment connection (bridge/src/plugin-          *)
(* bridge.ts), around the DeckStateManager it owns: start, stop, restart,  *)
(* resetDecks, and the reconnection that a lost device triggers.           *)
(*                                                                         *)
(* These methods are async.  Each runs from one await to the next without  *)
(* interruption, and everything else may happen during an await: equipment *)
(* events, deck timers, and other calls, because the command poller emits  *)
(* a batch of commands without awaiting the handler of each                *)
(* (command-poller.ts:102-105).  A call in progress occupies a slot of     *)
(* Calls; its pc names the await it is at.                                 *)
(*                                                                         *)
(* The plugin (StageLinQ, Traktor, ...) is modelled by what its start and  *)
(* stop promise the bridge: stop drops `running' at once and its listeners *)
(* at the end, start refuses when running, and a start that fails may      *)
(* leave `running' set (stagelinq-plugin.ts:50,103) or not (ibid.:59).     *)
(* Its events are heard until the listeners go, that of a stop included.   *)
(* Abstracted: back-off delays (the reconnect timer may fire any time),    *)
(* the heartbeat's period, logs.                                           *)
(***************************************************************************)
EXTENDS DeckStateManager

CONSTANTS
  Calls,         \* slots for asynchronous calls in progress
  HasPlayState   \* plugin.capabilities.playState

ASSUME CapabilityAssumption == HasPlayState \in BOOLEAN

VARIABLES
  running,        \* PluginBridge.running
  wasConnected,   \* a device has connected since start
  heartbeat,      \* the heartbeat timer runs: a device is connected
  reconnectTimer, \* a reconnection is scheduled
  pluginRunning,  \* the plugin's own running flag
  wired,          \* the bridge listens to the plugin
  calls           \* slot -> [pc, owns]: owns is whether the call it awaits did anything

bridgeVars == <<running, wasConnected, heartbeat, reconnectTimer, pluginRunning, wired, calls>>
allVars == <<vars, bridgeVars>>

Idle == [pc |-> "idle", owns |-> FALSE]
Points == {"idle", "main_starting", "starting", "stopping", "restart_stopping", "restart_stopped",
           "reconnect_stopping", "reconnect_starting"}

At(c, pc) == calls[c].pc = pc
MoveTo(c, pc, owns) == calls' = [calls EXCEPT ![c] = [pc |-> pc, owns |-> owns]]

-----------------------------------------------------------------------------
(* Pieces shared by several methods *)

ClearNowPlaying == live' = NoLive
UnchangedDecks == UNCHANGED vars

CallPluginStop(c, pc) == MoveTo(c, pc, pluginRunning) /\ pluginRunning' = FALSE

\* plugin.start throws when the plugin runs already: the call then owns nothing.
CallPluginStart(c, pc) == MoveTo(c, pc, ~pluginRunning) /\ pluginRunning' = TRUE

\* Mutant: the display is left to the server's timeout.
CleanupLeavesDisplay ==
  /\ reconnectTimer' = FALSE
  /\ heartbeat' = FALSE
  /\ Destroy
  /\ wired' = FALSE
  /\ UNCHANGED live

\* cleanup(): the timers stop, the bridge clears the display, the manager is
\* destroyed and the plugin's listeners go.
Cleanup ==
  /\ reconnectTimer' = FALSE
  /\ heartbeat' = FALSE
  /\ ClearNowPlaying
  /\ Destroy
  /\ wired' = FALSE

ScheduleReconnect == reconnectTimer' = (reconnectTimer \/ running)

-----------------------------------------------------------------------------
(* start, stop, restart, resetDecks *)

\* start() up to the await of plugin.start; it throws when already running.
Start(c) ==
  \/ /\ running
     /\ calls' = [calls EXCEPT ![c] = Idle]
     /\ UNCHANGED <<vars, running, wasConnected, heartbeat, reconnectTimer, pluginRunning, wired>>
  \/ /\ ~running
     /\ running' = TRUE
     /\ wasConnected' = FALSE
     /\ listening' = TRUE
     /\ wired' = TRUE
     /\ CallPluginStart(c, "starting")
     /\ UNCHANGED <<decks, timers, switchTimer, nowPlaying, destroyed, live,
                    heartbeat, reconnectTimer>>

Started(c) ==
  /\ calls[c].pc \in {"main_starting", "starting"}
  /\ calls[c].owns
  /\ calls' = [calls EXCEPT ![c] = Idle]
  /\ UNCHANGED <<vars, running, wasConnected, heartbeat, reconnectTimer, pluginRunning, wired>>

StartFailed(c) ==
  /\ At(c, "starting")
  /\ running' = FALSE
  /\ Cleanup
  /\ calls' = [calls EXCEPT ![c] = Idle]
  /\ IF calls[c].owns THEN pluginRunning' \in {pluginRunning, FALSE} ELSE UNCHANGED pluginRunning
  /\ UNCHANGED wasConnected

\* stop() up to the await of plugin.stop, for a caller that waits at pc.
Stop(c, pc) ==
  /\ running
  /\ running' = FALSE
  /\ reconnectTimer' = FALSE
  /\ CallPluginStop(c, pc)
  /\ UNCHANGED <<vars, wasConnected, heartbeat, wired>>

CallStop(c) == At(c, "idle") /\ Stop(c, "stopping")

\* restart() is stop() then start(); on a bridge that does not run, start() alone.
CallRestart(c) ==
  /\ At(c, "idle")
  /\ Stop(c, "restart_stopping") \/ (~running /\ Start(c))

Stopped(c) ==
  /\ calls[c].pc \in {"stopping", "restart_stopping"}
  /\ Cleanup
  /\ MoveTo(c, IF At(c, "stopping") THEN "idle" ELSE "restart_stopped", FALSE)
  /\ UNCHANGED <<running, wasConnected, pluginRunning>>

RestartGoesOn(c) == At(c, "restart_stopped") /\ Start(c)

ResetDecks ==
  /\ Reset
  /\ ClearNowPlaying
  /\ UNCHANGED bridgeVars

-----------------------------------------------------------------------------
(* Reconnection *)

\* Mutant: only a plugin that runs is reconnected.
AttemptReconnectIfRunning(c) ==
  /\ running /\ pluginRunning
  /\ CallPluginStop(c, "reconnect_stopping")
  /\ UNCHANGED <<vars, running, wasConnected, heartbeat, wired>>

\* attemptReconnect() up to its first await.
AttemptReconnect(c) ==
  /\ running
  /\ CallPluginStop(c, "reconnect_stopping")
  /\ UNCHANGED <<vars, running, wasConnected, heartbeat, wired>>

\* reconnect() cancels the timer whether or not it goes on.
CallReconnect(c) ==
  /\ At(c, "idle")
  /\ reconnectTimer' = FALSE
  /\ \/ AttemptReconnect(c)
     \/ /\ ~running
        /\ UNCHANGED <<vars, running, wasConnected, heartbeat, pluginRunning, wired, calls>>

ReconnectTimerFires(c) ==
  /\ At(c, "idle")
  /\ reconnectTimer
  /\ reconnectTimer' = FALSE
  /\ AttemptReconnect(c)

\* The plugin has stopped: deck state goes, listeners are renewed, it starts again.
ReconnectStopped(c) ==
  /\ At(c, "reconnect_stopping")
  /\ Reset
  /\ UNCHANGED live
  /\ wired' = TRUE
  /\ CallPluginStart(c, "reconnect_starting")
  /\ UNCHANGED <<running, wasConnected, heartbeat, reconnectTimer>>

ReconnectStarted(c) ==
  /\ At(c, "reconnect_starting")
  /\ calls[c].owns
  /\ calls' = [calls EXCEPT ![c] = Idle]
  /\ UNCHANGED <<vars, running, wasConnected, heartbeat, reconnectTimer, pluginRunning, wired>>

ReconnectFailed(c) ==
  /\ At(c, "reconnect_starting")
  /\ ScheduleReconnect
  /\ calls' = [calls EXCEPT ![c] = Idle]
  /\ IF calls[c].owns THEN pluginRunning' \in {pluginRunning, FALSE} ELSE UNCHANGED pluginRunning
  /\ UNCHANGED <<vars, running, wasConnected, heartbeat, wired>>

-----------------------------------------------------------------------------
(* Events of the plugin *)

\* Whatever the plugin emits while the bridge's listeners are on it.  They stay on
\* it through the await of plugin.stop, in which Traktor reports that the device is
\* gone, and after a start that failed, when a StageLinQ that did not disconnect
\* still reports.
Hears == wired

Connected ==
  /\ Hears
  /\ wasConnected' = TRUE
  /\ heartbeat' = TRUE
  /\ UNCHANGED <<vars, running, reconnectTimer, pluginRunning, wired, calls>>

Disconnected ==
  /\ Hears
  /\ heartbeat' = FALSE
  /\ ClearNowPlaying
  /\ IF wasConnected THEN ScheduleReconnect ELSE UNCHANGED reconnectTimer
  /\ UNCHANGED <<decks, timers, switchTimer, nowPlaying, destroyed, listening,
                 running, wasConnected, pluginRunning, wired, calls>>

\* handleTrack: a track the deck already holds is dropped; a plugin without play
\* states plays what it loads.
HandleTrack(d, track) ==
  \/ track = NoTrack /\ UnloadTrack(d)
  \/ /\ track \in Tracks \ {decks[d].track}
     /\ IF HasPlayState THEN LoadTrack(d, track) ELSE LoadAndPlay(d, track)

HandlePlayState(d, isPlaying) ==
  \/ PlayStateIgnored(d, isPlaying)
  \/ isPlaying /\ PlayStart(d)
  \/ ~isPlaying /\ PlayStop(d)

DeviceEvent ==
  /\ Hears
  /\ \E d \in Decks :
       \/ \E t \in Tracks \cup {NoTrack} : HandleTrack(d, t)
       \/ HasPlayState /\ \E b \in BOOLEAN : HandlePlayState(d, b)
       \/ \E b \in BOOLEAN : UpdateFaderLevel(d, b)
       \/ SetMasterDeck(d)
  /\ UNCHANGED bridgeVars

DeckTimer ==
  /\ NowPlayingSwitchTimerExpired \/ \E d \in Decks : Fire(d)
  /\ UNCHANGED bridgeVars

TimePasses == Tick /\ UNCHANGED bridgeVars

-----------------------------------------------------------------------------

\* main() has called start() on a fresh bridge, in one of the slots.  Should that
\* first start fail the process exits, so only its success is a step.
BridgeInit ==
  /\ Init
  /\ running = TRUE
  /\ wasConnected = FALSE
  /\ heartbeat = FALSE
  /\ reconnectTimer = FALSE
  /\ pluginRunning = TRUE
  /\ wired = TRUE
  /\ \E c \in Calls : calls = [x \in Calls |-> IF x = c THEN [pc |-> "main_starting", owns |-> TRUE]
                                               ELSE Idle]

CallReturns(c) ==
  \/ Started(c) \/ StartFailed(c)
  \/ Stopped(c) \/ RestartGoesOn(c)
  \/ ReconnectStopped(c) \/ ReconnectStarted(c) \/ ReconnectFailed(c)

BridgeNext ==
  \/ \E c \in Calls :
       \/ CallStop(c) \/ CallRestart(c) \/ CallReconnect(c)
       \/ ReconnectTimerFires(c)
       \/ CallReturns(c)
  \/ ResetDecks
  \/ Connected \/ Disconnected
  \/ DeviceEvent \/ DeckTimer \/ TimePasses

\* An awaited call comes back (StageLinQ gives up after 30 s), timers fire, and
\* time diverges.
BridgeFairness ==
  /\ SF_allVars(TimePasses)
  /\ WF_allVars(DeckTimer)
  /\ \A c \in Calls : WF_allVars(CallReturns(c))
  /\ SF_allVars(\E c \in Calls : ReconnectTimerFires(c))

BridgeSpec == BridgeInit /\ [][BridgeNext]_allVars /\ BridgeFairness

-----------------------------------------------------------------------------
(* Properties *)

\* Every variable of the composition keeps its type.
BridgeTypeOK ==
  /\ TypeOK
  /\ running \in BOOLEAN /\ wasConnected \in BOOLEAN /\ heartbeat \in BOOLEAN
  /\ reconnectTimer \in BOOLEAN /\ pluginRunning \in BOOLEAN /\ wired \in BOOLEAN
  /\ calls \in [Calls -> [pc : Points, owns : BOOLEAN]]

\* What is stopped stays quiet, whatever calls, device events and reconnections
\* still end on it: a destroyed manager never has a timer again (destroy: "MUST be
\* called ... to prevent memory leaks from active timers",
\* deck-state-manager.ts:653-657), a stopped bridge has no reconnection scheduled,
\* and once its calls are over the display is clear until it runs again.
StoppedIsQuiet ==
  /\ destroyed => switchTimer = Unset /\ \A d \in Decks : timers[d] = NoTimer
  /\ ~running => ~reconnectTimer
  /\ ~running /\ (\A c \in Calls : At(c, "idle")) => live = NoLive

\* A reconnection that is scheduled leads to a new start of the plugin, even if
\* commands cancel the timer or attempts overlap, unless the bridge stops or an
\* overlapping stop cuts it off from the plugin.
LostDeviceRetried ==
  reconnectTimer ~> \/ \E c \in Calls : At(c, "reconnect_starting")
                    \/ ~running \/ ~wired

\* plugin-bridge.ts:132: restart() is to "stop the bridge and start it again".  A
\* bridge that runs, and goes on running, decides sooner or later about a deck
\* that plays: the deck does not stay in CUEING for ever.
RunningBridgeDecides ==
  \A d \in Decks : running /\ decks[d].state = "CUEING" ~> ~running \/ decks[d].state # "CUEING"
=============================================================================

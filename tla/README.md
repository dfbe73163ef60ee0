# A TLA+ model of WrzDJ

WrzDJ lets the guests of a DJ's event request songs and shows them what is
playing. Three programs make up its core: a **bridge** on the DJ's laptop that
watches the DJ equipment and decides which deck is live, a **server** that keeps
guests, requests, votes, the now-playing row, the play history and the sets a DJ
prepares, and **web pages** for guests, the DJ and kiosks that read the server and
write to it.

This directory models the part of that where order matters: which deck is live,
what the bridge still owes the server, what the server shows and records when the
bridge and the DJ write at the same time, whom a request or a vote belongs to while
guests are merged and deleted, how a set is edited, restored and exported. Paths
below are relative to `bridge/src/` for the bridge and `server/app/` for the server.

## Running it

    tlc -workers 2 -config DeckStateManager.cfg MCDeckStateManager.tla
    tlapm DeckStateManagerProofs.tla

The other runs and the other `...Proofs` modules go the same way.
`PROJECT.json` lists every run with its module and configuration, the lines each
definition stands for, the hazards, the findings and the theorems.

## Inventory

| Component | State | Operations | Interacts through | What is hard |
|---|---|---|---|---|
| Deck state machine (`deck-state-manager.ts`) | deck map (at most 16), one timer per deck, the switch timer, who is now playing | track, play, fader and master events; three kinds of timer; reset, destroy | events `deckLive`, `nowPlayingCleared` | timers against events, eviction, priority, brief pauses |
| Equipment connection (`plugin-bridge.ts`) | running, wasConnected, heartbeat and reconnect timers, plugin listeners | start, stop, restart, resetDecks, reconnect, plugin events | owns the deck machine and a plugin | async methods that overlap at every await, restart, failed starts |
| Backend client (`bridge.ts`, `circuit-breaker.ts`, `track-history-buffer.ts`, `command-poller.ts`) | breaker, track buffer, last track, calls in flight | post with retries, clear, status, poll, replay | HTTP to the server | lost answers, retries against clears, one probe, a bounded buffer |
| Now playing and history (`services/bridge_integration.py`, `services/now_playing.py`) | one row per event, append-only history | bridge POST and DELETE, status, manual row | the database, requests | transactions at READ COMMITTED in many threads |
| Song requests (`services/request.py`, `api/requests.py`, `api/events.py`) | status of each request | create, PATCH, bulk accept, reject and delete | now playing, history, votes | three commits in one PATCH, stale reads |
| Votes, picks and duplicates (`services/vote.py`, `services/collect.py`, `services/dedup.py`) | votes, a denormalised count, the picks counted per guest | vote, unvote, pick, bulk review | the database, row locks of guests | counts under concurrency, a cap counted in a commit of its own |
| Guest identity (`services/guest_identity.py`, `email_verification.py`, `guest_merge.py`, `admin_guests.py`) | guests, tokens, tombstones of merged guests | identify, send code, confirm, merge, revoke, delete | row locks, the advisory lock per e-mail | two guests with one e-mail, merge chains, lock order |
| Set export (`services/setbuilder/export_apple_music.py`) | one claim on the set's row | export, recover | Apple Music, the DJ | a creation in doubt, crashes, stale workers |
| Set document (`services/setbuilder/`) | pool, timeline, snapshots | the agent's tools, drags, builds, imports, restores | the database | positions with gaps, locked slots, ids that change, one transaction per turn |
| Command queue (`services/bridge_integration.py`, `api/bridge.py`) | in-memory queue per event | queue, poll | polled by the bridge | a lost poll answer, expiry |
| Kiosk pairing (`services/kiosk.py`) | pairing sessions | create, complete, assign, expire | polled by the kiosk | two DJs, expiry, lazy cleanup |
| Sync, enrichment, other parts of the set builder, LLM gateway, event stream | per-feature rows | see `PROJECT.json` | external services, background tasks | overlapping tasks, provider fallback |
| Accounts, admin, human verification, health, plugins' protocols, Electron shell, pages, device and deployment scripts | little shared state or pure I/O | | | not modelled |

What makes the modelled ones correct, in a sentence each: the role of now playing is
held by a deck that plays and the listeners are told of every change of it; a
stopped bridge is silent and a lost device is retried; a track the bridge accepts
is delivered or accounted for, through a breaker that always recovers; a play is
shown while it lasts and recorded when it ends, and the DJ has one request playing;
a count is the number of votes and a vote has an owner; a cookie leads to a live
guest or nowhere; a set's playlist is created once; a timeline has one slot per
position, which refers to its own song, and a locked slot stays.

## Modules

| Module | Models | Composes |
|---|---|---|
| `DeckStateManager` | the deck state machine | |
| `PluginBridge` | the connection's life cycle around the deck machine | extends `DeckStateManager` |
| `BridgeClient` | the backend client, with the server reduced to "takes effect or not" | |
| `NowPlaying` | the server's row, history and request status | |
| `GuestRequests` | requests, votes and picks of guests, under merges and deletions | |
| `GuestIdentity` | who a cookie belongs to, with every row and advisory lock | |
| `SetExport` | the export of a set to Apple Music | instantiates `OneShotExport` |
| `OneShotExport` | what that export promises | |
| `SetDocument` | pool, timeline, agent's turns and snapshots of a set | |
| `<module>Proofs` | the theorems about each of these but `OneShotExport`, and the refinement of the export | extends the module (`PluginBridgeProofs` also `DeckStateManagerProofs`) |
| `MC...` | the sets and symmetries TLC needs | one per specification |

### DeckStateManager

One action per public method and per timer callback. JavaScript runs a handler to
completion, so an action is a whole handler, the look-up that may evict a deck
(`GetDeckState`), the conditional report (`CheckAndReport`) and the scan for a
successor (`Scan`) included. `GetDeckState` yields the set of outcomes of a
look-up; it is empty when the code throws. The code evicts, among equally stale
decks, the one inserted first; the model lets any of them go. A deck that is not in
the map has the state `ABSENT`.

Time is the action `Tick`. A timer counts its ticks down and `Tick` is disabled
while one is due, but events may still come in before its callback runs. Ages of a
play or a pause are counted to the bound beyond which the code does not tell them
apart (`AccumCap`, `PauseCap`). `live` is what the last event told a listener.

### PluginBridge

It extends the deck machine, so an action here is one step of the composition. An
async call in progress occupies a slot of `Calls` and its `pc` names the await it
is at: `Start`, `Stop`, `AttemptReconnect` are the code up to the first await,
`Stopped`, `ReconnectStopped` and so on what follows. The poller does not await the
handlers of a batch of commands (`command-poller.ts:102-105`), hence several slots.
The plugin is external: `stop` drops its running flag at once; `start` throws
when it runs already, and a start that fails may leave the flag set, as StageLinQ's
does after its 30 s timeout. `owns` records whether the plugin's method did
anything, since a call that was refused cannot succeed. The bridge hears a device
(`Hears`) from the moment its listeners are attached until they are removed: while
`plugin.stop()` is awaited too, since the plugin's own handlers stay until its devices are
disconnected (`plugins/stagelinq-plugin.ts:113-124`), and after a start that failed.

### BridgeClient

A slot is a call in flight, an action is what runs between two awaits: `DeckLive`,
`ClearNowPlaying`, `PostBridgeStatus` and `Poll` begin one, `PostSucceeds`,
`AttemptFails` and `Retry` are its attempts. A failed attempt may or may not have
taken effect, which covers lost requests and lost answers. When a success closes the
breaker the buffer is drained into a replay in the same step. `CooldownElapses` may come
while calls are under way: the abort timer of an attempt ends with its headers
(`http-retry.ts:43-47`), and reading the body (`bridge.ts:135`) takes as long as it takes.
So answers of an earlier closed period, and of an earlier probe, reach the breaker in any of
its states.

### NowPlaying

Each HTTP request is a session in a worker thread. `SessionLocal` has autoflush off,
so a transaction reads, computes, and writes when it commits: one action for the
reads (`...Load`) and one for the commit (`...Commit`), with other sessions in
between. `Merge` is SQLAlchemy's unit of work, which writes only the columns that
differ from what was loaded. `Commits` holds the unique `event_id` and the foreign
keys; `Rollback` is a commit that cannot succeed, and keeps what the request
committed before; `DeadlockVictim` is PostgreSQL's choice in the only cycle of locks
these transactions can form. Only `clear_now_playing` locks what it reads.
A request stands for its song and the requests of an event ask for different songs,
so the fuzzy match finds at most one.

`overlapped` and `byDj` are observers: they record whether HTTP requests have
overlapped so far, and which requests a DJ rather than the bridge put in PLAYING.

### GuestRequests

What guests own in one event. A guest's HTTP request resolves its cookie to a live
guest, locks that guest's row and keeps the lock until its first commit, so it is an
action that locks and reads (`VoteReads`, `RequestReads`, `PickReads`) followed by
one action per commit (`AddVote`, `RemoveVote`, `InsertRequest`; a pick has three:
`PickCounts`, `PickNames`, `InsertRequest`). The first commit gives the lock up,
whatever is still to be written. A row that refers to a guest takes a share of that
guest's lock and fails when the guest is gone: `MayRefer`, `Deleted`. `MergeGuests` and
`DeleteGuest` lock what they touch and commit once, hence one action each; their
locks, one by one, are in `GuestIdentity`. A row's `pick` is the code's
`submitted_during_collection`: `POST /collect` always sets it, `POST /requests` sets it
according to the event's phase (`services/request.py:88`), which is left free here. Only the
former counts its picks against the cap; the observer `counted` tells them apart. `mergedInto` is a guest's tombstone pointer;
a deleted guest points at itself.

### GuestIdentity

The rows of guests with their pointers, e-mails and tokens; every transaction takes
its locks one at a time. `tx[t].todo` are the rows it has yet to lock, `held` those it
has; `LockRow` grants one, in ascending id order for a `SELECT ... ORDER BY id FOR
UPDATE` and in any order for a DELETE of several rows. The advisory lock per e-mail
is held exactly at the places `HasAdvisory` names. `ResolveByToken` is one round of
`resolve_guest_by_token`: read the chain, lock it, read it again under the locks, at
most `LOCK_RETRIES` rounds. What a request then writes is one of two things. A request or
a vote is written under the lock it was resolved with (`WriteOwned`). A pick commits its
count first (`PickCounts`), which gives the lock up, and then writes its profile's
nickname and its row for the guest it remembers (`PickWrites`), whatever has become of that
guest: `owners` are the guests of the former, `picks` those of the latter. `DecideOwner`, `ClaimEmail`, `Merge` and `WidenMerge` are the
confirmation of a code, in which the code's own commit has released the rows that
the cookie had locked. `Deadlocked` is the database ending one of two transactions
that wait on each other. Whether a fingerprint matches and which other gates a match
passes is a free choice; codes are right or the request does not reach the model.

### SetExport and OneShotExport

`SetExport` has the four columns of the claim, the place of each worker in
`export_to_apple_music` (`step`, `mine`), what Apple made of each attempt's request
(`library`), and the finding that a browser tab has yet to submit. Each UPDATE of the
code is an action that may also fail and, when its COMMIT is in doubt, may have been
applied. `Crash` is a restart of the server. `settled` and `misfiled` are history: of
which attempts the outcome is known, and which were closed by a finding that was
about another one, since the request does not name the attempt.

`OneShotExport` is the promise: one claim at a time, which is given up only when Apple
refused the creation, when its playlist is complete, or when it is in doubt and the
DJ has looked. It speaks of one open claim, whether its outcome is in doubt, what Apple
holds and which playlist is recorded. `SetExport` implements it by
`OneShot == INSTANCE OneShotExport WITH open <- claim, inDoubt <- uncertain, apple <- library,
playlist <- playlist`; workers, tabs and history have no counterpart there.

### SetDocument

A request loads the timeline into its session (`read`), edits it there (`write`) and at
its commit writes the columns it changed on the rows as they are by then (`Written`);
no request locks what it reads. An agent's turn is several tools and one commit, a
DJ's request one tool and a commit. `CritiqueSet` is the tool that asks the LLM in the
middle of a turn: the gateway commits the session, and `kept` records that this kept edits.
The imports of the agent's tools are modelled as requests of their own (`ImportCandidate`).
Overlapping requests can leave two slots at one position. A query then lists them in either order
(`OrderedSlots`), `reorder_slot` gives each its index in that list (`Moved`), and a build looks
at one of the locked slots at a position (`OnePerPosition`). A slot's `ref` is what its
`track_id` holds, the provider's id for the songs in `Named` and `pool:<id>` for the
others, which is why a restore, which gives every pool row a new id, has to remap
it. What a build chooses is left free within what it may choose: the scores are
heuristics. Row ids are reused only when nothing refers to them, which bounds them
without confusing two rows.

## Runs

| Run | Bounds | Shows |
|---|---|---|
| `deck_state` | 3 decks, map of 2, threshold 2, grace 1, switch 2 ticks, fader and master on | the role, the timers, the listeners' view, eviction and priority (9 properties) |
| `deck_liveness` | 2 decks, threshold 1 | a paused deck gives the role up; a cued deck is decided about |
| `plugin_bridge` | 1 deck, 2 calls, plugin with play states | what is stopped stays quiet (`StoppedIsQuiet`); a lost device is retried |
| `bridge_client` | 2 tracks, 2 calls, 2 replays, threshold 2, buffer of 2, 2 attempts, 1 for a clear | breaker, its probes, buffer and fate of every track; calls outlast cooldowns |
| `now_playing` | 3 requests, 2 threads, 5 HTTP requests | history, one request playing from the dashboard, every play tracked when nothing overlaps |
| `guest_requests` | 3 guests, 2 songs, 2 threads, 2 requests, 5 HTTP requests, cap 1 | counts, owners of votes, the cap of the counted picks |
| `guest_identity` | 1 device, 2 e-mails, 2 transactions, 3 guests (2 at the start), 1 rotation, 4 HTTP requests, 3 rounds of locking | one owner per e-mail, tombstones that forward, owners that are live, picks that reach one |
| `set_export` | 3 workers, 2 tabs, 4 attempts | one creation at a time, the recovery id, the refinement of `OneShotExport` |
| `set_document` | 2 songs (1 with a provider's id), 1 turn, 1 restore, 6 rows, timelines of up to 4, 3 edits | positions, references and locked slots |
| `single_active`, `agent_turn`, `guest_locks` | as above or smaller | disagreements between what the repository says and what the code does (`PROJECT.json`, findings) |

Why the bounds are enough. A third deck in a map of two makes every deck evictable
and lets a deck compete for the role with another one that is in the map; a
threshold of two ticks lets a pause fall in the middle of a cue, which is where kept
time matters; a switch timer longer than the grace period is the default
configuration (10 s and 3 s). Two calls are the least that overlap, and every pair of
methods does. A buffer of two and a threshold of two are reached by two calls; two
replays overlap when the breaker opens and closes again during the first. `WithoutCleared`
is a VIEW that leaves out the observer of clears, which nothing in that run reads. Five HTTP
requests in two threads cover a post, a PATCH to PLAYING (which needs an accepting
PATCH first) and a clear in every order, each interrupted by another. Three requests let
a PATCH of `now_playing` to PLAYING find two others to retire.

Three guests are a merge chain (one into a second that is merged into a third) with
the votes of all three on one request; two requests are two songs, or one
song asked for twice; a cap of one and two threads let one person,
as two guests, pass it. In `guest_identity` two transactions with three guests cover a
merge while its target is merged or deleted, and every round of locking up to the
last; one device suffices because both transactions may carry its cookie, old or new.
Three workers in `set_export` are a stale one, the owner of the claim and one that is
refused; four attempts outnumber them. In `set_document` a song with a provider's id and
one without are the two kinds of reference; three edits from a timeline of three
reach gaps (a locked slot behind a removal or a shorter build) and what follows them;
a turn and a restore overlap, and snapshots are restored after the rows they name
are gone.

Symmetry is used for slots, tracks, threads, requests, guests and tabs, which no
property tells apart, and only in runs without liveness properties.

The runs of `NowPlaying`, `GuestRequests`, `GuestIdentity` and `SetDocument` set
`CHECK_DEADLOCK FALSE`: the bounds on requests or edits (`MaxOps`, `MaxEdits`) end every
behaviour. `set_export` does not: Apple, a crash or a finding can always happen.

### Configurations kept outside the list

Seven configurations check a statement that this code does not satisfy. They are
kept for whoever changes the code; TLC finds the counterexample in seconds.

| Configuration (module) | Statement | Counterexample |
|---|---|---|
| `DeckFaded` (`MCDeckStateManager`) | `FadedDeckReleased` | a deck that was faded out is paused and resumed; resuming cancels the switch timer, and it keeps the role |
| `PluginBridgeRestart` (`MCPluginBridge`) | `RunningBridgeDecides` | a restart destroys the deck machine and goes on using it, so no timer ever starts again |
| `BreakerStuck` (`MCBridgeClient`) | `ProbeIsDecided` | a command poll takes the half-open breaker's only probe and never records its failure |
| `ClientClear` (`MCBridgeClient`) | `ClearIsAuthoritative` | a post waiting to retry, or a replay, lands after the clear |
| `PlayHistory` (`MCNowPlaying`) | `OneRowPerPlay` | a DJ marks as played what the bridge is playing, and both record it |
| `PickLands` (`MCGuestRequests`) | `RequestsReachLiveGuests` | the count of a pick commits and gives the guest's lock up, and the pick lands on a tombstone |
| `ExportStranded` (`MCSetExport`) | `ClaimIsOwned` | a crash, or a lost answer to the claim's COMMIT, leaves a claim nobody owns and no finding may close |

### Fairness

- Timers fire: `setTimeout` callbacks run once due (weak fairness of each). Time
  diverges: only finitely many events fit between two ticks, so `Tick` has strong
  fairness; a due timer holds it up only until it runs or is cancelled.
- An awaited call of the plugin returns (StageLinQ gives up after 30 s), and a scheduled
  reconnection fires (strong fairness, since commands may cancel and reschedule it).
- Attempts of an HTTP call end (one without headers is aborted after 10 s, a body that is
  being read ends or breaks off) and are retried; the cooldown and
  the debounce run out; heartbeats (30 s) and polls (5 s) keep coming.
- The server's modules have safety properties only: nothing makes a guest or a DJ come
  back, and an HTTP request may be given up at any point.

### Limits of some properties

`EligibleDeckReported` names two exceptions that the code really has: a deck that
resumes from ENDED, and a master flag that is lost without a successor.
`LostDeviceRetried` excepts a bridge that an overlapping stop has cut off from its
plugin. `SerialPlaysAreTracked`, `SerialPositionsUnique` and `SerialSlotsResolve` speak of
HTTP requests that do not overlap: with overlap they are false, as `single_active` shows
for the first; two overlapping restores leave the timeline twice. `LockedSlotsStay`
excepts `reorder_slot` on a timeline with a gap, or with two slots at one position, which
renumbers locked slots it has not looked at, and is about tools, not about the commit of a critique in the middle of
a turn, after which the turn goes on with what others have committed. `OneDjPlaying` counts
the requests whose PATCH went through: a PATCH that fails half-way, because a request it
was to retire has been deleted, leaves two PLAYING (`services/request.py:170`).
`OneOpenCreation` excepts an attempt that a finding about another one closed. `OwnersAreLive` is
about what is written under the lock that the cookie was resolved with; a pick is not, may
belong to a tombstone, and has `PickReachesGuest`. `PicksAreCounted` is about the picks of
`POST /collect`; those of `POST /requests` in the collection phase are not counted, and no
cap applies to them. `OneProbePerCooldown` bounds the calls that start, not those under way: a
call that outlasts its period goes on beside the next probe. `StoppedIsQuiet` and the composition are checked with a plugin that reports
play states; `PluginBridgeRestart` uses one that does not, where a load plays at once.

## Proofs

### The deck machine

`DeckStateManagerProofs` proves, for every set of decks, every capacity, every
timing and every configuration allowed by the assumptions of `DeckStateManager`
(`DecksAssumption`, `NoTrackAssumption`, `ConfigAssumption`), that in every reachable
state of `Spec`: the types hold, the now-playing deck is PLAYING and was reported, the
listeners' view is the manager's, a waiting deck has a timer with exactly the
missing time, and the switch timer has an owner.

The invariants are not inductive one by one. `NowPlayingIsReported` needs a paused
PLAYING deck to be the only way out of the role by time, `WaitingDeckHasTimer` needs
the ages to be set while a deck waits, and both need the types. `Inv` is their
strengthening: `DeckOK`, a condition on one deck and its timer (so that a step on
one deck leaves the others' conjunct alone), and `RoleOK`, a condition on the role,
the switch timer and what listeners were told. The proof has a lemma per action; those
that end in a report or a scan share `Settled`, what such an ending leaves behind
whatever it decides, and the look-up has its own lemmas (`LookUp...`), in which
eviction never takes a PLAYING deck and hence never the role.

The capacity of the map, the single master and the four action properties
(`PlayingNeverEvicted`, `ThresholdHonoured`, `PriorityHeld`, `EligibleDeckReported`) rest on
`Inv` and on `MapOK`, which adds the map. Every step is shown to satisfy `StepOK`, the
action properties as one relation between a state and the next; the lemmas compare the
deck maps before and after a look-up (`Quiet`), a report and a scan (`SameMap`).

### The connection

`PluginBridgeProofs` cannot use those theorems: in the composition the manager is
destroyed and used again, calls overlap, and a timer may find its deck gone, so what the
deck machine keeps is proved again from less (`DeckStepOK`). `BridgeInv` strengthens
`StoppedIsQuiet`, which speaks of a bridge whose calls are over, to every state: a destroyed
manager has no timer pending; a bridge that does not run has no reconnection scheduled; a
manager nobody listens to was cleared when its listeners went; and only a stop still in
progress leaves a stopped bridge listening. That a device may report a loss while the
plugin is being stopped does not hurt: a bridge that stops has cleared its running flag first,
and schedules nothing (`plugin-bridge.ts:201`, `224`). The proof has a lemma per await of every call.

### The backend client

`BridgeClientProofs` proves the types and the buffer's capacity, `BreakerConsistent`,
`OneProbePerCooldown`, and `NoTrackVanishes`: whatever a step does, a track that was in flight or buffered still is,
or it was shown, or dropped as the oldest of a full buffer, or part of a replay given up.
`ClientInv` adds what a call of each kind carries (`CallInv`). Nothing is assumed about how
long calls take: the breaker waits for a probe exactly while it is half open, because every
answer, whichever call it belongs to, both moves it out of that state and ends the waiting.

### Now playing

`NowPlayingInv` has a part for each property, tied to what a worker has read and not yet
written. `OrdersInv`: no order a worker has read is more than one above the history's, so
the unique constraint leaves no gap. `ClearInv`: the row that a clear has locked is the row
it loaded; with `FreshInv`, that a worker's number for a new row is on no row, no loaded
row and no cleared entry, a play is archived once by clears. `DjInv`: of two requests a DJ
has in PLAYING, a PATCH still in progress will retire one. `SerialInv` says phase by phase
what the only busy worker knows. The steps fall into classes (`NumberStep`, `HistoryStep`,
`RowStep`, `LockStep`) so that each part is proved once for each class.

### Votes and picks

`VoteInv` needs the row lock of the guest: while a vote or the count of a pick is in
progress its guest is live and locked by it, so what it read stays so (`LockInv`, `ReadInv`).
`PicksAreCounted` is not inductive, because a merge adds the counts of two guests whose
picks are on their way: `PickInv` counts the counted picks that a session has still to write, and
`CapInv` says that the guests that are gone can be given to heirs such that each live guest
has at most the caps of those it inherits. `CountMatchesVotes` is about the cardinality of
sets of votes under merges that drop doubles. `GuestRequestsFinite` (finitely many guests
and threads) is assumed for these counts.

### Guest identity

`IdentityInv`: rows are typed, forward to live guests and own nothing once dead (`RowInv`);
`TxGood` is what a transaction knows at each place in the code, above all that the rows it
was granted are still there, because no other transaction holds their locks and ids are
never given out again; `PairInv`, that locks and e-mails are not shared by two
transactions that decide. `TombstonesForward`, `OwnersAreLive` and `PickReachesGuest` are part of it,
and `OneEmailOwner` follows from the advisory lock. A pick holds no lock when it writes; that it
reaches a live guest needs only that a row which is there is live or forwards to one, and
that merges and deletions take the picks of every row they touch with them (`Goes`).

### The set document

`SetDocumentProofs` is for any songs, turns, restores and bounds. `DocInv` is types in every
state and, while requests have not overlapped, `Serial`: the request in progress is alone
and has read the timeline as it is; the timeline, its own view, the snapshot and the
document it restores have distinct positions (`Distinct`) and references that resolve
(`Resolves`; for a document, `DocResolves`, which also says that what it does not find in its
own pool is not in today's pool either, or a restore could bring a reference back to a
stranger's row). Types are proved for requests that overlap, too. Every tool is shown to
satisfy `ToolOK`, which relates the timeline before and after it, and from which positions,
references and locked slots follow; for `reorder_slot` that takes lemmas on the orders of a query
(`OrderFacts`, `OrderCounts`: on a contiguous timeline there is one, and it counts the slots
below each), for a build and a restore on matching
two finite sets of ids in order. `SetDocumentAssumption` says what the proofs need of ids: a
provider's id is never a pool row's (the code tells them apart by the prefix `pool:`), and
there is a row for each song of the initial set and one more.

### The export

`SetExportProofs` proves, for any number of workers, tabs and attempts
(`SetExportAssumption`), the three invariants of `set_export` and that `SetExport` implements
`OneShotExport`.

`OneOpenCreation` speaks of requests already made, so it says nothing about the worker
that is about to make one. `ExportInv` adds: a worker about to ask holds the claim, which
is not in doubt, and its attempt is unasked (`CreateInv`); what Apple answered is what
the worker's place says (`AnswerInv`); an attempt has at most one worker (`OwnerInv`,
without which an answer for one would change what another's place says); any request
that is neither settled nor given up is the claim's (`OpenInv`, from which `OneOpenCreation`
follows at once); a finding names a playlist that exists (`FindingInv`); and the recovery
id is the claim's (`RecoveryIsTheClaims`), which `FinishExport` needs to close the right
claim. There is a lemma per action. `Simulation` maps every step under `ExportInv` to a step
of `OneShotExport` or a stutter, and `ImplementsOneShot` follows.

### Only model-checked

Every invariant and every action property of the passing runs is stated by a theorem (and two
more are only proved: `SingleMaster` and `CapacityRespected`). The
liveness properties (`PausedDeckReleased`, `CuedDeckDecides`, `LostDeviceRetried`) stay with
TLC: liveness under fairness needs ENABLED, which is beyond this prover. So does what
the runs that expect a violation show: they are counterexamples. `CHOOSE` in `InOrder` and
`Old` is handled through lemmas on ranks (`RankFacts`, `RankOnto`), with bijections from the
library's theorems on finite sets in place of induction.

## Not modelled, and why

- Logging, formatting, album art, visibility of the kiosk display, metadata: no state
  that the properties speak of.
- The bridge's shutdown on a signal, which is a stop, a clear and a status post in
  sequence before the process exits; the Electron app's own posting loop.
- The fuzzy match's score: `fuzzy_match_pending_request` finds a request for the same
  song, in NEW or ACCEPTED, if there is one.
- Crashes of the server between two commits of one PATCH.
- Codes themselves: how many an e-mail may have in an hour, wrong attempts, expiry.
  They are counters that one locked row or the advisory lock guards. Nicknames that an
  admin edits.
- The command queue (an in-memory list per event that a poll empties), kiosk pairing
  (a row with a status and an expiry) and the event stream (an in-memory fan-out): the
  hazards name what can go wrong in each, no module covers it yet.
- Playlist sync and enrichment: background tasks that write what an external service
  answered; the interesting part is which of two overlapping writes wins.
- The set builder's scores, curves, vibes and pairings are numerical heuristics over real
  numbers; collaboration, enrichment of the pool and the Tidal, Beatport and file exports
  write without a protocol of their own.
- The LLM gateway's fallback over connectors, accounts, signed cookies, human
  verification and health probes: state of one row, written by one request.
- The components marked `not_modelled` in `PROJECT.json`, each with its reason.

More hazards of the modelled code, which the list leaves out because no property is
about them: a disconnect leaves the deck timers running (`plugin-bridge.ts:199`); the last
track key is never reset, so the same track after a clear is not posted
(`index.ts:104`); the debounce drops a track instead of delaying it (`bridge.ts:91`); a
post whose answer is lost archives its own first copy (`bridge_integration.py:132`); the
matched request is read before look-ups that take seconds (`bridge_integration.py:110`);
a PATCH commits three times (`api/requests.py:139`); two writers leave a row with columns
of both (`now_playing.py:401`); a post and a clear wait for each other's rows
(`bridge_integration.py:264`); a deck resumed from ENDED is not reported
(`deck-state-manager.ts:209`); a build loses a lock that another session has just
committed (`pass1_deterministic.py`); an import by hand or by the agent queues no
enrichment (`api/setbuilder.py:1455`); a PATCH to PLAYING whose second commit fails leaves
two requests PLAYING (`services/request.py:170`); a loss that a device reports while a
reconnection stops the plugin schedules one more reconnection (`plugin-bridge.ts:201`); a guest
makes more picks than the cap allows through the public request endpoint
(`services/request.py:88`); a track that was buffered waits for the next success that closes the
breaker, and is not replayed by one that finds it closed (`bridge.ts:49`).

## Plan

Done, in this order, the most important behaviour first: deck machine and its proofs,
connection, backend client, server side of now playing; then guests' requests and
votes, guest identity, the export with its abstract specification and proofs, the set
document; then the proofs of every safety property of every module.

Next:

1. `CommandQueue` with the poller: at-most-once delivery, expiry, a lost answer.
2. `LiveDisplay`, an abstract specification of what a guest sees (at most one track,
   cleared when nothing plays), that `DeckStateManager` implements under a refinement
   mapping, and `BridgeClient` composed with `NowPlaying`.
3. `KioskPairing`; sync results of overlapping background tasks; the pool's enrichment.

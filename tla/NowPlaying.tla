---------------------------- MODULE NowPlaying ----------------------------
(* The server's side of "what is playing": the single now_playing row of an *)
(* event, its play history and the status of its song requests, written by *)
(* three independent callers: the bridge (POST and DELETE                  *)
(* /bridge/nowplaying), the DJ's dashboard (PATCH and bulk operations on   *)
(* requests), and the removal of requests.                                 *)
(*                                                                         *)
(* Every HTTP request is a session that runs in a worker thread.  The      *)
(* database is PostgreSQL at READ COMMITTED, and SessionLocal has          *)
(* autoflush=False (db/session.py:26), so a session reads, computes, and   *)
(* writes at its commit: each transaction is a reading action followed by  *)
(* a committing action, and other sessions run in between.  Only           *)
(* clear_now_playing locks what it reads.                                  *)
EXTENDS Integers, Sequences, FiniteSets

CONSTANTS
    Requests,   \* the song requests of one event
    Fillers,    \* tracks the DJ plays that nobody requested
    Sessions,   \* worker threads serving HTTP requests
    MaxOps,     \* bound: HTTP requests served in a behaviour
    None

ASSUME NowPlayingAssumption ==
    /\ MaxOps \in Nat \ {0}
    /\ Requests \cap Fillers = {}
    /\ None \notin Requests \cup Fillers \cup Sessions

VARIABLES
    status,     \* Request.status, "deleted" once the row is gone
    row,        \* the now_playing row
    history,    \* play_history, in the order of the commits
    lock,       \* the session holding the row lock of SELECT ... FOR UPDATE
    session,    \* what each session is doing and what it has read
    begun,      \* HTTP requests begun: a request's number is also its utcnow()
    byDj,       \* observer: requests last moved to PLAYING by a PATCH that has not failed
    overlapped  \* observer: some HTTP request began while another was in progress

vars == <<status, row, history, lock, session, begun, byDj, overlapped>>

(* A request stands for its song, so a track is a request's song or a filler. *)
Tracks == Requests \cup Fillers
Statuses == {"new", "accepted", "playing", "played", "rejected"}

ValidTransitions ==
    [new |-> {"accepted", "rejected"}, accepted |-> {"playing", "rejected"},
     playing |-> {"played"}, rejected |-> {"new"}, played |-> {}, deleted |-> {}]

(* title None is the empty title of a cleared or placeholder row. *)
Rows == [exists: BOOLEAN, title: Tracks \cup {None}, source: {"bridge", "manual"},
         matched: Requests \cup {None}, started: 0..MaxOps]
NoRow == [exists |-> FALSE, title |-> None, source |-> "manual",
          matched |-> None, started |-> 0]

Idle == [at |-> "idle", id |-> 0, req |-> None, to |-> None,
         read |-> {}, loaded |-> NoRow, order |-> 0]

---------------------------------------------------------------------------
(* Reading and committing *)

Playing == {r \in Requests : status[r] = "playing"}
Exists(S) == \A r \in S : status[r] # "deleted"

(* Mutants: orders start at 0; the next order is taken from the number of entries. *)
NextPlayOrderFromZero ==
    LET used == {history[i].order : i \in DOMAIN history}
    IN  IF used = {} THEN 0 ELSE 1 + CHOOSE m \in used : \A n \in used : n <= m
NextPlayOrderByCount == 1 + Len(history)

(* get_next_play_order: one more than the greatest order committed so far. *)
NextPlayOrder ==
    LET used == {history[i].order : i \in DOMAIN history}
    IN  IF used = {} THEN 1 ELSE 1 + CHOOSE m \in used : \A n \in used : n <= m

Quiescent == \A s \in Sessions : session[s].at = "idle"

Turn(s, next) == session' = [session EXCEPT ![s] = next]

(* An HTTP request arrives in an idle worker, which reads what it needs first. *)
Begin(s, first) ==
    /\ session[s].at = "idle"
    /\ begun < MaxOps
    /\ begun' = begun + 1
    /\ overlapped' = (overlapped \/ ~Quiescent)
    /\ Turn(s, [first EXCEPT !.id = begun + 1])

(* The row as the session loads it, with the order of the entry it may archive. *)
Loading(s, at) == [session[s] EXCEPT !.at = at, !.loaded = row, !.order = NextPlayOrder]

(* SQLAlchemy writes the attributes whose value differs from the loaded one: *)
(* a column set to the value it was loaded with keeps what is in the database. *)
Merge(loaded, new) == [f \in DOMAIN row |-> IF new[f] = loaded[f] THEN row[f] ELSE new[f]]

(* Mutant: what the DJ played by hand is not archived when it is replaced. *)
ArchivedBridgeOnly(self, by) ==
    IF self.loaded.title = None \/ self.loaded.source = "manual" THEN history
    ELSE Append(history, [order |-> self.order, title |-> self.loaded.title,
                          matched |-> self.loaded.matched, source |-> self.loaded.source,
                          started |-> self.loaded.started, by |-> by])

(* archive_to_history: the loaded row becomes a history entry, if it has a title. *)
Archived(self, by) ==
    IF self.loaded.title = None THEN history
    ELSE Append(history, [order |-> self.order, title |-> self.loaded.title,
                          matched |-> self.loaded.matched, source |-> self.loaded.source,
                          started |-> self.loaded.started, by |-> by])

(* The requests an archived entry refers to. *)
Refs(self) == IF self.loaded.title = None THEN {} ELSE {self.loaded.matched} \ {None}

(* A commit that writes the row: it waits for the row's lock, an INSERT needs *)
(* the row to be still missing (now_playing.event_id is unique), and the      *)
(* requests updated or referred to must not have been deleted meanwhile.      *)
Unlocked(s) == lock \in {None, s}
Commits(s, refs) ==
    /\ Unlocked(s)
    /\ session[s].loaded.exists = row.exists
    /\ Exists(refs)

Blanked(self) == [self.loaded EXCEPT !.title = None, !.matched = None, !.started = self.id]

---------------------------------------------------------------------------
(* POST /bridge/nowplaying: handle_now_playing_update *)

Matches(track) == {r \in Requests : r = track /\ status[r] \in {"new", "accepted"}}

(* The fuzzy match is read first; the album-art lookups that follow take seconds. *)
NowPlayingMatch(s, track) ==
    /\ \E m \in IF Matches(track) = {} THEN {None} ELSE Matches(track) :
          Begin(s, [Idle EXCEPT !.at = "posting", !.to = track, !.req = m])
    /\ UNCHANGED <<status, row, history, lock, byDj>>

NowPlayingLoad(s) ==
    /\ session[s].at = "posting"
    /\ Turn(s, [Loading(s, "upserting") EXCEPT !.read = Playing])
    /\ UNCHANGED <<status, row, history, lock, begun, byDj, overlapped>>

PostRefs(self) == self.read \cup ({self.req} \ {None}) \cup Refs(self)

NowPlayingCommit(s) ==
    LET self == session[s]
        new  == [exists |-> TRUE, title |-> self.to, source |-> "bridge",
                 matched |-> self.req, started |-> self.id]
    IN  /\ self.at = "upserting"
        /\ Commits(s, PostRefs(self))
        /\ history' = Archived(self, "post")
        /\ row' = Merge(self.loaded, new)
        /\ status' = [r \in Requests |-> IF r = self.req THEN "playing"
                                         ELSE IF r \in self.read THEN "played"
                                         ELSE status[r]]
        /\ byDj' = byDj \ {self.req}
        /\ Turn(s, Idle)
        /\ UNCHANGED <<lock, begun, overlapped>>

(* POST /bridge/status: the placeholder row of an event that has none. *)
UpdateBridgeStatus ==
    /\ ~row.exists
    /\ row' = [NoRow EXCEPT !.exists = TRUE]
    /\ overlapped' = (overlapped \/ ~Quiescent)
    /\ UNCHANGED <<status, history, lock, session, begun, byDj>>

---------------------------------------------------------------------------
(* DELETE /bridge/nowplaying: clear_now_playing *)

(* Mutant: the row is read without FOR UPDATE. *)
ClearLoadUnlocked(s) ==
    /\ row.exists /\ row.title # None
    /\ Begin(s, [Loading(s, "clearing") EXCEPT
                    !.read = {r \in {row.matched} \ {None} : status[r] = "playing"}])
    /\ UNCHANGED <<status, row, history, lock, byDj>>

ClearLoad(s) ==
    /\ row.exists /\ row.title # None
    /\ lock = None
    /\ lock' = s
    /\ Begin(s, [Loading(s, "clearing") EXCEPT
                    !.read = {r \in {row.matched} \ {None} : status[r] = "playing"}])
    /\ UNCHANGED <<status, row, history, byDj>>

ClearCommit(s) ==
    LET self == session[s]
    IN  /\ self.at = "clearing"
        /\ Commits(s, self.read \cup Refs(self))
        /\ history' = Archived(self, "clear")
        /\ row' = Merge(self.loaded, Blanked(self))
        /\ status' = [r \in Requests |-> IF r \in self.read THEN "played" ELSE status[r]]
        /\ lock' = None
        /\ Turn(s, Idle)
        /\ UNCHANGED <<begun, byDj, overlapped>>

---------------------------------------------------------------------------
(* PATCH /requests/{id}: update_request *)

(* The request is loaded and the transition validated against what was loaded. *)
PatchLoad(s, r, to) ==
    /\ to \in ValidTransitions[status[r]]
    /\ Begin(s, [Idle EXCEPT !.at = "patching", !.req = r, !.to = to])
    /\ UNCHANGED <<status, row, history, lock, byDj>>

AfterPatch == [accepted |-> "idle", rejected |-> "idle", new |-> "idle",
               playing |-> "scanning", played |-> "retiring"]

UpdateRequestStatus(s) ==
    LET self == session[s]
        next == AfterPatch[self.to]
    IN  /\ self.at = "patching"
        /\ Exists({self.req})
        /\ status' = [status EXCEPT ![self.req] = self.to]
        /\ byDj' = IF self.to = "playing" THEN byDj \cup {self.req} ELSE byDj
        /\ Turn(s, IF next = "idle" THEN Idle ELSE [self EXCEPT !.at = next])
        /\ UNCHANGED <<row, history, lock, begun, overlapped>>

(* Mutant: only the request now_playing is linked to is looked at. *)
LinkedPlayingLoad(s) ==
    LET self == session[s]
    IN  /\ self.at = "scanning"
        /\ Turn(s, [self EXCEPT !.at = "retiring_others",
                                !.read = (Playing \cap {row.matched}) \ {self.req}])
        /\ UNCHANGED <<status, row, history, lock, begun, byDj, overlapped>>

(* clear_other_playing_requests reads after the status change has committed, *)
(* and commits a second time.                                                *)
OtherPlayingLoad(s) ==
    LET self == session[s]
    IN  /\ self.at = "scanning"
        /\ Turn(s, [self EXCEPT !.at = "retiring_others", !.read = Playing \ {self.req}])
        /\ UNCHANGED <<status, row, history, lock, begun, byDj, overlapped>>

OtherPlayingCommit(s) ==
    LET self == session[s]
    IN  /\ self.at = "retiring_others"
        /\ Exists(self.read)
        /\ status' = [r \in Requests |-> IF r \in self.read THEN "played" ELSE status[r]]
        /\ Turn(s, [self EXCEPT !.at = "showing", !.read = {}])
        /\ UNCHANGED <<row, history, lock, begun, byDj, overlapped>>

(* set_manual_now_playing, a third transaction *)
ManualNowPlayingLoad(s) ==
    /\ session[s].at = "showing"
    /\ Turn(s, Loading(s, "upserting_manual"))
    /\ UNCHANGED <<status, row, history, lock, begun, byDj, overlapped>>

ManualNowPlayingCommit(s) ==
    LET self == session[s]
        new  == [exists |-> TRUE, title |-> self.req, source |-> "manual",
                 matched |-> self.req, started |-> self.id]
    IN  /\ self.at = "upserting_manual"
        /\ Commits(s, {self.req} \cup Refs(self))
        /\ history' = Archived(self, "manual")
        /\ row' = Merge(self.loaded, new)
        /\ Turn(s, Idle)
        /\ UNCHANGED <<status, lock, begun, byDj, overlapped>>

(* clear_manual_now_playing leaves a row alone that is not this request's. *)
RetireManualLoad(s) ==
    /\ session[s].at = "retiring"
    /\ LET mine == row.exists /\ row.source = "manual" /\ row.matched = session[s].req
       IN  Turn(s, IF mine THEN Loading(s, "blanking")
                   ELSE [session[s] EXCEPT !.at = "recording"])
    /\ UNCHANGED <<status, row, history, lock, begun, byDj, overlapped>>

RetireManualCommit(s) ==
    LET self == session[s]
    IN  /\ self.at = "blanking"
        /\ Commits(s, {self.req} \cup Refs(self))
        /\ history' = Archived(self, "retire")
        /\ row' = Merge(self.loaded, Blanked(self))
        /\ Turn(s, [self EXCEPT !.at = "recording", !.loaded = NoRow])
        /\ UNCHANGED <<status, lock, begun, byDj, overlapped>>

(* add_manual_play: no second manual entry for the request, as far as it can see. *)
Recorded(r) == \E i \in DOMAIN history : history[i].matched = r /\ history[i].source = "manual"

ManualPlayLoad(s) ==
    LET self == session[s]
    IN  /\ self.at = "recording"
        /\ Turn(s, IF Recorded(self.req) THEN Idle
                   ELSE [self EXCEPT !.at = "adding", !.order = NextPlayOrder])
        /\ UNCHANGED <<status, row, history, lock, begun, byDj, overlapped>>

ManualPlayCommit(s) ==
    LET self == session[s]
    IN  /\ self.at = "adding"
        /\ Exists({self.req})
        /\ history' = Append(history, [order |-> self.order, title |-> self.req,
                                       matched |-> self.req, source |-> "manual",
                                       started |-> self.id, by |-> "add"])
        /\ Turn(s, Idle)
        /\ UNCHANGED <<status, row, lock, begun, byDj, overlapped>>

---------------------------------------------------------------------------
(* accept_all_new_requests, reject_all_new_requests, and deletion *)

BulkLoad(s, to) ==
    LET new == {r \in Requests : status[r] = "new"}
    IN  /\ new # {}
        /\ Begin(s, [Idle EXCEPT !.at = "bulk", !.to = to, !.read = new])
        /\ UNCHANGED <<status, row, history, lock, byDj>>

BulkCommit(s) ==
    LET self == session[s]
    IN  /\ self.at = "bulk"
        /\ Exists(self.read)
        /\ status' = [r \in Requests |-> IF r \in self.read THEN self.to ELSE status[r]]
        /\ Turn(s, Idle)
        /\ UNCHANGED <<row, history, lock, begun, byDj, overlapped>>

(* delete_request, and bulk_delete_requests for one status: the foreign keys *)
(* that name a deleted request are ON DELETE SET NULL, on the row too.       *)
DeleteRequests(S) ==
    LET Cut(matched) == IF matched \in S THEN None ELSE matched
    IN  /\ Exists(S)
        /\ begun < MaxOps
        /\ begun' = begun + 1
        /\ overlapped' = (overlapped \/ ~Quiescent)
        /\ row.matched \in S => lock = None
        /\ status' = [r \in Requests |-> IF r \in S THEN "deleted" ELSE status[r]]
        /\ row' = [row EXCEPT !.matched = Cut(@)]
        /\ history' = [i \in DOMAIN history |-> [history[i] EXCEPT !.matched = Cut(@)]]
        /\ UNCHANGED <<lock, session, byDj>>

(* The requests a session at a commit updates or refers to *)
Touched(self) ==
    CASE self.at = "upserting" -> PostRefs(self)
      [] self.at \in {"upserting_manual", "blanking"} -> {self.req} \cup Refs(self)
      [] self.at \in {"retiring_others", "bulk"} -> self.read
      [] self.at \in {"patching", "showing", "recording", "adding"} -> {self.req}
      [] OTHER -> {}

(* A transaction that cannot commit is rolled back and the caller gets a 500: a *)
(* request it needs has been deleted, or another session inserted the row.  What *)
(* the session committed before stays: a PATCH to PLAYING that fails to retire    *)
(* the others leaves its own request PLAYING beside them.                        *)
Rollback(s) ==
    LET self == session[s]
    IN  /\ \/ ~Exists(Touched(self))
           \/ /\ self.at \in {"upserting", "upserting_manual"}
              /\ Unlocked(s)
              /\ self.loaded.exists # row.exists
        /\ Turn(s, Idle)
        /\ byDj' = IF self.at = "retiring_others" THEN byDj \ {self.req} ELSE byDj
        /\ UNCHANGED <<status, row, history, lock, begun, overlapped>>

(* A POST that holds the requests it updates while it waits for the row, and a *)
(* DELETE that holds the row while it waits for one of those requests: the     *)
(* database breaks the deadlock by rolling one of them back.                   *)
DeadlockVictim(s, t) ==
    /\ session[s].at = "upserting" /\ session[t].at = "clearing"
    /\ (session[s].read \cup {session[s].req}) \cap session[t].read # {}
    /\ \/ Turn(s, Idle) /\ lock' = lock
       \/ Turn(t, Idle) /\ lock' = None
    /\ UNCHANGED <<status, row, history, begun, byDj, overlapped>>

---------------------------------------------------------------------------
(* The server *)

NowPlayingInit ==
    /\ status = [r \in Requests |-> "new"]
    /\ row = NoRow
    /\ history = <<>>
    /\ lock = None
    /\ session = [s \in Sessions |-> Idle]
    /\ begun = 0
    /\ byDj = {}
    /\ overlapped = FALSE

Bridge(s) ==
    \/ \E track \in Tracks : NowPlayingMatch(s, track)
    \/ NowPlayingLoad(s) \/ NowPlayingCommit(s)
    \/ ClearLoad(s) \/ ClearCommit(s)

Dashboard(s) ==
    \/ \E r \in Requests, to \in Statuses : PatchLoad(s, r, to)
    \/ UpdateRequestStatus(s)
    \/ OtherPlayingLoad(s) \/ OtherPlayingCommit(s)
    \/ ManualNowPlayingLoad(s) \/ ManualNowPlayingCommit(s)
    \/ RetireManualLoad(s) \/ RetireManualCommit(s)
    \/ ManualPlayLoad(s) \/ ManualPlayCommit(s)
    \/ \E to \in {"accepted", "rejected"} : BulkLoad(s, to)
    \/ BulkCommit(s)

NowPlayingNext ==
    \/ \E s \in Sessions : Bridge(s) \/ Dashboard(s) \/ Rollback(s)
    \/ \E s, t \in Sessions : DeadlockVictim(s, t)
    \/ UpdateBridgeStatus
    \/ \E r \in Requests : DeleteRequests({r})
    \/ \E st \in Statuses : LET S == {r \in Requests : status[r] = st}
                            IN  S # {} /\ DeleteRequests(S)

NowPlayingSpec == NowPlayingInit /\ [][NowPlayingNext]_vars

---------------------------------------------------------------------------
(* Properties *)

(* The row, the requests and the history have the types of their columns; a  *)
(* committed entry's order is at least 1.                                     *)
NowPlayingTypeOK ==
    /\ status \in [Requests -> Statuses \cup {"deleted"}]
    /\ row \in Rows
    /\ \A i \in DOMAIN history :
          history[i].order \in Nat \ {0} /\ history[i].title \in Tracks
    /\ lock \in Sessions \cup {None}
    /\ begun \in 0..MaxOps

(* Single-active playing, as far as the dashboard alone is concerned: each PATCH *)
(* to PLAYING commits before it looks for the others, so of two that overlap the *)
(* later one sees the earlier one.  Once every session is done, at most one of   *)
(* the requests a DJ put in PLAYING still is, whatever the bridge posts meanwhile *)
(* and whatever is deleted.  A PATCH that answered 500 because a request it had   *)
(* to retire was deleted is not counted: it retired none of them.                *)
OneDjPlaying == Quiescent => Cardinality(byDj \cap Playing) <= 1

(* Two entries may get the same order, because an order is read before the entry *)
(* is committed, but the orders never have a gap: setbuilder's play-history      *)
(* feedback takes consecutive orders for consecutive plays.                      *)
PlayOrdersDense ==
    \A i \in DOMAIN history : \A n \in 1..history[i].order :
        \E j \in DOMAIN history : history[j].order = n

(* The bridge's DELETE archives a play at most once however often it is retried *)
(* and however the retries overlap with posts and with the dashboard: that is   *)
(* what the row lock is for.                                                    *)
ClearsArchiveOnce ==
    \A i, j \in DOMAIN history :
        /\ history[i].by = "clear" /\ history[j].by = "clear"
        /\ history[i].started = history[j].started
        => i = j

(* While HTTP requests have never overlapped, the request that is PLAYING is    *)
(* the one now_playing shows and is linked to, so there is at most one, and no   *)
(* play is lost: a request that is PLAYED, by whichever of the four paths, is in *)
(* the play history.                                                             *)
SerialPlaysAreTracked ==
    Quiescent /\ ~overlapped =>
        /\ \A r \in Playing : row.title = r /\ row.matched = r
        /\ \A r \in Requests : status[r] = "played" =>
              \E i \in DOMAIN history : history[i].matched = r

(* "Single-active playing: only one request per event may be PLAYING"         *)
(* (ARCHITECTURE.md).  A bridge post that reads the playing requests before a *)
(* PATCH commits, and commits after the PATCH has looked, leaves two.         *)
SingleActivePlaying == Quiescent => Cardinality(Playing) <= 1

(* "One row per track played during an event" (models/play_history.py).  A      *)
(* request is played once, PLAYED being final, but a DJ who marks the request   *)
(* the bridge is playing as played gets a manual entry, and the bridge's own is *)
(* archived when its track ends.                                                *)
OneRowPerPlay ==
    \A i, j \in DOMAIN history :
        history[i].matched = history[j].matched /\ history[i].matched # None => i = j

=============================================================================

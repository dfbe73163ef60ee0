--------------------------- MODULE GuestRequests ---------------------------
(* What guests own in one event: the requests they made, the votes they cast, *)
(* the picks counted against their submission cap, and what becomes of all of *)
(* it when two guests turn out to be one person (merge) or an admin deletes a *)
(* guest.  The DJ's reviews and deletions run beside them.                    *)
(*                                                                            *)
(* A guest's HTTP request locks the guest's row when it resolves the cookie   *)
(* and keeps the lock until its first commit (PostgreSQL, READ COMMITTED,     *)
(* autoflush=False): it is an action that locks and reads followed by one     *)
(* action per commit.  A merge and an admin's deletion lock what they touch   *)
(* and commit once; each is one action, GuestIdentity has their row locks.    *)
EXTENDS Integers, FiniteSets

CONSTANTS
    Guests,      \* guest rows; all verified their e-mail
    Songs,       \* dedupe keys
    Sessions,    \* worker threads serving HTTP requests
    MaxRequests, \* bound: request rows ever created
    MaxOps,      \* bound: HTTP requests served in a behaviour
    Cap,         \* Event.submission_cap_per_guest, 0 is unlimited
    None

ASSUME GuestRequestsAssumption ==
    /\ MaxRequests \in Nat \ {0} /\ MaxOps \in Nat \ {0} /\ Cap \in Nat
    /\ None \notin Guests \cup Songs \cup Sessions

(* The cap counts guests and sessions; a database and a server have finitely  *)
(* many.                                                                      *)
ASSUME GuestRequestsFinite == IsFiniteSet(Guests) /\ IsFiniteSet(Sessions)

VARIABLES
    requests,   \* the rows of requests, by id
    created,    \* ids given out
    votes,      \* the rows of request_votes that have a guest: <<id, guest>>
    profiles,   \* GuestProfile.submission_count, NoProfile without a row
    mergedInto, \* Guest.merged_into_guest_id; None is a live guest, a deleted one points at itself
    lock,       \* the session holding a guest row FOR UPDATE
    session,    \* what each worker has read and still has to write
    begun       \* HTTP requests begun

vars == <<requests, created, votes, profiles, mergedInto, lock, session, begun>>
data == <<requests, created, votes, profiles, mergedInto>>

NoProfile == -1
Ids == 1..MaxRequests
Rows == [song : Songs, guest : Guests \cup {None}, status : {"new", "accepted", "rejected"},
         count : Nat,       \* vote_count
         anonymised : Nat,  \* rows of request_votes whose guest is NULL
         pick : BOOLEAN,    \* submitted_during_collection
         counted : BOOLEAN] \* observer: made by POST /collect, behind the check of the cap

Idle == [op |-> "idle", guest |-> None, id |-> 0, song |-> None, counted |-> FALSE,
         read |-> 0, ids |-> {}, to |-> "new"]

Live(g) == mergedInto[g] = None
Survivor(g) == IF Live(g) THEN g ELSE mergedInto[g]

---------------------------------------------------------------------------
(* A guest's request *)

Begin(s, next) ==
    /\ session[s] = Idle
    /\ begun < MaxOps
    /\ begun' = begun + 1
    /\ session' = [session EXCEPT ![s] = next]

(* Mutant: the cookie is resolved without a lock. *)
FreeAlways(g) == TRUE

Free(g) == lock[g] = None

(* The cookie of g, locked: a tombstone's cookie stands for the survivor. *)
Resolve(s, g, next) ==
    LET h == Survivor(g)
    IN  /\ Live(h) /\ Free(h)
        /\ lock' = [lock EXCEPT ![h] = s]
        /\ Begin(s, [next EXCEPT !.guest = h])
        /\ UNCHANGED data

Done(s) == session' = [session EXCEPT ![s] = Idle]
Release(s) == lock' = [g \in Guests |-> IF lock[g] = s THEN None ELSE lock[g]]
Commit(s, next) ==
    /\ session' = [session EXCEPT ![s] = next]
    /\ Release(s)
    /\ UNCHANGED begun

HasVoted(i, g) == <<i, g>> \in votes

(* A vote, an unvote, and a request or a pick that duplicates another one. *)
VoteReads(s, g, i, op) ==
    /\ i \in DOMAIN requests
    /\ Resolve(s, g, [Idle EXCEPT !.op = op, !.id = i,
                                  !.read = IF HasVoted(i, Survivor(g)) THEN 1 ELSE 0])

Counted(rows, i, d) ==
    IF i \notin DOMAIN rows THEN rows
    ELSE [rows EXCEPT ![i].count = IF @ + d < 0 THEN 0 ELSE @ + d]

(* A request deleted since, or a vote that is there already, changes nothing. *)
AddVote(s) ==
    LET v == session[s]
    IN  /\ v.op = "vote"
        /\ IF v.read = 1 \/ v.id \notin DOMAIN requests \/ HasVoted(v.id, v.guest)
           THEN UNCHANGED <<requests, votes>>
           ELSE /\ votes' = votes \cup {<<v.id, v.guest>>}
                /\ requests' = Counted(requests, v.id, 1)
        /\ Commit(s, Idle)
        /\ UNCHANGED <<created, profiles, mergedInto>>

RemoveVote(s) ==
    LET v == session[s]
    IN  /\ v.op = "unvote"
        /\ IF v.read = 0 THEN UNCHANGED <<requests, votes>>
           ELSE /\ votes' = votes \ {<<v.id, v.guest>>}
                /\ requests' = Counted(requests, v.id, -1)
        /\ Commit(s, Idle)
        /\ UNCHANGED <<created, profiles, mergedInto>>

Duplicates(song) == {i \in DOMAIN requests : requests[i].song = song}

RequestReads(s, g, song) ==
    IF Duplicates(song) # {} THEN \E i \in Duplicates(song) : VoteReads(s, g, i, "vote")
    ELSE Resolve(s, g, [Idle EXCEPT !.op = "insert", !.song = song])

(* A pick: one's own duplicate and a pick over the cap are refused. *)
WithinCap(g) == Cap = 0 \/ profiles[g] < Cap

PickReads(s, g, song) ==
    IF Duplicates(song) # {}
    THEN \E i \in Duplicates(song) :
            requests[i].guest # Survivor(g) /\ VoteReads(s, g, i, "vote")
    ELSE /\ WithinCap(Survivor(g))
         /\ Resolve(s, g, [Idle EXCEPT !.op = "count", !.song = song, !.counted = TRUE,
                                       !.read = profiles[Survivor(g)]])

(* check_and_increment_submission_count commits, and so gives the lock up. *)
PickCounts(s) ==
    /\ session[s].op = "count"
    /\ profiles' = [profiles EXCEPT ![session[s].guest] =
                        1 + (IF session[s].read = NoProfile THEN 0 ELSE session[s].read)]
    /\ \E op \in {"name", "insert"} : Commit(s, [session[s] EXCEPT !.op = op])
    /\ UNCHANGED <<requests, created, votes, mergedInto>>

(* A write of a row that refers to a guest waits for the guest's lock, and    *)
(* fails when the guest has been deleted meanwhile.                           *)
MayRefer(s, g) == lock[g] \in {None, s}
Deleted(g) == mergedInto[g] = g

(* upsert_profile: a nickname taken by another guest ends the pick, counted. *)
PickNames(s) ==
    LET g == session[s].guest
    IN  /\ session[s].op = "name"
        /\ MayRefer(s, g)
        /\ \/ Done(s) /\ UNCHANGED profiles
           \/ /\ ~Deleted(g)
              /\ profiles' = [profiles EXCEPT ![g] = IF @ = NoProfile THEN 0 ELSE @]
              /\ session' = [session EXCEPT ![s].op = "insert"]
        /\ UNCHANGED <<requests, created, votes, mergedInto, lock, begun>>

NewRequest(song, g, pick, counted) ==
    /\ created < MaxRequests
    /\ created' = created + 1
    /\ requests' = [i \in DOMAIN requests \cup {created'} |->
          IF i \in DOMAIN requests THEN requests[i]
          ELSE [song |-> song, guest |-> g, status |-> "new", count |-> 0,
                anonymised |-> 0, pick |-> pick, counted |-> counted]]

(* POST /collect makes picks; POST /requests makes them while the event is in *)
(* its collection phase, which the clock and the DJ begin and end, and counts *)
(* none of them against the cap.                                              *)
MadeInCollection(counted) == IF counted THEN {TRUE} ELSE BOOLEAN

InsertRequest(s) ==
    LET v == session[s]
    IN  /\ v.op = "insert"
        /\ MayRefer(s, v.guest)
        /\ IF Deleted(v.guest) THEN UNCHANGED <<requests, created>>
           ELSE \E pick \in MadeInCollection(v.counted) : NewRequest(v.song, v.guest, pick, v.counted)
        /\ Commit(s, Idle)
        /\ UNCHANGED <<votes, profiles, mergedInto>>

(* Without a cookie (a kiosk, the DJ) nothing is locked and no vote is cast. *)
AnonymousRequest(s, song) ==
    /\ Duplicates(song) = {}
    /\ Begin(s, Idle)
    /\ \E pick \in MadeInCollection(FALSE) : NewRequest(song, None, pick, FALSE)
    /\ UNCHANGED <<votes, profiles, mergedInto, lock>>

---------------------------------------------------------------------------
(* Two guests become one; a guest is deleted *)

VotedOn(g) == {i \in Ids : HasVoted(i, g)}

(* Mutants: a vote both guests cast stays counted twice; the source's picks   *)
(* are forgotten.                                                             *)
MergedRequestsRecounted(g, h) ==
    [i \in DOMAIN requests |->
        [requests[i] EXCEPT !.guest = IF @ = g THEN h ELSE @]]
MergedProfileTarget(g, h) == IF profiles[h] = NoProfile THEN profiles[g] ELSE profiles[h]

MergedRequests(g, h) ==
    [i \in DOMAIN requests |->
        [requests[i] EXCEPT
            !.guest = IF @ = g THEN h ELSE @,
            !.count = IF i \notin VotedOn(g) \cap VotedOn(h) THEN @
                      ELSE IF @ > 0 THEN @ - 1 ELSE 0]]

MergedProfile(g, h) ==
    CASE profiles[g] = NoProfile -> profiles[h]
      [] profiles[h] = NoProfile -> profiles[g]
      [] OTHER -> profiles[g] + profiles[h]

MergedVotes(g, h) ==
    {v \in votes : v[2] # g} \cup {<<i, h>> : i \in VotedOn(g)}

(* Mutant: the source's own tombstones go on pointing at it. *)
ForwardedSourceOnly(g, h) == [mergedInto EXCEPT ![g] = h]

Forwarded(g, h) ==
    [x \in Guests |-> IF x = g \/ mergedInto[x] = g THEN h ELSE mergedInto[x]]

MergeGuests(s, g, h) ==
    /\ g # h /\ Live(g) /\ Live(h)
    /\ Free(g) /\ Free(h)
    /\ Begin(s, Idle)
    /\ requests' = MergedRequests(g, h)
    /\ votes' = MergedVotes(g, h)
    /\ profiles' = [profiles EXCEPT ![h] = MergedProfile(g, h), ![g] = NoProfile]
    /\ mergedInto' = Forwarded(g, h)
    /\ UNCHANGED <<created, lock>>

(* Requests and votes stay, anonymised; tombstones go with their survivor. *)
DeleteGuest(s, g) ==
    /\ ~Deleted(g) /\ Free(g)
    /\ \A x \in Guests : mergedInto[x] = g => Free(x)
    /\ Begin(s, Idle)
    /\ requests' = [i \in DOMAIN requests |->
          [requests[i] EXCEPT !.guest = IF @ # None /\ (@ = g \/ mergedInto[@] = g) THEN None ELSE @,
                              !.anonymised = @ + (IF HasVoted(i, g) THEN 1 ELSE 0)]]
    /\ votes' = {v \in votes : v[2] # g}
    /\ profiles' = [x \in Guests |-> IF x = g \/ mergedInto[x] = g THEN NoProfile ELSE profiles[x]]
    /\ mergedInto' = [x \in Guests |-> IF x = g \/ mergedInto[x] = g THEN x ELSE mergedInto[x]]
    /\ UNCHANGED <<created, lock>>

---------------------------------------------------------------------------
(* The DJ *)

New == {i \in DOMAIN requests : requests[i].status = "new"}
Pending == {i \in New : requests[i].pick}
StatusAfter == [new |-> {"accepted", "rejected"}, accepted |-> {"rejected"}, rejected |-> {"new"}]

(* accept-all, reject-all; bulk-review of the pending picks the DJ chose, by  *)
(* number, votes or id; PATCH of one request (NowPlaying has the playing ones). *)
ReviewReads(s, ids, to) ==
    /\ ids # {}
    /\ \/ to \in {"accepted", "rejected"} /\ (ids = New \/ ids \subseteq Pending)
       \/ \E i \in ids : ids = {i} /\ to \in StatusAfter[requests[i].status]
    /\ Begin(s, [Idle EXCEPT !.op = "review", !.ids = ids, !.to = to])
    /\ UNCHANGED <<data, lock>>

(* All of it, or nothing when one of the requests is gone. *)
ReviewCommits(s) ==
    LET v == session[s]
    IN  /\ v.op = "review"
        /\ requests' = IF v.ids \subseteq DOMAIN requests
                       THEN [i \in DOMAIN requests |->
                                IF i \in v.ids THEN [requests[i] EXCEPT !.status = v.to] ELSE requests[i]]
                       ELSE requests
        /\ Done(s)
        /\ UNCHANGED <<created, votes, profiles, mergedInto, lock, begun>>

(* One request, all of them, or all with one status, and their votes. *)
DeleteRequests(s, ids) ==
    /\ ids # {}
    /\ \/ \E i \in ids : ids = {i}
       \/ ids = DOMAIN requests
       \/ \E i \in ids : ids = {j \in DOMAIN requests : requests[j].status = requests[i].status}
    /\ Begin(s, Idle)
    /\ requests' = [i \in DOMAIN requests \ ids |-> requests[i]]
    /\ votes' = {v \in votes : v[1] \notin ids}
    /\ UNCHANGED <<created, profiles, mergedInto, lock>>

---------------------------------------------------------------------------
Init ==
    /\ requests = [i \in {} |-> Idle]
    /\ created = 0
    /\ votes = {}
    /\ profiles = [g \in Guests |-> NoProfile]
    /\ mergedInto = [g \in Guests |-> None]
    /\ lock = [g \in Guests |-> None]
    /\ session = [s \in Sessions |-> Idle]
    /\ begun = 0

GuestStep(s) ==
    \/ AddVote(s) \/ RemoveVote(s) \/ InsertRequest(s)
    \/ PickCounts(s) \/ PickNames(s)
    \/ \E g \in Guests, i \in DOMAIN requests, op \in {"vote", "unvote"} : VoteReads(s, g, i, op)
    \/ \E g \in Guests, song \in Songs : RequestReads(s, g, song) \/ PickReads(s, g, song)
    \/ \E song \in Songs : AnonymousRequest(s, song)

StaffStep(s) ==
    \/ \E g, h \in Guests : MergeGuests(s, g, h)
    \/ \E g \in Guests : DeleteGuest(s, g)
    \/ \E ids \in SUBSET DOMAIN requests :
          \/ \E to \in {"new", "accepted", "rejected"} : ReviewReads(s, ids, to)
          \/ DeleteRequests(s, ids)
    \/ ReviewCommits(s)

Next == \E s \in Sessions : GuestStep(s) \/ StaffStep(s)

Spec == Init /\ [][Next]_vars

---------------------------------------------------------------------------
(* Properties *)

(* The counters and references are of their types, and a merge's tombstones   *)
(* are one hop from a live guest.                                             *)
GuestRequestsTypeOK ==
    /\ DOMAIN requests \subseteq 1..created /\ created \in 0..MaxRequests
    /\ \A i \in DOMAIN requests : requests[i] \in Rows
    /\ votes \subseteq (DOMAIN requests) \X Guests
    /\ profiles \in [Guests -> Nat \cup {NoProfile}]
    /\ \A g \in Guests : Live(g) \/ Deleted(g) \/ Live(Survivor(g))
    /\ lock \in [Guests -> Sessions \cup {None}]
    /\ begun \in 0..MaxOps

(* vote_count, which every sort and the accept-threshold review read, is the  *)
(* number of votes, whatever votes, unvotes, merges, deletions of guests and  *)
(* of requests overlap (vote.py:54-73 and 97-114, guest_merge.py:124-144).    *)
CountMatchesVotes ==
    \A i \in DOMAIN requests :
        requests[i].count = requests[i].anonymised + Cardinality({v \in votes : v[1] = i})

(* No vote is left with a guest that a merge or an admin has taken away, so   *)
(* its owner can take it back and cannot cast it twice (rate_limit.py:117).   *)
VotesReachLiveGuests == \A v \in votes : Live(v[2])

(* The cap bounds what a person picks through POST /collect: such picks of a  *)
(* live guest are all counted, and the count never passes the caps of the     *)
(* guests that may have become one (services/collect.py:283-313,              *)
(* guest_merge.py:146-165).  Rows that POST /requests marks as picks while the *)
(* event collects (services/request.py:85-88) are not counted, and not meant. *)
PicksAreCounted ==
    \A g \in Guests : Live(g) =>
        LET merged == {x \in Guests : x = g \/ ~Live(x)}
        IN  /\ Cardinality({i \in DOMAIN requests : requests[i].counted /\ requests[i].guest = g})
                 <= (IF profiles[g] = NoProfile THEN 0 ELSE profiles[g])
            /\ Cap # 0 => profiles[g] <= Cap * Cardinality(merged)

(* rate_limit.py:125-128: "a request or vote written by this guest cannot     *)
(* land on a row a concurrent merge is turning into a tombstone".  The run    *)
(* finds a pick that does: its count's commit gave the lock up.               *)
RequestsReachLiveGuests ==
    \A i \in DOMAIN requests : requests[i].guest = None \/ Live(requests[i].guest)
=============================================================================

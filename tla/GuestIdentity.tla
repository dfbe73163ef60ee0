---------------------------- MODULE GuestIdentity ----------------------------
(* Who a cookie belongs to.  Guest rows are created, found again by their     *)
(* fingerprint, claim an e-mail, are merged when two of them verify the same  *)
(* e-mail, and are deleted by an admin; every transaction here takes the row  *)
(* locks (SELECT ... FOR UPDATE) and the advisory lock per e-mail one at a    *)
(* time, as PostgreSQL grants them, and drops them when it ends.              *)
EXTENDS Integers, FiniteSets, FiniteSetsExt

CONSTANTS
    Devices,      \* browsers, each with its cookie jar
    Emails,       \* addresses
    Transactions, \* HTTP requests being served
    MaxGuests,    \* bound: guest rows ever created
    MaxRotations, \* bound: times a row's token is replaced; none is once one has reached it
    MaxOps,       \* bound: requests served in a behaviour
    LockRetries,  \* LOCK_RETRIES, 3 in the code
    None

ASSUME GuestIdentityAssumption ==
    /\ MaxGuests \in Nat \ {0, 1} /\ MaxOps \in Nat /\ MaxRotations \in Nat /\ LockRetries \in Nat \ {0}
    /\ None \notin Devices \cup Emails \cup Transactions \cup Nat

VARIABLES
    guests,  \* the rows of guests, by id
    created, \* ids given out
    owners,  \* guests that a request, a vote or a pick's count belongs to
    picks,   \* guests that a pick belongs to, or the profile of its nickname
    cookie,  \* the token in each device's wrzdj_guest cookie
    tx,      \* the transactions: what each holds, waits for and remembers
    begun    \* requests begun

vars == <<guests, created, owners, picks, cookie, tx, begun>>

Ids == 1..MaxGuests
Tokens == Ids \X (0..MaxRotations)  \* <<id, n>>: the row's token after n rotations
Row == [into : Ids \cup {None},     \* merged_into_guest_id
        expired : BOOLEAN,          \* merged longer ago than guest_cookie_max_age_seconds
        email : Emails \cup {None}, \* email_hash
        turn : 0..MaxRotations]

Idle == [op |-> "idle", at |-> "end", device |-> None, token |-> None, email |-> None,
         guest |-> None, target |-> None, wanted |-> {}, round |-> 0, todo |-> {}, held |-> {}]

Live(g) == g \in DOMAIN guests /\ guests[g].into = None
(* Mutant: a deletion leaves the tombstones of the guest. *)
TombstonesStay(g) == {}

Tombstones(g) == {i \in DOMAIN guests : guests[i].into = g}
Token(g) == <<g, guests[g].turn>>
With(f, g, value) == [x \in DOMAIN f \cup {g} |-> IF x = g THEN value ELSE f[x]]

---------------------------------------------------------------------------
(* Locks *)

(* Mutant: SQLite, which ignores FOR UPDATE. *)
FreeAlways(i, t) == TRUE

Free(i, t) == \A u \in Transactions \ {t} : i \notin tx[u].held

(* A SELECT ... ORDER BY id takes its rows in ascending order; a DELETE of    *)
(* several rows takes them in the order it finds them.                        *)
NextRows(t) == IF tx[t].todo = {} \/ tx[t].at = "drop" THEN tx[t].todo ELSE {Min(tx[t].todo)}

(* A row that is gone by the time its lock is free is left out. *)
LockRow(t, i) ==
    /\ i \in NextRows(t) /\ Free(i, t)
    /\ tx' = [tx EXCEPT ![t].todo = @ \ {i},
                        ![t].held = IF i \in DOMAIN guests THEN @ \cup {i} ELSE @]
    /\ UNCHANGED <<guests, created, owners, picks, cookie, begun>>

(* lock_guests: SELECT ... FOR UPDATE, in ascending id order. *)
LockGuests(t, ids, at) == [tx[t] EXCEPT !.at = at, !.todo = ids, !.wanted = ids, !.round = @ + 1]

HasAdvisory(u, e) == tx[u].email = e /\ tx[u].at \in {"merge", "claim"}
WantsAdvisory(t) ==
    tx[t].at = "advisory" \/ (tx[t].op = "ask" /\ tx[t].at = "resolved" /\ tx[t].guest # None)

(* Mutant: the per-e-mail serialisation is left out. *)
SerializeNothing(t, e) == TRUE

SerializePerEmail(t, e) == \A u \in Transactions \ {t} : ~HasAdvisory(u, e)

WaitsForRow(t, u) ==
    /\ t # u
    /\ \A i \in NextRows(t) : ~Free(i, t)
    /\ NextRows(t) \cap tx[u].held # {}

WaitsFor(t, u) ==
    \/ WaitsForRow(t, u)
    \/ t # u /\ WantsAdvisory(t) /\ HasAdvisory(u, tx[t].email)

At(t, at) == tx[t].at = at /\ tx[t].todo = {}
End(t) == tx' = [tx EXCEPT ![t] = Idle]

(* The answer sets the device's cookie, if it arrives. *)
Answer(d, token) == cookie' \in {cookie, [cookie EXCEPT ![d] = token]}

(* The database ends one of the transactions that wait on each other. *)
Deadlocked(t) ==
    /\ \E u \in Transactions : WaitsFor(t, u) /\ WaitsFor(u, t)
    /\ End(t)
    /\ UNCHANGED <<guests, created, owners, picks, cookie, begun>>

---------------------------------------------------------------------------
(* The requests of a device *)

Begin(t, next) ==
    /\ tx[t] = Idle
    /\ begun < MaxOps
    /\ begun' = begun + 1
    /\ tx' = [tx EXCEPT ![t] = next]
    /\ UNCHANGED <<guests, created, owners, picks, cookie>>

(* POST /guest/identify, a request or a vote, a pick, POST /verify/request and *)
(* POST /verify/confirm of an e-mail: all of them resolve the cookie first.   *)
BeginRequest(t, d, op, e) ==
    /\ (op \in {"ask", "confirm"}) = (e # None)
    /\ op = "identify" \/ cookie[d] # None
    /\ Begin(t, [Idle EXCEPT !.op = op, !.device = d, !.token = cookie[d], !.email = e, !.at = "walk"])

(* The rows a token leads over, and the live guest it ends at, if any. *)
Forwarded(g) == IF guests[g].into = None \/ guests[g].expired THEN {g} ELSE {g, guests[g].into}
Walk(token) ==
    IF token # None /\ token[1] \in DOMAIN guests /\ Token(token[1]) = token
    THEN Forwarded(token[1]) ELSE {}
LiveEnd(visited) == IF \E g \in visited : Live(g) THEN CHOOSE g \in visited : Live(g) ELSE None

(* Mutant: the chain is not read again under the locks. *)
SettledAtOnce(visited, locked) == TRUE

Settled(visited, locked) == visited \subseteq locked

(* resolve_guest_by_token(lock=True) *)
ResolveByToken(t) ==
    LET v == tx[t]
        visited == Walk(v.token)
    IN  /\ At(t, "walk")
        /\ tx' = [tx EXCEPT ![t] =
             IF v.round < LockRetries /\ ~Settled(visited, v.wanted)
             THEN LockGuests(t, visited \cup v.wanted, "walk")
             ELSE LET live == IF v.round < LockRetries THEN LiveEnd(visited) ELSE None
                  IN  [v EXCEPT !.at = "resolved", !.wanted = {}, !.round = 0, !.guest = live,
                                !.token = IF live = None THEN None ELSE Token(live)]]
        /\ UNCHANGED <<guests, created, owners, picks, cookie, begun>>

Resolved(t, op) == At(t, "resolved") /\ tx[t].op = op

(* A cookie that is not a guest's: refused, but for identify.  So is a pick   *)
(* of a guest without an e-mail, of a song it has picked, or over the cap.    *)
Refuse(t) ==
    /\ At(t, "resolved") /\ tx[t].op # "identify"
    /\ tx[t].guest = None \/ tx[t].op = "pick"
    /\ End(t)
    /\ UNCHANGED <<guests, created, owners, picks, cookie, begun>>

(* A request or a vote, or a pick of a song that is there already, which is a *)
(* vote: written for the guest that was resolved.                             *)
WriteOwned(t) ==
    /\ Resolved(t, "write") /\ tx[t].guest # None
    /\ owners' = owners \cup {tx[t].guest}
    /\ End(t)
    /\ UNCHANGED <<guests, created, picks, cookie, begun>>

(* A pick of a verified guest is counted on its profile, and the count's      *)
(* commit gives the locks up.                                                 *)
PickCounts(t) ==
    LET v == tx[t]
    IN  /\ Resolved(t, "pick") /\ v.guest # None
        /\ v.guest \in DOMAIN guests /\ guests[v.guest].email # None
        /\ owners' = owners \cup {v.guest}
        /\ tx' = [tx EXCEPT ![t] = [v EXCEPT !.at = "pick", !.token = None, !.held = {}]]
        /\ UNCHANGED <<guests, created, picks, cookie, begun>>

(* Its profile is read again, which fails if a deletion or a merge has taken  *)
(* it meanwhile; a nickname writes the profile, and at last the pick is       *)
(* written for the guest that was counted, whatever that is by now.  A        *)
(* foreign key lets neither pass a locked row, nor be written without one.    *)
PickWrites(t) ==
    LET g == tx[t].guest
    IN  /\ At(t, "pick") /\ Free(g, t)
        /\ \/ ~Live(g) /\ picks' = picks /\ End(t)
           \/ /\ g \in DOMAIN guests
              /\ picks' = picks \cup {g}
              /\ UNCHANGED tx \/ End(t)
        /\ UNCHANGED <<guests, created, owners, cookie, begun>>

(* identify_guest with a cookie: the survivor's token is issued. *)
CookieHit(t) ==
    /\ Resolved(t, "identify") /\ tx[t].guest # None
    /\ Answer(tx[t].device, tx[t].token)
    /\ End(t)
    /\ UNCHANGED <<guests, created, owners, picks, begun>>

(* No guest has the cookie: one whose fingerprint is the device's may be      *)
(* found, and its row is locked to judge it; or a guest is created.           *)
Match(t, g) ==
    /\ Resolved(t, "identify") /\ tx[t].guest = None
    /\ Live(g)
    /\ tx' = [tx EXCEPT ![t] = [LockGuests(t, {g}, "judge") EXCEPT !.guest = g]]
    /\ UNCHANGED <<guests, created, owners, picks, cookie, begun>>

(* A match that is neither merged away nor verified may pass the other gates; *)
(* a row that is gone fails the request.                                      *)
Reconcile(t) ==
    LET g == tx[t].guest
    IN  /\ At(t, "judge")
        /\ \/ /\ Live(g) /\ guests[g].email = None
              /\ \A h \in DOMAIN guests : guests[h].turn < MaxRotations
              /\ guests' = [guests EXCEPT ![g].turn = @ + 1]
              /\ Answer(tx[t].device, <<g, guests[g].turn + 1>>)
              /\ End(t)
           \/ /\ g \in DOMAIN guests
              /\ tx' = [tx EXCEPT ![t].at = "create"]
              /\ UNCHANGED <<guests, cookie>>
           \/ /\ g \notin DOMAIN guests
              /\ End(t)
              /\ UNCHANGED <<guests, cookie>>
        /\ UNCHANGED <<created, owners, picks, begun>>

CreateGuest(t) ==
    /\ At(t, "create") \/ (Resolved(t, "identify") /\ tx[t].guest = None)
    /\ created < MaxGuests
    /\ created' = created + 1
    /\ guests' = With(guests, created', [into |-> None, expired |-> FALSE, email |-> None, turn |-> 0])
    /\ Answer(tx[t].device, <<created', 0>>)
    /\ End(t)
    /\ UNCHANGED <<owners, picks, begun>>

---------------------------------------------------------------------------
(* E-mail verification and merge *)

(* create_verification_code: the guest's row is locked while it waits for the *)
(* e-mail's lock.                                                             *)
SendCode(t) ==
    /\ Resolved(t, "ask") /\ tx[t].guest # None
    /\ SerializePerEmail(t, tx[t].email)
    /\ End(t)
    /\ UNCHANGED <<guests, created, owners, picks, cookie, begun>>

(* A right code is marked as used and committed, and the row locks are gone;  *)
(* a guest that has the e-mail already is done.                               *)
ConfirmCode(t) ==
    LET v == tx[t]
    IN  /\ Resolved(t, "confirm") /\ v.guest # None
        /\ tx' = [tx EXCEPT ![t] =
             IF v.guest \notin DOMAIN guests \/ guests[v.guest].email = v.email THEN Idle
             ELSE [v EXCEPT !.at = "advisory", !.token = None, !.held = {}]]
        /\ UNCHANGED <<guests, created, owners, picks, cookie, begun>>

(* One decision per e-mail: merge into the guest that has it, or claim it. *)
DecideOwner(t) ==
    LET v == tx[t]
        existing == {g \in DOMAIN guests \ {v.guest} : guests[g].email = v.email}
    IN  /\ At(t, "advisory")
        /\ SerializePerEmail(t, v.email)
        /\ tx' = [tx EXCEPT ![t] =
             IF existing = {} THEN [v EXCEPT !.at = "claim", !.todo = {v.guest}]
             ELSE LET x == CHOOSE g \in existing : TRUE
                  IN  [LockGuests(t, {v.guest, x}, "merge") EXCEPT !.target = x, !.round = 1]]
        /\ UNCHANGED <<guests, created, owners, picks, cookie, begun>>

HasOther(g, email) == \E h \in DOMAIN guests \ {g} : guests[h].email = email

(* The UPDATE of the guest read before; no row, no claim, and none either of  *)
(* an e-mail that another guest has: email_hash is unique.                    *)
ClaimEmail(t) ==
    LET g == tx[t].guest
    IN  /\ At(t, "claim")
        /\ guests' = IF g \in DOMAIN guests /\ ~HasOther(g, tx[t].email)
                     THEN [guests EXCEPT ![g].email = tx[t].email] ELSE guests
        /\ End(t)
        /\ UNCHANGED <<created, owners, picks, cookie, begun>>

(* Where the merged_into pointer of a locked row leads. *)
PointsTo(i, locked) ==
    IF i \in locked \cap DOMAIN guests /\ guests[i].into # None THEN guests[i].into ELSE i

(* Where the pointers of the locked rows lead from g: a live guest, or a row  *)
(* that is not locked.                                                        *)
LiveTarget(g, locked) ==
    LET next(i) == PointsTo(i, locked)
    IN  next(next(next(next(next(g)))))

(* Mutant: the tombstones of the source keep forwarding to it. *)
FlattenedNot(source, target) == {}

(* What a merge points at the target: the source and its tombstones. *)
Flattened(source, target) == Tombstones(source)

(* What belonged to the source belongs to the target. *)
Moved(S, source, target) == IF source \in S THEN (S \ {source}) \cup {target} ELSE S

(* merge_guests, once its locks are settled; its device gets the survivor's   *)
(* token.                                                                     *)
Merge(t) ==
    LET v == tx[t]
        source == v.guest
        target == LiveTarget(v.target, v.wanted)
    IN  /\ At(t, "merge")
        /\ Live(source) /\ Live(target) /\ target \in v.wanted /\ target # source
        /\ Tombstones(source) \subseteq v.wanted
        /\ guests' = [g \in DOMAIN guests |->
             IF g = source THEN [guests[g] EXCEPT !.into = target, !.email = None, !.expired = FALSE]
             ELSE IF g \in Flattened(source, target) THEN [guests[g] EXCEPT !.into = target]
             ELSE guests[g]]
        /\ owners' = Moved(owners, source, target)
        /\ picks' = Moved(picks, source, target)
        /\ Answer(v.device, Token(target))
        /\ End(t)
        /\ UNCHANGED <<created, begun>>

(* _lock_merge_rows goes round again for the rows that turned up, and gives   *)
(* up when the source is merged or gone, when the target leads back to it, or *)
(* after LOCK_RETRIES rounds.                                                 *)
WidenMerge(t) ==
    LET v == tx[t]
        target == LiveTarget(v.target, v.wanted)
        ready == Live(target) /\ target \in v.wanted /\ Tombstones(v.guest) \subseteq v.wanted
    IN  /\ At(t, "merge")
        /\ \/ /\ ~Live(v.guest) \/ (ready /\ target = v.guest) \/ (~ready /\ v.round = LockRetries)
              /\ End(t)
           \/ /\ Live(v.guest) /\ ~ready /\ v.round < LockRetries
              /\ tx' = [tx EXCEPT ![t] =
                    LockGuests(t, v.wanted \cup Tombstones(v.guest) \cup {target}, "merge")]
        /\ UNCHANGED <<guests, created, owners, picks, cookie, begun>>

---------------------------------------------------------------------------
(* The admin, and time *)

(* delete_guest_admin locks the guest, gives up what it owns, and deletes the *)
(* tombstones that forward to it.                                             *)
BeginDelete(t, g) ==
    /\ g \in DOMAIN guests
    /\ Begin(t, [Idle EXCEPT !.op = "delete", !.guest = g, !.at = "scrub", !.todo = {g}])

Scrub(t) ==
    LET g == tx[t].guest
    IN  /\ At(t, "scrub")
        /\ tx' = [tx EXCEPT ![t] = IF g \notin DOMAIN guests THEN Idle
                                   ELSE [tx[t] EXCEPT !.at = "drop", !.todo = Tombstones(g)]]
        /\ UNCHANGED <<guests, created, owners, picks, cookie, begun>>

DeleteGuest(t) ==
    LET g == tx[t].guest
    IN  /\ At(t, "drop")
        /\ guests' = [i \in DOMAIN guests \ (Tombstones(g) \cup {g}) |-> guests[i]]
        /\ owners' = owners \ {g}
        /\ picks' = picks \ (Tombstones(g) \cup {g})
        /\ End(t)
        /\ UNCHANGED <<created, cookie, begun>>

(* revoke_guest_email: one UPDATE of a guest read before. *)
RevokeEmail(t, g) ==
    /\ g \in DOMAIN guests /\ Free(g, t)
    /\ tx[t] = Idle /\ begun < MaxOps /\ begun' = begun + 1
    /\ guests' = [guests EXCEPT ![g].email = None]
    /\ UNCHANGED <<created, owners, picks, cookie, tx>>

(* guest_cookie_max_age_seconds pass after a merge. *)
Expire(g) ==
    /\ g \in DOMAIN guests /\ guests[g].into # None /\ ~guests[g].expired
    /\ guests' = [guests EXCEPT ![g].expired = TRUE]
    /\ UNCHANGED <<created, owners, picks, cookie, tx, begun>>

LoseCookie(d) ==
    /\ cookie[d] # None
    /\ cookie' = [cookie EXCEPT ![d] = None]
    /\ UNCHANGED <<guests, created, owners, picks, tx, begun>>

---------------------------------------------------------------------------
(* Two guests that an earlier evening left, each with an e-mail or without,   *)
(* and whatever cookies the devices still have.                               *)
Init ==
    /\ \E email \in [1..2 -> Emails \cup {None}] :
          /\ email[1] # None => email[1] # email[2]
          /\ guests = [i \in 1..2 |-> [into |-> None, expired |-> FALSE, email |-> email[i], turn |-> 0]]
    /\ created = 2
    /\ owners = {} /\ picks = {}
    /\ cookie \in [Devices -> {None, <<1, 0>>, <<2, 0>>}]
    /\ tx = [t \in Transactions |-> Idle]
    /\ begun = 0

Serve(t) ==
    \/ \E d \in Devices, op \in {"identify", "write", "pick", "ask", "confirm"}, e \in Emails \cup {None} :
          BeginRequest(t, d, op, e)
    \/ \E i \in Ids : LockRow(t, i) \/ Match(t, i) \/ BeginDelete(t, i) \/ RevokeEmail(t, i)
    \/ ResolveByToken(t) \/ Refuse(t) \/ WriteOwned(t)
    \/ PickCounts(t) \/ PickWrites(t) \/ CookieHit(t)
    \/ Reconcile(t) \/ CreateGuest(t)
    \/ SendCode(t) \/ ConfirmCode(t) \/ DecideOwner(t) \/ ClaimEmail(t)
    \/ Merge(t) \/ WidenMerge(t) \/ Scrub(t) \/ DeleteGuest(t) \/ Deadlocked(t)

Next ==
    \/ \E t \in Transactions : Serve(t)
    \/ \E g \in Ids : Expire(g)
    \/ \E d \in Devices : LoseCookie(d)

Spec == Init /\ [][Next]_vars

---------------------------------------------------------------------------
(* Properties *)

(* Rows are of their types, and no two transactions hold one lock. *)
GuestIdentityTypeOK ==
    /\ created \in 0..MaxGuests /\ DOMAIN guests \subseteq 1..created
    /\ \A g \in DOMAIN guests : guests[g] \in Row
    /\ owners \cup picks \subseteq Ids
    /\ \A d \in Devices : cookie[d] \in Tokens \cup {None}
    /\ \A t, u \in Transactions : t # u => tx[t].held \cap tx[u].held = {}

(* A confirmation that has decided to claim its e-mail still finds it         *)
(* unclaimed when it writes: two guests that confirm one address together     *)
(* never both decide to claim it, one of them being failed by the unique      *)
(* index after its code was used up (email_verification.py:195-227).          *)
OneEmailOwner ==
    \A t \in Transactions : tx[t].at = "claim" => ~HasOther(tx[t].guest, tx[t].email)

(* A tombstone forwards to a live guest in one hop, so a stale cookie resolves *)
(* until it expires: no merge, and no deletion, leaves one that leads nowhere *)
(* (guest_merge.py:167-174, admin_guests.py:124-126).                         *)
TombstonesForward == \A g \in DOMAIN guests : guests[g].into # None => Live(guests[g].into)

(* What a request writes under the lock that its cookie was resolved with -   *)
(* a request, a vote, the count of a pick - belongs to a live guest: never to *)
(* a tombstone that a merge left behind while the request was resolving its   *)
(* cookie, nor to a deleted guest (guest_identity.py:91-99,                   *)
(* rate_limit.py:125-128).  The pick itself is written without the lock and   *)
(* may belong to a tombstone: see PickReachesGuest.                           *)
OwnersAreLive == \A g \in owners : Live(g)

(* A pick that was written for a guest merged away since its count            *)
(* (api/collect.py:466-494) is one hop from the live guest it should be of,   *)
(* however merges and deletions go on: no pick is left with a guest that      *)
(* leads nowhere.                                                             *)
PickReachesGuest ==
    \A g \in picks : Live(g) \/ (g \in DOMAIN guests /\ Live(guests[g].into))

(* guest_identity.py:60-61: "Every writer that touches guest rows locks       *)
(* through here, so two writers never wait on each other in opposite orders   *)
(* (no deadlock)".  The run finds a deletion that holds the guest and waits   *)
(* for its tombstone, and a request with the tombstone's cookie that holds    *)
(* the tombstone and waits for the guest (admin_guests.py:111, 126).          *)
NoLockCycle == \A t, u \in Transactions : ~(WaitsForRow(t, u) /\ WaitsForRow(u, t))
=============================================================================

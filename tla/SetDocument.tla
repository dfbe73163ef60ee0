----------------------------- MODULE SetDocument -----------------------------
(* The document of a set: the pool of tracks, the timeline of slots, what the *)
(* agent's tools and the DJ's requests do to them, and the snapshots that     *)
(* restore them.  No request locks what it reads: it loads rows into its      *)
(* session and edits them there, and others see the columns it changed when   *)
(* it commits (SQLAlchemy over PostgreSQL, READ COMMITTED).                   *)
EXTENDS Integers, FiniteSets, Functions

CONSTANTS
    Songs,    \* dedupe signatures
    Named,    \* the songs that carry a provider's track id
    Turns,    \* requests that may be in progress: a DJ's edit or an agent's turn
    Restores, \* requests that may be in progress: a restore of a snapshot
    MaxRows,  \* bound: ids of pool rows, and of slots, in use at once
    MaxSlots, \* bound: slots of a timeline that an insert or a build makes longer
    MaxEdits, \* bound: edits made in a behaviour
    None

ASSUME SetDocumentAssumption ==
    /\ Named \subseteq Songs
    /\ MaxRows \in Nat \ {0} /\ MaxSlots \in 1..MaxRows /\ MaxEdits \in Nat
    /\ None \notin Songs \cup 1..MaxRows
    /\ IsFiniteSet(Songs) /\ Cardinality(Songs) < MaxRows /\ Songs \cap 1..MaxRows = {}

VARIABLES
    pool,       \* the rows of set_pool_tracks: id |-> song
    slots,      \* the rows of set_slots
    snapshot,   \* the document the client keeps to undo to
    session,    \* what each request has read, and what it will write
    edits,      \* edits made
    removed,    \* history: unnamed songs that a removal took out of the pool
    overlapped, \* history: two requests were in progress at once
    torn        \* history: an agent's turn failed after it had committed an edit

vars == <<pool, slots, snapshot, session, edits, removed, overlapped, torn>>
history == <<removed, overlapped, torn>>

Sessions == Turns \cup Restores
RowIds == 1..MaxRows
Empty == [i \in {} |-> None]
Idle == [op |-> "idle", read |-> Empty, write |-> Empty, ids |-> {},
         doc |-> None, kept |-> FALSE]

(* What a slot's track_id is for a pool row: the provider's id, or "pool:<id>". *)
SlotTrackId(i) == IF pool[i] \in Named THEN pool[i] ELSE i
NewSlot(pos, i) == [pos |-> pos, song |-> pool[i], ref |-> SlotTrackId(i), locked |-> FALSE]

(* An id is given out again only when nothing refers to it any more. *)
SlotIdsInUse ==
    DOMAIN slots \cup UNION {DOMAIN session[s].read \cup DOMAIN session[s].write : s \in Sessions}
Refs(t) == {t[i].ref : i \in DOMAIN t}
PoolIdsInUse ==
    DOMAIN pool \cup Refs(slots)
        \cup (UNION {Refs(session[s].read) \cup Refs(session[s].write) \cup session[s].ids : s \in Sessions})
        \cup (UNION {IF d = None THEN {} ELSE DOMAIN d.pool \cup Refs(d.slots) :
                      d \in {snapshot} \cup {session[s].doc : s \in Sessions}})
Rank(S, x) == Cardinality({y \in S : y < x})
Lowest(S, n) == {x \in S : Rank(S, x) < n}
InOrder(S, T) == [x \in S |-> CHOOSE y \in T : Rank(T, y) = Rank(S, x)]

Old(map, i) == CHOOSE x \in DOMAIN map : map[x] = i
Updated(f, g) == [x \in DOMAIN f \cup DOMAIN g |-> IF x \in DOMAIN g THEN g[x] ELSE f[x]]

---------------------------------------------------------------------------
(* Requests on the timeline *)

Begin(s, next) ==
    /\ session[s] = Idle
    /\ edits < MaxEdits
    /\ session' = [session EXCEPT ![s] = next]
    /\ overlapped' = (overlapped \/ \E r \in Sessions \ {s} : session[r] # Idle)

BeginTurn(s) ==
    /\ s \in Turns
    /\ Begin(s, [Idle EXCEPT !.op = "turn", !.read = slots, !.write = slots])
    /\ UNCHANGED <<pool, slots, snapshot, edits, removed, torn>>

View(s) == session[s].write
Below(t, S, i) == Cardinality({j \in S : t[j].pos < t[i].pos})
Distinct(t) == \A i, j \in DOMAIN t : t[i].pos = t[j].pos => i = j
Contiguous(t) == Distinct(t) /\ \A i \in DOMAIN t : t[i].pos = Below(t, DOMAIN t, i)
Locked(t) == {i \in DOMAIN t : t[i].locked}

Edit(s, new) ==
    /\ session[s].op = "turn"
    /\ edits < MaxEdits
    /\ edits' = edits + 1
    /\ session' = [session EXCEPT ![s].write = new]
    /\ UNCHANGED <<pool, slots, snapshot, history>>

(* The orders in which a query may list the slots S: by position, and those   *)
(* at one position, which an overlap may leave, in any order.                 *)
OrderedSlots(t, S) ==
    {order \in Bijection(S, 0..(Cardinality(S) - 1)) :
        \A j, k \in S : t[j].pos < t[k].pos => order[j] < order[k]}

(* Slot i comes to index p among the rest, and every slot gets its index. *)
Moved(t, i, p, rest) ==
    [j \in DOMAIN t |-> IF j = i THEN p ELSE IF rest[j] < p THEN rest[j] ELSE rest[j] + 1]
Placed(t, order) == [j \in DOMAIN t |-> [t[j] EXCEPT !.pos = order[j]]]

(* Mutant: the lock of the slots in between is not looked at. *)
InTheWayNever(t, i, p) == {}

(* The slots whose positions a move looks at, and the ones it shifts. *)
InTheWay(t, i, p) ==
    {j \in Locked(t) \ {i} : t[j].pos \in (p..t[i].pos) \cup (t[i].pos..p)}

(* The agent's reorder_slot. *)
ReorderSlot(s, i, p) ==
    LET t == View(s)
    IN  /\ i \in DOMAIN t /\ ~t[i].locked
        /\ p < Cardinality(DOMAIN t)
        /\ InTheWay(t, i, p) = {}
        /\ \E rest \in OrderedSlots(t, DOMAIN t \ {i}) : Edit(s, Placed(t, Moved(t, i, p, rest)))

(* A DJ's drag (apply_slot_order) and the agent's move_range: any order that  *)
(* leaves every locked slot at the position it has.                           *)
ApplySlotOrder(s, order) ==
    LET t == View(s)
    IN  /\ \A i \in Locked(t) : order[i] = t[i].pos
        /\ Edit(s, Placed(t, order))

SwapSlots(s, i, j) ==
    LET t == View(s)
    IN  /\ i # j /\ ~t[i].locked /\ ~t[j].locked
        /\ Edit(s, [t EXCEPT ![i] = [t[j] EXCEPT !.pos = t[i].pos],
                                     ![j] = [t[i] EXCEPT !.pos = t[j].pos]])

Removed(t, i) ==
    [j \in DOMAIN t \ {i} |-> IF t[j].pos > t[i].pos THEN [t[j] EXCEPT !.pos = @ - 1] ELSE t[j]]

RemoveSlot(s, i) ==
    LET t == View(s)
    IN  /\ ~t[i].locked
        /\ \A j \in Locked(t) : t[j].pos <= t[i].pos
        /\ Edit(s, Removed(t, i))

ReplaceSlot(s, i, row) ==
    /\ ~View(s)[i].locked
    /\ Edit(s, [View(s) EXCEPT ![i] = NewSlot(@.pos, row)])

SetSlotLocked(s, i, locked) ==
    /\ View(s)[i].locked # locked
    /\ Edit(s, [View(s) EXCEPT ![i].locked = locked])

(* Mutant: only the slots behind the new one move on. *)
ShiftedBehind(t, p) == [j \in DOMAIN t |-> IF t[j].pos > p THEN [t[j] EXCEPT !.pos = @ + 1] ELSE t[j]]

Shifted(t, p) == [j \in DOMAIN t |-> IF t[j].pos >= p THEN [t[j] EXCEPT !.pos = @ + 1] ELSE t[j]]

(* insert_from_pool, search_and_insert, and each insert of fill_to_duration. *)
InsertTrackAt(s, row, p) ==
    LET t == View(s)
        new == Lowest(RowIds \ SlotIdsInUse, 1)
    IN  /\ RowIds \ SlotIdsInUse # {}
        /\ p <= Cardinality(DOMAIN t) /\ Cardinality(DOMAIN t) < MaxSlots
        /\ \A j \in Locked(t) : t[j].pos < p
        /\ Edit(s, Updated(Shifted(t, p), [j \in new |-> NewSlot(p, row)]))

FreePositions(t, n) == (0..(n - 1)) \ {t[i].pos : i \in Locked(t)}

(* Of the locked slots that an overlap has left at one position, the builder  *)
(* looks at one.                                                              *)
OnePerPosition(t) ==
    {S \in SUBSET Locked(t) : \A i \in Locked(t) : Cardinality({j \in S : t[j].pos = t[i].pos}) = 1}

(* build_set keeps the locked slots and fills the free positions below some   *)
(* length, in order, with unused tracks while there are any; which ones is    *)
(* the scores' choice.  The length covers the locked slots.                   *)
BuildSet(s) ==
    LET t == View(s)
        kept == [i \in Locked(t) |-> t[i]]
        fresh == RowIds \ SlotIdsInUse
    IN  \E n \in 0..MaxSlots, seen \in OnePerPosition(t) :
          LET unused == {i \in DOMAIN pool : SlotTrackId(i) \notin {t[j].ref : j \in seen}}
              free == FreePositions(t, n)
              filled == Lowest(free, Cardinality(unused))
              added == Lowest(fresh, Cardinality(filled))
              pos == InOrder(added, filled)
          IN  /\ \A i \in DOMAIN kept : kept[i].pos < n
              /\ n = 0 => DOMAIN pool = {}
              /\ \/ n <= Cardinality(DOMAIN pool) \/ n <= Cardinality(DOMAIN kept)
                 \/ \E i \in DOMAIN kept : kept[i].pos + 1 >= n
              /\ Cardinality(added) = Cardinality(filled)
              /\ \E row \in Injection(added, unused) :
                   Edit(s, Updated(kept, [i \in added |-> NewSlot(pos[i], row[i])]))

---------------------------------------------------------------------------
(* The end of a request *)

(* The columns a request changed, on the rows as they are; rows it deleted go, *)
(* rows it added come.                                                        *)
Written(read, write) ==
    [i \in (DOMAIN slots \ (DOMAIN read \ DOMAIN write)) \cup (DOMAIN write \ DOMAIN read) |->
        IF i \notin DOMAIN slots THEN write[i]
        ELSE IF i \notin DOMAIN read THEN slots[i]
        ELSE [pos |-> IF write[i].pos # read[i].pos THEN write[i].pos ELSE slots[i].pos,
              song |-> IF write[i].ref # read[i].ref THEN write[i].song ELSE slots[i].song,
              ref |-> IF write[i].ref # read[i].ref THEN write[i].ref ELSE slots[i].ref,
              locked |-> IF write[i].locked # read[i].locked THEN write[i].locked ELSE slots[i].locked]]

(* A changed row that is gone fails the whole transaction. *)
Writable(read, write) ==
    \A i \in DOMAIN read \cap DOMAIN write : read[i] # write[i] => i \in DOMAIN slots

CommitTurn(s) ==
    LET v == session[s]
    IN  /\ v.op = "turn"
        /\ slots' = IF Writable(v.read, v.write) THEN Written(v.read, v.write) ELSE slots
        /\ session' = [session EXCEPT ![s] = Idle]
        /\ UNCHANGED <<pool, snapshot, edits, history>>

(* The critique_set tool asks the LLM in the middle of a turn, and the        *)
(* gateway commits the session; the turn goes on with what it reads then.     *)
(* What it has edited by now is kept, whatever becomes of the turn.           *)
CritiqueSet(s) ==
    LET v == session[s]
    IN  /\ v.op = "turn" /\ Writable(v.read, v.write)
        /\ slots' = Written(v.read, v.write)
        /\ session' = [session EXCEPT ![s].read = slots', ![s].write = slots',
                                      ![s].kept = @ \/ v.read # v.write]
        /\ UNCHANGED <<pool, snapshot, edits, history>>

(* A tool's error rolls the turn back. *)
FailTurn(s) ==
    /\ session[s].op = "turn"
    /\ torn' = (torn \/ session[s].kept)
    /\ session' = [session EXCEPT ![s] = Idle]
    /\ UNCHANGED <<pool, slots, snapshot, edits, removed, overlapped>>

---------------------------------------------------------------------------
(* The pool and the snapshots *)

PoolEdit == edits < MaxEdits /\ edits' = edits + 1

(* Mutant: an import does not look for the song. *)
ImportCandidateAgain(song) ==
    /\ RowIds \ PoolIdsInUse # {}
    /\ PoolEdit
    /\ pool' = Updated(pool, [i \in Lowest(RowIds \ PoolIdsInUse, 1) |-> song])
    /\ UNCHANGED <<slots, snapshot, session, history>>

(* An import of one song; a song that is there is deduplicated (by the query  *)
(* or, when two imports overlap, by the unique constraint).  The agent's      *)
(* imports, which commit with its turn, are taken as requests of their own.   *)
ImportCandidate(song) ==
    /\ \A i \in DOMAIN pool : pool[i] # song
    /\ RowIds \ PoolIdsInUse # {}
    /\ PoolEdit
    /\ pool' = Updated(pool, [i \in Lowest(RowIds \ PoolIdsInUse, 1) |-> song])
    /\ UNCHANGED <<slots, snapshot, session, history>>

(* remove_tracks and remove_source: the slots stay. *)
RemoveTracks(ids) ==
    /\ ids # {}
    /\ PoolEdit
    /\ pool' = [i \in DOMAIN pool \ ids |-> pool[i]]
    /\ removed' = removed \cup ({pool[i] : i \in ids} \ Named)
    /\ UNCHANGED <<slots, snapshot, session, overlapped, torn>>

BuildSnapshot ==
    /\ snapshot' = [pool |-> pool, slots |-> slots]
    /\ snapshot # snapshot'
    /\ PoolEdit
    /\ UNCHANGED <<pool, slots, session, history>>

(* The restore deletes the rows it sees; what it adds has new ids. *)
BeginRestore(s) ==
    /\ s \in Restores /\ snapshot # None
    /\ Begin(s, [Idle EXCEPT !.op = "restore", !.read = slots, !.ids = DOMAIN pool, !.doc = snapshot])
    /\ UNCHANGED <<pool, slots, snapshot, edits, removed, torn>>

(* Mutant: a slot keeps the id its pool row had. *)
RemapNothing(ref, id) == ref

RemapSyntheticPoolTrackId(ref, id) == IF ref \in DOMAIN id THEN id[ref] ELSE ref

CommitRestore(s) ==
    LET v == session[s]
        rows == [i \in DOMAIN pool \ v.ids |-> pool[i]]
        left == [i \in DOMAIN slots \ DOMAIN v.read |-> slots[i]]
        id == InOrder(DOMAIN v.doc.pool, Lowest(RowIds \ PoolIdsInUse, Cardinality(DOMAIN v.doc.pool)))
        to == InOrder(DOMAIN v.doc.slots, Lowest(RowIds \ SlotIdsInUse, Cardinality(DOMAIN v.doc.slots)))
        duplicate == Range(rows) \cap Range(v.doc.pool) # {}
    IN  /\ v.op = "restore"
        /\ \/ duplicate /\ UNCHANGED <<pool, slots>>
           \/ /\ ~duplicate
              /\ Cardinality(RowIds \ PoolIdsInUse) >= Cardinality(DOMAIN v.doc.pool)
              /\ Cardinality(RowIds \ SlotIdsInUse) >= Cardinality(DOMAIN v.doc.slots)
              /\ pool' = Updated(rows, [i \in Range(id) |-> v.doc.pool[Old(id, i)]])
              /\ slots' = Updated(left, [i \in Range(to) |->
                    [v.doc.slots[Old(to, i)] EXCEPT !.ref = RemapSyntheticPoolTrackId(@, id)]])
        /\ session' = [session EXCEPT ![s] = Idle]
        /\ UNCHANGED <<snapshot, edits, history>>

---------------------------------------------------------------------------
(* A set that has been imported and built, one slot per pool row, with one    *)
(* track inserted again at its end.                                           *)
Init ==
    /\ pool = CHOOSE p \in [1..Cardinality(Songs) -> Songs] : IsInjective(p)
    /\ \E again \in DOMAIN pool :
          slots = [i \in 1..(Cardinality(Songs) + 1) |->
                     NewSlot(i - 1, IF i \in DOMAIN pool THEN i ELSE again)]
    /\ snapshot = None
    /\ session = [s \in Sessions |-> Idle]
    /\ edits = 0
    /\ removed = {} /\ overlapped = FALSE /\ torn = FALSE

Tool(s) ==
    \/ \E i \in DOMAIN View(s) :
          \/ \E p \in 0..MaxRows : ReorderSlot(s, i, p)
          \/ \E j \in DOMAIN View(s) : SwapSlots(s, i, j)
          \/ RemoveSlot(s, i)
          \/ \E row \in DOMAIN pool : ReplaceSlot(s, i, row)
          \/ \E locked \in BOOLEAN : SetSlotLocked(s, i, locked)
    \/ \E order \in Bijection(DOMAIN View(s), 0..(Cardinality(DOMAIN View(s)) - 1)) :
          ApplySlotOrder(s, order)
    \/ \E row \in DOMAIN pool, p \in 0..MaxRows : InsertTrackAt(s, row, p)
    \/ BuildSet(s)

Next ==
    \/ \E s \in Sessions :
          \/ BeginTurn(s) \/ CommitTurn(s) \/ CritiqueSet(s) \/ FailTurn(s)
          \/ session[s].op = "turn" /\ Tool(s)
          \/ BeginRestore(s) \/ CommitRestore(s)
    \/ \E song \in Songs : ImportCandidate(song)
    \/ \E ids \in SUBSET DOMAIN pool : RemoveTracks(ids)
    \/ BuildSnapshot

Spec == Init /\ [][Next]_vars

---------------------------------------------------------------------------
(* Properties *)

Timeline == [pos : Nat, song : Songs, ref : Songs \cup RowIds, locked : BOOLEAN]

(* Rows are of their types, and no song is in the pool twice. *)
SetDocumentTypeOK ==
    /\ DOMAIN pool \subseteq RowIds /\ IsInjective(pool)
    /\ \A i \in DOMAIN pool : pool[i] \in Songs
    /\ DOMAIN slots \subseteq RowIds
    /\ \A i \in DOMAIN slots : slots[i] \in Timeline
    /\ edits \in 0..MaxEdits

(* Requests that do not overlap never leave two slots at one position,        *)
(* whatever the sequence of tools, builds, drags and restores, gaps included  *)
(* (agent_tools_mutations.py:32-139, 404-417, pass1_deterministic.py:588).    *)
SerialPositionsUnique ==
    ~overlapped => Distinct(slots)

(* A slot that refers to a pool row refers to a row of its own song: only a   *)
(* removal from the pool leaves it without one, never a restore, which gives  *)
(* every row a new id (document_snapshot.py:106-113, 225-281).                *)
SerialSlotsResolve ==
    ~overlapped => \A i \in DOMAIN slots :
        \/ slots[i].ref \in Named
        \/ slots[i].ref \in DOMAIN pool /\ pool[slots[i].ref] = slots[i].song
        \/ slots[i].ref \notin DOMAIN pool /\ slots[i].song \in removed

(* No tool moves, replaces or removes a locked slot, but for reorder_slot on  *)
(* a timeline with a gap, or with two slots at one position: it looks at the  *)
(* locked slots in between, and then gives every slot its index               *)
(* (agent_tools_mutations.py:44-50).                                          *)
Reordered(t, u) ==
    \E i \in DOMAIN t, p \in 0..MaxRows : \E rest \in OrderedSlots(t, DOMAIN t \ {i}) :
        u = Placed(t, Moved(t, i, p, rest))

LockedSlotStays(s) ==
    \A i \in Locked(View(s)) :
        /\ i \in DOMAIN View(s)'
        /\ View(s)'[i].ref = View(s)[i].ref
        /\ \/ View(s)'[i].pos = View(s)[i].pos
           \/ ~Contiguous(View(s)) /\ Reordered(View(s), View(s)')

LockedSlotsStay ==
    [][\A s \in Sessions :
          session[s].op = "turn" /\ session'[s].op = "turn" /\ edits' # edits
            => LockedSlotStays(s)]_vars

(* agent_tools_mutations.py:429-430: the services run "with commit=False so   *)
(* the agent turn commits/rolls back as one unit".  The run finds a turn that *)
(* fails after its critique had committed its edits.                          *)
AgentTurnAtomic == ~torn
=============================================================================

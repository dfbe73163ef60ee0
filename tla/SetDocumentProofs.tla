-------------------------- MODULE SetDocumentProofs ---------------------------
(***************************************************************************)
(* Theorems about SetDocument, for any songs, any number of requests in    *)
(* progress and any bounds.  A timeline is a finite function from ids to   *)
(* slots; positions are compared and counted, never computed with more     *)
(* than plus or minus one, so what the proofs need of them is that a rank  *)
(* among finitely many numbers tells them apart.                           *)
(***************************************************************************)
EXTENDS SetDocument, FiniteSetTheorems, TLAPS

-------------------------------------------------------------------------------
(* The inductive invariant *)

Tables == UNION {[D -> Timeline] : D \in SUBSET RowIds}
Pools == {p \in UNION {[D -> Songs] : D \in SUBSET RowIds} : IsInjective(p)}
Docs == [pool : Pools, slots : Tables]
SessionType ==
    [op : {"idle", "turn", "restore"}, read : Tables, write : Tables, ids : SUBSET RowIds,
     doc : {None} \cup Docs, kept : BOOLEAN]

Types ==
    /\ pool \in Pools /\ slots \in Tables /\ snapshot \in {None} \cup Docs
    /\ session \in [Sessions -> SessionType]
    /\ \A s \in Sessions : session[s].op = "restore" => session[s].doc # None
    /\ edits \in 0..MaxEdits /\ overlapped \in BOOLEAN

\* What a slot refers to, in the pool p when the songs of gone have been removed.
Resolves(t, p, gone) ==
    \A i \in DOMAIN t :
        \/ t[i].ref \in Named
        \/ /\ t[i].song \notin Named
           /\ \/ t[i].ref \in DOMAIN p /\ p[t[i].ref] = t[i].song
              \/ t[i].ref \notin DOMAIN p /\ t[i].song \in gone

\* A document refers to its own pool, and what it does not find there is not in the
\* pool p either: an id that anything refers to is not given out again.
DocResolves(d, p, gone) ==
    \A i \in DOMAIN d.slots :
        \/ d.slots[i].ref \in Named
        \/ /\ d.slots[i].song \notin Named
           /\ \/ d.slots[i].ref \in DOMAIN d.pool /\ d.pool[d.slots[i].ref] = d.slots[i].song
              \/ /\ d.slots[i].ref \notin DOMAIN d.pool /\ d.slots[i].ref \notin DOMAIN p
                 /\ d.slots[i].song \in gone

Good(t, p, gone) == Distinct(t) /\ Resolves(t, p, gone)
DocGood(d, p, gone) == Distinct(d.slots) /\ DocResolves(d, p, gone)

\* While requests have not overlapped, the one in progress is alone and has read the
\* timeline as it is.
Serial ==
    /\ \A s \in Sessions : session[s].op # "idle" =>
          /\ session[s].read = slots
          /\ \A r \in Sessions \ {s} : session[r] = Idle
    /\ Good(slots, pool, removed)
    /\ \A s \in Sessions : session[s].op = "turn" => Good(session[s].write, pool, removed)
    /\ snapshot # None => DocGood(snapshot, pool, removed)
    /\ \A s \in Sessions : session[s].op = "restore" => DocGood(session[s].doc, pool, removed)

DocInv == Types /\ (~overlapped => Serial)

-------------------------------------------------------------------------------
(* Tables, pools and ranks *)

\* A timeline, as a function of its ids.
LEMMA TableFacts ==
    ASSUME NEW t
    PROVE  /\ t \in Tables <=> DOMAIN t \in SUBSET RowIds /\ t \in [DOMAIN t -> Timeline]
           /\ t \in Tables => \A i \in DOMAIN t :
                 /\ i \in RowIds /\ t[i] \in Timeline /\ t[i].pos \in Nat
                 /\ t[i].song \in Songs /\ t[i].ref \in Songs \cup RowIds /\ t[i].locked \in BOOLEAN
<1>1. t \in Tables <=> DOMAIN t \in SUBSET RowIds /\ t \in [DOMAIN t -> Timeline]
  <2>1. ASSUME t \in Tables PROVE DOMAIN t \in SUBSET RowIds /\ t \in [DOMAIN t -> Timeline]
    <3>1. PICK D \in SUBSET RowIds : t \in [D -> Timeline]
      BY <2>1 DEF Tables
    <3>2. DOMAIN t = D
      BY <3>1
    <3>3. QED
      BY <3>1, <3>2
  <2>2. ASSUME DOMAIN t \in SUBSET RowIds, t \in [DOMAIN t -> Timeline] PROVE t \in Tables
    BY <2>2 DEF Tables
  <2>3. QED
    BY <2>1, <2>2
<1>2. ASSUME t \in Tables, NEW i \in DOMAIN t
      PROVE  /\ i \in RowIds /\ t[i] \in Timeline /\ t[i].pos \in Nat
             /\ t[i].song \in Songs /\ t[i].ref \in Songs \cup RowIds /\ t[i].locked \in BOOLEAN
  <2>1. t[i] \in Timeline /\ i \in RowIds
    BY <1>1, <1>2
  <2>2. QED
    BY <2>1 DEF Timeline
<1>3. QED
  BY <1>1, <1>2

\* A pool, as a function of its ids.
LEMMA PoolFacts ==
    ASSUME NEW p
    PROVE  p \in Pools <=> /\ DOMAIN p \in SUBSET RowIds /\ p \in [DOMAIN p -> Songs]
                           /\ \A i, j \in DOMAIN p : p[i] = p[j] => i = j
<1>1. ASSUME p \in Pools
      PROVE  /\ DOMAIN p \in SUBSET RowIds /\ p \in [DOMAIN p -> Songs]
             /\ \A i, j \in DOMAIN p : p[i] = p[j] => i = j
  <2>1. PICK D \in SUBSET RowIds : p \in [D -> Songs]
    BY <1>1 DEF Pools
  <2>2. DOMAIN p = D
    BY <2>1
  <2>3. QED
    BY <1>1, <2>1, <2>2 DEF Pools, IsInjective
<1>2. ASSUME DOMAIN p \in SUBSET RowIds, p \in [DOMAIN p -> Songs],
             \A i, j \in DOMAIN p : p[i] = p[j] => i = j
      PROVE  p \in Pools
  BY <1>2 DEF Pools, IsInjective
<1>3. QED
  BY <1>1, <1>2

\* Sets of ids are finite.
LEMMA IdsFinite ==
    /\ RowIds \subseteq Nat /\ IsFiniteSet(RowIds)
    /\ \A S \in SUBSET RowIds : IsFiniteSet(S) /\ Cardinality(S) \in Nat
<1>1. MaxRows \in Nat
  BY SetDocumentAssumption
<1>2. RowIds \subseteq Nat /\ IsFiniteSet(RowIds)
  BY <1>1, FS_Interval DEF RowIds
<1>3. QED
  BY <1>2, FS_Subset, FS_CardinalityType

\* A rank counts the smaller numbers, so it tells the numbers of a set apart.
LEMMA RankFacts ==
    ASSUME NEW S \in SUBSET Nat, IsFiniteSet(S)
    PROVE  /\ \A x \in S : Rank(S, x) \in 0..(Cardinality(S) - 1)
           /\ \A x, y \in S : x < y => Rank(S, x) < Rank(S, y)
           /\ \A x, y \in S : Rank(S, x) = Rank(S, y) => x = y
<1>1. ASSUME NEW x \in S
      PROVE  Rank(S, x) \in 0..(Cardinality(S) - 1)
  <2> DEFINE B == {y \in S : y < x}
  <2>1. B \in SUBSET (S \ {x})
    OBVIOUS
  <2>2. IsFiniteSet(S \ {x}) /\ Cardinality(S \ {x}) = Cardinality(S) - 1
    BY FS_RemoveElement
  <2>3. IsFiniteSet(B) /\ Cardinality(B) <= Cardinality(S \ {x})
    BY <2>1, <2>2, FS_Subset
  <2>4. Cardinality(B) \in Nat /\ Cardinality(S) \in Nat
    BY <2>3, FS_CardinalityType
  <2>5. Rank(S, x) = Cardinality(B)
    BY DEF Rank
  <2> HIDE DEF B
  <2>6. QED
    BY <2>2, <2>3, <2>4, <2>5
<1>2. ASSUME NEW x \in S, NEW y \in S, x < y
      PROVE  Rank(S, x) < Rank(S, y)
  <2> DEFINE A == {z \in S : z < x}
             B == {z \in S : z < y}
  <2>0. \A z \in S : z \in Int
    OBVIOUS
  <2>1. A \in SUBSET B /\ x \in B /\ x \notin A
    <3>1. x \in Int /\ y \in Int
      BY <2>0
    <3>2. \A z \in S : z < x => z < y
      BY <1>2, <2>0, <3>1
    <3>3. ~(x < x)
      BY <3>1
    <3>4. QED
      BY <1>2, <3>2, <3>3
  <2>2. IsFiniteSet(B)
    BY FS_Subset
  <2>3. Cardinality(A) <= Cardinality(B) /\ Cardinality(A) # Cardinality(B)
    BY <2>1, <2>2, FS_Subset
  <2>4. Rank(S, x) = Cardinality(A) /\ Rank(S, y) = Cardinality(B)
    BY DEF Rank
  <2>5. Cardinality(A) \in Nat /\ Cardinality(B) \in Nat
    BY <2>1, <2>2, FS_Subset, FS_CardinalityType
  <2> HIDE DEF A, B
  <2>6. QED
    BY <2>3, <2>4, <2>5
<1>3. ASSUME NEW x \in S, NEW y \in S, Rank(S, x) = Rank(S, y)
      PROVE  x = y
  <2>1. Rank(S, x) \in Nat /\ Rank(S, y) \in Nat
    BY <1>1, FS_CardinalityType
  <2>2. ~(x < y) /\ ~(y < x)
    BY <1>2, <1>3, <2>1
  <2>3. QED
    BY <2>2
<1>4. QED
  BY <1>1, <1>2, <1>3

\* The ranks in a finite set are all the numbers below its size.
LEMMA RankOnto ==
    ASSUME NEW S \in SUBSET Nat, IsFiniteSet(S), NEW k \in 0..(Cardinality(S) - 1)
    PROVE  \E x \in S : Rank(S, x) = k
<1> DEFINE f == [x \in S |-> Rank(S, x)]
           T == 0..(Cardinality(S) - 1)
<1>1. Cardinality(S) \in Nat
  BY FS_CardinalityType
<1>2. IsFiniteSet(T) /\ Cardinality(T) = Cardinality(S)
  <2>1. Cardinality(S) - 1 \in Int /\ 0 \in Int
    BY <1>1
  <2>2. IsFiniteSet(T) /\ Cardinality(T) = IF 0 > Cardinality(S) - 1 THEN 0
                                           ELSE (Cardinality(S) - 1) - 0 + 1
    BY <2>1, FS_Interval
  <2>3. QED
    BY <1>1, <2>2
<1>3. f \in Injection(S, T)
  <2>1. f \in [S -> T]
    BY RankFacts
  <2>2. \A a, b \in S : f[a] = f[b] => a = b
    BY RankFacts
  <2>3. QED
    BY <2>1, <2>2 DEF Injection, IsInjective
<1>4. f \in Surjection(S, T)
  BY <1>2, <1>3, FS_Injection
<1>5. \A y \in T : \E x \in S : f[x] = y
  BY <1>4 DEF Surjection
<1>6. QED
  BY <1>5

\* The lowest n of at least n numbers are n.
LEMMA LowestFacts ==
    ASSUME NEW S \in SUBSET Nat, IsFiniteSet(S), NEW n \in Nat
    PROVE  /\ Lowest(S, n) \in SUBSET S /\ IsFiniteSet(Lowest(S, n))
           /\ n <= Cardinality(S) => Cardinality(Lowest(S, n)) = n
<1>1. Lowest(S, n) \in SUBSET S /\ IsFiniteSet(Lowest(S, n))
  BY FS_Subset DEF Lowest
<1>2. ASSUME n <= Cardinality(S)
      PROVE  Cardinality(Lowest(S, n)) = n
  <2> DEFINE L == Lowest(S, n)
             T == 0..(n - 1)
             f == [x \in L |-> Rank(S, x)]
  <2>0. Cardinality(S) \in Nat
    BY FS_CardinalityType
  <2>1. IsFiniteSet(T) /\ Cardinality(T) = n
    <3>1. n - 1 \in Int /\ 0 \in Int
      OBVIOUS
    <3>2. IsFiniteSet(T) /\ Cardinality(T) = IF 0 > n - 1 THEN 0 ELSE (n - 1) - 0 + 1
      BY <3>1, FS_Interval
    <3>3. QED
      BY <3>2
  <2>2. \A x \in L : x \in S /\ Rank(S, x) < n
    BY DEF Lowest
  <2>3. \A x \in S : Rank(S, x) \in Nat
    BY <2>0, RankFacts
  <2>4. f \in [L -> T]
    <3>1. ASSUME NEW x \in L PROVE Rank(S, x) \in T
      <4>1. Rank(S, x) \in Nat /\ Rank(S, x) < n
        BY <2>2, <2>3
      <4>2. QED
        BY <4>1
    <3>2. QED
      BY <3>1
  <2>5. \A a, b \in L : f[a] = f[b] => a = b
    BY <2>2, RankFacts
  <2>6. \A k \in T : \E x \in L : f[x] = k
    <3> SUFFICES ASSUME NEW k \in T PROVE \E x \in L : f[x] = k
      OBVIOUS
    <3>1. k \in 0..(Cardinality(S) - 1) /\ k < n
      BY <1>2, <2>0
    <3>2. PICK x \in S : Rank(S, x) = k
      BY <3>1, RankOnto
    <3>3. x \in L
      BY <3>1, <3>2 DEF Lowest
    <3>4. QED
      BY <3>2, <3>3
  <2>7. f \in Bijection(L, T)
    BY <2>4, <2>5, <2>6 DEF Bijection, Injection, Surjection, IsInjective
  <2>8. Cardinality(T) = Cardinality(L)
    BY <1>1, <2>7, FS_Bijection DEF ExistsBijection
  <2>9. QED
    BY <2>1, <2>8
<1>3. QED
  BY <1>1, <1>2

\* At most one number is the lowest.
LEMMA LowestOne ==
    ASSUME NEW S \in SUBSET Nat, IsFiniteSet(S)
    PROVE  \A x, y \in Lowest(S, 1) : x \in S /\ x = y
<1>1. \A x \in Lowest(S, 1) : x \in S /\ Rank(S, x) < 1
  BY DEF Lowest
<1>2. Cardinality(S) \in Nat
  BY FS_CardinalityType
<1>3. \A x \in S : Rank(S, x) \in Nat
  BY <1>2, RankFacts
<1>4. ASSUME NEW x \in Lowest(S, 1) PROVE Rank(S, x) = 0
  <2>1. Rank(S, x) \in Nat /\ Rank(S, x) < 1
    BY <1>1, <1>3
  <2>2. QED
    BY <2>1
<1>5. QED
  BY <1>1, <1>4, RankFacts

\* Matching two sets of one size in order is one to one.
LEMMA InOrderFacts ==
    ASSUME NEW S \in SUBSET Nat, IsFiniteSet(S), NEW T \in SUBSET Nat, IsFiniteSet(T),
           Cardinality(S) = Cardinality(T)
    PROVE  /\ InOrder(S, T) \in [S -> T]
           /\ \A x, y \in S : InOrder(S, T)[x] = InOrder(S, T)[y] => x = y
<1> DEFINE f == InOrder(S, T)
           Fits(x, y) == Rank(T, y) = Rank(S, x)
<1>1. ASSUME NEW x \in S
      PROVE  f[x] \in T /\ Rank(T, f[x]) = Rank(S, x)
  <2>1. Rank(S, x) \in 0..(Cardinality(T) - 1)
    BY RankFacts
  <2>2. \E y \in T : Fits(x, y)
    BY <2>1, RankOnto
  <2>3. f[x] = CHOOSE y \in T : Fits(x, y)
    BY DEF InOrder
  <2> HIDE DEF f, Fits
  <2>4. f[x] \in T /\ Fits(x, f[x])
    BY <2>2, <2>3
  <2>5. QED
    BY <2>4 DEF Fits
<1>2. f = [x \in S |-> f[x]]
  BY DEF InOrder
<1> HIDE DEF f
<1>3. f \in [S -> T]
  BY <1>1, <1>2
<1>4. \A x, y \in S : f[x] = f[y] => x = y
  BY <1>1, RankFacts
<1>5. QED
  BY <1>3, <1>4 DEF f

\* What is found again under the image of an id.
LEMMA OldFacts ==
    ASSUME NEW f, \A x, y \in DOMAIN f : f[x] = f[y] => x = y
    PROVE  /\ \A x \in DOMAIN f : Old(f, f[x]) = x
           /\ \A i \in Range(f) : Old(f, i) \in DOMAIN f /\ f[Old(f, i)] = i
<1> DEFINE Is(x, i) == f[x] = i
<1>1. ASSUME NEW i \in Range(f)
      PROVE  Old(f, i) \in DOMAIN f /\ f[Old(f, i)] = i
  <2>1. \E x \in DOMAIN f : Is(x, i)
    BY DEF Range
  <2>2. Old(f, i) = CHOOSE x \in DOMAIN f : Is(x, i)
    BY DEF Old
  <2> HIDE DEF Is
  <2>3. Old(f, i) \in DOMAIN f /\ Is(Old(f, i), i)
    BY <2>1, <2>2
  <2>4. QED
    BY <2>3 DEF Is
<1>2. ASSUME NEW x \in DOMAIN f
      PROVE  Old(f, f[x]) = x
  <2>1. f[x] \in Range(f)
    BY DEF Range
  <2>2. Old(f, f[x]) \in DOMAIN f /\ f[Old(f, f[x])] = f[x]
    BY <1>1, <2>1
  <2>3. QED
    BY <2>2
<1>3. QED
  BY <1>1, <1>2

-------------------------------------------------------------------------------
(* What a tool makes of a timeline *)

\* LockedSlotStays, for the timeline t before a tool and u after it.
KeepsLocked(t, u) ==
    \A i \in Locked(t) :
        /\ i \in DOMAIN u
        /\ u[i].ref = t[i].ref
        /\ \/ u[i].pos = t[i].pos
           \/ ~Contiguous(t) /\ Reordered(t, u)

ToolOK(t, u) ==
    /\ u \in Tables
    /\ Distinct(t) => Distinct(u)
    /\ Resolves(t, pool, removed) => Resolves(u, pool, removed)
    /\ KeepsLocked(t, u)

\* A slot moved to another position.
LEMMA SlotMoved ==
    ASSUME NEW x \in Timeline, NEW p \in Nat
    PROVE  LET y == [x EXCEPT !.pos = p] IN
           y \in Timeline /\ y.pos = p /\ y.song = x.song /\ y.ref = x.ref /\ y.locked = x.locked
BY DEF Timeline

\* A new slot for a row of the pool refers to it, or to the provider's track.
LEMMA NewSlotFacts ==
    ASSUME pool \in Pools, NEW row \in DOMAIN pool, NEW p \in Nat
    PROVE  /\ NewSlot(p, row) \in Timeline /\ NewSlot(p, row).pos = p
           /\ \/ NewSlot(p, row).ref \in Named
              \/ /\ NewSlot(p, row).song \notin Named /\ NewSlot(p, row).ref \in DOMAIN pool
                 /\ pool[NewSlot(p, row).ref] = NewSlot(p, row).song
<1>1. pool[row] \in Songs /\ row \in RowIds
  BY PoolFacts
<1>2. SlotTrackId(row) \in Songs \cup RowIds
  BY <1>1 DEF SlotTrackId
<1>3. NewSlot(p, row) = [pos |-> p, song |-> pool[row], ref |-> SlotTrackId(row), locked |-> FALSE]
  BY DEF NewSlot
<1>4. NewSlot(p, row) \in Timeline
  BY <1>1, <1>2, <1>3 DEF Timeline
<1>5. QED
  BY <1>1, <1>3, <1>4 DEF SlotTrackId

\* Slots that keep a reference and a song from t resolve as t does.
LEMMA SameRefs ==
    ASSUME NEW t, NEW u, NEW p, NEW gone, Resolves(t, p, gone),
           \A j \in DOMAIN u : \E k \in DOMAIN t : u[j].ref = t[k].ref /\ u[j].song = t[k].song
    PROVE  Resolves(u, p, gone)
BY DEF Resolves

\* A new order of the same slots.
LEMMA PlacedFacts ==
    ASSUME NEW t \in Tables, NEW order, \A j \in DOMAIN t : order[j] \in Nat
    PROVE  /\ Placed(t, order) \in Tables /\ DOMAIN Placed(t, order) = DOMAIN t
           /\ \A j \in DOMAIN t :
                 /\ Placed(t, order)[j].pos = order[j] /\ Placed(t, order)[j].song = t[j].song
                 /\ Placed(t, order)[j].ref = t[j].ref
<1> DEFINE u == Placed(t, order)
<1>1. u = [j \in DOMAIN t |-> [t[j] EXCEPT !.pos = order[j]]]
  BY DEF Placed
<1>2. ASSUME NEW j \in DOMAIN t
      PROVE  /\ u[j] \in Timeline /\ u[j].pos = order[j] /\ u[j].song = t[j].song
             /\ u[j].ref = t[j].ref
  <2>1. t[j] \in Timeline /\ u[j] = [t[j] EXCEPT !.pos = order[j]]
    BY <1>1, TableFacts
  <2>2. QED
    BY <2>1, SlotMoved
<1>3. DOMAIN u = DOMAIN t /\ DOMAIN t \in SUBSET RowIds
  BY <1>1, TableFacts
<1>4. u \in [DOMAIN u -> Timeline]
  BY <1>1, <1>2
<1>5. u \in Tables
  BY <1>3, <1>4, TableFacts
<1> HIDE DEF u
<1>6. QED
  BY <1>2, <1>3, <1>5 DEF u

\* An order in which a query lists slots, as a function.
LEMMA OrderFacts ==
    ASSUME NEW t, NEW D \in SUBSET RowIds, NEW order \in OrderedSlots(t, D)
    PROVE  /\ \A j \in D : order[j] \in Nat /\ order[j] < Cardinality(D)
           /\ \A j, k \in D : order[j] = order[k] => j = k
           /\ \A n \in 0..(Cardinality(D) - 1) : \E j \in D : order[j] = n
           /\ \A j, k \in D : t[j].pos < t[k].pos => order[j] < order[k]
<1>1. Cardinality(D) \in Nat
  BY IdsFinite
<1>2. /\ order \in [D -> 0..(Cardinality(D) - 1)]
      /\ \A j, k \in D : order[j] = order[k] => j = k
      /\ \A n \in 0..(Cardinality(D) - 1) : \E j \in D : order[j] = n
      /\ \A j, k \in D : t[j].pos < t[k].pos => order[j] < order[k]
  BY DEF OrderedSlots, Bijection, Injection, Surjection, IsInjective
<1>3. QED
  BY <1>1, <1>2

\* Where no two slots are at one position, the index of a slot is the number of those
\* before it.
LEMMA OrderCounts ==
    ASSUME NEW t \in Tables, NEW D \in SUBSET DOMAIN t, Distinct(t),
           NEW order \in OrderedSlots(t, D), NEW j \in D
    PROVE  order[j] = Below(t, D, j)
<1> DEFINE A == {k \in D : t[k].pos < t[j].pos}
           T == 0..(order[j] - 1)
           f == [k \in A |-> order[k]]
<1>1. D \in SUBSET RowIds /\ \A k \in D : t[k].pos \in Nat
  BY TableFacts
<1>2. /\ order[j] \in Nat /\ order[j] < Cardinality(D) /\ Cardinality(D) \in Nat
      /\ \A k \in D : order[k] \in Nat
      /\ \A k, l \in D : order[k] = order[l] => k = l
      /\ \A n \in 0..(Cardinality(D) - 1) : \E k \in D : order[k] = n
      /\ \A k, l \in D : t[k].pos < t[l].pos => order[k] < order[l]
  <2>1. Cardinality(D) \in Nat
    BY <1>1, IdsFinite
  <2> HIDE DEF A, T, f
  <2>2. QED
    BY <1>1, <2>1, OrderFacts
<1>3. f \in Injection(A, T)
  <2>1. ASSUME NEW k \in A PROVE f[k] \in T
    <3>1. order[k] \in Nat /\ order[k] < order[j]
      BY <1>2
    <3>2. QED
      BY <1>2, <3>1
  <2>2. \A k, l \in A : f[k] = f[l] => k = l
    BY <1>2
  <2>3. QED
    BY <2>1, <2>2 DEF Injection, IsInjective
<1>4. ASSUME NEW n \in T PROVE \E k \in A : f[k] = n
  <2>1. n \in 0..(Cardinality(D) - 1) /\ n < order[j]
    BY <1>2
  <2>2. PICK k \in D : order[k] = n
    BY <1>2, <2>1
  <2>3. t[k].pos # t[j].pos
    BY <2>1, <2>2 DEF Distinct
  <2>4. ~(t[j].pos < t[k].pos)
    BY <1>2, <2>1, <2>2
  <2>5. k \in A
    BY <1>1, <2>3, <2>4
  <2>6. QED
    BY <2>2, <2>5
<1>5. ExistsBijection(A, T)
  <2>1. f \in Surjection(A, T)
    BY <1>3, <1>4 DEF Injection, Surjection
  <2>2. QED
    BY <1>3, <2>1 DEF ExistsBijection, Bijection
<1>6. IsFiniteSet(A)
  BY <1>1, IdsFinite
<1>7. Cardinality(T) = order[j]
  <2>1. order[j] - 1 \in Int /\ 0 \in Int
    BY <1>2
  <2>2. Cardinality(T) = IF 0 > order[j] - 1 THEN 0 ELSE (order[j] - 1) - 0 + 1
    BY <2>1, FS_Interval
  <2>3. QED
    BY <1>2, <2>2
<1>8. QED
  BY <1>5, <1>6, <1>7, FS_Bijection DEF Below

\* Where a slot stands among the others when slot i is taken out.
LEMMA BelowWithout ==
    ASSUME NEW t \in Tables, NEW i \in DOMAIN t, NEW j \in DOMAIN t
    PROVE  Below(t, DOMAIN t \ {i}, j) =
             Below(t, DOMAIN t, j) - (IF t[i].pos < t[j].pos THEN 1 ELSE 0)
<1> DEFINE A == {k \in DOMAIN t : t[k].pos < t[j].pos}
           B == {k \in DOMAIN t \ {i} : t[k].pos < t[j].pos}
<1>1. A \in SUBSET RowIds
  BY TableFacts
<1>2. IsFiniteSet(A) /\ Cardinality(A) \in Nat
  BY <1>1, IdsFinite
<1>3. B = A \ {i} /\ (i \in A <=> t[i].pos < t[j].pos)
  OBVIOUS
<1>4. Below(t, DOMAIN t \ {i}, j) = Cardinality(B) /\ Below(t, DOMAIN t, j) = Cardinality(A)
  BY DEF Below
<1> HIDE DEF A, B
<1>5. Cardinality(B) = IF i \in A THEN Cardinality(A) - 1 ELSE Cardinality(A)
  BY <1>2, <1>3, FS_RemoveElement
<1>6. QED
  BY <1>2, <1>3, <1>4, <1>5

\* reorder_slot: slot i goes to position p and the others close up around it.
LEMMA ReorderOK ==
    ASSUME NEW t \in Tables, NEW i \in DOMAIN t, ~t[i].locked, NEW p \in 0..MaxRows,
           NEW rest \in OrderedSlots(t, DOMAIN t \ {i}), InTheWay(t, i, p) = {}
    PROVE  ToolOK(t, Placed(t, Moved(t, i, p, rest)))
<1> DEFINE order == Moved(t, i, p, rest)
           u == Placed(t, order)
<1>0. MaxRows \in Nat /\ p \in Nat
  BY SetDocumentAssumption
<1>1. /\ \A j \in DOMAIN t \ {i} : rest[j] \in Nat
      /\ \A j, k \in DOMAIN t \ {i} : rest[j] = rest[k] => j = k
  <2>1. DOMAIN t \ {i} \in SUBSET RowIds
    BY TableFacts
  <2>2. QED
    BY <2>1, OrderFacts
<1>2. \A j \in DOMAIN t : order[j] = IF j = i THEN p
                                     ELSE IF rest[j] < p THEN rest[j] ELSE rest[j] + 1
  BY DEF Moved
<1> HIDE DEF order
<1>3. \A j \in DOMAIN t : order[j] \in Nat
  BY <1>0, <1>1, <1>2
<1>4. /\ u \in Tables /\ DOMAIN u = DOMAIN t
      /\ \A j \in DOMAIN t : u[j].pos = order[j] /\ u[j].song = t[j].song /\ u[j].ref = t[j].ref
  BY <1>3, PlacedFacts
<1>5. Distinct(u)
  <2>1. ASSUME NEW j \in DOMAIN t \ {i}, NEW k \in DOMAIN t \ {i}, order[j] = order[k]
        PROVE  j = k
    <3>1. PICK a \in Nat, b \in Nat : a = rest[j] /\ b = rest[k]
      BY <1>1
    <3>2. (IF a < p THEN a ELSE a + 1) = (IF b < p THEN b ELSE b + 1)
      BY <1>2, <2>1, <3>1
    <3>3. a = b
      BY <1>0, <3>2
    <3>4. QED
      BY <1>1, <3>1, <3>3
  <2>2. ASSUME NEW j \in DOMAIN t \ {i} PROVE order[j] # order[i]
    <3>1. PICK a \in Nat : a = rest[j]
      BY <1>1
    <3>2. order[i] = p /\ order[j] = IF a < p THEN a ELSE a + 1
      BY <1>2, <3>1
    <3>3. QED
      BY <1>0, <3>2
  <2>3. QED
    BY <1>4, <2>1, <2>2 DEF Distinct
<1>6. ASSUME NEW l \in Locked(t), Contiguous(t) PROVE u[l].pos = t[l].pos
  <2>1. l \in DOMAIN t /\ t[l].locked /\ l # i
    BY DEF Locked
  <2>2. t[l].pos \in Nat /\ t[i].pos \in Nat
    BY <2>1, TableFacts
  <2>3. t[l].pos \notin p..t[i].pos /\ t[l].pos \notin t[i].pos..p
    BY <2>1, <1>6 DEF InTheWay
  <2>4. rest[l] = t[l].pos - (IF t[i].pos < t[l].pos THEN 1 ELSE 0)
    <3>1. rest[l] = Below(t, DOMAIN t \ {i}, l)
      BY <1>6, <2>1, OrderCounts DEF Contiguous
    <3>2. QED
      BY <1>6, <2>1, <3>1, BelowWithout DEF Contiguous
  <2>5. order[l] = IF rest[l] < p THEN rest[l] ELSE rest[l] + 1
    BY <1>2, <2>1
  <2>6. order[l] = t[l].pos
    BY <1>0, <2>2, <2>3, <2>4, <2>5
  <2>7. QED
    BY <1>4, <2>1, <2>6
<1>7. Reordered(t, u)
  BY DEF Reordered, order
<1>8. KeepsLocked(t, u)
  <2>1. \A l \in Locked(t) : l \in DOMAIN t
    BY DEF Locked
  <2>2. QED
    BY <1>4, <1>6, <1>7, <2>1 DEF KeepsLocked
<1>9. Resolves(t, pool, removed) => Resolves(u, pool, removed)
  BY <1>4, SameRefs
<1>10. QED
  BY <1>4, <1>5, <1>8, <1>9 DEF ToolOK, order

\* A new order that leaves the locked slots where they are.
LEMMA SlotOrderOK ==
    ASSUME NEW t \in Tables,
           NEW order \in Bijection(DOMAIN t, 0..(Cardinality(DOMAIN t) - 1)),
           \A i \in Locked(t) : order[i] = t[i].pos
    PROVE  ToolOK(t, Placed(t, order))
<1> DEFINE u == Placed(t, order)
<1>1. /\ \A j \in DOMAIN t : order[j] \in Nat
      /\ \A j, k \in DOMAIN t : order[j] = order[k] => j = k
  <2>1. Cardinality(DOMAIN t) \in Nat
    BY TableFacts, IdsFinite
  <2>2. /\ order \in [DOMAIN t -> 0..(Cardinality(DOMAIN t) - 1)]
        /\ \A j, k \in DOMAIN t : order[j] = order[k] => j = k
    BY DEF Bijection, Injection, IsInjective
  <2>3. QED
    BY <2>1, <2>2
<1>2. /\ u \in Tables /\ DOMAIN u = DOMAIN t
      /\ \A j \in DOMAIN t : u[j].pos = order[j] /\ u[j].song = t[j].song /\ u[j].ref = t[j].ref
  BY <1>1, PlacedFacts
<1>3. Distinct(u)
  BY <1>1, <1>2 DEF Distinct
<1>4. Resolves(t, pool, removed) => Resolves(u, pool, removed)
  BY <1>2, SameRefs
<1>5. KeepsLocked(t, u)
  BY <1>2 DEF KeepsLocked, Locked
<1>6. QED
  BY <1>2, <1>3, <1>4, <1>5 DEF ToolOK

\* A table given slot by slot.
LEMMA TableOf ==
    ASSUME NEW u, DOMAIN u \in SUBSET RowIds, u = [j \in DOMAIN u |-> u[j]],
           \A j \in DOMAIN u : u[j] \in Timeline
    PROVE  u \in Tables
<1>1. u \in [DOMAIN u -> Timeline]
  OBVIOUS
<1>2. QED
  BY <1>1, TableFacts

\* Slots that stay where they are keep the locked ones in place.
LEMMA LockedKept ==
    ASSUME NEW t, NEW u,
           \A j \in Locked(t) : j \in DOMAIN u /\ u[j].ref = t[j].ref /\ u[j].pos = t[j].pos
    PROVE  KeepsLocked(t, u)
BY DEF KeepsLocked

\* swap_slots: two slots exchange what they hold, not their positions.
LEMMA SwapOK ==
    ASSUME NEW t \in Tables, NEW i \in DOMAIN t, NEW j \in DOMAIN t, i # j,
           ~t[i].locked, ~t[j].locked
    PROVE  ToolOK(t, [t EXCEPT ![i] = [t[j] EXCEPT !.pos = t[i].pos],
                                ![j] = [t[i] EXCEPT !.pos = t[j].pos]])
<1> DEFINE x == [t[j] EXCEPT !.pos = t[i].pos]
           y == [t[i] EXCEPT !.pos = t[j].pos]
           u == [t EXCEPT ![i] = x, ![j] = y]
<1>1. /\ t[i] \in Timeline /\ t[j] \in Timeline /\ t[i].pos \in Nat /\ t[j].pos \in Nat
      /\ \A k \in DOMAIN t : t[k] \in Timeline
      /\ DOMAIN t \in SUBSET RowIds /\ t = [k \in DOMAIN t |-> t[k]]
  BY TableFacts
<1>2. /\ x \in Timeline /\ x.pos = t[i].pos /\ x.song = t[j].song /\ x.ref = t[j].ref
      /\ y \in Timeline /\ y.pos = t[j].pos /\ y.song = t[i].song /\ y.ref = t[i].ref
  BY <1>1, SlotMoved
<1> HIDE DEF x, y
<1>3. /\ DOMAIN u = DOMAIN t /\ u = [k \in DOMAIN u |-> u[k]] /\ u[i] = x /\ u[j] = y
      /\ \A k \in DOMAIN t \ {i, j} : u[k] = t[k]
  BY <1>1
<1> HIDE DEF u
<1>4. u \in Tables
  <2>1. \A k \in DOMAIN u : u[k] \in Timeline
    BY <1>1, <1>2, <1>3
  <2>2. QED
    BY <1>1, <1>3, <2>1, TableOf
<1>5. \A k \in DOMAIN t : u[k].pos = t[k].pos
  BY <1>2, <1>3
<1>6. Distinct(t) => Distinct(u)
  BY <1>3, <1>5 DEF Distinct
<1>7. Resolves(t, pool, removed) => Resolves(u, pool, removed)
  BY <1>2, <1>3, SameRefs
<1>8. KeepsLocked(t, u)
  <2>1. \A k \in Locked(t) : k \in DOMAIN t \ {i, j}
    BY DEF Locked
  <2>2. QED
    BY <1>3, <2>1, LockedKept
<1>9. QED
  BY <1>4, <1>6, <1>7, <1>8 DEF ToolOK, u, x, y

\* remove_slot: what comes behind closes up, and nothing there is locked.
LEMMA RemoveOK ==
    ASSUME NEW t \in Tables, NEW i \in DOMAIN t, ~t[i].locked,
           \A j \in Locked(t) : t[j].pos <= t[i].pos
    PROVE  ToolOK(t, Removed(t, i))
<1> DEFINE u == Removed(t, i)
           shifted(j) == [t[j] EXCEPT !.pos = t[j].pos - 1]
<1>1. /\ \A j \in DOMAIN t : t[j] \in Timeline /\ t[j].pos \in Nat
      /\ DOMAIN t \in SUBSET RowIds
  BY TableFacts
<1>2. /\ DOMAIN u = DOMAIN t \ {i} /\ u = [j \in DOMAIN u |-> u[j]]
      /\ \A j \in DOMAIN t \ {i} : u[j] = IF t[j].pos > t[i].pos THEN shifted(j) ELSE t[j]
  BY DEF Removed
<1> HIDE DEF u
<1>3. ASSUME NEW j \in DOMAIN t \ {i}
      PROVE  /\ u[j] \in Timeline /\ u[j].song = t[j].song /\ u[j].ref = t[j].ref
             /\ u[j].pos = IF t[j].pos > t[i].pos THEN t[j].pos - 1 ELSE t[j].pos
  <2>1. CASE t[j].pos > t[i].pos
    <3>1. t[j].pos - 1 \in Nat
      BY <1>1, <2>1
    <3>2. u[j] = [t[j] EXCEPT !.pos = t[j].pos - 1]
      BY <1>2, <2>1
    <3>3. QED
      BY <1>1, <2>1, <3>1, <3>2, SlotMoved
  <2>2. CASE ~(t[j].pos > t[i].pos)
    BY <1>1, <1>2, <2>2
  <2>3. QED
    BY <2>1, <2>2
<1>4. u \in Tables
  BY <1>1, <1>2, <1>3, TableOf
<1>5. ASSUME Distinct(t) PROVE Distinct(u)
  <2>1. ASSUME NEW j \in DOMAIN t \ {i}, NEW k \in DOMAIN t \ {i}, u[j].pos = u[k].pos
        PROVE  j = k
    <3>1. PICK a \in Nat, b \in Nat, c \in Nat : a = t[j].pos /\ b = t[k].pos /\ c = t[i].pos
      BY <1>1
    <3>2. a # c /\ b # c
      BY <1>5, <3>1 DEF Distinct
    <3>3. (IF a > c THEN a - 1 ELSE a) = (IF b > c THEN b - 1 ELSE b)
      BY <1>3, <2>1, <3>1
    <3>4. a = b
      BY <3>2, <3>3
    <3>5. QED
      BY <1>5, <3>1, <3>4 DEF Distinct
  <2>2. QED
    BY <1>2, <2>1 DEF Distinct
<1>6. Resolves(t, pool, removed) => Resolves(u, pool, removed)
  BY <1>2, <1>3, SameRefs
<1>7. KeepsLocked(t, u)
  <2>1. ASSUME NEW j \in Locked(t)
        PROVE  j \in DOMAIN t \ {i} /\ ~(t[j].pos > t[i].pos)
    BY <1>1, <2>1 DEF Locked
  <2>2. QED
    BY <1>2, <1>3, <2>1, LockedKept
<1>8. QED
  BY <1>4, <1>5, <1>6, <1>7 DEF ToolOK, u

\* replace_slot: an unlocked slot takes a row of the pool at its own position.
LEMMA ReplaceOK ==
    ASSUME pool \in Pools, NEW t \in Tables, NEW i \in DOMAIN t, ~t[i].locked,
           NEW row \in DOMAIN pool
    PROVE  ToolOK(t, [t EXCEPT ![i] = NewSlot(t[i].pos, row)])
<1> DEFINE x == NewSlot(t[i].pos, row)
           u == [t EXCEPT ![i] = x]
<1>1. /\ \A j \in DOMAIN t : t[j] \in Timeline /\ t[j].pos \in Nat
      /\ DOMAIN t \in SUBSET RowIds /\ t = [k \in DOMAIN t |-> t[k]]
  BY TableFacts
<1>2. /\ x \in Timeline /\ x.pos = t[i].pos
      /\ \/ x.ref \in Named
         \/ x.song \notin Named /\ x.ref \in DOMAIN pool /\ pool[x.ref] = x.song
  BY <1>1, NewSlotFacts
<1> HIDE DEF x
<1>3. /\ DOMAIN u = DOMAIN t /\ u = [k \in DOMAIN u |-> u[k]] /\ u[i] = x
      /\ \A k \in DOMAIN t \ {i} : u[k] = t[k]
  BY <1>1
<1> HIDE DEF u
<1>4. u \in Tables
  BY <1>1, <1>2, <1>3, TableOf
<1>5. Distinct(t) => Distinct(u)
  <2>1. \A k \in DOMAIN t : u[k].pos = t[k].pos
    BY <1>2, <1>3
  <2>2. QED
    BY <1>3, <2>1 DEF Distinct
<1>6. Resolves(t, pool, removed) => Resolves(u, pool, removed)
  BY <1>2, <1>3 DEF Resolves
<1>7. KeepsLocked(t, u)
  <2>1. \A k \in Locked(t) : k \in DOMAIN t \ {i}
    BY DEF Locked
  <2>2. QED
    BY <1>3, <2>1, LockedKept
<1>8. QED
  BY <1>4, <1>5, <1>6, <1>7 DEF ToolOK, u, x

\* set_slot_locked: only the lock changes.
LEMMA LockOK ==
    ASSUME NEW t \in Tables, NEW i \in DOMAIN t, NEW b \in BOOLEAN
    PROVE  ToolOK(t, [t EXCEPT ![i].locked = b])
<1> DEFINE x == [t[i] EXCEPT !.locked = b]
           u == [t EXCEPT ![i].locked = b]
<1>1. /\ \A j \in DOMAIN t : t[j] \in Timeline /\ t[j].pos \in Nat
      /\ DOMAIN t \in SUBSET RowIds /\ t = [k \in DOMAIN t |-> t[k]]
  BY TableFacts
<1>2. x \in Timeline /\ x.pos = t[i].pos /\ x.song = t[i].song /\ x.ref = t[i].ref
  BY <1>1 DEF Timeline
<1>3. /\ DOMAIN u = DOMAIN t /\ u = [k \in DOMAIN u |-> u[k]] /\ u[i] = x
      /\ \A k \in DOMAIN t \ {i} : u[k] = t[k]
  BY <1>1
<1> HIDE DEF u, x
<1>4. u \in Tables
  BY <1>1, <1>2, <1>3, TableOf
<1>5. \A k \in DOMAIN t : u[k].pos = t[k].pos /\ u[k].song = t[k].song /\ u[k].ref = t[k].ref
  BY <1>2, <1>3
<1>6. Distinct(t) => Distinct(u)
  BY <1>3, <1>5 DEF Distinct
<1>7. Resolves(t, pool, removed) => Resolves(u, pool, removed)
  BY <1>3, <1>5, SameRefs
<1>8. KeepsLocked(t, u)
  BY <1>3, <1>5, LockedKept DEF Locked
<1>9. QED
  BY <1>4, <1>6, <1>7, <1>8 DEF ToolOK, u

\* An insert: the slots from position p on move up, and none of them is locked.
LEMMA InsertOK ==
    ASSUME pool \in Pools, NEW t \in Tables, NEW row \in DOMAIN pool, NEW p \in Nat,
           NEW new \in SUBSET RowIds, new \cap DOMAIN t = {}, \A x, y \in new : x = y,
           \A j \in Locked(t) : t[j].pos < p
    PROVE  ToolOK(t, Updated(Shifted(t, p), [j \in new |-> NewSlot(p, row)]))
<1> DEFINE added == NewSlot(p, row)
           u == Updated(Shifted(t, p), [j \in new |-> added])
           shifted(j) == [t[j] EXCEPT !.pos = t[j].pos + 1]
<1>1. /\ \A j \in DOMAIN t : t[j] \in Timeline /\ t[j].pos \in Nat
      /\ DOMAIN t \in SUBSET RowIds
  BY TableFacts
<1>2. /\ added \in Timeline /\ added.pos = p
      /\ \/ added.ref \in Named
         \/ added.song \notin Named /\ added.ref \in DOMAIN pool /\ pool[added.ref] = added.song
  BY NewSlotFacts
<1> HIDE DEF added
<1>3. /\ DOMAIN u = DOMAIN t \cup new /\ u = [j \in DOMAIN u |-> u[j]]
      /\ \A j \in new : u[j] = added
      /\ \A j \in DOMAIN t : u[j] = IF t[j].pos >= p THEN shifted(j) ELSE t[j]
  BY DEF Updated, Shifted
<1> HIDE DEF u
<1>4. ASSUME NEW j \in DOMAIN t
      PROVE  /\ u[j] \in Timeline /\ u[j].song = t[j].song /\ u[j].ref = t[j].ref
             /\ u[j].pos = IF t[j].pos >= p THEN t[j].pos + 1 ELSE t[j].pos
  <2>1. CASE t[j].pos >= p
    <3>1. t[j].pos + 1 \in Nat
      BY <1>1
    <3>2. u[j] = [t[j] EXCEPT !.pos = t[j].pos + 1]
      BY <1>3, <2>1
    <3>3. QED
      BY <1>1, <2>1, <3>1, <3>2, SlotMoved
  <2>2. CASE ~(t[j].pos >= p)
    BY <1>1, <1>3, <2>2
  <2>3. QED
    BY <2>1, <2>2
<1>5. u \in Tables
  <2>1. \A j \in DOMAIN u : u[j] \in Timeline
    BY <1>2, <1>3, <1>4
  <2>2. QED
    BY <1>1, <1>3, <2>1, TableOf
<1>6. ASSUME Distinct(t) PROVE Distinct(u)
  <2>1. ASSUME NEW j \in DOMAIN t, NEW k \in DOMAIN t, u[j].pos = u[k].pos
        PROVE  j = k
    <3>1. PICK a \in Nat, b \in Nat : a = t[j].pos /\ b = t[k].pos
      BY <1>1
    <3>2. (IF a >= p THEN a + 1 ELSE a) = (IF b >= p THEN b + 1 ELSE b)
      BY <1>4, <2>1, <3>1
    <3>3. a = b
      BY <3>2
    <3>4. QED
      BY <1>6, <3>1, <3>3 DEF Distinct
  <2>2. ASSUME NEW j \in DOMAIN t
        PROVE  u[j].pos # p
    <3>1. PICK a \in Nat : a = t[j].pos
      BY <1>1
    <3>2. (IF a >= p THEN a + 1 ELSE a) # p
      OBVIOUS
    <3>3. QED
      BY <1>4, <3>1, <3>2
  <2>3. QED
    BY <1>2, <1>3, <2>1, <2>2 DEF Distinct
<1>7. ASSUME Resolves(t, pool, removed) PROVE Resolves(u, pool, removed)
  BY <1>2, <1>3, <1>4, <1>7 DEF Resolves
<1>8. KeepsLocked(t, u)
  <2>1. \A j \in Locked(t) : j \in DOMAIN t /\ ~(t[j].pos >= p)
    BY <1>1 DEF Locked
  <2>2. QED
    BY <1>3, <1>4, <2>1, LockedKept
<1>9. QED
  BY <1>5, <1>6, <1>7, <1>8 DEF ToolOK, u, added

\* A build: the locked slots stay, new ones take positions that none of them has.
LEMMA BuildOK ==
    ASSUME pool \in Pools, NEW t \in Tables, NEW new \in SUBSET RowIds, new \cap DOMAIN t = {},
           NEW n \in Nat, NEW pos \in [new -> FreePositions(t, n)],
           \A x, y \in new : pos[x] = pos[y] => x = y, NEW row \in [new -> DOMAIN pool]
    PROVE  ToolOK(t, Updated([i \in Locked(t) |-> t[i]], [i \in new |-> NewSlot(pos[i], row[i])]))
<1> DEFINE u == Updated([i \in Locked(t) |-> t[i]], [i \in new |-> NewSlot(pos[i], row[i])])
<1>1. /\ \A j \in DOMAIN t : t[j] \in Timeline /\ t[j].pos \in Nat
      /\ DOMAIN t \in SUBSET RowIds /\ Locked(t) \in SUBSET DOMAIN t
  BY TableFacts DEF Locked
<1>2. ASSUME NEW i \in new
      PROVE  pos[i] \in Nat /\ row[i] \in DOMAIN pool /\ \A l \in Locked(t) : t[l].pos # pos[i]
  BY DEF FreePositions
<1>3. /\ DOMAIN u = Locked(t) \cup new /\ u = [j \in DOMAIN u |-> u[j]]
      /\ \A j \in new : u[j] = NewSlot(pos[j], row[j])
      /\ \A j \in Locked(t) : u[j] = t[j]
  BY <1>1 DEF Updated
<1> HIDE DEF u
<1>4. ASSUME NEW j \in new
      PROVE  /\ u[j] \in Timeline /\ u[j].pos = pos[j]
             /\ \/ u[j].ref \in Named
                \/ u[j].song \notin Named /\ u[j].ref \in DOMAIN pool /\ pool[u[j].ref] = u[j].song
  <2>1. pos[j] \in Nat /\ row[j] \in DOMAIN pool /\ u[j] = NewSlot(pos[j], row[j])
    BY <1>2, <1>3
  <2>2. QED
    BY <2>1, NewSlotFacts
<1>5. u \in Tables
  <2>1. \A j \in DOMAIN u : u[j] \in Timeline
    BY <1>1, <1>3, <1>4
  <2>2. QED
    BY <1>1, <1>3, <2>1, TableOf
<1>6. Distinct(t) => Distinct(u)
  BY <1>1, <1>2, <1>3, <1>4 DEF Distinct
<1>7. Resolves(t, pool, removed) => Resolves(u, pool, removed)
  BY <1>1, <1>3, <1>4 DEF Resolves
<1>8. KeepsLocked(t, u)
  BY <1>3, LockedKept
<1>9. QED
  BY <1>5, <1>6, <1>7, <1>8 DEF ToolOK, u


-------------------------------------------------------------------------------
(* A tool's step *)

\* An id that no slot has.
LEMMA SlotFresh ==
    ASSUME NEW i \in RowIds \ SlotIdsInUse
    PROVE  /\ i \in RowIds /\ i \notin DOMAIN slots
           /\ \A s \in Sessions : i \notin DOMAIN session[s].read /\ i \notin DOMAIN session[s].write
BY DEF SlotIdsInUse

\* An id that no row of the pool has and nothing refers to.
LEMMA PoolFresh ==
    ASSUME NEW i \in RowIds \ PoolIdsInUse
    PROVE  /\ i \in RowIds /\ i \notin DOMAIN pool /\ i \notin Refs(slots)
           /\ \A s \in Sessions : i \notin Refs(session[s].read) /\ i \notin Refs(session[s].write)
           /\ snapshot # None => i \notin DOMAIN snapshot.pool /\ i \notin Refs(snapshot.slots)
           /\ \A s \in Sessions : session[s].doc # None =>
                 i \notin DOMAIN session[s].doc.pool /\ i \notin Refs(session[s].doc.slots)
<1> DEFINE OfDoc(d) == IF d = None THEN {} ELSE DOMAIN d.pool \cup Refs(d.slots)
           docs == {snapshot} \cup {session[s].doc : s \in Sessions}
           inSession(s) == Refs(session[s].read) \cup Refs(session[s].write) \cup session[s].ids
<1>1. DOMAIN pool \in SUBSET PoolIdsInUse /\ Refs(slots) \in SUBSET PoolIdsInUse
  BY DEF PoolIdsInUse
<1>2. ASSUME NEW s \in Sessions
      PROVE  Refs(session[s].read) \in SUBSET PoolIdsInUse /\ Refs(session[s].write) \in SUBSET PoolIdsInUse
  <2>1. UNION {inSession(r) : r \in Sessions} \in SUBSET PoolIdsInUse
    BY Zenon DEF PoolIdsInUse
  <2> HIDE DEF inSession
  <2>2. inSession(s) \in SUBSET UNION {inSession(r) : r \in Sessions}
    OBVIOUS
  <2>3. inSession(s) \in SUBSET PoolIdsInUse
    BY <2>1, <2>2
  <2>4. QED
    BY <2>3 DEF inSession
<1>3. ASSUME NEW d \in docs
      PROVE  OfDoc(d) \in SUBSET PoolIdsInUse
  <2> DEFINE others == DOMAIN pool \cup Refs(slots) \cup UNION {inSession(r) : r \in Sessions}
             ours == UNION {OfDoc(e) : e \in docs}
  <2>0. PoolIdsInUse = others \cup ours
    BY DEF PoolIdsInUse
  <2>1. ours \in SUBSET PoolIdsInUse
    <3> HIDE DEF others, ours
    <3>1. QED
      BY <2>0
  <2> HIDE DEF OfDoc, docs
  <2>2. OfDoc(d) \in SUBSET UNION {OfDoc(e) : e \in docs}
    OBVIOUS
  <2>3. QED
    BY <2>1, <2>2
<1>4. snapshot \in docs /\ \A s \in Sessions : session[s].doc \in docs
  OBVIOUS
<1> HIDE DEF docs
<1>5. \A d \in docs : d # None => i \notin DOMAIN d.pool /\ i \notin Refs(d.slots)
  BY <1>3
<1>6. QED
  BY <1>1, <1>2, <1>4, <1>5

\* What a session holds.
LEMMA SessionFacts ==
    ASSUME Types, NEW s \in Sessions
    PROVE  /\ session[s] \in SessionType /\ session[s].read \in Tables /\ session[s].write \in Tables
           /\ session[s].ids \in SUBSET RowIds /\ session[s].doc \in {None} \cup Docs
BY DEF Types, SessionType

\* insert_from_pool takes one new id.
LEMMA InsertStep ==
    ASSUME Types, NEW s \in Sessions, NEW row \in DOMAIN pool, NEW p \in 0..MaxRows,
           InsertTrackAt(s, row, p)
    PROVE  \E new : ToolOK(session[s].write, new) /\ Edit(s, new)
<1> DEFINE t == session[s].write
           new == Lowest(RowIds \ SlotIdsInUse, 1)
<1>1. /\ \A j \in Locked(t) : t[j].pos < p
      /\ Edit(s, Updated(Shifted(t, p), [j \in new |-> NewSlot(p, row)]))
  BY DEF InsertTrackAt, View
<1>2. p \in Nat /\ t \in Tables /\ pool \in Pools
  BY SetDocumentAssumption, SessionFacts DEF Types
<1>3. (RowIds \ SlotIdsInUse) \in SUBSET RowIds
  OBVIOUS
<1>4. (RowIds \ SlotIdsInUse) \in SUBSET Nat /\ IsFiniteSet(RowIds \ SlotIdsInUse)
  BY <1>3, IdsFinite
<1>5. new \in SUBSET (RowIds \ SlotIdsInUse) /\ \A x, y \in new : x = y
  BY <1>4, LowestFacts, LowestOne
<1>6. new \in SUBSET RowIds /\ new \cap DOMAIN t = {}
  BY <1>5, SlotFresh
<1> HIDE DEF new
<1>7. ToolOK(t, Updated(Shifted(t, p), [j \in new |-> NewSlot(p, row)]))
  BY <1>1, <1>2, <1>5, <1>6, InsertOK
<1>8. QED
  BY <1>1, <1>7

\* build_set takes an id for each position it fills.
LEMMA BuildStep ==
    ASSUME Types, NEW s \in Sessions, BuildSet(s)
    PROVE  \E new : ToolOK(session[s].write, new) /\ Edit(s, new)
<1> DEFINE t == session[s].write
           kept == [i \in Locked(t) |-> t[i]]
           free(seen) == {i \in DOMAIN pool : SlotTrackId(i) \notin {t[j].ref : j \in seen}}
           fresh == RowIds \ SlotIdsInUse
<1>s. PICK seen \in OnePerPosition(t) : \E n \in 0..MaxSlots :
         LET filled == Lowest(FreePositions(t, n), Cardinality(free(seen)))
             added == Lowest(fresh, Cardinality(filled))
         IN  /\ Cardinality(added) = Cardinality(filled)
             /\ \E row \in Injection(added, free(seen)) :
                   Edit(s, Updated(kept, [i \in added |-> NewSlot(InOrder(added, filled)[i], row[i])]))
  BY DEF BuildSet, View
<1> DEFINE unused == free(seen)
           filled(n) == Lowest(FreePositions(t, n), Cardinality(unused))
           added(n) == Lowest(fresh, Cardinality(filled(n)))
           pos(n) == InOrder(added(n), filled(n))
<1>1. PICK n \in 0..MaxSlots :
         /\ Cardinality(added(n)) = Cardinality(filled(n))
         /\ \E row \in Injection(added(n), unused) :
               Edit(s, Updated(kept, [i \in added(n) |-> NewSlot(pos(n)[i], row[i])]))
  BY <1>s
<1>2. PICK row \in Injection(added(n), unused) :
         Edit(s, Updated(kept, [i \in added(n) |-> NewSlot(pos(n)[i], row[i])]))
  BY <1>1
<1>3. n \in Nat /\ t \in Tables /\ pool \in Pools
  BY SetDocumentAssumption, SessionFacts DEF Types
<1>4. fresh \in SUBSET Nat /\ IsFiniteSet(fresh) /\ Cardinality(unused) \in Nat
  <2>1. fresh \in SUBSET RowIds
    OBVIOUS
  <2>2. DOMAIN pool \in SUBSET RowIds
    BY <1>3, PoolFacts
  <2>3. unused \in SUBSET RowIds
    BY <2>2
  <2>4. QED
    BY <2>1, <2>3, IdsFinite
<1>5. FreePositions(t, n) \in SUBSET Nat /\ IsFiniteSet(FreePositions(t, n))
  <2>1. IsFiniteSet(0..(n - 1)) /\ 0..(n - 1) \subseteq Nat
    BY <1>3, FS_Interval
  <2>2. FreePositions(t, n) \in SUBSET (0..(n - 1))
    BY DEF FreePositions
  <2>3. QED
    BY <2>1, <2>2, FS_Subset
<1>6. filled(n) \in SUBSET FreePositions(t, n) /\ IsFiniteSet(filled(n))
  BY <1>4, <1>5, LowestFacts
<1>7. added(n) \in SUBSET fresh /\ IsFiniteSet(added(n))
  <2>1. Cardinality(filled(n)) \in Nat
    BY <1>6, FS_CardinalityType
  <2>2. QED
    BY <1>4, <2>1, LowestFacts
<1>8. /\ pos(n) \in [added(n) -> filled(n)]
      /\ \A x, y \in added(n) : pos(n)[x] = pos(n)[y] => x = y
  BY <1>1, <1>4, <1>5, <1>6, <1>7, InOrderFacts
<1>9. added(n) \in SUBSET RowIds /\ added(n) \cap DOMAIN t = {}
  BY <1>7, SlotFresh
<1>10. row \in [added(n) -> DOMAIN pool]
  BY <1>2 DEF Injection
<1>11. PICK a \in SUBSET RowIds : a = added(n)
  BY <1>9
<1>12. PICK q \in [a -> FreePositions(t, n)] : q = pos(n)
  BY <1>6, <1>8, <1>11
<1>13. /\ a \cap DOMAIN t = {} /\ row \in [a -> DOMAIN pool]
       /\ \A x, y \in a : q[x] = q[y] => x = y
  BY <1>8, <1>9, <1>10, <1>11, <1>12
<1>14. ToolOK(t, Updated([i \in Locked(t) |-> t[i]], [i \in a |-> NewSlot(q[i], row[i])]))
  BY <1>3, <1>13, BuildOK
<1>15. Edit(s, Updated([i \in Locked(t) |-> t[i]], [i \in a |-> NewSlot(q[i], row[i])]))
  BY <1>2, <1>11, <1>12
<1>16. QED
  BY <1>14, <1>15

\* Every tool makes an edit that ToolOK allows.
LEMMA ToolSteps ==
    ASSUME Types, NEW s \in Sessions, Tool(s)
    PROVE  \E new : ToolOK(session[s].write, new) /\ Edit(s, new)
<1> DEFINE t == session[s].write
<1>1. t \in Tables /\ pool \in Pools
  BY SessionFacts DEF Types
<1>2. View(s) = t
  BY DEF View
<1>3. ASSUME NEW i \in DOMAIN t, NEW p \in 0..MaxRows, ReorderSlot(s, i, p)
      PROVE  \E new : ToolOK(t, new) /\ Edit(s, new)
  <2>1. PICK rest \in OrderedSlots(t, DOMAIN t \ {i}) :
           /\ ~t[i].locked /\ InTheWay(t, i, p) = {}
           /\ Edit(s, Placed(t, Moved(t, i, p, rest)))
    BY <1>2, <1>3 DEF ReorderSlot
  <2>2. ToolOK(t, Placed(t, Moved(t, i, p, rest)))
    BY <1>1, <2>1, ReorderOK
  <2>3. QED
    BY <2>1, <2>2
<1>4. ASSUME NEW i \in DOMAIN t, NEW j \in DOMAIN t, SwapSlots(s, i, j)
      PROVE  \E new : ToolOK(t, new) /\ Edit(s, new)
  <2> DEFINE u == [t EXCEPT ![i] = [t[j] EXCEPT !.pos = t[i].pos],
                            ![j] = [t[i] EXCEPT !.pos = t[j].pos]]
  <2>1. i # j /\ ~t[i].locked /\ ~t[j].locked /\ Edit(s, u)
    BY <1>2, <1>4 DEF SwapSlots
  <2>2. ToolOK(t, u)
    BY <1>1, <2>1, SwapOK
  <2> HIDE DEF u
  <2>3. QED
    BY <2>1, <2>2
<1>5. ASSUME NEW i \in DOMAIN t, RemoveSlot(s, i)
      PROVE  \E new : ToolOK(t, new) /\ Edit(s, new)
  <2>1. ~t[i].locked /\ (\A j \in Locked(t) : t[j].pos <= t[i].pos) /\ Edit(s, Removed(t, i))
    BY <1>2, <1>5 DEF RemoveSlot
  <2>2. ToolOK(t, Removed(t, i))
    BY <1>1, <2>1, RemoveOK
  <2>3. QED
    BY <2>1, <2>2
<1>6. ASSUME NEW i \in DOMAIN t, NEW row \in DOMAIN pool, ReplaceSlot(s, i, row)
      PROVE  \E new : ToolOK(t, new) /\ Edit(s, new)
  <2> DEFINE u == [t EXCEPT ![i] = NewSlot(t[i].pos, row)]
  <2>1. ~t[i].locked /\ Edit(s, u)
    BY <1>2, <1>6 DEF ReplaceSlot
  <2>2. ToolOK(t, u)
    BY <1>1, <2>1, ReplaceOK
  <2> HIDE DEF u
  <2>3. QED
    BY <2>1, <2>2
<1>7. ASSUME NEW i \in DOMAIN t, NEW b \in BOOLEAN, SetSlotLocked(s, i, b)
      PROVE  \E new : ToolOK(t, new) /\ Edit(s, new)
  <2> DEFINE u == [t EXCEPT ![i].locked = b]
  <2>1. Edit(s, u)
    BY <1>2, <1>7 DEF SetSlotLocked
  <2>2. ToolOK(t, u)
    BY <1>1, LockOK
  <2> HIDE DEF u
  <2>3. QED
    BY <2>1, <2>2
<1>8. ASSUME NEW order \in Bijection(DOMAIN t, 0..(Cardinality(DOMAIN t) - 1)), ApplySlotOrder(s, order)
      PROVE  \E new : ToolOK(t, new) /\ Edit(s, new)
  <2>1. (\A i \in Locked(t) : order[i] = t[i].pos) /\ Edit(s, Placed(t, order))
    BY <1>2, <1>8 DEF ApplySlotOrder
  <2>2. ToolOK(t, Placed(t, order))
    BY <1>1, <2>1, SlotOrderOK
  <2>3. QED
    BY <2>1, <2>2
<1>9. QED
  BY <1>2, <1>3, <1>4, <1>5, <1>6, <1>7, <1>8, InsertStep, BuildStep DEF Tool

-------------------------------------------------------------------------------
(* The steps of a request *)

\* An idle session is a session.
LEMMA IdleFacts == Idle \in SessionType /\ Idle.op = "idle" /\ Idle.read = Empty /\ Idle.write = Empty
<1>1. Empty \in Tables
  BY TableFacts DEF Empty
<1>2. QED
  BY <1>1 DEF Idle, SessionType

\* One session changes.
LEMMA SessionSet ==
    ASSUME session \in [Sessions -> SessionType], NEW s \in Sessions, NEW v \in SessionType,
           session' = [session EXCEPT ![s] = v]
    PROVE  /\ session' \in [Sessions -> SessionType] /\ session'[s] = v
           /\ \A r \in Sessions \ {s} : session'[r] = session[r]
OBVIOUS

\* The session of a tool's edit.
LEMMA WriteSet ==
    ASSUME NEW v \in SessionType, NEW t \in Tables
    PROVE  LET x == [v EXCEPT !.write = t] IN
           x \in SessionType /\ x.op = v.op /\ x.read = v.read /\ x.write = t /\ x.doc = v.doc
BY DEF SessionType

\* The session of a turn when it begins.
LEMMA TurnSet ==
    ASSUME NEW v \in SessionType, NEW t \in Tables
    PROVE  LET x == [v EXCEPT !.op = "turn", !.read = t, !.write = t] IN
           x \in SessionType /\ x.op = "turn" /\ x.read = t /\ x.write = t
BY DEF SessionType

\* The session of a turn after its critique.
LEMMA KeptSet ==
    ASSUME NEW v \in SessionType, NEW t \in Tables, NEW k \in BOOLEAN
    PROVE  LET x == [v EXCEPT !.read = t, !.write = t, !.kept = k] IN
           x \in SessionType /\ x.op = v.op /\ x.read = t /\ x.write = t
BY DEF SessionType

\* The counter of the edits stays within its bound.
LEMMA EditsStep ==
    ASSUME edits \in 0..MaxEdits, edits < MaxEdits
    PROVE  edits + 1 \in 0..MaxEdits
BY SetDocumentAssumption

\* A tool's edit keeps the invariant, and the locked slots of every request.
LEMMA EditOK ==
    ASSUME DocInv, NEW s \in Sessions, NEW new, ToolOK(session[s].write, new), Edit(s, new)
    PROVE  DocInv' /\ \A r \in Sessions : LockedSlotStays(r)
<1> DEFINE v == [session[s] EXCEPT !.write = new]
<1>1. /\ session[s].op = "turn" /\ edits < MaxEdits /\ edits' = edits + 1
      /\ session' = [session EXCEPT ![s].write = new]
      /\ pool' = pool /\ slots' = slots /\ snapshot' = snapshot
      /\ removed' = removed /\ overlapped' = overlapped
  BY DEF Edit, history
<1>2. Types /\ session[s] \in SessionType /\ new \in Tables
  BY SessionFacts DEF DocInv, ToolOK
<1>3. v \in SessionType /\ v.op = "turn" /\ v.read = session[s].read /\ v.write = new
  BY <1>1, <1>2, WriteSet
<1>4. session' = [session EXCEPT ![s] = v]
  BY <1>1
<1> HIDE DEF v
<1>5. session \in [Sessions -> SessionType]
  BY <1>2 DEF Types
<1>6. /\ session' \in [Sessions -> SessionType] /\ session'[s] = v
      /\ \A r \in Sessions \ {s} : session'[r] = session[r]
  BY <1>3, <1>4, <1>5, SessionSet
<1>7. Types'
  <2>1. edits' \in 0..MaxEdits
    BY <1>1, <1>2, EditsStep DEF Types
  <2>2. \A r \in Sessions : session'[r].op = "restore" => session'[r].doc # None
    BY <1>2, <1>3, <1>6 DEF Types
  <2>3. QED
    BY <1>1, <1>2, <1>6, <2>1, <2>2 DEF Types
<1>8. ASSUME ~overlapped' PROVE Serial'
  <2>1. Serial
    BY <1>1, <1>8 DEF DocInv
  <2>2. \A r \in Sessions \ {s} : session[r] = Idle /\ session'[r] = Idle
    BY <1>1, <1>6, <2>1 DEF Serial
  <2>3. \A r \in Sessions : session'[r].op # "idle" =>
          session'[r].read = slots' /\ \A q \in Sessions \ {r} : session'[q] = Idle
    BY <1>1, <1>3, <1>6, <2>1, <2>2, IdleFacts DEF Serial
  <2>4. Good(new, pool, removed)
    BY <1>1, <2>1 DEF Serial, Good, ToolOK
  <2>5. \A r \in Sessions : session'[r].op = "turn" => Good(session'[r].write, pool, removed)
    BY <1>3, <1>6, <2>2, <2>4, IdleFacts
  <2>6. \A r \in Sessions : session'[r].op # "restore"
    BY <1>3, <1>6, <2>2, IdleFacts
  <2>7. Good(slots, pool, removed) /\ (snapshot # None => DocGood(snapshot, pool, removed))
    BY <2>1 DEF Serial
  <2>8. QED
    BY <1>1, <2>3, <2>5, <2>6, <2>7 DEF Serial
<1>9. ASSUME NEW r \in Sessions PROVE LockedSlotStays(r)
  <2>1. CASE r = s
    <3>1. View(r) = session[s].write /\ View(r)' = new
      BY <1>3, <1>6, <2>1 DEF View
    <3>2. KeepsLocked(session[s].write, new)
      BY DEF ToolOK
    <3>3. QED
      BY <3>1, <3>2 DEF LockedSlotStays, KeepsLocked
  <2>2. CASE r # s
    <3>1. View(r)' = View(r)
      BY <1>6, <2>2 DEF View
    <3>2. QED
      BY <3>1 DEF LockedSlotStays, Locked
  <2>3. QED
    BY <2>1, <2>2
<1>10. QED
  BY <1>7, <1>8, <1>9 DEF DocInv

\* A request begins: unless others are in progress it is alone.
LEMMA BeginOK ==
    ASSUME DocInv, NEW s \in Sessions, NEW v \in SessionType, Begin(s, v),
           UNCHANGED <<pool, slots, snapshot, edits, removed>>,
           v.op # "idle", v.read = slots,
           v.op = "turn" => v.write = slots,
           v.op = "restore" => v.doc # None /\ v.doc = snapshot
    PROVE  DocInv'
<1>1. /\ session' = [session EXCEPT ![s] = v]
      /\ overlapped' = (overlapped \/ \E r \in Sessions \ {s} : session[r] # Idle)
  BY DEF Begin
<1>2. Types
  BY DEF DocInv
<1>3. session \in [Sessions -> SessionType]
  BY <1>2 DEF Types
<1>4. /\ session' \in [Sessions -> SessionType] /\ session'[s] = v
      /\ \A r \in Sessions \ {s} : session'[r] = session[r]
  BY <1>1, <1>3, SessionSet
<1>5. Types'
  <2>1. \A r \in Sessions : session'[r].op = "restore" => session'[r].doc # None
    BY <1>2, <1>4 DEF Types
  <2>2. overlapped' \in BOOLEAN
    BY <1>1
  <2>3. QED
    BY <1>2, <1>4, <2>1, <2>2 DEF Types
<1>6. ASSUME ~overlapped' PROVE Serial'
  <2>1. ~overlapped /\ \A r \in Sessions \ {s} : session[r] = Idle
    BY <1>1, <1>6
  <2>2. Serial
    BY <2>1 DEF DocInv
  <2>3. \A r \in Sessions \ {s} : session'[r] = Idle
    BY <1>4, <2>1
  <2>4. \A r \in Sessions : session'[r].op # "idle" =>
          session'[r].read = slots' /\ \A q \in Sessions \ {r} : session'[q] = Idle
    BY <1>4, <2>3, IdleFacts
  <2>5. \A r \in Sessions : session'[r].op = "turn" => Good(session'[r].write, pool, removed)
    BY <1>4, <2>2, <2>3, IdleFacts DEF Serial
  <2>6. \A r \in Sessions : session'[r].op = "restore" => DocGood(session'[r].doc, pool, removed)
    BY <1>4, <2>2, <2>3, IdleFacts DEF Serial
  <2>7. Good(slots, pool, removed) /\ (snapshot # None => DocGood(snapshot, pool, removed))
    BY <2>2 DEF Serial
  <2>8. QED
    BY <2>4, <2>5, <2>6, <2>7 DEF Serial
<1>7. QED
  BY <1>5, <1>6 DEF DocInv

\* A turn begins with the timeline as it is.
LEMMA BeginTurnOK ==
    ASSUME DocInv, NEW s \in Sessions, BeginTurn(s)
    PROVE  DocInv'
<1> DEFINE v == [Idle EXCEPT !.op = "turn", !.read = slots, !.write = slots]
<1>1. Begin(s, v) /\ UNCHANGED <<pool, slots, snapshot, edits, removed>>
  BY DEF BeginTurn
<1>2. slots \in Tables /\ Idle \in SessionType
  BY IdleFacts DEF DocInv, Types
<1>3. v \in SessionType /\ v.op = "turn" /\ v.read = slots /\ v.write = slots
  BY <1>2, TurnSet
<1> HIDE DEF v
<1>4. QED
  BY <1>1, <1>3, BeginOK

\* A restore begins with the timeline and the snapshot as they are.
LEMMA BeginRestoreOK ==
    ASSUME DocInv, NEW s \in Sessions, BeginRestore(s)
    PROVE  DocInv'
<1> DEFINE v == [Idle EXCEPT !.op = "restore", !.read = slots, !.ids = DOMAIN pool, !.doc = snapshot]
<1>1. Begin(s, v) /\ UNCHANGED <<pool, slots, snapshot, edits, removed>> /\ snapshot # None
  BY DEF BeginRestore
<1>2. slots \in Tables /\ Idle \in SessionType /\ snapshot \in Docs /\ DOMAIN pool \in SUBSET RowIds
  BY <1>1, IdleFacts, PoolFacts DEF DocInv, Types
<1>3. v \in SessionType /\ v.op = "restore" /\ v.read = slots /\ v.doc = snapshot
  BY <1>2 DEF SessionType
<1> HIDE DEF v
<1>4. QED
  BY <1>1, <1>3, BeginOK

\* A request ends: no other was in progress unless requests have overlapped.
LEMMA EndOK ==
    ASSUME DocInv, NEW s \in Sessions, session[s].op # "idle",
           session' = [session EXCEPT ![s] = Idle],
           UNCHANGED <<snapshot, edits, removed, overlapped>>,
           pool' \in Pools, slots' \in Tables,
           ~overlapped => /\ Good(slots', pool', removed)
                          /\ snapshot # None => DocGood(snapshot, pool', removed)
    PROVE  DocInv'
<1>1. Types
  BY DEF DocInv
<1>2. session \in [Sessions -> SessionType]
  BY <1>1 DEF Types
<1>3. /\ session' \in [Sessions -> SessionType] /\ session'[s] = Idle
      /\ \A r \in Sessions \ {s} : session'[r] = session[r]
  BY <1>2, IdleFacts, SessionSet
<1>4. Types'
  <2>1. \A r \in Sessions : session'[r].op = "restore" => session'[r].doc # None
    BY <1>1, <1>3, IdleFacts DEF Types
  <2>2. QED
    BY <1>1, <1>3, <2>1 DEF Types
<1>5. ASSUME ~overlapped' PROVE Serial'
  <2>1. Serial
    BY <1>5 DEF DocInv
  <2>2. \A r \in Sessions : session'[r] = Idle
    BY <1>3, <2>1 DEF Serial
  <2>3. \A r \in Sessions : session'[r].op = "idle"
    BY <2>2, IdleFacts
  <2>4. QED
    BY <1>5, <2>2, <2>3 DEF Serial
<1>6. QED
  BY <1>4, <1>5 DEF DocInv

\* What a commit leaves of a slot that was there: the columns the request changed.
LEMMA MergedSlot ==
    ASSUME NEW a \in Timeline, NEW b \in Timeline, NEW c \in Timeline
    PROVE  LET x == [pos |-> IF c.pos # b.pos THEN c.pos ELSE a.pos,
                     song |-> IF c.ref # b.ref THEN c.song ELSE a.song,
                     ref |-> IF c.ref # b.ref THEN c.ref ELSE a.ref,
                     locked |-> IF c.locked # b.locked THEN c.locked ELSE a.locked]
           IN  /\ x \in Timeline
               /\ a = b => x.pos = c.pos
               /\ \/ x.ref = c.ref /\ x.song = c.song
                  \/ x.ref = a.ref /\ x.song = a.song
BY DEF Timeline

\* A commit writes a timeline; of rows nobody else changed, it writes the request's positions.
LEMMA WrittenFacts ==
    ASSUME slots \in Tables, NEW read \in Tables, NEW write \in Tables
    PROVE  /\ Written(read, write) \in Tables
           /\ read = slots =>
                /\ Distinct(write) => Distinct(Written(read, write))
                /\ \A p, gone : Resolves(slots, p, gone) /\ Resolves(write, p, gone)
                                  => Resolves(Written(read, write), p, gone)
<1> DEFINE u == Written(read, write)
           D == (DOMAIN slots \ (DOMAIN read \ DOMAIN write)) \cup (DOMAIN write \ DOMAIN read)
           x(i) == [pos |-> IF write[i].pos # read[i].pos THEN write[i].pos ELSE slots[i].pos,
                    song |-> IF write[i].ref # read[i].ref THEN write[i].song ELSE slots[i].song,
                    ref |-> IF write[i].ref # read[i].ref THEN write[i].ref ELSE slots[i].ref,
                    locked |-> IF write[i].locked # read[i].locked THEN write[i].locked
                               ELSE slots[i].locked]
<1>1. /\ DOMAIN u = D /\ u = [i \in DOMAIN u |-> u[i]]
      /\ \A i \in D : u[i] = IF i \notin DOMAIN slots THEN write[i]
                             ELSE IF i \notin DOMAIN read THEN slots[i] ELSE x(i)
  BY DEF Written
<1>2. /\ \A i \in DOMAIN slots : slots[i] \in Timeline
      /\ \A i \in DOMAIN read : read[i] \in Timeline
      /\ \A i \in DOMAIN write : write[i] \in Timeline
      /\ DOMAIN slots \in SUBSET RowIds /\ DOMAIN write \in SUBSET RowIds
  BY TableFacts
<1>3. ASSUME NEW i, i \in DOMAIN slots, i \in DOMAIN read, i \in DOMAIN write
      PROVE  /\ x(i) \in Timeline
             /\ slots[i] = read[i] => x(i).pos = write[i].pos
             /\ \/ x(i).ref = write[i].ref /\ x(i).song = write[i].song
                \/ x(i).ref = slots[i].ref /\ x(i).song = slots[i].song
  <2>1. slots[i] \in Timeline /\ read[i] \in Timeline /\ write[i] \in Timeline
    BY <1>2, <1>3
  <2>2. QED
    BY <2>1, MergedSlot
<1> HIDE DEF u, x
<1>4. u \in Tables
  <2>1. ASSUME NEW i \in D PROVE u[i] \in Timeline
    <3>1. CASE i \notin DOMAIN slots
      BY <1>1, <1>2, <3>1
    <3>2. CASE i \in DOMAIN slots /\ i \notin DOMAIN read
      BY <1>1, <1>2, <3>2
    <3>3. CASE i \in DOMAIN slots /\ i \in DOMAIN read
      <4>1. i \in DOMAIN write /\ u[i] = x(i)
        BY <1>1, <3>3
      <4>2. QED
        BY <1>3, <3>3, <4>1
    <3>4. QED
      BY <3>1, <3>2, <3>3
  <2>2. D \in SUBSET RowIds
    BY <1>2
  <2>3. QED
    BY <1>1, <2>1, <2>2, TableOf
<1>5. ASSUME read = slots
      PROVE  /\ DOMAIN u = DOMAIN write
             /\ \A i \in DOMAIN write :
                   /\ u[i].pos = write[i].pos
                   /\ \/ u[i].ref = write[i].ref /\ u[i].song = write[i].song
                      \/ i \in DOMAIN slots /\ u[i].ref = slots[i].ref /\ u[i].song = slots[i].song
  <2>1. DOMAIN u = DOMAIN write
    BY <1>1, <1>5
  <2>2. ASSUME NEW i \in DOMAIN write, i \in DOMAIN slots
        PROVE  /\ u[i].pos = write[i].pos
               /\ \/ u[i].ref = write[i].ref /\ u[i].song = write[i].song
                  \/ u[i].ref = slots[i].ref /\ u[i].song = slots[i].song
    <3>1. u[i] = x(i)
      BY <1>1, <1>5, <2>1, <2>2
    <3>2. slots[i] = read[i] /\ i \in DOMAIN read
      BY <1>5, <2>2
    <3>3. /\ x(i).pos = write[i].pos
          /\ \/ x(i).ref = write[i].ref /\ x(i).song = write[i].song
             \/ x(i).ref = slots[i].ref /\ x(i).song = slots[i].song
      BY <1>3, <2>2, <3>2
    <3>4. QED
      BY <3>1, <3>3
  <2>3. ASSUME NEW i \in DOMAIN write, i \notin DOMAIN slots
        PROVE  u[i] = write[i]
    BY <1>1, <2>1, <2>3
  <2>4. QED
    BY <2>1, <2>2, <2>3
<1>6. ASSUME read = slots, Distinct(write) PROVE Distinct(u)
  BY <1>5, <1>6 DEF Distinct
<1>7. ASSUME read = slots, NEW p, NEW gone, Resolves(slots, p, gone), Resolves(write, p, gone)
      PROVE  Resolves(u, p, gone)
  BY <1>5, <1>7 DEF Resolves
<1>8. QED
  BY <1>4, <1>6, <1>7 DEF u

\* The commit of a turn.
LEMMA CommitTurnOK ==
    ASSUME DocInv, NEW s \in Sessions, CommitTurn(s)
    PROVE  DocInv'
<1> DEFINE r == session[s].read
           w == session[s].write
<1>1. /\ session[s].op = "turn" /\ session' = [session EXCEPT ![s] = Idle]
      /\ pool' = pool /\ UNCHANGED <<snapshot, edits, removed, overlapped>>
      /\ slots' = IF Writable(r, w) THEN Written(r, w) ELSE slots
  BY DEF CommitTurn, history
<1>2. Types /\ r \in Tables /\ w \in Tables /\ slots \in Tables /\ pool \in Pools
  BY SessionFacts DEF DocInv, Types
<1>3. slots' \in Tables
  BY <1>1, <1>2, WrittenFacts
<1>4. ASSUME ~overlapped
      PROVE  Good(slots', pool, removed) /\ (snapshot # None => DocGood(snapshot, pool, removed))
  <2>1. r = slots /\ Good(slots, pool, removed) /\ Good(w, pool, removed)
    BY <1>1, <1>4 DEF DocInv, Serial
  <2>2. Good(Written(r, w), pool, removed)
    BY <1>2, <2>1, WrittenFacts DEF Good
  <2>3. QED
    BY <1>1, <1>4, <2>1, <2>2 DEF DocInv, Serial
<1>5. QED
  BY <1>1, <1>2, <1>3, <1>4, EndOK

\* A turn that fails writes nothing.
LEMMA FailTurnOK ==
    ASSUME DocInv, NEW s \in Sessions, FailTurn(s)
    PROVE  DocInv'
<1>1. /\ session[s].op = "turn" /\ session' = [session EXCEPT ![s] = Idle]
      /\ pool' = pool /\ slots' = slots /\ UNCHANGED <<snapshot, edits, removed, overlapped>>
  BY DEF FailTurn
<1>2. pool' \in Pools /\ slots' \in Tables
  BY <1>1 DEF DocInv, Types
<1>3. ~overlapped => /\ Good(slots', pool', removed)
                     /\ snapshot # None => DocGood(snapshot, pool', removed)
  BY <1>1 DEF DocInv, Serial
<1>4. QED
  BY <1>1, <1>2, <1>3, EndOK

\* The commit in the middle of a turn: the turn goes on with what it has written.
LEMMA CritiqueSetOK ==
    ASSUME DocInv, NEW s \in Sessions, CritiqueSet(s)
    PROVE  DocInv'
<1> DEFINE r == session[s].read
           w == session[s].write
<1>0. PICK k \in BOOLEAN : k = (session[s].kept \/ r # w)
  OBVIOUS
<1> DEFINE v == [session[s] EXCEPT !.read = slots', !.write = slots', !.kept = k]
<1>1. /\ session[s].op = "turn" /\ slots' = Written(r, w)
      /\ session' = [session EXCEPT ![s].read = slots', ![s].write = slots', ![s].kept = k]
      /\ pool' = pool /\ UNCHANGED <<snapshot, edits, removed, overlapped>>
  BY <1>0 DEF CritiqueSet, history
<1>2. Types /\ r \in Tables /\ w \in Tables /\ slots \in Tables /\ session[s] \in SessionType
  BY SessionFacts DEF DocInv, Types
<1>3. slots' \in Tables
  BY <1>1, <1>2, WrittenFacts
<1>4. PICK t \in Tables : t = slots'
  BY <1>3
<1>5. session' = [session EXCEPT ![s] = v]
  BY <1>1, <1>2 DEF Types
<1>6. v \in SessionType /\ v.op = "turn" /\ v.read = t /\ v.write = t
  <2> PICK z \in SessionType : z = session[s]
    BY <1>2
  <2> DEFINE x == [z EXCEPT !.read = t, !.write = t, !.kept = k]
  <2>1. x \in SessionType /\ x.op = z.op /\ x.read = t /\ x.write = t
    BY KeptSet
  <2>2. v = x
    BY <1>4
  <2> HIDE DEF v, x
  <2>3. QED
    BY <1>1, <2>1, <2>2
<1> HIDE DEF v
<1>7. session \in [Sessions -> SessionType]
  BY <1>2 DEF Types
<1>8. /\ session' \in [Sessions -> SessionType] /\ session'[s] = v
      /\ \A q \in Sessions \ {s} : session'[q] = session[q]
  BY <1>5, <1>6, <1>7, SessionSet
<1>9. Types'
  <2>1. \A q \in Sessions : session'[q].op = "restore" => session'[q].doc # None
    BY <1>2, <1>6, <1>8 DEF Types
  <2>2. QED
    BY <1>1, <1>2, <1>3, <1>8, <2>1 DEF Types
<1>10. ASSUME ~overlapped' PROVE Serial'
  <2>1. Serial
    BY <1>1, <1>10 DEF DocInv
  <2>2. r = slots /\ Good(slots, pool, removed) /\ Good(w, pool, removed)
    BY <1>1, <2>1 DEF Serial
  <2>3. Good(slots', pool, removed)
    <3>1. Good(Written(r, w), pool, removed)
      BY <1>2, <2>2, WrittenFacts DEF Good
    <3>2. QED
      BY <1>1, <3>1
  <2>4. \A q \in Sessions \ {s} : session'[q] = Idle
    BY <1>1, <1>8, <2>1 DEF Serial
  <2>5. \A q \in Sessions : session'[q].op # "idle" =>
          session'[q].read = slots' /\ \A z \in Sessions \ {q} : session'[z] = Idle
    BY <1>4, <1>6, <1>8, <2>4, IdleFacts
  <2>6. \A q \in Sessions : session'[q].op = "turn" => Good(session'[q].write, pool, removed)
    BY <1>4, <1>6, <1>8, <2>3, <2>4, IdleFacts
  <2>7. \A q \in Sessions : session'[q].op # "restore"
    BY <1>6, <1>8, <2>4, IdleFacts
  <2>8. snapshot # None => DocGood(snapshot, pool, removed)
    BY <2>1 DEF Serial
  <2>9. QED
    BY <1>1, <2>3, <2>5, <2>6, <2>7, <2>8 DEF Serial
<1>11. QED
  BY <1>9, <1>10 DEF DocInv

-------------------------------------------------------------------------------
(* The pool, the snapshots and the restore *)

\* Slots resolve in a pool with more rows, when the new ones have ids nothing refers to.
LEMMA Grown ==
    ASSUME NEW t, NEW p, NEW q, NEW gone, Resolves(t, p, gone),
           \A x \in DOMAIN p : x \in DOMAIN q /\ q[x] = p[x],
           \A x \in DOMAIN q : x \in DOMAIN p \/ x \notin Refs(t)
    PROVE  Resolves(t, q, gone)
<1>1. \A i \in DOMAIN t : t[i].ref \in Refs(t)
  BY DEF Refs
<1>2. QED
  BY <1>1 DEF Resolves

\* A document stays sound when the pool grows by ids it does not refer to.
LEMMA DocGrown ==
    ASSUME NEW d, NEW p, NEW q, NEW gone, DocGood(d, p, gone),
           \A x \in DOMAIN q : x \in DOMAIN p \/ x \notin Refs(d.slots)
    PROVE  DocGood(d, q, gone)
<1>1. \A i \in DOMAIN d.slots : d.slots[i].ref \in Refs(d.slots)
  BY DEF Refs
<1>2. QED
  BY <1>1 DEF DocGood, DocResolves

\* An edit of the pool, or a new snapshot, leaves the timeline and the requests as they are.
LEMMA PoolOK ==
    ASSUME DocInv, UNCHANGED <<slots, session, overlapped>>, PoolEdit,
           pool' \in Pools, snapshot' \in {None} \cup Docs,
           ~overlapped =>
               /\ Resolves(slots, pool', removed')
               /\ \A s \in Sessions : session[s].op = "turn" => Resolves(session[s].write, pool', removed')
               /\ snapshot' # None => DocGood(snapshot', pool', removed')
               /\ \A s \in Sessions : session[s].op = "restore" => DocGood(session[s].doc, pool', removed')
    PROVE  DocInv'
<1>1. Types'
  <2>1. edits' \in 0..MaxEdits
    BY EditsStep DEF DocInv, Types, PoolEdit
  <2>2. QED
    BY <2>1 DEF DocInv, Types
<1>2. ASSUME ~overlapped' PROVE Serial'
  <2>1. Serial /\ ~overlapped
    BY <1>2 DEF DocInv
  <2>2. Good(slots, pool', removed')
    BY <2>1 DEF Serial, Good
  <2>3. \A s \in Sessions : session[s].op = "turn" => Good(session[s].write, pool', removed')
    BY <2>1 DEF Serial, Good
  <2>4. QED
    BY <2>1, <2>2, <2>3 DEF Serial
<1>3. QED
  BY <1>1, <1>2 DEF DocInv

\* An import adds a song under an id that nothing refers to.
LEMMA ImportCandidateOK ==
    ASSUME DocInv, NEW song \in Songs, ImportCandidate(song)
    PROVE  DocInv'
<1> DEFINE fresh == RowIds \ PoolIdsInUse
           new == Lowest(fresh, 1)
           q == Updated(pool, [i \in new |-> song])
<1>1. /\ \A i \in DOMAIN pool : pool[i] # song
      /\ PoolEdit /\ pool' = q
      /\ UNCHANGED <<slots, snapshot, session, removed, overlapped>>
  BY DEF ImportCandidate, history
<1>2. /\ Types /\ DOMAIN pool \in SUBSET RowIds /\ pool \in [DOMAIN pool -> Songs]
      /\ \A i, j \in DOMAIN pool : pool[i] = pool[j] => i = j
  BY PoolFacts DEF DocInv, Types
<1>3. fresh \in SUBSET Nat /\ IsFiniteSet(fresh)
  <2>1. fresh \in SUBSET RowIds
    OBVIOUS
  <2>2. QED
    BY <2>1, IdsFinite
<1>4. new \in SUBSET fresh /\ \A x, y \in new : x = y
  BY <1>3, LowestFacts, LowestOne
<1> HIDE DEF new
<1>5. \A x \in new : x \in RowIds /\ x \notin DOMAIN pool
  BY <1>4, PoolFresh
<1>6. /\ DOMAIN q = DOMAIN pool \cup new /\ q = [x \in DOMAIN q |-> q[x]]
      /\ \A x \in DOMAIN pool : q[x] = pool[x]
      /\ \A x \in new : q[x] = song
  BY <1>5 DEF Updated
<1> HIDE DEF q
<1>7. q \in Pools
  <2>1. \A x \in DOMAIN q : q[x] \in Songs
    BY <1>2, <1>6
  <2>2. DOMAIN q \in SUBSET RowIds /\ q \in [DOMAIN q -> Songs]
    BY <1>2, <1>5, <1>6, <2>1
  <2>3. \A x, y \in DOMAIN q : q[x] = q[y] => x = y
    BY <1>1, <1>2, <1>4, <1>6
  <2>4. QED
    BY <2>2, <2>3, PoolFacts
<1>8. ASSUME ~overlapped
      PROVE  /\ Resolves(slots, q, removed)
             /\ \A s \in Sessions : session[s].op = "turn" => Resolves(session[s].write, q, removed)
             /\ snapshot # None => DocGood(snapshot, q, removed)
             /\ \A s \in Sessions : session[s].op = "restore" => DocGood(session[s].doc, q, removed)
  <2>1. Serial
    BY <1>8 DEF DocInv
  <2>2. \A x \in DOMAIN pool : x \in DOMAIN q /\ q[x] = pool[x]
    BY <1>6
  <2>3. Resolves(slots, q, removed)
    <3>1. \A x \in DOMAIN q : x \in DOMAIN pool \/ x \notin Refs(slots)
      BY <1>4, <1>6, PoolFresh
    <3>2. QED
      BY <2>1, <2>2, <3>1, Grown DEF Serial, Good
  <2>4. ASSUME NEW s \in Sessions, session[s].op = "turn"
        PROVE  Resolves(session[s].write, q, removed)
    <3>1. \A x \in DOMAIN q : x \in DOMAIN pool \/ x \notin Refs(session[s].write)
      BY <1>4, <1>6, PoolFresh
    <3>2. Resolves(session[s].write, pool, removed)
      BY <2>1, <2>4 DEF Serial, Good
    <3>3. QED
      BY <2>2, <3>1, <3>2, Grown
  <2>5. ASSUME snapshot # None PROVE DocGood(snapshot, q, removed)
    <3>1. \A x \in DOMAIN q : x \in DOMAIN pool \/ x \notin Refs(snapshot.slots)
      BY <1>4, <1>6, <2>5, PoolFresh
    <3>2. QED
      BY <2>1, <2>5, <3>1, DocGrown DEF Serial
  <2>6. ASSUME NEW s \in Sessions, session[s].op = "restore"
        PROVE  DocGood(session[s].doc, q, removed)
    <3>1. session[s].doc # None
      BY <1>2, <2>6 DEF Types
    <3>2. \A x \in DOMAIN q : x \in DOMAIN pool \/ x \notin Refs(session[s].doc.slots)
      BY <1>4, <1>6, <3>1, PoolFresh
    <3>3. DocGood(session[s].doc, pool, removed)
      BY <2>1, <2>6 DEF Serial
    <3>4. QED
      BY <3>2, <3>3, DocGrown
  <2>7. QED
    BY <2>3, <2>4, <2>5, <2>6
<1>9. snapshot' \in {None} \cup Docs
  BY <1>1, <1>2 DEF Types
<1>10. QED
  BY <1>1, <1>7, <1>8, <1>9, PoolOK

\* A removal takes rows out of the pool; what referred to them has a removed song.
LEMMA RemoveTracksOK ==
    ASSUME DocInv, NEW ids \in SUBSET DOMAIN pool, RemoveTracks(ids)
    PROVE  DocInv'
<1> DEFINE q == [i \in DOMAIN pool \ ids |-> pool[i]]
           gone == removed \cup ({pool[i] : i \in ids} \ Named)
<1>1. /\ PoolEdit /\ pool' = q /\ removed' = gone
      /\ UNCHANGED <<slots, snapshot, session, overlapped>>
  BY DEF RemoveTracks
<1>2. /\ Types /\ DOMAIN pool \in SUBSET RowIds /\ pool \in [DOMAIN pool -> Songs]
      /\ \A i, j \in DOMAIN pool : pool[i] = pool[j] => i = j
  BY PoolFacts DEF DocInv, Types
<1>3. q \in Pools
  BY <1>2, PoolFacts
<1>4. ASSUME NEW t, Resolves(t, pool, removed) PROVE Resolves(t, q, gone)
  BY <1>4 DEF Resolves
<1>5. ASSUME NEW d, DocGood(d, pool, removed) PROVE DocGood(d, q, gone)
  BY <1>5 DEF DocGood, DocResolves
<1>6. ASSUME ~overlapped
      PROVE  /\ Resolves(slots, q, gone)
             /\ \A s \in Sessions : session[s].op = "turn" => Resolves(session[s].write, q, gone)
             /\ snapshot # None => DocGood(snapshot, q, gone)
             /\ \A s \in Sessions : session[s].op = "restore" => DocGood(session[s].doc, q, gone)
  <2> HIDE DEF q, gone
  <2>1. QED
    BY <1>4, <1>5, <1>6 DEF DocInv, Serial, Good
<1>7. snapshot' \in {None} \cup Docs
  BY <1>1, <1>2 DEF Types
<1> HIDE DEF q, gone
<1>8. QED
  BY <1>1, <1>3, <1>6, <1>7, PoolOK

\* A new snapshot is as sound as the timeline.
LEMMA BuildSnapshotOK ==
    ASSUME DocInv, BuildSnapshot
    PROVE  DocInv'
<1>1. /\ PoolEdit /\ pool' = pool /\ snapshot' = [pool |-> pool, slots |-> slots]
      /\ UNCHANGED <<slots, session, removed, overlapped>>
  BY DEF BuildSnapshot, history
<1>2. Types
  BY DEF DocInv
<1>3. snapshot' \in Docs /\ snapshot'.pool = pool /\ snapshot'.slots = slots
  BY <1>1, <1>2 DEF Types, Docs
<1>4. ASSUME ~overlapped
      PROVE  DocGood(snapshot', pool, removed)
  <2>1. Good(slots, pool, removed)
    BY <1>4 DEF DocInv, Serial
  <2>2. QED
    BY <1>3, <2>1 DEF Good, DocGood, Resolves, DocResolves
<1>5. pool' \in Pools
  BY <1>1, <1>2 DEF Types
<1>6. ~overlapped =>
        /\ Resolves(slots, pool, removed)
        /\ \A s \in Sessions : session[s].op = "turn" => Resolves(session[s].write, pool, removed)
        /\ \A s \in Sessions : session[s].op = "restore" => DocGood(session[s].doc, pool, removed)
  BY DEF DocInv, Serial, Good
<1>7. QED
  BY <1>1, <1>3, <1>4, <1>5, <1>6, PoolOK

\* The pool a restore leaves: the rows it did not see, and the document's under new ids.
RestoredRows(ids, q, id) ==
    Updated([i \in DOMAIN pool \ ids |-> pool[i]], [i \in Range(id) |-> q[Old(id, i)]])

\* Its rows, the ones it did not see first, hold every song once.
LEMMA RestoredPool ==
    ASSUME pool \in Pools, NEW q \in Pools, NEW ids, NEW id,
           DOMAIN id = DOMAIN q, \A x \in DOMAIN q : id[x] \in RowIds \ DOMAIN pool,
           \A x, y \in DOMAIN q : id[x] = id[y] => x = y,
           Range([i \in DOMAIN pool \ ids |-> pool[i]]) \cap Range(q) = {}
    PROVE  /\ RestoredRows(ids, q, id) \in Pools
           /\ \A x \in DOMAIN RestoredRows(ids, q, id) : x \in DOMAIN pool \/ x \in Range(id)
           /\ \A x \in DOMAIN q : /\ id[x] \in DOMAIN RestoredRows(ids, q, id)
                                 /\ RestoredRows(ids, q, id)[id[x]] = q[x]
<1> DEFINE rows == [i \in DOMAIN pool \ ids |-> pool[i]]
           u == RestoredRows(ids, q, id)
<1>1. /\ DOMAIN pool \in SUBSET RowIds /\ DOMAIN q \in SUBSET RowIds
      /\ \A i \in DOMAIN pool : pool[i] \in Songs
      /\ \A i \in DOMAIN q : q[i] \in Songs
      /\ \A i, j \in DOMAIN pool : pool[i] = pool[j] => i = j
      /\ \A i, j \in DOMAIN q : q[i] = q[j] => i = j
  BY PoolFacts
<1>2. /\ \A x \in DOMAIN q : Old(id, id[x]) = x
      /\ \A i \in Range(id) : Old(id, i) \in DOMAIN q /\ id[Old(id, i)] = i
  BY OldFacts
<1>3. Range(id) \in SUBSET (RowIds \ DOMAIN pool) /\ \A x \in DOMAIN q : id[x] \in Range(id)
  BY DEF Range
<1>4. /\ DOMAIN u = DOMAIN rows \cup Range(id) /\ u = [i \in DOMAIN u |-> u[i]]
      /\ \A i \in Range(id) : u[i] = q[Old(id, i)]
      /\ \A i \in DOMAIN rows : u[i] = pool[i]
      /\ DOMAIN rows \in SUBSET DOMAIN pool
  BY <1>3 DEF Updated, RestoredRows
<1>5. \A i \in DOMAIN rows, j \in DOMAIN q : pool[i] # q[j]
  BY DEF Range
<1> HIDE DEF rows, u
<1>6. ASSUME NEW x \in Range(id)
      PROVE  \E o \in DOMAIN q : id[o] = x /\ u[x] = q[o]
  <2>1. Old(id, x) \in DOMAIN q /\ id[Old(id, x)] = x
    BY <1>2
  <2>2. u[x] = q[Old(id, x)]
    BY <1>4
  <2>3. QED
    BY <2>1, <2>2
<1>7. \A x, y \in DOMAIN u : u[x] = u[y] => x = y
  <2>1. ASSUME NEW x \in DOMAIN u, NEW y \in DOMAIN u, u[x] = u[y] PROVE x = y
    <3>1. CASE x \in Range(id) /\ y \in Range(id)
      <4>1. PICK o \in DOMAIN q : id[o] = x /\ u[x] = q[o]
        BY <1>6, <3>1
      <4>2. PICK w \in DOMAIN q : id[w] = y /\ u[y] = q[w]
        BY <1>6, <3>1
      <4>3. o = w
        BY <1>1, <2>1, <4>1, <4>2
      <4>4. QED
        BY <4>1, <4>2, <4>3
    <3>2. CASE x \in DOMAIN rows /\ y \in DOMAIN rows
      BY <1>1, <1>4, <2>1, <3>2
    <3>3. CASE x \in DOMAIN rows /\ y \in Range(id)
      <4>1. PICK o \in DOMAIN q : id[o] = y /\ u[y] = q[o]
        BY <1>6, <3>3
      <4>2. u[x] = pool[x] /\ pool[x] # q[o]
        BY <1>4, <1>5, <3>3
      <4>3. QED
        BY <2>1, <4>1, <4>2
    <3>4. CASE x \in Range(id) /\ y \in DOMAIN rows
      <4>1. PICK o \in DOMAIN q : id[o] = x /\ u[x] = q[o]
        BY <1>6, <3>4
      <4>2. u[y] = pool[y] /\ pool[y] # q[o]
        BY <1>4, <1>5, <3>4
      <4>3. QED
        BY <2>1, <4>1, <4>2
    <3>5. QED
      BY <1>4, <3>1, <3>2, <3>3, <3>4
  <2>2. QED
    BY <2>1
<1>8. u \in Pools
  <2>1. ASSUME NEW x \in DOMAIN u PROVE u[x] \in Songs /\ x \in RowIds
    <3>1. CASE x \in Range(id)
      BY <1>1, <1>3, <1>6, <3>1
    <3>2. CASE x \in DOMAIN rows
      BY <1>1, <1>4, <3>2
    <3>3. QED
      BY <1>4, <3>1, <3>2
  <2>2. DOMAIN u \in SUBSET RowIds /\ u \in [DOMAIN u -> Songs]
    BY <1>4, <2>1
  <2>3. QED
    BY <1>7, <2>2, PoolFacts
<1>9. ASSUME NEW x \in DOMAIN q PROVE id[x] \in DOMAIN u /\ u[id[x]] = q[x]
  <2>1. id[x] \in Range(id) /\ Old(id, id[x]) = x
    BY <1>2, <1>3
  <2>2. u[id[x]] = q[Old(id, id[x])]
    BY <1>4, <2>1
  <2>3. QED
    BY <1>4, <2>1, <2>2
<1>10. \A x \in DOMAIN u : x \in DOMAIN pool \/ x \in Range(id)
  BY <1>3, <1>4
<1>11. QED
  BY <1>8, <1>9, <1>10 DEF u

\* A slot with another reference.
LEMMA Referred ==
    ASSUME NEW x \in Timeline, NEW r \in Songs \cup RowIds
    PROVE  LET y == [x EXCEPT !.ref = r] IN
           y \in Timeline /\ y.pos = x.pos /\ y.song = x.song /\ y.ref = r
BY DEF Timeline

\* The timeline a restore leaves: the slots it did not see, and the document's, which refer
\* to the new ids.
RestoredTable(left, t, to, id) ==
    Updated(left, [i \in Range(to) |->
        [t[Old(to, i)] EXCEPT !.ref = RemapSyntheticPoolTrackId(@, id)]])

\* Its slots are the document's at the same positions, when it saw every slot.
LEMMA RestoredSlots ==
    ASSUME NEW left \in Tables, NEW t \in Tables, NEW to,
           DOMAIN to = DOMAIN t, \A x \in DOMAIN t : to[x] \in RowIds,
           \A x, y \in DOMAIN t : to[x] = to[y] => x = y,
           NEW id, \A x \in DOMAIN id : id[x] \in RowIds
    PROVE  LET u == RestoredTable(left, t, to, id) IN
           /\ u \in Tables
           /\ DOMAIN left = {} => \A i \in DOMAIN u :
                 LET o == Old(to, i) IN
                 /\ o \in DOMAIN t /\ to[o] = i
                 /\ u[i].pos = t[o].pos /\ u[i].song = t[o].song
                 /\ u[i].ref = RemapSyntheticPoolTrackId(t[o].ref, id)
<1> DEFINE r(o) == RemapSyntheticPoolTrackId(t[o].ref, id)
           u == RestoredTable(left, t, to, id)
<1>1. /\ \A o \in DOMAIN t : Old(to, to[o]) = o
      /\ \A i \in Range(to) : Old(to, i) \in DOMAIN t /\ to[Old(to, i)] = i
  BY OldFacts
<1>2. Range(to) \in SUBSET RowIds
  BY DEF Range
<1>3. /\ DOMAIN u = DOMAIN left \cup Range(to) /\ u = [i \in DOMAIN u |-> u[i]]
      /\ \A i \in Range(to) : u[i] = [t[Old(to, i)] EXCEPT !.ref = r(Old(to, i))]
      /\ \A i \in DOMAIN left \ Range(to) : u[i] = left[i]
  BY DEF Updated, RestoredTable
<1>4. ASSUME NEW o \in DOMAIN t
      PROVE  t[o] \in Timeline /\ r(o) \in Songs \cup RowIds
  BY TableFacts DEF RemapSyntheticPoolTrackId
<1> HIDE DEF r, u
<1>5. ASSUME NEW i \in Range(to)
      PROVE  /\ u[i] \in Timeline /\ u[i].pos = t[Old(to, i)].pos /\ u[i].song = t[Old(to, i)].song
             /\ u[i].ref = r(Old(to, i))
  <2>1. PICK o \in DOMAIN t : o = Old(to, i)
    BY <1>1
  <2> DEFINE y == [t[o] EXCEPT !.ref = r(o)]
  <2>2. y \in Timeline /\ y.pos = t[o].pos /\ y.song = t[o].song /\ y.ref = r(o)
    BY <1>4, Referred
  <2>3. u[i] = y
    BY <1>3, <2>1
  <2> HIDE DEF y
  <2>4. QED
    BY <2>1, <2>2, <2>3
<1>6. u \in Tables
  <2>1. \A i \in DOMAIN left : left[i] \in Timeline /\ i \in RowIds
    BY TableFacts
  <2>2. \A i \in DOMAIN u : u[i] \in Timeline
    BY <1>3, <1>5, <2>1
  <2>3. DOMAIN u \in SUBSET RowIds
    BY <1>2, <1>3, <2>1
  <2>4. QED
    BY <1>3, <2>2, <2>3, TableOf
<1>7. QED
  BY <1>1, <1>3, <1>5, <1>6 DEF r, u

\* Ids handed out for the rows of a document: as many as it has, in order.
LEMMA NewIds ==
    ASSUME NEW fresh \in SUBSET RowIds, NEW S \in SUBSET RowIds, Cardinality(fresh) >= Cardinality(S)
    PROVE  LET F == Lowest(fresh, Cardinality(S)) IN
           /\ F \in SUBSET fresh /\ F \in SUBSET RowIds
           /\ InOrder(S, F) \in [S -> F]
           /\ \A x, y \in S : InOrder(S, F)[x] = InOrder(S, F)[y] => x = y
<1> DEFINE F == Lowest(fresh, Cardinality(S))
<1>1. /\ fresh \in SUBSET Nat /\ IsFiniteSet(fresh) /\ Cardinality(fresh) \in Nat
      /\ S \in SUBSET Nat /\ IsFiniteSet(S) /\ Cardinality(S) \in Nat
  BY IdsFinite
<1>2. F \in SUBSET fresh /\ IsFiniteSet(F) /\ Cardinality(F) = Cardinality(S)
  BY <1>1, LowestFacts
<1>3. F \in SUBSET Nat
  BY <1>1, <1>2
<1>4. QED
  BY <1>1, <1>2, <1>3, InOrderFacts

\* A restored timeline resolves in the restored pool.
LEMMA RestoredGood ==
    ASSUME NEW d \in Docs, NEW p, NEW gone, DocGood(d, p, gone),
           NEW id, DOMAIN id = DOMAIN d.pool,
           NEW to, NEW u, NEW q,
           \A x \in DOMAIN q : x \in DOMAIN p \/ x \notin Refs(d.slots),
           \A x \in DOMAIN d.pool : id[x] \in DOMAIN q /\ q[id[x]] = d.pool[x],
           \A i \in DOMAIN u :
              LET o == Old(to, i) IN
              /\ o \in DOMAIN d.slots /\ to[o] = i
              /\ u[i].pos = d.slots[o].pos /\ u[i].song = d.slots[o].song
              /\ u[i].ref = RemapSyntheticPoolTrackId(d.slots[o].ref, id)
    PROVE  Good(u, q, gone)
<1>1. DOMAIN d.pool \in SUBSET RowIds
  BY PoolFacts DEF Docs
<1>2. \A x \in Named : x \notin DOMAIN d.pool
  BY <1>1, SetDocumentAssumption DEF RowIds
<1>3. \A o \in DOMAIN d.slots : d.slots[o].ref \in Refs(d.slots)
  BY DEF Refs
<1>4. ASSUME NEW i \in DOMAIN u
      PROVE  \E o \in DOMAIN d.slots :
                /\ to[o] = i /\ u[i].pos = d.slots[o].pos /\ u[i].song = d.slots[o].song
                /\ u[i].ref = RemapSyntheticPoolTrackId(d.slots[o].ref, id)
  OBVIOUS
<1>5. Distinct(u)
  <2>1. ASSUME NEW i \in DOMAIN u, NEW j \in DOMAIN u, u[i].pos = u[j].pos PROVE i = j
    <3>1. PICK o \in DOMAIN d.slots : to[o] = i /\ u[i].pos = d.slots[o].pos
      BY <1>4
    <3>2. PICK w \in DOMAIN d.slots : to[w] = j /\ u[j].pos = d.slots[w].pos
      BY <1>4
    <3>3. o = w
      BY <2>1, <3>1, <3>2 DEF DocGood, Distinct
    <3>4. QED
      BY <3>1, <3>2, <3>3
  <2>2. QED
    BY <2>1 DEF Distinct
<1>6. Resolves(u, q, gone)
  <2>1. ASSUME NEW i \in DOMAIN u
        PROVE  \/ u[i].ref \in Named
               \/ /\ u[i].song \notin Named
                  /\ \/ u[i].ref \in DOMAIN q /\ q[u[i].ref] = u[i].song
                     \/ u[i].ref \notin DOMAIN q /\ u[i].song \in gone
    <3>1. PICK o \in DOMAIN d.slots :
             /\ u[i].song = d.slots[o].song
             /\ u[i].ref = RemapSyntheticPoolTrackId(d.slots[o].ref, id)
      BY <1>4
    <3>2. CASE d.slots[o].ref \in Named
      <4>1. u[i].ref = d.slots[o].ref
        BY <1>2, <3>1, <3>2 DEF RemapSyntheticPoolTrackId
      <4>2. QED
        BY <3>2, <4>1
    <3>3. CASE /\ d.slots[o].song \notin Named
               /\ d.slots[o].ref \in DOMAIN d.pool /\ d.pool[d.slots[o].ref] = d.slots[o].song
      <4>1. u[i].ref = id[d.slots[o].ref]
        BY <3>1, <3>3 DEF RemapSyntheticPoolTrackId
      <4>2. u[i].ref \in DOMAIN q /\ q[u[i].ref] = d.pool[d.slots[o].ref]
        BY <3>3, <4>1
      <4>3. QED
        BY <3>1, <3>3, <4>2
    <3>4. CASE /\ d.slots[o].song \notin Named
               /\ d.slots[o].ref \notin DOMAIN d.pool /\ d.slots[o].ref \notin DOMAIN p
               /\ d.slots[o].song \in gone
      <4>1. u[i].ref = d.slots[o].ref
        BY <3>1, <3>4 DEF RemapSyntheticPoolTrackId
      <4>2. u[i].ref \notin DOMAIN q
        BY <1>3, <3>4, <4>1
      <4>3. QED
        BY <3>1, <3>4, <4>2
    <3>5. QED
      BY <3>2, <3>3, <3>4 DEF DocGood, DocResolves
  <2>2. QED
    BY <2>1 DEF Resolves
<1>7. QED
  BY <1>5, <1>6 DEF Good

\* The commit of a restore.
LEMMA CommitRestoreOK ==
    ASSUME DocInv, NEW s \in Sessions, CommitRestore(s)
    PROVE  DocInv'
<1> DEFINE v == session[s]
           rows == [i \in DOMAIN pool \ v.ids |-> pool[i]]
           left == [i \in DOMAIN slots \ DOMAIN v.read |-> slots[i]]
           freshRows == RowIds \ PoolIdsInUse
           freshSlots == RowIds \ SlotIdsInUse
           P == DOMAIN v.doc.pool
           S == DOMAIN v.doc.slots
           F == Lowest(freshRows, Cardinality(P))
           T == Lowest(freshSlots, Cardinality(S))
           id == InOrder(P, F)
           to == InOrder(S, T)
           q == RestoredRows(v.ids, v.doc.pool, id)
           u == RestoredTable(left, v.doc.slots, to, id)
<1>1. /\ v.op = "restore" /\ session' = [session EXCEPT ![s] = Idle]
      /\ UNCHANGED <<snapshot, edits, removed, overlapped>>
      /\ \/ UNCHANGED <<pool, slots>>
         \/ /\ Range(rows) \cap Range(v.doc.pool) = {}
            /\ Cardinality(freshRows) >= Cardinality(P)
            /\ Cardinality(freshSlots) >= Cardinality(S)
            /\ pool' = q /\ slots' = u
  BY DEF CommitRestore, history, RestoredRows, RestoredTable
<1>2. /\ Types /\ pool \in Pools /\ slots \in Tables /\ v.doc # None
      /\ v.doc \in Docs /\ v.doc.pool \in Pools /\ v.doc.slots \in Tables
  <2>1. Types
    BY DEF DocInv
  <2>2. v.doc # None /\ v.doc \in {None} \cup Docs
    BY <1>1, <2>1, SessionFacts DEF Types
  <2>3. QED
    BY <2>1, <2>2 DEF Types, Docs
<1>3. CASE UNCHANGED <<pool, slots>>
  <2>1. pool' \in Pools /\ slots' \in Tables
    BY <1>2, <1>3
  <2>2. ~overlapped => /\ Good(slots', pool', removed)
                       /\ snapshot # None => DocGood(snapshot, pool', removed)
    BY <1>3 DEF DocInv, Serial
  <2>3. QED
    BY <1>1, <2>1, <2>2, EndOK
<1>4. CASE /\ Range(rows) \cap Range(v.doc.pool) = {}
           /\ Cardinality(freshRows) >= Cardinality(P)
           /\ Cardinality(freshSlots) >= Cardinality(S)
           /\ pool' = q /\ slots' = u
  <2>1. P \in SUBSET RowIds /\ S \in SUBSET RowIds
    BY <1>2, PoolFacts, TableFacts
  <2>2. freshRows \in SUBSET RowIds /\ freshSlots \in SUBSET RowIds
    OBVIOUS
  <2>3. /\ F \in SUBSET freshRows /\ F \in SUBSET RowIds /\ id \in [P -> F]
        /\ \A x, y \in P : id[x] = id[y] => x = y
    <3>1. Cardinality(freshRows) >= Cardinality(P)
      BY <1>4
    <3> HIDE DEF P, freshRows
    <3>2. QED
      BY <2>1, <2>2, <3>1, NewIds
  <2>4. /\ T \in SUBSET freshSlots /\ T \in SUBSET RowIds /\ to \in [S -> T]
        /\ \A x, y \in S : to[x] = to[y] => x = y
    <3>1. Cardinality(freshSlots) >= Cardinality(S)
      BY <1>4
    <3> HIDE DEF S, freshSlots
    <3>2. QED
      BY <2>1, <2>2, <3>1, NewIds
  <2> HIDE DEF F, T, id, to
  <2>5. /\ DOMAIN id = P /\ \A x \in P : id[x] \in RowIds \ DOMAIN pool
        /\ Range(id) \in SUBSET freshRows
        /\ DOMAIN to = S /\ \A x \in S : to[x] \in RowIds
    <3>1. \A x \in P : id[x] \in F /\ id[x] \in RowIds /\ id[x] \notin DOMAIN pool
      BY <2>3, PoolFresh
    <3>2. QED
      BY <2>3, <2>4, <3>1 DEF Range
  <2>6. /\ q \in Pools
        /\ \A x \in DOMAIN q : x \in DOMAIN pool \/ x \in Range(id)
        /\ \A x \in P : id[x] \in DOMAIN q /\ q[id[x]] = v.doc.pool[x]
    <3>1. PICK g \in Pools : g = v.doc.pool
      BY <1>2
    <3>2. PICK ids : ids = v.ids
      OBVIOUS
    <3>3. /\ pool \in Pools
          /\ DOMAIN id = DOMAIN g /\ \A x \in DOMAIN g : id[x] \in RowIds \ DOMAIN pool
          /\ \A x, y \in DOMAIN g : id[x] = id[y] => x = y
      BY <1>2, <2>3, <2>5, <3>1
    <3>4. Range([i \in DOMAIN pool \ ids |-> pool[i]]) \cap Range(g) = {}
      BY <1>4, <3>1, <3>2
    <3>5. /\ RestoredRows(ids, g, id) \in Pools
          /\ \A x \in DOMAIN RestoredRows(ids, g, id) : x \in DOMAIN pool \/ x \in Range(id)
          /\ \A x \in DOMAIN g : /\ id[x] \in DOMAIN RestoredRows(ids, g, id)
                                /\ RestoredRows(ids, g, id)[id[x]] = g[x]
      BY <3>3, <3>4, RestoredPool
    <3>6. QED
      BY <3>1, <3>2, <3>5
  <2>7. left \in Tables
    BY <1>2, TableFacts, TableOf
  <2>8. \A x \in DOMAIN id : id[x] \in RowIds
    BY <2>3
  <2>9. /\ u \in Tables
        /\ DOMAIN left = {} => \A i \in DOMAIN u :
              LET o == Old(to, i) IN
              /\ o \in S /\ to[o] = i
              /\ u[i].pos = v.doc.slots[o].pos /\ u[i].song = v.doc.slots[o].song
              /\ u[i].ref = RemapSyntheticPoolTrackId(v.doc.slots[o].ref, id)
    <3>1. PICK t \in Tables : t = v.doc.slots
      BY <1>2
    <3>2. /\ DOMAIN to = DOMAIN t /\ \A x \in DOMAIN t : to[x] \in RowIds
          /\ \A x, y \in DOMAIN t : to[x] = to[y] => x = y
      BY <2>4, <2>5, <3>1
    <3> DEFINE w == RestoredTable(left, t, to, id)
    <3>3. u = w
      BY <3>1
    <3> HIDE DEF left, u
    <3>4. /\ w \in Tables
          /\ DOMAIN left = {} => \A i \in DOMAIN w :
                LET o == Old(to, i) IN
                /\ o \in DOMAIN t /\ to[o] = i
                /\ w[i].pos = t[o].pos /\ w[i].song = t[o].song
                /\ w[i].ref = RemapSyntheticPoolTrackId(t[o].ref, id)
      BY <2>7, <2>8, <3>2, RestoredSlots
    <3> HIDE DEF w
    <3>5. QED
      BY <3>1, <3>3, <3>4
  <2> HIDE DEF q, u
  <2>10. ASSUME ~overlapped
         PROVE  Good(u, q, removed) /\ (snapshot # None => DocGood(snapshot, q, removed))
    <3>1. /\ v.read = slots /\ DocGood(v.doc, pool, removed)
          /\ snapshot # None => DocGood(snapshot, pool, removed)
      BY <1>1, <2>10 DEF DocInv, Serial
    <3>2. DOMAIN left = {}
      BY <3>1
    <3>3. \A x \in DOMAIN q : x \in DOMAIN pool \/ x \notin Refs(v.doc.slots)
      BY <1>2, <2>5, <2>6, PoolFresh
    <3>4. DOMAIN id = DOMAIN v.doc.pool
      BY <2>3
    <3>5. Good(u, q, removed)
      <4>1. PICK d \in Docs : d = v.doc
        BY <1>2
      <4>2. /\ DocGood(d, pool, removed) /\ DOMAIN id = DOMAIN d.pool
            /\ \A x \in DOMAIN q : x \in DOMAIN pool \/ x \notin Refs(d.slots)
            /\ \A x \in DOMAIN d.pool : id[x] \in DOMAIN q /\ q[id[x]] = d.pool[x]
        BY <2>6, <3>1, <3>3, <3>4, <4>1
      <4>3. \A i \in DOMAIN u :
              LET o == Old(to, i) IN
              /\ o \in DOMAIN d.slots /\ to[o] = i
              /\ u[i].pos = d.slots[o].pos /\ u[i].song = d.slots[o].song
              /\ u[i].ref = RemapSyntheticPoolTrackId(d.slots[o].ref, id)
        BY <2>9, <3>2, <4>1
      <4>4. QED
        BY <4>2, <4>3, RestoredGood
    <3>6. ASSUME snapshot # None PROVE DocGood(snapshot, q, removed)
      <4>1. \A x \in DOMAIN q : x \in DOMAIN pool \/ x \notin Refs(snapshot.slots)
        BY <2>5, <2>6, <3>6, PoolFresh
      <4>2. QED
        BY <3>1, <3>6, <4>1, DocGrown
    <3>7. QED
      BY <3>5, <3>6
  <2>11. QED
    BY <1>1, <1>4, <2>6, <2>9, <2>10, EndOK
<1>5. QED
  BY <1>1, <1>3, <1>4

-------------------------------------------------------------------------------
(* The theorems *)

\* The set as it is imported and built.
LEMMA InitOK ==
    ASSUME Init
    PROVE  DocInv
<1> DEFINE n == Cardinality(Songs)
           Fits(p) == IsInjective(p)
<1>1. IsFiniteSet(Songs) /\ n \in Nat /\ MaxRows \in Nat /\ n < MaxRows /\ MaxEdits \in Nat
  BY SetDocumentAssumption, FS_CardinalityType
<1>2. \E p \in [1..n -> Songs] : Fits(p)
  <2>1. ExistsBijection(1..n, Songs)
    BY <1>1, FS_CardinalityType
  <2>2. QED
    BY <2>1 DEF ExistsBijection, Bijection, Injection
<1>3. pool = CHOOSE p \in [1..n -> Songs] : Fits(p)
  BY DEF Init
<1> HIDE DEF Fits
<1>4. pool \in [1..n -> Songs] /\ Fits(pool)
  BY <1>2, <1>3
<1>5. DOMAIN pool = 1..n /\ 1..n \in SUBSET RowIds /\ 1..(n + 1) \in SUBSET RowIds
  BY <1>1, <1>4 DEF RowIds
<1>6. pool \in Pools
  BY <1>4, <1>5 DEF Pools, Fits
<1>7. PICK again \in DOMAIN pool :
         slots = [i \in 1..(n + 1) |-> NewSlot(i - 1, IF i \in DOMAIN pool THEN i ELSE again)]
  BY DEF Init
<1> HIDE DEF n
<1>8. ASSUME NEW i \in DOMAIN slots
      PROVE  /\ i \in 1..(n + 1) /\ slots[i] \in Timeline /\ slots[i].pos = i - 1
             /\ \/ slots[i].ref \in Named
                \/ /\ slots[i].song \notin Named /\ slots[i].ref \in DOMAIN pool
                   /\ pool[slots[i].ref] = slots[i].song
  <2>1. i \in 1..(n + 1) /\ i - 1 \in Nat
    BY <1>1, <1>7
  <2>2. PICK row \in DOMAIN pool : slots[i] = NewSlot(i - 1, row)
    BY <1>7, <2>1
  <2>3. PICK k \in Nat : k = i - 1
    BY <2>1
  <2>4. slots[i] = NewSlot(k, row)
    BY <2>2, <2>3
  <2>5. /\ NewSlot(k, row) \in Timeline /\ NewSlot(k, row).pos = k
        /\ \/ NewSlot(k, row).ref \in Named
           \/ /\ NewSlot(k, row).song \notin Named /\ NewSlot(k, row).ref \in DOMAIN pool
              /\ pool[NewSlot(k, row).ref] = NewSlot(k, row).song
    BY <1>6, NewSlotFacts
  <2>6. slots[i].pos = i - 1 /\ slots[i] \in Timeline
    BY <2>3, <2>4, <2>5
  <2>7. QED
    BY <2>1, <2>4, <2>5, <2>6
<1>9. slots \in Tables
  <2>1. DOMAIN slots = 1..(n + 1) /\ slots = [i \in DOMAIN slots |-> slots[i]]
    BY <1>7
  <2>2. DOMAIN slots \in SUBSET RowIds /\ \A i \in DOMAIN slots : slots[i] \in Timeline
    BY <1>5, <1>8, <2>1
  <2>3. QED
    BY <2>1, <2>2, TableOf
<1>10. Good(slots, pool, removed)
  <2>1. ASSUME NEW i \in DOMAIN slots, NEW j \in DOMAIN slots, slots[i].pos = slots[j].pos
        PROVE  i = j
    <3>1. i \in Int /\ j \in Int /\ i - 1 = j - 1
      BY <1>1, <1>8, <2>1
    <3>2. QED
      BY <3>1
  <2>2. QED
    BY <1>8, <2>1 DEF Good, Distinct, Resolves
<1>11. /\ snapshot = None /\ edits = 0 /\ overlapped = FALSE
       /\ session = [s \in Sessions |-> Idle]
  BY DEF Init
<1>12. \A s \in Sessions : session[s] = Idle /\ session[s].op = "idle"
  BY <1>11, IdleFacts
<1>13. session \in [Sessions -> SessionType]
  BY <1>11, IdleFacts
<1>14. Types
  <2>1. edits = 0 /\ overlapped = FALSE /\ snapshot = None /\ 0 \in 0..MaxEdits
    BY SetDocumentAssumption DEF Init
  <2>2. \A s \in Sessions : session[s].op = "restore" => session[s].doc # None
    BY <1>12
  <2>3. QED
    BY <1>6, <1>9, <1>13, <2>1, <2>2 DEF Types
<1>15. Serial
  BY <1>10, <1>11, <1>12 DEF Serial
<1>16. QED
  BY <1>14, <1>15 DEF DocInv

\* Every step keeps the invariant, and the locked slots a tool finds.
LEMMA StepOK ==
    ASSUME DocInv, [Next]_vars
    PROVE  /\ DocInv'
           /\ \A s \in Sessions :
                 session[s].op = "turn" /\ session'[s].op = "turn" /\ edits' # edits
                   => LockedSlotStays(s)
<1> DEFINE Stays == \A s \in Sessions :
                       session[s].op = "turn" /\ session'[s].op = "turn" /\ edits' # edits
                         => LockedSlotStays(s)
<1>1. ASSUME edits' = edits PROVE Stays
  BY <1>1
<1>2. ASSUME session' = session PROVE Stays
  <2>1. \A s \in Sessions : View(s)' = View(s)
    BY <1>2 DEF View
  <2>2. QED
    BY <2>1 DEF LockedSlotStays, Locked
<1> HIDE DEF Stays
<1>3. ASSUME NEW s \in Sessions, BeginTurn(s) PROVE DocInv' /\ Stays
  BY <1>1, <1>3, BeginTurnOK DEF BeginTurn
<1>4. ASSUME NEW s \in Sessions, CommitTurn(s) PROVE DocInv' /\ Stays
  BY <1>1, <1>4, CommitTurnOK DEF CommitTurn
<1>5. ASSUME NEW s \in Sessions, CritiqueSet(s) PROVE DocInv' /\ Stays
  BY <1>1, <1>5, CritiqueSetOK DEF CritiqueSet
<1>6. ASSUME NEW s \in Sessions, FailTurn(s) PROVE DocInv' /\ Stays
  BY <1>1, <1>6, FailTurnOK DEF FailTurn
<1>7. ASSUME NEW s \in Sessions, Tool(s) PROVE DocInv' /\ Stays
  <2>1. Types
    BY DEF DocInv
  <2>2. PICK new : ToolOK(session[s].write, new) /\ Edit(s, new)
    BY <1>7, <2>1, ToolSteps
  <2>3. QED
    BY <2>2, EditOK DEF Stays
<1>8. ASSUME NEW s \in Sessions, BeginRestore(s) PROVE DocInv' /\ Stays
  BY <1>1, <1>8, BeginRestoreOK DEF BeginRestore
<1>9. ASSUME NEW s \in Sessions, CommitRestore(s) PROVE DocInv' /\ Stays
  <2>1. edits' = edits
    BY <1>9 DEF CommitRestore
  <2>2. QED
    BY <1>1, <1>9, <2>1, CommitRestoreOK
<1>10. ASSUME NEW song \in Songs, ImportCandidate(song) PROVE DocInv' /\ Stays
  BY <1>2, <1>10, ImportCandidateOK DEF ImportCandidate
<1>11. ASSUME NEW ids \in SUBSET DOMAIN pool, RemoveTracks(ids) PROVE DocInv' /\ Stays
  BY <1>2, <1>11, RemoveTracksOK DEF RemoveTracks
<1>12. ASSUME BuildSnapshot PROVE DocInv' /\ Stays
  BY <1>2, <1>12, BuildSnapshotOK DEF BuildSnapshot
<1>13. ASSUME UNCHANGED vars PROVE DocInv' /\ Stays
  <2>1. DocInv'
    BY <1>13 DEF vars, DocInv, Types, Serial
  <2>2. QED
    BY <1>1, <1>13, <2>1 DEF vars
<1>14. DocInv' /\ Stays
  BY <1>3, <1>4, <1>5, <1>6, <1>7, <1>8, <1>9, <1>10, <1>11, <1>12, <1>13 DEF Next
<1>15. QED
  BY <1>14 DEF Stays

\* The inductive invariant: besides the types, what requests that do not overlap leave.
\* The request in progress has read the timeline as it is, its own view and the snapshot
\* are as sound as the timeline, and no id that something refers to is handed out again.
THEOREM DocumentInvariant == Spec => []DocInv
<1>1. Init => DocInv
  BY InitOK
<1>2. DocInv /\ [Next]_vars => DocInv'
  BY StepOK
<1>3. QED
  BY <1>1, <1>2, PTL DEF Spec

\* SetDocumentTypeOK: the rows are of their types and no song is in the pool twice.
THEOREM SetDocumentTypes == Spec => []SetDocumentTypeOK
<1>1. DocInv => SetDocumentTypeOK
  BY PoolFacts, TableFacts DEF DocInv, Types, SetDocumentTypeOK, Pools
<1>2. QED
  BY <1>1, DocumentInvariant, PTL

\* SerialPositionsUnique: requests that do not overlap leave no two slots at one position.
THEOREM PositionsUnique == Spec => []SerialPositionsUnique
<1>1. DocInv => SerialPositionsUnique
  BY DEF DocInv, Serial, Good, Distinct, SerialPositionsUnique
<1>2. QED
  BY <1>1, DocumentInvariant, PTL

\* SerialSlotsResolve: a slot refers to its own song's row until that is removed, and a
\* restore, which gives every row a new id, keeps it so.
THEOREM SlotsResolve == Spec => []SerialSlotsResolve
<1>1. DocInv => SerialSlotsResolve
  BY DEF DocInv, Serial, Good, Resolves, SerialSlotsResolve
<1>2. QED
  BY <1>1, DocumentInvariant, PTL

\* LockedSlotsStay: no tool moves, replaces or removes a locked slot, but for
\* reorder_slot on a timeline with a gap, or with two slots at one position.
THEOREM LockedStay == Spec => LockedSlotsStay
<1>1. DocInv /\ [Next]_vars =>
        [\A s \in Sessions :
            session[s].op = "turn" /\ session'[s].op = "turn" /\ edits' # edits
              => LockedSlotStays(s)]_vars
  BY StepOK
<1>2. QED
  BY <1>1, DocumentInvariant, PTL DEF Spec, LockedSlotsStay
=============================================================================

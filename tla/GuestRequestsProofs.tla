------------------------- MODULE GuestRequestsProofs -------------------------
(* Votes, counts, owners and picks stay right for any number of guests,       *)
(* sessions and requests.                                                     *)
EXTENDS GuestRequests, FiniteSetTheorems, TLAPS

SessionType ==
    [op : {"idle", "vote", "unvote", "insert", "count", "name", "review"},
     guest : Guests \cup {None}, id : Nat, song : Songs \cup {None}, counted : BOOLEAN,
     read : Int, ids : SUBSET Nat, to : {"new", "accepted", "rejected"}]

(* Types, with those of the variables that GuestRequestsTypeOK leaves out. *)
TypeInv ==
    /\ GuestRequestsTypeOK
    /\ requests \in [DOMAIN requests -> Rows]
    /\ mergedInto \in [Guests -> Guests \cup {None}]
    /\ session \in [Sessions -> SessionType]
    /\ IsFiniteSet(votes)

(* Until its first commit a session holds its guest's row, so the guest stays *)
(* live and what the session read of it stays so.                             *)
LockInv ==
    \A s \in Sessions : session[s].op \in {"vote", "unvote", "count"} =>
        /\ session[s].guest \in Guests
        /\ lock[session[s].guest] = s
        /\ Live(session[s].guest)

ReadInv ==
    \A s \in Sessions :
        /\ session[s].op \in {"vote", "unvote"} => session[s].id \in 1..created
        /\ session[s].op = "unvote" /\ session[s].read # 0 =>
              \/ session[s].id \notin DOMAIN requests
              \/ HasVoted(session[s].id, session[s].guest)
        /\ session[s].op = "count" =>
              session[s].read = profiles[session[s].guest] /\ WithinCap(session[s].guest)
        /\ session[s].op \in {"count", "name", "insert"} =>
              session[s].guest \in Guests /\ session[s].song \in Songs

(* A guest's picks through POST /collect, and those that are counted and not   *)
(* yet written.                                                               *)
Picks(g) == {i \in DOMAIN requests : requests[i].counted /\ requests[i].guest = g}
Unwritten(g) ==
    {s \in Sessions : session[s].op \in {"name", "insert"} /\ session[s].counted /\ session[s].guest = g}
Submitted(g) == IF profiles[g] = NoProfile THEN 0 ELSE profiles[g]

PickInv ==
    \A g \in Guests : Live(g) => Cardinality(Picks(g)) + Cardinality(Unwritten(g)) <= Submitted(g)

(* A guest that is gone has given its picks to one that is live. *)
Heirs == {heir \in [Guests -> Guests] : \A g \in Guests : Live(g) => heir[g] = g}
Bequests(heir, g) == {x \in Guests : heir[x] = g}
CapInv ==
    Cap # 0 => \E heir \in Heirs : \A g \in Guests :
        Live(g) => Submitted(g) <= Cap * Cardinality(Bequests(heir, g))

VoteInv ==
    /\ TypeInv /\ LockInv /\ ReadInv
    /\ CountMatchesVotes /\ VotesReachLiveGuests /\ PickInv /\ CapInv

-------------------------------------------------------------------------------
(* A request that only reads and locks *)

(* What a session may have read when it has locked guest h. *)
Readable(next, h) ==
    /\ next \in SessionType /\ next.guest = h
    /\ next.op \in {"vote", "unvote", "insert", "count"}
    /\ next.op \in {"vote", "unvote"} => next.id \in DOMAIN requests
    /\ next.op = "unvote" /\ next.read # 0 => HasVoted(next.id, h)
    /\ next.op = "count" => next.read = profiles[h] /\ WithinCap(h)
    /\ next.op \in {"insert", "count"} => next.song \in Songs
    /\ next.op = "insert" => ~next.counted

(* The row it locks was free, so no other session is disturbed. *)
LEMMA ReadsKeep ==
    ASSUME VoteInv, NEW s \in Sessions, NEW h \in Guests, NEW next,
           Live(h), Free(h), lock' = [lock EXCEPT ![h] = s],
           session[s] = Idle, begun < MaxOps, begun' = begun + 1,
           session' = [session EXCEPT ![s] = next],
           UNCHANGED data, Readable(next, h)
    PROVE  VoteInv'
<1> USE DEF data
<1>1. TypeInv'
  BY GuestRequestsAssumption DEF VoteInv, TypeInv, GuestRequestsTypeOK, Readable, Rows, Survivor, Live, Deleted
<1>2. LockInv'
  BY GuestRequestsAssumption DEF VoteInv, TypeInv, LockInv, GuestRequestsTypeOK, Readable, Free, Live
<1>3. ReadInv'
  BY DEF VoteInv, TypeInv, ReadInv, GuestRequestsTypeOK, Readable, HasVoted, WithinCap
<1>4. CountMatchesVotes' /\ VotesReachLiveGuests' /\ CapInv'
  BY DEF VoteInv, CountMatchesVotes, VotesReachLiveGuests, CapInv, Submitted, Heirs, Live, Bequests
<1>5. \A g : Picks(g)' = Picks(g) /\ Unwritten(g)' = Unwritten(g)
  BY DEF VoteInv, TypeInv, Picks, Unwritten, Readable, Idle
<1>6. PickInv'
  BY <1>5 DEF VoteInv, PickInv, Submitted, Live
<1>7. QED
  BY <1>1, <1>2, <1>3, <1>4, <1>6 DEF VoteInv

(* The cookie of any guest leads to a live one. *)
LEMMA SurvivorLives ==
    ASSUME VoteInv, NEW g \in Guests, Live(Survivor(g))
    PROVE  Survivor(g) \in Guests
BY DEF VoteInv, TypeInv, Survivor, Live

\* What an idle session holds
LEMMA IdleType == Idle \in SessionType /\ Idle.op = "idle" /\ Idle.counted = FALSE
BY DEF Idle, SessionType

\* Reading for a vote keeps VoteInv;
LEMMA VoteReadsKeep ==
    ASSUME VoteInv, NEW s \in Sessions, NEW g \in Guests, NEW i \in DOMAIN requests,
           NEW op \in {"vote", "unvote"}, VoteReads(s, g, i, op)
    PROVE  VoteInv'
<1> DEFINE h == Survivor(g)
<1> DEFINE read == IF HasVoted(i, h) THEN 1 ELSE 0
<1> DEFINE next == [[Idle EXCEPT !.op = op, !.id = i, !.read = read] EXCEPT !.guest = h]
<1>1. /\ h \in Guests /\ Live(h) /\ Free(h)
      /\ lock' = [lock EXCEPT ![h] = s]
      /\ session' = [session EXCEPT ![s] = next]
      /\ session[s] = Idle /\ begun < MaxOps /\ begun' = begun + 1 /\ UNCHANGED data
  BY SurvivorLives DEF VoteReads, Resolve, Begin
<1>2. read \in Int /\ (read # 0 => HasVoted(i, h)) /\ i \in Nat
  BY DEF VoteInv, TypeInv, GuestRequestsTypeOK
<1> HIDE DEF read, h
<1>3. next \in SessionType
  BY <1>1, <1>2, IdleType DEF SessionType
<1>4. next.op = op /\ next.id = i /\ next.read = read /\ next.guest = h
  BY IdleType DEF SessionType
<1> HIDE DEF next
<1>5. Readable(next, h)
  BY <1>2, <1>3, <1>4 DEF Readable
<1>6. QED
  BY <1>1, <1>5, ReadsKeep

\* so does reading for a request,
LEMMA RequestReadsKeep ==
    ASSUME VoteInv, NEW s \in Sessions, NEW g \in Guests, NEW song \in Songs, RequestReads(s, g, song)
    PROVE  VoteInv'
<1>1. CASE Duplicates(song) # {}
  BY <1>1, VoteReadsKeep DEF RequestReads, Duplicates
<1>2. CASE Duplicates(song) = {}
  <2> DEFINE h == Survivor(g)
  <2> DEFINE next == [[Idle EXCEPT !.op = "insert", !.song = song] EXCEPT !.guest = h]
  <2>1. /\ h \in Guests /\ Live(h) /\ Free(h)
        /\ lock' = [lock EXCEPT ![h] = s]
        /\ session' = [session EXCEPT ![s] = next]
        /\ session[s] = Idle /\ begun < MaxOps /\ begun' = begun + 1 /\ UNCHANGED data
    BY <1>2, SurvivorLives DEF RequestReads, Resolve, Begin
  <2> HIDE DEF h
  <2>2. Readable(next, h)
    BY <2>1, IdleType DEF Readable, SessionType
  <2> HIDE DEF next
  <2>3. QED
    BY <2>1, <2>2, ReadsKeep
<1>3. QED
  BY <1>1, <1>2

\* and reading for a pick.
LEMMA PickReadsKeep ==
    ASSUME VoteInv, NEW s \in Sessions, NEW g \in Guests, NEW song \in Songs, PickReads(s, g, song)
    PROVE  VoteInv'
<1>1. CASE Duplicates(song) # {}
  BY <1>1, VoteReadsKeep DEF PickReads, Duplicates
<1>2. CASE Duplicates(song) = {}
  <2> DEFINE h == Survivor(g)
  <2> DEFINE next == [[Idle EXCEPT !.op = "count", !.song = song, !.counted = TRUE,
                                   !.read = profiles[h]] EXCEPT !.guest = h]
  <2>1. /\ h \in Guests /\ Live(h) /\ Free(h) /\ WithinCap(h)
        /\ lock' = [lock EXCEPT ![h] = s]
        /\ session' = [session EXCEPT ![s] = next]
        /\ session[s] = Idle /\ begun < MaxOps /\ begun' = begun + 1 /\ UNCHANGED data
    BY <1>2, SurvivorLives DEF PickReads, Resolve, Begin
  <2>2. profiles[h] \in Int
    BY <2>1 DEF VoteInv, TypeInv, GuestRequestsTypeOK, NoProfile
  <2> HIDE DEF h
  <2>3. Readable(next, h)
    BY <2>1, <2>2, IdleType DEF Readable, SessionType
  <2> HIDE DEF next
  <2>4. QED
    BY <2>1, <2>3, ReadsKeep
<1>3. QED
  BY <1>1, <1>2

-------------------------------------------------------------------------------
(* Counting *)

VotesFor(i) == {v \in votes : v[1] = i}

\* A vote is a pair of a request and a guest.
LEMMA VoteIsPair ==
    ASSUME TypeInv, NEW v \in votes, NEW i, NEW g
    PROVE  /\ v[1] \in DOMAIN requests /\ v[2] \in Guests
           /\ v = <<i, g>> <=> v[1] = i /\ v[2] = g
<1>1. v \in (DOMAIN requests) \X Guests
  BY DEF TypeInv, GuestRequestsTypeOK
<1>2. v = <<v[1], v[2]>> /\ v[1] \in DOMAIN requests /\ v[2] \in Guests
  BY <1>1
<1>3. QED
  BY <1>2

\* The number of requests created is a number.
LEMMA CreatedType ==
    ASSUME TypeInv
    PROVE  created \in Nat
BY GuestRequestsAssumption DEF TypeInv, GuestRequestsTypeOK

\* Every request there is has one of the ids.
LEMMA IdsSuffice ==
    ASSUME TypeInv
    PROVE  DOMAIN requests \subseteq Ids
<1>1. created \in Nat /\ created <= MaxRequests /\ DOMAIN requests \subseteq 1..created
  BY GuestRequestsAssumption DEF TypeInv, GuestRequestsTypeOK
<1>2. QED
  BY <1>1, GuestRequestsAssumption DEF Ids

\* The votes on a request can be counted, and a vote makes the count positive.
LEMMA Counting ==
    ASSUME TypeInv, NEW i
    PROVE  /\ IsFiniteSet(VotesFor(i)) /\ Cardinality(VotesFor(i)) \in Nat
           /\ (\E g : HasVoted(i, g)) => Cardinality(VotesFor(i)) > 0
<1>1. VotesFor(i) \in SUBSET votes
  BY DEF VotesFor
<1>2. IsFiniteSet(VotesFor(i)) /\ Cardinality(VotesFor(i)) \in Nat
  BY <1>1, FS_Subset, FS_CardinalityType DEF TypeInv
<1>3. ASSUME NEW g, HasVoted(i, g) PROVE VotesFor(i) # {}
  BY <1>3 DEF HasVoted, VotesFor
<1>4. QED
  BY <1>2, <1>3, FS_EmptySet

(* Ids of requests are at most created, so they are not given out again. *)
LEMMA FiniteRequests ==
    ASSUME TypeInv, NEW g
    PROVE  /\ IsFiniteSet(Picks(g)) /\ Cardinality(Picks(g)) \in Nat
           /\ IsFiniteSet(Unwritten(g)) /\ Cardinality(Unwritten(g)) \in Nat
<1> created \in Int
  BY GuestRequestsAssumption DEF TypeInv, GuestRequestsTypeOK
<1>1. IsFiniteSet(1..created)
  BY FS_Interval
<1>2. Picks(g) \in SUBSET (1..created)
  BY DEF TypeInv, GuestRequestsTypeOK, Picks
<1>3. Unwritten(g) \in SUBSET Sessions
  BY DEF Unwritten
<1>4. QED
  BY <1>1, <1>2, <1>3, FS_Subset, FS_CardinalityType, GuestRequestsFinite

-------------------------------------------------------------------------------
(* What a step of one session leaves to the others *)

(* A step of s that gives up what s had read, leaves the rows that others     *)
(* hold alone and does not reuse an id.                                       *)
LEMMA OthersKeep ==
    ASSUME VoteInv, NEW s \in Sessions, NEW next \in SessionType,
           session' = [session EXCEPT ![s] = next],
           next.op \notin {"vote", "unvote", "count"},
           next.op \in {"name", "insert"} => next.guest \in Guests /\ next.song \in Songs,
           \A u \in Sessions \ {s}, g \in Guests : lock[g] = u /\ Live(g) =>
              /\ lock'[g] = u /\ Live(g)'
              /\ profiles'[g] = profiles[g]
              /\ \A i : HasVoted(i, g) => HasVoted(i, g)' \/ i \notin DOMAIN requests',
           created' \in Nat, created' >= created,
           \A i \in 1..created : i \in DOMAIN requests' => i \in DOMAIN requests
    PROVE  LockInv' /\ ReadInv'
<1>1. created \in Nat
  BY GuestRequestsAssumption DEF VoteInv, TypeInv, GuestRequestsTypeOK
<1>2. session'[s] = next /\ \A u \in Sessions \ {s} : session'[u] = session[u]
  BY DEF VoteInv, TypeInv
<1>3. LockInv'
  BY <1>2 DEF VoteInv, LockInv
<1>4. ASSUME NEW u \in Sessions \ {s}
      PROVE  /\ session[u].op \in {"vote", "unvote"} => session[u].id \in 1..created'
             /\ session[u].op = "unvote" /\ session[u].read # 0 =>
                   \/ session[u].id \notin DOMAIN requests'
                   \/ HasVoted(session[u].id, session[u].guest)'
             /\ session[u].op = "count" =>
                   /\ session[u].read = profiles'[session[u].guest]
                   /\ WithinCap(session[u].guest)'
             /\ session[u].op \in {"count", "name", "insert"} =>
                   session[u].guest \in Guests /\ session[u].song \in Songs
  <2>1. session[u].op \in {"vote", "unvote"} => session[u].id \in 1..created'
    BY <1>1 DEF VoteInv, ReadInv
  <2>2. session[u].op = "unvote" /\ session[u].read # 0 =>
            \/ session[u].id \notin DOMAIN requests'
            \/ HasVoted(session[u].id, session[u].guest)'
    BY DEF VoteInv, ReadInv, LockInv
  <2>3. session[u].op = "count" =>
            session[u].read = profiles'[session[u].guest] /\ WithinCap(session[u].guest)'
    BY DEF VoteInv, ReadInv, LockInv, WithinCap
  <2>4. session[u].op \in {"count", "name", "insert"} =>
            session[u].guest \in Guests /\ session[u].song \in Songs
    BY DEF VoteInv, ReadInv
  <2>5. QED
    BY <2>1, <2>2, <2>3, <2>4
<1>5. ReadInv'
  BY <1>2, <1>4 DEF ReadInv, HasVoted, WithinCap
<1>6. QED
  BY <1>3, <1>5

(* A step of s that neither counts a pick nor writes one. *)
LEMMA PicksKeep ==
    ASSUME VoteInv, TypeInv', NEW s \in Sessions, NEW next \in SessionType,
           session' = [session EXCEPT ![s] = next], next.op \notin {"name", "insert"},
           \A g \in Guests : Live(g)' =>
              Live(g) /\ Picks(g)' \subseteq Picks(g) /\ Submitted(g)' = Submitted(g)
    PROVE  PickInv'
<1> SUFFICES ASSUME NEW g \in Guests, Live(g)'
             PROVE  Cardinality(Picks(g)') + Cardinality(Unwritten(g)') <= Submitted(g)'
  BY DEF PickInv, Picks, Unwritten, Submitted
<1>1. Unwritten(g)' \subseteq Unwritten(g)
  BY DEF VoteInv, TypeInv, Unwritten
<1>2. TypeInv
  BY DEF VoteInv
<1>3. /\ Cardinality(Picks(g)') \in Nat /\ Cardinality(Picks(g)') <= Cardinality(Picks(g))
      /\ Cardinality(Unwritten(g)') \in Nat /\ Cardinality(Unwritten(g)') <= Cardinality(Unwritten(g))
  BY <1>1, <1>2, FiniteRequests, FS_Subset, FS_CardinalityType
<1>4. Cardinality(Picks(g)) + Cardinality(Unwritten(g)) <= Submitted(g)
  BY DEF VoteInv, PickInv
<1>5. Submitted(g) \in Int
  BY <1>2 DEF Submitted, TypeInv, GuestRequestsTypeOK, NoProfile
<1>6. QED
  BY <1>2, <1>3, <1>4, <1>5, FiniteRequests

\* CapInv is about profiles and merges only.
LEMMA CapKeeps ==
    ASSUME CapInv, UNCHANGED <<profiles, mergedInto>>
    PROVE  CapInv'
BY DEF CapInv, Heirs, Bequests, Live, Submitted


-------------------------------------------------------------------------------
(* Votes *)

(* What Counted does to the rows. *)
LEMMA CountedRows ==
    ASSUME TypeInv, NEW i, NEW d \in Int
    PROVE  /\ DOMAIN Counted(requests, i, d) = DOMAIN requests
           /\ Counted(requests, i, d) \in [DOMAIN requests -> Rows]
           /\ \A j \in DOMAIN requests :
                /\ Counted(requests, i, d)[j].guest = requests[j].guest
                /\ Counted(requests, i, d)[j].counted = requests[j].counted
                /\ Counted(requests, i, d)[j].anonymised = requests[j].anonymised
                /\ j # i => Counted(requests, i, d)[j].count = requests[j].count
                /\ j = i /\ requests[j].count + d >= 0 =>
                      Counted(requests, i, d)[j].count = requests[j].count + d
BY DEF TypeInv, Counted, Rows

(* A commit gives up the committing session's rows and no others. *)
LEMMA ReleaseKeeps ==
    ASSUME TypeInv, NEW s \in Sessions, Release(s)
    PROVE  /\ lock' \in [Guests -> Sessions \cup {None}]
           /\ \A u \in Sessions \ {s}, g \in Guests : lock[g] = u => lock'[g] = u
BY DEF TypeInv, GuestRequestsTypeOK, Release

(* A commit that changes votes of the guest it has locked, and their counts.  *)
LEMMA VoteCommitKeeps ==
    ASSUME VoteInv, NEW s \in Sessions,
           session' = [session EXCEPT ![s] = Idle], Release(s),
           UNCHANGED <<begun, created, profiles, mergedInto>>,
           DOMAIN requests' = DOMAIN requests, requests' \in [DOMAIN requests -> Rows],
           \A i \in DOMAIN requests :
              requests'[i].guest = requests[i].guest /\ requests'[i].counted = requests[i].counted,
           votes' \subseteq (DOMAIN requests) \X Guests, IsFiniteSet(votes'),
           \A u \in Sessions \ {s}, g \in Guests :
              lock[g] = u => \A i : HasVoted(i, g) => HasVoted(i, g)',
           \A v \in votes' : Live(v[2]),
           CountMatchesVotes'
    PROVE  VoteInv'
<1>1. TypeInv
  BY DEF VoteInv
<1>2. TypeInv'
  <2>1. GuestRequestsTypeOK'
    BY <1>1, ReleaseKeeps DEF TypeInv, GuestRequestsTypeOK, Live, Deleted, Survivor
  <2>2. session' \in [Sessions -> SessionType]
    BY <1>1, IdleType DEF TypeInv
  <2>3. QED
    BY <1>1, <2>1, <2>2 DEF TypeInv
<1>3. LockInv' /\ ReadInv'
  <2>1. created \in Nat
    BY <1>1, GuestRequestsAssumption DEF TypeInv, GuestRequestsTypeOK
  <2>2. \A u \in Sessions \ {s}, g \in Guests : lock[g] = u /\ Live(g) =>
           /\ lock'[g] = u /\ Live(g)'
           /\ profiles'[g] = profiles[g]
           /\ \A i : HasVoted(i, g) => HasVoted(i, g)' \/ i \notin DOMAIN requests'
    BY <1>1, ReleaseKeeps DEF Live
  <2>3. \A i \in 1..created : i \in DOMAIN requests' => i \in DOMAIN requests
    OBVIOUS
  <2>4. Idle.op \notin {"vote", "unvote", "count", "name", "insert"} /\ Idle \in SessionType
    BY IdleType
  <2>5. created' \in Nat /\ created' >= created
    BY <2>1
  <2>6. QED
    BY <2>2, <2>3, <2>4, <2>5, OthersKeep
<1>4. VotesReachLiveGuests'
  BY DEF VotesReachLiveGuests, Live
<1>5. PickInv'
  <2>1. \A g \in Guests : Live(g)' =>
           Live(g) /\ Picks(g)' \subseteq Picks(g) /\ Submitted(g)' = Submitted(g)
    BY DEF Picks, Live, Submitted
  <2>2. QED
    BY <1>2, <2>1, IdleType, PicksKeep
<1>6. CapInv'
  BY CapKeeps DEF VoteInv
<1>7. QED
  BY <1>2, <1>3, <1>4, <1>5, <1>6 DEF VoteInv

(* A row's votes, when one vote comes or goes and is counted. *)
LEMMA OneMore ==
    ASSUME VoteInv, NEW i \in DOMAIN requests, NEW g \in Guests, ~HasVoted(i, g),
           votes' = votes \cup {<<i, g>>}, requests' = Counted(requests, i, 1)
    PROVE  CountMatchesVotes'
<1> DEFINE vote == <<i, g>>
<1>1. TypeInv /\ DOMAIN requests' = DOMAIN requests
  BY CountedRows DEF VoteInv
<1> SUFFICES ASSUME NEW j \in DOMAIN requests
             PROVE  requests'[j].count = requests'[j].anonymised + Cardinality(VotesFor(j)')
  BY <1>1 DEF CountMatchesVotes, VotesFor
<1>2. requests[j].count = requests[j].anonymised + Cardinality(VotesFor(j))
  BY DEF VoteInv, CountMatchesVotes, VotesFor
<1>3. requests[j].count \in Nat /\ requests[j].anonymised \in Nat
  BY <1>1 DEF TypeInv, Rows
<1>4. requests'[j].anonymised = requests[j].anonymised
  BY <1>1, CountedRows
<1>5. CASE j = i
  <2>1. VotesFor(j)' = VotesFor(j) \cup {vote} /\ vote \notin VotesFor(j)
    BY <1>5 DEF VotesFor, HasVoted
  <2>2. Cardinality(VotesFor(j)') = Cardinality(VotesFor(j)) + 1
    BY <1>1, <2>1, Counting, FS_AddElement
  <2>3. requests'[j].count = requests[j].count + 1
    <3>1. requests[j].count + 1 >= 0
      BY <1>3
    <3>2. QED
      BY <1>1, <1>5, <3>1, CountedRows
  <2>4. QED
    BY <1>1, <1>2, <1>3, <1>4, <2>2, <2>3, Counting
<1>6. CASE j # i
  <2>1. VotesFor(j)' = VotesFor(j)
    BY <1>6 DEF VotesFor
  <2>2. requests'[j].count = requests[j].count
    BY <1>1, <1>6, CountedRows
  <2>3. QED
    BY <1>2, <1>4, <2>1, <2>2
<1>7. QED
  BY <1>5, <1>6

\* Removing a vote and taking one from its request's count keep the counts right.
LEMMA OneLess ==
    ASSUME VoteInv, NEW i, NEW g \in Guests, i \in DOMAIN requests => HasVoted(i, g),
           votes' = votes \ {<<i, g>>}, requests' = Counted(requests, i, -1)
    PROVE  CountMatchesVotes'
<1> DEFINE vote == <<i, g>>
<1> DEFINE down == -1
<1>0. down \in Int /\ requests' = Counted(requests, i, down) /\ \A n \in Nat : n + down = n - 1
  OBVIOUS
<1> HIDE DEF down
<1>1. TypeInv /\ DOMAIN requests' = DOMAIN requests
  BY <1>0, CountedRows DEF VoteInv
<1> SUFFICES ASSUME NEW j \in DOMAIN requests
             PROVE  requests'[j].count = requests'[j].anonymised + Cardinality(VotesFor(j)')
  BY <1>1 DEF CountMatchesVotes, VotesFor
<1>2. requests[j].count = requests[j].anonymised + Cardinality(VotesFor(j))
  BY DEF VoteInv, CountMatchesVotes, VotesFor
<1>3. requests[j].count \in Nat /\ requests[j].anonymised \in Nat
  BY <1>1 DEF TypeInv, Rows
<1>4. requests'[j].anonymised = requests[j].anonymised
  BY <1>0, <1>1, CountedRows
<1>5. CASE j = i
  <2>1. VotesFor(j)' = VotesFor(j) \ {vote} /\ vote \in VotesFor(j)
    BY <1>5 DEF VotesFor, HasVoted
  <2>2. Cardinality(VotesFor(j)') = Cardinality(VotesFor(j)) - 1
    BY <1>1, <2>1, Counting, FS_RemoveElement
  <2>3. Cardinality(VotesFor(j)) > 0
    BY <1>1, <1>5, Counting
  <2>4. requests'[j].count = requests[j].count - 1
    <3>1. requests[j].count + down >= 0
      BY <1>0, <1>1, <1>2, <1>3, <2>3, Counting
    <3>2. requests'[j].count = requests[j].count + down
      BY <1>0, <1>1, <1>5, <3>1, CountedRows
    <3>3. QED
      BY <1>0, <1>3, <3>2
  <2>5. QED
    BY <1>1, <1>2, <1>3, <1>4, <2>2, <2>4, Counting
<1>6. CASE j # i
  <2>1. VotesFor(j)' = VotesFor(j)
    BY <1>6 DEF VotesFor
  <2>2. requests'[j].count = requests[j].count
    BY <1>0, <1>1, <1>6, CountedRows
  <2>3. QED
    BY <1>2, <1>4, <2>1, <2>2
<1>7. QED
  BY <1>5, <1>6

(* The vote's guest is locked, hence live; the vote and the count change      *)
(* together.                                                                  *)
LEMMA AddVoteKeeps ==
    ASSUME VoteInv, NEW s \in Sessions, AddVote(s)
    PROVE  VoteInv'
<1> DEFINE i == session[s].id
<1> DEFINE g == session[s].guest
<1>1. /\ g \in Guests /\ Live(g) /\ TypeInv
      /\ session' = [session EXCEPT ![s] = Idle] /\ Release(s)
      /\ UNCHANGED <<begun, created, profiles, mergedInto>>
  BY DEF AddVote, VoteInv, LockInv, Commit
<1>2. \/ UNCHANGED <<requests, votes>>
      \/ /\ i \in DOMAIN requests /\ ~HasVoted(i, g)
         /\ votes' = votes \cup {<<i, g>>}
         /\ requests' = Counted(requests, i, 1)
  BY DEF AddVote
<1> HIDE DEF i, g
<1>3. CASE UNCHANGED <<requests, votes>>
  <2>1. CountMatchesVotes' /\ \A v \in votes' : Live(v[2])
    BY <1>3 DEF VoteInv, CountMatchesVotes, VotesReachLiveGuests
  <2>2. \A j, h : HasVoted(j, h)' = HasVoted(j, h)
    BY <1>3 DEF HasVoted
  <2>3. /\ requests' = requests /\ requests \in [DOMAIN requests -> Rows]
        /\ votes' \subseteq (DOMAIN requests) \X Guests /\ IsFiniteSet(votes')
    BY <1>1, <1>3 DEF TypeInv, GuestRequestsTypeOK
  <2>4. QED
    BY <1>1, <2>1, <2>2, <2>3, VoteCommitKeeps
<1>4. CASE /\ i \in DOMAIN requests /\ ~HasVoted(i, g)
           /\ votes' = votes \cup {<<i, g>>}
           /\ requests' = Counted(requests, i, 1)
  <2>1. CountMatchesVotes'
    BY <1>1, <1>4, OneMore
  <2>2. \A v \in votes' : Live(v[2])
    BY <1>1, <1>4 DEF VoteInv, VotesReachLiveGuests
  <2>3. \A j, h : HasVoted(j, h) => HasVoted(j, h)'
    BY <1>4 DEF HasVoted
  <2>4. /\ DOMAIN requests' = DOMAIN requests /\ requests' \in [DOMAIN requests -> Rows]
        /\ \A j \in DOMAIN requests :
              requests'[j].guest = requests[j].guest /\ requests'[j].counted = requests[j].counted
    BY <1>1, <1>4, CountedRows
  <2>5. votes' \subseteq (DOMAIN requests) \X Guests
    BY <1>1, <1>4 DEF TypeInv, GuestRequestsTypeOK
  <2>6. IsFiniteSet(votes')
    BY <1>1, <1>4, FS_AddElement DEF TypeInv
  <2>7. QED
    BY <1>1, <2>1, <2>2, <2>3, <2>4, <2>5, <2>6, VoteCommitKeeps
<1>5. QED
  BY <1>2, <1>3, <1>4

(* What was read of the vote still holds, so the count is positive. *)
LEMMA RemoveVoteKeeps ==
    ASSUME VoteInv, NEW s \in Sessions, RemoveVote(s)
    PROVE  VoteInv'
<1> DEFINE i == session[s].id
<1> DEFINE g == session[s].guest
<1>1. /\ g \in Guests /\ Live(g) /\ TypeInv /\ lock[g] = s
      /\ session' = [session EXCEPT ![s] = Idle] /\ Release(s)
      /\ UNCHANGED <<begun, created, profiles, mergedInto>>
  BY DEF RemoveVote, VoteInv, LockInv, Commit
<1>2. \/ UNCHANGED <<requests, votes>>
      \/ /\ i \in DOMAIN requests => HasVoted(i, g)
         /\ votes' = votes \ {<<i, g>>}
         /\ requests' = Counted(requests, i, -1)
  BY DEF RemoveVote, VoteInv, ReadInv
<1> HIDE DEF i, g
<1>3. CASE UNCHANGED <<requests, votes>>
  <2>1. CountMatchesVotes' /\ \A v \in votes' : Live(v[2])
    BY <1>3 DEF VoteInv, CountMatchesVotes, VotesReachLiveGuests
  <2>2. \A j, h : HasVoted(j, h)' = HasVoted(j, h)
    BY <1>3 DEF HasVoted
  <2>3. /\ requests' = requests /\ requests \in [DOMAIN requests -> Rows]
        /\ votes' \subseteq (DOMAIN requests) \X Guests /\ IsFiniteSet(votes')
    BY <1>1, <1>3 DEF TypeInv, GuestRequestsTypeOK
  <2>4. QED
    BY <1>1, <2>1, <2>2, <2>3, VoteCommitKeeps
<1>4. CASE /\ i \in DOMAIN requests => HasVoted(i, g)
           /\ votes' = votes \ {<<i, g>>}
           /\ requests' = Counted(requests, i, -1)
  <2>1. CountMatchesVotes'
    BY <1>1, <1>4, OneLess
  <2>2. \A v \in votes' : Live(v[2])
    BY <1>1, <1>4 DEF VoteInv, VotesReachLiveGuests
  <2>3. ASSUME NEW u \in Sessions \ {s}, NEW h \in Guests, lock[h] = u, NEW j, HasVoted(j, h)
        PROVE  HasVoted(j, h)'
    <3>1. h # g
      BY <1>1, <2>3
    <3>2. QED
      BY <1>4, <2>3, <3>1 DEF HasVoted
  <2>4. /\ DOMAIN requests' = DOMAIN requests /\ requests' \in [DOMAIN requests -> Rows]
        /\ \A j \in DOMAIN requests :
              requests'[j].guest = requests[j].guest /\ requests'[j].counted = requests[j].counted
    <3> DEFINE down == -1
    <3>1. down \in Int /\ requests' = Counted(requests, i, down)
      BY <1>4
    <3> HIDE DEF down
    <3>2. QED
      BY <1>1, <3>1, CountedRows
  <2>5. votes' \subseteq (DOMAIN requests) \X Guests
    BY <1>1, <1>4 DEF TypeInv, GuestRequestsTypeOK
  <2>6. IsFiniteSet(votes')
    BY <1>1, <1>4, FS_RemoveElement DEF TypeInv
  <2>7. QED
    BY <1>1, <2>1, <2>2, <2>3, <2>4, <2>5, <2>6, VoteCommitKeeps
<1>5. QED
  BY <1>2, <1>3, <1>4

-------------------------------------------------------------------------------
(* Picks *)

\* What a guest has submitted is a number, zero without a profile.
LEMMA SubmittedType ==
    ASSUME TypeInv, NEW g \in Guests
    PROVE  Submitted(g) \in Nat
BY DEF TypeInv, GuestRequestsTypeOK, Submitted, NoProfile

\* More guests have a larger cap between them.
LEMMA CapTimes ==
    ASSUME NEW c \in Nat, NEW m \in Nat, NEW n \in Nat, m <= n
    PROVE  c * m <= c * n
BY SMT

(* A guest is its own heir while it lives. *)
LEMMA BequestsGrow ==
    ASSUME NEW heir \in Heirs, NEW g \in Guests, Live(g)
    PROVE  /\ IsFiniteSet(Bequests(heir, g))
           /\ Cardinality(Bequests(heir, g)) \in Nat
           /\ Cardinality(Bequests(heir, g)) >= 1
<1>1. g \in Bequests(heir, g)
  BY DEF Heirs, Bequests
<1>2. Bequests(heir, g) \in SUBSET Guests
  BY DEF Bequests
<1>3. IsFiniteSet(Bequests(heir, g)) /\ Cardinality(Bequests(heir, g)) \in Nat
  BY <1>2, FS_Subset, FS_CardinalityType, GuestRequestsFinite
<1>4. Cardinality(Bequests(heir, g)) # 0
  BY <1>1, <1>3, FS_EmptySet
<1>5. QED
  BY <1>3, <1>4

(* The guest is locked and within the cap; what is counted is one more than   *)
(* what was read.                                                             *)
LEMMA PickCountsKeeps ==
    ASSUME VoteInv, NEW s \in Sessions, PickCounts(s)
    PROVE  VoteInv'
<1> DEFINE g == session[s].guest
<1> PICK op \in {"name", "insert"} : Commit(s, [session[s] EXCEPT !.op = op])
  BY DEF PickCounts
<1> DEFINE next == [session[s] EXCEPT !.op = op]
<1>1. /\ g \in Guests /\ Live(g) /\ lock[g] = s /\ WithinCap(g) /\ session[s].song \in Songs
      /\ session[s].op = "count" /\ session[s] \in SessionType
      /\ session' = [session EXCEPT ![s] = next] /\ Release(s) /\ TypeInv
      /\ UNCHANGED <<requests, created, votes, mergedInto, begun>>
  BY DEF PickCounts, VoteInv, TypeInv, LockInv, ReadInv, Commit
<1>2. next \in SessionType /\ next.op = op /\ next.guest = g /\ next.song = session[s].song
  BY <1>1 DEF SessionType
<1>3. profiles' = [profiles EXCEPT ![g] = 1 + Submitted(g)]
  BY DEF PickCounts, VoteInv, ReadInv, Submitted
<1> HIDE DEF g, next
<1>4. profiles' \in [Guests -> Nat \cup {NoProfile}]
  BY <1>1, <1>3, SubmittedType DEF TypeInv, GuestRequestsTypeOK
<1>5. \A h \in Guests : Submitted(h)' = IF h = g THEN 1 + Submitted(g) ELSE Submitted(h)
  BY <1>1, <1>3, SubmittedType DEF TypeInv, GuestRequestsTypeOK, Submitted, NoProfile
<1>6. TypeInv'
  <2>1. GuestRequestsTypeOK'
    BY <1>1, <1>4, ReleaseKeeps DEF TypeInv, GuestRequestsTypeOK, Live, Deleted, Survivor
  <2>2. QED
    BY <1>1, <1>2, <2>1 DEF TypeInv
<1>7. LockInv' /\ ReadInv'
  <2>1. created \in Nat
    BY <1>1, GuestRequestsAssumption DEF TypeInv, GuestRequestsTypeOK
  <2>2. \A u \in Sessions \ {s}, h \in Guests : lock[h] = u /\ Live(h) =>
           /\ lock'[h] = u /\ Live(h)'
           /\ profiles'[h] = profiles[h]
           /\ \A i : HasVoted(i, h) => HasVoted(i, h)' \/ i \notin DOMAIN requests'
    BY <1>1, <1>3, ReleaseKeeps DEF Live, HasVoted, TypeInv, GuestRequestsTypeOK
  <2>3. /\ created' \in Nat /\ created' >= created
        /\ \A i \in 1..created : i \in DOMAIN requests' => i \in DOMAIN requests
    BY <1>1, <2>1
  <2>4. next.op \notin {"vote", "unvote", "count"} /\ next.guest \in Guests /\ next.song \in Songs
    BY <1>1, <1>2
  <2>5. QED
    BY <1>1, <1>2, <2>2, <2>3, <2>4, OthersKeep
<1>8. CountMatchesVotes' /\ VotesReachLiveGuests'
  BY <1>1 DEF VoteInv, CountMatchesVotes, VotesReachLiveGuests, Live
<1>9. PickInv'
  <2> SUFFICES ASSUME NEW h \in Guests, Live(h)'
               PROVE  Cardinality(Picks(h)') + Cardinality(Unwritten(h)') <= Submitted(h)'
    BY DEF PickInv, Picks, Unwritten, Submitted
  <2>1. Picks(h)' = Picks(h)
    BY <1>1 DEF Picks
  <2>2. Cardinality(Picks(h)) + Cardinality(Unwritten(h)) <= Submitted(h)
    BY <1>1 DEF VoteInv, PickInv, Live
  <2>3. CASE h = g
    <3>1. Unwritten(h)' \subseteq Unwritten(h) \cup {s}
      BY <1>1 DEF Unwritten, TypeInv
    <3>2. /\ IsFiniteSet(Unwritten(h)) /\ IsFiniteSet(Unwritten(h) \cup {s})
          /\ Cardinality(Unwritten(h)) \in Nat
          /\ Cardinality(Unwritten(h) \cup {s}) <= Cardinality(Unwritten(h)) + 1
      <4>1. IsFiniteSet(Unwritten(h)) /\ Cardinality(Unwritten(h)) \in Nat
        BY <1>1, FiniteRequests
      <4>2. s \notin Unwritten(h)
        BY <1>1 DEF Unwritten
      <4>3. IsFiniteSet(Unwritten(h) \cup {s})
        BY <4>1, FS_AddElement
      <4>4. Cardinality(Unwritten(h) \cup {s}) = Cardinality(Unwritten(h)) + 1
        BY <4>1, <4>2, FS_AddElement
      <4>5. QED
        BY <4>1, <4>3, <4>4
    <3>3. Cardinality(Unwritten(h)') <= Cardinality(Unwritten(h) \cup {s})
      BY <3>1, <3>2, FS_Subset
    <3>4. Cardinality(Unwritten(h)') \in Nat /\ Cardinality(Unwritten(h) \cup {s}) \in Nat
      BY <3>1, <3>2, FS_Subset, FS_CardinalityType
    <3>5. QED
      BY <1>1, <1>5, <2>1, <2>2, <2>3, <3>2, <3>3, <3>4, FiniteRequests, SubmittedType
  <2>4. CASE h # g
    <3>1. Unwritten(h)' = Unwritten(h)
      BY <1>1, <1>2, <2>4 DEF Unwritten, TypeInv
    <3>2. QED
      BY <1>5, <2>1, <2>2, <2>4, <3>1
  <2>5. QED
    BY <2>3, <2>4
<1>10. CapInv'
  <2> SUFFICES ASSUME Cap # 0 PROVE CapInv'
    BY DEF CapInv
  <2> PICK heir \in Heirs :
         \A h \in Guests : Live(h) => Submitted(h) <= Cap * Cardinality(Bequests(heir, h))
    BY DEF VoteInv, CapInv
  <2>0. heir \in Heirs' /\ \A h : Bequests(heir, h)' = Bequests(heir, h)
    BY <1>1 DEF Heirs, Live, Bequests
  <2> SUFFICES ASSUME NEW h \in Guests, Live(h)
               PROVE  Submitted(h)' <= Cap * Cardinality(Bequests(heir, h))
    BY <1>1, <2>0 DEF CapInv, Live
  <2>1. CASE h = g
    <3> DEFINE n == Cardinality(Bequests(heir, h))
    <3>1. n \in Nat /\ n >= 1
      BY BequestsGrow
    <3>2. Cap \in Nat /\ Cap >= 1
      BY GuestRequestsAssumption
    <3> HIDE DEF n
    <3>3. Submitted(h)' <= Cap
      BY <1>1, <1>5, <2>1, <3>2, SubmittedType DEF WithinCap, Submitted, NoProfile, TypeInv, GuestRequestsTypeOK
    <3>4. Cap * 1 <= Cap * n
      BY <3>1, <3>2, CapTimes
    <3>5. Submitted(h)' \in Nat /\ Cap * n \in Nat
      BY <1>1, <1>5, <2>1, <3>1, <3>2, SubmittedType
    <3>6. Cap * 1 = Cap
      BY <3>2
    <3>7. QED
      BY <3>2, <3>3, <3>4, <3>5, <3>6 DEF n
  <2>2. CASE h # g
    BY <1>5, <2>2
  <2>3. QED
    BY <2>1, <2>2
<1>11. QED
  BY <1>6, <1>7, <1>8, <1>9, <1>10 DEF VoteInv

(* A nickname that is taken gives the pick up, though it stays counted. *)
LEMMA PickNamesKeeps ==
    ASSUME VoteInv, NEW s \in Sessions, PickNames(s)
    PROVE  VoteInv'
<1> DEFINE g == session[s].guest
<1> DEFINE next == [session[s] EXCEPT !.op = "insert"]
<1>1. /\ g \in Guests /\ session[s].song \in Songs /\ MayRefer(s, g)
      /\ session[s].op = "name" /\ session[s] \in SessionType /\ TypeInv
      /\ UNCHANGED <<requests, created, votes, mergedInto, lock, begun>>
  BY DEF PickNames, VoteInv, TypeInv, ReadInv
<1>2. \/ session' = [session EXCEPT ![s] = Idle] /\ UNCHANGED profiles
      \/ /\ session' = [session EXCEPT ![s] = next]
         /\ profiles' = [profiles EXCEPT ![g] = Submitted(g)]
  BY <1>1 DEF PickNames, Done, Submitted, TypeInv
<1>3. next \in SessionType /\ next.op = "insert" /\ next.guest = g
      /\ next.song = session[s].song /\ next.counted = session[s].counted
  BY <1>1 DEF SessionType
<1> HIDE DEF g, next
<1>4. PICK to \in {Idle, next} : session' = [session EXCEPT ![s] = to]
  BY <1>2
<1>5. /\ profiles' \in [Guests -> Nat \cup {NoProfile}]
      /\ \A h \in Guests : Submitted(h)' = Submitted(h) /\ (h # g => profiles'[h] = profiles[h])
  BY <1>1, <1>2, SubmittedType DEF TypeInv, GuestRequestsTypeOK, Submitted, NoProfile
<1>6. TypeInv'
  <2>1. GuestRequestsTypeOK'
    BY <1>1, <1>5 DEF TypeInv, GuestRequestsTypeOK, Live, Deleted, Survivor
  <2>2. QED
    BY <1>1, <1>3, <1>4, <2>1, IdleType DEF TypeInv
<1>7. LockInv' /\ ReadInv'
  <2>1. created \in Nat
    BY <1>1, GuestRequestsAssumption DEF TypeInv, GuestRequestsTypeOK
  <2>2. \A u \in Sessions \ {s}, h \in Guests : lock[h] = u /\ Live(h) =>
           /\ lock'[h] = u /\ Live(h)'
           /\ profiles'[h] = profiles[h]
           /\ \A i : HasVoted(i, h) => HasVoted(i, h)' \/ i \notin DOMAIN requests'
    <3>1. \A u \in Sessions \ {s} : lock[g] # u
      BY <1>1, GuestRequestsAssumption DEF MayRefer
    <3>2. QED
      BY <1>1, <1>5, <3>1 DEF Live, HasVoted
  <2>3. /\ created' \in Nat /\ created' >= created
        /\ \A i \in 1..created : i \in DOMAIN requests' => i \in DOMAIN requests
    BY <1>1, <2>1
  <2>4. /\ to \in SessionType /\ to.op \notin {"vote", "unvote", "count"}
        /\ to.op \in {"name", "insert"} => to.guest \in Guests /\ to.song \in Songs
    BY <1>1, <1>3, <1>4, IdleType
  <2>5. QED
    BY <1>4, <2>2, <2>3, <2>4, OthersKeep
<1>8. CountMatchesVotes' /\ VotesReachLiveGuests' /\ CapInv'
  BY <1>1, <1>5 DEF VoteInv, CountMatchesVotes, VotesReachLiveGuests, CapInv, Heirs, Bequests, Live, Submitted
<1>9. PickInv'
  <2> SUFFICES ASSUME NEW h \in Guests, Live(h)'
               PROVE  Cardinality(Picks(h)') + Cardinality(Unwritten(h)') <= Submitted(h)'
    BY DEF PickInv, Picks, Unwritten, Submitted
  <2>1. Picks(h)' = Picks(h)
    BY <1>1 DEF Picks
  <2>2. Unwritten(h)' \subseteq Unwritten(h)
    BY <1>1, <1>3, <1>4, IdleType DEF Unwritten, TypeInv, g
  <2>3. Cardinality(Picks(h)) + Cardinality(Unwritten(h)) <= Submitted(h)
    BY <1>1 DEF VoteInv, PickInv, Live
  <2>4. Cardinality(Unwritten(h)') <= Cardinality(Unwritten(h)) /\ Cardinality(Unwritten(h)') \in Nat
    BY <1>1, <2>2, FiniteRequests, FS_Subset, FS_CardinalityType
  <2>5. QED
    BY <1>1, <1>5, <2>1, <2>3, <2>4, FiniteRequests, SubmittedType
<1>10. QED
  BY <1>6, <1>7, <1>8, <1>9 DEF VoteInv

-------------------------------------------------------------------------------
(* Requests that are made *)

(* The locks of every session but s stay. *)
OthersLocked(s) == \A u \in Sessions \ {s}, h \in Guests : lock[h] = u => lock'[h] = u

(* A new row has a new id and no votes; a counted pick becomes a written one. *)
LEMMA NewRequestKeeps ==
    ASSUME VoteInv, NEW s \in Sessions, NEW song \in Songs, NEW g \in Guests \cup {None},
           NEW pick \in BOOLEAN, NEW counted \in BOOLEAN, NewRequest(song, g, pick, counted),
           counted = TRUE => s \in Unwritten(g),
           session' = [session EXCEPT ![s] = Idle], begun' \in 0..MaxOps,
           lock' \in [Guests -> Sessions \cup {None}],
           OthersLocked(s),
           UNCHANGED <<votes, profiles, mergedInto>>
    PROVE  VoteInv'
<1> DEFINE id == created + 1
<1> DEFINE row == [song |-> song, guest |-> g, status |-> "new", count |-> 0,
                   anonymised |-> 0, pick |-> pick, counted |-> counted]
<1>1. TypeInv /\ created \in Nat /\ id \in 1..MaxRequests /\ created' = id
  BY GuestRequestsAssumption DEF NewRequest, VoteInv, TypeInv, GuestRequestsTypeOK
<1>2. row \in Rows /\ row.count = 0 /\ row.anonymised = 0 /\ row.guest = g /\ row.counted = counted
  BY DEF Rows
<1>3. /\ requests' = [i \in DOMAIN requests \cup {id} |-> IF i \in DOMAIN requests THEN requests[i] ELSE row]
      /\ id \notin DOMAIN requests
  BY <1>1 DEF NewRequest, TypeInv, GuestRequestsTypeOK
<1> HIDE DEF row
<1>4. /\ DOMAIN requests' = DOMAIN requests \cup {id}
      /\ requests' \in [DOMAIN requests' -> Rows]
      /\ requests'[id] = row
      /\ \A i \in DOMAIN requests : requests'[i] = requests[i]
  BY <1>1, <1>2, <1>3 DEF TypeInv
<1>5. TypeInv'
  <2>1. GuestRequestsTypeOK'
    BY <1>1, <1>4 DEF TypeInv, GuestRequestsTypeOK, Live, Deleted, Survivor
  <2>2. QED
    BY <1>1, <1>4, <2>1, IdleType DEF TypeInv
<1>6. LockInv' /\ ReadInv'
  <2>1. \A u \in Sessions \ {s}, h \in Guests : lock[h] = u /\ Live(h) =>
           /\ lock'[h] = u /\ Live(h)'
           /\ profiles'[h] = profiles[h]
           /\ \A i : HasVoted(i, h) => HasVoted(i, h)' \/ i \notin DOMAIN requests'
    BY DEF Live, HasVoted, OthersLocked
  <2>2. /\ created' \in Nat /\ created' >= created
        /\ \A i \in 1..created : i \in DOMAIN requests' => i \in DOMAIN requests
    BY <1>1, <1>4
  <2>3. QED
    BY <2>1, <2>2, IdleType, OthersKeep
<1>7. CountMatchesVotes'
  <2> SUFFICES ASSUME NEW j \in DOMAIN requests'
               PROVE  requests'[j].count = requests'[j].anonymised + Cardinality(VotesFor(j))
    BY DEF CountMatchesVotes, VotesFor
  <2>1. CASE j \in DOMAIN requests
    BY <1>4, <2>1 DEF VoteInv, CountMatchesVotes, VotesFor
  <2>2. CASE j = id
    <3>1. VotesFor(j) = {}
      BY <1>1, <1>3, <2>2 DEF VotesFor, TypeInv, GuestRequestsTypeOK
    <3>2. Cardinality(VotesFor(j)) = 0
      BY <3>1, FS_EmptySet
    <3>3. requests'[j].count = 0 /\ requests'[j].anonymised = 0
      BY <1>2, <1>4, <2>2
    <3>4. QED
      BY <3>2, <3>3
  <2>3. QED
    BY <1>4, <2>1, <2>2
<1>8. VotesReachLiveGuests' /\ CapInv'
  BY CapKeeps DEF VoteInv, VotesReachLiveGuests, Live
<1>9. PickInv'
  <2> SUFFICES ASSUME NEW h \in Guests, Live(h)
               PROVE  Cardinality(Picks(h)') + Cardinality(Unwritten(h)') <= Submitted(h)
    BY DEF PickInv, Picks, Unwritten, Submitted, Live
  <2>1. Cardinality(Picks(h)) + Cardinality(Unwritten(h)) <= Submitted(h)
    BY DEF VoteInv, PickInv
  <2>2. /\ IsFiniteSet(Picks(h)) /\ Cardinality(Picks(h)) \in Nat
        /\ IsFiniteSet(Unwritten(h)) /\ Cardinality(Unwritten(h)) \in Nat
    BY <1>1, FiniteRequests
  <2>3. Unwritten(h)' = Unwritten(h) \ {s}
    BY <1>1, IdleType DEF Unwritten, TypeInv
  <2>4. CASE counted /\ g = h
    <3>1. Picks(h)' = Picks(h) \cup {id}
      BY <1>2, <1>4, <2>4 DEF Picks
    <3>2. Cardinality(Picks(h)') = Cardinality(Picks(h)) + 1
      BY <1>3, <2>2, <3>1, FS_AddElement DEF Picks
    <3>3. Cardinality(Unwritten(h)') = Cardinality(Unwritten(h)) - 1
      BY <2>2, <2>3, <2>4, FS_RemoveElement
    <3>4. QED
      BY <1>1, <2>1, <2>2, <3>2, <3>3, SubmittedType
  <2>5. CASE ~(counted /\ g = h)
    <3>1. Picks(h)' = Picks(h)
      BY <1>2, <1>3, <1>4, <2>5 DEF Picks
    <3>2. Cardinality(Unwritten(h)') <= Cardinality(Unwritten(h)) /\ Cardinality(Unwritten(h)') \in Nat
      BY <2>2, <2>3, FS_Subset, FS_CardinalityType
    <3>3. QED
      BY <1>1, <2>1, <2>2, <3>1, <3>2, SubmittedType
  <2>6. QED
    BY <2>4, <2>5
<1>10. QED
  BY <1>5, <1>6, <1>7, <1>8, <1>9 DEF VoteInv

(* The guest was deleted meanwhile: nothing is written. *)
LEMMA InsertRequestKeeps ==
    ASSUME VoteInv, NEW s \in Sessions, InsertRequest(s)
    PROVE  VoteInv'
<1> DEFINE v == session[s]
<1>1. /\ v \in SessionType /\ v.op = "insert" /\ v.guest \in Guests /\ v.song \in Songs /\ v.counted \in BOOLEAN
      /\ session' = [session EXCEPT ![s] = Idle] /\ Release(s) /\ TypeInv
      /\ UNCHANGED <<votes, profiles, mergedInto, begun>>
  BY DEF InsertRequest, VoteInv, TypeInv, ReadInv, Commit, SessionType
<1>2. CASE UNCHANGED <<requests, created>>
  <2>1. /\ requests' = requests /\ requests \in [DOMAIN requests -> Rows]
        /\ votes' \subseteq (DOMAIN requests) \X Guests /\ IsFiniteSet(votes')
    BY <1>1, <1>2 DEF TypeInv, GuestRequestsTypeOK
  <2>2. CountMatchesVotes' /\ \A x \in votes' : Live(x[2])
    BY <1>1, <1>2 DEF VoteInv, CountMatchesVotes, VotesReachLiveGuests
  <2>3. \A j, h : HasVoted(j, h)' = HasVoted(j, h)
    BY <1>1 DEF HasVoted
  <2>4. QED
    BY <1>1, <1>2, <2>1, <2>2, <2>3, VoteCommitKeeps
<1>3. ASSUME NEW pick \in BOOLEAN, NewRequest(v.song, v.guest, pick, v.counted)
      PROVE  VoteInv'
  <2>1. v.counted = TRUE => s \in Unwritten(v.guest)
    BY <1>1 DEF Unwritten
  <2>2. begun' \in 0..MaxOps
    BY <1>1 DEF TypeInv, GuestRequestsTypeOK
  <2>3. lock' \in [Guests -> Sessions \cup {None}] /\ OthersLocked(s)
    BY <1>1, ReleaseKeeps DEF OthersLocked
  <2>4. v.guest \in Guests \cup {None} /\ UNCHANGED <<votes, profiles, mergedInto>>
    BY <1>1
  <2> HIDE DEF v
  <2>5. QED
    <3>1. v.song \in Songs /\ session' = [session EXCEPT ![s] = Idle]
      BY <1>1
    <3>2. \A p, c \in BOOLEAN :
             NewRequest(v.song, v.guest, p, c) /\ (c = TRUE => s \in Unwritten(v.guest)) => VoteInv'
      BY <2>2, <2>3, <2>4, <3>1, NewRequestKeeps
    <3>3. QED
      BY <1>1, <1>3, <2>1, <3>2
<1>4. QED
  BY <1>2, <1>3 DEF InsertRequest, MadeInCollection

\* A request of no guest counts for nobody's picks.
LEMMA AnonymousRequestKeeps ==
    ASSUME VoteInv, NEW s \in Sessions, NEW song \in Songs, AnonymousRequest(s, song)
    PROVE  VoteInv'
<1>1. /\ session' = [session EXCEPT ![s] = Idle] /\ UNCHANGED <<votes, profiles, mergedInto, lock>>
  BY DEF AnonymousRequest, Begin
<1>2. begun' \in 0..MaxOps /\ lock' \in [Guests -> Sessions \cup {None}]
  BY GuestRequestsAssumption DEF AnonymousRequest, Begin, VoteInv, TypeInv, GuestRequestsTypeOK
<1>3. PICK pick \in BOOLEAN : NewRequest(song, None, pick, FALSE)
  BY DEF AnonymousRequest, MadeInCollection
<1>4. OthersLocked(s)
  BY <1>1 DEF OthersLocked
<1>5. QED
  BY <1>1, <1>2, <1>3, <1>4, NewRequestKeeps

-------------------------------------------------------------------------------
(* Reviews and deletions *)

(* A step of the DJ or an admin that takes nobody's picks over. *)
LEMMA StaffKeeps ==
    ASSUME VoteInv, TypeInv', NEW s \in Sessions, NEW next \in SessionType,
           session' = [session EXCEPT ![s] = next], next.op \in {"idle", "review"},
           UNCHANGED <<created, lock>>, DOMAIN requests' \subseteq DOMAIN requests,
           \A u \in Sessions, g \in Guests : lock[g] = u /\ Live(g) =>
              /\ Live(g)' /\ profiles'[g] = profiles[g]
              /\ \A i : HasVoted(i, g) => HasVoted(i, g)' \/ i \notin DOMAIN requests',
           \A g \in Guests : Live(g)' =>
              Live(g) /\ Picks(g)' \subseteq Picks(g) /\ Submitted(g)' = Submitted(g),
           CountMatchesVotes', VotesReachLiveGuests'
    PROVE  VoteInv'
<1>1. LockInv' /\ ReadInv'
  <2>1. /\ created' \in Nat /\ created' >= created
        /\ \A i \in 1..created : i \in DOMAIN requests' => i \in DOMAIN requests
    BY GuestRequestsAssumption DEF VoteInv, TypeInv, GuestRequestsTypeOK
  <2>2. QED
    BY <2>1, OthersKeep
<1>2. PickInv'
  BY PicksKeep
<1>3. CapInv'
  <2> SUFFICES ASSUME Cap # 0 PROVE CapInv'
    BY DEF CapInv
  <2> PICK heir \in Heirs :
         \A g \in Guests : Live(g) => Submitted(g) <= Cap * Cardinality(Bequests(heir, g))
    BY DEF VoteInv, CapInv
  <2>1. heir \in Heirs' /\ \A g : Bequests(heir, g)' = Bequests(heir, g)
    BY DEF Heirs, Bequests
  <2>2. QED
    BY <2>1 DEF CapInv
<1>4. QED
  BY <1>1, <1>2, <1>3 DEF VoteInv

\* So does reading for a review,
LEMMA ReviewReadsKeep ==
    ASSUME VoteInv, NEW s \in Sessions, NEW ids \in SUBSET DOMAIN requests,
           NEW to \in {"new", "accepted", "rejected"}, ReviewReads(s, ids, to)
    PROVE  VoteInv'
<1> DEFINE next == [Idle EXCEPT !.op = "review", !.ids = ids, !.to = to]
<1>1. /\ session' = [session EXCEPT ![s] = next] /\ begun' \in 0..MaxOps /\ TypeInv
      /\ UNCHANGED <<requests, created, votes, profiles, mergedInto, lock>>
  BY GuestRequestsAssumption DEF ReviewReads, Begin, data, VoteInv, TypeInv, GuestRequestsTypeOK
<1>2. ids \in SUBSET Nat
  BY DEF VoteInv, TypeInv, GuestRequestsTypeOK
<1>3. next \in SessionType /\ next.op = "review"
  BY <1>2, IdleType DEF SessionType
<1> HIDE DEF next
<1>4. TypeInv'
  BY <1>1, <1>3 DEF TypeInv, GuestRequestsTypeOK, Live, Deleted, Survivor
<1>5. CountMatchesVotes' /\ VotesReachLiveGuests'
  BY <1>1 DEF VoteInv, CountMatchesVotes, VotesReachLiveGuests, Live
<1>6. QED
  BY <1>1, <1>3, <1>4, <1>5, StaffKeeps DEF Live, HasVoted, Picks, Submitted

\* and the commit that decides on what was read.
LEMMA ReviewCommitsKeep ==
    ASSUME VoteInv, NEW s \in Sessions, ReviewCommits(s)
    PROVE  VoteInv'
<1>1. /\ session' = [session EXCEPT ![s] = Idle] /\ TypeInv /\ session[s] \in SessionType
      /\ UNCHANGED <<created, votes, profiles, mergedInto, lock, begun>>
  BY DEF ReviewCommits, Done, VoteInv, TypeInv
<1>2. /\ DOMAIN requests' = DOMAIN requests /\ requests' \in [DOMAIN requests -> Rows]
      /\ \A i \in DOMAIN requests :
            /\ requests'[i].guest = requests[i].guest /\ requests'[i].counted = requests[i].counted
            /\ requests'[i].count = requests[i].count
            /\ requests'[i].anonymised = requests[i].anonymised
  <2>1. session[s].to \in {"new", "accepted", "rejected"}
    BY <1>1 DEF SessionType
  <2>2. QED
    BY <1>1, <2>1 DEF ReviewCommits, TypeInv, Rows
<1>3. TypeInv'
  <2>1. GuestRequestsTypeOK'
    BY <1>1, <1>2 DEF TypeInv, GuestRequestsTypeOK, Live, Deleted, Survivor
  <2>2. QED
    BY <1>1, <1>2, <2>1, IdleType DEF TypeInv
<1>4. CountMatchesVotes' /\ VotesReachLiveGuests'
  BY <1>1, <1>2 DEF VoteInv, CountMatchesVotes, VotesReachLiveGuests, Live
<1>5. QED
  BY <1>1, <1>2, <1>3, <1>4, IdleType, StaffKeeps DEF Live, HasVoted, Picks, Submitted

(* The votes of a request go with it, and only they. *)
LEMMA DeleteRequestsKeeps ==
    ASSUME VoteInv, NEW s \in Sessions, NEW ids \in SUBSET DOMAIN requests, DeleteRequests(s, ids)
    PROVE  VoteInv'
<1>1. /\ session' = [session EXCEPT ![s] = Idle] /\ begun' \in 0..MaxOps /\ TypeInv
      /\ requests' = [i \in DOMAIN requests \ ids |-> requests[i]]
      /\ votes' = {v \in votes : v[1] \notin ids}
      /\ UNCHANGED <<created, profiles, mergedInto, lock>>
  BY GuestRequestsAssumption DEF DeleteRequests, Begin, VoteInv, TypeInv, GuestRequestsTypeOK
<1>2. /\ DOMAIN requests' = DOMAIN requests \ ids /\ requests' \in [DOMAIN requests' -> Rows]
      /\ \A i \in DOMAIN requests' : requests'[i] = requests[i]
  BY <1>1 DEF TypeInv
<1>3. IsFiniteSet(votes')
  BY <1>1, FS_Subset DEF TypeInv
<1>4. TypeInv'
  <2>1. votes' \subseteq (DOMAIN requests') \X Guests
    BY <1>1, <1>2 DEF TypeInv, GuestRequestsTypeOK
  <2>2. GuestRequestsTypeOK'
    BY <1>1, <1>2, <2>1 DEF TypeInv, GuestRequestsTypeOK, Live, Deleted, Survivor
  <2>3. QED
    BY <1>1, <1>2, <1>3, <2>2, IdleType DEF TypeInv
<1>5. CountMatchesVotes'
  <2>1. \A i \in DOMAIN requests' : VotesFor(i)' = VotesFor(i)
    BY <1>1, <1>2 DEF VotesFor
  <2>2. QED
    BY <1>2, <2>1 DEF VoteInv, CountMatchesVotes, VotesFor
<1>6. VotesReachLiveGuests'
  BY <1>1 DEF VoteInv, VotesReachLiveGuests, Live
<1>7. \A i, g : HasVoted(i, g) => HasVoted(i, g)' \/ i \notin DOMAIN requests'
  BY <1>1, <1>2 DEF HasVoted
<1>8. \A g \in Guests : Live(g)' =>
         Live(g) /\ Picks(g)' \subseteq Picks(g) /\ Submitted(g)' = Submitted(g)
  BY <1>1, <1>2 DEF Live, Picks, Submitted
<1>9. QED
  BY <1>1, <1>2, <1>4, <1>5, <1>6, <1>7, <1>8, IdleType, StaffKeeps DEF Live

(* A guest's requests and votes outlive it, without it. *)
LEMMA DeleteGuestKeeps ==
    ASSUME VoteInv, NEW s \in Sessions, NEW g \in Guests, DeleteGuest(s, g)
    PROVE  VoteInv'
<1> DEFINE Gone(x) == x = g \/ mergedInto[x] = g
<1> DEFINE owner(i) == LET o == requests[i].guest IN IF o # None /\ Gone(o) THEN None ELSE o
<1> DEFINE votes0(i) == requests[i].anonymised + (IF HasVoted(i, g) THEN 1 ELSE 0)
<1>0. begun' \in 0..MaxOps
  <2>1. Begin(s, Idle)
    BY Zenon DEF DeleteGuest
  <2>2. QED
    BY <2>1, GuestRequestsAssumption DEF Begin, VoteInv, TypeInv, GuestRequestsTypeOK
<1>1. /\ session' = [session EXCEPT ![s] = Idle] /\ begun' \in 0..MaxOps /\ TypeInv /\ Free(g)
      /\ requests' = [i \in DOMAIN requests |->
                        [requests[i] EXCEPT !.guest = owner(i), !.anonymised = votes0(i)]]
      /\ votes' = {v \in votes : v[2] # g}
      /\ profiles' = [x \in Guests |-> IF Gone(x) THEN NoProfile ELSE profiles[x]]
      /\ mergedInto' = [x \in Guests |-> IF Gone(x) THEN x ELSE mergedInto[x]]
      /\ UNCHANGED <<created, lock>>
  BY <1>0 DEF DeleteGuest, Begin, VoteInv
<1>2. /\ DOMAIN requests' = DOMAIN requests /\ requests' \in [DOMAIN requests -> Rows]
      /\ \A i \in DOMAIN requests :
            /\ requests'[i].guest \in {None, requests[i].guest}
            /\ requests'[i].counted = requests[i].counted
            /\ requests'[i].count = requests[i].count
            /\ HasVoted(i, g) => requests'[i].anonymised = requests[i].anonymised + 1
            /\ ~HasVoted(i, g) => requests'[i].anonymised = requests[i].anonymised
  <2>1. ASSUME NEW i \in DOMAIN requests
        PROVE  /\ requests[i] \in Rows /\ requests[i].anonymised \in Nat
               /\ owner(i) \in {None, requests[i].guest} /\ requests[i].guest \in Guests \cup {None}
               /\ votes0(i) \in Nat
               /\ HasVoted(i, g) => votes0(i) = requests[i].anonymised + 1
               /\ ~HasVoted(i, g) => votes0(i) = requests[i].anonymised
    <3>1. /\ requests[i] \in Rows /\ requests[i].anonymised \in Nat
          /\ requests[i].guest \in Guests \cup {None}
      BY <1>1 DEF TypeInv, Rows
    <3>2. owner(i) \in {None, requests[i].guest}
      OBVIOUS
    <3>3. /\ HasVoted(i, g) => votes0(i) = requests[i].anonymised + 1
          /\ ~HasVoted(i, g) => votes0(i) = requests[i].anonymised + 0
      OBVIOUS
    <3> HIDE DEF owner, votes0
    <3>4. QED
      BY <3>1, <3>2, <3>3
  <2> HIDE DEF owner, votes0
  <2>2. QED
    BY <1>1, <2>1 DEF Rows
<1>3. \A x \in Guests : Live(x)' <=> Live(x) /\ ~Gone(x)
  BY <1>1, GuestRequestsAssumption DEF Live
<1>4. TypeInv'
  <2>1. \A x \in Guests : (Live(x) \/ Deleted(x) \/ Live(Survivor(x)))'
    <3> SUFFICES ASSUME NEW x \in Guests, ~Live(x)'
                 PROVE  Deleted(x)' \/ Live(Survivor(x))'
      OBVIOUS
    <3>1. CASE Gone(x)
      BY <1>1, <3>1 DEF Deleted
    <3>2. CASE ~Gone(x)
      BY <1>1, <1>3, <3>2, GuestRequestsAssumption DEF TypeInv, GuestRequestsTypeOK, Deleted, Live, Survivor
    <3>3. QED
      BY <3>1, <3>2
  <2>2. profiles' \in [Guests -> Nat \cup {NoProfile}]
    BY <1>1 DEF TypeInv, GuestRequestsTypeOK
  <2>3. GuestRequestsTypeOK'
    BY <1>1, <1>2, <2>1, <2>2 DEF TypeInv, GuestRequestsTypeOK
  <2>4. IsFiniteSet(votes')
    BY <1>1, FS_Subset DEF TypeInv
  <2>5. QED
    BY <1>1, <1>2, <2>3, <2>4, IdleType DEF TypeInv
<1>5. CountMatchesVotes'
  <2> SUFFICES ASSUME NEW i \in DOMAIN requests
               PROVE  requests'[i].count = requests'[i].anonymised + Cardinality(VotesFor(i)')
    BY <1>2 DEF CountMatchesVotes, VotesFor
  <2>1. requests[i].count = requests[i].anonymised + Cardinality(VotesFor(i))
    BY DEF VoteInv, CountMatchesVotes, VotesFor
  <2>2. requests[i].anonymised \in Nat
    BY <1>1 DEF TypeInv, Rows
  <2>3. VotesFor(i)' = VotesFor(i) \ {<<i, g>>}
    <3>1. VotesFor(i)' = {v \in votes : v[1] = i /\ v[2] # g}
      BY <1>1 DEF VotesFor
    <3>2. \A v \in votes : v = <<i, g>> <=> v[1] = i /\ v[2] = g
      BY <1>1, VoteIsPair
    <3>3. QED
      BY <3>1, <3>2 DEF VotesFor
  <2>4. CASE HasVoted(i, g)
    <3>1. <<i, g>> \in VotesFor(i)
      BY <2>4 DEF HasVoted, VotesFor
    <3>2. IsFiniteSet(VotesFor(i)) /\ Cardinality(VotesFor(i)) \in Nat
      BY <1>1, Counting
    <3>3. Cardinality(VotesFor(i)') = Cardinality(VotesFor(i)) - 1
      BY <2>3, <3>1, <3>2, FS_RemoveElement
    <3>4. requests'[i].count = requests[i].count /\ requests'[i].anonymised = requests[i].anonymised + 1
      BY <1>2, <2>4
    <3>5. QED
      BY <2>1, <2>2, <3>2, <3>3, <3>4
  <2>5. CASE ~HasVoted(i, g)
    <3>1. VotesFor(i)' = VotesFor(i)
      BY <2>3, <2>5 DEF HasVoted, VotesFor
    <3>2. QED
      BY <1>2, <2>1, <2>5, <3>1
  <2>6. QED
    BY <2>4, <2>5
<1>6. VotesReachLiveGuests'
  <2> SUFFICES ASSUME NEW v \in votes' PROVE Live(v[2])'
    BY DEF VotesReachLiveGuests
  <2>1. Live(v[2]) /\ v[2] # g /\ v[2] \in Guests
    BY <1>1 DEF VoteInv, VotesReachLiveGuests, TypeInv, GuestRequestsTypeOK
  <2>2. QED
    BY <1>3, <2>1, GuestRequestsAssumption DEF Live
<1>7. ASSUME NEW u \in Sessions, NEW x \in Guests, lock[x] = u, Live(x)
      PROVE  /\ Live(x)' /\ profiles'[x] = profiles[x]
             /\ \A i : HasVoted(i, x) => HasVoted(i, x)'
  <2>1. ~Gone(x)
    BY <1>1, <1>7, GuestRequestsAssumption DEF Free, Live
  <2>2. QED
    BY <1>1, <1>3, <1>7, <2>1 DEF HasVoted
<1>8. ASSUME NEW x \in Guests, Live(x)'
      PROVE  Live(x) /\ Picks(x)' \subseteq Picks(x) /\ Submitted(x)' = Submitted(x)
  <2>1. Live(x) /\ ~Gone(x) /\ x # None
    BY <1>3, <1>8, GuestRequestsAssumption
  <2>2. Picks(x)' \subseteq Picks(x)
    BY <1>2, <2>1 DEF Picks
  <2>3. QED
    BY <1>1, <2>1, <2>2 DEF Submitted
<1>9. QED
  BY <1>1, <1>2, <1>4, <1>5, <1>6, <1>7, <1>8, IdleType, StaffKeeps

-------------------------------------------------------------------------------
(* A merge *)

\* Caps add up.
LEMMA CapSum ==
    ASSUME NEW c \in Nat, NEW m \in Nat, NEW n \in Nat
    PROVE  c * (m + n) = c * m + c * n
BY SMT

\* Disjoint sets add up.
LEMMA SubsetSum ==
    ASSUME NEW S, NEW T, IsFiniteSet(S), IsFiniteSet(T), S \cap T = {}
    PROVE  /\ IsFiniteSet(S \cup T)
           /\ Cardinality(S \cup T) = Cardinality(S) + Cardinality(T)
<1>1. Cardinality(S \cap T) = 0
  BY FS_EmptySet
<1>2. Cardinality(S) \in Nat /\ Cardinality(T) \in Nat
  BY FS_CardinalityType
<1>3. /\ IsFiniteSet(S \cup T)
      /\ Cardinality(S \cup T) = Cardinality(S) + Cardinality(T) - Cardinality(S \cap T)
  BY FS_Union
<1>4. QED
  BY <1>1, <1>2, <1>3

(* The survivor takes over votes, picks, and the allowance that counted them. *)
LEMMA MergeGuestsKeeps ==
    ASSUME VoteInv, NEW s \in Sessions, NEW g \in Guests, NEW h \in Guests, MergeGuests(s, g, h)
    PROVE  VoteInv'
<1> DEFINE owner(i) == IF requests[i].guest = g THEN h ELSE requests[i].guest
<1> DEFINE Both(i) == HasVoted(i, g) /\ HasVoted(i, h)
<1> DEFINE fewer(i) == IF i \notin VotedOn(g) \cap VotedOn(h) THEN requests[i].count
                       ELSE IF requests[i].count > 0 THEN requests[i].count - 1 ELSE 0
<1>1. begun' \in 0..MaxOps
  <2>1. Begin(s, Idle)
    BY DEF MergeGuests
  <2>2. QED
    BY <2>1, GuestRequestsAssumption DEF Begin, VoteInv, TypeInv, GuestRequestsTypeOK
<1>2. /\ TypeInv /\ g # h /\ Live(g) /\ Live(h) /\ Free(g) /\ Free(h)
      /\ session' = [session EXCEPT ![s] = Idle] /\ session[s] = Idle
      /\ requests' = [i \in DOMAIN requests |->
                        [requests[i] EXCEPT !.guest = owner(i), !.count = fewer(i)]]
      /\ votes' = MergedVotes(g, h)
      /\ profiles' = [profiles EXCEPT ![h] = MergedProfile(g, h), ![g] = NoProfile]
      /\ mergedInto' = Forwarded(g, h)
      /\ UNCHANGED <<created, lock>>
  BY DEF MergeGuests, MergedRequests, Begin, VoteInv
<1>3. \A x \in Guests : Live(x)' <=> Live(x) /\ x # g
  BY <1>2, GuestRequestsAssumption DEF Live, Forwarded, TypeInv
<1>4. \A i \in DOMAIN requests : VotesFor(i)' =
          IF HasVoted(i, g) THEN (VotesFor(i) \ {<<i, g>>}) \cup {<<i, h>>} ELSE VotesFor(i)
  <2> SUFFICES ASSUME NEW i \in DOMAIN requests
               PROVE  VotesFor(i)' =
                         IF HasVoted(i, g) THEN (VotesFor(i) \ {<<i, g>>}) \cup {<<i, h>>} ELSE VotesFor(i)
    OBVIOUS
  <2>1. i \in Ids
    BY <1>2, IdsSuffice
  <2>2. VotesFor(i)' = {v \in votes : v[1] = i /\ v[2] # g}
                         \cup {<<j, h>> : j \in {k \in {i} : HasVoted(k, g)}}
    <3>1. VotesFor(i)' = {v \in MergedVotes(g, h) : v[1] = i}
      BY <1>2 DEF VotesFor
    <3>2. QED
      BY <2>1, <3>1 DEF MergedVotes, VotedOn
  <2>3. \A v \in votes : v = <<i, g>> <=> v[1] = i /\ v[2] = g
    BY <1>2, VoteIsPair
  <2>4. {v \in votes : v[1] = i /\ v[2] # g} = VotesFor(i) \ {<<i, g>>}
    BY <2>3 DEF VotesFor
  <2>5. ~HasVoted(i, g) => <<i, g>> \notin VotesFor(i)
    BY DEF HasVoted, VotesFor
  <2>6. QED
    BY <2>2, <2>4, <2>5
<1>5. ASSUME NEW i \in DOMAIN requests
      PROVE  /\ requests[i] \in Rows /\ requests[i].count \in Nat /\ requests[i].anonymised \in Nat
             /\ owner(i) \in Guests \cup {None} /\ fewer(i) \in Nat
             /\ Both(i) => fewer(i) = requests[i].count - 1
             /\ ~Both(i) => fewer(i) = requests[i].count
  <2>1. requests[i] \in Rows /\ requests[i].count \in Nat /\ requests[i].anonymised \in Nat
        /\ owner(i) \in Guests \cup {None}
    BY <1>2 DEF TypeInv, Rows
  <2>2. i \in VotedOn(g) \cap VotedOn(h) <=> Both(i)
    BY <1>2, IdsSuffice DEF VotedOn
  <2>3. Both(i) => requests[i].count > 0
    <3>1. requests[i].count = requests[i].anonymised + Cardinality(VotesFor(i))
      BY DEF VoteInv, CountMatchesVotes, VotesFor
    <3>2. Both(i) => Cardinality(VotesFor(i)) > 0
      BY <1>2, Counting
    <3>3. Cardinality(VotesFor(i)) \in Nat
      BY <1>2, Counting
    <3> HIDE DEF Both
    <3>4. QED
      BY <2>1, <3>1, <3>2, <3>3
  <2> HIDE DEF Both, owner
  <2>4. QED
    BY <2>1, <2>2, <2>3
<1> HIDE DEF owner, fewer
<1>6. /\ DOMAIN requests' = DOMAIN requests /\ requests' \in [DOMAIN requests -> Rows]
      /\ \A i \in DOMAIN requests :
            /\ requests'[i].guest = owner(i) /\ requests'[i].counted = requests[i].counted
            /\ requests'[i].count = fewer(i)
            /\ requests'[i].anonymised = requests[i].anonymised
  BY <1>2, <1>5 DEF Rows
<1>7. IsFiniteSet(votes') /\ votes' \subseteq (DOMAIN requests) \X Guests
  <2>1. VotedOn(g) \subseteq DOMAIN requests
    <3>1. votes \subseteq (DOMAIN requests) \X Guests
      BY <1>2 DEF TypeInv, GuestRequestsTypeOK
    <3>2. ASSUME NEW i \in VotedOn(g) PROVE i \in DOMAIN requests
      <4>1. <<i, g>> \in (DOMAIN requests) \X Guests
        BY <3>1 DEF VotedOn, HasVoted
      <4>2. QED
        BY <4>1
    <3>3. QED
      BY <3>2
  <2>2. votes' \subseteq (DOMAIN requests) \X Guests
    <3>1. votes \subseteq (DOMAIN requests) \X Guests
      BY <1>2 DEF TypeInv, GuestRequestsTypeOK
    <3>2. \A i \in VotedOn(g) : <<i, h>> \in (DOMAIN requests) \X Guests
      BY <2>1
    <3>3. votes' \subseteq votes \cup {<<i, h>> : i \in VotedOn(g)}
      BY <1>2 DEF MergedVotes
    <3>4. QED
      BY <3>1, <3>2, <3>3
  <2>3. IsFiniteSet(DOMAIN requests)
    <3>1. MaxRequests \in Int
      BY GuestRequestsAssumption
    <3>2. IsFiniteSet(Ids)
      BY <3>1, FS_Interval DEF Ids
    <3>3. QED
      BY <1>2, <3>2, IdsSuffice, FS_Subset
  <2>4. IsFiniteSet((DOMAIN requests) \X Guests)
    BY <2>3, GuestRequestsFinite, FS_Product
  <2>5. QED
    BY <2>2, <2>4, FS_Subset
<1>8. /\ profiles' \in [Guests -> Nat \cup {NoProfile}]
      /\ \A x \in Guests : x \notin {g, h} => profiles'[x] = profiles[x]
      /\ profiles'[h] \in {Submitted(g) + Submitted(h), NoProfile}
      /\ profiles'[h] = NoProfile => Submitted(g) = 0 /\ Submitted(h) = 0
  <2>1. profiles[g] \in Nat \cup {NoProfile} /\ profiles[h] \in Nat \cup {NoProfile}
    BY <1>2 DEF TypeInv, GuestRequestsTypeOK
  <2>2. /\ MergedProfile(g, h) \in Nat \cup {NoProfile}
        /\ MergedProfile(g, h) \in {Submitted(g) + Submitted(h), NoProfile}
        /\ MergedProfile(g, h) = NoProfile => Submitted(g) = 0 /\ Submitted(h) = 0
    <3>1. CASE profiles[g] = NoProfile
      BY <2>1, <3>1 DEF MergedProfile, Submitted, NoProfile
    <3>2. CASE profiles[g] \in Nat /\ profiles[h] = NoProfile
      BY <2>1, <3>2 DEF MergedProfile, Submitted, NoProfile
    <3>3. CASE profiles[g] \in Nat /\ profiles[h] \in Nat
      <4>1. MergedProfile(g, h) = profiles[g] + profiles[h]
        BY <3>3 DEF MergedProfile, NoProfile
      <4>2. Submitted(g) = profiles[g] /\ Submitted(h) = profiles[h]
        BY <3>3 DEF Submitted, NoProfile
      <4>3. QED
        BY <3>3, <4>1, <4>2 DEF NoProfile
    <3>4. QED
      BY <2>1, <3>1, <3>2, <3>3
  <2>3. /\ profiles' \in [Guests -> Nat \cup {NoProfile}]
        /\ \A x \in Guests : x \notin {g, h} => profiles'[x] = profiles[x]
        /\ profiles'[h] = MergedProfile(g, h)
    BY <1>2, <2>2 DEF TypeInv, GuestRequestsTypeOK
  <2>4. QED
    BY <2>2, <2>3
<1>9. TypeInv'
  <2>1. \A x \in Guests : (Live(x) \/ Deleted(x) \/ Live(Survivor(x)))'
    <3> SUFFICES ASSUME NEW x \in Guests, ~Live(x)'
                 PROVE  Deleted(x)' \/ Live(Survivor(x))'
      OBVIOUS
    <3>1. Live(h)'
      BY <1>2, <1>3
    <3>2. CASE x = g \/ mergedInto[x] = g
      BY <1>2, <3>1, <3>2 DEF Forwarded, Survivor, Live
    <3>3. CASE x # g /\ mergedInto[x] # g
      <4>1. mergedInto'[x] = mergedInto[x] /\ mergedInto[x] \in Guests
        BY <1>2, <1>3, <3>3 DEF Forwarded, TypeInv, Live
      <4>2. CASE mergedInto[x] = x
        BY <4>1, <4>2 DEF Deleted
      <4>3. CASE mergedInto[x] # x
        <5>1. Live(mergedInto[x])
          BY <1>2, <3>3, <4>1, <4>3, GuestRequestsAssumption
            DEF TypeInv, GuestRequestsTypeOK, Deleted, Live, Survivor
        <5>2. Live(mergedInto[x])'
          BY <1>3, <3>3, <4>1, <5>1
        <5>3. QED
          BY <4>1, <5>2, GuestRequestsAssumption DEF Survivor, Live
      <4>4. QED
        BY <4>2, <4>3
    <3>4. QED
      BY <3>2, <3>3
  <2>2. GuestRequestsTypeOK'
    BY <1>1, <1>2, <1>6, <1>7, <1>8, <2>1 DEF TypeInv, GuestRequestsTypeOK
  <2>3. mergedInto' \in [Guests -> Guests \cup {None}]
    BY <1>2 DEF Forwarded, TypeInv
  <2>4. QED
    BY <1>2, <1>6, <1>7, <2>2, <2>3, IdleType DEF TypeInv
<1>10. LockInv' /\ ReadInv'
  <2>1. ASSUME NEW u \in Sessions \ {s}, NEW x \in Guests, lock[x] = u, Live(x)
        PROVE  /\ lock'[x] = u /\ Live(x)' /\ profiles'[x] = profiles[x]
               /\ \A i : HasVoted(i, x) => HasVoted(i, x)'
    <3>1. x \notin {g, h}
      BY <1>2, <2>1, GuestRequestsAssumption DEF Free
    <3>2. \A i : HasVoted(i, x) => HasVoted(i, x)'
      BY <1>2, <3>1 DEF HasVoted, MergedVotes
    <3>3. QED
      BY <1>2, <1>3, <1>8, <2>1, <3>1, <3>2
  <2>2. TypeInv /\ created' = created /\ session' = [session EXCEPT ![s] = Idle]
        /\ DOMAIN requests' = DOMAIN requests
    BY <1>2, <1>6
  <2>3. /\ created' \in Nat /\ created' >= created
        /\ \A i \in 1..created : i \in DOMAIN requests' => i \in DOMAIN requests
    BY <2>2, CreatedType
  <2>4. QED
    <3>1. \A u \in Sessions \ {s}, x \in Guests : lock[x] = u /\ Live(x) =>
             /\ lock'[x] = u /\ Live(x)'
             /\ profiles'[x] = profiles[x]
             /\ \A i : HasVoted(i, x) => HasVoted(i, x)' \/ i \notin DOMAIN requests'
      BY <2>1
    <3>2. QED
      BY <2>2, <2>3, <3>1, IdleType, OthersKeep
<1>11. CountMatchesVotes'
  <2> SUFFICES ASSUME NEW i \in DOMAIN requests
               PROVE  requests'[i].count = requests'[i].anonymised + Cardinality(VotesFor(i)')
    BY <1>6 DEF CountMatchesVotes, VotesFor
  <2>1. requests[i].count = requests[i].anonymised + Cardinality(VotesFor(i))
    BY DEF VoteInv, CountMatchesVotes, VotesFor
  <2>2. IsFiniteSet(VotesFor(i)) /\ Cardinality(VotesFor(i)) \in Nat
    BY <1>2, Counting
  <2>3. \A x : <<i, x>> \in VotesFor(i) <=> HasVoted(i, x)
    BY DEF VotesFor, HasVoted
  <2>4. CASE HasVoted(i, g)
    <3> DEFINE rest == VotesFor(i) \ {<<i, g>>}
    <3>1. VotesFor(i)' = rest \cup {<<i, h>>}
      BY <1>4, <2>4
    <3>2. IsFiniteSet(rest) /\ Cardinality(rest) = Cardinality(VotesFor(i)) - 1
      BY <2>2, <2>3, <2>4, FS_RemoveElement
    <3>3. <<i, h>> \in rest <=> HasVoted(i, h)
      BY <1>2, <2>3
    <3> HIDE DEF rest
    <3>4. CASE HasVoted(i, h)
      <4>1. VotesFor(i)' = rest
        BY <3>1, <3>3, <3>4
      <4>2. fewer(i) = requests[i].count - 1
        BY <1>5, <2>4, <3>4
      <4>3. QED
        BY <1>5, <1>6, <2>1, <2>2, <3>2, <4>1, <4>2
    <3>5. CASE ~HasVoted(i, h)
      <4>1. Cardinality(VotesFor(i)') = Cardinality(rest) + 1
        BY <3>1, <3>2, <3>3, <3>5, FS_AddElement
      <4>2. fewer(i) = requests[i].count
        BY <1>5, <3>5
      <4>3. QED
        BY <1>5, <1>6, <2>1, <2>2, <3>2, <4>1, <4>2
    <3>6. QED
      BY <3>4, <3>5
  <2>5. CASE ~HasVoted(i, g)
    <3>1. VotesFor(i)' = VotesFor(i) /\ fewer(i) = requests[i].count
      BY <1>4, <1>5, <2>5
    <3>2. QED
      BY <1>6, <2>1, <3>1
  <2>6. QED
    BY <2>4, <2>5
<1>12. VotesReachLiveGuests'
  <2> SUFFICES ASSUME NEW v \in votes' PROVE Live(v[2])'
    BY DEF VotesReachLiveGuests
  <2>1. CASE v \in votes /\ v[2] # g
    BY <1>2, <1>3, <2>1, VoteIsPair DEF VoteInv, VotesReachLiveGuests
  <2>2. CASE v[2] = h
    BY <1>2, <1>3, <2>2
  <2>3. QED
    <3>1. v \in {x \in votes : x[2] # g} \/ \E i \in VotedOn(g) : v = <<i, h>>
      BY <1>2 DEF MergedVotes
    <3>2. QED
      BY <2>1, <2>2, <3>1
<1>13. Submitted(h)' = Submitted(g) + Submitted(h)
       /\ \A x \in Guests : x \notin {g, h} => Submitted(x)' = Submitted(x)
  <2>1. Submitted(g) \in Nat /\ Submitted(h) \in Nat
    BY <1>2, SubmittedType
  <2>2. CASE profiles'[h] = NoProfile
    BY <1>8, <2>1, <2>2 DEF Submitted
  <2>3. CASE profiles'[h] # NoProfile
    BY <1>8, <2>1, <2>3 DEF Submitted
  <2>4. \A x \in Guests : x \notin {g, h} => Submitted(x)' = Submitted(x)
    BY <1>8 DEF Submitted
  <2>5. QED
    BY <2>2, <2>3, <2>4
<1>14. PickInv'
  <2> SUFFICES ASSUME NEW x \in Guests, Live(x)'
               PROVE  Cardinality(Picks(x)') + Cardinality(Unwritten(x)') <= Submitted(x)'
    BY DEF PickInv, Picks, Unwritten, Submitted
  <2>1. Live(x) /\ x # g /\ x # None
    BY <1>3, GuestRequestsAssumption
  <2>2. session' = session
    BY <1>2 DEF TypeInv
  <2>3. \A y : Unwritten(y)' = Unwritten(y)
    BY <2>2 DEF Unwritten
  <2>4. \A y \in {g, h, x} :
           /\ Cardinality(Picks(y)) + Cardinality(Unwritten(y)) <= Submitted(y)
           /\ IsFiniteSet(Picks(y)) /\ Cardinality(Picks(y)) \in Nat
           /\ Cardinality(Unwritten(y)) \in Nat /\ Submitted(y) \in Nat
    BY <1>2, <2>1, FiniteRequests, SubmittedType DEF VoteInv, PickInv
  <2>5. CASE x = h
    <3>1. Picks(h)' = Picks(g) \cup Picks(h)
      BY <1>2, <1>6 DEF Picks, owner
    <3>2. Picks(g) \cap Picks(h) = {}
      BY <1>2 DEF Picks
    <3>3. Cardinality(Picks(h)') = Cardinality(Picks(g)) + Cardinality(Picks(h))
      BY <2>4, <3>1, <3>2, SubsetSum
    <3>4. QED
      BY <1>13, <2>3, <2>4, <2>5, <3>3
  <2>6. CASE x # h
    <3>1. Picks(x)' = Picks(x)
      BY <1>6, <2>1, <2>6 DEF Picks, owner
    <3>2. QED
      BY <1>13, <2>1, <2>3, <2>4, <2>6, <3>1
  <2>7. QED
    BY <2>5, <2>6
<1>15. CapInv'
  <2> SUFFICES ASSUME Cap # 0 PROVE CapInv'
    BY DEF CapInv
  <2> PICK heir \in Heirs :
         \A x \in Guests : Live(x) => Submitted(x) <= Cap * Cardinality(Bequests(heir, x))
    BY DEF VoteInv, CapInv
  <2> DEFINE after == [x \in Guests |-> IF heir[x] = g THEN h ELSE heir[x]]
  <2>1. after \in Heirs'
    BY <1>3 DEF Heirs
  <2>2. Bequests(after, h) = Bequests(heir, g) \cup Bequests(heir, h)
        /\ Bequests(heir, g) \cap Bequests(heir, h) = {}
        /\ \A x \in Guests \ {g, h} : Bequests(after, x) = Bequests(heir, x)
    BY <1>2 DEF Bequests
  <2> HIDE DEF after
  <2> SUFFICES ASSUME NEW x \in Guests, Live(x)'
               PROVE  Submitted(x)' <= Cap * Cardinality(Bequests(after, x))
    BY <2>1 DEF CapInv, Bequests
  <2>3. CASE x = h
    <3> DEFINE m == Cardinality(Bequests(heir, g))
    <3> DEFINE n == Cardinality(Bequests(heir, h))
    <3>1. m \in Nat /\ n \in Nat /\ Cardinality(Bequests(after, h)) = m + n
      BY <1>2, <2>2, BequestsGrow, SubsetSum
    <3>2. Submitted(g) <= Cap * m /\ Submitted(h) <= Cap * n
      BY <1>2
    <3> HIDE DEF m, n
    <3>3. Cap \in Nat /\ Submitted(g) \in Nat /\ Submitted(h) \in Nat
      BY <1>2, SubmittedType, GuestRequestsAssumption
    <3>4. Cap * (m + n) = Cap * m + Cap * n /\ Cap * m \in Nat /\ Cap * n \in Nat
      BY <3>1, <3>3, CapSum
    <3>5. Submitted(g) + Submitted(h) <= Cap * m + Cap * n
      BY <3>2, <3>3, <3>4
    <3>6. QED
      BY <1>13, <2>3, <3>1, <3>4, <3>5
  <2>4. CASE x # h
    BY <1>3, <1>13, <2>2, <2>4
  <2>5. QED
    BY <2>3, <2>4
<1>16. QED
  BY <1>9, <1>10, <1>11, <1>12, <1>14, <1>15 DEF VoteInv

-------------------------------------------------------------------------------
(* The invariant *)

\* VoteInv holds in the initial state.
LEMMA InitHolds == Init => VoteInv
<1> SUFFICES ASSUME Init PROVE VoteInv
  OBVIOUS
<1>1. DOMAIN requests = {} /\ votes = {} /\ created = 0 /\ begun = 0
  BY DEF Init
<1>2. IsFiniteSet(votes)
  BY <1>1, FS_EmptySet
<1>3. TypeInv
  <2>1. /\ requests \in [DOMAIN requests -> Rows]
        /\ mergedInto \in [Guests -> Guests \cup {None}] /\ lock \in [Guests -> Sessions \cup {None}]
        /\ profiles \in [Guests -> Nat \cup {NoProfile}]
        /\ session \in [Sessions -> SessionType]
    BY IdleType DEF Init
  <2>2. GuestRequestsTypeOK
    BY <1>1, <2>1, GuestRequestsAssumption DEF Init, GuestRequestsTypeOK, Live
  <2>3. QED
    BY <1>2, <2>1, <2>2 DEF TypeInv
<1>4. LockInv /\ ReadInv
  BY IdleType DEF Init, LockInv, ReadInv
<1>5. CountMatchesVotes /\ VotesReachLiveGuests
  BY <1>1 DEF CountMatchesVotes, VotesReachLiveGuests
<1>6. \A g \in Guests : Submitted(g) = 0
  BY DEF Init, Submitted
<1>7. PickInv
  <2>1. \A g : Picks(g) = {}
    BY <1>1 DEF Picks
  <2>2. \A g : Unwritten(g) = {}
    BY IdleType DEF Init, Unwritten
  <2>3. QED
    BY <1>6, <2>1, <2>2, FS_EmptySet DEF PickInv
<1>8. CapInv
  <2> DEFINE heir == [g \in Guests |-> g]
  <2>1. heir \in Heirs
    BY DEF Heirs
  <2>2. ASSUME NEW g \in Guests
        PROVE  Submitted(g) <= Cap * Cardinality(Bequests(heir, g))
    <3>1. Live(g)
      BY DEF Init, Live
    <3> HIDE DEF heir
    <3>2. Cap * Cardinality(Bequests(heir, g)) \in Nat
      BY <2>1, <3>1, BequestsGrow, GuestRequestsAssumption
    <3>3. QED
      BY <1>6, <3>2
  <2> HIDE DEF heir
  <2>3. QED
    BY <2>1, <2>2 DEF CapInv
<1>9. QED
  BY <1>3, <1>4, <1>5, <1>7, <1>8 DEF VoteInv

\* VoteInv is inductive.
LEMMA NextKeeps == VoteInv /\ [Next]_vars => VoteInv'
<1> SUFFICES ASSUME VoteInv, [Next]_vars PROVE VoteInv'
  OBVIOUS
<1>1. CASE UNCHANGED vars
  BY <1>1 DEF vars, VoteInv, TypeInv, GuestRequestsTypeOK, Live, Deleted, Survivor, LockInv, ReadInv,
     HasVoted, WithinCap, CountMatchesVotes, VotesReachLiveGuests, PickInv, Picks, Unwritten, Submitted,
     CapInv, Heirs, Bequests
<1>2. ASSUME NEW s \in Sessions, GuestStep(s) PROVE VoteInv'
  <2>1. CASE AddVote(s)
    BY <2>1, AddVoteKeeps
  <2>2. CASE RemoveVote(s)
    BY <2>2, RemoveVoteKeeps
  <2>3. CASE InsertRequest(s)
    BY <2>3, InsertRequestKeeps
  <2>4. CASE PickCounts(s)
    BY <2>4, PickCountsKeeps
  <2>5. CASE PickNames(s)
    BY <2>5, PickNamesKeeps
  <2>6. CASE \E g \in Guests, i \in DOMAIN requests, op \in {"vote", "unvote"} : VoteReads(s, g, i, op)
    BY <2>6, VoteReadsKeep
  <2>7. CASE \E g \in Guests, song \in Songs : RequestReads(s, g, song) \/ PickReads(s, g, song)
    BY <2>7, RequestReadsKeep, PickReadsKeep
  <2>8. CASE \E song \in Songs : AnonymousRequest(s, song)
    BY <2>8, AnonymousRequestKeeps
  <2>9. QED
    BY <1>2, <2>1, <2>2, <2>3, <2>4, <2>5, <2>6, <2>7, <2>8 DEF GuestStep
<1>3. ASSUME NEW s \in Sessions, StaffStep(s) PROVE VoteInv'
  <2>1. CASE \E g, h \in Guests : MergeGuests(s, g, h)
    BY <2>1, MergeGuestsKeeps
  <2>2. CASE \E g \in Guests : DeleteGuest(s, g)
    BY <2>2, DeleteGuestKeeps
  <2>3. CASE \E ids \in SUBSET DOMAIN requests, to \in {"new", "accepted", "rejected"} : ReviewReads(s, ids, to)
    BY <2>3, ReviewReadsKeep
  <2>4. CASE \E ids \in SUBSET DOMAIN requests : DeleteRequests(s, ids)
    BY <2>4, DeleteRequestsKeeps
  <2>5. CASE ReviewCommits(s)
    BY <2>5, ReviewCommitsKeep
  <2>6. QED
    BY <1>3, <2>1, <2>2, <2>3, <2>4, <2>5 DEF StaffStep
<1>4. QED
  BY <1>1, <1>2, <1>3 DEF Next

(* Votes, counts, locks, reads, picks and allowances agree in every reachable *)
(* state, whatever requests, merges, deletions and reviews overlap.           *)
THEOREM VotesAndPicksAgree == Spec => []VoteInv
<1>1. Init => VoteInv
  BY InitHolds
<1>2. VoteInv /\ [Next]_vars => VoteInv'
  BY NextKeeps
<1>3. QED
  BY <1>1, <1>2, PTL DEF Spec

(* Rows, profiles, tombstones and locks keep their types, and a tombstone is  *)
(* one hop from a live guest (guest_merge.py:186-192).                        *)
THEOREM GuestRequestsTypes == Spec => []GuestRequestsTypeOK
<1>1. VoteInv => GuestRequestsTypeOK
  BY DEF VoteInv, TypeInv
<1>2. QED
  BY <1>1, VotesAndPicksAgree, PTL

(* vote_count is the number of votes (vote.py:54-73 and 97-114,               *)
(* guest_merge.py:124-144).                                                   *)
THEOREM CountsMatchVotes == Spec => []CountMatchesVotes
<1>1. VoteInv => CountMatchesVotes
  BY DEF VoteInv
<1>2. QED
  BY <1>1, VotesAndPicksAgree, PTL

(* Every vote with a guest is a live guest's, so its owner can take it back   *)
(* (rate_limit.py:117).                                                       *)
THEOREM VotesReachTheLiving == Spec => []VotesReachLiveGuests
<1>1. VoteInv => VotesReachLiveGuests
  BY DEF VoteInv
<1>2. QED
  BY <1>1, VotesAndPicksAgree, PTL

(* A live guest's picks through POST /collect are all counted, within the     *)
(* caps of the guests that may have become one: the heir's bequests are among *)
(* them                                                                       *)
(* (services/collect.py:283-313, guest_merge.py:146-165).                     *)
THEOREM PicksAreBounded == Spec => []PicksAreCounted
<1>1. VoteInv => PicksAreCounted
  <2> SUFFICES ASSUME VoteInv, NEW g \in Guests, Live(g)
               PROVE  /\ Cardinality(Picks(g)) <= Submitted(g)
                      /\ Cap # 0 => profiles[g] <= Cap * Cardinality({x \in Guests : x = g \/ ~Live(x)})
    BY DEF PicksAreCounted, Picks, Submitted
  <2>1. TypeInv /\ Submitted(g) \in Nat
    BY SubmittedType DEF VoteInv
  <2>2. Cardinality(Picks(g)) <= Submitted(g)
    <3>1. Cardinality(Picks(g)) \in Nat /\ Cardinality(Unwritten(g)) \in Nat
      BY <2>1, FiniteRequests
    <3>2. Cardinality(Picks(g)) + Cardinality(Unwritten(g)) <= Submitted(g)
      BY DEF VoteInv, PickInv
    <3>3. QED
      BY <2>1, <3>1, <3>2
  <2>3. ASSUME Cap # 0
        PROVE  profiles[g] <= Cap * Cardinality({x \in Guests : x = g \/ ~Live(x)})
    <3> DEFINE merged == {x \in Guests : x = g \/ ~Live(x)}
    <3> PICK heir \in Heirs : Submitted(g) <= Cap * Cardinality(Bequests(heir, g))
      BY <2>3 DEF VoteInv, CapInv
    <3>1. Bequests(heir, g) \in SUBSET merged
      BY DEF Bequests, Heirs
    <3>2. IsFiniteSet(merged)
      BY GuestRequestsFinite, FS_Subset
    <3>3. Cardinality(Bequests(heir, g)) \in Nat /\ Cardinality(merged) \in Nat
          /\ Cardinality(Bequests(heir, g)) <= Cardinality(merged)
      BY <3>1, <3>2, FS_Subset, FS_CardinalityType
    <3> HIDE DEF merged
    <3>4. Cap \in Nat
      BY GuestRequestsAssumption
    <3>5. /\ Cap * Cardinality(Bequests(heir, g)) <= Cap * Cardinality(merged)
          /\ Cap * Cardinality(Bequests(heir, g)) \in Nat /\ Cap * Cardinality(merged) \in Nat
      BY <3>3, <3>4, CapTimes
    <3>6. profiles[g] <= Submitted(g) /\ profiles[g] \in Int
      BY <2>1 DEF Submitted, NoProfile, TypeInv, GuestRequestsTypeOK
    <3>7. QED
      BY <2>1, <3>5, <3>6 DEF merged
  <2>4. QED
    BY <2>2, <2>3
<1>2. QED
  BY <1>1, VotesAndPicksAgree, PTL
=============================================================================

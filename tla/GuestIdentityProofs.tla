------------------------- MODULE GuestIdentityProofs -------------------------
(* Proofs about GuestIdentity, for any number of devices, addresses, guests   *)
(* and requests served at once.  IdentityInv is inductive and implies every   *)
(* invariant that the run checks.  Its parts:                                 *)
(*   RowInv   rows have their types, tombstones forward to live guests, what  *)
(*            is owned belongs to live guests, and picks to rows;             *)
(*   TxGood   what one transaction knows in each phase: above all, that the   *)
(*            rows it has been granted are still there and still as it needs  *)
(*            them, because it holds their locks;                             *)
(*   PairInv  no two transactions hold one row, or one e-mail.                *)
EXTENDS GuestIdentity, FiniteSetTheorems, TLAPS

---------------------------------------------------------------------------
(* The inductive invariant *)

Known == 1..created \cup {None}

TxType == [op : {"idle", "identify", "write", "pick", "ask", "confirm", "delete"},
           at : {"end", "walk", "resolved", "judge", "create", "pick", "advisory", "claim",
                 "merge", "scrub", "drop"},
           device : Devices \cup {None}, token : Tokens \cup {None}, email : Emails \cup {None},
           guest : Ids \cup {None}, target : Ids \cup {None}, wanted : SUBSET Ids,
           round : Nat, todo : SUBSET Ids, held : SUBSET Ids]

(* Ids are never given out again, so a row that was gone when its lock was *)
(* granted stays gone.                                                     *)
TxGood(x) ==
    /\ x \in TxType
    /\ x.guest \in Known /\ x.target \in Known
    /\ x.wanted \subseteq 1..created /\ x.todo \subseteq 1..created
    /\ x.held \subseteq DOMAIN guests
    /\ x.op \in {"ask", "confirm"} => x.email # None
    /\ x.at \in {"advisory", "claim", "merge"} => x.email # None /\ x.guest # None
    /\ x.at = "claim" => ~HasOther(x.guest, x.email)
    /\ x.at = "merge" => x.target # None /\ x.guest \in x.wanted
    /\ x.at \in {"walk", "merge"} => x.wanted \cap DOMAIN guests \subseteq x.held \cup x.todo
    /\ x.at = "resolved" /\ x.guest # None =>
          x.guest \in x.held /\ Live(x.guest) /\ x.token \in Tokens
    /\ x.at = "scrub" => x.guest # None /\ (x.guest \in DOMAIN guests => x.guest \in x.held \cup x.todo)
    /\ x.at = "drop" => x.guest \in x.held /\ Tombstones(x.guest) \subseteq x.held \cup x.todo

RowInv ==
    /\ created \in 2..MaxGuests
    /\ DOMAIN guests \subseteq 1..created
    /\ guests \in [DOMAIN guests -> Row]
    /\ owners \subseteq Ids /\ picks \subseteq DOMAIN guests
    /\ cookie \in [Devices -> Tokens \cup {None}]
    /\ TombstonesForward
    /\ OwnersAreLive

Deciding(x) == x.at \in {"merge", "claim"}

PairInv ==
    \A t, u \in Transactions : t # u =>
        /\ tx[t].held \cap tx[u].held = {}
        /\ Deciding(tx[t]) /\ Deciding(tx[u]) => tx[t].email # tx[u].email

IdentityInv ==
    /\ tx \in [Transactions -> TxType]
    /\ begun \in 0..MaxOps
    /\ RowInv
    /\ \A t \in Transactions, x \in TxType : x = tx[t] => TxGood(x)
    /\ PairInv

---------------------------------------------------------------------------
(* Records and what is kept *)

(* The constants, as the proofs use them. *)
LEMMA ConstantFacts ==
    /\ MaxGuests \in Nat /\ MaxGuests >= 2 /\ MaxOps \in Nat /\ MaxRotations \in Nat
    /\ None \notin Nat /\ None \notin Ids
    /\ None \notin Emails /\ None \notin Devices /\ None \notin Transactions
  BY GuestIdentityAssumption DEF Ids

(* An idle transaction knows nothing. *)
LEMMA IdleType ==
    /\ Idle \in TxType
    /\ Idle.op = "idle" /\ Idle.at = "end" /\ Idle.device = None /\ Idle.token = None
    /\ Idle.email = None /\ Idle.guest = None /\ Idle.target = None /\ Idle.wanted = {}
    /\ Idle.round = 0 /\ Idle.todo = {} /\ Idle.held = {}
  BY ConstantFacts DEF Idle, TxType

(* So whatever the rows are, what it knows is right. *)
LEMMA IdleGood == TxGood(Idle)
<1> HIDE DEF TxType
<1>1. /\ Idle \in TxType /\ Idle.op = "idle" /\ Idle.at = "end"
      /\ Idle.guest = None /\ Idle.target = None /\ Idle.wanted = {} /\ Idle.todo = {} /\ Idle.held = {}
  BY IdleType
<1> QED BY <1>1 DEF TxGood, Known

(* The parts of what a transaction knows, by the fields of its record. *)
LEMMA TxFields ==
    ASSUME NEW x \in TxType
    PROVE  /\ x.op \in {"idle", "identify", "write", "pick", "ask", "confirm", "delete"}
           /\ x.at \in {"end", "walk", "resolved", "judge", "create", "pick", "advisory", "claim",
                        "merge", "scrub", "drop"}
           /\ x.device \in Devices \cup {None} /\ x.token \in Tokens \cup {None}
           /\ x.email \in Emails \cup {None} /\ x.guest \in Ids \cup {None}
           /\ x.target \in Ids \cup {None} /\ x.wanted \in SUBSET Ids /\ x.round \in Nat
           /\ x.todo \in SUBSET Ids /\ x.held \in SUBSET Ids
  BY DEF TxType

(* What a transaction knows stays right over a step that deletes no row it    *)
(* holds, merges none of them away, makes no row forward to one of them, and  *)
(* gives its e-mail to no other guest if it has decided to claim it.          *)
LEMMA KeptGood ==
    ASSUME NEW x \in TxType, TxGood(x),
           created \in Nat, created' \in Nat, created <= created',
           \A i \in DOMAIN guests' : i \in DOMAIN guests \/ i \notin 1..created,
           x.held \subseteq DOMAIN guests',
           \A i \in x.held : Live(i) => Live(i)',
           \A i \in x.held : Tombstones(i)' \subseteq Tombstones(i),
           x.at = "claim" => (HasOther(x.guest, x.email)' => HasOther(x.guest, x.email))
    PROVE  TxGood(x)'
<1> HIDE DEF TxType
<1>0. /\ \A c \in 1..created : c \in 1..created'
      /\ x.guest \in Ids \cup {None} /\ x.target \in Ids \cup {None}
  BY TxFields
<1>1. /\ x.guest \in Known' /\ x.target \in Known'
      /\ x.wanted \subseteq 1..created' /\ x.todo \subseteq 1..created'
  BY <1>0 DEF TxGood, Known
<1>2. x.at \in {"walk", "merge"} => x.wanted \cap DOMAIN guests' \subseteq x.held \cup x.todo
  BY DEF TxGood
<1>3. x.at = "resolved" /\ x.guest # None =>
          x.guest \in x.held /\ Live(x.guest)' /\ x.token \in Tokens
  BY DEF TxGood
<1>4. x.at = "scrub" =>
          x.guest # None /\ (x.guest \in DOMAIN guests' => x.guest \in x.held \cup x.todo)
  BY DEF TxGood, Known
<1>5. x.at = "drop" => x.guest \in x.held /\ Tombstones(x.guest)' \subseteq x.held \cup x.todo
  <2> SUFFICES ASSUME x.at = "drop"
               PROVE  x.guest \in x.held /\ Tombstones(x.guest)' \subseteq x.held \cup x.todo
    OBVIOUS
  <2>1. x.guest \in x.held /\ Tombstones(x.guest) \subseteq x.held \cup x.todo
    BY DEF TxGood
  <2>2. Tombstones(x.guest)' \subseteq Tombstones(x.guest)
    BY <2>1
  <2> QED BY <2>1, <2>2
<1>6. x.at = "claim" => ~HasOther(x.guest, x.email)'
  BY DEF TxGood
<1> QED BY <1>1, <1>2, <1>3, <1>4, <1>5, <1>6 DEF TxGood

(* Nothing of it depends on anything but the rows and the ids given out. *)
LEMMA SameGood ==
    ASSUME NEW x \in TxType, TxGood(x), guests' = guests, created' = created
    PROVE  TxGood(x)'
  BY DEF TxGood, Known, Live, Tombstones, HasOther

---------------------------------------------------------------------------
(* The shapes of a step *)

(* A transaction goes on to n, and the rows of the guests are left alone. *)
LEMMA Goes ==
    ASSUME IdentityInv, NEW t \in Transactions, NEW n \in TxType, TxGood(n),
           tx' = [tx EXCEPT ![t] = n], begun' \in 0..MaxOps,
           guests' = guests, created' = created, RowInv',
           \A u \in Transactions \ {t} :
              /\ n.held \cap tx[u].held = {}
              /\ Deciding(n) /\ Deciding(tx[u]) => n.email # tx[u].email
    PROVE  IdentityInv'
<1> HIDE DEF TxType
<1>1. /\ tx' \in [Transactions -> TxType] /\ tx'[t] = n
      /\ \A u \in Transactions \ {t} : tx'[u] = tx[u]
  BY DEF IdentityInv
<1>3. ASSUME NEW u \in Transactions, NEW x \in TxType, x = tx'[u] PROVE TxGood(x)'
  <2>1. TxGood(x)
    BY <1>1, <1>3 DEF IdentityInv
  <2> QED BY <2>1, SameGood
<1>4. PairInv'
  <2> SUFFICES ASSUME NEW u \in Transactions, NEW w \in Transactions, u # w
               PROVE  /\ tx'[u].held \cap tx'[w].held = {}
                      /\ Deciding(tx'[u]) /\ Deciding(tx'[w]) => tx'[u].email # tx'[w].email
    BY DEF PairInv, Deciding
  <2>1. CASE u = t
    BY <1>1, <2>1
  <2>2. CASE w = t
    BY <1>1, <2>2
  <2>3. CASE u # t /\ w # t
    BY <1>1, <2>3 DEF IdentityInv, PairInv
  <2> QED BY <2>1, <2>2, <2>3
<1> QED BY <1>1, <1>3, <1>4 DEF IdentityInv

(* The same, and nothing else is written. *)
LEMMA Turn ==
    ASSUME IdentityInv, NEW t \in Transactions, NEW n \in TxType, TxGood(n),
           tx' = [tx EXCEPT ![t] = n], begun' \in 0..MaxOps,
           guests' = guests, created' = created, owners' = owners, picks' = picks,
           cookie' = cookie,
           \A u \in Transactions \ {t} :
              /\ n.held \cap tx[u].held = {}
              /\ Deciding(n) /\ Deciding(tx[u]) => n.email # tx[u].email
    PROVE  IdentityInv'
<1> HIDE DEF TxType
<1>1. RowInv'
  BY DEF IdentityInv, RowInv, TombstonesForward, OwnersAreLive, Live
<1> QED BY <1>1, Goes

(* A transaction ends, and the others know what they knew. *)
LEMMA Ends ==
    ASSUME IdentityInv, NEW t \in Transactions, End(t), begun' = begun, RowInv',
           \A u \in Transactions \ {t}, x \in TxType : x = tx[u] => TxGood(x)'
    PROVE  IdentityInv'
<1> HIDE DEF TxType
<1>0. Idle \in TxType /\ Idle.held = {} /\ Idle.at = "end"
  BY IdleType
<1>1. /\ tx' \in [Transactions -> TxType] /\ tx'[t] = Idle
      /\ \A u \in Transactions \ {t} : tx'[u] = tx[u]
  BY <1>0 DEF IdentityInv, End
<1>2. TxGood(Idle)'
  <2>1. /\ Idle.op = "idle"
        /\ Idle.guest = None /\ Idle.target = None /\ Idle.wanted = {} /\ Idle.todo = {}
    BY IdleType
  <2> QED BY <1>0, <2>1 DEF TxGood, Known
<1>3. \A u \in Transactions, x \in TxType : x = tx'[u] => TxGood(x)'
  BY <1>1, <1>2
<1>4. PairInv'
  <2> SUFFICES ASSUME NEW u \in Transactions, NEW w \in Transactions, u # w
               PROVE  /\ tx'[u].held \cap tx'[w].held = {}
                      /\ Deciding(tx'[u]) /\ Deciding(tx'[w]) => tx'[u].email # tx'[w].email
    BY DEF PairInv, Deciding
  <2>1. CASE u = t
    BY <1>0, <1>1, <2>1 DEF Deciding
  <2>2. CASE w = t
    BY <1>0, <1>1, <2>2 DEF Deciding
  <2>3. CASE u # t /\ w # t
    BY <1>1, <2>3 DEF IdentityInv, PairInv
  <2> QED BY <2>1, <2>2, <2>3
<1> QED BY <1>1, <1>3, <1>4 DEF IdentityInv

(* A step of time, of a browser or of one UPDATE: no transaction takes it. *)
LEMMA Aside ==
    ASSUME IdentityInv, tx' = tx, begun' \in 0..MaxOps, RowInv',
           \A u \in Transactions, x \in TxType : x = tx[u] => TxGood(x)'
    PROVE  IdentityInv'
  BY DEF IdentityInv, PairInv, Deciding

---------------------------------------------------------------------------
(* What the rows and the requests are *)

(* A row is one of the ids given out, and its token is a token. *)
LEMMA RowFacts ==
    ASSUME RowInv
    PROVE  /\ created \in Nat /\ created <= MaxGuests /\ 1..created \subseteq Ids
           /\ \A g \in DOMAIN guests :
                 /\ g \in 1..created /\ g \in Ids
                 /\ guests[g] \in Row
                 /\ guests[g].into \in Ids \cup {None} /\ guests[g].expired \in BOOLEAN
                 /\ guests[g].email \in Emails \cup {None} /\ guests[g].turn \in 0..MaxRotations
                 /\ Token(g) \in Tokens
                 /\ guests[g].into # None => guests[g].into \in DOMAIN guests /\ Live(guests[g].into)
           /\ \A g : Tombstones(g) \subseteq 1..created
<1>1. created \in Nat /\ created <= MaxGuests /\ 1..created \subseteq Ids
  BY ConstantFacts DEF RowInv, Ids
<1>2. ASSUME NEW g \in DOMAIN guests
      PROVE  /\ g \in 1..created /\ g \in Ids
             /\ guests[g] \in Row
             /\ guests[g].into \in Ids \cup {None} /\ guests[g].expired \in BOOLEAN
             /\ guests[g].email \in Emails \cup {None} /\ guests[g].turn \in 0..MaxRotations
             /\ Token(g) \in Tokens
             /\ guests[g].into # None => guests[g].into \in DOMAIN guests /\ Live(guests[g].into)
  <2>1. g \in 1..created /\ g \in Ids /\ guests[g] \in Row
    BY <1>1 DEF RowInv
  <2>2. /\ guests[g].into \in Ids \cup {None} /\ guests[g].expired \in BOOLEAN
        /\ guests[g].email \in Emails \cup {None} /\ guests[g].turn \in 0..MaxRotations
    BY <2>1 DEF Row
  <2>3. guests[g].into # None => guests[g].into \in DOMAIN guests /\ Live(guests[g].into)
    BY DEF RowInv, TombstonesForward, Live
  <2> QED BY <2>1, <2>2, <2>3 DEF Token, Tokens
<1>3. \A g : Tombstones(g) \subseteq 1..created
  BY DEF RowInv, Tombstones
<1> QED BY <1>1, <1>2, <1>3

(* What one transaction holds and knows. *)
LEMMA Mine ==
    ASSUME IdentityInv, NEW t \in Transactions
    PROVE  /\ tx[t] \in TxType /\ TxGood(tx[t]) /\ RowInv
           /\ \A u \in Transactions \ {t} : tx[t].held \cap tx[u].held = {}
  BY DEF IdentityInv, PairInv

(* A transaction that locks nothing more and starts no decision. *)
LEMMA Carry ==
    ASSUME IdentityInv, NEW t \in Transactions, NEW n \in TxType, TxGood(n),
           tx' = [tx EXCEPT ![t] = n], begun' \in 0..MaxOps,
           guests' = guests, created' = created, owners' = owners, picks' = picks,
           cookie' = cookie, n.held \subseteq tx[t].held,
           Deciding(n) => Deciding(tx[t]) /\ n.email = tx[t].email
    PROVE  IdentityInv'
<1> HIDE DEF TxType
<1>1. ASSUME NEW u \in Transactions \ {t}
      PROVE  /\ n.held \cap tx[u].held = {}
             /\ Deciding(n) /\ Deciding(tx[u]) => n.email # tx[u].email
  <2>1. tx[t].held \cap tx[u].held = {}
    BY Mine
  <2>2. Deciding(n) /\ Deciding(tx[u]) => n.email # tx[u].email
    BY DEF IdentityInv, PairInv
  <2> QED BY <2>1, <2>2
<1> QED BY <1>1, Turn

(* A transaction that ends and leaves the rows alone. *)
LEMMA Stops ==
    ASSUME IdentityInv, NEW t \in Transactions, End(t),
           UNCHANGED <<guests, created, owners, picks, cookie, begun>>
    PROVE  IdentityInv'
<1>1. begun' \in 0..MaxOps
  BY DEF IdentityInv
<1>2. Idle.held \subseteq tx[t].held /\ ~Deciding(Idle) /\ Idle \in TxType
  BY IdleType DEF Deciding
<1> QED BY <1>1, <1>2, IdleGood, Carry DEF End

---------------------------------------------------------------------------
(* Locks *)

(* A granted row is free of the others; one that is gone is left out. *)
LEMMA LockRowStep ==
    ASSUME IdentityInv, NEW t \in Transactions, NEW i \in Ids, LockRow(t, i)
    PROVE  IdentityInv'
<1> HIDE DEF TxType
<1> PICK v \in TxType : v = tx[t]
  BY Mine
<1> DEFINE h == IF i \in DOMAIN guests THEN v.held \cup {i} ELSE v.held
           n == [v EXCEPT !.todo = @ \ {i}, !.held = h]
<1>0. TxGood(v) /\ v.todo \in SUBSET Ids /\ v.held \in SUBSET Ids
  BY Mine, TxFields
<1>1. n \in TxType
  BY <1>0 DEF TxType
<1>2. /\ n.todo = v.todo \ {i} /\ n.held = h /\ n.at = v.at /\ n.op = v.op /\ n.email = v.email
      /\ n.guest = v.guest /\ n.target = v.target /\ n.wanted = v.wanted /\ n.token = v.token
  BY DEF TxType
<1>3. tx' = [tx EXCEPT ![t] = n]
  BY DEF LockRow, IdentityInv
<1> HIDE DEF n
<1>4. TxGood(n)
  <2>1. n.held \subseteq DOMAIN guests /\ v.held \subseteq n.held
    BY <1>0, <1>2 DEF TxGood
  <2>2. n.todo \subseteq 1..created
    BY <1>0, <1>2 DEF TxGood
  <2>3. \A g \in DOMAIN guests : g \in v.held \cup v.todo => g \in n.held \cup n.todo
    BY <1>2
  <2>4. \A g : Tombstones(g) \subseteq DOMAIN guests
    BY DEF Tombstones
  <2>5. n.at \in {"walk", "merge"} => n.wanted \cap DOMAIN guests \subseteq n.held \cup n.todo
    BY <1>0, <1>2, <2>3 DEF TxGood
  <2>6. n.at = "resolved" /\ n.guest # None =>
            n.guest \in n.held /\ Live(n.guest) /\ n.token \in Tokens
    BY <1>0, <1>2, <2>1 DEF TxGood
  <2>7. n.at = "scrub" =>
            n.guest # None /\ (n.guest \in DOMAIN guests => n.guest \in n.held \cup n.todo)
    BY <1>0, <1>2, <2>3 DEF TxGood
  <2>8. n.at = "drop" => n.guest \in n.held /\ Tombstones(n.guest) \subseteq n.held \cup n.todo
    BY <1>0, <1>2, <2>1, <2>3, <2>4 DEF TxGood
  <2> QED BY <1>0, <1>1, <1>2, <2>1, <2>2, <2>5, <2>6, <2>7, <2>8 DEF TxGood
<1>5. ASSUME NEW u \in Transactions \ {t}
      PROVE  /\ n.held \cap tx[u].held = {}
             /\ Deciding(n) /\ Deciding(tx[u]) => n.email # tx[u].email
  <2>1. v.held \cap tx[u].held = {} /\ i \notin tx[u].held
    BY Mine DEF LockRow, Free
  <2>2. n.held \cap tx[u].held = {}
    BY <1>2, <2>1
  <2>3. Deciding(n) /\ Deciding(tx[u]) => n.email # tx[u].email
    BY <1>2 DEF IdentityInv, PairInv, Deciding
  <2> QED BY <2>2, <2>3
<1>6. begun' \in 0..MaxOps
  BY DEF LockRow, IdentityInv
<1> QED BY <1>1, <1>3, <1>4, <1>5, <1>6, Turn DEF LockRow

(* The records that the requests go on to are records of a transaction. *)
LEMMA TxUpdates ==
    ASSUME NEW v \in TxType, NEW ids \in SUBSET Ids, NEW g \in Ids \cup {None},
           NEW token \in Tokens \cup {None}, NEW r \in Nat, NEW at \in {"walk", "judge", "merge"}
    PROVE  /\ [v EXCEPT !.at = at, !.todo = ids, !.wanted = ids, !.round = r] \in TxType
           /\ [v EXCEPT !.at = "drop", !.todo = ids] \in TxType
           /\ [v EXCEPT !.guest = g] \in TxType
           /\ [v EXCEPT !.target = g, !.round = r] \in TxType
           /\ [v EXCEPT !.at = "resolved", !.wanted = {}, !.round = r, !.guest = g,
                        !.token = token] \in TxType
<1>1. [v EXCEPT !.at = at, !.todo = ids, !.wanted = ids, !.round = r] \in TxType
  BY DEF TxType
<1>2. [v EXCEPT !.at = "drop", !.todo = ids] \in TxType
  BY DEF TxType
<1>3. [v EXCEPT !.guest = g] \in TxType
  BY DEF TxType
<1>4. [v EXCEPT !.target = g, !.round = r] \in TxType
  BY DEF TxType
<1>5. [v EXCEPT !.at = "resolved", !.wanted = {}, !.round = r, !.guest = g, !.token = token] \in TxType
  BY DEF TxType
<1> QED BY <1>1, <1>2, <1>3, <1>4, <1>5

(* Locking the rows ids next: nothing else of the record changes. *)
LEMMA LockGuestsFields ==
    ASSUME NEW t, NEW v \in TxType, v = tx[t], NEW ids \in SUBSET Ids,
           NEW at \in {"walk", "judge", "merge"}
    PROVE  LET n == LockGuests(t, ids, at)
           IN  /\ n \in TxType
               /\ n.at = at /\ n.todo = ids /\ n.wanted = ids /\ n.held = v.held /\ n.op = v.op
               /\ n.email = v.email /\ n.guest = v.guest /\ n.target = v.target
               /\ n.token = v.token /\ n.device = v.device
<1>1. v.round \in Nat /\ v.round + 1 \in Nat
  BY TxFields
<1> DEFINE n == [v EXCEPT !.at = at, !.todo = ids, !.wanted = ids, !.round = v.round + 1]
<1>2. LockGuests(t, ids, at) = n
  BY DEF LockGuests
<1>3. n \in TxType
  <2> HIDE DEF TxType
  <2> QED BY <1>1, TxUpdates
<1>4. n.at = at /\ n.todo = ids /\ n.wanted = ids /\ n.held = v.held /\ n.op = v.op
  BY DEF TxType
<1>5. n.email = v.email /\ n.guest = v.guest /\ n.target = v.target /\ n.token = v.token
  BY DEF TxType
<1>6. n.device = v.device
  BY DEF TxType
<1> QED BY <1>2, <1>3, <1>4, <1>5, <1>6

---------------------------------------------------------------------------
(* The requests of a device, up to their end *)

(* A request begins with nothing locked. *)
LEMMA BeginRequestStep ==
    ASSUME IdentityInv, NEW t \in Transactions, NEW d \in Devices,
           NEW op \in {"identify", "write", "pick", "ask", "confirm"}, NEW e \in Emails \cup {None},
           BeginRequest(t, d, op, e)
    PROVE  IdentityInv'
<1> DEFINE n == [Idle EXCEPT !.op = op, !.device = d, !.token = cookie[d], !.email = e, !.at = "walk"]
<1>0. cookie[d] \in Tokens \cup {None} /\ Idle \in TxType
  BY Mine, IdleType DEF RowInv
<1>1. n \in TxType
  BY <1>0 DEF TxType
<1>2. /\ n.op = op /\ n.at = "walk" /\ n.email = e /\ n.guest = Idle.guest /\ n.target = Idle.target
      /\ n.wanted = Idle.wanted /\ n.todo = Idle.todo /\ n.held = Idle.held
  BY <1>0 DEF TxType
<1>3. tx' = [tx EXCEPT ![t] = n]
  BY DEF BeginRequest, Begin
<1> HIDE DEF n, TxType
<1>4. n.guest = None /\ n.target = None /\ n.wanted = {} /\ n.todo = {} /\ n.held = {}
  BY <1>2, IdleType
<1>5. TxGood(n)
  BY <1>1, <1>2, <1>4 DEF TxGood, Known, BeginRequest
<1>6. begun' \in 0..MaxOps
  BY ConstantFacts DEF BeginRequest, Begin, IdentityInv
<1>7. n.held \subseteq tx[t].held /\ ~Deciding(n)
  BY <1>2, <1>4 DEF Deciding
<1> QED BY <1>1, <1>3, <1>5, <1>6, <1>7, Carry DEF BeginRequest, Begin

(* The rows a token leads over are rows. *)
LEMMA WalkRows ==
    ASSUME RowInv, NEW token
    PROVE  Walk(token) \subseteq DOMAIN guests
  BY RowFacts DEF Walk, Forwarded

(* A round of the walk locks rows; the last one leaves the live guest locked. *)
LEMMA ResolveByTokenStep ==
    ASSUME IdentityInv, NEW t \in Transactions, ResolveByToken(t)
    PROVE  IdentityInv'
<1> HIDE DEF TxType
<1> PICK v \in TxType : v = tx[t]
  BY Mine
<1> PICK visited \in SUBSET DOMAIN guests : visited = Walk(v.token)
  BY WalkRows, Mine
<1>0. /\ TxGood(v) /\ RowInv /\ v.at = "walk" /\ v.todo = {} /\ v.wanted \subseteq 1..created
      /\ v.wanted \subseteq Ids /\ v.guest \in Ids \cup {None} /\ v.round \in Nat
      /\ begun' \in 0..MaxOps
  BY Mine, TxFields DEF ResolveByToken, At, TxGood, IdentityInv
<1>1. visited \cup v.wanted \in SUBSET Ids /\ visited \cup v.wanted \subseteq 1..created
  BY <1>0, RowFacts
<1>2. CASE v.round < LockRetries /\ ~Settled(visited, v.wanted)
  <2> PICK n : n = LockGuests(t, visited \cup v.wanted, "walk")
    OBVIOUS
  <2>1. tx' = [tx EXCEPT ![t] = n]
    BY <1>2 DEF ResolveByToken
  <2>2. /\ n \in TxType
        /\ n.at = "walk" /\ n.todo = visited \cup v.wanted /\ n.wanted = visited \cup v.wanted
        /\ n.held = v.held /\ n.op = v.op
        /\ n.email = v.email /\ n.guest = v.guest /\ n.target = v.target
    BY <1>1, LockGuestsFields
  <2>3. TxGood(n)
    BY <1>0, <1>1, <2>2 DEF TxGood
  <2>4. n.held \subseteq tx[t].held /\ ~Deciding(n)
    BY <2>2 DEF Deciding
  <2> QED BY <1>0, <2>1, <2>2, <2>3, <2>4, Carry DEF ResolveByToken
<1>3. CASE ~(v.round < LockRetries /\ ~Settled(visited, v.wanted))
  <2> DEFINE live == IF v.round < LockRetries THEN LiveEnd(visited) ELSE None
             token == IF live = None THEN None ELSE Token(live)
             n == [v EXCEPT !.at = "resolved", !.wanted = {}, !.round = 0, !.guest = live,
                            !.token = token]
  <2>1. tx' = [tx EXCEPT ![t] = n]
    BY <1>3 DEF ResolveByToken
  <2>2. live # None => live \in visited /\ Live(live) /\ visited \subseteq v.wanted
    BY <1>3 DEF LiveEnd, Settled
  <2>3. live # None => live \in v.held /\ live \in 1..created /\ live \in Ids /\ Token(live) \in Tokens
    BY <1>0, <1>1, <2>2, RowFacts DEF TxGood
  <2>4. live \in Known /\ (live # None => token \in Tokens)
    BY <2>3 DEF Known
  <2>9. live \in Ids \cup {None} /\ token \in Tokens \cup {None}
    BY <2>3
  <2> HIDE DEF live, token
  <2>5. n \in TxType
    BY <2>9, TxUpdates
  <2>6. /\ n.at = "resolved" /\ n.wanted = {} /\ n.guest = live /\ n.token = token
        /\ n.op = v.op /\ n.todo = v.todo /\ n.held = v.held /\ n.email = v.email
        /\ n.target = v.target
    BY DEF TxType
  <2> HIDE DEF n
  <2>7. TxGood(n)
    BY <1>0, <2>2, <2>3, <2>4, <2>5, <2>6 DEF TxGood
  <2>8. n.held \subseteq tx[t].held /\ ~Deciding(n)
    BY <2>6 DEF Deciding
  <2> QED BY <1>0, <2>1, <2>5, <2>7, <2>8, Carry DEF ResolveByToken
<1> QED BY <1>2, <1>3

(* A guest whose fingerprint matches is locked to be judged. *)
LEMMA MatchStep ==
    ASSUME IdentityInv, NEW t \in Transactions, NEW g \in Ids, Match(t, g)
    PROVE  IdentityInv'
<1> HIDE DEF TxType
<1> PICK v \in TxType : v = tx[t]
  BY Mine
<1>0. /\ TxGood(v) /\ RowInv /\ v.at = "resolved" /\ v.op = "identify"
      /\ g \in 1..created /\ begun' \in 0..MaxOps
  BY Mine, RowFacts DEF Match, Resolved, At, Live, IdentityInv
<1> PICK m : m = LockGuests(t, {g}, "judge")
  OBVIOUS
<1>1. /\ m \in TxType
      /\ m.at = "judge" /\ m.todo = {g} /\ m.wanted = {g} /\ m.held = v.held /\ m.op = v.op
      /\ m.email = v.email /\ m.target = v.target
  BY LockGuestsFields
<1> DEFINE n == [m EXCEPT !.guest = g]
<1>2. n \in TxType
  BY <1>1, TxUpdates
<1>3. /\ n.at = "judge" /\ n.todo = {g} /\ n.wanted = {g} /\ n.held = v.held /\ n.op = v.op
      /\ n.email = v.email /\ n.target = v.target /\ n.guest = g
  BY <1>1 DEF TxType
<1>4. tx' = [tx EXCEPT ![t] = n]
  BY DEF Match
<1> HIDE DEF n
<1>5. TxGood(n)
  BY <1>0, <1>2, <1>3 DEF TxGood, Known
<1>6. n.held \subseteq tx[t].held /\ ~Deciding(n)
  BY <1>3 DEF Deciding
<1> QED BY <1>0, <1>2, <1>4, <1>5, <1>6, Carry DEF Match

(* A right code: the row locks are gone, the guest is remembered. *)
LEMMA ConfirmCodeStep ==
    ASSUME IdentityInv, NEW t \in Transactions, ConfirmCode(t)
    PROVE  IdentityInv'
<1> HIDE DEF TxType
<1> PICK v \in TxType : v = tx[t]
  BY Mine
<1>0. /\ TxGood(v) /\ v.at = "resolved" /\ v.op = "confirm" /\ v.guest # None /\ v.todo = {}
      /\ begun' \in 0..MaxOps
  BY Mine DEF ConfirmCode, Resolved, At, IdentityInv
<1>1. CASE v.guest \notin DOMAIN guests \/ guests[v.guest].email = v.email
  <2>1. End(t)
    BY <1>1 DEF ConfirmCode, End
  <2> QED BY <2>1, Stops DEF ConfirmCode
<1>2. CASE ~(v.guest \notin DOMAIN guests \/ guests[v.guest].email = v.email)
  <2> PICK n : n = [v EXCEPT !.at = "advisory", !.token = None, !.held = {}]
    OBVIOUS
  <2>1. n \in TxType
    BY DEF TxType
  <2>2. /\ n.at = "advisory" /\ n.held = {} /\ n.op = v.op /\ n.email = v.email /\ n.guest = v.guest
        /\ n.target = v.target /\ n.wanted = v.wanted /\ n.todo = v.todo
    BY DEF TxType
  <2>3. TxGood(n)
    BY <1>0, <2>1, <2>2 DEF TxGood
  <2>4. tx' = [tx EXCEPT ![t] = n]
    BY <1>2 DEF ConfirmCode
  <2>5. n.held \subseteq tx[t].held /\ ~Deciding(n)
    BY <2>2 DEF Deciding
  <2> QED BY <1>0, <2>1, <2>3, <2>4, <2>5, Carry DEF ConfirmCode
<1> QED BY <1>1, <1>2

---------------------------------------------------------------------------
(* The decision, and the locks of a merge *)

(* Nobody else decides for this e-mail, so a claim is unopposed when it is    *)
(* decided.                                                                   *)
LEMMA DecideOwnerStep ==
    ASSUME IdentityInv, NEW t \in Transactions, DecideOwner(t)
    PROVE  IdentityInv'
<1> HIDE DEF TxType
<1> PICK v \in TxType : v = tx[t]
  BY Mine
<1> DEFINE existing == {g \in DOMAIN guests \ {v.guest} : guests[g].email = v.email}
<1>0. /\ TxGood(v) /\ RowInv /\ v.at = "advisory" /\ v.todo = {} /\ v.email # None /\ v.guest # None
      /\ v.guest \in Ids /\ v.guest \in 1..created /\ begun' \in 0..MaxOps
  BY Mine, TxFields DEF DecideOwner, At, TxGood, Known, IdentityInv
<1>b. ASSUME NEW both \in SUBSET Ids, NEW m, m = LockGuests(t, both, "merge")
      PROVE  /\ m \in TxType
             /\ m.at = "merge" /\ m.todo = both /\ m.wanted = both /\ m.held = v.held
             /\ m.op = v.op /\ m.email = v.email /\ m.guest = v.guest
  BY <1>b, LockGuestsFields
<1>a. \A u \in Transactions \ {t} : Deciding(tx[u]) => tx[u].email # v.email
  BY DEF DecideOwner, SerializePerEmail, HasAdvisory, Deciding
<1>1. CASE existing = {}
  <2> PICK n : n = [v EXCEPT !.at = "claim", !.todo = {v.guest}]
    OBVIOUS
  <2>1. n \in TxType
    BY <1>0 DEF TxType
  <2>2. /\ n.at = "claim" /\ n.todo = {v.guest} /\ n.held = v.held /\ n.op = v.op
        /\ n.email = v.email /\ n.guest = v.guest /\ n.target = v.target /\ n.wanted = v.wanted
    BY DEF TxType
  <2>3. ~HasOther(v.guest, v.email)
    BY <1>1 DEF HasOther
  <2>4. TxGood(n)
    BY <1>0, <2>1, <2>2, <2>3 DEF TxGood
  <2>5. tx' = [tx EXCEPT ![t] = n]
    BY <1>1 DEF DecideOwner
  <2>6. \A u \in Transactions \ {t} :
           /\ n.held \cap tx[u].held = {}
           /\ Deciding(n) /\ Deciding(tx[u]) => n.email # tx[u].email
    BY <1>a, <2>2, Mine
  <2> QED BY <1>0, <2>1, <2>4, <2>5, <2>6, Turn DEF DecideOwner
<1>2. CASE existing # {}
  <2> PICK x \in existing :
              tx' = [tx EXCEPT ![t] = [LockGuests(t, {v.guest, x}, "merge")
                                          EXCEPT !.target = x, !.round = 1]]
    <3>1. (CHOOSE g \in existing : TRUE) \in existing
      BY <1>2
    <3> QED BY <1>2, <3>1 DEF DecideOwner
  <2>0. x \in Ids /\ x \in 1..created
    BY <1>0, RowFacts
  <2> PICK both \in SUBSET Ids : both = {v.guest, x}
    BY <1>0, <2>0
  <2> PICK m : m = LockGuests(t, both, "merge")
    OBVIOUS
  <2>1. /\ m \in TxType
        /\ m.at = "merge" /\ m.todo = both /\ m.wanted = both /\ m.held = v.held
        /\ m.op = v.op /\ m.email = v.email /\ m.guest = v.guest
    BY <1>b
  <2> DEFINE n == [m EXCEPT !.target = x, !.round = 1]
  <2>2. n \in TxType
    BY <2>0, <2>1, TxUpdates
  <2>3. /\ n.at = "merge" /\ n.todo = both /\ n.wanted = both /\ n.held = v.held
        /\ n.op = v.op /\ n.email = v.email /\ n.guest = v.guest /\ n.target = x
    BY <2>1 DEF TxType
  <2>5. tx' = [tx EXCEPT ![t] = n]
    OBVIOUS
  <2> HIDE DEF n
  <2>4. TxGood(n)
    BY <1>0, <2>0, <2>2, <2>3, ConstantFacts DEF TxGood, Known
  <2>6. \A u \in Transactions \ {t} :
           /\ n.held \cap tx[u].held = {}
           /\ Deciding(n) /\ Deciding(tx[u]) => n.email # tx[u].email
    BY <1>a, <2>3, Mine
  <2> QED BY <1>0, <2>2, <2>4, <2>5, <2>6, Turn DEF DecideOwner
<1> QED BY <1>1, <1>2

(* The pointers of locked rows lead to rows that were given out. *)
LEMMA LiveTargetKnown ==
    ASSUME RowInv, NEW g \in 1..created, NEW locked
    PROVE  LiveTarget(g, locked) \in 1..created
<1>1. \A i \in 1..created : PointsTo(i, locked) \in 1..created
  BY RowFacts DEF PointsTo
<1> HIDE DEF PointsTo
<1> QED BY <1>1 DEF LiveTarget

(* Another round of a merge's locks, or its refusal. *)
LEMMA WidenMergeStep ==
    ASSUME IdentityInv, NEW t \in Transactions, WidenMerge(t)
    PROVE  IdentityInv'
<1> HIDE DEF TxType
<1> PICK v \in TxType : v = tx[t]
  BY Mine
<1>0. /\ TxGood(v) /\ RowInv /\ v.at = "merge" /\ v.todo = {} /\ v.wanted \subseteq 1..created
      /\ v.target \in 1..created /\ begun' \in 0..MaxOps
  BY Mine DEF WidenMerge, At, TxGood, Known, IdentityInv
<1> PICK target \in 1..created : target = LiveTarget(v.target, v.wanted)
  BY <1>0, LiveTargetKnown
<1> PICK ids : ids = v.wanted \cup Tombstones(v.guest) \cup {target}
  OBVIOUS
<1>1. ids \subseteq 1..created /\ ids \in SUBSET Ids
  BY <1>0, RowFacts
<1> PICK n : n = LockGuests(t, ids, "merge")
  OBVIOUS
<1>2. End(t) \/ tx' = [tx EXCEPT ![t] = n]
  BY DEF WidenMerge
<1>3. CASE End(t)
  BY <1>3, Stops DEF WidenMerge
<1>4. CASE tx' = [tx EXCEPT ![t] = n]
  <2>1. /\ n \in TxType
        /\ n.at = "merge" /\ n.todo = ids /\ n.wanted = ids /\ n.held = v.held /\ n.op = v.op
        /\ n.email = v.email /\ n.guest = v.guest /\ n.target = v.target
    BY <1>1, LockGuestsFields
  <2>2. v.guest \in ids
    BY <1>0 DEF TxGood
  <2>3. TxGood(n)
    BY <1>0, <1>1, <2>1, <2>2 DEF TxGood
  <2>4. n.held \subseteq tx[t].held /\ (Deciding(n) => Deciding(tx[t]) /\ n.email = tx[t].email)
    BY <1>0, <2>1 DEF Deciding
  <2> QED BY <1>0, <1>4, <2>1, <2>3, <2>4, Carry DEF WidenMerge
<1> QED BY <1>2, <1>3, <1>4

---------------------------------------------------------------------------
(* An admin's deletion, up to its DELETE *)

(* A deletion begins with the guest's lock to take. *)
LEMMA BeginDeleteStep ==
    ASSUME IdentityInv, NEW t \in Transactions, NEW g \in Ids, BeginDelete(t, g)
    PROVE  IdentityInv'
<1> DEFINE n == [Idle EXCEPT !.op = "delete", !.guest = g, !.at = "scrub", !.todo = {g}]
<1>0. Idle \in TxType /\ g \in 1..created
  BY Mine, RowFacts, IdleType DEF BeginDelete
<1>1. n \in TxType
  BY <1>0 DEF TxType
<1>2. /\ n.op = "delete" /\ n.at = "scrub" /\ n.guest = g /\ n.todo = {g}
      /\ n.target = Idle.target /\ n.wanted = Idle.wanted /\ n.held = Idle.held
  BY <1>0 DEF TxType
<1>3. tx' = [tx EXCEPT ![t] = n]
  BY DEF BeginDelete, Begin
<1> HIDE DEF n, TxType
<1>4. n.target = None /\ n.wanted = {} /\ n.held = {}
  BY <1>2, IdleType
<1>5. TxGood(n)
  BY <1>0, <1>1, <1>2, <1>4, ConstantFacts DEF TxGood, Known
<1>6. begun' \in 0..MaxOps
  BY ConstantFacts DEF BeginDelete, Begin, IdentityInv
<1>7. n.held \subseteq tx[t].held /\ ~Deciding(n)
  BY <1>2, <1>4 DEF Deciding
<1> QED BY <1>1, <1>3, <1>5, <1>6, <1>7, Carry DEF BeginDelete, Begin

(* The guest's row is held, and its tombstones' locks come next. *)
LEMMA ScrubStep ==
    ASSUME IdentityInv, NEW t \in Transactions, Scrub(t)
    PROVE  IdentityInv'
<1> HIDE DEF TxType
<1> PICK v \in TxType : v = tx[t]
  BY Mine
<1>0. /\ TxGood(v) /\ RowInv /\ v.at = "scrub" /\ v.todo = {} /\ begun' \in 0..MaxOps
  BY Mine DEF Scrub, At, IdentityInv
<1>1. CASE v.guest \notin DOMAIN guests
  <2>1. End(t)
    BY <1>1 DEF Scrub, End
  <2> QED BY <2>1, Stops DEF Scrub
<1>2. CASE v.guest \in DOMAIN guests
  <2> PICK ids : ids = Tombstones(v.guest)
    OBVIOUS
  <2>0. ids \subseteq 1..created /\ ids \in SUBSET Ids
    BY <1>0, RowFacts
  <2> DEFINE n == [v EXCEPT !.at = "drop", !.todo = ids]
  <2>1. n \in TxType
    BY <2>0, TxUpdates
  <2>2. /\ n.at = "drop" /\ n.todo = ids /\ n.held = v.held /\ n.op = v.op /\ n.email = v.email
        /\ n.guest = v.guest /\ n.target = v.target /\ n.wanted = v.wanted
    BY DEF TxType
  <2>4. tx' = [tx EXCEPT ![t] = n]
    BY <1>2 DEF Scrub
  <2> HIDE DEF n
  <2>3. TxGood(n)
    BY <1>0, <1>2, <2>0, <2>1, <2>2 DEF TxGood
  <2>5. n.held \subseteq tx[t].held /\ ~Deciding(n)
    BY <2>2 DEF Deciding
  <2> QED BY <1>0, <2>1, <2>3, <2>4, <2>5, Carry DEF Scrub
<1> QED BY <1>1, <1>2

---------------------------------------------------------------------------
(* The steps that change rows *)

(* An answer leaves a token or what was there in a device's cookie. *)
LEMMA AnswerType ==
    ASSUME RowInv, NEW d, NEW token \in Tokens, Answer(d, token)
    PROVE  cookie' \in [Devices -> Tokens \cup {None}]
  BY DEF RowInv, Answer

(* A step that leaves every row where it is and forwards none elsewhere keeps *)
(* the rows' invariant.                                                       *)
LEMMA SameForwards ==
    ASSUME RowInv, created' = created, owners' = owners, picks' = picks,
           cookie' \in [Devices -> Tokens \cup {None}],
           guests' \in [DOMAIN guests -> Row],
           \A g \in DOMAIN guests : guests'[g].into = guests[g].into
    PROVE  RowInv'
<1>1. DOMAIN guests' = DOMAIN guests
  OBVIOUS
<1>2. TombstonesForward'
  BY <1>1 DEF RowInv, TombstonesForward, Live
<1>3. OwnersAreLive'
  BY <1>1 DEF RowInv, OwnersAreLive, Live
<1> QED BY <1>1, <1>2, <1>3 DEF RowInv

(* And what the transactions know, if no guest gets the e-mail of a claim. *)
LEMMA SameForwardsGood ==
    ASSUME RowInv, created' = created,
           guests' \in [DOMAIN guests -> Row],
           \A g \in DOMAIN guests : guests'[g].into = guests[g].into,
           NEW x \in TxType, TxGood(x),
           x.at = "claim" => \A g \in DOMAIN guests :
                                guests'[g].email = x.email => g = x.guest \/ guests[g].email = x.email
    PROVE  TxGood(x)'
<1> HIDE DEF TxType
<1>1. DOMAIN guests' = DOMAIN guests /\ x.held \subseteq DOMAIN guests' /\ created \in Nat
  BY RowFacts DEF TxGood
<1>2. \A i \in x.held : Live(i) => Live(i)'
  BY <1>1 DEF Live
<1>3. \A i \in x.held : Tombstones(i)' \subseteq Tombstones(i)
  BY <1>1 DEF Tombstones
<1>4. x.at = "claim" => (HasOther(x.guest, x.email)' => HasOther(x.guest, x.email))
  BY <1>1 DEF HasOther
<1> QED BY <1>1, <1>2, <1>3, <1>4, KeptGood

(* What a request writes belongs to the guest it holds. *)
LEMMA WriteOwnedStep ==
    ASSUME IdentityInv, NEW t \in Transactions, WriteOwned(t)
    PROVE  IdentityInv'
<1> HIDE DEF TxType
<1> PICK v \in TxType : v = tx[t]
  BY Mine
<1>0. /\ RowInv /\ Live(v.guest) /\ v.guest \in Ids
      /\ owners' = owners \cup {v.guest}
  BY Mine, RowFacts DEF WriteOwned, Resolved, At, TxGood, Live
<1>1. RowInv'
  BY <1>0 DEF WriteOwned, RowInv, TombstonesForward, OwnersAreLive, Live
<1>2. ASSUME NEW u \in Transactions \ {t}, NEW x \in TxType, x = tx[u] PROVE TxGood(x)'
  <2>1. TxGood(x)
    BY <1>2 DEF IdentityInv
  <2> QED BY <2>1, SameGood DEF WriteOwned
<1> QED BY <1>1, <1>2, Ends DEF WriteOwned

(* So does what counts a pick; the pick itself goes on without the lock. *)
LEMMA PickCountsStep ==
    ASSUME IdentityInv, NEW t \in Transactions, PickCounts(t)
    PROVE  IdentityInv'
<1> HIDE DEF TxType
<1> PICK v \in TxType : v = tx[t]
  BY Mine
<1>0. /\ RowInv /\ TxGood(v) /\ v.at = "resolved" /\ v.op = "pick" /\ v.todo = {}
      /\ Live(v.guest) /\ v.guest \in Ids /\ owners' = owners \cup {v.guest}
      /\ begun' \in 0..MaxOps
  BY Mine, RowFacts DEF PickCounts, Resolved, At, TxGood, Live, IdentityInv
<1>1. RowInv'
  BY <1>0 DEF PickCounts, RowInv, TombstonesForward, OwnersAreLive, Live
<1> PICK n : n = [v EXCEPT !.at = "pick", !.token = None, !.held = {}]
  OBVIOUS
<1>2. n \in TxType
  BY DEF TxType
<1>3. /\ n.at = "pick" /\ n.held = {} /\ n.op = v.op /\ n.email = v.email /\ n.guest = v.guest
      /\ n.target = v.target /\ n.wanted = v.wanted /\ n.todo = v.todo
  BY DEF TxType
<1>4. TxGood(n)
  BY <1>0, <1>2, <1>3 DEF TxGood
<1>5. tx' = [tx EXCEPT ![t] = n]
  BY DEF PickCounts
<1>6. \A u \in Transactions \ {t} :
         /\ n.held \cap tx[u].held = {}
         /\ Deciding(n) /\ Deciding(tx[u]) => n.email # tx[u].email
  BY <1>3 DEF Deciding
<1>7. guests' = guests /\ created' = created
  BY DEF PickCounts
<1> QED BY <1>0, <1>1, <1>2, <1>4, <1>5, <1>6, <1>7, Goes

(* The guest that a pick is written for is a row, if not a live one. *)
LEMMA PickWritesStep ==
    ASSUME IdentityInv, NEW t \in Transactions, PickWrites(t)
    PROVE  IdentityInv'
<1> HIDE DEF TxType
<1>1. RowInv'
  BY Mine DEF PickWrites, RowInv, TombstonesForward, OwnersAreLive, Live
<1>2. ASSUME NEW u \in Transactions, NEW x \in TxType, x = tx[u] PROVE TxGood(x)'
  <2>1. TxGood(x)
    BY <1>2 DEF IdentityInv
  <2> QED BY <2>1, SameGood DEF PickWrites
<1>3. CASE End(t)
  BY <1>1, <1>2, <1>3, Ends DEF PickWrites
<1>4. CASE tx' = tx
  BY <1>1, <1>2, <1>4, Aside DEF PickWrites, IdentityInv
<1> QED BY <1>3, <1>4 DEF PickWrites

(* The survivor's token is issued. *)
LEMMA CookieHitStep ==
    ASSUME IdentityInv, NEW t \in Transactions, CookieHit(t)
    PROVE  IdentityInv'
<1> HIDE DEF TxType
<1> PICK v \in TxType : v = tx[t]
  BY Mine
<1>0. RowInv /\ v.token \in Tokens /\ Answer(v.device, v.token)
  BY Mine DEF CookieHit, Resolved, At, TxGood
<1>1. cookie' \in [Devices -> Tokens \cup {None}]
  BY <1>0, AnswerType
<1>2. RowInv'
  BY <1>0, <1>1 DEF CookieHit, RowInv, TombstonesForward, OwnersAreLive, Live
<1>3. ASSUME NEW u \in Transactions \ {t}, NEW x \in TxType, x = tx[u] PROVE TxGood(x)'
  <2>1. TxGood(x)
    BY <1>3 DEF IdentityInv
  <2> QED BY <2>1, SameGood DEF CookieHit
<1> QED BY <1>2, <1>3, Ends DEF CookieHit

(* A matched guest gets a new token, or a new guest is to be made, or the     *)
(* request fails.                                                             *)
LEMMA ReconcileStep ==
    ASSUME IdentityInv, NEW t \in Transactions, Reconcile(t)
    PROVE  IdentityInv'
<1> HIDE DEF TxType
<1> PICK v \in TxType : v = tx[t]
  BY Mine
<1>0. RowInv /\ TxGood(v) /\ begun' \in 0..MaxOps
  BY Mine DEF Reconcile, IdentityInv
<1>1. CASE /\ Live(v.guest) /\ guests[v.guest].email = None
           /\ \A h \in DOMAIN guests : guests[h].turn < MaxRotations
           /\ guests' = [guests EXCEPT ![v.guest].turn = @ + 1]
           /\ Answer(v.device, <<v.guest, guests[v.guest].turn + 1>>)
           /\ End(t)
  <2> DEFINE g == v.guest
  <2>1. /\ g \in DOMAIN guests /\ g \in Ids /\ guests[g] \in Row
        /\ guests[g].turn \in 0..MaxRotations /\ guests[g].turn < MaxRotations
    BY <1>0, <1>1, RowFacts DEF Live
  <2> HIDE DEF g
  <2>2. guests[g].turn + 1 \in 0..MaxRotations
    BY <2>1, ConstantFacts
  <2>3. <<g, guests[g].turn + 1>> \in Tokens
    BY <2>1, <2>2 DEF Tokens
  <2>4. cookie' \in [Devices -> Tokens \cup {None}]
    BY <1>0, <1>1, <2>3, AnswerType DEF g
  <2>5. [guests[g] EXCEPT !.turn = @ + 1] \in Row
    BY <2>1, <2>2 DEF Row
  <2>6. guests' = [guests EXCEPT ![g] = [guests[g] EXCEPT !.turn = @ + 1]]
    BY <1>0, <1>1 DEF g, RowInv
  <2>7. guests \in [DOMAIN guests -> Row]
    BY <1>0 DEF RowInv
  <2>8. /\ guests' \in [DOMAIN guests -> Row]
        /\ guests'[g] = [guests[g] EXCEPT !.turn = @ + 1]
        /\ \A h \in DOMAIN guests \ {g} : guests'[h] = guests[h]
    BY <2>1, <2>5, <2>6, <2>7
  <2>9. guests'[g].into = guests[g].into /\ guests'[g].email = guests[g].email
    BY <2>1, <2>8 DEF Row
  <2>10. \A h \in DOMAIN guests : guests'[h].into = guests[h].into /\ guests'[h].email = guests[h].email
    BY <2>8, <2>9
  <2>11. RowInv'
    BY <1>0, <2>4, <2>8, <2>10, SameForwards DEF Reconcile
  <2>12. ASSUME NEW u \in Transactions \ {t}, NEW x \in TxType, x = tx[u] PROVE TxGood(x)'
    <3>1. TxGood(x)
      BY <2>12 DEF IdentityInv
    <3> QED BY <1>0, <2>8, <2>10, <3>1, SameForwardsGood DEF Reconcile
  <2> QED BY <1>1, <2>11, <2>12, Ends DEF Reconcile
<1>2. CASE tx' = [tx EXCEPT ![t].at = "create"] /\ guests' = guests /\ cookie' = cookie /\ At(t, "judge")
  <2> DEFINE n == [v EXCEPT !.at = "create"]
  <2>1. n \in TxType
    BY DEF TxType
  <2>2. /\ n.at = "create" /\ n.held = v.held /\ n.op = v.op /\ n.email = v.email /\ n.guest = v.guest
        /\ n.target = v.target /\ n.wanted = v.wanted /\ n.todo = v.todo
    BY DEF TxType
  <2>3. tx' = [tx EXCEPT ![t] = n]
    BY <1>2 DEF IdentityInv
  <2> HIDE DEF n
  <2>4. TxGood(n)
    BY <1>0, <2>1, <2>2 DEF TxGood
  <2>5. n.held \subseteq tx[t].held /\ ~Deciding(n)
    BY <2>2 DEF Deciding
  <2> QED BY <1>0, <1>2, <2>1, <2>3, <2>4, <2>5, Carry DEF Reconcile
<1>3. CASE End(t) /\ guests' = guests /\ cookie' = cookie
  BY <1>3, Stops DEF Reconcile
<1> QED BY <1>1, <1>2, <1>3 DEF Reconcile

(* A new row has an id that nothing knows. *)
LEMMA CreateGuestStep ==
    ASSUME IdentityInv, NEW t \in Transactions, CreateGuest(t)
    PROVE  IdentityInv'
<1> HIDE DEF TxType
<1> DEFINE new == [into |-> None, expired |-> FALSE, email |-> None, turn |-> 0]
<1>0. RowInv /\ created \in Nat /\ created' = created + 1 /\ created' \in 2..MaxGuests
  BY Mine, ConstantFacts DEF CreateGuest, RowInv
<1>1. /\ created' \notin DOMAIN guests /\ created' \notin 1..created /\ created' \in Ids
      /\ DOMAIN guests \subseteq 1..created
  BY <1>0 DEF RowInv, Ids
<1>2. new \in Row /\ new.into = None /\ new.email = None
  BY ConstantFacts DEF Row
<1>3. guests' = With(guests, created', new)
  BY DEF CreateGuest
<1> HIDE DEF new
<1>4. /\ DOMAIN guests' = DOMAIN guests \cup {created'}
      /\ guests'[created'] = new
      /\ \A g \in DOMAIN guests : guests'[g] = guests[g]
      /\ guests' \in [DOMAIN guests' -> Row]
  BY <1>0, <1>1, <1>2, <1>3 DEF With, RowInv
<1>5. cookie' \in [Devices -> Tokens \cup {None}]
  <2>1. <<created', 0>> \in Tokens
    BY <1>1, ConstantFacts DEF Tokens
  <2> QED BY <1>0, <2>1, AnswerType DEF CreateGuest
<1>6. RowInv'
  <2>1. TombstonesForward'
    BY <1>0, <1>2, <1>4 DEF RowInv, TombstonesForward, Live
  <2>2. OwnersAreLive' /\ owners' \subseteq Ids
    BY <1>0, <1>4 DEF CreateGuest, RowInv, OwnersAreLive, Live
  <2>3. DOMAIN guests' \subseteq 1..created'
    BY <1>0, <1>1, <1>4
  <2>4. picks' \subseteq DOMAIN guests'
    BY <1>0, <1>4 DEF CreateGuest, RowInv
  <2> QED BY <1>0, <1>4, <1>5, <2>1, <2>2, <2>3, <2>4 DEF RowInv
<1>7. ASSUME NEW u \in Transactions \ {t}, NEW x \in TxType, x = tx[u] PROVE TxGood(x)'
  <2>1. TxGood(x) /\ x.held \subseteq DOMAIN guests
    BY <1>7 DEF IdentityInv, TxGood
  <2>2. created' \in Nat /\ created <= created'
    BY <1>0
  <2>3. \A i \in DOMAIN guests' : i \in DOMAIN guests \/ i \notin 1..created
    BY <1>1, <1>4
  <2>4. \A i \in x.held : Live(i) => Live(i)'
    BY <1>4, <2>1 DEF Live
  <2>5. \A i \in x.held : Tombstones(i)' \subseteq Tombstones(i)
    <3>1. None \notin DOMAIN guests
      BY <1>1, ConstantFacts
    <3> QED BY <1>2, <1>4, <2>1, <3>1 DEF Tombstones
  <2>6. x.at = "claim" => (HasOther(x.guest, x.email)' => HasOther(x.guest, x.email))
    <3>1. x.at = "claim" => x.email # None
      BY <2>1 DEF TxGood
    <3> QED BY <1>2, <1>4, <3>1 DEF HasOther
  <2> QED BY <1>0, <1>4, <2>1, <2>2, <2>3, <2>4, <2>5, <2>6, KeptGood
<1> QED BY <1>6, <1>7, Ends DEF CreateGuest

(* The e-mail of a claim is nobody else's, and nobody else is claiming it. *)
LEMMA ClaimEmailStep ==
    ASSUME IdentityInv, NEW t \in Transactions, ClaimEmail(t)
    PROVE  IdentityInv'
<1> HIDE DEF TxType
<1> PICK v \in TxType : v = tx[t]
  BY Mine
<1>0. RowInv /\ v.at = "claim" /\ v.email \in Emails \cup {None}
  BY Mine, TxFields DEF ClaimEmail, At
<1>1. /\ guests' \in [DOMAIN guests -> Row]
      /\ \A g \in DOMAIN guests : guests'[g].into = guests[g].into
      /\ \A g \in DOMAIN guests : guests'[g].email \in {guests[g].email, v.email}
  <2>1. CASE guests' = guests
    BY <1>0, <2>1 DEF RowInv
  <2>2. CASE v.guest \in DOMAIN guests /\ guests' = [guests EXCEPT ![v.guest].email = v.email]
    <3> DEFINE row == [guests[v.guest] EXCEPT !.email = v.email]
    <3>1. guests[v.guest] \in Row
      BY <1>0, <2>2 DEF RowInv
    <3>2. row \in Row /\ row.into = guests[v.guest].into /\ row.email = v.email
      BY <1>0, <3>1 DEF Row
    <3>3. guests' = [guests EXCEPT ![v.guest] = row]
      BY <1>0, <2>2 DEF RowInv
    <3> HIDE DEF row
    <3>4. guests \in [DOMAIN guests -> Row]
      BY <1>0 DEF RowInv
    <3>5. /\ guests' \in [DOMAIN guests -> Row]
          /\ guests'[v.guest] = row
          /\ \A h \in DOMAIN guests \ {v.guest} : guests'[h] = guests[h]
      BY <2>2, <3>2, <3>3, <3>4
    <3> QED BY <3>2, <3>5
  <2> QED BY <2>1, <2>2 DEF ClaimEmail
<1>2. RowInv'
  <2>1. cookie' \in [Devices -> Tokens \cup {None}]
    BY <1>0 DEF ClaimEmail, RowInv
  <2> QED BY <1>0, <1>1, <2>1, SameForwards DEF ClaimEmail
<1>3. ASSUME NEW u \in Transactions \ {t}, NEW x \in TxType, x = tx[u] PROVE TxGood(x)'
  <2>1. TxGood(x)
    BY <1>3 DEF IdentityInv
  <2>2. x.at = "claim" => x.email # v.email
    BY <1>0, <1>3 DEF IdentityInv, PairInv, Deciding
  <2>3. x.at = "claim" => \A g \in DOMAIN guests :
           guests'[g].email = x.email => g = x.guest \/ guests[g].email = x.email
    BY <1>1, <2>2
  <2> QED BY <1>0, <1>1, <2>1, <2>3, SameForwardsGood DEF ClaimEmail
<1> QED BY <1>2, <1>3, Ends DEF ClaimEmail

---------------------------------------------------------------------------
(* Merge and deletion *)

(* Everything a merge touches is locked by it: the source, its tombstones and *)
(* the target.                                                                *)
LEMMA MergeStep ==
    ASSUME IdentityInv, NEW t \in Transactions, Merge(t)
    PROVE  IdentityInv'
<1> HIDE DEF TxType
<1> PICK v \in TxType : v = tx[t]
  BY Mine
<1> PICK source : source = v.guest
  OBVIOUS
<1> PICK target : target = LiveTarget(v.target, v.wanted)
  OBVIOUS
<1>0. /\ RowInv /\ TxGood(v) /\ v.at = "merge" /\ v.todo = {}
      /\ Live(source) /\ Live(target) /\ target \in v.wanted /\ target # source
      /\ Tombstones(source) \subseteq v.wanted
      /\ owners' = Moved(owners, source, target) /\ picks' = Moved(picks, source, target)
      /\ Answer(v.device, Token(target))
  BY Mine DEF Merge, At
<1>1. /\ source \in DOMAIN guests /\ source \in Ids /\ source # None
      /\ target \in DOMAIN guests /\ target \in Ids /\ target # None /\ Token(target) \in Tokens
  BY <1>0, RowFacts, ConstantFacts DEF Live
<1>2. source \in v.held /\ target \in v.held /\ Tombstones(source) \subseteq v.held
  <2>1. source \in v.wanted
    BY <1>0 DEF TxGood
  <2>2. v.wanted \cap DOMAIN guests \subseteq v.held
    BY <1>0 DEF TxGood
  <2>3. Tombstones(source) \subseteq DOMAIN guests
    BY DEF Tombstones
  <2> QED BY <1>0, <1>1, <2>1, <2>2, <2>3
<1> DEFINE gone == [guests[source] EXCEPT !.into = target, !.email = None, !.expired = FALSE]
           flat(g) == [guests[g] EXCEPT !.into = target]
<1>3. guests' = [g \in DOMAIN guests |->
                   IF g = source THEN gone ELSE IF g \in Tombstones(source) THEN flat(g) ELSE guests[g]]
  BY DEF Merge, Flattened
<1>4. gone \in Row /\ gone.into = target /\ gone.email = None
  <2>1. guests[source] \in Row
    BY <1>0, <1>1, RowFacts
  <2> QED BY <1>1, <2>1, ConstantFacts DEF Row
<1>5. \A g \in DOMAIN guests :
         flat(g) \in Row /\ flat(g).into = target /\ flat(g).email = guests[g].email
  <2> TAKE g \in DOMAIN guests
  <2>1. guests[g] \in Row
    BY <1>0, RowFacts
  <2> QED BY <1>1, <2>1 DEF Row
<1> HIDE DEF gone, flat
<1>6. /\ guests' \in [DOMAIN guests -> Row] /\ DOMAIN guests' = DOMAIN guests
      /\ \A g \in DOMAIN guests :
            /\ g = source => guests'[g] = gone
            /\ g # source /\ g \in Tombstones(source) => guests'[g] = flat(g)
            /\ g # source /\ g \notin Tombstones(source) => guests'[g] = guests[g]
  <2>1. \A g \in DOMAIN guests : guests[g] \in Row
    BY <1>0, RowFacts
  <2> QED BY <1>3, <1>4, <1>5, <2>1
<1>7. \A g \in DOMAIN guests :
         /\ g = source \/ guests[g].into = source => guests'[g].into = target
         /\ g # source /\ guests[g].into # source => guests'[g].into = guests[g].into
         /\ guests'[g].email \in {guests[g].email, None}
  BY <1>4, <1>5, <1>6 DEF Tombstones
<1> HIDE DEF Live, Tombstones
<1>8. \A g : Live(g) /\ g # source => Live(g)'
  BY <1>1, <1>6, <1>7 DEF Live
<1>9. Live(target)'
  BY <1>0, <1>8
<1>10. RowInv'
  <2>1. ASSUME NEW g \in DOMAIN guests', NEW k, k = guests'[g].into, k # None PROVE Live(k)'
    <3>1. k = target \/ (k = guests[g].into /\ k # source)
      BY <1>6, <1>7, <2>1
    <3>2. CASE k = target
      BY <1>9, <3>2
    <3>3. CASE k = guests[g].into /\ k # source
      <4>1. Live(k)
        BY <1>0, <1>6, <2>1, <3>3, RowFacts
      <4> QED BY <1>8, <3>3, <4>1
    <3> QED BY <3>1, <3>2, <3>3
  <2>2. TombstonesForward'
    BY <2>1 DEF TombstonesForward, Live
  <2>3. owners' \subseteq Ids /\ picks' \subseteq DOMAIN guests
    BY <1>0, <1>1 DEF RowInv, Moved
  <2>4. OwnersAreLive'
    <3>1. \A g \in owners : Live(g)
      BY <1>0 DEF RowInv, OwnersAreLive
    <3>2. ASSUME NEW g \in owners' PROVE Live(g)'
      <4>1. g = target \/ (g \in owners /\ g # source)
        BY <1>0 DEF Moved
      <4> QED BY <1>8, <1>9, <3>1, <4>1
    <3> QED BY <3>2 DEF OwnersAreLive
  <2>5. cookie' \in [Devices -> Tokens \cup {None}]
    BY <1>0, <1>1, AnswerType
  <2>6. created' = created
    BY DEF Merge
  <2> QED BY <1>0, <1>6, <2>2, <2>3, <2>4, <2>5, <2>6 DEF RowInv
<1>11. ASSUME NEW u \in Transactions \ {t}, NEW x \in TxType, x = tx[u] PROVE TxGood(x)'
  <2>1. TxGood(x) /\ x.held \subseteq DOMAIN guests' /\ source \notin x.held /\ target \notin x.held
    <3>1. TxGood(x)
      BY <1>11 DEF IdentityInv
    <3>2. v.held \cap x.held = {}
      BY <1>11, Mine
    <3> QED BY <1>2, <1>6, <3>1, <3>2 DEF TxGood
  <2>2. created \in Nat /\ created' = created
    BY <1>0, RowFacts DEF Merge
  <2>3. \A i \in x.held : Live(i) => Live(i)'
    BY <1>8, <2>1
  <2>4. \A i \in x.held : Tombstones(i)' \subseteq Tombstones(i)
    BY <1>6, <1>7, <2>1 DEF Tombstones
  <2>5. x.at = "claim" => (HasOther(x.guest, x.email)' => HasOther(x.guest, x.email))
    <3>1. x.at = "claim" => x.email # None
      BY <2>1 DEF TxGood
    <3> QED BY <1>6, <1>7, <3>1 DEF HasOther
  <2> QED BY <1>6, <2>1, <2>2, <2>3, <2>4, <2>5, KeptGood
<1> QED BY <1>10, <1>11, Ends DEF Merge

(* So is everything a deletion takes: the guest and its tombstones. *)
LEMMA DeleteGuestStep ==
    ASSUME IdentityInv, NEW t \in Transactions, DeleteGuest(t)
    PROVE  IdentityInv'
<1> HIDE DEF TxType
<1> PICK v \in TxType : v = tx[t]
  BY Mine
<1> PICK g : g = v.guest
  OBVIOUS
<1>0. /\ RowInv /\ TxGood(v) /\ g \in v.held /\ Tombstones(g) \subseteq v.held
      /\ owners' = owners \ {g} /\ picks' = picks \ (Tombstones(g) \cup {g})
      /\ created' = created /\ cookie' = cookie
  BY Mine DEF DeleteGuest, At, TxGood
<1>1. /\ DOMAIN guests' = DOMAIN guests \ (Tombstones(g) \cup {g})
      /\ \A i \in DOMAIN guests' : guests'[i] = guests[i]
      /\ guests' \in [DOMAIN guests' -> Row]
  BY <1>0 DEF DeleteGuest, RowInv
<1>2. \A i : Live(i) /\ i # g => Live(i)'
  <2>1. None # g
    BY <1>0, RowFacts, ConstantFacts DEF TxGood
  <2> QED BY <1>1, <2>1 DEF Live, Tombstones
<1>3. RowInv'
  <2>1. TombstonesForward'
    <3>1. ASSUME NEW i \in DOMAIN guests', NEW k, k = guests'[i].into, k # None PROVE Live(k)'
      <4>1. guests'[i] = guests[i] /\ i \in DOMAIN guests /\ guests[i].into # g
        BY <1>1 DEF Tombstones
      <4>2. Live(k) /\ k # g
        BY <1>0, <3>1, <4>1, RowFacts
      <4> QED BY <1>2, <4>2
    <3> QED BY <3>1 DEF TombstonesForward, Live
  <2>2. OwnersAreLive'
    BY <1>0, <1>2 DEF RowInv, OwnersAreLive
  <2>3. owners' \subseteq Ids /\ picks' \subseteq DOMAIN guests'
    BY <1>0, <1>1 DEF RowInv
  <2> QED BY <1>0, <1>1, <2>1, <2>2, <2>3 DEF RowInv
<1>4. ASSUME NEW u \in Transactions \ {t}, NEW x \in TxType, x = tx[u] PROVE TxGood(x)'
  <2>1. TxGood(x) /\ v.held \cap x.held = {}
    BY <1>4, Mine DEF IdentityInv
  <2>2. x.held \subseteq DOMAIN guests' /\ g \notin x.held
    BY <1>0, <1>1, <2>1 DEF TxGood
  <2>3. created \in Nat
    BY <1>0, RowFacts
  <2>4. \A i \in x.held : Live(i) => Live(i)'
    BY <1>2, <2>2
  <2>5. \A i \in x.held : Tombstones(i)' \subseteq Tombstones(i)
    BY <1>1 DEF Tombstones
  <2>6. HasOther(x.guest, x.email)' => HasOther(x.guest, x.email)
    BY <1>1 DEF HasOther
  <2> QED BY <1>0, <1>1, <2>1, <2>2, <2>3, <2>4, <2>5, <2>6, KeptGood
<1> QED BY <1>3, <1>4, Ends DEF DeleteGuest

---------------------------------------------------------------------------
(* The steps outside the transactions *)

(* One UPDATE takes an e-mail away. *)
LEMMA RevokeEmailStep ==
    ASSUME IdentityInv, NEW t \in Transactions, NEW g \in Ids, RevokeEmail(t, g)
    PROVE  IdentityInv'
<1> HIDE DEF TxType
<1>0. RowInv /\ g \in DOMAIN guests
  BY DEF IdentityInv, RevokeEmail
<1> DEFINE row == [guests[g] EXCEPT !.email = None]
<1>1. guests[g] \in Row
  BY <1>0 DEF RowInv
<1>2. row \in Row /\ row.into = guests[g].into /\ row.email = None
  BY <1>1 DEF Row
<1>3. guests' = [guests EXCEPT ![g] = row] /\ guests \in [DOMAIN guests -> Row]
  BY <1>0 DEF RowInv, RevokeEmail
<1> HIDE DEF row
<1>4. /\ guests' \in [DOMAIN guests -> Row] /\ guests'[g] = row
      /\ \A h \in DOMAIN guests \ {g} : guests'[h] = guests[h]
  BY <1>0, <1>2, <1>3
<1>5. /\ \A h \in DOMAIN guests : guests'[h].into = guests[h].into
      /\ \A h \in DOMAIN guests : guests'[h].email \in {guests[h].email, None}
  BY <1>2, <1>4
<1>6. RowInv'
  <2>1. cookie' \in [Devices -> Tokens \cup {None}]
    BY <1>0 DEF RevokeEmail, RowInv
  <2> QED BY <1>0, <1>4, <1>5, <2>1, SameForwards DEF RevokeEmail
<1>7. ASSUME NEW u \in Transactions, NEW x \in TxType, x = tx[u] PROVE TxGood(x)'
  <2>1. TxGood(x)
    BY <1>7 DEF IdentityInv
  <2>2. x.at = "claim" => \A h \in DOMAIN guests :
           guests'[h].email = x.email => h = x.guest \/ guests[h].email = x.email
    BY <1>5, <2>1 DEF TxGood
  <2> QED BY <1>0, <1>4, <1>5, <2>1, <2>2, SameForwardsGood DEF RevokeEmail
<1>8. begun' \in 0..MaxOps
  BY ConstantFacts DEF IdentityInv, RevokeEmail
<1> QED BY <1>6, <1>7, <1>8, Aside DEF RevokeEmail

(* A cookie's age only ends the forwarding of its token. *)
LEMMA ExpireStep ==
    ASSUME IdentityInv, NEW g \in Ids, Expire(g)
    PROVE  IdentityInv'
<1> HIDE DEF TxType
<1>0. RowInv /\ g \in DOMAIN guests
  BY DEF IdentityInv, Expire
<1> DEFINE row == [guests[g] EXCEPT !.expired = TRUE]
<1>1. guests[g] \in Row
  BY <1>0 DEF RowInv
<1>2. row \in Row /\ row.into = guests[g].into /\ row.email = guests[g].email
  BY <1>1 DEF Row
<1>3. guests' = [guests EXCEPT ![g] = row] /\ guests \in [DOMAIN guests -> Row]
  BY <1>0 DEF RowInv, Expire
<1> HIDE DEF row
<1>4. /\ guests' \in [DOMAIN guests -> Row] /\ guests'[g] = row
      /\ \A h \in DOMAIN guests \ {g} : guests'[h] = guests[h]
  BY <1>0, <1>2, <1>3
<1>5. \A h \in DOMAIN guests : guests'[h].into = guests[h].into /\ guests'[h].email = guests[h].email
  BY <1>2, <1>4
<1>6. RowInv'
  <2>1. cookie' \in [Devices -> Tokens \cup {None}]
    BY <1>0 DEF Expire, RowInv
  <2> QED BY <1>0, <1>4, <1>5, <2>1, SameForwards DEF Expire
<1>7. ASSUME NEW u \in Transactions, NEW x \in TxType, x = tx[u] PROVE TxGood(x)'
  <2>1. TxGood(x)
    BY <1>7 DEF IdentityInv
  <2> QED BY <1>0, <1>4, <1>5, <2>1, SameForwardsGood DEF Expire
<1> QED BY <1>6, <1>7, Aside DEF Expire, IdentityInv

(* Losing a cookie changes nothing on the server. *)
LEMMA LoseCookieStep ==
    ASSUME IdentityInv, NEW d \in Devices, LoseCookie(d)
    PROVE  IdentityInv'
<1> HIDE DEF TxType
<1>1. RowInv'
  BY DEF IdentityInv, LoseCookie, RowInv, TombstonesForward, OwnersAreLive, Live
<1>2. ASSUME NEW u \in Transactions, NEW x \in TxType, x = tx[u] PROVE TxGood(x)'
  <2>1. TxGood(x)
    BY <1>2 DEF IdentityInv
  <2> QED BY <2>1, SameGood DEF LoseCookie
<1> QED BY <1>1, <1>2, Aside DEF LoseCookie, IdentityInv

---------------------------------------------------------------------------
(* The invariant *)

(* The two guests of an earlier evening: nothing is merged, nothing is held. *)
LEMMA InitEstablishes == Init => IdentityInv
<1> HIDE DEF TxType
<1> SUFFICES ASSUME Init PROVE IdentityInv
  OBVIOUS
<1>1. tx \in [Transactions -> TxType] /\ \A t \in Transactions : tx[t] = Idle
  BY IdleType DEF Init
<1>2. \A t \in Transactions, x \in TxType : x = tx[t] => TxGood(x)
  BY <1>1, IdleGood
<1>3. PairInv
  BY <1>1, IdleType DEF PairInv, Deciding
<1>4. RowInv
  <2> PICK email \in [1..2 -> Emails \cup {None}] :
        guests = [i \in 1..2 |-> [into |-> None, expired |-> FALSE, email |-> email[i], turn |-> 0]]
    BY DEF Init
  <2>1. DOMAIN guests = 1..2 /\ \A i \in 1..2 : guests[i].into = None
    OBVIOUS
  <2>2. guests \in [DOMAIN guests -> Row]
    BY <2>1, ConstantFacts DEF Row
  <2>3. created \in 2..MaxGuests /\ DOMAIN guests \subseteq 1..created
    BY <2>1, ConstantFacts DEF Init
  <2>4. cookie \in [Devices -> Tokens \cup {None}]
    <3>1. {None, <<1, 0>>, <<2, 0>>} \subseteq Tokens \cup {None}
      BY ConstantFacts DEF Tokens, Ids
    <3> QED BY <3>1 DEF Init
  <2>5. TombstonesForward /\ OwnersAreLive /\ owners \subseteq Ids /\ picks \subseteq DOMAIN guests
    BY <2>1 DEF Init, TombstonesForward, OwnersAreLive
  <2> QED BY <2>2, <2>3, <2>4, <2>5 DEF RowInv
<1>5. begun \in 0..MaxOps
  BY ConstantFacts DEF Init
<1> QED BY <1>1, <1>2, <1>3, <1>4, <1>5 DEF IdentityInv

(* Every step keeps it. *)
LEMMA NextPreserves == IdentityInv /\ [Next]_vars => IdentityInv'
<1> HIDE DEF TxType
<1> SUFFICES ASSUME IdentityInv, [Next]_vars PROVE IdentityInv'
  OBVIOUS
<1>1. CASE UNCHANGED vars
  <2>1. RowInv'
    BY <1>1 DEF vars, IdentityInv, RowInv, TombstonesForward, OwnersAreLive, Live
  <2>2. ASSUME NEW u \in Transactions, NEW x \in TxType, x = tx[u] PROVE TxGood(x)'
    <3>1. TxGood(x)
      BY <2>2 DEF IdentityInv
    <3> QED BY <1>1, <3>1, SameGood DEF vars
  <2> QED BY <1>1, <2>1, <2>2, Aside DEF vars, IdentityInv
<1>2. ASSUME NEW t \in Transactions, Serve(t) PROVE IdentityInv'
  <2>1. CASE \E d \in Devices, op \in {"identify", "write", "pick", "ask", "confirm"}, e \in Emails \cup {None} :
                BeginRequest(t, d, op, e)
    BY <2>1, BeginRequestStep
  <2>2. CASE \E i \in Ids : LockRow(t, i)
    BY <2>2, LockRowStep
  <2>3. CASE \E i \in Ids : Match(t, i)
    BY <2>3, MatchStep
  <2>4. CASE \E i \in Ids : BeginDelete(t, i)
    BY <2>4, BeginDeleteStep
  <2>5. CASE \E i \in Ids : RevokeEmail(t, i)
    BY <2>5, RevokeEmailStep
  <2>6. CASE Refuse(t)
    BY <2>6, Stops DEF Refuse
  <2>7. CASE SendCode(t)
    BY <2>7, Stops DEF SendCode
  <2>8. CASE Deadlocked(t)
    BY <2>8, Stops DEF Deadlocked
  <2>9. CASE ResolveByToken(t)
    BY <2>9, ResolveByTokenStep
  <2>10. CASE WriteOwned(t)
    BY <2>10, WriteOwnedStep
  <2>11. CASE CookieHit(t)
    BY <2>11, CookieHitStep
  <2>12. CASE Reconcile(t)
    BY <2>12, ReconcileStep
  <2>13. CASE CreateGuest(t)
    BY <2>13, CreateGuestStep
  <2>14. CASE ConfirmCode(t)
    BY <2>14, ConfirmCodeStep
  <2>15. CASE DecideOwner(t)
    BY <2>15, DecideOwnerStep
  <2>16. CASE ClaimEmail(t)
    BY <2>16, ClaimEmailStep
  <2>17. CASE Merge(t)
    BY <2>17, MergeStep
  <2>18. CASE WidenMerge(t)
    BY <2>18, WidenMergeStep
  <2>19. CASE Scrub(t)
    BY <2>19, ScrubStep
  <2>20. CASE DeleteGuest(t)
    BY <2>20, DeleteGuestStep
  <2>21. CASE PickCounts(t)
    BY <2>21, PickCountsStep
  <2>22. CASE PickWrites(t)
    BY <2>22, PickWritesStep
  <2> QED BY <1>2, <2>1, <2>2, <2>3, <2>4, <2>5, <2>6, <2>7, <2>8, <2>9, <2>10, <2>11, <2>12,
             <2>13, <2>14, <2>15, <2>16, <2>17, <2>18, <2>19, <2>20, <2>21, <2>22 DEF Serve
<1>3. ASSUME NEW g \in Ids, Expire(g) PROVE IdentityInv'
  BY <1>3, ExpireStep
<1>4. ASSUME NEW d \in Devices, LoseCookie(d) PROVE IdentityInv'
  BY <1>4, LoseCookieStep
<1> QED BY <1>1, <1>2, <1>3, <1>4 DEF Next

(* Locks and rows agree in every behaviour: what a transaction was granted is *)
(* still there, and what it has resolved under its locks still holds.         *)
THEOREM LocksProtectRows == Spec => []IdentityInv
<1>1. Init => IdentityInv
  BY InitEstablishes
<1>2. IdentityInv /\ [Next]_vars => IdentityInv'
  BY NextPreserves
<1> QED BY <1>1, <1>2, PTL DEF Spec

---------------------------------------------------------------------------
(* What the runs check, for every value of the constants *)

(* Rows are of their types, and no two transactions hold one lock *)
(* (guest_identity.py:56-75).                                     *)
THEOREM GuestIdentityTypes == Spec => []GuestIdentityTypeOK
<1>1. IdentityInv => GuestIdentityTypeOK
  <2> SUFFICES ASSUME IdentityInv PROVE GuestIdentityTypeOK
    OBVIOUS
  <2>1. created \in 0..MaxGuests /\ DOMAIN guests \subseteq 1..created /\ owners \cup picks \subseteq Ids
    BY ConstantFacts, RowFacts DEF IdentityInv, RowInv
  <2>2. \A g \in DOMAIN guests : guests[g] \in Row
    BY DEF IdentityInv, RowInv
  <2>3. \A d \in Devices : cookie[d] \in Tokens \cup {None}
    BY DEF IdentityInv, RowInv
  <2>4. \A t, u \in Transactions : t # u => tx[t].held \cap tx[u].held = {}
    BY DEF IdentityInv, PairInv
  <2> QED BY <2>1, <2>2, <2>3, <2>4 DEF GuestIdentityTypeOK
<1> QED BY <1>1, LocksProtectRows, PTL

(* A confirmation that has decided to claim its e-mail finds it unclaimed     *)
(* when it writes, however many guests confirm the address at once            *)
(* (email_verification.py:195-227).                                           *)
THEOREM EmailHasOneOwner == Spec => []OneEmailOwner
<1>1. IdentityInv => OneEmailOwner
  <2> SUFFICES ASSUME IdentityInv, NEW t \in Transactions, tx[t].at = "claim"
               PROVE  ~HasOther(tx[t].guest, tx[t].email)
    BY DEF OneEmailOwner
  <2>1. TxGood(tx[t])
    BY Mine
  <2> QED BY <2>1 DEF TxGood
<1> QED BY <1>1, LocksProtectRows, PTL

(* However merges and deletions interleave, a tombstone forwards to a live    *)
(* guest in one hop (guest_merge.py:167-174, admin_guests.py:124-126).        *)
THEOREM TombstonesNeverDangle == Spec => []TombstonesForward
<1>1. IdentityInv => TombstonesForward
  BY DEF IdentityInv, RowInv
<1> QED BY <1>1, LocksProtectRows, PTL

(* What a request writes under the lock its cookie was resolved with - a      *)
(* request, a vote, the count of a pick - never belongs to a tombstone or to  *)
(* a deleted guest (guest_identity.py:91-99, rate_limit.py:125-128).          *)
THEOREM WritesHaveLiveOwners == Spec => []OwnersAreLive
<1>1. IdentityInv => OwnersAreLive
  BY DEF IdentityInv, RowInv
<1> QED BY <1>1, LocksProtectRows, PTL

(* A pick that its own guest's merge overtook is one hop from the survivor,   *)
(* whatever is merged or deleted afterwards (api/collect.py:466-494).         *)
THEOREM PicksReachGuests == Spec => []PickReachesGuest
<1>1. IdentityInv => PickReachesGuest
  <2> SUFFICES ASSUME IdentityInv, NEW g \in picks
               PROVE  Live(g) \/ (g \in DOMAIN guests /\ Live(guests[g].into))
    BY DEF PickReachesGuest
  <2>1. g \in DOMAIN guests /\ (guests[g].into # None => Live(guests[g].into))
    BY DEF IdentityInv, RowInv, TombstonesForward
  <2> QED BY <2>1 DEF Live
<1> QED BY <1>1, LocksProtectRows, PTL
=============================================================================

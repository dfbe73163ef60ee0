------------------------- MODULE NowPlayingProofs -------------------------
(* Proofs about NowPlaying, for any requests, workers and number of HTTP      *)
(* requests.  NowPlayingInv is inductive and implies every safety property    *)
(* that the runs check of it.  Its parts:                                     *)
(*   SessionInv   what a worker holds in each phase;                          *)
(*   OrdersInv    the orders in the history are 1..n, and no order read by a  *)
(*                worker is above n + 1;                                      *)
(*   ClearInv     the row a clear has locked is the row it loaded;            *)
(*   FreshInv     a worker that has not written the row yet has a number that *)
(*                no row, loaded row or cleared entry carries;                *)
(*   DjInv        of two requests a DJ has PLAYING, one still has a PATCH in  *)
(*                progress that will retire the other;                        *)
(*   SerialInv    while requests never overlapped, what the one worker that   *)
(*                is busy has read is still so, phase by phase.               *)
EXTENDS NowPlaying, FiniteSetTheorems, TLAPS

---------------------------------------------------------------------------
(* The inductive invariant *)

(* The phases of a PATCH; those that write the history; those that have yet to *)
(* write the row.                                                               *)
PatchPhases == {"patching", "scanning", "retiring_others", "showing", "upserting_manual",
                "retiring", "blanking", "recording", "adding"}
Archiving == {"upserting", "clearing", "upserting_manual", "blanking", "adding"}
Unwritten == {"posting", "upserting", "clearing", "bulk"} \cup (PatchPhases \ {"recording", "adding"})
Phases == {"idle", "posting", "upserting", "clearing", "bulk"} \cup PatchPhases

SessionType == [at : Phases, id : 0..MaxOps, req : Requests \cup {None},
                to : Tracks \cup Statuses \cup {None}, read : SUBSET Requests,
                loaded : Rows, order : Nat]
Entries == [order : Nat \ {0}, title : Tracks, matched : Requests \cup {None},
            source : {"bridge", "manual"}, started : 0..MaxOps,
            by : {"post", "clear", "manual", "retire", "add"}]

SessionInv ==
    \A s \in Sessions :
        /\ session[s].at \in {"posting", "upserting"} => session[s].to \in Tracks
        /\ session[s].at \in PatchPhases => session[s].req \in Requests
        /\ session[s].at = "patching" => session[s].to \in Statuses
        /\ session[s].at = "bulk" => session[s].to \in {"accepted", "rejected"}
        /\ session[s].at = "blanking" => session[s].loaded.exists

TypeInv ==
    /\ status \in [Requests -> Statuses \cup {"deleted"}]
    /\ row \in Rows
    /\ history \in Seq(Entries)
    /\ lock \in Sessions \cup {None}
    /\ session \in [Sessions -> SessionType]
    /\ begun \in 0..MaxOps
    /\ byDj \subseteq Requests
    /\ overlapped \in BOOLEAN
    /\ SessionInv

Orders == {history[i].order : i \in DOMAIN history}

OrdersUpTo(n) ==
    /\ Orders = 1..n
    /\ \A s \in Sessions : session[s].at \in Archiving => session[s].order \in 1..(n + 1)

OrdersInv == \E n \in Nat : OrdersUpTo(n)

ClearInv ==
    /\ \A s \in Sessions : session[s].at = "clearing" <=> lock = s
    /\ \A s \in Sessions : session[s].at = "clearing" =>
          /\ session[s].loaded = row
          /\ row.exists /\ row.title # None
    /\ ~row.exists => row.title = None /\ row.started = 0

(* The plays that the bridge's DELETE has archived *)
Cleared == {history[i].started : i \in {j \in DOMAIN history : history[j].by = "clear"}}

FreshInv ==
    /\ \A s \in Sessions : session[s].at # "idle" => session[s].id \in 1..begun
    /\ \A s \in Sessions : session[s].loaded.started <= begun
    /\ row.started <= begun
    /\ \A i \in DOMAIN history : history[i].started <= begun
    /\ \A s, t \in Sessions :
          session[s].at # "idle" /\ session[t].at # "idle" /\ session[s].id = session[t].id => s = t
    /\ \A s \in Sessions : session[s].at \in Unwritten =>
          /\ session[s].id # row.started
          /\ session[s].id \notin Cleared
          /\ \A t \in Sessions : session[t].loaded.started # session[s].id
    /\ row.started \notin Cleared
    /\ ClearsArchiveOnce

Retires(s, r, q) ==
    /\ session[s].req = r
    /\ \/ session[s].at = "scanning"
       \/ session[s].at = "retiring_others" /\ q \in session[s].read

DjInv ==
    \A r, q \in byDj \cap Playing :
        r # q => \E s \in Sessions : Retires(s, r, q) \/ Retires(s, q, r)

(* Quiescent and serial: what is PLAYING is on the row, what is PLAYED is in the *)
(* history.                                                                      *)
InHistory(r) == \E i \in DOMAIN history : history[i].matched = r
Shown(r) == row.title = r /\ row.matched = r
ShownPlaying == \A r \in Playing : Shown(r)
PlayedInHistory == \A r \in Requests : status[r] = "played" => InHistory(r)

(* What the only busy worker knows, phase by phase *)
SerialPhase(self) ==
    /\ self.at \in {"posting", "upserting", "clearing", "patching", "bulk"} =>
          ShownPlaying /\ PlayedInHistory
    /\ self.at \in {"upserting", "upserting_manual", "blanking"} => self.loaded = row
    /\ self.at = "posting" => self.req \in {None, self.to}
    /\ self.at = "upserting" => self.req \in {None, self.to}
    /\ self.at = "upserting" => self.read = Playing
    /\ self.at = "clearing" => self.read = Playing
    /\ self.at = "patching" => self.to \in ValidTransitions[status[self.req]]
    /\ self.at \in {"scanning", "retiring_others"} =>
          /\ PlayedInHistory
          /\ \A r \in Playing \ {self.req} : Shown(r)
    /\ self.at = "retiring_others" => self.read = Playing \ {self.req}
    /\ self.at \in PatchPhases => status[self.req] # "deleted"
    /\ self.at \in {"showing", "upserting_manual"} =>
          /\ Playing \subseteq {self.req}
          /\ \A r \in Requests : status[r] = "played" => InHistory(r) \/ Shown(r)
    /\ self.at \in {"retiring", "blanking", "recording", "adding"} =>
          /\ Playing = {}
          /\ \A r \in Requests \ {self.req} : status[r] = "played" => InHistory(r)

(* A deletion cuts the row's link, so the row is linked to no deleted request. *)
RowLives == \A r \in Requests : row.matched = r => status[r] # "deleted"

SerialInv ==
    /\ RowLives
    /\ ~overlapped =>
           /\ \A s, t \in Sessions : session[s].at # "idle" /\ session[t].at # "idle" => s = t
           /\ \A s \in Sessions : SerialPhase(session[s])
           /\ Quiescent => ShownPlaying /\ PlayedInHistory

NowPlayingInv ==
    TypeInv /\ OrdersInv /\ ClearInv /\ FreshInv /\ DjInv /\ SerialInv

---------------------------------------------------------------------------
(* Records and rows *)

\* What an idle worker holds
LEMMA IdleType ==
  /\ Idle \in SessionType
  /\ Idle.at = "idle" /\ Idle.id = 0 /\ Idle.req = None /\ Idle.to = None
  /\ Idle.read = {} /\ Idle.loaded = NoRow /\ Idle.order = 0
  /\ NoRow \in Rows /\ NoRow.title = None /\ NoRow.started = 0 /\ NoRow.matched = None
  /\ NoRow.exists = FALSE
<1>1. NoRow \in Rows /\ NoRow.title = None /\ NoRow.started = 0 /\ NoRow.matched = None
      /\ NoRow.exists = FALSE
  BY NowPlayingAssumption DEF NoRow, Rows
<1>2. QED
  BY <1>1, NowPlayingAssumption DEF Idle, SessionType, Phases

\* A merged row is a row: each column is the new one or the one in the database.
LEMMA MergeType ==
  ASSUME row \in Rows, NEW loaded \in Rows, NEW new \in Rows
  PROVE  /\ Merge(loaded, new) \in Rows
         /\ Merge(loaded, new).exists = IF new.exists = loaded.exists THEN row.exists ELSE new.exists
         /\ Merge(loaded, new).title = IF new.title = loaded.title THEN row.title ELSE new.title
         /\ Merge(loaded, new).matched = IF new.matched = loaded.matched THEN row.matched ELSE new.matched
         /\ Merge(loaded, new).started = IF new.started = loaded.started THEN row.started ELSE new.started
         /\ loaded = row => Merge(loaded, new) = new
<1> DEFINE F == {"exists", "title", "source", "matched", "started"}
<1>1. DOMAIN row = F /\ DOMAIN new = F /\ DOMAIN loaded = F
  BY DEF Rows
<1> DEFINE m == Merge(loaded, new)
<1>2. m = [f \in F |-> IF new[f] = loaded[f] THEN row[f] ELSE new[f]]
  BY <1>1 DEF Merge
<1>3. /\ m["exists"] = IF new["exists"] = loaded["exists"] THEN row["exists"] ELSE new["exists"]
      /\ m["title"] = IF new["title"] = loaded["title"] THEN row["title"] ELSE new["title"]
      /\ m["source"] = IF new["source"] = loaded["source"] THEN row["source"] ELSE new["source"]
      /\ m["matched"] = IF new["matched"] = loaded["matched"] THEN row["matched"] ELSE new["matched"]
      /\ m["started"] = IF new["started"] = loaded["started"] THEN row["started"] ELSE new["started"]
  BY <1>2
<1>4. m = [exists |-> m["exists"], title |-> m["title"], source |-> m["source"],
           matched |-> m["matched"], started |-> m["started"]]
  BY <1>2
<1>5. m \in Rows
  BY <1>3, <1>4 DEF Rows
<1>6. loaded = row => m = new
  BY <1>1, <1>2, <1>3 DEF Rows
<1>7. QED
  BY <1>3, <1>5, <1>6

\* A worker's turn changes what it holds and nobody else's.
LEMMA TurnStep ==
  ASSUME session \in [Sessions -> SessionType], NEW s \in Sessions, NEW n \in SessionType, Turn(s, n)
  PROVE  /\ session' \in [Sessions -> SessionType]
         /\ session'[s] = n
         /\ \A t \in Sessions \ {s} : session'[t] = session[t]
BY DEF Turn

\* A worker that begins a request has its number.
LEMMA BeginStep ==
  ASSUME session \in [Sessions -> SessionType], begun \in 0..MaxOps,
         NEW s \in Sessions, NEW f \in SessionType, Begin(s, f)
  PROVE  /\ session[s].at = "idle" /\ begun' = begun + 1 /\ begun' \in 1..MaxOps
         /\ overlapped' = (overlapped \/ ~Quiescent)
         /\ session' \in [Sessions -> SessionType]
         /\ \A t \in Sessions \ {s} : session'[t] = session[t]
         /\ session'[s] \in SessionType
         /\ session'[s].at = f.at /\ session'[s].id = begun + 1 /\ session'[s].req = f.req
         /\ session'[s].to = f.to /\ session'[s].read = f.read
         /\ session'[s].loaded = f.loaded /\ session'[s].order = f.order
<1> DEFINE n == [f EXCEPT !.id = begun + 1]
<1>1. begun + 1 \in 1..MaxOps
  BY NowPlayingAssumption DEF Begin
<1>2. /\ n \in SessionType /\ n.at = f.at /\ n.id = begun + 1 /\ n.req = f.req
      /\ n.to = f.to /\ n.read = f.read /\ n.loaded = f.loaded /\ n.order = f.order
  BY <1>1 DEF SessionType
<1>3. Turn(s, n)
  BY DEF Begin
<1> HIDE DEF n
<1>4. session' \in [Sessions -> SessionType] /\ session'[s] = n
      /\ \A t \in Sessions \ {s} : session'[t] = session[t]
  BY <1>2, <1>3, TurnStep
<1>5. QED
  BY <1>1, <1>2, <1>4 DEF Begin

\* The next order is one above the greatest.
LEMMA NextOrder ==
  ASSUME NEW n \in Nat, Orders = 1..n
  PROVE  NextPlayOrder = n + 1
<1>1. CASE n = 0
  <2>1. Orders = {}
    BY <1>1
  <2>2. QED
    BY <1>1, <2>1 DEF NextPlayOrder, Orders
<1>2. CASE n # 0
  <2>1. n \in 1..n /\ \A k \in 1..n : k <= n
    BY <1>2
  <2> DEFINE m == CHOOSE m \in Orders : \A k \in Orders : k <= m
  <2>2. \E x \in Orders : \A k \in Orders : k <= x
    BY <2>1
  <2>3. m \in Orders /\ \A k \in Orders : k <= m
    BY <2>2
  <2>4. m = n
    <3> HIDE DEF m
    <3> QED BY <2>1, <2>3
  <2>5. Orders # {}
    BY <2>1
  <2>6. NextPlayOrder = 1 + m
    BY <2>5 DEF NextPlayOrder, Orders
  <2> HIDE DEF m
  <2>7. QED
    BY <2>4, <2>6
<1>3. QED
  BY <1>1, <1>2

\* A worker that loads the row holds it and the next order.
LEMMA LoadingType ==
  ASSUME TypeInv, OrdersInv, NEW s \in Sessions, NEW at \in Phases
  PROVE  /\ Loading(s, at) \in SessionType
         /\ Loading(s, at).at = at /\ Loading(s, at).id = session[s].id
         /\ Loading(s, at).req = session[s].req /\ Loading(s, at).to = session[s].to
         /\ Loading(s, at).read = session[s].read
         /\ Loading(s, at).loaded = row /\ Loading(s, at).order = NextPlayOrder
<1> DEFINE o == NextPlayOrder
<1>1. o \in Nat
  BY NextOrder DEF OrdersInv, OrdersUpTo
<1>2. session[s] \in SessionType /\ row \in Rows
  BY DEF TypeInv
<1> DEFINE x == session[s]
<1>3. Loading(s, at) = [x EXCEPT !.at = at, !.loaded = row, !.order = o]
  BY DEF Loading
<1> HIDE DEF x, o
<1>4. x \in SessionType
  BY <1>2 DEF x
<1> DEFINE y == [x EXCEPT !.at = at, !.loaded = row, !.order = o]
<1>5. /\ y \in SessionType /\ y.at = at /\ y.id = x.id /\ y.req = x.req /\ y.to = x.to
      /\ y.read = x.read /\ y.loaded = row /\ y.order = o
  BY <1>1, <1>2, <1>4 DEF SessionType
<1>6. QED
  BY <1>3, <1>5 DEF x, o

\* What a worker archives is an entry of the play it loaded, with the order it read.
LEMMA ArchivedType ==
  ASSUME history \in Seq(Entries), NEW self \in SessionType, self.order \in Nat \ {0},
         NEW by \in {"post", "clear", "manual", "retire", "add"}
  PROVE  /\ Archived(self, by) \in Seq(Entries)
         /\ self.loaded.title = None => Archived(self, by) = history
         /\ self.loaded.title # None =>
              \E e \in Entries :
                 /\ Archived(self, by) = Append(history, e)
                 /\ e.order = self.order /\ e.title = self.loaded.title
                 /\ e.matched = self.loaded.matched
                 /\ e.started = self.loaded.started /\ e.by = by
<1>1. CASE self.loaded.title = None
  BY <1>1 DEF Archived
<1>2. CASE self.loaded.title # None
  <2> DEFINE e == [order |-> self.order, title |-> self.loaded.title,
                   matched |-> self.loaded.matched, source |-> self.loaded.source,
                   started |-> self.loaded.started, by |-> by]
  <2>1. self.loaded \in Rows
    BY DEF SessionType
  <2>2. /\ e \in Entries /\ e.order = self.order /\ e.title = self.loaded.title
        /\ e.matched = self.loaded.matched /\ e.started = self.loaded.started /\ e.by = by
    BY <1>2, <2>1 DEF Rows, Entries
  <2>3. Archived(self, by) = Append(history, e)
    BY <1>2 DEF Archived
  <2> HIDE DEF e
  <2>4. Append(history, e) \in Seq(Entries)
    BY <2>2
  <2>5. QED
    BY <1>2, <2>2, <2>3, <2>4
<1>3. QED
  BY <1>1, <1>2

\* Appending keeps the entries there were.
LEMMA Appending ==
  ASSUME NEW h \in Seq(Entries), NEW e \in Entries
  PROVE  /\ Append(h, e) \in Seq(Entries)
         /\ DOMAIN Append(h, e) = DOMAIN h \cup {Len(h) + 1}
         /\ Len(h) + 1 \notin DOMAIN h
         /\ \A i \in DOMAIN h : Append(h, e)[i] = h[i]
         /\ Append(h, e)[Len(h) + 1] = e
OBVIOUS

---------------------------------------------------------------------------
(* What every action of a worker has in common *)

NumberStep(s) ==
    \/ session[s].at = "idle" /\ begun' = begun + 1 /\ session'[s].id = begun + 1
    \/ /\ begun' = begun /\ session[s].at # "idle"
       /\ session'[s].at # "idle" => session'[s].id = session[s].id

HistoryStep(s) ==
    \/ history' = history
    \/ \E e \in Entries :
          /\ history' = Append(history, e)
          /\ session[s].at \in Archiving /\ e.order = session[s].order
          /\ e.started \in {session[s].loaded.started, session[s].id}
          /\ e.by = "clear" => session[s].at = "clearing" /\ e.started = session[s].loaded.started

RowStep(s) ==
    /\ \/ row' = row
       \/ /\ Unlocked(s)
          /\ row'.started = session[s].id /\ row'.exists
          /\ session[s].at \in Unwritten /\ session'[s].at \notin Unwritten
    /\ session[s].at = "clearing" => history' = history \/ row'.started = session[s].id

LockStep(s) ==
    \/ lock' = lock /\ session[s].at # "clearing" /\ session'[s].at # "clearing"
    \/ /\ lock = None /\ lock' = s /\ session[s].at = "idle" /\ session'[s].at = "clearing"
       /\ session'[s].loaded = row /\ row.exists /\ row.title # None /\ row' = row
    \/ session[s].at = "clearing" /\ lock' = None /\ session'[s].at # "clearing"

Step(s) ==
    /\ \A t \in Sessions \ {s} : session'[t] = session[t]
    /\ NumberStep(s)
    /\ session'[s].loaded \in {session[s].loaded, row, NoRow}
    /\ session'[s].at \in Archiving => history' = history /\ session'[s].order = NextPlayOrder
    /\ session'[s].at \in Unwritten => session[s].at \in Unwritten \cup {"idle"}
    /\ HistoryStep(s) /\ RowStep(s) /\ LockStep(s)

\* The orders that workers have read stay within reach of the history.
LEMMA StepKeepsOrders ==
  ASSUME TypeInv, TypeInv', OrdersInv, NEW s \in Sessions, Step(s)
  PROVE  OrdersInv'
<1>1. PICK n \in Nat : OrdersUpTo(n)
  BY DEF OrdersInv
<1>2. Orders = 1..n /\ \A t \in Sessions : session[t].at \in Archiving => session[t].order \in 1..(n + 1)
  BY <1>1 DEF OrdersUpTo
<1>3. NextPlayOrder = n + 1
  BY <1>2, NextOrder
<1>4. history \in Seq(Entries)
  BY DEF TypeInv
<1>5. CASE history' = history
  <2>1. Orders' = 1..n
    BY <1>2, <1>5 DEF Orders
  <2>2. n + 1 \in 1..(n + 1)
    OBVIOUS
  <2>3. \A t \in Sessions : session'[t].at \in Archiving => session'[t].order \in 1..(n + 1)
    BY <1>2, <1>3, <2>2 DEF Step
  <2>4. QED
    BY <2>1, <2>3 DEF OrdersInv, OrdersUpTo
<1>6. CASE history' # history
  <2>1. PICK e \in Entries : /\ history' = Append(history, e)
                             /\ session[s].at \in Archiving /\ e.order = session[s].order
    BY <1>6 DEF Step, HistoryStep
  <2>2. session'[s].at \notin Archiving
    BY <1>6 DEF Step
  <2>3. e.order \in 1..(n + 1)
    BY <1>2, <2>1
  <2> DEFINE m == IF e.order = n + 1 THEN n + 1 ELSE n
  <2>4. Orders' = Orders \cup {e.order}
    BY <1>4, <2>1, Appending DEF Orders
  <2>5. m \in Nat /\ 1..n \cup {e.order} = 1..m /\ n <= m
    BY <2>3
  <2> HIDE DEF m
  <2>6. Orders' = 1..m
    BY <1>2, <2>4, <2>5
  <2>7. 1..(n + 1) \subseteq 1..(m + 1)
    BY <2>5
  <2>8. \A t \in Sessions : session'[t].at \in Archiving => session'[t].order \in 1..(m + 1)
    BY <1>2, <2>2, <2>7 DEF Step
  <2>9. QED
    BY <2>5, <2>6, <2>8 DEF OrdersInv, OrdersUpTo
<1>7. QED
  BY <1>5, <1>6

\* The row a clear has locked stays as it loaded it.
LEMMA StepKeepsClear ==
  ASSUME TypeInv, TypeInv', ClearInv, NEW s \in Sessions, Step(s)
  PROVE  ClearInv'
<1>1. \A t \in Sessions \ {s} : session'[t] = session[t]
  BY DEF Step
<1>2. None \notin Sessions
  BY NowPlayingAssumption
<1>3. \A t \in Sessions : (session[t].at = "clearing")' <=> lock' = t
  BY <1>1, <1>2 DEF ClearInv, Step, LockStep
<1>4. ASSUME NEW t \in Sessions, session'[t].at = "clearing"
      PROVE  session'[t].loaded = row' /\ row'.exists /\ row'.title # None
  <2>1. CASE t = s
    BY <1>4, <2>1 DEF Step, LockStep
  <2>2. CASE t # s
    <3>1. session[t].at = "clearing" /\ lock = t /\ session'[t] = session[t]
      BY <1>1, <1>4, <2>2 DEF ClearInv
    <3>2. row' = row
      BY <1>2, <2>2, <3>1 DEF Step, RowStep, Unlocked
    <3>3. QED
      BY <3>1, <3>2 DEF ClearInv
  <2>3. QED
    BY <2>1, <2>2
<1>5. ~row'.exists => row'.title = None /\ row'.started = 0
  BY DEF Step, RowStep, ClearInv
<1>6. QED
  BY <1>3, <1>4, <1>5 DEF ClearInv

\* What a step adds to the cleared plays: the play on the locked row, which it leaves.
LEMMA StepClears ==
  ASSUME TypeInv, ClearInv, FreshInv, NEW s \in Sessions, Step(s)
  PROVE  /\ \A i \in DOMAIN history' : history'[i].started <= begun
         /\ ClearsArchiveOnce'
         /\ \/ Cleared' = Cleared
            \/ /\ Cleared' = Cleared \cup {row.started}
               /\ session[s].at = "clearing" /\ row'.started = session[s].id
<1>1. history \in Seq(Entries) /\ MaxOps \in Nat /\ begun \in 0..MaxOps
  BY NowPlayingAssumption DEF TypeInv
<1>2. CASE history' = history
  BY <1>2 DEF FreshInv, Cleared, ClearsArchiveOnce
<1>3. CASE history' # history
  <2>1. PICK e \in Entries :
          /\ history' = Append(history, e) /\ session[s].at \in Archiving
          /\ e.started \in {session[s].loaded.started, session[s].id}
          /\ e.by = "clear" => session[s].at = "clearing" /\ e.started = session[s].loaded.started
    BY <1>3 DEF Step, HistoryStep
  <2> DEFINE n == Len(history) + 1
  <2>2. /\ DOMAIN history' = DOMAIN history \cup {n} /\ n \notin DOMAIN history
        /\ \A i \in DOMAIN history : history'[i] = history[i]
        /\ history'[n] = e
    BY <1>1, <2>1, Appending
  <2> HIDE DEF n
  <2>3. session[s].loaded.started <= begun /\ session[s].id <= begun
    <3>1. session[s].at # "idle"
      BY <2>1 DEF Archiving
    <3>2. QED
      BY <1>1, <3>1 DEF FreshInv
  <2>4. \A i \in DOMAIN history' : history'[i].started <= begun
    BY <2>1, <2>2, <2>3 DEF FreshInv
  <2>5. Cleared' = Cleared \cup (IF e.by = "clear" THEN {e.started} ELSE {})
    BY <2>2 DEF Cleared
  <2>6. CASE e.by = "clear"
    <3>1. session[s].at = "clearing" /\ e.started = session[s].loaded.started
      BY <2>1, <2>6
    <3>2. session[s].loaded = row
      BY <3>1 DEF ClearInv
    <3>3. row'.started = session[s].id
      BY <1>3, <3>1 DEF Step, RowStep
    <3>4. \A i \in DOMAIN history : history[i].by = "clear" => history[i].started # e.started
      BY <3>1, <3>2 DEF FreshInv, Cleared
    <3>5. ClearsArchiveOnce'
      BY <2>2, <3>4 DEF FreshInv, ClearsArchiveOnce
    <3>6. QED
      BY <2>4, <2>5, <2>6, <3>1, <3>2, <3>3, <3>5
  <2>7. CASE e.by # "clear"
    <3>1. ClearsArchiveOnce'
      BY <2>2, <2>7 DEF FreshInv, ClearsArchiveOnce
    <3>2. QED
      BY <2>4, <2>5, <2>7, <3>1
  <2>8. QED
    BY <2>6, <2>7
<1>4. QED
  BY <1>2, <1>3

\* Numbers stay fresh until their worker writes the row.
LEMMA StepKeepsFresh ==
  ASSUME TypeInv, TypeInv', ClearInv, FreshInv, NEW s \in Sessions, Step(s)
  PROVE  FreshInv'
<1>1. /\ \A t \in Sessions \ {s} : session'[t] = session[t]
      /\ session'[s].loaded \in {session[s].loaded, row, NoRow}
      /\ session'[s].at \in Unwritten => session[s].at \in Unwritten \cup {"idle"}
  BY DEF Step
<1>2. /\ begun \in 0..MaxOps /\ begun' \in 0..MaxOps /\ MaxOps \in Nat
      /\ session \in [Sessions -> SessionType] /\ session' \in [Sessions -> SessionType]
      /\ row \in Rows /\ row' \in Rows
  BY NowPlayingAssumption DEF TypeInv
<1>3. NumberStep(s)
  BY DEF Step
<1>4. begun <= begun'
  BY <1>2, <1>3 DEF NumberStep
<1>5. \A t \in Sessions : session[t].at # "idle" => session[t].id \in 1..begun
  BY DEF FreshInv
<1>6. \A t \in Sessions : session'[t].at # "idle" => session'[t].id \in 1..begun'
  BY <1>1, <1>2, <1>3, <1>5 DEF NumberStep
<1>7. \A t \in Sessions : session'[t].loaded.started <= begun'
  <2>1. \A t \in Sessions : session[t].loaded.started \in 0..MaxOps /\ session[t].loaded.started <= begun
    BY <1>2 DEF FreshInv, SessionType, Rows
  <2>2. row.started \in 0..MaxOps /\ row.started <= begun /\ NoRow.started = 0
    BY <1>2, IdleType DEF FreshInv, Rows
  <2>3. \A t \in Sessions : session'[t].loaded.started <= begun
    BY <1>1, <1>2, <2>1, <2>2
  <2>4. \A t \in Sessions : session'[t].loaded.started \in 0..MaxOps
    BY <1>2 DEF SessionType, Rows
  <2>5. QED
    BY <1>2, <1>4, <2>3, <2>4
<1>8. row'.started <= begun' /\ row'.started \in {row.started, session[s].id}
      /\ (row'.started # row.started => session[s].at # "idle" /\ session'[s].at \notin Unwritten
                                         /\ session[s].at \in Unwritten /\ row'.started = session[s].id)
  <2>1. row' = row \/ (row'.started = session[s].id /\ session[s].at \in Unwritten
                       /\ session'[s].at \notin Unwritten)
    BY DEF Step, RowStep
  <2>2. row.started <= begun /\ row.started \in 0..MaxOps
    BY <1>2 DEF FreshInv, Rows
  <2>3. "idle" \notin Unwritten
    BY DEF Unwritten, PatchPhases
  <2>4. CASE row' = row
    BY <1>2, <1>4, <2>2, <2>4
  <2>5. CASE row'.started = session[s].id /\ session[s].at \in Unwritten /\ session'[s].at \notin Unwritten
    <3>1. session[s].id \in 1..begun
      BY <1>5, <2>3, <2>5
    <3>2. QED
      BY <1>2, <1>4, <2>3, <2>5, <3>1
  <2>6. QED
    BY <2>1, <2>4, <2>5
<1>9. \A i \in DOMAIN history' : history'[i].started <= begun'
  <2>1. \A i \in DOMAIN history' : history'[i] \in Entries
    BY DEF TypeInv
  <2>2. \A i \in DOMAIN history' : history'[i].started \in 0..MaxOps
    BY <2>1 DEF Entries
  <2>3. \A i \in DOMAIN history' : history'[i].started <= begun
    BY StepClears
  <2>4. QED
    BY <1>2, <1>4, <2>2, <2>3
<1>10. \A t, u \in Sessions :
          session'[t].at # "idle" /\ session'[u].at # "idle" /\ session'[t].id = session'[u].id => t = u
  <2>1. \A t, u \in Sessions :
          session[t].at # "idle" /\ session[u].at # "idle" /\ session[t].id = session[u].id => t = u
    BY DEF FreshInv
  <2>2. \A t \in Sessions \ {s} : session'[t].at # "idle" => session'[t].id # begun + 1
    BY <1>1, <1>2, <1>5
  <2>3. QED
    BY <1>1, <1>3, <2>1, <2>2 DEF NumberStep
<1>11. \A c \in Cleared : c \in 0..MaxOps /\ c <= begun
  <2>1. \A i \in DOMAIN history : history[i] \in Entries
    BY DEF TypeInv
  <2>2. QED
    BY <2>1 DEF FreshInv, Cleared, Entries
<1>12. /\ \A t \in Sessions : session[t].loaded.started \in 0..MaxOps /\ session[t].loaded.started <= begun
       /\ row.started \in 0..MaxOps /\ row.started <= begun
  BY <1>2 DEF FreshInv, SessionType, Rows
<1>13. Cleared' \subseteq Cleared \cup {row.started}
  BY StepClears
<1>14. ASSUME NEW t \in Sessions, session'[t].at \in Unwritten
       PROVE  /\ session'[t].id # row'.started
              /\ session'[t].id \notin Cleared'
              /\ \A u \in Sessions : session'[u].loaded.started # session'[t].id
  <2>1. session'[t].at # "idle"
    BY <1>14 DEF Unwritten, PatchPhases
  <2>2. CASE t = s /\ session[s].at = "idle"
    <3>1. session'[t].id = begun + 1
      BY <1>3, <2>2 DEF NumberStep
    <3>2. row'.started = row.started
      BY <1>8, <2>2
    <3>3. \A u \in Sessions : session'[u].loaded.started \in 0..MaxOps /\ session'[u].loaded.started <= begun
      BY <1>1, <1>2, <1>12, IdleType
    <3>4. \A c \in Cleared' : c \in 0..MaxOps /\ c <= begun
      BY <1>11, <1>12, <1>13
    <3>5. \A c \in 0..MaxOps : c <= begun => c # begun + 1
      BY <1>2
    <3>6. QED
      BY <1>12, <3>1, <3>2, <3>3, <3>4, <3>5
  <2>3. CASE ~(t = s /\ session[s].at = "idle")
    <3>1. session[t].at \in Unwritten /\ session'[t].id = session[t].id /\ session[t].at # "idle"
      BY <1>1, <1>3, <1>14, <2>1, <2>3 DEF NumberStep
    <3>2. /\ session[t].id # row.started /\ session[t].id \notin Cleared
          /\ \A u \in Sessions : session[u].loaded.started # session[t].id
      BY <3>1 DEF FreshInv
    <3>3. session[t].id # row'.started
      <4>1. CASE row'.started = row.started
        BY <3>2, <4>1
      <4>2. CASE row'.started # row.started
        <5>1. t # s /\ row'.started = session[s].id /\ session[s].at # "idle"
          BY <1>8, <1>14, <4>2
        <5>2. QED
          BY <3>1, <5>1 DEF FreshInv
      <4>3. QED
        BY <4>1, <4>2
    <3>4. NoRow.started = 0 /\ session[t].id # 0
      BY <1>2, <1>5, <3>1, IdleType
    <3>5. \A u \in Sessions : session'[u].loaded.started # session[t].id
      BY <1>1, <3>2, <3>4
    <3>6. QED
      BY <1>13, <3>1, <3>2, <3>3, <3>5
  <2>4. QED
    BY <2>2, <2>3
<1>15. row'.started \notin Cleared'
  <2>1. CASE Cleared' = Cleared
    <3>1. CASE row'.started = row.started
      BY <2>1, <3>1 DEF FreshInv
    <3>2. CASE row'.started # row.started
      BY <1>8, <2>1, <3>2 DEF FreshInv
    <3>3. QED
      BY <3>1, <3>2
  <2>2. CASE /\ Cleared' = Cleared \cup {row.started}
             /\ session[s].at = "clearing" /\ row'.started = session[s].id
    <3>1. session[s].at \in Unwritten
      BY <2>2 DEF Unwritten
    <3>2. QED
      BY <2>2, <3>1 DEF FreshInv
  <2>3. QED
    BY <2>1, <2>2, StepClears
<1>16. ClearsArchiveOnce'
  BY StepClears
<1>17. QED
  BY <1>16, <1>6, <1>7, <1>8, <1>9, <1>10, <1>14, <1>15 DEF FreshInv

---------------------------------------------------------------------------
(* Every action of a worker is a step; what its worker then holds *)

\* The parts that every step needs
CoreInv == TypeInv /\ OrdersInv /\ ClearInv /\ FreshInv

\* A step that writes neither the row nor the history
LEMMA Unchanging ==
  ASSUME row' = row, history' = history
  PROVE  \A s \in Sessions : HistoryStep(s) /\ RowStep(s)
BY DEF HistoryStep, RowStep

\* A step of a worker that does not clear
LEMMA NoClear ==
  ASSUME TypeInv, NEW s \in Sessions, lock' = lock,
         session[s].at # "clearing", session'[s].at # "clearing"
  PROVE  LockStep(s)
BY DEF LockStep

\* The types, once the worker's own record is known to be well typed
LEMMA TypesKept ==
  ASSUME TypeInv, NEW s \in Sessions,
         session' \in [Sessions -> SessionType],
         \A t \in Sessions \ {s} : session'[t] = session[t],
         session'[s].at \in {"posting", "upserting"} => session'[s].to \in Tracks,
         session'[s].at \in PatchPhases => session'[s].req \in Requests,
         session'[s].at = "patching" => session'[s].to \in Statuses,
         session'[s].at = "bulk" => session'[s].to \in {"accepted", "rejected"},
         session'[s].at = "blanking" => session'[s].loaded.exists
  PROVE  SessionInv'
BY DEF SessionInv, TypeInv

\* A status update keeps the type of the statuses.
LEMMA StatusType ==
  ASSUME NEW f, f \in [Requests -> Statuses \cup {"deleted"}], NEW S, NEW to \in Statuses \cup {"deleted"}
  PROVE  [r \in Requests |-> IF r \in S THEN to ELSE f[r]] \in [Requests -> Statuses \cup {"deleted"}]
OBVIOUS


\* A worker that begins a request and reads no row
LEMMA BeginsStep ==
  ASSUME CoreInv, NEW s \in Sessions, NEW f \in SessionType,
         f.at \in {"posting", "patching", "bulk"}, f.loaded = NoRow,
         f.at = "posting" => f.to \in Tracks,
         f.at = "patching" => f.to \in Statuses /\ f.req \in Requests,
         f.at = "bulk" => f.to \in {"accepted", "rejected"},
         Begin(s, f), UNCHANGED <<status, row, history, lock, byDj>>
  PROVE  /\ TypeInv' /\ Step(s)
         /\ session[s].at = "idle"
         /\ session'[s].at = f.at /\ session'[s].req = f.req /\ session'[s].to = f.to
         /\ session'[s].read = f.read
         /\ overlapped' = (overlapped \/ ~Quiescent)
<1>1. session \in [Sessions -> SessionType] /\ begun \in 0..MaxOps /\ overlapped \in BOOLEAN
  BY DEF CoreInv, TypeInv
<1>2. /\ session[s].at = "idle" /\ begun' = begun + 1 /\ begun' \in 1..MaxOps
      /\ overlapped' = (overlapped \/ ~Quiescent)
      /\ session' \in [Sessions -> SessionType]
      /\ \A t \in Sessions \ {s} : session'[t] = session[t]
      /\ session'[s].at = f.at /\ session'[s].id = begun + 1 /\ session'[s].req = f.req
      /\ session'[s].to = f.to /\ session'[s].read = f.read /\ session'[s].loaded = NoRow
  BY <1>1, BeginStep
<1>3. SessionInv'
  <2>1. /\ session'[s].at \in {"posting", "upserting"} => session'[s].to \in Tracks
        /\ session'[s].at \in PatchPhases => session'[s].req \in Requests
        /\ session'[s].at = "patching" => session'[s].to \in Statuses
        /\ session'[s].at = "bulk" => session'[s].to \in {"accepted", "rejected"}
        /\ session'[s].at = "blanking" => session'[s].loaded.exists
    BY <1>2 DEF PatchPhases
  <2>2. QED
    BY <1>2, <2>1, TypesKept DEF CoreInv
<1>4. TypeInv'
  <2>1. begun' \in 0..MaxOps /\ overlapped' \in BOOLEAN
    BY <1>1, <1>2 DEF Quiescent
  <2>2. QED
    BY <1>2, <1>3, <2>1 DEF CoreInv, TypeInv
<1>5. Step(s)
  BY <1>2, Unchanging, NoClear DEF CoreInv, Step, NumberStep, Archiving
<1>6. QED
  BY <1>2, <1>4, <1>5

\* A worker that goes on or ends without writing the row or the history
LEMMA QuietStep ==
  ASSUME CoreInv, NEW s \in Sessions, NEW n \in SessionType, Turn(s, n),
         UNCHANGED <<row, history, lock, begun, overlapped>>,
         session[s].at \notin {"idle", "clearing"}, n.at # "clearing",
         n.at # "idle" => n.id = session[s].id,
         n.loaded \in {session[s].loaded, row, NoRow},
         n.at \in Archiving => n.order = NextPlayOrder,
         n.at \in Unwritten => session[s].at \in Unwritten,
         n.at \in {"posting", "upserting"} => n.to \in Tracks,
         n.at \in PatchPhases => n.req \in Requests,
         n.at = "patching" => n.to \in Statuses,
         n.at = "bulk" => n.to \in {"accepted", "rejected"},
         n.at = "blanking" => n.loaded.exists,
         status' \in [Requests -> Statuses \cup {"deleted"}], byDj' \subseteq Requests
  PROVE  TypeInv' /\ Step(s) /\ session'[s] = n
<1>1. session \in [Sessions -> SessionType]
  BY DEF CoreInv, TypeInv
<1>2. /\ session' \in [Sessions -> SessionType] /\ session'[s] = n
      /\ \A t \in Sessions \ {s} : session'[t] = session[t]
  BY <1>1, TurnStep
<1>3. SessionInv'
  BY <1>2, TypesKept DEF CoreInv
<1>4. TypeInv'
  BY <1>2, <1>3 DEF CoreInv, TypeInv
<1>5. Step(s)
  BY <1>2, Unchanging, NoClear DEF CoreInv, Step, NumberStep
<1>6. QED
  BY <1>2, <1>4, <1>5

\* A worker that ends without writing the row or the history
LEMMA EndStep ==
  ASSUME CoreInv, NEW s \in Sessions, Turn(s, Idle),
         UNCHANGED <<row, history, lock, begun, overlapped>>,
         session[s].at \notin {"idle", "clearing"},
         status' \in [Requests -> Statuses \cup {"deleted"}], byDj' \subseteq Requests
  PROVE  TypeInv' /\ Step(s) /\ session'[s] = Idle
BY IdleType, QuietStep DEF Archiving, Unwritten, PatchPhases

\* A worker that archives the play it loaded and writes the row
LEMMA WriteStep ==
  ASSUME CoreInv, NEW s \in Sessions, NEW n \in SessionType, Turn(s, n),
         NEW new \in Rows, new.exists = TRUE, new.started = session[s].id,
         NEW by \in {"post", "clear", "manual", "retire", "add"},
         session[s].at \in {"upserting", "clearing", "upserting_manual", "blanking"},
         by = "clear" => session[s].at = "clearing",
         Unlocked(s), session[s].loaded.exists = row.exists,
         history' = Archived(session[s], by),
         row' = Merge(session[s].loaded, new),
         session[s].at = "clearing" => lock' = None,
         session[s].at # "clearing" => lock' = lock,
         n.at \in {"idle", "recording"}, n.loaded = NoRow,
         n.at # "idle" => n.id = session[s].id /\ n.req \in Requests,
         UNCHANGED <<begun, overlapped>>,
         status' \in [Requests -> Statuses \cup {"deleted"}], byDj' \subseteq Requests
  PROVE  TypeInv' /\ Step(s) /\ session'[s] = n
<1>1. /\ session \in [Sessions -> SessionType] /\ row \in Rows /\ history \in Seq(Entries)
      /\ session[s] \in SessionType
  BY DEF CoreInv, TypeInv
<1>2. /\ session' \in [Sessions -> SessionType] /\ session'[s] = n
      /\ \A t \in Sessions \ {s} : session'[t] = session[t]
  BY <1>1, TurnStep
<1> DEFINE self == session[s]
<1>3. self.loaded \in Rows /\ self \in SessionType
  BY <1>1 DEF SessionType
<1>4. session[s].at \in Archiving /\ session[s].at \in Unwritten /\ n.at \notin Unwritten
      /\ n.at \notin Archiving /\ session[s].at # "idle"
  BY DEF Archiving, Unwritten, PatchPhases
<1>5. self.loaded.started # self.id
  BY <1>4 DEF CoreInv, FreshInv
<1>6. /\ row' \in Rows
      /\ row'.exists = IF new.exists = self.loaded.exists THEN row.exists ELSE new.exists
      /\ row'.started = IF new.started = self.loaded.started THEN row.started ELSE new.started
  BY <1>1, <1>3, MergeType
<1>7. row'.started = session[s].id /\ row'.exists
  <2>1. row'.started = session[s].id
    BY <1>5, <1>6
  <2>2. row'.exists
    BY <1>3, <1>6 DEF Rows
  <2>3. QED
    BY <2>1, <2>2
<1>8. self.order \in Nat \ {0}
  <2>1. PICK k \in Nat : OrdersUpTo(k)
    BY DEF CoreInv, OrdersInv
  <2>2. self.order \in 1..(k + 1)
    BY <1>4, <2>1 DEF OrdersUpTo
  <2>3. QED
    BY <2>2
<1>9. /\ history' \in Seq(Entries)
      /\ history' # history =>
           \E e \in Entries :
                 /\ history' = Append(history, e) /\ e.order = self.order
                 /\ e.started = self.loaded.started /\ e.by = by
  <2>1. history' = Archived(self, by)
    OBVIOUS
  <2>2. history \in Seq(Entries) /\ self \in SessionType /\ self.order \in Nat \ {0}
    BY <1>1, <1>8
  <2> HIDE DEF self
  <2>3. history' \in Seq(Entries)
    BY <2>1, <2>2, ArchivedType
  <2>4. CASE self.loaded.title = None
    <3>1. history' = history
      BY <2>1, <2>2, <2>4, ArchivedType
    <3>2. QED
      BY <2>3, <3>1
  <2>5. CASE self.loaded.title # None
    BY <2>1, <2>2, <2>3, <2>5, ArchivedType
  <2>6. QED
    BY <2>4, <2>5
<1>10. HistoryStep(s)
  BY <1>4, <1>9 DEF HistoryStep
<1>11. RowStep(s)
  BY <1>2, <1>4, <1>7 DEF RowStep
<1>12. LockStep(s)
  BY <1>2 DEF LockStep
<1>13. NumberStep(s)
  BY <1>2, <1>4 DEF NumberStep
<1>14. SessionInv'
  <2>1. /\ session'[s].at \in {"posting", "upserting"} => session'[s].to \in Tracks
        /\ session'[s].at \in PatchPhases => session'[s].req \in Requests
        /\ session'[s].at = "patching" => session'[s].to \in Statuses
        /\ session'[s].at = "bulk" => session'[s].to \in {"accepted", "rejected"}
        /\ session'[s].at = "blanking" => session'[s].loaded.exists
    BY <1>2 DEF PatchPhases
  <2>2. QED
    BY <1>2, <2>1, TypesKept DEF CoreInv
<1>15. lock' \in Sessions \cup {None}
  BY DEF CoreInv, TypeInv
<1>16. TypeInv'
  BY <1>2, <1>6, <1>9, <1>14, <1>15 DEF CoreInv, TypeInv
<1>17. Step(s)
  BY <1>2, <1>4, <1>10, <1>11, <1>12, <1>13 DEF Step
<1>18. QED
  BY <1>2, <1>16, <1>17

---------------------------------------------------------------------------
(* The actions: each keeps the types, is a step, and leaves its worker as said *)

\* A post that arrives holds its track and the request it matches.
LEMMA MatchStep ==
  ASSUME CoreInv, NEW s \in Sessions, NEW track \in Tracks, NowPlayingMatch(s, track)
  PROVE  /\ TypeInv' /\ Step(s)
         /\ session[s].at = "idle" /\ session'[s].at = "posting"
         /\ session'[s].req \in {None, track} /\ session'[s].to = track
         /\ overlapped' = (overlapped \/ ~Quiescent)
<1>1. PICK m \in IF Matches(track) = {} THEN {None} ELSE Matches(track) :
        Begin(s, [Idle EXCEPT !.at = "posting", !.to = track, !.req = m])
  BY DEF NowPlayingMatch
<1>2. m \in Requests \cup {None} /\ m \in {None, track}
  BY <1>1 DEF Matches
<1> DEFINE f == [Idle EXCEPT !.at = "posting", !.to = track, !.req = m]
<1>3. f \in SessionType /\ f.at = "posting" /\ f.to = track /\ f.req = m /\ f.loaded = NoRow
  BY <1>2, IdleType DEF SessionType, Phases
<1>4. Begin(s, f) /\ UNCHANGED <<status, row, history, lock, byDj>>
  BY <1>1 DEF NowPlayingMatch
<1> HIDE DEF f
<1>5. QED
  BY <1>2, <1>3, <1>4, BeginsStep

\* A PATCH that arrives holds its request and the status to set.
LEMMA PatchLoadStep ==
  ASSUME CoreInv, NEW s \in Sessions, NEW r \in Requests, NEW to \in Statuses, PatchLoad(s, r, to)
  PROVE  /\ TypeInv' /\ Step(s)
         /\ session[s].at = "idle" /\ session'[s].at = "patching"
         /\ session'[s].req = r /\ session'[s].to = to
         /\ overlapped' = (overlapped \/ ~Quiescent)
<1> DEFINE f == [Idle EXCEPT !.at = "patching", !.req = r, !.to = to]
<1>1. f \in SessionType /\ f.at = "patching" /\ f.to = to /\ f.req = r /\ f.loaded = NoRow
  BY IdleType DEF SessionType, Phases, PatchPhases
<1>2. Begin(s, f) /\ UNCHANGED <<status, row, history, lock, byDj>>
  BY DEF PatchLoad
<1> HIDE DEF f
<1>3. QED
  BY <1>1, <1>2, BeginsStep

\* A bulk operation holds the status to set.
LEMMA BulkLoadStep ==
  ASSUME CoreInv, NEW s \in Sessions, NEW to \in {"accepted", "rejected"}, BulkLoad(s, to)
  PROVE  /\ TypeInv' /\ Step(s)
         /\ session[s].at = "idle" /\ session'[s].at = "bulk"
         /\ overlapped' = (overlapped \/ ~Quiescent)
<1> DEFINE new == {r \in Requests : status[r] = "new"}
           f == [Idle EXCEPT !.at = "bulk", !.to = to, !.read = new]
<1>1. f \in SessionType /\ f.at = "bulk" /\ f.to = to /\ f.loaded = NoRow
  <2>1. new \in SUBSET Requests /\ to \in Statuses
    BY DEF Statuses
  <2> HIDE DEF new
  <2>2. QED
    BY <2>1, IdleType DEF SessionType, Phases
<1>2. Begin(s, f) /\ UNCHANGED <<status, row, history, lock, byDj>>
  BY DEF BulkLoad
<1> HIDE DEF f
<1>3. QED
  BY <1>1, <1>2, BeginsStep

\* The post has read the row and the requests that are PLAYING.
LEMMA NowPlayingLoadStep ==
  ASSUME CoreInv, NEW s \in Sessions, NowPlayingLoad(s)
  PROVE  /\ TypeInv' /\ Step(s) /\ session[s].at = "posting"
         /\ session'[s].at = "upserting" /\ session'[s].loaded = row /\ session'[s].read = Playing
         /\ session'[s].req = session[s].req /\ session'[s].to = session[s].to
<1> DEFINE l == Loading(s, "upserting")
           n == [l EXCEPT !.read = Playing]
<1>1. session[s].at = "posting" /\ Turn(s, n)
      /\ UNCHANGED <<status, row, history, lock, begun, byDj, overlapped>>
  BY DEF NowPlayingLoad
<1>2. /\ l \in SessionType /\ l.at = "upserting" /\ l.id = session[s].id
      /\ l.req = session[s].req /\ l.to = session[s].to /\ l.loaded = row
      /\ l.order = NextPlayOrder
  BY LoadingType DEF CoreInv, Phases
<1>3. Playing \in SUBSET Requests
  BY DEF Playing
<1> HIDE DEF l
<1>4. /\ n \in SessionType /\ n.at = "upserting" /\ n.id = session[s].id
      /\ n.req = session[s].req /\ n.to = session[s].to /\ n.loaded = row
      /\ n.order = NextPlayOrder /\ n.read = Playing
  BY <1>2, <1>3 DEF SessionType
<1> HIDE DEF n
<1>5. n.to \in Tracks /\ session[s].at \in Unwritten
  BY <1>1, <1>4 DEF CoreInv, TypeInv, SessionInv, Unwritten
<1>6. status' \in [Requests -> Statuses \cup {"deleted"}] /\ byDj' \subseteq Requests
  BY <1>1 DEF CoreInv, TypeInv
<1>7. TypeInv' /\ Step(s) /\ session'[s] = n
  BY <1>1, <1>4, <1>5, <1>6, QuietStep DEF PatchPhases
<1>8. QED
  BY <1>1, <1>4, <1>7

\* The post is done.
LEMMA NowPlayingCommitStep ==
  ASSUME CoreInv, NEW s \in Sessions, NowPlayingCommit(s)
  PROVE  /\ TypeInv' /\ Step(s) /\ session[s].at = "upserting" /\ session'[s] = Idle
<1> DEFINE self == session[s]
           new == [exists |-> TRUE, title |-> self.to, source |-> "bridge",
                   matched |-> self.req, started |-> self.id]
           st == [r \in Requests |-> IF r = self.req THEN "playing"
                                     ELSE IF r \in self.read THEN "played" ELSE status[r]]
<1>1. /\ self.at = "upserting" /\ Unlocked(s) /\ self.loaded.exists = row.exists
      /\ history' = Archived(self, "post") /\ row' = Merge(self.loaded, new) /\ status' = st
      /\ byDj' = byDj \ {self.req} /\ Turn(s, Idle) /\ UNCHANGED <<lock, begun, overlapped>>
  BY DEF NowPlayingCommit, Commits
<1>2. self \in SessionType /\ self.to \in Tracks
  BY <1>1 DEF CoreInv, TypeInv, SessionInv
<1>3. new \in Rows /\ new.exists = TRUE /\ new.started = self.id
  BY <1>2 DEF SessionType, Rows
<1>4. status' \in [Requests -> Statuses \cup {"deleted"}]
  <2>1. status \in [Requests -> Statuses \cup {"deleted"}]
    BY DEF CoreInv, TypeInv
  <2>2. "playing" \in Statuses /\ "played" \in Statuses
    BY DEF Statuses
  <2>3. st \in [Requests -> Statuses \cup {"deleted"}]
    BY <2>1, <2>2
  <2>4. QED
    BY <1>1, <2>3
<1>5. byDj' \subseteq Requests
  BY <1>1 DEF CoreInv, TypeInv
<1> HIDE DEF new, st
<1>6. TypeInv' /\ Step(s) /\ session'[s] = Idle
  BY <1>1, <1>3, <1>4, <1>5, IdleType, WriteStep
<1>7. QED
  BY <1>1, <1>6

\* A clear holds the row's lock and the linked request if it is PLAYING.
LEMMA ClearLoadStep ==
  ASSUME CoreInv, NEW s \in Sessions, ClearLoad(s)
  PROVE  /\ TypeInv' /\ Step(s)
         /\ session[s].at = "idle" /\ session'[s].at = "clearing"
         /\ session'[s].read = {r \in {row.matched} \ {None} : status[r] = "playing"}
         /\ overlapped' = (overlapped \/ ~Quiescent)
<1> DEFINE l == Loading(s, "clearing")
           R == {r \in {row.matched} \ {None} : status[r] = "playing"}
           f == [l EXCEPT !.read = R]
<1>1. /\ row.exists /\ row.title # None /\ lock = None /\ lock' = s /\ Begin(s, f)
      /\ UNCHANGED <<status, row, history, byDj>>
  BY DEF ClearLoad
<1>2. l \in SessionType /\ l.at = "clearing" /\ l.loaded = row /\ l.order = NextPlayOrder
  BY LoadingType DEF CoreInv, Phases
<1>3. R \in SUBSET Requests
  BY DEF CoreInv, TypeInv, Rows
<1> HIDE DEF l
<1>4. /\ f \in SessionType /\ f.at = "clearing" /\ f.loaded = row /\ f.order = NextPlayOrder
      /\ f.read = R
  BY <1>2, <1>3 DEF SessionType
<1> HIDE DEF f, R
<1>5. session \in [Sessions -> SessionType] /\ begun \in 0..MaxOps /\ overlapped \in BOOLEAN
  BY DEF CoreInv, TypeInv
<1>6. /\ session[s].at = "idle" /\ begun' = begun + 1 /\ begun' \in 1..MaxOps
      /\ overlapped' = (overlapped \/ ~Quiescent)
      /\ session' \in [Sessions -> SessionType]
      /\ \A t \in Sessions \ {s} : session'[t] = session[t]
      /\ session'[s].at = "clearing" /\ session'[s].id = begun + 1 /\ session'[s].read = R
      /\ session'[s].loaded = row /\ session'[s].order = NextPlayOrder
  BY <1>1, <1>4, <1>5, BeginStep
<1>7. SessionInv'
  BY <1>6, TypesKept DEF CoreInv, PatchPhases
<1>8. TypeInv'
  <2>1. begun' \in 0..MaxOps /\ overlapped' \in BOOLEAN
    BY <1>5, <1>6 DEF Quiescent
  <2>2. QED
    BY <1>1, <1>6, <1>7, <2>1 DEF CoreInv, TypeInv
<1>9. LockStep(s)
  BY <1>1, <1>6 DEF LockStep
<1>10. Step(s)
  BY <1>1, <1>6, <1>9, Unchanging DEF Step, NumberStep
<1>11. QED
  BY <1>6, <1>8, <1>10 DEF R

\* The clear is done.
LEMMA ClearCommitStep ==
  ASSUME CoreInv, NEW s \in Sessions, ClearCommit(s)
  PROVE  TypeInv' /\ Step(s) /\ session[s].at = "clearing" /\ session'[s] = Idle
<1> DEFINE self == session[s]
           new == Blanked(self)
           st == [r \in Requests |-> IF r \in self.read THEN "played" ELSE status[r]]
<1>1. /\ self.at = "clearing" /\ Unlocked(s) /\ self.loaded.exists = row.exists
      /\ history' = Archived(self, "clear") /\ row' = Merge(self.loaded, new) /\ status' = st
      /\ lock' = None /\ Turn(s, Idle) /\ UNCHANGED <<begun, byDj, overlapped>>
  BY DEF ClearCommit, Commits
<1>2. self \in SessionType
  BY DEF CoreInv, TypeInv
<1>3. self.loaded = row /\ row.exists
  BY <1>1 DEF CoreInv, ClearInv
<1>4. new \in Rows /\ new.exists = TRUE /\ new.started = self.id
  <2>1. self.loaded \in Rows /\ self.id \in 0..MaxOps
    BY <1>2 DEF SessionType
  <2>2. new = [self.loaded EXCEPT !.title = None, !.matched = None, !.started = self.id]
    BY DEF Blanked
  <2>3. self.loaded.exists = TRUE
    BY <1>3, <2>1 DEF Rows
  <2> HIDE DEF self
  <2>4. QED
    BY <2>1, <2>2, <2>3 DEF Rows
<1>5. status' \in [Requests -> Statuses \cup {"deleted"}] /\ byDj' \subseteq Requests
  <2>1. status \in [Requests -> Statuses \cup {"deleted"}] /\ byDj \subseteq Requests
    BY DEF CoreInv, TypeInv
  <2>2. "played" \in Statuses
    BY DEF Statuses
  <2>3. st \in [Requests -> Statuses \cup {"deleted"}]
    BY <2>1, <2>2
  <2>4. QED
    BY <1>1, <2>1, <2>3
<1> HIDE DEF new, st
<1>6. TypeInv' /\ Step(s) /\ session'[s] = Idle
  BY <1>1, <1>4, <1>5, IdleType, WriteStep
<1>7. QED
  BY <1>1, <1>6

\* A PATCH that has set its status scans, retires or is done.
LEMMA UpdateStep ==
  ASSUME CoreInv, NEW s \in Sessions, UpdateRequestStatus(s)
  PROVE  /\ TypeInv' /\ Step(s) /\ session[s].at = "patching"
         /\ session[s].req \in Requests /\ session[s].to \in Statuses
         /\ session'[s].at = AfterPatch[session[s].to]
         /\ session'[s].at # "idle" => session'[s].req = session[s].req
         /\ session'[s].at \in {"idle", "scanning", "retiring"}
         /\ session'[s].at = "scanning" <=> session[s].to = "playing"
         /\ session'[s].at = "retiring" <=> session[s].to = "played"
<1> DEFINE self == session[s]
           next == AfterPatch[self.to]
<1>1. /\ self.at = "patching" /\ status' = [status EXCEPT ![self.req] = self.to]
      /\ byDj' = IF self.to = "playing" THEN byDj \cup {self.req} ELSE byDj
      /\ Turn(s, IF next = "idle" THEN Idle ELSE [self EXCEPT !.at = next])
      /\ UNCHANGED <<row, history, lock, begun, overlapped>>
  BY DEF UpdateRequestStatus
<1>2. self \in SessionType /\ self.req \in Requests /\ self.to \in Statuses
  BY <1>1 DEF CoreInv, TypeInv, SessionInv, PatchPhases
<1>3. status' \in [Requests -> Statuses \cup {"deleted"}]
  BY <1>1, <1>2 DEF CoreInv, TypeInv
<1>4. byDj' \subseteq Requests
  BY <1>1, <1>2 DEF CoreInv, TypeInv
<1>5. /\ next \in {"idle", "scanning", "retiring"}
      /\ next = "scanning" <=> self.to = "playing"
      /\ next = "retiring" <=> self.to = "played"
  BY <1>2 DEF AfterPatch, Statuses
<1> HIDE DEF next, self
<1>6. CASE next = "idle"
  <2>1. Turn(s, Idle)
    BY <1>1, <1>6
  <2>2. TypeInv' /\ Step(s) /\ session'[s] = Idle
    BY <1>1, <1>3, <1>4, <2>1, EndStep DEF self
  <2>3. QED
    BY <1>1, <1>2, <1>5, <1>6, <2>2, IdleType DEF self, next
<1>7. CASE next # "idle"
  <2> DEFINE n == [self EXCEPT !.at = next]
  <2>1. /\ n \in SessionType /\ n.at = next /\ n.req = self.req /\ n.id = self.id
        /\ n.loaded = self.loaded
    BY <1>2, <1>5 DEF SessionType, Phases, PatchPhases
  <2>2. Turn(s, n)
    BY <1>1, <1>7
  <2> HIDE DEF n
  <2>3. TypeInv' /\ Step(s) /\ session'[s] = n
    <3>1. session[s].at \notin {"idle", "clearing"} /\ session[s].at \in Unwritten
      BY <1>1 DEF self, Unwritten, PatchPhases
    <3>2. n.at \notin Archiving /\ n.at # "clearing" /\ n.at \notin {"posting", "upserting", "patching", "bulk", "blanking"}
      BY <1>5, <2>1 DEF Archiving
    <3>3. n.id = session[s].id /\ n.loaded = session[s].loaded /\ n.req \in Requests
      BY <1>2, <2>1 DEF self
    <3>4. QED
      BY <1>1, <1>3, <1>4, <2>1, <2>2, <3>1, <3>2, <3>3, QuietStep
  <2>4. QED
    BY <1>1, <1>2, <1>5, <2>1, <2>3 DEF self, next
<1>8. QED
  BY <1>6, <1>7

\* The scan has read every other request that is PLAYING.
LEMMA OtherPlayingLoadStep ==
  ASSUME CoreInv, NEW s \in Sessions, OtherPlayingLoad(s)
  PROVE  /\ TypeInv' /\ Step(s) /\ session[s].at = "scanning"
         /\ session'[s].at = "retiring_others" /\ session'[s].req = session[s].req
         /\ session'[s].read = Playing \ {session[s].req}
<1> DEFINE self == session[s]
           R == Playing \ {self.req}
           n == [self EXCEPT !.at = "retiring_others", !.read = R]
<1>1. self.at = "scanning" /\ Turn(s, n)
      /\ UNCHANGED <<status, row, history, lock, begun, byDj, overlapped>>
  BY DEF OtherPlayingLoad
<1>2. self \in SessionType /\ self.req \in Requests
  BY <1>1 DEF CoreInv, TypeInv, SessionInv, PatchPhases
<1>3. R \in SUBSET Requests
  BY DEF Playing
<1> HIDE DEF self
<1>4. /\ n \in SessionType /\ n.at = "retiring_others" /\ n.req = self.req /\ n.id = self.id
      /\ n.loaded = self.loaded /\ n.read = R
  BY <1>2, <1>3 DEF SessionType, Phases, PatchPhases
<1> HIDE DEF n
<1>5. status' \in [Requests -> Statuses \cup {"deleted"}] /\ byDj' \subseteq Requests
  BY <1>1 DEF CoreInv, TypeInv
<1>6. TypeInv' /\ Step(s) /\ session'[s] = n
  <2>1. session[s].at \notin {"idle", "clearing"} /\ session[s].at \in Unwritten
    BY <1>1 DEF self, Unwritten, PatchPhases
  <2>2. n.at \notin Archiving
    BY <1>4 DEF Archiving
  <2>3. n.id = session[s].id /\ n.loaded = session[s].loaded /\ n.req \in Requests
    BY <1>2, <1>4 DEF self
  <2>4. QED
    BY <1>1, <1>4, <1>5, <2>1, <2>2, <2>3, QuietStep
<1>7. QED
  BY <1>1, <1>4, <1>6 DEF self

\* The scan is done, and the PATCH goes on to show its request.
LEMMA OtherPlayingCommitStep ==
  ASSUME CoreInv, NEW s \in Sessions, OtherPlayingCommit(s)
  PROVE  /\ TypeInv' /\ Step(s) /\ session[s].at = "retiring_others"
         /\ session'[s].at = "showing" /\ session'[s].req = session[s].req
<1> DEFINE self == session[s]
           n == [self EXCEPT !.at = "showing", !.read = {}]
           st == [r \in Requests |-> IF r \in self.read THEN "played" ELSE status[r]]
<1>1. self.at = "retiring_others" /\ Turn(s, n) /\ status' = st
      /\ UNCHANGED <<row, history, lock, begun, byDj, overlapped>>
  BY DEF OtherPlayingCommit
<1>2. self \in SessionType /\ self.req \in Requests
  BY <1>1 DEF CoreInv, TypeInv, SessionInv, PatchPhases
<1> HIDE DEF self
<1>4. /\ n \in SessionType /\ n.at = "showing" /\ n.req = self.req /\ n.id = self.id
      /\ n.loaded = self.loaded
  BY <1>2 DEF SessionType, Phases, PatchPhases
<1> HIDE DEF n
<1>5. status' \in [Requests -> Statuses \cup {"deleted"}] /\ byDj' \subseteq Requests
  <2>1. status \in [Requests -> Statuses \cup {"deleted"}] /\ byDj \subseteq Requests
    BY DEF CoreInv, TypeInv
  <2>2. "played" \in Statuses
    BY DEF Statuses
  <2>3. st \in [Requests -> Statuses \cup {"deleted"}]
    BY <2>1, <2>2
  <2>4. QED
    BY <1>1, <2>1, <2>3
<1>6. TypeInv' /\ Step(s) /\ session'[s] = n
  <2>1. session[s].at \notin {"idle", "clearing"} /\ session[s].at \in Unwritten
    BY <1>1 DEF self, Unwritten, PatchPhases
  <2>2. n.at \notin Archiving
    BY <1>4 DEF Archiving
  <2>3. n.id = session[s].id /\ n.loaded = session[s].loaded /\ n.req \in Requests
    BY <1>2, <1>4 DEF self
  <2>4. QED
    BY <1>1, <1>4, <1>5, <2>1, <2>2, <2>3, QuietStep
<1>7. QED
  BY <1>1, <1>4, <1>6 DEF self

\* It has read the row.
LEMMA ManualNowPlayingLoadStep ==
  ASSUME CoreInv, NEW s \in Sessions, ManualNowPlayingLoad(s)
  PROVE  /\ TypeInv' /\ Step(s) /\ session[s].at = "showing"
         /\ session'[s].at = "upserting_manual" /\ session'[s].req = session[s].req
         /\ session'[s].loaded = row
<1> DEFINE n == Loading(s, "upserting_manual")
<1>1. session[s].at = "showing" /\ Turn(s, n)
      /\ UNCHANGED <<status, row, history, lock, begun, byDj, overlapped>>
  BY DEF ManualNowPlayingLoad
<1>2. session[s].req \in Requests
  BY <1>1 DEF CoreInv, TypeInv, SessionInv, PatchPhases
<1>3. /\ n \in SessionType /\ n.at = "upserting_manual" /\ n.id = session[s].id
      /\ n.req = session[s].req /\ n.loaded = row /\ n.order = NextPlayOrder
  BY LoadingType DEF CoreInv, Phases, PatchPhases
<1> HIDE DEF n
<1>4. status' \in [Requests -> Statuses \cup {"deleted"}] /\ byDj' \subseteq Requests
  BY <1>1 DEF CoreInv, TypeInv
<1>5. session[s].at \in Unwritten
  BY <1>1 DEF Unwritten, PatchPhases
<1>6. TypeInv' /\ Step(s) /\ session'[s] = n
  BY <1>1, <1>2, <1>3, <1>4, <1>5, QuietStep
<1>7. QED
  BY <1>1, <1>3, <1>6

\* It is done.
LEMMA ManualNowPlayingCommitStep ==
  ASSUME CoreInv, NEW s \in Sessions, ManualNowPlayingCommit(s)
  PROVE  TypeInv' /\ Step(s) /\ session[s].at = "upserting_manual" /\ session'[s] = Idle
<1> DEFINE self == session[s]
           new == [exists |-> TRUE, title |-> self.req, source |-> "manual",
                   matched |-> self.req, started |-> self.id]
<1>1. /\ self.at = "upserting_manual" /\ Unlocked(s) /\ self.loaded.exists = row.exists
      /\ history' = Archived(self, "manual") /\ row' = Merge(self.loaded, new)
      /\ Turn(s, Idle) /\ UNCHANGED <<status, lock, begun, byDj, overlapped>>
  BY DEF ManualNowPlayingCommit, Commits
<1>2. self \in SessionType /\ self.req \in Requests
  BY <1>1 DEF CoreInv, TypeInv, SessionInv, PatchPhases
<1>3. new \in Rows /\ new.exists = TRUE /\ new.started = self.id
  BY <1>2 DEF SessionType, Rows, Tracks
<1>4. status' \in [Requests -> Statuses \cup {"deleted"}] /\ byDj' \subseteq Requests
  BY <1>1 DEF CoreInv, TypeInv
<1> HIDE DEF new
<1>5. TypeInv' /\ Step(s) /\ session'[s] = Idle
  BY <1>1, <1>3, <1>4, IdleType, WriteStep
<1>6. QED
  BY <1>1, <1>5

\* A PATCH to PLAYED has read the row, if the row is its request's.
LEMMA RetireManualLoadStep ==
  ASSUME CoreInv, NEW s \in Sessions, RetireManualLoad(s)
  PROVE  /\ TypeInv' /\ Step(s) /\ session[s].at = "retiring"
         /\ session'[s].at \in {"blanking", "recording"} /\ session'[s].req = session[s].req
         /\ session'[s].at = "blanking" => session'[s].loaded = row
<1> DEFINE self == session[s]
           mine == row.exists /\ row.source = "manual" /\ row.matched = session[s].req
           n == IF mine THEN Loading(s, "blanking") ELSE [self EXCEPT !.at = "recording"]
<1>1. self.at = "retiring" /\ Turn(s, n)
      /\ UNCHANGED <<status, row, history, lock, begun, byDj, overlapped>>
  BY DEF RetireManualLoad
<1>2. self \in SessionType /\ self.req \in Requests
  BY <1>1 DEF CoreInv, TypeInv, SessionInv, PatchPhases
<1>3. /\ n \in SessionType /\ n.at \in {"blanking", "recording"} /\ n.id = self.id
      /\ n.req = self.req
      /\ n.loaded \in {self.loaded, row}
      /\ n.at = "blanking" => n.loaded = row /\ row.exists /\ n.order = NextPlayOrder
  <2>1. CASE mine
    <3>1. n = Loading(s, "blanking") /\ row.exists
      BY <2>1
    <3>2. "blanking" \in Phases
      BY DEF Phases, PatchPhases
    <3> HIDE DEF n
    <3>3. QED
      BY <3>1, <3>2, LoadingType DEF CoreInv
  <2>2. CASE ~mine
    <3>1. n = [self EXCEPT !.at = "recording"]
      BY <2>2
    <3> HIDE DEF n, self
    <3>2. QED
      BY <1>2, <3>1 DEF SessionType, Phases, PatchPhases
  <2>3. QED
    BY <2>1, <2>2
<1> HIDE DEF n
<1>4. status' \in [Requests -> Statuses \cup {"deleted"}] /\ byDj' \subseteq Requests
  BY <1>1 DEF CoreInv, TypeInv
<1>5. /\ session[s].at \in Unwritten /\ session[s].at \notin {"idle", "clearing"}
      /\ n.at \notin {"clearing", "posting", "upserting", "patching", "bulk"}
      /\ n.at \in Archiving => n.at = "blanking"
  BY <1>1, <1>3 DEF Unwritten, PatchPhases, Archiving
<1>6. TypeInv' /\ Step(s) /\ session'[s] = n
  BY <1>1, <1>2, <1>3, <1>4, <1>5, QuietStep
<1>7. QED
  BY <1>1, <1>3, <1>6

\* It has blanked the row, and goes on to record the play.
LEMMA RetireManualCommitStep ==
  ASSUME CoreInv, NEW s \in Sessions, RetireManualCommit(s)
  PROVE  /\ TypeInv' /\ Step(s) /\ session[s].at = "blanking"
         /\ session'[s].at = "recording" /\ session'[s].req = session[s].req
<1> DEFINE self == session[s]
           new == Blanked(self)
           n == [self EXCEPT !.at = "recording", !.loaded = NoRow]
<1>1. /\ self.at = "blanking" /\ Unlocked(s) /\ self.loaded.exists = row.exists
      /\ history' = Archived(self, "retire") /\ row' = Merge(self.loaded, new)
      /\ Turn(s, n) /\ UNCHANGED <<status, lock, begun, byDj, overlapped>>
  BY DEF RetireManualCommit, Commits
<1>2. self \in SessionType /\ self.req \in Requests
  BY <1>1 DEF CoreInv, TypeInv, SessionInv, PatchPhases
<1>3. self.loaded.exists = TRUE
  <2>1. self.loaded.exists /\ self.loaded \in Rows
    BY <1>1, <1>2 DEF CoreInv, TypeInv, SessionInv, SessionType
  <2>2. QED
    BY <2>1 DEF Rows
<1>4. new \in Rows /\ new.exists = TRUE /\ new.started = self.id
  <2>1. self.loaded \in Rows /\ self.id \in 0..MaxOps
    BY <1>2 DEF SessionType
  <2>2. new = [self.loaded EXCEPT !.title = None, !.matched = None, !.started = self.id]
    BY DEF Blanked
  <2> HIDE DEF self
  <2>3. QED
    BY <1>3, <2>1, <2>2 DEF Rows
<1>5. status' \in [Requests -> Statuses \cup {"deleted"}] /\ byDj' \subseteq Requests
  BY <1>1 DEF CoreInv, TypeInv
<1>6. /\ n \in SessionType /\ n.at = "recording" /\ n.loaded = NoRow /\ n.id = session[s].id
      /\ n.req = session[s].req
  <2>1. n = [self EXCEPT !.at = "recording", !.loaded = NoRow] /\ self = session[s]
    OBVIOUS
  <2> HIDE DEF self
  <2>2. QED
    BY <1>2, <2>1, IdleType DEF SessionType, Phases, PatchPhases
<1> HIDE DEF new, n
<1>7. TypeInv' /\ Step(s) /\ session'[s] = n
  BY <1>1, <1>2, <1>4, <1>5, <1>6, WriteStep
<1>8. QED
  BY <1>1, <1>6, <1>7

\* It is done if the play is recorded, or it has read the next order.
LEMMA ManualPlayLoadStep ==
  ASSUME CoreInv, NEW s \in Sessions, ManualPlayLoad(s)
  PROVE  /\ TypeInv' /\ Step(s) /\ session[s].at = "recording"
         /\ \/ session'[s] = Idle /\ Recorded(session[s].req)
            \/ session'[s].at = "adding" /\ session'[s].req = session[s].req
<1> DEFINE self == session[s]
           o == NextPlayOrder
           n == [self EXCEPT !.at = "adding", !.order = o]
<1>1. /\ self.at = "recording"
      /\ Turn(s, IF Recorded(self.req) THEN Idle ELSE n)
      /\ UNCHANGED <<status, row, history, lock, begun, byDj, overlapped>>
  BY DEF ManualPlayLoad
<1>2. self \in SessionType /\ self.req \in Requests
  BY <1>1 DEF CoreInv, TypeInv, SessionInv, PatchPhases
<1>3. status' \in [Requests -> Statuses \cup {"deleted"}] /\ byDj' \subseteq Requests
  BY <1>1 DEF CoreInv, TypeInv
<1>4. o \in Nat
  BY NextOrder DEF CoreInv, OrdersInv, OrdersUpTo
<1>5. CASE Recorded(self.req)
  <2>1. Turn(s, Idle)
    BY <1>1, <1>5
  <2>2. TypeInv' /\ Step(s) /\ session'[s] = Idle
    BY <1>1, <1>3, <2>1, EndStep
  <2>3. QED
    BY <1>1, <1>5, <2>2
<1>6. CASE ~Recorded(self.req)
  <2>1. Turn(s, n)
    BY <1>1, <1>6
  <2>2. /\ n \in SessionType /\ n.at = "adding" /\ n.req = session[s].req
        /\ n.id = session[s].id /\ n.loaded = session[s].loaded /\ n.order = NextPlayOrder
    <3>1. n = [self EXCEPT !.at = "adding", !.order = o] /\ self = session[s] /\ o = NextPlayOrder
      OBVIOUS
    <3> HIDE DEF self, o
    <3>2. QED
      BY <1>2, <1>4, <3>1 DEF SessionType, Phases, PatchPhases
  <2> HIDE DEF n
  <2>3. n.at \notin Unwritten
    BY <2>2 DEF Unwritten
  <2>4. TypeInv' /\ Step(s) /\ session'[s] = n
    BY <1>1, <1>2, <1>3, <2>1, <2>2, <2>3, QuietStep
  <2>5. QED
    BY <1>1, <2>2, <2>4
<1>7. QED
  BY <1>5, <1>6

\* It has added an entry for its request.
LEMMA ManualPlayCommitStep ==
  ASSUME CoreInv, NEW s \in Sessions, ManualPlayCommit(s)
  PROVE  /\ TypeInv' /\ Step(s) /\ session[s].at = "adding" /\ session'[s] = Idle
         /\ \E e \in Entries : history' = Append(history, e) /\ e.matched = session[s].req
<1> DEFINE self == session[s]
           e == [order |-> self.order, title |-> self.req, matched |-> self.req,
                 source |-> "manual", started |-> self.id, by |-> "add"]
<1>1. /\ self.at = "adding" /\ history' = Append(history, e) /\ Turn(s, Idle)
      /\ UNCHANGED <<status, row, lock, begun, byDj, overlapped>>
  BY DEF ManualPlayCommit
<1>2. self \in SessionType /\ self.req \in Requests /\ self.at \in Archiving
  BY <1>1 DEF CoreInv, TypeInv, SessionInv, PatchPhases, Archiving
<1>3. self.order \in Nat \ {0}
  <2>1. PICK k \in Nat : OrdersUpTo(k)
    BY DEF CoreInv, OrdersInv
  <2>2. self.order \in 1..(k + 1)
    BY <1>2, <2>1 DEF OrdersUpTo
  <2>3. QED
    BY <2>2
<1>4. e \in Entries /\ e.order = self.order /\ e.started = self.id /\ e.by # "clear" /\ e.matched = self.req
  BY <1>2, <1>3 DEF SessionType, Entries, Tracks
<1> HIDE DEF e
<1>5. history \in Seq(Entries) /\ session \in [Sessions -> SessionType]
  BY DEF CoreInv, TypeInv
<1>6. history' \in Seq(Entries)
  BY <1>1, <1>4, <1>5, Appending
<1>7. /\ session' \in [Sessions -> SessionType] /\ session'[s] = Idle
      /\ \A t \in Sessions \ {s} : session'[t] = session[t]
  BY <1>1, <1>5, IdleType, TurnStep
<1>8. SessionInv'
  BY <1>7, IdleType, TypesKept DEF CoreInv, PatchPhases
<1>9. TypeInv'
  BY <1>1, <1>6, <1>7, <1>8 DEF CoreInv, TypeInv
<1>10. HistoryStep(s)
  BY <1>1, <1>2, <1>4 DEF HistoryStep
<1>11. RowStep(s) /\ NumberStep(s) /\ LockStep(s)
  BY <1>1, <1>7, IdleType DEF RowStep, NumberStep, LockStep
<1>12. Step(s)
  BY <1>7, <1>10, <1>11, IdleType DEF Step, Archiving, Unwritten, PatchPhases
<1>13. QED
  BY <1>1, <1>4, <1>7, <1>9, <1>12

\* The bulk operation is done; it accepted or rejected.
LEMMA BulkCommitStep ==
  ASSUME CoreInv, NEW s \in Sessions, BulkCommit(s)
  PROVE  /\ TypeInv' /\ Step(s) /\ session[s].at = "bulk" /\ session'[s] = Idle
         /\ session[s].to \in {"accepted", "rejected"}
<1> DEFINE self == session[s]
           st == [r \in Requests |-> IF r \in self.read THEN self.to ELSE status[r]]
<1>1. /\ self.at = "bulk" /\ status' = st /\ Turn(s, Idle)
      /\ UNCHANGED <<row, history, lock, begun, byDj, overlapped>>
  BY DEF BulkCommit
<1>2. self.to \in {"accepted", "rejected"}
  BY <1>1 DEF CoreInv, TypeInv, SessionInv
<1>3. status' \in [Requests -> Statuses \cup {"deleted"}] /\ byDj' \subseteq Requests
  <2>1. status \in [Requests -> Statuses \cup {"deleted"}] /\ byDj \subseteq Requests
    BY DEF CoreInv, TypeInv
  <2>2. self.to \in Statuses
    BY <1>2 DEF Statuses
  <2>3. st \in [Requests -> Statuses \cup {"deleted"}]
    BY <2>1, <2>2
  <2>4. QED
    BY <1>1, <2>1, <2>3
<1> HIDE DEF st
<1>4. TypeInv' /\ Step(s) /\ session'[s] = Idle
  BY <1>1, <1>3, EndStep
<1>5. QED
  BY <1>1, <1>2, <1>4

\* A clear never rolls back on its own: nothing it touches can go while it holds the row.
LEMMA RollbackStep ==
  ASSUME CoreInv, NEW s \in Sessions, Rollback(s)
  PROVE  /\ TypeInv' /\ Step(s) /\ session[s].at # "idle" /\ session'[s] = Idle
         /\ session[s].at # "clearing"
<1>1. /\ Turn(s, Idle)
      /\ byDj' = IF session[s].at = "retiring_others" THEN byDj \ {session[s].req} ELSE byDj
      /\ UNCHANGED <<status, row, history, lock, begun, overlapped>>
  BY DEF Rollback
<1>2. session[s].at \notin {"idle", "clearing"}
  BY DEF Rollback, Touched, Exists
<1>3. status' \in [Requests -> Statuses \cup {"deleted"}] /\ byDj' \subseteq Requests
  BY <1>1 DEF CoreInv, TypeInv
<1>4. TypeInv' /\ Step(s) /\ session'[s] = Idle
  BY <1>1, <1>2, <1>3, EndStep
<1>5. QED
  BY <1>2, <1>4

\* Of a deadlock, one of the two ends.
LEMMA DeadlockStep ==
  ASSUME CoreInv, NEW s \in Sessions, NEW t \in Sessions, DeadlockVictim(s, t)
  PROVE  /\ TypeInv'
         /\ \/ Step(s) /\ session[s].at = "upserting" /\ session'[s] = Idle
            \/ Step(t) /\ session[t].at = "clearing" /\ session'[t] = Idle
<1>1. /\ session[s].at = "upserting" /\ session[t].at = "clearing"
      /\ \/ Turn(s, Idle) /\ lock' = lock
         \/ Turn(t, Idle) /\ lock' = None
      /\ UNCHANGED <<status, row, history, begun, byDj, overlapped>>
  BY DEF DeadlockVictim
<1>2. status' \in [Requests -> Statuses \cup {"deleted"}] /\ byDj' \subseteq Requests
  BY <1>1 DEF CoreInv, TypeInv
<1>3. CASE Turn(s, Idle) /\ lock' = lock
  <2>1. TypeInv' /\ Step(s) /\ session'[s] = Idle
    BY <1>1, <1>2, <1>3, EndStep
  <2>2. QED
    BY <1>1, <2>1
<1>4. CASE Turn(t, Idle) /\ lock' = None
  <2>1. session \in [Sessions -> SessionType]
    BY DEF CoreInv, TypeInv
  <2>2. /\ session' \in [Sessions -> SessionType] /\ session'[t] = Idle
        /\ \A u \in Sessions \ {t} : session'[u] = session[u]
    BY <1>4, <2>1, IdleType, TurnStep
  <2>3. SessionInv'
    BY <2>2, IdleType, TypesKept DEF CoreInv, PatchPhases
  <2>4. TypeInv'
    BY <1>1, <1>2, <1>4, <2>2, <2>3 DEF CoreInv, TypeInv
  <2>5. HistoryStep(t) /\ RowStep(t)
    BY <1>1, Unchanging
  <2>6. NumberStep(t) /\ LockStep(t)
    BY <1>1, <1>4, <2>2, IdleType DEF NumberStep, LockStep
  <2>7. Step(t)
    BY <2>2, <2>5, <2>6, IdleType DEF Step, Archiving, Unwritten, PatchPhases
  <2>8. QED
    BY <1>1, <2>2, <2>4, <2>7
<1>5. QED
  BY <1>1, <1>3, <1>4

\* The placeholder row has no play, so it disturbs no clear.
LEMMA PlaceholderKeeps ==
  ASSUME CoreInv, UpdateBridgeStatus
  PROVE  /\ CoreInv'
         /\ row'.title = None /\ row'.matched = None
         /\ ~row.exists /\ overlapped' = (overlapped \/ ~Quiescent)
         /\ UNCHANGED <<status, history, session, byDj>>
<1>1. /\ ~row.exists /\ row' = [NoRow EXCEPT !.exists = TRUE]
      /\ overlapped' = (overlapped \/ ~Quiescent)
      /\ UNCHANGED <<status, history, lock, session, begun, byDj>>
  BY DEF UpdateBridgeStatus
<1>2. row' \in Rows /\ row'.title = None /\ row'.matched = None /\ row'.started = 0 /\ row'.exists
  BY <1>1, IdleType DEF Rows
<1>3. row.started = 0 /\ overlapped' \in BOOLEAN
  BY <1>1 DEF CoreInv, ClearInv, TypeInv, Quiescent
<1>4. TypeInv'
  BY <1>1, <1>2, <1>3 DEF CoreInv, TypeInv, SessionInv
<1>5. OrdersInv'
  BY <1>1 DEF CoreInv, OrdersInv, OrdersUpTo, Orders
<1>6. ClearInv'
  BY <1>1, <1>2 DEF CoreInv, ClearInv
<1>7. FreshInv'
  BY <1>1, <1>2, <1>3 DEF CoreInv, FreshInv, Cleared, ClearsArchiveOnce
<1>8. QED
  BY <1>1, <1>2, <1>4, <1>5, <1>6, <1>7 DEF CoreInv

\* A deletion cuts links: orders, numbers and the row a clear has locked stay.
LEMMA DeletionKeeps ==
  ASSUME CoreInv, NEW S \in SUBSET Requests, DeleteRequests(S)
  PROVE  /\ CoreInv'
         /\ overlapped' = (overlapped \/ ~Quiescent) /\ UNCHANGED <<session, byDj>>
         /\ \A r \in Requests : status'[r] = IF r \in S THEN "deleted" ELSE status[r]
         /\ row'.title = row.title
         /\ row'.matched = IF row.matched \in S THEN None ELSE row.matched
         /\ DOMAIN history' = DOMAIN history
         /\ \A i \in DOMAIN history :
              history'[i].matched = IF history[i].matched \in S THEN None ELSE history[i].matched
<1> DEFINE Cut(m) == IF m \in S THEN None ELSE m
<1>1. /\ begun < MaxOps /\ begun' = begun + 1 /\ overlapped' = (overlapped \/ ~Quiescent)
      /\ row.matched \in S => lock = None
      /\ status' = [r \in Requests |-> IF r \in S THEN "deleted" ELSE status[r]]
      /\ row' = [row EXCEPT !.matched = Cut(@)]
      /\ history' = [i \in DOMAIN history |-> [history[i] EXCEPT !.matched = Cut(@)]]
      /\ UNCHANGED <<lock, session, byDj>>
  BY DEF DeleteRequests
<1>2. /\ status \in [Requests -> Statuses \cup {"deleted"}] /\ row \in Rows /\ history \in Seq(Entries)
      /\ begun \in 0..MaxOps /\ MaxOps \in Nat /\ overlapped \in BOOLEAN
  BY NowPlayingAssumption DEF CoreInv, TypeInv
<1>3. /\ row' \in Rows /\ row'.title = row.title /\ row'.started = row.started
      /\ row'.exists = row.exists
      /\ row'.matched = IF row.matched \in S THEN None ELSE row.matched
      /\ row.matched \notin S => row' = row
  <2> DEFINE m == Cut(row.matched)
  <2>1. row' = [row EXCEPT !.matched = m] /\ m \in Requests \cup {None}
    BY <1>1, <1>2 DEF Rows
  <2>2. m = (IF row.matched \in S THEN None ELSE row.matched)
    OBVIOUS
  <2> HIDE DEF m
  <2>3. QED
    BY <1>2, <2>1, <2>2 DEF Rows
<1>4. /\ DOMAIN history' = DOMAIN history /\ history' \in Seq(Entries)
      /\ \A i \in DOMAIN history :
           /\ history'[i].order = history[i].order /\ history'[i].started = history[i].started
           /\ history'[i].by = history[i].by
           /\ history'[i].matched = IF history[i].matched \in S THEN None ELSE history[i].matched
  <2>1. Len(history) \in Nat /\ DOMAIN history = 1..Len(history)
    BY <1>2
  <2>2. \A i \in DOMAIN history : history[i] \in Entries
    BY <1>2
  <2>3. ASSUME NEW i \in DOMAIN history
        PROVE  LET n == history'[i]
               IN  /\ n \in Entries /\ n.order = history[i].order /\ n.started = history[i].started
                   /\ n.by = history[i].by
                   /\ n.matched = IF history[i].matched \in S THEN None ELSE history[i].matched
    <3> DEFINE m == Cut(history[i].matched)
               e == history[i]
    <3>1. history'[i] = [e EXCEPT !.matched = m] /\ m \in Requests \cup {None} /\ e \in Entries
      BY <1>1, <2>2 DEF Entries
    <3>2. m = (IF e.matched \in S THEN None ELSE e.matched)
      OBVIOUS
    <3> HIDE DEF m, e
    <3>3. LET n == history'[i]
          IN  /\ n \in Entries /\ n.order = e.order /\ n.started = e.started /\ n.by = e.by
              /\ n.matched = IF e.matched \in S THEN None ELSE e.matched
      BY <3>1, <3>2 DEF Entries
    <3>4. QED
      BY <3>3 DEF e
  <2>4. DOMAIN history' = DOMAIN history
    BY <1>1
  <2>5. history' \in [1..Len(history) -> Entries]
    BY <1>1, <2>1, <2>3
  <2>6. history' \in Seq(Entries)
    BY <2>1, <2>5
  <2>7. QED
    BY <2>3, <2>4, <2>6
<1>5. status' \in [Requests -> Statuses \cup {"deleted"}] /\ begun' \in 0..MaxOps
      /\ overlapped' \in BOOLEAN /\ begun <= begun'
  BY <1>1, <1>2 DEF Quiescent
<1>6. TypeInv'
  BY <1>1, <1>3, <1>4, <1>5 DEF CoreInv, TypeInv, SessionInv
<1>7. OrdersInv'
  <2>1. Orders' = Orders
    BY <1>4 DEF Orders
  <2>2. QED
    BY <1>1, <2>1 DEF CoreInv, OrdersInv, OrdersUpTo
<1>8. ClearInv'
  <2>1. ASSUME NEW s \in Sessions, session[s].at = "clearing"
        PROVE  row' = row
    <3>1. lock = s /\ None \notin Sessions
      BY <2>1, NowPlayingAssumption DEF CoreInv, ClearInv
    <3>2. QED
      BY <1>1, <1>3, <3>1
  <2>2. QED
    BY <1>1, <1>3, <2>1 DEF CoreInv, ClearInv
<1>9. FreshInv'
  <2>1. Cleared' = Cleared
    BY <1>4 DEF Cleared
  <2>2. \A s \in Sessions : session[s].at # "idle" => session[s].id \in 1..begun'
    BY <1>1, <1>2 DEF CoreInv, FreshInv
  <2>3. \A s \in Sessions : session[s].loaded.started <= begun'
    <3>1. \A s \in Sessions : session[s].loaded.started \in 0..MaxOps
      BY DEF CoreInv, TypeInv, SessionType, Rows
    <3>2. QED
      BY <1>1, <1>2, <3>1 DEF CoreInv, FreshInv
  <2>4. row'.started <= begun'
    BY <1>1, <1>2, <1>3 DEF CoreInv, FreshInv, Rows
  <2>5. \A i \in DOMAIN history' : history'[i].started <= begun'
    <3>1. \A i \in DOMAIN history : history[i].started \in 0..MaxOps /\ history[i].started <= begun
      <4>1. \A i \in DOMAIN history : history[i] \in Entries
        BY <1>2
      <4>2. QED
        BY <4>1 DEF CoreInv, FreshInv, Entries
    <3>2. \A c \in 0..MaxOps : c <= begun => c <= begun'
      BY <1>1, <1>2
    <3>3. QED
      BY <1>4, <3>1, <3>2
  <2>6. ClearsArchiveOnce'
    BY <1>4 DEF CoreInv, FreshInv, ClearsArchiveOnce
  <2>7. QED
    BY <1>1, <1>3, <2>6, <2>1, <2>2, <2>3, <2>4, <2>5 DEF CoreInv, FreshInv
<1>10. QED
  BY <1>1, <1>3, <1>4, <1>6, <1>7, <1>8, <1>9 DEF CoreInv

\* Every step keeps the core.
LEMMA StepKeepsCore ==
  ASSUME CoreInv, NEW s \in Sessions, TypeInv', Step(s)
  PROVE  CoreInv'
BY StepKeepsOrders, StepKeepsClear, StepKeepsFresh DEF CoreInv

---------------------------------------------------------------------------
(* At most one request that the DJ has PLAYING *)

\* A step that leaves no scan behind and puts nothing in PLAYING for a DJ
LEMMA DjKept ==
  ASSUME TypeInv, DjInv, NEW s \in Sessions,
         \A t \in Sessions \ {s} : session'[t] = session[t],
         session[s].at \notin {"scanning", "retiring_others"},
         (byDj \cap Playing)' \subseteq byDj \cap Playing
  PROVE  DjInv'
<1>1. ASSUME NEW r \in (byDj \cap Playing)', NEW q \in (byDj \cap Playing)', r # q
      PROVE  \E t \in Sessions : (Retires(t, r, q) \/ Retires(t, q, r))'
  <2>1. PICK t \in Sessions : Retires(t, r, q) \/ Retires(t, q, r)
    BY <1>1 DEF DjInv
  <2>2. t # s
    BY <2>1 DEF Retires
  <2>3. session'[t] = session[t]
    BY <2>2
  <2>4. (Retires(t, r, q) \/ Retires(t, q, r))'
    BY <2>1, <2>3 DEF Retires
  <2>5. QED
    BY <2>4
<1>2. QED
  BY <1>1 DEF DjInv

\* A PATCH to PLAYING starts to look for the others, whichever they are.
LEMMA UpdateKeepsDj ==
  ASSUME CoreInv, DjInv, NEW s \in Sessions, UpdateRequestStatus(s)
  PROVE  DjInv'
<1> DEFINE self == session[s]
<1>1. /\ Step(s) /\ self.at = "patching" /\ self.req \in Requests /\ self.to \in Statuses
      /\ session'[s].at # "idle" => session'[s].req = self.req
      /\ session'[s].at = "scanning" <=> self.to = "playing"
  BY UpdateStep
<1>2. /\ status' = [status EXCEPT ![self.req] = self.to]
      /\ byDj' = IF self.to = "playing" THEN byDj \cup {self.req} ELSE byDj
  BY DEF UpdateRequestStatus
<1>3. status \in [Requests -> Statuses \cup {"deleted"}]
  BY DEF CoreInv, TypeInv
<1>4. \A t \in Sessions \ {s} : session'[t] = session[t]
  BY <1>1 DEF Step
<1> HIDE DEF self
<1>5. CASE self.to = "playing"
  <2>1. session'[s].at = "scanning" /\ session'[s].req = self.req
    BY <1>1, <1>5
  <2>2. \A r \in (byDj \cap Playing)' : r = self.req \/ r \in byDj \cap Playing
    BY <1>2, <1>3, <1>5 DEF Playing
  <2>3. ASSUME NEW r \in (byDj \cap Playing)', NEW q \in (byDj \cap Playing)', r # q
        PROVE  \E t \in Sessions : (Retires(t, r, q) \/ Retires(t, q, r))'
    <3>1. CASE self.req \in {r, q}
      BY <2>1, <3>1 DEF Retires
    <3>2. CASE self.req \notin {r, q}
      <4>1. PICK t \in Sessions : Retires(t, r, q) \/ Retires(t, q, r)
        BY <2>2, <2>3, <3>2 DEF DjInv
      <4>2. session'[t] = session[t]
        BY <1>1, <1>4, <4>1 DEF Retires, self
      <4>3. (Retires(t, r, q) \/ Retires(t, q, r))'
        BY <4>1, <4>2 DEF Retires
      <4>4. QED
        BY <4>3
    <3>3. QED
      BY <3>1, <3>2
  <2>4. QED
    BY <2>3 DEF DjInv
<1>6. CASE self.to # "playing"
  <2>1. (byDj \cap Playing)' \subseteq byDj \cap Playing
    BY <1>1, <1>2, <1>3, <1>6 DEF Playing
  <2>2. TypeInv /\ session[s].at \notin {"scanning", "retiring_others"}
    BY <1>1 DEF CoreInv, self
  <2>3. QED
    BY <1>4, <2>1, <2>2, DjKept
<1>7. QED
  BY <1>5, <1>6

\* The scan finds every other request that is PLAYING.
LEMMA ScanKeepsDj ==
  ASSUME CoreInv, DjInv, NEW s \in Sessions, OtherPlayingLoad(s)
  PROVE  DjInv'
<1>1. /\ Step(s) /\ session[s].at = "scanning" /\ session'[s].at = "retiring_others"
      /\ session'[s].req = session[s].req
      /\ session'[s].read = Playing \ {session[s].req}
  BY OtherPlayingLoadStep
<1>2. UNCHANGED <<status, byDj>>
  BY DEF OtherPlayingLoad
<1>3. \A t \in Sessions \ {s} : session'[t] = session[t]
  BY <1>1 DEF Step
<1>4. (byDj \cap Playing)' = byDj \cap Playing
  BY <1>2 DEF Playing
<1>5. ASSUME NEW r \in byDj \cap Playing, NEW q \in byDj \cap Playing, r # q
      PROVE  \E t \in Sessions : (Retires(t, r, q) \/ Retires(t, q, r))'
  <2>1. PICK t \in Sessions : Retires(t, r, q) \/ Retires(t, q, r)
    BY <1>5 DEF DjInv
  <2>2. (Retires(t, r, q) \/ Retires(t, q, r))'
    <3>1. CASE t = s
      BY <1>1, <1>5, <2>1, <3>1 DEF Retires
    <3>2. CASE t # s
      BY <1>3, <2>1, <3>2 DEF Retires
    <3>3. QED
      BY <3>1, <3>2
  <2>3. QED
    BY <2>2
<1>6. QED
  BY <1>4, <1>5 DEF DjInv

\* What the scan found is retired with the scan: no pair loses its worker.
LEMMA RetireKeepsDj ==
  ASSUME CoreInv, DjInv, NEW s \in Sessions, OtherPlayingCommit(s)
  PROVE  DjInv'
<1>1. Step(s) /\ session[s].at = "retiring_others"
  BY OtherPlayingCommitStep
<1>2. /\ status' = [r \in Requests |-> IF r \in session[s].read THEN "played" ELSE status[r]]
      /\ byDj' = byDj
  BY DEF OtherPlayingCommit
<1>3. \A t \in Sessions \ {s} : session'[t] = session[t]
  BY <1>1 DEF Step
<1>4. \A r \in (byDj \cap Playing)' : r \in byDj \cap Playing /\ r \notin session[s].read
  BY <1>2 DEF Playing
<1>5. ASSUME NEW r \in (byDj \cap Playing)', NEW q \in (byDj \cap Playing)', r # q
      PROVE  \E t \in Sessions : (Retires(t, r, q) \/ Retires(t, q, r))'
  <2>1. PICK t \in Sessions : Retires(t, r, q) \/ Retires(t, q, r)
    BY <1>4, <1>5 DEF DjInv
  <2>2. t # s
    BY <1>1, <1>4, <2>1 DEF Retires
  <2>3. (Retires(t, r, q) \/ Retires(t, q, r))'
    BY <1>3, <2>1, <2>2 DEF Retires
  <2>4. QED
    BY <2>3
<1>6. QED
  BY <1>5 DEF DjInv

\* A scan that fails takes its request out of the count.
LEMMA RollbackKeepsDj ==
  ASSUME CoreInv, DjInv, NEW s \in Sessions, Rollback(s)
  PROVE  DjInv'
<1>1. Step(s) /\ session[s].at # "idle"
  BY RollbackStep
<1>2. /\ byDj' = IF session[s].at = "retiring_others" THEN byDj \ {session[s].req} ELSE byDj
      /\ status' = status
  BY DEF Rollback
<1>3. session[s].at # "scanning"
  BY DEF Rollback, Touched, Exists
<1>4. \A t \in Sessions \ {s} : session'[t] = session[t]
  BY <1>1 DEF Step
<1>5. \A r \in (byDj \cap Playing)' :
         r \in byDj \cap Playing /\ (session[s].at = "retiring_others" => r # session[s].req)
  BY <1>2 DEF Playing
<1>6. ASSUME NEW r \in (byDj \cap Playing)', NEW q \in (byDj \cap Playing)', r # q
      PROVE  \E t \in Sessions : (Retires(t, r, q) \/ Retires(t, q, r))'
  <2>1. PICK t \in Sessions : Retires(t, r, q) \/ Retires(t, q, r)
    BY <1>5, <1>6 DEF DjInv
  <2>2. t # s
    BY <1>3, <1>5, <2>1 DEF Retires
  <2>3. (Retires(t, r, q) \/ Retires(t, q, r))'
    BY <1>4, <2>1, <2>2 DEF Retires
  <2>4. QED
    BY <2>3
<1>7. QED
  BY <1>6 DEF DjInv

---------------------------------------------------------------------------
(* While requests have never overlapped *)

\* A worker that acts while no request has ever overlapped another acts alone.
LEMMA Alone ==
  ASSUME CoreInv, SerialInv, NEW s \in Sessions, Step(s),
         \/ overlapped' = overlapped /\ session[s].at # "idle"
         \/ overlapped' = (overlapped \/ ~Quiescent),
         ~overlapped'
  PROVE  /\ ~overlapped /\ SerialPhase(session[s])
         /\ session[s].at = "idle" => ShownPlaying /\ PlayedInHistory
         /\ \A t \in Sessions \ {s} : session[t].at = "idle" /\ session'[t].at = "idle"
<1>1. ~overlapped
  OBVIOUS
<1>2. \A t \in Sessions \ {s} : session'[t] = session[t]
  BY DEF Step
<1>3. \A t \in Sessions \ {s} : session[t].at = "idle"
  BY <1>1 DEF SerialInv, Quiescent
<1>4. session[s].at = "idle" => Quiescent
  BY <1>3 DEF Quiescent
<1>5. QED
  BY <1>1, <1>2, <1>3, <1>4 DEF SerialInv

\* So it is enough to know what it holds next.
LEMMA SerialFrom ==
  ASSUME CoreInv, SerialInv, NEW s \in Sessions, Step(s), RowLives',
         \/ overlapped' = overlapped /\ session[s].at # "idle"
         \/ overlapped' = (overlapped \/ ~Quiescent),
         ~overlapped' => SerialPhase(session[s])'
                         /\ (session'[s].at = "idle" => ShownPlaying' /\ PlayedInHistory')
  PROVE  SerialInv'
<1>1. SUFFICES ASSUME ~overlapped'
               PROVE  (/\ \A t, u \in Sessions : session[t].at # "idle" /\ session[u].at # "idle" => t = u
                       /\ \A t \in Sessions : SerialPhase(session[t])
                       /\ Quiescent => ShownPlaying /\ PlayedInHistory)'
  BY DEF SerialInv
<1>2. \A t \in Sessions \ {s} : session'[t].at = "idle"
  BY <1>1, Alone
<1>3. \A t \in Sessions \ {s} : SerialPhase(session[t])'
  BY <1>2 DEF SerialPhase, PatchPhases
<1>4. Quiescent' => session'[s].at = "idle"
  BY DEF Quiescent
<1>5. QED
  BY <1>1, <1>2, <1>3, <1>4

\* The row is linked to a request that exists, before and after.
LEMMA RowLivesKept ==
  ASSUME RowLives,
         \A r \in Requests : status[r] # "deleted" => status'[r] # "deleted",
         \A r \in Requests : row'.matched = r => row.matched = r \/ status'[r] # "deleted"
  PROVE  RowLives'
BY DEF RowLives

\* What was in the history stays, and an archived play is linked to its request.
LEMMA ArchivedRecords ==
  ASSUME history \in Seq(Entries), NEW self \in SessionType, self.order \in Nat \ {0},
         NEW by \in {"post", "clear", "manual", "retire", "add"}, history' = Archived(self, by)
  PROVE  \A r \in Requests :
            InHistory(r) \/ (self.loaded.title # None /\ self.loaded.matched = r) => InHistory(r)'
<1>1. CASE self.loaded.title = None
  <2>1. history' = history
    BY <1>1, ArchivedType
  <2>2. QED
    BY <1>1, <2>1 DEF InHistory
<1>2. CASE self.loaded.title # None
  <2>1. PICK e \in Entries : history' = Append(history, e) /\ e.matched = self.loaded.matched
    BY <1>2, ArchivedType
  <2> DEFINE n == Len(history) + 1
  <2>2. /\ DOMAIN history' = DOMAIN history \cup {n}
        /\ \A i \in DOMAIN history : history'[i] = history[i]
        /\ history'[n] = e
    BY <2>1, Appending
  <2> HIDE DEF n
  <2>3. QED
    BY <2>1, <2>2 DEF InHistory
<1>3. QED
  BY <1>1, <1>2

\* An order that a worker archives with is positive.
LEMMA OrderPositive ==
  ASSUME CoreInv, NEW s \in Sessions, session[s].at \in Archiving
  PROVE  session[s].order \in Nat \ {0}
<1>1. PICK k \in Nat : OrdersUpTo(k)
  BY DEF CoreInv, OrdersInv
<1>2. session[s].order \in 1..(k + 1)
  BY <1>1 DEF OrdersUpTo
<1>3. QED
  BY <1>2

\* Reading changes nothing that is PLAYING, PLAYED or shown.
LEMMA ReadingKeeps ==
  ASSUME UNCHANGED <<status, row, history>>
  PROVE  /\ Playing' = Playing /\ ShownPlaying' = ShownPlaying /\ PlayedInHistory' = PlayedInHistory
         /\ RowLives' = RowLives
         /\ \A r : InHistory(r)' = InHistory(r) /\ Shown(r)' = Shown(r)
BY DEF Playing, ShownPlaying, PlayedInHistory, RowLives, InHistory, Shown

\* Reading for a post
LEMMA MatchKeepsSerial ==
  ASSUME CoreInv, SerialInv, NEW s \in Sessions, NEW track \in Tracks, NowPlayingMatch(s, track)
  PROVE  SerialInv'
<1>1. /\ Step(s) /\ session[s].at = "idle" /\ session'[s].at = "posting"
      /\ session'[s].req \in {None, track} /\ session'[s].to = track
      /\ overlapped' = (overlapped \/ ~Quiescent)
  BY MatchStep
<1>2. UNCHANGED <<status, row, history>>
  BY DEF NowPlayingMatch
<1>3. ASSUME ~overlapped'
      PROVE  SerialPhase(session[s])'
  <2>1. ShownPlaying' /\ PlayedInHistory'
    BY <1>1, <1>2, <1>3, Alone, ReadingKeeps
  <2>2. QED
    BY <1>1, <2>1 DEF SerialPhase, PatchPhases
<1>4. RowLives'
  BY <1>2, ReadingKeeps DEF SerialInv
<1>5. QED
  BY <1>1, <1>3, <1>4, SerialFrom

\* Reading for a PATCH: the transition is still valid while the worker is alone.
LEMMA PatchLoadKeepsSerial ==
  ASSUME CoreInv, SerialInv, NEW s \in Sessions, NEW r \in Requests, NEW to \in Statuses,
         PatchLoad(s, r, to)
  PROVE  SerialInv'
<1>1. /\ Step(s) /\ session[s].at = "idle" /\ session'[s].at = "patching"
      /\ session'[s].req = r /\ session'[s].to = to
      /\ overlapped' = (overlapped \/ ~Quiescent)
  BY PatchLoadStep
<1>2. UNCHANGED <<status, row, history>> /\ to \in ValidTransitions[status[r]]
  BY DEF PatchLoad
<1>3. ASSUME ~overlapped'
      PROVE  SerialPhase(session[s])'
  <2>1. ShownPlaying' /\ PlayedInHistory'
    BY <1>1, <1>2, <1>3, Alone, ReadingKeeps
  <2>2. status'[r] # "deleted" /\ to \in ValidTransitions[status'[r]]
    BY <1>2 DEF ValidTransitions
  <2>3. QED
    BY <1>1, <2>1, <2>2 DEF SerialPhase, PatchPhases
<1>4. RowLives'
  BY <1>2, ReadingKeeps DEF SerialInv
<1>5. QED
  BY <1>1, <1>3, <1>4, SerialFrom

\* Reading for a bulk operation
LEMMA BulkLoadKeepsSerial ==
  ASSUME CoreInv, SerialInv, NEW s \in Sessions, NEW to \in {"accepted", "rejected"}, BulkLoad(s, to)
  PROVE  SerialInv'
<1>1. /\ Step(s) /\ session[s].at = "idle" /\ session'[s].at = "bulk"
      /\ overlapped' = (overlapped \/ ~Quiescent)
  BY BulkLoadStep
<1>2. UNCHANGED <<status, row, history>>
  BY DEF BulkLoad
<1>3. ASSUME ~overlapped'
      PROVE  SerialPhase(session[s])'
  <2>1. ShownPlaying' /\ PlayedInHistory'
    BY <1>1, <1>2, <1>3, Alone, ReadingKeeps
  <2>2. QED
    BY <1>1, <2>1 DEF SerialPhase, PatchPhases
<1>4. RowLives'
  BY <1>2, ReadingKeeps DEF SerialInv
<1>5. QED
  BY <1>1, <1>3, <1>4, SerialFrom

\* Reading for a clear: the linked request is all that is PLAYING.
LEMMA ClearLoadKeepsSerial ==
  ASSUME CoreInv, SerialInv, NEW s \in Sessions, ClearLoad(s)
  PROVE  SerialInv'
<1>1. /\ Step(s) /\ session[s].at = "idle" /\ session'[s].at = "clearing"
      /\ session'[s].read = {r \in {row.matched} \ {None} : status[r] = "playing"}
      /\ overlapped' = (overlapped \/ ~Quiescent)
  BY ClearLoadStep
<1>2. UNCHANGED <<status, row, history>>
  BY DEF ClearLoad
<1>3. ASSUME ~overlapped'
      PROVE  SerialPhase(session[s])'
  <2>1. ShownPlaying /\ ShownPlaying' /\ PlayedInHistory' /\ Playing' = Playing
    BY <1>1, <1>2, <1>3, Alone, ReadingKeeps
  <2>2. session'[s].read = Playing
    <3>1. row.matched \in Requests \cup {None} /\ None \notin Requests
      BY NowPlayingAssumption DEF CoreInv, TypeInv, Rows
    <3>2. \A r \in Playing : row.matched = r
      BY <2>1 DEF ShownPlaying, Shown
    <3>3. QED
      BY <1>1, <3>1, <3>2 DEF Playing
  <2>3. QED
    BY <1>1, <2>1, <2>2 DEF SerialPhase, PatchPhases
<1>4. RowLives'
  BY <1>2, ReadingKeeps DEF SerialInv
<1>5. QED
  BY <1>1, <1>3, <1>4, SerialFrom

\* Reading the row for a post
LEMMA NowPlayingLoadKeepsSerial ==
  ASSUME CoreInv, SerialInv, NEW s \in Sessions, NowPlayingLoad(s)
  PROVE  SerialInv'
<1>1. /\ Step(s) /\ session[s].at = "posting"
      /\ session'[s].at = "upserting" /\ session'[s].loaded = row /\ session'[s].read = Playing
      /\ session'[s].req = session[s].req /\ session'[s].to = session[s].to
  BY NowPlayingLoadStep
<1>2. UNCHANGED <<status, row, history>> /\ overlapped' = overlapped
  BY DEF NowPlayingLoad
<1>3. ASSUME ~overlapped'
      PROVE  SerialPhase(session[s])'
  <2>1. SerialPhase(session[s])
    BY <1>1, <1>2, <1>3, Alone
  <2>2. ShownPlaying /\ PlayedInHistory /\ session[s].req \in {None, session[s].to}
    BY <1>1, <2>1 DEF SerialPhase
  <2>3. ShownPlaying' /\ PlayedInHistory' /\ Playing' = Playing
    BY <1>2, <2>2, ReadingKeeps
  <2>4. QED
    BY <1>1, <1>2, <2>2, <2>3 DEF SerialPhase, PatchPhases
<1>4. RowLives'
  BY <1>2, ReadingKeeps DEF SerialInv
<1>5. QED
  BY <1>1, <1>2, <1>3, <1>4, SerialFrom

\* A post retires what was shown into the history and shows what it posts.
LEMMA NowPlayingCommitKeepsSerial ==
  ASSUME CoreInv, SerialInv, NEW s \in Sessions, NowPlayingCommit(s)
  PROVE  SerialInv'
<1> DEFINE self == session[s]
           new == [exists |-> TRUE, title |-> self.to, source |-> "bridge",
                   matched |-> self.req, started |-> self.id]
<1>1. Step(s) /\ self.at = "upserting" /\ session'[s] = Idle
  BY NowPlayingCommitStep
<1>2. /\ Exists(PostRefs(self)) /\ history' = Archived(self, "post") /\ row' = Merge(self.loaded, new)
      /\ status' = [r \in Requests |-> IF r = self.req THEN "playing"
                                       ELSE IF r \in self.read THEN "played" ELSE status[r]]
      /\ overlapped' = overlapped
  BY DEF NowPlayingCommit, Commits
<1>3. self \in SessionType /\ self.to \in Tracks /\ row \in Rows /\ history \in Seq(Entries)
  BY <1>1 DEF CoreInv, TypeInv, SessionInv
<1>4. new \in Rows /\ new.title = self.to /\ new.matched = self.req
  BY <1>3 DEF SessionType, Rows
<1>5. self.loaded \in Rows /\ self.read \subseteq Requests /\ self.req \in Requests \cup {None}
  BY <1>3 DEF SessionType
<1>6. /\ row'.matched \in {row.matched, self.req}
      /\ self.loaded = row => row' = new
  <2> HIDE DEF new
  <2>1. QED
    BY <1>2, <1>3, <1>4, <1>5, MergeType
<1>7. None \notin Requests
  BY NowPlayingAssumption
<1>8. RowLives'
  <2>1. \A r \in Requests : status[r] # "deleted" => status'[r] # "deleted"
    BY <1>2
  <2>2. \A r \in Requests : row'.matched = r => row.matched = r \/ status'[r] # "deleted"
    BY <1>2, <1>6
  <2>3. QED
    BY <2>1, <2>2, RowLivesKept DEF SerialInv
<1>9. \A r \in Requests :
        InHistory(r) \/ (self.loaded.title # None /\ self.loaded.matched = r) => InHistory(r)'
  <2>1. self.order \in Nat \ {0}
    BY <1>1, OrderPositive DEF Archiving
  <2> HIDE DEF self
  <2>2. QED
    BY <1>2, <1>3, <2>1, ArchivedRecords
<1>10. ASSUME ~overlapped'
       PROVE  ShownPlaying' /\ PlayedInHistory'
  <2>1. SerialPhase(self)
    BY <1>1, <1>2, <1>10, Alone
  <2>2. /\ ShownPlaying /\ PlayedInHistory /\ self.loaded = row
        /\ self.req \in {None, self.to} /\ self.read = Playing
    BY <1>1, <2>1 DEF SerialPhase
  <2>3. row'.title = self.to /\ row'.matched = self.req
    BY <1>4, <1>6, <2>2
  <2>4. ShownPlaying'
    <3>1. \A r \in Playing' : r \in Requests /\ r = self.req
      BY <1>2, <2>2 DEF Playing
    <3>2. QED
      BY <1>7, <2>2, <2>3, <3>1 DEF ShownPlaying, Shown
  <2>5. PlayedInHistory'
    <3>1. ASSUME NEW r \in Requests, status'[r] = "played"
          PROVE  InHistory(r)'
      <4>1. CASE r \in Playing
        <5>1. row.title = r /\ row.matched = r
          BY <2>2, <4>1 DEF ShownPlaying, Shown
        <5>2. QED
          BY <1>7, <1>9, <2>2, <5>1
      <4>2. CASE r \notin Playing
        <5>1. status[r] = "played"
          BY <1>2, <2>2, <3>1, <4>2
        <5>2. QED
          BY <1>9, <2>2, <5>1 DEF PlayedInHistory
      <4>3. QED
        BY <4>1, <4>2
    <3>2. QED
      BY <3>1 DEF PlayedInHistory
  <2>6. QED
    BY <2>4, <2>5
<1>11. SerialPhase(session[s])'
  BY <1>1, IdleType DEF SerialPhase, PatchPhases
<1>12. QED
  BY <1>1, <1>2, <1>8, <1>10, <1>11, SerialFrom

\* A clear retires what was shown into the history and shows nothing.
LEMMA ClearCommitKeepsSerial ==
  ASSUME CoreInv, SerialInv, NEW s \in Sessions, ClearCommit(s)
  PROVE  SerialInv'
<1> DEFINE self == session[s]
           new == Blanked(self)
<1>1. Step(s) /\ self.at = "clearing" /\ session'[s] = Idle
  BY ClearCommitStep
<1>2. /\ history' = Archived(self, "clear") /\ row' = Merge(self.loaded, new)
      /\ status' = [r \in Requests |-> IF r \in self.read THEN "played" ELSE status[r]]
      /\ overlapped' = overlapped
  BY DEF ClearCommit, Commits
<1>3. self \in SessionType /\ row \in Rows /\ history \in Seq(Entries)
  BY DEF CoreInv, TypeInv
<1>4. self.loaded = row /\ row.title # None
  BY <1>1 DEF CoreInv, ClearInv
<1>5. new \in Rows /\ new.matched = None
  <2>1. self.loaded \in Rows /\ self.id \in 0..MaxOps
    BY <1>3 DEF SessionType
  <2>2. new = [self.loaded EXCEPT !.title = None, !.matched = None, !.started = self.id]
    BY DEF Blanked
  <2> HIDE DEF self
  <2>3. QED
    BY <2>1, <2>2 DEF Rows
<1>6. row'.matched = None
  <2> HIDE DEF new
  <2>1. row' = new
    BY <1>2, <1>3, <1>4, <1>5, MergeType
  <2>2. QED
    BY <1>5, <2>1
<1>7. None \notin Requests
  BY NowPlayingAssumption
<1>8. RowLives'
  BY <1>6, <1>7 DEF RowLives
<1>9. \A r \in Requests :
        InHistory(r) \/ (self.loaded.title # None /\ self.loaded.matched = r) => InHistory(r)'
  <2>1. self.order \in Nat \ {0}
    BY <1>1, OrderPositive DEF Archiving
  <2> HIDE DEF self
  <2>2. QED
    BY <1>2, <1>3, <2>1, ArchivedRecords
<1>10. ASSUME ~overlapped'
       PROVE  ShownPlaying' /\ PlayedInHistory'
  <2>1. SerialPhase(self)
    BY <1>1, <1>2, <1>10, Alone
  <2>2. ShownPlaying /\ PlayedInHistory /\ self.read = Playing
    BY <1>1, <2>1 DEF SerialPhase
  <2>3. Playing' = {}
    BY <1>2, <2>2 DEF Playing
  <2>4. ASSUME NEW r \in Requests, status'[r] = "played"
        PROVE  InHistory(r)'
    <3>1. CASE r \in Playing
      BY <1>4, <1>9, <2>2, <3>1 DEF ShownPlaying, Shown
    <3>2. CASE r \notin Playing
      <4>1. status[r] = "played"
        BY <1>2, <2>2, <2>4, <3>2
      <4>2. QED
        BY <1>9, <2>2, <4>1 DEF PlayedInHistory
    <3>3. QED
      BY <3>1, <3>2
  <2>5. QED
    BY <2>3, <2>4 DEF ShownPlaying, PlayedInHistory
<1>11. SerialPhase(session[s])'
  BY <1>1, IdleType DEF SerialPhase, PatchPhases
<1>12. QED
  BY <1>1, <1>2, <1>8, <1>10, <1>11, SerialFrom

\* The status moves along a valid transition, so a request that becomes PLAYED was
\* the one that was shown.
LEMMA UpdateKeepsSerial ==
  ASSUME CoreInv, SerialInv, NEW s \in Sessions, UpdateRequestStatus(s)
  PROVE  SerialInv'
<1> DEFINE self == session[s]
<1>1. /\ Step(s) /\ self.at = "patching" /\ self.req \in Requests /\ self.to \in Statuses
      /\ session'[s].at # "idle" => session'[s].req = self.req
      /\ session'[s].at \in {"idle", "scanning", "retiring"}
      /\ session'[s].at = "scanning" <=> self.to = "playing"
      /\ session'[s].at = "retiring" <=> self.to = "played"
  BY UpdateStep
<1>2. /\ status' = [status EXCEPT ![self.req] = self.to] /\ status[self.req] # "deleted"
      /\ UNCHANGED <<row, history>> /\ overlapped' = overlapped
  BY DEF UpdateRequestStatus, Exists
<1>3. status \in [Requests -> Statuses \cup {"deleted"}]
  BY DEF CoreInv, TypeInv
<1>4. \A r \in Requests : status'[r] = IF r = self.req THEN self.to ELSE status[r]
  BY <1>1, <1>2, <1>3
<1>5. self.to # "deleted"
  BY <1>1 DEF Statuses
<1>6. RowLives'
  <2>1. \A r \in Requests : status[r] # "deleted" => status'[r] # "deleted"
    BY <1>4, <1>5
  <2>2. QED
    BY <1>2, <2>1, RowLivesKept DEF SerialInv
<1>7. ASSUME ~overlapped'
      PROVE  /\ SerialPhase(session[s])'
             /\ session'[s].at = "idle" => ShownPlaying' /\ PlayedInHistory'
  <2>1. SerialPhase(self)
    BY <1>1, <1>2, <1>7, Alone
  <2>2. ShownPlaying /\ PlayedInHistory /\ self.to \in ValidTransitions[status[self.req]]
    BY <1>1, <2>1 DEF SerialPhase
  <2>3. \A r \in Requests : InHistory(r)' = InHistory(r) /\ Shown(r)' = Shown(r)
    BY <1>2 DEF InHistory, Shown
  <2>4. self.to = "played" <=> status[self.req] = "playing"
    BY <1>1, <1>3, <2>2 DEF ValidTransitions, Statuses
  <2>5. \A r \in Playing' : r # self.req => r \in Playing /\ Shown(r)
    BY <1>4, <2>2 DEF Playing, ShownPlaying
  <2>6. \A r \in Requests : status'[r] = "played" /\ r # self.req => InHistory(r)
    BY <1>4, <2>2 DEF PlayedInHistory
  <2>7. self.req \in Playing' <=> self.to = "playing"
    BY <1>1, <1>4 DEF Playing
  <2>8. CASE session'[s].at = "idle"
    <3>1. self.to # "playing" /\ self.to # "played"
      BY <1>1, <2>8
    <3>2. ShownPlaying'
      BY <2>3, <2>5, <2>7, <3>1 DEF ShownPlaying, Playing
    <3>3. PlayedInHistory'
      BY <1>1, <1>4, <2>3, <2>6, <3>1 DEF PlayedInHistory
    <3>4. QED
      BY <2>8, <3>2, <3>3 DEF SerialPhase, PatchPhases
  <2>9. CASE session'[s].at = "scanning"
    <3>1. self.to = "playing" /\ session'[s].req = self.req
      BY <1>1, <2>9
    <3>2. PlayedInHistory'
      BY <1>1, <1>4, <2>3, <2>6, <3>1 DEF PlayedInHistory
    <3>3. \A r \in Playing' \ {self.req} : Shown(r)'
      BY <2>3, <2>5 DEF Playing
    <3>4. status'[self.req] # "deleted"
      BY <1>1, <1>4, <1>5
    <3>5. QED
      BY <2>9, <3>1, <3>2, <3>3, <3>4 DEF SerialPhase
  <2>10. CASE session'[s].at = "retiring"
    <3>1. self.to = "played" /\ session'[s].req = self.req
      BY <1>1, <2>10
    <3>2. self.req \in Playing
      BY <1>1, <2>4, <3>1 DEF Playing
    <3>3. Playing' = {}
      <4>1. Shown(self.req)
        BY <2>2, <3>2 DEF ShownPlaying
      <4>2. \A r \in Playing' : r = self.req
        BY <2>5, <4>1 DEF Shown
      <4>3. QED
        BY <2>7, <3>1, <4>2
    <3>4. status'[self.req] # "deleted"
      BY <1>1, <1>4, <1>5
    <3>5. \A r \in Requests \ {self.req} : status'[r] = "played" => InHistory(r)'
      BY <2>3, <2>6
    <3>6. QED
      BY <2>10, <3>1, <3>3, <3>4, <3>5 DEF SerialPhase
  <2>11. QED
    BY <1>1, <2>8, <2>9, <2>10
<1>8. QED
  BY <1>1, <1>2, <1>6, <1>7, SerialFrom

\* Scanning: the others that are PLAYING are shown.
LEMMA ScanKeepsSerial ==
  ASSUME CoreInv, SerialInv, NEW s \in Sessions, OtherPlayingLoad(s)
  PROVE  SerialInv'
<1>1. /\ Step(s) /\ session[s].at = "scanning" /\ session'[s].at = "retiring_others"
      /\ session'[s].req = session[s].req
      /\ session'[s].read = Playing \ {session[s].req}
  BY OtherPlayingLoadStep
<1>2. UNCHANGED <<status, row, history>> /\ overlapped' = overlapped
  BY DEF OtherPlayingLoad
<1>3. ASSUME ~overlapped'
      PROVE  SerialPhase(session[s])'
  <2>1. SerialPhase(session[s])
    BY <1>1, <1>2, <1>3, Alone
  <2>2. /\ PlayedInHistory /\ \A r \in Playing \ {session[s].req} : Shown(r)
        /\ status[session[s].req] # "deleted"
    BY <1>1, <2>1 DEF SerialPhase, PatchPhases
  <2>3. /\ PlayedInHistory' /\ Playing' = Playing
        /\ \A r \in Playing \ {session[s].req} : Shown(r)'
    BY <1>2, <2>2, ReadingKeeps
  <2>4. QED
    BY <1>1, <1>2, <2>2, <2>3 DEF SerialPhase
<1>4. RowLives'
  BY <1>2, ReadingKeeps DEF SerialInv
<1>5. QED
  BY <1>1, <1>2, <1>3, <1>4, SerialFrom

\* Retiring the others leaves only the worker's own request, and one shown play to archive.
LEMMA RetireKeepsSerial ==
  ASSUME CoreInv, SerialInv, NEW s \in Sessions, OtherPlayingCommit(s)
  PROVE  SerialInv'
<1> DEFINE self == session[s]
<1>1. /\ Step(s) /\ self.at = "retiring_others" /\ session'[s].at = "showing"
      /\ session'[s].req = self.req
  BY OtherPlayingCommitStep
<1>2. /\ status' = [r \in Requests |-> IF r \in self.read THEN "played" ELSE status[r]]
      /\ UNCHANGED <<row, history>> /\ overlapped' = overlapped
  BY DEF OtherPlayingCommit
<1>3. self.req \in Requests
  BY <1>1 DEF CoreInv, TypeInv, SessionInv, PatchPhases
<1>4. RowLives'
  <2>1. \A r \in Requests : status[r] # "deleted" => status'[r] # "deleted"
    BY <1>2
  <2>2. QED
    BY <1>2, <2>1, RowLivesKept DEF SerialInv
<1>5. ASSUME ~overlapped'
      PROVE  SerialPhase(session[s])'
  <2>1. SerialPhase(self)
    BY <1>1, <1>2, <1>5, Alone
  <2>2. /\ PlayedInHistory /\ \A r \in Playing \ {self.req} : Shown(r)
        /\ self.read = Playing \ {self.req} /\ status[self.req] # "deleted"
    BY <1>1, <2>1 DEF SerialPhase, PatchPhases
  <2>3. \A r \in Requests : InHistory(r)' = InHistory(r) /\ Shown(r)' = Shown(r)
    BY <1>2 DEF InHistory, Shown
  <2>4. Playing' \subseteq {self.req}
    BY <1>2, <2>2 DEF Playing
  <2>5. \A r \in Requests : status'[r] = "played" => InHistory(r)' \/ Shown(r)'
    BY <1>2, <2>2, <2>3 DEF PlayedInHistory
  <2>6. status'[self.req] # "deleted"
    BY <1>2, <1>3, <2>2
  <2>7. QED
    BY <1>1, <2>4, <2>5, <2>6 DEF SerialPhase
<1>6. QED
  BY <1>1, <1>2, <1>4, <1>5, SerialFrom

\* Reading the row for a manual play
LEMMA ManualLoadKeepsSerial ==
  ASSUME CoreInv, SerialInv, NEW s \in Sessions, ManualNowPlayingLoad(s)
  PROVE  SerialInv'
<1>1. /\ Step(s) /\ session[s].at = "showing"
      /\ session'[s].at = "upserting_manual" /\ session'[s].req = session[s].req
      /\ session'[s].loaded = row
  BY ManualNowPlayingLoadStep
<1>2. UNCHANGED <<status, row, history>> /\ overlapped' = overlapped
  BY DEF ManualNowPlayingLoad
<1>3. ASSUME ~overlapped'
      PROVE  SerialPhase(session[s])'
  <2>1. SerialPhase(session[s])
    BY <1>1, <1>2, <1>3, Alone
  <2>2. /\ Playing \subseteq {session[s].req} /\ status[session[s].req] # "deleted"
        /\ \A r \in Requests : status[r] = "played" => InHistory(r) \/ Shown(r)
    BY <1>1, <2>1 DEF SerialPhase, PatchPhases
  <2>3. /\ Playing' = Playing
        /\ \A r \in Requests : status'[r] = "played" => InHistory(r)' \/ Shown(r)'
    BY <1>2, <2>2, ReadingKeeps
  <2>4. QED
    BY <1>1, <1>2, <2>2, <2>3 DEF SerialPhase
<1>4. RowLives'
  BY <1>2, ReadingKeeps DEF SerialInv
<1>5. QED
  BY <1>1, <1>2, <1>3, <1>4, SerialFrom

\* The manual play replaces what was shown, which goes into the history.
LEMMA ManualCommitKeepsSerial ==
  ASSUME CoreInv, SerialInv, NEW s \in Sessions, ManualNowPlayingCommit(s)
  PROVE  SerialInv'
<1> DEFINE self == session[s]
           new == [exists |-> TRUE, title |-> self.req, source |-> "manual",
                   matched |-> self.req, started |-> self.id]
<1>1. Step(s) /\ self.at = "upserting_manual" /\ session'[s] = Idle
  BY ManualNowPlayingCommitStep
<1>2. /\ Exists({self.req} \cup Refs(self)) /\ history' = Archived(self, "manual")
      /\ row' = Merge(self.loaded, new) /\ status' = status /\ overlapped' = overlapped
  BY DEF ManualNowPlayingCommit, Commits
<1>3. self \in SessionType /\ self.req \in Requests /\ row \in Rows /\ history \in Seq(Entries)
  BY <1>1 DEF CoreInv, TypeInv, SessionInv, PatchPhases
<1>4. new \in Rows /\ new.title = self.req /\ new.matched = self.req
  BY <1>3 DEF SessionType, Rows, Tracks
<1>5. self.loaded \in Rows
  BY <1>3 DEF SessionType
<1>6. row'.matched \in {row.matched, self.req} /\ (self.loaded = row => row' = new)
  <2> HIDE DEF new
  <2>1. QED
    BY <1>2, <1>3, <1>4, <1>5, MergeType
<1>7. None \notin Requests
  BY NowPlayingAssumption
<1>8. RowLives'
  <2>1. status'[self.req] # "deleted"
    BY <1>2, <1>3 DEF Exists
  <2>2. QED
    BY <1>2, <1>6, <2>1, RowLivesKept DEF SerialInv
<1>9. \A r \in Requests :
        InHistory(r) \/ (self.loaded.title # None /\ self.loaded.matched = r) => InHistory(r)'
  <2>1. self.order \in Nat \ {0}
    BY <1>1, OrderPositive DEF Archiving
  <2> HIDE DEF self
  <2>2. QED
    BY <1>2, <1>3, <2>1, ArchivedRecords
<1>10. ASSUME ~overlapped'
       PROVE  ShownPlaying' /\ PlayedInHistory'
  <2>1. SerialPhase(self)
    BY <1>1, <1>2, <1>10, Alone
  <2>2. /\ self.loaded = row /\ Playing \subseteq {self.req}
        /\ \A r \in Requests : status[r] = "played" => InHistory(r) \/ Shown(r)
    BY <1>1, <2>1 DEF SerialPhase
  <2>3. row'.title = self.req /\ row'.matched = self.req /\ Playing' = Playing
    BY <1>2, <1>4, <1>6, <2>2 DEF Playing
  <2>4. ShownPlaying'
    BY <2>2, <2>3 DEF ShownPlaying, Shown
  <2>5. PlayedInHistory'
    BY <1>2, <1>7, <1>9, <2>2 DEF PlayedInHistory, Shown
  <2>6. QED
    BY <2>4, <2>5
<1>11. SerialPhase(session[s])'
  BY <1>1, IdleType DEF SerialPhase, PatchPhases
<1>12. QED
  BY <1>1, <1>2, <1>8, <1>10, <1>11, SerialFrom

\* Reading the row to retire it
LEMMA RetireManualLoadKeepsSerial ==
  ASSUME CoreInv, SerialInv, NEW s \in Sessions, RetireManualLoad(s)
  PROVE  SerialInv'
<1>1. /\ Step(s) /\ session[s].at = "retiring"
      /\ session'[s].at \in {"blanking", "recording"} /\ session'[s].req = session[s].req
      /\ session'[s].at = "blanking" => session'[s].loaded = row
  BY RetireManualLoadStep
<1>2. UNCHANGED <<status, row, history>> /\ overlapped' = overlapped
  BY DEF RetireManualLoad
<1>3. ASSUME ~overlapped'
      PROVE  SerialPhase(session[s])'
  <2>1. SerialPhase(session[s])
    BY <1>1, <1>2, <1>3, Alone
  <2>2. /\ Playing = {} /\ status[session[s].req] # "deleted"
        /\ \A r \in Requests \ {session[s].req} : status[r] = "played" => InHistory(r)
    BY <1>1, <2>1 DEF SerialPhase, PatchPhases
  <2>3. /\ Playing' = {}
        /\ \A r \in Requests \ {session[s].req} : status'[r] = "played" => InHistory(r)'
    BY <1>2, <2>2, ReadingKeeps
  <2>4. QED
    BY <1>1, <1>2, <2>2, <2>3 DEF SerialPhase
<1>4. RowLives'
  BY <1>2, ReadingKeeps DEF SerialInv
<1>5. QED
  BY <1>1, <1>2, <1>3, <1>4, SerialFrom

\* Retiring the row: the history only grows.
LEMMA RetireManualCommitKeepsSerial ==
  ASSUME CoreInv, SerialInv, NEW s \in Sessions, RetireManualCommit(s)
  PROVE  SerialInv'
<1> DEFINE self == session[s]
           new == Blanked(self)
<1>1. /\ Step(s) /\ self.at = "blanking"
      /\ session'[s].at = "recording" /\ session'[s].req = self.req
  BY RetireManualCommitStep
<1>2. /\ history' = Archived(self, "retire") /\ row' = Merge(self.loaded, new)
      /\ status' = status /\ overlapped' = overlapped
  BY DEF RetireManualCommit, Commits
<1>3. self \in SessionType /\ self.req \in Requests /\ row \in Rows /\ history \in Seq(Entries)
  BY <1>1 DEF CoreInv, TypeInv, SessionInv, PatchPhases
<1>4. self.loaded \in Rows
  BY <1>3 DEF SessionType
<1>5. new \in Rows /\ new.matched = None
  <2>1. self.id \in 0..MaxOps
    BY <1>3 DEF SessionType
  <2>2. new = [self.loaded EXCEPT !.title = None, !.matched = None, !.started = self.id]
    BY DEF Blanked
  <2> HIDE DEF self
  <2>3. QED
    BY <1>4, <2>1, <2>2 DEF Rows
<1>6. row'.matched \in {row.matched, None}
  <2> HIDE DEF new
  <2>1. QED
    BY <1>2, <1>3, <1>4, <1>5, MergeType
<1>7. RowLives'
  <2>1. None \notin Requests
    BY NowPlayingAssumption
  <2>2. QED
    BY <1>2, <1>6, <2>1, RowLivesKept DEF SerialInv
<1>8. \A r \in Requests : InHistory(r) => InHistory(r)'
  <2>1. self.order \in Nat \ {0}
    BY <1>1, OrderPositive DEF Archiving
  <2> HIDE DEF self
  <2>2. QED
    BY <1>2, <1>3, <2>1, ArchivedRecords
<1>9. ASSUME ~overlapped'
      PROVE  SerialPhase(session[s])'
  <2>1. SerialPhase(self)
    BY <1>1, <1>2, <1>9, Alone
  <2>2. /\ Playing = {} /\ status[self.req] # "deleted"
        /\ \A r \in Requests \ {self.req} : status[r] = "played" => InHistory(r)
    BY <1>1, <2>1 DEF SerialPhase, PatchPhases
  <2>3. /\ Playing' = {}
        /\ \A r \in Requests \ {self.req} : status'[r] = "played" => InHistory(r)'
    BY <1>2, <1>8, <2>2 DEF Playing
  <2>4. QED
    BY <1>1, <1>2, <2>2, <2>3 DEF SerialPhase
<1>10. QED
  BY <1>1, <1>2, <1>7, <1>9, SerialFrom

\* Looking for the play in the history
LEMMA ManualPlayLoadKeepsSerial ==
  ASSUME CoreInv, SerialInv, NEW s \in Sessions, ManualPlayLoad(s)
  PROVE  SerialInv'
<1> DEFINE self == session[s]
<1>1. /\ Step(s) /\ self.at = "recording"
      /\ \/ session'[s] = Idle /\ Recorded(self.req)
         \/ session'[s].at = "adding" /\ session'[s].req = self.req
  BY ManualPlayLoadStep
<1>2. UNCHANGED <<status, row, history>> /\ overlapped' = overlapped
  BY DEF ManualPlayLoad
<1>3. ASSUME ~overlapped'
      PROVE  /\ SerialPhase(session[s])'
             /\ session'[s].at = "idle" => ShownPlaying' /\ PlayedInHistory'
  <2>1. SerialPhase(self)
    BY <1>1, <1>2, <1>3, Alone
  <2>2. /\ Playing = {} /\ status[self.req] # "deleted"
        /\ \A r \in Requests \ {self.req} : status[r] = "played" => InHistory(r)
    BY <1>1, <2>1 DEF SerialPhase, PatchPhases
  <2>3. /\ Playing' = {}
        /\ \A r \in Requests \ {self.req} : status'[r] = "played" => InHistory(r)'
        /\ \A r : InHistory(r)' = InHistory(r)
    BY <1>2, <2>2, ReadingKeeps
  <2>4. CASE session'[s] = Idle /\ Recorded(self.req)
    <3>1. \A r \in Requests : r = self.req => InHistory(r)'
      <4>1. InHistory(self.req)
        BY <2>4 DEF Recorded, InHistory
      <4>2. QED
        BY <2>3, <4>1
    <3>2. ShownPlaying' /\ PlayedInHistory'
      BY <2>3, <3>1 DEF ShownPlaying, PlayedInHistory
    <3>3. SerialPhase(session[s])'
      BY <2>4, IdleType DEF SerialPhase, PatchPhases
    <3>4. QED
      BY <3>2, <3>3
  <2>5. CASE session'[s].at = "adding" /\ session'[s].req = self.req
    BY <1>2, <2>2, <2>3, <2>5 DEF SerialPhase
  <2>6. QED
    BY <1>1, <2>4, <2>5
<1>4. RowLives'
  BY <1>2, ReadingKeeps DEF SerialInv
<1>5. QED
  BY <1>1, <1>2, <1>3, <1>4, SerialFrom

\* Recording the play puts the last request that is PLAYED in the history.
LEMMA ManualPlayCommitKeepsSerial ==
  ASSUME CoreInv, SerialInv, NEW s \in Sessions, ManualPlayCommit(s)
  PROVE  SerialInv'
<1> DEFINE self == session[s]
<1>1. /\ Step(s) /\ self.at = "adding" /\ session'[s] = Idle
      /\ \E e \in Entries : history' = Append(history, e) /\ e.matched = self.req
  BY ManualPlayCommitStep
<1>2. UNCHANGED <<status, row>> /\ overlapped' = overlapped
  BY DEF ManualPlayCommit
<1>3. \A r \in Requests : InHistory(r) \/ r = self.req => InHistory(r)'
  <2>1. PICK e \in Entries : history' = Append(history, e) /\ e.matched = self.req
    BY <1>1
  <2>2. history \in Seq(Entries)
    BY DEF CoreInv, TypeInv
  <2> DEFINE n == Len(history) + 1
  <2>3. /\ DOMAIN history' = DOMAIN history \cup {n}
        /\ \A i \in DOMAIN history : history'[i] = history[i]
        /\ history'[n] = e
    BY <2>1, <2>2, Appending
  <2> HIDE DEF n
  <2>4. QED
    BY <2>1, <2>3 DEF InHistory
<1>4. ASSUME ~overlapped'
      PROVE  ShownPlaying' /\ PlayedInHistory'
  <2>1. SerialPhase(self)
    BY <1>1, <1>2, <1>4, Alone
  <2>2. Playing = {} /\ \A r \in Requests \ {self.req} : status[r] = "played" => InHistory(r)
    BY <1>1, <2>1 DEF SerialPhase
  <2>3. Playing' = {}
    BY <1>2, <2>2 DEF Playing
  <2>4. QED
    BY <1>2, <1>3, <2>2, <2>3 DEF ShownPlaying, PlayedInHistory
<1>5. SerialPhase(session[s])'
  BY <1>1, IdleType DEF SerialPhase, PatchPhases
<1>6. RowLives'
  BY <1>2 DEF SerialInv, RowLives
<1>7. QED
  BY <1>1, <1>2, <1>4, <1>5, <1>6, SerialFrom

\* A bulk operation puts nothing in PLAYING or PLAYED.
LEMMA BulkCommitKeepsSerial ==
  ASSUME CoreInv, SerialInv, NEW s \in Sessions, BulkCommit(s)
  PROVE  SerialInv'
<1> DEFINE self == session[s]
<1>1. /\ Step(s) /\ self.at = "bulk" /\ session'[s] = Idle /\ self.to \in {"accepted", "rejected"}
  BY BulkCommitStep
<1>2. /\ status' = [r \in Requests |-> IF r \in self.read THEN self.to ELSE status[r]]
      /\ UNCHANGED <<row, history>> /\ overlapped' = overlapped
  BY DEF BulkCommit
<1>3. \A r \in Requests : status'[r] = IF r \in self.read THEN self.to ELSE status[r]
  BY <1>2
<1>4. self.to \notin {"playing", "played", "deleted"}
  BY <1>1
<1> HIDE DEF self
<1>5. RowLives'
  <2>1. \A r \in Requests : status[r] # "deleted" => status'[r] # "deleted"
    BY <1>3, <1>4
  <2>2. QED
    BY <1>2, <2>1, RowLivesKept DEF SerialInv
<1>6. ASSUME ~overlapped'
      PROVE  ShownPlaying' /\ PlayedInHistory'
  <2>1. SerialPhase(self)
    BY <1>1, <1>2, <1>6, Alone DEF self
  <2>2. ShownPlaying /\ PlayedInHistory
    BY <1>1, <2>1 DEF SerialPhase
  <2>3. \A r \in Requests : InHistory(r)' = InHistory(r) /\ Shown(r)' = Shown(r)
    BY <1>2 DEF InHistory, Shown
  <2>4. Playing' \subseteq Playing
    BY <1>3, <1>4 DEF Playing
  <2>5. ShownPlaying'
    BY <2>2, <2>3, <2>4 DEF ShownPlaying, Playing
  <2>6. PlayedInHistory'
    BY <1>3, <1>4, <2>2, <2>3 DEF PlayedInHistory
  <2>7. QED
    BY <2>5, <2>6
<1>7. SerialPhase(session[s])'
  BY <1>1, IdleType DEF SerialPhase, PatchPhases
<1>8. QED
  BY <1>1, <1>2, <1>5, <1>6, <1>7, SerialFrom DEF self

\* A worker alone fails only where it has not changed a status yet: what it touches
\* afterwards exists, and nobody else inserts the row.
LEMMA RollbackKeepsSerial ==
  ASSUME CoreInv, SerialInv, NEW s \in Sessions, Rollback(s)
  PROVE  SerialInv'
<1> DEFINE self == session[s]
<1>1. Step(s) /\ self.at # "idle" /\ session'[s] = Idle /\ self.at # "clearing"
  BY RollbackStep
<1>2. /\ \/ ~Exists(Touched(self))
         \/ /\ self.at \in {"upserting", "upserting_manual"}
            /\ self.loaded.exists # row.exists
      /\ UNCHANGED <<status, row, history>> /\ overlapped' = overlapped
  BY DEF Rollback
<1>3. self \in SessionType /\ (self.at \in PatchPhases => self.req \in Requests) /\ row \in Rows
  BY DEF CoreInv, TypeInv, SessionInv
<1> HIDE DEF self
<1>4. ASSUME ~overlapped'
      PROVE  ShownPlaying' /\ PlayedInHistory'
  <2>1. SerialPhase(self)
    BY <1>1, <1>2, <1>4, Alone DEF self
  <2>2. CASE self.at \in {"posting", "upserting", "patching", "bulk"}
    <3>1. ShownPlaying /\ PlayedInHistory
      BY <2>1, <2>2 DEF SerialPhase
    <3>2. QED
      BY <1>2, <3>1, ReadingKeeps
  <2>3. CASE self.at \in PatchPhases \ {"patching"}
    <3>1. status[self.req] # "deleted"
      BY <2>1, <2>3 DEF SerialPhase
    <3>2. self.at \in {"upserting_manual", "blanking"} => self.loaded = row
      BY <2>1 DEF SerialPhase
    <3>3. self.at \in {"upserting_manual", "blanking"} => Exists({self.req} \cup Refs(self))
      <4>1. row.matched \in Requests \cup {None}
        BY <1>3 DEF Rows
      <4>2. row.matched # None => status[row.matched] # "deleted"
        BY <4>1 DEF SerialInv, RowLives
      <4>3. QED
        BY <3>1, <3>2, <4>2 DEF Exists, Refs
    <3>4. self.at = "retiring_others" => Exists(self.read)
      <4>1. self.at = "retiring_others" => self.read \subseteq Playing
        BY <2>1 DEF SerialPhase
      <4>2. QED
        BY <4>1 DEF Exists, Playing
    <3>5. self.at \in {"showing", "recording", "adding"} => Exists({self.req})
      BY <3>1 DEF Exists
    <3>6. Exists({})
      BY DEF Exists
    <3>7. Exists(Touched(self))
      <4>1. CASE self.at \in {"upserting_manual", "blanking"}
        BY <3>3, <4>1 DEF Touched
      <4>2. CASE self.at = "retiring_others"
        BY <3>4, <4>2 DEF Touched
      <4>3. CASE self.at \in {"showing", "recording", "adding"}
        BY <3>5, <4>3 DEF Touched
      <4>4. CASE self.at \in {"scanning", "retiring"}
        BY <3>6, <4>4 DEF Touched
      <4>5. QED
        BY <2>3, <4>1, <4>2, <4>3, <4>4 DEF PatchPhases
    <3>8. QED
      BY <1>2, <2>3, <3>2, <3>7 DEF PatchPhases
  <2>4. self.at \in Phases
    BY <1>3 DEF SessionType
  <2>5. QED
    BY <1>1, <2>2, <2>3, <2>4 DEF Phases
<1>5. RowLives'
  BY <1>2, ReadingKeeps DEF SerialInv
<1>6. SerialPhase(session[s])'
  BY <1>1, IdleType DEF SerialPhase, PatchPhases
<1>7. QED
  BY <1>1, <1>2, <1>4, <1>5, <1>6, SerialFrom DEF self

\* Of two workers in a deadlock neither is alone.
LEMMA DeadlockKeepsSerial ==
  ASSUME CoreInv, SerialInv, NEW s \in Sessions, NEW t \in Sessions, DeadlockVictim(s, t)
  PROVE  SerialInv'
<1>1. /\ session[s].at = "upserting" /\ session[t].at = "clearing" /\ UNCHANGED <<status, row, history>>
      /\ overlapped' = overlapped
  BY DEF DeadlockVictim
<1>2. overlapped
  BY <1>1 DEF SerialInv
<1>3. RowLives'
  BY <1>1, ReadingKeeps DEF SerialInv
<1>4. QED
  BY <1>1, <1>2, <1>3 DEF SerialInv

\* The placeholder row comes when nothing has been shown.
LEMMA PlaceholderKeepsSerial ==
  ASSUME CoreInv, SerialInv, UpdateBridgeStatus
  PROVE  SerialInv'
<1>1. /\ row'.title = None /\ row'.matched = None
      /\ ~row.exists /\ overlapped' = (overlapped \/ ~Quiescent)
      /\ UNCHANGED <<status, history, session>>
  BY PlaceholderKeeps
<1>2. None \notin Requests
  BY NowPlayingAssumption
<1>3. RowLives'
  BY <1>1, <1>2 DEF RowLives
<1>4. ASSUME ~overlapped'
      PROVE  /\ \A s \in Sessions : session'[s].at = "idle"
             /\ ShownPlaying' /\ PlayedInHistory'
  <2>1. Quiescent /\ ~overlapped
    BY <1>1, <1>4
  <2>2. ShownPlaying /\ PlayedInHistory
    BY <2>1 DEF SerialInv
  <2>3. Playing = {}
    <3>1. row.title = None
      BY <1>1 DEF CoreInv, ClearInv
    <3>2. QED
      BY <1>2, <2>2, <3>1 DEF ShownPlaying, Shown, Playing
  <2>4. ShownPlaying' /\ PlayedInHistory'
    BY <1>1, <2>2, <2>3 DEF ShownPlaying, PlayedInHistory, Playing, InHistory
  <2>5. QED
    BY <1>1, <2>1, <2>4 DEF Quiescent
<1>5. ~overlapped' => \A s \in Sessions : SerialPhase(session[s])'
  BY <1>4 DEF SerialPhase, PatchPhases
<1>6. QED
  BY <1>3, <1>4, <1>5 DEF SerialInv

\* A deletion between requests takes the deleted plays' links and nothing else.
LEMMA DeletionKeepsSerial ==
  ASSUME CoreInv, SerialInv, NEW S \in SUBSET Requests, DeleteRequests(S)
  PROVE  SerialInv'
<1>1. /\ overlapped' = (overlapped \/ ~Quiescent) /\ session' = session
      /\ \A r \in Requests : status'[r] = IF r \in S THEN "deleted" ELSE status[r]
      /\ row'.title = row.title
      /\ row'.matched = IF row.matched \in S THEN None ELSE row.matched
      /\ DOMAIN history' = DOMAIN history
      /\ \A i \in DOMAIN history :
           history'[i].matched = IF history[i].matched \in S THEN None ELSE history[i].matched
  BY DeletionKeeps
<1>2. None \notin Requests
  BY NowPlayingAssumption
<1>3. RowLives'
  BY <1>1, <1>2 DEF RowLives, SerialInv
<1>4. \A r \in Requests \ S : InHistory(r) => InHistory(r)'
  BY <1>1 DEF InHistory
<1>5. ASSUME ~overlapped'
      PROVE  /\ \A s \in Sessions : session'[s].at = "idle"
             /\ ShownPlaying' /\ PlayedInHistory'
  <2>1. Quiescent /\ ~overlapped
    BY <1>1, <1>5
  <2>2. ShownPlaying /\ PlayedInHistory
    BY <2>1 DEF SerialInv
  <2>3. \A r \in Playing' : r \in Playing /\ r \notin S
    BY <1>1 DEF Playing
  <2>4. ShownPlaying'
    BY <1>1, <2>2, <2>3 DEF ShownPlaying, Shown
  <2>5. PlayedInHistory'
    BY <1>1, <1>4, <2>2 DEF PlayedInHistory
  <2>6. QED
    BY <1>1, <2>1, <2>4, <2>5 DEF Quiescent
<1>6. ~overlapped' => \A s \in Sessions : SerialPhase(session[s])'
  BY <1>5 DEF SerialPhase, PatchPhases
<1>7. QED
  BY <1>3, <1>5, <1>6 DEF SerialInv

---------------------------------------------------------------------------
(* The invariant *)

\* NowPlayingInv holds in the initial state.
LEMMA InitHolds == NowPlayingInit => NowPlayingInv
<1> SUFFICES ASSUME NowPlayingInit PROVE NowPlayingInv
  OBVIOUS
<1>1. /\ status = [r \in Requests |-> "new"] /\ row = NoRow /\ history = <<>> /\ lock = None
      /\ session = [s \in Sessions |-> Idle] /\ begun = 0 /\ byDj = {} /\ overlapped = FALSE
  BY DEF NowPlayingInit
<1>2. MaxOps \in Nat /\ None \notin Sessions /\ None \notin Requests
  BY NowPlayingAssumption
<1>3. \A s \in Sessions : session[s] = Idle
  BY <1>1
<1>4. history \in Seq(Entries) /\ DOMAIN history = {}
  <2>1. <<>> \in Seq(Entries) /\ DOMAIN <<>> = {}
    OBVIOUS
  <2>2. QED
    BY <1>1, <2>1
<1>5. TypeInv
  <2>1. status \in [Requests -> Statuses \cup {"deleted"}]
    BY <1>1 DEF Statuses
  <2>2. session \in [Sessions -> SessionType] /\ SessionInv
    BY <1>1, <1>3, IdleType DEF SessionInv, PatchPhases
  <2>3. row \in Rows /\ begun \in 0..MaxOps
    BY <1>1, <1>2, IdleType
  <2>4. history \in Seq(Entries)
    BY <1>4
  <2>5. lock \in Sessions \cup {None} /\ byDj \subseteq Requests /\ overlapped \in BOOLEAN
    BY <1>1
  <2>6. QED
    BY <2>1, <2>2, <2>3, <2>4, <2>5 DEF TypeInv
<1>6. OrdersInv
  <2>1. Orders = {} /\ 1..0 = {} /\ 0 \in Nat
    BY <1>4 DEF Orders
  <2>2. \A s \in Sessions : session[s].at \notin Archiving
    BY <1>3, IdleType DEF Archiving
  <2>3. OrdersUpTo(0)
    BY <2>1, <2>2 DEF OrdersUpTo
  <2>4. QED
    BY <2>1, <2>3 DEF OrdersInv
<1>7. ClearInv
  BY <1>1, <1>2, <1>3, IdleType DEF ClearInv
<1>8. FreshInv
  BY <1>1, <1>3, <1>4, IdleType DEF FreshInv, Cleared, ClearsArchiveOnce, Unwritten, PatchPhases
<1>9. DjInv
  BY <1>1 DEF DjInv
<1>10. SerialInv
  <2>1. RowLives
    BY <1>1, <1>2, IdleType DEF RowLives
  <2>2. ShownPlaying /\ PlayedInHistory
    BY <1>1 DEF ShownPlaying, PlayedInHistory, Playing
  <2>3. \A s \in Sessions : SerialPhase(session[s])
    BY <1>3, IdleType DEF SerialPhase, PatchPhases
  <2>4. QED
    BY <1>3, <2>1, <2>2, <2>3, IdleType DEF SerialInv
<1>11. QED
  BY <1>5, <1>6, <1>7, <1>8, <1>9, <1>10 DEF NowPlayingInv

\* A step of the bridge's requests keeps it.
LEMMA BridgeKeeps ==
  ASSUME NowPlayingInv, NEW s \in Sessions, Bridge(s)
  PROVE  NowPlayingInv'
<1>1. CoreInv /\ TypeInv /\ DjInv /\ SerialInv
  BY DEF NowPlayingInv, CoreInv
<1>2. SUFFICES CoreInv' /\ DjInv' /\ SerialInv'
  BY DEF NowPlayingInv, CoreInv
<1>3. ASSUME NEW track \in Tracks, NowPlayingMatch(s, track)
      PROVE  CoreInv' /\ DjInv' /\ SerialInv'
  <2>1. TypeInv' /\ Step(s) /\ session[s].at = "idle"
    BY <1>1, <1>3, MatchStep
  <2>2. UNCHANGED <<status, byDj>>
    BY <1>3 DEF NowPlayingMatch
  <2>3. DjInv'
    BY <1>1, <2>1, <2>2, DjKept DEF Step, Playing
  <2>4. QED
    BY <1>1, <1>3, <2>1, <2>3, StepKeepsCore, MatchKeepsSerial
<1>4. ASSUME NowPlayingLoad(s)
      PROVE  CoreInv' /\ DjInv' /\ SerialInv'
  <2>1. TypeInv' /\ Step(s) /\ session[s].at = "posting"
    BY <1>1, <1>4, NowPlayingLoadStep
  <2>2. UNCHANGED <<status, byDj>>
    BY <1>4 DEF NowPlayingLoad
  <2>3. DjInv'
    BY <1>1, <2>1, <2>2, DjKept DEF Step, Playing
  <2>4. QED
    BY <1>1, <1>4, <2>1, <2>3, StepKeepsCore, NowPlayingLoadKeepsSerial
<1>5. ASSUME NowPlayingCommit(s)
      PROVE  CoreInv' /\ DjInv' /\ SerialInv'
  <2>1. TypeInv' /\ Step(s) /\ session[s].at = "upserting"
    BY <1>1, <1>5, NowPlayingCommitStep
  <2>2. (byDj \cap Playing)' \subseteq byDj \cap Playing
    BY <1>5 DEF NowPlayingCommit, Playing
  <2>3. DjInv'
    BY <1>1, <2>1, <2>2, DjKept DEF Step
  <2>4. QED
    BY <1>1, <1>5, <2>1, <2>3, StepKeepsCore, NowPlayingCommitKeepsSerial
<1>6. ASSUME ClearLoad(s)
      PROVE  CoreInv' /\ DjInv' /\ SerialInv'
  <2>1. TypeInv' /\ Step(s) /\ session[s].at = "idle"
    BY <1>1, <1>6, ClearLoadStep
  <2>2. UNCHANGED <<status, byDj>>
    BY <1>6 DEF ClearLoad
  <2>3. DjInv'
    BY <1>1, <2>1, <2>2, DjKept DEF Step, Playing
  <2>4. QED
    BY <1>1, <1>6, <2>1, <2>3, StepKeepsCore, ClearLoadKeepsSerial
<1>7. ASSUME ClearCommit(s)
      PROVE  CoreInv' /\ DjInv' /\ SerialInv'
  <2>1. TypeInv' /\ Step(s) /\ session[s].at = "clearing"
    BY <1>1, <1>7, ClearCommitStep
  <2>2. (byDj \cap Playing)' \subseteq byDj \cap Playing
    BY <1>7 DEF ClearCommit, Playing
  <2>3. DjInv'
    BY <1>1, <2>1, <2>2, DjKept DEF Step
  <2>4. QED
    BY <1>1, <1>7, <2>1, <2>3, StepKeepsCore, ClearCommitKeepsSerial
<1>8. QED
  BY <1>3, <1>4, <1>5, <1>6, <1>7 DEF Bridge

\* So does a step of the dashboard's requests, or a rollback.
LEMMA DashboardKeeps ==
  ASSUME NowPlayingInv, NEW s \in Sessions, Dashboard(s) \/ Rollback(s)
  PROVE  NowPlayingInv'
<1>1. CoreInv /\ TypeInv /\ DjInv /\ SerialInv
  BY DEF NowPlayingInv, CoreInv
<1>2. SUFFICES CoreInv' /\ DjInv' /\ SerialInv'
  BY DEF NowPlayingInv, CoreInv
<1>3. ASSUME NEW r \in Requests, NEW to \in Statuses, PatchLoad(s, r, to)
      PROVE  CoreInv' /\ DjInv' /\ SerialInv'
  <2>1. TypeInv' /\ Step(s) /\ session[s].at = "idle"
    BY <1>1, <1>3, PatchLoadStep
  <2>2. UNCHANGED <<status, byDj>>
    BY <1>3 DEF PatchLoad
  <2>3. DjInv'
    BY <1>1, <2>1, <2>2, DjKept DEF Step, Playing
  <2>4. QED
    BY <1>1, <1>3, <2>1, <2>3, StepKeepsCore, PatchLoadKeepsSerial
<1>4. ASSUME NEW to \in {"accepted", "rejected"}, BulkLoad(s, to)
      PROVE  CoreInv' /\ DjInv' /\ SerialInv'
  <2>1. TypeInv' /\ Step(s) /\ session[s].at = "idle"
    BY <1>1, <1>4, BulkLoadStep
  <2>2. UNCHANGED <<status, byDj>>
    BY <1>4 DEF BulkLoad
  <2>3. DjInv'
    BY <1>1, <2>1, <2>2, DjKept DEF Step, Playing
  <2>4. QED
    BY <1>1, <1>4, <2>1, <2>3, StepKeepsCore, BulkLoadKeepsSerial
<1>5. ASSUME UpdateRequestStatus(s)
      PROVE  CoreInv' /\ DjInv' /\ SerialInv'
  <2>1. TypeInv' /\ Step(s)
    BY <1>1, <1>5, UpdateStep
  <2>2. QED
    BY <1>1, <1>5, <2>1, StepKeepsCore, UpdateKeepsDj, UpdateKeepsSerial
<1>6. ASSUME OtherPlayingLoad(s)
      PROVE  CoreInv' /\ DjInv' /\ SerialInv'
  <2>1. TypeInv' /\ Step(s)
    BY <1>1, <1>6, OtherPlayingLoadStep
  <2>2. QED
    BY <1>1, <1>6, <2>1, StepKeepsCore, ScanKeepsDj, ScanKeepsSerial
<1>7. ASSUME OtherPlayingCommit(s)
      PROVE  CoreInv' /\ DjInv' /\ SerialInv'
  <2>1. TypeInv' /\ Step(s)
    BY <1>1, <1>7, OtherPlayingCommitStep
  <2>2. QED
    BY <1>1, <1>7, <2>1, StepKeepsCore, RetireKeepsDj, RetireKeepsSerial
<1>8. ASSUME ManualNowPlayingLoad(s)
      PROVE  CoreInv' /\ DjInv' /\ SerialInv'
  <2>1. TypeInv' /\ Step(s) /\ session[s].at = "showing"
    BY <1>1, <1>8, ManualNowPlayingLoadStep
  <2>2. UNCHANGED <<status, byDj>>
    BY <1>8 DEF ManualNowPlayingLoad
  <2>3. DjInv'
    BY <1>1, <2>1, <2>2, DjKept DEF Step, Playing
  <2>4. QED
    BY <1>1, <1>8, <2>1, <2>3, StepKeepsCore, ManualLoadKeepsSerial
<1>9. ASSUME ManualNowPlayingCommit(s)
      PROVE  CoreInv' /\ DjInv' /\ SerialInv'
  <2>1. TypeInv' /\ Step(s) /\ session[s].at = "upserting_manual"
    BY <1>1, <1>9, ManualNowPlayingCommitStep
  <2>2. UNCHANGED <<status, byDj>>
    BY <1>9 DEF ManualNowPlayingCommit
  <2>3. DjInv'
    BY <1>1, <2>1, <2>2, DjKept DEF Step, Playing
  <2>4. QED
    BY <1>1, <1>9, <2>1, <2>3, StepKeepsCore, ManualCommitKeepsSerial
<1>10. ASSUME RetireManualLoad(s)
      PROVE  CoreInv' /\ DjInv' /\ SerialInv'
  <2>1. TypeInv' /\ Step(s) /\ session[s].at = "retiring"
    BY <1>1, <1>10, RetireManualLoadStep
  <2>2. UNCHANGED <<status, byDj>>
    BY <1>10 DEF RetireManualLoad
  <2>3. DjInv'
    BY <1>1, <2>1, <2>2, DjKept DEF Step, Playing
  <2>4. QED
    BY <1>1, <1>10, <2>1, <2>3, StepKeepsCore, RetireManualLoadKeepsSerial
<1>11. ASSUME RetireManualCommit(s)
      PROVE  CoreInv' /\ DjInv' /\ SerialInv'
  <2>1. TypeInv' /\ Step(s) /\ session[s].at = "blanking"
    BY <1>1, <1>11, RetireManualCommitStep
  <2>2. UNCHANGED <<status, byDj>>
    BY <1>11 DEF RetireManualCommit
  <2>3. DjInv'
    BY <1>1, <2>1, <2>2, DjKept DEF Step, Playing
  <2>4. QED
    BY <1>1, <1>11, <2>1, <2>3, StepKeepsCore, RetireManualCommitKeepsSerial
<1>12. ASSUME ManualPlayLoad(s)
      PROVE  CoreInv' /\ DjInv' /\ SerialInv'
  <2>1. TypeInv' /\ Step(s) /\ session[s].at = "recording"
    BY <1>1, <1>12, ManualPlayLoadStep
  <2>2. UNCHANGED <<status, byDj>>
    BY <1>12 DEF ManualPlayLoad
  <2>3. DjInv'
    BY <1>1, <2>1, <2>2, DjKept DEF Step, Playing
  <2>4. QED
    BY <1>1, <1>12, <2>1, <2>3, StepKeepsCore, ManualPlayLoadKeepsSerial
<1>13. ASSUME ManualPlayCommit(s)
      PROVE  CoreInv' /\ DjInv' /\ SerialInv'
  <2>1. TypeInv' /\ Step(s) /\ session[s].at = "adding"
    BY <1>1, <1>13, ManualPlayCommitStep
  <2>2. UNCHANGED <<status, byDj>>
    BY <1>13 DEF ManualPlayCommit
  <2>3. DjInv'
    BY <1>1, <2>1, <2>2, DjKept DEF Step, Playing
  <2>4. QED
    BY <1>1, <1>13, <2>1, <2>3, StepKeepsCore, ManualPlayCommitKeepsSerial
<1>14. ASSUME BulkCommit(s)
      PROVE  CoreInv' /\ DjInv' /\ SerialInv'
  <2>1. TypeInv' /\ Step(s) /\ session[s].at = "bulk" /\ session[s].to \in {"accepted", "rejected"}
    BY <1>1, <1>14, BulkCommitStep
  <2>2. (byDj \cap Playing)' \subseteq byDj \cap Playing
    BY <1>14, <2>1 DEF BulkCommit, Playing
  <2>3. DjInv'
    BY <1>1, <2>1, <2>2, DjKept DEF Step
  <2>4. QED
    BY <1>1, <1>14, <2>1, <2>3, StepKeepsCore, BulkCommitKeepsSerial
<1>15. ASSUME Rollback(s)
      PROVE  CoreInv' /\ DjInv' /\ SerialInv'
  <2>1. TypeInv' /\ Step(s)
    BY <1>1, <1>15, RollbackStep
  <2>2. QED
    BY <1>1, <1>15, <2>1, StepKeepsCore, RollbackKeepsDj, RollbackKeepsSerial
<1>16. QED
  BY <1>3, <1>4, <1>5, <1>6, <1>7, <1>8, <1>9, <1>10, <1>11, <1>12, <1>13, <1>14, <1>15 DEF Dashboard

\* So does the end of a deadlock.
LEMMA DeadlockKeeps ==
  ASSUME NowPlayingInv, NEW s \in Sessions, NEW t \in Sessions, DeadlockVictim(s, t)
  PROVE  NowPlayingInv'
<1>1. CoreInv /\ TypeInv /\ DjInv /\ SerialInv
  BY DEF NowPlayingInv, CoreInv
<1>2. /\ TypeInv'
      /\ \/ Step(s) /\ session[s].at = "upserting" /\ session'[s] = Idle
         \/ Step(t) /\ session[t].at = "clearing" /\ session'[t] = Idle
  BY <1>1, DeadlockStep
<1>3. (byDj \cap Playing)' \subseteq byDj \cap Playing
  BY DEF DeadlockVictim, Playing
<1>4. DjInv'
  BY <1>1, <1>2, <1>3, DjKept DEF Step
<1>5. CoreInv'
  BY <1>1, <1>2, StepKeepsCore
<1>6. SerialInv'
  BY <1>1, DeadlockKeepsSerial
<1>7. QED
  BY <1>4, <1>5, <1>6 DEF NowPlayingInv, CoreInv

\* So do the placeholder row and every deletion.
LEMMA PlaceholderHolds ==
  ASSUME NowPlayingInv, UpdateBridgeStatus
  PROVE  NowPlayingInv'
<1>1. CoreInv /\ DjInv /\ SerialInv
  BY DEF NowPlayingInv, CoreInv
<1>2. CoreInv' /\ UNCHANGED <<status, session, byDj>>
  BY <1>1, PlaceholderKeeps
<1>3. DjInv'
  BY <1>1, <1>2 DEF DjInv, Playing, Retires
<1>4. QED
  BY <1>1, <1>2, <1>3, PlaceholderKeepsSerial DEF NowPlayingInv, CoreInv

\* A deletion keeps it as well.
LEMMA DeletionHolds ==
  ASSUME NowPlayingInv, NEW S \in SUBSET Requests, DeleteRequests(S)
  PROVE  NowPlayingInv'
<1>1. CoreInv /\ DjInv /\ SerialInv
  BY DEF NowPlayingInv, CoreInv
<1>2. /\ CoreInv' /\ UNCHANGED <<session, byDj>>
      /\ \A r \in Requests : status'[r] = IF r \in S THEN "deleted" ELSE status[r]
  BY <1>1, DeletionKeeps
<1>3. Playing' \subseteq Playing
  BY <1>2 DEF Playing
<1>4. DjInv'
  BY <1>1, <1>2, <1>3 DEF DjInv, Retires
<1>5. QED
  BY <1>1, <1>2, <1>4, DeletionKeepsSerial DEF NowPlayingInv, CoreInv

\* Nothing changes in a stuttering step.
LEMMA StutterKeeps == NowPlayingInv /\ UNCHANGED vars => NowPlayingInv'
<1> SUFFICES ASSUME NowPlayingInv, UNCHANGED vars PROVE NowPlayingInv'
  OBVIOUS
<1>1. UNCHANGED <<status, row, history, lock, session, begun, byDj, overlapped>>
  BY DEF vars
<1>2. TypeInv' /\ OrdersInv' /\ ClearInv' /\ FreshInv'
  BY <1>1 DEF NowPlayingInv, TypeInv, SessionInv, OrdersInv, OrdersUpTo, Orders, ClearInv, FreshInv, Cleared, ClearsArchiveOnce
<1>3. DjInv'
  BY <1>1 DEF NowPlayingInv, DjInv, Playing, Retires
<1>4. SerialInv'
  <2>1. SerialInv
    BY DEF NowPlayingInv
  <2>2. /\ Playing' = Playing /\ ShownPlaying' = ShownPlaying /\ PlayedInHistory' = PlayedInHistory
        /\ RowLives' = RowLives
        /\ \A r : InHistory(r)' = InHistory(r) /\ Shown(r)' = Shown(r)
    BY <1>1, ReadingKeeps
  <2>3. \A s \in Sessions : SerialPhase(session[s]) => SerialPhase(session[s])'
    BY <1>1, <2>2 DEF SerialPhase
  <2>4. QED
    BY <1>1, <2>1, <2>2, <2>3 DEF SerialInv, Quiescent
<1>5. QED
  BY <1>2, <1>3, <1>4 DEF NowPlayingInv

\* NowPlayingInv is inductive.
LEMMA NextKeeps == NowPlayingInv /\ [NowPlayingNext]_vars => NowPlayingInv'
<1> SUFFICES ASSUME NowPlayingInv, [NowPlayingNext]_vars PROVE NowPlayingInv'
  OBVIOUS
<1>1. CASE UNCHANGED vars
  BY <1>1, StutterKeeps
<1>2. ASSUME NEW s \in Sessions, Bridge(s) \/ Dashboard(s) \/ Rollback(s)
      PROVE  NowPlayingInv'
  BY <1>2, BridgeKeeps, DashboardKeeps
<1>3. ASSUME NEW s \in Sessions, NEW t \in Sessions, DeadlockVictim(s, t)
      PROVE  NowPlayingInv'
  BY <1>3, DeadlockKeeps
<1>4. CASE UpdateBridgeStatus
  BY <1>4, PlaceholderHolds
<1>5. ASSUME NEW S \in SUBSET Requests, DeleteRequests(S)
      PROVE  NowPlayingInv'
  BY <1>5, DeletionHolds
<1>6. \A r \in Requests : {r} \in SUBSET Requests
  OBVIOUS
<1>7. \A st \in Statuses : {r \in Requests : status[r] = st} \in SUBSET Requests
  OBVIOUS
<1>8. QED
  BY <1>1, <1>2, <1>3, <1>4, <1>5, <1>6, <1>7 DEF NowPlayingNext

---------------------------------------------------------------------------
(* Theorems *)

\* NowPlayingInv holds in every reachable state: however many workers serve posts,
\* clears, PATCHes, bulk operations and deletions, and however they interleave.
THEOREM NowPlayingInvariant == NowPlayingSpec => []NowPlayingInv
BY InitHolds, NextKeeps, PTL DEF NowPlayingSpec

\* Rows, statuses and history entries have the types of their columns.
THEOREM NowPlayingTypes == NowPlayingSpec => []NowPlayingTypeOK
<1>1. NowPlayingInv => NowPlayingTypeOK
  <2> SUFFICES ASSUME NowPlayingInv PROVE NowPlayingTypeOK
    OBVIOUS
  <2>1. \A i \in DOMAIN history : history[i] \in Entries
    BY DEF NowPlayingInv, TypeInv
  <2>2. \A i \in DOMAIN history : history[i].order \in Nat \ {0} /\ history[i].title \in Tracks
    BY <2>1 DEF Entries
  <2>3. QED
    BY <2>2 DEF NowPlayingInv, TypeInv, NowPlayingTypeOK
<1>2. QED
  BY <1>1, NowPlayingInvariant, PTL

\* Once every worker is done, at most one of the requests that DJs moved to PLAYING,
\* with PATCHes that did not fail, still is PLAYING.
THEOREM DjPlaysOne == NowPlayingSpec => []OneDjPlaying
<1>1. NowPlayingInv => OneDjPlaying
  <2> SUFFICES ASSUME NowPlayingInv, Quiescent PROVE Cardinality(byDj \cap Playing) <= 1
    BY DEF OneDjPlaying
  <2> DEFINE P == byDj \cap Playing
  <2>1. \A r, q \in P : r = q
    BY DEF NowPlayingInv, DjInv, Retires, Quiescent
  <2> HIDE DEF P
  <2>2. CASE P = {}
    BY <2>2, FS_EmptySet DEF P
  <2>3. CASE P # {}
    <3>1. PICK r : r \in P
      BY <2>3
    <3>2. P = {r}
      BY <2>1, <3>1
    <3>3. Cardinality(P) = 1
      BY <3>2, FS_Singleton
    <3>4. QED
      BY <3>3 DEF P
  <2>4. QED
    BY <2>2, <2>3
<1>2. QED
  BY <1>1, NowPlayingInvariant, PTL

\* The orders of the play history have no gap, whichever workers read them at once.
THEOREM PlayOrdersHaveNoGap == NowPlayingSpec => []PlayOrdersDense
<1>1. NowPlayingInv => PlayOrdersDense
  <2> SUFFICES ASSUME NowPlayingInv, NEW i \in DOMAIN history, NEW n \in 1..history[i].order
               PROVE  \E j \in DOMAIN history : history[j].order = n
    BY DEF PlayOrdersDense
  <2>1. PICK k \in Nat : Orders = 1..k
    BY DEF NowPlayingInv, OrdersInv, OrdersUpTo
  <2>2. history[i].order \in 1..k
    BY <2>1 DEF Orders
  <2>3. n \in 1..k
    BY <2>2
  <2>4. QED
    BY <2>1, <2>3 DEF Orders
<1>2. QED
  BY <1>1, NowPlayingInvariant, PTL

\* However often the bridge's DELETE is retried, and whatever it overlaps with, a play
\* is archived by it at most once.
THEOREM ClearsAreOnce == NowPlayingSpec => []ClearsArchiveOnce
<1>1. NowPlayingInv => ClearsArchiveOnce
  BY DEF NowPlayingInv, FreshInv
<1>2. QED
  BY <1>1, NowPlayingInvariant, PTL

\* While HTTP requests have not overlapped, what is PLAYING is what is shown and what
\* is PLAYED is in the history.
THEOREM SerialPlays == NowPlayingSpec => []SerialPlaysAreTracked
<1>1. NowPlayingInv => SerialPlaysAreTracked
  BY DEF NowPlayingInv, SerialInv, SerialPlaysAreTracked, ShownPlaying, PlayedInHistory, Shown, InHistory
<1>2. QED
  BY <1>1, NowPlayingInvariant, PTL
=============================================================================

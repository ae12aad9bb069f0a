-------------------------- MODULE SignalGuardProofs --------------------------
(* Proofs about the signal guard: that no lane buys both sides of a market,  *)
(* that no order is copied past its size, and that a restart knows of every  *)
(* share bought.  The invariants say how the disk, the table and what was    *)
(* bought keep in step: SideInv for the sides, CountInv for the shares.      *)
(* The next part is about Match: that a call is read as it will be settled.  *)
(* The last is about what the main loop buys by the guard (Copies): that a   *)
(* fill counts once, that a lane keeps to its share, and that the rate halt  *)
(* is just; its invariant is CInv.                                           *)
EXTENDS SignalGuard, Copies, Sums, SequenceTheorems

\* What the proofs take of the settings: the venue's answer comes within the TTL, and one
\* lane trades, or no write fails.
InTime == ReleaseWithin < TTL
Sound == MaxFaults = 0 \/ \A s, t \in Salts : LaneOf[s] = LaneOf[t]

\* Two orders of one lane on the two sides of one market.
Opposite(s, t) == LaneOf[s] = LaneOf[t] /\ CondOf[s] = CondOf[t] /\ TokenOf[s] # TokenOf[t]

\* The rows that a replay reads, in the file or in the log.
AllRows == file \cup wal
Shows(r) == r \in AllRows /\ Fresh(r.slot.t)

SlotType == [t : 0 .. now, his : 0 .. OrderSize, copied : 0 .. MaxCopied + 1,
             released : 0 .. MaxCopied + 1, token : {NoToken} \cup {TokenOf[s] : s \in Salts}]
RowType == [salt : Salts, lane : Lanes \cup {NoLane}, slot : SlotType]

TypeInv ==
  /\ now \in Times /\ up \in BOOLEAN /\ walTail \in {"clean", "torn", "cut"}
  /\ orders \in [Salts -> SlotType]
  /\ markets \subseteq [lane : Lanes \cup {NoLane}, cond : {CondOf[s] : s \in Salts},
                        t : 0 .. now, salt : Salts,
                        token : {NoToken} \cup {TokenOf[s] : s \in Salts}]
  /\ latched \subseteq Lanes
  /\ AllRows \subseteq RowType
  /\ sent \subseteq Salts \X (0 .. now)
  /\ bought \in [Salts -> [Times -> Nat]]
  /\ faults \in 0 .. MaxFaults

\* A row or slot has released no more than it has copied; its token is its order's, and
\* then its lane is too.
RowInv ==
  /\ \A r \in AllRows : /\ r.slot.released <= r.slot.copied
                        /\ r.lane \in {NoLane, LaneOf[r.salt]}
                        /\ r.slot.token \in {NoToken, TokenOf[r.salt]}
                        /\ r.slot.token # NoToken => r.lane = LaneOf[r.salt]
  /\ \A s \in Salts : /\ orders[s].released <= orders[s].copied
                      /\ orders[s].token \in {NoToken, TokenOf[s]}

\* What was bought and counts was sent, and the log takes rows unless every lane is halted.
SentInv ==
  /\ \A s \in Salts, t \in Times : bought[s][t] > 0 => t <= now /\ Fresh(t) /\ <<s, t>> \in sent
  /\ \A e \in sent : Fresh(e[2])
  /\ up /\ walTail # "clean" => Lanes \subseteq latched

\* An entry of the table keeps an order out of its market.
Blocks(m, s) ==
  /\ m.cond = CondOf[s] /\ m.lane \in {NoLane, LaneOf[s]}
  /\ m.salt # s /\ (m.token = NoToken \/ m.token # TokenOf[s])

\* The rows that have copied something.
Copies == {r \in AllRows : r.slot.copied > 0}

\* What was sent is on disk, and what is on disk of the other side is older; so are the
\* rows of the two sides of each other.
OnDisk == \A e \in sent : \E r \in Copies : r.salt = e[1] /\ r.slot.t >= e[2]
Older ==
  \A e \in sent, r \in Copies :
    Opposite(r.salt, e[1]) => r.slot.t < e[2] \/ ~Fresh(r.slot.t)
Apart == \A r, q \in Copies : Opposite(r.salt, q.salt) => r.slot.t # q.slot.t

\* What was sent keeps the other side out; so does a row of this second, unless it is one
\* of the log that no order went with, and then an incident does.
SentBars ==
  up => \A e \in sent, s \in Salts : Opposite(s, e[1]) =>
          \E m \in markets : m.t >= e[2] /\ Blocks(m, s)
RowBars ==
  up => \A r \in Copies, s \in Salts :
          /\ r.slot.t = now /\ Opposite(s, r.salt)
          /\ r \in file \/ LaneOf[s] \notin latched
          => \E m \in LiveMarkets : Blocks(m, s)

SideInv == OnDisk /\ Older /\ Apart /\ SentBars /\ RowBars /\ OneSidePerMarket

\* A replay finds a row as late as what was bought, which shows as many copies as any row
\* and as the table, and with every release there is, still more than was bought.
DiskKnows ==
  \A s \in Salts, t \in Times : bought[s][t] > 0 =>
    \E r \in AllRows :
      /\ r.salt = s /\ r.slot.t >= t
      /\ up => orders[s].copied <= r.slot.copied
      /\ \A q \in AllRows : q.salt = s /\ Fresh(q.slot.t) =>
           q.slot.copied <= r.slot.copied /\ BoughtOf(s) + q.slot.released <= r.slot.copied

\* A slot knows of what was bought, and of every row but one of the log that no order went
\* with.
KnownBy(slot, s) ==
  /\ BoughtOf(s) + slot.released <= slot.copied
  /\ \A t \in Times : bought[s][t] > 0 => t <= slot.t
  /\ \A r \in AllRows : r.salt = s /\ Fresh(r.slot.t) =>
       /\ r.slot.t <= slot.t /\ r.slot.released <= slot.released
       /\ r \in file \/ LaneOf[s] \notin latched => r.slot.copied <= slot.copied
TableKnows == up => \A s \in Salts : KnownBy(orders[s], s)

CountInv == DiskKnows /\ TableKnows /\ BoughtWithinOrder

-----------------------------------------------------------------------------
(* Helpers.                                                                  *)

\* What the smaller of two naturals is.
LEMMA Min2Fact ==
  ASSUME NEW a \in Nat, NEW b \in Nat
  PROVE Min2(a, b) \in Nat /\ Min2(a, b) <= a /\ Min2(a, b) <= b
  BY DEF Min2

\* The bounds and lifetimes are naturals.
LEMMA BoundFact ==
  /\ OrderSize \in Nat /\ OrderSize >= 1 /\ TTL \in Nat /\ TTL >= 1 /\ ReleaseWithin \in Nat
  /\ MaxTime \in Nat /\ MaxFaults \in Nat /\ MaxCopied \in Nat
  BY GuardAssumption

\* What is outstanding of a slot.
LEMMA OutstandingFact ==
  ASSUME NEW n \in Nat, NEW slot \in SlotType, slot.released <= slot.copied
  PROVE Outstanding(slot) = slot.copied - slot.released /\ Outstanding(slot) \in Nat
  BY BoundFact DEF Outstanding, SlotType

\* A set of naturals that is not empty and has an upper bound has a largest member.
LEMMA LargestExists ==
  ASSUME NEW n \in Nat, NEW S, S \subseteq 0 .. n, S # {}
  PROVE \E x \in S : \A y \in S : x >= y
  <1> DEFINE Above(x) == {y \in S : y > x}
             D == {Above(x) : x \in S}
  <1>1. IsFiniteSet(S)
    <2>1. IsFiniteSet(0 .. n)
      BY FS_Interval
    <2> QED
      BY <2>1, FS_Subset
  <1>2. D \subseteq SUBSET S /\ D # {}
    OBVIOUS
  <1> HIDE DEF D
  <1>3. PICK T \in D : \A U \in SUBSET T : U # T => U \notin D
    BY <1>1, <1>2, Smallest
  <1>4. PICK x \in S : T = Above(x)
    BY <1>3 DEF D
  <1>5. ASSUME NEW y \in S, y > x PROVE FALSE
    <2>1. Above(y) \subseteq T /\ y \in T /\ y \notin Above(y)
      <3>1. \A z \in S : z \in Int
        OBVIOUS
      <3>2. y > x /\ ~(y > y) /\ \A z \in S : z > y => z > x
        BY <1>5, <3>1
      <3> QED
        BY <1>4, <3>2
    <2>2. Above(y) \in D
      BY DEF D
    <2> QED
      BY <1>3, <2>1, <2>2
  <1> QED
    BY <1>5

\* Largest of such a set is that member; of the empty set it is zero.
LEMMA LargestFact ==
  ASSUME NEW n \in Nat, NEW S, S \subseteq 0 .. n
  PROVE /\ Largest(S) \in 0 .. n
        /\ S # {} => Largest(S) \in S
        /\ \A y \in S : y <= Largest(S)
  <1>1. CASE S = {}
    BY <1>1 DEF Largest
  <1>2. CASE S # {}
    <2>1. \E x \in S : \A y \in S : x >= y
      BY <1>2, LargestExists
    <2>2. Largest(S) \in S /\ \A y \in S : Largest(S) >= y
      BY <1>2, <2>1 DEF Largest, Max
    <2> QED
      BY <2>2
  <1> QED
    BY <1>1, <1>2

\* What is left of the slots that have expired.
LEMMA LiveFact ==
  ASSUME TypeInv, RowInv, NEW s \in Salts
  PROVE /\ LiveOrders[s] = IF Fresh(orders[s].t) THEN orders[s] ELSE NoSlot
        /\ LiveOrders[s] \in SlotType /\ LiveOrders[s].released <= LiveOrders[s].copied
        /\ LiveOrders[s].token \in {NoToken, TokenOf[s]}
  BY BoundFact DEF TypeInv, RowInv, LiveOrders, NoSlot, SlotType, Times

\* A slot with another time and size of his.
Seen(slot, t, h) == [slot EXCEPT !.t = t, !.his = h]

\* It changes nothing else.
LEMMA SeenFact ==
  ASSUME NEW slot \in SlotType, NEW t \in 0 .. now, NEW h \in 0 .. OrderSize
  PROVE LET new == Seen(slot, t, h) IN
        /\ new \in SlotType /\ new.t = t /\ new.his = h /\ new.copied = slot.copied
        /\ new.released = slot.released /\ new.token = slot.token
  BY DEF SlotType, Seen

\* The slot of an order that is observed, and of one that is committed to.
LEMMA ObservedFact ==
  ASSUME TypeInv, RowInv, NEW s \in Salts, NEW f \in 1 .. OrderSize
  PROVE LET slot == Observed(s, f)[s] IN
        /\ slot \in SlotType
        /\ slot.t = now /\ slot.his <= OrderSize /\ slot.copied = LiveOrders[s].copied
        /\ slot.released = LiveOrders[s].released /\ slot.token = LiveOrders[s].token
        /\ Observed(s, f) = [LiveOrders EXCEPT ![s] = slot]
        /\ Observed(s, f) \in [Salts -> SlotType]
  <1> DEFINE live == LiveOrders[s]
             his == Min2(live.his + f, OrderSize)
             slot == Seen(live, now, his)
  <1>1. live \in SlotType /\ now \in Nat
    BY LiveFact DEF TypeInv, Times
  <1>2. Observed(s, f) = [LiveOrders EXCEPT ![s] = slot]
    BY DEF Observed, LiveOrders, Seen
  <1>3. his \in 0 .. OrderSize
    <2>1. live.his + f \in Nat
      BY <1>1 DEF SlotType
    <2> QED
      BY <2>1, BoundFact DEF Min2
  <1>4. now \in 0 .. now
    BY <1>1
  <1>5. /\ slot \in SlotType /\ slot.t = now /\ slot.his \in 0 .. OrderSize
        /\ slot.copied = live.copied /\ slot.released = live.released
        /\ slot.token = live.token
    <2> HIDE DEF live, his
    <2> QED
      BY <1>1, <1>3, <1>4, SeenFact
  <1>6. LiveOrders \in [Salts -> SlotType]
    <2>1. LiveOrders = [q \in Salts |-> LiveOrders[q]]
      BY DEF LiveOrders
    <2> QED
      BY <2>1, LiveFact
  <1>7. Observed(s, f)[s] = slot
    BY <1>2, <1>6
  <1>8. slot.his <= OrderSize
    BY <1>5, BoundFact
  <1> HIDE DEF slot
  <1> QED
    BY <1>2, <1>5, <1>6, <1>7, <1>8

\* A commitment is for at most what his order has and no copy has.
LEMMA DueFact ==
  ASSUME NEW slot \in SlotType, slot.released <= slot.copied, now \in Nat,
         NEW n \in 1 .. OrderSize, n \in 1 .. Due(slot), slot.copied + n <= MaxCopied
  PROVE /\ slot.copied - slot.released + n <= slot.his
        /\ slot.copied + n \in 0 .. MaxCopied + 1
  <1>1. Outstanding(slot) = slot.copied - slot.released /\ Outstanding(slot) \in Nat
    BY OutstandingFact
  <1>2. n <= Due(slot) /\ n >= 1
    BY <1>1, BoundFact DEF Due, SlotType
  <1>3. Due(slot) = slot.his - Outstanding(slot)
    BY <1>1, <1>2, BoundFact DEF Due, SlotType
  <1> QED
    BY <1>1, <1>2, <1>3, BoundFact DEF SlotType

\* Whether it fails or not, an append leaves the rows there were, and adds no other.
LEMMA AppendFact ==
  ASSUME NEW row, AppendLog(row) \/ AppendLogFails(row), UNCHANGED file, TypeInv
  PROVE /\ AllRows' \in {AllRows, AllRows \cup {row}}
        /\ walTail' \in {"clean", "torn", "cut"}
  BY DEF AllRows, AppendLog, AppendLogFails, TypeInv

\* The row of a commitment, and the slot it leaves, are the same.
LEMMA CommitRowFact ==
  ASSUME now \in Nat, NEW s \in Salts, NEW slot \in SlotType, slot.token \in {NoToken, TokenOf[s]},
         NEW n, slot.copied + n \in 0 .. MaxCopied + 1
  PROVE LET row == CommitRow(s, slot, n) IN
        /\ row \in RowType /\ row.salt = s /\ row.lane = LaneOf[s]
        /\ row.slot = Committed(slot, s, n) /\ Committed(slot, s, n) \in SlotType
        /\ row.slot.t = now /\ row.slot.copied = slot.copied + n
        /\ row.slot.released = slot.released /\ row.slot.token = TokenOf[s]
  <1> DEFINE new == [slot EXCEPT !.t = now, !.copied = @ + n, !.token = TokenOf[s]]
  <1>1. new = Committed(slot, s, n)
    BY DEF SlotType, Committed
  <1>2. /\ new \in SlotType /\ new.t = now /\ new.copied = slot.copied + n
        /\ new.released = slot.released /\ new.token = TokenOf[s]
    <2>1. now \in 0 .. now /\ TokenOf[s] \in {NoToken} \cup {TokenOf[q] : q \in Salts}
      OBVIOUS
    <2> QED
      BY <2>1 DEF SlotType
  <1>3. CommitRow(s, slot, n) = [salt |-> s, lane |-> LaneOf[s], slot |-> new]
    BY DEF CommitRow, Row
  <1> HIDE DEF new
  <1> QED
    BY <1>1, <1>2, <1>3 DEF RowType, Lanes

\* The row of a release.
LEMMA ReleaseRowFact ==
  ASSUME now \in Nat, NEW s \in Salts, orders[s] \in SlotType, orders[s].token \in {NoToken, TokenOf[s]},
         NEW n, orders[s].released + n \in 0 .. MaxCopied + 1
  PROVE LET row == ReleaseRow(s, n) IN
        /\ row \in RowType /\ row.salt = s /\ row.lane = LaneOf[s]
        /\ row.slot \in SlotType
        /\ row.slot.t = now /\ row.slot.copied = orders[s].copied
        /\ row.slot.released = orders[s].released + n /\ row.slot.token = orders[s].token
  <1> DEFINE slot == orders[s]
             new == [slot EXCEPT !.t = now, !.released = @ + n]
  <1>2. /\ new \in SlotType /\ new.t = now /\ new.copied = slot.copied
        /\ new.released = slot.released + n /\ new.token = slot.token
    <2>1. now \in 0 .. now /\ slot \in SlotType /\ slot.released + n \in 0 .. MaxCopied + 1
      OBVIOUS
    <2> HIDE DEF slot
    <2> QED
      BY <2>1 DEF SlotType
  <1>3. ReleaseRow(s, n) = [salt |-> s, lane |-> LaneOf[s], slot |-> new]
    BY DEF ReleaseRow, Row
  <1> HIDE DEF new
  <1> QED
    BY <1>2, <1>3 DEF RowType, Lanes

\* The rows a replay reads of an order, and the largest counts it finds.
Mine(s) == {r \in Rows : r.salt = s}

\* The slot a replay makes is the largest of the counts of its rows.
LEMMA ReplayedFact ==
  ASSUME TypeInv, RowInv, NEW s \in Salts
  PROVE LET slot == ReplayedSlot(s) IN
        /\ slot \in SlotType /\ slot.released <= slot.copied
        /\ slot.token \in {NoToken, TokenOf[s]}
        /\ \A r \in Mine(s) : r.slot.t <= slot.t /\ r.slot.copied <= slot.copied
                             /\ r.slot.released <= slot.released
        /\ Mine(s) = {} => slot.copied = 0
        /\ Mine(s) # {} => /\ \E r \in Mine(s) : r.slot.t = slot.t
                           /\ \E r \in Mine(s) : r.slot.copied = slot.copied
                           /\ \E r \in Mine(s) : r.slot.released = slot.released
  <1> DEFINE mine == {r.slot : r \in Mine(s)}
             ts == {x.t : x \in mine}
             hs == {x.his : x \in mine}
             cs == {x.copied : x \in mine}
             rs == {x.released : x \in mine}
             tok == IF \E x \in mine : x.token # NoToken THEN TokenOf[s] ELSE NoToken
  <1>1. ReplayedSlot(s) = [t |-> Largest(ts), his |-> Largest(hs), copied |-> Largest(cs),
                           released |-> Largest(rs), token |-> tok]
    BY DEF ReplayedSlot, Mine
  <1>2. \A r \in Mine(s) : r.slot \in SlotType /\ r.slot.released <= r.slot.copied
    BY DEF Mine, Rows, TypeInv, RowInv, RowType, AllRows
  <1>3. /\ now \in Nat /\ OrderSize \in Nat /\ MaxCopied + 1 \in Nat
        /\ ts \subseteq 0 .. now /\ hs \subseteq 0 .. OrderSize
        /\ cs \subseteq 0 .. MaxCopied + 1 /\ rs \subseteq 0 .. MaxCopied + 1
    <2>1. now \in Nat /\ OrderSize \in Nat /\ MaxCopied + 1 \in Nat
      BY BoundFact DEF TypeInv, Times
    <2>2. \A x \in SlotType : /\ x.t \in 0 .. now /\ x.his \in 0 .. OrderSize
                              /\ x.copied \in 0 .. MaxCopied + 1
                              /\ x.released \in 0 .. MaxCopied + 1
      BY DEF SlotType
    <2> QED
      BY <1>2, <2>1, <2>2
  <1>4. tok \in {NoToken, TokenOf[s]}
    OBVIOUS
  <1>5. \A r \in Mine(s) : r.slot.t \in ts /\ r.slot.copied \in cs /\ r.slot.released \in rs
    OBVIOUS
  <1>6. /\ \A v \in ts : \E r \in Mine(s) : r.slot.t = v
        /\ \A v \in cs : \E r \in Mine(s) : r.slot.copied = v
        /\ \A v \in rs : \E r \in Mine(s) : r.slot.released = v
    OBVIOUS
  <1>7. Mine(s) = {} => cs = {} /\ rs = {}
    OBVIOUS
  <1> HIDE DEF ts, hs, cs, rs, tok
  <1>8. /\ Largest(ts) \in 0 .. now /\ Largest(hs) \in 0 .. OrderSize
        /\ Largest(cs) \in 0 .. MaxCopied + 1 /\ Largest(rs) \in 0 .. MaxCopied + 1
    BY <1>3, LargestFact
  <1>9. /\ \A v \in ts : v <= Largest(ts)
        /\ \A v \in cs : v <= Largest(cs)
        /\ \A v \in rs : v <= Largest(rs)
    BY <1>3, LargestFact
  <1>10. /\ ts # {} => Largest(ts) \in ts
         /\ cs # {} => Largest(cs) \in cs
         /\ rs # {} => Largest(rs) \in rs
    BY <1>3, LargestFact
  <1>11. Largest({}) = 0
    BY DEF Largest
  <1>12. Largest(rs) <= Largest(cs)
    <2>1. CASE Mine(s) = {}
      BY <1>7, <1>11, <2>1
    <2>2. CASE Mine(s) # {}
      <3>1. PICK r \in Mine(s) : r.slot.released = Largest(rs)
        BY <1>5, <1>6, <1>10, <2>2
      <3>2. r.slot.copied <= Largest(cs) /\ r.slot.copied \in Nat /\ r.slot.released \in Nat
        BY <1>2, <1>5, <1>9, BoundFact DEF SlotType
      <3> QED
        BY <1>2, <1>8, <3>1, <3>2, BoundFact
    <2> QED
      BY <2>1, <2>2
  <1>13. ReplayedSlot(s) \in SlotType
    BY <1>1, <1>4, <1>8 DEF SlotType
  <1>14. LET slot == ReplayedSlot(s) IN
         /\ slot.t = Largest(ts) /\ slot.copied = Largest(cs) /\ slot.released = Largest(rs)
         /\ slot.token = tok
    BY <1>1
  <1>15. Mine(s) # {} => ts # {} /\ cs # {} /\ rs # {}
    BY <1>5
  <1> QED
    BY <1>4, <1>5, <1>6, <1>7, <1>9, <1>10, <1>11, <1>12, <1>13, <1>14, <1>15

-----------------------------------------------------------------------------
(* What the steps do.                                                        *)

\* The row a commitment of n shares writes, or tries to.
NewRow(s, f, n) == CommitRow(s, Observed(s, f)[s], n)

\* A commitment is of what his order has and no copy has; whether it fails or not, it adds
\* its row or none.
LEMMA CommitFact ==
  ASSUME TypeInv, RowInv, NEW s \in Salts, NEW f \in 1 .. OrderSize, NEW n \in 1 .. OrderSize,
         Commit(s, f, n) \/ CommitFails(s, f, n)
  PROVE LET row == NewRow(s, f, n) IN
        /\ row \in RowType /\ row.salt = s /\ row.lane = LaneOf[s] /\ row.slot.t = now
        /\ row.slot.copied = LiveOrders[s].copied + n
        /\ row.slot.released = LiveOrders[s].released /\ row.slot.token = TokenOf[s]
        /\ LiveOrders[s].copied - LiveOrders[s].released + n <= OrderSize
        /\ row.slot = Committed(Observed(s, f)[s], s, n)
        /\ AllRows' \in {AllRows, AllRows \cup {row}}
        /\ walTail' \in {"clean", "torn", "cut"}
        /\ Commit(s, f, n) /\ walTail = "clean" =>
             AllRows' = AllRows \cup {row} /\ walTail' = "clean"
  <1> DEFINE slot == Observed(s, f)[s]
             row == NewRow(s, f, n)
  <1>1. /\ slot \in SlotType /\ slot.his <= OrderSize /\ slot.his \in Nat
        /\ slot.copied = LiveOrders[s].copied /\ slot.released = LiveOrders[s].released
        /\ slot.token = LiveOrders[s].token /\ now \in Nat
    <2>1. /\ slot \in SlotType /\ slot.his <= OrderSize
          /\ slot.copied = LiveOrders[s].copied /\ slot.released = LiveOrders[s].released
          /\ slot.token = LiveOrders[s].token
      BY ObservedFact
    <2>2. now \in Nat
      BY BoundFact DEF TypeInv, Times
    <2> HIDE DEF slot
    <2>3. slot.his \in Nat
      BY <2>1, BoundFact DEF SlotType
    <2> QED
      BY <2>1, <2>2, <2>3
  <1>2. /\ LiveOrders[s].released <= LiveOrders[s].copied
        /\ LiveOrders[s].token \in {NoToken, TokenOf[s]}
    BY LiveFact
  <1>3. /\ n \in 1 .. Due(slot) /\ slot.copied + n <= MaxCopied
        /\ UNCHANGED file
        /\ AppendLog(CommitRow(s, slot, n)) \/ AppendLogFails(CommitRow(s, slot, n))
        /\ Commit(s, f, n) => AppendLog(CommitRow(s, slot, n))
    BY DEF Commit, CommitFails
  <1>4. row = CommitRow(s, slot, n)
    BY DEF NewRow
  <1> HIDE DEF slot, row
  <1>5. slot.copied - slot.released + n <= slot.his /\ slot.copied + n \in 0 .. MaxCopied + 1
    BY <1>1, <1>2, <1>3, DueFact
  <1>6. /\ row \in RowType /\ row.salt = s /\ row.lane = LaneOf[s]
        /\ row.slot = Committed(slot, s, n) /\ row.slot.t = now
        /\ row.slot.copied = slot.copied + n /\ row.slot.released = slot.released
        /\ row.slot.token = TokenOf[s]
    BY <1>1, <1>2, <1>4, <1>5, CommitRowFact
  <1>7. slot.copied - slot.released + n <= OrderSize
    BY <1>1, <1>5, BoundFact DEF SlotType
  <1>8. AllRows' \in {AllRows, AllRows \cup {row}} /\ walTail' \in {"clean", "torn", "cut"}
    BY <1>3, <1>4, AppendFact
  <1>9. Commit(s, f, n) /\ walTail = "clean" =>
          AllRows' = AllRows \cup {row} /\ walTail' = "clean"
    BY <1>3, <1>4 DEF AllRows, AppendLog
  <1> QED
    BY <1>1, <1>6, <1>7, <1>8, <1>9 DEF slot, row

\* What a release of n shares gives back.
Back(s, n) == Min2(n, Outstanding(orders[s]))

\* A release gives back no more than is outstanding, and writes one row, or none.
LEMMA ReleaseFact ==
  ASSUME TypeInv, RowInv, NEW s \in Salts, NEW t \in 0 .. now, NEW n \in 1 .. OrderSize,
         Release(s, t, n)
  PROVE LET back == Back(s, n)
            row == ReleaseRow(s, back) IN
        /\ back \in Nat /\ back <= n /\ orders[s].released + back <= orders[s].copied
        /\ n \in Nat /\ n <= bought[s][t] /\ now - t <= ReleaseWithin /\ t \in Times
        /\ bought' = [bought EXCEPT ![s][t] = @ - n]
        /\ UNCHANGED <<wal, sent, markets, now, up, latched, walTail>>
        /\ faults' \in 0 .. MaxFaults
        /\ \/ UNCHANGED <<orders, file>>
           \/ /\ AllRows' = AllRows \cup {row} /\ file' = file \cup {row} /\ back > 0
              /\ orders' = [orders EXCEPT ![s].released = @ + back, ![s].t = now]
              /\ row \in RowType /\ row.salt = s /\ row.lane = LaneOf[s] /\ row.slot \in SlotType
              /\ row.slot.t = now /\ row.slot.copied = orders[s].copied
              /\ row.slot.released = orders[s].released + back
              /\ row.slot.token = orders[s].token
  <1> DEFINE outstanding == Outstanding(orders[s])
             back == Min2(n, outstanding)
             row == ReleaseRow(s, back)
  <1>1. /\ orders[s] \in SlotType /\ orders[s].released <= orders[s].copied
        /\ orders[s].token \in {NoToken, TokenOf[s]} /\ now \in Nat /\ t \in Times
        /\ orders[s].released \in Nat /\ orders[s].copied \in Nat
        /\ orders[s].copied <= MaxCopied + 1 /\ bought[s][t] \in Nat /\ n \in Nat
    <2>1. /\ orders[s] \in SlotType /\ now \in Times /\ now \in Nat /\ bought \in [Salts -> [Times -> Nat]]
      BY BoundFact DEF TypeInv, Times
    <2>2. t \in Times /\ n \in Nat
      BY <2>1, BoundFact DEF Times
    <2>3. /\ orders[s].released \in Nat /\ orders[s].copied \in Nat
          /\ orders[s].copied <= MaxCopied + 1
      BY <2>1, BoundFact DEF SlotType
    <2>4. orders[s].released <= orders[s].copied /\ orders[s].token \in {NoToken, TokenOf[s]}
      BY DEF RowInv
    <2> QED
      BY <2>1, <2>2, <2>3, <2>4
  <1>2. outstanding = orders[s].copied - orders[s].released /\ outstanding \in Nat
    BY <1>1, OutstandingFact
  <1>3. back \in Nat /\ back <= n /\ back <= outstanding
    <2> HIDE DEF outstanding
    <2> QED
      BY <1>1, <1>2, Min2Fact
  <1>4. /\ n \in 1 .. bought[s][t] /\ now - t <= ReleaseWithin
        /\ bought' = [bought EXCEPT ![s][t] = @ - n]
        /\ UNCHANGED <<wal, sent, markets, now, up, latched, walTail>>
        /\ \/ UNCHANGED <<orders, file>>
           \/ /\ file' = file \cup {row} /\ back > 0
              /\ orders' = [orders EXCEPT ![s].released = @ + back, ![s].t = now]
    BY DEF Release
  <1>10. faults' \in 0 .. MaxFaults
    <2>1. faults' = faults \/ (faults < MaxFaults /\ faults' = faults + 1)
      BY DEF Release
    <2> QED
      BY <2>1, BoundFact DEF TypeInv
  <1> HIDE DEF outstanding, back, row
  <1>5. n <= bought[s][t]
    BY <1>1, <1>4
  <1>6. orders[s].released + back <= orders[s].copied
    BY <1>1, <1>2, <1>3
  <1>7. orders[s].released + back \in 0 .. MaxCopied + 1
    BY <1>1, <1>3, <1>6, BoundFact
  <1>8. /\ row \in RowType /\ row.salt = s /\ row.lane = LaneOf[s] /\ row.slot \in SlotType
        /\ row.slot.t = now /\ row.slot.copied = orders[s].copied
        /\ row.slot.released = orders[s].released + back
        /\ row.slot.token = orders[s].token
    BY <1>1, <1>7, ReleaseRowFact DEF row
  <1>9. file' = file \cup {row} => AllRows' = AllRows \cup {row}
    BY <1>4 DEF AllRows
  <1> QED
    BY <1>1, <1>3, <1>4, <1>5, <1>6, <1>8, <1>9, <1>10 DEF outstanding, back, row, Back

\* What it takes out of the history, and leaves alone.
LEMMA ReleaseTakes ==
  ASSUME TypeInv, NEW s \in Salts, NEW t \in 0 .. now, NEW n \in 1 .. OrderSize, Release(s, t, n)
  PROVE /\ n \in Nat /\ n > 0 /\ n <= bought[s][t] /\ now - t <= ReleaseWithin /\ t \in Times
        /\ bought' = [bought EXCEPT ![s][t] = @ - n]
        /\ UNCHANGED <<wal, sent, markets, now, up, latched, walTail>>
  <1>1. t \in Times /\ n \in Nat /\ n > 0
    BY BoundFact DEF TypeInv, Times
  <1>2. bought[s][t] \in Nat
    BY <1>1 DEF TypeInv
  <1>3. /\ n \in 1 .. bought[s][t] /\ now - t <= ReleaseWithin
        /\ bought' = [bought EXCEPT ![s][t] = @ - n]
        /\ UNCHANGED <<wal, sent, markets, now, up, latched, walTail>>
    BY DEF Release
  <1> QED
    BY <1>1, <1>2, <1>3

\* A boot keeps the rows that are fresh, all of them in the file, and no other.
LEMMA BootFact ==
  ASSUME TypeInv, Boot
  PROVE /\ file' = Rows /\ Rows = {r \in AllRows : Fresh(r.slot.t)} /\ AllRows' \subseteq AllRows
        /\ \A r \in AllRows : Fresh(r.slot.t) => r \in AllRows'
        /\ \A r \in AllRows' : Fresh(r.slot.t) => r \in file'
        /\ walTail' = "clean" /\ now' = now /\ up' /\ sent' = sent /\ bought' = bought
        /\ latched' = latched /\ orders' = [s \in Salts |-> ReplayedSlot(s)]
        /\ markets' \in ReplayedMarkets /\ faults' \in 0 .. MaxFaults
  BY BoundFact DEF Boot, Rows, AllRows, TypeInv

-----------------------------------------------------------------------------
(* Ranges, and the form of rows and slots.                                   *)

EntryType == [lane : Lanes \cup {NoLane}, cond : {CondOf[s] : s \in Salts}, t : 0 .. now,
              salt : Salts, token : {NoToken} \cup {TokenOf[s] : s \in Salts}]

\* Time only makes the ranges wider.
LEMMA TypesGrow ==
  ASSUME now \in Nat, now' \in {now, now + 1}
  PROVE /\ SlotType \subseteq SlotType' /\ RowType \subseteq RowType'
        /\ EntryType \subseteq EntryType'
  <1>1. 0 .. now \subseteq 0 .. now'
    OBVIOUS
  <1> QED
    BY <1>1 DEF SlotType, RowType, EntryType

\* The initial states are of the right form.
LEMMA InitForm == Init => TypeInv /\ RowInv
  <1> SUFFICES ASSUME Init PROVE TypeInv /\ RowInv
    OBVIOUS
  <1> DEFINE one == [NoSlot EXCEPT !.his = 1, !.copied = 1]
  <1>1. NoSlot \in SlotType /\ one \in SlotType
    <2>1. 0 \in 0 .. now
      BY DEF Init
    <2>2. NoSlot \in SlotType
      BY <2>1, BoundFact DEF NoSlot, SlotType
    <2>3. 1 \in 0 .. OrderSize /\ 1 \in 0 .. MaxCopied + 1
      BY BoundFact
    <2> QED
      BY <2>2, <2>3 DEF SlotType
  <1>2. Legacy \subseteq Salts
    BY GuardAssumption
  <1>3. \A r \in AllRows : \E s \in Salts : r = [salt |-> s, lane |-> NoLane, slot |-> one]
    BY <1>2 DEF Init, AllRows, LegacyRow, Row
  <1>4. AllRows \subseteq RowType
    <2> HIDE DEF one
    <2> QED
      BY <1>1, <1>3 DEF RowType
  <1>5. TypeInv
    <2>1. now \in Times /\ 0 \in 0 .. now /\ faults \in 0 .. MaxFaults
      BY BoundFact DEF Init, Times
    <2>2. bought \in [Salts -> [Times -> Nat]] /\ orders \in [Salts -> SlotType]
      BY <1>1 DEF Init
    <2>3. sent \subseteq Salts \X (0 .. now)
      BY <1>2, <2>1 DEF Init
    <2> QED
      BY <1>4, <2>1, <2>2, <2>3 DEF Init, TypeInv
  <1>6. RowInv
    <2>1. \A r \in AllRows : /\ r.lane = NoLane /\ r.slot.copied = 1 /\ r.slot.released = 0
                            /\ r.slot.token = NoToken
      <3>1. one.copied = 1 /\ one.released = 0 /\ one.token = NoToken
        BY DEF NoSlot
      <3> HIDE DEF one
      <3> QED
        BY <1>3, <3>1
    <2>2. \A s \in Salts : orders[s] = NoSlot
      BY DEF Init
    <2>3. NoSlot.released = 0 /\ NoSlot.copied = 0 /\ NoSlot.token = NoToken
      BY DEF NoSlot
    <2> QED
      BY <2>1, <2>2, <2>3 DEF RowInv
  <1> QED
    BY <1>5, <1>6

\* Every step keeps the form.
LEMMA NextForm == TypeInv /\ RowInv /\ [Next]_vars => (TypeInv /\ RowInv)'
  <1> SUFFICES ASSUME TypeInv, RowInv, [Next]_vars PROVE TypeInv' /\ RowInv'
    OBVIOUS
  <1>0. now \in Nat /\ now \in 0 .. now /\ EntryType \subseteq EntryType /\ markets \subseteq EntryType
    BY BoundFact DEF TypeInv, Times, EntryType
  <1>1. ASSUME NEW s \in Salts, NEW f \in 1 .. OrderSize, Observe(s, f) PROVE TypeInv' /\ RowInv'
    <2>1. /\ Observed(s, f) \in [Salts -> SlotType]
          /\ \A q \in Salts : /\ Observed(s, f)[q].released <= Observed(s, f)[q].copied
                             /\ Observed(s, f)[q].token \in {NoToken, TokenOf[q]}
      BY ObservedFact, LiveFact
    <2>2. SlotType' = SlotType /\ RowType' = RowType /\ AllRows' = AllRows
      BY <1>1 DEF Observe, SlotType, RowType, AllRows, disk
    <2>3. TypeInv'
      BY <1>1, <2>1, <2>2 DEF TypeInv, Observe, LiveMarkets, disk
    <2> QED
      BY <1>1, <2>1, <2>2, <2>3 DEF RowInv, Observe
  <1>2. ASSUME NEW s \in Salts, NEW f \in 1 .. OrderSize, NEW n \in 1 .. OrderSize,
               Commit(s, f, n) \/ CommitFails(s, f, n)
        PROVE TypeInv' /\ RowInv'
    <2> DEFINE row == NewRow(s, f, n)
    <2>1. /\ Observed(s, f) \in [Salts -> SlotType]
          /\ \A q \in Salts : /\ Observed(s, f)[q].released <= Observed(s, f)[q].copied
                             /\ Observed(s, f)[q].token \in {NoToken, TokenOf[q]}
      BY ObservedFact, LiveFact
    <2>2. /\ row \in RowType /\ row.salt = s /\ row.lane = LaneOf[s]
          /\ row.slot.released <= row.slot.copied /\ row.slot.token = TokenOf[s]
          /\ row.slot \in SlotType
      <3>1. /\ row \in RowType /\ row.salt = s /\ row.lane = LaneOf[s]
            /\ row.slot.released = LiveOrders[s].released
            /\ row.slot.copied = LiveOrders[s].copied + n /\ row.slot.token = TokenOf[s]
        BY <1>2, CommitFact
      <3>2. row.slot \in SlotType
        BY <3>1 DEF RowType
      <3>3. LiveOrders[s] \in SlotType /\ LiveOrders[s].released <= LiveOrders[s].copied
        BY LiveFact
      <3>4. LiveOrders[s].released \in Nat /\ LiveOrders[s].copied \in Nat
        BY <3>3, BoundFact DEF SlotType
      <3> QED
        BY <3>1, <3>2, <3>3, <3>4, BoundFact
    <2>3. AllRows' \in {AllRows, AllRows \cup {row}} /\ walTail' \in {"clean", "torn", "cut"}
      BY <1>2, CommitFact
    <2>4. orders' \in {Observed(s, f), [Observed(s, f) EXCEPT ![s] = row.slot]}
      BY <1>2, CommitFact DEF Commit, CommitFails
    <2>5. markets' \subseteq EntryType
      <3>1. Entry(s, LaneOf[s], now, TokenOf[s]) \in EntryType
        BY <1>0 DEF Entry, EntryType, Lanes
      <3> QED
        BY <1>0, <1>2, <3>1 DEF Commit, CommitFails, Owned, LiveMarkets
    <2>6. SlotType' = SlotType /\ RowType' = RowType /\ EntryType' = EntryType
      BY <1>2 DEF Commit, CommitFails, SlotType, RowType, EntryType
    <2>7. /\ now' = now /\ up' = up /\ latched' \subseteq Lanes /\ sent' \subseteq Salts \X (0 .. now)
          /\ bought' \in [Salts -> [Times -> Nat]] /\ faults' \in 0 .. MaxFaults
      <3>1. LaneOf[s] \in Lanes /\ now \in Times /\ n \in Nat
        BY BoundFact DEF Lanes, TypeInv
      <3> QED
        BY <1>0, <1>2, <3>1, BoundFact DEF TypeInv, Commit, CommitFails
    <2> HIDE DEF row
    <2>8. TypeInv'
      BY <2>1, <2>2, <2>3, <2>4, <2>5, <2>6, <2>7 DEF TypeInv, EntryType
    <2>9. RowInv'
      BY <2>1, <2>2, <2>3, <2>4 DEF RowInv
    <2> QED
      BY <2>8, <2>9
  <1>3. ASSUME NEW s \in Salts, NEW t \in 0 .. now, NEW n \in 1 .. OrderSize, Release(s, t, n)
        PROVE TypeInv' /\ RowInv'
    <2> DEFINE back == Back(s, n)
               row == ReleaseRow(s, back)
    <2>1. /\ back \in Nat /\ orders[s].released + back <= orders[s].copied
          /\ n \in Nat /\ n <= bought[s][t] /\ t \in Times
          /\ bought' = [bought EXCEPT ![s][t] = @ - n]
          /\ UNCHANGED <<wal, sent, markets, now, up, latched, walTail>>
          /\ \/ UNCHANGED <<orders, file>>
             \/ /\ AllRows' = AllRows \cup {row} /\ file' = file \cup {row}
                /\ orders' = [orders EXCEPT ![s].released = @ + back, ![s].t = now]
                /\ row \in RowType /\ row.salt = s /\ row.lane = LaneOf[s]
                /\ row.slot \in SlotType
                /\ row.slot.t = now /\ row.slot.copied = orders[s].copied
                /\ row.slot.released = orders[s].released + back
                /\ row.slot.token = orders[s].token
      BY <1>3, ReleaseFact
    <2> HIDE DEF back, row
    <2>2. SlotType' = SlotType /\ RowType' = RowType
      BY <2>1 DEF SlotType, RowType
    <2>3. bought' \in [Salts -> [Times -> Nat]]
      <3>1. bought[s][t] - n \in Nat
        BY <2>1 DEF TypeInv
      <3> QED
        BY <2>1, <3>1 DEF TypeInv
    <2>4. orders[s] \in SlotType /\ orders[s].token \in {NoToken, TokenOf[s]}
      BY DEF TypeInv, RowInv
    <2>5. orders' \in [Salts -> SlotType] /\ (\A q \in Salts :
            /\ orders'[q].released <= orders'[q].copied
            /\ orders'[q].token \in {NoToken, TokenOf[q]})
      <3>1. CASE UNCHANGED orders
        BY <3>1 DEF TypeInv, RowInv
      <3>2. CASE orders' = [orders EXCEPT ![s].released = @ + back, ![s].t = now]
        <4> DEFINE slot == orders[s]
                   new == [slot EXCEPT !.released = @ + back, !.t = now]
        <4>1. orders' = [orders EXCEPT ![s] = new]
          BY <2>4, <3>2 DEF TypeInv
        <4>2. slot.released + back \in 0 .. MaxCopied + 1
          BY <2>1, <2>4, BoundFact DEF SlotType
        <4>3. slot \in SlotType /\ slot.token \in {NoToken, TokenOf[s]}
              /\ slot.released + back <= slot.copied
          BY <2>1, <2>4
        <4>4. /\ new \in SlotType /\ new.released <= new.copied
              /\ new.token \in {NoToken, TokenOf[s]}
          <5> HIDE DEF slot
          <5> QED
            BY <1>0, <4>2, <4>3 DEF SlotType
        <4> HIDE DEF new
        <4> QED
          BY <4>1, <4>4 DEF TypeInv, RowInv
      <3> QED
        BY <2>1, <3>1, <3>2
    <2>6. faults' \in 0 .. MaxFaults
      BY <1>3, ReleaseFact
    <2>7. AllRows' \subseteq AllRows \cup {row} /\ (AllRows' = AllRows \/ row \in RowType)
      BY <2>1 DEF AllRows
    <2>8. TypeInv'
      BY <2>1, <2>2, <2>3, <2>5, <2>6, <2>7 DEF TypeInv
    <2>9. RowInv'
      <3>1. CASE AllRows' = AllRows
        BY <2>5, <3>1 DEF RowInv
      <3>2. CASE AllRows' # AllRows
        <4>1. AllRows' = AllRows \cup {row}
          BY <2>1, <3>2 DEF AllRows
        <4>2. /\ row.salt = s /\ row.lane = LaneOf[s] /\ row.slot.released <= row.slot.copied
              /\ row.slot.token = orders[s].token
          BY <2>1, <3>2 DEF AllRows
        <4> QED
          BY <2>4, <2>5, <4>1, <4>2 DEF RowInv
      <3> QED
        BY <3>1, <3>2
    <2> QED
      BY <2>8, <2>9
  <1>4. ASSUME NEW lane \in Lanes, ClearIncident(lane) PROVE TypeInv' /\ RowInv'
    BY <1>4 DEF ClearIncident, TypeInv, RowInv, AllRows, table, disk, SlotType, RowType
  <1>5. CASE Tick
    <2>1. /\ SlotType \subseteq SlotType' /\ RowType \subseteq RowType'
          /\ EntryType \subseteq EntryType'
      BY <1>0, <1>5, TypesGrow DEF Tick
    <2>2. AllRows' = AllRows /\ orders' = orders /\ markets' = markets
      BY <1>5 DEF Tick, table, disk, AllRows
    <2>3. now' \in Times /\ sent' \subseteq Salts \X (0 .. now')
      BY <1>0, <1>5, BoundFact DEF Tick, TypeInv, Times
    <2>4. bought' \in [Salts -> [Times -> Nat]]
      BY <1>5 DEF Tick, TypeInv
    <2>5. /\ up' \in BOOLEAN /\ walTail' \in {"clean", "torn", "cut"} /\ latched' \subseteq Lanes
          /\ faults' \in 0 .. MaxFaults
      BY <1>5 DEF Tick, TypeInv, table, disk
    <2>6. orders \in [Salts -> SlotType'] /\ AllRows \subseteq RowType' /\ markets \subseteq EntryType'
      BY <1>0, <2>1 DEF TypeInv
    <2>7. TypeInv'
      BY <2>2, <2>3, <2>4, <2>5, <2>6 DEF TypeInv, EntryType
    <2> QED
      BY <2>2, <2>7 DEF RowInv
  <1>6. CASE Crash
    <2>1. NoSlot \in SlotType /\ NoSlot.released <= NoSlot.copied /\ NoSlot.token = NoToken
      BY <1>0, BoundFact DEF NoSlot, SlotType
    <2>2. SlotType' = SlotType /\ RowType' = RowType /\ AllRows' = AllRows
      BY <1>6 DEF Crash, SlotType, RowType, AllRows
    <2>3. orders' = [s \in Salts |-> NoSlot]
      BY <1>6 DEF Crash
    <2>4. orders' \in [Salts -> SlotType]
      BY <2>1, <2>3
    <2>5. TypeInv'
      BY <1>6, <2>2, <2>4 DEF Crash, TypeInv
    <2> QED
      BY <2>1, <2>2, <2>3, <2>5 DEF RowInv
  <1>7. CASE Boot
    <2>1. /\ \A s \in Salts : /\ ReplayedSlot(s) \in SlotType
                            /\ ReplayedSlot(s).released <= ReplayedSlot(s).copied
                            /\ ReplayedSlot(s).token \in {NoToken, TokenOf[s]}
      BY ReplayedFact
    <2>2. /\ AllRows' \subseteq AllRows /\ now' = now /\ up' /\ sent' = sent /\ bought' = bought
          /\ latched' = latched /\ orders' = [s \in Salts |-> ReplayedSlot(s)]
          /\ markets' \in ReplayedMarkets /\ walTail' = "clean" /\ faults' \in 0 .. MaxFaults
          /\ up' = TRUE
      BY <1>7, BootFact DEF Boot
    <2>3. SlotType' = SlotType /\ RowType' = RowType /\ EntryType' = EntryType
      BY <2>2 DEF SlotType, RowType, EntryType
    <2>4. markets' \subseteq EntryType
      <3>1. markets' \subseteq Claims
        BY <2>2 DEF ReplayedMarkets, Latest
      <3>2. \A r \in Rows : r.salt \in Salts /\ r.lane \in Lanes \cup {NoLane} /\ r.slot \in SlotType
        BY DEF Rows, TypeInv, AllRows, RowType
      <3>3. \A r \in Rows : Entry(r.salt, r.lane, r.slot.t, r.slot.token) \in EntryType
        BY <3>2 DEF Entry, EntryType, SlotType
      <3> QED
        BY <3>1, <3>3 DEF Claims
    <2>5. orders' \in [Salts -> SlotType]
      BY <2>1, <2>2
    <2>6. TypeInv'
      BY <2>2, <2>3, <2>4, <2>5 DEF TypeInv, EntryType
    <2> QED
      BY <2>1, <2>2, <2>6 DEF RowInv
  <1>8. CASE UNCHANGED vars
    BY <1>8 DEF vars, table, disk, TypeInv, RowInv, AllRows, SlotType, RowType
  <1> QED
    BY <1>1, <1>2, <1>3, <1>4, <1>5, <1>6, <1>7, <1>8 DEF Next, Signal, Settle

-----------------------------------------------------------------------------
(* What was sent.                                                            *)

\* Initially it is what the legacy rows show.
LEMMA InitSentInv == Init => SentInv
  BY GuardAssumption DEF Init, SentInv, Fresh

\* What counts was sent within the TTL, and the log takes every row that matters.
LEMMA NextSentInv ==
  ASSUME InTime, Sound
  PROVE TypeInv /\ RowInv /\ SentInv /\ [Next]_vars => SentInv'
  <1> SUFFICES ASSUME TypeInv, RowInv, SentInv, [Next]_vars PROVE SentInv'
    OBVIOUS
  <1>0. now \in Nat /\ \A s \in Salts, t \in Times : bought[s][t] \in Nat
    BY BoundFact DEF TypeInv, Times
  <1>1. ASSUME NEW s \in Salts, NEW f \in 1 .. OrderSize, Observe(s, f) PROVE SentInv'
    BY <1>1 DEF Observe, SentInv, disk, Fresh
  <1>2. ASSUME NEW s \in Salts, NEW f \in 1 .. OrderSize, NEW n \in 1 .. OrderSize, Commit(s, f, n)
        PROVE SentInv'
    <2>1. /\ LaneOf[s] \notin latched /\ UNCHANGED <<now, latched>> /\ up
          /\ sent' = sent \cup {<<s, now>>} /\ bought' = [bought EXCEPT ![s][now] = @ + n]
      BY <1>2 DEF Commit
    <2>2. walTail' = "clean"
      <3>1. walTail = "clean"
        BY <2>1 DEF SentInv, Lanes
      <3> QED
        BY <1>2, <3>1, CommitFact
    <2>3. \A q \in Salts, t \in Times : bought'[q][t] = bought[q][t] \/ (q = s /\ t = now)
      BY <2>1 DEF TypeInv
    <2>4. Fresh(now)
      BY <1>0, BoundFact DEF Fresh
    <2> QED
      BY <1>0, <2>1, <2>2, <2>3, <2>4 DEF SentInv, Fresh
  <1>3. ASSUME NEW s \in Salts, NEW f \in 1 .. OrderSize, NEW n \in 1 .. OrderSize,
               CommitFails(s, f, n)
        PROVE SentInv'
    <2>1. /\ faults < MaxFaults /\ UNCHANGED <<now, sent, bought>>
          /\ latched' = latched \cup {LaneOf[s]}
      BY <1>3 DEF CommitFails
    <2>2. \A q \in Salts : LaneOf[q] = LaneOf[s]
      BY <2>1, BoundFact DEF Sound, TypeInv
    <2> QED
      BY <2>1, <2>2 DEF SentInv, Fresh, Lanes
  <1>4. ASSUME NEW s \in Salts, NEW t \in 0 .. now, NEW n \in 1 .. OrderSize, Release(s, t, n)
        PROVE SentInv'
    <2>1. /\ UNCHANGED <<now, sent, up, latched, walTail>> /\ n \in Nat /\ t \in Times
          /\ bought' = [bought EXCEPT ![s][t] = @ - n]
      BY <1>4, ReleaseTakes
    <2>2. \A q \in Salts, u \in Times : bought'[q][u] \in {bought[q][u], bought[q][u] - n}
      BY <2>1 DEF TypeInv
    <2>3. \A q \in Salts, u \in Times : bought'[q][u] > 0 => bought[q][u] > 0
      BY <1>0, <2>1, <2>2
    <2> QED
      BY <2>1, <2>3 DEF SentInv, Fresh
  <1>5. ASSUME NEW lane \in Lanes, ClearIncident(lane) PROVE SentInv'
    BY <1>5 DEF ClearIncident, SentInv, table, disk, Fresh
  <1>6. CASE Tick
    <2>1. /\ now' = now + 1 /\ UNCHANGED <<up, latched, walTail>>
          /\ sent' = {e \in sent : now' - e[2] < TTL}
          /\ \A s \in Salts, t \in Times : bought'[s][t] =
               IF now' - t < TTL \/ now' - t <= ReleaseWithin THEN bought[s][t] ELSE 0
      BY <1>6 DEF Tick, disk
    <2>2. ASSUME NEW s \in Salts, NEW t \in Times, bought'[s][t] > 0
          PROVE bought[s][t] > 0 /\ now' - t < TTL
      <3>1. t \in Nat
        BY BoundFact DEF Times
      <3> QED
        BY <1>0, <2>1, <2>2, <3>1, BoundFact DEF InTime
    <2>3. ASSUME NEW s \in Salts, NEW t \in Times, bought'[s][t] > 0
          PROVE t <= now' /\ Fresh(t)' /\ <<s, t>> \in sent'
      <3>1. t <= now /\ <<s, t>> \in sent /\ t \in Nat
        BY <2>2, <2>3, BoundFact DEF SentInv, Times
      <3> QED
        BY <1>0, <2>1, <2>2, <2>3, <3>1 DEF Fresh
    <2> QED
      BY <2>1, <2>3 DEF SentInv, Fresh
  <1>7. CASE Crash
    BY <1>7 DEF Crash, SentInv, Fresh
  <1>8. CASE Boot
    BY <1>8, BootFact DEF SentInv, Fresh
  <1>9. CASE UNCHANGED vars
    BY <1>9 DEF vars, table, disk, SentInv, Fresh
  <1> QED
    BY <1>1, <1>2, <1>3, <1>4, <1>5, <1>6, <1>7, <1>8, <1>9 DEF Next, Signal, Settle

-----------------------------------------------------------------------------
(* One side of each market.                                                  *)

\* What every proof below needs of the clock and of the copies.
LEMMA ClockFact ==
  ASSUME TypeInv
  PROVE /\ now \in Nat /\ TTL \in Nat /\ TTL >= 1 /\ Fresh(now)
        /\ \A r \in AllRows : /\ r.salt \in Salts /\ r.slot.t \in Nat /\ r.slot.t <= now
                            /\ r.slot.copied \in Nat /\ r.slot.released \in Nat
        /\ \A e \in sent : e[1] \in Salts /\ e[2] \in Nat /\ e[2] <= now
        /\ \A m \in markets : m.t \in Nat /\ m.t <= now /\ m.salt \in Salts
  <1>1. now \in Nat /\ TTL \in Nat /\ TTL >= 1
    BY BoundFact DEF TypeInv, Times
  <1>2. \A r \in AllRows : r.salt \in Salts /\ r.slot \in SlotType
    BY DEF TypeInv, RowType
  <1>3. \A x \in SlotType : x.t \in Nat /\ x.t <= now /\ x.copied \in Nat /\ x.released \in Nat
    BY <1>1, BoundFact DEF SlotType
  <1>4. /\ \A e \in sent : e[1] \in Salts /\ e[2] \in Nat /\ e[2] <= now
        /\ \A m \in markets : m.t \in Nat /\ m.t <= now /\ m.salt \in Salts
    BY <1>1 DEF TypeInv
  <1> QED
    BY <1>1, <1>2, <1>3, <1>4 DEF Fresh

\* An order that passes the gate is on the side of all that was sent, and of every row of
\* this second.
LEMMA GateFact ==
  ASSUME TypeInv, SentInv, SideInv, up, NEW s \in Salts, LaneOf[s] \notin latched, Gate(s)
  PROVE /\ \A m \in LiveMarkets : ~Blocks(m, s)
        /\ \A e \in sent : ~Opposite(s, e[1])
        /\ \A r \in Copies : r.slot.t = now => ~Opposite(s, r.salt)
  <1>1. \A m \in LiveMarkets : ~Blocks(m, s)
    BY DEF Gate, Blocks
  <1>2. ASSUME NEW e \in sent, Opposite(s, e[1]) PROVE FALSE
    <2>1. PICK m \in markets : m.t >= e[2] /\ Blocks(m, s)
      BY <1>2 DEF SideInv, SentBars
    <2>2. m \in LiveMarkets
      BY <2>1, ClockFact DEF SentInv, LiveMarkets, Fresh
    <2> QED
      BY <1>1, <2>1, <2>2
  <1>3. ASSUME NEW r \in Copies, r.slot.t = now, Opposite(s, r.salt) PROVE FALSE
    BY <1>1, <1>3 DEF SideInv, RowBars
  <1> QED
    BY <1>1, <1>2, <1>3

\* What a commitment leaves of what keeps an order out of a market, when the order that is
\* committed to is on the other side.
LEMMA OwnedBars ==
  ASSUME TypeInv, NEW s \in Salts, NEW q \in Salts, NEW p \in Salts, Opposite(q, p), ~Opposite(s, p),
         NEW m \in LiveMarkets, Blocks(m, q), ~Blocks(m, s)
  PROVE \E k \in Owned(s) : k.t >= m.t /\ Blocks(k, q)
  <1> DEFINE k == Entry(s, LaneOf[s], now, TokenOf[s])
  <1>1. CASE m \in Owned(s)
    <2>1. m.t >= m.t
      BY ClockFact DEF LiveMarkets
    <2> QED
      BY <1>1, <2>1
  <1>2. CASE m \notin Owned(s)
    <2>1. m.lane = LaneOf[s] /\ m.cond = CondOf[s]
      BY <1>2 DEF Owned
    <2>2. k \in Owned(s) /\ k.t = now /\ k.salt = s /\ k.lane = LaneOf[s] /\ k.cond = CondOf[s]
          /\ k.token = TokenOf[s]
      BY DEF Owned, Entry
    <2>3. LaneOf[s] # NoLane
      BY GuardAssumption DEF Lanes
    <2>4. LaneOf[q] = LaneOf[s] /\ CondOf[q] = CondOf[s]
      BY <2>1, <2>3 DEF Blocks
    <2>5. TokenOf[s] # TokenOf[q] /\ s # q
      BY <2>4 DEF Opposite
    <2>6. now >= m.t
      BY ClockFact DEF LiveMarkets
    <2> HIDE DEF k
    <2> QED
      BY <2>2, <2>4, <2>5, <2>6 DEF Blocks
  <1> QED
    BY <1>1, <1>2

\* A commitment, and one that fails.
LEMMA CommitSide ==
  ASSUME TypeInv, RowInv, SentInv, SideInv, NEW s \in Salts, NEW f \in 1 .. OrderSize,
         NEW n \in 1 .. OrderSize, Commit(s, f, n) \/ CommitFails(s, f, n), TypeInv'
  PROVE SideInv'
  <1> DEFINE row == NewRow(s, f, n)
  <1>1. /\ up /\ LaneOf[s] \notin latched /\ Gate(s) /\ now' = now /\ file' = file /\ up' = up
    BY DEF Commit, CommitFails
  <1>2. /\ \A m \in LiveMarkets : ~Blocks(m, s)
        /\ \A e \in sent : ~Opposite(s, e[1])
        /\ \A r \in Copies : r.slot.t = now => ~Opposite(s, r.salt)
    BY <1>1, GateFact
  <1>3. /\ row.salt = s /\ row.slot.t = now /\ row.slot.copied > 0
        /\ AllRows' \in {AllRows, AllRows \cup {row}}
    <2>1. /\ row.salt = s /\ row.slot.t = now /\ row.slot.copied = LiveOrders[s].copied + n
          /\ AllRows' \in {AllRows, AllRows \cup {row}}
      BY CommitFact
    <2>2. LiveOrders[s].copied \in Nat
      BY LiveFact, BoundFact DEF SlotType
    <2>3. n \in Nat /\ n >= 1
      BY BoundFact
    <2> QED
      BY <2>1, <2>2, <2>3
  <1> HIDE DEF row
  <1>4. Copies' \in {Copies, Copies \cup {row}} /\ Copies' \subseteq AllRows'
    BY <1>3 DEF Copies
  <1>5. \/ sent' = sent /\ markets' = LiveMarkets /\ latched' = latched \cup {LaneOf[s]}
        \/ /\ sent' = sent \cup {<<s, now>>} /\ markets' = Owned(s) /\ row \in Copies'
           /\ latched' = latched
    <2>1. CASE Commit(s, f, n)
      <3>1. walTail = "clean"
        BY <1>1 DEF SentInv, Lanes
      <3>2. AllRows' = AllRows \cup {row}
        BY <2>1, <3>1, CommitFact DEF row
      <3> QED
        BY <1>3, <2>1, <3>2 DEF Commit, Copies
    <2>2. CASE CommitFails(s, f, n)
      BY <2>2 DEF CommitFails
    <2> QED
      BY <2>1, <2>2
  <1>6. \A e \in sent' : e \in sent \/ (e[1] = s /\ e[2] = now)
    BY <1>5
  <1>7. OnDisk'
    <2>1. \A e \in sent : \E r \in Copies' : r.salt = e[1] /\ r.slot.t >= e[2]
      BY <1>4 DEF SideInv, OnDisk
    <2>2. now >= now
      BY ClockFact
    <2> QED
      BY <1>3, <1>5, <2>1, <2>2 DEF OnDisk
  <1>8. Older'
    <2> SUFFICES ASSUME NEW e \in sent', NEW r \in Copies', Opposite(r.salt, e[1])
                 PROVE r.slot.t < e[2] \/ ~Fresh(r.slot.t)
      BY <1>1 DEF Older, Opposite, Fresh
    <2>1. CASE e \in sent /\ r \in Copies
      BY <2>1 DEF SideInv, Older
    <2>2. CASE r.salt = s
      BY <1>2, <1>6, <2>2 DEF Opposite
    <2>3. CASE r \in Copies /\ e[1] = s /\ e[2] = now
      <3>1. r.slot.t # now
        BY <1>2, <2>3 DEF Opposite
      <3> QED
        BY <2>3, <3>1, ClockFact DEF Copies
    <2> QED
      BY <1>3, <1>4, <1>6, <2>1, <2>2, <2>3
  <1>9. Apart'
    <2> SUFFICES ASSUME NEW r \in Copies', NEW q \in Copies', Opposite(r.salt, q.salt)
                 PROVE r.slot.t # q.slot.t
      BY DEF Apart, Opposite
    <2>1. CASE r \in Copies /\ q \in Copies
      BY <2>1 DEF SideInv, Apart
    <2>2. CASE r = row /\ q \in Copies
      BY <1>2, <1>3, <2>2
    <2>3. CASE r \in Copies /\ q = row
      BY <1>2, <1>3, <2>3 DEF Opposite
    <2>4. CASE r = row /\ q = row
      BY <2>4 DEF Opposite
    <2> QED
      BY <1>4, <2>1, <2>2, <2>3, <2>4
  <1>10. OneSidePerMarket'
    <2> SUFFICES ASSUME NEW a \in sent', NEW b \in sent', Opposite(a[1], b[1])
                 PROVE a[2] - b[2] >= TTL \/ b[2] - a[2] >= TTL
      BY DEF OneSidePerMarket, Opposite
    <2>1. CASE a \in sent /\ b \in sent
      BY <2>1 DEF SideInv, OneSidePerMarket, Opposite
    <2>2. ~(a[1] = s /\ b \in sent) /\ ~(b[1] = s /\ a \in sent) /\ ~(a[1] = s /\ b[1] = s)
      BY <1>2 DEF Opposite
    <2> QED
      BY <1>6, <2>1, <2>2
  <1>11. ASSUME NEW p \in Salts, NEW q \in Salts, Opposite(q, p), ~Opposite(s, p),
                NEW m \in LiveMarkets, Blocks(m, q)
         PROVE \E k \in markets' : k.t >= m.t /\ Blocks(k, q)
    <2>1. CASE markets' = LiveMarkets
      <3>1. m.t >= m.t
        BY ClockFact DEF LiveMarkets
      <3> QED
        BY <1>11, <2>1, <3>1
    <2>2. CASE markets' = Owned(s)
      BY <1>2, <1>11, <2>2, OwnedBars
    <2> QED
      BY <1>5, <2>1, <2>2
  <1>12. ASSUME NEW q \in Salts, Opposite(q, s), markets' = Owned(s)
         PROVE \E k \in markets' : k.t >= now /\ Blocks(k, q)
    <2> DEFINE k == Entry(s, LaneOf[s], now, TokenOf[s])
    <2>1. k \in Owned(s) /\ k.t >= now /\ Blocks(k, q)
      BY <1>12, ClockFact DEF Owned, Entry, Blocks, Opposite
    <2> QED
      BY <1>12, <2>1
  <1>13. SentBars'
    <2> SUFFICES ASSUME NEW e \in sent', NEW q \in Salts, Opposite(q, e[1])
                 PROVE \E k \in markets' : k.t >= e[2] /\ Blocks(k, q)
      BY DEF SentBars, Blocks, Opposite
    <2>1. CASE e \in sent
      <3>1. PICK m \in markets : m.t >= e[2] /\ Blocks(m, q)
        BY <1>1, <2>1 DEF SideInv, SentBars
      <3>2. m \in LiveMarkets /\ e[1] \in Salts
        BY <2>1, <3>1, ClockFact DEF SentInv, LiveMarkets, Fresh
      <3>3. PICK k \in markets' : k.t >= m.t /\ Blocks(k, q)
        BY <1>2, <1>11, <2>1, <3>1, <3>2
      <3>4. k.t \in Nat /\ m.t \in Nat /\ e[2] \in Nat
        <4>1. \A x \in markets' : x.t \in Nat
          <5>1. \A x \in markets' : x.t \in 0 .. now
            BY <1>1 DEF TypeInv
          <5> QED
            BY <5>1, ClockFact
        <4> QED
          BY <2>1, <4>1, ClockFact
      <3> QED
        BY <3>1, <3>3, <3>4
    <2>2. CASE e \notin sent
      BY <1>5, <1>6, <1>12, <2>2
    <2> QED
      BY <2>1, <2>2
  <1>14. RowBars'
    <2> SUFFICES ASSUME NEW r \in Copies', NEW q \in Salts, r.slot.t = now, Opposite(q, r.salt),
                        r \in file \/ LaneOf[q] \notin latched'
                 PROVE \E k \in markets' : Fresh(k.t) /\ Blocks(k, q)
      BY <1>1 DEF RowBars, Blocks, Opposite, LiveMarkets, Fresh
    <2>0. \A x \in markets' : x.t \in Nat
      <3>1. \A x \in markets' : x.t \in 0 .. now
        BY <1>1 DEF TypeInv
      <3> QED
        BY <3>1, ClockFact
    <2>1. CASE r \in Copies
      <3>1. PICK m \in LiveMarkets : Blocks(m, q)
        BY <1>1, <1>5, <2>1 DEF SideInv, RowBars
      <3>2. r.salt \in Salts /\ Fresh(m.t) /\ m.t \in Nat
        BY <2>1, ClockFact DEF Copies, LiveMarkets
      <3>3. PICK k \in markets' : k.t >= m.t /\ Blocks(k, q)
        BY <1>2, <1>11, <2>1, <3>1, <3>2
      <3> QED
        BY <2>0, <3>2, <3>3, ClockFact DEF Fresh
    <2>2. CASE r \notin Copies
      <3>1. r = row /\ r.salt = s
        BY <1>3, <1>4, <2>2
      <3>2. r \notin file
        BY <1>3, <2>2, <3>1 DEF Copies, AllRows
      <3>3. LaneOf[q] = LaneOf[s]
        BY <3>1 DEF Opposite
      <3>4. markets' = Owned(s)
        BY <1>5, <3>2, <3>3
      <3>5. PICK k \in markets' : k.t >= now /\ Blocks(k, q)
        BY <1>12, <3>1, <3>4
      <3> QED
        BY <2>0, <3>5, ClockFact DEF Fresh
    <2> QED
      BY <2>1, <2>2
  <1> QED
    BY <1>7, <1>8, <1>9, <1>10, <1>13, <1>14 DEF SideInv

\* A release: the order it is of was sent within the TTL, so its market is still its own.
LEMMA ReleaseSide ==
  ASSUME TypeInv, RowInv, SentInv, SideInv, NEW s \in Salts, NEW t \in 0 .. now,
         NEW n \in 1 .. OrderSize, Release(s, t, n)
  PROVE SideInv'
  <1> DEFINE row == ReleaseRow(s, Back(s, n))
  <1>1. /\ UNCHANGED <<wal, sent, markets, now, up, latched>> /\ <<s, t>> \in sent /\ Fresh(t)
        /\ t \in Nat /\ t <= now
    <2>1. /\ UNCHANGED <<wal, sent, markets, now, up, latched>> /\ t \in Times /\ bought[s][t] > 0
      <3>1. n \in Nat /\ n > 0 /\ n <= bought[s][t] /\ t \in Times
        BY ReleaseTakes
      <3>2. bought[s][t] \in Nat
        BY <3>1 DEF TypeInv
      <3> QED
        BY <3>1, <3>2, ReleaseTakes
    <2>2. t \in Nat /\ t <= now
      BY ClockFact
    <2> QED
      BY <2>1, <2>2 DEF SentInv
  <1>2. \/ file' = file
        \/ /\ AllRows' = AllRows \cup {row} /\ file' = file \cup {row}
           /\ row.salt = s /\ row.slot.t = now
    <2>1. file' = file \/ file' = file \cup {row}
      BY DEF Release, Back
    <2>2. orders[s] \in SlotType
      BY DEF TypeInv
    <2>3. row.salt = s /\ row.slot.t = now
      BY <2>2 DEF ReleaseRow, Row, SlotType
    <2> QED
      BY <1>1, <2>1, <2>3 DEF AllRows
  <1> HIDE DEF row
  <1>3. \A r \in AllRows' : r \in AllRows \/ (r.salt = s /\ r.slot.t = now)
    BY <1>1, <1>2 DEF AllRows
  <1>4. AllRows \subseteq AllRows' /\ (\A r \in AllRows : r \in file' => r \in file \/ (r.salt = s /\ r.slot.t = now))
    BY <1>1, <1>2 DEF AllRows
  <1>5. Copies \subseteq Copies' /\ \A r \in Copies' : r \in Copies \/ (r.salt = s /\ r.slot.t = now)
    BY <1>3, <1>4 DEF Copies
  <1>6. \A e \in sent : ~Opposite(s, e[1])
    <2> SUFFICES ASSUME NEW e \in sent, Opposite(s, e[1]) PROVE FALSE
      OBVIOUS
    <2>1. LET a == <<s, t>> IN a[2] - e[2] >= TTL \/ e[2] - a[2] >= TTL
      BY <1>1 DEF SideInv, OneSidePerMarket, Opposite
    <2>2. now - t < TTL /\ now - e[2] < TTL /\ e[2] \in Nat /\ e[2] <= now
      BY <1>1, ClockFact DEF SentInv, Fresh
    <2> QED
      BY <1>1, <2>1, <2>2, ClockFact
  <1>7. OnDisk'
    BY <1>1, <1>5 DEF SideInv, OnDisk
  <1>8. Older'
    BY <1>1, <1>5, <1>6 DEF SideInv, Older, Opposite, Fresh
  <1>9. \A q \in Copies : q.slot.t = now => ~Opposite(q.salt, s)
    <2> SUFFICES ASSUME NEW q \in Copies, q.slot.t = now, Opposite(q.salt, s) PROVE FALSE
      OBVIOUS
    <2>1. LET e == <<s, t>> IN q.slot.t < e[2] \/ ~Fresh(q.slot.t)
      BY <1>1 DEF SideInv, Older
    <2> QED
      BY <1>1, <2>1, ClockFact
  <1>10. Apart'
    BY <1>1, <1>5, <1>9 DEF SideInv, Apart, Opposite
  <1>11. SentBars' /\ OneSidePerMarket'
    BY <1>1 DEF SideInv, SentBars, OneSidePerMarket, Blocks, Opposite
  <1>12. RowBars'
    <2> SUFFICES ASSUME up, NEW r \in Copies', NEW q \in Salts, r.slot.t = now, Opposite(q, r.salt),
                        r \in file' \/ LaneOf[q] \notin latched
                 PROVE \E m \in LiveMarkets : Blocks(m, q)
      BY <1>1 DEF RowBars, Blocks, Opposite, LiveMarkets, Fresh
    <2>1. CASE r.salt = s
      <3>1. LET e == <<s, t>> IN \E m \in markets : m.t >= e[2] /\ Blocks(m, q)
        BY <1>1, <2>1 DEF SideInv, SentBars
      <3> QED
        BY <1>1, <3>1, ClockFact DEF LiveMarkets, Fresh
    <2>2. CASE r.salt # s
      BY <1>4, <1>5, <2>2 DEF SideInv, RowBars, Copies
    <2> QED
      BY <2>1, <2>2
  <1> QED
    BY <1>7, <1>8, <1>10, <1>11, <1>12 DEF SideInv

\* At boot a row that no row of the other side is as late as keeps the other side out: of
\* its market the latest row wins, and that one is of its own side.
LEMMA BootBars ==
  ASSUME TypeInv, RowInv, markets' \in ReplayedMarkets, NEW r \in Copies, r \in Rows,
         \A q \in Copies : q \in Rows /\ Opposite(q.salt, r.salt) => q.slot.t < r.slot.t,
         NEW s \in Salts, Opposite(s, r.salt)
  PROVE \E m \in markets' : m.t >= r.slot.t /\ Blocks(m, s)
  <1> DEFINE c == Entry(r.salt, r.lane, r.slot.t, r.slot.token)
             ts == {k.t : k \in {j \in Claims : Rival(j, c)}}
  <1>1. \A k \in Claims : \E q \in Rows :
          /\ q \in Copies /\ k.salt = q.salt /\ k.lane = q.lane /\ k.cond = CondOf[q.salt]
          /\ k.t = q.slot.t /\ k.token = q.slot.token
    BY DEF Claims, Entry, Copies, Rows, AllRows
  <1>2. c \in Claims /\ c.t = r.slot.t /\ c.lane = r.lane /\ c.cond = CondOf[r.salt]
    BY DEF Claims, Entry, Copies
  <1> HIDE DEF c
  <1>3. now \in Nat /\ \A k \in Claims : k.t \in 0 .. now
    BY <1>1, ClockFact DEF Copies
  <1>4. ts \subseteq 0 .. now /\ c.t \in ts
    BY <1>2, <1>3 DEF Rival
  <1>5. PICK last \in ts : \A u \in ts : last >= u
    <2> HIDE DEF ts
    <2> QED
      BY <1>3, <1>4, LargestExists
  <1>6. PICK l \in Claims : Rival(l, c) /\ l.t = last
    BY <1>5
  <1>7. l \in Latest
    <2>1. ASSUME NEW k \in Claims, Rival(l, k) PROVE k.t <= l.t
      <3>1. Rival(k, c)
        BY <1>6, <2>1 DEF Rival
      <3>2. k.t \in ts
        BY <3>1
      <3> QED
        BY <1>3, <1>5, <1>6, <3>2
    <2> QED
      BY <2>1 DEF Latest
  <1>8. PICK m \in markets' : {j \in markets' : Rival(j, l)} = {m}
    BY <1>7 DEF ReplayedMarkets
  <1>9. m \in Latest /\ Rival(m, l)
    BY <1>8 DEF ReplayedMarkets
  <1>10. m.lane = r.lane /\ m.cond = CondOf[r.salt] /\ m.t >= r.slot.t /\ m \in Claims
    <2>1. m.lane = r.lane /\ m.cond = CondOf[r.salt] /\ m \in Claims
      BY <1>2, <1>6, <1>9 DEF Rival, Latest
    <2>2. Rival(m, c)
      BY <1>6, <1>9 DEF Rival
    <2> QED
      BY <1>2, <1>9, <2>1, <2>2 DEF Latest
  <1>11. PICK q \in Rows : /\ q \in Copies /\ m.salt = q.salt /\ m.lane = q.lane
                           /\ m.cond = CondOf[q.salt] /\ m.t = q.slot.t /\ m.token = q.slot.token
    BY <1>1, <1>10
  <1>12. ~Opposite(q.salt, r.salt)
    <2>1. q.slot.t \in Nat /\ r.slot.t \in Nat
      BY <1>11, ClockFact DEF Copies
    <2> QED
      BY <1>10, <1>11, <2>1
  <1>13. /\ q.lane \in {NoLane, LaneOf[q.salt]} /\ q.slot.token \in {NoToken, TokenOf[q.salt]}
         /\ q.slot.token # NoToken => q.lane = LaneOf[q.salt]
         /\ r.lane \in {NoLane, LaneOf[r.salt]} /\ q.salt \in Salts /\ r.salt \in Salts
    BY <1>11, ClockFact DEF RowInv, Copies
  <1>14. m.salt # s
    BY <1>11, <1>12
  <1>15. m.cond = CondOf[s] /\ m.lane \in {NoLane, LaneOf[s]}
    BY <1>10, <1>13 DEF Opposite
  <1>16. m.token = NoToken \/ m.token # TokenOf[s]
    <2> SUFFICES ASSUME m.token # NoToken, m.token = TokenOf[s] PROVE FALSE
      OBVIOUS
    <2>1. TokenOf[q.salt] = TokenOf[s] /\ q.lane = LaneOf[q.salt]
      BY <1>11, <1>13
    <2>2. NoLane # LaneOf[q.salt]
      BY <1>13, GuardAssumption DEF Lanes
    <2>3. LaneOf[q.salt] = LaneOf[r.salt] /\ CondOf[q.salt] = CondOf[r.salt]
      BY <1>10, <1>11, <1>13, <2>1, <2>2
    <2> QED
      BY <1>12, <2>1, <2>3 DEF Opposite
  <1> QED
    BY <1>10, <1>14, <1>15, <1>16 DEF Blocks

\* A boot.
LEMMA BootSide ==
  ASSUME TypeInv, RowInv, SentInv, SideInv, Boot
  PROVE SideInv'
  <1>1. /\ Rows = {r \in AllRows : Fresh(r.slot.t)} /\ AllRows' \subseteq AllRows
        /\ \A r \in AllRows : Fresh(r.slot.t) => r \in AllRows'
        /\ now' = now /\ sent' = sent /\ latched' = latched /\ markets' \in ReplayedMarkets
    BY BootFact
  <1>2. Copies' \subseteq Copies /\ \A r \in Copies : Fresh(r.slot.t) => r \in Copies'
    BY <1>1 DEF Copies
  <1>3. ASSUME NEW e \in sent
        PROVE \E r \in Copies : r \in Rows /\ r.salt = e[1] /\ r.slot.t >= e[2]
    <2>1. PICK r \in Copies : r.salt = e[1] /\ r.slot.t >= e[2]
      BY DEF SideInv, OnDisk
    <2>2. Fresh(r.slot.t)
      BY <2>1, ClockFact DEF SentInv, Fresh, Copies
    <2> QED
      BY <1>1, <2>1, <2>2 DEF Copies
  <1>4. OnDisk'
    BY <1>1, <1>2, <1>3 DEF OnDisk
  <1>5. Older' /\ Apart' /\ OneSidePerMarket'
    BY <1>1, <1>2 DEF SideInv, Older, Apart, OneSidePerMarket, Opposite, Fresh
  <1>6. SentBars'
    <2> SUFFICES ASSUME NEW e \in sent, NEW s \in Salts, Opposite(s, e[1])
                 PROVE \E m \in markets' : m.t >= e[2] /\ Blocks(m, s)
      BY <1>1 DEF SentBars, Blocks, Opposite
    <2>1. PICK r \in Copies : r \in Rows /\ r.salt = e[1] /\ r.slot.t >= e[2]
      BY <1>3
    <2>2. ASSUME NEW q \in Copies, q \in Rows, Opposite(q.salt, r.salt) PROVE q.slot.t < r.slot.t
      <3>1. q.slot.t < e[2]
        BY <1>1, <2>1, <2>2 DEF SideInv, Older
      <3> QED
        BY <2>1, <3>1, ClockFact DEF Copies
    <2>3. PICK m \in markets' : m.t >= r.slot.t /\ Blocks(m, s)
      BY <1>1, <2>1, <2>2, BootBars
    <2>4. m.t \in Nat
      <3>1. \A k \in Claims : k.t \in Nat
        BY ClockFact DEF Claims, Entry, Rows, AllRows
      <3> QED
        BY <1>1, <2>3, <3>1 DEF ReplayedMarkets, Latest
    <2> QED
      BY <2>1, <2>3, <2>4, ClockFact DEF Copies
  <1>7. RowBars'
    <2> SUFFICES ASSUME NEW r \in Copies, NEW s \in Salts, r.slot.t = now, Opposite(s, r.salt)
                 PROVE \E m \in markets' : Fresh(m.t) /\ Blocks(m, s)
      BY <1>1, <1>2 DEF RowBars, Blocks, Opposite, LiveMarkets, Fresh
    <2>1. r \in Rows
      BY <1>1, ClockFact DEF Copies
    <2>2. ASSUME NEW q \in Copies, q \in Rows, Opposite(q.salt, r.salt) PROVE q.slot.t < r.slot.t
      <3>1. q.slot.t # r.slot.t
        BY <2>2 DEF SideInv, Apart
      <3> QED
        BY <3>1, ClockFact DEF Copies
    <2>3. PICK m \in markets' : m.t >= r.slot.t /\ Blocks(m, s)
      BY <1>1, <2>1, <2>2, BootBars
    <2>4. m.t \in Nat
      <3>1. \A k \in Claims : k.t \in Nat
        BY ClockFact DEF Claims, Entry, Rows, AllRows
      <3> QED
        BY <1>1, <2>3, <3>1 DEF ReplayedMarkets, Latest
    <2> QED
      BY <2>3, <2>4, ClockFact DEF Fresh
  <1> QED
    BY <1>4, <1>5, <1>6, <1>7 DEF SideInv

\* The legacy rows are of different markets.
LEMMA InitSideInv == Init => SideInv
  <1> SUFFICES ASSUME Init PROVE SideInv
    OBVIOUS
  <1>1. /\ ~up /\ sent = {<<s, 0>> : s \in Legacy}
        /\ \A r \in Copies : \E s \in Legacy : r = LegacyRow(s)
    BY DEF Init, Copies, AllRows
  <1>2. \A s \in Legacy : LegacyRow(s).salt = s /\ LegacyRow(s) \in Copies /\ LegacyRow(s).slot.t = 0
    <2>1. \A s \in Legacy : LegacyRow(s) \in AllRows
      BY DEF Init, AllRows
    <2> DEFINE one == [NoSlot EXCEPT !.his = 1, !.copied = 1]
    <2>2. \A s : LegacyRow(s).salt = s /\ LegacyRow(s).slot = one
      BY DEF LegacyRow, Row
    <2>3. one.t = 0 /\ one.copied = 1
      BY DEF NoSlot
    <2> HIDE DEF one
    <2> QED
      BY <2>1, <2>2, <2>3 DEF Copies
  <1>3. \A p, q \in Legacy : ~Opposite(p, q)
    BY LegacyAssumption DEF Opposite
  <1>4. OnDisk
    BY <1>1, <1>2 DEF OnDisk
  <1>5. Older /\ Apart
    BY <1>1, <1>2, <1>3 DEF Older, Apart
  <1>6. OneSidePerMarket
    BY <1>1, <1>3 DEF OneSidePerMarket, Opposite
  <1> QED
    BY <1>1, <1>4, <1>5, <1>6 DEF SideInv, SentBars, RowBars

\* Every step keeps it.
LEMMA NextSideInv ==
  ASSUME InTime, Sound
  PROVE TypeInv /\ RowInv /\ SentInv /\ SideInv /\ [Next]_vars => SideInv'
  <1> SUFFICES ASSUME TypeInv, RowInv, SentInv, SideInv, [Next]_vars PROVE SideInv'
    OBVIOUS
  <1>0. TypeInv' /\ SentInv'
    BY NextForm, NextSentInv
  <1>1. ASSUME NEW s \in Salts, NEW f \in 1 .. OrderSize, Observe(s, f) PROVE SideInv'
    <2>1. /\ markets' = LiveMarkets
          /\ UNCHANGED <<now, up, file, wal, sent, latched>>
      BY <1>1 DEF Observe, disk
    <2>2. UNCHANGED <<AllRows, Copies>> /\ LiveMarkets' = LiveMarkets
      BY <2>1 DEF AllRows, Copies, LiveMarkets, Fresh
    <2>3. OnDisk' /\ Older' /\ Apart' /\ OneSidePerMarket' /\ RowBars'
      BY <2>1, <2>2
      DEF SideInv, OnDisk, Older, Apart, OneSidePerMarket, RowBars, Blocks, Opposite, Fresh
    <2>4. SentBars'
      BY <2>1, ClockFact DEF SideInv, SentInv, SentBars, LiveMarkets, Blocks, Opposite, Fresh
    <2> QED
      BY <2>3, <2>4 DEF SideInv
  <1>2. ASSUME NEW s \in Salts, NEW f \in 1 .. OrderSize, NEW n \in 1 .. OrderSize,
               Commit(s, f, n) \/ CommitFails(s, f, n)
        PROVE SideInv'
    BY <1>0, <1>2, CommitSide
  <1>3. ASSUME NEW s \in Salts, NEW t \in 0 .. now, NEW n \in 1 .. OrderSize, Release(s, t, n)
        PROVE SideInv'
    BY <1>3, ReleaseSide
  <1>4. ASSUME NEW lane \in Lanes, ClearIncident(lane) PROVE SideInv'
    <2>1. UNCHANGED <<now, up, file, wal, sent, markets>> /\ wal = {} /\ AllRows = file
      BY <1>4 DEF ClearIncident, table, disk, AllRows
    <2>2. UNCHANGED <<AllRows, Copies, LiveMarkets>> /\ Copies \subseteq file
      BY <2>1 DEF AllRows, Copies, LiveMarkets, Fresh
    <2> QED
      BY <2>1, <2>2 DEF SideInv, OnDisk, Older, Apart, OneSidePerMarket, SentBars, RowBars, Blocks,
         Opposite, Fresh
  <1>5. CASE Tick
    <2>1. /\ now' = now + 1 /\ UNCHANGED <<up, file, wal, markets, latched>>
          /\ sent' \subseteq sent
      BY <1>5 DEF Tick, table, disk
    <2>2. UNCHANGED <<AllRows, Copies>>
      BY <2>1 DEF AllRows, Copies
    <2>3. \A r \in Copies : /\ ~Fresh(r.slot.t) => ~Fresh(r.slot.t)'
                           /\ r.slot.t # now'
      BY <2>1, ClockFact DEF Copies, Fresh
    <2>4. OnDisk' /\ Apart' /\ OneSidePerMarket' /\ SentBars'
      BY <2>1, <2>2 DEF SideInv, OnDisk, Apart, OneSidePerMarket, SentBars, Blocks, Opposite
    <2>5. Older' /\ RowBars'
      BY <2>1, <2>2, <2>3 DEF SideInv, Older, RowBars, Opposite
    <2> QED
      BY <2>4, <2>5 DEF SideInv
  <1>6. CASE Crash
    <2>1. UNCHANGED <<now, file, wal, sent>> /\ ~up'
      BY <1>6 DEF Crash
    <2>2. UNCHANGED <<AllRows, Copies>>
      BY <2>1 DEF AllRows, Copies
    <2> QED
      BY <2>1, <2>2 DEF SideInv, OnDisk, Older, Apart, OneSidePerMarket, SentBars, RowBars,
         Opposite, Fresh
  <1>7. CASE Boot
    BY <1>7, BootSide
  <1>8. CASE UNCHANGED vars
    <2>1. UNCHANGED <<now, up, file, wal, sent, markets, latched>>
      BY <1>8 DEF vars, table, disk
    <2>2. UNCHANGED <<AllRows, Copies, LiveMarkets>>
      BY <2>1 DEF AllRows, Copies, LiveMarkets, Fresh
    <2> QED
      BY <2>1, <2>2 DEF SideInv, OnDisk, Older, Apart, OneSidePerMarket, SentBars, RowBars, Blocks,
         Opposite, Fresh
  <1> QED
    BY <1>1, <1>2, <1>3, <1>4, <1>5, <1>6, <1>7, <1>8 DEF Next, Signal, Settle

\* The three together.
LEMMA SideInvariants ==
  ASSUME InTime, Sound
  PROVE Spec => [](TypeInv /\ RowInv /\ SentInv /\ SideInv)
  <1>1. Init => TypeInv /\ RowInv /\ SentInv /\ SideInv
    BY InitForm, InitSentInv, InitSideInv
  <1>2. TypeInv /\ RowInv /\ SentInv /\ SideInv /\ [Next]_vars
        => (TypeInv /\ RowInv /\ SentInv /\ SideInv)'
    BY NextForm, NextSentInv, NextSideInv
  <1> QED
    BY <1>1, <1>2, PTL DEF Spec

\* No lane ever buys both sides of a market within the TTL, whatever dies in between
\* (market_gate, commit_with and open_absorbing of signal_guard.rs).
THEOREM OneSideCorrect == ASSUME InTime, Sound PROVE Spec => []OneSidePerMarket
  <1>1. SideInv => OneSidePerMarket
    BY DEF SideInv
  <1> QED
    BY <1>1, SideInvariants, PTL

-----------------------------------------------------------------------------
(* What was bought of an order.                                              *)

\* There are finitely many seconds.
LEMMA TimesFinite == IsFiniteSet(Times)
  <1>1. 0 \in Int /\ MaxTime \in Int
    BY BoundFact
  <1>2. IsFiniteSet(0 .. MaxTime)
    BY <1>1, FS_Interval
  <1> QED
    BY <1>2 DEF Times

\* All that was bought and is remembered counts.
LEMMA BoughtSum ==
  ASSUME TypeInv, SentInv, NEW s \in Salts
  PROVE BoughtOf(s) = SumFunctionOnSet(bought[s], Times)
  <1>1. ASSUME NEW t \in Times PROVE Recent(s)[t] = bought[s][t]
    <2>1. bought[s][t] \in Nat
      BY DEF TypeInv
    <2>2. bought[s][t] > 0 => Fresh(t)
      BY DEF SentInv
    <2>3. bought[s][t] = 0 \/ Fresh(t)
      BY <2>1, <2>2
    <2> QED
      BY <2>3 DEF Recent
  <1> QED
    BY <1>1, TimesFinite, SumSame DEF BoughtOf

\* It is a natural, and positive only when something was bought.
LEMMA BoughtFact ==
  ASSUME TypeInv, SentInv, NEW s \in Salts
  PROVE /\ BoughtOf(s) \in Nat
        /\ BoughtOf(s) = 0 \/ \E t \in Times : bought[s][t] > 0
  <1>1. BoughtOf(s) = SumFunctionOnSet(bought[s], Times)
    BY BoughtSum
  <1>2. \A t \in Times : bought[s][t] \in Nat
    BY DEF TypeInv
  <1>3. BoughtOf(s) \in Nat
    BY <1>1, <1>2, TimesFinite, SumNat
  <1>4. ASSUME \A t \in Times : ~(bought[s][t] > 0) PROVE BoughtOf(s) = 0
    <2>1. \A t \in Times : bought[s][t] = 0
      BY <1>2, <1>4
    <2> QED
      BY <1>1, <2>1, TimesFinite, SumZero
  <1> QED
    BY <1>3, <1>4

\* The two facts as one, of any state.
LEMMA BoughtSums ==
  TypeInv /\ SentInv =>
    \A q \in Salts : BoughtOf(q) = SumFunctionOnSet(bought[q], Times) /\ BoughtOf(q) \in Nat
  BY BoughtSum, BoughtFact

\* A change of one second's term changes the sum by as much.
LEMMA TermChanges ==
  ASSUME NEW f, NEW g, NEW t \in Times,
         \A u \in Times : f[u] \in Int /\ g[u] \in Int, \A u \in Times \ {t} : f[u] = g[u]
  PROVE SumFunctionOnSet(g, Times) = SumFunctionOnSet(f, Times) + (g[t] - f[t])
  BY TimesFinite, SumUpdate

\* So many shares more or less of an order and a second.
More(b, s, t, n) == [b EXCEPT ![s][t] = @ + n]
Less(b, s, t, n) == [b EXCEPT ![s][t] = @ - n]

\* The sums of an order are as many more, or less.
SumsMove(b, s, t, n, q) ==
  /\ SumFunctionOnSet(More(b, s, t, n)[q], Times) =
       SumFunctionOnSet(b[q], Times) + (IF q = s THEN n ELSE 0)
  /\ SumFunctionOnSet(Less(b, s, t, n)[q], Times) =
       SumFunctionOnSet(b[q], Times) - (IF q = s THEN n ELSE 0)

\* What the sum becomes when one of its terms changes.
LEMMA SumMoves ==
  ASSUME NEW b \in [Salts -> [Times -> Nat]], NEW s \in Salts, NEW t \in Times, NEW n \in Nat,
         NEW q \in Salts
  PROVE SumsMove(b, s, t, n, q)
  <1> USE DEF SumsMove
  <1> DEFINE f == b[q]
             more == More(b, s, t, n)
             less == Less(b, s, t, n)
             g == more[q]
             h == less[q]
  <1>1. SumFunctionOnSet(f, Times) \in Nat
    BY TimesFinite, SumNat
  <1>2. CASE q # s
    BY <1>1, <1>2 DEF More, Less
  <1>3. CASE q = s
    <2>1. /\ \A u \in Times \ {t} : f[u] = g[u]
          /\ \A u \in Times \ {t} : f[u] = h[u]
          /\ \A u \in Times : f[u] \in Int /\ g[u] \in Int
          /\ \A u \in Times : f[u] \in Int /\ h[u] \in Int
          /\ g[t] = f[t] + n /\ h[t] = f[t] - n
      BY <1>3 DEF More, Less
    <2> HIDE DEF f, g, h
    <2>2. SumFunctionOnSet(g, Times) = SumFunctionOnSet(f, Times) + (g[t] - f[t])
      BY <2>1, TermChanges
    <2>3. SumFunctionOnSet(h, Times) = SumFunctionOnSet(f, Times) + (h[t] - f[t])
      BY <2>1, TermChanges
    <2>4. /\ SumFunctionOnSet(g, Times) = SumFunctionOnSet(f, Times) + n
          /\ SumFunctionOnSet(h, Times) = SumFunctionOnSet(f, Times) - n
      BY <1>1, <2>1, <2>2, <2>3
    <2> QED
      BY <1>3, <2>4 DEF f, g, h
  <1> QED
    BY <1>2, <1>3

\* What is bought, given back and forgotten moves the sums.
LEMMA BoughtMoves ==
  ASSUME TypeInv, SentInv, TypeInv', SentInv'
  PROVE /\ \A s \in Salts : BoughtOf(s) \in Nat /\ BoughtOf(s)' \in Nat
        /\ \A s \in Salts, t \in Times, n \in Nat, q \in Salts :
             /\ bought' = More(bought, s, t, n) =>
                  BoughtOf(q)' = BoughtOf(q) + (IF q = s THEN n ELSE 0)
             /\ bought' = Less(bought, s, t, n) =>
                  BoughtOf(q)' = BoughtOf(q) - (IF q = s THEN n ELSE 0)
        /\ bought' = bought => \A q \in Salts : BoughtOf(q)' = BoughtOf(q)
        /\ (\A q \in Salts, t \in Times : bought'[q][t] <= bought[q][t]) =>
             \A q \in Salts : BoughtOf(q)' <= BoughtOf(q)
  <1>1. \A q \in Salts : BoughtOf(q) = SumFunctionOnSet(bought[q], Times) /\ BoughtOf(q) \in Nat
    BY BoughtSum, BoughtFact
  <1>3. (TypeInv /\ SentInv =>
          \A q \in Salts : BoughtOf(q) = SumFunctionOnSet(bought[q], Times) /\ BoughtOf(q) \in Nat)'
    BY BoughtSums, PTL
  <1>4. \A q \in Salts : /\ BoughtOf(q)' = SumFunctionOnSet(bought'[q], Times)
                         /\ BoughtOf(q)' \in Nat
    BY <1>3
  <1>5. bought \in [Salts -> [Times -> Nat]] /\ bought' \in [Salts -> [Times -> Nat]]
    BY DEF TypeInv
  <1>6. ASSUME NEW s \in Salts, NEW t \in Times, NEW n \in Nat, NEW q \in Salts
        PROVE /\ bought' = More(bought, s, t, n) =>
                   BoughtOf(q)' = BoughtOf(q) + (IF q = s THEN n ELSE 0)
              /\ bought' = Less(bought, s, t, n) =>
                   BoughtOf(q)' = BoughtOf(q) - (IF q = s THEN n ELSE 0)
    <2>1. \A b \in [Salts -> [Times -> Nat]] : SumsMove(b, s, t, n, q)
      BY SumMoves
    <2> QED
      BY <1>1, <1>4, <1>5, <2>1, Zenon DEF SumsMove
  <1>7. bought' = bought => \A q \in Salts : BoughtOf(q)' = BoughtOf(q)
    BY <1>1, <1>4, Zenon
  <1>8. ASSUME \A q \in Salts, t \in Times : bought'[q][t] <= bought[q][t], NEW q \in Salts
        PROVE BoughtOf(q)' <= BoughtOf(q)
    <2> DEFINE f == bought'[q]
               g == bought[q]
    <2>1. \A t \in Times : f[t] \in Int /\ g[t] \in Int /\ f[t] <= g[t]
      BY <1>5, <1>8
    <2> HIDE DEF f, g
    <2>2. SumFunctionOnSet(f, Times) <= SumFunctionOnSet(g, Times)
      BY <2>1, TimesFinite, SumLe
    <2> QED
      BY <1>1, <1>4, <2>2, Zenon DEF f, g
  <1> QED
    BY <1>1, <1>4, <1>6, <1>7, <1>8

\* What every proof below needs of rows and slots.
LEMMA CountForm ==
  ASSUME TypeInv, RowInv
  PROVE /\ now \in Nat /\ Fresh(now)
        /\ \A r \in AllRows : /\ r.slot.t \in Nat /\ r.slot.t <= now
                            /\ r.slot.copied \in Nat /\ r.slot.released \in Nat
                            /\ r.slot.released <= r.slot.copied
        /\ \A q \in Salts : /\ orders[q].copied \in Nat /\ orders[q].released \in Nat
                          /\ orders[q].t \in Nat /\ orders[q].t <= now
                          /\ orders[q].released <= orders[q].copied
        /\ \A q \in Salts : LiveOrders[q].copied \in Nat /\ LiveOrders[q].released \in Nat
        /\ \A t, u \in Nat : Fresh(t) /\ t <= u => Fresh(u)
        /\ \A q \in Salts, t \in Times : bought[q][t] \in Nat /\ t \in Nat
  <1>1. now \in Nat /\ Fresh(now)
    BY ClockFact
  <1>2. \A x \in SlotType : x.t \in Nat /\ x.t <= now /\ x.copied \in Nat /\ x.released \in Nat
    BY <1>1, BoundFact DEF SlotType
  <1>3. \A r \in AllRows : r.slot.released <= r.slot.copied
    BY DEF RowInv
  <1>4. \A q \in Salts : orders[q] \in SlotType /\ orders[q].released <= orders[q].copied
    BY DEF TypeInv, RowInv
  <1>5. \A q \in Salts : LiveOrders[q] \in SlotType
    BY LiveFact
  <1>6. \A t, u \in Nat : Fresh(t) /\ t <= u => Fresh(u)
    BY <1>1, ClockFact DEF Fresh
  <1>7. \A q \in Salts, t \in Times : bought[q][t] \in Nat /\ t \in Nat
    BY BoundFact DEF TypeInv, Times
  <1> QED
    BY <1>1, <1>2, <1>3, <1>4, <1>5, <1>6, <1>7, ClockFact

\* When the slot of an order expires, everything the order bought has expired before.
LEMMA LiveKnown ==
  ASSUME TypeInv, RowInv, SentInv, TableKnows, up, NEW s \in Salts
  PROVE KnownBy(LiveOrders[s], s) /\ LiveOrders[s].copied <= orders[s].copied
  <1>1. KnownBy(orders[s], s)
    BY DEF TableKnows
  <1>2. CASE Fresh(orders[s].t)
    BY <1>1, <1>2, LiveFact, CountForm
  <1>3. CASE ~Fresh(orders[s].t)
    <2>1. LiveOrders[s].copied = 0 /\ LiveOrders[s].released = 0 /\ LiveOrders[s].t = 0
      BY <1>3, LiveFact DEF NoSlot
    <2>2. \A t \in Times : ~(bought[s][t] > 0)
      BY <1>1, <1>3, CountForm DEF KnownBy, SentInv
    <2>3. \A r \in AllRows : r.salt = s => ~Fresh(r.slot.t)
      BY <1>1, <1>3, CountForm DEF KnownBy
    <2>4. BoughtOf(s) = 0
      BY <2>2, BoughtFact
    <2> QED
      BY <2>1, <2>2, <2>3, <2>4, CountForm DEF KnownBy
  <1> QED
    BY <1>2, <1>3

\* Every share that was bought is outstanding by what a replay reads.
LEMMA ReplayKnows ==
  ASSUME TypeInv, RowInv, SentInv, DiskKnows, NEW s \in Salts
  PROVE KnownBy(ReplayedSlot(s), s)
  <1> DEFINE slot == ReplayedSlot(s)
  <1>1. /\ slot.copied \in Nat /\ slot.released \in Nat /\ slot.t \in Nat
        /\ slot.released <= slot.copied
        /\ \A r \in Mine(s) : r.slot.t <= slot.t /\ r.slot.copied <= slot.copied
                            /\ r.slot.released <= slot.released
    <2>1. slot \in SlotType /\ slot.released <= slot.copied
      BY ReplayedFact
    <2>2. \A r \in Mine(s) : r.slot.t <= slot.t /\ r.slot.copied <= slot.copied
                            /\ r.slot.released <= slot.released
      BY ReplayedFact
    <2> HIDE DEF slot
    <2> QED
      BY <2>1, <2>2, BoundFact, CountForm DEF SlotType
  <1>2. slot.released = 0 \/ \E r \in Mine(s) : r.slot.released = slot.released
    <2>1. /\ Mine(s) = {} => slot.copied = 0
          /\ Mine(s) # {} => \E r \in Mine(s) : r.slot.released = slot.released
      BY ReplayedFact
    <2> HIDE DEF slot
    <2> QED
      BY <1>1, <2>1
  <1> HIDE DEF slot
  <1>3. \A r : r \in Mine(s) <=> r \in AllRows /\ r.salt = s /\ Fresh(r.slot.t)
    BY DEF Mine, Rows, AllRows
  <1>4. \A t \in Times : bought[s][t] > 0 => t <= slot.t
    <2> SUFFICES ASSUME NEW t \in Times, bought[s][t] > 0 PROVE t <= slot.t
      OBVIOUS
    <2>1. PICK r \in AllRows : r.salt = s /\ r.slot.t >= t
      BY DEF DiskKnows
    <2>2. r \in Mine(s)
      BY <1>3, <2>1, CountForm DEF SentInv
    <2> QED
      BY <1>1, <2>1, <2>2, CountForm
  <1>5. BoughtOf(s) + slot.released <= slot.copied
    <2>1. CASE BoughtOf(s) = 0
      BY <1>1, <2>1
    <2>2. CASE \E t \in Times : bought[s][t] > 0
      <3>1. PICK t \in Times : bought[s][t] > 0
        BY <2>2
      <3>2. PICK r \in AllRows :
              /\ r.salt = s /\ r.slot.t >= t
              /\ \A q \in AllRows : q.salt = s /\ Fresh(q.slot.t) =>
                   q.slot.copied <= r.slot.copied /\ BoughtOf(s) + q.slot.released <= r.slot.copied
        BY <3>1 DEF DiskKnows
      <3>3. r \in Mine(s)
        BY <1>3, <3>1, <3>2, CountForm DEF SentInv
      <3>4. BoughtOf(s) \in Nat /\ r.slot.copied \in Nat /\ r.slot.released \in Nat
        BY BoughtFact, CountForm
      <3>5. BoughtOf(s) + r.slot.released <= r.slot.copied /\ r.slot.copied <= slot.copied
        BY <1>1, <1>3, <3>2, <3>3
      <3>6. BoughtOf(s) <= r.slot.copied
        BY <3>4, <3>5
      <3>7. CASE slot.released = 0
        BY <1>1, <3>4, <3>5, <3>6, <3>7
      <3>8. CASE \E q \in Mine(s) : q.slot.released = slot.released
        <4>1. PICK q \in Mine(s) : q.slot.released = slot.released
          BY <3>8
        <4>2. BoughtOf(s) + q.slot.released <= r.slot.copied
          BY <1>3, <3>2, <4>1
        <4> QED
          BY <1>1, <3>4, <3>5, <4>1, <4>2
      <3> QED
        BY <1>2, <3>7, <3>8
    <2> QED
      BY <2>1, <2>2, BoughtFact
  <1> QED
    BY <1>1, <1>3, <1>4, <1>5 DEF KnownBy, slot

\* What is observed of an order takes nothing from what its slot knows.
LEMMA ObservedKnown ==
  ASSUME TypeInv, RowInv, SentInv, TableKnows, up, NEW s \in Salts, NEW f \in 1 .. OrderSize,
         NEW q \in Salts
  PROVE /\ KnownBy(Observed(s, f)[q], q) /\ Observed(s, f)[q].copied <= orders[q].copied
        /\ Observed(s, f)[q].copied = LiveOrders[q].copied
        /\ Observed(s, f)[q].released = LiveOrders[q].released
  <1>1. KnownBy(LiveOrders[q], q) /\ LiveOrders[q].copied <= orders[q].copied
    BY LiveKnown
  <1>2. /\ Observed(s, f)[s].t = now
        /\ Observed(s, f)[s].copied = LiveOrders[s].copied
        /\ Observed(s, f)[s].released = LiveOrders[s].released
    BY ObservedFact
  <1>3. q # s => Observed(s, f)[q] = LiveOrders[q]
    <2>1. LET slot == Observed(s, f)[s] IN Observed(s, f) = [LiveOrders EXCEPT ![s] = slot]
      BY ObservedFact
    <2> QED
      BY <2>1 DEF LiveOrders
  <1>4. \A t \in Times : bought[q][t] > 0 => t <= now
    BY DEF SentInv
  <1> QED
    BY <1>1, <1>2, <1>3, <1>4, CountForm DEF KnownBy

\* A commitment is one row and one slot: both know of what it bought.
LEMMA CommitCount ==
  ASSUME TypeInv, RowInv, SentInv, CountInv, TypeInv', RowInv', SentInv',
         NEW s \in Salts, NEW f \in 1 .. OrderSize, NEW n \in 1 .. OrderSize, Commit(s, f, n)
  PROVE CountInv'
  <1> DEFINE row == NewRow(s, f, n)
             live == LiveOrders[s]
  <1>1. /\ row \in RowType /\ row.salt = s /\ row.slot.t = now
        /\ row.slot.copied = live.copied + n
        /\ row.slot.released = live.released
        /\ live.copied - live.released + n <= OrderSize
        /\ row.slot = Committed(Observed(s, f)[s], s, n)
        /\ walTail = "clean" => AllRows' = AllRows \cup {row}
    BY CommitFact
  <1>2. /\ up /\ LaneOf[s] \notin latched /\ up' = up /\ now' = now /\ file' = file
        /\ latched' = latched /\ bought' = More(bought, s, now, n)
        /\ orders' = [Observed(s, f) EXCEPT ![s] = Committed(Observed(s, f)[s], s, n)]
    BY DEF Commit, More
  <1>3. n \in Nat /\ n >= 1 /\ now \in Times
    BY BoundFact DEF TypeInv
  <1>4. AllRows' = AllRows \cup {row}
    <2>1. LaneOf[s] \in Lanes
      BY DEF Lanes
    <2> QED
      BY <1>1, <1>2, <2>1 DEF SentInv
  <1>5. /\ orders'[s] = row.slot
        /\ \A q \in Salts : q # s => orders'[q] = Observed(s, f)[q]
    <2>1. Observed(s, f) \in [Salts -> SlotType]
      BY ObservedFact
    <2> QED
      BY <1>1, <1>2, <2>1
  <1>6. /\ \A q \in Salts : BoughtOf(q) \in Nat /\ BoughtOf(q)' \in Nat
        /\ BoughtOf(s)' = BoughtOf(s) + n
        /\ \A q \in Salts : q # s => BoughtOf(q)' = BoughtOf(q)
    BY <1>2, <1>3, BoughtMoves
  <1>7. \A q \in Salts : KnownBy(Observed(s, f)[q], q) /\ Observed(s, f)[q].copied <= orders[q].copied
    BY <1>2, ObservedKnown DEF CountInv
  <1>8. KnownBy(live, s) /\ live.copied \in Nat /\ live.released \in Nat
    BY <1>2, LiveKnown, CountForm DEF CountInv
  <1> HIDE DEF row, live
  <1>9. \A q \in AllRows : q.salt = s /\ Fresh(q.slot.t) =>
          q.slot.copied <= live.copied /\ q.slot.released <= live.released
    BY <1>2, <1>8 DEF KnownBy
  <1>10. BoughtOf(s) + live.released <= live.copied
    BY <1>8 DEF KnownBy
  <1>11. \A t : Fresh(t)' = Fresh(t)
    BY <1>2 DEF Fresh
  <1>12. \A q \in Salts, t \in Times : q # s => bought'[q][t] = bought[q][t]
    BY <1>2 DEF TypeInv, More
  <1>13. TableKnows'
    <2>1. KnownBy(orders[s], s)'
      <3>1. BoughtOf(s)' + row.slot.released <= row.slot.copied
        BY <1>1, <1>3, <1>6, <1>8, <1>10
      <3>2. \A t \in Times : bought'[s][t] > 0 => t <= row.slot.t
        BY <1>1, <1>2 DEF SentInv
      <3>3. \A r \in AllRows' : r.salt = s /\ Fresh(r.slot.t) =>
              /\ r.slot.t <= row.slot.t /\ r.slot.released <= row.slot.released
              /\ r.slot.copied <= row.slot.copied
        BY <1>1, <1>3, <1>4, <1>8, <1>9, CountForm
      <3> QED
        BY <1>5, <1>11, <3>1, <3>2, <3>3 DEF KnownBy
    <2>2. ASSUME NEW q \in Salts, q # s PROVE KnownBy(orders[q], q)'
      BY <1>1, <1>2, <1>4, <1>5, <1>6, <1>7, <1>11, <1>12, <2>2 DEF KnownBy
    <2> QED
      BY <2>1, <2>2 DEF TableKnows
  <1>14. DiskKnows'
    <2> SUFFICES ASSUME NEW q \in Salts, NEW t \in Times, bought'[q][t] > 0
                 PROVE \E r \in AllRows' :
                   /\ r.salt = q /\ r.slot.t >= t
                   /\ up' => orders'[q].copied <= r.slot.copied
                   /\ \A p \in AllRows' : p.salt = q /\ Fresh(p.slot.t) =>
                        /\ p.slot.copied <= r.slot.copied
                        /\ BoughtOf(q)' + p.slot.released <= r.slot.copied
      BY <1>11 DEF DiskKnows
    <2>1. CASE q = s
      <3>1. row \in AllRows' /\ row.salt = q /\ row.slot.t >= t
        BY <1>1, <1>2, <1>4, <2>1, CountForm DEF SentInv
      <3>2. orders'[q].copied <= row.slot.copied
        BY <1>1, <1>3, <1>5, <1>8, <2>1
      <3>3. ASSUME NEW p \in AllRows', p.salt = s, Fresh(p.slot.t)
            PROVE /\ p.slot.copied <= row.slot.copied
                  /\ BoughtOf(s)' + p.slot.released <= row.slot.copied
        <4>1. CASE p = row
          BY <1>1, <1>3, <1>6, <1>8, <1>10, <4>1
        <4>2. CASE p \in AllRows
          <5>1. p.slot.copied <= live.copied /\ p.slot.released <= live.released
            BY <1>9, <3>3, <4>2
          <5> QED
            BY <1>1, <1>3, <1>6, <1>8, <1>10, <4>2, <5>1, CountForm
        <4> QED
          BY <1>4, <4>1, <4>2
      <3> QED
        BY <2>1, <3>1, <3>2, <3>3
    <2>2. CASE q # s
      <3>1. bought[q][t] > 0
        BY <1>12, <2>2
      <3>2. PICK r \in AllRows :
              /\ r.salt = q /\ r.slot.t >= t /\ orders[q].copied <= r.slot.copied
              /\ \A p \in AllRows : p.salt = q /\ Fresh(p.slot.t) =>
                   p.slot.copied <= r.slot.copied /\ BoughtOf(q) + p.slot.released <= r.slot.copied
        BY <1>2, <3>1 DEF CountInv, DiskKnows
      <3>3. orders'[q].copied <= r.slot.copied
        <4>1. orders'[q].copied \in Nat /\ orders'[q].copied <= orders[q].copied
          BY <1>2, <1>5, <1>7, <2>2, ObservedKnown, CountForm DEF CountInv
        <4> QED
          BY <3>2, <4>1, CountForm
      <3> QED
        BY <1>1, <1>4, <1>6, <2>2, <3>2, <3>3
    <2> QED
      BY <2>1, <2>2
  <1>15. BoughtWithinOrder'
    <2>1. BoughtOf(s)' <= OrderSize
      BY <1>1, <1>3, <1>6, <1>8, <1>10, BoundFact
    <2> QED
      BY <1>6, <2>1 DEF CountInv, BoughtWithinOrder
  <1> QED
    BY <1>13, <1>14, <1>15 DEF CountInv

\* A commitment that fails may leave its row in the log: it then shows all that was bought,
\* and the table need not know of it, for its lane is halted.
LEMMA FailCount ==
  ASSUME TypeInv, RowInv, SentInv, CountInv, TypeInv', RowInv', SentInv',
         NEW s \in Salts, NEW f \in 1 .. OrderSize, NEW n \in 1 .. OrderSize, CommitFails(s, f, n)
  PROVE CountInv'
  <1> DEFINE row == NewRow(s, f, n)
             live == LiveOrders[s]
  <1>1. /\ row \in RowType /\ row.salt = s /\ row.slot.t = now
        /\ row.slot.copied = live.copied + n
        /\ row.slot.released = live.released
        /\ AllRows' \in {AllRows, AllRows \cup {row}}
    BY CommitFact
  <1>2. /\ up /\ LaneOf[s] \notin latched /\ up' = up /\ now' = now /\ file' = file
        /\ latched' = latched \cup {LaneOf[s]} /\ bought' = bought /\ orders' = Observed(s, f)
    BY DEF CommitFails
  <1>3. n \in Nat /\ n >= 1
    BY BoundFact
  <1>4. /\ \A q \in Salts : BoughtOf(q) \in Nat /\ BoughtOf(q)' \in Nat
        /\ \A q \in Salts : BoughtOf(q)' = BoughtOf(q)
    BY <1>2, BoughtMoves
  <1>5. \A q \in Salts : KnownBy(orders'[q], q) /\ orders'[q].copied <= orders[q].copied
    BY <1>2, ObservedKnown DEF CountInv
  <1>6. /\ orders'[s].copied = live.copied /\ orders'[s].released = live.released
        /\ orders'[s].t = now
    BY <1>2, ObservedKnown, ObservedFact DEF CountInv
  <1>7. KnownBy(live, s) /\ live.copied \in Nat /\ live.released \in Nat
    BY <1>2, LiveKnown, CountForm DEF CountInv
  <1> HIDE DEF row, live
  <1>8. \A q \in AllRows : q.salt = s /\ Fresh(q.slot.t) =>
          q.slot.copied <= live.copied /\ q.slot.released <= live.released
    BY <1>2, <1>7 DEF KnownBy
  <1>9. BoughtOf(s) + live.released <= live.copied
    BY <1>7 DEF KnownBy
  <1>10. \A t : Fresh(t)' = Fresh(t)
    BY <1>2 DEF Fresh
  <1>11. TableKnows'
    <2> SUFFICES ASSUME NEW q \in Salts PROVE KnownBy(orders[q], q)'
      BY DEF TableKnows
    <2>1. /\ BoughtOf(q)' + orders'[q].released <= orders'[q].copied
          /\ \A t \in Times : bought'[q][t] > 0 => t <= orders'[q].t
      BY <1>2, <1>4, <1>5 DEF KnownBy
    <2>2. ASSUME NEW r \in AllRows', r.salt = q, Fresh(r.slot.t)
          PROVE /\ r.slot.t <= orders'[q].t /\ r.slot.released <= orders'[q].released
                /\ r \in file' \/ LaneOf[q] \notin latched' => r.slot.copied <= orders'[q].copied
      <3>1. CASE r \in AllRows
        BY <1>2, <1>5, <2>2, <3>1 DEF KnownBy
      <3>2. CASE r = row /\ r \notin AllRows
        BY <1>1, <1>2, <1>6, <1>7, <2>2, <3>2, CountForm DEF AllRows
      <3> QED
        BY <1>1, <3>1, <3>2
    <2> QED
      BY <1>10, <2>1, <2>2 DEF KnownBy
  <1>12. DiskKnows'
    <2> SUFFICES ASSUME NEW q \in Salts, NEW t \in Times, bought[q][t] > 0
                 PROVE \E r \in AllRows' :
                   /\ r.salt = q /\ r.slot.t >= t
                   /\ orders'[q].copied <= r.slot.copied
                   /\ \A p \in AllRows' : p.salt = q /\ Fresh(p.slot.t) =>
                        /\ p.slot.copied <= r.slot.copied
                        /\ BoughtOf(q) + p.slot.released <= r.slot.copied
      BY <1>2, <1>4, <1>10 DEF DiskKnows
    <2>1. CASE q = s /\ row \in AllRows'
      <3>1. row.salt = q /\ row.slot.t >= t
        BY <1>1, <2>1, CountForm DEF SentInv
      <3>2. orders'[q].copied <= row.slot.copied
        BY <1>1, <1>3, <1>6, <1>7, <2>1
      <3>3. ASSUME NEW p \in AllRows', p.salt = s, Fresh(p.slot.t)
            PROVE /\ p.slot.copied <= row.slot.copied
                  /\ BoughtOf(s) + p.slot.released <= row.slot.copied
        <4>1. CASE p = row
          BY <1>1, <1>3, <1>4, <1>7, <1>9, <4>1
        <4>2. CASE p \in AllRows
          <5>1. p.slot.copied <= live.copied /\ p.slot.released <= live.released
            BY <1>8, <3>3, <4>2
          <5> QED
            BY <1>1, <1>3, <1>4, <1>7, <1>9, <4>2, <5>1, CountForm
        <4> QED
          BY <1>1, <4>1, <4>2
      <3> QED
        BY <2>1, <3>1, <3>2, <3>3
    <2>2. CASE q # s \/ row \notin AllRows'
      <3>1. PICK r \in AllRows :
              /\ r.salt = q /\ r.slot.t >= t /\ orders[q].copied <= r.slot.copied
              /\ \A p \in AllRows : p.salt = q /\ Fresh(p.slot.t) =>
                   p.slot.copied <= r.slot.copied /\ BoughtOf(q) + p.slot.released <= r.slot.copied
        BY <1>2 DEF CountInv, DiskKnows
      <3>2. orders'[q].copied <= r.slot.copied
        <4>1. orders'[q].copied \in Nat /\ orders'[q].copied <= orders[q].copied
          BY <1>2, <1>5, ObservedKnown, CountForm DEF CountInv
        <4> QED
          BY <3>1, <4>1, CountForm
      <3>3. AllRows \subseteq AllRows' /\ \A p \in AllRows' : p.salt = q => p \in AllRows
        BY <1>1, <2>2
      <3> QED
        BY <3>1, <3>2, <3>3
    <2> QED
      BY <2>1, <2>2
  <1> QED
    BY <1>4, <1>11, <1>12 DEF CountInv, BoughtWithinOrder

\* What is given back leaves as much as it takes.
LEMMA ReleaseCount ==
  ASSUME TypeInv, RowInv, SentInv, CountInv, TypeInv', RowInv', SentInv',
         NEW s \in Salts, NEW t \in 0 .. now, NEW n \in 1 .. OrderSize, Release(s, t, n)
  PROVE CountInv'
  <1> DEFINE back == Back(s, n)
             row == ReleaseRow(s, back)
  <1>1. /\ n \in Nat /\ n > 0 /\ n <= bought[s][t] /\ t \in Times
        /\ bought' = Less(bought, s, t, n)
        /\ UNCHANGED <<wal, now, up, latched>>
    BY ReleaseTakes DEF Less
  <1>2. up /\ up'
    BY <1>1 DEF Release
  <1>3. back \in Nat /\ back <= n /\ orders[s].released + back <= orders[s].copied
    BY ReleaseFact
  <1>4. \/ orders' = orders /\ file' = file
        \/ /\ file' = file \cup {row} /\ AllRows' = AllRows \cup {row}
           /\ orders' = [orders EXCEPT ![s].released = @ + back, ![s].t = now]
    <2>1. \/ orders' = orders /\ file' = file
          \/ /\ file' = file \cup {row}
             /\ orders' = [orders EXCEPT ![s].released = @ + back, ![s].t = now]
      BY DEF Release, Back
    <2>2. file' = file \cup {row} => AllRows' = AllRows \cup {row}
      BY <1>1 DEF AllRows
    <2> QED
      BY <2>1, <2>2
  <1>5. /\ row.salt = s /\ row.slot.t = now /\ row.slot.copied = orders[s].copied
        /\ row.slot.released = orders[s].released + back
    <2>1. orders[s] \in SlotType
      BY DEF TypeInv
    <2> HIDE DEF back
    <2> QED
      BY <2>1 DEF ReleaseRow, Row, SlotType
  <1>6. \/ orders' = orders /\ file' = file
        \/ /\ file' = file \cup {row} /\ AllRows' = AllRows \cup {row}
           /\ orders'[s].t = now /\ orders'[s].copied = orders[s].copied
           /\ orders'[s].released = orders[s].released + back
           /\ \A q \in Salts : q # s => orders'[q] = orders[q]
    <2>1. orders \in [Salts -> SlotType]
      BY DEF TypeInv
    <2> HIDE DEF back, row
    <2> QED
      BY <1>4, <2>1 DEF SlotType
  <1> HIDE DEF back, row
  <1>7. /\ \A q \in Salts : BoughtOf(q) \in Nat /\ BoughtOf(q)' \in Nat
        /\ BoughtOf(s)' = BoughtOf(s) - n
        /\ \A q \in Salts : q # s => BoughtOf(q)' = BoughtOf(q)
    BY <1>1, BoughtMoves
  <1>8. \A q \in Salts, u \in Times : bought'[q][u] > 0 => bought[q][u] > 0
    <2>1. \A q \in Salts, u \in Times : bought'[q][u] = bought[q][u] \/ (q = s /\ u = t)
      BY <1>1 DEF TypeInv, Less
    <2>2. bought[s][t] > 0
      BY <1>1, CountForm
    <2> QED
      BY <2>1, <2>2
  <1>9. \A u : Fresh(u)' = Fresh(u)
    BY <1>1 DEF Fresh
  <1>10. \A q \in Salts : KnownBy(orders[q], q)
    BY <1>2 DEF CountInv, TableKnows
  <1>11. BoughtOf(s) + orders[s].released <= orders[s].copied
    BY <1>10 DEF KnownBy
  <1>12. TableKnows'
    <2> SUFFICES ASSUME NEW q \in Salts PROVE KnownBy(orders[q], q)'
      BY DEF TableKnows
    <2>1. CASE orders' = orders /\ file' = file
      <3>1. AllRows' = AllRows
        BY <1>1, <2>1 DEF AllRows
      <3>2. BoughtOf(q)' + orders[q].released <= orders[q].copied
        BY <1>1, <1>7, <1>10, CountForm DEF KnownBy
      <3> QED
        BY <1>1, <1>8, <1>9, <1>10, <2>1, <3>1, <3>2 DEF KnownBy
    <2>2. CASE /\ file' = file \cup {row} /\ AllRows' = AllRows \cup {row}
               /\ orders'[s].t = now /\ orders'[s].copied = orders[s].copied
               /\ orders'[s].released = orders[s].released + back
               /\ \A p \in Salts : p # s => orders'[p] = orders[p]
      <3>1. CASE q = s
        <4>1. BoughtOf(s)' + orders'[s].released <= orders'[s].copied
          BY <1>1, <1>3, <1>7, <1>11, <2>2, CountForm
        <4>2. \A u \in Times : bought'[s][u] > 0 => u <= now
          BY <1>8 DEF SentInv
        <4>3. ASSUME NEW r \in AllRows', r.salt = s, Fresh(r.slot.t)
              PROVE /\ r.slot.t <= orders'[s].t /\ r.slot.released <= orders'[s].released
                    /\ r \in file' \/ LaneOf[s] \notin latched => r.slot.copied <= orders'[s].copied
          <5>1. CASE r = row
            BY <1>3, <1>5, <2>2, <5>1, CountForm
          <5>2. CASE r \in AllRows /\ r # row
            BY <1>3, <1>10, <2>2, <4>3, <5>2, CountForm DEF KnownBy
          <5> QED
            BY <2>2, <5>1, <5>2
        <4> QED
          BY <1>1, <1>9, <2>2, <3>1, <4>1, <4>2, <4>3 DEF KnownBy
      <3>2. CASE q # s
        BY <1>1, <1>5, <1>7, <1>8, <1>9, <1>10, <2>2, <3>2 DEF KnownBy
      <3> QED
        BY <3>1, <3>2
    <2> QED
      BY <1>6, <2>1, <2>2
  <1>13. DiskKnows'
    <2> SUFFICES ASSUME NEW q \in Salts, NEW u \in Times, bought'[q][u] > 0
                 PROVE \E r \in AllRows' :
                   /\ r.salt = q /\ r.slot.t >= u
                   /\ orders'[q].copied <= r.slot.copied
                   /\ \A p \in AllRows' : p.salt = q /\ Fresh(p.slot.t) =>
                        /\ p.slot.copied <= r.slot.copied
                        /\ BoughtOf(q)' + p.slot.released <= r.slot.copied
      BY <1>9 DEF DiskKnows
    <2>1. PICK r \in AllRows :
            /\ r.salt = q /\ r.slot.t >= u /\ orders[q].copied <= r.slot.copied
            /\ \A p \in AllRows : p.salt = q /\ Fresh(p.slot.t) =>
                 p.slot.copied <= r.slot.copied /\ BoughtOf(q) + p.slot.released <= r.slot.copied
      BY <1>2, <1>8 DEF CountInv, DiskKnows
    <2>2. orders'[q].copied = orders[q].copied /\ r \in AllRows'
      BY <1>1, <1>6 DEF AllRows
    <2>3. BoughtOf(q)' <= BoughtOf(q)
      BY <1>1, <1>7
    <2>4. ASSUME NEW p \in AllRows', p.salt = q, Fresh(p.slot.t)
          PROVE /\ p.slot.copied <= r.slot.copied
                /\ BoughtOf(q)' + p.slot.released <= r.slot.copied
      <3>1. CASE p \in AllRows
        BY <1>7, <2>1, <2>3, <2>4, <3>1, CountForm
      <3>2. CASE p = row /\ p \notin AllRows
        BY <1>1, <1>3, <1>5, <1>7, <1>11, <2>1, <2>4, <3>2, CountForm
      <3> QED
        BY <1>1, <1>6, <3>1, <3>2 DEF AllRows
    <2> QED
      BY <2>1, <2>2, <2>4
  <1>14. BoughtWithinOrder'
    BY <1>1, <1>7, BoundFact DEF CountInv, BoughtWithinOrder
  <1> QED
    BY <1>12, <1>13, <1>14 DEF CountInv

\* A boot keeps every row that a replay reads, and the table it makes knows of them all.
LEMMA BootCount ==
  ASSUME TypeInv, RowInv, SentInv, CountInv, TypeInv', SentInv', Boot
  PROVE CountInv'
  <1>1. /\ AllRows' \subseteq AllRows /\ \A r \in AllRows : Fresh(r.slot.t) => r \in AllRows'
        /\ now' = now /\ up' /\ bought' = bought
        /\ orders' = [q \in Salts |-> ReplayedSlot(q)]
    BY BootFact
  <1>2. /\ \A q \in Salts : BoughtOf(q) \in Nat /\ BoughtOf(q)' \in Nat
        /\ \A q \in Salts : BoughtOf(q)' = BoughtOf(q)
    BY <1>1, BoughtMoves
  <1>3. \A t : Fresh(t)' = Fresh(t)
    BY <1>1 DEF Fresh
  <1>4. \A q \in Salts : orders'[q] = ReplayedSlot(q) /\ KnownBy(orders'[q], q)
    BY <1>1, ReplayKnows DEF CountInv
  <1>5. \A q \in Salts, r \in AllRows : r.salt = q /\ Fresh(r.slot.t) => r \in Mine(q)
    BY DEF Mine, Rows, AllRows
  <1>6. TableKnows'
    <2> SUFFICES ASSUME NEW q \in Salts PROVE KnownBy(orders[q], q)'
      BY DEF TableKnows
    <2>1. \A r \in Mine(q) : r.slot.copied <= orders'[q].copied
      BY <1>4, ReplayedFact
    <2> QED
      BY <1>1, <1>2, <1>3, <1>4, <1>5, <2>1 DEF KnownBy
  <1>7. DiskKnows'
    <2> SUFFICES ASSUME NEW q \in Salts, NEW t \in Times, bought[q][t] > 0
                 PROVE \E r \in AllRows' :
                   /\ r.salt = q /\ r.slot.t >= t
                   /\ orders'[q].copied <= r.slot.copied
                   /\ \A p \in AllRows' : p.salt = q /\ Fresh(p.slot.t) =>
                        /\ p.slot.copied <= r.slot.copied
                        /\ BoughtOf(q) + p.slot.released <= r.slot.copied
      BY <1>1, <1>2, <1>3 DEF DiskKnows
    <2>1. PICK r \in AllRows :
            /\ r.salt = q /\ r.slot.t >= t
            /\ \A p \in AllRows : p.salt = q /\ Fresh(p.slot.t) =>
                 p.slot.copied <= r.slot.copied /\ BoughtOf(q) + p.slot.released <= r.slot.copied
      BY DEF CountInv, DiskKnows
    <2>2. r \in AllRows' /\ r \in Mine(q)
      BY <1>1, <1>5, <2>1, CountForm DEF SentInv
    <2>3. orders'[q].copied <= r.slot.copied
      <3>1. PICK p \in Mine(q) : p.slot.copied = ReplayedSlot(q).copied
        BY <2>2, ReplayedFact
      <3>2. p \in AllRows /\ p.salt = q /\ Fresh(p.slot.t)
        BY DEF Mine, Rows, AllRows
      <3> QED
        BY <1>4, <2>1, <3>1, <3>2
    <2> QED
      BY <1>1, <2>1, <2>2, <2>3
  <1> QED
    BY <1>2, <1>6, <1>7 DEF CountInv, BoughtWithinOrder

\* The initial states: a legacy row is for one share, and shows it.
LEMMA InitCountInv == Init => CountInv
  <1> SUFFICES ASSUME Init PROVE CountInv
    OBVIOUS
  <1>1. TypeInv /\ SentInv
    BY InitForm, InitSentInv
  <1>2. \A s \in Salts, t \in Times : bought[s][t] = IF s \in Legacy /\ t = 0 THEN 1 ELSE 0
    BY DEF Init
  <1>3. ASSUME NEW s \in Salts PROVE BoughtOf(s) = IF s \in Legacy THEN 1 ELSE 0
    <2> DEFINE zero == [t \in Times |-> 0]
               b == bought[s]
    <2>1. SumFunctionOnSet(zero, Times) = 0
      BY TimesFinite, SumZero
    <2>2. /\ \A t \in Times : zero[t] \in Int /\ b[t] \in Int
          /\ \A t \in Times \ {0} : zero[t] = b[t]
          /\ zero[0] = 0 /\ 0 \in Times /\ b[0] = IF s \in Legacy THEN 1 ELSE 0
      <3>1. 0 \in Times
        BY BoundFact DEF Times
      <3> QED
        BY <1>2, <3>1
    <2>3. BoughtOf(s) = SumFunctionOnSet(b, Times)
      BY <1>1, BoughtSum
    <2> HIDE DEF zero, b
    <2>4. SumFunctionOnSet(b, Times) = SumFunctionOnSet(zero, Times) + (b[0] - zero[0])
      BY <2>2, TermChanges
    <2> QED
      BY <2>1, <2>2, <2>3, <2>4
  <1>4. AllRows = {LegacyRow(s) : s \in Legacy} /\ up = FALSE
    BY DEF Init, AllRows
  <1>5. \A s : /\ LegacyRow(s).salt = s /\ LegacyRow(s).slot.t = 0
               /\ LegacyRow(s).slot.copied = 1 /\ LegacyRow(s).slot.released = 0
    BY DEF LegacyRow, Row, NoSlot
  <1>6. DiskKnows
    <2> SUFFICES ASSUME NEW s \in Salts, NEW t \in Times, bought[s][t] > 0
                 PROVE \E r \in AllRows :
                   /\ r.salt = s /\ r.slot.t >= t
                   /\ \A q \in AllRows : q.salt = s /\ Fresh(q.slot.t) =>
                        q.slot.copied <= r.slot.copied /\ BoughtOf(s) + q.slot.released <= r.slot.copied
      BY <1>4 DEF DiskKnows
    <2>1. s \in Legacy /\ t = 0
      BY <1>2
    <2>2. LegacyRow(s) \in AllRows
      BY <1>4, <2>1
    <2>3. \A q \in AllRows : q.slot.copied = 1 /\ q.slot.released = 0
      BY <1>4, <1>5
    <2>4. BoughtOf(s) = 1
      BY <1>3, <2>1
    <2> QED
      BY <1>5, <2>1, <2>2, <2>3, <2>4
  <1>7. BoughtWithinOrder
    BY <1>3, BoundFact DEF BoughtWithinOrder
  <1> QED
    BY <1>4, <1>6, <1>7 DEF CountInv, TableKnows

\* Every step keeps what disk and table know in step with what was bought.
LEMMA NextCountInv ==
  ASSUME InTime, Sound
  PROVE TypeInv /\ RowInv /\ SentInv /\ CountInv /\ [Next]_vars => CountInv'
  <1> SUFFICES ASSUME TypeInv, RowInv, SentInv, CountInv, [Next]_vars PROVE CountInv'
    OBVIOUS
  <1>0. TypeInv' /\ RowInv' /\ SentInv'
    BY NextForm, NextSentInv
  <1>1. ASSUME NEW s \in Salts, NEW f \in 1 .. OrderSize, Observe(s, f) PROVE CountInv'
    <2>1. /\ up /\ up' = up /\ orders' = Observed(s, f)
          /\ UNCHANGED <<now, file, wal, latched, bought>>
      BY <1>1 DEF Observe, disk
    <2>2. AllRows' = AllRows /\ \A t : Fresh(t)' = Fresh(t)
      BY <2>1 DEF AllRows, Fresh
    <2>3. \A q \in Salts : BoughtOf(q)' = BoughtOf(q)
      BY <1>0, <2>1, BoughtMoves
    <2>4. \A q \in Salts : KnownBy(orders'[q], q) /\ orders'[q].copied <= orders[q].copied
      BY <2>1, ObservedKnown DEF CountInv
    <2>5. TableKnows'
      <3> SUFFICES ASSUME NEW q \in Salts PROVE KnownBy(orders[q], q)'
        BY DEF TableKnows
      <3> QED
        BY <2>1, <2>2, <2>3, <2>4 DEF KnownBy
    <2>6. DiskKnows'
      <3> SUFFICES ASSUME NEW q \in Salts, NEW t \in Times, bought[q][t] > 0
                   PROVE \E r \in AllRows :
                     /\ r.salt = q /\ r.slot.t >= t /\ orders'[q].copied <= r.slot.copied
                     /\ \A p \in AllRows : p.salt = q /\ Fresh(p.slot.t) =>
                          /\ p.slot.copied <= r.slot.copied
                          /\ BoughtOf(q) + p.slot.released <= r.slot.copied
        BY <2>1, <2>2, <2>3 DEF DiskKnows
      <3>1. PICK r \in AllRows :
              /\ r.salt = q /\ r.slot.t >= t /\ orders[q].copied <= r.slot.copied
              /\ \A p \in AllRows : p.salt = q /\ Fresh(p.slot.t) =>
                   p.slot.copied <= r.slot.copied /\ BoughtOf(q) + p.slot.released <= r.slot.copied
        BY <2>1 DEF CountInv, DiskKnows
      <3>2. orders'[q].copied \in Nat /\ orders'[q].copied <= orders[q].copied
        BY <2>1, <2>4, ObservedKnown, CountForm DEF CountInv
      <3> QED
        BY <3>1, <3>2, CountForm
    <2> QED
      BY <2>3, <2>5, <2>6 DEF CountInv, BoughtWithinOrder
  <1>2. ASSUME NEW s \in Salts, NEW f \in 1 .. OrderSize, NEW n \in 1 .. OrderSize,
               Commit(s, f, n) \/ CommitFails(s, f, n)
        PROVE CountInv'
    BY <1>0, <1>2, CommitCount, FailCount
  <1>3. ASSUME NEW s \in Salts, NEW t \in 0 .. now, NEW n \in 1 .. OrderSize, Release(s, t, n)
        PROVE CountInv'
    BY <1>0, <1>3, ReleaseCount
  <1>4. CASE Boot
    BY <1>0, <1>4, BootCount
  <1>5. CASE Tick
    <2>1. UNCHANGED <<up, orders, file, wal, latched>> /\ now' = now + 1
      BY <1>5 DEF Tick, table, disk
    <2>2. AllRows' = AllRows
      BY <2>1 DEF AllRows
    <2>3. \A q \in Salts, t \in Times : bought'[q][t] <= bought[q][t]
      BY <1>5, CountForm DEF Tick
    <2>4. \A q \in Salts : BoughtOf(q)' <= BoughtOf(q) /\ BoughtOf(q) \in Nat /\ BoughtOf(q)' \in Nat
      BY <1>0, <2>3, BoughtMoves
    <2>5. \A q \in Salts, t \in Times : bought'[q][t] > 0 => bought[q][t] > 0
      BY <1>5 DEF Tick
    <2>6. \A r \in AllRows : Fresh(r.slot.t)' => Fresh(r.slot.t)
      BY <2>1, ClockFact DEF Fresh
    <2>7. TableKnows'
      <3> SUFFICES ASSUME up, NEW q \in Salts PROVE KnownBy(orders[q], q)'
        BY <2>1 DEF TableKnows
      <3>1. KnownBy(orders[q], q)
        BY DEF CountInv, TableKnows
      <3>2. BoughtOf(q)' + orders[q].released <= orders[q].copied
        BY <2>4, <3>1, CountForm DEF KnownBy
      <3> QED
        BY <2>1, <2>2, <2>5, <2>6, <3>1, <3>2 DEF KnownBy
    <2>8. DiskKnows'
      <3> SUFFICES ASSUME NEW q \in Salts, NEW t \in Times, bought'[q][t] > 0
                   PROVE \E r \in AllRows :
                     /\ r.salt = q /\ r.slot.t >= t /\ (up => orders[q].copied <= r.slot.copied)
                     /\ \A p \in AllRows : p.salt = q /\ Fresh(p.slot.t) =>
                          /\ p.slot.copied <= r.slot.copied
                          /\ BoughtOf(q)' + p.slot.released <= r.slot.copied
        BY <2>1, <2>2, <2>6 DEF DiskKnows
      <3>1. PICK r \in AllRows :
              /\ r.salt = q /\ r.slot.t >= t /\ (up => orders[q].copied <= r.slot.copied)
              /\ \A p \in AllRows : p.salt = q /\ Fresh(p.slot.t) =>
                   p.slot.copied <= r.slot.copied /\ BoughtOf(q) + p.slot.released <= r.slot.copied
        BY <2>5 DEF CountInv, DiskKnows
      <3>2. ASSUME NEW p \in AllRows, BoughtOf(q) + p.slot.released <= r.slot.copied
            PROVE BoughtOf(q)' + p.slot.released <= r.slot.copied
        BY <2>4, <3>2, CountForm
      <3> QED
        BY <3>1, <3>2
    <2> QED
      BY <2>4, <2>7, <2>8, BoundFact DEF CountInv, BoughtWithinOrder
  <1>6. ASSUME NEW lane \in Lanes, ClearIncident(lane) PROVE CountInv'
    <2>1. UNCHANGED <<now, up, orders, file, wal, bought>> /\ AllRows = file
      BY <1>6 DEF ClearIncident, table, disk, AllRows
    <2>2. AllRows' = AllRows /\ \A t : Fresh(t)' = Fresh(t)
      BY <2>1 DEF AllRows, Fresh
    <2>3. \A q \in Salts : BoughtOf(q)' = BoughtOf(q)
      BY <1>0, <2>1, BoughtMoves
    <2> QED
      BY <2>1, <2>2, <2>3 DEF CountInv, DiskKnows, TableKnows, KnownBy, BoughtWithinOrder
  <1>7. CASE Crash
    <2>1. UNCHANGED <<now, file, wal, bought>> /\ ~up'
      BY <1>7 DEF Crash
    <2>2. AllRows' = AllRows /\ \A t : Fresh(t)' = Fresh(t)
      BY <2>1 DEF AllRows, Fresh
    <2>3. \A q \in Salts : BoughtOf(q)' = BoughtOf(q)
      BY <1>0, <2>1, BoughtMoves
    <2> QED
      BY <2>1, <2>2, <2>3 DEF CountInv, DiskKnows, TableKnows, BoughtWithinOrder
  <1>8. CASE UNCHANGED vars
    <2>1. UNCHANGED <<now, up, orders, file, wal, latched, bought>>
      BY <1>8 DEF vars, table, disk
    <2>2. AllRows' = AllRows /\ \A t : Fresh(t)' = Fresh(t)
      BY <2>1 DEF AllRows, Fresh
    <2>3. \A q \in Salts : BoughtOf(q)' = BoughtOf(q)
      BY <1>0, <2>1, BoughtMoves
    <2> QED
      BY <2>1, <2>2, <2>3 DEF CountInv, DiskKnows, TableKnows, KnownBy, BoughtWithinOrder
  <1> QED
    BY <1>1, <1>2, <1>3, <1>4, <1>5, <1>6, <1>7, <1>8 DEF Next, Signal, Settle

\* The count part as an invariant of the specification.
LEMMA CountInvariants ==
  ASSUME InTime, Sound
  PROVE Spec => [](TypeInv /\ RowInv /\ SentInv /\ CountInv)
  <1>1. Init => TypeInv /\ RowInv /\ SentInv /\ CountInv
    BY InitForm, InitSentInv, InitCountInv
  <1>2. TypeInv /\ RowInv /\ SentInv /\ CountInv /\ [Next]_vars
        => (TypeInv /\ RowInv /\ SentInv /\ CountInv)'
    BY NextForm, NextSentInv, NextCountInv
  <1> QED
    BY <1>1, <1>2, PTL DEF Spec

\* No more of his order is bought within the TTL than its size, however often its fills are
\* observed (decide, commit_with and release of signal_guard.rs).
THEOREM BoughtCorrect == ASSUME InTime, Sound PROVE Spec => []BoughtWithinOrder
  <1>1. CountInv => BoughtWithinOrder
    BY DEF CountInv
  <1> QED
    BY <1>1, CountInvariants, PTL

\* A restart at any moment knows of every share bought within the TTL (open_absorbing of
\* signal_guard.rs), if the venue's answer comes within the TTL (InTime), and one lane trades or
\* no write fails (Sound).
THEOREM RestartCorrect == ASSUME InTime, Sound PROVE Spec => []RestartRemembers
  <1>1. TypeInv /\ RowInv /\ SentInv /\ CountInv => RestartRemembers
    <2> SUFFICES ASSUME TypeInv, RowInv, SentInv, CountInv, NEW s \in Salts
                 PROVE BoughtOf(s) <= Outstanding(ReplayedSlot(s))
      BY DEF RestartRemembers
    <2> DEFINE slot == ReplayedSlot(s)
    <2>1. slot \in SlotType /\ slot.released <= slot.copied
      BY ReplayedFact
    <2>2. BoughtOf(s) + slot.released <= slot.copied /\ BoughtOf(s) \in Nat
      BY ReplayKnows, BoughtFact DEF CountInv, KnownBy
    <2> HIDE DEF slot
    <2>3. slot.released \in Nat /\ slot.copied \in Nat
      BY <2>1, BoundFact DEF SlotType
    <2>4. BoughtOf(s) <= Outstanding(slot)
      BY <2>2, <2>3 DEF Outstanding
    <2> QED
      BY <2>4 DEF slot
  <1> QED
    BY <1>1, CountInvariants, PTL

-----------------------------------------------------------------------------
(* The calls.                                                                *)

\* An order signed at a price between nothing and one dollar.
Signable(o) ==
  /\ o.side \in {"buy", "sell"} /\ o.making \in Nat \ {0} /\ o.taking \in Nat \ {0}
  /\ IF o.side = "buy" THEN o.making < o.taking ELSE o.taking < o.making

\* A call of any makers, who trade the taker's token the other way round or the other token
\* the same way, for an offer that is worth something at the taker's price, or is one unit.
WellFormed(call) ==
  /\ \E n \in Nat : DOMAIN call.makers = 1 .. n
  /\ Signable(call.taker) /\ call.offered \in 1 .. call.taker.making
  /\ \A k \in DOMAIN call.makers :
       /\ Signable(call.makers[k]) /\ call.fills[k] \in Nat \ {0}
       /\ (call.makers[k].side # call.taker.side) = (call.makers[k].token = call.taker.token)
  /\ call.offered = 1 \/ TakingOf(call.taker, call.offered) > 0

Making(call) == SumFunctionOnSet([k \in DOMAIN call.makers |-> LegUse(call, k).making],
                                 DOMAIN call.makers)
Taking(call) == SumFunctionOnSet([k \in DOMAIN call.makers |-> LegUse(call, k).taking],
                                 DOMAIN call.makers)

\* What a fill takes is rounded down, at a price that is less than one dollar.
LEMMA TakingFacts ==
  ASSUME NEW o, Signable(o), NEW n \in Nat
  PROVE /\ TakingOf(o, n) \in Nat
        /\ o.side = "buy" => TakingOf(o, n) >= n
        /\ o.side = "sell" => TakingOf(o, n) <= n /\ (n = 1 => TakingOf(o, n) = 0)
  <1>1. PICK m \in Nat \ {0}, t \in Nat \ {0} : m = o.making /\ t = o.taking
    BY DEF Signable
  <1>2. PICK p \in Nat : p = n * t
    OBVIOUS
  <1>3. p \div m \in Nat /\ (p \div m) * m <= p /\ p < (p \div m) * m + m
    BY <1>2
  <1>4. PICK q \in Nat : q = p \div m
    BY <1>3
  <1>5. TakingOf(o, n) = q
    BY <1>1, <1>2, <1>4 DEF TakingOf
  <1>6. q * m <= n * t /\ n * t < q * m + m
    BY <1>2, <1>3, <1>4
  <1>7. ASSUME m < t PROVE q >= n
    <2>1. n * t >= n * m
      BY <1>7
    <2>2. SUFFICES ASSUME q + 1 <= n PROVE FALSE
      OBVIOUS
    <2>3. (q + 1) * m <= n * m
      BY <2>2
    <2>4. (q + 1) * m = q * m + m
      OBVIOUS
    <2> QED
      BY <1>6, <2>1, <2>3, <2>4
  <1>8. ASSUME t < m PROVE q <= n /\ (n = 1 => q = 0)
    <2>1. n * t <= n * m
      BY <1>8
    <2>2. ASSUME n + 1 <= q PROVE FALSE
      <3>1. (n + 1) * m <= q * m
        BY <2>2
      <3>2. (n + 1) * m = n * m + m
        OBVIOUS
      <3> QED
        BY <1>6, <2>1, <3>1, <3>2
    <2>3. ASSUME n = 1, q >= 1 PROVE FALSE
      <3>1. 1 * m <= q * m
        BY <2>3
      <3> QED
        BY <1>6, <1>8, <2>3, <3>1
    <2> QED
      BY <2>2, <2>3
  <1> QED
    BY <1>1, <1>5, <1>7, <1>8 DEF Signable

\* The legs of a well-formed call, which give and take naturals.
LEMMA LegFacts ==
  ASSUME NEW call, WellFormed(call)
  PROVE /\ IsFiniteSet(DOMAIN call.makers) /\ 0 \notin DOMAIN call.makers
        /\ \A k \in DOMAIN call.makers :
             /\ TakingOf(call.makers[k], call.fills[k]) \in Nat
             /\ LegUse(call, k).making \in Nat /\ LegUse(call, k).taking \in Nat
        /\ Making(call) \in Nat /\ Taking(call) \in Nat
  <1>1. IsFiniteSet(DOMAIN call.makers) /\ 0 \notin DOMAIN call.makers
    BY FS_Interval DEF WellFormed
  <1>2. ASSUME NEW k \in DOMAIN call.makers
        PROVE /\ TakingOf(call.makers[k], call.fills[k]) \in Nat
              /\ LegUse(call, k).making \in Nat /\ LegUse(call, k).taking \in Nat
    <2>1. PICK o, n : o = call.makers[k] /\ n = call.fills[k] /\ n \in Nat /\ Signable(o)
      BY DEF WellFormed
    <2>2. PICK pay \in Nat : /\ pay = TakingOf(o, n)
                             /\ o.side = "buy" => pay >= n
                             /\ o.side = "sell" => pay <= n
      BY <2>1, TakingFacts
    <2>3. o.side \in {"buy", "sell"}
      BY <2>1 DEF Signable
    <2>4. pay - n \in Int /\ n - pay \in Int
      BY <2>1
    <2> QED
      BY <2>1, <2>2, <2>3, <2>4 DEF LegUse
  <1>3. Making(call) \in Nat /\ Taking(call) \in Nat
    BY <1>1, <1>2, SumNat DEF Making, Taking
  <1> QED
    BY <1>1, <1>2, <1>3

\* What the exchange settles for the taker is what the legs use.
LEMMA TakerGotIs ==
  ASSUME NEW call, WellFormed(call)
  PROVE /\ TakerGot(call) = IF call.taker.side = "buy"
                            THEN [shares |-> Taking(call), cash |-> Making(call)]
                            ELSE [shares |-> Making(call), cash |-> Taking(call)]
        /\ Accepts(call) => Making(call) <= call.offered
  <1> DEFINE legs == DOMAIN call.makers
             shares == [k \in legs |-> Paid(call, k).shares]
             cash == [k \in legs |-> Paid(call, k).cash]
             making == [k \in legs |-> LegUse(call, k).making]
             taking == [k \in legs |-> LegUse(call, k).taking]
             Sum(f) == SumFunctionOnSet(f, legs)
  <1>1. /\ IsFiniteSet(legs) /\ Making(call) \in Nat /\ Taking(call) \in Nat
        /\ call.offered \in Nat
        /\ call.taker.side \in {"buy", "sell"}
    BY LegFacts DEF WellFormed, Signable
  <1>2. Making(call) = Sum(making) /\ Taking(call) = Sum(taking)
    BY DEF Making, Taking
  <1>3. ASSUME NEW k \in legs
        PROVE /\ making[k] \in Int /\ taking[k] \in Int
              /\ call.taker.side = "buy" => shares[k] = taking[k] /\ cash[k] = -making[k]
              /\ call.taker.side = "sell" => shares[k] = -making[k] /\ cash[k] = taking[k]
    <2>1. PICK o, n, pay : /\ o = call.makers[k] /\ n = call.fills[k] /\ n \in Nat
                           /\ pay = TakingOf(o, n) /\ pay \in Nat
                           /\ o.side \in {"buy", "sell"}
      BY LegFacts DEF WellFormed, Signable
    <2>2. n - pay = -(pay - n) /\ n - pay \in Int /\ pay - n \in Int
      BY <2>1
    <2> QED
      BY <1>1, <2>1, <2>2 DEF LegUse, Paid
  <1>4. Held(call) = [shares |-> PutIn(call).shares + Sum(shares),
                      cash |-> PutIn(call).cash + Sum(cash)]
    BY DEF Held
  <1> HIDE DEF legs, shares, cash, making, taking
  <1>5. ASSUME call.taker.side = "buy"
        PROVE Sum(shares) = Sum(taking) /\ Sum(cash) = -Sum(making)
    BY <1>1, <1>3, <1>5, SumSame, SumMinus
  <1>6. ASSUME call.taker.side = "sell"
        PROVE Sum(shares) = -Sum(making) /\ Sum(cash) = Sum(taking)
    BY <1>1, <1>3, <1>6, SumSame, SumMinus
  <1> HIDE DEF Sum
  <1>7. CASE call.taker.side = "buy"
    <2>1. Held(call) = [shares |-> Taking(call), cash |-> call.offered - Making(call)]
      BY <1>1, <1>2, <1>4, <1>5, <1>7 DEF PutIn
    <2>2. call.offered - (call.offered - Making(call)) = Making(call)
      BY <1>1
    <2>3. Accepts(call) => call.offered - Making(call) >= 0
      BY <2>1 DEF Accepts
    <2> QED
      BY <1>1, <1>7, <2>1, <2>2, <2>3 DEF TakerGot
  <1>8. CASE call.taker.side = "sell"
    <2>1. Held(call) = [shares |-> call.offered - Making(call), cash |-> Taking(call)]
      BY <1>1, <1>2, <1>4, <1>6, <1>8 DEF PutIn
    <2>2. call.offered - (call.offered - Making(call)) = Making(call)
      BY <1>1
    <2>3. Accepts(call) => call.offered - Making(call) >= 0
      BY <2>1 DEF Accepts
    <2> QED
      BY <1>1, <1>8, <2>1, <2>2, <2>3 DEF TakerGot
  <1> QED
    BY <1>1, <1>7, <1>8

\* No maker is filled beyond his order.
LEMMA FilledWithin ==
  ASSUME NEW call, WellFormed(call), Accepts(call), NEW k \in DOMAIN call.makers
  PROVE call.fills[k] <= call.makers[k].making
  <1> DEFINE o == call.makers[k]
             alike == {j \in DOMAIN call.makers : call.makers[j] = o}
  <1>1. IsFiniteSet(alike) /\ \A j \in alike : call.fills[j] \in Nat
    BY LegFacts, FS_Subset DEF WellFormed
  <1>2. SumFunctionOnSet(call.fills, {k}) <= SumFunctionOnSet(call.fills, alike)
    BY <1>1, SumPart
  <1>3. SumFunctionOnSet(call.fills, {k}) = call.fills[k]
    <2>1. SumFunctionOnSet(call.fills, {k})
            = call.fills[k] + SumFunctionOnSet(call.fills, {k} \ {k})
      <3>1. IsFiniteSet({k})
        BY FS_Singleton
      <3>2. call.fills[k] \in Int
        BY <1>1
      <3> QED
        BY <3>1, <3>2, SumSplit
    <2>2. {k} \ {k} = {}
      OBVIOUS
    <2> QED
      BY <1>1, <2>1, <2>2, SumEmpty
  <1>4. SumFunctionOnSet(call.fills, alike) <= o.making
    BY DEF Accepts, FilledOf, Range
  <1>5. /\ SumFunctionOnSet(call.fills, alike) \in Nat /\ o.making \in Nat
        /\ call.fills[k] \in Nat
    BY <1>1, SumNat DEF WellFormed, Signable
  <1> QED
    BY <1>2, <1>3, <1>4, <1>5

\* Of a maker's fill the reading has what the exchange settles, unless it is worth nothing.
LEMMA MakerRead ==
  ASSUME NEW call, WellFormed(call), Accepts(call), NEW k \in DOMAIN call.makers
  PROVE SharesAndCash(call.makers[k], call.fills[k]) =
          {f \in {MakerGot(call, k)} : f.shares > 0 /\ f.cash > 0}
  <1>1. PICK o, n : o = call.makers[k] /\ n = call.fills[k] /\ Signable(o) /\ n \in Nat
    BY DEF WellFormed
  <1>2. n <= o.making
    BY <1>1, FilledWithin
  <1>3. IF o.side = "buy" THEN Priced(o.making, o.taking) ELSE Priced(o.taking, o.making)
    BY <1>1 DEF Signable, Priced
  <1> QED
    BY <1>1, <1>2, <1>3 DEF SharesAndCash, MakerGot, Nothing

\* What the taker offers is worth something to the reading, or one unit that sells for
\* nothing.
LEMMA OfferRead ==
  ASSUME NEW call, WellFormed(call)
  PROVE \/ SharesAndCash(call.taker, call.offered) # Nothing
        \/ call.taker.side = "sell" /\ call.offered = 1
  <1>1. PICK o, n : o = call.taker /\ n = call.offered /\ Signable(o) /\ n \in Nat /\ n > 0
                    /\ n <= o.making
    BY DEF WellFormed, Signable
  <1>2. PICK pay \in Nat : pay = TakingOf(o, n) /\ (o.side = "buy" => pay >= n)
    BY <1>1, TakingFacts
  <1>3. IF o.side = "buy" THEN Priced(o.making, o.taking) ELSE Priced(o.taking, o.making)
    BY <1>1 DEF Signable, Priced
  <1>4. o.side \in {"buy", "sell"} /\ (n = 1 \/ pay > 0)
    BY <1>1, <1>2 DEF Signable, WellFormed
  <1>5. ASSUME pay > 0 PROVE SharesAndCash(o, n) # Nothing
    BY <1>1, <1>2, <1>3, <1>4, <1>5 DEF SharesAndCash, Nothing
  <1> QED
    BY <1>1, <1>2, <1>4, <1>5

\* The reading of the taker's legs is what the exchange settles, when both move.
LEMMA TakerRead ==
  ASSUME NEW call, WellFormed(call), Accepts(call)
  PROVE TakerExecution(call) =
          IF Making(call) > 0 /\ Taking(call) > 0 THEN {TakerGot(call)} ELSE Nothing
  <1> DEFINE legs == DOMAIN call.makers
             checked == IF Mixed(call) THEN call.offered ELSE Making(call)
             got == TakerGot(call)
             buys == call.taker.side = "buy"
  <1>1. \A k \in legs : Told(call, k)
    <2> TAKE k \in legs
    <2>1. call.fills[k] \in 1 .. call.makers[k].making
      BY FilledWithin DEF WellFormed, Signable
    <2>2. LegUse(call, k).making >= 0 /\ LegUse(call, k).taking >= 0
      BY LegFacts
    <2> QED
      BY <2>1, <2>2 DEF Told, WellFormed
  <1>2. /\ Making(call) \in Nat /\ Taking(call) \in Nat /\ Making(call) <= call.offered
        /\ call.offered \in Nat /\ call.taker.making \in Nat
        /\ call.offered <= call.taker.making
        /\ got = IF buys THEN [shares |-> Taking(call), cash |-> Making(call)]
                 ELSE [shares |-> Making(call), cash |-> Taking(call)]
    BY LegFacts, TakerGotIs DEF WellFormed, Signable
  <1>3. checked <= call.taker.making
    BY <1>2
  <1>4. Taking(call) >= TakingOf(call.taker, checked)
    BY <1>2 DEF Accepts
  <1>5. TakerExecution(call) =
          IF /\ \A k \in legs : Told(call, k)
             /\ Making(call) > 0 /\ Taking(call) > 0 /\ Making(call) <= call.offered
             /\ checked <= call.taker.making /\ Taking(call) >= TakingOf(call.taker, checked)
          THEN {IF buys THEN [shares |-> Taking(call), cash |-> Making(call)]
                ELSE [shares |-> Making(call), cash |-> Taking(call)]}
          ELSE Nothing
    BY DEF TakerExecution, Making, Taking
  <1> HIDE DEF got, checked, legs, buys
  <1> QED
    BY <1>1, <1>2, <1>3, <1>4, <1>5 DEF got

\* What counts of a settlement, as the reading tells it.
Counts(s) == s.fill.shares > 0 /\ s.fill.cash > 0 /\ (s.at = 0 => s.fill.cash < s.fill.shares)

\* As a taker he is read to have what is settled and counts.
LEMMA AsTakerRead ==
  ASSUME NEW call, WellFormed(call), Accepts(call)
  PROVE AsTaker(call, Him) =
          {s \in {[at |-> 0, fill |-> TakerGot(call)]} : call.taker.who = Him /\ Counts(s)}
  <1> DEFINE got == TakerGot(call)
             s == [at |-> 0, fill |-> got]
  <1>1. /\ Making(call) \in Nat /\ Taking(call) \in Nat /\ Making(call) <= call.offered
        /\ got = IF call.taker.side = "buy"
                 THEN [shares |-> Taking(call), cash |-> Making(call)]
                 ELSE [shares |-> Making(call), cash |-> Taking(call)]
    BY LegFacts, TakerGotIs
  <1>2. got.shares \in Nat /\ got.cash \in Nat
    BY <1>1
  <1>3. Counts(s) <=> Making(call) > 0 /\ Taking(call) > 0 /\ Priced(got.cash, got.shares)
    BY <1>1, <1>2 DEF Counts, Priced
  <1>4. {f \in TakerExecution(call) : Priced(f.cash, f.shares)} =
          IF Counts(s) THEN {got} ELSE {}
    BY <1>3, TakerRead DEF Nothing
  <1>5. ASSUME call.taker.side = "sell", call.offered = 1 PROVE ~Counts(s)
    <2>1. got.shares <= 1
      BY <1>1, <1>5
    <2> QED
      BY <1>2, <2>1 DEF Counts
  <1>6. CASE SharesAndCash(call.taker, call.offered) = Nothing
    BY <1>5, <1>6, OfferRead DEF AsTaker, Nothing
  <1>7. CASE SharesAndCash(call.taker, call.offered) # Nothing
    <2> HIDE DEF got
    <2>1. AsTaker(call, Him) =
            IF call.taker.who # Him THEN {}
            ELSE {[at |-> 0, fill |-> f] : f \in IF Counts(s) THEN {got} ELSE {}}
      BY <1>4, <1>7 DEF AsTaker, Nothing
    <2> QED
      BY <2>1 DEF got
  <1> QED
    BY <1>6, <1>7

\* As a maker too, each fill of his.
LEMMA AsMakerRead ==
  ASSUME NEW call, WellFormed(call), Accepts(call)
  PROVE AsMaker(call, Him) =
          {s \in {[at |-> k, fill |-> MakerGot(call, k)] :
                    k \in {k \in DOMAIN call.makers : call.makers[k].who = Him}} : Counts(s)}
  <1> DEFINE mine == {k \in DOMAIN call.makers : call.makers[k].who = Him}
             read(k) == {[at |-> k, fill |-> f] :
                           f \in SharesAndCash(call.makers[k], call.fills[k])}
             told(k) == [at |-> k, fill |-> MakerGot(call, k)]
  <1>1. AsMaker(call, Him) = UNION {read(k) : k \in mine}
    BY DEF AsMaker
  <1>2. ASSUME NEW k \in mine PROVE read(k) = {s \in {told(k)} : Counts(s)}
    <2>1. k # 0
      BY LegFacts
    <2>2. Counts(told(k)) <=> MakerGot(call, k).shares > 0 /\ MakerGot(call, k).cash > 0
      BY <2>1 DEF Counts
    <2>3. SharesAndCash(call.makers[k], call.fills[k]) =
            IF Counts(told(k)) THEN {MakerGot(call, k)} ELSE {}
      BY <2>2, MakerRead
    <2> QED
      BY <2>3
  <1> HIDE DEF read, told, mine
  <1>3. AsMaker(call, Him) = {s \in {told(k) : k \in mine} : Counts(s)}
    BY <1>1, <1>2
  <1> QED
    BY <1>3 DEF told, mine

\* A call is read as the exchange will settle it (calldata::decode_all), for any makers,
\* any prices, and any amounts.
THEOREM CallReadAsSettled ==
  ASSUME NEW call, WellFormed(call), Accepts(call) PROVE ReadAsSettled(call)
  <1> DEFINE made == {[at |-> k, fill |-> MakerGot(call, k)] :
                        k \in {k \in DOMAIN call.makers : call.makers[k].who = Him}}
             took == {[at |-> 0, fill |-> TakerGot(call)]}
             taken == IF call.taker.who = Him THEN took ELSE {}
  <1>1. Settled(call, Him) = made \cup taken
    BY DEF Settled
  <1>2. DecodeAll(call, Him) = {s \in made : Counts(s)} \cup
                               {s \in took : call.taker.who = Him /\ Counts(s)}
    BY AsMakerRead, AsTakerRead DEF DecodeAll
  <1> HIDE DEF made, took
  <1>3. DecodeAll(call, Him) = {s \in Settled(call, Him) : Counts(s)}
    BY <1>1, <1>2
  <1> QED
    BY <1>3 DEF ReadAsSettled, Counts

-----------------------------------------------------------------------------
(* The calls that are tried.                                                 *)

\* An order at one of the prices is of whom, on which side and in which token it is meant,
\* and two units of it are worth something.
LEMMA SignedFacts ==
  ASSUME NEW who, NEW side \in {"buy", "sell"}, NEW token, NEW o \in Signed(who, side, token)
  PROVE /\ Signable(o) /\ o.who = who /\ o.side = side /\ o.token = token
        /\ \A n \in Nat : n > 1 => TakingOf(o, n) > 0
  <1>1. PICK p \in Prices : o = IF side = "buy" THEN Order(who, side, token, p[1], p[2])
                                ELSE Order(who, side, token, p[2], p[1])
    BY DEF Signed
  <1>2. /\ p[1] \in Nat /\ p[2] \in Nat /\ 0 < p[1] /\ p[1] < p[2] /\ p[2] <= 2 * p[1]
    BY DEF Prices
  <1>3. /\ Signable(o) /\ o.who = who /\ o.side = side /\ o.token = token
        /\ o.making <= 2 * o.taking
    BY <1>1, <1>2 DEF Order, Signable
  <1>4. ASSUME NEW n \in Nat, n > 1 PROVE TakingOf(o, n) > 0
    <2>1. PICK m \in Nat \ {0}, t \in Nat \ {0} : m = o.making /\ t = o.taking /\ m <= 2 * t
      BY <1>3 DEF Signable
    <2>2. 2 * t <= n * t /\ n * t \in Nat
      BY <1>4
    <2>3. PICK q \in Nat : q = n * t /\ m <= q
      BY <2>1, <2>2
    <2>4. q \div m > 0
      BY <2>3
    <2> QED
      BY <2>1, <2>3, <2>4 DEF TakingOf
  <1> QED
    BY <1>3, <1>4

\* The makers that are tried can be matched, and all of one party's orders are the same.
LEMMA MakersTried ==
  ASSUME NEW who, NEW taker, taker.side \in {"buy", "sell"}, taker.token = "yes",
         NEW list \in Lists(who, taker)
  PROVE /\ \E n \in Nat : DOMAIN list = 1 .. n
        /\ \A k \in DOMAIN list :
             /\ Signable(list[k])
             /\ (list[k].side # taker.side) = (list[k].token = taker.token)
        /\ \E o : /\ o.who = who
                  /\ \A k \in DOMAIN list : list[k] = o \/ list[k].who = "them"
  <1> DEFINE fits(o) == (o.side # taker.side) = (o.token = taker.token)
             beside == {Order("them", "sell", "yes", 4, 2), Order("them", "buy", "no", 2, 4)}
             kept == {o \in beside : fits(o)}
  <1>1. ASSUME NEW o \in Makers(who, taker) PROVE Signable(o) /\ fits(o) /\ o.who = who
    <2>1. PICK side \in {"buy", "sell"} :
            o \in Signed(who, side, IF side = taker.side THEN Other(taker.token) ELSE taker.token)
      BY DEF Makers
    <2>2. /\ Signable(o) /\ o.who = who /\ o.side = side
          /\ o.token = IF side = taker.side THEN Other(taker.token) ELSE taker.token
      BY <2>1, SignedFacts
    <2> QED
      BY <2>2 DEF Other
  <1>2. ASSUME NEW p \in kept PROVE Signable(p) /\ fits(p) /\ p.who = "them"
    BY DEF Order, Signable
  <1>3. \/ \E o \in Makers(who, taker) : list = <<o>>
        \/ \E o \in Makers(who, taker) : list = <<o, o>>
        \/ \E o \in Makers(who, taker), p \in kept : list = <<o, p>>
    BY DEF Lists
  <1> HIDE DEF fits, beside, kept
  <1>4. PICK o \in Makers(who, taker) :
          list = <<o>> \/ list = <<o, o>> \/ \E p \in kept : list = <<o, p>>
    BY <1>3
  <1>5. Signable(o) /\ fits(o) /\ o.who = who
    BY <1>1
  <1>6. CASE list = <<o>>
    <2>1. DOMAIN list = 1 .. 1 /\ \A k \in DOMAIN list : list[k] = o
      BY <1>6
    <2> QED
      BY <1>5, <2>1 DEF fits
  <1>7. CASE list = <<o, o>>
    <2>1. DOMAIN list = 1 .. 2 /\ \A k \in DOMAIN list : list[k] = o
      BY <1>7
    <2> QED
      BY <1>5, <2>1 DEF fits
  <1>8. CASE \E p \in kept : list = <<o, p>>
    <2>1. PICK p \in kept : list = <<o, p>>
      BY <1>8
    <2>2. Signable(p) /\ fits(p) /\ p.who = "them"
      BY <1>2
    <2>3. DOMAIN list = 1 .. 2 /\ \A k \in DOMAIN list : list[k] = o \/ list[k] = p
      BY <2>1
    <2> QED
      BY <1>5, <2>2, <2>3 DEF fits
  <1> QED
    BY <1>4, <1>6, <1>7, <1>8

\* A call that is tried is well-formed, and he is its taker, or a maker with one order.
LEMMA CallFacts ==
  ASSUME NEW call \in Calls
  PROVE /\ WellFormed(call) /\ Accepts(call)
        /\ \/ call.taker.who = Him /\ \A k \in DOMAIN call.makers : call.makers[k].who # Him
           \/ /\ call.taker.who # Him
              /\ \E o : \A k \in DOMAIN call.makers :
                   call.makers[k].who = Him => call.makers[k] = o
  <1>0. call \in Tried(Him, "them") \/ call \in Tried("them", Him)
    BY DEF Calls
  <1>1. PICK taking, making :
          /\ (taking = Him /\ making = "them") \/ (taking = "them" /\ making = Him)
          /\ call \in Tried(taking, making)
    BY <1>0
  <1> DEFINE it(t, n, f, makers) == Call(t, n, makers, [k \in DOMAIN makers |-> f])
             of(t) == {it(t, n, f, makers) :
                         n \in 1 .. t.making, f \in 1 .. 9, makers \in Lists(making, t)}
             on(side) == UNION {of(t) : t \in Signed(taking, side, "yes")}
  <1>2. PICK side \in {"buy", "sell"} : call \in on(side)
    <2>1. Tried(taking, making) = UNION {on(side) : side \in {"buy", "sell"}}
      BY DEF Tried
    <2> HIDE DEF on
    <2> QED
      BY <1>1, <2>1
  <1>3. PICK t \in Signed(taking, side, "yes") : call \in of(t)
    <2> HIDE DEF of
    <2> QED
      BY <1>2
  <1>4. PICK n \in 1 .. t.making, f \in 1 .. 9, makers \in Lists(making, t) :
          call = it(t, n, f, makers)
    <2> HIDE DEF it
    <2> QED
      BY <1>3
  <1> HIDE DEF of, on
  <1>5. /\ Signable(t) /\ t.who = taking /\ t.side = side /\ t.token = "yes"
        /\ n > 1 => TakingOf(t, n) > 0
    BY SignedFacts DEF Signable
  <1>6. /\ \E m \in Nat : DOMAIN makers = 1 .. m
        /\ \A k \in DOMAIN makers :
             /\ Signable(makers[k])
             /\ (makers[k].side # t.side) = (makers[k].token = t.token)
        /\ \E o : o.who = making /\ \A k \in DOMAIN makers : makers[k] = o \/ makers[k].who = "them"
    BY <1>5, MakersTried
  <1>7. /\ call.taker = t /\ call.offered = n /\ call.makers = makers
        /\ call.fills = [k \in DOMAIN makers |-> f]
    BY <1>4 DEF Call
  <1>8. WellFormed(call)
    <2>1. n = 1 \/ TakingOf(t, n) > 0
      BY <1>5 DEF Signable
    <2>2. \A k \in DOMAIN makers : call.fills[k] \in Nat \ {0}
      BY <1>7
    <2> QED
      BY <1>5, <1>6, <1>7, <2>1, <2>2 DEF WellFormed
  <1>9. Accepts(call)
    BY DEF Calls
  <1>10. Him # "them"
    BY DEF Him
  <1>11. CASE taking = Him /\ making = "them"
    BY <1>5, <1>6, <1>7, <1>8, <1>9, <1>10, <1>11
  <1>12. CASE taking = "them" /\ making = Him
    BY <1>5, <1>6, <1>7, <1>8, <1>9, <1>10, <1>12
  <1> QED
    BY <1>1, <1>11, <1>12

\* Whatever is settled in equal fills, all of which are read, is so many times that fill.
LEMMA CompleteTrade ==
  ASSUME NEW call, WellFormed(call), Accepts(call), Alike(call),
         DecodeAll(call, Him) = Settled(call, Him)
  PROVE Complete(TradeOf(call))
  <1> DEFINE all == Settled(call, Him)
             fills == {d.fill : d \in all}
             at == [s \in all |-> s.at]
             fill == [s \in all |-> s.fill]
             shares == [s \in all |-> s.fill.shares]
  <1>1. IsFiniteSet(all)
    <2>1. at \in Injection(all, DOMAIN call.makers \cup {0})
      <3>1. 0 \notin DOMAIN call.makers
        BY LegFacts
      <3>2. \A s \in all :
              \/ s = [at |-> 0, fill |-> TakerGot(call)]
              \/ \E k \in DOMAIN call.makers : s = [at |-> k, fill |-> MakerGot(call, k)]
        BY DEF Settled
      <3>3. \A s \in all : s.at \in DOMAIN call.makers \cup {0}
        BY <3>2
      <3>4. \A s, r \in all : s.at = r.at => s = r
        BY <3>1, <3>2
      <3> HIDE DEF all
      <3> QED
        BY <3>3, <3>4 DEF Injection, IsInjective
    <2>2. IsFiniteSet(DOMAIN call.makers \cup {0})
      BY LegFacts, FS_AddElement
    <2> HIDE DEF at, all
    <2> QED
      BY <2>1, <2>2, FS_Injection
  <1>2. IsFiniteSet(fills)
    <2>1. fill \in Surjection(all, fills)
      BY DEF Surjection
    <2> HIDE DEF fill, fills, all
    <2> QED
      BY <1>1, <2>1, FS_Surjection
  <1>3. PICK x : fills = {x}
    BY <1>2, FS_Singleton DEF Alike
  <1>4. \A s \in all : s.fill = x
    BY <1>3
  <1>5. all # {}
    BY <1>3
  <1>6. \A s \in all : Counts(s) /\ s.fill.shares \in Nat
    <2>1. ReadAsSettled(call)
      BY CallReadAsSettled
    <2>2. \A s \in all : Counts(s)
      BY <2>1 DEF ReadAsSettled, Counts
    <2>3. TakerGot(call).shares \in Nat
      BY LegFacts, TakerGotIs
    <2>4. ASSUME NEW k \in DOMAIN call.makers PROVE MakerGot(call, k).shares \in Nat
      BY LegFacts DEF MakerGot, WellFormed
    <2> QED
      BY <2>2, <2>3, <2>4 DEF Settled
  <1>7. PICK c \in Nat : c > 0 /\ c = x.shares
    BY <1>4, <1>5, <1>6 DEF Counts
  <1>8. Cardinality(all) \in Nat /\ Cardinality(all) # 0
    BY <1>1, <1>5, FS_CardinalityType, FS_EmptySet
  <1>9. SumFunctionOnSet(shares, all) = c * Cardinality(all)
    <2>1. \A s \in all : shares[s] = c
      BY <1>4, <1>7
    <2> HIDE DEF shares, all
    <2> QED
      BY <1>1, <2>1, SumEqual
  <1>10. (CHOOSE d \in all : TRUE).fill.shares = c
    BY <1>4, <1>5, <1>7
  <1>11. TradeOf(call) = [n |-> (CHOOSE d \in all : TRUE).fill.shares,
                          times |-> Cardinality(all), got |-> SumFunctionOnSet(shares, all)]
    BY DEF TradeOf
  <1> HIDE DEF all, shares
  <1> QED
    BY <1>7, <1>8, <1>9, <1>10, <1>11 DEF Complete

\* By a call that fills a buy of his he gets what its fills are read to be.
LEMMA TradesComplete == TradesAreComplete
  <1> SUFFICES ASSUME NEW call \in HisCalls("buy", HisSize), Alike(call)
               PROVE Complete(TradeOf(call))
    BY DEF TradesAreComplete, Trades
  <1>1. call \in Calls
    BY DEF HisCalls
  <1>2. PICK his : /\ his \in {call.taker} \cup Range(call.makers)
                   /\ his.who = Him /\ his.side = "buy"
    BY DEF HisCalls
  <1>3. WellFormed(call) /\ Accepts(call)
    BY <1>1, CallFacts
  <1>4. DecodeAll(call, Him) = {s \in Settled(call, Him) : Counts(s)}
    BY <1>3, CallReadAsSettled DEF ReadAsSettled, Counts
  <1>5. DecodeAll(call, Him) # {}
    <2>1. ASSUME DecodeAll(call, Him) = {} PROVE FALSE
      <3>1. {d.fill : d \in DecodeAll(call, Him)} = {}
        BY <2>1
      <3> QED
        BY <3>1, FS_EmptySet DEF Alike
    <2> QED
      BY <2>1
  <1>6. DecodeAll(call, Him) = Settled(call, Him)
    <2>1. CASE call.taker.who = Him /\ \A k \in DOMAIN call.makers : call.makers[k].who # Him
      <3>1. Settled(call, Him) = {[at |-> 0, fill |-> TakerGot(call)]}
        BY <2>1 DEF Settled
      <3> QED
        BY <1>4, <1>5, <3>1
    <2>2. CASE call.taker.who # Him
      <3>1. ASSUME NEW k \in DOMAIN call.makers, call.makers[k].who = Him
            PROVE Counts([at |-> k, fill |-> MakerGot(call, k)])
        <4>1. call.makers[k].side = "buy"
          BY <1>1, <1>2, <2>2, <3>1, CallFacts DEF Range
        <4>2. PICK o, n : /\ o = call.makers[k] /\ n = call.fills[k] /\ Signable(o)
                          /\ n \in Nat /\ n > 0 /\ o.side = "buy"
          BY <1>3, <4>1 DEF WellFormed
        <4>3. TakingOf(o, n) >= n /\ TakingOf(o, n) \in Nat
          BY <4>2, TakingFacts
        <4>4. MakerGot(call, k) = [shares |-> TakingOf(o, n), cash |-> n]
          BY <4>2 DEF MakerGot
        <4>5. k # 0
          BY <1>3, LegFacts
        <4> QED
          BY <4>2, <4>3, <4>4, <4>5 DEF Counts
      <3>2. \A s \in Settled(call, Him) : Counts(s)
        BY <2>2, <3>1 DEF Settled
      <3> QED
        BY <1>4, <3>2
    <2> QED
      BY <1>1, <2>1, <2>2, CallFacts
  <1> QED
    BY <1>3, <1>6, CompleteTrade

\* However he trades, a call that is tried is read as the exchange will settle it, and what
\* he gets by it is read in full.
THEOREM CallsAreReadRightHolds == CopiesSpec => []CallsAreReadRight
  <1>1. Misread = {}
    BY CallFacts, CallReadAsSettled DEF Misread
  <1>2. CallsAreReadRight
    BY <1>1, TradesComplete DEF CallsAreReadRight
  <1> QED
    BY <1>2, PTL

-----------------------------------------------------------------------------
(* What the main loop buys by the guard.                                     *)

\* The perils without which a fill counts once, and a transaction is what it seems.
Once == Perils \cap {"again", "cleared", "aged"} = {}
Honest == Perils \cap {"reverted", "renamed"} = {}

TxRec == [salt : HisOrders, n : Fills, times : Nat \ {0}, got : Nat, real : BOOLEAN]
TxList == Seq(TxRec)
Clips == Seq(Nat)
Loops == [stage : Stages, src : Sources \cup {"none"}, tx : Nat, left : Nat, his : Nat,
          mine : Nat, shares : Nat]
\* A policy a lane can follow.
Followed(p) == p.pct \in 1 .. 100 /\ p.ceiling \in Nat /\ p.seed \in Nat \ {0}
OfLoop == <<loop.src, loop.tx>>
Busy == loop.stage # "idle"
Deciding == loop.stage \in {"decide", "fire"}

\* The ranges of the variables.
Ranges ==
  /\ txs \in TxList /\ Len(txs) <= MaxTx
  /\ \A t \in DOMAIN txs : txs[t].got = txs[t].n * txs[t].times
  /\ brought \subseteq Deliveries /\ seen \subseteq Txs \X Nat
  /\ nth \in [Deliveries -> Nat]
  /\ loop \in Loops
  /\ IF Busy THEN loop.src \in Sources /\ loop.tx \in DOMAIN txs ELSE loop.tx = 0
  /\ filled \in [HisOrders -> 0 .. HisSize]
  /\ copied \in [HisOrders -> Int] /\ released \in [HisOrders -> Int]
  /\ out \in [HisOrders -> Clips]
  /\ scale \in Nat /\ Followed(policy) /\ halted \in BOOLEAN
  /\ counted \in [Txs -> Nat] /\ peak \in Nat /\ raised \in BOOLEAN

\* The numbers RaceBook knows of a transaction are those below its count, unless it was
\* forgotten after every feed had brought it.
Known(t) == \A i \in Nat : <<t, i>> \in seen <=> i < counted[t]
Forgotten(t) == (\A i \in Nat : <<t, i>> \notin seen) /\ Sources \X {t} \subseteq brought
Numbers ==
  /\ \A d \in Deliveries : d \notin brought => nth[d] = 0
  /\ \A t \in Txs : t \notin DOMAIN txs => counted[t] = 0 /\ \A i \in Nat : <<t, i>> \notin seen
  /\ \A t \in DOMAIN txs :
       /\ counted[t] <= txs[t].times
       /\ Known(t) \/ (Forgotten(t) /\ loop.tx # t)
       /\ loop.tx # t => counted[t] \in {0, txs[t].times}
  /\ Busy => /\ OfLoop \in brought
             /\ nth[OfLoop] + loop.left = txs[loop.tx].times
             /\ nth[OfLoop] <= counted[loop.tx]

\* What the guard has filled of an order is what was counted of its transactions, or less.
Credit(s) == [t \in DOMAIN txs |-> IF txs[t].salt = s THEN counted[t] * txs[t].n ELSE 0]
Credited ==
  /\ \A t \in DOMAIN txs : txs[t].real
  /\ \A s \in HisOrders : filled[s] <= SumFunctionOnSet(Credit(s), DOMAIN txs)

\* The most a lane may have of an amount at a share, and what it may have once a clip may
\* have been raised to the minimum.
ShareOf(n, pct) == (n * pct) \div 100
Within(n, his, pct, lifted) == n <= ShareOf(his, pct) \/ (lifted /\ n <= MinOrder)
HeldOf(s) == copied[s] - released[s]
Shared ==
  /\ \A s \in HisOrders : Within(HeldOf(s), filled[s], peak, raised)
  /\ Deciding => /\ HeldOf(Salt) <= loop.mine /\ Within(loop.mine, loop.his, peak, raised)
                 /\ loop.his <= filled[Salt]
  /\ loop.stage = "fire" => Within(loop.mine + loop.shares, loop.his, peak, raised)

CInv == Ranges /\ (Once => Numbers) /\ (Once /\ Honest => Credited) /\ Shared
        /\ RateHaltIsJust

-----------------------------------------------------------------------------
(* Arithmetic.                                                               *)

\* Products of numbers grow with their factors.
LEMMA MulGrows ==
  ASSUME NEW a \in Nat, NEW b \in Nat, NEW c \in Nat, a <= b
  PROVE a * c \in Nat /\ b * c \in Nat /\ a * c <= b * c
  <1>1. \E d \in Nat : b = a + d
    <2> WITNESS b - a \in Nat
    <2> QED
      OBVIOUS
  <1> QED
    BY <1>1

\* A lane's share grows with what he has filled, and with the rate.
LEMMA ShareGrows ==
  ASSUME NEW a \in Nat, NEW b \in Nat, a <= b, NEW p \in Nat, NEW q \in Nat, p <= q
  PROVE ShareOf(a, p) \in Nat /\ ShareOf(b, q) \in Nat /\ ShareOf(a, p) <= ShareOf(b, q)
  <1>1. a * p \in Nat /\ b * p \in Nat /\ a * p <= b * p
    BY MulGrows
  <1>2. p * b \in Nat /\ q * b \in Nat /\ p * b <= q * b
    BY MulGrows
  <1>3. b * q \in Nat /\ a * p <= b * q
    BY <1>1, <1>2
  <1>4. PICK x \in Nat, y \in Nat : x = a * p /\ y = b * q /\ x <= y
    BY <1>1, <1>3
  <1>5. x \div 100 \in Nat /\ y \div 100 \in Nat /\ x \div 100 <= y \div 100
    BY <1>4
  <1> QED
    BY <1>4, <1>5 DEF ShareOf

\* The same at one rate.
LEMMA ShareGrowsAt ==
  ASSUME NEW a \in Nat, NEW b \in Nat, a <= b, NEW p \in Nat
  PROVE ShareOf(a, p) \in Nat /\ ShareOf(b, p) \in Nat /\ ShareOf(a, p) <= ShareOf(b, p)
  <1>1. p <= p
    OBVIOUS
  <1> QED
    BY <1>1, ShareGrows

\* What is within the share of an amount is within that of a larger one at a larger rate.
LEMMA WithinGrows ==
  ASSUME NEW n \in Int, NEW m \in Int, n <= m, NEW a \in Nat, NEW b \in Nat, a <= b,
         NEW p \in Nat, NEW q \in Nat, p <= q, NEW r \in BOOLEAN, NEW t \in BOOLEAN, r => t,
         Within(m, a, p, r)
  PROVE Within(n, b, q, t)
  <1>1. MinOrder \in Nat
    BY CopiesAssumption
  <1>2. ShareOf(a, p) \in Nat /\ ShareOf(b, q) \in Nat /\ ShareOf(a, p) <= ShareOf(b, q)
    BY ShareGrows
  <1>3. CASE m <= ShareOf(a, p)
    BY <1>2, <1>3 DEF Within
  <1>4. CASE r /\ m <= MinOrder
    BY <1>1, <1>4 DEF Within
  <1> QED
    BY <1>3, <1>4 DEF Within

\* The smaller of two numbers is a number, and not above either.
LEMMA BoundedFacts ==
  ASSUME NEW a \in Nat, NEW b \in Nat
  PROVE Bounded(a, b) \in Nat /\ Bounded(a, b) <= a /\ Bounded(a, b) <= b
  BY DEF Bounded

\* A percentage of a percentage of an amount.
PartOf(h, e, pad) == (h * e * pad) \div 10000

\* The target of a fill is within the share of what he has filled.
LEMMA TargetWithin ==
  ASSUME NEW h \in Nat, NEW e \in Nat, NEW pad \in Nat, pad <= 100
  PROVE PartOf(h, e, pad) \in Nat /\ PartOf(h, e, pad) <= ShareOf(h, e)
  <1>1. PICK x \in Nat : x = h * e
    OBVIOUS
  <1>2. pad * x \in Nat /\ pad * x <= 100 * x
    BY MulGrows
  <1>3. PICK z \in Nat : z = x * pad /\ z <= x * 100
    BY <1>2
  <1>4. z \div 10000 \in Nat /\ z \div 10000 <= x \div 100
    BY <1>3
  <1>5. PartOf(h, e, pad) = z \div 10000 /\ ShareOf(h, e) = x \div 100
    BY <1>1, <1>3 DEF ShareOf, PartOf
  <1> QED
    BY <1>4, <1>5

\* The size of a clip leaves the lane within its share of what he has filled, unless it is
\* raised to the minimum.
LEMMA SizedWithin ==
  ASSUME scale \in Nat, Followed(policy), NEW h \in Nat, NEW mine \in Nat, NEW pad \in Pads
  PROVE /\ Sized(h, mine, pad) \in Nat /\ EffectivePct \in Nat
        /\ Raises(Target(h, mine, pad), mine) \in BOOLEAN
        /\ Sized(h, mine, pad) > 0 =>
             Within(mine + Sized(h, mine, pad), h, EffectivePct,
                    Raises(Target(h, mine, pad), mine))
  <1>1. MinOrder \in Nat \ {0} /\ pad \in Nat /\ pad <= 100 /\ MinFillFloor \in BOOLEAN
    BY CopiesAssumption
  <1>2. EffectivePct \in Nat
    <2>1. policy.pct \in Nat /\ policy.ceiling \in Nat
      BY DEF Followed
    <2>2. PICK x \in Nat : x = policy.pct * scale
      BY <2>1
    <2>3. x \div 100 \in Nat
      OBVIOUS
    <2>4. Bounded(x \div 100, policy.ceiling) \in Nat
      BY <2>1, <2>3 DEF Bounded
    <2> QED
      BY <2>2, <2>4 DEF EffectivePct
  <1>3. CapFill \in Nat
    <2>1. policy.seed \in Nat
      BY DEF Followed
    <2>2. policy.seed * scale \in Nat
      BY <2>1
    <2> DEFINE x == policy.seed * scale
    <2>3. x \div 100 \in Nat
      <3> HIDE DEF x
      <3> QED
        BY <2>2 DEF x
    <2> QED
      BY <2>3 DEF CapFill, MaxUsdPerFill
  <1> DEFINE target == PartOf(h, EffectivePct, pad)
  <1>4. target \in Nat /\ target <= ShareOf(h, EffectivePct) /\ ShareOf(h, EffectivePct) \in Nat
    <2>1. PICK e \in Nat : e = EffectivePct
      BY <1>2
    <2>2. PartOf(h, e, pad) \in Nat /\ PartOf(h, e, pad) <= ShareOf(h, e)
      BY <1>1, TargetWithin
    <2>3. h <= h
      OBVIOUS
    <2>4. ShareOf(h, e) \in Nat
      BY <2>3, ShareGrowsAt
    <2> QED
      BY <2>1, <2>2, <2>4
  <1> HIDE DEF target
  <1>5. Target(h, mine, pad) = Monus(target, mine)
    BY DEF Target, target, PartOf
  <1>6. PICK want \in Nat : want = Target(h, mine, pad) /\ (want > 0 => mine + want = target)
    BY <1>4, <1>5 DEF Monus
  <1>7. Raises(want, mine) \in BOOLEAN
    BY <1>1 DEF Raises
  <1>8. Sized(h, mine, pad) \in Nat
    BY <1>1, <1>3, <1>6 DEF Sized, Bounded
  <1>9. CASE want >= MinOrder
    <2>1. Sized(h, mine, pad) <= want /\ want > 0
      BY <1>1, <1>3, <1>6, <1>9 DEF Sized, Bounded
    <2> QED
      BY <1>2, <1>4, <1>6, <1>7, <1>8, <2>1 DEF Within
  <1>10. CASE want < MinOrder /\ Raises(want, mine)
    <2>1. Sized(h, mine, pad) <= MinOrder
      BY <1>1, <1>3, <1>6, <1>10 DEF Sized, Bounded
    <2>2. mine = 0
      BY <1>10 DEF Raises
    <2> QED
      BY <1>1, <1>2, <1>6, <1>7, <1>8, <1>10, <2>1, <2>2 DEF Within
  <1>11. CASE want < MinOrder /\ ~Raises(want, mine)
    <2>1. Sized(h, mine, pad) = 0
      BY <1>1, <1>3, <1>6, <1>11 DEF Sized, Bounded
    <2> QED
      BY <1>2, <1>6, <1>7, <2>1
  <1> QED
    BY <1>1, <1>6, <1>9, <1>10, <1>11

-----------------------------------------------------------------------------
(* The ranges.                                                               *)

\* What is known of his transactions and of the clips that are out.
LEMMA ListFacts ==
  ASSUME txs \in TxList
  PROVE /\ Len(txs) \in Nat /\ DOMAIN txs = 1 .. Len(txs)
        /\ \A t \in DOMAIN txs : txs[t] \in TxRec
  BY DEF TxList

\* A further transaction leaves the earlier ones as they are.
LEMMA ListGrows ==
  ASSUME txs \in TxList, NEW r \in TxRec
  PROVE /\ Append(txs, r) \in TxList /\ Len(Append(txs, r)) = Len(txs) + 1
        /\ DOMAIN Append(txs, r) = DOMAIN txs \cup {Len(txs) + 1}
        /\ \A t \in DOMAIN txs : Append(txs, r)[t] = txs[t]
        /\ Append(txs, r)[Len(txs) + 1] = r
  BY DEF TxList

\* Sending a clip, or closing one, leaves a list of clips.
LEMMA ClipsFacts ==
  ASSUME NEW c \in Clips
  PROVE /\ \A n \in Nat : Append(c, n) \in Clips
        /\ \A k \in DOMAIN c : c[k] \in Nat /\ RemoveAt(c, k) \in Clips
  <1>1. \A n \in Nat : Append(c, n) \in Clips
    BY DEF Clips
  <1>2. ASSUME NEW k \in DOMAIN c PROVE c[k] \in Nat /\ RemoveAt(c, k) \in Clips
    <2>1. k \in 1 .. Len(c) /\ Len(c) \in Nat
      BY DEF Clips
    <2>2. SubSeq(c, 1, k - 1) \in Seq(Nat) /\ SubSeq(c, k + 1, Len(c)) \in Seq(Nat)
      BY <2>1, SubSeqProperties DEF Clips
    <2> QED
      BY <2>1, <2>2, ConcatProperties DEF Clips, RemoveAt
  <1> QED
    BY <1>1, <1>2

\* A trade that is tried becomes a transaction.
LEMMA TradeFacts ==
  ASSUME NEW s \in HisOrders, NEW trade \in Trades, trade.n \in Fills,
         NEW real \in BOOLEAN
  PROVE [salt |-> s, n |-> trade.n, times |-> trade.times, got |-> trade.got, real |-> real]
          \in TxRec /\ trade.got = trade.n * trade.times
  <1>1. trade.n \in Nat /\ trade.times \in Nat \ {0} /\ trade.got = trade.n * trade.times
    BY TradesComplete DEF TradesAreComplete, Complete
  <1>2. trade.got \in Nat
    BY <1>1
  <1> QED
    BY <1>1, <1>2 DEF TxRec

\* Before he has traded every variable is in its range.
LEMMA RangesAtInit == CopiesInit => Ranges
  <1> SUFFICES ASSUME CopiesInit PROVE Ranges
    OBVIOUS
  <1> USE DEF CopiesInit
  <1>1. txs \in TxList /\ Len(txs) <= MaxTx /\ DOMAIN txs = {}
    BY CopiesAssumption DEF TxList
  <1>2. loop \in Loops /\ ~Busy /\ loop.tx = 0
    BY DEF Idle, Loops, Stages, Busy
  <1>3. out \in [HisOrders -> Clips]
    BY DEF Clips
  <1>4. Followed(policy)
    <2>1. EffectiveCeiling(Pct, Explicit) \in Nat
      BY CopiesAssumption DEF EffectiveCeiling, CompoundHeadroom
    <2> QED
      BY <2>1, CopiesAssumption DEF Followed
  <1>5. \A t \in DOMAIN txs : txs[t].got = txs[t].n * txs[t].times
    BY <1>1
  <1>6. /\ brought \subseteq Deliveries /\ seen \subseteq Txs \X Nat /\ nth \in [Deliveries -> Nat]
        /\ filled \in [HisOrders -> 0 .. HisSize] /\ copied \in [HisOrders -> Int]
        /\ released \in [HisOrders -> Int] /\ scale \in Nat /\ halted \in BOOLEAN
        /\ counted \in [Txs -> Nat] /\ peak \in Nat /\ raised \in BOOLEAN
    <2>1. /\ brought = {} /\ seen = {} /\ nth = [d \in Deliveries |-> 0]
          /\ filled = [s \in HisOrders |-> 0] /\ copied = [s \in HisOrders |-> 0]
          /\ released = [s \in HisOrders |-> 0] /\ scale = 100 /\ halted = FALSE
          /\ counted = [t \in Txs |-> 0] /\ peak = 0 /\ raised = FALSE
      OBVIOUS
    <2> HIDE DEF CopiesInit
    <2>2. brought \subseteq Deliveries /\ seen \subseteq Txs \X Nat
      BY <2>1
    <2>3. nth \in [Deliveries -> Nat] /\ counted \in [Txs -> Nat]
      BY <2>1
    <2>4. /\ filled \in [HisOrders -> 0 .. HisSize] /\ copied \in [HisOrders -> Int]
          /\ released \in [HisOrders -> Int]
      BY <2>1, CopiesAssumption
    <2> QED
      BY <2>1, <2>2, <2>3, <2>4
  <1> QED
    BY <1>1, <1>2, <1>3, <1>4, <1>5, <1>6 DEF Ranges

\* The fill of the loop is one of a transaction of his.
LEMMA LoopFacts ==
  ASSUME Ranges, Busy
  PROVE /\ loop.tx \in DOMAIN txs /\ loop.tx \in Txs /\ OfLoop \in Deliveries
        /\ txs[loop.tx] \in TxRec /\ Salt \in HisOrders /\ Size \in Fills /\ Size \in Nat
  <1>1. loop.src \in Sources /\ loop.tx \in DOMAIN txs
    BY DEF Ranges
  <1>2. txs[loop.tx] \in TxRec /\ loop.tx \in Txs
    BY <1>1, ListFacts, CopiesAssumption DEF Ranges, Txs
  <1> QED
    BY <1>1, <1>2, CopiesAssumption DEF OfLoop, Deliveries, TxRec, Salt, Size

\* What his transactions have got him of an order.
RealOf(list, s) ==
  [t \in DOMAIN list |-> IF list[t].salt = s /\ list[t].real THEN list[t].got ELSE 0]

\* It adds up to a number of shares.
LEMMA RealNat ==
  ASSUME NEW list \in TxList, NEW s \in HisOrders
  PROVE /\ IsFiniteSet(DOMAIN list)
        /\ \A t \in DOMAIN list : RealOf(list, s)[t] \in Nat
        /\ Real(list, s) = SumFunctionOnSet(RealOf(list, s), DOMAIN list)
        /\ Real(list, s) \in Nat
  <1>1. DOMAIN list = 1 .. Len(list) /\ Len(list) \in Nat
    BY DEF TxList
  <1>2. IsFiniteSet(DOMAIN list)
    BY <1>1, FS_Interval
  <1>3. \A t \in DOMAIN list : RealOf(list, s)[t] \in Nat
    <2> SUFFICES ASSUME NEW t \in DOMAIN list PROVE RealOf(list, s)[t] \in Nat
      OBVIOUS
    <2>1. list[t] \in TxRec
      BY DEF TxList
    <2> QED
      BY <2>1 DEF RealOf, TxRec
  <1>4. Real(list, s) = SumFunctionOnSet(RealOf(list, s), DOMAIN list)
    BY DEF Real, RealOf
  <1> QED
    BY <1>2, <1>3, <1>4, SumNat

\* A trade of his keeps the ranges.
LEMMA RangesTrade ==
  ASSUME Ranges, NEW s \in HisOrders, NEW trade \in Trades,
         NEW real \in BOOLEAN, trade.n \in Fills, HeTrades(s, trade, real)
  PROVE  Ranges'
  <1> DEFINE r == [salt |-> s, n |-> trade.n, times |-> trade.times, got |-> trade.got,
                   real |-> real]
  <1>1. r \in TxRec /\ r.got = r.n * r.times
    BY TradeFacts
  <1>2. txs' = Append(txs, r) /\ Len(txs) < MaxTx
    BY DEF HeTrades
  <1> HIDE DEF r
  <1>3. txs \in TxList /\ Len(txs) \in Nat
    BY ListFacts DEF Ranges
  <1>4. /\ txs' \in TxList /\ Len(txs') <= MaxTx
        /\ DOMAIN txs' = DOMAIN txs \cup {Len(txs) + 1}
        /\ \A t \in DOMAIN txs : txs'[t] = txs[t]
        /\ txs'[Len(txs) + 1] = r
    BY <1>1, <1>2, <1>3, ListGrows, CopiesAssumption
  <1>5. \A t \in DOMAIN txs' : txs'[t].got = txs'[t].n * txs'[t].times
    BY <1>1, <1>4 DEF Ranges
  <1>6. UNCHANGED <<brought, dedupe, loop, guard, out, sizing, halted, history>>
    BY DEF HeTrades
  <1> QED
    BY <1>4, <1>5, <1>6 DEF Ranges, Busy, dedupe, guard, sizing, history

\* The main loop keeps the ranges.
LEMMA RangesLoop ==
  ASSUME Ranges, Loop PROVE Ranges'
  <1>1. ASSUME NEW d \in Deliveries, Deliver(d[1], d[2]) PROVE Ranges'
    <2>1. d[1] \in Sources /\ d[2] \in DOMAIN txs /\ txs[d[2]] \in TxRec /\ d = <<d[1], d[2]>>
      BY <1>1, ListFacts DEF Deliver, Deliveries, Ranges
    <2>2. /\ loop' = [Idle EXCEPT !.stage = "fills", !.src = d[1], !.tx = d[2],
                                  !.left = txs[d[2]].times]
          /\ brought' = brought \cup {d}
          /\ UNCHANGED <<txs, seen, nth, guard, out, sizing, halted, history>>
      BY <1>1, <2>1 DEF Deliver
    <2>3. d[2] \in Nat
      BY <2>1, ListFacts DEF Ranges
    <2>4. loop' \in Loops /\ Busy' /\ loop'.src \in Sources /\ loop'.tx \in DOMAIN txs'
      BY <2>1, <2>2, <2>3 DEF Idle, Loops, Stages, Busy, TxRec
    <2> QED
      BY <2>2, <2>4 DEF Ranges, guard, sizing, history
  <1>2. CASE NextFill
    <2>1. /\ loop.stage = "fills" /\ loop.left > 0 /\ Busy
          /\ nth' = [nth EXCEPT ![OfLoop] = @ + 1]
          /\ UNCHANGED <<txs, brought, copied, released, out, scale, policy, halted, peak, raised>>
      BY <1>2 DEF NextFill, feeds, sizing, Busy, OfLoop
    <2>2. loop \in Loops /\ OfLoop \in Deliveries /\ nth[OfLoop] \in Nat
      BY <2>1, LoopFacts DEF Ranges
    <2>3. nth' \in [Deliveries -> Nat]
      BY <2>1, <2>2 DEF Ranges
    <2>4. CASE <<loop.tx, Numbered(OfLoop)>> \in seen
      <3>1. loop' = [loop EXCEPT !.left = @ - 1] /\ UNCHANGED <<seen, filled, counted>>
        BY <1>2, <2>4 DEF NextFill, OfLoop
      <3>2. /\ loop' \in Loops /\ loop'.stage = loop.stage /\ loop'.src = loop.src
            /\ loop'.tx = loop.tx
        BY <2>1, <2>2, <3>1 DEF Loops
      <3> QED
        BY <2>1, <2>3, <3>1, <3>2 DEF Ranges, Busy
    <2>5. CASE <<loop.tx, Numbered(OfLoop)>> \notin seen
      <3>1. /\ seen' = seen \cup {<<loop.tx, Numbered(OfLoop)>>}
            /\ filled' = [filled EXCEPT ![Salt] = RunningTotal(Salt, Size)]
            /\ counted' = [counted EXCEPT ![loop.tx] = @ + 1]
            /\ loop' = [loop EXCEPT !.stage = "decide", !.left = @ - 1,
                                    !.his = RunningTotal(Salt, Size),
                                    !.mine = Monus(copied[Salt], released[Salt])]
        BY <1>2, <2>5 DEF NextFill, OfLoop
      <3>2. /\ Salt \in HisOrders /\ Size \in Nat /\ loop.tx \in Txs
        BY <2>1, LoopFacts
      <3>3. PICK h \in Nat, mine \in Nat :
              /\ h = RunningTotal(Salt, Size) /\ h <= HisSize
              /\ mine = Monus(copied[Salt], released[Salt])
        <4>1. filled[Salt] \in Nat /\ copied[Salt] \in Int /\ released[Salt] \in Int
          BY <3>2, CopiesAssumption DEF Ranges
        <4>2. RunningTotal(Salt, Size) \in Nat /\ RunningTotal(Salt, Size) <= HisSize
          BY <3>2, <4>1, CopiesAssumption DEF RunningTotal, Bounded
        <4>3. Monus(copied[Salt], released[Salt]) \in Nat
          BY <4>1 DEF Monus
        <4> QED
          BY <4>2, <4>3
      <3>4. /\ loop' \in Loops /\ loop'.stage = "decide" /\ loop'.src = loop.src
            /\ loop'.tx = loop.tx
        <4>1. loop' = [loop EXCEPT !.stage = "decide", !.left = @ - 1, !.his = h, !.mine = mine]
          BY <3>1, <3>3
        <4>2. loop.left \in Nat /\ loop.left - 1 \in Nat
          BY <2>1, <2>2 DEF Loops
        <4>3. loop \in Loops
          BY <2>2
        <4> QED
          BY <4>1, <4>2, <4>3 DEF Loops, Stages
      <3>5. filled' \in [HisOrders -> 0 .. HisSize]
        <4>1. filled' = [filled EXCEPT ![Salt] = h]
          BY <3>1, <3>3
        <4>2. h \in 0 .. HisSize
          BY <3>3, CopiesAssumption
        <4> QED
          BY <4>1, <4>2 DEF Ranges
      <3>6. counted' \in [Txs -> Nat] /\ seen' \subseteq Txs \X Nat
        <4>1. counted' \in [Txs -> Nat]
          BY <3>1, <3>2 DEF Ranges
        <4>2. Numbered(OfLoop) \in Nat
          BY <2>2 DEF Numbered
        <4>3. <<loop.tx, Numbered(OfLoop)>> \in Txs \X Nat
          BY <3>2, <4>2
        <4>4. seen' \subseteq Txs \X Nat
          BY <3>1, <4>3 DEF Ranges
        <4> QED
          BY <4>1, <4>4
      <3>7. /\ Busy' /\ loop'.src \in Sources /\ loop'.tx \in DOMAIN txs'
            /\ \A t \in DOMAIN txs' : txs'[t].got = txs'[t].n * txs'[t].times
        BY <2>1, <3>4 DEF Ranges, Busy
      <3> HIDE DEF Busy
      <3> QED
        BY <2>1, <2>3, <3>4, <3>5, <3>6, <3>7 DEF Ranges
    <2> QED
      BY <2>4, <2>5
  <1>3. CASE LastFill
    <2>1. loop' = Idle /\ loop' \in Loops /\ ~Busy' /\ loop'.tx = 0
      BY <1>3 DEF LastFill, Idle, Loops, Stages, Busy
    <2> QED
      BY <1>3, <2>1 DEF LastFill, Ranges, feeds, dedupe, guard, sizing, history
  <1>4. CASE Pass
    <2>1. /\ loop' = Resumed /\ Busy
          /\ UNCHANGED <<feeds, dedupe, guard, out, sizing, halted, history>>
      BY <1>4 DEF Pass, Busy
    <2>2. loop' \in Loops /\ Busy' /\ loop'.src = loop.src /\ loop'.tx = loop.tx
      BY <2>1 DEF Ranges, Resumed, Loops, Stages, Busy
    <2> QED
      BY <2>1, <2>2 DEF Ranges, feeds, dedupe, guard, sizing, history
  <1>5. ASSUME NEW busy \in BOOLEAN, Fire(busy) PROVE Ranges'
    <2>1. /\ loop' = Resumed /\ Busy
          /\ UNCHANGED <<feeds, dedupe, filled, released, sizing, history>>
      BY <1>5 DEF Fire, Busy
    <2>2. loop' \in Loops /\ Busy' /\ loop'.src = loop.src /\ loop'.tx = loop.tx
      BY <2>1 DEF Ranges, Resumed, Loops, Stages, Busy
    <2>3. /\ Salt \in HisOrders /\ loop.shares \in Nat
      BY <2>1, LoopFacts DEF Ranges, Loops
    <2>4. /\ halted' \in BOOLEAN /\ copied' \in [HisOrders -> Int]
          /\ out' \in [HisOrders -> Clips]
      <3>1. CASE busy /\ Overcopied
        BY <1>5, <3>1 DEF Fire, Ranges
      <3>2. CASE ~(busy /\ Overcopied)
        <4>1. /\ copied' = [copied EXCEPT ![Salt] = @ + loop.shares]
              /\ out' = [out EXCEPT ![Salt] = Append(@, loop.shares)]
              /\ UNCHANGED halted
          BY <1>5, <3>2 DEF Fire
        <4>2. out[Salt] \in Clips
          BY <2>3 DEF Ranges
        <4>3. Append(out[Salt], loop.shares) \in Clips
          BY <2>3, <4>2, ClipsFacts
        <4> QED
          BY <2>3, <4>1, <4>3 DEF Ranges
      <3> QED
        BY <3>1, <3>2
    <2> QED
      BY <2>1, <2>2, <2>4 DEF Ranges, feeds, dedupe, sizing, history
  <1>6. ASSUME NEW pad \in Pads, Decide(pad) PROVE Ranges'
    <2> DEFINE n == Sized(Bounded(loop.his, HisSize), loop.mine, pad)
    <2>1. /\ Busy /\ UNCHANGED <<feeds, dedupe, guard, out, sizing, halted, counted>>
          /\ loop' = IF ~halted /\ n > 0 THEN [loop EXCEPT !.stage = "fire", !.shares = n]
                     ELSE Resumed
      BY <1>6 DEF Decide, Busy
    <2>2. n \in Nat /\ peak' \in Nat /\ raised' \in BOOLEAN
      <3>1. loop.his \in Nat /\ loop.mine \in Nat /\ peak \in Nat /\ raised \in BOOLEAN
        BY DEF Ranges, Loops
      <3>2. Bounded(loop.his, HisSize) \in Nat
        BY <3>1, CopiesAssumption, BoundedFacts
      <3>3. n \in Nat /\ EffectivePct \in Nat
        BY <3>1, <3>2, SizedWithin DEF Ranges
      <3>4. peak' \in Nat
        <4>1. peak' = peak \/ peak' = EffectivePct
          BY <1>6 DEF Decide
        <4> QED
          BY <3>1, <3>3, <4>1
      <3>5. raised' \in BOOLEAN
        <4>1. \/ UNCHANGED raised
              \/ raised' = (raised \/ Raises(Target(Bounded(loop.his, HisSize), loop.mine, pad), loop.mine))
          BY <1>6 DEF Decide
        <4> QED
          BY <3>1, <4>1
      <3> QED
        BY <3>3, <3>4, <3>5
    <2> HIDE DEF n
    <2>3. loop' \in Loops /\ Busy' /\ loop'.src = loop.src /\ loop'.tx = loop.tx
      BY <2>1, <2>2 DEF Ranges, Resumed, Loops, Stages, Busy
    <2> QED
      BY <2>1, <2>2, <2>3 DEF Ranges, feeds, dedupe, guard, sizing
  <1> QED
    BY <1>1, <1>2, <1>3, <1>4, <1>5, <1>6 DEF Loop

\* What runs beside the loop keeps the ranges.
LEMMA RangesBeside ==
  ASSUME Ranges, Beside PROVE Ranges'
  <1>1. ASSUME NEW s \in HisOrders, NEW k \in DOMAIN out[s], NEW m \in Matched(out[s][k]),
               Answer(s, k, m)
        PROVE Ranges'
    <2>1. out[s] \in Clips /\ out[s][k] \in Nat /\ RemoveAt(out[s], k) \in Clips
      BY ClipsFacts DEF Ranges
    <2>2. m \in Int
      <3>1. PICK n \in Nat : n = out[s][k]
        BY <2>1
      <3> QED
        BY <3>1 DEF Matched
    <2>3. /\ out' = [out EXCEPT ![s] = RemoveAt(@, k)]
          /\ released' = [released EXCEPT ![s] = @ + (out[s][k] - m)]
          /\ UNCHANGED <<feeds, dedupe, loop, filled, copied, sizing, halted, history>>
      BY <1>1 DEF Answer
    <2>4. out' \in [HisOrders -> Clips] /\ released' \in [HisOrders -> Int]
      BY <2>1, <2>2, <2>3 DEF Ranges
    <2> QED
      BY <2>3, <2>4 DEF Ranges, Busy, feeds, dedupe, sizing, history
  <1>2. ASSUME NEW gain \in Realised, Rescale(gain) PROVE Ranges'
    <2>1. gain \in Int /\ policy.seed \in Nat \ {0} /\ scale \in Nat
      BY CopiesAssumption DEF Ranges, Followed
    <2>2. VirtualBankroll(gain) \in Nat
      BY <2>1 DEF VirtualBankroll
    <2>3. BankrollScale(VirtualBankroll(gain)) \in Nat
      <3>1. PICK x \in Nat, d \in Nat \ {0} : x = VirtualBankroll(gain) /\ d = policy.seed
        BY <2>1, <2>2
      <3>2. (x * 100) \div d \in Nat
        <4>1. x * 100 \in Nat
          OBVIOUS
        <4> QED
          BY <4>1
      <3> QED
        BY <3>1, <3>2 DEF BankrollScale
    <2>4. Slew(BankrollScale(VirtualBankroll(gain))) \in Nat
      BY <2>1, <2>3 DEF Slew, Bounded
    <2>5. scale' \in Nat
      BY <1>2, <2>4 DEF Rescale
    <2>6. UNCHANGED <<feeds, dedupe, loop, guard, out, policy, halted, history>>
      BY <1>2 DEF Rescale
    <2> QED
      BY <2>5, <2>6 DEF Ranges, Busy, feeds, dedupe, guard, history
  <1>3. ASSUME NEW p \in Offers, Reprice(p) PROVE Ranges'
    <2>1. /\ Buildable(p) /\ policy' = p
          /\ UNCHANGED <<feeds, dedupe, loop, guard, out, scale, halted, history>>
      BY <1>3 DEF Reprice
    <2>2. Followed(policy)'
      BY <2>1, CopiesAssumption, OffersAssumption DEF Buildable, Followed
    <2> QED
      BY <2>1, <2>2 DEF Ranges, Busy, feeds, dedupe, guard, history
  <1>4. ASSUME NEW t \in Txs, Evict(t) PROVE Ranges'
    <2>1. /\ seen' = {mark \in seen : mark[1] # t}
          /\ nth' \in {nth, [d \in Deliveries |-> 0]}
          /\ brought' = IF "aged" \in Perils THEN brought ELSE brought \cup (Sources \X {t})
          /\ UNCHANGED <<txs, order, loop, guard, out, sizing, halted, history>>
      BY <1>4 DEF Evict
    <2>2. seen' \subseteq Txs \X Nat /\ brought' \subseteq Deliveries
      BY <2>1 DEF Ranges, Deliveries
    <2>3. nth' \in [Deliveries -> Nat]
      BY <2>1 DEF Ranges
    <2> QED
      BY <2>1, <2>2, <2>3 DEF Ranges, Busy, guard, sizing, history
  <1> QED
    BY <1>1, <1>2, <1>3, <1>4 DEF Beside

\* Every step keeps the ranges.
LEMMA RangesStep ==
  ASSUME Ranges, [CopiesNext]_copiesVars PROVE Ranges'
  <1>1. CASE UNCHANGED copiesVars
    BY <1>1 DEF copiesVars, Ranges, Busy, feeds, dedupe, guard, sizing, history
  <1> QED
    BY <1>1, RangesTrade, RangesLoop, RangesBeside DEF CopiesNext

-----------------------------------------------------------------------------
(* A fill counts once.                                                       *)

\* Before he has traded nothing is numbered.
LEMMA NumbersAtInit == CopiesInit => Numbers
  <1> SUFFICES ASSUME CopiesInit PROVE Numbers
    OBVIOUS
  <1>1. /\ DOMAIN txs = {} /\ seen = {} /\ ~Busy
        /\ nth = [d \in Deliveries |-> 0] /\ counted = [t \in Txs |-> 0]
    BY DEF CopiesInit, Busy, Idle
  <1> QED
    BY <1>1 DEF Numbers

\* A step that leaves the numbers, and the fill of the loop, where they are.
LEMMA NumbersStay ==
  ASSUME Numbers, UNCHANGED <<txs, brought, seen, nth, counted>>, Busy' = Busy,
         loop'.tx = loop.tx, loop'.src = loop.src, loop'.left = loop.left
  PROVE  Numbers'
  BY DEF Numbers, Known, Forgotten, OfLoop

\* A trade of his is one nobody has numbered.
LEMMA NumbersTrade ==
  ASSUME Ranges, Numbers, NEW s \in HisOrders, NEW trade \in Trades,
         NEW real \in BOOLEAN, trade.n \in Fills, HeTrades(s, trade, real)
  PROVE  Numbers'
  <1> DEFINE r == [salt |-> s, n |-> trade.n, times |-> trade.times, got |-> trade.got,
                   real |-> real]
             new == Len(txs) + 1
  <1>1. r \in TxRec
    BY TradeFacts
  <1>2. txs' = Append(txs, r) /\ Len(txs) < MaxTx
    BY DEF HeTrades
  <1>3. UNCHANGED <<brought, seen, nth, loop, counted>>
    BY DEF HeTrades, dedupe, history
  <1>4. txs \in TxList /\ Len(txs) \in Nat /\ DOMAIN txs = 1 .. Len(txs)
    BY ListFacts DEF Ranges
  <1>5. /\ DOMAIN txs' = DOMAIN txs \cup {new} /\ new \notin DOMAIN txs /\ new \in Txs
        /\ \A t \in DOMAIN txs : txs'[t] = txs[t]
        /\ txs'[new] = r
    BY <1>1, <1>2, <1>4, ListGrows, CopiesAssumption DEF Txs
  <1>6. Busy => loop.tx \in DOMAIN txs
    BY DEF Ranges
  <1>7. counted[new] = 0 /\ \A i \in Nat : <<new, i>> \notin seen
    BY <1>5 DEF Numbers
  <1>8. txs'[new].times \in Nat
    BY <1>1, <1>5 DEF TxRec
  <1> HIDE DEF r, new
  <1>9. ASSUME NEW t \in DOMAIN txs'
        PROVE /\ counted'[t] <= txs'[t].times
              /\ Known(t)' \/ (Forgotten(t)' /\ loop'.tx # t)
              /\ loop'.tx # t => counted'[t] \in {0, txs'[t].times}
    <2>1. CASE t = new
      BY <1>3, <1>7, <1>8, <2>1 DEF Known
    <2>2. CASE t \in DOMAIN txs
      BY <1>3, <1>5, <2>2 DEF Numbers, Known, Forgotten
    <2> QED
      BY <1>5, <2>1, <2>2
  <1>10. Busy' => /\ OfLoop' \in brought' /\ nth'[OfLoop'] + loop'.left = txs'[loop'.tx].times
                  /\ nth'[OfLoop'] <= counted'[loop'.tx]
    BY <1>3, <1>5, <1>6 DEF Numbers, Busy, OfLoop
  <1>11. \A t \in Txs : t \notin DOMAIN txs' =>
           counted'[t] = 0 /\ \A i \in Nat : <<t, i>> \notin seen'
    BY <1>3, <1>5 DEF Numbers
  <1>12. \A d \in Deliveries : d \notin brought' => nth'[d] = 0
    BY <1>3 DEF Numbers
  <1> QED
    BY <1>9, <1>10, <1>11, <1>12 DEF Numbers

\* A feed that brings a transaction has brought none of its fills before.
LEMMA NumbersDeliver ==
  ASSUME Once, Ranges, Numbers, NEW src \in Sources, NEW t \in Txs, Deliver(src, t)
  PROVE  Numbers'
  <1>1. /\ ~Busy /\ loop.tx = 0 /\ t \in DOMAIN txs /\ <<src, t>> \notin brought
        /\ brought' = brought \cup {<<src, t>>}
        /\ UNCHANGED <<txs, seen, nth, counted>>
    BY DEF Deliver, Once, Busy, Ranges, history
  <1>2. Busy' /\ loop'.tx = t /\ loop'.src = src /\ loop'.left = txs[t].times
    BY DEF Deliver, Idle, Busy
  <1>3. <<src, t>> \in Deliveries /\ OfLoop' = <<src, t>> /\ nth[<<src, t>>] = 0
    BY <1>1, <1>2 DEF Deliveries, OfLoop, Numbers
  <1>4. t \in Nat /\ t # 0 /\ txs[t].times \in Nat /\ counted[t] \in Nat
    <2>1. txs[t] \in TxRec
      BY <1>1, ListFacts DEF Ranges
    <2>2. t \in Nat /\ t # 0
      BY CopiesAssumption DEF Txs
    <2>3. counted \in [Txs -> Nat]
      BY DEF Ranges
    <2> QED
      BY <2>1, <2>2, <2>3 DEF TxRec
  <1>5. Known(t)
    BY <1>1 DEF Numbers, Forgotten
  <1>6. ASSUME NEW u \in DOMAIN txs
        PROVE /\ counted[u] <= txs[u].times
              /\ Known(u)' \/ (Forgotten(u)' /\ loop'.tx # u)
              /\ loop'.tx # u => counted[u] \in {0, txs[u].times}
    <2>1. u # 0
      BY ListFacts DEF Ranges
    <2> QED
      BY <1>1, <1>2, <1>5, <2>1 DEF Numbers, Known, Forgotten
  <1> QED
    BY <1>1, <1>2, <1>3, <1>4, <1>6 DEF Numbers

\* A fill whose number is new is the next of its transaction.
LEMMA NumbersFill ==
  ASSUME Ranges, Numbers, NextFill PROVE Numbers'
  <1>1. /\ Busy /\ loop.left > 0 /\ nth' = [nth EXCEPT ![OfLoop] = @ + 1]
        /\ UNCHANGED <<txs, brought>>
    BY DEF NextFill, feeds, Busy, OfLoop
  <1>2. PICK t \in Txs, k \in Nat : t = loop.tx /\ k = nth[OfLoop]
    BY <1>1, LoopFacts DEF Ranges
  <1>3. /\ t \in DOMAIN txs /\ t \in Txs /\ OfLoop \in Deliveries /\ OfLoop \in brought
        /\ k \in Nat /\ loop.left \in Nat /\ counted[t] \in Nat /\ txs[t].times \in Nat
    BY <1>2, <1>1, LoopFacts DEF Ranges, Numbers, Loops, TxRec
  <1>4. k + loop.left = txs[t].times /\ k <= counted[t] /\ Known(t)
    BY <1>2, <1>1, <1>3 DEF Numbers
  <1>5. /\ nth'[OfLoop] = k + 1
        /\ \A d \in Deliveries : d # OfLoop => nth'[d] = nth[d]
    BY <1>2, <1>1, <1>3 DEF Ranges
  <1>6. /\ Busy' /\ loop'.tx = t /\ OfLoop' = OfLoop /\ loop'.left = loop.left - 1
    BY <1>2, <1>1 DEF NextFill, Busy, OfLoop, Ranges, Loops
  <1>7. CASE <<t, k>> \in seen
    <2>1. UNCHANGED <<seen, counted>>
      BY <1>2, <1>7 DEF NextFill, Numbered, OfLoop
    <2>2. k < counted[t]
      BY <1>3, <1>4, <1>7 DEF Known
    <2>3. k + 1 + (loop.left - 1) = txs[t].times /\ k + 1 <= counted[t]
      BY <1>3, <1>4, <2>2
    <2>4. Busy' => /\ OfLoop' \in brought' /\ nth'[OfLoop'] + loop'.left = txs'[loop'.tx].times
                   /\ nth'[OfLoop'] <= counted'[loop'.tx]
      BY <1>1, <1>3, <1>5, <1>6, <2>1, <2>3
    <2>5. \A d \in Deliveries : d \notin brought' => nth'[d] = 0
      BY <1>1, <1>3, <1>5 DEF Numbers
    <2>6. ASSUME NEW u \in DOMAIN txs
          PROVE /\ counted'[u] <= txs[u].times
                /\ Known(u)' \/ (Forgotten(u)' /\ loop'.tx # u)
                /\ loop'.tx # u => counted'[u] \in {0, txs[u].times}
      <3>1. counted'[u] = counted[u] /\ seen' = seen
        BY <2>1
      <3>2. Known(u)' \/ (Forgotten(u)' /\ loop'.tx # u)
        BY <1>2, <1>1, <1>6, <3>1 DEF Numbers, Known, Forgotten
      <3> QED
        BY <1>2, <1>6, <3>1, <3>2 DEF Numbers
    <2>7. ASSUME NEW u \in Txs, u \notin DOMAIN txs
          PROVE counted'[u] = 0 /\ \A i \in Nat : <<u, i>> \notin seen'
      BY <2>1, <2>7 DEF Numbers
    <2> QED
      BY <1>1, <1>6, <2>4, <2>5, <2>6, <2>7 DEF Numbers
  <1>8. CASE <<t, k>> \notin seen
    <2>1. seen' = seen \cup {<<t, k>>} /\ counted' = [counted EXCEPT ![t] = @ + 1]
      BY <1>2, <1>8 DEF NextFill, Numbered, OfLoop
    <2>2. k = counted[t] /\ counted[t] + 1 <= txs[t].times
      BY <1>1, <1>3, <1>4, <1>8 DEF Known
    <2>3. counted'[t] = counted[t] + 1 /\ \A u \in Txs : u # t => counted'[u] = counted[u]
      BY <1>3, <2>1 DEF Ranges
    <2>4. Known(t)'
      BY <1>3, <1>4, <2>1, <2>2, <2>3 DEF Known
    <2>5. ASSUME NEW u \in DOMAIN txs
          PROVE /\ counted'[u] <= txs[u].times
                /\ Known(u)' \/ (Forgotten(u)' /\ loop'.tx # u)
                /\ loop'.tx # u => counted'[u] \in {0, txs[u].times}
      <3>1. CASE u = t
        BY <1>6, <2>2, <2>3, <2>4, <3>1
      <3>2. CASE u # t
        <4>1. u \in Txs
          BY ListFacts, CopiesAssumption DEF Ranges, Txs
        <4>2. \A i \in Nat : <<u, i>> \in seen' <=> <<u, i>> \in seen
          BY <2>1, <3>2
        <4>3. counted'[u] = counted[u] /\ loop.tx # u
          BY <1>2, <2>3, <3>2, <4>1
        <4> QED
          BY <1>1, <1>6, <3>2, <4>2, <4>3 DEF Numbers, Known, Forgotten
      <3> QED
        BY <3>1, <3>2
    <2>6. ASSUME NEW u \in Txs, u \notin DOMAIN txs
          PROVE counted'[u] = 0 /\ \A i \in Nat : <<u, i>> \notin seen'
      BY <1>3, <2>1, <2>3, <2>6 DEF Numbers
    <2>7. k + 1 + (loop.left - 1) = txs[t].times /\ k + 1 <= counted'[t]
      BY <1>3, <1>4, <2>2, <2>3
    <2>8. Busy' => /\ OfLoop' \in brought' /\ nth'[OfLoop'] + loop'.left = txs'[loop'.tx].times
                   /\ nth'[OfLoop'] <= counted'[loop'.tx]
      BY <1>1, <1>3, <1>5, <1>6, <2>7
    <2>9. \A d \in Deliveries : d \notin brought' => nth'[d] = 0
      BY <1>1, <1>3, <1>5 DEF Numbers
    <2> QED
      BY <1>1, <1>6, <2>5, <2>6, <2>8, <2>9 DEF Numbers
  <1> QED
    BY <1>7, <1>8

\* A transaction that RaceBook forgets has been brought by every feed.
LEMMA NumbersEvict ==
  ASSUME Once, Ranges, Numbers, NEW t \in Txs, Evict(t) PROVE Numbers'
  <1>1. /\ ~Busy /\ loop.tx = 0 /\ seen' = {mark \in seen : mark[1] # t}
        /\ nth' \in {nth, [d \in Deliveries |-> 0]}
        /\ brought' = brought \cup (Sources \X {t})
        /\ UNCHANGED <<txs, loop, counted>>
    BY DEF Evict, Once, Busy, Ranges, history
  <1>2. \A d \in Deliveries : d \notin brought' => nth'[d] = 0
    BY <1>1 DEF Numbers
  <1>3. \A u \in Txs, i \in Nat : <<u, i>> \in seen' <=> (<<u, i>> \in seen /\ u # t)
    BY <1>1
  <1>4. ASSUME NEW u \in DOMAIN txs PROVE Known(u)' \/ (Forgotten(u)' /\ loop'.tx # u)
    <2>1. u \in Txs /\ u # 0
      BY ListFacts, CopiesAssumption DEF Ranges, Txs
    <2>2. CASE u = t
      BY <1>1, <1>3, <2>1, <2>2 DEF Forgotten
    <2>3. CASE u # t
      BY <1>1, <1>3, <2>1, <2>3 DEF Numbers, Known, Forgotten
    <2> QED
      BY <2>2, <2>3
  <1> QED
    BY <1>1, <1>2, <1>3, <1>4 DEF Numbers, Busy

\* Every step keeps the numbers.
LEMMA NumbersStep ==
  ASSUME Once, Ranges, Numbers, [CopiesNext]_copiesVars PROVE Numbers'
  <1>1. CASE UNCHANGED copiesVars
    BY <1>1, NumbersStay DEF copiesVars, feeds, dedupe, history, Busy
  <1>2. ASSUME NEW d \in Deliveries, Deliver(d[1], d[2]) PROVE Numbers'
    <2>1. d[1] \in Sources /\ d[2] \in Txs
      BY DEF Deliveries
    <2> QED
      BY <1>2, <2>1, NumbersDeliver
  <1>3. CASE LastFill
    <2>1. /\ Busy /\ loop.left = 0 /\ ~Busy' /\ loop'.tx = 0
          /\ UNCHANGED <<txs, brought, seen, nth, counted>>
      BY <1>3 DEF LastFill, Busy, Idle, feeds, dedupe, history
    <2>2. /\ loop.tx \in DOMAIN txs /\ loop.tx # 0 /\ counted[loop.tx] \in Nat
          /\ txs[loop.tx].times \in Nat /\ nth[OfLoop] \in Nat
      BY <2>1, LoopFacts DEF Ranges, TxRec, Txs
    <2>3. counted[loop.tx] = txs[loop.tx].times
      BY <2>1, <2>2 DEF Numbers
    <2>4. ASSUME NEW t \in DOMAIN txs
          PROVE /\ Known(t)' \/ (Forgotten(t)' /\ loop'.tx # t)
                /\ loop'.tx # t => counted'[t] \in {0, txs[t].times}
      <3>1. t # 0
        BY ListFacts DEF Ranges
      <3> QED
        BY <2>1, <2>3, <3>1 DEF Numbers, Known, Forgotten
    <2> QED
      BY <2>1, <2>4 DEF Numbers
  <1>4. CASE Pass \/ (\E busy \in BOOLEAN : Fire(busy)) \/ \E pad \in Pads : Decide(pad)
    <2>1. /\ Busy /\ UNCHANGED <<txs, brought, seen, nth, counted>>
          /\ \/ loop' = Resumed
             \/ \E n : loop' = [loop EXCEPT !.stage = "fire", !.shares = n]
      BY <1>4 DEF Pass, Fire, Decide, Busy, feeds, dedupe, history
    <2>2. Busy' /\ loop'.tx = loop.tx /\ loop'.src = loop.src /\ loop'.left = loop.left
      BY <2>1 DEF Resumed, Busy, Ranges, Loops
    <2> QED
      BY <2>1, <2>2, NumbersStay
  <1>5. CASE \/ \E s \in HisOrders : \E k \in DOMAIN out[s] : \E m \in Matched(out[s][k]) :
                  Answer(s, k, m)
             \/ \E gain \in Realised : Rescale(gain)
             \/ \E p \in Offers : Reprice(p)
    <2>1. UNCHANGED <<txs, brought, seen, nth, counted, loop>>
      BY <1>5 DEF Answer, Rescale, Reprice, feeds, dedupe, history
    <2> QED
      BY <2>1, NumbersStay DEF Busy
  <1> QED
    BY <1>1, <1>2, <1>3, <1>4, <1>5, NumbersTrade, NumbersFill, NumbersEvict
       DEF CopiesNext, Loop, Beside

\* What is counted of a transaction is what it has got him, or less until the loop is
\* done with it.
LEMMA CountedOnce ==
  ASSUME Ranges, Numbers PROVE FillsCountOnce
  <1> SUFFICES ASSUME NEW t \in DOMAIN txs
               PROVE LET shares == counted[t] * txs[t].n IN
                     IF shares > 0 /\ loop.tx # t THEN shares = txs[t].got
                     ELSE shares <= txs[t].got
    BY DEF FillsCountOnce
  <1>1. PICK c \in Nat, n \in Nat, m \in Nat : c = counted[t] /\ n = txs[t].n /\ m = txs[t].times
    <2>1. t \in Txs /\ txs[t] \in TxRec
      BY ListFacts, CopiesAssumption DEF Ranges, Txs
    <2> QED
      BY <2>1, CopiesAssumption DEF Ranges, TxRec
  <1>2. txs[t].got = n * m /\ c <= m /\ (loop.tx # t => c = 0 \/ c = m)
    BY <1>1 DEF Ranges, Numbers
  <1>3. c * n \in Nat /\ m * n \in Nat /\ c * n <= m * n /\ n * m = m * n
    BY <1>2, MulGrows
  <1>4. c = 0 => c * n = 0
    OBVIOUS
  <1> QED
    BY <1>1, <1>2, <1>3, <1>4

-----------------------------------------------------------------------------
(* The guard's total is of what he has filled.                               *)

\* What was counted of an order's transactions adds up to a number of shares, no more
\* than they have got him.
LEMMA CreditFacts ==
  ASSUME Ranges, NEW s \in HisOrders
  PROVE /\ IsFiniteSet(DOMAIN txs)
        /\ \A t \in DOMAIN txs : Credit(s)[t] \in Nat
        /\ Numbers /\ Credited => SumFunctionOnSet(Credit(s), DOMAIN txs) <= Real(txs, s)
  <1>1. txs \in TxList /\ IsFiniteSet(DOMAIN txs)
    BY RealNat DEF Ranges
  <1>2. ASSUME NEW t \in DOMAIN txs
        PROVE Credit(s)[t] \in Nat /\ (Numbers /\ Credited => Credit(s)[t] <= RealOf(txs, s)[t])
    <2>1. PICK c \in Nat, n \in Nat, m \in Nat :
            c = counted[t] /\ n = txs[t].n /\ m = txs[t].times
      <3>1. t \in Txs /\ txs[t] \in TxRec
        BY ListFacts, CopiesAssumption DEF Ranges, Txs
      <3> QED
        BY <3>1, CopiesAssumption DEF Ranges, TxRec
    <2>2. Credit(s)[t] = IF txs[t].salt = s THEN c * n ELSE 0
      BY <2>1 DEF Credit
    <2>3. c * n \in Nat
      BY <2>1
    <2>4. ASSUME Numbers, Credited PROVE Credit(s)[t] <= RealOf(txs, s)[t]
      <3>1. txs[t].got = n * m /\ c <= m /\ txs[t].real
        BY <2>1, <2>4 DEF Ranges, Numbers, Credited
      <3>2. c * n <= m * n /\ n * m = m * n /\ m * n \in Nat
        BY <3>1, MulGrows
      <3>3. RealOf(txs, s)[t] = IF txs[t].salt = s THEN m * n ELSE 0
        BY <3>1, <3>2 DEF RealOf
      <3> QED
        BY <2>2, <2>3, <3>2, <3>3
    <2> QED
      BY <2>2, <2>3, <2>4
  <1>3. ASSUME Numbers, Credited
        PROVE SumFunctionOnSet(Credit(s), DOMAIN txs) <= Real(txs, s)
    <2>1. \A t \in DOMAIN txs : /\ Credit(s)[t] \in Int /\ RealOf(txs, s)[t] \in Int
                              /\ Credit(s)[t] <= RealOf(txs, s)[t]
      BY <1>1, <1>2, <1>3, RealNat
    <2>2. SumFunctionOnSet(Credit(s), DOMAIN txs) <= SumFunctionOnSet(RealOf(txs, s), DOMAIN txs)
      BY <1>1, <2>1, SumLe
    <2> QED
      BY <1>1, <2>2, RealNat
  <1> QED
    BY <1>1, <1>2, <1>3

\* Before he has traded there is nothing to add up.
LEMMA CreditedAtInit == CopiesInit => Credited
  <1> SUFFICES ASSUME CopiesInit PROVE Credited
    OBVIOUS
  <1>1. /\ txs = <<>> /\ DOMAIN txs = {} /\ filled = [s \in HisOrders |-> 0]
    BY DEF CopiesInit
  <1>2. \A f : SumFunctionOnSet(f, DOMAIN txs) = 0
    BY <1>1, SumEmpty
  <1> QED
    BY <1>1, <1>2 DEF Credited

\* A step that leaves the transactions, their counts and the guard's totals.
LEMMA CreditedStays ==
  ASSUME Credited, UNCHANGED <<txs, counted, filled>> PROVE Credited'
  BY DEF Credited, Credit

\* A trade of his adds nothing to what was counted.
LEMMA CreditedTrade ==
  ASSUME Honest, Ranges, Numbers, Credited, NEW s \in HisOrders,
         NEW trade \in Trades, NEW real \in BOOLEAN, trade.n \in Fills,
         HeTrades(s, trade, real)
  PROVE  Credited'
  <1> DEFINE r == [salt |-> s, n |-> trade.n, times |-> trade.times, got |-> trade.got,
                   real |-> real]
             new == Len(txs) + 1
  <1>1. r \in TxRec
    BY TradeFacts
  <1>2. /\ txs' = Append(txs, r) /\ Len(txs) < MaxTx /\ r.real
    BY DEF HeTrades, MayPretend, Honest
  <1>3. UNCHANGED <<counted, filled>>
    BY DEF HeTrades, guard, history
  <1>5. txs \in TxList /\ Len(txs) \in Nat /\ DOMAIN txs = 1 .. Len(txs)
    BY ListFacts DEF Ranges
  <1> HIDE DEF r
  <1>6. /\ DOMAIN txs' = DOMAIN txs \cup {new} /\ new \notin DOMAIN txs /\ new \in Txs
        /\ \A t \in DOMAIN txs : txs'[t] = txs[t]
        /\ txs'[new] = r /\ txs' \in TxList
    BY <1>1, <1>2, <1>5, ListGrows, CopiesAssumption DEF Txs
  <1>7. counted[new] = 0
    BY <1>6 DEF Numbers
  <1> HIDE DEF new
  <1>8. IsFiniteSet(DOMAIN txs)
    BY <1>5, RealNat
  <1>9. \A t \in DOMAIN txs' : txs'[t].real
    BY <1>2, <1>6 DEF Credited
  <1>10. ASSUME NEW u \in HisOrders
         PROVE filled'[u] <= SumFunctionOnSet(Credit(u)', DOMAIN txs')
    <2>1. \A t \in DOMAIN txs : Credit(u)'[t] = Credit(u)[t]
      BY <1>3, <1>6 DEF Credit
    <2>2. Credit(u)'[new] = 0
      <3>1. r.n \in Nat
        BY <1>1, CopiesAssumption DEF TxRec
      <3> QED
        BY <1>3, <1>6, <1>7, <3>1 DEF Credit
    <2>3. \A t \in DOMAIN txs : Credit(u)[t] \in Nat
      BY CreditFacts
    <2>4. PICK f : f = Credit(u)'
      OBVIOUS
    <2>5. SumFunctionOnSet(f, DOMAIN txs) = SumFunctionOnSet(Credit(u), DOMAIN txs)
      BY <1>8, <2>1, <2>4, SumSame
    <2>6. SumFunctionOnSet(f, DOMAIN txs \cup {new}) = f[new] + SumFunctionOnSet(f, DOMAIN txs)
      <3>1. \A t \in DOMAIN txs \cup {new} : f[t] \in Int
        BY <2>1, <2>2, <2>3, <2>4
      <3> QED
        BY <1>6, <1>8, <3>1, SumAdd
    <2>7. SumFunctionOnSet(Credit(u), DOMAIN txs) \in Nat
      BY <1>8, <2>3, SumNat
    <2> QED
      BY <1>3, <1>6, <2>2, <2>4, <2>5, <2>6, <2>7 DEF Credited
  <1> QED
    BY <1>9, <1>10 DEF Credited

\* A fill adds no more to the guard's total than to what was counted.
LEMMA CreditedFill ==
  ASSUME Ranges, Credited, NextFill PROVE Credited'
  <1>1. Busy /\ UNCHANGED txs
    BY DEF NextFill, feeds, Busy
  <1>2. PICK t \in Txs, s \in HisOrders, n \in Nat : t = loop.tx /\ s = Salt /\ n = Size
    BY <1>1, LoopFacts
  <1>3. /\ t \in DOMAIN txs /\ t \in Txs /\ s \in HisOrders /\ txs[t].salt = s /\ txs[t].n = n
    BY <1>1, <1>2, LoopFacts DEF Salt, Size
  <1>4. CASE <<loop.tx, Numbered(OfLoop)>> \in seen
    BY <1>1, <1>4, CreditedStays DEF NextFill, OfLoop
  <1>5. CASE <<loop.tx, Numbered(OfLoop)>> \notin seen
    <2>1. /\ filled' = [filled EXCEPT ![s] = RunningTotal(s, n)]
          /\ counted' = [counted EXCEPT ![t] = @ + 1]
      BY <1>2, <1>5 DEF NextFill, OfLoop
    <2>2. /\ counted \in [Txs -> Nat] /\ filled \in [HisOrders -> 0 .. HisSize]
          /\ filled[s] \in Nat /\ HisSize \in Nat
      BY <1>3, CopiesAssumption DEF Ranges
    <2>3. filled'[s] <= filled[s] + n
      BY <1>3, <2>1, <2>2 DEF RunningTotal, Bounded
    <2>4. \A u \in HisOrders : u # s => filled'[u] = filled[u]
      BY <2>1, <2>2
    <2>5. counted'[t] = counted[t] + 1 /\ \A w \in Txs : w # t => counted'[w] = counted[w]
      BY <1>3, <2>1, <2>2
    <2>6. DOMAIN txs \subseteq Txs
      BY ListFacts, CopiesAssumption DEF Ranges, Txs
    <2>7. PICK c \in Nat : c = counted[t]
      BY <1>3, <2>2
    <2>8. (c + 1) * n = c * n + n /\ c * n \in Nat
      OBVIOUS
    <2>9. ASSUME NEW u \in HisOrders
          PROVE filled'[u] <= SumFunctionOnSet(Credit(u)', DOMAIN txs')
      <3>1. IsFiniteSet(DOMAIN txs) /\ \A w \in DOMAIN txs : Credit(u)[w] \in Nat
        BY CreditFacts
      <3>2. PICK f, g : f = Credit(u) /\ g = Credit(u)'
        OBVIOUS
      <3>3. \A w \in DOMAIN txs \ {t} : f[w] = g[w]
        BY <1>1, <2>5, <2>6, <3>2 DEF Credit
      <3>4. g[t] = (IF s = u THEN c * n + n ELSE 0) /\ f[t] = (IF s = u THEN c * n ELSE 0)
        BY <1>1, <1>3, <2>5, <2>7, <2>8, <3>2 DEF Credit
      <3>5. \A w \in DOMAIN txs : f[w] \in Int /\ g[w] \in Int
        <4>1. \A w \in DOMAIN txs : f[w] \in Int
          BY <3>1, <3>2
        <4>2. g[t] \in Int
          BY <2>8, <3>4
        <4> QED
          BY <3>3, <4>1, <4>2
      <3>6. SumFunctionOnSet(g, DOMAIN txs) = SumFunctionOnSet(f, DOMAIN txs) + (g[t] - f[t])
        <4>1. PICK D : D = DOMAIN txs
          OBVIOUS
        <4>2. IsFiniteSet(D) /\ t \in D /\ \A w \in D : f[w] \in Int /\ g[w] \in Int
          BY <1>3, <3>1, <3>5, <4>1
        <4>3. \A w \in D \ {t} : f[w] = g[w]
          BY <3>3, <4>1
        <4>4. SumFunctionOnSet(g, D) = SumFunctionOnSet(f, D) + (g[t] - f[t])
          BY <4>2, <4>3, SumUpdate
        <4> QED
          BY <4>1, <4>4
      <3>7. SumFunctionOnSet(f, DOMAIN txs) \in Int
        BY <3>1, <3>5, SumInt
      <3>8. filled[u] \in Nat /\ filled[u] <= SumFunctionOnSet(f, DOMAIN txs)
        BY <2>2, <3>2, CopiesAssumption DEF Credited
      <3>9. filled'[u] <= SumFunctionOnSet(g, DOMAIN txs)
        <4>1. CASE u = s
          <5>1. g[t] - f[t] = n
            BY <2>8, <3>4, <4>1
          <5>2. filled'[s] \in Int
            BY <1>3, <2>1, <2>2 DEF RunningTotal, Bounded
          <5> QED
            BY <2>3, <3>6, <3>7, <3>8, <4>1, <5>1, <5>2
        <4>2. CASE u # s
          BY <2>4, <3>4, <3>6, <3>7, <3>8, <4>2
        <4> QED
          BY <4>1, <4>2
      <3> QED
        BY <1>1, <3>2, <3>9
    <2> QED
      BY <1>1, <2>9 DEF Credited
  <1> QED
    BY <1>4, <1>5

\* Every step leaves the guard's totals within what was counted.
LEMMA CreditedStep ==
  ASSUME Honest, Ranges, Numbers, Credited, [CopiesNext]_copiesVars
  PROVE  Credited'
  <1>1. CASE UNCHANGED copiesVars
    BY <1>1, CreditedStays DEF copiesVars, feeds, guard, history
  <1>2. CASE \/ \E d \in Deliveries : Deliver(d[1], d[2])
             \/ LastFill \/ Pass \/ (\E busy \in BOOLEAN : Fire(busy))
             \/ \E pad \in Pads : Decide(pad)
    BY <1>2, CreditedStays DEF Deliver, LastFill, Pass, Fire, Decide, feeds, guard, history
  <1>3. CASE Beside
    BY <1>3, CreditedStays DEF Beside, Answer, Rescale, Reprice, Evict, feeds, guard, history
  <1> QED
    BY <1>1, <1>2, <1>3, CreditedTrade, CreditedFill DEF CopiesNext, Loop

-----------------------------------------------------------------------------
(* A lane holds its share.                                                   *)

\* Before he has traded the lane holds nothing.
LEMMA SharedAtInit == CopiesInit => Shared
  <1> SUFFICES ASSUME CopiesInit PROVE Shared
    OBVIOUS
  <1>1. ~Deciding /\ loop.stage = "idle"
    BY DEF CopiesInit, Deciding, Idle
  <1>2. ASSUME NEW s \in HisOrders PROVE Within(HeldOf(s), filled[s], peak, raised)
    <2>1. HeldOf(s) = 0 /\ filled[s] = 0 /\ peak = 0
      BY DEF CopiesInit, HeldOf
    <2> QED
      BY <2>1, ShareGrows DEF Within
  <1> QED
    BY <1>1, <1>2 DEF Shared

\* A step that leaves what the lane holds, and the fill that is decided on.
LEMMA SharedStays ==
  ASSUME Shared, UNCHANGED <<filled, copied, released, peak, raised>>,
         Deciding' => UNCHANGED <<loop, Salt>>
  PROVE  Shared'
  BY DEF Shared, Deciding, HeldOf, Within, ShareOf

\* A fill that was counted is read with what the lane holds, and takes part in it.
LEMMA SharedFill ==
  ASSUME Ranges, Shared, NextFill PROVE Shared'
  <1>1. Busy /\ loop.stage = "fills" /\ UNCHANGED <<txs, copied, released, peak, raised>>
    BY DEF NextFill, feeds, Busy
  <1>2. CASE <<loop.tx, Numbered(OfLoop)>> \in seen
    <2>1. loop' = [loop EXCEPT !.left = @ - 1] /\ UNCHANGED filled
      BY <1>2 DEF NextFill, OfLoop
    <2>2. loop'.stage = "fills"
      BY <1>1, <2>1 DEF Ranges, Loops
    <2> QED
      BY <1>1, <2>1, <2>2, SharedStays DEF Deciding
  <1>3. CASE <<loop.tx, Numbered(OfLoop)>> \notin seen
    <2>1. PICK s \in HisOrders, n \in Nat : s = Salt /\ n = Size
      BY <1>1, LoopFacts
    <2>2. PICK f \in Nat, held \in Int : f = filled[s] /\ held = copied[s] - released[s]
      BY <2>1, CopiesAssumption DEF Ranges
    <2>3. PICK his \in Nat, mine \in Nat :
            /\ his = RunningTotal(s, n) /\ mine = Monus(copied[s], released[s])
            /\ f <= his /\ held <= mine /\ (mine = held \/ mine = 0)
      <3>1. f <= HisSize /\ HisSize \in Nat
        BY <2>1, <2>2, CopiesAssumption DEF Ranges
      <3>2. RunningTotal(s, n) \in Nat /\ f <= RunningTotal(s, n)
        BY <2>2, <3>1 DEF RunningTotal, Bounded
      <3>3. copied[s] \in Int /\ released[s] \in Int
        BY <2>1 DEF Ranges
      <3>4. LET m == Monus(copied[s], released[s]) IN
            m \in Nat /\ held <= m /\ (m = held \/ m = 0)
        BY <2>2, <3>3 DEF Monus
      <3> QED
        BY <3>2, <3>4
    <2>4. /\ filled' = [filled EXCEPT ![s] = his]
          /\ loop' = [loop EXCEPT !.stage = "decide", !.left = @ - 1, !.his = his, !.mine = mine]
      BY <1>3, <2>1, <2>3 DEF NextFill, OfLoop
    <2>5. loop'.stage = "decide" /\ loop'.his = his /\ loop'.mine = mine /\ loop'.tx = loop.tx
      BY <2>4 DEF Ranges, Loops
    <2>6. /\ filled'[s] = his /\ \A u \in HisOrders : u # s => filled'[u] = filled[u]
          /\ \A u \in HisOrders : HeldOf(u)' = HeldOf(u)
      BY <1>1, <2>4 DEF Ranges, HeldOf
    <2>7. HeldOf(s) = held /\ Within(held, f, peak, raised)
      BY <2>2 DEF HeldOf, Shared
    <2>13. peak \in Nat /\ raised \in BOOLEAN
      BY DEF Ranges
    <2>8. Within(mine, his, peak, raised)
      <3>1. CASE mine = held
        BY <2>3, <2>7, <2>13, <3>1, WithinGrows
      <3>2. CASE mine = 0
        <4>1. ShareOf(his, peak) \in Nat
          BY <2>13, ShareGrows
        <4> QED
          BY <3>2, <4>1 DEF Within
      <3> QED
        BY <2>3, <3>1, <3>2
    <2>9. Within(held, his, peak, raised)
      BY <2>3, <2>7, <2>13, WithinGrows
    <2>10. ASSUME NEW u \in HisOrders PROVE Within(HeldOf(u)', filled'[u], peak, raised)
      <3>1. CASE u = s
        BY <2>6, <2>7, <2>9, <3>1
      <3>2. CASE u # s
        BY <2>6, <3>2 DEF Shared
      <3> QED
        BY <3>1, <3>2
    <2>11. Salt' = s
      BY <1>1, <2>1, <2>5 DEF Salt
    <2>12. /\ HeldOf(Salt)' <= loop'.mine /\ Within(loop'.mine, loop'.his, peak, raised)
           /\ loop'.his <= filled'[Salt']
      <3>1. HeldOf(Salt)' = HeldOf(s)'
        BY <2>11 DEF HeldOf
      <3> QED
        BY <2>3, <2>5, <2>6, <2>7, <2>8, <2>11, <3>1
    <2> QED
      BY <1>1, <2>5, <2>10, <2>12 DEF Shared
  <1> QED
    BY <1>2, <1>3

\* What is decided leaves the lane within its share, and is what is sent.
LEMMA SharedDecide ==
  ASSUME Ranges, Shared, NEW pad \in Pads, Decide(pad) PROVE Shared'
  <1>1. Busy /\ Deciding /\ UNCHANGED <<txs, filled, copied, released>>
    BY DEF Decide, feeds, guard, Busy, Deciding
  <1>2. CASE loop' = Resumed /\ UNCHANGED <<peak, raised>>
    <2>1. ~Deciding'
      BY <1>2 DEF Resumed, Deciding, Ranges, Loops
    <2> QED
      BY <1>1, <1>2, <2>1, SharedStays
  <1>3. CASE ~(loop' = Resumed /\ UNCHANGED <<peak, raised>>)
    <2> DEFINE clamped == Bounded(loop.his, HisSize)
               lifts == Raises(Target(clamped, loop.mine, pad), loop.mine)
    <2>1. PICK n : /\ n = Sized(clamped, loop.mine, pad) /\ n > 0
                   /\ loop' = [loop EXCEPT !.stage = "fire", !.shares = n]
                   /\ peak' = (IF EffectivePct > peak THEN EffectivePct ELSE peak)
                   /\ raised' = (raised \/ lifts)
      BY <1>3 DEF Decide
    <2>2. PICK his \in Nat, mine \in Nat : his = loop.his /\ mine = loop.mine
      BY DEF Ranges, Loops
    <2>3. Bounded(his, HisSize) = his
      <3>1. his <= filled[Salt] /\ filled[Salt] \in 0 .. HisSize
        BY <1>1, <2>2, LoopFacts DEF Shared, Ranges
      <3> QED
        BY <3>1, CopiesAssumption DEF Bounded
    <2>4. PICK e \in Nat, l \in BOOLEAN :
            e = EffectivePct /\ l = lifts /\ n \in Nat /\ Within(mine + n, his, e, l)
      <3>1. scale \in Nat /\ Followed(policy)
        BY DEF Ranges
      <3>2. /\ n \in Nat /\ EffectivePct \in Nat /\ lifts \in BOOLEAN
            /\ Within(mine + n, his, EffectivePct, lifts)
        BY <2>1, <2>2, <2>3, <3>1, SizedWithin
      <3> HIDE DEF lifts
      <3> QED
        BY <3>2
    <2> HIDE DEF lifts, clamped
    <2>13. PICK q \in Nat, t \in BOOLEAN :
             /\ q = peak' /\ t = raised' /\ peak \in Nat /\ peak <= q /\ e <= q
             /\ (raised => t) /\ (l => t) /\ raised \in BOOLEAN
      <3>1. peak \in Nat /\ peak' \in Nat /\ peak <= peak' /\ e <= peak'
        BY <2>1, <2>4 DEF Ranges
      <3>2. raised \in BOOLEAN /\ raised' \in BOOLEAN /\ (raised => raised') /\ (l => raised')
        BY <2>1, <2>4 DEF Ranges
      <3> QED
        BY <3>1, <3>2
    <2>9. Within(mine + n, his, peak', raised')
      <3>1. mine + n \in Int /\ mine + n <= mine + n /\ his <= his
        BY <2>4
      <3>2. Within(mine + n, his, q, t)
        BY <2>4, <2>13, <3>1, WithinGrows
      <3> QED
        BY <2>13, <3>2
    <2>10. Within(mine, his, peak', raised')
      <3>1. Within(mine, his, peak, raised)
        BY <1>1, <2>2 DEF Shared
      <3>2. mine \in Int /\ mine <= mine /\ his <= his
        OBVIOUS
      <3>3. Within(mine, his, q, t)
        BY <2>13, <3>1, <3>2, WithinGrows
      <3> QED
        BY <2>13, <3>3
    <2>11. ASSUME NEW u \in HisOrders PROVE Within(HeldOf(u)', filled'[u], peak', raised')
      <3>1. PICK f \in Nat, h \in Int : f = filled[u] /\ h = HeldOf(u)
        BY CopiesAssumption DEF Ranges, HeldOf
      <3>2. Within(h, f, peak, raised)
        BY <3>1 DEF Shared
      <3>4. h <= h /\ f <= f
        OBVIOUS
      <3>5. Within(h, f, q, t)
        BY <2>13, <3>2, <3>4, WithinGrows
      <3>3. Within(h, f, peak', raised')
        BY <2>13, <3>5
      <3> QED
        BY <1>1, <3>1, <3>3 DEF HeldOf
    <2>5. /\ loop'.stage = "fire" /\ loop'.shares = n /\ loop'.mine = mine /\ loop'.his = his
          /\ loop'.tx = loop.tx
      BY <2>1, <2>2 DEF Ranges, Loops
    <2>6. Salt' = Salt
      BY <1>1, <2>5 DEF Salt
    <2>12. HeldOf(Salt)' <= loop'.mine /\ loop'.his <= filled'[Salt']
      BY <1>1, <2>2, <2>5, <2>6 DEF Shared, HeldOf
    <2> QED
      BY <2>5, <2>9, <2>10, <2>11, <2>12 DEF Shared
  <1> QED
    BY <1>2, <1>3

\* A buy that is sent takes the lane to what was decided, and not above.
LEMMA SharedFire ==
  ASSUME Ranges, Shared, NEW busy \in BOOLEAN, Fire(busy) PROVE Shared'
  <1>1. Busy /\ loop.stage = "fire" /\ ~Deciding' /\ UNCHANGED <<filled, released, peak, raised>>
    BY DEF Fire, Busy, Deciding, Resumed, Ranges, Loops, history
  <1>2. CASE UNCHANGED copied
    BY <1>1, <1>2, SharedStays
  <1>3. CASE copied' = [copied EXCEPT ![Salt] = @ + loop.shares]
    <2>1. PICK s \in HisOrders, n \in Nat, his \in Nat, mine \in Nat :
            s = Salt /\ n = loop.shares /\ his = loop.his /\ mine = loop.mine
      BY <1>1, LoopFacts DEF Ranges, Loops
    <2>2. PICK f \in Nat, held \in Int : f = filled[s] /\ held = HeldOf(s)
      BY CopiesAssumption DEF Ranges, HeldOf
    <2>3. held <= mine /\ his <= f /\ Within(mine + n, his, peak, raised)
      BY <1>1, <2>1, <2>2 DEF Shared, Deciding
    <2>4. Within(held + n, f, peak, raised)
      BY <2>3, WithinGrows DEF Ranges
    <2>5. HeldOf(s)' = held + n /\ \A u \in HisOrders : u # s => HeldOf(u)' = HeldOf(u)
      BY <1>1, <1>3, <2>1, <2>2 DEF HeldOf, Ranges
    <2>6. ASSUME NEW u \in HisOrders PROVE Within(HeldOf(u)', filled'[u], peak, raised)
      BY <1>1, <2>2, <2>4, <2>5 DEF Shared
    <2> QED
      BY <1>1, <2>6 DEF Shared, Deciding
  <1> QED
    BY <1>2, <1>3 DEF Fire

\* An answer gives back, and takes nothing.
LEMMA SharedAnswer ==
  ASSUME Ranges, Shared, NEW s \in HisOrders, NEW k \in DOMAIN out[s],
         NEW m \in Matched(out[s][k]), Answer(s, k, m)
  PROVE  Shared'
  <1>1. UNCHANGED <<txs, loop, filled, copied, peak, raised>> /\ Salt' = Salt
    BY DEF Answer, feeds, history, Salt
  <1>2. PICK n \in Nat : n = out[s][k] /\ m \in Int /\ m <= n
    <2>1. PICK n \in Nat : n = out[s][k]
      BY ClipsFacts DEF Ranges
    <2>2. m \in Int /\ m <= n
      BY <2>1 DEF Matched
    <2> QED
      BY <2>1, <2>2
  <1>3. released' = [released EXCEPT ![s] = @ + (n - m)]
    BY <1>2 DEF Answer
  <1>4. \A u \in HisOrders : /\ HeldOf(u) \in Int /\ HeldOf(u)' \in Int
                             /\ HeldOf(u)' <= HeldOf(u)
    <2> SUFFICES ASSUME NEW u \in HisOrders
                 PROVE HeldOf(u) \in Int /\ HeldOf(u)' \in Int /\ HeldOf(u)' <= HeldOf(u)
      OBVIOUS
    <2>1. copied[u] \in Int /\ released[u] \in Int
      BY DEF Ranges
    <2>2. released'[u] = (IF u = s THEN released[u] + (n - m) ELSE released[u])
      BY <1>3 DEF Ranges
    <2> QED
      BY <1>1, <1>2, <2>1, <2>2 DEF HeldOf
  <1>5. ASSUME NEW u \in HisOrders PROVE Within(HeldOf(u)', filled'[u], peak, raised)
    <2>1. PICK f \in Nat, h \in Int, g \in Int :
            f = filled[u] /\ h = HeldOf(u) /\ g = HeldOf(u)' /\ g <= h
      BY <1>4, CopiesAssumption DEF Ranges
    <2>2. Within(h, f, peak, raised)
      BY <2>1 DEF Shared
    <2>3. Within(g, f, peak, raised)
      BY <2>1, <2>2, WithinGrows DEF Ranges
    <2> QED
      BY <1>1, <2>1, <2>3
  <1>6. Deciding => HeldOf(Salt)' <= loop.mine
    <2> SUFFICES ASSUME Deciding PROVE HeldOf(Salt)' <= loop.mine
      OBVIOUS
    <2>1. PICK u \in HisOrders, mine \in Nat : u = Salt /\ mine = loop.mine
      BY LoopFacts DEF Ranges, Loops, Deciding, Busy
    <2>2. HeldOf(Salt)' = HeldOf(u)' /\ HeldOf(u) <= mine
      BY <1>1, <2>1 DEF Shared, HeldOf
    <2> QED
      BY <1>4, <2>1, <2>2
  <1> QED
    BY <1>1, <1>5, <1>6 DEF Shared, Deciding

\* Every step leaves the lane within its share.
LEMMA SharedStep ==
  ASSUME Ranges, Shared, [CopiesNext]_copiesVars PROVE Shared'
  <1>1. CASE UNCHANGED copiesVars
    BY <1>1, SharedStays DEF copiesVars, feeds, guard, history, Salt
  <1>2. ASSUME NEW s \in HisOrders, NEW trade \in Trades, NEW real \in BOOLEAN,
               trade.n \in Fills, HeTrades(s, trade, real)
        PROVE Shared'
    <2>1. UNCHANGED <<loop, filled, copied, released, peak, raised>>
      BY <1>2 DEF HeTrades, guard, history
    <2>2. Busy => txs'[loop.tx] = txs[loop.tx]
      <3>1. PICK r \in TxRec : txs' = Append(txs, r)
        BY <1>2, TradeFacts DEF HeTrades
      <3> QED
        BY <3>1, ListGrows DEF Ranges
    <2> QED
      BY <2>1, <2>2, SharedStays DEF Deciding, Busy, Salt
  <1>3. CASE LastFill \/ Pass \/ \E d \in Deliveries : Deliver(d[1], d[2])
    <2>1. UNCHANGED <<filled, copied, released, peak, raised>>
      BY <1>3 DEF LastFill, Pass, Deliver, guard, history
    <2>2. ~Deciding'
      <3>1. CASE LastFill \/ Pass
        <4>1. loop' \in {Idle, Resumed} /\ loop \in Loops
          BY <3>1 DEF LastFill, Pass, Ranges
        <4>2. Idle.stage = "idle" /\ Resumed.stage = "fills"
          BY <4>1 DEF Idle, Resumed, Loops
        <4> QED
          BY <4>1, <4>2 DEF Deciding
      <3>2. CASE \E d \in Deliveries : Deliver(d[1], d[2])
        <4>1. loop'.stage = "fills"
          BY <3>2 DEF Deliver, Idle
        <4> QED
          BY <4>1 DEF Deciding
      <3> QED
        BY <1>3, <3>1, <3>2
    <2> QED
      BY <2>1, <2>2, SharedStays
  <1>4. CASE \/ \E gain \in Realised : Rescale(gain)
             \/ \E p \in Offers : Reprice(p)
             \/ \E t \in Txs : Evict(t)
    <2>1. UNCHANGED <<txs, loop, filled, copied, released, peak, raised>>
      BY <1>4 DEF Rescale, Reprice, Evict, feeds, guard, history
    <2> QED
      BY <2>1, SharedStays DEF Salt
  <1> QED
    BY <1>1, <1>2, <1>3, <1>4, SharedFill, SharedDecide, SharedFire, SharedAnswer
       DEF CopiesNext, Loop, Beside

-----------------------------------------------------------------------------
(* The rate halt.                                                            *)

\* A lane that holds more than the halt tolerates has copied more than the tolerance, or
\* was raised to the minimum.
LEMMA OvercopiedFacts ==
  ASSUME Ranges, Shared, Deciding, Overcopied
  PROVE  peak * 100 > Pct * Tolerance \/ raised
  <1> SUFFICES ASSUME ~raised PROVE peak * 100 > Pct * Tolerance
    OBVIOUS
  <1>1. PICK his \in Nat, mine \in Nat, p \in Nat :
          /\ his = loop.his /\ mine = loop.mine /\ p = peak /\ mine <= ShareOf(his, p)
    BY DEF Ranges, Loops, Shared, Within
  <1>2. PICK rate \in Nat : rate = Pct * Tolerance
    BY CopiesAssumption
  <1>3. his * Pct * Tolerance = his * rate
    <2>1. Pct \in Nat /\ Tolerance \in Nat
      BY CopiesAssumption
    <2> QED
      BY <1>2, <2>1
  <1>4. mine * 10000 > his * rate
    BY <1>1, <1>3 DEF Overcopied
  <1>5. PICK y \in Nat : y = his * p
    OBVIOUS
  <1>6. mine * 100 <= y
    <2>1. mine <= y \div 100
      BY <1>1, <1>5 DEF ShareOf
    <2> QED
      BY <2>1
  <1>7. y * 100 > his * rate
    <2>1. PICK z \in Nat : z = his * rate
      OBVIOUS
    <2> QED
      BY <1>4, <1>6, <2>1
  <1>8. ASSUME p * 100 <= rate PROVE FALSE
    <2>1. (p * 100) * his <= rate * his /\ (p * 100) * his \in Nat /\ rate * his \in Nat
      BY <1>8, MulGrows
    <2>2. (p * 100) * his = y * 100 /\ rate * his = his * rate
      BY <1>5
    <2> QED
      BY <1>7, <2>1, <2>2
  <1> QED
    BY <1>1, <1>2, <1>8

\* What the lane has copied at, and has been raised to, is not forgotten, and it is halted
\* for nothing else.
LEMMA HaltStep ==
  ASSUME Ranges, Shared, RateHaltIsJust, [CopiesNext]_copiesVars PROVE RateHaltIsJust'
  <1> DEFINE over == peak * 100 > Pct * Tolerance \/ raised
  <1>1. over => over'
    <2>1. UNCHANGED <<peak, raised>> \/ \E pad \in Pads : Decide(pad)
      BY DEF CopiesNext, HeTrades, Loop, Beside, Deliver, NextFill, LastFill, Pass, Fire,
             Answer, Rescale, Reprice, Evict, copiesVars, history
    <2>2. ASSUME NEW pad \in Pads, Decide(pad) PROVE over => over'
      <3>1. PICK p \in Nat, e \in Nat, rate \in Nat :
              p = peak /\ e = EffectivePct /\ rate = Pct * Tolerance
        <4>1. EffectivePct \in Nat
          <5>1. loop.his \in Nat /\ loop.mine \in Nat
            BY DEF Ranges, Loops
          <5> QED
            BY <5>1, SizedWithin DEF Ranges
        <4> QED
          BY <4>1, CopiesAssumption DEF Ranges
      <3>2. peak' = p \/ (peak' = e /\ e > p)
        BY <2>2, <3>1 DEF Decide
      <3>3. raised => raised'
        BY <2>2 DEF Decide
      <3>4. p * 100 > rate => peak' * 100 > rate
        BY <3>1, <3>2
      <3> QED
        BY <3>1, <3>3, <3>4
    <2> QED
      BY <2>1, <2>2
  <1>2. ASSUME NEW busy \in BOOLEAN, Fire(busy), Overcopied PROVE over
    BY <1>2, OvercopiedFacts DEF Fire, Deciding
  <1>3. halted' => halted \/ \E busy \in BOOLEAN : Fire(busy) /\ Overcopied
    <2>1. UNCHANGED halted \/ \E busy \in BOOLEAN : Fire(busy)
      BY DEF CopiesNext, HeTrades, Loop, Beside, Deliver, NextFill, LastFill, Pass, Decide,
             Answer, Rescale, Reprice, Evict, copiesVars
    <2>2. ASSUME NEW busy \in BOOLEAN, Fire(busy), ~Overcopied PROVE UNCHANGED halted
      BY <2>2 DEF Fire
    <2> QED
      BY <2>1, <2>2
  <1>4. RateHaltIsJust = (halted => over)
    BY DEF RateHaltIsJust
  <1>5. RateHaltIsJust' = (halted' => over')
    BY DEF RateHaltIsJust
  <1> HIDE DEF over
  <1> QED
    BY <1>1, <1>2, <1>3, <1>4, <1>5

-----------------------------------------------------------------------------
(* The theorems.                                                             *)

\* The invariant is inductive.
LEMMA CopiesInductive ==
  (CopiesInit => CInv) /\ (CInv /\ [CopiesNext]_copiesVars => CInv')
  <1>1. CopiesInit => RateHaltIsJust
    BY DEF CopiesInit, RateHaltIsJust
  <1>2. CopiesInit => CInv
    BY <1>1, RangesAtInit, NumbersAtInit, CreditedAtInit, SharedAtInit DEF CInv
  <1>3. ASSUME CInv, [CopiesNext]_copiesVars PROVE CInv'
    BY <1>3, RangesStep, NumbersStep, CreditedStep, SharedStep, HaltStep
       DEF CInv, Once, Honest
  <1> QED
    BY <1>2, <1>3

\* It holds in every state the lane reaches.
LEMMA CopiesInvariant == CopiesSpec => []CInv
  BY CopiesInductive, PTL DEF CopiesSpec

\* What is counted of a transaction is what it got him, whatever the feeds do, as long as
\* no feed brings again what it brought and RaceBook forgets nothing that may still come.
THEOREM CopiesCountOnce ==
  ASSUME Once PROVE CopiesSpec => []FillsCountOnce
  <1>1. CInv => FillsCountOnce
    BY CountedOnce DEF CInv
  <1> QED
    BY <1>1, CopiesInvariant, PTL

\* The lane holds of an order of his no more than the largest share it was told to copy of
\* what he really filled, or the venue's smallest order if a clip was raised to it, as long
\* as a fill counts once and happened.
THEOREM CopiesKeepToTheShare ==
  ASSUME Once, Honest PROVE CopiesSpec => []CopiesWithinShare
  <1>1. ASSUME CInv PROVE CopiesWithinShare
    <2> SUFFICES ASSUME NEW s \in HisOrders, HeldOf(s) > ShareOf(Real(txs, s), peak)
                 PROVE raised /\ HeldOf(s) <= MinOrder
      BY DEF CopiesWithinShare, HeldOf, ShareOf
    <2>1. Ranges /\ Numbers /\ Credited /\ Shared
      BY <1>1 DEF CInv
    <2>2. PICK f \in Nat, r \in Nat, held \in Int :
            f = filled[s] /\ r = Real(txs, s) /\ held = HeldOf(s)
      BY <2>1, RealNat, CopiesAssumption DEF Ranges, HeldOf
    <2>3. f <= r
      <3>1. SumFunctionOnSet(Credit(s), DOMAIN txs) <= r
        BY <2>1, <2>2, CreditFacts
      <3>2. SumFunctionOnSet(Credit(s), DOMAIN txs) \in Nat
        BY <2>1, CreditFacts, SumNat
      <3> QED
        BY <2>1, <2>2, <3>1, <3>2 DEF Credited
    <2>4. PICK p \in Nat : p = peak
      BY <2>1 DEF Ranges
    <2>6. ShareOf(f, p) <= ShareOf(r, p) /\ ShareOf(f, p) \in Nat /\ ShareOf(r, p) \in Nat
      BY <2>3, ShareGrowsAt
    <2>5. Within(held, f, p, raised)
      BY <2>1, <2>2, <2>4 DEF Shared
    <2> QED
      BY <2>2, <2>4, <2>5, <2>6 DEF Within
  <1> QED
    BY <1>1, CopiesInvariant, PTL

\* Whatever its feeds bring, the rate halt stops no lane that copied the share it was told
\* to, unless it was told to copy more than its configuration and the tolerance, or a clip
\* was raised to the minimum.
THEOREM CopiesHaltIsJust == CopiesSpec => []RateHaltIsJust
  <1>1. CInv => RateHaltIsJust
    BY DEF CInv
  <1> QED
    BY <1>1, CopiesInvariant, PTL
=============================================================================

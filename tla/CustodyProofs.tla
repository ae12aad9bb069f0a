---------------------------- MODULE CustodyProofs ----------------------------
(* Why no share is credited twice, none is forgotten or made up, and what    *)
(* reconciliation writes off was redeemed.                                   *)
EXTENDS Custody, Sums, SequenceTheorems


Kinds == {"buy", "sell", "adopt", "release", "credit", "settle"}
TheRows == [ev : Kinds, lane : Lanes, n : Nat, key : SUBSET Orders]
Passes == [at : {"idle", "shown", "lanes"}, shown : Nat, busy : BOOLEAN, left : SUBSET Lanes]
Readings == [read : BOOLEAN, balance : Nat, redeemed : Nat]

Worth == wallet + redeemed
Awaited == {o \in Buys : orders[o] \in {"new", "open"}}
Bounded == Worth + Cardinality(Awaited) <= Total(Holding) + Cardinality(Buys)

TypeInv ==
  /\ TypeOK /\ Bounded
  /\ rows \in Seq(TheRows) /\ recon \in Passes /\ proof \in Readings
  /\ ~up => rows = <<>> /\ recon = NoPass /\ todo = {}

IsCredit(r) == r.ev \in {"credit", "settle"}
Batch == \E i \in DOMAIN rows : IsCredit(rows[i])
InStep == up /\ ~fault => book = disk /\ ~torn /\ ~bad
Early == ~resolved => /\ ~proof.read /\ ~Batch
                      /\ \A l \in Lanes : book.settled[l] = 0 /\ disk.settled[l] = 0
ReadRight == proof.read => proof.balance + proof.redeemed <= Worth
BatchRight ==
  IF Batch
  THEN /\ up /\ ~fault /\ Claimed(book) <= Worth
       /\ \A i \in DOMAIN rows :
            /\ IsCredit(rows[i])
            /\ rows[i].ev = "credit" =>
                 /\ rows[i].n <= book.released[rows[i].lane]
                 /\ \A j \in DOMAIN rows :
                      rows[j].ev = "credit" /\ rows[j].lane = rows[i].lane => i = j
  ELSE Len(rows) <= 1
CreditInv == InStep /\ Early /\ ReadRight /\ BatchRight /\ CreditedOnce

Untracked(o) == o \notin disk.keys
OpenSells(l) == {o \in Sells : LaneOf[o] = l /\ orders[o] \in {"open", "matched"} /\ Untracked(o)}
Filled(S) == {o \in S : orders[o] = "matched" /\ Untracked(o)}
FilledOf(l) == {o \in Filled(Sells) : LaneOf[o] = l}
Balanced == Claimed(disk) + Cardinality(Filled(Buys)) = Worth + Cardinality(Filled(Sells))
Fresh == \A o \in Orders : orders[o] \in {"new", "open"} => Untracked(o)
Stages ==
  /\ resolved => \A o \in Orders : orders[o] # "matched"
  /\ ~resolved => redeemed = 0
  /\ redeemed = 0 \/ wallet = 0
  /\ redeemed = 0 => \A l \in Lanes : disk.released[l] = 0
Backed == ~resolved => \A l \in Lanes : Cardinality(OpenSells(l)) <= disk.held[l]
RowRight(r) ==
  /\ r.ev \in {"buy", "sell"} => \E o \in Filled(Orders) : r = FillRow(o)
  /\ r.ev # "adopt"
  /\ r.ev = "release" => redeemed > 0
RowsRight == \A i \in DOMAIN rows : RowRight(rows[i])
Shown ==
  redeemed = 0 => \A l \in quiet :
    /\ disk.held[l] <= seen + Cardinality(FilledOf(l))
    /\ recon.at = "shown" => disk.held[l] <= recon.shown + Cardinality(FilledOf(l))
    /\ recon.at = "lanes" /\ ~recon.busy => disk.held[l] <= recon.shown
Halted == ~up \/ todo # {} => Unbooked(Sells) = {}
CalmBody ==
  /\ up => book = disk
  /\ Balanced /\ Fresh /\ Stages /\ Backed /\ RowsRight /\ Shown /\ Halted
CalmInv == env = {} /\ ~bad => CalmBody

-----------------------------------------------------------------------------
(* Constants and sums.                                                       *)

\* The lanes and the orders are finitely many.
LEMMA Settings ==
  /\ IsFiniteSet(Lanes) /\ IsFiniteSet(Buys) /\ IsFiniteSet(Sells)
  /\ Buys \cap Sells = {} /\ LaneOf \in [Orders -> Lanes] /\ Holding \in [Lanes -> Nat]
  <1>1. Buys \in SUBSET Orders /\ Sells \in SUBSET Orders
    BY DEF Orders
  <1> QED
    BY <1>1, CustodyAssumption, FS_Subset

\* A total is a natural, and no lane has more.
LEMMA TotalNat ==
  ASSUME NEW f \in [Lanes -> Nat]
  PROVE Total(f) \in Nat /\ \A l \in Lanes : f[l] <= Total(f)
  <1>1. Total(f) \in Nat
    BY Settings, SumNat DEF Total
  <1>2. ASSUME NEW l \in Lanes PROVE f[l] <= Total(f)
    <2>1. Total(f) = f[l] + SumFunctionOnSet(f, Lanes \ {l})
      BY Settings, SumSplit DEF Total
    <2>2. IsFiniteSet(Lanes \ {l}) /\ \A k \in Lanes \ {l} : f[k] \in Nat
      BY Settings, FS_Subset
    <2>3. SumFunctionOnSet(f, Lanes \ {l}) \in Nat
      BY <2>2, SumNat
    <2> QED
      BY <2>1, <2>3
  <1> QED
    BY <1>1, <1>2

\* Two that agree but for one lane.
LEMMA TotalChange ==
  ASSUME NEW f, NEW g, NEW l \in Lanes,
         \A k \in Lanes : f[k] \in Int /\ g[k] \in Int,
         \A k \in Lanes \ {l} : f[k] = g[k]
  PROVE Total(g) = Total(f) + (g[l] - f[l])
  <1>1. IsFiniteSet(Lanes)
    BY Settings
  <1> QED
    BY <1>1, SumUpdate DEF Total

\* One lane's part of a total changes.
LEMMA TotalUpdate ==
  ASSUME NEW f \in [Lanes -> Nat], NEW l \in Lanes, NEW v \in Nat,
         NEW g, g = [f EXCEPT ![l] = v]
  PROVE Total(g) = Total(f) - f[l] + v
  <1>1. /\ \A k \in Lanes : f[k] \in Int /\ g[k] \in Int
        /\ \A k \in Lanes \ {l} : f[k] = g[k]
        /\ g[l] = v /\ g \in [Lanes -> Nat]
    OBVIOUS
  <1>2. Total(g) = Total(f) + (g[l] - f[l])
    BY <1>1, TotalChange
  <1>3. Total(f) \in Nat /\ Total(g) \in Nat /\ f[l] \in Nat
    BY <1>1, TotalNat
  <1> QED
    BY <1>1, <1>2, <1>3

\* A total of nothing is zero.
LEMMA TotalZero ==
  ASSUME NEW f, \A l \in Lanes : f[l] = 0
  PROVE Total(f) = 0
  BY Settings, SumZero DEF Total

-----------------------------------------------------------------------------
(* What a row does to the books.                                             *)

\* Shares bought or adopted are held.
LEMMA AppliedBuy ==
  ASSUME NEW b \in Ledgers, NEW r \in TheRows, r.ev \in {"buy", "adopt"}
  PROVE /\ Apply(b, r) \in Ledgers
        /\ Apply(b, r).held = [b.held EXCEPT ![r.lane] = b.held[r.lane] + r.n]
        /\ Apply(b, r).released = b.released
        /\ Apply(b, r).settled = b.settled
        /\ Apply(b, r).keys = b.keys \cup r.key
  <1> DEFINE c ==
            [held |-> [b.held EXCEPT ![r.lane] = b.held[r.lane] + r.n],
             released |-> b.released,
             settled |-> b.settled,
             keys |-> b.keys \cup r.key]
  <1>1. r.lane \in Lanes /\ r.n \in Nat /\ r.key \in SUBSET Orders
    BY DEF TheRows
  <1>2. /\ b.held \in [Lanes -> Nat] /\ b.released \in [Lanes -> Nat]
        /\ b.settled \in [Lanes -> Nat] /\ b.keys \in SUBSET Orders
        /\ b = [held |-> b.held, released |-> b.released, settled |-> b.settled, keys |-> b.keys]
    BY DEF Ledgers
  <1>3. b.held[r.lane] \in Nat /\ b.released[r.lane] \in Nat /\ b.settled[r.lane] \in Nat
    BY <1>1, <1>2
  <1>4. Apply(b, r) = c
    BY <1>2 DEF Apply
  <1>5. c \in Ledgers
    BY <1>1, <1>2, <1>3 DEF Ledgers, Monus, Least
  <1> QED
    BY <1>4, <1>5

\* Shares sold are held no more.
LEMMA AppliedSell ==
  ASSUME NEW b \in Ledgers, NEW r \in TheRows, r.ev = "sell"
  PROVE /\ Apply(b, r) \in Ledgers
        /\ Apply(b, r).held = [b.held EXCEPT ![r.lane] = Monus(b.held[r.lane], r.n)]
        /\ Apply(b, r).released = b.released
        /\ Apply(b, r).settled = b.settled
        /\ Apply(b, r).keys = b.keys \cup r.key
  <1> DEFINE c ==
            [held |-> [b.held EXCEPT ![r.lane] = Monus(b.held[r.lane], r.n)],
             released |-> b.released,
             settled |-> b.settled,
             keys |-> b.keys \cup r.key]
  <1>1. r.lane \in Lanes /\ r.n \in Nat /\ r.key \in SUBSET Orders
    BY DEF TheRows
  <1>2. /\ b.held \in [Lanes -> Nat] /\ b.released \in [Lanes -> Nat]
        /\ b.settled \in [Lanes -> Nat] /\ b.keys \in SUBSET Orders
        /\ b = [held |-> b.held, released |-> b.released, settled |-> b.settled, keys |-> b.keys]
    BY DEF Ledgers
  <1>3. b.held[r.lane] \in Nat /\ b.released[r.lane] \in Nat /\ b.settled[r.lane] \in Nat
    BY <1>1, <1>2
  <1>4. Apply(b, r) = c
    BY <1>2 DEF Apply
  <1>5. c \in Ledgers
    BY <1>1, <1>2, <1>3 DEF Ledgers, Monus, Least
  <1> QED
    BY <1>4, <1>5

\* Shares that are gone are held no more, but released.
LEMMA AppliedRelease ==
  ASSUME NEW b \in Ledgers, NEW r \in TheRows, r.ev = "release"
  PROVE /\ Apply(b, r) \in Ledgers
        /\ Apply(b, r).held = [b.held EXCEPT ![r.lane] = Monus(b.held[r.lane], r.n)]
        /\ Apply(b, r).released = [b.released EXCEPT ![r.lane] = b.released[r.lane] + Least(r.n, b.held[r.lane])]
        /\ Apply(b, r).settled = b.settled
        /\ Apply(b, r).keys = b.keys
  <1> DEFINE c ==
            [held |-> [b.held EXCEPT ![r.lane] = Monus(b.held[r.lane], r.n)],
             released |-> [b.released EXCEPT ![r.lane] = b.released[r.lane] + Least(r.n, b.held[r.lane])],
             settled |-> b.settled,
             keys |-> b.keys]
  <1>1. r.lane \in Lanes /\ r.n \in Nat /\ r.key \in SUBSET Orders
    BY DEF TheRows
  <1>2. /\ b.held \in [Lanes -> Nat] /\ b.released \in [Lanes -> Nat]
        /\ b.settled \in [Lanes -> Nat] /\ b.keys \in SUBSET Orders
        /\ b = [held |-> b.held, released |-> b.released, settled |-> b.settled, keys |-> b.keys]
    BY DEF Ledgers
  <1>3. b.held[r.lane] \in Nat /\ b.released[r.lane] \in Nat /\ b.settled[r.lane] \in Nat
    BY <1>1, <1>2
  <1>4. Apply(b, r) = c
    BY <1>2 DEF Apply
  <1>5. c \in Ledgers
    BY <1>1, <1>2, <1>3 DEF Ledgers, Monus, Least
  <1> QED
    BY <1>4, <1>5

\* Released shares are credited.
LEMMA AppliedCredit ==
  ASSUME NEW b \in Ledgers, NEW r \in TheRows, r.ev = "credit"
  PROVE /\ Apply(b, r) \in Ledgers
        /\ Apply(b, r).held = b.held
        /\ Apply(b, r).released = [b.released EXCEPT ![r.lane] = Monus(b.released[r.lane], r.n)]
        /\ Apply(b, r).settled = [b.settled EXCEPT ![r.lane] = b.settled[r.lane] + r.n]
        /\ Apply(b, r).keys = b.keys
  <1> DEFINE c ==
            [held |-> b.held,
             released |-> [b.released EXCEPT ![r.lane] = Monus(b.released[r.lane], r.n)],
             settled |-> [b.settled EXCEPT ![r.lane] = b.settled[r.lane] + r.n],
             keys |-> b.keys]
  <1>1. r.lane \in Lanes /\ r.n \in Nat /\ r.key \in SUBSET Orders
    BY DEF TheRows
  <1>2. /\ b.held \in [Lanes -> Nat] /\ b.released \in [Lanes -> Nat]
        /\ b.settled \in [Lanes -> Nat] /\ b.keys \in SUBSET Orders
        /\ b = [held |-> b.held, released |-> b.released, settled |-> b.settled, keys |-> b.keys]
    BY DEF Ledgers
  <1>3. b.held[r.lane] \in Nat /\ b.released[r.lane] \in Nat /\ b.settled[r.lane] \in Nat
    BY <1>1, <1>2
  <1>4. Apply(b, r) = c
    BY <1>2 DEF Apply
  <1>5. c \in Ledgers
    BY <1>1, <1>2, <1>3 DEF Ledgers, Monus, Least
  <1> QED
    BY <1>4, <1>5

\* Held shares are credited.
LEMMA AppliedSettle ==
  ASSUME NEW b \in Ledgers, NEW r \in TheRows, r.ev = "settle"
  PROVE /\ Apply(b, r) \in Ledgers
        /\ Apply(b, r).held = [b.held EXCEPT ![r.lane] = 0]
        /\ Apply(b, r).released = b.released
        /\ Apply(b, r).settled = [b.settled EXCEPT ![r.lane] = b.settled[r.lane] + b.held[r.lane]]
        /\ Apply(b, r).keys = b.keys
  <1> DEFINE c ==
            [held |-> [b.held EXCEPT ![r.lane] = 0],
             released |-> b.released,
             settled |-> [b.settled EXCEPT ![r.lane] = b.settled[r.lane] + b.held[r.lane]],
             keys |-> b.keys]
  <1>1. r.lane \in Lanes /\ r.n \in Nat /\ r.key \in SUBSET Orders
    BY DEF TheRows
  <1>2. /\ b.held \in [Lanes -> Nat] /\ b.released \in [Lanes -> Nat]
        /\ b.settled \in [Lanes -> Nat] /\ b.keys \in SUBSET Orders
        /\ b = [held |-> b.held, released |-> b.released, settled |-> b.settled, keys |-> b.keys]
    BY DEF Ledgers
  <1>3. b.held[r.lane] \in Nat /\ b.released[r.lane] \in Nat /\ b.settled[r.lane] \in Nat
    BY <1>1, <1>2
  <1>4. Apply(b, r) = c
    BY <1>2 DEF Apply
  <1>5. c \in Ledgers
    BY <1>1, <1>2, <1>3 DEF Ledgers, Monus, Least
  <1> QED
    BY <1>4, <1>5

\* The books are books after any row.
LEMMA AppliedType ==
  ASSUME NEW b \in Ledgers, NEW r \in TheRows
  PROVE Apply(b, r) \in Ledgers
  <1>1. r.ev \in Kinds
    BY DEF TheRows
  <1> QED
    BY <1>1, AppliedBuy, AppliedSell, AppliedRelease, AppliedCredit, AppliedSettle DEF Kinds

\* What the books claim is made of naturals.
LEMMA ClaimedNat ==
  ASSUME NEW b \in Ledgers
  PROVE /\ Total(b.held) \in Nat /\ Total(b.released) \in Nat /\ Total(b.settled) \in Nat
        /\ Claimed(b) \in Nat /\ Total(b.settled) <= Claimed(b)
        /\ b.held \in [Lanes -> Nat] /\ b.released \in [Lanes -> Nat]
        /\ b.settled \in [Lanes -> Nat]
  <1>1. /\ b.held \in [Lanes -> Nat] /\ b.released \in [Lanes -> Nat]
        /\ b.settled \in [Lanes -> Nat]
    BY DEF Ledgers
  <1>2. Total(b.held) \in Nat /\ Total(b.released) \in Nat /\ Total(b.settled) \in Nat
    BY <1>1, TotalNat
  <1> QED
    BY <1>1, <1>2 DEF Claimed

\* A row changes what is claimed by the shares bought or sold; a release, a settlement
\* and a credit of what is released leave it as it is.
LEMMA AppliedClaims ==
  ASSUME NEW b \in Ledgers, NEW r \in TheRows
  PROVE /\ r.ev \in {"buy", "adopt"} => Claimed(Apply(b, r)) = Claimed(b) + r.n
        /\ r.ev = "sell" => Claimed(Apply(b, r)) = Claimed(b) - Least(r.n, b.held[r.lane])
        /\ r.ev \in {"release", "settle"} => Claimed(Apply(b, r)) = Claimed(b)
        /\ r.ev = "credit" /\ r.n <= b.released[r.lane] => Claimed(Apply(b, r)) = Claimed(b)
        /\ ~IsCredit(r) => Apply(b, r).settled = b.settled
  <1> DEFINE l == r.lane
             a == Apply(b, r)
             cut == Least(r.n, b.held[l])
  <1>1. r.ev \in Kinds /\ l \in Lanes /\ r.n \in Nat
    BY DEF TheRows
  <1>2. /\ b.held \in [Lanes -> Nat] /\ b.released \in [Lanes -> Nat]
        /\ b.settled \in [Lanes -> Nat]
        /\ Total(b.held) \in Nat /\ Total(b.released) \in Nat /\ Total(b.settled) \in Nat
    BY ClaimedNat
  <1>3. b.held[l] \in Nat /\ b.released[l] \in Nat /\ b.settled[l] \in Nat
    BY <1>1, <1>2
  <1>4. /\ Monus(b.held[l], r.n) \in Nat /\ Monus(b.held[l], r.n) = b.held[l] - cut
        /\ cut \in Nat
    BY <1>1, <1>3 DEF Monus, Least
  <1>5. CASE r.ev \in {"buy", "adopt"}
    <2>1. Total(a.held) = Total(b.held) - b.held[l] + (b.held[l] + r.n)
      <3>1. a.held = [b.held EXCEPT ![l] = b.held[l] + r.n] /\ b.held[l] + r.n \in Nat
        BY <1>1, <1>3, <1>5, AppliedBuy
      <3> HIDE DEF a, l
      <3> QED
        BY <1>1, <1>2, <3>1, TotalUpdate
    <2>2. a.released = b.released /\ a.settled = b.settled
      BY <1>5, AppliedBuy
    <2> HIDE DEF a, l
    <2> QED
      BY <1>1, <1>2, <1>3, <1>5, <2>1, <2>2 DEF a, Claimed, IsCredit
  <1>6. CASE r.ev = "sell"
    <2>1. Total(a.held) = Total(b.held) - b.held[l] + Monus(b.held[l], r.n)
      <3>1. a.held = [b.held EXCEPT ![l] = Monus(b.held[l], r.n)]
        BY <1>6, AppliedSell
      <3> HIDE DEF a, l
      <3> QED
        BY <1>1, <1>2, <1>4, <3>1, TotalUpdate
    <2>2. a.released = b.released /\ a.settled = b.settled
      BY <1>6, AppliedSell
    <2>3. Total(a.held) = Total(b.held) - cut
      <3> HIDE DEF a, l, cut
      <3> QED
        BY <1>2, <1>3, <1>4, <2>1
    <2> HIDE DEF cut
    <2> QED
      BY <1>2, <1>4, <1>6, <2>2, <2>3 DEF cut, Claimed, IsCredit
  <1>7. CASE r.ev = "release"
    <2>1. Total(a.held) = Total(b.held) - b.held[l] + Monus(b.held[l], r.n)
      <3>1. a.held = [b.held EXCEPT ![l] = Monus(b.held[l], r.n)]
        BY <1>7, AppliedRelease
      <3> HIDE DEF a, l
      <3> QED
        BY <1>1, <1>2, <1>4, <3>1, TotalUpdate
    <2>2. Total(a.released) = Total(b.released) - b.released[l] + (b.released[l] + cut)
      <3>1. a.released = [b.released EXCEPT ![l] = b.released[l] + cut] /\ b.released[l] + cut \in Nat
        <4>1. a.released = [b.released EXCEPT ![l] = b.released[l] + cut]
          BY <1>7, AppliedRelease
        <4> HIDE DEF a, l, cut
        <4> QED
          BY <1>3, <1>4, <4>1
      <3> HIDE DEF a, l, cut
      <3> QED
        BY <1>1, <1>2, <3>1, TotalUpdate
    <2>3. a.settled = b.settled
      BY <1>7, AppliedRelease
    <2>4. Total(a.held) = Total(b.held) - cut /\ Total(a.released) = Total(b.released) + cut
      <3> HIDE DEF a, l, cut
      <3> QED
        BY <1>2, <1>3, <1>4, <2>1, <2>2
    <2> HIDE DEF cut
    <2> QED
      BY <1>2, <1>4, <1>7, <2>3, <2>4 DEF Claimed, IsCredit
  <1>8. CASE r.ev = "credit"
    <2>1. a.held = b.held
      BY <1>8, AppliedCredit
    <2>2. ASSUME r.n <= b.released[l]
          PROVE Total(a.released) = Total(b.released) - r.n /\ Total(a.settled) = Total(b.settled) + r.n
      <3>1. /\ a.released = [b.released EXCEPT ![l] = Monus(b.released[l], r.n)]
            /\ a.settled = [b.settled EXCEPT ![l] = b.settled[l] + r.n]
        BY <1>8, AppliedCredit
      <3>2. /\ Monus(b.released[l], r.n) = b.released[l] - r.n
            /\ Monus(b.released[l], r.n) \in Nat /\ b.settled[l] + r.n \in Nat
        BY <1>1, <1>3, <2>2 DEF Monus
      <3> HIDE DEF a, l
      <3>3. Total(a.released) = Total(b.released) - b.released[l] + Monus(b.released[l], r.n)
        BY <1>1, <1>2, <3>1, <3>2, TotalUpdate
      <3>4. Total(a.settled) = Total(b.settled) - b.settled[l] + (b.settled[l] + r.n)
        BY <1>1, <1>2, <3>1, <3>2, TotalUpdate
      <3> QED
        BY <1>1, <1>2, <1>3, <3>2, <3>3, <3>4
    <2> QED
      BY <1>1, <1>2, <1>8, <2>1, <2>2 DEF Claimed, IsCredit
  <1>9. CASE r.ev = "settle"
    <2>1. /\ a.held = [b.held EXCEPT ![l] = 0]
          /\ a.released = b.released
          /\ a.settled = [b.settled EXCEPT ![l] = b.settled[l] + b.held[l]]
          /\ b.settled[l] + b.held[l] \in Nat
      BY <1>3, <1>9, AppliedSettle
    <2>2. Total(a.held) = Total(b.held) - b.held[l] + 0
      <3> HIDE DEF a, l
      <3> QED
        BY <1>1, <1>2, <2>1, TotalUpdate
    <2>3. Total(a.settled) = Total(b.settled) - b.settled[l] + (b.settled[l] + b.held[l])
      <3> HIDE DEF a, l
      <3> QED
        BY <1>1, <1>2, <2>1, TotalUpdate
    <2>4. Total(a.held) = Total(b.held) - b.held[l] /\ Total(a.settled) = Total(b.settled) + b.held[l]
      <3> HIDE DEF a, l
      <3> QED
        BY <1>2, <1>3, <2>2, <2>3
    <2> QED
      BY <1>2, <1>3, <1>9, <2>1, <2>4 DEF Claimed, IsCredit
  <1> QED
    BY <1>1, <1>5, <1>6, <1>7, <1>8, <1>9 DEF Kinds

-----------------------------------------------------------------------------
(* The rows of a settlement.                                                 *)

Join(S, g) ==
  [s \in SUBSET S |-> IF s = {} THEN <<>> ELSE g[s \ {Pick(s)}] \o CreditRows(Pick(s))]
Joined(S) == CHOOSE g : g = Join(S, g)

\* The rows of a settlement are joined lane by lane.
LEMMA BatchIsJoined == CreditBatch = Joined(Lanes)[Lanes]
  BY DEF CreditBatch, FoldSet, MapThenFoldSet, Joined, Join, Pick

\* Two functions that solve the recursion agree on every finite set both know.
LEMMA JoinUnique ==
  ASSUME NEW A, NEW B, NEW g, NEW h, NEW S, IsFiniteSet(S),
         S \subseteq A, S \subseteq B, g = Join(A, g), h = Join(B, h)
  PROVE g[S] = h[S]
  <1> DEFINE D == {T \in SUBSET S : g[T] # h[T]}
  <1>0. D \subseteq SUBSET S
    OBVIOUS
  <1>1. ASSUME D # {} PROVE FALSE
    <2> HIDE DEF D
    <2>1. PICK T \in D : IsFiniteSet(T) /\ \A U \in SUBSET T : U # T => U \notin D
      BY <1>0, <1>1, Smallest
    <2>2. /\ g[T] = IF T = {} THEN <<>> ELSE g[T \ {Pick(T)}] \o CreditRows(Pick(T))
          /\ h[T] = IF T = {} THEN <<>> ELSE h[T \ {Pick(T)}] \o CreditRows(Pick(T))
      BY <1>0 DEF Join
    <2>3. ASSUME T # {} PROVE g[T \ {Pick(T)}] = h[T \ {Pick(T)}]
      <3>1. Pick(T) \in T
        BY <2>3 DEF Pick
      <3> QED
        BY <1>0, <2>1, <3>1 DEF D
    <2> QED
      BY <2>1, <2>2, <2>3 DEF D
  <1> QED
    BY <1>1

\* The recursion has a solution on every finite set.
LEMMA JoinExists ==
  ASSUME NEW S, IsFiniteSet(S)
  PROVE Joined(S) = Join(S, Joined(S))
  <1> DEFINE Solved(T) == \E g : g = Join(T, g)
             D == {T \in SUBSET S : ~Solved(T)}
  <1>0. D \subseteq SUBSET S
    OBVIOUS
  <1>1. ASSUME D # {} PROVE FALSE
    <2> HIDE DEF D
    <2>1. PICK T \in D : IsFiniteSet(T) /\ \A U \in SUBSET T : U # T => U \notin D
      BY <1>0, <1>1, Smallest
    <2>2. \A U \in SUBSET T : U # T => Joined(U) = Join(U, Joined(U))
      BY <1>0, <2>1 DEF Joined, D
    <2> DEFINE V(U) == Joined(U)[U]
               g == [U \in SUBSET T |->
                       IF U = {} THEN <<>> ELSE V(U \ {Pick(U)}) \o CreditRows(Pick(U))]
    <2>3. ASSUME NEW U \in SUBSET T, U # {} PROVE g[U \ {Pick(U)}] = V(U \ {Pick(U)})
      <3> DEFINE W == U \ {Pick(U)}
      <3>1. W \in SUBSET T /\ W # T
        BY <2>3 DEF Pick
      <3>2. Joined(W) = Join(W, Joined(W))
        BY <2>2, <3>1
      <3>3. CASE W = {}
        BY <3>2, <3>3 DEF Join
      <3>4. CASE W # {}
        <4> DEFINE X == W \ {Pick(W)}
        <4>1. X \in SUBSET W /\ X \in SUBSET T /\ X # T /\ IsFiniteSet(X)
          BY <3>1, <3>4, <2>1, FS_Subset
        <4>2. Joined(X) = Join(X, Joined(X))
          BY <2>2, <4>1
        <4>3. Joined(W)[X] = V(X)
          BY <3>2, <4>1, <4>2, JoinUnique
        <4>4. Joined(W)[W] = Joined(W)[X] \o CreditRows(Pick(W))
          BY <3>2, <3>4 DEF Join
        <4> QED
          BY <3>1, <3>4, <4>3, <4>4
      <3> QED
        BY <3>3, <3>4
    <2>4. g = Join(T, g)
      BY <2>3 DEF Join
    <2> QED
      BY <2>1, <2>4 DEF D
  <1>2. Solved(S)
    BY <1>1
  <1> QED
    BY <1>2 DEF Joined

\* A batch of rows for some lanes: credits of all a lane has released, one for each lane,
\* and settlements.
BatchOf(q, S) ==
  /\ q \in Seq(TheRows)
  /\ \A i \in DOMAIN q :
       /\ IsCredit(q[i]) /\ q[i].lane \in S
       /\ q[i].ev = "credit" =>
            /\ q[i].n = book.released[q[i].lane]
            /\ \A j \in DOMAIN q : q[j].ev = "credit" /\ q[j].lane = q[i].lane => i = j

\* Batches of different lanes join to a batch.
LEMMA BatchesJoin ==
  ASSUME NEW S, NEW T, S \cap T = {}, NEW p, NEW q, BatchOf(p, S), BatchOf(q, T)
  PROVE BatchOf(p \o q, S \cup T)
  <1>1. p \in Seq(TheRows) /\ q \in Seq(TheRows)
    BY DEF BatchOf
  <1>2. /\ p \o q \in Seq(TheRows)
        /\ Len(p) \in Nat /\ Len(q) \in Nat
        /\ DOMAIN p = 1 .. Len(p) /\ DOMAIN q = 1 .. Len(q)
        /\ DOMAIN (p \o q) = 1 .. Len(p) + Len(q)
    BY <1>1
  <1>3. \A i \in DOMAIN (p \o q) :
          \/ i \in DOMAIN p /\ (p \o q)[i] = p[i]
          \/ i \notin DOMAIN p /\ i - Len(p) \in DOMAIN q /\ (p \o q)[i] = q[i - Len(p)]
    BY <1>1, <1>2
  <1> DEFINE t == p \o q
  <1> HIDE DEF t
  <1>4. ASSUME NEW i \in DOMAIN t PROVE IsCredit(t[i]) /\ t[i].lane \in S \cup T
    BY <1>3 DEF t, BatchOf
  <1>5. ASSUME NEW i \in DOMAIN t, t[i].ev = "credit"
        PROVE t[i].n = book.released[t[i].lane]
    BY <1>3, <1>5 DEF t, BatchOf
  <1>6. ASSUME NEW i \in DOMAIN t, t[i].ev = "credit",
               NEW j \in DOMAIN t, t[j].ev = "credit", t[j].lane = t[i].lane
        PROVE i = j
    <2>1. i \in Int /\ j \in Int /\ Len(p) \in Int
      BY <1>2 DEF t
    <2>2. CASE i \in DOMAIN p /\ t[i] = p[i]
      <3>1. CASE j \in DOMAIN p /\ t[j] = p[j]
        BY <1>6, <2>2, <3>1 DEF BatchOf
      <3>2. CASE j - Len(p) \in DOMAIN q /\ t[j] = q[j - Len(p)]
        BY <1>6, <2>2, <3>2 DEF BatchOf
      <3> QED
        BY <1>3, <3>1, <3>2 DEF t
    <2>3. CASE i - Len(p) \in DOMAIN q /\ t[i] = q[i - Len(p)]
      <3>1. CASE j \in DOMAIN p /\ t[j] = p[j]
        BY <1>6, <2>3, <3>1 DEF BatchOf
      <3>2. CASE j - Len(p) \in DOMAIN q /\ t[j] = q[j - Len(p)]
        <4>1. i - Len(p) = j - Len(p)
          BY <1>6, <2>3, <3>2 DEF BatchOf
        <4> QED
          BY <2>1, <4>1
      <3> QED
        BY <1>3, <3>1, <3>2 DEF t
    <2> QED
      BY <1>3, <2>2, <2>3 DEF t
  <1> QED
    BY <1>2, <1>4, <1>5, <1>6 DEF t, BatchOf

\* A lane's rows are a batch.
LEMMA RowsOfLane ==
  ASSUME TypeOK, NEW l \in Lanes
  PROVE BatchOf(CreditRows(l), {l})
  <1> DEFINE c == Row("credit", l, book.released[l], {})
             s == Row("settle", l, book.held[l], {})
  <1>1. book.held[l] \in Nat /\ book.released[l] \in Nat
    BY DEF TypeOK, Ledgers
  <1>2. /\ c \in TheRows /\ c.ev = "credit" /\ c.lane = l /\ c.n = book.released[l]
        /\ s \in TheRows /\ s.ev = "settle" /\ s.lane = l
    BY <1>1 DEF TheRows, Kinds, Row
  <1> HIDE DEF c, s
  <1>3. BatchOf(<<c>>, {l}) /\ BatchOf(<<s>>, {l}) /\ BatchOf(<<>>, {l})
    BY <1>2 DEF BatchOf, IsCredit
  <1>4. \A p \in Seq(TheRows) : <<>> \o p = p /\ p \o <<>> = p
    BY ConcatEmptySeq
  <1> DEFINE t == <<c>> \o <<s>>
  <1>5. <<c>> \in Seq(TheRows) /\ <<s>> \in Seq(TheRows) /\ BatchOf(t, {l})
    <2>1. <<c>> \in Seq(TheRows) /\ <<s>> \in Seq(TheRows) /\ Len(<<c>>) = 1 /\ Len(<<s>>) = 1
      BY <1>2
    <2>2. t \in Seq(TheRows) /\ Len(t) = 2 /\ t[1] = c /\ t[2] = s
      <3>1. /\ t \in Seq(TheRows) /\ Len(t) = 1 + 1
            /\ t[1] = <<c>>[1] /\ t[2] = <<s>>[2 - 1]
        BY <2>1, ConcatProperties
      <3> QED
        BY <3>1
    <2> HIDE DEF t
    <2>3. DOMAIN t = {1, 2}
      BY <2>2
    <2> QED
      BY <1>2, <2>1, <2>2, <2>3 DEF BatchOf, IsCredit
  <1>6. /\ CreditRows(l) = (IF book.released[l] > 0 THEN <<c>> ELSE <<>>)
                             \o (IF book.held[l] > 0 THEN <<s>> ELSE <<>>)
        /\ <<>> \in Seq(TheRows)
    BY DEF CreditRows, c, s
  <1> QED
    BY <1>3, <1>4, <1>5, <1>6

\* The rows of a settlement are a batch.
LEMMA BatchIsBatch == TypeOK => BatchOf(CreditBatch, Lanes)
  <1> SUFFICES ASSUME TypeOK PROVE BatchOf(CreditBatch, Lanes)
    OBVIOUS
  <1> DEFINE J(T) == Joined(T)[T]
             D == {T \in SUBSET Lanes : ~BatchOf(J(T), T)}
  <1>0. D \subseteq SUBSET Lanes
    OBVIOUS
  <1>1. ASSUME D # {} PROVE FALSE
    <2>1. PICK T \in D : IsFiniteSet(T) /\ \A U \in SUBSET T : U # T => U \notin D
      <3> HIDE DEF D
      <3> QED
        BY <1>0, <1>1, Settings, Smallest
    <2>2. Joined(T) = Join(T, Joined(T)) /\ T \subseteq Lanes
      BY <2>1, JoinExists
    <2>3. CASE T = {}
      <3>1. J(T) = <<>>
        BY <2>2, <2>3 DEF Join
      <3>2. BatchOf(<<>>, T)
        BY DEF BatchOf
      <3> QED
        BY <2>1, <3>1, <3>2
    <2>4. CASE T # {}
      <3> DEFINE y == Pick(T)
                 U == T \ {y}
      <3>1. y \in T
        BY <2>4 DEF Pick
      <3>2. Joined(T)[T] = Joined(T)[U] \o CreditRows(y)
        BY <2>2, <2>4 DEF Join
      <3>3. IsFiniteSet(U) /\ Joined(U) = Join(U, Joined(U))
        BY <2>1, FS_Subset, JoinExists
      <3>4. Joined(T)[U] = J(U)
        BY <2>2, <3>3, JoinUnique
      <3>5. BatchOf(J(U), U)
        BY <2>1, <2>2, <3>1
      <3>6. BatchOf(CreditRows(y), {y})
        BY <2>2, <3>1, RowsOfLane
      <3>7. U \cap {y} = {} /\ U \cup {y} = T
        BY <3>1
      <3> HIDE DEF J, U, y
      <3>8. BatchOf(J(U) \o CreditRows(y), U \cup {y})
        BY <3>5, <3>6, <3>7, BatchesJoin
      <3>9. BatchOf(J(T), T)
        BY <3>2, <3>4, <3>7, <3>8 DEF J
      <3> QED
        BY <2>1, <3>9 DEF J
    <2> QED
      BY <2>3, <2>4
  <1>2. BatchOf(J(Lanes), Lanes)
    BY <1>1
  <1> QED
    BY <1>2, BatchIsJoined

-----------------------------------------------------------------------------
(* Ranges.                                                                   *)

\* The rows that are appended are rows.
LEMMA RowsAreRows ==
  ASSUME TypeInv
  PROVE /\ \A o \in Orders : FillRow(o) \in TheRows
        /\ \A l \in Lanes, n \in Nat :
             /\ Row("adopt", l, n, {}) \in TheRows
             /\ Row("release", l, n, {}) \in TheRows
        /\ \A l \in Lanes : Gone(l) \in Nat
        /\ \A l \in Lanes, n \in Nat, his \in BOOLEAN : Adopted(l, n, his) \in Nat /\ Vanished(l, n) \in Nat
        /\ \A r \in TheRows : <<r>> \in Seq(TheRows) /\ <<>> \in Seq(TheRows)
        /\ rows # <<>> => Head(rows) \in TheRows /\ Tail(rows) \in Seq(TheRows)
  <1>1. \A o \in Orders : FillRow(o) \in TheRows
    BY Settings DEF FillRow, Row, TheRows, Kinds
  <1>2. \A l \in Lanes, n \in Nat :
          Row("adopt", l, n, {}) \in TheRows /\ Row("release", l, n, {}) \in TheRows
    BY DEF Row, TheRows, Kinds
  <1>3. /\ \A l \in Lanes : book.held[l] \in Nat
        /\ recon.shown \in Nat /\ PoolClaim(book) \in Nat
    <2>1. book \in Ledgers /\ recon \in Passes
      BY DEF TypeInv, TypeOK
    <2>2. book.held \in [Lanes -> Nat] /\ Total(book.held) \in Nat
      BY <2>1, ClaimedNat
    <2> QED
      BY <2>1, <2>2 DEF Passes, PoolClaim
  <1>4. \A a, c \in Nat : Monus(a, c) \in Nat /\ Least(a, c) \in Nat
    BY DEF Monus, Least
  <1>5. /\ \A l \in Lanes : Gone(l) \in Nat
        /\ \A l \in Lanes, n \in Nat, his \in BOOLEAN :
             Adopted(l, n, his) \in Nat /\ Vanished(l, n) \in Nat
    BY <1>3, <1>4 DEF Gone, Adopted, Vanished
  <1>6. \A r \in TheRows : <<r>> \in Seq(TheRows) /\ <<>> \in Seq(TheRows)
    OBVIOUS
  <1>7. rows # <<>> => Head(rows) \in TheRows /\ Tail(rows) \in Seq(TheRows)
    BY HeadTailProperties DEF TypeInv
  <1> QED
    BY <1>1, <1>2, <1>5, <1>6, <1>7

\* At first every variable is within its range.
LEMMA TypeInit == Init => TypeInv
  <1> SUFFICES ASSUME Init PROVE TypeInv
    OBVIOUS
  <1>1. Empty \in Ledgers /\ disk \in Ledgers
    BY Settings DEF Init, Empty, Ledgers
  <1>2. Total(Holding) \in Nat
    BY Settings, TotalNat
  <1>3. env \subseteq AllPerils
    BY CustodyAssumption DEF Init
  <1>4. NoPass \in Passes /\ NoProof \in Readings
    BY DEF NoPass, NoProof, Passes, Readings
  <1>5. orders \in [Orders -> Phases]
    BY DEF Init, Phases
  <1>6. /\ wallet \in Nat /\ redeemed = 0 /\ seen \in Nat /\ rows = <<>> /\ book = Empty
        /\ up = FALSE /\ todo = {} /\ recon = NoPass /\ proof = NoProof
    BY <1>2 DEF Init
  <1>7. TypeOK
    <2>1. /\ final = TRUE /\ resolved = FALSE /\ torn = FALSE /\ bad = FALSE /\ fault = FALSE
          /\ quiet = Lanes
      BY DEF Init
    <2> QED
      BY <1>1, <1>3, <1>5, <1>6, <2>1 DEF TypeOK
  <1>8. Bounded
    <2>1. Awaited \in SUBSET Buys
      BY DEF Awaited
    <2>2. Cardinality(Awaited) <= Cardinality(Buys) /\ Cardinality(Buys) \in Nat /\ Cardinality(Awaited) \in Nat
      BY <2>1, Settings, FS_Subset, FS_CardinalityType
    <2>3. wallet = Total(Holding)
      BY DEF Init
    <2> QED
      BY <1>2, <1>6, <2>2, <2>3 DEF Bounded, Worth
  <1>9. rows \in Seq(TheRows)
    BY <1>6
  <1> QED
    BY <1>4, <1>6, <1>7, <1>8, <1>9 DEF TypeInv

\* The wallet gains at most one share for each buy.
LEMMA BoundedStep ==
  ASSUME TypeInv, [Next]_vars
  PROVE Bounded'
  <1> USE DEF TypeInv, TypeOK
  <1>0. /\ IsFiniteSet(Awaited) /\ Cardinality(Awaited) \in Nat
        /\ Total(Holding) \in Nat /\ Cardinality(Buys) \in Nat
        /\ \A S \in SUBSET Awaited : Cardinality(S) \in Nat /\ Cardinality(S) <= Cardinality(Awaited)
    <2>1. Awaited \in SUBSET Buys
      BY DEF Awaited
    <2>2. IsFiniteSet(Awaited) /\ IsFiniteSet(Buys)
      BY <2>1, Settings, FS_Subset
    <2>3. Total(Holding) \in Nat
      BY Settings, TotalNat
    <2>4. \A S \in SUBSET Awaited : IsFiniteSet(S) /\ Cardinality(S) <= Cardinality(Awaited)
      BY <2>2, FS_Subset
    <2> QED
      BY <2>2, <2>3, <2>4, FS_CardinalityType
  <1>1. ASSUME NEW o \in Orders, Match(o) PROVE Bounded'
    <2>1. orders[o] = "open" /\ orders' = [orders EXCEPT ![o] = "matched"]
          /\ redeemed' = redeemed
      BY <1>1 DEF Match
    <2>2. CASE o \in Buys
      <3>1. Awaited' = Awaited \ {o} /\ o \in Awaited
        BY <2>1, <2>2 DEF Awaited, Orders
      <3>2. Cardinality(Awaited \ {o}) = Cardinality(Awaited) - 1
        BY <1>0, <3>1, FS_RemoveElement
      <3>3. wallet' = wallet + 1
        BY <1>1, <2>2 DEF Match
      <3>4. Cardinality(Awaited)' = Cardinality(Awaited) - 1
        BY <3>1, <3>2
      <3> QED
        BY <1>0, <2>1, <3>3, <3>4 DEF Bounded, Worth
    <2>3. CASE o \notin Buys
      <3>1. Awaited' = Awaited
        BY <2>1, <2>3 DEF Awaited, Orders
      <3>2. wallet' = wallet - 1 /\ wallet > 0
        BY <1>1, <2>3 DEF Match, Orders
      <3> QED
        BY <1>0, <2>1, <3>1, <3>2 DEF Bounded, Worth
    <2> QED
      BY <2>2, <2>3
  <1>2. ASSUME NEW o \in Orders, Place(o) \/ Die(o) \/ Close(o) PROVE Bounded'
    <2>1. Awaited' \in SUBSET Awaited
      BY <1>2 DEF Place, Die, Close, Awaited, Orders
    <2>2. Worth' = Worth /\ Worth \in Nat
      BY <1>2 DEF Place, Die, Close, Worth, chain
    <2>3. Cardinality(Awaited)' <= Cardinality(Awaited) /\ Cardinality(Awaited)' \in Nat
      BY <1>0, <2>1
    <2> QED
      BY <1>0, <2>2, <2>3 DEF Bounded
  <1>3. ASSUME Redeem PROVE Bounded'
    BY <1>3 DEF Redeem, Bounded, Worth, Awaited
  <1>4. CASE UNCHANGED <<wallet, redeemed, orders>>
    BY <1>4 DEF Bounded, Worth, Awaited
  <1>5. ASSUME \/ \E l \in Lanes : Rest(l) \/ ReconLane(l)
               \/ \E l \in Lanes, his, trusted \in BOOLEAN : BootLane(l, his, trusted)
               \/ \E n \in Listed : ReadProof(n)
               \/ \E o \in Orders : BookFill(o)
               \/ \E fate \in {"lost", "torn", "kept"} : AppendFails(fate)
               \/ \E empty \in BOOLEAN : ReconReads(empty)
        PROVE UNCHANGED <<wallet, redeemed, orders>>
    BY <1>5 DEF Rest, ReconLane, BootLane, ReadProof, BookFill, AppendFails, ReconReads, chain
  <1>6. ASSUME \/ AppendRow \/ CatchUp \/ ReconReadsFlight \/ Resolve \/ Finalize \/ Credit
               \/ Crash \/ Boot \/ UNCHANGED vars
        PROVE UNCHANGED <<wallet, redeemed, orders>>
    BY <1>6 DEF AppendRow, CatchUp, ReconReadsFlight, Resolve, Finalize, Credit, Crash, Boot,
                vars, chain
  <1> QED
    BY <1>1, <1>2, <1>3, <1>4, <1>5, <1>6
    DEF Next, Trading, Resolver, Writing, Reconciling, Settling, SettlesClaims

-----------------------------------------------------------------------------
(* The receipts.                                                             *)

\* What the contracts log, of some accounts, coins and conditions.
Entries(names) ==
  [ev : {"move"}, by : {"ctf"}, from : names, to : names, token : names \X Sides, n : Nat]
  \cup [ev : {"cash"}, by : names, from : names, to : names, n : Nat]
  \cup [ev : {"payout"}, by : {"ctf"}, who : names, coin : names, cond : names, n : Nat]
  \cup [ev : {"adapted"}, by : {"legacy", "wrapper"}, who : names, cond : names, n : Nat]

\* How many shares of the claimed token left our wallet.
Leaves(e) == e.ev = "move" /\ e.from = Us /\ e.token = <<"c", "yes">>
Given(logs) == {i \in DOMAIN logs : Leaves(logs[i])}
Lost(logs) == Amount(logs, Given(logs))

\* Amounts are natural numbers, and more logs amount to more.
LEMMA AmountFacts ==
  ASSUME NEW names, NEW logs \in Seq(Entries(names)), NEW T \in SUBSET DOMAIN logs, NEW S \in SUBSET T
  PROVE /\ IsFiniteSet(T) /\ Amount(logs, T) \in Nat
        /\ Amount(logs, S) <= Amount(logs, T)
  <1> DEFINE f == [i \in DOMAIN logs |-> logs[i].n]
  <1>1. IsFiniteSet(1 .. Len(logs)) /\ DOMAIN logs = 1 .. Len(logs)
    BY FS_Interval
  <1>2. IsFiniteSet(T)
    BY <1>1, FS_Subset
  <1>3. \A i \in T : f[i] \in Nat
    BY DEF Entries
  <1> HIDE DEF f
  <1>4. SumFunctionOnSet(f, T) \in Nat /\ SumFunctionOnSet(f, S) <= SumFunctionOnSet(f, T)
    BY <1>2, <1>3, SumNat, SumPart
  <1> QED
    BY <1>2, <1>4 DEF f, Amount

\* A set of positions that is not empty has a last one.
LEMMA LastOf ==
  ASSUME NEW S, IsFiniteSet(S), S # {}, S \subseteq Int
  PROVE Max(S) \in S /\ \A x \in S : Max(S) >= x
  <1> DEFINE Topped(T) == \E x \in T : \A y \in T : x >= y
             D == {T \in SUBSET S : T # {} /\ ~Topped(T)}
  <1>1. ASSUME D # {} PROVE FALSE
    <2>0. D \subseteq SUBSET S
      OBVIOUS
    <2> HIDE DEF D
    <2>1. PICK T \in D : IsFiniteSet(T) /\ \A U \in SUBSET T : U # T => U \notin D
      BY <2>0, <1>1, Smallest
    <2> USE DEF D
    <2>2. PICK y \in T : TRUE
      BY <2>1
    <2>3. CASE T = {y}
      BY <2>1, <2>3
    <2>4. CASE T # {y}
      <3>1. T \ {y} \in SUBSET S /\ T \ {y} # {} /\ T \ {y} # T
        BY <2>1, <2>2, <2>4
      <3>2. Topped(T \ {y})
        BY <2>1, <3>1
      <3>3. PICK x \in T \ {y} : \A z \in T \ {y} : x >= z
        BY <3>2
      <3>4. x \in Int /\ y \in Int /\ T \subseteq Int
        BY <2>1, <2>2
      <3>5. CASE x >= y
        BY <2>1, <3>3, <3>4, <3>5
      <3>6. CASE y >= x
        BY <2>1, <2>2, <3>3, <3>4, <3>6
      <3> QED
        BY <3>4, <3>5, <3>6
    <2> QED
      BY <2>3, <2>4
  <1>2. Topped(S)
    BY <1>1
  <1> QED
    BY <1>2 DEF Max

\* The one member of a set is its greatest.
LEMMA MaxOfOne == ASSUME NEW S, NEW x \in Int, S = {x} PROVE Max(S) = x
  BY DEF Max

\* A segment is a part of the receipt, up to its end.
LEMMA SegmentIsPart ==
  ASSUME NEW names, NEW logs \in Seq(Entries(names)), NEW end \in DOMAIN logs
  PROVE \E d \in Nat :
          /\ d < end /\ Segment(logs, end) \in Seq(Entries(names))
          /\ Len(Segment(logs, end)) = end - d
          /\ \A i \in 1 .. end - d : Segment(logs, end)[i] = logs[i + d]
  <1> DEFINE before == {i \in 1 .. end - 1 : logs[i].ev = logs[end].ev /\ logs[i].by = logs[end].by}
             d == IF before = {} THEN 0 ELSE Max(before)
  <1>1. end \in 1 .. Len(logs) /\ Len(logs) \in Nat
    OBVIOUS
  <1>2. d \in Nat /\ d < end
    <2>0. end \in Nat \ {0} /\ end - 1 \in Int
      BY <1>1
    <2>1. IsFiniteSet(1 .. end - 1)
      BY <2>0, FS_Interval
    <2>2. before \subseteq 1 .. end - 1
      OBVIOUS
    <2> HIDE DEF before
    <2>3. IsFiniteSet(before)
      BY <2>1, <2>2, FS_Subset
    <2>4. before \subseteq Int
      BY <2>0, <2>2
    <2>5. before # {} => Max(before) \in before
      BY <2>3, <2>4, LastOf
    <2>6. before # {} => Max(before) \in 1 .. end - 1
      BY <2>2, <2>5
    <2> QED
      BY <2>0, <2>6
  <1>3. Segment(logs, end) = SubSeq(logs, d + 1, end)
    BY DEF Segment
  <1> HIDE DEF d
  <1>4. \A i \in d + 1 .. end : logs[i] \in Entries(names)
    BY <1>1, <1>2
  <1>5. /\ SubSeq(logs, d + 1, end) \in Seq(Entries(names))
        /\ Len(SubSeq(logs, d + 1, end)) = end - d
        /\ \A i \in 1 .. end - d : SubSeq(logs, d + 1, end)[i] = logs[i + d]
    <2>1. d + 1 \in Int /\ end \in Int /\ d + 1 <= end
      BY <1>1, <1>2
    <2>2. /\ SubSeq(logs, d + 1, end) \in Seq(Entries(names))
          /\ Len(SubSeq(logs, d + 1, end)) = end - (d + 1) + 1
          /\ \A i \in 1 .. end - (d + 1) + 1 : SubSeq(logs, d + 1, end)[i] = logs[(d + 1) + i - 1]
      BY <1>4, <2>1, SubSeqProperties
    <2>3. end - (d + 1) + 1 = end - d /\ \A i \in Int : (d + 1) + i - 1 = i + d
      BY <2>1, <1>2
    <2>4. \A i \in 1 .. end - d : SubSeq(logs, d + 1, end)[i] = logs[i + d]
      <3> SUFFICES ASSUME NEW i \in 1 .. end - d PROVE SubSeq(logs, d + 1, end)[i] = logs[i + d]
        OBVIOUS
      <3>1. i \in 1 .. end - (d + 1) + 1 /\ (d + 1) + i - 1 = i + d
        BY <2>3
      <3> QED
        BY <2>2, <3>1
    <2> QED
      BY <2>2, <2>3, <2>4
  <1> QED
    BY <1>2, <1>3, <1>5

\* What left our wallet within a segment left it.
LEMMA SegmentLost ==
  ASSUME NEW names, NEW logs \in Seq(Entries(names)), NEW end \in DOMAIN logs
  PROVE Lost(Segment(logs, end)) <= Lost(logs) /\ Lost(logs) \in Nat
  <1> DEFINE seg == Segment(logs, end)
             f == [i \in DOMAIN seg |-> seg[i].n]
             g == [i \in DOMAIN logs |-> logs[i].n]
  <1>1. PICK d \in Nat : /\ d < end /\ seg \in Seq(Entries(names)) /\ Len(seg) = end - d
                         /\ \A i \in 1 .. end - d : seg[i] = logs[i + d]
    BY SegmentIsPart
  <1>2. end \in 1 .. Len(logs) /\ Len(logs) \in Nat /\ DOMAIN logs = 1 .. Len(logs)
    OBVIOUS
  <1> HIDE DEF seg
  <1>3. DOMAIN seg = 1 .. end - d /\ end - d \in Nat
    BY <1>1, <1>2
  <1> DEFINE S == Given(seg)
             T == {x + d : x \in S}
  <1>4. S \in SUBSET (1 .. end - d)
    BY <1>3 DEF Given
  <1>5. \A x \in S : x + d \in DOMAIN logs /\ seg[x] = logs[x + d] /\ seg[x].n \in Int
    <2>1. \A x \in 1 .. end - d : x + d \in DOMAIN logs /\ seg[x] = logs[x + d]
      BY <1>1, <1>2
    <2>2. \A i \in DOMAIN seg : seg[i].n \in Int
      BY <1>1 DEF Entries
    <2> QED
      BY <1>3, <1>4, <2>1, <2>2
  <1>6. T \subseteq Given(logs)
    BY <1>5 DEF Given
  <1>7. \A x \in S : f[x] \in Int /\ g[x + d] = f[x]
    BY <1>3, <1>4, <1>5
  <1>8. SumFunctionOnSet(g, T) = SumFunctionOnSet(f, S)
    <2>1. PICK n \in Nat : n = end - d
      BY <1>3
    <2>2. S \in SUBSET (1 .. n)
      BY <1>4, <2>1
    <2> HIDE DEF f, g, S
    <2>3. d \in Int
      OBVIOUS
    <2> QED
      BY <1>7, <2>2, <2>3, SumShift
  <1>9. Amount(logs, T) = Lost(seg)
    BY <1>8 DEF Amount, Lost
  <1>10. Given(logs) \in SUBSET DOMAIN logs
    BY DEF Given
  <1> HIDE DEF T
  <1> QED
    BY <1>6, <1>9, <1>10, AmountFacts DEF Lost, seg

\* What a receipt proves that our wallet redeemed has left it in that transaction, whoever
\* else redeems in it and whatever strayed to the contracts (redemption::verify_receipt).
THEOREM ReceiptProves ==
  ASSUME NEW names, NEW logs \in Seq(Entries(names)), NEW worth, NEW u \in VerifyReceipt(logs, worth)
  PROVE u \in Nat /\ u <= Lost(logs)
  <1>1. DOMAIN logs = 1 .. Len(logs) /\ Len(logs) \in Nat /\ IsFiniteSet(1 .. Len(logs))
    BY FS_Interval
  <1>2. PICK end \in DOMAIN logs : /\ Terminals(logs) = {end}
                                   /\ u \in Accounted(Segment(logs, end), worth)
    <2>1. Terminals(logs) \subseteq DOMAIN logs
      BY DEF Terminals
    <2>2. Cardinality(Terminals(logs)) = 1 /\ u \in Accounted(Segment(logs, Max(Terminals(logs))), worth)
      BY DEF VerifyReceipt, Refused
    <2>3. IsFiniteSet(Terminals(logs))
      BY <1>1, <2>1, FS_Subset
    <2>4. PICK x : Terminals(logs) = {x}
      BY <2>2, <2>3, FS_Singleton
    <2>5. x \in DOMAIN logs /\ Max(Terminals(logs)) = x
      BY <1>1, <2>1, <2>4, MaxOfOne
    <2> QED
      BY <2>2, <2>4, <2>5
  <1> DEFINE seg == Segment(logs, end)
             last == seg[Len(seg)]
  <1>3. seg \in Seq(Entries(names)) /\ Len(seg) \in DOMAIN seg /\ last = logs[end]
    <2>1. PICK d \in Nat : /\ d < end /\ seg \in Seq(Entries(names)) /\ Len(seg) = end - d
                           /\ \A i \in 1 .. end - d : seg[i] = logs[i + d]
      BY SegmentIsPart
    <2> HIDE DEF seg
    <2> QED
      BY <1>1, <2>1
  <1>4. last.who = Us /\ last.ev \in {"payout", "adapted"}
    BY <1>2, <1>3 DEF Terminals
  <1>5. Lost(seg) <= Lost(logs) /\ Lost(logs) \in Nat
    BY SegmentLost
  <1> HIDE DEF seg
  <1> DEFINE pays == {i \in DOMAIN seg : seg[i].ev = "payout"}
             at == Max(pays)
             token == <<"c", "yes">>
             burns == Burns(seg, token, at)
             root == IF last.ev = "payout" THEN Us ELSE last.by
  <1>6. /\ u = Amount(seg, burns) /\ Cardinality(pays) = 1
        /\ u > 0 => Covered(seg, token, at, root)
    BY <1>2 DEF seg, Accounted, Refused, Sides
  <1>7. burns \in SUBSET DOMAIN seg /\ Given(seg) \in SUBSET DOMAIN seg
    BY DEF Burns, Given
  <1>8. u \in Nat /\ Lost(seg) \in Nat
    BY <1>3, <1>6, <1>7, AmountFacts DEF Lost
  <1>9. u <= Lost(seg)
    <2>1. CASE last.ev = "payout"
      <3>1. Len(seg) \in pays /\ pays \subseteq DOMAIN seg /\ IsFiniteSet(DOMAIN seg)
        BY <1>3, <2>1, FS_Interval
      <3>2. IsFiniteSet(pays)
        BY <3>1, FS_Subset
      <3>3. pays = {Len(seg)}
        <4> HIDE DEF pays
        <4>1. PICK x : pays = {x}
          BY <1>6, <3>2, FS_Singleton
        <4> QED
          BY <3>1, <4>1
      <3>4. at = Len(seg)
        BY <1>3, <3>3, MaxOfOne
      <3>5. burns \subseteq Given(seg)
        BY <1>4, <3>4 DEF Burns, Given, Leaves
      <3> QED
        BY <1>3, <1>6, <1>7, <3>5, AmountFacts DEF Lost
    <2>2. CASE last.ev = "adapted" /\ u > 0
      <3>1. root # Us
        BY <1>3, <2>2 DEF Entries, Us
      <3>2. u = Moved(seg, token, Us, root, Min(burns))
        BY <1>6, <2>2, <3>1 DEF Covered
      <3> DEFINE moves == {i \in DOMAIN seg :
                             i < Min(burns) /\ seg[i].ev = "move" /\ seg[i].token = token
                               /\ seg[i].from = Us /\ seg[i].to = root}
      <3>3. u = Amount(seg, moves)
        BY <3>2 DEF Moved
      <3>4. moves \subseteq Given(seg)
        BY DEF Given, Leaves
      <3> HIDE DEF moves
      <3> QED
        BY <1>3, <1>7, <3>3, <3>4, AmountFacts DEF Lost
    <2> QED
      BY <1>4, <1>8, <2>1, <2>2
  <1> QED
    BY <1>5, <1>8, <1>9

\* Of two lists of logs in a row, what left in the one and what left in the other has left.
LEMMA LostJoin ==
  ASSUME NEW names, NEW s \in Seq(Entries(names)), NEW t \in Seq(Entries(names))
  PROVE s \o t \in Seq(Entries(names)) /\ Lost(s \o t) = Lost(s) + Lost(t)
  <1> DEFINE j == s \o t
             m == Len(s)
             S == Given(s)
             T == {x + m : x \in Given(t)}
             f == [i \in DOMAIN j |-> j[i].n]
             g == [i \in DOMAIN s |-> s[i].n]
             h == [i \in DOMAIN t |-> t[i].n]
  <1>1. /\ j \in Seq(Entries(names)) /\ Len(j) = m + Len(t) /\ m \in Nat /\ Len(t) \in Nat
        /\ \A i \in 1 .. m + Len(t) : j[i] = IF i <= m THEN s[i] ELSE t[i - m]
    BY ConcatProperties
  <1> HIDE DEF j
  <1>2. DOMAIN j = 1 .. m + Len(t) /\ DOMAIN s = 1 .. m /\ DOMAIN t = 1 .. Len(t)
    BY <1>1
  <1>3. \A i \in DOMAIN s : i \in DOMAIN j /\ j[i] = s[i]
    BY <1>1, <1>2
  <1>4. \A i \in DOMAIN t : i + m \in DOMAIN j /\ i + m > m /\ j[i + m] = t[i]
    <2> SUFFICES ASSUME NEW i \in DOMAIN t
                 PROVE i + m \in DOMAIN j /\ i + m > m /\ j[i + m] = t[i]
      OBVIOUS
    <2>1. i + m \in 1 .. m + Len(t) /\ i + m > m /\ i + m - m = i
      BY <1>1, <1>2
    <2> QED
      BY <1>1, <1>2, <2>1
  <1>5. Given(j) = S \cup T
    <2>1. \A i \in DOMAIN j : i \in DOMAIN s \/ i - m \in DOMAIN t
      BY <1>1, <1>2
    <2>2. S \cup T \subseteq Given(j)
      BY <1>3, <1>4 DEF Given
    <2>3. ASSUME NEW i \in Given(j) PROVE i \in S \cup T
      <3>1. i \in DOMAIN j /\ Leaves(j[i])
        BY DEF Given
      <3>2. CASE i \in DOMAIN s
        BY <1>3, <3>1, <3>2 DEF Given
      <3>3. CASE i - m \in DOMAIN t
        <4>1. i = (i - m) + m
          BY <1>1, <1>2, <3>1
        <4>2. Leaves(t[i - m])
          BY <1>4, <3>1, <3>3, <4>1
        <4> QED
          BY <3>3, <4>1, <4>2 DEF Given
      <3> QED
        BY <2>1, <3>1, <3>2, <3>3
    <2> QED
      BY <2>2, <2>3
  <1>6. S \subseteq DOMAIN s /\ Given(t) \subseteq DOMAIN t
    BY DEF Given
  <1>7. S \cap T = {} /\ S \cup T \subseteq DOMAIN j
    <2>1. \A x \in S : x <= m
      BY <1>1, <1>2, <1>6
    <2>2. \A x \in T : x > m
      BY <1>1, <1>2, <1>4, <1>6
    <2>3. \A x \in S : ~(x > m)
      BY <1>1, <1>2, <1>6, <2>1
    <2> HIDE DEF S
    <2> QED
      BY <1>3, <1>4, <1>6, <2>2, <2>3
  <1>8. \A i \in DOMAIN j : f[i] \in Int
    BY <1>1 DEF Entries
  <1>9. IsFiniteSet(S) /\ IsFiniteSet(T)
    <2>1. S \in SUBSET DOMAIN j /\ T \in SUBSET DOMAIN j
      BY <1>7
    <2> HIDE DEF S, T
    <2> QED
      BY <1>1, <2>1, AmountFacts
  <1>10. SumFunctionOnSet(f, S \cup T) = SumFunctionOnSet(f, S) + SumFunctionOnSet(f, T)
    <2>1. \A x \in S \cup T : f[x] \in Int
      BY <1>7, <1>8
    <2> HIDE DEF S, T, f
    <2> QED
      BY <1>7, <1>9, <2>1, SumUnion
  <1>11. SumFunctionOnSet(f, S) = SumFunctionOnSet(g, S)
    <2>1. \A x \in S : f[x] = g[x]
      BY <1>3, <1>6
    <2> HIDE DEF S, T, f, g
    <2> QED
      BY <1>9, <2>1, SumSame
  <1>12. SumFunctionOnSet(f, T) = SumFunctionOnSet(h, Given(t))
    <2>1. \A x \in Given(t) : h[x] \in Int /\ f[x + m] = h[x]
      <3>1. \A x \in DOMAIN t : t[x].n \in Int
        BY DEF Entries
      <3> QED
        BY <1>4, <1>6, <3>1
    <2>2. PICK n \in Nat : n = Len(t)
      BY <1>1
    <2>3. Given(t) \in SUBSET (1 .. n) /\ m \in Int
      BY <1>1, <1>2, <1>6, <2>2
    <2> HIDE DEF f, h, m
    <2> QED
      BY <2>1, <2>3, SumShift
  <1>13. Lost(j) = Lost(s) + Lost(t)
    <2> HIDE DEF S, T
    <2>1. SumFunctionOnSet(f, S \cup T) = SumFunctionOnSet(g, S) + SumFunctionOnSet(h, Given(t))
      BY <1>10, <1>11, <1>12
    <2> QED
      BY <1>5, <2>1 DEF Lost, Amount, S
  <1> QED
    BY <1>1, <1>13 DEF j

\* Those the listed receipts speak of.
Names == {"us", "them", "legacy", "wrapper", "zero", "ctf", "usdc", "pusd", "wcol", "c", "d"}

\* What leaves with one log.
LEMMA LostOne ==
  ASSUME NEW e \in Entries(Names)
  PROVE <<e>> \in Seq(Entries(Names)) /\ Lost(<<e>>) = IF Leaves(e) THEN e.n ELSE 0
  <1> DEFINE f == [i \in DOMAIN <<e>> |-> (<<e>>)[i].n]
  <1>1. <<e>> \in Seq(Entries(Names)) /\ DOMAIN <<e>> = {1} /\ (<<e>>)[1] = e
    OBVIOUS
  <1>2. f[1] = e.n /\ e.n \in Nat
    BY <1>1 DEF Entries
  <1>3. Given(<<e>>) = IF Leaves(e) THEN {1} ELSE {}
    BY <1>1 DEF Given
  <1>4. Lost(<<e>>) = SumFunctionOnSet(f, Given(<<e>>))
    BY DEF Lost, Amount
  <1> HIDE DEF f
  <1>5. SumFunctionOnSet(f, {1}) = f[1] + SumFunctionOnSet(f, {}) /\ SumFunctionOnSet(f, {}) = 0
    <2>1. IsFiniteSet({1}) /\ {1} \ {1} = {}
      BY FS_Singleton
    <2>2. SumFunctionOnSet(f, {1}) = f[1] + SumFunctionOnSet(f, {1} \ {1})
      BY <1>2, <2>1, SumSplit
    <2> QED
      BY <2>1, <2>2, SumEmpty
  <1> QED
    BY <1>1, <1>2, <1>3, <1>4, <1>5

\* Two logs are one and one.
LEMMA OneAndOne == ASSUME NEW S, NEW d \in S, NEW e \in S PROVE <<d, e>> = <<d>> \o <<e>>
  <1> DEFINE j == <<d>> \o <<e>>
             k == <<d, e>>
  <1>1. <<d>> \in Seq(S) /\ <<e>> \in Seq(S) /\ Len(<<d>>) = 1 /\ Len(<<e>>) = 1
    OBVIOUS
  <1>2. j \in Seq(S) /\ Len(j) = 2 /\ j[1] = d /\ j[2] = e
    <2>1. 1 \in 1 .. 2 /\ 2 \in 1 .. 2 /\ (<<d>>)[1] = d /\ (<<e>>)[1] = e
      OBVIOUS
    <2> QED
      BY <1>1, <2>1, ConcatProperties
  <1>3. k \in Seq(S) /\ Len(k) = 2 /\ k[1] = d /\ k[2] = e
    OBVIOUS
  <1> HIDE DEF j, k
  <1>4. j = k
    BY <1>2, <1>3
  <1> QED
    BY <1>4 DEF j, k

\* What leaves with two logs.
LEMMA LostTwo ==
  ASSUME NEW d \in Entries(Names), NEW e \in Entries(Names)
  PROVE /\ <<d, e>> \in Seq(Entries(Names))
        /\ Lost(<<d, e>>) = (IF Leaves(d) THEN d.n ELSE 0) + (IF Leaves(e) THEN e.n ELSE 0)
  <1> DEFINE s == <<d>>
             t == <<e>>
  <1>1. s \in Seq(Entries(Names)) /\ t \in Seq(Entries(Names))
    OBVIOUS
  <1>2. Lost(s) = (IF Leaves(d) THEN d.n ELSE 0) /\ Lost(t) = (IF Leaves(e) THEN e.n ELSE 0)
    BY LostOne
  <1>3. <<d, e>> = s \o t
    BY OneAndOne
  <1> HIDE DEF s, t
  <1>4. s \o t \in Seq(Entries(Names)) /\ Lost(s \o t) = Lost(s) + Lost(t)
    BY <1>1, LostJoin
  <1> QED
    BY <1>2, <1>3, <1>4

\* The logs of the contracts, and which of them take shares from our wallet.
LEMMA TheLogs ==
  ASSUME NEW a \in Names, NEW b \in Names, NEW c \in Names, NEW n \in Nat
  PROVE /\ \A s \in Sides :
             /\ Move(a, b, <<c, s>>, n) \in Entries(Names) /\ Move(a, b, <<c, s>>, n).n = n
             /\ Leaves(Move(a, b, <<c, s>>, n)) <=> a = Us /\ c = "c" /\ s = "yes"
        /\ Cash(a, b, c, n) \in Entries(Names) /\ ~Leaves(Cash(a, b, c, n))
        /\ Payout(a, b, c, n) \in Entries(Names) /\ ~Leaves(Payout(a, b, c, n))
        /\ \A by \in {"legacy", "wrapper"} :
             Adapted(by, a, c, n) \in Entries(Names) /\ ~Leaves(Adapted(by, a, c, n))
  <1>1. ASSUME NEW s \in Sides
        PROVE /\ Move(a, b, <<c, s>>, n) \in Entries(Names) /\ Move(a, b, <<c, s>>, n).n = n
              /\ Leaves(Move(a, b, <<c, s>>, n)) <=> a = Us /\ c = "c" /\ s = "yes"
    <2>1. <<c, s>> \in Names \X Sides
      OBVIOUS
    <2>2. Move(a, b, <<c, s>>, n) \in
            [ev : {"move"}, by : {"ctf"}, from : Names, to : Names, token : Names \X Sides, n : Nat]
      BY <2>1 DEF Move
    <2>3. Move(a, b, <<c, s>>, n) \in Entries(Names)
      BY <2>2 DEF Entries
    <2>4. <<c, s>> = <<"c", "yes">> <=> c = "c" /\ s = "yes"
      OBVIOUS
    <2> QED
      BY <2>3, <2>4 DEF Move, Leaves
  <1>2. Cash(a, b, c, n) \in Entries(Names) /\ ~Leaves(Cash(a, b, c, n))
    BY DEF Cash, Entries, Leaves
  <1>3. Payout(a, b, c, n) \in Entries(Names) /\ ~Leaves(Payout(a, b, c, n))
    BY DEF Payout, Entries, Leaves
  <1>4. ASSUME NEW by \in {"legacy", "wrapper"}
        PROVE Adapted(by, a, c, n) \in Entries(Names) /\ ~Leaves(Adapted(by, a, c, n))
    BY DEF Adapted, Entries, Leaves
  <1> QED
    BY <1>1, <1>2, <1>3, <1>4

\* So many shares of either side.
Amounts == [Sides -> Nat]

\* How much of the claimed token somebody gives who gives n of a condition.
Part(who, cond, n) == IF who = Us /\ cond = "c" THEN n ELSE 0

\* What leaves when the shares of both sides change hands.
LEMMA LostBoth ==
  ASSUME NEW from \in Names, NEW to \in Names, NEW cond \in Names, NEW units \in Amounts
  PROVE /\ Both(from, to, cond, units) \in Seq(Entries(Names))
        /\ Lost(Both(from, to, cond, units)) = Part(from, cond, units["yes"])
  <1> DEFINE d == Move(from, to, <<cond, "yes">>, units["yes"])
             e == Move(from, to, <<cond, "no">>, units["no"])
  <1>1. d \in Entries(Names) /\ e \in Entries(Names) /\ units["yes"] \in Nat
    BY DEF Entries, Move, Amounts, Sides
  <1>2. /\ Leaves(d) <=> from = Us /\ cond = "c"
        /\ ~Leaves(e) /\ d.n = units["yes"]
    BY DEF Leaves, Move
  <1>3. Both(from, to, cond, units) = <<d, e>>
    BY DEF Both
  <1> HIDE DEF d, e
  <1> QED
    BY <1>1, <1>2, <1>3, LostTwo DEF Part

\* What leaves when somebody redeems at the CTF.
LEMMA LostAtCtf ==
  ASSUME NEW who \in Names, NEW coin \in Names, NEW cond \in Names,
         NEW units \in Amounts, NEW paid \in Nat
  PROVE /\ AtCtf(who, coin, cond, units, paid) \in Seq(Entries(Names))
        /\ Lost(AtCtf(who, coin, cond, units, paid)) = Part(who, cond, units["yes"])
  <1> DEFINE d == Cash(coin, "ctf", who, paid)
             e == Payout(who, coin, cond, paid)
             s == Both(who, "zero", cond, units)
             t == <<d, e>>
  <1>1. d \in Entries(Names) /\ ~Leaves(d)
    <2>1. "ctf" \in Names
      BY DEF Names
    <2> QED
      BY <2>1, TheLogs
  <1>2. e \in Entries(Names) /\ ~Leaves(e)
    BY TheLogs
  <1>3. s \in Seq(Entries(Names)) /\ Lost(s) = Part(who, cond, units["yes"])
    <2>1. "zero" \in Names
      BY DEF Names
    <2> QED
      BY <2>1, LostBoth
  <1>4. AtCtf(who, coin, cond, units, paid) = s \o t
    BY DEF AtCtf
  <1> HIDE DEF d, e, s
  <1>5. t \in Seq(Entries(Names)) /\ Lost(t) = 0
    BY <1>1, <1>2, LostTwo
  <1> HIDE DEF t
  <1>6. Part(who, cond, units["yes"]) \in Nat
    BY DEF Part, Amounts, Sides
  <1> QED
    BY <1>3, <1>4, <1>5, <1>6, LostJoin

\* What leaves when somebody redeems at the adapter.
LEMMA LostAtLegacy ==
  ASSUME NEW who \in Names, NEW cond \in Names, NEW units \in Amounts,
         NEW stray \in Nat, NEW paid \in Nat
  PROVE /\ AtLegacy(who, cond, units, stray, paid) \in Seq(Entries(Names))
        /\ Lost(AtLegacy(who, cond, units, stray, paid)) = Part(who, cond, units["yes"])
  <1> DEFINE all == [s \in Sides |-> units[s] + stray]
             s == Both(who, "legacy", cond, units)
             t == AtCtf("legacy", "wcol", cond, all, paid)
  <1>0. "legacy" \in Names /\ "wcol" \in Names
    BY DEF Names
  <1>1. s \in Seq(Entries(Names)) /\ Lost(s) = Part(who, cond, units["yes"])
    BY <1>0, LostBoth
  <1>2. all \in Amounts
    BY DEF Amounts
  <1> HIDE DEF all
  <1>3. t \in Seq(Entries(Names)) /\ Lost(t) = 0
    <2>0. PICK whom \in Names, coin \in Names : whom = "legacy" /\ coin = "wcol"
      BY <1>0
    <2>1. t \in Seq(Entries(Names)) /\ Lost(t) = Part(whom, cond, all["yes"])
      BY <2>0, <1>2, LostAtCtf
    <2> QED
      BY <2>0, <2>1 DEF Part, Us
  <1>4. AtLegacy(who, cond, units, stray, paid) = s \o t
    BY DEF AtLegacy, all
  <1> HIDE DEF s, t
  <1>5. Part(who, cond, units["yes"]) \in Nat
    BY DEF Part, Amounts, Sides
  <1> QED
    BY <1>1, <1>3, <1>4, <1>5, LostJoin

\* What leaves with a call.
LEMMA LostCall ==
  ASSUME NEW who \in Names, NEW route \in Routes, NEW cond \in Names, NEW units \in Amounts,
         NEW stray \in Nat, NEW call, NEW worth \in Amounts,
         call = [who |-> who, route |-> route, cond |-> cond, units |-> units, stray |-> stray]
  PROVE /\ Logs(call, worth) \in Seq(Entries(Names))
        /\ Lost(Logs(call, worth)) = Part(who, cond, units["yes"])
  <1> DEFINE part == Part(who, cond, units["yes"])
  <1>1. PICK paid \in Nat :
          paid = units["yes"] * worth["yes"] + units["no"] * worth["no"]
                   + (IF route = "direct" THEN 0 ELSE stray)
    <2>1. units["yes"] \in Nat /\ units["no"] \in Nat /\ worth["yes"] \in Nat /\ worth["no"] \in Nat
      BY DEF Amounts, Sides
    <2>2. units["yes"] * worth["yes"] \in Nat /\ units["no"] * worth["no"] \in Nat
      BY <2>1
    <2> QED
      BY <2>1, <2>2
  <1>2. part \in Nat
    BY DEF Part, Amounts, Sides
  <1>3. /\ "usdc" \in Names /\ "pusd" \in Names /\ "zero" \in Names
        /\ "wcol" \in Names /\ "wrapper" \in Names
    BY DEF Names
  <1> HIDE DEF part
  <1>4. CASE route = "direct"
    <2> DEFINE Direct(x) == AtCtf(who, x, cond, units, paid)
               Coin(x) == Direct(x) \in Seq(Entries(Names)) /\ Lost(Direct(x)) = part
    <2>0. ASSUME NEW x \in Names PROVE Coin(x)
      <3>1. Lost(Direct(x)) = Part(who, cond, units["yes"])
        BY LostAtCtf
      <3>2. Direct(x) \in Seq(Entries(Names))
        BY LostAtCtf
      <3> QED
        BY <3>1, <3>2 DEF part
    <2>1. Logs(call, worth) = AtCtf(who, "usdc", cond, units, paid)
      BY <1>1, <1>4 DEF Logs
    <2> HIDE DEF Coin
    <2>2. Coin("usdc")
      BY <1>3, <2>0
    <2> QED
      BY <2>1, <2>2 DEF Coin, part
  <1>5. CASE route = "legacy"
    <2> DEFINE s == AtLegacy(who, cond, units, stray, paid)
               d == Cash("usdc", "wcol", who, paid)
               e == Adapted("legacy", who, cond, paid)
               t == <<d, e>>
    <2>1. Logs(call, worth) = s \o t
      BY <1>1, <1>5 DEF Logs
    <2>2. s \in Seq(Entries(Names)) /\ Lost(s) = part
      BY LostAtLegacy DEF part
    <2>3. d \in Entries(Names) /\ ~Leaves(d)
      BY <1>2, <1>3, TheLogs
    <2>4. e \in Entries(Names) /\ ~Leaves(e)
      BY <1>2, <1>3, TheLogs
    <2> HIDE DEF s, d, e
    <2>5. t \in Seq(Entries(Names)) /\ Lost(t) = 0
      BY <2>3, <2>4, LostTwo
    <2> HIDE DEF t
    <2>6. s \o t \in Seq(Entries(Names)) /\ Lost(s \o t) = part
      BY <1>2, <2>2, <2>5, LostJoin
    <2> QED
      BY <2>1, <2>6 DEF part
  <1>6. CASE route = "wrapper"
    <2> DEFINE r == Both(who, "wrapper", cond, units)
               s == AtLegacy("wrapper", cond, units, stray, paid)
               c == Adapted("legacy", "wrapper", cond, paid)
               d == Cash("pusd", "zero", who, paid)
               e == Adapted("wrapper", who, cond, paid)
               t == <<c>>
               v == <<d, e>>
    <2>1. Logs(call, worth) = (r \o s) \o (t \o v)
      <3>1. Logs(call, worth) = r \o s \o <<c, d, e>>
        BY <1>1, <1>6 DEF Logs
      <3> HIDE DEF r, s, c, d, e
      <3>2. <<c, d, e>> = t \o v
        OBVIOUS
      <3> QED
        BY <3>1, <3>2
    <2>2. r \in Seq(Entries(Names)) /\ Lost(r) = part
      BY <1>3, LostBoth DEF part
    <2>3. s \in Seq(Entries(Names)) /\ Lost(s) = 0
      <3>0. PICK whom \in Names : whom = "wrapper"
        BY <1>3
      <3>1. AtLegacy(whom, cond, units, stray, paid) \in Seq(Entries(Names))
        BY LostAtLegacy
      <3>2. Lost(AtLegacy(whom, cond, units, stray, paid)) = Part(whom, cond, units["yes"])
        BY LostAtLegacy
      <3> QED
        BY <3>0, <3>1, <3>2 DEF Part, Us
    <2>4. c \in Entries(Names) /\ ~Leaves(c)
      BY <1>2, <1>3, TheLogs
    <2>5. d \in Entries(Names) /\ ~Leaves(d)
      BY <1>2, <1>3, TheLogs
    <2>6. e \in Entries(Names) /\ ~Leaves(e)
      BY <1>2, <1>3, TheLogs
    <2> HIDE DEF r, s, c, d, e
    <2>7. t \in Seq(Entries(Names)) /\ Lost(t) = 0
      BY <2>4, LostOne
    <2>8. v \in Seq(Entries(Names)) /\ Lost(v) = 0
      BY <2>5, <2>6, LostTwo
    <2> HIDE DEF t, v
    <2>9. t \o v \in Seq(Entries(Names)) /\ Lost(t \o v) = 0
      BY <2>7, <2>8, LostJoin
    <2>10. r \o s \in Seq(Entries(Names)) /\ Lost(r \o s) = part
      BY <1>2, <2>2, <2>3, LostJoin
    <2>11. /\ (r \o s) \o (t \o v) \in Seq(Entries(Names))
           /\ Lost((r \o s) \o (t \o v)) = part
      <3> DEFINE x == r \o s
                 y == t \o v
      <3> HIDE DEF x, y
      <3>1. x \in Seq(Entries(Names)) /\ Lost(x) = part /\ y \in Seq(Entries(Names)) /\ Lost(y) = 0
        BY <2>9, <2>10 DEF x, y
      <3>2. x \o y \in Seq(Entries(Names)) /\ Lost(x \o y) = part
        BY <1>2, <3>1, LostJoin
      <3> QED
        BY <3>2 DEF x, y
    <2> QED
      BY <2>1, <2>11 DEF part
  <1> QED
    BY <1>4, <1>5, <1>6 DEF Routes, part

\* A receipt of the list is of n shares.
LEMMA ReceiptsLose ==
  ASSUME NEW n \in Nat \ {0}, NEW worth \in Worths, NEW logs \in Receipts(n, worth)
  PROVE logs \in Seq(Entries(Names)) /\ Lost(logs) = n
  <1>1. worth \in Amounts
    BY DEF Worths, Amounts, Sides
  <1> DEFINE L(call) == Logs(call, worth)
  <1>2. ASSUME NEW k \in Nat, NEW a \in Ours(k) PROVE L(a) \in Seq(Entries(Names)) /\ Lost(L(a)) = k
    <2>1. PICK r \in Routes, m \in {0, 1}, s \in {0, 1} : a = Call(Us, r, "c", k, m, s)
      BY <1>2 DEF Ours
    <2> DEFINE units == [yes |-> k, no |-> m]
    <2>2. units \in Amounts /\ units["yes"] = k
      BY DEF Amounts, Sides
    <2>3. /\ a = [who |-> Us, route |-> r, cond |-> "c", units |-> units, stray |-> s]
          /\ Us \in Names /\ "c" \in Names /\ s \in Nat
      BY <2>1 DEF Call, Us, Names
    <2> HIDE DEF units
    <2>4. L(a) \in Seq(Entries(Names)) /\ Lost(L(a)) = Part(Us, "c", units["yes"])
      BY <1>1, <2>2, <2>3, LostCall
    <2> QED
      BY <2>2, <2>4 DEF Part
  <1>3. ASSUME NEW b \in Beside PROVE L(b) \in Seq(Entries(Names)) /\ Lost(L(b)) = 0
    <2>1. PICK w \in {Us, "them"}, r \in Routes, c \in {"c", "d"} : b = Call(w, r, c, 1, 1, 0)
      BY DEF Beside
    <2>2. ~(w = Us /\ c = "c")
      BY <2>1 DEF Beside
    <2> DEFINE units == [yes |-> 1, no |-> 1]
    <2>3. units \in Amounts
      BY DEF Amounts, Sides
    <2>4. /\ b = [who |-> w, route |-> r, cond |-> c, units |-> units, stray |-> 0]
          /\ w \in Names /\ c \in Names
      BY <2>1 DEF Call, Us, Names
    <2> HIDE DEF units
    <2>5. L(b) \in Seq(Entries(Names)) /\ Lost(L(b)) = Part(w, c, units["yes"])
      BY <1>1, <2>3, <2>4, LostCall
    <2> QED
      BY <2>2, <2>5 DEF Part
  <1> HIDE DEF L
  <1>4. \/ \E a \in Ours(n) : logs = L(a)
        \/ \E a \in Ours(n), b \in Beside : logs = L(a) \o L(b) \/ logs = L(b) \o L(a)
        \/ \E a \in Ours(n - 1), b \in Ours(1) : logs = L(a) \o L(b)
    BY DEF Receipts, L
  <1>5. CASE \E a \in Ours(n) : logs = L(a)
    BY <1>2, <1>5
  <1>6. ASSUME NEW a \in Ours(n), NEW b \in Beside, logs = L(a) \o L(b) \/ logs = L(b) \o L(a)
        PROVE logs \in Seq(Entries(Names)) /\ Lost(logs) = n
    <2>1. L(a) \in Seq(Entries(Names)) /\ Lost(L(a)) = n /\ L(b) \in Seq(Entries(Names)) /\ Lost(L(b)) = 0
      BY <1>2, <1>3, <1>6
    <2> DEFINE s == L(a)
               t == L(b)
    <2> HIDE DEF s, t
    <2>2. s \in Seq(Entries(Names)) /\ Lost(s) = n /\ t \in Seq(Entries(Names)) /\ Lost(t) = 0
      BY <2>1 DEF s, t
    <2>3. /\ s \o t \in Seq(Entries(Names)) /\ Lost(s \o t) = n
          /\ t \o s \in Seq(Entries(Names)) /\ Lost(t \o s) = n
      BY <2>2, LostJoin
    <2> QED
      BY <1>6, <2>3 DEF s, t
  <1>7. ASSUME NEW a \in Ours(n - 1), NEW b \in Ours(1), logs = L(a) \o L(b)
        PROVE logs \in Seq(Entries(Names)) /\ Lost(logs) = n
    <2>1. n - 1 \in Nat /\ (n - 1) + 1 = n
      OBVIOUS
    <2>2. /\ L(a) \in Seq(Entries(Names)) /\ Lost(L(a)) = n - 1
          /\ L(b) \in Seq(Entries(Names)) /\ Lost(L(b)) = 1
      BY <1>2, <1>7, <2>1
    <2> QED
      BY <1>7, <2>1, <2>2, LostJoin
  <1> QED
    BY <1>4, <1>5, <1>6, <1>7

\* A receipt that is listed proves at most what was redeemed.
LEMMA ReceiptsSound == \A n \in DOMAIN Proofs : Proofs[n] \subseteq 0 .. n
  <1> SUFFICES ASSUME NEW n \in DOMAIN Proofs, NEW u \in Proofs[n] PROVE u \in 0 .. n
    OBVIOUS
  <1>1. Total(Holding) \in Nat /\ Cardinality(Buys) \in Nat
    BY Settings, FS_CardinalityType, TotalNat
  <1>2. n \in Nat \ {0} /\ u \in Evidence(n)
    BY <1>1 DEF Proofs
  <1>3. PICK worth \in Worths : \E logs \in Receipts(n, worth) : u \in VerifyReceipt(logs, worth)
    BY <1>2 DEF Evidence
  <1>4. PICK logs \in Receipts(n, worth) : u \in VerifyReceipt(logs, worth)
    BY <1>3
  <1>5. logs \in Seq(Entries(Names)) /\ Lost(logs) = n
    BY <1>2, ReceiptsLose
  <1>6. u \in Nat /\ u <= Lost(logs)
    BY <1>4, <1>5, ReceiptProves
  <1> QED
    BY <1>2, <1>5, <1>6

\* What the listed receipts prove is at most what was redeemed.
LEMMA ListedSound ==
  ASSUME TypeInv, NEW n \in Listed
  PROVE n \in Nat /\ n <= redeemed
  <1>1. Awaited \in SUBSET Buys /\ wallet \in Nat /\ redeemed \in Nat
    BY DEF Awaited, TypeInv, TypeOK
  <1>2. Cardinality(Awaited) \in Nat /\ Cardinality(Buys) \in Nat /\ Total(Holding) \in Nat
    BY <1>1, Settings, FS_Subset, FS_CardinalityType, TotalNat
  <1>3. redeemed <= Total(Holding) + Cardinality(Buys)
    BY <1>1, <1>2 DEF TypeInv, Bounded, Worth
  <1>4. redeemed \in DOMAIN Proofs
    BY <1>1, <1>2, <1>3 DEF Proofs
  <1>5. Proofs[redeemed] \subseteq 0 .. redeemed
    BY <1>4, ReceiptsSound
  <1> HIDE DEF Proofs
  <1> QED
    BY <1>1, <1>5 DEF Listed

\* Every step keeps every variable within its range.
LEMMA TypeStep == TypeInv /\ [Next]_vars => TypeInv'
  <1> SUFFICES ASSUME TypeInv, [Next]_vars PROVE TypeInv'
    OBVIOUS
  <1>0. Bounded'
    BY BoundedStep
  <1> USE DEF TypeInv, TypeOK, Idle, Running
  <1>1. ASSUME NEW o \in Orders, Place(o) \/ Match(o) \/ Die(o) \/ Close(o) PROVE TypeInv'
    <2>1. orders' \in [Orders -> Phases]
      BY <1>1 DEF Place, Match, Die, Close, Phases
    <2>2. wallet' \in Nat
      <3>1. ASSUME Match(o) PROVE wallet' \in Nat
        BY <3>1 DEF Match, Orders
      <3> QED
        BY <1>1, <3>1 DEF Place, Die, Close, chain
    <2> QED
      BY <1>0, <1>1, <2>1, <2>2 DEF Place, Match, Die, Close, chain, memory, store, tasks, bounds
  <1>2. ASSUME NEW o \in Orders, BookFill(o) PROVE TypeInv'
    BY <1>0, <1>2, RowsAreRows DEF BookFill, chain, store, tasks, bounds
  <1>3. ASSUME AppendRow PROVE TypeInv'
    <2>1. /\ Apply(disk, Head(rows)) \in Ledgers /\ Apply(book, Head(rows)) \in Ledgers
          /\ Tail(rows) \in Seq(TheRows)
      BY <1>3, RowsAreRows, AppliedType DEF AppendRow
    <2> QED
      BY <1>0, <1>3, <2>1 DEF AppendRow, Stored, chain, tasks, bounds
  <1>4. ASSUME NEW fate \in {"lost", "torn", "kept"}, AppendFails(fate) PROVE TypeInv'
    <2>1. Apply(disk, Head(rows)) \in Ledgers
      BY <1>4, RowsAreRows, AppliedType DEF AppendFails
    <2>2. disk' \in Ledgers /\ torn' \in BOOLEAN /\ bad' \in BOOLEAN
      <3>1. CASE fate = "lost"
        BY <1>4, <3>1 DEF AppendFails, store
      <3>2. CASE fate = "torn"
        BY <1>4, <3>2 DEF AppendFails
      <3>3. CASE fate = "kept"
        BY <1>4, <2>1, <3>3 DEF AppendFails, Stored
      <3> QED
        BY <3>1, <3>2, <3>3
    <2> QED
      BY <1>0, <1>4, <2>2 DEF AppendFails, chain, tasks
  <1>5. ASSUME CatchUp \/ Resolve \/ Redeem \/ Finalize \/ \E l \in Lanes : Rest(l) PROVE TypeInv'
    <2>1. ASSUME CatchUp PROVE TypeInv'
      BY <1>0, <2>1 DEF CatchUp, chain, memory, store, tasks, bounds
    <2>2. ASSUME Resolve \/ Finalize PROVE TypeInv'
      BY <1>0, <2>2 DEF Resolve, Finalize, memory, store, tasks, bounds
    <2>3. ASSUME Redeem PROVE TypeInv'
      <3>1. wallet \in Nat /\ redeemed \in Nat
        OBVIOUS
      <3>2. wallet' = 0 /\ redeemed' = redeemed + wallet /\ final' = FALSE
        BY <2>3 DEF Redeem
      <3>3. wallet' \in Nat /\ redeemed' \in Nat
        BY <3>1, <3>2
      <3> QED
        BY <1>0, <2>3, <3>2, <3>3 DEF Redeem, memory, store, tasks, bounds
    <2>4. ASSUME NEW l \in Lanes, Rest(l) PROVE TypeInv'
      BY <1>0, <2>4 DEF Rest, chain, memory, store, tasks, bounds
    <2> QED
      BY <1>5, <2>1, <2>2, <2>3, <2>4
  <1>6. ASSUME \/ ReconReadsFlight
               \/ \E empty \in BOOLEAN : ReconReads(empty)
        PROVE TypeInv'
    <2>1. recon' \in Passes /\ up
      <3>1. NoPass \in Passes
        BY DEF NoPass, Passes
      <3>2. ASSUME ReconReadsFlight PROVE recon' \in Passes
        BY <3>2 DEF ReconReadsFlight, Passes
      <3>3. ASSUME NEW empty \in BOOLEAN, ReconReads(empty) PROVE recon' \in Passes
        BY <3>1, <3>3 DEF ReconReads, Passes
      <3>4. up
        BY <1>6 DEF ReconReads, ReconReadsFlight, NoPass
      <3> QED
        BY <1>6, <3>2, <3>3, <3>4
    <2> QED
      BY <1>0, <1>6, <2>1 DEF ReconReads, ReconReadsFlight, chain, memory, store, bounds
  <1>7. ASSUME NEW l \in Lanes, ReconLane(l) PROVE TypeInv'
    <2>1. recon' \in Passes /\ up
      BY <1>7 DEF ReconLane, Passes, NoPass
    <2>2. rows' \in Seq(TheRows)
      BY <1>7, RowsAreRows DEF ReconLane
    <2> QED
      BY <1>0, <1>7, <2>1, <2>2 DEF ReconLane, chain, store, bounds
  <1>8. ASSUME NEW l \in Lanes, NEW his \in BOOLEAN, NEW trusted \in BOOLEAN,
               BootLane(l, his, trusted)
        PROVE TypeInv'
    <2> DEFINE shown == IF "lag" \in env THEN seen ELSE wallet
    <2>1. shown \in Nat
      OBVIOUS
    <2>2. rows' = IF Adopted(l, shown, his) > 0
                  THEN <<Row("adopt", l, Adopted(l, shown, his), {})>>
                  ELSE IF Vanished(l, shown) > 0 /\ trusted
                  THEN <<Row("release", l, Vanished(l, shown), {})>>
                  ELSE <<>>
      BY <1>8 DEF BootLane
    <2> HIDE DEF shown
    <2>3. rows' \in Seq(TheRows)
      BY <2>1, <2>2, RowsAreRows
    <2> QED
      BY <1>0, <1>8, <2>3 DEF BootLane, chain, store, bounds
  <1>9. ASSUME NEW n \in Listed, ReadProof(n) PROVE TypeInv'
    <2>1. n \in Nat
      BY ListedSound
    <2>2. proof' \in Readings /\ up
      BY <1>9, <2>1 DEF ReadProof, Proved, FinalBalance, AtHead, Readings
    <2> QED
      BY <1>0, <1>9, <2>2 DEF ReadProof, chain, memory, store, bounds
  <1>10. ASSUME Credit PROVE TypeInv'
    BY <1>0, <1>10, BatchIsBatch DEF Credit, BatchOf, NoProof, Readings, chain, store, bounds
  <1>11. ASSUME Crash PROVE TypeInv'
    <2>1. Empty \in Ledgers /\ NoPass \in Passes /\ NoProof \in Readings
      BY DEF Empty, Ledgers, NoPass, NoProof, Passes, Readings
    <2>2. rows' = <<>> /\ <<>> \in Seq(TheRows)
      BY <1>11 DEF Crash
    <2> HIDE DEF Empty, NoPass, NoProof
    <2> QED
      BY <1>0, <1>11, <2>1, <2>2 DEF Crash, chain, store
  <1>12. ASSUME Boot PROVE TypeInv'
    BY <1>0, <1>12 DEF Boot, chain, bounds
  <1>13. ASSUME UNCHANGED vars PROVE TypeInv'
    BY <1>0, <1>13 DEF vars, chain, memory, store, tasks, bounds
  <1> QED
    BY <1>1, <1>2, <1>3, <1>4, <1>5, <1>6, <1>7, <1>8, <1>9, <1>10, <1>11, <1>12, <1>13
    DEF Next, Trading, Resolver, Writing, Reconciling, Settling, SettlesClaims

-----------------------------------------------------------------------------
(* No share is credited twice.                                               *)

\* The rows to append, by what they are.
LEMMA HeadAndTail ==
  ASSUME TypeInv, rows # <<>>
  PROVE /\ Head(rows) \in TheRows /\ 1 \in DOMAIN rows /\ Head(rows) = rows[1]
        /\ Tail(rows) \in Seq(TheRows) /\ Len(Tail(rows)) = Len(rows) - 1 /\ Len(rows) \in Nat
        /\ \A i \in DOMAIN Tail(rows) : i + 1 \in DOMAIN rows /\ i + 1 # 1 /\ Tail(rows)[i] = rows[i + 1]
        /\ \A i, j \in DOMAIN Tail(rows) : i + 1 = j + 1 => i = j
        /\ Len(rows) <= 1 => Tail(rows) = <<>>
  <1>1. rows \in Seq(TheRows)
    BY DEF TypeInv
  <1>2. /\ Head(rows) \in TheRows /\ Tail(rows) \in Seq(TheRows) /\ Len(Tail(rows)) = Len(rows) - 1
        /\ \A i \in 1 .. Len(Tail(rows)) : Tail(rows)[i] = rows[i + 1]
    BY <1>1, HeadTailProperties
  <1>3. /\ Len(rows) \in Nat /\ DOMAIN rows = 1 .. Len(rows) /\ Head(rows) = rows[1]
        /\ DOMAIN Tail(rows) = 1 .. Len(Tail(rows)) /\ Len(rows) # 0
    BY <1>1, <1>2, EmptySeq
  <1>4. Len(rows) <= 1 => Tail(rows) = <<>>
    BY <1>2, <1>3, EmptySeq
  <1> QED
    BY <1>2, <1>3, <1>4

\* At first nothing is credited.
LEMMA CreditInit == Init => CreditInv
  <1> SUFFICES ASSUME Init PROVE CreditInv
    OBVIOUS
  <1>1. /\ rows = <<>> /\ up = FALSE /\ proof = NoProof /\ book = Empty
        /\ disk = [Empty EXCEPT !.held = Holding]
        /\ redeemed = 0 /\ wallet = Total(Holding)
    BY DEF Init
  <1>2. /\ Total(Holding) \in Nat
        /\ \A l \in Lanes : book.settled[l] = 0 /\ disk.settled[l] = 0
    BY <1>1, Settings, TotalNat DEF Empty
  <1>3. Total(book.settled) = 0 /\ Total(disk.settled) = 0
    BY <1>2, TotalZero
  <1>4. ~Batch /\ Len(rows) <= 1
    BY <1>1 DEF Batch
  <1>5. Early /\ ReadRight
    BY <1>1, <1>2, <1>4 DEF Early, ReadRight, NoProof
  <1>6. InStep /\ BatchRight
    BY <1>1, <1>4 DEF InStep, BatchRight
  <1>7. CreditedOnce
    BY <1>1, <1>2, <1>3 DEF CreditedOnce
  <1> QED
    BY <1>5, <1>6, <1>7 DEF CreditInv

\* What the wallet holds and has redeemed is a natural.
LEMMA WorthNat == TypeInv => Worth \in Nat
  BY DEF TypeInv, TypeOK, Worth

\* A row is appended to the books and to the journal, or to the journal alone.
LEMMA CreditAppend ==
  ASSUME TypeInv, CreditInv, AppendRow \/ \E fate \in {"lost", "torn", "kept"} : AppendFails(fate)
  PROVE CreditInv'
  <1> DEFINE r == Head(rows)
  <1>1. up /\ rows # <<>>
    BY DEF AppendRow, AppendFails
  <1>2. /\ r \in TheRows /\ 1 \in DOMAIN rows /\ r = rows[1]
        /\ Tail(rows) \in Seq(TheRows) /\ Len(Tail(rows)) = Len(rows) - 1 /\ Len(rows) \in Nat
        /\ \A i \in DOMAIN Tail(rows) : i + 1 \in DOMAIN rows /\ i + 1 # 1 /\ Tail(rows)[i] = rows[i + 1]
        /\ \A i, j \in DOMAIN Tail(rows) : i + 1 = j + 1 => i = j
        /\ Len(rows) <= 1 => Tail(rows) = <<>>
    BY <1>1, HeadAndTail
  <1>3. /\ UNCHANGED <<up, resolved, proof>> /\ Worth' = Worth /\ Worth \in Nat
        /\ book \in Ledgers /\ disk \in Ledgers
    BY WorthNat DEF AppendRow, AppendFails, chain, tasks, TypeInv, TypeOK, Worth
  <1>4. /\ book' \in {book, Apply(book, r)} /\ disk' \in {disk, Apply(disk, r)}
        /\ rows' \in {<<>>, Tail(rows)}
    <2>1. ASSUME AppendRow PROVE disk' \in {disk, Apply(disk, r)}
      BY <2>1 DEF AppendRow, Stored
    <2>2. ASSUME NEW fate \in {"lost", "torn", "kept"}, AppendFails(fate)
          PROVE disk' \in {disk, Apply(disk, r)}
      <3>1. CASE fate = "lost"
        BY <2>2, <3>1 DEF AppendFails, store
      <3>2. CASE fate = "torn"
        BY <2>2, <3>2 DEF AppendFails
      <3>3. CASE fate = "kept"
        BY <2>2, <3>3 DEF AppendFails, Stored
      <3> QED
        BY <3>1, <3>2, <3>3
    <2> QED
      BY <2>1, <2>2 DEF AppendRow, AppendFails
  <1>5. ReadRight'
    BY <1>3 DEF CreditInv, ReadRight
  <1> HIDE DEF r
  <1>6. InStep'
    <2>1. ASSUME AppendRow PROVE InStep'
      <3>1. /\ book' = Apply(book, r) /\ disk' = (IF torn THEN disk ELSE Apply(disk, r))
            /\ bad' = (bad \/ torn) /\ torn' = FALSE /\ UNCHANGED <<up, fault>>
        BY <2>1 DEF AppendRow, Stored, r
      <3> QED
        BY <3>1 DEF CreditInv, InStep
    <2>2. ASSUME NEW fate \in {"lost", "torn", "kept"}, AppendFails(fate) PROVE InStep'
      BY <2>2 DEF AppendFails, InStep
    <2> QED
      BY <2>1, <2>2
  <1>7. CASE Batch
    <2>1. /\ up /\ ~fault /\ Claimed(book) <= Worth /\ book = disk /\ ~torn /\ resolved
      BY <1>1, <1>7 DEF CreditInv, InStep, BatchRight, Early
    <2>2. \A i \in DOMAIN rows :
            /\ IsCredit(rows[i])
            /\ rows[i].ev = "credit" =>
                 /\ rows[i].n <= book.released[rows[i].lane]
                 /\ \A j \in DOMAIN rows :
                      rows[j].ev = "credit" /\ rows[j].lane = rows[i].lane => i = j
      BY <1>7 DEF CreditInv, BatchRight
    <2>3. r.ev \in {"credit", "settle"} /\ (r.ev = "credit" => r.n <= book.released[r.lane])
      BY <1>2, <2>2 DEF IsCredit
    <2>4. /\ Claimed(Apply(book, r)) = Claimed(book) /\ Apply(book, r) \in Ledgers
      BY <1>2, <1>3, <2>3, AppliedClaims, AppliedType
    <2>5. /\ Claimed(book') = Claimed(book) /\ Claimed(disk') = Claimed(book)
          /\ book' \in Ledgers /\ disk' \in Ledgers
      BY <1>3, <1>4, <2>1, <2>4
    <2>6. CreditedOnce'
      <3>1. /\ Total((book').settled) <= Claimed(book') /\ Total((book').settled) \in Nat
            /\ Total((disk').settled) <= Claimed(disk') /\ Total((disk').settled) \in Nat
        BY <2>5, ClaimedNat
      <3>2. Claimed(book) \in Nat
        BY <1>3, ClaimedNat
      <3>3. Total((book').settled) <= Worth' /\ Total((disk').settled) <= Worth'
        BY <1>3, <2>1, <2>5, <3>1, <3>2
      <3> QED
        BY <3>3 DEF CreditedOnce, Worth
    <2>7. Early'
      BY <1>3, <2>1 DEF Early
    <2>8. BatchRight'
      <3>1. CASE rows' = <<>>
        BY <3>1 DEF BatchRight, Batch
      <3>2. CASE rows' # <<>>
        <4>1. AppendRow /\ rows' = Tail(rows)
          BY <1>4, <3>2 DEF AppendRow, AppendFails
        <4>2. book' = Apply(book, r) /\ fault' = fault
          BY <4>1 DEF AppendRow, r
        <4>3. \A i \in DOMAIN rows' : IsCredit(rows'[i])
          BY <1>2, <2>2, <4>1
        <4>4. ASSUME NEW i \in DOMAIN rows', rows'[i].ev = "credit"
              PROVE /\ rows'[i].n <= (book').released[rows'[i].lane]
                    /\ \A j \in DOMAIN rows' :
                         rows'[j].ev = "credit" /\ rows'[j].lane = rows'[i].lane => i = j
          <5>1. /\ i + 1 \in DOMAIN rows /\ i + 1 # 1 /\ rows'[i] = rows[i + 1]
            BY <1>2, <4>1, <4>4
          <5>2. /\ rows'[i].n <= book.released[rows'[i].lane]
                /\ \A j \in DOMAIN rows :
                     rows[j].ev = "credit" /\ rows[j].lane = rows'[i].lane => i + 1 = j
            BY <2>2, <4>4, <5>1
          <5>3. rows'[i].lane \in Lanes
            <6>1. rows' \in Seq(TheRows)
              BY <1>2, <4>1
            <6>2. rows'[i] \in TheRows
              BY <4>4, <6>1
            <6> QED
              BY <6>2 DEF TheRows
          <5>4. (book').released[rows'[i].lane] = book.released[rows'[i].lane]
            <6>1. CASE r.ev = "settle"
              BY <1>2, <1>3, <4>2, <6>1, AppliedSettle
            <6>2. CASE r.ev = "credit"
              <7>1. rows'[i].lane # r.lane
                BY <1>2, <5>1, <5>2, <6>2
              <7>2. (book').released = [book.released EXCEPT ![r.lane] = Monus(book.released[r.lane], r.n)]
                BY <1>2, <1>3, <4>2, <6>2, AppliedCredit
              <7>3. book.released \in [Lanes -> Nat]
                BY <1>3, ClaimedNat
              <7> QED
                BY <5>3, <7>1, <7>2, <7>3
            <6> QED
              BY <2>3, <6>1, <6>2
          <5>5. \A j \in DOMAIN rows' :
                  rows'[j].ev = "credit" /\ rows'[j].lane = rows'[i].lane => i = j
            BY <1>2, <4>1, <5>2
          <5> QED
            BY <5>2, <5>4, <5>5
        <4>5. up' /\ ~fault' /\ Claimed(book') <= Worth'
          BY <1>3, <2>1, <2>5, <4>2
        <4>6. Batch'
          <5>1. 1 \in DOMAIN rows'
            <6>1. rows' \in Seq(TheRows)
              BY <1>2, <4>1
            <6> QED
              BY <3>2, <6>1, EmptySeq
          <5> QED
            BY <4>3, <5>1 DEF Batch
        <4> QED
          BY <4>3, <4>4, <4>5, <4>6 DEF BatchRight
      <3> QED
        BY <3>1, <3>2
    <2> QED
      BY <1>5, <1>6, <2>6, <2>7, <2>8 DEF CreditInv
  <1>8. CASE ~Batch
    <2>1. ~IsCredit(r) /\ Len(rows) <= 1
      BY <1>2, <1>8 DEF CreditInv, BatchRight, Batch
    <2>2. rows' = <<>>
      BY <1>2, <1>4, <2>1
    <2>3. (book').settled = book.settled /\ (disk').settled = disk.settled
      BY <1>2, <1>3, <1>4, <2>1, AppliedClaims
    <2>4. CreditedOnce'
      BY <1>3, <2>3 DEF CreditInv, CreditedOnce, Worth
    <2>5. ~Batch'
      BY <2>2 DEF Batch
    <2>6. Early'
      BY <1>3, <2>3, <2>5 DEF CreditInv, Early
    <2>7. BatchRight'
      BY <2>2, <2>5 DEF BatchRight
    <2> QED
      BY <1>5, <1>6, <2>4, <2>6, <2>7 DEF CreditInv
  <1> QED
    BY <1>7, <1>8

\* Every step keeps every share credited at most once.
LEMMA CreditStep == TypeInv /\ CreditInv /\ [Next]_vars => CreditInv'
  <1> SUFFICES ASSUME TypeInv, CreditInv, [Next]_vars PROVE CreditInv'
    OBVIOUS
  <1>0. wallet \in Nat /\ redeemed \in Nat /\ Worth \in Nat
    BY WorthNat DEF TypeInv, TypeOK
  <1>1. CASE UNCHANGED <<up, wallet, redeemed, resolved, book, fault, rows, disk, torn, bad, proof>>
    BY <1>1 DEF CreditInv, InStep, Early, ReadRight, BatchRight, Batch, CreditedOnce, Worth
  <1>2. CASE \/ \E o \in Orders : Place(o) \/ Die(o) \/ Close(o)
             \/ \E l \in Lanes : Rest(l)
             \/ \E empty \in BOOLEAN : ReconReads(empty)
             \/ ReconReadsFlight \/ CatchUp \/ Finalize \/ UNCHANGED vars
    <2>1. UNCHANGED <<up, wallet, redeemed, resolved, book, fault, rows, disk, torn, bad, proof>>
      BY <1>2 DEF Place, Die, Close, Rest, ReconReads, ReconReadsFlight, CatchUp, Finalize,
                  vars, chain, memory, store, tasks
    <2> QED
      BY <1>1, <2>1
  <1>3. ASSUME NEW o \in Orders, Match(o) PROVE CreditInv'
    <2>1. ~resolved /\ UNCHANGED <<up, redeemed, resolved, book, fault, rows, disk, torn, bad, proof>>
      BY <1>3 DEF Match, memory, store, tasks
    <2>2. wallet' \in Nat
      BY <1>0, <1>3 DEF Match, Orders
    <2>3. Total(book.settled) = 0 /\ Total(disk.settled) = 0
      BY <2>1, TotalZero DEF CreditInv, Early
    <2>4. CreditedOnce'
      <3>1. book' = book /\ disk' = disk /\ redeemed' = redeemed
        BY <2>1
      <3>2. Total((book').settled) = 0 /\ Total((disk').settled) = 0
        BY <2>3, <3>1
      <3> QED
        <4>1. redeemed' = redeemed
          BY <3>1
        <4>2. 0 <= wallet' + redeemed'
          <5>1. wallet' \in Nat /\ redeemed' \in Nat
            BY <1>0, <2>2, <4>1
          <5>2. \A m, n \in Nat : 0 <= m + n
            OBVIOUS
          <5> QED
            BY <5>1, <5>2
        <4>3. Total((book').settled) <= wallet' + redeemed' /\ Total((disk').settled) <= wallet' + redeemed'
          BY <3>2, <4>2
        <4> QED
          BY <4>3 DEF CreditedOnce
    <2>5. ~proof.read /\ ~Batch /\ Len(rows) <= 1
      BY <2>1 DEF CreditInv, Early, BatchRight
    <2>6. ~Batch' /\ Early'
      BY <2>1, <2>5 DEF Batch, CreditInv, Early
    <2>7. BatchRight'
      BY <2>1, <2>5, <2>6 DEF BatchRight
    <2>8. InStep' /\ ReadRight'
      BY <2>1, <2>5 DEF CreditInv, InStep, ReadRight
    <2> QED
      BY <2>4, <2>6, <2>7, <2>8 DEF CreditInv
  <1>4. CASE \/ \E o \in Orders : BookFill(o)
             \/ \E l \in Lanes : ReconLane(l)
             \/ \E l \in Lanes, his, trusted \in BOOLEAN : BootLane(l, his, trusted)
    <2>1. UNCHANGED <<up, wallet, redeemed, resolved, book, fault, disk, torn, bad, proof>>
      BY <1>4 DEF BookFill, ReconLane, BootLane, chain, store, tasks
    <2>2. rows' = <<>> \/ \E r : rows' = <<r>> /\ ~IsCredit(r)
      <3>1. ASSUME NEW o \in Orders, BookFill(o) PROVE \E r : rows' = <<r>> /\ ~IsCredit(r)
        <4>1. rows' = <<FillRow(o)>> /\ ~IsCredit(FillRow(o))
          BY <3>1 DEF BookFill, FillRow, Row, IsCredit
        <4> QED
          BY <4>1
      <3>2. \A l, n : ~IsCredit(Row("release", l, n, {})) /\ ~IsCredit(Row("adopt", l, n, {}))
        BY DEF Row, IsCredit
      <3>3. ASSUME NEW l \in Lanes, ReconLane(l)
            PROVE rows' = <<>> \/ \E r : rows' = <<r>> /\ ~IsCredit(r)
        BY <3>2, <3>3 DEF ReconLane
      <3>4. ASSUME NEW l \in Lanes, NEW his \in BOOLEAN, NEW trusted \in BOOLEAN,
                   BootLane(l, his, trusted)
            PROVE rows' = <<>> \/ \E r : rows' = <<r>> /\ ~IsCredit(r)
        <4>1. \/ rows' = <<>>
              \/ \E n : rows' = <<Row("adopt", l, n, {})>> \/ rows' = <<Row("release", l, n, {})>>
          BY <3>4 DEF BootLane
        <4> QED
          BY <3>2, <4>1
      <3> QED
        BY <1>4, <3>1, <3>3, <3>4
    <2>3. ~Batch' /\ Len(rows') <= 1
      BY <2>2 DEF Batch
    <2> QED
      BY <2>1, <2>3 DEF CreditInv, InStep, Early, ReadRight, BatchRight, CreditedOnce, Worth
  <1>5. ASSUME Resolve PROVE CreditInv'
    BY <1>5 DEF Resolve, memory, store, tasks, CreditInv, InStep, Early, ReadRight, BatchRight,
                Batch, CreditedOnce, Worth
  <1>6. ASSUME Redeem PROVE CreditInv'
    <2>1. /\ UNCHANGED <<up, resolved, book, fault, rows, disk, torn, bad, proof>>
          /\ wallet' + redeemed' = wallet + redeemed
      BY <1>0, <1>6 DEF Redeem, memory, store, tasks
    <2> QED
      BY <2>1 DEF CreditInv, InStep, Early, ReadRight, BatchRight, Batch, CreditedOnce, Worth
  <1>7. ASSUME NEW n \in Listed, ReadProof(n) PROVE CreditInv'
    <2>1. /\ UNCHANGED <<up, wallet, redeemed, resolved, book, fault, rows, disk, torn, bad>>
          /\ resolved /\ proof' = [read |-> TRUE, balance |-> FinalBalance, redeemed |-> Proved(n)]
      BY <1>7 DEF ReadProof, PayoutIsFinal, chain, memory, store
    <2>2. n \in Nat /\ n <= redeemed
      BY ListedSound
    <2>3. FinalBalance + Proved(n) <= Worth
      BY <1>0, <2>2 DEF FinalBalance, Proved, AtHead, Worth
    <2>4. ReadRight'
      BY <2>1, <2>3 DEF ReadRight, Worth
    <2> QED
      BY <2>1, <2>4 DEF CreditInv, InStep, Early, BatchRight, Batch, CreditedOnce, Worth
  <1>8. ASSUME Credit PROVE CreditInv'
    <2>1. /\ UNCHANGED <<up, wallet, redeemed, resolved, book, fault, disk, torn, bad>>
          /\ proof.read /\ proof' = NoProof /\ up
          /\ rows' = IF ~fault /\ Covers(proof, book) THEN CreditBatch ELSE <<>>
      BY <1>8 DEF Credit, Running, chain, store
    <2>2. InStep' /\ ReadRight' /\ CreditedOnce' /\ resolved
      BY <2>1 DEF CreditInv, InStep, ReadRight, CreditedOnce, Early, NoProof
    <2>3. Early'
      BY <2>1, <2>2 DEF Early
    <2>4. CASE ~fault /\ Covers(proof, book)
      <3>1. Claimed(book) <= Worth
        BY <2>1, <2>4 DEF Covers, CreditInv, ReadRight
      <3>2. rows' = CreditBatch /\ BatchOf(CreditBatch, Lanes)
        BY <2>1, <2>4, BatchIsBatch DEF TypeInv
      <3>3. rows' \in Seq(TheRows)
        BY <3>2 DEF BatchOf
      <3>4. \A i \in DOMAIN rows' :
               /\ IsCredit(rows'[i]) /\ rows'[i].lane \in Lanes
               /\ rows'[i].ev = "credit" =>
                    /\ rows'[i].n = book.released[rows'[i].lane]
                    /\ \A j \in DOMAIN rows' :
                         rows'[j].ev = "credit" /\ rows'[j].lane = rows'[i].lane => i = j
        BY <3>2 DEF BatchOf
      <3>5. \A l \in Lanes : book.released[l] \in Nat
        BY DEF TypeInv, TypeOK, Ledgers
      <3>6. CASE Batch'
        <4>1. up' /\ ~fault' /\ Claimed(book') <= Worth'
          BY <2>1, <2>4, <3>1 DEF Worth
        <4>2. \A i \in DOMAIN rows' :
                rows'[i].ev = "credit" => rows'[i].n <= (book').released[rows'[i].lane]
          BY <2>1, <3>4, <3>5
        <4>3. \A i \in DOMAIN rows' :
                rows'[i].ev = "credit" =>
                  \A j \in DOMAIN rows' :
                    rows'[j].ev = "credit" /\ rows'[j].lane = rows'[i].lane => i = j
          BY <3>4
        <4>4. \A i \in DOMAIN rows' : IsCredit(rows'[i])
          BY <3>4
        <4> QED
          BY <2>2, <2>3, <3>6, <4>1, <4>2, <4>3, <4>4 DEF BatchRight, CreditInv
      <3>7. CASE ~Batch'
        <4>1. rows' = <<>>
          <5>1. ASSUME rows' # <<>> PROVE 1 \in DOMAIN rows'
            BY <3>3, <5>1, EmptySeq
          <5> QED
            BY <3>4, <3>7, <5>1 DEF Batch
        <4>2. Len(rows') <= 1
          BY <4>1
        <4> QED
          BY <2>2, <2>3, <3>7, <4>2 DEF BatchRight, CreditInv
      <3> QED
        BY <3>6, <3>7
    <2>5. CASE ~(~fault /\ Covers(proof, book))
      <3>1. ~Batch' /\ Len(rows') <= 1
        BY <2>1, <2>5 DEF Batch
      <3> QED
        BY <2>2, <2>3, <3>1 DEF CreditInv, BatchRight
    <2> QED
      BY <2>4, <2>5
  <1>9. ASSUME Crash PROVE CreditInv'
    <2>1. /\ UNCHANGED <<wallet, redeemed, resolved, disk, torn, bad>>
          /\ ~up' /\ book' = Empty /\ rows' = <<>> /\ proof' = NoProof
      BY <1>9 DEF Crash, chain, store
    <2>2. \A l \in Lanes : (book').settled[l] = 0
      BY <2>1 DEF Empty
    <2>3. Total((book').settled) = 0
      BY <2>2, TotalZero
    <2>4. ~Batch' /\ Len(rows') <= 1
      BY <2>1 DEF Batch
    <2>5. CreditedOnce'
      BY <1>0, <2>1, <2>3 DEF CreditInv, CreditedOnce
    <2> QED
      BY <2>1, <2>2, <2>4, <2>5 DEF CreditInv, InStep, Early, ReadRight, BatchRight, NoProof
  <1>10. ASSUME Boot PROVE CreditInv'
    <2>1. /\ UNCHANGED <<wallet, redeemed, resolved, disk, torn, proof, rows>>
          /\ ~up /\ book' = disk /\ fault' = (bad \/ torn) /\ bad' = (bad \/ torn)
      BY <1>10 DEF Boot, chain
    <2>2. rows = <<>>
      BY <2>1 DEF TypeInv
    <2>3. ~Batch /\ ~Batch' /\ Len(rows') <= 1
      BY <2>1, <2>2 DEF Batch
    <2> QED
      BY <2>1, <2>3 DEF CreditInv, InStep, Early, ReadRight, BatchRight, CreditedOnce, Worth
  <1>11. CASE AppendRow \/ \E fate \in {"lost", "torn", "kept"} : AppendFails(fate)
    BY <1>11, CreditAppend
  <1> QED
    BY <1>2, <1>3, <1>4, <1>5, <1>6, <1>7, <1>8, <1>9, <1>10, <1>11
    DEF Next, Trading, Resolver, Writing, Reconciling, Settling, SettlesClaims

\* Every variable stays within its range, and no share is credited twice: the credits
\* never exceed what the wallet held in the end, whatever goes wrong (resolution.rs).
THEOREM CreditedCorrect == Spec => [](TypeInv /\ CreditedOnce)
  <1>1. Init => TypeInv /\ CreditInv
    BY TypeInit, CreditInit
  <1>2. (TypeInv /\ CreditInv) /\ [Next]_vars => (TypeInv /\ CreditInv)'
    BY TypeStep, CreditStep
  <1>3. TypeInv /\ CreditInv => TypeInv /\ CreditedOnce
    BY DEF CreditInv
  <1> QED
    BY <1>1, <1>2, <1>3, PTL DEF Spec

-----------------------------------------------------------------------------
(* No share is forgotten or made up, if nothing but a lost write goes wrong. *)

\* Every set of orders is finite.
LEMMA OrdersFinite ==
  \A S \in SUBSET Orders : IsFiniteSet(S) /\ Cardinality(S) \in Nat
  <1>1. IsFiniteSet(Orders)
    BY CustodyAssumption
  <1> QED
    BY <1>1, FS_Subset, FS_CardinalityType

\* A set of orders is no larger than one it is part of, and one order more counts one.
LEMMA OrdersCount ==
  ASSUME NEW S \in SUBSET Orders
  PROVE /\ \A T \in SUBSET S : Cardinality(T) <= Cardinality(S)
        /\ \A o \in Orders : o \notin S => Cardinality(S \cup {o}) = Cardinality(S) + 1
        /\ \A o \in S : Cardinality(S \ {o}) = Cardinality(S) - 1
        /\ S = {} <=> Cardinality(S) = 0
  <1>1. IsFiniteSet(S)
    BY OrdersFinite
  <1> QED
    BY <1>1, FS_Subset, FS_AddElement, FS_RemoveElement, FS_EmptySet

OfLane(S, l) == {o \in S : LaneOf[o] = l}
CountOf(S) == [l \in Lanes |-> Cardinality(OfLane(S, l))]

\* Orders are counted lane by lane.
LEMMA CountByLane ==
  ASSUME NEW S \in SUBSET Orders
  PROVE Cardinality(S) = Total(CountOf(S))
  <1> DEFINE D == {T \in SUBSET S : Cardinality(T) # Total(CountOf(T))}
  <1>0. D \subseteq SUBSET S /\ IsFiniteSet(S)
    BY OrdersFinite
  <1>1. ASSUME D # {} PROVE FALSE
    <2>1. PICK T \in D : IsFiniteSet(T) /\ \A U \in SUBSET T : U # T => U \notin D
      <3> HIDE DEF D
      <3> QED
        BY <1>0, <1>1, Smallest
    <2>2. T \in SUBSET Orders /\ Cardinality(T) # Total(CountOf(T))
      BY <2>1
    <2>3. CASE T = {}
      <3>1. \A l \in Lanes : CountOf(T)[l] = 0
        <4>1. \A l \in Lanes : OfLane(T, l) = {}
          BY <2>3 DEF OfLane
        <4> QED
          BY <4>1, FS_EmptySet DEF CountOf
      <3>2. Total(CountOf(T)) = 0 /\ Cardinality(T) = 0
        BY <2>3, <3>1, TotalZero, FS_EmptySet
      <3> QED
        BY <2>2, <3>2
    <2>4. CASE T # {}
      <3>1. PICK o \in T : TRUE
        BY <2>4
      <3> DEFINE U == T \ {o}
                 l == LaneOf[o]
      <3>2. U \in SUBSET T /\ U # T /\ o \in Orders /\ l \in Lanes /\ U \in SUBSET Orders
        BY <2>2, <3>1, Settings
      <3>3. Cardinality(U) = Total(CountOf(U))
        BY <2>1, <3>2
      <3>4. Cardinality(U) = Cardinality(T) - 1 /\ Cardinality(T) \in Nat
        BY <2>2, <3>1, OrdersCount, OrdersFinite
      <3>5. /\ OfLane(U, l) = OfLane(T, l) \ {o} /\ o \in OfLane(T, l)
            /\ \A k \in Lanes : k # l => OfLane(U, k) = OfLane(T, k)
            /\ \A k \in Lanes : OfLane(T, k) \in SUBSET Orders /\ OfLane(U, k) \in SUBSET Orders
        BY <2>2, <3>1 DEF OfLane
      <3> HIDE DEF U, l
      <3>6. /\ Cardinality(OfLane(U, l)) = Cardinality(OfLane(T, l)) - 1
            /\ \A k \in Lanes : Cardinality(OfLane(T, k)) \in Nat /\ Cardinality(OfLane(U, k)) \in Nat
        <4>1. OfLane(T, l) \in SUBSET Orders
          BY <3>2, <3>5
        <4>2. Cardinality(OfLane(T, l) \ {o}) = Cardinality(OfLane(T, l)) - 1
          BY <3>5, <4>1, OrdersCount
        <4> QED
          BY <3>5, <4>2, OrdersFinite
      <3>7. /\ \A k \in Lanes : CountOf(T)[k] = Cardinality(OfLane(T, k))
            /\ \A k \in Lanes : CountOf(U)[k] = Cardinality(OfLane(U, k))
            /\ CountOf(T) \in [Lanes -> Nat]
        BY <3>6 DEF CountOf
      <3>8. Total(CountOf(U)) = Total(CountOf(T)) + (CountOf(U)[l] - CountOf(T)[l])
        <4>1. \A k \in Lanes : CountOf(T)[k] \in Int /\ CountOf(U)[k] \in Int
          BY <3>6, <3>7
        <4>2. \A k \in Lanes \ {l} : CountOf(T)[k] = CountOf(U)[k]
          BY <3>5, <3>7
        <4> QED
          BY <3>2, <4>1, <4>2, TotalChange
      <3>9. CountOf(U)[l] = CountOf(T)[l] - 1 /\ CountOf(T)[l] \in Nat
        BY <3>2, <3>6, <3>7
      <3>10. Total(CountOf(T)) \in Nat
        BY <3>7, TotalNat
      <3> DEFINE a == Total(CountOf(T))
                 b1 == Total(CountOf(U))
                 c == Cardinality(T)
                 t1 == CountOf(T)[l]
                 u1 == CountOf(U)[l]
      <3>11. /\ a \in Nat /\ c \in Nat /\ t1 \in Nat /\ u1 = t1 - 1
             /\ b1 = a + (u1 - t1) /\ b1 = c - 1 /\ c # a
        BY <2>2, <3>3, <3>4, <3>8, <3>9, <3>10
      <3> HIDE DEF a, b1, c, t1, u1
      <3> QED
        BY <3>11
    <2> QED
      BY <2>3, <2>4
  <1> QED
    BY <1>1

\* The sets the invariant counts are sets of orders.
LEMMA CalmSets ==
  /\ \A l : OpenSells(l) \in SUBSET Orders /\ FilledOf(l) \in SUBSET Orders
  /\ Filled(Buys) \in SUBSET Orders /\ Filled(Sells) \in SUBSET Orders
  /\ \A l : FilledOf(l) \in SUBSET OpenSells(l)
  /\ \A l : FilledOf(l) = OfLane(Filled(Sells), l)
  /\ \A l : Cardinality(FilledOf(l)) \in Nat /\ Cardinality(OpenSells(l)) \in Nat
  /\ Cardinality(Filled(Buys)) \in Nat /\ Cardinality(Filled(Sells)) \in Nat
  <1>1. /\ \A l : OpenSells(l) \in SUBSET Orders /\ FilledOf(l) \in SUBSET Orders
        /\ Filled(Buys) \in SUBSET Orders /\ Filled(Sells) \in SUBSET Orders
        /\ \A l : FilledOf(l) \in SUBSET OpenSells(l)
        /\ \A l : FilledOf(l) = OfLane(Filled(Sells), l)
    BY DEF OpenSells, FilledOf, Filled, Orders, OfLane
  <1> QED
    BY <1>1, OrdersFinite

\* Until somebody redeems, the wallet has what any one lane holds but for the sales that
\* are still to be booked.
LEMMA WalletCovers ==
  ASSUME TypeInv, Early, Balanced, Stages, Backed, redeemed = 0
  PROVE \A l \in Lanes : disk.held[l] <= wallet + Cardinality(FilledOf(l))
  <1>1. /\ wallet \in Nat /\ disk \in Ledgers /\ Worth = wallet
    BY DEF TypeInv, TypeOK, Worth
  <1>2. /\ disk.held \in [Lanes -> Nat] /\ Total(disk.held) \in Nat /\ Claimed(disk) \in Nat
        /\ Total(disk.released) \in Nat /\ Total(disk.settled) \in Nat
    BY <1>1, ClaimedNat
  <1>3. Claimed(disk) + Cardinality(Filled(Buys)) = wallet + Cardinality(Filled(Sells))
    BY <1>1 DEF Balanced
  <1>4. CASE resolved
    <2>1. Filled(Buys) = {} /\ Filled(Sells) = {}
      BY <1>4 DEF Stages, Filled, Orders
    <2>2. Cardinality(Filled(Buys)) = 0 /\ Cardinality(Filled(Sells)) = 0
      BY <2>1, FS_EmptySet
    <2>3. Claimed(disk) = wallet
      BY <1>1, <1>2, <1>3, <2>2
    <2>4. Total(disk.held) <= wallet
      BY <1>2, <2>3 DEF Claimed
    <2>5. ASSUME NEW l \in Lanes PROVE disk.held[l] <= wallet + Cardinality(FilledOf(l))
      <3>1. disk.held[l] <= Total(disk.held) /\ disk.held[l] \in Nat
        BY <1>2, TotalNat
      <3>2. Cardinality(FilledOf(l)) \in Nat
        BY CalmSets
      <3> QED
        BY <1>1, <1>2, <2>4, <3>1, <3>2
    <2> QED
      BY <2>5
  <1>5. CASE ~resolved
    <2> DEFINE m == CountOf(Filled(Sells))
    <2>1. Total(disk.released) = 0 /\ Total(disk.settled) = 0
      BY <1>5, TotalZero DEF Early, Stages
    <2>2. Cardinality(Filled(Sells)) = Total(m)
      BY CalmSets, CountByLane
    <2>3. \A k \in Lanes : m[k] = Cardinality(FilledOf(k))
      BY CalmSets DEF CountOf
    <2>4. \A k \in Lanes : m[k] \in Nat /\ m[k] <= disk.held[k]
      <3>1. ASSUME NEW k \in Lanes PROVE m[k] \in Nat /\ m[k] <= disk.held[k]
        <4>1. Cardinality(FilledOf(k)) <= Cardinality(OpenSells(k))
          BY CalmSets, OrdersCount
        <4>2. Cardinality(OpenSells(k)) <= disk.held[k] /\ disk.held[k] \in Nat
          BY <1>2, <1>5 DEF Backed
        <4>3. Cardinality(OpenSells(k)) \in Nat /\ Cardinality(FilledOf(k)) \in Nat
          BY CalmSets
        <4> HIDE DEF m
        <4> QED
          BY <2>3, <4>1, <4>2, <4>3
      <3> QED
        BY <3>1
    <2>5. m \in [Lanes -> Nat]
      BY <2>3, <2>4 DEF CountOf
    <2> HIDE DEF m
    <2>6. Total(disk.held) <= wallet + Total(m) /\ Total(m) \in Nat
      <3>1. Total(m) \in Nat
        BY <2>5, TotalNat
      <3>2. Claimed(disk) = Total(disk.held)
        BY <1>2, <2>1 DEF Claimed
      <3>3. Cardinality(Filled(Buys)) \in Nat
        BY CalmSets
      <3> QED
        BY <1>1, <1>2, <1>3, <2>2, <3>1, <3>2, <3>3
    <2>7. ASSUME NEW l \in Lanes PROVE disk.held[l] <= wallet + Cardinality(FilledOf(l))
      <3> DEFINE rest == Lanes \ {l}
                 hs == SumFunctionOnSet(disk.held, rest)
                 ms == SumFunctionOnSet(m, rest)
      <3>1. IsFiniteSet(rest) /\ IsFiniteSet(Lanes)
        BY Settings, FS_Subset
      <3>2. \A k \in Lanes : disk.held[k] \in Nat /\ disk.held[k] \in Int /\ m[k] \in Int
        BY <1>2, <2>4
      <3>3. Total(disk.held) = disk.held[l] + hs
        BY <3>1, <3>2, SumSplit DEF Total
      <3>4. Total(m) = m[l] + ms
        BY <3>1, <3>2, SumSplit DEF Total
      <3>5. \A k \in rest : m[k] \in Int /\ disk.held[k] \in Int /\ m[k] <= disk.held[k]
        BY <2>4, <3>2
      <3> HIDE DEF rest
      <3>6. ms <= hs
        BY <3>1, <3>5, SumLe
      <3>7. ms \in Int /\ hs \in Int
        BY <3>1, <3>5, SumInt
      <3>8. disk.held[l] \in Nat /\ m[l] \in Nat /\ m[l] = Cardinality(FilledOf(l))
        BY <2>3, <2>4, <3>2
      <3> HIDE DEF hs, ms
      <3> QED
        BY <1>1, <1>2, <2>6, <3>3, <3>4, <3>6, <3>7, <3>8
    <2> QED
      BY <2>7
  <1> QED
    BY <1>4, <1>5

\* At first the books have what the wallet has.
LEMMA CalmInit == Init => CalmInv
  <1> SUFFICES ASSUME Init PROVE CalmBody
    BY DEF CalmInv
  <1>1. /\ up = FALSE /\ rows = <<>> /\ recon = NoPass /\ todo = {} /\ quiet = Lanes
        /\ wallet = Total(Holding) /\ seen = wallet /\ redeemed = 0 /\ resolved = FALSE
        /\ orders = [o \in Orders |-> "new"] /\ disk = [Empty EXCEPT !.held = Holding]
    BY DEF Init
  <1>2. /\ disk.held = Holding /\ disk.keys = {}
        /\ \A l \in Lanes : disk.released[l] = 0 /\ disk.settled[l] = 0
    BY <1>1 DEF Empty
  <1>3. Total(Holding) \in Nat /\ \A l \in Lanes : Holding[l] \in Nat /\ Holding[l] <= Total(Holding)
    BY Settings, TotalNat
  <1>4. /\ Filled(Buys) = {} /\ Filled(Sells) = {} /\ Unbooked(Sells) = {}
        /\ \A l : FilledOf(l) = {} /\ OpenSells(l) = {}
    BY <1>1 DEF Filled, Unbooked, FilledOf, OpenSells, Orders
  <1>5. /\ Cardinality(Filled(Buys)) = 0 /\ Cardinality(Filled(Sells)) = 0
        /\ \A l : Cardinality(FilledOf(l)) = 0 /\ Cardinality(OpenSells(l)) = 0
    BY <1>4, FS_EmptySet
  <1>6. Balanced
    <2>1. Total(disk.released) = 0 /\ Total(disk.settled) = 0
      BY <1>2, TotalZero
    <2> QED
      BY <1>1, <1>2, <1>3, <1>5, <2>1 DEF Balanced, Claimed, Worth
  <1>7. Fresh /\ Stages /\ RowsRight /\ Halted
    BY <1>1, <1>2, <1>4 DEF Fresh, Untracked, Stages, RowsRight, Halted
  <1>8. Backed
    BY <1>2, <1>3, <1>5 DEF Backed
  <1>9. Shown
    BY <1>1, <1>2, <1>3, <1>5 DEF Shown, NoPass
  <1> QED
    BY <1>1, <1>6, <1>7, <1>8, <1>9 DEF CalmBody

\* Orders that are sent, and those that end unfilled or booked, change no count.
LEMMA CalmOrder ==
  ASSUME TypeInv, CreditInv, CalmBody, NEW o \in Orders, Place(o) \/ Die(o) \/ Close(o)
  PROVE CalmBody'
  <1>1. /\ UNCHANGED <<up, book, disk, rows, seen, recon, quiet, todo, wallet, redeemed, resolved>>
        /\ up /\ todo = {} /\ book = disk /\ orders \in [Orders -> Phases]
    BY DEF Place, Die, Close, Running, chain, memory, store, tasks, CalmBody, TypeInv, TypeOK
  <1>2. \/ /\ Place(o) /\ orders[o] = "new" /\ orders' = [orders EXCEPT ![o] = "open"]
        \/ /\ orders[o] = "open" /\ orders' = [orders EXCEPT ![o] = "closed"]
        \/ /\ orders[o] = "matched" /\ orders' = [orders EXCEPT ![o] = "closed"] /\ ~Untracked(o)
    BY <1>1 DEF Place, Die, Close, Untracked
  <1>3. \A q : Untracked(q)' = Untracked(q)
    BY <1>1 DEF Untracked
  <1>4. \A q \in Orders : Untracked(q) => (orders'[q] = "matched" <=> orders[q] = "matched")
    BY <1>1, <1>2
  <1>5. \A S \in SUBSET Orders : Filled(S)' = Filled(S)
    BY <1>3, <1>4 DEF Filled
  <1>6. /\ Filled(Buys)' = Filled(Buys) /\ Filled(Sells)' = Filled(Sells)
        /\ Filled(Orders)' = Filled(Orders)
        /\ \A l : FilledOf(l)' = FilledOf(l)
    BY <1>5 DEF FilledOf, Orders
  <1>7. Balanced'
    BY <1>1, <1>6 DEF CalmBody, Balanced, Worth
  <1>8. Fresh'
    BY <1>1, <1>2, <1>3 DEF CalmBody, Fresh
  <1>9. Stages'
    BY <1>1, <1>2 DEF CalmBody, Stages
  <1>10. Backed'
    <2>1. ASSUME NEW l \in Lanes, ~resolved PROVE Cardinality(OpenSells(l)') <= disk.held[l]
      <3>1. /\ Cardinality(OpenSells(l)) <= disk.held[l] /\ disk.held[l] \in Nat
            /\ Cardinality(OpenSells(l)) \in Nat
        BY <2>1, CalmSets DEF CalmBody, Backed, TypeInv, TypeOK, Ledgers
      <3>2. CASE Place(o) /\ o \in Sells /\ LaneOf[o] = l
        <4>1. book.held[l] > Cardinality(Outstanding(Sells, l))
          BY <3>2 DEF Place
        <4>2. OpenSells(l) \in SUBSET Outstanding(Sells, l) /\ Outstanding(Sells, l) \in SUBSET Orders
          BY DEF OpenSells, Outstanding, Unbooked, Orders
        <4>3. Cardinality(OpenSells(l)) <= Cardinality(Outstanding(Sells, l))
              /\ Cardinality(Outstanding(Sells, l)) \in Nat
          BY <4>2, OrdersCount, OrdersFinite
        <4>4. orders[o] = "new" /\ orders' = [orders EXCEPT ![o] = "open"] /\ Untracked(o)
          BY <3>2 DEF Place, CalmBody, Fresh
        <4>5. OpenSells(l)' = OpenSells(l) \cup {o} /\ o \notin OpenSells(l)
          BY <1>1, <1>3, <3>2, <4>4 DEF OpenSells, Orders
        <4>6. Cardinality(OpenSells(l) \cup {o}) = Cardinality(OpenSells(l)) + 1
          BY <4>5, CalmSets, OrdersCount
        <4>7. Cardinality(OpenSells(l)') = Cardinality(OpenSells(l)) + 1
          BY <4>5, <4>6
        <4> QED
          BY <1>1, <3>1, <4>1, <4>3, <4>7
      <3>3. CASE ~(Place(o) /\ o \in Sells /\ LaneOf[o] = l)
        <4>1. OpenSells(l)' \in SUBSET OpenSells(l)
          BY <1>1, <1>2, <1>3, <3>3 DEF OpenSells, Orders
        <4>2. Cardinality(OpenSells(l)') <= Cardinality(OpenSells(l)) /\ Cardinality(OpenSells(l)') \in Nat
          BY <4>1, CalmSets, OrdersCount, OrdersFinite
        <4> QED
          BY <3>1, <4>2
      <3> QED
        BY <3>2, <3>3
    <2> QED
      BY <1>1, <2>1 DEF Backed
  <1>11. RowsRight'
    BY <1>1, <1>6 DEF CalmBody, RowsRight, RowRight
  <1>12. Shown'
    BY <1>1, <1>6 DEF CalmBody, Shown
  <1>13. Halted'
    BY <1>1 DEF Halted
  <1> QED
    BY <1>1, <1>7, <1>8, <1>9, <1>10, <1>11, <1>12, <1>13 DEF CalmBody

\* The venue matches an order: the wallet and what is still to be booked change alike.
LEMMA CalmMatch ==
  ASSUME TypeInv, CreditInv, CalmBody, NEW o \in Orders, Match(o)
  PROVE CalmBody'
  <1>1. /\ UNCHANGED <<up, book, disk, rows, seen, recon, quiet, todo, redeemed, resolved>>
        /\ ~resolved /\ orders[o] = "open" /\ orders' = [orders EXCEPT ![o] = "matched"]
        /\ orders \in [Orders -> Phases] /\ wallet \in Nat /\ redeemed \in Nat
    BY DEF Match, memory, store, tasks, TypeInv, TypeOK
  <1>2. \A q : Untracked(q)' = Untracked(q)
    BY <1>1 DEF Untracked
  <1>3. Untracked(o)
    BY <1>1 DEF CalmBody, Fresh
  <1>4. \A S \in SUBSET Orders :
          /\ o \in S => Filled(S)' = Filled(S) \cup {o} /\ o \notin Filled(S)
          /\ o \notin S => Filled(S)' = Filled(S)
    BY <1>1, <1>2, <1>3 DEF Filled
  <1>5. Buys \in SUBSET Orders /\ Sells \in SUBSET Orders /\ (o \in Buys <=> o \notin Sells)
    BY Settings DEF Orders
  <1>6. \A l \in Lanes : OpenSells(l)' = OpenSells(l)
    BY <1>1, <1>2 DEF OpenSells, Orders
  <1>7. \A l \in Lanes : Cardinality(FilledOf(l)) <= Cardinality(FilledOf(l)')
                           /\ Cardinality(FilledOf(l)) \in Nat /\ Cardinality(FilledOf(l)') \in Nat
    <2>1. ASSUME NEW l \in Lanes
          PROVE FilledOf(l) \in SUBSET FilledOf(l)' /\ FilledOf(l)' \in SUBSET Orders
      BY <1>4, <1>5 DEF FilledOf, Filled, Orders
    <2> QED
      BY <2>1, OrdersCount, OrdersFinite, CalmSets
  <1>8. Balanced'
    <2>1. Claimed(disk) + Cardinality(Filled(Buys)) = wallet + redeemed + Cardinality(Filled(Sells))
      BY DEF CalmBody, Balanced, Worth
    <2>2. /\ Claimed(disk) \in Nat /\ Cardinality(Filled(Buys)) \in Nat
          /\ Cardinality(Filled(Sells)) \in Nat
      BY ClaimedNat, CalmSets DEF TypeInv, TypeOK
    <2>3. disk' = disk /\ redeemed' = redeemed
      BY <1>1
    <2>4. CASE o \in Buys
      <3>1. Filled(Buys)' = Filled(Buys) \cup {o} /\ o \notin Filled(Buys) /\ Filled(Sells)' = Filled(Sells)
        BY <1>4, <1>5, <2>4
      <3>2. Cardinality(Filled(Buys) \cup {o}) = Cardinality(Filled(Buys)) + 1
        BY <3>1, CalmSets, OrdersCount
      <3>3. Cardinality(Filled(Buys)') = Cardinality(Filled(Buys)) + 1
        BY <3>1, <3>2
      <3>4. wallet' = wallet + 1
        BY <2>4 DEF Match
      <3> QED
        BY <1>1, <2>1, <2>2, <2>3, <3>1, <3>3, <3>4 DEF Balanced, Worth
    <2>5. CASE o \in Sells
      <3>1. Filled(Sells)' = Filled(Sells) \cup {o} /\ o \notin Filled(Sells) /\ Filled(Buys)' = Filled(Buys)
        BY <1>4, <1>5, <2>5
      <3>2. Cardinality(Filled(Sells) \cup {o}) = Cardinality(Filled(Sells)) + 1
        BY <3>1, CalmSets, OrdersCount
      <3>3. Cardinality(Filled(Sells)') = Cardinality(Filled(Sells)) + 1
        BY <3>1, <3>2
      <3>4. wallet' = wallet - 1
        BY <1>5, <2>5 DEF Match
      <3> QED
        BY <1>1, <2>1, <2>2, <2>3, <3>1, <3>3, <3>4 DEF Balanced, Worth
    <2> QED
      BY <1>5, <2>4, <2>5
  <1>9. Fresh'
    BY <1>1, <1>2 DEF CalmBody, Fresh
  <1>10. Stages'
    BY <1>1 DEF CalmBody, Stages
  <1>11. Backed'
    BY <1>1, <1>6 DEF CalmBody, Backed
  <1>12. RowsRight'
    <2>1. Filled(Orders) \subseteq Filled(Orders)'
      BY <1>4
    <2>2. \A r : RowRight(r) => RowRight(r)'
      BY <1>1, <2>1 DEF RowRight
    <2> QED
      BY <1>1, <2>2 DEF CalmBody, RowsRight
  <1>13. Shown'
    <2>1. \A l \in Lanes : disk.held[l] \in Nat
      BY DEF TypeInv, TypeOK, Ledgers
    <2>2. seen \in Nat /\ recon.shown \in Nat /\ quiet \subseteq Lanes
      BY DEF TypeInv, TypeOK, Passes
    <2>3. ASSUME NEW l \in quiet, redeemed = 0
          PROVE /\ disk.held[l] <= seen + Cardinality(FilledOf(l)')
                /\ recon.at = "shown" => disk.held[l] <= recon.shown + Cardinality(FilledOf(l)')
                /\ recon.at = "lanes" /\ ~recon.busy => disk.held[l] <= recon.shown
      <3>1. /\ disk.held[l] <= seen + Cardinality(FilledOf(l))
            /\ recon.at = "shown" => disk.held[l] <= recon.shown + Cardinality(FilledOf(l))
            /\ recon.at = "lanes" /\ ~recon.busy => disk.held[l] <= recon.shown
        BY <2>3 DEF CalmBody, Shown
      <3> QED
        BY <1>7, <2>1, <2>2, <3>1
    <2> QED
      BY <1>1, <2>3 DEF Shown
  <1>14. Halted'
    <2>1. Unbooked(Sells)' = Unbooked(Sells)
      BY <1>1 DEF Unbooked, Orders
    <2> QED
      BY <1>1, <2>1 DEF CalmBody, Halted
  <1> QED
    BY <1>1, <1>8, <1>9, <1>10, <1>11, <1>12, <1>13, <1>14 DEF CalmBody

\* What stays as it is when neither the books, nor the orders, nor the chain change.
LEMMA CalmQuiet ==
  ASSUME CalmBody, UNCHANGED <<up, book, disk, orders, wallet, redeemed, resolved>>
  PROVE /\ (up => book = disk)' /\ Balanced' /\ Fresh' /\ Stages' /\ Backed'
        /\ \A r : RowRight(r) => RowRight(r)'
        /\ \A l : FilledOf(l)' = FilledOf(l)
        /\ Unbooked(Sells)' = Unbooked(Sells)
  BY DEF CalmBody, Balanced, Worth, Filled, Untracked, Fresh, Stages, Backed, OpenSells,
         RowRight, FilledOf, Unbooked

\* A row for a fill the venue made, a release, or the rows of a settlement, are to be
\* appended.
LEMMA CalmRows ==
  ASSUME TypeInv, CreditInv, CalmBody, env = {},
         \/ \E o \in Orders : BookFill(o)
         \/ \E l \in Lanes : ReconLane(l)
         \/ \E l \in Lanes, his, trusted \in BOOLEAN : BootLane(l, his, trusted)
         \/ Credit
  PROVE CalmBody'
  <1>1. /\ UNCHANGED <<up, book, disk, orders, wallet, redeemed, resolved, seen, quiet>>
        /\ up /\ book = disk
    BY DEF BookFill, ReconLane, BootLane, Credit, Running, chain, store, tasks, CalmBody, TypeInv, NoPass
  <1>2. /\ (up => book = disk)' /\ Balanced' /\ Fresh' /\ Stages' /\ Backed'
        /\ \A r : RowRight(r) => RowRight(r)'
        /\ \A l : FilledOf(l)' = FilledOf(l)
        /\ Unbooked(Sells)' = Unbooked(Sells)
    BY <1>1, CalmQuiet
  <1>3. Halted'
    <2>1. todo' \subseteq todo
      BY DEF BookFill, ReconLane, BootLane, Credit, tasks
    <2> QED
      BY <1>1, <1>2, <2>1 DEF CalmBody, Halted
  <1>4. Shown'
    <2>1. recon' = recon \/ recon'.at = "idle" \/ (recon'.at = recon.at /\ recon'.shown = recon.shown /\ recon'.busy = recon.busy)
      <3>1. ASSUME NEW l \in Lanes, ReconLane(l)
            PROVE \/ recon'.at = "idle"
                  \/ recon'.at = recon.at /\ recon'.shown = recon.shown /\ recon'.busy = recon.busy
        <4>1. recon \in Passes
          BY DEF TypeInv
        <4> QED
          BY <3>1, <4>1 DEF ReconLane, NoPass, Passes
      <3> QED
        BY <3>1 DEF BookFill, BootLane, Credit, tasks
    <2> QED
      BY <1>1, <1>2, <2>1 DEF CalmBody, Shown
  <1>5. \A l \in Lanes : disk.held[l] \in Nat /\ book.held[l] = disk.held[l]
    BY <1>1 DEF TypeInv, TypeOK, Ledgers
  <1>6. RowsRight'
    <2>1. ASSUME NEW o \in Orders, BookFill(o) PROVE RowsRight'
      <3>1. rows' = <<FillRow(o)>> /\ o \in Filled(Orders)
        BY <1>1, <2>1 DEF BookFill, Filled, Untracked
      <3>2. RowRight(FillRow(o))
        BY <3>1 DEF RowRight, FillRow, Row
      <3> QED
        BY <1>2, <3>1, <3>2 DEF RowsRight
    <2>2. ASSUME NEW l \in Lanes, ReconLane(l) PROVE RowsRight'
      <3>1. CASE Gone(l) > 0
        <4>1. l \in quiet /\ ~recon.busy /\ Monus(book.held[l], recon.shown) > 0 /\ recon.at = "lanes"
          BY <2>2, <3>1 DEF Gone, ReconLane
        <4>2. recon.shown \in Nat /\ redeemed \in Nat
          BY DEF TypeInv, TypeOK, Passes
        <4>3. ~(disk.held[l] <= recon.shown)
          BY <1>5, <4>1, <4>2 DEF Monus
        <4>4. redeemed > 0
          BY <4>1, <4>2, <4>3 DEF CalmBody, Shown
        <4>5. RowRight(Row("release", l, Gone(l), {}))
          BY <4>4 DEF RowRight, Row
        <4>6. rows' = <<Row("release", l, Gone(l), {})>>
          BY <2>2, <3>1 DEF ReconLane
        <4> QED
          BY <1>2, <4>5, <4>6 DEF RowsRight
      <3>2. CASE ~(Gone(l) > 0)
        <4>1. rows' = <<>>
          BY <2>2, <3>2 DEF ReconLane
        <4> QED
          BY <4>1 DEF RowsRight
      <3> QED
        BY <3>1, <3>2
    <2>3. ASSUME NEW l \in Lanes, NEW his \in BOOLEAN, NEW trusted \in BOOLEAN,
                 BootLane(l, his, trusted)
          PROVE RowsRight'
      <3>1. l \in todo /\ wallet \in Nat /\ redeemed \in Nat /\ disk \in Ledgers
        BY <2>3 DEF BootLane, TypeInv, TypeOK
      <3>2. rows' = IF Adopted(l, wallet, his) > 0
                    THEN <<Row("adopt", l, Adopted(l, wallet, his), {})>>
                    ELSE IF Vanished(l, wallet) > 0 /\ trusted
                    THEN <<Row("release", l, Vanished(l, wallet), {})>>
                    ELSE <<>>
        BY <2>3 DEF BootLane
      <3>3. ~(Adopted(l, wallet, his) > 0)
        <4>1. SUFFICES ASSUME ~resolved, Unbooked(Orders) = {}
                       PROVE Adopted(l, wallet, his) = 0
          BY DEF Adopted
        <4>2. redeemed = 0 /\ Total(disk.released) = 0 /\ Total(disk.settled) = 0
          BY <4>1, TotalZero DEF CreditInv, Early, CalmBody, Stages
        <4>3. Filled(Buys) = {} /\ Filled(Sells) = {}
          BY <4>1 DEF Filled, Unbooked, Orders
        <4>4. Cardinality(Filled(Buys)) = 0 /\ Cardinality(Filled(Sells)) = 0
          BY <4>3, FS_EmptySet
        <4>5. Total(disk.held) \in Nat /\ disk.held[l] \in Nat
          BY <1>5, <3>1, ClaimedNat
        <4>6. Total(disk.held) = wallet
          BY <3>1, <4>2, <4>4, <4>5 DEF CalmBody, Balanced, Claimed, Worth
        <4>7. Monus(wallet, PoolClaim(book)) = 0
          BY <1>1, <3>1, <4>5, <4>6 DEF PoolClaim, Monus
        <4>8. Monus(wallet, book.held[l]) \in Nat
          BY <1>5, <3>1 DEF Monus
        <4>9. Least(Monus(wallet, book.held[l]), Monus(wallet, PoolClaim(book))) = 0
          BY <4>7, <4>8 DEF Least
        <4> QED
          BY <4>9 DEF Adopted
      <3>4. CASE Vanished(l, wallet) > 0
        <4>1. Unbooked(Sells) = {}
          BY <3>1 DEF CalmBody, Halted
        <4>2. FilledOf(l) = {}
          BY <4>1 DEF FilledOf, Filled, Unbooked
        <4>3. Cardinality(FilledOf(l)) = 0
          BY <4>2, FS_EmptySet
        <4>4. ~(disk.held[l] <= wallet + Cardinality(FilledOf(l)))
          BY <1>5, <3>1, <3>4, <4>3 DEF Vanished, Monus
        <4>5. redeemed > 0
          BY <3>1, <4>4, WalletCovers DEF CalmBody, CreditInv
        <4>6. RowRight(Row("release", l, Vanished(l, wallet), {}))
          BY <4>5 DEF RowRight, Row
        <4>7. rows' = <<Row("release", l, Vanished(l, wallet), {})>> \/ rows' = <<>>
          BY <3>2, <3>3
        <4> QED
          BY <1>2, <4>6, <4>7 DEF RowsRight
      <3>5. CASE ~(Vanished(l, wallet) > 0)
        <4>1. rows' = <<>>
          BY <3>2, <3>3, <3>5
        <4> QED
          BY <4>1 DEF RowsRight
      <3> QED
        BY <3>4, <3>5
    <2>4. ASSUME Credit PROVE RowsRight'
      <3>1. rows' = CreditBatch \/ rows' = <<>>
        BY <2>4 DEF Credit
      <3>2. \A i \in DOMAIN CreditBatch : IsCredit(CreditBatch[i])
        BY BatchIsBatch DEF BatchOf, TypeInv
      <3>3. \A r : IsCredit(r) => RowRight(r)'
        BY DEF IsCredit, RowRight
      <3> QED
        BY <3>1, <3>2, <3>3 DEF RowsRight
    <2> QED
      BY <2>1, <2>2, <2>3, <2>4
  <1> QED
    BY <1>2, <1>3, <1>4, <1>6 DEF CalmBody

\* Reconciliation reads what the wallet shows.
LEMMA CalmReads ==
  ASSUME TypeInv, CreditInv, CalmBody,
         \/ CatchUp \/ ReconReadsFlight
         \/ \E empty \in BOOLEAN : ReconReads(empty)
         \/ \E l \in Lanes : Rest(l)
  PROVE CalmBody'
  <1>1. UNCHANGED <<up, book, disk, orders, wallet, redeemed, resolved, rows, todo>>
    BY DEF CatchUp, ReconReadsFlight, ReconReads, Rest, chain, memory, store, tasks
  <1>2. /\ (up => book = disk)' /\ Balanced' /\ Fresh' /\ Stages' /\ Backed'
        /\ \A r : RowRight(r) => RowRight(r)'
        /\ \A l : FilledOf(l)' = FilledOf(l)
        /\ Unbooked(Sells)' = Unbooked(Sells)
    BY <1>1, CalmQuiet
  <1>3. Halted' /\ RowsRight'
    BY <1>1, <1>2 DEF CalmBody, Halted, RowsRight
  <1>4. recon \in Passes /\ quiet \subseteq Lanes
    BY DEF TypeInv, TypeOK
  <1>5. redeemed = 0 => \A l \in Lanes : disk.held[l] <= wallet + Cardinality(FilledOf(l))
    BY WalletCovers DEF CalmBody, CreditInv
  <1>6. Shown'
    <2>1. ASSUME CatchUp PROVE Shown'
      <3>1. seen' = wallet /\ UNCHANGED <<quiet, recon>>
        BY <2>1 DEF CatchUp, tasks
      <3> QED
        BY <1>1, <1>2, <1>4, <1>5, <3>1 DEF CalmBody, Shown
    <2>2. ASSUME NEW l \in Lanes, Rest(l) PROVE Shown'
      <3>1. /\ seen' = seen /\ seen = wallet /\ recon = NoPass /\ recon' = recon
            /\ quiet' = quiet \cup {l}
        BY <2>2 DEF Rest, tasks
      <3> QED
        BY <1>1, <1>2, <1>4, <1>5, <3>1 DEF CalmBody, Shown, NoPass
    <2>3. ASSUME NEW empty \in BOOLEAN, ReconReads(empty) PROVE Shown'
      <3>1. seen' = seen /\ quiet' = quiet /\ recon'.at = "shown" /\ recon'.shown = seen
        BY <2>3 DEF ReconReads, NoPass
      <3> QED
        BY <1>1, <1>2, <3>1 DEF CalmBody, Shown
    <2>4. ASSUME ReconReadsFlight PROVE Shown'
      <3>1. /\ seen' = seen /\ quiet' = quiet /\ recon.at = "shown"
            /\ recon'.at = "lanes" /\ recon'.shown = recon.shown
            /\ recon'.busy = (Unbooked(Orders) # {})
        BY <1>4, <2>4 DEF ReconReadsFlight, Passes
      <3>2. ASSUME NEW l \in Lanes, ~recon'.busy
            PROVE Cardinality(FilledOf(l)) = 0
        <4>1. FilledOf(l) = {}
          BY <3>1, <3>2 DEF FilledOf, Filled, Unbooked, Orders
        <4> QED
          BY <4>1, FS_EmptySet
      <3>3. recon.shown \in Nat /\ \A l \in Lanes : disk.held[l] \in Nat
        BY <1>4 DEF TypeInv, TypeOK, Passes, Ledgers
      <3>4. ASSUME NEW l \in quiet, redeemed = 0, ~recon'.busy PROVE disk.held[l] <= recon.shown
        <4>1. disk.held[l] <= recon.shown + Cardinality(FilledOf(l))
          BY <3>1, <3>4 DEF CalmBody, Shown
        <4>2. Cardinality(FilledOf(l)) = 0
          BY <1>4, <3>2, <3>4
        <4> QED
          BY <1>4, <3>3, <4>1, <4>2
      <3> QED
        BY <1>1, <1>2, <3>1, <3>4 DEF CalmBody, Shown
    <2> QED
      BY <2>1, <2>2, <2>3, <2>4
  <1> QED
    BY <1>2, <1>3, <1>6 DEF CalmBody

\* The market is resolved, or its shares are redeemed.
LEMMA CalmChain ==
  ASSUME TypeInv, CalmBody, env = {}, Resolve \/ Redeem
  PROVE CalmBody'
  <1>1. /\ UNCHANGED <<up, book, disk, orders, rows, seen, recon, quiet, todo>>
        /\ resolved' /\ Worth' = Worth /\ wallet \in Nat /\ redeemed \in Nat
    <2>1. wallet \in Nat /\ redeemed \in Nat
      BY DEF TypeInv, TypeOK
    <2>2. CASE Resolve
      BY <2>1, <2>2 DEF Resolve, memory, store, tasks, Worth
    <2>3. CASE Redeem
      BY <2>1, <2>3 DEF Redeem, memory, store, tasks, Worth
    <2> QED
      BY <2>2, <2>3
  <1>2. /\ redeemed' \in Nat /\ (redeemed' = 0 => redeemed = 0)
        /\ redeemed > 0 => redeemed' > 0
        /\ redeemed' = 0 \/ wallet' = 0
        /\ \A q \in Orders : orders[q] # "matched"
    <2>1. CASE Resolve
      BY <1>1, <2>1 DEF Resolve, CalmBody, Stages
    <2>2. CASE Redeem
      <3>1. resolved /\ wallet > 0 /\ redeemed' = redeemed + wallet /\ wallet' = 0
        BY <2>2 DEF Redeem
      <3> QED
        BY <1>1, <3>1 DEF CalmBody, Stages
    <2> QED
      BY <2>1, <2>2
  <1>3. /\ \A S : Filled(S)' = Filled(S) /\ \A l : FilledOf(l)' = FilledOf(l)
        /\ Unbooked(Sells)' = Unbooked(Sells)
    BY <1>1 DEF Filled, Untracked, FilledOf, Unbooked
  <1>4. Balanced'
    BY <1>1, <1>3 DEF CalmBody, Balanced
  <1>5. Fresh' /\ Backed' /\ Halted'
    BY <1>1, <1>3 DEF CalmBody, Fresh, Untracked, Backed, Halted
  <1>6. Stages'
    BY <1>1, <1>2 DEF CalmBody, Stages
  <1>7. RowsRight'
    BY <1>1, <1>2, <1>3 DEF CalmBody, RowsRight, RowRight
  <1>8. Shown'
    BY <1>1, <1>2, <1>3 DEF CalmBody, Shown
  <1> QED
    BY <1>1, <1>4, <1>5, <1>6, <1>7, <1>8 DEF CalmBody

\* The engine stops, starts, or an append fails.
LEMMA CalmStops ==
  ASSUME TypeInv, CalmBody, env = {}, ~bad',
         Crash \/ Boot \/ \E fate \in {"lost", "torn", "kept"} : AppendFails(fate)
  PROVE CalmBody'
  <1>1. /\ UNCHANGED <<disk, orders, wallet, redeemed, resolved, seen, quiet>>
        /\ (up => book = disk)'
    <2>1. CASE Crash \/ Boot
      BY <2>1 DEF Crash, Boot, chain, store
    <2>2. ASSUME NEW fate \in {"lost", "torn", "kept"}, AppendFails(fate)
          PROVE /\ UNCHANGED <<disk, orders, wallet, redeemed, resolved, seen, quiet, book, up>>
      <3>1. fate # "kept"
        BY <2>2 DEF AppendFails
      <3> QED
        BY <2>2, <3>1 DEF AppendFails, chain, store
    <2> QED
      BY <2>1, <2>2 DEF CalmBody
  <1>2. /\ \A S : Filled(S)' = Filled(S) /\ \A l : FilledOf(l)' = FilledOf(l)
        /\ \A l : OpenSells(l)' = OpenSells(l)
        /\ Unbooked(Sells)' = Unbooked(Sells)
    BY <1>1 DEF Filled, Untracked, FilledOf, Unbooked, OpenSells
  <1>3. Balanced' /\ Fresh' /\ Stages' /\ Backed'
    BY <1>1, <1>2 DEF CalmBody, Balanced, Worth, Fresh, Untracked, Stages, Backed
  <1>4. rows' = <<>>
    BY DEF Crash, Boot, AppendFails, TypeInv
  <1>5. RowsRight'
    BY <1>4 DEF RowsRight
  <1>6. Shown'
    <2>1. recon' = recon \/ recon' = NoPass
      BY DEF Crash, Boot, AppendFails, tasks
    <2> QED
      BY <1>1, <1>2, <2>1 DEF CalmBody, Shown, NoPass
  <1>7. Halted'
    <2>1. CASE Crash
      BY <1>2, <2>1 DEF Crash, Halted
    <2>2. CASE Boot
      BY <1>2, <2>2 DEF Boot, CalmBody, Halted
    <2>3. ASSUME NEW fate \in {"lost", "torn", "kept"}, AppendFails(fate) PROVE Halted'
      <3>1. UNCHANGED <<up, todo>>
        BY <2>3 DEF AppendFails, tasks
      <3> QED
        BY <1>2, <3>1 DEF CalmBody, Halted
    <2> QED
      BY <2>1, <2>2, <2>3
  <1> QED
    BY <1>1, <1>3, <1>5, <1>6, <1>7 DEF CalmBody


\* A fill is booked: it is tracked from now on, and no other order is.
LEMMA CalmFill ==
  ASSUME TypeInv, CreditInv, CalmBody, AppendRow, ~bad', NEW o \in Filled(Orders),
         Head(rows) = FillRow(o)
  PROVE CalmBody'
  <1> DEFINE r == Head(rows)
             l == LaneOf[o]
  <1>1. /\ up /\ ~torn /\ book = disk /\ disk' = Apply(disk, r) /\ book' = disk'
        /\ UNCHANGED <<up, orders, wallet, redeemed, resolved, seen, recon, todo>>
        /\ rows' = Tail(rows) /\ rows # <<>>
    BY DEF AppendRow, Stored, CalmBody, chain, tasks
  <1>2. /\ r \in TheRows /\ r.lane = l /\ r.n = 1 /\ r.key = {o} /\ ~IsCredit(r)
        /\ o \in Buys => r.ev = "buy"
        /\ o \notin Buys => r.ev = "sell"
        /\ quiet' = quiet \ {l}
    <2>1. r \in TheRows
      BY <1>1, HeadAndTail
    <2>2. /\ r.lane = l /\ r.n = 1 /\ r.key = {o} /\ ~IsCredit(r)
          /\ o \in Buys => r.ev = "buy"
          /\ o \notin Buys => r.ev = "sell"
      BY DEF FillRow, Row, IsCredit
    <2>3. quiet' = IF r.ev \in {"credit", "settle"} THEN quiet ELSE quiet \ {r.lane}
      BY DEF AppendRow
    <2> HIDE DEF r, l
    <2> QED
      BY <2>1, <2>2, <2>3 DEF IsCredit
  <1>3. /\ o \in Orders /\ orders[o] = "matched" /\ o \notin disk.keys /\ l \in Lanes
        /\ Buys \in SUBSET Orders /\ Sells \in SUBSET Orders /\ (o \in Buys <=> o \notin Sells)
        /\ disk \in Ledgers /\ wallet \in Nat /\ redeemed \in Nat
    BY Settings DEF Filled, Untracked, Orders, TypeInv, TypeOK
  <1>4. rows' = <<>>
    <2>1. ~Batch
      <3>1. ASSUME NEW i \in DOMAIN rows PROVE ~IsCredit(rows[i])
        <4>1. BatchRight /\ 1 \in DOMAIN rows /\ r = rows[1]
          BY <1>1, HeadAndTail DEF CreditInv
        <4> QED
          BY <1>2, <3>1, <4>1 DEF BatchRight, Batch
      <3> QED
        BY <3>1 DEF Batch
    <2> QED
      BY <1>1, <2>1, HeadAndTail DEF CreditInv, BatchRight
  <1>5. ~resolved /\ redeemed = 0
    BY <1>3 DEF CalmBody, Stages
  <1>6. /\ disk.held \in [Lanes -> Nat] /\ disk'.released = disk.released
        /\ disk'.keys = disk.keys \cup {o}
        /\ \A k \in Lanes : k # l => disk'.held[k] = disk.held[k]
        /\ o \in Buys => disk'.held[l] = disk.held[l] + 1
        /\ o \in Sells => disk'.held[l] = Monus(disk.held[l], 1)
    <2>1. disk.held \in [Lanes -> Nat]
      BY <1>3, ClaimedNat
    <2> HIDE DEF r, l
    <2>2. CASE o \in Buys
      <3>1. r.ev \in {"buy", "adopt"} /\ r.n = 1 /\ r.lane = l /\ r.key = {o}
        BY <1>2, <2>2
      <3>2. /\ Apply(disk, r).held = [disk.held EXCEPT ![r.lane] = disk.held[r.lane] + r.n]
            /\ Apply(disk, r).released = disk.released
            /\ Apply(disk, r).keys = disk.keys \cup r.key
        BY <1>2, <1>3, <3>1, AppliedBuy
      <3>3. disk'.held = [disk.held EXCEPT ![l] = disk.held[l] + 1]
        BY <1>1, <3>1, <3>2
      <3> QED
        BY <1>1, <1>3, <2>1, <2>2, <3>1, <3>2, <3>3
    <2>3. CASE o \in Sells
      <3>1. /\ disk'.held = [disk.held EXCEPT ![l] = Monus(disk.held[l], 1)]
            /\ disk'.released = disk.released /\ disk'.keys = disk.keys \cup {o}
        BY <1>1, <1>2, <1>3, <2>3, AppliedSell
      <3> QED
        BY <1>3, <2>1, <2>3, <3>1
    <2> QED
      BY <1>3, <2>1, <2>2, <2>3
  <1> HIDE DEF r, l
  <1>7. /\ \A q : q # o => Untracked(q)' = Untracked(q)
        /\ ~Untracked(o)' /\ Untracked(o)
    BY <1>3, <1>6 DEF Untracked
  <1>8. \A S \in SUBSET Orders :
          /\ o \in S => Filled(S)' = Filled(S) \ {o} /\ o \in Filled(S)
          /\ o \notin S => Filled(S)' = Filled(S)
    BY <1>1, <1>3, <1>7 DEF Filled
  <1>9. \A k \in Lanes : k # l => OpenSells(k)' = OpenSells(k) /\ FilledOf(k)' = FilledOf(k)
    BY <1>1, <1>3, <1>7, <1>8 DEF OpenSells, FilledOf, l
  <1>10. o \in Sells => OpenSells(l)' = OpenSells(l) \ {o} /\ o \in OpenSells(l)
    BY <1>1, <1>3, <1>7 DEF OpenSells, l
  <1>11. o \in Buys => OpenSells(l)' = OpenSells(l)
    BY <1>1, <1>3, <1>7 DEF OpenSells
  <1>12. \A k \in Lanes : disk.held[k] \in Nat /\ Cardinality(OpenSells(k)) <= disk.held[k]
                            /\ Cardinality(OpenSells(k)) \in Nat
    BY <1>5, <1>6, CalmSets DEF CalmBody, Backed
  <1>13. o \in Sells => disk.held[l] >= 1
    <2>1. SUFFICES ASSUME o \in Sells PROVE disk.held[l] >= 1
      OBVIOUS
    <2>2. Cardinality(OpenSells(l)) # 0
      BY <1>10, <2>1, CalmSets, OrdersCount
    <2> QED
      BY <1>3, <1>12, <2>2
  <1>14. Balanced'
    <2>1. /\ Claimed(disk) + Cardinality(Filled(Buys)) = Worth + Cardinality(Filled(Sells))
          /\ Claimed(disk) \in Nat /\ Cardinality(Filled(Buys)) \in Nat
          /\ Cardinality(Filled(Sells)) \in Nat /\ Worth \in Nat
      BY <1>3, CalmSets, ClaimedNat, WorthNat DEF CalmBody, Balanced
    <2>2. Worth' = Worth
      BY <1>1 DEF Worth
    <2>3. CASE o \in Buys
      <3>1. Claimed(disk') = Claimed(disk) + 1
        BY <1>1, <1>2, <1>3, <2>3, AppliedClaims
      <3>2. Cardinality(Filled(Buys) \ {o}) = Cardinality(Filled(Buys)) - 1
        BY <1>3, <1>8, <2>3, CalmSets, OrdersCount
      <3>3. Filled(Buys)' = Filled(Buys) \ {o} /\ Filled(Sells)' = Filled(Sells)
        BY <1>3, <1>8, <2>3
      <3>4. /\ Cardinality(Filled(Buys)') = Cardinality(Filled(Buys)) - 1
            /\ Cardinality(Filled(Sells)') = Cardinality(Filled(Sells))
        BY <3>2, <3>3
      <3> QED
        BY <2>1, <2>2, <3>1, <3>4 DEF Balanced
    <2>4. CASE o \in Sells
      <3>1. Least(1, disk.held[l]) = 1
        BY <1>3, <1>12, <1>13, <2>4 DEF Least
      <3>2. Claimed(disk') = Claimed(disk) - 1
        BY <1>1, <1>2, <1>3, <2>4, <3>1, AppliedClaims
      <3>3. Cardinality(Filled(Sells) \ {o}) = Cardinality(Filled(Sells)) - 1
        BY <1>3, <1>8, <2>4, CalmSets, OrdersCount
      <3>4. Filled(Sells)' = Filled(Sells) \ {o} /\ Filled(Buys)' = Filled(Buys)
        BY <1>3, <1>8, <2>4
      <3>5. /\ Cardinality(Filled(Sells)') = Cardinality(Filled(Sells)) - 1
            /\ Cardinality(Filled(Buys)') = Cardinality(Filled(Buys))
        BY <3>3, <3>4
      <3> QED
        BY <2>1, <2>2, <3>2, <3>5 DEF Balanced
    <2> QED
      BY <1>3, <2>3, <2>4
  <1>15. Fresh'
    BY <1>1, <1>3, <1>7 DEF CalmBody, Fresh
  <1>16. Stages'
    BY <1>1, <1>6 DEF CalmBody, Stages
  <1>17. Backed'
    <2>1. ASSUME NEW k \in Lanes PROVE Cardinality(OpenSells(k)') <= disk'.held[k]
      <3>1. CASE k # l
        BY <1>6, <1>9, <1>12, <2>1, <3>1
      <3>2. CASE k = l /\ o \in Buys
        BY <1>6, <1>11, <1>12, <2>1, <3>2
      <3>3. CASE k = l /\ o \in Sells
        <4>1. Cardinality(OpenSells(l) \ {o}) = Cardinality(OpenSells(l)) - 1
          BY <1>10, <3>3, CalmSets, OrdersCount
        <4>2. disk'.held[l] = disk.held[l] - 1
          BY <1>3, <1>6, <1>12, <1>13, <3>3 DEF Monus
        <4>3. Cardinality(OpenSells(l)') = Cardinality(OpenSells(l)) - 1
          BY <1>10, <3>3, <4>1
        <4> QED
          BY <1>3, <1>12, <3>3, <4>2, <4>3
      <3> QED
        BY <1>3, <3>1, <3>2, <3>3
    <2> QED
      BY <2>1 DEF Backed
  <1>18. RowsRight'
    BY <1>4 DEF RowsRight
  <1>19. Shown'
    <2>1. \A k \in quiet' : k \in quiet /\ k \in Lanes /\ k # l
      BY <1>2 DEF TypeInv, TypeOK
    <2> QED
      BY <1>1, <1>6, <1>9, <2>1 DEF CalmBody, Shown
  <1>20. Halted'
    <2>1. Unbooked(Sells)' = Unbooked(Sells)
      BY <1>1 DEF Unbooked
    <2> QED
      BY <1>1, <2>1 DEF CalmBody, Halted
  <1> QED
    BY <1>1, <1>14, <1>15, <1>16, <1>17, <1>18, <1>19, <1>20 DEF CalmBody

\* What is released or credited when the market is resolved leaves what is claimed as it is.
LEMMA CalmSettled ==
  ASSUME TypeInv, CreditInv, CalmBody, AppendRow, ~bad',
         \/ Head(rows).ev = "release" /\ redeemed > 0
         \/ IsCredit(Head(rows))
  PROVE CalmBody'
  <1> DEFINE r == Head(rows)
             l == r.lane
  <1>1. /\ up /\ ~torn /\ book = disk /\ disk' = Apply(disk, r) /\ book' = disk'
        /\ UNCHANGED <<up, orders, wallet, redeemed, resolved, seen, recon, todo>>
        /\ quiet' \in SUBSET quiet /\ rows' = Tail(rows) /\ rows # <<>>
    BY DEF AppendRow, Stored, CalmBody, chain, tasks
  <1>2. /\ r \in TheRows /\ l \in Lanes /\ r.n \in Nat /\ 1 \in DOMAIN rows /\ r = rows[1]
        /\ disk \in Ledgers /\ wallet \in Nat /\ redeemed \in Nat
    BY <1>1, HeadAndTail DEF TheRows, TypeInv, TypeOK
  <1>3. /\ disk.held \in [Lanes -> Nat] /\ disk.released \in [Lanes -> Nat]
    BY <1>2, ClaimedNat
  <1>4. /\ resolved
        /\ IsCredit(r) => Batch
        /\ r.ev = "credit" => r.n <= disk.released[l]
        /\ \A i \in DOMAIN rows' : IsCredit(rows'[i])
    <2>1. CASE IsCredit(r)
      <3>1. Batch
        BY <1>2, <2>1 DEF Batch
      <3>2. /\ \A i \in DOMAIN rows : IsCredit(rows[i])
            /\ r.ev = "credit" => r.n <= book.released[l]
        BY <1>2, <3>1 DEF CreditInv, BatchRight
      <3>3. \A i \in DOMAIN rows' : i + 1 \in DOMAIN rows /\ rows'[i] = rows[i + 1]
        BY <1>1, HeadAndTail
      <3> QED
        BY <1>1, <3>1, <3>2, <3>3 DEF CreditInv, Early
    <2>2. CASE r.ev = "release" /\ redeemed > 0
      <3>1. resolved
        BY <1>2, <2>2 DEF CalmBody, Stages
      <3>2. ~Batch
        <4>1. ~IsCredit(rows[1])
          BY <1>2, <2>2 DEF IsCredit
        <4> QED
          BY <1>2, <4>1 DEF CreditInv, BatchRight
      <3>3. rows' = <<>>
        BY <1>1, <3>2, HeadAndTail DEF CreditInv, BatchRight
      <3> QED
        BY <2>2, <3>1, <3>3 DEF IsCredit
    <2> QED
      BY <2>1, <2>2
  <1>5. /\ Claimed(disk') = Claimed(disk) /\ disk'.keys = disk.keys
    <2>1. r.ev = "release" \/ r.ev = "settle" \/ (r.ev = "credit" /\ r.n <= disk.released[l])
      BY <1>4 DEF IsCredit
    <2>2. Claimed(Apply(disk, r)) = Claimed(disk)
      <3> HIDE DEF r
      <3> QED
        BY <1>2, <2>1, AppliedClaims DEF l
    <2>3. Apply(disk, r).keys = disk.keys
      BY <1>2, <2>1, AppliedRelease, AppliedSettle, AppliedCredit
    <2> QED
      BY <1>1, <2>2, <2>3
  <1>6. ASSUME redeemed = 0
        PROVE /\ \A k \in Lanes : disk'.held[k] <= disk.held[k] /\ disk'.held[k] \in Nat
              /\ \A k \in Lanes : disk'.released[k] = 0
              /\ quiet' = quiet
    <2>1. r.ev = "credit" \/ r.ev = "settle"
      BY <1>2, <1>6 DEF IsCredit
    <2>2. \A k \in Lanes : disk.released[k] = 0 /\ disk.held[k] \in Nat
      BY <1>3, <1>6 DEF CalmBody, Stages
    <2>3. quiet' = quiet
      BY <2>1 DEF AppendRow
    <2>4. CASE r.ev = "credit"
      <3>1. /\ disk'.held = disk.held
            /\ disk'.released = [disk.released EXCEPT ![l] = Monus(disk.released[l], r.n)]
        BY <1>1, <1>2, <2>4, AppliedCredit
      <3>2. Monus(disk.released[l], r.n) = 0
        BY <1>2, <2>2 DEF Monus
      <3> HIDE DEF l
      <3> QED
        BY <1>2, <1>3, <2>2, <2>3, <3>1, <3>2
    <2>5. CASE r.ev = "settle"
      <3>1. /\ disk'.held = [disk.held EXCEPT ![l] = 0]
            /\ disk'.released = disk.released
        BY <1>1, <1>2, <2>5, AppliedSettle
      <3> HIDE DEF l
      <3> QED
        BY <1>2, <1>3, <2>2, <2>3, <3>1
    <2> QED
      BY <2>1, <2>4, <2>5
  <1> HIDE DEF r, l
  <1>7. \A q : Untracked(q)' = Untracked(q)
    BY <1>5 DEF Untracked
  <1>8. /\ \A S : Filled(S)' = Filled(S)
        /\ \A k : FilledOf(k)' = FilledOf(k)
        /\ Unbooked(Sells)' = Unbooked(Sells)
    BY <1>1, <1>7 DEF Filled, FilledOf, Unbooked
  <1>9. Balanced'
    BY <1>1, <1>5, <1>8 DEF CalmBody, Balanced, Worth
  <1>10. Fresh'
    BY <1>1, <1>7 DEF CalmBody, Fresh
  <1>11. Stages'
    BY <1>1, <1>6 DEF CalmBody, Stages
  <1>12. Backed'
    BY <1>1, <1>4 DEF Backed
  <1>13. RowsRight'
    BY <1>4 DEF RowsRight, RowRight, IsCredit
  <1>14. Shown'
    <2>1. /\ seen \in Nat /\ recon.shown \in Nat /\ quiet \subseteq Lanes
          /\ \A k \in Lanes : disk.held[k] \in Nat
          /\ \A k : Cardinality(FilledOf(k)) \in Nat
      BY <1>3, CalmSets DEF TypeInv, TypeOK, Passes
    <2>2. ASSUME redeemed = 0, NEW k \in quiet
          PROVE /\ disk'.held[k] <= seen + Cardinality(FilledOf(k))
                /\ recon.at = "shown" => disk'.held[k] <= recon.shown + Cardinality(FilledOf(k))
                /\ recon.at = "lanes" /\ ~recon.busy => disk'.held[k] <= recon.shown
      <3>1. /\ disk.held[k] <= seen + Cardinality(FilledOf(k))
            /\ recon.at = "shown" => disk.held[k] <= recon.shown + Cardinality(FilledOf(k))
            /\ recon.at = "lanes" /\ ~recon.busy => disk.held[k] <= recon.shown
        BY <2>2 DEF CalmBody, Shown
      <3>2. disk'.held[k] <= disk.held[k] /\ disk'.held[k] \in Nat
        BY <1>6, <2>1, <2>2
      <3> QED
        BY <2>1, <3>1, <3>2
    <2> QED
      BY <1>1, <1>6, <1>8, <2>2 DEF Shown
  <1>15. Halted'
    BY <1>1, <1>8 DEF CalmBody, Halted
  <1> QED
    BY <1>1, <1>9, <1>10, <1>11, <1>12, <1>13, <1>14, <1>15 DEF CalmBody

\* A row is appended.
LEMMA CalmAppend ==
  ASSUME TypeInv, CreditInv, CalmBody, AppendRow, ~bad'
  PROVE CalmBody'
  <1>1. rows # <<>>
    BY DEF AppendRow
  <1>2. Head(rows) \in TheRows /\ 1 \in DOMAIN rows /\ Head(rows) = rows[1]
    BY <1>1, HeadAndTail
  <1>3. RowRight(Head(rows)) /\ Head(rows).ev \in Kinds
    BY <1>2 DEF CalmBody, RowsRight, TheRows
  <1>4. CASE Head(rows).ev \in {"buy", "sell"}
    <2>1. PICK o \in Filled(Orders) : Head(rows) = FillRow(o)
      BY <1>3, <1>4 DEF RowRight
    <2> QED
      BY <2>1, CalmFill
  <1>5. CASE Head(rows).ev = "release" \/ IsCredit(Head(rows))
    BY <1>3, <1>5, CalmSettled DEF RowRight
  <1> QED
    BY <1>3, <1>4, <1>5 DEF RowRight, Kinds, IsCredit

\* Whatever the engine does, the books and the wallet agree, if nothing but a lost write
\* goes wrong.
LEMMA CalmStep == TypeInv /\ CreditInv /\ CalmInv /\ [Next]_vars => CalmInv'
  <1> SUFFICES ASSUME TypeInv, CreditInv, CalmInv, [Next]_vars, env' = {}, ~bad'
               PROVE CalmBody'
    BY DEF CalmInv
  <1>1. env' = env /\ ~bad
    <2>1. ASSUME \/ \E o \in Orders : Place(o) \/ Die(o) \/ Close(o) \/ Match(o) \/ BookFill(o)
                 \/ \E l \in Lanes : Rest(l) \/ ReconLane(l)
                 \/ \E l \in Lanes, his, trusted \in BOOLEAN : BootLane(l, his, trusted)
                 \/ \E empty \in BOOLEAN : ReconReads(empty)
                 \/ \E n \in Listed : ReadProof(n)
          PROVE env' = env /\ bad' = bad
      BY <2>1 DEF Place, Die, Close, Match, BookFill, Rest, ReconLane, BootLane, ReconReads, ReadProof,
                  store
    <2>2. ASSUME \/ ReconReadsFlight \/ CatchUp \/ Resolve \/ Redeem \/ Finalize \/ Credit \/ Crash
                 \/ UNCHANGED vars
          PROVE env' = env /\ bad' = bad
      BY <2>2 DEF ReconReadsFlight, CatchUp, Resolve, Redeem, Finalize, Credit, Crash, vars, store
    <2>3. ASSUME AppendRow \/ Boot PROVE env' = env /\ ~bad
      BY <2>3 DEF AppendRow, Boot, Stored
    <2>4. ASSUME NEW fate \in {"lost", "torn", "kept"}, AppendFails(fate) PROVE env' = env /\ ~bad
      BY <2>4 DEF AppendFails, Stored, store
    <2> QED
      BY <2>1, <2>2, <2>3, <2>4
      DEF Next, Trading, Resolver, Writing, Reconciling, Settling, SettlesClaims
  <1>2. env = {} /\ CalmBody
    BY <1>1 DEF CalmInv
  <1>3. CASE \E o \in Orders : Place(o) \/ Die(o) \/ Close(o)
    BY <1>2, <1>3, CalmOrder
  <1>4. CASE \E o \in Orders : Match(o)
    BY <1>2, <1>4, CalmMatch
  <1>5. CASE \/ \E o \in Orders : BookFill(o)
             \/ \E l \in Lanes : ReconLane(l)
             \/ \E l \in Lanes, his, trusted \in BOOLEAN : BootLane(l, his, trusted)
             \/ Credit
    BY <1>2, <1>5, CalmRows
  <1>6. CASE \/ CatchUp \/ ReconReadsFlight
             \/ \E empty \in BOOLEAN : ReconReads(empty)
             \/ \E l \in Lanes : Rest(l)
    BY <1>2, <1>6, CalmReads
  <1>7. CASE Resolve \/ Redeem
    BY <1>2, <1>7, CalmChain
  <1>8. CASE Crash \/ Boot \/ \E fate \in {"lost", "torn", "kept"} : AppendFails(fate)
    BY <1>2, <1>8, CalmStops
  <1>9. CASE AppendRow
    BY <1>2, <1>9, CalmAppend
  <1>10. CASE Finalize \/ (\E n \in Listed : ReadProof(n)) \/ UNCHANGED vars
    <2>1. UNCHANGED <<up, book, disk, orders, wallet, redeemed, resolved, seen, quiet, recon,
                      todo, rows>>
      BY <1>10 DEF Finalize, ReadProof, vars, chain, memory, store, tasks
    <2>2. /\ (up => book = disk)' /\ Balanced' /\ Fresh' /\ Stages' /\ Backed'
          /\ \A r : RowRight(r) => RowRight(r)'
          /\ \A l : FilledOf(l)' = FilledOf(l)
          /\ Unbooked(Sells)' = Unbooked(Sells)
      BY <1>2, <2>1, CalmQuiet
    <2>3. RowsRight' /\ Shown' /\ Halted'
      BY <1>2, <2>1, <2>2 DEF CalmBody, RowsRight, Shown, Halted
    <2> QED
      BY <2>2, <2>3 DEF CalmBody
  <1> QED
    BY <1>3, <1>4, <1>5, <1>6, <1>7, <1>8, <1>9, <1>10
    DEF Next, Trading, Resolver, Writing, Reconciling, Settling, SettlesClaims

\* What the invariant says of the books in memory.
LEMMA CalmMeans == TypeInv /\ CreditInv /\ CalmInv => Conserved /\ ReleasesAreRedeemed
  <1> SUFFICES ASSUME TypeInv, CreditInv, CalmInv PROVE Conserved /\ ReleasesAreRedeemed
    OBVIOUS
  <1>1. CASE ~(up /\ Calm)
    BY <1>1 DEF Conserved, ReleasesAreRedeemed
  <1>2. CASE up /\ Calm
    <2>1. CalmBody /\ book = disk
      BY <1>2 DEF CalmInv, Calm, CalmBody
    <2>2. /\ disk \in Ledgers /\ wallet \in Nat /\ redeemed \in Nat
          /\ disk.released \in [Lanes -> Nat]
          /\ Claimed(disk) = Total(disk.held) + Total(disk.released) + Total(disk.settled)
          /\ Total(disk.held) \in Nat /\ Total(disk.released) \in Nat /\ Total(disk.settled) \in Nat
      BY ClaimedNat DEF TypeInv, TypeOK, Claimed
    <2>3. Matched(Buys) = Cardinality(Filled(Buys)) /\ Matched(Sells) = Cardinality(Filled(Sells))
      BY <2>1 DEF Matched, Filled, Untracked
    <2>4. Claimed(disk) + Cardinality(Filled(Buys)) = wallet + redeemed + Cardinality(Filled(Sells))
      BY <2>1 DEF CalmBody, Balanced, Worth
    <2>5. Conserved
      BY <2>1, <2>3, <2>4 DEF Conserved
    <2>6. Total(disk.released) <= redeemed
      <3>1. CASE redeemed = 0
        <4>1. Total(disk.released) = 0
          BY <2>1, <3>1, TotalZero DEF CalmBody, Stages
        <4> QED
          BY <3>1, <4>1
      <3>2. CASE redeemed # 0
        <4>1. wallet = 0 /\ resolved /\ \A q \in Orders : orders[q] # "matched"
          BY <2>1, <3>2 DEF CalmBody, Stages
        <4>2. Filled(Buys) = {} /\ Filled(Sells) = {}
          BY <4>1 DEF Filled, Orders
        <4>3. Cardinality(Filled(Buys)) = 0 /\ Cardinality(Filled(Sells)) = 0
          BY <4>2, FS_EmptySet
        <4> QED
          BY <2>2, <2>4, <4>1, <4>3
      <3> QED
        BY <3>1, <3>2
    <2>7. ReleasesAreRedeemed
      BY <2>1, <2>6 DEF ReleasesAreRedeemed
    <2> QED
      BY <2>5, <2>7
  <1> QED
    BY <1>1, <1>2

\* No share is forgotten or made up: what the books claim, have released or have credited
\* is what the wallet holds or has redeemed, but for the fills still to be booked
\* (ledger.rs, main.rs book_fill and reconcile).
THEOREM ConservedCorrect == Spec => []Conserved
  <1>1. Init => TypeInv /\ CreditInv /\ CalmInv
    BY TypeInit, CreditInit, CalmInit
  <1>2. (TypeInv /\ CreditInv /\ CalmInv) /\ [Next]_vars => (TypeInv /\ CreditInv /\ CalmInv)'
    BY TypeStep, CreditStep, CalmStep
  <1>3. TypeInv /\ CreditInv /\ CalmInv => Conserved
    BY CalmMeans
  <1> QED
    BY <1>1, <1>2, <1>3, PTL DEF Spec

\* Reconciliation writes off only shares that somebody redeemed (main.rs, releasable).
THEOREM ReleasesCorrect == Spec => []ReleasesAreRedeemed
  <1>1. Init => TypeInv /\ CreditInv /\ CalmInv
    BY TypeInit, CreditInit, CalmInit
  <1>2. (TypeInv /\ CreditInv /\ CalmInv) /\ [Next]_vars => (TypeInv /\ CreditInv /\ CalmInv)'
    BY TypeStep, CreditStep, CalmStep
  <1>3. TypeInv /\ CreditInv /\ CalmInv => ReleasesAreRedeemed
    BY CalmMeans
  <1> QED
    BY <1>1, <1>2, <1>3, PTL DEF Spec
=============================================================================

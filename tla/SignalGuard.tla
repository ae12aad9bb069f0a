----------------------------- MODULE SignalGuard -----------------------------
(* The signal guard: how much of each of his orders we have copied, and      *)
(* which side of each market we may buy for the next TTL.  It is a table in  *)
(* memory, a compacted file that releases are appended to, and the write-    *)
(* ahead log that commitments are appended to; boot rebuilds the table from  *)
(* the two.                                                                  *)
(*                                                                           *)
(* A disk is modelled by the rows a replay can read.  A failed append may    *)
(* leave a fragment at the end of its file, and the next append is glued to  *)
(* it: in the file that is a corrupt line, which boot refuses; in the log it *)
(* is where the guard's replay stops.                                        *)
EXTENDS Naturals, FiniteSetsExt

CONSTANTS
  Salts,                    \* his orders
  LaneOf, CondOf, TokenOf,  \* the lane that copies each, its market, its side
  NoLane, NoToken,          \* the empty lane and token of a legacy row
  Legacy,                   \* the salts whose rows predate lanes and tokens
  OrderSize,                \* shares of each of his orders
  TTL,                      \* ORDER_TTL_SECS = MARKET_TTL_SECS
  ReleaseWithin,            \* a release comes at most so long after its commit
  MaxTime, MaxFaults, MaxCrashes,  \* bounds
  MaxCopied                 \* bound: shares committed to an order in all

Times == 0 .. MaxTime
Lanes == {LaneOf[s] : s \in Salts}

ASSUME GuardAssumption ==
  /\ OrderSize \in Nat \ {0} /\ TTL \in Nat \ {0} /\ ReleaseWithin \in Nat
  /\ MaxTime \in Nat /\ MaxFaults \in Nat /\ MaxCrashes \in Nat /\ MaxCopied \in Nat
  /\ Legacy \subseteq Salts
  /\ NoLane \notin Lanes /\ \A s \in Salts : TokenOf[s] # NoToken

\* The guard that wrote the legacy rows let one order into a market.
ASSUME LegacyAssumption == \A a, b \in Legacy : CondOf[a] = CondOf[b] => a = b

VARIABLES
  now,
  up,        \* the engine runs
  orders,    \* State.orders: Salts -> slot
  markets,   \* State.markets: entries, one per lane and market
  latched,   \* the lanes whose buys an incident halts
  file,      \* the readable rows of the guard's file
  fileBad,   \* the file holds a line that does not parse
  wal,       \* the guard rows of the log that a replay reaches
  walTail,   \* "clean" | "torn": ends in a fragment | "cut": a bad line was left
  \* history
  sent,      \* the commitments an order was sent under: <<salt, time>>
  bought,    \* Salts -> Times -> shares sent then and not killed by the venue
  \* bounds
  faults, crashes

table == <<orders, markets>>
disk  == <<file, fileBad, wal, walTail>>
vars  == <<now, up, table, latched, disk, sent, bought, faults, crashes>>

NoSlot == [t |-> 0, his |-> 0, copied |-> 0, released |-> 0, token |-> NoToken]
Slots  == [t : Times, his : 0 .. OrderSize, copied : Nat, released : Nat,
           token : {NoToken} \cup {TokenOf[s] : s \in Salts}]

Row(s, lane, slot) == [salt |-> s, lane |-> lane, slot |-> slot]
Entry(s, lane, t, token) ==
  [lane |-> lane, cond |-> CondOf[s], t |-> t, salt |-> s, token |-> token]

Min2(a, b) == IF a <= b THEN a ELSE b
Outstanding(slot) == IF slot.copied > slot.released THEN slot.copied - slot.released ELSE 0

\* A legacy row carries no lane and no token, and counts for every lane.
LegacyRow(s) == Row(s, NoLane, [NoSlot EXCEPT !.his = 1, !.copied = 1])

Init ==
  /\ now = 0 /\ up = FALSE
  /\ orders = [s \in Salts |-> NoSlot] /\ markets = {}
  /\ latched = {}
  /\ file = {LegacyRow(s) : s \in Legacy} /\ fileBad = FALSE
  /\ wal = {} /\ walTail = "clean"
  /\ sent = {<<s, 0>> : s \in Legacy}
  /\ bought = [s \in Salts |-> [t \in Times |-> IF s \in Legacy /\ t = 0 THEN 1 ELSE 0]]
  /\ faults = 0 /\ crashes = 0

\* The history forgets what can neither be released nor break a property.
Tick ==
  /\ now < MaxTime
  /\ now' = now + 1
  /\ sent' = {e \in sent : now' - e[2] < TTL}
  /\ bought' = [s \in Salts |-> [t \in Times |->
       IF now' - t < TTL \/ now' - t <= ReleaseWithin THEN bought[s][t] ELSE 0]]
  /\ UNCHANGED <<up, table, latched, disk, faults, crashes>>

-----------------------------------------------------------------------------
(* Observing and committing.                                                 *)

Fresh(t) == now - t < TTL

\* expire: a slot that expires is as good as none.
LiveOrders == [s \in Salts |-> IF Fresh(orders[s].t) THEN orders[s] ELSE NoSlot]
LiveMarkets == {m \in markets : Fresh(m.t)}

\* observe: f more shares of his order, up to its size.
Observed(s, f) ==
  [LiveOrders EXCEPT ![s].t = now, ![s].his = Min2(@ + f, OrderSize)]

\* Variant of Gate that lets a legacy row through.
GateLaneOnly(s) ==
  \A m \in LiveMarkets :
    m.lane = LaneOf[s] /\ m.cond = CondOf[s] =>
      m.salt = s \/ m.token = TokenOf[s]

\* market_gate: the market is free, ours, or bought on the same side.
Gate(s) ==
  \A m \in LiveMarkets :
    m.lane \in {NoLane, LaneOf[s]} /\ m.cond = CondOf[s] =>
      m.salt = s \/ (m.token # NoToken /\ m.token = TokenOf[s])

\* decide sizes a copy by what he filled and we have not copied; every cap can
\* only make it smaller.
Due(slot) == IF slot.his > Outstanding(slot) THEN slot.his - Outstanding(slot) ELSE 0

\* The slot, the markets and the row a commitment of n shares leaves.
Committed(slot, s, n) ==
  [slot EXCEPT !.t = now, !.copied = @ + n,
               !.token = IF @ = NoToken THEN TokenOf[s] ELSE @]
\* The market is the order's from here on.
Owned(s) ==
  {m \in LiveMarkets : ~(m.lane = LaneOf[s] /\ m.cond = CondOf[s])}
    \cup {Entry(s, LaneOf[s], now, TokenOf[s])}
CommitRow(s, slot, n) ==
  Row(s, LaneOf[s], [slot EXCEPT !.t = now, !.copied = @ + n, !.token = TokenOf[s]])

\* The order is copied no further: decide skips it, or the guard refuses.
Observe(s, f) ==
  /\ up
  /\ orders' = Observed(s, f)
  /\ markets' = LiveMarkets
  /\ UNCHANGED <<now, up, latched, disk, sent, bought, faults, crashes>>

\* Variant of AppendLog that does not reach the disk.
AppendNothing(row) == UNCHANGED <<wal, walTail>>

\* Wal::append_atomic.  A row glued to a fragment, or behind a bad line, is lost
\* to every replay.
AppendLog(row) ==
  IF walTail = "clean"
  THEN wal' = wal \cup {row} /\ UNCHANGED walTail
  ELSE walTail' = "cut" /\ UNCHANGED wal

\* What a failed append leaves: nothing, a fragment of the guard row, or the
\* guard row with or without a fragment of the pending row behind it.
AppendLogFails(row) ==
  \/ UNCHANGED <<wal, walTail>>
  \/ walTail' = (IF walTail = "clean" THEN "torn" ELSE "cut") /\ UNCHANGED wal
  \/ walTail = "clean" /\ wal' = wal \cup {row} /\ walTail' \in {"clean", "torn"}

\* commit_with: the row is on disk before the table changes and the order goes.
Commit(s, f, n) ==
  LET slot == Observed(s, f)[s]
  IN /\ up /\ LaneOf[s] \notin latched /\ Gate(s)
     /\ n \in 1 .. Due(slot) /\ slot.copied + n <= MaxCopied
     /\ AppendLog(CommitRow(s, slot, n))
     /\ orders' = [Observed(s, f) EXCEPT ![s] = Committed(slot, s, n)]
     /\ markets' = Owned(s)
     /\ sent' = sent \cup {<<s, now>>}
     /\ bought' = [bought EXCEPT ![s][now] = @ + n]
     /\ UNCHANGED <<now, up, latched, file, fileBad, faults, crashes>>

\* A commitment that cannot be persisted sends nothing and halts its lane.
CommitFails(s, f, n) ==
  LET slot == Observed(s, f)[s]
  IN /\ up /\ LaneOf[s] \notin latched /\ Gate(s)
     /\ n \in 1 .. Due(slot) /\ slot.copied + n <= MaxCopied
     /\ faults < MaxFaults /\ faults' = faults + 1
     /\ AppendLogFails(CommitRow(s, slot, n))
     /\ orders' = Observed(s, f) /\ markets' = LiveMarkets
     /\ latched' = latched \cup {LaneOf[s]}
     /\ UNCHANGED <<now, up, file, fileBad, sent, bought, crashes>>

\* The operator clears the incident: he restarts first, and clears it before
\* anything else is written to the log.
ClearIncident(lane) ==
  /\ up /\ lane \in latched
  /\ walTail = "clean" /\ wal = {}
  /\ latched' = latched \ {lane}
  /\ UNCHANGED <<now, up, table, disk, sent, bought, faults, crashes>>

-----------------------------------------------------------------------------
(* Releasing.                                                                *)

ReleaseRow(s, back) ==
  Row(s, LaneOf[s], [orders[s] EXCEPT !.t = now, !.released = @ + back])

\* The venue killed n of the shares sent at time t, and the engine gives them
\* back: no more than is outstanding, and nothing of a slot that has expired.
\* An append that fails leaves the table alone, and nothing or a fragment in
\* the file.
Release(s, t, n) ==
  LET back == Min2(n, Outstanding(orders[s]))
  IN /\ up /\ n \in 1 .. bought[s][t] /\ now - t <= ReleaseWithin
     /\ bought' = [bought EXCEPT ![s][t] = @ - n]
     /\ \/ back = 0 /\ UNCHANGED <<orders, file, fileBad, faults>>
        \/ /\ back > 0
           /\ file' = file \cup {ReleaseRow(s, back)}
           /\ orders' = [orders EXCEPT ![s].released = @ + back, ![s].t = now]
           /\ UNCHANGED <<fileBad, faults>>
        \/ /\ back > 0 /\ faults < MaxFaults /\ faults' = faults + 1
           /\ fileBad' \in {fileBad, TRUE}
           /\ UNCHANGED <<orders, file>>
     /\ UNCHANGED <<now, up, markets, latched, wal, walTail, sent, crashes>>

-----------------------------------------------------------------------------
(* Crash and boot.                                                           *)

\* The engine dies, perhaps half way through an append.
Crash ==
  /\ up /\ crashes < MaxCrashes
  /\ crashes' = crashes + 1
  /\ up' = FALSE
  /\ orders' = [s \in Salts |-> NoSlot] /\ markets' = {}
  /\ walTail' \in {walTail, IF walTail = "clean" THEN "torn" ELSE "cut"}
  /\ UNCHANGED <<now, latched, file, fileBad, wal, sent, bought, faults>>

\* Variant of Rows that reads the file alone.
RowsOfFile == {r \in file : Fresh(r.slot.t)}

\* The rows boot reads: those of the file, then those of the log, that are fresh.
Rows == {r \in file \cup wal : Fresh(r.slot.t)}

Largest(S) == IF S = {} THEN 0 ELSE Max(S)

\* open_absorbing: each count of a slot is the largest a row shows, and its
\* token the first one set.
ReplayedSlot(s) ==
  LET mine == {r.slot : r \in {q \in Rows : q.salt = s}}
  IN [t |-> Largest({x.t : x \in mine}),
      his |-> Largest({x.his : x \in mine}),
      copied |-> Largest({x.copied : x \in mine}),
      released |-> Largest({x.released : x \in mine}),
      token |-> IF \E x \in mine : x.token # NoToken THEN TokenOf[s] ELSE NoToken]

\* A market belongs to the latest row that had copied something of it; of rows
\* of one second, to whichever was written first.
Rival(m, k) == m.lane = k.lane /\ m.cond = k.cond
Claims == {Entry(r.salt, r.lane, r.slot.t, r.slot.token) : r \in {q \in Rows : q.slot.copied > 0}}
Latest == {m \in Claims : \A k \in Claims : Rival(m, k) => k.t <= m.t}
ReplayedMarkets ==
  {S \in SUBSET Latest : \A m \in Latest : \E k \in S : {j \in S : Rival(j, m)} = {k}}

\* Boot refuses a file it cannot parse; otherwise the fresh rows become the
\* file, and the log is emptied once every consumer has absorbed it.  When that
\* fails, a log that ends cleanly is retained.
Boot ==
  /\ ~up /\ ~fileBad
  /\ up' = TRUE
  /\ orders' = [s \in Salts |-> ReplayedSlot(s)]
  /\ markets' \in ReplayedMarkets
  /\ file' = Rows
  /\ \/ wal' = {} /\ walTail' = "clean" /\ UNCHANGED faults
     \/ /\ walTail = "clean" /\ wal # {} /\ faults < MaxFaults
        /\ faults' = faults + 1
        /\ UNCHANGED <<wal, walTail>>
  /\ UNCHANGED <<now, latched, fileBad, sent, bought, crashes>>

-----------------------------------------------------------------------------
Signal(s) ==
  \E f \in 1 .. OrderSize :
    \/ Observe(s, f)
    \/ \E n \in 1 .. OrderSize : Commit(s, f, n) \/ CommitFails(s, f, n)
Settle(s) == \E t \in 0 .. now, n \in 1 .. OrderSize : Release(s, t, n)

Next ==
  \/ \E s \in Salts : Signal(s) \/ Settle(s)
  \/ \E lane \in Lanes : ClearIncident(lane)
  \/ Tick \/ Crash \/ Boot

Spec == Init /\ [][Next]_vars

-----------------------------------------------------------------------------
(* Properties.                                                               *)

EntrySet == [lane : Lanes \cup {NoLane}, cond : {CondOf[s] : s \in Salts}, t : Times,
             salt : Salts, token : {NoToken} \cup {TokenOf[s] : s \in Salts}]
RowSet == [salt : Salts, lane : Lanes \cup {NoLane}, slot : Slots]

\* Every variable stays within its range, and a market has one entry at most.
TypeOK ==
  /\ now \in Times /\ up \in BOOLEAN
  /\ orders \in [Salts -> Slots]
  /\ markets \subseteq EntrySet
  /\ \A m, k \in markets : m.lane = k.lane /\ m.cond = k.cond => m = k
  /\ latched \subseteq Lanes
  /\ file \subseteq RowSet /\ wal \subseteq RowSet
  /\ fileBad \in BOOLEAN /\ walTail \in {"clean", "torn", "cut"}
  /\ sent \subseteq Salts \X Times
  /\ bought \in [Salts -> [Times -> Nat]]
  /\ faults \in Nat /\ crashes \in Nat

\* No lane ever buys both sides of a market within the TTL, restarts or not.
OneSidePerMarket ==
  \A a, b \in sent :
    /\ CondOf[a[1]] = CondOf[b[1]] /\ TokenOf[a[1]] # TokenOf[b[1]]
    /\ LaneOf[a[1]] = LaneOf[b[1]]
    => a[2] - b[2] >= TTL \/ b[2] - a[2] >= TTL

\* What was bought of one of his orders within the TTL, and not killed.
Recent(s) == [t \in Times |-> IF Fresh(t) THEN bought[s][t] ELSE 0]
BoughtOf(s) == SumFunctionOnSet(Recent(s), Times)

\* However often a fill is delivered, and whatever dies in between, no more of
\* his order is bought within the TTL than its size.
BoughtWithinOrder == \A s \in Salts : BoughtOf(s) <= OrderSize

\* A restart at this moment would still know of every share that the order's
\* latest commitment, if it is fresh, has outstanding.
RestartRemembers ==
  \A s \in Salts : BoughtOf(s) <= Outstanding(ReplayedSlot(s))
=============================================================================

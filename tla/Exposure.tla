------------------------------ MODULE Exposure ------------------------------
(* What the lanes have at stake in one token: the shares they hold, the      *)
(* orders they have out, the counters the hot path decides by, and whose     *)
(* token it is.                                                              *)
(*                                                                           *)
(* decide reads and raises the counters in memory, before the order is       *)
(* written down; the control task overwrites them, twice a second, with what *)
(* the ledger and the pending journal say.  A token belongs to the lane that *)
(* acted on it first, and only its owner buys it.  A share costs one unit:   *)
(* exposure and position are counted in shares.  What a lane buys counts      *)
(* against the day it was booked on, and what it has out against today.      *)
EXTENDS Naturals, FiniteSets, FiniteSetsExt

CONSTANTS
  Lanes,
  NoLane,
  Buys, Sells,   \* the orders the lanes may send
  LaneOf,        \* Orders -> Lanes
  Asks,          \* Orders -> the shares it may ask for
  Held,          \* Lanes -> the shares it starts with
  MaxOpen,       \* max_open_usd
  MaxDay         \* daily_budget_usd

Orders == Buys \cup Sells

ASSUME ExposureAssumption ==
  /\ Buys \cap Sells = {} /\ "idle" \notin Orders
  /\ IsFiniteSet(Orders) /\ IsFiniteSet(Lanes)
  /\ NoLane \notin Lanes
  /\ LaneOf \in [Orders -> Lanes]
  /\ \A o \in Orders : Asks[o] \subseteq 1 .. MaxOpen
  /\ MaxOpen \in Nat /\ MaxDay \in Nat /\ Held \in [Lanes -> 0..MaxOpen]
  /\ \A l, k \in Lanes : Held[l] > 0 /\ Held[k] > 0 => l = k

VARIABLES
  stage,      \* Orders -> where the order is
  size,       \* Orders -> the shares it asks for
  matched,    \* Orders -> the shares the venue gave it
  position,   \* Lanes -> the ledger's shares
  open_usd,   \* Lanes -> LaneState.open_usd
  holding,    \* Lanes -> Lane.holdings
  reserved,   \* Lanes -> Lane.sell_reservations
  owner,      \* Router.owner: the lane the token belongs to, or NoLane
  aged,       \* the claim is older than CLAIM_GRACE_SECS
  latched,    \* the lanes a conflict at boot has latched
  spent,      \* Lanes -> LaneBook.spent_today
  rolled,     \* the lanes whose spent_day is today
  today,      \* Lanes -> LaneState.spent_today
  bought,     \* Lanes -> the shares of today's rows of the ledger
  midnight,   \* the day has changed
  flight,     \* the rows the control task has read: {"idle"} outside a tick
  missed,     \* (history) the orders that the last tick did not count, though they were out
  misled,     \* (history) the orders decided by counters that missed another of their lane's
  early       \* (history) a claim may have been let go while its lane was still buying

orders == <<stage, size, matched>>
counters == <<open_usd, holding, reserved, today>>
claims == <<owner, aged>>
budget == <<spent, rolled, bought, midnight>>
history == <<missed, misled, early>>
vars == <<orders, position, counters, claims, budget, latched, flight, history>>

\* idle, decided (reserved, no row), working (row open, at the venue), ended
\* (the venue is done with it), booked (in the ledger, row open), refused (by the
\* venue, the row closed, the claim not yet looked at), closed.
Stages == {"idle", "decided", "working", "ended", "booked", "refused", "closed"}

Idle == {"idle"}
Rows == {o \in Orders : stage[o] \in {"working", "ended", "booked"}}
Out(S) == {o \in S : stage[o] \in {"decided", "working", "ended"}}
Of(l, S) == {o \in S : LaneOf[o] = l}
Shares(f, S) == SumFunctionOnSet(f, S)
Monus(a, b) == IF a > b THEN a - b ELSE 0

Init ==
  /\ stage = [o \in Orders |-> "idle"]
  /\ size = [o \in Orders |-> 0]
  /\ matched = [o \in Orders |-> 0]
  /\ position = Held
  /\ open_usd = Held /\ holding = Held /\ reserved = [l \in Lanes |-> 0]
  /\ spent = [l \in Lanes |-> 0] /\ rolled = Lanes /\ today = spent /\ bought = spent
  /\ midnight = FALSE
  /\ owner = IF \E l \in Lanes : Held[l] > 0 THEN CHOOSE l \in Lanes : Held[l] > 0 ELSE NoLane
  /\ aged = FALSE
  /\ latched = {}
  /\ flight = Idle
  /\ missed = {} /\ misled = {} /\ early = FALSE

-----------------------------------------------------------------------------
(* Whose token it is.                                                        *)

\* claim, claim_existing: a claim stays with who made it, and keeps its time.
ClaimedBy(l) ==
  IF owner = NoLane THEN owner' = l /\ aged' = FALSE ELSE UNCHANGED claims

\* release: only its owner's.
ReleasedBy(l) ==
  IF owner = l THEN owner' = NoLane /\ aged' = FALSE ELSE UNCHANGED claims

\* The grace outlasts what is between a decision and its row.
Ages ==
  /\ owner # NoLane /\ ~aged
  /\ \A o \in Orders : stage[o] # "decided"
  /\ aged' = TRUE
  /\ UNCHANGED <<orders, position, counters, owner, budget, latched, flight, history>>

-----------------------------------------------------------------------------
(* The hot path and the submitter.                                           *)

\* The hot path is one task: it is through with a buy, its row open, before it
\* decides again.  A sell it hands to a submitter before the row is open.
HotPathFree == \A b \in Buys : stage[b] # "decided"

\* (History) The decision went by counters that a tick had overwritten.
Misleads(o, S) ==
  /\ misled' = IF missed \cap Of(LaneOf[o], S) = {} THEN misled ELSE misled \cup {o}
  /\ UNCHANGED <<missed, early>>

\* Variant of Fits that counts what is held only.
FitsHeld(l, n) == position[l] + n <= MaxOpen
\* Within the cap, by the counter.
Fits(l, n) == open_usd[l] + n <= MaxOpen

\* Within the day's budget, by the counter.
FitsDay(l, n) == today[l] + n <= MaxDay

\* What a decided buy leaves behind: it counts from here on, and the token is taken.
Raised(l, n) ==
  /\ today' = [today EXCEPT ![l] = @ + n]
  /\ open_usd' = [open_usd EXCEPT ![l] = @ + n]
  /\ ClaimedBy(l)

\* Router::decide, a buy: of the owner, within the day's budget and the
\* cap, and counted from here on.
DecideBuy(o, n) ==
  LET l == LaneOf[o] IN
  /\ o \in Buys /\ stage[o] = "idle" /\ HotPathFree
  /\ l \notin latched
  /\ owner \in {l, NoLane}
  /\ FitsDay(l, n) /\ Fits(l, n)
  /\ Raised(l, n)
  /\ stage' = [stage EXCEPT ![o] = "decided"]
  /\ size' = [size EXCEPT ![o] = n]
  /\ Misleads(o, Buys)
  /\ UNCHANGED <<matched, position, holding, reserved, budget, latched, flight>>

\* Router::decide, a sell: at most what is held and not reserved, whosever token.
DecideSell(o, n) ==
  LET l == LaneOf[o] IN
  /\ o \in Sells /\ stage[o] = "idle" /\ HotPathFree
  /\ n <= Monus(holding[l], reserved[l])
  /\ reserved' = [reserved EXCEPT ![l] = @ + n]
  /\ ClaimedBy(l)
  /\ stage' = [stage EXCEPT ![o] = "decided"]
  /\ size' = [size EXCEPT ![o] = n]
  /\ Misleads(o, Sells)
  /\ UNCHANGED <<matched, position, open_usd, holding, today, budget, latched, flight>>

\* The order is dropped on the way: no cash, a precondition, a failed write.
\* Nothing takes its reservation back but the next tick.
Abandon(o) ==
  /\ stage[o] = "decided"
  /\ stage' = [stage EXCEPT ![o] = "closed"]
  /\ UNCHANGED <<size, matched, position, counters, claims, budget, latched, flight, history>>

\* The order's row is opened, by the WAL barrier (a buy) or by the submitter
\* task (a sell), and the order goes out.
Record(o) ==
  /\ stage[o] = "decided"
  /\ stage' = [stage EXCEPT ![o] = "working"]
  /\ UNCHANGED <<size, matched, position, counters, claims, budget, latched, flight, history>>

\* The venue matches some of it and is done with it.
Trade(o, n) ==
  /\ stage[o] = "working" /\ n \in 1 .. size[o]
  /\ matched' = [matched EXCEPT ![o] = n]
  /\ stage' = [stage EXCEPT ![o] = "ended"]
  /\ UNCHANGED <<size, position, counters, claims, budget, latched, flight, history>>

\* Another buy of the lane is out, or has bought what the hot path does not know of.
Accompanied(o) ==
  LET l == LaneOf[o] IN
  o \in Buys /\ (Out(Of(l, Buys)) # {} \/ (position[l] > 0 /\ holding[l] = 0))

\* Outcome::Rejected: the row is closed by the submitter ...
Refuse(o) ==
  /\ stage[o] = "working"
  /\ stage' = [stage EXCEPT ![o] = "refused"]
  /\ UNCHANGED <<size, matched, position, counters, claims, budget, latched, flight, history>>

\* ... and the token of a refused buy is let go, if the lane holds none of it, as
\* far as the hot path knows.
LetGo(o) ==
  /\ stage[o] = "refused"
  /\ stage' = [stage EXCEPT ![o] = "closed"]
  /\ IF o \in Buys /\ holding[LaneOf[o]] = 0 THEN ReleasedBy(LaneOf[o]) ELSE UNCHANGED claims
  /\ early' = (early \/ Accompanied(o))
  /\ UNCHANGED <<size, matched, position, counters, budget, latched, flight, missed, misled>>

\* A booked buy claims its token again, if the resolver books it.
BookedBy(o, resolver) ==
  IF resolver /\ o \in Buys THEN ClaimedBy(LaneOf[o]) ELSE UNCHANGED claims

\* Variant of Fill that does not roll the day.
FillUnrolled(l, n) ==
  /\ spent' = [spent EXCEPT ![l] = @ + n]
  /\ rolled' = rolled
\* apply, a buy: the first of a day starts its sum anew.
Fill(l, n) ==
  /\ spent' = [spent EXCEPT ![l] = IF l \in rolled THEN @ + n ELSE n]
  /\ rolled' = rolled \cup {l}

\* The answer is booked, by the submitter or the resolver.  A tick holds the ledger's
\* lock throughout; what it read of the journal it read under that lock too.
Book(o, resolver) ==
  LET l == LaneOf[o] IN
  /\ stage[o] = "ended" /\ flight = Idle
  /\ position' = [position EXCEPT ![l] =
       IF o \in Buys THEN @ + matched[o] ELSE Monus(@, matched[o])]
  /\ IF o \in Buys
     THEN Fill(l, matched[o]) /\ bought' = [bought EXCEPT ![l] = @ + matched[o]]
     ELSE UNCHANGED <<spent, rolled, bought>>
  /\ BookedBy(o, resolver)
  /\ stage' = [stage EXCEPT ![o] = "booked"]
  /\ UNCHANGED <<size, matched, counters, midnight, latched, flight, history>>

\* The row is closed, with the receipt.
Close(o) ==
  /\ stage[o] = "booked"
  /\ stage' = [stage EXCEPT ![o] = "closed"]
  /\ UNCHANGED <<size, matched, position, counters, claims, budget, latched, flight, history>>

-----------------------------------------------------------------------------
(* The control task.                                                         *)

\* in_flight: the rows of the journal, whose lock is dropped again.
TickReads ==
  /\ flight = Idle
  /\ flight' = Rows
  /\ UNCHANGED <<orders, position, counters, claims, budget, latched, history>>

\* Variant of Counters that counts no row of the journal.
CountersForget(rows) ==
  /\ open_usd' = position /\ holding' = position /\ today' = spent'
  /\ reserved' = [l \in Lanes |-> 0]
\* The counters become the ledger's position, or the day's sum, and the rows in flight,
\* each for all the shares it asks for.
Counters(rows) ==
  /\ open_usd' = [l \in Lanes |-> position[l] + Shares(size, Of(l, rows \cap Buys))]
  /\ today' = [l \in Lanes |-> spent'[l] + Shares(size, Of(l, rows \cap Buys))]
  /\ holding' = position
  /\ reserved' = [l \in Lanes |-> Shares(size, Of(l, rows \cap Sells))]

\* Variant of Collectable that spares no row in flight.
CollectableRows(l, rows) ==
  position[l] = 0 /\ (holding[l] > 0 \/ aged)
\* A claim is collected when the lane has sold out, or, past the grace, holds nothing
\* and has nothing in flight.
Collectable(l, rows) ==
  position[l] = 0 /\ (holding[l] > 0 \/ (aged /\ Of(l, rows) = {}))

\* roll_day, of every lane.
RollDay ==
  /\ spent' = [l \in Lanes |-> IF l \in rolled THEN spent[l] ELSE 0]
  /\ rolled' = Lanes

\* (History) The tick takes the owner's claim for done with: it has sold out and buys
\* again, or its new order is not among the rows that were read.
Hasty ==
  /\ Out(Of(owner, Buys)) # {}
  /\ (position[owner] = 0 /\ holding[owner] > 0) \/ ~(Out(Of(owner, Buys)) \subseteq flight)

\* tick_with.
TickWrites ==
  /\ flight # Idle
  /\ RollDay
  /\ Counters(flight)
  /\ IF owner \in Lanes /\ Collectable(owner, flight)
     THEN ReleasedBy(owner) ELSE UNCHANGED claims
  /\ flight' = Idle
  /\ missed' = Out(Orders) \ flight /\ early' = (early \/ Hasty)
  /\ UNCHANGED <<orders, position, bought, midnight, latched, misled>>

\* The day changes, once, and nobody is told.
Midnight ==
  /\ ~midnight
  /\ midnight' = TRUE
  /\ rolled' = {}
  /\ bought' = [l \in Lanes |-> 0]
  /\ UNCHANGED <<orders, position, counters, claims, spent, latched, flight, history>>

-----------------------------------------------------------------------------
(* A restart.                                                                *)

\* restore_ownership: the first lane that holds the token gets it; if others do as
\* well, all of them are latched.
Restored(holders) ==
  /\ owner' \in IF holders = {} THEN {NoLane} ELSE holders
  /\ aged' = FALSE
  /\ latched' = IF Cardinality(holders) > 1 THEN holders ELSE {}

\* Rows are raised again, and nobody claims for them.  The replay sums today's fills.
Restart ==
  /\ \E o \in Orders : stage[o] \in {"decided", "working", "ended"}
  /\ stage' = [o \in Orders |->
       IF stage[o] \in {"decided", "booked", "refused"} THEN "closed" ELSE stage[o]]
  /\ spent' = bought /\ rolled' = Lanes
  /\ Counters({o \in Orders : stage[o] \in {"working", "ended"}})
  /\ Restored({l \in Lanes : position[l] > 0})
  /\ flight' = Idle
  /\ missed' = {} /\ early' = (early \/ Out(Rows \cap Buys) # {})
  /\ UNCHANGED <<size, matched, position, bought, midnight, misled>>

Decide(o) == \E n \in Asks[o] : DecideBuy(o, n) \/ DecideSell(o, n)
Answer(o) == Refuse(o) \/ LetGo(o) \/ Close(o)
             \/ (\E n \in 1 .. MaxOpen : Trade(o, n)) \/ (\E r \in BOOLEAN : Book(o, r))
Send(o) == Abandon(o) \/ Record(o) \/ Answer(o)
Tick == TickReads \/ TickWrites

Next == (\E o \in Orders : Decide(o) \/ Send(o)) \/ Tick \/ Ages \/ Midnight \/ Restart

Spec == Init /\ [][Next]_vars

-----------------------------------------------------------------------------
(* Properties.                                                               *)

\* Every variable stays within its range.
TypeOK ==
  /\ stage \in [Orders -> Stages]
  /\ size \in [Orders -> Nat] /\ matched \in [Orders -> Nat]
  /\ position \in [Lanes -> Nat]
  /\ open_usd \in [Lanes -> Nat] /\ holding \in [Lanes -> Nat] /\ reserved \in [Lanes -> Nat]
  /\ owner \in Lanes \cup {NoLane} /\ aged \in BOOLEAN /\ latched \subseteq Lanes
  /\ spent \in [Lanes -> Nat] /\ today \in [Lanes -> Nat] /\ bought \in [Lanes -> Nat]
  /\ rolled \subseteq Lanes /\ midnight \in BOOLEAN
  /\ flight = Idle \/ flight \subseteq Orders
  /\ missed \subseteq Orders /\ misled \subseteq Orders /\ early \in BOOLEAN

\* The lane has decided by counters that had lost one of its own orders: a tick overwrote
\* them with what it had read before that order had a row.
Misled(l, S) == Of(l, S) \cap misled # {}

\* No share is offered twice, unless the lane was misled: its sells that are out ask for no
\* more than the ledger holds.
NeverOversold ==
  \A l \in Lanes :
    Misled(l, Sells) \/ Shares(size, Out(Of(l, Sells))) <= position[l]

\* What a lane holds and is buying stays within its cap, unless it was misled.
WithinCap ==
  \A l \in Lanes :
    Misled(l, Buys) \/ position[l] + Shares(size, Out(Of(l, Buys))) <= MaxOpen

\* What a lane has bought today and has out stays within the day's budget, unless it was
\* misled, whatever the hot path was told of midnight, by a tick, a booking or a restart.
DayWithinBudget ==
  \A l \in Lanes :
    Misled(l, Buys) \/ bought[l] + Shares(size, Out(Of(l, Buys))) <= MaxDay

\* Two lanes never have shares of one token, held or being bought, until a claim may have
\* been let go early: it outlives its order, a lone refusal, a tick that has read its rows
\* and a restart with nothing being bought.
OneLanePerToken ==
  ~early =>
    \A l, k \in Lanes :
      /\ position[l] > 0 \/ Out(Of(l, Buys)) # {}
      /\ position[k] > 0 \/ Out(Of(k, Buys)) # {}
      => l = k
=============================================================================

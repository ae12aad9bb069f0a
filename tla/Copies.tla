------------------------------- MODULE Copies -------------------------------
(* From his transactions to the lane's buys: the feeds, the two layers of    *)
(* dedupe, and the size of a copy.                                           *)
(*                                                                           *)
(* Several feeds bring the leader's transactions, in any order and more than *)
(* once.  SeenTx keeps the last few transactions and lets each in once;      *)
(* RaceBook numbers the fills a feed brings and takes each number once.  A   *)
(* fill that passes adds to what his order has filled, and the lane buys the *)
(* part of that it does not own yet.  One main loop does this, fill by fill; *)
(* answers, the bankroll task and the wallet task change what it read before *)
(* it acts on it.  The durable side of the guard is in SignalGuard, the      *)
(* lane's caps in Exposure, the orders in OrderPath.                         *)
EXTENDS Integers, Sequences, FiniteSets, FiniteSetsExt, SequencesExt, Match

CONSTANTS
  Sources,     \* the feeds
  HisOrders,   \* his orders
  HisSize,     \* shares of each
  MaxTx,       \* his transactions
  Fills,       \* the sizes of a fill
  MaxTimes,    \* how many equal fills one transaction may hold
  SeenCap,     \* SeenTx.cap
  Pct,         \* Sizing::Pct of the lane's configuration, in percent
  Explicit,    \* max_effective_pct of its configuration, in percent
  Seed,        \* seed_usd, in shares
  Realised,    \* what the lane may have won or lost, in shares
  Offers,      \* the policies the wallet file may hold: records
  Pads,        \* the values of d.price / limit, in percent
  MinFillFloor,   \* min_fill_floor
  MinOrder,    \* shares that min_order_usd buys
  Tolerance,   \* OVERCOPY_TOLERANCE, in percent
  Perils       \* what may go wrong: a subset of AllPerils

\* "again": a feed brings a transaction again that SeenTx let in from it, and forgot.
\* "cleared": RaceBook forgets its numbers between two fills of one transaction.
\* "aged": RaceBook forgets what it saw.
\* "reverted": a transaction that was pending never happens.
\* "renamed": the exchange sends the same fills under another hash.
AllPerils == {"again", "cleared", "aged", "reverted", "renamed"}

Txs == 1 .. MaxTx
Deliveries == Sources \X Txs

ASSUME CopiesAssumption ==
  /\ HisSize \in Nat /\ MaxTx \in Nat /\ MaxTimes \in Nat
  /\ SeenCap \in Nat \ {0} /\ Tolerance \in Nat
  /\ Fills \subseteq Nat \ {0} /\ MinOrder \in Nat \ {0} /\ Seed \in Nat \ {0}
  /\ Pct \in 1 .. 100 /\ Explicit \in 1 .. 100
  /\ Realised \subseteq Int /\ Pads \subseteq 1 .. 100
  /\ MinFillFloor \in BOOLEAN /\ Perils \subseteq AllPerils

VARIABLES
  txs,       \* the transactions he has sent: records, in order
  brought,   \* those SeenTx let in, and from which feed
  order,     \* SeenTx.order, the oldest first
  seen,      \* RaceBook.seen: fills, and the number each had
  nth,       \* RaceBook.per_source: the next number of a fill, by feed
  loop,      \* where the main loop is: a record, or Idle
  filled, copied, released,   \* the guard's slots
  out,       \* the buys out: his order -> the shares of each, in order
  scale,     \* LaneState.cap_scale, in percent
  policy,    \* LaneState.policy: a record
  halted,    \* the rate halt
  counted,   \* (history) how many fills of each transaction were taken
  peak,      \* (history) the largest share a clip was sized by, in percent
  raised     \* (history) a clip was raised to the venue's minimum

feeds == <<txs, brought>>
dedupe == <<order, seen, nth>>
guard == <<filled, copied, released>>
sizing == <<scale, policy>>
history == <<counted, peak, raised>>
copiesVars == <<feeds, dedupe, loop, guard, out, sizing, halted, history>>

\* his: the fill itself; left: the equal fills still to come; progress: what observe
\* returned; shares: what decide returned.
Idle == [stage |-> "idle", src |-> "none", tx |-> 0, left |-> 0, his |-> 0, mine |-> 0,
         shares |-> 0]
Stages == {"idle", "fills", "decide", "fire"}

Bounded(a, b) == IF a < b THEN a ELSE b
Monus(a, b) == IF a > b THEN a - b ELSE 0
Salt == txs[loop.tx].salt
Size == txs[loop.tx].n

\* budget::effective_ceiling: what the configuration names, if that is above the lane's
\* share, and else COMPOUND_HEADROOM times it.
CompoundHeadroom == 3
EffectiveCeiling(pct, explicit) == IF explicit > pct THEN explicit ELSE pct * CompoundHeadroom

CopiesInit ==
  /\ txs = <<>> /\ brought = {}
  /\ order = <<>> /\ seen = {} /\ nth = [d \in Deliveries |-> 0]
  /\ loop = Idle
  /\ filled = [s \in HisOrders |-> 0] /\ copied = [s \in HisOrders |-> 0]
  /\ released = [s \in HisOrders |-> 0]
  /\ out = [s \in HisOrders |-> <<>>]
  /\ scale = 100 /\ policy = [pct |-> Pct, ceiling |-> EffectiveCeiling(Pct, Explicit), seed |-> Seed]
  /\ halted = FALSE
  /\ counted = [t \in Txs |-> 0] /\ peak = 0 /\ raised = FALSE

-----------------------------------------------------------------------------
(* The leader and the feeds.                                                 *)

\* The calls that fill a buy of his, in fills of one size: n shares, so many times, by
\* what is read of them; and what he has got in all.
Alike(call) == Cardinality({d.fill : d \in DecodeAll(call, Him)}) = 1
TradeOf(call) ==
  LET fills == DecodeAll(call, Him) IN
  [n |-> (CHOOSE d \in fills : TRUE).fill.shares, times |-> Cardinality(fills),
   got |-> LET all == Settled(call, Him) IN
           SumFunctionOnSet([s \in all |-> s.fill.shares], all)]
Trades == {TradeOf(call) : call \in {c \in HisCalls("buy", HisSize) : Alike(c)}}

\* He gets by a trade what its fills are read to be.
Complete(trade) ==
  trade.n \in Nat \ {0} /\ trade.times \in Nat \ {0} /\ trade.got = trade.n * trade.times
TradesAreComplete == \A trade \in Trades : Complete(trade)

\* What his order has really filled.
Real(list, s) ==
  SumFunctionOnSet([t \in DOMAIN list |->
                      IF list[t].salt = s /\ list[t].real THEN list[t].got ELSE 0], DOMAIN list)

\* One that does not happen, or has happened under another hash, is not real.
MayPretend(tx) ==
  \/ "reverted" \in Perils
  \/ "renamed" \in Perils /\ \E t \in DOMAIN txs : txs[t] = [tx EXCEPT !.real = TRUE]

\* A transaction fills some of an order of his, perhaps in several equal fills.
HeTrades(s, trade, real) ==
  LET tx == [salt |-> s, n |-> trade.n, times |-> trade.times, got |-> trade.got,
             real |-> real] IN
  /\ Len(txs) < MaxTx /\ (real \/ MayPretend(tx))
  /\ Real(Append(txs, tx), s) <= HisSize
  /\ txs' = Append(txs, tx)
  /\ UNCHANGED <<brought, dedupe, loop, guard, out, sizing, halted, history>>

\* SeenTx::first_delivery_at pushes the oldest out of a full queue.
Remembered(list, t) ==
  Append(IF Len(list) >= SeenCap THEN Tail(list) ELSE list, t)

\* The main loop takes a transaction off the queue; one SeenTx knows changes nothing.
Deliver(src, t) ==
  /\ loop.stage = "idle" /\ t \in DOMAIN txs /\ ~Contains(order, t)
  /\ <<src, t>> \notin brought \/ ("again" \in Perils /\ nth[<<src, t>>] <= MaxTimes)
  /\ brought' = brought \cup {<<src, t>>}
  /\ order' = Remembered(order, t)
  /\ loop' = [Idle EXCEPT !.stage = "fills", !.src = src, !.tx = t, !.left = txs[t].times]
  /\ UNCHANGED <<txs, seen, nth, guard, out, sizing, halted, history>>

-----------------------------------------------------------------------------
(* The main loop, for a fill.                                                *)

\* Variant of Numbered that knows a fill by what it is, not by its number.
NumberedAlike(k) == 0
\* RaceBook::first_seen numbers equal fills by how many the feed brought before.
Numbered(k) == nth[k]

\* The guard's running total, clamped to the size of his order.
RunningTotal(s, n) == Bounded(filled[s] + n, HisSize)

\* The next fill: one that RaceBook has not seen is observed.
NextFill ==
  LET k == <<loop.src, loop.tx>>
      mark == <<loop.tx, Numbered(k)>>
  IN
  /\ loop.stage = "fills" /\ loop.left > 0
  /\ nth' = [nth EXCEPT ![k] = @ + 1]
  /\ IF mark \in seen
     THEN /\ loop' = [loop EXCEPT !.left = @ - 1]
          /\ UNCHANGED <<seen, filled, counted>>
     ELSE /\ seen' = seen \cup {mark}
          /\ filled' = [filled EXCEPT ![Salt] = RunningTotal(Salt, Size)]
          /\ counted' = [counted EXCEPT ![loop.tx] = @ + 1]
          /\ loop' = [loop EXCEPT !.stage = "decide", !.left = @ - 1,
                                  !.his = RunningTotal(Salt, Size),
                                  !.mine = Monus(copied[Salt], released[Salt])]
  /\ UNCHANGED <<feeds, order, copied, released, out, sizing, halted, peak, raised>>

LastFill ==
  /\ loop.stage = "fills" /\ loop.left = 0
  /\ loop' = Idle
  /\ UNCHANGED <<feeds, dedupe, guard, out, sizing, halted, history>>

\* budget::effective_pct: compounding scales the share, up to a ceiling.
EffectivePct == Bounded((policy.pct * scale) \div 100, policy.ceiling)

\* derive, with the default fractions: an order may take the whole seed.
MaxUsdPerFill(seed) == seed
CapFill == (MaxUsdPerFill(policy.seed) * scale) \div 100

\* Variant of Target that forgets what was copied.
TargetAnew(his, mine, pad) == (his * EffectivePct * pad) \div 10000
\* Sizing::Pct: the lane's part of all he has filled, less what it has copied.
Target(his, mine, pad) == Monus((his * EffectivePct * pad) \div 10000, mine)

\* The size of a clip: a clip below the venue's minimum is dropped, or raised to it if
\* it is the first of his order; one above the lane's limit is cut.
Raises(want, mine) == want < MinOrder /\ MinFillFloor /\ mine = 0
Sized(his, mine, pad) ==
  LET want == Target(his, mine, pad)
      clip == IF want >= MinOrder THEN want ELSE IF Raises(want, mine) THEN MinOrder ELSE 0
      cut == Bounded(clip, CapFill)
  IN IF cut >= MinOrder THEN cut ELSE 0

Resumed == [loop EXCEPT !.stage = "fills", !.his = 0, !.mine = 0, !.shares = 0]

Decide(pad) ==
  LET his == Bounded(loop.his, HisSize)
      n == Sized(his, loop.mine, pad)
  IN
  /\ loop.stage = "decide"
  /\ IF ~halted /\ n > 0
     THEN /\ loop' = [loop EXCEPT !.stage = "fire", !.shares = n]
          /\ peak' = IF EffectivePct > peak THEN EffectivePct ELSE peak
          /\ raised' = (raised \/ Raises(Target(his, loop.mine, pad), loop.mine))
     ELSE loop' = Resumed /\ UNCHANGED <<peak, raised>>
  /\ UNCHANGED <<feeds, dedupe, guard, out, sizing, halted, counted>>

\* Variant of Overcopied that measures by the fill at hand.
OvercopiedByFill == loop.mine * 10000 > Size * Pct * Tolerance
\* is_overcopy: by all he has filled, and the share of the lane's configuration.
Overcopied == loop.mine * 10000 > loop.his * Pct * Tolerance

\* The cash is not there, a cap is reached, or the order cannot be signed or recorded.
Pass ==
  /\ loop.stage \in {"decide", "fire"}
  /\ loop' = Resumed
  /\ UNCHANGED <<feeds, dedupe, guard, out, sizing, halted, history>>

\* Too many buys in a window, which may be so at any time, of more than his fills
\* justify halt the lane.
Fire(busy) ==
  /\ loop.stage = "fire"
  /\ IF busy /\ Overcopied
     THEN halted' = TRUE /\ UNCHANGED <<copied, out>>
     ELSE /\ copied' = [copied EXCEPT ![Salt] = @ + loop.shares]
          /\ out' = [out EXCEPT ![Salt] = Append(@, loop.shares)]
          /\ UNCHANGED halted
  /\ loop' = Resumed
  /\ UNCHANGED <<feeds, dedupe, filled, released, sizing, history>>

-----------------------------------------------------------------------------
(* What runs beside it.                                                      *)

\* The venue answers a buy, with none, some or all of it matched; the rest is given back.
Matched(n) == {0, n \div 2, n}
Answer(s, k, m) ==
  /\ out' = [out EXCEPT ![s] = RemoveAt(@, k)]
  /\ released' = [released EXCEPT ![s] = @ + (out[s][k] - m)]
  /\ UNCHANGED <<feeds, dedupe, loop, filled, copied, sizing, halted, history>>

\* What the lane's seed has become.
VirtualBankroll(realised) == IF policy.seed + realised > 0 THEN policy.seed + realised ELSE 0
BankrollScale(live) == (live * 100) \div policy.seed

\* The scale falls at once, and rises by a quarter at a time; at zero it stays.
Slew(new) == IF scale = 0 THEN 0 ELSE Bounded(new, (scale * 125) \div 100)

\* The bankroll task follows the lane's profit.
Rescale(realised) ==
  /\ scale' = Slew(BankrollScale(VirtualBankroll(realised)))
  /\ scale' # scale
  /\ UNCHANGED <<feeds, dedupe, loop, guard, out, policy, halted, history>>

\* SizingPolicy::build refuses a policy that no lane can follow.
Buildable(p) == p.seed > 0 /\ p.ceiling \in 1 .. 100 /\ p.pct \in 1 .. 100

ASSUME OffersAssumption ==
  \A p \in Offers : p.seed \in Int

\* The wallet task gives the lane the policy its file holds, if it differs: with the
\* ceiling as the file names it, not EffectiveCeiling.  The configuration stays.
Reprice(p) ==
  /\ p # policy /\ Buildable(p)
  /\ policy' = p
  /\ UNCHANGED <<feeds, dedupe, loop, guard, out, scale, halted, history>>

\* RaceBook evicts what is fifteen minutes old, and perhaps all numbers with it; no feed
\* is that late.
Evict(t) ==
  /\ loop.stage = "idle" \/ ("cleared" \in Perils /\ loop.stage = "fills" /\ loop.tx # t)
  /\ \E mark \in seen : mark[1] = t
  /\ seen' = {mark \in seen : mark[1] # t}
  /\ nth' \in {nth, [d \in Deliveries |-> 0]}
  /\ brought' = IF "aged" \in Perils THEN brought ELSE brought \cup (Sources \X {t})
  /\ UNCHANGED <<txs, order, loop, guard, out, sizing, halted, history>>

-----------------------------------------------------------------------------
Loop ==
  \/ \E d \in Deliveries : Deliver(d[1], d[2])
  \/ NextFill \/ LastFill \/ Pass \/ \E busy \in BOOLEAN : Fire(busy)
  \/ \E pad \in Pads : Decide(pad)
Beside ==
  \/ \E s \in HisOrders : \E k \in DOMAIN out[s] : \E m \in Matched(out[s][k]) : Answer(s, k, m)
  \/ \E gain \in Realised : Rescale(gain)
  \/ \E p \in Offers : Reprice(p)
  \/ \E t \in Txs : Evict(t)

CopiesNext ==
  \/ \E s \in HisOrders, trade \in Trades, real \in BOOLEAN :
       trade.n \in Fills /\ trade.times <= MaxTimes /\ HeTrades(s, trade, real)
  \/ Loop \/ Beside

CopiesSpec == CopiesInit /\ [][CopiesNext]_copiesVars

-----------------------------------------------------------------------------
(* Properties.                                                               *)

\* Every variable stays within its range.
CopiesTypeOK ==
  /\ Len(txs) <= MaxTx /\ brought \subseteq Deliveries
  /\ Len(order) <= SeenCap
  /\ loop.stage \in Stages
  /\ filled \in [HisOrders -> 0 .. HisSize]
  /\ scale \in Nat /\ Buildable(policy) /\ halted \in BOOLEAN

\* What is counted of a transaction is what he got by it, no more and in the end no
\* less, however many feeds bring it, in which order, and however much SeenTx has
\* forgotten.
FillsCountOnce ==
  \A t \in DOMAIN txs :
    LET shares == counted[t] * txs[t].n IN
    IF shares > 0 /\ loop.tx # t THEN shares = txs[t].got ELSE shares <= txs[t].got

\* However he trades, a call that is not mined yet is read as the exchange will settle it:
\* for a maker and for a taker, in all the ways orders are matched, whatever price the
\* taker signed; and nothing he gets by the calls tried here goes unread.
CallsAreReadRight == txs # <<>> => Misread = {} /\ TradesAreComplete

\* What the lane has bought of an order of his, or may still, is at most the share it was
\* ever told to copy of what he really filled, or the smallest order the venue takes: over
\* many clips, answers that come in between, and changes of the lane's scale and policy.
CopiesWithinShare ==
  \A s \in HisOrders :
    LET held == copied[s] - released[s] IN
    held > (Real(txs, s) * peak) \div 100 => raised /\ held <= MinOrder

\* The rate halt measures a lane by the share of its configuration.  It stops none that
\* copies the share it was told to, unless it was told to copy more than that and the
\* tolerance, by its gains or by the wallet file, or a clip was raised to the minimum.
RateHaltIsJust == halted => peak * 100 > Pct * Tolerance \/ raised
=============================================================================

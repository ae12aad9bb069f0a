-------------------------------- MODULE Match ---------------------------------
(* What a matchOrders call says that a wallet trades.                        *)
(*                                                                           *)
(* The exchange matches the order of a taker with one or more of makers: the *)
(* same token the other way round, or the other token of the market the same *)
(* way, by minting pairs or merging them.  A call is read before it is       *)
(* mined: calldata.rs computes from the signed orders and the fills alone    *)
(* what the exchange will have moved.                                        *)
EXTENDS Integers, Sequences, FiniteSets, Functions

Him == "him"
Nothing == {}
Other(token) == IF token = "yes" THEN "no" ELSE "yes"

\* An order gives at most its making for its taking: cash for shares, or shares for cash.
Order(who, side, token, making, taking) ==
  [who |-> who, side |-> side, token |-> token, making |-> making, taking |-> taking]

\* What an order takes for a part of its making.
TakingOf(o, n) == (n * o.taking) \div o.making

-----------------------------------------------------------------------------
(* The exchange.                                                             *)

\* By one maker's fill the exchange takes the fill, mints or merges what it must, and pays
\* the maker: what it then holds more, in the taker's token and in cash.
Paid(call, k) ==
  LET o == call.makers[k]
      n == call.fills[k]
      pay == TakingOf(o, n)
  IN IF o.side # call.taker.side
     THEN IF o.side = "sell" THEN [shares |-> n, cash |-> -pay] ELSE [shares |-> -pay, cash |-> n]
     ELSE IF o.side = "buy" THEN [shares |-> pay, cash |-> n - pay]
          ELSE [shares |-> -n, cash |-> n - pay]

\* What it holds when all makers are done: what the taker has put in, and all that.
PutIn(call) ==
  IF call.taker.side = "buy" THEN [shares |-> 0, cash |-> call.offered]
  ELSE [shares |-> call.offered, cash |-> 0]
Held(call) ==
  LET legs == DOMAIN call.makers IN
  [shares |-> PutIn(call).shares + SumFunctionOnSet([k \in legs |-> Paid(call, k).shares], legs),
   cash |-> PutIn(call).cash + SumFunctionOnSet([k \in legs |-> Paid(call, k).cash], legs)]

\* In the end the taker gets back what is left of what he gave, and all that was bought.
TakerGot(call) ==
  LET held == Held(call) IN
  IF call.taker.side = "buy"
  THEN [shares |-> held.shares, cash |-> call.offered - held.cash]
  ELSE [shares |-> call.offered - held.shares, cash |-> held.cash]
MakerGot(call, k) ==
  LET o == call.makers[k]
      n == call.fills[k]
  IN IF o.side = "buy" THEN [shares |-> TakingOf(o, n), cash |-> n]
     ELSE [shares |-> n, cash |-> TakingOf(o, n)]

\* What a call fills of an order.
FilledOf(call, o) ==
  SumFunctionOnSet(call.fills, {k \in DOMAIN call.makers : call.makers[k] = o})

\* It reverts if it would fill more of an order than there is, if it lacks what
\* it owes, or if the taker's price is not met: for what he gave where pairs are minted or
\* merged, for what was used of it where none are.
Mixed(call) == \E k \in DOMAIN call.makers : call.makers[k].side = call.taker.side
Accepts(call) ==
  LET got == TakerGot(call)
      buys == call.taker.side = "buy"
      gave == IF buys THEN got.cash ELSE got.shares
  IN /\ \A o \in Range(call.makers) : FilledOf(call, o) <= o.making
     /\ Held(call).shares >= 0 /\ Held(call).cash >= 0
     /\ (IF buys THEN got.shares ELSE got.cash)
          >= TakingOf(call.taker, IF Mixed(call) THEN call.offered ELSE gave)

-----------------------------------------------------------------------------
(* The reading.                                                              *)

\* A price is between nothing and one dollar.
Priced(cash, shares) == 0 < cash /\ cash < shares

\* shares_and_price: what a fill of an order is worth by the price it was signed at.
SharesAndCash(o, n) ==
  LET taking == TakingOf(o, n)
      fill == IF o.side = "buy" THEN [shares |-> taking, cash |-> n]
              ELSE [shares |-> n, cash |-> taking]
      signed == IF o.side = "buy" THEN Priced(o.making, o.taking)
                ELSE Priced(o.taking, o.making)
  IN IF signed /\ n <= o.making /\ fill.shares > 0 /\ fill.cash > 0 THEN {fill} ELSE Nothing

\* What the taker puts in and gets by one maker's fill.
LegUse(call, k) ==
  LET o == call.makers[k]
      n == call.fills[k]
      pay == TakingOf(o, n)
  IN IF o.side # call.taker.side THEN [making |-> pay, taking |-> n]
     ELSE IF o.side = "buy" THEN [making |-> pay - n, taking |-> pay]
          ELSE [making |-> n, taking |-> n - pay]

\* A leg that cannot be told is no leg.
Told(call, k) ==
  LET o == call.makers[k]
      use == LegUse(call, k)
  IN /\ call.fills[k] \in 1 .. o.making
     /\ (o.side # call.taker.side) = (o.token = call.taker.token)
     /\ use.making >= 0 /\ use.taking >= 0

\* Variant of TakerExecution that believes the price the taker signed.
TakerExecutionSigned(call) == SharesAndCash(call.taker, call.offered)
\* taker_execution: all legs together, if the exchange would not revert.
TakerExecution(call) ==
  LET legs == DOMAIN call.makers
      making == SumFunctionOnSet([k \in legs |-> LegUse(call, k).making], legs)
      taking == SumFunctionOnSet([k \in legs |-> LegUse(call, k).taking], legs)
      checked == IF Mixed(call) THEN call.offered ELSE making
  IN IF /\ \A k \in legs : Told(call, k)
        /\ making > 0 /\ taking > 0 /\ making <= call.offered
        /\ checked <= call.taker.making /\ taking >= TakingOf(call.taker, checked)
     THEN {IF call.taker.side = "buy" THEN [shares |-> taking, cash |-> making]
           ELSE [shares |-> making, cash |-> taking]}
     ELSE Nothing

\* decode_all: the fills of a wallet, a maker's by its place among the makers.
AsMaker(call, who) ==
  UNION {{[at |-> k, fill |-> f] : f \in SharesAndCash(call.makers[k], call.fills[k])} :
           k \in {k \in DOMAIN call.makers : call.makers[k].who = who}}
AsTaker(call, who) ==
  IF call.taker.who # who \/ SharesAndCash(call.taker, call.offered) = Nothing THEN Nothing
  ELSE {[at |-> 0, fill |-> f] : f \in {f \in TakerExecution(call) : Priced(f.cash, f.shares)}}
DecodeAll(call, who) == AsMaker(call, who) \cup AsTaker(call, who)

\* What the exchange moves for the wallet, told the same way.
Settled(call, who) ==
  {[at |-> k, fill |-> MakerGot(call, k)] : k \in {k \in DOMAIN call.makers : call.makers[k].who = who}}
  \cup (IF call.taker.who = who THEN {[at |-> 0, fill |-> TakerGot(call)]} ELSE {})

-----------------------------------------------------------------------------
(* Calls to try: one or two makers, at a few prices.                         *)

Prices == {<<1, 2>>, <<2, 3>>, <<6, 12>>, <<9, 12>>}
Signed(who, side, token) ==
  {IF side = "buy" THEN Order(who, side, token, p[1], p[2])
   ELSE Order(who, side, token, p[2], p[1]) : p \in Prices}

Makers(who, taker) ==
  UNION {Signed(who, side, IF side = taker.side THEN Other(taker.token) ELSE taker.token) :
           side \in {"buy", "sell"}}
Call(taker, offered, makers, fills) ==
  [taker |-> taker, offered |-> offered, makers |-> makers, fills |-> fills]

\* One maker, or the same twice, or another beside it.
Lists(who, taker) ==
  LET beside == {Order("them", "sell", "yes", 4, 2), Order("them", "buy", "no", 2, 4)}
      fit == {o \in beside : (o.side # taker.side) = (o.token = taker.token)}
  IN {<<o>> : o \in Makers(who, taker)} \cup {<<o, o>> : o \in Makers(who, taker)}
     \cup {<<o, p>> : o \in Makers(who, taker), p \in fit}
Tried(taking, making) ==
  UNION {UNION {{Call(t, n, makers, [k \in DOMAIN makers |-> f]) :
                   n \in 1 .. t.making, f \in 1 .. 9, makers \in Lists(making, t)} : t \in Signed(taking, side, "yes")} :
         side \in {"buy", "sell"}}
Calls == {call \in Tried(Him, "them") \cup Tried("them", Him) : Accepts(call)}
HisCalls(side, n) ==
  {call \in Calls : LET his == {call.taker} \cup Range(call.makers) IN
                   \E o \in his : o.who = Him /\ o.side = side /\ n \in {o.making, o.taking}}

\* A call is read as it is settled, down to fills too small to have a price.
ReadAsSettled(call) ==
  DecodeAll(call, Him) =
    {s \in Settled(call, Him) :
       s.fill.shares > 0 /\ s.fill.cash > 0 /\ (s.at = 0 => s.fill.cash < s.fill.shares)}
Misread == {call \in Calls : ~ReadAsSettled(call)}
=============================================================================

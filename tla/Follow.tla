------------------------------- MODULE Follow -------------------------------
(* Following the leader out of a position, in one token of one lane.         *)
(*                                                                           *)
(* The lane keeps a model of the leader's book and sells, of what it holds,  *)
(* the fraction he sells of his.  The model lives twice, with the control    *)
(* task and on the lane; it moves with his fills, is corrected by a slow     *)
(* read of his book, and is seeded anew by a restart.  What he held before   *)
(* the lane followed him is "legacy": his sales come out of it first and     *)
(* move nothing.  A refused sell is tried again by a rescue, and what is     *)
(* left when he is out is sold by the orphan sweep.  Orders and their rows   *)
(* are in OrderPath, the counters in Exposure; here an order's row is open    *)
(* from its decision on, and a share is the venue's smallest lot.            *)
EXTENDS Integers, FiniteSets, FiniteSetsExt, Functions

CONSTANTS
  MaxHis,      \* the most he holds
  MaxTrades,   \* his trades
  SellAll,     \* sell_all_frac, in percent
  MinShares    \* orphan::MIN_SHARES, and reanchor::MIN_SHARES

ASSUME FollowAssumption ==
  /\ MaxHis \in Nat \ {0} /\ MaxTrades \in Nat
  /\ SellAll \in 0 .. 100 /\ MinShares \in Nat

VARIABLES
  pend,    \* his trade that no feed has brought yet: a record, or NoTrade
  made,    \* how many trades he has made
  his,     \* what he holds, that trade aside
  old,     \* how much of it he held before the lane followed him
  cHis, cLeg,    \* Control.his_pos, Control.legacy
  lHis, lLeg,    \* Lane.his_pos, Lane.legacy
  chain,   \* what the wallet holds
  ours,    \* the ledger's holding
  lOurs, lRes,   \* Lane.holdings, Lane.sell_reservations
  order,   \* the lane's order for each trade of his, and the sweep's
  found,   \* the orphan sweep's reading, or 0
  anchor,  \* the read of his book the re-anchor works on, or NoRead
  seen,    \* (history) a tick has run since a rescue or a sweep last sold
  owed,    \* (history) the shares of ours his sales ask for, not sold yet
  strayed  \* (history) how far the lane has been led astray: in Strays

leader == <<pend, made, his, old>>
view == <<cHis, cLeg, lHis, lLeg>>
lane == <<lOurs, lRes>>
stock == <<chain, ours, lane>>
history == <<seen, owed, strayed>>
followVars == <<leader, view, stock, order, found, anchor, history>>

\* What leads the lane to sell another share than his.  "comeback": before an exit was worked
\* off, he was back in, or sold another part.  "legacy": the sweep looked between a sale of
\* his and the next tick.  "reseed": a restart with a buy out, or with legacy in a token the
\* lane holds.  "early": a sell was booked before the buys whose shares it sold; the ledger
\* forgets the rest, and the buys are then of shares it does not have.
\* What loses it the sight of his book as well.  "lag": a read of his book was written that
\* was older, or newer, than the fills handled.  "missed": a fill reached no feed and was a
\* sale, or the lane had something at stake, or he traded on before the re-anchor mended it.
Strays == {"no", "sells", "blind"}
Stray(sells, blind) ==
  strayed' = IF blind THEN "blind" ELSE IF sells /\ strayed = "no" THEN "sells" ELSE strayed

NoTrade == [buy |-> FALSE, n |-> 0]
NoRead == -1
Sweep == 0
Slots == 0 .. MaxTrades

\* out: sent; trying: sent by a rescue; waiting: a rescue between two tries, with no
\* row; matched: at the venue, not yet in the ledger.
OrderStages == {"none", "out", "trying", "waiting", "matched"}
\* n: what this try asks for; meant: what the first did; got: what matched.
NoOrder == [stage |-> "none", buy |-> FALSE, n |-> 0, meant |-> 0, got |-> 0]
Out(buy, n) == [stage |-> "out", buy |-> buy, n |-> n, meant |-> n, got |-> 0]
Stage(k) == order[k].stage
Moved(k, stage) == order' = [order EXCEPT ![k] = [@ EXCEPT !.stage = stage]]

Lesser(a, b) == IF a < b THEN a ELSE b
Monus(a, b) == IF a > b THEN a - b ELSE 0
Rows == {k \in Slots : Stage(k) \in {"out", "trying", "matched"}}
BuyOut == \E k \in Rows : order[k].buy
Rescuing == \E k \in Slots : Stage(k) \in {"trying", "waiting"}
\* Of each slot, what an open row reserves.
Reserving == [k \in Slots |-> IF k \in Rows /\ ~order[k].buy THEN order[k].n ELSE 0]
Committed == SumFunctionOnSet(Reserving, Slots)

\* He holds nothing the lane could have copied.
HeIsOut == his = old

FollowInit ==
  /\ pend = NoTrade /\ made = 0
  /\ \E h \in 0 .. MaxHis \div 2 :
       his = h /\ old = h /\ cHis = h /\ cLeg = h /\ lHis = h /\ lLeg = h
  /\ chain = 0 /\ ours = 0 /\ lOurs = 0 /\ lRes = 0
  /\ order = [k \in Slots |-> NoOrder]
  /\ found = 0 /\ anchor = NoRead /\ seen = TRUE /\ owed = 0 /\ strayed = "no"

-----------------------------------------------------------------------------
(* What a sale of his is worth.                                              *)

\* The fraction he sold of what was copied, of what the lane can sell: his legacy goes
\* first, nearly everything is everything, and less than a lot is nothing.
Wanted(mine, n, before, legacy) ==
  LET matched == Monus(before, legacy)
      sold == Monus(n, legacy)
  IN IF before # 0 /\ sold = 0 THEN 0
     ELSE IF before = 0 \/ sold * 100 >= SellAll * matched THEN mine
     ELSE (mine * sold) \div matched

\* (History) What that sale really asks for, rounded up, of what no earlier one does.
Asked(n) ==
  LET matched == his - old
      sold == Monus(n, old)
      base == Monus(chain, owed)
  IN IF sold = 0 THEN 0
     ELSE IF sold * 100 >= SellAll * matched THEN base
     ELSE (base * sold + matched - 1) \div matched

-----------------------------------------------------------------------------
(* The leader and the main loop.                                             *)

He(buy, n) ==
  /\ pend = NoTrade /\ made < MaxTrades
  /\ IF buy THEN his + n <= MaxHis ELSE n <= his
  /\ pend' = [buy |-> buy, n |-> n] /\ made' = made + 1
  /\ UNCHANGED <<his, old, view, stock, order, found, anchor, history>>

\* What his sales asked for is sold, or given up, and the lane knows.
WorkedOff == seen /\ ~Rescuing /\ found = 0
ComesBack == ~WorkedOff /\ IF pend.buy THEN HeIsOut ELSE ~HeIsOut'

\* Where his trade leaves him, and what it asks of the lane.
Moves ==
  /\ pend # NoTrade
  /\ IF pend.buy
     THEN his' = his + pend.n /\ UNCHANGED <<old, owed>>
     ELSE /\ his' = his - pend.n /\ old' = Monus(old, pend.n)
          /\ owed' = owed + Asked(pend.n)
  /\ pend' = NoTrade

\* observe_his_fill: his sales come out of the legacy too.
ObserveHisFill(buy, n) ==
  /\ cHis' = IF buy THEN cHis + n ELSE Monus(cHis, n)
  /\ cLeg' = IF buy THEN cLeg ELSE Monus(cLeg, n)

\* The lane is told at once what he holds now (set_his); its legacy waits for the tick.
Observe(buy, n) ==
  /\ ObserveHisFill(buy, n) /\ lHis' = cHis' /\ UNCHANGED lLeg
  /\ Stray(ComesBack, cHis # his)

\* A buy of his is copied, or not (a limit, no cash, a guard).
HandleBuy ==
  /\ pend.buy /\ Moves /\ Observe(TRUE, pend.n)
  /\ \E n \in {0, pend.n} :
       order' = [order EXCEPT ![made] = IF n > 0 THEN Out(TRUE, n) ELSE @]
  /\ UNCHANGED <<made, stock, found, anchor, seen>>

\* A sale of his is followed, by what the lane knew before it: at most what it holds and
\* has not reserved.
HandleSell ==
  /\ ~pend.buy
  /\ LET n == Wanted(Monus(lOurs, lRes), pend.n, lHis, lLeg) IN
       /\ order' = [order EXCEPT ![made] = IF n > 0 THEN Out(FALSE, n) ELSE @]
       /\ lRes' = lRes + n
  /\ Moves /\ Observe(FALSE, pend.n)
  /\ UNCHANGED <<made, chain, ours, lOurs, found, anchor, seen>>

\* No feed brings it: the model is wrong until the re-anchor mends it.
Miss ==
  /\ Moves
  /\ Stray(ComesBack, ~(pend.buy /\ ours = 0 /\ ~BuyOut))
  /\ UNCHANGED <<made, view, stock, order, found, anchor, seen>>

-----------------------------------------------------------------------------
(* The lane's orders.                                                        *)

Closed(k) == order' = [order EXCEPT ![k] = NoOrder]

\* The venue gives it some of what it asks for, and is done with it.
Matches(k, m) ==
  /\ Stage(k) \in {"out", "trying"} /\ m <= order[k].n
  /\ IF order[k].buy
     THEN chain' = chain + m /\ owed' = IF HeIsOut THEN owed + m ELSE owed
     ELSE m <= chain /\ chain' = chain - m /\ owed' = owed - m
  /\ order' = [order EXCEPT ![k] = [@ EXCEPT !.stage = "matched", !.got = m]]
  /\ UNCHANGED <<leader, view, ours, lane, found, anchor, seen, strayed>>

\* Ledger::apply: a sell takes no more than is held, and the excess is ignored.
LeftOf(n) == Monus(ours, n)

\* It is booked, by its sender, its rescue or the resolver.
Books(k) ==
  /\ Stage(k) = "matched"
  /\ ours' = IF order[k].buy THEN ours + order[k].got ELSE LeftOf(order[k].got)
  /\ Stray(~order[k].buy /\ order[k].got > ours, FALSE)
  /\ Closed(k)
  /\ UNCHANGED <<leader, view, chain, lane, found, anchor, seen, owed>>

\* classify: any other refusal than these ends a rescue.
Failures == {"NoMatch", "NotEnoughBalance", "Transient", "Stable"}

\* Variant of RetrySizes that sells what the wallet holds.
RetryWhole(why, meant, n) == IF why = "NotEnoughBalance" THEN {chain} ELSE {meant}

\* retry_size: as much as the first try, which was never more than the lane held; or what
\* the venue says, or last said, that the wallet holds, if that is less.
RetrySizes(why, meant, n) ==
  IF why = "Transient" THEN {meant} ELSE {meant, Lesser(meant, n), Lesser(meant, chain)}

\* Outcome::Rejected: the row is closed.  A mirrored sell goes to its rescue.
Refuses(k, why) ==
  /\ Stage(k) \in {"out", "trying"}
  /\ IF ~order[k].buy /\ k # Sweep /\ why # "Stable"
     THEN \E n \in RetrySizes(why, order[k].meant, order[k].n) :
            order' = [order EXCEPT ![k] = [@ EXCEPT !.stage = "waiting", !.n = n]]
     ELSE Closed(k)
  /\ UNCHANGED <<leader, view, stock, found, anchor, history>>

\* rescue_exit tries again, as a new order.
Retry(k) ==
  /\ Stage(k) = "waiting" /\ order[k].n > 0
  /\ Moved(k, "trying")
  /\ seen' = FALSE
  /\ UNCHANGED <<leader, view, stock, found, anchor, owed, strayed>>

\* It gives up: its tries or its time are over, nothing is left, or its row cannot be
\* written.
GivesUp(k) ==
  /\ Stage(k) = "waiting"
  /\ Closed(k)
  /\ UNCHANGED <<leader, view, stock, found, anchor, history>>

\* No answer came, and the resolver finds that it was not filled.
NotFilled(k) ==
  /\ Stage(k) \in {"out", "trying"}
  /\ Closed(k)
  /\ UNCHANGED <<leader, view, stock, found, anchor, history>>

\* Variant of Reserves that keeps what the hot path has reserved.
ReservesAtLeast == IF lRes > Committed THEN lRes ELSE Committed

\* What set_sell_reservations is given: what the open rows reserve.
Reserves == Committed

\* tick_with: what the lane holds, what is reserved, and his book.
Tick ==
  /\ lOurs' = ours /\ lRes' = Reserves
  /\ lHis' = cHis /\ lLeg' = cLeg
  /\ seen' = (seen \/ Committed = 0)
  /\ UNCHANGED <<leader, cHis, cLeg, chain, ours, order, found, anchor, owed, strayed>>

-----------------------------------------------------------------------------
(* The orphan sweep.                                                         *)

\* Holding::he_is_out.
HeLeft(h, legacy) == Monus(h, legacy) = 0

\* orphan::plan over the ledger's holding and the lane's view.
SweepReads ==
  LET n == Monus(ours, lRes) IN
  /\ found = 0 /\ Stage(Sweep) = "none"
  /\ ours > 0 /\ n >= MinShares /\ HeLeft(lHis, lLeg)
  /\ found' = n
  /\ Stray(lLeg # cLeg, FALSE)
  /\ UNCHANGED <<leader, view, stock, order, anchor, seen, owed>>

\* The wallet's positions are read before it sells; nothing else is asked again.
SweepSends ==
  /\ found > 0
  /\ found' = 0
  /\ order' = [order EXCEPT ![Sweep] = Out(FALSE, found)]
  /\ seen' = FALSE
  /\ UNCHANGED <<leader, view, stock, anchor, owed, strayed>>

\* The read is not complete, or the order's row cannot be written.
SweepSkips ==
  /\ found > 0
  /\ found' = 0
  /\ UNCHANGED <<leader, view, stock, order, anchor, history>>

-----------------------------------------------------------------------------
(* The re-anchor, and the seed.                                              *)

\* His book as the venue shows it: with a trade no feed has brought.
Shown == IF pend = NoTrade THEN his ELSE IF pend.buy THEN his + pend.n ELSE his - pend.n

AnchorReads ==
  /\ anchor = NoRead
  /\ anchor' = Shown
  /\ UNCHANGED <<leader, view, stock, order, found, history>>

\* reanchor::decide, given what the venue shows of him: raised freely; lowered only
\* where the lane holds nothing; and nothing follows from an incomplete read.
Anchored(v, complete) ==
  IF complete /\ (ours = 0 \/ (v > cHis /\ v > MinShares))
  THEN v ELSE cHis

\* reanchor::plan: what is to be written, if anything moves.
Planned(v, complete) == {Anchored(v, complete)} \ {cHis}

AnchorWrites(complete) ==
  /\ anchor # NoRead
  /\ anchor' = NoRead
  /\ IF Planned(anchor, complete) = {}
     THEN UNCHANGED <<cHis, lHis>>
     ELSE cHis' \in Planned(anchor, complete) /\ lHis' = cHis'
  /\ Stray(FALSE, cHis' \notin {cHis, his})
  /\ UNCHANGED <<leader, cLeg, lLeg, stock, order, found, seen, owed>>

\* seed_his_book: all he holds is legacy, unless the lane holds some too.
SeedHisBook(shown) == cHis' = shown /\ cLeg' = IF ours > 0 THEN 0 ELSE shown

\* The engine starts again, and gives the lane what it has seeded.  What was in memory is
\* gone, what he traded meanwhile is in the read; rows are raised again, and by then the
\* venue is done with their orders.
Restarts ==
  /\ pend = NoTrade
  /\ \A k \in Slots : Stage(k) \notin {"out", "trying"}
  /\ \E k \in Slots : Stage(k) # "none"
  /\ SeedHisBook(his) /\ lHis' = cHis' /\ lLeg' = cLeg'
  /\ old' = IF ours > 0 \/ BuyOut THEN old ELSE his
  /\ order' = [k \in Slots |-> IF k \in Rows THEN order[k] ELSE NoOrder]
  /\ lOurs' = ours /\ lRes' = Committed
  /\ found' = 0 /\ anchor' = NoRead
  /\ Stray(BuyOut \/ (ours > 0 /\ old > 0), FALSE)
  /\ UNCHANGED <<pend, made, his, chain, ours, seen, owed>>

-----------------------------------------------------------------------------
Feed == HandleBuy \/ HandleSell \/ Miss
Answer(k) ==
  \/ \E m \in 1 .. MaxHis : Matches(k, m)
  \/ \E why \in Failures : Refuses(k, why)
  \/ Books(k) \/ NotFilled(k) \/ Retry(k) \/ GivesUp(k)
SweepActs == SweepReads \/ SweepSends \/ SweepSkips
AnchorActs == AnchorReads \/ \E c \in BOOLEAN : AnchorWrites(c)

FollowNext ==
  \/ \E buy \in BOOLEAN, n \in 1 .. MaxHis : He(buy, n)
  \/ Feed \/ Tick \/ SweepActs \/ AnchorActs \/ Restarts
  \/ \E k \in Slots : Answer(k)

FollowSpec == FollowInit /\ [][FollowNext]_followVars

\* The tasks run; every order is settled in the end; a rescue has sixty tries and a minute;
\* and a sweep, made again and again, is in the end sent and finds a buyer.
Fairness ==
  /\ WF_followVars(HandleBuy \/ HandleSell) /\ WF_followVars(Tick)
  /\ SF_followVars(SweepReads) /\ SF_followVars(SweepSends)
  /\ SF_followVars(\E m \in 1 .. MaxHis : Matches(Sweep, m))
  /\ \A k \in Slots : WF_followVars(NotFilled(k) \/ Books(k))
  /\ \A k \in Slots \ {Sweep} : SF_followVars(GivesUp(k))

FollowFairSpec == FollowSpec /\ Fairness

-----------------------------------------------------------------------------
(* Properties.                                                               *)

\* Every variable stays within its range.
FollowTypeOK ==
  /\ pend \in [buy : BOOLEAN, n : 0 .. MaxHis] /\ made \in 0 .. MaxTrades
  /\ his \in 0 .. MaxHis /\ old \in 0 .. MaxHis
  /\ cHis \in Nat /\ lHis \in Nat /\ cLeg \in Nat /\ lLeg \in Nat
  /\ chain \in Nat /\ ours \in Nat /\ lOurs \in Nat /\ lRes \in Nat
  /\ order \in [Slots -> [stage : OrderStages, buy : BOOLEAN, n : Nat, meant : Nat,
                        got : Nat]]
  /\ found \in Nat /\ anchor \in {NoRead} \cup 0 .. MaxHis /\ owed \in Int /\ seen \in BOOLEAN
  /\ strayed \in Strays

\* Until something has led it astray, the lane never sells what he still holds: all it has
\* sold, by mirrored sells, their rescues and the sweep together, stays within the fraction
\* he has sold, his legacy aside, at the time he sold it.
SellsFollowHim == strayed = "no" => owed >= 0

\* Once he is out and stays out, the lane is out: whatever was refused, left without an
\* answer, given up or bought too late is swept, unless a fill of his was missed or his book
\* was read out of step with his fills.
OutWhenHeIsOut ==
  (his = 0 /\ pend = NoTrade) ~>
    (chain < MinShares \/ his > 0 \/ pend # NoTrade \/ strayed = "blind")
=============================================================================

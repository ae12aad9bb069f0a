# Verification of the copybot engine

The engine (`src/hot`) copies the fills of a leader ("he") on a prediction
market: it sees his fills in the mempool, decides what to copy, signs and posts
orders, and books what the venue matched.  Real money hangs on a few promises:
a fill is booked once and never forgotten, no more of his order is bought than
he bought, a lane never holds both sides of a market, no share is sold twice,
no cap is passed, a stop holds and a redemption is credited once, whatever
crashes, times out or is delivered again.  This directory states those promises
in TLA+, checks them with TLC on small instances, and proves all the safety ones
for all instances with TLAPS.

1. Inventory
2. Modules, and how they correspond to the code
3. Runs, bounds, fairness
4. Assumptions about the environment
5. Proofs
6. What the runs found
7. What is not modelled
8. Plan

## 1. Inventory

One process (`src/hot/src/main.rs`) runs about thirty tokio tasks.  They share a
`Router` with its `Lane`s (atomics and small locks), one `Control` behind a
mutex (which owns the `Ledger`), the `PendingLog`, the `SignalGuard`, the `Wal`,
the `RestingBook` and the `Incidents`.  Python observers (`src/deploy`) read the
same files and the engine's HTTP API.

| Component | State | Operations | What must hold, and what makes it hard | Module |
| --- | --- | --- | --- | --- |
| Order path (`main.rs`, `pending.rs`, `wal.rs`, `ledger.rs`) | `PendingLog.open`, `pending.jsonl`, `wal.jsonl`, the ledger's booked hashes, the guard's counts | WAL barrier, `submit_tracked`, `book_and_resolve`, `resolve_pending`, `settle_cancelled_rest`, boot replay and recycling | A fill is booked once, never forgotten, and what a venue may still fill is never given back. The submitter, the resolver, settlement and boot all act on one row, with awaits between reading and writing. | `OrderPath`, `ExactlyOnce` |
| Signal guard (`signal_guard.rs`) | slots per leader order, market entries per lane, its file, its rows in the log | `observe`, `check`, `commit_with`, `release`, `expire`, replay | No over-copy, one side per market per day, a restart forgets nothing. Two files written by different operations, torn appends, time-to-live, late releases. | `SignalGuard` |
| Path race (`race_send.rs`) | results so far | `race_submit`, `resolve` | A refusal is only reported when there was one; returning early changes nothing. Copies and answers lost, late or garbled. | `RaceSend` |
| Lane counters, caps, router (`lanes.rs`, `control.rs`, `laneid.rs`) | `open_usd`, `spent_today`, `holdings`, `sell_reservations`, token to lane claims | `decide`, `tick_with`, `book_response`, `claim`, `release_by_name`, `claim_existing` | No share offered twice, caps kept, a token bought by one lane. The hot path raises counters that the control task overwrites twice a second. | `Exposure` |
| Ledger, positions (`ledger.rs`, `positions.rs`, `settlement.rs`) | per-lane books, booked hashes, `ledger.jsonl` | fills, settlements, merges, reconciliation, replay | Journal and books agree, replay is idempotent, nothing is written off that is there. | `Custody` |
| Resolution and redemption (`resolution.rs`, `redemption.rs`) | a state per market, payout claims | observe resolution, read a proof, check it again, credit | A claim is credited once, from a receipt that proves it. | `Custody`, `Receipt` |
| Resting book (`resting.rs`, `restwatch.rs`, `orphan.rs`) | rests by order id, the set being settled | add, adopt, prune, cancel, settle | A rest is settled once, a listing that is empty or stale prunes nothing, a forgotten rest is found. | `Rests`, `Watch` |
| Incidents and latches (`incidents.rs`) | open incidents per lane, a journal | raise, clear, re-latch at boot | A latch survives a restart, clearing one incident does not clear another. | `Plane` |
| Control plane (`control.rs`, HTTP routes, `wallets.rs`, `flatten.rs`, `guardwatch.rs`) | operator file, armed and halted flags, wallet pool, flatten box, heartbeat | arm, flatten, clear, add, retire, resume | Armed only on intent, a stop holds, who is out stays out. | `Plane` |
| Budget and risk (`budget.rs`, `risk.rs`, `capped.rs`, `firerate.rs`) | windows and percentages | effective percentage, caps, loss limits | A lane copies its share and no more, a just copy trips no halt. | `Copies`, `Plane` |
| Merge, split, pairs (`merge*.rs`, `split.rs`, `pairledger.rs`) | claims, chain transactions, pair books | claim, send, verify, book | A full set is merged once and booked once, across crashes. | `PairExit` |
| Feeds (`feeds.rs`, `race.rs`, `calldata.rs`, `book.rs`) | the last transactions, fills seen, levels and prints of several sockets | dedupe, decode, classify | A fill counts once; an order taken back is told from one that traded. | `Copies`, `Match`, `Watch` |
| His position and our exits (`reanchor.rs`, `exit_rescue.rs`, `sweep.rs`, `orphan.rs`) | the model of his book, twice; attempts per token | mirror a sale, rescue a refused sell, sweep leftovers, re-anchor | The lane sells the share he sold, and is out once he is. | `Follow`, `PairExit` |
| Chain and keys (`txsend.rs`, `txpool.rs`, `order.rs`, `digest.rs`, `auth.rs`, ...) | nonces | encode, sign, send | Encoding and cryptography. | (sending: `PairExit`) |
| Reporting and observers (`latency.rs`, `errors.rs`, `src/deploy/*.py`) | counters, alert state | report, alert | Change nothing the engine decides by. | |

How they meet: a feed brings a fill to the hot path (one consumer task), which
runs `observe`, `check`, `decide`, then the WAL barrier (guard commitment and
pending row in one append), and spawns a submitter per order.  The submitter
posts over several paths (path race), books, closes the row and releases what
did not fill.  The control task copies operator file, ledger and journal into
the lanes' flags and counters.  The resolver looks up rows the submitter left
open.  Other tasks reconcile the resting book and the wallet with what the
venue and the chain say, merge pairs, sweep leftovers and credit redemptions.

The hazards that follow from this, each at its line and with the properties that
would catch it, are the `hazards` of `PROJECT.json`.

## 2. Modules

The `map` of `PROJECT.json` gives the lines behind every definition.  Each
`.await` of the code and each lock dropped between two records is a boundary
between two actions.  What may go wrong is handled in one of three ways:

- it simply happens, and the property holds all the same;
- it happens, and a history variable names that it has; the property says what
  holds until then, or for all but what it names (`OrderPath`, `Exposure`, `PairExit`,
  `Follow`, and `unsaid` in `Watch`);
- it is a peril of the environment, let in by a constant: `Perils` in `Custody`,
  `Plane`, `Rests` and `Copies`, `FeedPerils` in `Watch`, four flags in `OrderPath`.
  Each is described where it is declared, and section 4 says what it breaks.

An operator with "Variant of" in its comment is a deliberately wrong form of its
neighbour; the properties are tested against those (`mutants`).

### `OrderPath`: the life of an order across its four records

State: the venue's side of each order (`venue`, `filled`, the POST in `net`, the
answer in `reply`); the engine's memory (`phase` of each submitter task, `open`
= `PendingLog.open`, the resolver's list `due` and the verdict it holds
`probe`, the resting book `rest`, a settlement's verdict `settle`, the sticky
`last_write_error` as `fault`, the books `ledger` and `held`, the guard's counts
`copied` and `released`); and what a replay of each file would make of it: `fpend`,
`fres` for the pending and resolved rows of `pending.jsonl`, `wpend` for the pending
rows of `wal.jsonl`, `lfile` and `lheld` for `ledger.jsonl`, `gcopied` and `greleased`
for the guard's rows.  `ftail`, `wtail`, `ltail` say how a file ends, `lbad` and
`gbad` that it holds a line that does not parse.  `halted` is the set of lanes
whose buys are latched.  Every order belongs to a lane.

| Code | Actions |
| --- | --- |
| WAL barrier of the hot path | `CommitBuy`, `CommitBuyFails` |
| `submit_tracked` | `RecordSell`, `Post`, `AnswerRejected` |
| outcomes of the submitter task | `AnswerMatched`, `AnswerResting`, `AnswerLost` (duplicate, ambiguous, no response) |
| `book_and_resolve` | `BookAnswer`, `ResolveAnswer` |
| release after a partial fill or a refusal | `ReleaseUnfilled` |
| `resolve_pending` | `ListDue`, `Probe`, `ApplyFilled`, `ApplyVerdict` |
| open-orders reconcile, `settle_cancelled_rest` | `Adopt`, `SettleStart`, `SettleApply` |
| `open_with_wal`, `absorb_wal`, `WalRecovery::finish` | `Absorb`, `Recycle` |
| the control tick's persistence check | `Tick` |
| venue and network (external) | `Deliver`, `Drop`, `VenueFill`, `VenueClose` |

The files are written unbuffered, a row in several calls.  An append that fails
leaves nothing, or a fragment of its row, or all of it when only the sync failed
(`RowFails`, `BookFails`, `CommitRowsFail`, `Release`); a crash may leave a fragment
too (`Torn`).  The next row is glued to a fragment and no replay reads either
(`Lands`, `FillRow`); the guard's part of the log is read no further than such a line
(`wtail` "cut"), and a guard file with one is refused by boot.  The engine learns of
a failure as the code does: a failed ledger append or `resolve_booked` latches the
buys of every lane, a failed `resolve` latches nothing, a failed release keeps the
commitment, a failed barrier latches its own lane and the others go on.  A restart
replaces memory by what the files say.

Histories name what the files then get wrong: `fspoiled`, orders whose journal rows
are not what the engine wrote; `spoiled`, the same of the ledger's file; `forgot`,
leader orders of which a restart lost a commitment; `hasty`, orders the resolver
judged while their POST was out; `last`, the last row the engine takes to be there.

`StatusOf` and `TradesOf` are what `parse_order_status_kind` and `parse_trades` make
of the venue's true state; the resolver may get either, or no answer.  One row stands
for one order hash; prices, fees and bodies are abstracted to the verdict they
lead to.  A row that is complete but for its newline counts as a fragment, although
it is read as long as nothing follows it.

### `ExactlyOnce`: what the order path promises

The venue matches shares of an order, the ledger books the order at most once,
for shares the venue really matched.  Of an order whose rows on disk are not what the
ledger takes them to be (`Spoil`), and of no other, a replay may change the booking
(`Reread`).  `OrderPath` implements it with `truth <- filled` and `booked <- ledger`.

### `SignalGuard`: the table of what was copied

`orders` and `markets` are the maps of `State`; `file` and `wal` are the rows a
replay can read, `walTail` says whether the log ends in a fragment (`torn`) or
holds a bad line a replay stops at (`cut`), `fileBad` that the guard's own file
holds a line boot refuses.  `Observe`, `Commit` and `CommitFails` are the hot
path's `observe`, `check`, `decide` and `commit_with` for one of his fills;
`Release` is `release` after a venue kill; `Boot` is `open_absorbing`: counts by
maximum, markets to the latest row that had copied something.  A legacy row (no
lane, no token) is in the file from the start when `Legacy` names it.  `sent`
and `bought` are history: the commitments orders were sent under, and the
shares not killed since.

### `RaceSend`: one order over several paths

Per path: the copy under way, the answer, and what `race_submit` collected.
`Handled` is the venue (external): it takes an order once, answers a second copy
with a duplicate error, may refuse a copy, and the edge in front of it may
refuse a copy at any time.  An answer may be replaced by a 5xx, lose its body, or
come after the path's timeout.  `Resolved` classifies the set of results in the
order of the code: match, rest, duplicate, silence, refusal.

### `Exposure`: the counters the hot path decides by

Several lanes in one token.  `DecideBuy` and `DecideSell` are the cap, the budget of
the day, the owner test and the reservation of `Router::decide`; `Abandon` is an
order dropped before its row, whose reservation nobody takes back, and `Record` the
row; `Trade` is the venue; `Book`, `Close`, `Refuse` and `LetGo` are the booking and
the two ways an order ends; `TickReads` and `TickWrites` are the two halves of a
control tick, which reads the journal, drops its lock, and then stores ledger plus
rows into the counters and releases claims, whatever has been decided in between;
`Ages` is the end of a claim's grace, `Midnight` a change of the day that each book
learns of by itself, `Restart` the boot's `restore_ownership`, which latches lanes in
conflict.  A share costs one unit, so that money and position are the same number.

Everything interleaves.  `missed` has the orders the last tick did not count though
they were out; `misled`, the orders decided by counters that missed another of their
lane's; `early`, that a claim may have been let go while its lane was still buying (a
refusal beside another buy, a tick that takes the lane for sold out or has not read
the new row, a restart).  The properties speak of lanes and times without; the run
does not look beyond the first `misled` or `early` order (`InOrder`), for nothing in
the code bounds what follows.  Three simplifications: a tick stores a lane's four
counters at once; the grace outlasts what lies between a decision and its row; a
booking waits for a tick, which holds the ledger's lock throughout.

### `Custody` and `Receipt`: ledger, wallet, redemption

The journal `disk` and the replayed `book` of each lane, the `rows` the holder
of the control lock has still to write (`AppendRow`; `AppendFails` loses, tears
or keeps a line whose write was reported as failed), orders placed, matched and
booked; the wallet and what was redeemed of it; the periodic reconciliation
(`ReconReads`, `ReconReadsFlight`, `ReconLane`) and the one at boot (`BootLane`),
which adopt and write off; the market's resolution, the claim it leaves, the
proof read at a finalized block (`ReadProof`) and its second check and booking
(`Credit`, `verified_payouts` and `book_verified_pool`).  `Receipt` is
`verify_receipt` over abstract logs; `Evidence(n)` is what it proves of a list
of transactions that redeemed n shares, and `Custody` uses its table `Proofs`.

### `PairExit`: leaving a market held on both sides

The merge task stage by stage: read the wallet (`Look`), read his positions and the
ledger and plan (`FindOrphans`), claim both legs, send, wait for the receipt, look
again, book, sell what is left.  Beside it, at any time: his moves and the trades the
lane mirrors (`Buy`, `MirrorSell`), a flatten, the sweep in its three steps
(`SweepStarts` reads the wallet, `SweepLooks` his positions, the ledger and the claim,
`SweepSells` sells), the chain, and restarts.  A sale may fill in part or not at all,
and what it filled is booked later, in one or more pieces (`due`, `Book`), by its answer
or by the resolver.  The sweep sells all once he is out, and before that what is
beyond the lane's share of his position when that is exceeded by half; an excess has
to be seen twice, dust does not.

`lapsed` names the ways the booking of a merge goes wrong (section 6), and `sold` the
legs sold since the task read the wallet.  Simplifications: the two tokens are one
lane's; a buy is booked at once; two sights of an excess need not agree in size; the
minute a sold token is left alone is left out, and so is the check that the lane is
armed, so that the sweep does more here than in the code; a claim is not dropped after
its 900 seconds; the API shows the wallet as it is (its lag is in `Custody`).

### `Plane`: who may buy

The operator file and the control tick that reads it twice; the incidents with
their journal and the handler that clears one in three steps (journal, risk,
latch); the guardian watch; wallet pool, wallet file and flatten box; the
wallet task's pass (add, resume, retire); boot, which verifies the ledger, stops
what is wrong, loads the wallets and re-latches; files spoilt while the engine
is down.

### `Rests`: the resting book

Rests placed, traded and ended by the venue; `book` and `settling`; the three
tasks that take rests down (`sweep`, `exit`, `recon`), each with its reading,
cancelling (`Cancel`) and settling (`SettleAsks`, `SettleEnds`) apart; pruning
with its plausibility test, adoption of what is listed and unknown, ageing, the
lane's flags (trading; closed; barred from resting at all), restarts that forget the
book.  Settlement is asked for by any of the three about any rest they have taken up,
so that two of them meet at the claim.

### `Follow`: following him out

His position and its legacy part, modelled twice (the control task's and the
lane's); his trades, handled by `HandleBuy`, `HandleSell` or missed by the
feeds; one order per trade and one for the sweep, with refusal, rescue and
giving up, matched and booked in any order, where the ledger takes off no more than it
holds; the orphan sweep in three steps, the re-anchoring read in two, the
tick that copies the control side onto the lane, and a restart that seeds anew.
A rescue sells what the first try asked for, or what the venue says is left.
`strayed` says whether one of six named ways has led the lane astray, and whether it
has lost sight of his book as well (the comment over `Strays`); all of them happen.

### `Copies` and `Match`: from his transactions to our size

`SeenTx` and `RaceBook` (two layers of dedupe with bounded memory), the main
loop from fill to order, sizing by the lane's scale and policy under
`effective_ceiling` (`EffectiveCeiling`: three times the share, unless a larger one is
named), the rate halt, answers, the slew of the scale and repricing beside it.  `peak` is
the largest share a clip was sized by, `raised` that one was raised to the minimum.  `Match` has the
exchange's settlement of an order match (external) against what
`calldata::decode_all` and `taker_execution` read from the pending call.

### `Watch`: is his order still there

A tape of prints and level sizes, sockets that read it each at its pace into
one `Levels` and one `TradePrints`, the anchor kept when a rest is placed
behind his order, and `Classify`, which decides whether he took it back.  A socket may
fail at any time, whichever it is, and comes back with a snapshot.  If it was behind
all the others, the level may be its old word until the next frame: `unsaid`.

### MC and proof modules

An `...MC` module names model values and maps for TLC.  `Sums` and the
`...Proofs` modules hold theorems (section 5).  A proof module is named after the
first component it is about; a later part of it may be about another:
`OrderPathProofs` also has `RaceSend`, `SignalGuardProofs` has `Copies`,
`RestsProofs` has `Watch` and `PairExitProofs` has `Follow`.  The names of two such
modules are kept apart (`RaceSpec`, `CopiesSpec`, `WatchSpec`, `FollowSpec`).

## 3. Runs

| Run | Shows | Instance | Distinct states |
| --- | --- | --- | --- |
| `OrderPath` | `NoFillForgotten`: a taker buy that filled is booked, or known to its submitter or a row; `CommitmentCoversOrders`: no release gives back what was or may still be bought; `ResolvedStaysResolved`; the refinement of `ExactlyOnce` | a taker and a resting buy of one leader order in two lanes, two shares each, one crash, one append that fails or is cut short | 2,388,824 |
| `OrderPathHostile` | `NoFillForgotten`, `OpenRowsAreDurable`, `FilledBuyIsBooked` (a fill reaches the ledger) under the code's own timeouts, stale listings and boots that die or fail half way | a taker buy and a resting sell of one share in one lane, one crash, one append that fails or is cut short | 566,168 |
| `SignalGuard` | `OneSidePerMarket`, `BoughtWithinOrder`, `RestartRemembers` | two orders of two shares on the two sides of one market of one lane, one of them a legacy row; time-to-live of two ticks, three ticks of time, one crash, one failed write | 520,627 |
| `RaceSend` | `SilenceIsNoRefusal`, `RefusalIsFinal`, `OutcomeIsFinal` | three paths | 15,301 |
| `Exposure` | `NeverOversold`, `WithinCap`, `DayWithinBudget`, `OneLanePerToken`, with ticks, refusals, midnight and restarts anywhere between decisions and rows | two lanes, three buys and two sells of one token, cap and budget of two | 1,700,012 |
| `Custody` | `CreditedOnce` under every peril, `Conserved` and `ReleasesAreRedeemed` without, `ClaimsAreCredited` | two lanes that share a token, a buy of one, a sell of the other, one share each, one failed write, one crash, one peril at a time | 542,807 |
| `PairExit` | `LegsAgree`: ledger and wallet tell the same, up to what is still to be booked or reported; `MergedOnChain`: no merge is reported that was not made; everything interleaved | two shares of each leg, two merges | 2,535,762 |
| `Plane` | `BuysAreMeant`, `StopsHold`, `StaysOut`, and in the end `WantedLanesBuy`, `UnwantedLanesEnd` | one lane, three events of operator or mishap, the perils in two sets | 509,210 |
| `Rests` | `ReleasedIsDead`, and in the end `LiveRestsAreKnown`, `NoBuyRestsUnwanted`, `GoneRestsLeave` | a buy and a sell, placed in the run, one event; the sweep (a cap of one makes it act without an event), his exit and the reconciliation | 228,901 |
| `Follow` | `SellsFollowHim`, and in the end `OutWhenHeIsOut` | he holds up to two shares and trades three times | 77,564 |
| `Copies` | `CallsAreReadRight`, `FillsCountOnce`, `CopiesWithinShare`, `RateHaltIsJust` | one order of twelve, two feeds, two transactions of equal fills, `SeenTx` of one; a quarter is copied, under the default ceiling of three times that, and the bankroll may double | 4,188,280 |
| `Watch` | `NoFalseCancel`, `CancelIsSeen` | two sockets, his order of ten, five frames, one mishap (a socket lost, a level grown old, a silence, an eviction) | 5,426,221 |

Bounds, and why they suffice to be interesting.  Two shares distinguish none,
part and all of an order, which is all the control depends on.  Two orders give
every pair of tasks on one record; the guard couples orders only through the
leader order they copy, and that is shared.  One crash reaches every point
between two durable steps, and the state after a boot is again one of those.
One failed write fails any append once, or cuts it short, with every append of the
other actors after it; two lanes let one go on writing when the other is latched.  In
`SignalGuard` a lifetime of two and
three ticks let a row expire while another lives, and let the slot and the
market entry of an order expire apart; `MaxCopied = 2` lets an order be copied,
released and copied again.  Three paths give every mix of two different answers
and a silent one.  In `Exposure` the third buy lets a lane buy again while its
sell is out and another lane wait for the token.  `Custody` needs two lanes for
a wallet that shows the shares of both; a share each suffices since every rule
compares sums.  In `PairExit` two shares let a merge of one leave a pair behind
and a second merge of the same size be confused with the first; the run does not
follow a merge that was misread.  One lane in
`Plane` is enough because no rule reads another lane's flags, only whether all
of them are to be stopped.  In `Rests` one event lets his exit race with the sweep and
the reconciliation for the settlement of a buy that filled in part.  `SeenTx` of one
transaction forgets at every second, which a capacity of 8192 does in a busy hour; in
`Copies` the halt is reached.  `Follow` was explored once with four shares (2.5 million
states), which lets a sell be half of what he has and a rescue follow, and showed
nothing new; its safety is proved for any number.  With the third socket the code has,
`Watch` is too large; its properties are proved for any number.  Deadlock is not
checked: every instance ends when its orders and bounds are used up.

Fairness, where a run has a temporal property.

- `OrderPath`: weak fairness of the resolver's steps and of boot, which are a
  loop that only ends with the process (`main.rs:6774`) and a supervisor; that a
  POST ends, for the client has a timeout; that a verdict once held is applied.
  Nothing is assumed of what a submitter does with an answer.
  Strong fairness of a venue answer other than "unknown": the resolver asks again
  every few seconds as long as the row is open, and of a venue that never answers
  the property could say nothing.
- `Custody`: what the engine has begun it gets on with; resolver and resolution
  task run again and again; blocks become final.
- `Plane`: control tick, wallet task, the clearing handler and boot go on; strong
  fairness of a readable book of the leader, asked for on every pass.
- `Rests`: the tasks are loops, and a submitter's request ends; of the cancels the sweep
  makes again and again one is carried out and answered, and of the status requests
  about orders that are gone one is.
- `Follow`: handlers and ticks go on; an order that matched is booked and one that did
  not is closed; strong fairness of a sweep that reads, sends and finds a buyer.  A
  rescue is bounded by sixty tries and a minute: asked again and again it gives up, and
  it is never assumed to try.

Nothing is assumed of crashes, of the venue's fills, of a rest's closing, or of
what the leader or the operator does.

## 4. Assumptions about the environment

In the constants of `OrderPath`:

- `SlowPosts = FALSE`: a POST is answered within `SETTLE_SECS` (5 s), although its
  client waits 10 s.  With `TRUE`, TLC finds that a row is closed as not filled
  under a POST that then matches, and that a row recorded again after its
  resolution is open in memory and dropped by a replay.  Such orders are `hasty`, which
  `NoFillForgotten`, `OpenRowsAreDurable` and `FilledBuyIsBooked` except.
- `WrongRefusals = FALSE`: an order counted as rejected did not reach the venue
  (`RaceSend` examines exactly this).  With `TRUE`, `NoFillForgotten` and
  `CommitmentCoversOrders` fail.
- `StaleListing = FALSE`: the venue's list of open orders does not predate a rest.
  With `TRUE`, and the order's status unreachable, settlement takes the trades so
  far as final and releases shares that still work (`CommitmentCoversOrders` fails).
- `RecycleFails = FALSE`: boot does not die, and does not fail, between rewriting
  `pending.jsonl` and emptying the log (`ResolvedStaysResolved` fails with `TRUE`).

`OrderPathHostile` makes the first, third and fourth `TRUE`.  Also assumed: order
digests are unique; a POST has arrived or is lost by the
time the resolver looks at a row its submitter has left; the resolver's reading of the
holding and its booking are one step; both journals can be read at boot.

In `SignalGuard`: the clock does not step back; sizing is a percentage without
the minimum-fill floor, and every cap can only make a copy smaller; each leader
order belongs to one lane, market and side; a release comes at most
`ReleaseWithin` ticks after its commitment, and that is less than the
time-to-live; no other lane trades while a write that failed leaves the log
torn; no market has two legacy rows; the operator restarts before he clears a
persistence incident, and clears it before the log is written again; a failed
release leaves nothing or a fragment in the file; a log that boot fails to empty
ends cleanly.  The history variables forget what is older than both the
time-to-live and `ReleaseWithin`.

What each peril of the other modules breaks, as TLC shows when it is let in:

| Module | Let in by the run | Left out, with what it breaks |
| --- | --- | --- |
| `Custody` | all, one at a time | `CreditedOnce` holds under all; `Conserved` and `ReleasesAreRedeemed` speak of runs without any (`Calm`), as each of `kept`, `lag`, `midsale`, `late` breaks one of them |
| `Plane` | all, in two sets: what bears on stops, and what on arming and leaving | `split` breaks `BuysAreMeant`; `forget`, `race`, `recover`, `runtime` break `StopsHold`; `reboot`, `resumed`, `unwritten` break `StaysOut`; each property excludes its own |
| `Rests` | none | `blind`: `ReleasedIsDead`; `nameless`: `LiveRestsAreKnown`, `NoBuyRestsUnwanted` |
| `Copies` | none | `again`, `aged`: `FillsCountOnce`, `CopiesWithinShare`; `cleared`: `FillsCountOnce`; `reverted`, `renamed`: `CopiesWithinShare`; `RateHaltIsJust` holds under all |
| `Watch` | none | `twins`, `resub`, `lag`, `evict`: both; `late`: `NoFalseCancel`; `echo`: `CancelIsSeen` |

`resub` stands for sockets that are all down at once (an outage, or a change of the
watch list, which drops every socket), and for one that subscribes while prints are
under way on the others.  A socket that fails alone is no peril.

And what the histories except, which happens in the runs:

| Module | History | What is not promised of it |
| --- | --- | --- |
| `OrderPath` | `hasty`, `fspoiled`, `spoiled`, `forgot` | an order judged early, or whose row is damaged, is known to somebody, durable, closed for good, booked once; a commitment hidden by a bad line covers its orders |
| `Exposure` | `misled`, `early` | caps, budget and reservations of a lane that decided by overwritten counters; one lane to a token once a claim went early |
| `PairExit` | `lapsed` | that ledger and wallet agree after a half booking, a repeated key or a misread merge |
| `Follow` | `strayed` | that the lane sells his share after one of six ways; that it gets out, after the two that lose sight of his book |
| `Copies` | `peak`, `raised` | that a lane is not halted which copied more than its configured share and the tolerance |
| `Watch` | `unsaid` | that a cancel shows while the level is the old word of a socket that failed behind the others |

## 5. Proofs

Each theorem holds for every value of the constants that satisfies the module's
assumptions: any number of lanes, orders, paths, crashes and failed writes, any
sizes and caps.  Each proof module has a lemma per action and, under it, a step
per conjunct the action can disturb; the temporal step is the last line only.
Every inductive invariant was checked by TLC before it was proved.

`Sums` has what the others need about totals: how a sum of a function over a
finite set splits at an element, changes with it, and grows with its summands.
The sum is the community fold; its facts follow from a least set that would
refute them, since the induction theorems of the library take an operator as a
parameter.

**`OrderPathProofs`**

- `TypeCorrect` (`Spec => [](TypeOK /\ GuardInv)`).  `TypeOK` is not inductive: a
  trade on the venue stays within the order's size only if a live order has
  shares left, and what is given back to the guard is a natural number only if no
  more was given back than committed, in memory and on disk.  `TypeInv` is the ranges
  with `VenueInv` (nothing is filled before the POST arrives, a live order has shares
  left, the answer reports no more than was filled) and `GuardInv` (released <= copied,
  in both places, and the disk knows of all that was released).
- `Refinement` (`Spec => ExactlyOnceSpec`), with no premise.  What is booked comes from
  `reply` or from a verdict the resolver holds, which may be old: `ProbeInv` says that
  no such verdict exceeds `filled`, which only grows.  `LedgerInv`: file and ledger
  agree but for the `spoiled` orders, a booking is missing from the file only if the
  file holds a bad line, and then `persistence_ok` is false.  So each step is a `Match`,
  a `Book`, a `Spoil`, a `Reread` or a stutter.
- `RowsCorrect` (`OpenRowsAreDurable`), with no premise.  `RowsInv`: beside the
  property, an order that was not sent has no row (`FreshInv`); until its
  POST is answered an order is its submitter's, neither listed nor closed by the
  resolver unless it is `hasty`, and the row of a buy is on disk (`OwnedInv`); before
  the log is emptied the file alone has every open row (`BootInv`).
- `ResolvedCorrect` (`ResolvedStaysResolved`), if `~RecycleFails`.  `LastInv`: no
  row that any replay could raise was resolved after it was last recorded, but for the
  damaged ones; while boot has yet to empty the log, the file alone counts.
- `NoFillForgottenCorrect` (`NoFillForgotten`), if `~WrongRefusals`.  `FinalInv`: the
  word that a taker did not fill is final, unless its POST was out; `KeptInv`: a taker
  buy that filled or still may, and is not booked, has an open row, in memory and in
  what a restart would raise, or it is `hasty`, or a bad line stands in its place.
- `CommitmentCorrect` (`CommitmentCoversOrders`), if `~StaleListing` and
  `~WrongRefusals`.  A sum over the orders that copy one leader order; `ClaimInv`: what
  the disk has as released, with the whole size of those at work and what the others
  filled, is within what was committed, for leader orders not in `forgot`;
  `AnsweredInv`: what submitter and settlement have learnt is true of the venue.

The last part is about `RaceSend`, for any set of paths.  The outcome is `Resolved` of
everything collected (`OutcomeInv`), and results, answers and copies agree with
each other and with the venue (`HonestInv`): `SilenceCorrect`
(`SilenceIsNoRefusal`), `RefusalCorrect` (`RefusalIsFinal`), `OutcomeCorrect`
(`OutcomeIsFinal`).

**`PlaneProofs`**, for any lanes and sets of perils; each property excludes its own
perils and nothing else is assumed.  `TypeCorrect`; `MeantCorrect` (`BuysAreMeant`)
with `MeantInv`, what a half-done tick may still set; `StopsCorrect` (`StopsHold`)
with `StopInv`: a lane that is stopped has an open incident, which the journal has
too and which keeps its latch, or losses at their limit, whatever step clearing
is at;
`OutCorrect` (`StaysOut`) with `OutInv`: a lane that is out is retired, and
the pass under way does not resume it, because it is not enabled or has a stop
mode that the file has too.

**`SignalGuardProofs`**, from `InTime` (`ReleaseWithin < TTL`: the venue answers
within the life of a commitment) and `Sound` (no write fails, or one lane
trades: otherwise a commitment may be glued to another lane's fragment, section
6).  `OneSideCorrect` (`OneSidePerMarket`) with `SideInv`: what was sent within the
window is on disk (`OnDisk`), what is on disk of the
other side is older (`Older`, `Apart`), and both the table and the rows bar the other side (`SentBars`,
`RowBars`).  `BoughtCorrect` (`BoughtWithinOrder`) and `RestartCorrect`
(`RestartRemembers`: a replay counts, of every order, no less than was bought of it
within the window and not killed) with `CountInv`: what is bought of an order is at most what the
disk (`DiskKnows`) and, while the engine runs, the table (`TableKnows`) have
outstanding.

Then `Match`.  `CallReadAsSettled`: of a call that is `WellFormed` and that the exchange
accepts, every fill of his is read as it is settled.  `WellFormed` allows any number
of makers, beside each other, minting and merging, any amounts and prices below a dollar; it
asks that the offer is one unit or worth something at the taker's own price, which is what
calls lack that are settled and not read (section 6).  Each fill adds to what the
exchange holds what the reading takes it to use (`TakerGotIs`, sums over the makers);
what the reading checks beside that, `Accepts` implies (`TakerRead`), because a price
below a dollar rounds the right way (`TakingFacts`).  `CallsAreReadRightHolds`
(`CallsAreReadRight`) follows for the calls and the trades of the model, of any size.

The last part is about `Copies`, for any feeds, orders, fills, memories of `SeenTx` and
`RaceBook`, policies and profits.

- `CopiesCountOnce` (`FillsCountOnce`), if `Once`: none of `again`, `cleared`,
  `aged`.  `Numbers`: what `RaceBook` knows of a transaction is exactly the fills
  below its count, or it forgot them after every feed had brought it; and a feed
  counts no further than all of them together.
- `CopiesKeepToTheShare` (`CopiesWithinShare`), if also `Honest`: neither `reverted` nor
  `renamed`.  `Credited`: what the guard has filled of an order is at most the sum of
  what was counted of its transactions, all of which happened; `Shared`: what is held
  of it is within the ceiling's share of that, and stays so between the guard's
  reading, the decision and the sending, while answers release.
- `CopiesHaltIsJust` (`RateHaltIsJust`), with no premise.  By `Shared` the lane holds of an
  order no more than `peak` of what the guard counts of it, or a clip was raised to the
  minimum; so what the halt sees as too much was sized by more than the configured
  share and the tolerance, or was raised (`OvercopiedFacts`).

**`RestsProofs`**, for any number of rests, restarts and exits.

- `RestsTypeCorrect`, and `RestsReleasedIsDead` (`ReleasedIsDead`, which speaks of the
  module without `blind`).  `Claimed`: an order is in `settling` exactly while one
  task asks about it, and one only; `Placed`: what is booked or was listed has been
  placed; `Final`: a final verdict, however old, is of an order that is gone and
  says what it filled; `GivenOnce`: an order that is booked as the
  engine's own, or asked about as such, was not given back yet.
- `Watch`, for any sockets and amounts, if `FeedPerils = {}`: `NoFalseCancelHolds`
  (`NoFalseCancel`) and `CancelIsSeenInTheEnd` (`CancelIsSeen`).  `Windowed`: what one
  socket has still to bring and another has brought is in the memory of prints;
  `Truthful`: a level that was told is no less than his order; `Accounted`: what he
  had when the rest was placed is what he has and has taken back, with what
  was printed since, but for the prints that were ahead of the level then.  The
  prints are sums over the tape, cut at each socket's position.

**`PairExitProofs`**

- `PairTypeCorrect`, `PairLegsAgree` (`LegsAgree`) and `PairMergedOnChain`
  (`MergedOnChain`), for any sizes and numbers of merges, everything interleaved.  `PInv`
  adds to the two properties: `Waited`, the transaction waited for is the last one, and
  when it is mined so many pairs are mined and not reported; `Read`, a leg that
  was not sold since the wallet was read has lost no more since than merges burnt
  that nobody has reported.  So if the second look shows that both legs fell by the
  pairs, and one of them was not sold, that many pairs were burnt.
- `Follow`, for any number of his trades, any holdings and sell-all fraction:
  `FollowTypeCorrect`, and `SellsFollowHimHolds` (`SellsFollowHim`), with no premise.  The
  invariant holds until the lane is led astray.  `Known`: both models agree with his
  book, but for buys missed while the lane had nothing at stake, and the lane's legacy is
  no less than his; `Shaped`: no try asks for more than the first; `Balanced`: wallet and
  ledger differ by what is still to be booked; `Offered`: while his sales are followed
  the lane offers no more than there is, and no rescue or sweep is out; `SweptOut`: the
  sweep sells when he is out; `Owing`: once he is out his sales ask for all there is, and
  before that for all that is on its way.  The lemma that carries it is `WantedIsAsked`:
  the fraction the lane computes, rounded down, by a legacy that may be too large, is no
  more than the exact one rounded up.

**`ExposureProofs`**.  `SoldCorrect` (`NeverOversold`), `CapCorrect` (`WithinCap`),
`DayCorrect` (`DayWithinBudget`) and `OwnerCorrect` (`OneLanePerToken`), with no premise.
`CountInv`: what memory counts for a lane is never less than the ledger and the orders
out, as sums over any orders, unless the last tick missed one of them; and what is out
stays within the bound, unless the lane was misled.  `OwnerInv`: until a claim was let go
early, whoever holds or buys the token owns it.

**`CustodyProofs`**

- `ReceiptProves`, of `Receipt`: what `VerifyReceipt` accepts as redeemed has left our
  wallet in that transaction.  It holds of any list of logs whose amounts are
  natural numbers and whose adapter events are the adapters', whoever else redeems in it
  and whatever strayed to the contracts.  A direct redemption burns what is ours; of an
  adapter's burn `Covered` asks that as much went from us to the adapter; and a segment
  is a part of the receipt (`SegmentLost`, a sum over shifted positions).  With what the
  contracts log for a call (`LostCall`) it follows that the listed receipts prove no
  more than was redeemed (`ReceiptsSound`).  A `Receipt` that counts a burn the wallet did not
  cover breaks `CreditedOnce`.
- `CreditedCorrect` (`CreditedOnce`), whatever goes wrong.  `CreditInv`:
  while no write has failed, books and journal agree (`InStep`); nothing is credited
  before the market resolves (`Early`); a proof, with the balance it was read with,
  is of no more than there is (`ReadRight`); while a settlement is being written no
  write has failed and the books claim no more than there is (`BatchRight`).
- `ConservedCorrect` (`Conserved`) and `ReleasesCorrect` (`ReleasesAreRedeemed`).
  `CalmInv`: the journal, with the fills still to be booked, balances with the
  wallet (`Balanced`); rows still to be written are of such fills, or release what
  was redeemed (`RowsRight`); a lane holds no more than a reconciliation was shown,
  but for sales that matched since (`Shown`); open sells are backed by what is held
  (`Backed`).

Only model-checked:

- liveness (`FilledBuyIsBooked`, `ClaimsAreCredited`, `WantedLanesBuy`,
  `UnwantedLanesEnd`, `LiveRestsAreKnown`, `NoBuyRestsUnwanted`, `GoneRestsLeave`,
  `OutWhenHeIsOut`): fairness and ENABLED are beyond the prover;
- that a receipt which redeems is accepted at all: `ClaimsAreCredited` needs it, and
  the run evaluates `Evidence(n)`.

Every other invariant the runs check, and `ExactlyOnceSpec` and the action
properties, are stated by a theorem.

## 6. What the runs found

These are behaviours TLC shows: steps of the runs that a history names, or
counterexamples with a peril or a flag of section 4 let in.

- `OrderPath`, torn appends: a row glued to the fragment of an earlier failed append is
  skipped by the replay of `pending.jsonl` without a word (`pending.rs:359`, `pending.rs:259`),
  so a row that was open is gone, or one that was closed is raised again.  A fill glued
  to a fragment of `ledger.jsonl` is counted as a corrupt line (`ledger.rs:202`,
  `ledger.rs:183`) and its booking is gone after a restart; the control tick then latches
  every lane's buys, and nothing else says which fill it was.  A row whose sync alone
  failed is in the file though the ledger has not booked it: a second try books the fill
  again, and a replay has it twice.  A failed barrier latches one lane
  (`main.rs:7850`), and the next lane's commitment is glued to its fragment
  (`wal.rs:69`); the pending row is read all the same, for it has a line of its own.
- `OrderPath`, `RecycleFails`: boot rewrites `pending.jsonl` without its resolved
  rows before it empties the log; if it dies in between, rows resolved later are
  raised again by the boot after that (`pending.rs:303`).  Even so nothing is booked
  twice; the shares are reserved twice.
- `OrderPath`, `SlowPosts` (`hasty`): five seconds of `SETTLE_SECS` against ten of the HTTP
  client; a fill can be forgotten.
- `OrderPath`: a resting buy fills in part, the status request says "live", which
  is no verdict, and the trade list then says "filled": the row is booked and
  closed while the order works on.  What it fills later is left to
  reconciliation (`main.rs:122`).
- `SignalGuard` without `Sound`: a failed append halts one lane; the next lane's
  commitment is glued to the fragment and lost to the replay, so a restart buys
  again (`wal.rs:70`).
- `SignalGuard` with `ReleaseWithin` beyond the time-to-live: a release row counts
  as a claim of the market on replay, newer than the order that owns it, and
  lets the other side through (`signal_guard.rs:236`).
- `RaceSend`: one refusal is believed while the order is at the venue through a
  path whose answer was lost; the row is closed, the commitment released
  (`race_send.rs:120`).  `RefusalIsEnough` states the contrary and TLC refutes it;
  `RefusalIsFinal` therefore speaks of a refusal by every path.
- `Exposure`, `missed` and `misled`: a control tick between a sell decision and its row
  erases the reservation, and his next fill sells the same shares again
  (`control.rs:385`); the same tick erases the exposure of a buy (`control.rs:333`).
- `Exposure`, `early`: a claim is released under a buy in flight, because the lane has
  just sold out, the new row was not read, or another buy was refused
  (`control.rs:361`), against the test at `control.rs:543`.
- `Custody`, `midsale`: the engine stops with a sale matched and not booked; at boot
  reconciliation writes the shares off, and then the resolver books the sale
  (`main.rs:2614`).
- `PairExit`, "misread": after a merge whose fate is unknown both legs are sold, by
  mirrored sells, a rescue or a flatten, which ask no claim; the second look at the wallet
  finds both legs lower by the same number and reads that as the merge
  (`main.rs:5472`).  A pair that was never merged is booked as merged.
- `PairExit`, "repeat": a merge inferred from the wallet is booked under its market and
  size, for want of a hash; a second one of the same size counts as booked already.
  "half": the second of its two rows is not written.
- `PairExit`: the claim on the legs is given back although the fate of the merge
  is unknown (`main.rs:5588`); with merging off both legs are sold under no claim
  (`main.rs:5364`), and the sweep sells them too.
- `Plane`, `runtime`: lanes of the wallet file alone are loaded without asking the
  incident journal (`main.rs:6119`), unlike what the test at `incidents.rs:163`
  says of a restart.  The stops of boot itself do not reach them either.
- `Follow`, "missed": he sells out and no feed brings it.  The re-anchor does not
  zero his position in a token the lane holds, for "that decision belongs to the
  orphan sweep" (`reanchor.rs:20`); but the sweep asks the same model of his
  position, and the lane keeps what it has until the market resolves.
- `Follow`, "early": the ledger takes off no more than it holds and forgets the rest
  (`ledger.rs:503`).  He sells all while a buy of the lane is matched and not booked;
  the rescue of the mirrored sell and the orphan sweep sell everything, their
  fills are booked first, and then the buy is booked, of shares that are gone.  The
  next time he sells half, the lane sells half of what it does not have.  This needs
  four shares and five trades; reconciliation, which is not in this module, would
  mend it within its period.
- `Copies`: the rate halt measures by one and a half times the share of the lane's
  configuration (`main.rs:7582`, `firerate.rs:6`), while a lane that compounds may copy up
  to three times that share by default (`budget.rs:173`; the test at `budget.rs:542` has
  it reach exactly that).  So a lane whose bankroll has doubled is halted for copying what
  it was told to.  Repricing compares and installs the ceiling as the wallet file names
  it (`wallets.rs:405`, `main.rs:6051`), so the first pass over an unchanged file takes
  the three times away again.
- `Copies`: the slew of
  the scale stays at 0 once there (`budget.rs:163`), so a lane that was wiped out
  does not compound again when its bankroll recovers; the test at `budget.rs:606`
  has its buying resume, and looks at the balance only.
- `Match`, an offer that is worth nothing at the taker's own price: he sells 3 of an
  order of 4 shares for 1, and a maker who pays 2 for 3 shares takes them.  The
  exchange settles 3 shares for 2, and the reading drops the taker, whose fill it
  first values at the price he signed (`calldata.rs:92`).  It takes amounts of a few
  millionths.
- `Watch`, `unsaid`: a socket that is behind the others writes an older level last
  (`book.rs:329` and after); if it then fails, the old level stands until the next frame, and
  what he took back does not show.
- `Watch`, `resub` and `lag`: a change of the watch list drops every socket for
  more than a second, and prints run ahead of the chain feed; each makes a rest
  look abandoned.

Met while modelling, and outside what a property states: the daily cap is
`cfg.daily_budget_usd` although the reprice log prints `caps.daily`
(`main.rs:6083`); an edit of the price band differs on every pass and is never
applied; a refused wallet edit advises to disable and enable again, which only
retires and resumes with the old configuration (`main.rs:752`); a flatten intent
less than a minute old runs again after a restart; `verify_receipt` refuses for
good a redemption split over two calls, and such claims are never credited; one
failed read of a leader drops his conditions from the exclusion set for ten
minutes (`main.rs:7155`).

## 7. What is not modelled

Components listed as `not_modelled` in `PROJECT.json`: reporting (counters and log
rows), observers and dashboard (other programs that read the engine's files).

Of the modelled components:

- Order path: journals that cannot be read at boot.
- Ledger: cost, realised gain, the windows of equity and gain, dust adoption,
  continuity beyond whether it is broken.
- Lane counters: the per-market cap, the price band, the cash gate.
- Receipts and calls: the decoding of bits; `Receipt` and `Match` begin at decoded
  logs and arguments.
- Exits: the sweep reads one page of 500 positions (`main.rs:4468`); its and the orphan
  sweep's bound on the part of a book they sell, the three sales at a time, the minute
  a sold token is left alone.
- Rests: a rest posted while he exits is not seen by that exit's cancel; a rest
  nobody can be named for is never managed.
- Plane: the lease, an incident journal that cannot be read, tranche flags and
  the choice of route.
- Merge: splits, the pair ledger and the merge watch, which observe only.
- Copies: a restart (the durable side of the guard is `SignalGuard`).
- Encoding, keys, signing, RPC; the HTTP views; the audit of custody, which
  monitors only; matchup display, fingerprints and the token binding check.

Between modules the cut is by record: an order's row and POST are `OrderPath`'s,
its counters `Exposure`'s, its share of his order `Copies`' and `SignalGuard`'s.
Each module takes of the others what their invariants promise, and no run
composes all of them.

## 8. Plan

Done: the modules of section 2, and proofs of every safety property.

Left, in this order:

1. `Follow` with the reconciliation of the ledger against the wallet, so that it can
   be said how long "early" lasts; the clamp of the ledger makes `ours` wrong until then.
   In the same way `Exposure` beyond the first `misled` order: the next tick mends the
   counters, and what was bought or sold on top could be bounded by one decision.
2. The per-market cap beside the lane's cap in `Exposure`, with its own sum.
3. Splits and the pair ledger in `PairExit`, once they decide something.

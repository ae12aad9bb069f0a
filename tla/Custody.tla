------------------------------- MODULE Custody -------------------------------
(* Who owns the shares of one token: the wallet holds them, the lanes' books *)
(* claim them, and when the market is resolved the claims are credited, once.*)
(*                                                                           *)
(* The ledger is a journal of rows and the books they add up to.  A row is   *)
(* made durable before the books see it; boot replays the journal, and then  *)
(* sets the books against the wallet as an API shows it.  The same is done   *)
(* every few minutes, with more care.  An order is for one share, and every  *)
(* share costs the same, so that money needs no variable.                    *)
EXTENDS Naturals, Sequences, FiniteSets, FiniteSetsExt, Functions, Receipt

CONSTANTS
  Lanes,
  Buys, Sells,          \* the orders that may be sent
  LaneOf,               \* the lane each is for
  Holding,              \* the shares each lane starts with, from an earlier run
  Perils,               \* what may go wrong, a subset of AllPerils
  MaxFaults, MaxCrashes \* bounds

Orders == Buys \cup Sells

\* "kept": a failed append may have reached the disk.  "lag": the positions API
\* may be behind at boot.  "midsale": the engine may stop with a sell unbooked.
\* "late": the market may be resolved before every fill is booked.
AllPerils == {"kept", "lag", "midsale", "late"}

ASSUME CustodyAssumption ==
  /\ IsFiniteSet(Lanes) /\ IsFiniteSet(Orders)
  /\ Buys \cap Sells = {}
  /\ LaneOf \in [Orders -> Lanes] /\ Holding \in [Lanes -> Nat]
  /\ Perils \subseteq AllPerils
  /\ MaxFaults \in Nat /\ MaxCrashes \in Nat

VARIABLES
  env,       \* the perils of this run; constant
  up,        \* the engine runs
  todo,      \* the lanes boot has not yet set against the wallet
  wallet,    \* the shares the wallet holds
  redeemed,  \* the shares somebody has redeemed
  final,     \* the redemption is in a finalized block
  resolved,  \* the market is resolved
  seen,      \* the wallet's shares as the positions API shows them
  orders,    \* Orders -> where the order is
  book,      \* the ledger in memory
  disk,      \* what a replay of its journal adds up to
  torn, bad, \* the journal ends in a fragment; has a line no replay can read
  fault,     \* ~persistence_ok
  rows,      \* the rows the holder of the control lock has yet to append
  quiet,     \* the lanes with no fill of late (RECON_RELEASE_QUIET_SECS)
  recon,     \* the periodic reconciliation
  proof,     \* what the resolution task has read of the chain
  faults, crashes

chain  == <<wallet, redeemed, final, resolved>>
memory == <<book, fault, rows>>
store  == <<disk, torn, bad>>
tasks  == <<todo, recon, proof>>
bounds == <<faults, crashes>>
vars   == <<env, up, chain, seen, orders, memory, store, quiet, tasks, bounds>>

\* new; open: its row is in the pending journal; matched by the venue; closed.
Phases == {"new", "open", "matched", "closed"}

Empty == [held |-> [l \in Lanes |-> 0], released |-> [l \in Lanes |-> 0],
          settled |-> [l \in Lanes |-> 0], keys |-> {}]
NoPass == [at |-> "idle", shown |-> 0, busy |-> FALSE, left |-> {}]
NoProof == [read |-> FALSE, balance |-> 0, redeemed |-> 0]

Total(f) == SumFunctionOnSet(f, Lanes)
PoolClaim(b) == Total(b.held)
Claimed(b) == Total(b.held) + Total(b.released) + Total(b.settled)
\* No count falls below zero: a sell row takes at most what is tracked.
Monus(a, b) == IF a > b THEN a - b ELSE 0
Least(a, b) == IF a < b THEN a ELSE b

\* One kind of peril at a time, or none.
Init ==
  /\ env \in {{}} \cup {{p} : p \in Perils}
  /\ up = FALSE /\ todo = {}
  /\ wallet = Total(Holding) /\ seen = wallet
  /\ redeemed = 0 /\ final = TRUE /\ resolved = FALSE
  /\ orders = [o \in Orders |-> "new"]
  /\ book = Empty /\ disk = [Empty EXCEPT !.held = Holding] /\ torn = FALSE /\ bad = FALSE /\ fault = FALSE
  /\ rows = <<>> /\ quiet = Lanes
  /\ recon = NoPass /\ proof = NoProof
  /\ faults = 0 /\ crashes = 0

-----------------------------------------------------------------------------
(* The ledger.                                                               *)

\* A row: a fill of an order, a share count set right by reconciliation (n
\* shares), a credit for n released shares, the settlement of what is held.
Row(ev, l, n, key) == [ev |-> ev, lane |-> l, n |-> n, key |-> key]
FillRow(o) == Row(IF o \in Buys THEN "buy" ELSE "sell", LaneOf[o], 1, {o})

\* Variant of Apply that keeps the released shares a credit was given for.
ApplyReleaseKept(b, r) ==
  LET l == r.lane
  IN CASE r.ev \in {"buy", "adopt"} ->
            [b EXCEPT !.held[l] = @ + r.n, !.keys = @ \cup r.key]
       [] r.ev = "sell" -> [b EXCEPT !.held[l] = Monus(@, r.n), !.keys = @ \cup r.key]
       [] r.ev = "release" ->
            [b EXCEPT !.held[l] = Monus(@, r.n), !.released[l] = @ + Least(r.n, b.held[l])]
       [] r.ev = "credit" -> [b EXCEPT !.settled[l] = @ + r.n]
       [] r.ev = "settle" -> [b EXCEPT !.settled[l] = @ + b.held[l], !.held[l] = 0]

\* Ledger::apply.  A sell takes at most what is held; what reconciliation takes
\* is remembered as released, until a credit consumes it.
Apply(b, r) ==
  LET l == r.lane
  IN CASE r.ev \in {"buy", "adopt"} ->
            [b EXCEPT !.held[l] = @ + r.n, !.keys = @ \cup r.key]
       [] r.ev = "sell" -> [b EXCEPT !.held[l] = Monus(@, r.n), !.keys = @ \cup r.key]
       [] r.ev = "release" ->
            [b EXCEPT !.held[l] = Monus(@, r.n), !.released[l] = @ + Least(r.n, b.held[l])]
       [] r.ev = "credit" ->
            [b EXCEPT !.settled[l] = @ + r.n, !.released[l] = Monus(@, r.n)]
       [] r.ev = "settle" -> [b EXCEPT !.settled[l] = @ + b.held[l], !.held[l] = 0]

Idle == rows = <<>>       \* the control lock is free
Running == up /\ todo = {}

\* Ledger::append: the row reaches the disk whole, unless the line before it is
\* a fragment; the two are then one line that no replay can read.
Stored(r) ==
  /\ disk' = IF torn THEN disk ELSE Apply(disk, r)
  /\ bad' = (bad \/ torn) /\ torn' = FALSE

\* The next row of the lock's holder is durable, and the books take it in.
AppendRow ==
  /\ up /\ rows # <<>>
  /\ Stored(Head(rows))
  /\ book' = Apply(book, Head(rows))
  /\ quiet' = IF Head(rows).ev \in {"credit", "settle"} THEN quiet
              ELSE quiet \ {Head(rows).lane}
  /\ rows' = Tail(rows)
  /\ UNCHANGED <<env, up, chain, seen, orders, fault, tasks, bounds>>

\* The append fails: the books stay as they are, and buys halt until a restart.
\* The row is lost, a fragment of it is left, or it is on the disk after all.
AppendFails(fate) ==
  /\ up /\ rows # <<>> /\ faults < MaxFaults /\ env \subseteq {"kept"}
  /\ faults' = faults + 1
  /\ fault' = TRUE /\ rows' = <<>>
  /\ IF "kept" \in env THEN fate = "kept" ELSE fate \in {"lost", "torn"}
  /\ CASE fate = "lost" -> UNCHANGED store
       [] fate = "torn" -> torn' = TRUE /\ bad' = (bad \/ torn) /\ UNCHANGED disk
       [] fate = "kept" -> Stored(Head(rows))
  /\ UNCHANGED <<env, up, chain, seen, orders, book, quiet, tasks, crashes>>

-----------------------------------------------------------------------------
(* Orders.  How a row is opened, posted and resolved is OrderPath's matter.  *)

Unbooked(S) == {o \in S : orders[o] \in {"open", "matched"}}
Outstanding(S, l) == {o \in Unbooked(S) : LaneOf[o] = l}

\* An order is sent: a buy unless a write has failed, a sell of what is held.
Place(o) ==
  /\ Running /\ Idle /\ orders[o] = "new"
  /\ o \in Buys => ~fault
  /\ o \in Sells => book.held[LaneOf[o]] > Cardinality(Outstanding(Sells, LaneOf[o]))
  /\ orders' = [orders EXCEPT ![o] = "open"]
  /\ UNCHANGED <<env, up, chain, seen, memory, store, quiet, tasks, bounds>>

\* The venue matches it, or is done with it.
Match(o) ==
  /\ orders[o] = "open" /\ ~resolved
  /\ o \in Sells => wallet > 0
  /\ wallet' = IF o \in Buys THEN wallet + 1 ELSE wallet - 1
  /\ orders' = [orders EXCEPT ![o] = "matched"]
  /\ UNCHANGED <<env, up, redeemed, final, resolved, seen, memory, store, quiet,
                 tasks, bounds>>

Die(o) ==
  /\ Running /\ orders[o] = "open"
  /\ orders' = [orders EXCEPT ![o] = "closed"]
  /\ UNCHANGED <<env, up, chain, seen, memory, store, quiet, tasks, bounds>>

\* Variant of BookFill that books whatever the journal already holds.
BookFillAgain(o) ==
  /\ Running /\ Idle /\ orders[o] = "matched"
  /\ rows' = <<FillRow(o)>>
  /\ UNCHANGED <<env, up, chain, seen, orders, book, fault, store, quiet, tasks, bounds>>

\* book_fill: once per order, as far as the books in memory know.
BookFill(o) ==
  /\ Running /\ Idle /\ orders[o] = "matched" /\ o \notin book.keys
  /\ rows' = <<FillRow(o)>>
  /\ UNCHANGED <<env, up, chain, seen, orders, book, fault, store, quiet, tasks, bounds>>

\* The pending row of a booked order is closed.
Close(o) ==
  /\ Running /\ Idle /\ orders[o] = "matched" /\ o \in book.keys
  /\ orders' = [orders EXCEPT ![o] = "closed"]
  /\ UNCHANGED <<env, up, chain, seen, memory, store, quiet, tasks, bounds>>

-----------------------------------------------------------------------------
(* Reconciliation: the ledger set against the positions API.                 *)

\* The API catches up with the chain.
CatchUp ==
  /\ seen # wallet
  /\ seen' = wallet
  /\ UNCHANGED <<env, up, chain, orders, memory, store, quiet, tasks, bounds>>

\* Half an hour passes without a fill: longer than a pass, and than the API lags.
Rest(l) ==
  /\ l \notin quiet /\ recon = NoPass /\ seen = wallet
  /\ quiet' = quiet \cup {l}
  /\ UNCHANGED <<env, up, chain, seen, orders, memory, store, tasks, bounds>>

\* The periodic pass reads the whole portfolio (an empty one it drops), and
\* then whether an order for the token is in flight.
ReconReads(empty) ==
  /\ Running /\ recon = NoPass
  /\ seen > 0 \/ ~empty
  /\ recon' = [NoPass EXCEPT !.at = "shown", !.shown = seen]
  /\ UNCHANGED <<env, up, chain, seen, orders, memory, store, quiet, todo, proof, bounds>>

ReconReadsFlight ==
  /\ recon.at = "shown"
  /\ recon' = [recon EXCEPT !.at = "lanes", !.busy = Unbooked(Orders) # {}, !.left = Lanes]
  /\ UNCHANGED <<env, up, chain, seen, orders, memory, store, quiet, todo, proof, bounds>>

\* Variant of Gone that does not wait for the lane to be quiet.
GoneAtOnce(l) == IF recon.busy THEN 0 ELSE Monus(book.held[l], recon.shown)

\* releasable: what a quiet lane claims beyond all that the wallet shows.
Gone(l) ==
  IF l \notin quiet \/ recon.busy THEN 0 ELSE Monus(book.held[l], recon.shown)

\* One lane is set right, under one lock.  Dust alone is ever adopted here.
ReconLane(l) ==
  /\ recon.at = "lanes" /\ l \in recon.left /\ Idle
  /\ rows' = IF Gone(l) > 0 THEN <<Row("release", l, Gone(l), {})>> ELSE <<>>
  /\ recon' = IF recon.left = {l} THEN NoPass ELSE [recon EXCEPT !.left = @ \ {l}]
  /\ UNCHANGED <<env, up, chain, seen, orders, book, fault, store, quiet, todo, proof, bounds>>

\* Boot: a surplus of a token he holds too is adopted by a lane that has shares
\* of it, unless an order for it is pending or the market is redeemable.
Adopted(l, shown, his) ==
  IF his /\ ~resolved /\ Unbooked(Orders) = {} /\ book.held[l] > 0
  THEN Least(Monus(shown, book.held[l]), Monus(shown, PoolClaim(book))) ELSE 0

\* And all that is missing is released, whatever is pending.
Vanished(l, shown) == Monus(book.held[l], shown)

\* One lane, against a snapshot that may be too thin to be trusted.
BootLane(l, his, trusted) ==
  LET shown == IF "lag" \in env THEN seen ELSE wallet
  IN /\ up /\ l \in todo /\ Idle
     /\ rows' = IF Adopted(l, shown, his) > 0
                THEN <<Row("adopt", l, Adopted(l, shown, his), {})>>
                ELSE IF Vanished(l, shown) > 0 /\ trusted
                THEN <<Row("release", l, Vanished(l, shown), {})>>
                ELSE <<>>
     /\ todo' = todo \ {l}
     /\ UNCHANGED <<env, up, chain, seen, orders, book, fault, store, quiet, recon,
                    proof, bounds>>

-----------------------------------------------------------------------------
(* Resolution.                                                               *)

Resolve ==
  /\ ~resolved
  /\ "late" \in env \/ \A o \in Orders : orders[o] # "matched"
  /\ resolved' = TRUE
  /\ UNCHANGED <<env, up, wallet, redeemed, final, seen, orders, memory, store, quiet,
                 tasks, bounds>>

\* Somebody redeems all the wallet holds; later that block is finalized.
Redeem ==
  /\ resolved /\ wallet > 0
  /\ redeemed' = redeemed + wallet /\ wallet' = 0 /\ final' = FALSE
  /\ UNCHANGED <<env, up, resolved, seen, orders, memory, store, quiet, tasks, bounds>>

Finalize ==
  /\ ~final
  /\ final' = TRUE
  /\ UNCHANGED <<env, up, wallet, redeemed, resolved, seen, orders, memory, store,
                 quiet, tasks, bounds>>

\* claims: what the lanes hold, or have released and nobody was credited for.
Owed(b) == Total(b.held) + Total(b.released)

\* market_outcome and final_payout: the chain has the payout of the market.
PayoutIsFinal == resolved

\* The chain is read at its last finalized block.
AtHead(before, now) == IF final THEN now ELSE before
FinalBalance == AtHead(wallet + redeemed, wallet)

\* What a receipt may prove, of each number of shares that may be redeemed.
Proofs == [n \in 0 .. Total(Holding) + Cardinality(Buys) |-> IF n = 0 THEN {} ELSE Evidence(n)]

\* redemption_transactions: the redemption's receipt, or an incomplete list, of no use.
Listed == {0} \cup Proofs[redeemed]

\* What a receipt proves counts if its block is finalized.
Proved(n) == AtHead(0, n)

\* Proof::covers: the balance and the redeemed shares are the pool's claims and
\* its earlier credits, to the unit.
Covers(p, b) ==
  /\ p.balance + p.redeemed = Claimed(b)
  /\ p.redeemed >= Total(b.released)

\* verified_payouts: a proof of a claim, from the balance and the receipts.
ReadProof(n) ==
  /\ Running /\ Idle /\ ~proof.read
  /\ Owed(book) > 0 /\ PayoutIsFinal /\ n \in Listed
  /\ LET p == [read |-> TRUE, balance |-> FinalBalance, redeemed |-> Proved(n)]
     IN Covers(p, book) /\ proof' = p
  /\ UNCHANGED <<env, up, chain, seen, orders, memory, store, quiet, todo, recon, bounds>>

\* The rows book_verified_pool writes for a lane.
CreditRows(l) ==
  (IF book.released[l] > 0 THEN <<Row("credit", l, book.released[l], {})>> ELSE <<>>)
  \o (IF book.held[l] > 0 THEN <<Row("settle", l, book.held[l], {})>> ELSE <<>>)
CreditBatch == FoldSet(LAMBDA l, s : s \o CreditRows(l), <<>>, Lanes)

\* book_verified_pool: checked again, against the books as they are now.
Credit ==
  /\ Running /\ Idle /\ proof.read
  /\ rows' = IF ~fault /\ Covers(proof, book)
             THEN CreditBatch ELSE <<>>
  /\ proof' = NoProof
  /\ UNCHANGED <<env, up, chain, seen, orders, book, fault, store, quiet, todo, recon, bounds>>

-----------------------------------------------------------------------------
(* The process.                                                              *)

\* The engine stops, between any two rows.
Crash ==
  /\ up /\ crashes < MaxCrashes
  /\ "midsale" \in env \/ Unbooked(Sells) = {}
  /\ up' = FALSE /\ crashes' = crashes + 1
  /\ book' = Empty /\ fault' = FALSE /\ rows' = <<>>
  /\ todo' = {} /\ recon' = NoPass /\ proof' = NoProof
  /\ UNCHANGED <<env, chain, seen, orders, store, quiet, faults>>

\* Boot replays the journal; a line it cannot read halts buys.
Boot ==
  /\ ~up
  /\ up' = TRUE
  /\ book' = disk /\ fault' = (bad \/ torn)
  /\ bad' = (bad \/ torn)
  /\ todo' = Lanes
  /\ UNCHANGED <<env, chain, seen, orders, rows, disk, torn, quiet, recon, proof, bounds>>

\* The resolver books what the venue has matched, and the resolution task looks for
\* proofs of claims, again and again.
Resolver == \E o \in Orders : BookFill(o) \/ Close(o)
SettlesClaims == Credit \/ \E n \in Listed : ReadProof(n)

Trading == Resolver \/ \E o \in Orders : Place(o) \/ Match(o) \/ Die(o)
Writing == AppendRow \/ \E fate \in {"lost", "torn", "kept"} : AppendFails(fate)
Reconciling ==
  \/ CatchUp
  \/ \E empty \in BOOLEAN : ReconReads(empty)
  \/ ReconReadsFlight
  \/ \E l \in Lanes : Rest(l) \/ ReconLane(l)
  \/ \E l \in Lanes, his, trusted \in BOOLEAN : BootLane(l, his, trusted)
Settling == Resolve \/ Redeem \/ Finalize \/ SettlesClaims

Next == Trading \/ Writing \/ Reconciling \/ Settling \/ Crash \/ Boot

Spec == Init /\ [][Next]_vars

\* What the engine has begun it gets on with, the resolver and the resolution task
\* run again and again, and blocks become final.
GetsOn == Boot \/ AppendRow \/ \E l \in Lanes, his, trusted \in BOOLEAN : BootLane(l, his, trusted)
Fairness ==
  /\ WF_vars(GetsOn)
  /\ WF_vars(Resolver)
  /\ WF_vars(ReadProof(redeemed) \/ Credit)
  /\ WF_vars(Finalize)
FairSpec == Spec /\ Fairness

-----------------------------------------------------------------------------
(* Properties.                                                               *)

Ledgers == [held : [Lanes -> Nat], released : [Lanes -> Nat],
            settled : [Lanes -> Nat], keys : SUBSET Orders]

\* Every variable stays within its range.
TypeOK ==
  /\ env \subseteq AllPerils
  /\ up \in BOOLEAN /\ todo \subseteq Lanes
  /\ wallet \in Nat /\ redeemed \in Nat /\ seen \in Nat
  /\ final \in BOOLEAN /\ resolved \in BOOLEAN
  /\ orders \in [Orders -> Phases]
  /\ book \in Ledgers /\ disk \in Ledgers
  /\ torn \in BOOLEAN /\ bad \in BOOLEAN /\ fault \in BOOLEAN
  /\ quiet \subseteq Lanes

\* Whatever goes wrong, and however often the engine restarts, no share is
\* credited twice: the credits never exceed what the wallet held in the end.
CreditedOnce ==
  Total(book.settled) <= wallet + redeemed /\ Total(disk.settled) <= wallet + redeemed

Matched(S) == Cardinality({o \in S : orders[o] = "matched" /\ o \notin book.keys})
Calm == env = {} /\ ~bad

\* No share is forgotten or made up: what the books claim, hold released or have
\* credited is what the wallet holds or has redeemed, but for the fills that the
\* venue has made and the books are still to learn of.
Conserved ==
  up /\ Calm => Claimed(book) + Matched(Buys) = wallet + redeemed + Matched(Sells)

\* Reconciliation writes off only shares that somebody redeemed.
ReleasesAreRedeemed == up /\ Calm => Total(book.released) <= redeemed

\* In the end every share a lane claims is credited, if no write has failed.
ClaimsAreCredited ==
  (resolved /\ Calm /\ faults = 0)
    ~> (faults > 0 \/ (up /\ PoolClaim(book) = 0 /\ Total(book.released) = 0))
=============================================================================

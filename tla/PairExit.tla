------------------------------ MODULE PairExit -------------------------------
(* How a lane leaves a market of which it holds both outcomes.  A pair is    *)
(* worth one dollar and can be merged back into it on chain; what is left of *)
(* the longer leg is sold.  The merge task, the sweep, a flatten and the     *)
(* mirrored trades all work on the same two tokens at once.                  *)
(*                                                                           *)
(* The API shows the wallet as it is; a lag is Custody's matter.             *)
EXTENDS Integers, Sequences, FiniteSets, SequencesExt, FiniteSetsExt

CONSTANTS
  Legs,       \* the two tokens of the market
  MaxHeld,    \* bound: the shares bought of a leg in all
  MaxMerges   \* bound: the transactions sent

ASSUME PairAssumption ==
  /\ \E a, b \in Legs : a # b /\ Legs = {a, b}
  /\ MaxHeld \in Nat /\ MaxMerges \in Nat

VARIABLES
  enabled,  \* COPYBOT_MERGE_ENABLE, and a wallet to merge from; constant
  flat,     \* the leader holds nothing of the market
  wallet,   \* Legs -> the shares on chain
  held,     \* Legs -> the lane's shares in the ledger
  due,      \* Legs -> the shares sold whose booking is still to come
  bought,   \* Legs -> bound: the shares bought so far
  keys,     \* Ledger.booked_orders: the merges booked without a hash, by size
  tx,       \* the transactions, in the order they were sent: their sizes and fates
  at,       \* where the merge task is
  plan,     \* what it has read: pairs, the wallet before, what it sells
  claim,    \* MergeClaims: both legs are claimed
  obs,      \* the legs of which the sweep has seen an excess once
  sweep,    \* the leg the sweep works on: what it was shown, or what it is about to sell
  merged,   \* (past) the pairs the task has reported merged
  sold,     \* (past) the legs sold since the task read the wallet, until its verdict
  lapsed    \* (past) what has gone wrong with the booking of a merge

market == <<flat, wallet, held, due, bought>>
task   == <<at, plan, claim>>
sweeps == <<obs, sweep>>
past   == <<merged, sold, lapsed>>
vars   == <<enabled, market, keys, tx, task, sweeps, past>>

Fates == {"flying", "mined", "failed"}
Stages == {"idle", "looked", "planned", "claimed", "sent", "unknown", "sell"}

\* "half": only the first of the two rows of a merge was written.  "repeat": a second merge
\* of one size was taken for the first.  "misread": a merge was taken for done from a look
\* at the wallet, though both legs had been sold since the look before.
Lapses == {"half", "repeat", "misread"}

None == [leg |-> "none", does |-> "none", n |-> 0]
NoPlan == [pairs |-> 0, before |-> [t \in Legs |-> 0], sell |-> {}]
Zero == [t \in Legs |-> 0]

Least(f) == Min({f[t] : t \in Legs})
Less(f, t, n) == [f EXCEPT ![t] = IF @ > n THEN @ - n ELSE 0]
LessBoth(f, n) == [t \in Legs |-> IF f[t] > n THEN f[t] - n ELSE 0]
Sizes(fate) ==
  SumFunctionOnSet([k \in DOMAIN tx |-> IF tx[k].fate = fate THEN tx[k].size ELSE 0], DOMAIN tx)

Init ==
  /\ enabled \in BOOLEAN
  /\ flat = FALSE
  /\ wallet = Zero /\ held = Zero /\ due = Zero /\ bought = Zero
  /\ keys = {} /\ tx = <<>>
  /\ at = "idle" /\ plan = NoPlan /\ claim = FALSE
  /\ obs = {} /\ sweep = None
  /\ merged = 0 /\ sold = {} /\ lapsed = {}

-----------------------------------------------------------------------------
(* The market and the mirrored trades.                                       *)

LeaderMoves ==
  /\ flat' = ~flat
  /\ UNCHANGED <<enabled, wallet, held, due, bought, keys, tx, task, sweeps, past>>

\* He buys, and so does the lane.
Buy(t) ==
  /\ ~flat /\ bought[t] < MaxHeld
  /\ bought' = [bought EXCEPT ![t] = @ + 1]
  /\ wallet' = [wallet EXCEPT ![t] = @ + 1]
  /\ held' = [held EXCEPT ![t] = @ + 1]
  /\ UNCHANGED <<enabled, flat, due, keys, tx, task, sweeps, past>>

\* The task has read the wallet, and is not done with a merge.
Reading == at \in {"looked", "planned", "claimed", "sent", "unknown"}

\* A sale of n: the venue takes as much of it as it likes and the wallet has.
Sold(t, n) ==
  /\ \E m \in 1 .. n :
       /\ wallet[t] >= m
       /\ wallet' = [wallet EXCEPT ![t] = @ - m]
       /\ due' = [due EXCEPT ![t] = @ + m]
  /\ sold' = IF Reading THEN sold \cup {t} ELSE sold

\* Or nothing: it is refused, or nobody buys.
SoldOrNot(t, n) == Sold(t, n) \/ UNCHANGED <<wallet, due, sold>>

\* What was sold is booked, with the answer or by the resolver.
Book(t) ==
  /\ \E n \in 1 .. due[t] :
       /\ held' = Less(held, t, n)
       /\ due' = [due EXCEPT ![t] = @ - n]
  /\ UNCHANGED <<enabled, flat, wallet, bought, keys, tx, task, sweeps, past>>

\* His sell is mirrored, or tried again after he is out.
MirrorSell(t) ==
  /\ held[t] > 0 /\ Sold(t, 1)
  /\ UNCHANGED <<enabled, flat, held, bought, keys, tx, task, sweeps, merged, lapsed>>

\* The flatten task sells what the ledger holds, whoever has claimed it.
Flatten(t) ==
  /\ Sold(t, held[t])
  /\ UNCHANGED <<enabled, flat, held, bought, keys, tx, task, sweeps, merged, lapsed>>

-----------------------------------------------------------------------------
(* The sweep: what the lane holds beyond what its leader does.               *)

\* The wallet is read ...
SweepStarts(t) ==
  /\ sweep = None
  /\ sweep' = [leg |-> t, does |-> "read", n |-> wallet[t]]
  /\ UNCHANGED <<enabled, market, keys, tx, task, obs, past>>

\* Of what is shown and owned, all is too much if he is out of it, and what is beyond the
\* lane's share of his, if that is exceeded by half.
Sweepable == LET t == sweep.leg IN IF sweep.n < held[t] THEN sweep.n ELSE held[t]
Excess(target) == IF 2 * Sweepable > 3 * target THEN Sweepable - target ELSE 0
Targets == IF flat THEN {0} ELSE 0 .. MaxHeld

\* ... then his positions and the ledger.  An excess seen twice alike, a minute apart, is
\* sold, and dust that a sale has left at once; a claimed leg is left alone.
SweepLooks ==
  /\ sweep.does = "read"
  /\ IF claim
     THEN sweep' = None /\ UNCHANGED obs
     ELSE \E target \in Targets :
            IF Excess(target) = 0
            THEN sweep' = None /\ obs' = obs \ {sweep.leg}
            ELSE \/ /\ sweep.leg \in obs \/ (flat /\ Sweepable = 1)
                    /\ sweep' = [sweep EXCEPT !.does = "sell", !.n = Excess(target)]
                    /\ obs' = obs \ {sweep.leg}
                 \/ sweep' = None /\ obs' = obs \cup {sweep.leg}
  /\ UNCHANGED <<enabled, market, keys, tx, task, past>>

SweepSells ==
  /\ sweep.does = "sell"
  /\ SoldOrNot(sweep.leg, sweep.n)
  /\ sweep' = None
  /\ UNCHANGED <<enabled, flat, held, bought, keys, tx, task, obs, merged, lapsed>>

-----------------------------------------------------------------------------
(* The chain.                                                                *)

\* A merge burns as many of either leg, or reverts, whoever still waits for it; or the
\* transaction is lost.
Mine(k) ==
  /\ tx[k].fate = "flying"
  /\ IF \A t \in Legs : wallet[t] >= tx[k].size
     THEN tx' = [tx EXCEPT ![k].fate = "mined"] /\ wallet' = LessBoth(wallet, tx[k].size)
     ELSE tx' = [tx EXCEPT ![k].fate = "failed"] /\ UNCHANGED wallet
  /\ UNCHANGED <<enabled, flat, held, due, bought, keys, task, sweeps, past>>

Lose(k) ==
  /\ tx[k].fate = "flying"
  /\ tx' = [tx EXCEPT ![k].fate = "failed"]
  /\ UNCHANGED <<enabled, market, keys, task, sweeps, past>>

-----------------------------------------------------------------------------
(* The merge task.                                                           *)

Idles == at' = "idle" /\ plan' = NoPlan /\ sold' = {}

\* The task reads the wallet ...
Look ==
  /\ at = "idle" /\ Least(wallet) > 0
  /\ at' = "looked" /\ plan' = [NoPlan EXCEPT !.before = wallet]
  /\ UNCHANGED <<enabled, market, keys, tx, claim, sweeps, past>>

\* Whether the market has two outcomes, which is asked once and may not be answered.
Counted == BOOLEAN

\* ... then, with other lanes in between, his positions and the ledger (find_orphans: he is
\* out of the market, and both legs are held and shown).
FindOrphans(binary) ==
  /\ at = "looked"
  /\ IF flat /\ binary /\ Least(held) > 0
     THEN /\ at' = "planned"
          /\ plan' = [plan EXCEPT !.pairs = Least(held),
                                  !.sell = {t \in Legs : held[t] > Least(held)}]
          /\ UNCHANGED sold
     ELSE Idles
  /\ UNCHANGED <<enabled, market, keys, tx, claim, sweeps, merged, lapsed>>

\* The task only reports, or has no key to sign with.
Skip ==
  /\ at = "planned"
  /\ Idles
  /\ UNCHANGED <<enabled, market, keys, tx, claim, sweeps, merged, lapsed>>

Claim ==
  /\ at = "planned" /\ enabled
  /\ at' = "claimed" /\ claim' = TRUE
  /\ UNCHANGED <<enabled, market, keys, tx, plan, sweeps, past>>

\* What the task sells when it knows, or does not know, what became of the merge.
Decided(verdict) ==
  /\ at' = "sell"
  /\ plan' = [plan EXCEPT !.sell = IF verdict = "didnot" THEN Legs ELSE @]
  /\ sold' = {}

\* Without the operator's leave the claim is given back at once and both legs are sold,
\* claimed by nobody.
SellBoth ==
  /\ at = "planned" /\ ~enabled
  /\ Decided("didnot")
  /\ UNCHANGED <<enabled, market, keys, tx, claim, sweeps, merged, lapsed>>

\* send_safe_call: the simulation refuses it, or it is broadcast.
Refused ==
  /\ at = "claimed"
  /\ Decided("didnot")
  /\ UNCHANGED <<enabled, market, keys, tx, claim, sweeps, merged, lapsed>>

Send ==
  /\ at = "claimed" /\ Len(tx) < MaxMerges
  /\ \A t \in Legs : wallet[t] >= plan.pairs
  /\ tx' = Append(tx, [size |-> plan.pairs, fate |-> "flying"])
  /\ at' = "sent"
  /\ UNCHANGED <<enabled, market, keys, plan, claim, sweeps, past>>

Fate == tx[Len(tx)].fate

\* (History) A merge of a known key is not booked again; one that is inferred from the
\* wallet, while both legs were being sold, may be none.
Lapsing(known) ==
  lapsed' = lapsed \cup (IF known THEN {"repeat"} ELSE {})
                   \cup (IF at = "unknown" /\ sold = Legs THEN {"misread"} ELSE {})

\* Variant of Booked that books the first leg only.
BookedOneLeg(known) ==
  /\ held' = IF known THEN held ELSE Less(held, CHOOSE t \in Legs : TRUE, plan.pairs)
  /\ merged' = merged + plan.pairs
  /\ Lapsing(known)
  /\ Decided("merged")

\* book_merge: two fill rows, both or none; the ledger refuses a known key and
\* says it has booked it.
Booked(known) ==
  /\ held' = IF known THEN held ELSE LessBoth(held, plan.pairs)
  /\ merged' = merged + plan.pairs
  /\ Lapsing(known)
  /\ Decided("merged")

\* It books nothing, or gets no further than the first leg.
Unbooked ==
  /\ \/ UNCHANGED <<held, lapsed>>
     \/ /\ \E t \in Legs : held' = Less(held, t, plan.pairs)
        /\ lapsed' = lapsed \cup {"half"}
  /\ Decided("unresolved")
  /\ UNCHANGED merged

\* Variant of Receipt that does not read the receipt's status.
ReceiptUnread ==
  /\ at = "sent" /\ Fate # "flying"
  /\ Booked(FALSE)
  /\ UNCHANGED <<enabled, flat, wallet, due, bought, keys, tx, claim, sweeps>>

\* wait_receipt: the receipt says what happened.
Receipt ==
  /\ at = "sent"
  /\ \/ Fate = "mined" /\ (Booked(FALSE) \/ Unbooked)
     \/ Fate = "failed" /\ Decided("didnot") /\ UNCHANGED <<held, merged, lapsed>>
  /\ UNCHANGED <<enabled, flat, wallet, due, bought, keys, tx, claim, sweeps>>

\* The broadcast failed, or no receipt came for EXECUTOR_TIMEOUT_SECS.
GiveUp ==
  /\ at = "sent"
  /\ at' = "unknown"
  /\ UNCHANGED <<enabled, market, keys, tx, plan, claim, sweeps, past>>

Fell == [t \in Legs |-> plan.before[t] - wallet[t]]

\* confirm, on a second look at the wallet: nothing moved, both legs fell by the
\* pairs, or something else happened.
NotApplied == \A t \in Legs : Fell[t] = 0
Confirmed == \A t \in Legs : Fell[t] = plan.pairs /\ Fell[t] # 0

\* The wallet cannot be read, or says what became of the merge.  It is booked
\* under its market and size, for want of a hash.
Verify ==
  /\ at = "unknown"
  /\ \/ Decided("unresolved") /\ UNCHANGED <<held, keys, merged, lapsed>>
     \/ NotApplied /\ Decided("didnot") /\ UNCHANGED <<held, keys, merged, lapsed>>
     \/ /\ Confirmed /\ Booked(plan.pairs \in keys)
        /\ keys' = keys \cup {plan.pairs}
     \/ Confirmed /\ plan.pairs \notin keys /\ Unbooked /\ UNCHANGED keys
  /\ UNCHANGED <<enabled, flat, wallet, due, bought, tx, claim, sweeps>>

\* Each leg to sell is offered, for all the ledger holds of it by then.
SellLeg(t) ==
  /\ at = "sell" /\ t \in plan.sell
  /\ SoldOrNot(t, held[t])
  /\ plan' = [plan EXCEPT !.sell = @ \ {t}]
  /\ UNCHANGED <<enabled, flat, held, bought, keys, tx, at, claim, sweeps, merged, lapsed>>

\* The claim is given back, whatever is known of the merge.
Done ==
  /\ at = "sell" /\ plan.sell = {}
  /\ Idles /\ claim' = FALSE
  /\ UNCHANGED <<enabled, market, keys, tx, sweeps, merged, lapsed>>

\* The engine dies and starts again.
Restart ==
  /\ Idles /\ claim' = FALSE
  /\ obs' = {} /\ sweep' = None
  /\ UNCHANGED <<enabled, market, keys, tx, merged, lapsed>>

Traded == LeaderMoves \/ \E t \in Legs : Buy(t) \/ MirrorSell(t) \/ Flatten(t) \/ Book(t)
Swept == SweepLooks \/ SweepSells \/ \E t \in Legs : SweepStarts(t)
Chain == \E k \in DOMAIN tx : Mine(k) \/ Lose(k)
Merging ==
  \/ Look \/ \E binary \in Counted : FindOrphans(binary)
  \/ Skip \/ SellBoth \/ Claim \/ Refused \/ Send \/ Receipt \/ GiveUp \/ Verify
  \/ Done \/ \E t \in Legs : SellLeg(t)

Next == Traded \/ Swept \/ Chain \/ Merging \/ Restart

Spec == Init /\ [][Next]_vars

-----------------------------------------------------------------------------
(* Properties.                                                               *)

\* Every variable stays within its range.
TypeOK ==
  /\ flat \in BOOLEAN /\ claim \in BOOLEAN /\ enabled \in BOOLEAN
  /\ wallet \in [Legs -> Nat] /\ held \in [Legs -> Nat] /\ bought \in [Legs -> Nat]
  /\ due \in [Legs -> Nat]
  /\ obs \subseteq Legs /\ sold \subseteq Legs /\ lapsed \subseteq Lapses /\ merged \in Nat
  /\ at \in Stages
  /\ \A k \in DOMAIN tx : tx[k].fate \in Fates /\ tx[k].size \in Nat

\* The ledger and the wallet tell the same of either leg, but for the sales still to be
\* booked and the merges that landed and the task has not reported: whatever the sweep, a
\* flatten, the mirrored trades and the merge task do at once, and even if a transaction
\* lands late; until the booking of a merge goes wrong in one of three ways.
LegsAgree ==
  lapsed = {} =>
    \A t \in Legs : held[t] + merged = wallet[t] + due[t] + Sizes("mined")

\* No merge is reported that no transaction made, until one is inferred from the wallet while
\* both legs were being sold: sales of one leg, of any size, never pass for a merge.
MergedOnChain == "misread" \notin lapsed => merged <= Sizes("mined")
=============================================================================

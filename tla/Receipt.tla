------------------------------- MODULE Receipt -------------------------------
(* What the receipt of a redemption proves: how many shares of a condition's *)
(* two tokens one wallet has burnt for their payout.                         *)
(*                                                                           *)
(* A wallet redeems at the CTF itself, or through an adapter, or through a   *)
(* wrapper of that adapter; a relayer may put the calls of several wallets,  *)
(* for several conditions, into one transaction.  The contracts leave logs,  *)
(* in order; redemption.rs reads from them what our wallet alone redeemed,   *)
(* or refuses the receipt.                                                   *)
EXTENDS Naturals, Sequences, FiniteSets, FiniteSetsExt, Functions

Us == "us"
Sides == {"yes", "no"}
Routes == {"direct", "legacy", "wrapper"}
Refused == {}

-----------------------------------------------------------------------------
(* The contracts.  A move of shares by the CTF, a transfer of a coin, a      *)
(* payout by the CTF, and the event an adapter ends with.                    *)

Move(from, to, token, n) ==
  [ev |-> "move", by |-> "ctf", from |-> from, to |-> to, token |-> token, n |-> n]
Cash(coin, from, to, n) == [ev |-> "cash", by |-> coin, from |-> from, to |-> to, n |-> n]
Payout(who, coin, cond, n) ==
  [ev |-> "payout", by |-> "ctf", who |-> who, coin |-> coin, cond |-> cond, n |-> n]
Adapted(by, who, cond, n) ==
  [ev |-> "adapted", by |-> by, who |-> who, cond |-> cond, n |-> n]

\* A wallet's shares of both sides change hands, or are burnt.
Both(from, to, cond, units) ==
  <<Move(from, to, <<cond, "yes">>, units["yes"]), Move(from, to, <<cond, "no">>, units["no"])>>

\* The CTF burns all the redeemer has and pays for it.
AtCtf(who, coin, cond, units, paid) ==
  Both(who, "zero", cond, units) \o <<Cash(coin, "ctf", who, paid), Payout(who, coin, cond, paid)>>

\* The adapter takes the wallet's shares and redeems them with those that strayed to it.
AtLegacy(who, cond, units, stray, paid) ==
  Both(who, "legacy", cond, units)
  \o AtCtf("legacy", "wcol", cond, [s \in Sides |-> units[s] + stray], paid)

\* A call: whose it is, by which route, of which condition and how many shares; what the
\* market paid for a side is in worth.
Logs(call, worth) ==
  LET paid == call.units["yes"] * worth["yes"] + call.units["no"] * worth["no"]
                + (IF call.route = "direct" THEN 0 ELSE call.stray)
  IN CASE call.route = "direct" -> AtCtf(call.who, "usdc", call.cond, call.units, paid)
       [] call.route = "legacy" ->
            AtLegacy(call.who, call.cond, call.units, call.stray, paid)
            \o <<Cash("usdc", "wcol", call.who, paid), Adapted("legacy", call.who, call.cond, paid)>>
       [] call.route = "wrapper" ->
            Both(call.who, "wrapper", call.cond, call.units)
            \o AtLegacy("wrapper", call.cond, call.units, call.stray, paid)
            \o <<Adapted("legacy", "wrapper", call.cond, paid),
                 Cash("pusd", "zero", call.who, paid),
                 Adapted("wrapper", call.who, call.cond, paid)>>

\* The receipts of transactions by which our wallet redeems n shares of a token that is
\* paid or not, and some of the other: alone, or beside a call of another wallet or for
\* another condition, or in two parts.
Worths == {[yes |-> 1, no |-> 0], [yes |-> 0, no |-> 1]}
Call(who, route, cond, n, m, stray) ==
  [who |-> who, route |-> route, cond |-> cond, units |-> [yes |-> n, no |-> m], stray |-> stray]
Ours(n) == {Call(Us, r, "c", n, m, s) : r \in Routes, m \in {0, 1}, s \in {0, 1}}
Beside == {Call(w, r, c, 1, 1, 0) : w \in {Us, "them"}, r \in Routes, c \in {"c", "d"}}
            \ {Call(Us, r, "c", 1, 1, 0) : r \in Routes}
Receipts(n, worth) ==
  LET Pair(a, b) == Logs(a, worth) \o Logs(b, worth)
  IN {Logs(a, worth) : a \in Ours(n)}
     \cup {Pair(a, b) : a \in Ours(n), b \in Beside} \cup {Pair(b, a) : a \in Ours(n), b \in Beside}
     \cup {Pair(a, b) : a \in Ours(n - 1), b \in Ours(1)}

-----------------------------------------------------------------------------
(* verify_receipt, for the condition "c".                                    *)

\* The events that end a redemption of our wallet.
Terminals(logs) ==
  {i \in DOMAIN logs :
     logs[i].ev \in {"payout", "adapted"} /\ logs[i].who = Us /\ logs[i].cond = "c"}

\* The logs of one redemption: up to its end, from the one before by the same contract.
Segment(logs, end) ==
  LET before == {i \in 1 .. end - 1 :
                   logs[i].ev = logs[end].ev /\ logs[i].by = logs[end].by}
  IN SubSeq(logs, (IF before = {} THEN 0 ELSE Max(before)) + 1, end)

\* The sum of some of the logs.
Amount(logs, some) == SumFunctionOnSet([i \in DOMAIN logs |-> logs[i].n], some)

\* The shares of a token that went from one account to another before a log.
Moved(seg, token, from, to, before) ==
  Amount(seg, {i \in DOMAIN seg :
    i < before /\ seg[i].ev = "move" /\ seg[i].token = token
      /\ seg[i].from = from /\ seg[i].to = to})

CashReceived(seg, coin, from) ==
  Amount(seg, {i \in DOMAIN seg :
    seg[i].ev = "cash" /\ seg[i].by = coin /\ seg[i].from = from /\ seg[i].to = Us})

\* The burns of a token that a payout pays for.
Burns(seg, token, at) ==
  {i \in DOMAIN seg : i < at /\ seg[i].ev = "move" /\ seg[i].n > 0 /\ seg[i].token = token
                       /\ seg[i].from = seg[at].who /\ seg[i].to = "zero"}

\* Variant of Covered that trusts the adapter to burn no shares but the wallet's.
CoveredByAdapter(seg, token, at, root) == TRUE
\* What an adapter burnt came from our wallet, all of it, and nothing else of the token
\* moved.
Covered(seg, token, at, root) ==
  LET burns == Burns(seg, token, at)
      first == Min(burns)
      units == Amount(seg, burns)
      ways == {<<seg[at].who, "zero">>}
              \cup (IF root = Us THEN {} ELSE {<<Us, root>>, <<root, "legacy">>})
  IN /\ root # Us =>
          /\ Moved(seg, token, Us, root, first) = units
          /\ root # "legacy" => Moved(seg, token, root, "legacy", first) = units
     /\ \A i \in DOMAIN seg :
          seg[i].ev = "move" /\ seg[i].n > 0 /\ seg[i].token = token
            => <<seg[i].from, seg[i].to>> \in ways

\* The payout reached our wallet, by the way the route takes.
Delivered(seg, direct, paid) ==
  LET last == seg[Len(seg)] IN
  CASE direct -> CashReceived(seg, last.coin, "ctf") = paid
    [] ~direct /\ last.by = "wrapper" -> last.n = paid /\ CashReceived(seg, "pusd", "zero") = paid
    [] ~direct /\ last.by = "legacy" -> last.n = paid /\ CashReceived(seg, "usdc", "wcol") = paid

\* How many shares of our token the segment burnt, if the whole of it can be accounted for.
Accounted(seg, worth) ==
  LET direct == seg[Len(seg)].ev = "payout"
      pays == {i \in DOMAIN seg : seg[i].ev = "payout"}
      at == Max(pays)
      pay == seg[at]
      root == IF direct THEN Us ELSE seg[Len(seg)].by
      units == [s \in Sides |-> Amount(seg, Burns(seg, <<"c", s>>, at))]
      burnt == {s \in Sides : units[s] > 0}
      paid == units["yes"] * worth["yes"] + units["no"] * worth["no"]
  IN IF /\ Cardinality(pays) = 1 /\ pay.cond = "c"
        /\ IF direct THEN pay.coin \in {"usdc", "pusd"}
                     ELSE pay.who = "legacy" /\ pay.coin = "wcol"
        /\ burnt # {} /\ paid = pay.n
        /\ \A s \in burnt : Covered(seg, <<"c", s>>, at, root)
        /\ Delivered(seg, direct, pay.n)
     THEN {units["yes"]} ELSE Refused

\* What the receipt proves our wallet redeemed of its token: one number, or nothing.
VerifyReceipt(logs, worth) ==
  LET ends == Terminals(logs) IN
  IF Cardinality(ends) # 1 THEN Refused
  ELSE Accounted(Segment(logs, Max(ends)), worth)

\* What the receipts of a redemption of n shares may prove.
Evidence(n) ==
  UNION {UNION {VerifyReceipt(logs, worth) : logs \in Receipts(n, worth)} : worth \in Worths}
=============================================================================

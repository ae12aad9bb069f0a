---------------------------- MODULE PairExitProofs -----------------------------
(* Our exits.  The ledger and the wallet of a pair, proved for any number of *)
(* shares bought and of transactions sent; and, in the second part, that     *)
(* what a lane sells is what its leader sold, for any number of his trades.  *)
EXTENDS PairExit, Follow, Sums

\* A transaction, what the task has read, and what the sweep works on.
Txs == [size : Nat, fate : Fates]
Sent == Seq(Txs)
Plans == [pairs : Nat, before : [Legs -> Nat], sell : SUBSET Legs]
Sweeps == {None} \cup [leg : Legs, does : {"read", "sell"}, n : Nat]

\* The ranges of the variables.
Typed ==
  /\ enabled \in BOOLEAN /\ flat \in BOOLEAN /\ claim \in BOOLEAN
  /\ wallet \in [Legs -> Nat] /\ held \in [Legs -> Nat] /\ bought \in [Legs -> Nat]
  /\ due \in [Legs -> Nat] /\ merged \in Nat
  /\ obs \subseteq Legs /\ sold \subseteq Legs /\ lapsed \subseteq Lapses
  /\ at \in Stages /\ plan \in Plans /\ sweep \in Sweeps
  /\ tx \in Sent

Mined == Sizes("mined")
Misread == "misread" \in lapsed

\* The transaction that is waited for is the last one; when it is mined, so many pairs were
\* mined that are not reported.
Waited ==
  at = "sent" =>
    /\ Len(tx) > 0 /\ tx[Len(tx)].size = plan.pairs
    /\ Fate = "mined" => Misread \/ merged + plan.pairs <= Mined

\* A leg that was not sold since the task read the wallet has lost no more since than merges
\* have burnt that nobody has reported.
Read ==
  Reading => Misread \/ \A u \in Legs \ sold : merged + plan.before[u] <= Mined + wallet[u]

PInv == Typed /\ MergedOnChain /\ LegsAgree /\ Waited /\ Read

-----------------------------------------------------------------------------
(* The transactions.                                                         *)

Ended(s, k, end) == [s EXCEPT ![k].fate = end]
Extended(s, n) == Append(s, [size |-> n, fate |-> "flying"])
Weights(s) == [k \in DOMAIN s |-> IF s[k].fate = "mined" THEN s[k].size ELSE 0]

\* The sizes of the transactions add up to a number of pairs.
LEMMA SizesNat == ASSUME NEW s \in Sent
  PROVE SumFunctionOnSet(Weights(s), DOMAIN s) \in Nat /\ IsFiniteSet(DOMAIN s)
  <1>1. DOMAIN s = 1..Len(s) /\ Len(s) \in Nat
    BY DEF Sent
  <1>2. IsFiniteSet(DOMAIN s)
    BY <1>1, FS_Interval
  <1>3. \A k \in DOMAIN s : Weights(s)[k] \in Nat
    <2>1. \A k \in DOMAIN s : s[k] \in Txs
      BY DEF Sent
    <2> QED
      BY <2>1 DEF Weights, Txs
  <1> QED
    BY <1>2, <1>3, SumNat

\* When one transaction changes, the sum changes by as much.
LEMMA SizesChange ==
  ASSUME NEW s, NEW r, NEW D, IsFiniteSet(D), DOMAIN s = D, DOMAIN r = D,
         \A j \in D : s[j].size \in Nat /\ r[j].size \in Nat,
         NEW k \in D, \A j \in D : j # k => r[j] = s[j]
  PROVE SumFunctionOnSet(Weights(r), D) =
          SumFunctionOnSet(Weights(s), D) + (Weights(r)[k] - Weights(s)[k])
  <1> DEFINE f == Weights(s)
             g == Weights(r)
  <1>1. \A j \in D : f[j] \in Int /\ g[j] \in Int
    BY DEF Weights
  <1>2. \A j \in D \ {k} : f[j] = g[j]
    BY DEF Weights
  <1> HIDE DEF f, g
  <1>3. SumFunctionOnSet(g, D) = SumFunctionOnSet(f, D) + (g[k] - f[k])
    BY <1>1, <1>2, SumUpdate
  <1> QED
    BY <1>3 DEF f, g

\* What flies and ends adds its size if it is mined.
LEMMA SizesEnd ==
  ASSUME NEW s \in Sent, NEW k \in DOMAIN s, s[k].fate = "flying", NEW end \in Fates,
         NEW r, r = Ended(s, k, end)
  PROVE /\ r \in Sent /\ Len(r) = Len(s) /\ DOMAIN r = DOMAIN s
        /\ r[k].fate = end /\ r[k].size = s[k].size
        /\ \A j \in DOMAIN s : j # k => r[j] = s[j]
        /\ SumFunctionOnSet(Weights(r), DOMAIN r) =
             SumFunctionOnSet(Weights(s), DOMAIN s) + (IF end = "mined" THEN s[k].size ELSE 0)
  <1>1. s[k] \in Txs /\ DOMAIN r = DOMAIN s
    BY DEF Ended, Sent
  <1>2. r[k].fate = end /\ r[k].size = s[k].size /\ r[k] \in Txs
    BY <1>1 DEF Txs, Ended
  <1>3. \A j \in DOMAIN s : j # k => r[j] = s[j]
    BY DEF Ended
  <1>4. r \in Sent /\ Len(r) = Len(s)
    <2>1. DOMAIN s = 1..Len(s) /\ Len(s) \in Nat /\ \A j \in DOMAIN s : s[j] \in Txs
      BY DEF Sent
    <2>2. \A j \in 1..Len(s) : r[j] \in Txs
      BY <1>2, <1>3, <2>1
    <2>3. r \in [1..Len(s) -> Txs]
      BY <2>1, <2>2 DEF Ended
    <2> QED
      BY <2>1, <2>3 DEF Sent
  <1>5. /\ Weights(s)[k] = 0
        /\ Weights(r)[k] = IF end = "mined" THEN s[k].size ELSE 0
    BY <1>1, <1>2 DEF Weights
  <1>6. s[k].size \in Nat /\ SumFunctionOnSet(Weights(s), DOMAIN s) \in Nat
    BY <1>1, SizesNat DEF Txs
  <1>7. SumFunctionOnSet(Weights(r), DOMAIN r) =
          SumFunctionOnSet(Weights(s), DOMAIN s) +
            (Weights(r)[k] - Weights(s)[k])
    <2>1. /\ IsFiniteSet(DOMAIN s)
          /\ \A j \in DOMAIN s : s[j].size \in Nat /\ r[j].size \in Nat
      <3>1. \A j \in DOMAIN s : s[j] \in Txs /\ r[j] \in Txs
        BY <1>1, <1>4 DEF Sent
      <3> QED
        BY <3>1, SizesNat DEF Txs
    <2>2. SumFunctionOnSet(Weights(r), DOMAIN s) =
            SumFunctionOnSet(Weights(s), DOMAIN s) +
              (Weights(r)[k] - Weights(s)[k])
      BY <1>1, <1>3, <2>1, SizesChange
    <2> QED
      BY <1>1, <2>2
  <1>8. SumFunctionOnSet(Weights(r), DOMAIN r) =
          SumFunctionOnSet(Weights(s), DOMAIN s) + (IF end = "mined" THEN s[k].size ELSE 0)
    BY <1>5, <1>6, <1>7
  <1> QED
    BY <1>1, <1>2, <1>3, <1>4, <1>8

\* What is sent adds nothing yet.
LEMMA SizesSend ==
  ASSUME NEW s \in Sent, NEW n \in Nat, NEW r,
         r = Extended(s, n)
  PROVE /\ r \in Sent /\ Len(r) = Len(s) + 1
        /\ r[Len(r)] = [size |-> n, fate |-> "flying"]
        /\ SumFunctionOnSet(Weights(r), DOMAIN r) =
             SumFunctionOnSet(Weights(s), DOMAIN s)
  <1> DEFINE y == Len(s) + 1
             x == [size |-> n, fate |-> "flying"]
             f == Weights(s)
             g == Weights(r)
  <1>1. x \in Txs
    BY DEF Txs, Fates
  <1>2. /\ r \in Sent /\ Len(r) = y /\ r[y] = x
        /\ \A j \in DOMAIN s : r[j] = s[j]
        /\ DOMAIN r = DOMAIN s \cup {y} /\ y \notin DOMAIN s
    BY <1>1 DEF Sent, Extended
  <1>3. \A j \in DOMAIN s \cup {y} : g[j] \in Int
    <2>1. \A j \in DOMAIN r : r[j] \in Txs
      BY <1>2 DEF Sent
    <2> QED
      BY <1>2, <2>1 DEF Weights, Txs
  <1>4. \A j \in DOMAIN s : f[j] = g[j]
    BY <1>2 DEF Weights
  <1>5. g[y] = 0
    BY <1>2 DEF Weights
  <1>6. SumFunctionOnSet(f, DOMAIN s) \in Nat /\ IsFiniteSet(DOMAIN s)
    BY SizesNat
  <1> HIDE DEF f, g, y, x
  <1>7. SumFunctionOnSet(g, DOMAIN s \cup {y}) = g[y] + SumFunctionOnSet(g, DOMAIN s)
    BY <1>2, <1>3, <1>6, SumAdd
  <1>8. SumFunctionOnSet(f, DOMAIN s) = SumFunctionOnSet(g, DOMAIN s)
    BY <1>4, <1>6, SumSame
  <1>9. SumFunctionOnSet(g, DOMAIN r) = SumFunctionOnSet(f, DOMAIN s)
    <2>1. SumFunctionOnSet(g, DOMAIN s \cup {y}) = SumFunctionOnSet(f, DOMAIN s)
      BY <1>5, <1>6, <1>7, <1>8
    <2>2. DOMAIN r = DOMAIN s \cup {y}
      BY <1>2
    <2> QED
      BY <2>1, <2>2, Zenon
  <1> QED
    BY <1>2, <1>9 DEF f, g, y, x

\* The pairs mined, in terms of the lemmas above.
LEMMA MinedSum ==
  /\ Mined = SumFunctionOnSet(Weights(tx), DOMAIN tx)
  /\ Mined' = SumFunctionOnSet(Weights(tx'), DOMAIN tx')
  BY DEF Mined, Sizes, Weights

\* The smaller of the two legs is one of them.
LEMMA LeastOfLegs ==
  ASSUME NEW f \in [Legs -> Nat]
  PROVE Least(f) \in Nat /\ (\E t \in Legs : Least(f) = f[t]) /\ \A t \in Legs : Least(f) <= f[t]
  <1>1. PICK a \in Legs, b \in Legs : a # b /\ Legs = {a, b}
    BY PairAssumption
  <1> DEFINE S == {f[t] : t \in Legs}
  <1>2. S = {f[a], f[b]} /\ f[a] \in Nat /\ f[b] \in Nat
    BY <1>1
  <1>3. \E x \in S : \A y \in S : x <= y
    BY <1>2
  <1>4. Least(f) \in S /\ \A y \in S : Least(f) <= y
    BY <1>3 DEF Least, Min
  <1> QED
    BY <1>2, <1>4

-----------------------------------------------------------------------------
(* What the steps do to the ledger, the wallet and the transactions.         *)

\* What a sale takes from the wallet is to be booked, and while the task has read the wallet
\* the leg counts as sold.
LEMMA SoldFact ==
  ASSUME Typed, NEW t \in Legs, NEW n \in Nat, Sold(t, n)
  PROVE /\ wallet' \in [Legs -> Nat] /\ due' \in [Legs -> Nat]
        /\ \A u \in Legs : wallet'[u] + due'[u] = wallet[u] + due[u]
        /\ \A u \in Legs : u # t => wallet'[u] = wallet[u]
        /\ sold' \subseteq Legs /\ sold \subseteq sold' /\ (Reading => t \in sold')
  <1>1. PICK m \in 1 .. n :
          /\ wallet[t] >= m
          /\ wallet' = [wallet EXCEPT ![t] = wallet[t] - m]
          /\ due' = [due EXCEPT ![t] = due[t] + m]
    BY DEF Sold
  <1>2. wallet[t] \in Nat /\ due[t] \in Nat /\ m \in Nat
    BY DEF Typed
  <1>3. wallet' \in [Legs -> Nat] /\ due' \in [Legs -> Nat]
    BY <1>1, <1>2 DEF Typed
  <1>4. /\ wallet'[t] = wallet[t] - m /\ due'[t] = due[t] + m
        /\ \A u \in Legs : u # t => wallet'[u] = wallet[u] /\ due'[u] = due[u]
    BY <1>1, <1>2 DEF Typed
  <1>5. \A u \in Legs : wallet'[u] + due'[u] = wallet[u] + due[u]
    BY <1>2, <1>4 DEF Typed
  <1>6. sold' \subseteq Legs /\ sold \subseteq sold' /\ (Reading => t \in sold')
    BY DEF Sold, Typed
  <1> QED
    BY <1>3, <1>4, <1>5, <1>6

\* One that fails adds nothing to what was mined.
LEMMA FailedFact ==
  ASSUME Typed, NEW k \in DOMAIN tx, tx[k].fate = "flying", tx' = Ended(tx, k, "failed")
  PROVE /\ tx' \in Sent /\ Len(tx') = Len(tx)
        /\ tx'[k].size = tx[k].size /\ tx'[k].fate = "failed"
        /\ \A j \in DOMAIN tx : j # k => tx'[j] = tx[j]
        /\ Mined' = Mined
  <1> DEFINE before == SumFunctionOnSet(Weights(tx), DOMAIN tx)
             after == SumFunctionOnSet(Weights(tx'), DOMAIN tx')
  <1>1. before \in Nat
    BY SizesNat DEF Typed
  <1>2. /\ tx' \in Sent /\ Len(tx') = Len(tx)
        /\ tx'[k].size = tx[k].size /\ tx'[k].fate = "failed"
        /\ \A j \in DOMAIN tx : j # k => tx'[j] = tx[j]
        /\ after = before + (IF "failed" = "mined" THEN tx[k].size ELSE 0)
    BY SizesEnd DEF Typed, Fates
  <1> HIDE DEF before, after
  <1>3. after = before
    BY <1>1, <1>2
  <1>4. Mined = before /\ Mined' = after
    BY MinedSum DEF before, after
  <1> QED
    BY <1>2, <1>3, <1>4

\* A transaction that is mined burns a pair of either leg for each of its size.
LEMMA MineFact ==
  ASSUME Typed, NEW k \in DOMAIN tx, Mine(k)
  PROVE /\ tx' \in Sent /\ Len(tx') = Len(tx) /\ tx[k].size \in Nat
        /\ tx'[k].size = tx[k].size /\ tx'[k].fate \in {"mined", "failed"}
        /\ \A j \in DOMAIN tx : j # k => tx'[j] = tx[j]
        /\ wallet' \in [Legs -> Nat] /\ Mined \in Nat
        /\ IF tx'[k].fate = "mined"
           THEN Mined' = Mined + tx[k].size /\ \A t \in Legs : wallet[t] = wallet'[t] + tx[k].size
           ELSE Mined' = Mined /\ wallet' = wallet
  <1>1. tx[k].fate = "flying" /\ tx[k].size \in Nat
    <2>1. tx[k] \in Txs
      BY DEF Typed, Sent
    <2>2. tx[k].fate = "flying"
      BY DEF Mine
    <2> QED
      BY <2>1, <2>2 DEF Txs
  <1>2. Mined \in Nat
    BY SizesNat, MinedSum DEF Typed
  <1>3. CASE \A t \in Legs : wallet[t] >= tx[k].size
    <2>1. tx' = Ended(tx, k, "mined") /\ wallet' = LessBoth(wallet, tx[k].size)
      BY <1>3 DEF Mine, Ended
    <2>2. wallet' \in [Legs -> Nat] /\ \A t \in Legs : wallet[t] = wallet'[t] + tx[k].size
      BY <1>1, <1>3, <2>1 DEF LessBoth, Typed
    <2> QED
      BY <1>1, <1>2, <2>1, <2>2, SizesEnd, MinedSum DEF Typed, Fates
  <1>4. CASE ~\A t \in Legs : wallet[t] >= tx[k].size
    <2>1. tx' = Ended(tx, k, "failed") /\ wallet' = wallet
      BY <1>4 DEF Mine, Ended
    <2>2. /\ tx' \in Sent /\ Len(tx') = Len(tx) /\ tx'[k].fate = "failed"
          /\ tx'[k].size = tx[k].size /\ \A j \in DOMAIN tx : j # k => tx'[j] = tx[j]
          /\ Mined' = Mined
      BY <1>1, <2>1, FailedFact
    <2> QED
      BY <1>1, <1>2, <2>1, <2>2 DEF Typed
  <1> QED
    BY <1>3, <1>4

\* One that is lost burns nothing.
LEMMA LoseFact ==
  ASSUME Typed, NEW k \in DOMAIN tx, Lose(k)
  PROVE /\ tx' \in Sent /\ Len(tx') = Len(tx)
        /\ tx'[k].size = tx[k].size /\ tx'[k].fate = "failed"
        /\ \A j \in DOMAIN tx : j # k => tx'[j] = tx[j]
        /\ Mined \in Nat /\ Mined' = Mined
  <1>1. tx[k].fate = "flying" /\ tx' = Ended(tx, k, "failed")
    BY DEF Lose, Ended
  <1>2. Mined \in Nat
    BY SizesNat, MinedSum DEF Typed
  <1> QED
    BY <1>1, <1>2, FailedFact

\* One that is sent flies.
LEMMA SendFact ==
  ASSUME Typed, Send
  PROVE /\ tx' \in Sent /\ Len(tx') > 0
        /\ tx'[Len(tx')].size = plan.pairs /\ tx'[Len(tx')].fate = "flying"
        /\ Mined \in Nat /\ Mined' = Mined
  <1>1. plan.pairs \in Nat
    BY DEF Typed, Plans
  <1>2. tx' = Extended(tx, plan.pairs)
    BY DEF Send, Extended
  <1>3. Mined \in Nat
    BY SizesNat, MinedSum DEF Typed
  <1>4. Len(tx) \in Nat
    BY DEF Typed, Sent
  <1>5. /\ tx' \in Sent /\ Len(tx') = Len(tx) + 1
        /\ tx'[Len(tx')] = [size |-> plan.pairs, fate |-> "flying"]
        /\ SumFunctionOnSet(Weights(tx'), DOMAIN tx') =
             SumFunctionOnSet(Weights(tx), DOMAIN tx)
    BY <1>1, <1>2, SizesSend DEF Typed
  <1> QED
    BY <1>3, <1>4, <1>5, MinedSum

\* What the task decides is a plan.
LEMMA DecidedFact ==
  ASSUME Typed, NEW v \in {"didnot", "merged", "unresolved"}, Decided(v)
  PROVE /\ at' = "sell" /\ plan' \in Plans /\ sold' = {}
        /\ ~(at' = "sent") /\ ~Reading'
  BY DEF Decided, Typed, Plans, Reading

\* Booking takes the pairs from both legs, or from neither, and says so.
LEMMA BookedFact ==
  ASSUME Typed, NEW known \in BOOLEAN, Booked(known)
  PROVE /\ at' = "sell" /\ plan' \in Plans /\ sold' = {} /\ ~Reading'
        /\ held' \in [Legs -> Nat]
        /\ plan.pairs \in Nat /\ merged' = merged + plan.pairs
        /\ \A t \in Legs :
             held'[t] = IF known THEN held[t]
                        ELSE IF held[t] > plan.pairs THEN held[t] - plan.pairs ELSE 0
        /\ lapsed' \subseteq Lapses /\ lapsed \subseteq lapsed'
        /\ (known => "repeat" \in lapsed')
        /\ (at = "unknown" /\ sold = Legs => Misread')
  <1>1. plan.pairs \in Nat
    BY DEF Typed, Plans
  <1>2. at' = "sell" /\ plan' \in Plans /\ sold' = {} /\ ~Reading'
    BY DecidedFact DEF Booked
  <1>3. /\ lapsed' \subseteq Lapses /\ lapsed \subseteq lapsed'
        /\ (known => "repeat" \in lapsed')
        /\ (at = "unknown" /\ sold = Legs => Misread')
    <2>1. lapsed' = lapsed \cup (IF known THEN {"repeat"} ELSE {})
                           \cup (IF at = "unknown" /\ sold = Legs THEN {"misread"} ELSE {})
      BY DEF Booked, Lapsing
    <2>2. lapsed' \subseteq Lapses
      BY <2>1 DEF Lapses, Typed
    <2> QED
      BY <2>1, <2>2 DEF Misread
  <1>4. /\ held' = IF known THEN held
                   ELSE [t \in Legs |-> IF held[t] > plan.pairs THEN held[t] - plan.pairs ELSE 0]
        /\ merged' = merged + plan.pairs
    BY DEF Booked, LessBoth
  <1>5. /\ held' \in [Legs -> Nat]
        /\ \A t \in Legs :
             held'[t] = IF known THEN held[t]
                        ELSE IF held[t] > plan.pairs THEN held[t] - plan.pairs ELSE 0
    BY <1>1, <1>4 DEF Typed
  <1> QED
    BY <1>1, <1>2, <1>3, <1>4, <1>5

\* The ledger knows the merge, or it does not.
LEMMA BookedEither ==
  ASSUME Booked(plan.pairs \in keys)
  PROVE \E known \in BOOLEAN : Booked(known)
  <1>1. CASE plan.pairs \in keys
    <2>1. Booked(TRUE)
      BY <1>1 DEF Booked, Lapsing
    <2> QED
      BY <2>1
  <1>2. CASE plan.pairs \notin keys
    <2>1. Booked(FALSE)
      BY <1>2 DEF Booked, Lapsing
    <2> QED
      BY <2>1
  <1> QED
    BY <1>1, <1>2

\* What is not booked leaves both legs, or it is said that one row was written.
LEMMA UnbookedFact ==
  ASSUME Typed, Unbooked
  PROVE /\ at' = "sell" /\ plan' \in Plans /\ sold' = {} /\ ~Reading'
        /\ held' \in [Legs -> Nat] /\ merged' = merged
        /\ lapsed' \subseteq Lapses /\ (lapsed' = lapsed \/ lapsed' = lapsed \cup {"half"})
        /\ lapsed' = {} => held' = held
  <1>1. plan.pairs \in Nat
    BY DEF Typed, Plans
  <1>2. at' = "sell" /\ plan' \in Plans /\ sold' = {} /\ ~Reading' /\ merged' = merged
    BY DecidedFact DEF Unbooked
  <1>3. CASE UNCHANGED <<held, lapsed>>
    BY <1>2, <1>3 DEF Typed
  <1>4. ASSUME NEW t \in Legs, held' = Less(held, t, plan.pairs), lapsed' = lapsed \cup {"half"}
        PROVE held' \in [Legs -> Nat] /\ lapsed' \subseteq Lapses /\ lapsed' # {}
    BY <1>1, <1>4 DEF Less, Typed, Lapses
  <1> QED
    BY <1>2, <1>3, <1>4 DEF Unbooked

-----------------------------------------------------------------------------
(* The ranges.                                                               *)

\* Every step keeps every variable within its range.
LEMMA TypedStep == Typed /\ [Next]_vars => Typed'
  <1> SUFFICES ASSUME Typed, [Next]_vars PROVE Typed'
    OBVIOUS
  <1>0. /\ NoPlan \in Plans /\ None \in Sweeps /\ Zero \in [Legs -> Nat]
    BY DEF NoPlan, Plans, Sweeps, Zero
  <1>1. CASE LeaderMoves
    BY <1>1 DEF LeaderMoves, Typed, task, sweeps, past
  <1>2. ASSUME NEW t \in Legs, Buy(t) PROVE Typed'
    BY <1>2 DEF Buy, Typed, task, sweeps, past
  <1>3. ASSUME NEW t \in Legs, MirrorSell(t) PROVE Typed'
    BY <1>3, SoldFact DEF MirrorSell, Typed, task, sweeps
  <1>4. ASSUME NEW t \in Legs, Flatten(t) PROVE Typed'
    <2>1. held[t] \in Nat
      BY DEF Typed
    <2> QED
      BY <1>4, <2>1, SoldFact DEF Flatten, Typed, task, sweeps
  <1>5. ASSUME NEW t \in Legs, Book(t) PROVE Typed'
    <2>1. PICK n \in 1 .. due[t] :
            held' = Less(held, t, n) /\ due' = [due EXCEPT ![t] = due[t] - n]
      BY <1>5 DEF Book
    <2>2. held' \in [Legs -> Nat] /\ due' \in [Legs -> Nat]
      BY <2>1 DEF Less, Typed
    <2> QED
      BY <1>5, <2>2 DEF Book, Typed, task, sweeps, past
  <1>6. ASSUME NEW t \in Legs, SweepStarts(t) PROVE Typed'
    <2>1. sweep' \in Sweeps
      BY <1>6 DEF SweepStarts, Sweeps, Typed
    <2> QED
      BY <1>6, <2>1 DEF SweepStarts, Typed, market, task, past
  <1>7. CASE SweepLooks
    <2>1. /\ sweep.leg \in Legs /\ sweep.n \in Nat
          /\ sweep \in [leg : Legs, does : {"read", "sell"}, n : Nat]
      <3>1. sweep.does = "read" /\ None.does = "none"
        BY <1>7 DEF SweepLooks, None
      <3>2. sweep # None
        BY <3>1
      <3>3. sweep \in [leg : Legs, does : {"read", "sell"}, n : Nat]
        BY <3>2 DEF Sweeps, Typed
      <3> QED
        BY <3>3
    <2>2. Sweepable \in Nat
      BY <2>1 DEF Sweepable, Typed
    <2>3. \A target \in Targets : target \in Nat /\ Excess(target) \in Nat
      <3>1. \A target \in Targets : target \in Nat
        BY PairAssumption DEF Targets
      <3> QED
        BY <2>2, <3>1 DEF Excess
    <2>4. sweep' \in Sweeps /\ obs' \subseteq Legs
      <3>1. \A n \in Nat : [sweep EXCEPT !.does = "sell", !.n = n] \in Sweeps
        BY <2>1 DEF Sweeps
      <3>2. CASE claim
        BY <1>0, <1>7, <3>2 DEF SweepLooks, Typed
      <3>3. CASE ~claim
        <4>1. PICK target \in Targets :
                IF Excess(target) = 0
                THEN sweep' = None /\ obs' = obs \ {sweep.leg}
                ELSE \/ /\ sweep.leg \in obs \/ (flat /\ Sweepable = 1)
                        /\ sweep' = [sweep EXCEPT !.does = "sell", !.n = Excess(target)]
                        /\ obs' = obs \ {sweep.leg}
                     \/ sweep' = None /\ obs' = obs \cup {sweep.leg}
          BY <1>7, <3>3 DEF SweepLooks
        <4>2. sweep' = None \/ sweep' = [sweep EXCEPT !.does = "sell", !.n = Excess(target)]
          BY <4>1
        <4>3. obs' \subseteq Legs
          BY <2>1, <4>1 DEF Typed
        <4> QED
          BY <1>0, <2>3, <3>1, <4>2, <4>3
      <3> QED
        BY <3>2, <3>3
    <2> QED
      BY <1>7, <2>4 DEF SweepLooks, Typed, market, task, past
  <1>8. CASE SweepSells
    <2>1. sweep.leg \in Legs /\ sweep.n \in Nat
      BY <1>8 DEF SweepSells, Typed, Sweeps, None
    <2>2. wallet' \in [Legs -> Nat] /\ due' \in [Legs -> Nat] /\ sold' \subseteq Legs
      BY <1>8, <2>1, SoldFact DEF SweepSells, SoldOrNot, Typed
    <2> QED
      BY <1>0, <1>8, <2>2 DEF SweepSells, Typed, task
  <1>9. ASSUME NEW k \in DOMAIN tx, Mine(k) PROVE Typed'
    <2>1. tx' \in Sent /\ wallet' \in [Legs -> Nat]
      BY <1>9, MineFact
    <2> QED
      BY <1>9, <2>1 DEF Mine, Typed, task, sweeps, past
  <1>10. ASSUME NEW k \in DOMAIN tx, Lose(k) PROVE Typed'
    <2>1. tx' \in Sent
      BY <1>10, LoseFact
    <2> QED
      BY <1>10, <2>1 DEF Lose, Typed, market, task, sweeps, past
  <1>11. CASE Look
    <2>1. plan' \in Plans /\ at' \in Stages
      BY <1>11 DEF Look, NoPlan, Plans, Stages, Typed
    <2> QED
      BY <1>11, <2>1 DEF Look, Typed, market, sweeps, past
  <1>12. ASSUME NEW binary \in Counted, FindOrphans(binary) PROVE Typed'
    <2>1. Least(held) \in Nat
      BY LeastOfLegs DEF Typed
    <2>2. plan' \in Plans /\ at' \in Stages /\ sold' \subseteq Legs
      <3>1. CASE flat /\ binary /\ Least(held) > 0
        <4>1. /\ at' = "planned" /\ sold' = sold
              /\ plan' = [plan EXCEPT !.pairs = Least(held),
                                      !.sell = {t \in Legs : held[t] > Least(held)}]
          BY <1>12, <3>1 DEF FindOrphans
        <4> QED
          BY <2>1, <4>1 DEF Plans, Stages, Typed
      <3>2. CASE ~(flat /\ binary /\ Least(held) > 0)
        BY <1>0, <1>12, <3>2 DEF FindOrphans, Idles, Stages
      <3> QED
        BY <3>1, <3>2
    <2> QED
      BY <1>12, <2>2 DEF FindOrphans, Typed, market, sweeps
  <1>13. CASE Skip
    BY <1>0, <1>13 DEF Skip, Idles, Stages, Typed, market, sweeps
  <1>14. CASE SellBoth
    <2>1. at' = "sell" /\ plan' \in Plans /\ sold' = {}
      BY <1>14, DecidedFact DEF SellBoth
    <2> QED
      BY <1>14, <2>1 DEF SellBoth, Stages, Typed, market, sweeps
  <1>15. CASE Claim
    BY <1>15 DEF Claim, Stages, Typed, market, sweeps, past
  <1>16. CASE Refused
    <2>1. at' = "sell" /\ plan' \in Plans /\ sold' = {}
      BY <1>16, DecidedFact DEF Refused
    <2> QED
      BY <1>16, <2>1 DEF Refused, Stages, Typed, market, sweeps
  <1>17. CASE Send
    <2>1. tx' \in Sent
      BY <1>17, SendFact
    <2> QED
      BY <1>17, <2>1 DEF Send, Stages, Typed, market, sweeps, past
  <1>18. CASE Receipt
    <2>1. /\ at' = "sell" /\ plan' \in Plans /\ held' \in [Legs -> Nat] /\ merged' \in Nat
          /\ lapsed' \subseteq Lapses /\ sold' = {}
      <3>1. CASE Booked(FALSE)
        <4>1. PICK known \in BOOLEAN : Booked(known)
          BY <3>1
        <4> QED
          BY <4>1, BookedFact DEF Typed
      <3>2. CASE Unbooked
        BY <3>2, UnbookedFact DEF Typed
      <3>3. CASE Decided("didnot") /\ UNCHANGED <<held, merged, lapsed>>
        BY <3>3, DecidedFact DEF Typed
      <3> QED
        BY <1>18, <3>1, <3>2, <3>3 DEF Receipt
    <2> QED
      BY <1>18, <2>1 DEF Receipt, Stages, Typed, sweeps
  <1>19. CASE GiveUp
    BY <1>19 DEF GiveUp, Stages, Typed, market, sweeps, past
  <1>20. CASE Verify
    <2>1. /\ at' = "sell" /\ plan' \in Plans /\ held' \in [Legs -> Nat] /\ merged' \in Nat
          /\ lapsed' \subseteq Lapses /\ sold' = {}
      <3>1. CASE Booked(plan.pairs \in keys)
        <4>1. PICK known \in BOOLEAN : Booked(known)
          BY <3>1, BookedEither
        <4> QED
          BY <4>1, BookedFact DEF Typed
      <3>2. CASE Unbooked
        BY <3>2, UnbookedFact DEF Typed
      <3>3. CASE UNCHANGED <<held, merged, lapsed>> /\ \E v \in {"didnot", "unresolved"} : Decided(v)
        BY <3>3, DecidedFact DEF Typed
      <3> QED
        BY <1>20, <3>1, <3>2, <3>3 DEF Verify
    <2> QED
      BY <1>20, <2>1 DEF Verify, Stages, Typed, sweeps
  <1>21. ASSUME NEW t \in Legs, SellLeg(t) PROVE Typed'
    <2>1. held[t] \in Nat
      BY DEF Typed
    <2>2. wallet' \in [Legs -> Nat] /\ due' \in [Legs -> Nat] /\ sold' \subseteq Legs
      BY <1>21, <2>1, SoldFact DEF SellLeg, SoldOrNot, Typed
    <2>3. plan' \in Plans
      BY <1>21 DEF SellLeg, Plans, Typed
    <2> QED
      BY <1>21, <2>2, <2>3 DEF SellLeg, Typed, sweeps
  <1>22. CASE Done
    BY <1>0, <1>22 DEF Done, Idles, Stages, Typed, market, sweeps
  <1>23. CASE Restart
    BY <1>0, <1>23 DEF Restart, Idles, Stages, Typed, market
  <1>24. CASE UNCHANGED vars
    BY <1>24 DEF vars, Typed, market, task, sweeps, past
  <1> QED
    BY <1>1, <1>2, <1>3, <1>4, <1>5, <1>6, <1>7, <1>8, <1>9, <1>10, <1>11, <1>12, <1>13, <1>14,
       <1>15, <1>16, <1>17, <1>18, <1>19, <1>20, <1>21, <1>22, <1>23, <1>24
    DEF Next, Traded, Swept, Chain, Merging

-----------------------------------------------------------------------------
(* What the ledger has, and what has been reported.                          *)

\* A step that reports nothing and hears nothing of the chain: what one leg's holding loses
\* has been sold or is to be booked, and what the task has read stays read.
LEMMA Still ==
  ASSUME PInv, Typed', UNCHANGED <<tx, merged, lapsed>>,
         lapsed = {} => \A t \in Legs : held'[t] + wallet[t] + due[t] = held[t] + wallet'[t] + due'[t],
         at' = "sent" => at = "sent" /\ plan'.pairs = plan.pairs,
         Reading' => /\ Reading /\ plan'.before = plan.before /\ sold \subseteq sold'
                     /\ \A t \in Legs \ sold' : wallet'[t] >= wallet[t]
  PROVE PInv'
  <1>1. Mined' = Mined /\ Fate' = Fate /\ Mined \in Nat
    BY SizesNat, MinedSum DEF Mined, Sizes, Fate, PInv, Typed
  <1>2. MergedOnChain'
    BY <1>1 DEF PInv, MergedOnChain, Mined
  <1>3. LegsAgree'
    <2>1. ASSUME lapsed = {}, NEW t \in Legs
          PROVE held'[t] + merged = wallet'[t] + due'[t] + Mined
      <3>1. /\ held[t] \in Nat /\ wallet[t] \in Nat /\ due[t] \in Nat /\ merged \in Nat
            /\ held'[t] \in Nat /\ wallet'[t] \in Nat /\ due'[t] \in Nat
        BY DEF PInv, Typed
      <3>2. held[t] + merged = wallet[t] + due[t] + Mined
        BY <2>1 DEF PInv, LegsAgree, Mined
      <3>3. held'[t] + wallet[t] + due[t] = held[t] + wallet'[t] + due'[t]
        BY <2>1
      <3> QED
        BY <1>1, <3>1, <3>2, <3>3
    <2> QED
      BY <1>1, <2>1 DEF LegsAgree, Mined
  <1>4. Waited'
    BY <1>1 DEF PInv, Waited, Misread
  <1>5. Read'
    <2>1. ASSUME Reading', ~Misread, NEW u \in Legs \ sold'
          PROVE merged + plan'.before[u] <= Mined + wallet'[u]
      <3>1. merged + plan.before[u] <= Mined + wallet[u]
        BY <2>1 DEF PInv, Read
      <3>2. wallet'[u] >= wallet[u] /\ plan'.before = plan.before
        BY <2>1
      <3>3. wallet[u] \in Nat /\ wallet'[u] \in Nat /\ plan.before[u] \in Nat /\ merged \in Nat
        BY DEF PInv, Typed, Plans
      <3> QED
        BY <1>1, <3>1, <3>2, <3>3
    <2> QED
      BY <1>1, <2>1 DEF Read, Misread
  <1> QED
    BY <1>2, <1>3, <1>4, <1>5 DEF PInv

\* A sale is such a step.
LEMMA SaleStill ==
  ASSUME PInv, Typed', NEW t \in Legs, NEW n \in Nat, SoldOrNot(t, n),
         UNCHANGED <<held, tx, merged, lapsed, at>>, plan' = plan \/ at = "sell"
  PROVE PInv'
  <1>1. Reading' = Reading /\ ~(Reading /\ at = "sell")
    BY DEF Reading
  <1>2. CASE Sold(t, n)
    <2>1. /\ \A u \in Legs : wallet'[u] + due'[u] = wallet[u] + due[u]
          /\ \A u \in Legs : u # t => wallet'[u] = wallet[u]
          /\ sold \subseteq sold' /\ (Reading => t \in sold')
      BY <1>2, SoldFact DEF PInv
    <2>2. /\ \A u \in Legs : held[u] \in Nat /\ wallet[u] \in Nat /\ due[u] \in Nat
          /\ \A u \in Legs : wallet'[u] \in Nat /\ due'[u] \in Nat
      BY DEF PInv, Typed
    <2>3. \A u \in Legs : held'[u] + wallet[u] + due[u] = held[u] + wallet'[u] + due'[u]
      BY <2>1, <2>2
    <2>4. Reading => \A u \in Legs \ sold' : wallet'[u] >= wallet[u]
      BY <2>1, <2>2
    <2> QED
      BY <1>1, <2>1, <2>3, <2>4, Still
  <1>3. CASE UNCHANGED <<wallet, due, sold>>
    <2>1. \A u \in Legs : wallet[u] \in Nat
      BY DEF PInv, Typed
    <2> QED
      BY <1>1, <1>3, <2>1, Still
  <1> QED
    BY <1>2, <1>3 DEF SoldOrNot

\* A transaction that ends takes from the wallet what it adds to the chain's count.
LEMMA EndsSound ==
  ASSUME PInv, Typed', NEW n \in Nat, Mined' = Mined + n, \A t \in Legs : wallet[t] = wallet'[t] + n,
         UNCHANGED <<held, due, merged, lapsed, sold, at, plan>>, Len(tx') = Len(tx),
         \A j \in DOMAIN tx : /\ tx'[j].size = tx[j].size
                              /\ tx'[j].fate = "mined" => tx[j].fate = "mined" \/ n = tx[j].size
  PROVE PInv'
  <1>1. /\ Mined \in Nat /\ merged \in Nat /\ plan.pairs \in Nat /\ Misread' = Misread
        /\ Reading' = Reading
    BY SizesNat, MinedSum DEF PInv, Typed, Plans, Misread, Reading
  <1>2. /\ \A t \in Legs : held[t] \in Nat /\ wallet[t] \in Nat /\ due[t] \in Nat /\ wallet'[t] \in Nat
        /\ \A t \in Legs : plan.before[t] \in Nat
    BY DEF PInv, Typed, Plans
  <1>3. Misread \/ merged <= Mined
    BY DEF PInv, MergedOnChain, Misread, Mined
  <1>4. MergedOnChain'
    BY <1>1, <1>3 DEF MergedOnChain, Misread, Mined
  <1>5. LegsAgree'
    <2>1. ASSUME lapsed = {}, NEW t \in Legs
          PROVE held[t] + merged = wallet'[t] + due[t] + Mined'
      <3>1. held[t] + merged = wallet[t] + due[t] + Mined
        BY <2>1 DEF PInv, LegsAgree, Mined
      <3> QED
        BY <1>1, <1>2, <3>1
    <2> QED
      BY <2>1 DEF LegsAgree, Mined
  <1>6. Waited'
    <2>1. SUFFICES ASSUME at = "sent"
          PROVE /\ Len(tx) > 0 /\ tx'[Len(tx)].size = plan.pairs
                /\ tx'[Len(tx)].fate = "mined" => Misread \/ merged + plan.pairs <= Mined'
      BY <1>1 DEF Waited, Fate
    <2>2. /\ Len(tx) > 0 /\ tx[Len(tx)].size = plan.pairs
          /\ tx[Len(tx)].fate = "mined" => Misread \/ merged + plan.pairs <= Mined
      BY <2>1 DEF PInv, Waited, Fate
    <2>3. Len(tx) \in DOMAIN tx
      BY <2>2 DEF PInv, Typed, Sent
    <2>4. /\ tx'[Len(tx)].size = plan.pairs
          /\ tx'[Len(tx)].fate = "mined" => tx[Len(tx)].fate = "mined" \/ n = plan.pairs
      BY <2>2, <2>3
    <2>5. merged + plan.pairs <= Mined => merged + plan.pairs <= Mined'
      BY <1>1
    <2>6. merged <= Mined /\ n = plan.pairs => merged + plan.pairs <= Mined'
      BY <1>1
    <2> QED
      BY <1>3, <2>2, <2>4, <2>5, <2>6
  <1>7. Read'
    <2>1. ASSUME Reading, ~Misread, NEW u \in Legs \ sold
          PROVE merged + plan.before[u] <= Mined' + wallet'[u]
      <3>1. merged + plan.before[u] <= Mined + wallet[u]
        BY <2>1 DEF PInv, Read
      <3> QED
        BY <1>1, <1>2, <3>1
    <2> QED
      BY <1>1, <2>1 DEF Read
  <1> QED
    BY <1>4, <1>5, <1>6, <1>7 DEF PInv

\* What is booked, or not, of a merge that the chain made.
LEMMA BooksMerge ==
  ASSUME PInv, Typed', UNCHANGED <<wallet, due, tx>>,
         Unbooked \/ \E known \in BOOLEAN : Booked(known),
         Misread \/ merged + plan.pairs <= Mined \/ (at = "unknown" /\ sold = Legs)
  PROVE PInv'
  <1>1. Mined' = Mined /\ Mined \in Nat
    BY SizesNat, MinedSum DEF Mined, Sizes, PInv, Typed
  <1>2. /\ \A t \in Legs : held[t] \in Nat /\ wallet[t] \in Nat /\ due[t] \in Nat
        /\ merged \in Nat /\ plan.pairs \in Nat /\ Typed
    BY DEF PInv, Typed, Plans
  <1>3. CASE Unbooked
    <2>1. /\ at' = "sell" /\ ~Reading' /\ merged' = merged
          /\ (lapsed' = lapsed \/ lapsed' = lapsed \cup {"half"})
          /\ lapsed' = {} => held' = held
      BY <1>2, <1>3, UnbookedFact
    <2>2. (Misread' <=> Misread) /\ (lapsed' = {} => lapsed = {})
      BY <2>1 DEF Misread
    <2>3. MergedOnChain'
      BY <1>1, <2>1, <2>2 DEF PInv, MergedOnChain, Misread, Mined
    <2>4. LegsAgree'
      BY <1>1, <2>1, <2>2 DEF PInv, LegsAgree, Mined
    <2> QED
      BY <2>1, <2>3, <2>4 DEF PInv, Waited, Read
  <1>4. ASSUME NEW known \in BOOLEAN, Booked(known) PROVE PInv'
    <2>1. /\ at' = "sell" /\ ~Reading' /\ merged' = merged + plan.pairs
          /\ \A t \in Legs :
               held'[t] = IF known THEN held[t]
                          ELSE IF held[t] > plan.pairs THEN held[t] - plan.pairs ELSE 0
          /\ lapsed \subseteq lapsed' /\ (known => "repeat" \in lapsed')
          /\ (at = "unknown" /\ sold = Legs => Misread')
      BY <1>2, <1>4, BookedFact
    <2>2. Misread' \/ merged + plan.pairs <= Mined
      BY <2>1 DEF Misread
    <2>3. MergedOnChain'
      BY <1>1, <2>1, <2>2 DEF MergedOnChain, Misread, Mined
    <2>4. LegsAgree'
      <3>1. ASSUME lapsed' = {}, NEW t \in Legs
            PROVE held'[t] + merged' = wallet[t] + due[t] + Mined
        <4>1. lapsed = {} /\ ~known /\ ~Misread'
          BY <2>1, <3>1 DEF Misread
        <4>2. held[t] + merged = wallet[t] + due[t] + Mined
          BY <4>1 DEF PInv, LegsAgree, Mined
        <4>3. merged + plan.pairs <= Mined
          BY <2>2, <4>1
        <4>4. held'[t] = held[t] - plan.pairs
          <5>1. held[t] >= plan.pairs
            BY <1>1, <1>2, <4>2, <4>3
          <5> QED
            BY <1>2, <2>1, <4>1, <5>1
        <4> QED
          BY <1>1, <1>2, <2>1, <4>2, <4>4
      <3> QED
        BY <1>1, <3>1 DEF LegsAgree, Mined
    <2> QED
      BY <2>1, <2>3, <2>4 DEF PInv, Waited, Read
  <1> QED
    BY <1>3, <1>4

\* What fell by the pairs while the task waited was burnt, if one leg at least was not sold.
LEMMA ConfirmedMerge ==
  ASSUME PInv, at = "unknown", Confirmed
  PROVE Misread \/ merged + plan.pairs <= Mined \/ (at = "unknown" /\ sold = Legs)
  <1>1. SUFFICES ASSUME ~Misread, sold # Legs PROVE merged + plan.pairs <= Mined
    OBVIOUS
  <1>2. PICK u \in Legs : u \notin sold
    BY <1>1 DEF PInv, Typed
  <1>3. merged + plan.before[u] <= Mined + wallet[u]
    BY <1>1, <1>2 DEF PInv, Read, Reading
  <1>4. plan.before[u] - wallet[u] = plan.pairs
    BY DEF Confirmed, Fell
  <1>5. /\ plan.before[u] \in Nat /\ wallet[u] \in Nat /\ merged \in Nat /\ plan.pairs \in Nat
        /\ Mined \in Nat
    BY SizesNat, MinedSum DEF PInv, Typed, Plans
  <1> QED
    BY <1>3, <1>4, <1>5

-----------------------------------------------------------------------------
(* The inductive invariant.                                                  *)

\* Every step keeps the ranges, both properties and what they rest on.
LEMMA PInvStep == PInv /\ [Next]_vars => PInv'
  <1> SUFFICES ASSUME PInv, [Next]_vars PROVE PInv'
    OBVIOUS
  <1>a. Typed /\ Typed'
    BY TypedStep DEF PInv
  <1>b. \A t \in Legs : wallet[t] \in Nat /\ held[t] \in Nat /\ due[t] \in Nat
    BY <1>a DEF Typed
  <1>1. CASE LeaderMoves
    BY <1>1, <1>a, <1>b, Still DEF LeaderMoves, task, past, Reading
  <1>2. ASSUME NEW t \in Legs, Buy(t) PROVE PInv'
    <2>1. /\ UNCHANGED <<tx, merged, lapsed, at, plan, sold, due>> /\ Reading' = Reading
          /\ wallet' = [wallet EXCEPT ![t] = wallet[t] + 1]
          /\ held' = [held EXCEPT ![t] = held[t] + 1]
      BY <1>2 DEF Buy, task, past, Reading
    <2>2. \A u \in Legs : /\ wallet'[u] >= wallet[u]
                          /\ held'[u] + wallet[u] + due[u] = held[u] + wallet'[u] + due'[u]
      BY <1>a, <1>b, <2>1 DEF Typed
    <2> QED
      BY <1>a, <2>1, <2>2, Still
  <1>3. ASSUME NEW t \in Legs, MirrorSell(t) PROVE PInv'
    BY <1>3, <1>a, SaleStill DEF MirrorSell, SoldOrNot, task
  <1>4. ASSUME NEW t \in Legs, Flatten(t) PROVE PInv'
    BY <1>4, <1>a, <1>b, SaleStill DEF Flatten, SoldOrNot, task
  <1>5. ASSUME NEW t \in Legs, Book(t) PROVE PInv'
    <2>1. PICK n \in 1 .. due[t] :
            held' = Less(held, t, n) /\ due' = [due EXCEPT ![t] = due[t] - n]
      BY <1>5 DEF Book
    <2>2. UNCHANGED <<tx, merged, lapsed, at, plan, sold, wallet>> /\ Reading' = Reading
      BY <1>5 DEF Book, task, past, Reading
    <2>3. n \in Nat /\ n <= due[t] /\ Mined \in Nat /\ merged \in Nat
      BY <1>a, <1>b, SizesNat, MinedSum DEF Typed
    <2>4. ASSUME lapsed = {}, NEW u \in Legs
          PROVE held'[u] + wallet[u] + due[u] = held[u] + wallet'[u] + due'[u]
      <3>1. merged <= Mined
        BY <2>4 DEF PInv, MergedOnChain, Mined
      <3>2. held[u] + merged = wallet[u] + due[u] + Mined
        BY <2>4 DEF PInv, LegsAgree, Mined
      <3>3. held[u] >= due[u]
        BY <1>b, <2>3, <3>1, <3>2
      <3>4. CASE u = t
        <4>1. due'[t] = due[t] - n /\ held'[t] = IF held[t] > n THEN held[t] - n ELSE 0
          BY <1>a, <2>1 DEF Less, Typed
        <4>2. held[t] >= due[t]
          BY <3>3, <3>4
        <4>3. held'[t] = held[t] - n
          BY <1>b, <2>3, <4>1, <4>2
        <4> QED
          BY <1>b, <2>2, <2>3, <3>4, <4>1, <4>3
      <3>5. CASE u # t
        <4>1. due'[u] = due[u] /\ held'[u] = held[u]
          BY <1>a, <2>1, <3>5 DEF Less, Typed
        <4> QED
          BY <1>b, <2>2, <4>1
      <3> QED
        BY <3>4, <3>5
    <2> QED
      BY <1>a, <1>b, <2>2, <2>4, Still
  <1>6. ASSUME NEW t \in Legs, SweepStarts(t) PROVE PInv'
    BY <1>6, <1>a, <1>b, Still DEF SweepStarts, market, task, past, Reading
  <1>7. CASE SweepLooks
    <2>1. /\ UNCHANGED <<wallet, held, due, tx, at, plan, merged, sold, lapsed>>
          /\ Reading' = Reading
      BY <1>7 DEF SweepLooks, market, task, past, Reading
    <2> QED
      BY <1>a, <1>b, <2>1, Still
  <1>8. CASE SweepSells
    <2>1. sweep.leg \in Legs /\ sweep.n \in Nat
      BY <1>8, <1>a DEF SweepSells, Typed, Sweeps, None
    <2> QED
      BY <1>8, <1>a, <2>1, SaleStill DEF SweepSells, task
  <1>9. ASSUME NEW k \in DOMAIN tx, Mine(k) PROVE PInv'
    <2>1. /\ Len(tx') = Len(tx) /\ tx[k].size \in Nat
          /\ tx'[k].size = tx[k].size /\ tx'[k].fate \in {"mined", "failed"}
          /\ \A j \in DOMAIN tx : j # k => tx'[j] = tx[j]
          /\ wallet' \in [Legs -> Nat] /\ Mined \in Nat
          /\ IF tx'[k].fate = "mined"
             THEN Mined' = Mined + tx[k].size /\ \A t \in Legs : wallet[t] = wallet'[t] + tx[k].size
             ELSE Mined' = Mined /\ wallet' = wallet
      BY <1>9, <1>a, MineFact
    <2>2. UNCHANGED <<held, due, merged, lapsed, sold, at, plan>>
      BY <1>9 DEF Mine, task, past
    <2>3. CASE tx'[k].fate = "mined"
      BY <1>a, <2>1, <2>2, <2>3, EndsSound
    <2>4. CASE tx'[k].fate # "mined"
      <3>1. Mined' = Mined + 0 /\ \A t \in Legs : wallet[t] = wallet'[t] + 0
        BY <1>b, <2>1, <2>4
      <3> QED
        BY <1>a, <2>1, <2>2, <2>4, <3>1, EndsSound
    <2> QED
      BY <2>3, <2>4
  <1>10. ASSUME NEW k \in DOMAIN tx, Lose(k) PROVE PInv'
    <2>1. /\ Len(tx') = Len(tx)
          /\ tx'[k].size = tx[k].size /\ tx'[k].fate = "failed"
          /\ \A j \in DOMAIN tx : j # k => tx'[j] = tx[j]
          /\ Mined \in Nat /\ Mined' = Mined
      BY <1>10, <1>a, LoseFact
    <2>2. UNCHANGED <<wallet, held, due, merged, lapsed, sold, at, plan>>
      BY <1>10 DEF Lose, market, task, past
    <2>3. Mined' = Mined + 0 /\ \A t \in Legs : wallet[t] = wallet'[t] + 0
      BY <1>b, <2>1, <2>2
    <2> QED
      BY <1>a, <2>1, <2>2, <2>3, EndsSound
  <1>11. CASE Look
    <2>1. /\ at' = "looked" /\ plan'.before = wallet
          /\ UNCHANGED <<wallet, held, due, tx, merged, lapsed>>
      BY <1>11 DEF Look, NoPlan, market, past
    <2>2. Mined' = Mined /\ Misread' = Misread /\ Mined \in Nat /\ merged \in Nat
      BY <1>a, <2>1, SizesNat, MinedSum DEF Mined, Sizes, Misread, Typed
    <2>3. MergedOnChain' /\ LegsAgree' /\ Waited'
      BY <2>1, <2>2 DEF PInv, MergedOnChain, LegsAgree, Waited, Mined, Misread
    <2>4. Read'
      <3>1. ASSUME ~Misread, NEW u \in Legs PROVE merged + wallet[u] <= Mined + wallet[u]
        BY <1>b, <2>2, <3>1 DEF PInv, MergedOnChain, Misread, Mined
      <3> QED
        BY <2>1, <2>2, <3>1 DEF Read
    <2> QED
      BY <1>a, <2>3, <2>4 DEF PInv
  <1>12. ASSUME NEW binary \in Counted, FindOrphans(binary) PROVE PInv'
    <2>1. UNCHANGED <<wallet, held, due, tx, merged, lapsed>> /\ at = "looked"
      BY <1>12 DEF FindOrphans, market
    <2>2. CASE flat /\ binary /\ Least(held) > 0
      <3>1. /\ at' = "planned" /\ sold' = sold
            /\ plan' = [plan EXCEPT !.pairs = Least(held),
                                    !.sell = {t \in Legs : held[t] > Least(held)}]
        BY <1>12, <2>2 DEF FindOrphans
      <3>2. plan'.before = plan.before
        BY <1>a, <3>1 DEF Typed, Plans
      <3> QED
        BY <1>a, <1>b, <2>1, <3>1, <3>2, Still DEF Reading
    <2>3. CASE ~(flat /\ binary /\ Least(held) > 0)
      <3>1. at' = "idle"
        BY <1>12, <2>3 DEF FindOrphans, Idles
      <3> QED
        BY <1>a, <2>1, <3>1, Still DEF Reading
    <2> QED
      BY <2>2, <2>3
  <1>13. CASE Skip \/ Done \/ Restart
    <2>1. at' = "idle" /\ UNCHANGED <<wallet, held, due, tx, merged, lapsed>>
      BY <1>13 DEF Skip, Done, Restart, Idles, market
    <2> QED
      BY <1>a, <2>1, Still DEF Reading
  <1>14. CASE SellBoth \/ Refused
    <2>1. at' = "sell" /\ UNCHANGED <<wallet, held, due, tx, merged, lapsed>>
      BY <1>14 DEF SellBoth, Refused, Decided, market
    <2> QED
      BY <1>a, <2>1, Still DEF Reading
  <1>15. CASE Claim
    <2>1. at = "planned" /\ at' = "claimed" /\ UNCHANGED <<wallet, held, due, tx, plan, merged, sold, lapsed>>
      BY <1>15 DEF Claim, market, past
    <2> QED
      BY <1>a, <1>b, <2>1, Still DEF Reading
  <1>16. CASE GiveUp
    <2>1. at = "sent" /\ at' = "unknown" /\ UNCHANGED <<wallet, held, due, tx, plan, merged, sold, lapsed>>
      BY <1>16 DEF GiveUp, market, past
    <2> QED
      BY <1>a, <1>b, <2>1, Still DEF Reading
  <1>17. CASE Send
    <2>1. /\ at = "claimed" /\ at' = "sent"
          /\ UNCHANGED <<wallet, held, due, plan, merged, sold, lapsed>>
      BY <1>17 DEF Send, market, past
    <2>2. /\ Len(tx') > 0 /\ tx'[Len(tx')].size = plan.pairs /\ tx'[Len(tx')].fate = "flying"
          /\ Mined' = Mined
      BY <1>17, <1>a, SendFact
    <2>3. MergedOnChain' /\ LegsAgree'
      BY <2>1, <2>2 DEF PInv, MergedOnChain, LegsAgree, Mined
    <2>4. Waited'
      BY <2>1, <2>2 DEF Waited, Fate
    <2>5. Read'
      BY <2>1, <2>2 DEF PInv, Read, Reading, Misread
    <2> QED
      BY <1>a, <2>3, <2>4, <2>5 DEF PInv
  <1>18. CASE Receipt
    <2>1. at = "sent" /\ UNCHANGED <<wallet, due, tx>>
      BY <1>18 DEF Receipt
    <2>2. CASE Fate = "mined" /\ (Booked(FALSE) \/ Unbooked)
      <3>1. Misread \/ merged + plan.pairs <= Mined
        BY <2>1, <2>2 DEF PInv, Waited
      <3>2. Unbooked \/ \E known \in BOOLEAN : Booked(known)
        BY <2>2
      <3> QED
        BY <1>a, <2>1, <3>1, <3>2, BooksMerge
    <2>3. CASE Decided("didnot") /\ UNCHANGED <<held, merged, lapsed>>
      BY <1>a, <1>b, <2>1, <2>3, Still DEF Decided, Reading
    <2> QED
      BY <1>18, <2>2, <2>3 DEF Receipt
  <1>19. CASE Verify
    <2>1. at = "unknown" /\ UNCHANGED <<wallet, due, tx>>
      BY <1>19 DEF Verify
    <2>2. CASE Confirmed /\ (Booked(plan.pairs \in keys) \/ Unbooked)
      <3>1. Unbooked \/ \E known \in BOOLEAN : Booked(known)
        BY <2>2, BookedEither
      <3>2. Misread \/ merged + plan.pairs <= Mined \/ (at = "unknown" /\ sold = Legs)
        BY <2>1, <2>2, ConfirmedMerge
      <3> QED
        BY <1>a, <2>1, <3>1, <3>2, BooksMerge
    <2>3. CASE UNCHANGED <<held, merged, lapsed>> /\ \E v \in {"didnot", "unresolved"} : Decided(v)
      BY <1>a, <1>b, <2>1, <2>3, Still DEF Decided, Reading
    <2> QED
      BY <1>19, <2>2, <2>3 DEF Verify
  <1>20. ASSUME NEW t \in Legs, SellLeg(t) PROVE PInv'
    BY <1>20, <1>a, <1>b, SaleStill DEF SellLeg
  <1>21. CASE UNCHANGED vars
    BY <1>21, <1>a, <1>b, Still DEF vars, market, task, past, Reading
  <1> QED
    BY <1>1, <1>2, <1>3, <1>4, <1>5, <1>6, <1>7, <1>8, <1>9, <1>10, <1>11, <1>12, <1>13, <1>14,
       <1>15, <1>16, <1>17, <1>18, <1>19, <1>20, <1>21
    DEF Next, Traded, Swept, Chain, Merging

\* Nothing is held and nothing is sent at first.
LEMMA InitPair == Init => PInv
  <1> SUFFICES ASSUME Init PROVE PInv
    OBVIOUS
  <1>1. Typed
    <2>1. NoPlan \in Plans /\ None \in Sweeps /\ Zero \in [Legs -> Nat]
      BY DEF NoPlan, Plans, Sweeps, Zero
    <2>2. tx \in Sent
      BY DEF Init, Sent
    <2> QED
      BY <2>1, <2>2 DEF Init, Typed, Stages
  <1>2. DOMAIN tx = {}
    BY DEF Init
  <1>3. Mined = 0
    BY <1>2, MinedSum, SumEmpty
  <1>4. LegsAgree /\ MergedOnChain
    BY <1>3 DEF Init, LegsAgree, MergedOnChain, Zero, Mined
  <1>5. Waited /\ Read
    BY DEF Init, Waited, Read, Reading
  <1> QED
    BY <1>1, <1>4, <1>5 DEF PInv

\* The inductive invariant.
LEMMA PairInvariant == Spec => []PInv
  BY InitPair, PInvStep, PTL DEF Spec

\* Every variable stays within its range, for any number of shares and transactions.
THEOREM PairTypeCorrect == Spec => []TypeOK
  <1>1. PInv => TypeOK
    <2> SUFFICES ASSUME PInv PROVE TypeOK
      OBVIOUS
    <2>1. \A k \in DOMAIN tx : tx[k] \in Txs
      BY DEF PInv, Typed, Sent
    <2> QED
      BY <2>1 DEF PInv, Typed, TypeOK, Txs
  <1> QED
    BY PairInvariant, <1>1, PTL

\* Of either leg the ledger and the wallet tell the same, but for the sales still to be booked
\* and the merges that landed and were not reported: with his sales mirrored, the sweep, a
\* flatten, restarts and the merge task at work at once, in any order; any number of shares
\* and of transactions that land late.  It ends where the booking of a merge goes wrong: one
\* row of two, a size that is known, or both legs sold between two looks at the wallet.
THEOREM PairLegsAgree == Spec => []LegsAgree
  BY PairInvariant, PTL DEF PInv

\* No merge is reported that no transaction made, even when one is half booked, lands twice or
\* late, and whatever is sold of one leg while the task waits: until one is taken for done
\* after both legs were sold between the two looks at the wallet.
THEOREM PairMergedOnChain == Spec => []MergedOnChain
  BY PairInvariant, PTL DEF PInv

-----------------------------------------------------------------------------
(* Follow.                                                                   *)

\* An order, as its slot has it.
Orders == [stage : OrderStages, buy : BOOLEAN, n : Nat, meant : Nat, got : Nat]

\* A trade of his can be made, and its slot is free; so are those of trades to come.
Fresh ==
  /\ pend # NoTrade =>
       /\ made > 0 /\ Stage(made) = "none" /\ pend.n > 0
       /\ IF pend.buy THEN his + pend.n <= MaxHis ELSE pend.n <= his
  /\ \A k \in Slots : k > made => Stage(k) = "none"

\* Both models agree with his book, but for a buy of his that was missed while the lane had
\* nothing; and the lane's legacy is no less than what he still holds of it.
Known ==
  /\ cHis = his \/ (ours = 0 /\ ~BuyOut)
  /\ lHis = cHis /\ cLeg = old /\ lLeg >= old /\ his >= old

\* No try asks for more than the first did, and no order gets more than it asks for.
ShapeOf(k, o) ==
  /\ o.stage # "none" => o.n <= o.meant
  /\ o.stage \in {"out", "trying", "matched"} => o.n > 0
  /\ o.stage = "out" => o.n = o.meant
  /\ o.stage = "matched" => o.got <= o.n
  /\ o.stage \in {"trying", "waiting"} => ~o.buy /\ k # Sweep
  /\ k = Sweep => ~o.buy
Shaped == \A k \in Slots : ShapeOf(k, order[k])

\* Of an order: what it has reserved, what is still to be booked, what it may yet sell of
\* what he asked for, and the part of that the venue was sent at once.
Reserved(o) == IF o.stage \in {"out", "trying", "matched"} /\ ~o.buy THEN o.n ELSE 0
DueOf(o) == IF o.stage # "matched" THEN 0 ELSE IF o.buy THEN o.got ELSE -o.got
MeantOf(k, o) ==
  IF k # Sweep /\ ~o.buy /\ o.stage \in {"out", "trying", "waiting"} THEN o.meant ELSE 0
WorkingOf(o) == IF o.stage = "out" /\ ~o.buy THEN o.n ELSE 0

Total(f) == SumFunctionOnSet(f, Slots)
ToBook == Total([k \in Slots |-> DueOf(order[k])])
Meant == Total([k \in Slots |-> MeantOf(k, order[k])])
Working == Total([k \in Slots |-> WorkingOf(order[k])])

\* The ledger and the wallet differ by what is still to be booked.
Balanced == chain = ours + ToBook

\* While his sales are followed, the lane offers no more than there is, and neither a rescue
\* nor the sweep has an order out.
Offered ==
  seen => /\ lOurs - lRes <= ours - Committed
          /\ \A k \in Slots : Stage(k) # "trying"
          /\ Stage(Sweep) = "none"

\* The sweep sells what he has left, one order at a time.
SweptOut ==
  /\ found > 0 \/ Stage(Sweep) = "out" => HeIsOut
  /\ found > 0 => Stage(Sweep) = "none"

\* His sales ask for all there is once he is out, and for what is on its way before.
Owing ==
  /\ HeIsOut => owed >= chain
  /\ ~HeIsOut => Meant <= owed
  /\ seen => Working <= owed

FBase == FollowTypeOK /\ Fresh
FSound == Known /\ Shaped /\ Balanced /\ Offered /\ SweptOut /\ Owing
FInv == FBase /\ (strayed = "no" => FSound)

-----------------------------------------------------------------------------
(* What a sale of his is worth.                                              *)

\* A quotient, times the divisor, is no more than the dividend; rounded up, no less.
LEMMA Quotient ==
  ASSUME NEW a \in Nat, NEW b \in Nat \ {0}
  PROVE /\ a \div b \in Nat /\ (a \div b) * b <= a
        /\ (a + b - 1) \div b \in Nat /\ ((a + b - 1) \div b) * b >= a
  <1>1. a \div b \in Nat /\ (a \div b) * b <= a
    OBVIOUS
  <1>2. a + b - 1 \in Nat
    OBVIOUS
  <1>3. /\ (a + b - 1) \div b \in Nat
        /\ ((a + b - 1) \div b) * b + b > a + b - 1
    BY <1>2
  <1>4. ((a + b - 1) \div b) * b \in Int
    BY <1>3
  <1> QED
    BY <1>1, <1>3, <1>4

\* Of two products with one factor, the one with the larger other factor is larger.
LEMMA Larger ==
  ASSUME NEW a \in Nat, NEW b \in Nat, NEW c \in Nat
  PROVE /\ a <= b => a * c <= b * c
        /\ a * c <= b * c /\ c > 0 => a <= b
  OBVIOUS

\* Counting d shares of his as legacy makes the fraction smaller.
LEMMA Fraction ==
  ASSUME NEW mine \in Nat, NEW s \in Nat, NEW m \in Nat, NEW d \in Nat, d < s, s <= m
  PROVE LET q == (mine * (s - d)) \div (m - d) IN
          q \in Nat /\ q <= mine /\ q * m <= mine * s
  <1> DEFINE q == (mine * (s - d)) \div (m - d)
  <1>1. s - d \in Nat /\ m - d \in Nat \ {0} /\ mine * (s - d) \in Nat
    OBVIOUS
  <1>2. q \in Nat /\ q * (m - d) <= mine * (s - d)
    BY <1>1, Quotient
  <1>3. mine * (s - d) <= mine * (m - d)
    <2>1. (s - d) * mine <= (m - d) * mine
      BY <1>1, Larger
    <2> QED
      BY <1>1, <2>1
  <1> HIDE DEF q
  <1>4. q <= mine
    <2>1. q * (m - d) <= mine * (m - d)
      BY <1>1, <1>2, <1>3
    <2> QED
      BY <1>1, <1>2, <2>1, Larger
  <1>5. q * d <= mine * d
    BY <1>2, <1>4, Larger
  <1>6. q * m = q * (m - d) + q * d /\ mine * s = mine * (s - d) + mine * d
    BY <1>1, <1>2
  <1>7. q * m <= mine * s
    BY <1>1, <1>2, <1>5, <1>6
  <1> QED
    BY <1>2, <1>4, <1>7 DEF q

\* What a sale is worth to the lane, and what it asks for, are numbers of shares.
LEMMA WantedNat ==
  ASSUME NEW mine \in Nat, NEW n \in Nat, NEW before \in Nat, NEW legacy \in Nat
  PROVE Wanted(mine, n, before, legacy) \in Nat
  <1> DEFINE m == Monus(before, legacy)
             s == Monus(n, legacy)
  <1>1. m \in Nat /\ s \in Nat
    BY DEF Monus
  <1>2. ASSUME ~(s * 100 >= SellAll * m) PROVE (mine * s) \div m \in Nat
    <2>1. m # 0
      BY <1>1, <1>2, FollowAssumption
    <2>2. mine * s \in Nat
      BY <1>1
    <2> HIDE DEF m, s
    <2> QED
      BY <1>1, <2>1, <2>2, Quotient
  <1> HIDE DEF m, s
  <1>3. Wanted(mine, n, before, legacy) =
          IF before # 0 /\ s = 0 THEN 0
          ELSE IF before = 0 \/ s * 100 >= SellAll * m THEN mine ELSE (mine * s) \div m
    BY DEF Wanted, m, s
  <1> QED
    BY <1>2, <1>3

\* What it asks for is a number, too.
LEMMA AskedNat ==
  ASSUME his \in Nat, old \in Nat, chain \in Nat, owed \in Int, NEW n \in Nat
  PROVE Asked(n) \in Nat
  <1> DEFINE m == his - old
             s == Monus(n, old)
             b == Monus(chain, owed)
  <1>1. m \in Int /\ s \in Nat /\ b \in Nat
    BY DEF Monus
  <1>2. ASSUME ~(s * 100 >= SellAll * m) PROVE (b * s + m - 1) \div m \in Nat
    <2>1. m \in Nat \ {0}
      <3>1. ASSUME m <= 0 PROVE FALSE
        <4>1. SellAll * m <= 0
          BY <1>1, <3>1, FollowAssumption
        <4> HIDE DEF m, s
        <4> QED
          BY <1>1, <1>2, <4>1, FollowAssumption
      <3> QED
        BY <1>1, <3>1
    <2>2. b * s \in Nat
      BY <1>1
    <2> HIDE DEF m, s, b
    <2> QED
      BY <2>1, <2>2, Quotient
  <1>3. Asked(n) = IF s = 0 THEN 0 ELSE IF s * 100 >= SellAll * m THEN b
                   ELSE (b * s + m - 1) \div m
    BY DEF Asked
  <1> HIDE DEF m, s, b
  <1> QED
    BY <1>1, <1>2, <1>3

\* A sale asks for all that is not asked for yet, if he is out by it.
LEMMA OutAsksAll ==
  ASSUME his \in Nat, old \in Nat, chain \in Nat, owed \in Int, NEW n \in Nat,
         his > old, n <= his, his - n = Monus(old, n)
  PROVE Asked(n) = Monus(chain, owed)
  <1>1. n = his /\ Monus(n, old) = his - old /\ his - old # 0
    BY DEF Monus
  <1>2. (his - old) * 100 >= SellAll * (his - old)
    <2> DEFINE m == his - old
    <2>1. m \in Nat
      OBVIOUS
    <2> HIDE DEF m
    <2>2. 100 * m >= SellAll * m
      BY <2>1, FollowAssumption, Larger
    <2> QED
      BY <2>1, <2>2, FollowAssumption DEF m
  <1> QED
    BY <1>1, <1>2 DEF Asked

\* With w shares on their way, and the rest of what is there on offer, the lane does not want
\* more for a sale than it asks for.
LEMMA WantedIsAsked ==
  ASSUME his \in Nat, old \in Nat, chain \in Nat, owed \in Int, his >= old,
         NEW n \in Nat, n > 0, n <= his, NEW legacy \in Nat, legacy >= old,
         NEW mine \in Nat, NEW w \in Nat, w <= owed, mine > 0 => w + mine <= chain
  PROVE w + Wanted(mine, n, his, legacy) <= owed + Asked(n)
  <1> DEFINE m == his - old
             s == Monus(n, old)
             d == legacy - old
             b == Monus(chain, owed)
             q == Wanted(mine, n, his, legacy)
             a == Asked(n)
  <1>0. /\ m \in Nat /\ s \in Nat /\ d \in Nat /\ b \in Nat /\ q \in Nat /\ a \in Nat
        /\ s <= m /\ SellAll \in Nat /\ SellAll <= 100
    <2>1. q \in Nat
      BY WantedNat
    <2>2. a \in Nat
      BY AskedNat
    <2>3. m \in Nat /\ s \in Nat /\ d \in Nat /\ b \in Nat /\ s <= m
      BY DEF Monus
    <2> QED
      BY <2>1, <2>2, <2>3, FollowAssumption
  <1>1. CASE Monus(n, legacy) = 0
    <2>1. his # 0
      OBVIOUS
    <2>2. q = 0
      BY <1>1, <2>1 DEF Wanted
    <2> HIDE DEF m, s, d, b, q, a
    <2> QED
      BY <1>0, <2>2 DEF q, a
  <1>2. CASE Monus(n, legacy) # 0
    <2>1. d < s /\ Monus(n, legacy) = s - d /\ Monus(his, legacy) = m - d /\ m > 0
      BY <1>2 DEF Monus
    <2>2. q = IF (s - d) * 100 >= SellAll * (m - d) THEN mine
              ELSE (mine * (s - d)) \div (m - d)
      BY <1>2, <2>1 DEF Wanted
    <2>3. a = IF s * 100 >= SellAll * m THEN b ELSE (b * s + m - 1) \div m
      BY <2>1 DEF Asked
    <2>b. b = IF chain > owed THEN chain - owed ELSE 0
      BY DEF Monus
    <2> SUFFICES w + q <= owed + a
      OBVIOUS
    <2> HIDE DEF m, s, d, b, q, a
    <2>4. (s - d) * 100 >= SellAll * (m - d) => s * 100 >= SellAll * m
      <3>1. SellAll * d <= 100 * d
        BY <1>0, Larger
      <3>2. SellAll * (m - d) = SellAll * m - SellAll * d /\ (s - d) * 100 = s * 100 - 100 * d
        BY <1>0
      <3>3. SellAll * m \in Nat /\ SellAll * d \in Nat
        BY <1>0
      <3> QED
        BY <1>0, <3>1, <3>2, <3>3
    <2>5. (mine * (s - d)) \div (m - d) <= mine
           /\ ((mine * (s - d)) \div (m - d)) * m <= mine * s
      BY <1>0, <2>1, Fraction
    <2>6. q <= mine
      BY <1>0, <2>2, <2>5
    <2>7. CASE s * 100 >= SellAll * m
      BY <1>0, <2>3, <2>b, <2>6, <2>7
    <2>8. CASE ~(s * 100 >= SellAll * m)
      <3>1. q * m <= mine * s
        BY <2>2, <2>4, <2>5, <2>8
      <3>2. a * m >= b * s
        <4>1. b * s \in Nat /\ m \in Nat \ {0}
          BY <1>0, <2>1
        <4> QED
          BY <2>3, <2>8, <4>1, Quotient
      <3>3. CASE mine = 0 \/ chain <= owed
        BY <1>0, <2>6, <3>3
      <3>4. CASE mine # 0 /\ chain > owed
        <4> DEFINE e == owed - w
        <4>1. e \in Nat /\ mine <= b + e
          BY <1>0, <2>b, <3>4
        <4> HIDE DEF e
        <4>2. mine * s <= b * s + e * m
          <5>1. mine * s <= (b + e) * s
            BY <1>0, <4>1, Larger
          <5>2. (b + e) * s = b * s + e * s
            BY <1>0, <4>1
          <5>3. e * s <= e * m
            <6>1. s * e <= m * e
              BY <1>0, <4>1, Larger
            <6> QED
              BY <1>0, <4>1, <6>1
          <5>4. mine * s \in Int /\ b * s \in Int /\ e * s \in Int /\ e * m \in Int
            BY <1>0, <4>1
          <5> QED
            BY <5>1, <5>2, <5>3, <5>4
        <4>3. q * m <= (a + e) * m
          <5>1. (a + e) * m = a * m + e * m
            BY <1>0, <4>1
          <5>2. /\ q * m \in Int /\ mine * s \in Int /\ b * s \in Int /\ e * m \in Int
                /\ a * m \in Int
            BY <1>0, <4>1
          <5> QED
            BY <3>1, <3>2, <4>2, <5>1, <5>2
        <4>4. q <= a + e
          BY <1>0, <2>1, <4>1, <4>3, Larger
        <4> QED
          BY <1>0, <4>4 DEF e
      <3> QED
        BY <3>3, <3>4
    <2> QED
      BY <2>7, <2>8
  <1> QED
    BY <1>1, <1>2

-----------------------------------------------------------------------------
(* The orders.                                                               *)

\* The slots are finitely many.
LEMMA SlotsFinite == IsFiniteSet(Slots) /\ Sweep \in Slots
  <1>1. IsFiniteSet(0 .. MaxTrades)
    BY FS_Interval, FollowAssumption
  <1> QED
    BY <1>1, FollowAssumption DEF Slots, Sweep

\* What an order counts for are integers.
LEMMA OrderCounts ==
  ASSUME NEW o \in Orders, NEW k \in Slots
  PROVE Reserved(o) \in Nat /\ DueOf(o) \in Int /\ MeantOf(k, o) \in Nat
        /\ WorkingOf(o) \in Nat
  BY DEF Orders, Reserved, DueOf, MeantOf, WorkingOf

\* The reservations, told order by order.
LEMMA CommittedIs ==
  /\ Committed = Total([k \in Slots |-> Reserved(order[k])])
  /\ Committed' = Total([k \in Slots |-> Reserved(order'[k])])
  <1>1. Reserving = [k \in Slots |-> Reserved(order[k])]
    BY DEF Reserving, Reserved, Rows, Stage
  <1>2. Reserving' = [k \in Slots |-> Reserved(order'[k])]
    BY DEF Reserving, Reserved, Rows, Stage
  <1> QED
    BY <1>1, <1>2 DEF Committed, Total

\* The totals are integers; and those that no order lowers are not negative.
LEMMA Totals ==
  ASSUME order \in [Slots -> Orders]
  PROVE Committed \in Nat /\ ToBook \in Int /\ Meant \in Nat /\ Working \in Nat
  <1>1. \A k \in Slots : /\ Reserved(order[k]) \in Nat /\ DueOf(order[k]) \in Int
                         /\ MeantOf(k, order[k]) \in Nat /\ WorkingOf(order[k]) \in Nat
    BY OrderCounts
  <1>2. Committed \in Nat
    BY <1>1, SlotsFinite, SumNat, CommittedIs DEF Total
  <1>3. ToBook \in Int
    BY <1>1, SlotsFinite, SumInt DEF ToBook, Total
  <1>4. Meant \in Nat
    BY <1>1, SlotsFinite, SumNat DEF Meant, Total
  <1>5. Working \in Nat
    BY <1>1, SlotsFinite, SumNat DEF Working, Total
  <1> QED
    BY <1>2, <1>3, <1>4, <1>5

\* A total moves by what one slot moves by.
LEMMA TotalMoves ==
  ASSUME NEW k \in Slots, NEW f, NEW g, \A j \in Slots : f[j] \in Int /\ g[j] \in Int,
         \A j \in Slots \ {k} : f[j] = g[j]
  PROVE Total(g) = Total(f) + (g[k] - f[k])
  <1>1. IsFiniteSet(Slots)
    BY SlotsFinite
  <1>2. SumFunctionOnSet(g, Slots) = SumFunctionOnSet(f, Slots) + (g[k] - f[k])
    BY <1>1, SumUpdate
  <1> QED
    BY <1>2 DEF Total

\* One order changes, and with it each total by what that order counts for.
OneMoves(k) ==
  /\ Committed' = Committed + (Reserved(order'[k]) - Reserved(order[k]))
  /\ ToBook' = ToBook + (DueOf(order'[k]) - DueOf(order[k]))
  /\ Meant' = Meant + (MeantOf(k, order'[k]) - MeantOf(k, order[k]))
  /\ Working' = Working + (WorkingOf(order'[k]) - WorkingOf(order[k]))

\* When one slot changes, the totals move by what it counts for.
LEMMA MovesOne ==
  ASSUME order \in [Slots -> Orders], order' \in [Slots -> Orders], NEW k \in Slots,
         \A j \in Slots \ {k} : order'[j] = order[j]
  PROVE OneMoves(k)
  <1>0. \A j \in Slots : order[j] \in Orders /\ order'[j] \in Orders
    OBVIOUS
  <1>1. Committed' = Committed + (Reserved(order'[k]) - Reserved(order[k]))
    <2> DEFINE f == [j \in Slots |-> Reserved(order[j])]
               g == [j \in Slots |-> Reserved(order'[j])]
    <2>1. \A j \in Slots : f[j] \in Int /\ g[j] \in Int
      BY <1>0, OrderCounts
    <2>2. \A j \in Slots \ {k} : f[j] = g[j]
      OBVIOUS
    <2>3. f[k] = Reserved(order[k]) /\ g[k] = Reserved(order'[k])
      OBVIOUS
    <2> HIDE DEF f, g
    <2>4. Total(g) = Total(f) + (g[k] - f[k])
      BY <2>1, <2>2, TotalMoves
    <2> QED
      BY <2>3, <2>4, CommittedIs DEF f, g
  <1>2. ToBook' = ToBook + (DueOf(order'[k]) - DueOf(order[k]))
    <2> DEFINE f == [j \in Slots |-> DueOf(order[j])]
               g == [j \in Slots |-> DueOf(order'[j])]
    <2>1. \A j \in Slots : f[j] \in Int /\ g[j] \in Int
      BY <1>0, OrderCounts
    <2>2. \A j \in Slots \ {k} : f[j] = g[j]
      OBVIOUS
    <2>3. f[k] = DueOf(order[k]) /\ g[k] = DueOf(order'[k])
      OBVIOUS
    <2>5. ToBook = Total(f) /\ ToBook' = Total(g)
      BY DEF ToBook, Total
    <2> HIDE DEF f, g
    <2>4. Total(g) = Total(f) + (g[k] - f[k])
      BY <2>1, <2>2, TotalMoves
    <2> QED
      BY <2>3, <2>4, <2>5
  <1>3. Meant' = Meant + (MeantOf(k, order'[k]) - MeantOf(k, order[k]))
    <2> DEFINE f == [j \in Slots |-> MeantOf(j, order[j])]
               g == [j \in Slots |-> MeantOf(j, order'[j])]
    <2>1. \A j \in Slots : f[j] \in Int /\ g[j] \in Int
      BY <1>0, OrderCounts
    <2>2. \A j \in Slots \ {k} : f[j] = g[j]
      OBVIOUS
    <2>3. f[k] = MeantOf(k, order[k]) /\ g[k] = MeantOf(k, order'[k])
      OBVIOUS
    <2>5. Meant = Total(f) /\ Meant' = Total(g)
      BY DEF Meant, Total
    <2> HIDE DEF f, g
    <2>4. Total(g) = Total(f) + (g[k] - f[k])
      BY <2>1, <2>2, TotalMoves
    <2> QED
      BY <2>3, <2>4, <2>5
  <1>4. Working' = Working + (WorkingOf(order'[k]) - WorkingOf(order[k]))
    <2> DEFINE f == [j \in Slots |-> WorkingOf(order[j])]
               g == [j \in Slots |-> WorkingOf(order'[j])]
    <2>1. \A j \in Slots : f[j] \in Int /\ g[j] \in Int
      BY <1>0, OrderCounts
    <2>2. \A j \in Slots \ {k} : f[j] = g[j]
      OBVIOUS
    <2>3. f[k] = WorkingOf(order[k]) /\ g[k] = WorkingOf(order'[k])
      OBVIOUS
    <2>5. Working = Total(f) /\ Working' = Total(g)
      BY DEF Working, Total
    <2> HIDE DEF f, g
    <2>4. Total(g) = Total(f) + (g[k] - f[k])
      BY <2>1, <2>2, TotalMoves
    <2> QED
      BY <2>3, <2>4, <2>5
  <1> QED
    BY <1>1, <1>2, <1>3, <1>4 DEF OneMoves

\* No order changes.
LEMMA NoneMoves ==
  ASSUME UNCHANGED order
  PROVE UNCHANGED <<Committed, ToBook, Meant, Working, BuyOut, Rescuing>>
  <1>1. UNCHANGED <<ToBook, Meant, Working>>
    BY DEF ToBook, Meant, Working
  <1>2. UNCHANGED Committed
    BY CommittedIs
  <1> QED
    BY <1>1, <1>2 DEF BuyOut, Rescuing, Rows, Stage

\* What reserves, may work no more than it reserves; and what is due to the wallet is of rows.
LEMMA WorkingIsBacked ==
  ASSUME order \in [Slots -> Orders], Shaped
  PROVE Working <= Committed + ToBook
  <1> DEFINE f == [k \in Slots |-> Reserved(order[k])]
             g == [k \in Slots |-> DueOf(order[k])]
             h == [k \in Slots |-> f[k] + g[k]]
             w == [k \in Slots |-> WorkingOf(order[k])]
  <1>1. \A k \in Slots : f[k] \in Int /\ g[k] \in Int /\ h[k] = f[k] + g[k]
    BY OrderCounts
  <1>2. \A k \in Slots : w[k] \in Int /\ h[k] \in Int /\ w[k] <= h[k]
    <2> SUFFICES ASSUME NEW k \in Slots
                 PROVE w[k] \in Int /\ h[k] \in Int /\ w[k] <= h[k]
      OBVIOUS
    <2> QED
      BY DEF Orders, Reserved, DueOf, WorkingOf, Shaped, ShapeOf, Stage
  <1>3. Working = Total(w) /\ ToBook = Total(g) /\ Committed = Total(f)
    BY CommittedIs DEF Working, ToBook
  <1> HIDE DEF f, g, h, w
  <1>4. Total(h) = Total(f) + Total(g)
    BY <1>1, SlotsFinite, SumPlus DEF Total
  <1>5. Total(w) <= Total(h)
    BY <1>2, SlotsFinite, SumLe DEF Total
  <1> QED
    BY <1>3, <1>4, <1>5

\* With no buy out, nothing is due to the ledger.
LEMMA NothingDue ==
  ASSUME order \in [Slots -> Orders], ~BuyOut PROVE ToBook <= 0
  <1> DEFINE g == [k \in Slots |-> DueOf(order[k])]
             z == [k \in Slots |-> 0]
  <1>1. \A k \in Slots : g[k] \in Int /\ z[k] \in Int /\ g[k] <= z[k]
    BY DEF Orders, DueOf, BuyOut, Rows, Stage
  <1>2. \A k \in Slots : z[k] = 0
    OBVIOUS
  <1>3. ToBook = Total(g)
    BY DEF ToBook
  <1> HIDE DEF g, z
  <1> QED
    BY <1>1, <1>2, <1>3, SlotsFinite, SumLe, SumZero DEF Total

\* With nothing reserved there is no row of a sell.
LEMMA NoSellRows ==
  ASSUME order \in [Slots -> Orders], Shaped, Committed = 0, NEW k \in Slots
  PROVE ~(Stage(k) \in {"out", "trying", "matched"} /\ ~order[k].buy)
  <1> DEFINE f == [j \in Slots |-> Reserved(order[j])]
  <1>1. \A j \in Slots : f[j] \in Nat
    BY OrderCounts
  <1>2. Committed = Total(f)
    BY CommittedIs
  <1>3. f[k] = Reserved(order[k])
    OBVIOUS
  <1> HIDE DEF f
  <1>4. SumFunctionOnSet(f, {k}) <= Total(f)
    BY <1>1, SlotsFinite, SumPart DEF Total
  <1>5. SumFunctionOnSet(f, {k}) = f[k]
    <2>1. SumFunctionOnSet(f, {} \cup {k}) = f[k] + SumFunctionOnSet(f, {})
      <3>1. IsFiniteSet({}) /\ k \notin {} /\ \A x \in {} \cup {k} : f[x] \in Int
        BY <1>1, FS_EmptySet
      <3> QED
        BY <3>1, SumAdd
    <2> QED
      BY <1>1, <2>1, SumEmpty
  <1>6. Reserved(order[k]) <= 0
    BY <1>2, <1>3, <1>4, <1>5
  <1> QED
    BY <1>6 DEF Reserved, Shaped, ShapeOf, Stage, Orders

\* While no rescue is under way and the sweep has no order, all that is meant works.
LEMMA AllMeantWorks ==
  ASSUME order \in [Slots -> Orders], Shaped, ~Rescuing, Stage(Sweep) # "out"
  PROVE Meant = Working
  <1> DEFINE f == [k \in Slots |-> MeantOf(k, order[k])]
             w == [k \in Slots |-> WorkingOf(order[k])]
  <1>1. \A k \in Slots : f[k] = w[k]
    BY DEF MeantOf, WorkingOf, Rescuing, Shaped, ShapeOf, Stage
  <1>2. Meant = Total(f) /\ Working = Total(w)
    BY DEF Meant, Working
  <1> HIDE DEF f, w
  <1> QED
    BY <1>1, <1>2, SlotsFinite, SumSame DEF Total

-----------------------------------------------------------------------------
(* The ranges, and the slots.                                                *)

\* One slot is set: the others are as they were.
Sets(k, o) == order' = [order EXCEPT ![k] = o]

\* A slot that is set has what it is set to.
LEMMA SlotSet ==
  ASSUME order \in [Slots -> Orders], NEW k \in Slots, NEW o \in Orders, Sets(k, o)
  PROVE /\ order' \in [Slots -> Orders] /\ order'[k] = o
        /\ \A j \in Slots \ {k} : order'[j] = order[j]
  BY DEF Sets

\* The orders there can be.
LEMMA SomeOrders ==
  /\ NoOrder \in Orders
  /\ \A b \in BOOLEAN, n \in Nat : Out(b, n) \in Orders
  /\ \A o \in Orders, s \in OrderStages, n \in Nat :
       /\ [o EXCEPT !.stage = s] \in Orders
       /\ [o EXCEPT !.stage = s, !.n = n] \in Orders
       /\ [o EXCEPT !.stage = s, !.got = n] \in Orders
  BY DEF NoOrder, Out, Orders, OrderStages

\* The ranges as they are used.
LEMMA Ranges ==
  FollowTypeOK <=>
    /\ pend \in [buy : BOOLEAN, n : 0 .. MaxHis] /\ made \in 0 .. MaxTrades
    /\ his \in 0 .. MaxHis /\ old \in 0 .. MaxHis
    /\ cHis \in Nat /\ lHis \in Nat /\ cLeg \in Nat /\ lLeg \in Nat
    /\ chain \in Nat /\ ours \in Nat /\ lOurs \in Nat /\ lRes \in Nat
    /\ order \in [Slots -> Orders]
    /\ found \in Nat /\ anchor \in {NoRead} \cup 0 .. MaxHis /\ owed \in Int /\ seen \in BOOLEAN
    /\ strayed \in Strays
  BY DEF FollowTypeOK, Orders

\* What the retries of a sell, and the reads of his book, come to.
LEMMA SomeNumbers ==
  ASSUME FollowTypeOK
  PROVE /\ \A a, b \in Nat : Monus(a, b) \in Nat /\ Monus(a, b) <= a /\ Lesser(a, b) \in Nat
        /\ \A why \in Failures, a, n \in Nat : RetrySizes(why, a, n) \subseteq Nat
        /\ \A v \in 0 .. MaxHis, c \in BOOLEAN : Planned(v, c) \subseteq Nat
        /\ Fresh => Shown \in 0 .. MaxHis
        /\ Committed \in Nat
  <1>1. \A a, b \in Nat : Monus(a, b) \in Nat /\ Monus(a, b) <= a /\ Lesser(a, b) \in Nat
    BY DEF Monus, Lesser
  <1>2. \A why \in Failures, a, n \in Nat : RetrySizes(why, a, n) \subseteq Nat
    <2> SUFFICES ASSUME NEW why \in Failures, NEW a \in Nat, NEW n \in Nat
                 PROVE RetrySizes(why, a, n) \subseteq Nat
      OBVIOUS
    <2>1. Lesser(a, chain) \in Nat /\ Lesser(a, n) \in Nat
      BY <1>1 DEF FollowTypeOK
    <2> QED
      BY <2>1 DEF RetrySizes
  <1>3. \A v \in 0 .. MaxHis, c \in BOOLEAN : Planned(v, c) \subseteq Nat
    BY FollowAssumption DEF Planned, Anchored, FollowTypeOK
  <1>4. Fresh => Shown \in 0 .. MaxHis
    BY FollowAssumption DEF Shown, Fresh, FollowTypeOK
  <1>5. Committed \in Nat
    BY Ranges, Totals
  <1> QED
    BY <1>1, <1>2, <1>3, <1>4, <1>5

\* What leads the lane astray is of a kind, and a lane that is not astray never was.
LEMMA StrayKinds ==
  ASSUME strayed \in Strays, NEW sells, NEW blind, Stray(sells, blind)
  PROVE strayed' \in Strays
  BY DEF Stray, Strays

\* What was not led astray by this step was not before, and the step did not.
LEMMA NotStray ==
  ASSUME NEW sells, NEW blind, Stray(sells, blind), strayed' = "no"
  PROVE strayed = "no" /\ ~sells /\ ~blind
  BY DEF Stray

\* The initial states are in their ranges.
LEMMA InitBase == FollowInit => FBase
  BY FollowAssumption
     DEF Strays, FollowInit, FBase, FollowTypeOK, Fresh, NoTrade, NoOrder, OrderStages, NoRead, Slots,
         Stage

\* An answer changes a slot that is taken, and leaves the others.
LEMMA AnswerFrame ==
  ASSUME FBase, NEW k \in Slots, Answer(k)
  PROVE /\ order' \in [Slots -> Orders] /\ Stage(k) # "none"
        /\ \A j \in Slots \ {k} : order'[j] = order[j]
        /\ UNCHANGED <<pend, made, his, old, view, lane, found, anchor>>
  <1>0. /\ FollowTypeOK /\ Fresh /\ k \in Slots /\ order[k] \in Orders
        /\ order \in [Slots -> Orders]
    BY Ranges DEF FBase
  <1>1. \E o \in Orders : Sets(k, o)
    <2>1. CASE \E m \in 1 .. MaxHis : Matches(k, m)
      <3>1. PICK m \in 1 .. MaxHis : Matches(k, m)
        BY <2>1
      <3>2. [order[k] EXCEPT !.stage = "matched", !.got = m] \in Orders
        <4>1. m \in Nat
          BY FollowAssumption
        <4> QED
          BY <1>0, <4>1, SomeOrders DEF OrderStages
      <3> QED
        BY <3>1, <3>2 DEF Matches, Sets
    <2>2. CASE \E why \in Failures : Refuses(k, why)
      <3>1. PICK why \in Failures : Refuses(k, why)
        BY <2>2
      <3>2. CASE ~order[k].buy /\ k # Sweep /\ why # "Stable"
        <4>1. PICK n \in RetrySizes(why, order[k].meant, order[k].n) :
                 order' = [order EXCEPT ![k] = [@ EXCEPT !.stage = "waiting", !.n = n]]
          BY <3>1, <3>2 DEF Refuses
        <4>2. n \in Nat
          BY <1>0, <4>1, SomeNumbers DEF Orders
        <4> QED
          BY <1>0, <4>1, <4>2, SomeOrders DEF Sets, OrderStages
      <3>3. CASE ~(~order[k].buy /\ k # Sweep /\ why # "Stable")
        BY <3>1, <3>3, SomeOrders DEF Refuses, Closed, Sets
      <3> QED
        BY <3>2, <3>3
    <2>3. CASE Books(k) \/ NotFilled(k) \/ GivesUp(k)
      BY <2>3, SomeOrders DEF Books, NotFilled, GivesUp, Closed, Sets
    <2>4. CASE Retry(k)
      BY <1>0, <2>4, SomeOrders DEF Retry, Moved, Sets, OrderStages
    <2> QED
      BY <2>1, <2>2, <2>3, <2>4 DEF Answer
  <1>2. PICK o \in Orders : Sets(k, o)
    BY <1>1
  <1>3. /\ order' \in [Slots -> Orders] /\ order'[k] = o
        /\ \A j \in Slots \ {k} : order'[j] = order[j]
    BY <1>0, <1>2, SlotSet
  <1>4. Stage(k) # "none"
    BY DEF Answer, Matches, Refuses, Books, NotFilled, Retry, GivesUp
  <1>5. UNCHANGED <<pend, made, his, old, view, lane, found, anchor>>
    BY DEF Answer, Matches, Refuses, Books, NotFilled, Retry, GivesUp, leader, view, stock, lane,
           history
  <1> QED
    BY <1>3, <1>4, <1>5

\* An answer keeps the ranges.
LEMMA AnswerBase ==
  ASSUME FBase, NEW k \in Slots, Answer(k)
  PROVE FBase'
  <1>0. /\ FollowTypeOK /\ Fresh /\ k \in Slots /\ order[k] \in Orders
        /\ order \in [Slots -> Orders]
    BY Ranges DEF FBase
  <1>3. /\ order' \in [Slots -> Orders]
        /\ \A j \in Slots \ {k} : order'[j] = order[j]
    BY AnswerFrame
  <1>4. Stage(k) # "none"
    BY AnswerFrame
  <1>5. UNCHANGED <<pend, made, his, old, view, lane, found, anchor>>
    BY AnswerFrame
  <1>s. strayed' \in Strays
    BY <1>0, StrayKinds
       DEF Answer, Matches, Refuses, Books, NotFilled, Retry, GivesUp, history, FollowTypeOK
  <1>6. /\ chain' \in Nat /\ ours' \in Nat /\ owed' \in Int /\ seen' \in BOOLEAN
    <2>1. ASSUME NEW m \in 1 .. MaxHis, Matches(k, m)
          PROVE chain' \in Nat /\ ours' \in Nat /\ owed' \in Int /\ seen' \in BOOLEAN
      <3>1. m \in Nat /\ chain \in Nat /\ ours \in Nat /\ owed \in Int /\ seen \in BOOLEAN
        BY <1>0 DEF FollowTypeOK
      <3>2. CASE order[k].buy
        BY <2>1, <3>1, <3>2 DEF Matches
      <3>3. CASE ~order[k].buy
        BY <2>1, <3>1, <3>3 DEF Matches
      <3> QED
        BY <3>2, <3>3
    <2>2. Books(k) => chain' \in Nat /\ ours' \in Nat /\ owed' \in Int /\ seen' \in BOOLEAN
      <3>1. /\ Monus(ours, order[k].got) \in Nat /\ ours + order[k].got \in Nat
            /\ chain \in Nat /\ owed \in Int /\ seen \in BOOLEAN
        <4>1. order[k].got \in Nat
          BY <1>0 DEF Orders
        <4>2. ours \in Nat /\ chain \in Nat /\ owed \in Int /\ seen \in BOOLEAN
          BY <1>0 DEF FollowTypeOK
        <4> QED
          BY <4>1, <4>2 DEF Monus
      <3> QED
        BY <3>1 DEF Books, LeftOf, history
    <2>3. (\E why \in Failures : Refuses(k, why)) \/ NotFilled(k) \/ Retry(k) \/ GivesUp(k) =>
            chain' \in Nat /\ ours' \in Nat /\ owed' \in Int /\ seen' \in BOOLEAN
      BY <1>0 DEF Refuses, NotFilled, Retry, GivesUp, FollowTypeOK, history, stock
    <2> QED
      BY <2>1, <2>2, <2>3 DEF Answer
  <1>7. FollowTypeOK'
    BY <1>0, <1>3, <1>5, <1>6, <1>s DEF FollowTypeOK, Orders, view, lane
  <1>8. Fresh'
    <2>1. pend # NoTrade => made # k /\ made \in Slots
      BY <1>0, <1>4 DEF Fresh, FollowTypeOK, Slots
    <2>2. ~(k > made)
      BY <1>0, <1>4 DEF Fresh
    <2> QED
      BY <1>0, <1>3, <1>5, <2>1, <2>2 DEF Fresh, Stage
  <1> QED
    BY <1>7, <1>8 DEF FBase

\* His trades, and what the lane makes of them.
LEMMA HeBase ==
  ASSUME FBase, NEW buy \in BOOLEAN, NEW n \in 1 .. MaxHis, He(buy, n)
  PROVE FBase'
  BY FollowAssumption
     DEF FBase, He, FollowTypeOK, Fresh, view, stock, lane, history, Stage, Slots, NoTrade

\* Where he is after a trade of his.
LEMMA MovesBase ==
  ASSUME FBase, Moves
  PROVE /\ pend' = NoTrade /\ NoTrade \in [buy : BOOLEAN, n : 0 .. MaxHis]
        /\ his' \in 0 .. MaxHis /\ old' \in 0 .. MaxHis /\ owed' \in Int
  <1>1. FollowTypeOK /\ Fresh /\ pend # NoTrade /\ MaxHis \in Nat /\ pend' = NoTrade
    BY FollowAssumption DEF FBase, Moves
  <1>2. CASE pend.buy
    BY <1>1, <1>2 DEF Moves, FollowTypeOK, Fresh, NoTrade
  <1>3. CASE ~pend.buy
    <2>1. pend.n \in Nat /\ pend.n <= his /\ his \in 0 .. MaxHis /\ old \in 0 .. MaxHis
      BY <1>1, <1>3 DEF FollowTypeOK, Fresh
    <2>2. Asked(pend.n) \in Nat
      BY <1>1, <2>1, AskedNat DEF FollowTypeOK
    <2>3. his' = his - pend.n /\ old' = Monus(old, pend.n) /\ owed' = owed + Asked(pend.n)
      BY <1>3 DEF Moves
    <2> QED
      BY <1>1, <2>1, <2>2, <2>3 DEF Monus, FollowTypeOK, NoTrade
  <1> QED
    BY <1>2, <1>3

\* His trades, as they are handled or missed, keep the ranges.
LEMMA FeedBase ==
  ASSUME FBase, Feed PROVE FBase'
  <1>0. /\ FollowTypeOK /\ Fresh /\ order \in [Slots -> Orders] /\ pend.n \in Nat
        /\ cHis \in Nat /\ cLeg \in Nat
    BY Ranges DEF FBase, FollowTypeOK
  <1>1. Moves
    BY DEF Feed, HandleBuy, HandleSell, Miss
  <1>2. /\ pend' = NoTrade /\ NoTrade \in [buy : BOOLEAN, n : 0 .. MaxHis]
        /\ his' \in 0 .. MaxHis /\ old' \in 0 .. MaxHis /\ owed' \in Int
    BY <1>1, MovesBase
  <1>3. pend # NoTrade /\ made \in Slots
    BY <1>0, <1>1 DEF Moves, FollowTypeOK, Slots
  <1>4. \A b \in BOOLEAN : Observe(b, pend.n) =>
          cHis' \in Nat /\ cLeg' \in Nat /\ lHis' \in Nat /\ lLeg' = lLeg
    <2>1. Monus(cHis, pend.n) \in Nat /\ Monus(cLeg, pend.n) \in Nat
      BY <1>0 DEF Monus
    <2> QED
      BY <1>0, <2>1 DEF Observe, ObserveHisFill
  <1>s. strayed' \in Strays
    BY <1>0, StrayKinds DEF Feed, HandleBuy, HandleSell, Miss, Observe, FollowTypeOK
  <1>5. CASE HandleBuy
    <2>1. PICK o \in Orders : Sets(made, o)
      <3>1. PICK n \in {0, pend.n} :
               order' = [order EXCEPT ![made] = IF n > 0 THEN Out(TRUE, n) ELSE @]
        BY <1>5 DEF HandleBuy
      <3>2. (IF n > 0 THEN Out(TRUE, n) ELSE order[made]) \in Orders
        BY <1>0, <1>3, SomeOrders
      <3> QED
        BY <3>1, <3>2 DEF Sets
    <2>2. /\ order' \in [Slots -> Orders]
          /\ \A j \in Slots \ {made} : order'[j] = order[j]
      BY <1>0, <1>3, <2>1, SlotSet
    <2>3. FollowTypeOK'
      BY <1>0, <1>2, <1>4, <1>5, <1>s, <2>2, Ranges
         DEF HandleBuy, FollowTypeOK, Orders, stock, lane
    <2>4. Fresh'
      <3>1. \A k \in Slots : k > made => k # made
        BY <1>0, FollowAssumption DEF FollowTypeOK, Slots
      <3>2. \A k \in Slots : k > made => order'[k] = order[k]
        BY <2>2, <3>1
      <3>3. made' = made
        BY <1>5 DEF HandleBuy
      <3> QED
        BY <1>0, <1>2, <3>2, <3>3 DEF Fresh, Stage
    <2> QED
      BY <2>3, <2>4 DEF FBase
  <1>6. CASE HandleSell
    <2> DEFINE n == Wanted(Monus(lOurs, lRes), pend.n, lHis, lLeg)
    <2>0. n \in Nat
      BY <1>0, SomeNumbers, WantedNat DEF FollowTypeOK
    <2>s. /\ order' = [order EXCEPT ![made] = IF n > 0 THEN Out(FALSE, n) ELSE @]
          /\ lRes' = lRes + n
          /\ Observe(FALSE, pend.n)
          /\ UNCHANGED <<made, chain, ours, lOurs, found, anchor, seen>>
      BY <1>6 DEF HandleSell
    <2> HIDE DEF n
    <2>1. PICK o \in Orders : Sets(made, o)
      <3>2. (IF n > 0 THEN Out(FALSE, n) ELSE order[made]) \in Orders
        BY <1>0, <1>3, <2>0, SomeOrders
      <3> QED
        BY <2>s, <3>2 DEF Sets
    <2>2. /\ order' \in [Slots -> Orders]
          /\ \A j \in Slots \ {made} : order'[j] = order[j]
      BY <1>0, <1>3, <2>1, SlotSet
    <2>3. FollowTypeOK'
      <3>1. cHis' \in Nat /\ cLeg' \in Nat /\ lHis' \in Nat /\ lLeg' = lLeg
        BY <1>4, <2>s
      <3>2. lRes' \in Nat
        BY <1>0, <2>0, <2>s DEF FollowTypeOK
      <3> QED
        BY <1>0, <1>2, <1>s, <2>s, <2>2, <3>1, <3>2 DEF FollowTypeOK, Orders
    <2>4. Fresh'
      <3>1. \A k \in Slots : k > made => k # made
        BY <1>0, FollowAssumption DEF FollowTypeOK, Slots
      <3>2. \A k \in Slots : k > made => order'[k] = order[k]
        BY <2>2, <3>1
      <3>3. made' = made
        BY <1>6 DEF HandleSell
      <3> QED
        BY <1>0, <1>2, <3>2, <3>3 DEF Fresh, Stage
    <2> QED
      BY <2>3, <2>4 DEF FBase
  <1>7. CASE Miss
    <2>1. FollowTypeOK'
      BY <1>0, <1>2, <1>7, <1>s DEF Miss, FollowTypeOK, view, stock, lane
    <2>2. Fresh'
      BY <1>0, <1>2, <1>7 DEF Miss, Fresh, Stage
    <2> QED
      BY <2>1, <2>2 DEF FBase
  <1> QED
    BY <1>5, <1>6, <1>7 DEF Feed

\* The ticks, the sweep and the re-anchor.
LEMMA TasksBase ==
  ASSUME FBase, Tick \/ SweepActs \/ AnchorActs PROVE FBase'
  <1>0. /\ FollowTypeOK /\ Fresh /\ order \in [Slots -> Orders] /\ Sweep \in Slots
    BY Ranges, SlotsFinite DEF FBase
  <1>s. strayed' \in Strays
    BY <1>0, StrayKinds
       DEF Tick, SweepActs, SweepReads, SweepSends, SweepSkips, AnchorActs, AnchorReads,
           AnchorWrites, history, FollowTypeOK
  <1>1. CASE Tick
    BY <1>0, <1>1, <1>s, SomeNumbers DEF Tick, Reserves, FBase, FollowTypeOK, Fresh, leader, Stage
  <1>2. CASE SweepReads
    <2>1. found' \in Nat
      BY <1>0, <1>2, SomeNumbers DEF SweepReads, FollowTypeOK
    <2> QED
      BY <1>0, <1>2, <1>s, <2>1
         DEF SweepReads, FBase, FollowTypeOK, Fresh, leader, view, stock, lane, history, Stage
  <1>3. CASE SweepSends
    <2>1. Sets(Sweep, Out(FALSE, found)) /\ Out(FALSE, found) \in Orders
      BY <1>0, <1>3, SomeOrders DEF SweepSends, Sets, FollowTypeOK
    <2>2. /\ order' \in [Slots -> Orders]
          /\ \A j \in Slots \ {Sweep} : order'[j] = order[j]
      BY <1>0, <2>1, SlotSet
    <2>3. FollowTypeOK'
      BY <1>0, <1>3, <1>s, <2>2
         DEF SweepSends, FollowTypeOK, Orders, leader, view, stock, lane
    <2>4. Fresh'
      <3>1. \A k \in Slots : k > made => k # Sweep
        BY <1>0 DEF FollowTypeOK, Sweep
      <3>2. pend # NoTrade => made # Sweep /\ made \in Slots
        BY <1>0 DEF FollowTypeOK, Sweep, Fresh, Slots
      <3> QED
        BY <1>0, <1>3, <2>2, <3>1, <3>2 DEF SweepSends, Fresh, leader, Stage
    <2> QED
      BY <2>3, <2>4 DEF FBase
  <1>4. CASE SweepSkips
    BY <1>0, <1>4
       DEF SweepSkips, FBase, FollowTypeOK, Fresh, leader, view, stock, lane, history, Stage
  <1>5. CASE AnchorReads
    <2>1. anchor' \in 0 .. MaxHis
      BY <1>0, <1>5, SomeNumbers DEF AnchorReads
    <2> QED
      BY <1>0, <1>5, <2>1
         DEF AnchorReads, FBase, FollowTypeOK, Fresh, leader, view, stock, lane, history, Stage
  <1>6. ASSUME NEW c \in BOOLEAN, AnchorWrites(c) PROVE FBase'
    <2>1. cHis' \in Nat /\ lHis' \in Nat
      <3>1. anchor \in 0 .. MaxHis
        BY <1>0, <1>6 DEF AnchorWrites, FollowTypeOK
      <3>2. Planned(anchor, c) \subseteq Nat
        BY <1>0, <3>1, SomeNumbers
      <3> QED
        BY <1>0, <1>6, <3>2 DEF AnchorWrites, FollowTypeOK
    <2> QED
      BY <1>0, <1>6, <1>s, <2>1
         DEF AnchorWrites, FBase, FollowTypeOK, Fresh, leader, stock, lane, history, Stage
  <1> QED
    BY <1>1, <1>2, <1>3, <1>4, <1>5, <1>6 DEF SweepActs, AnchorActs

\* A restart keeps the ranges.
LEMMA RestartBase ==
  ASSUME FBase, Restarts PROVE FBase'
  <1>0. FollowTypeOK /\ Fresh /\ order \in [Slots -> Orders] /\ Committed \in Nat
    BY Ranges, SomeNumbers DEF FBase
  <1>1. order' \in [Slots -> Orders]
    BY <1>0, SomeOrders DEF Restarts
  <1>s. strayed' \in Strays
    BY <1>0, StrayKinds DEF Restarts, FollowTypeOK
  <1>2. FollowTypeOK'
    BY <1>0, <1>1, <1>s, FollowAssumption DEF Restarts, SeedHisBook, FollowTypeOK, Orders
  <1>3. Fresh'
    <2>1. \A k \in Slots : Stage(k) = "none" => Stage(k)' = "none"
      BY DEF Restarts, Stage, Rows, NoOrder
    <2> QED
      BY <1>0, <2>1 DEF Restarts, Fresh
  <1> QED
    BY <1>2, <1>3 DEF FBase

\* Every step keeps the ranges.
LEMMA NextBase == FBase /\ [FollowNext]_followVars => FBase'
  <1> SUFFICES ASSUME FBase, [FollowNext]_followVars PROVE FBase'
    OBVIOUS
  <1>1. CASE \E buy \in BOOLEAN, n \in 1 .. MaxHis : He(buy, n)
    BY <1>1, HeBase
  <1>2. CASE Feed
    BY <1>2, FeedBase
  <1>3. CASE Tick \/ SweepActs \/ AnchorActs
    BY <1>3, TasksBase
  <1>4. CASE Restarts
    BY <1>4, RestartBase
  <1>5. CASE \E k \in Slots : Answer(k)
    BY <1>5, AnswerBase
  <1>6. CASE UNCHANGED followVars
    BY <1>6 DEF followVars, FBase, FollowTypeOK, Fresh, leader, view, stock, lane, history, Stage
  <1> QED
    BY <1>1, <1>2, <1>3, <1>4, <1>5, <1>6 DEF FollowNext

-----------------------------------------------------------------------------
(* What the lane owes him, when nothing goes wrong.                          *)

IsBuyRow(o) == o.stage \in {"out", "trying", "matched"} /\ o.buy

\* One slot changes, and it becomes no row of a buy unless it was one.
LEMMA OneSlot ==
  ASSUME order' \in [Slots -> Orders], NEW k \in Slots,
         \A j \in Slots \ {k} : order'[j] = order[j], Shaped, ShapeOf(k, order'[k])
  PROVE /\ Shaped'
        /\ (IsBuyRow(order'[k]) => IsBuyRow(order[k])) => (BuyOut' => BuyOut)
  <1>1. Shaped'
    BY DEF Shaped, ShapeOf
  <1>2. ASSUME IsBuyRow(order'[k]) => IsBuyRow(order[k]), BuyOut' PROVE BuyOut
    <2>1. PICK j \in Slots : IsBuyRow(order'[j])
      BY <1>2 DEF BuyOut, IsBuyRow, Rows, Stage
    <2>2. IsBuyRow(order[j])
      BY <1>2, <2>1
    <2> QED
      BY <2>2 DEF BuyOut, IsBuyRow, Rows, Stage
  <1> QED
    BY <1>1, <1>2

\* The ranges of the numbers that are compared.
LEMMA Numbers ==
  ASSUME FBase
  PROVE /\ his \in Nat /\ old \in Nat /\ chain \in Nat /\ ours \in Nat /\ owed \in Int
        /\ lOurs \in Nat /\ lRes \in Nat /\ cHis \in Nat /\ lLeg \in Nat /\ found \in Nat
        /\ Committed \in Nat /\ ToBook \in Int /\ Meant \in Nat /\ Working \in Nat
        /\ order \in [Slots -> Orders] /\ \A k \in Slots : order[k] \in Orders
        /\ Sweep \in Slots /\ MaxHis \in Nat /\ made \in Nat
  <1>1. order \in [Slots -> Orders] /\ FollowTypeOK
    BY Ranges DEF FBase
  <1> QED
    BY <1>1, Totals, SlotsFinite, FollowAssumption DEF FollowTypeOK

\* The parts of the invariant that an answer can disturb.
LEMMA AnswerParts ==
  ASSUME FBase, FSound, NEW k \in Slots, Answer(k), ShapeOf(k, order'[k]),
         IsBuyRow(order'[k]) => IsBuyRow(order[k]),
         order'[k].stage = "out" => order[k].stage = "out",
         cHis = his \/ ours' = ours \/ (ours = 0 => ours' = 0),
         Balanced', Owing',
         seen' => seen /\ order'[k].stage # "trying" /\ ours' - Committed' >= ours - Committed
  PROVE FSound'
  <1>1. /\ order' \in [Slots -> Orders] /\ Stage(k) # "none"
        /\ \A j \in Slots \ {k} : order'[j] = order[j]
        /\ UNCHANGED <<pend, made, his, old, view, lane, found, anchor>>
    BY AnswerFrame
  <1>2. Shaped' /\ (BuyOut' => BuyOut)
    BY <1>1, OneSlot DEF FSound
  <1>3. Known'
    BY <1>1, <1>2 DEF FSound, Known, view
  <1>4. Offered'
    <2> SUFFICES ASSUME seen'
                 PROVE /\ lOurs - lRes <= ours' - Committed'
                       /\ \A j \in Slots : order'[j].stage # "trying"
                       /\ order'[Sweep].stage = "none"
      BY <1>1 DEF Offered, Stage, lane
    <2>1. k # Sweep /\ seen
      BY <1>1 DEF FSound, Offered
    <2>2. lOurs - lRes <= ours - Committed
      BY <2>1 DEF FSound, Offered
    <2>3. ours' \in Nat /\ Committed' \in Nat
      <3>1. FBase'
        BY AnswerBase
      <3>2. FollowTypeOK'
        BY <3>1 DEF FBase
      <3>3. Committed' \in Nat
        <4>1. \A j \in Slots : Reserved(order'[j]) \in Nat
          BY <1>1, OrderCounts
        <4> QED
          BY <4>1, SlotsFinite, SumNat, CommittedIs DEF Total
      <3> QED
        BY <3>2, <3>3 DEF FollowTypeOK
    <2>4. lOurs - lRes <= ours' - Committed'
      BY <2>2, <2>3, Numbers
    <2> QED
      BY <1>1, <2>1, <2>4, Numbers DEF FSound, Offered, Stage
  <1>5. SweptOut'
    BY <1>1, Numbers DEF FSound, SweptOut, HeIsOut, Stage
  <1> QED
    BY <1>2, <1>3, <1>4, <1>5 DEF FSound

\* What an answer starts from, and what it moves.
LEMMA AnswerStart ==
  ASSUME FBase, FSound, NEW k \in Slots, Answer(k)
  PROVE /\ OneMoves(k) /\ order[k] \in Orders /\ order'[k] \in Orders
        /\ ShapeOf(k, order[k]) /\ Stage(k) = order[k].stage
        /\ Committed' \in Int /\ ToBook' \in Int /\ Meant' \in Int /\ Working' \in Int
        /\ chain' \in Nat /\ ours' \in Nat /\ owed' \in Int
        /\ (HeIsOut' <=> HeIsOut)
        /\ seen /\ Stage(k) # "none" => k # Sweep /\ Stage(k) # "trying"
        /\ k = Sweep /\ Stage(k) = "out" => HeIsOut
        /\ Balanced
        /\ HeIsOut => owed >= chain
        /\ ~HeIsOut => Meant <= owed
        /\ seen => Working <= owed
  <1>1. /\ order' \in [Slots -> Orders]
        /\ \A j \in Slots \ {k} : order'[j] = order[j]
        /\ UNCHANGED <<pend, made, his, old, view, lane, found, anchor>>
    BY AnswerFrame
  <1>2. OneMoves(k)
    BY <1>1, MovesOne, Numbers
  <1>3. order[k] \in Orders /\ order'[k] \in Orders
    BY <1>1, Numbers
  <1>4. /\ Reserved(order[k]) \in Int /\ Reserved(order'[k]) \in Int
        /\ DueOf(order[k]) \in Int /\ DueOf(order'[k]) \in Int
        /\ MeantOf(k, order[k]) \in Int /\ MeantOf(k, order'[k]) \in Int
        /\ WorkingOf(order[k]) \in Int /\ WorkingOf(order'[k]) \in Int
    BY <1>3, OrderCounts
  <1>5. Committed' \in Int /\ ToBook' \in Int /\ Meant' \in Int /\ Working' \in Int
    BY <1>2, <1>4, Numbers DEF OneMoves
  <1>6. chain' \in Nat /\ ours' \in Nat /\ owed' \in Int
    <2>1. FollowTypeOK'
      BY AnswerBase DEF FBase
    <2> QED
      BY <2>1 DEF FollowTypeOK
  <1>7. HeIsOut' <=> HeIsOut
    BY <1>1 DEF HeIsOut
  <1>8. ShapeOf(k, order[k]) /\ Stage(k) = order[k].stage
    BY DEF FSound, Shaped, Stage
  <1>9. /\ seen /\ Stage(k) # "none" => k # Sweep /\ Stage(k) # "trying"
        /\ k = Sweep /\ Stage(k) = "out" => HeIsOut
    BY DEF FSound, Offered, SweptOut
  <1>10. /\ Balanced
         /\ HeIsOut => owed >= chain
         /\ ~HeIsOut => Meant <= owed
         /\ seen => Working <= owed
    BY DEF FSound, Owing
  <1> QED
    BY <1>2, <1>3, <1>5, <1>6, <1>7, <1>8, <1>9, <1>10

\* A match takes from the wallet what it takes from what is owed.
LEMMA MatchesSound ==
  ASSUME FBase, FSound, NEW k \in Slots, NEW m \in 1 .. MaxHis, Matches(k, m)
  PROVE FSound'
  <1> DEFINE o == order[k]
             p == order'[k]
  <1>0. Answer(k)
    BY DEF Answer
  <1>1. /\ o.stage \in {"out", "trying"} /\ m <= o.n /\ m \in Nat
        /\ p = [o EXCEPT !.stage = "matched", !.got = m]
        /\ ours' = ours /\ seen' = seen
        /\ IF o.buy THEN chain' = chain + m /\ owed' = IF HeIsOut THEN owed + m ELSE owed
           ELSE m <= chain /\ chain' = chain - m /\ owed' = owed - m
    BY Numbers DEF Matches, Stage
  <1>2. /\ o \in Orders /\ p \in Orders /\ OneMoves(k) /\ ShapeOf(k, o) /\ Stage(k) = o.stage
    BY <1>0, AnswerStart
  <1>3. /\ p.stage = "matched" /\ p.buy = o.buy /\ p.n = o.n /\ p.meant = o.meant /\ p.got = m
        /\ o.n \in Nat /\ o.meant \in Nat /\ o.buy \in BOOLEAN
    BY <1>1, <1>2 DEF Orders
  <1> HIDE DEF o, p
  <1>4. ShapeOf(k, p)
    BY <1>1, <1>2, <1>3 DEF ShapeOf
  <1>5. IsBuyRow(p) => IsBuyRow(o)
    BY <1>1, <1>3 DEF IsBuyRow
  <1>6. /\ Committed' = Committed
        /\ ToBook' = ToBook + (IF o.buy THEN m ELSE -m)
        /\ Meant' = Meant - (IF k # Sweep /\ ~o.buy THEN o.meant ELSE 0)
        /\ Working' = Working - (IF o.stage = "out" /\ ~o.buy THEN o.n ELSE 0)
    <2>1. /\ Reserved(p) = Reserved(o) /\ Reserved(o) \in Int
          /\ DueOf(o) = 0 /\ DueOf(p) = (IF o.buy THEN m ELSE -m)
          /\ MeantOf(k, p) = 0 /\ WorkingOf(p) = 0
          /\ MeantOf(k, o) = (IF k # Sweep /\ ~o.buy THEN o.meant ELSE 0)
          /\ WorkingOf(o) = (IF o.stage = "out" /\ ~o.buy THEN o.n ELSE 0)
      BY <1>1, <1>3 DEF Reserved, DueOf, MeantOf, WorkingOf
    <2> QED
      BY <1>1, <1>2, <1>3, <2>1, Numbers DEF OneMoves, o, p
  <1>7. Balanced'
    BY <1>0, <1>1, <1>3, <1>6, AnswerStart, Numbers DEF Balanced
  <1>8. Owing'
    <2>1. HeIsOut' => owed' >= chain'
      BY <1>0, <1>1, <1>3, AnswerStart, Numbers
    <2>2. ~HeIsOut' => Meant' <= owed'
      <3>1. ~HeIsOut => ~(k = Sweep /\ o.stage = "out") /\ (o.stage = "trying" => k # Sweep)
        BY <1>0, <1>2, AnswerStart DEF ShapeOf
      <3>2. o.n <= o.meant
        BY <1>1, <1>2 DEF ShapeOf
      <3> QED
        BY <1>0, <1>1, <1>3, <1>6, <3>1, <3>2, AnswerStart, Numbers
    <2>3. seen' => Working' <= owed'
      <3>1. seen => o.stage = "out"
        BY <1>0, <1>1, <1>2, AnswerStart
      <3> QED
        BY <1>0, <1>1, <1>3, <1>6, <3>1, AnswerStart, Numbers
    <2> QED
      BY <2>1, <2>2, <2>3 DEF Owing
  <1>9. seen' => seen /\ p.stage # "trying" /\ ours' - Committed' >= ours - Committed
    BY <1>1, <1>3, <1>6, Numbers
  <1> QED
    BY <1>0, <1>1, <1>3, <1>4, <1>5, <1>7, <1>8, <1>9, AnswerParts DEF o, p

\* A slot that is given up: nothing of it is owed any more.
LEMMA ClosedSound ==
  ASSUME FBase, FSound, NEW k \in Slots, Answer(k), Closed(k),
         UNCHANGED <<chain, ours, owed, seen>>, Stage(k) # "matched"
  PROVE FSound'
  <1> DEFINE o == order[k]
             p == order'[k]
  <1>1. p = NoOrder
    BY Numbers DEF Closed
  <1>2. /\ o \in Orders /\ p \in Orders /\ OneMoves(k) /\ ShapeOf(k, o) /\ Stage(k) = o.stage
    BY AnswerStart
  <1>3. p.stage = "none" /\ ~p.buy /\ o.n \in Nat /\ o.meant \in Nat
    BY <1>1, <1>2 DEF NoOrder, Orders
  <1> HIDE DEF o, p
  <1>4. ShapeOf(k, p) /\ ~IsBuyRow(p)
    BY <1>3 DEF ShapeOf, IsBuyRow
  <1>5. /\ Committed' <= Committed /\ ToBook' = ToBook
        /\ Meant' <= Meant /\ Working' <= Working
    <2>1. /\ Reserved(p) = 0 /\ Reserved(o) \in Nat /\ DueOf(p) = 0 /\ DueOf(o) = 0
          /\ MeantOf(k, p) = 0 /\ MeantOf(k, o) \in Nat
          /\ WorkingOf(p) = 0 /\ WorkingOf(o) \in Nat
      BY <1>2, <1>3 DEF Reserved, DueOf, MeantOf, WorkingOf
    <2> QED
      BY <1>2, <2>1, Numbers DEF OneMoves, o, p
  <1>6. Balanced'
    BY <1>5, AnswerStart DEF Balanced
  <1>7. Owing'
    BY <1>5, AnswerStart, Numbers DEF Owing
  <1>8. seen' => seen /\ p.stage # "trying" /\ ours' - Committed' >= ours - Committed
    BY <1>3, <1>5, AnswerStart, Numbers
  <1> QED
    BY <1>3, <1>4, <1>6, <1>7, <1>8, AnswerParts DEF o, p

\* A refusal leaves what was meant to its rescue, or to nobody.
LEMMA RefusesSound ==
  ASSUME FBase, FSound, NEW k \in Slots, NEW why \in Failures, Refuses(k, why)
  PROVE FSound'
  <1> DEFINE o == order[k]
             p == order'[k]
  <1>0. Answer(k)
    BY DEF Answer
  <1>1. /\ o.stage \in {"out", "trying"} /\ UNCHANGED <<chain, ours, owed, seen>>
    BY DEF Refuses, Stage, stock, history
  <1>2. CASE ~(~o.buy /\ k # Sweep /\ why # "Stable")
    BY <1>0, <1>1, <1>2, ClosedSound DEF Refuses, Stage
  <1>3. CASE ~o.buy /\ k # Sweep /\ why # "Stable"
    <2>1. PICK n \in RetrySizes(why, o.meant, o.n) :
             order' = [order EXCEPT ![k] = [@ EXCEPT !.stage = "waiting", !.n = n]]
      BY <1>3 DEF Refuses
    <2>2. p = [o EXCEPT !.stage = "waiting", !.n = n]
      BY <2>1, Numbers
    <2>3. /\ o \in Orders /\ p \in Orders /\ OneMoves(k) /\ ShapeOf(k, o) /\ Stage(k) = o.stage
      BY <1>0, AnswerStart
    <2>4. /\ p.stage = "waiting" /\ p.buy = o.buy /\ p.n = n /\ p.meant = o.meant
          /\ o.n \in Nat /\ o.meant \in Nat /\ n \in Nat
      BY <2>2, <2>3 DEF Orders
    <2>5. n <= o.meant
      <3>1. o.n <= o.meant
        BY <1>1, <2>3 DEF ShapeOf
      <3>2. n \in {o.meant, Lesser(o.meant, o.n), Lesser(o.meant, chain)}
        BY <2>1 DEF RetrySizes
      <3> QED
        BY <2>4, <3>1, <3>2, Numbers DEF Lesser
    <2> HIDE DEF o, p
    <2>6. ShapeOf(k, p) /\ ~IsBuyRow(p)
      BY <1>3, <2>4, <2>5 DEF ShapeOf, IsBuyRow
    <2>7. /\ Committed' <= Committed /\ ToBook' = ToBook
          /\ Meant' = Meant /\ Working' <= Working
      <3>1. /\ Reserved(p) = 0 /\ Reserved(o) \in Nat /\ DueOf(p) = 0 /\ DueOf(o) = 0
            /\ MeantOf(k, p) = MeantOf(k, o) /\ MeantOf(k, o) \in Nat
            /\ WorkingOf(p) = 0 /\ WorkingOf(o) \in Nat
        BY <1>1, <1>3, <2>4 DEF Reserved, DueOf, MeantOf, WorkingOf
      <3> QED
        BY <2>3, <3>1, Numbers DEF OneMoves, o, p
    <2>8. Balanced'
      BY <1>0, <1>1, <2>7, AnswerStart DEF Balanced
    <2>9. Owing'
      BY <1>0, <1>1, <2>7, AnswerStart, Numbers DEF Owing
    <2>10. seen' => seen /\ p.stage # "trying" /\ ours' - Committed' >= ours - Committed
      BY <1>0, <1>1, <2>4, <2>7, AnswerStart, Numbers
    <2> QED
      BY <1>0, <1>1, <2>4, <2>6, <2>8, <2>9, <2>10, AnswerParts DEF o, p
  <1> QED
    BY <1>2, <1>3

\* A booking moves the ledger to what the wallet has.
LEMMA BooksSound ==
  ASSUME FBase, FSound, strayed' = "no", NEW k \in Slots, Books(k)
  PROVE FSound'
  <1> DEFINE o == order[k]
             p == order'[k]
  <1>0. Answer(k)
    BY DEF Answer
  <1>1. /\ o.stage = "matched" /\ UNCHANGED <<chain, owed, seen>> /\ p = NoOrder
        /\ ours' = IF o.buy THEN ours + o.got ELSE Monus(ours, o.got)
    BY Numbers DEF Books, LeftOf, Stage, Closed
  <1>e. ~(~o.buy /\ o.got > ours)
    BY NotStray DEF Books
  <1>2. /\ o \in Orders /\ p \in Orders /\ OneMoves(k) /\ ShapeOf(k, o) /\ Stage(k) = o.stage
    BY <1>0, AnswerStart
  <1>3. /\ p.stage = "none" /\ ~p.buy /\ o.n \in Nat /\ o.got \in Nat /\ o.got <= o.n
        /\ o.buy \in BOOLEAN
    BY <1>1, <1>2 DEF NoOrder, Orders, ShapeOf
  <1> HIDE DEF o, p
  <1>4. ShapeOf(k, p) /\ ~IsBuyRow(p)
    BY <1>3 DEF ShapeOf, IsBuyRow
  <1>5. /\ Committed' = Committed - (IF o.buy THEN 0 ELSE o.n)
        /\ ToBook' = ToBook - (IF o.buy THEN o.got ELSE -o.got)
        /\ Meant' = Meant /\ Working' = Working
    <2>1. /\ Reserved(p) = 0 /\ Reserved(o) = (IF o.buy THEN 0 ELSE o.n)
          /\ DueOf(p) = 0 /\ DueOf(o) = (IF o.buy THEN o.got ELSE -o.got)
          /\ MeantOf(k, p) = 0 /\ MeantOf(k, o) = 0
          /\ WorkingOf(p) = 0 /\ WorkingOf(o) = 0
      BY <1>1, <1>3 DEF Reserved, DueOf, MeantOf, WorkingOf
    <2> QED
      BY <1>2, <1>3, <2>1, Numbers DEF OneMoves, o, p
  <1>6. ours' = ours + (IF o.buy THEN o.got ELSE -o.got)
    BY <1>1, <1>3, <1>e, Numbers DEF Monus
  <1>7. Balanced'
    BY <1>0, <1>1, <1>3, <1>5, <1>6, AnswerStart, Numbers DEF Balanced
  <1>8. Owing'
    BY <1>0, <1>1, <1>5, AnswerStart, Numbers DEF Owing
  <1>9. seen' => seen /\ p.stage # "trying" /\ ours' - Committed' >= ours - Committed
    BY <1>0, <1>1, <1>3, <1>5, <1>6, AnswerStart, Numbers
  <1>10. cHis = his \/ (ours = 0 => ours' = 0)
    <2>1. ASSUME o.buy PROVE cHis = his
      BY <1>1, <2>1 DEF FSound, Known, BuyOut, Rows, Stage, o
    <2> QED
      BY <1>1, <1>3, <2>1, Numbers DEF Monus
  <1> QED
    BY <1>0, <1>3, <1>4, <1>7, <1>8, <1>9, <1>10, AnswerParts DEF o, p

\* A rescue asks for what was meant, not for more.
LEMMA RetrySound ==
  ASSUME FBase, FSound, NEW k \in Slots, Retry(k)
  PROVE FSound'
  <1> DEFINE o == order[k]
             p == order'[k]
  <1>0. Answer(k)
    BY DEF Answer
  <1>1. /\ o.stage = "waiting" /\ o.n > 0 /\ UNCHANGED <<chain, ours, owed>> /\ ~seen'
        /\ p = [o EXCEPT !.stage = "trying"]
    BY Numbers DEF Retry, Stage, Moved, stock
  <1>2. /\ o \in Orders /\ p \in Orders /\ OneMoves(k) /\ ShapeOf(k, o) /\ Stage(k) = o.stage
    BY <1>0, AnswerStart
  <1>3. p.stage = "trying" /\ p.buy = o.buy /\ p.n = o.n /\ p.meant = o.meant
    BY <1>1, <1>2 DEF Orders
  <1> HIDE DEF o, p
  <1>4. ShapeOf(k, p) /\ ~IsBuyRow(p)
    BY <1>1, <1>2, <1>3 DEF ShapeOf, IsBuyRow
  <1>5. ToBook' = ToBook /\ Meant' = Meant
    <2>1. /\ DueOf(p) = 0 /\ DueOf(o) = 0
          /\ MeantOf(k, p) = MeantOf(k, o) /\ MeantOf(k, o) \in Nat
      BY <1>1, <1>2, <1>3, OrderCounts DEF DueOf, MeantOf
    <2> QED
      BY <1>2, <2>1, Numbers DEF OneMoves, o, p
  <1>6. Balanced'
    BY <1>0, <1>1, <1>5, AnswerStart DEF Balanced
  <1>7. Owing'
    BY <1>0, <1>1, <1>5, AnswerStart, Numbers DEF Owing
  <1> QED
    BY <1>0, <1>1, <1>3, <1>4, <1>6, <1>7, AnswerParts DEF o, p

\* Every answer keeps the invariant.
LEMMA AnswerSound ==
  ASSUME FBase, FSound, strayed' = "no", NEW k \in Slots, Answer(k)
  PROVE FSound'
  <1>1. CASE NotFilled(k) \/ GivesUp(k)
    BY <1>1, ClosedSound DEF NotFilled, GivesUp, stock, history
  <1> QED
    BY <1>1, MatchesSound, RefusesSound, BooksSound, RetrySound DEF Answer

\* Steps that leave orders and stock alone.
LEMMA QuietSound ==
  ASSUME FBase, FSound, UNCHANGED <<order, chain, ours, lane, owed, seen, his, old>>,
         found' = 0 \/ found' = found \/ (HeIsOut /\ Stage(Sweep) = "none"), Known'
  PROVE FSound'
  <1>1. UNCHANGED <<Committed, ToBook, Meant, Working, BuyOut, Rescuing>>
    BY NoneMoves
  <1>2. Shaped' /\ Balanced' /\ Offered' /\ Owing'
    BY <1>1 DEF FSound, Shaped, Balanced, Offered, Owing, Stage, HeIsOut, lane
  <1>3. SweptOut'
    BY Numbers DEF FSound, SweptOut, Stage, HeIsOut
  <1> QED
    BY <1>2, <1>3 DEF FSound

\* A trade that no feed has brought yet.
LEMMA HeSound ==
  ASSUME FBase, FSound, NEW buy \in BOOLEAN, NEW n \in 1 .. MaxHis, He(buy, n)
  PROVE FSound'
  <1>1. UNCHANGED <<his, old, view, stock, order, found, anchor, history>>
    BY DEF He
  <1>2. Known'
    BY <1>1 DEF FSound, Known, view, BuyOut, Rows, Stage, stock
  <1> QED
    BY <1>1, <1>2, QuietSound DEF stock, history

\* The re-anchor reads his book as it is.
LEMMA AnchorSound ==
  ASSUME FBase, FSound, strayed' = "no", AnchorActs
  PROVE FSound'
  <1>1. CASE AnchorReads
    <2>1. UNCHANGED <<leader, view, stock, order, found, history>>
      BY <1>1 DEF AnchorReads
    <2>2. Known'
      BY <2>1 DEF FSound, Known, leader, view, BuyOut, Rows, Stage, stock
    <2> QED
      BY <2>1, <2>2, QuietSound DEF stock, history, leader
  <1>2. ASSUME NEW c \in BOOLEAN, AnchorWrites(c) PROVE FSound'
    <2>1. UNCHANGED <<leader, cLeg, lLeg, stock, order, found, seen, owed>>
      BY <1>2 DEF AnchorWrites
    <2>2. cHis' \in {cHis, his} /\ lHis' = cHis'
      <3>1. cHis' \in {cHis, his}
        BY <1>2, NotStray DEF AnchorWrites
      <3>2. lHis' = cHis'
        BY <1>2 DEF AnchorWrites, FSound, Known
      <3> QED
        BY <3>1, <3>2
    <2>3. BuyOut' <=> BuyOut
      BY <2>1, NoneMoves
    <2>5. Known'
      BY <2>1, <2>2, <2>3 DEF FSound, Known, leader, stock
    <2> QED
      BY <2>1, <2>5, QuietSound DEF stock, leader
  <1> QED
    BY <1>1, <1>2 DEF AnchorActs

\* A tick tells the lane what is reserved; with no sell out, it is what there is.
LEMMA TickSound ==
  ASSUME FBase, FSound, Tick
  PROVE FSound'
  <1>1. /\ UNCHANGED <<leader, cHis, cLeg, chain, ours, order, found, anchor, owed>>
        /\ lOurs' = ours /\ lRes' = Committed /\ lHis' = cHis /\ lLeg' = cLeg
        /\ seen' = (seen \/ Committed = 0)
    BY DEF Tick, Reserves
  <1>2. UNCHANGED <<Committed, ToBook, Meant, Working, BuyOut, Rescuing>>
    BY <1>1, NoneMoves
  <1>3. Known'
    BY <1>1, <1>2, Numbers DEF FSound, Known, leader
  <1>4. Shaped' /\ Balanced' /\ SweptOut'
    BY <1>1, <1>2 DEF FSound, Shaped, Balanced, SweptOut, Stage, HeIsOut, leader
  <1>5. ASSUME Committed = 0
        PROVE /\ \A k \in Slots : Stage(k) # "trying"
              /\ Stage(Sweep) = "none" /\ Working = 0
    <2>1. \A k \in Slots : ~(Stage(k) \in {"out", "trying", "matched"} /\ ~order[k].buy)
      BY <1>5, NoSellRows, Numbers DEF FSound
    <2>2. \A k \in Slots : ShapeOf(k, order[k]) /\ order[k].stage \in OrderStages
      BY Numbers DEF FSound, Shaped, Orders
    <2>3. \A k \in Slots : Stage(k) # "trying"
      BY <2>1, <2>2 DEF ShapeOf, Stage
    <2>4. Stage(Sweep) = "none"
      BY <2>1, <2>2, Numbers DEF ShapeOf, Stage, OrderStages
    <2>5. \A k \in Slots : WorkingOf(order[k]) = 0
      BY <2>1 DEF WorkingOf, Stage
    <2>6. Working = 0
      <3> DEFINE f == [k \in Slots |-> WorkingOf(order[k])]
      <3>1. \A k \in Slots : f[k] = 0
        BY <2>5
      <3>2. Working = Total(f)
        BY DEF Working
      <3> HIDE DEF f
      <3> QED
        BY <3>1, <3>2, SlotsFinite, SumZero DEF Total
    <2> QED
      BY <2>3, <2>4, <2>6
  <1>6. Offered'
    <2>1. lOurs' - lRes' <= ours' - Committed'
      BY <1>1, <1>2, Numbers
    <2>2. seen' => /\ \A k \in Slots : Stage(k) # "trying"
                   /\ Stage(Sweep) = "none"
      BY <1>1, <1>5 DEF FSound, Offered
    <2> QED
      BY <1>1, <2>1, <2>2 DEF Offered, Stage
  <1>7. Owing'
    <2>1. owed >= 0
      BY Numbers DEF FSound, Owing
    <2>2. seen' => Working <= owed
      BY <1>1, <1>5, <2>1, Numbers DEF FSound, Owing
    <2> QED
      BY <1>1, <1>2, <2>2 DEF FSound, Owing, HeIsOut, leader
  <1> QED
    BY <1>3, <1>4, <1>6, <1>7 DEF FSound

\* The sweep sells when he is out.
LEMMA SweepSound ==
  ASSUME FBase, FSound, strayed' = "no", SweepActs
  PROVE FSound'
  <1>1. CASE SweepReads
    <2>1. UNCHANGED <<leader, view, stock, order, anchor, seen, owed>>
      BY <1>1 DEF SweepReads
    <2>2. Known'
      BY <2>1, NoneMoves DEF FSound, Known, leader, view, stock
    <2>3. HeIsOut /\ Stage(Sweep) = "none"
      <3>1. ours > 0 /\ Monus(lHis, lLeg) = 0 /\ Stage(Sweep) = "none"
        BY <1>1 DEF SweepReads, HeLeft
      <3>2. lLeg = cLeg
        BY <1>1, NotStray DEF SweepReads
      <3> QED
        BY <3>1, <3>2, Numbers DEF FSound, Known, HeIsOut, Monus
    <2> QED
      BY <2>1, <2>2, <2>3, QuietSound DEF stock, leader
  <1>2. CASE SweepSkips
    <2>1. UNCHANGED <<leader, view, stock, order, anchor, history>> /\ found' = 0
      BY <1>2 DEF SweepSkips
    <2>2. Known'
      BY <2>1, NoneMoves DEF FSound, Known, leader, view, stock
    <2> QED
      BY <2>1, <2>2, QuietSound DEF stock, history, leader
  <1>3. CASE SweepSends
    <2> DEFINE o == order[Sweep]
               p == Out(FALSE, found)
    <2>1. /\ UNCHANGED <<leader, view, stock, anchor, owed>> /\ ~seen'
          /\ found > 0 /\ found' = 0 /\ Sets(Sweep, p) /\ HeIsOut
      BY <1>3 DEF SweepSends, Sets, FSound, SweptOut
    <2>2. /\ p.stage = "out" /\ ~p.buy /\ p.n = found /\ p.meant = found
      BY DEF Out
    <2>3. p \in Orders /\ o \in Orders
      BY SomeOrders, Numbers
    <2>4. /\ order' \in [Slots -> Orders] /\ order'[Sweep] = p
          /\ \A j \in Slots \ {Sweep} : order'[j] = order[j]
      BY <2>1, <2>3, SlotSet, Numbers
    <2>5. OneMoves(Sweep)
      BY <2>4, MovesOne, Numbers
    <2> HIDE DEF p
    <2>6. ShapeOf(Sweep, p) /\ ~IsBuyRow(p)
      BY <2>1, <2>2, Numbers DEF ShapeOf, IsBuyRow
    <2>7. Shaped' /\ (BuyOut' => BuyOut)
      BY <2>4, <2>6, OneSlot, Numbers DEF FSound
    <2>8. o.stage # "matched"
      BY <2>1 DEF FSound, SweptOut, Stage
    <2>9. ToBook' = ToBook
      <3>1. DueOf(o) = 0 /\ DueOf(p) = 0
        BY <2>2, <2>8 DEF DueOf
      <3> QED
        BY <2>4, <2>5, <3>1, Numbers DEF OneMoves
    <2>10. Known'
      BY <2>1, <2>7 DEF FSound, Known, leader, view, stock
    <2>11. Balanced' /\ Offered' /\ SweptOut' /\ Owing'
      BY <2>1, <2>9 DEF FSound, Balanced, Offered, SweptOut, Owing, HeIsOut, leader, stock
    <2> QED
      BY <2>7, <2>10, <2>11 DEF FSound
  <1> QED
    BY <1>1, <1>2, <1>3 DEF SweepActs

\* What his trade finds.  When his sales are worked off, what is meant is what works.
LEMMA Heard ==
  ASSUME FBase, FSound, Moves
  PROVE /\ WorkedOff => Meant = Working
        /\ seen => Working <= owed /\ Stage(Sweep) = "none"
        /\ pend # NoTrade /\ made \in Slots \ {Sweep} /\ Stage(made) = "none"
        /\ lHis = cHis /\ pend' = NoTrade
        /\ pend.n \in Nat /\ pend.n > 0 /\ pend.buy \in BOOLEAN
  <1>1. pend # NoTrade /\ pend' = NoTrade
    BY DEF Moves
  <1>2. seen => Working <= owed /\ Stage(Sweep) = "none"
    BY DEF FSound, Offered, Owing
  <1>3. WorkedOff => Meant = Working
    BY <1>2, AllMeantWorks, Numbers DEF FSound, WorkedOff
  <1>4. /\ made \in Slots \ {Sweep} /\ Stage(made) = "none" /\ pend.n > 0
        /\ pend.n \in Nat /\ pend.buy \in BOOLEAN
    BY <1>1 DEF FBase, FollowTypeOK, Fresh, Slots, Sweep
  <1>5. lHis = cHis
    BY DEF FSound, Known
  <1> QED
    BY <1>1, <1>2, <1>3, <1>4, <1>5

\* A fresh order in the slot of his trade.
LEMMA FreshSlot ==
  ASSUME FBase, FSound, NEW k \in Slots \ {Sweep}, Stage(k) = "none", NEW o, Sets(k, o),
         \/ o = order[k]
         \/ \E b \in BOOLEAN, n \in Nat : n > 0 /\ o = Out(b, n)
  PROVE /\ order' \in [Slots -> Orders] /\ Shaped' /\ order'[Sweep] = order[Sweep]
        /\ \A j \in Slots \ {k} : order'[j] = order[j]
        /\ order'[k].stage # "trying"
        /\ Committed' = Committed + (IF o.stage = "out" /\ ~o.buy THEN o.n ELSE 0)
        /\ ToBook' = ToBook
        /\ Meant' = Meant + (IF o.stage = "out" /\ ~o.buy THEN o.n ELSE 0)
        /\ Working' = Working + (IF o.stage = "out" /\ ~o.buy THEN o.n ELSE 0)
        /\ BuyOut' /\ ~BuyOut => o.stage = "out" /\ o.buy
  <1>1. o \in Orders /\ o.n \in Nat /\ o.stage \in {"none", "out"}
    <2>1. CASE o = order[k]
      BY <2>1, Numbers DEF Orders, Stage
    <2>2. CASE \E b \in BOOLEAN, n \in Nat : n > 0 /\ o = Out(b, n)
      <3>1. PICK b \in BOOLEAN, n \in Nat : n > 0 /\ o = Out(b, n)
        BY <2>2
      <3>2. o \in Orders
        BY <3>1, SomeOrders
      <3> QED
        BY <3>1, <3>2 DEF Out
    <2> QED
      BY <2>1, <2>2
  <1>2. /\ order' \in [Slots -> Orders] /\ order'[k] = o
        /\ \A j \in Slots \ {k} : order'[j] = order[j]
    BY <1>1, SlotSet, Numbers
  <1>3. ShapeOf(k, o)
    <2>1. CASE o = order[k]
      BY <2>1 DEF FSound, Shaped
    <2>2. CASE \E b \in BOOLEAN, n \in Nat : n > 0 /\ o = Out(b, n)
      BY <2>2 DEF Out, ShapeOf
    <2> QED
      BY <2>1, <2>2
  <1>4. Shaped' /\ ((IsBuyRow(o) => IsBuyRow(order[k])) => (BuyOut' => BuyOut))
    BY <1>2, <1>3, OneSlot DEF FSound
  <1>5. BuyOut' /\ ~BuyOut => o.stage = "out" /\ o.buy
    BY <1>1, <1>4 DEF IsBuyRow
  <1>6. OneMoves(k)
    BY <1>2, MovesOne, Numbers
  <1>7. /\ Reserved(order[k]) = 0 /\ DueOf(order[k]) = 0
        /\ MeantOf(k, order[k]) = 0 /\ WorkingOf(order[k]) = 0
    BY DEF Reserved, DueOf, MeantOf, WorkingOf, Stage
  <1>8. /\ Reserved(o) = (IF o.stage = "out" /\ ~o.buy THEN o.n ELSE 0) /\ DueOf(o) = 0
        /\ MeantOf(k, o) = (IF o.stage = "out" /\ ~o.buy THEN o.n ELSE 0)
        /\ WorkingOf(o) = (IF o.stage = "out" /\ ~o.buy THEN o.n ELSE 0)
    BY <1>1, <1>3 DEF Reserved, DueOf, MeantOf, WorkingOf, ShapeOf
  <1>9. /\ Committed' = Committed + (IF o.stage = "out" /\ ~o.buy THEN o.n ELSE 0)
        /\ ToBook' = ToBook
        /\ Meant' = Meant + (IF o.stage = "out" /\ ~o.buy THEN o.n ELSE 0)
        /\ Working' = Working + (IF o.stage = "out" /\ ~o.buy THEN o.n ELSE 0)
    BY <1>1, <1>2, <1>6, <1>7, <1>8, Numbers DEF OneMoves
  <1> QED
    BY <1>1, <1>2, <1>4, <1>5, <1>9, Numbers

\* His buy, copied or not: nothing is asked for, and he is not out.
LEMMA BuySound ==
  ASSUME FBase, FSound, strayed' = "no", HandleBuy
  PROVE FSound'
  <1>1. /\ pend.buy /\ Moves /\ Observe(TRUE, pend.n)
        /\ UNCHANGED <<made, stock, found, anchor, seen>>
    BY DEF HandleBuy
  <1>2. /\ WorkedOff => Meant = Working
        /\ seen => Working <= owed /\ Stage(Sweep) = "none"
        /\ pend # NoTrade /\ made \in Slots \ {Sweep} /\ Stage(made) = "none"
        /\ lHis = cHis /\ pend' = NoTrade
        /\ pend.n \in Nat /\ pend.n > 0
    BY <1>1, Heard
  <1>s. ~(~WorkedOff /\ HeIsOut) /\ cHis = his
    BY <1>1, NotStray DEF Observe, ComesBack
  <1>f. found = 0 /\ Stage(Sweep) # "out"
    <2>1. CASE HeIsOut
      <3>1. seen /\ found = 0
        BY <1>s, <2>1 DEF WorkedOff
      <3>2. Stage(Sweep) = "none"
        BY <1>2, <3>1
      <3> QED
        BY <3>1, <3>2
    <2>2. CASE ~HeIsOut
      BY <2>2, Numbers DEF FSound, SweptOut
    <2> QED
      BY <2>1, <2>2
  <1>3. his' = his + pend.n /\ old' = old /\ owed' = owed
    BY <1>1 DEF Moves
  <1>4. cHis' = his' /\ cLeg' = cLeg /\ lHis' = cHis' /\ lLeg' = lLeg
    BY <1>1, <1>2, <1>3, <1>s DEF Observe, ObserveHisFill
  <1>5. PICK n \in {0, pend.n} :
          order' = [order EXCEPT ![made] = IF n > 0 THEN Out(TRUE, n) ELSE @]
    BY DEF HandleBuy
  <1> DEFINE o == IF n > 0 THEN Out(TRUE, n) ELSE order[made]
  <1>6. Sets(made, o)
    BY <1>5, <1>2 DEF Sets
  <1>7. o = order[made] \/ \E b \in BOOLEAN, i \in Nat : i > 0 /\ o = Out(b, i)
    BY <1>2, <1>5
  <1>8. ~(o.stage = "out" /\ ~o.buy)
    BY <1>2 DEF Out, Stage
  <1> HIDE DEF o
  <1>9. /\ Shaped' /\ order'[Sweep] = order[Sweep]
        /\ \A j \in Slots \ {made} : order'[j] = order[j]
        /\ order'[made].stage # "trying"
        /\ Committed' = Committed /\ ToBook' = ToBook /\ Meant' = Meant /\ Working' = Working
    BY <1>2, <1>6, <1>7, <1>8, FreshSlot, Numbers
  <1>10. Known'
    BY <1>1, <1>2, <1>3, <1>4, Numbers DEF FSound, Known
  <1>11. Balanced' /\ Offered' /\ SweptOut'
    BY <1>1, <1>2, <1>9, <1>f DEF FSound, Balanced, Offered, SweptOut, Stage, stock, lane
  <1>12. Owing'
    <2>1. ~HeIsOut'
      BY <1>2, <1>3, Numbers DEF FSound, Known, HeIsOut
    <2>2. Meant <= owed
      <3>1. CASE HeIsOut
        BY <1>2, <1>s, <3>1 DEF WorkedOff
      <3> QED
        BY <3>1 DEF FSound, Owing
    <2> QED
      BY <1>1, <1>2, <1>3, <1>9, <2>1, <2>2 DEF Owing
  <1> QED
    BY <1>9, <1>10, <1>11, <1>12 DEF FSound

\* A buy of his that is missed: the lane has nothing.
LEMMA MissSound ==
  ASSUME FBase, FSound, strayed' = "no", Miss
  PROVE FSound'
  <1>1. /\ Moves /\ UNCHANGED <<made, view, stock, order, found, anchor, seen>>
    BY DEF Miss
  <1>s. pend.buy /\ ours = 0 /\ ~BuyOut /\ ~(~WorkedOff /\ HeIsOut)
    BY NotStray DEF Miss, ComesBack
  <1>2. /\ WorkedOff => Meant = Working
        /\ seen => Working <= owed /\ Stage(Sweep) = "none"
        /\ lHis = cHis /\ pend' = NoTrade /\ pend.n \in Nat /\ pend.n > 0
    BY <1>1, Heard
  <1>f. found = 0 /\ Stage(Sweep) # "out"
    <2>1. CASE HeIsOut
      <3>1. seen /\ found = 0
        BY <1>s, <2>1 DEF WorkedOff
      <3>2. Stage(Sweep) = "none"
        BY <1>2, <3>1
      <3> QED
        BY <3>1, <3>2
    <2>2. CASE ~HeIsOut
      BY <2>2, Numbers DEF FSound, SweptOut
    <2> QED
      BY <2>1, <2>2
  <1>3. his' = his + pend.n /\ old' = old /\ owed' = owed
    BY <1>1, <1>s DEF Moves
  <1>4. UNCHANGED <<Committed, ToBook, Meant, Working, BuyOut, Rescuing>>
    BY <1>1, NoneMoves
  <1>5. Known'
    BY <1>1, <1>2, <1>3, <1>4, <1>s, Numbers DEF FSound, Known, view, stock
  <1>6. Shaped' /\ Balanced' /\ Offered' /\ SweptOut'
    BY <1>1, <1>2, <1>4, <1>f DEF FSound, Shaped, Balanced, Offered, SweptOut, Stage, stock, lane
  <1>7. Owing'
    <2>1. ~HeIsOut'
      BY <1>2, <1>3, Numbers DEF FSound, Known, HeIsOut
    <2>2. Meant <= owed
      <3>1. CASE HeIsOut
        BY <1>2, <1>s, <3>1 DEF WorkedOff
      <3> QED
        BY <3>1 DEF FSound, Owing
    <2> QED
      BY <1>1, <1>2, <1>3, <1>4, <2>1, <2>2 DEF Owing
  <1> QED
    BY <1>5, <1>6, <1>7 DEF FSound

\* His sale, followed: what the lane sells of it is within what it asks for.
LEMMA SellSound ==
  ASSUME FBase, FSound, strayed' = "no", HandleSell
  PROVE FSound'
  <1> DEFINE mine == Monus(lOurs, lRes)
             n == Wanted(mine, pend.n, lHis, lLeg)
             o == IF n > 0 THEN Out(FALSE, n) ELSE order[made]
             a == Asked(pend.n)
  <1>1. /\ ~pend.buy /\ Moves /\ Observe(FALSE, pend.n)
        /\ UNCHANGED <<made, chain, ours, lOurs, found, anchor, seen>>
        /\ order' = [order EXCEPT ![made] = IF n > 0 THEN Out(FALSE, n) ELSE @]
        /\ lRes' = lRes + n
    BY DEF HandleSell
  <1>s. ~(~WorkedOff /\ ~HeIsOut') /\ cHis = his
    BY <1>1, NotStray DEF Observe, ComesBack
  <1>2. /\ WorkedOff => Meant = Working
        /\ seen => Working <= owed /\ Stage(Sweep) = "none"
        /\ pend # NoTrade /\ made \in Slots \ {Sweep} /\ Stage(made) = "none"
        /\ cHis = his /\ lHis = his /\ pend' = NoTrade
        /\ pend.n \in Nat /\ pend.n > 0
    BY <1>1, <1>s, Heard
  <1>3. his' = his - pend.n /\ old' = Monus(old, pend.n) /\ owed' = owed + a
    BY <1>1 DEF Moves
  <1>4. pend.n <= his /\ his >= old /\ lLeg >= old /\ cLeg = old
    BY <1>1, <1>2 DEF FBase, Fresh, FSound, Known
  <1>5. mine \in Nat /\ n \in Nat /\ a \in Nat
    <2>1. mine \in Nat
      BY Numbers DEF Monus
    <2>2. n \in Nat
      BY <1>2, <2>1, WantedNat, Numbers
    <2>3. a \in Nat
      BY <1>2, AskedNat, Numbers
    <2> QED
      BY <2>1, <2>2, <2>3
  <1>6. seen /\ mine > 0 => Working + mine <= chain
    <2> SUFFICES ASSUME seen PROVE mine > 0 => Working + mine <= chain
      OBVIOUS
    <2>1. lOurs - lRes <= ours - Committed
      BY <1>2 DEF FSound, Offered
    <2>2. Working <= Committed + ToBook
      BY WorkingIsBacked, Numbers DEF FSound
    <2>3. chain = ours + ToBook
      BY DEF FSound, Balanced
    <2>4. mine > 0 => mine = lOurs - lRes
      BY Numbers DEF Monus
    <2> HIDE DEF mine
    <2> QED
      BY <1>5, <2>1, <2>2, <2>3, <2>4, Numbers
  <1>7. seen => Working + n <= owed + a
    BY <1>2, <1>4, <1>5, <1>6, WantedIsAsked, Numbers
  <1>8. Sets(made, o)
    BY <1>1, <1>2 DEF Sets
  <1>9. o = order[made] \/ \E b \in BOOLEAN, i \in Nat : i > 0 /\ o = Out(b, i)
    BY <1>5
  <1>10. (IF o.stage = "out" /\ ~o.buy THEN o.n ELSE 0) = n
    <2>1. CASE n > 0
      BY <2>1 DEF Out
    <2>2. CASE ~(n > 0)
      <3>1. n = 0
        BY <1>5, <2>2
      <3> QED
        BY <1>2, <3>1 DEF Stage
    <2> QED
      BY <2>1, <2>2
  <1>11. ~(o.stage = "out" /\ o.buy)
    <2>1. CASE n > 0
      BY <2>1 DEF Out
    <2>2. CASE ~(n > 0)
      BY <1>2, <2>2 DEF Stage
    <2> QED
      BY <2>1, <2>2
  <1>12. Asked(pend.n) = a
    OBVIOUS
  <1> HIDE DEF o, n, a, mine
  <1>13. /\ Shaped' /\ order'[Sweep] = order[Sweep]
         /\ \A j \in Slots \ {made} : order'[j] = order[j]
         /\ order'[made].stage # "trying"
         /\ Committed' = Committed + n /\ ToBook' = ToBook
         /\ Meant' = Meant + n /\ Working' = Working + n
    BY <1>2, <1>8, <1>9, <1>10, FreshSlot, Numbers
  <1>14. Known'
    <2>1. cHis' = his' /\ cLeg' = old' /\ lHis' = cHis' /\ lLeg' = lLeg
      BY <1>1, <1>2, <1>3, <1>4, Numbers DEF Observe, ObserveHisFill, Monus
    <2>2. lLeg' >= old' /\ his' >= old'
      BY <1>2, <1>3, <1>4, <2>1, Numbers DEF Monus
    <2> QED
      BY <1>1, <1>2, <2>1, <2>2 DEF Known
  <1>o. HeIsOut => HeIsOut'
    BY <1>2, <1>3, <1>4, Numbers DEF HeIsOut, Monus
  <1>15. Balanced' /\ SweptOut'
    <2>1. chain' = chain /\ ours' = ours /\ found' = found
      BY <1>1
    <2> QED
      BY <1>13, <1>o, <2>1 DEF FSound, Balanced, SweptOut, Stage
  <1>16. Offered'
    <2> SUFFICES ASSUME seen PROVE Offered'
      BY <1>1 DEF Offered
    <2>1. lOurs' - lRes' <= ours' - Committed'
      BY <1>1, <1>2, <1>5, <1>13, Numbers DEF FSound, Offered
    <2> QED
      BY <1>2, <1>13, <2>1 DEF FSound, Offered, Stage
  <1>17. Owing'
    <2>1. seen' => Working' <= owed'
      BY <1>1, <1>3, <1>5, <1>7, <1>13, Numbers
    <2>m. ~HeIsOut' => Meant' <= owed'
      <3> SUFFICES ASSUME ~HeIsOut' PROVE Meant' <= owed'
        OBVIOUS
      <3>1. seen /\ Meant = Working
        BY <1>2, <1>s DEF WorkedOff
      <3> QED
        BY <1>3, <1>5, <1>7, <1>13, <3>1, Numbers
    <2>2. HeIsOut' => owed' >= chain'
      <3>1. CASE HeIsOut
        BY <1>1, <1>3, <1>5, <3>1, Numbers DEF FSound, Owing
      <3>2. CASE ~HeIsOut /\ HeIsOut'
        <4>1. his > old /\ his - pend.n = Monus(old, pend.n)
          BY <1>3, <1>4, <3>2, Numbers DEF HeIsOut
        <4>2. a = Monus(chain, owed)
          BY <1>2, <1>4, <1>12, <4>1, OutAsksAll, Numbers
        <4> QED
          BY <1>1, <1>3, <4>2, Numbers DEF Monus
      <3> QED
        BY <3>1, <3>2
    <2> QED
      BY <2>1, <2>2, <2>m DEF Owing
  <1> QED
    BY <1>13, <1>14, <1>15, <1>16, <1>17 DEF FSound

\* Of the orders a restart raises again: they are matched, and count as before.
LEMMA RestartSound ==
  ASSUME FBase, FSound, strayed' = "no", Restarts
  PROVE FSound'
  <1>s. ~BuyOut /\ ~(ours > 0 /\ old > 0)
    BY NotStray DEF Restarts
  <1>1. /\ ~BuyOut /\ (ours = 0 \/ old = 0)
        /\ \A k \in Slots : Stage(k) \notin {"out", "trying"}
        /\ cHis' = his /\ cLeg' = (IF ours > 0 THEN 0 ELSE his) /\ lHis' = cHis' /\ lLeg' = cLeg'
        /\ old' = (IF ours > 0 THEN old ELSE his)
        /\ order' = [k \in Slots |-> IF k \in Rows THEN order[k] ELSE NoOrder]
        /\ lOurs' = ours /\ lRes' = Committed
        /\ found' = 0 /\ anchor' = NoRead
        /\ UNCHANGED <<pend, made, his, chain, ours, seen, owed>>
    BY <1>s, Numbers DEF Restarts, SeedHisBook
  <1>2. \A k \in Slots : IF Stage(k) = "matched" THEN order'[k] = order[k]
                         ELSE order'[k] = NoOrder
    BY <1>1 DEF Rows
  <1>3. order' \in [Slots -> Orders]
    BY <1>1, SomeOrders, Numbers
  <1>4. /\ \A k \in Slots : Reserved(order'[k]) = Reserved(order[k])
        /\ \A k \in Slots : DueOf(order'[k]) = DueOf(order[k])
        /\ \A k \in Slots : MeantOf(k, order'[k]) = 0 /\ WorkingOf(order'[k]) = 0
    BY <1>1, <1>2 DEF Reserved, DueOf, MeantOf, WorkingOf, NoOrder, Stage
  <1>5. Committed' = Committed
    <2>1. [k \in Slots |-> Reserved(order'[k])] = [k \in Slots |-> Reserved(order[k])]
      BY <1>4
    <2> QED
      BY <2>1, CommittedIs
  <1>6. ToBook' = ToBook
    <2>1. [k \in Slots |-> DueOf(order'[k])] = [k \in Slots |-> DueOf(order[k])]
      BY <1>4
    <2> QED
      BY <2>1 DEF ToBook
  <1>7. Meant' = 0 /\ Working' = 0
    <2> DEFINE f == [k \in Slots |-> MeantOf(k, order'[k])]
               g == [k \in Slots |-> WorkingOf(order'[k])]
    <2>1. \A k \in Slots : f[k] = 0 /\ g[k] = 0
      BY <1>4
    <2>2. Meant' = Total(f) /\ Working' = Total(g)
      BY DEF Meant, Working, Total
    <2> HIDE DEF f, g
    <2> QED
      BY <2>1, <2>2, SlotsFinite, SumZero DEF Total
  <1>8. Shaped'
    <2>1. \A k \in Slots : ShapeOf(k, order[k]) /\ ShapeOf(k, NoOrder)
      BY DEF FSound, Shaped, ShapeOf, NoOrder
    <2> QED
      BY <1>2, <2>1 DEF Shaped
  <1>9. Known'
    BY <1>1, Numbers DEF FSound, Known
  <1>10. Balanced'
    BY <1>1, <1>6 DEF FSound, Balanced
  <1>11. Offered'
    <2>1. \A k \in Slots : order'[k].stage # "trying"
      BY <1>2 DEF NoOrder, Stage
    <2>2. Stage(Sweep) = "none" => order'[Sweep].stage = "none"
      BY <1>2, Numbers DEF NoOrder
    <2> QED
      BY <1>1, <1>5, <2>1, <2>2, Numbers DEF FSound, Offered, Stage
  <1>12. SweptOut'
    <2>1. order'[Sweep].stage # "out"
      BY <1>2, Numbers DEF NoOrder, Stage
    <2> QED
      BY <1>1, <2>1, Numbers DEF SweptOut, Stage
  <1>13. Owing'
    <2>1. owed >= 0
      BY Numbers DEF FSound, Owing
    <2>2. HeIsOut' => owed >= chain
      <3>1. CASE ours > 0
        BY <1>1, <3>1 DEF HeIsOut, FSound, Owing
      <3>2. CASE ours = 0
        BY <1>1, <2>1, <3>2, NothingDue, Numbers DEF FSound, Balanced
      <3> QED
        BY <3>1, <3>2, Numbers
    <2> QED
      BY <1>1, <1>7, <2>1, <2>2 DEF Owing
  <1> QED
    BY <1>8, <1>9, <1>10, <1>11, <1>12, <1>13 DEF FSound

\* The invariant holds at the start.
LEMMA InitSound == FollowInit => FSound
  <1> SUFFICES ASSUME FollowInit PROVE FSound
    OBVIOUS
  <1>1. FBase /\ order = [k \in Slots |-> NoOrder]
    BY InitBase DEF FollowInit
  <1>2. \A k \in Slots : order[k] = NoOrder
    BY <1>1
  <1>3. /\ \A k \in Slots : /\ Reserved(order[k]) = 0 /\ DueOf(order[k]) = 0
                            /\ MeantOf(k, order[k]) = 0 /\ WorkingOf(order[k]) = 0
                            /\ ShapeOf(k, order[k]) /\ Stage(k) = "none"
    BY <1>2 DEF NoOrder, Reserved, DueOf, MeantOf, WorkingOf, ShapeOf, Stage
  <1>4. Committed = 0 /\ ToBook = 0 /\ Meant = 0 /\ Working = 0
    <2> DEFINE e == [k \in Slots |-> Reserved(order[k])]
               f == [k \in Slots |-> DueOf(order[k])]
               g == [k \in Slots |-> MeantOf(k, order[k])]
               h == [k \in Slots |-> WorkingOf(order[k])]
    <2>1. \A k \in Slots : e[k] = 0 /\ f[k] = 0 /\ g[k] = 0 /\ h[k] = 0
      BY <1>3
    <2>2. Committed = Total(e) /\ ToBook = Total(f) /\ Meant = Total(g) /\ Working = Total(h)
      BY CommittedIs DEF ToBook, Meant, Working
    <2> HIDE DEF e, f, g, h
    <2>3. Total(e) = 0 /\ Total(f) = 0
      BY <2>1, SlotsFinite, SumZero DEF Total
    <2>4. Total(g) = 0 /\ Total(h) = 0
      BY <2>1, SlotsFinite, SumZero DEF Total
    <2> QED
      BY <2>2, <2>3, <2>4
  <1>5. Known
    BY DEF FollowInit, Known
  <1>6. Shaped /\ Balanced /\ Offered /\ SweptOut
    BY <1>3, <1>4, SlotsFinite DEF Shaped, Balanced, Offered, SweptOut, FollowInit
  <1>7. Owing
    BY <1>4 DEF Owing, FollowInit
  <1> QED
    BY <1>5, <1>6, <1>7 DEF FSound

\* Every step keeps the invariant.
LEMMA NextSound ==
  ASSUME FBase, strayed = "no" => FSound, [FollowNext]_followVars, strayed' = "no"
  PROVE FSound'
  <1>0. FSound
    <2>1. strayed = "no"
      BY NotStray
         DEF FollowNext, followVars, history, He, Feed, HandleBuy, HandleSell, Miss, Observe,
             Answer, Matches, Refuses, Books, NotFilled, Retry, GivesUp, Tick, SweepActs,
             SweepReads, SweepSends, SweepSkips, AnchorActs, AnchorReads, AnchorWrites, Restarts
    <2> QED
      BY <2>1
  <1>1. CASE \E buy \in BOOLEAN, n \in 1 .. MaxHis : He(buy, n)
    BY <1>0, <1>1, HeSound
  <1>2. CASE Feed
    BY <1>0, <1>2, BuySound, SellSound, MissSound DEF Feed
  <1>3. CASE Tick
    BY <1>0, <1>3, TickSound
  <1>4. CASE SweepActs
    BY <1>0, <1>4, SweepSound
  <1>5. CASE AnchorActs
    BY <1>0, <1>5, AnchorSound
  <1>6. CASE Restarts
    BY <1>0, <1>6, RestartSound
  <1>7. CASE \E k \in Slots : Answer(k)
    BY <1>0, <1>7, AnswerSound
  <1>8. CASE UNCHANGED followVars
    <2>1. UNCHANGED <<leader, view, stock, order, found, anchor, history>>
      BY <1>8 DEF followVars
    <2>2. Known'
      BY <1>0, <2>1, NoneMoves DEF FSound, Known, leader, view, stock
    <2> QED
      BY <1>0, <2>1, <2>2, QuietSound DEF leader, stock, history
  <1> QED
    BY <1>1, <1>2, <1>3, <1>4, <1>5, <1>6, <1>7, <1>8 DEF FollowNext

\* The invariant holds throughout.
LEMMA FollowInvariant == FollowSpec => []FInv
  <1>1. FollowInit => FInv
    BY InitBase, InitSound DEF FInv
  <1>2. FInv /\ [FollowNext]_followVars => FInv'
    BY NextBase, NextSound DEF FInv
  <1> QED
    BY <1>1, <1>2, PTL DEF FollowSpec

\* The type invariant, whatever goes wrong.
THEOREM FollowTypeCorrect == FollowSpec => []FollowTypeOK
  <1>1. FInv => FollowTypeOK
    BY DEF FInv, FBase
  <1> QED
    BY FollowInvariant, <1>1, PTL

\* The lane, its rescues and its sweep never sell more than his sales ask for, for any number
\* of his trades and any sizes, whatever is refused, lost or retried, until one of the named
\* ways has led the lane astray.
THEOREM SellsFollowHimHolds == FollowSpec => []SellsFollowHim
  <1>1. FInv => SellsFollowHim
    BY Numbers DEF FInv, FSound, Owing, SellsFollowHim
  <1> QED
    BY FollowInvariant, <1>1, PTL
=============================================================================

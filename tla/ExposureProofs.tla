--------------------------- MODULE ExposureProofs ---------------------------
(* Proofs about what the lanes have at stake in a token: nothing is sold     *)
(* twice, neither the cap nor the day's budget is passed, and two lanes      *)
(* never share the token.  The first three come from one invariant: what     *)
(* memory counts is never less than the ledger and the orders out.           *)
EXTENDS Exposure, Sums

\* The stages an order is out in, and what the orders out of a lane ask for.
Live == {"decided", "working", "ended"}
OutOf(l, S) == Out(Of(l, S))
Asked(l, S) == Shares(size, OutOf(l, S))

\* An order moves on, and is given its size.
Moves(o, x) == stage' = [stage EXCEPT ![o] = x]
Sized(o, n) == size' = [size EXCEPT ![o] = n]

TypeInv ==
  /\ TypeOK
  /\ \A o \in Orders : stage[o] = "ended" => matched[o] <= size[o]

\* A tick has overwritten the lane's counters without an order of its own that was out.
Missed(l, S) == Of(l, S) \cap missed # {}

\* Unless a tick missed one of its orders, what is free to sell, by memory, is held and
\* offered nowhere, and what memory counts against the cap and the day covers the ledger
\* and the orders out; what is on order stays within what there is unless a decision went
\* by counters that had missed one.  A day's sum that has not been rolled is of no account.
LaneCount(l) ==
  /\ Missed(l, Sells) \/ Asked(l, Sells) + holding[l] <= position[l] + reserved[l]
  /\ Missed(l, Buys) \/ position[l] + Asked(l, Buys) <= open_usd[l]
  /\ Missed(l, Buys) \/ bought[l] + Asked(l, Buys) <= today[l]
  /\ Misled(l, Sells) \/ Asked(l, Sells) <= position[l]
  /\ Misled(l, Buys) \/ position[l] + Asked(l, Buys) <= MaxOpen
  /\ Misled(l, Buys) \/ bought[l] + Asked(l, Buys) <= MaxDay
  /\ bought[l] = IF l \in rolled THEN spent[l] ELSE 0

CountInv == \A l \in Lanes : LaneCount(l)

\* Until a claim is let go early, whoever holds the token or is buying it owns it.
OwnerInv ==
  early \/ \A l \in Lanes : position[l] > 0 \/ OutOf(l, Buys) # {} => owner = l

-----------------------------------------------------------------------------
(* Sums over the orders that are out.                                        *)

\* The bounds are naturals, and the lanes and orders are what they are.
LEMMA Settings ==
  /\ MaxOpen \in Nat /\ MaxDay \in Nat /\ "idle" \notin Orders /\ Buys \cap Sells = {}
  /\ IsFiniteSet(Orders) /\ NoLane \notin Lanes /\ \A o \in Orders : LaneOf[o] \in Lanes
  /\ \A o \in Orders : Asks[o] \subseteq 1 .. MaxOpen
  /\ Held \in [Lanes -> 0 .. MaxOpen] /\ \A l, k \in Lanes : Held[l] > 0 /\ Held[k] > 0 => l = k
  BY ExposureAssumption

\* What is out is finitely many orders, of natural sizes.
LEMMA AskedNat ==
  ASSUME TypeOK, NEW l \in Lanes, NEW S \in SUBSET Orders
  PROVE /\ OutOf(l, S) \subseteq Orders /\ IsFiniteSet(OutOf(l, S))
        /\ \A o \in Orders : size[o] \in Nat
        /\ Asked(l, S) \in Nat
  <1>1. OutOf(l, S) \subseteq Orders
    BY DEF OutOf, Out, Of
  <1>2. IsFiniteSet(OutOf(l, S))
    BY <1>1, Settings, FS_Subset
  <1>3. \A o \in Orders : size[o] \in Nat
    BY DEF TypeOK
  <1>4. \A o \in OutOf(l, S) : size[o] \in Nat
    BY <1>1, <1>3
  <1> QED
    BY <1>1, <1>2, <1>3, <1>4, SumNat DEF Asked, Shares

\* The same of any state.
LEMMA AskedNats ==
  TypeOK => \A q \in Lanes : Asked(q, Buys) \in Nat /\ Asked(q, Sells) \in Nat
  <1>1. Buys \in SUBSET Orders /\ Sells \in SUBSET Orders
    BY DEF Orders
  <1> QED
    BY <1>1, AskedNat

\* And of the state after a step.
LEMMA AskedNatsNext ==
  TypeOK' => \A q \in Lanes : Asked(q, Buys)' \in Nat /\ Asked(q, Sells)' \in Nat
  <1>1. (TypeOK => \A q \in Lanes : Asked(q, Buys) \in Nat /\ Asked(q, Sells) \in Nat)'
    BY AskedNats, PTL
  <1> QED
    BY <1>1

\* When no order comes out, what is asked for does not grow.
LEMMA AskedFalls ==
  ASSUME TypeOK, size' = size, NEW l \in Lanes, NEW S \in SUBSET Orders,
         \A o \in Orders : stage'[o] \in Live => stage[o] \in Live
  PROVE Asked(l, S)' <= Asked(l, S)
  <1>1. OutOf(l, S)' = {o \in Of(l, S) : stage'[o] \in Live}
    BY DEF OutOf, Out, Of, Live
  <1>2. OutOf(l, S)' \subseteq OutOf(l, S)
    BY <1>1 DEF OutOf, Out, Of, Live
  <1>3. IsFiniteSet(OutOf(l, S)) /\ \A o \in OutOf(l, S) : size[o] \in Nat
    BY AskedNat
  <1>4. SumFunctionOnSet(size, OutOf(l, S)') <= SumFunctionOnSet(size, OutOf(l, S))
    BY <1>2, <1>3, SumPart
  <1> QED
    BY <1>4 DEF Asked, Shares

\* When an order ends, what is asked for falls by its size.
LEMMA AskedEnds ==
  ASSUME TypeOK, size' = size, NEW o \in Orders, stage[o] \in Live,
         NEW x, x \notin Live, Moves(o, x),
         NEW l \in Lanes, NEW S \in SUBSET Orders
  PROVE Asked(l, S) = Asked(l, S)' + (IF o \in S /\ LaneOf[o] = l THEN size[o] ELSE 0)
  <1>1. stage \in [Orders -> Stages]
    BY DEF TypeOK
  <1>2. OutOf(l, S)' = OutOf(l, S) \ {o}
    BY <1>1 DEF OutOf, Out, Of, Live, Moves
  <1>3. /\ IsFiniteSet(OutOf(l, S)) /\ \A q \in OutOf(l, S) : size[q] \in Int
        /\ Asked(l, S) \in Nat
    BY AskedNat
  <1>4. Asked(l, S)' = SumFunctionOnSet(size, OutOf(l, S) \ {o})
    BY <1>2 DEF Asked, Shares
  <1>5. o \in S /\ LaneOf[o] = l <=> o \in OutOf(l, S)
    BY DEF OutOf, Out, Of, Live
  <1>6. CASE o \in OutOf(l, S)
    <2>1. SumFunctionOnSet(size, OutOf(l, S)) =
            size[o] + SumFunctionOnSet(size, OutOf(l, S) \ {o})
      BY <1>3, <1>6, SumSplit
    <2>2. SumFunctionOnSet(size, OutOf(l, S) \ {o}) \in Int /\ size[o] \in Int
      <3>1. IsFiniteSet(OutOf(l, S) \ {o})
        BY <1>3, FS_Subset
      <3> QED
        BY <1>3, <1>6, <3>1, SumInt
    <2> QED
      BY <1>4, <1>5, <1>6, <2>1, <2>2 DEF Asked, Shares
  <1>7. CASE o \notin OutOf(l, S)
    <2>1. OutOf(l, S) \ {o} = OutOf(l, S)
      BY <1>7
    <2>2. Asked(l, S)' = Asked(l, S)
      <3>1. Asked(l, S) = SumFunctionOnSet(size, OutOf(l, S))
        BY DEF Asked, Shares
      <3> QED
        BY <1>4, <2>1, <3>1
    <2>3. Asked(l, S) = Asked(l, S) + 0
      BY <1>3
    <2> QED
      BY <1>5, <1>7, <2>2, <2>3
  <1> QED
    BY <1>6, <1>7

\* When an order is decided, what is asked for grows by its size.
LEMMA AskedGrows ==
  ASSUME TypeOK, NEW o \in Orders, stage[o] = "idle", Moves(o, "decided"),
         NEW n \in Nat, Sized(o, n), NEW l \in Lanes, NEW S \in SUBSET Orders
  PROVE /\ Asked(l, S)' = Asked(l, S) + (IF o \in S /\ LaneOf[o] = l THEN n ELSE 0)
        /\ OutOf(l, S)' = IF o \in S /\ LaneOf[o] = l THEN OutOf(l, S) \cup {o} ELSE OutOf(l, S)
  <1>1. stage \in [Orders -> Stages] /\ size \in [Orders -> Nat]
    BY DEF TypeOK
  <1>2. OutOf(l, S)' = IF o \in S /\ LaneOf[o] = l THEN OutOf(l, S) \cup {o} ELSE OutOf(l, S)
    BY <1>1 DEF OutOf, Out, Of, Moves
  <1>3. IsFiniteSet(OutOf(l, S)) /\ OutOf(l, S) \subseteq Orders /\ Asked(l, S) \in Nat
    BY AskedNat
  <1>4. o \notin OutOf(l, S)
    BY DEF OutOf, Out, Of
  <1>5. (\A q \in OutOf(l, S) : size'[q] = size[q]) /\ size'[o] = n /\ size' \in [Orders -> Nat]
    BY <1>1, <1>3, <1>4 DEF Sized
  <1>6. SumFunctionOnSet(size', OutOf(l, S)) = SumFunctionOnSet(size, OutOf(l, S))
    BY <1>3, <1>5, SumSame
  <1>7. CASE o \in S /\ LaneOf[o] = l
    <2>1. \A q \in OutOf(l, S) \cup {o} : size'[q] \in Int
      BY <1>3, <1>5
    <2>2. SumFunctionOnSet(size', OutOf(l, S) \cup {o}) =
            size'[o] + SumFunctionOnSet(size', OutOf(l, S))
      BY <1>3, <1>4, <2>1, SumAdd
    <2> QED
      BY <1>2, <1>3, <1>5, <1>6, <1>7, <2>2 DEF Asked, Shares
  <1>8. CASE ~(o \in S /\ LaneOf[o] = l)
    BY <1>2, <1>3, <1>6, <1>8 DEF Asked, Shares
  <1> QED
    BY <1>2, <1>7, <1>8

-----------------------------------------------------------------------------
(* Ranges.                                                                   *)

\* What a list of rows asks for is a natural.
LEMMA SharesNat ==
  ASSUME TypeOK, NEW rows \in SUBSET Orders, NEW l \in Lanes, NEW S
  PROVE Shares(size, Of(l, rows \cap S)) \in Nat
  <1>1. Of(l, rows \cap S) \subseteq Orders
    BY DEF Of
  <1>2. IsFiniteSet(Of(l, rows \cap S)) /\ \A o \in Of(l, rows \cap S) : size[o] \in Nat
    BY <1>1, Settings, FS_Subset DEF TypeOK
  <1> QED
    BY <1>2, SumNat DEF Shares

\* The counters a list of rows makes are naturals.
LEMMA CountersType ==
  ASSUME TypeOK, NEW rows \in SUBSET Orders, Counters(rows), spent' \in [Lanes -> Nat]
  PROVE /\ open_usd' \in [Lanes -> Nat] /\ today' \in [Lanes -> Nat]
        /\ holding' \in [Lanes -> Nat] /\ reserved' \in [Lanes -> Nat]
  <1>1. \A l \in Lanes : /\ Shares(size, Of(l, rows \cap Buys)) \in Nat
                         /\ Shares(size, Of(l, rows \cap Sells)) \in Nat
    BY SharesNat
  <1>2. \A l \in Lanes : position[l] \in Nat /\ spent'[l] \in Nat
    BY DEF TypeOK
  <1>3. /\ open_usd' = [l \in Lanes |-> position[l] + Shares(size, Of(l, rows \cap Buys))]
        /\ today' = [l \in Lanes |-> spent'[l] + Shares(size, Of(l, rows \cap Buys))]
        /\ holding' = position
        /\ reserved' = [l \in Lanes |-> Shares(size, Of(l, rows \cap Sells))]
    BY DEF Counters
  <1>4. \A l \in Lanes : /\ position[l] + Shares(size, Of(l, rows \cap Buys)) \in Nat
                         /\ spent'[l] + Shares(size, Of(l, rows \cap Buys)) \in Nat
    <2> SUFFICES ASSUME NEW l \in Lanes
                 PROVE /\ position[l] + Shares(size, Of(l, rows \cap Buys)) \in Nat
                       /\ spent'[l] + Shares(size, Of(l, rows \cap Buys)) \in Nat
      OBVIOUS
    <2> DEFINE n == Shares(size, Of(l, rows \cap Buys))
    <2>1. n \in Nat /\ position[l] \in Nat /\ spent'[l] \in Nat
      BY <1>1, <1>2
    <2> HIDE DEF n
    <2>2. position[l] + n \in Nat /\ spent'[l] + n \in Nat
      BY <2>1
    <2> QED
      BY <2>2 DEF n
  <1>5. open_usd' \in [Lanes -> Nat] /\ today' \in [Lanes -> Nat]
    BY <1>3, <1>4
  <1>6. holding' \in [Lanes -> Nat] /\ reserved' \in [Lanes -> Nat]
    BY <1>1, <1>3 DEF TypeOK
  <1> QED
    BY <1>5, <1>6

\* A claim is nobody's or a lane's, before and after.
LEMMA ClaimType ==
  ASSUME TypeOK, NEW l \in Lanes, ClaimedBy(l) \/ ReleasedBy(l) \/ UNCHANGED claims
  PROVE owner' \in Lanes \cup {NoLane} /\ aged' \in BOOLEAN
  BY DEF TypeOK, ClaimedBy, ReleasedBy, claims

\* The initial state is in range.
LEMMA InitType == Init => TypeInv
  <1> SUFFICES ASSUME Init PROVE TypeInv
    OBVIOUS
  <1>1. Held \in [Lanes -> Nat]
    BY Settings
  <1>2. owner \in Lanes \cup {NoLane}
    BY DEF Init
  <1> QED
    BY <1>1, <1>2 DEF Init, TypeInv, TypeOK, Stages

\* A step of one order keeps the ranges.
LEMMA OrderType ==
  ASSUME TypeInv, NEW o \in Orders, Decide(o) \/ Send(o)
  PROVE TypeInv'
  <1> USE DEF TypeInv
  <1>0. LaneOf[o] \in Lanes /\ MaxOpen \in Nat /\ \A n \in Asks[o] : n \in Nat /\ n >= 1
    BY Settings
  <1>1. ASSUME NEW n \in Asks[o], DecideBuy(o, n) PROVE TypeInv'
    <2> DEFINE l == LaneOf[o]
    <2>1. /\ stage' = [stage EXCEPT ![o] = "decided"] /\ size' = [size EXCEPT ![o] = n]
          /\ today' = [today EXCEPT ![l] = @ + n] /\ open_usd' = [open_usd EXCEPT ![l] = @ + n]
          /\ ClaimedBy(l)
          /\ UNCHANGED <<matched, position, holding, reserved, spent, rolled, bought, midnight,
                         latched, flight, missed, early>>
          /\ misled' \in {misled, misled \cup {o}}
      BY <1>1 DEF DecideBuy, Raised, Misleads, budget
    <2>2. owner' \in Lanes \cup {NoLane} /\ aged' \in BOOLEAN
      BY <1>0, <2>1, ClaimType
    <2> QED
      BY <1>0, <2>1, <2>2 DEF TypeOK, Stages
  <1>2. ASSUME NEW n \in Asks[o], DecideSell(o, n) PROVE TypeInv'
    <2> DEFINE l == LaneOf[o]
    <2>1. /\ stage' = [stage EXCEPT ![o] = "decided"] /\ size' = [size EXCEPT ![o] = n]
          /\ reserved' = [reserved EXCEPT ![l] = @ + n] /\ ClaimedBy(l)
          /\ UNCHANGED <<matched, position, holding, open_usd, today, spent, rolled, bought,
                         midnight, latched, flight, missed, early>>
          /\ misled' \in {misled, misled \cup {o}}
      BY <1>2 DEF DecideSell, Misleads, budget
    <2>2. owner' \in Lanes \cup {NoLane} /\ aged' \in BOOLEAN
      BY <1>0, <2>1, ClaimType
    <2> QED
      BY <1>0, <2>1, <2>2 DEF TypeOK, Stages
  <1>3. CASE Abandon(o) \/ Record(o) \/ Refuse(o) \/ Close(o)
    BY <1>3 DEF Abandon, Record, Refuse, Close, TypeOK, Stages, claims, counters, budget, history
  <1>4. CASE LetGo(o)
    <2>1. owner' \in Lanes \cup {NoLane} /\ aged' \in BOOLEAN
      BY <1>0, <1>4, ClaimType DEF LetGo
    <2>2. early' \in BOOLEAN
      BY <1>4 DEF LetGo, TypeOK
    <2>3. /\ stage' = [stage EXCEPT ![o] = "closed"]
          /\ UNCHANGED <<size, matched, position, counters, budget, latched, flight, missed, misled>>
      BY <1>4 DEF LetGo
    <2> QED
      BY <2>1, <2>2, <2>3 DEF TypeOK, Stages, counters, budget
  <1>5. ASSUME NEW n \in 1 .. MaxOpen, Trade(o, n) PROVE TypeInv'
    <2>1. size[o] \in Nat /\ n \in Nat
      BY <1>0 DEF TypeOK
    <2>2. n <= size[o]
      BY <1>5, <2>1 DEF Trade
    <2> QED
      BY <1>5, <2>1, <2>2 DEF Trade, TypeOK, Stages, claims, counters, budget, history
  <1>6. ASSUME NEW r \in BOOLEAN, Book(o, r) PROVE TypeInv'
    <2>1. owner' \in Lanes \cup {NoLane} /\ aged' \in BOOLEAN
      BY <1>0, <1>6, ClaimType DEF Book, BookedBy
    <2>2. matched[o] \in Nat /\ position[LaneOf[o]] \in Nat
      BY <1>0 DEF TypeOK
    <2>3. position' \in [Lanes -> Nat]
      BY <1>0, <1>6, <2>2 DEF Book, Monus, TypeOK
    <2>4. spent' \in [Lanes -> Nat] /\ rolled' \subseteq Lanes /\ bought' \in [Lanes -> Nat]
      BY <1>0, <1>6, <2>2 DEF Book, Fill, TypeOK
    <2> QED
      BY <1>6, <2>1, <2>3, <2>4 DEF Book, TypeOK, Stages, counters, history
  <1> QED
    BY <1>1, <1>2, <1>3, <1>4, <1>5, <1>6 DEF Decide, Send, Answer

\* Every step keeps the ranges.
LEMMA NextType == TypeInv /\ [Next]_vars => TypeInv'
  <1> SUFFICES ASSUME TypeInv, [Next]_vars PROVE TypeInv'
    OBVIOUS
  <1> USE DEF TypeInv
  <1>1. ASSUME NEW o \in Orders, Decide(o) \/ Send(o) PROVE TypeInv'
    BY <1>1, OrderType
  <1>2. CASE TickReads
    BY <1>2 DEF TickReads, TypeOK, Rows, orders, counters, claims, budget, history
  <1>3. CASE TickWrites
    <2>1. spent' \in [Lanes -> Nat] /\ rolled' = Lanes
      BY <1>3 DEF TickWrites, RollDay, TypeOK
    <2>2. flight \in SUBSET Orders
      BY <1>3 DEF TickWrites, TypeOK
    <2>3. /\ open_usd' \in [Lanes -> Nat] /\ today' \in [Lanes -> Nat]
          /\ holding' \in [Lanes -> Nat] /\ reserved' \in [Lanes -> Nat]
      BY <1>3, <2>1, <2>2, CountersType DEF TickWrites
    <2>4. owner' \in Lanes \cup {NoLane} /\ aged' \in BOOLEAN
      BY <1>3, ClaimType DEF TickWrites, claims, TypeOK
    <2>5. missed' \subseteq Orders /\ early' \in BOOLEAN
      BY <1>3 DEF TickWrites, Out, TypeOK
    <2> QED
      BY <1>3, <2>1, <2>3, <2>4, <2>5 DEF TickWrites, TypeOK, orders
  <1>4. CASE Ages
    BY <1>4 DEF Ages, TypeOK, orders, counters, budget, history
  <1>7. CASE Midnight
    BY <1>7 DEF Midnight, TypeOK, orders, counters, claims, history
  <1>5. CASE Restart
    <2>1. spent' \in [Lanes -> Nat] /\ rolled' = Lanes
      BY <1>5 DEF Restart, TypeOK
    <2>2. {o \in Orders : stage[o] \in {"working", "ended"}} \in SUBSET Orders
      OBVIOUS
    <2>3. /\ open_usd' \in [Lanes -> Nat] /\ today' \in [Lanes -> Nat]
          /\ holding' \in [Lanes -> Nat] /\ reserved' \in [Lanes -> Nat]
      BY <1>5, <2>1, <2>2, CountersType DEF Restart
    <2>4. owner' \in Lanes \cup {NoLane} /\ aged' \in BOOLEAN /\ latched' \subseteq Lanes
      BY <1>5 DEF Restart, Restored
    <2>5. /\ stage' \in [Orders -> Stages]
          /\ \A o \in Orders : stage'[o] = "ended" => stage[o] = "ended"
      BY <1>5 DEF Restart, TypeOK, Stages
    <2>6. missed' = {} /\ early' \in BOOLEAN
      BY <1>5 DEF Restart, TypeOK
    <2> QED
      BY <1>5, <2>1, <2>3, <2>4, <2>5, <2>6 DEF Restart, TypeOK
  <1>6. CASE UNCHANGED vars
    BY <1>6 DEF vars, TypeOK, orders, counters, claims, budget, history
  <1> QED
    BY <1>1, <1>2, <1>3, <1>4, <1>5, <1>6, <1>7 DEF Next, Tick

-----------------------------------------------------------------------------
(* What memory counts.                                                       *)

\* Numbers of a lane, in range.
LEMMA LaneNats ==
  TypeOK => \A l \in Lanes :
    /\ position[l] \in Nat /\ holding[l] \in Nat /\ reserved[l] \in Nat /\ open_usd[l] \in Nat
    /\ today[l] \in Nat /\ bought[l] \in Nat /\ spent[l] \in Nat
    /\ Asked(l, Buys) \in Nat /\ Asked(l, Sells) \in Nat
  BY AskedNats DEF TypeOK

\* An order that ends without a fill takes nothing from what memory counts.
LEMMA QuietCount ==
  ASSUME TypeInv, CountInv, TypeInv',
         UNCHANGED <<size, position, counters, spent, rolled, missed, misled>>,
         bought' = bought,
         \A o \in Orders : stage'[o] \in Live => stage[o] \in Live
  PROVE CountInv'
  <1>1. Buys \in SUBSET Orders /\ Sells \in SUBSET Orders
    BY DEF Orders
  <1>2. \A l \in Lanes : Asked(l, Buys)' <= Asked(l, Buys) /\ Asked(l, Sells)' <= Asked(l, Sells)
    BY <1>1, AskedFalls DEF TypeInv
  <1>3. /\ \A l \in Lanes : Asked(l, Buys) \in Nat /\ Asked(l, Sells) \in Nat
        /\ \A l \in Lanes : Asked(l, Buys)' \in Nat /\ Asked(l, Sells)' \in Nat
    BY AskedNats, AskedNatsNext DEF TypeInv
  <1> SUFFICES ASSUME NEW l \in Lanes PROVE LaneCount(l)'
    BY DEF CountInv
  <1>4. /\ position[l] \in Nat /\ holding[l] \in Nat /\ reserved[l] \in Nat /\ open_usd[l] \in Nat
        /\ today[l] \in Nat /\ bought[l] \in Nat
    BY LaneNats DEF TypeInv
  <1> DEFINE b == Asked(l, Buys)
             s == Asked(l, Sells)
             bb == Asked(l, Buys)'
             ss == Asked(l, Sells)'
  <1>5. bb <= b /\ ss <= s /\ b \in Nat /\ s \in Nat /\ bb \in Nat /\ ss \in Nat
    BY <1>2, <1>3
  <1> HIDE DEF b, s, bb, ss
  <1>6. /\ s + holding[l] <= position[l] + reserved[l] => ss + holding[l] <= position[l] + reserved[l]
        /\ s <= position[l] => ss <= position[l]
        /\ position[l] + b <= open_usd[l] => position[l] + bb <= open_usd[l]
        /\ position[l] + b <= MaxOpen => position[l] + bb <= MaxOpen
        /\ bought[l] + b <= today[l] => bought[l] + bb <= today[l]
        /\ bought[l] + b <= MaxDay => bought[l] + bb <= MaxDay
    BY <1>4, <1>5, Settings
  <1>7. /\ UNCHANGED <<position, holding, reserved, open_usd, today, spent, rolled, missed, misled>>
        /\ bought' = bought
    BY DEF counters
  <1>8. LaneCount(l)
    BY DEF CountInv
  <1> QED
    BY <1>6, <1>7, <1>8 DEF LaneCount, Missed, Misled, Of, b, s, bb, ss

\* A buy is decided within the cap and the budget, by what memory counts, and counted.
LEMMA DecideBuyCount ==
  ASSUME TypeInv, CountInv, NEW o \in Orders, NEW n \in Asks[o], DecideBuy(o, n)
  PROVE CountInv'
  <1> DEFINE k == LaneOf[o]
  <1>0. /\ k \in Lanes /\ n \in Nat /\ MaxOpen \in Nat /\ MaxDay \in Nat /\ o \in Buys /\ o \notin Sells
        /\ Buys \in SUBSET Orders /\ Sells \in SUBSET Orders
    <2>1. k \in Lanes /\ n \in Nat /\ MaxOpen \in Nat /\ MaxDay \in Nat /\ Buys \cap Sells = {}
      BY Settings
    <2> QED
      BY <2>1 DEF DecideBuy, Orders
  <1>1. /\ stage[o] = "idle" /\ stage' = [stage EXCEPT ![o] = "decided"]
        /\ size' = [size EXCEPT ![o] = n]
        /\ today' = [today EXCEPT ![k] = @ + n] /\ open_usd' = [open_usd EXCEPT ![k] = @ + n]
        /\ today[k] + n <= MaxDay /\ open_usd[k] + n <= MaxOpen
        /\ UNCHANGED <<position, holding, reserved, spent, rolled, bought, missed>>
        /\ misled' = IF missed \cap Of(k, Buys) = {} THEN misled ELSE misled \cup {o}
    BY DEF DecideBuy, Raised, Misleads, budget, Fits, FitsDay
  <1> SUFFICES ASSUME NEW l \in Lanes PROVE LaneCount(l)'
    BY DEF CountInv
  <1>2. /\ Asked(l, Buys)' = Asked(l, Buys) + (IF l = k THEN n ELSE 0)
        /\ Asked(l, Sells)' = Asked(l, Sells) + 0
    <2>1. \A S \in SUBSET Orders :
            Asked(l, S)' = Asked(l, S) + (IF o \in S /\ LaneOf[o] = l THEN n ELSE 0)
      <3>1. /\ TypeOK /\ stage[o] = "idle" /\ Moves(o, "decided") /\ n \in Nat /\ Sized(o, n)
        BY <1>0, <1>1 DEF TypeInv, Moves, Sized
      <3> QED
        BY <3>1, AskedGrows
    <2> HIDE DEF k
    <2>2. Asked(l, Buys)' = Asked(l, Buys) + (IF o \in Buys /\ k = l THEN n ELSE 0)
      BY <1>0, <2>1 DEF k
    <2>3. Asked(l, Sells)' = Asked(l, Sells) + (IF o \in Sells /\ k = l THEN n ELSE 0)
      BY <1>0, <2>1 DEF k
    <2>4. (k = l) <=> (l = k)
      OBVIOUS
    <2> QED
      BY <1>0, <2>2, <2>3, <2>4
  <1>3. /\ open_usd'[l] = open_usd[l] + (IF l = k THEN n ELSE 0)
        /\ today'[l] = today[l] + (IF l = k THEN n ELSE 0)
        /\ position[l] \in Nat /\ open_usd[l] \in Nat /\ today[l] \in Nat /\ bought[l] \in Nat
        /\ Asked(l, Buys) \in Nat /\ Asked(l, Sells) \in Nat
    <2>1. open_usd \in [Lanes -> Nat] /\ today \in [Lanes -> Nat]
      BY DEF TypeInv, TypeOK
    <2>2. /\ open_usd'[l] = open_usd[l] + (IF l = k THEN n ELSE 0)
          /\ today'[l] = today[l] + (IF l = k THEN n ELSE 0)
      BY <1>0, <1>1, <2>1
    <2> QED
      BY <2>2, LaneNats DEF TypeInv
  <1>4. LaneCount(l)
    BY DEF CountInv
  <1>5. /\ Missed(l, Buys)' <=> Missed(l, Buys)
        /\ Missed(l, Sells)' <=> Missed(l, Sells)
        /\ Misled(l, Buys) => Misled(l, Buys)'
        /\ Misled(l, Sells) => Misled(l, Sells)'
    BY <1>1 DEF Missed, Misled, Of
  <1>6. l = k => Misled(l, Buys)' \/ ~Missed(l, Buys)
    BY <1>0, <1>1 DEF Missed, Misled, Of
  <1> DEFINE b == Asked(l, Buys)
             s == Asked(l, Sells)
             bb == Asked(l, Buys)'
             ss == Asked(l, Sells)'
  <1>7. bb = b + (IF l = k THEN n ELSE 0) /\ ss = s /\ b \in Nat /\ s \in Nat
    BY <1>2, <1>3
  <1>11. UNCHANGED <<position, holding, reserved, spent, rolled, bought>>
    BY <1>1
  <1> HIDE DEF b, s, bb, ss, k
  <1>8. CASE l = k
    <2>1. /\ position[l] + b <= open_usd[l] =>
               position[l] + bb <= open_usd'[l] /\ position[l] + bb <= MaxOpen
          /\ bought[l] + b <= today[l] =>
               bought[l] + bb <= today'[l] /\ bought[l] + bb <= MaxDay
      BY <1>0, <1>1, <1>3, <1>7, <1>8
    <2> QED
      BY <1>4, <1>5, <1>6, <1>7, <1>8, <1>11, <2>1 DEF LaneCount, b, s, bb, ss
  <1>9. CASE l # k
    <2>1. bb = b /\ open_usd'[l] = open_usd[l] /\ today'[l] = today[l]
      BY <1>3, <1>7, <1>9
    <2> QED
      BY <1>4, <1>5, <1>7, <1>11, <2>1 DEF LaneCount, b, s, bb, ss
  <1> QED
    BY <1>8, <1>9

\* A sell is decided of what memory counts as free, and reserved.
LEMMA DecideSellCount ==
  ASSUME TypeInv, CountInv, NEW o \in Orders, NEW n \in Asks[o], DecideSell(o, n)
  PROVE CountInv'
  <1> DEFINE k == LaneOf[o]
  <1>0. /\ k \in Lanes /\ n \in Nat /\ n >= 1 /\ o \in Sells /\ o \notin Buys
        /\ Buys \in SUBSET Orders /\ Sells \in SUBSET Orders
    <2>1. k \in Lanes /\ n \in Nat /\ n >= 1 /\ Buys \cap Sells = {}
      BY Settings
    <2> QED
      BY <2>1 DEF DecideSell, Orders
  <1>1. /\ stage[o] = "idle" /\ stage' = [stage EXCEPT ![o] = "decided"]
        /\ size' = [size EXCEPT ![o] = n] /\ reserved' = [reserved EXCEPT ![k] = @ + n]
        /\ n <= Monus(holding[k], reserved[k])
        /\ UNCHANGED <<position, holding, open_usd, today, spent, rolled, bought, missed>>
        /\ misled' = IF missed \cap Of(k, Sells) = {} THEN misled ELSE misled \cup {o}
    BY DEF DecideSell, Misleads, budget
  <1> SUFFICES ASSUME NEW l \in Lanes PROVE LaneCount(l)'
    BY DEF CountInv
  <1>2. /\ Asked(l, Sells)' = Asked(l, Sells) + (IF l = k THEN n ELSE 0)
        /\ Asked(l, Buys)' = Asked(l, Buys) + 0
    <2>1. \A S \in SUBSET Orders :
            Asked(l, S)' = Asked(l, S) + (IF o \in S /\ LaneOf[o] = l THEN n ELSE 0)
      <3>1. /\ TypeOK /\ stage[o] = "idle" /\ Moves(o, "decided") /\ n \in Nat /\ Sized(o, n)
        BY <1>0, <1>1 DEF TypeInv, Moves, Sized
      <3> QED
        BY <3>1, AskedGrows
    <2> HIDE DEF k
    <2>2. Asked(l, Sells)' = Asked(l, Sells) + (IF o \in Sells /\ k = l THEN n ELSE 0)
      BY <1>0, <2>1 DEF k
    <2>3. Asked(l, Buys)' = Asked(l, Buys) + (IF o \in Buys /\ k = l THEN n ELSE 0)
      BY <1>0, <2>1 DEF k
    <2>4. (k = l) <=> (l = k)
      OBVIOUS
    <2> QED
      BY <1>0, <2>2, <2>3, <2>4
  <1>3. /\ reserved'[l] = reserved[l] + (IF l = k THEN n ELSE 0)
        /\ position[l] \in Nat /\ holding[l] \in Nat /\ reserved[l] \in Nat
        /\ Asked(l, Buys) \in Nat /\ Asked(l, Sells) \in Nat
    <2>1. reserved \in [Lanes -> Nat]
      BY DEF TypeInv, TypeOK
    <2>2. reserved'[l] = reserved[l] + (IF l = k THEN n ELSE 0)
      BY <1>0, <1>1, <2>1
    <2> QED
      BY <2>2, LaneNats DEF TypeInv
  <1>4. LaneCount(l)
    BY DEF CountInv
  <1>5. /\ Missed(l, Buys)' <=> Missed(l, Buys)
        /\ Missed(l, Sells)' <=> Missed(l, Sells)
        /\ Misled(l, Buys) => Misled(l, Buys)'
        /\ Misled(l, Sells) => Misled(l, Sells)'
    BY <1>1 DEF Missed, Misled, Of
  <1>6. l = k => Misled(l, Sells)' \/ ~Missed(l, Sells)
    BY <1>0, <1>1 DEF Missed, Misled, Of
  <1> DEFINE b == Asked(l, Buys)
             s == Asked(l, Sells)
             bb == Asked(l, Buys)'
             ss == Asked(l, Sells)'
  <1>7. ss = s + (IF l = k THEN n ELSE 0) /\ bb = b /\ b \in Nat /\ s \in Nat
    BY <1>2, <1>3
  <1>11. UNCHANGED <<position, holding, open_usd, today, spent, rolled, bought>>
    BY <1>1
  <1> HIDE DEF b, s, bb, ss, k
  <1>8. CASE l = k
    <2>1. n + reserved[l] <= holding[l]
      BY <1>0, <1>1, <1>3, <1>8 DEF Monus
    <2>2. s + holding[l] <= position[l] + reserved[l] =>
            ss + holding[l] <= position[l] + reserved'[l] /\ ss <= position[l]
      BY <1>0, <1>3, <1>7, <1>8, <2>1
    <2> QED
      BY <1>4, <1>5, <1>6, <1>7, <1>8, <1>11, <2>2 DEF LaneCount, b, s, bb, ss
  <1>9. CASE l # k
    <2>1. ss = s /\ reserved'[l] = reserved[l]
      BY <1>3, <1>7, <1>9
    <2> QED
      BY <1>4, <1>5, <1>7, <1>11, <2>1 DEF LaneCount, b, s, bb, ss
  <1> QED
    BY <1>8, <1>9

\* A booking moves what was matched, at most what was asked for, from the orders out to the
\* ledger.
LEMMA BookCount ==
  ASSUME TypeInv, CountInv, TypeInv', NEW o \in Orders, NEW r, Book(o, r)
  PROVE CountInv'
  <1> DEFINE k == LaneOf[o]
             n == matched[o]
  <1>0. /\ k \in Lanes /\ Buys \in SUBSET Orders /\ Sells \in SUBSET Orders
        /\ Buys \cap Sells = {} /\ MaxOpen \in Nat /\ MaxDay \in Nat
    BY Settings DEF Orders
  <1>1. /\ stage[o] = "ended" /\ Moves(o, "booked") /\ size' = size
        /\ position' = [position EXCEPT ![k] = IF o \in Buys THEN @ + n ELSE Monus(@, n)]
        /\ o \in Buys => /\ spent' = [spent EXCEPT ![k] = IF k \in rolled THEN @ + n ELSE n]
                         /\ rolled' = rolled \cup {k}
                         /\ bought' = [bought EXCEPT ![k] = @ + n]
        /\ o \notin Buys => UNCHANGED <<spent, rolled, bought>>
        /\ UNCHANGED <<holding, reserved, open_usd, today, missed, misled>>
    BY DEF Book, Fill, Moves, counters, history
  <1>2. n \in Nat /\ size[o] \in Nat /\ n <= size[o]
    BY <1>1 DEF TypeInv, TypeOK
  <1> SUFFICES ASSUME NEW l \in Lanes PROVE LaneCount(l)'
    BY DEF CountInv
  <1> DEFINE b == Asked(l, Buys)
             s == Asked(l, Sells)
             bb == Asked(l, Buys)'
             ss == Asked(l, Sells)'
  <1>3. /\ b = bb + (IF o \in Buys /\ k = l THEN size[o] ELSE 0)
        /\ s = ss + (IF o \in Sells /\ k = l THEN size[o] ELSE 0)
    <2>1. TypeOK /\ size' = size /\ stage[o] \in Live /\ "booked" \notin Live /\ Moves(o, "booked")
      BY <1>1 DEF TypeInv, Live
    <2>2. \A S \in SUBSET Orders :
            Asked(l, S) = Asked(l, S)' + (IF o \in S /\ LaneOf[o] = l THEN size[o] ELSE 0)
      BY <2>1, AskedEnds
    <2> HIDE DEF k
    <2>3. Asked(l, Buys) = Asked(l, Buys)' + (IF o \in Buys /\ k = l THEN size[o] ELSE 0)
      BY <1>0, <2>2 DEF k
    <2>4. Asked(l, Sells) = Asked(l, Sells)' + (IF o \in Sells /\ k = l THEN size[o] ELSE 0)
      BY <1>0, <2>2 DEF k
    <2> QED
      BY <2>3, <2>4
  <1>4. b \in Nat /\ s \in Nat /\ bb \in Nat /\ ss \in Nat
    BY AskedNats, AskedNatsNext DEF TypeInv
  <1>5. LaneCount(l)
    BY DEF CountInv
  <1>6. /\ position[l] \in Nat /\ holding[l] \in Nat /\ reserved[l] \in Nat
        /\ open_usd[l] \in Nat /\ today[l] \in Nat /\ bought[l] \in Nat /\ spent[l] \in Nat
    BY LaneNats DEF TypeInv
  <1>7. /\ position \in [Lanes -> Nat] /\ spent \in [Lanes -> Nat] /\ bought \in [Lanes -> Nat]
        /\ rolled \subseteq Lanes
    BY DEF TypeInv, TypeOK
  <1>8. /\ position'[l] = IF k # l THEN position[l]
                          ELSE IF o \in Buys THEN position[l] + n ELSE Monus(position[l], n)
        /\ bought'[l] = IF k = l /\ o \in Buys THEN bought[l] + n ELSE bought[l]
        /\ k = l /\ o \in Buys =>
             /\ l \in rolled' /\ spent'[l] = IF l \in rolled THEN spent[l] + n ELSE n
        /\ ~(k = l /\ o \in Buys) => spent'[l] = spent[l] /\ (l \in rolled' <=> l \in rolled)
    <2> HIDE DEF k, n
    <2> QED
      BY <1>0, <1>1, <1>7
  <1>9. o \in Buys \/ o \in Sells
    BY DEF Orders
  <1>13. UNCHANGED <<holding, reserved, open_usd, today, missed, misled>>
    BY <1>1
  <1>14. bought[l] = IF l \in rolled THEN spent[l] ELSE 0
    BY <1>5 DEF LaneCount
  <1>15. bought'[l] = IF l \in rolled' THEN spent'[l] ELSE 0
    <2> HIDE DEF k, n
    <2> QED
      BY <1>2, <1>6, <1>8, <1>14
  <1> HIDE DEF b, s, bb, ss, k, n
  <1>16. SUFFICES
           /\ s + holding[l] <= position[l] + reserved[l] => ss + holding[l] <= position'[l] + reserved[l]
           /\ position[l] + b <= open_usd[l] => position'[l] + bb <= open_usd[l]
           /\ bought[l] + b <= today[l] => bought'[l] + bb <= today[l]
           /\ s <= position[l] => ss <= position'[l]
           /\ position[l] + b <= MaxOpen => position'[l] + bb <= MaxOpen
           /\ bought[l] + b <= MaxDay => bought'[l] + bb <= MaxDay
    BY <1>5, <1>13, <1>15 DEF LaneCount, Missed, Misled, Of, b, s, bb, ss
  <1>10. CASE k # l
    BY <1>3, <1>4, <1>8, <1>10
  <1>11. CASE k = l /\ o \in Buys
    <2>1. b = bb + size[o] /\ s = ss
      BY <1>0, <1>3, <1>4, <1>11
    <2>2. position'[l] = position[l] + n /\ bought'[l] = bought[l] + n
      BY <1>8, <1>11
    <2> QED
      BY <1>0, <1>2, <1>4, <1>6, <2>1, <2>2
  <1>12. CASE k = l /\ o \in Sells
    <2>1. b = bb /\ s = ss + size[o] /\ o \notin Buys
      BY <1>0, <1>3, <1>4, <1>12
    <2>2. /\ position'[l] \in Nat /\ position'[l] <= position[l] /\ position[l] <= position'[l] + n
          /\ bought'[l] = bought[l]
      BY <1>2, <1>6, <1>8, <1>12, <2>1 DEF Monus
    <2> QED
      BY <1>0, <1>2, <1>4, <1>6, <2>1, <2>2
  <1> QED
    BY <1>9, <1>10, <1>11, <1>12

\* Counters that are made from the ledger and a list of rows; an order that is out is among
\* the rows, or missed.
LEMMA ReadCount ==
  ASSUME TypeInv, CountInv, TypeInv', NEW rows \in SUBSET Orders, Counters(rows),
         UNCHANGED <<size, position, bought, misled>>, rolled' = Lanes,
         \A l \in Lanes : spent'[l] = bought[l],
         \A o \in Orders : stage'[o] \in Live => stage[o] \in Live,
         \A o \in Orders : stage'[o] \in Live => o \in rows \/ o \in missed'
  PROVE CountInv'
  <1>0. Buys \in SUBSET Orders /\ Sells \in SUBSET Orders /\ MaxOpen \in Nat /\ MaxDay \in Nat
    BY Settings DEF Orders
  <1> SUFFICES ASSUME NEW l \in Lanes PROVE LaneCount(l)'
    BY DEF CountInv
  <1> DEFINE b == Asked(l, Buys)
             s == Asked(l, Sells)
             bb == Asked(l, Buys)'
             ss == Asked(l, Sells)'
             rb == Shares(size, Of(l, rows \cap Buys))
             rs == Shares(size, Of(l, rows \cap Sells))
  <1>1. bb <= b /\ ss <= s
    BY <1>0, AskedFalls DEF TypeInv
  <1>2. rb \in Nat /\ rs \in Nat
    BY SharesNat DEF TypeInv
  <1>3. (Missed(l, Buys)' \/ bb <= rb) /\ (Missed(l, Sells)' \/ ss <= rs)
    <2>1. \A S \in SUBSET Orders : Missed(l, S)' \/ Asked(l, S)' <= Shares(size, Of(l, rows \cap S))
      <3> SUFFICES ASSUME NEW S \in SUBSET Orders, ~Missed(l, S)'
                   PROVE Asked(l, S)' <= Shares(size, Of(l, rows \cap S))
        OBVIOUS
      <3>1. OutOf(l, S)' \subseteq Of(l, rows \cap S) /\ Of(l, rows \cap S) \subseteq Orders
        BY DEF OutOf, Out, Of, Live, Missed
      <3>2. IsFiniteSet(Of(l, rows \cap S)) /\ \A o \in Of(l, rows \cap S) : size[o] \in Nat
        <4>1. IsFiniteSet(Of(l, rows \cap S))
          BY <3>1, Settings, FS_Subset
        <4> QED
          BY <3>1, <4>1 DEF TypeInv, TypeOK
      <3> DEFINE A == OutOf(l, S)'
                 B == Of(l, rows \cap S)
      <3>3. SumFunctionOnSet(size, A) <= SumFunctionOnSet(size, B)
        <4>1. A \subseteq B /\ IsFiniteSet(B) /\ \A o \in B : size[o] \in Nat
          BY <3>1, <3>2
        <4> HIDE DEF A, B
        <4> QED
          BY <4>1, SumPart
      <3> QED
        BY <3>3 DEF Asked, Shares
    <2> QED
      BY <1>0, <2>1
  <1>4. b \in Nat /\ s \in Nat /\ bb \in Nat /\ ss \in Nat
    BY AskedNats, AskedNatsNext DEF TypeInv
  <1>5. LaneCount(l)
    BY DEF CountInv
  <1>6. position[l] \in Nat /\ bought[l] \in Nat
    BY LaneNats DEF TypeInv
  <1>7. /\ holding'[l] = position[l] /\ open_usd'[l] = position[l] + rb
        /\ today'[l] = bought[l] + rb /\ reserved'[l] = rs /\ l \in rolled' /\ spent'[l] = bought[l]
        /\ position' = position /\ bought' = bought /\ misled' = misled
    BY DEF Counters
  <1> HIDE DEF b, s, bb, ss, rb, rs
  <1>8. /\ ss <= rs => ss + holding'[l] <= position[l] + reserved'[l]
        /\ bb <= rb => position[l] + bb <= open_usd'[l] /\ bought[l] + bb <= today'[l]
        /\ s <= position[l] => ss <= position[l]
        /\ position[l] + b <= MaxOpen => position[l] + bb <= MaxOpen
        /\ bought[l] + b <= MaxDay => bought[l] + bb <= MaxDay
    BY <1>0, <1>1, <1>2, <1>4, <1>6, <1>7
  <1> QED
    BY <1>3, <1>5, <1>7, <1>8 DEF LaneCount, Misled, Of, b, s, bb, ss

\* In the initial state nothing is out.
LEMMA InitCount == Init => CountInv
  <1> SUFFICES ASSUME Init, NEW l \in Lanes PROVE LaneCount(l)
    BY DEF CountInv
  <1>1. \A S \in SUBSET Orders : OutOf(l, S) = {}
    BY DEF Init, OutOf, Out, Of
  <1>2. Buys \in SUBSET Orders /\ Sells \in SUBSET Orders
    BY DEF Orders
  <1>3. Asked(l, Buys) = 0 /\ Asked(l, Sells) = 0
    BY <1>1, <1>2, SumEmpty DEF Asked, Shares
  <1>4. Held[l] \in 0 .. MaxOpen /\ MaxOpen \in Nat /\ MaxDay \in Nat
    BY Settings
  <1> QED
    BY <1>3, <1>4 DEF Init, LaneCount

\* Every step keeps what memory counts ahead of the ledger and the orders out.
LEMMA NextCount == TypeInv /\ CountInv /\ [Next]_vars => CountInv'
  <1> SUFFICES ASSUME TypeInv, CountInv, [Next]_vars PROVE CountInv'
    OBVIOUS
  <1>0. TypeInv' /\ stage \in [Orders -> Stages]
    BY NextType DEF TypeInv, TypeOK
  <1>1. ASSUME NEW o \in Orders, Decide(o) PROVE CountInv'
    BY <1>1, DecideBuyCount, DecideSellCount DEF Decide
  <1>2. ASSUME NEW o \in Orders, NEW n \in Nat,
               Abandon(o) \/ Record(o) \/ Refuse(o) \/ LetGo(o) \/ Close(o) \/ Trade(o, n)
        PROVE CountInv'
    <2>1. /\ UNCHANGED <<size, position, counters, spent, rolled, missed, misled>> /\ bought' = bought
          /\ \E x \in Stages : stage' = [stage EXCEPT ![o] = x] /\ (x \in Live => stage[o] \in Live)
      BY <1>2 DEF Abandon, Record, Refuse, LetGo, Close, Trade, Stages, Live, budget, history
    <2>2. \A q \in Orders : stage'[q] \in Live => stage[q] \in Live
      BY <1>0, <2>1
    <2> QED
      BY <1>0, <2>1, <2>2, QuietCount
  <1>3. ASSUME NEW o \in Orders, NEW r \in BOOLEAN, Book(o, r) PROVE CountInv'
    BY <1>0, <1>3, BookCount
  <1>4. CASE TickReads \/ Ages \/ UNCHANGED vars
    <2>1. UNCHANGED <<stage, size, position, counters, spent, rolled, missed, misled>> /\ bought' = bought
      BY <1>4 DEF TickReads, Ages, vars, orders, budget, history
    <2> QED
      BY <1>0, <2>1, QuietCount
  <1>5. CASE TickWrites
    <2>1. /\ flight \in SUBSET Orders /\ Counters(flight) /\ rolled' = Lanes
          /\ UNCHANGED <<stage, size, position, bought, misled>>
          /\ spent' = [l \in Lanes |-> IF l \in rolled THEN spent[l] ELSE 0]
          /\ missed' = Out(Orders) \ flight
      BY <1>5 DEF TickWrites, RollDay, orders, TypeInv, TypeOK
    <2>2. \A l \in Lanes : spent'[l] = bought[l]
      BY <2>1 DEF CountInv, LaneCount
    <2>3. \A o \in Orders : stage[o] \in Live => o \in flight \/ o \in missed'
      BY <2>1 DEF Out, Live
    <2> QED
      BY <1>0, <2>1, <2>2, <2>3, ReadCount
  <1>6. CASE Midnight
    <2>1. /\ UNCHANGED <<stage, size, position, counters, missed, misled>>
          /\ rolled' = {} /\ bought' = [l \in Lanes |-> 0]
      BY <1>6 DEF Midnight, orders, history
    <2>2. \A l \in Lanes : Asked(l, Buys)' = Asked(l, Buys) /\ Asked(l, Sells)' = Asked(l, Sells)
      BY <2>1 DEF Asked, OutOf, Out, Of
    <2> SUFFICES ASSUME NEW l \in Lanes PROVE LaneCount(l)'
      BY DEF CountInv
    <2> DEFINE b == Asked(l, Buys)
    <2>3. b \in Nat /\ bought[l] \in Nat /\ today[l] \in Nat /\ MaxDay \in Nat
      BY LaneNats, Settings DEF TypeInv
    <2> HIDE DEF b
    <2>4. /\ bought[l] + b <= today[l] => 0 + b <= today[l]
          /\ bought[l] + b <= MaxDay => 0 + b <= MaxDay
      BY <2>3
    <2>5. LaneCount(l)
      BY DEF CountInv
    <2>6. /\ bought'[l] = 0 /\ l \notin rolled'
          /\ UNCHANGED <<position, holding, reserved, open_usd, today, missed, misled>>
      BY <2>1 DEF counters
    <2> QED
      BY <2>2, <2>4, <2>5, <2>6 DEF LaneCount, Missed, Misled, Of, b
  <1>7. CASE Restart
    <2> DEFINE rows == {o \in Orders : stage[o] \in {"working", "ended"}}
    <2>1. /\ rows \in SUBSET Orders /\ Counters(rows) /\ rolled' = Lanes
          /\ UNCHANGED <<size, position, bought, misled>> /\ spent' = bought
          /\ stage' = [o \in Orders |->
               IF stage[o] \in {"decided", "booked", "refused"} THEN "closed" ELSE stage[o]]
      BY <1>7 DEF Restart
    <2>2. \A o \in Orders : stage'[o] \in Live => stage[o] \in Live /\ o \in rows
      BY <2>1 DEF Live
    <2> HIDE DEF rows
    <2> QED
      BY <1>0, <2>1, <2>2, ReadCount
  <1> QED
    BY <1>1, <1>2, <1>3, <1>4, <1>5, <1>6, <1>7, Settings DEF Next, Tick, Send, Answer

\* The count as an invariant of the specification.
LEMMA CountInvariants == Spec => [](TypeInv /\ CountInv)
  <1>1. Init => TypeInv /\ CountInv
    BY InitType, InitCount
  <1>2. TypeInv /\ CountInv /\ [Next]_vars => (TypeInv /\ CountInv)'
    BY NextType, NextCount
  <1> QED
    BY <1>1, <1>2, PTL DEF Spec

\* No share of a lane is offered twice until it decides by counters that a tick overwrote
\* without one of its own sells (Router::decide and tick_with), for any interleaving.
THEOREM SoldCorrect == Spec => []NeverOversold
  <1>1. CountInv => NeverOversold
    BY DEF CountInv, LaneCount, NeverOversold, Asked, OutOf
  <1> QED
    BY <1>1, CountInvariants, PTL

\* Nor is a lane's cap passed, until a tick has missed one of its own buys in that way ...
THEOREM CapCorrect == Spec => []WithinCap
  <1>1. CountInv => WithinCap
    BY DEF CountInv, LaneCount, WithinCap, Asked, OutOf
  <1> QED
    BY <1>1, CountInvariants, PTL

\* ... or its budget for the day, whenever midnight comes (roll_day and apply of ledger.rs).
THEOREM DayCorrect == Spec => []DayWithinBudget
  <1>1. CountInv => DayWithinBudget
    BY DEF CountInv, LaneCount, DayWithinBudget, Asked, OutOf
  <1> QED
    BY <1>1, CountInvariants, PTL

-----------------------------------------------------------------------------
(* Whose token it is.                                                        *)

\* When no order comes out, and claims and shares stay, so does whose they are.
LEMMA QuietOwner ==
  ASSUME OwnerInv, UNCHANGED <<position, owner, early>>,
         \A o \in Orders : stage'[o] \in Live => stage[o] \in Live
  PROVE OwnerInv'
  <1>1. \A l \in Lanes : \A S \in SUBSET Orders : OutOf(l, S)' \subseteq OutOf(l, S)
    BY DEF OutOf, Out, Of, Live
  <1>2. \A l \in Lanes : OutOf(l, Buys)' \subseteq OutOf(l, Buys)
    BY <1>1 DEF Orders
  <1> QED
    BY <1>2 DEF OwnerInv

\* The initial owner is the lane that holds the token.
LEMMA InitOwner == Init => OwnerInv
  <1> SUFFICES ASSUME Init, NEW l \in Lanes
               PROVE position[l] > 0 \/ OutOf(l, Buys) # {} => owner = l
    BY DEF OwnerInv
  <1>1. OutOf(l, Buys) = {}
    BY DEF Init, OutOf, Out, Of, Orders
  <1>2. ASSUME Held[l] > 0 PROVE owner = l
    <2> DEFINE c == CHOOSE k \in Lanes : Held[k] > 0
    <2>1. c \in Lanes /\ Held[c] > 0 /\ owner = c
      BY <1>2 DEF Init
    <2> HIDE DEF c
    <2> QED
      BY <1>2, <2>1, Settings
  <1> QED
    BY <1>1, <1>2 DEF Init

\* A decision is its owner's, or takes a token that nobody holds or buys.
LEMMA DecideOwner ==
  ASSUME TypeInv, OwnerInv, NEW o \in Orders, Decide(o)
  PROVE OwnerInv'
  <1> DEFINE k == LaneOf[o]
  <1>1. k \in Lanes /\ NoLane \notin Lanes
    BY Settings
  <1>2. /\ stage[o] = "idle" /\ Moves(o, "decided") /\ ClaimedBy(k)
        /\ o \in Buys => owner \in {k, NoLane}
        /\ UNCHANGED <<position, early>>
    <2>1. ASSUME NEW n \in Asks[o], DecideBuy(o, n)
          PROVE /\ stage[o] = "idle" /\ Moves(o, "decided") /\ ClaimedBy(k)
                /\ owner \in {k, NoLane} /\ UNCHANGED <<position, early>>
      BY <2>1 DEF DecideBuy, Raised, Misleads, Moves
    <2>2. ASSUME NEW n \in Asks[o], DecideSell(o, n)
          PROVE /\ stage[o] = "idle" /\ Moves(o, "decided") /\ ClaimedBy(k)
                /\ o \notin Buys /\ UNCHANGED <<position, early>>
      BY <2>2, Settings DEF DecideSell, Misleads, Moves
    <2> QED
      BY <2>1, <2>2 DEF Decide
  <1>3. owner' = IF owner = NoLane THEN k ELSE owner
    BY <1>2 DEF ClaimedBy, claims
  <1>4. stage \in [Orders -> Stages]
    BY DEF TypeInv, TypeOK
  <1>5. \A l \in Lanes : l # k \/ o \notin Buys => OutOf(l, Buys)' = OutOf(l, Buys)
    BY <1>2, <1>4 DEF OutOf, Out, Of, Moves, Orders
  <1> HIDE DEF k
  <1>6. CASE early
    BY <1>2, <1>6 DEF OwnerInv
  <1>7. CASE ~early
    <2>1. \A l \in Lanes : position[l] > 0 \/ OutOf(l, Buys) # {} => owner = l
      BY <1>7 DEF OwnerInv
    <2>2. CASE o \in Buys
      <3>1. owner' = k
        BY <1>2, <1>3, <2>2
      <3>2. \A l \in Lanes : l # k => ~(position[l] > 0) /\ OutOf(l, Buys) = {}
        BY <1>1, <1>2, <2>1, <2>2
      <3> QED
        BY <1>2, <1>5, <3>1, <3>2 DEF OwnerInv
    <2>3. CASE o \notin Buys
      BY <1>1, <1>2, <1>3, <1>5, <2>1, <2>3 DEF OwnerInv
    <2> QED
      BY <2>2, <2>3
  <1> QED
    BY <1>6, <1>7

\* A lone refused buy lets the token go only if its lane holds none and buys no more.
LEMMA LetGoOwner ==
  ASSUME TypeInv, OwnerInv, NEW o \in Orders, LetGo(o)
  PROVE OwnerInv'
  <1> DEFINE k == LaneOf[o]
  <1>1. /\ k \in Lanes /\ stage[o] = "refused" /\ Moves(o, "closed")
        /\ position' = position /\ (early' <=> early \/ Accompanied(o))
        /\ IF o \in Buys /\ holding[k] = 0 THEN ReleasedBy(k) ELSE UNCHANGED claims
    BY Settings DEF LetGo, Moves
  <1>2. stage \in [Orders -> Stages] /\ \A l \in Lanes : position[l] \in Nat
    BY DEF TypeInv, TypeOK
  <1>3. \A l \in Lanes : OutOf(l, Buys)' = OutOf(l, Buys)
    BY <1>1, <1>2 DEF OutOf, Out, Of, Moves, Orders
  <1>4. CASE early'
    BY <1>4 DEF OwnerInv
  <1>5. CASE ~early'
    <2>1. \A l \in Lanes : position[l] > 0 \/ OutOf(l, Buys) # {} => owner = l
      BY <1>1, <1>5 DEF OwnerInv
    <2>2. CASE o \in Buys /\ holding[k] = 0
      <3>1. OutOf(k, Buys) = {} /\ ~(position[k] > 0)
        BY <1>1, <1>5, <2>2 DEF Accompanied, OutOf
      <3>2. owner' = owner \/ owner = k
        BY <1>1, <2>2 DEF ReleasedBy, claims
      <3> HIDE DEF k
      <3> QED
        BY <1>1, <1>3, <2>1, <3>1, <3>2 DEF OwnerInv
    <2>3. CASE ~(o \in Buys /\ holding[k] = 0)
      <3>1. owner' = owner
        BY <1>1, <2>3 DEF claims
      <3> QED
        BY <1>1, <1>3, <2>1, <3>1 DEF OwnerInv
    <2> QED
      BY <2>2, <2>3
  <1> QED
    BY <1>4, <1>5

\* A booked buy is its owner's; a booked sell leaves the token with whoever has it.
LEMMA BookOwner ==
  ASSUME TypeInv, OwnerInv, NEW o \in Orders, NEW r, Book(o, r)
  PROVE OwnerInv'
  <1> DEFINE k == LaneOf[o]
             n == matched[o]
  <1>1. /\ k \in Lanes /\ stage[o] = "ended" /\ Moves(o, "booked") /\ NoLane \notin Lanes
        /\ position' = [position EXCEPT ![k] = IF o \in Buys THEN @ + n ELSE Monus(@, n)]
        /\ early' = early /\ BookedBy(o, r)
    BY Settings DEF Book, Moves, history
  <1>2. /\ stage \in [Orders -> Stages] /\ position \in [Lanes -> Nat] /\ n \in Nat
    BY DEF TypeInv, TypeOK
  <1>3. \A l \in Lanes : OutOf(l, Buys)' \subseteq OutOf(l, Buys)
    BY <1>1, <1>2 DEF OutOf, Out, Of, Moves, Orders
  <1>4. \A l \in Lanes : l # k => position'[l] = position[l]
    BY <1>1, <1>2
  <1>7. CASE early
    BY <1>1, <1>7 DEF OwnerInv
  <1>8. CASE ~early
    <2>1. \A l \in Lanes : position[l] > 0 \/ OutOf(l, Buys) # {} => owner = l
      BY <1>8 DEF OwnerInv
    <2>2. CASE o \in Buys
      <3>1. o \in OutOf(k, Buys)
        BY <1>1, <2>2 DEF OutOf, Out, Of
      <3>2. owner = k
        BY <1>1, <2>1, <3>1
      <3>3. owner' = owner
        BY <1>1, <3>2 DEF BookedBy, ClaimedBy, claims
      <3> HIDE DEF k, n
      <3> QED
        BY <1>1, <1>3, <1>4, <2>1, <3>2, <3>3 DEF OwnerInv
    <2>3. CASE o \notin Buys
      <3>1. owner' = owner
        BY <1>1, <2>3 DEF BookedBy, claims
      <3>2. position'[k] > 0 => position[k] > 0
        BY <1>1, <1>2, <2>3 DEF Monus
      <3> HIDE DEF k, n
      <3> QED
        BY <1>1, <1>3, <1>4, <2>1, <3>1, <3>2 DEF OwnerInv
    <2> QED
      BY <2>2, <2>3
  <1> QED
    BY <1>7, <1>8

\* A tick that is not hasty collects the claim of a lane that holds and buys nothing.
LEMMA TickOwner ==
  ASSUME TypeInv, OwnerInv, TickWrites
  PROVE OwnerInv'
  <1>1. /\ UNCHANGED <<stage, position>> /\ (early' <=> early \/ Hasty)
        /\ IF owner \in Lanes /\ Collectable(owner, flight)
           THEN ReleasedBy(owner) ELSE UNCHANGED claims
    BY DEF TickWrites, orders
  <1>2. \A l \in Lanes : OutOf(l, Buys)' = OutOf(l, Buys)
    BY <1>1 DEF OutOf, Out, Of
  <1>4. CASE early'
    BY <1>4 DEF OwnerInv
  <1>5. CASE ~early'
    <2>1. \A l \in Lanes : position[l] > 0 \/ OutOf(l, Buys) # {} => owner = l
      BY <1>1, <1>5 DEF OwnerInv
    <2>2. CASE owner \in Lanes /\ Collectable(owner, flight)
      <3>1. position[owner] = 0 /\ (holding[owner] > 0 \/ Of(owner, flight) = {})
        BY <2>2 DEF Collectable
      <3>2. OutOf(owner, Buys) = {}
        <4>1. /\ OutOf(owner, Buys) # {} => OutOf(owner, Buys) \subseteq flight
              /\ OutOf(owner, Buys) # {} => ~(position[owner] = 0 /\ holding[owner] > 0)
          BY <1>1, <1>5 DEF Hasty, OutOf
        <4>2. OutOf(owner, Buys) \subseteq flight => OutOf(owner, Buys) \subseteq Of(owner, flight)
          BY DEF OutOf, Out, Of
        <4> QED
          BY <3>1, <4>1, <4>2
      <3>3. ~(position[owner] > 0)
        BY <3>1
      <3> QED
        BY <1>1, <1>2, <2>1, <3>2, <3>3 DEF OwnerInv
    <2>3. CASE ~(owner \in Lanes /\ Collectable(owner, flight))
      <3>1. owner' = owner
        BY <1>1, <2>3 DEF claims
      <3> QED
        BY <1>1, <1>2, <2>1, <3>1 DEF OwnerInv
    <2> QED
      BY <2>2, <2>3
  <1> QED
    BY <1>4, <1>5

\* A restart with no buy at the venue gives the token back to the lane that holds it.
LEMMA RestartOwner ==
  ASSUME TypeInv, OwnerInv, Restart
  PROVE OwnerInv'
  <1> DEFINE holders == {l \in Lanes : position[l] > 0}
  <1>1. /\ position' = position /\ Restored(holders)
        /\ (early' <=> early \/ Out(Rows \cap Buys) # {})
        /\ stage' = [o \in Orders |->
             IF stage[o] \in {"decided", "booked", "refused"} THEN "closed" ELSE stage[o]]
    BY DEF Restart
  <1>2. CASE early'
    BY <1>2 DEF OwnerInv
  <1>3. CASE ~early'
    <2>1. \A l \in Lanes : OutOf(l, Buys)' = {}
      BY <1>1, <1>3 DEF OutOf, Out, Of, Rows, Orders
    <2>2. \A l \in Lanes : position[l] > 0 => owner = l
      BY <1>1, <1>3 DEF OwnerInv
    <2>3. \A l \in Lanes : position[l] > 0 => owner' = l
      <3> SUFFICES ASSUME NEW l \in Lanes, position[l] > 0 PROVE owner' = l
        OBVIOUS
      <3>1. holders = {l}
        BY <2>2
      <3> HIDE DEF holders
      <3> QED
        BY <1>1, <3>1 DEF Restored
    <2> HIDE DEF holders
    <2> QED
      BY <1>1, <2>1, <2>3 DEF OwnerInv
  <1> QED
    BY <1>2, <1>3

\* Every step keeps the token with whoever holds or buys it.
LEMMA NextOwner == TypeInv /\ OwnerInv /\ [Next]_vars => OwnerInv'
  <1> SUFFICES ASSUME TypeInv, OwnerInv, [Next]_vars PROVE OwnerInv'
    OBVIOUS
  <1>1. ASSUME NEW o \in Orders, Decide(o) PROVE OwnerInv'
    BY <1>1, DecideOwner
  <1>2. ASSUME NEW o \in Orders, NEW n,
               Abandon(o) \/ Record(o) \/ Refuse(o) \/ Close(o) \/ Trade(o, n)
        PROVE OwnerInv'
    <2>1. /\ UNCHANGED <<position, owner, early>>
          /\ \E x \in Stages : stage' = [stage EXCEPT ![o] = x] /\ (x \in Live => stage[o] \in Live)
      BY <1>2 DEF Abandon, Record, Refuse, Close, Trade, Stages, Live, claims, history
    <2>2. \A q \in Orders : stage'[q] \in Live => stage[q] \in Live
      BY <2>1 DEF TypeInv, TypeOK
    <2> QED
      BY <2>1, <2>2, QuietOwner
  <1>3. ASSUME NEW o \in Orders, NEW r, LetGo(o) \/ Book(o, r) PROVE OwnerInv'
    BY <1>3, LetGoOwner, BookOwner
  <1>4. CASE TickReads \/ Ages \/ Midnight \/ UNCHANGED vars
    <2>1. UNCHANGED <<stage, position, owner, early>>
      BY <1>4 DEF TickReads, Ages, Midnight, vars, orders, claims, history
    <2> QED
      BY <2>1, QuietOwner
  <1>5. CASE TickWrites
    BY <1>5, TickOwner
  <1>6. CASE Restart
    BY <1>6, RestartOwner
  <1> QED
    BY <1>1, <1>2, <1>3, <1>4, <1>5, <1>6 DEF Next, Tick, Send, Answer

\* Two lanes never have shares of one token, held or being bought, until a claim may have
\* been let go early (claim, release and restore_ownership of control.rs and lanes.rs).
THEOREM OwnerCorrect == Spec => []OneLanePerToken
  <1>1. Init => TypeInv /\ OwnerInv
    BY InitType, InitOwner
  <1>2. TypeInv /\ OwnerInv /\ [Next]_vars => (TypeInv /\ OwnerInv)'
    BY NextType, NextOwner
  <1>3. OwnerInv => OneLanePerToken
    BY DEF OwnerInv, OneLanePerToken, OutOf
  <1> QED
    BY <1>1, <1>2, <1>3, PTL DEF Spec

=============================================================================

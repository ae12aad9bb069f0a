------------------------------ MODULE RestsProofs -------------------------------
(* What is given back of a rest is dead, proved for any number of rests, any *)
(* size, any cap of a lane and any number of crashes; and what the sweep     *)
(* takes for his cancellation is one, proved for any sockets, any sizes and  *)
(* any number of frames.                                                     *)
EXTENDS Rests, Watch, Sums, SequenceTheorems

\* A batch of the sweep or of his exit, and one of the reconciliation with what it read.
Batches ==
  [at : {"idle", "cancel", "settle"}, ids : SUBSET Orders] \cup
  [at : {"rows", "settle"}, ids : SUBSET Orders, rows : SUBSET Orders]
Verdicts == [v : {"none", "unknown", "final"}, n : 0..Size, own : BOOLEAN]
\* The ranges of the variables.
Typed ==
  /\ venue \in [Orders -> {"none", "live", "gone"}] /\ filled \in [Orders -> 0..Size]
  /\ sub \in [Orders -> {"idle", "posting", "done"}]
  /\ book \in [Orders -> {"no", "own", "adopted"}]
  /\ stale \subseteq Orders /\ lane \in Flags
  /\ task \in [Tasks -> Batches] /\ verdict \in [Tasks -> [Orders -> Verdicts]]
  /\ released \in [Orders -> Nat] /\ settling \subseteq Orders
\* An order is claimed by the one task that asks about it.
Claimed ==
  /\ \A o \in Orders : o \in settling <=> \E t \in Tasks : verdict[t][o] # NoVerdict
  /\ \A o \in Orders : \A t, s \in Tasks :
       verdict[t][o] # NoVerdict /\ verdict[s][o] # NoVerdict => t = s
\* What is in the book, or was listed, has been placed; what works is not full.
Placed ==
  /\ \A o \in Orders : sub[o] = "idle" <=> venue[o] = "none"
  /\ \A o \in Orders : book[o] # "no" => venue[o] # "none"
  /\ task["recon"].at = "idle" \/ "rows" \in DOMAIN task["recon"]
  /\ \A o \in Orders :
       "rows" \in DOMAIN task["recon"] /\ o \in task["recon"].rows => venue[o] # "none"
  /\ \A o \in Orders : venue[o] # "gone" => filled[o] < Size
\* A verdict is of an order that works no more, and says what it has filled.
Final ==
  \A t \in Tasks, o \in Orders :
    verdict[t][o].v = "final" => venue[o] = "gone" /\ verdict[t][o].n = filled[o]
\* What is in the book as the engine's own, or asked about as such, was answered and not
\* given back yet.
GivenOnce ==
  /\ \A o \in Orders : released[o] > 0 =>
       sub[o] = "done" /\ venue[o] = "gone" /\ released[o] <= Size - filled[o]
  /\ \A o \in Orders : book[o] = "own" => sub[o] = "done" /\ released[o] = 0
  /\ \A t \in Tasks, o \in Orders : verdict[t][o].own => sub[o] = "done" /\ released[o] = 0
\* The strengthening of the type invariant, and of the property.
TInv == Typed /\ Claimed
RInv == TInv /\ Placed /\ ("blind" \notin Perils => Final /\ GivenOnce)

-----------------------------------------------------------------------------
(* The steps of a settlement.                                                *)

\* Taking an order off a batch leaves a batch.
LEMMA DoneBatch ==
  ASSUME task \in [Tasks -> Batches], NEW t \in Tasks, NEW o \in Orders
  PROVE /\ Done(t, o) \in [Tasks -> Batches]
        /\ \A s \in Tasks \ {t} : Done(t, o)[s] = task[s]
        /\ t = "recon" => /\ DOMAIN Done(t, o)["recon"] = DOMAIN task["recon"]
                          /\ Done(t, o)["recon"].at = task["recon"].at
                          /\ "rows" \in DOMAIN task["recon"] =>
                               Done(t, o)["recon"].rows = task["recon"].rows
  <1>1. task[t] \in Batches
    OBVIOUS
  <1> DEFINE b == [task[t] EXCEPT !.ids = task[t].ids \ {o}]
  <1>2. /\ b \in Batches /\ DOMAIN b = DOMAIN task[t] /\ b.at = task[t].at
        /\ "rows" \in DOMAIN task[t] => b.rows = task[t].rows
    BY <1>1 DEF Batches
  <1>3. Idle \in Batches
    BY DEF Idle, Batches
  <1>4. Done(t, o) = [task EXCEPT ![t] =
                       IF t # "recon" /\ task[t].ids \ {o} = {} THEN Idle ELSE b]
    BY DEF Done
  <1> HIDE DEF b
  <1> QED
    BY <1>2, <1>3, <1>4

\* Asking claims an order nobody else has claimed.
LEMMA AskStep ==
  ASSUME TInv, Placed, NEW t \in Tasks, NEW o \in Orders, NEW v \in Asked(o), SettleAsks(t, o, v)
  PROVE TInv'
  <1> DEFINE w == [v EXCEPT !.own = book[o] = "own"]
  <1> USE DEF TInv
  <1>1. v \in Verdicts /\ v # NoVerdict /\ v.v # "none"
    <2>1. v \in {Unknown, Verdict(filled[o])}
      BY DEF Asked, StatusOf, TradesOf
    <2>2. filled[o] \in 0..Size /\ 0 \in 0..Size
      BY RestsAssumption DEF Typed
    <2> QED
      <3>1. Unknown \in Verdicts /\ Unknown # NoVerdict /\ Unknown.v # "none"
        BY <2>2 DEF Unknown, NoVerdict, Verdicts
      <3>2. /\ Verdict(filled[o]) \in Verdicts /\ Verdict(filled[o]) # NoVerdict
            /\ Verdict(filled[o]).v # "none"
        BY <2>2 DEF Verdict, NoVerdict, Verdicts
      <3> QED
        BY <2>1, <3>1, <3>2
  <1>2. w \in Verdicts /\ w.v # "none" /\ w # NoVerdict
    BY <1>1 DEF Verdicts, NoVerdict
  <1>3. /\ settling' = settling \cup {o} /\ o \notin settling
        /\ verdict' = [verdict EXCEPT ![t][o] = w]
        /\ UNCHANGED <<venue, filled, sub, book, stale, lane, task, released>>
    BY DEF SettleAsks, TryClaim, market, signs
  <1> HIDE DEF w
  <1>4. /\ verdict' \in [Tasks -> [Orders -> Verdicts]] /\ verdict'[t][o] = w
        /\ \A s \in Tasks, p \in Orders :
             s # t \/ p # o => verdict'[s][p] = verdict[s][p]
    BY <1>2, <1>3 DEF Typed
  <1>5. Typed'
    BY <1>3, <1>4 DEF Typed
  <1>6. Claimed'
    BY <1>2, <1>3, <1>4 DEF Claimed, Typed
  <1> QED
    BY <1>5, <1>6

\* Applying what was learnt ends the claim.
LEMMA EndStep ==
  ASSUME TInv, NEW t \in Tasks, NEW o \in Orders, SettleEnds(t, o)
  PROVE /\ TInv'
        /\ \A p \in Orders : p # o => book'[p] = book[p] /\ released'[p] = released[p]
        /\ verdict[t][o].v # "final" => UNCHANGED <<book, released>>
        /\ verdict[t][o].v = "final" =>
             book'[o] = "no" /\ released'[o] = released[o] + GivenBack(o, verdict[t][o])
        /\ verdict'[t][o] = NoVerdict
        /\ \A s \in Tasks, p \in Orders :
             s # t \/ p # o => verdict'[s][p] = verdict[s][p]
        /\ UNCHANGED <<venue, filled, sub>> /\ task' = Done(t, o)
        /\ \A s \in Tasks : verdict'[s][o] = NoVerdict
  <1> USE DEF TInv
  <1> DEFINE v == verdict[t][o]
  <1>1. v \in Verdicts /\ v # NoVerdict
    BY DEF Typed, SettleEnds
  <1>2. /\ IF v.v = "final"
           THEN /\ book' = [book EXCEPT ![o] = "no"]
                /\ released' = [released EXCEPT ![o] = @ + GivenBack(o, v)]
           ELSE UNCHANGED <<book, released>>
        /\ settling' = settling \ {o}
        /\ verdict' = [verdict EXCEPT ![t][o] = NoVerdict]
        /\ task' = Done(t, o)
        /\ UNCHANGED <<venue, filled, sub, stale, lane>>
    BY DEF SettleEnds, market, signs
  <1>3. GivenBack(o, v) \in Nat
    BY <1>1, RestsAssumption DEF GivenBack, Verdicts
  <1>4. NoVerdict \in Verdicts
    BY RestsAssumption DEF NoVerdict, Verdicts
  <1> HIDE DEF v
  <1>5. /\ verdict' \in [Tasks -> [Orders -> Verdicts]] /\ verdict'[t][o] = NoVerdict
        /\ \A s \in Tasks, p \in Orders :
             s # t \/ p # o => verdict'[s][p] = verdict[s][p]
    BY <1>2, <1>4 DEF Typed
  <1>6. task' \in [Tasks -> Batches]
    BY <1>2, DoneBatch DEF Typed
  <1>7. Typed'
    BY <1>2, <1>3, <1>5, <1>6 DEF Typed
  <1>8. \A s \in Tasks : verdict'[s][o] = NoVerdict
    BY <1>1, <1>5 DEF Claimed, v
  <1>9. Claimed'
    BY <1>2, <1>5, <1>8 DEF Claimed, Typed
  <1> QED
    BY <1>2, <1>5, <1>7, <1>8, <1>9 DEF v, Typed

-----------------------------------------------------------------------------
(* The steps of the others.                                                  *)

\* What moves an order, the book or the signs and leaves the claims alone.
LEMMA SameClaims ==
  ASSUME Claimed, UNCHANGED <<settling, verdict>>
  PROVE Claimed'
  BY DEF Claimed

\* The strengthened type invariant holds along every step.
LEMMA TypedStep == TInv /\ Placed /\ [Next]_vars => TInv'
  <1> SUFFICES ASSUME TInv, Placed, [Next]_vars PROVE TInv'
    OBVIOUS
  <1> USE DEF TInv
  <1>1. ASSUME NEW o \in Orders, Place(o) PROVE TInv'
    BY <1>1, SameClaims DEF Place, Typed, memory, signs
  <1>2. ASSUME NEW o \in Orders, Answer(o) PROVE TInv'
    <2>1. CASE AnswerResting(o)
      BY <2>1, SameClaims DEF AnswerResting, Typed, market, signs
    <2>2. CASE AnswerOther(o)
      BY <2>2, SameClaims DEF AnswerOther, Typed, market, memory, signs
    <2> QED
      BY <1>2, <2>1, <2>2 DEF Answer
  <1>3. ASSUME NEW o \in Orders, Trade(o) PROVE TInv'
    <2>1. filled[o] + 1 \in 0..Size
      BY <1>3, RestsAssumption DEF Trade, Live, Typed, Placed
    <2>2. filled' = [filled EXCEPT ![o] = filled[o] + 1] /\ filled' \in [Orders -> 0..Size]
      BY <1>3, <2>1 DEF Trade, Typed
    <2>3. venue' \in [Orders -> {"none", "live", "gone"}]
      BY <1>3 DEF Trade, Typed
    <2> QED
      BY <1>3, <2>2, <2>3, SameClaims DEF Trade, Typed, memory, signs
  <1>4. ASSUME NEW o \in Orders, Age(o) PROVE TInv'
    BY <1>4, SameClaims DEF Age, Typed, market, memory
  <1>5. ASSUME NEW flags \in Flags, Steer(flags) PROVE TInv'
    BY <1>5, SameClaims DEF Steer, Typed, market, memory
  <1>6. ASSUME NEW b, b \in Batches, NEW t \in Tasks, task' = [task EXCEPT ![t] = b],
               UNCHANGED <<filled, sub, book, settling, verdict, stale, lane, released>>,
               venue' \in [Orders -> {"none", "live", "gone"}]
        PROVE TInv'
    BY <1>6, SameClaims DEF Typed
  <1>7. ASSUME NEW taker \in BOOLEAN, HeExits(taker) PROVE TInv'
    <2> DEFINE ids == IF taker THEN Booked ELSE Booked \cap Buys
    <2>1. [at |-> "cancel", ids |-> ids] \in Batches
      BY DEF Batches, Booked
    <2>2. task' = [task EXCEPT !["exit"] = [at |-> "cancel", ids |-> ids]]
      BY <1>7 DEF HeExits
    <2> HIDE DEF ids
    <2> QED
      BY <1>6, <1>7, <2>1, <2>2 DEF HeExits, Tasks, Typed, market, signs
  <1>8. ASSUME NEW t \in Tasks, NEW hit \in SUBSET Orders, NEW answered \in BOOLEAN,
               Cancel(t, hit, answered)
        PROVE TInv'
    <2> DEFINE done == CancelSaysDone(task[t].ids, hit)
               b == IF answered /\ done # {} THEN [at |-> "settle", ids |-> done] ELSE Idle
    <2>1. task[t].ids \subseteq Orders
      BY DEF Typed, Batches
    <2>2. b \in Batches
      BY <2>1 DEF Batches, Idle, CancelSaysDone
    <2>3. task' = [task EXCEPT ![t] = b]
      BY <1>8 DEF Cancel
    <2>4. venue' \in [Orders -> {"none", "live", "gone"}]
      BY <1>8 DEF Cancel, Typed
    <2> HIDE DEF b
    <2> QED
      BY <1>6, <1>8, <2>2, <2>3, <2>4 DEF Cancel, signs
  <1>9. ASSUME NEW t \in Tasks, NEW o \in Orders, Passes(t, o) PROVE TInv'
    <2>1. task' \in [Tasks -> Batches]
      BY <1>9, DoneBatch DEF Passes, Typed
    <2> QED
      BY <1>9, <2>1, SameClaims DEF Passes, Typed, market, signs
  <1>10. ASSUME NEW t \in Tasks, NEW o \in Orders, Asks(t, o) PROVE TInv'
    BY <1>10, AskStep DEF Asks
  <1>11. ASSUME NEW t \in Tasks, NEW o \in Orders, SettleEnds(t, o) PROVE TInv'
    BY <1>11, EndStep
  <1>12. CASE SweepPlans
    <2>1. [at |-> "cancel", ids |-> Doomed] \in Batches
      BY DEF Batches, Doomed, Booked, OverCap
    <2> QED
      BY <1>6, <1>12, <2>1 DEF SweepPlans, Tasks, Typed, market, signs
  <1>13. CASE ReconReads
    <2>1. [at |-> "rows", ids |-> {}, rows |-> Live] \in Batches
      BY DEF Batches, Live
    <2> QED
      BY <1>6, <1>13, <2>1 DEF ReconReads, Tasks, Typed, market, signs
  <1>14. CASE ReconPlans
    <2> DEFINE rows == task["recon"].rows
               missing == Booked \ rows
               b == IF rows = {} /\ Booked # {} THEN Idle
                    ELSE [at |-> "settle", ids |-> IF Plausible(missing) THEN missing ELSE {},
                          rows |-> rows]
    <2>1. rows \in SUBSET Orders
      BY <1>14 DEF ReconPlans, Typed, Batches, Tasks
    <2>2. b \in Batches
      BY <2>1 DEF Batches, Idle, Booked
    <2>3. task' = [task EXCEPT !["recon"] = b]
      BY <1>14 DEF ReconPlans
    <2> HIDE DEF b
    <2> QED
      BY <1>6, <1>14, <2>2, <2>3 DEF ReconPlans, Tasks, Typed, market, signs
  <1>15. CASE ReconAdopts
    <2>1. Idle \in Batches
      BY DEF Batches, Idle
    <2>2. /\ book' \in [Orders -> {"no", "own", "adopted"}] /\ task' \in [Tasks -> Batches]
      BY <1>15, <2>1 DEF ReconAdopts, Typed
    <2> QED
      BY <1>15, <2>2, SameClaims DEF ReconAdopts, Typed, market, signs
  <1>16. CASE Crash
    <2>1. /\ task' \in [Tasks -> Batches]
          /\ \A t \in Tasks, o \in Orders : verdict'[t][o] = NoVerdict
          /\ verdict' \in [Tasks -> [Orders -> Verdicts]]
      BY <1>16, RestsAssumption DEF Crash, Batches, Idle, NoVerdicts, NoVerdict, Verdicts
    <2>2. settling' = {} /\ book' \in [Orders -> {"no", "own", "adopted"}]
          /\ sub' \in [Orders -> {"idle", "posting", "done"}]
      BY <1>16 DEF Crash, Typed
    <2>3. Typed'
      BY <1>16, <2>1, <2>2 DEF Crash, Typed, market, signs
    <2>4. Claimed'
      BY <2>1, <2>2 DEF Claimed
    <2> QED
      BY <2>3, <2>4
  <1>17. CASE Boot
    BY <1>17, SameClaims DEF Boot, Typed, market, memory, signs
  <1>18. CASE UNCHANGED vars
    BY <1>18, SameClaims DEF vars, Typed, market, memory, signs
  <1> QED
    BY <1>1, <1>2, <1>3, <1>4, <1>5, <1>7, <1>8, <1>9, <1>10, <1>11, <1>12, <1>13, <1>14,
       <1>15, <1>16, <1>17, <1>18 DEF Next, Cancels, Settles, Recon

\* What is listed, booked or answered has been placed, and stays so.
LEMMA PlacedStep == TInv /\ Placed /\ [Next]_vars => Placed'
  <1> SUFFICES ASSUME Typed, Claimed, Placed, [Next]_vars PROVE Placed'
    BY DEF TInv
  <1>1. ASSUME NEW o \in Orders, Place(o) PROVE Placed'
    BY <1>1, RestsAssumption DEF Place, Placed, Typed, memory, signs
  <1>2. ASSUME NEW o \in Orders, Answer(o) PROVE Placed'
    BY <1>2 DEF Answer, AnswerResting, AnswerOther, Placed, Typed, market, memory, signs
  <1>3. ASSUME NEW o \in Orders, Trade(o) PROVE Placed'
    <2>1. filled[o] + 1 \in 0..Size /\ filled'[o] = filled[o] + 1
      BY <1>3, RestsAssumption DEF Trade, Live, Typed, Placed
    <2>2. \A p \in Orders : p # o => filled'[p] = filled[p] /\ venue'[p] = venue[p]
      BY <1>3 DEF Trade, Typed
    <2>3. venue'[o] = IF filled'[o] = Size THEN "gone" ELSE "live"
      BY <1>3 DEF Trade, Live, Typed
    <2>4. UNCHANGED <<sub, book, task>> /\ venue[o] = "live"
      BY <1>3 DEF Trade, Live, memory
    <2> QED
      BY <2>1, <2>2, <2>3, <2>4, RestsAssumption DEF Placed
  <1>4. ASSUME NEW t \in Tasks, NEW hit \in SUBSET Orders, NEW answered \in BOOLEAN,
               Cancel(t, hit, answered)
        PROVE Placed'
    <2>1. \A o \in Orders : venue'[o] # venue[o] => venue[o] = "live" /\ venue'[o] = "gone"
      BY <1>4 DEF Cancel, Live
    <2>2. \A s \in Tasks : s # t => task'[s] = task[s]
      BY <1>4 DEF Cancel, Typed
    <2>3. UNCHANGED <<filled, sub, book>>
      BY <1>4 DEF Cancel
    <2>4. task'["recon"] = task["recon"]
      <3>1. t # "recon"
        <4>1. task[t].at = "cancel" /\ task[t] \in Batches
          BY <1>4 DEF Cancel, Typed
        <4> QED
          BY <4>1 DEF Batches, Placed
      <3> QED
        BY <2>2, <3>1 DEF Tasks
    <2> QED
      BY <2>1, <2>3, <2>4 DEF Placed
  <1>5. ASSUME NEW t \in Tasks, NEW o \in Orders, Passes(t, o) PROVE Placed'
    <2>1. UNCHANGED <<venue, filled, sub, book>> /\ task' = Done(t, o)
      BY <1>5 DEF Passes, market
    <2>2. /\ DOMAIN task'["recon"] = DOMAIN task["recon"]
          /\ task'["recon"].at = task["recon"].at
          /\ "rows" \in DOMAIN task["recon"] => task'["recon"].rows = task["recon"].rows
      <3>1. CASE t = "recon"
        BY <2>1, <3>1, DoneBatch DEF Typed
      <3>2. CASE t # "recon"
        BY <2>1, <3>2, DoneBatch DEF Typed, Tasks
      <3> QED
        BY <3>1, <3>2
    <2> QED
      BY <2>1, <2>2 DEF Placed
  <1>6. ASSUME NEW t \in Tasks, NEW o \in Orders, Asks(t, o) PROVE Placed'
    BY <1>6 DEF Asks, SettleAsks, Placed, market
  <1>7. ASSUME NEW t \in Tasks, NEW o \in Orders, SettleEnds(t, o) PROVE Placed'
    <2>1. UNCHANGED <<venue, filled, sub>> /\ task' = Done(t, o)
          /\ \A p \in Orders : book'[p] \in {book[p], "no"}
      BY <1>7, EndStep DEF TInv
    <2>2. /\ DOMAIN task'["recon"] = DOMAIN task["recon"]
          /\ task'["recon"].at = task["recon"].at
          /\ "rows" \in DOMAIN task["recon"] => task'["recon"].rows = task["recon"].rows
      <3>1. CASE t = "recon"
        BY <2>1, <3>1, DoneBatch DEF Typed
      <3>2. CASE t # "recon"
        BY <2>1, <3>2, DoneBatch DEF Typed, Tasks
      <3> QED
        BY <3>1, <3>2
    <2> QED
      BY <2>1, <2>2 DEF Placed
  <1>8. CASE SweepPlans
    BY <1>8 DEF SweepPlans, Placed, Typed, Tasks, market
  <1>9. ASSUME NEW taker \in BOOLEAN, HeExits(taker) PROVE Placed'
    BY <1>9 DEF HeExits, Placed, Typed, Tasks, market
  <1>10. CASE ReconReads
    <2>1. task'["recon"] = [at |-> "rows", ids |-> {}, rows |-> Live]
      BY <1>10 DEF ReconReads, Typed, Tasks
    <2>2. UNCHANGED <<venue, filled, sub, book>>
      BY <1>10 DEF ReconReads, market
    <2> QED
      BY <2>1, <2>2 DEF Placed, Live
  <1>11. CASE ReconPlans
    <2>1. /\ "rows" \in DOMAIN task["recon"]
          /\ "rows" \in DOMAIN task'["recon"] => task'["recon"].rows = task["recon"].rows
          /\ task'["recon"].at = "idle" \/ "rows" \in DOMAIN task'["recon"]
      BY <1>11 DEF ReconPlans, Typed, Tasks, Batches, Idle
    <2>2. UNCHANGED <<venue, filled, sub, book>>
      BY <1>11 DEF ReconPlans, market
    <2> QED
      BY <2>1, <2>2 DEF Placed
  <1>12. CASE ReconAdopts
    <2>1. task'["recon"] = Idle
      BY <1>12 DEF ReconAdopts, Typed, Tasks
    <2>2. /\ "rows" \in DOMAIN task["recon"]
          /\ \A o \in Orders : book'[o] = book[o] \/ o \in task["recon"].rows
      <3>1. task["recon"].at = "settle"
        BY <1>12 DEF ReconAdopts
      <3>2. \A o \in Orders : book'[o] = book[o] \/ o \in task["recon"].rows
        BY <1>12 DEF ReconAdopts, Adoptable, Typed
      <3> QED
        BY <3>1, <3>2 DEF Placed
    <2>3. UNCHANGED <<venue, filled, sub>>
      BY <1>12 DEF ReconAdopts, market
    <2> QED
      BY <2>1, <2>2, <2>3 DEF Placed, Idle
  <1>13. CASE Crash
    BY <1>13 DEF Crash, Placed, Typed, Tasks, Idle, market
  <1>14. CASE UNCHANGED <<market, sub, book, task>>
    BY <1>14 DEF Placed, market
  <1>15. ASSUME NEW o \in Orders, Age(o) PROVE Placed'
    BY <1>14, <1>15 DEF Age, memory
  <1>16. ASSUME NEW flags \in Flags, Steer(flags) PROVE Placed'
    BY <1>14, <1>16 DEF Steer, memory
  <1>17. CASE Boot
    BY <1>14, <1>17 DEF Boot, memory
  <1>18. CASE UNCHANGED vars
    BY <1>14, <1>18 DEF vars, memory
  <1> QED
    BY <1>1, <1>2, <1>3, <1>4, <1>5, <1>6, <1>7, <1>8, <1>9, <1>10, <1>11, <1>12, <1>13,
       <1>15, <1>16, <1>17, <1>18 DEF Next, Cancels, Settles, Recon

-----------------------------------------------------------------------------
(* What is given back.                                                       *)

\* A step that neither settles nor answers, and fills or cancels only what works, leaves
\* what is known and what was given back.
LEMMA MarketStep ==
  ASSUME Typed, Placed, Final, GivenOnce, UNCHANGED <<verdict, released>>,
         \A o \in Orders : book'[o] = "own" => book[o] = "own",
         \A o \in Orders : sub[o] = "done" => sub'[o] = "done",
         \A o \in Orders : venue[o] = "gone" => venue'[o] = "gone" /\ filled'[o] = filled[o]
  PROVE Final' /\ GivenOnce'
  BY DEF Final, GivenOnce

\* When nobody is asked what was filled of an order that works, what is known is final, and
\* what is given back was not given back before.
LEMMA GivenStep ==
  "blind" \notin Perils /\ TInv /\ Placed /\ Final /\ GivenOnce /\ [Next]_vars =>
    Final' /\ GivenOnce'
  <1> SUFFICES ASSUME "blind" \notin Perils, Typed, Claimed, Placed, Final, GivenOnce, [Next]_vars
               PROVE Final' /\ GivenOnce'
    BY DEF TInv
  <1> DEFINE Goal == Final' /\ GivenOnce'
  <1>1. ASSUME NEW o \in Orders, Place(o) PROVE Goal
    <2>1. \A p \in Orders : (sub[p] = "done" => sub'[p] = "done")
                         /\ (venue[p] = "gone" => venue'[p] = "gone")
      BY <1>1 DEF Place, Placed, Typed
    <2>2. UNCHANGED <<verdict, released, book, filled>>
      BY <1>1 DEF Place, memory
    <2> QED
      BY <2>1, <2>2, MarketStep
  <1>2. ASSUME NEW o \in Orders, AnswerResting(o) PROVE Goal
    <2>1. released[o] = 0 /\ sub[o] # "done"
      BY <1>2 DEF AnswerResting, GivenOnce, Typed
    <2>2. /\ UNCHANGED <<verdict, released, venue, filled>>
          /\ \A p \in Orders : p # o => sub'[p] = sub[p] /\ book'[p] = book[p]
          /\ sub'[o] = "done"
      BY <1>2 DEF AnswerResting, Typed, market
    <2> QED
      BY <2>1, <2>2 DEF Final, GivenOnce
  <1>3. ASSUME NEW o \in Orders, AnswerOther(o) PROVE Goal
    <2>1. UNCHANGED <<verdict, released, venue, filled, book>>
          /\ \A p \in Orders : sub[p] = "done" => sub'[p] = "done"
      BY <1>3 DEF AnswerOther, Typed, market, memory
    <2> QED
      BY <2>1, MarketStep
  <1>4. ASSUME NEW o \in Orders, Trade(o) PROVE Goal
    <2>1. \A p \in Orders : venue[p] = "gone" => venue'[p] = "gone" /\ filled'[p] = filled[p]
      BY <1>4 DEF Trade, Live, Typed
    <2>2. UNCHANGED <<verdict, released, sub, book>>
      BY <1>4 DEF Trade, memory
    <2> QED
      BY <2>1, <2>2, MarketStep
  <1>5. ASSUME NEW t \in Tasks, NEW hit \in SUBSET Orders, NEW answered \in BOOLEAN,
               Cancel(t, hit, answered)
        PROVE Goal
    <2>1. \A p \in Orders : venue[p] = "gone" => venue'[p] = "gone"
      BY <1>5 DEF Cancel
    <2>2. UNCHANGED <<verdict, released, sub, book, filled>>
      BY <1>5 DEF Cancel
    <2> QED
      BY <2>1, <2>2, MarketStep
  <1>6. CASE /\ UNCHANGED <<verdict, released, sub, market>>
             /\ \A p \in Orders : book'[p] # book[p] => book'[p] # "own"
    BY <1>6, MarketStep DEF market
  <1>7. ASSUME NEW t \in Tasks, NEW o \in Orders, NEW v \in Asked(o), SettleAsks(t, o, v)
        PROVE Goal
    <2> DEFINE w == [v EXCEPT !.own = book[o] = "own"]
    <2>1. /\ UNCHANGED <<released, sub, book, venue, filled>> /\ book[o] # "no"
          /\ verdict' = [verdict EXCEPT ![t][o] = w]
      BY <1>7 DEF SettleAsks, Booked, market
    <2>2. venue[o] # "none"
      BY <2>1 DEF Placed
    <2>3. v.v = "final" => venue[o] = "gone" /\ v.n = filled[o]
      <3>1. CASE venue[o] = "live"
        <4>1. v = Unknown
          BY <1>7, <3>1 DEF Asked, StatusOf, Live
        <4> QED
          BY <4>1 DEF Unknown
      <3>2. CASE venue[o] = "gone"
        <4>1. v = Unknown \/ v = Verdict(filled[o])
          BY DEF Asked, StatusOf, TradesOf
        <4> QED
          BY <3>2, <4>1 DEF Unknown, Verdict
      <3> QED
        BY <2>2, <3>1, <3>2 DEF Typed
    <2>4. /\ w.v = "final" => venue[o] = "gone" /\ w.n = filled[o]
          /\ w.own => book[o] = "own"
      <3>1. v = Unknown \/ v = Verdict(filled[o])
        BY DEF Asked, StatusOf, TradesOf
      <3> QED
        BY <2>3, <3>1 DEF Unknown, Verdict
    <2> HIDE DEF w
    <2>5. /\ verdict'[t][o] = w
          /\ \A s \in Tasks, p \in Orders :
               s # t \/ p # o => verdict'[s][p] = verdict[s][p]
      BY <2>1 DEF Typed
    <2>6. Final'
      BY <2>1, <2>4, <2>5 DEF Final
    <2>7. GivenOnce'
      BY <2>1, <2>4, <2>5 DEF GivenOnce
    <2> QED
      BY <2>6, <2>7
  <1>8. ASSUME NEW t \in Tasks, NEW o \in Orders, SettleEnds(t, o) PROVE Goal
    <2> DEFINE v == verdict[t][o]
    <2>1. /\ \A p \in Orders : p # o => book'[p] = book[p] /\ released'[p] = released[p]
          /\ v.v # "final" => UNCHANGED <<book, released>>
          /\ v.v = "final" => book'[o] = "no" /\ released'[o] = released[o] + GivenBack(o, v)
          /\ \A s \in Tasks, p \in Orders :
               s # t \/ p # o => verdict'[s][p] = verdict[s][p]
          /\ UNCHANGED <<venue, filled, sub>>
          /\ \A s \in Tasks : verdict'[s][o] = NoVerdict
      BY <1>8, EndStep DEF TInv
    <2>2. v.v = "final" => venue[o] = "gone" /\ v.n = filled[o]
      BY DEF Final
    <2>3. /\ v.own => sub[o] = "done" /\ released[o] = 0
          /\ released[o] \in Nat /\ Size \in Nat /\ filled[o] \in 0..Size
      BY RestsAssumption DEF GivenOnce, Typed
    <2>4. \A s \in Tasks : verdict'[s][o].v # "final" /\ verdict'[s][o].own = FALSE
      BY <2>1 DEF NoVerdict
    <2>5. Final'
      BY <2>1, <2>4 DEF Final
    <2>6. released'[o] > 0 =>
            sub[o] = "done" /\ venue[o] = "gone" /\ released'[o] <= Size - filled[o]
      <3>1. CASE v.v = "final" /\ v.own
        BY <2>1, <2>2, <2>3, <3>1 DEF GivenBack
      <3>2. CASE ~(v.v = "final" /\ v.own)
        <4>1. released'[o] = released[o]
          BY <2>1, <2>3, <3>2 DEF GivenBack
        <4> QED
          BY <4>1 DEF GivenOnce
      <3> QED
        BY <3>1, <3>2
    <2>7. book'[o] = "own" => book[o] = "own" /\ released'[o] = released[o]
      BY <2>1
    <2> HIDE DEF v
    <2>8. GivenOnce'
      BY <2>1, <2>4, <2>6, <2>7 DEF GivenOnce
    <2> QED
      BY <2>5, <2>8
  <1>9. CASE Crash
    <2>1. \A t \in Tasks, o \in Orders : verdict'[t][o] = NoVerdict
      BY <1>9 DEF Crash, NoVerdicts
    <2>2. /\ UNCHANGED <<venue, filled, released>>
          /\ \A o \in Orders : book'[o] = "no"
          /\ \A o \in Orders : sub[o] = "done" => sub'[o] = "done"
      BY <1>9 DEF Crash, market
    <2>3. \A t \in Tasks, o \in Orders : verdict'[t][o].v # "final" /\ verdict'[t][o].own = FALSE
      BY <2>1 DEF NoVerdict
    <2> QED
      BY <2>2, <2>3 DEF Final, GivenOnce
  <1>10. ASSUME NEW t \in Tasks, NEW o \in Orders, Passes(t, o) PROVE Goal
    BY <1>6, <1>10 DEF Passes
  <1>11. CASE SweepPlans
    BY <1>6, <1>11 DEF SweepPlans
  <1>12. ASSUME NEW taker \in BOOLEAN, HeExits(taker) PROVE Goal
    BY <1>6, <1>12 DEF HeExits
  <1>13. CASE ReconReads
    BY <1>6, <1>13 DEF ReconReads
  <1>14. CASE ReconPlans
    BY <1>6, <1>14 DEF ReconPlans
  <1>15. CASE ReconAdopts
    <2>1. \A o \in Orders : book'[o] # book[o] => book'[o] = "adopted"
      BY <1>15 DEF ReconAdopts
    <2> QED
      BY <1>6, <1>15, <2>1 DEF ReconAdopts
  <1>16. ASSUME NEW o \in Orders, Age(o) PROVE Goal
    BY <1>6, <1>16 DEF Age, memory
  <1>17. ASSUME NEW flags \in Flags, Steer(flags) PROVE Goal
    BY <1>6, <1>17 DEF Steer, memory
  <1>18. CASE Boot
    BY <1>6, <1>18 DEF Boot, memory
  <1>19. CASE UNCHANGED vars
    BY <1>6, <1>19 DEF vars, memory
  <1> QED
    BY <1>1, <1>2, <1>3, <1>4, <1>5, <1>7, <1>8, <1>9, <1>10, <1>11, <1>12, <1>13, <1>14,
       <1>15, <1>16, <1>17, <1>18, <1>19 DEF Next, Answer, Asks, Cancels, Settles, Recon

\* A life begins with an empty book.
LEMMA InitRests == Init => RInv
  <1> SUFFICES ASSUME Init PROVE RInv
    OBVIOUS
  <1> USE RestsAssumption
  <1>1. Typed
    BY DEF Init, Typed, Idle, Batches, NoVerdicts, NoVerdict, Verdicts, Flags
  <1>2. \A t \in Tasks, o \in Orders : verdict[t][o] = NoVerdict
    BY DEF Init, NoVerdicts
  <1>3. Claimed
    BY <1>2 DEF Init, Claimed
  <1>4. Placed
    BY DEF Init, Placed, Tasks, Idle
  <1>5. Final /\ GivenOnce
    BY <1>2 DEF Init, Final, GivenOnce, NoVerdict
  <1> QED
    BY <1>1, <1>3, <1>4, <1>5 DEF RInv, TInv

\* The inductive invariant.
LEMMA RestsInvariant == Spec => []RInv
  <1>1. RInv /\ [Next]_vars => RInv'
    BY TypedStep, PlacedStep, GivenStep DEF RInv
  <1> QED
    BY InitRests, <1>1, PTL DEF Spec

\* Every variable stays within its range, and an order is claimed exactly while it is asked
\* about, for any number of rests, crashes and exits.
THEOREM RestsTypeCorrect == Spec => []TypeOK
  <1>1. RInv => TypeOK
    BY DEF RInv, TInv, Typed, Claimed, TypeOK, Batches
  <1> QED
    BY RestsInvariant, <1>1, PTL

\* What was given back of a rest, by whichever of the three tasks, is given back once and
\* of a rest that works no more: settle_cancelled_rest with its claim, over any number of
\* rests, of restarts, and of answers that come late or not at all.
THEOREM RestsReleasedIsDead == Spec => []ReleasedIsDead
  <1>1. RInv => ReleasedIsDead
    BY DEF RInv, GivenOnce, ReleasedIsDead
  <1> QED
    BY RestsInvariant, <1>1, PTL

-----------------------------------------------------------------------------
(* The evidence: what the level and the prints say of his order.             *)

Frames == [kind : {"print", "level"}, n : Nat]
Tape == Seq(Frames)
Anchors == [remaining : Int, printed : Nat, contested : BOOLEAN, ahead : Nat]

\* The ranges of the variables; some socket is up, the level was told while his order had
\* more, and an anchor without a remainder compares with nothing.
WatchRanges ==
  /\ his \in Nat /\ others \in Nat /\ cancelled \in Nat /\ othersTraded \in Nat
  /\ tape \in Tape /\ pos \in [Sockets -> Int] /\ Up # {}
  /\ \A s \in Up : pos[s] \in 0 .. Len(tape)
  /\ level \in Int /\ (level # NoLevel => level >= his) /\ alive \in BOOLEAN
  /\ printed \in Nat /\ seen \subseteq Nat
  /\ anchor \in Anchors /\ (anchor.contested \/ anchor.remaining > 0)

\* No socket has two prints of a size to come; and what another has delivered is seen.
IsPrint(i) == tape[i].kind = "print"
Windowed ==
  /\ \A s \in Up : \A i, j \in ToCome(s) :
       IsPrint(i) /\ IsPrint(j) /\ tape[i].n = tape[j].n => i = j
  /\ \A s, t \in Up : \A i \in ToCome(s) : i <= pos[t] /\ IsPrint(i) => tape[i].n \in seen

\* A level that was told is no less than his order has left; the last one is what is there,
\* and is what the caches hold in the end, unless who told them last failed before it.
Truthful ==
  /\ \A i \in DOMAIN tape : IsPrint(i) \/ tape[i].n >= his
  /\ Len(tape) > 0 => tape[Len(tape)] = LevelIs(his + others)
  /\ CaughtUp /\ level # NoLevel /\ ~unsaid => level = his + others

\* What has traded; what of it the prints were counted for; what of it came by a frame.
Total == SumFunctionOnSet(Shares, DOMAIN tape)
Told(i) == (\E s \in Up : i <= pos[s]) \/ tape[i].n \in seen
Tally == [i \in DOMAIN tape |-> IF Told(i) THEN Shares[i] ELSE 0]
Counted == SumFunctionOnSet(Tally, DOMAIN tape)
First(i) == [j \in DOMAIN tape |-> IF j <= i THEN Shares[j] ELSE 0]
Upto(i) == SumFunctionOnSet(First(i), DOMAIN tape)
\* What was counted when the rest was placed, in the tally that is kept.
Mark == Counted - printed + anchor.printed

\* What his order had left at the anchor is accounted for, by what was printed since.
Slack == his + cancelled + Total - Mark - othersTraded - anchor.remaining
Accounted ==
  anchor.remaining > 0 =>
    /\ printed >= anchor.printed
    /\ 0 <= Slack /\ Slack <= anchor.ahead
    /\ cancelled = 0 =>
         /\ \A i \in DOMAIN tape :
              IsPrint(i) \/ tape[i].n + Atleast0(Upto(i) - Mark) >= anchor.remaining
         /\ level # NoLevel => level + (printed - anchor.printed) >= anchor.remaining

WInv == WatchRanges /\ Windowed /\ Truthful /\ Accounted

-----------------------------------------------------------------------------
(* The sums.                                                                 *)

\* The values g of L + k frames are the values f of the first L, and k more.
Longer(f, g, L, k) ==
  /\ \A x \in 1 .. L : f[x] \in Int /\ g[x] = f[x]
  /\ \A x \in 1 .. (L + k) : g[x] \in Int

\* One or two frames more add their shares.
LEMMA GrowSum ==
  ASSUME NEW L \in Nat, NEW k \in {1, 2}, NEW f, NEW g, Longer(f, g, L, k)
  PROVE SumFunctionOnSet(g, 1 .. (L + k)) =
          SumFunctionOnSet(f, 1 .. L) + g[L + 1] + (IF k = 2 THEN g[L + 2] ELSE 0)
  <1> USE DEF Longer
  <1>1. IsFiniteSet(1 .. L) /\ IsFiniteSet(1 .. (L + 1))
    BY FS_Interval
  <1>2. SumFunctionOnSet(g, 1 .. L) = SumFunctionOnSet(f, 1 .. L)
    BY <1>1, SumSame
  <1>3. SumFunctionOnSet(g, 1 .. L) \in Int
    <2>1. \A x \in 1 .. L : g[x] \in Int
      OBVIOUS
    <2> QED
      BY <1>1, <2>1, SumInt
  <1>4. SumFunctionOnSet(g, 1 .. (L + 1)) = g[L + 1] + SumFunctionOnSet(g, 1 .. L)
    <2>1. 1 .. (L + 1) = (1 .. L) \cup {L + 1} /\ L + 1 \notin 1 .. L
      OBVIOUS
    <2>2. \A x \in (1 .. L) \cup {L + 1} : g[x] \in Int
      OBVIOUS
    <2> QED
      BY <1>1, <2>1, <2>2, SumAdd
  <1>5. CASE k = 1
    BY <1>2, <1>3, <1>4, <1>5
  <1>6. CASE k = 2
    <2>1. 1 .. (L + 2) = (1 .. (L + 1)) \cup {L + 2} /\ L + 2 \notin 1 .. (L + 1)
      OBVIOUS
    <2>2. \A x \in (1 .. (L + 1)) \cup {L + 2} : g[x] \in Int
      BY <1>6
    <2>3. SumFunctionOnSet(g, 1 .. (L + 2)) = g[L + 2] + SumFunctionOnSet(g, 1 .. (L + 1))
      BY <1>1, <2>1, <2>2, SumAdd
    <2>4. g[L + 1] \in Int /\ g[L + 2] \in Int
      BY <2>2
    <2> QED
      BY <1>2, <1>3, <1>4, <1>6, <2>3, <2>4
  <1> QED
    BY <1>5, <1>6

\* What is known of the frames.
LEMMA TapeFacts ==
  ASSUME NEW t \in Tape
  PROVE Len(t) \in Nat /\ DOMAIN t = 1 .. Len(t) /\ \A i \in DOMAIN t : t[i] \in Frames
  BY DEF Tape

\* What traded and what was counted are numbers of shares, one no more than the other.
LEMMA SumFacts ==
  ASSUME WatchRanges
  PROVE /\ DOMAIN tape = 1 .. Len(tape) /\ Len(tape) \in Nat /\ IsFiniteSet(DOMAIN tape)
        /\ \A i \in DOMAIN tape : /\ tape[i] \in Frames /\ tape[i].n \in Nat
                                 /\ Shares[i] \in Nat /\ Tally[i] \in Nat /\ Tally[i] <= Shares[i]
        /\ \A i \in DOMAIN tape, j \in DOMAIN tape : First(i)[j] \in Nat
        /\ Total \in Nat /\ Counted \in Nat /\ Counted <= Total
        /\ \A i \in DOMAIN tape : Upto(i) \in Nat
  <1>1. /\ DOMAIN tape = 1 .. Len(tape) /\ Len(tape) \in Nat /\ IsFiniteSet(DOMAIN tape)
        /\ \A i \in DOMAIN tape : tape[i] \in Frames /\ tape[i].n \in Nat
    <2>1. tape \in Tape
      BY DEF WatchRanges
    <2>2. /\ DOMAIN tape = 1 .. Len(tape) /\ Len(tape) \in Nat
          /\ \A i \in DOMAIN tape : tape[i] \in Frames
      BY <2>1, TapeFacts
    <2>3. IsFiniteSet(DOMAIN tape)
      <3>1. PICK L \in Nat : DOMAIN tape = 1 .. L
        BY <2>2
      <3> QED
        BY <3>1, FS_Interval
    <2>4. \A f \in Frames : f.n \in Nat
      BY DEF Frames
    <2> QED
      BY <2>2, <2>3, <2>4
  <1>2. \A i \in DOMAIN tape : /\ Shares[i] \in Nat /\ Tally[i] \in Nat
                              /\ Tally[i] <= Shares[i]
    BY <1>1 DEF Shares, Tally
  <1>3. \A i \in DOMAIN tape, j \in DOMAIN tape : First(i)[j] \in Nat
    BY <1>2 DEF First
  <1>4. Total \in Nat /\ Counted \in Nat
    BY <1>1, <1>2, SumNat DEF Total, Counted
  <1>5. Counted <= Total
    <2>1. \A i \in DOMAIN tape : Tally[i] \in Int /\ Shares[i] \in Int /\ Tally[i] <= Shares[i]
      BY <1>2
    <2> QED
      BY <1>1, <2>1, SumLe DEF Total, Counted
  <1>6. \A i \in DOMAIN tape : Upto(i) \in Nat
    BY <1>1, <1>3, SumNat DEF Upto
  <1> QED
    BY <1>1, <1>2, <1>3, <1>4, <1>5, <1>6

\* What came by a frame that a socket has read was counted; or is about to read, if the
\* frame is not a print.
LEMMA UptoCounted ==
  ASSUME WatchRanges, NEW s \in Up, NEW i \in DOMAIN tape,
         i <= pos[s] \/ (i = pos[s] + 1 /\ ~IsPrint(i))
  PROVE Upto(i) <= Counted
  <1>1. i \in Nat /\ pos[s] \in Nat
    BY SumFacts DEF WatchRanges
  <1>2. \A j \in DOMAIN tape : First(i)[j] \in Int /\ Tally[j] \in Int /\ First(i)[j] <= Tally[j]
    <2> SUFFICES ASSUME NEW j \in DOMAIN tape
                 PROVE First(i)[j] \in Int /\ Tally[j] \in Int /\ First(i)[j] <= Tally[j]
      OBVIOUS
    <2>1. j \in Nat /\ Shares[j] \in Nat /\ First(i)[j] \in Nat /\ Tally[j] \in Nat
      BY SumFacts
    <2>2. j <= i => Told(j) \/ Shares[j] = 0
      <3>1. j <= i => j <= pos[s] \/ (j = i /\ ~IsPrint(i))
        BY <1>1, <2>1
      <3> QED
        BY <3>1 DEF Told, Shares, IsPrint
    <2> QED
      BY <2>1, <2>2 DEF First, Tally
  <1>3. IsFiniteSet(DOMAIN tape)
    BY SumFacts
  <1> QED
    BY <1>2, <1>3, SumLe DEF Upto, Counted

\* Once the sockets have read everything, all that traded was counted.
LEMMA CaughtUpCounted ==
  ASSUME WatchRanges, NEW s \in Up, ToCome(s) = {} PROVE Counted = Total
  <1>1. pos[s] \in Nat /\ pos[s] = Len(tape) /\ Len(tape) \in Nat
    <2>1. pos[s] \in 0 .. Len(tape) /\ Len(tape) \in Nat
      BY SumFacts DEF WatchRanges
    <2>2. Len(tape) \in 1 .. Len(tape) => ~(Len(tape) > pos[s])
      BY DEF ToCome
    <2> QED
      BY <2>1, <2>2
  <1>2. \A j \in DOMAIN tape : Tally[j] = Shares[j]
    BY <1>1, SumFacts DEF Tally, Told
  <1>3. IsFiniteSet(DOMAIN tape)
    BY SumFacts
  <1> QED
    BY <1>2, <1>3, SumSame DEF Total, Counted

\* What was not counted is among what no socket has delivered.
LEMMA UnreadCovers ==
  ASSUME WatchRanges PROVE Unread \in Nat /\ Total - Counted <= Unread
  <1> DEFINE u == [i \in DOMAIN tape |-> IF \A s \in Up : i > pos[s] THEN Shares[i] ELSE 0]
             h == [i \in DOMAIN tape |-> Tally[i] + u[i]]
             D == DOMAIN tape
  <1>1. IsFiniteSet(D)
    BY SumFacts
  <1>2. \A i \in D : u[i] \in Nat /\ Tally[i] \in Nat /\ Shares[i] \in Nat
    BY SumFacts
  <1>3. \A i \in D : Shares[i] <= h[i] /\ h[i] = Tally[i] + u[i]
    <2> SUFFICES ASSUME NEW i \in D PROVE Shares[i] <= Tally[i] + u[i]
      OBVIOUS
    <2>1. i \in Nat /\ \A s \in Up : pos[s] \in Nat
      BY SumFacts DEF WatchRanges
    <2>2. CASE \A s \in Up : i > pos[s]
      BY <1>2, <2>2
    <2>3. CASE ~\A s \in Up : i > pos[s]
      <3>1. Tally[i] = Shares[i]
        BY <2>1, <2>3 DEF Tally, Told
      <3> QED
        BY <1>2, <3>1
    <2> QED
      BY <2>2, <2>3
  <1>4. SumFunctionOnSet(u, D) = Unread
    BY DEF Unread
  <1> HIDE DEF u, h, D
  <1>5. SumFunctionOnSet(u, D) \in Nat
    BY <1>1, <1>2, SumNat
  <1>6. SumFunctionOnSet(h, D) = SumFunctionOnSet(Tally, D) + SumFunctionOnSet(u, D)
    <2>1. \A i \in D : Tally[i] \in Int /\ u[i] \in Int /\ h[i] = Tally[i] + u[i]
      BY <1>2, <1>3
    <2> QED
      BY <1>1, <2>1, SumPlus
  <1>7. SumFunctionOnSet(Shares, D) <= SumFunctionOnSet(h, D)
    <2>1. \A i \in D : Shares[i] \in Int /\ h[i] \in Int /\ Shares[i] <= h[i]
      BY <1>2, <1>3
    <2> QED
      BY <1>1, <2>1, SumLe
  <1>8. Total = SumFunctionOnSet(Shares, D) /\ Counted = SumFunctionOnSet(Tally, D)
    BY DEF Total, Counted, D
  <1>9. Total \in Nat /\ Counted \in Nat
    BY SumFacts
  <1> QED
    BY <1>4, <1>5, <1>6, <1>7, <1>8, <1>9

-----------------------------------------------------------------------------
(* The venue.                                                                *)

\* The tape has k frames more: the print of a trade first if there are two, and last the
\* size the level has.
Adds(k, n) ==
  /\ tape' \in Tape /\ Len(tape') = Len(tape) + k
  /\ \A i \in DOMAIN tape : tape'[i] = tape[i]
  /\ k = 2 => tape'[Len(tape) + 1] = Printed(n)
  /\ tape'[Len(tape) + k] = LevelIs(his' + others')
Gain(k, n) == IF k = 2 THEN n ELSE 0

\* A move at the level adds one frame.
LEMMA AddsOne ==
  ASSUME WatchRanges, his' + others' \in Nat, tape' = Append(tape, LevelIs(his' + others'))
  PROVE  Adds(1, 0)
  <1>1. LevelIs(his' + others') \in Frames
    BY DEF LevelIs, Frames
  <1>2. \A t \in Tape, f \in Frames :
          /\ Append(t, f) \in Tape /\ Len(Append(t, f)) = Len(t) + 1
          /\ \A i \in DOMAIN t : Append(t, f)[i] = t[i]
          /\ Append(t, f)[Len(t) + 1] = f
    BY DEF Tape
  <1> QED
    BY <1>1, <1>2 DEF Adds, WatchRanges

\* A trade adds two.
LEMMA AddsTwo ==
  ASSUME WatchRanges, his' + others' \in Nat, NEW n \in Nat,
         tape' = tape \o <<Printed(n), LevelIs(his' + others')>>
  PROVE  Adds(2, n)
  <1>1. PICK a \in Frames, b \in Frames : a = Printed(n) /\ b = LevelIs(his' + others')
    BY DEF LevelIs, Printed, Frames
  <1>2. \A t \in Tape :
          /\ t \o <<a, b>> \in Tape /\ Len(t \o <<a, b>>) = Len(t) + 2
          /\ \A i \in DOMAIN t : (t \o <<a, b>>)[i] = t[i]
          /\ (t \o <<a, b>>)[Len(t) + 1] = a /\ (t \o <<a, b>>)[Len(t) + 2] = b
    <2> SUFFICES ASSUME NEW t \in Tape
                 PROVE /\ t \o <<a, b>> \in Tape /\ Len(t \o <<a, b>>) = Len(t) + 2
                       /\ \A i \in DOMAIN t : (t \o <<a, b>>)[i] = t[i]
                       /\ (t \o <<a, b>>)[Len(t) + 1] = a /\ (t \o <<a, b>>)[Len(t) + 2] = b
      OBVIOUS
    <2>1. PICK u \in Tape : u = <<a, b>> /\ Len(u) = 2 /\ u[1] = a /\ u[2] = b
      <3>1. /\ <<a, b>> \in Tape /\ Len(<<a, b>>) = 2
            /\ <<a, b>>[1] = a /\ <<a, b>>[2] = b
        BY DEF Tape
      <3> QED
        BY <3>1
    <2>2. PICK L \in Nat : L = Len(t)
      BY TapeFacts
    <2>3. /\ t \o u \in Tape /\ Len(t \o u) = L + 2
          /\ \A i \in 1 .. L + 2 : (t \o u)[i] = IF i <= L THEN t[i] ELSE u[i - L]
      BY <2>1, <2>2, ConcatProperties DEF Tape
    <2>4. L + 1 \in 1 .. L + 2 /\ L + 2 \in 1 .. L + 2 /\ (L + 1) - L = 1 /\ (L + 2) - L = 2
      OBVIOUS
    <2>5. (t \o u)[L + 1] = u[1] /\ (t \o u)[L + 2] = u[2]
      BY <2>3, <2>4
    <2>6. \A i \in 1 .. L : (t \o u)[i] = t[i]
      BY <2>3
    <2>7. DOMAIN t = 1 .. L
      BY <2>2, TapeFacts
    <2>8. /\ t \o u \in Tape /\ Len(t \o u) = Len(t) + 2
          /\ \A i \in DOMAIN t : (t \o u)[i] = t[i]
          /\ (t \o u)[Len(t) + 1] = a /\ (t \o u)[Len(t) + 2] = b
      BY <2>1, <2>2, <2>3, <2>5, <2>6, <2>7
    <2> QED
      BY <2>1, <2>8
  <1> QED
    BY <1>1, <1>2 DEF Adds, WatchRanges

\* Nothing of a new print was counted, and the earlier frames stay as they were.
LEMMA VenueSums ==
  ASSUME WatchRanges, NEW k \in {1, 2}, NEW n \in Nat, his' + others' \in Nat,
         Adds(k, n), UNCHANGED <<pos, seen>>, k = 2 => n \notin seen
  PROVE /\ Total' = Total + Gain(k, n) /\ Counted' = Counted
        /\ \A i \in DOMAIN tape : Upto(i)' = Upto(i)
        /\ Upto(Len(tape))' = Total'
  <1>1. PICK L \in Nat : L = Len(tape)
    BY SumFacts
  <1>2. /\ DOMAIN tape = 1 .. L /\ DOMAIN tape' = 1 .. (L + k)
        /\ \A i \in 1 .. L : tape'[i] = tape[i] /\ Shares[i] \in Nat /\ Tally[i] \in Nat
        /\ k = 2 => tape'[L + 1] = Printed(n)
        /\ tape'[L + k] = LevelIs(his' + others')
    BY <1>1, SumFacts, TapeFacts DEF Adds
  <1>3. Up' = Up /\ \A s \in Up : pos[s] \in Nat /\ pos[s] <= L
    BY <1>1 DEF Up, WatchRanges
  <1>4. /\ \A i \in 1 .. L : Shares'[i] = Shares[i]
        /\ Shares'[L + 1] = Gain(k, n)
        /\ k = 2 => Shares'[L + 2] = 0
    BY <1>2 DEF Shares, Printed, LevelIs, Gain
  <1>5. \A i \in 1 .. (L + k) : Shares'[i] \in Nat
    <2> SUFFICES ASSUME NEW i \in 1 .. (L + k) PROVE Shares'[i] \in Nat
      OBVIOUS
    <2>1. i \in 1 .. L \/ i = L + 1 \/ (k = 2 /\ i = L + 2)
      OBVIOUS
    <2> QED
      BY <1>2, <1>4, <2>1 DEF Gain
  <1>6. /\ \A i \in 1 .. L : Tally'[i] = Tally[i]
        /\ Tally'[L + 1] = 0
        /\ k = 2 => Tally'[L + 2] = 0
    <2>1. ASSUME NEW i \in 1 .. L PROVE Tally'[i] = Tally[i]
      BY <1>2, <1>3, <1>4 DEF Tally, Told
    <2>2. k = 2 => ~Told(L + 1)'
      BY <1>2, <1>3 DEF Told, Printed
    <2>3. Tally'[L + 1] = 0
      BY <1>2, <1>4, <2>2 DEF Tally, Gain
    <2>4. k = 2 => Tally'[L + 2] = 0
      BY <1>2, <1>4 DEF Tally
    <2> QED
      BY <2>1, <2>3, <2>4
  <1>7. Total' = Total + Gain(k, n)
    <2>1. PICK f, g : f = Shares /\ g = Shares'
      OBVIOUS
    <2>2. \A i \in 1 .. L : f[i] \in Int /\ g[i] = f[i]
      BY <1>2, <1>4, <2>1
    <2>3. \A i \in 1 .. (L + k) : g[i] \in Int
      BY <1>5, <2>1
    <2>4. SumFunctionOnSet(g, 1 .. (L + k)) =
            SumFunctionOnSet(f, 1 .. L) + g[L + 1] + (IF k = 2 THEN g[L + 2] ELSE 0)
      <3>1. Longer(f, g, L, k)
        BY <2>2, <2>3 DEF Longer
      <3> QED
        BY <3>1, GrowSum
    <2>5. Total \in Nat /\ Gain(k, n) \in Nat
      BY SumFacts DEF Gain
    <2>6. Total = SumFunctionOnSet(f, 1 .. L) /\ Total' = SumFunctionOnSet(g, 1 .. (L + k))
      BY <1>2, <2>1 DEF Total
    <2> QED
      BY <1>4, <2>1, <2>4, <2>5, <2>6
  <1>8. Counted' = Counted
    <2>1. PICK f, g : f = Tally /\ g = Tally'
      OBVIOUS
    <2>2. \A i \in 1 .. L : f[i] \in Int /\ g[i] = f[i]
      BY <1>2, <1>6, <2>1
    <2>3. \A i \in 1 .. (L + k) : g[i] \in Int
      <3> SUFFICES ASSUME NEW i \in 1 .. (L + k) PROVE g[i] \in Int
        OBVIOUS
      <3>1. i \in 1 .. L \/ i = L + 1 \/ (k = 2 /\ i = L + 2)
        OBVIOUS
      <3> QED
        BY <1>6, <2>1, <2>2, <3>1
    <2>4. SumFunctionOnSet(g, 1 .. (L + k)) =
            SumFunctionOnSet(f, 1 .. L) + g[L + 1] + (IF k = 2 THEN g[L + 2] ELSE 0)
      <3>1. Longer(f, g, L, k)
        BY <2>2, <2>3 DEF Longer
      <3> QED
        BY <3>1, GrowSum
    <2>5. Counted \in Nat
      BY SumFacts
    <2>6. Counted = SumFunctionOnSet(f, 1 .. L) /\ Counted' = SumFunctionOnSet(g, 1 .. (L + k))
      BY <1>2, <2>1 DEF Counted
    <2> QED
      BY <1>6, <2>1, <2>4, <2>5, <2>6
  <1>9. ASSUME NEW i \in DOMAIN tape PROVE Upto(i)' = Upto(i)
    <2>1. i \in 1 .. L
      BY <1>2
    <2>2. PICK f, g : f = First(i) /\ g = First(i)'
      OBVIOUS
    <2>3. \A j \in 1 .. (L + k) : g[j] = IF j <= i THEN Shares'[j] ELSE 0
      BY <1>2, <2>2 DEF First
    <2>4. \A j \in 1 .. L : f[j] \in Int /\ g[j] = f[j]
      BY <1>2, <1>4, <2>2, <2>3 DEF First
    <2>5. \A j \in 1 .. (L + k) : g[j] \in Int
      BY <1>5, <2>3
    <2>6. g[L + 1] = 0 /\ (k = 2 => g[L + 2] = 0)
      BY <2>1, <2>3
    <2>7. SumFunctionOnSet(g, 1 .. (L + k)) =
            SumFunctionOnSet(f, 1 .. L) + g[L + 1] + (IF k = 2 THEN g[L + 2] ELSE 0)
      <3>1. Longer(f, g, L, k)
        BY <2>4, <2>5 DEF Longer
      <3> QED
        BY <3>1, GrowSum
    <2>8. Upto(i) \in Nat
      BY SumFacts
    <2>9. Upto(i) = SumFunctionOnSet(f, 1 .. L) /\ Upto(i)' = SumFunctionOnSet(g, 1 .. (L + k))
      BY <1>2, <2>2 DEF Upto
    <2> QED
      BY <2>6, <2>7, <2>8, <2>9
  <1>10. Upto(Len(tape))' = Total'
    <2>1. PICK f, g, D : f = First(Len(tape))' /\ g = Shares' /\ D = 1 .. (L + k)
      OBVIOUS
    <2>2. IsFiniteSet(D)
      BY <2>1, FS_Interval
    <2>3. \A j \in D : f[j] = g[j]
      BY <1>1, <1>2, <2>1 DEF First, Adds
    <2>4. SumFunctionOnSet(f, D) = SumFunctionOnSet(g, D)
      BY <2>2, <2>3, SumSame
    <2> QED
      BY <1>2, <2>1, <2>4 DEF Upto, Total
  <1> QED
    BY <1>7, <1>8, <1>9, <1>10

\* A trade, a move or a cancellation, and its frames.
LEMMA VenueStep ==
  ASSUME WInv, NEW k \in {1, 2}, NEW n \in Nat,
         his' \in Nat, others' \in Nat, cancelled' \in Nat, othersTraded' \in Nat,
         his' + others' \in Nat, his' <= his, cancelled' = 0 => cancelled = 0,
         Adds(k, n), UNCHANGED <<pos, level, alive, printed, seen, anchor>>,
         k = 2 => n \notin seen /\ ~Underway(n),
         anchor # NoAnchor =>
           his' + cancelled' + Gain(k, n) - othersTraded' = his + cancelled - othersTraded
  PROVE  WInv'
  <1>1. PICK L \in Nat : L = Len(tape)
    BY SumFacts DEF WInv
  <1>2. /\ DOMAIN tape = 1 .. L /\ DOMAIN tape' = 1 .. (L + k) /\ Len(tape') = L + k
        /\ \A i \in 1 .. L : tape'[i] = tape[i] /\ tape[i] \in Frames
        /\ k = 2 => tape'[L + 1] = Printed(n)
        /\ tape'[L + k] = LevelIs(his' + others')
        /\ tape' \in Tape
    BY <1>1, SumFacts, TapeFacts DEF Adds, WInv
  <1>3. Up' = Up /\ Up # {} /\ \A s \in Up : pos[s] \in Nat /\ pos[s] <= L
    BY <1>1 DEF Up, WInv, WatchRanges
  <1>4. \A i \in 1 .. (L + k) : i \in 1 .. L \/ (k = 2 /\ i = L + 1) \/ i = L + k
    OBVIOUS
  <1>5. tape'[L + k].kind = "level" /\ tape'[L + k].n = his' + others'
    BY <1>2 DEF LevelIs
  <1>6. WatchRanges'
    <2>1. \A s \in Up' : pos'[s] \in 0 .. Len(tape')
      BY <1>2, <1>3
    <2>2. level' # NoLevel => level' >= his'
      BY DEF WInv, WatchRanges
    <2> QED
      BY <1>2, <1>3, <2>1, <2>2 DEF WInv, WatchRanges
  <1>7. Windowed'
    <2>1. ASSUME NEW s \in Up, NEW i \in 1 .. (L + k), NEW j \in 1 .. (L + k),
                 i > pos[s], j > pos[s], tape'[i].kind = "print", tape'[j].kind = "print",
                 tape'[i].n = tape'[j].n
          PROVE  i = j
      <3>1. ~(i = L + k) /\ ~(j = L + k)
        BY <1>5, <2>1
      <3>2. ASSUME NEW x \in 1 .. L, x > pos[s], tape'[x].kind = "print", tape'[x].n = n, k = 2
            PROVE FALSE
        <4>1. tape[x] = Printed(n)
          BY <1>2, <3>2 DEF Printed, Frames
        <4>2. x \in ToCome(s)
          BY <1>1, <3>2 DEF ToCome
        <4> QED
          BY <3>2, <4>1, <4>2 DEF Underway
      <3>3. CASE i \in 1 .. L /\ j \in 1 .. L
        <4>1. i \in ToCome(s) /\ j \in ToCome(s)
          BY <1>1, <2>1, <3>3 DEF ToCome
        <4> QED
          BY <1>2, <2>1, <3>3, <4>1 DEF WInv, Windowed, IsPrint
      <3>4. k = 2 => tape'[L + 1].n = n
        BY <1>2 DEF Printed
      <3> QED
        BY <1>4, <2>1, <3>1, <3>2, <3>3, <3>4
    <2>2. ASSUME NEW s \in Up, NEW t \in Up, NEW i \in 1 .. (L + k), i > pos[s], i <= pos[t],
                 tape'[i].kind = "print"
          PROVE  tape'[i].n \in seen
      <3>1. i \in 1 .. L
        BY <1>3, <2>2
      <3>2. i \in ToCome(s)
        BY <1>1, <2>2, <3>1 DEF ToCome
      <3> QED
        BY <1>2, <2>2, <3>1, <3>2 DEF WInv, Windowed, IsPrint
    <2> QED
      BY <1>2, <1>3, <2>1, <2>2 DEF Windowed, IsPrint, ToCome
  <1>8. Truthful'
    <2>1. ASSUME NEW i \in 1 .. (L + k) PROVE tape'[i].kind = "print" \/ tape'[i].n >= his'
      <3>1. CASE i \in 1 .. L
        <4>1. tape[i].n \in Nat
          BY <1>2, <3>1 DEF Frames
        <4>2. tape[i].kind = "print" \/ tape[i].n >= his
          BY <1>2, <3>1 DEF WInv, Truthful, IsPrint
        <4>3. his \in Nat
          BY DEF WInv, WatchRanges
        <4> QED
          BY <1>2, <3>1, <4>1, <4>2, <4>3
      <3>2. CASE k = 2 /\ i = L + 1
        BY <1>2, <3>2 DEF Printed
      <3>3. CASE i = L + k
        BY <1>5, <3>3
      <3> QED
        BY <1>4, <3>1, <3>2, <3>3
    <2>2. ~CaughtUp'
      <3>1. PICK s \in Up : pos[s] \in Nat /\ pos[s] <= L
        BY <1>3
      <3>2. L + k \in ToCome(s)'
        <4>1. L + k \in 1 .. (L + k) /\ L + k > pos[s]
          BY <3>1
        <4>2. pos' = pos /\ Len(tape') = L + k
          BY <1>2
        <4> QED
          BY <4>1, <4>2 DEF ToCome
      <3> QED
        BY <1>3, <3>2 DEF CaughtUp
    <2> QED
      BY <1>2, <2>1, <2>2 DEF Truthful, IsPrint
  <1>9. Accounted'
    <2> SUFFICES ASSUME anchor.remaining > 0 PROVE Accounted'
      BY DEF Accounted
    <2>1. anchor # NoAnchor
      BY DEF NoAnchor
    <2>2. /\ Total' = Total + Gain(k, n) /\ Counted' = Counted
          /\ \A i \in DOMAIN tape : Upto(i)' = Upto(i)
          /\ Upto(L + k)' = Total'
      <3>1. his' + others' \in Nat
        OBVIOUS
      <3>2. WatchRanges
        BY DEF WInv
      <3>3. /\ Total' = Total + Gain(k, n) /\ Counted' = Counted
            /\ \A i \in DOMAIN tape : Upto(i)' = Upto(i)
            /\ Upto(Len(tape))' = Total'
        BY <3>1, <3>2, VenueSums
      <3>4. Upto(L + k)' = Upto(Len(tape))'
        BY <1>2 DEF Upto, First
      <3> QED
        BY <3>3, <3>4
    <2>3. /\ Total \in Nat /\ Counted \in Nat /\ Gain(k, n) \in Nat
          /\ \A i \in 1 .. L : Upto(i) \in Nat
      BY <1>2, SumFacts DEF WInv, Gain
    <2>4. /\ his \in Nat /\ cancelled \in Nat /\ othersTraded \in Nat /\ printed \in Nat
          /\ anchor.remaining \in Int /\ anchor.printed \in Nat /\ anchor.ahead \in Nat
      BY DEF WInv, WatchRanges, Anchors
    <2>5. Mark' = Mark /\ Mark \in Int
      BY <2>2, <2>3, <2>4 DEF Mark
    <2>6. Slack' = Slack
      BY <2>1, <2>2, <2>3, <2>4, <2>5 DEF Slack
    <2>7. printed >= anchor.printed /\ 0 <= Slack /\ Slack <= anchor.ahead
      BY DEF WInv, Accounted
    <2>8. ASSUME cancelled' = 0, NEW i \in 1 .. (L + k), tape'[i].kind # "print"
          PROVE  tape'[i].n + Atleast0(Upto(i)' - Mark') >= anchor.remaining
      <3>1. CASE i \in 1 .. L
        <4>1. tape[i].n + Atleast0(Upto(i) - Mark) >= anchor.remaining
          BY <1>2, <2>8, <3>1 DEF WInv, Accounted, IsPrint
        <4> QED
          BY <1>2, <2>2, <2>5, <3>1, <4>1
      <3>2. CASE k = 2 /\ i = L + 1
        BY <1>2, <2>8, <3>2 DEF Printed
      <3>3. CASE i = L + k
        <4>1. 0 <= his' + Total' - Mark - othersTraded' - anchor.remaining
          BY <2>4, <2>5, <2>6, <2>7, <2>8 DEF Slack
        <4>2. tape'[i].n = his' + others' /\ Upto(i)' = Total' /\ Total' \in Nat
          BY <1>5, <2>2, <2>3, <3>3
        <4> QED
          BY <2>4, <2>5, <4>1, <4>2 DEF Atleast0
      <3> QED
        BY <1>4, <3>1, <3>2, <3>3
    <2>9. cancelled' = 0 /\ level' # NoLevel =>
            level' + (printed' - anchor'.printed) >= anchor'.remaining
      BY DEF WInv, Accounted
    <2> QED
      BY <1>2, <2>6, <2>7, <2>8, <2>9 DEF Accounted, IsPrint
  <1> QED
    BY <1>6, <1>7, <1>8, <1>9 DEF WInv

-----------------------------------------------------------------------------
(* The sockets and the caches.                                               *)

\* What was counted since the rest was placed is in the cache, whatever is counted next.
LEMMA HoldsOn ==
  ASSUME WInv, NEW d \in Nat, UNCHANGED <<hisLevel, anchor>>,
         Counted' = Counted + d, printed' = printed + d,
         anchor.remaining > 0 /\ cancelled = 0 /\ level' # NoLevel =>
           level' + (printed' - anchor.printed) >= anchor.remaining
  PROVE  Accounted'
  <1> SUFFICES ASSUME anchor.remaining > 0 PROVE Accounted'
    BY DEF Accounted, hisLevel
  <1>1. /\ his' = his /\ others' = others /\ cancelled' = cancelled
        /\ othersTraded' = othersTraded /\ tape' = tape /\ anchor' = anchor
    BY DEF hisLevel
  <1>2. Total' = Total /\ \A i \in DOMAIN tape : Upto(i)' = Upto(i)
    BY <1>1 DEF Total, Upto, First, Shares
  <1>3. Counted \in Nat /\ printed \in Nat /\ anchor.printed \in Nat
    BY SumFacts DEF WInv, WatchRanges, Anchors
  <1>4. Mark' = Mark
    BY <1>1, <1>3 DEF Mark
  <1>5. Slack' = Slack
    BY <1>1, <1>2, <1>4 DEF Slack
  <1>6. printed' >= anchor.printed
    BY <1>3 DEF WInv, Accounted
  <1> QED
    BY <1>1, <1>2, <1>4, <1>5, <1>6 DEF WInv, Accounted, IsPrint

\* A print is read that is in the window already, or the size the level has.
LEMMA ReadTally ==
  ASSUME WatchRanges, NEW s \in Up, ToCome(s) # {}, pos' = [pos EXCEPT ![s] = @ + 1],
         UNCHANGED <<tape, seen>>,
         IsPrint(pos[s] + 1) => tape[pos[s] + 1].n \in seen
  PROVE  Counted' = Counted
  <1>1. PICK p \in Nat : p = pos[s] + 1
    BY DEF WatchRanges
  <1>2. Up' = Up /\ \A t \in Up : pos[t] \in Nat /\ pos'[t] = IF t = s THEN p ELSE pos[t]
    BY <1>1 DEF WatchRanges, Up, Down
  <1>3. \A i \in DOMAIN tape : Tally'[i] = Tally[i]
    <2> SUFFICES ASSUME NEW i \in DOMAIN tape PROVE Tally'[i] = Tally[i]
      OBVIOUS
    <2>1. i \in Nat /\ Shares'[i] = Shares[i]
      BY SumFacts DEF Shares
    <2>2. Told(i) => Told(i)'
      BY <1>1, <1>2, <2>1 DEF Told
    <2>3. Told(i)' => Told(i) \/ i = p
      BY <1>1, <1>2, <2>1 DEF Told
    <2>4. i = p => Told(i) \/ Shares[i] = 0
      BY <1>1 DEF Told, Shares, IsPrint
    <2> QED
      BY <2>1, <2>2, <2>3, <2>4 DEF Tally
  <1>4. IsFiniteSet(DOMAIN tape)
    BY SumFacts
  <1>5. PICK f, g, D : f = Tally /\ g = Tally' /\ D = DOMAIN tape
    OBVIOUS
  <1>6. SumFunctionOnSet(f, D) = SumFunctionOnSet(g, D)
    <2>1. \A x \in D : f[x] = g[x]
      BY <1>3, <1>5
    <2> QED
      BY <1>4, <1>5, <2>1, SumSame
  <1> QED
    BY <1>5, <1>6 DEF Counted

\* A print is read that is not in the window: all of it is counted, and nothing else.
LEMMA ReadNew ==
  ASSUME WatchRanges, Windowed, NEW s \in Up, ToCome(s) # {},
         pos' = [pos EXCEPT ![s] = @ + 1], UNCHANGED tape,
         IsPrint(pos[s] + 1), tape[pos[s] + 1].n \notin seen,
         seen' = seen \cup {tape[pos[s] + 1].n}
  PROVE  Counted' = Counted + tape[pos[s] + 1].n
  <1>1. PICK p \in Nat : p = pos[s] + 1
    BY DEF WatchRanges
  <1>2. Up' = Up /\ \A t \in Up : pos[t] \in Nat /\ pos'[t] = IF t = s THEN p ELSE pos[t]
    BY <1>1 DEF WatchRanges, Up, Down
  <1>3. p \in DOMAIN tape /\ p \in ToCome(s)
    <2>1. Len(tape) \in Nat /\ DOMAIN tape = 1 .. Len(tape)
      BY SumFacts
    <2> QED
      BY <1>1, <1>2, <2>1 DEF ToCome
  <1>4. PICK n \in Nat : n = tape[p].n
    BY <1>3, SumFacts
  <1>5. ~Told(p)
    BY <1>1, <1>3, <1>4 DEF Told, Windowed
  <1>6. Told(p)'
    BY <1>2 DEF Told
  <1>7. \A i \in (DOMAIN tape) \ {p} : Tally'[i] = Tally[i]
    <2> SUFFICES ASSUME NEW i \in (DOMAIN tape) \ {p} PROVE Tally'[i] = Tally[i]
      OBVIOUS
    <2>1. i \in Nat /\ Shares'[i] = Shares[i] /\ DOMAIN tape = 1 .. Len(tape)
      BY SumFacts DEF Shares
    <2>2. Told(i) => Told(i)'
      BY <1>1, <1>2, <2>1 DEF Told
    <2>3. Told(i)' => Told(i) \/ tape[i].n = n
      BY <1>1, <1>2, <1>4, <2>1 DEF Told
    <2>4. tape[i].n = n => Told(i) \/ Shares[i] = 0
      <3> SUFFICES ASSUME tape[i].n = n, IsPrint(i), i > pos[s] PROVE FALSE
        BY <2>1, <1>2 DEF Told, Shares, IsPrint
      <3>1. i \in ToCome(s)
        BY <2>1 DEF ToCome
      <3> QED
        BY <1>1, <1>3, <1>4, <3>1 DEF Windowed
    <2> QED
      BY <2>1, <2>2, <2>3, <2>4 DEF Tally
  <1>8. Tally[p] = 0 /\ Tally'[p] = n
    BY <1>1, <1>3, <1>4, <1>5, <1>6 DEF Tally, Shares, IsPrint
  <1>9. IsFiniteSet(DOMAIN tape) /\ \A i \in DOMAIN tape : Tally[i] \in Nat
    BY SumFacts
  <1>10. PICK f, g, D : f = Tally /\ g = Tally' /\ D = DOMAIN tape
    OBVIOUS
  <1>11. SumFunctionOnSet(g, D) = SumFunctionOnSet(f, D) + (g[p] - f[p])
    <2>1. PICK y \in D : y = p
      BY <1>3, <1>10
    <2>2. \A x \in D \ {y} : f[x] = g[x]
      BY <1>7, <1>10, <2>1
    <2>3. \A x \in D : f[x] \in Int /\ g[x] \in Int
      BY <1>8, <1>9, <1>10, <2>1, <2>2
    <2>4. IsFiniteSet(D)
      BY <1>9, <1>10
    <2>5. SumFunctionOnSet(g, D) = SumFunctionOnSet(f, D) + (g[y] - f[y])
      BY <2>2, <2>3, <2>4, SumUpdate
    <2> QED
      BY <2>1, <2>5
  <1>12. Counted \in Nat
    BY SumFacts
  <1> QED
    BY <1>1, <1>4, <1>8, <1>10, <1>11, <1>12 DEF Counted

\* The sockets have each a frame less to come, and the print is in the window.
LEMMA ReadWindow ==
  ASSUME WatchRanges, Windowed, NEW s \in Up, pos' = [pos EXCEPT ![s] = @ + 1],
         UNCHANGED tape, seen \subseteq seen',
         IsPrint(pos[s] + 1) => tape[pos[s] + 1].n \in seen'
  PROVE  Windowed' /\ Up' = Up
  <1>1. PICK p \in Nat : p = pos[s] + 1
    BY DEF WatchRanges
  <1>2. Up' = Up /\ \A t \in Up : pos[t] \in Nat /\ pos'[t] = IF t = s THEN p ELSE pos[t]
    BY <1>1 DEF WatchRanges, Up, Down
  <1>3. \A t \in Up : ToCome(t)' \subseteq ToCome(t)
    BY <1>1, <1>2, SumFacts DEF ToCome
  <1>4. ASSUME NEW t \in Up, NEW u \in Up, NEW i \in ToCome(t), i <= pos'[u], IsPrint(i)
        PROVE  tape[i].n \in seen'
    <2>1. i \in Nat
      BY SumFacts DEF ToCome
    <2>2. CASE i <= pos[u]
      BY <1>4, <2>2 DEF Windowed
    <2>3. CASE ~(i <= pos[u])
      <3>1. i = p
        BY <1>1, <1>2, <1>4, <2>1, <2>3
      <3> QED
        BY <1>1, <1>4, <3>1
    <2> QED
      BY <2>2, <2>3
  <1> QED
    BY <1>2, <1>3, <1>4 DEF Windowed, IsPrint

\* A socket reads a frame.
LEMMA ReadStep ==
  ASSUME WInv, NEW s \in Sockets, Read(s) PROVE WInv'
  <1>1. /\ s \in Up /\ ToCome(s) # {} /\ pos' = [pos EXCEPT ![s] = @ + 1]
        /\ UNCHANGED <<hisLevel, anchor>> /\ UNCHANGED tape /\ his' = his /\ others' = others
    BY DEF Read, hisLevel
  <1>2. PICK p \in Nat : p = pos[s] + 1
    BY <1>1 DEF WInv, WatchRanges
  <1>0. PICK L \in Nat : L = Len(tape) /\ DOMAIN tape = 1 .. L
    BY SumFacts DEF WInv
  <1>3. p \in 1 .. L /\ p \in DOMAIN tape /\ L > 0
    BY <1>0, <1>1, <1>2 DEF ToCome, WInv, WatchRanges
  <1>4. PICK n \in Nat : n = tape[p].n
    BY <1>3, SumFacts DEF WInv
  <1>5. \A t \in Up : pos[t] \in Nat /\ pos'[t] = IF t = s THEN p ELSE pos[t]
    BY <1>1, <1>2 DEF WInv, WatchRanges, Up
  <1>6. pos' \in [Sockets -> Int] /\ \A t \in Up : pos'[t] \in 0 .. Len(tape)
    BY <1>0, <1>1, <1>2, <1>3, <1>5 DEF WInv, WatchRanges
  <1>9. pos'[s] = p
    BY <1>1, <1>5
  <1>7. CASE IsPrint(p)
    <2>1. RecordAt(n)
      BY <1>2, <1>4, <1>7 DEF Read, IsPrint
    <2>2. seen' = seen \cup {n} /\ level' = level /\ alive' = alive
      BY <2>1 DEF RecordAt
    <2>3. Windowed' /\ Up' = Up
      BY <1>1, <1>2, <1>4, <2>2, ReadWindow DEF WInv
    <2>4. printed \in Nat /\ printed' \in Nat
      BY <2>1 DEF RecordAt, WInv, WatchRanges
    <2>5. WatchRanges'
      BY <1>1, <1>6, <2>2, <2>3, <2>4 DEF WInv, WatchRanges, hisLevel
    <2>6. ~CaughtUp'
      <3>1. p # L
        <4>1. tape[L].kind = "level"
          BY <1>0, <1>3 DEF WInv, Truthful, LevelIs
        <4> QED
          BY <1>7, <4>1 DEF IsPrint
      <3>2. L \in ToCome(s)'
        <4>1. L \in 1 .. L /\ L > p
          BY <1>3, <3>1
        <4> QED
          BY <1>0, <1>1, <1>9, <4>1 DEF ToCome
      <3> QED
        BY <1>1, <2>3, <3>2 DEF CaughtUp
    <2>7. Truthful'
      BY <1>1, <2>6 DEF WInv, Truthful, IsPrint
    <2>8. Accounted'
      <3>1. PICK d \in Nat : d = IF n \in seen THEN 0 ELSE n
        OBVIOUS
      <3>2. printed' = printed + d
        BY <2>1, <2>4, <3>1 DEF RecordAt
      <3>3. Counted' = Counted + d
        <4>1. CASE n \in seen
          <5>1. seen' = seen
            BY <2>2, <4>1
          <5>2. Counted' = Counted
            BY <1>1, <1>2, <1>4, <4>1, <5>1, ReadTally DEF WInv
          <5>3. Counted \in Nat
            BY SumFacts DEF WInv
          <5> QED
            BY <3>1, <4>1, <5>2, <5>3
        <4>2. CASE n \notin seen
          BY <1>1, <1>2, <1>4, <1>7, <2>2, <3>1, <4>2, ReadNew DEF WInv
        <4> QED
          BY <4>1, <4>2
      <3>4. ASSUME anchor.remaining > 0, cancelled = 0, level' # NoLevel
            PROVE  level' + (printed' - anchor.printed) >= anchor.remaining
        <4>1. level + (printed - anchor.printed) >= anchor.remaining
          BY <2>2, <3>4 DEF WInv, Accounted
        <4>2. level \in Int /\ anchor.printed \in Nat /\ anchor.remaining \in Int
          BY DEF WInv, WatchRanges, Anchors
        <4> QED
          BY <2>2, <2>4, <3>2, <4>1, <4>2
      <3> QED
        BY <1>1, <3>2, <3>3, <3>4, HoldsOn
    <2> QED
      BY <2>3, <2>5, <2>7, <2>8 DEF WInv
  <1>8. CASE ~IsPrint(p)
    <2>1. level' = n /\ alive' = TRUE /\ UNCHANGED <<printed, seen>>
      BY <1>2, <1>4, <1>8 DEF Read, IsPrint, Put
    <2>2. n >= his /\ n # NoLevel
      BY <1>3, <1>4, <1>8 DEF WInv, Truthful, NoLevel
    <2>3. Windowed' /\ Up' = Up
      BY <1>1, <1>2, <1>8, <2>1, ReadWindow DEF WInv
    <2>4. WatchRanges'
      BY <1>1, <1>6, <2>1, <2>2, <2>3 DEF WInv, WatchRanges, hisLevel
    <2>5. CaughtUp' => level' = his + others
      <3> SUFFICES ASSUME CaughtUp' PROVE level' = his + others
        OBVIOUS
      <3>1. L \notin ToCome(s)'
        BY <1>1, <2>3 DEF CaughtUp
      <3>2. ~(L > p)
        <4>1. L \in 1 .. L
          BY <1>3
        <4> QED
          BY <1>0, <1>1, <1>9, <3>1, <4>1 DEF ToCome
      <3>3. p = L
        BY <1>3, <3>2
      <3>4. tape[L].n = his + others
        BY <1>0, <1>3 DEF WInv, Truthful, LevelIs
      <3> QED
        BY <1>4, <2>1, <3>3, <3>4
    <2>6. Truthful'
      BY <1>1, <2>5 DEF WInv, Truthful, IsPrint
    <2>7. Accounted'
      <3>1. Counted' = Counted
        BY <1>1, <1>2, <1>8, <2>1, ReadTally DEF WInv
      <3>2. Counted \in Nat /\ printed \in Nat /\ Upto(p) \in Nat
        BY <1>3, SumFacts DEF WInv, WatchRanges
      <3>3. ASSUME anchor.remaining > 0, cancelled = 0
            PROVE  level' + (printed' - anchor.printed) >= anchor.remaining
        <4>1. n + Atleast0(Upto(p) - Mark) >= anchor.remaining /\ printed >= anchor.printed
          BY <1>3, <1>4, <1>8, <3>3 DEF WInv, Accounted
        <4>2. Upto(p) <= Counted
          BY <1>1, <1>2, <1>3, <1>8, UptoCounted DEF WInv
        <4>3. anchor.printed \in Nat /\ anchor.remaining \in Int
          BY DEF WInv, WatchRanges, Anchors
        <4>4. Upto(p) - Mark <= printed - anchor.printed /\ Mark \in Int
          BY <3>2, <4>2, <4>3 DEF Mark
        <4>5. Atleast0(Upto(p) - Mark) <= printed - anchor.printed
          BY <3>2, <4>1, <4>3, <4>4 DEF Atleast0
        <4>6. Atleast0(Upto(p) - Mark) \in Int
          BY <3>2, <4>4 DEF Atleast0
        <4> QED
          BY <2>1, <3>2, <4>1, <4>3, <4>5, <4>6
      <3>4. Counted' = Counted + 0 /\ printed' = printed + 0
        BY <2>1, <3>1, <3>2
      <3> QED
        BY <1>1, <3>3, <3>4, HoldsOn
    <2> QED
      BY <2>3, <2>4, <2>6, <2>7 DEF WInv
  <1> QED
    BY <1>7, <1>8

\* What was told does not change when the same frames are told.
LEMMA ToldKept ==
  ASSUME WatchRanges, UNCHANGED tape,
         \A i \in DOMAIN tape : IsPrint(i) => (Told(i)' <=> Told(i))
  PROVE  Counted' = Counted
  <1>1. \A i \in DOMAIN tape : Tally'[i] = Tally[i]
    BY DEF Tally, Shares, IsPrint
  <1>2. IsFiniteSet(DOMAIN tape)
    BY SumFacts
  <1>3. PICK f, g, D : f = Tally /\ g = Tally' /\ D = DOMAIN tape
    OBVIOUS
  <1>4. SumFunctionOnSet(f, D) = SumFunctionOnSet(g, D)
    <2>1. \A x \in D : f[x] = g[x]
      BY <1>1, <1>3
    <2> QED
      BY <1>2, <1>3, <2>1, SumSame
  <1> QED
    BY <1>3, <1>4 DEF Counted

\* A socket goes while another is up: what only it had delivered is none.
LEMMA LeaveStep ==
  ASSUME FeedPerils = {}, WInv, NEW s \in Sockets, Leave(s) PROVE WInv'
  <1>1. /\ s \in Up /\ pos' = [pos EXCEPT ![s] = Down]
        /\ UNCHANGED <<hisLevel, anchor>> /\ UNCHANGED <<tape, his, others>>
        /\ UNCHANGED <<level, alive, printed, seen>>
    BY DEF Leave, hisLevel, feed
  <1>2. PICK t \in Up \ {s} : TRUE
    BY DEF Leave, Up
  <1>3. Up' = Up \ {s} /\ \A u \in Up \ {s} : pos'[u] = pos[u]
    BY <1>1 DEF Up, WInv, WatchRanges
  <1>4. Len(tape) \in Nat /\ DOMAIN tape = 1 .. Len(tape) /\ \A u \in Up : pos[u] \in Nat
    BY SumFacts DEF WInv, WatchRanges
  <1>5. \A u \in Up \ {s} : ToCome(u)' = ToCome(u)
    BY <1>1, <1>3 DEF ToCome
  <1>6. WatchRanges'
    <2>1. pos' \in [Sockets -> Int]
      BY <1>1 DEF WInv, WatchRanges, Down
    <2>2. \A u \in Up' : pos'[u] \in 0 .. Len(tape)
      BY <1>3 DEF WInv, WatchRanges
    <2> QED
      BY <1>1, <1>2, <1>3, <2>1, <2>2 DEF WInv, WatchRanges, hisLevel
  <1>7. Windowed'
    BY <1>1, <1>3, <1>5 DEF WInv, Windowed, IsPrint
  <1>8. CaughtUp' /\ ~unsaid' => CaughtUp /\ ~unsaid
    <2> SUFFICES ASSUME CaughtUp', ~unsaid' PROVE ToCome(s) = {} /\ ~unsaid
      BY <1>3, <1>5 DEF CaughtUp
    <2>1. PICK v \in Up \ {s} : ~unsaid /\ ~(pos[v] > pos[s])
      BY DEF Leave
    <2>2. ToCome(v) = {}
      BY <1>3, <1>5, <2>1 DEF CaughtUp
    <2>3. ASSUME NEW i \in ToCome(s) PROVE i \in ToCome(v)
      BY <1>1, <1>4, <2>1, <2>3 DEF ToCome
    <2> QED
      BY <2>1, <2>2, <2>3
  <1>9. Truthful'
    BY <1>1, <1>8 DEF WInv, Truthful, IsPrint
  <1>10. Counted' = Counted
    <2>1. ASSUME NEW i \in DOMAIN tape, IsPrint(i) PROVE Told(i)' <=> Told(i)
      <3>1. Told(i)' => Told(i)
        BY <1>1, <1>3 DEF Told
      <3>2. ASSUME i <= pos[s], ~(i <= pos[t]) PROVE tape[i].n \in seen
        <4>1. i \in ToCome(t)
          BY <1>2, <1>4, <3>2 DEF ToCome
        <4> QED
          BY <1>1, <1>2, <2>1, <3>2, <4>1 DEF WInv, Windowed
      <3>3. Told(i) => Told(i)'
        <4> SUFFICES ASSUME Told(i) PROVE Told(i)'
          OBVIOUS
        <4>1. CASE tape[i].n \in seen
          BY <1>1, <4>1 DEF Told
        <4>2. CASE \E u \in Up \ {s} : i <= pos[u]
          BY <1>3, <4>2 DEF Told
        <4>3. CASE i <= pos[s]
          BY <1>2, <3>2, <4>1, <4>2, <4>3
        <4> QED
          BY <4>1, <4>2, <4>3 DEF Told
      <3> QED
        BY <3>1, <3>3
    <2> QED
      BY <1>1, <2>1, ToldKept DEF WInv
  <1>11. Accounted'
    <2>1. Counted \in Nat /\ printed \in Nat
      BY SumFacts DEF WInv, WatchRanges
    <2>2. Counted' = Counted + 0 /\ printed' = printed + 0
      BY <1>1, <1>10, <2>1
    <2>3. anchor.remaining > 0 /\ cancelled = 0 /\ level' # NoLevel =>
            level' + (printed' - anchor.printed) >= anchor.remaining
      BY <1>1 DEF WInv, Accounted
    <2> QED
      BY <1>1, <2>2, <2>3, HoldsOn
  <1> QED
    BY <1>6, <1>7, <1>9, <1>11 DEF WInv

\* A socket subscribes while another has delivered everything: it tells the level as it is.
LEMMA SubscribeStep ==
  ASSUME FeedPerils = {}, WInv, NEW s \in Sockets, Subscribe(s) PROVE WInv'
  <1>1. /\ s \notin Up /\ pos' = [pos EXCEPT ![s] = Len(tape)]
        /\ UNCHANGED <<hisLevel, anchor>> /\ UNCHANGED <<tape, his, others, cancelled, othersTraded>>
        /\ level' = his + others /\ alive' = TRUE /\ UNCHANGED <<printed, seen>>
    BY DEF Subscribe, Snapshot, Put, hisLevel
  <1>2. PICK t \in Up : ToCome(t) = {}
    BY DEF Subscribe
  <1>3. PICK L \in Nat : L = Len(tape) /\ DOMAIN tape = 1 .. L
    BY SumFacts DEF WInv
  <1>4. Up' = Up \cup {s} /\ pos'[s] = L /\ \A u \in Up : pos'[u] = pos[u]
    BY <1>1, <1>3 DEF Up, WInv, WatchRanges, Down
  <1>5. \A u \in Up : pos[u] \in Nat /\ pos[u] <= L
    BY <1>3 DEF WInv, WatchRanges
  <1>6. pos[t] = L
    <2>1. L \in 1 .. L => ~(L > pos[t])
      BY <1>2, <1>3 DEF ToCome
    <2> QED
      BY <1>3, <1>5, <2>1
  <1>7. ToCome(s)' = {} /\ \A u \in Up : ToCome(u)' = ToCome(u)
    BY <1>1, <1>3, <1>4 DEF ToCome
  <1>8. WatchRanges'
    <2>1. pos' \in [Sockets -> Int]
      BY <1>1, <1>3 DEF WInv, WatchRanges
    <2>2. \A u \in Up' : pos'[u] \in 0 .. Len(tape)
      BY <1>3, <1>4 DEF WInv, WatchRanges
    <2>3. level' \in Int /\ level' >= his
      BY <1>1 DEF WInv, WatchRanges
    <2> QED
      BY <1>1, <1>4, <2>1, <2>2, <2>3 DEF WInv, WatchRanges
  <1>9. Windowed'
    <2>1. ASSUME NEW u \in Up, NEW v \in Up', NEW i \in ToCome(u), i <= pos'[v], IsPrint(i)
          PROVE  tape[i].n \in seen
      <3>1. \E w \in Up : i <= pos[w]
        BY <1>4, <1>6, <2>1
      <3> QED
        BY <2>1, <3>1 DEF WInv, Windowed
    <2>2. \A u \in Up' : u \in Up \/ ToCome(u)' = {}
      BY <1>4, <1>7
    <2> QED
      BY <1>1, <1>7, <2>1, <2>2 DEF WInv, Windowed, IsPrint
  <1>10. Truthful'
    BY <1>1 DEF WInv, Truthful, IsPrint
  <1>11. Counted' = Counted
    <2>1. ASSUME NEW i \in DOMAIN tape PROVE Told(i)' <=> Told(i)
      <3>1. i <= pos[t] /\ i <= pos'[t] /\ t \in Up'
        BY <1>3, <1>4, <1>6
      <3> QED
        BY <3>1 DEF Told
    <2> QED
      BY <1>1, <2>1, ToldKept DEF WInv
  <1>12. Accounted'
    <2>1. Counted \in Nat /\ printed \in Nat
      BY SumFacts DEF WInv, WatchRanges
    <2>2. Counted' = Counted + 0 /\ printed' = printed + 0
      BY <1>1, <1>11, <2>1
    <2>3. ASSUME anchor.remaining > 0, cancelled = 0
          PROVE  level' + (printed' - anchor.printed) >= anchor.remaining
      <3>1. Counted = Total
        BY <1>2, CaughtUpCounted DEF WInv
      <3>2. 0 <= Slack
        BY <2>3 DEF WInv, Accounted
      <3>3. /\ his \in Nat /\ others \in Nat /\ othersTraded \in Nat
            /\ anchor.printed \in Nat /\ anchor.remaining \in Int
        BY DEF WInv, WatchRanges, Anchors
      <3>4. Slack = his + (printed - anchor.printed) - othersTraded - anchor.remaining
        BY <2>1, <2>3, <3>1, <3>3 DEF Slack, Mark
      <3>5. his + (printed - anchor.printed) >= anchor.remaining
        BY <2>1, <3>2, <3>3, <3>4
      <3> QED
        BY <1>1, <2>1, <3>3, <3>5
    <2> QED
      BY <1>1, <2>2, <2>3, HoldsOn
  <1> QED
    BY <1>8, <1>9, <1>10, <1>12 DEF WInv

\* A window ends when every socket has delivered the prints it is about.
LEMMA WindowEndsStep ==
  ASSUME FeedPerils = {}, WInv, NEW n \in Amounts, WindowEnds(n) PROVE WInv'
  <1>1. /\ ~Underway(n) /\ seen' = seen \ {n}
        /\ UNCHANGED <<hisLevel, anchor>> /\ UNCHANGED <<tape, his, others>>
        /\ UNCHANGED <<pos, level, alive, printed, unsaid>>
    BY DEF WindowEnds, hisLevel
  <1>2. Up' = Up /\ \A s \in Up : ToCome(s)' = ToCome(s)
    BY <1>1 DEF Up, ToCome
  <1>3. ASSUME NEW s \in Up, NEW i \in ToCome(s), IsPrint(i) PROVE tape[i].n # n
    <2>1. i \in DOMAIN tape
      BY SumFacts DEF WInv, ToCome
    <2>2. tape[i] = Printed(tape[i].n)
      BY <1>3, <2>1, SumFacts DEF WInv, Frames, Printed, IsPrint
    <2> QED
      BY <1>1, <2>2 DEF Underway
  <1>4. WatchRanges'
    BY <1>1, <1>2 DEF WInv, WatchRanges, hisLevel
  <1>5. Windowed'
    BY <1>1, <1>2, <1>3 DEF WInv, Windowed, IsPrint
  <1>6. Truthful'
    BY <1>1, <1>2 DEF WInv, Truthful, CaughtUp, IsPrint
  <1>7. Counted' = Counted
    <2>1. ASSUME NEW i \in DOMAIN tape, IsPrint(i) PROVE Told(i)' <=> Told(i)
      <3>1. Told(i)' => Told(i)
        BY <1>1, <1>2 DEF Told
      <3>2. PICK s \in Up : pos[s] \in Nat
        BY DEF WInv, WatchRanges
      <3>3. i \in 1 .. Len(tape) /\ i \in Nat
        BY SumFacts DEF WInv
      <3>4. i <= pos[s] \/ i \in ToCome(s)
        BY <3>2, <3>3 DEF ToCome
      <3>5. Told(i) => Told(i)'
        BY <1>1, <1>2, <1>3, <2>1, <3>4 DEF Told
      <3> QED
        BY <3>1, <3>5
    <2> QED
      BY <1>1, <2>1, ToldKept DEF WInv
  <1>8. Accounted'
    <2>1. Counted \in Nat /\ printed \in Nat
      BY SumFacts DEF WInv, WatchRanges
    <2>2. Counted' = Counted + 0 /\ printed' = printed + 0
      BY <1>1, <1>7, <2>1
    <2>3. anchor.remaining > 0 /\ cancelled = 0 /\ level' # NoLevel =>
            level' + (printed' - anchor.printed) >= anchor.remaining
      BY <1>1 DEF WInv, Accounted
    <2> QED
      BY <1>1, <2>2, <2>3, HoldsOn
  <1> QED
    BY <1>4, <1>5, <1>6, <1>8 DEF WInv

\* The level is forgotten, or the feed falls silent.
LEMMA ForgetStep ==
  ASSUME FeedPerils = {}, WInv, GrowsOld \/ FallsSilent \/ Evict PROVE WInv'
  <1>1. /\ UNCHANGED <<hisLevel, anchor>> /\ UNCHANGED <<tape, his, others>>
        /\ UNCHANGED <<pos, seen, unsaid>>
        /\ level' \in {level, NoLevel} /\ alive' \in BOOLEAN
        /\ printed' = printed \/ (anchor = NoAnchor /\ printed' = 0)
    BY DEF GrowsOld, FallsSilent, Evict, hisLevel, WInv, WatchRanges
  <1>2. Up' = Up /\ \A s \in Up : ToCome(s)' = ToCome(s)
    BY <1>1 DEF Up, ToCome
  <1>3. WatchRanges'
    <2>1. level' \in Int /\ (level' # NoLevel => level' >= his) /\ printed' \in Nat
      BY <1>1 DEF WInv, WatchRanges, NoLevel
    <2> QED
      BY <1>1, <1>2, <2>1 DEF WInv, WatchRanges, hisLevel
  <1>4. Windowed'
    BY <1>1, <1>2 DEF WInv, Windowed, IsPrint
  <1>5. Truthful'
    BY <1>1, <1>2 DEF WInv, Truthful, CaughtUp, IsPrint
  <1>6. Accounted'
    <2>1. CASE anchor = NoAnchor
      BY <1>1, <2>1 DEF Accounted, NoAnchor
    <2>2. CASE printed' = printed
      <3>1. Counted \in Nat /\ printed \in Nat
        BY SumFacts DEF WInv, WatchRanges
      <3>2. Counted' = Counted
        <4>1. \A i \in DOMAIN tape : Told(i)' <=> Told(i)
          BY <1>1, <1>2 DEF Told
        <4> QED
          BY <1>1, <4>1, ToldKept DEF WInv
      <3>3. Counted' = Counted + 0 /\ printed' = printed + 0
        BY <2>2, <3>1, <3>2
      <3>4. anchor.remaining > 0 /\ cancelled = 0 /\ level' # NoLevel =>
              level' + (printed' - anchor.printed) >= anchor.remaining
        BY <1>1, <2>2 DEF WInv, Accounted
      <3> QED
        BY <1>1, <3>3, <3>4, HoldsOn
    <2> QED
      BY <1>1, <2>1, <2>2
  <1> QED
    BY <1>3, <1>4, <1>5, <1>6 DEF WInv

-----------------------------------------------------------------------------
(* The rest behind his order, and the venue.                                 *)

\* The rest is placed: what was not counted is among the prints to come.
LEMMA DecideStep ==
  ASSUME FeedPerils = {}, WInv, NEW knows \in 0 .. HisSize, Decide(knows) PROVE WInv'
  <1>1. /\ knows = HisSize - his - cancelled /\ anchor' = Anchor(knows) /\ othersTraded' = 0
        /\ UNCHANGED <<his, others, cancelled, tape, pos>>
        /\ UNCHANGED <<level, alive, printed, seen, unsaid>>
    BY DEF Decide, feed
  <1>2. /\ HisSize \in Nat /\ his \in Nat /\ cancelled \in Nat /\ printed \in Nat /\ level \in Int
        /\ Unread \in Nat /\ Total \in Nat /\ Counted \in Nat /\ Counted <= Total
        /\ Total - Counted <= Unread
    BY WatchAssumption, SumFacts, UnreadCovers DEF WInv, WatchRanges
  <1>3. HisSize - knows = his + cancelled
    BY <1>1, <1>2
  <1>4. PICK r \in Nat : r = IF level = NoLevel THEN 0 ELSE HisSize - knows
    BY <1>2, <1>3
  <1>5. /\ anchor'.remaining = r /\ anchor'.printed = printed /\ anchor'.ahead = Unread
        /\ anchor'.contested = (r = 0 \/ 10 * level > 11 * r)
        /\ anchor' \in Anchors
    <2>1. anchor' = [remaining |-> r, printed |-> printed,
                     contested |-> r = 0 \/ 10 * level > 11 * r, ahead |-> Unread]
      BY <1>1, <1>4 DEF Anchor
    <2>2. (r = 0 \/ 10 * level > 11 * r) \in BOOLEAN
      OBVIOUS
    <2> QED
      BY <1>2, <2>1, <2>2 DEF Anchors
  <1>6. Up' = Up /\ \A s \in Up : ToCome(s)' = ToCome(s)
    BY <1>1 DEF Up, ToCome
  <1>7. WatchRanges'
    <2>1. anchor' \in Anchors /\ (anchor'.contested \/ anchor'.remaining > 0)
      <3>1. CASE r = 0
        BY <1>5, <3>1
      <3>2. CASE r > 0
        BY <1>5, <3>2
      <3> QED
        BY <1>5, <3>1, <3>2
    <2> QED
      BY <1>1, <1>6, <2>1 DEF WInv, WatchRanges
  <1>8. Windowed'
    BY <1>1, <1>6 DEF WInv, Windowed, IsPrint
  <1>9. Truthful'
    BY <1>1, <1>6 DEF WInv, Truthful, CaughtUp, IsPrint
  <1>10. Accounted'
    <2>1. /\ Total' = Total /\ Counted' = Counted /\ \A i \in DOMAIN tape : Upto(i)' = Upto(i)
      BY <1>1, <1>6 DEF Total, Counted, Upto, First, Tally, Told, Shares
    <2>2. Mark' = Counted
      BY <1>1, <1>2, <1>5, <2>1 DEF Mark
    <2> SUFFICES ASSUME r > 0 PROVE Accounted'
      BY <1>5 DEF Accounted
    <2>3. r = his + cancelled /\ level # NoLevel
      BY <1>3, <1>4
    <2>4. Slack' = Total - Counted
      BY <1>1, <1>2, <1>5, <2>1, <2>2, <2>3 DEF Slack
    <2>5. ASSUME cancelled = 0, NEW i \in DOMAIN tape, ~IsPrint(i)
          PROVE  tape[i].n + Atleast0(Upto(i) - Counted) >= r
      <3>1. tape[i].n >= his /\ tape[i].n \in Nat /\ Upto(i) \in Nat
        BY <2>5, SumFacts DEF WInv, Truthful
      <3>2. Atleast0(Upto(i) - Counted) \in Nat
        BY <1>2, <3>1 DEF Atleast0
      <3> QED
        BY <1>2, <2>3, <2>5, <3>1, <3>2
    <2>6. cancelled = 0 => level + (printed - printed) >= r
      BY <1>2, <2>3 DEF WInv, WatchRanges
    <2> QED
      BY <1>1, <1>2, <1>5, <2>1, <2>2, <2>4, <2>5, <2>6 DEF Accounted, IsPrint
  <1> QED
    BY <1>7, <1>8, <1>9, <1>10 DEF WInv

\* A trade of his, or of another.
LEMMA TradeStep ==
  ASSUME FeedPerils = {}, WInv, NEW n \in Amounts, HeTrades(n) \/ OthersTrade(n) PROVE WInv'
  <1>1. /\ n \in Nat /\ his \in Nat /\ others \in Nat /\ cancelled \in Nat /\ othersTraded \in Nat
    BY WatchAssumption DEF WInv, WatchRanges
  <1>2. /\ n \notin seen /\ ~Underway(n)
        /\ tape' = tape \o <<Printed(n), LevelIs(his' + others')>>
        /\ UNCHANGED <<pos, level, alive, printed, seen, anchor>> /\ cancelled' = cancelled
    BY DEF HeTrades, OthersTrade, Trades, feed
  <1>3. /\ his' \in Nat /\ others' \in Nat /\ his' + others' \in Nat /\ his' <= his
        /\ cancelled' \in Nat /\ othersTraded' \in Nat
        /\ anchor # NoAnchor =>
             his' + cancelled' + Gain(2, n) - othersTraded' = his + cancelled - othersTraded
    <2>1. CASE HeTrades(n)
      <3>1. n <= his /\ his' = his - n /\ others' = others /\ othersTraded' = othersTraded
        BY <2>1 DEF HeTrades
      <3> QED
        BY <1>1, <1>2, <3>1 DEF Gain
    <2>2. CASE OthersTrade(n)
      <3>1. /\ n <= others /\ others' = others - n /\ his' = his
            /\ othersTraded' = IF anchor = NoAnchor THEN 0 ELSE othersTraded + n
        BY <2>2 DEF OthersTrade
      <3> QED
        BY <1>1, <1>2, <3>1 DEF Gain
    <2> QED
      BY <2>1, <2>2
  <1>4. Adds(2, n)
    BY <1>1, <1>2, <1>3, AddsTwo DEF WInv
  <1>5. cancelled' = 0 => cancelled = 0
    BY <1>2
  <1> QED
    BY <1>1, <1>2, <1>3, <1>4, <1>5, VenueStep

\* A cancellation of his, or a move of another.
LEMMA MoveStep ==
  ASSUME WInv, NEW n \in Nat, HeCancels(n) \/ OthersMove(n) PROVE WInv'
  <1>1. /\ his \in Nat /\ others \in Nat /\ cancelled \in Nat /\ othersTraded \in Nat
    BY DEF WInv, WatchRanges
  <1>2. /\ UNCHANGED <<pos, level, alive, printed, seen, anchor>> /\ othersTraded' = othersTraded
    BY DEF HeCancels, OthersMove, feed
  <1>3. /\ his' \in Nat /\ others' \in Nat /\ his' + others' \in Nat /\ his' <= his
        /\ cancelled' \in Nat /\ (cancelled' = 0 => cancelled = 0)
        /\ his' + cancelled' = his + cancelled
        /\ tape' = Append(tape, LevelIs(his' + others'))
    <2>1. CASE HeCancels(n)
      <3>1. n <= his /\ his' = his - n /\ others' = others /\ cancelled' = cancelled + n
        BY <1>1, <2>1 DEF HeCancels
      <3>2. tape' = Append(tape, LevelIs(his' + others'))
        BY <2>1, <3>1 DEF HeCancels
      <3> QED
        BY <1>1, <3>1, <3>2
    <2>2. CASE OthersMove(n)
      <3>1. /\ others' = others + n \/ (n <= others /\ others' = others - n)
            /\ his' = his /\ cancelled' = cancelled
        BY <2>2 DEF OthersMove
      <3>2. tape' = Append(tape, LevelIs(his' + others'))
        BY <2>2, <3>1 DEF OthersMove
      <3> QED
        BY <1>1, <3>1, <3>2
    <2> QED
      BY <2>1, <2>2
  <1>4. PICK k \in {1, 2}, m \in Nat : k = 1 /\ m = 0
    OBVIOUS
  <1>5. Adds(k, m)
    BY <1>3, <1>4, AddsOne DEF WInv
  <1>6. Gain(k, m) = 0
    BY <1>4 DEF Gain
  <1>7. his' + cancelled' + 0 - othersTraded = his + cancelled - othersTraded
    <2>1. his' + cancelled' = his + cancelled /\ his' \in Nat /\ cancelled' \in Nat
      BY <1>3
    <2>2. PICK h \in Nat, c \in Nat, a \in Nat, b \in Nat, o \in Nat :
            /\ h = his' /\ c = cancelled' /\ a = his /\ b = cancelled /\ o = othersTraded
      BY <1>1, <2>1
    <2>3. h + c = a + b
      BY <2>1, <2>2, Zenon
    <2>4. h + c + 0 - o = a + b - o
      BY <2>3
    <2> QED
      BY <2>2, <2>4, Zenon
  <1>8. his' + cancelled' + Gain(k, m) - othersTraded' = his' + cancelled' + 0 - othersTraded
    BY <1>2, <1>6, Zenon
  <1>9. anchor # NoAnchor =>
          his' + cancelled' + Gain(k, m) - othersTraded' = his + cancelled - othersTraded
    BY <1>7, <1>8
  <1>10. othersTraded' \in Nat /\ k # 2
    BY <1>1, <1>2, <1>4
  <1> QED
    BY <1>2, <1>3, <1>5, <1>9, <1>10, VenueStep

-----------------------------------------------------------------------------
(* The invariant.                                                            *)

\* Initially every socket has read the empty tape, and no rest is behind his order.
LEMMA InitWatch == WatchInit => WInv
  <1> SUFFICES ASSUME WatchInit PROVE WInv
    OBVIOUS
  <1>1. /\ HisSize \in Nat /\ his = HisSize /\ others \in Nat /\ Sockets # {}
        /\ level = HisSize + others
    BY WatchAssumption DEF WatchInit
  <1>2. tape \in Tape /\ Len(tape) = 0 /\ DOMAIN tape = {}
    <2>1. <<>> \in Tape /\ Len(<<>>) = 0
      BY DEF Tape
    <2>2. tape = <<>>
      BY DEF WatchInit
    <2>3. DOMAIN tape = 1 .. Len(tape)
      BY <2>1, <2>2, TapeFacts
    <2> QED
      BY <2>1, <2>2, <2>3
  <1>3. Up = Sockets /\ \A s \in Up : pos[s] = 0
    BY DEF WatchInit, Up, Down
  <1>4. WatchRanges
    <2>1. pos \in [Sockets -> Int]
      BY DEF WatchInit
    <2>2. anchor \in Anchors /\ anchor.contested
      BY DEF WatchInit, NoAnchor, Anchors
    <2>3. cancelled \in Nat /\ othersTraded \in Nat /\ printed \in Nat /\ seen \subseteq Nat
      BY DEF WatchInit
    <2>4. level \in Int /\ level >= his /\ alive \in BOOLEAN
      BY <1>1 DEF WatchInit
    <2> QED
      BY <1>1, <1>2, <1>3, <2>1, <2>2, <2>3, <2>4 DEF WatchRanges
  <1>5. \A s \in Up : ToCome(s) = {}
    BY <1>2 DEF ToCome
  <1>6. Windowed
    BY <1>5 DEF Windowed
  <1>7. Truthful
    BY <1>1, <1>2 DEF Truthful
  <1>8. Accounted
    BY DEF WatchInit, NoAnchor, Accounted
  <1> QED
    BY <1>4, <1>6, <1>7, <1>8 DEF WInv

\* Nothing else changes what is known of his order.
LEMMA WatchStep ==
  ASSUME FeedPerils = {}, WInv, [WatchNext]_watchVars PROVE WInv'
  <1>1. ASSUME NEW n \in Amounts, HeTrades(n) \/ OthersTrade(n) PROVE WInv'
    BY <1>1, TradeStep
  <1>2. ASSUME NEW n \in Amounts, OthersMove(n) PROVE WInv'
    <2>1. n \in Nat
      BY WatchAssumption
    <2> QED
      BY <1>2, <2>1, MoveStep
  <1>3. ASSUME NEW n \in Amounts, WindowEnds(n) PROVE WInv'
    BY <1>3, WindowEndsStep
  <1>4. ASSUME NEW n \in 1 .. HisSize, HeCancels(n) PROVE WInv'
    <2>1. n \in Nat
      BY WatchAssumption
    <2> QED
      BY <1>4, <2>1, MoveStep
  <1>5. ASSUME NEW s \in Sockets, Read(s) PROVE WInv'
    BY <1>5, ReadStep
  <1>6. ASSUME NEW s \in Sockets, Leave(s) PROVE WInv'
    BY <1>6, LeaveStep
  <1>7. ASSUME NEW s \in Sockets, Subscribe(s) PROVE WInv'
    BY <1>7, SubscribeStep
  <1>8. CASE GrowsOld \/ FallsSilent \/ Evict
    BY <1>8, ForgetStep
  <1>9. ASSUME NEW knows \in 0 .. HisSize, Decide(knows) PROVE WInv'
    BY <1>9, DecideStep
  <1>10. CASE UNCHANGED watchVars
    <2>1. /\ UNCHANGED <<his, others, cancelled, othersTraded, tape>>
          /\ UNCHANGED <<pos, level, alive, printed, seen, anchor, unsaid>>
      BY <1>10 DEF watchVars, hisLevel, feed
    <2>2. Up' = Up /\ \A s : ToCome(s)' = ToCome(s)
      BY <2>1 DEF Up, ToCome
    <2>3. WatchRanges' /\ Windowed' /\ Truthful'
      BY <2>1, <2>2 DEF WInv, WatchRanges, Windowed, Truthful, CaughtUp, IsPrint
    <2>4. Total' = Total /\ Counted' = Counted /\ \A i : Upto(i)' = Upto(i)
      BY <2>1, <2>2 DEF Total, Counted, Upto, First, Tally, Told, Shares
    <2>5. Mark' = Mark /\ Slack' = Slack
      BY <2>1, <2>4 DEF Mark, Slack
    <2> QED
      BY <2>1, <2>3, <2>4, <2>5 DEF WInv, Accounted, IsPrint
  <1> QED
    BY <1>1, <1>2, <1>3, <1>4, <1>5, <1>6, <1>7, <1>8, <1>9, <1>10 DEF WatchNext

\* The feed's invariant, when nothing of what FeedPerils names goes wrong.
LEMMA WatchInvariant == ASSUME FeedPerils = {} PROVE WatchSpec => []WInv
  <1>1. WInv /\ [WatchNext]_watchVars => WInv'
    BY WatchStep
  <1> QED
    BY <1>1, InitWatch, PTL DEF WatchSpec

\* A rest is not taken down as abandoned by him while he has taken nothing back
\* (Resting.classify): however far apart the sockets read, and whoever else trades,
\* what the level and the prints say is no less than what he had at the anchor.
THEOREM NoFalseCancelHolds ==
  ASSUME FeedPerils = {} PROVE WatchSpec => []NoFalseCancel
  <1>1. WInv => NoFalseCancel
    <2> SUFFICES ASSUME WInv, Classify = "cancelled", cancelled = 0 PROVE FALSE
      BY DEF NoFalseCancel, WInv, WatchRanges
    <2> DEFINE r == anchor.remaining
               p == printed - anchor.printed
               expected == Atleast0(r - p)
    <2>1. /\ r > 0 /\ level # NoLevel /\ ~(10 * level + r >= 10 * expected)
      BY DEF Classify, WInv, WatchRanges, Anchors
    <2>2. level + p >= r
      BY <2>1 DEF WInv, Accounted
    <2>3. r \in Int /\ p \in Int /\ level \in Int /\ level >= 0
      BY <2>1 DEF WInv, WatchRanges, Anchors
    <2>4. expected \in Int /\ expected <= level
      BY <2>2, <2>3 DEF Atleast0
    <2> HIDE DEF r, p, expected
    <2> QED
      BY <2>1, <2>3, <2>4
  <1> QED
    BY <1>1, WatchInvariant, PTL

\* Once the frames are in, what he took back shows in the level (Resting.classify): all of
\* it but a tenth of what he had, what others have put in front, and the prints that
\* were still to come at the anchor; however the sockets fail and come back, once a frame
\* has told the level after the failure of one that was behind.
THEOREM CancelIsSeenInTheEnd ==
  ASSUME FeedPerils = {} PROVE WatchSpec => []CancelIsSeen
  <1>1. WInv => CancelIsSeen
    <2> DEFINE r == anchor.remaining
               p == printed - anchor.printed
               expected == Atleast0(r - p)
               hidden == others + othersTraded
               shows(most) == 10 * cancelled > r + 10 * most
    <2> SUFFICES ASSUME WInv, anchor # NoAnchor, Up # {}, CaughtUp, alive, level # NoLevel,
                        ~anchor.contested, ~unsaid
                 PROVE  /\ shows(hidden + anchor.ahead) => Classify = "cancelled"
                        /\ Classify = "cancelled" => shows(hidden)
      BY DEF CancelIsSeen
    <2>1. PICK s \in Up : ToCome(s) = {}
      BY DEF CaughtUp
    <2>2. Counted = Total /\ Total \in Nat
      BY <2>1, CaughtUpCounted, SumFacts DEF WInv
    <2>3. r > 0 /\ level = his + others
      BY DEF WInv, WatchRanges, Truthful
    <2>4. /\ r \in Int /\ p \in Int /\ his \in Nat /\ others \in Nat /\ cancelled \in Nat
          /\ othersTraded \in Nat /\ anchor.ahead \in Nat /\ printed \in Nat
          /\ anchor.printed \in Nat
      BY DEF WInv, WatchRanges, Anchors
    <2>5. printed >= anchor.printed /\ 0 <= Slack /\ Slack <= anchor.ahead
      BY <2>3 DEF WInv, Accounted
    <2>6. Slack = his + cancelled + p - othersTraded - r
      BY <2>2, <2>4 DEF Slack, Mark
    <2>7. expected = (IF r - p < 0 THEN 0 ELSE r - p)
      BY DEF Atleast0
    <2>8. Classify = "cancelled" <=> ~(10 * level + r >= 10 * expected)
      BY <2>3, <2>4, <2>5 DEF Classify
    <2> HIDE DEF r, p, expected
    <2>9. ASSUME shows(hidden + anchor.ahead) PROVE Classify = "cancelled"
      <3>1. r - p >= his + cancelled - othersTraded - anchor.ahead
        BY <2>4, <2>5, <2>6
      <3>2. 10 * (his + cancelled - othersTraded - anchor.ahead) > 10 * (his + others) + r
        BY <2>4, <2>9
      <3>3. 10 * (r - p) > 10 * level + r /\ r - p > 0
        BY <2>3, <2>4, <3>1, <3>2
      <3> QED
        BY <2>3, <2>4, <2>7, <2>8, <3>3
    <2>10. ASSUME Classify = "cancelled" PROVE shows(hidden)
      <3>1. 10 * level + r < 10 * (r - p)
        BY <2>3, <2>4, <2>7, <2>8, <2>10
      <3>2. r - p <= his + cancelled - othersTraded
        BY <2>4, <2>5, <2>6
      <3> QED
        BY <2>3, <2>4, <3>1, <3>2
    <2> QED
      BY <2>9, <2>10
  <1> QED
    BY <1>1, WatchInvariant, PTL
=============================================================================

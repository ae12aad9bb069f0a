------------------------------- MODULE Rests --------------------------------
(* The resting book: orders that work on the venue, and the three tasks that *)
(* take them down.                                                           *)
(*                                                                           *)
(* A rest is put in the book by its submitter, or adopted from the venue's   *)
(* list.  The sweep cancels what should not work any more, his exit cancels  *)
(* what rests on his token, and the reconciliation settles what the venue    *)
(* does not list.  All three settle through settle_cancelled_rest, and none  *)
(* holds a lock while it waits for the venue.                                *)
EXTENDS Naturals, FiniteSets

CONSTANTS
  N,           \* the rests, in the order they are placed
  Sells,       \* which of them sell
  Size,        \* the shares of one
  Cap,         \* MAX_LIVE_PER_LANE
  PruneFloor,  \* PRUNE_FRAC_APPLIES_ABOVE
  Perils,      \* what may go wrong: a subset of AllPerils
  MaxEvents    \* bound: changes of the lane, ageings, exits, crashes

\* "blind": the status of an order that still works cannot be read, and its trades
\* are taken for its end.  "nameless": no lane, or more than one, can be named for
\* a rest the engine does not know.
AllPerils == {"blind", "nameless"}

ASSUME RestsAssumption ==
  /\ N \in Nat \ {0} /\ Size \in Nat \ {0} /\ Sells \subseteq 1..N
  /\ Cap \in Nat /\ PruneFloor \in Nat /\ MaxEvents \in Nat
  /\ Perils \subseteq AllPerils

Orders == 1..N
Buys == Orders \ Sells
Tasks == {"sweep", "exit", "recon"}

VARIABLES
  venue,      \* Orders -> "none", "live", "gone"
  filled,     \* what has traded of it
  sub,        \* its submitter: "idle", "posting", "done"
  nameless,   \* the rests nobody can be named for; constant
  up,
  book,       \* RestingBook.inner: Orders -> "no", "own", "adopted"
  settling,   \* RestingBook.settling: the orders being settled
  stale,      \* rests past their time and not renewable, or behind an order of his
              \* that is gone
  lane,       \* the flags of their lane
  task,       \* the tasks that take rests down
  verdict,    \* Tasks -> Orders -> what settle_cancelled_rest knows of it
  released,   \* Orders -> what was given back to the guard
  events

market  == <<venue, filled>>
memory  == <<book, settling, task, verdict>>
signs   == <<stale, lane>>
vars    == <<market, sub, nameless, up, memory, signs, released, events>>

\* "closed": halted, retired or not armed; "barred": rest_buys and rest_sells are
\* off, the lane is gone, or no lane at all is armed.
Flags == {"trading", "closed", "barred"}
Idle == [at |-> "idle", ids |-> {}]
Unknown == [v |-> "unknown", n |-> 0, own |-> FALSE]
Verdict(n) == [v |-> "final", n |-> n, own |-> FALSE]
NoVerdict == [v |-> "none", n |-> 0, own |-> FALSE]
NoVerdicts == [o \in Orders |-> NoVerdict]

Live == {o \in Orders : venue[o] = "live"}
Booked == {o \in Orders : book[o] # "no"}

Init ==
  /\ venue = [o \in Orders |-> "none"] /\ filled = [o \in Orders |-> 0]
  /\ sub = [o \in Orders |-> "idle"]
  /\ nameless \in IF "nameless" \in Perils THEN SUBSET Orders ELSE {{}}
  /\ up = TRUE
  /\ book = [o \in Orders |-> "no"] /\ settling = {}
  /\ stale = {} /\ lane = "trading"
  /\ task = [t \in Tasks |-> Idle] /\ verdict = [t \in Tasks |-> NoVerdicts]
  /\ released = [o \in Orders |-> 0]
  /\ events = 0

Event == events < MaxEvents /\ events' = events + 1

-----------------------------------------------------------------------------
(* The venue and the submitter.                                              *)

Place(o) ==
  /\ up /\ lane = "trading"
  /\ sub[o] = "idle" /\ \A p \in 1..(o - 1) : sub[p] # "idle"
  /\ venue' = [venue EXCEPT ![o] = "live"]
  /\ sub' = [sub EXCEPT ![o] = "posting"]
  /\ UNCHANGED <<filled, nameless, up, memory, signs, released, events>>

\* Outcome::Resting: the rest is put in the book, over an adopted one.
AnswerResting(o) ==
  /\ up /\ sub[o] = "posting"
  /\ sub' = [sub EXCEPT ![o] = "done"]
  /\ book' = [book EXCEPT ![o] = "own"]
  /\ UNCHANGED <<market, nameless, up, settling, task, verdict, signs, released, events>>

\* Any other outcome puts nothing there.
AnswerOther(o) ==
  /\ up /\ sub[o] = "posting"
  /\ sub' = [sub EXCEPT ![o] = "done"]
  /\ UNCHANGED <<market, nameless, up, memory, signs, released, events>>

Trade(o) ==
  /\ o \in Live
  /\ filled' = [filled EXCEPT ![o] = @ + 1]
  /\ venue' = IF filled'[o] = Size THEN [venue EXCEPT ![o] = "gone"] ELSE venue
  /\ UNCHANGED <<sub, nameless, up, memory, signs, released, events>>

-----------------------------------------------------------------------------
(* What makes a rest unwanted.                                               *)

\* The control tick and the wallet task set the flags of the lane.
Steer(flags) ==
  /\ Event /\ up
  /\ flags # lane /\ lane' = flags
  /\ UNCHANGED <<market, sub, nameless, up, memory, stale, released>>

\* A rest gets old without evidence that his order is still there, or his order is
\* seen to leave its level.
Age(o) ==
  /\ Event /\ o \in Live \ stale
  /\ stale' = stale \cup {o}
  /\ UNCHANGED <<market, sub, nameless, up, memory, lane, released>>

-----------------------------------------------------------------------------
(* Taking rests down.                                                        *)

\* Variant of MustPull that leaves the rests of a closed lane to their time.
MustPullLess(o) == FALSE
\* halted_lane_must_pull: a lane that may not buy keeps no resting buy.
MustPull(o) == o \in Buys /\ lane = "closed"

\* Variant of Expired that spares what the venue does not list.
ExpiredLive == stale \cap Live
\* expired, and not renewable; or verdict HeCancelled.
Expired == stale

\* over_cap_per_lane: the oldest of too many.
OverCap == {o \in Booked : Cardinality({p \in Booked : p > o}) >= Cap}

\* What the sweep cancels: everything when no lane is armed, or rests are barred.
Doomed ==
  IF lane = "barred" THEN Booked
  ELSE {o \in Booked : MustPull(o)} \cup (Booked \cap Expired) \cup OverCap

SweepPlans ==
  /\ up /\ task["sweep"] = Idle /\ Doomed # {}
  /\ task' = [task EXCEPT !["sweep"] = [at |-> "cancel", ids |-> Doomed]]
  /\ UNCHANGED <<market, sub, nameless, up, book, settling, verdict, signs, released, events>>

\* The hot path sees him sell: the buys that rest on the token are cancelled, and
\* the sells too if he took.
HeExits(taker) ==
  LET ids == IF taker THEN Booked ELSE Booked \cap Buys IN
  /\ Event /\ up /\ task["exit"] = Idle /\ ids # {}
  /\ task' = [task EXCEPT !["exit"] = [at |-> "cancel", ids |-> ids]]
  /\ UNCHANGED <<market, sub, nameless, up, book, settling, verdict, signs, released>>

\* cancel_succeeded: cancelled now, or found to be cancelled or matched before.
CancelSaysDone(ids, hit) == hit \cup (ids \ Live)

\* cancel_batch: the venue cancels some of them; its answer says of which it is true
\* that they work no more, or is lost.
Cancel(t, hit, answered) ==
  LET done == CancelSaysDone(task[t].ids, hit) IN
  /\ up /\ task[t].at = "cancel" /\ hit \subseteq task[t].ids \cap Live
  /\ venue' = [o \in Orders |-> IF o \in hit THEN "gone" ELSE venue[o]]
  /\ task' = [task EXCEPT ![t] =
       IF answered /\ done # {} THEN [at |-> "settle", ids |-> done] ELSE Idle]
  /\ UNCHANGED <<filled, sub, nameless, up, book, settling, verdict, signs, released, events>>

\* /data/orders, as of now.
ReconReads ==
  /\ up /\ task["recon"] = Idle
  /\ task' = [task EXCEPT !["recon"] = [at |-> "rows", ids |-> {}, rows |-> Live]]
  /\ UNCHANGED <<market, sub, nameless, up, book, settling, verdict, signs, released, events>>

\* prune_is_plausible: not a third of a book at once.
Plausible(missing) ==
  \/ Cardinality(Booked) <= PruneFloor
  \/ 100 * Cardinality(missing) < 34 * Cardinality(Booked)

\* An empty list is no list, unless nothing rests.
ReconPlans ==
  LET rows == task["recon"].rows
      missing == Booked \ rows IN
  /\ up /\ task["recon"].at = "rows"
  /\ task' = [task EXCEPT !["recon"] =
       IF rows = {} /\ Booked # {} THEN Idle
       ELSE [at |-> "settle", ids |-> IF Plausible(missing) THEN missing ELSE {},
             rows |-> rows]]
  /\ UNCHANGED <<market, sub, nameless, up, book, settling, verdict, signs, released, events>>

\* Variant of Adoptable for a book that is empty.
AdoptableFirst(rows) == IF Booked = {} THEN rows \ nameless ELSE {}
\* rehydrate: what is listed, not in the book and can be attributed to a lane.
Adoptable(rows) == rows \ (Booked \cup nameless)

\* When the missing ones are settled, the unknown ones are adopted.
ReconAdopts ==
  LET t == task["recon"] IN
  /\ up /\ t.at = "settle" /\ t.ids = {}
  /\ book' = [o \in Orders |-> IF o \in Adoptable(t.rows) THEN "adopted" ELSE book[o]]
  /\ task' = [task EXCEPT !["recon"] = Idle]
  /\ UNCHANGED <<market, sub, nameless, up, settling, verdict, signs, released, events>>

-----------------------------------------------------------------------------
(* settle_cancelled_rest.                                                    *)

\* The status of an order is no verdict while it works; its trades are one as soon
\* as there are some, and are asked for when the status cannot be read.
StatusOf(o) == IF o \in Live THEN Unknown ELSE Verdict(filled[o])
TradesOf(o) == IF filled[o] = 0 THEN Unknown ELSE Verdict(filled[o])
Asked(o) ==
  {StatusOf(o), Unknown} \cup
  (IF o \notin Live \/ "blind" \in Perils THEN {TradesOf(o)} ELSE {})

\* A task settles one order at a time, or several side by side.
Turnstile(t) == t = "recon" => verdict[t] = NoVerdicts

\* Variant of TryClaim that lets everybody in.
TryClaimAlways(o) == TRUE
\* try_claim_settle: nobody else settles it.
TryClaim(o) == o \notin settling

\* A batch is done with o; when each of its orders is, the sweep and his exit are done.
Done(t, o) ==
  LET left == task[t].ids \ {o} IN
  [task EXCEPT ![t] = IF t # "recon" /\ left = {} THEN Idle ELSE [task[t] EXCEPT !.ids = left]]

\* Another task settles it, or it is not in the book any more.
Passes(t, o) ==
  /\ up /\ task[t].at = "settle" /\ o \in task[t].ids /\ verdict[t][o] = NoVerdict
  /\ Turnstile(t)
  /\ ~TryClaim(o) \/ o \notin Booked
  /\ task' = Done(t, o)
  /\ UNCHANGED <<market, sub, nameless, up, book, settling, verdict, signs, released, events>>

\* The venue is asked ...
SettleAsks(t, o, v) ==
  /\ up /\ task[t].at = "settle" /\ o \in task[t].ids /\ verdict[t][o] = NoVerdict
  /\ Turnstile(t)
  /\ TryClaim(o) /\ o \in Booked
  /\ settling' = settling \cup {o}
  /\ verdict' = [verdict EXCEPT ![t][o] = [v EXCEPT !.own = book[o] = "own"]]
  /\ UNCHANGED <<market, sub, nameless, up, book, task, signs, released, events>>

\* What it did not fill, if it is a buy of ours whose leader order is known.
GivenBack(o, v) == IF v.own /\ o \in Buys THEN Size - v.n ELSE 0

\* ... and what it says is applied: the rest leaves the book.
SettleEnds(t, o) ==
  LET v == verdict[t][o] IN
  /\ up /\ v # NoVerdict
  /\ IF v.v = "final"
     THEN /\ book' = [book EXCEPT ![o] = "no"]
          /\ released' = [released EXCEPT ![o] = @ + GivenBack(o, v)]
     ELSE UNCHANGED <<book, released>>
  /\ settling' = settling \ {o}
  /\ verdict' = [verdict EXCEPT ![t][o] = NoVerdict]
  /\ task' = Done(t, o)
  /\ UNCHANGED <<market, sub, nameless, up, signs, events>>

-----------------------------------------------------------------------------
(* The book is memory only; the rests work on.                               *)
Crash ==
  /\ Event /\ up
  /\ up' = FALSE
  /\ sub' = [o \in Orders |-> IF sub[o] = "posting" THEN "done" ELSE sub[o]]
  /\ book' = [o \in Orders |-> "no"] /\ settling' = {}
  /\ task' = [t \in Tasks |-> Idle] /\ verdict' = [t \in Tasks |-> NoVerdicts]
  /\ UNCHANGED <<market, nameless, signs, released>>

Boot ==
  /\ ~up /\ up' = TRUE
  /\ UNCHANGED <<market, sub, nameless, memory, signs, released, events>>

Asks(t, o) == \E v \in Asked(o) : SettleAsks(t, o, v)
Settles(t) == \E o \in Orders : Passes(t, o) \/ Asks(t, o) \/ SettleEnds(t, o)
Answer(o) == AnswerResting(o) \/ AnswerOther(o)
Cancels(t) == \E hit \in SUBSET Orders, answered \in BOOLEAN : Cancel(t, hit, answered)
Recon == ReconReads \/ ReconPlans \/ ReconAdopts

Next ==
  \/ \E o \in Orders : Place(o) \/ Answer(o) \/ Trade(o) \/ Age(o)
  \/ \E flags \in Flags : Steer(flags)
  \/ \E taker \in BOOLEAN : HeExits(taker)
  \/ \E t \in Tasks : Cancels(t) \/ Settles(t)
  \/ SweepPlans \/ Recon \/ Crash \/ Boot

Spec == Init /\ [][Next]_vars

\* The tasks are loops; a request ends, and of those that are repeated one succeeds.
Fairness ==
  /\ WF_vars(Boot) /\ WF_vars(\E o \in Orders : Answer(o))
  /\ WF_vars(SweepPlans \/ Cancels("sweep") \/ Settles("sweep"))
  /\ WF_vars(Cancels("exit") \/ Settles("exit"))
  /\ WF_vars(Recon \/ Settles("recon"))
  /\ SF_vars(Cancel("sweep", task["sweep"].ids \cap Live, TRUE))
  /\ SF_vars(\E t \in Tasks, o \in Orders \ Live : SettleAsks(t, o, StatusOf(o)))
FairSpec == Spec /\ Fairness

-----------------------------------------------------------------------------
(* Properties.                                                               *)

\* Every variable stays within its range; an order that is asked about is claimed.
TypeOK ==
  /\ venue \in [Orders -> {"none", "live", "gone"}] /\ filled \in [Orders -> 0..Size]
  /\ sub \in [Orders -> {"idle", "posting", "done"}]
  /\ book \in [Orders -> {"no", "own", "adopted"}]
  /\ stale \subseteq Orders
  /\ lane \in Flags
  /\ \A t \in Tasks : task[t].ids \subseteq Orders
  /\ released \in [Orders -> Nat]
  /\ settling = {o \in Orders : \E t \in Tasks : verdict[t][o] # NoVerdict}

\* What was given back to the guard of a rest is dead: whoever settled it, it is not
\* given back twice, and the venue does not fill it any more.
ReleasedIsDead ==
  "blind" \notin Perils =>
    \A o \in Orders : released[o] > 0 => venue[o] = "gone" /\ released[o] <= Size - filled[o]

\* Again and again the book has every rest at work: one that the engine does not know
\* of, because the answer was lost or a restart forgot it, is adopted or gone.
LiveRestsAreKnown == "nameless" \notin Perils => []<>(Live \subseteq Booked)

\* A lane that ends trading ends with no resting buy, one it had forgotten included.
NoBuyRestsUnwanted ==
  "nameless" \notin Perils /\ <>[](lane # "trading") => <>[](Live \cap Buys = {})

\* Rests that are gone at the venue and past their time leave the book, even when the
\* venue's list is empty or looks implausible.
GoneRestsLeave == []<>(Booked \cap stale \subseteq Live)
=============================================================================

------------------------------ MODULE OrderPath ------------------------------
(* The life of an order in the live engine, across the four durable records  *)
(* it touches: the signal guard's commitment, the pending journal (a file    *)
(* and the write-ahead log the hot path appends to), the ledger, and the     *)
(* venue's book.                                                             *)
(*                                                                           *)
(* Five kinds of process share them: the hot path, one submitter task per    *)
(* order, the pending resolver, the tasks that settle cancelled rests, and   *)
(* boot.  Each await of the code, and each lock it drops between two         *)
(* records, is a boundary between two actions.  The venue and the network    *)
(* are external.                                                             *)
EXTENDS Naturals, FiniteSets, Functions

CONSTANTS
  Lanes, LaneOf,   \* the lanes, and the one each order belongs to
  Buys, Sells,     \* the digests of the orders that may be sent
  Rests,           \* those of them sent as GTC; the others are FAK
  Salts, SaltOf,   \* the leader's orders, and the one each buy copies
  Size,            \* shares of every order
  MaxCrashes,      \* bound: how often the engine dies
  MaxFaults,       \* bound: how many appends fail or are cut short
  SlowPosts,       \* a POST may be unanswered after SETTLE_SECS
  WrongRefusals,   \* an order counted as rejected may have reached the venue
  StaleListing,    \* an open-orders listing may predate a rest
  RecycleFails     \* boot may die, or fail, between absorbing and truncating

Orders == Buys \cup Sells

ASSUME SizeAssumption == Size \in Nat \ {0}
ASSUME OrdersAssumption ==
  /\ Buys \cap Sells = {}
  /\ Rests \subseteq Orders
  /\ SaltOf \in [Buys -> Salts]
  /\ LaneOf \in [Orders -> Lanes]
ASSUME FiniteAssumption == IsFiniteSet(Orders)
ASSUME BoundsAssumption ==
  /\ MaxCrashes \in Nat
  /\ MaxFaults \in Nat
  /\ SlowPosts \in BOOLEAN
  /\ WrongRefusals \in BOOLEAN
  /\ StaleListing \in BOOLEAN
  /\ RecycleFails \in BOOLEAN

VARIABLES
  \* the venue and the network
  venue,     \* Orders -> "absent" | "live" | "closed" | "refused"
  filled,    \* Orders -> shares the venue has matched
  net,       \* Orders -> "none" | "flying" | "gone": the POST
  reply,     \* Orders -> shares matched when the POST arrived
  \* the engine's memory
  up,        \* "up" | "down" | "booting"
  phase,     \* Orders -> where the submitter task is
  open,      \* PendingLog.open
  due,       \* the rows the resolver listed and has not looked at yet
  probe,     \* Orders -> the verdict the resolver holds and has not applied
  rest,      \* Orders -> "no" | "own" | "adopted": the resting book
  settle,    \* Orders -> the verdict a rest's settlement holds
  fault,     \* whose persistence_ok is false: "ledger", "pending"
  ledger,    \* Orders -> shares booked under the order's hash
  held,      \* Lanes -> the position the bookings add up to
  copied, released,  \* Salts -> shares committed, and given back
  \* durable: the rows a replay can read, and how each file ends
  fpend, fres, ftail,  \* pending.jsonl: its pending rows, its resolved rows
  wpend, wtail,        \* wal.jsonl: its pending rows
  lfile, lheld,        \* ledger.jsonl: what a replay makes of ledger and held
  ltail, lbad,         \* ... and whether it holds a line that does not parse
  gcopied, greleased,  \* what a replay makes of the guard's table
  gbad,                \* the guard's own file holds a line that does not parse
  halted,    \* the lanes whose buys a persistence incident latches off
  \* history
  last,      \* Orders -> "none" | "pending" | "resolved": the last row about
             \* the order that the engine takes to be in the journal
  hasty,     \* orders the resolver judged while their POST was still out
  fspoiled,  \* orders of which the journal does not show what the engine wrote
  spoiled,   \* orders of which the ledger's file does not
  forgot,    \* salts of which a restart lost a commitment
  \* bounds
  crashes, faults

venueVars  == <<venue, filled, net, reply>>
pendFile   == <<fpend, fres, ftail, fspoiled>>
journal    == <<open, pendFile, wpend, wtail, last>>
books      == <<ledger, held>>
bookFile   == <<lfile, lheld, ltail, lbad, spoiled>>
guardTable == <<copied, released>>
guardFile  == <<gcopied, greleased, gbad>>
guardVars  == <<guardTable, guardFile, forgot>>
bounds     == <<crashes, faults>>
resolver   == <<due, probe, hasty>>
rests      == <<rest, settle>>
vars == <<venueVars, up, phase, journal, resolver, rests, fault, books, bookFile,
          guardVars, halted, bounds>>

Shares == 0 .. Size
Filled(n)  == [kind |-> "filled", n |-> n]
Booked(n)  == [kind |-> "booked", n |-> n]
NotFilled  == [kind |-> "not_filled", n |-> 0]
Unknown    == [kind |-> "unknown", n |-> 0]
NoVerdict  == [kind |-> "none", n |-> 0]
Verdicts   == {NotFilled, Unknown, NoVerdict} \cup {Filled(n) : n \in 1 .. Size}
Probes     == Verdicts \cup {Booked(n) : n \in 0 .. Size}

Phases == {"idle", "tracked", "posting", "matched", "booked", "release",
           "rejected", "done", "dead"}

Min2(a, b) == IF a <= b THEN a ELSE b
Max2(a, b) == IF a >= b THEN a ELSE b

Init ==
  /\ venue = [h \in Orders |-> "absent"]
  /\ filled = [h \in Orders |-> 0]
  /\ net = [h \in Orders |-> "none"]
  /\ reply = [h \in Orders |-> 0]
  /\ up = "up"
  /\ phase = [h \in Orders |-> "idle"]
  /\ open = {} /\ fpend = {} /\ fres = {} /\ ftail = "clean"
  /\ wpend = {} /\ wtail = "clean"
  /\ last = [h \in Orders |-> "none"]
  /\ due = {} /\ probe = [h \in Orders |-> NoVerdict]
  /\ rest = [h \in Orders |-> "no"]
  /\ settle = [h \in Orders |-> NoVerdict]
  /\ fault = {}
  /\ ledger = [h \in Orders |-> 0] /\ lfile = ledger
  /\ held = [l \in Lanes |-> 0] /\ lheld = held
  /\ ltail = "clean" /\ lbad = FALSE
  /\ copied = [s \in Salts |-> 0] /\ gcopied = copied
  /\ released = [s \in Salts |-> 0] /\ greleased = released
  /\ gbad = FALSE
  /\ halted = {}
  /\ hasty = {} /\ fspoiled = {} /\ spoiled = {} /\ forgot = {}
  /\ crashes = 0 /\ faults = 0

-----------------------------------------------------------------------------
(* Appends.  The four files are written unbuffered, a row in several calls.   *)
(* An append that fails leaves nothing, a fragment of its row, or the whole    *)
(* of it when only the sync failed.  The next append to a file that ends in a  *)
(* fragment is glued to it, and no replay reads either.                        *)

WriteFails ==
  /\ faults < MaxFaults
  /\ faults' = faults + 1

\* The readable rows of a file once the row of h is appended to it.
Lands(tail, S, h) == IF tail = "clean" THEN S \cup {h} ELSE S

\* A pending or a resolved row reaches pending.jsonl, glued or not.
PendRow(h) == fpend' = Lands(ftail, fpend, h) /\ UNCHANGED fres
ResRow(h)  == fres' = Lands(ftail, fres, h) /\ UNCHANGED fpend
Written(h) ==
  /\ ftail' = "clean"
  /\ fspoiled' = IF ftail = "clean" THEN fspoiled ELSE fspoiled \cup {h}

\* What a failed append of such a row leaves.
RowFails(h, Row) ==
  /\ WriteFails
  /\ \/ UNCHANGED pendFile
     \/ ftail' = "torn" /\ UNCHANGED <<fpend, fres, fspoiled>>
     \/ /\ Row /\ ftail' = "clean"
        /\ fspoiled' = IF ftail = "clean" THEN fspoiled \cup {h} ELSE fspoiled
  /\ UNCHANGED <<open, wpend, wtail, last>>

\* PendingLog::record: durable first, memory second; a failure latches.
RecordOk(h) ==
  /\ PendRow(h) /\ Written(h)
  /\ open' = open \cup {h}
  /\ last' = [last EXCEPT ![h] = "pending"]
  /\ UNCHANGED <<wpend, wtail, fault, faults>>
RecordFails(h) == RowFails(h, PendRow(h)) /\ fault' = fault \cup {"pending"}

\* What both resolve functions do once their append has succeeded.
RowResolved(h) ==
  /\ ResRow(h) /\ Written(h)
  /\ open' = open \ {h}
  /\ last' = [last EXCEPT ![h] = "resolved"]
  /\ UNCHANGED <<wpend, wtail, fault, faults>>

\* PendingLog::resolve: a failed append leaves the row open and latches nothing.
Resolve(h) ==
  \/ RowResolved(h)
  \/ RowFails(h, ResRow(h)) /\ UNCHANGED fault

\* PendingLog::resolve_booked: a failed append leaves the row open and latches.
ResolveBooked(h) ==
  \/ RowResolved(h)
  \/ RowFails(h, ResRow(h)) /\ fault' = fault \cup {"pending"}

\* The lane's position after a fill of n.
Moved(h, n, position) ==
  [position EXCEPT ![LaneOf[h]] = IF h \in Sells THEN @ - Min2(n, @) ELSE @ + n]

\* A fill row reaches the ledger's file: a replay adds it to the others of its
\* order, or, glued, counts one more line it cannot parse.
FillRow(h, n) ==
  /\ IF ltail = "clean"
     THEN /\ lfile' = [lfile EXCEPT ![h] = @ + n]
          /\ lheld' = Moved(h, n, lheld)
          /\ UNCHANGED lbad
     ELSE lbad' = TRUE /\ UNCHANGED <<lfile, lheld>>
  /\ ltail' = "clean"

\* Variant of BookFill that has no idempotency key.
BookFillTwice(h, n) ==
  /\ FillRow(h, n)
  /\ ledger' = [ledger EXCEPT ![h] = @ + n]
  /\ held' = Moved(h, n, held)
  /\ spoiled' = IF ltail = "clean" THEN spoiled ELSE spoiled \cup {h}
  /\ UNCHANGED <<fault, faults>>

\* Ledger::book_fill_ex_px: the order hash is the idempotency key; a hash that
\* is booked already yields the same receipt and appends nothing.
BookFill(h, n) ==
  /\ IF ledger[h] > 0
     THEN UNCHANGED <<books, bookFile>>
     ELSE /\ FillRow(h, n)
          /\ ledger' = [ledger EXCEPT ![h] = n]
          /\ held' = Moved(h, n, held)
          /\ spoiled' = IF ltail = "clean" THEN spoiled ELSE spoiled \cup {h}
  /\ UNCHANGED <<fault, faults>>
BookFails(h, n) ==
  /\ ledger[h] = 0
  /\ WriteFails
  /\ fault' = fault \cup {"ledger"}
  /\ \/ UNCHANGED bookFile
     \/ ltail' = "torn" /\ UNCHANGED <<lfile, lheld, lbad, spoiled>>
     \/ /\ FillRow(h, n)
        /\ spoiled' = IF ltail = "clean" THEN spoiled \cup {h} ELSE spoiled
  /\ UNCHANGED books

\* What may be booked of a fill of n: a sell is clamped to the position.
Bookable(h, n) == IF h \in Sells THEN Min2(n, held[LaneOf[h]]) ELSE n

\* halt_buys_on_persistence_fault_with: every lane is latched, durably.
HaltOnFault == halted' = IF fault' # {} THEN Lanes ELSE halted

\* A row of the guard's table reaches one of its two files; a replay takes the
\* largest counts it reads.
GuardRow(s, c, r) ==
  /\ gcopied' = [gcopied EXCEPT ![s] = Max2(@, c)]
  /\ greleased' = [greleased EXCEPT ![s] = Max2(@, r)]

\* SignalGuard::release: clamped to what is outstanding; a failed append keeps
\* the commitment, and a fragment spoils the guard's file.
Release(s, n) ==
  LET back == Min2(n, copied[s] - released[s])
  IN /\ \/ back = 0 /\ UNCHANGED <<released, guardFile, faults>>
        \/ /\ back > 0
           /\ GuardRow(s, copied[s], released[s] + back)
           /\ \/ released' = [released EXCEPT ![s] = @ + back] /\ UNCHANGED faults
              \/ WriteFails /\ UNCHANGED released
           /\ UNCHANGED gbad
        \/ /\ back > 0 /\ WriteFails
           /\ gbad' \in {gbad, TRUE}
           /\ UNCHANGED <<released, gcopied, greleased>>
     /\ UNCHANGED <<copied, forgot>>

-----------------------------------------------------------------------------
(* The hot path and the submitter task of an order.                          *)

\* SignalGuard::commit_with appends the guard row and the pending row as one
\* write, the guard row first: it is the one a fragment swallows, and the guard
\* reads no further than a line it cannot parse.  The pending row has a line of
\* its own either way.
CommitRows(h) ==
  /\ IF wtail = "clean"
     THEN /\ GuardRow(SaltOf[h], copied[SaltOf[h]] + Size, released[SaltOf[h]])
          /\ UNCHANGED wtail
     ELSE wtail' = "cut" /\ UNCHANGED <<gcopied, greleased>>
  /\ wpend' = wpend \cup {h}

\* A buy passes the WAL barrier; the row is then indexed in memory.
CommitBuy(h) ==
  /\ up = "up" /\ phase[h] = "idle" /\ h \in Buys /\ LaneOf[h] \notin halted
  /\ CommitRows(h)
  /\ copied' = [copied EXCEPT ![SaltOf[h]] = @ + Size]
  /\ open' = open \cup {h}
  /\ last' = [last EXCEPT ![h] = "pending"]
  /\ phase' = [phase EXCEPT ![h] = "tracked"]
  /\ UNCHANGED <<venueVars, up, pendFile, resolver, rests, fault, books, bookFile,
                 released, gbad, forgot, halted, bounds>>

\* What a failed append leaves of the two rows: nothing, a fragment of the first,
\* the first and a fragment of the second, or both.
CommitRowsFail(h) ==
  \/ UNCHANGED <<wpend, wtail, gcopied, greleased>>
  \/ /\ wtail' = (IF wtail = "clean" THEN "torn" ELSE "cut")
     /\ UNCHANGED <<wpend, gcopied, greleased>>
  \/ /\ wtail = "clean" /\ wtail' = "torn"
     /\ GuardRow(SaltOf[h], copied[SaltOf[h]] + Size, released[SaltOf[h]])
     /\ UNCHANGED wpend
  \/ CommitRows(h)

\* Variant of CommitBuyFails that sends the order all the same.
CommitBuyAnyway(h) ==
  /\ up = "up" /\ phase[h] = "idle" /\ h \in Buys /\ LaneOf[h] \notin halted
  /\ WriteFails
  /\ CommitRowsFail(h)
  /\ phase' = [phase EXCEPT ![h] = "tracked"]
  /\ UNCHANGED <<venueVars, up, open, pendFile, last, resolver, rests, fault, books,
                 bookFile, guardTable, gbad, forgot, halted, crashes>>

\* The barrier refuses: nothing is sent, and the lane's buys are latched.
CommitBuyFails(h) ==
  /\ up = "up" /\ phase[h] = "idle" /\ h \in Buys /\ LaneOf[h] \notin halted
  /\ WriteFails
  /\ CommitRowsFail(h)
  /\ halted' = halted \cup {LaneOf[h]}
  /\ phase' = [phase EXCEPT ![h] = "done"]
  /\ UNCHANGED <<venueVars, up, open, pendFile, last, resolver, rests, fault, books,
                 bookFile, guardTable, gbad, forgot, crashes>>

\* A sell is recorded in pending.jsonl by submit_tracked before it is sent; a
\* failed record refuses the order and halts the buys.
RecordSell(h) ==
  /\ up = "up" /\ phase[h] = "idle" /\ h \in Sells /\ held[LaneOf[h]] >= Size
  /\ \/ RecordOk(h) /\ phase' = [phase EXCEPT ![h] = "tracked"] /\ UNCHANGED halted
     \/ RecordFails(h) /\ phase' = [phase EXCEPT ![h] = "done"] /\ HaltOnFault
  /\ UNCHANGED <<venueVars, up, resolver, rests, books, bookFile, guardVars, crashes>>

\* control.tick: while the ledger cannot persist or has lines it cannot parse,
\* every lane's buys are latched.
Tick ==
  /\ up = "up" /\ "ledger" \in fault /\ halted # Lanes
  /\ halted' = Lanes
  /\ UNCHANGED <<venueVars, up, phase, journal, resolver, rests, fault, books,
                 bookFile, guardVars, bounds>>

\* race_submit hands the POST to the network.
Post(h) ==
  /\ up = "up" /\ phase[h] = "tracked"
  /\ phase' = [phase EXCEPT ![h] = "posting"]
  /\ net' = [net EXCEPT ![h] = "flying"]
  /\ UNCHANGED <<venue, filled, reply, up, journal, resolver, rests, fault,
                 books, bookFile, guardVars, halted, bounds>>

\* Outcome::Matched, with the shares the venue reported when the POST arrived.
AnswerMatched(h) ==
  /\ up = "up" /\ phase[h] = "posting" /\ reply[h] > 0
  /\ phase' = [phase EXCEPT ![h] = "matched"]
  /\ UNCHANGED <<venueVars, up, journal, resolver, rests, fault, books, bookFile,
                 guardVars, halted, bounds>>

\* Control::book_response: the shares the answer names, under one of the names the
\* venue has for them; or it names none, and counts as rejected or ambiguous.
Named(h) == {0, reply[h]}

\* book_and_resolve, first half.  Without a receipt (an answer that names no shares,
\* a failed append, or a sell with no position) the row is left to the resolver.
BookAnswer(h) ==
  /\ up = "up" /\ phase[h] = "matched"
  /\ \E n \in {Bookable(h, m) : m \in Named(h)} :
        \/ /\ n > 0 /\ BookFill(h, n)
           /\ phase' = [phase EXCEPT ![h] = "booked"] /\ UNCHANGED halted
        \/ /\ n > 0 /\ BookFails(h, n)
           /\ phase' = [phase EXCEPT ![h] = "done"] /\ HaltOnFault
        \/ /\ n = 0
           /\ phase' = [phase EXCEPT ![h] = "done"]
           /\ halted' = IF fault # {} THEN Lanes ELSE halted
           /\ UNCHANGED <<books, bookFile, fault, faults>>
  /\ UNCHANGED <<venueVars, up, journal, resolver, rests, guardVars, crashes>>

\* book_and_resolve, second half: the row is closed with the receipt, and a
\* taker buy that filled in part goes on to give the rest back to the guard.
ResolveAnswer(h) ==
  /\ up = "up" /\ phase[h] = "booked"
  /\ ResolveBooked(h)
  /\ HaltOnFault
  /\ phase' = [phase EXCEPT ![h] =
                IF h \in Buys \ Rests /\ reply[h] < Size THEN "release" ELSE "done"]
  /\ UNCHANGED <<venueVars, up, resolver, rests, books, bookFile, guardVars, crashes>>

\* Variant of ReleaseUnfilled that gives back the whole of a partial fill.
ReleaseWhole(h) ==
  /\ up = "up" /\ h \in Buys
  /\ phase[h] \in {"release", "rejected"} /\ Release(SaltOf[h], Size)
  /\ phase' = [phase EXCEPT ![h] = "done"]
  /\ UNCHANGED <<venueVars, up, journal, resolver, rests, fault, books, bookFile,
                 halted, crashes>>

\* The guard gets back what the venue killed: the remainder of a FAK that
\* matched, or the whole of an order the venue refused.
ReleaseUnfilled(h) ==
  /\ up = "up" /\ h \in Buys
  /\ \/ phase[h] = "release" /\ Release(SaltOf[h], Size - reply[h])
     \/ phase[h] = "rejected" /\ Release(SaltOf[h], Size)
  /\ phase' = [phase EXCEPT ![h] = "done"]
  /\ UNCHANGED <<venueVars, up, journal, resolver, rests, fault, books, bookFile,
                 halted, crashes>>

\* Outcome::Rejected: submit_tracked closes the row, and a buy goes on to
\* release its commitment.
AnswerRejected(h) ==
  /\ up = "up" /\ phase[h] = "posting"
  /\ venue[h] = "refused" \/ WrongRefusals
  /\ Resolve(h)
  /\ phase' = [phase EXCEPT ![h] = IF h \in Buys THEN "rejected" ELSE "done"]
  /\ UNCHANGED <<venueVars, up, resolver, rests, books, bookFile, guardVars,
                 halted, crashes>>

\* Outcome::Resting: the order joins the resting book; its row stays open.
AnswerResting(h) ==
  /\ up = "up" /\ phase[h] = "posting" /\ h \in Rests
  /\ net[h] = "gone" /\ venue[h] \in {"live", "closed"} /\ reply[h] = 0
  /\ rest' = [rest EXCEPT ![h] = "own"]
  /\ phase' = [phase EXCEPT ![h] = "done"]
  /\ UNCHANGED <<venueVars, up, journal, resolver, settle, fault, books, bookFile,
                 guardVars, halted, bounds>>

\* The row is recorded again, under the same hash, and an error of that write is
\* dropped.
RecordAgain(h) == RecordOk(h) \/ RecordFails(h)

\* DuplicateOnly, Ambiguous, NoResponse: the venue may have it or not.
AnswerLost(h) ==
  /\ up = "up" /\ phase[h] = "posting"
  /\ RecordAgain(h)
  /\ phase' = [phase EXCEPT ![h] = "done"]
  /\ UNCHANGED <<venueVars, up, resolver, rests, books, bookFile, guardVars,
                 halted, crashes>>

-----------------------------------------------------------------------------
(* The venue and the network.                                                *)

\* The POST arrives.  The venue refuses the order, or takes it: a FAK matches
\* at once and is gone, a GTC matches what it can and rests with the remainder.
Deliver(h) ==
  /\ net[h] = "flying"
  /\ net' = [net EXCEPT ![h] = "gone"]
  /\ \/ venue' = [venue EXCEPT ![h] = "refused"] /\ UNCHANGED <<filled, reply>>
     \/ \E n \in IF h \in Rests THEN Shares ELSE Shares \ {0} :
          /\ filled' = [filled EXCEPT ![h] = n]
          /\ reply' = [reply EXCEPT ![h] = n]
          /\ venue' = [venue EXCEPT ![h] =
                        IF h \in Rests /\ n < Size THEN "live" ELSE "closed"]
  /\ UNCHANGED <<up, phase, journal, resolver, rests, fault, books, bookFile,
                 guardVars, halted, bounds>>

\* The POST is lost on the way.
Drop(h) ==
  /\ net[h] = "flying"
  /\ net' = [net EXCEPT ![h] = "gone"]
  /\ UNCHANGED <<venue, filled, reply, up, phase, journal, resolver, rests,
                 fault, books, bookFile, guardVars, halted, bounds>>

\* A resting order trades, and leaves the book when it is full.
VenueFill(h) ==
  /\ venue[h] = "live"
  /\ filled' = [filled EXCEPT ![h] = @ + 1]
  /\ venue' = [venue EXCEPT ![h] = IF filled'[h] = Size THEN "closed" ELSE "live"]
  /\ UNCHANGED <<net, reply, up, phase, journal, resolver, rests, fault, books,
                 bookFile, guardVars, halted, bounds>>

\* A resting order leaves the book: the engine's cancel arrives, or the market
\* closes.
VenueClose(h) ==
  /\ venue[h] = "live"
  /\ venue' = [venue EXCEPT ![h] = "closed"]
  /\ UNCHANGED <<filled, net, reply, up, phase, journal, resolver, rests, fault,
                 books, bookFile, guardVars, halted, bounds>>

\* /data/order: parse_order_status_kind.  A rest that is live is no verdict.
StatusOf(h) ==
  CASE venue[h] = "closed" /\ filled[h] > 0 -> Filled(filled[h])
    [] venue[h] = "closed" /\ filled[h] = 0 -> NotFilled
    [] OTHER -> Unknown

\* /data/trades: parse_trades over a complete list.  Absence is a verdict for a
\* taker only; what has traded is a fill, whatever the order still does.
TradesOf(h) ==
  CASE filled[h] > 0 -> Filled(filled[h])
    [] filled[h] = 0 /\ h \notin Rests -> NotFilled
    [] OTHER -> Unknown

-----------------------------------------------------------------------------
(* The resolver: resolve_pending lists the due rows, then asks the venue     *)
(* about each in turn and applies the answer, with no lock held in between.  *)

ResolverFree == \A h \in Orders : probe[h] = NoVerdict

\* PendingLog::due: rows of SETTLE_SECS = 5 s and older; a POST is waited for 10 s.
ListDue ==
  /\ up = "up" /\ due = {} /\ ResolverFree
  /\ due' = {h \in open : phase[h] \in {"tracked", "posting"} => SlowPosts}
  /\ UNCHANGED <<venueVars, up, phase, journal, probe, hasty, rests, fault, books,
                 bookFile, guardVars, halted, bounds>>

\* The status is asked first; without a verdict (no answer, or none yet) the
\* trades decide.  A POST is taken to have arrived, or to be lost, by the time
\* the resolver looks at a row its submitter has left.
ProbeVerdicts(h) == ({StatusOf(h), TradesOf(h)} \ {Unknown}) \cup {Unknown}
CanProbe(h) ==
  /\ up = "up" /\ h \in due /\ ResolverFree
  /\ net[h] = "flying" => phase[h] = "posting"
Probe(h, v) ==
  /\ CanProbe(h)
  /\ due' = due \ {h}
  /\ probe' = [probe EXCEPT ![h] = IF v = Unknown THEN NoVerdict ELSE v]
  /\ hasty' = IF v # Unknown /\ phase[h] \in {"tracked", "posting"}
              THEN hasty \cup {h} ELSE hasty
  /\ UNCHANGED <<venueVars, up, phase, journal, rests, fault, books, bookFile,
                 guardVars, halted, bounds>>

\* Verdict::Filled is booked; a sell with nothing left to book is closed.
ApplyFilled(h) ==
  /\ up = "up" /\ probe[h].kind = "filled"
  /\ LET n == Bookable(h, probe[h].n)
     IN \/ /\ n > 0 /\ BookFill(h, n)
           /\ probe' = [probe EXCEPT ![h] = Booked(n)] /\ UNCHANGED journal
        \/ /\ n > 0 /\ BookFails(h, n)
           /\ probe' = [probe EXCEPT ![h] = NoVerdict] /\ UNCHANGED journal
        \/ /\ n = 0 /\ Resolve(h)
           /\ probe' = [probe EXCEPT ![h] = NoVerdict] /\ UNCHANGED <<books, bookFile>>
  /\ UNCHANGED <<venueVars, up, phase, due, hasty, rests, guardVars, halted, crashes>>

\* The row is closed with the receipt, or for want of a fill.
ApplyVerdict(h) ==
  /\ up = "up"
  /\ \/ probe[h].kind = "booked" /\ ResolveBooked(h)
     \/ probe[h].kind = "not_filled" /\ Resolve(h)
  /\ probe' = [probe EXCEPT ![h] = NoVerdict]
  /\ UNCHANGED <<venueVars, up, phase, due, hasty, rests, books, bookFile, guardVars,
                 halted, crashes>>

-----------------------------------------------------------------------------
(* Resting orders.                                                           *)

\* The open-orders reconcile adopts a live order the book does not know; its
\* salt is zero, so nothing is ever released for it.
Adopt(h) ==
  /\ up = "up" /\ rest[h] = "no" /\ venue[h] = "live"
  /\ rest' = [rest EXCEPT ![h] = "adopted"]
  /\ UNCHANGED <<venueVars, up, phase, journal, resolver, settle, fault, books,
                 bookFile, guardVars, halted, bounds>>

\* settle_cancelled_rest asks about an order that was cancelled or is missing
\* from the listing: the status decides, and only if it is unreachable, the
\* trades.
SettleStart(h) ==
  /\ up = "up" /\ rest[h] # "no" /\ settle[h] = NoVerdict
  /\ venue[h] = "closed" \/ (StaleListing /\ venue[h] = "live")
  /\ \E v \in {StatusOf(h), TradesOf(h)} \ {Unknown} :
       settle' = [settle EXCEPT ![h] = v]
  /\ UNCHANGED <<venueVars, up, phase, journal, resolver, rest, fault, books,
                 bookFile, guardVars, halted, bounds>>

\* ... and then drops the rest and releases what did not fill.
SettleApply(h) ==
  /\ up = "up" /\ settle[h] # NoVerdict
  /\ rest' = [rest EXCEPT ![h] = "no"]
  /\ settle' = [settle EXCEPT ![h] = NoVerdict]
  /\ IF rest[h] = "own" /\ h \in Buys
     THEN Release(SaltOf[h], Size - settle[h].n)
     ELSE UNCHANGED <<guardVars, faults>>
  /\ UNCHANGED <<venueVars, up, phase, journal, resolver, fault, books,
                 bookFile, halted, crashes>>

-----------------------------------------------------------------------------
(* Crash and boot.                                                           *)

\* The engine dies, perhaps half way through an append.
Torn ==
  \/ UNCHANGED <<ftail, wtail, ltail, gbad, faults>>
  \/ WriteFails /\ ftail' = "torn" /\ UNCHANGED <<wtail, ltail, gbad>>
  \/ WriteFails /\ wtail' = (IF wtail = "clean" THEN "torn" ELSE "cut")
     /\ UNCHANGED <<ftail, ltail, gbad>>
  \/ WriteFails /\ ltail' = "torn" /\ UNCHANGED <<ftail, wtail, gbad>>
  \/ WriteFails /\ gbad' = TRUE /\ UNCHANGED <<ftail, wtail, ltail>>

\* The memory is lost: from here on the tables are what a replay makes of them.
Crash ==
  /\ crashes < MaxCrashes
  /\ up = "up" \/ (up = "booting" /\ RecycleFails)
  /\ crashes' = crashes + 1
  /\ up' = "down"
  /\ Torn
  /\ phase' = [h \in Orders |-> IF phase[h] \in {"idle", "done"} THEN phase[h] ELSE "dead"]
  /\ open' = {}
  /\ due' = {} /\ probe' = [h \in Orders |-> NoVerdict]
  /\ rest' = [h \in Orders |-> "no"]
  /\ settle' = [h \in Orders |-> NoVerdict]
  /\ fault' = IF lbad \/ ltail' = "torn" THEN {"ledger"} ELSE {}
  /\ ledger' = lfile /\ held' = lheld
  /\ copied' = gcopied /\ released' = greleased
  /\ forgot' = forgot \cup {s \in Salts : gcopied[s] < copied[s]}
  /\ UNCHANGED <<venueVars, fpend, fres, fspoiled, wpend, last, hasty, lfile, lheld,
                 lbad, spoiled, gcopied, greleased, halted>>

\* Variants of Replay: the log is not read, and the log is read without the
\* file's resolutions.
ReplayFileOnly == fpend \ fres
ReplayLogLast == (fpend \ fres) \cup wpend

\* PendingLog::open_with_wal: a hash resolved anywhere stays resolved for this
\* replay, whatever is recorded after it.
Replay == (fpend \cup wpend) \ fres

\* Variant of Absorb that does not rewrite the file.
AbsorbInMemory ==
  /\ up = "down" /\ ~gbad
  /\ open' = Replay
  /\ up' = "booting"
  /\ UNCHANGED <<venueVars, phase, pendFile, wpend, wtail, last, resolver, rests,
                 fault, books, bookFile, guardVars, halted, bounds>>

\* Boot refuses a guard file it cannot parse.  absorb_wal rewrites the pending
\* file with the open rows alone when the log held any; a rewrite that fails
\* retains the log.
Absorb ==
  /\ up = "down" /\ ~gbad
  /\ open' = Replay
  /\ \/ /\ up' = "booting"
        /\ IF wpend = {} THEN UNCHANGED <<fpend, fres, ftail>>
           ELSE fpend' = Replay /\ fres' = {} /\ ftail' = "clean"
     \/ /\ RecycleFails /\ wpend # {}
        /\ up' = "up"
        /\ UNCHANGED <<fpend, fres, ftail>>
  /\ UNCHANGED <<venueVars, phase, fspoiled, wpend, wtail, last, resolver, rests,
                 fault, books, bookFile, guardVars, halted, bounds>>

\* WalRecovery::finish empties the log once every consumer has absorbed it.
Recycle ==
  /\ up = "booting"
  /\ up' = "up"
  /\ \/ wpend' = {} /\ wtail' = "clean"
     \/ RecycleFails /\ UNCHANGED <<wpend, wtail>>
  /\ UNCHANGED <<venueVars, phase, open, pendFile, last, resolver, rests, fault,
                 books, bookFile, guardVars, halted, bounds>>

-----------------------------------------------------------------------------
Submitter(h) ==
  \/ CommitBuy(h) \/ CommitBuyFails(h) \/ RecordSell(h) \/ Post(h)
  \/ AnswerMatched(h) \/ BookAnswer(h) \/ ResolveAnswer(h) \/ ReleaseUnfilled(h)
  \/ AnswerRejected(h) \/ AnswerResting(h) \/ AnswerLost(h)
Venue(h) == Deliver(h) \/ Drop(h) \/ VenueFill(h) \/ VenueClose(h)
Resolver(h) ==
  (\E v \in ProbeVerdicts(h) : Probe(h, v)) \/ ApplyFilled(h) \/ ApplyVerdict(h)
Rest(h) == Adopt(h) \/ SettleStart(h) \/ SettleApply(h)
Boot == Absorb \/ Recycle

Next ==
  \/ \E h \in Orders : Submitter(h) \/ Venue(h) \/ Resolver(h) \/ Rest(h)
  \/ ListDue \/ Tick \/ Crash \/ Boot

Spec == Init /\ [][Next]_vars

\* The resolver loop and boot run whenever they can; a POST and the wait for its
\* answer end; a venue asked again and again answers.  What a submitter does with an
\* answer is left to chance: it may stop anywhere.
Answer(h) == AnswerMatched(h) \/ AnswerRejected(h) \/ AnswerResting(h) \/ AnswerLost(h)
Told(h) == IF ProbeVerdicts(h) = {Unknown} THEN {Unknown} ELSE ProbeVerdicts(h) \ {Unknown}
Fairness ==
  /\ WF_vars(ListDue) /\ WF_vars(Boot)
  /\ \A h \in Orders :
       /\ WF_vars(Deliver(h) \/ Drop(h)) /\ WF_vars(Answer(h))
       /\ SF_vars(\E v \in Told(h) : Probe(h, v))
       /\ WF_vars(ApplyFilled(h) \/ ApplyVerdict(h))
FairSpec == Spec /\ Fairness

-----------------------------------------------------------------------------
(* Properties.                                                               *)

VenueTypes ==
  /\ venue \in [Orders -> {"absent", "live", "closed", "refused"}]
  /\ filled \in [Orders -> Shares]
  /\ net \in [Orders -> {"none", "flying", "gone"}]
  /\ reply \in [Orders -> Shares]
TaskTypes ==
  /\ up \in {"up", "down", "booting"}
  /\ phase \in [Orders -> Phases]
  /\ due \subseteq Orders
  /\ probe \in [Orders -> Probes]
  /\ hasty \subseteq Orders
  /\ rest \in [Orders -> {"no", "own", "adopted"}]
  /\ settle \in [Orders -> Verdicts]
JournalTypes ==
  /\ open \subseteq Orders /\ fpend \subseteq Orders /\ fres \subseteq Orders
  /\ wpend \subseteq Orders /\ fspoiled \subseteq Orders
  /\ ftail \in {"clean", "torn"} /\ wtail \in {"clean", "torn", "cut"}
  /\ last \in [Orders -> {"none", "pending", "resolved"}]
BookTypes ==
  /\ ledger \in [Orders -> Nat] /\ held \in [Lanes -> Nat]
  /\ lfile \in [Orders -> Nat] /\ lheld \in [Lanes -> Nat]
  /\ ltail \in {"clean", "torn"} /\ lbad \in BOOLEAN
  /\ spoiled \subseteq Orders
GuardTypes ==
  /\ copied \in [Salts -> Nat] /\ released \in [Salts -> Nat]
  /\ gcopied \in [Salts -> Nat] /\ greleased \in [Salts -> Nat]
  /\ gbad \in BOOLEAN /\ forgot \subseteq Salts
FlagTypes ==
  /\ fault \subseteq {"ledger", "pending"} /\ halted \subseteq Lanes
  /\ crashes \in Nat /\ faults \in Nat

\* Every variable stays within its range.
TypeOK ==
  VenueTypes /\ TaskTypes /\ JournalTypes /\ BookTypes /\ GuardTypes /\ FlagTypes

\* A taker buy that filled at the venue and is not in the ledger is known to
\* somebody: its submitter, or an open row, in memory or on disk.  Two exceptions:
\* its row was judged while its POST was out, or a restart found the ledger's
\* file damaged where the fill was, and then persistence_ok says so.
Known(h) ==
  IF up = "up" THEN h \in open \/ phase[h] \in {"posting", "matched"}
               ELSE h \in Replay
Announced(h) == h \in spoiled /\ "ledger" \in fault
NoFillForgotten ==
  \A h \in Buys \ Rests :
    filled[h] > 0 /\ ledger[h] = 0 => Known(h) \/ Announced(h) \/ h \in hasty

\* What the guard counts as copied of one of his orders covers every share the
\* venue matched for it, and every share still working there: no release ever
\* gives back a share that was, or still may be, bought, and no restart forgets
\* one but by a bad line in the log.
Outstanding(s) == copied[s] - released[s]
CopiesOf(s) == {h \in Buys : SaltOf[h] = s}
Spoken(h) == IF venue[h] = "live" THEN Size ELSE filled[h]
CommitmentCoversOrders ==
  \A s \in Salts \ forgot :
    Outstanding(s) >= SumFunctionOnSet([h \in Orders |-> Spoken(h)], CopiesOf(s))

\* While the engine runs, a restart would find every row it holds open, but for
\* those a damaged append concerns; the row of a buy is on disk even then, for it
\* has a line of its own in the log and a rewritten file does not end torn.
OpenRowsAreDurable ==
  up = "up" =>
    /\ open \ (fspoiled \cup hasty) \subseteq Replay
    /\ open \cap Buys \subseteq fpend \cup wpend

\* An order that the engine closed is not open, unless the journal's line of it
\* was damaged: no replay raises it again and reserves its shares a second time.
ResolvedStaysResolved == \A h \in open \ fspoiled : last[h] # "resolved"

\* A filled buy reaches the ledger, in full if it was a taker, unless its row was
\* judged while its POST was out, the ledger's file lost or doubled it, or boot
\* refuses the guard's file.
InLedger(h) == ledger[h] > 0 /\ (h \notin Rests => ledger[h] = filled[h])
FilledBuyIsBooked ==
  \A h \in Buys : (venue[h] = "closed" /\ filled[h] > 0) ~>
                    (InLedger(h) \/ h \in hasty \cup spoiled \/ gbad)

\* Each order's fill is booked in one piece, once, and never beyond the venue's
\* account of it, restarts included, as long as its rows in the ledger's file
\* are what the engine takes them to be: the path implements ExactlyOnce.
Once == INSTANCE ExactlyOnce WITH truth <- filled, booked <- ledger
ExactlyOnceSpec == Once!Spec
=============================================================================

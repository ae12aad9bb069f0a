--------------------------- MODULE OrderPathProofs ---------------------------
(* Proofs about OrderPath, for every set of orders, size and bound.          *)
EXTENDS OrderPath, RaceSend, Sums

\* The order's POST and the venue's account of it go together: an order that
\* has not arrived has matched nothing, one that still works has room left, and
\* the reply never overstates the match.
VenueInv ==
  \A h \in Orders :
    /\ net[h] # "gone" => filled[h] = 0 /\ reply[h] = 0 /\ venue[h] = "absent"
    /\ venue[h] = "live" => filled[h] < Size
    /\ reply[h] <= filled[h]
    /\ phase[h] \in {"idle", "tracked"} => net[h] = "none"

\* The guard never gave back more than it had committed, in memory or on disk,
\* and the disk knows of all it gave back.
GuardInv ==
  \A s \in Salts : /\ released[s] <= copied[s] /\ greleased[s] <= gcopied[s]
                   /\ released[s] <= greleased[s]

TypeInv == TypeOK /\ VenueInv /\ GuardInv

\* The smaller of two numbers is a number, and below both.
LEMMA Min2Fact == ASSUME NEW a \in Nat, NEW b \in Nat
                  PROVE Min2(a, b) \in Nat /\ Min2(a, b) <= a /\ Min2(a, b) <= b
  BY DEF Min2

\* The larger of two numbers is one of them, and above both.
LEMMA Max2Fact == ASSUME NEW a \in Nat, NEW b \in Nat
                  PROVE Max2(a, b) \in {a, b} /\ Max2(a, b) >= a /\ Max2(a, b) >= b
  BY DEF Max2

\* The verdicts are records over the shares an order may match.
LEMMA VerdictFact ==
  /\ NoVerdict \in Probes /\ NoVerdict \in Verdicts
  /\ NotFilled \in Verdicts /\ Unknown \in Verdicts
  /\ Verdicts \subseteq Probes
  /\ \A n \in 1 .. Size : Filled(n) \in Verdicts /\ Booked(n) \in Probes
  /\ \A v \in Verdicts : v.n \in Shares
  /\ \A v \in Probes : v.n \in Shares
  <1>1. \A v \in {NotFilled, Unknown, NoVerdict} : v.n \in Shares
    BY SizeAssumption DEF Shares, NotFilled, Unknown, NoVerdict
  <1>2. \A n \in Shares : Filled(n).n \in Shares /\ Booked(n).n \in Shares
    BY DEF Filled, Booked
  <1>3. 1 .. Size \subseteq Shares
    BY SizeAssumption DEF Shares
  <1>4. \A v \in Verdicts : v.n \in Shares
    BY <1>1, <1>2, <1>3 DEF Verdicts
  <1>5. \A v \in Probes : v.n \in Shares
    BY <1>2, <1>4 DEF Probes, Shares
  <1>6. \A n \in 1 .. Size : Filled(n) \in Verdicts /\ Booked(n) \in Probes
    BY <1>3 DEF Verdicts, Probes, Shares
  <1> QED
    BY <1>4, <1>5, <1>6 DEF Probes, Verdicts

\* A verdict that says filled carries one share at least.
LEMMA FilledProbeFact ==
  \A v \in Probes : v.kind = "filled" => v.n \in 1 .. Size
  BY SizeAssumption DEF Probes, Verdicts, NoVerdict, NotFilled, Unknown, Filled,
     Booked

\* What the venue answers of an order is a verdict.
LEMMA StatusFact ==
  ASSUME VenueTypes, NEW h \in Orders PROVE StatusOf(h) \in Verdicts
  <1>1. filled[h] \in Shares /\ (filled[h] > 0 \/ filled[h] = 0)
    BY SizeAssumption DEF VenueTypes, Shares
  <1>2. filled[h] > 0 => Filled(filled[h]) \in Verdicts
    BY <1>1, VerdictFact, SizeAssumption DEF Shares
  <1> QED
    BY <1>1, <1>2, VerdictFact DEF StatusOf

\* So is what the trade history tells of it.
LEMMA TradesFact ==
  ASSUME VenueTypes, NEW h \in Orders PROVE TradesOf(h) \in Verdicts
  <1>1. filled[h] \in Shares /\ (filled[h] > 0 \/ filled[h] = 0)
    BY SizeAssumption DEF VenueTypes, Shares
  <1>2. filled[h] > 0 => Filled(filled[h]) \in Verdicts
    BY <1>1, VerdictFact, SizeAssumption DEF Shares
  <1> QED
    BY <1>1, <1>2, VerdictFact DEF TradesOf

\* What is booked of a sell is clamped to what is held (book_response).
LEMMA BookableFact ==
  ASSUME BookTypes, NEW h \in Orders, NEW n \in Shares
  PROVE Bookable(h, n) \in Shares /\ Bookable(h, n) <= n
  <1>1. held[LaneOf[h]] \in Nat /\ n \in Nat
    BY OrdersAssumption, SizeAssumption DEF BookTypes, Shares
  <1> QED
    BY <1>1, SizeAssumption, Min2Fact DEF Bookable, Shares

\* A fill moves the position of its lane by a number of shares.
LEMMA MovedFact ==
  ASSUME NEW h \in Orders, NEW n \in Nat, NEW position \in [Lanes -> Nat]
  PROVE Moved(h, n, position) \in [Lanes -> Nat]
  <1>1. LaneOf[h] \in Lanes /\ position[LaneOf[h]] \in Nat
    BY OrdersAssumption
  <1>2. /\ Min2(n, position[LaneOf[h]]) \in Nat
        /\ Min2(n, position[LaneOf[h]]) <= position[LaneOf[h]]
    BY <1>1, Min2Fact
  <1>3. /\ position[LaneOf[h]] - Min2(n, position[LaneOf[h]]) \in Nat
        /\ position[LaneOf[h]] + n \in Nat
    BY <1>1, <1>2
  <1> QED
    BY <1>3 DEF Moved

\* A fill row that reaches the ledger's file adds its shares to those of its
\* order, or is lost with the line it is glued to.
LEMMA FillRowFact ==
  ASSUME BookTypes, NEW h \in Orders, NEW n \in Nat, FillRow(h, n)
  PROVE /\ lfile' \in [Orders -> Nat] /\ lheld' \in [Lanes -> Nat]
        /\ lbad' \in BOOLEAN /\ ltail' = "clean"
        /\ ltail = "clean" => lfile' = [lfile EXCEPT ![h] = @ + n] /\ lbad' = lbad
        /\ ltail # "clean" => lfile' = lfile /\ lbad'
  <1>1. CASE ltail = "clean"
    BY <1>1, MovedFact DEF FillRow, BookTypes
  <1>2. CASE ltail # "clean"
    BY <1>2 DEF FillRow, BookTypes
  <1> QED
    BY <1>1, <1>2

\* What a booking does to the ledger: nothing if the order is booked already
\* (Ledger::book_fill_ex_px), and nothing to the ledger's memory if it fails.
LEMMA BookingFact ==
  ASSUME BookTypes, NEW h \in Orders, NEW n \in Nat, BookFill(h, n) \/ BookFails(h, n)
  PROVE /\ BookTypes'
        /\ ledger' = ledger \/ (ledger[h] = 0 /\ ledger' = [ledger EXCEPT ![h] = n])
        /\ spoiled' \in {spoiled, spoiled \cup {h}}
  <1> USE DEF BookTypes
  <1>1. CASE BookFails(h, n)
    <2>1. CASE FillRow(h, n) /\ spoiled' \in {spoiled, spoiled \cup {h}}
      <3>1. ledger' = ledger /\ held' = held
        BY <1>1 DEF BookFails, books
      <3> QED
        BY <2>1, <3>1, FillRowFact
    <2>2. CASE ltail' = "torn" /\ UNCHANGED <<lfile, lheld, lbad, spoiled>>
      BY <1>1, <2>2 DEF BookFails, books
    <2>3. CASE UNCHANGED bookFile
      BY <1>1, <2>3 DEF BookFails, books, bookFile
    <2>4. \/ UNCHANGED bookFile
          \/ ltail' = "torn" /\ UNCHANGED <<lfile, lheld, lbad, spoiled>>
          \/ FillRow(h, n) /\ spoiled' \in {spoiled, spoiled \cup {h}}
      BY <1>1 DEF BookFails
    <2> QED
      BY <2>1, <2>2, <2>3, <2>4
  <1>2. CASE BookFill(h, n) /\ ledger[h] > 0
    BY <1>2 DEF BookFill, books, bookFile
  <1>3. CASE BookFill(h, n) /\ ~(ledger[h] > 0)
    <2>1. ledger[h] = 0
      BY <1>3
    <2>2. held' \in [Lanes -> Nat]
      BY <1>3, MovedFact DEF BookFill
    <2>3. ledger' = [ledger EXCEPT ![h] = n] /\ spoiled' \in {spoiled, spoiled \cup {h}}
      BY <1>3 DEF BookFill
    <2>4. FillRow(h, n)
      BY <1>3 DEF BookFill
    <2>5. BookTypes'
      BY <2>2, <2>3, <2>4, FillRowFact
    <2> QED
      BY <2>1, <2>3, <2>5
  <1> QED
    BY <1>1, <1>2, <1>3

\* A row of the guard's table that reaches its file leaves counts there that are
\* no smaller, and as large as the row's.
LEMMA GuardRowFact ==
  ASSUME GuardTypes, GuardInv, NEW s \in Salts, NEW c \in Nat, NEW r \in Nat, r <= c,
         GuardRow(s, c, r)
  PROVE /\ gcopied' \in [Salts -> Nat] /\ greleased' \in [Salts -> Nat]
        /\ \A t \in Salts \ {s} : gcopied'[t] = gcopied[t] /\ greleased'[t] = greleased[t]
        /\ gcopied'[s] \in {gcopied[s], c} /\ gcopied'[s] >= gcopied[s] /\ gcopied'[s] >= c
        /\ greleased'[s] \in {greleased[s], r}
        /\ greleased'[s] >= greleased[s] /\ greleased'[s] >= r
        /\ greleased'[s] <= gcopied'[s]
  <1> USE DEF GuardTypes, GuardInv
  <1>1. /\ Max2(gcopied[s], c) \in {gcopied[s], c}
        /\ Max2(gcopied[s], c) >= gcopied[s] /\ Max2(gcopied[s], c) >= c
        /\ Max2(greleased[s], r) \in {greleased[s], r}
        /\ Max2(greleased[s], r) >= greleased[s] /\ Max2(greleased[s], r) >= r
    BY Max2Fact
  <1>2. /\ gcopied' = [gcopied EXCEPT ![s] = Max2(gcopied[s], c)]
        /\ greleased' = [greleased EXCEPT ![s] = Max2(greleased[s], r)]
    BY DEF GuardRow
  <1>3. /\ gcopied[s] \in Nat /\ greleased[s] \in Nat /\ greleased[s] <= gcopied[s]
    OBVIOUS
  <1>4. /\ gcopied'[s] = Max2(gcopied[s], c) /\ greleased'[s] = Max2(greleased[s], r)
        /\ \A t \in Salts \ {s} : gcopied'[t] = gcopied[t] /\ greleased'[t] = greleased[t]
    BY <1>2
  <1>5. gcopied' \in [Salts -> Nat] /\ greleased' \in [Salts -> Nat]
    BY <1>1, <1>2, <1>3
  <1>6. greleased'[s] <= gcopied'[s]
    BY <1>1, <1>3, <1>4
  <1> QED
    BY <1>1, <1>4, <1>5, <1>6

\* A release gives back no more than was asked, and than is outstanding; if it
\* fails it gives back nothing, though the disk may say it did.
LEMMA ReleaseFact ==
  ASSUME GuardTypes, GuardInv, NEW s \in Salts, NEW n \in Nat, faults \in Nat, Release(s, n)
  PROVE /\ GuardTypes' /\ GuardInv' /\ faults' \in Nat
        /\ copied' = copied /\ forgot' = forgot
        /\ \A t \in Salts \ {s} : greleased'[t] = greleased[t]
        /\ greleased'[s] <= greleased[s] + n
  <1> DEFINE back == Min2(n, copied[s] - released[s])
  <1>0. /\ copied[s] \in Nat /\ released[s] \in Nat /\ released[s] <= copied[s]
        /\ greleased[s] \in Nat /\ released[s] <= greleased[s]
    BY DEF GuardTypes, GuardInv
  <1>1. back \in Nat /\ back <= n /\ released[s] + back <= copied[s]
    BY <1>0, Min2Fact
  <1>2. /\ UNCHANGED <<copied, forgot>>
        /\ \/ back = 0 /\ UNCHANGED <<released, guardFile, faults>>
           \/ /\ GuardRow(s, copied[s], released[s] + back)
              /\ \/ released' = [released EXCEPT ![s] = @ + back] /\ UNCHANGED faults
                 \/ WriteFails /\ UNCHANGED released
              /\ UNCHANGED gbad
           \/ /\ WriteFails
              /\ gbad' \in {gbad, TRUE}
              /\ UNCHANGED <<released, gcopied, greleased>>
    BY DEF Release
  <1> HIDE DEF back
  <1>3. CASE back = 0 /\ UNCHANGED <<released, guardFile, faults>>
    BY <1>0, <1>2, <1>3 DEF guardFile, GuardTypes, GuardInv
  <1>4. CASE WriteFails /\ gbad' \in {gbad, TRUE} /\ UNCHANGED <<released, gcopied, greleased>>
    <2>0. gbad' \in BOOLEAN
      BY <1>4, Zenon DEF GuardTypes
    <2>1. gbad' \in BOOLEAN /\ faults' \in Nat
      BY <1>4, <2>0 DEF WriteFails
    <2>2. GuardTypes' /\ GuardInv'
      BY <1>2, <1>4, <2>1 DEF GuardTypes, GuardInv
    <2> QED
      BY <1>0, <1>2, <1>4, <2>1, <2>2
  <1>5. CASE /\ GuardRow(s, copied[s], released[s] + back)
             /\ \/ released' = [released EXCEPT ![s] = @ + back] /\ UNCHANGED faults
                \/ WriteFails /\ UNCHANGED released
             /\ UNCHANGED gbad
    <2>1. faults' \in Nat
      BY <1>5 DEF WriteFails
    <2>2. /\ gcopied' \in [Salts -> Nat] /\ greleased' \in [Salts -> Nat]
          /\ \A t \in Salts \ {s} : gcopied'[t] = gcopied[t] /\ greleased'[t] = greleased[t]
          /\ greleased'[s] \in {greleased[s], released[s] + back}
          /\ greleased'[s] >= released[s] + back
          /\ greleased'[s] <= gcopied'[s]
      BY <1>0, <1>1, <1>5, GuardRowFact
    <2>3. /\ released' \in [Salts -> Nat]
          /\ released'[s] \in {released[s], released[s] + back}
          /\ \A t \in Salts \ {s} : released'[t] = released[t]
      BY <1>0, <1>1, <1>5 DEF GuardTypes
    <2>4. GuardTypes'
      BY <1>2, <1>5, <2>2, <2>3 DEF GuardTypes
    <2>5. GuardInv'
      <3> SUFFICES ASSUME NEW t \in Salts
                   PROVE /\ released'[t] <= copied'[t] /\ greleased'[t] <= gcopied'[t]
                         /\ released'[t] <= greleased'[t]
        BY DEF GuardInv
      <3>1. CASE t = s
        BY <1>0, <1>1, <1>2, <2>2, <2>3, <3>1
      <3>2. CASE t # s
        BY <1>2, <2>2, <2>3, <3>2 DEF GuardInv
      <3> QED
        BY <3>1, <3>2
    <2>6. greleased'[s] <= greleased[s] + n
      BY <1>0, <1>1, <2>2
    <2> QED
      BY <1>2, <2>1, <2>2, <2>4, <2>5, <2>6
  <1> QED
    BY <1>2, <1>3, <1>4, <1>5

\* A row about an order is recorded, resolved, or half written.
RowMoves(h) == RecordOk(h) \/ RecordFails(h) \/ Resolve(h) \/ ResolveBooked(h)

\* Whichever of them takes place keeps the journal within its types.
LEMMA RowMovesFact ==
  ASSUME JournalTypes, FlagTypes, NEW h \in Orders, RowMoves(h)
  PROVE JournalTypes' /\ fault' \subseteq {"ledger", "pending"} /\ faults' \in Nat
  <1> USE DEF JournalTypes, FlagTypes, PendRow, ResRow, Lands, Written
  <1>1. CASE RecordOk(h)
    BY <1>1 DEF RecordOk
  <1>2. CASE RowResolved(h)
    BY <1>2 DEF RowResolved
  <1>3. CASE RowFails(h, PendRow(h)) /\ fault' = fault \cup {"pending"}
    BY <1>3 DEF RowFails, WriteFails, pendFile
  <1>4. CASE RowFails(h, ResRow(h)) /\ fault' \in {fault, fault \cup {"pending"}}
    BY <1>4 DEF RowFails, WriteFails, pendFile
  <1> QED
    BY <1>1, <1>2, <1>3, <1>4 DEF RowMoves, RecordFails, Resolve, ResolveBooked

\* What the two rows of a commitment leave in the log and in the guard's table
\* stays within their types (SignalGuard::commit_with).
LEMMA CommitRowsFact ==
  ASSUME GuardTypes, GuardInv, JournalTypes, NEW h \in Buys, CommitRows(h) \/ CommitRowsFail(h)
  PROVE /\ wpend' \in {wpend, wpend \cup {h}} /\ wtail' \in {"clean", "torn", "cut"}
        /\ gcopied' \in [Salts -> Nat] /\ greleased' = greleased
        /\ \A t \in Salts : gcopied'[t] >= gcopied[t]
        /\ CommitRows(h) => wpend' = wpend \cup {h}
  <1> DEFINE s == SaltOf[h]
  <1>0. /\ s \in Salts /\ Size \in Nat
        /\ copied[s] \in Nat /\ released[s] \in Nat /\ copied[s] + Size \in Nat
        /\ released[s] <= copied[s] + Size /\ released[s] <= greleased[s]
        /\ greleased \in [Salts -> Nat] /\ gcopied \in [Salts -> Nat]
    BY OrdersAssumption, SizeAssumption DEF GuardTypes, GuardInv
  <1> DEFINE Row == GuardRow(s, copied[s] + Size, released[s])
  <1>1. ASSUME Row
        PROVE /\ gcopied' \in [Salts -> Nat] /\ greleased' = greleased
              /\ \A t \in Salts : gcopied'[t] >= gcopied[t]
    <2>1. /\ gcopied' \in [Salts -> Nat] /\ greleased' \in [Salts -> Nat]
          /\ \A t \in Salts \ {s} : gcopied'[t] = gcopied[t] /\ greleased'[t] = greleased[t]
          /\ gcopied'[s] >= gcopied[s]
          /\ greleased'[s] \in {greleased[s], released[s]} /\ greleased'[s] >= greleased[s]
      BY <1>0, <1>1, GuardRowFact
    <2>2. greleased'[s] = greleased[s]
      BY <1>0, <2>1
    <2>3. \A t \in Salts : gcopied'[t] >= gcopied[t]
      BY <1>0, <2>1
    <2> QED
      BY <1>0, <2>1, <2>2, <2>3
  <1>2. ASSUME UNCHANGED <<gcopied, greleased>>
        PROVE /\ gcopied' \in [Salts -> Nat] /\ greleased' = greleased
              /\ \A t \in Salts : gcopied'[t] >= gcopied[t]
    BY <1>0, <1>2
  <1>3. Row \/ UNCHANGED <<gcopied, greleased>>
    BY DEF CommitRows, CommitRowsFail
  <1>4. wpend' \in {wpend, wpend \cup {h}} /\ wtail' \in {"clean", "torn", "cut"}
    BY DEF CommitRows, CommitRowsFail, JournalTypes
  <1>5. CommitRows(h) => wpend' = wpend \cup {h}
    BY DEF CommitRows
  <1> HIDE DEF Row
  <1> QED
    BY <1>1, <1>2, <1>3, <1>4, <1>5

\* The engine starts within its types, with nothing committed.
LEMMA InitTypeInv == Init => TypeInv
  <1> SUFFICES ASSUME Init PROVE TypeInv
    OBVIOUS
  <1> USE SizeAssumption, BoundsAssumption DEF Init, Shares
  <1>1. VenueTypes /\ TaskTypes
    BY VerdictFact DEF VenueTypes, TaskTypes, Phases
  <1>2. JournalTypes /\ FlagTypes
    BY DEF JournalTypes, FlagTypes
  <1>3. BookTypes
    BY DEF BookTypes
  <1>g. gbad \in BOOLEAN
    BY Zenon
  <1>4. GuardTypes /\ GuardInv
    BY <1>g DEF GuardTypes, GuardInv
  <1>5. VenueInv
    BY DEF VenueInv
  <1> QED
    BY <1>1, <1>2, <1>3, <1>4, <1>5 DEF TypeInv, TypeOK

\* No step takes the venue and the tasks out of their ranges.
LEMMA NextTaskTypes ==
  TypeInv /\ [Next]_vars => VenueTypes' /\ TaskTypes' /\ VenueInv'
  <1> DEFINE Goal == VenueTypes' /\ TaskTypes' /\ VenueInv'
  <1> SUFFICES ASSUME TypeInv, [Next]_vars PROVE Goal
    OBVIOUS
  <1> USE SizeAssumption, OrdersAssumption
      DEF TypeInv, TypeOK, VenueTypes, TaskTypes, VenueInv, Shares, Phases, Orders,
          venueVars, resolver, rests
  <1>1. ASSUME NEW h \in Orders, CommitBuy(h) PROVE Goal
    BY <1>1 DEF CommitBuy
  <1>2. ASSUME NEW h \in Orders, CommitBuyFails(h) PROVE Goal
    BY <1>2 DEF CommitBuyFails
  <1>3. ASSUME NEW h \in Orders, RecordSell(h) PROVE Goal
    BY <1>3 DEF RecordSell
  <1>4. ASSUME NEW h \in Orders, Post(h) PROVE Goal
    BY <1>4 DEF Post
  <1>5. ASSUME NEW h \in Orders, AnswerMatched(h) PROVE Goal
    BY <1>5 DEF AnswerMatched
  <1>6. ASSUME NEW h \in Orders, BookAnswer(h) PROVE Goal
    <2>1. /\ phase[h] = "matched"
          /\ phase' \in {[phase EXCEPT ![h] = p] : p \in {"booked", "done"}}
          /\ UNCHANGED <<venueVars, up, resolver, rests>>
      BY <1>6 DEF BookAnswer
    <2> QED
      BY <2>1
  <1>7. ASSUME NEW h \in Orders, ResolveAnswer(h) PROVE Goal
    BY <1>7 DEF ResolveAnswer
  <1>8. ASSUME NEW h \in Orders, ReleaseUnfilled(h) PROVE Goal
    BY <1>8 DEF ReleaseUnfilled
  <1>9. ASSUME NEW h \in Orders, AnswerRejected(h) PROVE Goal
    BY <1>9 DEF AnswerRejected
  <1>10. ASSUME NEW h \in Orders, AnswerResting(h) PROVE Goal
    BY <1>10 DEF AnswerResting
  <1>11. ASSUME NEW h \in Orders, AnswerLost(h) PROVE Goal
    BY <1>11 DEF AnswerLost
  <1>12. ASSUME NEW h \in Orders, Deliver(h) PROVE Goal
    BY <1>12 DEF Deliver
  <1>13. ASSUME NEW h \in Orders, Drop(h) PROVE Goal
    BY <1>13 DEF Drop
  <1>14. ASSUME NEW h \in Orders, VenueFill(h) PROVE Goal
    BY <1>14 DEF VenueFill
  <1>15. ASSUME NEW h \in Orders, VenueClose(h) PROVE Goal
    BY <1>15 DEF VenueClose
  <1>16. ASSUME NEW h \in Orders, NEW v \in ProbeVerdicts(h), Probe(h, v) PROVE Goal
    <2>1. v \in Verdicts
      BY StatusFact, TradesFact, VerdictFact DEF ProbeVerdicts
    <2>2. probe' \in [Orders -> Probes]
      BY <1>16, <2>1, VerdictFact DEF Probe
    <2>3. due' \subseteq Orders /\ hasty' \subseteq Orders
      BY <1>16 DEF Probe
    <2> QED
      BY <1>16, <2>2, <2>3 DEF Probe
  <1>17. ASSUME NEW h \in Orders, ApplyFilled(h) PROVE Goal
    <2>1. probe[h].n \in Shares
      BY <1>17, VerdictFact, FilledProbeFact DEF ApplyFilled
    <2> DEFINE n == Bookable(h, probe[h].n)
    <2>2. n \in Shares
      BY <2>1, BookableFact
    <2>3. n > 0 => Booked(n) \in Probes
      BY <2>2, VerdictFact
    <2>4. probe' = [probe EXCEPT ![h] = NoVerdict]
            \/ (n > 0 /\ probe' = [probe EXCEPT ![h] = Booked(n)])
      BY <1>17 DEF ApplyFilled
    <2> HIDE DEF n
    <2>5. probe' \in [Orders -> Probes]
      BY <2>3, <2>4, VerdictFact
    <2> QED
      BY <1>17, <2>5 DEF ApplyFilled
  <1>18. ASSUME NEW h \in Orders, ApplyVerdict(h) PROVE Goal
    BY <1>18, VerdictFact DEF ApplyVerdict
  <1>19. ASSUME NEW h \in Orders, Adopt(h) PROVE Goal
    BY <1>19 DEF Adopt
  <1>20. ASSUME NEW h \in Orders, SettleStart(h) PROVE Goal
    BY <1>20, StatusFact, TradesFact DEF SettleStart
  <1>21. ASSUME NEW h \in Orders, SettleApply(h) PROVE Goal
    BY <1>21, VerdictFact DEF SettleApply
  <1>22. ASSUME ListDue PROVE Goal
    BY <1>22 DEF ListDue, JournalTypes
  <1>23. ASSUME Tick PROVE Goal
    BY <1>23 DEF Tick
  <1>24. ASSUME Crash PROVE Goal
    BY <1>24, VerdictFact DEF Crash
  <1>25. ASSUME Absorb PROVE Goal
    BY <1>25 DEF Absorb
  <1>26. ASSUME Recycle PROVE Goal
    BY <1>26 DEF Recycle
  <1>27. CASE UNCHANGED vars
    BY <1>27 DEF vars
  <1> HIDE DEF Goal
  <1> QED
    BY <1>1, <1>2, <1>3, <1>4, <1>5, <1>6, <1>7, <1>8, <1>9, <1>10, <1>11,
       <1>12, <1>13, <1>14, <1>15, <1>16, <1>17, <1>18, <1>19, <1>20, <1>21,
       <1>22, <1>23, <1>24, <1>25, <1>26, <1>27
       DEF Next, Submitter, Venue, Resolver, Rest, Boot

\* No step takes a file, a table or a flag out of its range.
LEMMA NextFileTypes ==
  TypeInv /\ [Next]_vars
    => JournalTypes' /\ BookTypes' /\ GuardTypes' /\ GuardInv' /\ FlagTypes'
  <1> DEFINE Goal == JournalTypes' /\ BookTypes' /\ GuardTypes' /\ GuardInv' /\ FlagTypes'
  <1> SUFFICES ASSUME TypeInv, [Next]_vars PROVE Goal
    OBVIOUS
  <1>0. /\ JournalTypes /\ BookTypes /\ GuardTypes /\ GuardInv /\ FlagTypes
        /\ VenueTypes /\ TaskTypes /\ Size \in Nat
    BY SizeAssumption DEF TypeInv, TypeOK
  <1>j. ASSUME UNCHANGED journal PROVE JournalTypes'
    BY <1>0, <1>j DEF JournalTypes, journal, pendFile
  <1>b. ASSUME UNCHANGED <<books, bookFile>> PROVE BookTypes'
    BY <1>0, <1>b DEF BookTypes, books, bookFile
  <1>g. ASSUME UNCHANGED guardVars PROVE GuardTypes' /\ GuardInv'
    BY <1>0, <1>g DEF GuardTypes, GuardInv, guardVars, guardTable, guardFile
  <1>f. ASSUME fault' \subseteq {"ledger", "pending"}, halted' \subseteq Lanes,
               crashes' \in Nat, faults' \in Nat
        PROVE FlagTypes'
    BY <1>f DEF FlagTypes
  <1>u. ASSUME UNCHANGED <<fault, halted, bounds>> PROVE FlagTypes'
    BY <1>0, <1>u DEF FlagTypes, bounds
  <1>h. ASSUME HaltOnFault PROVE halted' \subseteq Lanes
    BY <1>0, <1>h DEF FlagTypes, HaltOnFault
  <1>1. ASSUME NEW h \in Orders, CommitBuy(h) PROVE Goal
    <2>1. h \in Buys /\ CommitRows(h)
      BY <1>1 DEF CommitBuy
    <2>2. /\ wpend' = wpend \cup {h} /\ wtail' \in {"clean", "torn", "cut"}
          /\ gcopied' \in [Salts -> Nat] /\ greleased' = greleased
          /\ \A t \in Salts : gcopied'[t] >= gcopied[t]
      BY <1>0, <2>1, CommitRowsFact
    <2>3. JournalTypes'
      BY <1>0, <1>1, <2>2 DEF CommitBuy, JournalTypes, pendFile
    <2>4. SaltOf[h] \in Salts /\ copied' = [copied EXCEPT ![SaltOf[h]] = @ + Size]
      BY <1>1, <2>1, OrdersAssumption DEF CommitBuy
    <2>5. copied' \in [Salts -> Nat] /\ \A t \in Salts : copied'[t] >= copied[t]
      BY <1>0, <2>4 DEF GuardTypes
    <2>6. UNCHANGED <<released, gbad, forgot, fault, halted, bounds, books, bookFile>>
      BY <1>1 DEF CommitBuy
    <2>7. GuardTypes' /\ GuardInv'
      BY <1>0, <2>2, <2>5, <2>6 DEF GuardTypes, GuardInv
    <2> QED
      BY <1>b, <1>u, <2>3, <2>6, <2>7
  <1>2. ASSUME NEW h \in Orders, CommitBuyFails(h) PROVE Goal
    <2>1. h \in Buys /\ CommitRowsFail(h)
      BY <1>2 DEF CommitBuyFails
    <2>2. /\ wpend' \in {wpend, wpend \cup {h}} /\ wtail' \in {"clean", "torn", "cut"}
          /\ gcopied' \in [Salts -> Nat] /\ greleased' = greleased
          /\ \A t \in Salts : gcopied'[t] >= gcopied[t]
      BY <1>0, <2>1, CommitRowsFact
    <2>3. JournalTypes'
      BY <1>0, <1>2, <2>2 DEF CommitBuyFails, JournalTypes, pendFile
    <2>4. GuardTypes' /\ GuardInv'
      BY <1>0, <1>2, <2>2 DEF CommitBuyFails, GuardTypes, GuardInv, guardTable
    <2>5. FlagTypes'
      BY <1>0, <1>2, OrdersAssumption DEF CommitBuyFails, FlagTypes, WriteFails
    <2>6. UNCHANGED <<books, bookFile>>
      BY <1>2 DEF CommitBuyFails
    <2> QED
      BY <1>b, <2>3, <2>4, <2>5, <2>6
  <1>r. ASSUME NEW h \in Orders, RowMoves(h), halted' = halted \/ HaltOnFault,
               UNCHANGED <<books, bookFile, guardVars, crashes>>
        PROVE Goal
    <2>1. JournalTypes' /\ fault' \subseteq {"ledger", "pending"} /\ faults' \in Nat
      BY <1>0, <1>r, RowMovesFact
    <2>2. halted' \subseteq Lanes /\ crashes' \in Nat
      BY <1>0, <1>r, <1>h DEF FlagTypes
    <2> QED
      BY <1>b, <1>g, <1>f, <1>r, <2>1, <2>2
  <1>3. ASSUME NEW h \in Orders, RecordSell(h) PROVE Goal
    BY <1>3, <1>r DEF RecordSell, RowMoves
  <1>k. ASSUME NEW h \in Orders, NEW n \in Nat, BookFill(h, n) \/ BookFails(h, n),
               halted' = halted \/ HaltOnFault, UNCHANGED <<journal, guardVars, crashes>>
        PROVE Goal
    <2>1. BookTypes'
      BY <1>0, <1>k, BookingFact
    <2>2. fault' \subseteq {"ledger", "pending"} /\ faults' \in Nat
      <3>1. CASE BookFill(h, n)
        BY <1>0, <3>1 DEF FlagTypes, BookFill
      <3>2. CASE BookFails(h, n)
        <4>1. fault' = fault \cup {"ledger"} /\ faults' = faults + 1
          BY <3>2 DEF BookFails, WriteFails
        <4> QED
          BY <1>0, <4>1 DEF FlagTypes
      <3> QED
        BY <1>k, <3>1, <3>2
    <2>3. halted' \subseteq Lanes /\ crashes' \in Nat
      BY <1>0, <1>k, <1>h DEF FlagTypes
    <2> QED
      BY <1>j, <1>g, <1>f, <1>k, <2>1, <2>2, <2>3
  <1>4. ASSUME NEW h \in Orders, BookAnswer(h) PROVE Goal
    <2>1. \A m \in Named(h) : m \in Shares
      BY <1>0 DEF Named, VenueTypes, Shares
    <2>2. \A m \in Named(h) : Bookable(h, m) \in Nat
      BY <1>0, <2>1, BookableFact DEF Shares
    <2>3. PICK n \in Nat :
            \/ n > 0 /\ BookFill(h, n) /\ UNCHANGED halted
            \/ n > 0 /\ BookFails(h, n) /\ HaltOnFault
            \/ /\ halted' = IF fault # {} THEN Lanes ELSE halted
               /\ UNCHANGED <<books, bookFile, fault, faults>>
      BY <1>4, <2>2 DEF BookAnswer
    <2>4. UNCHANGED <<journal, guardVars, crashes>>
      BY <1>4 DEF BookAnswer
    <2>5. CASE /\ halted' = IF fault # {} THEN Lanes ELSE halted
               /\ UNCHANGED <<books, bookFile, fault, faults>>
      <3>1. FlagTypes'
        BY <1>0, <2>4, <2>5 DEF FlagTypes
      <3> QED
        BY <1>j, <1>b, <1>g, <2>4, <2>5, <3>1
    <2> QED
      BY <1>k, <2>3, <2>4, <2>5
  <1>5. ASSUME NEW h \in Orders, ResolveAnswer(h) \/ AnswerRejected(h) \/ AnswerLost(h)
        PROVE Goal
    BY <1>5, <1>r DEF ResolveAnswer, AnswerRejected, AnswerLost, RecordAgain, RowMoves
  <1>l. ASSUME NEW s \in Salts, NEW n \in Nat, Release(s, n),
               UNCHANGED <<journal, books, bookFile, fault, halted, crashes>>
        PROVE Goal
    <2>1. GuardTypes' /\ GuardInv' /\ faults' \in Nat
      BY <1>0, <1>l, ReleaseFact DEF FlagTypes
    <2>2. FlagTypes'
      BY <1>0, <1>l, <2>1 DEF FlagTypes
    <2> QED
      BY <1>j, <1>b, <1>l, <2>1, <2>2
  <1>6. ASSUME NEW h \in Orders, ReleaseUnfilled(h) PROVE Goal
    <2>1. h \in Buys /\ SaltOf[h] \in Salts /\ Size - reply[h] \in Nat
      BY <1>0, <1>6, OrdersAssumption DEF ReleaseUnfilled, VenueTypes, Shares
    <2> QED
      BY <1>0, <1>6, <1>l, <2>1 DEF ReleaseUnfilled
  <1>7. ASSUME NEW h \in Orders, SettleApply(h) PROVE Goal
    <2>1. CASE rest[h] = "own" /\ h \in Buys
      <3>1. SaltOf[h] \in Salts /\ settle[h].n \in Shares
        BY <1>0, <2>1, OrdersAssumption, VerdictFact DEF TaskTypes
      <3>2. Size - settle[h].n \in Nat
        BY <1>0, <3>1 DEF Shares
      <3> QED
        BY <1>7, <1>l, <2>1, <3>1, <3>2 DEF SettleApply
    <2>2. CASE ~(rest[h] = "own" /\ h \in Buys)
      BY <1>7, <1>j, <1>b, <1>g, <1>u, <2>2 DEF SettleApply, bounds
    <2> QED
      BY <2>1, <2>2
  <1>8. ASSUME NEW h \in Orders, ApplyFilled(h) PROVE Goal
    <2>1. probe[h].n \in Shares
      BY <1>0, VerdictFact DEF TaskTypes
    <2> DEFINE n == Bookable(h, probe[h].n)
    <2>2. n \in Nat
      BY <1>0, <2>1, BookableFact DEF Shares
    <2>3. \/ (BookFill(h, n) \/ BookFails(h, n)) /\ UNCHANGED journal
          \/ Resolve(h) /\ UNCHANGED <<books, bookFile>>
      BY <1>8 DEF ApplyFilled
    <2>4. UNCHANGED <<guardVars, halted, crashes>>
      BY <1>8 DEF ApplyFilled
    <2> HIDE DEF n
    <2> QED
      BY <1>k, <1>r, <2>2, <2>3, <2>4 DEF RowMoves
  <1>9. ASSUME NEW h \in Orders, ApplyVerdict(h) PROVE Goal
    BY <1>9, <1>r DEF ApplyVerdict, RowMoves
  <1>10. ASSUME NEW h \in Orders,
                \/ Post(h) \/ AnswerMatched(h) \/ AnswerResting(h) \/ Venue(h)
                \/ (\E v \in ProbeVerdicts(h) : Probe(h, v)) \/ Adopt(h) \/ SettleStart(h)
         PROVE Goal
    <2>1. UNCHANGED <<journal, books, bookFile, guardVars, fault, halted, bounds>>
      BY <1>10
      DEF Post, AnswerMatched, AnswerResting, Venue, Deliver, Drop, VenueFill, VenueClose,
          Probe, Adopt, SettleStart
    <2> QED
      BY <1>j, <1>b, <1>g, <1>u, <2>1
  <1>11. CASE ListDue
    BY <1>11, <1>j, <1>b, <1>g, <1>u DEF ListDue
  <1>12. CASE Tick
    <2>1. FlagTypes'
      BY <1>0, <1>12 DEF Tick, FlagTypes, bounds
    <2> QED
      BY <1>12, <1>j, <1>b, <1>g, <2>1 DEF Tick
  <1>13. CASE Crash
    <2>1. /\ ftail' \in {"clean", "torn"} /\ ltail' \in {"clean", "torn"}
          /\ wtail' \in {"clean", "torn", "cut"} /\ faults' \in Nat
      BY <1>0, <1>13 DEF Crash, Torn, WriteFails, JournalTypes, BookTypes, FlagTypes
    <2>2. gbad' \in BOOLEAN
      <3>1. gbad' = gbad \/ gbad' = TRUE
        BY <1>13 DEF Crash, Torn
      <3> QED
        BY <1>0, <3>1 DEF GuardTypes
    <2>3. JournalTypes'
      BY <1>0, <1>13, <2>1 DEF Crash, JournalTypes
    <2>4. BookTypes'
      BY <1>0, <1>13, <2>1 DEF Crash, BookTypes
    <2>5. GuardTypes' /\ GuardInv'
      BY <1>0, <1>13, <2>2 DEF Crash, GuardTypes, GuardInv
    <2>6. FlagTypes'
      BY <1>0, <1>13, <2>1 DEF Crash, FlagTypes
    <2> QED
      BY <2>3, <2>4, <2>5, <2>6
  <1>14. CASE Absorb
    <2>1. JournalTypes'
      BY <1>0, <1>14 DEF Absorb, JournalTypes, Replay
    <2> QED
      BY <1>14, <1>b, <1>g, <1>u, <2>1 DEF Absorb
  <1>15. CASE Recycle
    <2>1. JournalTypes'
      BY <1>0, <1>15 DEF Recycle, JournalTypes, pendFile
    <2> QED
      BY <1>15, <1>b, <1>g, <1>u, <2>1 DEF Recycle
  <1>16. CASE UNCHANGED vars
    BY <1>16, <1>j, <1>b, <1>g, <1>u DEF vars
  <1> HIDE DEF Goal
  <1> QED
    BY <1>1, <1>2, <1>3, <1>4, <1>5, <1>6, <1>7, <1>8, <1>9, <1>10, <1>11,
       <1>12, <1>13, <1>14, <1>15, <1>16
       DEF Next, Submitter, Resolver, Rest, Boot

\* No step leaves the types.
LEMMA NextTypeInv == TypeInv /\ [Next]_vars => TypeInv'
  BY NextTaskTypes, NextFileTypes DEF TypeInv, TypeOK

-----------------------------------------------------------------------------
(* The books.                                                                *)

\* A verdict the resolver holds is of shares the venue had matched.
ProbeInv == \A h \in Orders : probe[h].kind = "filled" => probe[h].n <= filled[h]

\* What the ledger's file says of an order is what the ledger says of it, but for
\* the spoiled ones; a booking is missing from the file only if it holds a line
\* that does not parse; and then, or if it ends in a fragment, persistence_ok is
\* false.
LedgerInv ==
  /\ \A h \in Orders \ spoiled : lfile[h] = ledger[h]
  /\ \A h \in Orders : ledger[h] > 0 => lfile[h] > 0 \/ lbad
  /\ lbad \/ ltail = "torn" => "ledger" \in fault

BookInv == ProbeInv /\ LedgerInv

\* A booking, or one that fails, leaves the file and the ledger in step.
LEMMA BookingKeeps ==
  ASSUME BookTypes, LedgerInv, NEW h \in Orders, NEW n \in Nat \ {0},
         BookFill(h, n) \/ BookFails(h, n)
  PROVE LedgerInv'
  <1> USE DEF BookTypes, LedgerInv
  <1>1. CASE BookFill(h, n) /\ ledger[h] > 0
    BY <1>1 DEF BookFill, books, bookFile
  <1>2. CASE BookFill(h, n) /\ ~(ledger[h] > 0)
    <2>1. /\ FillRow(h, n) /\ fault' = fault
          /\ ledger' = [ledger EXCEPT ![h] = n]
          /\ spoiled' = IF ltail = "clean" THEN spoiled ELSE spoiled \cup {h}
      BY <1>2 DEF BookFill
    <2>2. ledger[h] = 0
      BY <1>2
    <2>3. CASE ltail = "clean"
      <3>1. lfile' = [lfile EXCEPT ![h] = @ + n] /\ lbad' = lbad /\ ltail' = "clean"
        BY <2>1, <2>3, FillRowFact
      <3> QED
        BY <2>1, <2>2, <2>3, <3>1
    <2>4. CASE ltail # "clean"
      <3>1. lfile' = lfile /\ lbad' /\ ltail' = "clean"
        BY <2>1, <2>4, FillRowFact
      <3>2. "ledger" \in fault
        BY <2>4
      <3> QED
        BY <2>1, <2>4, <3>1, <3>2
    <2> QED
      BY <2>3, <2>4
  <1>3. CASE BookFails(h, n)
    <2>1. ledger' = ledger /\ fault' = fault \cup {"ledger"}
      BY <1>3 DEF BookFails, books
    <2>2. CASE UNCHANGED bookFile
      BY <2>1, <2>2 DEF bookFile
    <2>3. CASE ltail' = "torn" /\ UNCHANGED <<lfile, lheld, lbad, spoiled>>
      BY <2>1, <2>3
    <2>4. CASE /\ FillRow(h, n)
               /\ spoiled' = IF ltail = "clean" THEN spoiled \cup {h} ELSE spoiled
      <3>1. CASE ltail = "clean"
        <4>1. lfile' = [lfile EXCEPT ![h] = @ + n] /\ lbad' = lbad
          BY <2>4, <3>1, FillRowFact
        <4> QED
          BY <2>1, <2>4, <3>1, <4>1
      <3>2. CASE ltail # "clean"
        <4>1. lfile' = lfile /\ lbad'
          BY <2>4, <3>2, FillRowFact
        <4> QED
          BY <2>1, <2>4, <3>2, <4>1
      <3> QED
        BY <3>1, <3>2
    <2> QED
      BY <1>3, <2>2, <2>3, <2>4 DEF BookFails
  <1> QED
    BY <1>1, <1>2, <1>3

\* What BookAnswer and ApplyFilled book, if anything, is of shares that matched.
LEMMA AnswerBooks ==
  ASSUME TypeInv, NEW h \in Orders, BookAnswer(h)
  PROVE /\ \/ \E n \in 1 .. filled[h] : BookFill(h, n) \/ BookFails(h, n)
           \/ UNCHANGED <<books, bookFile, fault>>
        /\ UNCHANGED filled
  <1>1. reply[h] \in Shares /\ reply[h] <= filled[h] /\ filled[h] \in Shares /\ BookTypes
    BY DEF TypeInv, TypeOK, VenueTypes, VenueInv
  <1>2. \A m \in Named(h) : Bookable(h, m) \in Shares /\ Bookable(h, m) <= reply[h]
    BY <1>1, BookableFact, SizeAssumption DEF Named, Shares
  <1>3. PICK n \in {Bookable(h, m) : m \in Named(h)} :
          \/ n > 0 /\ (BookFill(h, n) \/ BookFails(h, n))
          \/ UNCHANGED <<books, bookFile, fault>>
    BY DEF BookAnswer
  <1>4. n > 0 => n \in 1 .. filled[h]
    BY <1>1, <1>2, <1>3, SizeAssumption DEF Shares
  <1> QED
    BY <1>3, <1>4 DEF BookAnswer, venueVars

\* So it is with a verdict that says filled.
LEMMA VerdictBooks ==
  ASSUME TypeInv, BookInv, NEW h \in Orders, ApplyFilled(h)
  PROVE /\ \/ \E n \in 1 .. filled[h] : BookFill(h, n) \/ BookFails(h, n)
           \/ Resolve(h) /\ UNCHANGED <<books, bookFile>>
        /\ UNCHANGED filled
  <1> DEFINE n == Bookable(h, probe[h].n)
  <1>1. /\ probe[h].n \in Shares /\ filled[h] \in Shares /\ probe[h].n <= filled[h]
        /\ BookTypes
    BY VerdictFact
    DEF ApplyFilled, TypeInv, TypeOK, VenueTypes, TaskTypes, BookInv, ProbeInv
  <1>2. n \in Shares /\ n <= probe[h].n
    BY <1>1, BookableFact
  <1>3. n > 0 => n \in 1 .. filled[h]
    BY <1>1, <1>2, SizeAssumption DEF Shares
  <1> HIDE DEF n
  <1>4. \/ n > 0 /\ (BookFill(h, n) \/ BookFails(h, n))
        \/ Resolve(h) /\ UNCHANGED <<books, bookFile>>
    BY DEF ApplyFilled, n
  <1> QED
    BY <1>3, <1>4 DEF ApplyFilled, venueVars

\* A booking of shares the venue has matched is a booking of the abstract ledger,
\* or the fault of one, or none at all.
LEMMA BookStep ==
  ASSUME TypeInv, NEW h \in Orders, NEW n \in 1 .. filled[h], UNCHANGED filled,
         BookFill(h, n) \/ BookFails(h, n)
  PROVE Once!Book(h) \/ Once!Spoil(h) \/ UNCHANGED <<filled, ledger, spoiled>>
  <1>1. n \in Nat /\ BookTypes
    BY SizeAssumption DEF TypeInv, TypeOK, VenueTypes, Shares
  <1>2. /\ ledger' = ledger \/ (ledger[h] = 0 /\ ledger' = [ledger EXCEPT ![h] = n])
        /\ spoiled' \in {spoiled, spoiled \cup {h}}
    BY <1>1, BookingFact
  <1> QED
    BY <1>2 DEF Once!Book, Once!Spoil

\* The step is one of the abstract ledger's, or leaves it alone.
LedgerImplements ==
  \/ \E g \in Orders : Once!Match(g) \/ Once!Book(g) \/ Once!Spoil(g)
  \/ Once!Reread
  \/ UNCHANGED <<filled, ledger, spoiled>>

\* Every step is a step of the abstract ledger, or leaves it alone.
LEMMA LedgerStep == TypeInv /\ BookInv /\ [Next]_vars => [Once!Next]_(Once!vars)
  <1> SUFFICES ASSUME TypeInv, BookInv, [Next]_vars PROVE LedgerImplements
    BY DEF Once!Next, Once!vars, LedgerImplements
  <1>u. ASSUME UNCHANGED <<filled, ledger, spoiled>> PROVE LedgerImplements
    BY <1>u DEF LedgerImplements
  <1>k. ASSUME UNCHANGED <<filled, books, bookFile>> PROVE LedgerImplements
    BY <1>k, <1>u DEF books, bookFile
  <1>1. ASSUME NEW h \in Orders, Submitter(h), ~BookAnswer(h) PROVE LedgerImplements
    BY <1>1, <1>k
    DEF Submitter, CommitBuy, CommitBuyFails, RecordSell, Post, AnswerMatched, ResolveAnswer,
        ReleaseUnfilled, AnswerRejected, AnswerResting, AnswerLost, venueVars
  <1>2. ASSUME NEW h \in Orders, BookAnswer(h) PROVE LedgerImplements
    BY <1>2, <1>k, AnswerBooks, BookStep DEF LedgerImplements
  <1>3. ASSUME NEW h \in Orders, Deliver(h) PROVE LedgerImplements
    <2>1. filled[h] = 0 /\ filled \in [Orders -> Shares] /\ UNCHANGED <<ledger, spoiled>>
      BY <1>3 DEF Deliver, TypeInv, TypeOK, VenueTypes, VenueInv, books, bookFile
    <2>2. CASE UNCHANGED filled
      BY <2>1, <2>2, <1>u
    <2>3. ASSUME NEW n \in Shares, filled' = [filled EXCEPT ![h] = n] PROVE LedgerImplements
      <3>1. CASE n = 0
        BY <2>1, <2>3, <3>1, <1>u
      <3>2. CASE n > 0
        <4>1. n \in filled[h] + 1 .. Size
          BY <2>1, <3>2, SizeAssumption DEF Shares
        <4> QED
          BY <2>1, <2>3, <4>1 DEF Once!Match, LedgerImplements
      <3> QED
        BY <2>3, <3>1, <3>2, SizeAssumption DEF Shares
    <2> QED
      BY <1>3, <2>2, <2>3 DEF Deliver
  <1>4. ASSUME NEW h \in Orders, Drop(h) \/ VenueClose(h) PROVE LedgerImplements
    BY <1>4, <1>k DEF Drop, VenueClose
  <1>5. ASSUME NEW h \in Orders, VenueFill(h) PROVE LedgerImplements
    <2>1. filled[h] \in Shares /\ filled[h] < Size
      BY <1>5 DEF VenueFill, TypeInv, TypeOK, VenueTypes, VenueInv
    <2>2. filled[h] + 1 \in filled[h] + 1 .. Size
      BY <2>1, SizeAssumption DEF Shares
    <2>3. UNCHANGED <<ledger, spoiled>>
      BY <1>5 DEF VenueFill, books, bookFile
    <2> QED
      BY <1>5, <2>2, <2>3 DEF VenueFill, Once!Match, LedgerImplements
  <1>6. ASSUME NEW h \in Orders, NEW v \in ProbeVerdicts(h), Probe(h, v)
        PROVE LedgerImplements
    BY <1>6, <1>k DEF Probe, venueVars
  <1>7. ASSUME NEW h \in Orders, ApplyFilled(h) PROVE LedgerImplements
    BY <1>7, <1>k, VerdictBooks, BookStep DEF LedgerImplements
  <1>8. ASSUME NEW h \in Orders, ApplyVerdict(h) \/ Rest(h) PROVE LedgerImplements
    BY <1>8, <1>k DEF ApplyVerdict, Rest, Adopt, SettleStart, SettleApply, venueVars
  <1>9. CASE ListDue \/ Tick \/ Boot
    BY <1>9, <1>k DEF ListDue, Tick, Boot, Absorb, Recycle, venueVars
  <1>10. CASE Crash
    <2>1. ledger' = lfile /\ UNCHANGED <<filled, spoiled>>
      BY <1>10 DEF Crash, venueVars
    <2> QED
      BY <2>1
      DEF Once!Reread, LedgerImplements, BookInv, LedgerInv, TypeInv, TypeOK, BookTypes
  <1>11. CASE UNCHANGED vars
    BY <1>11, <1>k DEF vars, venueVars
  <1> QED
    BY <1>1, <1>2, <1>3, <1>4, <1>5, <1>6, <1>7, <1>8, <1>9, <1>10, <1>11
       DEF Next, Venue, Resolver

\* What the venue answers of an order's fills is what it has matched of them.
LEMMA AnswerFact ==
  ASSUME NEW h \in Orders, NEW v \in ProbeVerdicts(h), v.kind = "filled"
  PROVE v.n = filled[h]
  BY DEF ProbeVerdicts, StatusOf, TradesOf, Filled, NotFilled, Unknown

\* The venue never takes a match back.
LEMMA MatchGrows ==
  ASSUME TypeInv, BookInv, [Next]_vars, NEW h \in Orders
  PROVE filled[h] <= filled'[h]
  <1>0. filled \in [Orders -> Shares] /\ filled[h] \in Nat
    BY SizeAssumption DEF TypeInv, TypeOK, VenueTypes, Shares
  <1>1. ASSUME NEW g \in Orders, Once!Match(g) PROVE filled[h] <= filled'[h]
    BY <1>0, <1>1, SizeAssumption DEF Once!Match, Shares
  <1>2. ASSUME UNCHANGED filled PROVE filled[h] <= filled'[h]
    BY <1>0, <1>2
  <1> QED
    BY <1>1, <1>2, LedgerStep DEF Once!Next, Once!vars, Once!Book, Once!Spoil, Once!Reread

\* A verdict stays true: the venue only ever matches more.
LEMMA NextProbeInv == TypeInv /\ BookInv /\ [Next]_vars => ProbeInv'
  <1> SUFFICES ASSUME TypeInv, BookInv, [Next]_vars, NEW g \in Orders,
                      probe'[g].kind = "filled"
               PROVE probe'[g].n <= filled'[g]
    BY DEF ProbeInv
  <1>1. filled[g] <= filled'[g] /\ filled[g] \in Nat /\ filled'[g] \in Nat
    <2>1. filled[g] \in Shares /\ filled'[g] \in Shares
      BY NextTaskTypes DEF TypeInv, TypeOK, VenueTypes
    <2> QED
      BY <2>1, MatchGrows, SizeAssumption DEF Shares
  <1>2. CASE probe'[g] = probe[g]
    <2>1. probe[g].n \in Shares /\ probe[g].n <= filled[g]
      BY <1>2, VerdictFact DEF BookInv, ProbeInv, TypeInv, TypeOK, TaskTypes
    <2> QED
      BY <1>1, <1>2, <2>1, SizeAssumption DEF Shares
  <1>3. ASSUME NEW h \in Orders, NEW v \in ProbeVerdicts(h), Probe(h, v)
        PROVE probe'[g] = probe[g] \/ probe'[g].n = filled'[g]
    BY <1>3, AnswerFact DEF Probe, TypeInv, TypeOK, TaskTypes, NoVerdict, venueVars
  <1>4. ASSUME NEW h \in Orders, ApplyFilled(h) \/ ApplyVerdict(h)
        PROVE probe'[g] = probe[g]
    BY <1>4
    DEF ApplyFilled, ApplyVerdict, TypeInv, TypeOK, TaskTypes, NoVerdict, Booked
  <1>5. ASSUME Crash PROVE FALSE
    BY <1>5 DEF Crash, NoVerdict
  <1> USE DEF resolver
  <1>6. ASSUME NEW h \in Orders, Submitter(h) PROVE probe' = probe
    BY <1>6
    DEF Submitter, CommitBuy, CommitBuyFails, RecordSell, Post, AnswerMatched,
       BookAnswer, ResolveAnswer, ReleaseUnfilled, AnswerRejected, AnswerResting, AnswerLost
  <1>7. ASSUME NEW h \in Orders, Venue(h) \/ Rest(h) PROVE probe' = probe
    BY <1>7
    DEF Venue, Rest, Deliver, Drop, VenueFill, VenueClose, Adopt, SettleStart,
       SettleApply
  <1>8. ASSUME ListDue \/ Tick \/ Boot PROVE probe' = probe
    BY <1>8 DEF ListDue, Tick, Boot, Absorb, Recycle
  <1>9. CASE UNCHANGED vars
    BY <1>2, <1>9 DEF vars
  <1> QED
    BY <1>1, <1>2, <1>3, <1>4, <1>5, <1>6, <1>7, <1>8, <1>9 DEF Next, Resolver

\* A row of the journal leaves the books alone, and takes no fault back.
LEMMA RowsKeepBooks ==
  ASSUME LedgerInv, NEW h \in Orders, RowMoves(h), UNCHANGED <<books, bookFile>>
  PROVE LedgerInv'
  <1>1. fault' \in {fault, fault \cup {"pending"}}
    BY DEF RowMoves, RecordOk, RecordFails, Resolve, ResolveBooked, RowResolved
  <1> QED
    BY <1>1 DEF LedgerInv, books, bookFile

\* Every step keeps the ledger and its file in step.
LEMMA NextLedgerInv == TypeInv /\ BookInv /\ [Next]_vars => LedgerInv'
  <1> SUFFICES ASSUME TypeInv, BookInv, [Next]_vars PROVE LedgerInv'
    OBVIOUS
  <1>0. LedgerInv /\ BookTypes /\ \A h \in Orders : filled[h] \in Nat
    BY SizeAssumption DEF BookInv, TypeInv, TypeOK, VenueTypes, Shares
  <1>u. ASSUME UNCHANGED <<books, bookFile, fault>> PROVE LedgerInv'
    BY <1>0, <1>u DEF LedgerInv, books, bookFile
  <1>k. ASSUME NEW h \in Orders, NEW n \in 1 .. filled[h], BookFill(h, n) \/ BookFails(h, n)
        PROVE LedgerInv'
    BY <1>0, <1>k, BookingKeeps
  <1>1. ASSUME NEW h \in Orders, BookAnswer(h) PROVE LedgerInv'
    BY <1>1, <1>u, <1>k, AnswerBooks
  <1>2. ASSUME NEW h \in Orders, ApplyFilled(h) PROVE LedgerInv'
    BY <1>0, <1>2, <1>k, VerdictBooks, RowsKeepBooks DEF RowMoves
  <1>3. ASSUME NEW h \in Orders, ResolveAnswer(h) \/ AnswerRejected(h) \/ AnswerLost(h)
                                   \/ ApplyVerdict(h)
        PROVE LedgerInv'
    BY <1>0, <1>3, RowsKeepBooks
    DEF ResolveAnswer, AnswerRejected, AnswerLost, RecordAgain, ApplyVerdict, RowMoves
  <1>4. ASSUME NEW h \in Orders, RecordSell(h) PROVE LedgerInv'
    BY <1>0, <1>4, RowsKeepBooks DEF RecordSell, RowMoves
  <1>5. ASSUME NEW h \in Orders,
               \/ CommitBuy(h) \/ CommitBuyFails(h) \/ Post(h) \/ AnswerMatched(h)
               \/ ReleaseUnfilled(h) \/ AnswerResting(h) \/ Venue(h) \/ Rest(h)
               \/ \E v \in ProbeVerdicts(h) : Probe(h, v)
        PROVE LedgerInv'
    <2>1. UNCHANGED <<books, bookFile, fault>>
      BY <1>5
      DEF CommitBuy, CommitBuyFails, Post, AnswerMatched, ReleaseUnfilled, AnswerResting,
          Venue, Deliver, Drop, VenueFill, VenueClose, Rest, Adopt, SettleStart, SettleApply,
          Probe
    <2> QED
      BY <2>1, <1>u
  <1>6. CASE ListDue \/ Tick \/ Boot
    BY <1>6, <1>u DEF ListDue, Tick, Boot, Absorb, Recycle
  <1>7. CASE Crash
    BY <1>0, <1>7 DEF Crash, LedgerInv, BookTypes
  <1>8. CASE UNCHANGED vars
    BY <1>8, <1>u DEF vars
  <1> QED
    BY <1>1, <1>2, <1>3, <1>4, <1>5, <1>6, <1>7, <1>8
       DEF Next, Submitter, Resolver

\* Nothing is booked, and nothing is known of any order, at the start.
LEMMA InitBookInv == Init => BookInv
  BY SizeAssumption DEF Init, BookInv, ProbeInv, LedgerInv, NoVerdict

\* TypeInv and BookInv hold of every reachable state.
LEMMA Invariants == Spec => [](TypeInv /\ BookInv)
  <1>1. Init => TypeInv /\ BookInv
    BY InitTypeInv, InitBookInv
  <1>2. TypeInv /\ BookInv /\ [Next]_vars => (TypeInv /\ BookInv)'
    BY NextTypeInv, NextProbeInv, NextLedgerInv DEF BookInv
  <1> QED
    BY <1>1, <1>2, PTL DEF Spec

\* Every variable stays within its range, and no release takes back more than
\* the guard had committed, whatever crashes or fails (SignalGuard::release).
THEOREM TypeCorrect == Spec => [](TypeOK /\ GuardInv)
  <1>1. TypeInv => TypeOK /\ GuardInv
    BY DEF TypeInv
  <1> QED
    BY <1>1, Invariants, PTL

\* The order path implements the exactly-once ledger: each fill is booked in one
\* piece, once, for shares that matched, whoever of the submitter and the resolver
\* comes first; and what a restart reads is what was booked, but for orders of
\* which a failed or torn append left the ledger's file something else than the
\* engine took to be there (Ledger::book_fill_ex_px, replay).
THEOREM Refinement == Spec => ExactlyOnceSpec
  <1>1. Init => Once!Init
    BY DEF Init, Once!Init
  <1> QED
    BY <1>1, LedgerStep, Invariants, PTL DEF Spec, ExactlyOnceSpec, Once!Spec

-----------------------------------------------------------------------------
(* The rows of the journal.                                                  *)

\* Nothing is known of an order that was not sent: no row, no listing, no verdict.
FreshInv ==
  \A h \in Orders : phase[h] = "idle" =>
    /\ h \notin open /\ h \notin fpend /\ h \notin wpend /\ h \notin fres /\ h \notin due
    /\ probe[h] = NoVerdict /\ last[h] = "none"

\* Until its POST is answered an order is its submitter's, unless the resolver
\* judged it: no verdict is held on it and no resolution of it is on disk.  A
\* buy's row is, in the log or rewritten to the file.
Owned == {"tracked", "posting"}
OwnedInv ==
  \A h \in Orders : phase[h] \in Owned =>
    /\ h \notin hasty => h \notin fres /\ probe[h] = NoVerdict
    /\ h \in Buys => h \in fpend \cup wpend
    /\ up = "up"

\* While the log has yet to be emptied the file proves every open row by itself.
BootInv == up = "booting" => open \subseteq fpend \ fres

RowsInv == FreshInv /\ OwnedInv /\ BootInv /\ OpenRowsAreDurable

\* The journal is empty at the start.
LEMMA InitRowsInv == Init => RowsInv
  BY DEF Init, RowsInv, FreshInv, OwnedInv, BootInv, OpenRowsAreDurable, Owned, Replay

\* A row that is recorded keeps the rows of the journal: it is a sell's first, or
\* another of an order whose POST has been answered.
LEMMA RowsRecorded ==
  ASSUME TypeInv, RowsInv, NEW h \in Orders, RecordOk(h) \/ RecordFails(h), up = "up",
         UNCHANGED <<up, due, hasty, probe>>,
         \/ phase[h] = "idle" /\ h \in Sells
         \/ phase[h] = "posting",
         \/ phase' = [phase EXCEPT ![h] = "done"]
         \/ h \in Sells /\ RecordOk(h) /\ phase' = [phase EXCEPT ![h] = "tracked"]
  PROVE RowsInv'
  <1>0. /\ phase \in [Orders -> Phases] /\ probe \in [Orders -> Probes]
        /\ last \in [Orders -> {"none", "pending", "resolved"}] /\ JournalTypes
    BY DEF TypeInv, TypeOK, TaskTypes, JournalTypes
  <1>b. Buys \cap Sells = {} /\ Orders = Buys \cup Sells
    BY OrdersAssumption DEF Orders
  <1> USE <1>0, <1>b DEF RowsInv, FreshInv, OwnedInv, BootInv, OpenRowsAreDurable, Owned, Replay
  <1>1. CASE RecordOk(h)
    <2>1. /\ fpend' = (IF ftail = "clean" THEN fpend \cup {h} ELSE fpend)
          /\ fres' = fres /\ wpend' = wpend /\ open' = open \cup {h}
          /\ fspoiled' = (IF ftail = "clean" THEN fspoiled ELSE fspoiled \cup {h})
          /\ last' = [last EXCEPT ![h] = "pending"]
      BY <1>1 DEF RecordOk, PendRow, Lands, Written
    <2>2. h \in hasty \/ (h \notin fres /\ probe[h] = NoVerdict)
      OBVIOUS
    <2>3. h \in Buys => h \in fpend \cup wpend
      OBVIOUS
    <2>4. OpenRowsAreDurable'
      BY <2>1, <2>2, <2>3
    <2>5. FreshInv' /\ BootInv'
      BY <2>1
    <2>6. OwnedInv'
      BY <2>1, <2>2, <2>3
    <2> QED
      BY <2>4, <2>5, <2>6
  <1>2. CASE RecordFails(h) /\ phase' = [phase EXCEPT ![h] = "done"]
    <2>1. /\ UNCHANGED <<open, wpend, last, fres>>
          /\ fpend' \in {fpend, fpend \cup {h}} /\ fspoiled \subseteq fspoiled'
      BY <1>2 DEF RecordFails, RowFails, PendRow, Lands, pendFile
    <2> QED
      BY <1>2, <2>1
  <1> QED
    BY <1>1, <1>2

\* So does a row that is closed, unless it still is its submitter's and nobody
\* judged it.
LEMMA RowsClosed ==
  ASSUME TypeInv, RowsInv, NEW h \in Orders, Resolve(h) \/ ResolveBooked(h), up = "up",
         UNCHANGED <<up, due, hasty>>, phase[h] # "idle",
         probe' = probe \/ probe' = [probe EXCEPT ![h] = NoVerdict],
         \/ phase' = phase /\ (phase[h] \in Owned => h \in hasty)
         \/ \E p \in {"release", "rejected", "done"} : phase' = [phase EXCEPT ![h] = p]
  PROVE RowsInv'
  <1>0. /\ phase \in [Orders -> Phases] /\ probe \in [Orders -> Probes]
        /\ last \in [Orders -> {"none", "pending", "resolved"}] /\ JournalTypes
    BY DEF TypeInv, TypeOK, TaskTypes, JournalTypes
  <1>b. Buys \subseteq Orders
    BY DEF Orders
  <1> USE <1>0, <1>b DEF RowsInv, FreshInv, OwnedInv, BootInv, OpenRowsAreDurable, Owned, Replay
  <1>p. /\ \A g \in Orders \ {h} : phase'[g] = phase[g]
        /\ \A g \in Orders : probe'[g] \in {probe[g], NoVerdict}
        /\ phase'[h] # "idle" /\ (phase'[h] \in Owned => phase' = phase /\ h \in hasty)
    OBVIOUS
  <1>1. CASE RowResolved(h)
    <2>1. /\ fres' \in {fres, fres \cup {h}} /\ fpend' = fpend /\ wpend' = wpend
          /\ open' = open \ {h} /\ fspoiled \subseteq fspoiled'
          /\ last' = [last EXCEPT ![h] = "resolved"]
      BY <1>1 DEF RowResolved, ResRow, Lands, Written
    <2>3. OpenRowsAreDurable' /\ BootInv'
      BY <2>1
    <2>4. FreshInv'
      BY <1>p, <2>1
    <2>5. OwnedInv'
      BY <1>p, <2>1
    <2> QED
      BY <2>3, <2>4, <2>5
  <1>2. CASE RowFails(h, ResRow(h))
    <2>1. /\ UNCHANGED <<open, wpend, last, fpend>>
          /\ fres' \in {fres, fres \cup {h}}
          /\ fspoiled \subseteq fspoiled' /\ (fres' # fres => h \in fspoiled')
      BY <1>2 DEF RowFails, ResRow, Lands, pendFile
    <2>3. OpenRowsAreDurable' /\ BootInv'
      BY <2>1
    <2>4. FreshInv'
      BY <1>p, <2>1
    <2>5. OwnedInv'
      BY <1>p, <2>1
    <2> QED
      BY <2>3, <2>4, <2>5
  <1> QED
    BY <1>1, <1>2 DEF Resolve, ResolveBooked

\* Every step keeps the rows of memory within those of the disk.
LEMMA NextRowsInv == TypeInv /\ RowsInv /\ [Next]_vars => RowsInv'
  <1> SUFFICES ASSUME TypeInv, RowsInv, [Next]_vars PROVE RowsInv'
    OBVIOUS
  <1>0. /\ phase \in [Orders -> Phases] /\ probe \in [Orders -> Probes]
        /\ up \in {"up", "down", "booting"}
        /\ last \in [Orders -> {"none", "pending", "resolved"}]
        /\ Buys \subseteq Orders /\ open \subseteq Orders
    BY DEF TypeInv, TypeOK, TaskTypes, JournalTypes, Orders
  <1> USE <1>0 DEF RowsInv, FreshInv, OwnedInv, BootInv, OpenRowsAreDurable, Owned, Replay,
          journal, pendFile, resolver
  <1>1. ASSUME NEW h \in Orders, CommitBuy(h) PROVE RowsInv'
    BY <1>1 DEF CommitBuy, CommitRows
  <1>2. ASSUME NEW h \in Orders, CommitBuyFails(h) PROVE RowsInv'
    <2>1. wpend' \in {wpend, wpend \cup {h}}
      BY <1>2 DEF CommitBuyFails, CommitRowsFail, CommitRows
    <2> QED
      BY <1>2, <2>1 DEF CommitBuyFails
  <1>3. ASSUME NEW h \in Orders, RecordSell(h) PROVE RowsInv'
    BY <1>3, RowsRecorded DEF RecordSell
  <1>4. ASSUME NEW h \in Orders, Post(h) PROVE RowsInv'
    BY <1>4 DEF Post
  <1>5. ASSUME NEW h \in Orders,
               AnswerMatched(h) \/ BookAnswer(h) \/ ReleaseUnfilled(h) \/ AnswerResting(h)
        PROVE RowsInv'
    <2>1. /\ \E p \in {"matched", "booked", "done"} : phase' = [phase EXCEPT ![h] = p]
          /\ UNCHANGED <<up, journal, resolver>>
      BY <1>5 DEF AnswerMatched, BookAnswer, ReleaseUnfilled, AnswerResting
    <2> QED
      BY <2>1
  <1>6. ASSUME NEW h \in Orders, ResolveAnswer(h) PROVE RowsInv'
    BY <1>6, RowsClosed DEF ResolveAnswer
  <1>7. ASSUME NEW h \in Orders, AnswerRejected(h) PROVE RowsInv'
    BY <1>7, RowsClosed DEF AnswerRejected
  <1>8. ASSUME NEW h \in Orders, AnswerLost(h) PROVE RowsInv'
    BY <1>8, RowsRecorded DEF AnswerLost, RecordAgain
  <1>9. ASSUME NEW h \in Orders, Venue(h) \/ Rest(h) PROVE RowsInv'
    <2>1. UNCHANGED <<up, phase, journal, resolver>>
      BY <1>9
      DEF Venue, Deliver, Drop, VenueFill, VenueClose, Rest, Adopt, SettleStart, SettleApply
    <2> QED
      BY <2>1
  <1>10. ASSUME NEW h \in Orders, NEW v \in ProbeVerdicts(h), Probe(h, v) PROVE RowsInv'
    <2>1. /\ h \in due /\ due' = due \ {h} /\ UNCHANGED <<up, phase, journal>>
          /\ probe' = [probe EXCEPT ![h] = IF v = Unknown THEN NoVerdict ELSE v]
          /\ hasty' = IF v # Unknown /\ phase[h] \in {"tracked", "posting"}
                      THEN hasty \cup {h} ELSE hasty
      BY <1>10 DEF Probe, CanProbe
    <2> QED
      BY <2>1
  <1>11. ASSUME NEW h \in Orders, ApplyFilled(h) PROVE RowsInv'
    <2>1. probe[h] # NoVerdict /\ up = "up" /\ UNCHANGED <<up, phase, due, hasty>>
      BY <1>11 DEF ApplyFilled, NoVerdict
    <2>2. phase[h] # "idle" /\ (phase[h] \in Owned => h \in hasty)
      BY <2>1
    <2>3. CASE UNCHANGED journal
      <3>1. PICK v : probe' = [probe EXCEPT ![h] = v]
        BY <1>11 DEF ApplyFilled
      <3> QED
        BY <2>1, <2>2, <2>3, <3>1
    <2>4. CASE Resolve(h) /\ probe' = [probe EXCEPT ![h] = NoVerdict]
      BY <2>1, <2>2, <2>4, RowsClosed
    <2> QED
      BY <1>11, <2>3, <2>4 DEF ApplyFilled
  <1>12. ASSUME NEW h \in Orders, ApplyVerdict(h) PROVE RowsInv'
    <2>1. probe[h] # NoVerdict /\ up = "up" /\ UNCHANGED <<up, phase, due, hasty>>
      BY <1>12 DEF ApplyVerdict, NoVerdict
    <2>2. phase[h] # "idle" /\ (phase[h] \in Owned => h \in hasty)
      BY <2>1
    <2> QED
      BY <1>12, <2>1, <2>2, RowsClosed DEF ApplyVerdict
  <1>13. CASE ListDue
    BY <1>13 DEF ListDue
  <1>14. CASE Tick
    BY <1>14 DEF Tick
  <1>15. CASE Crash
    BY <1>15 DEF Crash
  <1>16. CASE Absorb
    <2>1. /\ up = "down" /\ open' = Replay /\ up' \in {"booting", "up"}
          /\ UNCHANGED <<phase, wpend, last, resolver, fspoiled>>
      BY <1>16 DEF Absorb
    <2>3. CASE up' = "booting" /\ wpend = {} /\ UNCHANGED <<fpend, fres>>
      BY <2>1, <2>3
    <2>4. CASE up' = "booting" /\ fpend' = Replay /\ fres' = {}
      BY <2>1, <2>4
    <2>5. CASE up' = "up" /\ UNCHANGED <<fpend, fres>>
      BY <2>1, <2>5
    <2> QED
      BY <1>16, <2>1, <2>3, <2>4, <2>5 DEF Absorb
  <1>17. CASE Recycle
    BY <1>17 DEF Recycle
  <1>18. CASE UNCHANGED vars
    BY <1>18 DEF vars
  <1> QED
    BY <1>1, <1>2, <1>3, <1>4, <1>5, <1>6, <1>7, <1>8, <1>9, <1>10, <1>11, <1>12, <1>13,
       <1>14, <1>15, <1>16, <1>17, <1>18
       DEF Next, Submitter, Resolver, Boot

\* While the engine runs, a restart would find every row it holds open, but for those
\* a damaged append concerns or that were judged while their POST was out; and a row
\* of every open buy is on disk even then; for any number of crashes, failed and torn
\* appends, slow answers and stale listings (PendingLog::open_with_wal, record, due).
THEOREM RowsCorrect == Spec => []OpenRowsAreDurable
  <1>1. Init => TypeInv /\ BookInv /\ RowsInv
    BY InitTypeInv, InitBookInv, InitRowsInv
  <1>2. TypeInv /\ RowsInv /\ [Next]_vars => RowsInv'
    BY NextRowsInv
  <1>3. RowsInv => OpenRowsAreDurable
    BY DEF RowsInv
  <1> QED
    BY <1>1, <1>2, <1>3, Invariants, PTL DEF Spec

\* A resolution on disk is final, but for the rows that a damaged append concerns:
\* nothing that a replay could raise was resolved after it was last recorded.  While
\* boot has yet to empty the log, the file alone counts.
LastInv ==
  /\ FreshInv
  /\ ResolvedStaysResolved
  /\ up # "booting" => \A h \in Replay \ fspoiled : last[h] # "resolved"
  /\ up = "booting" => \A h \in (fpend \ fres) \ fspoiled : last[h] # "resolved"

\* Nothing is open at the start.
LEMMA InitLastInv == Init => LastInv
  BY DEF Init, LastInv, FreshInv, ResolvedStaysResolved, Replay

\* A row that is recorded or closed keeps what is resolved resolved.
LEMMA LastKept ==
  ASSUME TypeInv, LastInv, FreshInv', NEW h \in Orders, RowMoves(h), up = "up", UNCHANGED up
  PROVE LastInv'
  <1>0. JournalTypes /\ last \in [Orders -> {"none", "pending", "resolved"}]
    BY DEF TypeInv, TypeOK, JournalTypes
  <1> USE <1>0
      DEF LastInv, ResolvedStaysResolved, Replay, JournalTypes, PendRow, ResRow, Lands, pendFile
  <1>1. CASE RecordOk(h)
    BY <1>1 DEF RecordOk, Written
  <1>2. CASE RowResolved(h)
    BY <1>2 DEF RowResolved, Written
  <1>3. CASE RowFails(h, PendRow(h))
    BY <1>3 DEF RowFails
  <1>4. CASE RowFails(h, ResRow(h))
    BY <1>4 DEF RowFails
  <1> QED
    BY <1>1, <1>2, <1>3, <1>4 DEF RowMoves, RecordFails, Resolve, ResolveBooked

\* Every step keeps what is resolved resolved, if boot empties the log it has absorbed.
LEMMA NextLastInv ==
  ASSUME ~RecycleFails PROVE TypeInv /\ RowsInv /\ LastInv /\ [Next]_vars => LastInv'
  <1> SUFFICES ASSUME TypeInv, RowsInv, LastInv, [Next]_vars PROVE LastInv'
    OBVIOUS
  <1>0. /\ last \in [Orders -> {"none", "pending", "resolved"}]
        /\ open \subseteq Orders /\ fpend \subseteq Orders /\ wpend \subseteq Orders
        /\ up \in {"up", "down", "booting"}
    BY DEF TypeInv, TypeOK, TaskTypes, JournalTypes
  <1>f. FreshInv'
    BY NextRowsInv DEF RowsInv
  <1> USE <1>0, <1>f DEF LastInv, ResolvedStaysResolved, Replay, journal, pendFile
  <1>u. ASSUME UNCHANGED <<up, journal>> PROVE LastInv'
    BY <1>u
  <1>1. ASSUME NEW h \in Orders, CommitBuy(h) PROVE LastInv'
    BY <1>1 DEF CommitBuy, CommitRows
  <1>2. ASSUME NEW h \in Orders, CommitBuyFails(h) PROVE LastInv'
    <2>1. wpend' \in {wpend, wpend \cup {h}} /\ last[h] = "none"
      BY <1>2 DEF CommitBuyFails, CommitRowsFail, CommitRows, FreshInv
    <2> QED
      BY <1>2, <2>1 DEF CommitBuyFails
  <1>3. ASSUME NEW h \in Orders,
               RecordSell(h) \/ AnswerLost(h) \/ ResolveAnswer(h) \/ AnswerRejected(h)
                 \/ ApplyVerdict(h)
        PROVE LastInv'
    BY <1>3, LastKept
    DEF RecordSell, AnswerLost, RecordAgain, ResolveAnswer, AnswerRejected, ApplyVerdict,
        RowMoves
  <1>4. ASSUME NEW h \in Orders, ApplyFilled(h) PROVE LastInv'
    BY <1>4, <1>u, LastKept DEF ApplyFilled, RowMoves
  <1>5. ASSUME NEW h \in Orders,
               Post(h) \/ AnswerMatched(h) \/ BookAnswer(h) \/ ReleaseUnfilled(h)
                 \/ AnswerResting(h)
        PROVE LastInv'
    BY <1>5, <1>u DEF Post, AnswerMatched, BookAnswer, ReleaseUnfilled, AnswerResting
  <1>6. ASSUME NEW h \in Orders, Venue(h) \/ Rest(h) PROVE LastInv'
    BY <1>6, <1>u
    DEF Venue, Deliver, Drop, VenueFill, VenueClose, Rest, Adopt, SettleStart, SettleApply
  <1>7. ASSUME NEW h \in Orders, NEW v \in ProbeVerdicts(h), Probe(h, v) PROVE LastInv'
    BY <1>7, <1>u DEF Probe
  <1>8. CASE ListDue \/ Tick
    BY <1>8, <1>u DEF ListDue, Tick
  <1>9. CASE Crash
    BY <1>9 DEF Crash
  <1>10. CASE Absorb
    BY <1>10 DEF Absorb
  <1>11. CASE Recycle
    BY <1>11 DEF Recycle
  <1>12. CASE UNCHANGED vars
    BY <1>12, <1>u DEF vars
  <1> QED
    BY <1>1, <1>2, <1>3, <1>4, <1>5, <1>6, <1>7, <1>8, <1>9, <1>10, <1>11, <1>12
       DEF Next, Submitter, Resolver, Boot

\* An order whose last row is a resolution is never open again, whatever is recorded,
\* replayed or crashes, but for orders of which a failed or torn append left the journal
\* something else than the engine wrote, and if boot empties the log it has absorbed
\* (PendingLog::resolve, absorb_wal).
THEOREM ResolvedCorrect == ASSUME ~RecycleFails PROVE Spec => []ResolvedStaysResolved
  <1>1. Init => TypeInv /\ BookInv /\ RowsInv /\ LastInv
    BY InitTypeInv, InitBookInv, InitRowsInv, InitLastInv
  <1>2. TypeInv /\ RowsInv /\ LastInv /\ [Next]_vars => RowsInv' /\ LastInv'
    BY NextRowsInv, NextLastInv
  <1>3. LastInv => ResolvedStaysResolved
    BY DEF LastInv
  <1> QED
    BY <1>1, <1>2, <1>3, Invariants, PTL DEF Spec

-----------------------------------------------------------------------------
(* No fill is forgotten.                                                     *)

\* What the venue and the resolver know of an order: a taker never works at the venue, a
\* refused order matched nothing, a receipt is of a booking, and the word that a taker did
\* not fill is final, unless its POST was out.
MayFill(h) == net[h] = "flying" \/ filled[h] > 0 \/ phase[h] \in Owned
FinalInv ==
  \A h \in Orders :
    /\ h \notin Rests => venue[h] # "live"
    /\ venue[h] = "refused" => filled[h] = 0
    /\ phase[h] = "booked" \/ probe[h].kind = "booked" => ledger[h] > 0
    /\ probe[h].kind = "not_filled" /\ h \notin Rests /\ h \notin hasty => ~MayFill(h)

\* A taker buy that filled, or still may, and is not booked, has an open row: on disk, and
\* in memory while there is one.  The exceptions: it was judged too early, or the ledger's
\* file has a line in its place that does not parse.
Lost(h) == h \in hasty \/ (h \in spoiled /\ lbad)
RowsOnDisk == IF up = "booting" THEN fpend \ fres ELSE Replay
KeptInv ==
  \A h \in Buys \ Rests :
    MayFill(h) /\ ledger[h] = 0 /\ ~Lost(h) =>
      h \in RowsOnDisk /\ (up # "down" => h \in open)

\* Nothing was sent at the start.
LEMMA InitKeptInv == Init => FinalInv /\ KeptInv
  BY DEF Init, FinalInv, KeptInv, MayFill, Owned, NoVerdict, Orders

\* A booking never makes a booked order unbooked.
LEMMA BookingGrows ==
  ASSUME BookTypes, NEW h \in Orders, NEW n \in Nat \ {0}, BookFill(h, n) \/ BookFails(h, n)
  PROVE \A g \in Orders : ledger[g] > 0 => ledger'[g] > 0
  <1>1. ledger' = ledger \/ (ledger[h] = 0 /\ ledger' = [ledger EXCEPT ![h] = n])
    BY BookingFact
  <1> QED
    BY <1>1 DEF BookTypes

\* Every step keeps what is known of an order.
LEMMA NextFinalInv == TypeInv /\ BookInv /\ RowsInv /\ FinalInv /\ [Next]_vars => FinalInv'
  <1> SUFFICES ASSUME TypeInv, BookInv, RowsInv, FinalInv, [Next]_vars PROVE FinalInv'
    OBVIOUS
  <1>0. /\ phase \in [Orders -> Phases] /\ probe \in [Orders -> Probes]
        /\ venue \in [Orders -> {"absent", "live", "closed", "refused"}]
        /\ filled \in [Orders -> Nat]
        /\ net \in [Orders -> {"none", "flying", "gone"}]
        /\ ledger \in [Orders -> Nat] /\ BookTypes
    BY SizeAssumption DEF TypeInv, TypeOK, TaskTypes, VenueTypes, BookTypes, Shares
  <1> USE <1>0 DEF FinalInv, MayFill, Owned, venueVars, resolver
  <1>1. ASSUME NEW h \in Orders,
               CommitBuy(h) \/ CommitBuyFails(h) \/ RecordSell(h) \/ Post(h) \/ AnswerMatched(h)
        PROVE FinalInv'
    <2>1. /\ \/ phase[h] = "idle" /\ \E p \in {"tracked", "done"} : phase' = [phase EXCEPT ![h] = p]
             \/ phase[h] = "tracked" /\ phase' = [phase EXCEPT ![h] = "posting"]
             \/ phase[h] = "posting" /\ phase' = [phase EXCEPT ![h] = "matched"]
          /\ UNCHANGED <<venue, filled, probe, hasty>> /\ ledger' = ledger
          /\ \A g \in Orders \ {h} : net'[g] = net[g]
      BY <1>1
      DEF CommitBuy, CommitBuyFails, RecordSell, Post, AnswerMatched, books
    <2>2. phase[h] \in {"idle", "tracked", "posting"} /\ (phase[h] = "posting" => net' = net)
      BY <1>1 DEF CommitBuy, CommitBuyFails, RecordSell, Post, AnswerMatched
    <2>3. probe[h] = NoVerdict \/ h \in hasty
      BY <2>2 DEF RowsInv, FreshInv, OwnedInv
    <2>4. probe[h].kind = "not_filled" => h \in hasty
      BY <2>3 DEF NoVerdict
    <2> QED
      BY <2>1, <2>2, <2>4
  <1>2. ASSUME NEW h \in Orders, BookAnswer(h) PROVE FinalInv'
    <2>1. /\ UNCHANGED <<venueVars, probe, hasty>>
          /\ \E p \in {"booked", "done"} : phase' = [phase EXCEPT ![h] = p]
      BY <1>2 DEF BookAnswer
    <2>2. \A g \in Orders : ledger[g] > 0 => ledger'[g] > 0
      <3>1. CASE UNCHANGED ledger
        BY <3>1
      <3>2. ASSUME NEW n \in 1 .. filled[h], BookFill(h, n) \/ BookFails(h, n)
            PROVE \A g \in Orders : ledger[g] > 0 => ledger'[g] > 0
        BY <3>2, BookingGrows
      <3> QED
        BY <1>2, <3>1, <3>2, AnswerBooks DEF books
    <2>3. phase'[h] = "booked" => ledger'[h] > 0
      <3> SUFFICES ASSUME phase'[h] = "booked" PROVE ledger'[h] > 0
        OBVIOUS
      <3>1. PICK n \in {Bookable(h, m) : m \in Named(h)} : n > 0 /\ BookFill(h, n)
        BY <1>2 DEF BookAnswer
      <3>2. \A m \in Named(h) : m \in Shares
        BY SizeAssumption DEF Named, Shares, TypeInv, TypeOK, VenueTypes
      <3>3. n \in Nat
        BY <3>2, BookableFact, SizeAssumption DEF Shares
      <3> QED
        BY <3>1, <3>3 DEF BookFill, books
    <2> QED
      BY <2>1, <2>2, <2>3
  <1>3. ASSUME NEW h \in Orders,
               ResolveAnswer(h) \/ ReleaseUnfilled(h) \/ AnswerRejected(h)
                 \/ AnswerResting(h) \/ AnswerLost(h)
        PROVE FinalInv'
    <2>1. /\ UNCHANGED <<venueVars, probe, hasty>> /\ ledger' = ledger
          /\ \E p \in {"release", "rejected", "done"} : phase' = [phase EXCEPT ![h] = p]
      BY <1>3
      DEF ResolveAnswer, ReleaseUnfilled, AnswerRejected, AnswerResting, AnswerLost, books
    <2> QED
      BY <2>1
  <1>4. ASSUME NEW h \in Orders, Venue(h) PROVE FinalInv'
    <2>0. UNCHANGED <<phase, probe, hasty>> /\ ledger' = ledger
      BY <1>4 DEF Venue, Deliver, Drop, VenueFill, VenueClose, books
    <2>1. CASE Deliver(h)
      <3>1. filled[h] = 0 /\ filled' \in [Orders -> Nat]
        BY <2>1, SizeAssumption DEF Deliver, TypeInv, TypeOK, VenueInv, Shares
      <3> QED
        BY <2>0, <2>1, <3>1 DEF Deliver
    <2>2. CASE Drop(h)
      BY <2>0, <2>2 DEF Drop
    <2>3. CASE VenueFill(h) \/ VenueClose(h)
      BY <2>0, <2>3 DEF VenueFill, VenueClose
    <2> QED
      BY <1>4, <2>1, <2>2, <2>3 DEF Venue
  <1>5. ASSUME NEW h \in Orders, NEW v \in ProbeVerdicts(h), Probe(h, v) PROVE FinalInv'
    <2>1. h \in due /\ phase[h] # "idle"
      BY <1>5 DEF Probe, CanProbe, RowsInv, FreshInv
    <2>2. net[h] = "flying" => phase[h] = "posting"
      BY <1>5 DEF Probe, CanProbe
    <2>3. v.kind # "booked" /\ (v.kind = "not_filled" => filled[h] = 0)
      BY DEF ProbeVerdicts, StatusOf, TradesOf, Filled, NotFilled, Unknown
    <2>4. /\ probe' = [probe EXCEPT ![h] = IF v = Unknown THEN NoVerdict ELSE v]
          /\ hasty' = IF v # Unknown /\ phase[h] \in {"tracked", "posting"}
                      THEN hasty \cup {h} ELSE hasty
          /\ UNCHANGED <<venueVars, phase>> /\ ledger' = ledger
      BY <1>5 DEF Probe, books
    <2> QED
      BY <2>2, <2>3, <2>4 DEF NoVerdict
  <1>6. ASSUME NEW h \in Orders, ApplyFilled(h) PROVE FinalInv'
    <2>1. UNCHANGED <<venueVars, phase, hasty>>
      BY <1>6 DEF ApplyFilled
    <2>2. \A g \in Orders : ledger[g] > 0 => ledger'[g] > 0
      <3>1. CASE UNCHANGED ledger
        BY <3>1
      <3>2. ASSUME NEW n \in 1 .. filled[h], BookFill(h, n) \/ BookFails(h, n)
            PROVE \A g \in Orders : ledger[g] > 0 => ledger'[g] > 0
        BY <3>2, BookingGrows
      <3> QED
        BY <1>6, <3>1, <3>2, VerdictBooks DEF books
    <2> DEFINE n == Bookable(h, probe[h].n)
    <2>3. n \in Nat
      <3>1. probe[h].n \in Shares
        BY VerdictFact
      <3> QED
        BY <3>1, BookableFact, SizeAssumption DEF Shares
    <2>4. \/ n > 0 /\ BookFill(h, n) /\ probe' = [probe EXCEPT ![h] = Booked(n)]
          \/ probe' = [probe EXCEPT ![h] = NoVerdict]
      BY <1>6 DEF ApplyFilled
    <2> HIDE DEF n
    <2>5. CASE probe' = [probe EXCEPT ![h] = NoVerdict]
      BY <2>1, <2>2, <2>5 DEF NoVerdict
    <2>6. CASE n > 0 /\ BookFill(h, n) /\ probe' = [probe EXCEPT ![h] = Booked(n)]
      <3>1. ledger'[h] > 0
        BY <2>3, <2>6 DEF BookFill, books
      <3> QED
        BY <2>1, <2>2, <2>6, <3>1 DEF Booked
    <2> QED
      BY <2>4, <2>5, <2>6
  <1>7. ASSUME NEW h \in Orders, ApplyVerdict(h) PROVE FinalInv'
    BY <1>7 DEF ApplyVerdict, NoVerdict, books
  <1>8. ASSUME NEW h \in Orders, Rest(h) PROVE FinalInv'
    BY <1>8 DEF Rest, Adopt, SettleStart, SettleApply, books
  <1>9. CASE ListDue \/ Tick \/ Boot
    BY <1>9 DEF ListDue, Tick, Boot, Absorb, Recycle, books
  <1>10. CASE Crash
    BY <1>10 DEF Crash, NoVerdict
  <1>11. CASE UNCHANGED vars
    BY <1>11 DEF vars, books
  <1> QED
    BY <1>1, <1>2, <1>3, <1>4, <1>5, <1>6, <1>7, <1>8, <1>9, <1>10, <1>11
       DEF Next, Submitter, Resolver

\* A row about another order, or about one whose loss is no loss, keeps the rows of the
\* others.
LEMMA KeptOnRows ==
  ASSUME TypeInv, KeptInv, NEW h \in Orders, RowMoves(h), up = "up",
         UNCHANGED <<venueVars, up, hasty, books, bookFile>>,
         \A g \in Orders : phase'[g] \in Owned => phase[g] \in Owned \/ g \notin Buys,
         \/ RecordOk(h) \/ RecordFails(h)
         \/ h \notin Buys \/ h \in Rests \/ ledger[h] > 0 \/ ~MayFill(h)' \/ h \in hasty
  PROVE KeptInv'
  <1>0. Buys \subseteq Orders /\ JournalTypes
    BY DEF Orders, TypeInv, TypeOK
  <1>1. /\ \A g \in Buys \ Rests :
             g \in RowsOnDisk /\ g \in open => g = h \/ (g \in RowsOnDisk' /\ g \in open')
        /\ RecordOk(h) \/ RecordFails(h) =>
             (h \in RowsOnDisk /\ h \in open => h \in RowsOnDisk' /\ h \in open')
    <2> USE DEF RowsOnDisk, Replay, PendRow, ResRow, Lands, pendFile
    <2>1. CASE RecordOk(h)
      BY <2>1 DEF RecordOk
    <2>2. CASE RecordFails(h)
      BY <2>2 DEF RecordFails, RowFails
    <2>3. CASE RowResolved(h)
      BY <2>3 DEF RowResolved, RecordOk, RecordFails, RowFails
    <2>4. CASE RowFails(h, ResRow(h)) /\ ~RecordOk(h) /\ ~RecordFails(h)
      BY <2>4 DEF RowFails
    <2> QED
      BY <2>1, <2>2, <2>3, <2>4 DEF RowMoves, Resolve, ResolveBooked
  <1>2. \A g \in Buys : (ledger'[g] = ledger[g]) /\ (Lost(g)' <=> Lost(g))
    BY DEF Lost, books, bookFile
  <1>3. \A g \in Buys : MayFill(g)' => MayFill(g)
    BY <1>0 DEF MayFill, venueVars
  <1> HIDE DEF RowsOnDisk
  <1> QED
    BY <1>0, <1>1, <1>2, <1>3 DEF KeptInv, Lost

\* What a booking spoils stays spoiled.
LEMMA BookingSpoils ==
  ASSUME BookTypes, NEW h \in Orders, NEW n \in Nat, BookFill(h, n) \/ BookFails(h, n)
  PROVE spoiled \subseteq spoiled' /\ (lbad => lbad')
  <1>1. spoiled \subseteq spoiled'
    BY BookingFact
  <1>2. FillRow(h, n) => (lbad => lbad')
    BY FillRowFact
  <1> QED
    BY <1>1, <1>2 DEF BookFill, BookFails, bookFile

\* A booking keeps the rows.
LEMMA KeptOnBooking ==
  ASSUME TypeInv, KeptInv, UNCHANGED <<venueVars, up, journal, hasty>>,
         \A g \in Orders : phase'[g] \in Owned => phase[g] \in Owned,
         \/ \E h \in Orders : \E n \in Nat \ {0} : BookFill(h, n) \/ BookFails(h, n)
         \/ UNCHANGED <<books, bookFile>>
  PROVE KeptInv'
  <1>0. BookTypes /\ Buys \subseteq Orders
    BY DEF TypeInv, TypeOK, Orders
  <1>1. /\ \A g \in Orders : ledger[g] > 0 => ledger'[g] > 0
        /\ spoiled \subseteq spoiled' /\ (lbad => lbad')
    <2>1. CASE UNCHANGED <<books, bookFile>>
      BY <2>1 DEF books, bookFile
    <2>2. ASSUME NEW h \in Orders, NEW n \in Nat \ {0}, BookFill(h, n) \/ BookFails(h, n)
          PROVE /\ \A g \in Orders : ledger[g] > 0 => ledger'[g] > 0
                /\ spoiled \subseteq spoiled' /\ (lbad => lbad')
      BY <1>0, <2>2, BookingGrows, BookingSpoils
    <2> QED
      BY <2>1, <2>2
  <1>2. \A g \in Orders : ledger'[g] = 0 => ledger[g] = 0
    BY <1>0, <1>1 DEF BookTypes
  <1>3. RowsOnDisk' = RowsOnDisk /\ open' = open /\ up' = up
    BY DEF RowsOnDisk, Replay, journal, pendFile
  <1>4. \A g \in Orders : MayFill(g)' => MayFill(g)
    BY DEF MayFill, venueVars
  <1> QED
    BY <1>0, <1>1, <1>2, <1>3, <1>4 DEF KeptInv, Lost

\* Every step keeps the row of a taker buy that filled, or still may, and is not booked,
\* if what is called a refusal is one.
LEMMA NextKeptInv ==
  ASSUME ~WrongRefusals
  PROVE TypeInv /\ BookInv /\ RowsInv /\ FinalInv /\ KeptInv /\ [Next]_vars => KeptInv'
  <1> SUFFICES ASSUME TypeInv, BookInv, RowsInv, FinalInv, KeptInv, [Next]_vars PROVE KeptInv'
    OBVIOUS
  <1>0. /\ phase \in [Orders -> Phases]
        /\ filled \in [Orders -> Nat]
        /\ net \in [Orders -> {"none", "flying", "gone"}]
        /\ ledger \in [Orders -> Nat]
        /\ up \in {"up", "down", "booting"}
        /\ Buys \subseteq Orders /\ Buys \cap Sells = {}
        /\ \A h \in Orders : filled[h] \in Nat
    BY SizeAssumption, OrdersAssumption
    DEF TypeInv, TypeOK, TaskTypes, VenueTypes, BookTypes, Shares, Orders
  <1>u. ASSUME UNCHANGED <<up, journal, hasty, books, bookFile>>,
               \A g \in Buys \ Rests : MayFill(g)' => MayFill(g)
        PROVE KeptInv'
    BY <1>0, <1>u
    DEF KeptInv, Lost, RowsOnDisk, Replay, journal, pendFile, books, bookFile
  <1>1. ASSUME NEW h \in Orders, CommitBuy(h) PROVE KeptInv'
    BY <1>0, <1>1
    DEF CommitBuy, CommitRows, KeptInv, Lost, RowsOnDisk, Replay, MayFill, Owned, RowsInv,
        FreshInv, venueVars, pendFile, resolver, books, bookFile
  <1>2. ASSUME NEW h \in Orders, CommitBuyFails(h) PROVE KeptInv'
    <2>1. wpend \subseteq wpend'
      BY <1>2 DEF CommitBuyFails, CommitRowsFail, CommitRows
    <2>2. \A g \in Orders : MayFill(g)' => MayFill(g)
      BY <1>0, <1>2 DEF CommitBuyFails, MayFill, Owned, venueVars
    <2> QED
      BY <1>0, <1>2, <2>1, <2>2
      DEF CommitBuyFails, KeptInv, Lost, RowsOnDisk, Replay, pendFile, resolver, books, bookFile
  <1>3. ASSUME NEW h \in Orders, RecordSell(h) PROVE KeptInv'
    <2>1. RecordOk(h) \/ RecordFails(h)
      BY <1>3 DEF RecordSell
    <2>2. \A g \in Orders : phase'[g] \in Owned => phase[g] \in Owned \/ g \notin Buys
      BY <1>0, <1>3 DEF RecordSell, Owned
    <2> QED
      BY <1>3, <2>1, <2>2, KeptOnRows DEF RecordSell, RowMoves, resolver
  <1>4. ASSUME NEW h \in Orders,
               Post(h) \/ AnswerMatched(h) \/ ReleaseUnfilled(h) \/ AnswerResting(h)
        PROVE KeptInv'
    <2>1. \A g \in Orders : MayFill(g)' => MayFill(g)
      BY <1>0, <1>4
      DEF Post, AnswerMatched, ReleaseUnfilled, AnswerResting, MayFill, Owned, venueVars
    <2> QED
      BY <1>0, <1>4, <1>u, <2>1
      DEF Post, AnswerMatched, ReleaseUnfilled, AnswerResting, resolver
  <1>5. ASSUME NEW h \in Orders, BookAnswer(h) PROVE KeptInv'
    <2>1. \A g \in Orders : phase'[g] \in Owned => phase[g] \in Owned
      BY <1>0, <1>5 DEF BookAnswer, Owned
    <2>2. \/ \E n \in Nat \ {0} : BookFill(h, n) \/ BookFails(h, n)
          \/ UNCHANGED <<books, bookFile>>
      BY <1>0, <1>5, AnswerBooks
    <2> QED
      BY <1>5, <2>1, <2>2, KeptOnBooking DEF BookAnswer, resolver
  <1>6. ASSUME NEW h \in Orders, ResolveAnswer(h) PROVE KeptInv'
    <2>1. \A g \in Orders : phase'[g] \in Owned => phase[g] \in Owned \/ g \notin Buys
      BY <1>0, <1>6 DEF ResolveAnswer, Owned
    <2>2. ledger[h] > 0
      BY <1>6 DEF ResolveAnswer, FinalInv
    <2> QED
      BY <1>6, <2>1, <2>2, KeptOnRows DEF ResolveAnswer, RowMoves, resolver
  <1>7. ASSUME NEW h \in Orders, AnswerRejected(h) PROVE KeptInv'
    <2>1. filled[h] = 0 /\ net[h] # "flying"
      BY <1>7 DEF AnswerRejected, FinalInv, TypeInv, VenueInv
    <2>2. phase'[h] \in {"rejected", "done"} /\ UNCHANGED venueVars
      BY <1>0, <1>7 DEF AnswerRejected
    <2>3. ~MayFill(h)'
      BY <1>0, <2>1, <2>2 DEF MayFill, Owned, venueVars
    <2>4. \A g \in Orders : phase'[g] \in Owned => phase[g] \in Owned \/ g \notin Buys
      BY <1>0, <1>7 DEF AnswerRejected, Owned
    <2> QED
      BY <1>7, <2>3, <2>4, KeptOnRows DEF AnswerRejected, RowMoves, resolver
  <1>8. ASSUME NEW h \in Orders, AnswerLost(h) PROVE KeptInv'
    <2>1. \A g \in Orders : phase'[g] \in Owned => phase[g] \in Owned \/ g \notin Buys
      BY <1>0, <1>8 DEF AnswerLost, Owned
    <2> QED
      BY <1>8, <2>1, KeptOnRows DEF AnswerLost, RecordAgain, RowMoves, resolver
  <1>9. ASSUME NEW h \in Orders, Venue(h) PROVE KeptInv'
    <2>0. UNCHANGED <<up, phase, journal, hasty, books, bookFile>>
      BY <1>9 DEF Venue, Deliver, Drop, VenueFill, VenueClose, resolver
    <2>1. \A g \in Buys \ Rests : MayFill(g)' => MayFill(g)
      BY <1>0, <1>9
      DEF Venue, Deliver, Drop, VenueFill, VenueClose, MayFill, FinalInv
    <2> QED
      BY <1>u, <2>0, <2>1
  <1>10. ASSUME NEW h \in Orders, NEW v \in ProbeVerdicts(h), Probe(h, v) PROVE KeptInv'
    <2>1. /\ UNCHANGED <<venueVars, up, phase, journal, books, bookFile>>
          /\ hasty \subseteq hasty'
      BY <1>10 DEF Probe
    <2> QED
      BY <1>0, <2>1
      DEF KeptInv, Lost, RowsOnDisk, Replay, MayFill, venueVars, journal, pendFile, books,
          bookFile
  <1>11. ASSUME NEW h \in Orders, ApplyFilled(h) PROVE KeptInv'
    <2>1. UNCHANGED <<venueVars, up, phase, hasty>> /\ up = "up"
      BY <1>11 DEF ApplyFilled
    <2> DEFINE n == Bookable(h, probe[h].n)
    <2>2. n \in Nat /\ (h \in Buys => n > 0)
      <3>1. probe[h].n \in Shares /\ probe[h].n \in 1 .. Size
        BY <1>11, VerdictFact, FilledProbeFact DEF ApplyFilled, TypeInv, TypeOK, TaskTypes
      <3>2. n \in Nat
        BY <3>1, BookableFact, SizeAssumption DEF Shares, TypeInv, TypeOK
      <3> QED
        BY <1>0, <3>1, <3>2 DEF Bookable
    <2>3. \/ n > 0 /\ (BookFill(h, n) \/ BookFails(h, n)) /\ UNCHANGED journal
          \/ n = 0 /\ Resolve(h) /\ UNCHANGED <<books, bookFile>>
      BY <1>11 DEF ApplyFilled
    <2> HIDE DEF n
    <2>4. CASE n > 0 /\ (BookFill(h, n) \/ BookFails(h, n)) /\ UNCHANGED journal
      BY <2>1, <2>2, <2>4, KeptOnBooking
    <2>5. CASE n = 0 /\ Resolve(h) /\ UNCHANGED <<books, bookFile>>
      BY <2>1, <2>2, <2>5, KeptOnRows DEF RowMoves
    <2> QED
      BY <2>3, <2>4, <2>5
  <1>12. ASSUME NEW h \in Orders, ApplyVerdict(h) PROVE KeptInv'
    <2>1. /\ up = "up" /\ UNCHANGED <<venueVars, up, phase, hasty, books, bookFile>>
          /\ Resolve(h) \/ ResolveBooked(h)
      BY <1>12 DEF ApplyVerdict
    <2>2. \/ h \notin Buys \/ h \in Rests \/ ledger[h] > 0 \/ ~MayFill(h)' \/ h \in hasty
      <3>1. CASE probe[h].kind = "booked"
        BY <3>1 DEF FinalInv
      <3>2. CASE probe[h].kind = "not_filled"
        <4>1. h \in Rests \/ h \in hasty \/ ~MayFill(h)
          BY <3>2 DEF FinalInv
        <4>2. MayFill(h)' <=> MayFill(h)
          BY <2>1 DEF MayFill, venueVars
        <4> QED
          BY <4>1, <4>2
      <3> QED
        BY <1>12, <3>1, <3>2 DEF ApplyVerdict
    <2> QED
      BY <2>1, <2>2, KeptOnRows DEF RowMoves
  <1>13. ASSUME NEW h \in Orders, Rest(h) PROVE KeptInv'
    <2>1. UNCHANGED <<venueVars, up, phase, journal, hasty, books, bookFile>>
      BY <1>13 DEF Rest, Adopt, SettleStart, SettleApply, resolver
    <2>2. \A g \in Orders : MayFill(g)' => MayFill(g)
      BY <2>1 DEF MayFill, venueVars
    <2> QED
      BY <1>0, <1>u, <2>1, <2>2
  <1>14. CASE ListDue \/ Tick
    <2>1. UNCHANGED <<venueVars, up, phase, journal, hasty, books, bookFile>>
      BY <1>14 DEF ListDue, Tick, resolver
    <2>2. \A g \in Orders : MayFill(g)' => MayFill(g)
      BY <2>1 DEF MayFill, venueVars
    <2> QED
      BY <1>0, <1>u, <2>1, <2>2
  <1>15. CASE Crash
    <2>1. /\ up' = "down" /\ ledger' = lfile
          /\ UNCHANGED <<venueVars, fpend, fres, wpend, hasty, spoiled, lbad>>
          /\ \A g \in Orders : phase'[g] \notin Owned
      BY <1>0, <1>15 DEF Crash, Owned, resolver
    <2>2. RowsOnDisk \subseteq RowsOnDisk'
      BY <2>1 DEF RowsOnDisk, Replay
    <2>3. \A g \in Orders : lfile[g] = 0 => ledger[g] = 0 \/ (g \in spoiled /\ lbad)
      BY <1>0 DEF BookInv, LedgerInv
    <2>4. \A g \in Orders : MayFill(g)' => MayFill(g)
      BY <2>1 DEF MayFill, venueVars
    <2>5. \A g \in Orders : Lost(g)' <=> Lost(g)
      BY <2>1 DEF Lost
    <2> QED
      BY <1>0, <2>1, <2>2, <2>3, <2>4, <2>5 DEF KeptInv, Lost
  <1>16. CASE Absorb
    <2>1. /\ up = "down" /\ open' = Replay /\ RowsOnDisk = Replay
          /\ UNCHANGED <<venueVars, phase, wpend, hasty, books, bookFile>>
      BY <1>16 DEF Absorb, RowsOnDisk, resolver
    <2>2. RowsOnDisk' = Replay
      <3>1. CASE up' = "booting" /\ wpend = {} /\ UNCHANGED <<fpend, fres>>
        BY <2>1, <3>1 DEF RowsOnDisk, Replay
      <3>2. CASE up' = "booting" /\ fpend' = Replay /\ fres' = {}
        BY <2>1, <3>2 DEF RowsOnDisk
      <3>3. CASE up' = "up" /\ UNCHANGED <<fpend, fres>>
        BY <2>1, <3>3 DEF RowsOnDisk, Replay
      <3> QED
        BY <1>16, <3>1, <3>2, <3>3 DEF Absorb
    <2>3. \A g \in Orders : (MayFill(g)' => MayFill(g)) /\ (Lost(g)' <=> Lost(g))
      BY <2>1 DEF MayFill, Lost, venueVars, bookFile
    <2> QED
      BY <1>0, <2>1, <2>2, <2>3 DEF KeptInv, books
  <1>17. CASE Recycle
    <2>1. /\ up = "booting" /\ up' = "up"
          /\ UNCHANGED <<venueVars, phase, open, fpend, fres, hasty, books, bookFile>>
      BY <1>17 DEF Recycle, resolver, pendFile
    <2>2. fpend \ fres \subseteq RowsOnDisk' /\ RowsOnDisk = fpend \ fres
      BY <2>1 DEF RowsOnDisk, Replay
    <2>3. \A g \in Orders : (MayFill(g)' => MayFill(g)) /\ (Lost(g)' <=> Lost(g))
      BY <2>1 DEF MayFill, Lost, venueVars, bookFile
    <2> QED
      BY <1>0, <2>1, <2>2, <2>3 DEF KeptInv, books
  <1>18. CASE UNCHANGED vars
    <2>1. \A g \in Orders : MayFill(g)' => MayFill(g)
      BY <1>18 DEF MayFill, vars, venueVars
    <2> QED
      BY <1>0, <1>18, <1>u, <2>1 DEF vars, resolver
  <1> QED
    BY <1>1, <1>2, <1>3, <1>4, <1>5, <1>6, <1>7, <1>8, <1>9, <1>10, <1>11, <1>12, <1>13,
       <1>14, <1>15, <1>16, <1>17, <1>18
       DEF Next, Submitter, Resolver, Boot

\* A taker buy that filled and is not booked is known to somebody, its submitter or an open
\* row that outlives the engine, or its row was judged while its POST was out, or the engine
\* says that it cannot vouch for its ledger; for any number of orders and lanes, crashes,
\* failed and torn appends, and slow answers, if what is called a refusal is one
\* (submit_tracked, resolve_pending, Ledger::persistence_ok).
THEOREM NoFillForgottenCorrect == ASSUME ~WrongRefusals PROVE Spec => []NoFillForgotten
  <1> DEFINE I == TypeInv /\ BookInv /\ RowsInv /\ FinalInv /\ KeptInv
  <1>1. Init => I
    BY InitTypeInv, InitBookInv, InitRowsInv, InitKeptInv
  <1>2. TypeInv /\ BookInv /\ I /\ [Next]_vars => RowsInv' /\ FinalInv' /\ KeptInv'
    BY NextRowsInv, NextFinalInv, NextKeptInv
  <1>3. I => NoFillForgotten
    <2> SUFFICES ASSUME I, NEW h \in Buys \ Rests, filled[h] > 0, ledger[h] = 0,
                        h \notin hasty, ~Announced(h)
                 PROVE Known(h)
      BY DEF NoFillForgotten
    <2>1. up \in {"up", "down", "booting"}
      BY DEF TypeInv, TypeOK, TaskTypes
    <2>2. ~(h \in spoiled /\ lbad)
      BY DEF Announced, BookInv, LedgerInv
    <2>3. h \in RowsOnDisk /\ (up # "down" => h \in open)
      BY <2>2 DEF KeptInv, MayFill, Lost
    <2> QED
      BY <2>1, <2>3 DEF Known, RowsOnDisk, Replay
  <1>4. Spec => []I
    BY <1>1, <1>2, Invariants, PTL DEF Spec
  <1> QED
    BY <1>3, <1>4, PTL
-----------------------------------------------------------------------------
(* The guard's account.                                                      *)

\* What an order's submitter and its rest have learnt is true of the venue: a rest is a
\* GTC that was answered, only a taker releases what it did not fill, a refused order
\* matched nothing, and a settlement knows the whole fill.
AnsweredInv ==
  \A h \in Orders :
    /\ rest[h] = "own" => h \in Rests /\ phase[h] = "done" /\ net[h] = "gone"
    /\ phase[h] = "release" => h \notin Rests
    /\ phase[h] \in {"matched", "booked", "release"} => net[h] = "gone"
    /\ phase[h] = "rejected" => venue[h] = "refused"
    /\ h \notin Rests => venue[h] # "live" /\ filled[h] = reply[h]
    /\ venue[h] = "refused" => filled[h] = 0
    /\ settle[h] # NoVerdict => venue[h] = "closed" /\ settle[h].n = filled[h]

\* What the commitment of an order must still cover: all of it while it may trade, or while
\* somebody may yet release what it did not fill, and then what it filled.
Active == {"tracked", "posting", "matched", "booked", "release", "rejected"}
Claim(h) ==
  IF phase[h] \in Active \/ net[h] = "flying" \/ rest[h] = "own" \/ venue[h] = "live"
  THEN Size ELSE filled[h]
Claims == [h \in Orders |-> Claim(h)]
ClaimInv ==
  \A s \in Salts \ forgot :
    greleased[s] + SumFunctionOnSet(Claims, CopiesOf(s)) <= copied[s]

\* Nothing was sent at the start.
LEMMA InitAnsweredInv == Init => AnsweredInv
  BY DEF Init, AnsweredInv, NoVerdict

\* Every step keeps what was learnt true, if no listing is older than the rest it leaves out
\* and what is called a refusal is one.
LEMMA NextAnsweredInv ==
  ASSUME ~StaleListing, ~WrongRefusals
  PROVE TypeInv /\ AnsweredInv /\ [Next]_vars => AnsweredInv'
  <1> SUFFICES ASSUME TypeInv, AnsweredInv, [Next]_vars PROVE AnsweredInv'
    OBVIOUS
  <1>0. /\ phase \in [Orders -> Phases] /\ settle \in [Orders -> Verdicts]
        /\ venue \in [Orders -> {"absent", "live", "closed", "refused"}]
        /\ filled \in [Orders -> Nat] /\ reply \in [Orders -> Nat]
        /\ net \in [Orders -> {"none", "flying", "gone"}]
        /\ rest \in [Orders -> {"no", "own", "adopted"}]
        /\ VenueInv
    BY SizeAssumption DEF TypeInv, TypeOK, TaskTypes, VenueTypes, Shares
  <1> USE <1>0 DEF AnsweredInv, VenueInv, venueVars, rests
  <1>1. ASSUME NEW h \in Orders,
               CommitBuy(h) \/ CommitBuyFails(h) \/ RecordSell(h) \/ Post(h) \/ AnswerMatched(h)
        PROVE AnsweredInv'
    BY <1>1 DEF CommitBuy, CommitBuyFails, RecordSell, Post, AnswerMatched
  <1>2. ASSUME NEW h \in Orders, BookAnswer(h) \/ ResolveAnswer(h) PROVE AnsweredInv'
    BY <1>2 DEF BookAnswer, ResolveAnswer
  <1>3. ASSUME NEW h \in Orders,
               ReleaseUnfilled(h) \/ AnswerRejected(h) \/ AnswerResting(h) \/ AnswerLost(h)
        PROVE AnsweredInv'
    BY <1>3 DEF ReleaseUnfilled, AnswerRejected, AnswerResting, AnswerLost
  <1>4. ASSUME NEW h \in Orders, Deliver(h) PROVE AnsweredInv'
    BY <1>4, SizeAssumption DEF Deliver, Shares
  <1>5. ASSUME NEW h \in Orders, Drop(h) \/ VenueFill(h) \/ VenueClose(h) PROVE AnsweredInv'
    BY <1>5 DEF Drop, VenueFill, VenueClose
  <1>6. ASSUME NEW h \in Orders, Resolver(h) PROVE AnsweredInv'
    BY <1>6 DEF Resolver, Probe, ApplyFilled, ApplyVerdict
  <1>7. ASSUME NEW h \in Orders, Adopt(h) \/ SettleApply(h) PROVE AnsweredInv'
    BY <1>7 DEF Adopt, SettleApply
  <1>8. ASSUME NEW h \in Orders, SettleStart(h) PROVE AnsweredInv'
    <2>1. venue[h] = "closed"
      BY <1>8 DEF SettleStart
    <2>2. PICK v \in {StatusOf(h), TradesOf(h)} \ {Unknown} : settle' = [settle EXCEPT ![h] = v]
      BY <1>8 DEF SettleStart
    <2>3. v.n = filled[h]
      BY DEF StatusOf, TradesOf, Filled, NotFilled, Unknown
    <2> QED
      BY <1>8, <2>1, <2>2, <2>3 DEF SettleStart
  <1>9. CASE ListDue \/ Tick \/ Boot
    BY <1>9 DEF ListDue, Tick, Boot, Absorb, Recycle
  <1>10. CASE Crash
    BY <1>10 DEF Crash
  <1>11. CASE UNCHANGED vars
    BY <1>11 DEF vars
  <1> QED
    BY <1>1, <1>2, <1>3, <1>4, <1>5, <1>6, <1>7, <1>8, <1>9, <1>10, <1>11
       DEF Next, Submitter, Venue, Rest

\* What is claimed of an order is a share count, and at least what is spoken for.
LEMMA ClaimFact ==
  TypeInv => /\ \A h \in Orders : Claims[h] \in 0 .. Size
             /\ \A h \in Orders : Spoken(h) \in 0 .. Size /\ Spoken(h) <= Claims[h]
  BY SizeAssumption DEF TypeInv, TypeOK, VenueTypes, Claims, Claim, Spoken, Shares

\* And so it is after the step.
LEMMA ClaimFactNext == TypeInv' => \A h \in Orders : Claims'[h] \in 0 .. Size
  <1>1. TypeInv => \A h \in Orders : Claims[h] \in 0 .. Size
    BY ClaimFact
  <1>2. (TypeInv => \A h \in Orders : Claims[h] \in 0 .. Size)'
    BY <1>1, PTL
  <1> QED
    BY <1>2

\* The copies of one of his orders are finitely many.
LEMMA CopiesFact ==
  ASSUME NEW s
  PROVE IsFiniteSet(CopiesOf(s)) /\ CopiesOf(s) \subseteq Orders /\ CopiesOf(s) \subseteq Buys
  BY FiniteAssumption, FS_Subset DEF CopiesOf, Orders

\* A step by which no claim grows, and no commitment shrinks or is given back, keeps what
\* is not forgotten covered.
LEMMA ClaimsFall ==
  ASSUME TypeInv, TypeInv', ClaimInv,
         \A s \in Salts \ forgot' :
           s \notin forgot /\ copied'[s] >= copied[s] /\ greleased'[s] = greleased[s],
         \A h \in Buys : Claims'[h] <= Claims[h]
  PROVE ClaimInv'
  <1> SUFFICES ASSUME NEW s \in Salts \ forgot'
               PROVE greleased'[s] + SumFunctionOnSet(Claims', CopiesOf(s)) <= copied'[s]
    BY DEF ClaimInv, CopiesOf
  <1>1. /\ IsFiniteSet(CopiesOf(s)) /\ CopiesOf(s) \subseteq Buys
        /\ \A h \in CopiesOf(s) : Claims'[h] \in Int /\ Claims[h] \in Int
    BY ClaimFact, ClaimFactNext, CopiesFact, SizeAssumption
  <1>2. SumFunctionOnSet(Claims', CopiesOf(s)) <= SumFunctionOnSet(Claims, CopiesOf(s))
    BY <1>1, SumLe
  <1>3. /\ SumFunctionOnSet(Claims', CopiesOf(s)) \in Int
        /\ SumFunctionOnSet(Claims, CopiesOf(s)) \in Int
    BY <1>1, SumInt
  <1>4. greleased[s] \in Nat /\ copied[s] \in Nat /\ copied'[s] \in Nat
    BY DEF TypeInv, TypeOK, GuardTypes
  <1>5. greleased[s] + SumFunctionOnSet(Claims, CopiesOf(s)) <= copied[s]
    BY DEF ClaimInv
  <1> QED
    BY <1>2, <1>3, <1>4, <1>5

\* A release of n shares of an order whose claim falls by n at least keeps it covered, even
\* if it fails and only the disk says it took place.
LEMMA ClaimReleased ==
  ASSUME TypeInv, TypeInv', ClaimInv, NEW h \in Buys, NEW n \in Nat, Release(SaltOf[h], n),
         Claims'[h] + n <= Claims[h], \A g \in Orders \ {h} : Claims'[g] = Claims[g]
  PROVE ClaimInv'
  <1>0. h \in Orders /\ SaltOf[h] \in Salts
    BY OrdersAssumption DEF Orders
  <1>r. /\ copied' = copied /\ forgot' = forgot
        /\ \A t \in Salts \ {SaltOf[h]} : greleased'[t] = greleased[t]
        /\ greleased'[SaltOf[h]] <= greleased[SaltOf[h]] + n
    BY <1>0, ReleaseFact DEF TypeInv, TypeOK, FlagTypes
  <1> SUFFICES ASSUME NEW s \in Salts \ forgot
               PROVE greleased'[s] + SumFunctionOnSet(Claims', CopiesOf(s)) <= copied[s]
    BY <1>r DEF ClaimInv, CopiesOf
  <1> DEFINE S == CopiesOf(s)
             before == SumFunctionOnSet(Claims, S)
             after == SumFunctionOnSet(Claims', S)
  <1>1. /\ IsFiniteSet(S) /\ S \subseteq Orders
        /\ \A g \in S : Claims'[g] \in Int /\ Claims[g] \in Int
        /\ Claims'[h] \in Nat /\ Claims[h] \in Nat
    BY <1>0, ClaimFact, ClaimFactNext, CopiesFact, SizeAssumption
  <1>2. after \in Int /\ before \in Int
    BY <1>1, SumInt
  <1>3. IF h \in S THEN after = before + (Claims'[h] - Claims[h]) ELSE after = before
    BY <1>1, SumUpdate, SumSame
  <1>4. /\ greleased[s] \in Nat /\ copied[s] \in Nat /\ greleased'[s] \in Nat
        /\ greleased[s] + before <= copied[s]
    BY DEF TypeInv, TypeOK, GuardTypes, ClaimInv
  <1>5. h \in S <=> s = SaltOf[h]
    BY DEF CopiesOf
  <1> HIDE DEF before, after, S
  <1>6. ASSUME s # SaltOf[h] PROVE greleased'[s] + after <= copied[s]
    BY <1>r, <1>2, <1>3, <1>4, <1>5, <1>6
  <1>7. ASSUME s = SaltOf[h] PROVE greleased'[s] + after <= copied[s]
    <2>1. after <= before - n
      BY <1>1, <1>2, <1>3, <1>5, <1>7
    <2>2. greleased'[s] <= greleased[s] + n
      BY <1>r, <1>7
    <2> QED
      BY <1>2, <1>4, <2>1, <2>2
  <1> QED
    BY <1>6, <1>7 DEF after, S

\* A commitment covers the claim of the order it is made for.
LEMMA ClaimCommitted ==
  ASSUME TypeInv, TypeInv', ClaimInv, NEW h \in Buys, forgot' = forgot,
         greleased' = greleased, copied' = [copied EXCEPT ![SaltOf[h]] = @ + Size],
         Claims[h] = 0, Claims'[h] = Size, \A g \in Orders \ {h} : Claims'[g] = Claims[g]
  PROVE ClaimInv'
  <1> SUFFICES ASSUME NEW s \in Salts \ forgot
               PROVE greleased[s] + SumFunctionOnSet(Claims', CopiesOf(s)) <= copied'[s]
    BY DEF ClaimInv, CopiesOf
  <1> DEFINE S == CopiesOf(s)
             before == SumFunctionOnSet(Claims, S)
             after == SumFunctionOnSet(Claims', S)
  <1>1. /\ IsFiniteSet(S) /\ S \subseteq Orders
        /\ \A g \in S : Claims'[g] \in Int /\ Claims[g] \in Int
    BY ClaimFact, ClaimFactNext, CopiesFact, SizeAssumption
  <1>2. after \in Int /\ before \in Int
    BY <1>1, SumInt
  <1>3. IF h \in S THEN after = before + (Claims'[h] - Claims[h]) ELSE after = before
    BY <1>1, SumUpdate, SumSame
  <1>4. /\ greleased[s] \in Nat /\ copied[s] \in Nat /\ copied \in [Salts -> Nat]
        /\ greleased[s] + before <= copied[s]
    BY DEF TypeInv, TypeOK, GuardTypes, ClaimInv
  <1>5. h \in S <=> s = SaltOf[h]
    BY DEF CopiesOf
  <1> QED
    BY <1>2, <1>3, <1>4, <1>5, SizeAssumption

\* Nothing is committed, and nothing claimed, at the start.
LEMMA InitClaimInv == Init => ClaimInv
  <1> SUFFICES ASSUME Init, NEW s \in Salts
               PROVE greleased[s] + SumFunctionOnSet(Claims, CopiesOf(s)) <= copied[s]
    BY DEF ClaimInv
  <1>1. IsFiniteSet(CopiesOf(s)) /\ \A h \in CopiesOf(s) : Claims[h] = 0
    BY CopiesFact DEF Init, Claims, Claim, Active
  <1>2. SumFunctionOnSet(Claims, CopiesOf(s)) = 0
    BY <1>1, SumZero
  <1> QED
    BY <1>2 DEF Init

\* Every step keeps every claim covered.
LEMMA NextClaimInv == TypeInv /\ AnsweredInv /\ ClaimInv /\ [Next]_vars => ClaimInv'
  <1> SUFFICES ASSUME TypeInv, AnsweredInv, ClaimInv, [Next]_vars PROVE ClaimInv'
    OBVIOUS
  <1>0. /\ phase \in [Orders -> Phases] /\ settle \in [Orders -> Verdicts]
        /\ venue \in [Orders -> {"absent", "live", "closed", "refused"}]
        /\ \A h \in Orders : filled[h] \in Nat /\ filled[h] <= Size
        /\ filled \in [Orders -> Nat]
        /\ net \in [Orders -> {"none", "flying", "gone"}]
        /\ rest \in [Orders -> {"no", "own", "adopted"}]
        /\ VenueInv /\ Size \in Nat /\ Buys \subseteq Orders
    BY SizeAssumption DEF TypeInv, TypeOK, TaskTypes, VenueTypes, Shares, Orders
  <1>t. TypeInv'
    BY NextTypeInv
  <1>g. \A s \in Salts : copied[s] \in Nat
    BY DEF TypeInv, TypeOK, GuardTypes
  <1>f. ASSUME UNCHANGED guardVars, \A h \in Buys : Claims'[h] <= Claims[h] PROVE ClaimInv'
    BY <1>t, <1>g, <1>f, ClaimsFall DEF guardVars, guardTable, guardFile
  <1>s. ASSUME UNCHANGED <<guardVars, phase, net, rest, venue, filled>> PROVE ClaimInv'
    <2>1. Claims' = Claims
      BY <1>s DEF Claims, Claim
    <2>2. \A h \in Buys : Claims[h] \in Nat
      BY ClaimFact, SizeAssumption DEF Orders
    <2> QED
      BY <1>s, <1>f, <2>1, <2>2
  <1> USE <1>0 DEF Claims, Claim, Active, venueVars, rests
  <1>1. ASSUME NEW h \in Orders, CommitBuy(h) PROVE ClaimInv'
    <2>1. /\ h \in Buys /\ Claims[h] = 0 /\ Claims'[h] = Size
          /\ \A g \in Orders \ {h} : Claims'[g] = Claims[g]
      BY <1>1 DEF CommitBuy, VenueInv, AnsweredInv
    <2>2. greleased' = greleased
      BY <1>1, <2>1, CommitRowsFact DEF CommitBuy, TypeInv, TypeOK
    <2>3. forgot' = forgot /\ copied' = [copied EXCEPT ![SaltOf[h]] = @ + Size]
      BY <1>1 DEF CommitBuy
    <2> HIDE DEF Claims
    <2> QED
      BY <1>t, <2>1, <2>2, <2>3, ClaimCommitted
  <1>2. ASSUME NEW h \in Orders, CommitBuyFails(h) PROVE ClaimInv'
    <2>1. greleased' = greleased
      BY <1>2, CommitRowsFact DEF CommitBuyFails, TypeInv, TypeOK
    <2>2. forgot' = forgot /\ copied' = copied
      BY <1>2 DEF CommitBuyFails, guardTable
    <2>3. \A g \in Buys : Claims'[g] <= Claims[g]
      BY <1>2 DEF CommitBuyFails, VenueInv
    <2> HIDE DEF Claims
    <2> QED
      BY <1>t, <1>g, <2>1, <2>2, <2>3, ClaimsFall
  <1>3. ASSUME NEW h \in Orders, RecordSell(h) PROVE ClaimInv'
    BY <1>3, <1>f, OrdersAssumption DEF RecordSell
  <1>4. ASSUME NEW h \in Orders, Post(h) \/ AnswerMatched(h) PROVE ClaimInv'
    BY <1>4, <1>f DEF Post, AnswerMatched
  <1>5. ASSUME NEW h \in Orders, BookAnswer(h) \/ ResolveAnswer(h) PROVE ClaimInv'
    BY <1>5, <1>f DEF BookAnswer, ResolveAnswer
  <1>6. ASSUME NEW h \in Orders, ReleaseUnfilled(h) PROVE ClaimInv'
    <2>1. /\ h \in Buys /\ phase' = [phase EXCEPT ![h] = "done"]
          /\ UNCHANGED <<venueVars, rests>>
      BY <1>6 DEF ReleaseUnfilled
    <2>2. \A g \in Orders \ {h} : Claims'[g] = Claims[g]
      BY <2>1
    <2>3. Claims[h] = Size
      BY <1>6, <2>1 DEF ReleaseUnfilled
    <2>4. CASE phase[h] = "release" /\ Release(SaltOf[h], Size - reply[h])
      <3>1. Claims'[h] = filled[h] /\ filled[h] = reply[h]
        BY <2>1, <2>4 DEF AnsweredInv
      <3>2. Size - reply[h] \in Nat /\ Claims'[h] + (Size - reply[h]) <= Claims[h]
        BY <2>1, <2>3, <3>1
      <3> HIDE DEF Claims
      <3> QED
        BY <1>t, <2>1, <2>2, <2>4, <3>2, ClaimReleased
    <2>5. CASE phase[h] = "rejected" /\ Release(SaltOf[h], Size)
      <3>1. Claims'[h] = 0
        BY <2>1, <2>5 DEF AnsweredInv, VenueInv
      <3>2. Claims'[h] + Size <= Claims[h]
        BY <2>1, <2>3, <3>1
      <3> HIDE DEF Claims
      <3> QED
        BY <1>t, <2>1, <2>2, <2>5, <3>2, ClaimReleased
    <2> QED
      BY <1>6, <2>4, <2>5 DEF ReleaseUnfilled
  <1>7. ASSUME NEW h \in Orders, AnswerRejected(h) \/ AnswerLost(h) PROVE ClaimInv'
    BY <1>7, <1>f DEF AnswerRejected, AnswerLost
  <1>8. ASSUME NEW h \in Orders, AnswerResting(h) PROVE ClaimInv'
    BY <1>8, <1>f DEF AnswerResting
  <1>9. ASSUME NEW h \in Orders, Deliver(h) PROVE ClaimInv'
    <2>1. \A g \in Orders : filled'[g] <= Size /\ filled'[g] \in Nat
      BY <1>t, SizeAssumption DEF TypeInv, TypeOK, VenueTypes, Shares
    <2> QED
      BY <1>9, <1>f, <2>1 DEF Deliver
  <1>10. ASSUME NEW h \in Orders, Drop(h) \/ VenueClose(h) PROVE ClaimInv'
    BY <1>10, <1>f DEF Drop, VenueClose
  <1>11. ASSUME NEW h \in Orders, VenueFill(h) PROVE ClaimInv'
    BY <1>11, <1>f DEF VenueFill, VenueInv
  <1>12. ASSUME NEW h \in Orders, Resolver(h) PROVE ClaimInv'
    BY <1>12, <1>s DEF Resolver, Probe, ApplyFilled, ApplyVerdict
  <1>13. ASSUME NEW h \in Orders, Adopt(h) \/ SettleStart(h) PROVE ClaimInv'
    BY <1>13, <1>f DEF Adopt, SettleStart
  <1>14. ASSUME NEW h \in Orders, SettleApply(h) PROVE ClaimInv'
    <2>1. rest' = [rest EXCEPT ![h] = "no"] /\ UNCHANGED <<venueVars, phase>>
      BY <1>14 DEF SettleApply
    <2>2. \A g \in Orders \ {h} : Claims'[g] = Claims[g]
      BY <2>1
    <2>3. CASE rest[h] = "own" /\ h \in Buys
      <3>1. settle[h].n = filled[h] /\ Claims[h] = Size /\ Claims'[h] = filled[h]
        BY <1>14, <2>1, <2>3 DEF SettleApply, AnsweredInv
      <3>2. Size - settle[h].n \in Nat /\ Claims'[h] + (Size - settle[h].n) <= Claims[h]
        BY <3>1
      <3>3. Release(SaltOf[h], Size - settle[h].n)
        BY <1>14, <2>3 DEF SettleApply
      <3> HIDE DEF Claims
      <3> QED
        BY <1>t, <2>2, <2>3, <3>2, <3>3, ClaimReleased
    <2>4. CASE ~(rest[h] = "own" /\ h \in Buys)
      BY <1>14, <1>f, <2>4 DEF SettleApply
    <2> QED
      BY <2>3, <2>4
  <1>15. CASE ListDue \/ Tick \/ Boot
    BY <1>15, <1>s DEF ListDue, Tick, Boot, Absorb, Recycle
  <1>16. CASE Crash
    <2>1. \A s \in Salts \ forgot' :
            s \notin forgot /\ copied'[s] >= copied[s] /\ greleased'[s] = greleased[s]
      BY <1>16, <1>g DEF Crash, TypeInv, TypeOK, GuardTypes
    <2>2. \A g \in Buys : Claims'[g] <= Claims[g]
      BY <1>16 DEF Crash
    <2> HIDE DEF Claims
    <2> QED
      BY <1>t, <2>1, <2>2, ClaimsFall
  <1>17. CASE UNCHANGED vars
    BY <1>17, <1>s DEF vars
  <1> QED
    BY <1>1, <1>2, <1>3, <1>4, <1>5, <1>6, <1>7, <1>8, <1>9, <1>10, <1>11, <1>12, <1>13,
       <1>14, <1>15, <1>16, <1>17 DEF Next, Submitter, Venue, Rest

\* What the guard counts as copied of one of his orders covers every share the venue matched
\* for it and every share still working there, for any number of orders and lanes, crashes,
\* failed and torn appends, but for the salts whose commitment a bad line of the log took from
\* a restart; if no listing is older than the rest it leaves out, and what is called a refusal
\* is one (SignalGuard::commit_with, release, settle_cancelled_rest).
THEOREM CommitmentCorrect ==
  ASSUME ~StaleListing, ~WrongRefusals PROVE Spec => []CommitmentCoversOrders
  <1> DEFINE I == TypeInv /\ BookInv /\ AnsweredInv /\ ClaimInv
  <1>1. Init => I
    BY InitTypeInv, InitBookInv, InitAnsweredInv, InitClaimInv
  <1>2. TypeInv /\ BookInv /\ I /\ [Next]_vars => AnsweredInv' /\ ClaimInv'
    BY NextAnsweredInv, NextClaimInv
  <1>3. I => CommitmentCoversOrders
    <2> SUFFICES ASSUME I, NEW s \in Salts \ forgot
                 PROVE Outstanding(s) >=
                         SumFunctionOnSet([h \in Orders |-> Spoken(h)], CopiesOf(s))
      BY DEF CommitmentCoversOrders
    <2> DEFINE spoken == [h \in Orders |-> Spoken(h)]
    <2>1. /\ IsFiniteSet(CopiesOf(s))
          /\ \A h \in CopiesOf(s) : /\ spoken[h] \in Int /\ Claims[h] \in Int
                                    /\ spoken[h] <= Claims[h]
      BY CopiesFact, ClaimFact, SizeAssumption
    <2> HIDE DEF spoken
    <2>2. /\ SumFunctionOnSet(spoken, CopiesOf(s)) <= SumFunctionOnSet(Claims, CopiesOf(s))
          /\ SumFunctionOnSet(spoken, CopiesOf(s)) \in Int
          /\ SumFunctionOnSet(Claims, CopiesOf(s)) \in Int
      BY <2>1, SumLe, SumInt
    <2>3. /\ released[s] \in Nat /\ copied[s] \in Nat /\ greleased[s] \in Nat
          /\ released[s] <= greleased[s]
          /\ greleased[s] + SumFunctionOnSet(Claims, CopiesOf(s)) <= copied[s]
      BY DEF TypeInv, TypeOK, GuardTypes, GuardInv, ClaimInv
    <2>4. Outstanding(s) >= SumFunctionOnSet(spoken, CopiesOf(s))
      BY <2>2, <2>3 DEF Outstanding
    <2> QED
      BY <2>4 DEF spoken
  <1>4. Spec => []I
    BY <1>1, <1>2, Invariants, PTL DEF Spec
  <1> QED
    BY <1>3, <1>4, PTL

-----------------------------------------------------------------------------
(* The order's way to the venue: what race_submit's outcome means, for any   *)
(* number of order paths.                                                    *)

\* The outcome is what resolve makes of everything collected, and it is made
\* once: when a decisive answer is in, or all of them.
OutcomeInv ==
  /\ outcome # "none" => outcome = Resolved(Collected(result))
  /\ outcome # "none" => \/ \E p \in Paths : Decisive(result[p])
                         \/ \A p \in Paths : result[p] # "none"

\* What was collected from a path is what came over it, or a timeout; nothing
\* comes over a path whose copy is still flying; and an order that is at the
\* venue was taken from a path that brought something else than a refusal.
HonestInv ==
  /\ \A p \in Paths : result[p] \in {"none", "timeout"} \/ result[p] = answer[p]
  /\ \A p \in Paths : answer[p] # "none" => request[p] = "ended"
  /\ order # "absent" => \E p \in Paths : answer[p] \notin {"none", "refused"}

RaceInv == RaceTypeOK /\ OutcomeInv /\ HonestInv

\* A set of results makes an outcome of the enumeration.
LEMMA RaceResolveType == ASSUME NEW S PROVE Resolved(S) \in Outcomes \ {"none"}
  BY DEF Resolved, Outcomes

\* Before anything is sent every part of the invariant holds.
LEMMA RaceInitInv == RaceInit => RaceInv
  BY DEF RaceInit, RaceInv, RaceTypeOK, OutcomeInv, HonestInv, Replies, Results,
         Outcomes

\* A copy that arrives leaves the results alone, and takes the order to the
\* venue only with an answer that is no refusal.
LEMMA RaceArriveInv == ASSUME RaceInv, NEW p \in Paths, Arrive(p) PROVE RaceInv'
<1> USE DEF RaceInv
<1>1. PICK o \in {"absent", "matched", "resting"}, r \in Replies :
        /\ Handled(o, r)
        /\ order' = o
        /\ \E a \in {r, "gateway", "bodiless"} : answer' = [answer EXCEPT ![p] = a]
  BY DEF Arrive
<1>2. PICK a \in {r, "gateway", "bodiless"} : answer' = [answer EXCEPT ![p] = a]
  BY <1>1
<1>3. /\ request[p] = "flying" /\ request' = [request EXCEPT ![p] = "ended"]
      /\ UNCHANGED <<result, outcome>>
  BY DEF Arrive
<1>4. RaceTypeOK'
  BY <1>1, <1>2, <1>3 DEF RaceTypeOK, Replies
<1>5. OutcomeInv'
  BY <1>3 DEF OutcomeInv, Collected
<1>6. HonestInv'
  <2>1. /\ answer[p] = "none" /\ answer'[p] = a
        /\ \A q \in Paths \ {p} : answer'[q] = answer[q]
    BY <1>2, <1>3 DEF HonestInv, RaceTypeOK
  <2>2. order' # "absent" => \E q \in Paths : answer'[q] \notin {"none", "refused"}
    <3>1. CASE order # "absent"
      BY <2>1, <3>1 DEF HonestInv
    <3>2. CASE order = "absent" /\ o # "absent"
      <4>1. r \notin {"none", "refused"}
        BY <1>1, <3>2 DEF Handled, Replies
      <4> QED
        BY <4>1, <2>1
    <3> QED
      BY <3>1, <3>2, <1>1
  <2> QED
    BY <2>1, <2>2, <1>3 DEF HonestInv, RaceTypeOK
<1> QED
  BY <1>4, <1>5, <1>6

\* Collecting an answer that came, or a timeout, keeps the whole invariant.
LEMMA RaceCollectInv ==
  ASSUME RaceInv, NEW p \in Paths, NEW r \in Results \ {"none"}, Collect(p, r),
         r \in {"timeout", answer[p]}
  PROVE  RaceInv'
<1> USE DEF RaceInv
<1>1. result' = [result EXCEPT ![p] = r] /\ UNCHANGED <<order, request, answer>>
  BY DEF Collect
<1>2. outcome' = IF Decisive(r) \/ \A q \in Paths : result'[q] # "none"
                 THEN Resolved(Collected(result')) ELSE "none"
  BY DEF Collect
<1>3. RaceTypeOK'
  <2>1. outcome' \in Outcomes
    BY <1>2, RaceResolveType DEF Outcomes
  <2> QED
    BY <1>1, <2>1 DEF RaceTypeOK
<1>4. OutcomeInv'
  <2>1. result'[p] = r
    BY <1>1 DEF RaceTypeOK
  <2>2. outcome' # "none" => Decisive(result'[p])
                             \/ \A q \in Paths : result'[q] # "none"
    BY <1>2, <2>1
  <2>3. outcome' # "none" => outcome' = Resolved(Collected(result'))
    BY <1>2
  <2>4. OutcomeInv' <=> /\ outcome' # "none" => outcome' = Resolved(Collected(result'))
                        /\ outcome' # "none" =>
                             \/ \E q \in Paths : Decisive(result'[q])
                             \/ \A q \in Paths : result'[q] # "none"
    BY DEF OutcomeInv, Resolved, Collected, Decisive, Silent
  <2> QED
    BY <2>2, <2>3, <2>4
<1>5. HonestInv'
  BY <1>1 DEF HonestInv, RaceTypeOK
<1> QED
  BY <1>3, <1>4, <1>5

\* Every step keeps the invariant.
LEMMA RaceNextInv == RaceInv /\ [RaceNext]_raceVars => RaceInv'
<1> SUFFICES ASSUME RaceInv, [RaceNext]_raceVars PROVE RaceInv'
  OBVIOUS
<1>1. ASSUME NEW p \in Paths, Lose(p) PROVE RaceInv'
  BY <1>1 DEF RaceInv, Lose, RaceTypeOK, OutcomeInv, Collected, HonestInv
<1>2. ASSUME NEW p \in Paths, Answered(p) PROVE RaceInv'
  <2>1. answer[p] \in Results \ {"none"} /\ Collect(p, answer[p])
    BY <1>2 DEF RaceInv, Answered, RaceTypeOK, Results
  <2> QED
    BY <2>1, RaceCollectInv
<1>3. ASSUME NEW p \in Paths, TimesOut(p) PROVE RaceInv'
  BY <1>3, RaceCollectInv DEF TimesOut, Results
<1>4. CASE UNCHANGED raceVars
  BY <1>4 DEF raceVars, RaceInv, RaceTypeOK, OutcomeInv, Collected, HonestInv
<1> QED
  BY <1>1, <1>2, <1>3, <1>4, RaceArriveInv DEF RaceNext

\* An order that is called refused is called so after every path has ended, and
\* none of them knew of it.
LEMMA RaceRejected ==
  ASSUME RaceInv, outcome = "rejected"
  PROVE  /\ \A p \in Paths : result[p] \notin {"none", "matched", "resting", "duplicate"}
         /\ \E p \in Paths : result[p] \notin Silent
<1>1. Resolved(Collected(result)) = "rejected"
  BY DEF RaceInv, OutcomeInv
<1>2. /\ Collected(result) \cap {"matched", "resting", "duplicate"} = {}
      /\ ~(Collected(result) \subseteq Silent)
  BY <1>1 DEF Resolved
<1>3. \A p \in Paths : result[p] \notin {"matched", "resting", "duplicate"}
  BY <1>2 DEF Collected
<1>4. \A p \in Paths : result[p] # "none"
  BY <1>3 DEF RaceInv, OutcomeInv, Decisive
<1> QED
  BY <1>2, <1>3, <1>4 DEF Collected

\* An order is called refused only on the word of some path, and of none that
\* knew of it, over any paths and any losses (resolve, race_submit).
THEOREM SilenceCorrect == RaceSpec => []SilenceIsNoRefusal
<1>1. RaceInv => SilenceIsNoRefusal
  BY RaceRejected DEF SilenceIsNoRefusal, RaceInv, RaceTypeOK, Results,
                      Replies, Silent, Unreadable
<1> QED
  BY <1>1, RaceInitInv, RaceNextInv, PTL DEF RaceSpec

\* When every path brings a refusal, the order is not at the venue and never
\* will be, so its row may be closed and its shares given back.
THEOREM RefusalCorrect == RaceSpec => []RefusalIsFinal
<1>1. RaceInv => RefusalIsFinal
  <2> SUFFICES ASSUME RaceInv, outcome = "rejected", Undoubted
               PROVE order = "absent" /\ \A p \in Paths : request[p] = "ended"
    BY DEF RefusalIsFinal
  <2>1. \A p \in Paths : answer[p] = "refused"
    BY RaceRejected DEF Undoubted, RaceInv, HonestInv
  <2> QED
    BY <2>1 DEF RaceInv, HonestInv
<1> QED
  BY <1>1, RaceInitInv, RaceNextInv, PTL DEF RaceSpec

\* Returning early on a match changes nothing: whatever the other paths still bring, the
\* outcome would have been the same (race_submit, resolve).
THEOREM OutcomeCorrect == RaceSpec => []OutcomeIsFinal
<1>1. RaceInv => OutcomeIsFinal
  <2> SUFFICES ASSUME RaceInv, outcome # "none" PROVE Resolved(LateAnswers) = outcome
    BY DEF OutcomeIsFinal
  <2>1. outcome = Resolved(Collected(result))
    BY DEF RaceInv, OutcomeInv
  <2>2. CASE \E p \in Paths : Decisive(result[p])
    <3>1. "matched" \in Collected(result) /\ "matched" \in LateAnswers
      BY <2>2 DEF Decisive, Collected, LateAnswers
    <3>2. /\ Resolved(Collected(result)) = "matched"
          /\ Resolved(LateAnswers) = "matched"
      BY <3>1 DEF Resolved
    <3> QED
      BY <2>1, <3>2
  <2>3. CASE \A p \in Paths : result[p] # "none"
    <3>1. LateAnswers = Collected(result)
      BY <2>3 DEF LateAnswers, Collected
    <3> QED
      BY <2>1, <3>1
  <2> QED
    BY <2>2, <2>3 DEF RaceInv, OutcomeInv
<1> QED
  BY <1>1, RaceInitInv, RaceNextInv, PTL DEF RaceSpec
=============================================================================

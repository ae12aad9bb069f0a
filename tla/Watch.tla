------------------------------- MODULE Watch --------------------------------
(* Is his order still there?  The evidence the resting book acts on: one     *)
(* price level of one token, told by several sockets to one pair of caches.  *)
(*                                                                           *)
(* The venue writes frames to a tape: a print for a trade, then the size the *)
(* level has left.  Every socket reads the tape at its own pace and writes   *)
(* Levels and TradePrints, so each frame arrives as often as there are       *)
(* sockets.  When a rest is placed behind his order an anchor is kept of     *)
(* what his order had left and what had been printed; the sweep compares.    *)
EXTENDS Integers, SequencesExt

CONSTANTS
  Sockets,    \* the sockets of run_book_feed_multi
  HisSize,    \* the shares of his order
  Amounts,    \* the shares a trade, or a newcomer at the level, may have
  FeedPerils, \* what may go wrong: a subset of AllFeedPerils
  MaxFrames,  \* bound: the length of the tape
  MaxBreaks   \* bound: sockets lost, levels grown old, silences, evictions

\* "twins": two trades of one size print within PRINT_DEDUP_MS.  "echo": a socket is
\* so far behind that a print it delivers is outside that window.  "resub": the
\* sockets are down together, so that prints are lost, or one subscribes while prints
\* are under way on the others.  "late": the size of the level is told before the print of the trade.
\* "lag": the engine knows less of his fills than the feed has printed.  "evict": the
\* token is dropped from the watch list before the rest behind him is in the book.
AllFeedPerils == {"twins", "echo", "resub", "late", "lag", "evict"}

ASSUME WatchAssumption ==
  /\ IsFiniteSet(Sockets) /\ Sockets # {}
  /\ HisSize \in Nat \ {0} /\ Amounts \subseteq Nat \ {0}
  /\ MaxFrames \in Nat /\ MaxBreaks \in Nat
  /\ FeedPerils \subseteq AllFeedPerils

VARIABLES
  his,        \* what his order has left on the venue
  others,     \* what everybody else has at the level
  cancelled,  \* what he took back of his order
  othersTraded, \* what others traded at the level since the anchor
  tape,       \* the frames of the level
  pos,        \* Sockets -> the frames read, or Down
  level,      \* Levels.inner for the level, or NoLevel
  alive,      \* Levels.feed_alive
  printed,    \* TradePrints.cum
  seen,       \* TradePrints.seen: the sizes printed within PRINT_DEDUP_MS
  anchor,     \* the fields of Resting, or NoAnchor
  unsaid,     \* (history) a socket failed that was behind the others, and no frame
              \* has told the level since
  breaks

hisLevel == <<his, others, cancelled, othersTraded, tape>>
feed     == <<level, alive, printed, seen>>
watchVars == <<hisLevel, pos, feed, anchor, unsaid, breaks>>

Down == -1
NoLevel == -1
NoAnchor == [remaining |-> -1, printed |-> 0, contested |-> TRUE, ahead |-> 0]
Printed(n) == [kind |-> "print", n |-> n]
LevelIs(n) == [kind |-> "level", n |-> n]

Up == {s \in Sockets : pos[s] # Down}
\* What a socket still has to read.
ToCome(s) == {i \in 1..Len(tape) : i > pos[s]}
\* The prints of a size which a socket still has to deliver.
Underway(n) == \E s \in Up : \E i \in ToCome(s) : tape[i] = Printed(n)
\* The sockets that are up have delivered everything there is.
CaughtUp == \A s \in Up : ToCome(s) = {}
\* A socket more than PRINT_DEDUP_MS behind is a peril, and so is one behind for longer.
Quiet == "echo" \in FeedPerils \/ CaughtUp
\* The shares of the frames: of what traded.
Shares == [i \in DOMAIN tape |-> IF tape[i].kind = "print" THEN tape[i].n ELSE 0]
\* The shares of the prints no socket has delivered.
Unread ==
  SumFunctionOnSet([i \in DOMAIN tape |-> IF \A s \in Up : i > pos[s] THEN Shares[i] ELSE 0],
                   DOMAIN tape)

WatchInit ==
  /\ his = HisSize /\ others \in {0} \cup Amounts /\ cancelled = 0 /\ othersTraded = 0
  /\ tape = <<>> /\ pos = [s \in Sockets |-> 0]
  /\ level = HisSize + others /\ alive = TRUE /\ printed = 0 /\ seen = {}
  /\ anchor = NoAnchor /\ unsaid = FALSE /\ breaks = 0

Break == breaks < MaxBreaks /\ breaks' = breaks + 1

-----------------------------------------------------------------------------
(* The venue.                                                                *)

Trades(n) ==
  /\ Len(tape) + 2 <= MaxFrames
  /\ "twins" \in FeedPerils \/ (n \notin seen /\ ~Underway(n))
  /\ LET news == <<Printed(n), LevelIs(his' + others')>> IN
     tape' \in {tape \o news} \cup
               (IF "late" \in FeedPerils THEN {tape \o <<news[2], news[1]>>} ELSE {})

HeTrades(n) ==
  /\ n <= his /\ his' = his - n
  /\ UNCHANGED others
  /\ Trades(n)
  /\ UNCHANGED <<cancelled, othersTraded, pos, feed, anchor, unsaid, breaks>>

OthersTrade(n) ==
  /\ n <= others /\ others' = others - n
  /\ othersTraded' = IF anchor = NoAnchor THEN 0 ELSE othersTraded + n
  /\ UNCHANGED his
  /\ Trades(n)
  /\ UNCHANGED <<cancelled, pos, feed, anchor, unsaid, breaks>>

\* He takes back some of his order, or all of it.
HeCancels(n) ==
  /\ Len(tape) < MaxFrames
  /\ n \in (Amounts \cup {his}) /\ n \in 1..his
  /\ his' = his - n /\ cancelled' = cancelled + n
  /\ tape' = Append(tape, LevelIs(his' + others))
  /\ UNCHANGED <<others, othersTraded, pos, feed, anchor, unsaid, breaks>>

OthersMove(n) ==
  /\ Len(tape) < MaxFrames
  /\ others' = others + n \/ (n <= others /\ others' = others - n)
  /\ tape' = Append(tape, LevelIs(his + others'))
  /\ UNCHANGED <<his, cancelled, othersTraded, pos, feed, anchor, unsaid, breaks>>

-----------------------------------------------------------------------------
(* The sockets: pump and apply_frame.                                        *)

\* A variant for the checks: no window, every copy counts.
RecordEach(n) ==
  /\ printed' = printed + n /\ seen' = seen \cup {n}
  /\ UNCHANGED <<level, alive, unsaid>>

\* Another: the size is not in the key, one print per window counts.
RecordFirst(n) ==
  /\ printed' = IF seen # {} THEN printed ELSE printed + n
  /\ seen' = seen \cup {n}
  /\ UNCHANGED <<level, alive, unsaid>>

\* TradePrints.record_at: what has been seen within the window is not counted.
RecordAt(n) ==
  /\ printed' = IF n \in seen THEN printed ELSE printed + n
  /\ seen' = seen \cup {n}
  /\ UNCHANGED <<level, alive, unsaid>>

\* Levels.put: the last word, whoever says it.
Put(n) == level' = n /\ alive' = TRUE /\ unsaid' = FALSE /\ UNCHANGED <<printed, seen>>

Read(s) ==
  /\ s \in Up /\ ToCome(s) # {}
  /\ pos' = [pos EXCEPT ![s] = @ + 1]
  /\ LET frame == tape[pos[s] + 1] IN
     IF frame.kind = "print" THEN RecordAt(frame.n) ELSE Put(frame.n)
  /\ UNCHANGED <<hisLevel, anchor, breaks>>

\* The socket fails or is closed, is silent for a minute, or sees that the watch list
\* has changed.
Leave(s) ==
  /\ Break /\ s \in Up
  /\ "resub" \in FeedPerils \/ Up # {s}
  /\ pos' = [pos EXCEPT ![s] = Down]
  /\ unsaid' = (unsaid \/ \A t \in Up \ {s} : pos[t] > pos[s])
  /\ UNCHANGED <<hisLevel, feed, anchor>>

\* Levels.put_snapshot: a level that is not in the book is empty.
Snapshot == Put(his + others)

\* connect, subscribe: the first frame is the book as it is.
Subscribe(s) ==
  /\ s \notin Up
  /\ "resub" \in FeedPerils \/ \E t \in Up : ToCome(t) = {}
  /\ pos' = [pos EXCEPT ![s] = Len(tape)]
  /\ Snapshot
  /\ UNCHANGED <<hisLevel, anchor, breaks>>

\* PRINT_DEDUP_MS has passed since a size was counted.
WindowEnds(n) ==
  /\ n \in seen
  /\ "echo" \in FeedPerils \/ ~Underway(n)
  /\ seen' = seen \ {n}
  /\ UNCHANGED <<hisLevel, pos, level, alive, printed, anchor, unsaid, breaks>>

\* The level has not been told for LEVEL_MAX_AGE.
GrowsOld ==
  /\ Break /\ Quiet /\ level # NoLevel /\ level' = NoLevel
  /\ UNCHANGED <<hisLevel, pos, alive, printed, seen, anchor, unsaid>>

\* No frame of any token for FEED_LIVENESS_WINDOW.
FallsSilent ==
  /\ Break /\ Quiet /\ alive /\ alive' = FALSE
  /\ UNCHANGED <<hisLevel, pos, level, printed, seen, anchor, unsaid>>

\* retain_tokens: the control task forgets a token that is not on the watch list.  A
\* rest in the book keeps its token there.
Evict ==
  /\ Break
  /\ "evict" \in FeedPerils \/ anchor = NoAnchor
  /\ level' = NoLevel /\ printed' = 0
  /\ UNCHANGED <<hisLevel, pos, alive, seen, anchor, unsaid>>

-----------------------------------------------------------------------------
(* The rest behind his order.                                                *)

\* The anchor, with what the engine knows of his fills.  "ahead" is not in the code:
\* the prints of earlier trades which are still to come.
Anchor(filled) ==
  LET remaining == IF level = NoLevel THEN 0 ELSE HisSize - filled IN
  [remaining |-> remaining, printed |-> printed,
   contested |-> remaining = 0 \/ 10 * level > 11 * remaining,
   ahead |-> Unread]

\* His fill is copied and the copy rests.  What he cancelled is not known.
Decide(filled) ==
  /\ anchor = NoAnchor
  /\ LET traded == HisSize - his - cancelled IN
     /\ filled = traded \/ ("lag" \in FeedPerils /\ filled < traded)
     /\ filled > 0
  /\ anchor' = Anchor(filled)
  /\ othersTraded' = 0
  /\ UNCHANGED <<his, others, cancelled, tape, pos, feed, unsaid, breaks>>

Atleast0(n) == IF n < 0 THEN 0 ELSE n

\* classify: the level, with a tenth of what he had, against what he had less what
\* has been printed.
Classify ==
  LET expected == Atleast0(anchor.remaining - (printed - anchor.printed))
      blind == \/ anchor.remaining <= 0 \/ anchor.contested
               \/ level = NoLevel \/ printed < anchor.printed
  IN IF blind THEN "uncertain"
     ELSE IF 10 * level + anchor.remaining >= 10 * expected THEN "corroborated"
     ELSE IF alive THEN "cancelled" ELSE "uncertain"

WatchNext ==
  \/ \E n \in Amounts : HeTrades(n) \/ OthersTrade(n) \/ OthersMove(n) \/ WindowEnds(n)
  \/ \E n \in 1..HisSize : HeCancels(n)
  \/ \E s \in Sockets : Read(s) \/ Leave(s) \/ Subscribe(s)
  \/ GrowsOld \/ FallsSilent \/ Evict
  \/ \E filled \in 0..HisSize : Decide(filled)

WatchSpec == WatchInit /\ [][WatchNext]_watchVars

-----------------------------------------------------------------------------
(* Properties.                                                               *)

WatchTypeOK ==
  /\ his \in 0..HisSize /\ cancelled \in 0..HisSize /\ {others, othersTraded, printed} \subseteq Nat
  /\ Len(tape) <= MaxFrames /\ \A s \in Sockets : pos[s] \in {Down} \cup 0..Len(tape)
  /\ level \in Nat \cup {NoLevel} /\ alive \in BOOLEAN /\ seen \subseteq Amounts
  /\ anchor = NoAnchor \/ anchor.remaining \in 0..HisSize
  /\ breaks <= MaxBreaks /\ unsaid \in BOOLEAN

\* A rest is never taken down as abandoned by him while he has taken nothing back,
\* however far apart the sockets read, whoever else trades or moves at the level.
NoFalseCancel == Classify = "cancelled" => cancelled > 0

\* Once the frames are in, what he took back shows when it is more than a tenth of
\* what he had and more than what others have put in front of it: a copy does not
\* go on resting behind an order that is gone.  Others' shares and prints hide it, and
\* so does a fill of his which was known before it was printed; and so does the level a socket
\* told last before it failed behind the others, until a frame tells it anew.
CancelIsSeen ==
  LET hidden == others + othersTraded
      fresh == alive /\ level # NoLevel /\ ~anchor.contested /\ ~unsaid
      shows(most) == 10 * cancelled > anchor.remaining + 10 * most IN
  anchor # NoAnchor /\ Up # {} /\ CaughtUp /\ fresh =>
    /\ shows(hidden + anchor.ahead) => Classify = "cancelled"
    /\ Classify = "cancelled" => shows(hidden)
=============================================================================

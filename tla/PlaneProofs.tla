----------------------------- MODULE PlaneProofs ------------------------------
(* Proofs about the control plane.  What a lane may buy follows from a few    *)
(* relations between what is on disk, what is in memory and what a task has   *)
(* read: they are the three invariants below, one for each property.          *)
EXTENDS Plane, TLAPS

\* The range of what is on disk; of the sets and switches; of what a task holds.  A process
\* that is down holds nothing.
DiskInv == file \in Texts /\ box \in [Lanes -> Boxes]

SetInv ==
  /\ env \subseteq AllPerils /\ wrong \subseteq Files
  /\ up \in BOOLEAN /\ torn \in BOOLEAN /\ fault \in BOOLEAN /\ stale \in BOOLEAN
  /\ runtime \subseteq Lanes /\ enabled \subseteq Lanes /\ stop \subseteq Lanes
  /\ stopd \subseteq Lanes /\ open \subseteq Lanes /\ journal \subseteq Lanes
  /\ loss \subseteq Lanes /\ tripped \subseteq Lanes /\ loaded \subseteq Lanes
  /\ ready \subseteq Lanes /\ retired \subseteq Lanes /\ armed \subseteq Lanes
  /\ halted \subseteq Lanes /\ latch \subseteq Lanes /\ since \subseteq Lanes
  /\ meant \subseteq Lanes /\ stopped \subseteq Lanes /\ fresh \subseteq Lanes
  /\ out \subseteq Lanes

TaskInv ==
  /\ tick \in [on : BOOLEAN, intent : SUBSET Lanes, halts : SUBSET Lanes, left : SUBSET Lanes]
  /\ clearing \in [at : {"none", "risk", "latch"}, lane : Lanes \cup {"none"}]
  /\ pass \in [on : BOOLEAN, pool : SUBSET Lanes, add : SUBSET Lanes, resume : SUBSET Lanes,
               retire : SUBSET Lanes, waits : SUBSET Lanes]
  /\ pass.add \cap loaded = {} /\ pass.resume \subseteq loaded
  /\ pass.retire \subseteq loaded /\ pass.waits \subseteq pass.resume

DownInv ==
  ~up => /\ tick = NoTick /\ clearing = NoClear /\ pass = NoPass
         /\ loaded = {} /\ ready = {} /\ retired = {} /\ armed = {} /\ halted = {}
         /\ latch = {} /\ stop = {} /\ open = {}

TypeInv == DiskInv /\ SetInv /\ TaskInv /\ DownInv

\* Without a file that changes between its two readings, a lane that may buy is one the
\* file had armed, without a halt, since the tick began that let it buy.
MeantInv ==
  "split" \notin env => /\ tick.intent \ tick.halts \subseteq since
                        /\ armed \ halted \subseteq meant

\* Nothing is forgotten, and nothing is raised while it is being cleared.
Quiet == env \cap {"runtime", "forget", "race", "recover"} = {}

\* A lane that is stopped has an open incident, which the journal has too and which keeps
\* its latch, or losses at their limit: the next tick halts it either way, and until that
\* tick it is one of the fresh ones.
StopInv ==
  Quiet =>
    /\ ~torn
    /\ IF up THEN open = journal /\ journal \subseteq latch ELSE stopped \cap runtime = {}
    /\ journal \subseteq stopped /\ stopped \subseteq journal \cup loss
    /\ tripped \subseteq loss
    /\ clearing.at # "none" => clearing.lane \notin journal
    /\ wrong # {} => runtime = {}
    /\ \A l \in (armed \ halted) \ fresh : l \notin stopped /\ ~fault

\* What is taken out of the pool, or flattened, is retired; the wallet task resumes none of
\* it, because it is not enabled or has a stop mode that the file has too.
OutInv ==
  env \cap {"reboot", "resumed", "unwritten"} = {} =>
    /\ out \subseteq retired
    /\ up => stop = stopd
    /\ out \cap enabled \subseteq stop
    /\ pass.resume \cap out = {}

-----------------------------------------------------------------------------
\* The initial states are of the right type.
LEMMA InitTypeInv == Init => TypeInv
  <1> SUFFICES ASSUME Init PROVE TypeInv
    OBVIOUS
  <1>1. DiskInv
    BY DEF Init, DiskInv, Texts, Boxes, NoIntent
  <1>2. SetInv
    BY PlaneAssumption DEF Init, SetInv
  <1>3. TaskInv /\ DownInv
    BY DEF Init, TaskInv, DownInv, NoTick, NoClear, NoPass
  <1> QED
    BY <1>1, <1>2, <1>3 DEF TypeInv

\* What is on disk stays in its range.
LEMMA NextDiskInv == DiskInv /\ [Next]_vars => DiskInv'
  <1> SUFFICES ASSUME DiskInv, [Next]_vars PROVE DiskInv'
    OBVIOUS
  <1> USE DEF DiskInv, Texts, Spoilt, Boxes, NoIntent, Modes, Event, setting, others, pool,
      incident, risk, flags, tasks, history
  <1>1. ASSUME NEW again \in Texts, TickReads(again) PROVE DiskInv'
    BY <1>1 DEF TickReads
  <1>2. ASSUME NEW l \in Lanes, NEW s \in States, Arm(l, s) PROVE DiskInv'
    BY <1>2 DEF Arm, States
  <1>3. ASSUME NEW text \in Texts, Edit(text) PROVE DiskInv'
    BY <1>3 DEF Edit
  <1>4. ASSUME NEW l \in Lanes, NEW mode \in Modes, PostFlatten(l, mode) PROVE DiskInv'
    BY <1>4 DEF PostFlatten
  <1>5. ASSUME NEW l \in Lanes, Expire(l) PROVE DiskInv'
    BY <1>5 DEF Expire
  <1>6. ASSUME NEW l \in Lanes, Flatten(l) PROVE DiskInv'
    <2>1. box[l] \in [mode : Modes, done : BOOLEAN]
      BY <1>6 DEF DiskInv, Boxes, NoIntent, Flatten
    <2>2. [box[l] EXCEPT !.done = TRUE] \in Boxes
      BY <2>1 DEF Boxes
    <2> QED
      BY <1>6, <2>2 DEF DiskInv, Flatten
  <1>7. CASE Crash
    BY <1>7 DEF Crash
  <1>8. CASE UNCHANGED <<file, box>>
    BY <1>8
  <1> QED
    BY <1>1, <1>2, <1>3, <1>4, <1>5, <1>6, <1>7, <1>8 DEF Next, Ticking, Clearing, Passing,
        Operating, Mishaps, Complete, vars, TickLane, ClearRisk, ClearLatch, PassStarts,
        PassEnds, Retry, ResumeStarts, Retire, Load, ResumeEnds, ClearJournal, Patch,
        Create, Spoil, Mend, Observe, PersistenceFails, Lose, Recover, Raise, Boot,
        Transact, Reload

\* The sets and switches stay in their ranges.
LEMMA NextSetInv == SetInv /\ TaskInv /\ [Next]_vars => SetInv'
  <1> SUFFICES ASSUME SetInv, TaskInv, [Next]_vars PROVE SetInv'
    OBVIOUS
  <1> USE DEF SetInv, TaskInv, setting, others, pool, incident, risk, flags, tasks, history
  <1>1. ASSUME NEW again \in Texts, TickReads(again) PROVE SetInv'
    BY <1>1 DEF TickReads, Event, IntentOf, HaltsOf, Armed
  <1>2. ASSUME NEW l \in Lanes, TickLane(l) PROVE SetInv'
    BY <1>2 DEF TickLane, Put, Latched, Trips, Halts, NoTick
  <1>3. CASE ClearRisk
    BY <1>3 DEF ClearRisk
  <1>4. CASE ClearLatch
    BY <1>4 DEF ClearLatch, NoClear
  <1>5. CASE PassStarts
    BY <1>5 DEF PassStarts, Reload, NoPass, Addable, Resumable
  <1>6. ASSUME NEW l \in Lanes, Retry(l) PROVE SetInv'
    BY <1>6 DEF Retry
  <1>7. ASSUME NEW l \in Lanes, ResumeStarts(l) PROVE SetInv'
    BY <1>7 DEF ResumeStarts
  <1>8. ASSUME NEW l \in Lanes, Retire(l) PROVE SetInv'
    BY <1>8 DEF Retire
  <1>9. ASSUME NEW l \in Lanes, NEW b \in BOOLEAN, Load(l, b) PROVE SetInv'
    BY <1>9 DEF Load
  <1>10. ASSUME NEW l \in Lanes, NEW b \in BOOLEAN, ResumeEnds(l, b) PROVE SetInv'
    BY <1>10 DEF ResumeEnds
  <1>11. ASSUME NEW text \in Texts, Edit(text) PROVE SetInv'
    BY <1>11 DEF Edit, Event
  <1>12. ASSUME NEW l \in Lanes, ClearJournal(l) PROVE SetInv'
    BY <1>12 DEF ClearJournal, Event, Cleared, Written, NotWritten, NoClear
  <1>13. ASSUME NEW l \in Lanes, Patch(l) PROVE SetInv'
    BY <1>13 DEF Patch, Event, Transact, WriteFile
  <1>14. ASSUME NEW l \in Lanes, Flatten(l) PROVE SetInv'
    BY <1>14 DEF Flatten, Gate, Stopped
  <1>15. ASSUME NEW l \in Lanes, Create(l) PROVE SetInv'
    BY <1>15 DEF Create, Event, Transact, WriteFile
  <1>16. ASSUME NEW f \in Files, Spoil(f) PROVE SetInv'
    BY <1>16 DEF Spoil, Event
  <1>17. ASSUME NEW f \in Files, Mend(f) PROVE SetInv'
    BY <1>17 DEF Mend
  <1>18. ASSUME NEW l \in Lanes, NEW s \in States, Arm(l, s) PROVE SetInv'
    BY <1>18 DEF Arm, Event
  <1>19. ASSUME NEW verdict \in Assess, Observe(verdict) PROVE SetInv'
    <2>1. Gated(verdict) \in BOOLEAN
      BY DEF Gated
    <2>2. stale' \in BOOLEAN
      BY <1>19, <2>1, Zenon DEF Observe
    <2> QED
      BY <1>19, <2>2 DEF SetInv, Observe, setting, others, pool, incident, risk, flags, tasks, history
  <1>20. CASE PersistenceFails
    BY <1>20 DEF PersistenceFails, Event
  <1>21. ASSUME NEW l \in Lanes, Lose(l) PROVE SetInv'
    BY <1>21 DEF Lose, Event
  <1>22. ASSUME NEW l \in Lanes, Recover(l) PROVE SetInv'
    BY <1>22 DEF Recover, Event
  <1>23. ASSUME NEW l \in Lanes, Raise(l) PROVE SetInv'
    BY <1>23 DEF Raise, Event, Raised, Written, NotWritten
  <1>24. CASE Crash
    BY <1>24 DEF Crash, Event, NoTick, NoClear, NoPass
  <1>25. CASE Boot
    BY <1>25 DEF Boot, LoadOrSeed, RecordContinuity, StoppedByLedger, StoppedByPending,
        Broken, RaisedAtBoot, Relatched, Replayed, Written, NotWritten
  <1>26. CASE UNCHANGED <<env, wrong, up, incident, risk, stale, flags, runtime, enabled, stop, stopd, history>>
    BY <1>26
  <1> QED
    BY <1>1, <1>2, <1>3, <1>4, <1>5, <1>6, <1>7, <1>8, <1>9, <1>10, <1>11, <1>12, <1>13,
        <1>14, <1>15, <1>16, <1>17, <1>18, <1>19, <1>20, <1>21, <1>22, <1>23, <1>24, <1>25,
        <1>26 DEF Next, Ticking, Clearing, Passing, Operating, Mishaps, Complete, vars,
        PassEnds, Expire, PostFlatten, Transact, Reload

\* What the tasks hold stays in its range.
LEMMA NextTaskInv == SetInv /\ TaskInv /\ DownInv /\ [Next]_vars => TaskInv'
  <1> SUFFICES ASSUME SetInv, TaskInv, DownInv, [Next]_vars PROVE TaskInv'
    OBVIOUS
  <1> USE DEF SetInv, TaskInv, DownInv, setting, others, pool, incident, risk, flags,
      tasks, history
  <1>1. ASSUME NEW again \in Texts, TickReads(again) PROVE TaskInv'
    BY <1>1 DEF TickReads, Event, IntentOf, HaltsOf, Armed
  <1>2. ASSUME NEW l \in Lanes, TickLane(l) PROVE TaskInv'
    BY <1>2 DEF TickLane, Put, Latched, Trips, Halts, NoTick
  <1>3. CASE ClearRisk
    BY <1>3 DEF ClearRisk
  <1>4. CASE ClearLatch
    BY <1>4 DEF ClearLatch, NoClear
  <1>5. ASSUME NEW l \in Lanes, ClearJournal(l) PROVE TaskInv'
    BY <1>5 DEF ClearJournal, Event, Cleared, Written, NotWritten, NoClear
  <1>6. CASE PassStarts
    BY <1>6 DEF PassStarts, Reload, NoPass, Addable, Resumable
  <1>7. CASE PassEnds
    BY <1>7 DEF PassEnds, NoPass
  <1>8. ASSUME NEW l \in Lanes, ResumeStarts(l) PROVE TaskInv'
    BY <1>8 DEF ResumeStarts
  <1>9. ASSUME NEW l \in Lanes, Retire(l) PROVE TaskInv'
    BY <1>9 DEF Retire
  <1>10. ASSUME NEW l \in Lanes, NEW b \in BOOLEAN, Load(l, b) PROVE TaskInv'
    BY <1>10 DEF Load
  <1>11. ASSUME NEW l \in Lanes, NEW b \in BOOLEAN, ResumeEnds(l, b) PROVE TaskInv'
    BY <1>11 DEF ResumeEnds
  <1>12. CASE Crash
    BY <1>12 DEF Crash, Event, NoTick, NoClear, NoPass
  <1>13. CASE Boot
    BY <1>13 DEF Boot, NoTick, NoClear, NoPass
  <1>14. CASE UNCHANGED <<tasks, loaded>>
    BY <1>14
  <1> QED
    BY <1>1, <1>2, <1>3, <1>4, <1>5, <1>6, <1>7, <1>8, <1>9, <1>10, <1>11, <1>12, <1>13,
        <1>14 DEF Next, Ticking, Clearing, Passing, Operating, Mishaps, Complete, vars,
        Retry, Edit, Patch, Flatten, Expire, PostFlatten, Create, Spoil, Mend, Arm,
        Observe, PersistenceFails, Lose, Recover, Raise, Transact, Reload

\* A process that is down holds nothing.
LEMMA NextDownInv == SetInv /\ TaskInv /\ DownInv /\ [Next]_vars => DownInv'
  <1> SUFFICES ASSUME SetInv, TaskInv, DownInv, [Next]_vars PROVE DownInv'
    OBVIOUS
  <1> USE DEF SetInv, TaskInv, DownInv, NoTick, NoClear, NoPass, setting, others, pool,
      incident, risk, flags, tasks, history
  <1>1. ASSUME NEW again \in Texts, TickReads(again) PROVE DownInv'
    BY <1>1 DEF TickReads, Event, IntentOf, HaltsOf, Armed
  <1>2. ASSUME NEW l \in Lanes, TickLane(l) PROVE DownInv'
    BY <1>2 DEF TickLane, Put, Latched, Trips, Halts, NoTick
  <1>3. CASE ClearRisk
    BY <1>3 DEF ClearRisk
  <1>4. CASE ClearLatch
    BY <1>4 DEF ClearLatch, NoClear
  <1>5. CASE PassStarts
    BY <1>5 DEF PassStarts, Reload, NoPass, Addable, Resumable
  <1>6. CASE PassEnds
    BY <1>6 DEF PassEnds, NoPass
  <1>7. ASSUME NEW l \in Lanes, Retry(l) PROVE DownInv'
    BY <1>7 DEF Retry
  <1>8. ASSUME NEW l \in Lanes, ResumeStarts(l) PROVE DownInv'
    BY <1>8 DEF ResumeStarts
  <1>9. ASSUME NEW l \in Lanes, Retire(l) PROVE DownInv'
    BY <1>9 DEF Retire
  <1>10. ASSUME NEW l \in Lanes, NEW b \in BOOLEAN, Load(l, b) PROVE DownInv'
    BY <1>10 DEF Load
  <1>11. ASSUME NEW l \in Lanes, NEW b \in BOOLEAN, ResumeEnds(l, b) PROVE DownInv'
    BY <1>11 DEF ResumeEnds
  <1>12. ASSUME NEW l \in Lanes, ClearJournal(l) PROVE DownInv'
    BY <1>12 DEF ClearJournal, Event, Cleared, Written, NotWritten, NoClear
  <1>13. ASSUME NEW l \in Lanes, Patch(l) PROVE DownInv'
    BY <1>13 DEF Patch, Event, Transact, WriteFile
  <1>14. ASSUME NEW l \in Lanes, Flatten(l) PROVE DownInv'
    BY <1>14 DEF Flatten, Gate, Stopped
  <1>15. ASSUME NEW l \in Lanes, NEW mode \in Modes, PostFlatten(l, mode) PROVE DownInv'
    BY <1>15 DEF PostFlatten, Event
  <1>16. ASSUME NEW l \in Lanes, Create(l) PROVE DownInv'
    BY <1>16 DEF Create, Event, Transact, WriteFile
  <1>17. ASSUME NEW l \in Lanes, NEW s \in States, Arm(l, s) PROVE DownInv'
    BY <1>17 DEF Arm, Event
  <1>18. ASSUME NEW verdict \in Assess, Observe(verdict) PROVE DownInv'
    BY <1>18 DEF Observe, Event, Gated
  <1>19. CASE PersistenceFails
    BY <1>19 DEF PersistenceFails, Event
  <1>20. ASSUME NEW l \in Lanes, Lose(l) PROVE DownInv'
    BY <1>20 DEF Lose, Event
  <1>21. ASSUME NEW l \in Lanes, Recover(l) PROVE DownInv'
    BY <1>21 DEF Recover, Event
  <1>22. ASSUME NEW l \in Lanes, Raise(l) PROVE DownInv'
    BY <1>22 DEF Raise, Event, Raised, Written, NotWritten
  <1>23. CASE Crash
    BY <1>23 DEF Crash, Event, NoTick, NoClear, NoPass
  <1>24. CASE Boot
    BY <1>24 DEF Boot, LoadOrSeed, RecordContinuity, StoppedByLedger, StoppedByPending,
        Broken, RaisedAtBoot, Relatched, Replayed, Written, NotWritten
  <1>25. CASE UNCHANGED <<up, tasks, flags, stop, open>>
    BY <1>25
  <1> QED
    BY <1>1, <1>2, <1>3, <1>4, <1>5, <1>6, <1>7, <1>8, <1>9, <1>10, <1>11, <1>12, <1>13,
        <1>14, <1>15, <1>16, <1>17, <1>18, <1>19, <1>20, <1>21, <1>22, <1>23, <1>24, <1>25
        DEF Next, Ticking, Clearing, Passing, Operating, Mishaps, Complete, vars, Edit,
        Expire, Spoil, Mend, Transact, Reload

\* TypeInv is inductive.
LEMMA NextTypeInv == TypeInv /\ [Next]_vars => TypeInv'
  BY NextDiskInv, NextSetInv, NextTaskInv, NextDownInv DEF TypeInv

\* What a tick has read, and what it has set, was meant.
LEMMA NextMeantInv == SetInv /\ TaskInv /\ MeantInv /\ [Next]_vars => MeantInv'
  <1> SUFFICES ASSUME SetInv, TaskInv, MeantInv, [Next]_vars PROVE MeantInv'
    OBVIOUS
  <1> USE DEF SetInv, TaskInv, MeantInv, setting, others, pool, incident, risk, flags,
      tasks, history
  <1>1. ASSUME NEW again \in Texts, TickReads(again) PROVE MeantInv'
    BY <1>1 DEF TickReads, Event, IntentOf, HaltsOf, Armed
  <1>2. ASSUME NEW l \in Lanes, TickLane(l) PROVE MeantInv'
    BY <1>2 DEF TickLane, Put, Latched, Trips, Halts, NoTick
  <1>3. ASSUME NEW l \in Lanes, NEW s \in States, Arm(l, s) PROVE MeantInv'
    BY <1>3 DEF Arm, Event
  <1>4. ASSUME NEW text \in Texts, Edit(text) PROVE MeantInv'
    BY <1>4 DEF Edit, Event
  <1>5. CASE Crash
    BY <1>5 DEF Crash, Event, NoTick, NoClear, NoPass
  <1>6. CASE UNCHANGED <<env, tick, since, armed, halted, meant>>
    BY <1>6
  <1> QED
    BY <1>1, <1>2, <1>3, <1>4, <1>5, <1>6 DEF Next, Ticking, Clearing, Passing, Operating,
        Mishaps, Complete, vars, ClearRisk, ClearLatch, PassStarts, PassEnds, Retry,
        ResumeStarts, Retire, Load, ResumeEnds, ClearJournal, Patch, Flatten, Expire,
        PostFlatten, Create, Spoil, Mend, Observe, PersistenceFails, Lose, Recover, Raise,
        Boot, Transact, Reload

\* A stop is kept by its incident or by the losses, until it is cleared.
LEMMA NextStopInv == TypeInv /\ StopInv /\ [Next]_vars => StopInv'
  <1> SUFFICES ASSUME TypeInv, StopInv, [Next]_vars PROVE StopInv'
    OBVIOUS
  <1> USE DEF TypeInv, SetInv, TaskInv, DownInv, StopInv, Quiet, setting, others, pool,
      incident, risk, flags, tasks, history
  <1>1. ASSUME NEW l \in Lanes, TickLane(l) PROVE StopInv'
    BY <1>1 DEF TickLane, Put, Latched, Trips, Halts, NoTick
  <1>2. CASE ClearRisk
    BY <1>2 DEF ClearRisk
  <1>3. CASE ClearLatch
    BY <1>3 DEF ClearLatch, NoClear
  <1>4. ASSUME NEW l \in Lanes, Lose(l) PROVE StopInv'
    BY <1>4 DEF Lose, Event
  <1>5. ASSUME NEW l \in Lanes, Recover(l) PROVE StopInv'
    BY <1>5 DEF Recover, Event
  <1>6. CASE PersistenceFails
    BY <1>6 DEF PersistenceFails, Event
  <1>7. ASSUME NEW l \in Lanes, Raise(l) PROVE StopInv'
    BY <1>7 DEF Raise, Event, Raised, Written, NotWritten
  <1>8. ASSUME NEW l \in Lanes, ClearJournal(l) PROVE StopInv'
    BY <1>8 DEF ClearJournal, Event, Cleared, Written, NotWritten, NoClear
  <1>9. CASE Crash
    BY <1>9 DEF Crash, Event, NoTick, NoClear, NoPass
  <1>10. CASE Boot
    <2> SUFFICES ASSUME Quiet, Quiet' PROVE StopInv'
      BY <1>10 DEF StopInv, Quiet, Boot, setting
    <2> DEFINE S == StoppedByLedger \cup StoppedByPending
    <2>1. ~torn /\ stopped \cap runtime = {} /\ (wrong # {} => runtime = {})
      BY <1>10 DEF Boot, StopInv
    <2>2. IF wrong = {} THEN S = {} ELSE S = Lanes
      BY <1>10, <2>1 DEF TypeInv, SetInv, Boot, LoadOrSeed, Files, StoppedByLedger, StoppedByPending,
         Broken
    <2> HIDE DEF S
    <2>3. RaisedAtBoot(S) /\ latch' = S \cup {l \in Lanes \ runtime : l \in journal}
      BY <1>10 DEF Boot, Relatched, S
    <2>4. journal' = journal \cup S /\ open' = journal' /\ ~torn'
      BY <2>1, <2>3 DEF RaisedAtBoot, Replayed, Written, NotWritten, Quiet, incident
    <2>5. latch' = S \cup (journal \ runtime) /\ journal \cap runtime = {}
      BY <2>1, <2>3 DEF TypeInv, SetInv, StopInv
    <2>6. stopped' = IF wrong = {} THEN stopped ELSE Lanes
      BY <1>10 DEF Boot
    <2>7. journal \subseteq stopped /\ stopped \subseteq journal \cup loss /\ tripped \subseteq loss
      BY DEF StopInv
    <2>8. /\ armed' = {} /\ up' /\ clearing' = NoClear
          /\ loss' = loss /\ tripped' = tripped /\ runtime' = runtime
          /\ wrong' = wrong \ {"ledger"}
      BY <1>10 DEF TypeInv, DownInv, Boot, RecordContinuity, setting, risk
    <2>9. journal \subseteq Lanes /\ stopped \subseteq Lanes
      BY DEF TypeInv, SetInv
    <2>10. /\ journal' \subseteq latch' /\ journal' \subseteq stopped'
           /\ stopped' \subseteq journal' \cup loss'
      BY <2>2, <2>4, <2>5, <2>6, <2>7, <2>8, <2>9
    <2>11. clearing'.at = "none" /\ (wrong' # {} => runtime' = {})
      BY <2>1, <2>8 DEF NoClear
    <2> QED
      BY <2>4, <2>7, <2>8, <2>10, <2>11 DEF StopInv
  <1>11. ASSUME NEW f \in Files, Spoil(f) PROVE StopInv'
    BY <1>11 DEF Spoil, Event
  <1>12. ASSUME NEW f \in Files, Mend(f) PROVE StopInv'
    BY <1>12 DEF Mend
  <1>13. CASE UNCHANGED <<env, up, runtime, incident, latch, stopped, loss, tripped, clearing, wrong, armed, halted, fresh, fault>>
    BY <1>13
  <1> QED
    BY <1>1, <1>2, <1>3, <1>4, <1>5, <1>6, <1>7, <1>8, <1>9, <1>10, <1>11, <1>12, <1>13 DEF
        Next, Ticking, Clearing, Passing, Operating, Mishaps, Complete, vars, TickReads,
        PassStarts, PassEnds, Retry, ResumeStarts, Retire, Load, ResumeEnds, Edit, Patch,
        Flatten, Expire, PostFlatten, Create, Arm, Observe, Transact, Reload

\* What is out stays retired.
LEMMA NextOutInv == TypeInv /\ OutInv /\ [Next]_vars => OutInv'
  <1> SUFFICES ASSUME TypeInv, OutInv, [Next]_vars PROVE OutInv'
    OBVIOUS
  <1> USE DEF TypeInv, SetInv, TaskInv, DownInv, OutInv, setting, others, pool, incident,
      risk, flags, tasks, history
  <1>1. CASE PassStarts
    BY <1>1 DEF PassStarts, Reload, NoPass, Addable, Resumable
  <1>2. CASE PassEnds
    BY <1>2 DEF PassEnds, NoPass
  <1>3. ASSUME NEW l \in Lanes, ResumeStarts(l) PROVE OutInv'
    BY <1>3 DEF ResumeStarts
  <1>4. ASSUME NEW l \in Lanes, NEW b \in BOOLEAN, ResumeEnds(l, b) PROVE OutInv'
    BY <1>4 DEF ResumeEnds
  <1>5. ASSUME NEW l \in Lanes, Retire(l) PROVE OutInv'
    BY <1>5 DEF Retire
  <1>6. ASSUME NEW l \in Lanes, NEW b \in BOOLEAN, Load(l, b) PROVE OutInv'
    BY <1>6 DEF Load
  <1>7. ASSUME NEW l \in Lanes, Patch(l) PROVE OutInv'
    BY <1>7 DEF Patch, Event, Transact, WriteFile
  <1>8. ASSUME NEW l \in Lanes, Create(l) PROVE OutInv'
    BY <1>8 DEF Create, Event, Transact, WriteFile
  <1>9. ASSUME NEW l \in Lanes, Flatten(l) PROVE OutInv'
    BY <1>9 DEF Flatten, Gate, Stopped
  <1>10. CASE Crash
    BY <1>10 DEF Crash, Event, NoTick, NoClear, NoPass
  <1>11. CASE Boot
    BY <1>11 DEF Boot, LoadOrSeed, NoPass
  <1>12. CASE UNCHANGED <<env, up, out, retired, enabled, stop, stopd, pass>>
    BY <1>12
  <1> QED
    BY <1>1, <1>2, <1>3, <1>4, <1>5, <1>6, <1>7, <1>8, <1>9, <1>10, <1>11, <1>12 DEF Next,
        Ticking, Clearing, Passing, Operating, Mishaps, Complete, vars, TickReads,
        TickLane, ClearRisk, ClearLatch, Retry, Edit, ClearJournal, Expire, PostFlatten,
        Spoil, Mend, Arm, Observe, PersistenceFails, Lose, Recover, Raise, Transact, Reload

-----------------------------------------------------------------------------
\* The initial states meet the invariants, and every step keeps them.
LEMMA Invariants == Spec => [](TypeInv /\ MeantInv /\ StopInv /\ OutInv)
  <1>1. Init => TypeInv /\ MeantInv /\ StopInv /\ OutInv
    BY InitTypeInv DEF Init, MeantInv, StopInv, OutInv, NoTick, NoClear, NoPass
  <1>2. TypeInv /\ MeantInv /\ StopInv /\ OutInv /\ [Next]_vars
        => (TypeInv /\ MeantInv /\ StopInv /\ OutInv)'
    BY NextTypeInv, NextMeantInv, NextStopInv, NextOutInv DEF TypeInv
  <1> QED
    BY <1>1, <1>2, PTL DEF Spec

\* Every variable stays in its range, and the wallet task loads no lane twice
\* (control.rs and the wallet task of main.rs).
THEOREM TypeCorrect == Spec => []TypeOK
  <1>1. TypeInv => TypeOK
    BY DEF TypeInv, DiskInv, SetInv, TaskInv, TypeOK
  <1> QED
    BY <1>1, Invariants, PTL

\* A lane buys only if the operator had it armed, without a halt, at some moment of the
\* tick that set its flags or since (tick_with and the two readings of operator_intent
\* and operator_halts).
THEOREM MeantCorrect == Spec => []BuysAreMeant
  <1>1. MeantInv => BuysAreMeant
    BY DEF MeantInv, BuysAreMeant, Buying
  <1> QED
    BY <1>1, Invariants, PTL

\* From the next tick on, a lane with a safety stop does not buy until the operator clears
\* it, over any number of restarts (latch_buys, Incidents, tick_with and the boot).
THEOREM StopsCorrect == Spec => []StopsHold
  <1>1. StopInv => StopsHold
    BY DEF StopInv, Quiet, StopsHold, Buying
  <1> QED
    BY <1>1, Invariants, PTL

\* A lane that was flattened, or taken out of the pool, does not buy before it is enabled
\* again (the flatten task, and reconcile of the wallet task).
THEOREM OutCorrect == Spec => []StaysOut
  <1>1. OutInv => StaysOut
    BY DEF OutInv, StaysOut, Buying
  <1> QED
    BY <1>1, Invariants, PTL
=============================================================================

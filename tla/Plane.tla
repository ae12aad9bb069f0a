-------------------------------- MODULE Plane ---------------------------------
(* Who may buy: what the file, the safety stops and the wallet pool make *)
(* of the flags the hot path reads.                                          *)
(*                                                                           *)
(* Nothing tells the hot path to stop.  The operator writes a file, a fault  *)
(* raises an incident and a latch, the guardian stops writing its file, the  *)
(* wallet pool is edited; a control tick, a watch and the wallet task each   *)
(* turn what they last read into the flags of a lane.  The model is about    *)
(* how long a stop takes to hold, and what makes it stop holding.            *)
EXTENDS Naturals, FiniteSets

CONSTANTS
  Lanes,
  Perils,    \* what may go wrong in one run: sets of perils
  MaxEvents  \* bound: what the operator does and what goes wrong, in all

\* "split": the operator file changes between the two times a tick reads it.
\* "forget": an incident cannot be appended.  "race": an incident is raised while
\* an earlier one is being cleared.  "recover": a lane's losses are made good, so
\* that they would trip nothing any more.  "runtime": the engine restarts with a
\* safety stop on a runtime lane.  "reboot": it restarts with a lane retired or
\* flattened.  "resumed": a lane is flattened while the wallet task resumes it.
\* "unwritten": the pool cannot be written.
AllPerils == {"split", "forget", "race", "recover", "runtime", "reboot", "resumed",
              "unwritten"}

ASSUME PlaneAssumption == 
  Perils \subseteq SUBSET AllPerils /\ MaxEvents \in Nat

VARIABLES
  env,        \* the perils of this run; constant
  runtime,    \* the lanes in the wallet file only, not in the configuration; constant
  up,         \* the engine runs
  file,       \* the operator file: Lanes -> what it says
  enabled,    \* the pool: the enabled wallets
  stop,       \* the wallets with a stop mode, in memory
  stopd,      \* and in the wallet file
  box,        \* the flatten intents on disk: Lanes -> Boxes
  open,       \* Incidents.open
  journal,    \* what a replay of the incident journal would open
  torn,       \* the journal ends in a fragment
  wrong,      \* the files that were spoilt while the engine was down: a set of Files
  loss,       \* the lanes whose losses are at their limit
  tripped,    \* LaneRisk.tripped
  fault,      \* ~persistence_ok
  stale,      \* guardian_stale: the guardian's last pass is too long ago
  loaded, ready, retired, armed, halted, latch,    \* LaneState: sets of lanes
  tick,       \* the control tick
  clearing,   \* the handler of /api/incident/clear
  pass,       \* the wallet task
  since,      \* history: the lanes the file had armed since the tick began
  meant,      \* history: the same, of the tick that last set a lane's flags
  stopped,    \* history: the lanes with a safety stop nobody has cleared
  fresh,      \* history: and no tick has seen since
  out,        \* history: the lanes flattened, or retired and not enabled since
  events      \* bound

pool     == <<enabled, stop, stopd, box>>
incident == <<open, journal, torn>>
risk     == <<loss, tripped, fault>>
flags    == <<loaded, ready, retired, armed, halted, latch>>
history  == <<since, meant, stopped, fresh, out>>
tasks    == <<tick, clearing, pass>>
setting  == <<env, runtime>>
others   == <<setting, wrong>>
vars     == <<setting, up, wrong, file, pool, incident, risk, stale, flags, tasks, history,
              events>>

\* What the operator file says of a lane; "bad": it cannot be read.
States == {"off", "halt", "armed"}
Spoilt == [l \in Lanes |-> "bad"]
Texts == [Lanes -> States] \cup {Spoilt}
NoTick == [on |-> FALSE, intent |-> {}, halts |-> {}, left |-> {}]
\* No intent younger than INTENT_TTL_SECS, one the flatten task has not looked at, or
\* one it has: that is kept in memory.  A panic sells everything.
Modes == {"calm", "panic"}
NoIntent == [mode |-> "none", done |-> TRUE]
Boxes == {NoIntent} \cup [mode : Modes, done : BOOLEAN]
NoClear == [at |-> "none", lane |-> "none"]
NoPass == [on |-> FALSE, pool |-> {}, add |-> {}, resume |-> {}, retire |-> {},
           waits |-> {}]

\* The ledger; the journal of pending orders, or its log; the wallet file.
Files == {"ledger", "pending", "wallets"}

Init ==
  /\ wrong = {}
  /\ env \in Perils /\ runtime \in SUBSET Lanes
  /\ up = FALSE
  /\ file \in [Lanes -> States]
  /\ enabled \in SUBSET Lanes /\ stop = {} /\ stopd = {}
  /\ box = [l \in Lanes |-> NoIntent]
  /\ open = {} /\ journal = {} /\ torn = FALSE
  /\ loss = {} /\ tripped = {} /\ fault = FALSE
  /\ stale = FALSE
  /\ loaded = {} /\ ready = {} /\ retired = {} /\ armed = {} /\ halted = {} /\ latch = {}
  /\ tick = NoTick /\ clearing = NoClear /\ pass = NoPass
  /\ since = {} /\ meant = {} /\ stopped = {} /\ fresh = {} /\ out = {}
  /\ events = 0

\* The operator does something, or something goes wrong.
Event == events < MaxEvents /\ events' = events + 1

\* Router::decide: the flags that let a buy of his be copied.
Buying(l) == up /\ l \in (loaded \cap ready \cap armed) \ (halted \cup retired)

-----------------------------------------------------------------------------
(* The operator file and the control tick.                                   *)

Armed == {l \in Lanes : file[l] = "armed"}

\* handle_arm_post: a file that cannot be read is not replaced.
Arm(l, state) ==
  /\ Event /\ up
  /\ file[l] \notin {state, "bad"}
  /\ file' = [file EXCEPT ![l] = state]
  /\ since' = IF state = "armed" THEN since \cup {l} ELSE since
  /\ UNCHANGED <<others, up, pool, incident, risk, stale, flags, tasks, meant,
                 stopped, fresh, out>>

\* Somebody edits the file by hand, and spoils it; or mends it.
Edit(text) ==
  /\ Event
  /\ file # text /\ Spoilt \in {file, text}
  /\ file' = text
  /\ since' = since \cup {l \in Lanes : text[l] = "armed"}
  /\ UNCHANGED <<others, up, pool, incident, risk, stale, flags, tasks, meant,
                 stopped, fresh, out>>

\* Variant of IntentOf that takes a lane for armed when the file cannot be read.
IntentOfDefault(text) == {l \in Lanes : text[l] # "off"}
\* operator_intent: who is armed, with or without a halt of buys.
IntentOf(text) == {l \in Lanes : text[l] \in {"armed", "halt"}}
\* Variant of HaltsOf that takes every armed lane for one that may buy.
HaltsOfNone(text) == {}
\* operator_halts: whose buys are halted.
HaltsOf(text) == {l \in Lanes : text[l] = "halt"}

\* A tick reads the file twice; it may be another the second time.
TickReads(again) ==
  /\ up /\ ~tick.on /\ loaded # {}
  /\ \/ again = file /\ UNCHANGED events
     \/ again # file /\ "split" \in env /\ Event
  /\ tick' = [on |-> TRUE, left |-> loaded,
              intent |-> IntentOf(file),
              halts |-> HaltsOf(again)]
  /\ file' = again
  /\ since' = Armed \cup {l \in Lanes : again[l] = "armed"}
  /\ UNCHANGED <<others, up, pool, incident, risk, stale, flags, clearing, pass, meant,
                 stopped, fresh, out>>

Put(S, l, b) == IF b THEN S \cup {l} ELSE S \ {l}

Trips(l) == l \in tripped \cup loss
\* Variant of Latched that looks at the risk limits and the write fault alone.
LatchedAnew(l) == Trips(l) \/ fault
\* A trip or a write fault latches, and a latch stays.
Latched(l) == l \in latch \/ Trips(l) \/ fault

\* Variant of Halts that never lets go.
HaltsForGood(l) == l \in halted \/ Latched(l) \/ l \in tick.halts \/ stale
\* A latch, an operator's halt or a stale guardian halts buys.
Halts(l) == Latched(l) \/ l \in tick.halts \/ stale

\* tick_with, for one lane; a trip of the risk limits is for good.
TickLane(l) ==
  /\ l \in tick.left
  /\ tripped' = Put(tripped, l, Trips(l))
  /\ latch' = Put(latch, l, Latched(l))
  /\ armed' = Put(armed, l, l \in tick.intent)
  /\ halted' = Put(halted, l, Halts(l))
  /\ tick' = IF tick.left = {l} THEN NoTick ELSE [tick EXCEPT !.left = @ \ {l}]
  /\ meant' = Put(meant, l, l \in since)
  /\ stopped' = IF Trips(l) THEN stopped \cup {l} ELSE stopped
  /\ fresh' = fresh \ {l}
  /\ UNCHANGED <<others, up, file, pool, incident, loss, fault, stale, loaded, ready,
                 retired, clearing, pass, since, out, events>>

-----------------------------------------------------------------------------
(* Safety stops.                                                             *)

\* A lane's losses reach a limit of its; or are made good.
Lose(l) ==
  /\ Event /\ up /\ l \notin loss
  /\ loss' = loss \cup {l}
  /\ UNCHANGED <<others, up, file, pool, incident, tripped, fault, stale, flags, tick,
                 clearing, pass, history>>

Recover(l) ==
  /\ Event /\ up /\ "recover" \in env /\ l \in loss
  /\ loss' = loss \ {l}
  /\ UNCHANGED <<others, up, file, pool, incident, tripped, fault, stale, flags, tick,
                 clearing, pass, history>>

\* A write of the ledger fails; the tick holds the same lock.
PersistenceFails ==
  /\ Event /\ up /\ ~fault /\ ~tick.on
  /\ fault' = TRUE /\ fresh' = Lanes
  /\ UNCHANGED <<others, up, file, pool, incident, loss, tripped, stale, flags, tick,
                 clearing, pass, since, meant, stopped, out>>

\* A row of the incident journal reaches the disk; behind a fragment it makes one
\* line with it, which a replay skips.
Written(rows) == journal' = (IF torn THEN journal ELSE rows) /\ torn' = FALSE
NotWritten == "forget" \in env /\ torn' \in BOOLEAN /\ UNCHANGED journal

\* Incidents::raise and clear: what is open follows what is durable.
Raised(l) ==
  IF l \in open THEN UNCHANGED incident
  ELSE \/ open' = open \cup {l} /\ Written(journal \cup {l})
       \/ NotWritten /\ UNCHANGED open
Cleared(l) ==
  IF l \in open THEN open' = open \ {l} /\ Written(journal \ {l}) ELSE UNCHANGED incident

\* latch_buys: the latch is set whether the incident could be written or not.
Raise(l) ==
  /\ Event /\ up /\ l \in loaded \ stopped
  /\ clearing.lane # l \/ "race" \in env
  /\ latch' = latch \cup {l}
  /\ Raised(l)
  /\ stopped' = stopped \cup {l} /\ fresh' = fresh \cup {l}
  /\ UNCHANGED <<others, up, file, pool, risk, stale, loaded, ready, retired, armed,
                 halted, tick, clearing, pass, since, meant, out>>

\* /api/incident/clear: the journal, then the risk limits under the control lock,
\* then the latch.  A row that cannot be written ends it.
ClearJournal(l) ==
  /\ Event /\ up /\ clearing = NoClear
  /\ l \in open \cup latch \cup tripped
  /\ \/ /\ Cleared(l)
        /\ clearing' = [at |-> "risk", lane |-> l]
        /\ stopped' = stopped \ {l}
     \/ l \in open /\ NotWritten /\ UNCHANGED <<open, clearing, stopped>>
  /\ UNCHANGED <<others, up, file, pool, risk, stale, flags, tick, pass, since, meant,
                 fresh, out>>

\* The limits count from here; or the row cannot be written, and they do not.
ClearRisk ==
  /\ clearing.at = "risk" /\ ~tick.on
  /\ \/ /\ tripped' = tripped \ {clearing.lane} /\ loss' = loss \ {clearing.lane}
        /\ stopped' = stopped \ ({clearing.lane} \ open)
        /\ UNCHANGED <<fault, fresh>>
     \/ /\ "forget" \in env /\ fault' = TRUE /\ fresh' = Lanes
        /\ UNCHANGED <<loss, tripped, stopped>>
  /\ clearing' = [clearing EXCEPT !.at = "latch"]
  /\ UNCHANGED <<others, up, file, pool, incident, stale, flags, tick, pass, since,
                 meant, out, events>>

ClearLatch ==
  /\ clearing.at = "latch"
  /\ latch' = latch \ {clearing.lane}
  /\ clearing' = NoClear
  /\ UNCHANGED <<others, up, file, pool, incident, risk, stale, loaded, ready, retired,
                 armed, halted, tick, pass, history, events>>

\* assess: how long ago the guardian's last pass was, if there ever was one.
Assess == {"warmup", "never seen", "fresh", "stale"}
\* Verdict::buys_gated.
Gated(verdict) == verdict \in {"never seen", "stale"}

\* The watch looks at the guardian's file and gates buys, or lets them go on.
Observe(verdict) ==
  /\ Event /\ up
  /\ stale' = Gated(verdict) /\ stale' # stale
  /\ UNCHANGED <<others, up, file, pool, incident, risk, flags, tasks, history>>

-----------------------------------------------------------------------------
(* The wallet pool.                                                          *)

\* write_file: the new file replaces the old one whole.
WriteFile == stopd' = stop

\* transact: a pool that is not valid, or cannot be written, changes nothing; else the
\* file and the memory change together.  Neither takes a stop mode back.
Transact(wallets) == enabled' = wallets /\ WriteFile /\ UNCHANGED <<stop, box>>

\* handle_wallet_patch: a wallet is enabled or disabled.
Patch(l) ==
  /\ Event /\ up
  /\ Transact(IF l \in enabled THEN enabled \ {l} ELSE enabled \cup {l})
  /\ out' = IF l \in enabled \/ l \in stop THEN out ELSE out \ {l}
  /\ UNCHANGED <<others, up, file, incident, risk, stale, flags, tick,
                 clearing, pass, since, meant, stopped, fresh>>

\* A wallet the pool does not have is added to it, enabled.
Create(l) ==
  /\ Event /\ up /\ l \in runtime \ (loaded \cup enabled \cup stop \cup out)
  /\ Transact(enabled \cup {l})
  /\ UNCHANGED <<others, up, file, incident, risk, stale, flags, tasks, history>>

\* gate: a lane that is armed is not sold out in a panic.
Gate(l, mode) == mode = "panic" => l \notin armed

\* handle_flatten_post: the intent is written down, if it passes the gate now.
PostFlatten(l, mode) ==
  /\ Event /\ up /\ l \in loaded
  /\ Gate(l, mode)
  /\ box' = [box EXCEPT ![l] = [mode |-> mode, done |-> FALSE]]
  /\ UNCHANGED <<others, up, file, enabled, stop, stopd, incident, risk, stale, flags,
                 tasks, history>>

\* The intent gets older than INTENT_TTL_SECS.
Expire(l) ==
  /\ box[l] # NoIntent
  /\ box' = [box EXCEPT ![l] = NoIntent]
  /\ UNCHANGED <<others, up, file, enabled, stop, stopd, incident, risk, stale, flags,
                 tasks, history, events>>

\* mutate: the stop mode is noted in memory and in the file; that the file could not be
\* written is ignored.
Stopped(l) ==
  /\ stop' = stop \cup {l}
  /\ stopd' = stop' \/ ("unwritten" \in env /\ stopd' = stopd)

\* The flatten task: the gate is asked again; the lane is retired at once, and its stop
\* mode noted.
Flatten(l) ==
  /\ up /\ ~box[l].done /\ l \in loaded
  /\ "resumed" \in env \/ l \notin pass.resume
  /\ box' = [box EXCEPT ![l].done = TRUE]
  /\ \/ /\ Gate(l, box[l].mode)
        /\ retired' = retired \cup {l}
        /\ Stopped(l)
        /\ out' = out \cup {l}
     \/ /\ ~Gate(l, box[l].mode)
        /\ UNCHANGED <<retired, stop, stopd, out>>
  /\ UNCHANGED <<others, up, file, enabled, incident, risk, stale, loaded, ready, armed,
                 halted, latch, tick, clearing, pass, since, meant, stopped, fresh, events>>

\* Variant of Addable that does not look at what is loaded.
AddableAgain == enabled
\* reconcile: the wallets to load, and
Addable == enabled \ loaded
\* Variant of Resumable that leaves out the stop mode.
ResumableAnyway(stops) == loaded \cap retired \cap enabled
\* which of the loaded lanes may trade again.
Resumable(stops) == (loaded \cap retired \cap enabled) \ stops

\* reload: what the file says replaces what is in memory.
Reload == stop' = stopd

\* The wallet task reads the file again, and plans by what it says.
PassStarts ==
  /\ up /\ ~pass.on
  /\ Reload
  /\ pass' = [NoPass EXCEPT !.on = TRUE, !.pool = enabled, !.add = Addable,
                            !.resume = Resumable(stopd), !.retire = loaded \ enabled]
  /\ UNCHANGED <<others, up, file, enabled, stopd, box, incident, risk, stale, flags,
                 tick, clearing, history, events>>

\* reactivate_lane: the list of the leader's positions is complete, or of no use.
Complete == BOOLEAN

\* A new lane is loaded, and ready if its leader's book is complete.
Load(l, complete) ==
  /\ l \in pass.add
  /\ loaded' = loaded \cup {l}
  /\ ready' = IF complete THEN ready \cup {l} ELSE ready
  /\ pass' = [pass EXCEPT !.add = @ \ {l}]
  /\ UNCHANGED <<others, up, file, pool, incident, risk, stale, retired, armed, halted,
                 latch, tick, clearing, history, events>>

\* A lane that is not ready is tried again.
Retry(l) ==
  /\ pass.on /\ pass.add = {} /\ pass.waits = {}
  /\ l \in (loaded \cap pass.pool) \ (ready \cup retired)
  /\ ready' = ready \cup {l}
  /\ UNCHANGED <<others, up, file, pool, incident, risk, stale, loaded, retired, armed,
                 halted, latch, tick, clearing, pass, history, events>>

\* A retired lane is made unready, its leader's book is fetched, and it is let in.
ResumeStarts(l) ==
  /\ pass.add = {} /\ pass.waits = {} /\ l \in pass.resume
  /\ ready' = ready \ {l}
  /\ pass' = [pass EXCEPT !.waits = {l}]
  /\ UNCHANGED <<others, up, file, pool, incident, risk, stale, loaded, retired, armed,
                 halted, latch, tick, clearing, history, events>>

ResumeEnds(l, complete) ==
  /\ l \in pass.waits
  /\ retired' = IF complete THEN retired \ {l} ELSE retired
  /\ ready' = IF complete THEN ready \cup {l} ELSE ready
  /\ pass' = [pass EXCEPT !.waits = {}, !.resume = @ \ {l}]
  /\ UNCHANGED <<others, up, file, pool, incident, risk, stale, loaded, armed, halted,
                 latch, tick, clearing, history, events>>

Retire(l) ==
  /\ pass.add = {} /\ pass.resume = {} /\ l \in pass.retire
  /\ retired' = retired \cup {l}
  /\ pass' = [pass EXCEPT !.retire = @ \ {l}]
  /\ out' = IF l \in enabled THEN out ELSE out \cup {l}
  /\ UNCHANGED <<others, up, file, pool, incident, risk, stale, loaded, ready, armed,
                 halted, latch, tick, clearing, since, meant, stopped, fresh, events>>

PassEnds ==
  /\ pass.on /\ pass.add \cup pass.resume \cup pass.retire = {}
  /\ pass' = NoPass
  /\ UNCHANGED <<others, up, file, pool, incident, risk, stale, flags, tick, clearing,
                 history, events>>

-----------------------------------------------------------------------------
(* The process.                                                              *)

\* The engine stops.  What is in memory only is gone.
Crash ==
  /\ Event /\ up
  /\ "runtime" \in env \/ stopped \cap runtime = {}
  /\ "reboot" \in env \/ out = {}
  /\ up' = FALSE
  /\ loaded' = {} /\ ready' = {} /\ retired' = {} /\ armed' = {} /\ halted' = {} /\ latch' = {}
  /\ stop' = {} /\ open' = {} /\ tripped' = {} /\ fault' = FALSE /\ stale' = FALSE
  /\ tick' = NoTick /\ clearing' = NoClear /\ pass' = NoPass
  /\ since' = {} /\ meant' = {} /\ fresh' = {}
  /\ box' = [l \in Lanes |-> IF box[l] = NoIntent THEN NoIntent
                                  ELSE [box[l] EXCEPT !.done = FALSE]]
  /\ UNCHANGED <<others, file, enabled, stopd, journal, torn, loss, stopped, out>>

\* Variant of Relatched that does not ask the journal.
RelatchedNot(l) == FALSE
\* An incident that is still open latches the lane again.
Relatched(l) == l \in journal

\* Incidents::open: the journal is replayed.
Replayed == journal

\* While the engine is down somebody cuts, loses or spoils a file of its, one at a time; or
\* mends it.
Spoil(f) ==
  /\ Event /\ ~up /\ wrong = {}
  /\ "runtime" \in env \/ runtime = {}
  /\ wrong' = wrong \cup {f}
  /\ UNCHANGED <<setting, up, file, pool, incident, risk, stale, flags, tasks, history>>

Mend(f) ==
  /\ ~up /\ f \in wrong
  /\ wrong' = wrong \ {f}
  /\ UNCHANGED <<setting, up, file, pool, incident, risk, stale, flags, tasks, history, events>>

\* verify_continuity: the ledger has lost what it had when the engine last started.
Broken == "ledger" \in wrong
\* record_continuity: what it has now is what the next start looks for.
RecordContinuity == wrong' = wrong \ {"ledger"}

\* Which lanes a broken ledger stops,
StoppedByLedger == IF Broken THEN Lanes \ runtime ELSE {}
\* and which a journal of pending orders that cannot be read.
StoppedByPending == IF "pending" \in wrong THEN Lanes \ runtime ELSE {}

\* latch_buys, at boot: each stop is journalled, if it can be.
RaisedAtBoot(S) ==
  LET new == S \ journal IN
  IF new = {} THEN open' = Replayed /\ UNCHANGED <<journal, torn>>
  ELSE \/ open' = Replayed \cup S /\ Written(journal \cup S)
       \/ NotWritten /\ open' = Replayed

\* load_or_seed: the wallet file; the engine does not start without it.
LoadOrSeed == "wallets" \notin wrong /\ stop' = stopd

\* The ledger is verified, what is wrong stops every lane there is; then the lanes of
\* the configuration are disarmed, latched again, and ready once their books are seeded
\* (or the engine gives up).
Boot ==
  /\ ~up
  /\ up' = TRUE
  /\ LoadOrSeed
  /\ RecordContinuity
  /\ loaded' = Lanes \ runtime /\ ready' = Lanes \ runtime
  /\ LET S == StoppedByLedger \cup StoppedByPending IN
       /\ RaisedAtBoot(S)
       /\ latch' = S \cup {l \in Lanes \ runtime : Relatched(l)}
  /\ stopped' = IF wrong = {} THEN stopped ELSE Lanes
  /\ UNCHANGED <<setting, file, enabled, stopd, box, risk, stale, retired, armed, halted,
                 tick, clearing, pass, since, meant, fresh, out, events>>

Ticking == (\E again \in Texts : TickReads(again)) \/ \E l \in Lanes : TickLane(l)
Clearing == ClearRisk \/ ClearLatch
Passing ==
  \/ PassStarts \/ PassEnds
  \/ \E l \in Lanes : Retry(l) \/ ResumeStarts(l) \/ Retire(l)
  \/ \E l \in Lanes, complete \in Complete : Load(l, complete) \/ ResumeEnds(l, complete)
Operating ==
  \/ \E text \in Texts : Edit(text)
  \/ \E l \in Lanes : ClearJournal(l) \/ Patch(l) \/ Flatten(l) \/ Expire(l)
  \/ \E l \in Lanes, mode \in Modes : PostFlatten(l, mode)
  \/ \E l \in Lanes : Create(l)
  \/ \E f \in Files : Spoil(f) \/ Mend(f)
  \/ \E l \in Lanes, s \in States : Arm(l, s)
Mishaps ==
  (\E verdict \in Assess : Observe(verdict)) \/ PersistenceFails \/ \E l \in Lanes : Lose(l) \/ Recover(l) \/ Raise(l)

Next == Ticking \/ Clearing \/ Passing \/ Operating \/ Mishaps \/ Crash \/ Boot

Spec == Init /\ [][Next]_vars

\* The tasks run again and again, a request is served to its end, and the leader's
\* book can be read now and then.
Fairness ==
  /\ WF_vars(Ticking) /\ WF_vars(Clearing) /\ WF_vars(Passing) /\ WF_vars(Boot)
  /\ \A l \in Lanes : SF_vars(Retry(l)) /\ SF_vars(ResumeEnds(l, TRUE))
FairSpec == Spec /\ Fairness

-----------------------------------------------------------------------------
(* Properties.                                                               *)

\* Every variable stays within its range; the wallet task loads no lane twice.
TypeOK ==
  /\ env \subseteq AllPerils /\ runtime \subseteq Lanes
  /\ wrong \subseteq Files
  /\ up \in BOOLEAN /\ torn \in BOOLEAN /\ fault \in BOOLEAN
  /\ file \in Texts
  /\ box \in [Lanes -> Boxes]
  /\ enabled \subseteq Lanes /\ stop \subseteq Lanes /\ stopd \subseteq Lanes
  /\ open \subseteq Lanes /\ journal \subseteq Lanes
  /\ loss \subseteq Lanes /\ tripped \subseteq Lanes
  /\ stale \in BOOLEAN
  /\ \A S \in {loaded, ready, retired, armed, halted, latch} : S \subseteq Lanes
  /\ tick.left \subseteq Lanes
  /\ clearing.at \in {"none", "risk", "latch"}
  /\ pass.add \cap loaded = {} /\ pass.resume \cup pass.retire \subseteq loaded
  /\ \A S \in {pass.pool, pass.add, pass.resume, pass.retire, pass.waits} : S \subseteq Lanes

\* A lane buys only if the operator had it armed, without a halt of its buys, at
\* some moment of the tick that set its flags or since that tick began.
BuysAreMeant == "split" \notin env => \A l \in Lanes : Buying(l) => l \in meant

\* A safety stop holds from the next tick on, until the operator clears it: over
\* restarts, and whatever else is raised, cleared or edited.
StopsHold ==
  env \cap {"runtime", "forget", "race", "recover"} = {} =>
    \A l \in Lanes \ fresh : Buying(l) => l \notin stopped /\ ~fault

\* A lane that was flattened or retired does not buy until it is enabled again.
StaysOut ==
  env \cap {"reboot", "resumed", "unwritten"} = {} => \A l \in out : ~Buying(l)

Wanted(l) ==
  /\ up /\ l \in Armed /\ l \in enabled \ (stop \cup stopd)
  /\ l \notin latch \cup tripped \cup loss /\ ~fault /\ ~stale

\* What the operator wants to trade, and nothing stops, trades in the end: a lane
\* that was halted, retired or not ready comes back by itself.
WantedLanesBuy == \A l \in Lanes : <>[]Wanted(l) => []<>Buying(l)

\* A lane the operator has disarmed for good ends buying, and one with an incident
\* nobody clears does too.
UnwantedLanesEnd ==
  \A l \in Lanes : <>[](l \notin Armed \/ l \in latch) => <>[]~Buying(l)
=============================================================================

--------------------------- MODULE SpendTripwire ---------------------------
(***************************************************************************)
(* The spend tripwire: the detectors of src/src/watch.rs, the step of the  *)
(* request pipeline that consults them, the hot reload of trip.json in     *)
(* Engine::refresh and `decoyrail trip clear`.                             *)
(*                                                                         *)
(* Sessions share one trip.json.  Its content is the number of the trip    *)
(* that wrote it, and so is its mtime; Absent is no file.  Time is in      *)
(* ticks, a billed request costs one unit.                                 *)
(***************************************************************************)
EXTENDS Integers, Sequences, FiniteSets

CONSTANTS
    Sessions,       \* proxy processes, the ones whose requests are followed
    Tasks,          \* requests in flight at the same time, over all sessions
    SessionOf,      \* the session of each task
    Fps,            \* fingerprints of LLM-bound requests
    Modes,          \* what spend_tripwire.mode is while policies come and go
    Repeats,        \* spend_tripwire.repeats; 0 disables
    Window,         \* window_secs
    RateMultiplier, \* rate_multiplier; 0 disables
    RateFloor,      \* rate_floor_usd
    BaselineMin,    \* BASELINE_MIN_SECS
    MaxEvents,      \* MAX_EVENTS, the capacity of a ring
    MaxTime,        \* bound on the clock
    MaxRequests,    \* bound on the requests a session observes
    MaxTrips,       \* bound on the trips
    Faults          \* which of FaultKinds may happen

FaultKinds == {"restart", "save", "hangup"}

Absent == 0

VARIABLES
    now,       \* now_unix()
    file,      \* trip.json
    trips,     \* how many trips there have been
    st,        \* st[s]: ReloadState.trip, the mtime last seen
    watch,     \* watch[s]: the detectors and the trip in force
    booting,   \* booting[s]: between the stat and the load of Engine::boot
    task,      \* task[t]: pc and what was read
    history    \* ghost: history[s]: the requests since the session was last clear

vars == <<now, file, trips, st, watch, booting, task, history>>

\* Watch::new; dropped is a ghost: the last reload of the trip was.
NewWatch(trip) ==
    [recent |-> << >>, costs |-> << >>, session_started |-> now, session_spend |-> 0,
     tripped |-> trip, kind |-> "none", dropped |-> FALSE]

Idle == [pc |-> "idle", read |-> Absent]

Init ==
    /\ now = 0
    /\ file = Absent
    /\ trips = 0
    /\ st = [s \in Sessions |-> Absent]
    /\ watch = [s \in Sessions |-> NewWatch(Absent)]
    /\ booting = [s \in Sessions |-> FALSE]
    /\ task = [t \in Tasks |-> Idle]
    /\ history = [s \in Sessions |-> << >>]

Up(s)        == ~booting[s]
Tripped(s)   == watch[s].tripped # Absent
At(t, label) == Up(SessionOf[t]) /\ task[t].pc = label
Goto(t, label, read) == task' = [task EXCEPT ![t].pc = label, ![t].read = read]

-----------------------------------------------------------------------------
(***************************************************************************)
(* Watch.                                                                  *)
(***************************************************************************)
\* Variant: a clear leaves the windows as they are.
set_tripped_keeping(w, trip) == [w EXCEPT !.tripped = trip, !.kind = "none"]

\* A clear also empties the windows.
set_tripped(w, trip) ==
    IF trip = Absent
    THEN [w EXCEPT !.recent = << >>, !.costs = << >>, !.tripped = Absent, !.kind = "none"]
    ELSE [w EXCEPT !.tripped = trip, !.kind = "none"]

Cutoff == IF now >= Window THEN now - Window ELSE 0

\* prune, of one ring: from the front, while it is too old.
FromCutoff(ring) ==
    LET old == {i \in 1..Len(ring) : \A j \in 1..i : ring[j].t < Cutoff}
    IN  SubSeq(ring, Cardinality(old) + 1, Len(ring))

\* push_back, and pop_front when over capacity.
Pushed(ring, x) ==
    LET all == Append(ring, x) IN IF Len(all) > MaxEvents THEN Tail(all) ELSE all

\* The detectors' windows once a request has been recorded.
Observed(w, fp) ==
    [w EXCEPT !.recent = Pushed(FromCutoff(@), [t |-> now, fp |-> fp]),
              !.costs  = FromCutoff(@)]

Count(ring, fp) == Cardinality({i \in 1..Len(ring) : ring[i].fp = fp})

RepeatSignal(w, fp) == Repeats > 0 /\ Count(w.recent, fp) >= Repeats

\* The window's spend against the session's pace before the window.
RateSignal(w) ==
    LET elapsed  == now - w.session_started
        baseline == IF elapsed >= Window THEN elapsed - Window ELSE 0
        window   == Len(w.costs)
        prior    == w.session_spend - window
    IN  /\ RateMultiplier > 0 /\ baseline >= BaselineMin
        /\ prior > 0
        /\ window >= RateFloor
        /\ window * baseline > prior * RateMultiplier * Window

observe_cost(w) ==
    [w EXCEPT !.session_spend = @ + 1, !.costs = Pushed(@, [t |-> now])]

-----------------------------------------------------------------------------
(***************************************************************************)
(* A request: refresh, then the tripwire step of the pipeline.             *)
(***************************************************************************)

\* One refresh at a time in a session: the reload lock is held throughout.
RefreshStat(t) ==
    /\ At(t, "idle")
    /\ \A u \in Tasks : SessionOf[u] = SessionOf[t] => task[u].pc \notin {"stat", "loaded"}
    /\ IF file # st[SessionOf[t]]
       THEN /\ st' = [st EXCEPT ![SessionOf[t]] = file]
            /\ Goto(t, "stat", Absent)
       ELSE /\ Goto(t, "fresh", Absent)
            /\ UNCHANGED st
    /\ UNCHANGED <<now, file, trips, watch, booting, history>>

RefreshLoad(t) ==
    /\ At(t, "stat")
    /\ Goto(t, "loaded", file)
    /\ UNCHANGED <<now, file, trips, st, watch, booting, history>>

\* Variant: what the stat said is applied, never what was loaded.
RefreshSetOnlyClears(t) ==
    /\ At(t, "loaded")
    /\ LET s == SessionOf[t] IN
       /\ watch' = [watch EXCEPT ![s] = IF task[t].read = Absent THEN set_tripped(@, Absent)
                                                                ELSE [@ EXCEPT !.dropped = FALSE]]
       /\ history' = IF task[t].read = Absent THEN [history EXCEPT ![s] = << >>] ELSE history
    /\ Goto(t, "fresh", Absent)
    /\ UNCHANGED <<now, file, trips, st, booting>>

RefreshSet(t) ==
    /\ At(t, "loaded")
    /\ LET s == SessionOf[t] IN
       /\ watch' = [watch EXCEPT ![s] = [set_tripped(@, task[t].read) EXCEPT !.dropped = FALSE]]
       /\ history' = IF task[t].read = Absent THEN [history EXCEPT ![s] = << >>] ELSE history
    /\ Goto(t, "fresh", Absent)
    /\ UNCHANGED <<now, file, trips, st, booting>>

\* The client of the request that refreshes hangs up while refresh waits for
\* the lock on the watch: hyper drops it.
RefreshDropped(t) ==
    /\ "hangup" \in Faults
    /\ At(t, "loaded")
    /\ watch' = [watch EXCEPT ![SessionOf[t]].dropped = TRUE]
    /\ Goto(t, "idle", Absent)
    /\ UNCHANGED <<now, file, trips, st, booting, history>>

\* A standing trip: in block mode the request is denied, else it goes on.
MeetTrip(t, mode) ==
    /\ At(t, "fresh")
    /\ Tripped(SessionOf[t])
    /\ Goto(t, IF mode = "block" THEN "idle" ELSE "sent", Absent)
    /\ UNCHANGED <<now, file, trips, st, watch, booting, history>>

\* The detectors; a trip is set in memory, then saved, all under the lock.
Observe(t, fp, mode) ==
    /\ At(t, "fresh")
    /\ mode # "off" /\ ~Tripped(SessionOf[t])
    /\ LET s    == SessionOf[t]
           w    == Observed(watch[s], fp)
           kind == IF RepeatSignal(w, fp) THEN "repeat"
                   ELSE IF RateSignal(w) THEN "rate" ELSE "none"
       IN  /\ Len(history[s]) < MaxRequests
           /\ history' = [history EXCEPT ![s] = Append(@, [t |-> now, fp |-> fp])]
           /\ IF kind = "none"
              THEN /\ watch' = [watch EXCEPT ![s] = w]
                   /\ Goto(t, "sent", Absent)
                   /\ UNCHANGED <<file, trips>>
              ELSE /\ trips < MaxTrips
                   /\ trips' = trips + 1
                   /\ watch' = [watch EXCEPT ![s] = [set_tripped(w, trips') EXCEPT !.kind = kind]]
                   /\ \/ file' = trips'
                      \/ "save" \in Faults /\ UNCHANGED file
                   /\ Goto(t, IF mode = "block" THEN "idle" ELSE "sent", Absent)
    /\ UNCHANGED <<now, st, booting>>

\* Switched off, the detectors record nothing.
Unwatched(t, mode) ==
    /\ At(t, "fresh")
    /\ mode = "off" /\ ~Tripped(SessionOf[t])
    /\ Goto(t, "sent", Absent)
    /\ UNCHANGED <<now, file, trips, st, watch, booting, history>>

\* The response is metered; nothing comes of one that is not billed.
MeterCost(t) ==
    /\ At(t, "sent")
    /\ LET s == SessionOf[t] IN
       \/ watch[s].session_spend < MaxRequests /\ watch' = [watch EXCEPT ![s] = observe_cost(@)]
       \/ UNCHANGED watch
    /\ Goto(t, "idle", Absent)
    /\ UNCHANGED <<now, file, trips, st, booting, history>>

\* A session that is not among Sessions trips and saves.
TripElsewhere ==
    /\ trips < MaxTrips
    /\ trips' = trips + 1
    /\ file' = trips'
    /\ UNCHANGED <<now, st, watch, booting, task, history>>

\* `decoyrail trip clear`
TripClear ==
    /\ file # Absent
    /\ file' = Absent
    /\ UNCHANGED <<now, trips, st, watch, booting, task, history>>

\* A session ends and another one boots: the mtime, then the trip.
BootStat(s) ==
    /\ "restart" \in Faults
    /\ Up(s)
    /\ booting' = [booting EXCEPT ![s] = TRUE]
    /\ st' = [st EXCEPT ![s] = file]
    /\ task' = [t \in Tasks |-> IF SessionOf[t] = s THEN Idle ELSE task[t]]
    /\ UNCHANGED <<now, file, trips, watch, history>>

BootLoad(s) ==
    /\ booting[s]
    /\ booting' = [booting EXCEPT ![s] = FALSE]
    /\ watch' = [watch EXCEPT ![s] = NewWatch(file)]
    /\ history' = [history EXCEPT ![s] = << >>]
    /\ UNCHANGED <<now, file, trips, st, task>>

Tick ==
    /\ now < MaxTime
    /\ now' = now + 1
    /\ UNCHANGED <<file, trips, st, watch, booting, task, history>>

Next ==
    \/ \E t \in Tasks :
          \/ RefreshStat(t) \/ RefreshLoad(t) \/ RefreshSet(t)
          \/ RefreshDropped(t) \/ MeterCost(t)
          \/ \E mode \in Modes :
                MeetTrip(t, mode) \/ Unwatched(t, mode) \/ \E fp \in Fps : Observe(t, fp, mode)
    \/ \E s \in Sessions : BootStat(s) \/ BootLoad(s)
    \/ TripElsewhere
    \/ TripClear
    \/ Tick

Spec == Init /\ [][Next]_vars

-----------------------------------------------------------------------------
ASSUME SessionOfAssumption == SessionOf \in [Tasks -> Sessions]
ASSUME ConfigAssumption ==
    /\ Modes \subseteq {"block", "alert", "off"}
    /\ {Repeats, Window, RateMultiplier, RateFloor, BaselineMin} \subseteq Nat
    /\ MaxEvents \in Nat \ {0}

(***************************************************************************)
(* Properties.                                                             *)
(***************************************************************************)
\* No task of the session is inside the trip part of a refresh.
Settled(s) ==
    Up(s) /\ \A t \in Tasks : SessionOf[t] = s => task[t].pc \notin {"stat", "loaded"}

\* docs: a trip "survives a proxy restart, reaches every session sharing the
\* state dir".  A session that is clear while a trip stands finds a changed
\* mtime at its next refresh, whatever refreshes, boots, trips and clears
\* overlapped before, unless its last reload was dropped.
StandingTripNoticed ==
    \A s \in Sessions :
       (Settled(s) /\ ~Tripped(s) /\ file # Absent /\ ~watch[s].dropped) => st[s] # file

\* The requests of the session since it was last clear that lie in the window
\* ending at the last one.
InWindow(s) ==
    LET last == history[s][Len(history[s])]
    IN  {i \in 1..Len(history[s]) : history[s][i].t + Window >= last.t}

Repetitions(s) ==
    Cardinality({i \in InWindow(s) : history[s][i].fp = history[s][Len(history[s])].fp})

\* The repeat detector, computed from pruned rings, agrees with the definition
\* in the docs on the whole history: a session that tripped on repetition saw
\* the request `repeats` times inside the window and after the last clear, and
\* one that has not tripped did not, unless more than MAX_EVENTS requests fell
\* into the window.
RepeatExact ==
    \A s \in Sessions : history[s] # << >> /\ Repeats > 0 =>
       /\ (watch[s].kind = "repeat" /\ Tripped(s)) => Repetitions(s) >= Repeats
       /\ (~Tripped(s) /\ Cardinality(InWindow(s)) <= MaxEvents) => Repetitions(s) < Repeats

\* docs: "`decoyrail trip clear` clears it"; ReloadState.trip: "a running
\* proxy must follow both without a restart".  A session that is tripped while
\* no trip stands finds a changed mtime at its next refresh.
ClearNoticed ==
    \A s \in Sessions : (Settled(s) /\ Tripped(s) /\ file = Absent) => st[s] # file
============================================================================

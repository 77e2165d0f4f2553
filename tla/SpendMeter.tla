----------------------------- MODULE SpendMeter -----------------------------
(***************************************************************************)
(* The spend meter of src/src/meter.rs and the way the request pipeline    *)
(* and Engine::refresh drive it: sessions (proxy processes) that share one *)
(* meter.json add up their spend there, and each enforces the monthly      *)
(* budget on the merged total.                                             *)
(*                                                                         *)
(* Costs are counted in units; what a file or a delta says per host and    *)
(* model is one sum.  Months are numbered, an mtime is the number of the   *)
(* write that set it.  A task serves one request after the other.          *)
(***************************************************************************)
EXTENDS Integers, FiniteSets, FiniteSetsExt

CONSTANTS
    Sessions,    \* proxy processes
    Tasks,       \* requests in flight at the same time, over all sessions
    SessionOf,   \* the session of each task
    Running,     \* the sessions that are up at the start
    Budget,      \* budget.json
    MaxPeriod,   \* bound on the months
    MaxBilled,   \* bound on the requests billed
    Faults       \* which of FaultKinds may happen

FaultKinds == {"crash", "flush"}

VARIABLES
    period,   \* current_period(): the month it is
    disk,     \* meter.json: period, cost and mtime
    pc,       \* pc[s]: "down", "loaded" (half way through load) or "up"
    meter,    \* meter[s]: the SessionMeter
    task,     \* task[t]: pc, and what the task read earlier
    spent,    \* ghost: spent[m] is what was billed in month m
    lost,     \* ghost: lost[m] is what a crash took before it was flushed
    hidden,   \* ghost: hidden[m] is what was billed in month m by a request whose flush failed
    synced,   \* ghost: the sessions that have reloaded or flushed since they booted
    late      \* ghost: a request was billed to a month that was over

vars == <<period, disk, pc, meter, task, spent, lost, hidden, synced, late>>

Periods == 1..MaxPeriod

NoMeter == [delta_period |-> 0, delta |-> 0, merged_period |-> 0, merged_cost |-> 0, seen |-> 0]
Idle    == [pc |-> "idle", read |-> 0]

Init ==
    /\ period = 1
    /\ disk = [period |-> 1, cost |-> 0, mtime |-> 0]
    /\ pc = [s \in Sessions |-> IF s \in Running THEN "up" ELSE "down"]
    /\ meter = [s \in Sessions |-> IF s \in Running THEN [NoMeter EXCEPT !.merged_period = 1]
                                   ELSE NoMeter]
    /\ task = [t \in Tasks |-> Idle]
    /\ spent = [m \in Periods |-> 0]
    /\ lost = [m \in Periods |-> 0]
    /\ hidden = [m \in Periods |-> 0]
    /\ synced = Running
    /\ late = FALSE

TasksOf(s) == {t \in Tasks : SessionOf[t] = s}

At(t, label) == pc[SessionOf[t]] = "up" /\ task[t].pc = label

Goto(t, label, read) == task' = [task EXCEPT ![t] = [pc |-> label, read |-> read]]

-----------------------------------------------------------------------------
\* SessionMeter::load reads the usage, and the mtime after it.
LoadUsage(s) ==
    /\ pc[s] = "down"
    /\ pc' = [pc EXCEPT ![s] = "loaded"]
    /\ meter' = [meter EXCEPT ![s] = [NoMeter EXCEPT !.merged_period = disk.period,
                                                     !.merged_cost = disk.cost]]
    /\ UNCHANGED <<period, disk, task, spent, lost, hidden, synced, late>>

LoadMtime(s) ==
    /\ pc[s] = "loaded"
    /\ pc' = [pc EXCEPT ![s] = "up"]
    /\ meter' = [meter EXCEPT ![s].seen = disk.mtime]
    /\ UNCHANGED <<period, disk, task, spent, lost, hidden, synced, late>>

\* roll: the delta and the merged view move to the month `now`.
Rolled(m, now) ==
    [m EXCEPT !.delta_period  = now,
              !.delta         = IF m.delta_period = now THEN @ ELSE 0,
              !.merged_period = now,
              !.merged_cost   = IF m.merged_period = now THEN @ ELSE 0]

\* Meter::roll_period, on what was read from the disk.
RolledDisk(now) == [disk EXCEPT !.period = now,
                                !.cost   = IF disk.period = now THEN @ ELSE 0]

\* Engine::refresh stats meter.json, then takes the meter's lock.  One
\* refresh at a time runs in a session: the reload lock is held throughout.
RefreshStat(t) ==
    /\ At(t, "idle")
    /\ \A u \in TasksOf(SessionOf[t]) : task[u].pc # "stat"
    /\ Goto(t, "stat", disk.mtime)
    /\ UNCHANGED <<period, disk, pc, meter, spent, lost, hidden, synced, late>>

\* stale and reload_merged.
Reload(t) ==
    /\ At(t, "stat")
    /\ LET s == SessionOf[t] IN
       IF meter[s].seen # task[t].read
       THEN /\ meter' = [meter EXCEPT ![s].merged_period = disk.period,
                                      ![s].merged_cost = disk.cost,
                                      ![s].seen = task[t].read]
            /\ synced' = synced \cup {s}
       ELSE UNCHANGED <<meter, synced>>
    /\ Goto(t, "fresh", 0)
    /\ UNCHANGED <<period, disk, pc, spent, lost, hidden, late>>

\* Variant: the local delta alone.
over_budget_local(m) == Budget > 0 /\ m.delta >= Budget

over_budget(m) == Budget > 0 /\ m.merged_cost + m.delta >= Budget

\* The kill switch, under the meter's lock: denied requests end here.
Check(t) ==
    /\ At(t, "fresh")
    /\ LET s == SessionOf[t]
           m == Rolled(meter[s], period)
       IN  /\ meter' = [meter EXCEPT ![s] = m]
           /\ IF over_budget(m) THEN Goto(t, "idle", 0) ELSE Goto(t, "passed", 0)
    /\ UNCHANGED <<period, disk, pc, spent, lost, hidden, synced, late>>

\* The response is there: `let now = current_period()`, then the lock.
SampleNow(t) ==
    /\ At(t, "passed")
    /\ Goto(t, "billing", period)
    /\ UNCHANGED <<period, disk, pc, meter, spent, lost, hidden, synced, late>>

Billed(t) ==
    /\ At(t, "billing")
    /\ MapThenSumSet(LAMBDA m : spent[m], Periods) < MaxBilled
    /\ spent' = [spent EXCEPT ![task[t].read] = @ + 1]
    /\ late' = (late \/ task[t].read # period)
    /\ Goto(t, "idle", 0)
    /\ UNCHANGED <<period, pc, lost>>

\* record_tokens or add_estimated: the session's meter with the request in.
Recorded(t) ==
    LET m == Rolled(meter[SessionOf[t]], task[t].read) IN [m EXCEPT !.delta = @ + 1]

\* Variant: the file keeps what one session has.
FlushOwn(t) ==
    LET m == Recorded(t) IN
       /\ disk' = [RolledDisk(task[t].read) EXCEPT !.cost = m.merged_cost + m.delta,
                                                   !.mtime = @ + 1]
       /\ meter' = [meter EXCEPT ![SessionOf[t]] =
                       [m EXCEPT !.merged_cost = disk'.cost, !.delta = 0, !.seen = disk'.mtime]]

\* flush: read, merge and save under the lock of the side file, which no
\* other flush can interleave with.
Flush(t) ==
    LET m == Recorded(t) IN
       /\ disk' = [RolledDisk(task[t].read) EXCEPT !.cost = @ + m.delta, !.mtime = @ + 1]
       /\ meter' = [meter EXCEPT ![SessionOf[t]] =
                       [m EXCEPT !.merged_cost = disk'.cost, !.delta = 0, !.seen = disk'.mtime]]

Bill(t) == Billed(t) /\ Flush(t) /\ synced' = synced \cup {SessionOf[t]} /\ UNCHANGED hidden

\* flush fails (`let _ = meter.flush(..)`): the delta waits for the next one.
BillUnflushed(t) ==
    /\ "flush" \in Faults
    /\ Billed(t)
    /\ meter' = [meter EXCEPT ![SessionOf[t]] = Recorded(t)]
    /\ hidden' = [hidden EXCEPT ![task[t].read] = @ + 1]
    /\ UNCHANGED <<disk, synced>>

NextMonth ==
    /\ period < MaxPeriod
    /\ period' = period + 1
    /\ UNCHANGED <<disk, pc, meter, task, spent, lost, hidden, synced, late>>

Crash(s) ==
    /\ "crash" \in Faults
    /\ pc[s] # "down"
    /\ pc' = [pc EXCEPT ![s] = "down"]
    /\ LET m == meter[s] IN
       lost' = IF m.delta_period \in Periods THEN [lost EXCEPT ![m.delta_period] = @ + m.delta]
               ELSE lost
    /\ meter' = [meter EXCEPT ![s] = NoMeter]
    /\ task' = [t \in Tasks |-> IF SessionOf[t] = s THEN Idle ELSE task[t]]
    /\ synced' = synced \ {s}
    /\ UNCHANGED <<period, disk, spent, hidden, late>>

Next ==
    \/ \E s \in Sessions : LoadUsage(s) \/ LoadMtime(s) \/ Crash(s)
    \/ \E t \in Tasks : \/ RefreshStat(t) \/ Reload(t) \/ Check(t)
                        \/ SampleNow(t) \/ Bill(t) \/ BillUnflushed(t)
    \/ NextMonth

Spec == Init /\ [][Next]_vars

-----------------------------------------------------------------------------
ASSUME SessionOfAssumption ==
    SessionOf \in [Tasks -> Sessions] /\ Running \subseteq Sessions
ASSUME FiniteAssumption == IsFiniteSet(Sessions) /\ IsFiniteSet(Tasks)
ASSUME BoundsAssumption ==
    Budget \in Nat /\ MaxPeriod \in Nat \ {0} /\ MaxBilled \in Nat

(***************************************************************************)
(* Properties.                                                             *)
(***************************************************************************)

\* What a session holds of this month's spend, not yet in the file.
Unflushed(s) == IF meter[s].delta_period = period THEN meter[s].delta ELSE 0

OnDisk == IF disk.period = period THEN disk.cost ELSE 0

\* One element for each unit some session holds.
Held == UNION {{s} \X (1..Unflushed(s)) : s \in Sessions}

Conserved == OnDisk + Cardinality(Held) + lost[period] = spent[period]

\* Whatever was billed this month is in the file, in the delta of a live
\* session, or went down with a session whose flush had failed, as long as
\* every request was billed in the month it sampled (flush's comment:
\* "concurrent sessions serialize and none loses the others' usage").
NoneLost == ~late => Conserved

\* A session never enforces the budget on spend that did not happen this
\* month: no delta counts twice, no earlier month keeps the switch tripped.
ViewIsReal ==
    \A s \in Sessions :
       LET m == meter[s] IN
          (IF m.merged_period = period THEN m.merged_cost ELSE 0) + Unflushed(s) <= spent[period]

\* The comment of seen_mtime: "meter.json mtime backing `merged_cost`".  A
\* session that sees nothing to reload has the cost that is in the file, once
\* it has reloaded or flushed for the first time.
SeenBacks ==
    ~late => \A s \in synced :
       (pc[s] = "up" /\ meter[s].seen = disk.mtime /\ meter[s].merged_period = disk.period) =>
          meter[s].merged_cost = disk.cost

\* The kill switch is global: all sessions together overshoot the budget by
\* at most one request for each they can have in flight, and what requests
\* billed whose flush failed.
OvershootBounded ==
    (Budget > 0 /\ ~late) => spent[period] < Budget + Cardinality(Tasks) + hidden[period]

\* A session decides on the month's shared spend: on none that did not happen,
\* on the cost in the file whose mtime it has, and too late only for what was
\* in flight or hidden from it (over_budget, reload_merged).
SwitchTracksSpend == ViewIsReal /\ SeenBacks /\ OvershootBounded
=============================================================================

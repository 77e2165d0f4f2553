---------------------------- MODULE DoctorFlush ----------------------------
(***************************************************************************)
(* How pipeline_inner drives the doctors (step 3.5): each proxy process    *)
(* has one behind a mutex, every request is counted there and then flushes *)
(* the counts of its process into the cache.json that all share.           *)
(*                                                                         *)
(* A turn serves one request after the other.  A step is one hold of the   *)
(* mutex, except for the flush, which reads the month when it has the      *)
(* mutex and then waits for the lock of the file.                          *)
(***************************************************************************)
EXTENDS DoctorCounts, FiniteSets

CONSTANTS
    Doctors,   \* proxy processes
    Turns,     \* requests in flight at the same time, over all of them
    DoctorOf,  \* the process of each turn
    Keys,      \* "<host> <model>"
    Moves,     \* the sets of counters that a request may move
    MaxMonth,  \* bound on the months
    MaxNoted   \* bound on the requests observed in a month

VARIABLES
    month,       \* current_period()
    cache_json,  \* the file
    delta,       \* delta[d]: what d has yet to flush
    turn,        \* turn[t]: where it is, its key, the month its flush has read
    noted,       \* ghost: noted[k][c] is how often c moved on k this month
    missed,      \* ghost: missed[k][c] is what of it ended with a process
    clobbered    \* ghost: a flush of an earlier month replaced the file of this one

doctor_vars == <<month, cache_json, delta, turn, noted, missed, clobbered>>

Waiting == [pc |-> "idle", key |-> "none", read |-> 0]
Nothing == [k \in Keys |-> NoStats]

DoctorInit ==
    /\ month = 1
    /\ cache_json = NoCounts
    /\ delta = [d \in Doctors |-> NoCounts]
    /\ turn = [t \in Turns |-> Waiting]
    /\ noted = Nothing
    /\ missed = Nothing
    /\ clobbered = FALSE

\* Turn t is at a place where it asks for the mutex, and it is free.
MutexFor(t, place) ==
    /\ turn[t].pc = place
    /\ \A u \in Turns : DoctorOf[u] = DoctorOf[t] => turn[u].pc # "flushing"

Becomes(t, place, key, read) ==
    turn' = [turn EXCEPT ![t] = [pc |-> place, key |-> key, read |-> read]]

\* The counters `moved` on the key, in the current month.
Count(t, key, moved) ==
    /\ delta' = [delta EXCEPT ![DoctorOf[t]] = Counted(roll_period(@, month), key, moved)]
    /\ noted' = [noted EXCEPT ![key] = Bump(@, moved)]
    /\ UNCHANGED <<month, cache_json, missed, clobbered>>

\* A body that is not a Messages request is not observed.
ObserveSkips(t) ==
    /\ MutexFor(t, "idle")
    /\ Becomes(t, "flush", "none", 0)
    /\ UNCHANGED <<month, cache_json, delta, noted, missed, clobbered>>

ObserveTurn(t) ==
    /\ MutexFor(t, "idle")
    /\ \E key \in Keys, moved \in Moves :
          /\ noted[key]["requests"] < MaxNoted
          /\ Count(t, key, moved)
          /\ Becomes(t, IF "repairable" \in moved THEN "repair" ELSE "flush", key, 0)

\* The repair is licensed, asked for and possible, or it is left.
NoteRepaired(t) ==
    /\ MutexFor(t, "repair")
    /\ Count(t, turn[t].key, {"repaired"})
    /\ Becomes(t, "flush", "none", 0)

LeaveRepair(t) ==
    /\ turn[t].pc = "repair"
    /\ Becomes(t, "flush", "none", 0)
    /\ UNCHANGED <<month, cache_json, delta, noted, missed, clobbered>>

\* The mutex, then current_period(), then the lock of the file.
FlushBegins(t) ==
    /\ MutexFor(t, "flush")
    /\ Becomes(t, "flushing", "none", month)
    /\ UNCHANGED <<month, cache_json, delta, noted, missed, clobbered>>

FlushEnds(t) ==
    /\ turn[t].pc = "flushing"
    /\ LET out == flush(delta[DoctorOf[t]], cache_json, turn[t].read) IN
       /\ delta' = [delta EXCEPT ![DoctorOf[t]] = out.delta]
       /\ cache_json' = out.disk
       /\ clobbered' = \/ clobbered
                       \/ /\ cache_json.period = month /\ turn[t].read # month
                          /\ out.disk # cache_json
    /\ Becomes(t, "idle", "none", 0)
    /\ UNCHANGED <<month, noted, missed>>

\* The lock or the file is not to be had: the delta has been rolled and waits.
FlushFails(t) ==
    /\ turn[t].pc = "flushing"
    /\ delta' = [delta EXCEPT ![DoctorOf[t]] = roll_period(@, turn[t].read)]
    /\ Becomes(t, "idle", "none", 0)
    /\ UNCHANGED <<month, cache_json, noted, missed, clobbered>>

\* What the counts x hold for this month.
OfMonth(x, k, c) == IF x.period = month THEN StatsOf(x, k)[c] ELSE 0

\* The process ends, and another takes its place.
DoctorDies(d) ==
    /\ \E t \in Turns : DoctorOf[t] = d /\ turn[t].pc # "idle"
    /\ delta' = [delta EXCEPT ![d] = NoCounts]
    /\ missed' = [k \in Keys |-> [c \in Counters |-> missed[k][c] + OfMonth(delta[d], k, c)]]
    /\ turn' = [t \in Turns |-> IF DoctorOf[t] = d THEN Waiting ELSE turn[t]]
    /\ UNCHANGED <<month, cache_json, noted, clobbered>>

MonthTurns ==
    /\ month < MaxMonth
    /\ month' = month + 1
    /\ noted' = Nothing
    /\ missed' = Nothing
    /\ clobbered' = FALSE
    /\ UNCHANGED <<cache_json, delta, turn>>

DoctorNext ==
    \/ \E t \in Turns : \/ ObserveSkips(t) \/ ObserveTurn(t)
                        \/ NoteRepaired(t) \/ LeaveRepair(t)
                        \/ FlushBegins(t) \/ FlushEnds(t) \/ FlushFails(t)
    \/ \E d \in Doctors : DoctorDies(d)
    \/ MonthTurns

DoctorSpec == DoctorInit /\ [][DoctorNext]_doctor_vars

-----------------------------------------------------------------------------
ASSUME DoctorsAssumption ==
    /\ IsFiniteSet(Doctors) /\ DoctorOf \in [Turns -> Doctors]
    /\ Moves \subseteq SUBSET Counters

\* One element for each unit that some process holds.
Unwritten(k, c) == UNION {{d} \X (1..OfMonth(delta[d], k, c)) : d \in Doctors}

\* "so concurrent sessions add up instead of clobbering" (Doctor::flush): what
\* cache.json has for this month, what the processes have yet to flush and what
\* ended with one is what was observed, for every key and counter, until a
\* flush that read the month before it turned replaces the file of the new one.
DoctorAddsUp ==
    ~clobbered => \A k \in Keys, c \in Counters :
       OfMonth(cache_json, k, c) + Cardinality(Unwritten(k, c)) + missed[k][c] = noted[k][c]
=============================================================================

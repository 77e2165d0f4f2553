---------------------------- MODULE DoctorCounts ----------------------------
(***************************************************************************)
(* The counters of the cache doctor (src/src/cache.rs): those a session    *)
(* has yet to flush and those in cache.json have one form, a month and the *)
(* statistics of each host and model.  The bytes of what could be repaired *)
(* and the last divergence are left out.                                   *)
(***************************************************************************)
EXTENDS Naturals

Counters == {"requests", "marked", "preserved", "ttl_gaps", "resets", "diverged", "below_min",
             "repairable", "repaired"}

NoStats  == [c \in Counters |-> 0]
NoKeys   == [k \in {} |-> NoStats]
NoCounts == [period |-> 0, per_key |-> NoKeys]

StatsOf(counts, key) ==
    IF key \in DOMAIN counts.per_key THEN counts.per_key[key] ELSE NoStats

Put(f, key, v) == [k \in DOMAIN f \cup {key} |-> IF k = key THEN v ELSE f[k]]

\* KeyStats::merge: the counters add up.
merge(a, b) == [c \in Counters |-> a[c] + b[c]]

Bump(stats, moved) == [c \in Counters |-> IF c \in moved THEN stats[c] + 1 ELSE stats[c]]

roll_period(counts, now_period) ==
    IF counts.period = now_period THEN counts ELSE [period |-> now_period, per_key |-> NoKeys]

\* The counters `moved` of a key, in the session's delta.
Counted(delta, key, moved) ==
    [period  |-> delta.period,
     per_key |-> Put(delta.per_key, key, Bump(StatsOf(delta, key), moved))]

-----------------------------------------------------------------------------
\* Variant: the session's counts replace those on disk.
merged_alone(disk, delta, now_period) ==
    [period |-> now_period, per_key |-> delta.per_key]

\* The counts of the file and of the session, under the file lock.
merged(disk, delta, now_period) ==
    LET rolled == roll_period(disk, now_period)
    IN [period |-> now_period,
        per_key |-> [k \in DOMAIN rolled.per_key \cup DOMAIN delta.per_key |->
                       merge(StatsOf(rolled, k), StatsOf(delta, k))]]

\* flush rolls the session's counts; without any it leaves the file alone.
flush(delta, disk, now_period) ==
    LET rolled == roll_period(delta, now_period) IN
    IF DOMAIN rolled.per_key = {} THEN [delta |-> rolled, disk |-> disk]
    ELSE [delta |-> [period |-> now_period, per_key |-> NoKeys],
          disk  |-> merged(disk, rolled, now_period)]
=============================================================================

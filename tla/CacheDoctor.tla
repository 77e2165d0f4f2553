---------------------------- MODULE CacheDoctor ----------------------------
(***************************************************************************)
(* The doctor of src/src/cache.rs: what it makes of one request after      *)
(* another on a host and model, and when it asks for a repair.             *)
(*                                                                         *)
(* A doctor is what it remembers of the last request per key and the       *)
(* counts it has not yet flushed.  A section counts as one unit of length. *)
(***************************************************************************)
EXTENDS CacheBody, DoctorCounts, Functions

CONSTANTS CACHE_TTL, MIN_CACHEABLE, MAX_KEYS, REPAIR_MIN_REPEATS

NewDoctor == [prev |-> <<>>, delta |-> NoCounts]

-----------------------------------------------------------------------------
\* The first section that differs, or none when one side goes on where the
\* other ends.
first_mismatch(prev, curr) ==
    LET both == 1..(IF Len(prev) < Len(curr) THEN Len(prev) ELSE Len(curr))
        odd  == {i \in both : prev[i] # curr[i]}
    IN IF odd = {} THEN Nowhere ELSE Min(odd)

\* Variant: the label of the section before it.
section_before(canon, at) == canon.labels[IF at = 1 THEN 1 ELSE at - 1]

section_at(canon, at) == canon.labels[at]

\* Which counters the comparison with the request before moves.
Verdict(prev, canon, gap) ==
    LET at == first_mismatch(prev.prefix, canon.prefix) IN
    CASE at = Nowhere /\ (prev.truncated \/ canon.truncated) -> {"preserved"}
      [] at = Nowhere -> {"preserved"} \cup (IF gap > CACHE_TTL THEN {"ttl_gaps"} ELSE {})
      [] section_at(canon, at) = <<"messages", 0>> -> {"resets"}
      [] OTHER -> {"diverged"}

\* The run of requests with the same cacheable region, and its gaps.
NoRun == [streak |-> 0, gaps |-> 0, over |-> 0]
Run(prev, gap) ==
    [streak |-> prev.run.streak + 1, gaps |-> prev.run.gaps + 1,
     over   |-> prev.run.over + IF gap > CACHE_TTL THEN 1 ELSE 0]

\* When there are too many keys the oldest makes room.
Room(prev, key) ==
    IF Cardinality(DOMAIN prev) < MAX_KEYS \/ key \in DOMAIN prev THEN prev
    ELSE LET oldest == CHOOSE k \in DOMAIN prev :
                          \A l \in DOMAIN prev : prev[k].seen <= prev[l].seen
         IN Restrict(prev, DOMAIN prev \ {oldest})

remember(d, key, canon, run, now) ==
    [d EXCEPT !.prev = Put(Room(d.prev, key), key,
        [prefix    |-> SubSeq(canon.prefix, 1,
                          IF Len(canon.prefix) > PREFIX_CAP THEN PREFIX_CAP ELSE Len(canon.prefix)),
         truncated |-> canon.truncated \/ Len(canon.prefix) > PREFIX_CAP,
         cacheable |-> cacheable(canon), run |-> run, seen |-> now])]

RunOf(d, key, canon, now) ==
    IF /\ key \in DOMAIN d.prev /\ Len(cacheable(canon)) >= MIN_CACHEABLE
       /\ d.prev[key].cacheable = cacheable(canon)
    THEN Run(d.prev[key], now - d.prev[key].seen) ELSE NoRun

NoPlan == [ttl_1h |-> FALSE, wanted |-> FALSE]

repair_plan(canon, run) ==
    IF canon.markers = 0 /\ Len(cacheable(canon)) >= MIN_CACHEABLE /\ run.streak >= REPAIR_MIN_REPEATS
    THEN [ttl_1h |-> run.gaps > 0 /\ run.over * 2 >= run.gaps, wanted |-> TRUE]
    ELSE NoPlan

\* The counters a request moves.
Moved(prev, key, canon, now, repair) ==
    {"requests"}
      \cup (IF canon.markers > 0 THEN {"marked"} ELSE {})
      \cup (IF Len(canon.prefix) < MIN_CACHEABLE THEN {"below_min"} ELSE {})
      \cup (IF key \in DOMAIN prev THEN Verdict(prev[key], canon, now - prev[key].seen) ELSE {})
      \cup (IF repair.wanted THEN {"repairable"} ELSE {})

\* Returns the doctor, the counters it moved and the repair it asks for.
Observed(d, key, canon, run, moved, repair, now, now_period) ==
    [doctor |-> remember([d EXCEPT !.delta = Counted(roll_period(@, now_period), key, moved)],
                         key, canon, run, now),
     moved  |-> moved,
     repair |-> repair]

observe(d, key, body, now, now_period) ==
    LET canon  == canonicalize(body)
        run    == RunOf(d, key, canon, now)
        repair == repair_plan(canon, run)
    IN Observed(d, key, canon, run, Moved(d.prev, key, canon, now, repair), repair, now, now_period)

note_repaired(d, key, now_period) ==
    [d EXCEPT !.delta = Counted(roll_period(@, now_period), key, {"repaired"})]

\* The size of the prefix that is still warm, 0 if none is known.
warm_prefix(d, key, now) ==
    IF key \in DOMAIN d.prev /\ now - d.prev[key].seen <= CACHE_TTL
    THEN Len(d.prev[key].cacheable) ELSE 0
=============================================================================

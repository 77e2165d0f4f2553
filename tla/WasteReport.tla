---------------------------- MODULE WasteReport ----------------------------
(***************************************************************************)
(* The waste report of src/src/waste.rs: which requests of a log were sent *)
(* again within a short while, what that cost, and which of it was a loop. *)
(*                                                                         *)
(* An event is its action, fingerprint, time, cost (billed and covered by  *)
(* a plan) and, for a usage event, the request it belongs to; its sequence *)
(* number is its place in the log.  The window is [From, To).             *)
(***************************************************************************)
EXTENDS Naturals, Sequences, SequencesExt, FiniteSetsExt

CONSTANTS GAP, LOOP, NoPrint, From, To

\* The events the report looks at, with their sequence numbers.
InWindow(log) == {i \in DOMAIN log : From <= log[i].ts /\ log[i].ts < To}

\* Forwarded requests with a fingerprint.
reqs(log) == {i \in InWindow(log) : log[i].action \in {"allow", "warn"} /\ log[i].fp # NoPrint}

\* The usage of a stream comes in an event of its own, after its request.
Usages(log, i) ==
    {j \in InWindow(log) : j > i /\ log[j].action = "usage" /\ log[j].req_seq = i}

Cost(log, i, kind) ==
    log[i][kind] + FoldSet(LAMBDA j, sum : sum + log[j][kind], 0, Usages(log, i))

Priced(log, i) == log[i].priced \/ Usages(log, i) # {}

blocked_by_fp(log, fp) ==
    Cardinality({i \in InWindow(log) : log[i].action = "deny" /\ log[i].fp = fp /\ log[i].tripwire})

-----------------------------------------------------------------------------
\* The requests with one fingerprint, in the order of the log.
by_fp(log, fp) == SetToSortSeq({i \in reqs(log) : log[i].fp = fp}, <)

\* Variant: the gap is counted from the first request of the chain.
LinkedToFirst(log, idxs, start, k) == log[idxs[k + 1]].ts <= log[idxs[start]].ts + GAP

\* The next request belongs to the chain too.
Linked(log, idxs, start, k) == log[idxs[k + 1]].ts <= log[idxs[k]].ts + GAP

\* Where the chain that starts at a place ends.
RECURSIVE ChainEnd(_, _, _, _)
ChainEnd(log, idxs, start, end) ==
    IF end + 1 <= Len(idxs) /\ Linked(log, idxs, start, end)
    THEN ChainEnd(log, idxs, start, end + 1) ELSE end

\* The tripwire's denies belong to the last chain of their fingerprint.
Chain(log, fp, idxs, start, end) ==
    LET resent  == {idxs[k] : k \in (start + 1)..end}
        blocked == IF end = Len(idxs) THEN blocked_by_fp(log, fp) ELSE 0
        Sum(kind) == FoldSet(LAMBDA i, sum : sum + Cost(log, i, kind), 0, resent)
    IN [fp |-> fp, first |-> idxs[start], count |-> end - start + 1,
        wasted_usd |-> Sum("cost"), wasted_ref_usd |-> Sum("ref_cost"),
        unpriced |-> Cardinality({i \in resent : ~Priced(log, i)}),
        blocked |-> blocked,
        is_loop |-> end - start + 1 + blocked >= LOOP]

\* A request that is not sent again is no chain.
RECURSIVE ChainsFrom(_, _, _, _)
ChainsFrom(log, fp, idxs, start) ==
    IF start > Len(idxs) THEN {}
    ELSE LET end == ChainEnd(log, idxs, start, start) IN
         (IF end > start THEN {Chain(log, fp, idxs, start, end)} ELSE {})
           \cup ChainsFrom(log, fp, idxs, end + 1)

chains(log) ==
    UNION {ChainsFrom(log, fp, by_fp(log, fp), 1) : fp \in {log[i].fp : i \in reqs(log)}}

\* BucketTotals.
Bucket(cs) ==
    LET Sum(f(_)) == FoldSet(LAMBDA c, sum : sum + f(c), 0, cs) IN
    [chains          |-> Cardinality(cs),
     wasted_requests |-> Sum(LAMBDA c : c.count - 1),
     wasted_usd      |-> Sum(LAMBDA c : c.wasted_usd),
     wasted_ref_usd  |-> Sum(LAMBDA c : c.wasted_ref_usd),
     unpriced        |-> Sum(LAMBDA c : c.unpriced)]

report(log) ==
    LET cs == chains(log) IN
    [fingerprinted_requests |-> Cardinality(reqs(log)),
     retries         |-> Bucket({c \in cs : ~c.is_loop}),
     loops           |-> Bucket({c \in cs : c.is_loop}),
     blocked_repeats |-> FoldSet(LAMBDA c, sum : sum + c.blocked, 0, cs)]
=============================================================================

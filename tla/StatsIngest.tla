----------------------------- MODULE StatsIngest -----------------------------
(***************************************************************************)
(* `decoyrail stats` of src/src/stats.rs: a query catches a cache of       *)
(* aggregates up with the audit log and reports on a window of hours.      *)
(* Queries run beside an auditor that appends and beside each other, with  *)
(* no lock; the cache is one file that the last of them leaves behind.     *)
(*                                                                         *)
(* Events of the log are chained to all before them, so the hash of a line *)
(* is the log up to it.  Positions count units: a line takes Size of them, *)
(* and one is visible while a line is being written.  Every amount         *)
(* (tokens, bytes, a measured duration) is one unit of its counter.  The   *)
(* session and the host of a row go with its request and are left out.     *)
(***************************************************************************)
EXTENDS Naturals, Sequences, FiniteSets

CONSTANTS
    Queries,      \* processes that run `decoyrail stats`
    Models,       \* models that usage is reported for
    NoModel,      \* no usage
    Traffics,     \* what is appended, in order: action, cause, dur, model, hour
    Windows,      \* windows queries ask for: from, to (hours, half open)
    PENDING_CAP,  \* streamed requests remembered for their usage event
    Hours,        \* the hours of the clock are 1..Hours
    MaxLosses,    \* bound on the times the log loses its tail
    NoSeq         \* no seq: of an empty log, of an event without req_seq

ASSUME StatsConstants ==
    /\ PENDING_CAP \in Nat \ {0}
    /\ Hours \in Nat \ {0} /\ MaxLosses \in Nat
    /\ NoModel \notin Models /\ NoSeq \notin Nat

ASSUME TrafficAssumption ==
    Traffics \subseteq Seq([action : STRING, cause : STRING, dur : BOOLEAN,
                            model : Models \cup {NoModel}, hour : 1..Hours])

-----------------------------------------------------------------------------
\* Buckets, one counter per field; rows of them, by hour and model.

Fields == {"requests", "allows", "warns", "denies", "deny_policy",
           "deny_tripwire", "deny_dlp", "deny_budget", "tripwires",
           "dlp_alerts", "policy_tamper", "policy_changes", "tokens",
           "no_usage", "bytes_up", "bytes_down", "dur"}

Bucket == [f \in Fields |-> 0]
RowKey == (1..Hours) \X (Models \cup {NoModel})

\* Counters are added to a cell, or taken from it and never below zero.
Counted(rows, key, fields) ==
    [rows EXCEPT ![key] = [f \in Fields |-> IF f \in fields THEN @[f] + 1 ELSE @[f]]]
Uncounted(rows, key, fields) ==
    [rows EXCEPT ![key] =
        [f \in Fields |-> IF f \in fields /\ @[f] > 0 THEN @[f] - 1 ELSE @[f]]]

\* What has been taken in, in memory or in the cache file.
EmptyCache ==
    [offset |-> 0, last_seq |-> NoSeq, last_hash |-> << >>, integrity |-> "ok",
     rows |-> [k \in RowKey |-> Bucket], pending |-> {}]

Outcome(warn) == IF warn THEN "warns" ELSE "allows"

-----------------------------------------------------------------------------
\* One event, as Aggregator::apply takes it in.

\* A streamed request is remembered, the oldest beyond the cap forgotten.
Remember(pending, ev) ==
    LET all    == {p \in pending : p.seq # ev.seq}
                     \cup {[seq |-> ev.seq, hour |-> ev.hour, warn |-> ev.action = "warn"]}
        oldest == CHOOSE p \in all : \A q \in all : p.seq <= q.seq
    IN  IF Cardinality(all) > PENDING_CAP THEN all \ {oldest} ELSE all

apply_request(g, ev) ==
    LET fields == {"requests", Outcome(ev.action = "warn"), "bytes_up"}
                     \cup (IF ev.dur THEN {"bytes_down", "dur"} ELSE {})
                     \cup {IF ev.model # NoModel THEN "tokens" ELSE "no_usage"}
    IN  [g EXCEPT !.rows = Counted(@, <<ev.hour, ev.model>>, fields),
                  !.pending = IF ev.model = NoModel /\ ~ev.dur
                              THEN Remember(@, ev) ELSE @]

deny_fields(ev) ==
    {"requests", "denies", "bytes_up"} \cup (IF ev.dur THEN {"dur"} ELSE {})
       \cup CASE ev.cause = "tripwire" -> {"deny_tripwire", "tripwires"}
              [] ev.cause = "dlp"      -> {"deny_dlp"}
              [] ev.cause = "budget"   -> {"deny_budget"}
              [] OTHER                 -> {"deny_policy"}

alert_fields(ev) ==
    CASE ev.cause = "tripwire" -> {"tripwires"}
      [] ev.cause = "dlp"      -> {"dlp_alerts"}
      [] OTHER                 -> {}

\* The usage event of a stream moves its request to the cell of the model.
apply_usage(g, ev) ==
    LET base  == {p \in g.pending : p.seq = ev.ref}
        moved == {"requests", "bytes_up"}
        Correlated(p) ==
            LET from == <<p.hour, NoModel>>
                to   == <<p.hour, ev.model>>
                req  == moved \cup {Outcome(p.warn)}
            IN  IF ev.model # NoModel
                THEN Counted(Uncounted(g.rows, from, req \cup {"no_usage"}), to,
                             req \cup {"tokens", "bytes_down", "dur"})
                ELSE Counted(g.rows, from, {"bytes_down", "dur"})
    IN  [g EXCEPT
           !.pending = @ \ base,
           !.rows = IF base # {} THEN Correlated(CHOOSE p \in base : TRUE)
                    ELSE Counted(@, <<ev.hour, ev.model>>,
                            {"bytes_down"} \cup
                               (IF ev.model # NoModel THEN {"tokens"} ELSE {}))]

apply(g, ev) ==
    LET Plain(fields) == [g EXCEPT !.rows = Counted(@, <<ev.hour, NoModel>>, fields)]
    IN  CASE ev.action \in {"allow", "warn"} -> apply_request(g, ev)
          [] ev.action = "deny"   -> Plain(deny_fields(ev))
          [] ev.action = "alert"  -> Plain(alert_fields(ev))
          [] ev.action = "tamper" -> Plain({"policy_tamper"})
          [] ev.action = "policy" -> Plain({"policy_changes"})
          [] ev.action = "usage"  -> apply_usage(g, ev)
          [] OTHER -> g

\* The first break is kept; after it links are no longer checked.
flag(g, detail) == IF g.integrity = "ok" THEN [g EXCEPT !.integrity = detail] ELSE g

\* Variant: lines are taken in without checking their link.
ingest_line_unchecked(g, prev_hash, ev) ==
    apply([g EXCEPT !.last_hash = Append(prev_hash, ev), !.last_seq = ev.seq], ev)

ingest_line(g, prev_hash, ev) ==
    LET linked == IF g.last_hash # prev_hash THEN flag(g, "broken") ELSE g
    IN  apply([linked EXCEPT !.last_hash = Append(prev_hash, ev), !.last_seq = ev.seq], ev)

-----------------------------------------------------------------------------
\* The file: complete lines, and perhaps the first bytes of another.  An event
\* has the position at which its line ends.

Size(ev) == IF ev.model = NoModel THEN 2 ELSE 3

End(file, i)   == IF i = 0 THEN 0 ELSE file[i].end
Start(file, i) == End(file, i - 1)

\* The complete line that a reader at the offset reads, or the rest of it.
LinesAt(file, offset) ==
    {i \in 1..Len(file) : Start(file, i) <= offset /\ offset < End(file, i)}

\* Line i is read: from its start, or from somewhere in it, which does not parse.
read_line(g, file, i) ==
    LET past == [g EXCEPT !.offset = End(file, i)]
    IN  IF g.offset = Start(file, i)
        THEN ingest_line(past, SubSeq(file, 1, i - 1), file[i])
        ELSE flag(past, "unparseable")

-----------------------------------------------------------------------------
VARIABLES
    log,      \* the complete lines of audit.jsonl
    writing,  \* the event being appended: << >> or a sequence of one
    wpc,      \* the auditor: "idle", "part" (some bytes out), "line" (all)
    anchor,   \* the seq in audit.head, or NoSeq
    traffic,  \* what is still to be appended
    open,     \* streams whose usage event is still to come, by seq
    cache,    \* stats cache file
    query,    \* query[q]: pc, anchor, window, agg
    losses,   \* ghost: how often the tail was lost
    seen      \* ghost: seen[q]: the lines there were when q began, if the log
              \* lost lines since, if q took in a line or began from scratch

vars == <<log, writing, wpc, anchor, traffic, open, cache, query, losses, seen>>

Idle   == [pc |-> "idle", anchor |-> NoSeq, agg |-> EmptyCache]
Unseen == [lines |-> 0, lost |-> FALSE, checked |-> FALSE]

Init ==
    /\ log = << >> /\ writing = << >> /\ wpc = "idle"
    /\ anchor = NoSeq
    /\ traffic \in Traffics
    /\ open = {}
    /\ cache = EmptyCache
    /\ query = [q \in Queries |-> Idle]
    /\ losses = 0
    /\ seen = [q \in Queries |-> Unseen]

-----------------------------------------------------------------------------
(***************************************************************************)
(* The auditor.  AuditLog has its writers, locks and crashes; here one     *)
(* append at a time chains from the last line, is visible in part, then    *)
(* whole, and then anchored, unless the process dies first.                *)
(***************************************************************************)
NextSeq == IF log = << >> THEN 0 ELSE log[Len(log)].seq + 1

AppendPart ==
    /\ wpc = "idle" /\ traffic # << >>
    /\ LET k == Head(traffic)
       IN  \E ref \in IF k.action = "usage" THEN open \cup {NoSeq} ELSE {NoSeq} :
              /\ writing' = <<[seq |-> NextSeq, action |-> k.action, cause |-> k.cause,
                               dur |-> k.dur, model |-> k.model, ref |-> ref,
                               hour |-> k.hour, era |-> losses,
                               end |-> End(log, Len(log)) + Size(k)]>>
              /\ open' = open \ {ref}
    /\ traffic' = Tail(traffic)
    /\ wpc' = "part"
    /\ UNCHANGED <<log, anchor, cache, query, losses, seen>>

Streamed(ev) == ev.action \in {"allow", "warn"} /\ ev.model = NoModel /\ ~ev.dur

AppendLine ==
    /\ wpc = "part"
    /\ log' = log \o writing
    /\ open' = IF Streamed(writing[1]) THEN open \cup {writing[1].seq} ELSE open
    /\ wpc' = "line" /\ writing' = << >>
    /\ UNCHANGED <<anchor, traffic, cache, query, losses, seen>>

AppendSeal ==
    /\ wpc = "line"
    /\ wpc' = "idle"
    /\ anchor' \in {anchor, log[Len(log)].seq}
    /\ UNCHANGED <<log, writing, traffic, open, cache, query, losses, seen>>

\* The tail of the file goes, by hand or with a restored state directory.
LoseTail ==
    /\ wpc = "idle" /\ losses < MaxLosses
    /\ \E n \in 0..(Len(log) - 1) : log' = SubSeq(log, 1, n)
    /\ anchor' \in {anchor, NoSeq}
    /\ losses' = losses + 1
    /\ seen' = [q \in Queries |-> [seen[q] EXCEPT !.lost = TRUE]]
    /\ UNCHANGED <<writing, wpc, traffic, open, cache, query>>

-----------------------------------------------------------------------------
\* A query, one step per access to a file.

Step(q, from, to) == query[q].pc = from /\ query' = [query EXCEPT ![q] = to]

QueryAnchor(q) ==
    /\ Step(q, "idle", [Idle EXCEPT !.pc = "load", !.anchor = anchor])
    /\ seen' = [seen EXCEPT ![q] = [Unseen EXCEPT !.lines = Len(log)]]
    /\ UNCHANGED <<log, writing, wpc, anchor, traffic, open, cache, losses>>

LogLen == End(log, Len(log)) + IF wpc = "part" THEN 1 ELSE 0

\* The cache as it is used: not at all if the log is shorter.
from_cache(c) == IF LogLen < c.offset THEN EmptyCache ELSE c

\* The cache is read and the log measured: no step of others between the two
\* makes a difference that it would not make before or after both.
LoadCache(q) ==
    /\ LET agg == from_cache(cache)
       IN  Step(q, "load", [query[q] EXCEPT
                              !.pc = IF LogLen > agg.offset THEN "read" ELSE "report",
                              !.agg = agg])
    /\ seen' = [seen EXCEPT ![q].checked = from_cache(cache) = EmptyCache]
    /\ UNCHANGED <<log, writing, wpc, anchor, traffic, open, cache, losses>>

\* One turn of the loop.  The reader buffers, which is as good as taking in
\* at once what it has fetched.
ReadLine(q) ==
    /\ \E i \in LinesAt(log, query[q].agg.offset) :
          Step(q, "read", [query[q] EXCEPT !.agg = read_line(@, log, i)])
    /\ seen' = [seen EXCEPT ![q].checked = TRUE]
    /\ UNCHANGED <<log, writing, wpc, anchor, traffic, open, cache, losses>>

\* An unfinished last line is left for the next query.
ReadEnds(q) ==
    /\ LinesAt(log, query[q].agg.offset) = {}
    /\ Step(q, "read", [query[q] EXCEPT !.pc = "save"])
    /\ UNCHANGED <<log, writing, wpc, anchor, traffic, open, cache, losses, seen>>

SaveCache(q) ==
    /\ Step(q, "save", [query[q] EXCEPT !.pc = "report"])
    /\ cache' = query[q].agg
    /\ UNCHANGED <<log, writing, wpc, anchor, traffic, open, losses, seen>>

\* The query has printed its report, or it failed to save and printed none.
Finish(q) ==
    /\ query[q].pc \in {"save", "report"}
    /\ query' = [query EXCEPT ![q] = Idle]
    /\ seen' = [seen EXCEPT ![q] = Unseen]
    /\ UNCHANGED <<log, writing, wpc, anchor, traffic, open, cache, losses>>

Next ==
    \/ AppendPart \/ AppendLine \/ AppendSeal \/ LoseTail
    \/ \E q \in Queries :
          \/ QueryAnchor(q) \/ LoadCache(q) \/ ReadLine(q) \/ ReadEnds(q)
          \/ SaveCache(q) \/ Finish(q)

Spec == Init /\ [][Next]_vars

-----------------------------------------------------------------------------
\* The report of a query.

\* Variant: the anchor is read after the log.
integrity_late(q) ==
    LET g == query[q].agg
    IN  IF g.integrity # "ok" THEN g.integrity
        ELSE IF anchor # NoSeq /\ (IF g.last_seq = NoSeq THEN TRUE ELSE g.last_seq < anchor)
        THEN "truncated" ELSE "ok"

integrity(q) ==
    LET g == query[q].agg
        a == query[q].anchor
    IN  IF g.integrity # "ok" THEN g.integrity
        ELSE IF a # NoSeq /\ (IF g.last_seq = NoSeq THEN TRUE ELSE g.last_seq < a)
        THEN "truncated" ELSE "ok"

InWindow(w) == {k \in RowKey : w.from <= k[1] /\ k[1] < w.to}

\* The rows of a set of keys, merged: a counter becomes the sum of theirs,
\* which is the number of things counted in any of the rows.
merge(rows, keys) ==
    [f \in Fields |-> Cardinality(UNION {{k} \X (1..rows[k][f]) : k \in keys})]

totals(q, w) == merge(query[q].agg.rows, InWindow(w))

\* Traffic without usage is a line of its own; a row of no model and no
\* traffic (an alert, a policy change) is in none.
Carried == {"requests", "bytes_up", "bytes_down"}

by_model(q, w, model) ==
    LET rows == query[q].agg.rows
    IN  merge(rows, {k \in InWindow(w) :
                        k[2] = model /\ (model = NoModel => \E f \in Carried : rows[k][f] > 0)})

\* The alert count of the status line.
alert_count(b) ==
    b["denies"] + b["dlp_alerts"] + b["policy_tamper"] + b["warns"]
       + (IF b["tripwires"] > b["deny_tripwire"]
          THEN b["tripwires"] - b["deny_tripwire"] ELSE 0)

-----------------------------------------------------------------------------
(***************************************************************************)
(* What a log says, read as a whole: where each event belongs and what it  *)
(* contributes there.  A usage event answers the request it names unless   *)
(* as many younger streams as are remembered were outstanding in between.  *)
(***************************************************************************)
Answers(L, i) ==
    {j \in (i + 1)..Len(L) :
        /\ L[j].action = "usage" /\ L[j].ref = L[i].seq
        /\ \A k \in (i + 1)..(j - 1) : L[k].action = "usage" => L[k].ref # L[i].seq}

Outstanding(L, i, k) == Streamed(L[i]) /\ \A j \in Answers(L, i) : j > k

Forgotten(L, i, j) ==
    \E k \in (i + 1)..(j - 1) :
       Cardinality({h \in (i + 1)..k : Outstanding(L, h, k)}) >= PENDING_CAP

Answered(L, i, j) == Streamed(L[i]) /\ j \in Answers(L, i) /\ ~Forgotten(L, i, j)

\* The cell of event i.
Place(L, i) ==
    IF \E j \in 1..Len(L) : Answered(L, i, j)
    THEN <<L[i].hour, L[CHOOSE j \in 1..Len(L) : Answered(L, i, j)].model>>
    ELSE IF \E r \in 1..Len(L) : Answered(L, r, i)
    THEN <<L[CHOOSE r \in 1..Len(L) : Answered(L, r, i)].hour, L[i].model>>
    ELSE <<L[i].hour, IF L[i].action \in {"allow", "warn", "usage"} THEN L[i].model ELSE NoModel>>

Says(L, i, f) ==
    LET ev == L[i]
        request == ev.action \in {"allow", "warn"}
    IN  CASE f = "requests" -> request \/ ev.action = "deny"
          [] f = "allows"   -> ev.action = "allow"
          [] f = "warns"    -> ev.action = "warn"
          [] f = "denies"   -> ev.action = "deny"
          [] f = "deny_tripwire" -> ev.action = "deny" /\ ev.cause = "tripwire"
          [] f = "deny_dlp"      -> ev.action = "deny" /\ ev.cause = "dlp"
          [] f = "deny_budget"   -> ev.action = "deny" /\ ev.cause = "budget"
          [] f = "deny_policy"   -> ev.action = "deny"
                                      /\ ev.cause \notin {"tripwire", "dlp", "budget"}
          [] f = "tripwires"  -> ev.action \in {"deny", "alert"} /\ ev.cause = "tripwire"
          [] f = "dlp_alerts" -> ev.action = "alert" /\ ev.cause = "dlp"
          [] f = "policy_tamper"  -> ev.action = "tamper"
          [] f = "policy_changes" -> ev.action = "policy"
          [] f = "tokens"     -> (request \/ ev.action = "usage") /\ ev.model # NoModel
          [] f = "no_usage"   -> request /\ Place(L, i)[2] = NoModel
          [] f = "bytes_up"   -> request \/ ev.action = "deny"
          [] f = "bytes_down" -> ev.action = "usage" \/ (request /\ ev.dur)
          [] f = "dur"        -> \/ (request \/ ev.action = "deny") /\ ev.dur
                                 \/ ev.action = "usage"
                                      /\ \E r \in 1..Len(L) : Answered(L, r, i)

Traffic(L, k) ==
    \E i \in 1..Len(L) : Place(L, i) = k /\ \E f \in Carried : Says(L, i, f)

\* The cells of the line of a model.
LineOf(L, w, model) ==
    {k \in InWindow(w) : k[2] = model /\ (model = NoModel => Traffic(L, k))}

LogSays(L, keys) ==
    LET placed == {i \in 1..Len(L) : Place(L, i) \in keys}
    IN  [f \in Fields |-> Cardinality({i \in placed : Says(L, i, f)})]

\* An event that a user should be alerted to.
Alarming(ev) ==
    \/ ev.action \in {"deny", "warn", "tamper"}
    \/ ev.action = "alert" /\ ev.cause \in {"tripwire", "dlp"}

\* The lines that the report of q covers.
Covered(q) == {i \in 1..Len(log) : End(log, i) <= query[q].agg.offset}

\* The report of q agrees with the first lines of the log.
ReportAgrees(q) ==
    LET L == SubSeq(log, 1, Cardinality(Covered(q)))
    IN  \A w \in Windows :
           /\ \A model \in Models \cup {NoModel} :
                 by_model(q, w, model) = LogSays(L, LineOf(L, w, model))
           /\ alert_count(totals(q, w)) =
                 Cardinality({i \in 1..Len(L) :
                                 Place(L, i) \in InWindow(w) /\ Alarming(L[i])})

Reporting == {q \in Queries : query[q].pc = "report"}

\* While the log only grows, no query raises an alarm: not beside an append
\* that is half flushed or not anchored yet, not after an auditor died before
\* it could anchor, not from a cache that another query saved.
HealthyNeverFlagged ==
    losses = 0 => \A q \in Reporting : integrity(q) = "ok"

\* While the log only grows, a report covers every line that was complete
\* when its query began, and its totals, its models and its alert count are
\* those of the log read as a whole, however many queries and caches it took
\* to get there and in whatever order they saved: no request is counted
\* twice, none is lost from or left in the no-usage cell, and the tokens of a
\* stream belong to the hour of its request.
ReportExact ==
    losses = 0 =>
       \A q \in Reporting : /\ Cardinality(Covered(q)) >= seen[q].lines
                            /\ ReportAgrees(q)

\* A query that found the log at the length of its cache has checked nothing;
\* that is as good as a check while every line is older than the first loss.
Checked(q) == seen[q].checked \/ \A i \in 1..Len(log) : log[i].era = 0

\* The log does not reach as far as the anchor that q read.
BehindAnchor(q) ==
    query[q].anchor # NoSeq /\ \A i \in 1..Len(log) : log[i].seq < query[q].anchor

\* A log that has lost lines is not passed off as the old one.  A query that
\* raises no alarm and took in a line, or began from scratch, agrees with the
\* log that is there, wherever its cache came from; and a log that falls short
\* of its anchor is never reported without an alarm, whether the query
\* rebuilds, resumes or has nothing to read.  (Unless lines were lost while
\* it ran, or what was appended since made up the length exactly.)
UnflaggedIsTrue ==
    \A q \in Reporting : integrity(q) = "ok" /\ ~seen[q].lost =>
       /\ seen[q].checked => ReportAgrees(q)
       /\ ~(Checked(q) /\ BehindAnchor(q))

\* A report that raises no alarm tells the truth, of a log that only grew and
\* of one that lost lines (catch_up, ingest_line, report).
ReportTrue == ReportExact /\ UnflaggedIsTrue
=============================================================================

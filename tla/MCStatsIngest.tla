--------------------------- MODULE MCStatsIngest ---------------------------
(***************************************************************************)
(* An instance of StatsIngest: two queries, two hours, up to three         *)
(* events, one loss of the tail, and room for one outstanding stream.      *)
(***************************************************************************)
EXTENDS StatsIngest, TLC

CONSTANTS q1, q2, m

Kind(action, cause, dur, model, hour) ==
    [action |-> action, cause |-> cause, dur |-> dur, model |-> model, hour |-> hour]

Stream(action, hour)      == Kind(action, "none", FALSE, NoModel, hour)
Buffered(hour)            == Kind("allow", "none", TRUE, m, hour)
Usage(model, hour)        == Kind("usage", "none", TRUE, model, hour)
Deny(cause, hour)         == Kind("deny", cause, TRUE, NoModel, hour)
Note(action, cause, hour) == Kind(action, cause, FALSE, NoModel, hour)

\* Two streams, one of which gets its usage, in the next hour; one without;
\* every counter of denies and alerts.
MCTraffics ==
    {<<Stream("allow", 1), Stream("warn", 1), Usage(m, 2)>>,
     <<Stream("warn", 1), Usage(NoModel, 2)>>,
     <<Deny("none", 1), Note("alert", "tripwire", 2)>>,
     <<Deny("dlp", 1), Note("alert", "dlp", 1)>>,
     <<Deny("tripwire", 2), Kind("keepalive", "none", TRUE, m, 2)>>,
     <<Note("policy", "none", 1), Note("tamper", "none", 2)>>,
     <<Deny("budget", 1), Buffered(2)>>}

MCWindows == {[from |-> 1, to |-> 3], [from |-> 2, to |-> 3]}

Symmetric == Permutations(Queries)
=============================================================================

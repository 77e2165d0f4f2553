----------------------------- MODULE MCAuditLog -----------------------------
(***************************************************************************)
(* Instances of AuditLog for TLC.                                          *)
(***************************************************************************)
EXTENDS AuditLog, TLC

MCEntries ==
    {[body |-> "allow", esc |-> FALSE, an |-> "some", fp |-> "some"],
     [body |-> "deny",  esc |-> FALSE, an |-> None,   fp |-> None]}

OldEvent(seq, prev, version) ==
    LET ev == [seq |-> seq, body |-> "allow", esc |-> FALSE, pid |-> NoPid, an |-> None,
               fp |-> None, prev_hash |-> prev, hash |-> ZERO_HASH]
    IN  [ev EXCEPT !.hash = chain_hash(prev, ev, version)]

\* No log, and one whose first line an early release wrote.
MCLogs == {<< >>, << Line(OldEvent(0, ZERO_HASH, Legacy)) >>}

Symmetry == Permutations(Procs)
=============================================================================

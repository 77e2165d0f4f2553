------------------------------ MODULE EventLog ------------------------------
(***************************************************************************)
(* What an audit log promises its callers: appends are atomic.  A caller   *)
(* asks, its record is added behind all others at one moment while it      *)
(* waits, and what it was told is recorded stays at its place for good.    *)
(* A caller that dies or is refused may or may not have been recorded.     *)
(*                                                                         *)
(* Once the file was damaged from outside nothing is promised.             *)
(***************************************************************************)
EXTENDS Naturals, Sequences

CONSTANTS Callers, Records

VARIABLES
    records,   \* what has been recorded, in order
    asking,    \* asking[p]: {}, or what p asked for and where it is (0: not yet)
    acked,     \* the places whose callers were told
    damaged

vars == <<records, asking, acked, damaged>>

Init ==
    /\ records \in Seq(Records)
    /\ asking = [p \in Callers |-> {}]
    /\ acked = DOMAIN records
    /\ damaged = FALSE

Ask(p, r) ==
    /\ asking[p] = {}
    /\ asking' = [asking EXCEPT ![p] = {[record |-> r, at |-> 0]}]
    /\ UNCHANGED <<records, acked, damaged>>

Record(p) ==
    /\ \E a \in asking[p] :
          /\ a.at = 0
          /\ records' = Append(records, a.record)
          /\ asking' = [asking EXCEPT ![p] = {[record |-> a.record, at |-> Len(records) + 1]}]
    /\ UNCHANGED <<acked, damaged>>

Return(p) ==
    /\ \E a \in asking[p] : a.at # 0 /\ acked' = acked \cup {a.at}
    /\ asking' = [asking EXCEPT ![p] = {}]
    /\ UNCHANGED <<records, damaged>>

GiveUp(p) ==
    /\ asking' = [asking EXCEPT ![p] = {}]
    /\ UNCHANGED <<records, acked, damaged>>

Damage == damaged'

Next ==
    \/ \E p \in Callers : (\E r \in Records : Ask(p, r)) \/ Record(p) \/ Return(p) \/ GiveUp(p)
    \/ Damage

Spec == Init /\ [][Next]_vars
=============================================================================

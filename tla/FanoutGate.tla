----------------------------- MODULE FanoutGate -----------------------------
(***************************************************************************)
(* The fan-out gate of src/src/cache.rs: of the requests in flight that    *)
(* share a cacheable prefix, one leads and is forwarded at once; the       *)
(* others wait for its first response byte, or a timeout.                  *)
(*                                                                         *)
(* One key: keys share nothing but the mutex of the map.  The map entry    *)
(* lives as long as it has participants, and holds the flag and the Notify *)
(* that every guard of the key shares.  A step is one critical section, or *)
(* one operation on the flag or the Notify.                                *)
(***************************************************************************)
EXTENDS Integers, FiniteSets

CONSTANT Requests

VARIABLES
    refs,        \* slot.refs; no entry in the map when it is 0
    has_leader,  \* slot.has_leader
    ready,       \* slot.ready
    pc,          \* pc[r]
    leader,      \* guard.leader
    woken        \* r's Notified future has been notified

gate_vars == <<refs, has_leader, ready, pc, leader, woken>>

GateInit ==
    /\ refs = 0
    /\ has_leader = FALSE
    /\ ready = FALSE
    /\ pc = [r \in Requests |-> "out"]
    /\ leader = [r \in Requests |-> FALSE]
    /\ woken = [r \in Requests |-> FALSE]

Goto(r, label) == pc' = [pc EXCEPT ![r] = label]

\* FanoutGate::enter, under the mutex.
enter(r) ==
    /\ pc[r] = "out"
    /\ refs' = refs + 1
    /\ LET lead == ~has_leader /\ ~ready IN
       /\ leader' = [leader EXCEPT ![r] = lead]
       /\ has_leader' = (has_leader \/ lead)
       /\ Goto(r, IF lead THEN "leading" ELSE "sibling")
    /\ woken' = [woken EXCEPT ![r] = FALSE]
    /\ UNCHANGED ready

-----------------------------------------------------------------------------
(***************************************************************************)
(* A sibling: wait_for_leader.                                             *)
(***************************************************************************)
WaitTest(r) ==
    /\ pc[r] = "sibling"
    /\ Goto(r, IF ready THEN "forward" ELSE "arming")
    /\ UNCHANGED <<refs, has_leader, ready, leader, woken>>

\* A Notified future receives notify_waiters from its creation on.
WaitArm(r) ==
    /\ pc[r] = "arming"
    /\ Goto(r, "armed")
    /\ UNCHANGED <<refs, has_leader, ready, leader, woken>>

\* Variant: the flag is not looked at again.
WaitBlindly(r) ==
    /\ pc[r] = "armed"
    /\ Goto(r, "waiting")
    /\ UNCHANGED <<refs, has_leader, ready, leader, woken>>

WaitRetest(r) ==
    /\ pc[r] = "armed"
    /\ Goto(r, IF ready THEN "forward" ELSE "waiting")
    /\ UNCHANGED <<refs, has_leader, ready, leader, woken>>

WaitEnds(r) ==
    /\ pc[r] = "waiting"
    /\ woken[r]
    /\ Goto(r, "forward")
    /\ UNCHANGED <<refs, has_leader, ready, leader, woken>>

\* Variant: the wait has no timeout.
WaitUntimed(r) == WaitEnds(r)

WaitTimesOut(r) ==
    /\ pc[r] = "waiting"
    /\ Goto(r, "forward")
    /\ UNCHANGED <<refs, has_leader, ready, leader, woken>>

-----------------------------------------------------------------------------
(***************************************************************************)
(* The leader: leader_ready.                                               *)
(***************************************************************************)
notify_waiters == woken' = [r \in Requests |-> woken[r] \/ pc[r] \in {"armed", "waiting"}]

ReadyStore(r) ==
    /\ pc[r] = "leading"
    /\ ready' = TRUE
    /\ Goto(r, "stored")
    /\ UNCHANGED <<refs, has_leader, leader, woken>>

ReadyUnlead(r) ==
    /\ pc[r] = "stored"
    /\ has_leader' = FALSE
    /\ Goto(r, "unled")
    /\ UNCHANGED <<refs, ready, leader, woken>>

ReadyNotify(r) ==
    /\ pc[r] = "unled"
    /\ notify_waiters
    /\ Goto(r, "forward")
    /\ UNCHANGED <<refs, has_leader, ready, leader>>

-----------------------------------------------------------------------------
(***************************************************************************)
(* The end of a request: it is done, its send failed, or it was cancelled  *)
(* while it waited or sent; then its guard is dropped.                     *)
(***************************************************************************)
Ends(r) ==
    /\ pc[r] \in {"forward", "leading", "waiting"}
    /\ Goto(r, "dropping")
    /\ UNCHANGED <<refs, has_leader, ready, leader, woken>>

DropNotify(r) ==
    /\ pc[r] = "dropping"
    /\ IF leader[r] /\ ~ready THEN notify_waiters ELSE UNCHANGED woken
    /\ Goto(r, "leaving")
    /\ UNCHANGED <<refs, has_leader, ready, leader>>

\* Variant: every guard gives up the lead.
DropLeaveAll(r) ==
    /\ pc[r] = "leaving"
    /\ refs' = refs - 1
    /\ has_leader' = FALSE
    /\ ready' = (ready /\ refs' # 0)
    /\ leader' = [leader EXCEPT ![r] = FALSE]
    /\ Goto(r, "out")
    /\ UNCHANGED woken

\* The critical section of drop; the last one out removes the entry.
DropLeave(r) ==
    /\ pc[r] = "leaving"
    /\ refs' = refs - 1
    /\ has_leader' = (has_leader /\ ~leader[r] /\ refs' # 0)
    /\ ready' = (ready /\ refs' # 0)
    /\ leader' = [leader EXCEPT ![r] = FALSE]
    /\ Goto(r, "out")
    /\ UNCHANGED woken

Waits(r) == WaitTest(r) \/ WaitArm(r) \/ WaitRetest(r) \/ WaitEnds(r) \/ WaitTimesOut(r)

GateNext ==
    \E r \in Requests :
       \/ enter(r)
       \/ Waits(r)
       \/ ReadyStore(r) \/ ReadyUnlead(r) \/ ReadyNotify(r)
       \/ Ends(r) \/ DropNotify(r) \/ DropLeave(r)

GateSpec == GateInit /\ [][GateNext]_gate_vars

\* Tokio polls a task that is ready, and its timers fire.  A leader's
\* upstream may be silent forever, so a leader need not get anywhere.
FairGateSpec == GateSpec /\ \A r \in Requests : WF_gate_vars(Waits(r))

-----------------------------------------------------------------------------
(***************************************************************************)
(* Properties.                                                             *)
(***************************************************************************)
ASSUME RequestsFinite == IsFiniteSet(Requests)

Inside == {r \in Requests : pc[r] # "out"}

\* The type of every variable.
GateTypeOK ==
    /\ refs \in Nat
    /\ has_leader \in BOOLEAN /\ ready \in BOOLEAN
    /\ pc \in [Requests -> {"out", "sibling", "arming", "armed", "waiting", "leading",
                            "stored", "unled", "forward", "dropping", "leaving"}]
    /\ leader \in [Requests -> BOOLEAN]
    /\ woken \in [Requests -> BOOLEAN]

\* "The slot is dropped at zero": the entry lives exactly as long as its
\* participants, and an entry that is gone leaves no flag behind for the next
\* requests, whose cache may be cold again.
SlotLives ==
    /\ refs = Cardinality(Inside)
    /\ Inside = {} => ~ready /\ ~has_leader

\* "N cache writes into 1 write": at any moment at most one request leads the
\* write of a prefix, through failed leaders, late drops and re-entries.
OneLeader ==
    \A q, r \in Requests : pc[q] = "leading" /\ pc[r] = "leading" => q = r

\* No wake-up is lost to the leader's success: a sibling that waits on a
\* prefix that is ready has been woken, or the leader is about to wake it
\* ("close the notify-before-wait race").
NoLostWakeup ==
    \A r \in Requests : (pc[r] = "waiting" /\ ready /\ ~woken[r]) =>
       \E q \in Requests : pc[q] \in {"stored", "unled"}

\* "A stalled leader must never wedge its siblings".
SiblingsProceed ==
    \A r \in Requests : (pc[r] = "sibling") ~> (pc[r] \in {"forward", "dropping"})
=============================================================================

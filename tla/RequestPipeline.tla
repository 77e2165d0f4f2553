-------------------------- MODULE RequestPipeline --------------------------
(***************************************************************************)
(* The request pipeline of src/src/proxy.rs: what one proxy process does   *)
(* with the requests of its agent, several at a time, from the hot reload  *)
(* of the policy to the answer, the meter and the audit event; and the     *)
(* keep-alive watcher that sends requests of its own.                      *)
(*                                                                         *)
(* A step is what runs between two awaits that other tasks can observe.    *)
(* A slot of Slots serves one request after the other.  Spend is counted   *)
(* in units: a billed request costs one.  SpendMeter, SpendTripwire,       *)
(* PolicyIntegrity and AuditLog have the parts this module takes whole.    *)
(***************************************************************************)
EXTENDS SecretSwap, FiniteSets

CONSTANTS
    Slots,      \* requests in flight at the same time
    Kinds,      \* the requests agents send
    Policies,   \* the policies there are
    Edits,      \* what may be written to policy.toml: some of them, Rejected
    Pro,        \* the license tier is Pro or above
    Budget,     \* the monthly limit, in units
    SoftAt,     \* spend at which soft-landing begins
    PrewarmMax, \* keep_alive_max
    MaxSpent,   \* bound on the spend metered
    Faults      \* which of FaultKinds may happen

FaultKinds == {"upstream", "client", "audit"}

(***************************************************************************)
(* A kind is [dest, tls, provider, cost, ctx, model, oversize].  A policy  *)
(* is one of EgressPolicy with dlp, trip_mode, soft (a map of models),     *)
(* repair and keep_alive.                                                  *)
(***************************************************************************)
VARIABLES
    file,      \* the policy on disk, or Rejected
    changed,   \* the files' mtimes are not the ones engine.reload remembers
    policy,    \* engine.policy
    current,   \* ghost, current[s]: the policies that held while s was undecided,
               \* then the one of them that it was decided by
    spent,     \* engine.meter, merged with the other sessions
    tripped,   \* engine.watch: a spend trip stands
    req,       \* req[s]: the request in slot s
    events,    \* audit events of the requests in the slots and of pre-warms
    wire,      \* what was sent upstream for them
    keepalive  \* engine.keepalive and its watchers, by (host, model)

rules == <<file, changed, policy, current>>
vars  == <<rules, spent, tripped, req, events, wire, keepalive>>

\* A policy.toml that does not parse, or without its signature.
Rejected == [trusted |-> FALSE]

Quiet == [pc |-> "idle"]
Free  == [pc |-> "free", held |-> FALSE]

Init ==
    /\ file \in Policies
    /\ changed = FALSE
    /\ policy = file
    /\ current = [s \in Slots |-> {}]
    /\ spent = 0
    /\ tripped = FALSE
    /\ req = [s \in Slots |-> Free]
    /\ events = {}
    /\ wire = {}
    /\ keepalive = <<>>

\* audit(): each event is appended, or its append fails and it is lost.
Audit(evs) ==
    \E kept \in SUBSET evs :
       /\ kept = evs \/ "audit" \in Faults
       /\ events' = events \cup kept

Event(s, action) == [slot |-> s, action |-> action]

\* Slot s moves on with the fields of `update` set.
Step(s, update) ==
    req' = [req EXCEPT ![s] = [f \in DOMAIN @ \cup DOMAIN update |->
                                  IF f \in DOMAIN update THEN update[f] ELSE @[f]]]

At(s, pc) == req[s].pc = pc

-----------------------------------------------------------------------------
(***************************************************************************)
(* Around the pipeline.                                                    *)
(***************************************************************************)

InFlight(s) == req[s].pc \notin {"free", "done"}

\* The version on disk was looked at and is not going to be loaded: it was
\* rejected, or the request that was loading it is gone.
PassedOver ==
    /\ ~changed /\ policy # file
    /\ ~\E s \in Slots : At(s, "reload") /\ req[s].read \in Policies

\* The policies a request may go by at this moment: the one on disk, and the
\* last good one when the version on disk was passed over.
Holding == ({file} \cap Policies) \cup When(PassedOver, policy)

Undecided(s) == req[s].pc \in {"refresh", "reload", "decide"}

\* A step that may change what holds adds to the ghost of undecided requests.
Remember ==
    current' = [s \in Slots |->
        CASE Undecided(s)' /\ Undecided(s)   -> current[s] \cup Holding'
          [] Undecided(s)' /\ ~Undecided(s)  -> Holding'
          [] ~Undecided(s)' /\ Undecided(s)  -> {}
          [] ~Undecided(s)' /\ ~Undecided(s) -> current[s]]

\* `decoyrail policy ...`, or an editor: any text is written, also the same.
EditPolicy ==
    /\ file' \in Edits
    /\ changed' = TRUE
    /\ UNCHANGED <<policy, spent, tripped, req, events, wire, keepalive>>
    /\ Remember

\* `decoyrail trip clear`, once a refresh has seen it.
ClearTrip ==
    /\ tripped
    /\ tripped' = FALSE
    /\ UNCHANGED <<rules, spent, req, events, wire, keepalive>>

Arrive(s) ==
    /\ ~InFlight(s) /\ ~req[s].held
    /\ \E kind \in Kinds :
          req' = [req EXCEPT ![s] = [pc |-> "refresh", kind |-> kind, reply |-> "none",
                                     ctx |-> kind.ctx, model |-> kind.model, marks |-> {},
                                     stream |-> FALSE, held |-> FALSE, recorded |-> FALSE,
                                     metered |-> 0]]
    /\ events' = {e \in events : e.slot # s}
    /\ wire' = {w \in wire : w.slot # s}
    /\ UNCHANGED <<file, changed, policy, spent, tripped, keepalive>>
    /\ Remember

-----------------------------------------------------------------------------
(***************************************************************************)
(* pipeline_inner, up to the verdict.                                      *)
(***************************************************************************)
\* engine.reload is locked.
Reloading == \E s \in Slots : At(s, "reload")

\* Variant: the files are not looked at.
NoRefresh(s) ==
    /\ At(s, "refresh")
    /\ ~Reloading
    /\ Step(s, [pc |-> "decide"])
    /\ UNCHANGED <<file, changed, policy, spent, tripped, events, wire, keepalive>>
    /\ Remember

\* Engine::refresh under its lock: the mtimes are remembered, then a changed
\* file is read, and what was read is used after an await.
Refresh(s) ==
    /\ At(s, "refresh")
    /\ ~Reloading
    /\ changed' = FALSE
    /\ IF changed THEN Step(s, [pc |-> "reload", read |-> file])
       ELSE Step(s, [pc |-> "decide"])
    /\ UNCHANGED <<file, policy, spent, tripped, events, wire, keepalive>>
    /\ Remember

\* The new policy is in force; a rejected one is reported and the old stays.
Reload(s) ==
    /\ At(s, "reload")
    /\ \/ /\ req[s].read \in Policies
          /\ policy' = req[s].read
          /\ UNCHANGED events
       \/ /\ req[s].read = Rejected
          /\ Audit({Event(s, "tamper")})
          /\ UNCHANGED policy
    /\ Step(s, [pc |-> "decide"])
    /\ UNCHANGED <<file, changed, spent, tripped, wire, keepalive>>
    /\ Remember

\* 1. One lock, one consistent policy for the request.
Decide(s) ==
    /\ At(s, "decide")
    /\ Step(s, [pc |-> "budget", dec |-> evaluate(policy, req[s].kind.dest), cfg |-> policy])
    /\ current' = [current EXCEPT ![s] = @ \cap {policy}]
    /\ UNCHANGED <<file, changed, policy, spent, tripped, events, wire, keepalive>>

\* 2. The kill switch and the soft-landing band.
CheckBudget(s) ==
    /\ At(s, "budget")
    /\ Step(s, [pc |-> "body", over_budget |-> spent >= Budget, band |-> spent >= SoftAt])
    /\ UNCHANGED <<rules, spent, tripped, events, wire, keepalive>>

\* 3. The body: over the inspection cap, cut off, or read.
ReadBody(s) ==
    /\ At(s, "body")
    /\ \/ /\ req[s].kind.oversize
          /\ Step(s, [pc |-> "done", reply |-> "413"])
          /\ Audit({Event(s, "deny")})
       \/ /\ "client" \in Faults
          /\ Step(s, [pc |-> "done", reply |-> "502"])
          /\ UNCHANGED events
       \/ /\ ~req[s].kind.oversize
          /\ Step(s, [pc |-> "watch"])
          /\ UNCHANGED events
    /\ UNCHANGED <<rules, spent, tripped, wire, keepalive>>

\* 3.35. The spend tripwire: a standing trip, or one that this request
\* raises (SpendTripwire has the detectors), if it is LLM-bound.
WatchSpend(s) ==
    /\ At(s, "watch")
    /\ \E onset \in IF req[s].kind.provider /\ ~tripped /\ req[s].cfg.trip_mode # "off"
                    THEN BOOLEAN ELSE {FALSE} :
          LET trip  == req[s].kind.provider /\ (tripped \/ onset)
              block == trip /\ req[s].cfg.trip_mode = "block"
          IN  /\ tripped' = (tripped \/ onset)
              /\ Step(s, [pc |-> "rewrite", spend_block |-> block])
              /\ IF onset /\ ~block THEN Audit({Event(s, "alert")}) ELSE UNCHANGED events
    /\ UNCHANGED <<rules, spent, wire, keepalive>>

\* softland::rewrite_model.
rewrite_model(model, map) == IF model \in DOMAIN map THEN map[model] ELSE model

\* Variant: only the route map announces itself.
MarksRoute(model, landed, routed, repaired) ==
    When(routed # landed, "route") \cup When(repaired, "cache")

\* The events and response headers of the rewrites.
Marks(model, landed, routed, repaired) ==
    When(landed # model, "downgrade") \cup When(routed # landed, "route")
      \cup When(repaired, "cache")

\* 3.4, 3.45 and 3.5.  Soft-landing, then the route map, then the cache
\* doctor's repair: each only for traffic that is so far let through, each
\* leaves an event and a response header.
Rewrite(s) ==
    /\ At(s, "rewrite")
    /\ LET r      == req[s]
           through == r.kind.provider /\ ~r.over_budget /\ ~r.spend_block
           landed == IF /\ through /\ r.dec.action \in {"allow", "warn", "route"}
                        /\ r.band /\ Pro
                     THEN rewrite_model(r.model, r.cfg.soft) ELSE r.model
           routed == IF through /\ r.dec.action = "route" /\ Pro
                     THEN rewrite_model(landed, r.dec.route) ELSE landed
           cached == through /\ r.dec.action \in {"allow", "route"}
       IN  \E repaired \in IF cached /\ Pro /\ r.cfg.repair THEN BOOLEAN ELSE {FALSE} :
              LET marks == Marks(r.model, landed, routed, repaired) IN
                  /\ Audit({Event(s, m) : m \in marks})
                  /\ Step(s, [pc |-> "swap", model |-> routed, marks |-> marks,
                              keepalive |-> cached /\ Pro /\ r.cfg.keep_alive /\ r.kind.tls])
    /\ UNCHANGED <<rules, spent, tripped, wire, keepalive>>

\* 4 and 4.5.  The swap on both vaults, DLP on what it leaves.
SwapAndScan(s) ==
    /\ At(s, "swap")
    /\ LET r   == req[s]
           out == apply_both(r.ctx, Device, Session, r.dec, r.kind.tls)
       IN  \E scan \in Scans(out.ctx) :
              LET dlp == detect_apply(out.ctx, r.cfg.dlp, scan) IN
              Step(s, [pc |-> "verdict", ctx |-> dlp.ctx, tripwires |-> out.tripwires,
                       modes |-> dlp.modes, truncated |-> dlp.truncated, before |-> r.ctx])
    /\ UNCHANGED <<rules, spent, tripped, events, wire, keepalive>>

\* Variant: the budget outranks nothing but an allow.
final_action_warn_first(r) ==
    IF r.tripwires # {} \/ has_blocking(r) THEN "deny"
    ELSE IF r.dec.action = "warn" THEN "warn"
    ELSE IF r.over_budget \/ r.spend_block THEN "deny"
    ELSE IF r.dec.action = "route" THEN "allow"
    ELSE r.dec.action

\* 5. A tripwire, a DLP block, the budget or a spend trip override policy.
final_action(r) ==
    IF r.tripwires # {} \/ has_blocking(r) \/ r.over_budget \/ r.spend_block THEN "deny"
    ELSE IF r.dec.action = "route" THEN "allow"
    ELSE r.dec.action

Deny(s) ==
    /\ At(s, "verdict")
    /\ final_action(req[s]) = "deny"
    /\ Audit({Event(s, "deny")})
    /\ Step(s, [pc |-> "done", reply |-> "403"])
    /\ UNCHANGED <<rules, spent, tripped, wire, keepalive>>

-----------------------------------------------------------------------------
(***************************************************************************)
(* pipeline_inner, from the forward on.                                    *)
(***************************************************************************)

\* 6. DLP hits that do not block and a bounded scan are recorded, and the
\* request leaves.
Forward(s) ==
    /\ At(s, "verdict")
    /\ final_action(req[s]) # "deny"
    /\ Audit(When(has_advisory(req[s]) \/ req[s].truncated, Event(s, "alert")))
    /\ wire' = wire \cup {[slot |-> s, ctx |-> req[s].ctx, tls |-> req[s].kind.tls,
                           model |-> req[s].model]}
    /\ Step(s, [pc |-> "sent"])
    /\ UNCHANGED <<rules, spent, tripped, keepalive>>

\* The upstream answers with a body to buffer or with a stream; what was
\* buffered, all of it or the start of a long one, may echo a secret.
Respond(s) ==
    /\ At(s, "sent")
    /\ \E stream \in BOOLEAN, echo \in BOOLEAN :
          /\ Audit(When(echo, Event(s, "alert")))
          /\ Step(s, [pc |-> "meter", stream |-> stream, held |-> stream])
    /\ UNCHANGED <<rules, spent, tripped, wire, keepalive>>

\* send() or a chunk fails: `?` leaves the pipeline, which answers 502.
UpstreamFails(s) ==
    /\ "upstream" \in Faults
    /\ At(s, "sent")
    /\ Step(s, [pc |-> "done", reply |-> "502"])
    /\ UNCHANGED <<rules, spent, tripped, events, wire, keepalive>>

\* Usage-billed tokens or the byte estimate; a subscription costs nothing.
Cost(kind) == kind.cost

\* A buffered response is billed here, a streamed one when it has drained.
Meter(s) ==
    /\ At(s, "meter")
    /\ spent + Cost(req[s].kind) <= MaxSpent
    /\ IF req[s].stream
       THEN Step(s, [pc |-> "record"]) /\ UNCHANGED spent
       ELSE /\ spent' = spent + Cost(req[s].kind)
            /\ Step(s, [pc |-> "record", metered |-> req[s].metered + 1])
    /\ UNCHANGED <<rules, tripped, events, wire, keepalive>>

\* Variant: the task is spawned whenever it is called.
record_unguarded(r) == "drained"

\* MeteredStream::record spawns the task that settles the stream, once.
record(r) == IF r.recorded THEN r.pc ELSE "drained"

\* Variant: the answer of audit() is not looked at.
Delivered(s, recorded) ==
    Step(s, [pc |-> IF req[s].stream THEN "stream" ELSE "done", reply |-> "ok",
             ref |-> TRUE])

\* The response is dropped, and with it a streamed body already built.
Abandon(s, reply) ==
    Step(s, [pc |-> IF req[s].held THEN record(req[s]) ELSE "done",
             recorded |-> req[s].held, held |-> FALSE, reply |-> reply, ref |-> FALSE])

\* Fail closed: without its event the response is withheld.
Delivery(s, recorded) ==
    IF recorded
    THEN Step(s, [pc |-> IF req[s].held THEN "stream" ELSE "done", reply |-> "ok", ref |-> TRUE])
    ELSE Abandon(s, "503")

\* The key of KeepAlive's entries.
KeyOf(s) == <<req[s].kind.dest.host, req[s].model>>

Watcher(k) == IF k \in DOMAIN keepalive THEN keepalive[k].watcher ELSE Quiet

\* KeepAlive::arm, for a recorded request that has a template: its key's entry
\* is set, the first time with a watcher.
Arm(s, recorded) ==
    IF recorded /\ req[s].keepalive
    THEN keepalive' = [k \in DOMAIN keepalive \cup {KeyOf(s)} |->
             IF k = KeyOf(s)
             THEN [template |-> [kind |-> req[s].kind, ctx |-> req[s].before],
                   fired |-> 0, watcher |-> Watcher(k)]
             ELSE keepalive[k]]
    ELSE UNCHANGED keepalive

Record(s) ==
    /\ At(s, "record")
    /\ \E recorded \in {TRUE} \cup When("audit" \in Faults, FALSE) :
          /\ events' = events \cup When(recorded, Event(s, final_action(req[s])))
          /\ Delivery(s, recorded)
          /\ Arm(s, recorded)
    /\ UNCHANGED <<rules, spent, tripped, wire>>

\* The client hangs up while its request is being served: hyper drops the
\* pipeline at an await, and with it the policy that it was loading.
Hangup(s) ==
    /\ "client" \in Faults
    /\ InFlight(s) /\ req[s].pc \notin {"stream", "drained", "usage"}
    /\ Abandon(s, "gone")
    /\ UNCHANGED <<file, changed, policy, spent, tripped, events, wire, keepalive>>
    /\ Remember

\* MeteredStream::poll_next reaches the end of the stream ...
StreamEnds(s) ==
    /\ At(s, "stream")
    /\ Step(s, [pc |-> record(req[s]), recorded |-> TRUE])
    /\ UNCHANGED <<rules, spent, tripped, events, wire, keepalive>>

\* ... and drop, early or some time after the end, calls record() again.
DropStream(s) ==
    /\ req[s].held /\ req[s].pc \in {"stream", "drained", "usage", "done"}
    /\ Step(s, [pc |-> record(req[s]), recorded |-> TRUE, held |-> FALSE])
    /\ UNCHANGED <<rules, spent, tripped, events, wire, keepalive>>

\* Variant: a stream without an allow event is left alone.
SettleDelivered(s) ==
    /\ At(s, "drained") /\ req[s].ref
    /\ spent + Cost(req[s].kind) <= MaxSpent
    /\ spent' = spent + Cost(req[s].kind)
    /\ Step(s, [pc |-> "usage", metered |-> req[s].metered + 1])
    /\ UNCHANGED <<rules, tripped, events, wire, keepalive>>

\* The task record() spawns bills the stream ...
Settle(s) ==
    /\ At(s, "drained")
    /\ spent + Cost(req[s].kind) <= MaxSpent
    /\ spent' = spent + Cost(req[s].kind)
    /\ Step(s, [pc |-> "usage", metered |-> req[s].metered + 1])
    /\ UNCHANGED <<rules, tripped, events, wire, keepalive>>

\* ... and writes its usage event, naming the allow event if there is one.
UsageEvent(s) ==
    /\ At(s, "usage")
    /\ Audit({[slot |-> s, action |-> "usage", ref |-> req[s].ref]})
    /\ Step(s, [pc |-> "done"])
    /\ UNCHANGED <<rules, spent, tripped, wire, keepalive>>

-----------------------------------------------------------------------------
(***************************************************************************)
(* The keep-alive watcher: KeepAlive::due and keepalive_fire.              *)
(***************************************************************************)
\* Variant: a fire is not counted.
DueUncounted(k) ==
    /\ keepalive[k].watcher = Quiet /\ keepalive[k].fired < PrewarmMax
    /\ keepalive' = [keepalive EXCEPT ![k].watcher = [pc |-> "fire", tmpl |-> keepalive[k].template]]
    /\ UNCHANGED <<rules, spent, tripped, req, events, wire>>

\* The watcher of key k wakes and finds it idle with budget left.
Due(k) ==
    /\ keepalive[k].watcher = Quiet /\ keepalive[k].fired < PrewarmMax
    /\ keepalive' = [keepalive EXCEPT
           ![k].fired   = @ + 1,
           ![k].watcher = [pc |-> "fire", tmpl |-> keepalive[k].template]]
    /\ UNCHANGED <<rules, spent, tripped, req, events, wire>>

\* The policy in memory decides; nothing is refreshed.
PrewarmMay(tmpl) ==
    LET dec == evaluate(policy, tmpl.kind.dest)
        out == apply_both(tmpl.ctx, Device, Session, dec, TRUE)
    IN  /\ dec.action \in {"allow", "route"}
        /\ ~(policy.trip_mode = "block" /\ tripped)
        /\ out.tripwires = {}

Fire(k) ==
    /\ keepalive[k].watcher.pc = "fire"
    /\ LET tmpl == keepalive[k].watcher.tmpl
           out  == apply_both(tmpl.ctx, Device, Session, evaluate(policy, tmpl.kind.dest), TRUE)
       IN  IF PrewarmMay(tmpl)
           THEN /\ wire' = wire \cup {[slot |-> "prewarm", key |-> k, ctx |-> out.ctx, tls |-> TRUE]}
                /\ keepalive' = [keepalive EXCEPT ![k].watcher.pc = "sent"]
           ELSE /\ keepalive' = [keepalive EXCEPT ![k].watcher = Quiet]
                /\ UNCHANGED wire
    /\ UNCHANGED <<rules, spent, tripped, req, events>>

\* The answer is metered and audited; any failure skips both.
FireEnds(k) ==
    /\ keepalive[k].watcher.pc = "sent"
    /\ LET cost == Cost(keepalive[k].watcher.tmpl.kind) IN
       \/ /\ spent + cost <= MaxSpent
          /\ spent' = spent + cost
          /\ Audit({Event("prewarm", "keepalive")})
       \/ /\ "upstream" \in Faults
          /\ UNCHANGED <<spent, events>>
    /\ wire' = {w \in wire : ~(w.slot = "prewarm" /\ w.key = k)}
    /\ keepalive' = [keepalive EXCEPT ![k].watcher = Quiet]
    /\ UNCHANGED <<rules, tripped, req>>

-----------------------------------------------------------------------------
Serve(s) ==
    \/ Refresh(s) \/ Reload(s) \/ Decide(s) \/ CheckBudget(s) \/ ReadBody(s) \/ WatchSpend(s)
    \/ Rewrite(s) \/ SwapAndScan(s) \/ Deny(s) \/ Forward(s)
    \/ Meter(s) \/ Record(s)

\* The task a finished or abandoned stream spawns.
Settles(s) == Settle(s) \/ UsageEvent(s)

Next ==
    \/ \E s \in Slots :
          \/ Arrive(s)
          \/ Serve(s)
          \/ Respond(s)
          \/ UpstreamFails(s)
          \/ Hangup(s)
          \/ StreamEnds(s)
          \/ DropStream(s)
          \/ Settles(s)
    \/ EditPolicy
    \/ ClearTrip
    \/ \E k \in DOMAIN keepalive : Due(k) \/ Fire(k) \/ FireEnds(k)

Spec == Init /\ [][Next]_vars

\* The spawned task runs on.  Nothing else is fair: an upstream may take
\* forever (the client has no total timeout) and agents need not ask.
FairSpec == Spec /\ \A s \in Slots : WF_vars(Settles(s))

-----------------------------------------------------------------------------
ASSUME SlotsAssumption == IsFiniteSet(Slots) /\ "prewarm" \notin Slots

\* A limit is set (0 is no limit) and a request costs at most one unit.
ASSUME LimitAssumption == Budget \in Nat \ {0} /\ PrewarmMax \in Nat

ASSUME KindsAssumption == \A k \in Kinds : IsRequest(k.ctx) /\ k.cost \in {0, 1}

ASSUME PoliciesAssumption == \A p \in Policies :
    /\ Len(p.rules) \in Nat
    /\ {p.default_action, p.escalate_fallback} \subseteq Actions
    /\ \A i \in 1..Len(p.rules) : p.rules[i].action \in Actions

ASSUME EditsAssumption == Rejected \notin Policies /\ Edits \subseteq Policies \cup {Rejected}

\* An agent that asks holds decoys.
ASSUME SecretsAssumption == \A k \in Kinds, x \in Secrets : Real(x) \notin Anywhere(k.ctx)

(***************************************************************************)
(* Properties.                                                             *)
(***************************************************************************)
Sent(s) == {w \in wire : w.slot = s}

\* What left with a request.
Holds(w) == Anywhere(w.ctx)

\* docs/threat-model.md, invariant 3: a tripwire, a DLP block, the exhausted
\* budget and a blocking spend trip override an allow or a warn, and what is
\* denied never leaves; a reply that says so is never given to what left.
\* What DLP guards leaves only encoded and past the decode budget.
OverridesHold ==
    \A s \in Slots : Sent(s) # {} =>
       /\ req[s].reply \notin {"403", "413"}
       /\ ~req[s].over_budget /\ ~req[s].spend_block /\ req[s].tripwires = {}
       /\ req[s].dec.action \in {"allow", "warn", "route"}
       /\ \A w \in Sent(s) : \A x \in Readable(w.ctx) :
             Guarded(x, req[s].cfg.dlp) => x[1] = "encpii" /\ req[s].truncated

\* Hot reload and requests interleave, files are rejected and reloads are lost,
\* and still a real secret leaves only over TLS and under a rule of a policy
\* that held between its arrival and its decision: on disk, or the last good
\* one where the version on disk had been passed over (Engine::refresh, step 1).
ReleaseIsCurrent ==
    \A s \in Slots : \A w \in Sent(s) : \A secret \in Secrets :
       Real(secret) \in Holds(w) =>
          w.tls /\ \E p \in current[s] : releases(evaluate(p, req[s].kind.dest), secret)

\* An agent gets a response only for a request that is in the log with the
\* action it was forwarded under, though appends fail ("traffic must not flow
\* unrecorded").
DeliveredIsRecorded ==
    \A s \in Slots : req[s].pc # "free" /\ req[s].reply = "ok" =>
       \E e \in events : e.slot = s /\ e.action \in {"allow", "warn"}
                           /\ (e.action = "warn" <=> req[s].dec.action = "warn")

\* Every response that was delivered is billed exactly once when its task is
\* done, and so is a stream whose client hung up (MeteredStream::record).  The
\* usage event names an allow or warn event of its own request, unless that
\* event was never written because the response was withheld or abandoned.
BilledOnce ==
    /\ \A s \in Slots : req[s].pc # "free" =>
          /\ req[s].metered <= 1
          /\ req[s].pc = "done" /\ (req[s].reply = "ok" \/ req[s].stream) => req[s].metered = 1
    /\ \A e \in events : e.action = "usage" =>
          IF e.ref THEN \E f \in events : f.slot = e.slot /\ f.action \in {"allow", "warn"}
          ELSE req[e.slot].reply \in {"503", "gone"}

\* The kill switch is checked before a request is billed, and never for a
\* pre-warm (keepalive_fire): the overshoot is at most one request per slot,
\* the pre-warms of one more arming by each slot, and for every (host, model)
\* with an entry those of its last arming and one already on its way.
OvershootBounded ==
    LET keys    == Cardinality(DOMAIN keepalive)
        armings == Cardinality(Slots) + keys
        warmed  == IF PrewarmMax = 0 THEN 0 ELSE armings * PrewarmMax + keys
    IN  spent < Budget + Cardinality(Slots) + warmed

\* The model the marks of a request stand for.
Announced(r) ==
    LET landed == IF "downgrade" \in r.marks THEN r.cfg.soft[r.kind.model] ELSE r.kind.model
    IN  IF "route" \in r.marks THEN r.dec.route[landed] ELSE landed

\* No rewrite is silent, and none is announced that did not happen: what the
\* marks of a response say of the model is what was sent, soft-landing and
\* the route map applied to the same request included.
RewriteAnnounced ==
    \A s \in Slots : \A w \in Sent(s) : w.model = Announced(req[s])

\* A stream that ended, was abandoned by its client or was withheld because
\* the log failed is settled in the end, meter and usage event
\* (MeteredStream::record, called by poll_next and by drop).
StreamsSettle == \A s \in Slots : (req[s].pc = "drained") ~> (req[s].pc = "done")
=============================================================================

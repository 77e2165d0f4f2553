----------------------- MODULE RequestPipelineProofs -----------------------
(***************************************************************************)
(* Proofs about RequestPipeline and the swap and the scan it is built on,  *)
(* for any number of requests in flight, any requests, policies, secrets   *)
(* and limits that satisfy the assumptions of RequestPipeline; and, last,  *)
(* about the FanoutGate its sends pass, for any finite set of requests.    *)
(***************************************************************************)
EXTENDS RequestPipeline, SwapPath, FanoutGate, FiniteSetTheorems, NaturalsInduction,
        WellFoundedInduction, TLAPS

-----------------------------------------------------------------------------
(***************************************************************************)
(* Rules: the first one that matches.                                      *)
(***************************************************************************)
LEMMA LeastIndex ==
    ASSUME NEW T \in SUBSET Nat, T # {}
    PROVE  \E i \in T : \A j \in T : i <= j
<1>1. IsWellFoundedOn(OpToRel(<, Nat), Nat)
  BY NatLessThanWellFounded
<1>2. PICK m \in T : \A y \in T : ~(<<y, m>> \in OpToRel(<, Nat))
  BY <1>1, WFMin
<1>3. \A y \in T : ~(y < m)
  BY <1>2 DEF OpToRel
<1>4. QED
  BY <1>3

\* What the rules decide is one of the four actions a verdict knows.
LEMMA EvaluateAction ==
    ASSUME NEW p \in Policies, NEW dest
    PROVE  evaluate(p, dest).action \in {"allow", "deny", "warn", "route"}
<1> DEFINE matching == {i \in 1..Len(p.rules) : matches(p.rules[i], dest)}
           first    == CHOOSE i \in matching : \A j \in matching : i <= j
<1>1. /\ Len(p.rules) \in Nat
      /\ p.default_action \in Actions /\ p.escalate_fallback \in Actions
      /\ \A i \in 1..Len(p.rules) : p.rules[i].action \in Actions
  BY PoliciesAssumption
<1>2. ASSUME NEW action \in Actions, NEW list, NEW route
      PROVE  resolve(p, action, list, route).action \in {"allow", "deny", "warn", "route"}
  BY <1>1 DEF resolve, Actions
<1>3. CASE matching = {}
  BY <1>1, <1>2, <1>3 DEF evaluate
<1>4. CASE matching # {}
  <2>1. matching \in SUBSET Nat /\ matching \subseteq 1..Len(p.rules)
    BY <1>1
  <2> HIDE DEF matching
  <2>2. \E i \in matching : \A j \in matching : i <= j
    BY <1>4, <2>1, LeastIndex
  <2>3. first \in matching
    BY <2>2
  <2> HIDE DEF first
  <2>4. p.rules[first].action \in Actions
    BY <1>1, <2>1, <2>3
  <2>5. evaluate(p, dest) = resolve(p, p.rules[first].action, p.rules[first].allow_secrets,
                                    p.rules[first].route)
    BY <1>4 DEF evaluate, matching, first
  <2>6. QED
    BY <1>2, <2>4, <2>5
<1>5. QED
  BY <1>3, <1>4

-----------------------------------------------------------------------------
(***************************************************************************)
(* The swap and the scan, on any request.                                  *)
(***************************************************************************)
LEMMA WhenIs ==
    ASSUME NEW c, NEW x
    PROVE  \A y : y \in When(c, x) <=> c /\ y = x
BY DEF When

LEMMA TwoFields ==
    ASSUME NEW ctx, IsRequest(ctx), NEW hs, NEW b
    PROVE  [ctx EXCEPT !.headers = hs, !.body = b] =
              [headers |-> hs, path |-> ctx.path, body |-> b, utf8 |-> ctx.utf8]
<1> DEFINE p == ctx.path
           v == ctx.utf8
<1>1. [ctx EXCEPT !.headers = hs] = [headers |-> hs, path |-> p, body |-> ctx.body, utf8 |-> v]
  BY DEF IsRequest
<1>2. [[headers |-> hs, path |-> p, body |-> ctx.body, utf8 |-> v] EXCEPT !.body = b] =
         [headers |-> hs, path |-> p, body |-> b, utf8 |-> v]
  <2> HIDE DEF p, v
  <2>1. QED
    OBVIOUS
<1>3. QED
  BY <1>1, <1>2

\* What a request holds after one vault was applied to it: what it held, and
\* real secrets of the vault that the decision releases.
LEMMA ApplyOne ==
    ASSUME NEW ctx, IsRequest(ctx), NEW vault, NEW decision, NEW allow_swap,
           NEW out, out = apply(ctx, vault, decision, allow_swap)
    PROVE  /\ IsRequest(out.ctx)
           /\ out.ctx.utf8 = ctx.utf8 /\ out.ctx.path = ctx.path
           /\ \A x \in Anywhere(out.ctx) :
                 x \in Anywhere(ctx) \/ \E s \in vault : x = Real(s) /\ allow_swap /\ releases(decision, s)
<1> DEFINE inHeader(h) == {s \in vault : h \in SwapHeaders(ctx, s, decision, allow_swap)}
           inBody      == {s \in vault : SwapsBody(ctx, s, decision, allow_swap)}
           hs          == [h \in Headers(ctx) |-> SwappedIn(ctx.headers[h], inHeader(h))]
           b           == SwappedIn(ctx.body, inBody)
           o           == [ctx EXCEPT !.headers = hs, !.body = b]
<1>1. out.ctx = o
  BY DEF apply
<1>2. \A S : \A holds : \A x \in SwappedIn(holds, S) : x \in holds \/ \E s \in S : x = Real(s)
  BY DEF SwappedIn
<1>3. \A s \in inBody : s \in vault /\ allow_swap /\ releases(decision, s)
  BY DEF SwapsBody
<1>4. \A h : \A s \in inHeader(h) : s \in vault /\ allow_swap /\ releases(decision, s)
  BY DEF SwapHeaders
<1>5. \A x \in b : x \in ctx.body \/ \E s \in vault : x = Real(s) /\ allow_swap /\ releases(decision, s)
  BY <1>2, <1>3
<1>6. \A h \in Headers(ctx) : \A x \in hs[h] :
         x \in ctx.headers[h] \/ \E s \in vault : x = Real(s) /\ allow_swap /\ releases(decision, s)
  BY <1>2, <1>4
<1>7. DOMAIN hs = Headers(ctx)
  OBVIOUS
<1> HIDE DEF hs, b
<1>8. o = [headers |-> hs, path |-> ctx.path, body |-> b, utf8 |-> ctx.utf8]
  BY TwoFields
<1>9. /\ o.headers = hs /\ o.body = b /\ o.path = ctx.path /\ o.utf8 = ctx.utf8
  BY <1>8
<1>10. IsRequest(o)
  BY <1>8, <1>9 DEF IsRequest
<1> HIDE DEF o
<1>11. ASSUME NEW x \in Anywhere(o)
       PROVE  x \in Anywhere(ctx) \/ \E s \in vault : x = Real(s) /\ allow_swap /\ releases(decision, s)
  <2>1. x \in ctx.path \/ x \in b \/ \E h \in Headers(ctx) : x \in hs[h]
    BY <1>7, <1>9, <1>11 DEF Anywhere, InHeaders, Headers
  <2>2. CASE x \in ctx.path
    BY <2>2 DEF Anywhere
  <2>3. CASE x \in b
    BY <1>5, <2>3 DEF Anywhere
  <2>4. ASSUME NEW h \in Headers(ctx), x \in hs[h]
        PROVE  x \in Anywhere(ctx) \/ \E s \in vault : x = Real(s) /\ allow_swap /\ releases(decision, s)
    BY <1>6, <2>4 DEF Anywhere, InHeaders
  <2>5. QED
    BY <2>1, <2>2, <2>3, <2>4
<1>12. QED
  BY <1>1, <1>9, <1>10, <1>11

LEMMA ApplyBoth ==
    ASSUME NEW ctx, IsRequest(ctx), NEW decision, NEW allow_swap,
           NEW out, out = apply_both(ctx, Device, Session, decision, allow_swap)
    PROVE  /\ IsRequest(out.ctx)
           /\ \A x \in Anywhere(out.ctx) :
                 \/ x \in Anywhere(ctx)
                 \/ \E s \in Secrets : x = Real(s) /\ allow_swap /\ releases(decision, s)
<1> DEFINE first  == apply(ctx, Device, decision, allow_swap)
           second == apply(first.ctx, Session, decision, allow_swap)
<1>1. out.ctx = second.ctx
  BY DEF apply_both
<1>2. /\ IsRequest(first.ctx)
      /\ \A x \in Anywhere(first.ctx) :
            x \in Anywhere(ctx) \/ \E s \in Device : x = Real(s) /\ allow_swap /\ releases(decision, s)
  BY ApplyOne
<1> HIDE DEF first
<1>3. /\ IsRequest(second.ctx)
      /\ \A x \in Anywhere(second.ctx) :
            \/ x \in Anywhere(first.ctx)
            \/ \E s \in Session : x = Real(s) /\ allow_swap /\ releases(decision, s)
  BY <1>2, ApplyOne
<1> HIDE DEF second
<1>4. QED
  BY <1>1, <1>2, <1>3 DEF Secrets

\* The scan puts nothing into a request.
LEMMA DetectAdds ==
    ASSUME NEW ctx, IsRequest(ctx), NEW cfg, NEW scan,
           NEW c, c = detect_apply(ctx, cfg, scan).ctx
    PROVE  /\ Anywhere(c) \subseteq Anywhere(ctx)
           /\ c.utf8 = ctx.utf8 /\ c.path = ctx.path /\ c.headers = ctx.headers
           /\ c.body = {x \in ctx.body : ~(/\ x \in Spots /\ x \in Readable(ctx) /\ x[1] = "pii"
                                           /\ x \in BodyText(ctx) /\ spot_mode(x, cfg) = "mask")}
           /\ IsRequest(c)
<1> DEFINE spots  == {x \in Readable(ctx) : x \in Spots}
           plain  == {x \in spots : x[1] = "pii" /\ x \in BodyText(ctx)}
           masked == {x \in plain : spot_mode(x, cfg) = "mask"}
           b      == ctx.body \ masked
<1>1. c = [ctx EXCEPT !.body = @ \ masked]
  BY DEF detect_apply
<1>2. b = {x \in ctx.body : ~(/\ x \in Spots /\ x \in Readable(ctx) /\ x[1] = "pii"
                              /\ x \in BodyText(ctx) /\ spot_mode(x, cfg) = "mask")}
  OBVIOUS
<1> HIDE DEF masked
<1>3. c = [headers |-> ctx.headers, path |-> ctx.path, body |-> b, utf8 |-> ctx.utf8]
  BY <1>1 DEF IsRequest
<1>4. b \subseteq ctx.body
  OBVIOUS
<1> HIDE DEF b
<1>5. c.headers = ctx.headers /\ c.path = ctx.path /\ c.body = b /\ c.utf8 = ctx.utf8
  BY <1>3
<1>6. IsRequest(c)
  BY <1>3, <1>5 DEF IsRequest
<1>7. Anywhere(c) \subseteq Anywhere(ctx)
  BY <1>4, <1>5 DEF Anywhere, InHeaders, Headers
<1>8. QED
  BY <1>2, <1>5, <1>6, <1>7

\* What a blocking or a masking detector is to keep, and what does not block
\* the request, is gone from the text, or is encoded and past the budget.
LEMMA DetectSound ==
    ASSUME NEW ctx, IsRequest(ctx), NEW cfg, NEW scan \in Scans(ctx),
           NEW c, c = detect_apply(ctx, cfg, scan).ctx,
           "block" \notin detect_apply(ctx, cfg, scan).modes,
           NEW x \in Readable(c), Guarded(x, cfg)
    PROVE  x[1] = "encpii" /\ detect_apply(ctx, cfg, scan).truncated
<1> DEFINE spots  == {y \in Readable(ctx) : y \in Spots}
           plain  == {y \in spots : y[1] = "pii" /\ y \in BodyText(ctx)}
           fixed  == {y \in spots :
                         \/ y[1] = "pii" /\ y \in Headings(ctx)
                         \/ y[1] = "pii" /\ Escape \in BodyText(ctx) \ scan.missed
                         \/ y[1] = "encpii" /\ y \notin scan.missed}
           m      == spot_mode(x, cfg)
<1>1. detect_apply(ctx, cfg, scan).modes =
         ({spot_mode(y, cfg) : y \in plain}
            \cup {dlp_mode_fixed(spot_mode(y, cfg)) : y \in fixed}) \ {"off"}
  BY DEF detect_apply
<1>2. x \in plain => m # "block"
  BY <1>1
<1>3. x \in fixed => dlp_mode_fixed(m) # "block"
  BY <1>1
<1>4. /\ c.utf8 = ctx.utf8 /\ c.path = ctx.path /\ c.headers = ctx.headers
      /\ c.body = {y \in ctx.body : ~(/\ y \in Spots /\ y \in Readable(ctx) /\ y[1] = "pii"
                                      /\ y \in BodyText(ctx) /\ spot_mode(y, cfg) = "mask")}
  BY DetectAdds
<1>5. /\ x \in Spots /\ x[1] \in {"pii", "encpii"}
      /\ x[2] \in AllDetectors /\ x[3] \in AllDetectors
  BY DEF Guarded, Spots
<1>6. m \in {"block", "mask"} /\ dlp_mode_fixed(m) = "block"
  BY DEF Guarded, spot_mode, dlp_mode_fixed
<1>7. x \in Headings(ctx) \/ (x \in BodyText(ctx) /\ x \in c.body)
  BY <1>4 DEF Readable, Headings, BodyText, InHeaders, Headers
<1>8. x \in spots
  BY <1>5, <1>7 DEF Readable
<1>9. x \notin fixed
  BY <1>3, <1>6
<1>10. x[1] = "encpii"
  <2>1. SUFFICES ASSUME x[1] = "pii" PROVE FALSE
    BY <1>5
  <2>2. x \notin Headings(ctx)
    BY <1>8, <1>9, <2>1
  <2>3. x \in plain
    BY <1>7, <1>8, <2>1, <2>2
  <2>4. m = "mask"
    BY <1>2, <1>6, <2>3
  <2>5. QED
    BY <1>4, <1>5, <1>7, <1>8, <2>1, <2>2, <2>4
<1>11. x \in scan.missed
  BY <1>8, <1>9, <1>10
<1>12. scan.truncated = TRUE
  <2>1. scan # [truncated |-> FALSE, missed |-> {}]
    BY <1>11
  <2>2. scan \in [truncated : {TRUE}, missed : SUBSET Windows(ctx)]
    BY <2>1 DEF Scans
  <2>3. QED
    BY <2>2
<1>13. \E d \in AllDetectors : cfg[d] # "off"
  BY <1>5 DEF Guarded
<1>14. detect_apply(ctx, cfg, scan).truncated
         = (scan.truncated /\ \E d \in AllDetectors : cfg[d] # "off")
  BY DEF detect_apply
<1>15. QED
  BY <1>10, <1>12, <1>13, <1>14

-----------------------------------------------------------------------------
(***************************************************************************)
(* What holds of a request at each place of the pipeline: of the record r, *)
(* of what was sent for it and of its events in the log.                   *)
(***************************************************************************)
Early   == {"refresh", "reload", "decide", "budget", "body", "watch", "rewrite"}
Held    == Early \cup {"swap", "verdict"}
Ending  == {"stream", "drained", "usage"}
Gone    == {"sent", "meter", "record"} \cup Ending
Places  == {"free", "done"} \cup Held \cup Gone

Base == {"pc", "kind", "reply", "ctx", "model", "marks", "stream", "metered",
         "held", "recorded"}

Judged(r) ==
    /\ {"dec", "cfg"} \subseteq DOMAIN r
    /\ r.cfg \in Policies /\ r.dec = evaluate(r.cfg, r.kind.dest)
Checked(r)   == {"over_budget", "band"} \subseteq DOMAIN r
Watched(r)   == "spend_block" \in DOMAIN r
Rewritten(r) == "keepalive" \in DOMAIN r /\ r.model = Announced(r)
SwapOf(r)    == apply_both(r.kind.ctx, Device, Session, r.dec, r.kind.tls)
Scanned(r) ==
    /\ {"tripwires", "modes", "truncated", "before"} \subseteq DOMAIN r
    /\ r.tripwires = SwapOf(r).tripwires
    /\ \E scan \in Scans(SwapOf(r).ctx) :
          LET dlp == detect_apply(SwapOf(r).ctx, r.cfg.dlp, scan) IN
          r.ctx = dlp.ctx /\ r.modes = dlp.modes /\ r.truncated = dlp.truncated

Passed(r) ==
    Judged(r) /\ Checked(r) /\ Watched(r) /\ Rewritten(r) /\ Scanned(r) /\ final_action(r) # "deny"

Shape(r) ==
    /\ r.pc \in Places /\ "pc" \in DOMAIN r
    /\ r.pc # "free" => Base \subseteq DOMAIN r /\ r.kind \in Kinds /\ r.metered \in Nat
                          /\ r.stream \in BOOLEAN /\ r.held \in BOOLEAN

\* On the way to the verdict.
Progress(r) ==
    /\ r.pc \in Early => r.model = r.kind.model /\ r.marks = {}
    /\ r.pc \in Early \cup {"swap"} => r.ctx = r.kind.ctx
    /\ r.pc \in Held \ {"refresh", "reload", "decide"} => Judged(r)
    /\ r.pc \in {"body", "watch", "rewrite", "swap", "verdict"} => Checked(r)
    /\ r.pc \in {"rewrite", "swap", "verdict"} => Watched(r)
    /\ r.pc \in {"swap", "verdict"} => Rewritten(r)
    /\ r.pc = "verdict" => Scanned(r)

\* What left passed the verdict, and left as the request stands.
Sending(r, sent) ==
    /\ r.pc \in Gone => sent # {}
    /\ r.pc \in Held => sent = {}
    /\ r.pc = "free" => sent = {}
    /\ sent # {} => Passed(r) /\ r.reply \notin {"403", "413"}
    /\ \A w \in sent : w.ctx = r.ctx /\ w.model = r.model /\ w.tls = r.kind.tls

\* What the agent was told; ref is whether the answer has its event.
Answered(r, sent, log) ==
    /\ r.pc \in (Held \cup Gone) \ Ending => r.reply = "none"
    /\ r.pc \in Ending => /\ "ref" \in DOMAIN r /\ r.stream = TRUE
                          /\ \/ r.ref = TRUE /\ r.reply = "ok"
                             \/ r.ref = FALSE /\ r.reply \in {"503", "gone"}
    /\ (r.pc # "free" /\ r.reply = "ok") =>
          /\ sent # {}
          /\ \E e \in log : e.action = IF r.dec.action = "warn" THEN "warn" ELSE "allow"

Billed(r, log) ==
    /\ r.pc \in Held \cup {"sent"} => r.stream = FALSE /\ r.held = FALSE
    /\ r.pc \in {"meter", "record"} => r.held = r.stream
    /\ r.pc \in Held \cup {"sent", "meter", "record", "stream"} => r.recorded = FALSE
    /\ r.pc \in {"drained", "usage"} => r.recorded = TRUE
    /\ r.pc = "done" /\ r.held = TRUE => r.recorded = TRUE
    /\ r.pc \in Held \cup {"sent", "meter", "stream", "drained"} => r.metered = 0
    /\ r.pc = "record" => r.metered = IF r.stream = TRUE THEN 0 ELSE 1
    /\ r.pc = "usage" => r.metered = 1
    /\ r.pc = "done" => r.metered <= 1 /\ (r.reply = "ok" \/ r.stream = TRUE => r.metered = 1)
    /\ r.pc = "free" => log = {}
    /\ \A e \in log : e.action = "usage" =>
          /\ r.pc = "done"
          /\ \/ e.ref = TRUE /\ r.reply = "ok"
             \/ e.ref = FALSE /\ r.reply \in {"503", "gone"}

Good(r, sent, log) ==
    Shape(r) /\ Progress(r) /\ Sending(r, sent) /\ Answered(r, sent, log) /\ Billed(r, log)

LogOf(s) == {e \in events : e.slot = s}

Deciding == {"refresh", "reload", "decide"}

\* Before its decision a request has seen the policies that hold; what it is
\* going to decide by, or is loading, is one of those it has seen, and what a
\* request is loading has also been seen by those that are past their refresh.
PolicyInv ==
    /\ policy \in Policies /\ file \in Policies \cup {Rejected}
    /\ current = [s \in Slots |-> current[s]]
    /\ \A s, t \in Slots : At(s, "reload") /\ At(t, "reload") => s = t
    /\ \A s \in Slots : Undecided(s) => Holding \subseteq current[s]
    /\ \A s \in Slots : At(s, "decide") => policy \in current[s]
    /\ \A s \in Slots : At(s, "reload") =>
          /\ req[s].read \in Policies \cup {Rejected}
          /\ req[s].read \in Policies =>
                \A t \in Slots : At(t, "decide") \/ At(t, "reload") => req[s].read \in current[t]
          /\ req[s].read = Rejected => policy \in current[s]
    /\ \A s \in Slots : "cfg" \in DOMAIN req[s] => ~Undecided(s) /\ req[s].cfg \in current[s]

EventInv == \A e \in events : e.slot \in Slots \/ e.action = "keepalive"

SlotsInv ==
    /\ req = [s \in Slots |-> req[s]]
    /\ \A s \in Slots : Good(req[s], Sent(s), LogOf(s))

PipeInv == PolicyInv /\ EventInv /\ SlotsInv
-----------------------------------------------------------------------------
(***************************************************************************)
(* A step of a request.                                                    *)
(***************************************************************************)
Merge(r, u) == [f \in DOMAIN r \cup DOMAIN u |-> IF f \in DOMAIN u THEN u[f] ELSE r[f]]

LEMMA StepMerges ==
    ASSUME req = [x \in Slots |-> req[x]], NEW s \in Slots, NEW u, Step(s, u)
    PROVE  /\ req' = [x \in Slots |-> req'[x]]
           /\ req'[s] = Merge(req[s], u)
           /\ \A x \in Slots \ {s} : req'[x] = req[x]
<1>1. req' = [req EXCEPT ![s] = Merge(req[s], u)]
  BY DEF Step, Merge
<1>2. DOMAIN req = Slots
  OBVIOUS
<1>3. QED
  BY <1>1, <1>2

\* Field by field: what a step sets and what it leaves alone.
LEMMA Sets ==
    ASSUME NEW r, NEW u, NEW q, q = Merge(r, u)
    PROVE  /\ DOMAIN r \subseteq DOMAIN q /\ DOMAIN u \subseteq DOMAIN q
           /\ "pc" \in DOMAIN u => q.pc = u.pc
           /\ "reply" \in DOMAIN u => q.reply = u.reply
           /\ "ctx" \in DOMAIN u => q.ctx = u.ctx
           /\ "model" \in DOMAIN u => q.model = u.model
           /\ "marks" \in DOMAIN u => q.marks = u.marks
           /\ "stream" \in DOMAIN u => q.stream = u.stream
           /\ "metered" \in DOMAIN u => q.metered = u.metered
           /\ "held" \in DOMAIN u => q.held = u.held
           /\ "recorded" \in DOMAIN u => q.recorded = u.recorded
           /\ "ref" \in DOMAIN u => q.ref = u.ref
           /\ "dec" \in DOMAIN u => q.dec = u.dec
           /\ "cfg" \in DOMAIN u => q.cfg = u.cfg
           /\ "over_budget" \in DOMAIN u => q.over_budget = u.over_budget
           /\ "spend_block" \in DOMAIN u => q.spend_block = u.spend_block
           /\ "tripwires" \in DOMAIN u => q.tripwires = u.tripwires
           /\ "modes" \in DOMAIN u => q.modes = u.modes
           /\ "truncated" \in DOMAIN u => q.truncated = u.truncated
           /\ "band" \in DOMAIN u => q.band = u.band
           /\ "keepalive" \in DOMAIN u => q.keepalive = u.keepalive
           /\ "before" \in DOMAIN u => q.before = u.before
<1>1. DOMAIN q = DOMAIN r \cup DOMAIN u
  BY DEF Merge
<1>2. ASSUME NEW f \in DOMAIN u PROVE q[f] = u[f]
  BY DEF Merge
<1>3. QED
  BY <1>1, <1>2

LEMMA Kept ==
    ASSUME NEW r, NEW u, NEW q, q = Merge(r, u), Base \subseteq DOMAIN r
    PROVE  /\ Base \subseteq DOMAIN q
           /\ "kind" \notin DOMAIN u => q.kind = r.kind
           /\ "reply" \notin DOMAIN u => q.reply = r.reply
           /\ "ctx" \notin DOMAIN u => q.ctx = r.ctx
           /\ "model" \notin DOMAIN u => q.model = r.model
           /\ "marks" \notin DOMAIN u => q.marks = r.marks
           /\ "stream" \notin DOMAIN u => q.stream = r.stream
           /\ "metered" \notin DOMAIN u => q.metered = r.metered
           /\ "held" \notin DOMAIN u => q.held = r.held
           /\ "recorded" \notin DOMAIN u => q.recorded = r.recorded
           /\ "dec" \in DOMAIN r \ DOMAIN u => q.dec = r.dec
           /\ "cfg" \in DOMAIN r \ DOMAIN u => q.cfg = r.cfg
           /\ "over_budget" \in DOMAIN r \ DOMAIN u => q.over_budget = r.over_budget
           /\ "spend_block" \in DOMAIN r \ DOMAIN u => q.spend_block = r.spend_block
           /\ "tripwires" \in DOMAIN r \ DOMAIN u => q.tripwires = r.tripwires
           /\ "modes" \in DOMAIN r \ DOMAIN u => q.modes = r.modes
           /\ "truncated" \in DOMAIN r \ DOMAIN u => q.truncated = r.truncated
           /\ "ref" \in DOMAIN r \ DOMAIN u => q.ref = r.ref
<1>1. DOMAIN r \subseteq DOMAIN q
  BY DEF Merge
<1>2. ASSUME NEW f \in DOMAIN r \ DOMAIN u PROVE q[f] = r[f]
  BY DEF Merge
<1>3. QED
  BY <1>1, <1>2 DEF Base

\* What the facts about a request rest on.
LEMMA KeptJudged ==
    ASSUME NEW r, NEW q, Judged(r), DOMAIN r \subseteq DOMAIN q,
           q.kind = r.kind, q.dec = r.dec, q.cfg = r.cfg
    PROVE  Judged(q)
BY DEF Judged

LEMMA KeptRewritten ==
    ASSUME NEW r, NEW q, Rewritten(r), DOMAIN r \subseteq DOMAIN q,
           q.kind = r.kind, q.dec = r.dec, q.cfg = r.cfg, q.marks = r.marks, q.model = r.model
    PROVE  Rewritten(q)
BY DEF Rewritten, Announced

LEMMA KeptScanned ==
    ASSUME NEW r, NEW q, Scanned(r), DOMAIN r \subseteq DOMAIN q, q.kind = r.kind,
           q.dec = r.dec, q.cfg = r.cfg, q.ctx = r.ctx, q.tripwires = r.tripwires, q.modes = r.modes,
           q.truncated = r.truncated
    PROVE  Scanned(q)
BY DEF Scanned, SwapOf

LEMMA KeptPassed ==
    ASSUME NEW r, NEW q, Passed(r), DOMAIN r \subseteq DOMAIN q, q.kind = r.kind,
           q.dec = r.dec, q.cfg = r.cfg, q.marks = r.marks, q.model = r.model,
           q.ctx = r.ctx, q.tripwires = r.tripwires, q.modes = r.modes, q.truncated = r.truncated,
           q.over_budget = r.over_budget, q.spend_block = r.spend_block
    PROVE  Passed(q)
<1>1. Judged(q) /\ Rewritten(q) /\ Scanned(q)
  BY KeptJudged, KeptRewritten, KeptScanned DEF Passed
<1>2. Checked(q) /\ Watched(q) /\ final_action(q) # "deny"
  BY DEF Passed, Checked, Watched, final_action, has_blocking
<1>3. QED
  BY <1>1, <1>2 DEF Passed

LEMMA GoodRefresh ==
    ASSUME NEW r, NEW sent, NEW log, Good(r, sent, log),
           r.pc \in {"refresh", "reload"},
           NEW u, {"pc"} \subseteq DOMAIN u, DOMAIN u \subseteq {"pc", "read"}, u.pc \in {"reload", "decide"},
           NEW q, q = Merge(r, u)
    PROVE  Good(q, sent, log)
<1>1. Base \subseteq DOMAIN r /\ r.pc # "free"
  BY DEF Good, Shape, Held, Early
<1>4. q.pc \in {"reload", "decide"}
  BY Sets
<1>5. /\ Base \subseteq DOMAIN q
      /\ q.kind = r.kind /\ q.reply = r.reply /\ q.ctx = r.ctx /\ q.model = r.model /\ q.marks = r.marks
      /\ q.stream = r.stream /\ q.metered = r.metered /\ q.held = r.held /\ q.recorded = r.recorded
  BY <1>1, Kept
<1>5a. DOMAIN r \subseteq DOMAIN q /\ DOMAIN u \subseteq DOMAIN q
  BY DEF Merge
<1>6. Shape(q)
  BY <1>1, <1>4, <1>5, <1>5a DEF Good, Shape, Places, Base, Held, Early, Gone, Ending
<1>7. Progress(q)
  BY <1>1, <1>4, <1>5, <1>5a DEF Good, Progress, Held, Early, Gone, Ending
<1>8. Sending(q, sent)
  BY <1>1, <1>4, <1>5, <1>5a DEF Good, Sending, Held, Early, Gone, Ending
<1>9. Answered(q, sent, log)
  BY <1>1, <1>4, <1>5, <1>5a DEF Good, Answered, Sending, Held, Early, Gone, Ending
<1>10. Billed(q, log)
  BY <1>1, <1>4, <1>5, <1>5a DEF Good, Billed, Held, Early, Gone, Ending
<1>11. QED
  BY <1>6, <1>7, <1>8, <1>9, <1>10 DEF Good

LEMMA GoodDecide ==
    ASSUME NEW r, NEW sent, NEW log, Good(r, sent, log),
           r.pc = "decide",
           NEW p \in Policies,
           NEW q, q = Merge(r, [pc |-> "budget", dec |-> evaluate(p, r.kind.dest), cfg |-> p])
    PROVE  Good(q, sent, log)
<1> DEFINE u == [pc |-> "budget", dec |-> evaluate(p, r.kind.dest), cfg |-> p]
<1>1. Base \subseteq DOMAIN r /\ r.pc # "free"
  BY DEF Good, Shape, Held, Early
<1>2. /\ DOMAIN u = {"pc", "dec", "cfg"}
      /\ u.pc = "budget" /\ u.dec = evaluate(p, r.kind.dest) /\ u.cfg = p
  OBVIOUS
<1> HIDE DEF u
<1>3. q = Merge(r, u)
  BY DEF u
<1>4. q.pc = "budget" /\ q.dec = evaluate(p, r.kind.dest) /\ q.cfg = p
  BY <1>2, <1>3, Sets
<1>5. /\ Base \subseteq DOMAIN q
      /\ q.kind = r.kind /\ q.reply = r.reply /\ q.ctx = r.ctx /\ q.model = r.model /\ q.marks = r.marks
      /\ q.stream = r.stream /\ q.metered = r.metered /\ q.held = r.held /\ q.recorded = r.recorded
  BY <1>1, <1>2, <1>3, Kept
<1>5a. DOMAIN r \subseteq DOMAIN q /\ DOMAIN u \subseteq DOMAIN q
  BY <1>3 DEF Merge
<1>6. Judged(q)
  BY <1>2, <1>4, <1>5, <1>5a DEF Judged
<1>7. Shape(q)
  BY <1>1, <1>4, <1>5, <1>5a, <1>6 DEF Good, Shape, Places, Base, Held, Early, Gone, Ending
<1>8. Progress(q)
  BY <1>1, <1>4, <1>5, <1>5a, <1>6 DEF Good, Progress, Held, Early, Gone, Ending
<1>9. Sending(q, sent)
  BY <1>1, <1>4, <1>5, <1>5a, <1>6 DEF Good, Sending, Held, Early, Gone, Ending
<1>10. Answered(q, sent, log)
  BY <1>1, <1>4, <1>5, <1>5a, <1>6 DEF Good, Answered, Sending, Held, Early, Gone, Ending
<1>11. Billed(q, log)
  BY <1>1, <1>4, <1>5, <1>5a, <1>6 DEF Good, Billed, Held, Early, Gone, Ending
<1>12. QED
  BY <1>7, <1>8, <1>9, <1>10, <1>11 DEF Good

LEMMA GoodCheckBudget ==
    ASSUME NEW r, NEW sent, NEW log, Good(r, sent, log),
           r.pc = "budget",
           NEW x,
           NEW y,
           NEW q, q = Merge(r, [pc |-> "body", over_budget |-> x, band |-> y])
    PROVE  Good(q, sent, log)
<1> DEFINE u == [pc |-> "body", over_budget |-> x, band |-> y]
<1>1. Base \subseteq DOMAIN r /\ r.pc # "free"
  BY DEF Good, Shape, Held, Early
<1>2. /\ DOMAIN u = {"pc", "over_budget", "band"}
      /\ u.pc = "body" /\ u.over_budget = x /\ u.band = y
  OBVIOUS
<1> HIDE DEF u
<1>3. q = Merge(r, u)
  BY DEF u
<1>4. q.pc = "body" /\ q.over_budget = x /\ q.band = y
  BY <1>2, <1>3, Sets
<1>5. /\ Base \subseteq DOMAIN q
      /\ q.kind = r.kind /\ q.reply = r.reply /\ q.ctx = r.ctx /\ q.model = r.model /\ q.marks = r.marks
      /\ q.stream = r.stream /\ q.metered = r.metered /\ q.held = r.held /\ q.recorded = r.recorded
  BY <1>1, <1>2, <1>3, Kept
<1>5a. DOMAIN r \subseteq DOMAIN q /\ DOMAIN u \subseteq DOMAIN q
  BY <1>3 DEF Merge
<1>6. Judged(r) /\ Judged(q)
  <2>1. Judged(r)
    BY DEF Good, Progress, Held, Early
  <2>2. q.dec = r.dec /\ q.cfg = r.cfg
    BY <1>1, <1>2, <1>3, <2>1, Kept DEF Judged
  <2>3. QED
    BY <1>5, <1>5a, <2>1, <2>2, KeptJudged
<1>7. Checked(q)
  BY <1>2, <1>5a DEF Checked
<1>8. Shape(q)
  BY <1>1, <1>4, <1>5, <1>5a, <1>6, <1>7 DEF Good, Shape, Places, Base, Held, Early, Gone, Ending
<1>9. Progress(q)
  BY <1>1, <1>4, <1>5, <1>5a, <1>6, <1>7 DEF Good, Progress, Held, Early, Gone, Ending
<1>10. Sending(q, sent)
  BY <1>1, <1>4, <1>5, <1>5a, <1>6, <1>7 DEF Good, Sending, Held, Early, Gone, Ending
<1>11. Answered(q, sent, log)
  BY <1>1, <1>4, <1>5, <1>5a, <1>6, <1>7 DEF Good, Answered, Sending, Held, Early, Gone, Ending
<1>12. Billed(q, log)
  BY <1>1, <1>4, <1>5, <1>5a, <1>6, <1>7 DEF Good, Billed, Held, Early, Gone, Ending
<1>13. QED
  BY <1>8, <1>9, <1>10, <1>11, <1>12 DEF Good

LEMMA GoodReadBody ==
    ASSUME NEW r, NEW sent, NEW log, Good(r, sent, log),
           r.pc = "body",
           NEW q, q = Merge(r, [pc |-> "watch"])
    PROVE  Good(q, sent, log)
<1> DEFINE u == [pc |-> "watch"]
<1>1. Base \subseteq DOMAIN r /\ r.pc # "free"
  BY DEF Good, Shape, Held, Early
<1>2. /\ DOMAIN u = {"pc"}
      /\ u.pc = "watch"
  OBVIOUS
<1> HIDE DEF u
<1>3. q = Merge(r, u)
  BY DEF u
<1>4. q.pc = "watch"
  BY <1>2, <1>3, Sets
<1>5. /\ Base \subseteq DOMAIN q
      /\ q.kind = r.kind /\ q.reply = r.reply /\ q.ctx = r.ctx /\ q.model = r.model /\ q.marks = r.marks
      /\ q.stream = r.stream /\ q.metered = r.metered /\ q.held = r.held /\ q.recorded = r.recorded
  BY <1>1, <1>2, <1>3, Kept
<1>5a. DOMAIN r \subseteq DOMAIN q /\ DOMAIN u \subseteq DOMAIN q
  BY <1>3 DEF Merge
<1>6. Judged(r) /\ Judged(q)
  <2>1. Judged(r)
    BY DEF Good, Progress, Held, Early
  <2>2. q.dec = r.dec /\ q.cfg = r.cfg
    BY <1>1, <1>2, <1>3, <2>1, Kept DEF Judged
  <2>3. QED
    BY <1>5, <1>5a, <2>1, <2>2, KeptJudged
<1>7. Checked(q)
  BY <1>5a DEF Good, Progress, Checked
<1>8. Shape(q)
  BY <1>1, <1>4, <1>5, <1>5a, <1>6, <1>7 DEF Good, Shape, Places, Base, Held, Early, Gone, Ending
<1>9. Progress(q)
  BY <1>1, <1>4, <1>5, <1>5a, <1>6, <1>7 DEF Good, Progress, Held, Early, Gone, Ending
<1>10. Sending(q, sent)
  BY <1>1, <1>4, <1>5, <1>5a, <1>6, <1>7 DEF Good, Sending, Held, Early, Gone, Ending
<1>11. Answered(q, sent, log)
  BY <1>1, <1>4, <1>5, <1>5a, <1>6, <1>7 DEF Good, Answered, Sending, Held, Early, Gone, Ending
<1>12. Billed(q, log)
  BY <1>1, <1>4, <1>5, <1>5a, <1>6, <1>7 DEF Good, Billed, Held, Early, Gone, Ending
<1>13. QED
  BY <1>8, <1>9, <1>10, <1>11, <1>12 DEF Good

LEMMA GoodWatchSpend ==
    ASSUME NEW r, NEW sent, NEW log, Good(r, sent, log),
           r.pc = "watch",
           NEW x,
           NEW q, q = Merge(r, [pc |-> "rewrite", spend_block |-> x])
    PROVE  Good(q, sent, log)
<1> DEFINE u == [pc |-> "rewrite", spend_block |-> x]
<1>1. Base \subseteq DOMAIN r /\ r.pc # "free"
  BY DEF Good, Shape, Held, Early
<1>2. /\ DOMAIN u = {"pc", "spend_block"}
      /\ u.pc = "rewrite" /\ u.spend_block = x
  OBVIOUS
<1> HIDE DEF u
<1>3. q = Merge(r, u)
  BY DEF u
<1>4. q.pc = "rewrite" /\ q.spend_block = x
  BY <1>2, <1>3, Sets
<1>5. /\ Base \subseteq DOMAIN q
      /\ q.kind = r.kind /\ q.reply = r.reply /\ q.ctx = r.ctx /\ q.model = r.model /\ q.marks = r.marks
      /\ q.stream = r.stream /\ q.metered = r.metered /\ q.held = r.held /\ q.recorded = r.recorded
  BY <1>1, <1>2, <1>3, Kept
<1>5a. DOMAIN r \subseteq DOMAIN q /\ DOMAIN u \subseteq DOMAIN q
  BY <1>3 DEF Merge
<1>6. Judged(r) /\ Judged(q)
  <2>1. Judged(r)
    BY DEF Good, Progress, Held, Early
  <2>2. q.dec = r.dec /\ q.cfg = r.cfg
    BY <1>1, <1>2, <1>3, <2>1, Kept DEF Judged
  <2>3. QED
    BY <1>5, <1>5a, <2>1, <2>2, KeptJudged
<1>7. Checked(q)
  BY <1>5a DEF Good, Progress, Checked
<1>8. Watched(q)
  BY <1>2, <1>5a DEF Watched
<1>9. Shape(q)
  BY <1>1, <1>4, <1>5, <1>5a, <1>6, <1>7, <1>8 DEF Good, Shape, Places, Base, Held, Early, Gone, Ending
<1>10. Progress(q)
  BY <1>1, <1>4, <1>5, <1>5a, <1>6, <1>7, <1>8 DEF Good, Progress, Held, Early, Gone, Ending
<1>11. Sending(q, sent)
  BY <1>1, <1>4, <1>5, <1>5a, <1>6, <1>7, <1>8 DEF Good, Sending, Held, Early, Gone, Ending
<1>12. Answered(q, sent, log)
  BY <1>1, <1>4, <1>5, <1>5a, <1>6, <1>7, <1>8 DEF Good, Answered, Sending, Held, Early, Gone, Ending
<1>13. Billed(q, log)
  BY <1>1, <1>4, <1>5, <1>5a, <1>6, <1>7, <1>8 DEF Good, Billed, Held, Early, Gone, Ending
<1>14. QED
  BY <1>9, <1>10, <1>11, <1>12, <1>13 DEF Good

\* The marks announce the model.
LEMMA GoodRewrite ==
    ASSUME NEW r, NEW sent, NEW log, Good(r, sent, log),
           r.pc = "rewrite",
           NEW landed,
           NEW routed,
           NEW repaired \in BOOLEAN,
           NEW k,
           landed = r.model \/ landed = rewrite_model(r.model, r.cfg.soft),
           routed = landed \/ routed = rewrite_model(landed, r.dec.route),
           NEW q, q = Merge(r, [pc |-> "swap", model |-> routed, marks |-> Marks(r.model, landed, routed, repaired), keepalive |-> k])
    PROVE  Good(q, sent, log)
<1> DEFINE u == [pc |-> "swap", model |-> routed, marks |-> Marks(r.model, landed, routed, repaired), keepalive |-> k]
<1>1. Base \subseteq DOMAIN r /\ r.pc # "free"
  BY DEF Good, Shape, Held, Early
<1>2. /\ DOMAIN u = {"pc", "model", "marks", "keepalive"}
      /\ u.pc = "swap" /\ u.model = routed /\ u.marks = Marks(r.model, landed, routed, repaired) /\ u.keepalive = k
  OBVIOUS
<1> HIDE DEF u
<1>3. q = Merge(r, u)
  BY DEF u
<1>4. q.pc = "swap" /\ q.model = routed /\ q.marks = Marks(r.model, landed, routed, repaired) /\ q.keepalive = k
  BY <1>2, <1>3, Sets
<1>5. /\ Base \subseteq DOMAIN q
      /\ q.kind = r.kind /\ q.reply = r.reply /\ q.ctx = r.ctx /\ q.stream = r.stream /\ q.metered = r.metered
      /\ q.held = r.held /\ q.recorded = r.recorded
  BY <1>1, <1>2, <1>3, Kept
<1>5a. DOMAIN r \subseteq DOMAIN q /\ DOMAIN u \subseteq DOMAIN q
  BY <1>3 DEF Merge
<1>6. Judged(r) /\ Judged(q)
  <2>1. Judged(r)
    BY DEF Good, Progress, Held, Early
  <2>2. q.dec = r.dec /\ q.cfg = r.cfg
    BY <1>1, <1>2, <1>3, <2>1, Kept DEF Judged
  <2>3. QED
    BY <1>5, <1>5a, <2>1, <2>2, KeptJudged
<1>7. Checked(q)
  BY <1>5a DEF Good, Progress, Checked
<1>8. Watched(q)
  BY <1>5a DEF Good, Progress, Watched
<1>9. Rewritten(q)
  <2>1. q.dec = r.dec /\ q.cfg = r.cfg /\ "keepalive" \in DOMAIN q
    BY <1>1, <1>2, <1>3, <1>5a, <1>6, Kept DEF Judged
  <2>2. r.model = r.kind.model
    BY DEF Good, Progress, Early
  <2>3. /\ "downgrade" \in q.marks <=> landed # r.model
        /\ "route" \in q.marks <=> routed # landed
    BY <1>4 DEF Marks, When
  <2>4. landed # r.model => landed = r.cfg.soft[r.model]
    BY DEF rewrite_model
  <2>5. routed # landed => routed = r.dec.route[landed]
    BY DEF rewrite_model
  <2>6. Announced(q) = routed
    BY <1>5, <2>1, <2>2, <2>3, <2>4, <2>5 DEF Announced
  <2>7. QED
    BY <1>4, <2>1, <2>6 DEF Rewritten
<1>10. Shape(q)
  BY <1>1, <1>4, <1>5, <1>5a, <1>6, <1>7, <1>8, <1>9 DEF Good, Shape, Places, Base, Held, Early, Gone, Ending
<1>11. Progress(q)
  BY <1>1, <1>4, <1>5, <1>5a, <1>6, <1>7, <1>8, <1>9 DEF Good, Progress, Held, Early, Gone, Ending
<1>12. Sending(q, sent)
  BY <1>1, <1>4, <1>5, <1>5a, <1>6, <1>7, <1>8, <1>9 DEF Good, Sending, Held, Early, Gone, Ending
<1>13. Answered(q, sent, log)
  BY <1>1, <1>4, <1>5, <1>5a, <1>6, <1>7, <1>8, <1>9 DEF Good, Answered, Sending, Held, Early, Gone, Ending
<1>14. Billed(q, log)
  BY <1>1, <1>4, <1>5, <1>5a, <1>6, <1>7, <1>8, <1>9 DEF Good, Billed, Held, Early, Gone, Ending
<1>15. QED
  BY <1>10, <1>11, <1>12, <1>13, <1>14 DEF Good

LEMMA GoodSwap ==
    ASSUME NEW r, NEW sent, NEW log, Good(r, sent, log),
           r.pc = "swap",
           NEW t,
           NEW c,
           NEW m,
           NEW v,
           NEW b,
           NEW scan \in Scans(SwapOf(r).ctx),
           t = SwapOf(r).tripwires,
           c = detect_apply(SwapOf(r).ctx, r.cfg.dlp, scan).ctx,
           m = detect_apply(SwapOf(r).ctx, r.cfg.dlp, scan).modes,
           v = detect_apply(SwapOf(r).ctx, r.cfg.dlp, scan).truncated,
           NEW q, q = Merge(r, [pc |-> "verdict", ctx |-> c, tripwires |-> t, modes |-> m, truncated |-> v, before |-> b])
    PROVE  Good(q, sent, log)
<1> DEFINE u == [pc |-> "verdict", ctx |-> c, tripwires |-> t, modes |-> m, truncated |-> v, before |-> b]
<1>1. Base \subseteq DOMAIN r /\ r.pc # "free"
  BY DEF Good, Shape, Held, Early
<1>2. /\ DOMAIN u = {"pc", "ctx", "tripwires", "modes", "truncated", "before"}
      /\ u.pc = "verdict" /\ u.ctx = c /\ u.tripwires = t /\ u.modes = m /\ u.truncated = v /\ u.before = b
  OBVIOUS
<1> HIDE DEF u
<1>3. q = Merge(r, u)
  BY DEF u
<1>4. q.pc = "verdict" /\ q.ctx = c /\ q.tripwires = t /\ q.modes = m /\ q.truncated = v /\ q.before = b
  BY <1>2, <1>3, Sets
<1>5. /\ Base \subseteq DOMAIN q
      /\ q.kind = r.kind /\ q.reply = r.reply /\ q.model = r.model /\ q.marks = r.marks /\ q.stream = r.stream
      /\ q.metered = r.metered /\ q.held = r.held /\ q.recorded = r.recorded
  BY <1>1, <1>2, <1>3, Kept
<1>5a. DOMAIN r \subseteq DOMAIN q /\ DOMAIN u \subseteq DOMAIN q
  BY <1>3 DEF Merge
<1>6. Judged(r) /\ Judged(q)
  <2>1. Judged(r)
    BY DEF Good, Progress, Held, Early
  <2>2. q.dec = r.dec /\ q.cfg = r.cfg
    BY <1>1, <1>2, <1>3, <2>1, Kept DEF Judged
  <2>3. QED
    BY <1>5, <1>5a, <2>1, <2>2, KeptJudged
<1>7. Checked(q)
  BY <1>5a DEF Good, Progress, Checked
<1>8. Watched(q)
  BY <1>5a DEF Good, Progress, Watched
<1>9. q.dec = r.dec /\ q.cfg = r.cfg
  BY <1>1, <1>2, <1>3, <1>6, Kept DEF Judged
<1>10. Rewritten(q)
  <2>1. Rewritten(r)
    BY DEF Good, Progress
  <2>2. QED
    BY <1>5, <1>5a, <1>9, <2>1, KeptRewritten
<1>11. Scanned(q)
  <2>1. SwapOf(q) = SwapOf(r)
    BY <1>5, <1>9 DEF SwapOf
  <2>2. {"tripwires", "modes", "truncated", "before"} \subseteq DOMAIN q
    BY <1>2, <1>5a
  <2>3. /\ scan \in Scans(SwapOf(q).ctx)
        /\ q.tripwires = SwapOf(q).tripwires
        /\ q.ctx = detect_apply(SwapOf(q).ctx, q.cfg.dlp, scan).ctx
        /\ q.modes = detect_apply(SwapOf(q).ctx, q.cfg.dlp, scan).modes
        /\ q.truncated = detect_apply(SwapOf(q).ctx, q.cfg.dlp, scan).truncated
    BY <1>4, <1>9, <2>1
  <2>4. QED
    BY <2>2, <2>3 DEF Scanned
<1>12. Shape(q)
  BY <1>1, <1>4, <1>5, <1>5a, <1>6, <1>7, <1>8, <1>10, <1>11 DEF Good, Shape, Places, Base, Held, Early, Gone, Ending
<1>13. Progress(q)
  BY <1>1, <1>4, <1>5, <1>5a, <1>6, <1>7, <1>8, <1>10, <1>11 DEF Good, Progress, Held, Early, Gone, Ending
<1>14. Sending(q, sent)
  BY <1>1, <1>4, <1>5, <1>5a, <1>6, <1>7, <1>8, <1>10, <1>11 DEF Good, Sending, Held, Early, Gone, Ending
<1>15. Answered(q, sent, log)
  BY <1>1, <1>4, <1>5, <1>5a, <1>6, <1>7, <1>8, <1>10, <1>11 DEF Good, Answered, Sending, Held, Early, Gone, Ending
<1>16. Billed(q, log)
  BY <1>1, <1>4, <1>5, <1>5a, <1>6, <1>7, <1>8, <1>10, <1>11, ZenonT(40) DEF Good, Billed, Held, Early, Gone, Ending
<1>17. QED
  BY <1>12, <1>13, <1>14, <1>15, <1>16 DEF Good

\* From the verdict on a step changes none of what let the request through.
LEMMA SendingKept ==
    ASSUME NEW r, NEW sent, NEW log, Good(r, sent, log), NEW u, NEW q, q = Merge(r, u),
           r.pc # "free", DOMAIN u \subseteq {"pc", "reply", "stream", "held", "recorded", "metered", "ref"},
           q.pc # "free", q.pc \in Gone => sent # {}, q.pc \notin Held,
           sent # {} => q.reply \notin {"403", "413"}
    PROVE  /\ Sending(q, sent)
           /\ sent # {} => q.dec = r.dec
<1>1. Base \subseteq DOMAIN r
  BY DEF Good, Shape
<1>2. /\ q.kind = r.kind /\ q.ctx = r.ctx /\ q.model = r.model /\ q.marks = r.marks
  BY <1>1, Kept
<1>2a. DOMAIN r \subseteq DOMAIN q
  BY Sets
<1>3. ASSUME sent # {} PROVE Passed(q) /\ q.dec = r.dec
  <2>1. Passed(r)
    BY <1>3 DEF Good, Sending
  <2>2. {"dec", "cfg", "over_budget", "spend_block", "tripwires", "modes", "truncated"} \subseteq DOMAIN r
    BY <2>1 DEF Passed, Judged, Checked, Watched, Scanned
  <2>3. /\ q.dec = r.dec /\ q.cfg = r.cfg /\ q.over_budget = r.over_budget
        /\ q.spend_block = r.spend_block /\ q.tripwires = r.tripwires /\ q.modes = r.modes
        /\ q.truncated = r.truncated
    BY <1>1, <2>2, Kept
  <2>4. QED
    BY <1>2, <1>2a, <2>1, <2>3, KeptPassed
<1>4. QED
  BY <1>2, <1>3 DEF Good, Sending

\* A request ends without an answer of its own.
LEMMA GoodStops ==
    ASSUME NEW r, NEW sent, NEW log, Good(r, sent, log),
           r.pc \in Held \cup {"sent"},
           NEW x \in {"413", "502", "403", "gone"},
           r.pc \notin Held => x \in {"502", "gone"},
           NEW q, q = Merge(r, [pc |-> "done", reply |-> x])
    PROVE  Good(q, sent, log)
<1> DEFINE u == [pc |-> "done", reply |-> x]
<1>1. Base \subseteq DOMAIN r /\ r.pc # "free"
  BY DEF Good, Shape, Held, Early
<1>2. /\ DOMAIN u = {"pc", "reply"}
      /\ u.pc = "done" /\ u.reply = x
  OBVIOUS
<1> HIDE DEF u
<1>3. q = Merge(r, u)
  BY DEF u
<1>4. q.pc = "done" /\ q.reply = x
  BY <1>2, <1>3, Sets
<1>5. /\ Base \subseteq DOMAIN q
      /\ q.kind = r.kind /\ q.ctx = r.ctx /\ q.model = r.model /\ q.marks = r.marks /\ q.stream = r.stream
      /\ q.metered = r.metered /\ q.held = r.held /\ q.recorded = r.recorded
  BY <1>1, <1>2, <1>3, Kept
<1>5a. DOMAIN r \subseteq DOMAIN q /\ DOMAIN u \subseteq DOMAIN q
  BY <1>3 DEF Merge
<1>6. Sending(q, sent) /\ (sent # {} => q.dec = r.dec)
  <2>1. DOMAIN u \subseteq {"pc", "reply", "stream", "held", "recorded", "metered", "ref"}
    BY <1>2
  <2>2. /\ q.pc # "free" /\ q.pc \notin Held /\ (q.pc \in Gone => sent # {})
        /\ sent # {} => q.reply \notin {"403", "413"}
    BY <1>4, <1>5 DEF Good, Sending, Answered, Held, Early, Gone, Ending
  <2>3. QED
    BY <1>1, <1>3, <2>1, <2>2, SendingKept
<1>7. Shape(q)
  BY <1>1, <1>4, <1>5, <1>5a, <1>6 DEF Good, Shape, Places, Base, Held, Early, Gone, Ending
<1>8. Progress(q)
  BY <1>1, <1>4, <1>5, <1>5a, <1>6 DEF Good, Progress, Held, Early, Gone, Ending
<1>9. Sending(q, sent)
  BY <1>6
<1>10. Answered(q, sent, log)
  BY <1>1, <1>4, <1>5, <1>5a, <1>6 DEF Good, Answered, Sending, Held, Early, Gone, Ending
<1>11. Billed(q, log)
  BY <1>1, <1>4, <1>5, <1>5a, <1>6 DEF Good, Billed, Held, Early, Gone, Ending
<1>12. QED
  BY <1>7, <1>8, <1>9, <1>10, <1>11 DEF Good

\* A buffered answer without its event is dropped.
LEMMA GoodWithheld ==
    ASSUME NEW r, NEW sent, NEW log, Good(r, sent, log),
           r.pc \in Held \cup {"sent", "meter", "record"},
           r.held = FALSE,
           NEW x \in {"503", "gone"},
           NEW q, q = Merge(r, [pc |-> "done", recorded |-> FALSE, held |-> FALSE, reply |-> x, ref |-> FALSE])
    PROVE  Good(q, sent, log)
<1> DEFINE u == [pc |-> "done", recorded |-> FALSE, held |-> FALSE, reply |-> x, ref |-> FALSE]
<1>1. Base \subseteq DOMAIN r /\ r.pc # "free"
  BY DEF Good, Shape, Held, Early
<1>2. /\ DOMAIN u = {"pc", "recorded", "held", "reply", "ref"}
      /\ u.pc = "done" /\ u.recorded = FALSE /\ u.held = FALSE /\ u.reply = x /\ u.ref = FALSE
  OBVIOUS
<1> HIDE DEF u
<1>3. q = Merge(r, u)
  BY DEF u
<1>4. q.pc = "done" /\ q.recorded = FALSE /\ q.held = FALSE /\ q.reply = x /\ q.ref = FALSE
  BY <1>2, <1>3, Sets
<1>5. /\ Base \subseteq DOMAIN q
      /\ q.kind = r.kind /\ q.ctx = r.ctx /\ q.model = r.model /\ q.marks = r.marks /\ q.stream = r.stream
      /\ q.metered = r.metered
  BY <1>1, <1>2, <1>3, Kept
<1>5a. DOMAIN r \subseteq DOMAIN q /\ DOMAIN u \subseteq DOMAIN q
  BY <1>3 DEF Merge
<1>6. Sending(q, sent) /\ (sent # {} => q.dec = r.dec)
  <2>1. DOMAIN u \subseteq {"pc", "reply", "stream", "held", "recorded", "metered", "ref"}
    BY <1>2
  <2>2. /\ q.pc # "free" /\ q.pc \notin Held /\ (q.pc \in Gone => sent # {})
        /\ sent # {} => q.reply \notin {"403", "413"}
    BY <1>4, <1>5 DEF Good, Sending, Answered, Held, Early, Gone, Ending
  <2>3. QED
    BY <1>1, <1>3, <2>1, <2>2, SendingKept
<1>7. Shape(q)
  BY <1>1, <1>4, <1>5, <1>5a, <1>6 DEF Good, Shape, Places, Base, Held, Early, Gone, Ending
<1>8. Progress(q)
  BY <1>1, <1>4, <1>5, <1>5a, <1>6 DEF Good, Progress, Held, Early, Gone, Ending
<1>9. Sending(q, sent)
  BY <1>6
<1>10. Answered(q, sent, log)
  BY <1>1, <1>4, <1>5, <1>5a, <1>6 DEF Good, Answered, Sending, Held, Early, Gone, Ending
<1>11. Billed(q, log)
  <2>1. \A e \in log : e.action # "usage"
    BY DEF Good, Billed, Held, Early
  <2>2. r.stream = FALSE /\ r.metered <= 1
    BY DEF Good, Billed, Held, Early
  <2>3. QED
    BY <1>4, <1>5, <2>1, <2>2 DEF Billed, Held, Early
<1>12. QED
  BY <1>7, <1>8, <1>9, <1>10, <1>11 DEF Good

\* A streamed answer is dropped before the agent has it.
LEMMA GoodAbandoned ==
    ASSUME NEW r, NEW sent, NEW log, Good(r, sent, log),
           r.pc \in {"meter", "record"},
           r.held = TRUE,
           NEW x \in {"503", "gone"},
           NEW q, q = Merge(r, [pc |-> "drained", recorded |-> TRUE, held |-> FALSE, reply |-> x, ref |-> FALSE])
    PROVE  Good(q, sent, log)
<1> DEFINE u == [pc |-> "drained", recorded |-> TRUE, held |-> FALSE, reply |-> x, ref |-> FALSE]
<1>1. Base \subseteq DOMAIN r /\ r.pc # "free"
  BY DEF Good, Shape, Held, Early
<1>2. /\ DOMAIN u = {"pc", "recorded", "held", "reply", "ref"}
      /\ u.pc = "drained" /\ u.recorded = TRUE /\ u.held = FALSE /\ u.reply = x /\ u.ref = FALSE
  OBVIOUS
<1> HIDE DEF u
<1>3. q = Merge(r, u)
  BY DEF u
<1>4. q.pc = "drained" /\ q.recorded = TRUE /\ q.held = FALSE /\ q.reply = x /\ q.ref = FALSE
  BY <1>2, <1>3, Sets
<1>5. /\ Base \subseteq DOMAIN q
      /\ q.kind = r.kind /\ q.ctx = r.ctx /\ q.model = r.model /\ q.marks = r.marks /\ q.stream = r.stream
      /\ q.metered = r.metered
  BY <1>1, <1>2, <1>3, Kept
<1>5a. DOMAIN r \subseteq DOMAIN q /\ DOMAIN u \subseteq DOMAIN q
  BY <1>3 DEF Merge
<1>6. Sending(q, sent) /\ (sent # {} => q.dec = r.dec)
  <2>1. DOMAIN u \subseteq {"pc", "reply", "stream", "held", "recorded", "metered", "ref"}
    BY <1>2
  <2>2. /\ q.pc # "free" /\ q.pc \notin Held /\ (q.pc \in Gone => sent # {})
        /\ sent # {} => q.reply \notin {"403", "413"}
    BY <1>4, <1>5 DEF Good, Sending, Answered, Held, Early, Gone, Ending
  <2>3. QED
    BY <1>1, <1>3, <2>1, <2>2, SendingKept
<1>7. "ref" \in DOMAIN q
  BY <1>2, <1>5a
<1>7a. r.stream = TRUE
  BY DEF Good, Billed
<1>8. Shape(q)
  BY <1>1, <1>4, <1>5, <1>5a, <1>6, <1>7 DEF Good, Shape, Places, Base, Held, Early, Gone, Ending
<1>9. Progress(q)
  BY <1>1, <1>4, <1>5, <1>5a, <1>6, <1>7 DEF Good, Progress, Held, Early, Gone, Ending
<1>10. Sending(q, sent)
  BY <1>6
<1>11. Answered(q, sent, log)
  BY <1>1, <1>4, <1>5, <1>5a, <1>6, <1>7, <1>7a DEF Good, Answered, Sending, Held, Early, Gone, Ending
<1>12. Billed(q, log)
  BY <1>1, <1>4, <1>5, <1>5a, <1>6, <1>7 DEF Good, Billed, Held, Early, Gone, Ending
<1>13. QED
  BY <1>8, <1>9, <1>10, <1>11, <1>12 DEF Good

LEMMA GoodRespond ==
    ASSUME NEW r, NEW sent, NEW log, Good(r, sent, log),
           r.pc = "sent",
           NEW x \in BOOLEAN,
           NEW q, q = Merge(r, [pc |-> "meter", stream |-> x, held |-> x])
    PROVE  Good(q, sent, log)
<1> DEFINE u == [pc |-> "meter", stream |-> x, held |-> x]
<1>1. Base \subseteq DOMAIN r /\ r.pc # "free"
  BY DEF Good, Shape, Held, Early
<1>2. /\ DOMAIN u = {"pc", "stream", "held"}
      /\ u.pc = "meter" /\ u.stream = x /\ u.held = x
  OBVIOUS
<1> HIDE DEF u
<1>3. q = Merge(r, u)
  BY DEF u
<1>4. q.pc = "meter" /\ q.stream = x /\ q.held = x
  BY <1>2, <1>3, Sets
<1>5. /\ Base \subseteq DOMAIN q
      /\ q.kind = r.kind /\ q.reply = r.reply /\ q.ctx = r.ctx /\ q.model = r.model /\ q.marks = r.marks
      /\ q.recorded = r.recorded /\ q.metered = r.metered
  BY <1>1, <1>2, <1>3, Kept
<1>5a. DOMAIN r \subseteq DOMAIN q /\ DOMAIN u \subseteq DOMAIN q
  BY <1>3 DEF Merge
<1>6. Sending(q, sent) /\ (sent # {} => q.dec = r.dec)
  <2>1. DOMAIN u \subseteq {"pc", "reply", "stream", "held", "recorded", "metered", "ref"}
    BY <1>2
  <2>2. /\ q.pc # "free" /\ q.pc \notin Held /\ (q.pc \in Gone => sent # {})
        /\ sent # {} => q.reply \notin {"403", "413"}
    BY <1>4, <1>5 DEF Good, Sending, Answered, Held, Early, Gone, Ending
  <2>3. QED
    BY <1>1, <1>3, <2>1, <2>2, SendingKept
<1>7. Shape(q)
  BY <1>1, <1>4, <1>5, <1>5a, <1>6 DEF Good, Shape, Places, Base, Held, Early, Gone, Ending
<1>8. Progress(q)
  BY <1>1, <1>4, <1>5, <1>5a, <1>6 DEF Good, Progress, Held, Early, Gone, Ending
<1>9. Sending(q, sent)
  BY <1>6
<1>10. Answered(q, sent, log)
  BY <1>1, <1>4, <1>5, <1>5a, <1>6 DEF Good, Answered, Sending, Held, Early, Gone, Ending
<1>11. Billed(q, log)
  BY <1>1, <1>4, <1>5, <1>5a, <1>6 DEF Good, Billed, Held, Early, Gone, Ending
<1>12. QED
  BY <1>7, <1>8, <1>9, <1>10, <1>11 DEF Good

LEMMA GoodMeterStream ==
    ASSUME NEW r, NEW sent, NEW log, Good(r, sent, log),
           r.pc = "meter",
           r.stream = TRUE,
           NEW q, q = Merge(r, [pc |-> "record"])
    PROVE  Good(q, sent, log)
<1> DEFINE u == [pc |-> "record"]
<1>1. Base \subseteq DOMAIN r /\ r.pc # "free"
  BY DEF Good, Shape, Held, Early
<1>2. /\ DOMAIN u = {"pc"}
      /\ u.pc = "record"
  OBVIOUS
<1> HIDE DEF u
<1>3. q = Merge(r, u)
  BY DEF u
<1>4. q.pc = "record"
  BY <1>2, <1>3, Sets
<1>5. /\ Base \subseteq DOMAIN q
      /\ q.kind = r.kind /\ q.reply = r.reply /\ q.ctx = r.ctx /\ q.model = r.model /\ q.marks = r.marks
      /\ q.stream = r.stream /\ q.metered = r.metered /\ q.held = r.held /\ q.recorded = r.recorded
  BY <1>1, <1>2, <1>3, Kept
<1>5a. DOMAIN r \subseteq DOMAIN q /\ DOMAIN u \subseteq DOMAIN q
  BY <1>3 DEF Merge
<1>6. Sending(q, sent) /\ (sent # {} => q.dec = r.dec)
  <2>1. DOMAIN u \subseteq {"pc", "reply", "stream", "held", "recorded", "metered", "ref"}
    BY <1>2
  <2>2. /\ q.pc # "free" /\ q.pc \notin Held /\ (q.pc \in Gone => sent # {})
        /\ sent # {} => q.reply \notin {"403", "413"}
    BY <1>4, <1>5 DEF Good, Sending, Answered, Held, Early, Gone, Ending
  <2>3. QED
    BY <1>1, <1>3, <2>1, <2>2, SendingKept
<1>7. Shape(q)
  BY <1>1, <1>4, <1>5, <1>5a, <1>6 DEF Good, Shape, Places, Base, Held, Early, Gone, Ending
<1>8. Progress(q)
  BY <1>1, <1>4, <1>5, <1>5a, <1>6 DEF Good, Progress, Held, Early, Gone, Ending
<1>9. Sending(q, sent)
  BY <1>6
<1>10. Answered(q, sent, log)
  BY <1>1, <1>4, <1>5, <1>5a, <1>6 DEF Good, Answered, Sending, Held, Early, Gone, Ending
<1>11. Billed(q, log)
  BY <1>1, <1>4, <1>5, <1>5a, <1>6 DEF Good, Billed, Held, Early, Gone, Ending
<1>12. QED
  BY <1>7, <1>8, <1>9, <1>10, <1>11 DEF Good

LEMMA GoodMeter ==
    ASSUME NEW r, NEW sent, NEW log, Good(r, sent, log),
           r.pc = "meter",
           r.stream = FALSE,
           NEW q, q = Merge(r, [pc |-> "record", metered |-> r.metered + 1])
    PROVE  Good(q, sent, log)
<1> DEFINE u == [pc |-> "record", metered |-> r.metered + 1]
<1>1. Base \subseteq DOMAIN r /\ r.pc # "free"
  BY DEF Good, Shape, Held, Early
<1>2. /\ DOMAIN u = {"pc", "metered"}
      /\ u.pc = "record" /\ u.metered = r.metered + 1
  OBVIOUS
<1> HIDE DEF u
<1>3. q = Merge(r, u)
  BY DEF u
<1>4. q.pc = "record" /\ q.metered = r.metered + 1
  BY <1>2, <1>3, Sets
<1>5. /\ Base \subseteq DOMAIN q
      /\ q.kind = r.kind /\ q.reply = r.reply /\ q.ctx = r.ctx /\ q.model = r.model /\ q.marks = r.marks
      /\ q.stream = r.stream /\ q.held = r.held /\ q.recorded = r.recorded
  BY <1>1, <1>2, <1>3, Kept
<1>5a. DOMAIN r \subseteq DOMAIN q /\ DOMAIN u \subseteq DOMAIN q
  BY <1>3 DEF Merge
<1>6. Sending(q, sent) /\ (sent # {} => q.dec = r.dec)
  <2>1. DOMAIN u \subseteq {"pc", "reply", "stream", "held", "recorded", "metered", "ref"}
    BY <1>2
  <2>2. /\ q.pc # "free" /\ q.pc \notin Held /\ (q.pc \in Gone => sent # {})
        /\ sent # {} => q.reply \notin {"403", "413"}
    BY <1>4, <1>5 DEF Good, Sending, Answered, Held, Early, Gone, Ending
  <2>3. QED
    BY <1>1, <1>3, <2>1, <2>2, SendingKept
<1>7. Shape(q)
  BY <1>1, <1>4, <1>5, <1>5a, <1>6 DEF Good, Shape, Places, Base, Held, Early, Gone, Ending
<1>8. Progress(q)
  BY <1>1, <1>4, <1>5, <1>5a, <1>6 DEF Good, Progress, Held, Early, Gone, Ending
<1>9. Sending(q, sent)
  BY <1>6
<1>10. Answered(q, sent, log)
  BY <1>1, <1>4, <1>5, <1>5a, <1>6 DEF Good, Answered, Sending, Held, Early, Gone, Ending
<1>11. Billed(q, log)
  BY <1>1, <1>4, <1>5, <1>5a, <1>6 DEF Good, Billed, Held, Early, Gone, Ending
<1>12. QED
  BY <1>7, <1>8, <1>9, <1>10, <1>11 DEF Good

\* The answer goes out with its event in the log.
LEMMA GoodDelivered ==
    ASSUME NEW r, NEW sent, NEW log, Good(r, sent, log),
           r.pc = "record",
           NEW x, x = IF r.held = TRUE THEN "stream" ELSE "done",
           \E e \in log : e.action = final_action(r),
           NEW q, q = Merge(r, [pc |-> x, reply |-> "ok", ref |-> TRUE])
    PROVE  Good(q, sent, log)
<1> DEFINE u == [pc |-> x, reply |-> "ok", ref |-> TRUE]
<1>1. Base \subseteq DOMAIN r /\ r.pc # "free"
  BY DEF Good, Shape, Held, Early
<1>2. /\ DOMAIN u = {"pc", "reply", "ref"}
      /\ u.pc = x /\ u.reply = "ok" /\ u.ref = TRUE
  OBVIOUS
<1> HIDE DEF u
<1>3. q = Merge(r, u)
  BY DEF u
<1>4. q.pc = x /\ q.reply = "ok" /\ q.ref = TRUE
  BY <1>2, <1>3, Sets
<1>5. /\ Base \subseteq DOMAIN q
      /\ q.kind = r.kind /\ q.ctx = r.ctx /\ q.model = r.model /\ q.marks = r.marks /\ q.stream = r.stream
      /\ q.metered = r.metered /\ q.held = r.held /\ q.recorded = r.recorded
  BY <1>1, <1>2, <1>3, Kept
<1>5a. DOMAIN r \subseteq DOMAIN q /\ DOMAIN u \subseteq DOMAIN q
  BY <1>3 DEF Merge
<1>6. Sending(q, sent) /\ (sent # {} => q.dec = r.dec)
  <2>1. DOMAIN u \subseteq {"pc", "reply", "stream", "held", "recorded", "metered", "ref"}
    BY <1>2
  <2>2. /\ q.pc # "free" /\ q.pc \notin Held /\ (q.pc \in Gone => sent # {})
        /\ sent # {} => q.reply \notin {"403", "413"}
    BY <1>4, <1>5 DEF Good, Sending, Answered, Held, Early, Gone, Ending
  <2>3. QED
    BY <1>1, <1>3, <2>1, <2>2, SendingKept
<1>7. \E e \in log : e.action = IF q.dec.action = "warn" THEN "warn" ELSE "allow"
  <2>1. Passed(r)
    BY DEF Good, Sending, Gone
  <2>2. r.cfg \in Policies /\ r.dec.action \in {"allow", "deny", "warn", "route"}
    BY <1>1, <2>1, EvaluateAction DEF Good, Shape, Passed, Judged
  <2>3. final_action(r) = IF r.dec.action = "warn" THEN "warn" ELSE "allow"
    BY <2>1, <2>2 DEF Passed, final_action
  <2>4. sent # {}
    BY DEF Good, Sending, Gone
  <2>5. QED
    BY <1>6, <2>3, <2>4
<1>7a. "ref" \in DOMAIN q /\ sent # {}
  BY <1>2, <1>5a DEF Good, Sending, Gone
<1>7b. x = "stream" => r.stream = TRUE
  BY DEF Good, Billed
<1>8. Shape(q)
  BY <1>1, <1>4, <1>5, <1>5a, <1>6, <1>7, <1>7a DEF Good, Shape, Places, Base, Held, Early, Gone, Ending
<1>9. Progress(q)
  BY <1>1, <1>4, <1>5, <1>5a, <1>6, <1>7, <1>7a DEF Good, Progress, Held, Early, Gone, Ending
<1>10. Sending(q, sent)
  BY <1>6
<1>11. Answered(q, sent, log)
  BY <1>1, <1>7b, <1>4, <1>5, <1>5a, <1>6, <1>7, <1>7a DEF Good, Answered, Sending, Held, Early, Gone, Ending
<1>12. Billed(q, log)
  <2>1. \A e \in log : e.action # "usage"
    BY DEF Good, Billed
  <2>2. r.metered = (IF r.stream = TRUE THEN 0 ELSE 1) /\ r.stream \in BOOLEAN
    BY <1>1 DEF Good, Billed, Shape
  <2>3. r.held = r.stream /\ r.recorded = FALSE
    BY DEF Good, Billed
  <2>4. QED
    BY <1>4, <1>5, <2>1, <2>2, <2>3 DEF Billed, Held, Early, Gone, Ending
<1>13. QED
  BY <1>8, <1>9, <1>10, <1>11, <1>12 DEF Good

LEMMA GoodStreamEnds ==
    ASSUME NEW r, NEW sent, NEW log, Good(r, sent, log),
           r.pc = "stream",
           NEW q, q = Merge(r, [pc |-> "drained", recorded |-> TRUE])
    PROVE  Good(q, sent, log)
<1> DEFINE u == [pc |-> "drained", recorded |-> TRUE]
<1>1. Base \subseteq DOMAIN r /\ r.pc # "free"
  BY DEF Good, Shape, Held, Early
<1>2. /\ DOMAIN u = {"pc", "recorded"}
      /\ u.pc = "drained" /\ u.recorded = TRUE
  OBVIOUS
<1> HIDE DEF u
<1>3. q = Merge(r, u)
  BY DEF u
<1>4. q.pc = "drained" /\ q.recorded = TRUE
  BY <1>2, <1>3, Sets
<1>5. /\ Base \subseteq DOMAIN q
      /\ q.kind = r.kind /\ q.reply = r.reply /\ q.ctx = r.ctx /\ q.model = r.model /\ q.marks = r.marks
      /\ q.stream = r.stream /\ q.held = r.held /\ q.metered = r.metered
  BY <1>1, <1>2, <1>3, Kept
<1>5a. DOMAIN r \subseteq DOMAIN q /\ DOMAIN u \subseteq DOMAIN q
  BY <1>3 DEF Merge
<1>6. Sending(q, sent) /\ (sent # {} => q.dec = r.dec)
  <2>1. DOMAIN u \subseteq {"pc", "reply", "stream", "held", "recorded", "metered", "ref"}
    BY <1>2
  <2>2. /\ q.pc # "free" /\ q.pc \notin Held /\ (q.pc \in Gone => sent # {})
        /\ sent # {} => q.reply \notin {"403", "413"}
    BY <1>4, <1>5 DEF Good, Sending, Answered, Held, Early, Gone, Ending
  <2>3. QED
    BY <1>1, <1>3, <2>1, <2>2, SendingKept
<1>7. "ref" \in DOMAIN r /\ q.ref = r.ref
  <2>1. "ref" \in DOMAIN r
    BY DEF Good, Answered, Ending
  <2>2. QED
    BY <1>1, <1>2, <1>3, <2>1, Kept
<1>8. Shape(q)
  BY <1>1, <1>4, <1>5, <1>5a, <1>6, <1>7 DEF Good, Shape, Places, Base, Held, Early, Gone, Ending
<1>9. Progress(q)
  BY <1>1, <1>4, <1>5, <1>5a, <1>6, <1>7 DEF Good, Progress, Held, Early, Gone, Ending
<1>10. Sending(q, sent)
  BY <1>6
<1>11. Answered(q, sent, log)
  BY <1>1, <1>4, <1>5, <1>5a, <1>6, <1>7 DEF Good, Answered, Sending, Held, Early, Gone, Ending
<1>12. Billed(q, log)
  BY <1>1, <1>4, <1>5, <1>5a, <1>6, <1>7 DEF Good, Billed, Held, Early, Gone, Ending
<1>13. QED
  BY <1>8, <1>9, <1>10, <1>11, <1>12 DEF Good

LEMMA GoodDropped ==
    ASSUME NEW r, NEW sent, NEW log, Good(r, sent, log),
           r.pc = "stream",
           NEW q, q = Merge(r, [pc |-> "drained", recorded |-> TRUE, held |-> FALSE])
    PROVE  Good(q, sent, log)
<1> DEFINE u == [pc |-> "drained", recorded |-> TRUE, held |-> FALSE]
<1>1. Base \subseteq DOMAIN r /\ r.pc # "free"
  BY DEF Good, Shape, Held, Early
<1>2. /\ DOMAIN u = {"pc", "recorded", "held"}
      /\ u.pc = "drained" /\ u.recorded = TRUE /\ u.held = FALSE
  OBVIOUS
<1> HIDE DEF u
<1>3. q = Merge(r, u)
  BY DEF u
<1>4. q.pc = "drained" /\ q.recorded = TRUE /\ q.held = FALSE
  BY <1>2, <1>3, Sets
<1>5. /\ Base \subseteq DOMAIN q
      /\ q.kind = r.kind /\ q.reply = r.reply /\ q.ctx = r.ctx /\ q.model = r.model /\ q.marks = r.marks
      /\ q.stream = r.stream /\ q.metered = r.metered
  BY <1>1, <1>2, <1>3, Kept
<1>5a. DOMAIN r \subseteq DOMAIN q /\ DOMAIN u \subseteq DOMAIN q
  BY <1>3 DEF Merge
<1>6. Sending(q, sent) /\ (sent # {} => q.dec = r.dec)
  <2>1. DOMAIN u \subseteq {"pc", "reply", "stream", "held", "recorded", "metered", "ref"}
    BY <1>2
  <2>2. /\ q.pc # "free" /\ q.pc \notin Held /\ (q.pc \in Gone => sent # {})
        /\ sent # {} => q.reply \notin {"403", "413"}
    BY <1>4, <1>5 DEF Good, Sending, Answered, Held, Early, Gone, Ending
  <2>3. QED
    BY <1>1, <1>3, <2>1, <2>2, SendingKept
<1>7. "ref" \in DOMAIN r /\ q.ref = r.ref
  <2>1. "ref" \in DOMAIN r
    BY DEF Good, Answered, Ending
  <2>2. QED
    BY <1>1, <1>2, <1>3, <2>1, Kept
<1>8. Shape(q)
  BY <1>1, <1>4, <1>5, <1>5a, <1>6, <1>7 DEF Good, Shape, Places, Base, Held, Early, Gone, Ending
<1>9. Progress(q)
  BY <1>1, <1>4, <1>5, <1>5a, <1>6, <1>7 DEF Good, Progress, Held, Early, Gone, Ending
<1>10. Sending(q, sent)
  BY <1>6
<1>11. Answered(q, sent, log)
  BY <1>1, <1>4, <1>5, <1>5a, <1>6, <1>7 DEF Good, Answered, Sending, Held, Early, Gone, Ending
<1>12. Billed(q, log)
  BY <1>1, <1>4, <1>5, <1>5a, <1>6, <1>7 DEF Good, Billed, Held, Early, Gone, Ending
<1>13. QED
  BY <1>8, <1>9, <1>10, <1>11, <1>12 DEF Good

\* record() does nothing the second time.
LEMMA GoodLate ==
    ASSUME NEW r, NEW sent, NEW log, Good(r, sent, log),
           r.pc \in {"drained", "usage", "done"}, r.held = TRUE,
           NEW x, x = r.pc,
           NEW q, q = Merge(r, [pc |-> x, recorded |-> TRUE, held |-> FALSE])
    PROVE  Good(q, sent, log)
<1> DEFINE u == [pc |-> x, recorded |-> TRUE, held |-> FALSE]
<1>1. Base \subseteq DOMAIN r /\ r.pc # "free"
  BY DEF Good, Shape, Held, Early
<1>2. /\ DOMAIN u = {"pc", "recorded", "held"}
      /\ u.pc = x /\ u.recorded = TRUE /\ u.held = FALSE
  OBVIOUS
<1> HIDE DEF u
<1>3. q = Merge(r, u)
  BY DEF u
<1>4. q.pc = x /\ q.recorded = TRUE /\ q.held = FALSE
  BY <1>2, <1>3, Sets
<1>5. /\ Base \subseteq DOMAIN q
      /\ q.kind = r.kind /\ q.reply = r.reply /\ q.ctx = r.ctx /\ q.model = r.model /\ q.marks = r.marks
      /\ q.stream = r.stream /\ q.metered = r.metered
  BY <1>1, <1>2, <1>3, Kept
<1>5a. DOMAIN r \subseteq DOMAIN q /\ DOMAIN u \subseteq DOMAIN q
  BY <1>3 DEF Merge
<1>6. Sending(q, sent) /\ (sent # {} => q.dec = r.dec)
  <2>1. DOMAIN u \subseteq {"pc", "reply", "stream", "held", "recorded", "metered", "ref"}
    BY <1>2
  <2>2. /\ q.pc # "free" /\ q.pc \notin Held /\ (q.pc \in Gone => sent # {})
        /\ sent # {} => q.reply \notin {"403", "413"}
    BY <1>4, <1>5 DEF Good, Sending, Answered, Held, Early, Gone, Ending
  <2>3. QED
    BY <1>1, <1>3, <2>1, <2>2, SendingKept
<1>7. "ref" \in DOMAIN r => q.ref = r.ref
  BY <1>1, <1>2, <1>3, Kept
<1>8. Shape(q)
  BY <1>1, <1>4, <1>5, <1>5a, <1>6, <1>7 DEF Good, Shape, Places, Base, Held, Early, Gone, Ending
<1>9. Progress(q)
  BY <1>1, <1>4, <1>5, <1>5a, <1>6, <1>7 DEF Good, Progress, Held, Early, Gone, Ending
<1>10. Sending(q, sent)
  BY <1>6
<1>11. Answered(q, sent, log)
  BY <1>1, <1>4, <1>5, <1>5a, <1>6, <1>7, ZenonT(40) DEF Good, Answered, Sending, Held, Early, Gone, Ending
<1>12. Billed(q, log)
  BY <1>1, <1>4, <1>5, <1>5a, <1>6, <1>7 DEF Good, Billed, Held, Early, Gone, Ending
<1>13. QED
  BY <1>8, <1>9, <1>10, <1>11, <1>12 DEF Good

LEMMA GoodSettle ==
    ASSUME NEW r, NEW sent, NEW log, Good(r, sent, log),
           r.pc = "drained",
           NEW q, q = Merge(r, [pc |-> "usage", metered |-> r.metered + 1])
    PROVE  Good(q, sent, log)
<1> DEFINE u == [pc |-> "usage", metered |-> r.metered + 1]
<1>1. Base \subseteq DOMAIN r /\ r.pc # "free"
  BY DEF Good, Shape, Held, Early
<1>2. /\ DOMAIN u = {"pc", "metered"}
      /\ u.pc = "usage" /\ u.metered = r.metered + 1
  OBVIOUS
<1> HIDE DEF u
<1>3. q = Merge(r, u)
  BY DEF u
<1>4. q.pc = "usage" /\ q.metered = r.metered + 1
  BY <1>2, <1>3, Sets
<1>5. /\ Base \subseteq DOMAIN q
      /\ q.kind = r.kind /\ q.reply = r.reply /\ q.ctx = r.ctx /\ q.model = r.model /\ q.marks = r.marks
      /\ q.stream = r.stream /\ q.held = r.held /\ q.recorded = r.recorded
  BY <1>1, <1>2, <1>3, Kept
<1>5a. DOMAIN r \subseteq DOMAIN q /\ DOMAIN u \subseteq DOMAIN q
  BY <1>3 DEF Merge
<1>6. Sending(q, sent) /\ (sent # {} => q.dec = r.dec)
  <2>1. DOMAIN u \subseteq {"pc", "reply", "stream", "held", "recorded", "metered", "ref"}
    BY <1>2
  <2>2. /\ q.pc # "free" /\ q.pc \notin Held /\ (q.pc \in Gone => sent # {})
        /\ sent # {} => q.reply \notin {"403", "413"}
    BY <1>4, <1>5 DEF Good, Sending, Answered, Held, Early, Gone, Ending
  <2>3. QED
    BY <1>1, <1>3, <2>1, <2>2, SendingKept
<1>7. "ref" \in DOMAIN r /\ q.ref = r.ref
  <2>1. "ref" \in DOMAIN r
    BY DEF Good, Answered, Ending
  <2>2. QED
    BY <1>1, <1>2, <1>3, <2>1, Kept
<1>8. Shape(q)
  BY <1>1, <1>4, <1>5, <1>5a, <1>6, <1>7 DEF Good, Shape, Places, Base, Held, Early, Gone, Ending
<1>9. Progress(q)
  BY <1>1, <1>4, <1>5, <1>5a, <1>6, <1>7 DEF Good, Progress, Held, Early, Gone, Ending
<1>10. Sending(q, sent)
  BY <1>6
<1>11. Answered(q, sent, log)
  BY <1>1, <1>4, <1>5, <1>5a, <1>6, <1>7 DEF Good, Answered, Sending, Held, Early, Gone, Ending
<1>12. Billed(q, log)
  BY <1>1, <1>4, <1>5, <1>5a, <1>6, <1>7 DEF Good, Billed, Held, Early, Gone, Ending
<1>13. QED
  BY <1>8, <1>9, <1>10, <1>11, <1>12 DEF Good

LEMMA GoodUsage ==
    ASSUME NEW r, NEW sent, NEW log, Good(r, sent, log),
           r.pc = "usage",
           NEW q, q = Merge(r, [pc |-> "done"])
    PROVE  Good(q, sent, log)
<1> DEFINE u == [pc |-> "done"]
<1>1. Base \subseteq DOMAIN r /\ r.pc # "free"
  BY DEF Good, Shape, Held, Early
<1>2. /\ DOMAIN u = {"pc"}
      /\ u.pc = "done"
  OBVIOUS
<1> HIDE DEF u
<1>3. q = Merge(r, u)
  BY DEF u
<1>4. q.pc = "done"
  BY <1>2, <1>3, Sets
<1>5. /\ Base \subseteq DOMAIN q
      /\ q.kind = r.kind /\ q.reply = r.reply /\ q.ctx = r.ctx /\ q.model = r.model /\ q.marks = r.marks
      /\ q.stream = r.stream /\ q.metered = r.metered /\ q.held = r.held /\ q.recorded = r.recorded
  BY <1>1, <1>2, <1>3, Kept
<1>5a. DOMAIN r \subseteq DOMAIN q /\ DOMAIN u \subseteq DOMAIN q
  BY <1>3 DEF Merge
<1>6. Sending(q, sent) /\ (sent # {} => q.dec = r.dec)
  <2>1. DOMAIN u \subseteq {"pc", "reply", "stream", "held", "recorded", "metered", "ref"}
    BY <1>2
  <2>2. /\ q.pc # "free" /\ q.pc \notin Held /\ (q.pc \in Gone => sent # {})
        /\ sent # {} => q.reply \notin {"403", "413"}
    BY <1>4, <1>5 DEF Good, Sending, Answered, Held, Early, Gone, Ending
  <2>3. QED
    BY <1>1, <1>3, <2>1, <2>2, SendingKept
<1>7. Shape(q)
  BY <1>1, <1>4, <1>5, <1>5a, <1>6 DEF Good, Shape, Places, Base, Held, Early, Gone, Ending
<1>8. Progress(q)
  BY <1>1, <1>4, <1>5, <1>5a, <1>6 DEF Good, Progress, Held, Early, Gone, Ending
<1>9. Sending(q, sent)
  BY <1>6
<1>10. Answered(q, sent, log)
  BY <1>1, <1>4, <1>5, <1>5a, <1>6 DEF Good, Answered, Sending, Held, Early, Gone, Ending
<1>11. Billed(q, log)
  BY <1>1, <1>4, <1>5, <1>5a, <1>6 DEF Good, Billed, Held, Early, Gone, Ending
<1>12. QED
  BY <1>7, <1>8, <1>9, <1>10, <1>11 DEF Good

-----------------------------------------------------------------------------
(***************************************************************************)
(* The log and the wire of a request.                                      *)
(***************************************************************************)
LEMMA GoodLog ==
    ASSUME NEW r, NEW sent, NEW log, Good(r, sent, log), r.pc # "free",
           NEW more, \A e \in more : e.action # "usage"
    PROVE  Good(r, sent, log \cup more)
<1>1. Answered(r, sent, log \cup more)
  BY DEF Good, Answered
<1>2. Billed(r, log \cup more)
  BY DEF Good, Billed
<1>3. QED
  BY <1>1, <1>2 DEF Good

LEMMA GoodUsageLog ==
    ASSUME NEW r, NEW sent, NEW log, Good(r, sent, log), r.pc = "done",
           NEW more, \A e \in more : \/ e.ref = TRUE /\ r.reply = "ok"
                                     \/ e.ref = FALSE /\ r.reply \in {"503", "gone"}
    PROVE  Good(r, sent, log \cup more)
<1>1. Answered(r, sent, log \cup more)
  BY DEF Good, Answered
<1>2. Billed(r, log \cup more)
  BY DEF Good, Billed
<1>3. QED
  BY <1>1, <1>2 DEF Good

\* The verdict is where a request begins to be on the wire.
LEMMA GoodForward ==
    ASSUME NEW r, NEW sent, NEW log, Good(r, sent, log), r.pc = "verdict", final_action(r) # "deny",
           NEW w, w.ctx = r.ctx /\ w.model = r.model /\ w.tls = r.kind.tls,
           NEW q, q = Merge(r, [pc |-> "sent"])
    PROVE  Good(q, sent \cup {w}, log)
<1> DEFINE u == [pc |-> "sent"]
<1>1. Base \subseteq DOMAIN r /\ r.pc # "free"
  BY DEF Good, Shape
<1>2. DOMAIN u = {"pc"} /\ u.pc = "sent"
  OBVIOUS
<1> HIDE DEF u
<1>3. q = Merge(r, u)
  BY DEF u
<1>4. q.pc = "sent"
  BY <1>2, <1>3, Sets
<1>5. /\ Base \subseteq DOMAIN q
      /\ q.kind = r.kind /\ q.reply = r.reply /\ q.ctx = r.ctx /\ q.model = r.model /\ q.marks = r.marks
      /\ q.stream = r.stream /\ q.metered = r.metered /\ q.held = r.held /\ q.recorded = r.recorded
  BY <1>1, <1>2, <1>3, Kept
<1>5a. DOMAIN r \subseteq DOMAIN q
  BY <1>3 DEF Merge
<1>6. Passed(r)
  BY DEF Good, Progress, Passed, Held, Early
<1>7. Passed(q)
  <2>1. /\ q.dec = r.dec /\ q.cfg = r.cfg /\ q.tripwires = r.tripwires /\ q.modes = r.modes
        /\ q.over_budget = r.over_budget /\ q.spend_block = r.spend_block /\ q.truncated = r.truncated
    BY <1>1, <1>2, <1>3, <1>6, Kept DEF Passed, Judged, Checked, Watched, Scanned
  <2>2. QED
    BY <1>5, <1>5a, <1>6, <2>1, KeptPassed
<1>8. Shape(q) /\ Progress(q)
  BY <1>1, <1>4, <1>5, <1>5a DEF Good, Shape, Progress, Places, Held, Early, Gone, Ending
<1>9. sent = {} /\ r.reply = "none"
  BY DEF Good, Sending, Answered, Held, Early, Gone, Ending
<1>10. Sending(q, sent \cup {w})
  BY <1>4, <1>5, <1>7, <1>9 DEF Sending, Held, Early, Gone, Ending
<1>11. Answered(q, sent \cup {w}, log)
  BY <1>4, <1>5, <1>9 DEF Answered, Held, Early, Gone, Ending
<1>12. Billed(q, log)
  BY <1>1, <1>4, <1>5 DEF Good, Billed, Held, Early, Gone, Ending
<1>13. QED
  BY <1>8, <1>10, <1>11, <1>12 DEF Good

\* A request that arrives.
LEMMA GoodArrive ==
    ASSUME NEW kind \in Kinds,
           NEW q, q = [pc |-> "refresh", kind |-> kind, reply |-> "none",
                       ctx |-> kind.ctx, model |-> kind.model, marks |-> {},
                       stream |-> FALSE, held |-> FALSE, recorded |-> FALSE,
                       metered |-> 0]
    PROVE  Good(q, {}, {})
<1>1. /\ DOMAIN q = Base
      /\ q.pc = "refresh" /\ q.kind = kind /\ q.reply = "none" /\ q.ctx = kind.ctx
      /\ q.model = kind.model /\ q.marks = {} /\ q.stream = FALSE /\ q.metered = 0
      /\ q.held = FALSE /\ q.recorded = FALSE
  BY DEF Base
<1>2. Shape(q) /\ Progress(q)
  BY <1>1 DEF Shape, Progress, Places, Held, Early, Gone, Ending
<1>3. Sending(q, {}) /\ Answered(q, {}, {}) /\ Billed(q, {})
  BY <1>1 DEF Sending, Answered, Billed, Held, Early, Gone, Ending
<1>4. QED
  BY <1>2, <1>3 DEF Good

LEMMA GoodFree == Good(Free, {}, {})
<1>1. Free.pc = "free" /\ "pc" \in DOMAIN Free
  BY DEF Free
<1>2. QED
  BY <1>1 DEF Good, Shape, Progress, Sending, Answered, Billed, Places, Held, Early, Gone, Ending
-----------------------------------------------------------------------------
(***************************************************************************)
(* A step of slot s touches the request, the log and the wire of s alone.  *)
(***************************************************************************)
Moved(s, u, more, out) ==
    /\ req[s].pc # "free" /\ Step(s, u)
    /\ events' = events \cup more /\ \A e \in more : e.slot = s
    /\ wire' = wire \cup out /\ \A w \in out : w.slot = s
    /\ Good(Merge(req[s], u), Sent(s) \cup out, LogOf(s) \cup more)

LEMMA Moves ==
    ASSUME PipeInv, NEW s \in Slots, NEW u, NEW more, NEW out, Moved(s, u, more, out)
    PROVE  SlotsInv' /\ EventInv'
<1>1. /\ req' = [x \in Slots |-> req'[x]]
      /\ req'[s] = Merge(req[s], u)
      /\ \A x \in Slots \ {s} : req'[x] = req[x]
  BY StepMerges DEF Moved, PipeInv, SlotsInv
<1>2. /\ Sent(s)' = Sent(s) \cup out
      /\ LogOf(s)' = LogOf(s) \cup more
      /\ \A x \in Slots \ {s} : Sent(x)' = Sent(x) /\ LogOf(x)' = LogOf(x)
  BY DEF Moved, Sent, LogOf
<1>3. SlotsInv'
  <2>1. \A x \in Slots : Good(req'[x], Sent(x)', LogOf(x)')
    BY <1>1, <1>2 DEF Moved, PipeInv, SlotsInv
  <2>2. QED
    BY <1>1, <2>1 DEF SlotsInv
<1>4. EventInv'
  BY DEF Moved, PipeInv, EventInv
<1>5. QED
  BY <1>3, <1>4

\* Once it is decided, what a request does leaves the policies alone.
Decided(s) == req[s].pc \notin Deciding \cup {"free"}

LEMMA RulesKept ==
    ASSUME PolicyInv, NEW s \in Slots, Decided(s), ~Undecided(s)', UNCHANGED rules,
           \A x \in Slots \ {s} : req'[x] = req[x],
           "cfg" \in DOMAIN req'[s] => "cfg" \in DOMAIN req[s] /\ req'[s].cfg = req[s].cfg
    PROVE  PolicyInv'
<1>1. UNCHANGED <<file, changed, policy, current>>
  BY DEF rules
<1>2. ~Undecided(s) /\ ~Undecided(s)'
  BY DEF Decided, Undecided, Deciding
<1>3. ~At(s, "reload") /\ ~At(s, "reload")' /\ ~At(s, "decide")'
  BY <1>2 DEF At, Undecided
<1>4. PassedOver' <=> PassedOver
  <2>1. (\E x \in Slots : At(x, "reload") /\ req[x].read \in Policies)'
           <=> \E x \in Slots : At(x, "reload") /\ req[x].read \in Policies
    BY <1>3 DEF At
  <2>2. QED
    BY <1>1, <2>1 DEF PassedOver
<1>5. Holding' = Holding
  BY <1>1, <1>4 DEF Holding, When
<1>6. /\ policy' \in Policies /\ file' \in Policies \cup {Rejected}
      /\ current' = [x \in Slots |-> current'[x]]
  BY <1>1 DEF PolicyInv
<1>7. \A x, t \in Slots : At(x, "reload")' /\ At(t, "reload")' => x = t
  BY <1>3 DEF PolicyInv, At
<1>8. \A x \in Slots : Undecided(x)' => Holding' \subseteq current'[x]
  BY <1>1, <1>2, <1>5 DEF PolicyInv, Undecided
<1>9. \A x \in Slots : At(x, "decide")' => policy' \in current'[x]
  BY <1>1, <1>3 DEF PolicyInv, At
<1>10. \A x \in Slots : At(x, "reload")' =>
          /\ req'[x].read \in Policies \cup {Rejected}
          /\ req'[x].read \in Policies =>
                \A t \in Slots : At(t, "decide")' \/ At(t, "reload")' => req'[x].read \in current'[t]
          /\ req'[x].read = Rejected => policy' \in current'[x]
  BY <1>1, <1>3 DEF PolicyInv, At
<1>11. \A x \in Slots : "cfg" \in DOMAIN req'[x] => ~Undecided(x)' /\ req'[x].cfg \in current'[x]
  BY <1>1, <1>2 DEF PolicyInv, Undecided
<1>12. QED
  BY <1>6, <1>7, <1>8, <1>9, <1>10, <1>11 DEF PolicyInv

\* A decided request moves on.
LEMMA MovesOn ==
    ASSUME PipeInv, NEW s \in Slots, NEW u, NEW more, NEW out, Moved(s, u, more, out),
           Decided(s), "pc" \in DOMAIN u, "cfg" \notin DOMAIN u, u.pc \notin Deciding,
           UNCHANGED rules
    PROVE  PipeInv'
<1>1. /\ req'[s] = Merge(req[s], u)
      /\ \A x \in Slots \ {s} : req'[x] = req[x]
  BY StepMerges DEF Moved, PipeInv, SlotsInv
<1>2. ~Undecided(s)'
  BY <1>1, Sets DEF Undecided, Deciding
<1>3. "cfg" \in DOMAIN req'[s] => "cfg" \in DOMAIN req[s] /\ req'[s].cfg = req[s].cfg
  BY <1>1 DEF Merge
<1>4. QED
  BY <1>1, <1>2, <1>3, Moves, RulesKept DEF PipeInv

\* Most steps leave the wire alone.
Served(s, u, more) ==
    /\ Decided(s) /\ Step(s, u) /\ "cfg" \notin DOMAIN u /\ "pc" \in DOMAIN u
    /\ u.pc \notin Deciding /\ UNCHANGED <<rules, wire>>
    /\ events' = events \cup more /\ \A e \in more : e.slot = s
    /\ Good(Merge(req[s], u), Sent(s), LogOf(s) \cup more)

LEMMA Serves ==
    ASSUME PipeInv, NEW s \in Slots, NEW u, NEW more, Served(s, u, more)
    PROVE  PipeInv'
<1>1. wire' = wire \cup {} /\ Sent(s) \cup {} = Sent(s)
  BY DEF Served
<1>2. req[s].pc # "free"
  BY DEF Served, Decided
<1>3. Moved(s, u, more, {})
  BY <1>1, <1>2 DEF Served, Moved
<1>4. QED
  BY <1>3, MovesOn DEF Served

\* ... and many the log too.
LEMMA ServesUnlogged ==
    ASSUME PipeInv, NEW s \in Slots, Decided(s), NEW u, Step(s, u),
           "cfg" \notin DOMAIN u, "pc" \in DOMAIN u, u.pc \notin Deciding,
           UNCHANGED <<rules, wire, events>>,
           Good(Merge(req[s], u), Sent(s), LogOf(s))
    PROVE  PipeInv'
<1>1. events' = events \cup {} /\ LogOf(s) \cup {} = LogOf(s)
  OBVIOUS
<1>2. Served(s, u, {})
  BY <1>1 DEF Served
<1>3. QED
  BY <1>2, Serves

\* What audit() writes is what it was given, or part of it.
LEMMA AuditWrites ==
    ASSUME NEW evs, Audit(evs)
    PROVE  \E kept \in SUBSET evs : events' = events \cup kept
BY DEF Audit

LEMMA SlotGood ==
    ASSUME PipeInv, NEW s \in Slots
    PROVE  Good(req[s], Sent(s), LogOf(s))
BY DEF PipeInv, SlotsInv

\* What the ghost holds after a step that remembers.
LEMMA Remembers ==
    ASSUME Remember
    PROVE  /\ current' = [s \in Slots |-> current'[s]]
           /\ \A s \in Slots : Undecided(s)' => Holding' \subseteq current'[s]
           /\ \A s \in Slots : Undecided(s)' /\ Undecided(s) => current[s] \subseteq current'[s]
           /\ \A s \in Slots : ~Undecided(s)' /\ ~Undecided(s) => current'[s] = current[s]
<1> DEFINE seen(s) == CASE Undecided(s)' /\ Undecided(s)   -> current[s] \cup Holding'
                        [] Undecided(s)' /\ ~Undecided(s)  -> Holding'
                        [] ~Undecided(s)' /\ Undecided(s)  -> {}
                        [] ~Undecided(s)' /\ ~Undecided(s) -> current[s]
<1>1. current' = [s \in Slots |-> seen(s)]
  BY DEF Remember
<1>2. ASSUME NEW s \in Slots
      PROVE  /\ Undecided(s)' => Holding' \subseteq seen(s)
             /\ Undecided(s)' /\ Undecided(s) => current[s] \subseteq seen(s)
             /\ ~Undecided(s)' /\ ~Undecided(s) => seen(s) = current[s]
  OBVIOUS
<1> HIDE DEF seen
<1>3. \A s \in Slots : current'[s] = seen(s)
  BY <1>1
<1>4. QED
  BY <1>1, <1>2, <1>3

\* What such a step has to keep.
LEMMA RulesFollow ==
    ASSUME PolicyInv, Remember, policy' \in Policies, file' \in Policies \cup {Rejected},
           \A s, t \in Slots : At(s, "reload")' /\ At(t, "reload")' => s = t,
           \A s \in Slots : At(s, "decide")' => policy' \in current'[s],
           \A s \in Slots : At(s, "reload")' =>
              /\ req'[s].read \in Policies \cup {Rejected}
              /\ req'[s].read \in Policies =>
                    \A t \in Slots : At(t, "decide")' \/ At(t, "reload")' => req'[s].read \in current'[t]
              /\ req'[s].read = Rejected => policy' \in current'[s],
           \A s \in Slots : "cfg" \in DOMAIN req'[s] =>
              "cfg" \in DOMAIN req[s] /\ req'[s].cfg = req[s].cfg /\ ~Undecided(s)'
    PROVE  PolicyInv'
<1>1. /\ current' = [s \in Slots |-> current'[s]]
      /\ \A s \in Slots : Undecided(s)' => Holding' \subseteq current'[s]
      /\ \A s \in Slots : ~Undecided(s)' /\ ~Undecided(s) => current'[s] = current[s]
  BY Remembers
<1>2. \A s \in Slots : "cfg" \in DOMAIN req'[s] => ~Undecided(s)' /\ req'[s].cfg \in current'[s]
  BY <1>1 DEF PolicyInv
<1>3. QED
  BY <1>1, <1>2 DEF PolicyInv

\* ... which it does when it loads nothing and adds nobody who decides.
LEMMA ReloadsKept ==
    ASSUME PolicyInv, Remember, file' \in Policies \cup {Rejected}, policy' = policy,
           \A x \in Slots : (At(x, "reload") \/ At(x, "decide"))' =>
              req'[x] = req[x] /\ current[x] \subseteq current'[x],
           \A x \in Slots : "cfg" \in DOMAIN req'[x] =>
              "cfg" \in DOMAIN req[x] /\ req'[x].cfg = req[x].cfg /\ ~Undecided(x)'
    PROVE  PolicyInv'
<1>1. /\ \A x \in Slots : At(x, "reload")' => At(x, "reload") /\ req'[x] = req[x]
                                                /\ current[x] \subseteq current'[x]
      /\ \A x \in Slots : At(x, "decide")' => At(x, "decide") /\ current[x] \subseteq current'[x]
  BY DEF At
<1>2. \A x, t \in Slots : At(x, "reload")' /\ At(t, "reload")' => x = t
  BY <1>1 DEF PolicyInv
<1>3. \A x \in Slots : At(x, "decide")' => policy' \in current'[x]
  BY <1>1 DEF PolicyInv
<1>4. ASSUME NEW x \in Slots, At(x, "reload")'
      PROVE  /\ req'[x].read \in Policies \cup {Rejected}
             /\ req'[x].read \in Policies =>
                   \A t \in Slots : At(t, "decide")' \/ At(t, "reload")' => req'[x].read \in current'[t]
             /\ req'[x].read = Rejected => policy' \in current'[x]
  <2>1. req'[x].read = req[x].read /\ At(x, "reload")
    BY <1>1, <1>4
  <2>2. /\ req[x].read \in Policies \cup {Rejected}
        /\ req[x].read \in Policies =>
              \A t \in Slots : At(t, "decide") \/ At(t, "reload") => req[x].read \in current[t]
        /\ req[x].read = Rejected => policy \in current[x]
    BY <2>1 DEF PolicyInv
  <2>3. QED
    BY <1>1, <1>4, <2>1, <2>2
<1>5. policy' \in Policies
  BY DEF PolicyInv
<1>6. QED
  BY <1>2, <1>3, <1>4, <1>5, RulesFollow

-----------------------------------------------------------------------------
(***************************************************************************)
(* One lemma per action.                                                   *)
(***************************************************************************)
\* The policy that a refresh finds in force, or is going to load, holds.
LEMMA RefreshStep ==
    ASSUME PipeInv, NEW s \in Slots, Refresh(s)
    PROVE  PipeInv'
<1>1. /\ req[s].pc = "refresh" /\ changed' = FALSE /\ Remember
      /\ file' = file /\ policy' = policy /\ events' = events /\ wire' = wire
      /\ \A x \in Slots : ~At(x, "reload")
  BY DEF Refresh, At, Reloading
<1>2. /\ policy \in Policies /\ file \in Policies \cup {Rejected} /\ Rejected \notin Policies
      /\ PolicyInv
  BY EditsAssumption DEF PipeInv, PolicyInv
<1>3. /\ \A x \in Slots : Undecided(x)' => Holding' \subseteq current'[x]
      /\ \A x \in Slots : Undecided(x)' /\ Undecided(x) => current[x] \subseteq current'[x]
  BY <1>1, Remembers
<1>4. "cfg" \notin DOMAIN req[s]
  BY <1>1, <1>2 DEF PolicyInv, Undecided
<1>5. ASSUME NEW u, Step(s, u), {"pc"} \subseteq DOMAIN u, DOMAIN u \subseteq {"pc", "read"},
             u.pc \in {"reload", "decide"}
      PROVE  /\ SlotsInv' /\ EventInv'
             /\ req'[s].pc = u.pc /\ "cfg" \notin DOMAIN req'[s]
             /\ "read" \in DOMAIN u => req'[s].read = u.read
             /\ \A x \in Slots \ {s} : req'[x] = req[x]
  <2>1. Good(Merge(req[s], u), Sent(s), LogOf(s))
    BY <1>1, <1>5, SlotGood, GoodRefresh
  <2>2. /\ events' = events \cup {} /\ wire' = wire \cup {}
        /\ Sent(s) \cup {} = Sent(s) /\ LogOf(s) \cup {} = LogOf(s)
    BY <1>1
  <2>3. Moved(s, u, {}, {})
    BY <1>1, <1>5, <2>1, <2>2 DEF Moved
  <2>4. req'[s] = Merge(req[s], u) /\ \A x \in Slots \ {s} : req'[x] = req[x]
    BY <1>5, StepMerges DEF PipeInv, SlotsInv
  <2>5. "cfg" \notin DOMAIN req'[s] /\ req'[s].pc = u.pc
    BY <1>4, <1>5, <2>4 DEF Merge
  <2>6. "read" \in DOMAIN u => req'[s].read = u.read
    BY <2>4 DEF Merge
  <2>7. QED
    BY <2>3, <2>4, <2>5, <2>6, Moves
<1>6. CASE changed
  <2> DEFINE u == [pc |-> "reload", read |-> file]
  <2>1. Step(s, u)
    BY <1>6 DEF Refresh
  <2>2. DOMAIN u = {"pc", "read"} /\ u.pc = "reload" /\ u.read = file
    OBVIOUS
  <2> HIDE DEF u
  <2>3. /\ SlotsInv' /\ EventInv' /\ req'[s].pc = "reload" /\ req'[s].read = file
        /\ "cfg" \notin DOMAIN req'[s] /\ \A x \in Slots \ {s} : req'[x] = req[x]
    BY <1>5, <2>1, <2>2
  <2>4. \A x \in Slots : At(x, "reload")' => x = s
    BY <1>1, <2>3 DEF At
  <2>5. \A x \in Slots : At(x, "decide")' => x # s /\ At(x, "decide") /\ Undecided(x) /\ Undecided(x)'
    BY <2>3 DEF At, Undecided
  <2>6. \A x \in Slots : At(x, "decide")' => policy' \in current'[x]
    BY <1>1, <1>2, <1>3, <2>5 DEF PolicyInv
  <2>7. file \in Policies => \A x \in Slots : Undecided(x)' => file \in current'[x]
    BY <1>1, <1>3 DEF Holding
  <2>8. file = Rejected => policy \in current'[s]
    <3>1. SUFFICES ASSUME file = Rejected PROVE policy \in current'[s]
      OBVIOUS
    <3>2. PassedOver'
      BY <1>1, <1>2, <2>3, <2>4, <3>1 DEF PassedOver
    <3>3. policy \in Holding'
      BY <1>1, <3>2 DEF Holding, When
    <3>4. QED
      BY <1>3, <2>3, <3>3 DEF Undecided
  <2>9. \A x \in Slots : At(x, "reload")' =>
           /\ req'[x].read \in Policies \cup {Rejected}
           /\ req'[x].read \in Policies =>
                 \A t \in Slots : At(t, "decide")' \/ At(t, "reload")' => req'[x].read \in current'[t]
           /\ req'[x].read = Rejected => policy' \in current'[x]
    <3>1. \A t \in Slots : At(t, "decide")' \/ At(t, "reload")' => Undecided(t)'
      BY DEF At, Undecided
    <3>2. QED
      BY <1>1, <1>2, <2>3, <2>4, <2>7, <2>8, <3>1
  <2>10. \A x \in Slots : "cfg" \in DOMAIN req'[x] =>
            "cfg" \in DOMAIN req[x] /\ req'[x].cfg = req[x].cfg /\ ~Undecided(x)'
    BY <1>2, <2>3 DEF PolicyInv, Undecided
  <2>11. PolicyInv'
    BY <1>1, <1>2, <2>4, <2>6, <2>9, <2>10, RulesFollow
  <2>12. QED
    BY <2>3, <2>11 DEF PipeInv
<1>7. CASE ~changed
  <2> DEFINE u == [pc |-> "decide"]
  <2>1. Step(s, u)
    BY <1>7 DEF Refresh
  <2>2. DOMAIN u = {"pc"} /\ u.pc = "decide"
    OBVIOUS
  <2> HIDE DEF u
  <2>3. /\ SlotsInv' /\ EventInv' /\ req'[s].pc = "decide"
        /\ "cfg" \notin DOMAIN req'[s] /\ \A x \in Slots \ {s} : req'[x] = req[x]
    BY <1>5, <2>1, <2>2
  <2>4. \A x \in Slots : ~At(x, "reload")'
    BY <1>1, <2>3 DEF At
  <2>5. policy \in Holding'
    <3>1. CASE policy = file
      BY <1>1, <1>2, <3>1 DEF Holding
    <3>2. CASE policy # file
      <4>1. PassedOver'
        BY <1>1, <2>4, <3>2 DEF PassedOver
      <4>2. QED
        BY <1>1, <4>1 DEF Holding, When
    <3>3. QED
      BY <3>1, <3>2
  <2>6. \A x \in Slots : At(x, "decide")' => policy' \in current'[x]
    <3>1. \A x \in Slots : At(x, "decide")' => Undecided(x)'
      BY DEF At, Undecided
    <3>2. QED
      BY <1>1, <1>3, <2>5, <3>1
  <2>7. \A x \in Slots : "cfg" \in DOMAIN req'[x] =>
            "cfg" \in DOMAIN req[x] /\ req'[x].cfg = req[x].cfg /\ ~Undecided(x)'
    BY <1>2, <2>3 DEF PolicyInv, Undecided
  <2>8. PolicyInv'
    BY <1>1, <1>2, <2>4, <2>6, <2>7, RulesFollow
  <2>9. QED
    BY <2>3, <2>8 DEF PipeInv
<1>8. QED
  BY <1>6, <1>7

\* What is loaded was seen by every request that may decide by it.
LEMMA ReloadStep ==
    ASSUME PipeInv, NEW s \in Slots, Reload(s)
    PROVE  PipeInv'
<1> DEFINE u == [pc |-> "decide"]
<1>1. /\ req[s].pc = "reload" /\ Step(s, u) /\ Remember /\ file' = file /\ wire' = wire
      /\ \/ req[s].read \in Policies /\ policy' = req[s].read /\ events' = events
         \/ req[s].read = Rejected /\ policy' = policy /\ Audit({Event(s, "tamper")})
  BY DEF Reload, At
<1>2. PolicyInv
  BY DEF PipeInv
<1>3. PICK kept \in SUBSET {Event(s, "tamper")} : events' = events \cup kept
  <2>1. CASE Audit({Event(s, "tamper")})
    BY <2>1, AuditWrites
  <2>2. CASE events' = events
    <3>1. {} \in SUBSET {Event(s, "tamper")} /\ events' = events \cup {}
      BY <2>2
    <3>2. QED
      BY <3>1
  <2>3. QED
    BY <1>1, <2>1, <2>2
<1>4. \A e \in kept : e.slot = s /\ e.action # "usage"
  BY DEF Event
<1>5. DOMAIN u = {"pc"} /\ u.pc = "decide"
  OBVIOUS
<1> HIDE DEF u
<1>6. /\ req'[s] = Merge(req[s], u)
      /\ \A x \in Slots \ {s} : req'[x] = req[x]
  BY <1>1, StepMerges DEF PipeInv, SlotsInv
<1>7. req'[s].pc = "decide"
  BY <1>5, <1>6, Sets
<1>8. SlotsInv' /\ EventInv'
  <2>1. Good(Merge(req[s], u), Sent(s), LogOf(s))
    BY <1>1, <1>5, SlotGood, GoodRefresh
  <2>2. Good(Merge(req[s], u), Sent(s), LogOf(s) \cup kept)
    BY <1>4, <1>6, <1>7, <2>1, GoodLog
  <2>3. wire' = wire \cup {} /\ Sent(s) \cup {} = Sent(s)
    BY <1>1
  <2>4. Moved(s, u, kept, {})
    BY <1>1, <1>3, <1>4, <2>2, <2>3 DEF Moved
  <2>5. QED
    BY <2>4, Moves
<1>9. \A x \in Slots : Undecided(x)' /\ Undecided(x) => current[x] \subseteq current'[x]
  BY <1>1, Remembers
<1>10. \A x \in Slots : ~At(x, "reload")'
  BY <1>1, <1>2, <1>6, <1>7 DEF PolicyInv, At
<1>11. policy' \in Policies /\ file' \in Policies \cup {Rejected}
  BY <1>1, <1>2 DEF PolicyInv
<1>12. ASSUME NEW x \in Slots, At(x, "decide")' PROVE policy' \in current'[x]
  <2>1. At(x, "decide") \/ x = s
    BY <1>6, <1>12 DEF At
  <2>2. Undecided(x) /\ Undecided(x)'
    BY <1>1, <1>12, <2>1 DEF At, Undecided
  <2>3. At(s, "reload")
    BY <1>1 DEF At
  <2>4. policy' \in current[x]
    BY <1>1, <1>2, <2>1, <2>3 DEF PolicyInv
  <2>5. QED
    BY <1>9, <2>2, <2>4
<1>13. \A x \in Slots : "cfg" \in DOMAIN req'[x] =>
          "cfg" \in DOMAIN req[x] /\ req'[x].cfg = req[x].cfg /\ ~Undecided(x)'
  <2>1. "cfg" \notin DOMAIN req'[s]
    BY <1>1, <1>2, <1>5, <1>6 DEF PolicyInv, Undecided, Merge
  <2>2. QED
    BY <1>2, <1>6, <2>1 DEF PolicyInv, Undecided
<1>14. PolicyInv'
  BY <1>1, <1>2, <1>10, <1>11, <1>12, <1>13, RulesFollow
<1>15. QED
  BY <1>8, <1>14 DEF PipeInv

LEMMA DecideStep ==
    ASSUME PipeInv, NEW s \in Slots, Decide(s)
    PROVE  PipeInv'
<1> DEFINE u == [pc |-> "budget", dec |-> evaluate(policy, req[s].kind.dest), cfg |-> policy]
<1>1. /\ req[s].pc = "decide" /\ Step(s, u) /\ current' = [current EXCEPT ![s] = @ \cap {policy}]
      /\ UNCHANGED <<file, changed, policy, events, wire>>
  BY DEF Decide, At
<1>2. PolicyInv
  BY DEF PipeInv
<1>3. policy \in Policies /\ policy \in current[s]
  BY <1>1, <1>2 DEF PolicyInv, At
<1>4. Good(Merge(req[s], u), Sent(s), LogOf(s))
  BY <1>1, <1>3, SlotGood, GoodDecide
<1>5. DOMAIN u = {"pc", "dec", "cfg"} /\ u.pc = "budget" /\ u.cfg = policy
  OBVIOUS
<1> HIDE DEF u
<1>6. /\ events' = events \cup {} /\ wire' = wire \cup {}
      /\ Sent(s) \cup {} = Sent(s) /\ LogOf(s) \cup {} = LogOf(s)
  BY <1>1
<1>7. Moved(s, u, {}, {})
  BY <1>1, <1>4, <1>6 DEF Moved
<1>8. req'[s] = Merge(req[s], u) /\ \A x \in Slots \ {s} : req'[x] = req[x]
  BY <1>1, StepMerges DEF PipeInv, SlotsInv
<1>9. req'[s].pc = "budget" /\ req'[s].cfg = policy
  BY <1>5, <1>8, Sets
<1>10. /\ current' = [x \in Slots |-> current'[x]] /\ current'[s] = {policy}
       /\ \A x \in Slots \ {s} : current'[x] = current[x]
  BY <1>1, <1>2, <1>3 DEF PolicyInv
<1>11. ~Undecided(s)' /\ ~At(s, "reload") /\ ~At(s, "reload")' /\ ~At(s, "decide")'
  BY <1>1, <1>9 DEF Undecided, At
<1>12. Holding' = Holding
  <2>1. (\E x \in Slots : At(x, "reload") /\ req[x].read \in Policies)'
           <=> \E x \in Slots : At(x, "reload") /\ req[x].read \in Policies
    BY <1>8, <1>11 DEF At
  <2>2. PassedOver' <=> PassedOver
    BY <1>1, <2>1 DEF PassedOver
  <2>3. QED
    BY <1>1, <2>2 DEF Holding, When
<1>13. PolicyInv'
  <2>1. \A x, t \in Slots : At(x, "reload")' /\ At(t, "reload")' => x = t
    BY <1>2, <1>8, <1>11 DEF PolicyInv, At
  <2>2. \A x \in Slots : Undecided(x)' => Holding' \subseteq current'[x]
    BY <1>2, <1>8, <1>10, <1>11, <1>12 DEF PolicyInv, Undecided
  <2>3. \A x \in Slots : At(x, "decide")' => policy' \in current'[x]
    BY <1>1, <1>2, <1>8, <1>10, <1>11 DEF PolicyInv, At
  <2>4. \A x \in Slots : At(x, "reload")' =>
           /\ req'[x].read \in Policies \cup {Rejected}
           /\ req'[x].read \in Policies =>
                 \A t \in Slots : At(t, "decide")' \/ At(t, "reload")' => req'[x].read \in current'[t]
           /\ req'[x].read = Rejected => policy' \in current'[x]
    BY <1>1, <1>2, <1>8, <1>10, <1>11 DEF PolicyInv, At
  <2>5. \A x \in Slots : "cfg" \in DOMAIN req'[x] => ~Undecided(x)' /\ req'[x].cfg \in current'[x]
    BY <1>2, <1>8, <1>9, <1>10, <1>11 DEF PolicyInv, Undecided
  <2>6. QED
    BY <1>1, <1>2, <1>10, <2>1, <2>2, <2>3, <2>4, <2>5 DEF PolicyInv
<1>14. QED
  BY <1>7, <1>13, Moves DEF PipeInv

LEMMA CheckBudgetStep ==
    ASSUME PipeInv, NEW s \in Slots, CheckBudget(s)
    PROVE  PipeInv'
<1> DEFINE u == [pc |-> "body", over_budget |-> spent >= Budget, band |-> spent >= SoftAt]
<1>1. Good(Merge(req[s], u), Sent(s), LogOf(s))
  BY SlotGood, GoodCheckBudget DEF CheckBudget, At
<1>2. Decided(s) /\ Step(s, u) /\ UNCHANGED <<rules, wire, events>>
  BY DEF CheckBudget, At, Decided, Deciding
<1>3. "cfg" \notin DOMAIN u /\ "pc" \in DOMAIN u /\ u.pc \notin Deciding
  BY DEF Deciding
<1> HIDE DEF u
<1>4. QED
  BY <1>1, <1>2, <1>3, ServesUnlogged

LEMMA ReadBodyStep ==
    ASSUME PipeInv, NEW s \in Slots, ReadBody(s)
    PROVE  PipeInv'
<1>1. req[s].pc = "body" /\ Decided(s) /\ UNCHANGED <<rules, wire>>
  BY DEF ReadBody, At, Decided, Deciding
<1>2. Good(req[s], Sent(s), LogOf(s))
  BY SlotGood
<1>3. CASE Step(s, [pc |-> "done", reply |-> "413"]) /\ Audit({Event(s, "deny")})
  <2> DEFINE u == [pc |-> "done", reply |-> "413"]
  <2>1. PICK kept \in SUBSET {Event(s, "deny")} : events' = events \cup kept
    BY <1>3, AuditWrites
  <2>2. \A e \in kept : e.slot = s /\ e.action # "usage"
    BY DEF Event
  <2>3. Good(Merge(req[s], u), Sent(s), LogOf(s))
    BY <1>1, <1>2, GoodStops DEF Held, Early
  <2>4. "cfg" \notin DOMAIN u /\ "pc" \in DOMAIN u /\ u.pc = "done" /\ Merge(req[s], u).pc = "done"
    BY DEF Merge
  <2>5. Step(s, u)
    BY <1>3
  <2> HIDE DEF u
  <2>6. Good(Merge(req[s], u), Sent(s), LogOf(s) \cup kept)
    BY <2>2, <2>3, <2>4, GoodLog
  <2>7. Served(s, u, kept)
    BY <1>1, <2>1, <2>2, <2>4, <2>5, <2>6 DEF Served, Deciding
  <2>8. QED
    BY <2>7, Serves
<1>4. CASE Step(s, [pc |-> "done", reply |-> "502"]) /\ UNCHANGED events
  <2> DEFINE u == [pc |-> "done", reply |-> "502"]
  <2>1. Good(Merge(req[s], u), Sent(s), LogOf(s))
    BY <1>1, <1>2, GoodStops DEF Held, Early
  <2>2. "cfg" \notin DOMAIN u /\ "pc" \in DOMAIN u /\ u.pc \notin Deciding
    BY DEF Deciding
  <2>3. Step(s, u)
    BY <1>4
  <2> HIDE DEF u
  <2>4. QED
    BY <1>1, <1>4, <2>1, <2>2, <2>3, ServesUnlogged
<1>5. CASE Step(s, [pc |-> "watch"]) /\ UNCHANGED events
  <2> DEFINE u == [pc |-> "watch"]
  <2>1. Good(Merge(req[s], u), Sent(s), LogOf(s))
    BY <1>1, <1>2, GoodReadBody
  <2>2. "cfg" \notin DOMAIN u /\ "pc" \in DOMAIN u /\ u.pc \notin Deciding
    BY DEF Deciding
  <2>3. Step(s, u)
    BY <1>5
  <2> HIDE DEF u
  <2>4. QED
    BY <1>1, <1>5, <2>1, <2>2, <2>3, ServesUnlogged
<1>6. QED
  BY <1>3, <1>4, <1>5 DEF ReadBody

LEMMA WatchSpendStep ==
    ASSUME PipeInv, NEW s \in Slots, WatchSpend(s)
    PROVE  PipeInv'
<1>1. req[s].pc = "watch" /\ Decided(s) /\ UNCHANGED <<rules, wire>>
  BY DEF WatchSpend, At, Decided, Deciding
<1>2. PICK block : /\ Step(s, [pc |-> "rewrite", spend_block |-> block])
                   /\ Audit({Event(s, "alert")}) \/ UNCHANGED events
  BY DEF WatchSpend
<1>3. PICK kept \in SUBSET {Event(s, "alert")} : events' = events \cup kept
  <2>1. CASE Audit({Event(s, "alert")})
    BY <2>1, AuditWrites
  <2>2. CASE UNCHANGED events
    <3>1. {} \in SUBSET {Event(s, "alert")} /\ events' = events \cup {}
      BY <2>2
    <3>2. QED
      BY <3>1
  <2>3. QED
    BY <1>2, <2>1, <2>2
<1>4. \A e \in kept : e.slot = s /\ e.action # "usage"
  BY DEF Event
<1> DEFINE u == [pc |-> "rewrite", spend_block |-> block]
<1>5. Good(Merge(req[s], u), Sent(s), LogOf(s))
  BY <1>1, SlotGood, GoodWatchSpend
<1>6. "cfg" \notin DOMAIN u /\ "pc" \in DOMAIN u /\ u.pc = "rewrite" /\ Merge(req[s], u).pc = "rewrite"
  BY DEF Merge
<1>7. Step(s, u)
  BY <1>2
<1> HIDE DEF u
<1>8. Good(Merge(req[s], u), Sent(s), LogOf(s) \cup kept)
  BY <1>4, <1>5, <1>6, GoodLog
<1>9. Served(s, u, kept)
  BY <1>1, <1>3, <1>4, <1>6, <1>7, <1>8 DEF Served, Deciding
<1>10. QED
  BY <1>9, Serves

LEMMA RewriteStep ==
    ASSUME PipeInv, NEW s \in Slots, Rewrite(s)
    PROVE  PipeInv'
<1> DEFINE r       == req[s]
           through == r.kind.provider /\ ~r.over_budget /\ ~r.spend_block
           landed  == IF /\ through /\ r.dec.action \in {"allow", "warn", "route"}
                         /\ r.band /\ Pro
                      THEN rewrite_model(r.model, r.cfg.soft) ELSE r.model
           routed  == IF through /\ r.dec.action = "route" /\ Pro
                      THEN rewrite_model(landed, r.dec.route) ELSE landed
           cached  == through /\ r.dec.action \in {"allow", "route"}
           k       == cached /\ Pro /\ r.cfg.keep_alive /\ r.kind.tls
<1>1. r.pc = "rewrite" /\ Decided(s) /\ UNCHANGED <<rules, wire>>
  BY DEF Rewrite, At, Decided, Deciding
<1>2. PICK repaired \in BOOLEAN :
         /\ Audit({Event(s, m) : m \in Marks(r.model, landed, routed, repaired)})
         /\ Step(s, [pc |-> "swap", model |-> routed,
                     marks |-> Marks(r.model, landed, routed, repaired), keepalive |-> k])
  BY DEF Rewrite
<1>3. PICK kept \in SUBSET {Event(s, m) : m \in Marks(r.model, landed, routed, repaired)} :
         events' = events \cup kept
  BY <1>2, AuditWrites
<1>4. \A e \in kept : e.slot = s /\ e.action # "usage"
  BY DEF Event, Marks, When
<1>5. /\ landed = r.model \/ landed = rewrite_model(r.model, r.cfg.soft)
      /\ routed = landed \/ routed = rewrite_model(landed, r.dec.route)
  OBVIOUS
<1> HIDE DEF landed, routed, k
<1> DEFINE u == [pc |-> "swap", model |-> routed,
                 marks |-> Marks(r.model, landed, routed, repaired), keepalive |-> k]
<1>6. Good(Merge(req[s], u), Sent(s), LogOf(s))
  BY <1>1, <1>5, SlotGood, GoodRewrite
<1>7. "cfg" \notin DOMAIN u /\ "pc" \in DOMAIN u /\ u.pc = "swap" /\ Merge(req[s], u).pc = "swap"
  BY DEF Merge
<1>8. Step(s, u)
  BY <1>2
<1> HIDE DEF u
<1>9. Good(Merge(req[s], u), Sent(s), LogOf(s) \cup kept)
  BY <1>4, <1>6, <1>7, GoodLog
<1>10. Served(s, u, kept)
  BY <1>1, <1>3, <1>4, <1>7, <1>8, <1>9 DEF Served, Deciding
<1>11. QED
  BY <1>10, Serves

LEMMA SwapAndScanStep ==
    ASSUME PipeInv, NEW s \in Slots, SwapAndScan(s)
    PROVE  PipeInv'
<1> DEFINE r   == req[s]
           out == apply_both(r.ctx, Device, Session, r.dec, r.kind.tls)
<1>1. r.pc = "swap" /\ Decided(s) /\ UNCHANGED <<rules, wire, events>>
  BY DEF SwapAndScan, At, Decided, Deciding
<1>2. r.ctx = r.kind.ctx
  BY <1>1, SlotGood DEF Good, Progress
<1>3. out = SwapOf(r)
  BY <1>2 DEF SwapOf
<1>4. PICK scan \in Scans(out.ctx) :
         Step(s, [pc |-> "verdict", ctx |-> detect_apply(out.ctx, r.cfg.dlp, scan).ctx,
                  tripwires |-> out.tripwires,
                  modes |-> detect_apply(out.ctx, r.cfg.dlp, scan).modes,
                  truncated |-> detect_apply(out.ctx, r.cfg.dlp, scan).truncated,
                  before |-> r.ctx])
  BY DEF SwapAndScan
<1> HIDE DEF out
<1> DEFINE dlp == detect_apply(out.ctx, r.cfg.dlp, scan)
           u   == [pc |-> "verdict", ctx |-> dlp.ctx, tripwires |-> out.tripwires,
                   modes |-> dlp.modes, truncated |-> dlp.truncated, before |-> r.ctx]
<1>5. dlp = detect_apply(SwapOf(r).ctx, r.cfg.dlp, scan) /\ scan \in Scans(SwapOf(r).ctx)
  BY <1>3
<1>5a. Step(s, u)
  BY <1>4
<1> HIDE DEF dlp
<1>6. Good(Merge(req[s], u), Sent(s), LogOf(s))
  BY <1>1, <1>3, <1>5, SlotGood, GoodSwap
<1>7. "cfg" \notin DOMAIN u /\ "pc" \in DOMAIN u /\ u.pc \notin Deciding
  BY DEF Deciding
<1> HIDE DEF u
<1>8. QED
  BY <1>1, <1>5a, <1>6, <1>7, ServesUnlogged

LEMMA DenyStep ==
    ASSUME PipeInv, NEW s \in Slots, Deny(s)
    PROVE  PipeInv'
<1>1. req[s].pc = "verdict" /\ Decided(s) /\ UNCHANGED <<rules, wire>>
  BY DEF Deny, At, Decided, Deciding
<1>2. Good(req[s], Sent(s), LogOf(s))
  BY SlotGood
<1> DEFINE u == [pc |-> "done", reply |-> "403"]
<1>3. PICK kept \in SUBSET {Event(s, "deny")} : events' = events \cup kept
  BY AuditWrites DEF Deny
<1>4. \A e \in kept : e.slot = s /\ e.action # "usage"
  BY DEF Event
<1>5. Good(Merge(req[s], u), Sent(s), LogOf(s))
  BY <1>1, <1>2, GoodStops DEF Held, Early
<1>6. "cfg" \notin DOMAIN u /\ "pc" \in DOMAIN u /\ u.pc = "done" /\ Merge(req[s], u).pc = "done"
  BY DEF Merge
<1>7. Step(s, u)
  BY DEF Deny
<1> HIDE DEF u
<1>8. Good(Merge(req[s], u), Sent(s), LogOf(s) \cup kept)
  BY <1>4, <1>5, <1>6, GoodLog
<1>9. Served(s, u, kept)
  BY <1>1, <1>3, <1>4, <1>6, <1>7, <1>8 DEF Served, Deciding
<1>10. QED
  BY <1>9, Serves

LEMMA ForwardStep ==
    ASSUME PipeInv, NEW s \in Slots, Forward(s)
    PROVE  PipeInv'
<1> DEFINE w == [slot |-> s, ctx |-> req[s].ctx, tls |-> req[s].kind.tls, model |-> req[s].model]
           u == [pc |-> "sent"]
<1>1. /\ req[s].pc = "verdict" /\ Decided(s) /\ UNCHANGED rules
      /\ final_action(req[s]) # "deny" /\ wire' = wire \cup {w} /\ Step(s, u)
  BY DEF Forward, At, Decided, Deciding
<1>2. PICK kept \in SUBSET When(has_advisory(req[s]) \/ req[s].truncated, Event(s, "alert")) : events' = events \cup kept
  BY AuditWrites DEF Forward
<1>3. \A e \in kept : e.slot = s /\ e.action # "usage"
  BY DEF Event, When
<1>4. w.slot = s /\ w.ctx = req[s].ctx /\ w.model = req[s].model /\ w.tls = req[s].kind.tls
  OBVIOUS
<1> HIDE DEF w
<1>5. Good(Merge(req[s], u), Sent(s) \cup {w}, LogOf(s))
  BY <1>1, <1>4, SlotGood, GoodForward
<1>6. "cfg" \notin DOMAIN u /\ "pc" \in DOMAIN u /\ u.pc = "sent" /\ Merge(req[s], u).pc = "sent"
  BY DEF Merge
<1> HIDE DEF u
<1>7. Good(Merge(req[s], u), Sent(s) \cup {w}, LogOf(s) \cup kept)
  BY <1>3, <1>5, <1>6, GoodLog
<1>8. Moved(s, u, kept, {w})
  BY <1>1, <1>2, <1>3, <1>4, <1>6, <1>7 DEF Moved
<1>9. u.pc \notin Deciding
  BY <1>6 DEF Deciding
<1>10. QED
  BY <1>1, <1>6, <1>8, <1>9, MovesOn

LEMMA RespondStep ==
    ASSUME PipeInv, NEW s \in Slots, Respond(s)
    PROVE  PipeInv'
<1>1. req[s].pc = "sent" /\ Decided(s) /\ UNCHANGED <<rules, wire>>
  BY DEF Respond, At, Decided, Deciding
<1>2. PICK stream \in BOOLEAN, echo \in BOOLEAN :
         Audit(When(echo, Event(s, "alert"))) /\ Step(s, [pc |-> "meter", stream |-> stream, held |-> stream])
  BY DEF Respond
<1>3. PICK kept \in SUBSET When(echo, Event(s, "alert")) : events' = events \cup kept
  BY <1>2, AuditWrites
<1>4. \A e \in kept : e.slot = s /\ e.action # "usage"
  BY DEF Event, When
<1> DEFINE u == [pc |-> "meter", stream |-> stream, held |-> stream]
<1>5. Good(Merge(req[s], u), Sent(s), LogOf(s))
  BY <1>1, SlotGood, GoodRespond
<1>6. "cfg" \notin DOMAIN u /\ "pc" \in DOMAIN u /\ u.pc = "meter" /\ Merge(req[s], u).pc = "meter"
  BY DEF Merge
<1>7. Step(s, u)
  BY <1>2
<1> HIDE DEF u
<1>8. Good(Merge(req[s], u), Sent(s), LogOf(s) \cup kept)
  BY <1>4, <1>5, <1>6, GoodLog
<1>9. Served(s, u, kept)
  BY <1>1, <1>3, <1>4, <1>6, <1>7, <1>8 DEF Served, Deciding
<1>10. QED
  BY <1>9, Serves

LEMMA UpstreamFailsStep ==
    ASSUME PipeInv, NEW s \in Slots, UpstreamFails(s)
    PROVE  PipeInv'
<1> DEFINE u == [pc |-> "done", reply |-> "502"]
<1>1. /\ req[s].pc = "sent" /\ Decided(s) /\ Step(s, u)
      /\ UNCHANGED <<rules, wire, events>>
  BY DEF UpstreamFails, At, Decided, Deciding
<1>3. Good(Merge(req[s], u), Sent(s), LogOf(s))
  BY <1>1, SlotGood, GoodStops DEF Held, Early
<1>4. "cfg" \notin DOMAIN u /\ "pc" \in DOMAIN u /\ u.pc \notin Deciding
  BY DEF Deciding
<1> HIDE DEF u
<1>5. QED
  BY <1>1, <1>3, <1>4, ServesUnlogged

LEMMA MeterStep ==
    ASSUME PipeInv, NEW s \in Slots, Meter(s)
    PROVE  PipeInv'
<1>1. /\ req[s].pc = "meter" /\ Decided(s) /\ UNCHANGED <<rules, wire, events>>
      /\ req[s].stream \in BOOLEAN
  BY SlotGood DEF Meter, At, Decided, Deciding, Good, Shape
<1>2. CASE req[s].stream = TRUE
  <2> DEFINE u == [pc |-> "record"]
  <2>1. Good(Merge(req[s], u), Sent(s), LogOf(s))
    BY <1>1, <1>2, SlotGood, GoodMeterStream
  <2>2. "cfg" \notin DOMAIN u /\ "pc" \in DOMAIN u /\ u.pc \notin Deciding
    BY DEF Deciding
  <2>3. Step(s, u)
    BY <1>2 DEF Meter
  <2> HIDE DEF u
  <2>4. QED
    BY <1>1, <2>1, <2>2, <2>3, ServesUnlogged
<1>3. CASE req[s].stream = FALSE
  <2> DEFINE u == [pc |-> "record", metered |-> req[s].metered + 1]
  <2>1. Good(Merge(req[s], u), Sent(s), LogOf(s))
    BY <1>1, <1>3, SlotGood, GoodMeter
  <2>2. "cfg" \notin DOMAIN u /\ "pc" \in DOMAIN u /\ u.pc \notin Deciding
    BY DEF Deciding
  <2>3. Step(s, u)
    BY <1>3 DEF Meter
  <2> HIDE DEF u
  <2>4. QED
    BY <1>1, <2>1, <2>2, <2>3, ServesUnlogged
<1>4. QED
  BY <1>1, <1>2, <1>3

LEMMA RecordStep ==
    ASSUME PipeInv, NEW s \in Slots, Record(s)
    PROVE  PipeInv'
<1>1. /\ req[s].pc = "record" /\ Decided(s) /\ UNCHANGED <<rules, wire>>
      /\ req[s].held \in BOOLEAN /\ req[s].recorded = FALSE
  BY SlotGood DEF Record, At, Decided, Deciding, Good, Shape, Billed
<1>2. PICK recorded \in BOOLEAN :
         /\ events' = events \cup When(recorded, Event(s, final_action(req[s])))
         /\ Delivery(s, recorded)
  BY DEF Record, When
<1>3. CASE recorded = TRUE
  <2> DEFINE x    == IF req[s].held = TRUE THEN "stream" ELSE "done"
             u    == [pc |-> x, reply |-> "ok", ref |-> TRUE]
             e    == Event(s, final_action(req[s]))
             more == {e}
  <2>1. events' = events \cup more /\ Step(s, u)
    BY <1>1, <1>2, <1>3 DEF Delivery, When
  <2>2. e.slot = s /\ e.action = final_action(req[s])
    BY DEF Event
  <2>3. final_action(req[s]) # "usage"
    <3>1. Passed(req[s])
      BY <1>1, SlotGood DEF Good, Sending, Gone
    <3>2. req[s].cfg \in Policies /\ req[s].dec.action \in {"allow", "deny", "warn", "route"}
      BY <1>1, <3>1, SlotGood, EvaluateAction DEF Good, Shape, Passed, Judged
    <3>3. QED
      BY <3>2 DEF final_action
  <2>4. \A y \in more : y.slot = s /\ y.action # "usage"
    BY <2>2, <2>3
  <2>5. \E y \in LogOf(s) \cup more : y.action = final_action(req[s])
    BY <2>2
  <2> HIDE DEF e
  <2>6. Good(req[s], Sent(s), LogOf(s) \cup more)
    <3>1. \A y \in more : y.action # "usage"
      BY <2>4
    <3> HIDE DEF more
    <3>2. QED
      BY <1>1, <3>1, SlotGood, GoodLog
  <2> HIDE DEF more
  <2>7. Good(Merge(req[s], u), Sent(s), LogOf(s) \cup more)
    BY <1>1, <2>5, <2>6, GoodDelivered
  <2>8. "cfg" \notin DOMAIN u /\ "pc" \in DOMAIN u /\ u.pc \notin Deciding
    BY DEF Deciding
  <2> HIDE DEF u
  <2>9. Served(s, u, more)
    BY <1>1, <2>1, <2>4, <2>7, <2>8 DEF Served, Deciding
  <2>10. QED
    BY <2>9, Serves
<1>4. CASE recorded = FALSE
  <2>1. events' = events
    BY <1>2, <1>4 DEF When
  <2>2. CASE req[s].held = TRUE
    <3> DEFINE u == [pc |-> "drained", recorded |-> TRUE, held |-> FALSE, reply |-> "503", ref |-> FALSE]
    <3>1. Good(Merge(req[s], u), Sent(s), LogOf(s))
      BY <1>1, <2>2, SlotGood, GoodAbandoned
    <3>2. "cfg" \notin DOMAIN u /\ "pc" \in DOMAIN u /\ u.pc \notin Deciding
      BY DEF Deciding
    <3>3. Step(s, u)
      BY <1>1, <1>2, <1>4, <2>2 DEF Delivery, Abandon, record
    <3> HIDE DEF u
    <3>4. QED
      BY <1>1, <2>1, <3>1, <3>2, <3>3, ServesUnlogged
  <2>3. CASE req[s].held = FALSE
    <3> DEFINE u == [pc |-> "done", recorded |-> FALSE, held |-> FALSE, reply |-> "503", ref |-> FALSE]
    <3>1. Good(Merge(req[s], u), Sent(s), LogOf(s))
      BY <1>1, <2>3, SlotGood, GoodWithheld
    <3>2. "cfg" \notin DOMAIN u /\ "pc" \in DOMAIN u /\ u.pc \notin Deciding
      BY DEF Deciding
    <3>3. Step(s, u)
      BY <1>2, <1>4, <2>3 DEF Delivery, Abandon
    <3> HIDE DEF u
    <3>4. QED
      BY <1>1, <2>1, <3>1, <3>2, <3>3, ServesUnlogged
  <2>4. QED
    BY <1>1, <2>2, <2>3
<1>5. QED
  BY <1>3, <1>4

\* A request that hangs up takes with it what it was loading.
LEMMA HangupStep ==
    ASSUME PipeInv, NEW s \in Slots, Hangup(s)
    PROVE  PipeInv'
<1>1. /\ InFlight(s) /\ Remember /\ Abandon(s, "gone")
      /\ UNCHANGED <<file, changed, policy, events, wire>>
  BY DEF Hangup
<1>2. PolicyInv
  BY DEF PipeInv
<1>3. req[s].pc \in Held \cup {"sent", "meter", "record"} /\ req[s].held \in BOOLEAN
  BY SlotGood DEF Hangup, InFlight, Good, Shape, Places, Held, Early, Gone, Ending
<1>4. PICK u : /\ Step(s, u) /\ "pc" \in DOMAIN u /\ "cfg" \notin DOMAIN u
               /\ u.pc \in {"drained", "done"}
               /\ Good(Merge(req[s], u), Sent(s), LogOf(s))
  <2>1. CASE req[s].held = TRUE
    <3> DEFINE u == [pc |-> "drained", recorded |-> TRUE, held |-> FALSE, reply |-> "gone",
                     ref |-> FALSE]
    <3>1. req[s].pc \in {"meter", "record"} /\ req[s].recorded = FALSE
      BY <1>3, <2>1, SlotGood DEF Good, Billed
    <3>2. Good(Merge(req[s], u), Sent(s), LogOf(s))
      BY <2>1, <3>1, SlotGood, GoodAbandoned
    <3>3. Step(s, u)
      BY <1>1, <2>1, <3>1 DEF Abandon, record
    <3>4. "pc" \in DOMAIN u /\ "cfg" \notin DOMAIN u /\ u.pc = "drained"
      OBVIOUS
    <3> HIDE DEF u
    <3>5. QED
      BY <3>2, <3>3, <3>4
  <2>2. CASE req[s].held = FALSE
    <3> DEFINE u == [pc |-> "done", recorded |-> FALSE, held |-> FALSE, reply |-> "gone",
                     ref |-> FALSE]
    <3>1. Good(Merge(req[s], u), Sent(s), LogOf(s))
      BY <1>3, <2>2, SlotGood, GoodWithheld
    <3>2. Step(s, u)
      BY <1>1, <2>2 DEF Abandon
    <3>3. "pc" \in DOMAIN u /\ "cfg" \notin DOMAIN u /\ u.pc = "done"
      OBVIOUS
    <3> HIDE DEF u
    <3>4. QED
      BY <3>1, <3>2, <3>3
  <2>3. QED
    BY <1>3, <2>1, <2>2
<1>5. /\ events' = events \cup {} /\ wire' = wire \cup {}
      /\ Sent(s) \cup {} = Sent(s) /\ LogOf(s) \cup {} = LogOf(s)
  BY <1>1
<1>6. Moved(s, u, {}, {})
  BY <1>1, <1>4, <1>5 DEF Moved, InFlight
<1>7. req'[s] = Merge(req[s], u) /\ \A x \in Slots \ {s} : req'[x] = req[x]
  BY <1>4, StepMerges DEF PipeInv, SlotsInv
<1>8. req'[s].pc \in {"drained", "done"}
  BY <1>4, <1>7, Sets
<1>9. \A x \in Slots : (At(x, "reload") \/ At(x, "decide"))' =>
         req'[x] = req[x] /\ current[x] \subseteq current'[x]
  <2>1. \A x \in Slots : (At(x, "reload") \/ At(x, "decide"))' =>
           req'[x] = req[x] /\ Undecided(x) /\ Undecided(x)'
    BY <1>7, <1>8 DEF At, Undecided
  <2>2. QED
    BY <1>1, <2>1, Remembers
<1>10. \A x \in Slots : "cfg" \in DOMAIN req'[x] =>
          "cfg" \in DOMAIN req[x] /\ req'[x].cfg = req[x].cfg /\ ~Undecided(x)'
  <2>1. "cfg" \in DOMAIN req'[s] => "cfg" \in DOMAIN req[s] /\ req'[s].cfg = req[s].cfg
    BY <1>4, <1>7 DEF Merge
  <2>2. ~Undecided(s)'
    BY <1>8 DEF Undecided
  <2>3. QED
    BY <1>2, <1>7, <2>1, <2>2 DEF PolicyInv, Undecided
<1>11. PolicyInv'
  <2>1. policy' = policy /\ file' \in Policies \cup {Rejected}
    BY <1>1, <1>2 DEF PolicyInv
  <2>2. QED
    BY <1>1, <1>2, <1>9, <1>10, <2>1, ReloadsKept
<1>12. QED
  BY <1>6, <1>11, Moves DEF PipeInv

LEMMA StreamEndsStep ==
    ASSUME PipeInv, NEW s \in Slots, StreamEnds(s)
    PROVE  PipeInv'
<1> DEFINE u == [pc |-> "drained", recorded |-> TRUE]
<1>1. req[s].pc = "stream" /\ req[s].recorded = FALSE
  BY SlotGood DEF StreamEnds, At, Good, Billed
<1>2. Good(Merge(req[s], u), Sent(s), LogOf(s))
  BY <1>1, SlotGood, GoodStreamEnds
<1>3. Decided(s) /\ Step(s, u) /\ UNCHANGED <<rules, wire, events>>
  BY <1>1 DEF StreamEnds, record, Decided, Deciding
<1>4. "cfg" \notin DOMAIN u /\ "pc" \in DOMAIN u /\ u.pc \notin Deciding
  BY DEF Deciding
<1> HIDE DEF u
<1>5. QED
  BY <1>2, <1>3, <1>4, ServesUnlogged

LEMMA DropStreamStep ==
    ASSUME PipeInv, NEW s \in Slots, DropStream(s)
    PROVE  PipeInv'
<1> DEFINE x == record(req[s])
           u == [pc |-> x, recorded |-> TRUE, held |-> FALSE]
<1>1. req[s].pc \in {"stream", "drained", "usage", "done"} /\ req[s].held = TRUE
  BY SlotGood DEF DropStream, Good, Shape
<1>2. /\ req[s].pc = "stream" => x = "drained"
      /\ req[s].pc # "stream" => x = req[s].pc
  BY <1>1, SlotGood DEF Good, Billed, record
<1> HIDE DEF x
<1>3. Good(Merge(req[s], u), Sent(s), LogOf(s))
  <2>1. CASE req[s].pc = "stream"
    BY <1>2, <2>1, SlotGood, GoodDropped
  <2>2. CASE req[s].pc # "stream"
    BY <1>1, <1>2, <2>2, SlotGood, GoodLate
  <2>3. QED
    BY <2>1, <2>2
<1>4. Decided(s) /\ UNCHANGED <<rules, wire, events>>
  BY <1>1 DEF DropStream, Decided, Deciding
<1>5. Step(s, u)
  BY DEF DropStream, x
<1>6. "cfg" \notin DOMAIN u /\ "pc" \in DOMAIN u /\ u.pc \notin Deciding
  BY <1>1, <1>2 DEF Deciding
<1> HIDE DEF u
<1>7. QED
  BY <1>3, <1>4, <1>5, <1>6, ServesUnlogged

LEMMA SettleStep ==
    ASSUME PipeInv, NEW s \in Slots, Settle(s)
    PROVE  PipeInv'
<1> DEFINE u == [pc |-> "usage", metered |-> req[s].metered + 1]
<1>1. Good(Merge(req[s], u), Sent(s), LogOf(s))
  BY SlotGood, GoodSettle DEF Settle, At
<1>2. Decided(s) /\ Step(s, u) /\ UNCHANGED <<rules, wire, events>>
  BY DEF Settle, At, Decided, Deciding
<1>3. "cfg" \notin DOMAIN u /\ "pc" \in DOMAIN u /\ u.pc \notin Deciding
  BY DEF Deciding
<1> HIDE DEF u
<1>4. QED
  BY <1>1, <1>2, <1>3, ServesUnlogged

LEMMA UsageEventStep ==
    ASSUME PipeInv, NEW s \in Slots, UsageEvent(s)
    PROVE  PipeInv'
<1> DEFINE u == [pc |-> "done"]
           e == [slot |-> s, action |-> "usage", ref |-> req[s].ref]
<1>1. /\ req[s].pc = "usage" /\ Decided(s) /\ Step(s, u) /\ Audit({e})
      /\ UNCHANGED <<rules, wire>>
  BY DEF UsageEvent, At, Decided, Deciding
<1>2. e.slot = s /\ e.ref = req[s].ref
  OBVIOUS
<1> HIDE DEF e
<1>3. PICK kept \in SUBSET {e} : events' = events \cup kept
  BY <1>1, AuditWrites
<1>4. \/ req[s].ref = TRUE /\ req[s].reply = "ok"
      \/ req[s].ref = FALSE /\ req[s].reply \in {"503", "gone"}
  BY <1>1, SlotGood DEF Good, Answered, Ending
<1>5. Good(Merge(req[s], u), Sent(s), LogOf(s))
  BY <1>1, SlotGood, GoodUsage
<1>6. /\ "cfg" \notin DOMAIN u /\ "pc" \in DOMAIN u /\ u.pc \notin Deciding
      /\ Merge(req[s], u).pc = "done"
  BY DEF Merge, Deciding
<1>7. Merge(req[s], u).reply = req[s].reply
  <2>1. "reply" \in DOMAIN req[s] /\ "reply" \notin DOMAIN u
    BY <1>1, SlotGood DEF Good, Shape, Base
  <2> HIDE DEF u
  <2>2. QED
    BY <2>1 DEF Merge
<1> HIDE DEF u
<1>8. Good(Merge(req[s], u), Sent(s), LogOf(s) \cup kept)
  <2>1. \A y \in kept : \/ y.ref = TRUE /\ Merge(req[s], u).reply = "ok"
                        \/ y.ref = FALSE /\ Merge(req[s], u).reply \in {"503", "gone"}
    BY <1>2, <1>4, <1>7
  <2>2. QED
    BY <1>5, <1>6, <2>1, GoodUsageLog
<1>9. \A y \in kept : y.slot = s
  BY <1>2
<1>10. Served(s, u, kept)
  BY <1>1, <1>3, <1>6, <1>8, <1>9 DEF Served, Deciding
<1>11. QED
  BY <1>10, Serves

LEMMA ArriveStep ==
    ASSUME PipeInv, NEW s \in Slots, Arrive(s)
    PROVE  PipeInv'
<1>1. PICK kind \in Kinds :
         req' = [req EXCEPT ![s] = [pc |-> "refresh", kind |-> kind, reply |-> "none",
                                     ctx |-> kind.ctx, model |-> kind.model, marks |-> {},
                                     stream |-> FALSE, held |-> FALSE, recorded |-> FALSE,
                                     metered |-> 0]]
  BY DEF Arrive
<1> DEFINE q == [pc |-> "refresh", kind |-> kind, reply |-> "none",
                 ctx |-> kind.ctx, model |-> kind.model, marks |-> {},
                 stream |-> FALSE, held |-> FALSE, recorded |-> FALSE, metered |-> 0]
<1>2. Good(q, {}, {})
  BY GoodArrive
<1>3. req' = [req EXCEPT ![s] = q] /\ q.pc = "refresh" /\ "cfg" \notin DOMAIN q
  BY <1>1
<1> HIDE DEF q
<1>4. /\ req' = [x \in Slots |-> req'[x]] /\ req'[s] = q
      /\ \A x \in Slots \ {s} : req'[x] = req[x]
  BY <1>3 DEF PipeInv, SlotsInv
<1>5. Sent(s)' = {} /\ LogOf(s)' = {}
  BY DEF Arrive, Sent, LogOf
<1>6. ASSUME NEW x \in Slots \ {s} PROVE Sent(x)' = Sent(x) /\ LogOf(x)' = LogOf(x)
  BY DEF Arrive, Sent, LogOf
<1>7. SlotsInv'
  <2>1. \A x \in Slots : Good(req'[x], Sent(x)', LogOf(x)')
    BY <1>2, <1>4, <1>5, <1>6 DEF PipeInv, SlotsInv
  <2>2. QED
    BY <1>4, <2>1 DEF SlotsInv
<1>8. EventInv'
  BY DEF Arrive, PipeInv, EventInv
<1>9. PolicyInv'
  <2>1. PolicyInv /\ Remember /\ file' = file /\ policy' = policy
    BY DEF Arrive, PipeInv
  <2>2. req'[s].pc = "refresh" /\ "cfg" \notin DOMAIN req'[s]
    BY <1>3, <1>4
  <2>3. \A x \in Slots : (At(x, "reload") \/ At(x, "decide"))' =>
           req'[x] = req[x] /\ current[x] \subseteq current'[x]
    <3>1. \A x \in Slots : (At(x, "reload") \/ At(x, "decide"))' =>
             req'[x] = req[x] /\ Undecided(x) /\ Undecided(x)'
      BY <1>4, <2>2 DEF At, Undecided
    <3>2. QED
      BY <2>1, <3>1, Remembers
  <2>4. \A x \in Slots : "cfg" \in DOMAIN req'[x] =>
            "cfg" \in DOMAIN req[x] /\ req'[x].cfg = req[x].cfg /\ ~Undecided(x)'
    BY <1>4, <2>1, <2>2 DEF PolicyInv, Undecided
  <2>5. file' \in Policies \cup {Rejected}
    BY <2>1 DEF PolicyInv
  <2>6. QED
    BY <2>1, <2>3, <2>4, <2>5, ReloadsKept
<1>10. QED
  BY <1>7, <1>8, <1>9 DEF PipeInv

LEMMA EditPolicyStep ==
    ASSUME PipeInv, EditPolicy
    PROVE  PipeInv'
<1>1. /\ file' \in Policies \cup {Rejected} /\ UNCHANGED <<policy, req, events, wire>> /\ Remember
  BY EditsAssumption DEF EditPolicy
<1>2. \A s \in Slots : Sent(s)' = Sent(s) /\ LogOf(s)' = LogOf(s)
  BY <1>1 DEF Sent, LogOf
<1>3. SlotsInv' /\ EventInv'
  BY <1>1, <1>2 DEF PipeInv, SlotsInv, EventInv
<1>4. PolicyInv'
  <2>1. PolicyInv
    BY DEF PipeInv
  <2>2. \A x \in Slots : (At(x, "reload") \/ At(x, "decide"))' =>
           req'[x] = req[x] /\ current[x] \subseteq current'[x]
    <3>1. \A x \in Slots : (At(x, "reload") \/ At(x, "decide"))' =>
             req'[x] = req[x] /\ Undecided(x) /\ Undecided(x)'
      BY <1>1 DEF At, Undecided
    <3>2. QED
      BY <1>1, <3>1, Remembers
  <2>3. \A x \in Slots : "cfg" \in DOMAIN req'[x] =>
            "cfg" \in DOMAIN req[x] /\ req'[x].cfg = req[x].cfg /\ ~Undecided(x)'
    BY <1>1, <2>1 DEF PolicyInv, Undecided
  <2>4. QED
    BY <1>1, <2>1, <2>2, <2>3, ReloadsKept
<1>5. QED
  BY <1>3, <1>4 DEF PipeInv

\* The keep-alive watcher is no slot: it leaves every request alone.
LEMMA AsideStep ==
    ASSUME PipeInv, UNCHANGED <<rules, req>>,
           \A s \in Slots : Sent(s)' = Sent(s) /\ LogOf(s)' = LogOf(s), EventInv'
    PROVE  PipeInv'
<1>1. \A s \in Slots : Good(req'[s], Sent(s)', LogOf(s)')
  BY DEF PipeInv, SlotsInv
<1>2. SlotsInv'
  BY <1>1 DEF PipeInv, SlotsInv
<1>3. PolicyInv'
  <2>1. UNCHANGED <<file, changed, policy, current, req>>
    BY DEF rules
  <2>2. Holding' = Holding
    BY <2>1 DEF Holding, PassedOver, At
  <2>3. QED
    BY <2>1, <2>2 DEF PipeInv, PolicyInv, At, Undecided
<1>4. QED
  BY <1>2, <1>3 DEF PipeInv

LEMMA PrewarmStep ==
    ASSUME PipeInv, ClearTrip \/ \E k \in DOMAIN keepalive : Due(k) \/ Fire(k) \/ FireEnds(k)
    PROVE  PipeInv'
<1>1. UNCHANGED <<rules, req>>
  BY DEF ClearTrip, Due, Fire, FireEnds
<1>2. ASSUME NEW s \in Slots PROVE Sent(s)' = Sent(s)
  <2>1. s # "prewarm"
    BY SlotsAssumption
  <2>2. \A w : w \in wire' /\ w.slot = s <=> w \in wire /\ w.slot = s
    <3>1. ASSUME NEW k \in DOMAIN keepalive, Fire(k)
          PROVE  \A w : w \in wire' /\ w.slot = s <=> w \in wire /\ w.slot = s
      <4> DEFINE tmpl == keepalive[k].watcher.tmpl
                 out  == apply_both(tmpl.ctx, Device, Session, evaluate(policy, tmpl.kind.dest), TRUE)
                 v    == [slot |-> "prewarm", key |-> k, ctx |-> out.ctx, tls |-> TRUE]
      <4>1. wire' = wire \cup {v} \/ wire' = wire
        BY <3>1 DEF Fire
      <4>2. v.slot = "prewarm"
        OBVIOUS
      <4> HIDE DEF v
      <4>3. QED
        BY <2>1, <4>1, <4>2
    <3>2. ASSUME NEW k \in DOMAIN keepalive, FireEnds(k)
          PROVE  \A w : w \in wire' /\ w.slot = s <=> w \in wire /\ w.slot = s
      BY <2>1, <3>2 DEF FireEnds
    <3>3. ASSUME NEW k \in DOMAIN keepalive, Due(k)
          PROVE  \A w : w \in wire' /\ w.slot = s <=> w \in wire /\ w.slot = s
      BY <3>3 DEF Due
    <3>4. CASE ClearTrip
      BY <3>4 DEF ClearTrip
    <3>5. QED
      BY <3>1, <3>2, <3>3, <3>4
  <2>3. QED
    BY <2>2 DEF Sent
<1>3. PICK kept \in SUBSET {Event("prewarm", "keepalive")} : events' = events \cup kept
  <2>1. CASE Audit({Event("prewarm", "keepalive")})
    BY <2>1, AuditWrites
  <2>2. CASE UNCHANGED events
    <3>1. {} \in SUBSET {Event("prewarm", "keepalive")} /\ events' = events \cup {}
      BY <2>2
    <3>2. QED
      BY <3>1
  <2>3. QED
    BY <2>1, <2>2 DEF ClearTrip, Due, Fire, FireEnds
<1>4. \A e \in kept : e.slot = "prewarm" /\ e.action = "keepalive"
  BY DEF Event
<1>5. ASSUME NEW s \in Slots PROVE LogOf(s)' = LogOf(s)
  BY <1>3, <1>4, SlotsAssumption DEF LogOf
<1>6. EventInv'
  BY <1>3, <1>4 DEF PipeInv, EventInv
<1>7. QED
  BY <1>1, <1>2, <1>5, <1>6, AsideStep

LEMMA PipeInit == Init => PipeInv
<1> SUFFICES ASSUME Init PROVE PipeInv
  OBVIOUS
<1>1. \A s \in Slots : req[s] = Free /\ Sent(s) = {} /\ LogOf(s) = {}
  BY DEF Init, Sent, LogOf
<1>2. SlotsInv
  BY <1>1, GoodFree DEF Init, SlotsInv
<1>3. PolicyInv /\ EventInv
  <2>1. \A s \in Slots : req[s].pc = "free" /\ "cfg" \notin DOMAIN req[s]
    BY <1>1 DEF Free
  <2>2. QED
    BY <2>1 DEF Init, PolicyInv, EventInv, At, Undecided
<1>4. QED
  BY <1>2, <1>3 DEF PipeInv

LEMMA PipeStep == PipeInv /\ [Next]_vars => PipeInv'
<1> SUFFICES ASSUME PipeInv, [Next]_vars PROVE PipeInv'
  OBVIOUS
<1>1. CASE UNCHANGED vars
  <2>1. UNCHANGED <<rules, req>> /\ events' = events /\ wire' = wire
    BY <1>1 DEF vars
  <2>2. \A s \in Slots : Sent(s)' = Sent(s) /\ LogOf(s)' = LogOf(s)
    BY <2>1 DEF Sent, LogOf
  <2>3. EventInv'
    BY <2>1 DEF PipeInv, EventInv
  <2>4. QED
    BY <2>1, <2>2, <2>3, AsideStep
<1>2. ASSUME NEW s \in Slots, Serve(s) PROVE PipeInv'
  BY <1>2, RefreshStep, ReloadStep, DecideStep, CheckBudgetStep, ReadBodyStep, WatchSpendStep, RewriteStep,
     SwapAndScanStep, DenyStep, ForwardStep, MeterStep, RecordStep DEF Serve
<1>3. ASSUME NEW s \in Slots,
             Arrive(s) \/ Respond(s) \/ UpstreamFails(s) \/ Hangup(s) \/ StreamEnds(s)
               \/ DropStream(s) \/ Settles(s)
      PROVE  PipeInv'
  BY <1>3, ArriveStep, RespondStep, UpstreamFailsStep, HangupStep, StreamEndsStep,
     DropStreamStep, SettleStep, UsageEventStep DEF Settles
<1>4. CASE EditPolicy \/ ClearTrip \/ \E k \in DOMAIN keepalive : Due(k) \/ Fire(k) \/ FireEnds(k)
  BY <1>4, EditPolicyStep, PrewarmStep
<1>5. QED
  BY <1>1, <1>2, <1>3, <1>4 DEF Next

LEMMA PipeAlways == Spec => []PipeInv
BY PipeInit, PipeStep, PTL DEF Spec

-----------------------------------------------------------------------------
(***************************************************************************)
(* What follows of it.                                                     *)
(***************************************************************************)
\* What was sent is what was swapped and scanned under the decision.
LEMMA WireIsScanned ==
    ASSUME PipeInv, NEW s \in Slots, NEW w \in Sent(s)
    PROVE  /\ Passed(req[s]) /\ req[s].kind \in Kinds /\ req[s].reply \notin {"403", "413"}
           /\ \E scan \in Scans(SwapOf(req[s]).ctx) :
                 LET dlp == detect_apply(SwapOf(req[s]).ctx, req[s].cfg.dlp, scan) IN
                 w.ctx = dlp.ctx /\ req[s].modes = dlp.modes /\ req[s].truncated = dlp.truncated
           /\ w.model = req[s].model /\ w.tls = req[s].kind.tls
<1>1. Good(req[s], Sent(s), LogOf(s))
  BY SlotGood
<1>2. Passed(req[s]) /\ req[s].reply \notin {"403", "413"} /\ req[s].pc # "free"
  BY <1>1 DEF Good, Sending
<1>3. w.ctx = req[s].ctx /\ w.model = req[s].model /\ w.tls = req[s].kind.tls
  BY <1>1 DEF Good, Sending
<1>4. req[s].kind \in Kinds
  BY <1>1, <1>2 DEF Good, Shape
<1>5. QED
  BY <1>2, <1>3, <1>4 DEF Passed, Scanned

LEMMA Overrides == PipeInv => OverridesHold
<1> SUFFICES ASSUME PipeInv, NEW s \in Slots, Sent(s) # {}
             PROVE  /\ req[s].reply \notin {"403", "413"}
                    /\ ~req[s].over_budget /\ ~req[s].spend_block /\ req[s].tripwires = {}
                    /\ req[s].dec.action \in {"allow", "warn", "route"}
                    /\ \A w \in Sent(s) : \A x \in Readable(w.ctx) :
                          Guarded(x, req[s].cfg.dlp) => x[1] = "encpii" /\ req[s].truncated
  BY DEF OverridesHold
<1> DEFINE r == req[s]
<1>1. Passed(r) /\ r.kind \in Kinds /\ r.reply \notin {"403", "413"}
  BY WireIsScanned
<1>2. r.dec.action \in {"allow", "deny", "warn", "route"}
  BY <1>1, EvaluateAction DEF Passed, Judged
<1>3. /\ ~r.over_budget /\ ~r.spend_block /\ r.tripwires = {} /\ ~has_blocking(r)
      /\ r.dec.action # "deny"
  BY <1>1, Zenon DEF Passed, final_action
<1>4. ASSUME NEW w \in Sent(s), NEW x \in Readable(w.ctx), Guarded(x, r.cfg.dlp)
      PROVE  x[1] = "encpii" /\ r.truncated
  <2> DEFINE swapped == SwapOf(r)
  <2>1. IsRequest(swapped.ctx)
    BY <1>1, KindsAssumption, ApplyBoth DEF SwapOf
  <2>2. PICK scan \in Scans(swapped.ctx) :
           /\ w.ctx = detect_apply(swapped.ctx, r.cfg.dlp, scan).ctx
           /\ r.modes = detect_apply(swapped.ctx, r.cfg.dlp, scan).modes
           /\ r.truncated = detect_apply(swapped.ctx, r.cfg.dlp, scan).truncated
    BY WireIsScanned
  <2>3. "block" \notin detect_apply(swapped.ctx, r.cfg.dlp, scan).modes
    BY <1>3, <2>2 DEF has_blocking
  <2> HIDE DEF swapped
  <2>4. x[1] = "encpii" /\ detect_apply(swapped.ctx, r.cfg.dlp, scan).truncated
    BY <1>4, <2>1, <2>2, <2>3, DetectSound
  <2>5. QED
    BY <2>2, <2>4
<1>5. QED
  BY <1>1, <1>2, <1>3, <1>4

LEMMA Released == PipeInv => ReleaseIsCurrent
<1> SUFFICES ASSUME PipeInv, NEW s \in Slots, NEW w \in Sent(s), NEW secret \in Secrets,
                    Real(secret) \in Holds(w)
             PROVE  w.tls /\ \E p \in current[s] : releases(evaluate(p, req[s].kind.dest), secret)
  BY DEF ReleaseIsCurrent
<1> DEFINE r       == req[s]
           swapped == SwapOf(r)
<1>1. /\ Passed(r) /\ r.kind \in Kinds /\ w.tls = r.kind.tls
      /\ \E scan : w.ctx = detect_apply(swapped.ctx, r.cfg.dlp, scan).ctx
  BY WireIsScanned
<1>2. /\ IsRequest(swapped.ctx)
      /\ \A x \in Anywhere(swapped.ctx) :
            \/ x \in Anywhere(r.kind.ctx)
            \/ \E y \in Secrets : x = Real(y) /\ r.kind.tls /\ releases(r.dec, y)
  BY <1>1, KindsAssumption, ApplyBoth DEF SwapOf
<1> HIDE DEF swapped
<1>3. Real(secret) \in Anywhere(swapped.ctx)
  BY <1>1, <1>2, DetectAdds DEF Holds
<1>4. Real(secret) \notin Anywhere(r.kind.ctx)
  BY <1>1, SecretsAssumption, NamesAssumption
<1>5. PICK y \in Secrets : Real(secret) = Real(y) /\ r.kind.tls /\ releases(r.dec, y)
  BY <1>2, <1>3, <1>4
<1>6. y = secret
  BY <1>5, SecretsAssumption, NamesAssumption DEF Real
<1>7. r.cfg \in current[s] /\ r.dec = evaluate(r.cfg, r.kind.dest)
  BY <1>1 DEF Passed, Judged, PipeInv, PolicyInv
<1>8. QED
  BY <1>1, <1>5, <1>6, <1>7

LEMMA Announces == PipeInv => RewriteAnnounced
<1> SUFFICES ASSUME PipeInv, NEW s \in Slots, NEW w \in Sent(s)
             PROVE  w.model = Announced(req[s])
  BY DEF RewriteAnnounced
<1>1. Passed(req[s]) /\ w.model = req[s].model
  BY WireIsScanned
<1>2. QED
  BY <1>1 DEF Passed, Rewritten

\* A request that was answered has its event.
LEMMA AnswerInLog ==
    ASSUME PipeInv, NEW s \in Slots, req[s].pc # "free", req[s].reply = "ok"
    PROVE  \E e \in events : e.slot = s /\ e.action = IF req[s].dec.action = "warn" THEN "warn" ELSE "allow"
<1>1. \E e \in LogOf(s) : e.action = IF req[s].dec.action = "warn" THEN "warn" ELSE "allow"
  BY SlotGood DEF Good, Answered
<1>2. QED
  BY <1>1 DEF LogOf

LEMMA Recorded == PipeInv => DeliveredIsRecorded
<1> SUFFICES ASSUME PipeInv, NEW s \in Slots, req[s].pc # "free", req[s].reply = "ok"
             PROVE  \E e \in events : e.slot = s /\ e.action \in {"allow", "warn"}
                                         /\ (e.action = "warn" <=> req[s].dec.action = "warn")
  BY DEF DeliveredIsRecorded
<1>1. PICK e \in events : e.slot = s /\ e.action = IF req[s].dec.action = "warn" THEN "warn" ELSE "allow"
  BY AnswerInLog
<1>2. e.action \in {"allow", "warn"} /\ (e.action = "warn" <=> req[s].dec.action = "warn")
  BY <1>1
<1>3. QED
  BY <1>1, <1>2

LEMMA BillsOnce == PipeInv => BilledOnce
<1> SUFFICES ASSUME PipeInv PROVE BilledOnce
  OBVIOUS
<1>1. ASSUME NEW s \in Slots, req[s].pc # "free"
      PROVE  /\ req[s].metered <= 1
             /\ req[s].pc = "done" /\ (req[s].reply = "ok" \/ req[s].stream) => req[s].metered = 1
  <2>1. Shape(req[s]) /\ Billed(req[s], LogOf(s))
    BY SlotGood DEF Good
  <2>2. req[s].metered \in Nat /\ req[s].stream \in BOOLEAN
    BY <1>1, <2>1 DEF Shape
  <2>3. req[s].stream => req[s].stream = TRUE
    BY <2>2
  <2>4. req[s].pc = "done" => req[s].metered <= 1
    BY <2>1 DEF Billed
  <2>5. req[s].pc # "done" => req[s].metered \in {0, 1}
    BY <1>1, <2>1 DEF Shape, Places, Billed, Held, Early, Gone, Ending
  <2>6. req[s].metered <= 1
    BY <2>2, <2>4, <2>5
  <2>7. req[s].pc = "done" /\ (req[s].reply = "ok" \/ req[s].stream = TRUE) => req[s].metered = 1
    BY <2>1 DEF Billed
  <2>8. QED
    BY <2>3, <2>6, <2>7
<1>2. ASSUME NEW e \in events, e.action = "usage"
      PROVE  /\ e.ref = TRUE \/ e.ref = FALSE
             /\ e.ref = TRUE => \E f \in events : f.slot = e.slot /\ f.action \in {"allow", "warn"}
             /\ e.ref = FALSE => req[e.slot].reply \in {"503", "gone"}
  <2>1. e.slot \in Slots
    BY <1>2 DEF PipeInv, EventInv
  <2>2. e \in LogOf(e.slot)
    BY DEF LogOf
  <2>3. /\ req[e.slot].pc = "done"
        /\ \/ e.ref = TRUE /\ req[e.slot].reply = "ok"
           \/ e.ref = FALSE /\ req[e.slot].reply \in {"503", "gone"}
    BY <1>2, <2>1, <2>2, SlotGood DEF Good, Billed
  <2>4. ASSUME e.ref = TRUE
        PROVE  \E f \in events : f.slot = e.slot /\ f.action \in {"allow", "warn"}
    <3>1. req[e.slot].reply = "ok" /\ req[e.slot].pc # "free"
      BY <2>3, <2>4
    <3>2. PICK f \in events : /\ f.slot = e.slot
                              /\ f.action = IF req[e.slot].dec.action = "warn" THEN "warn" ELSE "allow"
      BY <2>1, <3>1, AnswerInLog
    <3>3. QED
      BY <3>2
  <2>5. QED
    BY <2>3, <2>4
<1>3. ASSUME NEW e \in events, e.action = "usage"
      PROVE  IF e.ref THEN \E f \in events : f.slot = e.slot /\ f.action \in {"allow", "warn"}
             ELSE req[e.slot].reply \in {"503", "gone"}
  <2>1. CASE e.ref = TRUE
    <3>1. \E f \in events : f.slot = e.slot /\ f.action \in {"allow", "warn"}
      BY <1>2, <1>3, <2>1
    <3>2. QED
      BY <2>1, <3>1
  <2>2. CASE e.ref = FALSE
    <3>1. req[e.slot].reply \in {"503", "gone"}
      BY <1>2, <1>3, <2>2
    <3>2. QED
      BY <2>2, <3>1
  <2>3. QED
    BY <1>2, <1>3, <2>1, <2>2
<1>4. QED
  BY <1>1, <1>3 DEF BilledOnce

\* docs/threat-model.md, invariant 3, for any number of requests in flight:
\* a tripwire, a DLP block, the exhausted budget and a blocking spend trip
\* each keep a request from leaving (pipeline_inner, step 5), and what a
\* blocking or masking detector guards left only encoded and past the decode
\* budget, with the alert that says so in its request (detect::apply).
THEOREM OverridesAlways == Spec => []OverridesHold
BY PipeAlways, Overrides, PTL

\* However edits, rejected files, reloads, lost reloads and requests
\* interleave, a real secret is on the wire only over TLS and under a rule of a
\* policy that held between its request's arrival and its decision: on disk,
\* or the last good one where the version on disk had been passed over
\* (Engine::refresh, apply_both).
THEOREM ReleasesCurrent == Spec => []ReleaseIsCurrent
BY PipeAlways, Released, PTL

\* What the marks of a response announce is the model that was sent
\* (soft-landing, route map).
THEOREM RewritesAnnounced == Spec => []RewriteAnnounced
BY PipeAlways, Announces, PTL

\* No response reaches an agent without its event in the log, whichever
\* appends fail (the 503 of a failed audit()).
THEOREM DeliveriesRecorded == Spec => []DeliveredIsRecorded
BY PipeAlways, Recorded, PTL

\* Delivered responses and abandoned streams are billed exactly once, and a
\* usage event refers to an event that exists (MeteredStream::record).
THEOREM ResponsesBilledOnce == Spec => []BilledOnce
BY PipeAlways, BillsOnce, PTL

-----------------------------------------------------------------------------
(***************************************************************************)
(* The overshoot.  Once the budget is spent, only requests that were       *)
(* checked before can still be billed or arm the keep-alive, and only what *)
(* is armed can still fire: what all of these may spend only goes down,    *)
(* except that a new (host, model) raises the bound with it.               *)
(***************************************************************************)
ArmPlaces == {"body", "watch", "rewrite", "swap", "verdict", "sent", "meter", "record"}
PayPlaces == ArmPlaces \cup {"stream", "drained"}

Pays(r) == r.pc \in PayPlaces /\ ~r.over_budget /\ r.metered = 0
Arms(r) == r.pc \in ArmPlaces /\ ~r.over_budget

Payers == {s \in Slots : Pays(req[s])}
Armers == {s \in Slots : Arms(req[s])}

\* The fires that entries have left, and the keys with a fire on its way.
Rounds(ka) == {x \in (DOMAIN ka) \X (1..PrewarmMax) : x[2] > ka[x[1]].fired}
Out(ka)    == {k \in DOMAIN ka : ka[k].watcher.pc # "idle"}
Left(ka)   == Cardinality(Rounds(ka)) + Cardinality(Out(ka))

Warmed(ka) ==
    IF PrewarmMax = 0 THEN 0
    ELSE (Cardinality(Slots) + Cardinality(DOMAIN ka)) * PrewarmMax + Cardinality(DOMAIN ka)

Entry(e) ==
    /\ e = [template |-> e.template, fired |-> e.fired, watcher |-> e.watcher]
    /\ e.fired \in 0..PrewarmMax /\ e.template.kind \in Kinds
    /\ e.watcher.pc # "idle" =>
          PrewarmMax > 0 /\ {"pc", "tmpl"} \subseteq DOMAIN e.watcher /\ e.watcher.tmpl.kind \in Kinds

Warm(ka) ==
    /\ IsFiniteSet(DOMAIN ka) /\ ka = [k \in DOMAIN ka |-> ka[k]]
    /\ \A k \in DOMAIN ka : Entry(ka[k])

WarmInv == spent \in Nat /\ Warm(keepalive)

OverInv ==
    spent >= Budget =>
       spent + Cardinality(Payers) + Cardinality(Armers) * PrewarmMax + Left(keepalive)
          < Budget + Cardinality(Slots) + Warmed(keepalive)

SpendInv == WarmInv /\ OverInv

LEMMA CountsType ==
    /\ IsFiniteSet(Payers) /\ IsFiniteSet(Armers) /\ Cardinality(Slots) \in Nat
    /\ Cardinality(Payers) \in Nat /\ Cardinality(Payers) <= Cardinality(Slots)
    /\ Cardinality(Armers) \in Nat /\ Cardinality(Armers) <= Cardinality(Slots)
<1>1. Payers \in SUBSET Slots /\ Armers \in SUBSET Slots
  BY DEF Payers, Armers
<1>2. QED
  BY <1>1, SlotsAssumption, FS_Subset, FS_CardinalityType

LEMMA CountsTypeAfter ==
    /\ Cardinality(Payers') \in Nat /\ Cardinality(Payers') <= Cardinality(Slots)
    /\ Cardinality(Armers') \in Nat /\ Cardinality(Armers') <= Cardinality(Slots)
<1>1. Payers' \in SUBSET Slots /\ Armers' \in SUBSET Slots
  BY DEF Payers, Armers
<1>2. QED
  BY <1>1, SlotsAssumption, FS_Subset, FS_CardinalityType

LEMMA Fewer ==
    ASSUME NEW S, IsFiniteSet(S), NEW T, T \subseteq S
    PROVE  Cardinality(T) <= Cardinality(S)
BY FS_Subset

LEMMA OneFewer ==
    ASSUME NEW S, IsFiniteSet(S), NEW s \in S, NEW T, T \subseteq S \ {s}
    PROVE  Cardinality(T) <= Cardinality(S) - 1
<1>1. IsFiniteSet(S \ {s}) /\ Cardinality(S \ {s}) = Cardinality(S) - 1
  BY FS_RemoveElement
<1>2. QED
  BY <1>1, FS_Subset

LEMMA TimesLess ==
    ASSUME NEW a \in Nat, NEW b \in Nat, NEW n \in Nat
    PROVE  /\ a <= b => a * n <= b * n
           /\ a <= b - 1 => a * n + n <= b * n
           /\ (a + 1) * n = a * n + n
           /\ a * n \in Nat
OBVIOUS

\* The fires that are left, and the bound that has room for them.
LEMMA LeftIs ==
    ASSUME NEW ka, Warm(ka)
    PROVE  /\ IsFiniteSet(DOMAIN ka) /\ IsFiniteSet(Rounds(ka)) /\ IsFiniteSet(Out(ka))
           /\ Cardinality(DOMAIN ka) \in Nat
           /\ Cardinality(Rounds(ka)) \in Nat /\ Cardinality(Out(ka)) \in Nat
           /\ Left(ka) \in Nat /\ Warmed(ka) \in Nat
           /\ Cardinality(Slots) * PrewarmMax + Left(ka) <= Warmed(ka)
<1> DEFINE n == Cardinality(DOMAIN ka)
           m == Cardinality(Slots)
           P == PrewarmMax
           I == 1..P
           D == DOMAIN ka
<1>1. IsFiniteSet(D) /\ n \in Nat /\ m \in Nat /\ P \in Nat
  BY FS_CardinalityType, SlotsAssumption, LimitAssumption DEF Warm
<1>2. IsFiniteSet(I) /\ Cardinality(I) = P
  <2>1. 1 \in Int /\ P \in Int
    BY <1>1
  <2> HIDE DEF P
  <2>2. IsFiniteSet(1..P) /\ Cardinality(1..P) = IF 1 > P THEN 0 ELSE P - 1 + 1
    BY <2>1, FS_Interval, Zenon
  <2>3. QED
    BY <1>1, <2>2
<1>3. IsFiniteSet(D \X I) /\ Cardinality(D \X I) = n * P
  <2> HIDE DEF D, I, P
  <2>1. IsFiniteSet(D \X I) /\ Cardinality(D \X I) = Cardinality(D) * Cardinality(I)
    BY <1>1, <1>2, FS_Product
  <2>2. QED
    BY <1>2, <2>1 DEF D
<1>4. Rounds(ka) \subseteq D \X I /\ Out(ka) \subseteq D
  BY DEF Rounds, Out
<1>5. /\ IsFiniteSet(Rounds(ka)) /\ Cardinality(Rounds(ka)) <= n * P
      /\ IsFiniteSet(Out(ka)) /\ Cardinality(Out(ka)) <= n
  <2> HIDE DEF I, P
  <2>1. IsFiniteSet(Rounds(ka)) /\ Cardinality(Rounds(ka)) <= Cardinality(D \X I)
    BY <1>3, <1>4, FS_Subset
  <2>2. IsFiniteSet(Out(ka)) /\ Cardinality(Out(ka)) <= n
    BY <1>1, <1>4, FS_Subset
  <2>3. QED
    BY <1>3, <2>1, <2>2
<1>6. Cardinality(Rounds(ka)) \in Nat /\ Cardinality(Out(ka)) \in Nat
  BY <1>5, FS_CardinalityType
<1>7. P = 0 => Cardinality(Rounds(ka)) = 0 /\ Cardinality(Out(ka)) = 0
  <2> SUFFICES ASSUME P = 0 PROVE Cardinality(Rounds(ka)) = 0 /\ Cardinality(Out(ka)) = 0
    OBVIOUS
  <2>1. Out(ka) = {}
    BY DEF Out, Warm, Entry
  <2>2. n * P = 0
    BY <1>1
  <2>3. QED
    BY <1>5, <1>6, <2>1, <2>2, FS_EmptySet
<1> DEFINE a == m * P
           b == n * P
           c == Cardinality(Rounds(ka))
           d == Cardinality(Out(ka))
<1>8. a \in Nat /\ b \in Nat /\ (m + n) * P = a + b /\ (P = 0 => a = 0)
  BY <1>1
<1>9. Warmed(ka) = IF P = 0 THEN 0 ELSE (m + n) * P + n
  BY DEF Warmed
<1>10. Warmed(ka) = IF P = 0 THEN 0 ELSE a + b + n
  <2> HIDE DEF a, b, m, n, P
  <2>1. QED
    BY <1>8, <1>9
<1>11. Left(ka) = c + d
  BY DEF Left
<1>12. c \in Nat /\ d \in Nat /\ c <= b /\ d <= n /\ (P = 0 => c = 0 /\ d = 0)
  BY <1>5, <1>6, <1>7
<1>13. Left(ka) \in Nat /\ Warmed(ka) \in Nat /\ a + Left(ka) <= Warmed(ka)
  <2> HIDE DEF a, b, c, d, m, n, P
  <2>1. QED
    BY <1>1, <1>8, <1>10, <1>11, <1>12
<1>14. QED
  BY <1>1, <1>5, <1>6, <1>13

\* A step that bills nothing: who can still be billed or arm were before.
LEMMA SpendKept ==
    ASSUME SpendInv, WarmInv', UNCHANGED <<spent, keepalive>>,
           spent >= Budget => Payers' \subseteq Payers /\ Armers' \subseteq Armers
    PROVE  SpendInv'
<1> DEFINE l == Left(keepalive)
           w == Warmed(keepalive)
           x == Cardinality(Armers) * PrewarmMax
           y == Cardinality(Armers') * PrewarmMax
<1> SUFFICES ASSUME spent >= Budget
             PROVE  spent + Cardinality(Payers') + y + l < Budget + Cardinality(Slots) + w
  BY DEF SpendInv, OverInv, Left, Warmed, Rounds, Out
<1>1. spent + Cardinality(Payers) + x + l < Budget + Cardinality(Slots) + w
  BY DEF SpendInv, OverInv
<1>2. Cardinality(Payers') <= Cardinality(Payers) /\ Cardinality(Armers') <= Cardinality(Armers)
  BY CountsType, Fewer
<1>3. y <= x /\ x \in Nat /\ y \in Nat
  BY <1>2, CountsType, CountsTypeAfter, TimesLess, LimitAssumption
<1>4. l \in Nat /\ w \in Nat /\ spent \in Nat /\ Budget \in Nat
  BY LeftIs, LimitAssumption DEF SpendInv, WarmInv
<1> HIDE DEF l, w, x, y
<1>5. QED
  BY <1>1, <1>2, <1>3, <1>4, CountsType, CountsTypeAfter

\* A request is billed.
LEMMA SpendBilled ==
    ASSUME SpendInv, WarmInv', NEW s \in Payers, NEW c \in {0, 1}, spent' = spent + c,
           UNCHANGED keepalive, Payers' \subseteq Payers \ {s}, Armers' \subseteq Armers
    PROVE  SpendInv'
<1> DEFINE l == Left(keepalive)
           w == Warmed(keepalive)
           x == Cardinality(Armers) * PrewarmMax
           y == Cardinality(Armers') * PrewarmMax
           z == Cardinality(Slots) * PrewarmMax
<1> SUFFICES ASSUME spent + c >= Budget
             PROVE  spent + c + Cardinality(Payers') + y + l < Budget + Cardinality(Slots) + w
  BY DEF SpendInv, OverInv, Left, Warmed, Rounds, Out
<1>1. Cardinality(Payers') <= Cardinality(Payers) - 1 /\ Cardinality(Armers') <= Cardinality(Armers)
  BY CountsType, Fewer, OneFewer
<1>2. x \in Nat /\ y \in Nat /\ z \in Nat /\ y <= x /\ x <= z
  BY <1>1, CountsType, CountsTypeAfter, TimesLess, LimitAssumption
<1>3. /\ l \in Nat /\ w \in Nat /\ spent \in Nat /\ Budget \in Nat
      /\ z + l <= w
  BY LeftIs, LimitAssumption DEF SpendInv, WarmInv
<1>4. spent >= Budget => spent + Cardinality(Payers) + x + l < Budget + Cardinality(Slots) + w
  BY DEF SpendInv, OverInv
<1> HIDE DEF l, w, x, y, z
<1>5. CASE spent >= Budget
  BY <1>1, <1>2, <1>3, <1>4, <1>5, CountsType, CountsTypeAfter
<1>6. CASE spent < Budget
  BY <1>1, <1>2, <1>3, <1>6, CountsType, CountsTypeAfter
<1>7. QED
  BY <1>3, <1>5, <1>6

\* A request arms the keep-alive: what it was counted for is now the entry's.
LEMMA SpendArmed ==
    ASSUME SpendInv, WarmInv', NEW s \in Armers, spent' = spent,
           Left(keepalive') <= Left(keepalive) + PrewarmMax, Warmed(keepalive) <= Warmed(keepalive'),
           Payers' \subseteq Payers, Armers' \subseteq Armers \ {s}
    PROVE  SpendInv'
<1> DEFINE l == Left(keepalive)
           k == Left(keepalive')
           w == Warmed(keepalive)
           v == Warmed(keepalive')
           x == Cardinality(Armers) * PrewarmMax
           y == Cardinality(Armers') * PrewarmMax
<1> SUFFICES ASSUME spent >= Budget
             PROVE  spent + Cardinality(Payers') + y + k < Budget + Cardinality(Slots) + v
  BY DEF SpendInv, OverInv, Left, Warmed, Rounds, Out
<1>1. Cardinality(Payers') <= Cardinality(Payers) /\ Cardinality(Armers') <= Cardinality(Armers) - 1
  BY CountsType, Fewer, OneFewer
<1>2. x \in Nat /\ y \in Nat /\ y + PrewarmMax <= x
  BY <1>1, CountsType, CountsTypeAfter, TimesLess, LimitAssumption
<1>3. /\ l \in Nat /\ w \in Nat /\ spent \in Nat /\ Budget \in Nat /\ PrewarmMax \in Nat
      /\ k \in Nat /\ v \in Nat
  BY LeftIs, LimitAssumption DEF SpendInv, WarmInv
<1>4. spent + Cardinality(Payers) + x + l < Budget + Cardinality(Slots) + w
  BY DEF SpendInv, OverInv
<1>5. k <= l + PrewarmMax /\ w <= v
  OBVIOUS
<1> HIDE DEF l, k, w, v, x, y
<1>6. QED
  BY <1>1, <1>2, <1>3, <1>4, <1>5, CountsType, CountsTypeAfter

\* The keep-alive: a fire that is due becomes one on its way, and that is billed.
LEMMA SpendFired ==
    ASSUME SpendInv, WarmInv', UNCHANGED req, NEW c \in {0, 1}, spent' = spent + c,
           Left(keepalive') + c <= Left(keepalive), DOMAIN keepalive' = DOMAIN keepalive
    PROVE  SpendInv'
<1> DEFINE l == Left(keepalive)
           k == Left(keepalive')
           w == Warmed(keepalive)
           x == Cardinality(Armers) * PrewarmMax
           z == Cardinality(Slots) * PrewarmMax
<1>1. Payers' = Payers /\ Armers' = Armers
  BY DEF Payers, Armers, Pays, Arms
<1>2. Warmed(keepalive') = w
  BY DEF Warmed
<1> SUFFICES ASSUME spent + c >= Budget
             PROVE  spent + c + Cardinality(Payers) + x + k < Budget + Cardinality(Slots) + w
  BY <1>1, <1>2 DEF SpendInv, OverInv, Left, Warmed, Rounds, Out
<1>3. x \in Nat /\ z \in Nat /\ x <= z
  BY CountsType, TimesLess, LimitAssumption
<1>4. /\ l \in Nat /\ w \in Nat /\ spent \in Nat /\ Budget \in Nat /\ k \in Nat /\ z + l <= w
  BY LeftIs, LimitAssumption DEF SpendInv, WarmInv
<1>5. spent >= Budget => spent + Cardinality(Payers) + x + l < Budget + Cardinality(Slots) + w
  BY DEF SpendInv, OverInv
<1>6. k + c <= l
  OBVIOUS
<1> HIDE DEF l, k, w, x, z
<1>7. CASE spent >= Budget
  BY <1>3, <1>4, <1>5, <1>6, <1>7, CountsType
<1>8. CASE spent < Budget
  BY <1>3, <1>4, <1>6, <1>8, CountsType
<1>9. QED
  BY <1>4, <1>7, <1>8

\* A request that may still be billed has been checked.
LEMMA PayersChecked ==
    ASSUME PipeInv, NEW s \in Slots, req[s].pc \in PayPlaces
    PROVE  /\ "over_budget" \in DOMAIN req[s] /\ Base \subseteq DOMAIN req[s] /\ req[s].kind \in Kinds
           /\ req[s].pc \in Gone => ~req[s].over_budget
<1>1. Good(req[s], Sent(s), LogOf(s))
  BY SlotGood
<1>2. Base \subseteq DOMAIN req[s] /\ req[s].kind \in Kinds
  BY <1>1 DEF Good, Shape, PayPlaces, ArmPlaces
<1>3. req[s].pc \in Gone => Passed(req[s])
  BY <1>1 DEF Good, Sending
<1>4. req[s].pc \in Gone => ~req[s].over_budget
  BY <1>3, Zenon DEF Passed, final_action
<1>5. Checked(req[s])
  <2>1. CASE req[s].pc \in Gone
    BY <1>3, <2>1 DEF Passed
  <2>2. CASE req[s].pc \notin Gone
    BY <1>1, <2>2 DEF Good, Progress, PayPlaces, ArmPlaces, Gone, Ending
  <2>3. QED
    BY <2>1, <2>2
<1>6. QED
  BY <1>2, <1>4, <1>5 DEF Checked

\* A request moves on.
LEMMA Later ==
    ASSUME PipeInv, NEW s \in Slots, NEW u, Step(s, u), "pc" \in DOMAIN u, "over_budget" \notin DOMAIN u,
           u.pc \in PayPlaces => req[s].pc \in PayPlaces /\ "metered" \notin DOMAIN u,
           u.pc \in ArmPlaces => req[s].pc \in ArmPlaces
    PROVE  /\ Payers' \subseteq Payers /\ Armers' \subseteq Armers
           /\ u.pc \notin PayPlaces => Payers' \subseteq Payers \ {s}
           /\ u.pc \notin ArmPlaces => Armers' \subseteq Armers \ {s}
<1> DEFINE r == req[s]
           q == req'[s]
<1>1. q = Merge(r, u) /\ \A x \in Slots \ {s} : req'[x] = req[x]
  BY StepMerges DEF PipeInv, SlotsInv
<1>2. q.pc = u.pc
  BY <1>1, Sets
<1>3. ASSUME u.pc \in PayPlaces PROVE q.over_budget = r.over_budget /\ q.metered = r.metered
  <2>1. Base \subseteq DOMAIN r /\ "over_budget" \in DOMAIN r
    BY <1>3, PayersChecked
  <2> HIDE DEF r, q
  <2>2. QED
    BY <1>1, <1>3, <2>1, Kept
<1>4. Pays(q) => Pays(r)
  BY <1>2, <1>3 DEF Pays
<1>5. Arms(q) => Arms(r)
  BY <1>2, <1>3 DEF Arms, PayPlaces
<1>6. ~(u.pc \in PayPlaces) => ~Pays(q)
  BY <1>2 DEF Pays
<1>7. ~(u.pc \in ArmPlaces) => ~Arms(q)
  BY <1>2 DEF Arms
<1>8. Payers' = {x \in Slots : Pays(req'[x])} /\ Armers' = {x \in Slots : Arms(req'[x])}
  BY DEF Payers, Armers, Pays, Arms
<1>9. Payers' \subseteq Payers /\ (u.pc \notin PayPlaces => Payers' \subseteq Payers \ {s})
  BY <1>1, <1>4, <1>6, <1>8 DEF Payers
<1>10. Armers' \subseteq Armers /\ (u.pc \notin ArmPlaces => Armers' \subseteq Armers \ {s})
  BY <1>1, <1>5, <1>7, <1>8 DEF Armers
<1>11. QED
  BY <1>9, <1>10

LEMMA SpendMoves ==
    ASSUME PipeInv, SpendInv, UNCHANGED <<spent, keepalive>>,
           NEW s \in Slots, NEW u, Step(s, u), "pc" \in DOMAIN u, "over_budget" \notin DOMAIN u,
           u.pc \in PayPlaces => req[s].pc \in PayPlaces /\ "metered" \notin DOMAIN u,
           u.pc \in ArmPlaces => req[s].pc \in ArmPlaces
    PROVE  SpendInv'
<1>1. Payers' \subseteq Payers /\ Armers' \subseteq Armers
  BY Later
<1>2. WarmInv'
  BY DEF SpendInv, WarmInv
<1>3. QED
  BY <1>1, <1>2, SpendKept

LEMMA SpendServe ==
    ASSUME PipeInv, SpendInv, NEW s \in Slots,
           \/ Refresh(s) \/ Reload(s) \/ Decide(s) \/ ReadBody(s) \/ WatchSpend(s) \/ Rewrite(s)
           \/ SwapAndScan(s) \/ Deny(s) \/ Forward(s) \/ Respond(s) \/ UpstreamFails(s) \/ Hangup(s)
           \/ StreamEnds(s) \/ DropStream(s) \/ UsageEvent(s)
    PROVE  SpendInv'
<1>1. UNCHANGED <<spent, keepalive>>
  BY DEF Refresh, Reload, Decide, ReadBody, WatchSpend, Rewrite, SwapAndScan, Deny, Forward, Respond,
         UpstreamFails, Hangup, StreamEnds, DropStream, UsageEvent
<1>2. ASSUME NEW u, Step(s, u), "pc" \in DOMAIN u, "over_budget" \notin DOMAIN u, "metered" \notin DOMAIN u,
             u.pc \in PayPlaces => req[s].pc \in PayPlaces,
             u.pc \in ArmPlaces => req[s].pc \in ArmPlaces
      PROVE  SpendInv'
  BY <1>1, <1>2, SpendMoves
<1>3. CASE Refresh(s) \/ Reload(s) \/ Decide(s)
  <2>1. PICK u : /\ Step(s, u) /\ DOMAIN u \subseteq {"pc", "dec", "cfg", "read"} /\ "pc" \in DOMAIN u
                 /\ u.pc \in {"reload", "decide", "budget"}
    <3>1. CASE Refresh(s)
      <4>1. Step(s, [pc |-> "reload", read |-> file]) \/ Step(s, [pc |-> "decide"])
        BY <3>1 DEF Refresh
      <4>2. QED
        BY <4>1
    <3>2. CASE Reload(s)
      BY <3>2 DEF Reload
    <3>3. CASE Decide(s)
      <4> DEFINE u == [pc |-> "budget", dec |-> evaluate(policy, req[s].kind.dest), cfg |-> policy]
      <4>1. Step(s, u) /\ DOMAIN u = {"pc", "dec", "cfg"} /\ u.pc = "budget"
        BY <3>3 DEF Decide
      <4>2. QED
        BY <4>1
    <3>4. QED
      BY <1>3, <3>1, <3>2, <3>3
  <2>2. QED
    BY <1>2, <2>1 DEF PayPlaces, ArmPlaces
<1>4. CASE ReadBody(s) \/ WatchSpend(s)
  <2>1. req[s].pc \in ArmPlaces
    BY <1>4 DEF ReadBody, WatchSpend, At, ArmPlaces
  <2>2. PICK u : Step(s, u) /\ DOMAIN u \subseteq {"pc", "reply", "spend_block"} /\ "pc" \in DOMAIN u
    <3>1. CASE ReadBody(s)
      <4>1. \/ Step(s, [pc |-> "done", reply |-> "413"])
            \/ Step(s, [pc |-> "done", reply |-> "502"])
            \/ Step(s, [pc |-> "watch"])
        BY <3>1 DEF ReadBody
      <4>2. QED
        BY <4>1
    <3>2. CASE WatchSpend(s)
      <4>1. PICK block : Step(s, [pc |-> "rewrite", spend_block |-> block])
        BY <3>2 DEF WatchSpend
      <4>2. QED
        BY <4>1
    <3>3. QED
      BY <1>4, <3>1, <3>2
  <2>3. QED
    BY <1>2, <2>1, <2>2 DEF PayPlaces
<1>5. CASE Rewrite(s) \/ SwapAndScan(s)
  <2>1. req[s].pc \in ArmPlaces
    BY <1>5 DEF Rewrite, SwapAndScan, At, ArmPlaces
  <2>2. PICK u : /\ Step(s, u) /\ "pc" \in DOMAIN u
                 /\ DOMAIN u \subseteq {"pc", "model", "marks", "keepalive", "ctx", "tripwires", "modes",
                                        "truncated", "before"}
    <3>1. CASE Rewrite(s)
      <4>1. PICK model, marks, keep :
               Step(s, [pc |-> "swap", model |-> model, marks |-> marks, keepalive |-> keep])
        BY <3>1 DEF Rewrite
      <4>2. QED
        BY <4>1
    <3>2. CASE SwapAndScan(s)
      <4>1. PICK ctx, trip, hits, cut :
               Step(s, [pc |-> "verdict", ctx |-> ctx, tripwires |-> trip, modes |-> hits,
                        truncated |-> cut, before |-> req[s].ctx])
        BY <3>2 DEF SwapAndScan
      <4>2. QED
        BY <4>1
    <3>3. QED
      BY <1>5, <3>1, <3>2
  <2>3. QED
    BY <1>2, <2>1, <2>2 DEF PayPlaces
<1>6. CASE Deny(s) \/ UpstreamFails(s) \/ UsageEvent(s)
  <2>1. PICK u : Step(s, u) /\ DOMAIN u \subseteq {"pc", "reply"} /\ "pc" \in DOMAIN u /\ u.pc = "done"
    BY <1>6 DEF Deny, UpstreamFails, UsageEvent
  <2>2. QED
    BY <1>2, <2>1 DEF PayPlaces, ArmPlaces
<1>7. CASE Forward(s) \/ Respond(s)
  <2>1. req[s].pc \in ArmPlaces
    BY <1>7 DEF Forward, Respond, At, ArmPlaces
  <2>2. PICK u : Step(s, u) /\ DOMAIN u \subseteq {"pc", "stream", "held"} /\ "pc" \in DOMAIN u
    <3>1. CASE Forward(s)
      BY <3>1 DEF Forward
    <3>2. CASE Respond(s)
      <4>1. PICK stream : Step(s, [pc |-> "meter", stream |-> stream, held |-> stream])
        BY <3>2 DEF Respond
      <4>2. QED
        BY <4>1
    <3>3. QED
      BY <1>7, <3>1, <3>2
  <2>3. QED
    BY <1>2, <2>1, <2>2 DEF PayPlaces
<1>8. CASE StreamEnds(s) \/ DropStream(s)
  <2>1. PICK u : /\ Step(s, u) /\ DOMAIN u \subseteq {"pc", "recorded", "held"} /\ "pc" \in DOMAIN u
                 /\ u.pc = record(req[s])
    <3>1. CASE StreamEnds(s)
      <4>1. Step(s, [pc |-> record(req[s]), recorded |-> TRUE])
        BY <3>1 DEF StreamEnds
      <4>2. QED
        BY <4>1
    <3>2. CASE DropStream(s)
      <4>1. Step(s, [pc |-> record(req[s]), recorded |-> TRUE, held |-> FALSE])
        BY <3>2 DEF DropStream
      <4>2. QED
        BY <4>1
    <3>3. QED
      BY <1>8, <3>1, <3>2
  <2>2. /\ req[s].pc \in {"stream", "drained", "usage", "done"}
        /\ u.pc = IF req[s].pc = "stream" THEN "drained" ELSE req[s].pc
    <3>1. req[s].pc = "stream" => req[s].recorded = FALSE
      BY SlotGood DEF Good, Billed
    <3>2. req[s].pc \in {"drained", "usage"} => req[s].recorded = TRUE
      BY SlotGood DEF Good, Billed
    <3>3. CASE StreamEnds(s)
      BY <2>1, <3>1, <3>3 DEF StreamEnds, At, record
    <3>4. CASE DropStream(s)
      <4>1. req[s].pc \in {"stream", "drained", "usage", "done"} /\ req[s].held = TRUE
        BY <3>4, SlotGood DEF DropStream, Good, Shape
      <4>2. req[s].pc = "done" => req[s].recorded = TRUE
        BY <4>1, SlotGood DEF Good, Billed
      <4>3. QED
        BY <2>1, <3>1, <3>2, <4>1, <4>2 DEF record
    <3>5. QED
      BY <1>8, <3>3, <3>4
  <2>3. QED
    BY <1>2, <2>1, <2>2 DEF PayPlaces, ArmPlaces
<1>9. CASE Hangup(s)
  <2>1. req[s].pc \in Held \cup {"sent", "meter", "record"} /\ req[s].held \in BOOLEAN
    BY <1>9, SlotGood DEF Hangup, InFlight, Good, Shape, Places, Held, Early, Gone, Ending
  <2>2. PICK u : /\ Step(s, u) /\ DOMAIN u = {"pc", "recorded", "held", "reply", "ref"}
                 /\ u.pc = IF req[s].held THEN record(req[s]) ELSE "done"
    <3>1. Step(s, [pc |-> IF req[s].held THEN record(req[s]) ELSE "done", recorded |-> req[s].held,
                   held |-> FALSE, reply |-> "gone", ref |-> FALSE])
      BY <1>9 DEF Hangup, Abandon
    <3>2. QED
      BY <3>1
  <2>3. CASE req[s].held = TRUE
    <3>1. req[s].pc \in {"meter", "record"} /\ req[s].recorded = FALSE
      BY <2>1, <2>3, SlotGood DEF Good, Billed
    <3>2. u.pc = "drained"
      BY <2>2, <2>3, <3>1 DEF record
    <3>3. QED
      BY <1>2, <2>2, <3>1, <3>2 DEF PayPlaces, ArmPlaces
  <2>4. CASE req[s].held = FALSE
    BY <1>2, <2>2, <2>4 DEF PayPlaces, ArmPlaces
  <2>5. QED
    BY <2>1, <2>3, <2>4
<1>10. QED
  BY <1>3, <1>4, <1>5, <1>6, <1>7, <1>8, <1>9

\* The check: a request that finds the budget spent will not be billed.
LEMMA SpendCheckBudget ==
    ASSUME PipeInv, SpendInv, NEW s \in Slots, CheckBudget(s)
    PROVE  SpendInv'
<1> DEFINE u == [pc |-> "body", over_budget |-> spent >= Budget, band |-> spent >= SoftAt]
<1>1. Step(s, u) /\ UNCHANGED <<spent, keepalive>>
  BY DEF CheckBudget
<1>2. /\ req'[s] = Merge(req[s], u) /\ \A x \in Slots \ {s} : req'[x] = req[x]
  <2> HIDE DEF u
  <2>1. QED
    BY <1>1, StepMerges DEF PipeInv, SlotsInv
<1>3. "over_budget" \in DOMAIN u /\ u.over_budget = (spent >= Budget)
  OBVIOUS
<1> HIDE DEF u
<1>4. req'[s].over_budget = (spent >= Budget)
  BY <1>2, <1>3, Sets
<1>5. ASSUME spent >= Budget PROVE Payers' \subseteq Payers /\ Armers' \subseteq Armers
  <2>1. ~Pays(req'[s]) /\ ~Arms(req'[s])
    BY <1>4, <1>5 DEF Pays, Arms
  <2>2. Payers' = {x \in Slots : Pays(req'[x])} /\ Armers' = {x \in Slots : Arms(req'[x])}
    BY DEF Payers, Armers, Pays, Arms
  <2>3. QED
    BY <1>2, <2>1, <2>2 DEF Payers, Armers
<1>6. WarmInv'
  BY <1>1 DEF SpendInv, WarmInv
<1>7. QED
  BY <1>1, <1>5, <1>6, SpendKept

LEMMA CostIs ==
    ASSUME NEW k \in Kinds
    PROVE  Cost(k) \in {0, 1}
BY KindsAssumption DEF Cost

LEMMA SpendMetered ==
    ASSUME PipeInv, SpendInv, NEW s \in Slots, Meter(s)
    PROVE  SpendInv'
<1>1. /\ req[s].pc = "meter" /\ req[s].stream \in BOOLEAN /\ req[s].metered = 0
      /\ UNCHANGED keepalive
  BY SlotGood DEF Meter, At, Good, Shape, Billed
<1>2. CASE req[s].stream = TRUE
  <2> DEFINE u == [pc |-> "record"]
  <2>1. Step(s, u) /\ DOMAIN u = {"pc"} /\ u.pc = "record" /\ UNCHANGED spent
    BY <1>2 DEF Meter
  <2> HIDE DEF u
  <2>2. QED
    BY <1>1, <2>1, SpendMoves DEF PayPlaces, ArmPlaces
<1>3. CASE req[s].stream = FALSE
  <2> DEFINE u == [pc |-> "record", metered |-> req[s].metered + 1]
             r == req[s]
             q == req'[s]
             c == Cost(r.kind)
  <2>1. Step(s, u) /\ spent' = spent + c
    BY <1>3 DEF Meter
  <2>2. DOMAIN u = {"pc", "metered"} /\ u.pc = "record" /\ u.metered = 1
    BY <1>1
  <2> HIDE DEF u
  <2>3. q = Merge(r, u) /\ \A x \in Slots \ {s} : req'[x] = req[x]
    BY <2>1, StepMerges DEF PipeInv, SlotsInv
  <2>4. /\ Base \subseteq DOMAIN r /\ "over_budget" \in DOMAIN r /\ r.kind \in Kinds
        /\ ~r.over_budget
    BY <1>1, PayersChecked DEF PayPlaces, ArmPlaces, Gone
  <2>5. q.pc = "record" /\ q.metered = 1
    BY <2>2, <2>3, Sets
  <2>6. q.over_budget = r.over_budget
    <3> HIDE DEF q, r
    <3>1. QED
      BY <2>2, <2>3, <2>4, Kept
  <2>7. s \in Payers /\ s \in Armers
    BY <1>1, <2>4 DEF Payers, Pays, Armers, Arms, PayPlaces, ArmPlaces
  <2>8. Payers' = {x \in Slots : Pays(req'[x])} /\ Armers' = {x \in Slots : Arms(req'[x])}
    BY DEF Payers, Armers, Pays, Arms
  <2>9. ~Pays(q)
    BY <2>5 DEF Pays
  <2>10. Payers' \subseteq Payers \ {s}
    BY <2>3, <2>8, <2>9 DEF Payers
  <2>11. Armers' \subseteq Armers
    BY <2>3, <2>7, <2>8 DEF Armers
  <2>12. c \in {0, 1}
    BY <2>4, CostIs
  <2>13. WarmInv'
    BY <1>1, <2>1, <2>12 DEF SpendInv, WarmInv
  <2> HIDE DEF c
  <2>14. QED
    BY <1>1, <2>1, <2>7, <2>10, <2>11, <2>12, <2>13, SpendBilled
<1>4. QED
  BY <1>1, <1>2, <1>3

LEMMA SpendSettle ==
    ASSUME PipeInv, SpendInv, NEW s \in Slots, Settle(s)
    PROVE  SpendInv'
<1> DEFINE u == [pc |-> "usage", metered |-> req[s].metered + 1]
           c == Cost(req[s].kind)
<1>1. /\ req[s].pc = "drained" /\ req[s].metered = 0 /\ UNCHANGED keepalive
      /\ spent' = spent + c /\ Step(s, u)
  BY SlotGood DEF Settle, At, Good, Billed
<1>2. DOMAIN u = {"pc", "metered"} /\ u.pc = "usage"
  OBVIOUS
<1> HIDE DEF u
<1>3. req[s].kind \in Kinds /\ ~req[s].over_budget
  BY <1>1, PayersChecked DEF PayPlaces, Gone, Ending
<1>4. s \in Payers
  BY <1>1, <1>3 DEF Payers, Pays, PayPlaces
<1>5. Payers' \subseteq Payers \ {s} /\ Armers' \subseteq Armers
  BY <1>1, <1>2, Later DEF PayPlaces, ArmPlaces
<1>6. c \in {0, 1}
  BY <1>3, CostIs
<1>7. WarmInv'
  BY <1>1, <1>6 DEF SpendInv, WarmInv
<1> HIDE DEF c
<1>8. QED
  BY <1>1, <1>4, <1>5, <1>6, <1>7, SpendBilled

\* An entry that is set: one round of fires more at most.
LEMMA ArmAdds ==
    ASSUME NEW ka, Warm(ka), NEW key, NEW tmpl, tmpl.kind \in Kinds, NEW kb,
           kb = [k \in DOMAIN ka \cup {key} |->
                   IF k = key
                   THEN [template |-> tmpl, fired |-> 0,
                         watcher |-> IF k \in DOMAIN ka THEN ka[k].watcher ELSE Quiet]
                   ELSE ka[k]]
    PROVE  Warm(kb) /\ Left(kb) <= Left(ka) + PrewarmMax /\ Warmed(ka) <= Warmed(kb)
<1> DEFINE w == IF key \in DOMAIN ka THEN ka[key].watcher ELSE Quiet
           e == [template |-> tmpl, fired |-> 0, watcher |-> w]
           P == PrewarmMax
<1>1. /\ DOMAIN kb = DOMAIN ka \cup {key} /\ kb = [k \in DOMAIN kb |-> kb[k]]
      /\ kb[key] = e /\ \A k \in DOMAIN ka \ {key} : kb[k] = ka[k]
  OBVIOUS
<1>2. /\ e.template = tmpl /\ e.fired = 0 /\ e.watcher = w
      /\ e = [template |-> e.template, fired |-> e.fired, watcher |-> e.watcher]
  OBVIOUS
<1>3. P \in Nat
  BY LimitAssumption
<1>4. w.pc # "idle" => key \in DOMAIN ka /\ w = ka[key].watcher
  BY DEF Quiet
<1>5. key \in DOMAIN ka => w = ka[key].watcher
  OBVIOUS
<1> HIDE DEF w, e
<1>6. Entry(e)
  BY <1>2, <1>3, <1>4 DEF Entry, Warm
<1>7. IsFiniteSet(DOMAIN kb) /\ Cardinality(DOMAIN ka) <= Cardinality(DOMAIN kb)
  <2>1. IsFiniteSet(DOMAIN ka \cup {key})
    BY LeftIs, FS_AddElement
  <2>2. QED
    BY <1>1, <2>1, Fewer
<1>8. Warm(kb)
  BY <1>1, <1>6, <1>7 DEF Warm
<1>9. Warmed(ka) <= Warmed(kb)
  <2> DEFINE m == Cardinality(Slots)
             n == Cardinality(DOMAIN ka)
             o == Cardinality(DOMAIN kb)
  <2>1. m \in Nat /\ n \in Nat /\ o \in Nat /\ n <= o
    BY <1>7, <1>8, LeftIs, CountsType
  <2>2. (m + n) * P <= (m + o) * P /\ (m + n) * P \in Nat /\ (m + o) * P \in Nat
    <3> HIDE DEF m, n, o, P
    <3>1. QED
      BY <1>3, <2>1, TimesLess
  <2>3. Warmed(ka) = IF P = 0 THEN 0 ELSE (m + n) * P + n
    BY DEF Warmed
  <2>4. Warmed(kb) = IF P = 0 THEN 0 ELSE (m + o) * P + o
    BY DEF Warmed
  <2> DEFINE a == (m + n) * P
             b == (m + o) * P
  <2> HIDE DEF m, n, o, P, a, b
  <2>5. a <= b /\ a \in Nat /\ b \in Nat /\ Warmed(ka) = (IF P = 0 THEN 0 ELSE a + n)
        /\ Warmed(kb) = (IF P = 0 THEN 0 ELSE b + o)
    BY <2>2, <2>3, <2>4 DEF a, b
  <2>6. QED
    BY <2>1, <2>5
<1>10. Out(kb) \subseteq Out(ka)
  BY <1>1, <1>2, <1>4 DEF Out
<1>11. Cardinality(Out(kb)) <= Cardinality(Out(ka))
  BY <1>10, LeftIs, Fewer
<1> DEFINE more == {key} \X (1..P)
<1>12. Rounds(kb) \subseteq Rounds(ka) \cup more
  BY <1>1 DEF Rounds
<1>13. IsFiniteSet(more) /\ Cardinality(more) = P
  <2>1. 1 \in Int /\ P \in Int
    BY <1>3
  <2> DEFINE I == 1..P
             K == {key}
  <2> HIDE DEF P
  <2>2. IsFiniteSet(I) /\ Cardinality(I) = IF 1 > P THEN 0 ELSE P - 1 + 1
    BY <2>1, FS_Interval, Zenon
  <2>3. IsFiniteSet(K) /\ Cardinality(K) = 1
    BY FS_Singleton
  <2>4. Cardinality(I) = P
    BY <1>3, <2>2
  <2> HIDE DEF I, K
  <2>5. IsFiniteSet(K \X I) /\ Cardinality(K \X I) = Cardinality(K) * Cardinality(I)
    BY <2>2, <2>3, FS_Product
  <2>6. IsFiniteSet(K \X I) /\ Cardinality(K \X I) = P
    BY <1>3, <2>3, <2>4, <2>5
  <2>7. QED
    BY <2>6 DEF K, I
<1> HIDE DEF more
<1>14. Cardinality(Rounds(kb)) <= Cardinality(Rounds(ka)) + P
  <2>1. IsFiniteSet(Rounds(ka)) /\ Cardinality(Rounds(ka)) \in Nat
    BY LeftIs
  <2>2. /\ IsFiniteSet(Rounds(ka) \cup more)
        /\ Cardinality(Rounds(ka) \cup more)
             = Cardinality(Rounds(ka)) + Cardinality(more) - Cardinality(Rounds(ka) \cap more)
    BY <1>13, <2>1, FS_Union
  <2>3. Cardinality(Rounds(ka) \cap more) \in Nat
    BY <2>1, FS_Intersection, FS_CardinalityType
  <2>4. Cardinality(Rounds(kb)) <= Cardinality(Rounds(ka) \cup more)
    BY <1>12, <2>2, Fewer
  <2>5. Cardinality(Rounds(kb)) \in Nat
    BY <1>8, LeftIs
  <2> HIDE DEF P
  <2>6. QED
    BY <1>3, <1>13, <2>1, <2>2, <2>3, <2>4, <2>5
<1>15. Left(kb) <= Left(ka) + P
  <2>1. /\ Cardinality(Out(ka)) \in Nat /\ Cardinality(Out(kb)) \in Nat
        /\ Cardinality(Rounds(ka)) \in Nat /\ Cardinality(Rounds(kb)) \in Nat
    BY <1>8, LeftIs
  <2>2. QED
    BY <1>3, <1>11, <1>14, <2>1 DEF Left
<1>16. QED
  BY <1>8, <1>9, <1>15

LEMMA SpendRecord ==
    ASSUME PipeInv, SpendInv, NEW s \in Slots, Record(s)
    PROVE  SpendInv'
<1>1. /\ req[s].pc = "record" /\ UNCHANGED spent /\ req[s].held \in BOOLEAN
      /\ req[s].recorded = FALSE
  BY SlotGood DEF Record, At, Good, Shape, Billed
<1>2. PICK recorded \in BOOLEAN : Delivery(s, recorded) /\ Arm(s, recorded)
  BY DEF Record, When
<1>3. PICK u : /\ Step(s, u) /\ {"pc"} \subseteq DOMAIN u /\ DOMAIN u \subseteq {"pc", "reply", "ref", "recorded", "held"}
               /\ u.pc \in {"stream", "done", "drained"}
  <2>1. CASE recorded = TRUE
    <3> DEFINE u == [pc |-> IF req[s].held THEN "stream" ELSE "done", reply |-> "ok", ref |-> TRUE]
    <3>1. Step(s, u) /\ DOMAIN u = {"pc", "reply", "ref"} /\ u.pc \in {"stream", "done", "drained"}
      BY <1>2, <2>1 DEF Delivery
    <3>2. QED
      BY <3>1
  <2>2. CASE recorded = FALSE
    <3> DEFINE u == [pc |-> IF req[s].held THEN record(req[s]) ELSE "done",
                     recorded |-> req[s].held, held |-> FALSE, reply |-> "503", ref |-> FALSE]
    <3>1. Step(s, u) /\ DOMAIN u = {"pc", "reply", "ref", "recorded", "held"}
      BY <1>2, <2>2 DEF Delivery, Abandon
    <3>2. u.pc \in {"stream", "done", "drained"}
      BY <1>1 DEF record
    <3>3. QED
      BY <3>1, <3>2
  <2>3. QED
    BY <2>1, <2>2
<1>4. Payers' \subseteq Payers /\ Armers' \subseteq Armers \ {s}
  BY <1>1, <1>3, Later DEF PayPlaces, ArmPlaces
<1>5. req[s].kind \in Kinds /\ ~req[s].over_budget
  BY <1>1, PayersChecked DEF PayPlaces, ArmPlaces, Gone
<1>6. s \in Armers
  BY <1>1, <1>5 DEF Armers, Arms, ArmPlaces
<1>7. CASE UNCHANGED keepalive
  <2>1. WarmInv'
    BY <1>1, <1>7 DEF SpendInv, WarmInv
  <2>2. QED
    BY <1>1, <1>4, <1>7, <2>1, SpendKept
<1>8. CASE keepalive' # keepalive
  <2> DEFINE tmpl == [kind |-> req[s].kind, ctx |-> req[s].before]
             key  == KeyOf(s)
  <2>1. keepalive' = [k \in DOMAIN keepalive \cup {key} |->
                        IF k = key
                        THEN [template |-> tmpl, fired |-> 0,
                              watcher |-> IF k \in DOMAIN keepalive THEN keepalive[k].watcher ELSE Quiet]
                        ELSE keepalive[k]]
    BY <1>2, <1>8 DEF Arm, Watcher
  <2>2. tmpl.kind \in Kinds
    BY <1>5
  <2> HIDE DEF tmpl, key
  <2>3. /\ Warm(keepalive') /\ Left(keepalive') <= Left(keepalive) + PrewarmMax
        /\ Warmed(keepalive) <= Warmed(keepalive')
    BY <2>1, <2>2, ArmAdds DEF SpendInv, WarmInv
  <2>4. WarmInv'
    BY <1>1, <2>3 DEF SpendInv, WarmInv, Warm, Entry
  <2>5. QED
    BY <1>1, <1>4, <1>6, <2>3, <2>4, SpendArmed
<1>9. QED
  BY <1>7, <1>8

LEMMA SpendArrive ==
    ASSUME PipeInv, SpendInv, NEW s \in Slots, Arrive(s)
    PROVE  SpendInv'
<1>1. /\ req'[s].pc = "refresh" /\ \A x \in Slots \ {s} : req'[x] = req[x]
      /\ UNCHANGED <<spent, keepalive>>
  <2>1. PICK kind \in Kinds :
           req' = [req EXCEPT ![s] = [pc |-> "refresh", kind |-> kind, reply |-> "none",
                                       ctx |-> kind.ctx, model |-> kind.model, marks |-> {},
                                       stream |-> FALSE, held |-> FALSE, recorded |-> FALSE,
                                       metered |-> 0]]
    BY DEF Arrive
  <2>2. QED
    BY <2>1 DEF PipeInv, SlotsInv, Arrive
<1>2. Payers' = {x \in Slots : Pays(req'[x])} /\ Armers' = {x \in Slots : Arms(req'[x])}
  BY DEF Payers, Armers, Pays, Arms
<1>3. ~Pays(req'[s]) /\ ~Arms(req'[s])
  BY <1>1 DEF Pays, Arms, PayPlaces, ArmPlaces
<1>4. Payers' \subseteq Payers /\ Armers' \subseteq Armers
  BY <1>1, <1>2, <1>3 DEF Payers, Armers
<1>5. WarmInv'
  BY <1>1 DEF SpendInv, WarmInv
<1>6. QED
  BY <1>1, <1>4, <1>5, SpendKept

LEMMA SpendAside ==
    ASSUME SpendInv, UNCHANGED <<spent, keepalive, req>>
    PROVE  SpendInv'
<1>1. WarmInv' /\ Payers' = Payers /\ Armers' = Armers
  BY DEF SpendInv, WarmInv, Payers, Armers, Pays, Arms
<1>2. QED
  BY <1>1, SpendKept

\* One entry changes.
Instead(ka, k, e, kb) ==
    /\ kb = [x \in DOMAIN kb |-> kb[x]] /\ DOMAIN kb = DOMAIN ka /\ kb[k] = e
    /\ \A x \in DOMAIN ka \ {k} : kb[x] = ka[x]

LEMMA EntrySet ==
    ASSUME NEW ka, Warm(ka), NEW k \in DOMAIN ka, NEW e, Entry(e), NEW kb, Instead(ka, k, e, kb)
    PROVE  Warm(kb)
BY DEF Warm, Instead

\* The watcher of k goes on, or comes home with or without a bill.
LEMMA WatcherMoves ==
    ASSUME NEW ka, Warm(ka), NEW k \in DOMAIN ka, ka[k].watcher.pc # "idle",
           NEW w, w = Quiet \/ w = [ka[k].watcher EXCEPT !.pc = "sent"],
           NEW kb, kb = [ka EXCEPT ![k].watcher = w]
    PROVE  /\ Warm(kb) /\ DOMAIN kb = DOMAIN ka
           /\ Left(kb) <= Left(ka) /\ (w = Quiet => Left(kb) + 1 <= Left(ka))
<1> DEFINE e == [template |-> ka[k].template, fired |-> ka[k].fired, watcher |-> w]
<1>1. Entry(ka[k])
  BY DEF Warm
<1>2. Instead(ka, k, e, kb)
  <2> DEFINE a == ka[k]
             b == [a EXCEPT !.watcher = w]
  <2>1. ka = [y \in DOMAIN ka |-> ka[y]] /\ kb = [ka EXCEPT ![k] = b]
    BY DEF Warm
  <2>2. a = [template |-> a.template, fired |-> a.fired, watcher |-> a.watcher]
    BY <1>1 DEF Entry
  <2>3. b = e
    <3> HIDE DEF a
    <3>1. b = [template |-> a.template, fired |-> a.fired, watcher |-> w]
      BY <2>2
    <3>2. QED
      BY <3>1 DEF a
  <2> HIDE DEF a, b, e
  <2>4. QED
    BY <2>1, <2>3 DEF Instead
<1>3. e.template = ka[k].template /\ e.fired = ka[k].fired /\ e.watcher = w
      /\ e = [template |-> e.template, fired |-> e.fired, watcher |-> e.watcher]
  OBVIOUS
<1> HIDE DEF e
<1>4. w.pc # "idle" => /\ PrewarmMax > 0 /\ {"pc", "tmpl"} \subseteq DOMAIN w /\ w.tmpl.kind \in Kinds
  BY <1>1 DEF Entry, Quiet
<1>5. Entry(e)
  BY <1>1, <1>3, <1>4 DEF Entry
<1>6. /\ Warm(kb) /\ DOMAIN kb = DOMAIN ka /\ kb[k] = e
      /\ \A x \in DOMAIN ka \ {k} : kb[x] = ka[x]
  BY <1>2, <1>5, EntrySet DEF Instead
<1>7. Rounds(kb) = Rounds(ka)
  <2>1. \A x \in DOMAIN ka : kb[x].fired = ka[x].fired
    BY <1>3, <1>6
  <2>2. QED
    BY <1>6, <2>1 DEF Rounds
<1>8. k \in Out(ka) /\ Out(kb) \subseteq Out(ka) /\ (w = Quiet => Out(kb) \subseteq Out(ka) \ {k})
  BY <1>3, <1>6 DEF Out, Quiet
<1>9. /\ IsFiniteSet(Out(ka)) /\ Cardinality(Out(ka)) \in Nat /\ Cardinality(Rounds(ka)) \in Nat
      /\ Cardinality(Out(kb)) \in Nat
  BY <1>6, LeftIs
<1>10. /\ Cardinality(Out(kb)) <= Cardinality(Out(ka))
       /\ w = Quiet => Cardinality(Out(kb)) <= Cardinality(Out(ka)) - 1
  BY <1>8, <1>9, Fewer, OneFewer
<1>11. QED
  BY <1>6, <1>7, <1>9, <1>10 DEF Left

\* A fire that is due is on its way.
LEMMA DueMoves ==
    ASSUME NEW ka, Warm(ka), NEW k \in DOMAIN ka, ka[k].watcher = Quiet, ka[k].fired < PrewarmMax,
           NEW kb, kb = [ka EXCEPT ![k].fired = @ + 1,
                                   ![k].watcher = [pc |-> "fire", tmpl |-> ka[k].template]]
    PROVE  Warm(kb) /\ DOMAIN kb = DOMAIN ka /\ Left(kb) <= Left(ka)
<1> DEFINE n == ka[k].fired
           w == [pc |-> "fire", tmpl |-> ka[k].template]
           e == [template |-> ka[k].template, fired |-> n + 1, watcher |-> w]
           x == <<k, n + 1>>
<1>1. Entry(ka[k])
  BY DEF Warm
<1>2. Instead(ka, k, e, kb)
  <2> DEFINE a == ka[k]
             b == [a EXCEPT !.fired = @ + 1, !.watcher = w]
  <2>1. ka = [y \in DOMAIN ka |-> ka[y]] /\ kb = [ka EXCEPT ![k] = b]
    BY DEF Warm
  <2>2. a = [template |-> a.template, fired |-> a.fired, watcher |-> a.watcher]
    BY <1>1 DEF Entry
  <2>3. b = e
    <3> DEFINE c == [a EXCEPT !.fired = @ + 1]
    <3>1. b = [c EXCEPT !.watcher = w]
      OBVIOUS
    <3> HIDE DEF a, w
    <3>2. c = [template |-> a.template, fired |-> a.fired + 1, watcher |-> a.watcher]
      BY <2>2
    <3> HIDE DEF c, b
    <3>3. b = [template |-> a.template, fired |-> a.fired + 1, watcher |-> w]
      BY <3>1, <3>2
    <3>4. QED
      BY <3>3 DEF a
  <2> HIDE DEF a, b, e
  <2>4. QED
    BY <2>1, <2>3 DEF Instead
<1>3. /\ e.template = ka[k].template /\ e.fired = n + 1 /\ e.watcher = w
      /\ e = [template |-> e.template, fired |-> e.fired, watcher |-> e.watcher]
  OBVIOUS
<1>4. w.pc = "fire" /\ DOMAIN w = {"pc", "tmpl"} /\ w.tmpl.kind \in Kinds
  BY <1>1 DEF Entry
<1>5. n \in Nat /\ n < PrewarmMax /\ PrewarmMax \in Nat
  BY <1>1, LimitAssumption DEF Entry
<1> HIDE DEF w, e
<1>6. Entry(e)
  BY <1>1, <1>3, <1>4, <1>5 DEF Entry
<1>7. /\ Warm(kb) /\ DOMAIN kb = DOMAIN ka /\ kb[k] = e
      /\ \A y \in DOMAIN ka \ {k} : kb[y] = ka[y]
  <2> HIDE DEF n
  <2>1. QED
    BY <1>2, <1>6, EntrySet DEF Instead
<1>8. x \in Rounds(ka) /\ Rounds(kb) \subseteq Rounds(ka) \ {x}
  <2>1. x \in Rounds(ka)
    BY <1>5 DEF Rounds
  <2>2. ASSUME NEW y \in Rounds(kb) PROVE y \in Rounds(ka) \ {x}
    <3>1. y \in (DOMAIN ka) \X (1..PrewarmMax) /\ y[2] > kb[y[1]].fired
      BY <1>7, <2>2 DEF Rounds
    <3>2. y[1] \in DOMAIN ka /\ y[2] \in 1..PrewarmMax
      BY <3>1
    <3>3. CASE y[1] = k
      <4>1. y[2] > n + 1
        BY <1>3, <1>7, <3>1, <3>3
      <4>2. y # x
        BY <1>5, <3>2, <4>1
      <4>3. y[2] > ka[y[1]].fired
        BY <1>5, <3>2, <3>3, <4>1
      <4>4. QED
        BY <3>1, <4>2, <4>3 DEF Rounds
    <3>4. CASE y[1] # k
      <4>1. y[2] > ka[y[1]].fired
        BY <1>7, <3>1, <3>2, <3>4
      <4>2. QED
        BY <3>1, <3>4, <4>1 DEF Rounds
    <3>5. QED
      BY <3>3, <3>4
  <2>3. QED
    BY <2>1, <2>2
<1>9. k \notin Out(ka) /\ Out(kb) \subseteq Out(ka) \cup {k}
  BY <1>7 DEF Out, Quiet
<1>10. /\ IsFiniteSet(Out(ka)) /\ Cardinality(Out(ka)) \in Nat /\ Cardinality(Out(kb)) \in Nat
       /\ IsFiniteSet(Rounds(ka)) /\ Cardinality(Rounds(ka)) \in Nat /\ Cardinality(Rounds(kb)) \in Nat
  BY <1>7, LeftIs
<1> HIDE DEF x
<1>11. Cardinality(Rounds(kb)) <= Cardinality(Rounds(ka)) - 1
  BY <1>8, <1>10, OneFewer
<1>12. Cardinality(Out(kb)) <= Cardinality(Out(ka)) + 1
  <2>1. IsFiniteSet(Out(ka) \cup {k}) /\ Cardinality(Out(ka) \cup {k}) = Cardinality(Out(ka)) + 1
    BY <1>9, <1>10, FS_AddElement
  <2>2. QED
    BY <1>9, <2>1, Fewer
<1>13. QED
  BY <1>7, <1>10, <1>11, <1>12 DEF Left

LEMMA SpendPrewarm ==
    ASSUME SpendInv, NEW k \in DOMAIN keepalive, Due(k) \/ Fire(k) \/ FireEnds(k)
    PROVE  SpendInv'
<1> DEFINE w == keepalive[k].watcher
<1>1. UNCHANGED req /\ Warm(keepalive) /\ spent \in Nat /\ Entry(keepalive[k])
  BY DEF Due, Fire, FireEnds, SpendInv, WarmInv, Warm
<1>2. ASSUME Warm(keepalive'), NEW c \in {0, 1}, spent' = spent + c, DOMAIN keepalive' = DOMAIN keepalive,
             Left(keepalive') + c <= Left(keepalive)
      PROVE  SpendInv'
  <2>1. WarmInv'
    BY <1>1, <1>2 DEF WarmInv, Warm, Entry
  <2>2. QED
    BY <1>1, <1>2, <2>1, SpendFired
<1>3. CASE Due(k)
  <2>0. /\ w = Quiet /\ keepalive[k].fired < PrewarmMax /\ spent' = spent
        /\ keepalive' = [keepalive EXCEPT ![k].fired = @ + 1,
                                          ![k].watcher = [pc |-> "fire", tmpl |-> keepalive[k].template]]
    BY <1>3 DEF Due
  <2>1. Warm(keepalive') /\ DOMAIN keepalive' = DOMAIN keepalive /\ Left(keepalive') <= Left(keepalive)
    BY <1>1, <2>0, DueMoves, ZenonT(40)
  <2>2. spent' = spent + 0 /\ Left(keepalive') + 0 <= Left(keepalive)
    BY <1>1, <2>0, <2>1, LeftIs
  <2>3. QED
    BY <1>2, <2>1, <2>2
<1>4. CASE Fire(k)
  <2>1. /\ w.pc = "fire" /\ spent' = spent
        /\ \/ keepalive' = [keepalive EXCEPT ![k].watcher.pc = "sent"]
           \/ keepalive' = [keepalive EXCEPT ![k].watcher = Quiet]
    BY <1>4 DEF Fire
  <2>2. PICK v : /\ v = Quiet \/ v = [w EXCEPT !.pc = "sent"]
                 /\ keepalive' = [keepalive EXCEPT ![k].watcher = v]
    BY <2>1
  <2>3. Warm(keepalive') /\ DOMAIN keepalive' = DOMAIN keepalive /\ Left(keepalive') <= Left(keepalive)
    BY <1>1, <2>1, <2>2, WatcherMoves
  <2>4. spent' = spent + 0 /\ Left(keepalive') + 0 <= Left(keepalive)
    BY <1>1, <2>1, <2>3, LeftIs
  <2>5. QED
    BY <1>2, <2>3, <2>4
<1>5. CASE FireEnds(k)
  <2> DEFINE c == Cost(w.tmpl.kind)
  <2>1. /\ w.pc = "sent" /\ keepalive' = [keepalive EXCEPT ![k].watcher = Quiet]
        /\ spent' = spent + c \/ spent' = spent
    BY <1>5 DEF FireEnds
  <2>2. c \in {0, 1}
    BY <1>1, <2>1, CostIs DEF Entry
  <2> HIDE DEF c
  <2>3. Warm(keepalive') /\ DOMAIN keepalive' = DOMAIN keepalive /\ Left(keepalive') + 1 <= Left(keepalive)
    BY <1>1, <2>1, WatcherMoves
  <2>4. PICK d \in {0, 1} : spent' = spent + d
    BY <1>1, <2>1, <2>2
  <2>5. Left(keepalive') + d <= Left(keepalive)
    BY <1>1, <2>3, LeftIs
  <2>6. QED
    BY <1>2, <2>3, <2>4, <2>5
<1>6. QED
  BY <1>3, <1>4, <1>5

LEMMA SpendInit == Init => SpendInv
<1> SUFFICES ASSUME Init PROVE SpendInv
  OBVIOUS
<1>1. spent = 0 /\ keepalive = <<>>
  BY DEF Init
<1>2. DOMAIN keepalive = {} /\ keepalive = [k \in DOMAIN keepalive |-> keepalive[k]]
  BY <1>1
<1>3. Warm(keepalive)
  BY <1>2, FS_EmptySet DEF Warm
<1>4. QED
  BY <1>1, <1>3, LimitAssumption DEF SpendInv, WarmInv, OverInv

LEMMA SpendStep == PipeInv /\ SpendInv /\ [Next]_vars => SpendInv'
<1> SUFFICES ASSUME PipeInv, SpendInv, [Next]_vars PROVE SpendInv'
  OBVIOUS
<1>1. CASE UNCHANGED vars
  BY <1>1, SpendAside DEF vars
<1>2. ASSUME NEW s \in Slots, Serve(s) PROVE SpendInv'
  BY <1>2, SpendServe, SpendCheckBudget, SpendMetered, SpendRecord DEF Serve
<1>3. ASSUME NEW s \in Slots,
             \/ Arrive(s) \/ Respond(s) \/ UpstreamFails(s) \/ Hangup(s)
             \/ StreamEnds(s) \/ DropStream(s) \/ Settles(s)
      PROVE  SpendInv'
  BY <1>3, SpendServe, SpendArrive, SpendSettle DEF Settles
<1>4. CASE EditPolicy \/ ClearTrip
  BY <1>4, SpendAside DEF EditPolicy, ClearTrip
<1>5. ASSUME NEW k \in DOMAIN keepalive, Due(k) \/ Fire(k) \/ FireEnds(k) PROVE SpendInv'
  BY <1>5, SpendPrewarm
<1>6. QED
  BY <1>1, <1>2, <1>3, <1>4, <1>5 DEF Next

LEMMA Overshoots == SpendInv => OvershootBounded
<1> SUFFICES ASSUME SpendInv PROVE spent < Budget + Cardinality(Slots) + Warmed(keepalive)
  BY DEF OvershootBounded, Warmed
<1> DEFINE x == Cardinality(Armers) * PrewarmMax
           l == Left(keepalive)
           w == Warmed(keepalive)
<1>1. x \in Nat /\ l \in Nat /\ w \in Nat /\ spent \in Nat /\ Budget \in Nat
  BY CountsType, TimesLess, LimitAssumption, LeftIs DEF SpendInv, WarmInv
<1>2. spent >= Budget => spent + Cardinality(Payers) + x + l < Budget + Cardinality(Slots) + w
  BY DEF SpendInv, OverInv
<1>3. CASE spent >= Budget
  <2> HIDE DEF x, l, w
  <2>1. spent < Budget + Cardinality(Slots) + w
    BY <1>1, <1>2, <1>3, CountsType
  <2>2. QED
    BY <2>1 DEF w
<1>4. CASE spent < Budget
  <2> HIDE DEF x, l, w
  <2>1. spent < Budget + Cardinality(Slots) + w
    BY <1>1, <1>4, CountsType
  <2>2. QED
    BY <2>1 DEF w
<1>5. QED
  BY <1>1, <1>3, <1>4

\* However many requests are in flight and whatever the watchers replay, the
\* proxy overshoots its budget by less than one request for each slot, the
\* pre-warms of one arming for each slot, and for each (host, model) that was
\* ever armed those of one more arming and one on its way (the kill switch of
\* pipeline step 2, KeepAlive::arm and due, keepalive_fire).
THEOREM OvershootAlways == Spec => []OvershootBounded
<1>1. Spec => []SpendInv
  BY PipeInit, PipeStep, SpendInit, SpendStep, PTL DEF Spec
<1>2. QED
  BY <1>1, Overshoots, PTL

-----------------------------------------------------------------------------
(***************************************************************************)
(* SwapPath: where secrets and decoys are after the swap and the scan.     *)
(***************************************************************************)

\* The secrets of a vault that go into a header, and into the body.
InHeader(ctx, vault, dec, tls, h) == {s \in vault : h \in SwapHeaders(ctx, s, dec, tls)}
InBody(ctx, vault, dec, tls)      == {s \in vault : SwapsBody(ctx, s, dec, tls)}

\* Part by part, what one vault leaves.
LEMMA ApplyParts ==
    ASSUME NEW ctx, IsRequest(ctx), NEW vault, NEW dec, NEW tls,
           NEW out, out = apply(ctx, vault, dec, tls).ctx
    PROVE  /\ IsRequest(out) /\ out.path = ctx.path /\ out.utf8 = ctx.utf8
           /\ Headers(out) = Headers(ctx)
           /\ \A h \in Headers(ctx) :
                 out.headers[h] = SwappedIn(ctx.headers[h], InHeader(ctx, vault, dec, tls, h))
           /\ out.body = SwappedIn(ctx.body, InBody(ctx, vault, dec, tls))
<1> DEFINE hs == [h \in Headers(ctx) |->
                     SwappedIn(ctx.headers[h], InHeader(ctx, vault, dec, tls, h))]
           b  == SwappedIn(ctx.body, InBody(ctx, vault, dec, tls))
<1>1. out = [ctx EXCEPT !.headers = hs, !.body = b]
  BY DEF apply, InHeader, InBody
<1>2. DOMAIN hs = Headers(ctx)
      /\ \A h \in Headers(ctx) :
            hs[h] = SwappedIn(ctx.headers[h], InHeader(ctx, vault, dec, tls, h))
  OBVIOUS
<1> HIDE DEF hs, b
<1>3. out = [headers |-> hs, path |-> ctx.path, body |-> b, utf8 |-> ctx.utf8]
  BY <1>1, TwoFields
<1>4. out.headers = hs /\ out.path = ctx.path /\ out.body = b /\ out.utf8 = ctx.utf8
  BY <1>3
<1>5. IsRequest(out)
  BY <1>3, <1>4 DEF IsRequest
<1>6. QED
  BY <1>2, <1>4, <1>5 DEF Headers, b

\* A replaced decoy is gone, a real secret that came in is one of the replaced,
\* and nothing else changes.
LEMMA SwappedParts ==
    ASSUME NEW holds, NEW S \in SUBSET Secrets, NEW s \in Secrets
    PROVE  /\ Decoy(s) \in SwappedIn(holds, S) <=> Decoy(s) \in holds /\ s \notin S
           /\ Encoded(s) \in SwappedIn(holds, S) <=> Encoded(s) \in holds
           /\ Real(s) \in SwappedIn(holds, S) <=> Real(s) \in holds \/ s \in S
<1>1. \A t \in S : t \in Secrets /\ Decoy(s) # Real(t) /\ Encoded(s) # Real(t) /\ Encoded(s) # Decoy(t)
                   /\ Real(s) # Decoy(t)
  BY DEF Decoy, Real, Encoded
<1>2. \A t \in S : (Decoy(s) = Decoy(t) => s = t) /\ (Real(s) = Real(t) => s = t)
  BY NamesAssumption DEF Decoy, Real
<1>3. QED
  BY <1>1, <1>2 DEF SwappedIn

\* A real secret is where it was, or in the place of its decoy, where it rides,
\* under a decision that releases it, over TLS.
Placed(s, before, after, dec, tls) ==
    /\ Real(s) \in after.path => Real(s) \in before.path
    /\ \A h \in Headers(after) : Real(s) \in after.headers[h] =>
          \/ Real(s) \in before.headers[h]
          \/ Decoy(s) \in before.headers[h] /\ tls /\ releases(dec, s) /\ header_ok(s, h)
    /\ Real(s) \in after.body =>
          \/ Real(s) \in before.body
          \/ Decoy(s) \in before.body /\ tls /\ releases(dec, s) /\ body_ok(s) /\ before.utf8

\* Decoys, literal or encoded, only go.
NoneNew(s, before, after) ==
    /\ after.path = before.path /\ after.utf8 = before.utf8 /\ Headers(after) = Headers(before)
    /\ \A h \in Headers(after) :
          /\ Decoy(s) \in after.headers[h] => Decoy(s) \in before.headers[h]
          /\ Encoded(s) \in after.headers[h] => Encoded(s) \in before.headers[h]
    /\ Decoy(s) \in after.body => Decoy(s) \in before.body
    /\ Encoded(s) \in after.body => Encoded(s) \in before.body

LEMMA ApplyPlaces ==
    ASSUME NEW ctx, IsRequest(ctx), NEW vault \in SUBSET Secrets, NEW dec, NEW tls,
           NEW s \in Secrets, NEW out, out = apply(ctx, vault, dec, tls).ctx
    PROVE  IsRequest(out) /\ Placed(s, ctx, out, dec, tls) /\ NoneNew(s, ctx, out)
<1> DEFINE inHeader(h) == InHeader(ctx, vault, dec, tls, h)
           inBody      == InBody(ctx, vault, dec, tls)
<1>1. /\ IsRequest(out) /\ out.path = ctx.path /\ out.utf8 = ctx.utf8
      /\ Headers(out) = Headers(ctx)
      /\ \A h \in Headers(ctx) : out.headers[h] = SwappedIn(ctx.headers[h], inHeader(h))
      /\ out.body = SwappedIn(ctx.body, inBody)
  BY ApplyParts
<1>2. /\ Decoy(s) \in out.body => Decoy(s) \in ctx.body
      /\ Encoded(s) \in out.body => Encoded(s) \in ctx.body
      /\ Real(s) \in out.body => Real(s) \in ctx.body \/ s \in inBody
  <2>1. inBody \in SUBSET Secrets
    BY DEF InBody
  <2> HIDE DEF inBody
  <2>2. QED
    BY <1>1, <2>1, SwappedParts
<1>3. ASSUME NEW h \in Headers(ctx)
      PROVE  /\ Decoy(s) \in out.headers[h] => Decoy(s) \in ctx.headers[h]
             /\ Encoded(s) \in out.headers[h] => Encoded(s) \in ctx.headers[h]
             /\ Real(s) \in out.headers[h] => Real(s) \in ctx.headers[h] \/ s \in inHeader(h)
  <2> DEFINE S == inHeader(h)
  <2>1. S \in SUBSET Secrets /\ out.headers[h] = SwappedIn(ctx.headers[h], S)
    BY <1>1 DEF InHeader
  <2> HIDE DEF S
  <2>2. /\ Decoy(s) \in out.headers[h] => Decoy(s) \in ctx.headers[h]
        /\ Encoded(s) \in out.headers[h] => Encoded(s) \in ctx.headers[h]
        /\ Real(s) \in out.headers[h] => Real(s) \in ctx.headers[h] \/ s \in S
    BY <2>1, SwappedParts
  <2>3. QED
    BY <2>2 DEF S
<1>4. s \in inBody => Decoy(s) \in ctx.body /\ tls /\ releases(dec, s) /\ body_ok(s) /\ ctx.utf8
  BY DEF SwapsBody, InBody
<1>5. \A h : s \in inHeader(h) =>
         Decoy(s) \in ctx.headers[h] /\ tls /\ releases(dec, s) /\ header_ok(s, h)
  BY DEF SwapHeaders, InHeader
<1> HIDE DEF inHeader, inBody
<1>6. NoneNew(s, ctx, out)
  BY <1>1, <1>2, <1>3 DEF NoneNew
<1>7. Placed(s, ctx, out, dec, tls)
  BY <1>1, <1>2, <1>3, <1>4, <1>5 DEF Placed
<1>8. QED
  BY <1>1, <1>6, <1>7

\* A vault that raises nothing leaves of its own decoys the quiet ones.
Calm(s, ctx, dec) ==
    /\ Encoded(s) \notin Anywhere(ctx) /\ Decoy(s) \notin ctx.path
    /\ Decoy(s) \in ctx.body => ctx.utf8
    /\ Decoy(s) \in Anywhere(ctx) => quiet(dec, s)

LEMMA ApplyCalms ==
    ASSUME NEW ctx, IsRequest(ctx), NEW vault \in SUBSET Secrets, NEW dec, NEW tls,
           NEW s \in vault, NEW out, out = apply(ctx, vault, dec, tls), out.tripwires = {}
    PROVE  Calm(s, out.ctx, dec)
<1> DEFINE o == out.ctx
           inHeader(h) == InHeader(ctx, vault, dec, tls, h)
           inBody      == InBody(ctx, vault, dec, tls)
<1>1. /\ o.path = ctx.path /\ o.utf8 = ctx.utf8 /\ Headers(o) = Headers(ctx)
      /\ \A h \in Headers(ctx) : o.headers[h] = SwappedIn(ctx.headers[h], inHeader(h))
      /\ o.body = SwappedIn(ctx.body, inBody)
  <2>1. o = apply(ctx, vault, dec, tls).ctx
    OBVIOUS
  <2> HIDE DEF o
  <2>2. QED
    BY <2>1, ApplyParts
<1>2. NoneNew(s, ctx, o)
  <2>1. o = apply(ctx, vault, dec, tls).ctx /\ s \in Secrets
    OBVIOUS
  <2> HIDE DEF o
  <2>2. QED
    BY <2>1, ApplyPlaces
<1>3. trips(ctx, s, dec, tls) = {}
  <2>1. out.tripwires = UNION {{<<t.name, x>> : x \in trips(ctx, t, dec, tls)} : t \in vault}
    BY DEF apply
  <2>2. {<<s.name, x>> : x \in trips(ctx, s, dec, tls)} = {}
    BY <2>1
  <2>3. QED
    BY <2>2
<1>4. /\ ~header_trip(ctx, s, dec, tls) /\ ~path_trip(ctx, s, dec)
      /\ ~body_trip(ctx, s, dec, tls) /\ Encoded(s) \notin Anywhere(ctx)
  <2> DEFINE miss == miss_reason(dec, s, tls)
             why  == IF ctx.utf8 THEN miss ELSE "BinaryBody"
  <2>1. \A c, x : When(c, x) = {} => ~c
    BY DEF When
  <2> HIDE DEF miss, why
  <2>2. /\ When(header_trip(ctx, s, dec, tls), <<"header", miss>>) = {}
        /\ When(path_trip(ctx, s, dec), <<"path", miss>>) = {}
        /\ When(body_trip(ctx, s, dec, tls), <<"body", why>>) = {}
        /\ When(Encoded(s) \in Anywhere(ctx), <<"encoded", "EncodedForm">>) = {}
    BY <1>3 DEF trips, miss, why
  <2>3. QED
    BY <2>1, <2>2
<1> HIDE DEF o
<1>5. Encoded(s) \notin Anywhere(o)
  BY <1>2, <1>4 DEF NoneNew, Anywhere, InHeaders
<1>6. Decoy(s) \notin o.path
  BY <1>1, <1>4 DEF path_trip
<1>7. Decoy(s) \in o.body => o.utf8 /\ quiet(dec, s)
  <2>1. inBody \in SUBSET Secrets /\ s \in Secrets
    BY DEF InBody
  <2>2. Decoy(s) \in o.body => Decoy(s) \in ctx.body /\ s \notin inBody
    <3> HIDE DEF inBody
    <3>1. QED
      BY <1>1, <2>1, SwappedParts
  <2>3. s \notin inBody => ~SwapsBody(ctx, s, dec, tls)
    BY DEF InBody
  <2> HIDE DEF inBody
  <2>4. QED
    BY <1>1, <1>4, <2>2, <2>3 DEF body_trip
<1>8. ASSUME NEW h \in Headers(ctx), Decoy(s) \in o.headers[h]
      PROVE  quiet(dec, s)
  <2> DEFINE S == inHeader(h)
  <2>1. S \in SUBSET Secrets /\ o.headers[h] = SwappedIn(ctx.headers[h], S) /\ s \in Secrets
    BY <1>1 DEF InHeader
  <2>2. s \notin S => h \notin SwapHeaders(ctx, s, dec, tls)
    BY DEF InHeader
  <2> HIDE DEF S
  <2>3. Decoy(s) \in ctx.headers[h] /\ s \notin S
    BY <1>8, <2>1, SwappedParts
  <2>4. QED
    BY <1>4, <2>2, <2>3 DEF header_trip
<1>9. QED
  BY <1>1, <1>5, <1>6, <1>7, <1>8 DEF Calm, Anywhere, InHeaders, o

\* What comes after does not disturb it.
LEMMA CalmKept ==
    ASSUME NEW s, NEW before, NEW after, NEW dec, NoneNew(s, before, after), Calm(s, before, dec)
    PROVE  Calm(s, after, dec)
BY DEF NoneNew, Calm, Anywhere, InHeaders

\* Both vaults.
LEMMA BothPlace ==
    ASSUME NEW ctx, IsRequest(ctx), NEW dec, NEW tls, NEW s \in Secrets,
           NEW out, out = apply_both(ctx, Device, Session, dec, tls)
    PROVE  /\ IsRequest(out.ctx) /\ Placed(s, ctx, out.ctx, dec, tls) /\ NoneNew(s, ctx, out.ctx)
           /\ out.tripwires = {} => Calm(s, out.ctx, dec)
<1> DEFINE first  == apply(ctx, Device, dec, tls)
           second == apply(first.ctx, Session, dec, tls)
           o1 == first.ctx
           o2 == second.ctx
<1>1. out.ctx = o2 /\ out.tripwires = first.tripwires \cup second.tripwires
  BY DEF apply_both
<1>2. Device \in SUBSET Secrets /\ Session \in SUBSET Secrets /\ (s \in Device \/ s \in Session)
  BY DEF Secrets
<1>3. IsRequest(o1) /\ Placed(s, ctx, o1, dec, tls) /\ NoneNew(s, ctx, o1)
  <2>1. o1 = apply(ctx, Device, dec, tls).ctx
    OBVIOUS
  <2> HIDE DEF o1
  <2>2. QED
    BY <1>2, <2>1, ApplyPlaces
<1>4. IsRequest(o2) /\ Placed(s, o1, o2, dec, tls) /\ NoneNew(s, o1, o2)
  <2>1. o2 = apply(o1, Session, dec, tls).ctx
    OBVIOUS
  <2> HIDE DEF o1, o2
  <2>2. QED
    BY <1>2, <1>3, <2>1, ApplyPlaces
<1>5. Placed(s, ctx, o2, dec, tls) /\ NoneNew(s, ctx, o2)
  <2> HIDE DEF o1, o2
  <2>1. NoneNew(s, ctx, o2)
    BY <1>3, <1>4 DEF NoneNew
  <2>2. Placed(s, ctx, o2, dec, tls)
    BY <1>3, <1>4 DEF Placed, NoneNew
  <2>3. QED
    BY <2>1, <2>2
<1>6. ASSUME out.tripwires = {}
      PROVE  Calm(s, o2, dec)
  <2>1. first.tripwires = {} /\ second.tripwires = {}
    BY <1>1, <1>6
  <2>2. CASE s \in Device
    <3>1. Calm(s, o1, dec)
      <4> HIDE DEF second, o2
      <4>1. QED
        BY <1>2, <2>1, <2>2, ApplyCalms
    <3> HIDE DEF o1, o2
    <3>2. QED
      BY <1>4, <3>1, CalmKept
  <2>3. CASE s \in Session
    <3>1. second = apply(o1, Session, dec, tls) /\ o2 = second.ctx
      OBVIOUS
    <3> HIDE DEF o1, o2, second
    <3>2. Calm(s, second.ctx, dec)
      BY <1>2, <1>3, <2>1, <2>3, <3>1, ApplyCalms
    <3>3. QED
      BY <3>1, <3>2
  <2>4. QED
    BY <1>2, <2>2, <2>3
<1>7. QED
  BY <1>1, <1>4, <1>5, <1>6

\* The scan disturbs none of it.
LEMMA ScanKeeps ==
    ASSUME NEW ctx, IsRequest(ctx), NEW cfg, NEW scan, NEW s, NEW before, NEW dec, NEW tls,
           Placed(s, before, ctx, dec, tls), NoneNew(s, before, ctx),
           NEW c, c = detect_apply(ctx, cfg, scan).ctx
    PROVE  Placed(s, before, c, dec, tls) /\ NoneNew(s, before, c) /\ NoneNew(s, ctx, c)
<1>1. /\ c.headers = ctx.headers /\ c.path = ctx.path /\ c.body \subseteq ctx.body
      /\ c.utf8 = ctx.utf8
  <2>1. /\ c.headers = ctx.headers /\ c.path = ctx.path /\ c.utf8 = ctx.utf8
        /\ c.body = {x \in ctx.body : ~(/\ x \in Spots /\ x \in Readable(ctx) /\ x[1] = "pii"
                                        /\ x \in BodyText(ctx) /\ spot_mode(x, cfg) = "mask")}
    BY DetectAdds
  <2>2. QED
    BY <2>1
<1>2. QED
  BY <1>1 DEF Placed, NoneNew, Headers

\* The decision is that of the first rule that applies.
LEMMA DecisionIs ==
    ASSUME input \in Inputs, NEW s
    PROVE  /\ expects(Decision, s) <=> Listed(s)
           /\ releases(Decision, s) <=> Listed(s) /\ WinnerReleases
<1> DEFINE p == input.policy
           n == Len(p.rules)
           M(i) == matches(p.rules[i], input.dest)
           matching == {i \in 1..n : M(i)}
           first == CHOOSE i \in matching : \A j \in matching : i <= j
           rule == p.rules[first]
<1>1. n \in Nat
  BY InputsAssumption
<1>2. Winners = {i \in 1..n : M(i) /\ \A j \in 1..(i - 1) : ~M(j)}
  BY DEF Winners, Rules
<1>3. CASE matching = {}
  <2>1. Decision.allow_secrets = {}
    BY <1>3 DEF Decision, evaluate, resolve
  <2>2. Winners = {}
    BY <1>2, <1>3
  <2>3. QED
    BY <2>1, <2>2 DEF expects, releases, lists_secret, Listed
<1>4. CASE matching # {}
  <2>1. first \in matching /\ \A j \in matching : first <= j
    <3>1. \E i \in matching : \A j \in matching : i <= j
      <4>1. matching \in SUBSET Nat
        BY <1>1
      <4> HIDE DEF matching
      <4>2. QED
        BY <1>4, <4>1, LeastIndex
    <3> HIDE DEF matching
    <3>2. QED
      BY <3>1
  <2>2. Decision = resolve(p, rule.action, rule.allow_secrets, rule.route)
    BY <1>4 DEF Decision, evaluate
  <2> HIDE DEF first, M
  <2>3. first \in 1..n /\ M(first) /\ \A j \in 1..n : M(j) => first <= j
    BY <2>1
  <2>4. Winners = {first}
    BY <1>1, <1>2, <2>3
  <2>5. Decision.allow_secrets = rule.allow_secrets
        /\ Decision.action = IF rule.action # "escalate" THEN rule.action
                             ELSE IF p.escalate_fallback = "escalate" THEN "deny"
                             ELSE p.escalate_fallback
    BY <2>2 DEF resolve
  <2>6. WinnerReleases <=> Decision.action \in {"allow", "route"}
    BY <2>4, <2>5 DEF WinnerReleases, Rules
  <2>7. Listed(s) <=> lists_secret(Decision.allow_secrets, s)
    BY <2>4, <2>5 DEF Listed, Rules, lists_secret
  <2>8. QED
    BY <2>6, <2>7 DEF expects, releases
<1>5. QED
  BY <1>3, <1>4

SwapInv ==
    /\ input \in Inputs /\ stage \in {"received", "swapped", "scanned"} /\ IsRequest(held)
    /\ stage = "received" => held = input.request
    /\ \A s \in Secrets :
          /\ Placed(s, input.request, held, Decision, input.tls) /\ NoneNew(s, input.request, held)
          /\ stage # "received" /\ tripwires = {} => Calm(s, held, Decision)
    /\ DetectedNeverLeaves

LEMMA SwapStarts == SwapInit => SwapInv
<1> SUFFICES ASSUME SwapInit PROVE SwapInv
  OBVIOUS
<1>1. input \in Inputs /\ stage = "received" /\ held = input.request /\ IsRequest(held)
  BY InputsAssumption DEF SwapInit
<1>2. \A s \in Secrets : Placed(s, held, held, Decision, input.tls) /\ NoneNew(s, held, held)
  BY DEF Placed, NoneNew
<1>3. QED
  BY <1>1, <1>2 DEF SwapInv, DetectedNeverLeaves

LEMMA SwapSteps == SwapInv /\ [SwapNext]_swap_vars => SwapInv'
<1> SUFFICES ASSUME SwapInv, [SwapNext]_swap_vars PROVE SwapInv'
  OBVIOUS
<1>1. CASE Swap
  <2> DEFINE out == apply_both(held, Device, Session, Decision, input.tls)
  <2>1. /\ held' = out.ctx /\ tripwires' = out.tripwires /\ stage = "received"
        /\ stage' = "swapped" /\ input' = input /\ held = input.request
    BY <1>1 DEF Swap, SwapInv
  <2>2. Decision' = Decision
    BY <2>1 DEF Decision
  <2>3. ASSUME NEW s \in Secrets
        PROVE  /\ IsRequest(out.ctx) /\ Placed(s, held, out.ctx, Decision, input.tls)
               /\ NoneNew(s, held, out.ctx)
               /\ out.tripwires = {} => Calm(s, out.ctx, Decision)
    BY BothPlace DEF SwapInv
  <2>4. IsRequest(out.ctx)
    BY ApplyBoth DEF SwapInv
  <2> HIDE DEF out
  <2>5. DetectedNeverLeaves'
    BY <2>1 DEF DetectedNeverLeaves
  <2>6. QED
    BY <2>1, <2>2, <2>3, <2>4, <2>5 DEF SwapInv
<1>2. CASE Detect
  <2>1. PICK scan \in Scans(held) :
           /\ held' = detect_apply(held, input.dlp, scan).ctx
           /\ modes' = detect_apply(held, input.dlp, scan).modes
           /\ truncated' = detect_apply(held, input.dlp, scan).truncated
    BY <1>2 DEF Detect
  <2> DEFINE c == detect_apply(held, input.dlp, scan).ctx
  <2>2. stage = "swapped" /\ stage' = "scanned" /\ input' = input /\ tripwires' = tripwires
    BY <1>2 DEF Detect
  <2>3. Decision' = Decision
    BY <2>2 DEF Decision
  <2>4. IsRequest(c)
    BY DetectAdds DEF SwapInv
  <2>5. ASSUME NEW s \in Secrets
        PROVE  /\ Placed(s, input.request, c, Decision, input.tls) /\ NoneNew(s, input.request, c)
               /\ tripwires = {} => Calm(s, c, Decision)
    <3>1. /\ Placed(s, input.request, held, Decision, input.tls) /\ NoneNew(s, input.request, held)
          /\ IsRequest(held) /\ (tripwires = {} => Calm(s, held, Decision))
      BY <2>2 DEF SwapInv
    <3>2. c = detect_apply(held, input.dlp, scan).ctx
      OBVIOUS
    <3> HIDE DEF c
    <3>3. /\ Placed(s, input.request, c, Decision, input.tls) /\ NoneNew(s, input.request, c)
          /\ NoneNew(s, held, c)
      BY <3>1, <3>2, ScanKeeps
    <3>4. QED
      BY <3>1, <3>3, CalmKept
  <2>6. DetectedNeverLeaves'
    <3>1. ASSUME "block" \notin modes', NEW x \in Readable(held'), Guarded(x, input.dlp)
          PROVE  x[1] = "encpii" /\ truncated' = TRUE
      <4>1. /\ IsRequest(held) /\ "block" \notin detect_apply(held, input.dlp, scan).modes
            /\ x \in Readable(c)
        BY <2>1, <3>1 DEF SwapInv
      <4>2. c = detect_apply(held, input.dlp, scan).ctx
        OBVIOUS
      <4> HIDE DEF c
      <4>3. x[1] = "encpii" /\ detect_apply(held, input.dlp, scan).truncated
        BY <3>1, <4>1, <4>2, DetectSound
      <4>4. detect_apply(held, input.dlp, scan).truncated \in BOOLEAN
        BY DEF detect_apply
      <4>5. QED
        BY <2>1, <4>3, <4>4
    <3>2. input' = input
      BY <2>2
    <3>3. QED
      BY <3>1, <3>2 DEF DetectedNeverLeaves, Readable, Guarded, Headings, BodyText, InHeaders, Headers
  <2> HIDE DEF c
  <2>7. held' = c
    BY <2>1 DEF c
  <2>8. QED
    BY <2>2, <2>3, <2>4, <2>5, <2>6, <2>7 DEF SwapInv
<1>3. CASE UNCHANGED swap_vars
  <2>1. UNCHANGED <<input, stage, held, tripwires, modes, truncated>>
    BY <1>3 DEF swap_vars
  <2>2. Decision' = Decision
    BY <2>1 DEF Decision
  <2>3. QED
    BY <2>1, <2>2 DEF SwapInv, DetectedNeverLeaves
<1>4. QED
  BY <1>1, <1>2, <1>3 DEF SwapNext

LEMMA SwapReal == SwapInv => RealOnlyWhereReleased
<1> SUFFICES ASSUME SwapInv, NEW s \in Secrets
             PROVE  /\ Real(s) \notin held.path
                    /\ Real(s) \in Anywhere(held) => input.tls /\ WinnerReleases /\ Listed(s)
                    /\ \A h \in Headers(held) : Real(s) \in held.headers[h] =>
                          /\ Decoy(s) \in input.request.headers[h]
                          /\ \/ s.location \in {"any", h}
                             \/ s.location = "bearer" /\ h = "authorization"
                    /\ Real(s) \in held.body =>
                          /\ Decoy(s) \in input.request.body
                          /\ s.location \in {"any", "body"} /\ held.utf8
  BY DEF RealOnlyWhereReleased
<1>1. /\ Placed(s, input.request, held, Decision, input.tls) /\ NoneNew(s, input.request, held)
      /\ input \in Inputs
  BY DEF SwapInv
<1>2. Real(s) \notin Anywhere(input.request)
  BY <1>1, InputsAssumption
<1>3. releases(Decision, s) <=> Listed(s) /\ WinnerReleases
  BY <1>1, DecisionIs
<1>4. Real(s) \notin held.path
  BY <1>1, <1>2 DEF Placed, Anywhere
<1>5. ASSUME NEW h \in Headers(held), Real(s) \in held.headers[h]
      PROVE  Decoy(s) \in input.request.headers[h] /\ input.tls /\ releases(Decision, s) /\ header_ok(s, h)
  BY <1>1, <1>2, <1>5 DEF Placed, NoneNew, Anywhere, InHeaders
<1>6. ASSUME Real(s) \in held.body
      PROVE  /\ Decoy(s) \in input.request.body /\ input.tls /\ releases(Decision, s)
             /\ body_ok(s) /\ held.utf8
  BY <1>1, <1>2, <1>6 DEF Placed, NoneNew, Anywhere
<1>7. Real(s) \in Anywhere(held) => input.tls /\ releases(Decision, s)
  BY <1>4, <1>5, <1>6 DEF Anywhere, InHeaders
<1>8. QED
  BY <1>3, <1>4, <1>5, <1>6, <1>7 DEF header_ok, body_ok

LEMMA SwapCalm == SwapInv => AnomalyTrips
<1> SUFFICES ASSUME SwapInv, stage # "received", tripwires = {}, NEW s \in Secrets
             PROVE  /\ Encoded(s) \notin Anywhere(held) /\ Decoy(s) \notin held.path
                    /\ Decoy(s) \in held.body => held.utf8
                    /\ Decoy(s) \in Anywhere(held) => Listed(s) /\ ~WinnerReleases
  BY DEF AnomalyTrips
<1>1. Calm(s, held, Decision) /\ input \in Inputs
  BY DEF SwapInv
<1>2. /\ expects(Decision, s) <=> Listed(s)
      /\ releases(Decision, s) <=> Listed(s) /\ WinnerReleases
  BY <1>1, DecisionIs
<1>3. QED
  BY <1>1, <1>2 DEF Calm, quiet

\* docs/threat-model.md, invariant 1, for any two vaults, any policy and any
\* request (evaluate, swap::apply on both vaults, detect::apply): a real secret
\* is placed only over TLS, only by the first rule that applies, only where it
\* rides and only for its decoy, and never in the URL.
THEOREM RealsReleased == SwapSpec => []RealOnlyWhereReleased
<1>1. QED
  BY SwapStarts, SwapSteps, SwapReal, PTL DEF SwapSpec

\* docs/threat-model.md, invariant 4, likewise: a decoy that is left in a request
\* without tripwires is a literal one, outside the URL and outside a binary
\* body, that the first rule that applies lists and does not release.
THEOREM AnomaliesTrip == SwapSpec => []AnomalyTrips
<1>1. QED
  BY SwapStarts, SwapSteps, SwapCalm, PTL DEF SwapSpec

\* For any detector modes and wherever the decode budget runs out: of what a
\* blocking or masking detector is to keep, only encoded values past the budget
\* leave, and then the outcome is marked truncated (detect::apply, scan_encoded).
THEOREM DetectedStays == SwapSpec => []DetectedNeverLeaves
<1>1. SwapInv => DetectedNeverLeaves
  BY DEF SwapInv
<1>2. QED
  BY <1>1, SwapStarts, SwapSteps, PTL DEF SwapSpec

-----------------------------------------------------------------------------
(***************************************************************************)
(* The fan-out gate.                                                       *)
(***************************************************************************)
Labels == {"out", "sibling", "arming", "armed", "waiting", "leading",
           "stored", "unled", "forward", "dropping", "leaving"}

Types ==
    /\ has_leader \in BOOLEAN /\ ready \in BOOLEAN
    /\ pc \in [Requests -> Labels]
    /\ leader \in [Requests -> BOOLEAN]
    /\ woken \in [Requests -> BOOLEAN]

\* A request in the leader's code leads, and only a request inside does.
LeadersAreInside ==
    \A r \in Requests :
       /\ pc[r] \in {"leading", "stored", "unled"} => leader[r]
       /\ leader[r] => pc[r] # "out"

OnlyLeader == \A q, r \in Requests : leader[q] /\ leader[r] => q = r

\* Why nobody enters as a second leader: until the guard of the first is
\* gone, one of the two flags enter looks at is set.
LeadIsFlagged == (\E r \in Requests : leader[r]) => has_leader \/ ready

\* The leader gives up the lead only once the prefix is ready.
StoredIsReady == \A r \in Requests : pc[r] \in {"stored", "unled"} => ready

GateInv ==
    /\ Types /\ SlotLives
    /\ LeadersAreInside /\ OnlyLeader /\ LeadIsFlagged /\ StoredIsReady
    /\ NoLostWakeup

-----------------------------------------------------------------------------
(***************************************************************************)
(* Who is inside.                                                          *)
(***************************************************************************)

\* The requests inside are finitely many.
LEMMA InsideFinite == IsFiniteSet(Inside) /\ Cardinality(Inside) \in Nat
<1>1. Inside \subseteq Requests
  BY DEF Inside
<1>2. QED
  BY <1>1, RequestsFinite, FS_Subset, FS_CardinalityType

\* A step that moves r within the gate keeps the set of those inside.
LEMMA InsideKept ==
    ASSUME Types, NEW r \in Requests, pc[r] # "out", NEW label \in Labels \ {"out"},
           Goto(r, label)
    PROVE  Inside' = Inside
BY DEF Inside, Goto, Types

\* enter counts r in, and drop counts it out.
LEMMA EnterCounts ==
    ASSUME Types, refs = Cardinality(Inside), NEW r \in Requests, enter(r)
    PROVE  refs' = Cardinality(Inside') /\ Inside' # {}
<1>1. Inside' = Inside \cup {r} /\ r \notin Inside
  BY DEF Inside, enter, Goto, Types
<1>2. Cardinality(Inside') = Cardinality(Inside) + 1
  BY <1>1, InsideFinite, FS_AddElement
<1>3. QED
  BY <1>1, <1>2 DEF enter

LEMMA LeaveCounts ==
    ASSUME Types, refs = Cardinality(Inside), NEW r \in Requests, DropLeave(r)
    PROVE  refs' = Cardinality(Inside') /\ (refs' = 0 <=> Inside' = {})
<1>1. Inside' = Inside \ {r} /\ r \in Inside
  BY DEF Inside, DropLeave, Goto, Types
<1>2. Cardinality(Inside') = Cardinality(Inside) - 1 /\ IsFiniteSet(Inside')
  BY <1>1, InsideFinite, FS_RemoveElement
<1>3. Cardinality(Inside') = 0 <=> Inside' = {}
  BY <1>2, FS_EmptySet
<1>4. QED
  BY <1>2, <1>3 DEF DropLeave

-----------------------------------------------------------------------------
(***************************************************************************)
(* The steps, one lemma for each that disturbs the flags.                  *)
(***************************************************************************)

\* enter: r becomes leader only when neither flag is set, so nobody is one.
LEMMA EnterStep ==
    ASSUME GateInv, NEW r \in Requests, enter(r)
    PROVE  GateInv'
<1> USE DEF GateInv
<1>1. Types'
  BY DEF Types, enter, Goto, Labels
<1>2. SlotLives'
  BY EnterCounts DEF SlotLives
<1>3. LeadersAreInside'
  BY DEF LeadersAreInside, Types, enter, Goto
<1>4. OnlyLeader'
  BY DEF OnlyLeader, LeadIsFlagged, LeadersAreInside, Types, enter, Goto
<1>5. LeadIsFlagged'
  BY DEF LeadIsFlagged, Types, enter, Goto
<1>6. NoLostWakeup' /\ StoredIsReady'
  BY DEF NoLostWakeup, StoredIsReady, Types, enter, Goto
<1>7. QED
  BY <1>1, <1>2, <1>3, <1>4, <1>5, <1>6

\* A sibling's steps: it waits only on a flag it saw down after it could be
\* woken.
LEMMA WaitStep ==
    ASSUME GateInv, NEW r \in Requests, Waits(r)
    PROVE  GateInv'
<1> USE DEF GateInv
<1>1. PICK label \in {"arming", "armed", "waiting", "forward"} :
         /\ Goto(r, label)
         /\ label = "waiting" => ~ready
  BY DEF Waits, WaitTest, WaitArm, WaitRetest, WaitEnds, WaitTimesOut
<1>2. /\ pc[r] \in {"sibling", "arming", "armed", "waiting"}
      /\ UNCHANGED <<refs, has_leader, ready, leader, woken>>
  BY DEF Waits, WaitTest, WaitArm, WaitRetest, WaitEnds, WaitTimesOut
<1>3. Types'
  BY <1>1, <1>2 DEF Types, Goto, Labels
<1>4. SlotLives'
  BY <1>1, <1>2, InsideKept DEF SlotLives, Labels
<1>5. LeadersAreInside' /\ OnlyLeader' /\ LeadIsFlagged'
  BY <1>1, <1>2 DEF LeadersAreInside, OnlyLeader, LeadIsFlagged, Types, Goto
<1>6. NoLostWakeup' /\ StoredIsReady'
  BY <1>1, <1>2 DEF NoLostWakeup, StoredIsReady, Types, Goto
<1>7. QED
  BY <1>3, <1>4, <1>5, <1>6

\* leader_ready: between the store and the notify, r itself is the one that
\* is about to wake.
LEMMA ReadyStep ==
    ASSUME GateInv, NEW r \in Requests, ReadyStore(r) \/ ReadyUnlead(r) \/ ReadyNotify(r)
    PROVE  GateInv'
<1> USE DEF GateInv
<1>1. CASE ReadyStore(r)
  <2>1. Types' /\ LeadersAreInside' /\ OnlyLeader' /\ LeadIsFlagged'
    BY <1>1 DEF Types, Labels, LeadersAreInside, OnlyLeader, LeadIsFlagged, ReadyStore, Goto
  <2>2. Inside' = Inside /\ r \in Inside
    BY <1>1, InsideKept DEF ReadyStore, Labels, Inside
  <2>3. SlotLives'
    BY <1>1, <2>2 DEF SlotLives, ReadyStore
  <2>4. NoLostWakeup' /\ StoredIsReady'
    BY <1>1 DEF NoLostWakeup, StoredIsReady, Types, ReadyStore, Goto
  <2>5. QED
    BY <2>1, <2>3, <2>4
<1>2. CASE ReadyUnlead(r)
  <2>1. Types' /\ LeadersAreInside' /\ OnlyLeader'
    BY <1>2 DEF Types, Labels, LeadersAreInside, OnlyLeader, ReadyUnlead, Goto
  <2>2. LeadIsFlagged'
    BY <1>2 DEF ReadyUnlead, LeadIsFlagged, StoredIsReady, Types
  <2>3. Inside' = Inside /\ r \in Inside
    BY <1>2, InsideKept DEF ReadyUnlead, Labels, Inside
  <2>4. SlotLives'
    BY <1>2, <2>3 DEF SlotLives, ReadyUnlead
  <2>5. NoLostWakeup' /\ StoredIsReady'
    BY <1>2 DEF NoLostWakeup, StoredIsReady, Types, ReadyUnlead, Goto
  <2>6. QED
    BY <2>1, <2>2, <2>4, <2>5
<1>3. CASE ReadyNotify(r)
  <2>1. Types' /\ LeadersAreInside' /\ OnlyLeader' /\ LeadIsFlagged'
    BY <1>3 DEF Types, Labels, LeadersAreInside, OnlyLeader, LeadIsFlagged, ReadyNotify, Goto,
                notify_waiters
  <2>2. Inside' = Inside
    BY <1>3, InsideKept DEF ReadyNotify, Labels
  <2>3. SlotLives'
    BY <1>3, <2>2 DEF SlotLives, ReadyNotify
  <2>4. NoLostWakeup' /\ StoredIsReady'
    BY <1>3 DEF NoLostWakeup, StoredIsReady, Types, ReadyNotify, Goto, notify_waiters
  <2>5. QED
    BY <2>1, <2>3, <2>4
<1>4. QED
  BY <1>1, <1>2, <1>3

\* The end of a request, up to the critical section of drop.
LEMMA EndStep ==
    ASSUME GateInv, NEW r \in Requests, Ends(r) \/ DropNotify(r)
    PROVE  GateInv'
<1> USE DEF GateInv
<1>1. PICK label \in {"dropping", "leaving"} : Goto(r, label)
  BY DEF Ends, DropNotify
<1>2. /\ pc[r] \in {"forward", "leading", "waiting", "dropping"}
      /\ UNCHANGED <<refs, has_leader, ready, leader>>
      /\ UNCHANGED woken \/ notify_waiters
  BY DEF Ends, DropNotify
<1>3. Types'
  BY <1>1, <1>2 DEF Types, Goto, Labels, notify_waiters
<1>4. SlotLives'
  BY <1>1, <1>2, InsideKept DEF SlotLives, Labels
<1>5. LeadersAreInside' /\ OnlyLeader' /\ LeadIsFlagged' /\ StoredIsReady'
  BY <1>1, <1>2 DEF LeadersAreInside, OnlyLeader, LeadIsFlagged, StoredIsReady, Types, Goto
<1>6. NoLostWakeup'
  BY <1>1, <1>2 DEF NoLostWakeup, Types, Goto, notify_waiters
<1>7. QED
  BY <1>3, <1>4, <1>5, <1>6

\* The critical section of drop: the flag of a leader goes with its guard, the
\* readiness of the prefix with the last guard.
LEMMA LeaveStep ==
    ASSUME GateInv, NEW r \in Requests, DropLeave(r)
    PROVE  GateInv'
<1> USE DEF GateInv
<1>1. /\ pc[r] = "leaving" /\ pc' = [pc EXCEPT ![r] = "out"]
      /\ leader' = [leader EXCEPT ![r] = FALSE]
      /\ has_leader' = (has_leader /\ ~leader[r] /\ refs' # 0)
      /\ ready' = (ready /\ refs' # 0)
      /\ woken' = woken
  BY DEF DropLeave, Goto
<1>2. refs' = Cardinality(Inside') /\ (refs' = 0 <=> Inside' = {})
  BY LeaveCounts DEF SlotLives
<1>3. Types'
  BY <1>1 DEF Types, Labels
<1>4. SlotLives'
  BY <1>1, <1>2 DEF SlotLives
<1>5. LeadersAreInside' /\ OnlyLeader'
  BY <1>1 DEF LeadersAreInside, OnlyLeader, Types
<1>6. ASSUME NEW q \in Requests, pc'[q] # "out"
      PROVE  refs' # 0 /\ q # r /\ pc'[q] = pc[q]
  BY <1>1, <1>2, <1>6 DEF Inside, Types
<1>7. LeadIsFlagged'
  <2> SUFFICES ASSUME NEW q \in Requests, leader'[q]
               PROVE  has_leader' \/ ready'
    BY DEF LeadIsFlagged
  <2>1. refs' # 0 /\ q # r /\ leader[q]
    BY <1>1, <1>5, <1>6 DEF LeadersAreInside, Types
  <2>2. ~leader[r]
    BY <2>1 DEF OnlyLeader
  <2>3. has_leader \/ ready
    BY <2>1 DEF LeadIsFlagged
  <2>4. QED
    BY <1>1, <2>1, <2>2, <2>3
<1>8. StoredIsReady'
  BY <1>1, <1>6 DEF StoredIsReady
<1>9. NoLostWakeup'
  <2> SUFFICES ASSUME NEW q \in Requests, pc'[q] = "waiting", ready', ~woken'[q]
               PROVE  \E w \in Requests : pc'[w] \in {"stored", "unled"}
    BY DEF NoLostWakeup
  <2>1. pc[q] = "waiting" /\ ready /\ ~woken[q]
    BY <1>1, <1>6
  <2>2. PICK w \in Requests : pc[w] \in {"stored", "unled"}
    BY <2>1 DEF NoLostWakeup
  <2>3. pc'[w] = pc[w]
    BY <1>1, <2>2 DEF Types
  <2>4. QED
    BY <2>2, <2>3
<1>10. QED
  BY <1>3, <1>4, <1>5, <1>7, <1>8, <1>9

-----------------------------------------------------------------------------
(***************************************************************************)
(* The theorems.                                                           *)
(***************************************************************************)

\* The gate is empty at first.
LEMMA GateStarts == GateInit => GateInv
<1> SUFFICES ASSUME GateInit PROVE GateInv
  OBVIOUS
<1>1. Inside = {}
  BY DEF GateInit, Inside
<1>2. SlotLives
  BY <1>1, FS_EmptySet DEF GateInit, SlotLives
<1>3. Types
  BY DEF GateInit, Types, Labels
<1>4. LeadersAreInside /\ OnlyLeader /\ LeadIsFlagged /\ StoredIsReady /\ NoLostWakeup
  BY DEF GateInit, LeadersAreInside, OnlyLeader, LeadIsFlagged, StoredIsReady, NoLostWakeup
<1>5. QED
  BY <1>2, <1>3, <1>4 DEF GateInv

\* Every step keeps the invariant.
LEMMA GateSteps == GateInv /\ [GateNext]_gate_vars => GateInv'
<1> SUFFICES ASSUME GateInv, [GateNext]_gate_vars PROVE GateInv'
  OBVIOUS
<1>1. CASE UNCHANGED gate_vars
  BY <1>1 DEF gate_vars, GateInv, Types, SlotLives, Inside, LeadersAreInside, OnlyLeader,
              LeadIsFlagged, StoredIsReady, NoLostWakeup
<1>2. CASE GateNext
  BY <1>2, EnterStep, WaitStep, ReadyStep, EndStep, LeaveStep DEF GateNext
<1>3. QED
  BY <1>1, <1>2

\* The counter of a slot never goes below zero, and the other variables of
\* the gate stay in their types.
THEOREM GateTypeCorrect == GateSpec => []GateTypeOK
<1>1. GateInv => GateTypeOK
  BY InsideFinite DEF GateInv, Types, SlotLives, GateTypeOK, Labels
<1>2. QED
  BY <1>1, GateStarts, GateSteps, PTL DEF GateSpec

\* Of any number of requests that enter, fail, time out, leave and re-enter in
\* any order, at most one writes the prefix at a time, and the map entry lives
\* exactly as long as its participants.
THEOREM GateSafe == GateSpec => [](SlotLives /\ OneLeader)
<1>1. GateInv => SlotLives /\ OneLeader
  BY DEF GateInv, LeadersAreInside, OnlyLeader, OneLeader
<1>2. QED
  BY <1>1, GateStarts, GateSteps, PTL DEF GateSpec

\* No wake-up is lost to a leader_ready that races a sibling on its way into
\* the wait: a sibling that waits on a ready prefix has been woken or is about
\* to be, for any number of siblings and in whatever order they come.
THEOREM WakeupsKept == GateSpec => []NoLostWakeup
<1>1. GateInv => NoLostWakeup
  BY DEF GateInv
<1>2. QED
  BY <1>1, GateStarts, GateSteps, PTL DEF GateSpec
=============================================================================

---------------------------- MODULE MCAlgorithms ----------------------------
(***************************************************************************)
(* The sequential parts of the program, one task at a time: the requests   *)
(* of MCSecretSwap, the splice of a cache marker, the doctor's diagnosis,  *)
(* the scan of a response stream, edits of the policy, its lint, the waste *)
(* report, the scan and the masking of a body, the environment of a        *)
(* command; and, as another task, the doctors of DoctorFlush.  A task is   *)
(* chosen at the start; its state is work, and the others rest.            *)
(*                                                                         *)
(* Bounds: four observations of six bodies; three requests in flight in    *)
(* two processes that flush over the turn of a month, two counted in each; *)
(* streams of three events, lines kept up to four cells; one edit of a     *)
(* document of up to three rules; policies of up to three rules over six   *)
(* globs; logs of four events; bodies of up to three values; a header and  *)
(* a body with up to two encoded runs; environments of up to three         *)
(* variables.                                                              *)
(***************************************************************************)
EXTENDS MCSecretSwap, DoctorFlush, Integers, Functions, TLC

Detected == {"pan", "aba", "ssn", "iban", "email"}

Cache == INSTANCE CacheDoctor WITH PREFIX_CAP <- 3, CACHE_TTL <- 1, MIN_CACHEABLE <- 1,
                                   MAX_KEYS <- 1, REPAIR_MIN_REPEATS <- 1
Usage == INSTANCE UsageScan WITH MAX_SSE_LINE <- 4
Edit  == INSTANCE PolicyEdit
Waste == INSTANCE WasteReport WITH GAP <- 1, LOOP <- 3, NoPrint <- "none", From <- 1, To <- 4
Lint  == INSTANCE PolicyLint WITH PROVIDER_LABELS <- {"p"}
Dlp   == INSTANCE Detectors WITH PanLengths <- {3, 4}, Issuers <- {<<4, 3>>}, AbaLength <- 3,
              AbaPrefixes <- {11}, SsnGroups <- <<1, 1, 1>>, SsnNoArea <- {6, 9},
              IbanLength <- (<<10, 11>> :> 5), Published <- [det \in Detected |-> {}]
Guard == INSTANCE SessionVault WITH
              SensitiveNames <- {"TOKEN", "COPY_TOKEN"}, Labels <- ("ghp" :> "github"),
              Kept <- {"ghp", "connection"}, ProxyVars <- {"HTTP_PROXY"}, Unset <- {"NO_PROXY"},
              NoVar <- "", NoProvider <- "none"
S == INSTANCE SequencesExt

VARIABLES task, work
allvars == <<swap_vars, doctor_vars, task, work>>

-----------------------------------------------------------------------------
(***************************************************************************)
(* Bodies.                                                                 *)
(***************************************************************************)
Block(text)  == Cache!Obj(<<<<"type", Cache!Str("text")>>, <<"text", Cache!Str(text)>>>>)
Marked(v)    == Cache!Obj(<<<<Cache!Marker, Cache!MarkerValue(FALSE)>>>> \o v[2])
Nested       == Cache!Obj(<<<<"system", Cache!Arr(<<Block("not this one")>>)>>>>)

Systems == {Cache!Absent, Cache!Str("plain"), Cache!Arr(<<>>), Cache!Arr(<<Block("s")>>),
            Cache!Arr(<<Block("s"), Cache!Obj(<<>>)>>), Cache!Arr(<<Block("s"), Cache!Str("t")>>),
            Cache!Arr(<<Nested, Block("s")>>)}
ToolSets == {Cache!Absent, Cache!Arr(<<>>), Cache!Arr(<<Block("t1"), Nested>>),
             Cache!Arr(<<Cache!Arr(<<Block("t")>>), Cache!Obj(<<>>)>>)}
Messages == {Cache!Arr(<<>>), Cache!Arr(<<Block("hi")>>), Cache!Arr(<<Marked(Block("hi")), Block("ho")>>)}

Member(key, v) == IF v = Cache!Absent THEN <<>> ELSE <<<<key, v>>>>
Body(system, tools, messages) ==
    Cache!Obj(<<<<"model", Cache!Str("m")>>>> \o Member("system", system)
                \o Member("metadata", Nested) \o Member("max_tokens", <<"num", "9">>) \o Member("tools", tools) \o Member("messages", messages))

\* The same body with its members the other way round.
Turned(body) == Cache!Obj(S!Reverse(body[2]))

SpliceTasks ==
    {[body |-> b, ws |-> ws, ttl_1h |-> ttl, out |-> <<>>, done |-> FALSE] :
        b \in UNION {{Body(s, t, m), Turned(Body(s, t, m))} : s \in Systems, t \in ToolSets, m \in Messages},
        ws \in BOOLEAN, ttl \in BOOLEAN}

Splice ==
    /\ task = "splice" /\ ~work.done
    /\ work' = [work EXCEPT !.done = TRUE,
                  !.out = Cache!splice_marker(Cache!Tokens(work.body, work.ws), work.ttl_1h)]
    /\ UNCHANGED <<swap_vars, doctor_vars, task>>

\* A body with a marker on its last cacheable block, written down from what
\* the comment on splice_marker says: the last block of system, else the last
\* tool, if it is an object.
MarkLast(v, ttl) ==
    IF v = Cache!Absent \/ ~Cache!IsArr(v) \/ v[2] = <<>> THEN v
    ELSE IF ~Cache!IsObj(S!Last(v[2])) THEN v
    ELSE Cache!Arr(S!Front(v[2]) \o
           <<Cache!Obj(<<<<Cache!Marker, Cache!MarkerValue(ttl)>>>> \o S!Last(v[2])[2])>>)

WithMember(body, key, v) ==
    Cache!Obj([i \in DOMAIN body[2] |-> IF body[2][i][1] = key THEN <<key, v>> ELSE body[2][i]])

MarkedBody(body, ttl) ==
    LET system == Cache!Get(body, "system")
        tools  == Cache!Get(body, "tools")
    IN IF MarkLast(system, ttl) # system THEN WithMember(body, "system", MarkLast(system, ttl))
       ELSE WithMember(body, "tools", MarkLast(tools, ttl))

Packed(tokens) == SelectSeq(tokens, LAMBDA t : t # Cache!T(" "))

\* The splice is surgical: the body that goes upstream is the client's own
\* with one marker, on the block the comment names, whatever the order of its
\* members, its whitespace and the objects nested in it; the fan-out gate and
\* the next diagnosis take it for the same prefix.  ("injecting a marker
\* (repair) doesn't change it, since markers are stripped".)
RepairIsInvisible ==
    (task = "splice" /\ work.done) =>
       LET after == MarkedBody(work.body, work.ttl_1h) IN
       IF after = work.body THEN work.out = <<>>
       ELSE /\ Packed(work.out) = Cache!Tokens(after, FALSE)
            /\ Cache!cacheable_key(after) = Cache!cacheable_key(work.body)
            /\ Cache!canonicalize(after).prefix = Cache!canonicalize(work.body).prefix

-----------------------------------------------------------------------------
(***************************************************************************)
(* The doctor's diagnosis, and the doctors that share cache.json: in one   *)
(* process two requests may be in flight, in the other one.                *)
(***************************************************************************)
MCDoctorOf == <<"p1", "p1", "p2">>

Turn(system, messages) == Body(system, Cache!Absent, messages)
One   == Cache!Arr(<<Block("s")>>)
Other == Cache!Arr(<<Block("s2")>>)
Hi    == Cache!Arr(<<Block("hi")>>)
HiHo  == Cache!Arr(<<Block("hi"), Block("ho")>>)
HiHu  == Cache!Arr(<<Block("hi"), Block("hu")>>)

Bodies == {Turn(One, Hi), Turn(One, HiHo), Turn(One, HiHu), Turn(Other, Hi),
           Turn(One, Cache!Arr(<<Marked(Block("hu"))>>)), Turn(Cache!Absent, Hi)}

MaxObserved == 4

DoctorTask == [doctor |-> Cache!NewDoctor, now |-> 0, seen |-> <<>>]

\* The outcome o of an observation, with the repair done that it asks for.
Noted(key, body, o) ==
    [work EXCEPT
        !.doctor = IF o.repair.wanted THEN Cache!note_repaired(o.doctor, key, 1) ELSE o.doctor,
        !.seen = Append(@, [key |-> key, body |-> body, at |-> work.now,
                            moved |-> o.moved, repair |-> o.repair,
                            warm |-> Cache!warm_prefix(work.doctor, key, work.now)])]

Observe(key, body) ==
    /\ task = "doctor" /\ Len(work.seen) < MaxObserved
    /\ work' = Noted(key, body, Cache!observe(work.doctor, key, body, work.now, 1))
    /\ UNCHANGED <<swap_vars, doctor_vars, task>>

Pass ==
    /\ task = "doctor" /\ Len(work.seen) \in 1..(MaxObserved - 1)
    /\ work.seen[Len(work.seen)].at = work.now
    /\ \E gap \in {1, 2} : work' = [work EXCEPT !.now = @ + gap]
    /\ UNCHANGED <<swap_vars, doctor_vars, task>>

\* The observation right before, if it was on the same key: with room for
\* one key, another one in between evicts it.
Before(i) == IF i > 1 /\ work.seen[i - 1].key = work.seen[i].key THEN i - 1 ELSE 0

Part(i, key) == Cache!Get(work.seen[i].body, key)
Bare(v) == IF v = Cache!Absent THEN v ELSE Cache!strip_markers(v)
Same(i, j, key) == Bare(Part(i, key)) = Bare(Part(j, key))
MessagesOf(i) == Bare(Part(i, "messages"))[2]
GapBefore(i)  == work.seen[i].at - work.seen[Before(i)].at

\* docs of KeyStats, said of the last request and whole ones: preserved is a conversation that
\* goes on or is cut short, a reset starts another one under the same system,
\* and anything else that changes is a divergence.  A system that is dropped
\* reads as a reset.
DiagnosisTrue ==
    (task = "doctor" /\ work.seen # <<>>) =>
       LET i == Len(work.seen)
           j == Before(i)
           moved == work.seen[i].moved
           cut == Same(i, j, "system")
                    /\ (S!IsPrefix(MessagesOf(i), MessagesOf(j)) \/ S!IsPrefix(MessagesOf(j), MessagesOf(i)))
           another == \/ Same(i, j, "system") /\ MessagesOf(i)[1] # MessagesOf(j)[1]
                      \/ Part(i, "system") = Cache!Absent /\ ~Same(i, j, "system")
           verdicts == {"preserved", "ttl_gaps", "resets", "diverged"}
       IN moved \cap verdicts =
            IF j = 0 THEN {}
            ELSE IF cut THEN {"preserved"} \cup (IF GapBefore(i) > 1 THEN {"ttl_gaps"} ELSE {})
            ELSE IF another THEN {"resets"} ELSE {"diverged"}

\* The unbroken run of requests with the system of request i, before it.
RECURSIVE RunBefore(_)
RunBefore(i) ==
    IF Before(i) = 0 \/ ~Same(i, Before(i), "system") THEN {} ELSE {i} \cup RunBefore(Before(i))

\* "the proxy never mutates a prefix it has seen only once": a repair is asked
\* for exactly when an unmarked request repeats the system of the one before,
\* for the long lifetime when at least half of the gaps of this run outlasted
\* the short one; and a prefix is called warm only within its lifetime.
RepairEarned ==
    (task = "doctor" /\ work.seen # <<>>) =>
       LET i   == Len(work.seen)
           run == RunBefore(i)
           over == {k \in run : GapBefore(k) > 1}
           unmarked == Cache!Markers(work.seen[i].body) = 0
       IN /\ work.seen[i].repair.wanted
                = (unmarked /\ run # {} /\ Part(i, "system") # Cache!Absent)
          /\ work.seen[i].repair.wanted =>
                work.seen[i].repair.ttl_1h = (Cardinality(over) * 2 >= Cardinality(run))
          /\ work.seen[i].warm > 0 => Before(i) # 0 /\ GapBefore(i) <= 1

\* What a repair rests on: the diagnosis of every request is the true one, and
\* a marker goes only onto a prefix that has come again (cache.rs, observe).
DoctorExact == DiagnosisTrue /\ RepairEarned

DiagnosisNext ==
    \/ \E key \in {"a", "b"}, body \in Bodies :
          /\ key = "b" => body = Turn(One, Hi)
          /\ Observe(key, body)
    \/ Pass

-----------------------------------------------------------------------------
(***************************************************************************)
(* A response stream and its price.  What an event says, says, is written  *)
(* down beside it, in the terms of the meter.                              *)
(***************************************************************************)
NoNames == [input_tokens |-> 0, output_tokens |-> 0, cache_read_input_tokens |-> 0,
            cache_creation_input_tokens |-> 0, prompt_tokens |-> 0, completion_tokens |-> 0,
            cached_tokens |-> 0]
Nil == Usage!NoTokens
Event(len, where, usage, says) ==
    [len |-> len, data |-> TRUE, json |-> TRUE, where |-> where, usage |-> usage, says |-> says]

Ping == [Event(1, "none", NoNames, Nil) EXCEPT !.data = FALSE]
End  == [Event(2, "none", NoNames, Nil) EXCEPT !.json = FALSE]
Long == Event(5, "top", [NoNames EXCEPT !.input_tokens = 9], [Nil EXCEPT !.input = 9])
Start == Event(3, "message",
               [NoNames EXCEPT !.input_tokens = 5, !.output_tokens = 1, !.cache_read_input_tokens = 2,
                               !.cache_creation_input_tokens = 3],
               [Nil EXCEPT !.input = 5, !.output = 1, !.cache_read = 2, !.cache_write = 3])
Delta(n) == Event(2, "top", [NoNames EXCEPT !.output_tokens = n], [Nil EXCEPT !.output = n])
Final == Event(3, "top",
               [NoNames EXCEPT !.prompt_tokens = 5, !.cached_tokens = 2, !.completion_tokens = 3],
               [Nil EXCEPT !.input = 3, !.output = 3, !.cache_read = 2])
Completed == Event(2, "response",
               [NoNames EXCEPT !.input_tokens = 5, !.output_tokens = 3, !.cached_tokens = 2],
               [Nil EXCEPT !.input = 3, !.output = 3, !.cache_read = 2])

\* Counts in a stream are cumulative.
Cumulative(events) ==
    \A i, j \in DOMAIN events : i < j =>
       \A f \in Usage!Fields : events[j].says[f] = 0 \/ events[i].says[f] <= events[j].says[f]

Streams(provider) ==
    {es \in UNION {[1..n -> IF provider = "anthropic" THEN {Ping, Start, Delta(4), Delta(7), Long}
                            ELSE {End, Final, Completed, Long}] : n \in 1..3} : Cumulative(es)}

\* The stream on the wire, lines ended by CR LF or LF, the last one perhaps
\* by nothing.
Wire(events, cr, ended) ==
    S!FlattenSeq([i \in DOMAIN events |->
        [n \in 1..events[i].len |-> <<i, n>>] \o
          (IF i = Len(events) /\ ~ended THEN <<>>
           ELSE IF cr THEN <<Usage!Cr, Usage!Break>> ELSE <<Usage!Break>>)])

UsageTasks ==
    UNION {{[provider |-> provider, events |-> es, rest |-> Wire(es, cr, ended),
             scanner |-> Usage!NewScanner(provider), result |-> Usage!Nothing, read |-> FALSE,
             host |-> "", model |-> <<>>, headers |-> {}, file |-> <<>>, overrides |-> <<>>, split |-> <<>>] :
               es \in Streams(provider), cr \in BOOLEAN, ended \in BOOLEAN} :
           provider \in {"anthropic", "openai"}}

\* A chunk is whatever the network hands over.
Feed ==
    /\ task = "usage" /\ ~work.read
    /\ \E n \in 1..Len(work.rest) :
          work' = [work EXCEPT !.rest = SubSeq(@, n + 1, Len(@)),
                     !.scanner = Usage!feed(@, SubSeq(work.rest, 1, n), work.events)]
    /\ UNCHANGED <<swap_vars, doctor_vars, task>>

\* Either the stream is over, or it never was one by its content type.
Read ==
    /\ task = "usage" /\ ~work.read
    /\ \/ /\ work.rest = <<>>
          /\ work' = [work EXCEPT !.read = TRUE, !.result = Usage!finish(work.scanner, work.events)]
       \/ /\ work.scanner = Usage!NewScanner(work.provider)
          /\ work' = [work EXCEPT !.read = TRUE, !.rest = <<>>,
                        !.result = Usage!scan_usage_sse(work.provider, work.rest, work.events)]
    /\ UNCHANGED <<swap_vars, doctor_vars, task>>

Rate(i, o, r, w) == [input |-> i, output |-> o, cache_read |-> r, cache_write |-> w]
Builtin == (<<"opus">> :> Rate(10, 50, 1, 12)) @@ (<<"opus", "mini">> :> Rate(2, 8, 0, 3))
Default == Rate(3, 15, 1, 4)
Files   == {<<>>, <<"opus", "mini">> :> Rate(1, 1, 1, 1)}
Tables  == {<<>>, "llm" :> "usage", "llm" :> "subscription"}

Price ==
    /\ task = "usage" /\ work.read /\ work.result.found /\ work.split = <<>>
    /\ \E model \in {<<"opus", "mini", "2">>, <<"opus", "3">>, <<"haiku">>}, file \in Files,
          overrides \in Tables, headers \in SUBSET {"x-api-key", "bearer"} :
          work' = [work EXCEPT
            !.host = "llm", !.model = model, !.file = file, !.overrides = overrides, !.headers = headers,
            !.split = Usage!split_cost(
                Usage!billing_for(overrides, work.provider, "llm", headers), work.result.usage,
                Usage!rate_for(Usage!Overlay(Builtin, file), Default, model))]
    /\ UNCHANGED <<swap_vars, doctor_vars, task>>

\* The last count of each kind.
Reported(events) ==
    [f \in Usage!Fields |->
        LET said == {i \in DOMAIN events : events[i].says[f] > 0} IN
        IF said = {} THEN 0 ELSE events[CHOOSE i \in said : \A j \in said : j <= i].says[f]]

ExpectedRate ==
    CASE work.model = <<"opus", "mini", "2">> /\ work.file # <<>> -> Rate(1, 1, 1, 1)
      [] work.model = <<"opus", "mini", "2">> /\ work.file = <<>> -> Rate(2, 8, 0, 3)
      [] work.model = <<"opus", "3">> -> Rate(10, 50, 1, 12)
      [] OTHER -> Default

Covered ==
    IF work.overrides # <<>> THEN work.overrides = ("llm" :> "subscription")
    ELSE work.provider = "anthropic" /\ work.headers = {"bearer"}

\* However a stream is cut into chunks, the meter is told the last counts the
\* provider reported, none if a line was too long to keep, and each count is
\* charged once, at the rate of the most specific model, to the side that pays.
UsageBilled ==
    (task = "usage" /\ work.read) =>
       LET said == Reported(work.events)
           lost == (\E i \in DOMAIN work.events : work.events[i].len > 4) \/ said = Nil
           sum  == said.input * ExpectedRate.input + said.output * ExpectedRate.output
                     + said.cache_read * ExpectedRate.cache_read
                     + said.cache_write * ExpectedRate.cache_write
       IN /\ work.result = IF lost THEN Usage!Nothing ELSE Usage!Some(said)
          /\ work.split # <<>> => work.split = IF Covered THEN <<0, sum>> ELSE <<sum, 0>>

UsageNext == Feed \/ Read \/ Price

-----------------------------------------------------------------------------
(***************************************************************************)
(* An edit of the policy, and the policy the next reader loads.            *)
(***************************************************************************)
Rule(name, pos, sub) == [name |-> name, hosts |-> {"h"}, action |-> "deny", lists |-> {},
                         pos |-> pos, sub |-> sub]
A == <<"a", Edit!NaN>>
B == <<"b", Edit!NaN>>
Two == <<"2", 2>>       \* a rule called "2"
New == <<"n", Edit!NaN>>

\* As they are parsed: positions in the order of the file, with [dlp] behind,
\* in front or not there, and a map [rule.route] behind some rule.
Docs ==
    {Edit!Ok([i \in DOMAIN names |-> Rule(names[i], i + shift, Edit!NoSub)],
             CASE shift = 1 -> 1 [] shift = 0 -> 0 [] OTHER -> Len(names) + 3) :
        names \in {<<>>, <<A>>, <<A, B>>, <<A, B, Two>>, <<B, Two, A>>, <<A, A, B>>}, shift \in 0..2}
      \cup {Edit!Ok(<<Rule(A, 1, 2), Rule(B, 3, 4), Rule(Two, 5, Edit!NoSub)>>, 0)}

Addresses == {A, B, New, Two, <<"1", 1>>, <<"9", 9>>}
Anchors == {[kind |-> "end", addr |-> A, pos |-> 0]}
             \cup {[kind |-> "at", addr |-> A, pos |-> p] : p \in 1..4}
             \cup {[kind |-> kind, addr |-> a, pos |-> 0] : kind \in {"before", "after"}, a \in Addresses}

Changes == {[name |-> n, hosts |-> h, action |-> a, lists |-> l] :
               n \in {Edit!KeepName, New, A}, h \in {Edit!Keep, {}, {"g"}}, a \in {Edit!KeepAction, "allow", "bad"},
               l \in {Edit!Keep, {}, {"s"}}}

EditTasks == {[doc |-> doc, after |-> doc, edit |-> <<>>] : doc \in Docs}

Edited(edit, after) ==
    /\ work' = [work EXCEPT !.edit = edit, !.after = after]
    /\ UNCHANGED <<swap_vars, doctor_vars, task>>

EditNext ==
    /\ task = "edit" /\ work.edit = <<>>
    /\ \/ \E change \in Changes, anchor \in Anchors :
             Edited(<<"add", change.name, anchor, change>>, Edit!add(work.doc, change, anchor))
       \/ \E addr \in Addresses, change \in Changes :
             Edited(<<"set", addr, change>>, Edit!set(work.doc, addr, change))
       \/ \E addr \in Addresses : Edited(<<"rm", addr>>, Edit!remove(work.doc, addr))
       \/ \E addr \in Addresses, anchor \in Anchors :
             Edited(<<"mv", addr, anchor>>, Edit!move_rule(work.doc, addr, anchor))
       \/ Edited(<<"flush">>, Edit!flush_rules(work.doc))
       \/ \E action \in {"allow", "escalate", "bad"} :
             \/ Edited(<<"default">>, Edit!set_default(work.doc, action))
             \/ Edited(<<"fallback">>, Edit!set_escalate_fallback(work.doc, action))

\* The rule an address means, in a list of rules as they are loaded.
Meant(rules, addr) ==
    IF addr[2] # Edit!NaN THEN addr[2]
    ELSE CHOOSE i \in DOMAIN rules : rules[i].name = addr

Without(seq, i) == [k \in 1..(Len(seq) - 1) |-> IF k < i THEN seq[k] ELSE seq[k + 1]]

\* rule, and the rules beside it, where the anchor wants it.
Placed(rules, anchor, others, i) ==
    CASE anchor.kind = "end"    -> i = Len(rules)
      [] anchor.kind = "at"     -> i = (IF anchor.pos < Len(rules) THEN anchor.pos ELSE Len(rules))
      [] anchor.kind = "before" -> i = Meant(others, anchor.addr)
      [] anchor.kind = "after"  -> i = Meant(others, anchor.addr) + 1

\* What an edit may make of the rules that are loaded.
Local(old, new) ==
    LET kind == work.edit[1]
        inline == \A i \in DOMAIN work.doc.rules : work.doc.rules[i].sub = Edit!NoSub
    IN kind = "set" \/ inline =>
       CASE kind = "add" ->
              \E i \in DOMAIN new :
                 /\ new[i].name = work.edit[2] /\ new[i].hosts = work.edit[4].hosts
                 /\ Without(new, i) = old /\ Placed(new, work.edit[3], old, i)
         [] kind = "set" ->
              /\ Len(new) = Len(old)
              /\ \A i \in DOMAIN old : i # Meant(old, work.edit[2]) => new[i] = old[i]
              /\ new[Meant(old, work.edit[2])].lists =
                   IF work.edit[3].lists = Edit!Keep THEN old[Meant(old, work.edit[2])].lists
                   ELSE work.edit[3].lists
         [] kind = "rm" -> new = Without(old, Meant(old, work.edit[2]))
         [] kind = "mv" ->
              LET i == Meant(old, work.edit[2]) IN
              \E j \in DOMAIN new :
                 /\ Len(new) = Len(old) /\ new[j] = old[i]
                 /\ Without(new, j) = Without(old, i)
                 /\ Placed(new, work.edit[3], Without(old, i), j)
         [] kind = "flush" -> new = <<>>
         [] OTHER -> new = old

\* "the rules a command doesn't touch survive": of the policy that is loaded
\* after an edit, the rules that were not named are the old ones in their old
\* order, and the one that was named is where it was asked to be, with what it
\* was given.  Only for rules whose route map is inline: renumber leaves the
\* positions of [rule.route] tables alone, so only a set spares them.
EditIsLocal ==
    (task = "edit" /\ work.edit # <<>> /\ work.after.ok) =>
       Local(Edit!Loaded(work.doc), Edit!Loaded(work.after))

-----------------------------------------------------------------------------
(***************************************************************************)
(* A log and its waste report.                                             *)
(***************************************************************************)
MaxEvents == 4

Log(action, fp, cost, priced, req_seq, tripwire) ==
    [action |-> action, fp |-> fp, ts |-> 0, cost |-> cost, ref_cost |-> 0, priced |-> priced,
     req_seq |-> req_seq, tripwire |-> tripwire]

Kinds ==
    {Log("allow", fp, 2, TRUE, 0, FALSE) : fp \in {"f", "g", "none"}}
      \cup {Log("warn", "f", 0, FALSE, 0, FALSE), Log("deny", "f", 0, FALSE, 0, TRUE)}
      \cup {Log("usage", "none", 3, TRUE, i, FALSE) : i \in {j \in DOMAIN work.log : work.log[j].action = "warn"}}

WasteNext ==
    /\ task = "waste" /\ Len(work.log) < MaxEvents
    /\ \E e \in Kinds, gap \in 0..2 :
          LET now == IF work.log = <<>> THEN gap ELSE S!Last(work.log).ts + gap
          IN work' = [log |-> Append(work.log, [e EXCEPT !.ts = now])]
    /\ UNCHANGED <<swap_vars, doctor_vars, task>>

\* Request i of the log is the same as one that was forwarded just before, and
\* both fall into the window of the report.
Again(i) ==
    LET log == work.log
        Counts(k) == log[k].action \in {"allow", "warn"} /\ log[k].fp # "none" /\ log[k].ts \in 1..3
    IN Counts(i) /\ \E j \in 1..(i - 1) : Counts(j) /\ log[j].fp = log[i].fp /\ log[i].ts - log[j].ts <= 1

Spent(i) ==
    LET log == work.log IN
    FoldFunction(+, 0, [j \in DOMAIN log |->
        IF j = i \/ (log[j].action = "usage" /\ log[j].req_seq = i /\ log[j].ts \in 1..3)
        THEN log[j].cost ELSE 0])

\* Every request that repeats one within the gap is counted as waste once, as
\* a retry or as part of a loop, with all it cost, its usage event included.
WasteExact ==
    task = "waste" =>
       LET r == Waste!report(work.log)
           again == {i \in DOMAIN work.log : Again(i)}
       IN /\ r.retries.wasted_requests + r.loops.wasted_requests = Cardinality(again)
          /\ r.retries.wasted_usd + r.loops.wasted_usd
               = FoldFunction(+, 0, [i \in again |-> Spent(i)])
          /\ \A i \in again : i - 1 \in again /\ work.log[i - 1].fp = work.log[i].fp
                => r.loops.wasted_requests >= 2

-----------------------------------------------------------------------------
(***************************************************************************)
(* A policy and what is said of it before it is used.                      *)
(***************************************************************************)
Globs == {<<"*">>, <<"*", "a">>, <<"*", "b", "a">>, <<"a">>, <<"b", "a">>, <<"c", "b", "a">>}
Hosts == {<<"a">>, <<"b", "a">>, <<"c", "b", "a">>, <<"d", "b", "a">>, <<"e", "a">>, <<"z">>}
Vaulted == {[name |-> "s", provider |-> "p"], [name |-> "t", provider |-> "other"]}
Entries == {<<"name", "s">>, <<"name", "typo">>, <<"provider", "p">>, <<"provider", "typo">>}
Routes == {<<>>, "opus" :> <<"opus", "mini", "9">>, "opus" :> <<"haiku">>}

Egress(hosts, methods, prefixes, action, secrets, route) ==
    [hosts |-> hosts, methods |-> methods, path_prefixes |-> prefixes, action |-> action,
     allow_secrets |-> secrets, route |-> route]

\* One or two rules of any kind above a rule that releases.
Above == {Egress(hosts, methods, prefixes, "deny", {}, <<>>) :
             hosts \in {hs \in SUBSET Globs : Cardinality(hs) \in 1..2},
             methods \in {{}, {"POST"}}, prefixes \in {{}, {"/v1"}}}
Releasing == {Egress(hosts, {}, prefixes, "allow", {<<"name", "s">>}, <<>>) :
                 hosts \in {hs \in SUBSET Globs : Cardinality(hs) \in 1..2}, prefixes \in {{}, {"/v1"}}}

LintTasks ==
    {[rules |-> rules, known |-> Vaulted, told |-> {}, done |-> FALSE] :
        rules \in {<<r, s>> : r \in Above, s \in Releasing}
          \cup {<<Egress({g}, {}, {}, "deny", {}, <<>>), Egress({h}, {}, {}, "deny", {}, <<>>), s>> :
                  g \in Globs, h \in Globs, s \in Releasing}
          \cup {<<Egress({<<"a">>}, {}, {}, action, secrets, route)>> :
                  action \in {"allow", "deny", "route"}, secrets \in SUBSET Entries, route \in Routes}}
      \cup {[rules |-> <<Egress({<<"a">>}, {}, {}, "allow", secrets, <<>>)>>, known |-> {}, told |-> {}, done |-> FALSE] :
             secrets \in SUBSET Entries}

LintNext ==
    /\ task = "lint" /\ ~work.done
    /\ work' = [work EXCEPT !.done = TRUE,
          !.told = Lint!lint(work.rules, work.known) \cup Lint!lint_routes(work.rules, DOMAIN Builtin)]
    /\ UNCHANGED <<swap_vars, doctor_vars, task>>

Matches(rule, host, method, path) ==
    /\ \E g \in rule.hosts : Lint!glob_match(g, host)
    /\ rule.methods = {} \/ method \in rule.methods
    /\ rule.path_prefixes = {} \/ path \in rule.path_prefixes

\* A releasing rule is said never to win exactly when a rule above it takes
\* every request it could; then it does not, whatever the request.  An entry
\* is said to name nothing only if no rule releases a secret for it; a route's
\* target, only if it would be charged at the default rate.
ShadowTrue ==
    (task = "lint" /\ work.done) =>
       LET rules == work.rules
           Takes(i, host, method, path) == Matches(rules[i], host, method, path)
           Under(i, k) == \A host \in Hosts, method \in {"GET", "POST"}, path \in {"/v1", "/v2"} :
                             Takes(i, host, method, path) => Takes(k, host, method, path)
           Names(entry, secret) == entry \in {<<"name", secret.name>>, <<"provider", secret.provider>>}
       IN /\ \A i \in DOMAIN rules :
                /\ <<"shadow", i>> \in work.told =>
                      rules[i].allow_secrets # {} /\ \E k \in 1..(i - 1) : Under(i, k)
                /\ (rules[i].allow_secrets # {} /\ \E k \in 1..(i - 1) :
                       rules[k].methods \cup rules[k].path_prefixes = {} /\ Under(i, k))
                      => <<"shadow", i>> \in work.told
          /\ \A i \in DOMAIN rules, entry \in Entries :
                <<"entry", i, entry>> \in work.told => ~\E secret \in work.known : Names(entry, secret)
          /\ \A secret \in Vaulted, i \in DOMAIN rules :
                i \in Lint!releasing_rules(rules, secret) =>
                   \E entry \in rules[i].allow_secrets :
                      Names(entry, secret) /\ (work.known # {} => <<"entry", i, entry>> \notin work.told)
          /\ \A i \in DOMAIN rules, m \in {<<"opus", "mini", "9">>, <<"haiku">>} :
                (<<"model", i, m>> \in work.told)
                  = (/\ rules[i].action = "route" /\ m \in {rules[i].route[k] : k \in DOMAIN rules[i].route}
                     /\ Usage!rate_for(Builtin, Default, m) = Default)

-----------------------------------------------------------------------------
(***************************************************************************)
(* A body and what is masked in it.                                        *)
(***************************************************************************)
Comma == 75
Piece(kind, text) == [kind |-> kind, text |-> text]

\* What the detectors look for, and near misses.
Pieces ==
    {Piece("pan", <<4, 2, 2>>), Piece("pan", <<4, Dlp!Space, 2, Dlp!Space, 2>>), Piece("aba", <<1, 1, 0>>),
     Piece("ssn", <<5, Dlp!Dash, 5, Dlp!Dash, 5>>), Piece("iban", <<10, 11, 0, 7, 6>>),
     Piece("iban", <<10, 11, 0, 7, Dlp!Space, 6>>),
     Piece("email", <<40, Dlp!AtSign, 40, Dlp!Dot, 40, 41>>),
     Piece("none", <<40>>), Piece("none", <<4, 2, 3>>), Piece("none", <<4, Dlp!Dash, 2, Dlp!Space, 2>>),
     Piece("none", <<6, Dlp!Dash, 5, Dlp!Dash, 5>>), Piece("none", <<0, 0, 0>>),
     Piece("none", <<10, 11, 0, 7, 7>>), Piece("none", <<40, Dlp!AtSign, 40, Dlp!Dot, 41>>)}
Few == {p \in Pieces : p.kind # "none" \/ p.text = <<40>>}

Glues == {<<>>, <<Comma>>, <<Dlp!Space>>, <<Dlp!Dash>>, <<Dlp!Dot>>, <<Dlp!AtSign>>}
AllMasked == [det \in Detected |-> "mask"]
ModeMaps == {AllMasked, [AllMasked EXCEPT !["pan"] = "warn"], [AllMasked EXCEPT !["email"] = "off"]}

MaskTasks ==
    {[pieces |-> ps, glue |-> g, mode |-> mode, allow |-> allow, kept |-> <<>>, body |-> <<>>, done |-> FALSE] :
        ps \in Pieces \X Pieces, g \in Glues, mode \in ModeMaps, allow \in {{}, {<<4, 2, 2>>}}}
      \cup {[pieces |-> ps, glue |-> g, mode |-> AllMasked, allow |-> {}, kept |-> <<>>, body |-> <<>>, done |-> FALSE] :
        ps \in Few \X Few \X Few, g \in Glues}

Text(w) == S!FlattenSeq([i \in DOMAIN w.pieces |->
               IF i = 1 THEN w.pieces[i].text ELSE w.glue \o w.pieces[i].text])

MaskNext ==
    /\ task = "mask" /\ ~work.done
    /\ LET on == {det \in Detected : work.mode[det] # "off"}
           kept == Dlp!scan_text(Text(work), on, work.allow)
       IN work' = [work EXCEPT !.done = TRUE, !.kept = kept,
                     !.body = Dlp!mask(Text(work), SelectSeq(kept, LAMBDA s : work.mode[s.det] = "mask"))]
    /\ UNCHANGED <<swap_vars, doctor_vars, task>>

\* Between commas each value stands alone: found if its detector is on and the
\* policy does not allow it, and nothing else is.  Whatever the values are
\* joined by, no two finds that are kept overlap, nothing that a detector
\* finds is left whole when all are to be masked, and the body that is sent is
\* the client's, with the finds that are to be masked replaced and no other
\* character touched.
MaskSound ==
    (task = "mask" /\ work.done) =>
       LET text  == Text(work)
           kept  == S!ToSet(work.kept)
           start(i) == 1 + FoldFunction(+, 0, [k \in 1..(i - 1) |-> Len(work.pieces[k].text) + 1])
           planted  == {i \in DOMAIN work.pieces :
                          /\ work.pieces[i].kind # "none" /\ work.mode[work.pieces[i].kind] # "off"
                          /\ ~(work.pieces[i].kind = "pan" /\ work.allow # {})}
           masked   == {s \in kept : work.mode[s.det] = "mask"}
           inside(i) == \E s \in masked : s.start <= i /\ i < s.end
           At(i) == IF \E s \in masked : s.start = i
                    THEN <<Dlp!Mask((CHOOSE s \in masked : s.start = i).det)>>
                    ELSE IF inside(i) THEN <<>> ELSE <<text[i]>>
           on == {det \in Detected : work.mode[det] # "off"}
       IN /\ work.glue = <<Comma>> =>
                kept = {[det |-> work.pieces[i].kind, start |-> start(i),
                         end |-> start(i) + Len(work.pieces[i].text)] : i \in planted}
          /\ \A s, t \in kept : s # t => s.end <= t.start \/ t.end <= s.start
          /\ \A s \in Dlp!Found(text, on, work.allow) :
                \E t \in kept : t.start <= s.start /\ s.start < t.end
          /\ work.body = S!FlattenSeq([i \in DOMAIN text |-> At(i)])

\* Encoded runs: plain noise, a card in hex, in base64, or bytes of no text.
Card    == [size |-> 3, text |-> <<4, 2, 2>>]
Noise   == [size |-> 2, text |-> <<40, 41>>]
Bytes   == [size |-> 2, text |-> <<>>]
Views   == {Dlp!NoText, Noise, Card, Bytes}
Runs    == {r \in [hex : Views, base64 : Views] : r.hex # Dlp!NoText => r.base64 # Dlp!NoText}
Places  == [percent : {Dlp!NoText, Card}, windows : UNION {[1..n -> Runs] : n \in 0..2}]
Header  == {p \in Places : Len(p.windows) <= 1}

DecodeTasks ==
    {[places |-> <<h, b>>, budget |-> budget, out |-> Dlp!Fresh(0), done |-> FALSE] :
        h \in Header, b \in Places, budget \in {0, 4, 7, 40}}

DecodeNext ==
    /\ task = "decode" /\ ~work.done
    /\ work' = [work EXCEPT !.done = TRUE,
                  !.out = Dlp!scan_request(work.places, work.budget, Detected, {})]
    /\ UNCHANGED <<swap_vars, doctor_vars, task>>

\* "hitting it sets `truncated`": a request whose audit event does not say so
\* had every decoded view with a card in it reported, or another view of the
\* same run; and no find is made up.
EncodedSeen ==
    (task = "decode" /\ work.done) =>
       LET out == work.out
           View(p, i, label) == CASE label = "percent" -> work.places[p].percent
                                  [] label = "hex" -> work.places[p].windows[i].hex
                                  [] OTHER -> work.places[p].windows[i].base64
       IN /\ \A f \in out.found : View(f[1], f[2], f[3]) = Card
          /\ ~out.truncated => \A p \in DOMAIN work.places :
                /\ work.places[p].percent = Card => <<p, 0, "percent">> \in out.found
                /\ \A i \in DOMAIN work.places[p].windows :
                      Card \in {View(p, i, "hex"), View(p, i, "base64")} =>
                         {<<p, i, "hex">>, <<p, i, "base64">>} \cap out.found # {}
          /\ 0 <= out.budget

\* What DLP promises of the text it can read: MaskSound of the text as it is,
\* EncodedSeen of what it decodes (detect.rs, apply).
DlpSound == MaskSound /\ EncodedSeen

-----------------------------------------------------------------------------
(***************************************************************************)
(* The environment of a command.                                           *)
(***************************************************************************)
Value(shape, of) == [shape |-> shape, of |-> <<of>>]
Vaulting(name, real, env) ==
    [name |-> name, real |-> real, decoy |-> Guard!make_decoy(name, real), env |-> env,
     provider |-> Guard!infer_provider(real)]

Key == Value("ghp", "key")
Values == {Value("short", "1"), Value("path", "f"), Value("plain", "p"), Key, Value("connection", "c"),
           Guard!make_decoy(<<"v">>, Key)}
Names == {"TOKEN", "COPY_TOKEN", "HTTP_PROXY", "NO_PROXY", "HOME"}
Vaults == {<<>>, <<Vaulting(<<"v">>, Key, "")>>, <<Vaulting(<<"v">>, Key, "TOKEN")>>,
           <<Vaulting(<<"v">>, Key, "TOKEN"), Vaulting(<<"w">>, Value("plain", "q"), "TOKEN")>>,
           <<Vaulting(<<"v">>, Key, "HOME"), Vaulting(<<"w">>, Value("plain", "p"), "")>>}

EnvTasks ==
    {[env |-> env, vault |-> vault, pass |-> pass, session |-> {}, child |-> <<>>] :
        env \in UNION {[names -> Values] : names \in {ns \in SUBSET Names : Cardinality(ns) <= 3}},
        vault \in Vaults, pass \in {{}, {"TOKEN"}}}

EnvNext ==
    /\ task = "env" /\ work.child = <<>>
    /\ LET session == Guard!detect_env(work.env, work.vault, work.pass)
       IN work' = [work EXCEPT !.session = session,
                               !.child = Guard!child_env(work.env, work.vault, session)]
    /\ UNCHANGED <<swap_vars, doctor_vars, task>>

\* "so the child never sees them": a credential of the shell reaches the
\* command only under a name it was told to pass, or as a copy of a value the
\* vault has under another name.  Every decoy the command gets stands for one
\* secret, a variable the vault injects gets the vault's, any other the one
\* that stands for what it held; and the command is led to the proxy, unless
\* the shell's own proxy setting is a credential.
ChildSeesDecoys ==
    (task = "env" /\ work.child # <<>>) =>
       LET secrets == S!ToSet(work.vault) \cup work.session
           Credential(n) ==
              /\ ~Guard!value_exempt(work.env[n])
              /\ n \in {"TOKEN", "COPY_TOKEN"} \/ work.env[n].shape \in {"ghp", "connection"}
           vaulted == {s.real : s \in S!ToSet(work.vault)} \cup {s.decoy : s \in S!ToSet(work.vault)}
           owned == {s.env : s \in S!ToSet(work.vault)}
       IN /\ \A n \in DOMAIN work.env : Credential(n) /\ n \in DOMAIN work.child /\ work.child[n] = work.env[n]
                => n \in work.pass \/ work.env[n] \in vaulted
          /\ \A s, t \in secrets : s.decoy = t.decoy => s = t
          /\ \A n \in DOMAIN work.child : \A s \in secrets : work.child[n] = s.decoy =>
                IF n \in owned THEN s \in S!ToSet(work.vault)
                ELSE work.env[n] \in {s.real, s.decoy}
          /\ \A n \in owned \ {""} : \E s \in S!ToSet(work.vault) : s.env = n /\ work.child[n] = s.decoy
          /\ ~("HTTP_PROXY" \in DOMAIN work.env /\ Credential("HTTP_PROXY"))
                => work.child["HTTP_PROXY"] = Guard!ProxyUrl

-----------------------------------------------------------------------------
Idle == /\ input = [request |-> [headers |-> [h \in HeaderNames |-> {}], path |-> {}, body |-> {}, utf8 |-> TRUE],
                    policy |-> PolicyOf("deny", "deny", {}), tls |-> TRUE, dlp |-> DlpOf("off", "off"),
                    dest |-> [host |-> "llm", path |-> "/v1", method |-> "POST"]]
        /\ stage = "scanned" /\ held = input.request /\ tripwires = {} /\ modes = {} /\ truncated = FALSE

AllInit ==
  /\ DoctorInit
  /\ \/ task = "swap" /\ work = <<>> /\ SwapInit
     \/ task = "splice" /\ work \in SpliceTasks /\ Idle
     \/ task = "doctor" /\ work = DoctorTask /\ Idle
     \/ task = "flush" /\ work = <<>> /\ Idle
     \/ task = "usage" /\ work \in UsageTasks /\ Idle
     \/ task = "edit" /\ work \in EditTasks /\ Idle
     \/ task = "waste" /\ work = [log |-> <<>>] /\ Idle
     \/ task = "lint" /\ work \in LintTasks /\ Idle
     \/ task = "mask" /\ work \in MaskTasks /\ Idle
     \/ task = "decode" /\ work \in DecodeTasks /\ Idle
     \/ task = "env" /\ work \in EnvTasks /\ Idle

AllNext ==
    \/ task = "swap" /\ SwapNext /\ UNCHANGED <<doctor_vars, task, work>>
    \/ Splice
    \/ DiagnosisNext
    \/ task = "flush" /\ DoctorNext /\ UNCHANGED <<swap_vars, task, work>>
    \/ UsageNext
    \/ EditNext
    \/ WasteNext
    \/ LintNext
    \/ MaskNext
    \/ DecodeNext
    \/ EnvNext

AllSpec == AllInit /\ [][AllNext]_allvars
=============================================================================

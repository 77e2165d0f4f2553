----------------------------- MODULE UsageScan -----------------------------
(***************************************************************************)
(* What a response costs, src/src/pricing.rs: token counts out of a JSON   *)
(* body or a stream of server-sent events that arrives in arbitrary        *)
(* chunks, the rate of the model, and who pays.                            *)
(*                                                                         *)
(* A line of a stream is split into cells <<line, n>>; a line break is a   *)
(* cell of its own, so a chunk may end anywhere.  An event is what the     *)
(* JSON of its line says: where the usage object is and what is in it.     *)
(***************************************************************************)
EXTENDS Integers, Sequences, SequencesExt, FiniteSetsExt

CONSTANT MAX_SSE_LINE    \* in cells

Break == <<0, 0>>        \* a line feed
Cr    == <<0, 1>>        \* a carriage return

Fields == {"input", "output", "cache_read", "cache_write"}
NoTokens == [f \in Fields |-> 0]
Nothing == [found |-> FALSE, usage |-> NoTokens]
Some(usage) == [found |-> TRUE, usage |-> usage]

MaxOf(a, b) == IF a > b THEN a ELSE b
SaturatingSub(a, b) == IF a > b THEN a - b ELSE 0

-----------------------------------------------------------------------------
\* A usage object: the counts under the names of either provider, 0 if they
\* are not there.  OpenAI counts cached tokens among those of the prompt.
usage_from_value(provider, u) ==
    LET parsed ==
          IF provider = "anthropic"
          THEN [input |-> u.input_tokens, output |-> u.output_tokens,
                cache_read |-> u.cache_read_input_tokens,
                cache_write |-> u.cache_creation_input_tokens]
          ELSE [input  |-> SaturatingSub(MaxOf(u.prompt_tokens, u.input_tokens), u.cached_tokens),
                output |-> MaxOf(u.completion_tokens, u.output_tokens),
                cache_read |-> u.cached_tokens, cache_write |-> 0]
    IN IF parsed = NoTokens THEN Nothing ELSE Some(parsed)

\* The usage object is at the top, in message or in response; "null" is none.
find_usage(event) == event.where \in {"top", "message", "response"}

parse_usage_json(provider, event) ==
    IF event.json /\ find_usage(event) THEN usage_from_value(provider, event.usage) ELSE Nothing

-----------------------------------------------------------------------------
(***************************************************************************)
(* SseUsageScanner.                                                        *)
(***************************************************************************)
NewScanner(provider) ==
    [provider |-> provider, line |-> <<>>, best |-> NoTokens, found |-> FALSE, dead |-> FALSE]

\* Counts are cumulative: the largest stands, field by field.
Best(best, usage) == [f \in Fields |-> MaxOf(best[f], usage[f])]

\* A line is worth a look if it is a whole `data:` line with JSON in it.
scan_line(sc, line, events) ==
    LET cells == IF line # <<>> /\ Last(line) = Cr THEN Front(line) ELSE line
        whole == cells # <<>> /\ LET id == cells[1][1] IN
                    id # 0 /\ cells = [n \in 1..events[id].len |-> <<id, n>>]
        event == events[cells[1][1]]
        got   == parse_usage_json(sc.provider, event)
    IN IF ~whole \/ ~event.data \/ ~got.found THEN sc
       ELSE [sc EXCEPT !.best = Best(sc.best, got.usage), !.found = TRUE]

\* Variant: the line starts anew with every chunk.
TakeUnbuffered(sc, cell, first, events) ==
    IF sc.dead THEN sc
    ELSE IF cell = Break THEN scan_line([sc EXCEPT !.line = <<>>], sc.line, events)
    ELSE IF Len(sc.line) + 1 > MAX_SSE_LINE THEN [sc EXCEPT !.dead = TRUE, !.line = <<>>]
    ELSE [sc EXCEPT !.line = IF first THEN <<cell>> ELSE Append(sc.line, cell)]

\* One byte of a chunk.
Take(sc, cell, first, events) ==
    IF sc.dead THEN sc
    ELSE IF cell = Break THEN scan_line([sc EXCEPT !.line = <<>>], sc.line, events)
    ELSE IF Len(sc.line) + 1 > MAX_SSE_LINE THEN [sc EXCEPT !.dead = TRUE, !.line = <<>>]
    ELSE [sc EXCEPT !.line = Append(sc.line, cell)]

feed(sc, chunk, events) ==
    FoldLeft(LAMBDA acc, i : Take(acc, chunk[i], i = 1, events), sc, [i \in DOMAIN chunk |-> i])

\* A stream may end without a line break.
finish(sc, events) ==
    LET end == IF ~sc.dead /\ sc.line # <<>> THEN scan_line(sc, sc.line, events) ELSE sc
    IN IF end.found /\ ~end.dead THEN Some(end.best) ELSE Nothing

\* A stream that is not labelled as one is scanned once it is whole.
scan_usage_sse(provider, wire, events) ==
    finish(feed(NewScanner(provider), wire, events), events)

-----------------------------------------------------------------------------
(***************************************************************************)
(* Rates and billing.  A model name is a sequence of parts; a table maps   *)
(* prefixes to rates.                                                      *)
(***************************************************************************)
\* pricing.json goes over the built-in table, entry by entry.
Overlay(builtin, file) ==
    [p \in DOMAIN builtin \cup DOMAIN file |-> IF p \in DOMAIN file THEN file[p] ELSE builtin[p]]

\* The longest prefix in the table, else the provider's default.
rate_for(models, default, model) ==
    LET fits == {p \in DOMAIN models : IsPrefix(p, model)} IN
    IF fits = {} THEN default
    ELSE models[CHOOSE p \in fits : \A q \in fits : Len(q) <= Len(p)]

\* pricing.json decides; else a Claude plan is a bearer token without a key.
billing_for(overrides, provider, host, headers) ==
    IF host \in DOMAIN overrides THEN overrides[host]
    ELSE IF provider = "anthropic" /\ "x-api-key" \notin headers /\ "bearer" \in headers
    THEN "subscription" ELSE "usage"

cost_usd(usage, rate) ==
    usage.input * rate.input + usage.output * rate.output
      + usage.cache_read * rate.cache_read + usage.cache_write * rate.cache_write

\* What is billed, and what a plan covers.
split_cost(billing, usage, rate) ==
    IF billing = "usage" THEN <<cost_usd(usage, rate), 0>> ELSE <<0, cost_usd(usage, rate)>>
=============================================================================

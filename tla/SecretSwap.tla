----------------------------- MODULE SecretSwap -----------------------------
(***************************************************************************)
(* What happens to the bytes of a request before it may leave: the swap of *)
(* decoys for real secrets and its tripwires (src/src/swap.rs), then the   *)
(* DLP detectors (src/src/detect.rs).                                      *)
(*                                                                         *)
(* A request is [headers, path, body, utf8]: headers maps header names to  *)
(* what their values hold, path and body are such sets too, utf8 says      *)
(* whether the body is text.  What a part holds is a set of <<form, name>>:*)
(* a "decoy", its "encoded" form (base64, hex or percent) or the "real"    *)
(* value of the secret of that name; of Spots, which DLP looks for; and    *)
(* perhaps an Escape.                                                      *)
(***************************************************************************)
EXTENDS EgressPolicy

CONSTANTS
    Device,   \* secrets of the device vault
    Session   \* secrets of the session

Secrets == Device \cup Session

\* The names of the two vaults are distinct: a session's begin with env:.
ASSUME NamesAssumption == \A x, y \in Secrets : x.name = y.name => x = y

Headers(ctx) == DOMAIN ctx.headers

IsRequest(ctx) == ctx = [headers |-> ctx.headers, path |-> ctx.path, body |-> ctx.body,
                         utf8 |-> ctx.utf8]

\* May a secret ride in this header, or in the body?
header_ok(secret, header) ==
    \/ secret.location = "any"
    \/ secret.location = "bearer" /\ header = "authorization"
    \/ secret.location = header

body_ok(secret) == secret.location \in {"body", "any"}

Decoy(secret)   == <<"decoy", secret.name>>
Real(secret)    == <<"real", secret.name>>
Encoded(secret) == <<"encoded", secret.name>>

-----------------------------------------------------------------------------
(***************************************************************************)
(* swap::apply for one vault.  The secrets of a vault do not interact, so  *)
(* the loop over them is a set.                                            *)
(***************************************************************************)

\* Variant: the location is not asked for.
SwapsAnyHeader(ctx, secret, decision, allow_swap) ==
    {h \in Headers(ctx) :
        Decoy(secret) \in ctx.headers[h] /\ allow_swap /\ releases(decision, secret)}

\* The headers in which the decoy is replaced.
SwapHeaders(ctx, secret, decision, allow_swap) ==
    {h \in Headers(ctx) :
        /\ Decoy(secret) \in ctx.headers[h]
        /\ allow_swap /\ releases(decision, secret)
        /\ header_ok(secret, h)}

SwapsBody(ctx, secret, decision, allow_swap) ==
    /\ ctx.utf8 /\ Decoy(secret) \in ctx.body
    /\ allow_swap /\ releases(decision, secret)
    /\ body_ok(secret)

\* Listed on a rule that does not release: literal sightings stay quiet.
quiet(decision, secret) == expects(decision, secret) /\ ~releases(decision, secret)

miss_reason(decision, secret, allow_swap) ==
    IF ~expects(decision, secret) THEN "UnreleasedDestination"
    ELSE IF ~allow_swap THEN "PlaintextTransport"
    ELSE "WrongLocation"

When(condition, x) == IF condition THEN {x} ELSE {}

InHeaders(ctx) == UNION {ctx.headers[h] : h \in Headers(ctx)}
Anywhere(ctx)  == ctx.path \cup ctx.body \cup InHeaders(ctx)

\* A decoy in a header that is neither replaced there nor quiet.
header_trip(ctx, secret, decision, allow_swap) ==
    /\ ~quiet(decision, secret)
    /\ \E h \in Headers(ctx) \ SwapHeaders(ctx, secret, decision, allow_swap) :
          Decoy(secret) \in ctx.headers[h]

\* Likewise in the body; in a binary body a decoy always trips.
body_trip(ctx, secret, decision, allow_swap) ==
    /\ Decoy(secret) \in ctx.body
    /\ ~SwapsBody(ctx, secret, decision, allow_swap)
    /\ ctx.utf8 => ~quiet(decision, secret)

\* Variant: a listed secret is quiet in the path too.
path_trip_unless_quiet(ctx, secret, decision) ==
    Decoy(secret) \in ctx.path /\ ~quiet(decision, secret)

\* A decoy in the URL always trips.
path_trip(ctx, secret, decision) == Decoy(secret) \in ctx.path

\* Where one secret's decoy raises a tripwire, and why.
trips(ctx, secret, decision, allow_swap) ==
    LET miss == miss_reason(decision, secret, allow_swap) IN
       When(header_trip(ctx, secret, decision, allow_swap), <<"header", miss>>)
       \cup When(path_trip(ctx, secret, decision), <<"path", miss>>)
       \cup When(body_trip(ctx, secret, decision, allow_swap),
                 <<"body", IF ctx.utf8 THEN miss ELSE "BinaryBody">>)
       \cup When(Encoded(secret) \in Anywhere(ctx), <<"encoded", "EncodedForm">>)

\* What a part of the request holds once `swapped` have been replaced there.
SwappedIn(holds, swapped) ==
    (holds \ {Decoy(s) : s \in swapped}) \cup {Real(s) : s \in swapped}

apply(ctx, vault, decision, allow_swap) ==
    LET inHeader(h) == {s \in vault : h \in SwapHeaders(ctx, s, decision, allow_swap)}
        inBody      == {s \in vault : SwapsBody(ctx, s, decision, allow_swap)}
    IN  [ctx |-> [ctx EXCEPT !.headers = [h \in Headers(ctx) |->
                                             SwappedIn(ctx.headers[h], inHeader(h))],
                             !.body    = SwappedIn(ctx.body, inBody)],
         swaps     |-> {s.name : s \in inBody \cup UNION {inHeader(h) : h \in Headers(ctx)}},
         tripwires |-> UNION {{<<s.name, t>> : t \in trips(ctx, s, decision, allow_swap)} :
                                s \in vault}]

\* The device vault, then the session's, on what the first one left.
apply_both(ctx, device, session, decision, allow_swap) ==
    LET first  == apply(ctx, device, decision, allow_swap)
        second == apply(first.ctx, session, decision, allow_swap)
    IN  [ctx       |-> second.ctx,
         swaps     |-> first.swaps \cup second.swaps,
         tripwires |-> first.tripwires \cup second.tripwires]

-----------------------------------------------------------------------------
(***************************************************************************)
(* detect::apply.  A DLP configuration gives every detector a mode: "off", *)
(* "warn", "block" or "mask".                                              *)
(***************************************************************************)
AllDetectors == {"pan", "ssn", "iban", "aba", "email"}

\* A spot of text with a value of one detector (both names are the same), or
\* with overlapping values of two, the one that begins first, or is longer,
\* named first; as it is ("pii"), or encoded, so that only a decoded view shows
\* it ("encpii").
Spots == {"pii", "encpii"} \X AllDetectors \X AllDetectors

Pii(first, second)    == <<"pii", first, second>>
EncPii(first, second) == <<"encpii", first, second>>

\* A %XX: the text around it is scanned once more, percent-decoded.
Escape == <<"escape", "-">>

\* The text DLP reads: a body that is not text is not scanned.
BodyText(ctx)     == IF ctx.utf8 THEN ctx.body ELSE {}
Headings(ctx) == ctx.path \cup InHeaders(ctx)
Readable(ctx) == Headings(ctx) \cup BodyText(ctx)

\* What is seen only in a decoded view, which the decode budget must pay for.
Windows(ctx) == {x \in Readable(ctx) : x[1] \in {"encpii", "escape"}}

\* scan_text: a detector that is off finds nothing, and of overlapping finds
\* the earliest and longest stays.
spot_mode(x, cfg) == IF cfg[x[2]] # "off" THEN cfg[x[2]] ELSE cfg[x[3]]

\* Variant: a mask-mode hit the rewrite cannot reach stays a mask.
dlp_mode_unreachable(mode) == mode

\* Only text of the body is masked: elsewhere mask fails closed to block.
dlp_mode_fixed(mode) == IF mode = "mask" THEN "block" ELSE mode

\* How far the decode budget goes: up to all the windows (truncated is FALSE),
\* or out before some, which are missed, or before encoded text without
\* values.  Sizes are left open here; the module Detectors counts them.
Scans(ctx) ==
    {[truncated |-> FALSE, missed |-> {}]}
      \cup [truncated : {TRUE}, missed : SUBSET Windows(ctx)]

detect_apply(ctx, cfg, scan) ==
    LET spots  == {x \in Readable(ctx) : x \in Spots}
        plain  == {x \in spots : x[1] = "pii" /\ x \in BodyText(ctx)}
        fixed  == {x \in spots :
                      \/ x[1] = "pii" /\ x \in Headings(ctx)
                      \/ x[1] = "pii" /\ Escape \in BodyText(ctx) \ scan.missed
                      \/ x[1] = "encpii" /\ x \notin scan.missed}
        masked == {x \in plain : spot_mode(x, cfg) = "mask"}
    IN  [ctx       |-> [ctx EXCEPT !.body = @ \ masked],
         modes     |-> ({spot_mode(x, cfg) : x \in plain}
                          \cup {dlp_mode_fixed(spot_mode(x, cfg)) : x \in fixed}) \ {"off"},
         truncated |-> scan.truncated /\ \E d \in AllDetectors : cfg[d] # "off"]

has_blocking(dlp) == "block" \in dlp.modes
has_advisory(dlp) == dlp.modes \cap {"warn", "mask"} # {}

\* A spot whose value a configuration is to keep: blocked or masked by the
\* detector of the find that stays.
Guarded(x, cfg) ==
    /\ x \in Spots
    /\ \/ cfg[x[2]] \in {"block", "mask"}
       \/ cfg[x[2]] = "off" /\ cfg[x[3]] \in {"block", "mask"}
=============================================================================

------------------------- MODULE MCRequestPipeline -------------------------
(***************************************************************************)
(* Instances of RequestPipeline for TLC.                                   *)
(***************************************************************************)
EXTENDS RequestPipeline, TLC

MCDevice  == {[name |-> "gh", provider |-> "github", location |-> "bearer"]}
MCSession == {[name |-> "env", provider |-> "none", location |-> "any"]}

Carrying(header, body) ==
    [headers |-> [h \in {"authorization"} |-> header], path |-> {}, body |-> body, utf8 |-> TRUE]

LLM == [host |-> "llm", path |-> "/v1", method |-> "POST"]
Web == [host |-> "web", path |-> "/", method |-> "GET"]

Kind(dest, tls, provider, ctx, oversize) ==
    [dest |-> dest, tls |-> tls, provider |-> provider, cost |-> IF provider THEN 1 ELSE 0,
     ctx |-> ctx, model |-> IF provider THEN "big" ELSE "none", oversize |-> oversize]

Ask      == Kind(LLM, TRUE, TRUE, Carrying({<<"decoy", "gh">>}, {}), FALSE)
AskPii   == Kind(LLM, TRUE, TRUE, Carrying({}, {Pii("pan", "pan")}), FALSE)
Leak     == Kind(Web, FALSE, FALSE, Carrying({}, {<<"decoy", "gh">>}), FALSE)
Browse   == Kind(Web, TRUE, FALSE, Carrying({}, {<<"decoy", "env">>}), FALSE)
Blob     == Kind(Web, TRUE, FALSE, [Carrying({}, {Pii("pan", "pan")}) EXCEPT !.utf8 = FALSE], FALSE)
Upload   == Kind(Web, TRUE, FALSE, Carrying({}, {}), TRUE)

AskMail  == Kind(LLM, TRUE, TRUE, Carrying({}, {EncPii("email", "pan")}), FALSE)

MCKinds    == {Ask, AskPii, AskMail, Leak, Browse, Blob, Upload}

\* Soft-landing sends it to a second model, so that two keys are kept alive.
MCAskKinds == {Ask}

\* DLP modes of two detectors; the others are off.
Dlp(pan, email) ==
    [d \in AllDetectors |-> CASE d = "pan" -> pan [] d = "email" -> email [] OTHER -> "off"]

RuleFor(dest, action, list, route) ==
    [hosts |-> {dest.host}, methods |-> {}, path_prefixes |-> {}, action |-> action,
     allow_secrets |-> list, route |-> route]

PolicyOf(llm, list, dlp, trip_mode) ==
    [default_action |-> "deny", escalate_fallback |-> "deny",
     rules |-> << RuleFor(LLM, llm, list, "big" :> "small" @@ "mid" :> "small"),
                  RuleFor(Web, "warn", {<<"name", "env">>}, NoRoute) >>,
     dlp |-> dlp, trip_mode |-> trip_mode, soft |-> "big" :> "mid",
     repair |-> TRUE, keep_alive |-> TRUE]

Releasing == PolicyOf("route", {<<"provider", "github">>}, Dlp("mask", "off"), "block")
Alerting  == PolicyOf("allow", {<<"name", "gh">>}, Dlp("warn", "block"), "alert")
Revoked   == PolicyOf("warn", {<<"name", "gh">>}, Dlp("block", "warn"), "block")
Escalated == PolicyOf("escalate", {}, Dlp("off", "off"), "off")

\* With DLP, the tripwire and the repair off, to see the reloads alone.
Bare(p) == [p EXCEPT !.dlp = Dlp("off", "off"), !.trip_mode = "off", !.repair = FALSE]

MCPolicies    == {Bare(Alerting), Bare(Revoked)}
MCEdits       == {Bare(Revoked), Rejected}
MCAllPolicies == {Releasing, Alerting, Revoked, Escalated}
MCFewEdits    == {Revoked}

\* Billing and what it leads to are followed until the policy is edited.
BilledOrEdited == spent = 0 \/ file \notin Edits

\* The slots are alike.
SlotSymmetry == Permutations(Slots)
=============================================================================

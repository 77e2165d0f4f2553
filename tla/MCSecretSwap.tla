---------------------------- MODULE MCSecretSwap ----------------------------
(***************************************************************************)
(* Every small request, under every small policy, through SwapPath: the    *)
(* two vaults under the decision of the rules, then DLP.                   *)
(*                                                                         *)
(* Bounds: a request holds at most two things, in two headers, the path or *)
(* the body; a policy has a rule for one path ahead of one for the host;   *)
(* DLP has two detectors that can overlap.                                 *)
(***************************************************************************)
EXTENDS SwapPath

MCDevice  == {[name |-> "gh", provider |-> "github", location |-> "bearer"]}
MCSession == {[name |-> "env", provider |-> "github", location |-> "any"],
              [name |-> "tok", provider |-> "none", location |-> "body"]}

HeaderNames == {"authorization", "x-api-key"}
Parts == HeaderNames \cup {"path", "body"}

\* Every request that holds at most two of these things.
Requests(things) ==
    {r \in {[headers |-> [h \in HeaderNames |-> {t \in things : <<h, t>> \in placed}],
             path    |-> {t \in things : <<"path", t>> \in placed},
             body    |-> {t \in things : <<"body", t>> \in placed},
             utf8    |-> utf8] :
               placed \in {{}} \cup {{x, y} : x \in Parts \X things, y \in Parts \X things},
               utf8 \in BOOLEAN} :
        r.utf8 \/ r.body # {}}

SecretThings  == {Decoy(s) : s \in Secrets} \cup {<<"encoded", "gh">>}
Found == {Pii("pan", "pan"), Pii("email", "pan"), EncPii("pan", "pan"), EncPii("email", "pan"),
          Escape}

\* Modes of two detectors; the others are off.
DlpOf(pan, email) ==
    [d \in AllDetectors |-> CASE d = "pan" -> pan [] d = "email" -> email [] OTHER -> "off"]

Modes == {"off", "warn", "block", "mask"}

Lists == {{}, {<<"name", "gh">>, <<"name", "tok">>}, {<<"provider", "github">>}}

PolicyOf(action, fallback, list) ==
    [default_action    |-> "deny",
     escalate_fallback |-> fallback,
     rules |-> << [hosts |-> {"llm"}, methods |-> {}, path_prefixes |-> {"/v1"},
                   action |-> action, allow_secrets |-> list, route |-> NoRoute],
                  [hosts |-> {"llm"}, methods |-> {"POST"}, path_prefixes |-> {},
                   action |-> "warn", allow_secrets |-> {<<"name", "env">>},
                   route |-> NoRoute] >>]

Policies ==
    {PolicyOf(action, "deny", list) : action \in Actions \ {"escalate"}, list \in Lists}
      \cup {PolicyOf("escalate", fallback, list) : fallback \in {"allow", "escalate"}, list \in Lists}

Dests == {[host |-> "llm", path |-> "/v1", method |-> "POST"],
          [host |-> "llm", path |-> "/v2", method |-> "POST"],
          [host |-> "llm", path |-> "/v2", method |-> "GET"]}

\* Secrets under every policy; off the first rule's path one action of it
\* stands for all.
SwapInputs ==
    {x \in [request : Requests(SecretThings), policy : Policies, dest : Dests, tls : BOOLEAN,
            dlp : {DlpOf("off", "off")}] :
        x.dest.path # "/v1" => x.policy.rules[1].action = "allow"}

\* Personal data, and one secret, under every pair of modes.
ScanInputs ==
    [request : Requests(Found \cup {<<"decoy", "gh">>}),
     policy  : {PolicyOf("allow", "deny", {<<"name", "gh">>})},
     dest    : {[host |-> "llm", path |-> "/v1", method |-> "POST"]}, tls : {TRUE},
     dlp     : {DlpOf(pan, email) : pan \in Modes, email \in Modes}]

MCInputs == SwapInputs \cup ScanInputs
=============================================================================

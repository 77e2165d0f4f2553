----------------------------- MODULE PolicyLint -----------------------------
(***************************************************************************)
(* What src/src/policy.rs says about a policy without evaluating it: the   *)
(* warnings of lint and lint_routes, and the rules that may release a      *)
(* secret.                                                                 *)
(*                                                                         *)
(* A host is a sequence of labels; a glob is a host, a host behind the     *)
(* label "*", or "*" alone.  A rule is [hosts, methods, path_prefixes,     *)
(* action, allow_secrets, route] with a set of globs for its hosts.  A     *)
(* warning is what it is about.                                            *)
(***************************************************************************)
EXTENDS Naturals, Sequences, SequencesExt, Functions

CONSTANT PROVIDER_LABELS

AnyHost == <<"*">>
Wild(glob) == Len(glob) > 1 /\ glob[1] = "*"

\* "*.x" matches x too.
glob_match(glob, host) ==
    IF Wild(glob) THEN IsSuffix(Tail(glob), host) ELSE glob = AnyHost \/ glob = host

\* Variant: any wildcard covers what ends alike, the wildcard itself included.
glob_covers_tail(outer, inner) ==
    outer = AnyHost \/ outer = inner \/ IsSuffix(Tail(outer), inner)

\* Every host that inner matches, outer matches.
glob_covers(outer, inner) ==
    \/ outer = AnyHost \/ outer = inner
    \/ Wild(outer) /\ IsSuffix(Tail(outer), IF Wild(inner) THEN Tail(inner) ELSE inner)

-----------------------------------------------------------------------------
\* Entries that can name nothing.
BadEntries(rules, known) ==
    UNION {{<<"entry", i, e>> : e \in {x \in rules[i].allow_secrets :
              IF x[1] = "provider" THEN x[2] \notin PROVIDER_LABELS
              ELSE known # {} /\ \A s \in known : s.name # x[2]}} : i \in DOMAIN rules}

\* Releasing rules below an unconstrained rule that matches all they match.
Shadowed(rules) ==
    {<<"shadow", i>> : i \in {k \in DOMAIN rules :
        /\ rules[k].allow_secrets # {}
        /\ \E j \in 1..(k - 1) :
              /\ rules[j].path_prefixes = {} /\ rules[j].methods = {}
              /\ \A h \in rules[k].hosts : \E g \in rules[j].hosts : glob_covers(g, h)}}

lint(rules, known) == BadEntries(rules, known) \cup Shadowed(rules)

\* A model some entry of the pricing table is a prefix of.
knows_model(models, model) == \E p \in models : IsPrefix(p, model)

lint_routes(rules, models) ==
    LET routes == {i \in DOMAIN rules : rules[i].action = "route"} IN
    {<<"empty", i>> : i \in {k \in routes : rules[k].route = <<>>}}
      \cup UNION {{<<"model", i, m>> : m \in {to \in Range(rules[i].route) : ~knows_model(models, to)}} :
                    i \in routes}

releasing_rules(rules, secret) ==
    {i \in DOMAIN rules :
       /\ rules[i].action \in {"allow", "route"}
       /\ \/ <<"name", secret.name>> \in rules[i].allow_secrets
          \/ <<"provider", secret.provider>> \in rules[i].allow_secrets}
=============================================================================

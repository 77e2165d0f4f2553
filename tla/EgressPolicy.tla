---------------------------- MODULE EgressPolicy ----------------------------
(***************************************************************************)
(* Rule evaluation of src/src/policy.rs.                                   *)
(*                                                                         *)
(* A destination is [host, path, method].  A rule's host globs and path    *)
(* prefixes are the sets of hosts and paths they match, so a rule is       *)
(* [hosts, methods, path_prefixes, action, allow_secrets, route], where an *)
(* entry of allow_secrets is <<"name", n>> or <<"provider", label>> and    *)
(* route maps models to models.  A secret is [name, provider, location].   *)
(***************************************************************************)
EXTENDS Naturals, Sequences

Actions == {"allow", "deny", "warn", "route", "escalate"}

NoRoute == [m \in {} |-> m]

lists_secret(allow_secrets, secret) ==
    \/ <<"name", secret.name>> \in allow_secrets
    \/ <<"provider", secret.provider>> \in allow_secrets

matches(rule, dest) ==
    /\ dest.host \in rule.hosts
    /\ rule.methods = {} \/ dest.method \in rule.methods
    /\ rule.path_prefixes = {} \/ dest.path \in rule.path_prefixes

\* escalate becomes its fallback; a fallback of escalate fails closed.
resolve(policy, action, allow_secrets, route) ==
    [action        |-> IF action # "escalate" THEN action
                       ELSE IF policy.escalate_fallback = "escalate" THEN "deny"
                       ELSE policy.escalate_fallback,
     escalated     |-> action = "escalate",
     allow_secrets |-> allow_secrets,
     route         |-> route]

\* The first rule that matches wins.
evaluate(policy, dest) ==
    LET matching == {i \in 1..Len(policy.rules) : matches(policy.rules[i], dest)}
    IN  IF matching = {}
        THEN resolve(policy, policy.default_action, {}, NoRoute)
        ELSE LET rule == policy.rules[CHOOSE i \in matching : \A j \in matching : i <= j]
             IN  resolve(policy, rule.action, rule.allow_secrets, rule.route)

expects(decision, secret) == lists_secret(decision.allow_secrets, secret)

releases(decision, secret) ==
    decision.action \in {"allow", "route"} /\ lists_secret(decision.allow_secrets, secret)
=============================================================================

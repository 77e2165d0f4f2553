---------------------------- MODULE SessionVault ----------------------------
(***************************************************************************)
(* What `decoyrail run` does to the environment of the command it starts:  *)
(* detect_env of src/src/guard.rs builds the session vault, run_command of *)
(* src/src/main.rs the child's environment.                                *)
(*                                                                         *)
(* A value is [shape, of]: what its characters look like, and what it is;  *)
(* the decoy of a secret is a value of its own.  A secret is [name, real,  *)
(* decoy, env, provider], a vault a sequence of secrets; names of secrets  *)
(* and what a value is are sequences of words.                             *)
(***************************************************************************)
EXTENDS Naturals, Sequences, FiniteSets, SequencesExt, TLC

CONSTANTS SensitiveNames,  \* names that look like credentials
          Labels,          \* shape of a recognized format -> provider label
          Kept,            \* the shapes a decoy keeps
          ProxyVars, Unset,
          NoVar, NoProvider

ProxyUrl == [shape |-> "url", of |-> <<"proxy">>]

infer_provider(value) == IF value.shape \in DOMAIN Labels THEN Labels[value.shape] ELSE NoProvider

\* The same name and value give the same decoy.
make_decoy(name, real) ==
    [shape |-> IF real.shape \in Kept THEN real.shape ELSE "plain", of |-> <<"decoy">> \o name \o real.of]

name_sensitive(name) == name \in SensitiveNames

value_sensitive(value) ==
    infer_provider(value) # NoProvider \/ value.shape \in {"shape_only", "pem", "connection"}

value_exempt(value) == value.shape \in {"short", "path"}

EnvSecret(name, value) ==
    [name |-> <<"env", name>>, real |-> value, decoy |-> make_decoy(<<"env", name>>, value),
     env |-> name, provider |-> infer_provider(value)]

\* Variant: a variable the vault injects is decoyed once more.
detect_env_again(env, vault, pass) ==
    {EnvSecret(n, env[n]) : n \in {m \in DOMAIN env \ pass :
        /\ ~value_exempt(env[m])
        /\ name_sensitive(m) \/ value_sensitive(env[m])
        /\ \A s \in ToSet(vault) : env[m] \notin {s.real, s.decoy}}}

\* Secrets for what looks sensitive, unless the vault has it already.
detect_env(env, vault, pass) ==
    {EnvSecret(n, env[n]) : n \in {m \in DOMAIN env \ pass :
        /\ ~value_exempt(env[m])
        /\ name_sensitive(m) \/ value_sensitive(env[m])
        /\ \A s \in ToSet(vault) : s.env # m /\ env[m] \notin {s.real, s.decoy}}}

\* The decoys of a vault by variable; the last secret of a variable counts.
Injected(secrets) ==
    [n \in {s.env : s \in ToSet(secrets)} \ {NoVar} |->
       Last(SelectSeq(secrets, LAMBDA s : s.env = n)).decoy]

\* Later settings win: the session's, the vault's, the proxy's, the shell's.
child_env(env, vault, session) ==
    Injected(SetToSeq(session)) @@ Injected(vault)
      @@ [n \in ProxyVars |-> ProxyUrl]
      @@ [n \in DOMAIN env \ Unset |-> env[n]]
=============================================================================

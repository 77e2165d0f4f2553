------------------------------ MODULE SwapPath ------------------------------
(***************************************************************************)
(* One request through SecretSwap, as pipeline_inner takes it there: steps *)
(* 1, 4 and 4.5.  The rules decide, the two vaults are applied under their *)
(* decision, and DLP scans what they leave.  The properties say where real *)
(* secrets, decoys and detected values are afterwards, in terms of the     *)
(* policy file and the request that came in.                               *)
(***************************************************************************)
EXTENDS SecretSwap

CONSTANT Inputs  \* a set of [request, policy, dest, tls, dlp]

\* Any request of an agent, which holds no real value, under any policy.
ASSUME InputsAssumption == \A x \in Inputs :
    /\ IsRequest(x.request)
    /\ \A s \in Secrets : Real(s) \notin Anywhere(x.request)
    /\ Len(x.policy.rules) \in Nat

VARIABLES input,      \* the request, the policy, its destination, transport, DLP modes
          stage,      \* "received", "swapped", "scanned"
          held,       \* the request as it stands
          tripwires,  \* of both vaults
          modes,      \* of the DLP hits
          truncated   \* the decode budget ran out

swap_vars == <<input, stage, held, tripwires, modes, truncated>>

SwapInit ==
    /\ input \in Inputs
    /\ stage = "received" /\ held = input.request
    /\ tripwires = {} /\ modes = {} /\ truncated = FALSE

Decision == evaluate(input.policy, input.dest)

Swap ==
    /\ stage = "received"
    /\ LET out == apply_both(held, Device, Session, Decision, input.tls) IN
       /\ held' = out.ctx
       /\ tripwires' = out.tripwires
    /\ stage' = "swapped"
    /\ UNCHANGED <<input, modes, truncated>>

Detect ==
    /\ stage = "swapped"
    /\ \E scan \in Scans(held) :
          LET dlp == detect_apply(held, input.dlp, scan) IN
          /\ held' = dlp.ctx
          /\ modes' = dlp.modes
          /\ truncated' = dlp.truncated
    /\ stage' = "scanned"
    /\ UNCHANGED <<input, tripwires>>

SwapNext == Swap \/ Detect

SwapSpec == SwapInit /\ [][SwapNext]_swap_vars

-----------------------------------------------------------------------------
(***************************************************************************)
(* Properties.                                                             *)
(***************************************************************************)
Rules == input.policy.rules

\* The rule that the policy file puts first among those that apply, if any.
Winners ==
    {i \in 1..Len(Rules) :
        matches(Rules[i], input.dest) /\ \A j \in 1..(i - 1) : ~matches(Rules[j], input.dest)}

WinnerReleases ==
    \E i \in Winners :
       \/ Rules[i].action \in {"allow", "route"}
       \/ Rules[i].action = "escalate" /\ input.policy.escalate_fallback \in {"allow", "route"}

Listed(s) ==
    \E i \in Winners :
       {<<"name", s.name>>, <<"provider", s.provider>>} \cap Rules[i].allow_secrets # {}

\* docs/threat-model.md, invariant 1: a real secret is placed only over TLS,
\* only where the winning rule releases it, only where it rides, and only in
\* the place of its decoy; never in the URL.
RealOnlyWhereReleased ==
    \A s \in Secrets :
       /\ Real(s) \notin held.path
       /\ Real(s) \in Anywhere(held) => input.tls /\ WinnerReleases /\ Listed(s)
       /\ \A h \in Headers(held) : Real(s) \in held.headers[h] =>
             /\ Decoy(s) \in input.request.headers[h]
             /\ s.location \in {"any", h} \/ (s.location = "bearer" /\ h = "authorization")
       /\ Real(s) \in held.body =>
             /\ Decoy(s) \in input.request.body
             /\ s.location \in {"any", "body"} /\ held.utf8

\* docs/threat-model.md, invariant 4: what is left of a decoy in a request
\* without tripwires is a literal one, outside the URL and outside a binary
\* body, of a secret the winning rule lists and does not release.
AnomalyTrips ==
    (stage # "received" /\ tripwires = {}) =>
       \A s \in Secrets :
          /\ Encoded(s) \notin Anywhere(held)
          /\ Decoy(s) \notin held.path
          /\ Decoy(s) \in held.body => held.utf8
          /\ Decoy(s) \in Anywhere(held) => Listed(s) /\ ~WinnerReleases

\* docs/dlp.md: what a blocking or masking detector finds does not leave, in
\* whatever text it sits and however that is encoded, overlaps with another
\* detector's values included; but past the decode budget an encoded value
\* may, and then the outcome says that the scan was bounded.
DetectedNeverLeaves ==
    (stage = "scanned" /\ "block" \notin modes) =>
       \A x \in Readable(held) : Guarded(x, input.dlp) => x[1] = "encpii" /\ truncated
=============================================================================

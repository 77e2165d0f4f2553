--------------------------- MODULE MCEngineReload ---------------------------
(***************************************************************************)
(* Two starts of a proxy, files that change twice, days that bring a        *)
(* license into its grace and past it, and one request that hangs up.      *)
(***************************************************************************)
EXTENDS EngineReload

Doc(t, rank, issued, expires, grace) ==
    [tier |-> t, rank |-> rank, issued |-> issued, expires |-> expires, grace_days |-> grace]

ProDoc    == Doc("pro", Unranked, 0, 1, 1)     \* expires on day 1, free on day 3
FutureDoc == Doc("future", 7, 2, 2, 9)         \* issued on day 2, a tier of a later release
OldDoc    == Doc("team", Unranked, 0, 0, 0)    \* expires today

\* A license with a later date written over the one that was signed.
Stretched == [sign_document(OldDoc, "release") EXCEPT !.doc.expires = 3]

Licenses == {sign_document(ProDoc, "release"), sign_document(FutureDoc, "release"),
             sign_document(ProDoc, "stranger"), Stretched}

Policies(names) == [rules : names, default_action : {"deny"}]

MCTexts == [vault   |-> {"v1", "v2", "torn"}, policy |-> Policies({"p1", "p2", "typo"}),
            budget  |-> {"b1", "torn"}, pricing |-> {"r1", "torn"},
            license |-> Licenses]
MCLoadable == [vault   |-> {"v1", "v2"}, policy |-> Policies({"p1", "p2"}),
               budget  |-> {"b1"}, pricing |-> {"r1"}, license |-> Licenses]
=============================================================================

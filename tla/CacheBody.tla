----------------------------- MODULE CacheBody -----------------------------
(***************************************************************************)
(* A Messages request as the prompt-cache code of src/src/cache.rs sees    *)
(* it: the canonical prefix that is compared from request to request, and  *)
(* the splice that puts a cache marker into the client's own bytes.        *)
(*                                                                         *)
(* A JSON value is <<"str", text>>, <<"num", text>>, <<"arr", elements>>   *)
(* or <<"obj", members>>, a member being <<key, value>>; its text is a     *)
(* sequence of tokens, a string one token, so escapes do not show.         *)
(***************************************************************************)
EXTENDS Naturals, Sequences, SequencesExt, FiniteSetsExt

CONSTANT PREFIX_CAP      \* how many sections of a prefix are looked at

Absent == <<"absent", 0>>
Str(s) == <<"str", s>>
Arr(a) == <<"arr", a>>
Obj(m) == <<"obj", m>>
IsObj(v) == v[1] = "obj"
IsArr(v) == v[1] = "arr"

Marker == "cache_control"

\* The member of an object, or Absent.
Get(v, key) ==
    LET at == {i \in DOMAIN v[2] : v[2][i][1] = key}
    IN IF at = {} THEN Absent ELSE v[2][Max(at)][2]

-----------------------------------------------------------------------------
(***************************************************************************)
(* The canonical prefix: tools, system and messages in this order, without *)
(* markers and without the order of members.  A section is its label and   *)
(* its content; offsets are counted in sections.                           *)
(***************************************************************************)
RECURSIVE strip_markers(_), Markers(_)
strip_markers(v) ==
    CASE IsObj(v) -> <<"obj", {<<m[1], strip_markers(m[2])>> :
                                  m \in {x \in ToSet(v[2]) : x[1] # Marker}}>>
      [] IsArr(v) -> <<"arr", [i \in DOMAIN v[2] |-> strip_markers(v[2][i])]>>
      [] OTHER    -> v

\* How many there were; those inside a marker go with it.
Markers(v) ==
    CASE IsObj(v) -> FoldSeq(LAMBDA m, n : n + IF m[1] = Marker THEN 1 ELSE Markers(m[2]), 0, v[2])
      [] IsArr(v) -> FoldSeq(LAMBDA e, n : n + Markers(e), 0, v[2])
      [] OTHER    -> 0

Sections(part, v) ==
    CASE IsArr(v)    -> [i \in DOMAIN v[2] |-> [label |-> <<part, i - 1>>, value |-> v[2][i]]]
      [] v = Absent  -> <<>>
      [] OTHER       -> IF part = "system" THEN <<[label |-> <<part, 0>>, value |-> v]>> ELSE <<>>

\* What is past the cap is neither compared nor searched for markers.
canonicalize(root) ==
    LET all  == Sections("tools", Get(root, "tools")) \o Sections("system", Get(root, "system"))
                  \o Sections("messages", Get(root, "messages"))
        kept == SubSeq(all, 1, IF Len(all) > PREFIX_CAP + 1 THEN PREFIX_CAP + 1 ELSE Len(all))
    IN [labels    |-> [i \in DOMAIN kept |-> kept[i].label],
        prefix    |-> [i \in DOMAIN kept |-> strip_markers(kept[i].value)],
        markers   |-> FoldSeq(LAMBDA s, n : n + Markers(s.value), 0, kept),
        truncated |-> Len(all) > Len(kept)]

\* How many sections come before the first message.
messages_start(canon) ==
    LET at == {i \in DOMAIN canon.labels : canon.labels[i][1] = "messages"}
    IN IF at = {} THEN Len(canon.labels) ELSE Min(at) - 1

cacheable(canon) == SubSeq(canon.prefix, 1, messages_start(canon))

\* What the fan-out gate and the keep-alive scheduler know a prefix by.
cacheable_key(root) == cacheable(canonicalize(root))

-----------------------------------------------------------------------------
(***************************************************************************)
(* The text, with whitespace wherever it may be or nowhere.                *)
(***************************************************************************)
T(c)  == <<c, "">>
Ws(w) == IF w THEN <<T(" ")>> ELSE <<>>

RECURSIVE Tokens(_, _)
Tokens(v, w) ==
    LET List(open, close, parts) ==
           <<T(open)>> \o Ws(w)
             \o FoldLeft(LAMBDA acc, p : IF acc = <<>> THEN p ELSE acc \o <<T(",")>> \o Ws(w) \o p,
                         <<>>, parts)
             \o Ws(w) \o <<T(close)>>
    IN CASE IsObj(v) -> List("{", "}", [i \in DOMAIN v[2] |->
                          <<<<"str", v[2][i][1]>>>> \o Ws(w) \o <<T(":")>> \o Ws(w)
                            \o Tokens(v[2][i][2], w)])
         [] IsArr(v) -> List("[", "]", [i \in DOMAIN v[2] |-> Tokens(v[2][i], w)])
         [] OTHER    -> <<v>>

At(b, i, c) == i \in DOMAIN b /\ b[i][1] = c
Nowhere == 0

\* The first token from i on that is not whitespace.
skip_ws(b, i) ==
    LET rest == {j \in i..Len(b) : b[j] # T(" ")} IN IF rest = {} THEN Len(b) + 1 ELSE Min(rest)

\* Variant: the first bracket that closes ends the value.
skip_value_flat(b, at) ==
    LET i == skip_ws(b, at)
        close == IF At(b, i, "{") THEN "}" ELSE "]"
        ends == IF At(b, i, "{") \/ At(b, i, "[")
                THEN {j \in i..Len(b) : At(b, j, close)}
                ELSE {j \in i..Len(b) : j + 1 > Len(b) \/ b[j + 1][1] \in {",", "}", "]"}}
    IN IF At(b, i, "str") THEN i + 1 ELSE IF ends = {} THEN Nowhere ELSE Min(ends) + 1

\* Just past the value at i: brackets of its own kind are counted; anything
\* else runs to the next comma or bracket that closes.
ValueEnd(b, i) ==
    LET close == IF At(b, i, "{") THEN "}" ELSE "]"
        Count(c, j) == Cardinality({k \in i..j : At(b, k, c)})
        ends == IF At(b, i, "{") \/ At(b, i, "[")
                THEN {j \in i..Len(b) : Count(b[i][1], j) = Count(close, j)}
                ELSE {j \in i..Len(b) : j + 1 > Len(b) \/ b[j + 1][1] \in {",", "}", "]"}}
    IN IF At(b, i, "str") THEN i + 1 ELSE IF ends = {} THEN Nowhere ELSE Min(ends) + 1

skip_value(b, at) == ValueEnd(b, skip_ws(b, at))

\* Past a comma, if there is one.
past_comma(b, at) ==
    LET i == skip_ws(b, at) IN IF At(b, i, ",") THEN skip_ws(b, i + 1) ELSE i

\* Where the value of a member starts and ends.
RECURSIVE MemberFrom(_, _, _)
MemberFrom(b, i, key) ==
    LET colon == skip_ws(b, i + 1)
        start == skip_ws(b, colon + 1)
        end   == skip_value(b, start)
    IN IF ~At(b, i, "str") \/ ~At(b, colon, ":") \/ end = Nowhere THEN <<Nowhere, Nowhere>>
       ELSE IF b[i][2] = key THEN <<start, end>>
       ELSE MemberFrom(b, past_comma(b, end), key)

object_member_value(b, open, key) == MemberFrom(b, skip_ws(b, open + 1), key)

RECURSIVE LastFrom(_, _, _, _)
LastFrom(b, i, end, last) ==
    IF i >= end \/ At(b, i, "]") THEN last
    ELSE IF skip_value(b, i) = Nowhere THEN Nowhere
    ELSE LastFrom(b, past_comma(b, skip_value(b, i)), end, i)

array_last_element(b, open, end) == LastFrom(b, skip_ws(b, open + 1), end, Nowhere)

\* The brace of the last element of the array at span, if it is an object.
LastOf(b, span) ==
    IF At(b, span[1], "[") THEN array_last_element(b, span[1], span[2]) ELSE Nowhere

Brace(b, i) == IF At(b, i, "{") THEN i ELSE Nowhere

LastObject(b, root, key) == Brace(b, LastOf(b, object_member_value(b, root, key)))

\* The last block of system, or else the last tool.
OrElse(i, j) == IF i # Nowhere THEN i ELSE j
injection_point(b) ==
    LET root == skip_ws(b, 1) IN
    IF ~At(b, root, "{") THEN Nowhere
    ELSE OrElse(LastObject(b, root, "system"), LastObject(b, root, "tools"))

MarkerValue(ttl_1h) ==
    Obj(<<<<"type", Str("ephemeral")>>>> \o IF ttl_1h THEN <<<<"ttl", Str("1h")>>>> ELSE <<>>)

\* The marker goes right behind the brace at p; <<>> if there is none.
SpliceAt(b, p, ttl_1h) ==
    LET marker == <<<<"str", Marker>>, T(":")>> \o Tokens(MarkerValue(ttl_1h), FALSE)
        comma  == IF At(b, skip_ws(b, p + 1), "}") THEN <<>> ELSE <<T(",")>>
    IN IF p = Nowhere THEN <<>>
       ELSE SubSeq(b, 1, p) \o marker \o comma \o SubSeq(b, p + 1, Len(b))

splice_marker(b, ttl_1h) == SpliceAt(b, injection_point(b), ttl_1h)
=============================================================================

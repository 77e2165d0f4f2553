----------------------------- MODULE Detectors -----------------------------
(***************************************************************************)
(* The detectors of src/src/detect.rs on one piece of text, what is left   *)
(* of their overlapping finds, and the masking of a body.                  *)
(*                                                                         *)
(* A character is a number: 0..9 the digits, 10..35 the capitals, 40..65   *)
(* the other letters, then punctuation.  Lengths are parameters, so that   *)
(* short texts hold whole numbers.  A span is [det, start, end], end       *)
(* exclusive.                                                              *)
(***************************************************************************)
EXTENDS Integers, Sequences, SequencesExt, FiniteSetsExt

CONSTANTS PanLengths, Issuers, AbaLength, AbaPrefixes, SsnGroups, SsnNoArea, IbanLength, Published

Space == 70
Dash  == 71
Under == 72
Dot   == 73
AtSign == 74
Mask(det) == <<det>>       \* the text that stands for a masked find

is_digit(c) == c \in 0..9
is_upper(c) == c \in 10..35
is_word(c)  == c \in 0..65

\* Is there a character of a kind at a place?
Is(kind(_), b, i) == i \in DOMAIN b /\ kind(b[i])
Here(b, i, c) == i \in DOMAIN b /\ b[i] = c

\* Upper case, without separators.
normalize_allow(s) ==
    [i \in DOMAIN SelectSeq(s, is_word) |->
       LET c == SelectSeq(s, is_word)[i] IN IF c >= 40 THEN c - 30 ELSE c]

\* Test numbers published for a detector, and what the policy allows.
allowed(det, allow, s) == normalize_allow(s) \in Published[det] \cup allow

\* The part of a text, and its digits.
Part(b, start, end) == SubSeq(b, start, end - 1)
Digits(s) == SelectSeq(s, is_digit)

\* The first place from i on where a run stops.
Until(b, i, goes_on(_)) ==
    CHOOSE j \in i..(Len(b) + 1) : (j > Len(b) \/ ~goes_on(j)) /\ \A k \in i..(j - 1) : goes_on(k)

\* Behind part of an identifier, a decimal or a version.
Glued(b, i) == i > 1 /\ (is_word(b[i - 1]) \/ b[i - 1] \in {Dash, Under, Dot})

-----------------------------------------------------------------------------
\* From the right, every second digit is doubled.
luhn(d) ==
    LET Weighted(x) == IF 2 * x > 9 THEN 2 * x - 9 ELSE 2 * x
    IN FoldLeft(LAMBDA sum, i : sum + IF (Len(d) - i) % 2 = 1 THEN Weighted(d[i]) ELSE d[i],
                0, [i \in DOMAIN d |-> i]) % 10 = 0

card_network(d) == <<d[1], Len(d)>> \in Issuers

aba_valid(d) ==
    LET sum == FoldLeft(LAMBDA s, i : s + d[i] * (CASE i % 3 = 1 -> 3 [] i % 3 = 2 -> 7 [] OTHER -> 1),
                        0, [i \in DOMAIN d |-> i])
    IN Len(d) = AbaLength /\ sum # 0 /\ sum % 10 = 0 /\ d[1] * 10 + d[2] \in AbaPrefixes

\* One run of digits with single separators: a card, a routing number or none.
Number(b, start, end, on, allow) ==
    LET run  == Part(b, start, end)
        d    == Digits(run)
        seps == ToSet(run) \cap {Space, Dash}
        bounded == ~Is(is_word, b, end) /\ ~Here(b, end, Under)
    IN IF ~bounded THEN {}
       ELSE IF /\ "pan" \in on /\ Len(d) \in PanLengths /\ Cardinality(seps) <= 1
               /\ card_network(d) /\ luhn(d) /\ ~allowed("pan", allow, d)
       THEN {[det |-> "pan", start |-> start, end |-> end]}
       ELSE IF "aba" \in on /\ seps = {} /\ aba_valid(d) /\ ~allowed("aba", allow, d)
       THEN {[det |-> "aba", start |-> start, end |-> end]}
       ELSE {}

RECURSIVE scan_digit_runs(_, _, _, _)
scan_digit_runs(b, i, on, allow) ==
    LET digit(j) == Is(is_digit, b, j)
        run(j)   == digit(j) \/ ((Here(b, j, Space) \/ Here(b, j, Dash)) /\ digit(j + 1))
        end      == Until(b, i, run)
    IN IF i > Len(b) THEN {}
       ELSE IF ~digit(i) THEN scan_digit_runs(b, i + 1, on, allow)
       ELSE IF Glued(b, i) THEN scan_digit_runs(b, Until(b, i, digit), on, allow)
       ELSE Number(b, i, end, on, allow) \cup scan_digit_runs(b, end, on, allow)

\* Three groups of digits with dashes, none all zero, in an area there is.
scan_ssn(b, allow) ==
    LET g == SsnGroups
        total == g[1] + g[2] + g[3] + 2
        Group(i, n) == \A k \in i..(i + n - 1) : Is(is_digit, b, k)
        Zero(i, n)  == \A k \in i..(i + n - 1) : b[k] = 0
        Area(i) == FoldLeft(LAMBDA a, c : a * 10 + c, 0, SubSeq(b, i, i + g[1] - 1))
        second(i) == i + g[1] + 1
        third(i)  == second(i) + g[2] + 1
        found == {i \in 1..(Len(b) - total + 1) :
                    /\ ~Glued(b, i)
                    /\ Group(i, g[1]) /\ Group(second(i), g[2]) /\ Group(third(i), g[3])
                    /\ b[second(i) - 1] = Dash /\ b[third(i) - 1] = Dash
                    /\ ~Is(is_word, b, i + total)
                    /\ ~Here(b, i + total, Dash) /\ ~Here(b, i + total, Under)
                    /\ Area(i) \notin SsnNoArea
                    /\ ~Zero(i, g[1]) /\ ~Zero(second(i), g[2]) /\ ~Zero(third(i), g[3])
                    /\ ~allowed("ssn", allow, Part(b, i, i + total))}
    IN {[det |-> "ssn", start |-> i, end |-> i + total] : i \in found}

\* The first four characters come last, a letter counts as two digits.
iban_mod97(s) ==
    FoldLeft(LAMBDA rem, c : (rem * (IF c < 10 THEN 10 ELSE 100) + c) % 97, 0,
             SubSeq(s, 5, Len(s)) \o SubSeq(s, 1, 4))

RECURSIVE scan_iban(_, _, _)
scan_iban(b, i, allow) ==
    LET alnum(c) == is_digit(c) \/ is_upper(c)
        run(j)   == Is(alnum, b, j) \/ (Here(b, j, Space) /\ Is(alnum, b, j + 1))
        end      == Until(b, i, run)
        compact  == SelectSeq(Part(b, i, end), alnum)
        shaped   == /\ is_upper(b[i]) /\ is_upper(b[i + 1]) /\ is_digit(b[i + 2]) /\ is_digit(b[i + 3])
                    /\ i = 1 \/ ~is_word(b[i - 1])
        known    == SubSeq(b, i, i + 1) \in DOMAIN IbanLength
    IN IF i + 3 > Len(b) THEN {}
       ELSE IF ~shaped \/ ~known THEN scan_iban(b, i + 1, allow)
       ELSE (IF /\ ~Is(is_word, b, end) /\ Len(compact) = IbanLength[SubSeq(b, i, i + 1)]
                /\ iban_mod97(compact) = 1 /\ ~allowed("iban", allow, compact)
             THEN {[det |-> "iban", start |-> i, end |-> end]} ELSE {})
              \cup scan_iban(b, end, allow)

\* Around every @: what may be a local part, and a domain of labels whose
\* last has two letters or more.
scan_email(b, allow) ==
    LET local(c)  == is_word(c) \/ c \in {Dot, Under, Dash}
        domain(c) == is_word(c) \/ c \in {Dot, Dash}
        From(k) == CHOOSE s \in 1..k : (\A j \in s..(k - 1) : local(b[j])) /\ (s = 1 \/ ~local(b[s - 1]))
        Far(k)  == Until(b, k + 1, LAMBDA j : domain(b[j]))
        To(k)   == CHOOSE e \in (k + 1)..Far(k) :
                      /\ \A j \in e..(Far(k) - 1) : b[j] \in {Dot, Dash}
                      /\ e = k + 1 \/ b[e - 1] \notin {Dot, Dash}
        Valid(d) ==
            LET dots == {j \in DOMAIN d : d[j] = Dot} IN
            /\ dots # {} /\ 1 \notin dots /\ Len(d) - Max(dots) >= 2
            /\ \A j \in (Max(dots) + 1)..Len(d) : is_word(d[j]) /\ ~is_digit(d[j])
            /\ \A j \in dots : j + 1 \notin dots
        found == {k \in DOMAIN b : /\ b[k] = AtSign /\ From(k) < k
                                   /\ Valid(Part(b, k + 1, To(k)))
                                   /\ ~allowed("email", allow, Part(b, From(k), To(k)))}
    IN {[det |-> "email", start |-> From(k), end |-> To(k)] : k \in found}

-----------------------------------------------------------------------------
\* Everything the detectors that are on find.
Found(b, on, allow) ==
    (IF on \cap {"pan", "aba"} # {} THEN scan_digit_runs(b, 1, on, allow) ELSE {})
      \cup (IF "ssn" \in on THEN scan_ssn(b, allow) ELSE {})
      \cup (IF "iban" \in on THEN scan_iban(b, 1, allow) ELSE {})
      \cup (IF "email" \in on THEN scan_email(b, allow) ELSE {})

\* Earliest first, then longest.
Earlier(s, t) == s.start < t.start \/ (s.start = t.start /\ s.end > t.end)

\* What does not overlap the one kept before it is kept.
scan_text(b, on, allow) ==
    FoldLeft(LAMBDA out, s : IF out = <<>> THEN <<s>>
                             ELSE IF s.start >= Last(out).end THEN Append(out, s) ELSE out,
             <<>>, SetToSortSeq(Found(b, on, allow), Earlier))

\* Variant: front to back.
mask_forward(b, spans) ==
    FoldLeft(LAMBDA text, s : SubSeq(text, 1, s.start - 1) \o <<Mask(s.det)>> \o SubSeq(text, s.end, Len(text)),
             b, spans)

\* Back to front, so that places further in front stay valid.
mask(b, spans) ==
    FoldRight(LAMBDA s, text : SubSeq(text, 1, s.start - 1) \o <<Mask(s.det)>> \o SubSeq(text, s.end, Len(text)),
              spans, b)

-----------------------------------------------------------------------------
(***************************************************************************)
(* Encoded forms.  A place of the request is [percent, windows]: its text  *)
(* with %XX decoded, and its runs of encoding characters, each with what   *)
(* it is in hex and in base64.  A decoded text is [size, text], without    *)
(* text if it is not UTF-8; NoText is what does not decode.                *)
(***************************************************************************)
NoText == [size |-> 0, text |-> <<>>]
Fresh(budget) == [budget |-> budget, truncated |-> FALSE, found |-> {}]

\* A decoded text is charged to the budget before it is scanned.
Look(st, where, decoded, on, allow) ==
    IF decoded = NoText THEN st
    ELSE IF st.budget < decoded.size THEN [st EXCEPT !.truncated = TRUE]
    ELSE [st EXCEPT !.budget = @ - decoded.size,
                    !.found = IF scan_text(decoded.text, on, allow) = <<>> THEN @ ELSE @ \cup {where}]

\* A run in which hex gave a find is not tried as base64.
LookAtRun(st, place, i, run, on, allow) ==
    LET hex == Look(st, <<place, i, "hex">>, run.hex, on, allow)
    IN IF <<place, i, "hex">> \in hex.found THEN hex
       ELSE Look(hex, <<place, i, "base64">>, run.base64, on, allow)

scan_encoded(st, place, text, on, allow) ==
    FoldLeft(LAMBDA acc, i : LookAtRun(acc, place, i, text.windows[i], on, allow),
             Look(st, <<place, 0, "percent">>, text.percent, on, allow),
             [i \in DOMAIN text.windows |-> i])

\* One budget for the places of a request, in their order.
scan_request(places, budget, on, allow) ==
    FoldLeft(LAMBDA st, p : scan_encoded(st, p, places[p], on, allow), Fresh(budget),
             [p \in DOMAIN places |-> p])
=============================================================================

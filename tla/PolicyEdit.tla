----------------------------- MODULE PolicyEdit -----------------------------
(***************************************************************************)
(* The edits of src/src/policy_edit.rs: rules are tables of a document,    *)
(* each with the position that decides where it is written, and what the   *)
(* next reader finds is the document as it was written.                    *)
(*                                                                         *)
(* A rule is [name, hosts, action, lists, pos, sub]: sub is the position   *)
(* of a table [rule.route] of its own, NoSub when the map is inline or not *)
(* there.  A name is <<text, number>>, the number it reads as or NaN.  An  *)
(* edit fails or returns the document; the caller then saves it.           *)
(***************************************************************************)
EXTENDS Integers, Sequences, SequencesExt, FiniteSetsExt

NaN   == -1
NoSub == -1
\* A field the command line does not give.
Keep       == {"keep"}
KeepName   == <<"keep", NaN>>
KeepAction == "keep"

Failed == [ok |-> FALSE, rules |-> <<>>, dlp |-> 0, default_action |-> "deny", escalate_fallback |-> "deny"]
Ok(rules, dlp) == [Failed EXCEPT !.ok = TRUE, !.rules = rules, !.dlp = dlp]

ActionNames == {"allow", "deny", "warn", "route", "escalate"}

-----------------------------------------------------------------------------
\* A number is a position, whatever the rules are called; a name must be that
\* of one rule.
index_of(rules, addr) ==
    LET hits == {i \in DOMAIN rules : rules[i].name = addr} IN
    IF addr[2] # NaN THEN (IF addr[2] \in DOMAIN rules THEN addr[2] ELSE 0)
    ELSE IF Cardinality(hits) = 1 THEN CHOOSE i \in hits : TRUE ELSE 0

\* The place a rule is inserted at, 0 for an error.
resolve_anchor(anchor, rules) ==
    LET at == index_of(rules, anchor.addr) IN
    CASE anchor.kind = "end"    -> Len(rules) + 1
      [] anchor.kind = "at"     -> IF anchor.pos <= Len(rules) + 1 THEN anchor.pos ELSE Len(rules) + 1
      [] anchor.kind = "before" -> at
      [] anchor.kind = "after"  -> IF at = 0 THEN 0 ELSE at + 1

\* Variant: the rules keep the positions they were read with.
renumber_not(doc) == doc

\* The rules are numbered in their order, [dlp] comes behind them.
renumber(doc) ==
    [doc EXCEPT !.rules = [i \in DOMAIN doc.rules |-> [doc.rules[i] EXCEPT !.pos = i]],
                !.dlp = IF doc.dlp = 0 THEN 0 ELSE Len(doc.rules) + 1]

rebuild(doc, rules) == renumber([doc EXCEPT !.rules = rules])

-----------------------------------------------------------------------------
build_table(edit) ==
    [name |-> edit.name, hosts |-> edit.hosts, action |-> edit.action,
     lists |-> IF edit.lists = Keep THEN {} ELSE edit.lists, pos |-> 0, sub |-> NoSub]

add(doc, edit, anchor) ==
    LET at == resolve_anchor(anchor, doc.rules) IN
    IF \/ edit.name = KeepName \/ edit.hosts \in {{}, Keep} \/ edit.action \notin ActionNames
       \/ \E i \in DOMAIN doc.rules : doc.rules[i].name = edit.name
       \/ at = 0
    THEN Failed
    ELSE rebuild(doc, InsertAt(doc.rules, at, build_table(edit)))

\* An empty list removes the key; the hosts are set as they are given.
set(doc, addr, edit) ==
    LET i == index_of(doc.rules, addr) IN
    IF \/ i = 0
       \/ edit.name # doc.rules[i].name /\ \E j \in DOMAIN doc.rules : doc.rules[j].name = edit.name
       \/ edit.action \notin ActionNames \cup {KeepAction}
    THEN Failed
    ELSE [doc EXCEPT !.rules[i] = [@ EXCEPT
            !.name = IF edit.name = KeepName THEN @ ELSE edit.name,
            !.action = IF edit.action = KeepAction THEN @ ELSE edit.action,
            !.hosts = IF edit.hosts = Keep THEN @ ELSE edit.hosts,
            !.lists = IF edit.lists = Keep THEN @ ELSE edit.lists]]

remove(doc, addr) ==
    LET i == index_of(doc.rules, addr) IN
    IF i = 0 THEN Failed ELSE rebuild(doc, RemoveAt(doc.rules, i))

\* The anchor is looked up with the rule taken out.
move_rule(doc, addr, anchor) ==
    LET i    == index_of(doc.rules, addr)
        rest == RemoveAt(doc.rules, i)
    IN IF i = 0 \/ resolve_anchor(anchor, rest) = 0 THEN Failed
       ELSE rebuild(doc, InsertAt(rest, resolve_anchor(anchor, rest), doc.rules[i]))

\* flush.
flush_rules(doc) == renumber([doc EXCEPT !.rules = <<>>])

set_default(doc, action) ==
    IF action \in ActionNames THEN [doc EXCEPT !.default_action = action] ELSE Failed

set_escalate_fallback(doc, action) ==
    IF action \in {"allow", "deny", "warn"} THEN [doc EXCEPT !.escalate_fallback = action] ELSE Failed

-----------------------------------------------------------------------------
(***************************************************************************)
(* render, and the next parse.  Tables are written in the order of their   *)
(* positions, stably; a table [rule.route] belongs to the rule it follows. *)
(***************************************************************************)
Tables(rules) ==
    FlattenSeq([i \in DOMAIN rules |->
        <<[pos |-> rules[i].pos, of |-> i, sub |-> FALSE]>>
          \o IF rules[i].sub = NoSub THEN <<>> ELSE <<[pos |-> rules[i].sub, of |-> i, sub |-> TRUE]>>])

Written(rules) ==
    LET ts == Tables(rules)
        order == SetToSortSeq(DOMAIN ts, LAMBDA a, b : ts[a].pos < ts[b].pos
                                                         \/ (ts[a].pos = ts[b].pos /\ a < b))
    IN [k \in DOMAIN order |-> ts[order[k]]]

\* The rules as they are read back: which rule, and whose route map it has.
Parsed(rules, w, heads) ==
    LET MapOf(n) == {w[k].of : k \in {j \in DOMAIN w : w[j].sub /\ j > heads[n]
                                        /\ (n = Len(heads) \/ j < heads[n + 1])}}
        Rule(n)  == rules[w[heads[n]].of]
    IN [n \in DOMAIN heads |->
          [name |-> Rule(n).name, hosts |-> Rule(n).hosts, action |-> Rule(n).action,
           lists |-> Rule(n).lists, maps |-> {rules[r].name : r \in MapOf(n)}]]

Loaded(doc) ==
    LET w == Written(doc.rules)
    IN Parsed(doc.rules, w, SetToSortSeq({k \in DOMAIN w : ~w[k].sub}, <))
=============================================================================

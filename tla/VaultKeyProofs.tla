--------------------------- MODULE VaultKeyProofs ---------------------------
(***************************************************************************)
(* Proofs about VaultKey, for any number of processes, keys generated and  *)
(* refusals or deaths.                                                     *)
(***************************************************************************)
EXTENDS VaultKey, TLAPS

\* Thirty-two bytes of a file: a key, or what shred left.
Bytes == Keys \cup {Junk}

Runs == {"none", "key", "add", "save", "in", "out"}

\* The steps of each command: the lookup of the key is shared, and a
\* migration into the keychain enters it where the file is read.
Lookup == {"resolve", "gate", "fetch", "mint", "verify", "scrap", "adopt", "file", "create", "write", "got"}

Labels == Lookup \cup {"idle", "seal", "save", "in", "in_store", "in_verify", "shred", "unlink",
                       "out", "out_open", "out_delete"}

Fits(run, l) ==
    /\ run = "none" <=> l = "idle"
    /\ run \in {"key", "add", "save"} => l \in Lookup \cup {"seal", "save"}
    /\ l = "seal" => run = "add"
    /\ l = "save" => run = "save"
    /\ run = "in" => l \in {"in", "file", "create", "write", "in_store", "in_verify", "shred", "unlink"}
    /\ run = "out" => l \in {"out", "out_open", "write", "out_delete"}

ProcInv ==
    /\ proc \in [Procs -> [run : Runs, pc : Labels, key : Bytes \cup {Absent}]]
    /\ \A p \in Procs : Fits(proc[p].run, proc[p].pc)

TypeInv ==
    /\ file \in Bytes \cup {Absent, Torn}
    /\ item \in Bytes \cup {Absent}
    /\ vault \in Bytes \cup {Absent, Torn}
    /\ minted \in 0..MaxKeys
    /\ ProcInv

\* No migration runs beside a migration or a save.
Alone ==
    \A p, q \in Procs : p # q => ~(proc[p].run \in Moves /\ proc[q].run \in Writes)

OneWriter == \A p, q \in Procs : At(p, "write") /\ At(q, "write") => p = q

\* Who writes the file finds it truncated, and the keychain empty unless the
\* key comes from there.
WritingOK(p) ==
    At(p, "write") =>
       /\ file = Torn /\ proc[p].key \in Bytes
       /\ item = IF proc[p].run = "out" THEN proc[p].key ELSE Absent

\* Where a migration has the key.
MovingOK(p) ==
    /\ At(p, "out_open") => item = proc[p].key /\ item # Absent
    /\ At(p, "out_delete") => item = file /\ item # Absent
    /\ At(p, "in_store") => file = proc[p].key /\ file \in Bytes
    /\ proc[p].pc \in {"in_verify", "shred", "unlink"} => item # Absent

\* What a process is going to save with was found in the place the next
\* command will look: past the check of the keychain a writer meets the key in
\* one place at most.
Past == Lookup \ {"resolve", "fetch", "got"}

SavingOK(p) ==
    /\ At(p, "verify") => proc[p].key \in Keys
    /\ proc[p].run \in {"add", "save"} /\ proc[p].pc \in Past => item = Absent \/ file = Absent
    /\ proc[p].run = "save" /\ proc[p].pc \in {"got", "save"} =>
          proc[p].key = Selected /\ proc[p].key \in Bytes

Good(p) == WritingOK(p) /\ MovingOK(p) /\ SavingOK(p)

Safe == Alone /\ OneWriter /\ VaultOpens /\ \A p \in Procs : Good(p)

\* The inductive invariant.
KeyInv == TypeInv /\ (~clash => Safe)

-----------------------------------------------------------------------------
LEMMA Distinct ==
    /\ Absent # Torn /\ Absent # Junk /\ Torn # Junk
    /\ Absent \notin Keys /\ Torn \notin Keys /\ Junk \notin Keys
    /\ Absent \notin Bytes /\ Torn \notin Bytes
BY VaultKeyConstants DEF Keys, Bytes

\* What a step makes of the process that takes it.
Becomes(p, run, l, k) ==
    proc' = [proc EXCEPT ![p] = [run |-> run, pc |-> l, key |-> k]]

After(p, run, l, k) ==
    /\ proc'[p].run = run /\ proc'[p].pc = l /\ proc'[p].key = k
    /\ \A q \in Procs : q # p => proc'[q] = proc[q]

LEMMA Became ==
    ASSUME ProcInv, NEW p \in Procs, NEW run \in Runs, NEW l \in Labels, NEW k \in Bytes \cup {Absent},
           Fits(run, l), Becomes(p, run, l, k)
    PROVE  ProcInv' /\ After(p, run, l, k)
<1> DEFINE r == [run |-> run, pc |-> l, key |-> k]
<1>1. r \in [run : Runs, pc : Labels, key : Bytes \cup {Absent}]
  OBVIOUS
<1>2. r.run = run /\ r.pc = l /\ r.key = k
  OBVIOUS
<1>3. proc' = [proc EXCEPT ![p] = r]
  BY DEF Becomes
<1> HIDE DEF r
<1>4. proc'[p] = r /\ \A q \in Procs : q # p => proc'[q] = proc[q]
  BY <1>3 DEF ProcInv
<1>5. proc' \in [Procs -> [run : Runs, pc : Labels, key : Bytes \cup {Absent}]]
  BY <1>1, <1>3 DEF ProcInv
<1>6. \A q \in Procs : Fits(proc'[q].run, proc'[q].pc)
  BY <1>2, <1>4 DEF ProcInv
<1>7. QED
  BY <1>2, <1>4, <1>5, <1>6 DEF ProcInv, After

LEMMA GotoBecomes ==
    ASSUME ProcInv, NEW p \in Procs, NEW l \in Labels, Fits(proc[p].run, l), Goto(p, l)
    PROVE  ProcInv' /\ After(p, proc[p].run, l, proc[p].key)
<1>1. proc[p] \in [run : Runs, pc : Labels, key : Bytes \cup {Absent}]
  BY DEF ProcInv
<1>2. Becomes(p, proc[p].run, l, proc[p].key)
  <2>1. [proc[p] EXCEPT !.pc = l] = [run |-> proc[p].run, pc |-> l, key |-> proc[p].key]
    BY <1>1
  <2>2. proc' = [proc EXCEPT ![p] = [proc[p] EXCEPT !.pc = l]]
    BY DEF Goto, ProcInv
  <2>3. QED
    BY <2>1, <2>2 DEF Becomes
<1>3. QED
  BY <1>1, <1>2, Became

LEMMA HasBecomes ==
    ASSUME ProcInv, NEW p \in Procs, NEW l \in Labels, Fits(proc[p].run, l),
           NEW k \in Bytes \cup {Absent}, Has(p, k, l)
    PROVE  ProcInv' /\ After(p, proc[p].run, l, k)
<1>1. proc[p] \in [run : Runs, pc : Labels, key : Bytes \cup {Absent}]
  BY DEF ProcInv
<1>2. Becomes(p, proc[p].run, l, k)
  <2> DEFINE r == [proc[p] EXCEPT !.pc = l]
             s == [r EXCEPT !.key = k]
  <2>1. proc' = [proc EXCEPT ![p] = s]
    BY DEF Has, ProcInv
  <2>2. s = [run |-> proc[p].run, pc |-> l, key |-> k]
    <3>1. r = [run |-> proc[p].run, pc |-> l, key |-> proc[p].key]
      BY <1>1
    <3> HIDE DEF r
    <3>2. QED
      BY <3>1
  <2>3. QED
    BY <2>1, <2>2 DEF Becomes
<1>3. QED
  BY <1>1, <1>2, Became

LEMMA EndsBecomes ==
    ASSUME ProcInv, NEW p \in Procs, Ends(p)
    PROVE  ProcInv' /\ After(p, "none", "idle", Absent)
<1>1. Becomes(p, "none", "idle", Absent)
  BY DEF Ends, Becomes, Idle
<1>2. Fits("none", "idle") /\ "none" \in Runs /\ "idle" \in Labels
  BY DEF Fits, Runs, Labels, Lookup
<1>3. QED
  BY <1>1, <1>2, Became

LEMMA Exclusive ==
    ASSUME Alone, NEW p \in Procs, NEW run, NEW l, NEW k, After(p, run, l, k),
           run \in Writes => proc[p].run \in Writes, run \in Moves => proc[p].run \in Moves
    PROVE  Alone'
BY DEF Alone, After

\* A step that changes neither the places of the key nor the vault disturbs
\* only what is said of the process that takes it.
LEMMA Quiet ==
    ASSUME Safe, ~clash, UNCHANGED <<file, item, vault>>, NEW p \in Procs, NEW run, NEW l, NEW k,
           After(p, run, l, k), l # "write", Alone', Good(p)'
    PROVE  Safe'
<1>1. VaultOpens'
  BY DEF Safe, VaultOpens, Selected
<1>2. OneWriter'
  BY DEF Safe, OneWriter, At, After
<1>3. ASSUME NEW q \in Procs, q # p PROVE Good(q)'
  <2>1. proc'[q] = proc[q] /\ Good(q)
    BY <1>3 DEF After, Safe
  <2>2. QED
    BY <2>1 DEF Good, WritingOK, MovingOK, SavingOK, At, Selected
<1>4. QED
  BY <1>1, <1>2, <1>3 DEF Safe

\* A process that ends says nothing.
LEMMA EndsGood ==
    ASSUME NEW p \in Procs, After(p, "none", "idle", Absent)
    PROVE  Good(p)'
BY DEF After, Good, WritingOK, MovingOK, SavingOK, At, Past, Lookup

LEMMA EndsQuiet ==
    ASSUME ProcInv, ~clash => Safe, NEW p \in Procs, Ends(p), UNCHANGED <<file, item, vault, clash>>
    PROVE  ProcInv' /\ (~clash' => Safe')
<1>1. ProcInv' /\ After(p, "none", "idle", Absent)
  BY EndsBecomes
<1>2. ASSUME ~clash' PROVE Safe'
  <2>1. Safe /\ ~clash
    BY <1>2
  <2>2. Alone'
    BY <1>1, <2>1 DEF Safe, Alone, After, Writes, Moves
  <2>3. Good(p)'
    BY <1>1, EndsGood
  <2>4. QED
    BY <1>1, <2>1, <2>2, <2>3, Quiet
<1>3. QED
  BY <1>1, <1>2

LEMMA GotoQuiet ==
    ASSUME ProcInv, ~clash => Safe, NEW p \in Procs, NEW l \in Labels, Fits(proc[p].run, l),
           Goto(p, l), UNCHANGED <<file, item, vault, clash>>, l # "write",
           (After(p, proc[p].run, l, proc[p].key) /\ ~clash) => Good(p)'
    PROVE  ProcInv' /\ (~clash' => Safe')
<1>1. ProcInv' /\ After(p, proc[p].run, l, proc[p].key)
  BY GotoBecomes
<1>2. ASSUME ~clash' PROVE Safe'
  <2>1. Safe /\ ~clash
    BY <1>2
  <2>2. Alone'
    BY <1>1, <2>1, Exclusive DEF Safe
  <2>3. Good(p)'
    BY <1>1, <1>2
  <2>4. QED
    BY <1>1, <2>1, <2>2, <2>3, Quiet
<1>3. QED
  BY <1>1, <1>2

LEMMA HasQuiet ==
    ASSUME ProcInv, ~clash => Safe, NEW p \in Procs, NEW l \in Labels, Fits(proc[p].run, l),
           NEW k \in Bytes \cup {Absent}, Has(p, k, l), UNCHANGED <<file, item, vault, clash>>, l # "write",
           (After(p, proc[p].run, l, k) /\ ~clash) => Good(p)'
    PROVE  ProcInv' /\ (~clash' => Safe')
<1>1. ProcInv' /\ After(p, proc[p].run, l, k)
  BY HasBecomes
<1>2. ASSUME ~clash' PROVE Safe'
  <2>1. Safe /\ ~clash
    BY <1>2
  <2>2. Alone'
    BY <1>1, <2>1, Exclusive DEF Safe
  <2>3. Good(p)'
    BY <1>1, <1>2
  <2>4. QED
    BY <1>1, <2>1, <2>2, <2>3, Quiet
<1>3. QED
  BY <1>1, <1>2

-----------------------------------------------------------------------------
(***************************************************************************)
(* The steps that only read, and those that end a command.                 *)
(***************************************************************************)
LEMMA LookupFits ==
    ASSUME ProcInv, NEW p \in Procs, proc[p].pc \in Lookup \ {"file", "create", "write"}
    PROVE  /\ proc[p].run \in {"key", "add", "save"}
           /\ \A l \in Lookup : Fits(proc[p].run, l) /\ l \in Labels
<1>1. proc[p] \in [run : Runs, pc : Labels, key : Bytes \cup {Absent}] /\ Fits(proc[p].run, proc[p].pc)
  BY DEF ProcInv
<1>2. proc[p].run \in {"key", "add", "save"}
  BY <1>1 DEF Fits, Lookup, Runs
<1>3. QED
  BY <1>2 DEF Fits, Lookup, Labels

\* A step from one place past the check of the keychain to another.
LEMMA PastGood ==
    ASSUME Safe, NEW p \in Procs, proc[p].pc \in Past, NEW k, NEW l \in {"mint", "scrap", "adopt", "file", "create"},
           UNCHANGED <<file, item>>, After(p, proc[p].run, l, k)
    PROVE  Good(p)'
BY DEF Safe, Good, WritingOK, MovingOK, SavingOK, At, Past, Lookup, After

\* A key found is the one selected.
LEMMA GotGood ==
    ASSUME NEW p \in Procs, NEW run, NEW k \in Bytes, After(p, run, "got", k), k = Selected'
    PROVE  Good(p)'
BY DEF Good, WritingOK, MovingOK, SavingOK, At, Past, Lookup, After

LEMMA BeginStep == ASSUME KeyInv, NEW p \in Procs, Begin(p) PROVE KeyInv'
<1>1. ProcInv /\ (~clash => Safe) /\ proc[p].pc = "idle" /\ UNCHANGED <<file, item, vault, minted>>
  BY DEF KeyInv, TypeInv, Begin, At
<1>2. PICK c \in Commands :
         /\ proc' = [proc EXCEPT ![p] = [Idle EXCEPT
                    !.run = c,
                    !.pc = CASE c \in Moves -> c
                             [] c = "add" /\ vault = Absent -> "seal"
                             [] OTHER -> "resolve"]]
         /\ Clashes(p, (c \in Moves /\ Others(p, Writes)) \/ (c \in Writes /\ Others(p, Moves)))
  BY DEF Begin
<1> DEFINE l == CASE c \in Moves -> c
                  [] c = "add" /\ vault = Absent -> "seal"
                  [] OTHER -> "resolve"
<1>3. c \in {"key", "add", "in", "out"}
  BY VaultKeyConstants
<1>4. \/ l = "in" /\ c = "in"
      \/ l = "out" /\ c = "out"
      \/ l = "seal" /\ c = "add"
      \/ l = "resolve" /\ c \in {"key", "add"}
  BY <1>3 DEF Moves
<1>5. proc' = [proc EXCEPT ![p] = [run |-> c, pc |-> l, key |-> Absent]]
  <2> DEFINE r == [Idle EXCEPT !.run = c]
  <2>1. r = [run |-> c, pc |-> "idle", key |-> Absent]
    BY DEF Idle
  <2>2. proc' = [proc EXCEPT ![p] = [r EXCEPT !.pc = l]]
    BY <1>2
  <2> HIDE DEF r, l
  <2>3. [r EXCEPT !.pc = l] = [run |-> c, pc |-> l, key |-> Absent]
    BY <2>1
  <2>4. QED
    BY <2>2, <2>3
<1> HIDE DEF l
<1>6. c \in Runs /\ l \in Labels /\ Fits(c, l) /\ Becomes(p, c, l, Absent)
  BY <1>3, <1>4, <1>5 DEF Runs, Labels, Lookup, Fits, Becomes
<1>7. ProcInv' /\ After(p, c, l, Absent)
  BY <1>1, <1>6, Became
<1>8. ASSUME ~clash' PROVE Safe'
  <2>1. /\ ~clash
        /\ ~(c \in Moves /\ Others(p, Writes)) /\ ~(c \in Writes /\ Others(p, Moves))
    BY <1>2, <1>8 DEF Clashes
  <2>2. Safe
    BY <1>1, <2>1
  <2>3. Alone'
    BY <1>7, <2>1, <2>2 DEF Safe, Alone, After, Others
  <2>4. Good(p)'
    BY <1>4, <1>7 DEF After, Good, WritingOK, MovingOK, SavingOK, At, Past, Lookup
  <2>5. l # "write"
    BY <1>4
  <2>6. QED
    BY <1>1, <1>7, <2>1, <2>2, <2>3, <2>4, <2>5, Quiet
<1>9. QED
  BY <1>1, <1>7, <1>8 DEF KeyInv, TypeInv

LEMMA SealStep == ASSUME KeyInv, NEW p \in Procs, Seal(p) PROVE KeyInv'
<1>1. ProcInv /\ (~clash => Safe) /\ proc[p].pc = "seal" /\ UNCHANGED <<file, item, vault, minted, clash>>
  BY DEF KeyInv, TypeInv, Seal, At, Reads
<1>2. proc[p] \in [run : Runs, pc : Labels, key : Bytes \cup {Absent}] /\ proc[p].run = "add"
  BY <1>1 DEF ProcInv, Fits
<1>3. Becomes(p, "save", "resolve", proc[p].key)
  <2> DEFINE r == [proc[p] EXCEPT !.run = "save"]
             s == [r EXCEPT !.pc = "resolve"]
  <2>1. proc' = [proc EXCEPT ![p] = s]
    BY <1>1 DEF Seal, ProcInv
  <2>2. s = [run |-> "save", pc |-> "resolve", key |-> proc[p].key]
    <3>1. r = [run |-> "save", pc |-> proc[p].pc, key |-> proc[p].key]
      BY <1>2
    <3> HIDE DEF r
    <3>2. QED
      BY <3>1
  <2>3. QED
    BY <2>1, <2>2 DEF Becomes
<1>4. "save" \in Runs /\ "resolve" \in Labels /\ Fits("save", "resolve")
  BY DEF Runs, Labels, Lookup, Fits
<1>5. ProcInv' /\ After(p, "save", "resolve", proc[p].key)
  BY <1>1, <1>2, <1>3, <1>4, Became
<1>6. ASSUME ~clash' PROVE Safe'
  <2>1. Safe /\ ~clash
    BY <1>1, <1>6
  <2>2. Alone'
    BY <1>2, <1>5, <2>1 DEF Safe, Alone, After, Writes, Moves
  <2>3. Good(p)'
    BY <1>5 DEF After, Good, WritingOK, MovingOK, SavingOK, At, Past, Lookup
  <2>4. QED
    BY <1>1, <1>5, <2>1, <2>2, <2>3, Quiet
<1>7. QED
  BY <1>1, <1>5, <1>6 DEF KeyInv, TypeInv

LEMMA ResolveStep ==
    ASSUME KeyInv, NEW p \in Procs, resolve_backend(p) \/ first_run_keychain_default(p)
    PROVE  KeyInv'
<1>1. ProcInv /\ (~clash => Safe) /\ UNCHANGED <<file, item, vault, minted, clash>>
  BY DEF KeyInv, TypeInv, resolve_backend, first_run_keychain_default, Reads
<1>2. ASSUME resolve_backend(p) PROVE ProcInv' /\ (~clash' => Safe')
  <2> DEFINE l == IF item # Absent THEN "fetch" ELSE "gate"
  <2>1. proc[p].pc = "resolve" /\ Goto(p, l)
    BY <1>2 DEF resolve_backend, At
  <2>2. l \in Labels /\ Fits(proc[p].run, l) /\ l # "write"
    BY <1>1, <2>1, LookupFits DEF Lookup
  <2>3. l = "fetch" \/ (l = "gate" /\ item = Absent)
    OBVIOUS
  <2> HIDE DEF l
  <2>4. ASSUME After(p, proc[p].run, l, proc[p].key) PROVE Good(p)'
    BY <1>1, <2>3, <2>4 DEF After, Good, WritingOK, MovingOK, SavingOK, At, Past, Lookup
  <2>5. QED
    BY <1>1, <2>1, <2>2, <2>4, GotoQuiet
<1>3. ASSUME first_run_keychain_default(p) PROVE ProcInv' /\ (~clash' => Safe')
  <2> DEFINE l == IF p \in Release /\ file = Absent THEN "mint" ELSE "file"
  <2>1. proc[p].pc = "gate" /\ Goto(p, l)
    BY <1>3 DEF first_run_keychain_default, At
  <2>2. l \in Labels /\ Fits(proc[p].run, l) /\ l # "write" /\ l \in {"mint", "file"}
    BY <1>1, <2>1, LookupFits DEF Lookup
  <2> HIDE DEF l
  <2>3. proc[p].pc \in Past
    BY <2>1 DEF Past, Lookup
  <2>4. ASSUME After(p, proc[p].run, l, proc[p].key), ~clash PROVE Good(p)'
    BY <1>1, <2>2, <2>3, <2>4, PastGood
  <2>5. QED
    BY <1>1, <2>1, <2>2, <2>4, GotoQuiet
<1>4. QED
  BY <1>1, <1>2, <1>3 DEF KeyInv, TypeInv

LEMMA FetchStep == ASSUME KeyInv, NEW p \in Procs, keychain_key_from(p) PROVE KeyInv'
<1>1. ProcInv /\ (~clash => Safe) /\ UNCHANGED <<file, item, vault, minted, clash>> /\ proc[p].pc = "fetch"
  BY DEF KeyInv, TypeInv, keychain_key_from, Reads, At
<1>2. CASE item = Absent
  <2>1. Ends(p)
    BY <1>2 DEF keychain_key_from
  <2>2. ProcInv' /\ (~clash' => Safe')
    BY <1>1, <2>1, EndsQuiet
  <2>3. QED
    BY <1>1, <2>2 DEF KeyInv, TypeInv
<1>3. CASE item # Absent
  <2>1. Has(p, item, "got") /\ item \in Bytes
    BY <1>3 DEF keychain_key_from, KeyInv, TypeInv
  <2>2. "got" \in Labels /\ Fits(proc[p].run, "got")
    BY <1>1, LookupFits DEF Lookup
  <2>3. ASSUME After(p, proc[p].run, "got", item) PROVE Good(p)'
    <3>1. item = Selected'
      BY <1>1, <1>3 DEF Selected
    <3>2. QED
      BY <2>1, <2>3, <3>1, GotGood
  <2>4. ProcInv' /\ (~clash' => Safe')
    BY <1>1, <2>1, <2>2, <2>3, HasQuiet
  <2>5. QED
    BY <1>1, <2>4 DEF KeyInv, TypeInv
<1>4. QED
  BY <1>2, <1>3

LEMMA EndStep == ASSUME KeyInv, NEW p \in Procs, keychain_denied(p) \/ Die(p) PROVE KeyInv'
<1>1. ProcInv /\ (~clash => Safe) /\ UNCHANGED <<file, item, vault, minted, clash>> /\ Ends(p)
  BY DEF KeyInv, TypeInv, keychain_denied, Die
<1>2. ProcInv' /\ (~clash' => Safe')
  BY <1>1, EndsQuiet
<1>3. QED
  BY <1>1, <1>2 DEF KeyInv, TypeInv

LEMMA CreateVerifyStep == ASSUME KeyInv, NEW p \in Procs, CreateVerify(p) PROVE KeyInv'
<1>1. ProcInv /\ (~clash => Safe) /\ UNCHANGED <<file, item, vault, minted, clash>> /\ proc[p].pc = "verify"
  BY DEF KeyInv, TypeInv, CreateVerify, At
<1>2. \A l \in {"got", "scrap"} : l \in Labels /\ Fits(proc[p].run, l) /\ l # "write"
  BY <1>1, LookupFits DEF Lookup
<1>3. CASE item = proc[p].key /\ Goto(p, "got")
  <2>1. ASSUME After(p, proc[p].run, "got", proc[p].key), ~clash PROVE Good(p)'
    <3>1. proc[p].key \in Bytes
      BY <1>1, <2>1 DEF Safe, Good, SavingOK, At, Bytes
    <3>2. proc[p].key = Selected'
      BY <1>1, <1>3, <3>1, Distinct DEF Selected
    <3>3. QED
      BY <2>1, <3>1, <3>2, GotGood
  <2>2. ProcInv' /\ (~clash' => Safe')
    BY <1>1, <1>2, <1>3, <2>1, GotoQuiet
  <2>3. QED
    BY <1>1, <2>2 DEF KeyInv, TypeInv
<1>4. CASE Goto(p, "scrap")
  <2>1. ASSUME After(p, proc[p].run, "scrap", proc[p].key), ~clash PROVE Good(p)'
    <3>1. proc[p].pc \in Past
      BY <1>1 DEF Past, Lookup
    <3>2. QED
      BY <1>1, <2>1, <3>1, PastGood
  <2>2. ProcInv' /\ (~clash' => Safe')
    BY <1>1, <1>2, <1>4, <2>1, GotoQuiet
  <2>3. QED
    BY <1>1, <2>2 DEF KeyInv, TypeInv
<1>5. QED
  BY <1>3, <1>4 DEF CreateVerify

LEMMA CreateAdoptStep == ASSUME KeyInv, NEW p \in Procs, CreateAdopt(p) PROVE KeyInv'
<1>1. ProcInv /\ (~clash => Safe) /\ UNCHANGED <<file, item, vault, minted>> /\ proc[p].pc = "adopt"
  BY DEF KeyInv, TypeInv, CreateAdopt, At
<1>2. \A l \in {"got", "file"} : l \in Labels /\ Fits(proc[p].run, l) /\ l # "write"
  BY <1>1, LookupFits DEF Lookup
<1>3. CASE item # Absent /\ Has(p, item, "got") /\ UNCHANGED clash
  <2>1. item \in Bytes
    BY <1>3 DEF KeyInv, TypeInv
  <2>2. ASSUME After(p, proc[p].run, "got", item) PROVE Good(p)'
    <3>1. item = Selected'
      BY <1>1, <1>3 DEF Selected
    <3>2. QED
      BY <2>1, <2>2, <3>1, GotGood
  <2>3. ProcInv' /\ (~clash' => Safe')
    BY <1>1, <1>2, <1>3, <2>1, <2>2, HasQuiet
  <2>4. QED
    BY <1>1, <2>3 DEF KeyInv, TypeInv
<1>4. CASE Goto(p, "file") /\ Clashes(p, Others(p, All))
  <2>1. ProcInv' /\ After(p, proc[p].run, "file", proc[p].key)
    BY <1>1, <1>2, <1>4, GotoBecomes
  <2>2. ASSUME ~clash' PROVE Safe'
    <3>1. ~clash /\ Safe
      BY <1>1, <1>4, <2>2 DEF Clashes
    <3>2. Alone'
      BY <2>1, <3>1, Exclusive DEF Safe
    <3>3. proc[p].pc \in Past
      BY <1>1 DEF Past, Lookup
    <3>4. Good(p)'
      BY <1>1, <2>1, <3>1, <3>3, PastGood
    <3>5. QED
      BY <1>1, <2>1, <3>1, <3>2, <3>4, Quiet
  <2>3. QED
    BY <1>1, <2>1, <2>2 DEF KeyInv, TypeInv
<1>5. QED
  BY <1>3, <1>4 DEF CreateAdopt

LEMMA FileFits ==
    ASSUME ProcInv, NEW p \in Procs, proc[p].pc \in {"file", "create"}
    PROVE  /\ proc[p].run \in {"key", "add", "save", "in"}
           /\ Fits(proc[p].run, "create") /\ Fits(proc[p].run, "write") /\ Fits(proc[p].run, AfterFile(p))
           /\ {"create", "write", AfterFile(p)} \subseteq Labels
<1>1. proc[p] \in [run : Runs, pc : Labels, key : Bytes \cup {Absent}] /\ Fits(proc[p].run, proc[p].pc)
  BY DEF ProcInv
<1>2. proc[p].run \in {"key", "add", "save", "in"}
  BY <1>1 DEF Fits, Lookup, Runs
<1>3. QED
  BY <1>2 DEF Fits, Lookup, Labels, AfterFile

LEMMA MoveFits ==
    ASSUME ProcInv
    PROVE  \A p \in Procs :
              /\ proc[p].pc \in {"in", "in_store", "in_verify", "shred", "unlink"} => proc[p].run = "in"
              /\ proc[p].pc \in {"out", "out_open", "out_delete"} => proc[p].run = "out"
<1> SUFFICES ASSUME NEW p \in Procs
             PROVE  /\ proc[p].pc \in {"in", "in_store", "in_verify", "shred", "unlink"} => proc[p].run = "in"
                    /\ proc[p].pc \in {"out", "out_open", "out_delete"} => proc[p].run = "out"
  OBVIOUS
<1>1. proc[p] \in [run : Runs, pc : Labels, key : Bytes \cup {Absent}] /\ Fits(proc[p].run, proc[p].pc)
  BY DEF ProcInv
<1>2. QED
  BY <1>1 DEF Fits, Lookup, Runs

LEMMA InOutFits ==
    /\ \A l \in {"in", "file", "create", "write", "in_store", "in_verify", "shred", "unlink"} :
          Fits("in", l) /\ l \in Labels
    /\ \A l \in {"out", "out_open", "write", "out_delete"} : Fits("out", l) /\ l \in Labels
BY DEF Fits, Lookup, Labels

LEMMA FileKeyStep == ASSUME KeyInv, NEW p \in Procs, FileKey(p) PROVE KeyInv'
<1>1. ProcInv /\ (~clash => Safe) /\ UNCHANGED <<file, item, vault, minted, clash>> /\ proc[p].pc = "file"
  BY DEF KeyInv, TypeInv, FileKey, At, Reads
<1>2. SUFFICES ProcInv' /\ (~clash' => Safe')
  BY <1>1 DEF KeyInv, TypeInv
<1>3. proc[p].pc \in Past
  BY <1>1 DEF Past, Lookup
<1>4. CASE file = Absent
  <2>1. Goto(p, "create")
    BY <1>4, Distinct DEF FileKey
  <2>2. "create" \in Labels /\ Fits(proc[p].run, "create")
    BY <1>1, FileFits
  <2>3. ASSUME After(p, proc[p].run, "create", proc[p].key), ~clash PROVE Good(p)'
    BY <1>1, <1>3, <2>3, PastGood
  <2>4. QED
    BY <1>1, <2>1, <2>2, <2>3, GotoQuiet
<1>5. CASE file = Torn
  <2>1. Ends(p)
    BY <1>5, Distinct DEF FileKey
  <2>2. QED
    BY <1>1, <2>1, EndsQuiet
<1>6. CASE file # Absent /\ file # Torn
  <2> DEFINE l == AfterFile(p)
  <2>1. Has(p, file, l) /\ file \in Bytes
    BY <1>6 DEF FileKey, KeyInv, TypeInv
  <2>2. l \in Labels /\ Fits(proc[p].run, l)
    BY <1>1, FileFits
  <2>3. (proc[p].run = "in" /\ l = "in_store") \/ (proc[p].run # "in" /\ l = "got")
    BY DEF AfterFile
  <2> HIDE DEF l
  <2>4. ASSUME After(p, proc[p].run, l, file), ~clash PROVE Good(p)'
    <3>1. proc[p].run \in {"add", "save"} => item = Absent
      BY <1>1, <1>3, <1>6, <2>4 DEF Safe, Good, SavingOK
    <3>2. QED
      BY <1>1, <2>1, <2>3, <2>4, <3>1
         DEF After, Good, WritingOK, MovingOK, SavingOK, At, Past, Lookup, Selected
  <2>5. l # "write"
    BY <2>3
  <2>6. QED
    BY <1>1, <2>1, <2>2, <2>4, <2>5, HasQuiet
<1>7. QED
  BY <1>4, <1>5, <1>6

LEMMA InQuietStep == ASSUME KeyInv, NEW p \in Procs, MigrateIn(p) \/ InVerify(p) PROVE KeyInv'
<1>1. ProcInv /\ (~clash => Safe) /\ UNCHANGED <<file, item, vault, minted, clash>>
      /\ proc[p].pc \in {"in", "in_verify"}
  BY DEF KeyInv, TypeInv, MigrateIn, InVerify, At, Reads
<1>2. SUFFICES ProcInv' /\ (~clash' => Safe')
  BY <1>1 DEF KeyInv, TypeInv
<1>3. proc[p].run = "in"
  BY <1>1, MoveFits
<1>4. CASE Ends(p)
  BY <1>1, <1>4, EndsQuiet
<1>5. CASE Goto(p, "file")
  <2>1. ASSUME After(p, proc[p].run, "file", proc[p].key) PROVE Good(p)'
    BY <1>3, <2>1 DEF After, Good, WritingOK, MovingOK, SavingOK, At, Past, Lookup
  <2>2. "file" \in Labels /\ Fits(proc[p].run, "file")
    BY <1>3, InOutFits
  <2>3. QED
    BY <1>1, <1>5, <2>1, <2>2, GotoQuiet
<1>6. CASE Goto(p, "shred") /\ (item # Absent \/ proc[p].pc = "in_verify")
  <2>1. ASSUME After(p, proc[p].run, "shred", proc[p].key), ~clash PROVE Good(p)'
    <3>1. item # Absent
      BY <1>1, <1>6, <2>1 DEF Safe, Good, MovingOK, At
    <3>2. QED
      BY <1>1, <1>3, <2>1, <3>1 DEF After, Good, WritingOK, MovingOK, SavingOK, At, Past, Lookup
  <2>2. "shred" \in Labels /\ Fits(proc[p].run, "shred")
    BY <1>3, InOutFits
  <2>3. QED
    BY <1>1, <1>6, <2>1, <2>2, GotoQuiet
<1>7. QED
  BY <1>4, <1>5, <1>6 DEF MigrateIn, InVerify, At

LEMMA OutQuietStep == ASSUME KeyInv, NEW p \in Procs, MigrateOut(p) PROVE KeyInv'
<1>1. ProcInv /\ (~clash => Safe) /\ UNCHANGED <<file, item, vault, minted, clash>> /\ proc[p].pc = "out"
  BY DEF KeyInv, TypeInv, MigrateOut, At, Reads
<1>2. SUFFICES ProcInv' /\ (~clash' => Safe')
  BY <1>1 DEF KeyInv, TypeInv
<1>3. proc[p].run = "out"
  BY <1>1, MoveFits
<1>4. CASE Ends(p)
  BY <1>1, <1>4, EndsQuiet
<1>5. CASE item # Absent /\ Has(p, item, "out_open")
  <2>1. ASSUME After(p, proc[p].run, "out_open", item) PROVE Good(p)'
    BY <1>1, <1>3, <1>5, <2>1 DEF After, Good, WritingOK, MovingOK, SavingOK, At, Past, Lookup
  <2>2. "out_open" \in Labels /\ Fits(proc[p].run, "out_open") /\ item \in Bytes
    BY <1>3, <1>5, InOutFits DEF KeyInv, TypeInv
  <2>3. QED
    BY <1>1, <1>5, <2>1, <2>2, HasQuiet
<1>6. CASE item # Absent /\ file = item /\ Goto(p, "out_delete")
  <2>1. ASSUME After(p, proc[p].run, "out_delete", proc[p].key) PROVE Good(p)'
    BY <1>1, <1>3, <1>6, <2>1 DEF After, Good, WritingOK, MovingOK, SavingOK, At, Past, Lookup
  <2>2. "out_delete" \in Labels /\ Fits(proc[p].run, "out_delete")
    BY <1>3, InOutFits
  <2>3. QED
    BY <1>1, <1>6, <2>1, <2>2, GotoQuiet
<1>7. QED
  BY <1>4, <1>5, <1>6 DEF MigrateOut

-----------------------------------------------------------------------------
(***************************************************************************)
(* The steps that write the file, the item or the vault.                   *)
(***************************************************************************)
LEMMA NoNewWriter ==
    ASSUME Safe, NEW p \in Procs, NEW run, NEW l, NEW k, After(p, run, l, k), l # "write"
    PROVE  OneWriter'
BY DEF Safe, OneWriter, At, After

\* While a process migrates, no other one migrates or saves.
LEMMA Undisturbed ==
    ASSUME ProcInv, Safe, NEW p \in Procs, proc[p].run \in Moves
    PROVE  \A q \in Procs : q # p =>
              /\ proc[q].run \notin {"add", "save"}
              /\ proc[q].pc \notin {"in_store", "in_verify", "shred", "unlink", "out_open", "out_delete", "save"}
              /\ At(q, "write") => proc[q].run # "out"
<1> SUFFICES ASSUME NEW q \in Procs, q # p
             PROVE  /\ proc[q].run \notin {"add", "save"}
                    /\ proc[q].pc \notin {"in_store", "in_verify", "shred", "unlink", "out_open", "out_delete", "save"}
                    /\ At(q, "write") => proc[q].run # "out"
  OBVIOUS
<1>1. proc[q].run \notin {"add", "save", "in", "out"}
  BY DEF Safe, Alone, Writes
<1>2. Fits(proc[q].run, proc[q].pc)
  BY DEF ProcInv
<1>3. QED
  BY <1>1, <1>2, MoveFits DEF Fits

LEMMA UseStep == ASSUME KeyInv, NEW p \in Procs, Use(p) PROVE KeyInv'
<1>1. ProcInv /\ (~clash => Safe) /\ UNCHANGED <<file, item, minted, clash>> /\ proc[p].pc = "got"
  BY DEF KeyInv, TypeInv, Use, At
<1>2. SUFFICES vault' \in Bytes \cup {Absent, Torn} /\ ProcInv' /\ (~clash' => Safe')
  BY <1>1 DEF KeyInv, TypeInv
<1>3. CASE proc[p].run = "save" /\ vault' = Torn /\ Goto(p, "save")
  <2>1. "save" \in Labels /\ Fits(proc[p].run, "save")
    BY <1>3 DEF Labels, Fits
  <2>2. ProcInv' /\ After(p, proc[p].run, "save", proc[p].key)
    BY <1>1, <1>3, <2>1, GotoBecomes
  <2>3. ASSUME ~clash' PROVE Safe'
    <3>1. Safe /\ ~clash
      BY <1>1, <2>3
    <3>2. Alone' /\ OneWriter'
      BY <2>2, <3>1, Exclusive, NoNewWriter DEF Safe
    <3>3. VaultOpens'
      BY <1>3, Distinct DEF VaultOpens
    <3>4. Good(p)'
      BY <1>1, <1>3, <2>2, <3>1
         DEF Safe, After, Good, WritingOK, MovingOK, SavingOK, At, Past, Lookup, Selected
    <3>5. ASSUME NEW q \in Procs, q # p PROVE Good(q)'
      <4>1. proc'[q] = proc[q] /\ Good(q)
        BY <2>2, <3>1, <3>5 DEF After, Safe
      <4>2. QED
        BY <1>1, <4>1 DEF Good, WritingOK, MovingOK, SavingOK, At, Selected
    <3>6. QED
      BY <3>2, <3>3, <3>4, <3>5 DEF Safe
  <2>4. QED
    BY <1>3, <2>2, <2>3
<1>4. CASE proc[p].run = "add" /\ Goto(p, "seal") /\ UNCHANGED vault
  <2>1. "seal" \in Labels /\ Fits(proc[p].run, "seal")
    BY <1>4 DEF Labels, Fits
  <2>2. ASSUME After(p, proc[p].run, "seal", proc[p].key) PROVE Good(p)'
    BY <1>4, <2>2 DEF After, Good, WritingOK, MovingOK, SavingOK, At, Past, Lookup
  <2>3. QED
    BY <1>1, <1>4, <2>1, <2>2, GotoQuiet DEF KeyInv, TypeInv
<1>5. CASE Ends(p) /\ UNCHANGED vault
  BY <1>1, <1>5, EndsQuiet DEF KeyInv, TypeInv
<1>6. QED
  BY <1>3, <1>4, <1>5 DEF Use

LEMMA SaveStep == ASSUME KeyInv, NEW p \in Procs, Save(p) PROVE KeyInv'
<1>1. /\ ProcInv /\ (~clash => Safe) /\ UNCHANGED <<file, item, minted, clash>> /\ proc[p].pc = "save"
      /\ vault' = proc[p].key /\ Ends(p)
  BY DEF KeyInv, TypeInv, Save, At
<1>2. vault' \in Bytes \cup {Absent}
  BY <1>1 DEF ProcInv
<1>3. ProcInv' /\ After(p, "none", "idle", Absent)
  BY <1>1, EndsBecomes
<1>4. ASSUME ~clash' PROVE Safe'
  <2>1. Safe /\ ~clash
    BY <1>1, <1>4
  <2>2. proc[p].run = "save"
    BY <1>1 DEF ProcInv, Fits
  <2>3. proc[p].key = Selected
    BY <1>1, <2>1, <2>2 DEF Safe, Good, SavingOK
  <2>4. VaultOpens'
    BY <1>1, <2>3 DEF VaultOpens, Selected
  <2>5. Alone' /\ OneWriter'
    BY <1>3, <2>1, Exclusive, NoNewWriter DEF Safe, Writes, Moves
  <2>6. Good(p)'
    BY <1>3, EndsGood
  <2>7. ASSUME NEW q \in Procs, q # p PROVE Good(q)'
    <3>1. proc'[q] = proc[q] /\ Good(q)
      BY <1>3, <2>1, <2>7 DEF After, Safe
    <3>2. QED
      BY <1>1, <3>1 DEF Good, WritingOK, MovingOK, SavingOK, At, Selected
  <2>8. QED
    BY <2>4, <2>5, <2>6, <2>7 DEF Safe
<1>5. QED
  BY <1>1, <1>2, <1>3, <1>4 DEF KeyInv, TypeInv

LEMMA CreateStoreStep == ASSUME KeyInv, NEW p \in Procs, CreateStore(p) PROVE KeyInv'
<1>1. /\ TypeInv /\ ProcInv /\ (~clash => Safe) /\ UNCHANGED <<file, vault>> /\ proc[p].pc = "mint"
      /\ minted' = Fresh
  BY DEF KeyInv, TypeInv, CreateStore, At
<1>2. minted' \in 0..MaxKeys /\ Fresh \in Keys
  BY VaultKeyConstants DEF KeyInv, TypeInv, CreateStore, Fresh, Keys
<1>3. \A l \in {"verify", "adopt"} : l \in Labels /\ Fits(proc[p].run, l)
  BY <1>1, LookupFits DEF Lookup
<1>4. CASE item = Absent /\ item' = Fresh /\ Clashes(p, file # Absent) /\ Has(p, Fresh, "verify")
  <2>1. Fresh \in Bytes
    BY <1>2 DEF Bytes
  <2>2. ProcInv' /\ After(p, proc[p].run, "verify", Fresh)
    BY <1>1, <1>3, <1>4, <2>1, HasBecomes
  <2>3. ASSUME ~clash' PROVE Safe'
    <3>1. Safe /\ ~clash /\ file = Absent
      BY <1>1, <1>4, <2>3 DEF Clashes
    <3>2. Alone' /\ OneWriter'
      BY <2>2, <3>1, Exclusive, NoNewWriter DEF Safe
    <3>3. Selected = Absent
      BY <1>4, <3>1 DEF Selected
    <3>4. VaultOpens'
      BY <1>1, <3>1, <3>3, Distinct DEF VaultOpens, Safe
    <3>5. Good(p)'
      BY <1>1, <1>2, <2>2, <3>1 DEF After, Good, WritingOK, MovingOK, SavingOK, At, Past, Lookup
    <3>6. ASSUME NEW q \in Procs, q # p PROVE Good(q)'
      <4>1. proc'[q] = proc[q] /\ Good(q)
        BY <2>2, <3>1, <3>6 DEF After, Safe
      <4>2. WritingOK(q)' /\ MovingOK(q)'
        BY <1>1, <1>4, <2>1, <3>1, <4>1, Distinct DEF Good, WritingOK, MovingOK, At
      <4>3. SavingOK(q)'
        BY <1>1, <3>1, <3>3, <4>1, Distinct DEF Good, SavingOK, At
      <4>4. QED
        BY <4>2, <4>3 DEF Good
    <3>7. QED
      BY <3>2, <3>4, <3>5, <3>6 DEF Safe
  <2>4. QED
    BY <1>1, <1>2, <1>4, <2>1, <2>2, <2>3 DEF KeyInv, TypeInv
<1>5. CASE Goto(p, "adopt") /\ UNCHANGED <<item, clash>>
  <2>1. ASSUME After(p, proc[p].run, "adopt", proc[p].key), ~clash PROVE Good(p)'
    <3>1. proc[p].pc \in Past
      BY <1>1 DEF Past, Lookup
    <3>2. QED
      BY <1>1, <1>5, <2>1, <3>1, PastGood
  <2>2. ProcInv' /\ (~clash' => Safe')
    BY <1>1, <1>3, <1>5, <2>1, GotoQuiet
  <2>3. QED
    BY <1>1, <1>2, <1>5, <2>2 DEF KeyInv, TypeInv
<1>6. QED
  BY <1>4, <1>5 DEF CreateStore

LEMMA CreateScrapStep == ASSUME KeyInv, NEW p \in Procs, CreateScrap(p) PROVE KeyInv'
<1>1. /\ TypeInv /\ ProcInv /\ (~clash => Safe) /\ UNCHANGED <<file, vault, minted>> /\ proc[p].pc = "scrap"
      /\ Clashes(p, item' # Absent \/ vault # Absent \/ Others(p, All)) /\ Goto(p, "file")
      /\ item' \in {item, Absent}
  BY DEF KeyInv, TypeInv, CreateScrap, At
<1>2. "file" \in Labels /\ Fits(proc[p].run, "file")
  BY <1>1, LookupFits DEF Lookup
<1>3. ProcInv' /\ After(p, proc[p].run, "file", proc[p].key)
  BY <1>1, <1>2, GotoBecomes
<1>4. ASSUME ~clash' PROVE Safe'
  <2>1. Safe /\ item' = Absent /\ vault = Absent /\ ~Others(p, All)
    BY <1>1, <1>4 DEF Clashes
  <2>2. Alone' /\ OneWriter'
    BY <1>3, <2>1, Exclusive, NoNewWriter DEF Safe
  <2>3. VaultOpens'
    BY <1>1, <2>1, Distinct DEF VaultOpens
  <2>4. Good(p)'
    <3>1. proc[p].run \notin {"in", "out"}
      BY <1>1, LookupFits DEF Lookup
    <3>2. QED
      BY <1>3, <2>1, <3>1 DEF After, Good, WritingOK, MovingOK, SavingOK, At, Past, Lookup
  <2>5. ASSUME NEW q \in Procs, q # p PROVE Good(q)'
    <3>1. proc'[q] = proc[q] /\ proc[q].run \in Runs /\ Fits(proc[q].run, proc[q].pc)
      BY <1>1, <1>3, <2>5 DEF After, ProcInv
    <3>2. proc[q].run = "none"
      BY <2>1, <2>5, <3>1 DEF Others, All, Runs
    <3>3. proc[q].pc = "idle"
      BY <3>1, <3>2 DEF Fits
    <3>4. QED
      BY <3>1, <3>2, <3>3 DEF Good, WritingOK, MovingOK, SavingOK, At, Past, Lookup
  <2>6. QED
    BY <2>2, <2>3, <2>4, <2>5 DEF Safe
<1>5. QED
  BY <1>1, <1>3, <1>4 DEF KeyInv, TypeInv

LEMMA FileCreateStep == ASSUME KeyInv, NEW p \in Procs, FileCreate(p) PROVE KeyInv'
<1>1. /\ TypeInv /\ ProcInv /\ (~clash => Safe) /\ UNCHANGED <<item, vault>> /\ proc[p].pc = "create"
      /\ minted' = Fresh /\ file' = Torn /\ Has(p, Fresh, "write")
      /\ Clashes(p, file # Absent \/ item # Absent)
  BY DEF KeyInv, TypeInv, FileCreate, At
<1>2. minted' \in 0..MaxKeys /\ Fresh \in Bytes
  BY VaultKeyConstants DEF KeyInv, TypeInv, FileCreate, Fresh, Keys, Bytes
<1>3. "write" \in Labels /\ Fits(proc[p].run, "write") /\ proc[p].run # "out"
  BY <1>1, FileFits
<1>4. ProcInv' /\ After(p, proc[p].run, "write", Fresh)
  BY <1>1, <1>2, <1>3, HasBecomes
<1>5. ASSUME ~clash' PROVE Safe'
  <2>1. Safe /\ ~clash /\ file = Absent /\ item = Absent
    BY <1>1, <1>5 DEF Clashes
  <2>2. Alone'
    BY <1>4, <2>1, Exclusive DEF Safe
  <2>3. Selected = Absent
    BY <2>1 DEF Selected
  <2>4. VaultOpens'
    BY <1>1, <2>1, <2>3, Distinct DEF VaultOpens, Safe
  <2>5. Good(p)'
    BY <1>1, <1>2, <1>3, <1>4, <2>1 DEF After, Good, WritingOK, MovingOK, SavingOK, At, Past, Lookup
  <2>6. ASSUME NEW q \in Procs, q # p PROVE Good(q)' /\ proc'[q].pc # "write"
    <3>1. proc'[q] = proc[q] /\ Good(q)
      BY <1>4, <2>1, <2>6 DEF After, Safe
    <3>2. WritingOK(q)' /\ MovingOK(q)' /\ proc'[q].pc # "write"
      BY <1>1, <2>1, <3>1, Distinct DEF Good, WritingOK, MovingOK, At
    <3>3. SavingOK(q)'
      BY <1>1, <2>1, <2>3, <3>1, Distinct DEF Good, SavingOK, At
    <3>4. QED
      BY <3>2, <3>3 DEF Good
  <2>7. OneWriter'
    BY <2>6 DEF OneWriter, At
  <2>8. QED
    BY <2>2, <2>4, <2>5, <2>6, <2>7 DEF Safe
<1>6. QED
  BY <1>1, <1>2, <1>4, <1>5 DEF KeyInv, TypeInv

LEMMA FileWriteStep == ASSUME KeyInv, NEW p \in Procs, FileWrite(p) PROVE KeyInv'
<1> DEFINE l == IF proc[p].run = "out" THEN "out_delete" ELSE AfterFile(p)
<1>1. /\ TypeInv /\ ProcInv /\ (~clash => Safe) /\ UNCHANGED <<item, vault, minted, clash>>
      /\ proc[p].pc = "write" /\ file' = proc[p].key /\ Goto(p, l)
  BY DEF KeyInv, TypeInv, FileWrite, At
<1>2. /\ proc[p] \in [run : Runs, pc : Labels, key : Bytes \cup {Absent}]
      /\ Fits(proc[p].run, "write")
  BY <1>1 DEF ProcInv
<1>3. l \in Labels /\ Fits(proc[p].run, l) /\ l # "write"
  BY <1>2 DEF Fits, Labels, Lookup, AfterFile
<1>4. /\ proc[p].run = "out" => l = "out_delete"
      /\ proc[p].run = "in" => l = "in_store"
      /\ proc[p].run \notin {"in", "out"} => l = "got"
  BY DEF AfterFile
<1> HIDE DEF l
<1>5. ProcInv' /\ After(p, proc[p].run, l, proc[p].key)
  BY <1>1, <1>3, GotoBecomes
<1>6. ASSUME ~clash' PROVE Safe'
  <2>1. Safe /\ ~clash
    BY <1>1, <1>6
  <2>2. /\ file = Torn /\ proc[p].key \in Bytes
        /\ item = IF proc[p].run = "out" THEN proc[p].key ELSE Absent
    BY <1>1, <2>1 DEF Safe, Good, WritingOK, At
  <2>3. Alone' /\ OneWriter'
    BY <1>3, <1>5, <2>1, Exclusive, NoNewWriter DEF Safe
  <2>4. VaultOpens'
    BY <1>1, <2>1, <2>2, Distinct DEF VaultOpens, Safe, Selected
  <2>5. Good(p)'
    <3>1. WritingOK(p)' /\ MovingOK(p)'
      BY <1>1, <1>3, <1>4, <1>5, <2>2, Distinct DEF After, WritingOK, MovingOK, At
    <3>2. SavingOK(p)'
      BY <1>1, <1>4, <1>5, <2>2 DEF After, SavingOK, At, Past, Lookup, Selected
    <3>3. QED
      BY <3>1, <3>2 DEF Good
  <2>6. ASSUME NEW q \in Procs, q # p PROVE Good(q)'
    <3>1. proc'[q] = proc[q] /\ Good(q) /\ proc[q].pc # "write"
      BY <1>1, <1>5, <2>1, <2>6 DEF After, Safe, OneWriter, At
    <3>2. item # Torn
      BY <1>1, Distinct DEF TypeInv
    <3>3. WritingOK(q)' /\ MovingOK(q)'
      BY <1>1, <2>2, <3>1, <3>2, Distinct DEF Good, WritingOK, MovingOK, At
    <3>4. SavingOK(q)'
      BY <1>1, <2>2, <3>1, Distinct DEF Good, SavingOK, At, Selected
    <3>5. QED
      BY <3>3, <3>4 DEF Good
  <2>7. QED
    BY <2>3, <2>4, <2>5, <2>6 DEF Safe
<1>7. file' \in Bytes \cup {Absent}
  BY <1>1, <1>2
<1>8. QED
  BY <1>1, <1>5, <1>6, <1>7 DEF KeyInv, TypeInv

LEMMA InStoreStep == ASSUME KeyInv, NEW p \in Procs, InStore(p) PROVE KeyInv'
<1>1. TypeInv /\ ProcInv /\ (~clash => Safe) /\ UNCHANGED <<file, vault, minted, clash>> /\ proc[p].pc = "in_store"
  BY DEF KeyInv, TypeInv, InStore, At
<1>2. proc[p].run = "in" /\ proc[p].key \in Bytes \cup {Absent}
  BY <1>1, MoveFits DEF ProcInv
<1>3. CASE item = Absent /\ item' = proc[p].key /\ Goto(p, "in_verify")
  <2>1. ProcInv' /\ After(p, proc[p].run, "in_verify", proc[p].key)
    <3>1. "in_verify" \in Labels /\ Fits(proc[p].run, "in_verify")
      BY <1>2, InOutFits
    <3>2. QED
      BY <1>1, <1>3, <3>1, GotoBecomes
  <2>2. ASSUME ~clash' PROVE Safe'
    <3>1. Safe /\ ~clash
      BY <1>1, <2>2
    <3>2. file = proc[p].key /\ file \in Bytes
      BY <1>1, <3>1 DEF Safe, Good, MovingOK, At
    <3>3. Alone' /\ OneWriter'
      BY <2>1, <3>1, Exclusive, NoNewWriter DEF Safe
    <3>4. VaultOpens'
      BY <1>1, <1>3, <3>1, <3>2, Distinct DEF VaultOpens, Safe, Selected
    <3>5. Good(p)'
      BY <1>2, <1>3, <2>1, <3>2, Distinct DEF After, Good, WritingOK, MovingOK, SavingOK, At, Past, Lookup
    <3>6. ASSUME NEW q \in Procs, q # p PROVE Good(q)'
      <4>1. /\ proc'[q] = proc[q] /\ Good(q) /\ proc[q].run \notin {"add", "save"}
            /\ proc[q].pc \notin {"in_store", "in_verify", "shred", "unlink", "out_open", "out_delete", "save"}
        BY <1>1, <1>2, <2>1, <3>1, <3>6, Undisturbed DEF After, Safe, Moves
      <4>2. QED
        BY <1>1, <3>2, <4>1, Distinct DEF Good, WritingOK, MovingOK, SavingOK, At
    <3>7. QED
      BY <3>3, <3>4, <3>5, <3>6 DEF Safe
  <2>3. QED
    BY <1>1, <1>2, <1>3, <2>1, <2>2 DEF KeyInv, TypeInv
<1>4. CASE Ends(p) /\ UNCHANGED item
  <2>1. ProcInv' /\ (~clash' => Safe')
    BY <1>1, <1>4, EndsQuiet
  <2>2. QED
    BY <1>1, <1>4, <2>1 DEF KeyInv, TypeInv
<1>5. QED
  BY <1>3, <1>4 DEF InStore

LEMMA ShredStep == ASSUME KeyInv, NEW p \in Procs, ShredOverwrite(p) \/ ShredRemove(p) PROVE KeyInv'
<1>1. /\ TypeInv /\ ProcInv /\ (~clash => Safe) /\ UNCHANGED <<item, vault, minted, clash>>
      /\ proc[p].pc \in {"shred", "unlink"} /\ file' \in {Absent, Junk}
      /\ Goto(p, "unlink") \/ Ends(p)
  BY DEF KeyInv, TypeInv, ShredOverwrite, ShredRemove, At
<1>2. proc[p].run = "in"
  BY <1>1, MoveFits
<1>3. ProcInv' /\ (After(p, "in", "unlink", proc[p].key) \/ After(p, "none", "idle", Absent))
  <2>1. "unlink" \in Labels /\ Fits(proc[p].run, "unlink")
    BY <1>2, InOutFits
  <2>2. QED
    BY <1>1, <1>2, <2>1, GotoBecomes, EndsBecomes
<1>4. ASSUME ~clash' PROVE Safe'
  <2>1. Safe /\ ~clash
    BY <1>1, <1>4
  <2>2. item # Absent
    BY <1>1, <2>1 DEF Safe, Good, MovingOK
  <2>3. Alone' /\ OneWriter'
    BY <1>2, <1>3, <2>1, Exclusive, NoNewWriter DEF Safe, Moves, Writes
  <2>4. VaultOpens'
    BY <1>1, <2>1, <2>2 DEF VaultOpens, Safe, Selected
  <2>5. Good(p)'
    BY <1>1, <1>3, <2>2 DEF After, Good, WritingOK, MovingOK, SavingOK, At, Past, Lookup
  <2>6. ASSUME NEW q \in Procs, q # p PROVE Good(q)'
    <3>1. /\ proc'[q] = proc[q] /\ Good(q) /\ proc[q].run \notin {"add", "save"}
          /\ proc[q].pc \notin {"in_store", "in_verify", "shred", "unlink", "out_open", "out_delete", "save"}
          /\ At(q, "write") => proc[q].run # "out"
      BY <1>1, <1>2, <1>3, <2>1, <2>6, Undisturbed DEF After, Safe, Moves
    <3>2. QED
      BY <1>1, <2>2, <3>1 DEF Good, WritingOK, MovingOK, SavingOK, At
  <2>7. QED
    BY <2>3, <2>4, <2>5, <2>6 DEF Safe
<1>5. QED
  BY <1>1, <1>3, <1>4 DEF KeyInv, TypeInv, Bytes

LEMMA OutOpenStep == ASSUME KeyInv, NEW p \in Procs, OutOpen(p) PROVE KeyInv'
<1>1. /\ TypeInv /\ ProcInv /\ (~clash => Safe) /\ UNCHANGED <<item, vault, minted>>
      /\ proc[p].pc = "out_open" /\ file' = Torn /\ Clashes(p, file # Absent) /\ Goto(p, "write")
  BY DEF KeyInv, TypeInv, OutOpen, At
<1>2. proc[p].run = "out"
  BY <1>1, MoveFits
<1>3. ProcInv' /\ After(p, proc[p].run, "write", proc[p].key)
  <2>1. "write" \in Labels /\ Fits(proc[p].run, "write")
    BY <1>2, InOutFits
  <2>2. QED
    BY <1>1, <2>1, GotoBecomes
<1>4. ASSUME ~clash' PROVE Safe'
  <2>1. Safe /\ ~clash /\ file = Absent
    BY <1>1, <1>4 DEF Clashes
  <2>2. item = proc[p].key /\ item # Absent /\ item \in Bytes
    BY <1>1, <2>1 DEF Safe, Good, MovingOK, At, TypeInv
  <2>3. Alone'
    BY <1>3, <2>1, Exclusive DEF Safe
  <2>4. VaultOpens'
    BY <1>1, <2>1, <2>2 DEF VaultOpens, Safe, Selected
  <2>5. Good(p)'
    BY <1>1, <1>2, <1>3, <2>2 DEF After, Good, WritingOK, MovingOK, SavingOK, At, Past, Lookup
  <2>6. ASSUME NEW q \in Procs, q # p PROVE Good(q)' /\ proc'[q].pc # "write"
    <3>1. /\ proc'[q] = proc[q] /\ Good(q) /\ proc[q].run \notin {"add", "save"}
      BY <1>1, <1>2, <1>3, <2>1, <2>6, Undisturbed DEF After, Safe, Moves
    <3>2. WritingOK(q)' /\ MovingOK(q)' /\ proc'[q].pc # "write"
      BY <1>1, <2>1, <2>2, <3>1, Distinct DEF Good, WritingOK, MovingOK, At
    <3>3. SavingOK(q)'
      BY <3>1 DEF Good, SavingOK, At
    <3>4. QED
      BY <3>2, <3>3 DEF Good
  <2>7. OneWriter'
    BY <2>6 DEF OneWriter, At
  <2>8. QED
    BY <2>3, <2>4, <2>5, <2>6, <2>7 DEF Safe
<1>5. QED
  BY <1>1, <1>3, <1>4 DEF KeyInv, TypeInv

LEMMA OutDeleteStep == ASSUME KeyInv, NEW p \in Procs, OutDelete(p) PROVE KeyInv'
<1>1. /\ TypeInv /\ ProcInv /\ (~clash => Safe) /\ UNCHANGED <<file, vault, minted, clash>>
      /\ proc[p].pc = "out_delete" /\ Ends(p)
  BY DEF KeyInv, TypeInv, OutDelete, At
<1>2. proc[p].run = "out"
  BY <1>1, MoveFits
<1>3. CASE UNCHANGED item
  <2>1. ProcInv' /\ (~clash' => Safe')
    BY <1>1, <1>3, EndsQuiet
  <2>2. QED
    BY <1>1, <1>3, <2>1 DEF KeyInv, TypeInv
<1>4. CASE item' = Absent
  <2>1. ProcInv' /\ After(p, "none", "idle", Absent)
    BY <1>1, EndsBecomes
  <2>2. ASSUME ~clash' PROVE Safe'
    <3>1. Safe /\ ~clash
      BY <1>1, <2>2
    <3>2. item = file /\ item # Absent /\ item \in Bytes
      BY <1>1, <3>1 DEF Safe, Good, MovingOK, At, TypeInv
    <3>3. Alone' /\ OneWriter'
      BY <1>2, <2>1, <3>1, Exclusive, NoNewWriter DEF Safe, Moves, Writes
    <3>4. VaultOpens'
      BY <1>1, <1>4, <3>1, <3>2 DEF VaultOpens, Safe, Selected
    <3>5. Good(p)'
      BY <2>1, EndsGood
    <3>6. ASSUME NEW q \in Procs, q # p PROVE Good(q)'
      <4>1. /\ proc'[q] = proc[q] /\ Good(q) /\ proc[q].run \notin {"add", "save"}
            /\ proc[q].pc \notin {"in_store", "in_verify", "shred", "unlink", "out_open", "out_delete", "save"}
        BY <1>1, <1>2, <2>1, <3>1, <3>6, Undisturbed DEF After, Safe, Moves
      <4>2. QED
        BY <1>1, <3>2, <4>1, Distinct DEF Good, WritingOK, MovingOK, SavingOK, At
    <3>7. QED
      BY <3>3, <3>4, <3>5, <3>6 DEF Safe
  <2>3. QED
    BY <1>1, <1>4, <2>1, <2>2 DEF KeyInv, TypeInv
<1>5. QED
  BY <1>3, <1>4 DEF OutDelete

-----------------------------------------------------------------------------
LEMMA KeyInit == Init => KeyInv
<1> SUFFICES ASSUME Init PROVE KeyInv
  OBVIOUS
<1>1. 1 \in Keys /\ 0 \in 0..MaxKeys /\ 1 \in 0..MaxKeys
  BY VaultKeyConstants DEF Keys
<1>2. proc = [p \in Procs |-> [run |-> "none", pc |-> "idle", key |-> Absent]]
  BY DEF Init, Idle
<1>3. Fits("none", "idle") /\ "none" \in Runs /\ "idle" \in Labels
  BY DEF Fits, Runs, Labels, Lookup
<1>4. ProcInv
  BY <1>2, <1>3 DEF ProcInv
<1>5. TypeInv
  BY <1>1, <1>4 DEF Init, TypeInv, Bytes
<1>6. \A p \in Procs : proc[p].run = "none" /\ proc[p].pc = "idle"
  BY <1>2
<1>7. Alone /\ OneWriter
  BY <1>6 DEF Alone, OneWriter, At, Moves
<1>8. \A p \in Procs : Good(p)
  BY <1>6 DEF Good, WritingOK, MovingOK, SavingOK, At, Past, Lookup
<1>9. VaultOpens
  BY Distinct DEF Init, VaultOpens, Selected
<1>10. QED
  BY <1>5, <1>7, <1>8, <1>9 DEF KeyInv, Safe

LEMMA KeyStep == KeyInv /\ [Next]_vars => KeyInv'
<1> SUFFICES ASSUME KeyInv, [Next]_vars PROVE KeyInv'
  OBVIOUS
<1>1. CASE UNCHANGED vars
  BY <1>1 DEF vars, KeyInv, TypeInv, ProcInv, Safe, Alone, OneWriter, VaultOpens, Selected, Good,
              WritingOK, MovingOK, SavingOK, At
<1>2. CASE Next
  BY <1>2, BeginStep, SealStep, ResolveStep, FetchStep, EndStep, CreateStoreStep, CreateVerifyStep,
     CreateScrapStep, CreateAdoptStep, FileKeyStep, FileCreateStep, FileWriteStep, UseStep, SaveStep,
     InQuietStep, InStoreStep, ShredStep, OutQuietStep, OutOpenStep, OutDeleteStep DEF Next
<1>3. QED
  BY <1>1, <1>2

\* However many processes look the key up, create it at once, migrate it, save
\* with it, are refused by the keychain or die at any step, the key the vault
\* is encrypted with is the one the next command finds, as long as nothing
\* happens that the code takes no step against (load_or_create_key,
\* migrate_key_to_store, migrate_key_to_file).
THEOREM VaultAlwaysOpens == Spec => []VaultOpens
<1>1. KeyInv => VaultOpens
  BY DEF KeyInv, Safe, VaultOpens
<1>2. QED
  BY KeyInit, KeyStep, <1>1, PTL DEF Spec
=============================================================================

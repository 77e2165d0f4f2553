----------------------- MODULE PolicyIntegrityProofs -----------------------
(***************************************************************************)
(* Proofs about PolicyIntegrity, for any number of proxies and of CLI      *)
(* commands at once, any rules, any number of writes, of hand edits and of *)
(* crashes.                                                                *)
(***************************************************************************)
EXTENDS PolicyIntegrity, TLAPS

-----------------------------------------------------------------------------
(***************************************************************************)
(* Texts.                                                                  *)
(***************************************************************************)

\* The shipped default parses, and text made of rules is never the text that
\* does not parse.
LEMMA ValidTexts ==
    /\ Default \in Valid
    /\ Valid = SUBSET (CliRules \cup HandRules)
    /\ Broken \in Texts
<1>1. Broken \notin SUBSET (CliRules \cup HandRules)
  BY RulesAssumption DEF Broken
<1>2. Valid = SUBSET (CliRules \cup HandRules)
  BY <1>1 DEF Texts, Valid
<1>3. Default \in SUBSET (CliRules \cup HandRules)
  BY DEF Default
<1>4. Broken \in Texts
  BY DEF Texts
<1>5. QED
  BY <1>2, <1>3, <1>4

\* An edit of a policy by the CLI is a policy.
LEMMA EditedText ==
    ASSUME NEW text \in Valid, NEW rule \in CliRules
    PROVE  text \cup {rule} \in Valid /\ text \ {rule} \in Valid
BY ValidTexts

\* A mangled record authenticates no text.
LEMMA GarbledIsNoText == Garbled \notin Texts
<1>1. Garbled # Broken
  BY DEF Garbled, Broken
<1>2. Garbled \notin SUBSET (CliRules \cup HandRules)
  BY RulesAssumption DEF Garbled
<1>3. QED
  BY <1>1, <1>2 DEF Texts

-----------------------------------------------------------------------------
(***************************************************************************)
(* Types.                                                                  *)
(***************************************************************************)

\* The two file writes put text of the given type on disk.
LEMMA RecordWriteType ==
    ASSUME TypeOK, NEW text \in Texts, write_record(text)
    PROVE  /\ record' \in [text : Texts \cup {Garbled}, mtime : 1..MaxWrites]
           /\ writes' \in 1..MaxWrites
           /\ file' = file
           /\ blessed' \subseteq Texts
BY BoundsAssumption DEF TypeOK, write_record

LEMMA FileWriteType ==
    ASSUME TypeOK, NEW text \in Texts, write_file(text)
    PROVE  /\ file' \in [text : Texts, mtime : 1..MaxWrites]
           /\ writes' \in 1..MaxWrites
           /\ record' = record /\ blessed' = blessed
BY BoundsAssumption DEF TypeOK, write_file

\* A proxy whose state is replaced by one of the type.
LEMMA ProxyUpdate ==
    ASSUME TypeOK, NEW p \in Proxies, NEW state \in ProxyStates,
           proxy' = [proxy EXCEPT ![p] = state]
    PROVE  proxy' \in [Proxies -> ProxyStates]
BY DEF TypeOK

\* The end of a load leaves a proxy in its type.
LEMMA LoadedType ==
    ASSUME TypeOK, NEW p \in Proxies, NEW outcome \in {"ok", "tamper", "alert", "dropped"},
           NEW policy \in Valid, Loaded(p, outcome, policy)
    PROVE  proxy' \in [Proxies -> ProxyStates]
<1> DEFINE label == IF ~proxy[p].booting THEN "serving"
                    ELSE IF outcome = "ok" THEN "booted" ELSE "down"
<1>1. label \in Labels
  BY DEF Labels
<1> DEFINE state == [proxy[p] EXCEPT !.pc = label, !.policy = policy, !.outcome = outcome]
<1>2. proxy' = [proxy EXCEPT ![p] = state]
  BY DEF Loaded, TypeOK
<1> HIDE DEF label
<1>3. proxy[p] \in ProxyStates
  BY DEF TypeOK
<1>4. state \in ProxyStates
  BY <1>1, <1>3 DEF ProxyStates
<1>5. QED
  BY <1>2, <1>4, ProxyUpdate

\* The mtimes on disk.
LEMMA MtimeType ==
    ASSUME TypeOK
    PROVE  file.mtime \in 0..MaxWrites /\ record.mtime \in 0..MaxWrites
BY BoundsAssumption DEF TypeOK, Missing

\* A step of a proxy.
LEMMA ProxyTypeStep ==
    ASSUME TypeOK, NEW p \in Proxies,
           \/ Boot(p) \/ RefreshStatPolicy(p) \/ RefreshStatSig(p) \/ ReadText(p)
           \/ MaterializeRecord(p) \/ MaterializeFile(p) \/ VerifyText(p) \/ BootStat(p)
           \/ Dropped(p) \/ Stop(p)
    PROVE  TypeOK'
<1>1. CASE Boot(p)
  <2> DEFINE state == [proxy[p] EXCEPT !.pc = "read", !.booting = TRUE]
  <2>1. proxy[p] \in ProxyStates /\ "read" \in Labels
    BY DEF TypeOK, Labels
  <2>2. state \in ProxyStates
    BY <2>1 DEF ProxyStates
  <2>3. proxy' = [proxy EXCEPT ![p] = state]
    BY <1>1 DEF Boot, TypeOK
  <2>4. QED
    BY <1>1, <2>2, <2>3, ProxyUpdate DEF Boot, Others, TypeOK
<1>2. CASE RefreshStatPolicy(p)
  <2>1. "stat" \in Labels /\ file.mtime \in 0..MaxWrites
    BY MtimeType DEF Labels
  <2> DEFINE state == [proxy[p] EXCEPT !.pc = "stat", !.stat = file.mtime]
  <2>2. proxy[p] \in ProxyStates
    BY DEF TypeOK
  <2>3. state \in ProxyStates
    BY <2>1, <2>2 DEF ProxyStates
  <2>4. proxy' = [proxy EXCEPT ![p] = state]
    BY <1>2 DEF RefreshStatPolicy, TypeOK
  <2>5. QED
    BY <1>2, <2>3, <2>4, ProxyUpdate DEF RefreshStatPolicy, Others, TypeOK
<1>3. CASE RefreshStatSig(p)
  <2>1. {"read", "serving"} \subseteq Labels /\ record.mtime \in 0..MaxWrites
    BY MtimeType DEF Labels
  <2>2. \/ proxy' = [proxy EXCEPT ![p].pc = "read", ![p].st_policy = proxy[p].stat,
                                  ![p].st_sig = record.mtime]
        \/ proxy' = [proxy EXCEPT ![p].pc = "serving"]
    BY <1>3 DEF RefreshStatSig
  <2> DEFINE reload == [proxy[p] EXCEPT !.pc = "read", !.st_policy = proxy[p].stat,
                                        !.st_sig = record.mtime]
             quiet  == [proxy[p] EXCEPT !.pc = "serving"]
  <2>3. proxy[p] \in ProxyStates
    BY DEF TypeOK
  <2>4. reload \in ProxyStates /\ quiet \in ProxyStates
    BY <2>1, <2>3 DEF ProxyStates
  <2>5. \/ proxy' = [proxy EXCEPT ![p] = reload]
        \/ proxy' = [proxy EXCEPT ![p] = quiet]
    BY <2>2 DEF TypeOK
  <2> HIDE DEF reload, quiet
  <2>6. proxy' \in [Proxies -> ProxyStates]
    BY <2>4, <2>5, ProxyUpdate
  <2>7. QED
    BY <1>3, <2>6 DEF RefreshStatSig, Others, TypeOK
<1>4. CASE ReadText(p)
  <2>1. UNCHANGED <<file, record, writes, blessed>> /\ UNCHANGED Others
    BY <1>4 DEF ReadText
  <2>2. CASE Exists(file)
    <3>1. file.text \in Texts
      BY <2>2 DEF TypeOK, Exists
    <3>2. proxy' \in [Proxies -> ProxyStates]
      BY <1>4, <2>2, <3>1 DEF ReadText, TypeOK, ProxyStates, Labels
    <3>3. QED
      BY <2>1, <3>2 DEF TypeOK, Others
  <2>3. CASE ~Exists(file) /\ Exists(record)
    <3>1. proxy[p].policy \in Valid
      BY DEF TypeOK, ProxyStates
    <3>2. proxy' \in [Proxies -> ProxyStates]
      BY <1>4, <2>3, <3>1, LoadedType DEF ReadText
    <3>3. QED
      BY <2>1, <3>2 DEF TypeOK, Others
  <2>4. CASE ~Exists(file) /\ ~Exists(record)
    <3>1. proxy' \in [Proxies -> ProxyStates]
      BY <1>4, <2>4 DEF ReadText, TypeOK, ProxyStates, Labels
    <3>2. QED
      BY <2>1, <3>1 DEF TypeOK, Others
  <2>5. QED
    BY <2>2, <2>3, <2>4
<1>5. CASE MaterializeRecord(p)
  <2>1. /\ record' \in [text : Texts \cup {Garbled}, mtime : 1..MaxWrites]
        /\ writes' \in 1..MaxWrites /\ file' = file /\ blessed' \subseteq Texts
    BY <1>5, ValidTexts, RecordWriteType DEF MaterializeRecord, Valid
  <2>2. proxy' \in [Proxies -> ProxyStates]
    BY <1>5 DEF MaterializeRecord, TypeOK, ProxyStates, Labels
  <2>3. QED
    BY <1>5, <2>1, <2>2 DEF MaterializeRecord, Others, TypeOK
<1>6. CASE MaterializeFile(p)
  <2>1. /\ file' \in [text : Texts, mtime : 1..MaxWrites]
        /\ writes' \in 1..MaxWrites /\ record' = record /\ blessed' = blessed
    BY <1>6, ValidTexts, FileWriteType DEF MaterializeFile, Valid
  <2>2. proxy' \in [Proxies -> ProxyStates]
    BY <1>6 DEF MaterializeFile, TypeOK, ProxyStates, Labels
  <2>3. QED
    BY <1>6, <2>1, <2>2 DEF MaterializeFile, Others, TypeOK
<1>7. CASE VerifyText(p)
  <2>1. proxy[p].text \in Texts /\ proxy[p].policy \in Valid
    BY DEF TypeOK, ProxyStates
  <2>2. proxy[p].text # Broken => proxy[p].text \in Valid
    BY <2>1 DEF Valid
  <2>3. proxy' \in [Proxies -> ProxyStates]
    BY <1>7, <2>1, <2>2, LoadedType DEF VerifyText
  <2>4. QED
    BY <1>7, <2>3 DEF VerifyText, Others, TypeOK
<1>8. CASE BootStat(p)
  <2>1. "serving" \in Labels /\ file.mtime \in 0..MaxWrites /\ record.mtime \in 0..MaxWrites
    BY MtimeType DEF Labels
  <2> DEFINE state == [proxy[p] EXCEPT !.pc = "serving", !.booting = FALSE,
                                       !.st_policy = file.mtime, !.st_sig = record.mtime,
                                       !.outcome = "boot"]
  <2>2. proxy[p] \in ProxyStates
    BY DEF TypeOK
  <2>3. state \in ProxyStates
    BY <2>1, <2>2 DEF ProxyStates
  <2>4. proxy' = [proxy EXCEPT ![p] = state]
    BY <1>8 DEF BootStat, TypeOK
  <2>5. QED
    BY <1>8, <2>3, <2>4, ProxyUpdate DEF BootStat, Others, TypeOK
<1>9. CASE Stop(p)
  <2>1. Down \in ProxyStates
    BY BoundsAssumption, ValidTexts DEF Down, ProxyStates, Labels, Valid
  <2>2. QED
    BY <1>9, <2>1 DEF Stop, Others, TypeOK
<1>10. CASE Dropped(p)
  <2>1. proxy[p].policy \in Valid
    BY DEF TypeOK, ProxyStates
  <2>2. proxy' \in [Proxies -> ProxyStates]
    BY <1>10, <2>1, LoadedType DEF Dropped
  <2>3. QED
    BY <1>10, <2>2 DEF Dropped, Others, TypeOK
<1>11. QED
  BY <1>1, <1>2, <1>3, <1>4, <1>5, <1>6, <1>7, <1>8, <1>9, <1>10

\* A step of a CLI command.
LEMMA CliTypeStep ==
    ASSUME TypeOK, NEW c \in Clis,
           \/ EditLoad(c) \/ EditGate(c) \/ Reset(c) \/ InstallRecord(c) \/ InstallFile(c)
           \/ SignReview(c) \/ SignBless(c) \/ CliEnds(c)
    PROVE  TypeOK'
<1>0. cli[c] \in CliStates /\ cli[c].text \in Valid /\ Default \in Valid /\ Valid \subseteq Texts
  BY ValidTexts DEF TypeOK, CliStates, Valid
<1>1. ASSUME NEW label \in {"idle", "gate", "record", "file", "review"}, NEW text \in Valid,
             CliGoto(c, label, text)
      PROVE  cli' \in [Clis -> CliStates]
  BY <1>1 DEF CliGoto, CliStates, TypeOK
<1>2. CASE EditLoad(c)
  <2>1. PICK rule \in CliRules : \E new \in {file.text \cup {rule}, file.text \ {rule}} :
             CliGoto(c, "gate", new)
    BY <1>2 DEF EditLoad
  <2>2. file.text \in Valid
    BY <1>2 DEF EditLoad
  <2>3. cli' \in [Clis -> CliStates]
    BY <1>1, <2>1, <2>2, EditedText
  <2>4. QED
    BY <1>2, <2>3 DEF EditLoad, TypeOK
<1>3. CASE EditGate(c)
  <2>1. cli' \in [Clis -> CliStates]
    BY <1>0, <1>1, <1>3 DEF EditGate
  <2>2. composed' \subseteq Texts
    BY <1>0, <1>3 DEF EditGate, TypeOK
  <2>3. QED
    BY <1>3, <2>1, <2>2 DEF EditGate, TypeOK
<1>4. CASE Reset(c)
  <2>1. cli' \in [Clis -> CliStates]
    BY <1>0, <1>1, <1>4 DEF Reset
  <2>2. QED
    BY <1>4, <2>1 DEF Reset, TypeOK
<1>5. CASE InstallRecord(c)
  <2>1. cli' \in [Clis -> CliStates]
    BY <1>0, <1>1, <1>5 DEF InstallRecord
  <2>2. /\ record' \in [text : Texts \cup {Garbled}, mtime : 1..MaxWrites]
        /\ writes' \in 1..MaxWrites /\ file' = file /\ blessed' \subseteq Texts
    BY <1>0, <1>5, RecordWriteType DEF InstallRecord
  <2>3. QED
    BY <1>5, <2>1, <2>2 DEF InstallRecord, TypeOK
<1>6. CASE InstallFile(c)
  <2>1. cli' \in [Clis -> CliStates]
    BY <1>0, <1>1, <1>6 DEF InstallFile
  <2>2. /\ file' \in [text : Texts, mtime : 1..MaxWrites]
        /\ writes' \in 1..MaxWrites /\ record' = record /\ blessed' = blessed
    BY <1>0, <1>6, FileWriteType DEF InstallFile
  <2>3. QED
    BY <1>6, <2>1, <2>2 DEF InstallFile, Mended, TypeOK
<1>7. CASE SignReview(c)
  <2>1. cli' \in [Clis -> CliStates]
    BY <1>1, <1>7 DEF SignReview
  <2>2. QED
    BY <1>7, <2>1 DEF SignReview, TypeOK
<1>8. CASE SignBless(c)
  <2>1. cli' \in [Clis -> CliStates]
    BY <1>0, <1>1, <1>8 DEF SignBless
  <2>2. /\ record' \in [text : Texts \cup {Garbled}, mtime : 1..MaxWrites]
        /\ writes' \in 1..MaxWrites /\ file' = file /\ blessed' \subseteq Texts
    BY <1>0, <1>8, RecordWriteType DEF SignBless
  <2>3. confirmed' \subseteq Texts
    BY <1>0, <1>8 DEF SignBless, TypeOK
  <2>4. QED
    BY <1>8, <2>1, <2>2, <2>3 DEF SignBless, Mended, TypeOK
<1>9. CASE CliEnds(c)
  <2>1. cli' \in [Clis -> CliStates]
    BY <1>0, <1>1, <1>9 DEF CliEnds
  <2>2. QED
    BY <1>9, <2>1 DEF CliEnds, TypeOK
<1>10. QED
  BY <1>2, <1>3, <1>4, <1>5, <1>6, <1>7, <1>8, <1>9

\* A change of the files by hand.
LEMMA HandTypeStep ==
    ASSUME TypeOK, ByHand
    PROVE  TypeOK'
<1>1. hand' \in 0..MaxHand
  BY BoundsAssumption DEF ByHand, TypeOK
<1>2. writes' \in 1..MaxWrites
  BY BoundsAssumption DEF ByHand, TypeOK
<1>3. file' = Missing \/ file' \in [text : Texts, mtime : 1..MaxWrites]
  BY <1>2 DEF ByHand, TypeOK
<1>4. record' = Missing \/ record' \in [text : Texts \cup {Garbled}, mtime : 1..MaxWrites]
  BY <1>2 DEF ByHand, TypeOK
<1>5. QED
  BY <1>1, <1>2, <1>3, <1>4 DEF ByHand, TypeOK

\* The initial states are in their types.
LEMMA InitType == Init => TypeOK
<1> SUFFICES ASSUME Init PROVE TypeOK
  OBVIOUS
<1>1. Default \in Valid /\ Default \in Texts
  BY ValidTexts DEF Valid
<1>2. Down \in ProxyStates
  BY <1>1, BoundsAssumption DEF Down, ProxyStates, Labels
<1> DEFINE up == [Down EXCEPT !.pc = "serving", !.st_policy = 1, !.st_sig = 1, !.outcome = "ok"]
<1>2a. "serving" \in Labels /\ 1 \in 0..MaxWrites
  BY BoundsAssumption DEF Labels
<1>3. up \in ProxyStates
  BY <1>2, <1>2a DEF ProxyStates
<1>4. proxy \in [Proxies -> ProxyStates]
  BY <1>2, <1>3 DEF Init
<1>5. cli \in [Clis -> CliStates]
  BY <1>1 DEF Init, IdleCli, CliStates
<1>6. file \in [text : Texts, mtime : 1..MaxWrites]
  BY <1>1, BoundsAssumption DEF Init
<1>7. record \in [text : Texts \cup {Garbled}, mtime : 1..MaxWrites]
  BY <1>1, BoundsAssumption DEF Init
<1>8. writes \in 1..MaxWrites /\ hand \in 0..MaxHand
  BY BoundsAssumption DEF Init
<1>9. crashed \in {"no", "torn", "mended"}
  BY DEF Init
<1>10. blessed \subseteq Texts /\ composed \subseteq Texts /\ confirmed \subseteq Texts
  BY <1>1 DEF Init
<1>11. QED
  BY <1>4, <1>5, <1>6, <1>7, <1>8, <1>9, <1>10 DEF TypeOK

\* Every step keeps the types.
LEMMA NextType == TypeOK /\ [Next]_vars => TypeOK'
<1> SUFFICES ASSUME TypeOK, [Next]_vars PROVE TypeOK'
  OBVIOUS
<1>1. CASE UNCHANGED vars
  BY <1>1 DEF vars, TypeOK
<1>2. CASE Next
  BY <1>2, ProxyTypeStep, CliTypeStep, HandTypeStep DEF Next
<1>3. QED
  BY <1>1, <1>2

\* The variables of the integrity module stay in their types: in particular
\* a proxy never enforces, and the CLI never installs or reviews, text that
\* does not parse.
THEOREM TypeCorrect == Spec => []TypeOK
BY InitType, NextType, PTL DEF Spec

-----------------------------------------------------------------------------
(***************************************************************************)
(* What a proxy enforces was blessed.  The invariant needs what makes the  *)
(* check at load time mean something: a record on disk authenticates only  *)
(* text it was written for, or nothing.                                    *)
(***************************************************************************)
RecordIsBlessing == record = Missing \/ record.text \in blessed \cup {Garbled}

EnforcedIsBlessed == \A p \in Proxies : proxy[p].policy \in blessed

TrustInv == TypeOK /\ Default \in blessed /\ RecordIsBlessing /\ EnforcedIsBlessed

\* Blessings are never withdrawn, and a record is written only with one.
LEMMA RecordWriteBlesses ==
    ASSUME NEW text, write_record(text)
    PROVE  blessed \subseteq blessed' /\ record'.text \in blessed'
BY DEF write_record

\* Text that verifies is text that was blessed.
LEMMA TrustedIsBlessed ==
    ASSUME RecordIsBlessing, NEW text \in Texts, verify(text) = "Trusted"
    PROVE  text \in blessed
BY GarbledIsNoText DEF RecordIsBlessing, verify, Exists

\* A step of a proxy keeps the invariant.
LEMMA ProxyTrustStep ==
    ASSUME TrustInv, NEW p \in Proxies,
           \/ Boot(p) \/ RefreshStatPolicy(p) \/ RefreshStatSig(p) \/ ReadText(p)
           \/ MaterializeRecord(p) \/ MaterializeFile(p) \/ VerifyText(p) \/ BootStat(p)
           \/ Dropped(p) \/ Stop(p)
    PROVE  Default \in blessed' /\ RecordIsBlessing' /\ EnforcedIsBlessed'
<1> USE DEF TrustInv
<1>0. /\ proxy \in [Proxies -> ProxyStates]
      /\ proxy[p].text \in Texts
  BY DEF TypeOK, ProxyStates
<1>1. CASE \/ Boot(p) \/ RefreshStatPolicy(p) \/ RefreshStatSig(p) \/ BootStat(p) \/ Stop(p)
  <2>1. UNCHANGED <<record, blessed>>
    BY <1>1 DEF Boot, RefreshStatPolicy, RefreshStatSig, BootStat, Stop
  <2>2. \A q \in Proxies : proxy'[q].policy \in {proxy[q].policy, Default}
    BY <1>0, <1>1 DEF Boot, RefreshStatPolicy, RefreshStatSig, BootStat, Stop, Down, ProxyStates
  <2>3. QED
    BY <2>1, <2>2 DEF RecordIsBlessing, EnforcedIsBlessed
<1>2. ASSUME NEW outcome, NEW policy \in blessed, Loaded(p, outcome, policy), UNCHANGED blessed
      PROVE  EnforcedIsBlessed'
  BY <1>0, <1>2 DEF Loaded, EnforcedIsBlessed, ProxyStates
<1>3. CASE ReadText(p)
  <2>1. UNCHANGED <<record, blessed>>
    BY <1>3 DEF ReadText
  <2>2. CASE ~Exists(file) /\ Exists(record)
    <3>1. Loaded(p, "tamper", proxy[p].policy)
      BY <1>3, <2>2 DEF ReadText
    <3>2. QED
      BY <1>2, <2>1, <3>1 DEF RecordIsBlessing, EnforcedIsBlessed
  <2>3. CASE ~(~Exists(file) /\ Exists(record))
    <3>1. \A q \in Proxies : proxy'[q].policy = proxy[q].policy
      BY <1>0, <1>3, <2>3 DEF ReadText, ProxyStates
    <3>2. QED
      BY <2>1, <3>1 DEF RecordIsBlessing, EnforcedIsBlessed
  <2>4. QED
    BY <2>2, <2>3
<1>4. CASE MaterializeRecord(p)
  <2>1. blessed \subseteq blessed' /\ record'.text \in blessed'
    BY <1>4, RecordWriteBlesses DEF MaterializeRecord
  <2>2. \A q \in Proxies : proxy'[q].policy = proxy[q].policy
    BY <1>0, <1>4 DEF MaterializeRecord, ProxyStates
  <2>3. QED
    BY <2>1, <2>2 DEF RecordIsBlessing, EnforcedIsBlessed
<1>5. CASE MaterializeFile(p)
  <2>1. UNCHANGED <<record, blessed>>
    BY <1>5 DEF MaterializeFile, write_file
  <2>2. \A q \in Proxies : proxy'[q].policy = proxy[q].policy
    BY <1>0, <1>5 DEF MaterializeFile, ProxyStates
  <2>3. QED
    BY <2>1, <2>2 DEF RecordIsBlessing, EnforcedIsBlessed
<1>6. CASE VerifyText(p)
  <2>1. UNCHANGED <<record, blessed>>
    BY <1>6 DEF VerifyText
  <2>2. \/ \E outcome : Loaded(p, outcome, proxy[p].policy)
        \/ verify(proxy[p].text) = "Trusted" /\ Loaded(p, "ok", proxy[p].text)
    BY <1>6 DEF VerifyText
  <2>3. verify(proxy[p].text) = "Trusted" => proxy[p].text \in blessed
    BY <1>0, TrustedIsBlessed
  <2>4. EnforcedIsBlessed'
    BY <1>2, <2>1, <2>2, <2>3 DEF EnforcedIsBlessed
  <2>5. QED
    BY <2>1, <2>4 DEF RecordIsBlessing
<1>7. CASE Dropped(p)
  <2>1. UNCHANGED <<record, blessed>> /\ Loaded(p, "dropped", proxy[p].policy)
    BY <1>7 DEF Dropped
  <2>2. QED
    BY <1>2, <2>1 DEF RecordIsBlessing, EnforcedIsBlessed
<1>8. QED
  BY <1>1, <1>3, <1>4, <1>5, <1>6, <1>7

\* A step of a CLI command, or a change by hand, keeps the invariant.
LEMMA OtherTrustStep ==
    ASSUME TrustInv,
           \/ ByHand
           \/ \E c \in Clis :
                 \/ EditLoad(c) \/ EditGate(c) \/ Reset(c) \/ InstallRecord(c) \/ InstallFile(c)
                 \/ SignReview(c) \/ SignBless(c) \/ CliEnds(c)
    PROVE  Default \in blessed' /\ RecordIsBlessing' /\ EnforcedIsBlessed'
<1> USE DEF TrustInv
<1>1. UNCHANGED proxy
  BY DEF ByHand, EditLoad, EditGate, Reset, InstallRecord, InstallFile, SignReview, SignBless,
         CliEnds
<1>2. \/ UNCHANGED <<record, blessed>>
      \/ \E text : write_record(text)
      \/ UNCHANGED blessed /\ (record' = Missing \/ record'.text = Garbled)
  BY DEF ByHand, EditLoad, EditGate, Reset, InstallRecord, InstallFile, SignReview, SignBless,
         CliEnds, write_file
<1>3. blessed \subseteq blessed' /\ RecordIsBlessing'
  BY <1>2, RecordWriteBlesses DEF RecordIsBlessing
<1>4. QED
  BY <1>1, <1>3 DEF EnforcedIsBlessed

\* The policy a proxy enforces is always one that a record was written for,
\* by an install or by `policy sign`, whatever is done to the two files by
\* hand and wherever a command or a proxy dies.
THEOREM EnforcedWasBlessed == Spec => []LoadedWasBlessed
<1>1. Init => TrustInv
  <2> SUFFICES ASSUME Init PROVE TrustInv
    OBVIOUS
  <2>1. TypeOK
    BY InitType
  <2>2. \A p \in Proxies : proxy[p].policy = Default
    BY DEF Init, Down
  <2>3. QED
    BY <2>1, <2>2 DEF TrustInv, RecordIsBlessing, EnforcedIsBlessed, Init
<1>2. TrustInv /\ [Next]_vars => TrustInv'
  <2> SUFFICES ASSUME TrustInv, [Next]_vars PROVE TrustInv'
    OBVIOUS
  <2>0. TypeOK'
    BY NextType DEF TrustInv
  <2>1. CASE UNCHANGED vars
    BY <2>0, <2>1 DEF vars, TrustInv, RecordIsBlessing, EnforcedIsBlessed
  <2>2. CASE Next
    BY <2>0, <2>2, ProxyTrustStep, OtherTrustStep DEF Next, TrustInv
  <2>3. QED
    BY <2>1, <2>2
<1>3. TrustInv => LoadedWasBlessed
  BY DEF TrustInv, EnforcedIsBlessed, LoadedWasBlessed
<1>4. QED
  BY <1>1, <1>2, <1>3, PTL DEF Spec

-----------------------------------------------------------------------------
(***************************************************************************)
(* What is missing was deleted, and what was deleted twice was deleted by  *)
(* two hands: both facts are needed to tell "no file" at one time from "no *)
(* file" at another, as they have the same mtime.                          *)
(***************************************************************************)
MtimesAreWrites ==
    /\ file.mtime <= writes /\ record.mtime <= writes
    /\ \A p \in Proxies : proxy[p].stat <= writes /\ proxy[p].st_policy <= writes
                          /\ proxy[p].st_sig <= writes

MissingIsDeleted ==
    /\ file = Missing \/ record = Missing => hand >= 1
    /\ file = Missing /\ record = Missing => hand >= 2
    /\ \A p \in Proxies : proxy[p].pc \in {"materialize", "materialize2"} => hand >= 2

\* A proxy that saw no file saw a deletion.
AbsenceSeen(p) ==
    /\ proxy[p].pc \in {"serving", "stat"} => ~proxy[p].booting
    /\ (~proxy[p].booting /\ proxy[p].pc # "down") =>
          /\ proxy[p].st_policy = 0 \/ proxy[p].st_sig = 0 => hand >= 1
          /\ proxy[p].pc = "stat" /\ proxy[p].stat = 0 => hand >= 1
          /\ proxy[p].pc = "verify" /\ proxy[p].st_policy = 0 /\ file = Missing => hand >= 2

\* What was read is what is on disk, as long as the mtime says so.
ReadIsCurrent(p) ==
    (/\ proxy[p].pc = "verify" /\ ~proxy[p].booting
     /\ file # Missing /\ file.mtime = proxy[p].st_policy) => proxy[p].text = file.text

Follows(p) ==
    (/\ proxy[p].pc \in {"serving", "stat"}
     /\ proxy[p].outcome \notin {"boot", "dropped"}
     /\ \/ Exists(file) /\ Exists(record)
        \/ (Exists(file) \/ Exists(record)) /\ hand <= 1
     /\ proxy[p].st_policy = file.mtime /\ proxy[p].st_sig = record.mtime) =>
       /\ proxy[p].outcome = OutcomeOf
       /\ OutcomeOf = "ok" => proxy[p].policy = file.text

FollowInv ==
    /\ TypeOK /\ MtimesAreWrites /\ MissingIsDeleted
    /\ \A p \in Proxies : AbsenceSeen(p) /\ ReadIsCurrent(p) /\ Follows(p)

ProxyStep(p) ==
    \/ Boot(p) \/ RefreshStatPolicy(p) \/ RefreshStatSig(p) \/ ReadText(p)
    \/ MaterializeRecord(p) \/ MaterializeFile(p) \/ VerifyText(p) \/ BootStat(p)
    \/ Dropped(p) \/ Stop(p)

CliStep(c) ==
    \/ EditLoad(c) \/ EditGate(c) \/ Reset(c) \/ InstallRecord(c) \/ InstallFile(c)
    \/ SignReview(c) \/ SignBless(c) \/ CliEnds(c)

\* What any step may do to the two files: a write has a new mtime, and only a
\* hand deletes, one file at a time.
DiskStep ==
    /\ writes <= writes' /\ hand <= hand'
    /\ file' # file => IF file' = Missing THEN hand' = hand + 1 /\ record' = record
                                          ELSE file'.mtime = writes + 1 /\ writes' = writes + 1
    /\ record' # record => IF record' = Missing
                           THEN hand' = hand + 1 /\ file' = file
                           ELSE record'.mtime = writes + 1 /\ writes' = writes + 1

\* A step of a proxy on the disk: only a fresh home is written.
LEMMA ProxyDiskStep ==
    ASSUME TypeOK, NEW p \in Proxies, ProxyStep(p)
    PROVE  /\ DiskStep /\ hand' = hand
           /\ file' # file \/ record' # record => proxy[p].pc \in {"materialize", "materialize2"}
           /\ \A q \in Proxies : q # p => proxy'[q] = proxy[q]
<1>1. writes \in Nat /\ hand \in Nat
  BY BoundsAssumption DEF TypeOK
<1>2. hand' = hand
  BY DEF ProxyStep, Boot, RefreshStatPolicy, RefreshStatSig, ReadText, MaterializeRecord,
         MaterializeFile, VerifyText, BootStat, Dropped, Stop, Others
<1>3. CASE MaterializeRecord(p) \/ MaterializeFile(p)
  <2>1. /\ writes' = writes + 1
        /\ file' = file \/ file' = [text |-> Default, mtime |-> writes + 1]
        /\ record' = record \/ record' = [text |-> Default, mtime |-> writes + 1]
    BY <1>3 DEF MaterializeRecord, MaterializeFile, write_record, write_file
  <2>2. [text |-> Default, mtime |-> writes + 1] # Missing
    BY <1>1 DEF Missing
  <2>3. DiskStep
    BY <1>1, <1>2, <2>1, <2>2 DEF DiskStep
  <2>4. QED
    BY <1>2, <1>3, <2>3 DEF MaterializeRecord, MaterializeFile, ProxyAt, TypeOK
<1>4. CASE ~(MaterializeRecord(p) \/ MaterializeFile(p))
  <2>1. UNCHANGED <<file, record, writes>>
    BY <1>4 DEF ProxyStep, Boot, RefreshStatPolicy, RefreshStatSig, ReadText, VerifyText,
                BootStat, Dropped, Stop
  <2>2. \A q \in Proxies : q # p => proxy'[q] = proxy[q]
    BY <1>4 DEF ProxyStep, Boot, RefreshStatPolicy, RefreshStatSig, ReadText, VerifyText,
                BootStat, Dropped, Stop, Loaded, TypeOK
  <2>3. QED
    BY <1>1, <1>2, <2>1, <2>2 DEF DiskStep
<1>5. QED
  BY <1>3, <1>4

\* A step of a command or of a hand on the disk.
LEMMA OtherDiskStep ==
    ASSUME TypeOK, ByHand \/ \E c \in Clis : CliStep(c)
    PROVE  DiskStep /\ proxy' = proxy
<1>1. writes \in Nat /\ hand \in Nat
  BY BoundsAssumption DEF TypeOK
<1>2. \A text : [text |-> text, mtime |-> writes + 1] # Missing
  BY <1>1 DEF Missing
<1>3. CASE ByHand
  <2>1. /\ hand' = hand + 1 /\ proxy' = proxy
        /\ \/ file' = Missing /\ UNCHANGED <<record, writes>>
           \/ record' = Missing /\ UNCHANGED <<file, writes>>
           \/ /\ writes' = writes + 1
              /\ \/ (\E text : file' = [text |-> text, mtime |-> writes + 1]) /\ UNCHANGED record
                 \/ record' = [text |-> Garbled, mtime |-> writes + 1] /\ UNCHANGED file
    BY <1>3 DEF ByHand
  <2>2. QED
    BY <1>1, <1>2, <2>1 DEF DiskStep
<1>4. CASE \E c \in Clis : CliStep(c)
  <2>1. PICK c \in Clis : CliStep(c)
    BY <1>4
  <2>2. hand' = hand /\ proxy' = proxy
    BY <2>1 DEF CliStep, EditLoad, EditGate, Reset, InstallRecord, InstallFile, SignReview,
                SignBless, CliEnds
  <2>3. \/ UNCHANGED <<file, record, writes>>
        \/ \E text : write_record(text)
        \/ \E text : write_file(text)
    BY <2>1 DEF CliStep, EditLoad, EditGate, Reset, InstallRecord, InstallFile, SignReview,
                SignBless, CliEnds
  <2>4. \/ UNCHANGED <<file, record, writes>>
        \/ /\ writes' = writes + 1
           /\ \/ (\E text : file' = [text |-> text, mtime |-> writes + 1]) /\ UNCHANGED record
              \/ (\E text : record' = [text |-> text, mtime |-> writes + 1]) /\ UNCHANGED file
    BY <2>3 DEF write_record, write_file
  <2>5. QED
    BY <1>1, <1>2, <2>2, <2>4 DEF DiskStep
<1>5. QED
  BY <1>3, <1>4

\* A file that is on disk has an mtime, one that is not has none.
LEMMA MtimeOfMissing ==
    ASSUME TypeOK
    PROVE  /\ file.mtime \in Nat /\ record.mtime \in Nat
           /\ file = Missing <=> file.mtime = 0
           /\ record = Missing <=> record.mtime = 0
           /\ writes \in Nat /\ hand \in Nat
           /\ \A p \in Proxies : /\ proxy[p] \in ProxyStates
                                 /\ proxy[p].st_policy \in Nat /\ proxy[p].st_sig \in Nat
                                 /\ proxy[p].stat \in Nat
BY BoundsAssumption DEF TypeOK, Missing, ProxyStates

\* A proxy that does not move keeps what is said of it, whatever becomes of
\* the files.
LEMMA BystanderKept ==
    ASSUME FollowInv, TypeOK', DiskStep, NEW p \in Proxies, proxy'[p] = proxy[p]
    PROVE  AbsenceSeen(p)' /\ ReadIsCurrent(p)' /\ Follows(p)'
<1> DEFINE q == proxy[p]
<1>1. /\ AbsenceSeen(p) /\ ReadIsCurrent(p) /\ Follows(p)
      /\ q.stat <= writes /\ q.st_policy <= writes /\ q.st_sig <= writes
      /\ TypeOK /\ MissingIsDeleted
  BY DEF FollowInv, MtimesAreWrites
<1>2. /\ q.st_policy \in Nat /\ q.st_sig \in Nat /\ q.stat \in Nat
      /\ writes \in Nat /\ hand \in Nat
  BY <1>1, MtimeOfMissing
<1>2a. /\ writes' \in Nat /\ hand' \in Nat
       /\ file' = Missing <=> file'.mtime = 0
       /\ record' = Missing <=> record'.mtime = 0
  BY BoundsAssumption DEF TypeOK, Missing
<1>3. file' = file \/ file' = Missing \/ file'.mtime # q.st_policy
  BY <1>1, <1>2, <1>2a DEF DiskStep
<1>4. record' = record \/ record' = Missing \/ record'.mtime # q.st_sig
  BY <1>1, <1>2, <1>2a DEF DiskStep
<1>5. file' # file /\ file' = Missing => hand' >= 1 /\ (hand >= 1 => hand' >= 2)
  BY <1>2, <1>2a DEF DiskStep
<1>6. record' # record /\ record' = Missing => hand' >= 1 /\ (hand >= 1 => hand' >= 2)
  BY <1>2, <1>2a DEF DiskStep
<1>7. hand <= hand'
  BY DEF DiskStep
<1>8. AbsenceSeen(p)'
  BY <1>1, <1>2, <1>2a, <1>5, <1>7 DEF AbsenceSeen
<1>9. ReadIsCurrent(p)'
  BY <1>1, <1>3 DEF ReadIsCurrent
<1>10. Follows(p)'
  <2> SUFFICES ASSUME q.pc \in {"serving", "stat"}, q.outcome \notin {"boot", "dropped"},
                      \/ file' # Missing /\ record' # Missing
                      \/ (file' # Missing \/ record' # Missing) /\ hand' <= 1,
                      q.st_policy = file'.mtime, q.st_sig = record'.mtime
               PROVE  q.outcome = OutcomeOf' /\ (OutcomeOf' = "ok" => q.policy = file'.text)
    BY DEF Follows, Exists
  <2>1. ~q.booting /\ (q.st_policy = 0 \/ q.st_sig = 0 => hand >= 1)
    BY <1>1 DEF AbsenceSeen
  <2>2. file' = file
    BY <1>2, <1>2a, <1>3, <1>5, <2>1
  <2>3. record' = record
    BY <1>2, <1>2a, <1>4, <1>6, <2>1
  <2>4. OutcomeOf' = OutcomeOf
    BY <2>2, <2>3 DEF OutcomeOf, verify, Exists
  <2>5. QED
    BY <1>1, <1>2, <1>2a, <1>7, <2>2, <2>3, <2>4 DEF Follows, Exists
<1>11. QED
  BY <1>8, <1>9, <1>10

\* What a step of a proxy makes of its own state, one line per action; the
\* files are as they were, except where a fresh home is written.
LEMMA ActingProxy ==
    ASSUME FollowInv, NEW p \in Proxies, ProxyStep(p)
    PROVE  /\ AbsenceSeen(p)' /\ ReadIsCurrent(p)' /\ Follows(p)'
           /\ \A m \in {proxy'[p].stat, proxy'[p].st_policy, proxy'[p].st_sig} : m <= writes
           /\ proxy'[p].pc \in {"materialize", "materialize2"} => hand >= 2
<1> DEFINE q == proxy[p]
<1>1. /\ AbsenceSeen(p) /\ ReadIsCurrent(p) /\ Follows(p)
      /\ q.stat <= writes /\ q.st_policy <= writes /\ q.st_sig <= writes
      /\ file.mtime <= writes /\ record.mtime <= writes
      /\ TypeOK /\ MissingIsDeleted
  BY DEF FollowInv, MtimesAreWrites
<1>2. /\ file.mtime \in Nat /\ record.mtime \in Nat
      /\ file = Missing <=> file.mtime = 0
      /\ record = Missing <=> record.mtime = 0
      /\ writes \in Nat /\ hand \in Nat
      /\ q \in ProxyStates /\ q.st_policy \in Nat /\ q.st_sig \in Nat /\ q.stat \in Nat
      /\ proxy \in [Proxies -> ProxyStates]
  BY <1>1, MtimeOfMissing DEF TypeOK
<1>3. hand' = hand
  BY <1>1, ProxyDiskStep
<1>4. /\ file = Missing => hand >= 1
      /\ record = Missing => hand >= 1
      /\ file = Missing /\ record = Missing => hand >= 2
      /\ q.pc \in {"materialize", "materialize2"} => hand >= 2
  BY <1>1 DEF MissingIsDeleted
<1>5. CASE Boot(p)
  <2>1. proxy'[p] = [q EXCEPT !.pc = "read", !.booting = TRUE]
    BY <1>2, <1>5 DEF Boot
  <2>2. proxy'[p].pc = "read" /\ proxy'[p].booting /\ proxy'[p].stat = q.stat
        /\ proxy'[p].st_policy = q.st_policy /\ proxy'[p].st_sig = q.st_sig
    BY <1>2, <2>1 DEF ProxyStates
  <2>3. QED
    BY <1>1, <2>2 DEF AbsenceSeen, ReadIsCurrent, Follows
<1>6. CASE RefreshStatPolicy(p)
  <2>1. /\ q.pc = "serving" /\ UNCHANGED <<file, record>>
        /\ proxy'[p] = [q EXCEPT !.pc = "stat", !.stat = file.mtime]
    BY <1>2, <1>6 DEF RefreshStatPolicy, ProxyAt
  <2>2. /\ proxy'[p].pc = "stat" /\ proxy'[p].stat = file.mtime
        /\ proxy'[p].booting = q.booting /\ proxy'[p].outcome = q.outcome
        /\ proxy'[p].policy = q.policy
        /\ proxy'[p].st_policy = q.st_policy /\ proxy'[p].st_sig = q.st_sig
    BY <1>2, <2>1 DEF ProxyStates
  <2>3. AbsenceSeen(p)' /\ ReadIsCurrent(p)'
    BY <1>1, <1>2, <1>3, <1>4, <2>1, <2>2 DEF AbsenceSeen, ReadIsCurrent
  <2>4. Follows(p)'
    BY <1>1, <1>3, <2>1, <2>2 DEF Follows, Exists, OutcomeOf, verify
  <2>5. QED
    BY <1>1, <2>2, <2>3, <2>4
<1>7. CASE RefreshStatSig(p)
  <2>1. /\ q.pc = "stat" /\ UNCHANGED <<file, record>>
        /\ \/ proxy'[p] = [q EXCEPT !.pc = "read", !.st_policy = q.stat, !.st_sig = record.mtime]
           \/ proxy'[p] = [q EXCEPT !.pc = "serving"]
    BY <1>2, <1>7 DEF RefreshStatSig, ProxyAt
  <2>2. CASE proxy'[p] = [q EXCEPT !.pc = "serving"]
    <3>1. /\ proxy'[p].pc = "serving" /\ proxy'[p].stat = q.stat
          /\ proxy'[p].booting = q.booting /\ proxy'[p].outcome = q.outcome
          /\ proxy'[p].policy = q.policy
          /\ proxy'[p].st_policy = q.st_policy /\ proxy'[p].st_sig = q.st_sig
      BY <1>2, <2>2 DEF ProxyStates
    <3>2. AbsenceSeen(p)' /\ ReadIsCurrent(p)'
      BY <1>1, <1>2, <1>3, <1>4, <2>1, <3>1 DEF AbsenceSeen, ReadIsCurrent
    <3>3. Follows(p)'
      BY <1>1, <1>3, <2>1, <3>1 DEF Follows, Exists, OutcomeOf, verify
    <3>4. QED
      BY <1>1, <3>1, <3>2, <3>3
  <2>3. CASE proxy'[p] = [q EXCEPT !.pc = "read", !.st_policy = q.stat, !.st_sig = record.mtime]
    <3>1. /\ proxy'[p].pc = "read" /\ proxy'[p].stat = q.stat
          /\ proxy'[p].booting = q.booting
          /\ proxy'[p].st_policy = q.stat /\ proxy'[p].st_sig = record.mtime
      BY <1>2, <2>3 DEF ProxyStates
    <3>2. QED
      BY <1>1, <1>2, <1>3, <1>4, <2>1, <3>1 DEF AbsenceSeen, ReadIsCurrent, Follows
  <2>4. QED
    BY <2>1, <2>2, <2>3
<1>8. ASSUME NEW outcome, NEW policy, Loaded(p, outcome, policy), UNCHANGED <<file, record>>,
             ~q.booting => /\ q.pc \in {"read", "verify"}
                           /\ \/ outcome = "dropped" \/ file.mtime # q.st_policy
                              \/ outcome = OutcomeOf /\ (OutcomeOf = "ok" => policy = file.text)
      PROVE  /\ AbsenceSeen(p)' /\ ReadIsCurrent(p)' /\ Follows(p)'
             /\ \A m \in {proxy'[p].stat, proxy'[p].st_policy, proxy'[p].st_sig} : m <= writes
             /\ proxy'[p].pc \in {"materialize", "materialize2"} => hand >= 2
  <2>1. proxy'[p] = [q EXCEPT !.pc = IF ~q.booting THEN "serving"
                                     ELSE IF outcome = "ok" THEN "booted" ELSE "down",
                              !.policy = policy, !.outcome = outcome]
    BY <1>2, <1>8 DEF Loaded
  <2>2. /\ proxy'[p].pc = IF ~q.booting THEN "serving"
                          ELSE IF outcome = "ok" THEN "booted" ELSE "down"
        /\ proxy'[p].stat = q.stat /\ proxy'[p].booting = q.booting
        /\ proxy'[p].outcome = outcome /\ proxy'[p].policy = policy
        /\ proxy'[p].st_policy = q.st_policy /\ proxy'[p].st_sig = q.st_sig
    BY <1>2, <2>1 DEF ProxyStates
  <2>3. AbsenceSeen(p)' /\ ReadIsCurrent(p)'
    BY <1>1, <1>2, <1>3, <1>8, <2>2 DEF AbsenceSeen, ReadIsCurrent
  <2>4. Follows(p)'
    BY <1>8, <2>2 DEF Follows, OutcomeOf, verify, Exists
  <2>5. QED
    BY <1>1, <2>2, <2>3, <2>4
<1>9. CASE ReadText(p)
  <2>1. q.pc = "read" /\ UNCHANGED <<file, record>>
    BY <1>9 DEF ReadText, ProxyAt
  <2>2. CASE file # Missing
    <3>1. proxy'[p] = [q EXCEPT !.pc = "verify", !.text = file.text]
      BY <1>2, <1>9, <2>2 DEF ReadText, Exists
    <3>2. /\ proxy'[p].pc = "verify" /\ proxy'[p].text = file.text
          /\ proxy'[p].booting = q.booting /\ proxy'[p].stat = q.stat
          /\ proxy'[p].st_policy = q.st_policy /\ proxy'[p].st_sig = q.st_sig
      BY <1>2, <3>1 DEF ProxyStates
    <3>3. QED
      BY <1>1, <1>2, <1>3, <2>1, <2>2, <3>2 DEF AbsenceSeen, ReadIsCurrent, Follows
  <2>3. CASE file = Missing /\ record # Missing
    <3>1. Loaded(p, "tamper", q.policy)
      BY <1>9, <2>3 DEF ReadText, Exists
    <3>2. OutcomeOf = "tamper"
      BY <2>3 DEF OutcomeOf, Exists
    <3>3. QED
      BY <1>8, <2>1, <3>1, <3>2
  <2>4. CASE file = Missing /\ record = Missing
    <3>1. proxy'[p] = [q EXCEPT !.pc = "materialize"]
      BY <1>2, <1>9, <2>4 DEF ReadText, Exists
    <3>2. /\ proxy'[p].pc = "materialize" /\ proxy'[p].stat = q.stat
          /\ proxy'[p].st_policy = q.st_policy /\ proxy'[p].st_sig = q.st_sig
      BY <1>2, <3>1 DEF ProxyStates
    <3>3. QED
      BY <1>1, <1>2, <1>3, <1>4, <2>4, <3>2 DEF AbsenceSeen, ReadIsCurrent, Follows
  <2>5. QED
    BY <2>2, <2>3, <2>4
<1>10. CASE MaterializeRecord(p) \/ MaterializeFile(p)
  <2>1. /\ q.pc \in {"materialize", "materialize2"}
        /\ \/ proxy'[p] = [q EXCEPT !.pc = "materialize2"]
           \/ proxy'[p] = [q EXCEPT !.pc = "read"]
    BY <1>2, <1>10 DEF MaterializeRecord, MaterializeFile, ProxyAt
  <2>2. /\ proxy'[p].pc \in {"materialize2", "read"} /\ proxy'[p].stat = q.stat
        /\ proxy'[p].st_policy = q.st_policy /\ proxy'[p].st_sig = q.st_sig
    BY <1>2, <2>1 DEF ProxyStates
  <2>3. hand >= 2
    BY <1>4, <2>1
  <2>4. QED
    BY <1>1, <1>2, <1>3, <2>2, <2>3 DEF AbsenceSeen, ReadIsCurrent, Follows
<1>11. CASE VerifyText(p)
  <2>1. q.pc = "verify" /\ UNCHANGED <<file, record>>
    BY <1>11 DEF VerifyText, ProxyAt
  <2>2. PICK outcome, policy :
           /\ Loaded(p, outcome, policy)
           /\ \/ verify(q.text) # "Trusted" /\ outcome = "tamper" /\ policy = q.policy
              \/ /\ verify(q.text) = "Trusted" /\ q.text = Broken
                 /\ outcome = "alert" /\ policy = q.policy
              \/ /\ verify(q.text) = "Trusted" /\ q.text # Broken
                 /\ outcome = "ok" /\ policy = q.text
    BY <1>11 DEF VerifyText
  <2>3. ASSUME ~q.booting, file.mtime = q.st_policy, file # Missing
        PROVE  outcome = OutcomeOf /\ (OutcomeOf = "ok" => policy = file.text)
    <3>1. q.text = file.text
      BY <1>1, <2>1, <2>3 DEF ReadIsCurrent
    <3>2. QED
      BY <2>2, <2>3, <3>1 DEF OutcomeOf, Exists
  <2>4. ASSUME ~q.booting, file.mtime = q.st_policy, file = Missing
        PROVE  hand >= 2
    BY <1>1, <1>2, <2>1, <2>4 DEF AbsenceSeen
  <2>5. CASE ~q.booting /\ file.mtime = q.st_policy /\ file = Missing
    <3>1. hand' >= 2 /\ hand' \in Nat
      BY <1>2, <1>3, <2>4, <2>5
    <3>2. /\ proxy'[p].pc = "serving" /\ proxy'[p].stat = q.stat /\ proxy'[p].booting = q.booting
          /\ proxy'[p].st_policy = q.st_policy /\ proxy'[p].st_sig = q.st_sig
      BY <1>2, <2>2, <2>5 DEF Loaded, ProxyStates
    <3>3. file' = Missing
      BY <2>1, <2>5
    <3>4. QED
      BY <1>1, <1>2, <1>3, <2>5, <3>1, <3>2, <3>3 DEF AbsenceSeen, ReadIsCurrent, Follows, Exists
  <2>6. CASE ~(~q.booting /\ file.mtime = q.st_policy /\ file = Missing)
    <3> HIDE DEF q
    <3>1. ~q.booting => /\ q.pc \in {"read", "verify"}
                        /\ \/ outcome = "dropped" \/ file.mtime # q.st_policy
                           \/ outcome = OutcomeOf /\ (OutcomeOf = "ok" => policy = file.text)
      BY <2>1, <2>3, <2>6
    <3>2. Loaded(p, outcome, policy) /\ UNCHANGED <<file, record>>
      BY <2>1, <2>2
    <3>3. QED
      BY <1>8, <3>1, <3>2
  <2>7. QED
    BY <2>5, <2>6
<1>12. CASE BootStat(p)
  <2>1. /\ UNCHANGED <<file, record>>
        /\ proxy'[p] = [q EXCEPT !.pc = "serving", !.booting = FALSE, !.st_policy = file.mtime,
                                 !.st_sig = record.mtime, !.outcome = "boot"]
    BY <1>2, <1>12 DEF BootStat
  <2>2. /\ proxy'[p].pc = "serving" /\ ~proxy'[p].booting /\ proxy'[p].stat = q.stat
        /\ proxy'[p].st_policy = file.mtime /\ proxy'[p].st_sig = record.mtime
        /\ proxy'[p].outcome = "boot"
    BY <1>2, <2>1 DEF ProxyStates
  <2>3. QED
    BY <1>1, <1>2, <1>3, <1>4, <2>1, <2>2 DEF AbsenceSeen, ReadIsCurrent, Follows
<1>13. CASE Dropped(p)
  <2>1. /\ ~q.booting /\ q.pc \in {"read", "verify"} /\ UNCHANGED <<file, record>>
        /\ Loaded(p, "dropped", q.policy)
    BY <1>13 DEF Dropped, ProxyAt
  <2>2. QED
    BY <1>8, <2>1
<1>14. CASE Stop(p)
  <2>1. proxy'[p] = Down
    BY <1>2, <1>14 DEF Stop
  <2>2. /\ proxy'[p].pc = "down" /\ proxy'[p].stat = 0
        /\ proxy'[p].st_policy = 0 /\ proxy'[p].st_sig = 0
    BY <2>1 DEF Down
  <2>3. QED
    BY <1>2, <2>2 DEF AbsenceSeen, ReadIsCurrent, Follows
<1>15. QED
  BY <1>5, <1>6, <1>7, <1>9, <1>10, <1>11, <1>12, <1>13, <1>14 DEF ProxyStep

\* Every step keeps the invariant.
LEMMA FollowStep == FollowInv /\ [Next]_vars => FollowInv'
<1> SUFFICES ASSUME FollowInv, [Next]_vars PROVE FollowInv'
  OBVIOUS
<1>0. TypeOK /\ TypeOK'
  BY NextType DEF FollowInv
<1>1. CASE UNCHANGED vars
  <2>1. UNCHANGED <<file, record, writes, proxy, hand>>
    BY <1>1 DEF vars
  <2>2. DiskStep
    <3>1. writes \in Nat /\ hand \in Nat
      BY <1>0, MtimeOfMissing
    <3>2. QED
      BY <2>1, <3>1 DEF DiskStep
  <2>3. \A p \in Proxies : AbsenceSeen(p)' /\ ReadIsCurrent(p)' /\ Follows(p)'
    BY <1>0, <2>1, <2>2, BystanderKept
  <2>4. MtimesAreWrites' /\ MissingIsDeleted'
    BY <2>1 DEF FollowInv, MtimesAreWrites, MissingIsDeleted
  <2>5. QED
    BY <1>0, <2>3, <2>4 DEF FollowInv
<1>2. CASE Next
  <2>1. \/ \E p \in Proxies : ProxyStep(p)
        \/ ByHand \/ \E c \in Clis : CliStep(c)
    BY <1>2 DEF Next, ProxyStep, CliStep
  <2>2. DiskStep
    BY <1>0, <2>1, ProxyDiskStep, OtherDiskStep
  <2>3. \A p \in Proxies : ProxyStep(p) \/ proxy'[p] = proxy[p]
    BY <1>0, <2>1, ProxyDiskStep, OtherDiskStep
  <2>4. \A p \in Proxies : AbsenceSeen(p)' /\ ReadIsCurrent(p)' /\ Follows(p)'
    BY <1>0, <2>2, <2>3, ActingProxy, BystanderKept
  <2>5. /\ writes \in Nat /\ writes' \in Nat /\ hand \in Nat /\ hand' \in Nat
        /\ file.mtime \in Nat /\ record.mtime \in Nat
        /\ file'.mtime \in Nat /\ record'.mtime \in Nat
        /\ writes <= writes' /\ hand <= hand'
    BY <1>0, <2>2, BoundsAssumption DEF TypeOK, Missing, DiskStep
  <2>6. file'.mtime <= writes' /\ record'.mtime <= writes'
    <3>1. Missing.mtime = 0
      BY DEF Missing
    <3>2. QED
      BY <2>2, <2>5, <3>1 DEF DiskStep, FollowInv, MtimesAreWrites
  <2>7. ASSUME NEW p \in Proxies
        PROVE  /\ proxy'[p].stat <= writes' /\ proxy'[p].st_policy <= writes'
               /\ proxy'[p].st_sig <= writes'
               /\ proxy'[p].pc \in {"materialize", "materialize2"} => hand >= 2
    <3>0. proxy'[p].stat \in Nat /\ proxy'[p].st_policy \in Nat /\ proxy'[p].st_sig \in Nat
      BY <1>0, BoundsAssumption DEF TypeOK, ProxyStates
    <3>1. /\ proxy'[p].stat <= writes /\ proxy'[p].st_policy <= writes
          /\ proxy'[p].st_sig <= writes
          /\ proxy'[p].pc \in {"materialize", "materialize2"} => hand >= 2
      BY <2>3, ActingProxy DEF FollowInv, MtimesAreWrites, MissingIsDeleted
    <3>2. QED
      BY <2>5, <3>0, <3>1
  <2>8. MtimesAreWrites'
    BY <2>6, <2>7 DEF MtimesAreWrites
  <2>9. MissingIsDeleted'
    <3>1. /\ file' = Missing \/ record' = Missing => hand' >= 1
          /\ file' = Missing /\ record' = Missing => hand' >= 2
      BY <2>2, <2>5 DEF DiskStep, FollowInv, MissingIsDeleted
    <3>2. QED
      BY <2>5, <2>7, <3>1 DEF MissingIsDeleted
  <2>10. QED
    BY <1>0, <2>4, <2>8, <2>9 DEF FollowInv
<1>3. QED
  BY <1>1, <1>2

\* Nothing has been deleted, and every running proxy has read what is there.
LEMMA FollowInit == Init => FollowInv
<1> SUFFICES ASSUME Init PROVE FollowInv
  OBVIOUS
<1>1. TypeOK
  BY InitType
<1>2. file.mtime = 1 /\ record.mtime = 1 /\ writes = 1 /\ file # Missing /\ record # Missing
  BY DEF Init, Missing
<1>3. ASSUME NEW p \in Proxies
      PROVE  \/ proxy[p] = Down
             \/ /\ proxy[p].pc = "serving" /\ ~proxy[p].booting /\ proxy[p].stat = 0
                /\ proxy[p].st_policy = 1 /\ proxy[p].st_sig = 1
                /\ proxy[p].outcome = "ok" /\ proxy[p].policy = Default
  BY DEF Init, Down
<1>4. Down.pc = "down" /\ Down.stat = 0 /\ Down.st_policy = 0 /\ Down.st_sig = 0
  BY DEF Down
<1>5. OutcomeOf = "ok" /\ file.text = Default
  BY <1>2 DEF OutcomeOf, verify, Exists, Init, Default, Broken
<1>6. MtimesAreWrites /\ MissingIsDeleted
  BY <1>2, <1>3, <1>4 DEF MtimesAreWrites, MissingIsDeleted
<1>7. \A p \in Proxies : AbsenceSeen(p) /\ ReadIsCurrent(p) /\ Follows(p)
  BY <1>3, <1>4, <1>5 DEF AbsenceSeen, ReadIsCurrent, Follows
<1>8. QED
  BY <1>1, <1>6, <1>7 DEF FollowInv

LEMMA Followed == Spec => []FollowInv
BY FollowInit, FollowStep, PTL DEF Spec

\* A running proxy that sees nothing to reload enforces the policy on disk if
\* that is trusted and has raised the alarm if it is not, for any number of
\* proxies, commands and hands that change the two files between its stats,
\* its reads and its checks.
THEOREM RunningFollowsFiles == Spec => []FollowsFiles
<1>1. FollowInv => FollowsFiles
  BY DEF FollowInv, Follows, FollowsFiles, ProxyAt
<1>2. QED
  BY <1>1, Followed, PTL

-----------------------------------------------------------------------------
(***************************************************************************)
(* What the CLI promises: a policy that always loads, and no laundering.   *)
(* The commands take no lock, and neither promise survives two of them at  *)
(* work at the same time; both theorems say so in their hypothesis.  What  *)
(* they need is where the hand-written rules are: never in a record, and   *)
(* in the file only while no record matches it.                            *)
(***************************************************************************)

\* No two commands run at the same time.
OneAtATime == \A c, d \in Clis : cli[c].pc # "idle" /\ cli[d].pc # "idle" => c = d

\* Nothing in the text is hand-written, or a human said yes to it.
Clean(text) == text \cap HandRules \subseteq UNION confirmed

InstallsMatch ==
    hand = 0 =>
       /\ file.text \in Valid
       /\ \A c \in Clis : CliAt(c, "file") => record.text = cli[c].text
       /\ crashed # "torn" => /\ NothingHalfDone => record.text = file.text
                              /\ \A c \in Clis : ~CliAt(c, "review")

CleanHands ==
    (hand <= 1 /\ crashed = "no") =>
       /\ \A text \in composed : Clean(text)
       /\ Clean(record.text)
       /\ hand = 0 => Clean(file.text)
       /\ \A c \in Clis :
             /\ cli[c].pc \in {"record", "file"} => Clean(cli[c].text)
             /\ CliAt(c, "gate") => Clean(cli[c].text) \/ ~Clean(file.text)
             /\ CliAt(c, "review") => cli[c].text = file.text \/ Clean(file.text)

InstallInv == InstallsMatch /\ CleanHands

\* The texts that stand for no file and for a mangled record have no rules.
LEMMA MarkersAreClean == Clean(Default) /\ Clean(Missing.text) /\ Clean(Garbled)
BY RulesAssumption DEF Clean, Default, Missing, Garbled

\* A command that moves is alone before and after its step.
LEMMA CommandAlone ==
    ASSUME TypeOK, OneAtATime, OneAtATime', NEW c \in Clis, CliStep(c)
    PROVE  /\ \A d \in Clis : d # c => cli[d].pc = "idle" /\ cli'[d] = cli[d]
           /\ hand' = hand
           /\ crashed # "no" => crashed' # "no"
<1>1. cli \in [Clis -> CliStates]
  BY DEF TypeOK
<1>2. \E label, text : /\ cli' = [cli EXCEPT ![c] = [pc |-> label, text |-> text]]
                       /\ cli[c].pc # "idle" \/ label # "idle"
  BY DEF CliStep, EditLoad, EditGate, Reset, InstallRecord, InstallFile, SignReview,
         SignBless, CliEnds, CliGoto, CliAt
<1>3. cli[c].pc # "idle" \/ cli'[c].pc # "idle"
  BY <1>1, <1>2
<1>4. \A d \in Clis : d # c => cli'[d] = cli[d]
  BY <1>1, <1>2
<1>5. \A d \in Clis : d # c => cli[d].pc = "idle"
  BY <1>3, <1>4 DEF OneAtATime
<1>6. hand' = hand /\ (crashed # "no" => crashed' # "no")
  BY DEF CliStep, EditLoad, EditGate, Reset, InstallRecord, InstallFile, SignReview,
         SignBless, CliEnds, Mended
<1>7. QED
  BY <1>4, <1>5, <1>6

\* A step of a command.
LEMMA CommandInstallStep ==
    ASSUME FollowInv, OneAtATime, OneAtATime', InstallInv, NEW c \in Clis, CliStep(c)
    PROVE  InstallInv'
<1>0. TypeOK /\ cli \in [Clis -> CliStates] /\ hand \in Nat
  BY MtimeOfMissing DEF FollowInv, TypeOK
<1>1. /\ \A d \in Clis : d # c => cli[d].pc = "idle" /\ cli'[d] = cli[d]
      /\ hand' = hand /\ (crashed # "no" => crashed' # "no")
  BY <1>0, CommandAlone
<1>2. ASSUME NEW label, NEW text, CliGoto(c, label, text)
      PROVE  cli'[c] = [pc |-> label, text |-> text]
  BY <1>0, <1>2 DEF CliGoto
<1>3. CASE EditLoad(c)
  <2>0. PICK rule \in CliRules : \E new \in {file.text \cup {rule}, file.text \ {rule}} :
             CliGoto(c, "gate", new)
    BY <1>3 DEF EditLoad
  <2>1. PICK new \in {file.text \cup {rule}, file.text \ {rule}} : CliGoto(c, "gate", new)
    BY <2>0
  <2>2. UNCHANGED <<file, record, crashed, composed, confirmed>> /\ cli[c].pc = "idle"
    BY <1>3 DEF EditLoad, CliAt
  <2>3. cli'[c] = [pc |-> "gate", text |-> new]
    BY <1>2, <2>1
  <2>4. Clean(file.text) => Clean(new)
    BY <2>1, RulesAssumption DEF Clean
  <2>5. InstallsMatch'
    BY <1>1, <2>2, <2>3 DEF InstallInv, InstallsMatch, NothingHalfDone, CliAt
  <2>6. CleanHands'
    BY <1>1, <2>2, <2>3, <2>4 DEF InstallInv, CleanHands, Clean, CliAt
  <2>7. QED
    BY <2>5, <2>6 DEF InstallInv
<1>4. CASE EditGate(c)
  <2>1. UNCHANGED <<file, record, crashed, confirmed>> /\ cli[c].pc = "gate"
    BY <1>4 DEF EditGate, CliAt
  <2>2. \/ cli'[c] = [pc |-> "idle", text |-> Default] /\ composed' = composed
        \/ /\ cli'[c] = [pc |-> "record", text |-> cli[c].text]
           /\ composed' = composed \cup {cli[c].text}
           /\ ~Exists(file) \/ verify(file.text) = "Trusted"
    BY <1>2, <1>4 DEF EditGate
  <2>3. ASSUME hand <= 1, crashed = "no", ~Exists(file) \/ verify(file.text) = "Trusted"
        PROVE  Clean(cli[c].text)
    <3>1. Clean(file.text)
      BY <2>3, MarkersAreClean DEF InstallInv, CleanHands, verify, Exists
    <3>2. QED
      BY <2>1, <2>3, <3>1 DEF InstallInv, CleanHands, CliAt
  <2>4. InstallsMatch'
    BY <1>1, <2>1, <2>2 DEF InstallInv, InstallsMatch, NothingHalfDone, CliAt
  <2>5. CleanHands'
    BY <1>1, <2>1, <2>2, <2>3 DEF InstallInv, CleanHands, Clean, CliAt
  <2>6. QED
    BY <2>4, <2>5 DEF InstallInv
<1>5. CASE Reset(c)
  <2>1. /\ UNCHANGED <<file, record, crashed, composed, confirmed>> /\ cli[c].pc = "idle"
        /\ cli'[c] = [pc |-> "record", text |-> Default]
    BY <1>2, <1>5 DEF Reset, CliAt
  <2>2. InstallsMatch'
    BY <1>1, <2>1 DEF InstallInv, InstallsMatch, NothingHalfDone, CliAt
  <2>3. CleanHands'
    BY <1>1, <2>1, MarkersAreClean DEF InstallInv, CleanHands, Clean, CliAt
  <2>4. QED
    BY <2>2, <2>3 DEF InstallInv
<1>6. CASE InstallRecord(c)
  <2>1. /\ UNCHANGED <<file, crashed, composed, confirmed>> /\ cli[c].pc = "record"
        /\ cli'[c] = [pc |-> "file", text |-> cli[c].text]
        /\ record'.text = cli[c].text
    BY <1>2, <1>6 DEF InstallRecord, CliAt, write_record
  <2>2. InstallsMatch'
    BY <1>1, <2>1 DEF InstallInv, InstallsMatch, NothingHalfDone, CliAt
  <2>3. CleanHands'
    BY <1>1, <2>1 DEF InstallInv, CleanHands, Clean, CliAt
  <2>4. QED
    BY <2>2, <2>3 DEF InstallInv
<1>7. CASE InstallFile(c)
  <2>1. /\ UNCHANGED <<record, composed, confirmed>> /\ cli[c].pc = "file"
        /\ cli'[c] = [pc |-> "idle", text |-> Default]
        /\ file'.text = cli[c].text /\ cli[c].text \in Valid
    BY <1>0, <1>2, <1>7 DEF InstallFile, CliAt, write_file, CliStates
  <2>2. InstallsMatch'
    BY <1>1, <2>1 DEF InstallInv, InstallsMatch, NothingHalfDone, CliAt
  <2>3. CleanHands'
    BY <1>1, <2>1 DEF InstallInv, CleanHands, Clean, CliAt
  <2>4. QED
    BY <2>2, <2>3 DEF InstallInv
<1>8. CASE SignReview(c)
  <2>1. /\ UNCHANGED <<file, record, crashed, composed, confirmed>> /\ cli[c].pc = "idle"
        /\ cli'[c] = [pc |-> "review", text |-> file.text]
        /\ verify(file.text) # "Trusted"
    BY <1>2, <1>8 DEF SignReview, CliAt
  <2>2. hand # 0 \/ crashed = "torn"
    <3> SUFFICES ASSUME hand = 0, crashed # "torn" PROVE FALSE
      OBVIOUS
    <3>1. record.text = file.text
      BY <1>1, <2>1 DEF InstallInv, InstallsMatch, NothingHalfDone, CliAt
    <3>2. record # Missing
      BY DEF FollowInv, MissingIsDeleted
    <3>3. QED
      BY <2>1, <3>1, <3>2 DEF verify, Exists
  <2>3. InstallsMatch'
    BY <1>1, <2>1, <2>2 DEF InstallInv, InstallsMatch, NothingHalfDone, CliAt
  <2>4. CleanHands'
    BY <1>1, <2>1 DEF InstallInv, CleanHands, Clean, CliAt
  <2>5. QED
    BY <2>3, <2>4 DEF InstallInv
<1>9. CASE SignBless(c)
  <2>1. /\ UNCHANGED <<file, composed>> /\ cli[c].pc = "review"
        /\ cli'[c] = [pc |-> "idle", text |-> Default]
        /\ record'.text = file.text /\ confirmed' = confirmed \cup {cli[c].text}
    BY <1>2, <1>9 DEF SignBless, CliAt, write_record
  <2>2. hand # 0 \/ crashed = "torn"
    BY <2>1 DEF InstallInv, InstallsMatch, CliAt
  <2>3. \A text : Clean(text) => Clean(text)'
    BY <2>1 DEF Clean
  <2>4. ASSUME hand <= 1, crashed = "no"
        PROVE  file.text \cap HandRules \subseteq UNION confirmed'
    BY <2>1, <2>4 DEF InstallInv, CleanHands, Clean, CliAt
  <2>5. InstallsMatch'
    BY <1>1, <2>1 DEF InstallInv, InstallsMatch, NothingHalfDone, CliAt
  <2>6. CleanHands'
    <3>1. ASSUME hand <= 1, crashed = "no"
          PROVE  /\ \A text \in composed' : Clean(text)'
                 /\ Clean(record.text)'
      BY <2>1, <2>3, <2>4, <3>1 DEF InstallInv, CleanHands, Clean
    <3>2. QED
      BY <1>1, <2>1, <2>2, <3>1 DEF CleanHands, CliAt
  <2>7. QED
    BY <2>5, <2>6 DEF InstallInv
<1>10. CASE CliEnds(c)
  <2>1. /\ UNCHANGED <<file, record, composed, confirmed>>
        /\ cli'[c] = [pc |-> "idle", text |-> Default]
        /\ \/ cli[c].pc = "review" /\ crashed' = crashed
           \/ cli[c].pc = "record" /\ crashed' = crashed
           \/ cli[c].pc = "file" /\ crashed' = "torn"
    BY <1>2, <1>10 DEF CliEnds, CliAt
  <2>2. InstallsMatch'
    BY <1>1, <2>1 DEF InstallInv, InstallsMatch, NothingHalfDone, CliAt
  <2>3. CleanHands'
    BY <1>1, <2>1 DEF InstallInv, CleanHands, Clean, CliAt
  <2>4. QED
    BY <2>2, <2>3 DEF InstallInv
<1>11. QED
  BY <1>3, <1>4, <1>5, <1>6, <1>7, <1>8, <1>9, <1>10 DEF CliStep

\* Every step keeps the invariant while commands run one at a time.
LEMMA InstallStep ==
    FollowInv /\ OneAtATime /\ OneAtATime' /\ InstallInv /\ [Next]_vars => InstallInv'
<1> SUFFICES ASSUME FollowInv, OneAtATime, OneAtATime', InstallInv, [Next]_vars
             PROVE  InstallInv'
  OBVIOUS
<1>0. TypeOK /\ hand \in Nat
  BY MtimeOfMissing DEF FollowInv
<1>1. ASSUME UNCHANGED <<file, record, cli, hand, crashed, composed, confirmed>>
      PROVE  InstallInv'
  BY <1>1 DEF InstallInv, InstallsMatch, CleanHands, Clean, NothingHalfDone, CliAt
<1>2. CASE UNCHANGED vars
  BY <1>1, <1>2 DEF vars
<1>3. ASSUME NEW p \in Proxies, ProxyStep(p)
      PROVE  InstallInv'
  <2>1. UNCHANGED <<cli, hand, crashed, composed, confirmed>>
    BY <1>3 DEF ProxyStep, Boot, RefreshStatPolicy, RefreshStatSig, ReadText, MaterializeRecord,
                MaterializeFile, VerifyText, BootStat, Dropped, Stop, Others
  <2>2. CASE UNCHANGED <<file, record>>
    BY <1>1, <2>1, <2>2
  <2>3. CASE ~UNCHANGED <<file, record>>
    <3>1. hand >= 2
      BY <1>0, <1>3, <2>3, ProxyDiskStep DEF FollowInv, MissingIsDeleted
    <3>2. QED
      BY <1>0, <2>1, <3>1 DEF InstallInv, InstallsMatch, CleanHands
  <2>4. QED
    BY <2>2, <2>3
<1>4. CASE ByHand
  <2>1. /\ hand' = hand + 1 /\ UNCHANGED <<cli, crashed, composed, confirmed>>
        /\ record' = record \/ record' = Missing \/ record'.text = Garbled
    BY <1>4 DEF ByHand
  <2>2. InstallsMatch'
    BY <1>0, <2>1 DEF InstallsMatch
  <2>3. CleanHands'
    <3> SUFFICES ASSUME hand' <= 1, crashed = "no"
                 PROVE  /\ \A text \in composed : Clean(text)
                        /\ record'.text \cap HandRules \subseteq UNION confirmed
                        /\ \A c \in Clis :
                              /\ cli[c].pc \in {"record", "file", "gate"} => Clean(cli[c].text)
                              /\ ~CliAt(c, "review")
      BY <1>0, <2>1 DEF CleanHands, Clean, CliAt
    <3>1. hand = 0 /\ hand <= 1
      BY <1>0, <2>1
    <3>2. QED
      BY <2>1, <3>1, MarkersAreClean DEF InstallInv, InstallsMatch, CleanHands, Clean, CliAt
  <2>4. QED
    BY <2>2, <2>3 DEF InstallInv
<1>5. CASE Next
  BY <1>3, <1>4, <1>5, CommandInstallStep DEF Next, ProxyStep, CliStep
<1>6. QED
  BY <1>2, <1>5

LEMMA InstallInit == Init => InstallInv
<1> SUFFICES ASSUME Init PROVE InstallInv
  OBVIOUS
<1>1. /\ file.text = Default /\ record.text = Default /\ composed = {Default}
      /\ \A c \in Clis : cli[c].pc = "idle"
  BY DEF Init, IdleCli
<1>2. Default \in Valid /\ Clean(Default)
  BY ValidTexts, MarkersAreClean
<1>3. QED
  BY <1>1, <1>2 DEF InstallInv, InstallsMatch, CleanHands, CliAt

LEMMA Installed == Spec /\ []OneAtATime => []InstallInv
BY InstallInit, InstallStep, Followed, PTL DEF Spec

\* "So the file on disk always loads": as long as commands run one at a time
\* and nobody touches the files by hand, the policy on disk parses and is
\* trusted whenever no install is half done, after any number of edits and
\* resets and whatever the proxies do; and if a command died between record
\* and policy, again as soon as a later one has run to its end.
THEOREM PolicyAlwaysLoads == Spec /\ []OneAtATime => []AlwaysLoads
<1>1. FollowInv /\ InstallInv => AlwaysLoads
  BY DEF FollowInv, MissingIsDeleted, InstallInv, InstallsMatch, AlwaysLoads, verify, Exists
<1>2. QED
  BY <1>1, Followed, Installed, PTL

\* The CLI "cannot silently launder a tamper": as long as commands run one at
\* a time and none dies half way, a rule that one hand wrote into the file or
\* the record reaches a text the CLI installs only through a text that a human
\* confirmed, however the edit, the review and the hand interleave.
THEOREM TamperNotLaundered == Spec /\ []OneAtATime => []NotLaundered
<1>1. InstallInv => NotLaundered
  BY DEF InstallInv, CleanHands, Clean, NotLaundered
<1>2. QED
  BY <1>1, Installed, PTL
=============================================================================

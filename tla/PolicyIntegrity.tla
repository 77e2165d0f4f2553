-------------------------- MODULE PolicyIntegrity --------------------------
(***************************************************************************)
(* Which policy a proxy enforces: the integrity record of                  *)
(* src/src/integrity.rs, Policy::load_trusted, the policy part of          *)
(* Engine::boot and Engine::refresh, and the CLI commands that write       *)
(* policy.toml (policy_edit.rs, `policy sign`, `policy reset`), all of     *)
(* them processes of their own that share two files and no lock.           *)
(*                                                                         *)
(* A policy text is the set of the rules in it; Broken is text that does   *)
(* not parse.  A record holds the text its MAC authenticates: a MAC cannot *)
(* be forged, so text is trusted iff it is the record's.  An mtime is the  *)
(* number of the write, 0 for no file.                                     *)
(***************************************************************************)
EXTENDS Naturals, FiniteSets

CONSTANTS
    Proxies,     \* proxy processes
    Running,     \* those that are up at the start
    Clis,        \* `decoyrail policy ...` commands in flight at the same time
    CliRules,    \* rules CLI commands add and remove
    HandRules,   \* rules somebody writes with an editor
    MaxWrites,   \* bound on the writes of files
    MaxHand,     \* bound on what happens to the files by hand
    Faults       \* which of FaultKinds may happen

FaultKinds == {"cli", "proxy", "hangup"}

Default == {}
Broken  == {"broken"}
Texts   == (SUBSET (CliRules \cup HandRules)) \cup {Broken}
Valid   == Texts \ {Broken}

Missing == [text |-> {"missing"}, mtime |-> 0]
Garbled == {"garbled"}

VARIABLES
    file,      \* policy.toml: text and mtime
    record,    \* policy.toml.sig: the text it authenticates and mtime
    writes,    \* how many writes there have been
    proxy,     \* proxy[p]
    cli,       \* cli[c]
    hand,      \* how often a file was changed by hand
    crashed,   \* ghost: has a CLI command died half way, and was it mended since?
    blessed,   \* ghost: the texts a record was written for
    composed,  \* ghost: the texts the CLI put together on a trusted file
    confirmed  \* ghost: the texts a human said yes to

vars == <<file, record, writes, proxy, cli, hand, crashed, blessed, composed, confirmed>>

IdleCli == [pc |-> "idle", text |-> Default]

Down == [pc |-> "down", booting |-> FALSE, st_policy |-> 0, st_sig |-> 0, stat |-> 0,
         text |-> Default, policy |-> Default, outcome |-> "none"]

Init ==
    /\ file = [text |-> Default, mtime |-> 1]
    /\ record = [text |-> Default, mtime |-> 1]
    /\ writes = 1
    /\ proxy = [p \in Proxies |-> IF p \in Running
                                  THEN [Down EXCEPT !.pc = "serving", !.st_policy = 1,
                                                    !.st_sig = 1, !.outcome = "ok"]
                                  ELSE Down]
    /\ cli = [c \in Clis |-> IdleCli]
    /\ hand = 0
    /\ crashed = "no"
    /\ blessed = {Default}
    /\ composed = {Default}
    /\ confirmed = {}

Exists(f) == f # Missing

\* integrity::verify
verify(text) ==
    IF ~Exists(record) THEN "NoRecord"
    ELSE IF record.text = text THEN "Trusted" ELSE "Mismatch"

\* atomic_write of the record, and of the policy.
write_record(text) ==
    /\ writes < MaxWrites
    /\ writes' = writes + 1
    /\ record' = [text |-> text, mtime |-> writes']
    /\ blessed' = blessed \cup {text}
    /\ UNCHANGED file

write_file(text) ==
    /\ writes < MaxWrites
    /\ writes' = writes + 1
    /\ file' = [text |-> text, mtime |-> writes']
    /\ UNCHANGED <<record, blessed>>

-----------------------------------------------------------------------------
(***************************************************************************)
(* A proxy: Engine::boot and Engine::refresh.                              *)
(***************************************************************************)
ProxyAt(p, label) == proxy[p].pc = label

Others == <<cli, hand, crashed, composed, confirmed>>

Boot(p) ==
    /\ ProxyAt(p, "down")
    /\ proxy' = [proxy EXCEPT ![p].pc = "read", ![p].booting = TRUE]
    /\ UNCHANGED <<file, record, writes, blessed>> /\ UNCHANGED Others

RefreshStatPolicy(p) ==
    /\ ProxyAt(p, "serving")
    /\ proxy' = [proxy EXCEPT ![p].pc = "stat", ![p].stat = file.mtime]
    /\ UNCHANGED <<file, record, writes, blessed>> /\ UNCHANGED Others

\* Variant: the record's mtime is not watched.
RefreshStatPolicyOnly(p) ==
    /\ ProxyAt(p, "stat")
    /\ IF proxy[p].stat # proxy[p].st_policy
       THEN proxy' = [proxy EXCEPT ![p].pc = "read", ![p].st_policy = proxy[p].stat]
       ELSE proxy' = [proxy EXCEPT ![p].pc = "serving", ![p].st_sig = record.mtime]
    /\ UNCHANGED <<file, record, writes, blessed>> /\ UNCHANGED Others

\* Both mtimes are remembered before anything is read.
RefreshStatSig(p) ==
    /\ ProxyAt(p, "stat")
    /\ IF proxy[p].stat # proxy[p].st_policy \/ record.mtime # proxy[p].st_sig
       THEN proxy' = [proxy EXCEPT ![p].pc = "read",
                                   ![p].st_policy = proxy[p].stat,
                                   ![p].st_sig = record.mtime]
       ELSE proxy' = [proxy EXCEPT ![p].pc = "serving"]
    /\ UNCHANGED <<file, record, writes, blessed>> /\ UNCHANGED Others

\* A load is over: a boot that failed refuses to start, a refresh keeps the
\* policy it has and records why.
Loaded(p, outcome, policy) ==
    proxy' = [proxy EXCEPT ![p].pc = IF ~proxy[p].booting THEN "serving"
                                     ELSE IF outcome = "ok" THEN "booted" ELSE "down",
                           ![p].policy = policy,
                           ![p].outcome = outcome]

\* read_or_materialize: a missing policy is an edit if there is a record,
\* and a fresh home if there is none.
ReadText(p) ==
    /\ ProxyAt(p, "read")
    /\ IF Exists(file)
       THEN proxy' = [proxy EXCEPT ![p].pc = "verify", ![p].text = file.text]
       ELSE IF Exists(record) THEN Loaded(p, "tamper", proxy[p].policy)
       ELSE proxy' = [proxy EXCEPT ![p].pc = "materialize"]
    /\ UNCHANGED <<file, record, writes, blessed>> /\ UNCHANGED Others

MaterializeRecord(p) ==
    /\ ProxyAt(p, "materialize")
    /\ write_record(Default)
    /\ proxy' = [proxy EXCEPT ![p].pc = "materialize2"]
    /\ UNCHANGED Others

MaterializeFile(p) ==
    /\ ProxyAt(p, "materialize2")
    /\ write_file(Default)
    /\ proxy' = [proxy EXCEPT ![p].pc = "read"]
    /\ UNCHANGED Others

\* Variant: the file is verified, not the text that was read from it.
VerifyFile(p) ==
    /\ ProxyAt(p, "verify")
    /\ LET text == proxy[p].text IN
       IF verify(file.text) # "Trusted" THEN Loaded(p, "tamper", proxy[p].policy)
       ELSE IF text = Broken THEN Loaded(p, "alert", proxy[p].policy)
       ELSE Loaded(p, "ok", text)
    /\ UNCHANGED <<file, record, writes, blessed>> /\ UNCHANGED Others

\* The rest of load_trusted.
VerifyText(p) ==
    /\ ProxyAt(p, "verify")
    /\ LET text == proxy[p].text IN
       IF verify(text) # "Trusted" THEN Loaded(p, "tamper", proxy[p].policy)
       ELSE IF text = Broken THEN Loaded(p, "alert", proxy[p].policy)
       ELSE Loaded(p, "ok", text)
    /\ UNCHANGED <<file, record, writes, blessed>> /\ UNCHANGED Others

\* The client of the request that refreshes hangs up while refresh waits to
\* replace the policy, or for the log to report the failure: hyper drops it.
Dropped(p) ==
    /\ "hangup" \in Faults
    /\ ~proxy[p].booting
    /\ \/ ProxyAt(p, "verify")
       \/ ProxyAt(p, "read") /\ ~Exists(file) /\ Exists(record)
    /\ Loaded(p, "dropped", proxy[p].policy)
    /\ UNCHANGED <<file, record, writes, blessed>> /\ UNCHANGED Others

\* The end of boot: the mtimes the next refresh compares with.
BootStat(p) ==
    /\ ProxyAt(p, "booted")
    /\ proxy' = [proxy EXCEPT ![p].pc = "serving", ![p].booting = FALSE,
                              ![p].st_policy = file.mtime, ![p].st_sig = record.mtime,
                              ![p].outcome = "boot"]
    /\ UNCHANGED <<file, record, writes, blessed>> /\ UNCHANGED Others

Stop(p) ==
    /\ "proxy" \in Faults
    /\ proxy[p] # Down
    /\ proxy' = [proxy EXCEPT ![p] = Down]
    /\ UNCHANGED <<file, record, writes, blessed>> /\ UNCHANGED Others

-----------------------------------------------------------------------------
(***************************************************************************)
(* CLI commands.                                                           *)
(***************************************************************************)
CliAt(c, label) == cli[c].pc = label
CliGoto(c, label, text) == cli' = [cli EXCEPT ![c] = [pc |-> label, text |-> text]]

\* A command has written what it had to write: record and policy are a pair
\* again, whatever an earlier one that died left behind.
Mended == crashed' = IF crashed = "torn" THEN "mended" ELSE crashed

\* PolicyDoc::load, and the edit of the document it read.
EditLoad(c) ==
    /\ CliAt(c, "idle")
    /\ Exists(file) /\ file.text \in Valid
    /\ \E rule \in CliRules : \E new \in {file.text \cup {rule}, file.text \ {rule}} :
          CliGoto(c, "gate", new)
    /\ UNCHANGED <<file, record, writes, proxy, hand, crashed, blessed, composed, confirmed>>

\* Variant: any file may be edited.
EditUngated(c) ==
    /\ CliAt(c, "gate")
    /\ CliGoto(c, "record", cli[c].text)
    /\ composed' = composed \cup {cli[c].text}
    /\ UNCHANGED <<file, record, writes, proxy, hand, crashed, blessed, confirmed>>

\* write_policy: the file being edited must itself be trusted.
EditGate(c) ==
    /\ CliAt(c, "gate")
    /\ IF Exists(file) /\ verify(file.text) # "Trusted"
       THEN CliGoto(c, "idle", Default) /\ UNCHANGED composed
       ELSE CliGoto(c, "record", cli[c].text) /\ composed' = composed \cup {cli[c].text}
    /\ UNCHANGED <<file, record, writes, proxy, hand, crashed, blessed, confirmed>>

\* `policy reset` installs the shipped default over anything.
Reset(c) ==
    /\ CliAt(c, "idle")
    /\ CliGoto(c, "record", Default)
    /\ UNCHANGED <<file, record, writes, proxy, hand, crashed, blessed, composed, confirmed>>

\* Variant: the file is replaced and no record is written.
InstallUnrecorded(c) ==
    /\ CliAt(c, "record")
    /\ CliGoto(c, "file", cli[c].text)
    /\ UNCHANGED <<file, record, writes, blessed, proxy, hand, crashed, composed, confirmed>>

\* install: the record, then the file.
InstallRecord(c) ==
    /\ CliAt(c, "record")
    /\ write_record(cli[c].text)
    /\ CliGoto(c, "file", cli[c].text)
    /\ UNCHANGED <<proxy, hand, crashed, composed, confirmed>>

InstallFile(c) ==
    /\ CliAt(c, "file")
    /\ write_file(cli[c].text)
    /\ CliGoto(c, "idle", Default)
    /\ Mended
    /\ UNCHANGED <<proxy, hand, composed, confirmed>>

\* `policy sign` shows an untrusted file that parses ...
SignReview(c) ==
    /\ CliAt(c, "idle")
    /\ Exists(file) /\ file.text \in Valid
    /\ verify(file.text) # "Trusted"
    /\ CliGoto(c, "review", file.text)
    /\ UNCHANGED <<file, record, writes, proxy, hand, crashed, blessed, composed, confirmed>>

\* ... and blesses the file once a human has said yes to what was shown.
SignBless(c) ==
    /\ CliAt(c, "review")
    /\ Exists(file) /\ file.text \in Valid
    /\ write_record(file.text)
    /\ confirmed' = confirmed \cup {cli[c].text}
    /\ CliGoto(c, "idle", Default)
    /\ Mended
    /\ UNCHANGED <<proxy, hand, composed>>

\* The human says no, a step fails, or the command is interrupted, half way
\* if the record is written and the policy is not.
CliEnds(c) ==
    /\ \/ CliAt(c, "review") /\ UNCHANGED crashed
       \/ "cli" \in Faults /\ CliAt(c, "record") /\ UNCHANGED crashed
       \/ "cli" \in Faults /\ CliAt(c, "file") /\ crashed' = "torn"
    /\ CliGoto(c, "idle", Default)
    /\ UNCHANGED <<file, record, writes, proxy, hand, blessed, composed, confirmed>>

-----------------------------------------------------------------------------
\* By hand: an editor, a deletion, a mangled record.
ByHand ==
    /\ hand < MaxHand
    /\ hand' = hand + 1
    /\ \/ Exists(file) /\ file' = Missing /\ UNCHANGED <<record, writes>>
       \/ Exists(record) /\ record' = Missing /\ UNCHANGED <<file, writes>>
       \/ /\ writes < MaxWrites /\ writes' = writes + 1
          /\ \/ /\ \E text \in Texts \ {file.text} : file' = [text |-> text, mtime |-> writes']
                /\ UNCHANGED record
             \/ record' = [text |-> Garbled, mtime |-> writes'] /\ UNCHANGED file
    /\ UNCHANGED <<proxy, cli, crashed, blessed, composed, confirmed>>

Next ==
    \/ \E p \in Proxies :
          \/ Boot(p) \/ RefreshStatPolicy(p) \/ RefreshStatSig(p) \/ ReadText(p)
          \/ MaterializeRecord(p) \/ MaterializeFile(p) \/ VerifyText(p) \/ BootStat(p)
          \/ Dropped(p) \/ Stop(p)
    \/ \E c \in Clis :
          \/ EditLoad(c) \/ EditGate(c) \/ Reset(c) \/ InstallRecord(c) \/ InstallFile(c)
          \/ SignReview(c) \/ SignBless(c) \/ CliEnds(c)
    \/ ByHand

Spec == Init /\ [][Next]_vars

-----------------------------------------------------------------------------
(***************************************************************************)
(* Properties.                                                             *)
(***************************************************************************)
ASSUME BoundsAssumption == MaxWrites \in Nat \ {0} /\ MaxHand \in Nat
ASSUME RulesAssumption ==
    /\ \A r \in CliRules \cup HandRules : r \notin {"broken", "missing", "garbled"}
    /\ CliRules \cap HandRules = {}

Labels == {"down", "serving", "stat", "read", "materialize", "materialize2", "verify", "booted"}

ProxyStates ==
    [pc : Labels, booting : BOOLEAN, st_policy : 0..MaxWrites, st_sig : 0..MaxWrites,
     stat : 0..MaxWrites, text : Texts, policy : Valid,
     outcome : {"none", "boot", "ok", "tamper", "alert", "dropped"}]

CliStates == [pc : {"idle", "gate", "record", "file", "review"}, text : Valid]

\* The type of every variable.
TypeOK ==
    /\ file = Missing \/ file \in [text : Texts, mtime : 1..MaxWrites]
    /\ record = Missing \/ record \in [text : Texts \cup {Garbled}, mtime : 1..MaxWrites]
    /\ writes \in 1..MaxWrites
    /\ proxy \in [Proxies -> ProxyStates]
    /\ cli \in [Clis -> CliStates]
    /\ hand \in 0..MaxHand
    /\ crashed \in {"no", "torn", "mended"}
    /\ blessed \subseteq Texts /\ composed \subseteq Texts /\ confirmed \subseteq Texts

\* docs/policy.md: "the proxy loads only a policy that Decoyrail itself wrote
\* or that you blessed".  The policy in force was authenticated as a whole,
\* though the files change by hand and by the CLI between any two reads.
LoadedWasBlessed ==
    \A p \in Proxies : proxy[p].pc # "down" => proxy[p].policy \in blessed

\* What a load of the files as they are comes to.
OutcomeOf ==
    IF ~Exists(file) \/ verify(file.text) # "Trusted" THEN "tamper"
    ELSE IF file.text = Broken THEN "alert" ELSE "ok"

NothingHalfDone == \A c \in Clis : ~CliAt(c, "file")

\* ReloadState watches the two mtimes "as a pair".  A running proxy that sees
\* nothing to reload, even between the two writes of an install, enforces the
\* policy on disk if that is trusted, and has raised the alarm about exactly
\* these files if it is not, if its last reload since it booted was not
\* dropped.  A file that
\* is deleted, restored and deleted between two requests has no mtime both
\* times and goes unseen; nothing is said of that.
FollowsFiles ==
    \A p \in Proxies :
       (/\ ProxyAt(p, "serving")
        /\ proxy[p].outcome \notin {"boot", "dropped"}
        /\ \/ Exists(file) /\ Exists(record)
           \/ (Exists(file) \/ Exists(record)) /\ hand <= 1
        /\ proxy[p].st_policy = file.mtime /\ proxy[p].st_sig = record.mtime) =>
          /\ proxy[p].outcome = OutcomeOf
          /\ OutcomeOf = "ok" => proxy[p].policy = file.text

\* write_policy's comment: "so the file on disk always loads".  With the CLI
\* alone at work and nothing of it half done, the policy is trusted and parses.
\* A command that dies between record and policy leaves a pair that is
\* refused, and the next one that runs to its end mends it: a reset, or a sign
\* of the old policy.
AlwaysLoads ==
    (hand = 0 /\ crashed # "torn" /\ NothingHalfDone) =>
       verify(file.text) = "Trusted" /\ file.text \in Valid

\* docs/policy.md: CLI mutations "refuse to build on an untrusted file, so
\* they cannot silently launder a tamper".  After one change by hand, at any
\* point of a command's load, gate and install, with no command that died half
\* way, a hand-written rule goes into what the CLI installs only if it was in
\* a text that a human confirmed.
NotLaundered ==
    (hand <= 1 /\ crashed = "no") =>
       \A text \in composed : text \cap HandRules \subseteq UNION confirmed
============================================================================

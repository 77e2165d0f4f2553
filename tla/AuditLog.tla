------------------------------ MODULE AuditLog ------------------------------
(***************************************************************************)
(* The append-only, hash-chained audit log of src/src/audit.rs: several    *)
(* processes, each with its own Auditor, append to one file under an OS    *)
(* file lock, seal the head in a side file, and `decoyrail log --verify`   *)
(* reads the whole.                                                        *)
(*                                                                         *)
(* A file is a sequence of chunks, one per write: an event line, or what a *)
(* write that failed half way left behind.  A hash is the sequence of the  *)
(* payloads it commits to, i.e. SHA-256 without collisions.                *)
(***************************************************************************)
EXTENDS Naturals, Sequences, FiniteSets

CONSTANTS
    Procs,       \* auditors: `decoyrail run`, `decoyrail proxy`, CLI commands
    Entries,     \* what callers ask to record: body, esc, an, fp
    InitialLogs, \* the files that may be found at start, of older releases too
    Faults,      \* which of FaultKinds may happen
    MaxChunks,   \* bound on the length of the file
    MaxKinds,    \* bound on the kinds of fault that meet in one behaviour
    NoProc,      \* the lock has no exclusive holder
    NoEvent      \* nothing is being appended

FaultKinds == {"crash", "diskfull", "anchor", "loss", "edit"}

\* The generations of the hashed payload, oldest first.
Legacy      == 0
Pid         == 1
Analytics   == 2
Fingerprint == 3

ZERO_HASH == << >>
NoAnchor  == [seq |-> 0, hash |-> ZERO_HASH]

(***************************************************************************)
(* The fields of an event the hash treats alike are one field here: `body` *)
(* for ts .. note, `an` for sid .. req_seq.  `escalated` is stored with    *)
(* the event.                                                              *)
(***************************************************************************)
NoPid == "pid0"
None  == "none"

Bodies    == {e.body : e \in Entries}
Payloads  == [seq : Nat, body : Bodies, pid : Procs \cup {NoPid, "absent"},
              an : {None, "some", "absent"}, fp : {None, "some", "absent"}]
Hashes    == Seq(Payloads)
Events    == [seq : Nat, body : Bodies, esc : BOOLEAN,
              pid : Procs \cup {NoPid}, an : {None, "some"}, fp : {None, "some"},
              prev_hash : Hashes, hash : Hashes]
Chunks    == [kind : {"line", "part", "nonl"}, ev : Events]

\* The JSON array a generation hashes; a generation that lacks a field has
\* a shorter array, here a field that is absent.
Payload(ev, version) ==
    [seq  |-> ev.seq,
     body |-> ev.body,
     pid  |-> IF version >= Pid         THEN ev.pid ELSE "absent",
     an   |-> IF version >= Analytics   THEN ev.an  ELSE "absent",
     fp   |-> IF version >= Fingerprint THEN ev.fp  ELSE "absent"]

\* Variant: the pid left out of the payload.
chain_hash_no_pid(prev_hash, ev, version) ==
    Append(prev_hash, [Payload(ev, version) EXCEPT !.pid = "absent"])

chain_hash(prev_hash, ev, version) == Append(prev_hash, Payload(ev, version))

verify_link(prev_hash, ev) ==
    /\ ev.prev_hash = prev_hash
    /\ \/ ev.hash = chain_hash(prev_hash, ev, Fingerprint)
       \/ ev.fp = None /\ ev.hash = chain_hash(prev_hash, ev, Analytics)
       \/ /\ ev.fp = None /\ ev.an = None
          /\ \/ ev.hash = chain_hash(prev_hash, ev, Pid)
             \/ ev.pid = NoPid /\ ev.hash = chain_hash(prev_hash, ev, Legacy)

(***************************************************************************)
(* Chunks.  "line": an event and its newline.  "part": the first bytes of  *)
(* a line.  "nonl": a whole event whose newline is missing.  A chunk that  *)
(* follows one without a newline continues that line, and neither parses.  *)
(***************************************************************************)
Line(ev) == [kind |-> "line", ev |-> ev]

Parses(file, i) ==
    /\ file[i].kind \in {"line", "nonl"}
    /\ i > 1 => file[i - 1].kind = "line"
    /\ file[i].kind = "nonl" => i = Len(file)

Readable(file) == {i \in 1..Len(file) : Parses(file, i)}

\* Next seq and last hash, from the last line that parses.
recover_tail(file) ==
    IF Readable(file) = {}
    THEN [seq |-> 0, prev_hash |-> ZERO_HASH]
    ELSE LET last == CHOOSE i \in Readable(file) : \A j \in Readable(file) : j <= i
         IN  [seq |-> file[last].ev.seq + 1, prev_hash |-> file[last].ev.hash]

PrevHash(file, i) == IF i = 1 THEN ZERO_HASH ELSE file[i - 1].ev.hash

\* What `verify` says of a file it could open, and of the head anchor.
verify(file, anchor) ==
    IF \E i \in 1..Len(file) :
          /\ ~Parses(file, i)
          /\ \A j \in 1..(i - 1) : verify_link(PrevHash(file, j), file[j].ev)
    THEN "unparseable"
    ELSE IF \E i \in 1..Len(file) : ~verify_link(PrevHash(file, i), file[i].ev)
    THEN "broken"
    ELSE IF anchor = NoAnchor THEN "ok"
    ELSE IF file = << >> THEN "emptied"
    ELSE LET last == file[Len(file)].ev
         IN  IF last.seq = anchor.seq /\ last.hash = anchor.hash
             THEN "ok" ELSE "truncated"

-----------------------------------------------------------------------------
VARIABLES
    exists,    \* audit.jsonl is there
    log,       \* its chunks
    head,      \* audit.head
    lock,      \* the process holding the exclusive lock on the log
    pc,        \* pc[p]: where p is
    auditor,   \* auditor[p]: seq, prev_hash and known_len
    pending,   \* pending[p]: the event p is appending
    vpc,       \* the verifier: "idle", "missing", "opened"
    verdict,   \* the last answer of the verifier
    acked,     \* ghost: events whose append returned Ok, now or before the start
    found,     \* ghost: the log found at start
    happened   \* ghost: the faults that have happened

vars == <<exists, log, head, lock, pc, auditor, pending, vpc, verdict,
          acked, found, happened>>

Closed  == [seq |-> 0, prev_hash |-> ZERO_HASH, known_len |-> 0]

Init ==
    /\ log \in InitialLogs
    /\ exists = (log # << >>)
    /\ head \in {NoAnchor} \cup
          {[seq |-> log[i].ev.seq, hash |-> log[i].ev.hash] : i \in {Len(log)} \ {0}}
    /\ lock = NoProc
    /\ pc = [p \in Procs |-> "down"]
    /\ auditor = [p \in Procs |-> Closed]
    /\ pending = [p \in Procs |-> NoEvent]
    /\ vpc = "idle"
    /\ verdict = "none"
    /\ acked = {log[i].ev : i \in 1..Len(log)}
    /\ found = log
    /\ happened = {}

MayHappen(fault) ==
    fault \in Faults /\ Cardinality(happened \cup {fault}) <= MaxKinds

\* Auditor::open takes no lock: the stat and the scan are two steps.
OpenStat(p) ==
    /\ pc[p] = "down"
    /\ pc' = [pc EXCEPT ![p] = "stat"]
    /\ auditor' = [auditor EXCEPT ![p].known_len = Len(log)]
    /\ UNCHANGED <<exists, log, head, lock, pending, vpc, verdict, acked, happened, found>>

OpenScan(p) ==
    /\ pc[p] = "stat"
    /\ LET tail == recover_tail(log) IN
       auditor' = [auditor EXCEPT ![p].seq = tail.seq, ![p].prev_hash = tail.prev_hash]
    /\ pc' = [pc EXCEPT ![p] = "idle"]
    /\ UNCHANGED <<exists, log, head, lock, pending, vpc, verdict, acked, happened, found>>

\* Variant: the length is never compared.
NotResynced(p) == [seq |-> auditor[p].seq, prev_hash |-> auditor[p].prev_hash]

\* Seq and prev_hash the next event chains from: the cached ones, unless the
\* file's length says somebody else wrote.
Resynced(p) ==
    IF Len(log) # auditor[p].known_len
    THEN recover_tail(log)
    ELSE [seq |-> auditor[p].seq, prev_hash |-> auditor[p].prev_hash]

\* The event append builds from an entry, hashed with the newest payload.
Sealed(p, at, entry) ==
    LET ev == [seq |-> at.seq, body |-> entry.body, esc |-> entry.esc, pid |-> p,
               an |-> entry.an, fp |-> entry.fp,
               prev_hash |-> at.prev_hash, hash |-> ZERO_HASH]
    IN  [ev EXCEPT !.hash = chain_hash(at.prev_hash, ev, Fingerprint)]

\* append, up to the write: open (creating the file), lock, resync, seal.
AppendLock(p, entry) ==
    /\ pc[p] = "idle"
    /\ lock = NoProc
    /\ Len(log) < MaxChunks
    /\ exists' = TRUE
    /\ lock' = p
    /\ LET at == Resynced(p) IN
       /\ auditor' = [auditor EXCEPT ![p].seq = at.seq, ![p].prev_hash = at.prev_hash]
       /\ pending' = [pending EXCEPT ![p] = Sealed(p, at, entry)]
    /\ pc' = [pc EXCEPT ![p] = "locked"]
    /\ UNCHANGED <<log, head, vpc, verdict, acked, happened, found>>

\* Variant: the file is opened to be rewritten, not appended to.
TruncatingWrite(p) ==
    /\ pc[p] = "locked"
    /\ log' = << Line(pending[p]) >>
    /\ pc' = [pc EXCEPT ![p] = "written"]
    /\ UNCHANGED <<exists, head, lock, auditor, pending, vpc, verdict, acked, happened, found>>

AppendWrite(p) ==
    /\ pc[p] = "locked"
    /\ log' = Append(log, Line(pending[p]))
    /\ pc' = [pc EXCEPT ![p] = "written"]
    /\ UNCHANGED <<exists, head, lock, auditor, pending, vpc, verdict, acked, happened, found>>

\* write_all fails part way (the disk is full): append returns the error, and
\* whatever was written stays.
AppendWriteFails(p) ==
    /\ MayHappen("diskfull")
    /\ pc[p] = "locked"
    /\ \/ UNCHANGED log
       \/ \E kind \in {"part", "nonl"} :
             log' = Append(log, [kind |-> kind, ev |-> pending[p]])
    /\ pc' = [pc EXCEPT ![p] = "idle"]
    /\ pending' = [pending EXCEPT ![p] = NoEvent]
    /\ lock' = NoProc
    /\ happened' = happened \cup {"diskfull"}
    /\ UNCHANGED <<exists, head, auditor, vpc, verdict, acked, found>>

\* write_head_anchor is best effort.
write_head_anchor(ev) ==
    \/ /\ head' = [seq |-> ev.seq, hash |-> ev.hash]
       /\ UNCHANGED happened
    \/ /\ MayHappen("anchor")
       /\ UNCHANGED head
       /\ happened' = happened \cup {"anchor"}

\* The rest of append: anchor, remember the new head, release the lock.
AppendSeal(p) ==
    /\ pc[p] = "written"
    /\ write_head_anchor(pending[p])
    /\ auditor' = [auditor EXCEPT ![p] =
                      [seq |-> @.seq + 1, prev_hash |-> pending[p].hash,
                       known_len |-> Len(log)]]
    /\ acked' = acked \cup {pending[p]}
    /\ pending' = [pending EXCEPT ![p] = NoEvent]
    /\ lock' = NoProc
    /\ pc' = [pc EXCEPT ![p] = "idle"]
    /\ UNCHANGED <<exists, log, vpc, verdict, found>>

\* A process dies; the OS drops its lock.
Crash(p) ==
    /\ MayHappen("crash")
    /\ pc[p] # "down"
    /\ pc' = [pc EXCEPT ![p] = "down"]
    /\ auditor' = [auditor EXCEPT ![p] = Closed]
    /\ pending' = [pending EXCEPT ![p] = NoEvent]
    /\ lock' = IF lock = p THEN NoProc ELSE lock
    /\ happened' = happened \cup {"crash"}
    /\ UNCHANGED <<exists, log, head, vpc, verdict, acked, found>>

\* verify opens the file first, and takes the shared lock on what it opened.
VerifyOpen ==
    /\ vpc = "idle"
    /\ vpc' = IF exists THEN "opened" ELSE "missing"
    /\ UNCHANGED <<exists, log, head, lock, pc, auditor, pending, verdict, acked, happened, found>>

VerifyMissing ==
    /\ vpc = "missing"
    /\ verdict' = IF head = NoAnchor THEN "ok" ELSE "deleted"
    /\ vpc' = "idle"
    /\ UNCHANGED <<exists, log, head, lock, pc, auditor, pending, acked, happened, found>>

\* Variant: no shared lock.
VerifyUnlocked ==
    /\ vpc = "opened"
    /\ verdict' = verify(log, head)
    /\ vpc' = "idle"
    /\ UNCHANGED <<exists, log, head, lock, pc, auditor, pending, acked, happened, found>>

VerifyRead ==
    /\ vpc = "opened"
    /\ lock = NoProc
    /\ verdict' = verify(log, head)
    /\ vpc' = "idle"
    /\ UNCHANGED <<exists, log, head, lock, pc, auditor, pending, acked, happened, found>>

(***************************************************************************)
(* What happens to the file outside the program.  Loss: the last chunks    *)
(* are gone (nothing is fsynced; a restored backup), or the whole file.    *)
(* Edit: a field of a stored event is changed or put back to the default   *)
(* of an older release, or an event in the middle is dropped.  Bound: each *)
(* happens once.                                                           *)
(***************************************************************************)
MayHappenOnce(fault) == fault \notin happened /\ MayHappen(fault)

LoseTail ==
    /\ MayHappenOnce("loss")
    /\ lock = NoProc
    /\ \E n \in 0..(Len(log) - 1) : log' = SubSeq(log, 1, n)
    /\ happened' = happened \cup {"loss"}
    /\ UNCHANGED <<exists, head, lock, pc, auditor, pending, vpc, verdict, acked, found>>

\* The whole file is gone.  Bound: not while a verifier has it open.
DeleteLog ==
    /\ MayHappenOnce("loss")
    /\ lock = NoProc /\ vpc # "opened"
    /\ exists
    /\ exists' = FALSE
    /\ log' = << >>
    /\ happened' = happened \cup {"loss"}
    /\ UNCHANGED <<head, lock, pc, auditor, pending, vpc, verdict, acked, found>>

Altered(ev) ==
    {[ev EXCEPT !.body = entry.body] : entry \in Entries}
      \cup {[ev EXCEPT !.esc = ~@], [ev EXCEPT !.pid = NoPid],
            [ev EXCEPT !.an = None], [ev EXCEPT !.fp = None],
            [ev EXCEPT !.pid = NoPid, !.an = None, !.fp = None]}

EditEvent ==
    /\ MayHappenOnce("edit")
    /\ lock = NoProc
    /\ \E i \in 1..Len(log) :
          /\ log[i].kind = "line"
          /\ \E ev \in Altered(log[i].ev) \ {log[i].ev} : log' = [log EXCEPT ![i].ev = ev]
    /\ happened' = happened \cup {"edit"}
    /\ UNCHANGED <<exists, head, lock, pc, auditor, pending, vpc, verdict, acked, found>>

DropEvent ==
    /\ MayHappenOnce("edit")
    /\ lock = NoProc
    /\ \E i \in 1..(Len(log) - 1) :
          log' = SubSeq(log, 1, i - 1) \o SubSeq(log, i + 1, Len(log))
    /\ happened' = happened \cup {"edit"}
    /\ UNCHANGED <<exists, head, lock, pc, auditor, pending, vpc, verdict, acked, found>>

ProcStep(p) ==
    \/ OpenStat(p)
    \/ OpenScan(p)
    \/ \E entry \in Entries : AppendLock(p, entry)
    \/ AppendWrite(p)
    \/ AppendWriteFails(p)
    \/ AppendSeal(p)
    \/ Crash(p)

Next ==
    \/ \E p \in Procs : ProcStep(p)
    \/ VerifyOpen
    \/ VerifyMissing
    \/ VerifyRead
    \/ LoseTail
    \/ DeleteLog
    \/ EditEvent
    \/ DropEvent

Spec == Init /\ [][Next]_vars
-----------------------------------------------------------------------------
\* Whole lines, numbered from 0, each chained from the one before it.
Unforked(file) ==
    \A i \in 1..Len(file) :
       /\ file[i].kind = "line"
       /\ file[i].ev.seq = i - 1
       /\ verify_link(PrevHash(file, i), file[i].ev)

(***************************************************************************)
(* Assumptions on the constants: a file found at start is a log some       *)
(* release wrote, numbered from 0.                                         *)
(***************************************************************************)
ASSUME FaultsAssumption == Faults \subseteq FaultKinds
ASSUME BoundAssumption  == MaxChunks \in Nat /\ MaxKinds \in Nat
ASSUME ProcsAssumption  == {NoProc, NoPid, "absent"} \cap Procs = {}
ASSUME EntriesAssumption ==
    \A e \in Entries : e.esc \in BOOLEAN /\ e.an \in {None, "some"} /\ e.fp \in {None, "some"}
ASSUME InitialLogAssumption ==
    \A file \in InitialLogs : file \in Seq(Chunks) /\ Unforked(file)

-----------------------------------------------------------------------------
(***************************************************************************)
(* Properties.                                                             *)
(***************************************************************************)

\* The type of every variable.
TypeOK ==
    /\ exists \in BOOLEAN
    /\ log \in Seq(Chunks)
    /\ head \in [seq : Nat, hash : Hashes]
    /\ lock \in Procs \cup {NoProc}
    /\ pc \in [Procs -> {"down", "stat", "idle", "locked", "written"}]
    /\ auditor \in [Procs -> [seq : Nat, prev_hash : Hashes, known_len : Nat]]
    /\ pending \in [Procs -> Events \cup {NoEvent}]
    /\ vpc \in {"idle", "missing", "opened"}
    /\ verdict \in {"none", "ok", "unparseable", "broken", "emptied", "truncated", "deleted"}
    /\ acked \subseteq Events
    /\ found \in InitialLogs
    /\ happened \subseteq FaultKinds

\* Nothing worse has happened to the file than crashes and lost anchors.
Undamaged == happened \subseteq {"crash", "anchor"}

AckedInPlace ==
    \A ev \in acked : ev.seq + 1 \in 1..Len(log) /\ log[ev.seq + 1].ev = ev

HeadNamesEvent ==
    head # NoAnchor => /\ head.seq + 1 \in 1..Len(log)
                       /\ log[head.seq + 1].ev.hash = head.hash

\* The chain never forks, however processes open, append and die: the event
\* at position i carries seq i - 1 and chains from the one before it.  This
\* is what the exclusive lock, the known_len check and the stat-then-scan
\* order of Auditor::open are for.
ChainUnforked == Undamaged => Unforked(log)

\* An event whose append returned Ok stays where its seq says, unchanged,
\* whatever the other processes do afterwards (append, LockGuard).
AckedKept == Undamaged => AckedInPlace

(***************************************************************************)
(* The log as EventLog sees it: a record is what the hash covers of an     *)
(* event, a caller waits from the lock to the end of append, and its place *)
(* is the one its seq claims.                                              *)
(***************************************************************************)
RecordOf(ev) == [body |-> ev.body, pid |-> ev.pid, an |-> ev.an, fp |-> ev.fp]

Asking(p) ==
    IF pc[p] \in {"locked", "written"}
    THEN {[record |-> RecordOf(pending[p]), at |-> IF pc[p] = "written" THEN pending[p].seq + 1 ELSE 0]}
    ELSE {}

EventRecords == [body : Bodies, pid : Procs \cup {NoPid}, an : {None, "some"}, fp : {None, "some"}]
Recorded     == [i \in 1..Len(log) |-> RecordOf(log[i].ev)]

Promise == INSTANCE EventLog WITH
    Callers <- Procs,
    Records <- EventRecords,
    records <- Recorded,
    asking  <- [p \in Procs |-> Asking(p)],
    acked   <- {ev.seq + 1 : ev \in acked},
    damaged <- ~Undamaged

\* append is atomic across processes, and what it acknowledged is never lost,
\* moved or altered by the program: the detailed log implements EventLog.
AppendsAreAtomic == Promise!Spec

\* The anchor of write_head_anchor always names an event of the log: a crash
\* or a failed anchor write leaves it behind the log, never ahead of it.
HeadInLog == Undamaged => HeadNamesEvent

\* verify, racing appends, crashes, full disks and losses, raises no alarm
\* that healthy appends explain, with one exception: it finds no file, the
\* first event of a new log is appended and anchored, and it says "deleted".
\* A crash alone never makes it report a broken chain, and the truncation it
\* reports after a crash between a line and its anchor is healed by the next
\* append that returns.  A torn write is never silent: with nothing lost or
\* edited, a log that verifies has every acknowledged event at its place.
AlarmsHaveCause ==
    /\ verdict = "unparseable" => "diskfull" \in happened
    /\ verdict = "broken" => happened \cap {"diskfull", "loss", "edit"} # {}
    /\ verdict = "truncated" => happened # {}
    /\ verdict = "emptied" => "loss" \in happened
    /\ verdict = "deleted" => "loss" \in happened \/ (found = << >> /\ exists)
    /\ (/\ lock = NoProc /\ happened \subseteq {"crash"}
        /\ log # << >> /\ log[Len(log)].ev \in acked) => verify(log, head) = "ok"
    /\ (/\ lock = NoProc /\ happened \cap {"loss", "edit"} = {}
        /\ verify(log, head) = "ok") => AckedInPlace

\* What verify_link authenticates of an event.
Hashed(ev) == [seq |-> ev.seq, body |-> ev.body, pid |-> ev.pid, an |-> ev.an, fp |-> ev.fp]

\* An edit of a hashed field never verifies, rewriting newer fields to the
\* defaults an older payload generation would accept included; nor does an
\* event dropped from the middle (chain_hash, verify_link).
HashedEditDetected ==
    (lock = NoProc /\ happened \subseteq {"edit"} /\ verify(log, head) = "ok") =>
       {Hashed(log[i].ev) : i \in 1..Len(log)} = {Hashed(ev) : ev \in acked}
=============================================================================

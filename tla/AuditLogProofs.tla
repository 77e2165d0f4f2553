--------------------------- MODULE AuditLogProofs ---------------------------
(***************************************************************************)
(* Proofs about AuditLog, for any number of processes, any entries, any    *)
(* log found at start and any bound on its length.                         *)
(***************************************************************************)
EXTENDS AuditLog, SequenceTheorems, WellFoundedInduction, TLAPS

\* A process that is appending has an event to append.
PendingOK ==
    \A p \in Procs : pc[p] \in {"locked", "written"} => pending[p] \in Events

TypeInv == TypeOK /\ PendingOK

-----------------------------------------------------------------------------
(***************************************************************************)
(* The operators stay in their types.                                      *)
(***************************************************************************)

\* Appending to, and replacing an element of, a sequence over a set.
LEMMA AppendType ==
    ASSUME NEW S, NEW s \in Seq(S), NEW x \in S
    PROVE  Append(s, x) \in Seq(S)
OBVIOUS

LEMMA ReplaceType ==
    ASSUME NEW S, NEW s \in Seq(S), NEW i \in 1..Len(s), NEW x \in S
    PROVE  [s EXCEPT ![i] = x] \in Seq(S)
OBVIOUS

\* A payload of any generation is a payload, whatever event it is built from.
LEMMA PayloadType ==
    ASSUME NEW ev \in Events, NEW version \in Nat
    PROVE  Payload(ev, version) \in Payloads
BY DEF Payload, Payloads, Events, Pid, Analytics, Fingerprint

\* chain_hash extends a hash to a hash.
LEMMA ChainHashType ==
    ASSUME NEW prev \in Hashes, NEW ev \in Events, NEW version \in Nat
    PROVE  chain_hash(prev, ev, version) \in Hashes
BY PayloadType DEF chain_hash, Hashes

\* The event append seals is an event.
LEMMA SealedType ==
    ASSUME NEW p \in Procs, NEW entry \in Entries,
           NEW at \in [seq : Nat, prev_hash : Hashes]
    PROVE  Sealed(p, at, entry) \in Events
<1> DEFINE ev == [seq |-> at.seq, body |-> entry.body, esc |-> entry.esc, pid |-> p,
                  an |-> entry.an, fp |-> entry.fp,
                  prev_hash |-> at.prev_hash, hash |-> ZERO_HASH]
<1>1. ZERO_HASH \in Hashes
  BY DEF ZERO_HASH, Hashes
<1>2. ev \in Events
  BY <1>1, EntriesAssumption DEF Events, Bodies
<1>3. chain_hash(at.prev_hash, ev, Fingerprint) \in Hashes
  BY <1>2, ChainHashType DEF Fingerprint
<1>4. [ev EXCEPT !.hash = chain_hash(at.prev_hash, ev, Fingerprint)] \in Events
  BY <1>2, <1>3 DEF Events
<1>5. QED
  BY <1>4 DEF Sealed

\* A nonempty set of positions has a largest one.
LEMMA MaxExists ==
    ASSUME NEW n \in Nat, NEW S \in SUBSET (1..n), S # {}
    PROVE  \E i \in S : \A j \in S : j <= i
<1> DEFINE T == {k \in Nat : n - k \in S}
<1>1. T # {}
  <2>1. PICK i \in S : TRUE
    OBVIOUS
  <2>2. n - i \in T
    BY <2>1
  <2>3. QED
    BY <2>2
<1>2. PICK k \in T : \A y \in T : ~ (<<y, k>> \in OpToRel(<, Nat))
  <2> HIDE DEF T
  <2>1. T \subseteq Nat
    BY DEF T
  <2>2. QED
    BY <1>1, <2>1, NatLessThanWellFounded, WFMin
<1>3. ASSUME NEW j \in S PROVE j <= n - k
  <2>1. n - j \in T
    OBVIOUS
  <2>2. ~ (<<n - j, k>> \in OpToRel(<, Nat))
    BY <1>2, <2>1
  <2>3. ~ (n - j < k)
    BY <2>1, <2>2 DEF OpToRel
  <2>4. QED
    BY <2>3
<1>4. QED
  BY <1>3

\* recover_tail returns a sequence number and a hash.
LEMMA RecoverTailType ==
    ASSUME NEW file \in Seq(Chunks)
    PROVE  recover_tail(file) \in [seq : Nat, prev_hash : Hashes]
<1>1. ZERO_HASH \in Hashes
  BY DEF ZERO_HASH, Hashes
<1>2. CASE Readable(file) = {}
  BY <1>1, <1>2 DEF recover_tail
<1>3. CASE Readable(file) # {}
  <2> DEFINE last == CHOOSE i \in Readable(file) : \A j \in Readable(file) : j <= i
  <2>1. PICK m \in Readable(file) : \A j \in Readable(file) : j <= m
    <3>1. Len(file) \in Nat /\ Readable(file) \in SUBSET (1..Len(file))
      BY DEF Readable
    <3>2. QED
      BY <1>3, <3>1, MaxExists
  <2>2. last \in Readable(file)
    BY <2>1
  <2>3. file[last] \in Chunks
    BY <2>2 DEF Readable
  <2>4. QED
    BY <1>3, <2>3 DEF recover_tail, Chunks, Events
<1>4. QED
  BY <1>2, <1>3

\* An altered event still has the shape of one.
LEMMA AlteredType ==
    ASSUME NEW ev \in Events
    PROVE  Altered(ev) \subseteq Events
<1>1. \A entry \in Entries : [ev EXCEPT !.body = entry.body] \in Events
  BY DEF Events, Bodies
<1>2. /\ [ev EXCEPT !.esc = ~@] \in Events
      /\ [ev EXCEPT !.pid = NoPid] \in Events
      /\ [ev EXCEPT !.an = None] \in Events
      /\ [ev EXCEPT !.fp = None] \in Events
  BY DEF Events
<1>3. [ev EXCEPT !.pid = NoPid, !.an = None, !.fp = None] \in Events
  BY DEF Events
<1>4. QED
  BY <1>1, <1>2, <1>3 DEF Altered

\* verify answers one of its answers.
LEMMA VerifyType ==
    ASSUME NEW file, NEW anchor
    PROVE  verify(file, anchor) \in {"ok", "unparseable", "broken", "emptied", "truncated"}
BY DEF verify

-----------------------------------------------------------------------------
(***************************************************************************)
(* Type correctness, with every fault.                                     *)
(***************************************************************************)

\* Initially every variable has its type.
LEMMA TypeInit == Init => TypeInv
<1> SUFFICES ASSUME Init PROVE TypeInv
  OBVIOUS
<1>0. log \in Seq(Chunks)
  BY InitialLogAssumption DEF Init
<1>1. ZERO_HASH \in Hashes
  BY DEF ZERO_HASH, Hashes
<1>2. head \in [seq : Nat, hash : Hashes]
  <2>1. CASE head = NoAnchor
    BY <1>1, <2>1 DEF NoAnchor
  <2>2. CASE head # NoAnchor
    <3>1. PICK i \in {Len(log)} \ {0} :
             head = [seq |-> log[i].ev.seq, hash |-> log[i].ev.hash]
      BY <2>2 DEF Init
    <3>2. Len(log) \in Nat /\ i \in 1..Len(log)
      BY <1>0
    <3>3. log[i] \in Chunks
      BY <1>0, <3>2
    <3>4. log[i].ev \in Events
      BY <3>3 DEF Chunks
    <3>5. log[i].ev.seq \in Nat /\ log[i].ev.hash \in Hashes
      BY <3>4 DEF Events
    <3>6. QED
      BY <3>1, <3>5
  <2>3. QED
    BY <2>1, <2>2
<1>3. auditor \in [Procs -> [seq : Nat, prev_hash : Hashes, known_len : Nat]]
  BY <1>1 DEF Init, Closed
<1>4. acked \subseteq Events
  <2>1. \A i \in 1..Len(log) : log[i] \in Chunks
    BY <1>0
  <2>2. QED
    BY <2>1 DEF Init, Chunks
<1>5. QED
  BY <1>0, <1>2, <1>3, <1>4 DEF Init, TypeInv, TypeOK, PendingOK

\* Every step keeps the types; the interesting ones are the writes, which
\* need the event they write to be one.
LEMMA TypeStep == TypeInv /\ [Next]_vars => TypeInv'
<1> SUFFICES ASSUME TypeInv, [Next]_vars PROVE TypeInv'
  OBVIOUS
<1> USE DEF TypeInv, TypeOK, PendingOK
<1>0. ZERO_HASH \in Hashes
  BY DEF ZERO_HASH, Hashes
<1>1. ASSUME NEW p \in Procs, OpenStat(p) PROVE TypeInv'
  <2>1. Len(log) \in Nat
    OBVIOUS
  <2>2. auditor' \in [Procs -> [seq : Nat, prev_hash : Hashes, known_len : Nat]]
    BY <1>1, <2>1 DEF OpenStat
  <2>3. QED
    BY <1>1, <2>2 DEF OpenStat
<1>2. ASSUME NEW p \in Procs, OpenScan(p) PROVE TypeInv'
  BY <1>2, RecoverTailType, ZenonT(60) DEF OpenScan
<1>3. ASSUME NEW p \in Procs, NEW entry \in Entries, AppendLock(p, entry) PROVE TypeInv'
  <2>1. Resynced(p) \in [seq : Nat, prev_hash : Hashes]
    BY RecoverTailType DEF Resynced
  <2>2. Sealed(p, Resynced(p), entry) \in Events
    BY <2>1, SealedType
  <2>3. QED
    BY <1>3, <2>1, <2>2, ZenonT(60) DEF AppendLock
<1>4. ASSUME NEW p \in Procs, AppendWrite(p) PROVE TypeInv'
  <2>1. Line(pending[p]) \in Chunks
    BY <1>4 DEF AppendWrite, Line, Chunks
  <2>2. QED
    BY <1>4, <2>1 DEF AppendWrite
<1>5. ASSUME NEW p \in Procs, AppendWriteFails(p) PROVE TypeInv'
  <2>1. \A kind \in {"part", "nonl"} : [kind |-> kind, ev |-> pending[p]] \in Chunks
    BY <1>5 DEF AppendWriteFails, Chunks
  <2>2. log' \in Seq(Chunks)
    <3>1. CASE UNCHANGED log
      BY <3>1
    <3>2. ASSUME NEW kind \in {"part", "nonl"},
                 log' = Append(log, [kind |-> kind, ev |-> pending[p]])
          PROVE  log' \in Seq(Chunks)
      <4>1. [kind |-> kind, ev |-> pending[p]] \in Chunks
        BY <2>1
      <4>2. log \in Seq(Chunks)
        OBVIOUS
      <4>3. QED
        BY <3>2, <4>1, <4>2, AppendType
    <3>3. QED
      BY <1>5, <3>1, <3>2 DEF AppendWriteFails
  <2>3. QED
    BY <1>5, <2>2 DEF AppendWriteFails, FaultKinds
<1>6. ASSUME NEW p \in Procs, AppendSeal(p) PROVE TypeInv'
  <2>1. pending[p] \in Events /\ pending[p].seq \in Nat /\ pending[p].hash \in Hashes
    BY <1>6 DEF AppendSeal, Events
  <2>2. head' \in [seq : Nat, hash : Hashes] /\ happened' \subseteq FaultKinds
    <3>1. write_head_anchor(pending[p])
      BY <1>6 DEF AppendSeal
    <3>2. CASE head' = [seq |-> pending[p].seq, hash |-> pending[p].hash] /\ UNCHANGED happened
      BY <2>1, <3>2
    <3>3. CASE UNCHANGED head /\ happened' = happened \cup {"anchor"}
      BY <3>3 DEF FaultKinds
    <3>4. QED
      BY <3>1, <3>2, <3>3 DEF write_head_anchor
  <2>3. auditor' \in [Procs -> [seq : Nat, prev_hash : Hashes, known_len : Nat]]
    BY <1>6, <2>1 DEF AppendSeal
  <2>4. QED
    BY <1>6, <2>1, <2>2, <2>3 DEF AppendSeal
<1>7. ASSUME NEW p \in Procs, Crash(p) PROVE TypeInv'
  BY <1>0, <1>7 DEF Crash, Closed, FaultKinds
<1>8. CASE VerifyOpen \/ VerifyMissing
  BY <1>8 DEF VerifyOpen, VerifyMissing
<1>9. CASE VerifyRead
  BY <1>9, VerifyType DEF VerifyRead
<1>10. CASE LoseTail \/ DeleteLog
  <2>1. CASE LoseTail
    BY <2>1 DEF LoseTail, FaultKinds
  <2>2. CASE DeleteLog
    <3>1. log' \in Seq(Chunks)
      BY <2>2 DEF DeleteLog
    <3>2. QED
      BY <2>2, <3>1 DEF DeleteLog, FaultKinds
  <2>3. QED
    BY <1>10, <2>1, <2>2
<1>11. CASE EditEvent
  <2>0. PICK i \in 1..Len(log) :
           \E ev \in Altered(log[i].ev) : log' = [log EXCEPT ![i].ev = ev]
    BY <1>11 DEF EditEvent
  <2>1. PICK ev \in Altered(log[i].ev) : log' = [log EXCEPT ![i].ev = ev]
    BY <2>0
  <2>a. log[i] \in Chunks
    OBVIOUS
  <2>2. log[i].ev \in Events
    BY <2>a DEF Chunks
  <2>3. ev \in Events
    BY <2>2, AlteredType
  <2>4. log' \in Seq(Chunks)
    <3>1. [log[i] EXCEPT !.ev = ev] \in Chunks
      BY <2>a, <2>3 DEF Chunks
    <3>2. log' = [log EXCEPT ![i] = [log[i] EXCEPT !.ev = ev]]
      BY <2>1, <2>a DEF Chunks
    <3>3. log \in Seq(Chunks)
      OBVIOUS
    <3>4. QED
      BY <3>1, <3>2, <3>3, ReplaceType
  <2>5. QED
    BY <1>11, <2>4 DEF EditEvent, FaultKinds
<1>12. CASE DropEvent
  BY <1>12 DEF DropEvent, FaultKinds
<1>13. CASE UNCHANGED vars
  BY <1>13 DEF vars
<1>14. QED
  BY <1>1, <1>2, <1>3, <1>4, <1>5, <1>6, <1>7, <1>8, <1>9, <1>10, <1>11, <1>12, <1>13
     DEF Next, ProcStep

\* The variables of the log, its auditors and its verifier keep their types,
\* whatever faults happen.
THEOREM TypeCorrect == Spec => []TypeOK
<1>1. TypeInv => TypeOK
  BY DEF TypeInv
<1>2. QED
  BY TypeInit, TypeStep, <1>1, PTL DEF Spec

-----------------------------------------------------------------------------
(***************************************************************************)
(* The chain, while nothing worse than crashes and failed anchor writes    *)
(* has happened.  The inductive invariant adds to the three properties what     *)
(* makes them last: only the lock's holder is inside append, what it is    *)
(* about to write chains from the tail of the file, and an auditor whose   *)
(* known_len is the file's length has cached that file's tail.             *)
(***************************************************************************)
NextAt(file) == [seq |-> Len(file), prev_hash |-> PrevHash(file, Len(file) + 1)]

LockInv == \A p \in Procs : pc[p] \in {"locked", "written"} <=> lock = p

CacheInv ==
    \A p \in Procs :
       /\ pc[p] # "down" => auditor[p].known_len <= Len(log)
       /\ pc[p] = "idle" /\ auditor[p].known_len = Len(log) =>
             /\ auditor[p].seq = NextAt(log).seq
             /\ auditor[p].prev_hash = NextAt(log).prev_hash

AppendInv ==
    \A p \in Procs :
       /\ pc[p] \in {"locked", "written"} => auditor[p].seq = pending[p].seq
       /\ pc[p] = "locked" =>
             /\ pending[p].seq = NextAt(log).seq
             /\ verify_link(NextAt(log).prev_hash, pending[p])
             /\ auditor[p].prev_hash = NextAt(log).prev_hash
       /\ pc[p] = "written" => log # << >> /\ pending[p] = log[Len(log)].ev

UnforkedLog == Unforked(log)

ChainInv ==
    TypeInv /\ UnforkedLog /\ AckedInPlace /\ HeadNamesEvent /\ LockInv /\ CacheInv /\ AppendInv

\* What append seals chains from where it was told to.
LEMMA SealedLinks ==
    ASSUME NEW p \in Procs, NEW entry \in Entries,
           NEW at \in [seq : Nat, prev_hash : Hashes]
    PROVE  /\ Sealed(p, at, entry).seq = at.seq
           /\ verify_link(at.prev_hash, Sealed(p, at, entry))
<1> DEFINE ev == [seq |-> at.seq, body |-> entry.body, esc |-> entry.esc, pid |-> p,
                  an |-> entry.an, fp |-> entry.fp,
                  prev_hash |-> at.prev_hash, hash |-> ZERO_HASH]
<1> DEFINE sealed == [ev EXCEPT !.hash = chain_hash(at.prev_hash, ev, Fingerprint)]
<1>1. Payload(sealed, Fingerprint) = Payload(ev, Fingerprint)
  BY DEF Payload
<1>2. sealed.hash = chain_hash(at.prev_hash, sealed, Fingerprint)
  BY <1>1 DEF chain_hash
<1>3. sealed.prev_hash = at.prev_hash /\ sealed.seq = at.seq
  OBVIOUS
<1>4. Sealed(p, at, entry) = sealed
  BY DEF Sealed
<1>5. QED
  BY <1>2, <1>3, <1>4 DEF verify_link

\* Of an unforked log, recover_tail finds the end.
LEMMA RecoverTailUnforked ==
    ASSUME NEW file \in Seq(Chunks), Unforked(file)
    PROVE  recover_tail(file) = NextAt(file)
<1>1. Readable(file) = 1..Len(file)
  BY DEF Readable, Parses, Unforked
<1>2. CASE file = << >>
  BY <1>1, <1>2 DEF recover_tail, NextAt, PrevHash
<1>3. CASE file # << >>
  <2> DEFINE last == CHOOSE i \in Readable(file) : \A j \in Readable(file) : j <= i
  <2>1. Len(file) \in Readable(file) /\ \A j \in Readable(file) : j <= Len(file)
    BY <1>1, <1>3
  <2>2. last \in Readable(file) /\ \A j \in Readable(file) : j <= last
    BY <2>1
  <2>3. last = Len(file)
    <3> HIDE DEF last
    <3>1. QED
      BY <1>1, <2>1, <2>2
  <2>4. recover_tail(file) = [seq |-> file[last].ev.seq + 1, prev_hash |-> file[last].ev.hash]
    BY <2>1 DEF recover_tail
  <2>5. file[Len(file)].ev.seq = Len(file) - 1
    BY <1>1, <2>1 DEF Unforked
  <2>6. QED
    <3>1. Len(file) \in Nat /\ Len(file) # 0
      BY <1>3
    <3>2. PrevHash(file, Len(file) + 1) = file[Len(file)].ev.hash
      BY <3>1 DEF PrevHash
    <3>3. file[Len(file)].ev.seq + 1 = Len(file)
      BY <2>5, <3>1
    <3>4. QED
      BY <2>3, <2>4, <3>2, <3>3 DEF NextAt
<1>4. QED
  BY <1>2, <1>3

\* A line that chains from the end of an unforked log extends it.
LEMMA AppendUnforked ==
    ASSUME NEW file \in Seq(Chunks), NEW ev \in Events, Unforked(file),
           ev.seq = NextAt(file).seq, verify_link(NextAt(file).prev_hash, ev)
    PROVE  Unforked(Append(file, Line(ev)))
<1> DEFINE longer == Append(file, Line(ev))
<1>1. Line(ev) \in Chunks
  BY DEF Line, Chunks
<1>2. /\ Len(longer) = Len(file) + 1
      /\ \A i \in 1..Len(file) : longer[i] = file[i]
      /\ longer[Len(file) + 1] = Line(ev)
  BY <1>1
<1> HIDE DEF longer
<1>3. SUFFICES ASSUME NEW i \in 1..Len(longer)
               PROVE  /\ longer[i].kind = "line"
                      /\ longer[i].ev.seq = i - 1
                      /\ verify_link(PrevHash(longer, i), longer[i].ev)
  BY DEF Unforked, longer
<1>4. PrevHash(longer, i) = PrevHash(file, i)
  BY <1>2 DEF PrevHash
<1>5. CASE i \in 1..Len(file)
  BY <1>2, <1>4, <1>5 DEF Unforked
<1>6. CASE i = Len(file) + 1
  BY <1>2, <1>4, <1>6 DEF NextAt, Line
<1>7. QED
  BY <1>2, <1>5, <1>6

\* Initially the events of the log are the acknowledged ones and nobody has it open.
LEMMA ChainInit == Init => ChainInv
<1> SUFFICES ASSUME Init PROVE ChainInv
  OBVIOUS
<1>1. TypeInv
  BY TypeInit
<1>2. UnforkedLog
  BY InitialLogAssumption DEF Init, UnforkedLog
<1>3. HeadNamesEvent
  <2>1. SUFFICES ASSUME head # NoAnchor
                 PROVE  head.seq + 1 \in 1..Len(log) /\ log[head.seq + 1].ev.hash = head.hash
    BY DEF HeadNamesEvent
  <2>2. PICK i \in {Len(log)} \ {0} : head = [seq |-> log[i].ev.seq, hash |-> log[i].ev.hash]
    BY <2>1 DEF Init
  <2>3. Len(log) \in Nat /\ i \in 1..Len(log)
    BY <1>1 DEF TypeInv, TypeOK
  <2>4. log[i].ev.seq = i - 1
    BY <1>2, <2>3 DEF UnforkedLog, Unforked
  <2>5. QED
    BY <2>2, <2>3, <2>4
<1>4. LockInv /\ CacheInv /\ AppendInv
  BY ProcsAssumption DEF Init, LockInv, CacheInv, AppendInv
<1>6. AckedInPlace
  <2>1. SUFFICES ASSUME NEW ev \in acked
                 PROVE  ev.seq + 1 \in 1..Len(log) /\ log[ev.seq + 1].ev = ev
    BY DEF AckedInPlace
  <2>2. PICK i \in 1..Len(log) : ev = log[i].ev
    BY DEF Init
  <2>3. ev.seq = i - 1 /\ i \in Nat
    BY <1>2, <2>2 DEF UnforkedLog, Unforked
  <2>4. QED
    BY <2>2, <2>3
<1>5. QED
  BY <1>1, <1>2, <1>3, <1>4, <1>6 DEF ChainInv

\* Steps that change neither the log, the anchor nor what is acknowledged
\* keep the properties of the file.
LEMMA FileUnchanged ==
    ASSUME ChainInv, UNCHANGED <<log, head, acked>>
    PROVE  UnforkedLog' /\ AckedInPlace' /\ HeadNamesEvent'
BY DEF ChainInv, UnforkedLog, AckedInPlace, HeadNamesEvent

\* Where the invariant does the work: Resynced is the end of the file,
\* whether it was cached or read again.
LEMMA ResyncedIsTail ==
    ASSUME ChainInv, NEW p \in Procs, pc[p] = "idle"
    PROVE  Resynced(p).seq = NextAt(log).seq /\ Resynced(p).prev_hash = NextAt(log).prev_hash
<1>1. log \in Seq(Chunks) /\ Unforked(log)
  BY DEF ChainInv, TypeInv, TypeOK, UnforkedLog
<1>2. CASE Len(log) # auditor[p].known_len
  BY <1>1, <1>2, RecoverTailUnforked DEF Resynced
<1>3. CASE Len(log) = auditor[p].known_len
  BY <1>3 DEF Resynced, ChainInv, CacheInv
<1>4. QED
  BY <1>2, <1>3

\* append up to the write leaves the event to write chaining from the tail.
LEMMA ChainAppendLock ==
    ASSUME ChainInv, TypeInv', NEW p \in Procs, NEW entry \in Entries, AppendLock(p, entry)
    PROVE  ChainInv'
<1>1. UnforkedLog' /\ AckedInPlace' /\ HeadNamesEvent'
  BY FileUnchanged DEF AppendLock
<1> USE DEF ChainInv, TypeInv, TypeOK
<1>2. pc[p] = "idle" /\ lock = NoProc /\ lock' = p /\ pc' = [pc EXCEPT ![p] = "locked"]
      /\ UNCHANGED log
  BY DEF AppendLock
<1>3. LockInv'
  BY <1>2, ProcsAssumption DEF LockInv
<1>4. Resynced(p) \in [seq : Nat, prev_hash : Hashes]
  BY RecoverTailType DEF Resynced
<1>5. /\ pending' = [pending EXCEPT ![p] = Sealed(p, Resynced(p), entry)]
      /\ auditor' = [auditor EXCEPT ![p].seq = Resynced(p).seq,
                                    ![p].prev_hash = Resynced(p).prev_hash]
  BY DEF AppendLock
<1>6. CacheInv'
  BY <1>2, <1>5 DEF CacheInv
<1>7. /\ Sealed(p, Resynced(p), entry).seq = NextAt(log).seq
      /\ verify_link(NextAt(log).prev_hash, Sealed(p, Resynced(p), entry))
      /\ Sealed(p, Resynced(p), entry).seq = Resynced(p).seq
      /\ Resynced(p).prev_hash = NextAt(log).prev_hash
  BY <1>2, <1>4, ResyncedIsTail, SealedLinks
<1>8. AppendInv'
  <2>1. SUFFICES ASSUME NEW q \in Procs
                 PROVE  /\ pc'[q] \in {"locked", "written"} => auditor'[q].seq = pending'[q].seq
                        /\ pc'[q] = "locked" =>
                              /\ pending'[q].seq = NextAt(log).seq
                              /\ verify_link(NextAt(log).prev_hash, pending'[q])
                              /\ auditor'[q].prev_hash = NextAt(log).prev_hash
                        /\ pc'[q] = "written" => log # << >> /\ pending'[q] = log[Len(log)].ev
    BY <1>2 DEF AppendInv
  <2>2. CASE q = p
    BY <1>2, <1>5, <1>7, <2>2
  <2>3. CASE q # p
    BY <1>2, <1>5, <2>3, ProcsAssumption DEF LockInv
  <2>4. QED
    BY <2>2, <2>3
<1>9. QED
  BY <1>1, <1>3, <1>6, <1>8

\* The write extends the chain; nobody else is inside append.
LEMMA ChainAppendWrite ==
    ASSUME ChainInv, TypeInv', NEW p \in Procs, AppendWrite(p)
    PROVE  ChainInv'
<1> USE DEF ChainInv, TypeInv, TypeOK
<1>1. pending[p] \in Events /\ Line(pending[p]) \in Chunks
  BY DEF AppendWrite, PendingOK, Line, Chunks
<1>2. /\ log' = Append(log, Line(pending[p])) /\ log' \in Seq(Chunks)
      /\ Len(log') = Len(log) + 1
      /\ \A i \in 1..Len(log) : log'[i] = log[i]
      /\ log'[Len(log) + 1] = Line(pending[p])
  BY <1>1 DEF AppendWrite
<1>3. UnforkedLog'
  BY <1>1, <1>2, AppendUnforked DEF AppendWrite, UnforkedLog, AppendInv
<1>4. AckedInPlace' /\ HeadNamesEvent'
  BY <1>2 DEF AppendWrite, AckedInPlace, HeadNamesEvent
<1>5. pc[p] = "locked" /\ pc' = [pc EXCEPT ![p] = "written"]
      /\ UNCHANGED <<lock, auditor, pending>>
  BY DEF AppendWrite
<1>6. LockInv'
  BY <1>5 DEF LockInv
<1>7. CacheInv'
  BY <1>2, <1>5 DEF CacheInv
<1>8. log'[Len(log')].ev = pending[p] /\ log' # << >>
  <2>1. log'[Len(log')] = Line(pending[p])
    BY <1>2
  <2>2. Line(pending[p]).ev = pending[p]
    BY DEF Line
  <2>3. log' # << >>
    BY <1>2, SMTT(40)
  <2>4. QED
    BY <2>1, <2>2, <2>3
<1>9. AppendInv'
  <2>1. \A q \in Procs : q # p => pc'[q] \notin {"locked", "written"}
    BY <1>5 DEF LockInv
  <2>2. QED
    BY <1>5, <1>8, <2>1 DEF AppendInv
<1>10. QED
  BY <1>3, <1>4, <1>6, <1>7, <1>9

\* The last part of append acknowledges the last line and caches the tail.
LEMMA ChainAppendSeal ==
    ASSUME ChainInv, TypeInv', NEW p \in Procs, AppendSeal(p)
    PROVE  ChainInv'
<1> USE DEF ChainInv, TypeInv, TypeOK
<1>1. /\ pc[p] = "written" /\ log # << >> /\ pending[p] = log[Len(log)].ev
      /\ auditor[p].seq = pending[p].seq /\ pending[p] \in Events
  BY DEF AppendSeal, AppendInv, PendingOK
<1>2. Len(log) \in Nat \ {0} /\ pending[p].seq = Len(log) - 1 /\ UNCHANGED log
  BY <1>1 DEF AppendSeal, UnforkedLog, Unforked
<1>3. UnforkedLog'
  BY <1>2 DEF UnforkedLog
<1>4. AckedInPlace'
  BY <1>1, <1>2 DEF AppendSeal, AckedInPlace
<1>5. HeadNamesEvent'
  <2>1. CASE head' = [seq |-> pending[p].seq, hash |-> pending[p].hash]
    BY <1>1, <1>2, <2>1 DEF HeadNamesEvent
  <2>2. CASE UNCHANGED head
    BY <1>2, <2>2 DEF HeadNamesEvent
  <2>3. QED
    BY <2>1, <2>2 DEF AppendSeal, write_head_anchor
<1>6. /\ pc' = [pc EXCEPT ![p] = "idle"] /\ lock' = NoProc /\ lock = p
      /\ auditor'[p] = [seq |-> auditor[p].seq + 1, prev_hash |-> pending[p].hash,
                        known_len |-> Len(log)]
      /\ \A q \in Procs : q # p => auditor'[q] = auditor[q] /\ pending'[q] = pending[q]
  BY <1>1 DEF AppendSeal, LockInv
<1>7. LockInv'
  BY <1>6, ProcsAssumption DEF LockInv
<1>8. PrevHash(log, Len(log) + 1) = pending[p].hash
  BY <1>1, <1>2 DEF PrevHash
<1>9. CacheInv'
  BY <1>1, <1>2, <1>6, <1>8 DEF CacheInv, NextAt
<1>10. AppendInv'
  BY <1>6 DEF AppendInv, LockInv
<1>11. QED
  BY <1>3, <1>4, <1>5, <1>7, <1>9, <1>10

\* Opening the log: the stat may only undercount what the scan then reads.
LEMMA ChainOpen ==
    ASSUME ChainInv, TypeInv', NEW p \in Procs, OpenStat(p) \/ OpenScan(p)
    PROVE  ChainInv'
<1>1. UnforkedLog' /\ AckedInPlace' /\ HeadNamesEvent'
  BY FileUnchanged DEF OpenStat, OpenScan
<1> USE DEF ChainInv, TypeInv, TypeOK
<1>2. CASE OpenStat(p)
  <2>1. LockInv'
    BY <1>2, ProcsAssumption DEF OpenStat, LockInv
  <2>2. CacheInv'
    BY <1>2 DEF OpenStat, CacheInv
  <2>3. AppendInv'
    BY <1>2 DEF OpenStat, AppendInv
  <2>4. QED
    BY <1>1, <2>1, <2>2, <2>3
<1>3. CASE OpenScan(p)
  <2>1. LockInv'
    BY <1>3, ProcsAssumption DEF OpenScan, LockInv
  <2>2. recover_tail(log) = NextAt(log)
    BY RecoverTailUnforked DEF UnforkedLog
  <2>3. auditor' = [auditor EXCEPT ![p].seq = NextAt(log).seq,
                                   ![p].prev_hash = NextAt(log).prev_hash]
    BY <1>3, <2>2 DEF OpenScan
  <2>4. CacheInv'
    BY <1>3, <2>3 DEF OpenScan, CacheInv
  <2>5. AppendInv'
    BY <1>3, <2>3 DEF OpenScan, AppendInv
  <2>6. QED
    BY <1>1, <2>1, <2>4, <2>5
<1>4. QED
  BY <1>2, <1>3

\* A crash loses what the process had cached, not what it had written.
LEMMA ChainCrash ==
    ASSUME ChainInv, TypeInv', NEW p \in Procs, Crash(p)
    PROVE  ChainInv'
<1>1. UnforkedLog' /\ AckedInPlace' /\ HeadNamesEvent'
  BY FileUnchanged DEF Crash
<1> USE DEF ChainInv, TypeInv, TypeOK
<1>2. LockInv'
  BY ProcsAssumption DEF Crash, LockInv
<1>3. CacheInv'
  BY DEF Crash, CacheInv
<1>4. AppendInv'
  BY DEF Crash, AppendInv
<1>5. QED
  BY <1>1, <1>2, <1>3, <1>4

Tampering == LoseTail \/ DeleteLog \/ EditEvent \/ DropEvent

\* Every step keeps the invariant, but a failed write and what happens to the
\* file from outside.
LEMMA ChainKept ==
    ASSUME ChainInv, [Next]_vars, ~Tampering, \A p \in Procs : ~AppendWriteFails(p)
    PROVE  ChainInv'
<1>1. TypeInv'
  BY TypeStep DEF ChainInv
<1>2. CASE VerifyOpen \/ VerifyMissing \/ VerifyRead \/ UNCHANGED vars
  <2>1. UNCHANGED <<log, head, lock, pc, auditor, pending, acked>>
    BY <1>2 DEF VerifyOpen, VerifyMissing, VerifyRead, vars
  <2>2. QED
    BY <1>1, <2>1, FileUnchanged DEF ChainInv, LockInv, CacheInv, AppendInv
<1>3. CASE \E p \in Procs : ProcStep(p)
  BY <1>1, <1>3, ChainOpen, ChainAppendLock, ChainAppendWrite, ChainAppendSeal, ChainCrash
     DEF ProcStep
<1>4. QED
  BY <1>2, <1>3 DEF Next, Tampering

\* A fault that leaves the file undamaged is none of those.
LEMMA OnlyHarmless ==
    ASSUME Undamaged'
    PROVE  ~Tampering /\ \A p \in Procs : ~AppendWriteFails(p)
<1>1. "diskfull" \notin happened' /\ "loss" \notin happened' /\ "edit" \notin happened'
  BY DEF Undamaged
<1>2. QED
  BY <1>1 DEF Tampering, LoseTail, DeleteLog, EditEvent, DropEvent, AppendWriteFails

\* As long as nothing worse than a crash or a failed anchor write has
\* happened, every step keeps the invariant.
LEMMA ChainStep ==
    ASSUME ChainInv, Undamaged', [Next]_vars
    PROVE  ChainInv'
BY ChainKept, OnlyHarmless

\* Damage is not undone: what has happened stays in the record.
LEMMA HappenedGrows ==
    ASSUME [Next]_vars
    PROVE  happened \subseteq happened'
BY DEF Next, vars, ProcStep, OpenStat, OpenScan, AppendLock, AppendWrite, AppendWriteFails,
       AppendSeal, write_head_anchor, Crash, VerifyOpen, VerifyMissing, VerifyRead,
       LoseTail, DeleteLog, EditEvent, DropEvent

\* However many processes open, append to and verify the log and die while
\* they do, the chain does not fork, an acknowledged event stays where its
\* seq says, and the anchor never runs ahead of the log, until the file is
\* damaged from outside or by a full disk (audit.rs).
THEOREM ChainSafe == Spec => [](ChainUnforked /\ AckedKept /\ HeadInLog)
<1> DEFINE Inv == Undamaged => ChainInv
<1>1. Init => Inv
  BY ChainInit
<1>2. Inv /\ [Next]_vars => Inv'
  BY ChainStep, HappenedGrows DEF Undamaged
<1>3. Inv => ChainUnforked /\ AckedKept /\ HeadInLog
  BY DEF ChainInv, UnforkedLog, ChainUnforked, AckedKept, HeadInLog
<1>4. QED
  BY <1>1, <1>2, <1>3, PTL DEF Spec

-----------------------------------------------------------------------------
(***************************************************************************)
(* The log implements EventLog: every step of Next is one of its steps, or *)
(* changes nothing it can see.                                             *)
(***************************************************************************)
Askings == [p \in Procs |-> Asking(p)]
Places  == {ev.seq + 1 : ev \in acked}

\* What the hash covers of an event is a record.
LEMMA RecordOfType ==
    ASSUME NEW ev \in Events
    PROVE  RecordOf(ev) \in EventRecords
BY DEF RecordOf, EventRecords, Events

\* A log found at start is a log whose every event was acknowledged.
LEMMA PromiseInit == Init => Promise!Init
<1> SUFFICES ASSUME Init PROVE Promise!Init
  OBVIOUS
<1>1. log \in Seq(Chunks) /\ Unforked(log)
  BY InitialLogAssumption DEF Init
<1>2. Recorded \in Seq(EventRecords)
  <2>1. \A i \in 1..Len(log) : RecordOf(log[i].ev) \in EventRecords
    <3>1. TAKE i \in 1..Len(log)
    <3>2. log[i] \in Chunks
      BY <1>1
    <3>3. log[i].ev \in Events
      BY <3>2 DEF Chunks
    <3>4. QED
      BY <3>3, RecordOfType
  <2>2. QED
    BY <1>1, <2>1 DEF Recorded
<1>3. DOMAIN Recorded = 1..Len(log)
  BY DEF Recorded
<1>4. Places = 1..Len(log)
  <2>1. \A i \in 1..Len(log) : log[i].ev.seq + 1 = i
    BY <1>1 DEF Unforked
  <2>2. QED
    BY <2>1 DEF Init, Places
<1>5. Askings = [p \in Procs |-> {}]
  BY DEF Askings, Asking, Init
<1>6. Undamaged
  BY DEF Undamaged, Init
<1>7. QED
  BY <1>2, <1>3, <1>4, <1>5, <1>6 DEF Promise!Init, Places, Askings

\* The lock: the caller has asked.
LEMMA PromiseAsk ==
    ASSUME ChainInv, Undamaged, Undamaged', NEW p \in Procs, NEW entry \in Entries, AppendLock(p, entry)
    PROVE  \E r \in EventRecords : Promise!Ask(p, r)
<1> DEFINE ev == Sealed(p, Resynced(p), entry)
<1>1. ev \in Events
  BY RecoverTailType, SealedType DEF Resynced, ChainInv, TypeInv, TypeOK
<1> HIDE DEF ev
<1>2. /\ pc[p] = "idle" /\ pc' = [pc EXCEPT ![p] = "locked"]
      /\ pending' = [pending EXCEPT ![p] = ev]
      /\ UNCHANGED <<log, acked>>
  BY DEF AppendLock, ev
<1>3. RecordOf(ev) \in EventRecords
  BY <1>1, RecordOfType
<1>4. Askings[p] = {}
  BY <1>2 DEF Askings, Asking
<1>5. Askings' = [Askings EXCEPT ![p] = {[record |-> RecordOf(ev), at |-> 0]}]
  BY <1>2 DEF Askings, Asking, ChainInv, TypeInv, TypeOK
<1>6. UNCHANGED <<Recorded, Places>> /\ Undamaged' = Undamaged
  BY <1>2 DEF Recorded, Places
<1>7. QED
  BY <1>3, <1>4, <1>5, <1>6 DEF Promise!Ask, Askings, Places

\* The write: the record is added, at the place its seq claims.
LEMMA PromiseRecord ==
    ASSUME ChainInv, Undamaged, Undamaged', NEW p \in Procs, AppendWrite(p)
    PROVE  Promise!Record(p)
<1> USE DEF ChainInv, TypeInv, TypeOK
<1> DEFINE a == [record |-> RecordOf(pending[p]), at |-> 0]
<1>1. pending[p] \in Events /\ Line(pending[p]) \in Chunks
  BY DEF AppendWrite, PendingOK, Line, Chunks
<1>2. /\ log' = Append(log, Line(pending[p])) /\ Len(log') = Len(log) + 1
      /\ \A i \in 1..Len(log) : log'[i] = log[i]
      /\ log'[Len(log) + 1].ev = pending[p]
  BY <1>1 DEF AppendWrite, Line
<1>3. /\ pc[p] = "locked" /\ pc' = [pc EXCEPT ![p] = "written"]
      /\ UNCHANGED <<pending, acked>> /\ pending[p].seq = Len(log)
  BY DEF AppendWrite, AppendInv, NextAt
<1>4. Recorded' = Append(Recorded, a.record)
  <2>1. Len(Recorded) = Len(log)
    BY DEF Recorded
  <2>2. Append(Recorded, a.record) =
          [i \in 1..(Len(log) + 1) |-> IF i = Len(log) + 1 THEN a.record ELSE Recorded[i]]
    BY <2>1
  <2>3. Recorded' = [i \in 1..(Len(log) + 1) |-> RecordOf(log'[i].ev)]
    BY <1>2 DEF Recorded
  <2>4. QED
    BY <1>2, <2>2, <2>3 DEF Recorded
<1>5. Askings[p] = {a}
  BY <1>3 DEF Askings, Asking
<1>6. Askings' = [Askings EXCEPT ![p] = {[record |-> a.record, at |-> Len(Recorded) + 1]}]
  <2>1. Len(Recorded) = Len(log)
    BY DEF Recorded
  <2>2. Asking(p)' = {[record |-> a.record, at |-> Len(Recorded) + 1]}
    BY <1>3, <2>1 DEF Asking
  <2>3. \A q \in Procs \ {p} : Asking(q)' = Asking(q)
    BY <1>3 DEF Asking
  <2>4. QED
    BY <2>2, <2>3 DEF Askings
<1>7. UNCHANGED Places /\ Undamaged' = Undamaged
  BY <1>3 DEF Places
<1>8. QED
  BY <1>4, <1>5, <1>6, <1>7 DEF Promise!Record, Askings, Places

\* The rest of append: the caller is told.
LEMMA PromiseReturn ==
    ASSUME ChainInv, Undamaged, Undamaged', NEW p \in Procs, AppendSeal(p)
    PROVE  Promise!Return(p)
<1> USE DEF ChainInv, TypeInv, TypeOK
<1> DEFINE a == [record |-> RecordOf(pending[p]), at |-> pending[p].seq + 1]
<1>1. /\ pc[p] = "written" /\ pc' = [pc EXCEPT ![p] = "idle"] /\ pending[p] \in Events
      /\ acked' = acked \cup {pending[p]} /\ UNCHANGED log
      /\ \A q \in Procs : q # p => pending'[q] = pending[q]
  BY DEF AppendSeal, PendingOK
<1>2. Askings[p] = {a} /\ a.at # 0
  BY <1>1 DEF Askings, Asking, Events
<1>3. Askings' = [Askings EXCEPT ![p] = {}]
  BY <1>1 DEF Askings, Asking
<1>4. Places' = Places \cup {a.at}
  BY <1>1 DEF Places
<1>5. UNCHANGED Recorded /\ Undamaged' = Undamaged
  BY <1>1 DEF Recorded
<1>6. QED
  BY <1>2, <1>3, <1>4, <1>5 DEF Promise!Return, Askings, Places

\* A process dies: its caller gives up, recorded or not.
LEMMA PromiseGiveUp ==
    ASSUME ChainInv, Undamaged, Undamaged', NEW p \in Procs, Crash(p)
    PROVE  Promise!GiveUp(p)
<1> USE DEF ChainInv, TypeInv, TypeOK
<1>1. /\ pc' = [pc EXCEPT ![p] = "down"] /\ UNCHANGED <<log, acked>>
      /\ \A q \in Procs : q # p => pending'[q] = pending[q]
  BY DEF Crash
<1>2. Askings' = [Askings EXCEPT ![p] = {}]
  BY <1>1 DEF Askings, Asking
<1>3. UNCHANGED <<Recorded, Places>> /\ Undamaged' = Undamaged
  BY <1>1 DEF Recorded, Places
<1>4. QED
  BY <1>2, <1>3 DEF Promise!GiveUp, Askings, Places

\* Steps EventLog does not see.
LEMMA PromiseStutter ==
    ASSUME ChainInv, Undamaged, Undamaged', UNCHANGED <<log, pending, acked>>,
           \A q \in Procs : pc'[q] # pc[q] => {pc[q], pc'[q]} \cap {"locked", "written"} = {}
    PROVE  UNCHANGED Promise!vars
<1>1. UNCHANGED <<Recorded, Places>> /\ Undamaged' = Undamaged
  BY DEF Recorded, Places
<1>2. \A q \in Procs : Asking(q)' = Asking(q)
  BY DEF Asking
<1>3. Askings' = Askings
  BY <1>2 DEF Askings
<1>4. QED
  BY <1>1, <1>3 DEF Promise!vars, Askings, Places

\* Every step of the log is a step of EventLog, or invisible to it.
LEMMA PromiseStep ==
    ASSUME Undamaged => ChainInv, [Next]_vars
    PROVE  [Promise!Next]_(Promise!vars)
<1>1. CASE ~Undamaged'
  BY <1>1 DEF Promise!Next, Promise!Damage
<1>2. CASE Undamaged'
  <2>1. Undamaged /\ ChainInv
    BY <1>2, HappenedGrows DEF Undamaged
  <2>2. ~Tampering /\ \A p \in Procs : ~AppendWriteFails(p)
    BY <1>2, OnlyHarmless
  <2>3. CASE VerifyOpen \/ VerifyMissing \/ VerifyRead \/ UNCHANGED vars
    <3>1. UNCHANGED <<log, pending, acked, pc>>
      BY <2>3 DEF VerifyOpen, VerifyMissing, VerifyRead, vars
    <3>2. QED
      BY <1>2, <2>1, <3>1, PromiseStutter
  <2>4. ASSUME NEW p \in Procs, OpenStat(p) \/ OpenScan(p)
        PROVE  UNCHANGED Promise!vars
    <3>1. /\ UNCHANGED <<log, pending, acked>>
          /\ \A q \in Procs : pc'[q] # pc[q] => {pc[q], pc'[q]} \cap {"locked", "written"} = {}
      BY <2>1, <2>4 DEF OpenStat, OpenScan, ChainInv, TypeInv, TypeOK
    <3>2. QED
      BY <1>2, <2>1, <3>1, PromiseStutter
  <2>5. ASSUME NEW p \in Procs, ProcStep(p)
        PROVE  Promise!Next \/ UNCHANGED Promise!vars
    BY <1>2, <2>1, <2>2, <2>4, <2>5, PromiseAsk, PromiseRecord, PromiseReturn, PromiseGiveUp
       DEF ProcStep, Promise!Next
  <2>6. QED
    BY <2>2, <2>3, <2>5 DEF Next, Tampering
<1>3. QED
  BY <1>1, <1>2

\* append is atomic across any number of processes that open, append and die:
\* the log implements the append-only list of EventLog, until the file is
\* damaged from outside or by a full disk (audit.rs).
THEOREM LogImplementsPromise == Spec => AppendsAreAtomic
<1> DEFINE Inv == Undamaged => ChainInv
<1>1. Init => Inv
  BY ChainInit
<1>2. Inv /\ [Next]_vars => Inv'
  BY ChainStep, HappenedGrows DEF Undamaged
<1>3. Init => Promise!Init
  BY PromiseInit
<1>4. Inv /\ [Next]_vars => [Promise!Next]_(Promise!vars)
  BY PromiseStep
<1>5. QED
  BY <1>1, <1>2, <1>3, <1>4, PTL DEF Spec, AppendsAreAtomic, Promise!Spec

-----------------------------------------------------------------------------
(***************************************************************************)
(* What verify says.  Unlike the chain this is about damaged files too, so *)
(* the invariant has a part for each kind of damage that is excluded.      *)
(***************************************************************************)
Broken(file) == \E i \in 1..Len(file) : ~verify_link(PrevHash(file, i), file[i].ev)

HashedIn(file) == {Hashed(file[i].ev) : i \in 1..Len(file)}
HashedAcked    == {Hashed(ev) : ev \in acked}
HashedInHand   == {Hashed(pending[p]) : p \in {q \in Procs : pc[q] = "written"}}

WrittenInv ==
    \A p \in Procs : pc[p] = "written" => log # << >> /\ log[Len(log)] = Line(pending[p])

LinesInv == "diskfull" \notin happened => \A i \in 1..Len(log) : log[i].kind = "line"

AnchoredInv == ("loss" \notin happened /\ head # NoAnchor) => log # << >>

NewestInv ==
    (happened \subseteq {"crash"} /\ head # NoAnchor) => \A ev \in acked : ev.seq <= head.seq

AllAckedInv ==
    happened = {} => \A i \in 1..Len(log) :
       log[i].ev \in acked \/ (i = Len(log) /\ \E p \in Procs : pc[p] = "written")

EditInv ==
    happened \subseteq {"edit"} => Broken(log) \/ HashedIn(log) = HashedAcked \cup HashedInHand

VerdictInv ==
    /\ verdict = "unparseable" => "diskfull" \in happened
    /\ verdict = "broken" => happened \cap {"diskfull", "loss", "edit"} # {}
    /\ verdict = "truncated" => happened # {}
    /\ verdict = "emptied" => "loss" \in happened

FileInv ==
    /\ LockInv /\ WrittenInv /\ LinesInv /\ AnchoredInv /\ NewestInv /\ AllAckedInv
    /\ EditInv /\ VerdictInv

\* The file is there once it has been appended to, until it is lost; an
\* answer that it was deleted needs an anchor, hence an event, that was not
\* there when the verifier looked for the file.
FoundInv ==
    /\ log # << >> => exists
    /\ \A p \in Procs : pc[p] \in {"locked", "written"} => exists
    /\ "loss" \notin happened =>
          /\ found # << >> => exists
          /\ vpc = "missing" => found = << >>
          /\ verdict = "deleted" => found = << >> /\ exists

\* What a torn write leaves: nothing, a torn end nobody has written after,
\* or a torn line with something after it, which never parses again.
Torn(file) == \E i \in 1..(Len(file) - 1) : file[i].kind # "line"

Dangling ==
    /\ log # << >> /\ log[Len(log)].kind # "line"
    /\ AckedInPlace
    /\ \A p \in Procs : pc[p] # "written"

TornInv == happened \cap {"loss", "edit"} = {} => ChainInv \/ Dangling \/ Torn(log)

VerifyInv == TypeInv /\ (Undamaged => ChainInv) /\ FileInv /\ FoundInv /\ TornInv

\* An event verifies against one generation, and that one against no other:
\* two events that verify with the same hash agree on all that is hashed.
LEMMA GenerationOf ==
    ASSUME NEW prev, NEW ev, verify_link(prev, ev)
    PROVE  \E v \in {Legacy, Pid, Analytics, Fingerprint} :
              /\ ev.hash = chain_hash(prev, ev, v)
              /\ v < Fingerprint => ev.fp = None
              /\ v < Analytics => ev.an = None
              /\ v < Pid => ev.pid = NoPid
BY DEF verify_link, Legacy, Pid, Analytics, Fingerprint

LEMMA SameHashSameFields ==
    ASSUME NEW prev \in Hashes, NEW ev \in Events, NEW other \in Events,
           verify_link(prev, ev), verify_link(prev, other), ev.hash = other.hash
    PROVE  Hashed(ev) = Hashed(other)
<1>1. PICK v \in {Legacy, Pid, Analytics, Fingerprint} :
         /\ ev.hash = chain_hash(prev, ev, v)
         /\ v < Fingerprint => ev.fp = None
         /\ v < Analytics => ev.an = None
         /\ v < Pid => ev.pid = NoPid
  BY GenerationOf
<1>2. PICK w \in {Legacy, Pid, Analytics, Fingerprint} :
         /\ other.hash = chain_hash(prev, other, w)
         /\ w < Fingerprint => other.fp = None
         /\ w < Analytics => other.an = None
         /\ w < Pid => other.pid = NoPid
  BY GenerationOf
<1>3. v \in Nat /\ w \in Nat
  BY DEF Legacy, Pid, Analytics, Fingerprint
<1> DEFINE a == Payload(ev, v)
           b == Payload(other, w)
<1>4. a \in Payloads /\ b \in Payloads
  BY <1>3, PayloadType
<1>5. /\ a.seq = ev.seq /\ a.body = ev.body
      /\ a.pid = (IF v >= Pid THEN ev.pid ELSE "absent")
      /\ a.an = (IF v >= Analytics THEN ev.an ELSE "absent")
      /\ a.fp = (IF v >= Fingerprint THEN ev.fp ELSE "absent")
  BY DEF Payload
<1>6. /\ b.seq = other.seq /\ b.body = other.body
      /\ b.pid = (IF w >= Pid THEN other.pid ELSE "absent")
      /\ b.an = (IF w >= Analytics THEN other.an ELSE "absent")
      /\ b.fp = (IF w >= Fingerprint THEN other.fp ELSE "absent")
  BY DEF Payload
<1>7. Append(prev, a) = Append(prev, b)
  BY <1>1, <1>2 DEF chain_hash
<1> HIDE DEF a, b
<1>8. a = b
  <2>1. prev \in Seq(Payloads)
    BY DEF Hashes
  <2>2. Append(prev, a)[Len(prev) + 1] = a /\ Append(prev, b)[Len(prev) + 1] = b
    BY <1>4, <2>1
  <2>3. QED
    BY <1>7, <2>2
<1>9. /\ ev.pid # "absent" /\ other.pid # "absent"
      /\ ev.an # "absent" /\ other.an # "absent"
      /\ ev.fp # "absent" /\ other.fp # "absent"
  BY ProcsAssumption DEF Events, NoPid, None
<1>10. ev.pid = other.pid
  BY <1>1, <1>2, <1>3, <1>5, <1>6, <1>8, <1>9 DEF Pid
<1>11. ev.an = other.an
  BY <1>1, <1>2, <1>3, <1>5, <1>6, <1>8, <1>9 DEF Analytics
<1>12. ev.fp = other.fp
  BY <1>1, <1>2, <1>3, <1>5, <1>6, <1>8, <1>9 DEF Fingerprint
<1>13. QED
  BY <1>5, <1>6, <1>8, <1>10, <1>11, <1>12 DEF Hashed

\* A link lengthens the hash.
LEMMA LinkLengthens ==
    ASSUME NEW prev \in Hashes, NEW ev \in Events, verify_link(prev, ev)
    PROVE  ev.hash # prev
<1>1. PICK v \in {Legacy, Pid, Analytics, Fingerprint} : ev.hash = chain_hash(prev, ev, v)
  BY GenerationOf
<1>2. Payload(ev, v) \in Payloads
  BY PayloadType DEF Legacy, Pid, Analytics, Fingerprint
<1> DEFINE a == Payload(ev, v)
<1>3. ev.hash = Append(prev, a)
  BY <1>1 DEF chain_hash
<1> HIDE DEF a
<1>4. prev \in Seq(Payloads) /\ a \in Payloads
  BY <1>2 DEF Hashes, a
<1>5. Len(Append(prev, a)) = Len(prev) + 1 /\ Len(prev) \in Nat
  BY <1>4
<1>6. QED
  BY <1>3, <1>5

LEMMA PrevHashType ==
    ASSUME NEW file \in Seq(Chunks), NEW i \in 1..(Len(file) + 1)
    PROVE  PrevHash(file, i) \in Hashes
<1>1. CASE i = 1
  BY <1>1 DEF PrevHash, ZERO_HASH, Hashes
<1>2. CASE i # 1
  <2>1. i - 1 \in 1..Len(file)
    BY <1>2
  <2>2. file[i - 1] \in Chunks
    BY <2>1
  <2>3. QED
    BY <1>2, <2>2 DEF PrevHash, Chunks, Events
<1>3. QED
  BY <1>1, <1>2

-----------------------------------------------------------------------------
(***************************************************************************)
(* What the steps do to the file.                                          *)
(***************************************************************************)
LEMMA Longer ==
    ASSUME NEW file \in Seq(Chunks), NEW c \in Chunks
    PROVE  LET longer == Append(file, c) IN
           /\ Len(longer) = Len(file) + 1 /\ longer # << >>
           /\ \A i \in 1..Len(file) : longer[i] = file[i]
           /\ longer[Len(file) + 1] = c
           /\ Broken(file) => Broken(longer)
           /\ HashedIn(longer) = HashedIn(file) \cup {Hashed(c.ev)}
<1> DEFINE longer == Append(file, c)
<1>1. /\ Len(longer) = Len(file) + 1
      /\ \A i \in 1..Len(file) : longer[i] = file[i]
      /\ longer[Len(file) + 1] = c
  OBVIOUS
<1> HIDE DEF longer
<1>2. longer # << >>
  BY <1>1
<1>3. \A i \in 1..Len(file) : PrevHash(longer, i) = PrevHash(file, i)
  BY <1>1 DEF PrevHash
<1>4. Broken(file) => Broken(longer)
  BY <1>1, <1>3 DEF Broken
<1>5. HashedIn(longer) = HashedIn(file) \cup {Hashed(c.ev)}
  <2>1. 1..Len(longer) = 1..Len(file) \cup {Len(file) + 1}
    BY <1>1
  <2>2. QED
    BY <1>1, <2>1 DEF HashedIn
<1>6. QED
  BY <1>1, <1>2, <1>4, <1>5 DEF longer

\* An edit of a hashed field breaks the link of the event it is made to.
LEMMA EditBreaks ==
    ASSUME NEW file \in Seq(Chunks), Unforked(file), NEW i \in 1..Len(file),
           NEW ev \in Altered(file[i].ev), NEW edited, edited = [file EXCEPT ![i].ev = ev]
    PROVE  Broken(edited) \/ HashedIn(edited) = HashedIn(file)
<1>1. file[i] \in Chunks /\ file[i].ev \in Events
  <2>1. file[i] \in Chunks
    OBVIOUS
  <2>2. QED
    BY <2>1 DEF Chunks
<1>2. ev \in Events /\ ev.hash = file[i].ev.hash
  <2>1. ev \in Events
    BY <1>1, AlteredType
  <2>2. QED
    BY <1>1, <2>1, ZenonT(60) DEF Altered, Events
<1>3. /\ Len(edited) = Len(file) /\ edited[i].ev = ev
      /\ \A j \in 1..Len(file) : j # i => edited[j] = file[j]
  BY <1>1 DEF Chunks
<1>4. \A j \in 1..Len(file) : edited[j].ev.hash = file[j].ev.hash
  BY <1>2, <1>3
<1>5. PrevHash(edited, i) = PrevHash(file, i)
  BY <1>3, <1>4 DEF PrevHash
<1>6. CASE ~verify_link(PrevHash(file, i), ev)
  BY <1>3, <1>5, <1>6 DEF Broken
<1>7. CASE verify_link(PrevHash(file, i), ev)
  <2>1. PrevHash(file, i) \in Hashes /\ verify_link(PrevHash(file, i), file[i].ev)
    BY PrevHashType DEF Unforked
  <2>2. Hashed(ev) = Hashed(file[i].ev)
    BY <1>1, <1>2, <1>7, <2>1, SameHashSameFields
  <2>3. \A j \in 1..Len(file) : Hashed(edited[j].ev) = Hashed(file[j].ev)
    BY <1>3, <2>2
  <2>4. QED
    BY <1>3, <2>3 DEF HashedIn
<1>8. QED
  BY <1>6, <1>7

\* The file DropEvent leaves.
Without(file, i) == SubSeq(file, 1, i - 1) \o SubSeq(file, i + 1, Len(file))

LEMMA DropKeeps ==
    ASSUME NEW file \in Seq(Chunks), NEW i \in 1..(Len(file) - 1),
           NEW rest, rest = Without(file, i)
    PROVE  /\ rest # << >> /\ Len(rest) = Len(file) - 1
           /\ \A j \in 1..(i - 1) : rest[j] = file[j]
           /\ \A j \in i..(Len(file) - 1) : rest[j] = file[j + 1]
           /\ \A j \in 1..Len(rest) : \E k \in 1..Len(file) : rest[j] = file[k]
<1> DEFINE n == Len(file)
           x == SubSeq(file, 1, i - 1)
           y == SubSeq(file, i + 1, n)
<1>1. n \in Nat /\ i \in 1..n /\ i + 1 \in 1..n
  OBVIOUS
<1>2. /\ x \in Seq(Chunks) /\ Len(x) = i - 1
      /\ \A j \in 1..(i - 1) : x[j] = file[j]
  BY <1>1
<1>3. /\ y \in Seq(Chunks) /\ Len(y) = n - i
      /\ \A j \in 1..(n - i) : y[j] = file[i + j]
  BY <1>1
<1>3a. rest = x \o y
  BY DEF Without
<1> HIDE DEF x, y, n
<1>4. /\ Len(rest) = n - 1
      /\ \A j \in 1..(i - 1) : rest[j] = file[j]
      /\ \A j \in i..(n - 1) : rest[j] = file[j + 1]
  <2>1. /\ Len(rest) = Len(x) + Len(y)
        /\ \A j \in 1..Len(x) : rest[j] = x[j]
        /\ \A j \in (Len(x) + 1)..(Len(x) + Len(y)) : rest[j] = y[j - Len(x)]
    <3>1. /\ Len(x \o y) = Len(x) + Len(y)
          /\ \A j \in 1..(Len(x) + Len(y)) : (x \o y)[j] = IF j <= Len(x) THEN x[j] ELSE y[j - Len(x)]
      BY <1>2, <1>3, ConcatProperties
    <3>2. Len(x) \in Nat /\ Len(y) \in Nat
      BY <1>2, <1>3
    <3>3. ASSUME NEW j \in 1..Len(x) PROVE rest[j] = x[j]
      <4>1. j \in 1..(Len(x) + Len(y)) /\ j <= Len(x)
        BY <3>2
      <4>2. QED
        BY <1>3a, <3>1, <4>1
    <3>4. ASSUME NEW j \in (Len(x) + 1)..(Len(x) + Len(y)) PROVE rest[j] = y[j - Len(x)]
      <4>1. j \in 1..(Len(x) + Len(y)) /\ ~(j <= Len(x))
        BY <3>2
      <4>2. (x \o y)[j] = IF j <= Len(x) THEN x[j] ELSE y[j - Len(x)]
        BY <3>1, <4>1
      <4>3. QED
        BY <1>3a, <4>1, <4>2
    <3>5. Len(rest) = Len(x) + Len(y)
      BY <1>3a, <3>1
    <3>6. QED
      BY <3>3, <3>4, <3>5
  <2>2. Len(rest) = n - 1
    BY <1>1, <1>2, <1>3, <2>1
  <2>3. \A j \in 1..(i - 1) : rest[j] = file[j]
    BY <1>1, <1>2, <2>1
  <2>4. ASSUME NEW j \in i..(n - 1) PROVE rest[j] = file[j + 1]
    <3>1. rest[j] = y[j - (i - 1)]
      <4>1. j \in (Len(x) + 1)..(Len(x) + Len(y)) /\ j - Len(x) = j - (i - 1)
        BY <1>1, <1>2, <1>3
      <4>2. QED
        BY <2>1, <4>1
    <3>2. j - (i - 1) \in 1..(n - i) /\ i + (j - (i - 1)) = j + 1
      BY <1>1
    <3>3. QED
      BY <1>3, <3>1, <3>2
  <2>5. QED
    BY <2>2, <2>3, <2>4
<1>5. \A j \in 1..Len(rest) : \E k \in 1..n : rest[j] = file[k]
  <2>1. ASSUME NEW j \in 1..Len(rest) PROVE \E k \in 1..n : rest[j] = file[k]
    <3>1. CASE j \in 1..(i - 1)
      <4>1. j \in 1..n
        BY <1>1, <3>1
      <4>2. rest[j] = file[j]
        BY <1>4, <3>1
      <4>3. QED
        BY <4>1, <4>2
    <3>2. CASE j \in i..(n - 1)
      <4>1. j + 1 \in 1..n
        BY <1>1, <3>2
      <4>2. rest[j] = file[j + 1]
        BY <1>4, <3>2
      <4>3. QED
        BY <4>1, <4>2
    <3>3. j \in 1..(i - 1) \/ j \in i..(n - 1)
      <4>1. Len(rest) = n - 1
        BY <1>4
      <4>2. j \in 1..(n - 1)
        BY <4>1
      <4>3. QED
        BY <1>1, <4>2
    <3>4. QED
      BY <3>1, <3>2, <3>3
  <2>2. QED
    BY <2>1
<1>6. n = Len(file)
  BY DEF n
<1>7. rest # << >>
  <2>1. Len(rest) # 0
    BY <1>1, <1>4
  <2>2. QED
    BY <2>1
<1>8. QED
  BY <1>4, <1>5, <1>6, <1>7

\* Without an event of the middle, the next one has nothing to chain from.
LEMMA DropBreaks ==
    ASSUME NEW file \in Seq(Chunks), Unforked(file), NEW i \in 1..(Len(file) - 1),
           NEW rest, rest = Without(file, i)
    PROVE  Broken(rest)
<1> DEFINE n == Len(file)
<1>1. n \in Nat /\ i \in 1..n /\ i + 1 \in 1..n
  OBVIOUS
<1>4. /\ Len(rest) = n - 1
      /\ \A j \in 1..(i - 1) : rest[j] = file[j]
      /\ \A j \in i..(n - 1) : rest[j] = file[j + 1]
  BY DropKeeps
<1> HIDE DEF n
<1>6. rest[i] = file[i + 1] /\ i \in 1..Len(rest)
  BY <1>1, <1>4
<1>6a. n = Len(file)
  BY DEF n
<1>7. file[i].ev \in Events /\ file[i + 1].ev.prev_hash = file[i].ev.hash
  <2>1. file[i] \in Chunks
    BY <1>1, <1>6a
  <2>2. verify_link(PrevHash(file, i + 1), file[i + 1].ev)
    BY <1>1, <1>6a DEF Unforked
  <2>3. PrevHash(file, i + 1) = file[i].ev.hash
    BY <1>1 DEF PrevHash
  <2>4. QED
    BY <2>1, <2>2, <2>3 DEF verify_link, Chunks
<1>8. PrevHash(rest, i) = PrevHash(file, i)
  BY <1>1, <1>4 DEF PrevHash
<1>9. file[i].ev.hash # PrevHash(file, i)
  <2>1. i \in 1..(Len(file) + 1) /\ i \in 1..Len(file)
    BY <1>1, <1>6a
  <2>2. PrevHash(file, i) \in Hashes /\ verify_link(PrevHash(file, i), file[i].ev)
    BY <2>1, PrevHashType DEF Unforked
  <2>3. QED
    BY <1>7, <2>2, LinkLengthens
<1>10. ~verify_link(PrevHash(rest, i), rest[i].ev)
  BY <1>6, <1>7, <1>8, <1>9 DEF verify_link
<1>11. QED
  BY <1>6, <1>10 DEF Broken

-----------------------------------------------------------------------------
(***************************************************************************)
(* The invariant of what verify says.                                      *)
(***************************************************************************)
\* What verify's answers mean of the file it read.
LEMMA VerifyMeans ==
    ASSUME NEW file, NEW anchor, NEW said, said = verify(file, anchor)
    PROVE  /\ said = "unparseable" => \E i \in 1..Len(file) : ~Parses(file, i)
           /\ said = "broken" => Broken(file)
           /\ Broken(file) => said \in {"unparseable", "broken"}
           /\ said \in {"emptied", "truncated"} => anchor # NoAnchor
           /\ said = "emptied" => file = << >>
           /\ said = "truncated" =>
                 /\ file # << >> /\ ~Broken(file)
                 /\ ~(file[Len(file)].ev.seq = anchor.seq /\ file[Len(file)].ev.hash = anchor.hash)
           /\ said \in {"ok", "unparseable", "broken", "emptied", "truncated"}
BY DEF verify, Broken

LEMMA LinesParse ==
    ASSUME NEW file, \A i \in 1..Len(file) : file[i].kind = "line", Len(file) \in Nat
    PROVE  \A i \in 1..Len(file) : Parses(file, i)
BY DEF Parses

\* With the lock free nobody is between the write and the seal.
LEMMA FreeLock ==
    ASSUME LockInv, lock = NoProc
    PROVE  \A p \in Procs : pc[p] \notin {"locked", "written"}
BY ProcsAssumption DEF LockInv

\* A log that only crashes have met and that ends in an acknowledged event
\* verifies.
LEMMA HealsAfterCrash ==
    ASSUME VerifyInv, happened \subseteq {"crash"}, log # << >>, log[Len(log)].ev \in acked
    PROVE  verify(log, head) = "ok"
<1>1. ChainInv /\ NewestInv
  BY DEF VerifyInv, FileInv, Undamaged
<1>2. log \in Seq(Chunks) /\ Unforked(log) /\ HeadNamesEvent /\ head \in [seq : Nat, hash : Hashes]
  BY <1>1 DEF ChainInv, UnforkedLog, TypeInv, TypeOK
<1>3. ~Broken(log)
  BY <1>2 DEF Unforked, Broken
<1>4. \A i \in 1..Len(log) : Parses(log, i)
  BY <1>2, LinesParse DEF Unforked
<1>5. Len(log) \in Nat \ {0}
  BY <1>2
<1>6. ASSUME head # NoAnchor
      PROVE  log[Len(log)].ev.seq = head.seq /\ log[Len(log)].ev.hash = head.hash
  <2>1. log[Len(log)].ev.seq = Len(log) - 1 /\ log[Len(log)].ev.seq <= head.seq
    BY <1>1, <1>2, <1>5, <1>6 DEF Unforked, NewestInv
  <2>2. head.seq + 1 \in 1..Len(log) /\ log[head.seq + 1].ev.hash = head.hash
    BY <1>2, <1>6 DEF HeadNamesEvent
  <2>3. head.seq + 1 = Len(log)
    BY <1>2, <1>5, <2>1, <2>2
  <2>4. QED
    BY <1>2, <1>5, <2>1, <2>2, <2>3
<1>7. QED
  BY <1>3, <1>4, <1>6, VerifyMeans

\* Steps that write nothing to the file, seal nothing and verify nothing.
LEMMA FileInvKept ==
    ASSUME VerifyInv, LockInv', UNCHANGED <<log, head, verdict, acked>>, happened \subseteq happened',
           \A p \in Procs : pc'[p] = "written" => pc[p] = "written" /\ pending'[p] = pending[p],
           happened' \subseteq {"edit"} =>
              \A p \in Procs : pc[p] = "written" => pc'[p] = "written"
    PROVE  FileInv'
<1> USE DEF VerifyInv, FileInv
<1>1. WrittenInv'
  BY DEF WrittenInv
<1>2. LinesInv' /\ AnchoredInv' /\ NewestInv'
  BY DEF LinesInv, AnchoredInv, NewestInv
<1>3. AllAckedInv'
  BY DEF AllAckedInv
<1>4. EditInv'
  <2> SUFFICES ASSUME happened' \subseteq {"edit"}
               PROVE  Broken(log) \/ HashedIn(log) = HashedAcked \cup HashedInHand'
    BY DEF EditInv, HashedAcked
  <2>1. HashedInHand' = HashedInHand
    BY DEF HashedInHand
  <2>2. QED
    BY <2>1 DEF EditInv
<1>5. VerdictInv'
  BY DEF VerdictInv
<1>6. QED
  BY <1>1, <1>2, <1>3, <1>4, <1>5

LEMMA LockStep ==
    ASSUME TypeInv, LockInv, [Next]_vars
    PROVE  LockInv'
<1> USE ProcsAssumption DEF TypeInv, TypeOK
<1>1. ASSUME NEW p \in Procs, OpenStat(p) \/ OpenScan(p) PROVE LockInv'
  BY <1>1 DEF OpenStat, OpenScan, LockInv
<1>2. ASSUME NEW p \in Procs, NEW entry \in Entries, AppendLock(p, entry) PROVE LockInv'
  <2>1. lock = NoProc /\ lock' = p /\ pc' = [pc EXCEPT ![p] = "locked"]
    BY <1>2 DEF AppendLock
  <2>2. QED
    BY <2>1 DEF LockInv
<1>3. ASSUME NEW p \in Procs, AppendWrite(p) PROVE LockInv'
  BY <1>3 DEF AppendWrite, LockInv
<1>4. ASSUME NEW p \in Procs, AppendWriteFails(p) \/ AppendSeal(p) PROVE LockInv'
  <2>1. pc[p] \in {"locked", "written"} /\ lock' = NoProc /\ pc' = [pc EXCEPT ![p] = "idle"]
    BY <1>4 DEF AppendWriteFails, AppendSeal
  <2>2. QED
    BY <2>1 DEF LockInv
<1>5. ASSUME NEW p \in Procs, Crash(p) PROVE LockInv'
  BY <1>5 DEF Crash, LockInv
<1>6. CASE VerifyOpen \/ VerifyMissing \/ VerifyRead \/ Tampering \/ UNCHANGED vars
  BY <1>6 DEF VerifyOpen, VerifyMissing, VerifyRead, Tampering, LoseTail, DeleteLog, EditEvent,
              DropEvent, vars, LockInv
<1>7. QED
  BY <1>1, <1>2, <1>3, <1>4, <1>5, <1>6 DEF Next, ProcStep, Tampering

LEMMA VerifyInit == Init => VerifyInv
<1> SUFFICES ASSUME Init PROVE VerifyInv
  OBVIOUS
<1>1. ChainInv
  BY ChainInit
<1>2. TypeInv /\ LockInv /\ Unforked(log) /\ log \in Seq(Chunks)
  BY <1>1 DEF ChainInv, UnforkedLog, TypeInv, TypeOK
<1>3. \A p \in Procs : pc[p] = "down"
  BY DEF Init
<1>4. WrittenInv
  BY <1>3 DEF WrittenInv
<1>5. LinesInv
  BY <1>2 DEF LinesInv, Unforked
<1>6. head # NoAnchor => log # << >> /\ head = [seq |-> log[Len(log)].ev.seq, hash |-> log[Len(log)].ev.hash]
  BY <1>2 DEF Init
<1>7. AnchoredInv
  BY <1>6 DEF AnchoredInv
<1>8. acked = {log[i].ev : i \in 1..Len(log)}
  BY DEF Init
<1>9. NewestInv
  <2> SUFFICES ASSUME head # NoAnchor, NEW ev \in acked PROVE ev.seq <= head.seq
    BY DEF NewestInv
  <2>1. PICK i \in 1..Len(log) : ev = log[i].ev
    BY <1>8
  <2>2. Len(log) \in Nat /\ Len(log) \in 1..Len(log)
    BY <1>2
  <2>3. log[i].ev.seq = i - 1 /\ log[Len(log)].ev.seq = Len(log) - 1
    BY <1>2, <2>2 DEF Unforked
  <2>4. head.seq = Len(log) - 1
    BY <1>6, <2>3
  <2>5. QED
    BY <2>1, <2>2, <2>3, <2>4
<1>10. AllAckedInv
  BY <1>8 DEF AllAckedInv
<1>11. EditInv
  <2>1. HashedInHand = {}
    BY <1>3 DEF HashedInHand
  <2>2. HashedIn(log) = HashedAcked
    BY <1>8 DEF HashedIn, HashedAcked
  <2>3. QED
    BY <2>1, <2>2 DEF EditInv
<1>12. VerdictInv
  BY DEF Init, VerdictInv
<1>13. FoundInv
  BY <1>3 DEF Init, FoundInv
<1>14. QED
  BY <1>1, <1>2, <1>4, <1>5, <1>7, <1>9, <1>10, <1>11, <1>12, <1>13
     DEF VerifyInv, FileInv, TornInv

LEMMA AppendWriteFile ==
    ASSUME VerifyInv, LockInv', NEW p \in Procs, AppendWrite(p)
    PROVE  FileInv'
<1> USE DEF VerifyInv, FileInv
<1>1. /\ pc[p] = "locked" /\ pending[p] \in Events /\ log \in Seq(Chunks)
      /\ pc' = [pc EXCEPT ![p] = "written"] /\ DOMAIN pc = Procs
      /\ UNCHANGED <<head, verdict, acked, happened, pending>>
  BY DEF AppendWrite, TypeInv, TypeOK, PendingOK
<1>2. Line(pending[p]) \in Chunks /\ Line(pending[p]).ev = pending[p] /\ Line(pending[p]).kind = "line"
  BY <1>1 DEF Line, Chunks
<1>3. log' = Append(log, Line(pending[p]))
  BY DEF AppendWrite
<1>4. /\ Len(log') = Len(log) + 1 /\ log' # << >>
      /\ \A i \in 1..Len(log) : log'[i] = log[i]
      /\ log'[Len(log) + 1] = Line(pending[p])
      /\ Broken(log) => Broken(log')
      /\ HashedIn(log') = HashedIn(log) \cup {Hashed(pending[p])}
  <2> DEFINE c == Line(pending[p])
  <2>1. c \in Chunks /\ c.ev = pending[p] /\ log' = Append(log, c) /\ log \in Seq(Chunks)
    BY <1>1, <1>2, <1>3
  <2> HIDE DEF c
  <2>2. /\ Len(log') = Len(log) + 1 /\ log' # << >>
        /\ \A i \in 1..Len(log) : log'[i] = log[i]
        /\ log'[Len(log) + 1] = c
        /\ Broken(log) => Broken(log')
        /\ HashedIn(log') = HashedIn(log) \cup {Hashed(c.ev)}
    BY <2>1, Longer
  <2>3. QED
    BY <2>1, <2>2 DEF c
<1>5. Len(log) \in Nat
  BY <1>1
<1>6. \A q \in Procs : q # p => pc[q] # "written" /\ pc'[q] = pc[q]
  BY <1>1 DEF LockInv
<1>7. pc'[p] = "written" /\ \A q \in Procs : pc[q] # "written"
  BY <1>1, <1>6
<1>8. WrittenInv'
  BY <1>1, <1>4, <1>5, <1>6, <1>7 DEF WrittenInv
<1>9. LinesInv'
  BY <1>1, <1>2, <1>4, <1>5 DEF LinesInv
<1>10. AnchoredInv' /\ NewestInv' /\ VerdictInv'
  BY <1>1, <1>4 DEF AnchoredInv, NewestInv, VerdictInv
<1>11. AllAckedInv'
  <2> SUFFICES ASSUME happened = {}, NEW i \in 1..Len(log')
               PROVE  log'[i].ev \in acked \/ (i = Len(log') /\ \E q \in Procs : pc'[q] = "written")
    BY <1>1 DEF AllAckedInv
  <2>1. CASE i \in 1..Len(log)
    BY <1>4, <1>7, <2>1 DEF AllAckedInv
  <2>2. CASE i = Len(log')
    BY <1>7, <2>2
  <2>3. QED
    BY <1>4, <1>5, <2>1, <2>2
<1>12. EditInv'
  <2>1. HashedInHand = {} /\ HashedInHand' = {Hashed(pending[p])}
    <3>1. {q \in Procs : pc[q] = "written"} = {} /\ {q \in Procs : pc'[q] = "written"} = {p}
      BY <1>6, <1>7
    <3>2. QED
      BY <1>1, <3>1 DEF HashedInHand
  <2>2. HashedAcked' = HashedAcked
    BY <1>1 DEF HashedAcked
  <2>3. QED
    BY <1>1, <1>4, <2>1, <2>2 DEF EditInv
<1>13. QED
  BY <1>8, <1>9, <1>10, <1>11, <1>12

LEMMA AppendSealFile ==
    ASSUME VerifyInv, LockInv', NEW p \in Procs, AppendSeal(p)
    PROVE  FileInv'
<1> USE DEF VerifyInv, FileInv
<1>1. /\ pc[p] = "written" /\ pending[p] \in Events /\ log \in Seq(Chunks) /\ DOMAIN pc = Procs
      /\ pc' = [pc EXCEPT ![p] = "idle"] /\ UNCHANGED <<log, verdict>>
      /\ acked' = acked \cup {pending[p]}
  BY DEF AppendSeal, TypeInv, TypeOK, PendingOK
<1>2. \A q \in Procs : pc'[q] # "written" /\ (q # p => pc[q] # "written")
  BY <1>1 DEF LockInv
<1>3. log # << >> /\ log[Len(log)] = Line(pending[p]) /\ log[Len(log)].ev = pending[p]
  BY <1>1 DEF WrittenInv, Line
<1>4. Len(log) \in Nat \ {0}
  BY <1>1, <1>3
<1>5. /\ happened \subseteq happened' /\ ("anchor" \notin happened' => happened' = happened)
      /\ "diskfull" \notin happened' => "diskfull" \notin happened
      /\ "loss" \notin happened' => "loss" \notin happened
      /\ "anchor" \notin happened' => head' = [seq |-> pending[p].seq, hash |-> pending[p].hash]
  BY DEF AppendSeal, write_head_anchor
<1>6. WrittenInv' /\ LinesInv' /\ AnchoredInv' /\ VerdictInv'
  BY <1>1, <1>2, <1>3, <1>5 DEF WrittenInv, LinesInv, AnchoredInv, VerdictInv
<1>7. NewestInv'
  <2> SUFFICES ASSUME happened' \subseteq {"crash"}, NEW ev \in acked' PROVE ev.seq <= head'.seq
    BY DEF NewestInv
  <2>1. head'.seq = pending[p].seq /\ ChainInv
    BY <1>5 DEF Undamaged
  <2>2. \A i \in 1..Len(log) : log[i].ev.seq = i - 1
    BY <2>1 DEF ChainInv, UnforkedLog, Unforked
  <2>3. pending[p].seq = Len(log) - 1
    BY <1>3, <1>4, <2>2
  <2>4. CASE ev \in acked
    <3>1. ev.seq + 1 \in 1..Len(log) /\ ev.seq \in Nat
      BY <2>1, <2>4 DEF ChainInv, AckedInPlace, TypeInv, TypeOK, Events
    <3>2. QED
      BY <1>4, <2>1, <2>3, <3>1
  <2>5. CASE ev = pending[p]
    BY <1>4, <2>1, <2>3, <2>5
  <2>6. QED
    BY <1>1, <2>4, <2>5
<1>8. AllAckedInv'
  <2> SUFFICES ASSUME happened' = {}, NEW i \in 1..Len(log) PROVE log[i].ev \in acked'
    BY <1>1 DEF AllAckedInv
  <2>1. CASE i = Len(log)
    BY <1>1, <1>3, <2>1
  <2>2. CASE i # Len(log)
    BY <1>1, <1>5, <2>2 DEF AllAckedInv
  <2>3. QED
    BY <2>1, <2>2
<1>9. EditInv'
  <2>1. HashedInHand = {Hashed(pending[p])} /\ HashedInHand' = {}
    <3>1. {q \in Procs : pc'[q] = "written"} = {} /\ {q \in Procs : pc[q] = "written"} = {p}
      BY <1>1, <1>2
    <3>2. QED
      BY <3>1 DEF HashedInHand
  <2>2. HashedAcked' = HashedAcked \cup {Hashed(pending[p])}
    BY <1>1 DEF HashedAcked
  <2>3. QED
    BY <1>1, <1>5, <2>1, <2>2 DEF EditInv
<1>10. QED
  BY <1>6, <1>7, <1>8, <1>9

LEMMA AppendWriteFailsFile ==
    ASSUME VerifyInv, LockInv', NEW p \in Procs, AppendWriteFails(p)
    PROVE  FileInv'
<1> USE DEF VerifyInv, FileInv
<1>1. /\ pc[p] = "locked" /\ pending[p] \in Events /\ log \in Seq(Chunks) /\ DOMAIN pc = Procs
      /\ pc' = [pc EXCEPT ![p] = "idle"] /\ UNCHANGED <<head, verdict, acked>>
      /\ happened' = happened \cup {"diskfull"}
  BY DEF AppendWriteFails, TypeInv, TypeOK, PendingOK
<1>2. \A q \in Procs : pc'[q] # "written"
  BY <1>1 DEF LockInv
<1>3. log # << >> => log' # << >>
  <2>1. ASSUME NEW kind \in {"part", "nonl"}, log' = Append(log, [kind |-> kind, ev |-> pending[p]])
        PROVE  log' # << >>
    <3>1. [kind |-> kind, ev |-> pending[p]] \in Chunks
      BY <1>1 DEF Chunks
    <3>2. QED
      BY <1>1, <2>1, <3>1, Longer
  <2>2. QED
    BY <2>1 DEF AppendWriteFails
<1>4. WrittenInv' /\ LinesInv' /\ AnchoredInv' /\ NewestInv' /\ AllAckedInv' /\ EditInv' /\ VerdictInv'
  BY <1>1, <1>2, <1>3 DEF WrittenInv, LinesInv, AnchoredInv, NewestInv, AllAckedInv, EditInv, VerdictInv
<1>5. QED
  BY <1>4

\* What is done to the file from outside, with the lock free.
LEMMA OutsideFile ==
    ASSUME VerifyInv, LockInv', Tampering
    PROVE  FileInv'
<1> USE DEF VerifyInv, FileInv
<1>1. /\ log \in Seq(Chunks) /\ lock = NoProc
      /\ UNCHANGED <<head, lock, pc, pending, verdict, acked>>
  BY DEF Tampering, LoseTail, DeleteLog, EditEvent, DropEvent, TypeInv, TypeOK
<1>2. \A q \in Procs : pc[q] # "written" /\ pc'[q] # "written"
  BY <1>1, FreeLock
<1>3. WrittenInv'
  BY <1>2 DEF WrittenInv
<1>4. HashedInHand = {} /\ HashedInHand' = {} /\ HashedAcked' = HashedAcked
  BY <1>1, <1>2 DEF HashedInHand, HashedAcked
<1>5. CASE LoseTail
  <2>1. happened' = happened \cup {"loss"}
    BY <1>5 DEF LoseTail
  <2>2. PICK n \in 0..(Len(log) - 1) : log' = SubSeq(log, 1, n)
    BY <1>5 DEF LoseTail
  <2>3. Len(log') = n /\ \A i \in 1..n : log'[i] = log[i] /\ i \in 1..Len(log)
    BY <1>1, <2>2
  <2>4. LinesInv'
    BY <2>1, <2>3 DEF LinesInv
  <2>5. AnchoredInv' /\ NewestInv' /\ AllAckedInv' /\ EditInv' /\ VerdictInv'
    BY <1>1, <2>1 DEF AnchoredInv, NewestInv, AllAckedInv, EditInv, VerdictInv
  <2>6. QED
    BY <1>3, <2>4, <2>5
<1>6. CASE EditEvent
  <2>1. happened' = happened \cup {"edit"} /\ "edit" \notin happened
    BY <1>6 DEF EditEvent, MayHappenOnce
  <2>2. PICK i \in 1..Len(log) :
           /\ log[i].kind = "line"
           /\ \E ev \in Altered(log[i].ev) \ {log[i].ev} : log' = [log EXCEPT ![i].ev = ev]
    BY <1>6 DEF EditEvent
  <2>3. PICK ev \in Altered(log[i].ev) : log' = [log EXCEPT ![i].ev = ev]
    BY <2>2
  <2>4. Len(log') = Len(log) /\ \A j \in 1..Len(log) : log'[j].kind = log[j].kind
    <3>1. log[i] \in Chunks
      BY <1>1
    <3>2. /\ Len(log') = Len(log) /\ log'[i] = [log[i] EXCEPT !.ev = ev]
          /\ \A j \in 1..Len(log) : j # i => log'[j] = log[j]
      BY <1>1, <2>3
    <3>3. log'[i].kind = log[i].kind
      BY <3>1, <3>2 DEF Chunks
    <3>4. QED
      BY <3>2, <3>3
  <2>5. LinesInv' /\ AnchoredInv'
    BY <1>1, <2>1, <2>4 DEF LinesInv, AnchoredInv
  <2>6. NewestInv' /\ AllAckedInv' /\ VerdictInv'
    BY <1>1, <2>1 DEF NewestInv, AllAckedInv, VerdictInv
  <2>7. EditInv'
    <3> SUFFICES ASSUME happened' \subseteq {"edit"}
                 PROVE  Broken(log') \/ HashedIn(log') = HashedAcked
      BY <1>4 DEF EditInv
    <3>1. happened = {}
      BY <2>1
    <3>2. ChainInv /\ (Broken(log) \/ HashedIn(log) = HashedAcked)
      BY <1>4, <3>1 DEF Undamaged, EditInv
    <3>3. Unforked(log)
      BY <3>2 DEF ChainInv, UnforkedLog
    <3>4. ~Broken(log)
      BY <3>3 DEF Unforked, Broken
    <3>5. Broken(log') \/ HashedIn(log') = HashedIn(log)
      BY <1>1, <2>3, <3>3, EditBreaks
    <3>6. QED
      BY <3>2, <3>4, <3>5
  <2>8. QED
    BY <1>3, <2>5, <2>6, <2>7
<1>7. CASE DropEvent
  <2>1. happened' = happened \cup {"edit"} /\ "edit" \notin happened
    BY <1>7 DEF DropEvent, MayHappenOnce
  <2>2. PICK i \in 1..(Len(log) - 1) :
           log' = Without(log, i)
    BY <1>7 DEF DropEvent, Without
  <2>3. log' # << >> /\ \A j \in 1..Len(log') : \E k \in 1..Len(log) : log'[j] = log[k]
    BY <1>1, <2>2, DropKeeps
  <2>4. LinesInv' /\ AnchoredInv'
    BY <1>1, <2>1, <2>3 DEF LinesInv, AnchoredInv
  <2>5. NewestInv' /\ AllAckedInv' /\ VerdictInv'
    BY <1>1, <2>1 DEF NewestInv, AllAckedInv, VerdictInv
  <2>6. EditInv'
    <3> SUFFICES ASSUME happened' \subseteq {"edit"} PROVE Broken(log')
      BY DEF EditInv
    <3>1. Unforked(log)
      BY <2>1 DEF Undamaged, ChainInv, UnforkedLog
    <3>2. QED
      BY <1>1, <2>2, <3>1, DropBreaks
  <2>7. QED
    BY <1>3, <2>4, <2>5, <2>6
<1>8. CASE DeleteLog
  <2>1. happened' = happened \cup {"loss"} /\ log' = << >>
    BY <1>8 DEF DeleteLog
  <2>2. LinesInv' /\ AnchoredInv' /\ NewestInv' /\ AllAckedInv' /\ EditInv' /\ VerdictInv'
    BY <1>1, <2>1 DEF LinesInv, AnchoredInv, NewestInv, AllAckedInv, EditInv, VerdictInv
  <2>3. QED
    BY <1>3, <2>2
<1>9. QED
  BY <1>5, <1>6, <1>7, <1>8 DEF Tampering

LEMMA VerifyReadFile ==
    ASSUME VerifyInv, LockInv', VerifyRead
    PROVE  FileInv'
<1> USE DEF VerifyInv, FileInv
<1>1. /\ lock = NoProc /\ verdict' = verify(log, head)
      /\ UNCHANGED <<log, head, lock, pc, pending, acked, happened>>
      /\ log \in Seq(Chunks)
  BY DEF VerifyRead, TypeInv, TypeOK
<1>2. /\ WrittenInv' /\ LinesInv' /\ AnchoredInv' /\ NewestInv' /\ AllAckedInv'
  BY <1>1 DEF WrittenInv, LinesInv, AnchoredInv, NewestInv, AllAckedInv
<1>3. EditInv'
  <2>1. HashedAcked' = HashedAcked /\ HashedInHand' = HashedInHand
    BY <1>1 DEF HashedAcked, HashedInHand
  <2>2. QED
    BY <1>1, <2>1 DEF EditInv
<1>4. "unparseable" = verdict' => "diskfull" \in happened
  BY <1>1, LinesParse, VerifyMeans DEF LinesInv
<1>5. "broken" = verdict' => happened \cap {"diskfull", "loss", "edit"} # {}
  <2> SUFFICES ASSUME Broken(log), happened \cap {"diskfull", "loss", "edit"} = {} PROVE FALSE
    BY <1>1, VerifyMeans
  <2>1. Undamaged
    BY DEF Undamaged, TypeInv, TypeOK, FaultKinds
  <2>2. Unforked(log)
    BY <2>1 DEF ChainInv, UnforkedLog
  <2>3. QED
    BY <2>2 DEF Unforked, Broken
<1>6. "truncated" = verdict' => happened # {}
  <2> SUFFICES ASSUME "truncated" = verdict', happened = {} PROVE FALSE
    OBVIOUS
  <2>1. log # << >>
    BY <1>1, VerifyMeans
  <2>2. Len(log) \in 1..Len(log)
    BY <1>1, <2>1
  <2>3. log[Len(log)].ev \in acked
    BY <1>1, <2>2, FreeLock DEF AllAckedInv
  <2>4. verify(log, head) = "ok"
    BY <2>1, <2>3, HealsAfterCrash
  <2>5. QED
    BY <1>1, <2>4
<1>7. "emptied" = verdict' => "loss" \in happened
  BY <1>1, VerifyMeans DEF AnchoredInv
<1>8. VerdictInv'
  BY <1>1, <1>4, <1>5, <1>6, <1>7 DEF VerdictInv
<1>9. QED
  BY <1>2, <1>3, <1>8

\* The file comes with its first event and goes only with a loss.
LEMMA FoundStep ==
    ASSUME VerifyInv, [Next]_vars
    PROVE  FoundInv'
<1> USE DEF VerifyInv, FoundInv
<1>1. pc \in [Procs -> {"down", "stat", "idle", "locked", "written"}] /\ log \in Seq(Chunks)
  BY DEF TypeInv, TypeOK
<1>2. ASSUME NEW p \in Procs, OpenStat(p) \/ OpenScan(p) \/ Crash(p) PROVE FoundInv'
  BY <1>1, <1>2 DEF OpenStat, OpenScan, Crash
<1>3. ASSUME NEW p \in Procs, NEW entry \in Entries, AppendLock(p, entry) PROVE FoundInv'
  <2>1. exists' /\ UNCHANGED <<found, vpc, verdict, happened>>
    BY <1>3 DEF AppendLock
  <2>2. QED
    BY <2>1
<1>4. ASSUME NEW p \in Procs, AppendWrite(p) \/ AppendWriteFails(p) PROVE FoundInv'
  <2>1. exists /\ exists'
    BY <1>4 DEF AppendWrite, AppendWriteFails
  <2>2. UNCHANGED <<found, vpc, verdict>> /\ happened \subseteq happened'
    BY <1>4 DEF AppendWrite, AppendWriteFails
  <2>3. QED
    BY <2>1, <2>2
<1>5. ASSUME NEW p \in Procs, AppendSeal(p) PROVE FoundInv'
  <2>1. exists /\ exists'
    BY <1>5 DEF AppendSeal
  <2>2. UNCHANGED <<found, vpc, verdict>> /\ happened \subseteq happened'
    BY <1>5, HappenedGrows DEF AppendSeal
  <2>3. QED
    BY <2>1, <2>2
<1>6. CASE VerifyOpen \/ VerifyRead \/ UNCHANGED vars
  <2>1. verdict' = "deleted" => verdict = "deleted"
    BY <1>6, VerifyType DEF VerifyOpen, VerifyRead, vars
  <2>2. UNCHANGED <<exists, log, pc, found, happened>>
    BY <1>6 DEF VerifyOpen, VerifyRead, vars
  <2>3. vpc' = "missing" => vpc = "missing" \/ ~exists
    BY <1>6 DEF VerifyOpen, VerifyRead, vars
  <2>4. QED
    BY <2>1, <2>2, <2>3
<1>7. CASE VerifyMissing
  <2>1. verdict' = "deleted" => head # NoAnchor /\ vpc = "missing"
    BY <1>7 DEF VerifyMissing
  <2>2. UNCHANGED <<exists, log, pc, found, happened>> /\ vpc' = "idle"
    BY <1>7 DEF VerifyMissing
  <2>3. QED
    BY <2>1, <2>2 DEF FileInv, AnchoredInv
<1>8. CASE LoseTail
  <2>1. PICK n \in 0..(Len(log) - 1) : log' = SubSeq(log, 1, n)
    BY <1>8 DEF LoseTail
  <2>2. log # << >>
    BY <1>1, <2>1
  <2>3. UNCHANGED <<exists, pc>> /\ "loss" \in happened'
    BY <1>8 DEF LoseTail
  <2>4. QED
    BY <2>2, <2>3
<1>9. CASE DeleteLog
  <2>1. \A p \in Procs : pc'[p] \notin {"locked", "written"}
    BY <1>9, FreeLock DEF DeleteLog, FileInv
  <2>2. QED
    BY <1>9, <2>1 DEF DeleteLog
<1>10. CASE EditEvent \/ DropEvent
  <2>1. log # << >>
    BY <1>1, <1>10 DEF EditEvent, DropEvent
  <2>2. UNCHANGED <<exists, pc, found, vpc, verdict>> /\ happened \subseteq happened'
    BY <1>10 DEF EditEvent, DropEvent
  <2>3. QED
    BY <2>1, <2>2
<1>11. ASSUME NEW p \in Procs, ProcStep(p) PROVE FoundInv'
  <2> HIDE DEF VerifyInv, FoundInv
  <2>1. QED
    BY <1>2, <1>3, <1>4, <1>5, <1>11 DEF ProcStep
<1>12. QED
  <2> HIDE DEF VerifyInv, FoundInv
  <2>1. QED
    BY <1>6, <1>7, <1>8, <1>9, <1>10, <1>11 DEF Next

\* A torn write that left nothing keeps the chain.
LEMMA ChainWriteFails ==
    ASSUME ChainInv, TypeInv', NEW p \in Procs, AppendWriteFails(p), UNCHANGED log
    PROVE  ChainInv'
<1>1. UnforkedLog' /\ AckedInPlace' /\ HeadNamesEvent'
  BY FileUnchanged DEF AppendWriteFails
<1> USE DEF ChainInv, TypeInv, TypeOK
<1>2. /\ pc[p] = "locked" /\ pc' = [pc EXCEPT ![p] = "idle"] /\ lock' = NoProc
      /\ auditor' = auditor /\ \A q \in Procs : q # p => pending'[q] = pending[q]
  BY DEF AppendWriteFails
<1>3. LockInv'
  BY <1>2, ProcsAssumption DEF LockInv
<1>4. auditor[p].seq = NextAt(log).seq /\ verify_link(NextAt(log).prev_hash, pending[p])
  BY <1>2 DEF AppendInv
<1>5. auditor[p].prev_hash = NextAt(log).prev_hash
  BY <1>2 DEF AppendInv
<1>6. CacheInv'
  BY <1>2, <1>4, <1>5 DEF CacheInv
<1>7. AppendInv'
  BY <1>2 DEF AppendInv
<1>8. QED
  BY <1>1, <1>3, <1>6, <1>7

\* A line that follows a torn one is torn for good.
LEMMA TornGrows ==
    ASSUME NEW file \in Seq(Chunks), NEW c \in Chunks,
           Torn(file) \/ (file # << >> /\ file[Len(file)].kind # "line")
    PROVE  Torn(Append(file, c))
<1> DEFINE longer == Append(file, c)
<1>1. /\ Len(longer) = Len(file) + 1
      /\ \A i \in 1..Len(file) : longer[i] = file[i]
  OBVIOUS
<1> HIDE DEF longer
<1>2. Len(file) \in Nat /\ (file # << >> => Len(file) \in 1..Len(file))
  OBVIOUS
<1>3. Torn(longer)
  BY <1>1, <1>2 DEF Torn
<1>4. QED
  BY <1>3 DEF longer

\* A torn write leaves the file clean, dangling or torn.
LEMMA TornStep ==
    ASSUME VerifyInv, [Next]_vars
    PROVE  TornInv'
<1> SUFFICES ASSUME happened' \cap {"loss", "edit"} = {}
             PROVE  ChainInv' \/ Dangling' \/ Torn(log)'
  BY DEF TornInv
<1>1. ~Tampering /\ happened \cap {"loss", "edit"} = {}
  BY HappenedGrows DEF Tampering, LoseTail, DeleteLog, EditEvent, DropEvent
<1>2. ChainInv \/ Dangling \/ Torn(log)
  BY <1>1 DEF VerifyInv, TornInv
<1>3. TypeInv' /\ TypeInv /\ LockInv
  BY TypeStep DEF VerifyInv, FileInv
<1>4. /\ log \in Seq(Chunks) /\ acked \subseteq Events
      /\ pc \in [Procs -> {"down", "stat", "idle", "locked", "written"}]
  BY <1>3 DEF TypeInv, TypeOK
<1>5. ASSUME NEW p \in Procs, AppendWriteFails(p)
      PROVE  ChainInv' \/ Dangling' \/ Torn(log)'
  <2>1. /\ pc[p] = "locked" /\ pending[p] \in Events /\ UNCHANGED acked
        /\ \A q \in Procs : pc'[q] # "written" /\ pc[q] # "written"
    BY <1>3, <1>4, <1>5 DEF AppendWriteFails, LockInv, TypeInv, PendingOK
  <2>2. CASE UNCHANGED log
    <3>1. CASE ChainInv
      BY <1>3, <1>5, <2>2, <3>1, ChainWriteFails
    <3>2. CASE Dangling
      BY <2>1, <2>2, <3>2 DEF Dangling, AckedInPlace
    <3>3. CASE Torn(log)
      BY <2>2, <3>3
    <3>4. QED
      BY <1>2, <3>1, <3>2, <3>3
  <2>3. ASSUME NEW kind \in {"part", "nonl"}, log' = Append(log, [kind |-> kind, ev |-> pending[p]])
        PROVE  Dangling' \/ Torn(log)'
    <3> DEFINE c == [kind |-> kind, ev |-> pending[p]]
    <3>1. c \in Chunks /\ c.kind # "line"
      BY <2>1 DEF Chunks
    <3> HIDE DEF c
    <3>2. log' = Append(log, c)
      BY <2>3 DEF c
    <3>3. CASE ChainInv
      <4>1. /\ Len(log') = Len(log) + 1 /\ log' # << >>
            /\ \A i \in 1..Len(log) : log'[i] = log[i]
            /\ log'[Len(log) + 1] = c
        BY <1>4, <3>1, <3>2, Longer
      <4>2. Len(log) \in Nat
        BY <1>4
      <4>3. AckedInPlace'
        BY <2>1, <3>3, <4>1, <4>2 DEF ChainInv, AckedInPlace
      <4>4. QED
        BY <2>1, <3>1, <4>1, <4>3 DEF Dangling
    <3>4. CASE Dangling \/ Torn(log)
      BY <1>4, <3>1, <3>2, <3>4, TornGrows DEF Dangling
    <3>5. QED
      BY <1>2, <3>3, <3>4
  <2>4. QED
    BY <1>5, <2>2, <2>3 DEF AppendWriteFails
<1>6. ASSUME NEW p \in Procs, AppendWrite(p), Dangling \/ Torn(log)
      PROVE  Torn(log)'
  <2>1. Line(pending[p]) \in Chunks /\ log' = Append(log, Line(pending[p]))
    BY <1>3, <1>6 DEF AppendWrite, TypeInv, PendingOK, Line, Chunks
  <2>2. QED
    BY <1>4, <1>6, <2>1, TornGrows DEF Dangling
<1>7. CASE ChainInv /\ \A p \in Procs : ~AppendWriteFails(p)
  BY <1>1, <1>7, ChainKept
<1>8. CASE /\ Dangling \/ Torn(log)
           /\ \A p \in Procs : ~AppendWriteFails(p) /\ ~AppendWrite(p)
  <2>1. UNCHANGED log
    BY <1>1, <1>8 DEF Next, ProcStep, Tampering, OpenStat, OpenScan, AppendLock, AppendSeal, Crash,
       VerifyOpen, VerifyMissing, VerifyRead, vars
  <2>2. CASE Torn(log)
    BY <2>1, <2>2
  <2>3. CASE Dangling
    <3>1. \A p \in Procs : ~AppendSeal(p)
      BY <2>3 DEF Dangling, AppendSeal
    <3>2. UNCHANGED acked
      BY <1>1, <1>8, <3>1 DEF Next, ProcStep, Tampering, OpenStat, OpenScan, AppendLock, Crash,
         VerifyOpen, VerifyMissing, VerifyRead, vars
    <3>3. \A p \in Procs : pc'[p] # "written"
      BY <1>1, <1>4, <1>8, <2>3, <3>1 DEF Dangling, Next, ProcStep, Tampering, OpenStat, OpenScan,
         AppendLock, Crash, VerifyOpen, VerifyMissing, VerifyRead, vars
    <3>4. QED
      BY <2>1, <2>3, <3>2, <3>3 DEF Dangling, AckedInPlace
  <2>4. QED
    BY <1>8, <2>2, <2>3
<1>9. QED
  BY <1>2, <1>5, <1>6, <1>7, <1>8

LEMMA VerifyStep == VerifyInv /\ [Next]_vars => VerifyInv'
<1> SUFFICES ASSUME VerifyInv, [Next]_vars PROVE VerifyInv'
  OBVIOUS
<1>1. TypeInv' /\ LockInv' /\ happened \subseteq happened'
  BY TypeStep, LockStep, HappenedGrows DEF VerifyInv, FileInv
<1>2. Undamaged' => ChainInv'
  BY <1>1, ChainStep DEF VerifyInv, Undamaged
<1>3. ASSUME NEW p \in Procs, OpenStat(p) \/ OpenScan(p) \/ Crash(p) \/ \E entry \in Entries : AppendLock(p, entry)
      PROVE  FileInv'
  <2>1. UNCHANGED <<log, head, verdict, acked>>
    BY <1>3 DEF OpenStat, OpenScan, Crash, AppendLock
  <2>2. pc \in [Procs -> {"down", "stat", "idle", "locked", "written"}] /\ DOMAIN pending = Procs
    BY DEF VerifyInv, TypeInv, TypeOK
  <2>3. \A q \in Procs : pc'[q] = "written" => pc[q] = "written" /\ pending'[q] = pending[q]
    BY <1>3, <2>2 DEF OpenStat, OpenScan, Crash, AppendLock
  <2>4. happened' \subseteq {"edit"} => \A q \in Procs : pc[q] = "written" => pc'[q] = "written"
    BY <1>3, <2>2 DEF OpenStat, OpenScan, Crash, AppendLock
  <2>5. QED
    BY <1>1, <2>1, <2>3, <2>4, FileInvKept
<1>4. ASSUME VerifyOpen \/ UNCHANGED vars PROVE FileInv'
  <2>1. UNCHANGED <<log, head, verdict, acked, pc, pending>>
    BY <1>4 DEF VerifyOpen, vars
  <2>2. \A q \in Procs : pc'[q] = "written" => pc[q] = "written" /\ pending'[q] = pending[q]
    BY <2>1
  <2>3. \A q \in Procs : pc[q] = "written" => pc'[q] = "written"
    BY <2>1
  <2>4. QED
    BY <1>1, <2>1, <2>2, <2>3, FileInvKept
<1>5. ASSUME VerifyMissing PROVE FileInv'
  <2>1. UNCHANGED <<log, head, acked, pc, pending, happened>> /\ verdict' \in {"ok", "deleted"}
    BY <1>5 DEF VerifyMissing
  <2>2. WrittenInv' /\ LinesInv' /\ AnchoredInv' /\ NewestInv' /\ AllAckedInv' /\ VerdictInv'
    BY <2>1 DEF VerifyInv, FileInv, WrittenInv, LinesInv, AnchoredInv, NewestInv, AllAckedInv, VerdictInv
  <2>3. EditInv'
    <3>1. HashedAcked' = HashedAcked /\ HashedInHand' = HashedInHand
      BY <2>1 DEF HashedAcked, HashedInHand
    <3>2. QED
      BY <2>1, <3>1 DEF VerifyInv, FileInv, EditInv
  <2>4. QED
    BY <1>1, <2>2, <2>3 DEF FileInv
<1>6. FileInv'
  BY <1>1, <1>3, <1>4, <1>5, AppendWriteFile, AppendSealFile, AppendWriteFailsFile, OutsideFile,
     VerifyReadFile DEF Next, ProcStep, Tampering
<1>7. FoundInv' /\ TornInv'
  BY FoundStep, TornStep
<1>8. QED
  BY <1>1, <1>2, <1>6, <1>7 DEF VerifyInv

\* With the lock free, a log that a torn write met and that still verifies has
\* every acknowledged event in its place.
LEMMA TornNotSilent ==
    ASSUME VerifyInv, lock = NoProc, happened \cap {"loss", "edit"} = {}, verify(log, head) = "ok"
    PROVE  AckedInPlace
<1>1. ~Torn(log)
  <2> SUFFICES ASSUME Torn(log) PROVE FALSE
    OBVIOUS
  <2>1. PICK i \in 1..(Len(log) - 1) : log[i].kind # "line"
    BY DEF Torn
  <2>2. Len(log) \in Nat
    BY DEF VerifyInv, TypeInv, TypeOK
  <2>3. i + 1 \in 1..Len(log) /\ i + 1 > 1 /\ (i + 1) - 1 = i
    BY <2>1, <2>2
  <2>4. ~Parses(log, i + 1)
    BY <2>1, <2>3 DEF Parses
  <2>5. ~Broken(log)
    BY VerifyMeans
  <2>6. \A j \in 1..i : verify_link(PrevHash(log, j), log[j].ev)
    BY <2>1, <2>2, <2>5 DEF Broken
  <2>7. (i + 1) - 1 = i
    BY <2>1, <2>2
  <2>8. verify(log, head) = "unparseable"
    BY <2>3, <2>4, <2>6, <2>7 DEF verify
  <2>9. QED
    BY <2>8
<1>2. QED
  BY <1>1 DEF VerifyInv, TornInv, Dangling, ChainInv

\* verify raises no alarm that healthy appends explain, and each kind of alarm
\* only after the damage it stands for, whatever processes append, die and
\* verify at once, but for the log whose first event comes between its look
\* for the file and its look at the anchor; a log that ends in an acknowledged
\* event after crashes verifies, and one that verifies after torn writes has
\* lost nothing it acknowledged (verify, write_head_anchor, Auditor::append).
THEOREM AlarmsExplained == Spec => []AlarmsHaveCause
<1>1. VerifyInv => AlarmsHaveCause
  BY HealsAfterCrash, TornNotSilent DEF AlarmsHaveCause, VerifyInv, FileInv, VerdictInv, FoundInv
<1>2. QED
  BY VerifyInit, VerifyStep, <1>1, PTL DEF Spec

\* No edit of a hashed field and no event dropped from the middle ever
\* verifies, for logs of any length and appends before and after the edit: not
\* even one that puts newer fields back to what an older payload generation
\* accepts (chain_hash, verify_link).
THEOREM EditsDetected == Spec => []HashedEditDetected
<1>1. VerifyInv => HashedEditDetected
  <2> SUFFICES ASSUME VerifyInv, lock = NoProc, happened \subseteq {"edit"}, verify(log, head) = "ok"
               PROVE  HashedIn(log) = HashedAcked
    BY DEF HashedEditDetected, HashedIn, HashedAcked
  <2>1. ~Broken(log)
    BY VerifyMeans
  <2>2. HashedInHand = {}
    <3>1. {q \in Procs : pc[q] = "written"} = {}
      BY FreeLock DEF VerifyInv, FileInv
    <3>2. QED
      BY <3>1 DEF HashedInHand
  <2>3. QED
    BY <2>1, <2>2 DEF VerifyInv, FileInv, EditInv
<1>2. QED
  BY VerifyInit, VerifyStep, <1>1, PTL DEF Spec
=============================================================================

# A TLA+ model of Decoyrail

Decoyrail is a local egress proxy for coding agents. An agent is given decoys in
place of its secrets; the proxy intercepts the agent's traffic, decides by policy
what may leave, puts the real secret in for its decoy where a rule releases it,
meters and limits the spend, and records everything in a hash-chained log. What
makes it hard to get right is not one algorithm but the sharing: several sessions
(proxy processes), CLI commands and an editor work on the same handful of files,
with a lock on two of them and none on the others, and inside one proxy many
requests are between two awaits at any moment.

The modules here model that, from the code under `src/src/`. Paths below are
relative to the repository (`src/src/audit.rs` is `audit.rs` of the crate).

## 1. Inventory

| Part | State | Operations | What is hard |
|---|---|---|---|
| Audit log (`audit.rs`) | `audit.jsonl`, `audit.head`; per process `seq`, `prev_hash`, `known_len` | `Auditor::open`, `append`, `verify`, `recover_tail` | several writers; a crash between line and anchor; a failed or partial write; verifying while others append; four generations of the hashed payload |
| Policy (`policy.rs`) | the rules in force | `evaluate`, `releases`, `expects`; `lint`, `lint_routes`, `releasing_rules` | first match wins; `escalate` resolves to a fallback; one glob covering another |
| Secret swap (`swap.rs`) | none | `apply` for the device vault, then the session's | which sighting of a decoy is replaced, which trips, which is quiet |
| DLP (`detect.rs`) | none | `apply`, five detectors, decoding under a budget | a mask that cannot reach its hit must block; finds that overlap; a budget that runs out |
| Request pipeline (`proxy.rs`, `softland.rs`) | one task per request | `pipeline_inner`, `MeteredStream`, `keepalive_fire` | decision, budget and trip are read before awaits and used after them; streams are billed after the response; every failure path |
| Keep-alive, fan-out (`cache.rs`) | template and fire count of each (host, model); per-key slot | `arm`, `due`; `enter`, `wait_for_leader`, `leader_ready`, drop | notify before wait; failed leaders; a fire long after its request |
| Cache doctor (`cache.rs`) | the last prefix of each key, counters; `cache.json` | `canonicalize`, `observe`, `note_repaired`, `warm_prefix_bytes`, `splice_marker`, `flush` | a body edited in place by a scanner; caps on prefix and keys; shared counters over a month |
| Spend meter (`meter.rs`) | `meter.json`; per session a delta and a merged view | `load`, `roll`, `over_budget`, `reload_merged`, `flush` | read-modify-write by many sessions; failed flushes; month roll-over |
| Spend tripwire (`watch.rs`) | `trip.json`; per session two rings and the trip in force | `observe`, `observe_cost`, `set_tripped`, `save_trip`, `clear_trip` | a sticky trip shared by mtime; bounded rings |
| Policy integrity (`integrity.rs`, CLI) | `policy.toml`, `policy.toml.sig` | `verify`, `install`, `bless_current`, `load_trusted`, `write_policy` | two files, two renames, no lock |
| Policy editing (`policy_edit.rs`) | a document whose tables have positions | `add`, `set`, `remove`, `move_rule`, `flush`, `set_default`, `set_escalate_fallback` | the text is ordered by positions that every edit must renew |
| Engine (`engine.rs`) | `ReloadState`: an mtime per file | `boot`, `refresh` | stat, load and apply are separate steps of concurrent requests |
| Statistics (`stats.rs`) | `stats.json`, a cache of what the log says | `load_and_catch_up`, `ingest_line`, `query` | resumes in the middle of a log that may have been replaced or cut |
| Waste report (`waste.rs`) | none | `report` | which repeats are one chain, and what of it is waste |
| License (`license.rs`) | `license.toml`, tier | `load_installed`, `parse_and_verify`, tier by date | the tier changes with the clock alone |
| Vault (`vault.rs`, `keyring.rs`) | encrypted vault, its key in a file or the keychain | add, remove, key migration | one of two places fails half way |
| Pricing (`pricing.rs`, `meter.rs`) | rates; a scanner over a stream | `SseUsageScanner`, `usage_from_value`, `rate_for`, `split_cost` | events split over chunks, lines too long to keep |
| Guard (`guard.rs`, `run` of `main.rs`) | the secrets of one session | `detect_env`, the environment of the child | layers of variables set over one another |
| CA, rest of the CLI, util (`ca.rs`, `main.rs`, ...) | | | I/O |

How they interact: a request calls `Engine::refresh` (every file whose mtime
moved is reloaded), then takes one policy decision, the budget verdict, the trip
verdict, rewrites, swap and DLP, then goes upstream through the fan-out gate, is
metered and flushed, and recorded; an append that fails withholds the response.
Sessions meet only in files: the log and the meter under an OS lock, `trip.json`
and the policy pair without. CLI commands are processes of their own.

What makes each part correct, and the properties that say so, is in section 3.

## 2. Modules

| Module | Models | Composes |
|---|---|---|
| `EventLog` | what an audit log promises: an abstract specification | |
| `AuditLog` | the log, its writers, the verifier, faults | implements `EventLog` |
| `EgressPolicy` | rule evaluation | |
| `SecretSwap` | swap for one and for both vaults, DLP | extends `EgressPolicy` |
| `SwapPath` | one request through decision, swap and DLP | extends `SecretSwap` |
| `RequestPipeline` | requests in flight, streams, pre-warms | extends `SecretSwap` |
| `SpendMeter` | sessions and `meter.json` | |
| `SpendTripwire` | detectors, `trip.json`, its hot reload | |
| `FanoutGate` | one slot of the gate | |
| `PolicyIntegrity` | the policy pair, proxies, CLI commands, an editor | |
| `StatsIngest` | the cache of `decoyrail stats` over a growing log | |
| `VaultKey` | the vault key in its file or in the keychain | |
| `License` | what a license file comes to on a day | |
| `EngineReload` | boot and hot reload of five files | extends `License` |
| `DoctorCounts` | the doctor's counters and how they are merged | |
| `CacheBody`, `CacheDoctor` | request bodies, their scanner and splice; the doctor's diagnosis | `CacheDoctor` extends `CacheBody`, `DoctorCounts` |
| `DoctorFlush` | the doctors of several processes and the `cache.json` they share | extends `DoctorCounts` |
| `UsageScan` | a response stream, its usage and its price | |
| `PolicyEdit`, `PolicyLint` | edits of `policy.toml`; warnings about it | |
| `WasteReport` | chains of repeated requests and what they cost | |
| `Detectors` | detectors, overlaps, masking, decoding | |
| `SessionVault` | secrets found in an environment, the child's environment | |
| `MCAlgorithms` | the sequential parts, one task at a time | extends `MCSecretSwap` and `DoctorFlush`, instantiates `CacheDoctor` and the modules from `UsageScan` on |
| `AuditLogProofs`, `PolicyIntegrityProofs`, `EngineReloadProofs`, `SpendTripwireProofs`, `VaultKeyProofs`, `StatsIngestProofs` | theorems and their proofs | extend their module and `TLAPS` |
| `RequestPipelineProofs` | the same for the life of a request: pipeline, swap and DLP, gate | extends `RequestPipeline`, `SwapPath`, `FanoutGate` |
| `SpendMeterProofs` | the same for counts that sessions merge into a file | extends `SpendMeter`, `DoctorFlush` |
| `MC*` | instances for TLC | extend their module |

`PROJECT.json` maps every definition to the lines it models. Definitions marked
"Variant" in a comment are wrong on purpose: each is a plausible bug of the
definition behind it, with which a property fails.

### AuditLog

A file is a sequence of chunks, one per `write_all`: a line, or what a write that
failed half way left (`part`, or `nonl` if only the newline is missing). A hash is
the sequence of payloads it commits to, so SHA-256 is taken as collision free and
nothing else is assumed of it. The four payload generations are kept, because
`verify_link` decides by the fields of an event which of them it accepts.
`OpenStat`/`OpenScan` are the two reads of `Auditor::open`, without a lock.
`AppendLock` takes the lock, resyncs and seals; `AppendWrite` writes the line;
`AppendSeal` writes the anchor (which may fail unnoticed), releases the lock and
acknowledges. `Crash` is possible at each label, and releases the lock as the OS
does. The verifier opens, then locks and reads (`VerifyOpen`, `VerifyRead`), or
looks at the anchor when there was no log (`VerifyMissing`). `LoseTail`, `DeleteLog`,
`EditEvent` and `DropEvent` are what `verify` exists to detect; they are not code.
The ghost `found` is the log as it was at the start: only where there was none can
its first event be appended beside a verifier that saw no file.

`EventLog` is what a caller may rely on: it asks, its record is added behind all
others at one moment while it waits, and what it was told is recorded stays where
it is. `Promise` in `AuditLog` instantiates it: the records are the events of the
file, a caller asks from the lock to the acknowledgement, and the file is damaged
once something other than crashes and failed anchors has happened.

### EgressPolicy, SecretSwap, SwapPath

A glob or prefix is the set of what it matches. A part of a request is the set of
things in it: a decoy, an encoded decoy, a real value, a spot of personal data.
`apply` follows the order of the code: headers, path, body, encoded forms; then
the second vault on what the first left, then DLP. A DLP configuration has a mode
for each of the five detectors. A spot names the detector whose value it is, or the
two detectors whose values overlap there, the one whose find is kept first:
`spot_mode` is the mode of the first that is not off, as `scan_text` drops the
other. It is in the clear or encoded, and what is seen only in a decoded view is a
window that the decode budget must pay for: `Scans` are the ways the budget can go,
which is to its end with nothing missed, or out with any of the windows missed and
`truncated` set. How many bytes each window takes is counted in `Detectors`.
`SwapPath` takes one request, for any policy, destination, transport and DLP modes,
through `Swap` (both vaults under the decision) and `Detect`, and states what must
hold of what is left.

### RequestPipeline

One action per stretch of `pipeline_inner` between two points other tasks can see:
`Refresh`, `Reload`, `Decide` (one lock, one policy), `CheckBudget`, `ReadBody`,
`WatchSpend`, `Rewrite` (soft-landing, route map, cache repair, in this order, each
only while the request is being let through), `SwapAndScan`, `Deny` or `Forward`,
`Respond`, `Meter`, `Record`. `Refresh` holds the reload mutex (`Reloading`): it
remembers the mtimes and reads a changed file; `Reload`, behind the await, puts what
was read in force, or reports a file that is `Rejected` (it does not parse or its
record does not match) and keeps the old policy. A request dropped between the two
loses that reload. `Record` decides by the result of the append whether the response
is delivered, and arms the keep-alive. A stream is billed by the task that
`MeteredStream::record` spawns: `StreamEnds` and `DropStream` both call `record`, in
either order and at any distance, and a response that is withheld or abandoned drops
the stream it had built (`Abandon`); then `Settle`, `UsageEvent`. `Hangup` is hyper
dropping the future at an await. `keepalive` has an entry for each (host, model) that
was armed, with its template, its fires and its watcher: `Due`, `Fire`, `FireEnds`.
A watcher looks at the policy in memory and a standing trip and at nothing else. The
ghost `current[s]` collects the policies that held (`Holding`) while request `s` was
undecided: the one on disk, and the last good one when the version on disk was
passed over, rejected or lost. Spend and trip are single variables here;
`SpendMeter` and `SpendTripwire` have what is behind them, `PolicyIntegrity` what
is behind `Refresh`, `AuditLog` what is behind `Audit`.

### SpendMeter

Amounts are units, a month a number, an mtime the number of the write. A task is a
request: `RefreshStat`, `Reload`, `Check`, `SampleNow` (the month is sampled
before the meter is locked), `Bill` (roll, record, flush) or `BillUnflushed` (the
flush fails and is ignored). `LoadUsage`/`LoadMtime` are the two halves of a
session's start. `Crash` loses the delta, counted in the ghost `lost`. The ghost
`late` says that a request was billed to a month that was over, and `hidden` counts
what was billed by requests whose flush failed, which no other session can see.
`Held` has one element for each unit that a session holds and the file does not
have, so that a sum over the sessions is a cardinality.

### SpendTripwire

The content and the mtime of `trip.json` are the number of its trip.
`RefreshStat`, `RefreshLoad`, `RefreshSet` are the three steps of the reload, with
the watch lock taken only in the last. `Observe` is step 3.35 of the pipeline with
both detectors; `MeetTrip` a standing trip; `Unwatched` mode "off"; `MeterCost`
the rate detector's input. `BootStat`/`BootLoad` are the two reads of a start,
`TripElsewhere` and `TripClear` other sessions and the CLI.

### FanoutGate

One key. Each atomic or lock-protected access is a step: `wait_for_leader` is
`WaitTest`, `WaitArm` (creating `Notified`), `WaitRetest`, `WaitEnds` or
`WaitTimesOut`; `leader_ready` is `ReadyStore`, `ReadyUnlead`, `ReadyNotify`; drop
is `DropNotify`, `DropLeave`.

### PolicyIntegrity

A text is a set of rules; a record holds the text it authenticates (the MAC cannot
be forged). Every read, stat and rename is a step: a proxy stats both files, reads,
verifies; a CLI edit loads, composes, passes the gate, writes the record, writes
the file; `policy sign` reviews, then reads again and blesses. Anyone may change
the files by hand between any two of these. `atomic_write` is one step. `Dropped` is
hyper dropping a request, and its refresh, at the await between load and apply. The
ghost `crashed` tells whether a command has died between record and policy and
whether a later one has run to its end since (`Mended`).

### StatsIngest

The log is a sequence of events that know where their line ends; the hash of a line
is the log up to it. The aggregator is kept as the code keeps it (offset, last hash and
seq, first integrity flag, rows by hour and model, pending streams), a bucket as
one counter per field, each amount being one unit. A query is `QueryAnchor`,
`LoadCache`, a `ReadLine` for each line, `ReadEnds` at the end of the file as it is
then, `SaveCache`, then its report: appends come between any two lines. The auditor
is reduced to what
a reader without a lock can see: part of a line, the line, the anchor.
The reference, `LogSays`, goes from the whole log to what each event contributes
and to which cell, with no order of processing in it.

### VaultKey

A key is a number, fresh when generated. Every access to `vault.key`, to the
keychain item and to the vault is a step: `load_or_create_key` is `resolve_backend`,
`first_run_keychain_default`, then `keychain_key_from`, or `CreateStore`,
`CreateVerify`, `CreateScrap`, `CreateAdopt`, or `FileKey`, `FileCreate`,
`FileWrite`; the migrations are `MigrateIn` to `ShredRemove` and `MigrateOut` to
`OutDelete`. The keychain may refuse any call and a process may die anywhere. The
ghost `clash` is set where processes meet that the code takes no step to keep
apart (section 5). Other homes and platforms have no item and no migration: they
are the file branch alone.

### EngineReload, License

One proxy, which boots (`BootLoad` for each file, then `BootStat` for each) and
refreshes before a request: for each file in the code's order `RefreshStat`,
`RefreshLoad`, `RefreshApply` or `reload_failed`, then `RefreshTier` and
`RefreshTell`. The reload mutex makes it one refresh at a time; `Drop` is a client
that hangs up at an await. Files change and days pass between any two steps. The
policy appears here with its pinned default action; its trust is in
`PolicyIntegrity`. `License` has the tiers, the grace and a signature, which is the
key that made it and the document it was made for.

### CacheBody, CacheDoctor, DoctorFlush

A JSON value is a tagged pair; a body is the sequence of its tokens, with
whitespace or without. `skip_value`, `object_member_value`, `array_last_element`
and `splice_marker` scan the tokens as the code scans the bytes, so a key inside a
nested object can be mistaken for one outside. `canonicalize` gives the labelled
prefix without markers; `observe` compares it with the last one of its key.

`DoctorFlush` is step 3.5 of the pipeline as the file sees it: each process has a
doctor behind a mutex, a request counts (`ObserveTurn`, or `ObserveSkips` when the
body is not a Messages request), may note a repair, and flushes. `FlushBegins` has
the mutex and reads the month; `FlushEnds` has the lock of the file, or `FlushFails`.
Which counters a request moves is an input here and computed in `CacheDoctor`; both
use the `merge`, `roll_period` and `flush` of `DoctorCounts`. Processes die
(`DoctorDies`) and the month turns at any time.

### UsageScan

A line of a stream is a number of cells and the event it carries; a chunk is any
cut of them. `feed` keeps the cells of the unfinished line up to a cap, and `finish`
takes the last. Four counts are read from the names each provider uses and merged by
maximum, then priced at the rate of the longest matching prefix.

### PolicyEdit, PolicyLint

A document is the rules in array order, each with the position of its table and of
its route table, and the position of `[dlp]`. `Loaded` is the document written and
parsed again. Hosts and globs are sequences of labels.

### WasteReport, Detectors, SessionVault

A request of the log is its fingerprint, its time and its cost. A text is a
sequence of numbers: digits, letters and separators; the lengths, prefixes and
groups the detectors look for are parameters, so that short texts suffice. An
encoded run is what its two decodings give. A value of the environment is its shape
and what it stands for; a decoy keeps the shape and stands for its secret.

## 3. Runs

"Pass" runs finish with no error; a "violation" run states one sentence of the
docs or comments and shows how the code departs from it.

**audit** (2 processes, 3 chunks, two kinds of entry, a log that is absent or was
begun by an early release; one kind of fault out of crash, failed anchor, full
disk, loss of the tail or of the file, edit per behaviour, any number of times but
for the outside changes). `ChainUnforked`: as long as nothing but crashes and failed
anchor writes happens, the chain never forks. `AppendsAreAtomic`: this is then an
implementation of `EventLog`. `AlarmsHaveCause`: each verdict of `verify`, "deleted"
included, racing everything else, is explained by a fault, with one exception that
it names (section 5); the false "truncated" that a crash between line and anchor
leaves is gone after the next append; and a torn write is not silent: while nothing
is lost or edited, a log that verifies has every acknowledged event where it was
put. `HashedEditDetected`: no edit of a
hashed field, no downgrade to an older generation and no dropped line passes. Two
processes are enough for a stale cached tail; three chunks for one event of each
process behind an old one.

**algorithms** (each sequential part over all of a set of small inputs, against a
definition that says what the result is rather than how it is computed).

* `RealOnlyWhereReleased`, `AnomalyTrips`, `DetectedNeverLeaves`: the threat model's
  invariants of swap and DLP, restated without the code's helpers. Every request
  with up to two things in two headers, the path or the body, which may not be UTF-8:
  decoys of three secrets in two vaults and encoded ones, under seven policies' worth
  of actions and lists, three destinations (two of which the rule that varies does
  not match) and both transports; and plain, overlapping and encoded spots of two
  detectors, an escape and a decoy, under all sixteen pairs of modes and every way
  the decode budget can go. Two detectors are enough for every overlap of two.
* `RepairIsInvisible`: the spliced body is the client's with one marker, in the place
  the comment names, and has the same prefix for the gate and the next diagnosis.
  Systems and tools of seven and four forms, with objects nested in them that look
  like the body itself, members in two orders, with and without whitespace.
* `DoctorExact`: the diagnosis of each request is the one that whole requests give,
  and a repair is asked for only of a prefix that has come again. Four observations
  of six bodies, two gaps, one key remembered.
* `DoctorAddsUp`: the file, the deltas and what died with a process are what was
  counted. Two processes, two requests in flight in one of them and one in the other,
  two requests counted in each of two months, failed flushes, deaths.
* `UsageBilled`: what a stream says is what is billed. Up to three events of two
  providers, CR LF or LF, lines kept up to four cells, every division into chunks.
* `EditIsLocal`: after one edit of a document of up to three rules the other rules,
  their order and their routes are as they were, once written and read, and the
  rule that was named is where it was asked to be.
* `ShadowTrue`: policies of up to three rules over six globs. A rule that is said
  to be shadowed never wins, and every rule under a plain broader one is said to be;
  an entry said to name nothing names no secret; a model is said to have no rate
  exactly when it would be charged the default.
* `WasteExact`: logs of four events; chains and their waste from the whole log.
* `DlpSound`: two or three values, near misses among them, joined by six glues; and a
  header and a body with up to two encoded runs under budgets of 0, 4, 7 and 40.
* `ChildSeesDecoys`: environments of up to three variables and five vaults.

The constants that cap something (prefix, keys, line, gap, lengths of numbers) are
set so low that every cap is reached.

**pipeline_serve** (one request at a time, seven kinds, one with a body that is not
text and one with an encoded value behind the decode budget, four policies, one of
which can replace the others, three kinds of failure at every step).
`OverridesHold`: five overrides and one verdict; what it says of detected values is
about what the detectors can read, a body that is not text is not scanned, and an
encoded value may leave only in a request whose scan says it was cut short.
`DeliveredIsRecorded`, `BilledOnce`: the failure paths around the append, and a
stream that is recorded at its end and again when it is dropped; a usage event is
written once and has a parent. `RewriteAnnounced`: soft-landing and route map
together. `StreamsSettle` under weak fairness of `Settles`: that is a spawned tokio
task with no wait on anyone but the meter and the log; nothing else is assumed to be
fair, since upstreams may be silent and agents may stop. No pre-warms here
(`PrewarmMax` is 0).

**pipeline_race** (two requests in flight, two policies, edits that install one of
them or are rejected, lost reloads, and the watchers of two keys: soft-landing sends
the one kind of request to a second model). `ReleaseIsCurrent`: a real value leaves
only under a policy that held between the arrival of its request and its decision.
`OvershootBounded`: what the check-then-bill order costs, pre-warms of every key
included, with one fire for each arming. The constraint `BilledOrEdited` keeps the
two questions apart: a behaviour in which spend has been billed is followed until the
file is edited, and one that was edited until spend is billed. The theorems have no
such bound.

**meter** (2 sessions, 3 requests at a time, 2 months, 4 billed requests, budget 1,
crashes and failed flushes). `NoneLost`: the file and the deltas are the spend.
`SwitchTracksSpend`: a session's view is real (`ViewIsReal`), what it has seen is
behind it (`SeenBacks`), and the sessions together overshoot the budget by no more
than what is in flight and what requests billed whose flush failed
(`OvershootBounded`). The second month makes `roll` and the file's roll happen in
either order. Most of this is stated for behaviours in which no request is billed to
a month that is over, and `SeenBacks` for sessions past their first reload: what
happens otherwise is in section 5.

**trip** (1 session followed in detail, others as `TripElsewhere`, 2 requests at a
time, 2 fingerprints, 3 requests, rings of 2, 2 trips, restarts, failed saves,
dropped refreshes, all modes). `StandingTripNoticed`: no overlap of refreshes, boots, trips and clears
leaves a session clear with nothing to make it look again. `RepeatExact`: rings
that are pruned from the front and capped agree with the whole history. Rings of 2
and 3 requests make both the cap and the prune happen.

**trip_clear** (violation). `ClearNoticed`.

**fanout** (4 requests of one key, which come back). `OneLeader`, `NoLostWakeup`,
and `SiblingsProceed` under weak fairness of a waiter's own steps,
its timeout included; no fairness for a leader. Four: a leader, one that waits, one
that arrives late, one that re-enters.

**policy** (1 proxy that is up, stops and boots; 1 CLI command at a time; 5 writes;
2 changes by hand; commands and the proxy may die, refreshes may be dropped). `LoadedWasBlessed`,
`FollowsFiles`: also between the two renames of an install, where a refresh must
raise the alarm and keep the old policy. `NotLaundered`: one change by hand, at any
point of a command. `AlwaysLoads`: what a command leaves loads, and so does what the
next leaves behind one that died between the renames. The conditions in the last
three (one change by hand, nothing half done, one command at a time) are the limits
of what the code does; section 5 has what lies beyond them.

**stats** (2 queries, up to 3 events in seven orders of traffic, 2 hours, 1 pending
stream, one loss of the tail). `HealthyNeverFlagged`: no query cries tampering at a
log that only grows, however it meets an append. `ReportTrue` has two parts.
`ReportExact`: what was counted line by line, moved when a usage event came, saved, resumed and overwritten by
another query equals what the log says. `UnflaggedIsTrue`: a shortened log is
either flagged or reported as what it is now. A cap of 1 makes the oldest pending
stream be forgotten; three events let a log lose two lines and grow past its old
length.

**vault** (2 release processes and a development build, 3 keys, 2 refusals or
deaths). `VaultOpens`: the next command finds the key the vault is encrypted with.
Behaviours are followed up to a clash. Three processes: two that race to create the
key and one that keeps out of the keychain; three keys for one that is scrapped.

**reload** (one proxy that starts twice, two changes of any of five files, files
that do not load, licenses of a stranger's key or with a date written over, days
that bring a license into its grace and past it, one request that hangs up).
`FollowsOrTold`: after a whole refresh a file that has not changed since is in force,
or its failure was announced for exactly this version. `TierTold`: the tier the log
tells is the one the license stands for. `ClockOnlyExpires`: days alone take
features away, after the grace, and never bring any. Two changes are a change while
a refresh is between stat and apply, and one more that it must see.

Deadlock is checked in `audit` and `fanout`. The other models stop when a bound is
used up, so it is not checked there.

## 4. Proofs

`tlapm` checks the eight proof modules. Each theorem is for every value of the
constants that satisfies the module's assumptions, so the bounds of section 3 are
gone: any number of processes, sessions and requests, any policies, any budget.

*AuditLogProofs.* `TypeCorrect`: `Spec => []TypeOK`; the invariant adds that a
process past the lock has a pending event. `ChainSafe`: `ChainUnforked`, `AckedKept`
and `HeadInLog`, for any number of processes and entries, any file found at start
that some release wrote, and any set of faults. The three are not inductive: whether
an append chains correctly depends on the tail the process has cached. `ChainInv`
adds `LockInv` (who is past the lock holds it), `CacheInv` (a cached tail whose
`known_len` is the length of the file is the tail of the file; this is where stat
before scan is needed) and `AppendInv` (a pending event chains from the end of the
file, a written one is its end). `ChainInv` holds while `happened` stays within
crashes and lost anchors, and since `happened` only grows (`HappenedGrows`), the
conditional properties follow. `LogImplementsPromise`: `AuditLog` implements
`EventLog`. The initial log is one of whole records, all acknowledged; and from
`ChainInv` each action maps to a step of the promise: `AppendLock` to `Ask`,
`AppendWrite` to `Record`, `AppendSeal` to `Return`, a refused or dead process to
`GiveUp`, the rest to none, and a step that damages the file to `Damage`, after
which nothing is promised. `ChainInv` is what makes `AppendWrite` append at the end
and `AppendSeal` acknowledge the place the record has.

`AlarmsExplained` and `EditsDetected`: `AlarmsHaveCause` and `HashedEditDetected`.
Both need what is true of the file after damage, where `ChainInv` is gone.
`VerifyInv` says it fault by fault: without a full disk every chunk is a line
(`LinesInv`), without a loss an anchored log is not empty (`AnchoredInv`), with
crashes only the anchor is not behind what was acknowledged (`NewestInv`), with no
fault all but the last line is acknowledged (`AllAckedInv`), and with edits only the
file has a broken link or holds in its hashed fields exactly what was written
(`EditInv`). The last is where the hash does its work: a file without a broken link
determines every hashed field, so an append after an edit cannot mend it. `FoundInv`
is why a verifier that says "deleted" without a loss met a log that was not there at
the start and is there now. `TornInv` is about failed writes: with nothing lost or
edited, either the chain is as `ChainInv` has it, or the file ends in a torn chunk
that nobody has written behind, with all acknowledged events in place, or there is a
torn chunk with something behind it, which never parses again (`TornGrows`) and so
never verifies.

*PolicyIntegrityProofs.* `TypeCorrect`: among others, nothing that does not parse
is enforced, installed or shown for review. `EnforcedWasBlessed`:
`LoadedWasBlessed`, for any number of proxies and commands, any rules, any changes
by hand, crashes anywhere. `TrustInv` adds `RecordIsBlessing`: the record on disk is
missing, garbled, or holds a text a record was written for; without it, verifying
would say nothing. `RunningFollowsFiles`: `FollowsFiles`, from `FollowInv`: mtimes
are numbers of writes (`MtimesAreWrites`), what a refresh has read is what is on disk
as long as the mtime it saw first says so (`ReadIsCurrent`), and, since two absent
files have the same mtime, how many deletions it takes to see one
(`MissingIsDeleted`, `AbsenceSeen`). `PolicyAlwaysLoads` and `TamperNotLaundered`:
`AlwaysLoads` and `NotLaundered`, from `InstallInv`, which says where rules written
by hand are: in no record, and in the file only while no record matches it; and that
a command about to write the policy has the record's text, which is why finishing
mends what a dead one left. Commands
take no lock, and two at once break both, so these two theorems have `[]OneAtATime`
as a hypothesis. The module assumes that rules written by hand are not among those
that a command writes; otherwise laundering could not be told from editing.

*EngineReloadProofs.* `RefreshFollows` (`FollowsOrTold`), `CrossingsTold`
(`TierTold`), `TimeOnlyExpires` (`ClockOnlyExpires`), for any texts, any license
documents and any number of changes. The heart of `ReloadInv` is `SeenStands`: a
file whose remembered mtime is the one on disk, and whose reload was not missed, is
in force or its failure was announced, unless a refresh is between its stat and its
apply; `ReadIsSeen` and `NoteStands` carry this over those steps. `TierInv` says that
the tier told is the tier, and that it is the license's on the day it was looked at.

*SpendTripwireProofs.* `TripNoticed` (`StandingTripNoticed`) needs `LoadedIsCurrent`:
what a refresh has loaded is what is on disk, as long as the mtime it saw before says
so. `RepeatsExact` (`RepeatExact`), for any window, threshold and capacity: the ring
is the end of the history, what was pruned from its front was out of the window or
beyond the capacity (`RingOf`), and the verdict on the last request was passed on
this ring (`Judged`). The count on the ring is then the number of repeats in the
history by a bijection between their places.

*RequestPipelineProofs.* `OverridesAlways`, `ReleasesCurrent`, `RewritesAnnounced`,
`DeliveriesRecorded`, `ResponsesBilledOnce`: the invariants of the two pipeline
runs, for any set of slots, policies and requests. Lemmas about `evaluate`, the two
swaps and DLP come first (what each leaves in a request, and that a real value comes
in only by a rule that releases it). `PipeInv` says of each slot what holds at each
place of the pipeline (`Good`: what is already decided, that nothing has been sent
before the verdict and what was sent passed it, what the agent was told and which
event stands for it, what is billed, and that a stream is recorded from its end or
drop on). `PolicyInv` is about the policies: an undecided request has seen all that
hold; one that is past its refresh has seen the policy in force; and what one request
is loading has been seen by every other that is past its refresh, since it was on
disk then or is read under the lock after them. Assumed: the names of secrets are distinct over both
vaults, agents hold decoys and no real value, a policy's actions are those of the
code. `OvershootAlways` (`OvershootBounded`): `SpendInv` says that, once the budget
is spent, what requests that had passed the check (`Payers`), the keep-alives they
can arm (`Armers`), the fires that entries have left (`Rounds`) and those on their way
(`Out`) may still spend only goes down, but where a new key raises it and the bound
alike. Assumed: a limit is set, and
a request costs at most one unit, the unit in which the overshoot is counted.

`RealsReleased`, `AnomaliesTrip`, `DetectedStays`: the invariants of `SwapPath`
(`RealOnlyWhereReleased`, `AnomalyTrips`, `DetectedNeverLeaves`), for any request, any
policy, any modes and spots, and any course of the decode budget. `SwapInv` relates what is held to the request as it came: a
real value that was not there stands for a decoy that was, in a part and under a rule
that release it (`Placed`); decoys and encoded forms only go (`NoneNew`); and while
no tripwire is set, the decoys that are left are quiet ones in their place (`Calm`).
Each is shown of one
vault (`ApplyPlaces`, `ApplyCalms`), carried over the second, which works on what
the first left (`BothPlace`), and kept by the scan (`ScanKeeps`). Assumed
(`NamesAssumption`, `InputsAssumption`): names are distinct over both vaults, and a
request comes with no real value.

`GateTypeCorrect`; `GateSafe`: `SlotLives` and `OneLeader`; `WakeupsKept`:
`NoLostWakeup`, for any finite set of requests. `GateInv` counts: `refs` is the number
of requests inside, by the cardinality theorems for adding and removing one;
`has_leader` is set while some guard leads; and a sibling between arming and waiting
that is not woken saw the flag unset, or the leader has yet to notify.

*VaultKeyProofs.* `VaultAlwaysOpens` (`VaultOpens`), for any number of commands of
either build, any refusals and deaths. `KeyInv` says, while nothing has clashed: no
migration runs beside a migration or a save (`Alone`), one process writes the key
file (`OneWriter`), and of each process where it has the key it works with: a writer
has truncated the file itself, a migration has the key in the place it does not yet
destroy, a save has the key that the next command will look up (`Good`).

*SpendMeterProofs.* `SpendConserved` (`NoneLost`) and `SwitchTracks`
(`SwitchTracksSpend`), for any finite sets of sessions and requests, any budget, any
number of months. `MeterInv`: nothing is dated after the current month (`PastInv`),
a session that is down has nothing (`DownInv`), what a session takes for the spend of
all was flushed by somebody and is no part of what is held (`RealInv`), a session
with the newest mtime has the file or has rolled past it (`SeenInv`), and, once the
file is over the budget, the number of requests that can still be billed (`Live`:
their session does not know, or they have passed the check) only goes down
(`OverInv`). `OvershootBounded` was at first stated without `hidden`, which TLC
accepts for a budget of 1; the proof showed that with more, each failed flush hides
its spend from the other sessions and adds to the overshoot.

`CountsAddUp` (`DoctorAddsUp`), for any finite set of processes, any number of
requests in flight, keys and months. `DoctorInv` adds that no count is of a month to
come, and that a flush which waits for the file has read a month no earlier than that
of its delta and is the only one of its process. So a flush of this month adds to the
file exactly what it takes from the delta; a late one finds nothing of this month in
the delta, and takes something from the file only if this month's is there, which is
the one exception the property makes. The sum over processes is the cardinality used
for the meter, with lemmas over any finite set.

*StatsIngestProofs.* `StatsSafe`, `HealthyIsQuiet` (`HealthyNeverFlagged`) and
`ReportsTrue` (`ReportTrue`), for any number of queries, any traffic, any cap on the
pending streams and any number of losses of the tail. What the report counts is a sum
over the log, of the cells that have traffic if the event has no model (`Traffic`), so
no induction over data is needed: a line changes the count of each
cell by what it contributes, and the sum by the cardinality theorems. `StatsInv` says
of every aggregate, cached or at work, that it is the report of the log up to its last
hash unless it carries a flag (`Tells`: offset, last seq, rows and pending streams; the
streams that are remembered are the last `PENDING_CAP` that are open, `Pend`); that,
while the log only grows, this log is a prefix of the one on disk and long enough for
what its query saw (`Whole`, `Covers`, `Grown`); and that after a loss it differs from
the log on disk only in lines written since (`Shares`, `Fresh`). Assumed: the kinds of
events are those of the code, and no event is numbered like the absence of one. The
condition of `UnflaggedIsTrue` that the log has not grown back since a loss was at
first that its lines are older than the last loss; the proof failed there, because
with two losses it may have grown back between them. `Checked` now asks that every
line is older than the first.

`TypeOK` of `AuditLog`, `FanoutGate` and `PolicyIntegrity`, `AckedKept`, `HeadInLog`
and `SlotLives` are proved and have no run of their own.

Only model-checked:

* `StreamsSettle` and `SiblingsProceed`: liveness under fairness.
* `ClearNoticed`: the code violates it.
* `RepairIsInvisible`, `DoctorExact`, `UsageBilled`, `EditIsLocal`, `WasteExact`,
  `ShadowTrue`, `DlpSound` and `ChildSeesDecoys`: what they speak of is computed by
  recursion over data (bodies, streams, documents, logs, texts), which needs an
  induction the prover cannot do, and the modules use recursive operators.

## 5. Where the code departs from its docs

Kept as a run (the finding in `PROJECT.json` quotes the sentence):

* `trip_clear`: `Observe` saves a trip without telling `ReloadState`. If `trip
  clear` comes before the session's next refresh, the remembered mtime equals the
  absent file and the session stays tripped.

Seen with these models, and stated as a condition of a property instead:

* `engine.rs:295` and the like: `refresh` remembers the mtimes, loads, and then waits for
  a lock. A client that hangs up there takes the reload with it: the old value stays
  in force until the file changes again. A hang-up before the append loses the entry
  of a tier crossing; `engine.rs:382`, "Tier crossings audit exactly once".
  (`FollowsFiles`, `FollowsOrTold`, `StandingTripNoticed` and `TierTold` leave a
  dropped reload out.)
* `meter.rs:376`: a request that sampled January and flushes after another has
  rolled `meter.json` to February rolls the file back and drops February's spend;
  `meter.rs:362`, "none loses the others' usage". (`NoneLost` says `~late`.)
* `integrity.rs:169`: `install` writes the record first and `refresh` watches its
  mtime too, so a request between the two writes raises a tamper alarm;
  `integrity.rs:153`, "a hot reload never sees a Decoyrail write half-applied".
  (`FollowsFiles` expects that alarm, `AlwaysLoads` says `NothingHalfDone`.)
* `proxy.rs:1563`: the keep-alive template is taken before DLP and `keepalive_fire`
  runs no DLP; `docs/dlp.md:40` says that a masked value is replaced.
  (`DetectedNeverLeaves` is about requests.)
* `stats.rs:918`: a log that lost lines and grew back to exactly the cached length
  is not read, and one whose new last seq reaches the anchor is not "truncated".
  (`UnflaggedIsTrue` says so.)
* `vault.rs:333`: two first runs that find no `vault.key` overwrite each other's
  key; a key is created in one place though one has appeared in the other. (`clash`,
  as for the next three.)
* `vault.rs:285`: an item that cannot be read back is scrapped "while nothing
  depends on it", but another process may have adopted it, and a failed delete is
  ignored.
* `vault.rs:431`, `vault.rs:474`: opposite migrations at once can each destroy the
  copy the other relies on; `vault add` beside a migration can save with a key that
  is moved away.
* `vault.rs:501`: a shred that dies after the overwrite leaves 32 junk bytes, and a
  second `key migrate` refuses because the two differ. The item is good
  (`VaultOpens`).
* `vault.rs:82`: the vault is written in place; a death in the middle leaves it
  unreadable. (`VaultOpens` is about a vault that was written.)
* `audit.rs:178`: no payload generation hashes `escalated`; `audit.rs:3` says any
  edit breaks the chain. (`Hashed` leaves the field out.)
* `audit.rs:352`: a lost tail is re-anchored by the next append; `audit.rs:441`
  says tail truncation is detected.
* `audit.rs:448`: a verify that found no log and reads the anchor after the very
  first append says "log deleted". (`AlarmsHaveCause` names this one false alarm: the
  log was not there at the start and is there now.)
* `audit.rs:342`: after a partial write the next line continues the torn one, and an
  acknowledged event does not parse (`audit.rs:368`, "already durably written").
  (`AlarmsHaveCause` says that such a log does not verify.)
* `proxy.rs:770`: a send that fails and a client that hangs up leave a request that
  was sent without its event; `docs/threat-model.md:46`, "every request is recorded".
* `proxy.rs:1566`: `keepalive_fire` consults neither the budget nor `refresh`;
  `docs/policy.md:256`, "exactly like a request your agent sent".
* `meter.rs:269`: a session's start reads the usage before the mtime, so a flush in
  between counts as seen. (`SeenBacks` begins with the first reload or flush.)
* `engine.rs:380`: `refresh` loads the trip before it takes the watch lock, and
  applies it over a trip raised in between. The file then differs, so the next
  refresh restores it (`StandingTripNoticed`).
* `cache.rs:816`: a failing leader notifies before it gives up the lead, so a
  sibling that arms in between sits out the timeout. (`SiblingsProceed` still holds.)
* `policy_edit.rs:364`: the gate verifies another read of the file than the one the
  edit was composed from. A second change by hand, or another command, that puts a
  trusted file back between the two lets what was composed from the first through.
  (`NotLaundered` allows one change by hand, at any point, and one command at a time.)
* `main.rs:1198`: what `policy sign` blesses is read after the confirmation.
* `integrity.rs:169`: two commands at once can leave the record of one beside the
  file of the other, and a command that dies between the renames leaves its record
  beside the old file. (`policy` has one command at a time; `AlwaysLoads` speaks of a
  dead command once a later one has run to its end, which need not be an edit: the
  gate of an edit refuses.)
* `engine.rs:193`: a policy installed between a boot's load and its stat is taken for
  seen. (`FollowsFiles` begins with the first reload.)
* `engine.rs:293`: an absent file has no mtime, so deleted, restored and deleted
  again looks unchanged. (`FollowsFiles` says so; `EngineReload` deletes a file once.)
* `config.rs:221`: `atomic_write` has one temporary name per file stem. Two writers
  of a file that no lock protects can rename each other's half-written text.
* `cache.rs:399`: a flush of the doctor that sampled the old month and got the lock
  in the new one wipes the new month's counters; `cache.rs:398`, "add up instead of
  clobbering". (`DoctorAddsUp` says `~clobbered`.)
* `cache.rs:86`: dropping `system` altogether is counted as a reset, which is said to
  have "stable tools/system". (`DiagnosisTrue` says so.)
* `cache.rs:208`: the section of a repair is `system` when that is a string, while the
  marker goes onto the last tool. Markers past the cap on the prefix are not counted,
  so a body that has one may get another.
* `waste.rs:13`: "the report and the enforcement agree on what a" loop is, but the
  report links requests by the gap between neighbours, the tripwire counts within a
  sliding window. (`WasteExact` is about gaps.)
* `policy_edit.rs:226`: `renumber` gives the rules new positions and leaves those of
  `[rule.route]` tables, so adding, moving or removing a rule can attach a route map
  to another rule. (`EditIsLocal` is about routes written inline.)
* `policy_edit.rs`: `set --action` writes the action as it was typed, and a rule whose
  name is a number is addressed by position.
* `policy.rs`, `releasing_rules`: a rule that escalates with fallback allow releases,
  but is not listed; `main.rs:728` then prints "Tripwire-only".
* `pricing.rs`: two events of one OpenAI stream that disagree on cached tokens are
  merged by maximum after the subtraction, which over-counts. (`UsageBilled` is about
  cumulative counts.)
* `detect.rs:353`: of overlapping finds the earliest and longest is kept, whatever the
  modes: a find to be masked behind one that only warns stays, and the tail of a
  dropped find is not masked. (`MaskSound` asks that each find begins in a kept one,
  and `Guarded` goes by the mode of the find that stays.)
* `detect.rs:784`: an encoded value past the decode budget leaves; `docs/dlp.md`
  says that the scan is bounded, and the audit event says so. (`DetectedNeverLeaves`
  and `OverridesHold` except it, if `truncated` is set.)
* `main.rs:533`: session decoys are set after the proxy variables. An inherited
  `HTTP_PROXY` with user and password looks like a connection string, and its decoy
  replaces the address of the proxy. (`ChildSeesDecoys` leaves it out.)
* `guard.rs:110`: a variable with a value the vault has under another name is passed
  on as it is; `main.rs` says "so the child never sees them". A test asserts the skip.

## 6. What is abstracted

* A write in place (`vault.json`, `vault.key`) is two steps.
* `atomic_write` is one step; two writers sharing a temporary name are not modelled.
* mtimes are unique per write; a filesystem with coarse mtimes is not modelled.
* Clocks only move forward.
* Amounts of money are units; the table of rates is data. In `SecretSwap` a hit and a
  match are inputs; `Detectors` and `PolicyLint` have where they come from, on short
  texts. Where an encoded run begins and what it decodes to is an input.
* In `SecretSwap` overlaps are of two values; the sizes of decoded windows are left
  open, so the budget may run out before any of them; a spot that stands in two places
  of a request is one window, missed in both or in neither.
* In `RequestPipeline` the policy pair is one file, trusted or `Rejected`; what may be
  written to it is the constant `Edits`. `keep_alive_max` is the constant `PrewarmMax`,
  though a policy may change it.
* Outside changes of the log (`LoseTail`, `DeleteLog`, `EditEvent`, `DropEvent`) come
  between appends, and the file is not deleted while a verifier has it open.
* A hash or MAC cannot be forged; a signature is the key that made it.
* A length of a prefix is the number of its values, not of its bytes.
* Header and body syntax, TLS, certificates, formatting and logging are left out.

## 7. Plan

Done, in order: `AuditLog`; `EgressPolicy`, `SecretSwap`; `RequestPipeline`;
`SpendMeter`; `SpendTripwire`; `FanoutGate`; `PolicyIntegrity`; `StatsIngest`;
`VaultKey`; the proofs of the audit log, the gate and the policy; `License`,
`EngineReload`; `CacheBody`, `CacheDoctor`; `UsageScan`; `PolicyEdit`, `PolicyLint`;
`WasteReport`; `Detectors`; `SessionVault`; `EventLog` and the proof that `AuditLog`
implements it; the proofs of the invariants of `RequestPipeline`, `SpendMeter`,
`SpendTripwire`, `EngineReload`, `VaultKey`, and the remaining ones of `AuditLog`,
`FanoutGate` and `PolicyIntegrity`; `SwapPath` and `DoctorFlush`, and the proofs of
swap and DLP, of the doctors' counts and of the statistics.

Not modelled: the certificate authority (key generation and X.509; its only state is
a map from host to certificate that is filled on demand); TLS and HTTP parsing;
argument parsing and output of the CLI; encryption of the vault.

Next, in order:

1. Rows of the statistics by session and host; two steps of `atomic_write`.
2. The gate as an abstract specification, "at most one writer at a time", and the
   proof that `FanoutGate` implements it.

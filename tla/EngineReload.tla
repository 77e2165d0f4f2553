---------------------------- MODULE EngineReload ----------------------------
(***************************************************************************)
(* Boot and hot reload of src/src/engine.rs: a proxy reads its vault,      *)
(* policy, budget, pricing and license when it starts, remembers their     *)
(* mtimes, and looks at them again before each request.  The files change  *)
(* between any two reads, the days go by, and the client whose request     *)
(* refreshes may hang up, which drops the refresh at the await it is in.   *)
(*                                                                         *)
(* The reload state is behind a mutex: one refresh at a time.  Its last    *)
(* two parts, the trip and the meter, are in SpendTripwire and SpendMeter; *)
(* how a policy comes to be trusted is in PolicyIntegrity.  An mtime is    *)
(* the number of the write, 0 for no file.                                 *)
(***************************************************************************)
EXTENDS License, Sequences, Functions

CONSTANTS
    Texts,       \* Texts[f]: what somebody may put in file f
    Loadable,    \* Loadable[f]: those of them that load
    Trusted,     \* the verification keys of the build
    NoFile,      \* no text
    Default,     \* what a file that is not there stands for
    Override,    \* the default action the session pins, or "none"
    Dates,       \* the days that may come
    MaxWrites,   \* bound on the changes of files
    MaxBoots,    \* bound on the starts of the proxy
    MaxDrops     \* bound on the requests that hang up

Files == <<"vault", "policy", "budget", "pricing", "license">>
FileSet == Range(Files)

ASSUME ReloadConstants ==
    /\ DOMAIN Texts = FileSet /\ DOMAIN Loadable = FileSet
    /\ \A f \in FileSet : /\ Loadable[f] \subseteq Texts[f] /\ NoFile \notin Texts[f]
                          /\ Loadable[f] # {}
    /\ \A t \in Texts["license"] : t.doc = Rejected \/ t.doc \in Documents
    /\ Dates \subseteq 0..LastDay /\ 0 \in Dates
    /\ MaxWrites \in Nat /\ MaxBoots \in Nat /\ MaxDrops \in Nat

VARIABLES
    disk,    \* disk[f]: text and mtime
    today,
    pc,      \* where boot or refresh is
    at,      \* the index of the file it is at
    read,    \* what it has read of that file
    seen,    \* ReloadState: the mtimes
    tier,    \* ReloadState.tier
    value,   \* value[f]: what is in force
    writes, boots, drops,
    warned,  \* ghost: the version of f whose failure was last announced
    told,    \* ghost: the tier at boot, then the one of the last crossing in the log
    fresh,   \* ghost: the files that have not changed since a whole refresh began
    same,    \* ghost: the files that have not changed since this one began
    missed,  \* ghost: missed[f]: the mtime of f that is remembered in vain
    untold,  \* ghost: a tier crossing did not make it into the log
    checked, \* ghost: the day the tier was last looked at
    gone     \* ghost: the files that were absent at some time

proxy  == <<pc, at, read, seen, tier, value>>
ghosts == <<warned, told, fresh, missed, untold, checked>>
vars   == <<disk, today, proxy, writes, boots, drops, ghosts, same, gone>>

Nothing == [text |-> NoFile, mtime |-> 0]
Never   == -1

-----------------------------------------------------------------------------
(***************************************************************************)
(* What a load comes to.  A missing file is a default; a budget that does  *)
(* not parse is the default too; a license is what its signature says.     *)
(***************************************************************************)
load_budget(text) == IF text \in Loadable["budget"] THEN text ELSE Default

load_installed(text) ==
    IF text = NoFile THEN NoLicense ELSE parse_and_verify(text, Trusted)

LoadOrDefault(f, text) ==
    IF text = NoFile THEN Default ELSE IF text \in Loadable[f] THEN text ELSE Rejected

Loads(f, text) ==
    CASE f = "budget"  -> load_budget(text)
      [] f = "license" -> load_installed(text)
      [] OTHER         -> LoadOrDefault(f, text)

Failed(f, text) == Loads(f, text) = Rejected

\* The session's default action outlives an edit of the policy.
Pinned(f, v) ==
    IF f = "policy" /\ Override # "none" /\ v # Default
    THEN [v EXCEPT !.default_action = Override] ELSE v

InForce(f, text) == Pinned(f, Loads(f, text))

-----------------------------------------------------------------------------
NoTimes  == [f \in FileSet |-> Never]
NoValues == [f \in FileSet |-> IF f = "license" THEN NoLicense ELSE Default]

Init ==
    /\ gone \in SUBSET {"license"}
    /\ disk = [f \in FileSet |-> IF f \in gone THEN Nothing
                                 ELSE [text |-> CHOOSE t \in Loadable[f] : TRUE, mtime |-> 1]]
    /\ today = 0 /\ pc = "down" /\ at = 1 /\ read = Nothing
    /\ seen = NoTimes /\ tier = Free /\ value = NoValues
    /\ writes = 1 /\ boots = 0 /\ drops = 0
    /\ warned = NoTimes /\ missed = NoTimes /\ told = Free
    /\ fresh = {} /\ same = {} /\ untold = FALSE /\ checked = Never

file == Files[at]
Outside == <<disk, today, writes, gone>>

\* The process ends and its memory with it.
Gone ==
    /\ pc' = "down" /\ at' = 1 /\ read' = Nothing
    /\ seen' = NoTimes /\ tier' = Free /\ value' = NoValues
    /\ warned' = NoTimes /\ missed' = NoTimes /\ told' = Free
    /\ fresh' = {} /\ same' = {} /\ untold' = FALSE /\ checked' = Never

\* Boot reads the files one after the other; only a license that is rejected
\* does not stop it.
Boot ==
    /\ pc = "down" /\ boots < MaxBoots
    /\ boots' = boots + 1
    /\ pc' = "boot"
    /\ UNCHANGED <<at, read, seen, tier, value, drops, ghosts, same>>
    /\ UNCHANGED Outside

BootLoad ==
    /\ pc = "boot" /\ at <= Len(Files)
    /\ IF file # "license" /\ Failed(file, disk[file].text)
       THEN Gone
       ELSE /\ value' = [value EXCEPT ![file] =
                           IF Failed(file, disk[file].text) THEN NoLicense
                           ELSE InForce(file, disk[file].text)]
            /\ warned' = IF Failed(file, disk[file].text)
                         THEN [warned EXCEPT ![file] = disk[file].mtime] ELSE warned
            /\ at' = at + 1
            /\ seen' = [seen EXCEPT ![file] = disk[file].mtime]
            /\ UNCHANGED <<pc, read, tier, told, fresh, missed, untold, checked, same>>
    /\ UNCHANGED <<boots, drops>>
    /\ UNCHANGED Outside

\* The mtimes are taken after the loads, so a file that changed in between is
\* remembered though it was not read.
BootStat ==
    /\ pc = "boot" /\ at > Len(Files)
    /\ tier' = current_tier(value["license"], today)
    /\ told' = tier' /\ untold' = FALSE
    /\ seen' = [f \in FileSet |-> disk[f].mtime]
    /\ missed' = [f \in FileSet |-> IF seen[f] # disk[f].mtime THEN disk[f].mtime ELSE Never]
    /\ pc' = "serving" /\ at' = 1
    /\ UNCHANGED <<read, value, boots, drops, warned, fresh, checked, same>>
    /\ UNCHANGED Outside

-----------------------------------------------------------------------------
Refresh ==
    /\ pc = "serving"
    /\ pc' = "stat" /\ at' = 1 /\ same' = FileSet
    /\ UNCHANGED <<read, seen, tier, value, boots, drops, ghosts>> /\ UNCHANGED Outside

\* On to the next file, or to the tier.
NextFile == at' = at + 1 /\ pc' = IF at < Len(Files) THEN "stat" ELSE "tier"

RefreshStat ==
    /\ pc = "stat"
    /\ IF disk[file].mtime = seen[file]
       THEN NextFile /\ UNCHANGED seen
       ELSE seen' = [seen EXCEPT ![file] = disk[file].mtime] /\ pc' = "load" /\ UNCHANGED at
    /\ UNCHANGED <<read, tier, value, boots, drops, ghosts, same>> /\ UNCHANGED Outside

\* A failure is announced on stderr, then in the log; the old value stays.
RefreshLoad ==
    /\ pc = "load"
    /\ IF Failed(file, disk[file].text) /\ file # "license"
       THEN warned' = [warned EXCEPT ![file] = disk[file].mtime] /\ pc' = "note" /\ UNCHANGED read
       ELSE read' = disk[file] /\ pc' = "apply" /\ UNCHANGED warned
    /\ UNCHANGED <<at, seen, tier, value, boots, drops, told, fresh, missed, untold, checked, same>>
    /\ UNCHANGED Outside

\* Variant: the mtime is taken once the value is in force.
RefreshApplyStat ==
    /\ pc = "apply"
    /\ value' = [value EXCEPT ![file] = IF Failed(file, read.text) THEN NoLicense
                                        ELSE InForce(file, read.text)]
    /\ seen' = [seen EXCEPT ![file] = disk[file].mtime]
    /\ missed' = [missed EXCEPT ![file] = Never]
    /\ IF Failed(file, read.text)
       THEN warned' = [warned EXCEPT ![file] = read.mtime] /\ pc' = "note" /\ UNCHANGED at
       ELSE NextFile /\ UNCHANGED warned
    /\ read' = Nothing
    /\ UNCHANGED <<tier, boots, drops, told, fresh, untold, checked, same>>
    /\ UNCHANGED Outside

\* The lock on the value is awaited.  A rejected license is no license.
RefreshApply ==
    /\ pc = "apply"
    /\ value' = [value EXCEPT ![file] = IF Failed(file, read.text) THEN NoLicense
                                        ELSE InForce(file, read.text)]
    /\ missed' = [missed EXCEPT ![file] = Never]
    /\ IF Failed(file, read.text)
       THEN warned' = [warned EXCEPT ![file] = read.mtime] /\ pc' = "note" /\ UNCHANGED at
       ELSE NextFile /\ UNCHANGED warned
    /\ read' = Nothing
    /\ UNCHANGED <<seen, tier, boots, drops, told, fresh, untold, checked, same>>
    /\ UNCHANGED Outside

\* audit_note: a log that cannot be written changes nothing here.
reload_failed ==
    /\ pc = "note"
    /\ NextFile
    /\ missed' = [missed EXCEPT ![file] = Never]
    /\ UNCHANGED <<read, seen, tier, value, boots, drops, warned, told, fresh, untold,
                   checked, same>>
    /\ UNCHANGED Outside

Done == pc' = "serving" /\ at' = 1 /\ fresh' = same

\* Variant: the tier is looked at while there is a license.
RefreshTierLicensed ==
    /\ pc = "tier"
    /\ LET now == current_tier(value["license"], today) IN
       IF now = tier \/ value["license"] = NoLicense
       THEN Done /\ UNCHANGED tier
       ELSE tier' = now /\ pc' = "tell" /\ UNCHANGED <<at, fresh>>
    /\ checked' = today
    /\ UNCHANGED <<read, seen, value, boots, drops, warned, told, missed, untold, same>>
    /\ UNCHANGED Outside

\* A crossing is remembered, then audited.
RefreshTier ==
    /\ pc = "tier"
    /\ LET now == current_tier(value["license"], today) IN
       IF now = tier
       THEN Done /\ UNCHANGED tier
       ELSE tier' = now /\ pc' = "tell" /\ UNCHANGED <<at, fresh>>
    /\ checked' = today
    /\ UNCHANGED <<read, seen, value, boots, drops, warned, told, missed, untold, same>>
    /\ UNCHANGED Outside

RefreshTell ==
    /\ pc = "tell"
    /\ Done
    /\ told' = tier /\ untold' = FALSE
    /\ UNCHANGED <<read, seen, tier, value, boots, drops, warned, missed, checked, same>>
    /\ UNCHANGED Outside

\* The client hangs up at an await: what was remembered stays remembered.
Drop ==
    /\ pc \in {"apply", "note", "tier", "tell"} /\ drops < MaxDrops
    /\ drops' = drops + 1
    /\ missed' = IF pc = "apply" THEN [missed EXCEPT ![file] = seen[file]] ELSE missed
    /\ untold' = (untold \/ pc = "tell")
    /\ pc' = "serving" /\ at' = 1 /\ read' = Nothing
    /\ UNCHANGED <<seen, tier, value, boots, warned, told, fresh, checked, same>>
    /\ UNCHANGED Outside

Stop ==
    /\ pc # "down" /\ boots < MaxBoots
    /\ Gone
    /\ UNCHANGED <<boots, drops>>
    /\ UNCHANGED Outside

-----------------------------------------------------------------------------
\* Somebody writes a file, in one piece, or removes it, at most once.
Change(f, new) ==
    /\ disk' = [disk EXCEPT ![f] = new]
    /\ fresh' = fresh \ {f} /\ same' = same \ {f}
    /\ UNCHANGED <<today, proxy, boots, drops, warned, told, missed, untold, checked>>

Write(f) ==
    /\ writes < MaxWrites /\ writes' = writes + 1
    /\ \E t \in Texts[f] : Change(f, [text |-> t, mtime |-> writes'])
    /\ UNCHANGED gone

Delete(f) ==
    /\ disk[f] # Nothing /\ f \notin gone /\ f # "policy"
    /\ writes < MaxWrites /\ writes' = writes + 1
    /\ Change(f, Nothing)
    /\ gone' = gone \cup {f}

Day ==
    /\ \E d \in Dates : d > today /\ today' = d
    /\ UNCHANGED <<disk, proxy, writes, boots, drops, ghosts, same, gone>>

Next ==
    \/ Boot \/ BootLoad \/ BootStat
    \/ Refresh \/ RefreshStat \/ RefreshLoad \/ RefreshApply \/ reload_failed
    \/ RefreshTier \/ RefreshTell \/ Drop \/ Stop
    \/ \E f \in FileSet : Write(f) \/ Delete(f)
    \/ Day

Spec == Init /\ [][Next]_vars

-----------------------------------------------------------------------------
(***************************************************************************)
(* Properties.                                                             *)
(***************************************************************************)
\* refresh's comments: a change takes "effect on a running proxy without a
\* restart", and a failure "must never be silent".  After a whole refresh, a
\* file that has not changed since is in force as it stands, or its failure
\* was announced for exactly this version and, for a license, the free tier
\* is in force.  (Except for a version that a boot read too early, or whose
\* reload was dropped; the next version takes effect again.)
FollowsOrTold ==
    \A f \in fresh : missed[f] # disk[f].mtime =>
       IF Failed(f, disk[f].text)
       THEN warned[f] = disk[f].mtime /\ (f = "license" => value[f] = NoLicense)
       ELSE value[f] = InForce(f, disk[f].text)

\* "Tier crossings audit exactly once, whether driven by a file change above
\* or by the date": on the day of a whole refresh, the tier the log tells is
\* the one the installed license stands for, if the entry of the last crossing
\* was not dropped.
TierTold ==
    (/\ "license" \in fresh /\ checked = today /\ pc # "tell" /\ ~untold
     /\ missed["license"] # disk["license"].mtime) =>
       told = LET doc == load_installed(disk["license"].text)
              IN current_tier(IF doc = Rejected THEN NoLicense ELSE doc, today)

\* "Features stay unlocked -- never brick on time": while the license is the
\* same, the passing of days takes features away once, after the grace, and
\* never brings any.
ClockOnlyExpires ==
    [][today' # today =>
         LET before == current_tier(value["license"], today)
             after  == current_tier(value'["license"], today')
         IN \/ after = before
            \/ after = Free /\ today' > value["license"].expires + value["license"].grace_days]_vars
=============================================================================

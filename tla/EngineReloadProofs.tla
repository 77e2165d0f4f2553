------------------------- MODULE EngineReloadProofs -------------------------
(***************************************************************************)
(* Proofs about EngineReload, for any texts of the files, any number of    *)
(* changes of them, of starts of the proxy and of requests that hang up,   *)
(* and any days.                                                           *)
(***************************************************************************)
EXTENDS EngineReload, TLAPS

-----------------------------------------------------------------------------
(***************************************************************************)
(* The invariant.  All of it serves one fact: as long as the remembered    *)
(* mtime of a file is the one on disk, what is in force is what is on      *)
(* disk, except for the file that is being reloaded.                       *)
(***************************************************************************)
Labels == {"down", "boot", "serving", "stat", "load", "apply", "note", "tier", "tell"}
InFile == {"stat", "load", "apply", "note"}

LicenseValues == {NoLicense} \cup Documents

\* A file that is there has the number of its write; one that is not was
\* removed, which happens once.
Version(f) ==
    \/ disk[f] = Nothing /\ f \in gone
    \/ disk[f] \in [text : Texts[f], mtime : 1..writes]

Types ==
    /\ pc \in Labels /\ at \in 1..6
    /\ pc \in InFile => at <= 5
    /\ pc \in {"tier", "tell"} => at = 6
    /\ seen \in [FileSet -> Int] /\ missed \in [FileSet -> Int] /\ warned \in [FileSet -> Int]
    /\ DOMAIN value = FileSet /\ value["license"] \in LicenseValues
    /\ fresh \subseteq FileSet /\ same \subseteq FileSet
    /\ writes \in Nat /\ today \in 0..LastDay /\ checked \in Int /\ checked <= today
    /\ DOMAIN disk = FileSet

Versions ==
    \A f \in FileSet : Version(f) /\ seen[f] <= writes /\ (seen[f] = 0 => f \in gone)

\* A version of a file is in force or its failure was announced.
Stands(f, version, w, v) ==
    IF Failed(f, version.text)
    THEN w = version.mtime /\ (f = "license" => v = NoLicense)
    ELSE v = InForce(f, version.text)

Good(f) == Stands(f, disk[f], warned[f], value[f])

Pending(f) == pc \in {"load", "apply"} /\ f = file

SeenStands ==
    \A f \in FileSet : (seen[f] = disk[f].mtime /\ missed[f] # disk[f].mtime /\ ~Pending(f)) => Good(f)

ReadIsSeen == (pc = "apply" /\ seen[file] = disk[file].mtime) => read = disk[file]

\* What was read on the way is a version of the file.
ReadType ==
    pc = "apply" => /\ read.mtime \in Int
                    /\ file = "license" => read.text \in Texts["license"] \cup {NoFile}

NoteStands == (pc = "note" /\ seen[file] = disk[file].mtime) => Good(file)

FreshIsSeen == \A f \in fresh : seen[f] = disk[f].mtime /\ ~Pending(f)

SameIsSeen ==
    \A i \in 1..5 :
       (/\ Files[i] \in same
        /\ \/ pc \in InFile \cup {"tier", "tell"} /\ i < at
           \/ pc \in {"load", "apply", "note"} /\ i = at) =>
          seen[Files[i]] = disk[Files[i]].mtime

BootIsBlank ==
    pc \in {"down", "boot"} => /\ missed = NoTimes /\ fresh = {} /\ checked = Never
                               /\ pc = "down" => seen = NoTimes

\* The tier is told, and is the license's on the day it was looked at.
TierInv ==
    /\ ~untold /\ pc # "tell" => told = tier
    /\ (checked = today /\ (pc = "tell" \/ "license" \in fresh)) =>
          tier = current_tier(value["license"], today)

FileInv == SeenStands /\ ReadIsSeen /\ ReadType /\ NoteStands /\ FreshIsSeen /\ SameIsSeen

ReloadInv == Types /\ Versions /\ FileInv /\ BootIsBlank /\ TierInv

-----------------------------------------------------------------------------
(***************************************************************************)
(* Files and licenses.                                                     *)
(***************************************************************************)

\* The files, by their place in the order they are read.
LEMMA FileIndex ==
    /\ Len(Files) = 5
    /\ \A i \in 1..5 : Files[i] \in FileSet
    /\ \A i, j \in 1..5 : Files[i] = Files[j] => i = j
    /\ \A f \in FileSet : \E i \in 1..5 : f = Files[i]
    /\ "license" \in FileSet
<1>1. /\ Len(Files) = 5 /\ DOMAIN Files = 1..5
      /\ Files[1] = "vault" /\ Files[2] = "policy" /\ Files[3] = "budget"
      /\ Files[4] = "pricing" /\ Files[5] = "license"
  BY DEF Files
<1>2. FileSet = {Files[i] : i \in 1..5}
  BY <1>1 DEF FileSet, Range
<1>3. QED
  BY <1>1, <1>2

\* What is installed of a license file is a document or nothing.
LEMMA LicenseLoads ==
    ASSUME NEW text \in Texts["license"] \cup {NoFile}, ~Failed("license", text)
    PROVE  InForce("license", text) \in LicenseValues
<1>1. InForce("license", text) = load_installed(text) /\ load_installed(text) # Rejected
  BY DEF Failed, InForce, Pinned, Loads
<1>2. CASE text = NoFile
  BY <1>1, <1>2 DEF load_installed, LicenseValues
<1>3. CASE text \in Texts["license"] /\ text # NoFile
  BY <1>1, <1>3, ReloadConstants DEF load_installed, parse_and_verify, LicenseValues
<1>4. QED
  BY <1>2, <1>3

\* The passing of days takes the features of a license away after its grace
\* and not before, and never brings any.
LEMMA TierExpires ==
    ASSUME NEW doc \in LicenseValues, NEW d \in 0..LastDay, NEW e \in 0..LastDay, d < e
    PROVE  \/ current_tier(doc, e) = current_tier(doc, d)
           \/ current_tier(doc, e) = Free /\ e > doc.expires + doc.grace_days
<1>1. CASE doc = NoLicense
  BY <1>1 DEF current_tier
<1>2. CASE doc \in Documents /\ doc # NoLicense
  <2>1. doc.issued \in Int /\ doc.expires \in Int /\ doc.grace_days \in Nat
    BY <1>2 DEF Documents
  <2>2. LastDay \in Nat
    BY LicenseConstants
  <2>3. evaluate(doc, e) = "Expired" => e > doc.expires + doc.grace_days
    BY <2>1, <2>2 DEF evaluate, grace_end
  <2>4. evaluate(doc, d) = "Expired" => evaluate(doc, e) = "Expired"
    BY <2>1, <2>2 DEF evaluate, grace_end
  <2>5. QED
    BY <1>2, <2>3, <2>4 DEF current_tier, effective_tier
<1>3. QED
  BY <1>1, <1>2 DEF LicenseValues

-----------------------------------------------------------------------------
(***************************************************************************)
(* The steps of the proxy.                                                 *)
(***************************************************************************)

\* The file a boot or a refresh is at.
LEMMA AtFile ==
    ASSUME ReloadInv, pc \in InFile \/ (pc = "boot" /\ at <= Len(Files))
    PROVE  at \in 1..5 /\ file \in FileSet
BY FileIndex DEF ReloadInv, Types, file

\* A version on disk, by its mtime.
LEMMA VersionFacts ==
    ASSUME ReloadInv, NEW f \in FileSet
    PROVE  /\ disk[f].mtime \in Int /\ 0 <= disk[f].mtime /\ disk[f].mtime <= writes
           /\ disk[f].mtime = 0 => f \in gone
           /\ disk[f].text \in Texts[f] \cup {NoFile}
           /\ disk[f].mtime # Never
BY DEF ReloadInv, Types, Versions, Version, Nothing, Never

\* A step that leaves the outside as it is keeps the versions, if it remembers
\* only what it sees.
LEMMA VersionsKept ==
    ASSUME ReloadInv, UNCHANGED Outside,
           \A f \in FileSet : seen'[f] \in {seen[f], disk[f].mtime, Never}
    PROVE  Versions'
<1>1. ASSUME NEW f \in FileSet
      PROVE  Version(f)' /\ seen'[f] <= writes /\ (seen'[f] = 0 => f \in gone)
  <2>1. Version(f)'
    BY DEF ReloadInv, Versions, Version, Outside
  <2>2. seen'[f] <= writes /\ (seen'[f] = 0 => f \in gone)
    BY VersionFacts DEF ReloadInv, Versions, Types, Never
  <2>3. QED
    BY <2>1, <2>2
<1>2. QED
  BY <1>1 DEF Versions, Outside

\* The process ends.
LEMMA GoneStep ==
    ASSUME ReloadInv, Gone, UNCHANGED Outside
    PROVE  ReloadInv'
<1>1. Types'
  BY FileIndex DEF Gone, ReloadInv, Types, Outside, Labels, InFile, NoTimes, NoValues, Never,
                   LicenseValues
<1>2. Versions'
  BY VersionsKept DEF Gone, NoTimes
<1>3. \A f \in FileSet : seen'[f] # disk[f].mtime
  BY VersionFacts DEF Gone, NoTimes
<1>4. FileInv'
  BY <1>3 DEF Gone, Outside, FileInv, SeenStands, ReadIsSeen, ReadType, NoteStands, FreshIsSeen,
              SameIsSeen
<1>5. BootIsBlank' /\ TierInv'
  BY DEF Gone, BootIsBlank, TierInv, ReloadInv, Types, Never, Outside
<1>6. QED
  BY <1>1, <1>2, <1>4, <1>5 DEF ReloadInv

LEMMA BootStep ==
    ASSUME ReloadInv, Boot
    PROVE  ReloadInv'
<1>0. /\ pc = "down" /\ pc' = "boot"
      /\ UNCHANGED <<at, read, seen, tier, value, ghosts, same, disk, today, writes, gone>>
  BY DEF Boot, Outside
<1>1. Types'
  BY <1>0 DEF ReloadInv, Types, ghosts, Labels, InFile
<1>2. Versions'
  BY VersionsKept DEF Boot
<1>3. FileInv'
  <2>1. SeenStands'
    BY <1>0, VersionFacts DEF ReloadInv, BootIsBlank, SeenStands, NoTimes
  <2>2. FreshIsSeen' /\ SameIsSeen'
    BY <1>0 DEF ReloadInv, BootIsBlank, FreshIsSeen, SameIsSeen, ghosts, InFile
  <2>3. ReadIsSeen' /\ ReadType' /\ NoteStands'
    BY <1>0 DEF ReadIsSeen, ReadType, NoteStands
  <2>4. QED
    BY <2>1, <2>2, <2>3 DEF FileInv
<1>4. BootIsBlank' /\ TierInv'
  BY <1>0 DEF ReloadInv, BootIsBlank, TierInv, ghosts
<1>5. QED
  BY <1>1, <1>2, <1>3, <1>4 DEF ReloadInv

LEMMA BootLoadStep ==
    ASSUME ReloadInv, BootLoad
    PROVE  ReloadInv'
<1>1. CASE file # "license" /\ Failed(file, disk[file].text)
  BY <1>1, GoneStep DEF BootLoad
<1>2. CASE ~(file # "license" /\ Failed(file, disk[file].text))
  <2>0. /\ pc = "boot" /\ at \in 1..5 /\ file \in FileSet
        /\ at' = at + 1
        /\ UNCHANGED <<pc, read, tier, told, fresh, missed, untold, checked, same,
                       disk, today, writes, gone>>
        /\ seen' = [seen EXCEPT ![file] = disk[file].mtime]
        /\ value' = [value EXCEPT ![file] = IF Failed(file, disk[file].text) THEN NoLicense
                                            ELSE InForce(file, disk[file].text)]
        /\ warned' = IF Failed(file, disk[file].text)
                     THEN [warned EXCEPT ![file] = disk[file].mtime] ELSE warned
    BY <1>2, AtFile DEF BootLoad, Outside
  <2>1. Types'
    <3>1. value'["license"] \in LicenseValues
      BY <2>0, LicenseLoads, VersionFacts DEF ReloadInv, Types, LicenseValues
    <3>2. QED
      BY <2>0, <3>1, VersionFacts DEF ReloadInv, Types, InFile
  <2>2. Versions'
    BY <2>0, VersionsKept DEF ReloadInv, Types, Outside
  <2>3. \A f \in FileSet : IF f = file THEN Good(f)' ELSE Good(f)' <=> Good(f)
    BY <2>0 DEF Good, Stands, ReloadInv, Types
  <2>4. FileInv'
    <3>1. SeenStands'
      <4> SUFFICES ASSUME NEW f \in FileSet, seen'[f] = disk[f].mtime, missed[f] # disk[f].mtime
                   PROVE  Good(f)'
        BY <2>0 DEF SeenStands
      <4>1. CASE f = file
        BY <2>3, <4>1
      <4>2. CASE f # file
        BY <2>0, <2>3, <4>2 DEF ReloadInv, FileInv, SeenStands, Types, Pending
      <4>3. QED
        BY <4>1, <4>2
    <3>2. FreshIsSeen' /\ SameIsSeen'
      BY <2>0 DEF ReloadInv, BootIsBlank, FreshIsSeen, SameIsSeen, InFile
    <3>3. ReadIsSeen' /\ ReadType' /\ NoteStands'
      BY <2>0 DEF ReadIsSeen, ReadType, NoteStands
    <3>4. QED
      BY <3>1, <3>2, <3>3 DEF FileInv
  <2>5. BootIsBlank' /\ TierInv'
    BY <2>0 DEF ReloadInv, BootIsBlank, TierInv, Types, Never
  <2>6. QED
    BY <2>1, <2>2, <2>4, <2>5 DEF ReloadInv
<1>3. QED
  BY <1>1, <1>2

LEMMA BootStatStep ==
    ASSUME ReloadInv, BootStat
    PROVE  ReloadInv'
<1>0. /\ pc = "boot" /\ pc' = "serving" /\ at' = 1
      /\ tier' = current_tier(value["license"], today) /\ told' = tier' /\ untold' = FALSE
      /\ seen' = [f \in FileSet |-> disk[f].mtime]
      /\ missed' = [f \in FileSet |-> IF seen[f] # disk[f].mtime THEN disk[f].mtime ELSE Never]
      /\ UNCHANGED <<read, value, warned, fresh, checked, same, disk, today, writes, gone>>
  BY DEF BootStat, Outside
<1>1. Types'
  <2>1. seen' \in [FileSet -> Int] /\ missed' \in [FileSet -> Int]
    BY <1>0, VersionFacts DEF Never
  <2>2. QED
    BY <1>0, <2>1 DEF ReloadInv, Types, Labels, InFile
<1>2. Versions'
  BY <1>0, VersionsKept DEF Outside
<1>3. FileInv'
  <2>1. SeenStands'
    BY <1>0, VersionFacts DEF ReloadInv, FileInv, SeenStands, BootIsBlank, Good, Pending, NoTimes
  <2>2. FreshIsSeen' /\ SameIsSeen'
    BY <1>0 DEF ReloadInv, BootIsBlank, FreshIsSeen, SameIsSeen, InFile
  <2>3. ReadIsSeen' /\ ReadType' /\ NoteStands'
    BY <1>0 DEF ReadIsSeen, ReadType, NoteStands
  <2>4. QED
    BY <2>1, <2>2, <2>3 DEF FileInv
<1>4. BootIsBlank' /\ TierInv'
  BY <1>0 DEF ReloadInv, BootIsBlank, TierInv, Types, Never
<1>5. QED
  BY <1>1, <1>2, <1>3, <1>4 DEF ReloadInv

\* A refresh begins.
LEMMA RefreshStep ==
    ASSUME ReloadInv, Refresh
    PROVE  ReloadInv'
<1>0. /\ pc = "serving" /\ pc' = "stat" /\ at' = 1 /\ same' = FileSet
      /\ UNCHANGED <<read, seen, tier, value, warned, told, fresh, missed, untold, checked,
                     disk, today, writes, gone>>
  BY DEF Refresh, Outside, ghosts
<1>1. Types'
  BY <1>0 DEF ReloadInv, Types, Labels, InFile
<1>2. Versions'
  BY <1>0, VersionsKept DEF Outside
<1>3. FileInv'
  <2>1. SeenStands'
    BY <1>0 DEF ReloadInv, FileInv, SeenStands, Good, Pending
  <2>2. FreshIsSeen' /\ SameIsSeen'
    BY <1>0 DEF ReloadInv, FileInv, FreshIsSeen, SameIsSeen, InFile, Pending
  <2>3. ReadIsSeen' /\ ReadType' /\ NoteStands'
    BY <1>0 DEF ReadIsSeen, ReadType, NoteStands
  <2>4. QED
    BY <2>1, <2>2, <2>3 DEF FileInv
<1>4. BootIsBlank' /\ TierInv'
  BY <1>0 DEF ReloadInv, BootIsBlank, TierInv
<1>5. QED
  BY <1>1, <1>2, <1>3, <1>4 DEF ReloadInv

\* On to the next file: nothing is pending, and the file was seen as it is if
\* it has not changed meanwhile.
LEMMA NextFileTypes ==
    ASSUME ReloadInv, pc \in InFile, NextFile
    PROVE  /\ at' \in 1..6 /\ pc' \in {"stat", "tier"} /\ at' = at + 1
           /\ pc' = "stat" => at' <= 5
           /\ pc' = "tier" => at' = 6
BY AtFile, FileIndex DEF NextFile, InFile

LEMMA RefreshStatStep ==
    ASSUME ReloadInv, RefreshStat
    PROVE  ReloadInv'
<1>0. /\ pc = "stat" /\ at \in 1..5 /\ file \in FileSet
      /\ UNCHANGED <<read, tier, value, warned, told, fresh, missed, untold, checked, same,
                     disk, today, writes, gone>>
  BY AtFile DEF RefreshStat, Outside, ghosts, InFile
<1>1. CASE disk[file].mtime = seen[file]
  <2>0. /\ seen' = seen /\ at' \in 1..6 /\ pc' \in {"stat", "tier"} /\ at' = at + 1
        /\ pc' = "stat" => at' <= 5
        /\ pc' = "tier" => at' = 6
    BY <1>0, <1>1, NextFileTypes DEF RefreshStat, InFile
  <2>1. Types'
    BY <1>0, <2>0 DEF ReloadInv, Types, Labels, InFile
  <2>2. Versions'
    BY <1>0, <2>0, VersionsKept DEF Outside
  <2>3. FileInv'
    <3>1. SeenStands'
      BY <1>0, <2>0 DEF ReloadInv, FileInv, SeenStands, Good, Pending
    <3>2. FreshIsSeen'
      BY <1>0, <2>0 DEF ReloadInv, FileInv, FreshIsSeen, Pending
    <3>3. SameIsSeen'
      <4> SUFFICES ASSUME NEW i \in 1..5, Files[i] \in same, i < at + 1
                   PROVE  seen[Files[i]] = disk[Files[i]].mtime
        BY <1>0, <2>0 DEF SameIsSeen, InFile
      <4>1. i < at \/ i = at
        BY <1>0
      <4>2. QED
        BY <1>0, <1>1, <4>1 DEF ReloadInv, FileInv, SameIsSeen, InFile, file
    <3>4. ReadIsSeen' /\ ReadType' /\ NoteStands'
      BY <2>0 DEF ReadIsSeen, ReadType, NoteStands
    <3>5. QED
      BY <3>1, <3>2, <3>3, <3>4 DEF FileInv
  <2>4. BootIsBlank' /\ TierInv'
    BY <1>0, <2>0 DEF ReloadInv, BootIsBlank, TierInv
  <2>5. QED
    BY <2>1, <2>2, <2>3, <2>4 DEF ReloadInv
<1>2. CASE disk[file].mtime # seen[file]
  <2>0. /\ seen' = [seen EXCEPT ![file] = disk[file].mtime] /\ pc' = "load" /\ at' = at
        /\ file' = file
    BY <1>0, <1>2 DEF RefreshStat, file
  <2>1. Types'
    BY <1>0, <2>0, VersionFacts DEF ReloadInv, Types, Labels, InFile
  <2>2. Versions'
    BY <1>0, <2>0, VersionsKept DEF Outside, ReloadInv, Types
  <2>2a. \A f \in FileSet : f # file => seen'[f] = seen[f]
    BY <1>0, <2>0 DEF ReloadInv, Types
  <2>3. FileInv'
    <3>1. SeenStands'
      BY <1>0, <2>0, <2>2a DEF ReloadInv, FileInv, SeenStands, Good, Pending
    <3>2. FreshIsSeen'
      BY <1>0, <1>2, <2>0, <2>2a DEF ReloadInv, FileInv, FreshIsSeen, Pending, Types
    <3>3. SameIsSeen'
      <4> SUFFICES ASSUME NEW i \in 1..5, Files[i] \in same, i < at \/ i = at
                   PROVE  seen'[Files[i]] = disk[Files[i]].mtime
        BY <1>0, <2>0 DEF SameIsSeen
      <4>1. CASE i = at
        BY <1>0, <2>0, <4>1 DEF ReloadInv, Types, file
      <4>2. CASE i < at
        <5>1. Files[i] # file /\ Files[i] \in FileSet
          BY <1>0, <4>2, FileIndex DEF file
        <5>2. QED
          BY <1>0, <2>2a, <4>2, <5>1 DEF ReloadInv, FileInv, SameIsSeen, InFile
      <4>3. QED
        BY <4>1, <4>2
    <3>4. ReadIsSeen' /\ ReadType' /\ NoteStands'
      BY <2>0 DEF ReadIsSeen, ReadType, NoteStands
    <3>5. QED
      BY <3>1, <3>2, <3>3, <3>4 DEF FileInv
  <2>4. BootIsBlank' /\ TierInv'
    BY <1>0, <2>0 DEF ReloadInv, BootIsBlank, TierInv
  <2>5. QED
    BY <2>1, <2>2, <2>3, <2>4 DEF ReloadInv
<1>3. QED
  BY <1>1, <1>2

LEMMA RefreshLoadStep ==
    ASSUME ReloadInv, RefreshLoad
    PROVE  ReloadInv'
<1>0. /\ pc = "load" /\ at \in 1..5 /\ file \in FileSet /\ file' = file
      /\ UNCHANGED <<at, seen, tier, value, told, fresh, missed, untold, checked, same,
                     disk, today, writes, gone>>
      /\ \/ /\ Failed(file, disk[file].text) /\ file # "license"
            /\ warned' = [warned EXCEPT ![file] = disk[file].mtime] /\ pc' = "note"
         \/ read' = disk[file] /\ pc' = "apply" /\ warned' = warned
  BY AtFile DEF RefreshLoad, Outside, InFile, file
<1>1. Types'
  BY <1>0, VersionFacts DEF ReloadInv, Types, Labels, InFile
<1>2. Versions'
  BY <1>0, VersionsKept DEF Outside
<1>2a. \A f \in FileSet : f # file => (Good(f)' <=> Good(f))
  BY <1>0 DEF Good, ReloadInv, Types
<1>2b. pc' = "note" => Good(file)'
  BY <1>0 DEF Good, Stands, ReloadInv, Types
<1>3. FileInv'
  <2>1. SeenStands'
    <3> SUFFICES ASSUME NEW f \in FileSet, seen[f] = disk[f].mtime, missed[f] # disk[f].mtime,
                        ~Pending(f)'
                 PROVE  Good(f)'
      BY <1>0 DEF SeenStands
    <3>1. CASE f = file
      BY <1>0, <1>2b, <3>1 DEF Pending
    <3>2. CASE f # file
      BY <1>2a, <3>2 DEF ReloadInv, FileInv, SeenStands, Pending
    <3>3. QED
      BY <3>1, <3>2
  <2>2. FreshIsSeen' /\ SameIsSeen'
    BY <1>0 DEF ReloadInv, FileInv, FreshIsSeen, SameIsSeen, InFile, Pending
  <2>3. ReadIsSeen' /\ ReadType'
    BY <1>0, VersionFacts DEF ReadIsSeen, ReadType
  <2>4. NoteStands'
    BY <1>0, <1>2b DEF NoteStands
  <2>5. QED
    BY <2>1, <2>2, <2>3, <2>4 DEF FileInv
<1>4. BootIsBlank' /\ TierInv'
  BY <1>0 DEF ReloadInv, BootIsBlank, TierInv
<1>5. QED
  BY <1>1, <1>2, <1>3, <1>4 DEF ReloadInv

LEMMA RefreshApplyStep ==
    ASSUME ReloadInv, RefreshApply
    PROVE  ReloadInv'
<1>0. /\ pc = "apply" /\ at \in 1..5 /\ file \in FileSet
      /\ UNCHANGED <<seen, tier, told, fresh, untold, checked, same, disk, today, writes, gone>>
      /\ value' = [value EXCEPT ![file] = IF Failed(file, read.text) THEN NoLicense
                                          ELSE InForce(file, read.text)]
      /\ missed' = [missed EXCEPT ![file] = Never]
      /\ \/ /\ Failed(file, read.text) /\ pc' = "note" /\ at' = at
            /\ warned' = [warned EXCEPT ![file] = read.mtime]
         \/ ~Failed(file, read.text) /\ NextFile /\ warned' = warned
  BY AtFile DEF RefreshApply, Outside, InFile
<1>0a. \/ pc' = "note" /\ at' = at /\ file' = file
       \/ /\ at' \in 1..6 /\ pc' \in {"stat", "tier"} /\ at' = at + 1
          /\ pc' = "stat" => at' <= 5
          /\ pc' = "tier" => at' = 6
  BY <1>0, NextFileTypes DEF InFile, file
<1>0b. /\ value'["license"] \in LicenseValues
       /\ file # "license" => value'["license"] = value["license"]
  BY <1>0, LicenseLoads DEF ReloadInv, Types, FileInv, ReadType, LicenseValues
<1>0c. warned' \in [FileSet -> Int]
  BY <1>0 DEF ReloadInv, FileInv, ReadType, Types
<1>0d. DOMAIN value' = FileSet /\ missed' \in [FileSet -> Int]
  BY <1>0 DEF ReloadInv, Types, Never
<1>0e. /\ pc' \in Labels /\ at' \in 1..6
       /\ pc' \in InFile => at' <= 5
       /\ pc' \in {"tier", "tell"} => at' = 6
  BY <1>0, <1>0a DEF Labels, InFile
<1>1. Types'
  BY <1>0, <1>0b, <1>0c, <1>0d, <1>0e DEF ReloadInv, Types
<1>2. Versions'
  BY <1>0, VersionsKept DEF Outside
<1>2a. \A f \in FileSet : f # file => (Good(f)' <=> Good(f)) /\ missed'[f] = missed[f]
  BY <1>0 DEF Good, ReloadInv, Types
<1>2b. seen[file] = disk[file].mtime => Stands(file, disk[file], warned'[file], value'[file])
  BY <1>0 DEF Stands, ReloadInv, FileInv, ReadIsSeen, Types
<1>3. FileInv'
  <2>1. SeenStands'
    <3> SUFFICES ASSUME NEW f \in FileSet, seen[f] = disk[f].mtime, missed'[f] # disk[f].mtime
                 PROVE  Good(f)'
      BY <1>0 DEF SeenStands
    <3>1. CASE f = file
      BY <1>0, <1>2b, <3>1 DEF Good
    <3>2. CASE f # file
      BY <1>2a, <3>2 DEF ReloadInv, FileInv, SeenStands, Pending
    <3>3. QED
      BY <3>1, <3>2
  <2>2. FreshIsSeen'
    BY <1>0, <1>0a DEF ReloadInv, FileInv, FreshIsSeen, Pending
  <2>3. SameIsSeen'
    BY <1>0, <1>0a DEF ReloadInv, FileInv, SameIsSeen, InFile
  <2>4. ReadIsSeen' /\ ReadType'
    BY <1>0a DEF ReadIsSeen, ReadType
  <2>5. NoteStands'
    BY <1>0, <1>0a, <1>2b DEF NoteStands, Good
  <2>6. QED
    BY <2>1, <2>2, <2>3, <2>4, <2>5 DEF FileInv
<1>4. BootIsBlank' /\ TierInv'
  <2>1. "license" \in fresh => value'["license"] = value["license"]
    BY <1>0, <1>0b DEF ReloadInv, FileInv, FreshIsSeen, Pending
  <2>2. QED
    BY <1>0, <1>0a, <2>1 DEF ReloadInv, BootIsBlank, TierInv
<1>5. QED
  BY <1>1, <1>2, <1>3, <1>4 DEF ReloadInv

LEMMA ReloadFailedStep ==
    ASSUME ReloadInv, reload_failed
    PROVE  ReloadInv'
<1>0. /\ pc = "note" /\ at \in 1..5 /\ file \in FileSet
      /\ UNCHANGED <<read, seen, tier, value, warned, told, fresh, untold, checked, same,
                     disk, today, writes, gone>>
      /\ missed' = [missed EXCEPT ![file] = Never]
      /\ at' \in 1..6 /\ pc' \in {"stat", "tier"} /\ at' = at + 1
      /\ pc' = "stat" => at' <= 5
      /\ pc' = "tier" => at' = 6
  BY AtFile, NextFileTypes DEF reload_failed, Outside, InFile
<1>1. Types'
  BY <1>0 DEF ReloadInv, Types, Labels, InFile, Never
<1>2. Versions'
  BY <1>0, VersionsKept DEF Outside
<1>3. FileInv'
  <2>1. SeenStands'
    <3> SUFFICES ASSUME NEW f \in FileSet, seen[f] = disk[f].mtime, missed'[f] # disk[f].mtime
                 PROVE  Good(f)
      BY <1>0 DEF SeenStands, Good
    <3>1. CASE f = file
      BY <1>0, <3>1 DEF ReloadInv, FileInv, NoteStands
    <3>2. CASE f # file
      BY <1>0, <3>2 DEF ReloadInv, FileInv, SeenStands, Pending, Types
    <3>3. QED
      BY <3>1, <3>2
  <2>2. FreshIsSeen'
    BY <1>0 DEF ReloadInv, FileInv, FreshIsSeen, Pending
  <2>3. SameIsSeen'
    BY <1>0 DEF ReloadInv, FileInv, SameIsSeen, InFile
  <2>4. ReadIsSeen' /\ ReadType' /\ NoteStands'
    BY <1>0 DEF ReadIsSeen, ReadType, NoteStands
  <2>6. QED
    BY <2>1, <2>2, <2>3, <2>4 DEF FileInv
<1>4. BootIsBlank' /\ TierInv'
  BY <1>0 DEF ReloadInv, BootIsBlank, TierInv
<1>5. QED
  BY <1>1, <1>2, <1>3, <1>4 DEF ReloadInv

\* A whole refresh is over: every file that has not changed meanwhile was seen.
LEMMA DoneFresh ==
    ASSUME ReloadInv, pc \in {"tier", "tell"}
    PROVE  \A f \in same : seen[f] = disk[f].mtime
<1> SUFFICES ASSUME NEW f \in same PROVE seen[f] = disk[f].mtime
  OBVIOUS
<1>1. PICK i \in 1..5 : f = Files[i]
  BY FileIndex DEF ReloadInv, Types
<1>2. at = 6 /\ i < at
  BY DEF ReloadInv, Types
<1>3. QED
  BY <1>1, <1>2 DEF ReloadInv, FileInv, SameIsSeen

LEMMA RefreshTierStep ==
    ASSUME ReloadInv, RefreshTier
    PROVE  ReloadInv'
<1>0. /\ pc = "tier" /\ checked' = today
      /\ UNCHANGED <<read, seen, value, warned, told, missed, untold, same,
                     disk, today, writes, gone>>
      /\ tier' = current_tier(value["license"], today)
      /\ \/ pc' = "serving" /\ at' = 1 /\ fresh' = same /\ tier' = tier
         \/ pc' = "tell" /\ at' = at /\ fresh' = fresh
  BY DEF RefreshTier, Done, Outside
<1>1. Types'
  BY <1>0 DEF ReloadInv, Types, Labels, InFile
<1>2. Versions'
  BY <1>0, VersionsKept DEF Outside
<1>3. FileInv'
  <2>1. SeenStands'
    BY <1>0 DEF ReloadInv, FileInv, SeenStands, Good, Pending
  <2>2. FreshIsSeen'
    BY <1>0, DoneFresh DEF ReloadInv, FileInv, FreshIsSeen, Pending
  <2>3. SameIsSeen'
    BY <1>0 DEF ReloadInv, FileInv, SameIsSeen, InFile
  <2>4. ReadIsSeen' /\ ReadType' /\ NoteStands'
    BY <1>0 DEF ReadIsSeen, ReadType, NoteStands
  <2>5. QED
    BY <2>1, <2>2, <2>3, <2>4 DEF FileInv
<1>4. BootIsBlank' /\ TierInv'
  BY <1>0 DEF ReloadInv, BootIsBlank, TierInv
<1>5. QED
  BY <1>1, <1>2, <1>3, <1>4 DEF ReloadInv

LEMMA RefreshTellStep ==
    ASSUME ReloadInv, RefreshTell
    PROVE  ReloadInv'
<1>0. /\ pc = "tell" /\ pc' = "serving" /\ at' = 1 /\ fresh' = same
      /\ told' = tier /\ untold' = FALSE
      /\ UNCHANGED <<read, seen, tier, value, warned, missed, checked, same,
                     disk, today, writes, gone>>
  BY DEF RefreshTell, Done, Outside
<1>1. Types'
  BY <1>0 DEF ReloadInv, Types, Labels, InFile
<1>2. Versions'
  BY <1>0, VersionsKept DEF Outside
<1>3. FileInv'
  <2>1. SeenStands'
    BY <1>0 DEF ReloadInv, FileInv, SeenStands, Good, Pending
  <2>2. FreshIsSeen'
    BY <1>0, DoneFresh DEF FreshIsSeen, Pending
  <2>3. SameIsSeen'
    BY <1>0 DEF SameIsSeen, InFile
  <2>4. ReadIsSeen' /\ ReadType' /\ NoteStands'
    BY <1>0 DEF ReadIsSeen, ReadType, NoteStands
  <2>5. QED
    BY <2>1, <2>2, <2>3, <2>4 DEF FileInv
<1>4. BootIsBlank' /\ TierInv'
  BY <1>0 DEF ReloadInv, BootIsBlank, TierInv
<1>5. QED
  BY <1>1, <1>2, <1>3, <1>4 DEF ReloadInv

\* A refresh is dropped: the version whose reload it was in is remembered in
\* vain, and nothing else is.
LEMMA DropStep ==
    ASSUME ReloadInv, Drop
    PROVE  ReloadInv'
<1>0. /\ pc \in {"apply", "note", "tier", "tell"} /\ pc' = "serving" /\ at' = 1
      /\ UNCHANGED <<seen, tier, value, warned, told, fresh, checked, same,
                     disk, today, writes, gone>>
      /\ untold' = (untold \/ pc = "tell")
      /\ missed' = IF pc = "apply" THEN [missed EXCEPT ![file] = seen[file]] ELSE missed
  BY DEF Drop, Outside
<1>0a. pc = "apply" => file \in FileSet
  BY AtFile DEF InFile
<1>1. Types'
  <2>1. missed' \in [FileSet -> Int]
    BY <1>0, <1>0a DEF ReloadInv, Types
  <2>2. QED
    BY <1>0, <2>1 DEF ReloadInv, Types, Labels, InFile
<1>2. Versions'
  BY <1>0, VersionsKept DEF Outside
<1>3. FileInv'
  <2>1. SeenStands'
    <3> SUFFICES ASSUME NEW f \in FileSet, seen[f] = disk[f].mtime, missed'[f] # disk[f].mtime
                 PROVE  Good(f)
      BY <1>0 DEF SeenStands, Good
    <3>1. ~(pc = "apply" /\ f = file) /\ missed'[f] = missed[f]
      BY <1>0, <1>0a DEF ReloadInv, Types
    <3>2. QED
      BY <1>0, <3>1 DEF ReloadInv, FileInv, SeenStands, Pending
  <2>2. FreshIsSeen'
    BY <1>0 DEF ReloadInv, FileInv, FreshIsSeen, Pending
  <2>3. SameIsSeen'
    BY <1>0 DEF SameIsSeen, InFile
  <2>4. ReadIsSeen' /\ ReadType' /\ NoteStands'
    BY <1>0 DEF ReadIsSeen, ReadType, NoteStands
  <2>5. QED
    BY <2>1, <2>2, <2>3, <2>4 DEF FileInv
<1>4. BootIsBlank' /\ TierInv'
  BY <1>0 DEF ReloadInv, BootIsBlank, TierInv
<1>5. QED
  BY <1>1, <1>2, <1>3, <1>4 DEF ReloadInv

-----------------------------------------------------------------------------
(***************************************************************************)
(* The outside.                                                            *)
(***************************************************************************)

\* A file gets a version nobody has seen.
LEMMA ChangeStep ==
    ASSUME ReloadInv, NEW f \in FileSet, NEW new, Change(f, new),
           writes' = writes + 1, gone \subseteq gone',
           \/ new \in [text : Texts[f], mtime : {writes + 1}] /\ gone' = gone
           \/ new = Nothing /\ f \notin gone /\ f \in gone'
    PROVE  ReloadInv'
<1>0. /\ disk' = [disk EXCEPT ![f] = new] /\ fresh' = fresh \ {f} /\ same' = same \ {f}
      /\ UNCHANGED <<today, pc, at, read, seen, tier, value, warned, told, missed, untold, checked>>
      /\ file' = file
  BY DEF Change, proxy, file
<1>1. Types'
  BY <1>0 DEF ReloadInv, Types
<1>1a. \A g \in FileSet : disk'[g] = IF g = f THEN new ELSE disk[g]
  BY <1>0 DEF ReloadInv, Types
<1>1b. seen[f] # new.mtime
  BY DEF ReloadInv, Types, Versions, Nothing
<1>2. Versions'
  <2>1. ASSUME NEW g \in FileSet
        PROVE  Version(g)' /\ seen'[g] <= writes' /\ (seen'[g] = 0 => g \in gone')
    <3>1. seen'[g] <= writes' /\ (seen'[g] = 0 => g \in gone')
      BY <1>0 DEF ReloadInv, Versions, Types
    <3>2. Version(g)'
      <4>0. writes \in Nat
        BY DEF ReloadInv, Types
      <4>1. CASE g = f
        BY <1>1a, <4>0, <4>1 DEF Version
      <4>2. CASE g # f
        BY <1>1a, <4>0, <4>2 DEF Version, ReloadInv, Versions
      <4>3. QED
        BY <4>1, <4>2
    <3>3. QED
      BY <3>1, <3>2
  <2>2. QED
    BY <2>1 DEF Versions
<1>2a. \A g \in FileSet : g # f => (Good(g)' <=> Good(g))
  BY <1>0, <1>1a DEF Good
<1>2b. pc \in InFile => file \in FileSet
  BY AtFile
<1>3. FileInv'
  <2>1. SeenStands'
    BY <1>0, <1>1a, <1>1b, <1>2a DEF ReloadInv, FileInv, SeenStands, Pending
  <2>2. FreshIsSeen'
    BY <1>0, <1>1a DEF ReloadInv, FileInv, FreshIsSeen, Pending, Types
  <2>3. SameIsSeen'
    BY <1>0, <1>1a, FileIndex DEF ReloadInv, FileInv, SameIsSeen
  <2>4. ReadIsSeen' /\ ReadType'
    BY <1>0, <1>1a, <1>1b, <1>2b DEF ReloadInv, FileInv, ReadIsSeen, ReadType, InFile
  <2>5. NoteStands'
    BY <1>0, <1>1a, <1>1b, <1>2a, <1>2b DEF ReloadInv, FileInv, NoteStands, InFile
  <2>6. QED
    BY <2>1, <2>2, <2>3, <2>4, <2>5 DEF FileInv
<1>4. BootIsBlank' /\ TierInv'
  BY <1>0 DEF ReloadInv, BootIsBlank, TierInv
<1>5. QED
  BY <1>1, <1>2, <1>3, <1>4 DEF ReloadInv

\* A day goes by: what was checked was checked on an earlier day.
LEMMA DayStep ==
    ASSUME ReloadInv, Day
    PROVE  ReloadInv' /\ value' = value
<1>0. /\ today' \in 0..LastDay /\ today < today'
      /\ UNCHANGED <<pc, at, read, seen, tier, value, warned, told, fresh, missed, untold, checked,
                     same, disk, writes, gone>>
  BY ReloadConstants DEF Day, proxy, ghosts
<1>1. Types' /\ Versions'
  BY <1>0, LicenseConstants DEF ReloadInv, Types, Versions, Version
<1>2. FileInv'
  BY <1>0 DEF ReloadInv, FileInv, SeenStands, ReadIsSeen, ReadType, NoteStands, FreshIsSeen,
              SameIsSeen, Pending, Good, file
<1>3. BootIsBlank' /\ TierInv'
  BY <1>0, LicenseConstants DEF ReloadInv, BootIsBlank, TierInv, Types
<1>4. QED
  BY <1>0, <1>1, <1>2, <1>3 DEF ReloadInv

-----------------------------------------------------------------------------
(***************************************************************************)
(* The theorems.                                                           *)
(***************************************************************************)
LEMMA ReloadInit == Init => ReloadInv
<1> SUFFICES ASSUME Init PROVE ReloadInv
  OBVIOUS
<1>1. Types
  BY FileIndex, LicenseConstants
     DEF Init, Types, Labels, InFile, NoTimes, NoValues, Never, LicenseValues
<1>2. Versions
  <2>1. ASSUME NEW f \in FileSet
        PROVE  Version(f) /\ seen[f] <= writes /\ (seen[f] = 0 => f \in gone)
    <3>1. (CHOOSE t \in Loadable[f] : TRUE) \in Texts[f]
      BY ReloadConstants
    <3>2. QED
      BY <3>1 DEF Init, Version, NoTimes, Never
  <2>2. QED
    BY <2>1 DEF Versions
<1>3. \A f \in FileSet : seen[f] # disk[f].mtime
  <2>1. \A f \in FileSet : seen[f] = -1 /\ disk[f].mtime \in {0, 1}
    BY DEF Init, NoTimes, Never, Nothing
  <2>2. QED
    BY <2>1
<1>4. FileInv
  BY <1>3 DEF Init, FileInv, SeenStands, ReadIsSeen, ReadType, NoteStands, FreshIsSeen, SameIsSeen
<1>5. BootIsBlank /\ TierInv
  BY DEF Init, BootIsBlank, TierInv, Never
<1>6. QED
  BY <1>1, <1>2, <1>4, <1>5 DEF ReloadInv

LEMMA ReloadNext == ReloadInv /\ [Next]_vars => ReloadInv'
<1> SUFFICES ASSUME ReloadInv, [Next]_vars PROVE ReloadInv'
  OBVIOUS
<1>1. CASE UNCHANGED vars
  BY <1>1 DEF vars, proxy, ghosts, ReloadInv, Types, Versions, Version, FileInv, SeenStands,
              ReadIsSeen, ReadType, NoteStands, FreshIsSeen, SameIsSeen, BootIsBlank, TierInv,
              Pending, Good, file
<1>2. CASE Stop
  BY <1>2, GoneStep DEF Stop
<1>3. ASSUME NEW f \in FileSet, Write(f)
      PROVE  ReloadInv'
  <2>1. PICK t \in Texts[f] : Change(f, [text |-> t, mtime |-> writes'])
    BY <1>3 DEF Write
  <2>2. writes' = writes + 1 /\ gone' = gone
    BY <1>3 DEF Write
  <2>3. [text |-> t, mtime |-> writes'] \in [text : Texts[f], mtime : {writes + 1}]
    BY <2>2
  <2>4. QED
    BY <2>1, <2>2, <2>3, ChangeStep
<1>4. ASSUME NEW f \in FileSet, Delete(f)
      PROVE  ReloadInv'
  BY <1>4, ChangeStep DEF Delete
<1>5. CASE Next
  BY <1>2, <1>3, <1>4, <1>5, BootStep, BootLoadStep, BootStatStep, RefreshStep, RefreshStatStep,
     RefreshLoadStep, RefreshApplyStep, ReloadFailedStep, RefreshTierStep, RefreshTellStep,
     DropStep, DayStep DEF Next
<1>6. QED
  BY <1>1, <1>5

LEMMA Reloaded == Spec => []ReloadInv
BY ReloadInit, ReloadNext, PTL DEF Spec

\* After a whole refresh, a file that has not changed since is in force as it
\* stands or its failure was announced for exactly this version, however the
\* files changed between the stats, the loads and the locks of the refreshes
\* before, and wherever one of them was dropped.
THEOREM RefreshFollows == Spec => []FollowsOrTold
<1>1. ReloadInv => FollowsOrTold
  BY DEF ReloadInv, FileInv, FreshIsSeen, SeenStands, Good, Stands, FollowsOrTold, Types
<1>2. QED
  BY <1>1, Reloaded, PTL

\* On the day of a whole refresh the log tells the tier that the installed
\* license stands for, whether it was the file or the date that moved it, if
\* the entry of the last crossing was not dropped.
THEOREM CrossingsTold == Spec => []TierTold
<1>1. ReloadInv => TierTold
  <2> SUFFICES ASSUME ReloadInv, "license" \in fresh, checked = today, pc # "tell", ~untold,
                      missed["license"] # disk["license"].mtime
               PROVE  told = LET doc == load_installed(disk["license"].text)
                             IN current_tier(IF doc = Rejected THEN NoLicense ELSE doc, today)
    BY DEF TierTold
  <2> DEFINE doc == load_installed(disk["license"].text)
  <2>1. told = current_tier(value["license"], today)
    BY DEF ReloadInv, TierInv
  <2>2. Good("license")
    BY FileIndex DEF ReloadInv, FileInv, FreshIsSeen, SeenStands
  <2>3. value["license"] = IF doc = Rejected THEN NoLicense ELSE doc
    BY <2>2 DEF Good, Stands, Failed, InForce, Pinned, Loads
  <2>4. QED
    BY <2>1, <2>3
<1>2. QED
  BY <1>1, Reloaded, PTL

\* "Never brick on time": the passing of days takes the features of the
\* license in force away once, after its grace, and never brings any; any
\* license, any dates, and a grace that runs past the last day there is.
THEOREM TimeOnlyExpires == Spec => ClockOnlyExpires
<1> DEFINE Expires == today' # today =>
         LET before == current_tier(value["license"], today)
             after  == current_tier(value'["license"], today')
         IN \/ after = before
            \/ after = Free /\ today' > value["license"].expires + value["license"].grace_days
<1>1. ReloadInv /\ [Next]_vars => [Expires]_vars
  <2> SUFFICES ASSUME ReloadInv, Next, today' # today PROVE Expires
    BY DEF vars
  <2>1. Day
    BY DEF Next, Boot, BootLoad, BootStat, Refresh, RefreshStat, RefreshLoad, RefreshApply,
           reload_failed, RefreshTier, RefreshTell, Drop, Stop, Write, Delete, Change, Outside
  <2>2. value' = value /\ today \in 0..LastDay /\ today' \in 0..LastDay /\ today < today'
        /\ value["license"] \in LicenseValues
    BY <2>1, DayStep, ReloadConstants DEF ReloadInv, Types, Day
  <2>3. QED
    BY <2>2, TierExpires
<1>2. QED
  BY <1>1, Reloaded, PTL DEF Spec, ClockOnlyExpires
=============================================================================

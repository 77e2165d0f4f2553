------------------------------ MODULE VaultKey ------------------------------
(***************************************************************************)
(* Where the vault key of src/src/vault.rs lives: in vault.key or in a     *)
(* macOS keychain item bound to the default home.  Commands and proxies    *)
(* find or create the key, encrypt the vault with it, and `decoyrail key   *)
(* migrate` moves it either way.  There is no lock: every read and write   *)
(* of the file, the item and the vault is a step, the keychain may refuse  *)
(* any call, and a process may die anywhere.                               *)
(*                                                                         *)
(* A key is a number, fresh when it is generated.  The module is about the *)
(* home that may use the keychain; any other has no item and no migration. *)
(***************************************************************************)
EXTENDS Naturals

CONSTANTS
    Procs,      \* processes that use the key
    Release,    \* those of a release build, which mint into the keychain
    Commands,   \* what they run: "key", "add", "in", "out"
    MaxKeys,    \* bound on the keys generated
    MaxFaults,  \* bound on refusals of the keychain and deaths
    Absent,     \* no file, no item
    Torn,       \* a file that was truncated and not yet written
    Junk        \* what shred overwrites the file with

ASSUME VaultKeyConstants ==
    /\ Release \subseteq Procs
    /\ Commands \subseteq {"key", "add", "in", "out"}
    /\ MaxKeys \in Nat \ {0} /\ MaxFaults \in Nat
    /\ {Absent, Torn, Junk} \cap Nat = {}
    /\ Absent # Torn /\ Absent # Junk /\ Torn # Junk

Keys == 1..MaxKeys

VARIABLES
    file,     \* vault.key
    item,     \* the keychain item of this home
    vault,    \* the key vault.json is encrypted with
    minted,   \* the number of keys generated
    proc,     \* proc[p]: what p runs, where it is, the key it has
    faults,   \* ghost: refusals and deaths so far
    clash     \* ghost: something happened that the code does not guard against

vars == <<file, item, vault, minted, proc, faults, clash>>

Idle == [run |-> "none", pc |-> "idle", key |-> Absent]

\* A home that is new, or was set up before the keychain was the default.
Init ==
    /\ \/ file = Absent /\ vault = Absent /\ minted = 0
       \/ file = 1 /\ vault = 1 /\ minted = 1
    /\ item = Absent
    /\ proc = [p \in Procs |-> Idle]
    /\ faults = 0
    /\ clash = FALSE

At(p, pc)      == proc[p].pc = pc
Goto(p, pc)    == proc' = [proc EXCEPT ![p].pc = pc]
Has(p, k, pc)  == proc' = [proc EXCEPT ![p].pc = pc, ![p].key = k]
Ends(p)        == proc' = [proc EXCEPT ![p] = Idle]

\* A step that only reads.
Reads == UNCHANGED <<file, item, vault, minted, faults, clash>>

(***************************************************************************)
(* What the code takes no step against: a migration beside a migration or  *)
(* a save; a key created, in one place or the other, though one appeared   *)
(* after the check; a first item that is given up while another process    *)
(* may use it, or that cannot be deleted.                                  *)
(***************************************************************************)
Clashes(p, reason) == clash' = (clash \/ reason)

Others(p, runs) == \E q \in Procs \ {p} : proc[q].run \in runs
Moves  == {"in", "out"}
Writes == {"in", "out", "add", "save"}
All    == {"key", "in", "out", "add", "save"}

Refused == faults < MaxFaults /\ faults' = faults + 1

-----------------------------------------------------------------------------
\* Commands begin; `vault add` first loads the vault if there is one.

Begin(p) ==
    /\ At(p, "idle")
    /\ \E c \in Commands :
          /\ proc' = [proc EXCEPT ![p] = [Idle EXCEPT
                     !.run = c,
                     !.pc = CASE c \in Moves -> c
                              [] c = "add" /\ vault = Absent -> "seal"
                              [] OTHER -> "resolve"]]
          /\ Clashes(p, (c \in Moves /\ Others(p, Writes))
                           \/ (c \in Writes /\ Others(p, Moves)))
    /\ UNCHANGED <<file, item, vault, minted, faults>>

\* The vault is loaded; to save it the key is looked up once more.
Seal(p) ==
    /\ At(p, "seal")
    /\ proc' = [proc EXCEPT ![p].run = "save", ![p].pc = "resolve"]
    /\ Reads

-----------------------------------------------------------------------------
\* load_or_create_key.

resolve_backend(p) ==
    /\ At(p, "resolve")
    /\ Goto(p, IF item # Absent THEN "fetch" ELSE "gate")
    /\ Reads

first_run_keychain_default(p) ==
    /\ At(p, "gate")
    /\ Goto(p, IF p \in Release /\ file = Absent THEN "mint" ELSE "file")
    /\ Reads

\* Fail closed: an item that cannot be read is an error.
keychain_key_from(p) ==
    /\ At(p, "fetch")
    /\ IF item # Absent THEN Has(p, item, "got") ELSE Ends(p)
    /\ Reads

\* The keychain refuses a read on the way to the key: the command fails.
keychain_denied(p) ==
    /\ proc[p].pc \in {"resolve", "fetch", "in", "out"} /\ Refused
    /\ Ends(p)
    /\ UNCHANGED <<file, item, vault, minted, clash>>

\* A new key goes into the keychain if there is still no item.
Fresh == minted + 1

CreateStore(p) ==
    /\ At(p, "mint") /\ minted < MaxKeys
    /\ minted' = Fresh
    /\ \/ /\ item = Absent
          /\ item' = Fresh
          /\ Clashes(p, file # Absent)
          /\ Has(p, Fresh, "verify")
          /\ UNCHANGED faults
       \/ /\ IF item # Absent THEN UNCHANGED faults ELSE Refused
          /\ Goto(p, "adopt")
          /\ UNCHANGED <<item, clash>>
    /\ UNCHANGED <<file, vault>>

\* It is read back; what cannot be read back is scrapped.
CreateVerify(p) ==
    /\ At(p, "verify")
    /\ \/ /\ item = proc[p].key
          /\ Goto(p, "got")
          /\ UNCHANGED faults
       \/ /\ IF item # proc[p].key THEN UNCHANGED faults ELSE Refused
          /\ Goto(p, "scrap")
    /\ UNCHANGED <<file, item, vault, minted, clash>>

CreateScrap(p) ==
    /\ At(p, "scrap")
    /\ \/ item' = Absent /\ UNCHANGED faults
       \/ item # Absent /\ UNCHANGED item /\ Refused
    /\ Clashes(p, item' # Absent \/ vault # Absent \/ Others(p, All))
    /\ Goto(p, "file")
    /\ UNCHANGED <<file, vault, minted>>

\* Variant: the process keeps the key it generated.
CreateAdoptOwn(p) ==
    /\ At(p, "adopt")
    /\ Has(p, minted, "got")
    /\ Reads

\* The winner of a race supplies its key.
CreateAdopt(p) ==
    /\ At(p, "adopt")
    /\ \/ /\ item # Absent
          /\ Has(p, item, "got")
          /\ UNCHANGED <<faults, clash>>
       \/ /\ IF item = Absent THEN UNCHANGED faults ELSE Refused
          /\ Goto(p, "file")
          /\ Clashes(p, Others(p, All))
    /\ UNCHANGED <<file, item, vault, minted>>

\* load_or_create_file_key: 32 bytes are a key, whatever they are.
AfterFile(p) == IF proc[p].run = "in" THEN "in_store" ELSE "got"

FileKey(p) ==
    /\ At(p, "file")
    /\ CASE file = Absent -> Goto(p, "create")
         [] file = Torn   -> Ends(p)
         [] OTHER         -> Has(p, file, AfterFile(p))
    /\ Reads

FileCreate(p) ==
    /\ At(p, "create") /\ minted < MaxKeys
    /\ minted' = Fresh
    /\ file' = Torn
    /\ Has(p, Fresh, "write")
    /\ Clashes(p, file # Absent \/ item # Absent)
    /\ UNCHANGED <<item, vault, faults>>

FileWrite(p) ==
    /\ At(p, "write")
    /\ file' = proc[p].key
    /\ Goto(p, IF proc[p].run = "out" THEN "out_delete" ELSE AfterFile(p))
    /\ UNCHANGED <<item, vault, minted, faults, clash>>

-----------------------------------------------------------------------------
\* The key is used: to open the vault, or to write it anew.

Use(p) ==
    /\ At(p, "got")
    /\ CASE proc[p].run = "save" -> vault' = Torn /\ Goto(p, "save")
         [] proc[p].run = "add" /\ vault = proc[p].key -> Goto(p, "seal") /\ UNCHANGED vault
         [] OTHER -> Ends(p) /\ UNCHANGED vault
    /\ UNCHANGED <<file, item, minted, faults, clash>>

Save(p) ==
    /\ At(p, "save")
    /\ vault' = proc[p].key
    /\ Ends(p)
    /\ UNCHANGED <<file, item, minted, faults, clash>>

-----------------------------------------------------------------------------
\* migrate_key_to_store.

\* With an item there, an earlier migration is finished if both agree.
MigrateIn(p) ==
    /\ At(p, "in")
    /\ CASE item = Absent -> Goto(p, "file")
         [] item # Absent /\ file = item -> Goto(p, "shred")
         [] OTHER -> Ends(p)
    /\ Reads

InStore(p) ==
    /\ At(p, "in_store")
    /\ \/ /\ item = Absent
          /\ item' = proc[p].key
          /\ Goto(p, "in_verify")
          /\ UNCHANGED faults
       \/ /\ IF item # Absent THEN UNCHANGED faults ELSE Refused
          /\ Ends(p)
          /\ UNCHANGED item
    /\ UNCHANGED <<file, vault, minted, clash>>

InVerify(p) ==
    /\ At(p, "in_verify")
    /\ \/ /\ item = proc[p].key
          /\ Goto(p, "shred")
          /\ UNCHANGED faults
       \/ /\ IF item # proc[p].key THEN UNCHANGED faults ELSE Refused
          /\ Ends(p)
    /\ UNCHANGED <<file, item, vault, minted, clash>>

\* shred overwrites, then removes.
ShredOverwrite(p) ==
    /\ At(p, "shred")
    /\ file' = IF file = Absent THEN Absent ELSE Junk
    /\ Goto(p, "unlink")
    /\ UNCHANGED <<item, vault, minted, faults, clash>>

ShredRemove(p) ==
    /\ At(p, "unlink")
    /\ file' = Absent
    /\ Ends(p)
    /\ UNCHANGED <<item, vault, minted, faults, clash>>

-----------------------------------------------------------------------------
\* migrate_key_to_file.

\* The file is written before the item is deleted, unless it is there and
\* holds the same key.
MigrateOut(p) ==
    /\ At(p, "out")
    /\ CASE item # Absent /\ file = Absent -> Has(p, item, "out_open")
         [] item # Absent /\ file = item   -> Goto(p, "out_delete")
         [] OTHER -> Ends(p)
    /\ Reads

OutOpen(p) ==
    /\ At(p, "out_open")
    /\ file' = Torn
    /\ Clashes(p, file # Absent)
    /\ Goto(p, "write")
    /\ UNCHANGED <<item, vault, minted, faults>>

OutDelete(p) ==
    /\ At(p, "out_delete")
    /\ \/ item' = Absent /\ UNCHANGED faults
       \/ item # Absent /\ UNCHANGED item /\ Refused
    /\ Ends(p)
    /\ UNCHANGED <<file, vault, minted, clash>>

-----------------------------------------------------------------------------
Die(p) ==
    /\ proc[p] # Idle /\ Refused
    /\ Ends(p)
    /\ UNCHANGED <<file, item, vault, minted, clash>>

Next ==
    \E p \in Procs :
       \/ Begin(p) \/ Seal(p) \/ Use(p) \/ Save(p) \/ Die(p)
       \/ resolve_backend(p) \/ first_run_keychain_default(p)
       \/ keychain_key_from(p) \/ keychain_denied(p)
       \/ CreateStore(p) \/ CreateVerify(p) \/ CreateScrap(p) \/ CreateAdopt(p)
       \/ FileKey(p) \/ FileCreate(p) \/ FileWrite(p)
       \/ MigrateIn(p) \/ InStore(p) \/ InVerify(p)
       \/ ShredOverwrite(p) \/ ShredRemove(p)
       \/ MigrateOut(p) \/ OutOpen(p) \/ OutDelete(p)

Spec == Init /\ [][Next]_vars

-----------------------------------------------------------------------------
\* The key the next command will find.
Selected == IF item # Absent THEN item ELSE file

\* The key the vault is encrypted with is the key the next command will find,
\* in whichever of the two places it looks: at every step of a migration and
\* after a death at any step of it, after any refusal of the keychain, with
\* readers that run beside it, and when several first runs create the key at
\* once.  (Except for what Clashes lists.)
VaultOpens == vault \in Keys /\ ~clash => Selected = vault
=============================================================================

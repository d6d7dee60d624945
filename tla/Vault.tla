------------------------------- MODULE Vault --------------------------------
(***************************************************************************)
(* The encrypted wallet on disk, nightfall-wallet/src/vault_store.rs, with  *)
(* the plaintext wallet it replaces (open_at and save, wallet/src/lib.rs).  *)
(*                                                                         *)
(* A plaintext wallet is a seed and a database.  Enrolling creates the      *)
(* vault directory, which forbids plaintext wallets for good; migration     *)
(* commits an encrypted snapshot; retirement removes the database and puts  *)
(* a tombstone in the seed's place.  From then on every edit of the wallet  *)
(* commits a snapshot before its result, a signed payment say, is handed    *)
(* out.  An operation may fail or the process be killed between any two     *)
(* file operations, and the power may fail, which undoes what the last      *)
(* fsync of its directory did not reach.                                    *)
(*                                                                         *)
(* The wallet's state is a number that every edit raises.  Encryption,      *)
(* passwords and what other programs do to the files are left out.          *)
(***************************************************************************)
EXTENDS Integers, Sequences, FiniteSets, SequencesExt

CONSTANTS
    MaxEdits,  \* bound: edits of the wallet
    None

ASSUME VaultAssumption == MaxEdits \in Nat /\ None \notin Nat \cup {"plain", "tomb"}

VARIABLES
    fs,        \* the files
    synced,    \* the files as of the last fsync of their directory
    mode,      \* what the process has open: "off", "plain" or "vault"
    mem,       \* the wallet in memory, None while it is locked
    disk,      \* the snapshot the session believes to be on disk
    unusable,  \* the outcome of a commit is uncertain
    todo,      \* file operations still to do
    released,  \* history: the last state of the wallet the vault has shown
    used,      \* history: a wallet whose files were synced, or that the vault showed
    unsure     \* history: a snapshot was opened whose rename was not synced

vars == <<fs, synced, mode, mem, disk, unusable, todo, released, used, unsure>>

Op(op) == <<[op |-> op]>>

-----------------------------------------------------------------------------
(* The files *)

\* A plaintext wallet, or nothing.
Init ==
    /\ used \in BOOLEAN
    /\ fs = [seed |-> IF used THEN "plain" ELSE None, db |-> IF used THEN 0 ELSE None,
             marker |-> FALSE, snapshot |-> None]
    /\ synced = fs
    /\ mode = "off" /\ mem = None /\ disk = None /\ unusable = FALSE /\ todo = <<>>
    /\ released = None /\ unsure = FALSE

RootSynced == [fs EXCEPT !.snapshot = synced.snapshot]

\* needs_legacy_retirement
NeedsRetirement ==
    fs.db # None \/ fs.seed = "plain" \/ (fs.seed = None /\ disk # None)

Healthy == mode = "vault" /\ todo = <<>> /\ ~unusable
Ready == Healthy /\ ~NeedsRetirement
DiskUnchanged == fs.snapshot = disk

-----------------------------------------------------------------------------
(* The plaintext wallet *)

\* Mutant: the vault directory does not forbid it.
PlainDespiteVault == TRUE

\* vault_required: the marker, not the snapshot, decides.
PlainAllowed == ~fs.marker

\* open_at: without a seed and a database, a new wallet is made.  Nothing syncs
\* it: it counts from the first fsync of its folder on.
OpenPlain ==
    /\ mode = "off" /\ PlainAllowed
    /\ \/ fs.seed = "plain" /\ mem' = (IF fs.db = None THEN 0 ELSE fs.db) /\ UNCHANGED fs
       \/ fs.seed = None /\ fs.db = None /\ mem' = 0 /\ fs' = [fs EXCEPT !.seed = "plain"]
    /\ mode' = "plain"
    /\ UNCHANGED <<synced, disk, unusable, todo, released, used, unsure>>

\* save
SavePlain ==
    /\ mode = "plain" /\ PlainAllowed
    /\ mem < MaxEdits /\ mem' = mem + 1
    /\ fs' = [fs EXCEPT !.db = mem + 1]
    /\ UNCHANGED <<synced, mode, disk, unusable, todo, released, used, unsure>>

-----------------------------------------------------------------------------
(* Opening *)

\* open: makes the directory if there is none, and syncs its parent.  It reads
\* the snapshot; it does not sync the directory that holds it.
Open ==
    /\ mode # "vault"
    /\ fs' = [fs EXCEPT !.marker = TRUE]
    /\ synced' = [fs' EXCEPT !.snapshot = synced.snapshot]
    /\ mode' = "vault" /\ mem' = None /\ unusable' = FALSE
    /\ disk' = fs.snapshot
    /\ used' = (used \/ fs.seed = "plain")
    /\ unsure' = (unsure \/ fs.snapshot # synced.snapshot)
    /\ UNCHANGED <<todo, released>>

\* It stops once the directory is made: the plaintext wallet is out of use already.
OpenFails ==
    /\ mode # "vault" /\ ~fs.marker
    /\ fs' = [fs EXCEPT !.marker = TRUE]
    /\ UNCHANGED <<synced, mode, mem, disk, unusable, todo, released, used, unsure>>

\* The process dies, or is told to quit.
Dies ==
    /\ mode # "off"
    /\ mode' = "off" /\ mem' = None /\ disk' = None /\ unusable' = FALSE /\ todo' = <<>>
    /\ UNCHANGED <<fs, synced, released, used, unsure>>

PowerCut ==
    /\ fs # synced
    /\ \E kept \in SUBSET DOMAIN fs : fs' = [f \in DOMAIN fs |-> IF f \in kept THEN fs[f] ELSE synced[f]]
    /\ synced' = fs'
    /\ mode' = "off" /\ mem' = None /\ disk' = None /\ unusable' = FALSE /\ todo' = <<>>
    /\ UNCHANGED <<released, used, unsure>>

-----------------------------------------------------------------------------
(* What the vault does *)

\* Mutant: what was edited is handed out as soon as it is renamed into place.
PersistEarly(v, done) == <<[op |-> "rename", ver |-> v], [op |-> done, ver |-> v], [op |-> "syncVault"]>>

\* persist, once the temporary file is written and synced.
Persist(v, done) == <<[op |-> "rename", ver |-> v], [op |-> "syncVault"], [op |-> done, ver |-> v]>>

\* The database goes, then the seed makes room for the tombstone.
Retire(db, seed) ==
    Op("hold") \o (IF db # None THEN Op("removeDb") \o Op("syncRoot") ELSE <<>>)
    \o (IF seed # "tomb" THEN Op("tombstone") \o Op("syncRoot") ELSE <<>>) \o Op("syncRoot") \o Op("retired")

Begins(ops) ==
    /\ todo' = ops
    /\ UNCHANGED <<fs, synced, mode, mem, disk, unusable, released, used, unsure>>

\* migrate_legacy: the snapshot is made from the plaintext, which stays.  install
\* leaves the session locked.
Migrate ==
    /\ Healthy /\ disk = None /\ fs.seed = "plain"
    /\ Begins(Persist(IF fs.db = None THEN 0 ELSE fs.db, "install"))

\* initialize: a new wallet, or one restored from its words.
Initialize ==
    /\ Healthy /\ disk = None /\ ~NeedsRetirement /\ fs.seed = None
    /\ Begins(Persist(0, "install") \o Op("hold") \o Op("tombstone") \o Op("syncRoot") \o Op("retired"))

\* Mutant: the copy is not looked at again.
CopyAssumed == TRUE

\* The snapshot is read and compared with the database that is about to go.
CopyVerified == fs.snapshot # None /\ DiskUnchanged /\ fs.db \in {None, fs.snapshot}

\* finish_legacy_retirement, begun again where it was broken off.
FinishRetirement ==
    /\ Healthy /\ CopyVerified
    /\ Begins(Retire(fs.db, fs.seed))

\* unlock: from now on the wallet shows what the snapshot holds.
Unlock ==
    /\ Ready /\ disk # None /\ mem = None /\ DiskUnchanged
    /\ mem' = disk
    /\ released' = disk /\ used' = TRUE
    /\ UNCHANGED <<fs, synced, mode, disk, unusable, todo, unsure>>

Lock ==
    /\ Healthy /\ mem # None
    /\ mem' = None
    /\ UNCHANGED <<fs, synced, mode, disk, unusable, todo, released, used, unsure>>

\* update, and change_password, which leaves the wallet as it is: an edited copy
\* is committed.
Update ==
    /\ Ready /\ mem # None /\ DiskUnchanged
    /\ \E new \in {mem, mem + 1} \cap 0..MaxEdits : Begins(Persist(new, "publish"))

\* The next operation is op.
Does(op) ==
    /\ todo # <<>> /\ Head(todo).op = op
    /\ todo' = Tail(todo)
    /\ UNCHANGED mode

\* Mutant: a commit is not uncertain.
RenameHopefully ==
    /\ Does("rename")
    /\ fs' = [fs EXCEPT !.snapshot = Head(todo).ver]
    /\ UNCHANGED <<synced, mem, disk, unusable, released, used, unsure>>

Rename ==
    /\ Does("rename")
    /\ fs' = [fs EXCEPT !.snapshot = Head(todo).ver]
    /\ unusable' = TRUE
    /\ UNCHANGED <<synced, mem, disk, released, used, unsure>>

SyncVault ==
    /\ Does("syncVault")
    /\ synced' = [synced EXCEPT !.snapshot = fs.snapshot] /\ unsure' = FALSE
    /\ UNCHANGED <<fs, mem, disk, unusable, released, used>>

\* The edited copy becomes the session, and its result is handed out.
Publish ==
    /\ Does("publish")
    /\ disk' = Head(todo).ver /\ mem' = Head(todo).ver /\ unusable' = FALSE
    /\ released' = Head(todo).ver /\ used' = TRUE
    /\ UNCHANGED <<fs, synced, unsure>>

\* The first session, locked again.
Install ==
    /\ Does("install")
    /\ disk' = Head(todo).ver /\ unusable' = FALSE /\ used' = TRUE
    /\ UNCHANGED <<fs, synced, mem, released, unsure>>

Hold ==
    /\ Does("hold")
    /\ unusable' = TRUE
    /\ UNCHANGED <<fs, synced, mem, disk, released, used, unsure>>

RemoveDb ==
    /\ Does("removeDb")
    /\ fs' = [fs EXCEPT !.db = None]
    /\ UNCHANGED <<synced, mem, disk, unusable, released, used, unsure>>

Tombstone ==
    /\ Does("tombstone")
    /\ fs' = [fs EXCEPT !.seed = "tomb"]
    /\ UNCHANGED <<synced, mem, disk, unusable, released, used, unsure>>

SyncRoot ==
    /\ Does("syncRoot")
    /\ synced' = RootSynced
    /\ UNCHANGED <<fs, mem, disk, unusable, released, used, unsure>>

Retired ==
    /\ Does("retired")
    /\ unusable' = FALSE /\ mem' = None
    /\ UNCHANGED <<fs, synced, disk, released, used, unsure>>

\* It fails, and the error is returned.
Fails ==
    /\ todo # <<>>
    /\ todo' = <<>>
    /\ UNCHANGED <<fs, synced, mode, mem, disk, unusable, released, used, unsure>>

Next ==
    \/ OpenPlain \/ SavePlain \/ Open \/ OpenFails \/ Dies \/ PowerCut
    \/ Migrate \/ Initialize \/ FinishRetirement \/ Unlock \/ Lock \/ Update
    \/ Rename \/ SyncVault \/ Publish \/ Install
    \/ Hold \/ RemoveDb \/ Tombstone \/ SyncRoot \/ Retired \/ Fails

Spec == Init /\ [][Next]_vars

-----------------------------------------------------------------------------
(* Properties *)

\* Once there is a wallet its keys are on disk, as plaintext or in a snapshot:
\* wherever migration, retirement or a power cut broke off.
KeysAlwaysSurvive == used => fs.seed = "plain" \/ fs.snapshot # None

\* The same, for sessions that opened a snapshot whose directory had been synced.
KeysSurvive == unsure \/ KeysAlwaysSurvive

\* What the vault has handed out is in the snapshot: a payment that was signed and
\* sent is not forgotten by any crash or power cut.
ReleasedIsSaved == unsure \/ released = None \/ (fs.snapshot # None /\ fs.snapshot >= released)

\* A usable session works on what is on disk: after a commit whose outcome is
\* uncertain it can only be opened again.
SessionIsDisk == Healthy => disk = fs.snapshot /\ mem \in {None, disk}

\* What runs on plaintext is the only wallet there is: no copy that would leave a
\* snapshot behind and stop its retirement, and no new wallet in the place of one
\* that was there.
NoPlainFallback ==
    mode = "plain" => fs.snapshot = None /\ released = None /\ (used => fs.seed = "plain")
=============================================================================

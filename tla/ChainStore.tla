---------------------------- MODULE ChainStore ----------------------------
(***************************************************************************)
(* The chain on disk, nightfall-storage/src/lib.rs, with the node's use of *)
(* it (persist and start-up, nightfall-node/src/runtime.rs).               *)
(*                                                                         *)
(* A save is several file operations.  Which ones is decided from the      *)
(* metadata file when the save begins; `job` holds those still to do.      *)
(* Between any two the process may be killed; a faulty disk also returns   *)
(* errors, which the node ignores, and loses writes when the power fails.  *)
(*                                                                         *)
(* A file that cannot be trusted is verified by a loader thread.  Until it *)
(* is done the node is up with an empty chain, and turning pruning on then *)
(* saves that empty chain.                                                 *)
(*                                                                         *)
(* A block is a name with a parent, a size in bytes and a verdict.  A file *)
(* is a sequence of records; Junk is what is left of a record that was cut *)
(* short.  The horizon file is the sequence of blocks it has absorbed.     *)
(***************************************************************************)
EXTENDS Integers, Sequences, FiniteSets, Functions, SequencesExt

CONSTANTS
    Blocks,       \* block names
    Parent,       \* block -> its predecessor, GenesisHash for the first
    GenesisHash,
    Size,         \* block -> bytes of its binary record
    JsonBytes,    \* bytes of JSON to a byte of binary
    Invalid,      \* blocks that full verification refuses
    Keep,         \* how many bodies a pruning node keeps
    Installs,     \* install ids
    Me,           \* this datadir's own
    InitialDirs,  \* contents the datadir may have before the first start
    Prunes,       \* may the operator turn pruning on?
    MaxRecords,     \* bound on the file in which an append may still fail
    MaxAfterFault,  \* bound on the chains the node moves to once a fault has happened
    Junk, None

\* The metadata a datadir may hold: ChainMeta, the fields that are read again.
Metas == [count : Nat, tip : Blocks \cup {GenesisHash}, by : Installs, bytes : Nat, first : Nat,
          horizonBytes : Nat, headersBytes : Nat]

\* What the datadir may hold, each file possibly missing.
Files == Seq(Blocks \cup {Junk}) \cup {None}
Dirs  == [bin : Files, json : Files, meta : Metas \cup {None}, headers : Files, horizon : Files]

ASSUME StoreAssumption ==
    /\ Parent \in [Blocks -> Blocks \cup {GenesisHash}] /\ GenesisHash \notin Blocks
    /\ Size \in [Blocks -> Nat \ {0, 1}]
    /\ Invalid \subseteq Blocks /\ Junk \notin Blocks \cup {GenesisHash}
    /\ None \notin Seq(Blocks \cup {Junk}) /\ None \notin Metas \cup Dirs /\ Me \in Installs
    /\ Keep \in Nat \ {0} /\ JsonBytes \in Nat \ {0} /\ Prunes \in BOOLEAN
    /\ MaxRecords \in Nat /\ MaxAfterFault \in Nat

VARIABLES
    disk,      \* what the files hold: blocks.bin, blocks.jsonl, meta, headers, horizon
    unsynced,  \* the files whose last write was not fsynced
    mode,      \* "down", "loading", "up", "refused" (the start failed), "migrating"
    image,     \* what the loader thread reads, None when it is not running
    mem,       \* the chain in memory: its path from genesis, first body height
    prune,     \* is pruning on?
    job,       \* file operations of the save in progress
    kept       \* history: the last chain saved, and those tried since; empty
               \* when nothing is promised any more (Broken)

vars == <<disk, unsynced, mode, image, mem, prune, job, kept>>

-----------------------------------------------------------------------------
(* Blocks and bytes *)

TipOf(path) == IF path = <<>> THEN GenesisHash ELSE Last(path)

\* recs continues base, block by block.
Links(base, recs) ==
    \A i \in DOMAIN recs :
        /\ recs[i] \in Blocks
        /\ Parent[recs[i]] = IF i = 1 THEN TipOf(base) ELSE recs[i - 1]

Verifies(recs) == Links(<<>>, recs) /\ Range(recs) \cap Invalid = {}

\* Every chain that full verification accepts.
Paths == {p \in UNION {[1..n -> Blocks \ Invalid] : n \in 0..Cardinality(Blocks)} : Verifies(p)}

\* detect: of two blocks files the binary one counts.
Format(d) == IF d.bin = None /\ d.json # None THEN "json" ELSE "bin"
BlocksOf(d) == d[Format(d)]
Holding(d, recs) == [d EXCEPT ![Format(d)] = recs]

RecordBytes(fmt, rec) ==
    IF rec = Junk THEN 1 ELSE IF fmt = "json" THEN JsonBytes * Size[rec] ELSE Size[rec]

\* The length of the file of these records.
Bytes(fmt, recs) ==
    LET upTo[n \in 0..Len(recs)] ==
            IF n = 0 THEN 0 ELSE upTo[n - 1] + RecordBytes(fmt, recs[n])
    IN  upTo[Len(recs)]

\* fs::metadata(..).len(), zero for a missing file
BlockBytes(d) == IF BlocksOf(d) = None THEN 0 ELSE Bytes(Format(d), BlocksOf(d))
FlatBytes(recs) == IF recs = None THEN 0 ELSE Len(recs)

-----------------------------------------------------------------------------
(* Reading *)

\* Mutant: whose record it is does not matter.
IsAnyFileTrusted(d) ==
    /\ d.meta # None
    /\ d.meta.bytes = BlockBytes(d) /\ d.meta.bytes > 0

\* is_own_file_trusted: our own record, and the lengths it was written with.
IsOwnFileTrusted(d) ==
    /\ d.meta # None /\ d.meta.by = Me
    /\ d.meta.bytes = BlockBytes(d) /\ d.meta.bytes > 0
    /\ d.meta.first > 0 => /\ d.meta.horizonBytes = FlatBytes(d.horizon)
                           /\ d.meta.horizonBytes > 0
                           /\ d.meta.headersBytes = FlatBytes(d.headers)
                           /\ d.meta.headersBytes > 0

\* The records in the first `meta.bytes` of the file, where they end there and
\* are the very chain the metadata names.
CommittedPrefix(d) ==
    {n \in 0..Len(BlocksOf(d)) :
        LET recs == SubSeq(BlocksOf(d), 1, n)
        IN  /\ BlockBytes(Holding(d, recs)) = d.meta.bytes
            /\ Verifies(recs)
            /\ n = d.meta.count /\ TipOf(recs) = d.meta.tip}

\* Mutant: the tail is never cut.
RecoveredNot(d) == d

\* Mutant: whole records of the tail are kept, only the torn one goes.
RecoveredSalvages(d) ==
    IF BlocksOf(d) = None THEN d
    ELSE Holding(d, SelectSeq(BlocksOf(d), LAMBDA b : b # Junk))

\* recover_uncommitted_archive_tail
Recovered(d) ==
    IF /\ d.meta # None /\ d.meta.by = Me /\ d.meta.first = 0 /\ d.meta.bytes > 0
       /\ BlockBytes(d) > d.meta.bytes
       /\ CommittedPrefix(d) # {}
    THEN Holding(d, SubSeq(BlocksOf(d), 1, d.meta.count))
    ELSE d

\* What is rebuilt before the stored bodies are applied.
LoadBase(d) ==
    IF d.meta # None /\ d.meta.first > 0
    THEN SubSeq(d.headers, 1, Min({d.meta.first, Len(d.headers)}))
    ELSE <<>>

LoadedChain(d) ==
    IF BlocksOf(d) = None THEN [path |-> <<>>, first |-> 0]
    ELSE [path |-> LoadBase(d) \o BlocksOf(d), first |-> Len(LoadBase(d))]

\* load_or_new_with_progress succeeds on d, the tail already cut.
Loads(d) ==
    \/ BlocksOf(d) = None
    \/ /\ d.meta # None /\ d.meta.first > 0
       /\ IsOwnFileTrusted(d)
       /\ Len(LoadBase(d)) = d.meta.first
       /\ Links(LoadBase(d), BlocksOf(d))
       /\ d.horizon = LoadBase(d)
       /\ TipOf(LoadedChain(d).path) = d.meta.tip
       /\ Len(LoadedChain(d).path) = d.meta.count
    \/ /\ d.meta # None /\ d.meta.first = 0
       /\ IsOwnFileTrusted(d)
       /\ Links(<<>>, BlocksOf(d))
       /\ TipOf(BlocksOf(d)) = d.meta.tip
    \/ /\ BlocksOf(d) # None
       /\ d.meta # None => d.meta.first = 0
       /\ ~IsOwnFileTrusted(d)
       /\ Verifies(BlocksOf(d))

-----------------------------------------------------------------------------
(* Writing *)

StoredCount(d) == IF d.meta = None THEN 0 ELSE d.meta.count

\* Mutant: only the length is compared with the stored chain.
AncestorMatchesByLength(ch, d) == StoredCount(d) <= Len(ch.path)

\* hash_at(stored count - 1) is the recorded tip.
AncestorMatches(ch, d) ==
    StoredCount(d) \in DOMAIN ch.path /\ ch.path[StoredCount(d)] = d.meta.tip

\* save and save_pruned: which file operations, in which order.
SaveSteps(ch, d) ==
    LET have     == Len(ch.path)
        count    == StoredCount(d)
        diverged == count > have \/ BlocksOf(d) = None \/ (count > 0 /\ ~AncestorMatches(ch, d))
        moved    == ch.first # IF d.meta = None THEN 0 ELSE d.meta.first
    IN  IF ch.first = 0
        THEN IF diverged THEN <<"rewrite_all", "meta">>
             ELSE IF count < have THEN <<"append", "meta">> ELSE <<"meta">>
        ELSE IF diverged \/ moved THEN <<"headers", "horizon", "rewrite_bodies", "meta">>
             ELSE IF count < have THEN <<"headers", "horizon", "append_bodies", "meta">>
             ELSE <<"headers", "horizon", "meta">>

\* Blocks, and no record that counts them: the first append was cut short.
Uncounted(d) == StoredCount(d) = 0 /\ BlockBytes(d) > 0

\* The bodies an append adds: everything past the recorded count.
Missing(ch, d) ==
    LET from == IF StoredCount(d) > ch.first THEN StoredCount(d) ELSE ch.first
    IN  SubSeq(ch.path, from + 1, Len(ch.path))

\* write_meta: the commit record, with the lengths the files have now.
MetaFor(ch, d) ==
    [count |-> Len(ch.path), tip |-> TipOf(ch.path), by |-> Me,
     bytes |-> BlockBytes(d), first |-> ch.first,
     horizonBytes |-> FlatBytes(d.horizon), headersBytes |-> FlatBytes(d.headers)]

Written(step, ch, d) ==
    CASE step = "headers" -> [d EXCEPT !.headers = ch.path]
      [] step = "horizon" -> [d EXCEPT !.horizon = SubSeq(ch.path, 1, ch.first)]
      [] step \in {"rewrite_all", "rewrite_bodies"} ->
            Holding(d, SubSeq(ch.path, ch.first + 1, Len(ch.path)))
      [] step \in {"append", "append_bodies"} -> Holding(d, BlocksOf(d) \o Missing(ch, d))
      [] step = "meta" -> [d EXCEPT !.meta = MetaFor(ch, d)]
      [] step = "set_aside" -> Holding(d, None)
      [] step \in {"start_bin", "start_json"} ->
            [d EXCEPT ![IF step = "start_bin" THEN "bin" ELSE "json"] = <<>>]
      [] step = "drop_meta" -> [d EXCEPT !.meta = None]
      [] step = "new_chain" -> d
      [] step = "swap_in" -> [d EXCEPT !.bin = d.json]
      [] step = "swap_out" -> [d EXCEPT !.json = None]
      [] step = "restamp" -> [d EXCEPT !.meta.bytes = BlockBytes(d)]

\* What an operation cut short leaves: an append any part of its bytes, the
\* others nothing, for they rename a finished file into place.
Partial(step, ch, d) ==
    {d} \cup
    (IF step \in {"append", "append_bodies"}
     THEN {Holding(d, BlocksOf(d) \o SubSeq(Missing(ch, d), 1, n) \o torn) :
              n \in 0..Len(Missing(ch, d)), torn \in {<<>>, <<Junk>>}}
     ELSE {})

\* Only the archive's own steps and the metadata are fsynced.
UnsyncedAfter(step) ==
    CASE step \in {"append", "rewrite_all", "set_aside"} -> unsynced \ {Format(disk)}
      [] step \in {"append_bodies", "rewrite_bodies"} -> unsynced \cup {Format(disk)}
      [] step \in {"headers", "horizon"} -> unsynced \cup {step}
      [] step \in {"meta", "drop_meta"} -> unsynced \ {"meta"}
      [] step \in {"start_bin", "start_json", "new_chain"} -> unsynced
      [] step = "swap_in" -> unsynced \cup {"bin"}
      [] step = "swap_out" -> unsynced \ {"json"}
      [] step = "restamp" -> unsynced \cup {"meta"}

-----------------------------------------------------------------------------
(* The node *)

NoChain == [path |-> <<>>, first |-> 0]

Empty == [bin |-> None, json |-> None, meta |-> None, headers |-> None, horizon |-> None]

\* A datadir an archive node has saved to, in one format or the other.
SavedBy(install, fmt, recs) ==
    LET bare == [Empty EXCEPT ![fmt] = recs]
    IN  [bare EXCEPT !.meta =
            [MetaFor([path |-> recs, first |-> 0], bare) EXCEPT !.by = install]]

\* Before the first start the datadir is new, this node's own, or a copy of another's:
\* the blocks of a copy may be any.
ASSUME DirAssumption ==
    \A d \in InitialDirs :
        \/ d = Empty
        \/ /\ BlocksOf(d) \in Seq(Blocks) /\ Links(<<>>, BlocksOf(d))
           /\ d.meta.by \in Installs /\ d = SavedBy(d.meta.by, Format(d), BlocksOf(d))
           /\ d.meta.by = Me => Verifies(BlocksOf(d))

Init ==
    /\ disk \in InitialDirs
    /\ unsynced = {}
    /\ mode = "down" /\ mem = NoChain /\ image = None
    /\ prune = FALSE
    /\ job = <<>>
    /\ kept = {LoadedChain(disk).path}

\* prune_keep on a chain about to be saved.
PrunedTo(ch, on) ==
    IF on /\ Len(ch.path) - ch.first > Keep
    THEN [ch EXCEPT !.first = Len(ch.path) - Keep] ELSE ch

\* Nothing is promised once a disk operation failed or lost what it had written,
\* once the empty chain was saved over one still loading, once the first append
\* was cut short before its record, once a resync met files of both formats or a
\* migration certified a tail that no record counts.
Broken == kept = {}

Tried(path) == IF Broken THEN {} ELSE kept \cup {path}

\* persist: prune, then save.  The node's lock is held throughout, so the
\* chain cannot change before the job is done.
BeginSave(ch, on, d) ==
    /\ mem' = PrunedTo(ch, on)
    /\ job' = SaveSteps(PrunedTo(ch, on), d)

Running == mode = "up" /\ job = <<>>

\* The chain moves to another path above its first body, and is saved.
Move(path) ==
    /\ Running
    /\ Len(path) > mem.first /\ SubSeq(path, 1, mem.first) = SubSeq(mem.path, 1, mem.first)
    /\ ~IsPrefix(path, mem.path)
    /\ Broken => Len(path) <= MaxAfterFault   \* bound
    /\ BeginSave([mem EXCEPT !.path = path], prune, disk)
    /\ kept' = Tried(path)
    /\ UNCHANGED <<disk, unsynced, mode, image, prune>>

\* The save every thirty seconds, which waits for the loader.
PersistLoop ==
    /\ Running
    /\ BeginSave(mem, prune, disk)
    /\ kept' = Tried(mem.path)
    /\ UNCHANGED <<disk, unsynced, mode, image, prune>>

\* set_prune(true), which does not.
SetPrune ==
    /\ mode \in {"loading", "up"} /\ job = <<>>
    /\ Prunes /\ ~prune
    /\ prune' = TRUE
    /\ BeginSave(mem, TRUE, disk)
    /\ kept' = IF mode = "loading" THEN {} ELSE Tried(mem.path)
    /\ UNCHANGED <<disk, unsynced, mode, image>>

\* resync_chain: the blocks and the metadata go into a backup, and an empty chain
\* is saved in their place, in the same format.
Resync ==
    /\ Running
    /\ ~Broken   \* bound: no command after a fault
    /\ LET aside == IF BlocksOf(disk) = None THEN <<>>
                     ELSE <<"set_aside", IF Format(disk) = "bin" THEN "start_bin" ELSE "start_json">>
           empty == [disk EXCEPT ![Format(disk)] = IF @ = None THEN @ ELSE <<>>, !.meta = None]
       IN  job' = aside \o <<"drop_meta", "new_chain">> \o SaveSteps(NoChain, empty)
    /\ kept' = Tried(<<>>)
    /\ UNCHANGED <<disk, unsynced, mode, image, mem, prune>>

SaveStep ==
    /\ mode \in {"loading", "up"} /\ job # <<>>
    /\ disk' = Written(Head(job), mem, disk)
    /\ unsynced' = UnsyncedAfter(Head(job))
    /\ job' = Tail(job)
    /\ mem' = IF Head(job) = "new_chain" THEN NoChain ELSE mem
    /\ kept' = CASE Head(job) = "meta" /\ ~Broken -> {mem.path}
                 [] Head(job) = "set_aside" /\ disk.bin # None /\ disk.json # None -> {}
                 [] OTHER -> kept
    /\ UNCHANGED <<mode, image, prune>>

\* An operation fails: the save returns early and the error is dropped.
SaveFails ==
    /\ mode \in {"loading", "up"} /\ job # <<>>
    /\ BlocksOf(disk) # None => Len(BlocksOf(disk)) <= MaxRecords
    /\ disk' \in Partial(Head(job), mem, disk)
    /\ job' = <<>>
    /\ kept' = {}
    /\ UNCHANGED <<unsynced, mode, image, mem, prune>>

Stopped == mode' = "down" /\ job' = <<>> /\ mem' = NoChain /\ image' = None

\* The process is killed; what it has written stays.
Crash ==
    /\ mode \in {"loading", "up", "migrating"}
    /\ disk' \in IF job = <<>> THEN {disk} ELSE Partial(Head(job), mem, disk)
    /\ Stopped
    /\ UNCHANGED <<unsynced, prune, kept>>

Cuts(recs) ==
    {part \o torn : part \in {SubSeq(recs, 1, n) : n \in 0..(Len(recs) - 1)}, torn \in {<<>>, <<Junk>>}}

\* The power fails: of a file that was not fsynced any part may be missing.
PowerCut ==
    LET left(f) == {disk[f]} \cup (IF f \in unsynced THEN Cuts(disk[f]) ELSE {})
    IN  /\ mode \in {"loading", "up", "migrating"} /\ unsynced # {}
        /\ \E b \in left("bin"), j \in left("json"), h \in left("headers"), z \in left("horizon"),
              m \in {disk.meta} \cup (IF "meta" \in unsynced THEN {None} ELSE {}) :
              disk' = [bin |-> b, json |-> j, meta |-> m, headers |-> h, horizon |-> z]
        /\ Stopped
        /\ unsynced' = {}
        /\ kept' = {}
        /\ UNCHANGED prune

\* Start-up with a file that is trusted, or none: it is loaded before the node
\* is up, and saved when pruning drops bodies or there was no file.
StartTrusted ==
    LET ch    == LoadedChain(disk)
        on    == prune \/ ch.first > 0
        saves == BlocksOf(disk) = None \/ PrunedTo(ch, on) # ch
    IN  /\ mode \in {"down", "refused"}
        /\ BlocksOf(disk) = None \/ IsOwnFileTrusted(disk)
        /\ \/ /\ Loads(disk)
              /\ mode' = "up"
              /\ prune' = on
              /\ \/ saves /\ BeginSave(ch, on, disk) /\ kept' = Tried(ch.path)
                 \/ ~saves /\ mem' = ch /\ UNCHANGED <<job, kept>>
           \/ /\ ~Loads(disk)
              /\ mode' = "refused"
              /\ UNCHANGED <<mem, prune, job, kept>>
        /\ UNCHANGED <<disk, unsynced, image>>

\* Start-up with a file to verify: the node is up at once, its chain empty, and
\* the loader thread cuts a torn tail and reads the rest.
StartLoader ==
    /\ mode \in {"down", "refused"}
    /\ BlocksOf(disk) # None /\ ~IsOwnFileTrusted(disk)
    /\ disk' = Recovered(disk)
    /\ mode' = "loading" /\ image' = Recovered(disk)
    /\ kept' = IF Uncounted(disk) THEN {} ELSE kept
    /\ UNCHANGED <<unsynced, mem, prune, job>>

\* The loader is done: its chain replaces the empty one and is saved.  What it
\* refuses leaves the node loading for ever.
LoaderDone ==
    /\ mode = "loading" /\ image # None /\ job = <<>>
    /\ image' = None
    /\ \/ /\ Loads(image)
          /\ mode' = "up"
          /\ BeginSave(LoadedChain(image), prune, disk)
          /\ kept' = Tried(LoadedChain(image).path)
       \/ /\ ~Loads(image)
          /\ UNCHANGED <<mode, mem, job, kept>>
    /\ UNCHANGED <<disk, unsynced, prune>>

-----------------------------------------------------------------------------
(* nightfalld migrate-storage, which takes the lock of the data directory *)

\* Our own record, of a file that is no longer as long.
Outdated(d) == d.meta # None /\ d.meta.by = Me /\ d.meta.bytes # BlockBytes(d)

\* migrate_to_binary, once the converted file is written and compared.
Migrate ==
    /\ mode \in {"down", "refused"}
    /\ ~Broken   \* bound
    /\ Format(disk) = "json" /\ disk.json # <<>> /\ Junk \notin Range(disk.json)
    /\ mode' = "migrating"
    /\ job' = IF disk.meta = None THEN <<"swap_in", "swap_out">>
              ELSE <<"swap_in", "swap_out", "restamp">>
    /\ kept' = IF Outdated(disk) THEN {} ELSE kept
    /\ UNCHANGED <<disk, unsynced, image, mem, prune>>

MigrateStep ==
    /\ mode = "migrating"
    /\ disk' = Written(Head(job), mem, disk)
    /\ unsynced' = UnsyncedAfter(Head(job))
    /\ job' = Tail(job)
    /\ mode' = IF Len(job) = 1 THEN "down" ELSE mode
    /\ UNCHANGED <<image, mem, prune, kept>>

Next ==
    \/ \E p \in Paths : Move(p)
    \/ PersistLoop \/ SetPrune \/ Resync
    \/ SaveStep
    \/ Migrate \/ MigrateStep
    \/ Crash
    \/ StartTrusted \/ StartLoader \/ LoaderDone

Spec == Init /\ [][Next]_vars

\* The same on a disk that fails: it fills up, or loses what was not fsynced.
NextFaulty == Next \/ SaveFails \/ PowerCut

SpecFaulty == Init /\ [][NextFaulty]_vars

-----------------------------------------------------------------------------
(* Properties *)

\* Once a save has returned, the files load, and what loads is the chain that
\* was saved -- whatever reorgs, crashes and half-done saves came before.
SavedReplays == Running /\ kept = {mem.path} => Loads(disk) /\ LoadedChain(disk) = mem

\* A start never loads anything but the last chain saved or a newer one that
\* was being saved: no crash rolls the node back further, or mixes two chains.
RestartsWhereItStopped ==
    [][~Broken /\ mode # "up" /\ mode' = "up" => mem'.path \in kept]_vars

\* No block that full verification refuses ever becomes part of the chain:
\* proof-of-work checks are skipped only for blocks this node has checked,
\* whatever a failing disk left behind.
OnlyVerifiedBlocks == Range(mem.path) \cap Invalid = {}

\* An archive node starts again after every crash, unless the file it was given
\* holds a block it must refuse.
StartFailed == mode = "refused" \/ (mode = "loading" /\ image = None)
RestartSucceeds == StartFailed => Broken \/ prune \/ Range(BlocksOf(disk)) \cap Invalid # {}

\* An append cut short before its record is rolled back: an archive node whose
\* disk does what it is told starts again after every crash, the first one too.
EveryTailIsRolledBack == ~StartFailed
=============================================================================

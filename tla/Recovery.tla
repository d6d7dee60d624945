------------------------------ MODULE Recovery ------------------------------
(***************************************************************************)
(* nightfalld recover-stalled-fork, nightfall-node/src/recovery.rs, and     *)
(* the two things that keep a chain safe from it: the lock of the data     *)
(* directory (dirlock.rs) and the journal without whose removal no         *)
(* ChainStore is read (storage/src/lib.rs).                                *)
(*                                                                         *)
(* The command moves the chain files into a new backup directory and puts  *)
(* those of an empty chain in their place, file by file.  It may return an *)
(* error or be killed between any two operations, and the power may fail,  *)
(* which undoes any of the directory changes made since the last fsync.    *)
(* What the files hold is left to ChainStore: here a file belongs to a     *)
(* chain, and a chain is whole where all its files are together.           *)
(***************************************************************************)
EXTENDS Integers, Sequences, FiniteSets, SequencesExt

CONSTANTS
    FileOrder,   \* CHAIN_FILES, in their order
    FreshFiles,  \* the files an empty chain has
    PrunedFiles, \* those only a pruned chain has
    Processes,   \* processes that use the data directory
    MaxChains,   \* bound: chains the directory ever holds
    MaxBackups,  \* bound: backups made
    None

Files == Range(FileOrder)
Chains == 1..MaxChains
Backups == 1..MaxBackups

ASSUME RecoveryAssumption ==
    /\ {"blocks", "meta"} \subseteq FreshFiles /\ FreshFiles \cap PrunedFiles = {}
    /\ FreshFiles \cup PrunedFiles = Files /\ IsInjective(FileOrder)
    /\ FileOrder \in Seq(Files)
    /\ MaxChains \in Nat \ {0} /\ MaxBackups \in Nat \ {0}
    /\ None \notin Chains \cup Backups \cup Processes

VARIABLES
    fs,     \* the data directory, its backups and the journal
    synced, \* the same, as of the last fsync of a directory
    at,     \* process -> the step of the command it is about to take, or 0
    chain,  \* process -> the chain a node has loaded
    lock,   \* the process that holds nightfall.lock
    born,   \* chains made
    made,   \* backup directories made
    pruned, \* chains that are pruned
    known   \* history: chains a node has worked on

vars == <<fs, synced, at, chain, lock, born, made, pruned, known>>

NoFiles == [f \in Files |-> None]

FilesOf(c) == IF c \in pruned THEN Files ELSE FreshFiles

HoldsAll(dir, c) == \A f \in FilesOf(c) : dir[f] = c

-----------------------------------------------------------------------------
(* The lock *)

Init ==
    /\ pruned \in SUBSET {1}
    /\ born \in {0, 1} /\ known = 1..born
    /\ fs = [dir |-> [f \in Files |-> IF born = 1 /\ f \in FilesOf(1) THEN 1 ELSE None],
             backup |-> [b \in Backups |-> NoFiles], journal |-> None]
    /\ synced = fs
    /\ at = [p \in Processes |-> 0] /\ chain = [p \in Processes |-> None]
    /\ lock = None
    /\ made = 0

Off(p) == at[p] = 0 /\ chain[p] = None

\* acquire: fails rather than waits.
Acquires(p) == Off(p) /\ lock = None

\* An error is returned, or the process is killed; the kernel drops its lock.
Stops(p) ==
    /\ ~Off(p)
    /\ at' = [at EXCEPT ![p] = 0] /\ chain' = [chain EXCEPT ![p] = None]
    /\ lock' = IF lock = p THEN None ELSE lock
    /\ UNCHANGED <<fs, synced, born, made, pruned, known>>

-----------------------------------------------------------------------------
(* A node or wallet *)

\* refuse_if_interrupted_recovery and load_or_new: without a blocks file, an
\* empty chain.
StartNode(p) ==
    /\ Acquires(p) /\ lock' = p
    /\ fs.journal = None
    /\ \/ /\ fs.dir["blocks"] # None
          /\ chain' = [chain EXCEPT ![p] = fs.dir["blocks"]]
          /\ UNCHANGED born
       \/ /\ fs.dir["blocks"] = None /\ born < MaxChains
          /\ chain' = [chain EXCEPT ![p] = born + 1]
          /\ born' = born + 1
    /\ UNCHANGED <<fs, synced, at, made, pruned, known>>

\* A save, which syncs the directory.
Save(p) ==
    /\ chain[p] # None
    /\ fs' = [fs EXCEPT !.dir = [f \in Files |-> IF f \in FilesOf(chain[p]) THEN chain[p] ELSE @[f]]]
    /\ synced' = fs'
    /\ known' = known \cup {chain[p]}
    /\ UNCHANGED <<at, chain, lock, born, made, pruned>>

-----------------------------------------------------------------------------
(* The command *)

Step(op) == <<[op |-> op]>>
ForEach(op) == [i \in DOMAIN FileOrder |-> [op |-> op, file |-> FileOrder[i]]]

\* Mutant: the journal goes as soon as the originals are in the backup.
StepsJournalEarly ==
    Step("journal") \o Step("sync") \o ForEach("move") \o Step("sync") \o
    Step("done") \o Step("sync") \o ForEach("install") \o Step("sync")

\* run, once the replacement is built and verified in its staging directory.  A
\* file that is not there is passed over.
Steps ==
    Step("journal") \o Step("sync") \o ForEach("move") \o Step("sync") \o
    ForEach("install") \o Step("sync") \o Step("done") \o Step("sync")

\* Mutant: the directory named after the second is taken again.
DirectoryOfToday == 1

\* unique_dir
UniqueDir == made + 1

\* The checks under the lock, and the staged empty chain.  An error until here
\* has changed nothing.
Begin(p) ==
    /\ Acquires(p) /\ lock' = p
    /\ fs.journal = None /\ fs.dir["meta"] # None
    /\ made < MaxBackups /\ born < MaxChains
    /\ made' = UniqueDir /\ born' = born + 1
    /\ at' = [at EXCEPT ![p] = 1]
    /\ UNCHANGED <<fs, synced, chain, pruned, known>>

\* One operation; the lock goes with the process, after the last.
Recover(p) ==
    /\ at[p] # 0
    /\ LET step == Steps[at[p]]
           last == at[p] = Len(Steps)
           new  == CASE step.op = "journal" -> [fs EXCEPT !.journal = made]
                     [] step.op = "move"    -> [fs EXCEPT !.backup[made][step.file] = fs.dir[step.file],
                                                          !.dir[step.file] = None]
                     [] step.op = "install" -> IF step.file \in FreshFiles
                                               THEN [fs EXCEPT !.dir[step.file] = born] ELSE fs
                     [] step.op = "done"    -> [fs EXCEPT !.journal = None]
                     [] step.op = "sync"    -> fs
       IN  /\ fs' = new /\ synced' = IF step.op = "sync" THEN new ELSE synced
           /\ at' = [at EXCEPT ![p] = IF last THEN 0 ELSE @ + 1]
           /\ lock' = IF last /\ lock = p THEN None ELSE lock
    /\ UNCHANGED <<chain, born, made, pruned, known>>

-----------------------------------------------------------------------------
(* Power cuts, and the operator *)

\* Of what was done to a file's names, or to the journal's, since the last sync
\* all or nothing is left.
PowerCut ==
    /\ fs # synced
    /\ \E kept \in SUBSET Files, j \in {fs.journal, synced.journal} :
          fs' = [dir     |-> [f \in Files |-> IF f \in kept THEN fs.dir[f] ELSE synced.dir[f]],
                 backup  |-> [b \in Backups |-> [f \in Files |->
                                IF f \in kept THEN fs.backup[b][f] ELSE synced.backup[b][f]]],
                 journal |-> j]
    /\ synced' = fs'
    /\ at' = [p \in Processes |-> 0] /\ chain' = [p \in Processes |-> None]
    /\ lock' = None
    /\ UNCHANGED <<born, made, pruned, known>>

\* The directory after the backup b has been put back.
PutBack(b) == [f \in Files |-> IF fs.backup[b][f] # None THEN fs.backup[b][f] ELSE fs.dir[f]]

\* What the refusal tells the operator to do.
Restore ==
    /\ lock = None /\ fs.journal # None
    /\ fs' = [fs EXCEPT !.dir = PutBack(fs.journal), !.journal = None]
    /\ synced' = fs'
    /\ UNCHANGED <<at, chain, lock, born, made, pruned, known>>

Next ==
    \/ \E p \in Processes : StartNode(p) \/ Save(p) \/ Begin(p) \/ Recover(p) \/ Stops(p)
    \/ PowerCut \/ Restore

Spec == Init /\ [][Next]_vars

-----------------------------------------------------------------------------
(* Properties *)

\* Every chain a node ever worked on is whole in one place: the directory, a
\* backup, or the directory once the backup the journal names is put back.
\* However many resets were begun and broken off, nothing an operator would have
\* to put together from two places, and nothing overwritten.
NothingLost ==
    \A c \in known :
        \/ HoldsAll(fs.dir, c)
        \/ \E b \in Backups : HoldsAll(fs.backup[b], c)
        \/ fs.journal # None /\ HoldsAll(PutBack(fs.journal), c)

\* A node starts only on one chain, whole: a reset that was broken off is never
\* taken for an empty directory, or for a chain some of whose files are missing.
StartsOnlyWhole ==
    [][\A p \in Processes : chain[p] = None /\ chain'[p] # None =>
          HoldsAll(fs.dir, chain'[p]) \/ known = {}]_vars
=============================================================================

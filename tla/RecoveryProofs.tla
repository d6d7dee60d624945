--------------------------- MODULE RecoveryProofs ---------------------------
(***************************************************************************)
(* Proofs about the reset of a stalled chain, for any list of chain files, *)
(* any number of processes and of resets begun and broken off.             *)
(*                                                                         *)
(* A power cut takes back any of the changes since the last fsync, file by *)
(* file.  The invariant therefore speaks of the files as they are and as   *)
(* they were last synced at once: what it says of both in each file also    *)
(* holds of every mixture of them.                                         *)
(***************************************************************************)
EXTENDS Recovery, SequenceTheorems, TLAPS

N == Len(FileOrder)

-----------------------------------------------------------------------------
(* The inductive invariant *)

Trees == [dir : [Files -> Chains \cup {None}],
          backup : [Backups -> [Files -> Chains \cup {None}]],
          journal : Backups \cup {None}]

TypeOK ==
    /\ fs \in Trees /\ synced \in Trees
    /\ at \in [Processes -> 0..Len(Steps)]
    /\ chain \in [Processes -> Chains \cup {None}]
    /\ lock \in Processes \cup {None}
    /\ born \in 0..MaxChains /\ made \in 0..MaxBackups
    /\ pruned \subseteq {1} /\ known \subseteq 1..born

\* Only the process that holds the lock does anything, and it does one thing.
LockHeld ==
    /\ \A p \in Processes : ~Off(p) => lock = p
    /\ \A p \in Processes : at[p] = 0 \/ chain[p] = None

\* What putting back the backup b would make of a file.
PutBackIn(w, b, f) == IF w.backup[b][f] # None THEN w.backup[b][f] ELSE w.dir[f]

\* A chain that is whole in a backup, or in the directory, or once the backup
\* of the last reset is put back; synced or not.
InBackup(c) == \E b \in Backups : \A f \in FilesOf(c) :
                  fs.backup[b][f] = c /\ synced.backup[b][f] = c

InDir(c) == \A f \in FilesOf(c) : fs.dir[f] = c /\ synced.dir[f] = c

Restores(b, c) == \A f \in FilesOf(c) : PutBackIn(fs, b, f) = c /\ PutBackIn(synced, b, f) = c

Restorable(c) == /\ made # 0 /\ fs.journal = made /\ synced.journal = made
                 /\ Restores(made, c)

Empty(b) == fs.backup[b] = NoFiles /\ synced.backup[b] = NoFiles

\* The journals a power cut may leave.
Journals == {fs.journal, synced.journal} \ {None}

\* A chain in the directory alone is not overwritten by what a journal names.
Kept(c) == InBackup(c) \/ Restorable(c) \/ (InDir(c) /\ \A j \in Journals : Empty(j))

\* A node at work has everything but its own chain in a backup.
NodeAlone ==
    \A p \in Processes : chain[p] # None =>
        /\ fs.journal = None /\ chain[p] <= born
        /\ \A c \in known : c = chain[p] \/ InBackup(c)

\* A directory is one whole chain's, or nobody ever worked there.
OneChain(dir) == \/ \E c \in 1..born : HoldsAll(dir, c)
                 \/ dir = NoFiles /\ known = {}

\* Without a journal the directory may be read, and was synced.
ReadableWhole ==
    None \in {fs.journal, synced.journal} => fs.dir = synced.dir /\ OneChain(fs.dir)

\* With one, putting back what it names makes the directory whole.
JournalRestores == \A j \in Journals : \E c \in 1..born : Restores(j, c)

\* How far the command has come, and what it has done by then.
BeforeMoves(k) ==
    /\ Empty(made) /\ fs.journal = (IF k = 1 THEN None ELSE made) /\ fs.dir # NoFiles

Moving(k) ==
    /\ fs.journal = made /\ synced.journal = made /\ synced.backup[made] = NoFiles
    /\ \A i \in 1..N : IF i + 2 < k THEN fs.dir[FileOrder[i]] = None
                                    ELSE fs.backup[made][FileOrder[i]] = None
    /\ \A c \in known : InBackup(c) \/ Restorable(c)

Installing(k) ==
    /\ fs.journal = (IF k = 6 + 2 * N THEN None ELSE made) /\ synced.journal = made
    /\ \A c \in known : InBackup(c)
    /\ \E c \in 1..born : \A f \in FilesOf(c) : fs.backup[made][f] = c /\ synced.backup[made][f] = c
    /\ \A i \in 1..N : i + 3 + N < k /\ FileOrder[i] \in FreshFiles => fs.dir[FileOrder[i]] = born
    /\ k > 4 + 2 * N => synced.dir = fs.dir

Progress ==
    \A p \in Processes : LET k == at[p] IN k # 0 =>
        /\ made # 0 /\ born > 1
        /\ CASE k \in 1..2 -> BeforeMoves(k)
             [] k \in 3..(3 + N) -> Moving(k)
             [] OTHER -> Installing(k)

\* The backups of resets to come are empty.
Ahead == \A b \in Backups : b > made => Empty(b)

NoJournalAhead == \A j \in Journals : j <= made

RecoveryInv ==
    /\ TypeOK /\ LockHeld /\ NodeAlone /\ ReadableWhole /\ JournalRestores
    /\ Progress /\ Ahead /\ NoJournalAhead
    /\ \A c \in known : Kept(c)

-----------------------------------------------------------------------------
(* The files and the plan *)

\* Every chain file has its place in the order, and every chain its blocks and
\* its metadata.
LEMMA FileFacts ==
    /\ N \in Nat /\ DOMAIN FileOrder = 1..N
    /\ \A i \in 1..N : FileOrder[i] \in Files
    /\ \A f \in Files : \E i \in 1..N : FileOrder[i] = f
    /\ \A i, j \in 1..N : FileOrder[i] = FileOrder[j] => i = j
    /\ "blocks" \in FreshFiles /\ "meta" \in FreshFiles /\ FreshFiles \subseteq Files
    /\ None \notin Chains /\ None \notin Backups /\ None \notin Processes
    /\ MaxChains \in Nat /\ MaxBackups \in Nat
<1>1. N \in Nat /\ DOMAIN FileOrder = 1..N
  BY RecoveryAssumption DEF N
<1>2. \A f \in Files : \E i \in 1..N : FileOrder[i] = f
  BY <1>1 DEF Files, Range
<1>3. \A i \in 1..N : FileOrder[i] \in Files
  BY <1>1 DEF Files, Range
<1>4. QED
  BY <1>1, <1>2, <1>3, RecoveryAssumption DEF IsInjective

\* A chain has at least the files of an empty one.
LEMMA OfChain == \A c : FreshFiles \subseteq FilesOf(c) /\ FilesOf(c) \subseteq Files
  BY FileFacts DEF FilesOf

\* One part of a plan after another.
LEMMA Then ==
    ASSUME NEW R, NEW s \in Seq(R), NEW t \in Seq(R)
    PROVE  /\ s \o t \in Seq(R) /\ Len(s \o t) = Len(s) + Len(t)
           /\ \A i \in 1..Len(s) : (s \o t)[i] = s[i]
           /\ \A i \in 1..Len(t) : (s \o t)[i + Len(s)] = t[i]
  OBVIOUS

\* The plan: the journal, the moves, the installation, the journal again, with a
\* sync after each.
LEMMA Plan ==
    /\ Len(Steps) = 6 + 2 * N
    /\ Steps[1] = [op |-> "journal"]
    /\ \A k \in {2, 3 + N, 4 + 2 * N, 6 + 2 * N} : Steps[k] = [op |-> "sync"]
    /\ \A i \in 1..N : Steps[i + 2] = [op |-> "move", file |-> FileOrder[i]]
    /\ \A i \in 1..N : Steps[i + 3 + N] = [op |-> "install", file |-> FileOrder[i]]
    /\ Steps[5 + 2 * N] = [op |-> "done"]
<1> DEFINE R == UNION {Range(Step("journal")), Range(Step("sync")), Range(Step("done")),
                       Range(ForEach("move")), Range(ForEach("install"))}
           s2 == Step("journal") \o Step("sync")
           s3 == s2 \o ForEach("move")
           s4 == s3 \o Step("sync")
           s5 == s4 \o ForEach("install")
           s6 == s5 \o Step("sync")
           s7 == s6 \o Step("done")
           s8 == s7 \o Step("sync")
<1>0. N \in Nat
  BY FileFacts
<1>1. /\ Step("journal") \in Seq(R) /\ Step("sync") \in Seq(R) /\ Step("done") \in Seq(R)
      /\ ForEach("move") \in Seq(R) /\ ForEach("install") \in Seq(R)
  <2>1. \A op \in {"journal", "sync", "done"} : Step(op) \in Seq(R)
    BY DEF Step, Range
  <2>2. ASSUME NEW op \in {"move", "install"} PROVE ForEach(op) \in Seq(R)
    <3>1. ForEach(op) \in [1..N -> R]
      BY FileFacts DEF ForEach, Range
    <3>2. QED
      BY <3>1, FileFacts DEF ForEach
  <2>3. QED
    BY <2>1, <2>2
<1>2. /\ \A op : Len(Step(op)) = 1 /\ Step(op)[1] = [op |-> op]
      /\ \A op : Len(ForEach(op)) = N
      /\ \A op : \A i \in 1..N : ForEach(op)[i] = [op |-> op, file |-> FileOrder[i]]
  BY FileFacts DEF Step, ForEach
<1> HIDE DEF R
<1>3. s2 \in Seq(R) /\ s3 \in Seq(R) /\ s4 \in Seq(R) /\ s5 \in Seq(R) /\ s6 \in Seq(R) /\ s7 \in Seq(R)
  <2>1. s2 \in Seq(R)
    BY <1>1, Then
  <2>2. s3 \in Seq(R)
    BY <1>1, <2>1, Then
  <2>3. s4 \in Seq(R)
    BY <1>1, <2>2, Then
  <2>4. s5 \in Seq(R)
    BY <1>1, <2>3, Then
  <2>5. s6 \in Seq(R)
    BY <1>1, <2>4, Then
  <2>6. s7 \in Seq(R)
    BY <1>1, <2>5, Then
  <2>7. QED
    BY <2>1, <2>2, <2>3, <2>4, <2>5, <2>6
<1>4. /\ Len(s2) = Len(Step("journal")) + Len(Step("sync"))
      /\ \A i \in 1..Len(Step("journal")) : s2[i] = Step("journal")[i]
      /\ \A i \in 1..Len(Step("sync")) : s2[i + Len(Step("journal"))] = Step("sync")[i]
  <2>1. Step("journal") \in Seq(R) /\ Step("sync") \in Seq(R)
    BY <1>1, <1>3
  <2> HIDE DEF s2, s3, s4, s5, s6, s7, s8
  <2>2. QED
    BY <2>1, Then DEF s2
<1>5. /\ Len(s3) = Len(s2) + Len(ForEach("move"))
      /\ \A i \in 1..Len(s2) : s3[i] = s2[i]
      /\ \A i \in 1..Len(ForEach("move")) : s3[i + Len(s2)] = ForEach("move")[i]
  <2>1. s2 \in Seq(R) /\ ForEach("move") \in Seq(R)
    BY <1>1, <1>3
  <2> HIDE DEF s2, s3, s4, s5, s6, s7, s8
  <2>2. QED
    BY <2>1, Then DEF s3
<1>6. /\ Len(s4) = Len(s3) + Len(Step("sync"))
      /\ \A i \in 1..Len(s3) : s4[i] = s3[i]
      /\ \A i \in 1..Len(Step("sync")) : s4[i + Len(s3)] = Step("sync")[i]
  <2>1. s3 \in Seq(R) /\ Step("sync") \in Seq(R)
    BY <1>1, <1>3
  <2> HIDE DEF s2, s3, s4, s5, s6, s7, s8
  <2>2. QED
    BY <2>1, Then DEF s4
<1>7. /\ Len(s5) = Len(s4) + Len(ForEach("install"))
      /\ \A i \in 1..Len(s4) : s5[i] = s4[i]
      /\ \A i \in 1..Len(ForEach("install")) : s5[i + Len(s4)] = ForEach("install")[i]
  <2>1. s4 \in Seq(R) /\ ForEach("install") \in Seq(R)
    BY <1>1, <1>3
  <2> HIDE DEF s2, s3, s4, s5, s6, s7, s8
  <2>2. QED
    BY <2>1, Then DEF s5
<1>8. /\ Len(s6) = Len(s5) + Len(Step("sync"))
      /\ \A i \in 1..Len(s5) : s6[i] = s5[i]
      /\ \A i \in 1..Len(Step("sync")) : s6[i + Len(s5)] = Step("sync")[i]
  <2>1. s5 \in Seq(R) /\ Step("sync") \in Seq(R)
    BY <1>1, <1>3
  <2> HIDE DEF s2, s3, s4, s5, s6, s7, s8
  <2>2. QED
    BY <2>1, Then DEF s6
<1>9. /\ Len(s7) = Len(s6) + Len(Step("done"))
      /\ \A i \in 1..Len(s6) : s7[i] = s6[i]
      /\ \A i \in 1..Len(Step("done")) : s7[i + Len(s6)] = Step("done")[i]
  <2>1. s6 \in Seq(R) /\ Step("done") \in Seq(R)
    BY <1>1, <1>3
  <2> HIDE DEF s2, s3, s4, s5, s6, s7, s8
  <2>2. QED
    BY <2>1, Then DEF s7
<1>10. /\ Len(s8) = Len(s7) + Len(Step("sync"))
       /\ \A i \in 1..Len(s7) : s8[i] = s7[i]
       /\ \A i \in 1..Len(Step("sync")) : s8[i + Len(s7)] = Step("sync")[i]
  <2>1. s7 \in Seq(R) /\ Step("sync") \in Seq(R)
    BY <1>1, <1>3
  <2> HIDE DEF s2, s3, s4, s5, s6, s7, s8
  <2>2. QED
    BY <2>1, Then DEF s8
<1> HIDE DEF s2, s3, s4, s5, s6, s7, s8
<1>11. Len(s2) = 2 /\ Len(s3) = 2 + N /\ Len(s4) = 3 + N
  <2>1. Len(s2) = 2
    BY <1>2, <1>4
  <2>2. Len(s3) = 2 + N
    BY <1>2, <1>5, <2>1
  <2>3. Len(s4) = 3 + N
    BY <1>2, <1>6, <2>2, <1>0
  <2>4. QED
    BY <2>1, <2>2, <2>3
<1>12. Len(s5) = 3 + 2 * N /\ Len(s6) = 4 + 2 * N /\ Len(s7) = 5 + 2 * N /\ Len(s8) = 6 + 2 * N
  <2>1. Len(s5) = 3 + 2 * N
    <3>1. Len(s5) = Len(s4) + N
      BY <1>2, <1>7
    <3>2. QED
      BY <1>11, <1>0, <3>1
  <2>2. Len(s6) = 4 + 2 * N
    <3>1. Len(s6) = Len(s5) + 1
      BY <1>2, <1>8
    <3>2. QED
      BY <1>0, <2>1, <3>1
  <2>3. Len(s7) = 5 + 2 * N
    <3>1. Len(s7) = Len(s6) + 1
      BY <1>2, <1>9
    <3>2. QED
      BY <1>0, <2>2, <3>1
  <2>4. Len(s8) = 6 + 2 * N
    <3>1. Len(s8) = Len(s7) + 1
      BY <1>2, <1>10
    <3>2. QED
      BY <1>0, <2>3, <3>1
  <2>5. QED
    BY <2>1, <2>2, <2>3, <2>4
<1>13. Steps = s8
  BY DEF Steps, s2, s3, s4, s5, s6, s7, s8
<1>14. \A i \in 1..(3 + N) : s8[i] = s4[i]
  BY <1>7, <1>8, <1>9, <1>10, <1>11, <1>12, <1>0
<1>15. \A i \in 1..N : s8[i + 2] = [op |-> "move", file |-> FileOrder[i]]
  <2>1. \A i \in 1..N : s4[i + 2] = s3[i + 2] /\ s8[i + 2] = s4[i + 2]
    BY <1>6, <1>11, <1>14, <1>0
  <2>2. \A i \in 1..N : s3[i + 2] = ForEach("move")[i]
    BY <1>2, <1>5, <1>11
  <2>3. QED
    BY <1>2, <2>1, <2>2
<1>16. \A i \in 1..N : s8[i + 3 + N] = [op |-> "install", file |-> FileOrder[i]]
  <2>1. \A i \in 1..N : s8[i + 3 + N] = s5[i + 3 + N]
    <3>1. \A k \in 1..(3 + 2 * N) : s8[k] = s5[k]
      BY <1>8, <1>9, <1>10, <1>12, <1>0
    <3>2. \A i \in 1..N : i + 3 + N \in 1..(3 + 2 * N)
      BY <1>0
    <3>3. QED
      BY <3>1, <3>2
  <2>2. \A i \in 1..N : i + 3 + N = i + Len(s4)
    BY <1>11, <1>0
  <2>3. QED
    BY <1>2, <1>7, <2>1, <2>2
<1>17. s8[1] = [op |-> "journal"] /\ s8[2] = [op |-> "sync"] /\ s8[3 + N] = [op |-> "sync"]
  <2>1. s4[1] = s2[1] /\ s4[2] = s2[2]
    BY <1>5, <1>6, <1>11, <1>0
  <2>4. s4[3 + N] = [op |-> "sync"]
    <3>1. s4[1 + Len(s3)] = Step("sync")[1]
      BY <1>2, <1>6
    <3>2. QED
      BY <1>2, <1>11, <1>0, <3>1
  <2>2. s2[1] = [op |-> "journal"] /\ s2[2] = [op |-> "sync"]
    BY <1>2, <1>4
  <2>3. QED
    BY <1>14, <2>1, <2>2, <2>4, <1>0
<1>18. /\ s8[4 + 2 * N] = [op |-> "sync"] /\ s8[5 + 2 * N] = [op |-> "done"]
       /\ s8[6 + 2 * N] = [op |-> "sync"]
  <2>1. s8[4 + 2 * N] = s6[4 + 2 * N] /\ s6[4 + 2 * N] = [op |-> "sync"]
    BY <1>2, <1>8, <1>9, <1>10, <1>12, <1>0
  <2>2. s8[5 + 2 * N] = s7[5 + 2 * N] /\ s7[5 + 2 * N] = [op |-> "done"]
    BY <1>2, <1>9, <1>10, <1>12, <1>0
  <2>3. s8[6 + 2 * N] = [op |-> "sync"]
    BY <1>2, <1>10, <1>12, <1>0
  <2>4. QED
    BY <2>1, <2>2, <2>3
<1>19. QED
  BY <1>12, <1>13, <1>15, <1>16, <1>17, <1>18
\* Which step of the plan a process is about to take.
LEMMA Places ==
    ASSUME NEW k \in 0..(6 + 2 * N)
    PROVE  \/ k = 0 \/ k = 1 \/ k \in {2, 3 + N, 4 + 2 * N, 6 + 2 * N} \/ k = 5 + 2 * N
           \/ \E i \in 1..N : k = i + 2
           \/ \E i \in 1..N : k = i + 3 + N
<1>1. CASE k \in 3..(2 + N)
  <2>1. k - 2 \in 1..N
    BY <1>1, FileFacts
  <2>2. QED
    BY <1>1, <2>1, FileFacts
<1>2. CASE k \in (4 + N)..(3 + 2 * N)
  <2>1. k - 3 - N \in 1..N
    BY <1>2, FileFacts
  <2>2. QED
    BY <1>2, <2>1, FileFacts
<1>3. QED
  BY <1>1, <1>2, FileFacts

-----------------------------------------------------------------------------
(* The command *)

\* What a step of the command does to the files.
LEMMA Effects ==
    ASSUME RecoveryInv, NEW p \in Processes, Recover(p)
    PROVE  /\ at[p] \in 1..(6 + 2 * N) /\ made \in Backups /\ born \in Chains
           /\ fs' \in Trees /\ synced' \in Trees
           /\ at[p] = 1 => /\ fs'.dir = fs.dir /\ fs'.backup = fs.backup
                           /\ fs'.journal = made /\ synced' = synced
           /\ at[p] \in {2, 3 + N, 4 + 2 * N, 6 + 2 * N} => fs' = fs /\ synced' = fs
           /\ \A i \in 1..N : at[p] = i + 2 =>
                 /\ fs'.journal = fs.journal /\ synced' = synced
                 /\ fs'.dir = [fs.dir EXCEPT ![FileOrder[i]] = None]
                 /\ fs'.backup = [fs.backup EXCEPT ![made] =
                                    [@ EXCEPT ![FileOrder[i]] = fs.dir[FileOrder[i]]]]
           /\ \A i \in 1..N : at[p] = i + 3 + N =>
                 /\ fs'.journal = fs.journal /\ synced' = synced /\ fs'.backup = fs.backup
                 /\ fs'.dir = IF FileOrder[i] \in FreshFiles
                              THEN [fs.dir EXCEPT ![FileOrder[i]] = born] ELSE fs.dir
           /\ at[p] = 5 + 2 * N => /\ fs'.dir = fs.dir /\ fs'.backup = fs.backup
                                   /\ fs'.journal = None /\ synced' = synced
<1>1. at[p] \in 1..(6 + 2 * N)
  BY Plan, FileFacts DEF RecoveryInv, TypeOK, Recover
<1>2. made \in Backups /\ born \in Chains
  BY <1>1, FileFacts DEF RecoveryInv, TypeOK, Progress, Backups, Chains
<1>3. fs \in Trees /\ synced \in Trees
  BY DEF RecoveryInv, TypeOK
<1> DEFINE step == Steps[at[p]]
<1>4. ASSUME at[p] = 1
      PROVE  /\ fs' \in Trees /\ synced' = synced
             /\ fs'.dir = fs.dir /\ fs'.backup = fs.backup /\ fs'.journal = made
  <2>1. step.op = "journal"
    BY <1>4, Plan
  <2>2. fs' = [fs EXCEPT !.journal = made] /\ synced' = synced
    BY <2>1 DEF Recover
  <2>3. QED
    BY <1>2, <1>3, <2>2 DEF Trees
<1>5. ASSUME at[p] \in {2, 3 + N, 4 + 2 * N, 6 + 2 * N} PROVE fs' = fs /\ synced' = fs
  <2>1. step.op = "sync"
    BY <1>5, Plan
  <2>2. fs' = fs /\ synced' = fs
    BY <2>1 DEF Recover
  <2>3. QED
    BY <2>2
<1>6. ASSUME at[p] = 5 + 2 * N
      PROVE  /\ fs' \in Trees /\ synced' = synced
             /\ fs'.dir = fs.dir /\ fs'.backup = fs.backup /\ fs'.journal = None
  <2>1. step.op = "done"
    BY <1>6, Plan
  <2>2. fs' = [fs EXCEPT !.journal = None] /\ synced' = synced
    BY <2>1 DEF Recover
  <2>3. QED
    BY <1>3, <2>2 DEF Trees
<1>7. ASSUME NEW i \in 1..N, at[p] = i + 2
      PROVE  /\ fs' \in Trees /\ synced' = synced /\ fs'.journal = fs.journal
             /\ fs'.dir = [fs.dir EXCEPT ![FileOrder[i]] = None]
             /\ fs'.backup = [fs.backup EXCEPT ![made] =
                                [@ EXCEPT ![FileOrder[i]] = fs.dir[FileOrder[i]]]]
  <2>0. Steps[i + 2] = [op |-> "move", file |-> FileOrder[i]]
    BY Plan
  <2>1. step.op = "move" /\ step.file = FileOrder[i]
    BY <1>7, <2>0
  <2>2. /\ fs' = [fs EXCEPT !.backup[made][FileOrder[i]] = fs.dir[FileOrder[i]],
                            !.dir[FileOrder[i]] = None]
        /\ synced' = synced
    BY <2>1 DEF Recover
  <2>3. QED
    BY <1>2, <1>3, <2>2, FileFacts DEF Trees
<1>8. ASSUME NEW i \in 1..N, at[p] = i + 3 + N
      PROVE  /\ fs' \in Trees /\ synced' = synced /\ fs'.journal = fs.journal /\ fs'.backup = fs.backup
             /\ fs'.dir = IF FileOrder[i] \in FreshFiles
                          THEN [fs.dir EXCEPT ![FileOrder[i]] = born] ELSE fs.dir
  <2>0. Steps[i + 3 + N] = [op |-> "install", file |-> FileOrder[i]]
    BY Plan
  <2>1. step.op = "install" /\ step.file = FileOrder[i]
    BY <1>8, <2>0
  <2>2. /\ fs' = IF FileOrder[i] \in FreshFiles
                 THEN [fs EXCEPT !.dir[FileOrder[i]] = born] ELSE fs
        /\ synced' = synced
    BY <2>1 DEF Recover
  <2>3. QED
    BY <1>2, <1>3, <2>2, FileFacts DEF Trees
<1>9. QED
  <2>1. fs' \in Trees /\ synced' \in Trees
    <3>1. at[p] \in 0..(6 + 2 * N) /\ at[p] # 0
      BY <1>1, FileFacts
    <3>2. QED
      BY <1>3, <1>4, <1>5, <1>6, <1>7, <1>8, <3>1, Places
  <2>3. at[p] = 1 => /\ fs'.dir = fs.dir /\ fs'.backup = fs.backup
                     /\ fs'.journal = made /\ synced' = synced
    BY <1>4
  <2>4. at[p] \in {2, 3 + N, 4 + 2 * N, 6 + 2 * N} => fs' = fs /\ synced' = fs
    BY <1>5
  <2>5. at[p] = 5 + 2 * N => /\ fs'.dir = fs.dir /\ fs'.backup = fs.backup
                             /\ fs'.journal = None /\ synced' = synced
    BY <1>6
  <2>6. QED
    BY <1>1, <1>2, <1>7, <1>8, <2>1, <2>3, <2>4, <2>5

\* Whoever runs the command is alone.
LEMMA Alone ==
    ASSUME RecoveryInv, NEW p \in Processes, at[p] # 0
    PROVE  /\ lock = p /\ \A q \in Processes : chain[q] = None /\ (q # p => at[q] = 0)
BY DEF RecoveryInv, LockHeld, Off

\* What does not depend on which step it is.
LEMMA CommandFrame ==
    ASSUME RecoveryInv, NEW p \in Processes, Recover(p)
    PROVE  /\ TypeOK' /\ LockHeld' /\ NodeAlone'
           /\ at' = [at EXCEPT ![p] = IF at[p] = 6 + 2 * N THEN 0 ELSE @ + 1]
           /\ UNCHANGED <<born, made, pruned, known>>
<1>1. /\ at' = [at EXCEPT ![p] = IF at[p] = 6 + 2 * N THEN 0 ELSE @ + 1]
      /\ lock' = (IF at[p] = 6 + 2 * N /\ lock = p THEN None ELSE lock)
      /\ UNCHANGED <<chain, born, made, pruned, known>>
  BY Plan DEF Recover
<1>2. at[p] # 0
  BY DEF Recover
<1>3. TypeOK'
  <2>1. at' \in [Processes -> 0..(6 + 2 * N)]
    <3>1. at \in [Processes -> 0..(6 + 2 * N)]
      BY Plan DEF RecoveryInv, TypeOK
    <3>2. at[p] # 6 + 2 * N => at[p] + 1 \in 0..(6 + 2 * N)
      BY Effects, FileFacts
    <3>3. QED
      BY <1>1, <3>1, <3>2, FileFacts
  <2>2. QED
    BY <1>1, <2>1, Effects, Plan DEF RecoveryInv, TypeOK
<1>4. LockHeld'
  BY <1>1, <1>2, Alone DEF RecoveryInv, TypeOK, LockHeld, Off
<1>5. NodeAlone'
  BY <1>1, <1>2, Alone DEF NodeAlone
<1>6. QED
  BY <1>1, <1>3, <1>4, <1>5

\* A chain that a node worked on is a number, so a file of it is no missing one.
LEMMA KnownChains ==
    ASSUME RecoveryInv
    PROVE  /\ \A c \in known : c \in 1..born /\ c # None
           /\ \A c \in 1..born : c \in Chains /\ c # None
BY FileFacts DEF RecoveryInv, TypeOK, Chains

\* The part of the invariant a single step of the command must show again.
CommandInv ==
    /\ ReadableWhole /\ JournalRestores /\ Ahead /\ NoJournalAhead
    /\ \A c \in known : Kept(c)

\* Once it is seen how far the command has come after a step, the rest follows.
LEMMA CommandStep ==
    ASSUME RecoveryInv, NEW p \in Processes, Recover(p), CommandInv',
           NEW next \in Nat, at[p] + 1 = next,
           \/ next \in 1..2 /\ BeforeMoves(next)'
           \/ next \in 3..(3 + N) /\ Moving(next)'
           \/ next \in (4 + N)..(6 + 2 * N) /\ Installing(next)'
           \/ next = 7 + 2 * N
    PROVE  RecoveryInv'
<1>1. /\ at' = [at EXCEPT ![p] = IF at[p] = 6 + 2 * N THEN 0 ELSE @ + 1]
      /\ UNCHANGED <<born, made, pruned, known>>
      /\ at \in [Processes -> 0..Len(Steps)]
  BY CommandFrame DEF RecoveryInv, TypeOK
<1>2. at[p] # 0 /\ made # 0 /\ born > 1
  BY Effects DEF RecoveryInv, Progress, Recover
<1>3. \A q \in Processes : q # p => at'[q] = 0
  BY <1>1, <1>2, Alone
<1>4. Progress'
  <2> SUFFICES ASSUME NEW q \in Processes, at'[q] # 0
               PROVE  /\ made' # 0 /\ born' > 1
                      /\ CASE at'[q] \in 1..2 -> BeforeMoves(at[q])'
                           [] at'[q] \in 3..(3 + N) -> Moving(at[q])'
                           [] OTHER -> Installing(at[q])'
    BY DEF Progress
  <2>1. q = p /\ at'[q] = at[p] + 1 /\ at[p] # 6 + 2 * N
    BY <1>1, <1>3
  <2>2. at'[q] = next /\ next \in 1..(6 + 2 * N)
    <3>1. at[p] \in 1..(6 + 2 * N) /\ N \in Nat
      BY Effects, FileFacts
    <3>2. QED
      BY <2>1, <3>1
  <2>3. N \in Nat
    BY FileFacts
  <2>4. QED
    BY <1>1, <1>2, <2>2, <2>3
<1>5. QED
  BY <1>4, CommandFrame DEF RecoveryInv, CommandInv

\* How far the command has come, by the step it is about to take.
LEMMA Stage ==
    ASSUME RecoveryInv, NEW p \in Processes, Recover(p)
    PROVE  /\ made # 0 /\ made # None /\ born > 1 /\ made \in Backups
           /\ at[p] \in 1..2 => BeforeMoves(at[p])
           /\ at[p] \in 3..(3 + N) => Moving(at[p])
           /\ at[p] \in (4 + N)..(6 + 2 * N) => Installing(at[p])
<1>1. at[p] # 0 /\ N \in Nat
  BY FileFacts DEF Recover
<1>2. QED
  BY <1>1, Effects, FileFacts DEF RecoveryInv, Progress

\* The journal is written: it names a backup that is empty yet.
LEMMA JournalStep ==
    ASSUME RecoveryInv, NEW p \in Processes, Recover(p), at[p] = 1
    PROVE  RecoveryInv'
<1>1. /\ fs'.dir = fs.dir /\ fs'.backup = fs.backup /\ fs'.journal = made /\ synced' = synced
      /\ UNCHANGED <<born, made, pruned, known>>
  BY Effects, CommandFrame
<1>2. BeforeMoves(1) /\ made # None /\ made \in Backups
  BY Stage
<1>3. fs.journal = None /\ Empty(made) /\ fs.dir # NoFiles
  BY <1>2 DEF BeforeMoves
<1>4. fs.dir = synced.dir /\ OneChain(fs.dir)
  BY <1>3 DEF RecoveryInv, ReadableWhole
<1>5. ReadableWhole'
  BY <1>1, <1>4 DEF ReadableWhole, OneChain, HoldsAll, FilesOf
<1>6. JournalRestores'
  <2> SUFFICES ASSUME NEW j \in Journals' PROVE (\E c \in 1..born : Restores(j, c))'
    BY DEF JournalRestores
  <2>1. CASE j = made
    <3>1. PICK c \in 1..born : HoldsAll(fs.dir, c)
      BY <1>3, <1>4 DEF OneChain
    <3>2. Restores(made, c)
      BY <1>3, <1>4, <3>1, OfChain DEF Restores, PutBackIn, HoldsAll, Empty, NoFiles
    <3>3. QED
      BY <1>1, <2>1, <3>2 DEF Restores, PutBackIn, FilesOf
  <2>2. CASE j # made
    <3>1. j \in Journals
      BY <1>1, <2>2 DEF Journals
    <3>2. PICK c \in 1..born : Restores(j, c)
      BY <3>1 DEF RecoveryInv, JournalRestores
    <3>3. QED
      BY <1>1, <3>2 DEF Restores, PutBackIn, FilesOf
  <2>3. QED
    BY <2>1, <2>2
<1>7. Ahead' /\ NoJournalAhead'
  BY <1>1, <1>2 DEF RecoveryInv, Ahead, NoJournalAhead, Empty, Journals, Backups
<1>8. ASSUME NEW c \in known' PROVE Kept(c)'
  <2>1. c \in known /\ Kept(c) /\ ~Restorable(c)
    BY <1>1, <1>3, <1>2 DEF RecoveryInv, Restorable
  <2>2. CASE InBackup(c)
    BY <1>1, <2>2 DEF Kept, InBackup, FilesOf
  <2>3. CASE InDir(c) /\ \A j \in Journals : Empty(j)
    <3>1. \A j \in Journals' : j = made \/ j \in Journals
      BY <1>1 DEF Journals
    <3>2. QED
      BY <1>1, <1>3, <2>3, <3>1 DEF Kept, InDir, FilesOf, Empty
  <2>4. QED
    BY <2>1, <2>2, <2>3 DEF Kept
<1>9. BeforeMoves(2)'
  BY <1>1, <1>3 DEF BeforeMoves, Empty
<1>10. QED
  BY <1>5, <1>6, <1>7, <1>8, <1>9, CommandStep, FileFacts DEF CommandInv

\* A sync, whatever stage the command is at.
LEMMA SyncKeeps ==
    ASSUME RecoveryInv, fs' = fs, synced' = fs, UNCHANGED <<born, made, pruned, known>>
    PROVE  CommandInv'
<1>1. \A j \in Journals' : j \in Journals
  BY DEF Journals
<1>2. ReadableWhole'
  BY DEF RecoveryInv, ReadableWhole, OneChain, HoldsAll, FilesOf
<1>3. JournalRestores'
  BY <1>1 DEF RecoveryInv, JournalRestores, Restores, PutBackIn, FilesOf
<1>4. Ahead' /\ NoJournalAhead'
  BY <1>1 DEF RecoveryInv, Ahead, NoJournalAhead, Empty
<1>5. ASSUME NEW c \in known' PROVE Kept(c)'
  <2>1. Kept(c)
    BY DEF RecoveryInv
  <2>2. CASE InBackup(c)
    BY <2>2 DEF Kept, InBackup, FilesOf
  <2>3. CASE Restorable(c)
    BY <2>3 DEF Kept, Restorable, Restores, PutBackIn, FilesOf
  <2>4. CASE InDir(c) /\ \A j \in Journals : Empty(j)
    BY <1>1, <2>4 DEF Kept, InDir, Empty, FilesOf
  <2>5. QED
    BY <2>1, <2>2, <2>3, <2>4 DEF Kept
<1>6. QED
  BY <1>2, <1>3, <1>4, <1>5 DEF CommandInv

\* Before anything is moved the journal is synced: from here on the chain in the
\* directory is what putting the backup back restores.
LEMMA FirstSync ==
    ASSUME RecoveryInv, NEW p \in Processes, Recover(p), at[p] = 2
    PROVE  RecoveryInv'
<1>1. fs' = fs /\ synced' = fs /\ UNCHANGED <<born, made, pruned, known>>
  BY Effects, CommandFrame
<1>2. fs.journal = made /\ Empty(made) /\ made # None /\ made # 0 /\ made \in Backups
  BY Stage DEF BeforeMoves
<1>3. CommandInv'
  BY <1>1, SyncKeeps
<1>4. ASSUME NEW c \in known PROVE (InBackup(c) \/ Restorable(c))'
  <2>1. Kept(c) /\ made \in Journals
    BY <1>2 DEF RecoveryInv, Journals
  <2>2. CASE InBackup(c)
    BY <1>1, <2>2 DEF InBackup, FilesOf
  <2>3. CASE Restorable(c)
    BY <1>1, <2>3 DEF Restorable, Restores, PutBackIn, FilesOf
  <2>4. CASE InDir(c)
    <3>1. Restores(made, c)
      BY <1>2, <2>4, OfChain DEF InDir, Restores, PutBackIn, Empty, NoFiles
    <3>2. QED
      BY <1>1, <1>2, <3>1 DEF Restorable, Restores, PutBackIn, FilesOf
  <2>5. QED
    BY <2>1, <2>2, <2>3, <2>4 DEF Kept
<1>5. Moving(3)'
  <2>1. \A i \in 1..N : fs.backup[made][FileOrder[i]] = None
    BY <1>2, FileFacts DEF Empty, NoFiles
  <2>2. \A i \in 1..N : ~(i + 2 < 3)
    BY FileFacts
  <2>3. QED
    BY <1>1, <1>2, <1>4, <2>1, <2>2 DEF Moving, Empty
<1>6. QED
  BY <1>3, <1>5, CommandStep, FileFacts

\* A chain file is moved: what putting the backup back gives stays the same.
LEMMA MoveStep ==
    ASSUME RecoveryInv, NEW p \in Processes, Recover(p), NEW m \in 1..N, at[p] = m + 2
    PROVE  RecoveryInv'
<1> DEFINE g == FileOrder[m]
<1>1. /\ fs'.journal = fs.journal /\ synced' = synced
      /\ fs'.dir = [fs.dir EXCEPT ![g] = None]
      /\ fs'.backup = [fs.backup EXCEPT ![made] = [@ EXCEPT ![g] = fs.dir[g]]]
      /\ UNCHANGED <<born, made, pruned, known>>
  BY Effects, CommandFrame
<1>2. Moving(m + 2) /\ made # None /\ made # 0 /\ made \in Backups
  BY Stage, FileFacts
<1>3. /\ fs.journal = made /\ synced.journal = made /\ synced.backup[made] = NoFiles
      /\ fs.backup[made][g] = None
      /\ \A c \in known : InBackup(c) \/ Restorable(c)
  BY <1>2, FileFacts DEF Moving
<1>4. fs \in Trees /\ g \in Files
  BY FileFacts DEF RecoveryInv, TypeOK
<1>5. \A f \in Files : PutBackIn(fs, made, f)' = PutBackIn(fs, made, f)
  BY <1>1, <1>2, <1>3, <1>4 DEF PutBackIn, Trees
<1>6. \A c : Restores(made, c) => Restores(made, c)'
  BY <1>1, <1>5, OfChain DEF Restores, FilesOf, PutBackIn
<1>7. \A b \in Backups : b # made => fs'.backup[b] = fs.backup[b]
  BY <1>1, <1>2, <1>4 DEF Trees
<1>8. ASSUME NEW c \in known PROVE (InBackup(c) \/ Restorable(c))'
  <2>1. CASE InBackup(c)
    <3>1. PICK b \in Backups : \A f \in FilesOf(c) : fs.backup[b][f] = c /\ synced.backup[b][f] = c
      BY <2>1 DEF InBackup
    <3>2. b # made
      BY <1>3, <3>1, KnownChains, OfChain, FileFacts DEF NoFiles
    <3>3. QED
      BY <1>1, <1>7, <3>1, <3>2 DEF InBackup, FilesOf
  <2>2. CASE Restorable(c)
    BY <1>1, <1>6, <2>2 DEF Restorable
  <2>3. QED
    BY <1>3, <2>1, <2>2
<1>9. Moving(m + 3)'
  <2>1. \A i \in 1..N : IF i + 2 < m + 3 THEN fs'.dir[FileOrder[i]] = None
                                         ELSE fs'.backup[made][FileOrder[i]] = None
    <3> SUFFICES ASSUME NEW i \in 1..N
                 PROVE  IF i + 2 < m + 3 THEN fs'.dir[FileOrder[i]] = None
                                         ELSE fs'.backup[made][FileOrder[i]] = None
      OBVIOUS
    <3>1. FileOrder[i] \in Files /\ (i # m => FileOrder[i] # g)
      BY FileFacts
    <3>2. CASE i = m
      BY <1>1, <1>4, <3>1, <3>2 DEF Trees
    <3>3. CASE i # m
      <4>1. fs'.dir[FileOrder[i]] = fs.dir[FileOrder[i]]
        BY <1>1, <1>4, <3>1, <3>3 DEF Trees
      <4>2. fs'.backup[made][FileOrder[i]] = fs.backup[made][FileOrder[i]]
        BY <1>1, <1>2, <1>4, <3>1, <3>3 DEF Trees
      <4>3. QED
        BY <1>2, <3>3, <4>1, <4>2, FileFacts DEF Moving
    <3>4. QED
      BY <3>2, <3>3
  <2>2. QED
    BY <1>1, <1>3, <1>8, <2>1 DEF Moving
<1>10. CommandInv'
  <2>1. ReadableWhole'
    BY <1>1, <1>2, <1>3 DEF ReadableWhole
  <2>2. Journals' = {made} /\ made \in Journals
    BY <1>1, <1>2, <1>3 DEF Journals
  <2>3. JournalRestores'
    <3>1. PICK c \in 1..born : Restores(made, c)
      BY <2>2 DEF RecoveryInv, JournalRestores
    <3>2. Restores(made, c)'
      BY <1>6, <3>1
    <3>3. \A j \in Journals' : Restores(j, c)'
      BY <2>2, <3>2, <1>1 DEF Restores, PutBackIn, FilesOf
    <3>4. QED
      BY <1>1, <3>3 DEF JournalRestores
  <2>4. Ahead'
    BY <1>1, <1>7 DEF RecoveryInv, Ahead, Empty, Backups
  <2>5. NoJournalAhead'
    BY <1>1, <1>2, <2>2 DEF NoJournalAhead, Backups
  <2>6. QED
    BY <1>1, <1>8, <2>1, <2>3, <2>4, <2>5 DEF CommandInv, Kept
<1>11. QED
  BY <1>9, <1>10, CommandStep, FileFacts

\* The originals are gone from the directory and their backup is synced.
LEMMA BackupSync ==
    ASSUME RecoveryInv, NEW p \in Processes, Recover(p), at[p] = 3 + N
    PROVE  RecoveryInv'
<1>1. fs' = fs /\ synced' = fs /\ UNCHANGED <<born, made, pruned, known>>
  BY Effects, CommandFrame
<1>2. Moving(3 + N) /\ made # None /\ made # 0 /\ made \in Backups /\ N \in Nat
  BY Stage, FileFacts
<1>3. CommandInv'
  BY <1>1, SyncKeeps
<1>4. \A f \in Files : fs.dir[f] = None
  <2>1. \A i \in 1..N : fs.dir[FileOrder[i]] = None
    BY <1>2 DEF Moving
  <2>2. QED
    BY <2>1, FileFacts
<1>5. \A c \in 1..born : Restores(made, c) => \A f \in FilesOf(c) : fs.backup[made][f] = c
  BY <1>4, OfChain, KnownChains DEF Restores, PutBackIn
<1>6. ASSUME NEW c \in known PROVE InBackup(c)'
  <2>1. CASE InBackup(c)
    BY <1>1, <2>1 DEF InBackup, FilesOf
  <2>2. CASE Restorable(c)
    BY <1>1, <1>2, <1>5, <2>2, KnownChains DEF InBackup, Restorable, FilesOf
  <2>3. QED
    BY <1>2, <2>1, <2>2 DEF Moving
<1>7. \E c \in 1..born : \A f \in FilesOf(c) : fs.backup[made][f] = c
  <2>1. made \in Journals
    BY <1>2 DEF Moving, Journals
  <2>2. QED
    BY <1>5, <2>1 DEF RecoveryInv, JournalRestores
<1>8. Installing(4 + N)'
  BY <1>1, <1>2, <1>6, <1>7 DEF Installing, Moving, FilesOf
<1>9. QED
  BY <1>2, <1>3, <1>8, CommandStep, FileFacts

\* While an installation is under way everything is in a backup, and what the
\* journal names would be restored whatever the directory holds.
LEMMA BackedUp ==
    ASSUME RecoveryInv, NEW k, Installing(k)
    PROVE  \E c \in 1..born : \A f \in FilesOf(c) :
              /\ fs.backup[made][f] = c /\ synced.backup[made][f] = c /\ c # None
BY KnownChains DEF Installing

\* A file of the empty chain takes its place.
LEMMA InstallStep ==
    ASSUME RecoveryInv, NEW p \in Processes, Recover(p), NEW m \in 1..N, at[p] = m + 3 + N
    PROVE  RecoveryInv'
<1> DEFINE g == FileOrder[m]
<1>1. /\ fs'.journal = fs.journal /\ synced' = synced /\ fs'.backup = fs.backup
      /\ fs'.dir = IF g \in FreshFiles THEN [fs.dir EXCEPT ![g] = born] ELSE fs.dir
      /\ UNCHANGED <<born, made, pruned, known>>
  BY Effects, CommandFrame
<1>2. Installing(m + 3 + N) /\ made # None /\ made # 0 /\ made \in Backups /\ m + 3 + N # 6 + 2 * N
  BY Stage, FileFacts
<1>3. fs.journal = made /\ synced.journal = made /\ \A c \in known : InBackup(c)
  BY <1>2 DEF Installing
<1>4. fs \in Trees /\ g \in Files
  BY FileFacts DEF RecoveryInv, TypeOK
<1>5. PICK c \in 1..born : \A f \in FilesOf(c) :
         /\ fs.backup[made][f] = c /\ synced.backup[made][f] = c /\ c # None
  BY <1>2, BackedUp
<1>6. \A d \in known : InBackup(d)'
  BY <1>1, <1>3 DEF InBackup, FilesOf
<1>7. Installing(m + 4 + N)'
  <2>1. \A i \in 1..N : i + 3 + N < m + 4 + N /\ FileOrder[i] \in FreshFiles =>
                          fs'.dir[FileOrder[i]] = born
    <3> SUFFICES ASSUME NEW i \in 1..N, i + 3 + N < m + 4 + N, FileOrder[i] \in FreshFiles
                 PROVE  fs'.dir[FileOrder[i]] = born
      OBVIOUS
    <3>1. CASE i = m
      BY <1>1, <1>4, <3>1 DEF Trees
    <3>2. CASE i # m
      <4>1. FileOrder[i] \in Files /\ FileOrder[i] # g
        BY <3>2, FileFacts
      <4>2. i + 3 + N < m + 3 + N
        BY <3>2, FileFacts
      <4>3. QED
        BY <1>1, <1>2, <1>4, <4>1, <4>2 DEF Installing, Trees
    <3>3. QED
      BY <3>1, <3>2
  <2>2. ~(m + 4 + N > 4 + 2 * N) /\ m + 4 + N # 6 + 2 * N
    BY FileFacts
  <2>3. \E d \in 1..born' : \A f \in FilesOf(d)' : fs'.backup[made'][f] = d /\ synced'.backup[made'][f] = d
    BY <1>1, <1>5 DEF FilesOf
  <2>4. QED
    BY <1>1, <1>3, <1>6, <2>1, <2>2, <2>3 DEF Installing
<1>8. CommandInv'
  <2>1. ReadableWhole'
    BY <1>1, <1>2, <1>3 DEF ReadableWhole
  <2>2. Restores(made, c)'
    BY <1>1, <1>5 DEF Restores, PutBackIn, FilesOf
  <2>3. \A j \in Journals' : j = made
    BY <1>1, <1>3 DEF Journals
  <2>4. JournalRestores'
    BY <1>1, <1>5, <2>2, <2>3 DEF JournalRestores, Restores, PutBackIn, FilesOf
  <2>5. Ahead' /\ NoJournalAhead'
    BY <1>1, <1>2, <2>3 DEF RecoveryInv, Ahead, Empty, NoJournalAhead, Backups
  <2>6. QED
    BY <1>1, <1>6, <2>1, <2>4, <2>5 DEF CommandInv, Kept
<1>9. m + 4 + N \in (4 + N)..(6 + 2 * N) /\ at[p] + 1 = m + 4 + N
  BY FileFacts
<1>10. QED
  BY <1>7, <1>8, <1>9, CommandStep, FileFacts

\* The two syncs around the removal of the journal.
LEMMA LaterSync ==
    ASSUME RecoveryInv, NEW p \in Processes, Recover(p), at[p] \in {4 + 2 * N, 6 + 2 * N}
    PROVE  RecoveryInv'
<1>1. fs' = fs /\ synced' = fs /\ UNCHANGED <<born, made, pruned, known>>
  BY Effects, CommandFrame
<1>2. CommandInv'
  BY <1>1, SyncKeeps
<1>3. CASE at[p] = 6 + 2 * N
  BY <1>2, <1>3, CommandStep, FileFacts
<1>4. CASE at[p] = 4 + 2 * N
  <2>1. Installing(4 + 2 * N) /\ N \in Nat
    BY <1>4, Stage, FileFacts
  <2>2. \A c \in known : InBackup(c)'
    <3>1. \A c \in known : InBackup(c)
      BY <2>1 DEF Installing
    <3>2. QED
      BY <1>1, <3>1 DEF InBackup, FilesOf
  <2>3. \A i \in 1..N : FileOrder[i] \in FreshFiles => fs.dir[FileOrder[i]] = born
    BY <2>1 DEF Installing
  <2>4. Installing(5 + 2 * N)'
    BY <1>1, <2>1, <2>2, <2>3 DEF Installing, FilesOf
  <2>5. QED
    BY <1>2, <1>4, <2>1, <2>4, CommandStep
<1>5. QED
  BY <1>3, <1>4

\* The journal is removed: the directory holds the empty chain whole, and synced.
LEMMA DoneStep ==
    ASSUME RecoveryInv, NEW p \in Processes, Recover(p), at[p] = 5 + 2 * N
    PROVE  RecoveryInv'
<1>1. /\ fs'.dir = fs.dir /\ fs'.backup = fs.backup /\ fs'.journal = None /\ synced' = synced
      /\ UNCHANGED <<born, made, pruned, known>>
  BY Effects, CommandFrame
<1>2. /\ Installing(5 + 2 * N) /\ N \in Nat /\ made # None /\ made # 0 /\ made \in Backups
      /\ born > 1 /\ born \in Nat
  BY Stage, FileFacts DEF RecoveryInv, TypeOK
<1>3. /\ synced.journal = made /\ synced.dir = fs.dir
      /\ \A i \in 1..N : FileOrder[i] \in FreshFiles => fs.dir[FileOrder[i]] = born
      /\ \A c \in known : InBackup(c)
  BY <1>2 DEF Installing
<1>4. PICK c \in 1..born : \A f \in FilesOf(c) :
         /\ fs.backup[made][f] = c /\ synced.backup[made][f] = c /\ c # None
  BY <1>2, BackedUp
<1>5. HoldsAll(fs.dir, born)
  <2>1. FilesOf(born) = FreshFiles
    BY <1>2 DEF FilesOf, RecoveryInv, TypeOK
  <2>2. QED
    BY <1>3, <2>1, FileFacts DEF HoldsAll
<1>6. ReadableWhole'
  BY <1>1, <1>2, <1>3, <1>5 DEF ReadableWhole, OneChain, HoldsAll, FilesOf
<1>7. \A j \in Journals' : j = made
  BY <1>1, <1>3 DEF Journals
<1>8. JournalRestores'
  <2>1. Restores(made, c)'
    BY <1>1, <1>4 DEF Restores, PutBackIn, FilesOf
  <2>2. QED
    BY <1>1, <1>4, <1>7, <2>1 DEF JournalRestores, Restores, PutBackIn, FilesOf
<1>9. Ahead' /\ NoJournalAhead'
  BY <1>1, <1>2, <1>7 DEF RecoveryInv, Ahead, Empty, NoJournalAhead, Backups
<1>10. \A d \in known : InBackup(d)'
  BY <1>1, <1>3 DEF InBackup, FilesOf
<1>11. CommandInv'
  BY <1>1, <1>6, <1>8, <1>9, <1>10 DEF CommandInv, Kept
<1>12. Installing(6 + 2 * N)'
  <2>1. \E d \in 1..born' : \A f \in FilesOf(d)' : fs'.backup[made'][f] = d /\ synced'.backup[made'][f] = d
    BY <1>1, <1>4 DEF FilesOf
  <2>2. QED
    BY <1>1, <1>2, <1>3, <1>10, <2>1 DEF Installing
<1>13. QED
  BY <1>2, <1>11, <1>12, CommandStep

\* Every step of the command.
LEMMA CommandKeeps ==
    ASSUME RecoveryInv, NEW p \in Processes, Recover(p)
    PROVE  RecoveryInv'
<1>1. at[p] \in 0..(6 + 2 * N) /\ at[p] # 0
  BY Effects, FileFacts
<1>2. QED
  BY <1>1, Places, JournalStep, FirstSync, MoveStep, BackupSync, InstallStep, LaterSync, DoneStep

-----------------------------------------------------------------------------
(* Nodes, power cuts and the operator *)

\* Without the lock nobody does anything.
LEMMA NobodyAtWork ==
    ASSUME RecoveryInv, lock = None
    PROVE  \A p \in Processes : at[p] = 0 /\ chain[p] = None
BY FileFacts DEF RecoveryInv, LockHeld, Off, TypeOK

\* When nothing is done to the files and no reset begins, what is said of them
\* stays true, whatever chains are made.
LEMMA FilesStay ==
    ASSUME RecoveryInv, UNCHANGED <<fs, synced, made, pruned, known>>,
           born' \in 0..MaxChains, born <= born'
    PROVE  CommandInv'
<1>1. \A c : c \in 1..born => c \in 1..born'
  BY FileFacts DEF RecoveryInv, TypeOK
<1>2. ReadableWhole'
  BY <1>1 DEF RecoveryInv, ReadableWhole, OneChain, HoldsAll, FilesOf
<1>3. JournalRestores'
  BY <1>1 DEF RecoveryInv, JournalRestores, Journals, Restores, PutBackIn, FilesOf
<1>4. Ahead' /\ NoJournalAhead'
  BY DEF RecoveryInv, Ahead, NoJournalAhead, Empty, Journals
<1>5. \A c \in known' : Kept(c)'
  BY DEF RecoveryInv, Kept, InBackup, Restorable, InDir, Restores, PutBackIn, Journals, Empty, FilesOf
<1>6. QED
  BY <1>2, <1>3, <1>4, <1>5 DEF CommandInv

\* What a directory without a journal holds is whole, and all there is besides the
\* backups.
LEMMA Readable ==
    ASSUME RecoveryInv, fs.journal = None
    PROVE  /\ fs.dir = synced.dir
           /\ \/ \E c \in 1..born : HoldsAll(fs.dir, c) /\ fs.dir["blocks"] = c
              \/ fs.dir = NoFiles /\ fs.dir["blocks"] = None /\ known = {}
           /\ \A c \in known : InBackup(c) \/ (InDir(c) /\ fs.dir["blocks"] = c)
<1>1. fs.dir = synced.dir /\ OneChain(fs.dir)
  BY DEF RecoveryInv, ReadableWhole
<1>2. \A c : "blocks" \in FilesOf(c)
  BY OfChain, FileFacts
<1>3. \A c \in known : InBackup(c) \/ InDir(c)
  BY Stage, FileFacts DEF RecoveryInv, Kept, Restorable, TypeOK, Backups
<1>4. QED
  BY <1>1, <1>2, <1>3, FileFacts DEF OneChain, HoldsAll, InDir, NoFiles

\* A node starts: it works on what the directory holds, and has everything else
\* in a backup.
LEMMA StartKeeps ==
    ASSUME RecoveryInv, NEW p \in Processes, StartNode(p)
    PROVE  RecoveryInv'
<1>1. /\ lock = None /\ lock' = p /\ fs.journal = None
      /\ UNCHANGED <<fs, synced, at, made, pruned, known>>
  BY DEF StartNode, Acquires
<1>2. \A q \in Processes : at[q] = 0 /\ chain[q] = None
  BY <1>1, NobodyAtWork
<1>3. PICK x \in Chains :
         /\ chain' = [chain EXCEPT ![p] = x]
         /\ \/ x = fs.dir["blocks"] /\ born' = born
            \/ fs.dir["blocks"] = None /\ born' = born + 1 /\ x = born' /\ born < MaxChains
  <2>1. fs.dir["blocks"] \in Chains \cup {None}
    BY FileFacts DEF RecoveryInv, TypeOK, Trees
  <2>2. born < MaxChains => born + 1 \in Chains
    BY FileFacts DEF RecoveryInv, TypeOK, Chains
  <2>3. QED
    BY <2>1, <2>2 DEF StartNode
<1>4. born' \in 0..MaxChains /\ born <= born' /\ x <= born'
  <2>1. CASE born' = born
    BY <1>1, <1>3, <2>1, Readable, KnownChains, FileFacts DEF RecoveryInv, TypeOK
  <2>2. CASE born' = born + 1
    BY <1>3, <2>2, FileFacts DEF RecoveryInv, TypeOK
  <2>3. QED
    BY <1>3, <2>1, <2>2
<1>5. CommandInv'
  BY <1>1, <1>4, FilesStay
<1>6. TypeOK'
  BY <1>1, <1>3, <1>4, FileFacts DEF RecoveryInv, TypeOK
<1>7. LockHeld'
  BY <1>1, <1>2, <1>3 DEF LockHeld, Off, RecoveryInv, TypeOK
<1>8. NodeAlone'
  <2> SUFFICES ASSUME NEW q \in Processes, chain'[q] # None
               PROVE  /\ fs'.journal = None /\ chain'[q] <= born'
                      /\ \A c \in known' : c = chain'[q] \/ InBackup(c)'
    BY DEF NodeAlone
  <2>1. chain'[q] = x
    BY <1>2, <1>3 DEF RecoveryInv, TypeOK
  <2>2. \A c \in known : c = x \/ InBackup(c)
    BY <1>1, <1>3, Readable, KnownChains
  <2>3. QED
    BY <1>1, <1>4, <2>1, <2>2 DEF InBackup, FilesOf
<1>9. Progress'
  BY <1>1, <1>2 DEF Progress
<1>10. QED
  BY <1>5, <1>6, <1>7, <1>8, <1>9 DEF RecoveryInv, CommandInv

\* A process ends and the lock goes with it.
LEMMA StopKeeps ==
    ASSUME RecoveryInv, NEW p \in Processes, Stops(p)
    PROVE  RecoveryInv'
<1>1. /\ ~Off(p) /\ at' = [at EXCEPT ![p] = 0] /\ chain' = [chain EXCEPT ![p] = None]
      /\ lock' = (IF lock = p THEN None ELSE lock)
      /\ UNCHANGED <<fs, synced, born, made, pruned, known>>
  BY DEF Stops
<1>2. \A q \in Processes : at'[q] = 0 /\ chain'[q] = None
  BY <1>1 DEF RecoveryInv, LockHeld, Off, TypeOK
<1>3. CommandInv'
  BY <1>1, FilesStay DEF RecoveryInv, TypeOK
<1>4. TypeOK'
  <2>1. 0 \in 0..Len(Steps)
    BY Plan, FileFacts
  <2>2. QED
    BY <1>1, <2>1 DEF RecoveryInv, TypeOK
<1>5. LockHeld' /\ NodeAlone' /\ Progress'
  BY <1>2 DEF LockHeld, NodeAlone, Progress, Off
<1>6. QED
  BY <1>3, <1>4, <1>5 DEF RecoveryInv, CommandInv

\* A node writes its chain over the directory, of which it needs nothing else.
LEMMA SaveKeeps ==
    ASSUME RecoveryInv, NEW p \in Processes, Save(p)
    PROVE  RecoveryInv'
<1> DEFINE x == chain[p]
<1>1. /\ x # None /\ synced' = fs' /\ known' = known \cup {x}
      /\ fs' = [fs EXCEPT !.dir = [f \in Files |-> IF f \in FilesOf(x) THEN x ELSE @[f]]]
      /\ UNCHANGED <<at, chain, lock, born, made, pruned>>
  BY DEF Save
<1>2. /\ fs.journal = None /\ x \in Chains /\ x \in 1..born
      /\ \A c \in known : c = x \/ InBackup(c)
  BY <1>1 DEF RecoveryInv, NodeAlone, TypeOK, Chains
<1>3. /\ fs' \in Trees /\ fs'.journal = None /\ fs'.backup = fs.backup
      /\ \A f \in FilesOf(x) : fs'.dir[f] = x
  BY <1>1, <1>2, OfChain DEF RecoveryInv, TypeOK, Trees
<1>4. Journals' = {}
  BY <1>1, <1>3 DEF Journals
<1>5. \A c \in known : InBackup(c) => InBackup(c)'
  BY <1>1, <1>3 DEF InBackup, FilesOf
<1>6. TypeOK'
  BY <1>1, <1>2, <1>3 DEF RecoveryInv, TypeOK
<1>7. LockHeld'
  BY <1>1 DEF RecoveryInv, LockHeld, Off
<1>8. \A q \in Processes : at[q] = 0 /\ (chain[q] = None \/ q = p)
  BY <1>1 DEF RecoveryInv, LockHeld, Off
<1>9. NodeAlone' /\ Progress'
  BY <1>1, <1>2, <1>3, <1>5, <1>8 DEF NodeAlone, Progress, RecoveryInv
<1>10. ReadableWhole'
  BY <1>1, <1>2, <1>3 DEF ReadableWhole, OneChain, HoldsAll, FilesOf
<1>11. JournalRestores' /\ NoJournalAhead'
  BY <1>4 DEF JournalRestores, NoJournalAhead
<1>12. Ahead'
  BY <1>1, <1>3 DEF RecoveryInv, Ahead, Empty
<1>13. ASSUME NEW c \in known' PROVE Kept(c)'
  <2>1. CASE c = x
    BY <1>1, <1>3, <1>4, <2>1 DEF Kept, InDir, FilesOf
  <2>2. CASE c # x
    BY <1>1, <1>2, <1>5, <2>2 DEF Kept
  <2>3. QED
    BY <2>1, <2>2
<1>14. QED
  BY <1>6, <1>7, <1>9, <1>10, <1>11, <1>12, <1>13 DEF RecoveryInv

\* The command begins: there is a chain to be reset, and a backup not used yet.
LEMMA BeginKeeps ==
    ASSUME RecoveryInv, NEW p \in Processes, Begin(p)
    PROVE  RecoveryInv'
<1>1. /\ lock = None /\ lock' = p /\ fs.journal = None /\ fs.dir["meta"] # None
      /\ made < MaxBackups /\ born < MaxChains /\ made' = made + 1 /\ born' = born + 1
      /\ at' = [at EXCEPT ![p] = 1]
      /\ UNCHANGED <<fs, synced, chain, pruned, known>>
  BY DEF Begin, Acquires, UniqueDir
<1>2. \A q \in Processes : at[q] = 0 /\ chain[q] = None
  BY <1>1, NobodyAtWork
<1>3. born \in 0..MaxChains /\ made \in 0..MaxBackups /\ MaxChains \in Nat /\ MaxBackups \in Nat
  BY FileFacts DEF RecoveryInv, TypeOK
<1>4. fs.dir # NoFiles /\ born # 0
  BY <1>1, <1>3, Readable, FileFacts DEF NoFiles
<1>5. TypeOK'
  <2>1. 1 \in 0..Len(Steps)
    BY Plan, FileFacts
  <2>2. QED
    BY <1>1, <1>3, <2>1 DEF RecoveryInv, TypeOK
<1>6. LockHeld' /\ NodeAlone'
  BY <1>1, <1>2 DEF LockHeld, NodeAlone, Off, RecoveryInv, TypeOK
<1>7. \A c : c \in 1..born => c \in 1..born'
  BY <1>1, <1>3
<1>8. ReadableWhole'
  BY <1>1, <1>7 DEF RecoveryInv, ReadableWhole, OneChain, HoldsAll, FilesOf
<1>9. JournalRestores'
  BY <1>1, <1>7 DEF RecoveryInv, JournalRestores, Journals, Restores, PutBackIn, FilesOf
<1>10. Ahead' /\ NoJournalAhead'
  <2>1. \A j \in Journals : j \in Backups
    BY DEF RecoveryInv, TypeOK, Trees, Journals
  <2>2. QED
    BY <1>1, <1>3, <2>1 DEF RecoveryInv, Ahead, NoJournalAhead, Empty, Journals, Backups
<1>11. ASSUME NEW c \in known PROVE Kept(c)'
  <2>1. Kept(c) /\ ~Restorable(c)
    <3>1. made # 0 => made \in Backups
      BY <1>3 DEF Backups
    <3>2. QED
      BY <1>1, <3>1, FileFacts DEF RecoveryInv, Restorable
  <2>2. CASE InBackup(c)
    BY <1>1, <2>2 DEF Kept, InBackup, FilesOf
  <2>3. CASE InDir(c) /\ \A j \in Journals : Empty(j)
    BY <1>1, <2>3 DEF Kept, InDir, Journals, Empty, FilesOf
  <2>4. QED
    BY <2>1, <2>2, <2>3 DEF Kept
<1>12. \A c \in known' : Kept(c)'
  BY <1>1, <1>11
<1>13. Empty(made + 1)
  BY <1>3, <1>1 DEF RecoveryInv, Ahead, Backups
<1>14. Progress'
  <2>1. BeforeMoves(1)'
    BY <1>1, <1>4, <1>13 DEF BeforeMoves, Empty
  <2>2. \A q \in Processes : at'[q] # 0 => at'[q] = 1
    BY <1>1, <1>2 DEF RecoveryInv, TypeOK
  <2>3. made' # 0 /\ born' > 1
    BY <1>1, <1>3, <1>4
  <2>4. QED
    BY <2>1, <2>2, <2>3 DEF Progress
<1>15. QED
  BY <1>5, <1>6, <1>8, <1>9, <1>10, <1>12, <1>14 DEF RecoveryInv

\* A power cut leaves of each file what it is or what it was, and of the journal
\* too: what was true of both is true of what is left.
LEMMA PowerCutKeeps ==
    ASSUME RecoveryInv, PowerCut
    PROVE  RecoveryInv'
<1>1. PICK kept \in SUBSET Files, j \in {fs.journal, synced.journal} :
         fs' = [dir     |-> [f \in Files |-> IF f \in kept THEN fs.dir[f] ELSE synced.dir[f]],
                backup  |-> [b \in Backups |-> [f \in Files |->
                               IF f \in kept THEN fs.backup[b][f] ELSE synced.backup[b][f]]],
                journal |-> j]
  BY DEF PowerCut
<1>2. /\ synced' = fs' /\ lock' = None
      /\ at' = [p \in Processes |-> 0] /\ chain' = [p \in Processes |-> None]
      /\ UNCHANGED <<born, made, pruned, known>>
  BY DEF PowerCut
<1>3. fs \in Trees /\ synced \in Trees
  BY DEF RecoveryInv, TypeOK
<1>4. \A f \in Files : \/ /\ fs'.dir[f] = fs.dir[f]
                          /\ \A b \in Backups : fs'.backup[b][f] = fs.backup[b][f]
                       \/ /\ fs'.dir[f] = synced.dir[f]
                          /\ \A b \in Backups : fs'.backup[b][f] = synced.backup[b][f]
  BY <1>1
<1>5. fs'.journal = j /\ Journals' \subseteq Journals
  BY <1>1, <1>2 DEF Journals
<1>6. fs' \in Trees
  BY <1>1, <1>3 DEF Trees
<1>7. TypeOK'
  BY <1>2, <1>6, Plan, FileFacts DEF RecoveryInv, TypeOK
<1>8. LockHeld' /\ NodeAlone' /\ Progress'
  BY <1>2 DEF LockHeld, NodeAlone, Progress, Off
<1>9. ASSUME NEW b \in Backups PROVE Empty(b) => Empty(b)'
  BY <1>1, <1>2 DEF Empty, NoFiles
<1>10. ASSUME NEW b \in Backups, NEW c PROVE Restores(b, c) => Restores(b, c)'
  BY <1>2, <1>4, OfChain DEF Restores, PutBackIn, FilesOf
<1>11. ReadableWhole'
  <2> SUFFICES ASSUME j = None
               PROVE  OneChain(fs.dir)' /\ fs'.dir = fs.dir
    BY <1>2, <1>5 DEF ReadableWhole, OneChain, HoldsAll, FilesOf
  <2>1. fs.dir = synced.dir /\ OneChain(fs.dir)
    BY DEF RecoveryInv, ReadableWhole
  <2>2. fs'.dir = fs.dir
    BY <1>1, <1>3, <2>1 DEF Trees
  <2>3. QED
    BY <1>2, <2>1, <2>2 DEF OneChain, HoldsAll, FilesOf
<1>12. \A b \in Journals : b \in Backups
  BY <1>3 DEF Journals, Trees
<1>13. JournalRestores'
  BY <1>2, <1>5, <1>10, <1>12 DEF RecoveryInv, JournalRestores
<1>14. Ahead' /\ NoJournalAhead'
  BY <1>2, <1>5, <1>9 DEF RecoveryInv, Ahead, NoJournalAhead
<1>15. ASSUME NEW c \in known PROVE Kept(c)'
  <2>1. CASE InBackup(c)
    BY <1>2, <1>4, <2>1, OfChain DEF Kept, InBackup, FilesOf
  <2>2. CASE Restorable(c)
    <3>1. made \in Backups
      BY <2>2 DEF Restorable, RecoveryInv, TypeOK, Backups
    <3>2. Restorable(c)'
      BY <1>1, <1>2, <1>10, <2>2, <3>1 DEF Restorable
    <3>3. QED
      BY <3>2 DEF Kept
  <2>3. CASE InDir(c) /\ \A b \in Journals : Empty(b)
    <3>1. InDir(c)'
      BY <1>2, <1>4, <2>3, OfChain DEF InDir, FilesOf
    <3>2. \A b \in Journals' : Empty(b)'
      BY <1>5, <1>9, <1>12, <2>3
    <3>3. QED
      BY <3>1, <3>2 DEF Kept
  <2>4. QED
    BY <2>1, <2>2, <2>3 DEF RecoveryInv, Kept
<1>16. QED
  BY <1>2, <1>7, <1>8, <1>11, <1>13, <1>14, <1>15 DEF RecoveryInv

\* The operator puts back what the journal names, and the directory is whole.
LEMMA RestoreKeeps ==
    ASSUME RecoveryInv, Restore
    PROVE  RecoveryInv'
<1> DEFINE j == fs.journal
<1>1. /\ lock = None /\ j # None /\ synced' = fs'
      /\ fs' = [fs EXCEPT !.dir = PutBack(j), !.journal = None]
      /\ UNCHANGED <<at, chain, lock, born, made, pruned, known>>
  BY DEF Restore
<1>2. fs \in Trees /\ j \in Backups /\ j \in Journals
  BY <1>1 DEF RecoveryInv, TypeOK, Trees, Journals
<1>3. /\ fs'.dir = PutBack(j) /\ fs'.backup = fs.backup /\ fs'.journal = None
      /\ fs' \in Trees /\ Journals' = {}
  <2>1. PutBack(j) \in [Files -> Chains \cup {None}]
    BY <1>2 DEF Trees, PutBack
  <2> HIDE DEF j
  <2>2. fs'.dir = PutBack(j) /\ fs'.backup = fs.backup /\ fs'.journal = None
    BY <1>1, <1>2 DEF Trees
  <2>3. fs' \in Trees
    BY <1>1, <1>2, <2>1 DEF Trees
  <2>4. QED
    BY <1>1, <2>2, <2>3 DEF Journals
<1>4. \A f \in Files : fs'.dir[f] = PutBackIn(fs, j, f)
  BY <1>3 DEF PutBack, PutBackIn
<1>5. TypeOK' /\ LockHeld' /\ Progress'
  <2>1. \A p \in Processes : at[p] = 0 /\ chain[p] = None
    BY <1>1, NobodyAtWork
  <2>2. QED
    BY <1>1, <1>3, <2>1 DEF RecoveryInv, TypeOK, LockHeld, Progress, Off
<1>6. NodeAlone'
  BY <1>1, NobodyAtWork DEF NodeAlone
<1>7. ReadableWhole'
  <2>1. PICK c \in 1..born : Restores(j, c)
    BY <1>2 DEF RecoveryInv, JournalRestores
  <2>2. \A f \in FilesOf(c) : fs'.dir[f] = c
    BY <1>4, <2>1, OfChain DEF Restores
  <2>3. QED
    BY <1>1, <2>2 DEF ReadableWhole, OneChain, HoldsAll, FilesOf
<1>8. JournalRestores' /\ NoJournalAhead'
  BY <1>3 DEF JournalRestores, NoJournalAhead
<1>9. Ahead'
  BY <1>1, <1>3 DEF RecoveryInv, Ahead, Empty
<1>10. ASSUME NEW c \in known PROVE Kept(c)'
  <2>1. CASE InBackup(c)
    BY <1>1, <1>3, <2>1 DEF Kept, InBackup, FilesOf
  <2>2. CASE Restorable(c)
    <3>1. \A f \in FilesOf(c) : fs'.dir[f] = c
      BY <1>4, <2>2, OfChain DEF Restorable, Restores
    <3>2. QED
      BY <1>1, <1>3, <3>1 DEF Kept, InDir, FilesOf
  <2>3. CASE InDir(c) /\ \A b \in Journals : Empty(b)
    <3>1. \A f \in FilesOf(c) : fs'.dir[f] = c
      BY <1>2, <1>4, <2>3, OfChain DEF Empty, NoFiles, PutBackIn, InDir
    <3>2. QED
      BY <1>1, <1>3, <3>1 DEF Kept, InDir, FilesOf
  <2>4. QED
    BY <2>1, <2>2, <2>3 DEF RecoveryInv, Kept
<1>11. QED
  BY <1>1, <1>5, <1>6, <1>7, <1>8, <1>9, <1>10 DEF RecoveryInv

-----------------------------------------------------------------------------
(* The theorems *)

LEMMA InitInv == Init => RecoveryInv
<1> SUFFICES ASSUME Init PROVE RecoveryInv
  OBVIOUS
<1>1. /\ synced = fs /\ fs.journal = None /\ lock = None /\ made = 0
      /\ fs.dir = [f \in Files |-> IF born = 1 /\ f \in FilesOf(1) THEN 1 ELSE None]
      /\ fs.backup = [b \in Backups |-> NoFiles]
      /\ born \in {0, 1} /\ known = 1..born /\ pruned \subseteq {1}
      /\ at = [p \in Processes |-> 0] /\ chain = [p \in Processes |-> None]
  BY DEF Init
<1>2. Journals = {}
  BY <1>1 DEF Journals
<1>3. TypeOK
  <2>1. fs \in Trees
    BY RecoveryAssumption DEF Init, Trees, NoFiles, Chains
  <2>2. 0 \in 0..Len(Steps) /\ born \in 0..MaxChains /\ 0 \in 0..MaxBackups
    BY <1>1, Plan, FileFacts, RecoveryAssumption
  <2>3. QED
    BY <1>1, <2>1, <2>2 DEF TypeOK
<1>4. LockHeld /\ NodeAlone /\ Progress
  BY <1>1 DEF LockHeld, NodeAlone, Progress, Off
<1>5. born = 1 => HoldsAll(fs.dir, 1)
  BY <1>1, OfChain DEF HoldsAll
<1>6. ReadableWhole
  <2>1. CASE born = 1
    BY <1>1, <1>5, <2>1 DEF ReadableWhole, OneChain
  <2>2. CASE born = 0
    BY <1>1, <2>2 DEF ReadableWhole, OneChain, NoFiles
  <2>3. QED
    BY <1>1, <2>1, <2>2
<1>7. JournalRestores /\ NoJournalAhead
  BY <1>2 DEF JournalRestores, NoJournalAhead
<1>8. Ahead
  BY <1>1 DEF Ahead, Empty
<1>9. \A c \in known : Kept(c)
  BY <1>1, <1>2, <1>5 DEF Kept, InDir, HoldsAll
<1>10. QED
  BY <1>3, <1>4, <1>6, <1>7, <1>8, <1>9 DEF RecoveryInv

LEMMA NextInv ==
    ASSUME RecoveryInv, [Next]_vars
    PROVE  RecoveryInv'
<1>1. CASE UNCHANGED vars
  BY <1>1 DEF vars, RecoveryInv, TypeOK, LockHeld, Off, NodeAlone, ReadableWhole, OneChain, HoldsAll,
              JournalRestores, Restores, PutBackIn, Journals, Progress, BeforeMoves, Moving,
              Installing, Ahead, NoJournalAhead, Kept, InBackup, InDir, Restorable, Empty, FilesOf
<1>2. ASSUME NEW p \in Processes, StartNode(p) \/ Save(p) \/ Begin(p) \/ Recover(p) \/ Stops(p)
      PROVE  RecoveryInv'
  BY <1>2, StartKeeps, SaveKeeps, BeginKeeps, CommandKeeps, StopKeeps
<1>3. QED
  BY <1>1, <1>2, PowerCutKeeps, RestoreKeeps DEF Next

\* What is known of the directory, its backups and the journal at every moment,
\* of the process at work, and of what a power cut may leave: recovery.rs::run
\* and dirlock.rs.
THEOREM RecoveryInvariant == Spec => []RecoveryInv
<1>1. Init => RecoveryInv
  BY InitInv
<1>2. RecoveryInv /\ [Next]_vars => RecoveryInv'
  BY NextInv
<1>3. QED
  BY <1>1, <1>2, PTL DEF Spec

\* Every chain a node ever worked on stays whole in one place, whatever resets
\* are broken off, killed or cut off from power: recovery.rs::run, unique_dir.
THEOREM NoChainLost == Spec => []NothingLost
<1>1. RecoveryInv => NothingLost
  <2> SUFFICES ASSUME RecoveryInv, NEW c \in known
               PROVE  \/ HoldsAll(fs.dir, c)
                      \/ \E b \in Backups : HoldsAll(fs.backup[b], c)
                      \/ fs.journal # None /\ HoldsAll(PutBack(fs.journal), c)
    BY DEF NothingLost
  <2>1. CASE InBackup(c)
    BY <2>1 DEF InBackup, HoldsAll
  <2>2. CASE Restorable(c)
    <3>1. made \in Backups /\ fs.journal = made /\ fs.journal # None
      BY <2>2, FileFacts DEF Restorable, RecoveryInv, TypeOK, Backups
    <3>2. HoldsAll(PutBack(made), c)
      BY <2>2, OfChain DEF Restorable, Restores, PutBackIn, PutBack, HoldsAll
    <3>3. QED
      BY <3>1, <3>2
  <2>3. CASE InDir(c)
    BY <2>3 DEF InDir, HoldsAll
  <2>4. QED
    BY <2>1, <2>2, <2>3 DEF RecoveryInv, Kept
<1>2. QED
  BY <1>1, RecoveryInvariant, PTL

\* A node starts on one whole chain or, where none ever was, on an empty one:
\* refuse_if_interrupted_recovery, and the order of the command's steps.
THEOREM StartsWhole == Spec => StartsOnlyWhole
<1> DEFINE Whole == \A p \in Processes : chain[p] = None /\ chain'[p] # None =>
                        HoldsAll(fs.dir, chain'[p]) \/ known = {}
<1>1. RecoveryInv /\ [Next]_vars => [Whole]_vars
  <2> SUFFICES ASSUME RecoveryInv, Next, NEW p \in Processes, chain[p] = None, chain'[p] # None
               PROVE  HoldsAll(fs.dir, chain'[p]) \/ known = {}
    OBVIOUS
  <2>1. PICK q \in Processes : StartNode(q)
    BY DEF Next, Save, Begin, Recover, Stops, PowerCut, Restore, RecoveryInv, TypeOK
  <2>2. q = p /\ fs.journal = None
    BY <2>1 DEF StartNode, RecoveryInv, TypeOK
  <2>3. CASE fs.dir["blocks"] # None
    <3>1. chain'[p] = fs.dir["blocks"]
      BY <2>1, <2>2, <2>3 DEF StartNode, RecoveryInv, TypeOK
    <3>2. QED
      BY <2>2, <2>3, <3>1, Readable
  <2>4. CASE fs.dir["blocks"] = None
    <3>1. \A c \in 1..born : c # None
      BY FileFacts DEF RecoveryInv, TypeOK, Chains
    <3>2. QED
      BY <2>2, <2>4, <3>1, Readable
  <2>5. QED
    BY <2>3, <2>4
<1>2. QED
  BY <1>1, RecoveryInvariant, PTL DEF Spec, StartsOnlyWhole
=============================================================================

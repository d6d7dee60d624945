------------------------------- MODULE Chain -------------------------------
(***************************************************************************)
(* The block chain of one node, nightfall-consensus/src/lib.rs: applying   *)
(* blocks, the window of undo records, pruning bodies, and the two ways of *)
(* moving to a heavier branch.  Both verify a branch on a private copy     *)
(* with the node's lock released and come back to commit it, so a chain    *)
(* value is a record and the operations are operators on it: a thread's    *)
(* trial is a chain too.                                                   *)
(*                                                                         *)
(* A block is a record of a small universe: `hash` and `prev` are names,   *)
(* `ok` stands for version, size limits, proof of work and body root,      *)
(* `rootsOk` for "the header commits to the state the body leads to".      *)
(***************************************************************************)
EXTENDS Ledger, Difficulty, SequencesExt

CONSTANTS
    Blocks,         \* every block that can be offered
    GenesisHash,    \* what the first block links to
    Checkpoints,    \* pinned <<height, hash>> pairs
    MaxReorgDepth,  \* MAX_REORG_DEPTH
    MaxDrift,       \* MAX_FUTURE_DRIFT_SECS
    PruneKeepBlocks,\* PRUNE_KEEP_BLOCKS
    Threads,        \* threads that verify branches with the lock released
    Offers,         \* sequences of blocks a peer may offer
    MaxNow          \* bound on the wall clock

ASSUME ChainAssumption ==
    /\ MaxReorgDepth \in Nat \ {0}
    /\ MaxDrift \in Nat /\ MaxNow \in Nat
    /\ PruneKeepBlocks \in Nat /\ PruneKeepBlocks >= MaxReorgDepth
    /\ Offers \subseteq Seq(Blocks)
    /\ \A b, d \in Blocks : b.hash = d.hash => b = d
    /\ \A b \in Blocks : b.hash # GenesisHash
    /\ \A b \in Blocks : b.time \in Nat /\ b.difficulty \in Nat
    /\ IsFiniteSet(Checkpoints) /\ \A p \in Checkpoints : p[1] \in Nat

VARIABLES
    chain,  \* the node's chain
    carry,  \* thread -> what it carries between two critical sections
    now     \* the wall clock

vars == <<chain, carry, now>>

\* The horizon of an archive chain is None; prune_keep then starts it from the
\* ledger of a new chain, which is the value used here.
NewChain ==
    [ledger |-> Genesis, blocks |-> <<>>, headers |-> <<>>, firstHeight |-> 0,
     horizon |-> Genesis, horizonWork |-> 0, totalWork |-> 0, undos |-> <<>>]

-----------------------------------------------------------------------------
(* Reading a chain *)

TipHash(ch) == IF ch.headers = <<>> THEN GenesisHash ELSE Last(ch.headers).hash

NextHeight(ch) == IF ch.headers = <<>> THEN ch.firstHeight ELSE Last(ch.headers).height + 1

\* tip_height().unwrap_or(0)
TipHeight(ch) == IF ch.headers = <<>> THEN 0 ELSE Last(ch.headers).height

IsPruned(ch) == ch.firstHeight > 0

Hashes(ch) == [i \in DOMAIN ch.headers |-> ch.headers[i].hash]

BlockWork(b) == AtLeast(b.difficulty, 1)

\* w[1] + ... + w[n]
SumUp(w, n) ==
    LET total[k \in 0..n] == IF k = 0 THEN 0 ELSE total[k - 1] + w[k]
    IN  total[n]

WorkOfSeq(s) == SumUp([i \in DOMAIN s |-> BlockWork(s[i])], Len(s))

HeaderOf(b) == [height |-> b.height, hash |-> b.hash, prev |-> b.prev,
                time |-> b.time, difficulty |-> b.difficulty]

Subsidy(ch, b) == RewardAt(b.height, ch.ledger.minted)

Unpinned(b) == \A p \in Checkpoints : p[1] = b.height => p[2] = b.hash

-----------------------------------------------------------------------------
(* Applying one block *)

LastUndos(u) == IF Len(u) > MaxReorgDepth THEN LastN(u, MaxReorgDepth) ELSE u

\* push_block and remember_undo around a ledger that took the block.
Extended(ch, b, ledger) ==
    [ch EXCEPT !.ledger = ledger,
               !.totalWork = @ + BlockWork(b),
               !.headers = Append(@, HeaderOf(b)),
               !.blocks = Append(@, b),
               !.undos = LastUndos(Append(@, [work |-> BlockWork(b),
                                              state |-> CaptureUndo(ch.ledger, b.body)]))]

\* The checks of apply_block_inner up to and including the ledger's own.
PassesRules(ch, b, t) ==
    /\ b.ok /\ b.body.outputs # <<>>
    /\ b.height = NextHeight(ch)
    /\ b.prev = TipHash(ch)
    /\ Unpinned(b)
    /\ b.time <= t + MaxDrift
    /\ ch.headers # <<>> => b.time > MedianTimePast(ch.headers)
    /\ b.difficulty = NextDifficulty(ch.headers)
    /\ b.reward = CoinbaseDue(Subsidy(ch, b), b.body.fee)
    /\ Acceptable(ch.ledger, b.body, b.height, Subsidy(ch, b))

CanApply(ch, b, t) == PassesRules(ch, b, t) /\ b.rootsOk

Applied(ch, b) == Extended(ch, b, Commit(ch.ledger, b.body, b.height, Subsidy(ch, b)))

\* The ledger has already changed when the header's roots turn out wrong.
RootsRefused(ch, b) ==
    [ch EXCEPT !.ledger = Rewind(Commit(@, b.body, b.height, Subsidy(ch, b)),
                                 CaptureUndo(@, b.body))]

\* apply_block_from_own_disk: linkage, the pin and the ledger's replay rules.
CanReplay(ch, b) ==
    /\ b.height = NextHeight(ch)
    /\ b.prev = TipHash(ch)
    /\ Unpinned(b)
    /\ StateOnlyAcceptable(ch.ledger, b.body, b.height, Subsidy(ch, b))

AppliedAll(ch, s) ==
    LET len == Len(s)
        after[n \in 0..len] == IF n = 0 THEN ch ELSE Applied(after[n - 1], s[n])
    IN  after[len]

\* Every block of s applies after the ones before it.
AllApply(ch, s, t) ==
    \A i \in DOMAIN s : CanApply(AppliedAll(ch, SubSeq(s, 1, i - 1)), s[i], t)

AllReplay(ch, s) ==
    \A i \in DOMAIN s : CanReplay(AppliedAll(ch, SubSeq(s, 1, i - 1)), s[i])

-----------------------------------------------------------------------------
(* Pruning *)

\* Mutant: the subsidy of a dropped body is taken from the tip's supply.
AbsorbedAtTipSupply(L, s) ==
    LET len == Len(s)
        after[n \in 0..len] ==
            IF n = 0 THEN L
            ELSE Commit(after[n - 1], s[n].body, s[n].height,
                        RewardAt(s[n].height, chain.ledger.minted))
    IN  after[len]

\* The ledger L with the bodies of s.
Absorbed(L, s) ==
    LET len == Len(s)
        after[n \in 0..len] ==
            IF n = 0 THEN L
            ELSE Commit(after[n - 1], s[n].body, s[n].height,
                        RewardAt(s[n].height, after[n - 1].minted))
    IN  after[len]

\* Replay the dropped bodies into the horizon.
Pruned(ch, keep) ==
    LET n == Len(ch.blocks) - AtLeast(keep, 1)
        dropped == SubSeq(ch.blocks, 1, n)
    IN  IF n <= 0 THEN ch
        ELSE [ch EXCEPT !.horizon = Absorbed(@, dropped),
                        !.horizonWork = @ + WorkOfSeq(dropped),
                        !.blocks = SubSeq(@, n + 1, Len(@)),
                        !.firstHeight = @ + n]

-----------------------------------------------------------------------------
(* Moving to a heavier branch: prepare, verify unlocked, splice *)

RewoundWork(ch, n) ==
    SumUp([k \in 1..n |-> ch.undos[Len(ch.undos) - k + 1].work], n)

\* The ledger n blocks ago, newest undo first.
RewoundLedger(ch, n) ==
    LET back[k \in 0..n] ==
            IF k = 0 THEN ch.ledger
            ELSE Rewind(back[k - 1], ch.undos[Len(ch.undos) - k + 1].state)
    IN  back[n]

\* Headers through the ancestor, the rewound ledger, and no bodies.
TrialAt(ch, ancestor) ==
    LET n == TipHeight(ch) - ancestor
    IN  [NewChain EXCEPT !.ledger = RewoundLedger(ch, n),
                         !.totalWork = ch.totalWork - RewoundWork(ch, n),
                         !.headers = SubSeq(ch.headers, 1, ancestor + 1)]

Idle == [kind |-> "idle"]

\* prepare_suffix_trial
PrepareSuffixTrial(th, ancestor) ==
    LET n == TipHeight(chain) - ancestor
    IN  /\ carry[th] = Idle
        /\ ancestor <= TipHeight(chain) /\ ancestor < Len(chain.headers)
        /\ n <= MaxReorgDepth /\ n <= Len(chain.undos)
        /\ carry' = [carry EXCEPT ![th] =
               [kind |-> "trial", trial |-> TrialAt(chain, ancestor), rewind |-> n,
                basedOn |-> TipHash(chain), ourWork |-> chain.totalWork]]
        /\ UNCHANGED <<chain, now>>

\* Declared work first, then every rule on the private trial.
Wins(c, suffix) ==
    /\ suffix # <<>>
    /\ c.trial.totalWork + WorkOfSeq(suffix) > c.ourWork
    /\ AllApply(c.trial, suffix, now)

\* finish_suffix, with the lock released.
FinishSuffix(th, suffix) ==
    LET c == carry[th]
    IN  /\ c.kind = "trial"
        /\ \/ /\ Wins(c, suffix)
              /\ carry' = [carry EXCEPT ![th] =
                     [kind |-> "reorg", result |-> AppliedAll(c.trial, suffix),
                      rewind |-> c.rewind, basedOn |-> c.basedOn]]
           \/ ~Wins(c, suffix) /\ carry' = [carry EXCEPT ![th] = Idle]
        /\ UNCHANGED <<chain, now>>

\* Mutant: nothing is looked at again but what the splice needs.
StillFitsAlways(ch, c) == c.rewind <= Len(ch.blocks) /\ c.rewind <= Len(ch.undos)

StillFits(ch, c) ==
    /\ TipHash(ch) = c.basedOn
    /\ c.result.totalWork > ch.totalWork
    /\ c.rewind <= Len(ch.blocks) /\ c.rewind <= Len(ch.undos)

\* Mutant: the undo records of the abandoned blocks stay in the window.
SplicedKeepsUndos(ch, c) ==
    [ch EXCEPT !.blocks = SubSeq(@, 1, Len(@) - c.rewind) \o c.result.blocks,
               !.headers = c.result.headers,
               !.ledger = c.result.ledger,
               !.totalWork = c.result.totalWork,
               !.undos = LastUndos(@ \o c.result.undos)]

\* Mutant: the bodies are the trial's, which has none below the ancestor.
SplicedDropsBodies(ch, c) ==
    [ch EXCEPT !.blocks = c.result.blocks,
               !.headers = c.result.headers,
               !.ledger = c.result.ledger,
               !.totalWork = c.result.totalWork,
               !.undos = LastUndos(SubSeq(@, 1, Len(@) - c.rewind) \o c.result.undos)]

Spliced(ch, c) ==
    [ch EXCEPT !.blocks = SubSeq(@, 1, Len(@) - c.rewind) \o c.result.blocks,
               !.headers = c.result.headers,
               !.ledger = c.result.ledger,
               !.totalWork = c.result.totalWork,
               !.undos = LastUndos(SubSeq(@, 1, Len(@) - c.rewind) \o c.result.undos)]

\* splice_suffix, with the lock held again.
SpliceSuffix(th) ==
    LET c == carry[th]
    IN  /\ c.kind = "reorg"
        /\ \/ StillFits(chain, c) /\ chain' = Spliced(chain, c)
           \/ ~StillFits(chain, c) /\ chain' = chain
        /\ carry' = [carry EXCEPT ![th] = Idle]
        /\ now' = now

-----------------------------------------------------------------------------
(* Moving to a heavier branch: rebuild a whole candidate, then adopt it *)

\* What rebuilding starts from: an empty chain, or the base below the horizon.
RebuildBase(ch) ==
    IF ~IsPruned(ch) THEN NewChain
    ELSE [NewChain EXCEPT !.ledger = ch.horizon, !.horizon = ch.horizon,
                          !.horizonWork = ch.horizonWork, !.totalWork = ch.horizonWork,
                          !.firstHeight = ch.firstHeight,
                          !.headers = SubSeq(ch.headers, 1, ch.firstHeight)]

\* How many leading blocks of s are ours, counting from the base.
CommonWith(ch, s) ==
    Max({n \in 0..Len(s) : /\ ch.firstHeight + n <= Len(ch.headers)
                           /\ \A i \in 1..n : s[i].hash = ch.headers[ch.firstHeight + i].hash})

\* Mutant: the block after the pin is replayed too.
AssumeValidPastPin(s) ==
    LET pin == Max({0} \cup {p[1] : p \in Checkpoints})
    IN  IF pin > 0 /\ Len(s) > pin + 1 THEN pin + 2 ELSE 0

\* A list from genesis that reaches the highest pin is replayed up to it.
AssumeValidTo(s) ==
    LET pin == Max({0} \cup {p[1] : p \in Checkpoints})
    IN  IF pin > 0 /\ Len(s) > pin THEN pin + 1 ELSE 0

\* evaluate_reorg_at on facts copied under the lock.
Heavier(ch, s, t) ==
    LET base    == RebuildBase(ch)
        common  == CommonWith(ch, s)
        trusted == IF IsPruned(ch) THEN common ELSE AtLeast(common, AssumeValidTo(s))
        prefix  == SubSeq(s, 1, trusted)
        rest    == SubSeq(s, trusted + 1, Len(s))
    IN  /\ s # <<>> /\ s[1].height = ch.firstHeight
        /\ base.totalWork + WorkOfSeq(s) > ch.totalWork
        /\ Len(ch.headers) - (ch.firstHeight + common) <= MaxReorgDepth
        /\ AllReplay(base, prefix)
        /\ trusted > 0 => Last(prefix).rootsOk
        /\ AllApply(AppliedAll(base, prefix), rest, t)
        /\ SupplyHolds(AppliedAll(base, s).ledger)

EvaluateReorg(th, s) ==
    /\ carry[th] = Idle
    /\ Heavier(chain, s, now)
    /\ carry' = [carry EXCEPT ![th] =
           [kind |-> "candidate", result |-> AppliedAll(RebuildBase(chain), s)]]
    /\ UNCHANGED <<chain, now>>

\* adopt_reorg: the work is compared again, nothing else is.
StillHeavier(ch, c) == c.result.totalWork > ch.totalWork

AdoptReorg(th) ==
    LET c == carry[th]
    IN  /\ c.kind = "candidate"
        /\ \/ StillHeavier(chain, c) /\ chain' = c.result
           \/ ~StillHeavier(chain, c) /\ chain' = chain
        /\ carry' = [carry EXCEPT ![th] = Idle]
        /\ now' = now

-----------------------------------------------------------------------------
(* The node's operations on its chain, each under the lock *)

Init ==
    /\ chain = NewChain
    /\ carry = [th \in Threads |-> Idle]
    /\ now = 0

\* apply_block.  A block that fails a rule changes nothing, except that one
\* with wrong roots is applied to the ledger and rewound.
ApplyBlock(b) ==
    /\ \/ CanApply(chain, b, now) /\ chain' = Applied(chain, b)
       \/ PassesRules(chain, b, now) /\ ~b.rootsOk /\ chain' = RootsRefused(chain, b)
    /\ UNCHANGED <<carry, now>>

\* try_ingest_blocks: as many leading blocks as apply.  A run whose first
\* block fails a rule changes nothing.
TryIngestBlocks(s) ==
    LET n == Max({i \in 0..Len(s) : AllApply(chain, SubSeq(s, 1, i), now)})
        got == AppliedAll(chain, SubSeq(s, 1, n))
    IN  /\ PassesRules(chain, s[1], now)
        /\ chain' = IF n < Len(s) /\ PassesRules(got, s[n + 1], now)
                    THEN RootsRefused(got, s[n + 1]) ELSE got
        /\ UNCHANGED <<carry, now>>

PruneKeep ==
    /\ chain' = Pruned(chain, PruneKeepBlocks)
    /\ UNCHANGED <<carry, now>>

Tick == now < MaxNow /\ now' = now + 1 /\ UNCHANGED <<chain, carry>>

\* What the node does: its reorgs all go through prepare, finish, splice.
Next ==
    \/ \E b \in Blocks : ApplyBlock(b)
    \/ \E s \in Offers : TryIngestBlocks(s)
    \/ PruneKeep
    \/ \E th \in Threads, a \in 0..Len(chain.headers) : PrepareSuffixTrial(th, a)
    \/ \E th \in Threads, s \in Offers : FinishSuffix(th, s)
    \/ \E th \in Threads : SpliceSuffix(th)
    \/ Tick

Spec == Init /\ [][Next]_vars

\* Next plus the whole-candidate reorg the crate also offers.
NextWhole ==
    \/ Next
    \/ \E th \in Threads, s \in Offers : EvaluateReorg(th, s)
    \/ \E th \in Threads : AdoptReorg(th)

SpecWhole == Init /\ [][NextWhole]_vars

-----------------------------------------------------------------------------
(* Properties *)

BlockOf(hash) == CHOOSE b \in Blocks : b.hash = hash
Path(hs) == [i \in DOMAIN hs |-> BlockOf(hs[i])]

\* Reference: the chain obtained by applying hs from genesis.
ChainOf(hs) == AppliedAll(NewChain, Path(hs))

\* Reference: every block of hs passes every rule on top of the ones before
\* it, at a clock that is late enough for its timestamp.
ValidChain(hs) ==
    \A i \in DOMAIN hs : CanApply(ChainOf(SubSeq(hs, 1, i - 1)), BlockOf(hs[i]),
                                  BlockOf(hs[i]).time)

\* A block with a pinned height and hash ends a valid chain: what rebuilding from
\* blocks relies on when it replays up to the highest pin without its checks.
ASSUME CheckpointAssumption ==
    \A p \in Checkpoints, b \in Blocks : b.height = p[1] /\ b.hash = p[2] =>
        \E s \in [1..(p[1] + 1) -> Blocks] :
            s[p[1] + 1] = b /\ ValidChain([i \in 1..(p[1] + 1) |-> s[i].hash])

WorkOfChain(hs) == WorkOfSeq(Path(hs))

\* However the node got here -- blocks applied and refused, undo records
\* rewound, branches spliced, bodies pruned -- its ledger is the one that
\* applying the chain it claims from genesis gives.
LedgerIsReplay == chain.ledger = ChainOf(Hashes(chain)).ledger

\* Each undo record of the window takes the ledger and the work back by
\* exactly one block, so a trial at any ancestor within the window starts
\* from that ancestor's true state.
UndoWindowExact ==
    \A n \in 0..Len(chain.undos) :
        LET back == SubSeq(Hashes(chain), 1, Len(chain.headers) - n)
        IN  /\ RewoundLedger(chain, n) = ChainOf(back).ledger
            /\ chain.totalWork - RewoundWork(chain, n) = WorkOfChain(back)

\* The horizon of a pruned chain is the state just below its first body, also
\* after a reorg has replaced the bodies above it.
HorizonIsReplay ==
    LET below == SubSeq(Hashes(chain), 1, chain.firstHeight)
    IN  /\ chain.horizon = ChainOf(below).ledger
        /\ chain.horizonWork = WorkOfChain(below)

\* Bodies are those of the headers from first_height up, and they cover the
\* undo window: every rewind prepare_suffix_trial allows, splice_suffix can do.
BodiesCoverWindow ==
    /\ Len(chain.headers) = chain.firstHeight + Len(chain.blocks)
    /\ \A i \in DOMAIN chain.blocks :
          HeaderOf(chain.blocks[i]) = chain.headers[chain.firstHeight + i]
    /\ Len(chain.undos) <= Len(chain.blocks)

\* The unspent outputs hide exactly what was minted and not burned, and no
\* more than the cap was ever minted, at the tip and at the horizon.
SupplySound == SupplyHolds(chain.ledger) /\ SupplyHolds(chain.horizon)

\* The node implements HeaviestChain: whatever threads do with the lock
\* released, the chain only moves to a valid chain with strictly more work.
Abstract == INSTANCE HeaviestChain WITH
    best <- Hashes(chain), Valid <- ValidChain, WorkOf <- WorkOfChain,
    MaxDepth <- MaxReorgDepth
FollowsHeaviest == Abstract!Spec

\* The same without the depth: what holds when whole candidates are adopted,
\* whose depth is only checked against the chain they were evaluated on.
AnyDepth == INSTANCE HeaviestChain WITH
    best <- Hashes(chain), Valid <- ValidChain, WorkOf <- WorkOfChain,
    MaxDepth <- Cardinality(Blocks)
FollowsHeavierAnyDepth == AnyDepth!Spec
=============================================================================

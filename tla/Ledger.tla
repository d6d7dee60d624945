------------------------------- MODULE Ledger -------------------------------
(***************************************************************************)
(* The confidential ledger, nightfall-ledger/src/{lib,utxo}.rs, and the    *)
(* emission schedule of nightfall-consensus/src/lib.rs, as operators on a  *)
(* ledger value.  Chain keeps ledgers in its state and calls these.        *)
(*                                                                         *)
(* A commitment hides an amount; Value is that amount.  The code never     *)
(* sees it: it checks sums of curve points, and two such sums agree when   *)
(* the hidden amounts (and the blinding, which is left out) do.  A body is *)
(* the block's flat aggregate:                                             *)
(*    inputs, outputs  sequences of commitments (a list may repeat one)    *)
(*    coinbase         the outputs flagged as coinbase                     *)
(*    fee, reward      totals over its kernels                             *)
(*    cbLock, lock     lock height of the coinbase kernel, and the highest *)
(*                     lock height of the plain ones                       *)
(*    kernels          how many kernels                                    *)
(*    sound            canonical order, size limits, shapes, range proofs, *)
(*                     signatures and the key balance all check out        *)
(* Every body has one coinbase kernel: without exactly one, both ways of   *)
(* applying it refuse it before anything else.                             *)
(***************************************************************************)
EXTENDS Integers, Sequences, FiniteSets, Functions

CONSTANTS
    Commits,           \* output commitments
    Value,             \* commitment -> the amount it hides
    CoinbaseMaturity,  \* blocks a coinbase output must age
    InitialReward,     \* subsidy of the first halving interval
    HalvingInterval,   \* blocks per halving
    MaxSupply          \* MAX_SUPPLY_DARKS

ASSUME LedgerAssumption ==
    /\ Value \in [Commits -> Nat]
    /\ CoinbaseMaturity \in Nat
    /\ InitialReward \in Nat
    /\ HalvingInterval \in Nat \ {0}
    /\ MaxSupply \in Nat

Bodies == [inputs : Seq(Commits), outputs : Seq(Commits),
           coinbase : SUBSET Commits, fee : Nat, reward : Nat,
           cbLock : Nat, lock : Nat, kernels : Nat, sound : BOOLEAN]

UtxoEntries == [height : Nat, coinbase : BOOLEAN]

\* A ledger before any block.
Genesis == [utxos |-> <<>>, minted |-> 0, burned |-> 0, txCount |-> 0, height |-> 0]

-----------------------------------------------------------------------------
(* Emission *)

\* `initial >> halvings`; from 64 halvings on the code returns zero, which is
\* what shifting any 64-bit amount that far leaves.
TheoreticalReward(h) == InitialReward \div 2^(h \div HalvingInterval)

\* reward_at: clamped to what is left under the hard cap.
RewardAt(h, minted) ==
    IF minted >= MaxSupply THEN 0
    ELSE LET room == MaxSupply - minted
         IN  IF TheoreticalReward(h) < room THEN TheoreticalReward(h) ELSE room

\* While there is a subsidy the miner is paid that and fees are burned; after
\* it the miner is paid the fees.
CoinbaseDue(subsidy, fee) == IF subsidy > 0 THEN subsidy ELSE fee

-----------------------------------------------------------------------------
(* The unspent set *)

Spent(body) == Range(body.inputs)
Created(body) == Range(body.outputs)

IsMature(entry, h) == entry.coinbase => h >= entry.height + CoinbaseMaturity

\* Remove what the body spends, then insert what it creates.
UtxosAfter(utxos, body, h) ==
    [c \in (DOMAIN utxos \ Spent(body)) \cup Created(body) |->
        IF c \in Created(body) THEN [height |-> h, coinbase |-> c \in body.coinbase]
                               ELSE utxos[c]]

AmountOf(S) == SumFunctionOnSet(Value, S)

\* Sum of a list of commitments: one that is listed twice counts twice.
AmountOfSeq(s) == SumFunctionOnSet([i \in DOMAIN s |-> Value[s[i]]], DOMAIN s)

\* supply_equation_holds on the unspent set of a ledger.
SupplyHolds(L) ==
    /\ AmountOf(DOMAIN L.utxos) = IF L.minted >= L.burned THEN L.minted - L.burned ELSE 0
    /\ L.minted <= MaxSupply

-----------------------------------------------------------------------------
(* Blocks *)

\* The ledger once a body has been committed; subsidy is what is minted.
Commit(L, body, h, subsidy) ==
    [utxos   |-> UtxosAfter(L.utxos, body, h),
     minted  |-> L.minted + subsidy,
     burned  |-> IF subsidy > 0 THEN L.burned + body.fee ELSE L.burned,
     txCount |-> L.txCount + body.kernels,
     height  |-> h]

\* Everything apply_block checks before it changes anything.
Acceptable(L, body, h, subsidy) ==
    /\ body.sound /\ body.outputs # <<>>
    /\ body.reward = CoinbaseDue(subsidy, body.fee)
    /\ body.cbLock = h
    /\ L.minted + subsidy <= MaxSupply
    /\ body.lock <= h
    /\ IsInjective(body.outputs) /\ Created(body) \cap DOMAIN L.utxos = {}
    /\ IsInjective(body.inputs)
    /\ \A c \in Spent(body) : c \in DOMAIN L.utxos /\ IsMature(L.utxos[c], h)
    /\ AmountOfSeq(body.outputs) + body.fee = AmountOfSeq(body.inputs) + body.reward
    /\ Cardinality(body.coinbase) = 1 /\ body.coinbase \subseteq Created(body)
    /\ \A c \in body.coinbase : Value[c] = body.reward
    /\ SupplyHolds(Commit(L, body, h, subsidy))

\* Replaying a block of our own file: no proofs, no maturity, no balance.
StateOnlyAcceptable(L, body, h, subsidy) ==
    /\ body.outputs # <<>>
    /\ L.minted + subsidy <= MaxSupply
    /\ IsInjective(body.inputs)
    /\ Spent(body) \subseteq DOMAIN L.utxos

\* capture_undo, taken before the body is committed.
CaptureUndo(L, body) ==
    [spent   |-> [c \in Spent(body) |-> L.utxos[c]],
     created |-> Created(body),
     minted  |-> L.minted, burned |-> L.burned,
     txCount |-> L.txCount, height |-> L.height]

\* Mutant: what the block spent is not put back.
RewindLosesSpent(L, undo) ==
    [utxos   |-> [c \in DOMAIN L.utxos \ undo.created |-> L.utxos[c]],
     minted  |-> undo.minted, burned |-> undo.burned,
     txCount |-> undo.txCount, height |-> undo.height]

\* Mutant: the minted total is not taken back.
RewindKeepsMinted(L, undo) ==
    [utxos   |-> [c \in (DOMAIN L.utxos \ undo.created) \cup DOMAIN undo.spent |->
                     IF c \in DOMAIN undo.spent THEN undo.spent[c] ELSE L.utxos[c]],
     minted  |-> L.minted, burned |-> undo.burned,
     txCount |-> undo.txCount, height |-> undo.height]

\* rewind: drop what the block created, put back what it spent.
Rewind(L, undo) ==
    [utxos   |-> [c \in (DOMAIN L.utxos \ undo.created) \cup DOMAIN undo.spent |->
                     IF c \in DOMAIN undo.spent THEN undo.spent[c] ELSE L.utxos[c]],
     minted  |-> undo.minted, burned |-> undo.burned,
     txCount |-> undo.txCount, height |-> undo.height]

Ledgers(L) ==
    /\ DOMAIN L.utxos \subseteq Commits
    /\ \A c \in DOMAIN L.utxos : L.utxos[c] \in UtxoEntries
    /\ L.minted \in Nat /\ L.burned \in Nat /\ L.txCount \in Nat /\ L.height \in Nat
=============================================================================

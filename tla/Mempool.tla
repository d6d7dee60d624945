------------------------------ MODULE Mempool ------------------------------
(***************************************************************************)
(* The node's transaction pool, nightfall-consensus/src/lib.rs, Mempool.   *)
(*                                                                         *)
(* A transaction is its txid; what the pool looks at is given by functions *)
(* of the txid.  A transaction that first travels without its binding      *)
(* fields and later with them is two txids with one legacy txid.           *)
(*                                                                         *)
(* The pool is one struct behind the node's mutex, so every method is one  *)
(* atomic step.  Time is the wall clock in units of the caller's choice.   *)
(***************************************************************************)
EXTENDS Integers, FiniteSets

CONSTANTS
    TxIds,       \* the transactions that can be offered
    Commits,     \* output commitments
    Inputs,      \* txid -> commitments it spends
    Outputs,     \* txid -> commitments it creates
    LegacyId,    \* txid -> identity without the binding fields
    FullBinding, \* txid -> does it carry every binding field?
    BlockBodies, \* block bodies that can be connected: [inputs, outputs]
    MaxEntries,  \* Mempool::MAX_ENTRIES
    MaxAge,      \* Mempool::MAX_AGE_SECS
    MaxTime      \* bound on the clock

ASSUME PoolAssumption ==
    /\ Inputs \in [TxIds -> SUBSET Commits]
    /\ Outputs \in [TxIds -> SUBSET Commits]
    /\ LegacyId \in [TxIds -> TxIds]
    /\ FullBinding \in [TxIds -> BOOLEAN]
    /\ BlockBodies \subseteq [inputs : SUBSET Commits, outputs : SUBSET Commits]
    /\ MaxEntries \in Nat
    /\ MaxAge \in Nat
    /\ MaxTime \in Nat

\* legacy_txid hashes the input commitments: one identity, one spend.
ASSUME SpendAssumption ==
    \A t, u \in TxIds : LegacyId[t] = LegacyId[u] => Inputs[t] = Inputs[u]

VARIABLES
    txs,   \* keys of the `txs` map
    seen,  \* the `seen` map: first-seen time, Absent when there is no entry
    now    \* the wall clock handed to the methods

vars == <<txs, seen, now>>

Absent == -1

\* MaxAge + 1 is a clock at which nothing can have expired yet.
Init ==
    /\ txs = {}
    /\ seen = [t \in TxIds |-> Absent]
    /\ now = MaxAge + 1

-----------------------------------------------------------------------------
(* What each method leaves behind *)

\* `retain(|id, _| seen.get(id).map(|t| *t > cutoff).unwrap_or(true))`
Live ==
    LET cutoff == IF now >= MaxAge THEN now - MaxAge ELSE 0
    IN  {t \in txs : seen[t] # Absent => seen[t] > cutoff}

\* `seen` cut down to the transactions that are kept.
SeenOf(kept) == [t \in TxIds |-> IF t \in kept THEN seen[t] ELSE Absent]

\* Mutant: only a transaction with the very same inputs conflicts.
ConflictsWholly(t, held) == {u \in held : Inputs[u] = Inputs[t]}

\* Held transactions that spend an input t wants.
Conflicts(t, held) == {u \in held : Inputs[u] \cap Inputs[t] # {}}

\* The pool holds fewer than MAX_ENTRIES.
HasRoom(held) == Cardinality(held) < MaxEntries

\* Mutant: an upgrade restarts the clock.
FirstSeenRestarts(kept, u) == now

\* The time recorded for a newcomer that takes over the entry of u.
FirstSeen(kept, u) == IF kept[u] = Absent THEN now ELSE kept[u]

\* Mutant: any transaction with its binding fields replaces one without.
UpgradesAnySpend(t, u) == ~FullBinding[u] /\ FullBinding[t]

\* The one replacement allowed: the same spend, strictly more complete.
Upgrades(t, u) ==
    /\ ~FullBinding[u]
    /\ FullBinding[t]
    /\ LegacyId[u] = LegacyId[t]

-----------------------------------------------------------------------------
(* Methods *)

\* insert_checked: a full pool sweeps itself first, and the sweep stays even
\* when the transaction is then refused (Full, Known or Conflict).
InsertChecked(t) ==
    LET full == ~HasRoom(txs)
        held == IF full THEN Live ELSE txs
        kept == IF full THEN SeenOf(Live) ELSE seen
        room == HasRoom(held)
        conf == Conflicts(t, held)
    IN  /\ now' = now
        /\ \/ /\ ~room \/ t \in held
              /\ txs' = held
              /\ seen' = kept
           \/ /\ room /\ t \notin held /\ conf = {}
              /\ txs' = held \cup {t}
              /\ seen' = [kept EXCEPT ![t] = FirstSeen(kept, t)]
           \/ /\ room /\ t \notin held
              /\ \E u \in conf :
                    /\ conf = {u} /\ Upgrades(t, u)
                    /\ txs' = (held \ {u}) \cup {t}
                    /\ seen' = [kept EXCEPT ![u] = Absent, ![t] = FirstSeen(kept, u)]
           \/ /\ room /\ t \notin held
              /\ conf # {}
              /\ ~\E u \in conf : conf = {u} /\ Upgrades(t, u)
              /\ txs' = held
              /\ seen' = kept

\* expire: forget what no block took within MaxAge.
Expire ==
    /\ txs' = Live
    /\ seen' = SeenOf(Live)
    /\ now' = now

\* Mutant: the index is not trimmed when a block takes transactions.
RemoveIncludedKeepsSeen(body) ==
    /\ txs' = {t \in txs : /\ Inputs[t] \cap body.inputs = {}
                           /\ Outputs[t] \cap body.outputs = {}}
    /\ UNCHANGED <<seen, now>>

\* remove_included: by spent or created commitment, never by txid.
RemoveIncluded(body) ==
    LET left == {t \in txs : /\ Inputs[t] \cap body.inputs = {}
                             /\ Outputs[t] \cap body.outputs = {}}
    IN  /\ txs' = left
        /\ seen' = SeenOf(left)
        /\ now' = now

\* drop_ids: what the ledger refused (unacceptable_ids, or a template's list).
DropIds(ids) ==
    /\ txs' = txs \ ids
    /\ seen' = [t \in TxIds |-> IF t \in ids THEN Absent ELSE seen[t]]
    /\ now' = now

Tick ==
    /\ now < MaxTime
    /\ now' = now + 1
    /\ UNCHANGED <<txs, seen>>

Next ==
    \/ \E t \in TxIds : InsertChecked(t)
    \/ Expire
    \/ \E b \in BlockBodies : RemoveIncluded(b)
    \/ \E ids \in SUBSET TxIds : DropIds(ids)
    \/ Tick

Spec == Init /\ [][Next]_vars

-----------------------------------------------------------------------------
(* Properties *)

\* Types of the two maps and the clock; the index stays total.
TypeOK ==
    /\ txs \subseteq TxIds
    /\ seen \in [TxIds -> Nat \cup {Absent}]
    /\ now \in Nat

\* No two held transactions spend the same commitment, whatever mix of
\* inserts, binding upgrades, sweeps, blocks and purges came before: the
\* pool never offers the block builder a double spend.
NoDoubleSpendHeld ==
    \A t, u \in txs : t # u => Inputs[t] \cap Inputs[u] = {}

\* The timestamp index names exactly the held transactions: it cannot outgrow
\* the map whose cap it shares, and no held transaction is exempt from expiry.
SeenIndexesPool == \A t \in TxIds : t \in txs <=> seen[t] # Absent

\* First seen wins: when a transaction enters, a held one leaves only because
\* it has expired, or because the newcomer is the same spend with its binding
\* fields.
FirstSeenWins ==
    [][\A t \in txs' \ txs : \A u \in txs \ txs' :
          \/ seen[u] + MaxAge <= now
          \/ LegacyId[t] = LegacyId[u] /\ FullBinding[t] /\ ~FullBinding[u]]_vars

\* The clock of a spend restarts only after it has expired: neither offering
\* it again nor upgrading it keeps it in the pool beyond MAX_AGE_SECS.  A
\* transaction that spends nothing conflicts with nothing and has no clock but
\* its own.
AgeOfSpendKept ==
    [][\A t \in txs', u \in txs :
          LegacyId[t] = LegacyId[u] /\ Inputs[t] # {} =>
              seen'[t] = seen[u] \/ seen[u] + MaxAge <= now]_vars
=============================================================================

------------------------------- MODULE Relay --------------------------------
(***************************************************************************)
(* How a transaction leaves the node: submit_tx, the Tx message, and the    *)
(* stem and fluff of nightfall-node/src/runtime.rs over the live sessions   *)
(* of session.rs, on top of the pool.                                      *)
(*                                                                         *)
(* A stem goes to one session and leaves an embargo behind; a thread        *)
(* fluffs, to every session, what the embargo has run out for.  The reader  *)
(* of a session lets go of the node's lock between taking a transaction     *)
(* into the pool and passing it on, the fluffing thread between picking     *)
(* the due ones and sending each, and meanwhile blocks, other readers and   *)
(* the wallet change the pool.                                             *)
(***************************************************************************)
EXTENDS Mempool

CONSTANTS
    Sessions,  \* sessions there may be
    Outbound,  \* those that we opened
    Embargos,  \* how long an embargo may last
    None

ASSUME RelayAssumption ==
    /\ Outbound \subseteq Sessions
    /\ Embargos \subseteq Nat /\ Embargos # {}
    /\ None \notin Sessions

VARIABLES
    live,    \* sessions in the pool
    embargo, \* stem_embargo: when it runs out, Absent when there is no entry
    taken,   \* <<t, s>>: the reader of s has pooled t and not yet passed it on
    due,     \* copies of the transactions the fluffing thread is about to send
    fluffed, \* history: sent to every session since it came into the pool
    alone    \* history: there was no session but the one it came from

relayVars == <<live, embargo, taken, due, fluffed, alone>>
allVars == <<vars, relayVars>>

RelayInit ==
    /\ Init
    /\ live \in SUBSET Sessions
    /\ embargo = [t \in TxIds |-> Absent]
    /\ taken = {} /\ due = {} /\ fluffed = {} /\ alone = {}

-----------------------------------------------------------------------------
(* Passing a transaction on *)

\* insert_checked answers Added.
Added(t) ==
    LET held == IF HasRoom(txs) THEN txs ELSE Live
        conf == Conflicts(t, held)
    IN  /\ HasRoom(held) /\ t \notin held
        /\ conf = {} \/ \E u \in conf : conf = {u} /\ Upgrades(t, u)

\* pick_stem_peer prefers a session we opened, and never the one t came from.
StemPeers(from) ==
    LET others == live \ {from}
    IN  IF others \cap Outbound # {} THEN others \cap Outbound ELSE others

\* fluff_tx: it is handed to every session but the one it came from.
Sent(t, from) ==
    LET heard == live \ {from} # {}
    IN  /\ fluffed' = (IF heard THEN fluffed \cup {t} ELSE fluffed \ {t})
        /\ alone' = (IF heard THEN alone \ {t} ELSE alone \cup {t})

Unsent(t) == fluffed' = fluffed \ {t} /\ alone' = alone \ {t}

\* Mutant: the stem leaves no embargo.
StemsBlindly(t, from) == StemPeers(from) # {} /\ Unsent(t) /\ UNCHANGED embargo

\* stem_tx: whether the one session it goes to passes it on, nobody knows.  (An
\* embargo ends at the latest where the model's clock does.)
Stems(t, from) ==
    /\ StemPeers(from) # {}
    /\ \E span \in Embargos :
          embargo' = [embargo EXCEPT ![t] = IF now + span <= MaxTime THEN now + span ELSE MaxTime]
    /\ Unsent(t)

\* fluff_tx, or with no session at all fallback_stem_tx, which leaves the embargo.
Fluffs(t, from) ==
    /\ embargo' = (IF live # {} THEN [embargo EXCEPT ![t] = Absent] ELSE embargo)
    /\ Sent(t, from)

\* propagate_from_inner: our own transaction always stems if it can.
Propagate(t, from, origin) ==
    \/ Stems(t, from)
    \/ (~origin \/ StemPeers(from) = {}) /\ Fluffs(t, from)

-----------------------------------------------------------------------------
(* Actions *)

\* submit_tx: one lock for the pool and the relay.
SubmitTx(t) ==
    /\ InsertChecked(t)
    /\ IF Added(t) THEN Propagate(t, None, TRUE) ELSE UNCHANGED <<embargo, fluffed, alone>>
    /\ UNCHANGED <<live, taken, due>>

\* The Tx message: newly pooled transactions are passed on under a later lock.
ReceiveTx(t, s) ==
    /\ InsertChecked(t)
    /\ IF Added(t) THEN taken' = taken \cup {<<t, s>>} /\ Unsent(t) ELSE UNCHANGED <<taken, fluffed, alone>>
    /\ UNCHANGED <<live, embargo, due>>

PassOn(t, s) ==
    /\ <<t, s>> \in taken
    /\ taken' = taken \ {<<t, s>>}
    /\ Propagate(t, s, FALSE)
    /\ UNCHANGED <<vars, live, due>>

Overdue == {t \in TxIds : embargo[t] # Absent /\ embargo[t] <= now}

\* Mutant: the test for what the pool holds is inverted.
PickedGone == Overdue \ txs

\* What the pool still holds of it is copied.
Picked == Overdue \cap txs

\* spawn_dandelion_fluff: the entries go and the copies are made under one lock...
TakeDue ==
    /\ due = {} /\ Overdue # {}
    /\ embargo' = [t \in TxIds |-> IF t \in Overdue THEN Absent ELSE embargo[t]]
    /\ due' = Picked
    /\ UNCHANGED <<vars, live, taken, fluffed, alone>>

\* ... and each is sent under one of its own, to whoever is there.
FluffDue(t) ==
    /\ t \in due
    /\ due' = due \ {t}
    /\ Sent(t, None)
    /\ UNCHANGED <<vars, live, embargo, taken>>

\* Sessions come and go (SessionPool).
SessionsChange ==
    /\ live' \in SUBSET Sessions
    /\ UNCHANGED <<vars, embargo, taken, due, fluffed, alone>>

\* A block is connected, or the ledger has refused transactions.
PoolShrinks ==
    /\ Expire \/ (\E b \in BlockBodies : RemoveIncluded(b)) \/ (\E ids \in SUBSET TxIds : DropIds(ids))
    /\ UNCHANGED relayVars

\* The time passes.
TimePasses == Tick /\ UNCHANGED relayVars

RelayNext ==
    \/ \E t \in TxIds : SubmitTx(t)
    \/ \E t \in TxIds, s \in Sessions : ReceiveTx(t, s) \/ PassOn(t, s)
    \/ TakeDue
    \/ \E t \in TxIds : FluffDue(t)
    \/ SessionsChange
    \/ PoolShrinks
    \/ TimePasses

RelaySpec == RelayInit /\ [][RelayNext]_allVars

-----------------------------------------------------------------------------
(* Properties *)

\* No transaction the pool holds is forgotten by the relay: it is about to be
\* passed on, or an embargo stands behind its stem, or it was sent to all that
\* were there.  A stem that dies with its peer is made good.
StemIsBackedUp ==
    \A t \in txs : \/ embargo[t] # Absent \/ t \in due \/ t \in fluffed \/ t \in alone
                  \/ \E s \in Sessions : <<t, s>> \in taken

\* A stem is followed by a fluff to at least one session, unless there was none to
\* send it to or the pool has given the transaction up.
StemIsFluffed ==
    \A t \in TxIds :
        (t \in txs /\ embargo[t] # Absent) ~> (t \notin txs \/ t \in fluffed \/ t \in alone)
=============================================================================

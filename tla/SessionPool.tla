----------------------------- MODULE SessionPool -----------------------------
(***************************************************************************)
(* The live sessions of a node: nightfall-node/src/session.rs, with the     *)
(* threads of runtime.rs that fill and empty the pool.                      *)
(*                                                                         *)
(* One thread keeps a session to each address the node dials, and one       *)
(* serves each connection that comes in.  Between the steps of a thread,    *)
(* each under one lock, the others run.  A node with every seat taken asks  *)
(* a peer that has the chain to leave, so that one still catching up gets   *)
(* in.                                                                      *)
(*                                                                         *)
(* A connection that comes in is known by the address and port it comes     *)
(* from, which no two have; what it advertises as the address it listens on *)
(* may be one the node has dialled, its own or that of another node behind  *)
(* the same router.                                                        *)
(***************************************************************************)
EXTENDS Integers, FiniteSets

CONSTANTS
    Addrs,       \* addresses the node dials
    Inbounds,    \* connections that come in, each once
    Listens,     \* the address each advertises, Nobody if none can be dialled
    MaxPeers,    \* MAX_PEERS
    Burst,       \* IBD_ACCEPT_BURST
    Behind,      \* IBD_BEHIND
    MaxHeight,   \* bound: heights of the node and of its peers
    Nobody

Conns == Addrs \cup Inbounds

ASSUME SessionAssumption ==
    /\ Addrs \cap Inbounds = {} /\ Nobody \notin Conns
    /\ Listens \in [Inbounds -> Addrs \cup {Nobody}]
    /\ MaxPeers \in Nat /\ Burst \in Nat /\ Behind \in Nat /\ MaxHeight \in Nat

VARIABLES
    stage,    \* how far the thread of each connection is
    pool,     \* the socket in the pool under each key
    height,   \* session_height: what is recorded under each key
    said,     \* last_peer_height: what each peer last said it had
    victim,   \* the key a newcomer's thread has chosen to make room
    tip,      \* our own height
    forgotten \* history: sessions taken out of the pool as incompatible

sessionVars == <<stage, pool, height, said, victim, tip, forgotten>>

Unrecorded == -1

OutboundKey(a) == <<"out", a>>

\* Mutant: the key of a connection is the address it advertises.
KeyByListenAddress(i) == IF Listens[i] # Nobody THEN <<"out", Listens[i]>> ELSE <<"in", i>>

InboundKey(i) == <<"in", i>>

Key(c) == IF c \in Addrs THEN OutboundKey(c) ELSE InboundKey(c)

Keys == {"out"} \X Addrs \cup {"in"} \X Inbounds

Pooled == {pool[k] : k \in Keys} \ {Nobody}

\* The threads that read from their socket.
Reading == {c \in Conns : stage[c] \in {"open", "cut"}}

SessionInit ==
    /\ stage = [c \in Conns |-> "idle"]
    /\ pool = [k \in Keys |-> Nobody]
    /\ height = [k \in Keys |-> Unrecorded]
    /\ said = [c \in Conns |-> Unrecorded]
    /\ victim = [i \in Inbounds |-> Nobody]
    /\ tip \in 0..MaxHeight
    /\ forgotten = {}

-----------------------------------------------------------------------------

Advances(c, to) == stage' = [stage EXCEPT ![c] = to]

\* Mutant: the height of a peer is left to its first status message.
RecordsLate(c, h) == said' = [said EXCEPT ![c] = h] /\ UNCHANGED height

Records(c, h) ==
    /\ said' = [said EXCEPT ![c] = h]
    /\ height' = [height EXCEPT ![Key(c)] = h]

\* open_outbound_session: the supervisor starts no second thread for an address.
Dial(a, h) ==
    /\ stage[a] = "idle"
    /\ Advances(a, "open")
    /\ Records(a, h)
    /\ pool' = [pool EXCEPT ![OutboundKey(a)] = a]
    /\ UNCHANGED <<victim, tip, forgotten>>

\* p2p_listen_loop counts the seats taken, not those about to be.
Accept(i) ==
    /\ stage[i] = "idle"
    /\ Cardinality(Pooled) < MaxPeers + Burst
    /\ Advances(i, "accepted")
    /\ UNCHANGED <<pool, height, said, victim, tip, forgotten>>

\* Another genesis or wire version: the advertised address is forgotten, with the
\* session to it.
Refuse(i) ==
    /\ stage[i] = "accepted"
    /\ Advances(i, "gone")
    /\ IF Listens[i] = Nobody
       THEN UNCHANGED <<pool, forgotten>>
       ELSE /\ forgotten' = forgotten \cup ({pool[OutboundKey(Listens[i])]} \ {Nobody})
            /\ pool' = [pool EXCEPT ![OutboundKey(Listens[i])] = Nobody]
    /\ UNCHANGED <<height, said, victim, tip>>

\* handle_peer, the Hello.
Hello(i, h) ==
    /\ stage[i] = "accepted"
    /\ Advances(i, "greeted")
    /\ Records(i, h)
    /\ UNCHANGED <<pool, victim, tip, forgotten>>

\* The answer cannot be written, or the node only introduces: the recorded height
\* stays.
HelloOnly(i) ==
    /\ stage[i] = "greeted"
    /\ Advances(i, "gone")
    /\ said' = [said EXCEPT ![i] = Unrecorded]
    /\ UNCHANGED <<pool, height, victim, tip, forgotten>>

\* pick_eviction_victim: a session that came in, of a peer that has the chain or
\* has no height on record, the highest first.
Synced(i) ==
    {k \in {"in"} \X Inbounds : /\ pool[k] # Nobody /\ k # InboundKey(i)
                                /\ height[k] = Unrecorded \/ height[k] + Behind >= tip}

Rank(k) == IF height[k] = Unrecorded THEN MaxHeight + 1 ELSE height[k]

Victims(i) == {k \in Synced(i) : \A l \in Synced(i) : Rank(k) >= Rank(l)}

\* evict_synced_inbound: the choice...
PickVictim(i) ==
    /\ stage[i] = "greeted"
    /\ Cardinality(Pooled) >= MaxPeers
    /\ Advances(i, "picked")
    /\ IF Victims(i) = {} THEN UNCHANGED victim
       ELSE \E k \in Victims(i) : victim' = [victim EXCEPT ![i] = k]
    /\ UNCHANGED <<pool, height, said, tip, forgotten>>

\* ... and the disconnection, of what is under that key by then.
Disconnect(i) ==
    /\ stage[i] = "picked"
    /\ LET cut == IF victim[i] = Nobody THEN Nobody ELSE pool[victim[i]]
       IN  stage' = [c \in Conns |-> IF c = i THEN "ready"
                                     ELSE IF c = cut THEN "cut" ELSE stage[c]]
    /\ victim' = [victim EXCEPT ![i] = Nobody]
    /\ UNCHANGED <<pool, height, said, tip, forgotten>>

\* The newcomer's session enters the pool, evicted seat or not.
Seat(i) ==
    /\ \/ stage[i] = "ready"
       \/ stage[i] = "greeted" /\ Cardinality(Pooled) < MaxPeers
    /\ Advances(i, "open")
    /\ pool' = [pool EXCEPT ![InboundKey(i)] = i]
    /\ UNCHANGED <<height, said, victim, tip, forgotten>>

\* The Status message.
Status(c, h) ==
    /\ c \in Reading
    /\ Records(c, h)
    /\ UNCHANGED <<stage, pool, victim, tip, forgotten>>

\* peer_io_loop returns: the socket is closed or broken, cut, or its peer introduced.
Ends(c) ==
    /\ c \in Reading
    /\ Advances(c, IF c \in Addrs THEN "idle" ELSE "gone")
    /\ pool' = [pool EXCEPT ![Key(c)] = Nobody]
    /\ height' = [height EXCEPT ![Key(c)] = Unrecorded]
    /\ said' = [said EXCEPT ![c] = Unrecorded]
    /\ forgotten' = forgotten \ {c}
    /\ UNCHANGED <<victim, tip>>

TipGrows ==
    /\ tip < MaxHeight /\ tip' = tip + 1
    /\ UNCHANGED <<stage, pool, height, said, victim, forgotten>>

SessionNext ==
    \/ \E a \in Addrs, h \in 0..MaxHeight : Dial(a, h)
    \/ \E i \in Inbounds : \/ Accept(i) \/ Refuse(i) \/ HelloOnly(i)
                           \/ PickVictim(i) \/ Disconnect(i) \/ Seat(i)
    \/ \E i \in Inbounds, h \in 0..MaxHeight : Hello(i, h)
    \/ \E c \in Conns, h \in 0..MaxHeight : Status(c, h)
    \/ \E c \in Conns : Ends(c)
    \/ TipGrows

SessionSpec == SessionInit /\ [][SessionNext]_sessionVars

-----------------------------------------------------------------------------
(* Properties *)

\* What is announced reaches every session: the socket a thread reads from is the
\* one the pool writes to, however sessions of one peer begin and end around each
\* other.  Only an address forgotten as incompatible leaves its reader behind.
EveryReaderIsPooled == \A c \in Reading : pool[Key(c)] = c \/ c \in forgotten

\* Who makes room has said it has the chain: no newcomer still catching up is asked
\* to leave for another.
NewcomersStay ==
    [][\A i \in Inbounds :
          victim[i] = Nobody /\ victim'[i] # Nobody => said[pool[victim'[i]]] + Behind >= tip]_sessionVars
=============================================================================

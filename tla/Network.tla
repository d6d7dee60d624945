------------------------------ MODULE Network -------------------------------
(***************************************************************************)
(* The relay of transactions over the sessions that really are there: the   *)
(* sessions of SessionPool are those Relay sends to, and a transaction      *)
(* comes in from a thread that reads.                                      *)
(***************************************************************************)
EXTENDS Relay, SessionPool

ASSUME NetworkAssumption == Sessions = Conns /\ Outbound = Addrs

netVars == <<allVars, sessionVars>>

NetInit == RelayInit /\ SessionInit /\ live = {}

\* What a reader has pooled it passes on before it reads, or ends, again.
ReaderIsFree(c) == \A t \in TxIds : <<t, c>> \notin taken

FromWallet(t) == SubmitTx(t) /\ UNCHANGED sessionVars
FromPeer(t, c) == c \in Reading /\ ReaderIsFree(c) /\ ReceiveTx(t, c) /\ UNCHANGED sessionVars
Passes(t, c) == PassOn(t, c) /\ UNCHANGED sessionVars
TakesDue == TakeDue /\ UNCHANGED sessionVars
Fluffing(t) == FluffDue(t) /\ UNCHANGED sessionVars
Shrinks == PoolShrinks /\ UNCHANGED sessionVars
ClockTicks == TimePasses /\ UNCHANGED sessionVars

SessionMoves ==
    /\ SessionNext
    /\ \A c \in Reading : ~ReaderIsFree(c) => c \in Reading' /\ said'[c] = said[c]
    /\ live' = Pooled'
    /\ UNCHANGED <<vars, embargo, taken, due, fluffed, alone>>

NetNext ==
    \/ \E t \in TxIds : FromWallet(t) \/ Fluffing(t) \/ \E c \in Conns : FromPeer(t, c) \/ Passes(t, c)
    \/ TakesDue \/ Shrinks \/ ClockTicks \/ SessionMoves

\* The fluffing thread comes round every two seconds, a reader gets its lock, and
\* the clock runs.
NetSpec ==
    /\ NetInit /\ [][NetNext]_netVars
    /\ WF_netVars(TakesDue) /\ WF_netVars(ClockTicks)
    /\ \A t \in TxIds : WF_netVars(Fluffing(t)) /\ \A c \in Conns : WF_netVars(Passes(t, c))
=============================================================================

--------------------------- MODULE CommonAncestor ---------------------------
(***************************************************************************)
(* How a node finds where its chain and a peer's part, and what it does    *)
(* with the answer: common_ancestor and the fork branch of sync_from_peer, *)
(* nightfall-node/src/runtime.rs.                                          *)
(*                                                                         *)
(* Only heights matter: the two chains agree up to `fork` and nowhere      *)
(* above it.  The search takes the node's lock afresh for every look at    *)
(* our chain, so our chain may grow, join the peer's or leave for a third *)
(* one between probes.  A request may fail at any time.                    *)
(***************************************************************************)
EXTENDS Integers

CONSTANTS
    MaxReorgDepth,  \* MAX_REORG_DEPTH
    MaxHeight       \* bound on the heights

ASSUME SearchAssumption == MaxReorgDepth \in Nat \ {0} /\ MaxHeight \in Nat

VARIABLES
    ourTip,    \* our tip height
    peerTip,   \* the tip the peer announced
    fork,      \* highest height at which both chains hold the same block
    failed,    \* history: has a request failed?
    ours,      \* history: our chain stood "still", went "on", or "left" a
               \* branch it shared with the peer for a third one
    pc,        \* where the search is
    ceiling,   \* the lower of the tips when the search began
    step,      \* distance of the next probe below the ceiling
    lo, hi,    \* bounds of the binary search; lo is the answer in the end
    found      \* did a probe agree?

vars == <<ourTip, peerTip, fork, failed, ours, pc, ceiling, step, lo, hi, found>>
chains == <<ourTip, peerTip, fork, ours>>

Lower(a, b) == IF a < b THEN a ELSE b
Minus(a, b) == IF a >= b THEN a - b ELSE 0   \* saturating_sub

\* our hash at h is the hash of the block the peer sent for h
Agree(h) == h <= fork /\ h <= ourTip /\ h <= peerTip

\* The pull path: the peer is not behind us and its tip is not ours.
Init ==
    /\ ourTip \in 0..MaxHeight /\ peerTip \in ourTip..MaxHeight
    /\ fork \in 0..ourTip /\ fork < peerTip
    /\ failed = FALSE /\ ours = "still" /\ pc = "start" /\ found = FALSE
    /\ ceiling = 0 /\ step = 1 /\ lo = 0 /\ hi = 0

-----------------------------------------------------------------------------
(* common_ancestor *)

\* Do we hold the peer's tip already?
AskTip ==
    /\ pc = "start"
    /\ \/ Agree(peerTip) /\ lo' = peerTip /\ found' = TRUE /\ pc' = "decide"
       \/ ~Agree(peerTip) /\ pc' = "tips" /\ UNCHANGED <<lo, found>>
    /\ UNCHANGED <<chains, failed, ceiling, step, hi>>

TakeCeiling ==
    /\ pc = "tips"
    /\ ceiling' = Lower(ourTip, peerTip)
    /\ pc' = "ceiling"
    /\ UNCHANGED <<chains, failed, step, lo, hi, found>>

\* The block at the ceiling; a failed request here goes on to the probes.
AskCeiling(ok) ==
    /\ pc = "ceiling"
    /\ failed' = (failed \/ ~ok)
    /\ \/ ok /\ Agree(ceiling) /\ lo' = ceiling /\ found' = TRUE /\ pc' = "decide"
       \/ ~(ok /\ Agree(ceiling)) /\ pc' = "probe" /\ UNCHANGED <<lo, found>>
    /\ UNCHANGED <<chains, ceiling, step, hi>>

\* No probe agreed: one below the deepest fork that may be resolved.
GiveUp == lo' = Minus(ceiling, MaxReorgDepth + 1) /\ pc' = "decide"

\* Mutant: the walk stops a probe early.
MayProbeOneLess == 2 * step < MaxReorgDepth /\ step <= ceiling

\* Is there a further probe?
MayProbe == step <= MaxReorgDepth /\ step <= ceiling

\* One step of the doubling walk.
Probe(ok) ==
    /\ pc = "probe"
    /\ failed' = (failed \/ (MayProbe /\ ~ok))
    /\ \/ /\ MayProbe /\ ok /\ Agree(ceiling - step)
          /\ lo' = ceiling - step /\ hi' = ceiling
          /\ found' = TRUE /\ pc' = "search" /\ step' = step
       \/ /\ MayProbe /\ ok /\ ~Agree(ceiling - step)
          /\ step' = step * 2
          /\ UNCHANGED <<lo, hi, found, pc>>
       \/ ~(MayProbe /\ ok) /\ GiveUp /\ UNCHANGED <<hi, found, step>>
    /\ UNCHANGED <<chains, ceiling>>

\* Mutant: the half that was ruled out is kept.
NarrowedUp(mid) == IF Agree(mid) THEN <<mid, hi>> ELSE <<mid - 1, hi>>

\* Mutant: the upper bound never drops below the middle.
NarrowedNever(mid) == IF Agree(mid) THEN <<mid, hi>> ELSE <<lo, hi>>

\* The interval after looking at its upper middle.
Narrowed(mid) == IF Agree(mid) THEN <<mid, hi>> ELSE <<lo, mid - 1>>

BinarySearch(ok) ==
    LET mid == lo + (hi - lo + 1) \div 2
    IN  /\ pc = "search"
        /\ failed' = (failed \/ (lo < hi /\ ~ok))
        /\ \/ lo < hi /\ ok /\ lo' = Narrowed(mid)[1] /\ hi' = Narrowed(mid)[2] /\ pc' = pc
           \/ ~(lo < hi /\ ok) /\ pc' = "decide" /\ UNCHANGED <<lo, hi>>
        /\ UNCHANGED <<chains, ceiling, step, found>>

-----------------------------------------------------------------------------
(* sync_from_peer with the answer *)

\* Shallow enough, and a height we hold.
Resolvable(ancestor) == ancestor <= ourTip /\ ourTip - ancestor <= MaxReorgDepth

Decide ==
    /\ pc = "decide"
    /\ pc' = IF Resolvable(lo) THEN "trial" ELSE "stalled"
    /\ UNCHANGED <<chains, failed, ceiling, step, lo, hi, found>>

Searching == pc \notin {"trial", "stalled"}

\* Another thread extends our chain, off the peer's branch, while the lock is
\* free.
OurChainGrows ==
    /\ Searching /\ ourTip < MaxHeight
    /\ ourTip' = ourTip + 1
    /\ ours' = IF ours = "still" THEN "on" ELSE ours
    /\ UNCHANGED <<peerTip, fork, failed, pc, ceiling, step, lo, hi, found>>

\* Another thread extends or moves our chain along the peer's branch.
OurChainJoins ==
    /\ Searching
    /\ \E h \in (fork + 1)..peerTip : ourTip' = h /\ fork' = h
    /\ ours' = IF ours = "still" THEN "on" ELSE ours
    /\ UNCHANGED <<peerTip, failed, pc, ceiling, step, lo, hi, found>>

\* Another thread reorganises our chain to a third branch, which parts from
\* the peer's lower down.  A heavier branch may be the shorter one.
OurChainLeaves ==
    /\ Searching
    /\ \E f \in 0..(fork - 1) :
        /\ fork' = f
        /\ \E h \in (f + 1)..MaxHeight : ourTip' = h
    /\ ours' = "left"
    /\ UNCHANGED <<peerTip, failed, pc, ceiling, step, lo, hi, found>>

Next ==
    \/ AskTip \/ TakeCeiling
    \/ \E ok \in BOOLEAN : AskCeiling(ok) \/ Probe(ok) \/ BinarySearch(ok)
    \/ Decide
    \/ OurChainGrows \/ OurChainJoins \/ OurChainLeaves

Spec == Init /\ [][Next]_vars /\ WF_vars(AskTip \/ TakeCeiling \/ Decide)
        /\ WF_vars(AskCeiling(TRUE) \/ Probe(TRUE) \/ BinarySearch(TRUE))

-----------------------------------------------------------------------------
(* Properties *)

\* A height the search found is one at which both chains agree, however our
\* chain grew or joined the peer's meanwhile and wherever a request failed; so
\* the blocks fetched above it link to ours.  Only our leaving for a third
\* branch can make it stale.
FoundIsCommon == found /\ ours # "left" => Agree(lo)

\* The distances the walk may look at, 1, 2, 4 and so on: the least set with 1 that is
\* closed under doubling.
Doublings ==
    {n \in 1..MaxReorgDepth : \A S \in SUBSET (1..MaxReorgDepth) :
        1 \in S /\ (\A x \in S : 2 * x <= MaxReorgDepth => 2 * x \in S) => n \in S}

\* When nothing failed and our chain stood still, a fork no deeper than the
\* largest power of two within MAX_REORG_DEPTH leads to a trial from a common
\* block, and to the very last one unless the walk ran into the genesis block
\* first: such a fork is rewound exactly as far as needed.
ExactWithinReach ==
    pc \in {"trial", "stalled"} /\ ~failed /\ ours = "still"
        /\ (\E n \in Doublings : ceiling - fork <= n) =>
            /\ pc = "trial" /\ Agree(lo)
            /\ 2 * (ceiling - fork) <= ceiling => lo = Lower(fork, ceiling)

\* The search ends, with a trial or a stall, in a bounded number of requests.
SearchEnds == <>(pc \in {"trial", "stalled"})
=============================================================================

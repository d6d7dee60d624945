------------------------ MODULE CommonAncestorProofs ------------------------
(***************************************************************************)
(* The common-ancestor search never reports a height at which the chains   *)
(* differ, and finds every fork within its reach at its exact height, for  *)
(* every MAX_REORG_DEPTH and all heights.                                  *)
(***************************************************************************)
EXTENDS CommonAncestor, TLAPS

USE SearchAssumption  \* the depth and the heights are numbers

\* What every step keeps: the heights are numbers, the binary search only
\* starts from a probe that agreed, no probe is tried once one has, and a height
\* found stays common unless we leave for a third branch.
Heights ==
    /\ ourTip \in Nat /\ peerTip \in Nat /\ fork \in Nat
    /\ ceiling \in Nat /\ lo \in Nat /\ hi \in Nat
    /\ step \in Nat \ {0}

SearchFound == pc = "search" => found

NotYetFound == pc \in {"start", "tips", "ceiling", "probe"} => ~found

IInv == Heights /\ SearchFound /\ NotYetFound /\ (found /\ ours # "left" => Agree(lo))

\* The middle the binary search looks at lies above the lower bound, so that
\* both halves it may keep start at a height.
LEMMA MiddleIsAbove ==
    ASSUME NEW a \in Nat, NEW b \in Nat, a < b
    PROVE  /\ a + (b - a + 1) \div 2 \in Nat
           /\ a + (b - a + 1) \div 2 >= 1
  <1>1. (b - a + 1) \div 2 \in Nat /\ (b - a + 1) \div 2 >= 1
    OBVIOUS
  <1> QED
    BY <1>1

\* The search starts with nothing found.
LEMMA InitCommon == Init => IInv
  BY DEF Init, IInv, Heights, SearchFound, NotYetFound, Agree

\* A move of our chain that is not a reorganisation to a third branch only
\* raises the height up to which the chains agree.
LEMMA MovesKeepCommon ==
    ASSUME IInv, OurChainGrows \/ OurChainJoins \/ OurChainLeaves
    PROVE  IInv'
  <1>1. CASE OurChainGrows
    BY <1>1 DEF OurChainGrows, Searching, IInv, Heights, SearchFound, NotYetFound, Agree
  <1>2. CASE OurChainJoins
    BY <1>2 DEF OurChainJoins, Searching, IInv, Heights, SearchFound, NotYetFound, Agree
  <1>3. CASE OurChainLeaves
    BY <1>3 DEF OurChainLeaves, Searching, IInv, Heights, SearchFound, NotYetFound, Agree
  <1> QED
    BY <1>1, <1>2, <1>3

\* One look of the binary search: the middle becomes the lower bound only
\* when our block there is the peer's.
LEMMA BinarySearchKeepsCommon ==
    ASSUME IInv, NEW ok \in BOOLEAN, BinarySearch(ok)
    PROVE  IInv'
  <1> DEFINE mid == lo + (hi - lo + 1) \div 2
  <1>1. CASE lo < hi /\ ok /\ lo' = Narrowed(mid)[1] /\ hi' = Narrowed(mid)[2] /\ pc' = pc
    <2>1. mid \in Nat /\ mid >= 1
      BY <1>1, MiddleIsAbove DEF IInv, Heights
    <2>2. UNCHANGED <<ourTip, peerTip, fork, ours, ceiling, step, found>>
      BY DEF BinarySearch, chains
    <2> HIDE DEF mid
    <2>3. CASE Agree(mid)
      <3>1. lo' = mid /\ hi' = hi
        BY <1>1, <2>3 DEF Narrowed
      <3> QED
        BY <1>1, <2>1, <2>2, <2>3, <3>1 DEF IInv, Heights, SearchFound, NotYetFound, Agree
    <2>4. CASE ~Agree(mid)
      <3>1. lo' = lo /\ hi' = mid - 1
        BY <1>1, <2>4 DEF Narrowed
      <3> QED
        BY <1>1, <2>1, <2>2, <3>1 DEF IInv, Heights, SearchFound, NotYetFound, Agree
    <2> QED
      BY <2>3, <2>4
  <1>2. CASE ~(lo < hi /\ ok) /\ pc' = "decide" /\ UNCHANGED <<lo, hi>>
    BY <1>2 DEF BinarySearch, chains, IInv, Heights, SearchFound, NotYetFound, Agree
  <1> QED
    BY <1>1, <1>2 DEF BinarySearch

\* The walk in doubling steps reports a probe only when it agrees, and what it
\* falls back to otherwise is not reported as found.
LEMMA ProbeKeepsCommon ==
    ASSUME IInv, NEW ok \in BOOLEAN, Probe(ok)
    PROVE  IInv'
  <1>1. UNCHANGED <<ourTip, peerTip, fork, ours, ceiling>> /\ pc = "probe"
    BY DEF Probe, chains
  <1>2. CASE MayProbe /\ ok /\ Agree(ceiling - step)
             /\ lo' = ceiling - step /\ hi' = ceiling
             /\ found' = TRUE /\ pc' = "search" /\ step' = step
    BY <1>1, <1>2 DEF MayProbe, IInv, Heights, SearchFound, NotYetFound, Agree
  <1>3. CASE MayProbe /\ ok /\ step' = step * 2 /\ UNCHANGED <<lo, hi, found, pc>>
    BY <1>1, <1>3 DEF IInv, Heights, SearchFound, NotYetFound, Agree
  <1>4. CASE GiveUp /\ UNCHANGED <<hi, found, step>>
    BY <1>1, <1>4 DEF GiveUp, Minus, IInv, Heights, SearchFound, NotYetFound, Agree
  <1> QED
    BY <1>2, <1>3, <1>4 DEF Probe

\* Every other step of the search leaves the heights alone, or reports one it
\* has just seen to be common.
LEMMA OtherStepsKeepCommon ==
    ASSUME IInv, NEW ok \in BOOLEAN, AskTip \/ TakeCeiling \/ AskCeiling(ok) \/ Decide
    PROVE  IInv'
  <1>1. CASE AskTip
    BY <1>1 DEF AskTip, chains, IInv, Heights, SearchFound, NotYetFound, Agree
  <1>2. CASE TakeCeiling
    BY <1>2 DEF TakeCeiling, Lower, chains, IInv, Heights, SearchFound, NotYetFound, Agree
  <1>3. CASE AskCeiling(ok)
    BY <1>3 DEF AskCeiling, chains, IInv, Heights, SearchFound, NotYetFound, Agree
  <1>4. CASE Decide
    BY <1>4 DEF Decide, chains, IInv, Heights, SearchFound, NotYetFound, Agree
  <1> QED
    BY <1>1, <1>2, <1>3, <1>4

\* Every step of the search, and every move of our chain meanwhile, keeps the
\* inductive invariant.
LEMMA StepKeepsCommon == IInv /\ [Next]_vars => IInv'
  <1> SUFFICES ASSUME IInv, [Next]_vars PROVE IInv'
    OBVIOUS
  <1>1. CASE Next
    <2>1. CASE \E ok \in BOOLEAN : Probe(ok)
      BY <2>1, ProbeKeepsCommon
    <2>2. CASE \E ok \in BOOLEAN : BinarySearch(ok)
      BY <2>2, BinarySearchKeepsCommon
    <2>3. CASE \E ok \in BOOLEAN : AskTip \/ TakeCeiling \/ AskCeiling(ok) \/ Decide
      BY <2>3, OtherStepsKeepCommon
    <2>4. CASE OurChainGrows \/ OurChainJoins \/ OurChainLeaves
      BY <2>4, MovesKeepCommon
    <2> QED
      BY <1>1, <2>1, <2>2, <2>3, <2>4 DEF Next
  <1>2. CASE UNCHANGED vars
    BY <1>2 DEF vars, IInv, Heights, SearchFound, NotYetFound, Agree
  <1> QED
    BY <1>1, <1>2

\* common_ancestor's answer, when it says it found one, is a height at which we
\* and the peer hold the same block, whatever MAX_REORG_DEPTH is, however our
\* chain grew or joined the peer's while the lock was free, and wherever a
\* request failed.
THEOREM FoundHeightIsCommon == Spec => []FoundIsCommon
  <1>1. IInv => FoundIsCommon
    BY DEF IInv, FoundIsCommon
  <1> QED
    BY <1>1, InitCommon, StepKeepsCommon, PTL DEF Spec

-----------------------------------------------------------------------------
(* How far the walk reaches *)

\* No distance of the walk lies between one probe and the next.
Gap(s) == \A n \in Doublings : 2 * n <= s \/ n >= s

\* step * 2: the next probe leaves no distance out either.
LEMMA GapDoubles ==
    ASSUME NEW s \in Nat \ {0}, Gap(s)
    PROVE  Gap(2 * s)
  <1> DEFINE S == {n \in Doublings : 2 * n <= s \/ n = s \/ n >= 2 * s}
  <1>1. S \in SUBSET (1..MaxReorgDepth) /\ \A n \in Doublings : n \in Nat /\ n >= 1
    BY DEF Doublings
  <1>2. 1 \in Doublings
    BY DEF Doublings
  <1>3. 1 \in S
    <2>1. 2 * 1 <= s \/ 1 >= s
      BY <1>2 DEF Gap
    <2> QED
      BY <1>2, <2>1
  <1>4. ASSUME NEW x \in S, 2 * x <= MaxReorgDepth
        PROVE  2 * x \in S
    <2>1. x \in Doublings /\ x \in Nat /\ x >= 1 /\ (2 * x <= s \/ x = s \/ x >= 2 * s)
      BY <1>1
    <2>2. 2 * x \in Doublings
      <3>1. 2 * x \in 1..MaxReorgDepth
        BY <1>4, <2>1
      <3>2. \A T \in SUBSET (1..MaxReorgDepth) :
               1 \in T /\ (\A y \in T : 2 * y <= MaxReorgDepth => 2 * y \in T) => x \in T
        BY <2>1 DEF Doublings
      <3>3. \A T \in SUBSET (1..MaxReorgDepth) :
               1 \in T /\ (\A y \in T : 2 * y <= MaxReorgDepth => 2 * y \in T) => 2 * x \in T
        BY <1>4, <3>2
      <3> QED
        BY <3>1, <3>3 DEF Doublings
    <2>3. 2 * (2 * x) <= s \/ 2 * x >= s
      BY <2>2 DEF Gap
    <2>4. 2 * (2 * x) <= s \/ 2 * x = s \/ 2 * x >= 2 * s
      BY <2>1, <2>3
    <2> QED
      BY <2>2, <2>4
  <1>5. \A n \in Doublings : n \in S
    BY <1>1, <1>3, <1>4 DEF Doublings
  <1> HIDE DEF S
  <1>6. \A n \in Doublings : n \in Nat /\ (2 * n <= s \/ n = s \/ n >= 2 * s)
    BY <1>1, <1>5 DEF S
  <1> QED
    BY <1>6 DEF Gap

\* What the search knows when our chain has stood still and no request has failed.
\* gave up: every probe missed, down to a step that is no longer allowed.
GaveUp ==
    /\ fork < ceiling /\ step < 2 * (ceiling - fork)
    /\ step > MaxReorgDepth \/ step > ceiling
    /\ lo = Minus(ceiling, MaxReorgDepth + 1)

Narrowing ==
    ~failed /\ ours = "still" =>
        /\ fork <= ourTip /\ fork < peerTip /\ ourTip <= peerTip
        /\ pc \notin {"start", "tips"} => ceiling = ourTip
        /\ pc \in {"start", "tips", "ceiling"} => step = 1
        /\ pc = "probe" => fork < ceiling /\ step < 2 * (ceiling - fork)
        /\ pc = "search" => lo <= fork /\ fork <= hi /\ hi <= ceiling
        /\ pc \in {"decide", "trial", "stalled"} => lo = fork \/ GaveUp
        /\ pc = "trial" <=> (pc \in {"trial", "stalled"} /\ Resolvable(lo))

Reach == IInv /\ Gap(step) /\ Narrowing

\* At first the walk has a step of one, below which there is none.
LEMMA InitReach == Init => Reach
  <1> SUFFICES ASSUME Init PROVE Reach
    OBVIOUS
  <1>1. Gap(step)
    BY DEF Init, Gap, Doublings
  <1>2. Narrowing
    BY DEF Init, Narrowing
  <1> QED
    BY <1>1, <1>2, InitCommon DEF Reach

\* The doubling walk: a probe that agrees encloses the fork, one that does not
\* puts it further down than the step.
LEMMA ProbeKeepsReach ==
    ASSUME Reach, NEW ok \in BOOLEAN, Probe(ok)
    PROVE  Gap(step)' /\ Narrowing'
  <1>1. /\ UNCHANGED <<ourTip, peerTip, fork, ours, ceiling>> /\ pc = "probe"
        /\ failed' = (failed \/ (MayProbe /\ ~ok))
    BY DEF Probe, chains
  <1>2. /\ ourTip \in Nat /\ peerTip \in Nat /\ fork \in Nat /\ ceiling \in Nat
        /\ step \in Nat \ {0} /\ lo \in Nat /\ hi \in Nat
    BY DEF Reach, IInv, Heights
  <1>3. ASSUME ~failed', ours' = "still"
        PROVE  /\ fork <= ourTip /\ fork < peerTip /\ ourTip <= peerTip
               /\ ceiling = ourTip /\ fork < ceiling /\ step < 2 * (ceiling - fork)
    BY <1>1, <1>3 DEF Reach, Narrowing
  <1>4. CASE MayProbe /\ ok /\ Agree(ceiling - step)
             /\ lo' = ceiling - step /\ hi' = ceiling
             /\ found' = TRUE /\ pc' = "search" /\ step' = step
    <2>1. Gap(step)'
      BY <1>4 DEF Reach, Gap
    <2>2. Narrowing'
      BY <1>1, <1>2, <1>3, <1>4 DEF Narrowing, Agree
    <2> QED
      BY <2>1, <2>2
  <1>5. CASE MayProbe /\ ok /\ ~Agree(ceiling - step) /\ step' = step * 2 /\ UNCHANGED <<lo, hi, found, pc>>
    <2>1. Gap(step)'
      <3>1. Gap(2 * step)
        BY <1>2, GapDoubles DEF Reach
      <3>2. step' = 2 * step
        BY <1>2, <1>5
      <3> QED
        BY <3>1, <3>2 DEF Gap
    <2>2. ASSUME ~failed', ours' = "still"
          PROVE  step' < 2 * (ceiling - fork)
      <3>1. ~(ceiling - step <= fork)
        BY <1>2, <1>3, <1>5, <2>2 DEF Agree, MayProbe
      <3> QED
        BY <1>2, <1>3, <1>5, <2>2, <3>1
    <2>3. Narrowing'
      BY <1>1, <1>2, <1>3, <1>5, <2>2 DEF Narrowing
    <2> QED
      BY <2>1, <2>3
  <1>6. CASE ~(MayProbe /\ ok) /\ GiveUp /\ UNCHANGED <<hi, found, step>>
    <2>1. Gap(step)'
      BY <1>6 DEF Reach, Gap
    <2>2. lo' = Minus(ceiling, MaxReorgDepth + 1) /\ pc' = "decide"
      BY <1>6 DEF GiveUp
    <2>3. ASSUME ~failed', ours' = "still" PROVE GaveUp'
      <3>1. step > MaxReorgDepth \/ step > ceiling
        <4>1. ~MayProbe
          BY <1>1, <1>6, <2>3
        <4> QED
          BY <1>2, <4>1 DEF MayProbe
      <3> QED
        BY <1>1, <1>3, <1>6, <2>2, <2>3, <3>1 DEF GaveUp
    <2>4. Narrowing'
      BY <1>1, <1>3, <2>2, <2>3 DEF Narrowing
    <2> QED
      BY <2>1, <2>4
  <1> QED
    BY <1>4, <1>5, <1>6 DEF Probe

\* The binary search: the fork stays between its bounds, which meet.
LEMMA BinarySearchKeepsReach ==
    ASSUME Reach, NEW ok \in BOOLEAN, BinarySearch(ok)
    PROVE  Gap(step)' /\ Narrowing'
  <1> DEFINE mid == lo + (hi - lo + 1) \div 2
  <1>1. /\ UNCHANGED <<ourTip, peerTip, fork, ours, ceiling, step>> /\ pc = "search"
        /\ failed' = (failed \/ (lo < hi /\ ~ok))
    BY DEF BinarySearch, chains
  <1>2. /\ ourTip \in Nat /\ peerTip \in Nat /\ fork \in Nat /\ ceiling \in Nat
        /\ lo \in Nat /\ hi \in Nat
    BY DEF Reach, IInv, Heights
  <1>3. ASSUME ~failed', ours' = "still"
        PROVE  /\ fork <= ourTip /\ fork < peerTip /\ ourTip <= peerTip
               /\ ceiling = ourTip /\ lo <= fork /\ fork <= hi /\ hi <= ceiling
    BY <1>1, <1>3 DEF Reach, Narrowing
  <1>4. Gap(step)'
    BY <1>1 DEF Reach, Gap
  <1>5. CASE lo < hi /\ ok /\ lo' = Narrowed(mid)[1] /\ hi' = Narrowed(mid)[2] /\ pc' = pc
    <2>1. mid \in Nat /\ mid <= hi
      BY <1>2, <1>5
    <2> HIDE DEF mid
    <2>2. CASE Agree(mid)
      <3>1. lo' = mid /\ hi' = hi /\ mid <= fork
        BY <1>5, <2>2 DEF Narrowed, Agree
      <3> QED
        BY <1>1, <1>3, <1>4, <1>5, <3>1 DEF Narrowing
    <2>3. CASE ~Agree(mid)
      <3>1. lo' = lo /\ hi' = mid - 1
        BY <1>5, <2>3 DEF Narrowed
      <3>2. ASSUME ~failed', ours' = "still" PROVE fork <= hi' /\ hi' <= ceiling
        <4>1. ~(mid <= fork)
          BY <1>2, <1>3, <2>1, <2>3, <3>2 DEF Agree
        <4> QED
          BY <1>2, <1>3, <2>1, <3>1, <3>2, <4>1
      <3> QED
        BY <1>1, <1>3, <1>4, <1>5, <3>1, <3>2 DEF Narrowing
    <2> QED
      BY <2>2, <2>3
  <1>6. CASE ~(lo < hi /\ ok) /\ pc' = "decide" /\ UNCHANGED <<lo, hi>>
    <2>1. ASSUME ~failed', ours' = "still" PROVE lo' = fork'
      <3>1. ~(lo < hi)
        BY <1>1, <1>6, <2>1
      <3> QED
        BY <1>1, <1>2, <1>3, <1>6, <2>1, <3>1
    <2> QED
      BY <1>1, <1>3, <1>4, <1>6, <2>1 DEF Narrowing
  <1> QED
    BY <1>5, <1>6 DEF BinarySearch

\* The other steps of the search: the ceiling is our tip, and the first looks
\* settle the case of a peer that only has more than we do.
LEMMA OtherStepsKeepReach ==
    ASSUME Reach, NEW ok \in BOOLEAN, AskTip \/ TakeCeiling \/ AskCeiling(ok) \/ Decide
    PROVE  Gap(step)' /\ Narrowing'
  <1>1. UNCHANGED <<ourTip, peerTip, fork, ours, step>>
    BY DEF AskTip, TakeCeiling, AskCeiling, Decide, chains
  <1>2. /\ ourTip \in Nat /\ peerTip \in Nat /\ fork \in Nat /\ ceiling \in Nat
        /\ step \in Nat \ {0} /\ lo \in Nat
    BY DEF Reach, IInv, Heights
  <1>3. Gap(step)'
    BY <1>1 DEF Reach, Gap
  <1>4. CASE AskTip
    BY <1>1, <1>2, <1>3, <1>4 DEF AskTip, Agree, Reach, Narrowing
  <1>5. CASE TakeCeiling
    BY <1>1, <1>2, <1>3, <1>5 DEF TakeCeiling, Lower, Reach, Narrowing
  <1>6. CASE AskCeiling(ok)
    <2>1. ASSUME ~failed', ours' = "still"
          PROVE  /\ fork <= ourTip /\ fork < peerTip /\ ourTip <= peerTip /\ ceiling = ourTip
                 /\ ok /\ step = 1
      BY <1>1, <1>6, <2>1 DEF AskCeiling, Reach, Narrowing
    <2>2. CASE ok /\ Agree(ceiling) /\ lo' = ceiling /\ found' = TRUE /\ pc' = "decide"
      BY <1>1, <1>2, <1>3, <1>6, <2>1, <2>2 DEF AskCeiling, Agree, Narrowing
    <2>3. CASE ~(ok /\ Agree(ceiling)) /\ pc' = "probe" /\ UNCHANGED <<lo, found>>
      <3> QED
        BY <1>1, <1>2, <1>3, <1>6, <2>1, <2>3 DEF AskCeiling, Agree, Narrowing
    <2> QED
      BY <1>6, <2>2, <2>3 DEF AskCeiling
  <1>7. CASE Decide
    BY <1>1, <1>2, <1>3, <1>7 DEF Decide, chains, GaveUp, Resolvable, Reach, Narrowing
  <1> QED
    BY <1>4, <1>5, <1>6, <1>7

\* Every step keeps what the search knows; a move of our chain ends the claim.
LEMMA StepKeepsReach == Reach /\ [Next]_vars => Reach'
  <1> SUFFICES ASSUME Reach, [Next]_vars PROVE Reach'
    OBVIOUS
  <1>1. IInv'
    BY StepKeepsCommon DEF Reach
  <1>2. CASE OurChainGrows \/ OurChainJoins \/ OurChainLeaves
    <2>1. ours' # "still" /\ step' = step
      BY <1>2 DEF OurChainGrows, OurChainJoins, OurChainLeaves, Searching, Reach, IInv
    <2> QED
      BY <1>1, <2>1 DEF Reach, Gap, Narrowing
  <1>3. CASE \E ok \in BOOLEAN : AskTip \/ TakeCeiling \/ AskCeiling(ok) \/ Decide \/ Probe(ok) \/ BinarySearch(ok)
    BY <1>1, <1>3, OtherStepsKeepReach, ProbeKeepsReach, BinarySearchKeepsReach DEF Reach
  <1>4. CASE UNCHANGED vars
    BY <1>1, <1>4 DEF vars, Reach, Gap, Narrowing, GaveUp, Resolvable
  <1> QED
    BY <1>2, <1>3, <1>4 DEF Next

\* ExactWithinReach: a fork within the largest power of two in MAX_REORG_DEPTH is found
\* by common_ancestor at exactly its height, unless the walk meets the genesis block,
\* and sync_from_peer tries the peer's branch from there.
THEOREM ForksWithinReachAreFound == Spec => []ExactWithinReach
  <1>1. Reach => ExactWithinReach
    <2> SUFFICES ASSUME Reach, pc \in {"trial", "stalled"}, ~failed, ours = "still",
                        NEW n \in Doublings, ceiling - fork <= n
                 PROVE  /\ pc = "trial" /\ Agree(lo)
                        /\ 2 * (ceiling - fork) <= ceiling => lo = Lower(fork, ceiling)
      BY DEF ExactWithinReach
    <2>1. /\ ourTip \in Nat /\ peerTip \in Nat /\ fork \in Nat /\ ceiling \in Nat
          /\ step \in Nat \ {0} /\ lo \in Nat /\ n \in Nat /\ n <= MaxReorgDepth
      BY DEF Reach, IInv, Heights, Doublings
    <2>2. /\ fork <= ourTip /\ fork < peerTip /\ ourTip <= peerTip /\ ceiling = ourTip
          /\ lo = fork \/ GaveUp
          /\ Resolvable(lo) => pc = "trial"
      BY DEF Reach, Narrowing
    <2>3. CASE lo = fork
      BY <2>1, <2>2, <2>3 DEF Resolvable, Agree, Lower
    <2>4. CASE GaveUp
      <3>1. 2 * n <= step \/ n >= step
        BY DEF Reach, Gap
      <3>2. step < 2 * (ceiling - fork) /\ (step > MaxReorgDepth \/ step > ceiling)
            /\ lo = Minus(ceiling, MaxReorgDepth + 1)
        BY <2>4 DEF GaveUp
      <3>3. step <= MaxReorgDepth /\ step > ceiling
        BY <2>1, <3>1, <3>2
      <3>4. lo = 0 /\ ~(2 * (ceiling - fork) <= ceiling)
        BY <2>1, <3>2, <3>3 DEF Minus
      <3> QED
        BY <2>1, <2>2, <3>3, <3>4 DEF Resolvable, Agree
    <2> QED
      BY <2>2, <2>3, <2>4
  <1> QED
    BY <1>1, InitReach, StepKeepsReach, PTL DEF Spec

=============================================================================

---------------------------- MODULE ChainProofs ----------------------------
(***************************************************************************)
(* What holds of a node's chain for every set of blocks, whatever its      *)
(* threads do.  The chain is always that of a valid sequence of blocks,    *)
(* pruned below its first height, and what a thread carries with the lock  *)
(* released is one too, on a base that was the node's chain.  Hashes link  *)
(* a valid sequence to its last block, so a base whose tip is still ours   *)
(* is still our chain, and a branch prepared on it fits.                   *)
(*                                                                         *)
(* A section extends this to whole candidates, whose blocks below a pin    *)
(* are replayed without their checks: links and the pinned hash leave only *)
(* the blocks of the pinned chain.                                         *)
(*                                                                         *)
(* The last section is about the sum that the unspent set of such a chain  *)
(* carries, on its own state (UtxoSet).                                    *)
(***************************************************************************)
EXTENDS Chain, UtxoSet, FiniteSetTheorems, SequenceTheorems, WellFoundedInduction, TLAPS

-----------------------------------------------------------------------------
(* Induction *)

\* A set of natural numbers that is not empty has a least element.
LEMMA Least == \A T \in SUBSET Nat : T # {} => \E x \in T : \A y \in T : x <= y
  <1> SUFFICES ASSUME NEW T \in SUBSET Nat, T # {}
               PROVE \E x \in T : \A y \in T : x <= y
    OBVIOUS
  <1> DEFINE R == OpToRel(<, Nat)
  <1>1. \A x, y \in Nat : <<x, y>> \in R <=> x < y
    BY DEF OpToRel
  <1>2. IsWellFoundedOn(R, Nat)
    BY NatLessThanWellFounded
  <1> HIDE DEF R
  <1>3. PICK x \in T : \A y \in T : ~(<<y, x>> \in R)
    BY <1>2, WFMin
  <1>4. \A y \in T : ~(y < x)
    BY <1>1, <1>3
  <1> QED
    BY <1>4

\* Induction up to n, with the predicate as a set.
LEMMA InductUpTo ==
    ASSUME NEW n \in Nat, NEW S, 0 \in S,
           \A k \in 0..(n - 1) : k \in S => k + 1 \in S
    PROVE  \A k \in 0..n : k \in S
  <1> DEFINE T == {k \in 0..n : k \notin S}
  <1>1. SUFFICES ASSUME T # {} PROVE FALSE
    OBVIOUS
  <1>a. T \in SUBSET Nat
    OBVIOUS
  <1>2. PICK k \in T : \A y \in T : k <= y
    BY <1>1, <1>a, Least
  <1>3. k \in 0..n /\ k \notin S /\ k # 0
    BY <1>2
  <1>4. k - 1 \in 0..(n - 1) /\ (k - 1) + 1 = k /\ ~(k <= k - 1)
    BY <1>3
  <1>5. k - 1 \notin T
    BY <1>2, <1>4
  <1>6. k - 1 \in S
    BY <1>4, <1>5
  <1> QED
    BY <1>3, <1>4, <1>6

\* Induction over the sequences of elements of D.
LEMMA SeqInduct ==
    ASSUME NEW D, NEW S, <<>> \in S,
           \A s \in Seq(D), b \in D : s \in S => Append(s, b) \in S
    PROVE  \A s \in Seq(D) : s \in S
  <1> DEFINE T == {Len(s) : s \in {x \in Seq(D) : x \notin S}}
  <1>1. SUFFICES ASSUME T # {} PROVE FALSE
    OBVIOUS
  <1>2. T \subseteq Nat
    OBVIOUS
  <1>3. PICK k \in T : \A y \in T : k <= y
    BY <1>1, <1>2, Least
  <1>4. PICK s \in Seq(D) : s \notin S /\ Len(s) = k
    BY <1>3
  <1>5. PICK t \in Seq(D), b \in D : s = Append(t, b)
    BY <1>4, SequenceEmptyOrAppend
  <1>6. Len(t) \in Nat /\ Len(s) = Len(t) + 1
    BY <1>5, AppendProperties
  <1>7. t \notin S
    BY <1>4, <1>5
  <1>8. Len(t) \in T
    BY <1>7
  <1> QED
    BY <1>3, <1>4, <1>6, <1>8

-----------------------------------------------------------------------------
(* The recursive functions of the model *)

\* g is the function by which AppliedAll(ch, s) is defined.
IsStages(g, ch, s) ==
    g = [n \in 0..Len(s) |-> IF n = 0 THEN ch ELSE Applied(g[n - 1], s[n])]

\* That function exists for every sequence of blocks.
LEMMA StagesExist ==
    ASSUME NEW ch
    PROVE  \A s \in Seq(Blocks) : \E g : IsStages(g, ch, s)
  <1> DEFINE S == {s \in Seq(Blocks) : \E g : IsStages(g, ch, s)}
  <1>1. <<>> \in S
    <2>1. IsStages([n \in 0..0 |-> ch], ch, <<>>)
      BY DEF IsStages
    <2> QED
      BY <2>1
  <1>2. ASSUME NEW s \in Seq(Blocks), NEW b \in Blocks, s \in S
        PROVE  Append(s, b) \in S
    <2> DEFINE t == Append(s, b)
    <2>1. /\ t \in Seq(Blocks) /\ Len(s) \in Nat /\ Len(t) = Len(s) + 1
          /\ \A i \in 1..Len(s) : t[i] = s[i]
      BY AppendProperties
    <2>2. PICK g : IsStages(g, ch, s)
      BY <1>2
    <2> HIDE DEF t
    <2> DEFINE h == [n \in 0..Len(t) |->
                        IF n = Len(t) THEN Applied(g[Len(s)], t[n]) ELSE g[n]]
    <2>3. ASSUME NEW n \in 0..Len(t)
          PROVE  h[n] = IF n = 0 THEN ch ELSE Applied(h[n - 1], t[n])
      <3>1. CASE n = Len(t)
        <4>1. n # 0 /\ n - 1 = Len(s) /\ n - 1 \in 0..Len(t) /\ n - 1 # Len(t)
          BY <3>1, <2>1
        <4> QED
          BY <3>1, <4>1
      <3>2. CASE n # Len(t)
        <4>1. n \in 0..Len(s) /\ h[n] = g[n]
          BY <3>2, <2>1
        <4>2. n # 0 => n - 1 \in 0..Len(t) /\ n - 1 # Len(t) /\ t[n] = s[n]
          BY <2>1, <4>1
        <4>3. n # 0 => h[n - 1] = g[n - 1]
          BY <4>2
        <4>4. g[n] = IF n = 0 THEN ch ELSE Applied(g[n - 1], s[n])
          BY <2>2, <4>1 DEF IsStages
        <4> QED
          BY <4>1, <4>2, <4>3, <4>4
      <3> QED
        BY <3>1, <3>2
    <2>4. IsStages(h, ch, t)
      BY <2>3 DEF IsStages
    <2> QED
      BY <2>1, <2>4 DEF t
  <1>3. \A s \in Seq(Blocks) : s \in S
    <2> HIDE DEF S
    <2> QED
      BY <1>1, <1>2, SeqInduct
  <1> QED
    BY <1>3

\* AppliedAll is its last value.
LEMMA AppliedAllIsLast ==
    ASSUME NEW ch, NEW s \in Seq(Blocks)
    PROVE  \E g : IsStages(g, ch, s) /\ AppliedAll(ch, s) = g[Len(s)]
  <1> DEFINE after == CHOOSE g : IsStages(g, ch, s)
  <1>1. IsStages(after, ch, s)
    BY StagesExist
  <1>2. AppliedAll(ch, s) = after[Len(s)]
    BY DEF AppliedAll, IsStages
  <1> QED
    BY <1>1, <1>2

\* Applying no block, and one block more.
LEMMA AppliedNone ==
    ASSUME NEW ch PROVE AppliedAll(ch, <<>>) = ch
  <1>1. <<>> \in Seq(Blocks) /\ Len(<<>>) = 0
    OBVIOUS
  <1>2. PICK g : IsStages(g, ch, <<>>) /\ AppliedAll(ch, <<>>) = g[0]
    BY <1>1, AppliedAllIsLast
  <1> QED
    BY <1>1, <1>2 DEF IsStages

\* Applying one block more applies it to the chain of the others.
LEMMA AppliedMore ==
    ASSUME NEW ch, NEW s \in Seq(Blocks), NEW b \in Blocks
    PROVE  AppliedAll(ch, Append(s, b)) = Applied(AppliedAll(ch, s), b)
  <1> DEFINE t == Append(s, b)
  <1>1. /\ t \in Seq(Blocks) /\ Len(s) \in Nat /\ Len(t) = Len(s) + 1
        /\ \A i \in 1..Len(s) : t[i] = s[i]
        /\ t[Len(t)] = b
    BY AppendProperties
  <1> HIDE DEF t
  <1>2. PICK g : IsStages(g, ch, s) /\ AppliedAll(ch, s) = g[Len(s)]
    BY AppliedAllIsLast
  <1>3. PICK h : IsStages(h, ch, t) /\ AppliedAll(ch, t) = h[Len(t)]
    BY <1>1, AppliedAllIsLast
  <1> DEFINE S == {k \in 0..Len(s) : h[k] = g[k]}
  <1>4. 0 \in S
    BY <1>1, <1>2, <1>3 DEF IsStages
  <1>5. ASSUME NEW k \in 0..(Len(s) - 1), k \in S PROVE k + 1 \in S
    <2>1. k + 1 \in 0..Len(s) /\ k + 1 \in 0..Len(t) /\ k + 1 # 0 /\ (k + 1) - 1 = k
      BY <1>1
    <2>2. h[k + 1] = Applied(h[k], t[k + 1]) /\ g[k + 1] = Applied(g[k], s[k + 1])
      BY <1>2, <1>3, <2>1 DEF IsStages
    <2>3. t[k + 1] = s[k + 1]
      BY <1>1, <2>1
    <2> QED
      BY <1>5, <2>1, <2>2, <2>3
  <1>6. \A k \in 0..Len(s) : k \in S
    <2> HIDE DEF S
    <2> QED
      BY <1>1, <1>4, <1>5, InductUpTo
  <1>7. h[Len(s)] = g[Len(s)]
    BY <1>1, <1>6
  <1>8. h[Len(t)] = Applied(h[Len(s)], t[Len(t)])
    <2>1. Len(t) \in 0..Len(t) /\ Len(t) # 0 /\ Len(t) - 1 = Len(s)
      BY <1>1
    <2> QED
      BY <1>3, <2>1 DEF IsStages
  <1> QED
    BY <1>1, <1>2, <1>3, <1>7, <1>8 DEF t

\* g is the function by which Absorbed(L, s) is defined.
IsAbsorption(g, L, s) ==
    g = [n \in 0..Len(s) |->
            IF n = 0 THEN L
            ELSE Commit(g[n - 1], s[n].body, s[n].height,
                        RewardAt(s[n].height, g[n - 1].minted))]

\* That function exists for every sequence of blocks.
LEMMA AbsorptionExists ==
    ASSUME NEW L
    PROVE  \A s \in Seq(Blocks) : \E g : IsAbsorption(g, L, s)
  <1> DEFINE S == {s \in Seq(Blocks) : \E g : IsAbsorption(g, L, s)}
             Took(M, b) == Commit(M, b.body, b.height, RewardAt(b.height, M.minted))
  <1>1. <<>> \in S
    <2>1. IsAbsorption([n \in 0..0 |-> L], L, <<>>)
      BY DEF IsAbsorption
    <2> QED
      BY <2>1
  <1>2. ASSUME NEW s \in Seq(Blocks), NEW b \in Blocks, s \in S
        PROVE  Append(s, b) \in S
    <2> DEFINE t == Append(s, b)
    <2>1. /\ t \in Seq(Blocks) /\ Len(s) \in Nat /\ Len(t) = Len(s) + 1
          /\ \A i \in 1..Len(s) : t[i] = s[i]
      BY AppendProperties
    <2>2. PICK g : IsAbsorption(g, L, s)
      BY <1>2
    <2> HIDE DEF t
    <2> DEFINE h == [n \in 0..Len(t) |->
                        IF n = Len(t) THEN Took(g[Len(s)], t[n]) ELSE g[n]]
    <2>3. ASSUME NEW n \in 0..Len(t)
          PROVE  h[n] = IF n = 0 THEN L ELSE Took(h[n - 1], t[n])
      <3>1. CASE n = Len(t)
        <4>1. n # 0 /\ n - 1 = Len(s) /\ n - 1 \in 0..Len(t) /\ n - 1 # Len(t)
          BY <3>1, <2>1
        <4> QED
          BY <3>1, <4>1
      <3>2. CASE n # Len(t)
        <4>1. n \in 0..Len(s) /\ h[n] = g[n]
          BY <3>2, <2>1
        <4>2. n # 0 => n - 1 \in 0..Len(t) /\ n - 1 # Len(t) /\ t[n] = s[n]
          BY <2>1, <4>1
        <4>3. n # 0 => h[n - 1] = g[n - 1]
          BY <4>2
        <4>4. g[n] = IF n = 0 THEN L ELSE Took(g[n - 1], s[n])
          BY <2>2, <4>1 DEF IsAbsorption
        <4> QED
          BY <4>1, <4>2, <4>3, <4>4
      <3> QED
        BY <3>1, <3>2
    <2>4. IsAbsorption(h, L, t)
      BY <2>3 DEF IsAbsorption
    <2> QED
      BY <2>1, <2>4 DEF t
  <1>3. \A s \in Seq(Blocks) : s \in S
    <2> HIDE DEF S
    <2> QED
      BY <1>1, <1>2, SeqInduct
  <1> QED
    BY <1>3

\* Absorbed is its last value.
LEMMA AbsorbedIsLast ==
    ASSUME NEW L, NEW s \in Seq(Blocks)
    PROVE  \E g : IsAbsorption(g, L, s) /\ Absorbed(L, s) = g[Len(s)]
  <1> DEFINE after == CHOOSE g : IsAbsorption(g, L, s)
  <1>1. IsAbsorption(after, L, s)
    BY AbsorptionExists
  <1>2. Absorbed(L, s) = after[Len(s)]
    BY DEF Absorbed, IsAbsorption
  <1> QED
    BY <1>1, <1>2

\* Absorbing no body, and one body more.
LEMMA AbsorbedNone ==
    ASSUME NEW L PROVE Absorbed(L, <<>>) = L
  <1>1. <<>> \in Seq(Blocks) /\ Len(<<>>) = 0
    OBVIOUS
  <1>2. PICK g : IsAbsorption(g, L, <<>>) /\ Absorbed(L, <<>>) = g[0]
    BY <1>1, AbsorbedIsLast
  <1> QED
    BY <1>1, <1>2 DEF IsAbsorption

\* Absorbing one body more commits it to the ledger of the others.
LEMMA AbsorbedMore ==
    ASSUME NEW L, NEW s \in Seq(Blocks), NEW b \in Blocks
    PROVE  Absorbed(L, Append(s, b)) =
              Commit(Absorbed(L, s), b.body, b.height,
                     RewardAt(b.height, Absorbed(L, s).minted))
  <1> DEFINE t == Append(s, b)
             Took(M, d) == Commit(M, d.body, d.height, RewardAt(d.height, M.minted))
  <1>1. /\ t \in Seq(Blocks) /\ Len(s) \in Nat /\ Len(t) = Len(s) + 1
        /\ \A i \in 1..Len(s) : t[i] = s[i]
        /\ t[Len(t)] = b
    BY AppendProperties
  <1> HIDE DEF t
  <1>2. PICK g : IsAbsorption(g, L, s) /\ Absorbed(L, s) = g[Len(s)]
    BY AbsorbedIsLast
  <1>3. PICK h : IsAbsorption(h, L, t) /\ Absorbed(L, t) = h[Len(t)]
    BY <1>1, AbsorbedIsLast
  <1> DEFINE S == {k \in 0..Len(s) : h[k] = g[k]}
  <1>4. 0 \in S
    BY <1>1, <1>2, <1>3 DEF IsAbsorption
  <1>5. ASSUME NEW k \in 0..(Len(s) - 1), k \in S PROVE k + 1 \in S
    <2>1. k + 1 \in 0..Len(s) /\ k + 1 \in 0..Len(t) /\ k + 1 # 0 /\ (k + 1) - 1 = k
      BY <1>1
    <2>2. h[k + 1] = Took(h[k], t[k + 1]) /\ g[k + 1] = Took(g[k], s[k + 1])
      BY <1>2, <1>3, <2>1 DEF IsAbsorption
    <2>3. t[k + 1] = s[k + 1]
      BY <1>1, <2>1
    <2> QED
      BY <1>5, <2>1, <2>2, <2>3
  <1>6. \A k \in 0..Len(s) : k \in S
    <2> HIDE DEF S
    <2> QED
      BY <1>1, <1>4, <1>5, InductUpTo
  <1>7. h[Len(s)] = g[Len(s)]
    BY <1>1, <1>6
  <1>8. h[Len(t)] = Took(h[Len(s)], t[Len(t)])
    <2>1. Len(t) \in 0..Len(t) /\ Len(t) # 0 /\ Len(t) - 1 = Len(s)
      BY <1>1
    <2> QED
      BY <1>3, <2>1 DEF IsAbsorption
  <1> QED
    BY <1>1, <1>2, <1>3, <1>7, <1>8 DEF t

\* g is the function by which SumUp(w, n) is defined.
IsSum(g, w, n) == g = [k \in 0..n |-> IF k = 0 THEN 0 ELSE g[k - 1] + w[k]]

\* That function exists, and SumUp is its last value.
LEMMA SumExists ==
    ASSUME NEW w, NEW n \in Nat
    PROVE  \E g : IsSum(g, w, n) /\ SumUp(w, n) = g[n]
  <1> DEFINE S == {k \in 0..n : \E g : IsSum(g, w, k)}
  <1>1. 0 \in S
    <2>1. IsSum([k \in 0..0 |-> 0], w, 0)
      BY DEF IsSum
    <2> QED
      BY <2>1
  <1>2. ASSUME NEW k \in 0..(n - 1), k \in S PROVE k + 1 \in S
    <2>1. PICK g : IsSum(g, w, k)
      BY <1>2
    <2> DEFINE h == [j \in 0..(k + 1) |-> IF j = k + 1 THEN g[k] + w[j] ELSE g[j]]
    <2>2. ASSUME NEW j \in 0..(k + 1)
          PROVE  h[j] = IF j = 0 THEN 0 ELSE h[j - 1] + w[j]
      <3>1. CASE j = k + 1
        <4>1. j # 0 /\ j - 1 = k /\ j - 1 \in 0..(k + 1) /\ j - 1 # k + 1
          BY <3>1
        <4> QED
          BY <3>1, <4>1
      <3>2. CASE j # k + 1
        <4>1. j \in 0..k /\ h[j] = g[j]
          BY <3>2
        <4>2. j # 0 => j - 1 \in 0..(k + 1) /\ j - 1 # k + 1
          BY <4>1
        <4>3. j # 0 => h[j - 1] = g[j - 1]
          BY <4>2
        <4>4. g[j] = IF j = 0 THEN 0 ELSE g[j - 1] + w[j]
          BY <2>1, <4>1 DEF IsSum
        <4> QED
          BY <4>1, <4>3, <4>4
      <3> QED
        BY <3>1, <3>2
    <2>3. IsSum(h, w, k + 1)
      BY <2>2 DEF IsSum
    <2>4. k + 1 \in 0..n
      OBVIOUS
    <2> QED
      BY <2>3, <2>4
  <1>3. n \in S
    <2> HIDE DEF S
    <2> QED
      BY <1>1, <1>2, InductUpTo
  <1> DEFINE total == CHOOSE g : IsSum(g, w, n)
  <1>4. IsSum(total, w, n)
    BY <1>3
  <1>5. SumUp(w, n) = total[n]
    BY DEF SumUp, IsSum
  <1> QED
    BY <1>4, <1>5

\* Two sums agree up to where their terms do.
LEMMA SumsAgree ==
    ASSUME NEW g, NEW h, NEW w, NEW v, NEW n \in Nat, NEW m \in Nat, n <= m,
           IsSum(g, w, n), IsSum(h, v, m), \A i \in 1..n : w[i] = v[i]
    PROVE  \A k \in 0..n : g[k] = h[k]
  <1> DEFINE S == {k \in 0..n : g[k] = h[k]}
  <1>1. 0 \in S
    BY DEF IsSum
  <1>2. ASSUME NEW k \in 0..(n - 1), k \in S PROVE k + 1 \in S
    <2>1. k + 1 \in 0..n /\ k + 1 \in 0..m /\ k + 1 # 0 /\ (k + 1) - 1 = k
      OBVIOUS
    <2>2. g[k + 1] = g[k] + w[k + 1] /\ h[k + 1] = h[k] + v[k + 1]
      BY <2>1 DEF IsSum
    <2> QED
      BY <1>2, <2>1, <2>2
  <1>3. \A k \in 0..n : k \in S
    <2> HIDE DEF S
    <2> QED
      BY <1>1, <1>2, InductUpTo
  <1> QED
    BY <1>3

\* The empty sum.
LEMMA SumUpNone == ASSUME NEW w PROVE SumUp(w, 0) = 0
  <1>1. PICK g : IsSum(g, w, 0) /\ SumUp(w, 0) = g[0]
    BY SumExists
  <1> QED
    BY <1>1 DEF IsSum

\* A sum of one term more.
LEMMA SumUpMore ==
    ASSUME NEW w, NEW v, NEW n \in Nat, \A i \in 1..n : w[i] = v[i]
    PROVE  SumUp(w, n + 1) = SumUp(v, n) + w[n + 1]
  <1>1. PICK g : IsSum(g, v, n) /\ SumUp(v, n) = g[n]
    BY SumExists
  <1>2. PICK h : IsSum(h, w, n + 1) /\ SumUp(w, n + 1) = h[n + 1]
    BY SumExists
  <1>3. h[n] = g[n]
    BY <1>1, <1>2, SumsAgree
  <1>4. h[n + 1] = h[n] + w[n + 1]
    <2>1. n + 1 \in 0..(n + 1) /\ n + 1 # 0 /\ (n + 1) - 1 = n
      OBVIOUS
    <2> QED
      BY <1>2, <2>1 DEF IsSum
  <1> QED
    BY <1>1, <1>2, <1>3, <1>4

\* The work of no block, and of one block more.
LEMMA WorkNone == WorkOfSeq(<<>>) = 0
  BY SumUpNone DEF WorkOfSeq

\* One block more adds its own work.
LEMMA WorkMore ==
    ASSUME NEW s \in Seq(Blocks), NEW b \in Blocks
    PROVE  WorkOfSeq(Append(s, b)) = WorkOfSeq(s) + BlockWork(b)
  <1> DEFINE t == Append(s, b)
             w == [i \in DOMAIN t |-> BlockWork(t[i])]
             v == [i \in DOMAIN s |-> BlockWork(s[i])]
  <1>1. /\ t \in Seq(Blocks) /\ Len(s) \in Nat /\ Len(t) = Len(s) + 1
        /\ \A i \in 1..Len(s) : t[i] = s[i]
        /\ t[Len(s) + 1] = b
        /\ DOMAIN s = 1..Len(s) /\ DOMAIN t = 1..Len(t)
    BY AppendProperties
  <1>2. WorkOfSeq(t) = SumUp(w, Len(s) + 1) /\ WorkOfSeq(s) = SumUp(v, Len(s))
    BY <1>1 DEF WorkOfSeq
  <1> HIDE DEF t
  <1>3. w[Len(s) + 1] = BlockWork(b) /\ \A i \in 1..Len(s) : w[i] = v[i]
    BY <1>1
  <1> HIDE DEF w, v
  <1> QED
    BY <1>1, <1>2, <1>3, SumUpMore DEF t

\* g is the function by which RewoundLedger(ch, n) is defined.
IsWayBack(g, ch, n) ==
    g = [k \in 0..n |-> IF k = 0 THEN ch.ledger
                        ELSE Rewind(g[k - 1], ch.undos[Len(ch.undos) - k + 1].state)]

\* That function exists, and RewoundLedger is its last value.
LEMMA WayBackExists ==
    ASSUME NEW ch, NEW n \in Nat
    PROVE  \E g : IsWayBack(g, ch, n) /\ RewoundLedger(ch, n) = g[n]
  <1> DEFINE U(k) == ch.undos[Len(ch.undos) - k + 1].state
             S == {k \in 0..n : \E g : IsWayBack(g, ch, k)}
  <1>1. 0 \in S
    <2>1. IsWayBack([k \in 0..0 |-> ch.ledger], ch, 0)
      BY DEF IsWayBack
    <2> QED
      BY <2>1
  <1>2. ASSUME NEW k \in 0..(n - 1), k \in S PROVE k + 1 \in S
    <2>1. PICK g : IsWayBack(g, ch, k)
      BY <1>2
    <2> DEFINE h == [j \in 0..(k + 1) |-> IF j = k + 1 THEN Rewind(g[k], U(j)) ELSE g[j]]
    <2>2. ASSUME NEW j \in 0..(k + 1)
          PROVE  h[j] = IF j = 0 THEN ch.ledger ELSE Rewind(h[j - 1], U(j))
      <3>1. CASE j = k + 1
        <4>1. j # 0 /\ j - 1 = k /\ j - 1 \in 0..(k + 1) /\ j - 1 # k + 1
          BY <3>1
        <4> QED
          BY <3>1, <4>1
      <3>2. CASE j # k + 1
        <4>1. j \in 0..k /\ h[j] = g[j]
          BY <3>2
        <4>2. j # 0 => j - 1 \in 0..(k + 1) /\ j - 1 # k + 1
          BY <4>1
        <4>3. j # 0 => h[j - 1] = g[j - 1]
          BY <4>2
        <4>4. g[j] = IF j = 0 THEN ch.ledger ELSE Rewind(g[j - 1], U(j))
          BY <2>1, <4>1 DEF IsWayBack
        <4> QED
          BY <4>1, <4>3, <4>4
      <3> QED
        BY <3>1, <3>2
    <2>3. IsWayBack(h, ch, k + 1)
      BY <2>2 DEF IsWayBack
    <2>4. k + 1 \in 0..n
      OBVIOUS
    <2> QED
      BY <2>3, <2>4
  <1>3. n \in S
    <2> HIDE DEF S
    <2> QED
      BY <1>1, <1>2, InductUpTo
  <1> DEFINE back == CHOOSE g : IsWayBack(g, ch, n)
  <1>4. IsWayBack(back, ch, n)
    BY <1>3
  <1>5. RewoundLedger(ch, n) = back[n]
    BY DEF RewoundLedger, IsWayBack
  <1> QED
    BY <1>4, <1>5

\* Rewinding no block, and one block more.
LEMMA RewoundNone == ASSUME NEW ch PROVE RewoundLedger(ch, 0) = ch.ledger
  <1>1. PICK g : IsWayBack(g, ch, 0) /\ RewoundLedger(ch, 0) = g[0]
    BY WayBackExists
  <1> QED
    BY <1>1 DEF IsWayBack

\* Rewinding one block more uses the record before the last one used.
LEMMA RewoundMore ==
    ASSUME NEW ch, NEW n \in Nat, Len(ch.undos) \in Nat
    PROVE  RewoundLedger(ch, n + 1) =
              Rewind(RewoundLedger(ch, n), ch.undos[Len(ch.undos) - n].state)
  <1> DEFINE U(k) == ch.undos[Len(ch.undos) - k + 1].state
  <1>1. PICK g : IsWayBack(g, ch, n) /\ RewoundLedger(ch, n) = g[n]
    BY WayBackExists
  <1>2. PICK h : IsWayBack(h, ch, n + 1) /\ RewoundLedger(ch, n + 1) = h[n + 1]
    BY WayBackExists
  <1> DEFINE S == {k \in 0..n : g[k] = h[k]}
  <1>3. 0 \in S
    BY <1>1, <1>2 DEF IsWayBack
  <1>4. ASSUME NEW k \in 0..(n - 1), k \in S PROVE k + 1 \in S
    <2>1. k + 1 \in 0..n /\ k + 1 \in 0..(n + 1) /\ k + 1 # 0 /\ (k + 1) - 1 = k
      OBVIOUS
    <2>2. g[k + 1] = Rewind(g[k], U(k + 1)) /\ h[k + 1] = Rewind(h[k], U(k + 1))
      BY <1>1, <1>2, <2>1 DEF IsWayBack
    <2> QED
      BY <1>4, <2>1, <2>2
  <1>5. \A k \in 0..n : k \in S
    <2> HIDE DEF S
    <2> QED
      BY <1>3, <1>4, InductUpTo
  <1>6. g[n] = h[n]
    BY <1>5
  <1>7. h[n + 1] = Rewind(h[n], U(n + 1))
    <2>1. n + 1 \in 0..(n + 1) /\ n + 1 # 0 /\ (n + 1) - 1 = n
      OBVIOUS
    <2> QED
      BY <1>2, <2>1 DEF IsWayBack
  <1>8. (Len(ch.undos) - (n + 1)) + 1 = Len(ch.undos) - n
    OBVIOUS
  <1> QED
    BY <1>1, <1>2, <1>6, <1>7, <1>8

-----------------------------------------------------------------------------
(* What a chain shows of the blocks it was built from *)

\* A chain value has these fields and no others.
IsChain(ch) ==
    ch = [ledger |-> ch.ledger, blocks |-> ch.blocks, headers |-> ch.headers,
          firstHeight |-> ch.firstHeight, horizon |-> ch.horizon,
          horizonWork |-> ch.horizonWork, totalWork |-> ch.totalWork,
          undos |-> ch.undos]

HeadersOf(s) == [i \in 1..Len(s) |-> HeaderOf(s[i])]

\* The ledger after the blocks of s, from genesis.
LedgerOf(s) == AppliedAll(NewChain, s).ledger

\* The ledger L with the block b.
Took(L, b) == Commit(L, b.body, b.height, RewardAt(b.height, L.minted))

\* The undo record of block b on ledger L.
UndoOf(L, b) == [work |-> BlockWork(b), state |-> CaptureUndo(L, b.body)]

\* What the rules read of ch is what the blocks of s lead to.
Shows(ch, s) ==
    /\ IsChain(ch)
    /\ ch.headers = HeadersOf(s)
    /\ ch.ledger = LedgerOf(s)
    /\ ch.totalWork = WorkOfSeq(s)
    /\ s = <<>> => ch.firstHeight = 0

\* What appending a block writes, field by field.
LEMMA AppliedFields ==
    ASSUME NEW ch, NEW b, IsChain(ch)
    PROVE  /\ IsChain(Applied(ch, b))
           /\ Applied(ch, b).ledger = Took(ch.ledger, b)
           /\ Applied(ch, b).totalWork = ch.totalWork + BlockWork(b)
           /\ Applied(ch, b).headers = Append(ch.headers, HeaderOf(b))
           /\ Applied(ch, b).blocks = Append(ch.blocks, b)
           /\ Applied(ch, b).undos = LastUndos(Append(ch.undos, UndoOf(ch.ledger, b)))
           /\ Applied(ch, b).firstHeight = ch.firstHeight
           /\ Applied(ch, b).horizon = ch.horizon
           /\ Applied(ch, b).horizonWork = ch.horizonWork
  <1> DEFINE L == Took(ch.ledger, b)
             u == LastUndos(Append(ch.undos, UndoOf(ch.ledger, b)))
  <1>1. Applied(ch, b) =
          [ch EXCEPT !.ledger = L,
                     !.totalWork = ch.totalWork + BlockWork(b),
                     !.headers = Append(ch.headers, HeaderOf(b)),
                     !.blocks = Append(ch.blocks, b),
                     !.undos = u]
    BY DEF Applied, Extended, Took, UndoOf, Subsidy
  <1> HIDE DEF L, u
  <1>2. Applied(ch, b) =
          [ledger |-> L, blocks |-> Append(ch.blocks, b),
           headers |-> Append(ch.headers, HeaderOf(b)),
           firstHeight |-> ch.firstHeight, horizon |-> ch.horizon,
           horizonWork |-> ch.horizonWork, totalWork |-> ch.totalWork + BlockWork(b),
           undos |-> u]
    BY <1>1 DEF IsChain
  <1>3. /\ IsChain(Applied(ch, b))
        /\ Applied(ch, b).ledger = L
        /\ Applied(ch, b).totalWork = ch.totalWork + BlockWork(b)
        /\ Applied(ch, b).headers = Append(ch.headers, HeaderOf(b))
        /\ Applied(ch, b).blocks = Append(ch.blocks, b)
        /\ Applied(ch, b).undos = u
        /\ Applied(ch, b).firstHeight = ch.firstHeight
        /\ Applied(ch, b).horizon = ch.horizon
        /\ Applied(ch, b).horizonWork = ch.horizonWork
    BY <1>2 DEF IsChain
  <1> QED
    BY <1>3 DEF L, u

\* The fields of ChainState::new.
LEMMA NewChainFields ==
    /\ IsChain(NewChain)
    /\ NewChain.ledger = Genesis /\ NewChain.blocks = <<>> /\ NewChain.headers = <<>>
    /\ NewChain.firstHeight = 0 /\ NewChain.horizon = Genesis
    /\ NewChain.horizonWork = 0 /\ NewChain.totalWork = 0 /\ NewChain.undos = <<>>
  <1>1. /\ NewChain.ledger = Genesis /\ NewChain.blocks = <<>> /\ NewChain.headers = <<>>
        /\ NewChain.firstHeight = 0 /\ NewChain.horizon = Genesis
        /\ NewChain.horizonWork = 0 /\ NewChain.totalWork = 0 /\ NewChain.undos = <<>>
    BY DEF NewChain
  <1>2. IsChain(NewChain)
    BY <1>1 DEF IsChain, NewChain
  <1> QED
    BY <1>1, <1>2

\* The headers of s are as many as its blocks, in their order.
LEMMA HeadersOfFacts ==
    ASSUME NEW s \in Seq(Blocks)
    PROVE  /\ HeadersOf(s) \in Seq({HeaderOf(b) : b \in Blocks})
           /\ Len(HeadersOf(s)) = Len(s) /\ Len(s) \in Nat
           /\ DOMAIN HeadersOf(s) = 1..Len(s)
           /\ \A i \in 1..Len(s) : HeadersOf(s)[i] = HeaderOf(s[i]) /\ s[i] \in Blocks
  <1>1. Len(s) \in Nat /\ \A i \in 1..Len(s) : s[i] \in Blocks
    BY LenProperties
  <1>2. HeadersOf(s) \in [1..Len(s) -> {HeaderOf(b) : b \in Blocks}]
    BY <1>1 DEF HeadersOf
  <1>3. HeadersOf(s) \in Seq({HeaderOf(b) : b \in Blocks})
    BY <1>1, <1>2, SeqDef
  <1>4. DOMAIN HeadersOf(s) = 1..Len(HeadersOf(s)) /\ Len(HeadersOf(s)) \in Nat
    BY <1>3, LenProperties
  <1>5. Len(HeadersOf(s)) = Len(s)
    BY <1>1, <1>2, <1>4
  <1> QED
    BY <1>1, <1>2, <1>3, <1>5 DEF HeadersOf

\* The headers of one block more.
LEMMA HeadersMore ==
    ASSUME NEW s \in Seq(Blocks), NEW b \in Blocks
    PROVE  HeadersOf(Append(s, b)) = Append(HeadersOf(s), HeaderOf(b))
  <1> DEFINE H == {HeaderOf(d) : d \in Blocks}
             t == Append(s, b)
  <1>1. /\ t \in Seq(Blocks) /\ Len(s) \in Nat /\ Len(t) = Len(s) + 1
        /\ \A i \in 1..Len(s) : t[i] = s[i]
        /\ t[Len(s) + 1] = b
    BY AppendProperties
  <1> HIDE DEF t
  <1>2. /\ HeadersOf(t) \in Seq(H) /\ Len(HeadersOf(t)) = Len(t)
        /\ \A i \in 1..Len(t) : HeadersOf(t)[i] = HeaderOf(t[i])
    BY <1>1, HeadersOfFacts
  <1>3. /\ HeadersOf(s) \in Seq(H) /\ Len(HeadersOf(s)) = Len(s)
        /\ \A i \in 1..Len(s) : HeadersOf(s)[i] = HeaderOf(s[i])
    BY HeadersOfFacts
  <1> DEFINE a == Append(HeadersOf(s), HeaderOf(b))
  <1>4. HeaderOf(b) \in H
    OBVIOUS
  <1> HIDE DEF H
  <1>5. /\ a \in Seq(H) /\ Len(a) = Len(s) + 1
        /\ \A i \in 1..Len(s) : a[i] = HeadersOf(s)[i]
        /\ a[Len(s) + 1] = HeaderOf(b)
    BY <1>3, <1>4, AppendProperties
  <1> HIDE DEF a
  <1>6. \A i \in 1..Len(HeadersOf(t)) : HeadersOf(t)[i] = a[i]
    BY <1>1, <1>2, <1>3, <1>5
  <1>7. HeadersOf(t) = a
    BY <1>1, <1>2, <1>5, <1>6, SeqEqual
  <1> QED
    BY <1>7 DEF a, t

\* Applying s to a new chain shows s, in an archive chain.
LEMMA StateShows ==
    \A s \in Seq(Blocks) :
        Shows(AppliedAll(NewChain, s), s) /\ AppliedAll(NewChain, s).firstHeight = 0
  <1> DEFINE S == {s \in Seq(Blocks) : /\ Shows(AppliedAll(NewChain, s), s)
                                       /\ AppliedAll(NewChain, s).firstHeight = 0}
  <1>1. <<>> \in S
    <2>1. HeadersOf(<<>>) = <<>> /\ <<>> \in Seq(Blocks)
      BY DEF HeadersOf
    <2> QED
      BY <2>1, AppliedNone, NewChainFields, WorkNone DEF Shows, LedgerOf
  <1>2. ASSUME NEW s \in Seq(Blocks), NEW b \in Blocks, s \in S
        PROVE  Append(s, b) \in S
    <2> DEFINE ch == AppliedAll(NewChain, s)
    <2>1. AppliedAll(NewChain, Append(s, b)) = Applied(ch, b)
      BY AppliedMore
    <2>2. IsChain(ch) /\ ch.headers = HeadersOf(s) /\ ch.totalWork = WorkOfSeq(s)
            /\ ch.firstHeight = 0
      BY <1>2 DEF Shows
    <2> HIDE DEF ch
    <2>3. Append(s, b) \in Seq(Blocks) /\ Append(s, b) # <<>>
      BY AppendProperties
    <2> QED
      <3>1. /\ IsChain(Applied(ch, b))
            /\ Applied(ch, b).headers = Append(HeadersOf(s), HeaderOf(b))
            /\ Applied(ch, b).totalWork = WorkOfSeq(s) + BlockWork(b)
            /\ Applied(ch, b).firstHeight = 0
        BY <2>2, AppliedFields
      <3>2. /\ HeadersOf(Append(s, b)) = Append(HeadersOf(s), HeaderOf(b))
            /\ WorkOfSeq(Append(s, b)) = WorkOfSeq(s) + BlockWork(b)
        BY HeadersMore, WorkMore
      <3> QED
        BY <2>1, <2>3, <3>1, <3>2 DEF Shows, LedgerOf
  <1>3. \A s \in Seq(Blocks) : s \in S
    <2> HIDE DEF S
    <2> QED
      BY <1>1, <1>2, SeqInduct
  <1> QED
    BY <1>3

\* No block leads to the ledger of genesis.
LEMMA LedgerNone == LedgerOf(<<>>) = Genesis
  BY AppliedNone, NewChainFields DEF LedgerOf

\* One block more leads to its ledger with that block.
LEMMA LedgerMore ==
    ASSUME NEW s \in Seq(Blocks), NEW b \in Blocks
    PROVE  LedgerOf(Append(s, b)) = Took(LedgerOf(s), b)
  <1>1. IsChain(AppliedAll(NewChain, s))
    BY StateShows DEF Shows
  <1> QED
    BY <1>1, AppliedMore, AppliedFields DEF LedgerOf

\* Whatever shows s shows one block more once the block is applied.
LEMMA AppliedShows ==
    ASSUME NEW ch, NEW s \in Seq(Blocks), NEW b \in Blocks, Shows(ch, s)
    PROVE  Shows(Applied(ch, b), Append(s, b))
  <1>1. Append(s, b) # <<>>
    BY AppendProperties
  <1>2. IsChain(ch) /\ ch.headers = HeadersOf(s) /\ ch.ledger = LedgerOf(s)
          /\ ch.totalWork = WorkOfSeq(s)
    BY DEF Shows
  <1>3. /\ IsChain(Applied(ch, b))
        /\ Applied(ch, b).headers = Append(HeadersOf(s), HeaderOf(b))
        /\ Applied(ch, b).ledger = Took(LedgerOf(s), b)
        /\ Applied(ch, b).totalWork = WorkOfSeq(s) + BlockWork(b)
    BY <1>2, AppliedFields
  <1>4. /\ HeadersOf(Append(s, b)) = Append(HeadersOf(s), HeaderOf(b))
        /\ LedgerOf(Append(s, b)) = Took(LedgerOf(s), b)
        /\ WorkOfSeq(Append(s, b)) = WorkOfSeq(s) + BlockWork(b)
    BY HeadersMore, LedgerMore, WorkMore
  <1> QED
    BY <1>1, <1>3, <1>4 DEF Shows

\* The rules cannot tell two chains apart that show the same blocks.
LEMMA SameView ==
    ASSUME NEW ch, NEW dh, NEW s \in Seq(Blocks), Shows(ch, s), Shows(dh, s),
           NEW b, NEW t
    PROVE  CanApply(ch, b, t) <=> CanApply(dh, b, t)
  <1>1. ch.headers = dh.headers /\ ch.ledger = dh.ledger
    BY DEF Shows
  <1>2. NextHeight(ch) = NextHeight(dh)
    <2>1. CASE s = <<>>
      BY <1>1, <2>1 DEF Shows, NextHeight
    <2>2. CASE s # <<>>
      <3>1. Len(HeadersOf(s)) # 0
        BY <2>2, HeadersOfFacts, EmptySeq
      <3>2. ch.headers # <<>>
        BY <3>1 DEF Shows
      <3> QED
        BY <1>1, <3>2 DEF NextHeight
    <2> QED
      BY <2>1, <2>2
  <1>3. TipHash(ch) = TipHash(dh)
    BY <1>1 DEF TipHash
  <1>4. Subsidy(ch, b) = Subsidy(dh, b)
    BY <1>1 DEF Subsidy
  <1> QED
    BY <1>1, <1>2, <1>3, <1>4 DEF CanApply, PassesRules

-----------------------------------------------------------------------------
(* Beginnings of sequences *)

\* The first k elements of s.
UpTo(s, k) == SubSeq(s, 1, k)

\* A beginning of s is a sequence of its first elements.
LEMMA UpToFacts ==
    ASSUME NEW s \in Seq(Blocks), NEW k \in 0..Len(s)
    PROVE  /\ UpTo(s, k) \in Seq(Blocks) /\ Len(UpTo(s, k)) = k
           /\ \A i \in 1..k : UpTo(s, k)[i] = s[i]
  <1>1. Len(s) \in Nat /\ \A i \in 1..Len(s) : s[i] \in Blocks
    BY LenProperties
  <1>2. k \in Int /\ \A i \in 1..k : s[i] \in Blocks
    BY <1>1
  <1>3. /\ UpTo(s, k) \in Seq(Blocks)
        /\ Len(UpTo(s, k)) = IF 1 <= k THEN k - 1 + 1 ELSE 0
        /\ \A i \in 1..(k - 1 + 1) : UpTo(s, k)[i] = s[1 + i - 1]
    BY <1>2, SubSeqProperties DEF UpTo
  <1>4. k - 1 + 1 = k /\ \A i \in 1..k : 1 + i - 1 = i
    BY <1>2
  <1> QED
    BY <1>1, <1>2, <1>3, <1>4

\* Two beginnings are equal when their elements are.
LEMMA SameUpTo ==
    ASSUME NEW s \in Seq(Blocks), NEW t \in Seq(Blocks),
           NEW k \in 0..Len(s), k <= Len(t), \A i \in 1..k : s[i] = t[i]
    PROVE  UpTo(s, k) = UpTo(t, k)
  <1>1. k \in 0..Len(t)
    BY LenProperties
  <1>2. /\ UpTo(s, k) \in Seq(Blocks) /\ Len(UpTo(s, k)) = k
        /\ \A i \in 1..k : UpTo(s, k)[i] = s[i]
    BY UpToFacts
  <1>3. /\ UpTo(t, k) \in Seq(Blocks) /\ Len(UpTo(t, k)) = k
        /\ \A i \in 1..k : UpTo(t, k)[i] = t[i]
    BY <1>1, UpToFacts
  <1> QED
    BY <1>2, <1>3, SeqEqual

\* The beginning of no element.
LEMMA UpToNone == ASSUME NEW s PROVE UpTo(s, 0) = <<>>
  BY SubSeqEmpty DEF UpTo

\* The beginning that is all of s.
LEMMA UpToAll == ASSUME NEW s \in Seq(Blocks) PROVE UpTo(s, Len(s)) = s
  BY SubSeqFull DEF UpTo

\* A beginning one element longer.
LEMMA UpToMore ==
    ASSUME NEW s \in Seq(Blocks), NEW k \in 0..(Len(s) - 1)
    PROVE  /\ UpTo(s, k + 1) = Append(UpTo(s, k), s[k + 1])
           /\ UpTo(s, k) \in Seq(Blocks) /\ s[k + 1] \in Blocks
  <1>1. Len(s) \in Nat /\ k + 1 \in 0..Len(s) /\ k \in 0..Len(s) /\ k + 1 \in 1..Len(s)
    BY LenProperties
  <1>2. s[k + 1] \in Blocks
    BY <1>1, ElementOfSeq
  <1>3. /\ UpTo(s, k) \in Seq(Blocks) /\ Len(UpTo(s, k)) = k
        /\ \A i \in 1..k : UpTo(s, k)[i] = s[i]
    BY <1>1, UpToFacts
  <1>4. /\ UpTo(s, k + 1) \in Seq(Blocks) /\ Len(UpTo(s, k + 1)) = k + 1
        /\ \A i \in 1..(k + 1) : UpTo(s, k + 1)[i] = s[i]
    BY <1>1, UpToFacts
  <1> DEFINE a == Append(UpTo(s, k), s[k + 1])
  <1>5. /\ a \in Seq(Blocks) /\ Len(a) = k + 1
        /\ \A i \in 1..k : a[i] = UpTo(s, k)[i]
        /\ a[k + 1] = s[k + 1]
    BY <1>2, <1>3, AppendProperties
  <1> HIDE DEF a
  <1>6. \A i \in 1..(k + 1) : UpTo(s, k + 1)[i] = a[i]
    BY <1>1, <1>3, <1>4, <1>5
  <1>7. UpTo(s, k + 1) = a
    BY <1>4, <1>5, <1>6, SeqEqual
  <1> QED
    BY <1>2, <1>3, <1>7 DEF a

\* The headers of a beginning are a beginning of the headers.
LEMMA HeadersUpTo ==
    ASSUME NEW s \in Seq(Blocks), NEW k \in 0..Len(s)
    PROVE  SubSeq(HeadersOf(s), 1, k) = HeadersOf(UpTo(s, k))
  <1> DEFINE H == {HeaderOf(b) : b \in Blocks}
             p == UpTo(s, k)
             x == SubSeq(HeadersOf(s), 1, k)
  <1>1. p \in Seq(Blocks) /\ Len(p) = k /\ \A i \in 1..k : p[i] = s[i]
    BY UpToFacts
  <1>2. /\ HeadersOf(s) \in Seq(H) /\ Len(HeadersOf(s)) = Len(s) /\ Len(s) \in Nat
        /\ \A i \in 1..Len(s) : HeadersOf(s)[i] = HeaderOf(s[i]) /\ HeadersOf(s)[i] \in H
    BY HeadersOfFacts
  <1>3. HeadersOf(p) \in Seq(H) /\ Len(HeadersOf(p)) = k
          /\ \A i \in 1..k : HeadersOf(p)[i] = HeaderOf(p[i])
    BY <1>1, HeadersOfFacts
  <1> HIDE DEF H, p
  <1>4. k \in Int /\ k - 1 + 1 = k /\ \A i \in 1..k : i \in 1..Len(s) /\ 1 + i - 1 = i
    BY <1>2
  <1>5. x \in Seq(H) /\ Len(x) = k /\ \A i \in 1..k : x[i] = HeadersOf(s)[i]
    <2>1. \A i \in 1..k : HeadersOf(s)[i] \in H
      BY <1>2, <1>4
    <2>2. /\ x \in Seq(H) /\ Len(x) = IF 1 <= k THEN k - 1 + 1 ELSE 0
          /\ \A i \in 1..(k - 1 + 1) : x[i] = HeadersOf(s)[1 + i - 1]
      BY <1>4, <2>1, SubSeqProperties
    <2> QED
      BY <1>4, <2>2
  <1> HIDE DEF x
  <1>6. \A i \in 1..Len(x) : x[i] = HeadersOf(p)[i]
    BY <1>1, <1>2, <1>3, <1>4, <1>5
  <1>7. x = HeadersOf(p)
    BY <1>3, <1>5, <1>6, SeqEqual
  <1> QED
    BY <1>7 DEF x, p

\* A beginning of a beginning.
LEMMA UpToUpTo ==
    ASSUME NEW s \in Seq(Blocks), NEW k \in 0..Len(s), NEW j \in 0..k
    PROVE  UpTo(UpTo(s, k), j) = UpTo(s, j)
  <1>1. /\ UpTo(s, k) \in Seq(Blocks) /\ Len(UpTo(s, k)) = k
        /\ \A i \in 1..k : UpTo(s, k)[i] = s[i]
    BY UpToFacts
  <1>2. Len(s) \in Nat /\ j \in 0..Len(UpTo(s, k)) /\ j <= Len(s)
          /\ \A i \in 1..j : UpTo(s, k)[i] = s[i]
    BY <1>1, LenProperties
  <1> QED
    BY <1>1, <1>2, SameUpTo

\* The beginnings of s are those of s with one block more.
LEMMA UpToAppend ==
    ASSUME NEW s \in Seq(Blocks), NEW b \in Blocks, NEW k \in 0..Len(s)
    PROVE  UpTo(Append(s, b), k) = UpTo(s, k)
  <1> DEFINE a == Append(s, b)
  <1>1. /\ a \in Seq(Blocks) /\ Len(s) \in Nat /\ Len(a) = Len(s) + 1
        /\ \A i \in 1..Len(s) : a[i] = s[i]
    BY AppendProperties
  <1> HIDE DEF a
  <1>2. k <= Len(a) /\ \A i \in 1..k : s[i] = a[i]
    BY <1>1
  <1>3. UpTo(s, k) = UpTo(a, k)
    BY <1>1, <1>2, SameUpTo
  <1> QED
    BY <1>3 DEF a

-----------------------------------------------------------------------------
(* Valid chains *)

\* Every block of s passes every rule on top of the ones before it.
Valid(s) ==
    \A i \in 1..Len(s) :
        CanApply(AppliedAll(NewChain, UpTo(s, i - 1)), s[i], s[i].time)

\* A block that can be applied now can be applied at its own time.
LEMMA AnyClock ==
    ASSUME NEW ch, NEW b \in Blocks, NEW t, CanApply(ch, b, t)
    PROVE  CanApply(ch, b, b.time)
  <1>1. b.time \in Nat /\ MaxDrift \in Nat
    BY ChainAssumption
  <1>2. b.time <= b.time + MaxDrift
    BY <1>1
  <1> QED
    BY <1>2 DEF CanApply, PassesRules

\* The chain of no block is valid.
LEMMA ValidNone == Valid(<<>>)
  BY DEF Valid

\* A block that applies to a valid chain makes a valid chain.
LEMMA ValidMore ==
    ASSUME NEW ch, NEW s \in Seq(Blocks), NEW b \in Blocks, NEW t,
           Shows(ch, s), Valid(s), CanApply(ch, b, t)
    PROVE  Valid(Append(s, b))
  <1> DEFINE a == Append(s, b)
  <1>1. /\ a \in Seq(Blocks) /\ Len(s) \in Nat /\ Len(a) = Len(s) + 1
        /\ \A i \in 1..Len(s) : a[i] = s[i]
        /\ a[Len(s) + 1] = b
    BY AppendProperties
  <1>2. \A k \in 0..Len(s) : UpTo(a, k) = UpTo(s, k)
    BY UpToAppend
  <1>3. UpTo(a, Len(s)) = s
    BY <1>1, <1>2, UpToAll
  <1>4. CanApply(AppliedAll(NewChain, s), b, b.time)
    <2>1. Shows(AppliedAll(NewChain, s), s)
      BY StateShows
    <2>2. CanApply(ch, b, b.time)
      BY AnyClock
    <2> QED
      BY <2>1, <2>2, SameView
  <1> HIDE DEF a
  <1>5. ASSUME NEW i \in 1..Len(a)
        PROVE  CanApply(AppliedAll(NewChain, UpTo(a, i - 1)), a[i], a[i].time)
    <2>1. CASE i = Len(s) + 1
      <3>1. i - 1 = Len(s)
        BY <1>1, <2>1
      <3> QED
        BY <1>1, <1>3, <1>4, <2>1, <3>1
    <2>2. CASE i # Len(s) + 1
      <3>1. i \in 1..Len(s) /\ i - 1 \in 0..Len(s)
        BY <1>1, <2>2
      <3>2. a[i] = s[i] /\ UpTo(a, i - 1) = UpTo(s, i - 1)
        BY <1>1, <1>2, <3>1
      <3> QED
        BY <3>1, <3>2 DEF Valid
    <2> QED
      BY <2>1, <2>2
  <1> QED
    BY <1>5 DEF Valid, a

\* Every beginning of a valid chain is valid.
LEMMA ValidUpTo ==
    ASSUME NEW s \in Seq(Blocks), Valid(s), NEW k \in 0..Len(s)
    PROVE  Valid(UpTo(s, k))
  <1>1. /\ UpTo(s, k) \in Seq(Blocks) /\ Len(UpTo(s, k)) = k
        /\ \A i \in 1..k : UpTo(s, k)[i] = s[i]
    BY UpToFacts
  <1>2. ASSUME NEW i \in 1..k
        PROVE  CanApply(AppliedAll(NewChain, UpTo(UpTo(s, k), i - 1)),
                        UpTo(s, k)[i], UpTo(s, k)[i].time)
    <2>1. i - 1 \in 0..k /\ i \in 1..Len(s)
      BY LenProperties
    <2>2. UpTo(UpTo(s, k), i - 1) = UpTo(s, i - 1) /\ UpTo(s, k)[i] = s[i]
      BY <1>1, <2>1, UpToUpTo
    <2> QED
      BY <2>1, <2>2 DEF Valid
  <1> QED
    BY <1>1, <1>2 DEF Valid

\* What a chain that shows s says of its tip.
LEMMA TipShown ==
    ASSUME NEW ch, NEW s \in Seq(Blocks), Shows(ch, s)
    PROVE  /\ Len(ch.headers) = Len(s)
           /\ s = <<>> => TipHash(ch) = GenesisHash /\ NextHeight(ch) = 0
           /\ s # <<>> => /\ TipHash(ch) = s[Len(s)].hash
                          /\ TipHeight(ch) = s[Len(s)].height
                          /\ NextHeight(ch) = s[Len(s)].height + 1
  <1>1. /\ Len(ch.headers) = Len(s) /\ Len(s) \in Nat
        /\ \A i \in 1..Len(s) : ch.headers[i] = HeaderOf(s[i])
    BY HeadersOfFacts DEF Shows
  <1>2. CASE s = <<>>
    <2>1. ch.headers = <<>> /\ ch.firstHeight = 0
      BY <1>2 DEF Shows, HeadersOf
    <2> QED
      BY <1>1, <1>2, <2>1 DEF TipHash, NextHeight
  <1>3. CASE s # <<>>
    <2>1. Len(s) # 0
      BY <1>3, EmptySeq
    <2>2. ch.headers # <<>> /\ Last(ch.headers) = HeaderOf(s[Len(s)])
      BY <1>1, <2>1 DEF Last
    <2> QED
      BY <1>1, <1>3, <2>2 DEF TipHash, NextHeight, TipHeight, HeaderOf
  <1> QED
    BY <1>2, <1>3

\* What the blocks before the i-th of s ask of it.
LEMMA NextAfter ==
    ASSUME NEW s \in Seq(Blocks), NEW i \in 1..Len(s)
    PROVE  LET ch == AppliedAll(NewChain, UpTo(s, i - 1))
           IN  /\ NextHeight(ch) = IF i = 1 THEN 0 ELSE s[i - 1].height + 1
               /\ TipHash(ch) = IF i = 1 THEN GenesisHash ELSE s[i - 1].hash
               /\ Shows(ch, UpTo(s, i - 1))
  <1> DEFINE p == UpTo(s, i - 1)
             ch == AppliedAll(NewChain, p)
  <1>1. Len(s) \in Nat /\ i - 1 \in 0..Len(s)
    BY LenProperties
  <1>2. /\ p \in Seq(Blocks) /\ Len(p) = i - 1
        /\ \A j \in 1..(i - 1) : p[j] = s[j]
    BY <1>1, UpToFacts
  <1>3. Shows(ch, p)
    BY <1>2, StateShows
  <1> HIDE DEF ch, p
  <1>4. CASE i = 1
    <2>1. p = <<>>
      BY <1>2, <1>4, EmptySeq
    <2> QED
      BY <1>2, <1>3, <1>4, <2>1, TipShown DEF ch, p
  <1>5. CASE i # 1
    <2>1. p # <<>> /\ p[Len(p)] = s[i - 1]
      BY <1>2, <1>5, EmptySeq
    <2>2. NextHeight(ch) = s[i - 1].height + 1 /\ TipHash(ch) = s[i - 1].hash
      BY <1>2, <1>3, <2>1, TipShown
    <2> QED
      BY <1>3, <1>5, <2>2 DEF ch, p
  <1> QED
    BY <1>4, <1>5

\* Each block of s is linked to the one before it.
InLine(s) ==
    \A i \in 1..Len(s) :
        /\ s[i].height = IF i = 1 THEN 0 ELSE s[i - 1].height + 1
        /\ s[i].prev = IF i = 1 THEN GenesisHash ELSE s[i - 1].hash

\* What each block of a valid chain went through.
LEMMA ValidBlock ==
    ASSUME NEW s \in Seq(Blocks), Valid(s), NEW i \in 1..Len(s)
    PROVE  /\ s[i].height = IF i = 1 THEN 0 ELSE s[i - 1].height + 1
           /\ s[i].prev = IF i = 1 THEN GenesisHash ELSE s[i - 1].hash
           /\ Acceptable(LedgerOf(UpTo(s, i - 1)), s[i].body, s[i].height,
                         RewardAt(s[i].height, LedgerOf(UpTo(s, i - 1)).minted))
  <1> DEFINE ch == AppliedAll(NewChain, UpTo(s, i - 1))
  <1>1. CanApply(ch, s[i], s[i].time)
    BY DEF Valid
  <1>2. /\ NextHeight(ch) = IF i = 1 THEN 0 ELSE s[i - 1].height + 1
        /\ TipHash(ch) = IF i = 1 THEN GenesisHash ELSE s[i - 1].hash
        /\ ch.ledger = LedgerOf(UpTo(s, i - 1))
    BY NextAfter DEF Shows
  <1> HIDE DEF ch
  <1>3. /\ s[i].height = NextHeight(ch) /\ s[i].prev = TipHash(ch)
        /\ Acceptable(ch.ledger, s[i].body, s[i].height, Subsidy(ch, s[i]))
    BY <1>1 DEF CanApply, PassesRules
  <1> QED
    BY <1>2, <1>3 DEF Subsidy

\* A valid chain is in line.
LEMMA ValidInLine == ASSUME NEW s \in Seq(Blocks), Valid(s) PROVE InLine(s)
  BY ValidBlock DEF InLine

\* So are blocks that were only replayed, and each has the hash pinned at its height.
LEMMA ReplayInLine ==
    ASSUME NEW s \in Seq(Blocks), AllReplay(NewChain, s)
    PROVE  InLine(s) /\ \A i \in 1..Len(s) : Unpinned(s[i])
  <1> SUFFICES ASSUME NEW i \in 1..Len(s)
               PROVE  /\ s[i].height = IF i = 1 THEN 0 ELSE s[i - 1].height + 1
                      /\ s[i].prev = IF i = 1 THEN GenesisHash ELSE s[i - 1].hash
                      /\ Unpinned(s[i])
    BY DEF InLine
  <1> DEFINE ch == AppliedAll(NewChain, UpTo(s, i - 1))
  <1>1. CanReplay(ch, s[i])
    BY LenProperties DEF AllReplay, UpTo
  <1>2. /\ NextHeight(ch) = IF i = 1 THEN 0 ELSE s[i - 1].height + 1
        /\ TipHash(ch) = IF i = 1 THEN GenesisHash ELSE s[i - 1].hash
    BY NextAfter
  <1> HIDE DEF ch
  <1> QED
    BY <1>1, <1>2 DEF CanReplay

\* Heights of blocks in line count from genesis, at 0.
LEMMA Heights ==
    ASSUME NEW s \in Seq(Blocks), InLine(s)
    PROVE  \A i \in 1..Len(s) : s[i].height = i - 1
  <1> DEFINE S == {k \in 0..Len(s) : k # 0 => s[k].height = k - 1}
  <1>1. Len(s) \in Nat /\ 0 \in S
    BY LenProperties
  <1>2. ASSUME NEW k \in 0..(Len(s) - 1), k \in S PROVE k + 1 \in S
    <2>1. k + 1 \in 1..Len(s) /\ (k + 1) - 1 = k /\ k \in 0..Len(s)
      BY <1>1
    <2>2. s[k + 1].height = IF k + 1 = 1 THEN 0 ELSE s[k].height + 1
      BY <2>1 DEF InLine
    <2> QED
      BY <1>2, <2>1, <2>2
  <1>3. \A k \in 0..Len(s) : k \in S
    <2> HIDE DEF S
    <2> QED
      BY <1>1, <1>2, InductUpTo
  <1> QED
    BY <1>1, <1>3

\* Blocks in line are determined by the last: hashes link it to the others.
LEMMA SameTip ==
    ASSUME NEW s \in Seq(Blocks), NEW t \in Seq(Blocks), InLine(s), InLine(t),
           s # <<>>, t # <<>>, s[Len(s)].hash = t[Len(t)].hash
    PROVE  s = t
  <1>1. /\ Len(s) \in Nat /\ Len(s) # 0 /\ \A i \in 1..Len(s) : s[i] \in Blocks
        /\ Len(t) \in Nat /\ Len(t) # 0 /\ \A i \in 1..Len(t) : t[i] \in Blocks
    BY LenProperties, EmptySeq
  <1>2. \A b, d \in Blocks : b.hash = d.hash => b = d
    BY ChainAssumption
  <1>3. s[Len(s)] = t[Len(t)]
    BY <1>1, <1>2
  <1>4. Len(s) = Len(t)
    <2>1. s[Len(s)].height = Len(s) - 1 /\ t[Len(t)].height = Len(t) - 1
      BY <1>1, Heights
    <2> QED
      BY <1>1, <1>3, <2>1
  <1> DEFINE n == Len(s) - 1
             S == {k \in 0..n : s[Len(s) - k] = t[Len(s) - k]}
  <1>5. n \in Nat /\ 0 \in S
    BY <1>1, <1>3, <1>4
  <1>6. ASSUME NEW k \in 0..(n - 1), k \in S PROVE k + 1 \in S
    <2> DEFINE i == Len(s) - k
    <2>1. i \in 1..Len(s) /\ i # 1 /\ i \in 1..Len(t) /\ i - 1 \in 1..Len(s)
            /\ i - 1 = Len(s) - (k + 1) /\ i - 1 \in 1..Len(t)
      BY <1>1, <1>4
    <2>2. s[i] = t[i]
      BY <1>6
    <2> HIDE DEF i
    <2>3. s[i].prev = s[i - 1].hash /\ t[i].prev = t[i - 1].hash
      BY <2>1 DEF InLine
    <2>4. s[i - 1] = t[i - 1]
      BY <1>1, <1>2, <2>1, <2>2, <2>3
    <2>5. k + 1 \in 0..n
      BY <1>1
    <2> QED
      BY <2>1, <2>4, <2>5
  <1>7. \A k \in 0..n : k \in S
    <2> HIDE DEF S, n
    <2> QED
      BY <1>5, <1>6, InductUpTo
  <1>8. ASSUME NEW i \in 1..Len(s) PROVE s[i] = t[i]
    <2>1. Len(s) - i \in 0..n /\ Len(s) - (Len(s) - i) = i
      BY <1>1
    <2> QED
      BY <1>7, <2>1
  <1> QED
    BY <1>4, <1>8, SeqEqual

-----------------------------------------------------------------------------
(* Undo records *)

\* A ledger value: its unspent set is a map, and it has no other fields.
IsLedger(L) ==
    /\ L = [utxos |-> L.utxos, minted |-> L.minted, burned |-> L.burned,
            txCount |-> L.txCount, height |-> L.height]
    /\ L.utxos = [c \in DOMAIN L.utxos |-> L.utxos[c]]

\* On the unspent set alone: drop what was created, put back what was spent.
LEMMA RewindUtxos ==
    ASSUME NEW L, NEW body, NEW h, NEW subsidy, IsLedger(L),
           Spent(body) \subseteq DOMAIN L.utxos,
           Created(body) \cap DOMAIN L.utxos = {}
    PROVE  Rewind(Commit(L, body, h, subsidy), CaptureUndo(L, body)).utxos = L.utxos
  <1> DEFINE u == L.utxos
             after == UtxosAfter(u, body, h)
             spent == [c \in Spent(body) |-> u[c]]
             back == [c \in (DOMAIN after \ Created(body)) \cup DOMAIN spent |->
                        IF c \in DOMAIN spent THEN spent[c] ELSE after[c]]
  <1>1. Rewind(Commit(L, body, h, subsidy), CaptureUndo(L, body)).utxos = back
    BY DEF Rewind, Commit, CaptureUndo
  <1>2. DOMAIN after = (DOMAIN u \ Spent(body)) \cup Created(body)
    BY DEF UtxosAfter
  <1>3. DOMAIN spent = Spent(body)
    OBVIOUS
  <1>4. DOMAIN back = DOMAIN u
    BY <1>2, <1>3
  <1>5. ASSUME NEW c \in DOMAIN u PROVE back[c] = u[c]
    <2>1. CASE c \in Spent(body)
      BY <2>1, <1>3
    <2>2. CASE c \notin Spent(body)
      <3>1. c \in (DOMAIN u \ Spent(body)) \cup Created(body) /\ c \notin Created(body)
        BY <2>2
      <3>2. after[c] = u[c]
        BY <3>1 DEF UtxosAfter
      <3> QED
        BY <1>3, <1>4, <2>2, <3>2
    <2> QED
      BY <2>1, <2>2
  <1>6. back = [c \in DOMAIN u |-> u[c]]
    <2>1. back = [c \in DOMAIN back |-> back[c]]
      OBVIOUS
    <2> QED
      BY <2>1, <1>4, <1>5
  <1> QED
    BY <1>1, <1>6 DEF IsLedger

\* Rewinding a block that apply_block accepted gives back the very ledger it
\* was applied to: the unspent set, with the heights and the coinbase flags of
\* what the block spent, the totals, the transaction count and the height.
THEOREM RewindUndoesBlock ==
    ASSUME NEW L, NEW body, NEW h, NEW subsidy, IsLedger(L),
           Acceptable(L, body, h, subsidy)
    PROVE  Rewind(Commit(L, body, h, subsidy), CaptureUndo(L, body)) = L
  <1>1. Spent(body) \subseteq DOMAIN L.utxos /\ Created(body) \cap DOMAIN L.utxos = {}
    BY DEF Acceptable
  <1>2. Rewind(Commit(L, body, h, subsidy), CaptureUndo(L, body)).utxos = L.utxos
    BY <1>1, RewindUtxos
  <1> DEFINE after == Commit(L, body, h, subsidy)
             undo == CaptureUndo(L, body)
  <1>3. undo.minted = L.minted /\ undo.burned = L.burned
          /\ undo.txCount = L.txCount /\ undo.height = L.height
    BY DEF CaptureUndo
  <1>4. Rewind(after, undo) = [utxos |-> Rewind(after, undo).utxos,
            minted |-> undo.minted, burned |-> undo.burned,
            txCount |-> undo.txCount, height |-> undo.height]
    BY DEF Rewind
  <1> QED
    BY <1>2, <1>3, <1>4 DEF IsLedger

\* Every ledger that blocks lead to is a ledger value.
LEMMA LedgerOfIsLedger == \A s \in Seq(Blocks) : IsLedger(LedgerOf(s))
  <1> DEFINE S == {s \in Seq(Blocks) : IsLedger(LedgerOf(s))}
  <1>1. <<>> \in S
    <2>1. <<>> = [c \in {} |-> <<>>[c]] /\ <<>> \in Seq(Blocks)
      OBVIOUS
    <2>2. IsLedger(Genesis)
      BY <2>1 DEF IsLedger, Genesis
    <2> QED
      BY <2>1, <2>2, LedgerNone
  <1>2. ASSUME NEW s \in Seq(Blocks), NEW b \in Blocks, s \in S
        PROVE  Append(s, b) \in S
    <2>1. LedgerOf(Append(s, b)) = Took(LedgerOf(s), b) /\ Append(s, b) \in Seq(Blocks)
      BY LedgerMore, AppendProperties
    <2> DEFINE L == LedgerOf(s)
    <2>2. IsLedger(Took(L, b))
      <3> HIDE DEF L
      <3>1. UtxosAfter(L.utxos, b.body, b.height) =
              [c \in DOMAIN UtxosAfter(L.utxos, b.body, b.height) |->
                 UtxosAfter(L.utxos, b.body, b.height)[c]]
        BY DEF UtxosAfter
      <3> DEFINE after == UtxosAfter(L.utxos, b.body, b.height)
                 mint == RewardAt(b.height, L.minted)
      <3>2. Took(L, b) =
              [utxos |-> after, minted |-> L.minted + mint,
               burned |-> IF mint > 0 THEN L.burned + b.body.fee ELSE L.burned,
               txCount |-> L.txCount + b.body.kernels, height |-> b.height]
        BY DEF Took, Commit
      <3> HIDE DEF after, mint
      <3> QED
        BY <3>1, <3>2 DEF IsLedger, after
    <2> QED
      BY <2>1, <2>2
  <1>3. \A s \in Seq(Blocks) : s \in S
    <2> HIDE DEF S
    <2> QED
      BY <1>1, <1>2, SeqInduct
  <1> QED
    BY <1>3

\* The undo record of the i-th block of s.
UndoAt(s, i) == UndoOf(LedgerOf(UpTo(s, i - 1)), s[i])

Undos == {UndoOf(LedgerOf(s), b) : s \in Seq(Blocks), b \in Blocks}

\* u holds the undo records of the last blocks of s.
Covers(u, s) ==
    /\ u \in Seq(Undos) /\ Len(u) <= Len(s)
    /\ \A j \in 1..Len(u) : u[j] = UndoAt(s, Len(s) - Len(u) + j)

\* The undo record of a block of a valid chain holds its work, and rewinds it.
LEMMA UndoAtFacts ==
    ASSUME NEW s \in Seq(Blocks), Valid(s), NEW i \in 1..Len(s)
    PROVE  /\ UndoAt(s, i) \in Undos
           /\ UndoAt(s, i).work = BlockWork(s[i])
           /\ Rewind(LedgerOf(UpTo(s, i)), UndoAt(s, i).state) = LedgerOf(UpTo(s, i - 1))
  <1>1. Len(s) \in Nat /\ i - 1 \in 0..(Len(s) - 1) /\ (i - 1) + 1 = i
    BY LenProperties
  <1> DEFINE p == UpTo(s, i - 1)
             L == LedgerOf(p)
  <1>2. UpTo(s, i) = Append(p, s[i]) /\ p \in Seq(Blocks) /\ s[i] \in Blocks
    BY <1>1, UpToMore
  <1>3. UndoAt(s, i) \in Undos
    BY <1>2 DEF UndoAt, Undos
  <1>4. UndoAt(s, i).work = BlockWork(s[i]) /\ UndoAt(s, i).state = CaptureUndo(L, s[i].body)
    BY DEF UndoAt, UndoOf
  <1>5. Acceptable(L, s[i].body, s[i].height, RewardAt(s[i].height, L.minted))
    BY ValidBlock
  <1>6. LedgerOf(UpTo(s, i)) = Took(L, s[i])
    BY <1>2, LedgerMore
  <1>7. IsLedger(L)
    BY <1>2, LedgerOfIsLedger
  <1> HIDE DEF L, p
  <1>8. Rewind(Took(L, s[i]), CaptureUndo(L, s[i].body)) = L
    BY <1>5, <1>7, RewindUndoesBlock DEF Took
  <1> QED
    BY <1>3, <1>4, <1>6, <1>8 DEF L, p

\* The work of a block is positive, that of a chain a number.
LEMMA BlockWorkPositive ==
    ASSUME NEW b \in Blocks PROVE BlockWork(b) \in Nat /\ BlockWork(b) >= 1
  BY ChainAssumption DEF BlockWork, AtLeast

\* The work of a chain is a natural number.
LEMMA WorkIsNat == \A s \in Seq(Blocks) : WorkOfSeq(s) \in Nat
  <1> DEFINE S == {s \in Seq(Blocks) : WorkOfSeq(s) \in Nat}
  <1>1. <<>> \in S
    BY WorkNone
  <1>2. ASSUME NEW s \in Seq(Blocks), NEW b \in Blocks, s \in S
        PROVE  Append(s, b) \in S
    BY <1>2, WorkMore, BlockWorkPositive, AppendProperties
  <1>3. \A s \in Seq(Blocks) : s \in S
    <2> HIDE DEF S
    <2> QED
      BY <1>1, <1>2, SeqInduct
  <1> QED
    BY <1>3

\* Rewinding no block takes no work off.
LEMMA RewoundWorkNone == ASSUME NEW ch PROVE RewoundWork(ch, 0) = 0
  BY SumUpNone DEF RewoundWork

\* Rewinding one block more takes off the work its record holds.
LEMMA RewoundWorkMore ==
    ASSUME NEW ch, NEW n \in Nat, Len(ch.undos) \in Nat
    PROVE  RewoundWork(ch, n + 1) = RewoundWork(ch, n) + ch.undos[Len(ch.undos) - n].work
  <1> DEFINE w == [k \in 1..(n + 1) |-> ch.undos[Len(ch.undos) - k + 1].work]
             v == [k \in 1..n |-> ch.undos[Len(ch.undos) - k + 1].work]
  <1>1. \A i \in 1..n : w[i] = v[i]
    OBVIOUS
  <1>2. w[n + 1] = ch.undos[Len(ch.undos) - n].work
    <2>1. n + 1 \in 1..(n + 1) /\ Len(ch.undos) - (n + 1) + 1 = Len(ch.undos) - n
      OBVIOUS
    <2> QED
      BY <2>1
  <1>3. RewoundWork(ch, n + 1) = SumUp(w, n + 1) /\ RewoundWork(ch, n) = SumUp(v, n)
    BY DEF RewoundWork
  <1> HIDE DEF w, v
  <1> QED
    BY <1>1, <1>2, <1>3, SumUpMore

\* Rewinding n blocks gives the ledger and the work n blocks ago.
LEMMA BackExact ==
    ASSUME NEW ch, NEW s \in Seq(Blocks), Valid(s), Shows(ch, s), Covers(ch.undos, s)
    PROVE  \A n \in 0..Len(ch.undos) :
              /\ RewoundLedger(ch, n) = LedgerOf(UpTo(s, Len(s) - n))
              /\ RewoundWork(ch, n) = WorkOfSeq(s) - WorkOfSeq(UpTo(s, Len(s) - n))
  <1> DEFINE S == {n \in 0..Len(ch.undos) :
                      /\ RewoundLedger(ch, n) = LedgerOf(UpTo(s, Len(s) - n))
                      /\ RewoundWork(ch, n) = WorkOfSeq(s) - WorkOfSeq(UpTo(s, Len(s) - n))}
  <1>1. /\ Len(s) \in Nat /\ Len(ch.undos) \in Nat /\ Len(ch.undos) <= Len(s)
        /\ \A j \in 1..Len(ch.undos) : ch.undos[j] = UndoAt(s, Len(s) - Len(ch.undos) + j)
    BY LenProperties DEF Covers
  <1>2. 0 \in S
    <2>1. UpTo(s, Len(s) - 0) = s
      BY <1>1, UpToAll
    <2>2. RewoundWork(ch, 0) = WorkOfSeq(s) - WorkOfSeq(s)
      BY RewoundWorkNone, WorkIsNat
    <2> QED
      BY <1>1, <2>1, <2>2, RewoundNone DEF Shows
  <1>3. ASSUME NEW n \in 0..(Len(ch.undos) - 1), n \in S PROVE n + 1 \in S
    <2> DEFINE i == Len(s) - n
               p == UpTo(s, i - 1)
    <2> DEFINE u == Len(ch.undos)
               m == Len(s)
    <2>a. n \in 0..(u - 1) /\ m \in Nat /\ u \in Nat /\ u <= m /\ i = m - n
      BY <1>1
    <2> HIDE DEF S, u, m, i
    <2>b. /\ i \in 1..m /\ i - 1 \in 0..(m - 1) /\ (i - 1) + 1 = i
          /\ m - (n + 1) = i - 1 /\ n \in Nat /\ n + 1 \in 0..u
          /\ u - n \in 1..u /\ m - u + (u - n) = i
      BY <2>a
    <2>1. /\ i \in 1..Len(s) /\ i - 1 \in 0..(Len(s) - 1) /\ (i - 1) + 1 = i
          /\ Len(s) - (n + 1) = i - 1 /\ n \in Nat /\ n + 1 \in 0..Len(ch.undos)
          /\ Len(ch.undos) - n \in 1..Len(ch.undos)
          /\ Len(s) - Len(ch.undos) + (Len(ch.undos) - n) = i
      BY <2>b DEF u, m
    <2>2. ch.undos[Len(ch.undos) - n] = UndoAt(s, i)
      BY <1>1, <2>1
    <2>3. /\ RewoundLedger(ch, n) = LedgerOf(UpTo(s, i))
          /\ RewoundWork(ch, n) = WorkOfSeq(s) - WorkOfSeq(UpTo(s, i))
      BY <1>3 DEF S, i
    <2>4. RewoundLedger(ch, n + 1) = LedgerOf(p)
      <3>1. RewoundLedger(ch, n + 1) =
              Rewind(RewoundLedger(ch, n), ch.undos[Len(ch.undos) - n].state)
        BY <1>1, <2>1, RewoundMore
      <3>2. Rewind(LedgerOf(UpTo(s, i)), UndoAt(s, i).state) = LedgerOf(p)
        BY <2>1, UndoAtFacts
      <3> QED
        BY <2>2, <2>3, <3>1, <3>2
    <2>5. RewoundWork(ch, n + 1) = RewoundWork(ch, n) + BlockWork(s[i])
      <3>1. Len(ch.undos) \in Nat /\ n \in Nat
        BY <1>1, <2>1
      <3>2. RewoundWork(ch, n + 1) = RewoundWork(ch, n) + ch.undos[Len(ch.undos) - n].work
        BY <3>1, RewoundWorkMore
      <3>3. UndoAt(s, i).work = BlockWork(s[i])
        BY <2>1, UndoAtFacts
      <3> QED
        BY <2>2, <3>2, <3>3
    <2>6. UpTo(s, i) = Append(p, s[i]) /\ p \in Seq(Blocks) /\ s[i] \in Blocks
      BY <2>1, UpToMore
    <2> HIDE DEF p
    <2>7. WorkOfSeq(UpTo(s, i)) = WorkOfSeq(p) + BlockWork(s[i])
      BY <2>6, WorkMore
    <2>8. WorkOfSeq(s) \in Nat /\ WorkOfSeq(p) \in Nat /\ BlockWork(s[i]) \in Nat
      BY <2>6, WorkIsNat, BlockWorkPositive
    <2>9. RewoundWork(ch, n + 1) = WorkOfSeq(s) - WorkOfSeq(p)
      BY <2>3, <2>5, <2>7, <2>8
    <2> QED
      BY <2>1, <2>4, <2>9 DEF p, S
  <1>4. \A n \in 0..Len(ch.undos) : n \in S
    <2> HIDE DEF S
    <2> QED
      BY <1>1, <1>2, <1>3, InductUpTo
  <1> QED
    BY <1>4

\* What keeping the last MaxReorgDepth records leaves.
LEMMA LastUndosFacts ==
    ASSUME NEW u \in Seq(Undos)
    PROVE  /\ LastUndos(u) \in Seq(Undos)
           /\ Len(LastUndos(u)) = IF Len(u) > MaxReorgDepth THEN MaxReorgDepth ELSE Len(u)
           /\ \A j \in 1..Len(LastUndos(u)) :
                 LastUndos(u)[j] = u[Len(u) - Len(LastUndos(u)) + j]
  <1>1. /\ Len(u) \in Nat /\ MaxReorgDepth \in Nat \ {0}
        /\ \A i \in 1..Len(u) : u[i] \in Undos
    BY LenProperties, ChainAssumption
  <1>2. CASE Len(u) > MaxReorgDepth
    <2> DEFINE m == Len(u) - MaxReorgDepth + 1
               n == Len(u)
    <2>1. LastUndos(u) = SubSeq(u, m, n)
      BY <1>2 DEF LastUndos, LastN
    <2>2. m \in Int /\ n \in Int /\ m \in 1..n /\ n - m + 1 = MaxReorgDepth
            /\ \A j \in 1..MaxReorgDepth : m + j - 1 = Len(u) - MaxReorgDepth + j
      BY <1>1, <1>2
    <2>3. \A i \in m..n : u[i] \in Undos
      BY <1>1, <2>2
    <2> HIDE DEF m, n
    <2>4. /\ SubSeq(u, m, n) \in Seq(Undos)
          /\ Len(SubSeq(u, m, n)) = n - m + 1
          /\ \A i \in 1..(n - m + 1) : SubSeq(u, m, n)[i] = u[m + i - 1]
      BY <2>2, <2>3, SubSeqProperties
    <2> QED
      BY <1>2, <2>1, <2>2, <2>4
  <1>3. CASE ~(Len(u) > MaxReorgDepth)
    <2>1. LastUndos(u) = u
      BY <1>3 DEF LastUndos
    <2>2. \A j \in 1..Len(u) : Len(u) - Len(u) + j = j
      BY <1>1
    <2> QED
      BY <1>3, <2>1, <2>2
  <1> QED
    BY <1>2, <1>3

\* Dropping the oldest records leaves records of the last blocks.
LEMMA CoversLast ==
    ASSUME NEW s \in Seq(Blocks), NEW u, Covers(u, s)
    PROVE  Covers(LastUndos(u), s)
  <1> DEFINE v == LastUndos(u)
  <1>1. /\ u \in Seq(Undos) /\ Len(s) \in Nat /\ Len(u) \in Nat /\ Len(u) <= Len(s)
        /\ \A j \in 1..Len(u) : u[j] = UndoAt(s, Len(s) - Len(u) + j)
    BY LenProperties DEF Covers
  <1>2. /\ v \in Seq(Undos) /\ Len(v) \in Nat /\ Len(v) <= Len(u)
        /\ \A j \in 1..Len(v) : v[j] = u[Len(u) - Len(v) + j]
    BY <1>1, LastUndosFacts, ChainAssumption
  <1> HIDE DEF v
  <1>3. ASSUME NEW j \in 1..Len(v) PROVE v[j] = UndoAt(s, Len(s) - Len(v) + j)
    <2>1. /\ Len(u) - Len(v) + j \in 1..Len(u)
          /\ Len(s) - Len(u) + (Len(u) - Len(v) + j) = Len(s) - Len(v) + j
      BY <1>1, <1>2
    <2> QED
      BY <1>1, <1>2, <2>1
  <1>4. Len(v) <= Len(s)
    BY <1>1, <1>2
  <1> QED
    BY <1>2, <1>3, <1>4 DEF Covers, v

\* Records that cover s, and those of its next block, cover both.
LEMMA CoversMore ==
    ASSUME NEW s \in Seq(Blocks), NEW b \in Blocks, NEW u, Covers(u, s)
    PROVE  Covers(Append(u, UndoOf(LedgerOf(s), b)), Append(s, b))
  <1> DEFINE t == Append(s, b)
             x == UndoOf(LedgerOf(s), b)
             v == Append(u, x)
  <1>1. /\ u \in Seq(Undos) /\ Len(u) \in Nat /\ Len(u) <= Len(s)
        /\ \A j \in 1..Len(u) : u[j] = UndoAt(s, Len(s) - Len(u) + j)
    BY LenProperties DEF Covers
  <1>2. /\ t \in Seq(Blocks) /\ Len(s) \in Nat /\ Len(t) = Len(s) + 1
        /\ \A i \in 1..Len(s) : t[i] = s[i]
        /\ t[Len(s) + 1] = b
    BY AppendProperties
  <1>3. x \in Undos
    BY DEF Undos
  <1>4. \A k \in 0..Len(s) : UpTo(t, k) = UpTo(s, k)
    BY UpToAppend
  <1>5. UndoAt(t, Len(s) + 1) = x
    <2>1. UpTo(t, (Len(s) + 1) - 1) = s
      BY <1>2, <1>4, UpToAll
    <2> QED
      BY <1>2, <2>1 DEF UndoAt
  <1>6. ASSUME NEW i \in 1..Len(s) PROVE UndoAt(t, i) = UndoAt(s, i)
    <2>1. i - 1 \in 0..Len(s)
      BY <1>2
    <2> QED
      BY <1>2, <1>4, <2>1 DEF UndoAt
  <1> HIDE DEF t, x
  <1>7. /\ v \in Seq(Undos) /\ Len(v) = Len(u) + 1
        /\ \A j \in 1..Len(u) : v[j] = u[j]
        /\ v[Len(u) + 1] = x
    BY <1>1, <1>3, AppendProperties
  <1> HIDE DEF v
  <1>8. ASSUME NEW j \in 1..Len(v) PROVE v[j] = UndoAt(t, Len(t) - Len(v) + j)
    <2>1. Len(t) - Len(v) + j = Len(s) - Len(u) + j
      BY <1>1, <1>2, <1>7
    <2>2. CASE j = Len(u) + 1
      <3>1. Len(s) - Len(u) + j = Len(s) + 1
        BY <1>1, <1>2, <2>2
      <3> QED
        BY <1>5, <1>7, <2>1, <2>2, <3>1
    <2>3. CASE j # Len(u) + 1
      <3>1. j \in 1..Len(u) /\ Len(s) - Len(u) + j \in 1..Len(s)
        BY <1>1, <1>2, <1>7, <2>3
      <3>2. v[j] = UndoAt(s, Len(s) - Len(u) + j)
        BY <1>1, <1>7, <3>1
      <3> QED
        BY <1>6, <2>1, <3>1, <3>2
    <2> QED
      BY <2>2, <2>3
  <1>9. Len(v) <= Len(t)
    BY <1>1, <1>2, <1>7
  <1> QED
    BY <1>7, <1>8, <1>9 DEF Covers, t, x, v

\* The oldest records of u cover the chain below the blocks taken off.
LEMMA CoversLess ==
    ASSUME NEW s \in Seq(Blocks), NEW u, Covers(u, s), NEW n \in 0..Len(u)
    PROVE  Covers(SubSeq(u, 1, Len(u) - n), UpTo(s, Len(s) - n))
  <1> DEFINE p == UpTo(s, Len(s) - n)
             k == Len(u) - n
             v == SubSeq(u, 1, k)
  <1>1. /\ u \in Seq(Undos) /\ Len(u) \in Nat /\ Len(s) \in Nat /\ Len(u) <= Len(s)
        /\ \A j \in 1..Len(u) : u[j] = UndoAt(s, Len(s) - Len(u) + j)
        /\ \A j \in 1..Len(u) : u[j] \in Undos
    BY LenProperties DEF Covers
  <1>2. Len(s) - n \in 0..Len(s) /\ k \in 0..Len(u) /\ k \in Int /\ 1 \in Int
    BY <1>1
  <1>3. /\ p \in Seq(Blocks) /\ Len(p) = Len(s) - n
        /\ \A i \in 1..Len(p) : p[i] = s[i]
    BY <1>2, UpToFacts
  <1> HIDE DEF k
  <1>4. \A i \in 1..k : u[i] \in Undos
    BY <1>1, <1>2
  <1>5. /\ v \in Seq(Undos) /\ Len(v) = IF 1 <= k THEN k - 1 + 1 ELSE 0
        /\ \A i \in 1..(k - 1 + 1) : v[i] = u[1 + i - 1]
    BY <1>2, <1>4, SubSeqProperties
  <1>6. Len(v) = k /\ \A i \in 1..k : v[i] = u[i]
    <2>1. k - 1 + 1 = k /\ \A i \in 1..k : 1 + i - 1 = i
      BY <1>2
    <2> QED
      BY <1>1, <1>2, <1>5, <2>1
  <1>7. \A i \in 1..Len(p) : UndoAt(p, i) = UndoAt(s, i)
    <2> SUFFICES ASSUME NEW i \in 1..Len(p) PROVE UndoAt(p, i) = UndoAt(s, i)
      OBVIOUS
    <2>1. i - 1 \in 0..(Len(s) - n)
      BY <1>2, <1>3
    <2>2. UpTo(p, i - 1) = UpTo(s, i - 1)
      BY <1>2, <2>1, UpToUpTo
    <2> QED
      BY <1>3, <2>2 DEF UndoAt
  <1> HIDE DEF p, v
  <1>8. ASSUME NEW j \in 1..Len(v) PROVE v[j] = UndoAt(p, Len(p) - Len(v) + j)
    <2>1. /\ j \in 1..Len(u) /\ Len(p) - Len(v) + j = Len(s) - Len(u) + j
          /\ Len(s) - Len(u) + j \in 1..Len(p)
      BY <1>1, <1>2, <1>3, <1>6 DEF k
    <2> QED
      BY <1>1, <1>6, <1>7, <2>1
  <1>9. Len(v) <= Len(p)
    BY <1>1, <1>3, <1>6 DEF k
  <1> QED
    BY <1>5, <1>8, <1>9 DEF Covers, p, v, k

\* u covers the chain q begins with, up to n, and v covers q: either from n on,
\* or a whole window of it.  Together they cover q.
LEMMA CoversJoined ==
    ASSUME NEW q \in Seq(Blocks), NEW n \in 0..Len(q), NEW u, NEW v,
           Covers(u, UpTo(q, n)), Covers(v, q),
           Len(v) = Len(q) - n \/ Len(v) >= MaxReorgDepth, Len(v) <= Len(q) - n
    PROVE  Covers(LastUndos(u \o v), q)
  <1> DEFINE p == UpTo(q, n)
             w == u \o v
             x == LastUndos(w)
  <1>1. /\ u \in Seq(Undos) /\ Len(u) \in Nat /\ Len(u) <= n
        /\ \A j \in 1..Len(u) : u[j] = UndoAt(q, n - Len(u) + j)
    <2>1. Len(q) \in Nat /\ p \in Seq(Blocks) /\ Len(p) = n /\ \A i \in 1..n : p[i] = q[i]
      BY UpToFacts, LenProperties
    <2>2. \A i \in 1..n : UndoAt(p, i) = UndoAt(q, i)
      <3> SUFFICES ASSUME NEW i \in 1..n PROVE UndoAt(p, i) = UndoAt(q, i)
        OBVIOUS
      <3>1. i - 1 \in 0..n
        BY <2>1
      <3>2. UpTo(p, i - 1) = UpTo(q, i - 1)
        BY <3>1, UpToUpTo
      <3> QED
        BY <2>1, <3>2 DEF UndoAt
    <2>3. u \in Seq(Undos) /\ Len(u) \in Nat /\ Len(u) <= n
            /\ \A j \in 1..Len(u) : u[j] = UndoAt(p, n - Len(u) + j)
      BY <2>1, LenProperties DEF Covers
    <2>4. \A j \in 1..Len(u) : n - Len(u) + j \in 1..n
      BY <2>1, <2>3
    <2> QED
      BY <2>2, <2>3, <2>4
  <1>2. /\ v \in Seq(Undos) /\ Len(v) \in Nat /\ Len(q) \in Nat
        /\ \A j \in 1..Len(v) : v[j] = UndoAt(q, Len(q) - Len(v) + j)
    BY LenProperties DEF Covers
  <1>3. /\ w \in Seq(Undos) /\ Len(w) = Len(u) + Len(v)
        /\ \A i \in 1..(Len(u) + Len(v)) : w[i] = IF i <= Len(u) THEN u[i] ELSE v[i - Len(u)]
    BY <1>1, <1>2, ConcatProperties
  <1> HIDE DEF w
  <1>4. /\ x \in Seq(Undos)
        /\ Len(x) = IF Len(w) > MaxReorgDepth THEN MaxReorgDepth ELSE Len(w)
        /\ \A j \in 1..Len(x) : x[j] = w[Len(w) - Len(x) + j]
    BY <1>3, LastUndosFacts
  <1> HIDE DEF x, p
  <1>5. Len(x) \in Nat /\ Len(x) <= Len(w) /\ Len(x) <= MaxReorgDepth
          /\ MaxReorgDepth \in Nat
    BY <1>1, <1>2, <1>3, <1>4, ChainAssumption
  <1>6. Len(x) <= Len(q)
    BY <1>1, <1>2, <1>3, <1>5
  <1>7. ASSUME NEW j \in 1..Len(x) PROVE x[j] = UndoAt(q, Len(q) - Len(x) + j)
    <2> DEFINE i == Len(w) - Len(x) + j
    <2>1. x[j] = w[i]
      BY <1>4
    <2>a. i = Len(u) + Len(v) - Len(x) + j
      BY <1>3
    <2> HIDE DEF i
    <2>b. i \in 1..(Len(u) + Len(v))
      BY <1>1, <1>2, <1>3, <1>5, <2>a
    <2>c. w[i] = IF i <= Len(u) THEN u[i] ELSE v[i - Len(u)]
      BY <1>3, <2>b
    <2>2. CASE i <= Len(u)
      <3>a. i \in 1..Len(u)
        BY <1>1, <2>b, <2>2
      <3>1. x[j] = UndoAt(q, n - Len(u) + i)
        BY <1>1, <2>1, <2>c, <2>2, <3>a
      <3>2. Len(v) = Len(q) - n
        BY <1>1, <1>2, <1>5, <2>a, <2>2
      <3>3. n - Len(u) + i = Len(q) - Len(x) + j
        BY <1>1, <1>2, <1>5, <2>a, <3>2
      <3> QED
        BY <3>1, <3>3
    <2>3. CASE ~(i <= Len(u))
      <3>a. i - Len(u) \in 1..Len(v)
        BY <1>1, <1>2, <2>b, <2>3
      <3>1. x[j] = v[i - Len(u)]
        BY <2>1, <2>c, <2>3
      <3>2. Len(q) - Len(v) + (i - Len(u)) = Len(q) - Len(x) + j
        BY <1>1, <1>2, <1>5, <2>a
      <3> QED
        BY <1>2, <3>a, <3>1, <3>2
    <2> QED
      BY <2>2, <2>3
  <1> QED
    BY <1>4, <1>6, <1>7 DEF Covers, w, x

-----------------------------------------------------------------------------
(* Chains that grow *)

\* The elements of s after the first n.
After(s, n) == SubSeq(s, n + 1, Len(s))

\* An ending of s is a sequence of its last elements.
LEMMA AfterFacts ==
    ASSUME NEW s \in Seq(Blocks), NEW n \in 0..Len(s)
    PROVE  /\ After(s, n) \in Seq(Blocks) /\ Len(After(s, n)) = Len(s) - n
           /\ \A i \in 1..(Len(s) - n) : After(s, n)[i] = s[n + i]
  <1>1. Len(s) \in Nat /\ \A i \in 1..Len(s) : s[i] \in Blocks
    BY LenProperties
  <1> DEFINE a == n + 1
             z == Len(s)
  <1>2. a \in Int /\ z \in Int /\ \A i \in a..z : s[i] \in Blocks
    BY <1>1
  <1>3. /\ z - a + 1 = Len(s) - n /\ (a <= z <=> Len(s) - n >= 1)
        /\ \A i \in 1..(Len(s) - n) : a + i - 1 = n + i
        /\ Len(s) - n \in Nat
    BY <1>1
  <1>4. After(s, n) = SubSeq(s, a, z)
    BY DEF After
  <1> HIDE DEF a, z
  <1>5. /\ After(s, n) \in Seq(Blocks)
        /\ Len(After(s, n)) = IF a <= z THEN z - a + 1 ELSE 0
        /\ \A i \in 1..(z - a + 1) : After(s, n)[i] = s[a + i - 1]
    BY <1>2, <1>4, SubSeqProperties
  <1> DEFINE m == Len(s) - n
  <1>6. m \in Nat /\ z - a + 1 = m /\ (a <= z <=> m >= 1)
          /\ \A i \in 1..m : a + i - 1 = n + i
    BY <1>3
  <1> HIDE DEF m
  <1>7. Len(After(s, n)) = m
    BY <1>5, <1>6
  <1>8. \A i \in 1..m : After(s, n)[i] = s[n + i]
    BY <1>5, <1>6
  <1> QED
    BY <1>5, <1>7, <1>8 DEF m

\* An ending of one block more.
LEMMA AfterMore ==
    ASSUME NEW s \in Seq(Blocks), NEW b \in Blocks, NEW n \in 0..Len(s)
    PROVE  After(Append(s, b), n) = Append(After(s, n), b)
  <1> DEFINE t == Append(s, b)
             a == Append(After(s, n), b)
  <1>1. /\ t \in Seq(Blocks) /\ Len(s) \in Nat /\ Len(t) = Len(s) + 1
        /\ \A i \in 1..Len(s) : t[i] = s[i]
        /\ t[Len(s) + 1] = b
    BY AppendProperties
  <1>2. /\ After(s, n) \in Seq(Blocks) /\ Len(After(s, n)) = Len(s) - n
        /\ \A i \in 1..(Len(s) - n) : After(s, n)[i] = s[n + i]
    BY AfterFacts
  <1>3. /\ a \in Seq(Blocks) /\ Len(a) = Len(After(s, n)) + 1
        /\ \A i \in 1..Len(After(s, n)) : a[i] = After(s, n)[i]
        /\ a[Len(After(s, n)) + 1] = b
    BY <1>2, AppendProperties
  <1> HIDE DEF t, a
  <1>4. n \in 0..Len(t)
    BY <1>1
  <1>5. /\ After(t, n) \in Seq(Blocks) /\ Len(After(t, n)) = Len(t) - n
        /\ \A i \in 1..(Len(t) - n) : After(t, n)[i] = t[n + i]
    BY <1>1, <1>4, AfterFacts
  <1>6. Len(After(t, n)) = Len(a)
    BY <1>1, <1>2, <1>3, <1>5
  <1>7. ASSUME NEW i \in 1..Len(a) PROVE After(t, n)[i] = a[i]
    <2>1. i \in 1..(Len(t) - n) /\ n \in Nat
      BY <1>5, <1>6
    <2>2. After(t, n)[i] = t[n + i]
      BY <1>5, <2>1
    <2>3. CASE i = Len(s) - n + 1
      <3>1. n + i = Len(s) + 1
        BY <1>1, <2>1, <2>3
      <3> QED
        BY <1>1, <1>2, <1>3, <2>2, <2>3, <3>1
    <2>4. CASE i # Len(s) - n + 1
      <3>1. i \in 1..(Len(s) - n) /\ n + i \in 1..Len(s)
        BY <1>1, <2>1, <2>4
      <3> QED
        BY <1>1, <1>2, <1>3, <2>2, <3>1
    <2> QED
      BY <2>3, <2>4
  <1>8. After(t, n) = a
    BY <1>3, <1>5, <1>6, <1>7, SeqEqual
  <1> QED
    BY <1>8 DEF t, a

\* A chain of s whose bodies and undo records are of the blocks after the
\* first n: the node's own chain, and every trial.
Grown(ch, s, n) ==
    /\ s \in Seq(Blocks) /\ n \in 0..Len(s)
    /\ Valid(s) /\ Shows(ch, s)
    /\ ch.blocks = After(s, n)
    /\ Covers(ch.undos, s)
    /\ Len(ch.undos) <= MaxReorgDepth /\ Len(ch.undos) <= Len(s) - n

\* No record is missing for want of a body.
Full(ch, s, n) == Len(ch.undos) = Len(s) - n \/ Len(ch.undos) >= MaxReorgDepth

\* A grown chain stays one when a block that passes the rules is appended,
\* and its window stays full.
LEMMA GrownMore ==
    ASSUME NEW ch, NEW s, NEW n, Grown(ch, s, n), NEW b \in Blocks, NEW t,
           CanApply(ch, b, t)
    PROVE  /\ Grown(Applied(ch, b), Append(s, b), n)
           /\ Full(ch, s, n) => Full(Applied(ch, b), Append(s, b), n)
  <1> DEFINE r == Applied(ch, b)
             a == Append(s, b)
             x == UndoOf(LedgerOf(s), b)
             u == Append(ch.undos, x)
  <1>1. /\ s \in Seq(Blocks) /\ n \in 0..Len(s) /\ Valid(s) /\ Shows(ch, s)
        /\ ch.blocks = After(s, n) /\ Covers(ch.undos, s)
        /\ Len(ch.undos) <= MaxReorgDepth /\ Len(ch.undos) <= Len(s) - n
    BY DEF Grown
  <1>2. a \in Seq(Blocks) /\ Len(s) \in Nat /\ Len(a) = Len(s) + 1
    BY <1>1, AppendProperties
  <1>3. Valid(a) /\ Shows(r, a)
    BY <1>1, ValidMore, AppliedShows
  <1>4. r.blocks = Append(ch.blocks, b) /\ r.undos = LastUndos(u)
    <2>1. IsChain(ch) /\ ch.ledger = LedgerOf(s)
      BY <1>1 DEF Shows
    <2> QED
      BY <2>1, AppliedFields
  <1>5. r.blocks = After(a, n)
    BY <1>1, <1>4, AfterMore
  <1>6. Covers(u, a)
    BY <1>1, CoversMore
  <1>7. Covers(r.undos, a)
    BY <1>2, <1>4, <1>6, CoversLast
  <1>8. Len(u) = Len(ch.undos) + 1 /\ Len(ch.undos) \in Nat /\ u \in Seq(Undos)
    <2>1. ch.undos \in Seq(Undos) /\ x \in Undos
      BY <1>1 DEF Covers, Undos
    <2> QED
      BY <2>1, AppendProperties
  <1>9. Len(r.undos) = IF Len(u) > MaxReorgDepth THEN MaxReorgDepth ELSE Len(u)
    BY <1>4, <1>8, LastUndosFacts
  <1> HIDE DEF r, a, x, u
  <1>10. MaxReorgDepth \in Nat
    BY ChainAssumption
  <1>11. n \in 0..Len(a) /\ Len(r.undos) <= MaxReorgDepth /\ Len(r.undos) <= Len(a) - n
    BY <1>1, <1>2, <1>8, <1>9, <1>10
  <1>12. Full(ch, s, n) => Full(r, a, n)
    BY <1>1, <1>2, <1>8, <1>9, <1>10 DEF Full
  <1> QED
    BY <1>2, <1>3, <1>5, <1>7, <1>11, <1>12 DEF Grown, r, a

\* The same for a run of blocks that apply one after the other.
LEMMA AllApplyMore ==
    ASSUME NEW ch, NEW s \in Seq(Blocks), NEW b \in Blocks, NEW t,
           AllApply(ch, Append(s, b), t)
    PROVE  AllApply(ch, s, t) /\ CanApply(AppliedAll(ch, s), b, t)
  <1> DEFINE a == Append(s, b)
  <1>1. /\ a \in Seq(Blocks) /\ Len(s) \in Nat /\ Len(a) = Len(s) + 1
        /\ \A i \in 1..Len(s) : a[i] = s[i]
        /\ a[Len(s) + 1] = b
        /\ DOMAIN a = 1..Len(a) /\ DOMAIN s = 1..Len(s)
    BY AppendProperties, LenProperties
  <1>2. \A k \in 0..Len(s) : UpTo(a, k) = UpTo(s, k)
    BY UpToAppend
  <1>3. UpTo(a, Len(s)) = s
    BY <1>1, <1>2, UpToAll
  <1>4. \A i \in DOMAIN a : CanApply(AppliedAll(ch, UpTo(a, i - 1)), a[i], t)
    BY DEF AllApply, UpTo
  <1> HIDE DEF a
  <1>5. CanApply(AppliedAll(ch, s), b, t)
    <2>1. Len(s) + 1 \in DOMAIN a /\ (Len(s) + 1) - 1 = Len(s)
      BY <1>1
    <2> QED
      BY <1>1, <1>3, <1>4, <2>1
  <1>6. \A i \in DOMAIN s : CanApply(AppliedAll(ch, UpTo(s, i - 1)), s[i], t)
    <2> SUFFICES ASSUME NEW i \in 1..Len(s)
                 PROVE  CanApply(AppliedAll(ch, UpTo(s, i - 1)), s[i], t)
      BY <1>1
    <2>1. i \in DOMAIN a /\ i - 1 \in 0..Len(s)
      BY <1>1
    <2> QED
      BY <1>1, <1>2, <1>4, <2>1
  <1> QED
    BY <1>5, <1>6 DEF AllApply, UpTo

\* Concatenating one element more.
LEMMA ConcatMore ==
    ASSUME NEW s \in Seq(Blocks), NEW t \in Seq(Blocks), NEW b \in Blocks
    PROVE  s \o Append(t, b) = Append(s \o t, b)
  <1>1. Append(t, b) = t \o <<b>> /\ Append(s \o t, b) = (s \o t) \o <<b>>
          /\ <<b>> \in Seq(Blocks)
    BY AppendIsConcat, ConcatProperties
  <1> QED
    BY <1>1, ConcatAssociative

\* The same for all the blocks of a run, which leaves the horizon alone.
LEMMA GrownAll ==
    ASSUME NEW ch, NEW s, NEW n, Grown(ch, s, n), NEW t
    PROVE  \A o \in Seq(Blocks) : AllApply(ch, o, t) =>
              /\ Grown(AppliedAll(ch, o), s \o o, n)
              /\ Full(ch, s, n) => Full(AppliedAll(ch, o), s \o o, n)
              /\ AppliedAll(ch, o).firstHeight = ch.firstHeight
              /\ AppliedAll(ch, o).horizon = ch.horizon
              /\ AppliedAll(ch, o).horizonWork = ch.horizonWork
  <1> DEFINE P(o) ==
              /\ Grown(AppliedAll(ch, o), s \o o, n)
              /\ Full(ch, s, n) => Full(AppliedAll(ch, o), s \o o, n)
              /\ AppliedAll(ch, o).firstHeight = ch.firstHeight
              /\ AppliedAll(ch, o).horizon = ch.horizon
              /\ AppliedAll(ch, o).horizonWork = ch.horizonWork
             S == {o \in Seq(Blocks) : AllApply(ch, o, t) => P(o)}
  <1>1. s \in Seq(Blocks)
    BY DEF Grown
  <1>2. <<>> \in S
    <2>1. s \o <<>> = s /\ <<>> \in Seq(Blocks)
      BY <1>1, ConcatEmptySeq, EmptySeq
    <2>2. P(<<>>)
      BY <2>1, AppliedNone
    <2> QED
      BY <2>1, <2>2
  <1>3. ASSUME NEW o \in Seq(Blocks), NEW b \in Blocks, o \in S
        PROVE  Append(o, b) \in S
    <2>1. Append(o, b) \in Seq(Blocks)
      BY AppendProperties
    <2> SUFFICES ASSUME AllApply(ch, Append(o, b), t) PROVE P(Append(o, b))
      BY <2>1
    <2> DEFINE r == AppliedAll(ch, o)
    <2>2. AllApply(ch, o, t) /\ CanApply(r, b, t)
      BY AllApplyMore
    <2>3. P(o)
      BY <1>3, <2>2
    <2>4. AppliedAll(ch, Append(o, b)) = Applied(r, b)
      BY AppliedMore
    <2>5. s \o Append(o, b) = Append(s \o o, b)
      BY <1>1, ConcatMore
    <2>6. Grown(r, s \o o, n) /\ (Full(ch, s, n) => Full(r, s \o o, n))
      BY <2>3
    <2>7. r.firstHeight = ch.firstHeight /\ r.horizon = ch.horizon
            /\ r.horizonWork = ch.horizonWork
      BY <2>3
    <2> HIDE DEF r
    <2>8. /\ Grown(Applied(r, b), Append(s \o o, b), n)
          /\ Full(ch, s, n) => Full(Applied(r, b), Append(s \o o, b), n)
      BY <2>2, <2>6, GrownMore
    <2>9. IsChain(r)
      BY <2>6 DEF Grown, Shows
    <2>10. /\ Applied(r, b).firstHeight = ch.firstHeight
           /\ Applied(r, b).horizon = ch.horizon
           /\ Applied(r, b).horizonWork = ch.horizonWork
      BY <2>7, <2>9, AppliedFields
    <2> QED
      BY <2>4, <2>5, <2>8, <2>10
  <1>4. \A o \in Seq(Blocks) : o \in S
    <2> HIDE DEF S
    <2> QED
      BY <1>2, <1>3, SeqInduct
  <1> QED
    BY <1>4

\* Absorbing the bodies of t takes the ledger of s to that of both.
LEMMA AbsorbedExact ==
    ASSUME NEW s \in Seq(Blocks)
    PROVE  \A t \in Seq(Blocks) :
              /\ Absorbed(LedgerOf(s), t) = LedgerOf(s \o t)
              /\ WorkOfSeq(s) + WorkOfSeq(t) = WorkOfSeq(s \o t)
  <1> DEFINE S == {t \in Seq(Blocks) :
                      /\ Absorbed(LedgerOf(s), t) = LedgerOf(s \o t)
                      /\ WorkOfSeq(s) + WorkOfSeq(t) = WorkOfSeq(s \o t)}
  <1>1. <<>> \in S
    <2>1. s \o <<>> = s /\ <<>> \in Seq(Blocks)
      BY ConcatEmptySeq, EmptySeq
    <2>2. WorkOfSeq(s) + WorkOfSeq(<<>>) = WorkOfSeq(s)
      BY WorkNone, WorkIsNat
    <2> QED
      BY <2>1, <2>2, AbsorbedNone
  <1>2. ASSUME NEW t \in Seq(Blocks), NEW b \in Blocks, t \in S
        PROVE  Append(t, b) \in S
    <2>1. s \o Append(t, b) = Append(s \o t, b) /\ Append(t, b) \in Seq(Blocks)
            /\ s \o t \in Seq(Blocks)
      BY ConcatMore, AppendProperties, ConcatProperties
    <2>2. Absorbed(LedgerOf(s), Append(t, b)) = Took(LedgerOf(s \o t), b)
      BY <1>2, AbsorbedMore DEF Took
    <2>3. LedgerOf(Append(s \o t, b)) = Took(LedgerOf(s \o t), b)
      BY <2>1, LedgerMore
    <2>4. /\ WorkOfSeq(Append(t, b)) = WorkOfSeq(t) + BlockWork(b)
          /\ WorkOfSeq(Append(s \o t, b)) = WorkOfSeq(s \o t) + BlockWork(b)
          /\ WorkOfSeq(s) \in Nat /\ WorkOfSeq(t) \in Nat /\ BlockWork(b) \in Nat
          /\ WorkOfSeq(s) + WorkOfSeq(t) = WorkOfSeq(s \o t)
      BY <1>2, <2>1, WorkMore, WorkIsNat, BlockWorkPositive
    <2>5. WorkOfSeq(s) + WorkOfSeq(Append(t, b)) = WorkOfSeq(Append(s \o t, b))
      BY <2>4
    <2> QED
      BY <2>1, <2>2, <2>3, <2>5
  <1>3. \A t \in Seq(Blocks) : t \in S
    <2> HIDE DEF S
    <2> QED
      BY <1>1, <1>2, SeqInduct
  <1> QED
    BY <1>3

\* The beginnings of s are those of s followed by t.
LEMMA UpToConcat ==
    ASSUME NEW s \in Seq(Blocks), NEW t \in Seq(Blocks), NEW k \in 0..Len(s)
    PROVE  UpTo(s \o t, k) = UpTo(s, k)
  <1> DEFINE a == s \o t
  <1>1. /\ a \in Seq(Blocks) /\ Len(a) = Len(s) + Len(t)
        /\ Len(s) \in Nat /\ Len(t) \in Nat
        /\ \A i \in 1..(Len(s) + Len(t)) : a[i] = IF i <= Len(s) THEN s[i] ELSE t[i - Len(s)]
    BY ConcatProperties, LenProperties
  <1> HIDE DEF a
  <1>2. k <= Len(a) /\ \A i \in 1..k : s[i] = a[i]
    BY <1>1
  <1>3. UpTo(s, k) = UpTo(a, k)
    BY <1>1, <1>2, SameUpTo
  <1> QED
    BY <1>3 DEF a

\* Cutting an ending of s again.
LEMMA AfterConcat ==
    ASSUME NEW s \in Seq(Blocks), NEW f \in 0..Len(s), NEW n \in 0..(Len(s) - f)
    PROVE  /\ UpTo(s, f) \o UpTo(After(s, f), n) = UpTo(s, f + n)
           /\ After(After(s, f), n) = After(s, f + n)
  <1> DEFINE a == After(s, f)
             p == UpTo(s, f)
             d == UpTo(a, n)
  <1>1. Len(s) \in Nat /\ f \in Nat /\ n \in Nat /\ f + n \in 0..Len(s)
    BY LenProperties
  <1>2. /\ a \in Seq(Blocks) /\ Len(a) = Len(s) - f
        /\ \A i \in 1..(Len(s) - f) : a[i] = s[f + i]
    BY AfterFacts
  <1>3. p \in Seq(Blocks) /\ Len(p) = f /\ \A i \in 1..f : p[i] = s[i]
    BY UpToFacts
  <1> HIDE DEF a, p
  <1>4. n \in 0..Len(a)
    BY <1>2
  <1>5. d \in Seq(Blocks) /\ Len(d) = n /\ \A i \in 1..n : d[i] = a[i]
    BY <1>2, <1>4, UpToFacts
  <1> HIDE DEF d
  <1>6. p \o d = UpTo(s, f + n)
    <2> DEFINE x == p \o d
               y == UpTo(s, f + n)
    <2>1. /\ x \in Seq(Blocks) /\ Len(x) = Len(p) + Len(d)
          /\ \A i \in 1..(Len(p) + Len(d)) : x[i] = IF i <= Len(p) THEN p[i] ELSE d[i - Len(p)]
      BY <1>3, <1>5, ConcatProperties
    <2>2. y \in Seq(Blocks) /\ Len(y) = f + n /\ \A i \in 1..(f + n) : y[i] = s[i]
      BY <1>1, UpToFacts
    <2> HIDE DEF x, y
    <2>3. Len(x) = f + n
      BY <1>3, <1>5, <2>1
    <2>4. ASSUME NEW i \in 1..Len(x) PROVE x[i] = y[i]
      <3>1. i \in 1..(f + n)
        BY <2>3
      <3>2. CASE i <= f
        <4>1. i \in 1..f
          BY <1>1, <3>1, <3>2
        <4> QED
          BY <1>3, <1>5, <2>1, <2>2, <3>1, <3>2, <4>1
      <3>3. CASE ~(i <= f)
        <4>1. i - f \in 1..n /\ i - f \in 1..(Len(s) - f) /\ f + (i - f) = i
          BY <1>1, <3>1, <3>3
        <4>2. x[i] = d[i - f]
          BY <1>3, <1>5, <2>1, <3>1, <3>3
        <4>3. d[i - f] = s[i]
          BY <1>2, <1>5, <4>1
        <4> QED
          BY <2>2, <3>1, <4>2, <4>3
      <3> QED
        BY <3>2, <3>3
    <2>5. x = y
      BY <2>1, <2>2, <2>3, <2>4, SeqEqual
    <2> QED
      BY <2>5 DEF x, y
  <1>7. After(a, n) = After(s, f + n)
    <2> DEFINE x == After(a, n)
               y == After(s, f + n)
    <2>1. /\ x \in Seq(Blocks) /\ Len(x) = Len(a) - n
          /\ \A i \in 1..(Len(a) - n) : x[i] = a[n + i]
      BY <1>2, <1>4, AfterFacts
    <2>2. /\ y \in Seq(Blocks) /\ Len(y) = Len(s) - (f + n)
          /\ \A i \in 1..(Len(s) - (f + n)) : y[i] = s[(f + n) + i]
      BY <1>1, AfterFacts
    <2> HIDE DEF x, y
    <2>3. Len(x) = Len(y) /\ Len(x) = Len(s) - f - n
      BY <1>1, <1>2, <2>1, <2>2
    <2>4. ASSUME NEW i \in 1..Len(x) PROVE x[i] = y[i]
      <3>1. /\ i \in 1..(Len(a) - n) /\ i \in 1..(Len(s) - (f + n))
            /\ n + i \in 1..(Len(s) - f) /\ f + (n + i) = (f + n) + i
        BY <1>1, <1>2, <2>3
      <3> QED
        BY <1>2, <2>1, <2>2, <3>1
    <2>5. x = y
      BY <2>1, <2>2, <2>3, <2>4, SeqEqual
    <2> QED
      BY <2>5 DEF x, y
  <1> QED
    BY <1>6, <1>7 DEF a, p, d

\* What a splice keeps of our bodies and what it takes of the branch's make the
\* bodies of the new chain.
LEMMA BodiesJoined ==
    ASSUME NEW s \in Seq(Blocks), NEW q \in Seq(Blocks), NEW n \in 0..Len(s),
           n <= Len(q), UpTo(q, n) = UpTo(s, n), NEW f \in 0..n
    PROVE  UpTo(After(s, f), n - f) \o After(q, n) = After(q, f)
  <1>1. Len(s) \in Nat /\ Len(q) \in Nat /\ n \in 0..Len(q) /\ f \in 0..Len(s)
          /\ f \in 0..Len(q) /\ n \in Nat /\ f \in Nat /\ n - f \in Nat
    BY LenProperties
  <1> DEFINE a == After(s, f)
             d == UpTo(a, n - f)
             e == After(q, n)
             x == d \o e
             y == After(q, f)
  <1>2. /\ a \in Seq(Blocks) /\ Len(a) = Len(s) - f
        /\ \A i \in 1..(Len(s) - f) : a[i] = s[f + i]
    BY <1>1, AfterFacts
  <1> HIDE DEF a
  <1>3. n - f \in 0..Len(a)
    BY <1>1, <1>2
  <1>4. d \in Seq(Blocks) /\ Len(d) = n - f /\ \A i \in 1..(n - f) : d[i] = a[i]
    BY <1>2, <1>3, UpToFacts
  <1>5. /\ e \in Seq(Blocks) /\ Len(e) = Len(q) - n
        /\ \A i \in 1..(Len(q) - n) : e[i] = q[n + i]
    BY <1>1, AfterFacts
  <1>6. /\ y \in Seq(Blocks) /\ Len(y) = Len(q) - f
        /\ \A i \in 1..(Len(q) - f) : y[i] = q[f + i]
    BY <1>1, AfterFacts
  <1>7. \A i \in 1..n : q[i] = s[i]
    <2>1. /\ \A i \in 1..n : UpTo(q, n)[i] = q[i]
          /\ \A i \in 1..n : UpTo(s, n)[i] = s[i]
      BY <1>1, UpToFacts
    <2> QED
      BY <2>1
  <1> HIDE DEF d, e, y
  <1>8. /\ x \in Seq(Blocks) /\ Len(x) = Len(d) + Len(e)
        /\ \A i \in 1..(Len(d) + Len(e)) : x[i] = IF i <= Len(d) THEN d[i] ELSE e[i - Len(d)]
    BY <1>4, <1>5, ConcatProperties
  <1> HIDE DEF x
  <1>9. Len(x) = Len(q) - f
    BY <1>1, <1>4, <1>5, <1>8
  <1>10. ASSUME NEW i \in 1..Len(x) PROVE x[i] = y[i]
    <2>1. i \in 1..(Len(q) - f) /\ i \in 1..(Len(d) + Len(e))
      BY <1>8, <1>9
    <2>2. y[i] = q[f + i]
      BY <1>6, <2>1
    <2>3. CASE i <= n - f
      <3>1. i \in 1..(n - f) /\ i \in 1..(Len(s) - f) /\ f + i \in 1..n
        BY <1>1, <2>1, <2>3
      <3>2. x[i] = d[i]
        BY <1>4, <1>8, <2>1, <2>3
      <3>3. d[i] = s[f + i]
        BY <1>2, <1>4, <3>1
      <3> QED
        BY <1>7, <2>2, <3>1, <3>2, <3>3
    <2>4. CASE ~(i <= n - f)
      <3>1. i - (n - f) \in 1..(Len(q) - n) /\ n + (i - (n - f)) = f + i
        BY <1>1, <2>1, <2>4
      <3>2. x[i] = e[i - (n - f)]
        BY <1>4, <1>8, <2>1, <2>4
      <3>3. e[i - (n - f)] = q[f + i]
        BY <1>5, <3>1
      <3> QED
        BY <2>2, <3>2, <3>3
    <2> QED
      BY <2>3, <2>4
  <1>11. x = y
    BY <1>6, <1>8, <1>9, <1>10, SeqEqual
  <1> QED
    BY <1>11 DEF x, y, d, e, a

-----------------------------------------------------------------------------
(* The operations of a chain *)

\* ch is the chain of s, pruned below its first height.
Built(ch, s) ==
    /\ Grown(ch, s, ch.firstHeight)
    /\ ch.horizon = LedgerOf(UpTo(s, ch.firstHeight))
    /\ ch.horizonWork = WorkOfSeq(UpTo(s, ch.firstHeight))

\* A new node's chain is that of no block.
LEMMA BuiltNew == Built(NewChain, <<>>)
  <1>1. <<>> \in Seq(Blocks) /\ Len(<<>>) = 0
    BY EmptySeq
  <1>2. Shows(NewChain, <<>>)
    BY <1>1, StateShows, AppliedNone
  <1>3. After(<<>>, 0) = <<>>
    BY SubSeqEmpty DEF After
  <1>4. Covers(<<>>, <<>>)
    BY DEF Covers
  <1>5. UpTo(<<>>, 0) = <<>>
    BY UpToNone
  <1> QED
    BY <1>1, <1>2, <1>3, <1>4, <1>5, NewChainFields, ValidNone, LedgerNone, WorkNone,
       ChainAssumption DEF Built, Grown

\* Appending a block that passes the rules.
LEMMA BuiltApplied ==
    ASSUME NEW ch, NEW s, Built(ch, s), NEW b \in Blocks, NEW t, CanApply(ch, b, t)
    PROVE  Built(Applied(ch, b), Append(s, b))
  <1>1. Grown(ch, s, ch.firstHeight)
    BY DEF Built
  <1>2. s \in Seq(Blocks) /\ ch.firstHeight \in 0..Len(s) /\ IsChain(ch)
    BY <1>1 DEF Grown, Shows
  <1>3. /\ Applied(ch, b).firstHeight = ch.firstHeight
        /\ Applied(ch, b).horizon = ch.horizon
        /\ Applied(ch, b).horizonWork = ch.horizonWork
    BY <1>2, AppliedFields
  <1>4. UpTo(Append(s, b), ch.firstHeight) = UpTo(s, ch.firstHeight)
    BY <1>2, UpToAppend
  <1>5. Grown(Applied(ch, b), Append(s, b), ch.firstHeight)
    BY <1>1, GrownMore
  <1> QED
    BY <1>3, <1>4, <1>5 DEF Built

\* Appending a run of them.
LEMMA BuiltAll ==
    ASSUME NEW ch, NEW s, Built(ch, s), NEW o \in Seq(Blocks), NEW t, AllApply(ch, o, t)
    PROVE  Built(AppliedAll(ch, o), s \o o)
  <1>1. Grown(ch, s, ch.firstHeight)
    BY DEF Built
  <1>2. s \in Seq(Blocks) /\ ch.firstHeight \in 0..Len(s)
    BY <1>1 DEF Grown
  <1>3. /\ Grown(AppliedAll(ch, o), s \o o, ch.firstHeight)
        /\ AppliedAll(ch, o).firstHeight = ch.firstHeight
        /\ AppliedAll(ch, o).horizon = ch.horizon
        /\ AppliedAll(ch, o).horizonWork = ch.horizonWork
    BY <1>1, GrownAll
  <1>4. UpTo(s \o o, ch.firstHeight) = UpTo(s, ch.firstHeight)
    BY <1>2, UpToConcat
  <1> QED
    BY <1>3, <1>4 DEF Built

\* A block whose roots are wrong leaves the chain as it was.
LEMMA RefusedIsUndone ==
    ASSUME NEW ch, NEW s \in Seq(Blocks), Shows(ch, s), NEW b, NEW t,
           PassesRules(ch, b, t)
    PROVE  RootsRefused(ch, b) = ch
  <1>1. Acceptable(ch.ledger, b.body, b.height, Subsidy(ch, b))
    BY DEF PassesRules
  <1>2. IsLedger(ch.ledger)
    BY LedgerOfIsLedger DEF Shows
  <1>3. Rewind(Commit(ch.ledger, b.body, b.height, Subsidy(ch, b)),
               CaptureUndo(ch.ledger, b.body)) = ch.ledger
    BY <1>1, <1>2, RewindUndoesBlock
  <1>4. RootsRefused(ch, b) = [ch EXCEPT !.ledger = ch.ledger]
    BY <1>3 DEF RootsRefused
  <1>5. IsChain(ch)
    BY DEF Shows
  <1> QED
    BY <1>4, <1>5 DEF IsChain

\* Pruning keeps the chain and moves its horizon.
LEMMA BuiltPruned ==
    ASSUME NEW ch, NEW s, Built(ch, s), NEW keep \in Nat, keep >= MaxReorgDepth
    PROVE  Built(Pruned(ch, keep), s)
  <1> DEFINE f == ch.firstHeight
             n == Len(ch.blocks) - AtLeast(keep, 1)
             a == After(s, f)
             dropped == UpTo(a, n)
  <1>1. /\ s \in Seq(Blocks) /\ f \in 0..Len(s) /\ Valid(s) /\ Shows(ch, s)
        /\ ch.blocks = a /\ Covers(ch.undos, s) /\ Len(ch.undos) <= MaxReorgDepth
    BY DEF Built, Grown
  <1>2. a \in Seq(Blocks) /\ Len(a) = Len(s) - f /\ Len(s) \in Nat
    BY <1>1, AfterFacts, LenProperties
  <1>3. MaxReorgDepth \in Nat \ {0} /\ AtLeast(keep, 1) = keep
    BY ChainAssumption DEF AtLeast
  <1>4. n = Len(s) - f - keep /\ n \in Int
    BY <1>1, <1>2, <1>3
  <1> HIDE DEF n
  <1>5. CASE n <= 0
    <2>1. Pruned(ch, keep) = ch
      BY <1>5 DEF Pruned, n
    <2> QED
      BY <2>1
  <1>6. CASE ~(n <= 0)
    <2>a. f \in Nat /\ Len(s) \in Nat /\ n = Len(s) - f - keep /\ n >= 1
      BY <1>1, <1>2, <1>4, <1>6
    <2>b. n \in Nat /\ n <= Len(s) - f /\ f + n = Len(s) - keep
      BY <2>a
    <2>1. n \in 0..(Len(s) - f) /\ n \in 0..Len(a) /\ f + n \in 0..Len(s)
            /\ Len(s) - (f + n) = keep
      <3> DEFINE m == Len(s)
                 z == Len(a)
      <3>1. m \in Nat /\ z = m - f /\ f \in Nat /\ n \in Nat /\ n <= m - f
              /\ f + n = m - keep
        BY <1>2, <2>a, <2>b
      <3> HIDE DEF m, z, f
      <3>2. n \in 0..(m - f) /\ n \in 0..z
        BY <3>1
      <3>3. f + n \in 0..m /\ m - (f + n) = keep
        BY <3>1
      <3> QED
        BY <3>2, <3>3 DEF m, z
    <2>2. UpTo(s, f) \o dropped = UpTo(s, f + n) /\ After(a, n) = After(s, f + n)
      BY <1>1, <2>1, AfterConcat
    <2>3. dropped \in Seq(Blocks) /\ UpTo(s, f) \in Seq(Blocks)
      BY <1>1, <1>2, <2>1, UpToFacts
    <2> DEFINE r == Pruned(ch, keep)
               h == Absorbed(ch.horizon, dropped)
               w == ch.horizonWork + WorkOfSeq(dropped)
    <2>4. r = [ch EXCEPT !.horizon = h, !.horizonWork = w,
                         !.blocks = SubSeq(ch.blocks, n + 1, Len(ch.blocks)),
                         !.firstHeight = f + n]
      BY <1>1, <1>6 DEF Pruned, n, UpTo
    <2>5. IsChain(ch) /\ SubSeq(ch.blocks, n + 1, Len(ch.blocks)) = After(s, f + n)
      BY <1>1, <2>2 DEF Shows, After
    <2>6. h = LedgerOf(UpTo(s, f + n)) /\ w = WorkOfSeq(UpTo(s, f + n))
      <3>1. ch.horizon = LedgerOf(UpTo(s, f)) /\ ch.horizonWork = WorkOfSeq(UpTo(s, f))
        BY DEF Built
      <3> QED
        BY <2>2, <2>3, <3>1, AbsorbedExact
    <2> DEFINE z == f + n
    <2> HIDE DEF h, w, r, f, z
    <2>7. r = [ledger |-> ch.ledger, blocks |-> After(s, z), headers |-> ch.headers,
               firstHeight |-> z, horizon |-> h, horizonWork |-> w,
               totalWork |-> ch.totalWork, undos |-> ch.undos]
      BY <2>4, <2>5 DEF IsChain, z
    <2>8. /\ IsChain(r) /\ r.ledger = ch.ledger /\ r.headers = ch.headers
          /\ r.blocks = After(s, z) /\ r.firstHeight = z /\ r.horizon = h
          /\ r.horizonWork = w /\ r.totalWork = ch.totalWork /\ r.undos = ch.undos
      BY <2>7 DEF IsChain
    <2>9. s # <<>>
      BY <1>1, <1>6, <1>2, <2>1, EmptySeq DEF f
    <2>10. Shows(r, s)
      BY <1>1, <2>8, <2>9 DEF Shows
    <2>11. Len(ch.undos) <= Len(s) - z
      <3>1. Len(ch.undos) \in Nat /\ MaxReorgDepth \in Nat
        BY <1>1, <1>3, LenProperties DEF Covers
      <3> QED
        BY <1>1, <2>1, <3>1 DEF z
    <2>12. Grown(r, s, z)
      BY <1>1, <2>1, <2>8, <2>10, <2>11 DEF Grown, z
    <2> QED
      BY <2>6, <2>8, <2>12 DEF Built, z, r
  <1> QED
    BY <1>5, <1>6

\* A trial at an ancestor within the window is the chain as it was there.
LEMMA TrialGrown ==
    ASSUME NEW ch, NEW s, Built(ch, s), NEW a \in Nat, NEW n,
           n = TipHeight(ch) - a, a < Len(ch.headers),
           n <= Len(ch.undos)
    PROVE  /\ s # <<>> /\ n \in Nat /\ n < Len(s)
           /\ Grown(TrialAt(ch, a), UpTo(s, Len(s) - n), Len(s) - n)
  <1>1. /\ s \in Seq(Blocks) /\ Valid(s) /\ Shows(ch, s) /\ Covers(ch.undos, s)
        /\ Len(s) \in Nat
    BY LenProperties DEF Built, Grown
  <1>2. Len(ch.headers) = Len(s)
    BY <1>1, TipShown
  <1>3. s # <<>>
    BY <1>1, <1>2, EmptySeq
  <1>4. TipHeight(ch) = Len(s) - 1
    <2>1. Len(s) \in 1..Len(s) /\ \A i \in 1..Len(s) : s[i].height = i - 1
      BY <1>1, <1>3, EmptySeq, ValidInLine, Heights
    <2> QED
      BY <1>1, <1>3, <2>1, TipShown
  <1> DEFINE k == Len(s) - n
             p == UpTo(s, k)
             r == TrialAt(ch, a)
  <1>5. n \in Nat /\ n < Len(s) /\ k = a + 1 /\ k \in 0..Len(s) /\ k # 0
          /\ n \in 0..Len(ch.undos)
    <2>1. Len(ch.undos) \in Nat
      BY <1>1, LenProperties DEF Covers
    <2>2. n = Len(s) - 1 - a
      BY <1>4
    <2> QED
      BY <1>1, <1>2, <2>1, <2>2
  <1> HIDE DEF k
  <1>6. /\ p \in Seq(Blocks) /\ Len(p) = k /\ Valid(p)
        /\ \A i \in 1..k : p[i] = s[i]
    BY <1>1, <1>5, UpToFacts, ValidUpTo
  <1>7. RewoundLedger(ch, n) = LedgerOf(p) /\ ch.totalWork - RewoundWork(ch, n) = WorkOfSeq(p)
    <2>1. /\ RewoundLedger(ch, n) = LedgerOf(p)
          /\ RewoundWork(ch, n) = WorkOfSeq(s) - WorkOfSeq(p)
      BY <1>1, <1>5, BackExact DEF k
    <2>2. WorkOfSeq(s) \in Nat /\ WorkOfSeq(p) \in Nat /\ ch.totalWork = WorkOfSeq(s)
      BY <1>1, <1>6, WorkIsNat DEF Shows
    <2> QED
      BY <2>1, <2>2
  <1>8. SubSeq(ch.headers, 1, a + 1) = HeadersOf(p)
    BY <1>1, <1>5, HeadersUpTo DEF Shows
  <1>9. r = [NewChain EXCEPT !.ledger = LedgerOf(p), !.totalWork = WorkOfSeq(p),
                             !.headers = HeadersOf(p)]
    BY <1>7, <1>8 DEF TrialAt
  <1>10. r = [ledger |-> LedgerOf(p), blocks |-> <<>>, headers |-> HeadersOf(p),
              firstHeight |-> 0, horizon |-> Genesis, horizonWork |-> 0,
              totalWork |-> WorkOfSeq(p), undos |-> <<>>]
    BY <1>9 DEF NewChain
  <1> HIDE DEF r, p
  <1>11. /\ IsChain(r) /\ r.ledger = LedgerOf(p) /\ r.blocks = <<>>
         /\ r.headers = HeadersOf(p) /\ r.firstHeight = 0
         /\ r.totalWork = WorkOfSeq(p) /\ r.undos = <<>>
    BY <1>10 DEF IsChain
  <1>12. Shows(r, p)
    BY <1>11 DEF Shows
  <1>13. After(p, k) = <<>>
    BY <1>5, <1>6, SubSeqEmpty DEF After
  <1>14. Covers(<<>>, p) /\ Len(<<>>) = 0
    BY <1>5, <1>6 DEF Covers
  <1>15. Grown(r, p, k)
    BY <1>5, <1>6, <1>11, <1>12, <1>13, <1>14, ChainAssumption DEF Grown
  <1> QED
    BY <1>3, <1>5, <1>15 DEF k, p, r

\* A splice onto the chain the branch was prepared on gives the branch, with
\* the bodies and the undo records that are still ours below it.
LEMMA BuiltSpliced ==
    ASSUME NEW ch, NEW s, Built(ch, s), NEW c, NEW q, NEW n \in 0..Len(s),
           c.rewind = Len(s) - n, n <= Len(q), UpTo(q, n) = UpTo(s, n),
           Grown(c.result, q, n), Full(c.result, q, n), q # <<>>,
           c.rewind <= Len(ch.blocks), c.rewind <= Len(ch.undos)
    PROVE  Built(Spliced(ch, c), q)
  <1> DEFINE f == ch.firstHeight
             k == c.rewind
             u == ch.undos
             v == c.result.undos
             res == c.result
             low == SubSeq(u, 1, Len(u) - k)
             w == LastUndos(low \o v)
  <1>1. /\ s \in Seq(Blocks) /\ f \in 0..Len(s) /\ Shows(ch, s) /\ Len(s) \in Nat
        /\ ch.blocks = After(s, f) /\ Covers(u, s) /\ Len(u) <= Len(s) - f
    BY LenProperties DEF Built, Grown
  <1>2. /\ q \in Seq(Blocks) /\ n \in 0..Len(q) /\ Valid(q) /\ Shows(res, q)
        /\ res.blocks = After(q, n) /\ Covers(v, q)
        /\ Len(v) <= MaxReorgDepth /\ Len(v) <= Len(q) - n
        /\ Len(v) = Len(q) - n \/ Len(v) >= MaxReorgDepth
        /\ Len(q) \in Nat
    BY LenProperties DEF Grown, Full
  <1>3. Len(ch.blocks) = Len(s) - f
    BY <1>1, AfterFacts
  <1>4. Len(u) \in Nat /\ Len(v) \in Nat /\ MaxReorgDepth \in Nat
    BY <1>1, <1>2, LenProperties, ChainAssumption DEF Covers
  <1>5. f \in 0..n /\ k \in Nat /\ n - f \in Nat /\ k \in 0..Len(u)
          /\ Len(ch.blocks) - k = n - f /\ Len(s) - k = n
    <2> DEFINE x == Len(s)
               y == Len(u)
               z == Len(ch.blocks)
    <2>1. x \in Nat /\ y \in Nat /\ z = x - f /\ f \in 0..x /\ n \in 0..x
            /\ k = x - n /\ k <= z /\ k <= y
      BY <1>1, <1>3, <1>4
    <2> HIDE DEF x, y, z, f, k
    <2>2. f \in 0..n /\ k \in Nat /\ n - f \in Nat /\ k \in 0..y /\ z - k = n - f /\ x - k = n
      BY <2>1
    <2> QED
      BY <2>2 DEF x, y, z
  <1>6. SubSeq(ch.blocks, 1, Len(ch.blocks) - k) \o res.blocks = After(q, f)
    <2>1. UpTo(After(s, f), n - f) \o After(q, n) = After(q, f)
      BY <1>1, <1>2, <1>5, BodiesJoined
    <2> QED
      BY <1>1, <1>2, <1>5, <2>1 DEF UpTo
  <1>7. Covers(low, UpTo(q, n))
    <2>1. Covers(low, UpTo(s, Len(s) - k))
      BY <1>1, <1>5, CoversLess
    <2> QED
      BY <1>5, <2>1
  <1>8. Covers(w, q)
    BY <1>2, <1>7, CoversJoined
  <1>9. Len(w) <= MaxReorgDepth /\ Len(w) <= Len(q) - f
    <2>1. low \in Seq(Undos) /\ v \in Seq(Undos) /\ u \in Seq(Undos)
      BY <1>1, <1>2, <1>7 DEF Covers
    <2>2. Len(low) = Len(u) - k
      <3> DEFINE x == Len(u) - k
      <3>1. x \in Int /\ x \in 0..Len(u) /\ \A i \in 1..Len(u) : u[i] \in Undos
        BY <1>4, <1>5, <2>1, LenProperties
      <3> HIDE DEF x
      <3>2. \A i \in 1..x : u[i] \in Undos
        BY <1>4, <3>1
      <3>3. Len(SubSeq(u, 1, x)) = IF 1 <= x THEN x - 1 + 1 ELSE 0
        BY <3>1, <3>2, SubSeqProperties
      <3>4. Len(SubSeq(u, 1, x)) = x
        BY <3>1, <3>3
      <3> QED
        BY <3>4 DEF x
    <2>3. low \o v \in Seq(Undos) /\ Len(low \o v) = Len(low) + Len(v)
      BY <2>1, ConcatProperties
    <2>4. Len(w) = IF Len(low \o v) > MaxReorgDepth THEN MaxReorgDepth ELSE Len(low \o v)
      BY <2>3, LastUndosFacts
    <2> HIDE DEF low, w
    <2> DEFINE a == Len(u)
               b == Len(v)
               x == Len(s)
               y == Len(q)
               z == Len(low \o v)
    <2>5. /\ z = (a - k) + b /\ k = x - n /\ a <= x - f /\ b <= y - n
          /\ a \in Nat /\ b \in Nat /\ x \in Nat /\ y \in Nat /\ n \in 0..x /\ f \in 0..n
          /\ k \in Nat
      BY <1>1, <1>2, <1>4, <1>5, <2>2, <2>3
    <2> HIDE DEF a, b, x, y, z, f, k
    <2>6. z \in Int /\ z <= y - f /\ f \in Nat
      BY <2>5
    <2>7. MaxReorgDepth \in Nat /\ y \in Nat
      BY <1>4, <2>5
    <2>8. Len(w) = IF z > MaxReorgDepth THEN MaxReorgDepth ELSE z
      BY <2>4 DEF z
    <2>9. Len(w) <= MaxReorgDepth /\ Len(w) <= y - f
      BY <2>5, <2>6, <2>7, <2>8
    <2> QED
      BY <2>9 DEF y
  <1> DEFINE r == Spliced(ch, c)
             bodies == After(q, f)
  <1>10. r = [ch EXCEPT !.blocks = bodies, !.headers = res.headers, !.ledger = res.ledger,
                        !.totalWork = res.totalWork, !.undos = w]
    BY <1>6 DEF Spliced
  <1>11. IsChain(ch)
    BY <1>1 DEF Shows
  <1> HIDE DEF r, w, bodies
  <1>12. r = [ledger |-> res.ledger, blocks |-> bodies, headers |-> res.headers,
              firstHeight |-> f, horizon |-> ch.horizon,
              horizonWork |-> ch.horizonWork, totalWork |-> res.totalWork, undos |-> w]
    BY <1>10, <1>11 DEF IsChain
  <1> HIDE DEF f
  <1>13. /\ IsChain(r) /\ r.ledger = res.ledger /\ r.blocks = bodies
         /\ r.headers = res.headers /\ r.firstHeight = f /\ r.horizon = ch.horizon
         /\ r.horizonWork = ch.horizonWork /\ r.totalWork = res.totalWork /\ r.undos = w
    BY <1>12 DEF IsChain
  <1>14. Shows(r, q)
    BY <1>2, <1>13 DEF Shows
  <1>15. f \in 0..Len(q)
    BY <1>2, <1>5
  <1>16. Grown(r, q, f)
    BY <1>2, <1>8, <1>9, <1>13, <1>14, <1>15 DEF Grown, bodies
  <1>17. UpTo(q, f) = UpTo(s, f)
    <2>1. UpTo(UpTo(q, n), f) = UpTo(q, f) /\ UpTo(UpTo(s, n), f) = UpTo(s, f)
      BY <1>1, <1>2, <1>5, UpToUpTo
    <2> QED
      BY <2>1
  <1>18. ch.horizon = LedgerOf(UpTo(s, f)) /\ ch.horizonWork = WorkOfSeq(UpTo(s, f))
    BY DEF Built, f
  <1> QED
    BY <1>13, <1>16, <1>17, <1>18 DEF Built, r

-----------------------------------------------------------------------------
(* The inductive invariant *)

\* The chain c was prepared on, of which c abandons c.rewind blocks.
Base(c, s) ==
    /\ s \in Seq(Blocks) /\ Valid(s) /\ s # <<>>
    /\ c.basedOn = s[Len(s)].hash
    /\ c.rewind \in Nat /\ c.rewind <= MaxReorgDepth /\ c.rewind < Len(s)

TrialOf(c, s) ==
    /\ Base(c, s)
    /\ Grown(c.trial, UpTo(s, Len(s) - c.rewind), Len(s) - c.rewind)

ResultOf(c, s, q) ==
    LET n == Len(s) - c.rewind
    IN  /\ Base(c, s) /\ n <= Len(q) /\ UpTo(q, n) = UpTo(s, n)
        /\ Grown(c.result, q, n) /\ Full(c.result, q, n)

\* What a thread carries is a chain it verified itself, on a base that was the
\* node's chain when it was prepared and need not be any more.
CarryInv(c) ==
    \/ c = Idle
    \/ c.kind = "trial" /\ \E s : TrialOf(c, s)
    \/ c.kind = "reorg" /\ \E s, q : ResultOf(c, s, q)
    \/ c.kind = "candidate" /\ \E q : Built(c.result, q)

ChainInv ==
    /\ \E s : Built(chain, s)
    /\ DOMAIN carry = Threads
    /\ \A th \in Threads : CarryInv(carry[th])

\* q has more work than s and keeps all but MaxReorgDepth of its blocks.
Moves(s, q) ==
    /\ WorkOfSeq(q) > WorkOfSeq(s)
    /\ \E n \in 0..Len(s) : /\ Len(s) - n <= MaxReorgDepth /\ n <= Len(q)
                            /\ UpTo(q, n) = UpTo(s, n)

\* Appending blocks only adds work, and abandons nothing.
LEMMA MovesOn ==
    ASSUME NEW s \in Seq(Blocks), NEW o \in Seq(Blocks), o # <<>>
    PROVE  Moves(s, s \o o)
  <1>1. PICK t \in Seq(Blocks), b \in Blocks : o = Append(t, b)
    BY SequenceEmptyOrAppend
  <1>2. WorkOfSeq(o) = WorkOfSeq(t) + BlockWork(b) /\ BlockWork(b) \in Nat
          /\ BlockWork(b) >= 1 /\ WorkOfSeq(t) \in Nat /\ WorkOfSeq(s) \in Nat
    BY <1>1, WorkMore, BlockWorkPositive, WorkIsNat
  <1>3. WorkOfSeq(s \o o) = WorkOfSeq(s) + WorkOfSeq(o)
    BY AbsorbedExact
  <1>4. WorkOfSeq(s \o o) > WorkOfSeq(s)
    BY <1>2, <1>3
  <1>5. Len(s) \in Nat /\ Len(o) \in Nat /\ Len(s \o o) = Len(s) + Len(o)
    BY ConcatProperties, LenProperties
  <1>6. UpTo(s \o o, Len(s)) = UpTo(s, Len(s))
    BY <1>5, UpToConcat
  <1>7. Len(s) \in 0..Len(s) /\ Len(s) - Len(s) <= MaxReorgDepth /\ Len(s) <= Len(s \o o)
    BY <1>5, ChainAssumption
  <1> QED
    BY <1>4, <1>6, <1>7 DEF Moves

\* The same for one block.
LEMMA MovesOne ==
    ASSUME NEW s \in Seq(Blocks), NEW b \in Blocks
    PROVE  Moves(s, Append(s, b))
  <1>1. Append(s, b) = s \o <<b>> /\ <<b>> \in Seq(Blocks) /\ <<b>> # <<>>
    BY AppendIsConcat
  <1> QED
    BY <1>1, MovesOn

\* A bounded set of numbers has the maximum Max chooses.
LEMMA MaxIsMember ==
    ASSUME NEW n \in Nat, NEW T \in SUBSET (0..n), T # {}
    PROVE  Max(T) \in T
  <1> DEFINE R == {n - i : i \in T}
  <1>1. R \in SUBSET Nat /\ R # {}
    <2>1. \A i \in T : n - i \in Nat
      OBVIOUS
    <2>2. PICK i \in T : TRUE
      OBVIOUS
    <2>3. n - i \in R
      OBVIOUS
    <2> QED
      BY <2>1, <2>3
  <1>2. PICK x \in R : \A y \in R : x <= y
    BY <1>1, Least
  <1>3. PICK m \in T : x = n - m
    BY <1>2
  <1>4. \A y \in T : m >= y
    <2> SUFFICES ASSUME NEW y \in T PROVE m >= y
      OBVIOUS
    <2>1. n - m <= n - y
      BY <1>2, <1>3
    <2>2. m \in 0..n /\ y \in 0..n
      OBVIOUS
    <2> QED
      BY <2>1, <2>2
  <1> QED
    BY <1>4 DEF Max

-----------------------------------------------------------------------------
(* One lemma per operation *)

\* apply_block: the block is appended, or refused and undone.
LEMMA ApplyBlockStep ==
    ASSUME NEW s, Built(chain, s), NEW b \in Blocks, ApplyBlock(b)
    PROVE  \E q : Built(chain', q) /\ (q = s \/ Moves(s, q))
  <1>1. s \in Seq(Blocks) /\ Shows(chain, s)
    BY DEF Built, Grown
  <1>2. CASE CanApply(chain, b, now) /\ chain' = Applied(chain, b)
    <2>1. Built(Applied(chain, b), Append(s, b))
      BY <1>2, BuiltApplied
    <2>2. Moves(s, Append(s, b))
      BY <1>1, MovesOne
    <2> QED
      BY <1>2, <2>1, <2>2
  <1>3. CASE PassesRules(chain, b, now) /\ chain' = RootsRefused(chain, b)
    <2>1. chain' = chain
      BY <1>1, <1>3, RefusedIsUndone
    <2> QED
      BY <2>1
  <1> QED
    BY <1>2, <1>3 DEF ApplyBlock

\* try_ingest_blocks: the blocks before the first bad one are appended.
LEMMA TryIngestBlocksStep ==
    ASSUME NEW s, Built(chain, s), NEW o \in Offers, TryIngestBlocks(o)
    PROVE  \E q : Built(chain', q) /\ (q = s \/ Moves(s, q))
  <1>1. o \in Seq(Blocks) /\ Len(o) \in Nat
    BY ChainAssumption, LenProperties
  <1> DEFINE T == {i \in 0..Len(o) : AllApply(chain, SubSeq(o, 1, i), now)}
             n == Max(T)
             taken == UpTo(o, n)
             got == AppliedAll(chain, taken)
  <1>2. n \in T
    <2>1. AllApply(chain, <<>>, now)
      BY DEF AllApply
    <2>2. SubSeq(o, 1, 0) = <<>> /\ 0 \in 0..Len(o)
      BY <1>1, SubSeqEmpty
    <2>4. 0 \in T
      BY <2>1, <2>2
    <2>3. T \in SUBSET (0..Len(o)) /\ T # {}
      BY <2>4
    <2> HIDE DEF T
    <2> QED
      BY <1>1, <2>3, MaxIsMember
  <1>3. n \in 0..Len(o) /\ AllApply(chain, taken, now)
    BY <1>2 DEF UpTo
  <1>4. \/ chain' = got
        \/ n < Len(o) /\ PassesRules(got, o[n + 1], now) /\ chain' = RootsRefused(got, o[n + 1])
    BY DEF TryIngestBlocks, UpTo
  <1> HIDE DEF n
  <1>5. taken \in Seq(Blocks)
    BY <1>1, <1>3, UpToFacts
  <1> HIDE DEF taken
  <1>6. Built(got, s \o taken)
    BY <1>3, <1>5, BuiltAll
  <1> HIDE DEF got
  <1>7. s \in Seq(Blocks) /\ s \o taken \in Seq(Blocks) /\ Shows(got, s \o taken)
    BY <1>6 DEF Built, Grown
  <1>8. chain' = got
    BY <1>4, <1>7, RefusedIsUndone
  <1>9. s \o taken = s \/ Moves(s, s \o taken)
    BY <1>5, <1>7, MovesOn, ConcatEmptySeq
  <1> QED
    BY <1>6, <1>8, <1>9

\* prune_keep: the same chain, with fewer bodies.
LEMMA PruneKeepStep ==
    ASSUME NEW s, Built(chain, s), PruneKeep
    PROVE  Built(chain', s)
  BY BuiltPruned, ChainAssumption DEF PruneKeep

\* prepare_suffix_trial: the trial is our chain as it was at the ancestor, since
\* the undo records take it back exactly that far.
LEMMA PrepareSuffixTrialStep ==
    ASSUME ChainInv, NEW th \in Threads, NEW a \in 0..Len(chain.headers),
           PrepareSuffixTrial(th, a)
    PROVE  CarryInv(carry'[th])
  <1> DEFINE n == TipHeight(chain) - a
  <1>1. PICK s : Built(chain, s)
    BY DEF ChainInv
  <1>2. s \in Seq(Blocks) /\ Valid(s) /\ Shows(chain, s)
    BY <1>1 DEF Built, Grown
  <1>3. a \in Nat
    BY <1>2, TipShown, LenProperties
  <1>4. a < Len(chain.headers) /\ n <= MaxReorgDepth /\ n <= Len(chain.undos)
    BY DEF PrepareSuffixTrial
  <1>5. carry'[th] = [kind |-> "trial", trial |-> TrialAt(chain, a), rewind |-> n,
                      basedOn |-> TipHash(chain), ourWork |-> chain.totalWork]
    BY DEF PrepareSuffixTrial, ChainInv
  <1> DEFINE c == carry'[th]
  <1> HIDE DEF n
  <1>6. /\ s # <<>> /\ n \in Nat /\ n < Len(s)
        /\ Grown(TrialAt(chain, a), UpTo(s, Len(s) - n), Len(s) - n)
    BY <1>1, <1>3, <1>4, TrialGrown DEF n
  <1>7. TipHash(chain) = s[Len(s)].hash
    BY <1>2, <1>6, TipShown
  <1>8. c.kind = "trial" /\ c.trial = TrialAt(chain, a) /\ c.rewind = n
          /\ c.basedOn = TipHash(chain)
    BY <1>5
  <1> HIDE DEF c
  <1>9. TrialOf(c, s)
    BY <1>2, <1>4, <1>6, <1>7, <1>8 DEF TrialOf, Base
  <1> QED
    BY <1>8, <1>9 DEF CarryInv, c

\* finish_suffix: the trial with the branch verified onto it, whatever the chain
\* has become meanwhile.
LEMMA FinishSuffixStep ==
    ASSUME ChainInv, NEW th \in Threads, NEW o \in Offers, FinishSuffix(th, o)
    PROVE  CarryInv(carry'[th])
  <1> DEFINE c == carry[th]
             d == carry'[th]
  <1>1. CarryInv(c) /\ th \in DOMAIN carry
    BY DEF ChainInv
  <1>2. c.kind = "trial"
    BY DEF FinishSuffix
  <1>3. CASE carry' = [carry EXCEPT ![th] = Idle]
    BY <1>1, <1>3 DEF CarryInv
  <1>4. CASE Wins(c, o) /\ carry' = [carry EXCEPT ![th] =
                 [kind |-> "reorg", result |-> AppliedAll(c.trial, o),
                  rewind |-> c.rewind, basedOn |-> c.basedOn]]
    <2>1. PICK s : TrialOf(c, s)
      BY <1>1, <1>2 DEF CarryInv, Idle
    <2>2. o \in Seq(Blocks)
      BY ChainAssumption
    <2> DEFINE n == Len(s) - c.rewind
               p == UpTo(s, n)
               r == AppliedAll(c.trial, o)
               q == p \o o
    <2>3. d.kind = "reorg" /\ d.result = r /\ d.rewind = c.rewind /\ d.basedOn = c.basedOn
      BY <1>1, <1>4
    <2> HIDE DEF c, d
    <2>4. /\ s \in Seq(Blocks) /\ Valid(s) /\ Len(s) \in Nat /\ n \in 0..Len(s)
          /\ Grown(c.trial, p, n)
      <3>1. s \in Seq(Blocks) /\ Valid(s) /\ Len(s) \in Nat /\ Grown(c.trial, p, n)
              /\ c.rewind \in Nat /\ c.rewind < Len(s)
        BY <2>1, LenProperties DEF TrialOf, Base
      <3> QED
        BY <3>1
    <2> HIDE DEF n
    <2>5. p \in Seq(Blocks) /\ Len(p) = n
      BY <2>4, UpToFacts
    <2>6. AllApply(c.trial, o, now)
      BY <1>4 DEF Wins
    <2>7. Full(c.trial, p, n)
      <3>1. Len(c.trial.undos) \in Nat /\ Len(c.trial.undos) <= Len(p) - n
        BY <2>4, LenProperties DEF Grown, Covers
      <3> QED
        BY <2>4, <2>5, <3>1 DEF Full
    <2>8. Grown(r, q, n) /\ Full(r, q, n)
      BY <2>2, <2>4, <2>6, <2>7, GrownAll
    <2>9. n <= Len(q) /\ UpTo(q, n) = p
      <3>a. n \in Nat /\ n \in 0..n
        BY <2>4
      <3>1. Len(q) = Len(p) + Len(o) /\ Len(o) \in Nat /\ n \in 0..Len(p)
        BY <2>2, <2>5, <3>a, ConcatProperties, LenProperties
      <3>2. UpTo(q, n) = UpTo(p, n)
        BY <2>2, <2>5, <3>1, UpToConcat
      <3>3. UpTo(p, n) = p
        BY <2>5, UpToAll
      <3> QED
        BY <2>5, <3>a, <3>1, <3>2, <3>3
    <2>10. Base(d, s)
      BY <2>1, <2>3 DEF TrialOf, Base
    <2>11. Len(s) - d.rewind = n
      BY <2>3 DEF n
    <2>12. ResultOf(d, s, q)
      BY <2>3, <2>8, <2>9, <2>10, <2>11 DEF ResultOf
    <2> QED
      BY <2>3, <2>12 DEF CarryInv, d
  <1> QED
    BY <1>3, <1>4 DEF FinishSuffix

\* splice_suffix: the tip is still the base's, so the chain is still the base
\* (SameTip), and the branch that was verified off it fits.
LEMMA SpliceSuffixStep ==
    ASSUME ChainInv, NEW s, Built(chain, s), NEW th \in Threads, SpliceSuffix(th)
    PROVE  \E q : Built(chain', q) /\ (q = s \/ Moves(s, q))
  <1> DEFINE c == carry[th]
  <1>1. CarryInv(c) /\ c.kind = "reorg"
    BY DEF ChainInv, SpliceSuffix
  <1>2. CASE chain' = chain
    BY <1>2
  <1>3. CASE StillFits(chain, c) /\ chain' = Spliced(chain, c)
    <2> HIDE DEF c
    <2>1. PICK t, q : ResultOf(c, t, q)
      BY <1>1 DEF CarryInv, Idle
    <2>2. s \in Seq(Blocks) /\ Valid(s) /\ Shows(chain, s)
      BY DEF Built, Grown
    <2>3. Base(c, t)
      BY <2>1 DEF ResultOf
    <2>4. t = s
      <3>1. TipHash(chain) = t[Len(t)].hash
        BY <1>3, <2>3 DEF StillFits, Base
      <3>2. t \in Seq(Blocks) /\ Valid(t) /\ t # <<>>
        BY <2>3 DEF Base
      <3>3. Len(t) \in 1..Len(t)
        BY <3>2, EmptySeq
      <3>4. t[Len(t)].hash # GenesisHash
        BY <3>2, <3>3, ElementOfSeq, ChainAssumption
      <3>5. s # <<>> /\ TipHash(chain) = s[Len(s)].hash
        BY <2>2, <3>1, <3>4, TipShown
      <3> QED
        BY <2>2, <3>1, <3>2, <3>5, ValidInLine, SameTip
    <2> DEFINE n == Len(s) - c.rewind
    <2>5. /\ Len(s) \in Nat /\ c.rewind \in Nat /\ c.rewind <= MaxReorgDepth
          /\ c.rewind < Len(s)
      BY <2>2, <2>3, <2>4, LenProperties DEF Base
    <2>6. n \in 0..Len(s) /\ c.rewind = Len(s) - n /\ n >= 1
      BY <2>5
    <2>7. /\ n <= Len(q) /\ UpTo(q, n) = UpTo(s, n)
          /\ Grown(c.result, q, n) /\ Full(c.result, q, n)
      BY <2>1, <2>4 DEF ResultOf
    <2> HIDE DEF n
    <2>8. q \in Seq(Blocks) /\ Shows(c.result, q) /\ q # <<>>
      <3>1. q \in Seq(Blocks) /\ Shows(c.result, q) /\ Len(q) \in Nat
        BY <2>7, LenProperties DEF Grown
      <3>2. Len(q) # 0
        BY <2>6, <2>7, <3>1
      <3> QED
        BY <3>1, <3>2, EmptySeq
    <2>9. c.rewind <= Len(chain.blocks) /\ c.rewind <= Len(chain.undos)
      BY <1>3 DEF StillFits
    <2>10. Built(Spliced(chain, c), q)
      BY <2>6, <2>7, <2>8, <2>9, BuiltSpliced
    <2>11. WorkOfSeq(q) > WorkOfSeq(s)
      BY <1>3, <2>2, <2>8 DEF StillFits, Shows
    <2>12. Moves(s, q)
      BY <2>5, <2>6, <2>7, <2>11 DEF Moves
    <2> QED
      BY <1>3, <2>10, <2>12
  <1> QED
    BY <1>2, <1>3 DEF SpliceSuffix

\* A node starts with the chain of no block, and its threads with nothing.
LEMMA ChainInvInit == Init => ChainInv
  <1> SUFFICES ASSUME Init PROVE ChainInv
    OBVIOUS
  <1>1. Built(chain, <<>>)
    BY BuiltNew DEF Init
  <1>2. DOMAIN carry = Threads /\ \A th \in Threads : carry[th] = Idle
    BY DEF Init
  <1> QED
    BY <1>1, <1>2 DEF ChainInv, CarryInv

\* Every step keeps the invariant, and leaves the chain or moves it on.
LEMMA ChainInvStep ==
    ASSUME ChainInv, [Next]_vars
    PROVE  /\ ChainInv'
           /\ \A s : Built(chain, s) =>
                 \E q : Built(chain', q) /\ (q = s \/ Moves(s, q))
  <1> DEFINE Step == \A s : Built(chain, s) =>
                        \E q : Built(chain', q) /\ (q = s \/ Moves(s, q))
             Carries == DOMAIN carry' = Threads /\ \A th \in Threads : CarryInv(carry'[th])
  <1>1. /\ \E s : Built(chain, s)
        /\ DOMAIN carry = Threads /\ \A th \in Threads : CarryInv(carry[th])
    BY DEF ChainInv
  <1>2. chain' = chain => Step
    OBVIOUS
  <1>3. carry' = carry => Carries
    BY <1>1
  <1>4. ASSUME NEW th \in Threads, NEW c, carry' = [carry EXCEPT ![th] = c],
               CarryInv(carry'[th])
        PROVE  Carries
    <2>1. DOMAIN carry' = Threads
      BY <1>1, <1>4
    <2>2. \A u \in Threads : u # th => carry'[u] = carry[u]
      BY <1>1, <1>4
    <2> QED
      BY <1>1, <1>4, <2>1, <2>2
  <1>5. Step /\ Carries
    <2>1. CASE UNCHANGED vars
      BY <1>2, <1>3, <2>1 DEF vars
    <2>2. ASSUME NEW b \in Blocks, ApplyBlock(b) PROVE Step /\ Carries
      BY <1>3, <2>2, ApplyBlockStep DEF ApplyBlock
    <2>3. ASSUME NEW o \in Offers, TryIngestBlocks(o) PROVE Step /\ Carries
      <3>1. carry' = carry
        BY <2>3 DEF TryIngestBlocks
      <3> QED
        BY <1>3, <2>3, <3>1, TryIngestBlocksStep
    <2>4. CASE PruneKeep
      <3>1. carry' = carry
        BY <2>4 DEF PruneKeep
      <3> QED
        BY <1>3, <2>4, <3>1, PruneKeepStep
    <2>5. ASSUME NEW th \in Threads, NEW a \in 0..Len(chain.headers),
                 PrepareSuffixTrial(th, a)
          PROVE  Step /\ Carries
      <3>1. chain' = chain /\ \E c : carry' = [carry EXCEPT ![th] = c]
        BY <2>5 DEF PrepareSuffixTrial
      <3>2. CarryInv(carry'[th])
        BY <2>5, PrepareSuffixTrialStep
      <3> QED
        BY <1>2, <1>4, <3>1, <3>2
    <2>6. ASSUME NEW th \in Threads, NEW o \in Offers, FinishSuffix(th, o)
          PROVE  Step /\ Carries
      <3>1. chain' = chain /\ \E c : carry' = [carry EXCEPT ![th] = c]
        BY <2>6 DEF FinishSuffix
      <3>2. CarryInv(carry'[th])
        BY <2>6, FinishSuffixStep
      <3> QED
        BY <1>2, <1>4, <3>1, <3>2
    <2>7. ASSUME NEW th \in Threads, SpliceSuffix(th) PROVE Step /\ Carries
      <3>1. carry' = [carry EXCEPT ![th] = Idle]
        BY <2>7 DEF SpliceSuffix
      <3>2. CarryInv(carry'[th])
        BY <1>1, <3>1 DEF CarryInv
      <3> QED
        BY <1>4, <2>7, <3>1, <3>2, SpliceSuffixStep
    <2>8. CASE Tick
      BY <1>2, <1>3, <2>8 DEF Tick
    <2> QED
      BY <2>1, <2>2, <2>3, <2>4, <2>5, <2>6, <2>7, <2>8 DEF Next
  <1>6. \E q : Built(chain', q)
    BY <1>1, <1>5
  <1> QED
    BY <1>5, <1>6 DEF ChainInv

\* The node's chain is that of a valid sequence of blocks, pruned below its
\* first height; and what each thread carries is one too, on a base that was
\* the node's chain.
THEOREM ChainInvariant == Spec => []ChainInv
  <1>1. ChainInv /\ [Next]_vars => ChainInv'
    BY ChainInvStep
  <1> QED
    BY <1>1, ChainInvInit, PTL DEF Spec

-----------------------------------------------------------------------------
(* Reading the blocks back from their hashes *)

HashesOf(s) == [i \in 1..Len(s) |-> s[i].hash]

\* The blocks of s can be read back from their hashes.
LEMMA PathBack ==
    ASSUME NEW s \in Seq(Blocks)
    PROVE  /\ Path(HashesOf(s)) = s
           /\ DOMAIN HashesOf(s) = 1..Len(s) /\ Len(HashesOf(s)) = Len(s)
           /\ \A i \in 1..Len(s) : BlockOf(HashesOf(s)[i]) = s[i]
           /\ \A k \in 0..Len(s) : SubSeq(HashesOf(s), 1, k) = HashesOf(UpTo(s, k))
  <1> DEFINE H == {b.hash : b \in Blocks}
  <1>1. Len(s) \in Nat /\ \A i \in 1..Len(s) : s[i] \in Blocks
    BY LenProperties
  <1>2. ASSUME NEW b \in Blocks PROVE BlockOf(b.hash) = b
    BY ChainAssumption DEF BlockOf
  <1>3. ASSUME NEW t \in Seq(Blocks)
        PROVE  HashesOf(t) \in Seq(H) /\ Len(HashesOf(t)) = Len(t)
    <2>1. Len(t) \in Nat /\ \A i \in 1..Len(t) : t[i] \in Blocks
      BY LenProperties
    <2>2. HashesOf(t) \in [1..Len(t) -> H]
      BY <2>1 DEF HashesOf
    <2>3. HashesOf(t) \in Seq(H)
      BY <2>1, <2>2, SeqDef
    <2>4. DOMAIN HashesOf(t) = 1..Len(HashesOf(t)) /\ Len(HashesOf(t)) \in Nat
      BY <2>3, LenProperties
    <2>5. Len(HashesOf(t)) = Len(t)
      BY <2>1, <2>2, <2>4
    <2> QED
      BY <2>3, <2>5
  <1>4. DOMAIN HashesOf(s) = 1..Len(s) /\ \A i \in 1..Len(s) : BlockOf(HashesOf(s)[i]) = s[i]
    BY <1>1, <1>2 DEF HashesOf
  <1>5. Path(HashesOf(s)) = s
    <2>1. Path(HashesOf(s)) = [i \in 1..Len(s) |-> s[i]]
      BY <1>4 DEF Path
    <2> QED
      BY <2>1, LenProperties
  <1>6. ASSUME NEW k \in 0..Len(s)
        PROVE  SubSeq(HashesOf(s), 1, k) = HashesOf(UpTo(s, k))
    <2> DEFINE p == UpTo(s, k)
               x == SubSeq(HashesOf(s), 1, k)
    <2>1. p \in Seq(Blocks) /\ Len(p) = k /\ \A i \in 1..k : p[i] = s[i]
      BY UpToFacts
    <2> HIDE DEF p
    <2>2. HashesOf(p) \in Seq(H) /\ Len(HashesOf(p)) = k
            /\ \A i \in 1..k : HashesOf(p)[i] = s[i].hash
      <3>1. \A i \in 1..k : HashesOf(p)[i] = p[i].hash
        BY <2>1 DEF HashesOf
      <3> QED
        BY <1>3, <2>1, <3>1
    <2>3. k \in Int /\ k - 1 + 1 = k /\ \A i \in 1..k : i \in 1..Len(s) /\ 1 + i - 1 = i
      BY <1>1
    <2>4. \A i \in 1..k : HashesOf(s)[i] = s[i].hash /\ HashesOf(s)[i] \in H
      BY <1>1, <2>3 DEF HashesOf
    <2> HIDE DEF H
    <2>5. /\ x \in Seq(H) /\ Len(x) = IF 1 <= k THEN k - 1 + 1 ELSE 0
          /\ \A i \in 1..(k - 1 + 1) : x[i] = HashesOf(s)[1 + i - 1]
      BY <2>3, <2>4, SubSeqProperties
    <2> HIDE DEF x
    <2>6. Len(x) = k /\ \A i \in 1..k : x[i] = HashesOf(s)[i]
      BY <2>3, <2>5
    <2>7. \A i \in 1..Len(x) : x[i] = HashesOf(p)[i]
      BY <2>2, <2>4, <2>6
    <2>8. x = HashesOf(p)
      BY <2>2, <2>5, <2>6, <2>7, SeqEqual
    <2> QED
      BY <2>8 DEF x, p
  <1> QED
    BY <1>3, <1>4, <1>5, <1>6

\* What the properties of the module read of a chain that was built from s.
LEMMA BuiltReads ==
    ASSUME NEW ch, NEW s, Built(ch, s)
    PROVE  /\ s \in Seq(Blocks) /\ Len(s) \in Nat /\ Len(ch.headers) = Len(s)
           /\ Hashes(ch) = HashesOf(s)
           /\ \A k \in 0..Len(s) :
                 /\ ChainOf(SubSeq(Hashes(ch), 1, k)).ledger = LedgerOf(UpTo(s, k))
                 /\ WorkOfChain(SubSeq(Hashes(ch), 1, k)) = WorkOfSeq(UpTo(s, k))
           /\ ChainOf(Hashes(ch)).ledger = LedgerOf(s)
           /\ WorkOfChain(Hashes(ch)) = WorkOfSeq(s)
           /\ ValidChain(Hashes(ch))
  <1>1. s \in Seq(Blocks) /\ Valid(s) /\ Shows(ch, s) /\ Len(s) \in Nat
    BY LenProperties DEF Built, Grown
  <1>2. Len(ch.headers) = Len(s) /\ Hashes(ch) = HashesOf(s)
    <2>1. /\ ch.headers = HeadersOf(s) /\ Len(HeadersOf(s)) = Len(s)
          /\ DOMAIN HeadersOf(s) = 1..Len(s)
          /\ \A i \in 1..Len(s) : HeadersOf(s)[i] = HeaderOf(s[i])
      BY <1>1, HeadersOfFacts DEF Shows
    <2>2. \A i \in 1..Len(s) : ch.headers[i].hash = s[i].hash
      BY <2>1 DEF HeaderOf
    <2> QED
      BY <2>1, <2>2 DEF Hashes, HashesOf
  <1>3. /\ Path(HashesOf(s)) = s
        /\ DOMAIN HashesOf(s) = 1..Len(s)
        /\ \A i \in 1..Len(s) : BlockOf(HashesOf(s)[i]) = s[i]
        /\ \A k \in 0..Len(s) : SubSeq(HashesOf(s), 1, k) = HashesOf(UpTo(s, k))
    BY <1>1, PathBack
  <1>4. ASSUME NEW k \in 0..Len(s)
        PROVE  /\ ChainOf(SubSeq(HashesOf(s), 1, k)) = AppliedAll(NewChain, UpTo(s, k))
               /\ WorkOfChain(SubSeq(HashesOf(s), 1, k)) = WorkOfSeq(UpTo(s, k))
    <2>1. UpTo(s, k) \in Seq(Blocks)
      BY <1>1, UpToFacts
    <2>2. Path(SubSeq(HashesOf(s), 1, k)) = UpTo(s, k)
      BY <1>3, <2>1, PathBack
    <2> QED
      BY <2>2 DEF ChainOf, WorkOfChain
  <1>5. ValidChain(HashesOf(s))
    <2> SUFFICES ASSUME NEW i \in 1..Len(s)
                 PROVE  CanApply(ChainOf(SubSeq(HashesOf(s), 1, i - 1)),
                                 BlockOf(HashesOf(s)[i]), BlockOf(HashesOf(s)[i]).time)
      BY <1>3 DEF ValidChain
    <2>1. i - 1 \in 0..Len(s)
      BY <1>1
    <2>2. CanApply(AppliedAll(NewChain, UpTo(s, i - 1)), s[i], s[i].time)
      BY <1>1 DEF Valid
    <2> QED
      BY <1>3, <1>4, <2>1, <2>2
  <1>6. ChainOf(HashesOf(s)).ledger = LedgerOf(s) /\ WorkOfChain(HashesOf(s)) = WorkOfSeq(s)
    BY <1>3 DEF ChainOf, WorkOfChain, LedgerOf
  <1> QED
    BY <1>1, <1>2, <1>4, <1>5, <1>6 DEF LedgerOf

-----------------------------------------------------------------------------
(* The properties *)

\* The ledger of a built chain is the one its blocks lead to from genesis.
LEMMA LedgerReplays == ChainInv => LedgerIsReplay
  <1> SUFFICES ASSUME ChainInv PROVE LedgerIsReplay
    OBVIOUS
  <1>1. PICK s : Built(chain, s)
    BY DEF ChainInv
  <1>2. chain.ledger = LedgerOf(s)
    BY <1>1 DEF Built, Grown, Shows
  <1> QED
    BY <1>1, <1>2, BuiltReads DEF LedgerIsReplay

\* However the node got here -- blocks applied and refused by apply_block, undo
\* records rewound, branches spliced, bodies pruned -- its ledger is the one that
\* replaying its chain from genesis gives.
THEOREM LedgerAlwaysReplays == Spec => []LedgerIsReplay
  BY LedgerReplays, ChainInvariant, PTL

\* The undo records of a built chain rewind it to where it was.
LEMMA UndoWindowIsExact == ChainInv => UndoWindowExact
  <1> SUFFICES ASSUME ChainInv, NEW n \in 0..Len(chain.undos)
               PROVE  LET back == SubSeq(Hashes(chain), 1, Len(chain.headers) - n)
                      IN  /\ RewoundLedger(chain, n) = ChainOf(back).ledger
                          /\ chain.totalWork - RewoundWork(chain, n) = WorkOfChain(back)
    BY DEF UndoWindowExact
  <1>1. PICK s : Built(chain, s)
    BY DEF ChainInv
  <1>2. /\ s \in Seq(Blocks) /\ Valid(s) /\ Shows(chain, s) /\ Covers(chain.undos, s)
        /\ chain.totalWork = WorkOfSeq(s)
    BY <1>1 DEF Built, Grown, Shows
  <1> DEFINE k == Len(s) - n
  <1>3. k \in 0..Len(s)
    BY <1>2, LenProperties DEF Covers
  <1>4. /\ RewoundLedger(chain, n) = LedgerOf(UpTo(s, k))
        /\ RewoundWork(chain, n) = WorkOfSeq(s) - WorkOfSeq(UpTo(s, k))
    BY <1>2, BackExact
  <1>5. Len(chain.headers) - n = k
    BY <1>1, BuiltReads
  <1> HIDE DEF k
  <1>6. UpTo(s, k) \in Seq(Blocks)
    BY <1>2, <1>3, UpToFacts
  <1>7. chain.totalWork - RewoundWork(chain, n) = WorkOfSeq(UpTo(s, k))
    BY <1>2, <1>4, <1>6, WorkIsNat
  <1> QED
    BY <1>1, <1>3, <1>4, <1>5, <1>7, BuiltReads

\* The undo records the node keeps, also those a splice joined from two chains,
\* take the ledger and the work back exactly: prepare_suffix_trial starts every
\* trial from its ancestor's true state.
THEOREM UndoWindowAlwaysExact == Spec => []UndoWindowExact
  BY UndoWindowIsExact, ChainInvariant, PTL

\* The horizon of a built chain is the ledger of the blocks below its bodies.
LEMMA HorizonReplays == ChainInv => HorizonIsReplay
  <1> SUFFICES ASSUME ChainInv PROVE HorizonIsReplay
    OBVIOUS
  <1>1. PICK s : Built(chain, s)
    BY DEF ChainInv
  <1>2. /\ chain.horizon = LedgerOf(UpTo(s, chain.firstHeight))
        /\ chain.horizonWork = WorkOfSeq(UpTo(s, chain.firstHeight))
        /\ chain.firstHeight \in 0..Len(s)
    BY <1>1 DEF Built, Grown
  <1> QED
    BY <1>1, <1>2, BuiltReads DEF HorizonIsReplay

\* What prune_keep folds into the horizon is the state just below the first body,
\* also after a reorganisation replaced the bodies above it.
THEOREM HorizonAlwaysReplays == Spec => []HorizonIsReplay
  BY HorizonReplays, ChainInvariant, PTL

\* A built chain has the bodies its undo records rewind.
LEMMA BodiesCover == ChainInv => BodiesCoverWindow
  <1> SUFFICES ASSUME ChainInv PROVE BodiesCoverWindow
    OBVIOUS
  <1>1. PICK s : Built(chain, s)
    BY DEF ChainInv
  <1> DEFINE f == chain.firstHeight
  <1>2. /\ s \in Seq(Blocks) /\ f \in 0..Len(s) /\ chain.blocks = After(s, f)
        /\ Len(chain.undos) <= Len(s) - f /\ chain.headers = HeadersOf(s)
    BY <1>1 DEF Built, Grown, Shows
  <1> HIDE DEF f
  <1>3. /\ Len(s) \in Nat /\ Len(chain.headers) = Len(s)
        /\ Len(chain.blocks) = Len(s) - f /\ chain.blocks \in Seq(Blocks)
        /\ \A i \in 1..(Len(s) - f) : chain.blocks[i] = s[f + i]
        /\ \A i \in 1..Len(s) : chain.headers[i] = HeaderOf(s[i])
    BY <1>2, AfterFacts, HeadersOfFacts
  <1>4. Len(chain.headers) = f + Len(chain.blocks) /\ Len(chain.undos) <= Len(chain.blocks)
    BY <1>2, <1>3
  <1>5. ASSUME NEW i \in DOMAIN chain.blocks
        PROVE  HeaderOf(chain.blocks[i]) = chain.headers[f + i]
    <2>1. i \in 1..(Len(s) - f)
      BY <1>3, LenProperties
    <2>2. f + i \in 1..Len(s)
      BY <1>2, <1>3, <2>1
    <2> QED
      BY <1>3, <2>1, <2>2
  <1> QED
    BY <1>4, <1>5 DEF BodiesCoverWindow, f

\* The bodies are those of the headers from first_height up and reach as far back
\* as the undo records: every rewind prepare_suffix_trial allows, splice_suffix
\* can do.
THEOREM BodiesAlwaysCoverWindow == Spec => []BodiesCoverWindow
  BY BodiesCover, ChainInvariant, PTL

\* The supply equation holds of genesis, and of every ledger a valid chain
\* leads to: the last block was checked for it.
LEMMA ValidSupply ==
    ASSUME NEW s \in Seq(Blocks), Valid(s)
    PROVE  SupplyHolds(LedgerOf(s))
  <1>1. CASE s = <<>>
    <2>1. AmountOf({}) = 0
      BY DEF AmountOf, SumFunctionOnSet, FoldFunctionOnSet, MapThenFoldSet
    <2>2. DOMAIN Genesis.utxos = {} /\ Genesis.minted = 0 /\ Genesis.burned = 0
      BY DEF Genesis
    <2>3. SupplyHolds(Genesis)
      BY <2>1, <2>2, LedgerAssumption DEF SupplyHolds
    <2> QED
      BY <1>1, <2>3, LedgerNone
  <1>2. CASE s # <<>>
    <2> DEFINE n == Len(s)
               p == UpTo(s, n - 1)
    <2>1. n \in Nat /\ n \in 1..n /\ n - 1 \in 0..(n - 1) /\ (n - 1) + 1 = n
      BY <1>2, EmptySeq
    <2>2. s = Append(p, s[n]) /\ p \in Seq(Blocks) /\ s[n] \in Blocks
      BY <2>1, UpToMore, UpToAll
    <2>3. Acceptable(LedgerOf(p), s[n].body, s[n].height,
                     RewardAt(s[n].height, LedgerOf(p).minted))
      BY <2>1, ValidBlock
    <2>4. LedgerOf(s) = Took(LedgerOf(p), s[n])
      BY <2>2, LedgerMore
    <2> HIDE DEF n, p
    <2> QED
      BY <2>3, <2>4 DEF Acceptable, Took
  <1> QED
    BY <1>1, <1>2

\* The supply equation holds at the tip and at the horizon of a built chain.
LEMMA SupplyIsSound == ChainInv => SupplySound
  <1> SUFFICES ASSUME ChainInv PROVE SupplySound
    OBVIOUS
  <1>1. PICK s : Built(chain, s)
    BY DEF ChainInv
  <1> DEFINE f == chain.firstHeight
  <1>2. /\ s \in Seq(Blocks) /\ Valid(s) /\ chain.ledger = LedgerOf(s)
        /\ f \in 0..Len(s) /\ chain.horizon = LedgerOf(UpTo(s, f))
    BY <1>1 DEF Built, Grown, Shows
  <1>3. UpTo(s, f) \in Seq(Blocks) /\ Valid(UpTo(s, f))
    BY <1>2, UpToFacts, ValidUpTo
  <1> QED
    BY <1>2, <1>3, ValidSupply DEF SupplySound

\* The outputs of the ledger and of the horizon hide what was minted and not
\* burned, within the cap: what verify_supply checks of a block at its tip holds
\* of every ledger the node ever has.
THEOREM SupplyAlwaysSound == Spec => []SupplySound
  BY SupplyIsSound, ChainInvariant, PTL

\* Blocks two chains begin with are not abandoned by moving from one to the other.
LEMMA KeptIsNotAbandoned ==
    ASSUME NEW s \in Seq(Blocks), NEW q \in Seq(Blocks), NEW n \in 0..Len(s),
           n <= Len(q), UpTo(q, n) = UpTo(s, n), Len(s) - n <= MaxReorgDepth
    PROVE  Abstract!KeepsAllBut(HashesOf(s), HashesOf(q), MaxReorgDepth)
  <1>1. /\ Len(s) \in Nat /\ Len(q) \in Nat /\ n \in Nat
        /\ Len(HashesOf(s)) = Len(s) /\ Len(HashesOf(q)) = Len(q)
    BY PathBack, LenProperties
  <1>2. \A i \in 1..n : HashesOf(s)[i] = HashesOf(q)[i]
    <2>1. n \in 0..Len(q)
      BY <1>1
    <2>2. \A i \in 1..n : UpTo(s, n)[i] = s[i] /\ UpTo(q, n)[i] = q[i]
      BY <2>1, UpToFacts
    <2>3. \A i \in 1..n : s[i] = q[i] /\ i \in 1..Len(s) /\ i \in 1..Len(q)
      BY <1>1, <2>2
    <2> QED
      BY <2>3 DEF HashesOf
  <1>3. n \in 0..Len(HashesOf(s)) /\ n <= Len(HashesOf(q)) /\ Len(HashesOf(s)) - n <= MaxReorgDepth
    BY <1>1
  <1> QED
    BY <1>2, <1>3 DEF Abstract!KeepsAllBut

\* Whatever threads prepare and finish with the lock released, the node's chain
\* only moves to a valid chain with strictly more work, abandoning no more than
\* MAX_REORG_DEPTH of its blocks.
THEOREM ImplementsHeaviestChain == Spec => FollowsHeaviest
  <1>1. Init => Abstract!Init
    BY DEF Init, Abstract!Init, Hashes, NewChain
  <1>2. ChainInv /\ [Next]_vars => [Abstract!Advance]_(Hashes(chain))
    <2> SUFFICES ASSUME ChainInv, [Next]_vars, Hashes(chain') # Hashes(chain)
                 PROVE  Abstract!Advance
      BY DEF Hashes
    <2>1. PICK s : Built(chain, s)
      BY DEF ChainInv
    <2>2. PICK q : Built(chain', q) /\ (q = s \/ Moves(s, q))
      BY <2>1, ChainInvStep
    <2>3. /\ s \in Seq(Blocks) /\ Hashes(chain) = HashesOf(s)
          /\ WorkOfChain(Hashes(chain)) = WorkOfSeq(s)
      BY <2>1, BuiltReads
    <2>4. /\ q \in Seq(Blocks) /\ Hashes(chain') = HashesOf(q)
          /\ WorkOfChain(Hashes(chain')) = WorkOfSeq(q)
          /\ ValidChain(Hashes(chain'))
      BY <2>2, BuiltReads
    <2>5. Moves(s, q)
      BY <2>2, <2>3, <2>4
    <2>6. WorkOfChain(Hashes(chain')) > WorkOfChain(Hashes(chain))
      BY <2>3, <2>4, <2>5 DEF Moves
    <2>7. Abstract!KeepsAllBut(Hashes(chain), Hashes(chain'), MaxReorgDepth)
      BY <2>3, <2>4, <2>5, KeptIsNotAbandoned DEF Moves
    <2> QED
      BY <2>4, <2>6, <2>7 DEF Abstract!Advance, Hashes
  <1> QED
    BY <1>1, <1>2, ChainInvariant, PTL DEF Spec, FollowsHeaviest, Abstract!Spec

-----------------------------------------------------------------------------
(* Whole candidates *)

\* A valid way on from the chain of s is one from any chain built of s.
LEMMA BuiltAlong ==
    ASSUME NEW ch, NEW s, Built(ch, s)
    PROVE  \A o \in Seq(Blocks) : Valid(s \o o) => Built(AppliedAll(ch, o), s \o o)
  <1> DEFINE S == {o \in Seq(Blocks) : Valid(s \o o) => Built(AppliedAll(ch, o), s \o o)}
  <1>1. s \in Seq(Blocks)
    BY DEF Built, Grown
  <1>2. <<>> \in S
    BY <1>1, ConcatEmptySeq, EmptySeq, AppliedNone
  <1>3. ASSUME NEW o \in Seq(Blocks), NEW b \in Blocks, o \in S
        PROVE  Append(o, b) \in S
    <2> DEFINE x == s \o o
               a == Append(x, b)
               r == AppliedAll(ch, o)
    <2>1. Append(o, b) \in Seq(Blocks) /\ s \o Append(o, b) = a /\ x \in Seq(Blocks)
      BY <1>1, AppendProperties, ConcatMore, ConcatProperties
    <2>2. AppliedAll(ch, Append(o, b)) = Applied(r, b)
      BY AppliedMore
    <2>3. Valid(x) => Built(r, x)
      BY <1>3
    <2> SUFFICES ASSUME Valid(a) PROVE Built(Applied(r, b), a)
      BY <2>1, <2>2
    <2> HIDE DEF r, x
    <2>4. /\ a \in Seq(Blocks) /\ Len(x) \in Nat /\ Len(a) = Len(x) + 1
          /\ a[Len(x) + 1] = b
      BY <2>1, AppendProperties
    <2>5. UpTo(a, Len(x)) = x
      BY <2>1, <2>4, UpToAppend, UpToAll
    <2> HIDE DEF a
    <2>6. Len(x) \in 0..Len(a) /\ Len(x) + 1 \in 1..Len(a) /\ (Len(x) + 1) - 1 = Len(x)
      BY <2>4
    <2>7. Built(r, x)
      BY <2>3, <2>4, <2>5, <2>6, ValidUpTo
    <2>8. CanApply(AppliedAll(NewChain, x), b, b.time)
      BY <2>4, <2>5, <2>6 DEF Valid
    <2>9. CanApply(r, b, b.time)
      <3>1. Shows(r, x) /\ Shows(AppliedAll(NewChain, x), x)
        BY <2>1, <2>7, StateShows DEF Built, Grown
      <3> QED
        BY <2>1, <2>8, <3>1, SameView
    <2> QED
      BY <2>7, <2>9, BuiltApplied DEF a
  <1>4. \A o \in Seq(Blocks) : o \in S
    <2> HIDE DEF S
    <2> QED
      BY <1>2, <1>3, SeqInduct
  <1> QED
    BY <1>4

\* Two runs one after the other are one run.
LEMMA AppliedConcat ==
    ASSUME NEW ch, NEW a \in Seq(Blocks)
    PROVE  \A b \in Seq(Blocks) : AppliedAll(ch, a \o b) = AppliedAll(AppliedAll(ch, a), b)
  <1> DEFINE S == {b \in Seq(Blocks) : AppliedAll(ch, a \o b) = AppliedAll(AppliedAll(ch, a), b)}
  <1>1. <<>> \in S
    BY ConcatEmptySeq, EmptySeq, AppliedNone
  <1>2. ASSUME NEW b \in Seq(Blocks), NEW d \in Blocks, b \in S
        PROVE  Append(b, d) \in S
    <2>1. Append(b, d) \in Seq(Blocks) /\ a \o Append(b, d) = Append(a \o b, d)
            /\ a \o b \in Seq(Blocks)
      BY AppendProperties, ConcatMore, ConcatProperties
    <2>2. AppliedAll(ch, Append(a \o b, d)) = Applied(AppliedAll(ch, a \o b), d)
      BY <2>1, AppliedMore
    <2>3. AppliedAll(AppliedAll(ch, a), Append(b, d)) = Applied(AppliedAll(AppliedAll(ch, a), b), d)
      BY AppliedMore
    <2> QED
      BY <1>2, <2>1, <2>2, <2>3
  <1>3. \A b \in Seq(Blocks) : b \in S
    <2> HIDE DEF S
    <2> QED
      BY <1>1, <1>2, SeqInduct
  <1> QED
    BY <1>3

\* A sequence is its beginning and its ending.
LEMMA Halves ==
    ASSUME NEW s \in Seq(Blocks), NEW k \in 0..Len(s)
    PROVE  UpTo(s, k) \o After(s, k) = s
  <1>1. Len(s) \in Nat /\ Len(s) - k \in 0..(Len(s) - k) /\ k + (Len(s) - k) = Len(s)
    BY LenProperties
  <1>2. After(s, k) \in Seq(Blocks) /\ Len(After(s, k)) = Len(s) - k
    BY AfterFacts
  <1>3. UpTo(s, k) \o UpTo(After(s, k), Len(s) - k) = UpTo(s, k + (Len(s) - k))
    BY <1>1, AfterConcat
  <1>4. UpTo(After(s, k), Len(s) - k) = After(s, k)
    BY <1>2, UpToAll
  <1>5. UpTo(s, k + (Len(s) - k)) = s
    BY <1>1, UpToAll
  <1> QED
    BY <1>3, <1>4, <1>5

\* Rebuilding starts from the blocks below the horizon.
LEMMA BuiltBase ==
    ASSUME NEW ch, NEW s, Built(ch, s)
    PROVE  Built(RebuildBase(ch), UpTo(s, ch.firstHeight))
  <1> DEFINE f == ch.firstHeight
             p == UpTo(s, f)
             r == RebuildBase(ch)
  <1>1. /\ s \in Seq(Blocks) /\ f \in 0..Len(s) /\ Valid(s) /\ ch.headers = HeadersOf(s)
        /\ ch.horizon = LedgerOf(p) /\ ch.horizonWork = WorkOfSeq(p)
    BY DEF Built, Grown, Shows
  <1>2. CASE f = 0
    <2>1. p = <<>> /\ r = NewChain
      BY <1>2, UpToNone DEF RebuildBase, IsPruned
    <2> QED
      BY <2>1, BuiltNew
  <1>3. CASE f # 0
    <2>1. Len(s) \in Nat /\ f > 0 /\ f \in Nat /\ f \in 0..f
      BY <1>1, <1>3, LenProperties
    <2>2. /\ p \in Seq(Blocks) /\ Len(p) = f /\ \A i \in 1..f : p[i] = s[i]
          /\ Valid(p)
      BY <1>1, UpToFacts, ValidUpTo
    <2>3. p # <<>>
      BY <2>1, <2>2, EmptySeq
    <2>4. /\ r.ledger = ch.horizon /\ r.horizon = ch.horizon
          /\ r.horizonWork = ch.horizonWork /\ r.totalWork = ch.horizonWork
          /\ r.firstHeight = f /\ r.headers = SubSeq(ch.headers, 1, f)
          /\ r.blocks = <<>> /\ r.undos = <<>> /\ IsChain(r)
      <3>1. r = [NewChain EXCEPT !.ledger = ch.horizon, !.horizon = ch.horizon,
                          !.horizonWork = ch.horizonWork, !.totalWork = ch.horizonWork,
                          !.firstHeight = ch.firstHeight,
                          !.headers = SubSeq(ch.headers, 1, ch.firstHeight)]
        BY <2>1 DEF RebuildBase, IsPruned
      <3> HIDE DEF r
      <3>2. r = [ledger |-> ch.horizon, blocks |-> <<>>,
                 headers |-> SubSeq(ch.headers, 1, ch.firstHeight),
                 firstHeight |-> ch.firstHeight, horizon |-> ch.horizon,
                 horizonWork |-> ch.horizonWork, totalWork |-> ch.horizonWork, undos |-> <<>>]
        BY <3>1 DEF NewChain
      <3> QED
        BY <3>2 DEF IsChain
    <2>5. SubSeq(HeadersOf(s), 1, f) = HeadersOf(p)
      BY <1>1, HeadersUpTo
    <2> HIDE DEF r, p
    <2>6. Shows(r, p)
      BY <1>1, <2>3, <2>4, <2>5 DEF Shows
    <2>7. After(p, f) = <<>>
      <3> HIDE DEF f
      <3>1. f \in 0..Len(p)
        BY <2>1, <2>2
      <3>2. After(p, f) \in Seq(Blocks) /\ Len(After(p, f)) = Len(p) - f
        BY <2>2, <3>1, AfterFacts
      <3> QED
        BY <2>1, <2>2, <3>2, EmptySeq
    <2>8. Covers(<<>>, p)
      BY <2>1, <2>2 DEF Covers
    <2>9. UpTo(p, f) = p
      BY <2>2, UpToAll
    <2>10. Len(<<>>) <= MaxReorgDepth /\ Len(<<>>) <= Len(p) - f
      BY <2>1, <2>2, EmptySeq, ChainAssumption
    <2>11. Grown(r, p, f)
      BY <2>1, <2>2, <2>4, <2>6, <2>7, <2>8, <2>10 DEF Grown
    <2> QED
      BY <1>1, <2>4, <2>9, <2>11 DEF Built, r, p
  <1> QED
    BY <1>2, <1>3

\* Pins are no higher than some height.
LEMMA PinnedBelow == \E m \in Nat : \A p \in Checkpoints : p[1] <= m
  <1>1. PICK n \in Nat : ExistsBijection(1..n, Checkpoints)
    BY FS_NatBijection, ChainAssumption
  <1>2. PICK f : f \in Bijection(1..n, Checkpoints)
    BY <1>1 DEF ExistsBijection
  <1>3. f \in Surjection(1..n, Checkpoints)
    BY <1>2 DEF Bijection
  <1>4. \A i \in 1..n : f[i] \in Checkpoints
    BY <1>3 DEF Surjection
  <1>5. \A p \in Checkpoints : \E i \in 1..n : f[i] = p
    BY <1>3 DEF Surjection
  <1>6. \A i \in 1..n : f[i][1] \in Nat
    BY <1>4, ChainAssumption
  <1> DEFINE S == {k \in 0..n : \E m \in Nat : \A i \in 1..k : f[i][1] <= m}
  <1>7. 0 \in S
    OBVIOUS
  <1>8. ASSUME NEW k \in 0..(n - 1), k \in S PROVE k + 1 \in S
    <2>1. PICK m \in Nat : \A i \in 1..k : f[i][1] <= m
      BY <1>8
    <2>2. k + 1 \in 1..n /\ k + 1 \in 0..n /\ f[k + 1][1] \in Nat
      BY <1>6
    <2> DEFINE z == m + f[k + 1][1]
    <2>3. z \in Nat /\ m <= z /\ f[k + 1][1] <= z
      BY <2>2
    <2>4. \A i \in 1..(k + 1) : i = k + 1 \/ i \in 1..k
      OBVIOUS
    <2>5. \A i \in 1..k : i \in 1..n
      OBVIOUS
    <2> HIDE DEF z
    <2>6. \A i \in 1..(k + 1) : f[i][1] <= z
      BY <1>6, <2>1, <2>3, <2>4, <2>5
    <2> QED
      BY <2>2, <2>3, <2>6
  <1>9. n \in S
    <2> HIDE DEF S
    <2>1. \A k \in 0..n : k \in S
      BY <1>7, <1>8, InductUpTo
    <2> QED
      BY <2>1
  <1> QED
    BY <1>5, <1>9

\* The blocks whose hashes make a valid chain are one.
LEMMA ValidRead ==
    ASSUME NEW s \in Seq(Blocks), ValidChain(HashesOf(s))
    PROVE  Valid(s)
  <1>1. /\ Len(s) \in Nat
        /\ DOMAIN HashesOf(s) = 1..Len(s)
        /\ \A i \in 1..Len(s) : BlockOf(HashesOf(s)[i]) = s[i]
        /\ \A k \in 0..Len(s) : SubSeq(HashesOf(s), 1, k) = HashesOf(UpTo(s, k))
    BY PathBack, LenProperties
  <1> SUFFICES ASSUME NEW i \in 1..Len(s)
               PROVE  CanApply(AppliedAll(NewChain, UpTo(s, i - 1)), s[i], s[i].time)
    BY DEF Valid
  <1>2. i - 1 \in 0..Len(s)
    BY <1>1
  <1>3. ChainOf(SubSeq(HashesOf(s), 1, i - 1)) = AppliedAll(NewChain, UpTo(s, i - 1))
    <2>1. UpTo(s, i - 1) \in Seq(Blocks)
      BY <1>2, UpToFacts
    <2> QED
      BY <1>1, <1>2, <2>1, PathBack DEF ChainOf
  <1>4. CanApply(ChainOf(SubSeq(HashesOf(s), 1, i - 1)), BlockOf(HashesOf(s)[i]),
                 BlockOf(HashesOf(s)[i]).time)
    BY <1>1 DEF ValidChain
  <1> QED
    BY <1>1, <1>3, <1>4

\* Blocks replayed up to a pin are those the pin stands for: the replay checks
\* the links and the pinned hash, and those determine the rest.
LEMMA PinnedIsValid ==
    ASSUME NEW o \in Seq(Blocks), NEW p \in Checkpoints, p[1] < Len(o),
           AllReplay(NewChain, UpTo(o, p[1] + 1))
    PROVE  Valid(UpTo(o, p[1] + 1))
  <1> DEFINE n == p[1] + 1
             x == UpTo(o, n)
  <1>1. p[1] \in Nat /\ Len(o) \in Nat
    BY ChainAssumption, LenProperties
  <1>2. n \in 0..Len(o) /\ n \in 1..n /\ n # 0 /\ n - 1 = p[1]
    BY <1>1
  <1> HIDE DEF n
  <1>3. x \in Seq(Blocks) /\ Len(x) = n
    BY <1>2, UpToFacts
  <1>4. InLine(x) /\ \A i \in 1..Len(x) : Unpinned(x[i])
    BY <1>3, ReplayInLine DEF n
  <1> HIDE DEF x
  <1>5. x[n] \in Blocks /\ x[n].height = p[1] /\ x[n].hash = p[2]
    <2>1. x[n] \in Blocks /\ x[n].height = n - 1
      BY <1>2, <1>3, <1>4, Heights, ElementOfSeq
    <2> QED
      BY <1>2, <1>3, <1>4, <2>1 DEF Unpinned
  <1>6. PICK s \in [1..n -> Blocks] :
            s[n] = x[n] /\ ValidChain([i \in 1..n |-> s[i].hash])
    BY <1>5, CheckpointAssumption DEF n
  <1>7. s \in Seq(Blocks) /\ Len(s) = n
    <2>1. s \in Seq(Blocks)
      BY <1>2, SeqDef
    <2>2. DOMAIN s = 1..Len(s) /\ Len(s) \in Nat
      BY <2>1, LenProperties
    <2> QED
      BY <1>2, <2>1, <2>2
  <1>8. Valid(s)
    BY <1>6, <1>7, ValidRead DEF HashesOf
  <1>9. s = x
    BY <1>2, <1>3, <1>4, <1>6, <1>7, <1>8, ValidInLine, SameTip, EmptySeq
  <1> QED
    BY <1>8, <1>9 DEF x, n

\* What assume-valid replays without its checks ends at a pin.
LEMMA TrustEndsAtPin ==
    ASSUME NEW o \in Seq(Blocks), AssumeValidTo(o) # 0
    PROVE  \E p \in Checkpoints : AssumeValidTo(o) = p[1] + 1 /\ p[1] < Len(o)
  <1> DEFINE T == {0} \cup {p[1] : p \in Checkpoints}
  <1>1. PICK m \in Nat : \A p \in Checkpoints : p[1] <= m
    BY PinnedBelow
  <1>2. T \in SUBSET (0..m) /\ T # {}
    <2>1. \A p \in Checkpoints : p[1] \in 0..m
      BY <1>1, ChainAssumption
    <2> QED
      BY <2>1
  <1>3. Max(T) \in T
    <2> HIDE DEF T
    <2> QED
      BY <1>2, MaxIsMember
  <1>4. Max(T) > 0 /\ Len(o) > Max(T) /\ AssumeValidTo(o) = Max(T) + 1
    BY DEF AssumeValidTo
  <1>5. PICK p \in Checkpoints : Max(T) = p[1]
    <2> DEFINE x == Max(T)
    <2>1. x \in T /\ x > 0
      BY <1>3, <1>4
    <2> HIDE DEF x
    <2>2. \E p \in Checkpoints : x = p[1]
      BY <2>1
    <2> QED
      BY <2>2 DEF x
  <1>6. p[1] \in Nat /\ Len(o) \in Nat
    BY ChainAssumption, LenProperties
  <1> HIDE DEF T
  <1> QED
    BY <1>4, <1>5, <1>6

\* The blocks a branch has in common with us are ours.
LEMMA CommonBlocks ==
    ASSUME NEW ch, NEW s, Built(ch, s), NEW o \in Seq(Blocks)
    PROVE  LET f == ch.firstHeight
               n == CommonWith(ch, o)
           IN  /\ n \in 0..Len(o) /\ f + n \in 0..Len(s)
               /\ UpTo(s, f) \o UpTo(o, n) = UpTo(s, f + n)
  <1> DEFINE f == ch.firstHeight
             T == {n \in 0..Len(o) : /\ f + n <= Len(ch.headers)
                                     /\ \A i \in 1..n : o[i].hash = ch.headers[f + i].hash}
             n == Max(T)
             a == After(s, f)
  <1>1. /\ s \in Seq(Blocks) /\ f \in 0..Len(s) /\ ch.headers = HeadersOf(s)
        /\ Len(s) \in Nat /\ Len(o) \in Nat
    BY LenProperties DEF Built, Grown, Shows
  <1>2. Len(ch.headers) = Len(s) /\ \A i \in 1..Len(s) : ch.headers[i].hash = s[i].hash
    <2>1. Len(ch.headers) = Len(s) /\ \A i \in 1..Len(s) : ch.headers[i] = HeaderOf(s[i])
      BY <1>1, HeadersOfFacts
    <2>2. \A i \in 1..Len(s) : HeaderOf(s[i]).hash = s[i].hash
      BY DEF HeaderOf
    <2> QED
      BY <2>1, <2>2
  <1>3. n = CommonWith(ch, o)
    BY DEF CommonWith
  <1>4. n \in T
    <2>1. 0 \in 0..Len(o) /\ f + 0 <= Len(ch.headers)
      BY <1>1, <1>2
    <2>2. 0 \in T
      BY <2>1
    <2>3. T \in SUBSET (0..Len(o)) /\ T # {}
      BY <2>2
    <2> HIDE DEF T
    <2> QED
      BY <1>1, <2>3, MaxIsMember
  <1>5. /\ n \in 0..Len(o) /\ f + n <= Len(s)
        /\ \A i \in 1..n : o[i].hash = ch.headers[f + i].hash
    BY <1>2, <1>4
  <1>6. a \in Seq(Blocks) /\ Len(a) = Len(s) - f /\ \A i \in 1..(Len(s) - f) : a[i] = s[f + i]
    BY <1>1, AfterFacts
  <1> HIDE DEF n, f, a, T
  <1>7. n \in 0..(Len(s) - f) /\ f + n \in 0..Len(s) /\ n \in Nat /\ f \in Nat /\ n <= Len(a)
    BY <1>1, <1>5, <1>6
  <1>8. ASSUME NEW i \in 1..n PROVE o[i] = a[i]
    <2>1. i \in 1..Len(o) /\ f + i \in 1..Len(s) /\ i \in 1..(Len(s) - f)
      BY <1>1, <1>5, <1>7
    <2>2. o[i].hash = s[f + i].hash
      BY <1>2, <1>5, <2>1
    <2>3. o[i] \in Blocks /\ s[f + i] \in Blocks
      BY <1>1, <2>1, ElementOfSeq
    <2> QED
      BY <1>6, <2>1, <2>2, <2>3, ChainAssumption
  <1>9. UpTo(o, n) = UpTo(a, n)
    BY <1>5, <1>6, <1>7, <1>8, SameUpTo
  <1>10. UpTo(s, f) \o UpTo(a, n) = UpTo(s, f + n)
    BY <1>1, <1>7, AfterConcat DEF a
  <1> QED
    BY <1>3, <1>5, <1>7, <1>9, <1>10 DEF f

\* What rebuilding verifies a heavier branch onto is the chain of our blocks
\* below the horizon and the branch's.
LEMMA CandidateBuilt ==
    ASSUME NEW ch, NEW s, Built(ch, s), NEW o \in Seq(Blocks), NEW t, Heavier(ch, o, t)
    PROVE  Built(AppliedAll(RebuildBase(ch), o), UpTo(s, ch.firstHeight) \o o)
  <1> DEFINE f == ch.firstHeight
             p == UpTo(s, f)
             base == RebuildBase(ch)
             common == CommonWith(ch, o)
             pinned == AssumeValidTo(o)
             trusted == IF IsPruned(ch) THEN common ELSE AtLeast(common, pinned)
             x == UpTo(o, trusted)
             y == After(o, trusted)
  <1>1. AllReplay(base, x) /\ AllApply(AppliedAll(base, x), y, t)
    BY DEF Heavier, UpTo, After
  <1>2. s \in Seq(Blocks) /\ Valid(s) /\ f \in 0..Len(s) /\ Len(o) \in Nat
    BY LenProperties DEF Built, Grown
  <1>3. Built(base, p) /\ p \in Seq(Blocks)
    BY <1>2, BuiltBase, UpToFacts
  <1>4. common \in 0..Len(o) /\ f + common \in 0..Len(s)
          /\ p \o UpTo(o, common) = UpTo(s, f + common)
    BY CommonBlocks
  <1>5. pinned = 0 \/ \E c \in Checkpoints : pinned = c[1] + 1 /\ c[1] < Len(o)
    BY TrustEndsAtPin
  <1>6. \/ trusted = common
        \/ ~IsPruned(ch) /\ trusted = pinned /\ pinned # 0
    BY <1>4 DEF AtLeast
  <1> HIDE DEF trusted, common, pinned
  <1>7. trusted \in 0..Len(o)
    <2>1. \A c \in Checkpoints : c[1] \in Nat
      BY ChainAssumption
    <2> QED
      BY <1>2, <1>4, <1>5, <1>6, <2>1
  <1>8. x \in Seq(Blocks) /\ y \in Seq(Blocks) /\ x \o y = o
    BY <1>7, UpToFacts, AfterFacts, Halves
  <1>9. Valid(p \o x)
    <2>1. CASE trusted = common
      BY <1>2, <1>4, <2>1, ValidUpTo
    <2>2. CASE ~IsPruned(ch) /\ trusted = pinned /\ pinned # 0
      <3>1. PICK c \in Checkpoints : pinned = c[1] + 1 /\ c[1] < Len(o)
        BY <1>5, <2>2
      <3>2. f = 0 /\ base = NewChain
        BY <1>2, <2>2 DEF IsPruned, RebuildBase
      <3>3. p = <<>>
        BY <3>2, UpToNone
      <3>4. Valid(x)
        BY <1>1, <2>2, <3>1, <3>2, PinnedIsValid
      <3> QED
        BY <1>8, <3>3, <3>4, ConcatEmptySeq
    <2> QED
      BY <1>6, <2>1, <2>2
  <1> HIDE DEF x, y, p, base
  <1>10. Built(AppliedAll(base, x), p \o x)
    BY <1>3, <1>8, <1>9, BuiltAlong
  <1>11. Built(AppliedAll(AppliedAll(base, x), y), (p \o x) \o y)
    BY <1>1, <1>8, <1>10, BuiltAll
  <1>12. AppliedAll(AppliedAll(base, x), y) = AppliedAll(base, o)
    BY <1>8, AppliedConcat
  <1>13. (p \o x) \o y = p \o o
    <2>1. p \in Seq(Blocks) /\ x \in Seq(Blocks) /\ y \in Seq(Blocks)
      BY <1>3, <1>8
    <2>2. (p \o x) \o y = p \o (x \o y)
      BY <2>1, ConcatAssociative
    <2>3. x \o y = o
      BY <1>8
    <2> QED
      BY <2>2, <2>3
  <1> QED
    BY <1>11, <1>12, <1>13 DEF p, base

\* Any move between valid chains, however deep.
Climbs(s, q) == q = s \/ WorkOfSeq(q) > WorkOfSeq(s)

\* Every step of SpecWhole keeps the invariant, and leaves the chain or moves
\* it to one with more work.
LEMMA WholeStep ==
    ASSUME ChainInv, [NextWhole]_vars
    PROVE  /\ ChainInv'
           /\ \E s, q : Built(chain, s) /\ Built(chain', q) /\ Climbs(s, q)
  <1>1. /\ \E s : Built(chain, s)
        /\ DOMAIN carry = Threads /\ \A th \in Threads : CarryInv(carry[th])
    BY DEF ChainInv
  <1>2. PICK s : Built(chain, s)
    BY <1>1
  <1>3. CASE [Next]_vars
    <2>1. ChainInv' /\ \E q : Built(chain', q) /\ (q = s \/ Moves(s, q))
      BY <1>2, <1>3, ChainInvStep
    <2> QED
      BY <1>2, <2>1 DEF Moves, Climbs
  <1>4. ASSUME NEW th \in Threads, NEW c, carry' = [carry EXCEPT ![th] = c], CarryInv(c)
        PROVE  DOMAIN carry' = Threads /\ \A u \in Threads : CarryInv(carry'[u])
    BY <1>1, <1>4
  <1>5. ASSUME NEW th \in Threads, NEW o \in Offers, EvaluateReorg(th, o)
        PROVE  /\ ChainInv'
               /\ \E q : Built(chain', q) /\ Climbs(s, q)
    <2> DEFINE c == [kind |-> "candidate", result |-> AppliedAll(RebuildBase(chain), o)]
    <2>1. chain' = chain /\ Heavier(chain, o, now) /\ carry' = [carry EXCEPT ![th] = c]
      BY <1>5 DEF EvaluateReorg
    <2>2. o \in Seq(Blocks)
      BY ChainAssumption
    <2>3. Built(AppliedAll(RebuildBase(chain), o), UpTo(s, chain.firstHeight) \o o)
      BY <1>2, <2>1, <2>2, CandidateBuilt
    <2>4. c.kind = "candidate" /\ c.result = AppliedAll(RebuildBase(chain), o)
      OBVIOUS
    <2> HIDE DEF c
    <2>5. CarryInv(c)
      BY <2>3, <2>4 DEF CarryInv
    <2>6. DOMAIN carry' = Threads /\ \A u \in Threads : CarryInv(carry'[u])
      BY <1>4, <2>1, <2>5
    <2> QED
      BY <1>2, <2>1, <2>6 DEF ChainInv, Climbs
  <1>6. ASSUME NEW th \in Threads, AdoptReorg(th)
        PROVE  /\ ChainInv'
               /\ \E q : Built(chain', q) /\ Climbs(s, q)
    <2> DEFINE c == carry[th]
    <2>1. /\ c.kind = "candidate" /\ carry' = [carry EXCEPT ![th] = Idle]
          /\ \/ StillHeavier(chain, c) /\ chain' = c.result
             \/ chain' = chain
      BY <1>6 DEF AdoptReorg
    <2>2. CarryInv(Idle)
      BY DEF CarryInv
    <2>3. DOMAIN carry' = Threads /\ \A u \in Threads : CarryInv(carry'[u])
      BY <1>4, <2>1, <2>2
    <2>4. CarryInv(c)
      BY <1>1
    <2> HIDE DEF c
    <2>5. PICK r : Built(c.result, r)
      BY <2>1, <2>4 DEF CarryInv, Idle
    <2>6. chain.totalWork = WorkOfSeq(s) /\ c.result.totalWork = WorkOfSeq(r)
      BY <1>2, <2>5 DEF Built, Grown, Shows
    <2>7. \E q : Built(chain', q) /\ Climbs(s, q)
      BY <1>2, <2>1, <2>5, <2>6 DEF StillHeavier, Climbs
    <2> QED
      BY <2>3, <2>7 DEF ChainInv
  <1> QED
    BY <1>2, <1>3, <1>5, <1>6 DEF NextWhole

\* The chain is that of a valid sequence of blocks, and so is what threads carry,
\* also when whole candidates are evaluated and adopted.
THEOREM WholeInvariant == SpecWhole => []ChainInv
  <1>1. ChainInv /\ [NextWhole]_vars => ChainInv'
    BY WholeStep
  <1> QED
    BY <1>1, ChainInvInit, PTL DEF SpecWhole

\* What holds of a node's chain holds of one that also adopts whole candidates:
\* the ledger, the undo window, the horizon, the bodies and the supply.
THEOREM WholeKeepsInvariants ==
    SpecWhole => [](/\ LedgerIsReplay /\ UndoWindowExact /\ HorizonIsReplay
                    /\ BodiesCoverWindow /\ SupplySound)
  BY LedgerReplays, UndoWindowIsExact, HorizonReplays, BodiesCover, SupplyIsSound,
     WholeInvariant, PTL

\* A valid chain has no block twice, so it is no longer than there are blocks.
LEMMA ValidIsBounded ==
    ASSUME NEW s \in Seq(Blocks), Valid(s), IsFiniteSet(Blocks)
    PROVE  Len(s) <= Cardinality(Blocks)
  <1> DEFINE n == Len(s)
  <1>1. n \in Nat /\ s \in [1..n -> Blocks]
    BY LenProperties
  <1>2. \A i \in 1..n : s[i].height = i - 1
    BY ValidInLine, Heights
  <1> HIDE DEF n
  <1>3. \A i, j \in 1..n : s[i] = s[j] => i = j
    <2> SUFFICES ASSUME NEW i \in 1..n, NEW j \in 1..n, s[i] = s[j] PROVE i = j
      OBVIOUS
    <2>1. i - 1 = j - 1
      BY <1>2
    <2> QED
      BY <1>1, <2>1
  <1>4. s \in Injection(1..n, Blocks)
    BY <1>1, <1>3 DEF Injection, IsInjective
  <1>5. Cardinality(1..n) <= Cardinality(Blocks)
    BY <1>4, FS_Injection
  <1>6. Cardinality(1..n) = n
    <2>1. 1 \in Int /\ n \in Int /\ n - 1 + 1 = n /\ (1 > n => n = 0)
      BY <1>1
    <2> QED
      BY <2>1, FS_Interval
  <1> QED
    BY <1>5, <1>6 DEF n

\* With whole candidates the node's chain still only moves to a valid chain with
\* strictly more work, however deep the block it leaves from.
THEOREM ImplementsHeavierAnyDepth ==
    ASSUME IsFiniteSet(Blocks)
    PROVE  SpecWhole => FollowsHeavierAnyDepth
  <1>1. Init => AnyDepth!Init
    BY DEF Init, AnyDepth!Init, Hashes, NewChain
  <1>2. ChainInv /\ [NextWhole]_vars => [AnyDepth!Advance]_(Hashes(chain))
    <2> SUFFICES ASSUME ChainInv, [NextWhole]_vars, Hashes(chain') # Hashes(chain)
                 PROVE  AnyDepth!Advance
      BY DEF Hashes
    <2>1. PICK s, q : Built(chain, s) /\ Built(chain', q) /\ Climbs(s, q)
      BY WholeStep
    <2>2. /\ s \in Seq(Blocks) /\ Hashes(chain) = HashesOf(s) /\ Valid(s)
          /\ WorkOfChain(Hashes(chain)) = WorkOfSeq(s)
      BY <2>1, BuiltReads DEF Built, Grown
    <2>3. /\ Hashes(chain') = HashesOf(q)
          /\ WorkOfChain(Hashes(chain')) = WorkOfSeq(q)
          /\ ValidChain(Hashes(chain'))
          /\ q \in Seq(Blocks)
      BY <2>1, BuiltReads
    <2>4. WorkOfChain(Hashes(chain')) > WorkOfChain(Hashes(chain))
      BY <2>1, <2>2, <2>3 DEF Climbs
    <2>5. AnyDepth!KeepsAllBut(Hashes(chain), Hashes(chain'), Cardinality(Blocks))
      <3>1. /\ Len(HashesOf(s)) = Len(s) /\ Len(s) \in Nat
            /\ Len(HashesOf(q)) = Len(q) /\ Len(q) \in Nat
        BY <2>2, <2>3, PathBack, LenProperties
      <3>2. Len(HashesOf(s)) - 0 <= Cardinality(Blocks)
        BY <2>2, <3>1, ValidIsBounded
      <3>3. 0 \in 0..Len(HashesOf(s)) /\ 0 <= Len(HashesOf(q)) /\ 1..0 = {}
        BY <3>1
      <3> QED
        BY <2>2, <2>3, <3>2, <3>3 DEF AnyDepth!KeepsAllBut
    <2> QED
      BY <2>3, <2>4, <2>5 DEF AnyDepth!Advance, Hashes
  <1> QED
    BY <1>1, <1>2, WholeInvariant, PTL DEF SpecWhole, FollowsHeavierAnyDepth, AnyDepth!Spec

-----------------------------------------------------------------------------
(* The unspent set *)

\* Each derived field is what a walk over the map would give.
Tracks ==
    /\ sum = SumOf(entries \cap WellFormed)
    /\ malformed = Cardinality(entries \ WellFormed)
    /\ summed = Cardinality(entries)

UtxoInv == entries \subseteq Commitments /\ IsFiniteSet(entries) /\ Tracks

\* The counters of a finite set of entries are numbers.
LEMMA CountsAreNumbers ==
    ASSUME NEW S, IsFiniteSet(S)
    PROVE  /\ IsFiniteSet(S \ WellFormed)
           /\ Cardinality(S) \in Nat /\ Cardinality(S \ WellFormed) \in Nat
           /\ (Cardinality(S \ WellFormed) = 0 <=> S \subseteq WellFormed)
  <1>1. IsFiniteSet(S \ WellFormed)
    BY FS_Subset
  <1> QED
    BY <1>1, FS_CardinalityType, FS_EmptySet

\* The empty set starts with every derived field in step.
LEMMA StartTracks == UtxoInit => UtxoInv
  <1> SUFFICES ASSUME UtxoInit PROVE UtxoInv
    OBVIOUS
  <1>1. SumOf({} \cap WellFormed) = Zero
    BY DEF SumOf, Zero
  <1>2. {} \ WellFormed = {}
    OBVIOUS
  <1> QED
    BY <1>1, <1>2, FS_EmptySet DEF UtxoInit, UtxoInv, Tracks

\* An insert moves the fields only for a commitment that was not there.
LEMMA InsertTracks ==
    ASSUME UtxoInv, NEW c \in Commitments, Insert(c)
    PROVE  UtxoInv'
  <1>1. entries' = entries \cup {c}
    BY DEF Insert
  <1>2. CASE c \in entries
    <2>1. entries' = entries
      BY <1>1, <1>2
    <2> QED
      BY <1>2, <2>1 DEF Insert, UtxoInv, Tracks
  <1>3. CASE c \notin entries
    <2>1. IsFiniteSet(entries') /\ Cardinality(entries') = Cardinality(entries) + 1
      BY <1>1, <1>3, FS_AddElement DEF UtxoInv
    <2>2. entries' \subseteq Commitments
      BY <1>1 DEF UtxoInv
    <2>3. summed' = Cardinality(entries')
      BY <1>3, <2>1 DEF Insert, UtxoInv, Tracks
    <2>4. CASE c \in WellFormed
      <3>1. sum' = [sum EXCEPT ![c] = @ + 1] /\ malformed' = malformed
        BY <1>3, <2>4 DEF Insert
      <3>2. sum' = SumOf(entries' \cap WellFormed)
        BY <1>1, <1>3, <2>4, <3>1 DEF SumOf, UtxoInv, Tracks
      <3>3. entries' \ WellFormed = entries \ WellFormed
        BY <1>1, <2>4
      <3> QED
        BY <2>1, <2>2, <2>3, <3>1, <3>2, <3>3 DEF UtxoInv, Tracks
    <2>5. CASE c \notin WellFormed
      <3>1. sum' = sum /\ malformed' = malformed + 1
        BY <1>3, <2>5 DEF Insert
      <3>2. entries' \cap WellFormed = entries \cap WellFormed
        BY <1>1, <2>5
      <3>3. entries' \ WellFormed = (entries \ WellFormed) \cup {c}
        BY <1>1, <2>5
      <3>4. Cardinality(entries' \ WellFormed) = Cardinality(entries \ WellFormed) + 1
        BY <1>3, <3>3, FS_AddElement, CountsAreNumbers DEF UtxoInv
      <3> QED
        BY <2>1, <2>2, <2>3, <3>1, <3>2, <3>4 DEF UtxoInv, Tracks
    <2> QED
      BY <2>4, <2>5
  <1> QED
    BY <1>2, <1>3

\* A removal moves the fields only for a commitment that was there, and the
\* saturating subtractions never saturate.
LEMMA RemoveTracks ==
    ASSUME UtxoInv, NEW c \in Commitments, RemoveEntry(c)
    PROVE  UtxoInv'
  <1>1. entries' = entries \ {c}
    BY DEF RemoveEntry
  <1>2. CASE c \notin entries
    <2>1. entries' = entries
      BY <1>1, <1>2
    <2> QED
      BY <1>2, <2>1 DEF RemoveEntry, UtxoInv, Tracks
  <1>3. CASE c \in entries
    <2>1. IsFiniteSet(entries') /\ Cardinality(entries') = Cardinality(entries) - 1
      BY <1>1, <1>3, FS_RemoveElement DEF UtxoInv
    <2>2. entries' \subseteq Commitments
      BY <1>1 DEF UtxoInv
    <2>3. Cardinality(entries) \in Nat /\ Cardinality(entries') \in Nat
      BY <2>1, CountsAreNumbers DEF UtxoInv
    <2>4. summed' = Cardinality(entries')
      BY <1>3, <2>1, <2>3 DEF RemoveEntry, Down, UtxoInv, Tracks
    <2>5. CASE c \in WellFormed
      <3>1. sum' = [sum EXCEPT ![c] = @ - 1] /\ malformed' = malformed
        BY <1>3, <2>5 DEF RemoveEntry
      <3>2. sum' = SumOf(entries' \cap WellFormed)
        BY <1>1, <1>3, <2>5, <3>1 DEF SumOf, UtxoInv, Tracks
      <3>3. entries' \ WellFormed = entries \ WellFormed
        BY <1>1, <2>5
      <3> QED
        BY <2>1, <2>2, <2>4, <3>1, <3>2, <3>3 DEF UtxoInv, Tracks
    <2>6. CASE c \notin WellFormed
      <3>1. sum' = sum /\ malformed' = Down(malformed)
        BY <1>3, <2>6 DEF RemoveEntry
      <3>2. entries' \cap WellFormed = entries \cap WellFormed
        BY <1>1, <2>6
      <3>3. entries' \ WellFormed = (entries \ WellFormed) \ {c}
        BY <1>1
      <3>4. Cardinality(entries' \ WellFormed) = Cardinality(entries \ WellFormed) - 1
        <4>1. IsFiniteSet(entries \ WellFormed)
          BY CountsAreNumbers DEF UtxoInv
        <4>2. c \in entries \ WellFormed
          BY <1>3, <2>6
        <4> DEFINE bad == entries \ WellFormed
        <4>3. Cardinality(bad \ {c}) = Cardinality(bad) - 1
          <5> HIDE DEF bad
          <5>1. IsFiniteSet(bad) /\ c \in bad
            BY <4>1, <4>2 DEF bad
          <5> QED
            BY <5>1, FS_RemoveElement
        <4> QED
          BY <3>3, <4>3
      <3>5. Cardinality(entries \ WellFormed) \in Nat /\ Cardinality(entries' \ WellFormed) \in Nat
        BY <2>1, CountsAreNumbers DEF UtxoInv
      <3>6. malformed' = Cardinality(entries' \ WellFormed)
        BY <3>1, <3>4, <3>5 DEF Down, UtxoInv, Tracks
      <3>7. sum' = SumOf(entries' \cap WellFormed)
        BY <3>1, <3>2 DEF UtxoInv, Tracks
      <3> QED
        BY <2>1, <2>2, <2>4, <3>6, <3>7 DEF UtxoInv, Tracks
    <2> QED
      BY <2>5, <2>6
  <1> QED
    BY <1>2, <1>3

\* Every step keeps the derived fields in step with the map.
LEMMA StepTracks == UtxoInv /\ [UtxoNext]_utxoVars => UtxoInv'
  <1> SUFFICES ASSUME UtxoInv, [UtxoNext]_utxoVars PROVE UtxoInv'
    OBVIOUS
  <1>1. CASE \E c \in Commitments : Insert(c)
    BY <1>1, InsertTracks
  <1>2. CASE \E c \in Commitments : RemoveEntry(c)
    BY <1>2, RemoveTracks
  <1>3. CASE RebuildSum
    BY <1>3 DEF RebuildSum, UtxoInv, Tracks
  <1>4. CASE UNCHANGED utxoVars
    BY <1>4 DEF utxoVars, UtxoInv, Tracks
  <1> QED
    BY <1>1, <1>2, <1>3, <1>4 DEF UtxoNext

\* commitment_sum, which one side of the supply equation is taken from, is the
\* sum a walk over the whole set would give, and is withheld exactly when the
\* walk would withhold it, for every set of commitments.
THEOREM SumIsExact == UtxoSpec => []CommitmentSumExact
  <1>1. UtxoInv => CommitmentSumExact
    <2> SUFFICES ASSUME UtxoInv PROVE CommitmentSum = CommitmentSumByWalking
      BY DEF CommitmentSumExact
    <2>1. summed = Cardinality(entries)
      BY DEF UtxoInv, Tracks
    <2>2. malformed \in Nat /\ (malformed = 0 <=> entries \subseteq WellFormed)
      BY CountsAreNumbers DEF UtxoInv, Tracks
    <2>3. entries \subseteq WellFormed => sum = SumOf(entries)
      <3>1. entries \subseteq WellFormed => entries \cap WellFormed = entries
        OBVIOUS
      <3> QED
        BY <3>1 DEF UtxoInv, Tracks
    <2> QED
      BY <2>1, <2>2, <2>3 DEF CommitmentSum, CommitmentSumByWalking
  <1> QED
    BY <1>1, StartTracks, StepTracks, PTL DEF UtxoSpec

\* The projected sum apply_block compares with the supply equation before it
\* changes the set is the sum the set has afterwards, for every removal and
\* addition it may ask about.
THEOREM ProjectionIsExact == UtxoSpec => []ProjectionExact
  <1>1. UtxoInv => ProjectionExact
    <2> SUFFICES ASSUME UtxoInv, NEW R \in SUBSET entries,
                        NEW A \in SUBSET (WellFormed \ entries), entries \subseteq WellFormed
                 PROVE  SumAfter(R, A) = <<SumOf((entries \ R) \cup A)>>
      BY DEF ProjectionExact
    <2>1. CommitmentSum = <<sum>>
      <3>1. malformed = 0
        BY CountsAreNumbers DEF UtxoInv, Tracks
      <3>2. summed = Cardinality(entries)
        BY DEF UtxoInv, Tracks
      <3>3. ~(malformed > 0)
        BY <3>1
      <3> QED
        BY <3>2, <3>3 DEF CommitmentSum
    <2>2. entries \cap WellFormed = entries
      OBVIOUS
    <2>3. sum = [c \in Commitments |-> IF c \in entries THEN 1 ELSE 0]
      BY <2>2 DEF UtxoInv, Tracks, SumOf
    <2>4. SumAfter(R, A) = <<[c \in Commitments |-> sum[c] - (IF c \in R THEN 1 ELSE 0)
                                                      + (IF c \in A THEN 1 ELSE 0)]>>
      BY <2>1 DEF SumAfter
    <2>5. ASSUME NEW c \in Commitments
          PROVE  sum[c] - (IF c \in R THEN 1 ELSE 0) + (IF c \in A THEN 1 ELSE 0)
                   = IF c \in (entries \ R) \cup A THEN 1 ELSE 0
      BY <2>3
    <2> QED
      BY <2>4, <2>5 DEF SumOf
  <1> QED
    BY <1>1, StartTracks, StepTracks, PTL DEF UtxoSpec
=============================================================================

--------------------------- MODULE NodeSyncProofs ---------------------------
(***************************************************************************)
(* What holds of NodeSync for every tree of blocks, any peers and any      *)
(* bounds.                                                                 *)
(*                                                                         *)
(* Paths, work and what drains from the buffer are functions that call     *)
(* themselves, so first it is shown that such functions exist on a finite  *)
(* tree, and by induction over the tree what they compute.  The guard      *)
(* needs no more than which thread does what.  That the chain only becomes *)
(* a heavier one within the reorg depth needs to know what every thread    *)
(* carries from one lock to the next.                                      *)
(***************************************************************************)
EXTENDS NodeSync, FiniteSetTheorems, SequenceTheorems, WellFoundedInduction, TLAPS

-----------------------------------------------------------------------------
(* Recursion over the tree of blocks *)

\* A set of natural numbers that is not empty has a least element.
LEMMA Least == \A T \in SUBSET Nat : T # {} => \E x \in T : \A y \in T : x <= y
  <1> SUFFICES ASSUME NEW T \in SUBSET Nat, T # {}
               PROVE \E x \in T : \A y \in T : x <= y
    OBVIOUS
  <1> DEFINE R == OpToRel(<, Nat)
  <1>1. \A x, y \in Nat : <<x, y>> \in R <=> x < y
    BY DEF OpToRel
  <1>2. IsWellFoundedOn(R, Nat)
    BY NatLessThanWellFounded
  <1> HIDE DEF R
  <1>3. PICK x \in T : \A y \in T : ~(<<y, x>> \in R)
    BY <1>2, WFMin
  <1>4. \A y \in T : ~(y < x)
    BY <1>1, <1>3
  <1> QED
    BY <1>4

\* Induction up to n, with the predicate as a set.
LEMMA InductUpTo ==
    ASSUME NEW n \in Nat, NEW S, 0 \in S,
           \A k \in 0..(n - 1) : k \in S => k + 1 \in S
    PROVE  \A k \in 0..n : k \in S
  <1> DEFINE T == {k \in 0..n : k \notin S}
  <1>1. SUFFICES ASSUME T # {} PROVE FALSE
    OBVIOUS
  <1>2. T \in SUBSET Nat
    OBVIOUS
  <1>3. PICK k \in T : \A y \in T : k <= y
    BY <1>1, <1>2, Least
  <1>4. k \in 0..n /\ k \notin S /\ k # 0
    BY <1>3
  <1>5. k - 1 \in 0..(n - 1) /\ (k - 1) + 1 = k /\ ~(k <= k - 1)
    BY <1>4
  <1>6. k - 1 \notin T
    BY <1>3, <1>5
  <1>7. k - 1 \in S
    BY <1>5, <1>6
  <1> QED
    BY <1>4, <1>5, <1>7

\* f is computed from base outside of G, and in G from its value at the next argument.
Computed(D, V, G, next, base, step) ==
    {f \in [D -> V] : \A b \in D : f[b] = IF b \in G THEN step[<<b, f[next[b]]>>] ELSE base[b]}

\* From an argument in G to the next one, the measure falls.
Falls(D, G, next, mu, K) ==
    /\ mu \in [D -> 0..K] /\ next \in [D -> D] /\ G \in SUBSET D
    /\ \A b \in G : mu[next[b]] < mu[b]

\* A function can be defined from its values at arguments of smaller measure.
LEMMA Recursion ==
    ASSUME NEW D, NEW V, NEW K \in Nat, NEW mu, NEW next, NEW G, Falls(D, G, next, mu, K),
           NEW base \in [D -> V], NEW step \in [D \X V -> V]
    PROVE  Computed(D, V, G, next, base, step) # {}
  <1> USE DEF Falls
  <1> DEFINE Value(f, b) == IF b \in G THEN step[<<b, f[next[b]]>>] ELSE base[b]
             S == {n \in 0..(K + 1) : \E f \in [D -> V] :
                      \A b \in D : mu[b] < n => f[b] = Value(f, b)}
  <1>1. 0 \in S
    <2>1. base \in [D -> V] /\ \A b \in D : ~(mu[b] < 0) /\ 0 \in 0..(K + 1)
      OBVIOUS
    <2> QED
      BY <2>1
  <1>2. ASSUME NEW n \in 0..K, n \in S PROVE n + 1 \in S
    <2>1. PICK f \in [D -> V] : \A b \in D : mu[b] < n => f[b] = Value(f, b)
      BY <1>2
    <2> DEFINE g == [b \in D |-> IF mu[b] = n THEN Value(f, b) ELSE f[b]]
    <2>2. \A b \in D : Value(f, b) \in V
      OBVIOUS
    <2>3. g \in [D -> V]
      BY <2>2
    <2>4. ASSUME NEW b \in D, mu[b] < n + 1 PROVE g[b] = Value(g, b)
      <3>1. b \in G => g[next[b]] = f[next[b]]
        <4>1. b \in G => next[b] \in D /\ mu[next[b]] \in 0..K /\ mu[b] \in 0..K /\ mu[next[b]] < mu[b]
          OBVIOUS
        <4>2. b \in G => mu[next[b]] # n
          BY <2>4, <4>1
        <4> QED
          BY <4>1, <4>2
      <3>2. Value(g, b) = Value(f, b)
        BY <3>1
      <3>3. CASE mu[b] = n
        BY <3>2, <3>3
      <3>4. CASE mu[b] # n
        <4>1. mu[b] < n
          BY <2>4, <3>4
        <4> QED
          BY <2>1, <3>2, <3>4, <4>1
      <3> QED
        BY <3>3, <3>4
    <2>5. n + 1 \in 0..(K + 1)
      OBVIOUS
    <2> HIDE DEF g, Value
    <2> QED
      BY <2>3, <2>4, <2>5
  <1>3. K + 1 \in S
    <2> HIDE DEF S
    <2>1. \A k \in 0..(K + 1) : k \in S
      <3>1. K + 1 \in Nat /\ (K + 1) - 1 = K
        OBVIOUS
      <3> QED
        BY <1>1, <1>2, <3>1, InductUpTo
    <2> QED
      BY <2>1
  <1>4. PICK f \in [D -> V] : \A b \in D : mu[b] < K + 1 => f[b] = Value(f, b)
    BY <1>3
  <1>5. \A b \in D : mu[b] < K + 1
    OBVIOUS
  <1> QED
    BY <1>4, <1>5 DEF Computed

\* What the assumption that the blocks are a tree gives.
LEMMA Tree ==
    \E level \in [Blocks -> 0..Cardinality(Blocks)] :
        \A b \in Blocks \ {Genesis} : level[b] > level[Parent[b]]
  BY NodeSyncAssumption

\* There are finitely many blocks.
LEMMA TreeSize == Cardinality(Blocks) \in Nat
  BY NodeSyncAssumption, FS_CardinalityType

\* Induction from genesis on, with the predicate as a set.
LEMMA BlockInduct ==
    ASSUME NEW S, Genesis \in S, \A b \in Blocks \ {Genesis} : Parent[b] \in S => b \in S
    PROVE  \A b \in Blocks : b \in S
  <1>1. PICK level \in [Blocks -> 0..Cardinality(Blocks)] :
           \A b \in Blocks \ {Genesis} : level[b] > level[Parent[b]]
    BY Tree
  <1> DEFINE T == {level[b] : b \in {c \in Blocks : c \notin S}}
  <1>2. SUFFICES ASSUME T # {} PROVE FALSE
    OBVIOUS
  <1>3. T \in SUBSET Nat
    BY TreeSize
  <1>4. PICK n \in T : \A m \in T : n <= m
    BY <1>2, <1>3, Least
  <1>5. PICK b \in Blocks : b \notin S /\ level[b] = n
    BY <1>4
  <1>6. b \in Blocks \ {Genesis} /\ Parent[b] \in Blocks /\ Parent[b] \notin S
    BY <1>5, NodeSyncAssumption
  <1>7. level[Parent[b]] \in T
    BY <1>6
  <1>8. level[b] > level[Parent[b]] /\ level[b] \in Nat /\ level[Parent[b]] \in Nat
    BY <1>1, <1>6, TreeSize
  <1> QED
    BY <1>4, <1>5, <1>7, <1>8

-----------------------------------------------------------------------------
(* Paths, heights and work *)

\* A function of blocks can be computed from its value at the block below.
Below == [b \in Blocks |-> IF b = Genesis THEN Genesis ELSE Parent[b]]

\* What Below is, away from genesis.
LEMMA BelowIs == Below \in [Blocks -> Blocks] /\ \A b \in Blocks \ {Genesis} : Below[b] = Parent[b]
  BY NodeSyncAssumption DEF Below

\* Towards genesis, the level of a block falls.
LEMMA TreeFalls ==
    \E level : Falls(Blocks, Blocks \ {Genesis}, Below, level, Cardinality(Blocks))
  <1>1. PICK level \in [Blocks -> 0..Cardinality(Blocks)] :
           \A b \in Blocks \ {Genesis} : level[b] > level[Parent[b]]
    BY Tree
  <1>2. ASSUME NEW b \in Blocks \ {Genesis} PROVE level[Below[b]] < level[b]
    <2>1. Below[b] \in Blocks /\ Below[b] = Parent[b]
      BY BelowIs
    <2>2. level[b] \in Nat /\ level[Below[b]] \in Nat
      BY <1>1, <2>1, TreeSize
    <2> QED
      BY <1>1, <2>1, <2>2
  <1>3. Falls(Blocks, Blocks \ {Genesis}, Below, level, Cardinality(Blocks))
    BY <1>1, <1>2, BelowIs DEF Falls
  <1> QED
    BY <1>3

\* A function of blocks can be computed from its value at the block below.
LEMMA TreeRecursion ==
    ASSUME NEW V, NEW base \in [Blocks -> V], NEW step \in [Blocks \X V -> V]
    PROVE  Computed(Blocks, V, Blocks \ {Genesis}, Below, base, step) # {}
  BY TreeFalls, TreeSize, Recursion

\* The path to a block, as its definition says.
LEMMA PathToIs ==
    /\ PathTo \in [Blocks -> Seq(Blocks)]
    /\ \A b \in Blocks : PathTo[b] = IF b = Genesis THEN <<b>> ELSE Append(PathTo[Parent[b]], b)
  <1> DEFINE base == [b \in Blocks |-> <<b>>]
             step == [x \in Blocks \X Seq(Blocks) |-> Append(x[2], x[1])]
  <1>1. base \in [Blocks -> Seq(Blocks)]
    OBVIOUS
  <1>2. step \in [Blocks \X Seq(Blocks) -> Seq(Blocks)]
    <2> SUFFICES ASSUME NEW x \in Blocks \X Seq(Blocks) PROVE Append(x[2], x[1]) \in Seq(Blocks)
      OBVIOUS
    <2> QED
      BY AppendProperties
  <1>3. \A b \in Blocks : base[b] = <<b>> /\ \A v \in Seq(Blocks) : step[<<b, v>>] = Append(v, b)
    OBVIOUS
  <1> HIDE DEF base, step
  <1>4. PICK f : f \in Computed(Blocks, Seq(Blocks), Blocks \ {Genesis}, Below, base, step)
    BY <1>1, <1>2, TreeRecursion
  <1>5. ASSUME NEW b \in Blocks
        PROVE  f[b] = IF b = Genesis THEN <<b>> ELSE Append(f[Parent[b]], b)
    <2>1. b # Genesis => f[Parent[b]] \in Seq(Blocks) /\ f[b] = step[<<b, f[Parent[b]]>>]
      BY <1>4, BelowIs, NodeSyncAssumption DEF Computed
    <2>2. b = Genesis => f[b] = base[b]
      BY <1>4 DEF Computed
    <2>3. CASE b = Genesis
      BY <1>3, <2>2, <2>3
    <2>4. CASE b # Genesis
      <3>1. step[<<b, f[Parent[b]]>>] = Append(f[Parent[b]], b)
        BY <1>3, <2>1, <2>4
      <3> QED
        BY <2>1, <2>4, <3>1
    <2> QED
      BY <2>3, <2>4
  <1>6. f = [b \in Blocks |-> IF b = Genesis THEN <<b>> ELSE Append(f[Parent[b]], b)]
    <2>1. f \in [Blocks -> Seq(Blocks)]
      BY <1>4 DEF Computed
    <2> QED
      BY <1>5, <2>1
  <1>7. PathTo = [b \in Blocks |-> IF b = Genesis THEN <<b>> ELSE Append(PathTo[Parent[b]], b)]
    BY <1>6 DEF PathTo
  <1> DEFINE S == {c \in Blocks : PathTo[c] \in Seq(Blocks)}
  <1>8. Genesis \in S
    BY <1>7, NodeSyncAssumption
  <1>9. ASSUME NEW c \in Blocks \ {Genesis}, Parent[c] \in S PROVE c \in S
    <2>1. PathTo[c] = Append(PathTo[Parent[c]], c) /\ c \in Blocks
      BY <1>7
    <2>2. PathTo[Parent[c]] \in Seq(Blocks)
      BY <1>9
    <2>3. Append(PathTo[Parent[c]], c) \in Seq(Blocks)
      BY <2>1, <2>2, AppendProperties
    <2> QED
      BY <2>1, <2>3
  <1> HIDE DEF S
  <1>10. \A c \in Blocks : c \in S
    BY <1>8, <1>9, BlockInduct
  <1> QED
    BY <1>7, <1>10 DEF S

\* The work of a chain is that of its last block and of the chain below.
LEMMA WorkToIs ==
    /\ WorkTo \in [Blocks -> Nat]
    /\ \A b \in Blocks : WorkTo[b] = Work[b] + (IF b = Genesis THEN 0 ELSE WorkTo[Parent[b]])
  <1> DEFINE base == [b \in Blocks |-> Work[b]]
             step == [x \in Blocks \X Nat |-> Work[x[1]] + x[2]]
  <1>1. \A b \in Blocks : Work[b] \in Nat
    BY NodeSyncAssumption
  <1>2. base \in [Blocks -> Nat] /\ step \in [Blocks \X Nat -> Nat]
    BY <1>1
  <1>3. \A b \in Blocks, v \in Nat : base[b] = Work[b] /\ step[<<b, v>>] = Work[b] + v
    OBVIOUS
  <1> HIDE DEF base, step
  <1>4. PICK f : f \in Computed(Blocks, Nat, Blocks \ {Genesis}, Below, base, step)
    BY <1>2, TreeRecursion
  <1>5. ASSUME NEW b \in Blocks
        PROVE  f[b] = Work[b] + (IF b = Genesis THEN 0 ELSE f[Parent[b]])
    <2>1. b # Genesis => f[Parent[b]] \in Nat /\ f[b] = step[<<b, f[Parent[b]]>>]
      BY <1>4, BelowIs, NodeSyncAssumption DEF Computed
    <2>2. b = Genesis => f[b] = base[b]
      BY <1>4 DEF Computed
    <2>3. CASE b = Genesis
      <3>1. f[b] = Work[b]
        BY <1>3, <2>2, <2>3
      <3> QED
        BY <1>1, <2>3, <3>1
    <2>4. CASE b # Genesis
      BY <1>3, <2>1, <2>4
    <2> QED
      BY <2>3, <2>4
  <1>6. f = [b \in Blocks |-> Work[b] + (IF b = Genesis THEN 0 ELSE f[Parent[b]])]
    <2>1. f \in [Blocks -> Nat]
      BY <1>4 DEF Computed
    <2> QED
      BY <1>5, <2>1
  <1>7. WorkTo = [b \in Blocks |-> Work[b] + (IF b = Genesis THEN 0 ELSE WorkTo[Parent[b]])]
    BY <1>6 DEF WorkTo
  <1> DEFINE S == {c \in Blocks : WorkTo[c] \in Nat}
  <1>8. Genesis \in S
    <2>1. WorkTo[Genesis] = Work[Genesis] + 0 /\ Genesis \in Blocks
      BY <1>7, NodeSyncAssumption
    <2> QED
      BY <1>1, <2>1
  <1>9. ASSUME NEW c \in Blocks \ {Genesis}, Parent[c] \in S PROVE c \in S
    <2>1. WorkTo[c] = Work[c] + WorkTo[Parent[c]]
      BY <1>7
    <2> QED
      BY <1>1, <1>9, <2>1
  <1> HIDE DEF S
  <1>10. \A c \in Blocks : c \in S
    BY <1>8, <1>9, BlockInduct
  <1> QED
    BY <1>7, <1>10 DEF S

\* Each block of the sequence but the first is built on the one before it.
IsRun(x) ==
    /\ x \in Seq(Blocks)
    /\ \A i \in 1..(Len(x) - 1) : x[i + 1] # Genesis /\ Parent[x[i + 1]] = x[i]

\* What a peer can serve: a run without a block of our own.
IsPage(x) == IsRun(x) /\ \A i \in 1..Len(x) : x[i] \notin Own

\* A block built on the last one of a run makes the run longer.
LEMMA AppendRun ==
    ASSUME NEW x, IsRun(x), Len(x) > 0, NEW b \in Blocks \ {Genesis}, Parent[b] = x[Len(x)]
    PROVE  /\ IsRun(Append(x, b)) /\ Len(Append(x, b)) = Len(x) + 1
           /\ Append(x, b)[Len(x) + 1] = b /\ Append(x, b)[1] = x[1]
           /\ \A i \in 1..Len(x) : Append(x, b)[i] = x[i]
  <1> DEFINE n == Len(x)
             y == Append(x, b)
  <1>1. x \in Seq(Blocks) /\ n \in Nat /\ n > 0
    BY LenProperties DEF IsRun
  <1>2. /\ y \in Seq(Blocks) /\ Len(y) = n + 1 /\ y[n + 1] = b
        /\ \A i \in 1..n : y[i] = x[i]
    BY <1>1, AppendProperties
  <1>3. \A i \in 1..(n - 1) : x[i + 1] # Genesis /\ Parent[x[i + 1]] = x[i]
    BY DEF IsRun
  <1>4. b # Genesis /\ Parent[b] = x[n]
    OBVIOUS
  <1> HIDE DEF n, y
  <1>5. ASSUME NEW i \in 1..n PROVE y[i + 1] # Genesis /\ Parent[y[i + 1]] = y[i]
    <2>1. CASE i = n
      BY <1>1, <1>2, <1>4, <2>1
    <2>2. CASE i # n
      <3>1. i \in 1..(n - 1) /\ i + 1 \in 1..n
        BY <1>1, <2>2
      <3> QED
        BY <1>2, <1>3, <3>1
    <2> QED
      BY <2>1, <2>2
  <1>6. Len(y) - 1 = n
    BY <1>1, <1>2
  <1>7. IsRun(y)
    BY <1>2, <1>5, <1>6 DEF IsRun
  <1>8. 1 \in 1..n
    BY <1>1
  <1> QED
    BY <1>2, <1>7, <1>8 DEF n, y

\* A path is a run from genesis to its block.
IsPath(x, b) ==
    /\ IsRun(x) /\ Len(x) > 0 /\ x[1] = Genesis /\ x[Len(x)] = b
    /\ b \notin Own => \A i \in 1..Len(x) : x[i] \notin Own

\* The path of every block leads from genesis to it.
LEMMA PathShape == \A b \in Blocks : IsPath(Path[b], b)
  <1> DEFINE S == {b \in Blocks : IsPath(PathTo[b], b)}
  <1>1. Genesis \in S
    <2>1. PathTo[Genesis] = <<Genesis>> /\ Genesis \in Blocks /\ Genesis \notin Own
      BY PathToIs, NodeSyncAssumption
    <2>2. <<Genesis>> \in Seq(Blocks) /\ Len(<<Genesis>>) = 1 /\ <<Genesis>>[1] = Genesis
      BY <2>1
    <2>3. IsPath(<<Genesis>>, Genesis)
      BY <2>1, <2>2 DEF IsPath, IsRun
    <2> QED
      BY <2>1, <2>3
  <1>2. ASSUME NEW b \in Blocks \ {Genesis}, Parent[b] \in S PROVE b \in S
    <2> DEFINE x == PathTo[Parent[b]]
               y == Append(x, b)
    <2>1. PathTo[b] = y /\ b \in Blocks
      BY PathToIs
    <2>2. IsPath(x, Parent[b])
      BY <1>2
    <2> HIDE DEF x, y
    <2>3. /\ IsRun(y) /\ Len(y) = Len(x) + 1 /\ y[Len(x) + 1] = b /\ y[1] = x[1]
          /\ \A i \in 1..Len(x) : y[i] = x[i]
      BY <2>2, AppendRun DEF IsPath, y
    <2>4. Len(x) \in Nat
      BY <2>2, LenProperties DEF IsPath, IsRun
    <2>5. y[Len(y)] = b /\ Len(y) > 0 /\ y[1] = Genesis
      BY <2>2, <2>3, <2>4 DEF IsPath
    <2>6. ASSUME b \notin Own, NEW i \in 1..Len(y) PROVE y[i] \notin Own
      <3>1. Parent[b] \notin Own
        BY <2>6, NodeSyncAssumption
      <3>2. CASE i = Len(x) + 1
        BY <2>3, <2>6, <3>2
      <3>3. CASE i # Len(x) + 1
        <4>1. i \in 1..Len(x)
          BY <2>3, <2>4, <3>3
        <4> QED
          BY <2>2, <2>3, <3>1, <4>1 DEF IsPath
      <3> QED
        BY <3>2, <3>3
    <2>7. IsPath(y, b)
      BY <2>3, <2>5, <2>6 DEF IsPath
    <2> QED
      BY <2>1, <2>7
  <1> HIDE DEF S
  <1>3. \A b \in Blocks : b \in S
    BY <1>1, <1>2, BlockInduct
  <1> QED
    BY <1>3 DEF S, Path

\* Genesis is at height 0, every other block one above its parent.
LEMMA HeightIs ==
    /\ Height \in [Blocks -> Nat]
    /\ Height[Genesis] = 0
    /\ \A b \in Blocks \ {Genesis} : Height[b] = Height[Parent[b]] + 1
  <1>1. \A b \in Blocks : Len(Path[b]) \in Nat /\ Len(Path[b]) > 0
    BY PathShape, LenProperties DEF IsPath, IsRun
  <1>2. \A b \in Blocks : Len(Path[b]) - 1 \in Nat /\ Height[b] = Len(Path[b]) - 1
    BY <1>1 DEF Height
  <1>3. Height \in [Blocks -> Nat]
    BY <1>2 DEF Height
  <1>4. Height[Genesis] = 0
    <2>1. Path[Genesis] = <<Genesis>> /\ Genesis \in Blocks
      BY PathToIs, NodeSyncAssumption DEF Path
    <2>2. Height[Genesis] = Len(Path[Genesis]) - 1
      BY <1>2, <2>1
    <2>3. Len(<<Genesis>>) - 1 = 0
      OBVIOUS
    <2> QED
      BY <2>1, <2>2, <2>3, Zenon
  <1>5. ASSUME NEW b \in Blocks \ {Genesis} PROVE Height[b] = Height[Parent[b]] + 1
    <2>1. Parent[b] \in Blocks /\ b \in Blocks
      BY NodeSyncAssumption
    <2>2. Path[b] = Append(Path[Parent[b]], b) /\ Path[Parent[b]] \in Seq(Blocks)
      BY <2>1, PathToIs DEF Path
    <2>3. Len(Path[b]) = Len(Path[Parent[b]]) + 1
      BY <2>1, <2>2, AppendProperties
    <2>4. Height[b] = Len(Path[b]) - 1 /\ Height[Parent[b]] = Len(Path[Parent[b]]) - 1
      BY <1>2, <2>1
    <2>5. Len(Path[Parent[b]]) \in Nat
      BY <1>1, <2>1
    <2> QED
      BY <2>3, <2>4, <2>5
  <1> QED
    BY <1>3, <1>4, <1>5

\* The block at place i of a path is at height i - 1.
LEMMA PathHeights == \A b \in Blocks : \A i \in 1..Len(Path[b]) : Height[Path[b][i]] = i - 1
  <1> SUFFICES ASSUME NEW b \in Blocks PROVE \A i \in 1..Len(Path[b]) : Height[Path[b][i]] = i - 1
    OBVIOUS
  <1> DEFINE x == Path[b]
             n == Len(x)
             S == {i \in 0..(n - 1) : Height[x[i + 1]] = i}
  <1>1. x \in Seq(Blocks) /\ n \in Nat /\ n > 0 /\ x[1] = Genesis
    BY PathShape, LenProperties DEF IsPath, IsRun
  <1>2. \A i \in 1..(n - 1) : x[i + 1] # Genesis /\ Parent[x[i + 1]] = x[i]
    BY PathShape DEF IsPath, IsRun
  <1>3. \A i \in 1..n : x[i] \in Blocks
    BY <1>1, ElementOfSeq
  <1> HIDE DEF x, n
  <1>4. 0 \in S
    <2>1. 0 \in 0..(n - 1) /\ 0 + 1 = 1
      BY <1>1
    <2> QED
      BY <1>1, <2>1, HeightIs
  <1>5. ASSUME NEW k \in 0..((n - 1) - 1), k \in S PROVE k + 1 \in S
    <2>1. k + 1 \in 1..(n - 1) /\ k + 1 \in 0..(n - 1) /\ (k + 1) + 1 \in 1..n
      BY <1>1
    <2>2. x[(k + 1) + 1] \in Blocks \ {Genesis} /\ Parent[x[(k + 1) + 1]] = x[k + 1]
      BY <1>2, <1>3, <2>1
    <2>3. Height[x[k + 1]] = k
      BY <1>5
    <2>4. Height[x[(k + 1) + 1]] = k + 1
      BY <2>2, <2>3, HeightIs
    <2> QED
      BY <2>1, <2>4
  <1> HIDE DEF S
  <1>6. n - 1 \in Nat
    BY <1>1
  <1>7. \A k \in 0..(n - 1) : k \in S
    BY <1>4, <1>5, <1>6, InductUpTo
  <1>8. ASSUME NEW i \in 1..n PROVE Height[x[i]] = i - 1
    <2>1. i - 1 \in 0..(n - 1) /\ (i - 1) + 1 = i
      BY <1>1
    <2>2. Height[x[(i - 1) + 1]] = i - 1
      BY <1>7, <2>1 DEF S
    <2> QED
      BY <2>1, <2>2
  <1> QED
    BY <1>8 DEF n, x

\* No block is higher than there are blocks.
LEMMA HeightBound == \A b \in Blocks : Height[b] <= Cardinality(Blocks)
  <1>1. PICK level \in [Blocks -> 0..Cardinality(Blocks)] :
           \A b \in Blocks \ {Genesis} : level[b] > level[Parent[b]]
    BY Tree
  <1> DEFINE K == Cardinality(Blocks)
             S == {b \in Blocks : Height[b] <= level[b]}
  <1>2. \A b \in Blocks : level[b] \in Nat /\ level[b] <= K /\ Height[b] \in Nat /\ K \in Nat
    BY <1>1, TreeSize, HeightIs
  <1>3. Genesis \in S
    BY <1>2, HeightIs, NodeSyncAssumption
  <1>4. ASSUME NEW b \in Blocks \ {Genesis}, Parent[b] \in S PROVE b \in S
    <2>1. Parent[b] \in Blocks /\ b \in Blocks
      BY NodeSyncAssumption
    <2>2. Height[b] = Height[Parent[b]] + 1 /\ level[b] > level[Parent[b]]
      BY <1>1, HeightIs
    <2>3. Height[Parent[b]] <= level[Parent[b]]
      BY <1>4
    <2>4. Height[b] <= level[b]
      <3>1. /\ level[b] \in Nat /\ level[Parent[b]] \in Nat
            /\ Height[b] \in Nat /\ Height[Parent[b]] \in Nat
        BY <1>2, <2>1
      <3> QED
        BY <2>2, <2>3, <3>1
    <2> QED
      BY <2>1, <2>4
  <1> HIDE DEF S
  <1>5. \A b \in Blocks : b \in S
    BY <1>3, <1>4, BlockInduct
  <1>6. \A b \in Blocks : Height[b] <= level[b]
    BY <1>5 DEF S
  <1> HIDE DEF K
  <1>7. \A b \in Blocks : Height[b] <= K
    BY <1>2, <1>6
  <1> QED
    BY <1>7 DEF K

\* Of some blocks, one is the highest.
LEMMA Highest ==
    ASSUME NEW T \in SUBSET Blocks, T # {}
    PROVE  \E a \in T : \A c \in T : Height[c] <= Height[a]
  <1> DEFINE K == Cardinality(Blocks)
             room == {K - Height[a] : a \in T}
  <1>1. \A a \in Blocks : Height[a] \in Nat /\ K \in Nat /\ Height[a] <= K
    BY HeightIs, HeightBound, TreeSize
  <1> HIDE DEF K
  <1>2. room \in SUBSET Nat
    BY <1>1
  <1>3. PICK n \in room : \A m \in room : n <= m
    <2>1. room # {}
      OBVIOUS
    <2> HIDE DEF room
    <2> QED
      BY <1>2, <2>1, Least
  <1>4. PICK a \in T : n = K - Height[a]
    BY <1>3
  <1>5. ASSUME NEW c \in T PROVE Height[c] <= Height[a]
    <2>1. K - Height[c] \in room
      OBVIOUS
    <2>2. K - Height[a] <= K - Height[c]
      BY <1>3, <1>4, <2>1
    <2>3. /\ Height[a] \in Nat /\ Height[c] \in Nat /\ K \in Nat
      BY <1>1
    <2> QED
      BY <2>2, <2>3
  <1> QED
    BY <1>4, <1>5

\* Induction from the highest blocks down, with the predicate as a set.
LEMMA DownInduct ==
    ASSUME NEW S,
           \A b \in Blocks : (\A c \in Blocks : Height[c] > Height[b] => c \in S) => b \in S
    PROVE  \A b \in Blocks : b \in S
  <1> DEFINE T == {b \in Blocks : b \notin S}
  <1>1. SUFFICES ASSUME T # {} PROVE FALSE
    OBVIOUS
  <1>2. PICK a \in T : \A c \in T : Height[c] <= Height[a]
    BY <1>1, Highest
  <1>3. \A c \in Blocks : Height[c] \in Nat
    BY HeightIs
  <1>4. \A c \in Blocks : Height[c] > Height[a] => c \in S
    BY <1>2, <1>3
  <1> QED
    BY <1>2, <1>4

\* The ancestors of a block are the blocks of its path, genesis and itself among them.
LEMMA AncestorsAre ==
    ASSUME NEW b \in Blocks
    PROVE  /\ Ancestors[b] \in SUBSET Blocks /\ b \in Ancestors[b] /\ Genesis \in Ancestors[b]
           /\ \A i \in 1..Len(Path[b]) : Path[b][i] \in Ancestors[b]
  <1>1. Path[b] \in Seq(Blocks) /\ Path[b][1] = Genesis /\ Path[b][Len(Path[b])] = b
    BY PathShape DEF IsPath, IsRun
  <1>2. /\ DOMAIN Path[b] = 1..Len(Path[b]) /\ Len(Path[b]) \in Nat /\ Len(Path[b]) > 0
        /\ \A i \in 1..Len(Path[b]) : Path[b][i] \in Blocks
    BY <1>1, PathShape, LenProperties, ElementOfSeq DEF IsPath
  <1>3. Ancestors[b] = {Path[b][i] : i \in 1..Len(Path[b])}
    BY <1>2 DEF Ancestors, ToSet
  <1>4. 1 \in 1..Len(Path[b]) /\ Len(Path[b]) \in 1..Len(Path[b])
    BY <1>2
  <1> QED
    BY <1>1, <1>2, <1>3, <1>4

\* A block has all ancestors of its parent.
LEMMA AncestorsBelow == \A b \in Blocks \ {Genesis} : Ancestors[Parent[b]] \subseteq Ancestors[b]
  <1> SUFFICES ASSUME NEW b \in Blocks \ {Genesis}, NEW c \in Ancestors[Parent[b]]
               PROVE  c \in Ancestors[b]
    OBVIOUS
  <1> DEFINE x == Path[Parent[b]]
             y == Path[b]
  <1>1. Parent[b] \in Blocks /\ b \in Blocks
    BY NodeSyncAssumption
  <1>2. x \in Seq(Blocks) /\ y = Append(x, b) /\ y \in Seq(Blocks)
    BY <1>1, PathToIs DEF Path
  <1>3. DOMAIN x = 1..Len(x) /\ Len(x) \in Nat
    BY <1>2, LenProperties
  <1>4. PICK i \in 1..Len(x) : c = x[i]
    BY <1>1, <1>3 DEF Ancestors, ToSet
  <1>5. Len(y) = Len(x) + 1 /\ y[i] = x[i]
    BY <1>1, <1>2, <1>4, AppendProperties
  <1> HIDE DEF x, y
  <1>6. i \in 1..Len(y)
    BY <1>3, <1>5
  <1> QED
    BY <1>1, <1>4, <1>5, <1>6, AncestorsAre DEF y

\* The fork of two chains is a block of both, and none of both is higher.
LEMMA ForkIs ==
    ASSUME NEW s \in Blocks, NEW t \in Blocks
    PROVE  /\ Fork[s][t] \in Blocks
           /\ \A c \in Ancestors[s] \cap Ancestors[t] : Height[c] <= Height[Fork[s][t]]
  <1> DEFINE T == Ancestors[s] \cap Ancestors[t]
  <1>1. T \in SUBSET Blocks /\ Genesis \in T
    BY AncestorsAre
  <1>2. \E b \in T : \A c \in T : Height[c] <= Height[b]
    BY <1>1, Highest
  <1>3. Fork[s][t] = CHOOSE b \in T : \A c \in T : Height[c] <= Height[b]
    BY DEF Fork
  <1>4. Fork[s][t] \in T /\ \A c \in T : Height[c] <= Height[Fork[s][t]]
    BY <1>2, <1>3
  <1> QED
    BY <1>1, <1>4

\* Every block adds work to the chain below it.
LEMMA WorkIs ==
    /\ TotalWork \in [Blocks -> Nat]
    /\ \A b \in Blocks \ {Genesis} : TotalWork[b] > TotalWork[Parent[b]]
  <1>1. TotalWork \in [Blocks -> Nat]
    BY WorkToIs DEF TotalWork
  <1>2. ASSUME NEW b \in Blocks \ {Genesis} PROVE TotalWork[b] > TotalWork[Parent[b]]
    <2>1. Parent[b] \in Blocks /\ b \in Blocks /\ Work[b] \in Nat \ {0}
      BY NodeSyncAssumption
    <2>2. TotalWork[b] = Work[b] + TotalWork[Parent[b]]
      BY <2>1, WorkToIs DEF TotalWork
    <2>3. TotalWork[Parent[b]] \in Nat
      BY <1>1, <2>1
    <2> QED
      BY <2>1, <2>2, <2>3
  <1> QED
    BY <1>1, <1>2

-----------------------------------------------------------------------------
(* Pages *)

\* The larger of two numbers.
LEMMA MaxOfTwo == \A a, b \in Int : Max({a, b}) = IF a >= b THEN a ELSE b
  <1> SUFFICES ASSUME NEW a \in Int, NEW b \in Int PROVE Max({a, b}) = IF a >= b THEN a ELSE b
    OBVIOUS
  <1> DEFINE m == IF a >= b THEN a ELSE b
  <1>1. m \in {a, b} /\ \A y \in {a, b} : m >= y
    OBVIOUS
  <1>2. \A x \in {a, b} : (\A y \in {a, b} : x >= y) => x = m
    OBVIOUS
  <1> HIDE DEF m
  <1>3. Max({a, b}) = m
    BY <1>1, <1>2 DEF Max
  <1> QED
    BY <1>3 DEF m

\* The smaller of two numbers.
LEMMA MinOfTwo == \A a, b \in Int : Min({a, b}) = IF a <= b THEN a ELSE b
  <1> SUFFICES ASSUME NEW a \in Int, NEW b \in Int PROVE Min({a, b}) = IF a <= b THEN a ELSE b
    OBVIOUS
  <1> DEFINE m == IF a <= b THEN a ELSE b
  <1>1. m \in {a, b} /\ \A y \in {a, b} : m =< y
    OBVIOUS
  <1>2. \A x \in {a, b} : (\A y \in {a, b} : x =< y) => x = m
    OBVIOUS
  <1> HIDE DEF m
  <1>3. Min({a, b}) = m
    BY <1>1, <1>2 DEF Min
  <1> QED
    BY <1>3 DEF m

\* A part of a page is a page.
LEMMA SliceIsPage ==
    ASSUME NEW x, IsPage(x), NEW m \in Nat \ {0}, NEW n \in Int, n <= Len(x)
    PROVE  /\ IsPage(SubSeq(x, m, n))
           /\ Len(SubSeq(x, m, n)) = IF m <= n THEN n - m + 1 ELSE 0
           /\ \A i \in 1..Len(SubSeq(x, m, n)) : SubSeq(x, m, n)[i] = x[m + i - 1]
  <1> DEFINE y == SubSeq(x, m, n)
             z == Len(x)
  <1>1. x \in Seq(Blocks) /\ z \in Nat /\ n <= z
    BY LenProperties DEF IsPage, IsRun
  <1>2. \A i \in 1..z : x[i] \in Blocks /\ x[i] \notin Own
    BY <1>1, ElementOfSeq DEF IsPage
  <1>3. \A i \in 1..(z - 1) : x[i + 1] # Genesis /\ Parent[x[i + 1]] = x[i]
    BY DEF IsPage, IsRun
  <1>4. \A i \in m..n : i \in 1..z
    BY <1>1
  <1>5. /\ y \in Seq(Blocks) /\ Len(y) = IF m <= n THEN n - m + 1 ELSE 0
        /\ \A i \in 1..(n - m + 1) : y[i] = x[m + i - 1]
    BY <1>2, <1>4, SubSeqProperties
  <1> HIDE DEF y, z
  <1>6. ASSUME NEW i \in 1..Len(y)
        PROVE  i \in 1..(n - m + 1) /\ m + i - 1 \in 1..z
    BY <1>1, <1>5
  <1>7. ASSUME NEW i \in 1..Len(y) PROVE y[i] = x[m + i - 1] /\ y[i] \notin Own
    BY <1>2, <1>5, <1>6
  <1>8. ASSUME NEW i \in 1..(Len(y) - 1) PROVE y[i + 1] # Genesis /\ Parent[y[i + 1]] = y[i]
    <2> DEFINE k == m + i - 1
    <2>1. i \in 1..Len(y) /\ i + 1 \in 1..Len(y)
      BY <1>5
    <2>2. k \in 1..z /\ m + (i + 1) - 1 = k + 1 /\ k + 1 \in 1..z
      <3>1. m + i - 1 \in 1..z /\ m + (i + 1) - 1 \in 1..z
        BY <1>6, <2>1
      <3>2. m + (i + 1) - 1 = (m + i - 1) + 1
        OBVIOUS
      <3> QED
        BY <3>1, <3>2
    <2>3. y[i] = x[k] /\ y[i + 1] = x[k + 1]
      BY <1>7, <2>1, <2>2
    <2> HIDE DEF k
    <2>4. k \in 1..(z - 1)
      BY <1>1, <2>2
    <2> QED
      BY <1>3, <2>3, <2>4
  <1>9. IsPage(y)
    BY <1>5, <1>7, <1>8 DEF IsPage, IsRun
  <1> QED
    BY <1>5, <1>7, <1>9 DEF y

\* What is asked of a peer whose chain has no block of our own is a page, and one
\* from above genesis does not begin with genesis.
LEMMA BlocksFromIsPage ==
    ASSUME NEW t \in Blocks \ Own, NEW h \in Nat, NEW n \in Int
    PROVE  /\ IsPage(BlocksFrom(t, h, n))
           /\ h > 0 /\ BlocksFrom(t, h, n) # <<>> => BlocksFrom(t, h, n)[1] # Genesis
  <1> DEFINE x == Path[t]
             z == Len(x)
             m == Min({h + n, Height[t] + 1})
             y == BlocksFrom(t, h, n)
  <1>1. IsPage(x) /\ Height[t] \in Nat /\ z = Height[t] + 1
    <2>1. IsPath(Path[t], t) /\ Height[t] \in Nat /\ Height[t] = Len(Path[t]) - 1
      BY PathShape, HeightIs DEF Height
    <2>2. Len(Path[t]) \in Nat
      BY <2>1, LenProperties DEF IsPath, IsRun
    <2> QED
      BY <2>1, <2>2 DEF IsPath, IsPage
  <1>2. m \in Int /\ m <= z
    BY <1>1, MinOfTwo
  <1>3. h + 1 \in Nat \ {0}
    OBVIOUS
  <1>4. y = SubSeq(x, h + 1, m)
    BY DEF BlocksFrom
  <1> HIDE DEF x, m, y
  <1>5. /\ IsPage(y) /\ Len(y) = IF h + 1 <= m THEN m - (h + 1) + 1 ELSE 0
        /\ \A i \in 1..Len(y) : y[i] = x[(h + 1) + i - 1]
    BY <1>1, <1>2, <1>3, <1>4, SliceIsPage
  <1>6. ASSUME h > 0, y # <<>> PROVE y[1] # Genesis
    <2>1. Len(y) \in Nat /\ Len(y) # 0
      BY <1>5, <1>6, LenProperties, EmptySeq DEF IsPage, IsRun
    <2> HIDE DEF z
    <2>2. 1 \in 1..Len(y) /\ h \in 1..(z - 1) /\ (h + 1) + 1 - 1 = h + 1
      BY <1>1, <1>2, <1>5, <1>6, <2>1
    <2>3. y[1] = x[h + 1]
      BY <1>5, <2>2
    <2>4. x[h + 1] # Genesis
      BY <1>1, <2>2 DEF IsPage, IsRun, z
    <2> QED
      BY <2>3, <2>4
  <1> QED
    BY <1>5, <1>6 DEF y

\* The chain of u continues the chain of t, without a block of our own.
Continues(t, u) ==
    /\ u \in Blocks /\ Ancestors[t] \subseteq Ancestors[u]
    /\ u # t => u \notin Own /\ TotalWork[u] > TotalWork[t] /\ Height[u] > Height[t]

\* What continues a continuation continues the chain.
LEMMA ContinuesTwice ==
    ASSUME NEW t \in Blocks, NEW u, NEW v, Continues(t, u), Continues(u, v) PROVE Continues(t, v)
  <1>1. u \in Blocks /\ v \in Blocks
    BY DEF Continues
  <1>2. /\ TotalWork[t] \in Nat /\ TotalWork[u] \in Nat /\ TotalWork[v] \in Nat
        /\ Height[t] \in Nat /\ Height[u] \in Nat /\ Height[v] \in Nat
    BY <1>1, WorkIs, HeightIs
  <1>3. CASE u = t
    BY <1>3
  <1>4. CASE v = u
    BY <1>4
  <1>5. CASE u # t /\ v # u
    <2>1. /\ Ancestors[t] \subseteq Ancestors[u] /\ Ancestors[u] \subseteq Ancestors[v]
          /\ v \notin Own /\ TotalWork[u] > TotalWork[t] /\ TotalWork[v] > TotalWork[u]
          /\ Height[u] > Height[t] /\ Height[v] > Height[u]
      BY <1>5 DEF Continues
    <2>2. TotalWork[v] > TotalWork[t] /\ Height[v] > Height[t]
      BY <1>2, <2>1
    <2> QED
      BY <1>1, <2>1, <2>2 DEF Continues
  <1> QED
    BY <1>3, <1>4, <1>5

\* A block that a peer has continues the chain of its parent.
LEMMA StepContinues ==
    ASSUME NEW b \in Blocks \ {Genesis}, b \notin Own PROVE Continues(Parent[b], b)
  <1>1. Parent[b] \in Blocks /\ Height[Parent[b]] \in Nat /\ Height[b] = Height[Parent[b]] + 1
    BY HeightIs, NodeSyncAssumption
  <1>2. Height[b] > Height[Parent[b]]
    BY <1>1
  <1> QED
    BY <1>2, WorkIs, AncestorsBelow DEF Continues

\* try_ingest_blocks: a page that connects continues the chain, and one that does not leaves it.
LEMMA IngestedContinues ==
    ASSUME NEW t \in Blocks, NEW x, IsPage(x) PROVE Continues(t, Ingested(t, x))
  <1> DEFINE n == Len(x)
             S == {i \in 0..(n - 1) : Continues(t, x[i + 1])}
  <1>1. CASE Ingested(t, x) = t
    BY <1>1 DEF Continues
  <1>2. CASE Ingested(t, x) # t
    <2>1. x # <<>> /\ x[1] # Genesis /\ Parent[x[1]] = t /\ Ingested(t, x) = x[n]
      BY <1>2 DEF Ingested, Last
    <2>2. x \in Seq(Blocks) /\ n \in Nat /\ n > 0
      BY <2>1, LenProperties, EmptySeq DEF IsPage, IsRun
    <2>3. \A i \in 1..n : x[i] \in Blocks /\ x[i] \notin Own
      BY <2>2, ElementOfSeq DEF IsPage
    <2>4. \A i \in 1..(n - 1) : x[i + 1] # Genesis /\ Parent[x[i + 1]] = x[i]
      BY DEF IsPage, IsRun
    <2> HIDE DEF n
    <2>5. 0 \in S
      <3>1. 1 \in 1..n /\ 0 \in 0..(n - 1) /\ 0 + 1 = 1
        BY <2>2
      <3>2. Continues(t, x[1])
        BY <2>1, <2>3, <3>1, StepContinues
      <3> QED
        BY <3>1, <3>2
    <2>6. ASSUME NEW k \in 0..((n - 1) - 1), k \in S PROVE k + 1 \in S
      <3>1. k + 1 \in 1..(n - 1) /\ k + 1 \in 0..(n - 1) /\ (k + 1) + 1 \in 1..n
        BY <2>2
      <3>2. Continues(x[k + 1], x[(k + 1) + 1])
        BY <2>3, <2>4, <3>1, StepContinues
      <3>3. Continues(t, x[k + 1])
        BY <2>6
      <3>4. Continues(t, x[(k + 1) + 1])
        BY <3>2, <3>3, ContinuesTwice
      <3> QED
        BY <3>1, <3>4
    <2> HIDE DEF S
    <2>7. n - 1 \in Nat
      BY <2>2
    <2>8. \A k \in 0..(n - 1) : k \in S
      BY <2>5, <2>6, <2>7, InductUpTo
    <2>9. n - 1 \in S /\ (n - 1) + 1 = n
      BY <2>2, <2>8
    <2>10. Continues(t, x[n])
      BY <2>9 DEF S
    <2> QED
      BY <2>1, <2>10
  <1> QED
    BY <1>1, <1>2

-----------------------------------------------------------------------------
(* The buffer and the branch buffer *)

\* Pages by height.
IsBuffer(buf) == DOMAIN buf \subseteq Nat /\ \A h \in DOMAIN buf : IsPage(buf[h])

\* A buffer that loses pages is a buffer.
LEMMA RestrictedBuffer ==
    ASSUME NEW buf, IsBuffer(buf), NEW T \in SUBSET DOMAIN buf PROVE IsBuffer(Restrict(buf, T))
  BY DEF IsBuffer, Restrict

\* A page put into the buffer leaves only pages in it, also when one is dropped.
LEMMA BufferedIs ==
    ASSUME IsBuffer(buffer), NEW h \in Nat, NEW x, IsPage(x) PROVE IsBuffer(Buffered(h, x))
  <1> DEFINE all == With(buffer, h, x)
  <1>1. IsBuffer(all)
    BY DEF IsBuffer, With
  <1>2. \/ Buffered(h, x) = all
        \/ Buffered(h, x) = Restrict(all, DOMAIN all \ {Max(DOMAIN all)})
    BY DEF Buffered
  <1>3. DOMAIN all \ {Max(DOMAIN all)} \in SUBSET DOMAIN all
    OBVIOUS
  <1> HIDE DEF all
  <1> QED
    BY <1>1, <1>2, <1>3, RestrictedBuffer

\* The room left above a block, which every page taken from a buffer uses up.
Room == [b \in Blocks |-> Cardinality(Blocks) - Height[b]]

\* A higher block has less room above it.
LEMMA RoomIs ==
    /\ Room \in [Blocks -> 0..Cardinality(Blocks)]
    /\ \A b, c \in Blocks : Height[c] > Height[b] => Room[c] < Room[b]
  <1> DEFINE K == Cardinality(Blocks)
  <1>1. K \in Nat /\ \A b \in Blocks : Height[b] \in Nat /\ Height[b] <= K
    BY HeightIs, HeightBound, TreeSize
  <1> HIDE DEF K
  <1>2. \A b \in Blocks : K - Height[b] \in 0..K
    BY <1>1
  <1>3. Room = [b \in Blocks |-> K - Height[b]]
    BY DEF Room, K
  <1>4. Room \in [Blocks -> 0..K] /\ \A b \in Blocks : Room[b] = K - Height[b]
    BY <1>2, <1>3
  <1>5. ASSUME NEW b \in Blocks, NEW c \in Blocks, Height[c] > Height[b] PROVE Room[c] < Room[b]
    BY <1>1, <1>4, <1>5
  <1> QED
    BY <1>4, <1>5 DEF K

\* In G, the next block is a higher one.
Rises(G, next) ==
    /\ G \in SUBSET Blocks /\ next \in [Blocks -> Blocks]
    /\ \A b \in G : Height[next[b]] > Height[b]

\* A function can be computed from its value at a higher block.
LEMMA UpRecursion ==
    ASSUME NEW V, NEW G, NEW next, Rises(G, next),
           NEW base \in [Blocks -> V], NEW step \in [Blocks \X V -> V]
    PROVE  Computed(Blocks, V, G, next, base, step) # {}
  <1>1. Falls(Blocks, G, next, Room, Cardinality(Blocks))
    BY RoomIs DEF Falls, Rises
  <1> QED
    BY <1>1, TreeSize, Recursion

\* However many pages are taken from the buffer in turn, they continue the chain.
LEMMA DrainedContinues ==
    ASSUME NEW t \in Blocks, NEW buf, IsBuffer(buf)
    PROVE  Continues(t, Drained(t, buf).tip) /\ IsBuffer(Drained(t, buf).buffer)
  <1> DEFINE Ready(b) == Needed(b) \in DOMAIN buf
             Grown(b) == Ingested(b, buf[Needed(b)])
             End[b \in Blocks] == IF Ready(b) /\ Grown(b) # b THEN End[Grown(b)] ELSE b
             Used[b \in Blocks] == IF ~Ready(b) THEN {}
                                   ELSE {Needed(b)} \cup (IF Grown(b) = b THEN {} ELSE Used[Grown(b)])
  <1>1. Drained(t, buf) = [tip |-> End[t], buffer |-> Restrict(buf, DOMAIN buf \ Used[t])]
    BY DEF Drained
  <1>2. IsBuffer(Restrict(buf, DOMAIN buf \ Used[t]))
    <2> HIDE DEF Used
    <2>1. DOMAIN buf \ Used[t] \in SUBSET DOMAIN buf
      OBVIOUS
    <2> QED
      BY <2>1, RestrictedBuffer
  <1>3. \A b \in Blocks : Ready(b) => Continues(b, Grown(b))
    BY IngestedContinues DEF IsBuffer
  <1> DEFINE G == {b \in Blocks : Ready(b) /\ Grown(b) # b}
             next == [b \in Blocks |-> IF b \in G THEN Grown(b) ELSE b]
             base == [b \in Blocks |-> b]
             step == [x \in Blocks \X Blocks |-> x[2]]
  <1>4. /\ G \in SUBSET Blocks /\ next \in [Blocks -> Blocks]
        /\ base \in [Blocks -> Blocks] /\ step \in [Blocks \X Blocks -> Blocks]
    BY <1>3 DEF Continues
  <1>5. /\ \A b \in G : next[b] = Grown(b) /\ Height[next[b]] > Height[b]
        /\ \A b \in Blocks : base[b] = b /\ \A c \in Blocks : step[<<b, c>>] = c
        /\ \A b \in Blocks : b \in G <=> Ready(b) /\ Grown(b) # b
    BY <1>3 DEF Continues
  <1> HIDE DEF Ready, Grown, G, next, base, step
  <1>6. PICK f : f \in Computed(Blocks, Blocks, G, next, base, step)
    <2>1. Rises(G, next)
      BY <1>4, <1>5 DEF Rises
    <2>2. base \in [Blocks -> Blocks] /\ step \in [Blocks \X Blocks -> Blocks]
      BY <1>4
    <2>3. Computed(Blocks, Blocks, G, next, base, step) # {}
      BY <2>1, <2>2, UpRecursion
    <2> QED
      BY <2>3
  <1>7. f \in [Blocks -> Blocks]
    BY <1>6 DEF Computed
  <1>8. ASSUME NEW b \in Blocks
        PROVE  f[b] = IF Ready(b) /\ Grown(b) # b THEN f[Grown(b)] ELSE b
    <2>1. f[b] = IF b \in G THEN step[<<b, f[next[b]]>>] ELSE base[b]
      BY <1>6 DEF Computed
    <2>2. f[next[b]] \in Blocks
      BY <1>4, <1>7
    <2> QED
      BY <1>5, <2>1, <2>2
  <1>9. f = [b \in Blocks |-> IF Ready(b) /\ Grown(b) # b THEN f[Grown(b)] ELSE b]
    BY <1>7, <1>8
  <1>10. End = [b \in Blocks |-> IF Ready(b) /\ Grown(b) # b THEN End[Grown(b)] ELSE b]
    <2> HIDE DEF Ready, Grown
    <2> QED
      BY <1>9
  <1> DEFINE S == {b \in Blocks : Continues(b, End[b])}
  <1> HIDE DEF End
  <1>11. ASSUME NEW b \in Blocks, \A c \in Blocks : Height[c] > Height[b] => c \in S
         PROVE  b \in S
    <2>1. CASE Ready(b) /\ Grown(b) # b
      <3>1. Continues(b, Grown(b)) /\ Grown(b) \in Blocks /\ Height[Grown(b)] > Height[b]
        BY <1>3, <2>1 DEF Continues
      <3>2. Continues(Grown(b), End[Grown(b)])
        BY <1>11, <3>1
      <3>3. End[b] = End[Grown(b)]
        BY <1>10, <2>1
      <3> QED
        BY <3>1, <3>2, <3>3, ContinuesTwice
    <2>2. CASE ~(Ready(b) /\ Grown(b) # b)
      <3>1. End[b] = b
        BY <1>10, <2>2
      <3> QED
        BY <3>1 DEF Continues
    <2> QED
      BY <2>1, <2>2
  <1> HIDE DEF S
  <1>12. \A b \in Blocks : b \in S
    BY <1>11, DownInduct
  <1>13. Continues(t, End[t])
    BY <1>12 DEF S
  <1> QED
    BY <1>1, <1>2, <1>13

\* next_ibd_claim: both the page to ask for and the next cursor are heights.
LEMMA ClaimIs ==
    ASSUME NEW t \in Blocks, NEW c \in Nat
    PROVE  Claim(t, c).from \in Nat /\ Claim(t, c).cursor \in Nat
  <1> DEFINE need == Needed(t)
             from == Max({c, need})
             limit == need + PagesAhead * Page
  <1>1. need \in Nat
    BY HeightIs DEF Needed
  <1>2. Page \in Nat
    BY NodeSyncAssumption
  <1> HIDE DEF need
  <1>3. from \in Nat
    BY <1>1, MaxOfTwo
  <1> HIDE DEF from
  <1>4. Claim(t, c) = IF from >= limit THEN [from |-> need, cursor |-> from]
                      ELSE [from |-> from, cursor |-> from + Page]
    BY DEF Claim, need, from
  <1> HIDE DEF limit
  <1> QED
    BY <1>1, <1>2, <1>3, <1>4

\* apply_ibd_page: whatever becomes of a page, the chain is continued and the buffer holds pages.
LEMMA TakenIs ==
    ASSUME tip \in Blocks, cursor \in Nat, IsBuffer(buffer), NEW x, IsPage(x)
    PROVE  /\ Continues(tip, Taken(x).tip) /\ IsBuffer(Taken(x).buffer)
           /\ Taken(x).cursor \in Nat
  <1> DEFINE drained == Drained(Ingested(tip, x), buffer)
             start == Height[x[1]]
  <1>1. CASE Taken(x).tip = tip /\ Taken(x).buffer = buffer /\ Taken(x).cursor = cursor
    BY <1>1 DEF Continues
  <1>2. CASE /\ x # <<>>
             /\ Taken(x).tip = tip /\ Taken(x).buffer = Buffered(start, x) /\ Taken(x).cursor = cursor
    <2>1. x[1] \in Blocks
      BY <1>2, LenProperties, EmptySeq, ElementOfSeq DEF IsPage, IsRun
    <2>2. start \in Nat
      BY <2>1, HeightIs
    <2>3. IsBuffer(Buffered(start, x))
      BY <2>2, BufferedIs
    <2> QED
      BY <1>2, <2>3 DEF Continues
  <1>3. CASE /\ Taken(x).tip = drained.tip /\ Taken(x).buffer = drained.buffer
             /\ Taken(x).cursor = Max({cursor, Needed(drained.tip)})
    <2>1. Continues(tip, Ingested(tip, x))
      BY IngestedContinues
    <2>2. Ingested(tip, x) \in Blocks
      BY <2>1 DEF Continues
    <2>3. Continues(Ingested(tip, x), drained.tip) /\ IsBuffer(drained.buffer)
      BY <2>2, DrainedContinues
    <2> HIDE DEF drained
    <2>4. Continues(tip, drained.tip)
      BY <2>1, <2>3, ContinuesTwice
    <2>5. Needed(drained.tip) \in Nat
      BY <2>4, HeightIs DEF Continues, Needed
    <2>6. Max({cursor, Needed(drained.tip)}) \in Nat
      BY <2>5, MaxOfTwo
    <2> QED
      BY <1>3, <2>3, <2>4, <2>6
  <1> HIDE DEF drained, start
  <1>4. CASE x = <<>>
    <2>1. Taken(x) = [tip |-> tip, buffer |-> buffer, cursor |-> cursor, outcome |-> "duplicate"]
      BY <1>4 DEF Taken
    <2> QED
      BY <1>1, <2>1
  <1>5. CASE x # <<>> /\ start > Needed(tip)
    <2> DEFINE same == [tip |-> tip, buffer |-> buffer, cursor |-> cursor, outcome |-> "duplicate"]
    <2>1. Taken(x) = [same EXCEPT !.buffer = Buffered(start, x), !.outcome = "buffered"]
      BY <1>5 DEF Taken, start
    <2> QED
      BY <1>2, <1>5, <2>1
  <1>6. CASE x # <<>> /\ ~(start > Needed(tip))
    <2> DEFINE same == [tip |-> tip, buffer |-> buffer, cursor |-> cursor, outcome |-> "duplicate"]
    <2>1. \/ Taken(x) = same
          \/ \E w : Taken(x) = [tip |-> drained.tip, buffer |-> drained.buffer,
                                cursor |-> Max({cursor, Needed(drained.tip)}), outcome |-> w]
      BY <1>6 DEF Taken, start, drained
    <2>2. CASE Taken(x) = same
      BY <1>1, <2>2
    <2>3. CASE Taken(x) # same
      BY <1>3, <2>1, <2>3
    <2> QED
      BY <2>2, <2>3
  <1> QED
    BY <1>4, <1>5, <1>6

\* A branch holds, for a block, one that is built on it and that a peer has sent.
IsBranch(kept) ==
    \A a \in DOMAIN kept :
        a \in Blocks /\ kept[a] \in Blocks \ ({Genesis} \cup Own) /\ Parent[kept[a]] = a

\* A page whose first block, if there is one, is built on b.
Follows(b, v) == IsPage(v) /\ (v # <<>> => v[1] # Genesis /\ Parent[v[1]] = b)

\* A block put before what follows it.
LEMMA PrependedFollows ==
    ASSUME NEW b \in Blocks, NEW c \in Blocks \ ({Genesis} \cup Own), Parent[c] = b,
           NEW v, Follows(c, v)
    PROVE  Follows(b, <<c>> \o v) /\ <<c>> \o v # <<>>
  <1> DEFINE s == <<c>>
             y == s \o v
             n == Len(v)
  <1>1. v \in Seq(Blocks) /\ n \in Nat /\ s \in Seq(Blocks)
    BY LenProperties DEF Follows, IsPage, IsRun
  <1>2. /\ y \in Seq(Blocks) /\ Len(y) = 1 + n
        /\ \A i \in 1..(1 + n) : y[i] = IF i <= 1 THEN s[i] ELSE v[i - 1]
    <2> DEFINE m == Len(s)
    <2>1. m = 1
      OBVIOUS
    <2> HIDE DEF s, m
    <2>2. /\ y \in Seq(Blocks) /\ Len(y) = m + n
          /\ \A i \in 1..(m + n) : y[i] = IF i <= m THEN s[i] ELSE v[i - m]
      BY <1>1, ConcatProperties DEF m
    <2> HIDE DEF y, n
    <2> QED
      BY <2>1, <2>2
  <1> HIDE DEF y, n
  <1>3. y[1] = c
    <2>1. 1 \in 1..(1 + n) /\ s[1] = c
      BY <1>1
    <2> HIDE DEF s
    <2> QED
      BY <1>2, <2>1
  <1> HIDE DEF s
  <1>4. \A i \in 1..n : y[i + 1] = v[i]
    <2> SUFFICES ASSUME NEW i \in 1..n PROVE y[i + 1] = v[i]
      OBVIOUS
    <2>1. i + 1 \in 1..(1 + n) /\ ~(i + 1 <= 1) /\ (i + 1) - 1 = i
      BY <1>1
    <2> QED
      BY <1>2, <2>1
  <1>5. \A i \in 1..n : v[i] \notin Own
    BY DEF Follows, IsPage, n
  <1>6. \A i \in 1..(n - 1) : v[i + 1] # Genesis /\ Parent[v[i + 1]] = v[i]
    BY DEF Follows, IsPage, IsRun, n
  <1>7. n > 0 => v[1] # Genesis /\ Parent[v[1]] = c
    <2>1. n > 0 => v # <<>>
      BY EmptySeq DEF n
    <2> QED
      BY <2>1 DEF Follows
  <1>8. ASSUME NEW i \in 1..n PROVE y[i + 1] # Genesis /\ Parent[y[i + 1]] = y[i]
    <2>1. CASE i = 1
      BY <1>1, <1>3, <1>4, <1>7, <2>1
    <2>2. CASE i # 1
      <3>1. i - 1 \in 1..(n - 1) /\ (i - 1) + 1 = i /\ i - 1 \in 1..n
        BY <1>1, <2>2
      <3>2. y[i + 1] = v[i] /\ y[i] = v[i - 1]
        BY <1>4, <3>1
      <3>3. v[i] # Genesis /\ Parent[v[i]] = v[i - 1]
        BY <1>6, <3>1
      <3> QED
        BY <3>2, <3>3
    <2> QED
      BY <2>1, <2>2
  <1>9. ASSUME NEW i \in 1..(1 + n) PROVE y[i] \notin Own
    <2>1. CASE i = 1
      BY <1>3, <2>1
    <2>2. CASE i # 1
      <3>1. i - 1 \in 1..n /\ (i - 1) + 1 = i
        BY <1>1, <2>2
      <3> QED
        BY <1>4, <1>5, <3>1
    <2> QED
      BY <2>1, <2>2
  <1>10. Len(y) - 1 = n
    BY <1>1, <1>2
  <1>11. IsPage(y)
    BY <1>2, <1>8, <1>9, <1>10 DEF IsPage, IsRun
  <1>12. y # <<>>
    BY <1>1, <1>2, EmptySeq
  <1> QED
    BY <1>3, <1>11, <1>12 DEF Follows, y, s

\* The branch collected from a block of our chain is a page that follows that block.
LEMMA WalkIs ==
    ASSUME NEW kept, IsBranch(kept), NEW root \in DOMAIN kept
    PROVE  Follows(root, Walk(root, kept)) /\ Walk(root, kept) # <<>>
  <1> DEFINE From[b \in Blocks] == IF b \in DOMAIN kept THEN <<kept[b]>> \o From[kept[b]] ELSE <<>>
             Found == Blocks \ Own
             G == DOMAIN kept
             next == [b \in Blocks |-> IF b \in G THEN kept[b] ELSE b]
             base == [b \in Blocks |-> <<>>]
             step == [x \in Blocks \X Seq(Found) |-> IF x[1] \in G THEN <<kept[x[1]]>> \o x[2] ELSE <<>>]
  <1>1. Walk(root, kept) = From[root]
    BY DEF Walk
  <1>2. /\ G \in SUBSET Blocks
        /\ \A b \in G : kept[b] \in Found /\ kept[b] \in Blocks \ {Genesis} /\ Parent[kept[b]] = b
    BY DEF IsBranch
  <1>3. \A b \in G : <<kept[b]>> \in Seq(Found)
    BY <1>2
  <1>4. \A b \in G : \A v \in Seq(Found) : <<kept[b]>> \o v \in Seq(Found)
    BY <1>3, ConcatProperties
  <1>5. next \in [Blocks -> Blocks] /\ base \in [Blocks -> Seq(Found)]
    BY <1>2
  <1>6. step \in [Blocks \X Seq(Found) -> Seq(Found)]
    <2> SUFFICES ASSUME NEW b \in Blocks, NEW v \in Seq(Found)
                 PROVE (IF b \in G THEN <<kept[b]>> \o v ELSE <<>>) \in Seq(Found)
      OBVIOUS
    <2>1. CASE b \in G
      <3>1. <<kept[b]>> \o v \in Seq(Found)
        BY <1>4, <2>1
      <3> QED
        BY <2>1, <3>1
    <2>2. CASE b \notin G
      BY <2>2
    <2> QED
      BY <2>1, <2>2
  <1>7. \A b \in G : next[b] = kept[b] /\ Height[next[b]] > Height[b]
    <2> SUFFICES ASSUME NEW b \in G PROVE next[b] = kept[b] /\ Height[next[b]] > Height[b]
      OBVIOUS
    <2>1. next[b] = kept[b] /\ kept[b] \in Blocks \ {Genesis} /\ Parent[kept[b]] = b /\ b \in Blocks
      BY <1>2
    <2>2. Height[kept[b]] = Height[b] + 1 /\ Height[b] \in Nat
      BY <2>1, HeightIs
    <2> QED
      BY <2>1, <2>2
  <1>8. \A b \in Blocks : base[b] = <<>>
    OBVIOUS
  <1>9. \A b \in G : \A v \in Seq(Found) : step[<<b, v>>] = <<kept[b]>> \o v
    BY <1>2
  <1> HIDE DEF G, next, base, step, Found
  <1>10. PICK f : f \in Computed(Blocks, Seq(Found), G, next, base, step)
    <2>1. Rises(G, next)
      BY <1>2, <1>5, <1>7 DEF Rises
    <2>2. base \in [Blocks -> Seq(Found)]
      BY <1>5
    <2>3. Computed(Blocks, Seq(Found), G, next, base, step) # {}
      BY <1>6, <2>1, <2>2, UpRecursion
    <2> QED
      BY <2>3
  <1>11. f \in [Blocks -> Seq(Found)]
    BY <1>10 DEF Computed
  <1>12. ASSUME NEW b \in Blocks
         PROVE  f[b] = IF b \in G THEN <<kept[b]>> \o f[kept[b]] ELSE <<>>
    <2>1. f[b] = IF b \in G THEN step[<<b, f[next[b]]>>] ELSE base[b]
      BY <1>10 DEF Computed
    <2>2. f[next[b]] \in Seq(Found)
      BY <1>5, <1>11
    <2>3. CASE b \in G
      <3>1. f[b] = step[<<b, f[kept[b]]>>] /\ f[kept[b]] \in Seq(Found)
        BY <1>7, <2>1, <2>2, <2>3
      <3>2. step[<<b, f[kept[b]]>>] = <<kept[b]>> \o f[kept[b]]
        BY <1>9, <2>3, <3>1
      <3> QED
        BY <2>3, <3>1, <3>2
    <2>4. CASE b \notin G
      BY <1>8, <2>1, <2>4
    <2> QED
      BY <2>3, <2>4
  <1>13. f = [b \in Blocks |-> IF b \in DOMAIN kept THEN <<kept[b]>> \o f[kept[b]] ELSE <<>>]
    BY <1>11, <1>12 DEF G
  <1>14. From = [b \in Blocks |-> IF b \in DOMAIN kept THEN <<kept[b]>> \o From[kept[b]] ELSE <<>>]
    BY <1>13
  <1> DEFINE S == {b \in Blocks : Follows(b, From[b])}
  <1> HIDE DEF From
  <1>15. \A b \in G : kept[b] \in Blocks \ ({Genesis} \cup Own)
    BY DEF IsBranch, G
  <1>16. ASSUME NEW b \in Blocks, \A c \in Blocks : Height[c] > Height[b] => c \in S
         PROVE  b \in S
    <2>1. CASE b \in G
      <3>1. kept[b] \in Blocks /\ Height[kept[b]] > Height[b] /\ Parent[kept[b]] = b
        BY <1>2, <1>7, <2>1
      <3>2. Follows(kept[b], From[kept[b]])
        BY <1>16, <3>1
      <3>3. From[b] = <<kept[b]>> \o From[kept[b]]
        BY <1>14, <2>1 DEF G
      <3>4. Follows(b, <<kept[b]>> \o From[kept[b]])
        BY <1>15, <2>1, <3>1, <3>2, PrependedFollows
      <3> QED
        BY <3>3, <3>4
    <2>2. CASE b \notin G
      <3>1. From[b] = <<>>
        BY <1>14, <2>2 DEF G
      <3>2. Follows(b, <<>>)
        BY EmptySeq DEF Follows, IsPage, IsRun
      <3> QED
        BY <3>1, <3>2
    <2> QED
      BY <2>1, <2>2
  <1> HIDE DEF S
  <1>17. \A b \in Blocks : b \in S
    BY <1>16, DownInduct
  <1>18. root \in G /\ root \in Blocks /\ kept[root] \in Blocks
    BY <1>2, <1>15 DEF G
  <1>19. Follows(root, From[root]) /\ Follows(kept[root], From[kept[root]])
    BY <1>17, <1>18 DEF S
  <1>20. From[root] = <<kept[root]>> \o From[kept[root]]
    BY <1>14, <1>18 DEF G
  <1>21. Parent[kept[root]] = root /\ kept[root] \in Blocks \ ({Genesis} \cup Own)
    BY <1>2, <1>15, <1>18
  <1>22. <<kept[root]>> \o From[kept[root]] # <<>>
    BY <1>18, <1>19, <1>21, PrependedFollows
  <1> QED
    BY <1>1, <1>19, <1>20, <1>22

-----------------------------------------------------------------------------
(* One verification at a time *)

\* What a thread that holds the guard may be doing, and the threads that do.
BusyAt == {"fetching", "verifying", "verified"}
BusyIn(jobs) == {t \in Threads : jobs[t].at \in BusyAt}

\* The guard is held by the one thread that needs it.
GuardInv ==
    /\ DOMAIN job = Threads
    /\ \A t \in Threads : "at" \in DOMAIN job[t]
    /\ flight \in BOOLEAN
    /\ IF flight THEN \E t \in Threads : BusyIn(job) = {t} ELSE BusyIn(job) = {}

\* The session of a peer is a thread.
LEMMA ThreadsOf == \A p \in Peers : Session(p) \in Threads
  BY DEF Threads

\* A peer that was dialled may have a thread fetching from it.
LEMMA FetcherOf == \A p \in Outbound : Fetcher(p) \in Threads
  BY DEF Threads

\* A step of one thread leaves the others what they were.
LEMMA Threading ==
    ASSUME GuardInv, NEW t \in Threads, NEW j, Becomes(t, j)
    PROVE  /\ DOMAIN job' = Threads
           /\ job'[t] = j
           /\ \A u \in Threads \ {t} : job'[u] = job[u]
  BY DEF GuardInv, Becomes

\* A thread that stops verifying gives the guard back, another one that is idle leaves it alone.
LEMMA ThreadRests ==
    ASSUME GuardInv, NEW t \in Threads, NEW j, Becomes(t, j), "at" \in DOMAIN j,
           flight' \in BOOLEAN,
           j.at \notin BusyAt,
           IF job[t].at \in BusyAt THEN ~flight' ELSE flight' = flight
    PROVE  GuardInv'
  <1>1. /\ DOMAIN job' = Threads /\ job'[t] = j
        /\ \A u \in Threads \ {t} : job'[u] = job[u]
    BY Threading
  <1>2. \A u \in Threads : "at" \in DOMAIN job'[u]
    BY <1>1 DEF GuardInv
  <1>3. BusyIn(job') = BusyIn(job) \ {t}
    BY <1>1 DEF BusyIn
  <1>4. CASE job[t].at \in BusyAt
    <2>1. t \in BusyIn(job)
      BY <1>4 DEF BusyIn
    <2>2. BusyIn(job') = {}
      BY <1>3, <2>1 DEF GuardInv
    <2> QED
      BY <1>1, <1>2, <1>4, <2>2 DEF GuardInv
  <1>5. CASE job[t].at \notin BusyAt
    <2>1. BusyIn(job') = BusyIn(job)
      BY <1>3, <1>5 DEF BusyIn
    <2> QED
      BY <1>1, <1>2, <1>5, <2>1 DEF GuardInv
  <1> QED
    BY <1>4, <1>5

\* A thread that holds the guard or takes a free one is the only one that verifies.
LEMMA ThreadWorks ==
    ASSUME GuardInv, NEW t \in Threads, NEW j, Becomes(t, j), "at" \in DOMAIN j,
           j.at \in BusyAt, flight' = TRUE,
           job[t].at \in BusyAt \/ ~flight
    PROVE  GuardInv'
  <1>1. /\ DOMAIN job' = Threads /\ job'[t] = j
        /\ \A u \in Threads \ {t} : job'[u] = job[u]
    BY Threading
  <1>2. \A u \in Threads : "at" \in DOMAIN job'[u]
    BY <1>1 DEF GuardInv
  <1>3. BusyIn(job') = BusyIn(job) \cup {t}
    BY <1>1 DEF BusyIn
  <1>4. BusyIn(job) \subseteq {t}
    <2>1. CASE job[t].at \in BusyAt
      <3>1. t \in BusyIn(job)
        BY <2>1 DEF BusyIn
      <3> QED
        BY <3>1 DEF GuardInv
    <2>2. CASE ~flight
      BY <2>2 DEF GuardInv
    <2> QED
      BY <2>1, <2>2
  <1> QED
    BY <1>1, <1>2, <1>3, <1>4 DEF GuardInv

\* Steps that touch neither threads nor guard.
LEMMA ThreadsStay ==
    ASSUME GuardInv, UNCHANGED <<job, flight>> PROVE GuardInv'
  BY DEF GuardInv, BusyIn

\* kick_reorg_fetch: a thread is started, and holds nothing yet.
LEMMA KicksGuard ==
    ASSUME GuardInv, NEW p \in Peers, Kicks(p), flight' = flight PROVE GuardInv'
  <1>1. CASE p \in Outbound /\ job[Fetcher(p)] = Idle
    <2>1. Becomes(Fetcher(p), [at |-> "starting"])
      BY <1>1 DEF Kicks, Becomes
    <2>2. job[Fetcher(p)].at \notin BusyAt
      BY <1>1 DEF Idle, BusyAt
    <2>3. flight' \in BOOLEAN
      BY DEF GuardInv
    <2>4. [at |-> "starting"].at \notin BusyAt /\ "at" \in DOMAIN [at |-> "starting"]
      BY DEF BusyAt
    <2> HIDE DEF BusyAt
    <2> QED
      BY <1>1, <2>1, <2>2, <2>3, <2>4, FetcherOf, ThreadRests
  <1>2. CASE ~(p \in Outbound /\ job[Fetcher(p)] = Idle)
    BY <1>2, ThreadsStay DEF Kicks
  <1> QED
    BY <1>1, <1>2

\* One lemma per handler: a status.
LEMMA HearGuard ==
    ASSUME GuardInv, NEW p \in Peers, Hear(p) PROVE GuardInv'
  <1>1. flight' = flight
    BY DEF Hear
  <1>2. UNCHANGED job \/ Kicks(p)
    BY DEF Hear
  <1> QED
    BY <1>1, <1>2, KicksGuard, ThreadsStay

\* A page of blocks.
LEMMA AnswerGuard ==
    ASSUME GuardInv, NEW p \in Peers, Answer(p) PROVE GuardInv'
  <1>1. flight' = flight
    BY DEF Answer
  <1>2. UNCHANGED job \/ Kicks(p)
    BY DEF Answer
  <1> QED
    BY <1>1, <1>2, KicksGuard, ThreadsStay

\* consider_branch takes the guard only when it is free.
LEMMA ConsiderGuard ==
    ASSUME GuardInv, NEW p \in Peers, NEW b \in Blocks,
           job[Session(p)] = Idle, ConsiderBranch(p, b)
    PROVE  GuardInv'
  <1>1. \/ UNCHANGED <<job, flight>>
        \/ /\ ~flight /\ flight' = TRUE
           /\ \E root, suffix : Becomes(Session(p), [at |-> "verifying", base |-> tip, root |-> root,
                                                     suffix |-> suffix])
    BY DEF ConsiderBranch, GuardInv
  <1>2. CASE UNCHANGED <<job, flight>>
    BY <1>2, ThreadsStay
  <1>3. ASSUME ~flight, flight' = TRUE, NEW root, NEW suffix,
               Becomes(Session(p), [at |-> "verifying", base |-> tip, root |-> root, suffix |-> suffix])
        PROVE  GuardInv'
    <2> DEFINE j == [at |-> "verifying", base |-> tip, root |-> root, suffix |-> suffix]
    <2>1. "at" \in DOMAIN j /\ j.at \in BusyAt
      BY DEF BusyAt
    <2>2. Becomes(Session(p), j)
      BY <1>3
    <2> HIDE DEF j, BusyAt
    <2> QED
      BY <1>3, <2>1, <2>2, ThreadsOf, ThreadWorks
  <1> QED
    BY <1>1, <1>2, <1>3

\* A block that is announced or pushed.
LEMMA ReceiveGuard ==
    ASSUME GuardInv, NEW p \in Peers, NEW b \in Blocks, Receive(p, b) PROVE GuardInv'
  <1>1. CASE UNCHANGED <<job, flight>>
    BY <1>1, ThreadsStay
  <1>2. CASE job[Session(p)] = Idle /\ ConsiderBranch(p, b)
    BY <1>2, ConsiderGuard
  <1> QED
    BY <1>1, <1>2 DEF Receive

\* The handshake of a fetching thread.
LEMMA StartFetchGuard ==
    ASSUME GuardInv, NEW p \in Outbound, StartFetch(p) PROVE GuardInv'
  <1>1. PICK j : Becomes(Fetcher(p), j) /\ "at" \in DOMAIN j /\ j.at \notin BusyAt
    <2>1. "at" \in DOMAIN Idle /\ Idle.at \notin BusyAt
      BY DEF Idle, BusyAt
    <2> DEFINE j == [at |-> "pulling", theirs |-> peer[p], from |-> Needed(tip)]
    <2>2. "at" \in DOMAIN j /\ j.at \notin BusyAt
      BY DEF BusyAt
    <2>3. Becomes(Fetcher(p), Idle) \/ Becomes(Fetcher(p), j)
      BY DEF StartFetch
    <2> HIDE DEF j, BusyAt
    <2> QED
      BY <2>1, <2>2, <2>3
  <1>2. job[Fetcher(p)].at \notin BusyAt /\ flight' = flight /\ flight' \in BOOLEAN
    BY DEF StartFetch, BusyAt, GuardInv
  <1> QED
    BY <1>1, <1>2, FetcherOf, ThreadRests

\* Pages pulled by a fetching thread.
LEMMA PullGuard ==
    ASSUME GuardInv, NEW p \in Outbound, Pull(p) PROVE GuardInv'
  <1> DEFINE j == job[Fetcher(p)]
             forked == [at |-> "forked", theirs |-> j.theirs]
  <1>1. "at" \in DOMAIN Idle /\ Idle.at \notin BusyAt
    BY DEF Idle, BusyAt
  <1>2. "at" \in DOMAIN forked /\ forked.at \notin BusyAt
    BY DEF BusyAt
  <1>3. /\ j.at = "pulling" /\ flight' = flight
        /\ \/ Becomes(Fetcher(p), Idle) \/ Becomes(Fetcher(p), forked)
           \/ \E n : Becomes(Fetcher(p), [j EXCEPT !.from = n])
    BY DEF Pull
  <1>4. j.at \notin BusyAt /\ flight' \in BOOLEAN /\ "at" \in DOMAIN j
    BY <1>3, FetcherOf DEF BusyAt, GuardInv
  <1>5. \A n : "at" \in DOMAIN [j EXCEPT !.from = n] /\ [j EXCEPT !.from = n].at = j.at
    BY <1>4
  <1> HIDE DEF j, forked, BusyAt
  <1>6. PICK k : Becomes(Fetcher(p), k) /\ "at" \in DOMAIN k /\ k.at \notin BusyAt
    BY <1>1, <1>2, <1>3, <1>4, <1>5
  <1> QED
    BY <1>3, <1>4, <1>6, FetcherOf, ThreadRests DEF j

\* The search for the last common block.
LEMMA ProbeGuard ==
    ASSUME GuardInv, NEW p \in Outbound, Probe(p) PROVE GuardInv'
  <1> DEFINE j == [at |-> "probed", theirs |-> job[Fetcher(p)].theirs, fork |-> Height[Fork[tip][peer[p]]]]
  <1>1. "at" \in DOMAIN j /\ j.at \notin BusyAt
    BY DEF BusyAt
  <1>2. job[Fetcher(p)].at \notin BusyAt /\ flight' = flight /\ flight' \in BOOLEAN
    BY DEF Probe, BusyAt, GuardInv
  <1>3. Becomes(Fetcher(p), j)
    BY DEF Probe
  <1> HIDE DEF j, BusyAt
  <1> QED
    BY <1>1, <1>2, <1>3, FetcherOf, ThreadRests

\* The guard is taken, under the lock, only when it is free and the fork is not too deep.
LEMMA PrepareGuard ==
    ASSUME GuardInv, NEW p \in Outbound, Prepare(p) PROVE GuardInv'
  <1> DEFINE fetching == [at |-> "fetching", base |-> tip, root |-> Path[tip][job[Fetcher(p)].fork + 1],
                          theirs |-> job[Fetcher(p)].theirs]
  <1>1. /\ job[Fetcher(p)].at = "probed"
        /\ \/ Becomes(Fetcher(p), Idle) /\ flight' = flight
           \/ Becomes(Fetcher(p), fetching) /\ ~flight /\ flight' = TRUE
    BY DEF Prepare, GuardInv
  <1>2. job[Fetcher(p)].at \notin BusyAt
    BY <1>1 DEF BusyAt
  <1>3. CASE Becomes(Fetcher(p), Idle) /\ flight' = flight
    <2>1. "at" \in DOMAIN Idle /\ Idle.at \notin BusyAt /\ flight' \in BOOLEAN
      BY <1>3 DEF Idle, BusyAt, GuardInv
    <2> HIDE DEF BusyAt
    <2> QED
      BY <1>2, <1>3, <2>1, FetcherOf, ThreadRests
  <1>4. CASE Becomes(Fetcher(p), fetching) /\ ~flight /\ flight' = TRUE
    <2>1. "at" \in DOMAIN fetching /\ fetching.at \in BusyAt
      BY DEF BusyAt
    <2> HIDE DEF fetching, BusyAt
    <2> QED
      BY <1>4, <2>1, FetcherOf, ThreadWorks
  <1> QED
    BY <1>1, <1>2, <1>3, <1>4

\* With the branch in hand the guard is kept, without it the guard is dropped.
LEMMA FetchBranchGuard ==
    ASSUME GuardInv, NEW p \in Outbound, FetchBranch(p) PROVE GuardInv'
  <1>1. /\ job[Fetcher(p)].at = "fetching"
        /\ \/ Becomes(Fetcher(p), Idle) /\ flight' = FALSE
           \/ /\ flight' = TRUE
              /\ \E base, root, suffix : Becomes(Fetcher(p), [at |-> "verifying", base |-> base, root |-> root,
                                                             suffix |-> suffix])
    BY DEF FetchBranch
  <1>2. job[Fetcher(p)].at \in BusyAt
    BY <1>1 DEF BusyAt
  <1>3. CASE Becomes(Fetcher(p), Idle) /\ flight' = FALSE
    <2>1. "at" \in DOMAIN Idle /\ Idle.at \notin BusyAt
      BY DEF Idle, BusyAt
    <2> QED
      BY <1>2, <1>3, <2>1, FetcherOf, ThreadRests
  <1>4. ASSUME flight' = TRUE, NEW base, NEW root, NEW suffix,
               Becomes(Fetcher(p), [at |-> "verifying", base |-> base, root |-> root, suffix |-> suffix])
        PROVE  GuardInv'
    <2> DEFINE j == [at |-> "verifying", base |-> base, root |-> root, suffix |-> suffix]
    <2>1. "at" \in DOMAIN j /\ j.at \in BusyAt
      BY DEF BusyAt
    <2>2. Becomes(Fetcher(p), j)
      BY <1>4
    <2> HIDE DEF j, BusyAt
    <2> QED
      BY <1>2, <1>4, <2>1, <2>2, FetcherOf, ThreadWorks
  <1> QED
    BY <1>1, <1>3, <1>4

\* A broken connection ends the thread and drops what it held.
LEMMA FetchFailsGuard ==
    ASSUME GuardInv, NEW p \in Outbound, FetchFails(p) PROVE GuardInv'
  <1>1. "at" \in DOMAIN Idle /\ Idle.at \notin BusyAt
    BY DEF Idle, BusyAt
  <1>2. Becomes(Fetcher(p), Idle) /\ flight' \in BOOLEAN
    BY DEF FetchFails
  <1>3. IF job[Fetcher(p)].at \in BusyAt THEN ~flight' ELSE flight' = flight
    BY DEF FetchFails, BusyAt, GuardInv
  <1> HIDE DEF BusyAt
  <1> QED
    BY <1>1, <1>2, <1>3, FetcherOf, ThreadRests

\* Only a branch that is refused gives the guard back here.
LEMMA VerifyGuard ==
    ASSUME GuardInv, NEW t \in Threads, Verify(t) PROVE GuardInv'
  <1>1. job[t].at = "verifying" /\ "at" \in DOMAIN job[t]
    BY DEF Verify, GuardInv
  <1>2. job[t].at \in BusyAt /\ t \in BusyIn(job)
    BY <1>1 DEF BusyIn, BusyAt
  <1>3. CASE Sound(job[t])
    <2> DEFINE j == [job[t] EXCEPT !.at = "verified"]
    <2>1. "at" \in DOMAIN j /\ j.at \in BusyAt
      BY <1>1 DEF BusyAt
    <2>2. Becomes(t, j) /\ flight' = flight
      BY <1>3 DEF Verify
    <2>3. flight = TRUE
      BY <1>2 DEF GuardInv
    <2> HIDE DEF j, BusyAt
    <2> QED
      BY <1>2, <2>1, <2>2, <2>3, ThreadWorks
  <1>4. CASE ~Sound(job[t])
    <2>1. "at" \in DOMAIN Idle /\ Idle.at \notin BusyAt
      BY DEF Idle, BusyAt
    <2>2. Becomes(t, Idle) /\ flight' = FALSE
      BY <1>4 DEF Verify, Released
    <2> QED
      BY <1>2, <2>1, <2>2, ThreadRests
  <1> QED
    BY <1>3, <1>4

\* After the splice the guard is free, whether the branch was taken or not.
LEMMA SpliceGuard ==
    ASSUME GuardInv, NEW t \in Threads, Splice(t) PROVE GuardInv'
  <1>1. job[t].at \in BusyAt
    BY DEF Splice, BusyAt
  <1>2. "at" \in DOMAIN Idle /\ Idle.at \notin BusyAt
    BY DEF Idle, BusyAt
  <1>3. Becomes(t, Idle) /\ flight' = FALSE
    BY DEF Splice, Released
  <1> QED
    BY <1>1, <1>2, <1>3, ThreadRests

\* Initially no thread does anything.
LEMMA GuardInit == Init => GuardInv
  <1>1. "at" \in DOMAIN Idle /\ Idle.at \notin BusyAt
    BY DEF Idle, BusyAt
  <1> QED
    BY <1>1 DEF Init, GuardInv, BusyIn

\* Every step keeps the guard with the thread that verifies.
LEMMA GuardStep == GuardInv /\ [Next]_vars => GuardInv'
  <1> SUFFICES ASSUME GuardInv, [Next]_vars PROVE GuardInv'
    OBVIOUS
  <1>1. ASSUME NEW p \in Peers, PeerMoves(p) PROVE GuardInv'
    BY <1>1, ThreadsStay DEF PeerMoves
  <1>2. ASSUME NEW p \in Peers, SessionStep(p) PROVE GuardInv'
    BY <1>2, HearGuard, AnswerGuard, VerifyGuard, SpliceGuard, ThreadsOf DEF SessionStep
  <1>3. ASSUME NEW p \in Peers, Reconnect(p) PROVE GuardInv'
    BY <1>3, ThreadsStay DEF Reconnect
  <1>4. ASSUME NEW p \in Peers, NEW b \in Blocks, Receive(p, b) PROVE GuardInv'
    BY <1>4, ReceiveGuard
  <1>5. ASSUME NEW p \in Outbound, FetcherStep(p) PROVE GuardInv'
    BY <1>5, StartFetchGuard, PullGuard, ProbeGuard, PrepareGuard, FetchBranchGuard,
       VerifyGuard, SpliceGuard, FetcherOf DEF FetcherStep
  <1>6. ASSUME NEW p \in Outbound, FetchFails(p) PROVE GuardInv'
    BY <1>6, FetchFailsGuard
  <1>7. CASE Template \/ Mined
    BY <1>7, ThreadsStay DEF Template, Mined
  <1>8. CASE UNCHANGED vars
    BY <1>8, ThreadsStay DEF vars
  <1> QED
    BY <1>1, <1>2, <1>3, <1>4, <1>5, <1>6, <1>7, <1>8 DEF Next

\* At most one thread verifies a branch, and reorg_in_flight is set exactly while one
\* does: on every way out of a verification the guard is dropped.
THEOREM OneVerification == Spec => []FlightIsOneThread
  <1>1. GuardInv => FlightIsOneThread
    <2> SUFFICES ASSUME GuardInv PROVE FlightIsOneThread
      OBVIOUS
    <2>1. Cardinality(BusyIn(job)) = IF flight THEN 1 ELSE 0
      BY FS_EmptySet, FS_Singleton DEF GuardInv
    <2> QED
      BY <2>1 DEF FlightIsOneThread, BusyIn, BusyAt
  <1> QED
    BY <1>1, GuardInit, GuardStep, PTL DEF Spec

-----------------------------------------------------------------------------
(* What the node keeps, step by step *)

\* The branch leaves the chain it was measured against within the reorg depth.
Departs(j) ==
    j.base \in Blocks /\ j.root \in Ancestors[j.base] /\ Height[j.base] - Height[j.root] <= MaxReorg

\* What a thread has in its hands is what it was given.
JobOK(j) ==
    /\ "at" \in DOMAIN j
    /\ j.at = "pulling" => "from" \in DOMAIN j /\ j.from \in Nat
    /\ j.at \in {"pulling", "forked", "probed", "fetching"} => j.theirs \in Blocks
    /\ j.at = "probed" => j.fork \in Nat
    /\ j.at \in {"fetching", "verifying", "verified"} => Departs(j)
    /\ j.at \in {"verifying", "verified"} =>
          IsPage(j.suffix) /\ j.suffix # <<>> /\ j.suffix[1] # Genesis
    /\ j.at = "verified" => Parent[j.suffix[1]] = j.root

\* Every thread has a proper task.
JobsOK == \A t \in Threads : JobOK(job[t])

\* The rest of what the node keeps is in order.
StateOK ==
    /\ tip \in Blocks /\ cursor \in Nat
    /\ peer \in [Peers -> Blocks \ Own] /\ said \in [Peers -> Nat]
    /\ asked \in [Peers -> Seq(Nat)]
    /\ IsBuffer(buffer) /\ IsBranch(branch)

\* The inductive invariant.
NodeInv == GuardInv /\ StateOK /\ JobsOK

\* No more than the last MaxReorg blocks of t are not in the chain of u.
Shallow(t, u) == Height[t] - Height[Fork[t][u]] <= MaxReorg

\* The chain stays, or becomes a heavier one without a block of our own on top.
Heavier(t, u) ==
    u \in Blocks /\ (u # t => u \notin Own /\ TotalWork[u] > TotalWork[t] /\ Shallow(t, u))

\* What every step but mining is.
GoodStep == StateOK' /\ JobsOK' /\ Heavier(tip, tip')

\* A thread that gets a proper task leaves all tasks proper.
LEMMA JobsAfter ==
    ASSUME NodeInv, NEW t \in Threads, NEW j, JobOK(j), Becomes(t, j) PROVE JobsOK'
  <1>1. GuardInv
    BY DEF NodeInv
  <1>2. job'[t] = j /\ \A u \in Threads \ {t} : job'[u] = job[u]
    BY <1>1, Threading
  <1>3. \A u \in Threads : JobOK(job[u])
    BY DEF NodeInv, JobsOK
  <1>4. \A u \in Threads : JobOK(job'[u])
    BY <1>2, <1>3
  <1> QED
    BY <1>4 DEF JobsOK

\* Steps that touch no thread.
LEMMA JobsStay == ASSUME NodeInv, UNCHANGED job PROVE JobsOK'
  BY DEF NodeInv, JobsOK

\* An idle thread has nothing in its hands.
LEMMA IdleOK == JobOK(Idle)
  BY DEF JobOK, Idle

\* A thread that is started has nothing in its hands.
LEMMA KicksJobs == ASSUME NodeInv, NEW p \in Peers, Kicks(p) PROVE JobsOK'
  <1>1. JobOK([at |-> "starting"])
    BY DEF JobOK
  <1>2. \/ UNCHANGED job
        \/ p \in Outbound /\ Becomes(Fetcher(p), [at |-> "starting"])
    BY DEF Kicks, Becomes
  <1> QED
    BY <1>1, <1>2, FetcherOf, JobsAfter, JobsStay

\* A common block within the reorg depth makes a change of chain shallow.
LEMMA ShallowIf ==
    ASSUME NEW t \in Blocks, NEW u \in Blocks, NEW c \in Ancestors[t] \cap Ancestors[u],
           Height[t] - Height[c] <= MaxReorg
    PROVE  Shallow(t, u)
  <1>1. c \in Blocks /\ Fork[t][u] \in Blocks
    BY AncestorsAre, ForkIs
  <1>2. Height[c] \in Nat /\ Height[t] \in Nat /\ Height[Fork[t][u]] \in Nat /\ MaxReorg \in Nat
    BY <1>1, HeightIs, NodeSyncAssumption
  <1>3. Height[c] <= Height[Fork[t][u]]
    BY ForkIs
  <1> QED
    BY <1>2, <1>3 DEF Shallow

\* A chain that keeps all of ours gives up nothing.
LEMMA ShallowAbove ==
    ASSUME NEW t \in Blocks, NEW u \in Blocks, Ancestors[t] \subseteq Ancestors[u]
    PROVE  Shallow(t, u)
  <1>1. t \in Ancestors[t] \cap Ancestors[u]
    BY AncestorsAre
  <1>2. Height[t] - Height[t] <= MaxReorg
    BY HeightIs, NodeSyncAssumption
  <1> QED
    BY <1>1, <1>2, ShallowIf

\* A chain that is continued gets heavier and gives up nothing.
LEMMA ContinuesIsHeavier == \A t \in Blocks : \A u : Continues(t, u) => Heavier(t, u)
  BY ShallowAbove DEF Continues, Heavier

\* A good step, handler by handler: a peer gets a heavier chain.
LEMMA PeerMovesGood == ASSUME NodeInv, NEW p \in Peers, PeerMoves(p) PROVE GoodStep
  <1>1. PICK i \in 1..(Len(Tips[p]) - 1) : peer' = [peer EXCEPT ![p] = Tips[p][i + 1]]
    BY DEF PeerMoves
  <1>2. Tips[p] \in Seq(Blocks \ Own)
    BY NodeSyncAssumption
  <1>3. Len(Tips[p]) \in Nat
    BY <1>2, LenProperties
  <1>4. i + 1 \in 1..Len(Tips[p])
    BY <1>3
  <1>5. Tips[p][i + 1] \in Blocks \ Own
    BY <1>2, <1>4, ElementOfSeq
  <1>6. peer' \in [Peers -> Blocks \ Own]
    BY <1>1, <1>5 DEF NodeInv, StateOK
  <1>7. StateOK' /\ Heavier(tip, tip')
    BY <1>6 DEF NodeInv, StateOK, PeerMoves, Heavier
  <1>8. JobsOK'
    BY JobsStay DEF PeerMoves
  <1> QED
    BY <1>7, <1>8 DEF GoodStep

\* What a peer says of its height is a height.
LEMMA HeightOfPeer ==
    ASSUME NodeInv, NEW p \in Peers
    PROVE  peer[p] \in Blocks \ Own /\ Height[peer[p]] \in Nat
  <1>1. peer[p] \in Blocks \ Own
    BY DEF NodeInv, StateOK
  <1> QED
    BY <1>1, HeightIs

\* A page is asked for by its height.
LEMMA AskIs ==
    ASSUME NodeInv, NEW p \in Peers, NEW c, c.from \in Nat, c.cursor \in Nat, Ask(p, c)
    PROVE  asked' \in [Peers -> Seq(Nat)] /\ cursor' \in Nat
  <1>1. asked[p] \in Seq(Nat) /\ asked \in [Peers -> Seq(Nat)]
    BY DEF NodeInv, StateOK
  <1>2. Append(asked[p], c.from) \in Seq(Nat)
    BY <1>1, AppendProperties
  <1> QED
    BY <1>1, <1>2 DEF Ask

\* A status.
LEMMA HearGood == ASSUME NodeInv, NEW p \in Peers, Hear(p) PROVE GoodStep
  <1>1. said' \in [Peers -> Nat]
    BY HeightOfPeer DEF Hear, NodeInv, StateOK
  <1>2. asked' \in [Peers -> Seq(Nat)] /\ cursor' \in Nat /\ JobsOK'
    <2>1. CASE Ask(p, Claim(tip, cursor)) /\ UNCHANGED job
      <3>1. Claim(tip, cursor).from \in Nat /\ Claim(tip, cursor).cursor \in Nat
        BY ClaimIs DEF NodeInv, StateOK
      <3> QED
        BY <2>1, <3>1, AskIs, JobsStay
    <2>2. CASE UNCHANGED <<asked, cursor>> /\ (Kicks(p) \/ UNCHANGED job)
      BY <2>2, KicksJobs, JobsStay DEF NodeInv, StateOK
    <2> QED
      BY <2>1, <2>2 DEF Hear
  <1>3. UNCHANGED <<tip, buffer, branch, peer>>
    BY DEF Hear, PeersKept
  <1>4. StateOK' /\ Heavier(tip, tip')
    BY <1>1, <1>2, <1>3 DEF NodeInv, StateOK, Heavier
  <1> QED
    BY <1>2, <1>4 DEF GoodStep

\* A page of blocks, and what is asked for next.
LEMMA AnswerGood == ASSUME NodeInv, NEW p \in Peers, Answer(p) PROVE GoodStep
  <1>1. asked[p] \in Seq(Nat) /\ asked[p] # <<>> /\ asked \in [Peers -> Seq(Nat)]
    BY DEF Answer, NodeInv, StateOK
  <1>2. Head(asked[p]) \in Nat /\ Tail(asked[p]) \in Seq(Nat)
    BY <1>1, HeadTailProperties
  <1> DEFINE full == BlocksFrom(peer[p], Head(asked[p]), Page)
             page(n) == SubSeq(full, 1, n)
  <1>3. IsPage(full)
    <2>1. Page \in Int
      BY NodeSyncAssumption
    <2> QED
      BY <1>2, <2>1, HeightOfPeer, BlocksFromIsPage
  <1> HIDE DEF full
  <1>4. PICK n \in 0..Page :
          LET taken  == Taken(page(n))
              behind == said[p] >= Needed(taken.tip)
              claim  == IF taken.outcome = "applied" /\ n < Page
                        THEN Claim(taken.tip, Needed(taken.tip))
                        ELSE Claim(taken.tip, taken.cursor)
              more   == behind /\ taken.outcome \in {"applied", "buffered"}
              fork   == behind /\ taken.outcome = "rejected"
          IN  /\ n <= Len(full)
              /\ tip' = taken.tip /\ buffer' = taken.buffer
              /\ cursor' = IF more THEN claim.cursor ELSE taken.cursor
              /\ asked' = [asked EXCEPT ![p] = IF more THEN Append(Tail(@), claim.from) ELSE Tail(@)]
              /\ IF fork THEN Kicks(p) ELSE UNCHANGED job
    BY DEF Answer, full
  <1> DEFINE taken == Taken(page(n))
  <1>5. IsPage(page(n))
    <2>1. 1 \in Nat \ {0} /\ n \in Int
      OBVIOUS
    <2> QED
      BY <1>3, <1>4, <2>1, SliceIsPage
  <1> HIDE DEF page
  <1>6. /\ Continues(tip, taken.tip) /\ IsBuffer(taken.buffer) /\ taken.cursor \in Nat
    BY <1>5, TakenIs DEF NodeInv, StateOK
  <1> HIDE DEF taken
  <1>7. taken.tip \in Blocks /\ Needed(taken.tip) \in Nat
    BY <1>6, HeightIs DEF Continues, Needed
  <1>8. ASSUME NEW c \in Nat
        PROVE  Claim(taken.tip, c).from \in Nat /\ Claim(taken.tip, c).cursor \in Nat
    BY <1>7, ClaimIs
  <1>9. PICK claim : /\ claim.from \in Nat /\ claim.cursor \in Nat
                     /\ cursor' \in {claim.cursor, taken.cursor}
                     /\ \/ asked' = [asked EXCEPT ![p] = Append(Tail(@), claim.from)]
                        \/ asked' = [asked EXCEPT ![p] = Tail(@)]
    BY <1>4, <1>6, <1>7, <1>8 DEF taken
  <1>10. asked' \in [Peers -> Seq(Nat)] /\ cursor' \in Nat
    <2>1. Append(Tail(asked[p]), claim.from) \in Seq(Nat)
      BY <1>2, <1>9, AppendProperties
    <2>2. asked' \in [Peers -> Seq(Nat)]
      BY <1>1, <1>2, <1>9, <2>1
    <2> QED
      BY <1>6, <1>9, <2>2
  <1>11. JobsOK'
    BY <1>4, KicksJobs, JobsStay
  <1>12. tip' = taken.tip /\ buffer' = taken.buffer /\ UNCHANGED <<branch, peer, said>>
    BY <1>4 DEF Answer, PeersKept, taken
  <1>13. StateOK'
    BY <1>6, <1>7, <1>10, <1>12 DEF NodeInv, StateOK
  <1>14. Heavier(tip, tip')
    BY <1>6, <1>12, ContinuesIsHeavier DEF NodeInv, StateOK
  <1> QED
    BY <1>11, <1>13, <1>14 DEF GoodStep

\* A session that is lost and dialled again.
LEMMA ReconnectGood == ASSUME NodeInv, NEW p \in Peers, Reconnect(p) PROVE GoodStep
  <1>1. said' \in [Peers -> Nat]
    BY HeightOfPeer DEF Reconnect, NodeInv, StateOK
  <1>2. asked' \in [Peers -> Seq(Nat)] /\ cursor' \in Nat
    <2>1. Claim(tip, cursor).from \in Nat /\ Claim(tip, cursor).cursor \in Nat
      BY ClaimIs DEF NodeInv, StateOK
    <2>2. /\ asked' \in {[asked EXCEPT ![p] = <<Claim(tip, cursor).from>>], [asked EXCEPT ![p] = <<>>]}
          /\ cursor' \in {cursor, Claim(tip, cursor).cursor}
      BY DEF Reconnect
    <2> DEFINE from == Claim(tip, cursor).from
    <2>3. <<from>> \in Seq(Nat)
      BY <2>1
    <2> HIDE DEF from
    <2>4. <<>> \in Seq(Nat) /\ asked \in [Peers -> Seq(Nat)] /\ cursor \in Nat
      BY DEF NodeInv, StateOK
    <2>5. asked' \in [Peers -> Seq(Nat)]
      BY <2>2, <2>3, <2>4 DEF from
    <2> QED
      BY <2>1, <2>2, <2>4, <2>5
  <1>3. UNCHANGED <<tip, buffer, branch, peer, job>>
    BY DEF Reconnect
  <1>4. StateOK' /\ Heavier(tip, tip')
    BY <1>1, <1>2, <1>3 DEF NodeInv, StateOK, Heavier
  <1> QED
    BY <1>3, <1>4, JobsStay DEF GoodStep

\* The branch buffer with one more block, emptied before or not.
LEMMA KeepsIs ==
    ASSUME NodeInv, NEW b \in Blocks \ ({Genesis} \cup Own) PROVE IsBranch(Keeps(b))
  <1> DEFINE kept == IF Cardinality(DOMAIN branch) >= BranchCap THEN <<>> ELSE branch
  <1>1. IsBranch(kept)
    BY DEF NodeInv, StateOK, IsBranch
  <1>2. Parent[b] \in Blocks
    BY NodeSyncAssumption
  <1>3. Keeps(b) = With(kept, Parent[b], b)
    BY DEF Keeps
  <1> HIDE DEF kept
  <1> QED
    BY <1>1, <1>2, <1>3 DEF IsBranch, With

\* consider_branch: what is verified departs from the chain within the reorg depth.
LEMMA ConsiderGood ==
    ASSUME NodeInv, NEW p \in Peers, NEW b \in Blocks \ ({Genesis} \cup Own), ConsiderBranch(p, b)
    PROVE  IsBranch(branch') /\ JobsOK' /\ UNCHANGED tip
  <1> DEFINE kept == Keeps(b)
             roots == {a \in DOMAIN kept : a \in Ancestors[tip]}
             root == CHOOSE a \in roots : \A c \in roots : Height[c] <= Height[a]
             deep == Height[tip] - Height[root] > MaxReorg
             j == [at |-> "verifying", base |-> tip, root |-> root, suffix |-> Walk(root, kept)]
  <1>1. IsBranch(kept)
    BY KeepsIs
  <1>2. /\ branch' = kept /\ UNCHANGED tip
        /\ UNCHANGED job \/ (roots # {} /\ ~deep /\ Becomes(Session(p), j))
    BY DEF ConsiderBranch
  <1> HIDE DEF kept
  <1>3. CASE UNCHANGED job
    BY <1>1, <1>2, <1>3, JobsStay
  <1>4. CASE roots # {} /\ ~deep /\ Becomes(Session(p), j)
    <2>1. roots \in SUBSET Blocks /\ tip \in Blocks
      BY <1>1 DEF IsBranch, NodeInv, StateOK
    <2>2. \E a \in roots : \A c \in roots : Height[c] <= Height[a]
      BY <1>4, <2>1, Highest
    <2>3. root \in roots
      BY <2>2
    <2>4. root \in DOMAIN kept /\ root \in Ancestors[tip] /\ root \in Blocks
      BY <2>1, <2>3
    <2> HIDE DEF root
    <2>5. Follows(root, Walk(root, kept)) /\ Walk(root, kept) # <<>>
      BY <1>1, <2>4, WalkIs
    <2>6. Height[tip] - Height[root] <= MaxReorg
      <3>1. Height[tip] \in Nat /\ Height[root] \in Nat /\ MaxReorg \in Nat
        BY <2>1, <2>4, HeightIs, NodeSyncAssumption
      <3> QED
        BY <1>4, <3>1
    <2>7. /\ j.at = "verifying" /\ j.base = tip /\ j.root = root
          /\ j.suffix = Walk(root, kept) /\ "at" \in DOMAIN j
      OBVIOUS
    <2> HIDE DEF j
    <2>8. JobOK(j)
      BY <2>1, <2>4, <2>5, <2>6, <2>7 DEF JobOK, Departs, Follows
    <2>9. JobsOK'
      BY <1>4, <2>8, ThreadsOf, JobsAfter
    <2> QED
      BY <1>1, <1>2, <2>9
  <1> QED
    BY <1>2, <1>3, <1>4

\* A block that is announced or pushed.
LEMMA ReceiveGood == ASSUME NodeInv, NEW p \in Peers, NEW b \in Blocks, Receive(p, b) PROVE GoodStep
  <1>1. b \in Blocks \ ({Genesis} \cup Own)
    <2>1. b \in Ancestors[peer[p]] /\ b # Genesis
      BY DEF Receive
    <2>2. peer[p] \in Blocks \ Own /\ IsPath(Path[peer[p]], peer[p])
      BY HeightOfPeer, PathShape
    <2>3. Path[peer[p]] \in Seq(Blocks)
      BY <2>2 DEF IsPath, IsRun
    <2>4. PICK i \in DOMAIN Path[peer[p]] : b = Path[peer[p]][i]
      BY <2>1, <2>2 DEF Ancestors, ToSet
    <2>5. i \in 1..Len(Path[peer[p]])
      BY <2>3, <2>4, LenProperties
    <2> QED
      BY <2>1, <2>2, <2>4, <2>5 DEF IsPath
  <1>2. UNCHANGED <<peer, cursor, buffer, said, asked>>
    BY DEF Receive, PeersKept
  <1>3. IsBranch(branch') /\ JobsOK' /\ Heavier(tip, tip')
    <2>1. CASE Ingested(tip, <<b>>) = b /\ tip' = b /\ branch' = <<>> /\ UNCHANGED job
      <3>1. IsPage(<<b>>)
        BY <1>1 DEF IsPage, IsRun
      <3>2. Continues(tip, tip')
        BY <2>1, <3>1, IngestedContinues DEF NodeInv, StateOK
      <3>3. IsBranch(branch')
        BY <2>1 DEF IsBranch
      <3> QED
        BY <2>1, <3>2, <3>3, ContinuesIsHeavier, JobsStay DEF NodeInv, StateOK
    <2>2. CASE ConsiderBranch(p, b)
      BY <1>1, <2>2, ConsiderGood DEF Heavier, NodeInv, StateOK
    <2> QED
      BY <2>1, <2>2 DEF Receive
  <1>4. tip' \in Blocks
    BY <1>3 DEF Heavier
  <1>5. StateOK'
    BY <1>2, <1>3, <1>4 DEF NodeInv, StateOK
  <1> QED
    BY <1>3, <1>5 DEF GoodStep

\* The steps of a fetching thread leave the sessions alone.
LEMMA FetchKeepsState ==
    ASSUME NodeInv, FetchKeeps, Heavier(tip, tip'), JobsOK' PROVE GoodStep
  <1>1. tip' \in Blocks
    BY DEF Heavier
  <1>2. StateOK'
    BY <1>1 DEF NodeInv, StateOK, FetchKeeps, PeersKept
  <1> QED
    BY <1>2 DEF GoodStep

\* A chain that stays is as good as it was.
LEMMA TipStays == ASSUME NodeInv, UNCHANGED tip PROVE Heavier(tip, tip')
  BY DEF NodeInv, StateOK, Heavier

\* The handshake of a fetching thread.
LEMMA StartFetchGood == ASSUME NodeInv, NEW p \in Outbound, StartFetch(p) PROVE GoodStep
  <1> DEFINE j == [at |-> "pulling", theirs |-> peer[p], from |-> Needed(tip)]
  <1>1. peer[p] \in Blocks /\ Needed(tip) \in Nat
    BY HeightIs DEF NodeInv, StateOK, Needed, Peers
  <1>2. JobOK(j)
    BY <1>1 DEF JobOK
  <1>3. Becomes(Fetcher(p), Idle) \/ Becomes(Fetcher(p), j)
    BY DEF StartFetch
  <1> HIDE DEF j
  <1>4. JobsOK'
    BY <1>2, <1>3, FetcherOf, IdleOK, JobsAfter
  <1>5. FetchKeeps /\ UNCHANGED tip
    BY DEF StartFetch
  <1> QED
    BY <1>4, <1>5, TipStays, FetchKeepsState

\* Pages pulled by a fetching thread.
LEMMA PullGood == ASSUME NodeInv, NEW p \in Outbound, Pull(p) PROVE GoodStep
  <1> DEFINE j == job[Fetcher(p)]
             page == BlocksFrom(peer[p], j.from, Page)
             grown == Ingested(tip, page)
             forked == [at |-> "forked", theirs |-> j.theirs]
  <1>1. j.at = "pulling" /\ JobOK(j)
    BY FetcherOf DEF Pull, NodeInv, JobsOK
  <1>2. j.from \in Nat /\ j.theirs \in Blocks /\ "at" \in DOMAIN j /\ "from" \in DOMAIN j
    BY <1>1 DEF JobOK
  <1>3. IsPage(page)
    <2>1. Page \in Int /\ p \in Peers
      BY NodeSyncAssumption DEF Peers
    <2> QED
      BY <1>2, <2>1, HeightOfPeer, BlocksFromIsPage
  <1>4. tip' = grown /\ FetchKeeps
    BY DEF Pull
  <1>5. Continues(tip, grown)
    BY <1>3, IngestedContinues DEF NodeInv, StateOK
  <1>6. \/ Becomes(Fetcher(p), Idle) \/ Becomes(Fetcher(p), forked)
        \/ Becomes(Fetcher(p), [j EXCEPT !.from = j.from + Len(page)])
    BY DEF Pull
  <1>7. JobOK(forked)
    BY <1>2 DEF JobOK
  <1>8. JobOK([j EXCEPT !.from = j.from + Len(page)])
    <2>1. Len(page) \in Nat
      BY <1>3, LenProperties DEF IsPage, IsRun
    <2> DEFINE n == j.from + Len(page)
               k == [j EXCEPT !.from = n]
    <2>2. n \in Nat
      BY <1>2, <2>1
    <2> HIDE DEF n
    <2>3. k.at = "pulling" /\ k.theirs = j.theirs /\ k.from = n /\ DOMAIN k = DOMAIN j
      BY <1>1, <1>2
    <2> HIDE DEF k
    <2>4. JobOK(k)
      BY <1>2, <2>2, <2>3 DEF JobOK
    <2> QED
      BY <2>4 DEF k, n
  <1> HIDE DEF forked
  <1>9. JobsOK'
    BY <1>6, <1>7, <1>8, FetcherOf, IdleOK, JobsAfter
  <1> QED
    BY <1>4, <1>5, <1>9, ContinuesIsHeavier, FetchKeepsState DEF NodeInv, StateOK

\* The search for the last common block finds a height.
LEMMA ProbeGood == ASSUME NodeInv, NEW p \in Outbound, Probe(p) PROVE GoodStep
  <1> DEFINE j == [at |-> "probed", theirs |-> job[Fetcher(p)].theirs, fork |-> Height[Fork[tip][peer[p]]]]
  <1>1. job[Fetcher(p)].theirs \in Blocks
    BY FetcherOf DEF Probe, NodeInv, JobsOK, JobOK
  <1>2. Height[Fork[tip][peer[p]]] \in Nat
    <2>1. tip \in Blocks /\ peer[p] \in Blocks
      BY DEF NodeInv, StateOK, Peers
    <2>2. Fork[tip][peer[p]] \in Blocks
      BY <2>1, ForkIs
    <2> QED
      BY <2>2, HeightIs
  <1>3. JobOK(j)
    BY <1>1, <1>2 DEF JobOK
  <1>4. Becomes(Fetcher(p), j) /\ FetchKeeps /\ UNCHANGED tip
    BY DEF Probe
  <1> HIDE DEF j
  <1>5. JobsOK'
    BY <1>3, <1>4, FetcherOf, JobsAfter
  <1> QED
    BY <1>4, <1>5, TipStays, FetchKeepsState

\* Under the lock again: the root is looked up in, and the depth measured against, the chain as it is now.
LEMMA PrepareGood == ASSUME NodeInv, NEW p \in Outbound, Prepare(p) PROVE GoodStep
  <1> DEFINE k == job[Fetcher(p)]
             j == [at |-> "fetching", base |-> tip, root |-> Path[tip][k.fork + 1], theirs |-> k.theirs]
  <1>1. k.at = "probed" /\ JobOK(k)
    BY FetcherOf DEF Prepare, NodeInv, JobsOK
  <1>2. k.fork \in Nat /\ k.theirs \in Blocks
    BY <1>1 DEF JobOK
  <1>3. FetchKeeps /\ UNCHANGED tip
    BY DEF Prepare
  <1> DEFINE far == k.fork > Height[tip] \/ Height[tip] - k.fork > MaxReorg
  <1>4. Becomes(Fetcher(p), Idle) \/ (~far /\ Becomes(Fetcher(p), j))
    BY DEF Prepare
  <1>5. CASE Becomes(Fetcher(p), Idle)
    BY <1>3, <1>5, FetcherOf, IdleOK, JobsAfter, TipStays, FetchKeepsState
  <1>6. CASE ~far /\ Becomes(Fetcher(p), j)
    <2> DEFINE root == Path[tip][k.fork + 1]
    <2>1. tip \in Blocks /\ Height[tip] \in Nat /\ MaxReorg \in Nat
      BY HeightIs, NodeSyncAssumption DEF NodeInv, StateOK
    <2>2. IsPath(Path[tip], tip) /\ Height[tip] = Len(Path[tip]) - 1
      BY <2>1, PathShape DEF Height
    <2>3. Len(Path[tip]) \in Nat
      BY <2>2, LenProperties DEF IsPath, IsRun
    <2>4. k.fork + 1 \in 1..Len(Path[tip]) /\ Height[tip] - k.fork <= MaxReorg
      BY <1>2, <1>6, <2>1, <2>2, <2>3
    <2>5. root \in Ancestors[tip] /\ Height[root] = (k.fork + 1) - 1
      BY <2>1, <2>4, AncestorsAre, PathHeights
    <2>6. (k.fork + 1) - 1 = k.fork
      BY <1>2
    <2>7. Height[tip] - Height[root] <= MaxReorg
      BY <2>4, <2>5, <2>6
    <2>8. /\ j.at = "fetching" /\ j.base = tip /\ j.root = root /\ j.theirs = k.theirs
          /\ "at" \in DOMAIN j
      OBVIOUS
    <2> HIDE DEF j, root
    <2>9. JobOK(j)
      BY <1>2, <2>1, <2>5, <2>7, <2>8 DEF JobOK, Departs
    <2> QED
      BY <1>3, <1>6, <2>9, FetcherOf, JobsAfter, TipStays, FetchKeepsState
  <1> QED
    BY <1>4, <1>5, <1>6

\* The last block of a page is one that a peer has.
LEMMA LastOfPage == ASSUME NEW x, IsPage(x), x # <<>> PROVE Last(x) \in Blocks \ Own
  <1>1. x \in Seq(Blocks) /\ Len(x) \in Nat /\ Len(x) # 0
    BY LenProperties, EmptySeq DEF IsPage, IsRun
  <1>2. Len(x) \in 1..Len(x)
    BY <1>1
  <1> QED
    BY <1>1, <1>2, ElementOfSeq DEF IsPage, Last

\* The branch that is fetched is a page above the root.
LEMMA FetchBranchGood == ASSUME NodeInv, NEW p \in Outbound, FetchBranch(p) PROVE GoodStep
  <1> DEFINE k == job[Fetcher(p)]
             suffix == BlocksFrom(peer[p], Height[k.root] + 1, Height[k.theirs] - Height[k.root])
             j == [at |-> "verifying", base |-> k.base, root |-> k.root, suffix |-> suffix]
  <1>1. k.at = "fetching" /\ JobOK(k)
    BY FetcherOf DEF FetchBranch, NodeInv, JobsOK
  <1>2. Departs(k) /\ k.theirs \in Blocks /\ k.root \in Blocks
    BY <1>1, AncestorsAre DEF JobOK, Departs
  <1>3. FetchKeeps /\ UNCHANGED tip
    BY DEF FetchBranch
  <1>4. Becomes(Fetcher(p), Idle) \/ (suffix # <<>> /\ Becomes(Fetcher(p), j))
    BY DEF FetchBranch
  <1>5. IsPage(suffix) /\ (suffix # <<>> => suffix[1] # Genesis)
    <2>1. /\ Height[k.root] + 1 \in Nat /\ Height[k.root] + 1 > 0
          /\ Height[k.theirs] - Height[k.root] \in Int /\ p \in Peers
      BY <1>2, HeightIs DEF Peers
    <2> QED
      BY <2>1, HeightOfPeer, BlocksFromIsPage
  <1> HIDE DEF suffix
  <1>6. CASE Becomes(Fetcher(p), Idle)
    BY <1>3, <1>6, FetcherOf, IdleOK, JobsAfter, TipStays, FetchKeepsState
  <1>7. CASE suffix # <<>> /\ Becomes(Fetcher(p), j)
    <2>1. /\ j.at = "verifying" /\ j.base = k.base /\ j.root = k.root
          /\ j.suffix = suffix /\ "at" \in DOMAIN j
      OBVIOUS
    <2> HIDE DEF j, k
    <2>2. JobOK(j)
      BY <1>2, <1>5, <1>7, <2>1 DEF JobOK, Departs
    <2> QED
      BY <1>3, <1>7, <2>2, FetcherOf, JobsAfter, TipStays, FetchKeepsState
  <1> QED
    BY <1>4, <1>6, <1>7

\* A broken connection ends the thread.
LEMMA FetchFailsGood == ASSUME NodeInv, NEW p \in Outbound, FetchFails(p) PROVE GoodStep
  <1>1. JobsOK'
    BY FetcherOf, IdleOK, JobsAfter DEF FetchFails
  <1>2. StateOK' /\ Heavier(tip, tip')
    BY DEF FetchFails, NodeInv, StateOK, Heavier
  <1> QED
    BY <1>1, <1>2 DEF GoodStep

\* finish_suffix: what is sound starts at the root.
LEMMA VerifyGood == ASSUME NodeInv, NEW t \in Threads, Verify(t) PROVE GoodStep
  <1> DEFINE k == job[t]
             j == [k EXCEPT !.at = "verified"]
  <1>1. k.at = "verifying" /\ JobOK(k)
    BY DEF Verify, NodeInv, JobsOK
  <1>2. "at" \in DOMAIN k
    BY <1>1 DEF JobOK
  <1>3. /\ j.at = "verified" /\ j.suffix = k.suffix /\ j.base = k.base /\ j.root = k.root
        /\ DOMAIN j = DOMAIN k
    BY <1>2
  <1>4. Becomes(t, Idle) \/ (Becomes(t, j) /\ Parent[k.suffix[1]] = k.root)
    BY DEF Verify, Sound
  <1> HIDE DEF k, j
  <1>5. Parent[k.suffix[1]] = k.root => JobOK(j)
    BY <1>1, <1>2, <1>3 DEF JobOK, Departs
  <1>6. JobsOK'
    BY <1>4, <1>5, IdleOK, JobsAfter
  <1>7. StateOK' /\ Heavier(tip, tip')
    BY DEF Verify, PeersKept, NodeInv, StateOK, Heavier
  <1> QED
    BY <1>6, <1>7 DEF GoodStep

\* splice_suffix: the base has not moved, so the depth measured under the other lock still holds.
LEMMA SpliceGood == ASSUME NodeInv, NEW t \in Threads, Splice(t) PROVE GoodStep
  <1> DEFINE k == job[t]
             new == Last(k.suffix)
  <1>1. k.at = "verified" /\ JobOK(k)
    BY DEF Splice, NodeInv, JobsOK
  <1>2. /\ Departs(k) /\ IsPage(k.suffix) /\ k.suffix # <<>>
        /\ k.suffix[1] # Genesis /\ Parent[k.suffix[1]] = k.root
    BY <1>1 DEF JobOK
  <1>3. new \in Blocks \ Own
    BY <1>2, LastOfPage
  <1>4. JobsOK'
    BY IdleOK, JobsAfter DEF Splice
  <1>5. branch' = <<>> \/ branch' = branch
    BY DEF Splice
  <1>6. IsBranch(branch')
    BY <1>5 DEF NodeInv, StateOK, IsBranch
  <1>7. tip' = tip \/ (tip' = new /\ tip = k.base /\ TotalWork[new] > TotalWork[tip])
    BY DEF Splice, Fits
  <1>8. tip = k.base => Shallow(tip, new)
    <2>1. k.root \in Blocks /\ k.root \in Ancestors[k.root]
      BY <1>2, AncestorsAre DEF Departs
    <2>2. Ingested(k.root, k.suffix) = new
      BY <1>2 DEF Ingested
    <2>3. k.root \in Ancestors[new]
      BY <1>2, <2>1, <2>2, IngestedContinues DEF Continues
    <2> QED
      BY <1>2, <1>3, <2>3, ShallowIf DEF Departs
  <1> HIDE DEF new, k
  <1>9. Heavier(tip, tip')
    BY <1>3, <1>7, <1>8 DEF Heavier, NodeInv, StateOK
  <1>10. StateOK'
    BY <1>6, <1>9 DEF Splice, PeersKept, NodeInv, StateOK, Heavier
  <1> QED
    BY <1>4, <1>9, <1>10 DEF GoodStep

\* The invariant holds initially.
LEMMA NodeInit == Init => NodeInv
  <1> SUFFICES ASSUME Init PROVE NodeInv
    OBVIOUS
  <1>1. \A p \in Peers : Tips[p] \in Seq(Blocks \ Own) /\ Tips[p] # <<>>
    BY NodeSyncAssumption
  <1>2. \A p \in Peers : Tips[p][1] \in Blocks \ Own
    <2> SUFFICES ASSUME NEW p \in Peers PROVE Tips[p][1] \in Blocks \ Own
      OBVIOUS
    <2>1. Len(Tips[p]) \in Nat \ {0}
      BY <1>1, EmptySeq
    <2>2. 1 \in 1..Len(Tips[p])
      BY <2>1
    <2> QED
      BY <1>1, <2>2, ElementOfSeq
  <1>3. \A p \in Peers : Height[Tips[p][1]] \in Nat
    BY <1>2, HeightIs
  <1>4. peer \in [Peers -> Blocks \ Own] /\ said \in [Peers -> Nat]
    BY <1>2, <1>3 DEF Init
  <1>5. asked \in [Peers -> Seq(Nat)]
    BY EmptySeq DEF Init
  <1>6. IsBuffer(buffer) /\ IsBranch(branch)
    BY DEF Init, IsBuffer, IsBranch
  <1>7. StateOK
    BY <1>4, <1>5, <1>6, NodeSyncAssumption DEF Init, StateOK
  <1>8. JobsOK
    BY IdleOK DEF Init, JobsOK
  <1> QED
    BY <1>7, <1>8, GuardInit DEF NodeInv

\* Mining is the one step that brings a block of our own.
LEMMA MinedIs ==
    ASSUME NodeInv, Mined
    PROVE  /\ StateOK' /\ JobsOK' /\ ~Behind /\ tip' \in Blocks
           /\ TotalWork[tip'] > TotalWork[tip] /\ Shallow(tip, tip')
  <1>1. PICK b \in Own : Parent[b] = tip /\ tip' = b
    BY DEF Mined, MaySubmit
  <1>2. b \in Blocks \ {Genesis}
    BY NodeSyncAssumption
  <1>3. TotalWork[tip'] > TotalWork[tip]
    BY <1>1, <1>2, WorkIs
  <1>4. StateOK'
    BY <1>1, <1>2 DEF Mined, NodeInv, StateOK
  <1>5. Shallow(tip, tip')
    BY <1>1, <1>2, AncestorsBelow, ShallowAbove DEF NodeInv, StateOK
  <1> QED
    BY <1>1, <1>2, <1>3, <1>4, <1>5, JobsStay DEF Mined, MaySubmit

\* Every step but mining is a good one, and mining keeps the state in order.
LEMMA NodeStep ==
    ASSUME NodeInv, [Next]_vars
    PROVE  StateOK' /\ JobsOK' /\ (Mined \/ Heavier(tip, tip'))
  <1>1. ASSUME NEW p \in Peers, PeerMoves(p) PROVE GoodStep
    BY <1>1, PeerMovesGood
  <1>2. ASSUME NEW p \in Peers, SessionStep(p) PROVE GoodStep
    BY <1>2, HearGood, AnswerGood, VerifyGood, SpliceGood, ThreadsOf DEF SessionStep
  <1>3. ASSUME NEW p \in Peers, Reconnect(p) PROVE GoodStep
    BY <1>3, ReconnectGood
  <1>4. ASSUME NEW p \in Peers, NEW b \in Blocks, Receive(p, b) PROVE GoodStep
    BY <1>4, ReceiveGood
  <1>5. ASSUME NEW p \in Outbound, FetcherStep(p) PROVE GoodStep
    BY <1>5, StartFetchGood, PullGood, ProbeGood, PrepareGood, FetchBranchGood,
       VerifyGood, SpliceGood, FetcherOf DEF FetcherStep
  <1>6. ASSUME NEW p \in Outbound, FetchFails(p) PROVE GoodStep
    BY <1>6, FetchFailsGood
  <1>7. CASE Template
    <2>1. StateOK' /\ Heavier(tip, tip') /\ UNCHANGED job
      BY <1>7 DEF Template, NodeInv, StateOK, Heavier
    <2> QED
      BY <2>1, JobsStay
  <1>8. CASE Mined
    BY <1>8, MinedIs
  <1>9. CASE UNCHANGED vars
    <2>1. StateOK' /\ Heavier(tip, tip') /\ UNCHANGED job
      BY <1>9 DEF vars, NodeInv, StateOK, Heavier
    <2> QED
      BY <2>1, JobsStay
  <1>10. CASE GoodStep
    BY <1>10 DEF GoodStep
  <1> QED
    BY <1>1, <1>2, <1>3, <1>4, <1>5, <1>6, <1>7, <1>8, <1>9, <1>10 DEF Next

\* What the node keeps between two locks stays in order: pages in the buffer, blocks in
\* the branch buffer above the block they are kept under, and in the hands of every
\* thread a branch that departs from the chain it was measured against within the
\* reorg depth.
THEOREM NodeInvariant == Spec => []NodeInv
  <1>1. NodeInv /\ [Next]_vars => NodeInv'
    BY NodeStep, GuardStep DEF NodeInv
  <1> QED
    BY <1>1, NodeInit, PTL DEF Spec

\* However the sessions, the fetching threads and the miner interleave, the chain only
\* changes to a heavier one and gives up at most MAX_REORG_DEPTH blocks, although the
\* depth is measured under one lock, the branch verified under none, and the splice
\* done under another.
THEOREM ReorgsAreSound == Spec => ReorgsHeavierAndShallow
  <1>1. ASSUME NodeInv, [Next]_vars
        PROVE  [tip' # tip => /\ TotalWork[tip'] > TotalWork[tip]
                              /\ Height[tip] - Height[Fork[tip][tip']] <= MaxReorg]_vars
    BY <1>1, NodeStep, MinedIs DEF Heavier, Shallow
  <1> QED
    BY <1>1, NodeInvariant, PTL DEF Spec, ReorgsHeavierAndShallow

\* mining_loop adds a block of our own only when no branch is being verified, no fork
\* is known and no peer has told of more blocks.
THEOREM OwnBlocksOnlySettled == Spec => MinesOnlySettled
  <1>1. ASSUME NodeInv, [Next]_vars
        PROVE  [\A b \in Own : tip' = b /\ tip # b =>
                   ~stalled /\ ~flight /\ \A p \in Peers : said[p] <= Height[tip]]_vars
    <2> SUFFICES ASSUME NEW b \in Own, tip' = b, tip # b
                 PROVE  ~stalled /\ ~flight /\ \A p \in Peers : said[p] <= Height[tip]
      OBVIOUS
    <2>1. Mined
      BY <1>1, NodeStep DEF Heavier
    <2>2. ~Behind
      BY <1>1, <2>1, MinedIs
    <2>3. Height[tip] \in Nat /\ \A p \in Peers : said[p] \in Nat
      BY <1>1, HeightIs DEF NodeInv, StateOK
    <2> QED
      BY <2>2, <2>3 DEF Behind
  <1> QED
    BY <1>1, NodeInvariant, PTL DEF Spec, MinesOnlySettled
=============================================================================

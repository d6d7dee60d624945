-------------------------- MODULE ChainStoreProofs --------------------------
(***************************************************************************)
(* The datadir, for every set of blocks, first content of the directory    *)
(* and pruning depth, with killed processes, failing writes and lost       *)
(* writes (SpecFaulty).  Three invariants, each on the ones before it.     *)
(* SafeInv: a record of our own and the headers name verified chains, and  *)
(* a chain that links up to a verified tip is that chain.  StoryInv: how   *)
(* far a save has come.  The metadata is written last, so what it counts   *)
(* is there, and what lies past it is a tail that nobody committed and a   *)
(* start cuts.  ArchiveInv: an archive node finds files it can start on.   *)
(***************************************************************************)
EXTENDS ChainStore, SequenceTheorems, WellFoundedInduction, TLAPS

-----------------------------------------------------------------------------
(* Induction *)

\* A set of natural numbers that is not empty has a least element.
LEMMA Least == \A T \in SUBSET Nat : T # {} => \E x \in T : \A y \in T : x <= y
  <1> SUFFICES ASSUME NEW T \in SUBSET Nat, T # {}
               PROVE \E x \in T : \A y \in T : x <= y
    OBVIOUS
  <1> DEFINE R == OpToRel(<, Nat)
  <1>1. \A x, y \in Nat : <<x, y>> \in R <=> x < y
    BY DEF OpToRel
  <1>2. IsWellFoundedOn(R, Nat)
    BY NatLessThanWellFounded
  <1> HIDE DEF R
  <1>3. PICK x \in T : \A y \in T : ~(<<y, x>> \in R)
    BY <1>2, WFMin
  <1>4. \A y \in T : ~(y < x)
    BY <1>1, <1>3
  <1> QED
    BY <1>4

\* Induction up to n, with the predicate as a set.
LEMMA InductUpTo ==
    ASSUME NEW n \in Nat, NEW S, 0 \in S,
           \A k \in 0..(n - 1) : k \in S => k + 1 \in S
    PROVE  \A k \in 0..n : k \in S
  <1> DEFINE T == {k \in 0..n : k \notin S}
  <1>1. SUFFICES ASSUME T # {} PROVE FALSE
    OBVIOUS
  <1>2. T \in SUBSET Nat
    OBVIOUS
  <1>3. PICK k \in T : \A y \in T : k <= y
    BY <1>1, <1>2, Least
  <1>4. k \in 0..n /\ k \notin S /\ k # 0
    BY <1>3
  <1>5. k - 1 \in 0..(n - 1) /\ (k - 1) + 1 = k /\ ~(k <= k - 1)
    BY <1>4
  <1>6. k - 1 \notin T
    BY <1>3, <1>5
  <1>7. k - 1 \in S
    BY <1>5, <1>6
  <1> QED
    BY <1>4, <1>5, <1>7

-----------------------------------------------------------------------------
(* The length of a file *)

\* What a blocks file may hold.
Records == Seq(Blocks \cup {Junk})

\* A record of either format takes some bytes.
LEMMA RecordIsSome ==
    ASSUME NEW fmt, NEW r \in Blocks \cup {Junk}
    PROVE  RecordBytes(fmt, r) \in Nat \ {0}
  <1>1. CASE r = Junk
    BY <1>1 DEF RecordBytes
  <1>2. CASE r # Junk
    <2>1. Size[r] \in Nat \ {0} /\ JsonBytes \in Nat \ {0}
      BY <1>2, StoreAssumption
    <2> DEFINE a == Size[r]
               b == JsonBytes
    <2>2. b * a \in Nat /\ b * a > 0
      <3>1. a \in Nat \ {0} /\ b \in Nat \ {0}
        BY <2>1
      <3> HIDE DEF a, b
      <3> QED
        BY <3>1
    <2> QED
      BY <1>2, <2>1, <2>2 DEF RecordBytes
  <1> QED
    BY <1>1, <1>2

\* f is the function by which Bytes(fmt, s) is defined.
IsUpTo(f, fmt, s) ==
    f = [n \in 0..Len(s) |-> IF n = 0 THEN 0 ELSE f[n - 1] + RecordBytes(fmt, s[n])]

\* It gives naturals that rise from record to record.
LEMMA UpToRises ==
    ASSUME NEW fmt, NEW s \in Records, NEW f, IsUpTo(f, fmt, s)
    PROVE  /\ \A n \in 0..Len(s) : f[n] \in Nat
           /\ f[0] = 0
           /\ \A n \in 0..(Len(s) - 1) : f[n + 1] > f[n]
  <1> DEFINE S == {n \in 0..Len(s) : f[n] \in Nat}
             m == Len(s)
  <1>1. m \in Nat /\ \A i \in 1..m : s[i] \in Blocks \cup {Junk}
    BY DEF Records
  <1>2. 0 \in 0..m /\ f[0] = 0
    <2>1. 0 \in 0..m
      BY <1>1
    <2> QED
      BY <2>1 DEF IsUpTo
  <1>3. ASSUME NEW n \in 0..(m - 1) PROVE f[n + 1] = f[n] + RecordBytes(fmt, s[n + 1])
    <2>1. n + 1 \in 0..Len(s) /\ n + 1 # 0 /\ (n + 1) - 1 = n
      BY <1>1
    <2> QED
      BY <2>1 DEF IsUpTo
  <1>4. ASSUME NEW n \in 0..(m - 1) PROVE RecordBytes(fmt, s[n + 1]) \in Nat \ {0}
    <2>1. n + 1 \in 1..m
      BY <1>1
    <2> QED
      BY <1>1, <2>1, RecordIsSome
  <1>5. \A n \in 0..m : n \in S
    <2>1. 0 \in S
      BY <1>2
    <2>2. ASSUME NEW n \in 0..(m - 1), n \in S PROVE n + 1 \in S
      <3>1. n + 1 \in 0..m
        BY <1>1
      <3> QED
        BY <1>3, <1>4, <2>2, <3>1
    <2> HIDE DEF S
    <2> QED
      BY <1>1, <2>1, <2>2, InductUpTo
  <1>6. ASSUME NEW n \in 0..(m - 1) PROVE f[n + 1] > f[n]
    <2>1. f[n] \in Nat
      <3>1. n \in 0..m
        BY <1>1
      <3> QED
        BY <1>5, <3>1
    <2> QED
      BY <1>3, <1>4, <2>1
  <1> QED
    BY <1>2, <1>5, <1>6

\* It exists.
LEMMA UpToExists == ASSUME NEW fmt, NEW s \in Records PROVE \E f : IsUpTo(f, fmt, s)
  <1> DEFINE m == Len(s)
             Step(f, n) == IF n = 0 THEN 0 ELSE f[n - 1] + RecordBytes(fmt, s[n])
             S == {k \in 0..m : \E f : f = [n \in 0..k |-> Step(f, n)]}
  <1>1. m \in Nat
    BY DEF Records
  <1>2. 0 \in S
    <2> DEFINE f == [n \in 0..0 |-> 0]
    <2>1. \A n \in 0..0 : Step(f, n) = 0
      OBVIOUS
    <2>2. f = [n \in 0..0 |-> Step(f, n)]
      BY <2>1
    <2> HIDE DEF f, Step
    <2> QED
      BY <1>1, <2>2
  <1>3. ASSUME NEW k \in 0..(m - 1), k \in S PROVE k + 1 \in S
    <2>1. PICK f : f = [n \in 0..k |-> Step(f, n)]
      BY <1>3
    <2> DEFINE g == [n \in 0..(k + 1) |->
                        IF n = k + 1 THEN f[k] + RecordBytes(fmt, s[k + 1]) ELSE f[n]]
    <2>2. ASSUME NEW n \in 0..(k + 1) PROVE g[n] = Step(g, n)
      <3>1. CASE n = k + 1
        <4>1. n # 0 /\ n - 1 = k /\ k \in 0..(k + 1) /\ k # k + 1
          BY <3>1, <1>1
        <4> QED
          BY <3>1, <4>1
      <3>2. CASE n # k + 1
        <4>1. n \in 0..k /\ (n # 0 => n - 1 \in 0..(k + 1) /\ n - 1 # k + 1)
          BY <3>2, <1>1
        <4>2. g[n] = f[n] /\ f[n] = Step(f, n)
          BY <2>1, <3>2, <4>1
        <4>3. n # 0 => g[n - 1] = f[n - 1]
          BY <4>1
        <4> QED
          BY <4>2, <4>3
      <3> QED
        BY <3>1, <3>2
    <2>3. g = [n \in 0..(k + 1) |-> Step(g, n)]
      <3> HIDE DEF Step
      <3>1. [n \in 0..(k + 1) |-> g[n]] = [n \in 0..(k + 1) |-> Step(g, n)]
        BY <2>2
      <3> QED
        BY <3>1
    <2>4. k + 1 \in 0..m
      BY <1>1
    <2> HIDE DEF g, Step
    <2> QED
      BY <2>3, <2>4
  <1>4. m \in S
    <2>1. \A k \in 0..m : k \in S
      <3> HIDE DEF S
      <3> QED
        BY <1>1, <1>2, <1>3, InductUpTo
    <2> QED
      BY <1>1, <2>1
  <1>5. PICK f : f = [n \in 0..m |-> Step(f, n)]
    BY <1>4
  <1> QED
    BY <1>5 DEF IsUpTo

\* There is one only, so the first n records take f[n] bytes.
LEMMA BytesUpTo ==
    ASSUME NEW fmt, NEW s \in Records, NEW f, IsUpTo(f, fmt, s), NEW k \in 0..Len(s)
    PROVE  Bytes(fmt, SubSeq(s, 1, k)) = f[k]
  <1> DEFINE t == SubSeq(s, 1, k)
             g == CHOOSE g : IsUpTo(g, fmt, t)
             S == {n \in 0..k : g[n] = f[n]}
  <1>1. t \in Records /\ Len(t) = k /\ k \in Nat /\ \A i \in 1..k : t[i] = s[i]
    <2>1. s \in Seq(Blocks \cup {Junk}) /\ Len(s) \in Nat
      BY DEF Records
    <2>2. 1 \in 1..(Len(s) + 1) /\ k \in (1 - 1)..Len(s)
      BY <2>1
    <2>3. t \in Seq(Blocks \cup {Junk}) /\ Len(t) = k
      BY <2>1, <2>2, SubSeqProperties
    <2>4. \A i \in 1..k : t[i] = s[i]
      BY <2>1, <2>2, SubSeqProperties
    <2> QED
      BY <2>1, <2>3, <2>4 DEF Records
  <1> HIDE DEF t
  <1>2. IsUpTo(g, fmt, t)
    BY <1>1, UpToExists
  <1>3. Bytes(fmt, t) = g[k]
    BY <1>1 DEF Bytes, IsUpTo
  <1> HIDE DEF g
  <1>4. \A n \in 0..k : n \in S
    <2>1. 0 \in S
      <3>1. g[0] = 0
        BY <1>1, <1>2, UpToRises
      <3>2. f[0] = 0
        BY UpToRises
      <3> QED
        BY <1>1, <3>1, <3>2
    <2>2. ASSUME NEW n \in 0..(k - 1), n \in S PROVE n + 1 \in S
      <3>1. /\ n + 1 \in 0..k /\ n + 1 \in 0..Len(s) /\ n + 1 \in 0..Len(t)
            /\ n + 1 # 0 /\ (n + 1) - 1 = n /\ n + 1 \in 1..k
        BY <1>1
      <3>2. g[n + 1] = g[n] + RecordBytes(fmt, t[n + 1])
        BY <1>2, <3>1 DEF IsUpTo
      <3>3. f[n + 1] = f[n] + RecordBytes(fmt, s[n + 1])
        BY <3>1 DEF IsUpTo
      <3>4. t[n + 1] = s[n + 1]
        BY <1>1, <3>1
      <3> QED
        BY <2>2, <3>1, <3>2, <3>3, <3>4
    <2> HIDE DEF S
    <2> QED
      BY <1>1, <2>1, <2>2, InductUpTo
  <1> QED
    BY <1>1, <1>3, <1>4 DEF t

\* A file with more records is longer.
LEMMA MoreIsLonger ==
    ASSUME NEW fmt, NEW s \in Records, NEW k \in 0..Len(s)
    PROVE  /\ Bytes(fmt, s) \in Nat /\ Bytes(fmt, SubSeq(s, 1, k)) \in Nat
           /\ k < Len(s) => Bytes(fmt, SubSeq(s, 1, k)) < Bytes(fmt, s)
  <1> DEFINE m == Len(s)
  <1>0. m \in Nat
    BY DEF Records
  <1>1. PICK f : IsUpTo(f, fmt, s)
    BY UpToExists
  <1>2. SubSeq(s, 1, m) = s
    BY SubSeqFull DEF Records
  <1>3. \A n \in 0..m : Bytes(fmt, SubSeq(s, 1, n)) = f[n] /\ f[n] \in Nat
    BY <1>1, BytesUpTo, UpToRises
  <1>4. \A n \in 0..(m - 1) : f[n + 1] > f[n]
    BY <1>1, UpToRises
  <1> DEFINE S == {j \in 0..(m - k) : f[k] <= f[k + j] /\ (j > 0 => f[k] < f[k + j])}
  <1>5. \A j \in 0..(m - k) : j \in S
    <2>1. 0 \in S
      <3>1. f[k] \in Nat /\ k + 0 = k
        BY <1>3
      <3> QED
        BY <1>0, <3>1
    <2>2. ASSUME NEW j \in 0..((m - k) - 1), j \in S PROVE j + 1 \in S
      <3>1. k + j \in 0..(m - 1) /\ k \in 0..m /\ k + j \in 0..m /\ (k + j) + 1 = k + (j + 1)
            /\ k + (j + 1) \in 0..m /\ j + 1 \in 0..(m - k)
        BY <1>0
      <3>2. f[k] \in Nat /\ f[k + j] \in Nat /\ f[k + (j + 1)] \in Nat
        BY <1>3, <3>1
      <3>3. f[k + (j + 1)] > f[k + j]
        BY <1>4, <3>1
      <3> QED
        BY <2>2, <3>1, <3>2, <3>3
    <2>3. m - k \in Nat
      BY <1>0
    <2> HIDE DEF S
    <2> QED
      BY <2>1, <2>2, <2>3, InductUpTo
  <1>6. m - k \in S
    <2>1. m - k \in 0..(m - k)
      BY <1>0
    <2> HIDE DEF S
    <2> QED
      BY <1>5, <2>1
  <1>7. k + (m - k) = m /\ m \in 0..m /\ k \in 0..m
    BY <1>0
  <1>8. (m - k > 0 => f[k] < f[k + (m - k)])
    BY <1>6
  <1>9. k < m => f[k] < f[m]
    <2> HIDE DEF S, m
    <2> QED
      BY <1>0, <1>7, <1>8
  <1>10. Bytes(fmt, s) = f[m] /\ f[m] \in Nat
    <2> HIDE DEF S
    <2> QED
      BY <1>2, <1>3, <1>7
  <1> QED
    BY <1>3, <1>7, <1>9, <1>10

\* A file without records is empty.
LEMMA NoneIsEmpty == ASSUME NEW fmt PROVE Bytes(fmt, <<>>) = 0
  <1>1. <<>> \in Records /\ Len(<<>>) = 0 /\ 0 \in 0..0
    BY DEF Records
  <1>a. SubSeq(<<>>, 1, 0) = <<>>
    BY SubSeqEmpty
  <1>2. PICK f : IsUpTo(f, fmt, <<>>)
    BY <1>1, UpToExists
  <1>3. f[0] = 0
    BY <1>1, <1>2, UpToRises
  <1>4. Bytes(fmt, SubSeq(<<>>, 1, 0)) = f[0]
    BY <1>1, <1>2, BytesUpTo
  <1> QED
    BY <1>a, <1>3, <1>4

-----------------------------------------------------------------------------
(* Chains of blocks *)

\* The sequences of blocks that full verification accepts.
Checked == {p \in Seq(Blocks) : Verifies(p)}

\* Such a chain, block by block.
LEMMA CheckedIs ==
    ASSUME NEW p
    PROVE  p \in Checked <=>
              /\ p \in Seq(Blocks)
              /\ \A i \in 1..Len(p) : /\ p[i] \in Blocks \ Invalid
                                      /\ Parent[p[i]] = IF i = 1 THEN GenesisHash ELSE p[i - 1]
  <1>1. ASSUME p \in Seq(Blocks)
        PROVE  DOMAIN p = 1..Len(p) /\ \A i \in 1..Len(p) : p[i] \in Blocks
    BY <1>1
  <1>2. TipOf(<<>>) = GenesisHash
    BY DEF TipOf
  <1> QED
    BY <1>1, <1>2 DEF Checked, Verifies, Links, Range

\* A file whose records are linked holds blocks.
LEMMA LinkedIs ==
    ASSUME NEW base, NEW x \in Records, Links(base, x)
    PROVE  /\ x \in Seq(Blocks)
           /\ \A i \in 1..Len(x) : /\ x[i] \in Blocks
                                   /\ Parent[x[i]] = IF i = 1 THEN TipOf(base) ELSE x[i - 1]
  <1>1. DOMAIN x = 1..Len(x) /\ Len(x) \in Nat /\ x \in Seq(Blocks \cup {Junk})
    BY DEF Records
  <1>2. \A i \in 1..Len(x) : /\ x[i] \in Blocks
                             /\ Parent[x[i]] = IF i = 1 THEN TipOf(base) ELSE x[i - 1]
    BY <1>1 DEF Links
  <1> QED
    BY <1>1, <1>2, SeqDef

\* The tip of a chain is its last block.
LEMMA TipIs ==
    ASSUME NEW x \in Seq(Blocks)
    PROVE  /\ x = <<>> => TipOf(x) = GenesisHash
           /\ x # <<>> => /\ Len(x) \in Nat \ {0} /\ TipOf(x) = x[Len(x)] /\ TipOf(x) \in Blocks
                          /\ TipOf(x) # GenesisHash
  <1>1. x # <<>> => Len(x) \in Nat \ {0}
    BY EmptySeq
  <1>2. x # <<>> => x[Len(x)] \in Blocks
    BY <1>1
  <1> QED
    BY <1>1, <1>2, StoreAssumption DEF TipOf, Last

\* A hash determines what is before it: linked blocks that end in the last block of a
\* chain are the last blocks of that chain.
LEMMA SameHistory ==
    ASSUME NEW p \in Checked, NEW base, NEW x \in Seq(Blocks), x # <<>>, Links(base, x),
           TipOf(x) = TipOf(p)
    PROVE  /\ Len(x) <= Len(p)
           /\ \A k \in 0..(Len(x) - 1) : x[Len(x) - k] = p[Len(p) - k]
  <1> DEFINE n == Len(x)
             m == Len(p)
             S == {k \in 0..(n - 1) : k < m /\ x[n - k] = p[m - k]}
  <1>1. /\ n \in Nat \ {0} /\ m \in Nat \ {0} /\ p \in Seq(Blocks)
        /\ x[n] = TipOf(x) /\ p[m] = TipOf(p)
    <2>1. p \in Seq(Blocks)
      BY CheckedIs
    <2>2. n \in Nat \ {0} /\ x[n] = TipOf(x) /\ TipOf(x) # GenesisHash
      BY TipIs
    <2>3. p # <<>>
      BY <2>1, <2>2, TipIs
    <2> QED
      BY <2>1, <2>2, <2>3, TipIs
  <1>2. \A i \in 1..n : x[i] \in Blocks /\ Parent[x[i]] = IF i = 1 THEN TipOf(base) ELSE x[i - 1]
    <2>1. DOMAIN x = 1..n
      OBVIOUS
    <2> QED
      BY <2>1 DEF Links
  <1>3. \A i \in 1..m : p[i] \in Blocks /\ Parent[p[i]] = IF i = 1 THEN GenesisHash ELSE p[i - 1]
    BY CheckedIs
  <1>4. 0 \in S
    BY <1>1
  <1>5. ASSUME NEW k \in 0..((n - 1) - 1), k \in S PROVE k + 1 \in S
    <2>1. n - k \in 1..n /\ n - k # 1 /\ (n - k) - 1 = n - (k + 1) /\ n - (k + 1) \in 1..n
          /\ m - k \in 1..m /\ (m - k) - 1 = m - (k + 1) /\ k + 1 \in 0..(n - 1)
      BY <1>1, <1>5
    <2>2. Parent[x[n - k]] = x[n - (k + 1)] /\ x[n - (k + 1)] \in Blocks
      BY <1>2, <2>1
    <2>3. Parent[p[m - k]] = IF m - k = 1 THEN GenesisHash ELSE p[m - (k + 1)]
      BY <1>3, <2>1
    <2>4. m - k # 1
      BY <1>5, <2>2, <2>3, StoreAssumption
    <2>5. k + 1 < m
      <3> HIDE DEF m, S
      <3>1. m \in Nat /\ k \in Nat /\ m - k \in 1..m /\ m - k # 1
        <4>1. m \in Nat
          BY <1>1
        <4>2. k \in Nat
          BY <1>1
        <4> QED
          BY <2>1, <2>4, <4>1, <4>2
      <3> QED
        BY <3>1
    <2>6. x[n - (k + 1)] = p[m - (k + 1)]
      BY <1>5, <2>2, <2>3, <2>4
    <2> QED
      BY <2>1, <2>5, <2>6
  <1>6. \A k \in 0..(n - 1) : k \in S
    <2>1. n - 1 \in Nat
      BY <1>1
    <2> HIDE DEF S, n, m
    <2> QED
      BY <1>4, <1>5, <2>1, InductUpTo
  <1>7. \A k \in 0..(n - 1) : k < m /\ x[n - k] = p[m - k]
    BY <1>6
  <1>8. n <= m
    <2>1. n - 1 \in 0..(n - 1)
      BY <1>1
    <2>2. n - 1 < m
      BY <1>7, <2>1
    <2> HIDE DEF n, m
    <2> QED
      BY <1>1, <2>2
  <1> QED
    BY <1>7, <1>8

\* So such blocks have all been checked.
LEMMA HistoryIsChecked ==
    ASSUME NEW p \in Checked, NEW base, NEW x \in Seq(Blocks), Links(base, x),
           x = <<>> \/ TipOf(x) = TipOf(p), NEW i \in 1..Len(x)
    PROVE  x[i] \notin Invalid
  <1>1. Len(x) \in Nat /\ Len(p) \in Nat /\ x # <<>>
    <2>1. Len(x) \in Nat
      OBVIOUS
    <2>2. Len(x) # 0
      BY <2>1
    <2> QED
      BY <2>1, <2>2, CheckedIs
  <1>2. /\ Len(x) <= Len(p)
        /\ \A k \in 0..(Len(x) - 1) : x[Len(x) - k] = p[Len(p) - k]
    BY <1>1, SameHistory
  <1> DEFINE k == Len(x) - i
  <1>3. k \in 0..(Len(x) - 1) /\ Len(x) - k = i /\ Len(p) - k \in 1..Len(p)
    BY <1>1, <1>2
  <1>4. x[i] = p[Len(p) - k]
    <2>1. x[Len(x) - k] = p[Len(p) - k]
      BY <1>2, <1>3
    <2> QED
      BY <1>3, <2>1
  <1> HIDE DEF k
  <1> QED
    BY <1>3, <1>4, CheckedIs

\* Two chains with one tip are one.
LEMMA SamePath ==
    ASSUME NEW p \in Checked, NEW q \in Checked, TipOf(p) = TipOf(q) PROVE p = q
  <1>1. p \in Seq(Blocks) /\ q \in Seq(Blocks) /\ Links(<<>>, p) /\ Links(<<>>, q)
    BY DEF Checked, Verifies
  <1>2. p = <<>> <=> q = <<>>
    BY <1>1, TipIs
  <1>3. CASE p # <<>>
    <2>1. Len(p) <= Len(q) /\ Len(q) <= Len(p)
      BY <1>1, <1>2, <1>3, SameHistory
    <2>2. \A k \in 0..(Len(p) - 1) : p[Len(p) - k] = q[Len(q) - k]
      BY <1>1, <1>2, <1>3, SameHistory
    <2> DEFINE n == Len(p)
    <2>3. n \in Nat /\ Len(q) = n
      <3>1. Len(p) \in Nat /\ Len(q) \in Nat
        BY <1>1
      <3> QED
        BY <2>1, <3>1
    <2>4. ASSUME NEW i \in 1..n PROVE p[i] = q[i]
      <3>1. n - i \in 0..(n - 1) /\ n - (n - i) = i
        BY <2>3
      <3>2. p[n - (n - i)] = q[n - (n - i)]
        BY <2>2, <2>3, <3>1
      <3> QED
        BY <3>1, <3>2
    <2> QED
      BY <1>1, <2>3, <2>4, SeqEqual
  <1> QED
    BY <1>2, <1>3

\* What comes first of a chain is a chain.
LEMMA PrefixChecked ==
    ASSUME NEW p \in Checked, NEW n \in 0..Len(p)
    PROVE  /\ SubSeq(p, 1, n) \in Checked
           /\ Len(SubSeq(p, 1, n)) = n
           /\ \A i \in 1..n : SubSeq(p, 1, n)[i] = p[i]
           /\ TipOf(SubSeq(p, 1, n)) = IF n = 0 THEN GenesisHash ELSE p[n]
  <1> DEFINE q == SubSeq(p, 1, n)
  <1>1. p \in Seq(Blocks) /\ Len(p) \in Nat /\ n \in Nat
    BY CheckedIs
  <1>2. q \in Seq(Blocks) /\ Len(q) = n /\ \A i \in 1..n : q[i] = p[i]
    <2>1. \A i \in 1..n : p[i] \in Blocks
      BY <1>1
    <2> QED
      BY <1>1, <2>1, SubSeqProperties
  <1> HIDE DEF q
  <1>3. ASSUME NEW i \in 1..n
        PROVE  /\ q[i] \in Blocks \ Invalid
               /\ Parent[q[i]] = IF i = 1 THEN GenesisHash ELSE q[i - 1]
    <2>1. i \in 1..Len(p) /\ (i # 1 => i - 1 \in 1..n)
      BY <1>1
    <2> QED
      BY <1>2, <2>1, CheckedIs
  <1>4. q \in Checked
    BY <1>2, <1>3, CheckedIs
  <1>5. TipOf(q) = IF n = 0 THEN GenesisHash ELSE p[n]
    <2>1. CASE n = 0
      <3>1. q = <<>>
        BY <1>2, <2>1, EmptySeq
      <3> QED
        BY <2>1, <3>1, TipIs, <1>2
    <2>2. CASE n # 0
      <3>1. q # <<>> /\ n \in 1..n
        <4>1. n \in 1..n
          BY <1>1, <2>2
        <4>2. q # <<>>
          BY <1>2, <2>2, EmptySeq
        <4> QED
          BY <4>1, <4>2
      <3> QED
        BY <1>2, <2>2, <3>1, TipIs
    <2> QED
      BY <2>1, <2>2
  <1> QED
    BY <1>2, <1>4, <1>5 DEF q

\* A block of one chain that is the tip of another: the other is what comes before it.
LEMMA PrefixIs ==
    ASSUME NEW p \in Checked, NEW q \in Checked, NEW n \in 1..Len(p), p[n] = TipOf(q)
    PROVE  SubSeq(p, 1, n) = q /\ Len(q) = n
  <1>1. n \in 0..Len(p) /\ n # 0
    BY CheckedIs
  <1>2. SubSeq(p, 1, n) \in Checked /\ Len(SubSeq(p, 1, n)) = n /\ TipOf(SubSeq(p, 1, n)) = p[n]
    BY <1>1, PrefixChecked
  <1> QED
    BY <1>2, SamePath

\* Checked blocks that are linked to a chain continue it.
LEMMA Continued ==
    ASSUME NEW p \in Checked, NEW x \in Seq(Blocks), Links(p, x),
           \A i \in 1..Len(x) : x[i] \notin Invalid
    PROVE  /\ p \o x \in Checked
           /\ Len(p \o x) = Len(p) + Len(x)
           /\ TipOf(p \o x) = IF x = <<>> THEN TipOf(p) ELSE TipOf(x)
  <1> DEFINE q == p \o x
  <1>1. p \in Seq(Blocks) /\ Len(p) \in Nat /\ Len(x) \in Nat
    BY CheckedIs
  <1>2. /\ q \in Seq(Blocks) /\ Len(q) = Len(p) + Len(x)
        /\ \A i \in 1..(Len(p) + Len(x)) : q[i] = IF i <= Len(p) THEN p[i] ELSE x[i - Len(p)]
    BY <1>1, ConcatProperties
  <1>3. \A i \in 1..Len(x) :
           x[i] \in Blocks /\ Parent[x[i]] = IF i = 1 THEN TipOf(p) ELSE x[i - 1]
    <2>1. DOMAIN x = 1..Len(x)
      OBVIOUS
    <2> QED
      BY <2>1 DEF Links
  <1>4. TipOf(p) = IF Len(p) = 0 THEN GenesisHash ELSE p[Len(p)]
    <2>1. Len(p) = 0 <=> p = <<>>
      BY <1>1, EmptySeq
    <2> QED
      BY <1>1, <2>1, TipIs
  <1> HIDE DEF q
  <1>5. ASSUME NEW i \in 1..Len(q)
        PROVE  /\ q[i] \in Blocks \ Invalid
               /\ Parent[q[i]] = IF i = 1 THEN GenesisHash ELSE q[i - 1]
    <2>1. CASE i <= Len(p)
      <3>1. i \in 1..Len(p) /\ q[i] = p[i] /\ (i # 1 => i - 1 \in 1..Len(p) /\ q[i - 1] = p[i - 1])
        <4>1. i \in 1..Len(p) /\ i \in 1..(Len(p) + Len(x))
              /\ (i # 1 => i - 1 \in 1..(Len(p) + Len(x)) /\ i - 1 <= Len(p) /\ i - 1 \in 1..Len(p))
          BY <1>1, <1>2, <2>1
        <4> QED
          BY <1>2, <2>1, <4>1
      <3> QED
        BY <3>1, CheckedIs
    <2>2. CASE ~(i <= Len(p))
      <3> DEFINE j == i - Len(p)
      <3>1. /\ j \in 1..Len(x) /\ i \in 1..(Len(p) + Len(x))
            /\ (j # 1 => j - 1 = (i - 1) - Len(p) /\ i - 1 \in 1..(Len(p) + Len(x)) /\ ~(i - 1 <= Len(p)))
            /\ (j = 1 => i - 1 = Len(p) /\ (i = 1 <=> Len(p) = 0))
            /\ (i # 1 => i - 1 \in 1..(Len(p) + Len(x)))
            /\ (i = 1 => j = 1)
        BY <1>1, <1>2, <2>2
      <3>2. q[i] = x[j] /\ x[j] \in Blocks \ Invalid
            /\ Parent[x[j]] = IF j = 1 THEN TipOf(p) ELSE x[j - 1]
        BY <1>2, <1>3, <2>2, <3>1
      <3> HIDE DEF j
      <3>3. CASE j = 1
        <4>1. i # 1 => q[i - 1] = p[Len(p)]
          BY <1>2, <3>1, <3>3
        <4> QED
          BY <1>4, <3>1, <3>2, <3>3, <4>1
      <3>4. CASE j # 1
        <4>1. q[i - 1] = x[j - 1] /\ i # 1
          BY <1>2, <3>1, <3>4
        <4> QED
          BY <3>2, <3>4, <4>1
      <3> QED
        BY <3>3, <3>4
    <2> QED
      BY <2>1, <2>2
  <1>6. q \in Checked
    BY <1>2, <1>5, CheckedIs
  <1>7. TipOf(q) = IF x = <<>> THEN TipOf(p) ELSE TipOf(x)
    <2>1. CASE x = <<>>
      <3>1. q = p
        BY <1>1, <2>1 DEF q
      <3> QED
        BY <2>1, <3>1
    <2>2. CASE x # <<>>
      <3>1. Len(x) # 0 /\ TipOf(x) = x[Len(x)]
        BY <2>2, TipIs
      <3>2. /\ Len(q) \in 1..(Len(p) + Len(x)) /\ ~(Len(q) <= Len(p)) /\ Len(q) - Len(p) = Len(x)
            /\ Len(q) # 0
        BY <1>1, <1>2, <3>1
      <3>3. q # <<>>
        BY <1>2, <3>2, EmptySeq
      <3>4. q[Len(q)] = x[Len(x)]
        BY <1>2, <3>2
      <3> QED
        BY <1>2, <2>2, <3>1, <3>3, <3>4, TipIs
    <2> QED
      BY <2>1, <2>2
  <1> QED
    BY <1>2, <1>6, <1>7 DEF q

-----------------------------------------------------------------------------
(* What is loaded *)

\* A metadata record; one of our own names a chain we have checked.
MetaOK(m) ==
    /\ m \in Metas
    /\ m.by = Me => \E p \in Checked : Len(p) = m.count /\ TipOf(p) = m.tip

\* The headers are those of a chain we have checked, or were cut short.
HeadersOK(h) == h # None => \E p \in Checked : h = p \/ h = Append(p, Junk)

\* Files that this node may have written, or was given.
FilesOK(d) ==
    /\ d = [bin |-> d.bin, json |-> d.json, meta |-> d.meta,
            headers |-> d.headers, horizon |-> d.horizon]
    /\ {d.bin, d.json, d.horizon} \subseteq Records \cup {None}
    /\ HeadersOK(d.headers)
    /\ d.meta # None => MetaOK(d.meta)

\* A chain in memory has been checked, and is pruned below its tip only.
ChainOK(ch) ==
    /\ ch = [path |-> ch.path, first |-> ch.first]
    /\ ch.path \in Checked /\ ch.first \in Nat
    /\ ch.first = 0 \/ ch.first < Len(ch.path)

\* A chain is a file without torn records.
LEMMA CheckedRecords == ASSUME NEW p \in Checked PROVE p \in Records
  <1>1. p \in Seq(Blocks)
    BY CheckedIs
  <1> QED
    BY <1>1 DEF Records

\* The lesser of two numbers.
LEMMA MinIs ==
    ASSUME NEW a \in Nat, NEW b \in Nat
    PROVE  Min({a, b}) \in Nat /\ Min({a, b}) <= a /\ Min({a, b}) <= b
           /\ (Min({a, b}) = a \/ Min({a, b}) = b)
  <1>1. \E x \in {a, b} : \A y \in {a, b} : x <= y
    <2>1. CASE a <= b
      BY <2>1
    <2>2. CASE ~(a <= b)
      BY <2>2
    <2> QED
      BY <2>1, <2>2
  <1>2. Min({a, b}) \in {a, b} /\ \A y \in {a, b} : Min({a, b}) <= y
    BY <1>1 DEF Min
  <1> QED
    BY <1>2

\* A blocks file of some bytes holds a record; one of none holds none.
LEMMA BytesOrNone ==
    ASSUME NEW d, FilesOK(d), BlocksOf(d) # None
    PROVE  /\ BlocksOf(d) \in Records /\ BlockBytes(d) = Bytes(Format(d), BlocksOf(d))
           /\ BlockBytes(d) \in Nat
           /\ BlockBytes(d) > 0 <=> BlocksOf(d) # <<>>
  <1> DEFINE x == BlocksOf(d)
  <1>1. x \in Records
    BY DEF FilesOK, BlocksOf, Format
  <1>2. BlockBytes(d) = Bytes(Format(d), x)
    BY DEF BlockBytes
  <1> HIDE DEF x
  <1>3. CASE x = <<>>
    <2>1. Bytes(Format(d), x) = 0
      BY <1>3, NoneIsEmpty
    <2> QED
      BY <1>1, <1>2, <1>3, <2>1 DEF x
  <1>4. CASE x # <<>>
    <2>1. Len(x) \in Nat \ {0}
      BY <1>1, <1>4, EmptySeq DEF Records
    <2>2. 0 \in 0..Len(x) /\ 0 < Len(x)
      BY <2>1
    <2>3. /\ Bytes(Format(d), x) \in Nat
          /\ Bytes(Format(d), SubSeq(x, 1, 0)) \in Nat
          /\ Bytes(Format(d), SubSeq(x, 1, 0)) < Bytes(Format(d), x)
      BY <1>1, <2>2, MoreIsLonger
    <2>4. Bytes(Format(d), x) > 0
      BY <2>3
    <2> QED
      BY <1>1, <1>2, <1>4, <2>3, <2>4 DEF x
  <1> QED
    BY <1>3, <1>4

\* What is rebuilt below the bodies of a trusted file is a chain, unless the headers
\* were cut short there.
LEMMA BaseIs ==
    ASSUME NEW d, FilesOK(d), d.meta # None, d.meta.first > 0, IsOwnFileTrusted(d),
           Len(LoadBase(d)) = d.meta.first
    PROVE  /\ d.headers # None /\ LoadBase(d) = SubSeq(d.headers, 1, d.meta.first)
           /\ LoadBase(d) \in Checked \/ TipOf(LoadBase(d)) = Junk
  <1> DEFINE f == d.meta.first
             n == Min({f, Len(d.headers)})
  <1>1. f \in Nat \ {0} /\ d.headers # None
    <2>1. d.meta.first \in Nat
      BY DEF FilesOK, MetaOK, Metas
    <2>2. FlatBytes(d.headers) > 0
      BY DEF IsOwnFileTrusted
    <2>3. d.headers # None
      <3>1. d.headers = None => FlatBytes(d.headers) = 0
        BY DEF FlatBytes
      <3> QED
        BY <2>2, <3>1
    <2> QED
      BY <2>1, <2>3
  <1>2. PICK p \in Checked : d.headers = p \/ d.headers = Append(p, Junk)
    BY <1>1 DEF FilesOK, HeadersOK
  <1>3. /\ p \in Seq(Blocks) /\ Len(p) \in Nat /\ p \in Records
    BY CheckedIs DEF Records
  <1>4. /\ d.headers \in Records /\ Len(d.headers) \in Nat
        /\ d.headers = p \/ (Len(d.headers) = Len(p) + 1 /\ d.headers[Len(p) + 1] = Junk)
        /\ \A i \in 1..Len(p) : d.headers[i] = p[i]
    BY <1>2, <1>3, AppendProperties DEF Records
  <1>5. n \in Nat /\ n <= f /\ n <= Len(d.headers)
    BY <1>1, <1>4, MinIs
  <1>6. LoadBase(d) = SubSeq(d.headers, 1, n)
    BY DEF LoadBase
  <1> HIDE DEF n
  <1>7. \A i \in 1..n : d.headers[i] \in Blocks \cup {Junk}
    <2>1. \A i \in 1..n : i \in 1..Len(d.headers)
      BY <1>4, <1>5
    <2> QED
      BY <1>4, <2>1 DEF Records
  <1>8. Len(LoadBase(d)) = n /\ \A i \in 1..n : LoadBase(d)[i] = d.headers[i]
    BY <1>5, <1>6, <1>7, SubSeqProperties
  <1>9. n = f
    BY <1>8
  <1>10. CASE f <= Len(p)
    <2>1. SubSeq(p, 1, f) \in Checked /\ Len(SubSeq(p, 1, f)) = f
          /\ \A i \in 1..f : SubSeq(p, 1, f)[i] = p[i]
      <3>1. f \in 0..Len(p)
        BY <1>1, <1>3, <1>10
      <3> HIDE DEF f
      <3> QED
        BY <3>1, PrefixChecked
    <2>2. LoadBase(d) \in Records
      <3>1. SubSeq(d.headers, 1, n) \in Seq(Blocks \cup {Junk})
        <4>1. n \in Int /\ 1 \in Int
          BY <1>5
        <4> HIDE DEF n
        <4> QED
          BY <4>1, <1>7, SubSeqProperties
      <3> QED
        BY <1>6, <3>1 DEF Records
    <2>3. SubSeq(p, 1, f) \in Records
      BY <2>1, CheckedRecords
    <2>4. \A i \in 1..f : LoadBase(d)[i] = SubSeq(p, 1, f)[i]
      <3>1. \A i \in 1..f : i \in 1..Len(p)
        BY <1>1, <1>3, <1>10
      <3> QED
        BY <1>4, <1>8, <1>9, <2>1, <3>1
    <2>5. LoadBase(d) = SubSeq(p, 1, f)
      BY <1>8, <1>9, <2>1, <2>2, <2>3, <2>4, SeqEqual DEF Records
    <2> QED
      BY <1>1, <1>6, <1>9, <2>1, <2>5
  <1>11. CASE ~(f <= Len(p))
    <2>1. f = Len(p) + 1 /\ f \in 1..n /\ d.headers[f] = Junk
      BY <1>1, <1>3, <1>4, <1>5, <1>9, <1>11
    <2>2. LoadBase(d)[f] = Junk
      BY <1>8, <2>1
    <2>3. Len(LoadBase(d)) = f /\ f # 0 /\ LoadBase(d) # <<>>
      BY <1>1, <1>8, <1>9
    <2>4. TipOf(LoadBase(d)) = Junk
      BY <2>2, <2>3 DEF TipOf, Last
    <2> QED
      BY <1>1, <1>6, <1>9, <2>4
  <1> QED
    BY <1>10, <1>11

\* A start never puts a chain in memory that was not checked: the record names a chain
\* we have checked, and what is linked up to its tip is that chain.
LEMMA LoadedIsChecked ==
    ASSUME NEW d, FilesOK(d), Loads(d)
    PROVE  /\ ChainOK(LoadedChain(d))
           /\ BlocksOf(d) # None /\ IsOwnFileTrusted(d) => TipOf(LoadedChain(d).path) = d.meta.tip
  <1> DEFINE x == BlocksOf(d)
             b == LoadBase(d)
  <1>0. <<>> \in Checked /\ TipOf(<<>>) = GenesisHash /\ Len(<<>>) = 0
    <2>1. <<>> \in Seq(Blocks) /\ Len(<<>>) = 0
      OBVIOUS
    <2>2. \A i \in 1..Len(<<>>) : FALSE
      BY <2>1
    <2>3. <<>> \in Checked
      BY <2>1, <2>2, CheckedIs
    <2> QED
      BY <2>1, <2>3 DEF TipOf
  <1>1. CASE x = None
    BY <1>0, <1>1 DEF ChainOK, LoadedChain
  <1>2. CASE x # None
    <2>1. x \in Records /\ (BlockBytes(d) > 0 <=> x # <<>>)
      BY <1>2, BytesOrNone
    <2>2. LoadedChain(d) = [path |-> b \o x, first |-> Len(b)]
      BY <1>2 DEF LoadedChain
    <2>3. CASE d.meta # None /\ d.meta.first > 0
      <3>1. /\ IsOwnFileTrusted(d) /\ Len(b) = d.meta.first /\ Links(b, x)
            /\ TipOf(b \o x) = d.meta.tip
        <4>1. d.meta.first \in Nat
          BY <2>3 DEF FilesOK, MetaOK, Metas
        <4>2. d.meta.first # 0
          BY <2>3, <4>1
        <4> QED
          BY <1>2, <2>2, <2>3, <4>2 DEF Loads
      <3>2. x # <<>>
        BY <2>1, <3>1 DEF IsOwnFileTrusted
      <3>3. x \in Seq(Blocks) /\ 1 \in 1..Len(x) /\ Parent[x[1]] = TipOf(b) /\ x[1] \in Blocks
        <4>1. x \in Seq(Blocks)
          BY <2>1, <3>1, LinkedIs
        <4>2. 1 \in 1..Len(x)
          BY <3>2, <4>1, TipIs
        <4> QED
          BY <2>1, <3>1, <4>1, <4>2, LinkedIs
      <3>4. b \in Checked
        <4>1. TipOf(b) # Junk
          BY <3>3, StoreAssumption
        <4> QED
          BY <2>3, <3>1, <4>1, BaseIs
      <3>5. PICK q \in Checked : TipOf(q) = d.meta.tip
        BY <2>3, <3>1 DEF FilesOK, MetaOK, Metas, IsOwnFileTrusted
      <3>6. TipOf(x) = TipOf(b \o x)
        <4>1. b \in Seq(Blocks) /\ Len(b) \in Nat
          BY <3>4, CheckedIs
        <4> DEFINE y == b \o x
        <4>2. /\ y \in Seq(Blocks) /\ Len(y) = Len(b) + Len(x) /\ Len(x) \in Nat \ {0}
              /\ \A i \in 1..(Len(b) + Len(x)) : y[i] = IF i <= Len(b) THEN b[i] ELSE x[i - Len(b)]
          BY <3>2, <3>3, <4>1, ConcatProperties, TipIs
        <4> HIDE DEF y, x, b
        <4>3. Len(y) \in 1..(Len(b) + Len(x)) /\ ~(Len(y) <= Len(b)) /\ Len(y) - Len(b) = Len(x)
              /\ Len(y) # 0
          BY <4>1, <4>2
        <4>4. y[Len(y)] = x[Len(x)] /\ y # <<>>
          BY <4>2, <4>3, EmptySeq
        <4> QED
          BY <3>2, <3>3, <4>2, <4>4, TipIs DEF y
      <3>7. TipOf(x) = TipOf(q)
        BY <3>1, <3>5, <3>6
      <3>8. \A i \in 1..Len(x) : x[i] \notin Invalid
        BY <3>1, <3>3, <3>7, HistoryIsChecked
      <3>9. b \o x \in Checked /\ Len(b \o x) = Len(b) + Len(x)
        BY <3>1, <3>3, <3>4, <3>8, Continued
      <3>10. Len(b) \in Nat /\ Len(x) \in Nat \ {0}
        BY <3>2, <3>3, <3>4, CheckedIs, TipIs
      <3> QED
        <4>1. Len(b) < Len(b \o x)
          <5> HIDE DEF b, x
          <5> QED
            BY <3>9, <3>10
        <4> HIDE DEF b, x
        <4> QED
          BY <2>2, <3>1, <3>9, <3>10, <4>1 DEF ChainOK
    <2>4. CASE ~(d.meta # None /\ d.meta.first > 0)
      <3>1. b = <<>> /\ Len(b) = 0
        BY <2>4 DEF LoadBase
      <3>2. b \o x = x
        BY <2>1, <3>1, ConcatEmptySeq DEF Records
      <3>3. CASE IsOwnFileTrusted(d)
        <4>1. d.meta # None /\ Links(<<>>, x) /\ TipOf(x) = d.meta.tip
          BY <1>2, <2>4, <3>3 DEF Loads, IsOwnFileTrusted
        <4>2. PICK q \in Checked : TipOf(q) = d.meta.tip
          BY <3>3, <4>1 DEF FilesOK, MetaOK, Metas, IsOwnFileTrusted
        <4>3. x \in Seq(Blocks)
          BY <2>1, <4>1, LinkedIs
        <4>4. \A i \in 1..Len(x) : x[i] \notin Invalid
          BY <4>1, <4>2, <4>3, HistoryIsChecked
        <4>5. x \in Checked
          <5>1. \A i \in 1..Len(x) : /\ x[i] \in Blocks
                                     /\ Parent[x[i]] = IF i = 1 THEN TipOf(<<>>) ELSE x[i - 1]
            BY <2>1, <4>1, LinkedIs
          <5> HIDE DEF x
          <5> QED
            BY <1>0, <4>3, <4>4, <5>1, CheckedIs
        <4> QED
          BY <2>2, <3>1, <3>2, <4>1, <4>5 DEF ChainOK
      <3>4. CASE ~IsOwnFileTrusted(d)
        <4>1. Verifies(x)
          BY <1>2, <2>4, <3>4 DEF Loads
        <4>2. x \in Checked
          BY <2>1, <4>1, LinkedIs DEF Checked, Verifies
        <4> QED
          BY <2>2, <3>1, <3>2, <3>4, <4>2 DEF ChainOK
      <3> QED
        BY <3>3, <3>4
    <2> QED
      BY <2>3, <2>4
  <1> QED
    BY <1>1, <1>2

-----------------------------------------------------------------------------
(* What is written *)

\* Sequences of records stay so.
LEMMA Joined ==
    ASSUME NEW x \in Records, NEW y \in Records
    PROVE  x \o y \in Records /\ x \o y # None
  <1>1. x \o y \in Records
    BY DEF Records
  <1> QED
    BY <1>1, StoreAssumption DEF Records

\* Part of a sequence of records is one.
LEMMA Part ==
    ASSUME NEW x \in Records, NEW m \in Nat \ {0}, NEW n \in 0..Len(x)
    PROVE  SubSeq(x, m, n) \in Records /\ SubSeq(x, m, n) # None
  <1>1. x \in Seq(Blocks \cup {Junk}) /\ Len(x) \in Nat
    BY DEF Records
  <1>2. \A i \in m..n : i \in 1..Len(x)
    BY <1>1
  <1>3. \A i \in m..n : x[i] \in Blocks \cup {Junk}
    BY <1>1, <1>2
  <1>4. m \in Int /\ n \in Int
    OBVIOUS
  <1>5. SubSeq(x, m, n) \in Seq(Blocks \cup {Junk})
    BY <1>3, <1>4, SubSeqProperties
  <1> QED
    BY <1>5, StoreAssumption DEF Records

\* What may be left of a record that is cut short.
LEMMA Torn == ASSUME NEW t \in {<<>>, <<Junk>>} PROVE t \in Records
  <1>1. CASE t = <<>>
    BY <1>1 DEF Records
  <1>2. CASE t = <<Junk>>
    BY <1>2 DEF Records
  <1> QED
    BY <1>1, <1>2

\* No file of d is missing from e.
Keeps(d, e) ==
    /\ d.bin # None => e.bin # None
    /\ d.json # None => e.json # None
    /\ d.headers # None => e.headers # None
    /\ d.horizon # None => e.horizon # None

\* A file that is written over keeps its format.
LEMMA HoldingOK ==
    ASSUME NEW d, FilesOK(d), NEW x \in Records
    PROVE  /\ FilesOK(Holding(d, x)) /\ Keeps(d, Holding(d, x))
           /\ BlocksOf(Holding(d, x)) = x
           /\ Format(d) = "bin" \/ (Format(d) = "json" /\ d.bin = None)
           /\ Format(Holding(d, x)) = Format(d)
           /\ Holding(d, x) = [bin |-> IF Format(d) = "bin" THEN x ELSE d.bin,
                               json |-> IF Format(d) = "json" THEN x ELSE d.json,
                               meta |-> d.meta, headers |-> d.headers, horizon |-> d.horizon]
  <1> DEFINE e == Holding(d, x)
  <1>1. x # None
    BY StoreAssumption DEF Records
  <1>2. CASE Format(d) = "bin"
    <2>1. e = [d EXCEPT !.bin = x]
      BY <1>2 DEF Holding
    <2>2. e = [bin |-> x, json |-> d.json, meta |-> d.meta, headers |-> d.headers,
               horizon |-> d.horizon]
      BY <2>1 DEF FilesOK
    <2> HIDE DEF e
    <2>3. Format(e) = "bin"
      BY <1>1, <2>2 DEF Format
    <2>4. BlocksOf(e) = x
      BY <2>2, <2>3 DEF BlocksOf
    <2>5. FilesOK(e)
      BY <2>2 DEF FilesOK
    <2>6. Keeps(d, e)
      BY <1>1, <2>2 DEF Keeps
    <2> QED
      BY <1>2, <2>2, <2>3, <2>4, <2>5, <2>6 DEF e
  <1>3. CASE Format(d) # "bin"
    <2>0. Format(d) = "json" /\ d.bin = None
      BY <1>3 DEF Format
    <2>1. e = [d EXCEPT !.json = x]
      BY <2>0 DEF Holding
    <2>2. e = [bin |-> d.bin, json |-> x, meta |-> d.meta, headers |-> d.headers,
               horizon |-> d.horizon]
      BY <2>1 DEF FilesOK
    <2> HIDE DEF e
    <2>3. Format(e) = "json"
      BY <1>1, <2>0, <2>2 DEF Format
    <2>4. BlocksOf(e) = x
      BY <2>2, <2>3 DEF BlocksOf
    <2>5. FilesOK(e)
      BY <2>2 DEF FilesOK
    <2>6. Keeps(d, e)
      BY <1>1, <2>2 DEF Keeps
    <2> QED
      BY <2>0, <2>2, <2>3, <2>4, <2>5, <2>6 DEF e
  <1> QED
    BY <1>2, <1>3

\* A chain's parts are files.
LEMMA PathIs ==
    ASSUME NEW ch, ChainOK(ch)
    PROVE  /\ ch.path \in Records /\ Len(ch.path) \in Nat /\ ch.first \in 0..Len(ch.path)
           /\ SubSeq(ch.path, 1, ch.first) \in Records
           /\ SubSeq(ch.path, ch.first + 1, Len(ch.path)) \in Records
  <1>1. ch.path \in Records /\ Len(ch.path) \in Nat
    BY CheckedRecords, CheckedIs DEF ChainOK
  <1>2. ch.first \in 0..Len(ch.path) /\ ch.first + 1 \in Nat \ {0} /\ Len(ch.path) \in 0..Len(ch.path)
    BY <1>1 DEF ChainOK
  <1>3. SubSeq(ch.path, 1, ch.first) \in Records
    <2>1. 1 \in Nat \ {0}
      OBVIOUS
    <2> QED
      BY <1>1, <1>2, <2>1, Part
  <1>4. SubSeq(ch.path, ch.first + 1, Len(ch.path)) \in Records
    BY <1>1, <1>2, Part
  <1> QED
    BY <1>1, <1>2, <1>3, <1>4

\* What an append adds is records.
LEMMA MissingIs ==
    ASSUME NEW ch, ChainOK(ch), NEW d, FilesOK(d)
    PROVE  Missing(ch, d) \in Records /\ Len(Missing(ch, d)) \in Nat
  <1> DEFINE from == IF StoredCount(d) > ch.first THEN StoredCount(d) ELSE ch.first
  <1>1. StoredCount(d) \in Nat
    BY DEF FilesOK, MetaOK, Metas, StoredCount
  <1>2. ch.path \in Records /\ Len(ch.path) \in Nat /\ ch.first \in Nat
    BY PathIs
  <1>3. from + 1 \in Nat \ {0} /\ Len(ch.path) \in 0..Len(ch.path)
    BY <1>1, <1>2
  <1>4. Missing(ch, d) = SubSeq(ch.path, from + 1, Len(ch.path))
    BY DEF Missing
  <1> HIDE DEF from
  <1>5. Missing(ch, d) \in Records
    BY <1>2, <1>3, <1>4, Part
  <1> QED
    BY <1>5 DEF Records

\* The headers file holds headers.
LEMMA HeadersAre ==
    ASSUME NEW h, HeadersOK(h), h # None
    PROVE  h \in Records /\ Len(h) \in Nat
  <1>1. PICK p \in Checked : h = p \/ h = Append(p, Junk)
    BY DEF HeadersOK
  <1>2. p \in Seq(Blocks \cup {Junk})
    BY CheckedRecords DEF Records
  <1>3. h \in Seq(Blocks \cup {Junk})
    BY <1>1, <1>2, AppendProperties
  <1> QED
    BY <1>3 DEF Records

\* A metadata record is not a missing one.
LEMMA MetaIs ==
    ASSUME NEW m, MetaOK(m)
    PROVE  /\ m # None /\ m.count \in Nat /\ m.first \in Nat /\ m.bytes \in Nat
           /\ m = [count |-> m.count, tip |-> m.tip, by |-> m.by, bytes |-> m.bytes,
                   first |-> m.first, horizonBytes |-> m.horizonBytes,
                   headersBytes |-> m.headersBytes]
  <1>1. m \in Metas /\ None \notin Metas
    BY StoreAssumption DEF MetaOK
  <1> QED
    BY <1>1 DEF Metas

\* Every file has a length.
LEMMA LengthsAre ==
    ASSUME NEW d, FilesOK(d)
    PROVE  BlockBytes(d) \in Nat /\ FlatBytes(d.horizon) \in Nat /\ FlatBytes(d.headers) \in Nat
  <1>1. BlockBytes(d) \in Nat
    <2>1. CASE BlocksOf(d) = None
      BY <2>1 DEF BlockBytes
    <2>2. CASE BlocksOf(d) # None
      BY <2>2, BytesOrNone
    <2> QED
      BY <2>1, <2>2
  <1>2. FlatBytes(d.horizon) \in Nat
    <2>1. d.horizon \in Records \cup {None}
      BY DEF FilesOK
    <2>2. \A x \in Records : Len(x) \in Nat
      BY DEF Records
    <2> QED
      BY <2>1, <2>2 DEF FlatBytes
  <1>3. FlatBytes(d.headers) \in Nat
    <2>1. HeadersOK(d.headers)
      BY DEF FilesOK
    <2>2. CASE d.headers = None
      BY <2>2 DEF FlatBytes
    <2>3. CASE d.headers # None
      <3>1. Len(d.headers) \in Nat
        BY <2>1, <2>3, HeadersAre
      <3> QED
        BY <2>3, <3>1 DEF FlatBytes
    <2> QED
      BY <2>2, <2>3
  <1> QED
    BY <1>1, <1>2, <1>3

\* The record of a save is one this node may write.
LEMMA RecordIs ==
    ASSUME NEW ch, ChainOK(ch), NEW d, FilesOK(d)
    PROVE  MetaOK(MetaFor(ch, d)) /\ MetaFor(ch, d) # None
  <1>1. Len(ch.path) \in Nat /\ ch.path \in Checked /\ ch.first \in Nat
    BY PathIs DEF ChainOK
  <1>2. TipOf(ch.path) \in Blocks \cup {GenesisHash}
    <2>1. ch.path \in Seq(Blocks)
      BY <1>1, CheckedIs
    <2> QED
      BY <2>1, TipIs
  <1>3. MetaFor(ch, d) \in Metas
    BY <1>1, <1>2, LengthsAre, StoreAssumption DEF MetaFor, Metas
  <1>4. MetaOK(MetaFor(ch, d))
    BY <1>1, <1>3 DEF MetaOK, MetaFor
  <1> QED
    BY <1>4, MetaIs

\* The operations a job is made of.
Steps == {"headers", "horizon", "rewrite_all", "rewrite_bodies", "append", "append_bodies", "meta",
          "set_aside", "start_bin", "start_json", "drop_meta", "new_chain",
          "swap_in", "swap_out", "restamp"}

\* No operation, whole or cut short, writes anything but what this node has checked, or
\* what was there.
LEMMA WrittenOK ==
    ASSUME NEW ch, ChainOK(ch), NEW d, FilesOK(d), NEW step \in Steps,
           step \in {"append", "append_bodies"} => BlocksOf(d) # None,
           step = "restamp" => d.meta # None
    PROVE  FilesOK(Written(step, ch, d))
  <1>0. /\ {d.bin, d.json, d.horizon} \subseteq Records \cup {None}
        /\ <<>> \in Records /\ <<>> # None
    <2>1. <<>> \in Records
      BY DEF Records
    <2> QED
      BY <2>1, StoreAssumption DEF FilesOK, Records
  <1>1. CASE step = "headers"
    <2>1. HeadersOK(ch.path)
      BY DEF HeadersOK, ChainOK
    <2> QED
      BY <1>1, <2>1 DEF Written, FilesOK
  <1>2. CASE step = "horizon"
    <2>1. SubSeq(ch.path, 1, ch.first) \in Records
      BY PathIs
    <2> QED
      BY <1>2, <2>1 DEF Written, FilesOK
  <1>3. CASE step \in {"rewrite_all", "rewrite_bodies"}
    <2>1. Written(step, ch, d) = Holding(d, SubSeq(ch.path, ch.first + 1, Len(ch.path)))
      BY <1>3 DEF Written
    <2> QED
      BY <2>1, PathIs, HoldingOK
  <1>4. CASE step \in {"append", "append_bodies"}
    <2>1. Written(step, ch, d) = Holding(d, BlocksOf(d) \o Missing(ch, d))
      BY <1>4 DEF Written
    <2>2. BlocksOf(d) \o Missing(ch, d) \in Records
      BY <1>4, MissingIs, BytesOrNone, Joined
    <2> QED
      BY <2>1, <2>2, HoldingOK
  <1>5. CASE step = "meta"
    <2> QED
      BY <1>5, RecordIs DEF Written, FilesOK
  <1>6. CASE step = "set_aside"
    BY <1>0, <1>6 DEF Written, FilesOK, Holding, Format
  <1>7. CASE step \in {"start_bin", "start_json"}
    BY <1>0, <1>7 DEF Written, FilesOK
  <1>8. CASE step \in {"drop_meta", "new_chain"}
    BY <1>8 DEF Written, FilesOK
  <1>9. CASE step \in {"swap_in", "swap_out"}
    BY <1>0, <1>9 DEF Written, FilesOK
  <1>10. CASE step = "restamp"
    <2>1. MetaOK(d.meta) /\ d.meta # None
      BY <1>10 DEF FilesOK
    <2> DEFINE m == [d.meta EXCEPT !.bytes = BlockBytes(d)]
    <2>2. MetaOK(m)
      BY <2>1, LengthsAre DEF MetaOK, Metas
    <2>3. Written(step, ch, d) = [d EXCEPT !.meta = m]
      BY <1>10 DEF Written
    <2> HIDE DEF m
    <2> QED
      BY <2>2, <2>3 DEF FilesOK
  <1> QED
    BY <1>1, <1>2, <1>3, <1>4, <1>5, <1>6, <1>7, <1>8, <1>9, <1>10 DEF Steps

\* An operation cut short leaves files of the same kind, and changes none but by appending.
LEMMA PartialOK ==
    ASSUME NEW ch, ChainOK(ch), NEW d, FilesOK(d), NEW step,
           step \in {"append", "append_bodies"} => BlocksOf(d) # None,
           NEW e \in Partial(step, ch, d)
    PROVE  /\ FilesOK(e)
           /\ Keeps(d, e)
           /\ e # d => step \in {"append", "append_bodies"}
  <1>1. CASE e = d
    BY <1>1 DEF Keeps
  <1>2. CASE e # d
    <2>1. step \in {"append", "append_bodies"}
      BY <1>2 DEF Partial
    <2>2. PICK n \in 0..Len(Missing(ch, d)), torn \in {<<>>, <<Junk>>} :
             e = Holding(d, BlocksOf(d) \o SubSeq(Missing(ch, d), 1, n) \o torn)
      BY <1>2, <2>1 DEF Partial
    <2>3. SubSeq(Missing(ch, d), 1, n) \in Records
      <3>1. 1 \in Nat \ {0}
        OBVIOUS
      <3> QED
        BY <3>1, MissingIs, Part
    <2>4. BlocksOf(d) \in Records
      BY <2>1, BytesOrNone
    <2> DEFINE y == BlocksOf(d) \o SubSeq(Missing(ch, d), 1, n)
    <2>5. y \in Records
      BY <2>3, <2>4, Joined
    <2> HIDE DEF y
    <2>6. y \o torn \in Records /\ y \o torn # None
      BY <2>5, Joined, Torn
    <2>7. e = Holding(d, y \o torn)
      BY <2>2 DEF y
    <2> QED
      BY <2>1, <2>6, <2>7, HoldingOK
  <1> QED
    BY <1>1, <1>2

\* Cutting the tail keeps what is left.
LEMMA RecoveredOK ==
    ASSUME NEW d, FilesOK(d), BlocksOf(d) # None
    PROVE  /\ FilesOK(Recovered(d)) /\ BlocksOf(Recovered(d)) # None
           /\ Keeps(d, Recovered(d))
  <1>1. CASE Recovered(d) = d
    BY <1>1 DEF Keeps
  <1>2. CASE Recovered(d) # d
    <2>1. Recovered(d) = Holding(d, SubSeq(BlocksOf(d), 1, d.meta.count)) /\ CommittedPrefix(d) # {}
      BY <1>2 DEF Recovered
    <2>2. d.meta.count \in 0..Len(BlocksOf(d))
      BY <2>1 DEF CommittedPrefix
    <2>3. SubSeq(BlocksOf(d), 1, d.meta.count) \in Records /\ SubSeq(BlocksOf(d), 1, d.meta.count) # None
      <3>1. 1 \in Nat \ {0}
        OBVIOUS
      <3> QED
        BY <2>2, <3>1, BytesOrNone, Part
    <2> QED
      BY <2>1, <2>3, HoldingOK
  <1> QED
    BY <1>1, <1>2

-----------------------------------------------------------------------------
(* What is left to do of a job *)

\* Of what is not fsynced something is there.
UnsyncedOK(d) ==
    /\ unsynced \subseteq {"bin", "json", "headers", "horizon", "meta"}
    /\ "bin" \in unsynced => d.bin # None
    /\ "json" \in unsynced => d.json # None
    /\ "headers" \in unsynced => d.headers # None
    /\ "horizon" \in unsynced => d.horizon # None

\* Jobs that append to the blocks file.
Appending ==
    {<<"append", "meta">>, <<"append_bodies", "meta">>, <<"horizon", "append_bodies", "meta">>,
     <<"headers", "horizon", "append_bodies", "meta">>}

\* What may be left of a save of ch,
ToSave(ch) ==
    IF ch.first = 0 THEN {<<"meta">>, <<"append", "meta">>, <<"rewrite_all", "meta">>}
    ELSE {<<"meta">>, <<"horizon", "meta">>, <<"headers", "horizon", "meta">>,
          <<"append_bodies", "meta">>, <<"horizon", "append_bodies", "meta">>,
          <<"headers", "horizon", "append_bodies", "meta">>,
          <<"rewrite_bodies", "meta">>, <<"horizon", "rewrite_bodies", "meta">>,
          <<"headers", "horizon", "rewrite_bodies", "meta">>}

\* of a resync,
ToReset ==
    {<<"set_aside", "start_bin", "drop_meta", "new_chain", "meta">>,
     <<"set_aside", "start_json", "drop_meta", "new_chain", "meta">>,
     <<"start_bin", "drop_meta", "new_chain", "meta">>,
     <<"start_json", "drop_meta", "new_chain", "meta">>,
     <<"drop_meta", "new_chain", "meta">>, <<"new_chain", "meta">>,
     <<"drop_meta", "new_chain", "rewrite_all", "meta">>, <<"new_chain", "rewrite_all", "meta">>}

\* and of a migration.
ToMigrate ==
    {<<"swap_in", "swap_out">>, <<"swap_in", "swap_out", "restamp">>,
     <<"swap_out">>, <<"swap_out", "restamp">>, <<"restamp">>}

\* A migration that has yet to write the binary file,
SwapsIn(j) == j \in {<<"swap_in", "swap_out">>, <<"swap_in", "swap_out", "restamp">>}
\* and one that will write its length into the record.
Restamps(j) ==
    j \in {<<"swap_in", "swap_out", "restamp">>, <<"swap_out", "restamp">>, <<"restamp">>}

\* What is left to do fits what the node is doing, and finds the files it needs.
JobOK ==
    /\ mode \in {"down", "loading", "up", "refused", "migrating"}
    /\ mode \in {"down", "refused"} => job = <<>>
    /\ mode = "loading" => job \in ToSave(mem) \cup {<<>>}
    /\ mode = "up" => job \in ToSave(mem) \cup ToReset \cup {<<>>}
    /\ mode = "migrating" =>
          /\ job \in ToMigrate
          /\ IF SwapsIn(job) THEN disk.json # None ELSE disk.bin # None
          /\ Restamps(job) => disk.meta # None
    /\ job \in Appending => BlocksOf(disk) # None

\* A save's next operation and what is left after it.
LEMMA SaveHead ==
    ASSUME NEW ch, NEW j \in ToSave(ch)
    PROVE  /\ Head(j) \in {"headers", "horizon", "rewrite_all", "rewrite_bodies", "append",
                           "append_bodies", "meta"}
           /\ Tail(j) \in ToSave(ch) \cup {<<>>}
           /\ Tail(j) \in Appending => j \in Appending /\ Head(j) \in {"headers", "horizon"}
           /\ Head(j) \in {"append", "append_bodies"} => j \in Appending
           /\ j # <<>>
  <1>1. CASE j = <<"meta">>
    BY <1>1 DEF ToSave, Appending
  <1>2. CASE j = <<"append", "meta">>
    <2>1. Head(j) = "append" /\ Tail(j) = <<"meta">> /\ j # <<>>
      BY <1>2
    <2> QED
      BY <1>2, <2>1 DEF ToSave, Appending
  <1>3. CASE j = <<"rewrite_all", "meta">>
    <2>1. Head(j) = "rewrite_all" /\ Tail(j) = <<"meta">> /\ j # <<>>
      BY <1>3
    <2> QED
      BY <1>3, <2>1 DEF ToSave, Appending
  <1>4. CASE j = <<"horizon", "meta">>
    <2>1. Head(j) = "horizon" /\ Tail(j) = <<"meta">> /\ j # <<>>
      BY <1>4
    <2> QED
      BY <1>4, <2>1 DEF ToSave, Appending
  <1>5. CASE j = <<"headers", "horizon", "meta">>
    <2>1. Head(j) = "headers" /\ Tail(j) = <<"horizon", "meta">> /\ j # <<>>
      BY <1>5
    <2> QED
      BY <1>5, <2>1 DEF ToSave, Appending
  <1>6. CASE j = <<"append_bodies", "meta">>
    <2>1. Head(j) = "append_bodies" /\ Tail(j) = <<"meta">> /\ j # <<>>
      BY <1>6
    <2> QED
      BY <1>6, <2>1 DEF ToSave, Appending
  <1>7. CASE j = <<"horizon", "append_bodies", "meta">>
    <2>1. Head(j) = "horizon" /\ Tail(j) = <<"append_bodies", "meta">> /\ j # <<>>
      BY <1>7
    <2> QED
      BY <1>7, <2>1 DEF ToSave, Appending
  <1>8. CASE j = <<"headers", "horizon", "append_bodies", "meta">>
    <2>1. Head(j) = "headers" /\ Tail(j) = <<"horizon", "append_bodies", "meta">> /\ j # <<>>
      BY <1>8
    <2> QED
      BY <1>8, <2>1 DEF ToSave, Appending
  <1>9. CASE j = <<"rewrite_bodies", "meta">>
    <2>1. Head(j) = "rewrite_bodies" /\ Tail(j) = <<"meta">> /\ j # <<>>
      BY <1>9
    <2> QED
      BY <1>9, <2>1 DEF ToSave, Appending
  <1>10. CASE j = <<"horizon", "rewrite_bodies", "meta">>
    <2>1. Head(j) = "horizon" /\ Tail(j) = <<"rewrite_bodies", "meta">> /\ j # <<>>
      BY <1>10
    <2> QED
      BY <1>10, <2>1 DEF ToSave, Appending
  <1>11. CASE j = <<"headers", "horizon", "rewrite_bodies", "meta">>
    <2>1. Head(j) = "headers" /\ Tail(j) = <<"horizon", "rewrite_bodies", "meta">> /\ j # <<>>
      BY <1>11
    <2> QED
      BY <1>11, <2>1 DEF ToSave, Appending
  <1> QED
    BY <1>1, <1>2, <1>3, <1>4, <1>5, <1>6, <1>7, <1>8, <1>9, <1>10, <1>11 DEF ToSave

\* A resync ends with the save of the empty chain.
LEMMA ResetHead ==
    ASSUME NEW j \in ToReset
    PROVE  /\ Head(j) \in {"set_aside", "start_bin", "start_json", "drop_meta", "new_chain"}
           /\ IF Head(j) = "new_chain"
              THEN Tail(j) \in {<<"meta">>, <<"rewrite_all", "meta">>}
              ELSE Tail(j) \in ToReset
           /\ j \notin Appending /\ Tail(j) \notin Appending
           /\ j # <<>>
  <1>1. CASE j = <<"set_aside", "start_bin", "drop_meta", "new_chain", "meta">>
    <2>1. /\ Head(j) = "set_aside" /\ j # <<>>
          /\ Tail(j) = <<"start_bin", "drop_meta", "new_chain", "meta">>
      BY <1>1
    <2> QED
      BY <1>1, <2>1 DEF ToReset, Appending
  <1>2. CASE j = <<"set_aside", "start_json", "drop_meta", "new_chain", "meta">>
    <2>1. /\ Head(j) = "set_aside" /\ j # <<>>
          /\ Tail(j) = <<"start_json", "drop_meta", "new_chain", "meta">>
      BY <1>2
    <2> QED
      BY <1>2, <2>1 DEF ToReset, Appending
  <1>3. CASE j = <<"start_bin", "drop_meta", "new_chain", "meta">>
    <2>1. /\ Head(j) = "start_bin" /\ j # <<>>
          /\ Tail(j) = <<"drop_meta", "new_chain", "meta">>
      BY <1>3
    <2> QED
      BY <1>3, <2>1 DEF ToReset, Appending
  <1>4. CASE j = <<"start_json", "drop_meta", "new_chain", "meta">>
    <2>1. /\ Head(j) = "start_json" /\ j # <<>>
          /\ Tail(j) = <<"drop_meta", "new_chain", "meta">>
      BY <1>4
    <2> QED
      BY <1>4, <2>1 DEF ToReset, Appending
  <1>5. CASE j = <<"drop_meta", "new_chain", "meta">>
    <2>1. Head(j) = "drop_meta" /\ Tail(j) = <<"new_chain", "meta">> /\ j # <<>>
      BY <1>5
    <2> QED
      BY <1>5, <2>1 DEF ToReset, Appending
  <1>6. CASE j = <<"new_chain", "meta">>
    <2>1. Head(j) = "new_chain" /\ Tail(j) = <<"meta">> /\ j # <<>>
      BY <1>6
    <2> QED
      BY <1>6, <2>1 DEF ToReset, Appending
  <1>7. CASE j = <<"drop_meta", "new_chain", "rewrite_all", "meta">>
    <2>1. /\ Head(j) = "drop_meta" /\ j # <<>>
          /\ Tail(j) = <<"new_chain", "rewrite_all", "meta">>
      BY <1>7
    <2> QED
      BY <1>7, <2>1 DEF ToReset, Appending
  <1>8. CASE j = <<"new_chain", "rewrite_all", "meta">>
    <2>1. Head(j) = "new_chain" /\ Tail(j) = <<"rewrite_all", "meta">> /\ j # <<>>
      BY <1>8
    <2> QED
      BY <1>8, <2>1 DEF ToReset, Appending
  <1> QED
    BY <1>1, <1>2, <1>3, <1>4, <1>5, <1>6, <1>7, <1>8 DEF ToReset

\* A migration swaps the new file in before the old one goes.
LEMMA MigrateHead ==
    ASSUME NEW j \in ToMigrate
    PROVE  /\ Head(j) = IF SwapsIn(j) THEN "swap_in" ELSE IF j = <<"restamp">> THEN "restamp"
                        ELSE "swap_out"
           /\ Len(j) # 1 => Tail(j) \in ToMigrate /\ ~SwapsIn(Tail(j))
                            /\ (Restamps(Tail(j)) => Restamps(j)) /\ j # <<"restamp">>
           /\ Len(j) = 1 => Tail(j) = <<>> /\ ~SwapsIn(j)
           /\ j = <<"restamp">> => Restamps(j) /\ ~SwapsIn(j)
           /\ j \notin Appending /\ Tail(j) \notin Appending
           /\ j # <<>>
  <1>1. CASE j = <<"swap_in", "swap_out">>
    <2>1. Head(j) = "swap_in" /\ Tail(j) = <<"swap_out">> /\ j # <<>> /\ Len(j) # 1
      BY <1>1
    <2> QED
      BY <1>1, <2>1 DEF ToMigrate, Appending, SwapsIn, Restamps
  <1>2. CASE j = <<"swap_in", "swap_out", "restamp">>
    <2>1. Head(j) = "swap_in" /\ Tail(j) = <<"swap_out", "restamp">> /\ j # <<>> /\ Len(j) # 1
      BY <1>2
    <2> QED
      BY <1>2, <2>1 DEF ToMigrate, Appending, SwapsIn, Restamps
  <1>3. CASE j = <<"swap_out">>
    <2>1. Head(j) = "swap_out" /\ Tail(j) = <<>> /\ j # <<>> /\ Len(j) = 1
      BY <1>3
    <2> QED
      BY <1>3, <2>1 DEF ToMigrate, Appending, SwapsIn, Restamps
  <1>4. CASE j = <<"swap_out", "restamp">>
    <2>1. Head(j) = "swap_out" /\ Tail(j) = <<"restamp">> /\ j # <<>> /\ Len(j) # 1
      BY <1>4
    <2> QED
      BY <1>4, <2>1 DEF ToMigrate, Appending, SwapsIn, Restamps
  <1>5. CASE j = <<"restamp">>
    <2>1. Head(j) = "restamp" /\ Tail(j) = <<>> /\ j # <<>> /\ Len(j) = 1
      BY <1>5
    <2> QED
      BY <1>5, <2>1 DEF ToMigrate, Appending, SwapsIn, Restamps
  <1> QED
    BY <1>1, <1>2, <1>3, <1>4, <1>5 DEF ToMigrate

-----------------------------------------------------------------------------
(* Where a job begins *)

\* The operations of a pruned save that changes the bodies,
LEMMA TwoAndTwo ==
    ASSUME NEW a, NEW b, NEW c, NEW e
    PROVE  <<a, b>> \o <<c, e>> = <<a, b, c, e>>
  <1> DEFINE S == {a, b, c, e}
             s == <<a, b>>
             t == <<c, e>>
             u == s \o t
             v == <<a, b, c, e>>
  <1>1. s \in Seq(S) /\ t \in Seq(S) /\ Len(s) = 2 /\ Len(t) = 2
    OBVIOUS
  <1>2. /\ u \in Seq(S) /\ Len(u) = Len(s) + Len(t)
        /\ \A i \in 1..(Len(s) + Len(t)) : u[i] = IF i <= Len(s) THEN s[i] ELSE t[i - Len(s)]
    BY <1>1, ConcatProperties
  <1>3. s[1] = a /\ s[2] = b /\ t[1] = c /\ t[2] = e
    OBVIOUS
  <1>4. v \in Seq(S) /\ Len(v) = 4 /\ v[1] = a /\ v[2] = b /\ v[3] = c /\ v[4] = e
    OBVIOUS
  <1> HIDE DEF s, t, u, v
  <1>5. Len(u) = 4 /\ u[1] = a /\ u[2] = b /\ u[3] = c /\ u[4] = e
    BY <1>1, <1>2, <1>3
  <1>6. \A i \in 1..4 : u[i] = v[i]
    BY <1>4, <1>5
  <1>7. u = v
    BY <1>2, <1>4, <1>5, <1>6, SeqEqual
  <1> QED
    BY <1>7 DEF s, t, u, v

\* and of a resync.
LEMMA FourAndOne ==
    ASSUME NEW a, NEW b, NEW c, NEW e, NEW f
    PROVE  <<a, b, c, e>> \o <<f>> = <<a, b, c, e, f>>
  <1> DEFINE S == {a, b, c, e, f}
             s == <<a, b, c, e>>
             t == <<f>>
             u == s \o t
             v == <<a, b, c, e, f>>
  <1>1. s \in Seq(S) /\ t \in Seq(S) /\ Len(s) = 4 /\ Len(t) = 1
    OBVIOUS
  <1>2. /\ u \in Seq(S) /\ Len(u) = Len(s) + Len(t)
        /\ \A i \in 1..(Len(s) + Len(t)) : u[i] = IF i <= Len(s) THEN s[i] ELSE t[i - Len(s)]
    BY <1>1, ConcatProperties
  <1>3. s[1] = a /\ s[2] = b /\ s[3] = c /\ s[4] = e /\ t[1] = f
    OBVIOUS
  <1>4. v \in Seq(S) /\ Len(v) = 5 /\ v[1] = a /\ v[2] = b /\ v[3] = c /\ v[4] = e /\ v[5] = f
    OBVIOUS
  <1> HIDE DEF s, t, u, v
  <1>5. Len(u) = 5 /\ u[1] = a /\ u[2] = b /\ u[3] = c /\ u[4] = e /\ u[5] = f
    BY <1>1, <1>2, <1>3
  <1>6. \A i \in 1..5 : u[i] = v[i]
    BY <1>4, <1>5
  <1>7. u = v
    BY <1>2, <1>4, <1>5, <1>6, SeqEqual
  <1> QED
    BY <1>7 DEF s, t, u, v

\* The job of a resync: an empty file is started where there was one.
LEMMA ResetSteps ==
    ASSUME NEW d, FilesOK(d)
    PROVE  LET aside == IF BlocksOf(d) = None THEN <<>>
                        ELSE <<"set_aside", IF Format(d) = "bin" THEN "start_bin" ELSE "start_json">>
               empty == [d EXCEPT ![Format(d)] = IF @ = None THEN @ ELSE <<>>, !.meta = None]
               j     == aside \o <<"drop_meta", "new_chain">> \o SaveSteps(NoChain, empty)
           IN  /\ j \in ToReset /\ j # <<>>
               /\ BlocksOf(d) = None => j = <<"drop_meta", "new_chain", "rewrite_all", "meta">>
               /\ BlocksOf(d) # None =>
                     j = <<"set_aside", IF Format(d) = "bin" THEN "start_bin" ELSE "start_json",
                           "drop_meta", "new_chain", "meta">>
  <1> DEFINE st == IF Format(d) = "bin" THEN "start_bin" ELSE "start_json"
             aside == IF BlocksOf(d) = None THEN <<>> ELSE <<"set_aside", st>>
             empty == [d EXCEPT ![Format(d)] = IF @ = None THEN @ ELSE <<>>, !.meta = None]
             j == aside \o <<"drop_meta", "new_chain">> \o SaveSteps(NoChain, empty)
  <1>1. <<>> # None
    <2>1. <<>> \in Seq(Blocks \cup {Junk})
      OBVIOUS
    <2> QED
      BY <2>1, StoreAssumption
  <1>2. empty.meta = None /\ (BlocksOf(empty) = None <=> BlocksOf(d) = None)
    <2>1. CASE Format(d) = "bin"
      <3>1. empty = [bin |-> IF d.bin = None THEN d.bin ELSE <<>>, json |-> d.json, meta |-> None,
                     headers |-> d.headers, horizon |-> d.horizon]
        <4>1. empty = [d EXCEPT !.bin = IF d.bin = None THEN d.bin ELSE <<>>, !.meta = None]
          BY <2>1
        <4> HIDE DEF empty
        <4> QED
          BY <4>1 DEF FilesOK
      <3> HIDE DEF empty
      <3> QED
        BY <1>1, <2>1, <3>1 DEF BlocksOf, Format
    <2>2. CASE Format(d) # "bin"
      <3>1. Format(d) = "json" /\ d.bin = None /\ d.json # None
        BY <2>2 DEF Format
      <3>2. empty = [bin |-> d.bin, json |-> IF d.json = None THEN d.json ELSE <<>>, meta |-> None,
                     headers |-> d.headers, horizon |-> d.horizon]
        <4>1. empty = [d EXCEPT !.json = IF d.json = None THEN d.json ELSE <<>>, !.meta = None]
          BY <3>1
        <4> HIDE DEF empty
        <4> QED
          BY <4>1 DEF FilesOK
      <3> HIDE DEF empty
      <3> QED
        BY <1>1, <3>1, <3>2 DEF BlocksOf, Format
    <2> QED
      BY <2>1, <2>2
  <1> HIDE DEF empty
  <1>3. SaveSteps(NoChain, empty) = IF BlocksOf(d) = None THEN <<"rewrite_all", "meta">> ELSE <<"meta">>
    <2>1. StoredCount(empty) = 0
      BY <1>2 DEF StoredCount
    <2>2. NoChain.first = 0 /\ Len(NoChain.path) = 0
      BY DEF NoChain
    <2> QED
      BY <1>2, <2>1, <2>2 DEF SaveSteps
  <1>4. CASE BlocksOf(d) = None
    <2>1. <<>> \o <<"drop_meta", "new_chain">> = <<"drop_meta", "new_chain">>
      <3>1. <<"drop_meta", "new_chain">> \in Seq({"drop_meta", "new_chain"})
        OBVIOUS
      <3> QED
        BY <3>1, ConcatEmptySeq
    <2>2. j = <<"drop_meta", "new_chain", "rewrite_all", "meta">>
      BY <1>3, <1>4, <2>1, TwoAndTwo
    <2>3. j \in ToReset /\ j # <<>>
      <3> HIDE DEF j
      <3> QED
        BY <2>2 DEF ToReset
    <2> QED
      BY <1>4, <2>2, <2>3 DEF empty
  <1>5. CASE BlocksOf(d) # None
    <2> HIDE DEF st
    <2>1. <<"set_aside", st>> \o <<"drop_meta", "new_chain">>
          = <<"set_aside", st, "drop_meta", "new_chain">>
      BY TwoAndTwo
    <2>2. <<"set_aside", st, "drop_meta", "new_chain">> \o <<"meta">>
          = <<"set_aside", st, "drop_meta", "new_chain", "meta">>
      BY FourAndOne
    <2>3. j = <<"set_aside", st, "drop_meta", "new_chain", "meta">>
      BY <1>3, <1>5, <2>1, <2>2
    <2>4. j \in ToReset /\ j # <<>>
      <3>1. st \in {"start_bin", "start_json"}
        BY DEF st
      <3> HIDE DEF j
      <3> QED
        BY <2>3, <3>1 DEF ToReset
    <2> QED
      BY <1>5, <2>3, <2>4 DEF empty, st
  <1> QED
    BY <1>4, <1>5

\* A save begins with one of the jobs above, and appends to nothing but a file.
LEMMA SaveBegins ==
    ASSUME NEW ch, ChainOK(ch), NEW d
    PROVE  /\ SaveSteps(ch, d) \in ToSave(ch)
           /\ SaveSteps(ch, d) \in Appending => BlocksOf(d) # None
           /\ SaveSteps(ch, d) # <<>>
  <1>1. CASE ch.first = 0
    BY <1>1 DEF SaveSteps, ToSave, Appending
  <1>2. CASE ch.first # 0
    BY <1>2 DEF SaveSteps, ToSave, Appending
  <1> QED
    BY <1>1, <1>2

\* A chain that is pruned keeps its path and a body.
LEMMA Pruned ==
    ASSUME NEW ch, ChainOK(ch), NEW on
    PROVE  /\ ChainOK(PrunedTo(ch, on)) /\ PrunedTo(ch, on).path = ch.path
           /\ ch.first <= PrunedTo(ch, on).first
  <1>1. ch.first \in Nat /\ Len(ch.path) \in Nat /\ Keep \in Nat \ {0}
    BY PathIs, StoreAssumption
  <1>2. CASE PrunedTo(ch, on) = ch
    BY <1>1, <1>2
  <1>3. CASE PrunedTo(ch, on) # ch
    <2> DEFINE f == Len(ch.path) - Keep
    <2>1. Len(ch.path) - ch.first > Keep /\ PrunedTo(ch, on) = [ch EXCEPT !.first = f]
      BY <1>3 DEF PrunedTo
    <2>2. PrunedTo(ch, on) = [path |-> ch.path, first |-> f]
      BY <2>1 DEF ChainOK
    <2>3. f \in Nat /\ f < Len(ch.path) /\ ch.first <= f
      BY <1>1, <2>1
    <2> HIDE DEF f
    <2> QED
      BY <2>2, <2>3 DEF ChainOK
  <1> QED
    BY <1>2, <1>3

-----------------------------------------------------------------------------
(* The invariant of the chain's safety *)

\* Our record names a chain of verified blocks, the headers are of one or were cut short, and
\* the chain in memory is one; the blocks file may hold anything.
SafeInv ==
    /\ FilesOK(disk) /\ ChainOK(mem) /\ UnsyncedOK(disk) /\ JobOK
    /\ image # None => FilesOK(image) /\ BlocksOf(image) # None

\* The empty chain is verified.
LEMMA NoChainOK == ChainOK(NoChain) /\ NoChain = [path |-> <<>>, first |-> 0]
  <1>1. <<>> \in Seq(Blocks) /\ Len(<<>>) = 0
    OBVIOUS
  <1>2. \A i \in 1..Len(<<>>) : FALSE
    BY <1>1
  <1>3. <<>> \in Checked
    BY <1>1, <1>2, CheckedIs
  <1> QED
    BY <1>3 DEF ChainOK, NoChain

\* What a datadir holds before the first start.
LEMMA GivenDirOK ==
    ASSUME NEW d \in InitialDirs
    PROVE  /\ FilesOK(d)
           /\ d # Empty => /\ BlocksOf(d) # None /\ BlocksOf(d) \in Records
                           /\ d.meta.first = 0 /\ d.meta.count = Len(BlocksOf(d))
                           /\ d.meta.tip = TipOf(BlocksOf(d))
                           /\ d.meta.by = Me => BlocksOf(d) \in Checked
  <1>1. CASE d = Empty
    BY <1>1 DEF Empty, FilesOK, HeadersOK
  <1>2. CASE d # Empty
    <2> DEFINE fmt == Format(d)
               x == BlocksOf(d)
               by == d.meta.by
    <2>1. /\ x \in Seq(Blocks) /\ Links(<<>>, x) /\ d = SavedBy(by, fmt, x)
          /\ by \in Installs /\ (by = Me => Verifies(x))
      BY <1>2, DirAssumption
    <2>2. fmt \in {"bin", "json"}
      BY DEF Format
    <2> HIDE DEF fmt, x, by
    <2> DEFINE bare == [bin |-> IF fmt = "bin" THEN x ELSE None,
                        json |-> IF fmt = "json" THEN x ELSE None,
                        meta |-> None, headers |-> None, horizon |-> None]
               ch == [path |-> x, first |-> 0]
               m == [count |-> Len(x), tip |-> TipOf(x), by |-> by, bytes |-> BlockBytes(bare),
                     first |-> 0, horizonBytes |-> FlatBytes(None), headersBytes |-> FlatBytes(None)]
    <2>3. [Empty EXCEPT ![fmt] = x] = bare
      <3>1. CASE fmt = "bin"
        <4>1. [Empty EXCEPT ![fmt] = x] = [Empty EXCEPT !.bin = x]
          BY <3>1
        <4> QED
          BY <3>1, <4>1 DEF Empty
      <3>2. CASE fmt = "json"
        <4>1. [Empty EXCEPT ![fmt] = x] = [Empty EXCEPT !.json = x]
          BY <3>2
        <4> QED
          BY <3>2, <4>1 DEF Empty
      <3> QED
        BY <2>2, <3>1, <3>2
    <2>4. [MetaFor(ch, bare) EXCEPT !.by = by] = m
      BY DEF MetaFor
    <2>5. d = [bin |-> IF fmt = "bin" THEN x ELSE None, json |-> IF fmt = "json" THEN x ELSE None,
               meta |-> m, headers |-> None, horizon |-> None]
      <3>1. d = [bare EXCEPT !.meta = m]
        BY <2>1, <2>3, <2>4 DEF SavedBy
      <3> HIDE DEF m
      <3> QED
        BY <3>1
    <2>6. x \in Records /\ TipOf(x) \in Blocks \cup {GenesisHash} /\ Len(x) \in Nat
      <3>1. x \in Seq(Blocks)
        BY <2>1
      <3> QED
        BY <3>1, TipIs DEF Records
    <2>7. MetaOK(m)
      <3>1. FilesOK(bare)
        BY <2>6 DEF FilesOK, HeadersOK
      <3>2. BlockBytes(bare) \in Nat
        BY <3>1, LengthsAre
      <3>3. FlatBytes(None) = 0
        BY DEF FlatBytes
      <3>4. m \in Metas
        BY <2>1, <2>6, <3>2, <3>3 DEF Metas
      <3>5. by = Me => x \in Checked
        BY <2>1 DEF Checked
      <3>6. m.by = by /\ m.count = Len(x) /\ m.tip = TipOf(x)
        OBVIOUS
      <3> HIDE DEF m
      <3> QED
        BY <3>4, <3>5, <3>6 DEF MetaOK
    <2>8. m.first = 0 /\ m.count = Len(x) /\ m.tip = TipOf(x) /\ m.by = by /\ d.meta = m
      BY <2>5
    <2>9. by = Me => x \in Checked
      BY <2>1 DEF Checked
    <2> HIDE DEF m
    <2>10. FilesOK(d)
      BY <2>5, <2>6, <2>7 DEF FilesOK, HeadersOK
    <2> QED
      BY <2>6, <2>8, <2>9, <2>10, StoreAssumption DEF x, by, Records
  <1> QED
    BY <1>1, <1>2

\* No start has happened.
LEMMA SafeInit == Init => SafeInv
  <1> SUFFICES ASSUME Init PROVE SafeInv
    OBVIOUS
  <1>1. FilesOK(disk)
    BY GivenDirOK DEF Init
  <1>2. ChainOK(mem)
    BY NoChainOK DEF Init
  <1>3. UnsyncedOK(disk)
    BY DEF Init, UnsyncedOK
  <1>4. JobOK
    <2>1. <<>> \notin Appending
      BY DEF Appending
    <2> QED
      BY <2>1 DEF Init, JobOK
  <1> QED
    BY <1>1, <1>2, <1>3, <1>4 DEF SafeInv, Init

\* A save begins.
LEMMA SafeBegin ==
    ASSUME SafeInv, NEW ch, ChainOK(ch), NEW on, BeginSave(ch, on, disk),
           mode' \in {"loading", "up"}, UNCHANGED <<disk, unsynced>>, image' = image \/ image' = None
    PROVE  SafeInv'
  <1>1. ChainOK(mem') /\ mem' = PrunedTo(ch, on) /\ job' = SaveSteps(mem', disk)
    BY Pruned DEF BeginSave
  <1>2. job' \in ToSave(mem') /\ (job' \in Appending => BlocksOf(disk') # None)
    BY <1>1, SaveBegins
  <1>3. JobOK'
    BY <1>2 DEF JobOK
  <1>4. FilesOK(disk') /\ UnsyncedOK(disk)'
    BY DEF SafeInv, UnsyncedOK
  <1>5. (image # None => FilesOK(image) /\ BlocksOf(image) # None)'
    BY DEF SafeInv
  <1> QED
    BY <1>1, <1>3, <1>4, <1>5 DEF SafeInv

\* Every chain that full verification accepts is of verified blocks.
LEMMA PathsChecked == ASSUME NEW p \in Paths PROVE p \in Checked
  <1>1. PICK n \in 0..Cardinality(Blocks) : p \in [1..n -> Blocks \ Invalid]
    BY DEF Paths
  <1>2. p \in Seq(Blocks) /\ Verifies(p)
    <2>1. n \in Nat
      BY <1>1
    <2>2. p \in [1..n -> Blocks]
      BY <1>1
    <2> QED
      BY <2>1, <2>2, SeqDef DEF Paths
  <1> QED
    BY <1>2 DEF Checked

\* The chain moves to one that is verified.
LEMMA SafeMove == ASSUME SafeInv, NEW p \in Paths, Move(p) PROVE SafeInv'
  <1> DEFINE ch == [mem EXCEPT !.path = p]
  <1>1. ch = [path |-> p, first |-> mem.first] /\ mem.first \in Nat /\ Len(p) > mem.first
    BY DEF SafeInv, ChainOK, Move
  <1>2. p \in Checked /\ Len(p) \in Nat
    BY PathsChecked, CheckedIs
  <1>3. ChainOK(ch)
    BY <1>1, <1>2 DEF ChainOK
  <1> HIDE DEF ch
  <1>4. BeginSave(ch, prune, disk) /\ mode' = "up" /\ UNCHANGED <<disk, unsynced, image>>
    BY DEF Move, ch, Running
  <1> QED
    BY <1>3, <1>4, SafeBegin

\* A save begins.
LEMMA SafePersist == ASSUME SafeInv, PersistLoop PROVE SafeInv'
  <1>1. ChainOK(mem) /\ BeginSave(mem, prune, disk) /\ mode' = "up" /\ UNCHANGED <<disk, unsynced, image>>
    BY DEF SafeInv, PersistLoop, Running
  <1> QED
    BY <1>1, SafeBegin

\* Pruning is turned on, and what is kept is saved.
LEMMA SafeSetPrune == ASSUME SafeInv, SetPrune PROVE SafeInv'
  <1>1. /\ ChainOK(mem) /\ BeginSave(mem, TRUE, disk) /\ mode' \in {"loading", "up"}
        /\ UNCHANGED <<disk, unsynced, image>>
    BY DEF SafeInv, SetPrune
  <1> QED
    BY <1>1, SafeBegin

\* A resync begins.
LEMMA SafeResync == ASSUME SafeInv, Resync PROVE SafeInv'
  <1>1. job' \in ToReset /\ mode' = "up" /\ UNCHANGED <<disk, unsynced, mem, image>>
    <2>1. FilesOK(disk)
      BY DEF SafeInv
    <2> QED
      BY <2>1, ResetSteps DEF Resync, Running
  <1>2. job' \notin Appending
    BY <1>1, ResetHead
  <1>3. JobOK'
    BY <1>1, <1>2 DEF JobOK
  <1> QED
    BY <1>1, <1>3 DEF SafeInv, UnsyncedOK

\* The next operation of a job.
LEMMA JobHead ==
    ASSUME SafeInv, job # <<>>
    PROVE  /\ Head(job) \in Steps
           /\ Head(job) \in {"append", "append_bodies"} => BlocksOf(disk) # None
           /\ Head(job) = "restamp" => disk.meta # None
           /\ mode \in {"loading", "up"} => Head(job) \notin {"swap_in", "swap_out", "restamp"}
  <1>1. CASE mode \in {"loading", "up"} /\ job \in ToSave(mem)
    BY <1>1, SaveHead DEF SafeInv, JobOK, Steps
  <1>2. CASE mode \in {"loading", "up"} /\ job \in ToReset
    BY <1>2, ResetHead DEF Steps
  <1>3. CASE mode = "migrating"
    <2>1. job \in ToMigrate /\ (Restamps(job) => disk.meta # None)
      BY <1>3 DEF SafeInv, JobOK
    <2> QED
      BY <1>3, <2>1, MigrateHead DEF Steps
  <1> QED
    BY <1>1, <1>2, <1>3 DEF SafeInv, JobOK

\* The operation a job begins with keeps the files, and what is not fsynced is there.
LEMMA StepOK ==
    ASSUME SafeInv, job # <<>>, disk' = Written(Head(job), mem, disk),
           unsynced' = UnsyncedAfter(Head(job)), Head(job) = "swap_in" => disk.json # None
    PROVE  FilesOK(disk') /\ UnsyncedOK(disk)'
  <1> DEFINE step == Head(job)
  <1>1. FilesOK(disk) /\ ChainOK(mem) /\ UnsyncedOK(disk)
    BY DEF SafeInv
  <1>2. /\ step \in Steps
        /\ step \in {"append", "append_bodies"} => BlocksOf(disk) # None
        /\ step = "restamp" => disk.meta # None
    BY JobHead
  <1> HIDE DEF step
  <1>3. disk' = Written(step, mem, disk) /\ unsynced' = UnsyncedAfter(step)
    BY DEF step
  <1>4. FilesOK(disk')
    BY <1>1, <1>2, <1>3, WrittenOK
  <1>5. disk = [bin |-> disk.bin, json |-> disk.json, meta |-> disk.meta,
                headers |-> disk.headers, horizon |-> disk.horizon]
    BY <1>1 DEF FilesOK
  <1>6. /\ Format(disk) = "bin" \/ (Format(disk) = "json" /\ disk.bin = None)
        /\ \A x : /\ Format(disk) = "bin" => Holding(disk, x) = [disk EXCEPT !.bin = x]
                  /\ Format(disk) = "json" => Holding(disk, x) = [disk EXCEPT !.json = x]
    BY DEF Format, Holding
  <1>7. ASSUME NEW x \in Records, disk' = Holding(disk, x)
        PROVE  Keeps(disk, disk') /\ (Format(disk) = "bin" => disk'.bin # None)
               /\ (Format(disk) = "json" => disk'.json # None)
    <2>1. x # None
      BY StoreAssumption DEF Records
    <2> QED
      BY <1>1, <1>7, <2>1, HoldingOK
  <1>8. CASE step \in {"append", "append_bodies", "rewrite_all", "rewrite_bodies"}
    <2>1. PICK x \in Records : disk' = Holding(disk, x)
      <3>1. CASE step \in {"append", "append_bodies"}
        <4>1. BlocksOf(disk) \o Missing(mem, disk) \in Records
          BY <1>1, <1>2, <3>1, MissingIs, BytesOrNone, Joined
        <4> QED
          BY <1>3, <3>1, <4>1 DEF Written
      <3>2. CASE step \in {"rewrite_all", "rewrite_bodies"}
        BY <1>1, <1>3, <3>2, PathIs DEF Written
      <3> QED
        BY <1>8, <3>1, <3>2
    <2>2. unsynced' \subseteq unsynced \cup {Format(disk)}
      BY <1>3, <1>8 DEF UnsyncedAfter
    <2> QED
      BY <1>1, <1>4, <1>6, <1>7, <2>1, <2>2 DEF UnsyncedOK, Keeps
  <1>9. CASE step \in {"headers", "horizon"}
    <2>1. mem.path # None /\ SubSeq(mem.path, 1, mem.first) # None
      BY <1>1, PathIs, StoreAssumption DEF Records
    <2>2. unsynced' = unsynced \cup {step}
      BY <1>3, <1>9 DEF UnsyncedAfter
    <2>3. disk' = IF step = "headers" THEN [disk EXCEPT !.headers = mem.path]
                  ELSE [disk EXCEPT !.horizon = SubSeq(mem.path, 1, mem.first)]
      BY <1>3, <1>9 DEF Written
    <2> QED
      BY <1>1, <1>4, <1>5, <1>9, <2>1, <2>2, <2>3 DEF UnsyncedOK
  <1>10. CASE step \in {"meta", "drop_meta"}
    <2>1. unsynced' = unsynced \ {"meta"}
      BY <1>3, <1>10 DEF UnsyncedAfter
    <2>2. \E m : disk' = [disk EXCEPT !.meta = m]
      BY <1>3, <1>10 DEF Written
    <2> QED
      BY <1>1, <1>4, <1>5, <2>1, <2>2 DEF UnsyncedOK
  <1>11. CASE step = "set_aside"
    <2>1. unsynced' = unsynced \ {Format(disk)} /\ disk' = Holding(disk, None)
      BY <1>3, <1>11 DEF UnsyncedAfter, Written
    <2> QED
      BY <1>1, <1>4, <1>5, <1>6, <2>1 DEF UnsyncedOK
  <1>12. CASE step \in {"start_bin", "start_json"}
    <2>1. unsynced' = unsynced
      BY <1>3, <1>12 DEF UnsyncedAfter
    <2>2. disk' = IF step = "start_bin" THEN [disk EXCEPT !.bin = <<>>]
                  ELSE [disk EXCEPT !.json = <<>>]
      BY <1>3, <1>12 DEF Written
    <2>3. <<>> # None
      <3>1. <<>> \in Seq(Blocks \cup {Junk})
        OBVIOUS
      <3> QED
        BY <3>1, StoreAssumption
    <2> QED
      BY <1>1, <1>4, <1>5, <2>1, <2>2, <2>3 DEF UnsyncedOK
  <1>13. CASE step = "new_chain"
    <2>1. unsynced' = unsynced /\ disk' = disk
      BY <1>3, <1>13 DEF UnsyncedAfter, Written
    <2> QED
      BY <1>1, <2>1 DEF UnsyncedOK
  <1>14. CASE step \in {"swap_in", "swap_out"}
    <2>1. /\ step = "swap_in" => disk.json # None
          /\ unsynced' = IF step = "swap_in" THEN unsynced \cup {"bin"} ELSE unsynced \ {"json"}
      BY <1>3, <1>14 DEF UnsyncedAfter, step
    <2>2. disk' = IF step = "swap_in" THEN [disk EXCEPT !.bin = disk.json]
                  ELSE [disk EXCEPT !.json = None]
      BY <1>3, <1>14 DEF Written
    <2> QED
      BY <1>1, <1>4, <1>5, <1>14, <2>1, <2>2 DEF UnsyncedOK
  <1>15. CASE step = "restamp"
    <2>1. unsynced' = unsynced \cup {"meta"}
      BY <1>3, <1>15 DEF UnsyncedAfter
    <2>2. \E m : disk' = [disk EXCEPT !.meta = m]
      <3>1. disk' = [disk EXCEPT !.meta = [disk.meta EXCEPT !.bytes = BlockBytes(disk)]]
        BY <1>3, <1>15 DEF Written
      <3> QED
        BY <3>1
    <2> QED
      BY <1>1, <1>4, <1>5, <2>1, <2>2 DEF UnsyncedOK
  <1> QED
    BY <1>2, <1>8, <1>9, <1>10, <1>11, <1>12, <1>13, <1>14, <1>15 DEF Steps

\* An operation of a save is done.
LEMMA SafeSaveStep == ASSUME SafeInv, SaveStep PROVE SafeInv'
  <1>1. /\ mode \in {"loading", "up"} /\ job # <<>> /\ mode' = mode /\ image' = image
        /\ disk' = Written(Head(job), mem, disk) /\ unsynced' = UnsyncedAfter(Head(job))
        /\ job' = Tail(job) /\ mem' = IF Head(job) = "new_chain" THEN NoChain ELSE mem
    BY DEF SaveStep
  <1>2. FilesOK(disk') /\ UnsyncedOK(disk)'
    BY <1>1, JobHead, StepOK
  <1>3. ChainOK(mem')
    BY <1>1, NoChainOK DEF SafeInv
  <1>4. CASE job \in ToSave(mem)
    <2>1. mem' = mem /\ job' \in ToSave(mem') \cup {<<>>}
      BY <1>1, <1>4, SaveHead
    <2>2. job' \in Appending => BlocksOf(disk') # None
      <3> SUFFICES ASSUME job' \in Appending PROVE BlocksOf(disk') # None
        OBVIOUS
      <3>1. job \in Appending /\ Head(job) \in {"headers", "horizon"}
        BY <1>1, <1>4, SaveHead
      <3>2. BlocksOf(disk) # None
        BY <3>1 DEF SafeInv, JobOK
      <3>3. disk'.bin = disk.bin /\ disk'.json = disk.json
        <4>1. disk = [bin |-> disk.bin, json |-> disk.json, meta |-> disk.meta,
                      headers |-> disk.headers, horizon |-> disk.horizon]
          BY DEF SafeInv, FilesOK
        <4>2. \E h : disk' = [disk EXCEPT !.headers = h] \/ disk' = [disk EXCEPT !.horizon = h]
          BY <1>1, <3>1 DEF Written
        <4> QED
          BY <4>1, <4>2
      <3> QED
        BY <3>2, <3>3 DEF BlocksOf, Format
    <2>3. JobOK'
      BY <1>1, <2>1, <2>2 DEF JobOK
    <2> QED
      BY <1>1, <1>2, <1>3, <2>3 DEF SafeInv
  <1>5. CASE job \in ToReset
    <2>1. mode = "up" \/ job \in ToSave(mem)
      BY <1>1 DEF SafeInv, JobOK
    <2>2. job' \notin Appending
      BY <1>1, <1>5, ResetHead
    <2>3. job' \in ToSave(mem') \cup ToReset
      BY <1>1, <1>5, ResetHead, NoChainOK DEF ToSave
    <2>4. mode = "up" => JobOK'
      BY <1>1, <2>2, <2>3 DEF JobOK
    <2> QED
      BY <1>1, <1>2, <1>3, <1>4, <2>1, <2>4 DEF SafeInv
  <1> QED
    BY <1>1, <1>4, <1>5 DEF SafeInv, JobOK

\* A migration begins.
LEMMA SafeMigrate == ASSUME SafeInv, Migrate PROVE SafeInv'
  <1>1. /\ mode' = "migrating" /\ UNCHANGED <<disk, unsynced, image, mem>>
        /\ Format(disk) = "json"
        /\ job' = IF disk.meta = None THEN <<"swap_in", "swap_out">>
                  ELSE <<"swap_in", "swap_out", "restamp">>
    BY DEF Migrate
  <1>2. disk.json # None
    BY <1>1 DEF Format
  <1>3. job' \in ToMigrate /\ SwapsIn(job') /\ (Restamps(job') => disk.meta # None)
        /\ job' \notin Appending
    BY <1>1 DEF ToMigrate, SwapsIn, Restamps, Appending
  <1>4. JobOK'
    BY <1>1, <1>2, <1>3 DEF JobOK
  <1> QED
    BY <1>1, <1>4 DEF SafeInv, UnsyncedOK

\* An operation of a migration is done.
LEMMA SafeMigrateStep == ASSUME SafeInv, MigrateStep PROVE SafeInv'
  <1>1. /\ mode = "migrating" /\ mode' = (IF Len(job) = 1 THEN "down" ELSE "migrating")
        /\ UNCHANGED <<image, mem>>
        /\ disk' = Written(Head(job), mem, disk) /\ unsynced' = UnsyncedAfter(Head(job))
        /\ job' = Tail(job)
    BY DEF MigrateStep
  <1>2. /\ job \in ToMigrate /\ job # <<>>
        /\ IF SwapsIn(job) THEN disk.json # None ELSE disk.bin # None
        /\ Restamps(job) => disk.meta # None
    BY <1>1, MigrateHead DEF SafeInv, JobOK
  <1>3. Head(job) = "swap_in" <=> SwapsIn(job)
    BY <1>2, MigrateHead
  <1>4. FilesOK(disk') /\ UnsyncedOK(disk)'
    BY <1>1, <1>2, <1>3, StepOK
  <1>5. disk = [bin |-> disk.bin, json |-> disk.json, meta |-> disk.meta,
                headers |-> disk.headers, horizon |-> disk.horizon]
    BY DEF SafeInv, FilesOK
  <1>6. CASE Len(job) = 1
    <2>1. job' = <<>> /\ job' \notin Appending
      BY <1>1, <1>2, <1>6, MigrateHead
    <2>2. JobOK'
      BY <1>1, <1>6, <2>1 DEF JobOK
    <2> QED
      BY <1>1, <1>4, <2>2 DEF SafeInv
  <1>7. CASE Len(job) # 1
    <2>1. job' \in ToMigrate /\ ~SwapsIn(job') /\ (Restamps(job') => Restamps(job)) /\ job' \notin Appending
      BY <1>1, <1>2, <1>7, MigrateHead
    <2>2. disk'.bin # None /\ (disk.meta # None => disk'.meta # None)
      <3>1. CASE SwapsIn(job)
        <4>1. disk' = [disk EXCEPT !.bin = disk.json]
          BY <1>1, <1>3, <3>1 DEF Written
        <4> QED
          BY <1>2, <1>5, <3>1, <4>1
      <3>2. CASE ~SwapsIn(job)
        <4>1. Head(job) = "swap_out"
          BY <1>2, <1>7, <3>2, MigrateHead
        <4>2. disk' = [disk EXCEPT !.json = None]
          BY <1>1, <4>1 DEF Written
        <4> QED
          BY <1>2, <1>5, <3>2, <4>2
      <3> QED
        BY <3>1, <3>2
    <2>3. JobOK'
      BY <1>1, <1>2, <1>7, <2>1, <2>2 DEF JobOK
    <2> QED
      BY <1>1, <1>4, <2>3 DEF SafeInv
  <1> QED
    BY <1>6, <1>7

\* The process is killed.
LEMMA SafeCrash == ASSUME SafeInv, Crash PROVE SafeInv'
  <1>1. /\ disk' \in IF job = <<>> THEN {disk} ELSE Partial(Head(job), mem, disk)
        /\ mode' = "down" /\ job' = <<>> /\ mem' = NoChain /\ image' = None /\ unsynced' = unsynced
    BY DEF Crash, Stopped
  <1>2. FilesOK(disk') /\ Keeps(disk, disk')
    <2>1. CASE job = <<>>
      BY <1>1, <2>1 DEF SafeInv, Keeps
    <2>2. CASE job # <<>>
      <3>1. disk' \in Partial(Head(job), mem, disk) /\ FilesOK(disk) /\ ChainOK(mem)
        BY <1>1, <2>2 DEF SafeInv
      <3> QED
        BY <2>2, <3>1, JobHead, PartialOK
    <2> QED
      BY <2>1, <2>2
  <1>3. UnsyncedOK(disk)'
    BY <1>1, <1>2 DEF SafeInv, UnsyncedOK, Keeps
  <1>4. JobOK'
    <2>1. <<>> \notin Appending
      BY DEF Appending
    <2> QED
      BY <1>1, <2>1 DEF JobOK
  <1> QED
    BY <1>1, <1>2, <1>3, <1>4, NoChainOK DEF SafeInv

\* An operation fails.
LEMMA SafeSaveFails == ASSUME SafeInv, SaveFails PROVE SafeInv'
  <1>1. /\ disk' \in Partial(Head(job), mem, disk) /\ job # <<>> /\ mode \in {"loading", "up"}
        /\ mode' = mode /\ job' = <<>> /\ UNCHANGED <<unsynced, image, mem>>
    BY DEF SaveFails
  <1>2. FilesOK(disk') /\ Keeps(disk, disk')
    <2>1. FilesOK(disk) /\ ChainOK(mem)
      BY DEF SafeInv
    <2> QED
      BY <1>1, <2>1, JobHead, PartialOK
  <1>3. UnsyncedOK(disk)'
    BY <1>1, <1>2 DEF SafeInv, UnsyncedOK, Keeps
  <1>4. JobOK'
    <2>1. <<>> \notin Appending
      BY DEF Appending
    <2> QED
      BY <1>1, <2>1 DEF JobOK
  <1> QED
    BY <1>1, <1>2, <1>3, <1>4 DEF SafeInv

\* What a power cut leaves of a file is a file, and of headers, headers.
LEMMA CutOK ==
    ASSUME NEW x \in Records, NEW y \in Cuts(x)
    PROVE  y \in Records
  <1>0. PICK part \in {SubSeq(x, 1, n) : n \in 0..(Len(x) - 1)}, torn \in {<<>>, <<Junk>>} :
            y = part \o torn
    BY DEF Cuts
  <1>1. PICK n \in 0..(Len(x) - 1) : part = SubSeq(x, 1, n)
    OBVIOUS
  <1>2. n \in 0..Len(x) /\ 1 \in Nat \ {0}
    BY <1>1 DEF Records
  <1>3. SubSeq(x, 1, n) \in Records
    BY <1>2, Part
  <1> QED
    BY <1>0, <1>1, <1>3, Torn, Joined

\* A headers file that a power cut shortens still holds headers of a verified chain.
LEMMA CutHeadersOK ==
    ASSUME NEW h, h # None, HeadersOK(h), NEW y \in Cuts(h)
    PROVE  HeadersOK(y)
  <1>1. PICK p \in Checked : h = p \/ h = Append(p, Junk)
    BY DEF HeadersOK
  <1>2. p \in Records /\ p \in Seq(Blocks \cup {Junk}) /\ p \in Seq(Blocks) /\ Len(p) \in Nat
    BY CheckedRecords, CheckedIs DEF Records
  <1>3. /\ h \in Seq(Blocks \cup {Junk}) /\ Len(h) \in {Len(p), Len(p) + 1}
        /\ \A i \in 1..Len(p) : h[i] = p[i]
    BY <1>1, <1>2, AppendProperties
  <1>4a. PICK part \in {SubSeq(h, 1, n) : n \in 0..(Len(h) - 1)}, torn \in {<<>>, <<Junk>>} :
            y = part \o torn
    BY DEF Cuts
  <1>4. PICK n \in 0..(Len(h) - 1) : part = SubSeq(h, 1, n)
    OBVIOUS
  <1>5. n \in 0..Len(p) /\ n \in 0..Len(h) /\ 1 \in Nat \ {0}
    BY <1>2, <1>3
  <1> DEFINE q == SubSeq(p, 1, n)
             g == SubSeq(h, 1, n)
  <1>6. q \in Checked /\ Len(q) = n /\ \A i \in 1..n : q[i] = p[i]
    BY <1>5, PrefixChecked
  <1>7. g \in Seq(Blocks \cup {Junk}) /\ Len(g) = n /\ \A i \in 1..n : g[i] = h[i]
    <2>1. 1 \in 1..(Len(h) + 1) /\ n \in (1 - 1)..Len(h)
      BY <1>3, <1>5
    <2>2. \A i \in 1..n : h[i] \in Blocks \cup {Junk}
      BY <1>3, <1>5
    <2> QED
      BY <1>5, <2>2, SubSeqProperties
  <1>8. q \in Seq(Blocks \cup {Junk})
    BY <1>6, CheckedRecords DEF Records
  <1> HIDE DEF q, g
  <1>9. \A i \in 1..n : g[i] = q[i]
    BY <1>3, <1>5, <1>6, <1>7
  <1>10. g = q
    BY <1>6, <1>7, <1>8, <1>9, SeqEqual
  <1>11. CASE torn = <<>>
    <2>1. y = q
      BY <1>4a, <1>4, <1>8, <1>10, <1>11, ConcatEmptySeq DEF g
    <2> QED
      BY <1>6, <2>1 DEF HeadersOK
  <1>12. CASE torn = <<Junk>>
    <2>1. y = Append(q, Junk)
      BY <1>4a, <1>4, <1>8, <1>10, <1>12, AppendIsConcat DEF g
    <2> QED
      BY <1>6, <2>1 DEF HeadersOK
  <1> QED
    BY <1>11, <1>12

\* The power fails.
LEMMA SafePowerCut == ASSUME SafeInv, PowerCut PROVE SafeInv'
  <1> DEFINE left(f) == {disk[f]} \cup (IF f \in unsynced THEN Cuts(disk[f]) ELSE {})
  <1>1. PICK b \in left("bin"), j \in left("json"), h \in left("headers"), z \in left("horizon"),
             m \in {disk.meta} \cup (IF "meta" \in unsynced THEN {None} ELSE {}) :
                disk' = [bin |-> b, json |-> j, meta |-> m, headers |-> h, horizon |-> z]
    BY DEF PowerCut
  <1>2. /\ mode' = "down" /\ job' = <<>> /\ mem' = NoChain /\ image' = None /\ unsynced' = {}
    BY DEF PowerCut, Stopped
  <1>3. b \in Records \cup {None}
    <2>1. disk.bin \in Records \cup {None} /\ ("bin" \in unsynced => disk.bin # None)
      BY DEF SafeInv, FilesOK, UnsyncedOK
    <2>2. b = disk.bin \/ ("bin" \in unsynced /\ b \in Cuts(disk.bin))
      OBVIOUS
    <2> QED
      BY <2>1, <2>2, CutOK
  <1>4. j \in Records \cup {None}
    <2>1. disk.json \in Records \cup {None} /\ ("json" \in unsynced => disk.json # None)
      BY DEF SafeInv, FilesOK, UnsyncedOK
    <2>2. j = disk.json \/ ("json" \in unsynced /\ j \in Cuts(disk.json))
      OBVIOUS
    <2> QED
      BY <2>1, <2>2, CutOK
  <1>5. z \in Records \cup {None}
    <2>1. disk.horizon \in Records \cup {None} /\ ("horizon" \in unsynced => disk.horizon # None)
      BY DEF SafeInv, FilesOK, UnsyncedOK
    <2>2. z = disk.horizon \/ ("horizon" \in unsynced /\ z \in Cuts(disk.horizon))
      OBVIOUS
    <2> QED
      BY <2>1, <2>2, CutOK
  <1>6. HeadersOK(h)
    <2>1. HeadersOK(disk.headers) /\ ("headers" \in unsynced => disk.headers # None)
      BY DEF SafeInv, FilesOK, UnsyncedOK
    <2>2. h = disk.headers \/ ("headers" \in unsynced /\ h \in Cuts(disk.headers))
      OBVIOUS
    <2> QED
      BY <2>1, <2>2, CutHeadersOK
  <1>7. m # None => MetaOK(m)
    <2>1. m = disk.meta \/ m = None
      OBVIOUS
    <2> QED
      BY <2>1 DEF SafeInv, FilesOK
  <1>8. FilesOK(disk')
    BY <1>1, <1>3, <1>4, <1>5, <1>6, <1>7 DEF FilesOK
  <1>9. JobOK'
    <2>1. <<>> \notin Appending
      BY DEF Appending
    <2> QED
      BY <1>2, <2>1 DEF JobOK
  <1>10. UnsyncedOK(disk)'
    BY <1>2 DEF UnsyncedOK
  <1> QED
    BY <1>2, <1>8, <1>9, <1>10, NoChainOK DEF SafeInv

\* A start trusts the file.
LEMMA SafeStartTrusted == ASSUME SafeInv, StartTrusted PROVE SafeInv'
  <1> DEFINE ch == LoadedChain(disk)
             on == prune \/ ch.first > 0
             saves == BlocksOf(disk) = None \/ PrunedTo(ch, on) # ch
  <1>1. /\ mode \in {"down", "refused"} /\ UNCHANGED <<disk, unsynced, image>>
        /\ \/ /\ Loads(disk) /\ mode' = "up"
              /\ \/ BeginSave(ch, on, disk)
                 \/ mem' = ch /\ UNCHANGED <<job, kept>>
           \/ mode' = "refused" /\ UNCHANGED <<mem, prune, job, kept>>
    BY DEF StartTrusted
  <1>2. Loads(disk) => ChainOK(ch)
    BY LoadedIsChecked DEF SafeInv
  <1> HIDE DEF ch, on
  <1>3. job = <<>> /\ <<>> \notin Appending
    BY <1>1 DEF SafeInv, JobOK, Appending
  <1>4. CASE Loads(disk) /\ mode' = "up" /\ BeginSave(ch, on, disk)
    BY <1>1, <1>2, <1>4, SafeBegin
  <1>5. CASE Loads(disk) /\ mode' = "up" /\ mem' = ch /\ UNCHANGED <<job, kept>>
    <2>1. JobOK'
      BY <1>3, <1>5 DEF JobOK
    <2> QED
      BY <1>1, <1>2, <1>5, <2>1 DEF SafeInv, UnsyncedOK
  <1>6. CASE mode' = "refused" /\ UNCHANGED <<mem, prune, job, kept>>
    <2>1. JobOK'
      BY <1>3, <1>6 DEF JobOK
    <2> QED
      BY <1>1, <1>6, <2>1 DEF SafeInv, UnsyncedOK
  <1> QED
    BY <1>1, <1>4, <1>5, <1>6

\* A start hands the file to the loader thread.
LEMMA SafeStartLoader == ASSUME SafeInv, StartLoader PROVE SafeInv'
  <1>1. /\ mode \in {"down", "refused"} /\ BlocksOf(disk) # None /\ disk' = Recovered(disk)
        /\ mode' = "loading" /\ image' = disk' /\ UNCHANGED <<unsynced, mem, prune, job>>
    BY DEF StartLoader
  <1>2. FilesOK(disk') /\ BlocksOf(disk') # None /\ Keeps(disk, disk')
    BY <1>1, RecoveredOK DEF SafeInv
  <1>3. job = <<>> /\ <<>> \notin Appending
    BY <1>1 DEF SafeInv, JobOK, Appending
  <1>4. JobOK'
    BY <1>1, <1>3 DEF JobOK
  <1>5. UnsyncedOK(disk)'
    BY <1>1, <1>2 DEF SafeInv, UnsyncedOK, Keeps
  <1> QED
    BY <1>1, <1>2, <1>4, <1>5 DEF SafeInv

\* The loader thread is done.
LEMMA SafeLoaderDone == ASSUME SafeInv, LoaderDone PROVE SafeInv'
  <1>1. /\ mode = "loading" /\ image # None /\ job = <<>> /\ image' = None
        /\ UNCHANGED <<disk, unsynced, prune>>
        /\ \/ Loads(image) /\ mode' = "up" /\ BeginSave(LoadedChain(image), prune, disk)
           \/ UNCHANGED <<mode, mem, job, kept>>
    BY DEF LoaderDone
  <1>2. Loads(image) => ChainOK(LoadedChain(image))
    BY <1>1, LoadedIsChecked DEF SafeInv
  <1>3. CASE Loads(image) /\ mode' = "up" /\ BeginSave(LoadedChain(image), prune, disk)
    BY <1>1, <1>2, <1>3, SafeBegin
  <1>4. CASE UNCHANGED <<mode, mem, job, kept>>
    <2>1. JobOK'
      BY <1>1, <1>4 DEF SafeInv, JobOK
    <2> QED
      BY <1>1, <1>4, <2>1 DEF SafeInv, UnsyncedOK
  <1> QED
    BY <1>1, <1>3, <1>4

\* Every step leaves the files, the chain in memory and the job as SafeInv says.
LEMMA SafeNext == ASSUME SafeInv, [NextFaulty]_vars PROVE SafeInv'
  <1>1. CASE UNCHANGED vars
    BY <1>1 DEF SafeInv, UnsyncedOK, JobOK, vars
  <1>2. CASE NextFaulty
    BY <1>2, SafeMove, SafePersist, SafeSetPrune, SafeResync, SafeSaveStep, SafeMigrate,
       SafeMigrateStep, SafeCrash, SafeStartTrusted, SafeStartLoader, SafeLoaderDone, SafeSaveFails,
       SafePowerCut
       DEF NextFaulty, Next
  <1> QED
    BY <1>1, <1>2

\* No block that full verification refuses ever becomes part of the chain in memory,
\* whatever a crash or a failing disk left in the files of load_or_new_with_progress,
\* when a file this node wrote is loaded without checking proof of work again.
THEOREM LoadsOnlyVerifiedBlocks == SpecFaulty => []OnlyVerifiedBlocks
  <1>1. SafeInv => OnlyVerifiedBlocks
    BY DEF SafeInv, ChainOK, Checked, Verifies, OnlyVerifiedBlocks
  <1> QED
    BY <1>1, SafeInit, SafeNext, PTL DEF SpecFaulty

-----------------------------------------------------------------------------
(* The invariant of what is kept *)

\* The bodies of a chain.
Body(ch) == SubSeq(ch.path, ch.first + 1, Len(ch.path))

\* The files of a finished save of ch.
AtRest(d, ch) ==
    /\ BlocksOf(d) = Body(ch)
    /\ d.meta # None
    /\ d.meta.count = Len(ch.path) /\ d.meta.tip = TipOf(ch.path) /\ d.meta.by = Me
    /\ d.meta.bytes = BlockBytes(d) /\ d.meta.first = ch.first
    /\ ch.first > 0 =>
          /\ d.horizon = SubSeq(ch.path, 1, ch.first)
          /\ d.meta.horizonBytes = FlatBytes(d.horizon)
          /\ d.headers # None /\ d.meta.headersBytes = FlatBytes(d.headers)
          /\ ch.first <= Len(d.headers)
          /\ SubSeq(d.headers, 1, ch.first) = SubSeq(ch.path, 1, ch.first)

\* The files hold a first part of ch, up to the last block our record counts.
Continues(ch, d) ==
    /\ d.meta # None /\ d.meta.by = Me /\ d.meta.first = ch.first
    /\ d.meta.count \in ch.first..Len(ch.path)
    /\ d.meta.tip = TipOf(SubSeq(ch.path, 1, d.meta.count))
    /\ BlocksOf(d) = SubSeq(ch.path, ch.first + 1, d.meta.count)
    /\ d.meta.bytes = BlockBytes(d)

\* Jobs that leave the blocks file as it is.
BodiesDone == {<<"meta">>, <<"horizon", "meta">>, <<"headers", "horizon", "meta">>}

\* What a save of ch has done, and relies on, when j is left of it.
SaveOK(j, ch, d) ==
    /\ j \in Appending => Continues(ch, d)
    /\ j = <<"rewrite_all", "meta">> =>
          \/ BlocksOf(d) = None /\ ch.path = <<>>
          \/ StoredCount(d) > 0 /\ ~AncestorMatches(ch, d)
    /\ j \in BodiesDone => BlocksOf(d) = Body(ch)
    /\ ch.first > 0 /\ Head(j) # "headers" => d.headers = ch.path
    /\ ch.first > 0 /\ Head(j) \notin {"headers", "horizon"} => d.horizon = SubSeq(ch.path, 1, ch.first)

\* A resync has set the blocks file aside when it starts another, and is on the
\* empty one after that.
ResetOK(j, d) ==
    /\ Head(j) \in {"start_bin", "start_json"} => d.bin = None /\ d.json = None
    /\ Head(j) \in {"drop_meta", "new_chain"} =>
          BlocksOf(d) = IF j \in {<<"drop_meta", "new_chain", "rewrite_all", "meta">>,
                                  <<"new_chain", "rewrite_all", "meta">>}
                        THEN None ELSE <<>>

\* The file goes on after the chain that our record names, which it holds as written.
Exceeds(d) ==
    LET x == BlocksOf(d)
    IN  /\ x # None /\ d.meta # None /\ d.meta.by = Me
        /\ d.meta.count \in 1..(Len(x) - 1) /\ x[d.meta.count] = d.meta.tip
        /\ d.meta.bytes = Bytes(Format(d), SubSeq(x, 1, d.meta.count))

\* The file is one that verification may accept.
Unpruned(d) == BlocksOf(d) # None /\ (d.meta # None => d.meta.first = 0) /\ Verifies(BlocksOf(d))

\* What verification accepts is kept, and counted in full where the record points into it.
Settled(d) ==
    /\ BlocksOf(d) = None => <<>> \in kept
    /\ Unpruned(d) =>
          /\ BlocksOf(d) \in kept
          /\ AncestorMatches([path |-> BlocksOf(d)], d) => d.meta.count = Len(BlocksOf(d))

\* The chain our record names is kept.
RecordKept(d) ==
    d.meta # None /\ d.meta.by = Me =>
        \E p \in Checked \cap kept : Len(p) = d.meta.count /\ TipOf(p) = d.meta.tip

\* So is every chain a start may load from the files, once the loader thread has cut them.
FilesKept(d) == RecordKept(d) /\ (Settled(d) \/ Uncounted(d) \/ Exceeds(d))

\* Until the node has been given a promise it cannot keep, the files at rest are those of a
\* finished save, a save in progress has what it relies on, and what a start would load is kept.
StoryInv ==
    ~Broken =>
    /\ FilesKept(disk)
    /\ mode = "up" => mem.path \in kept
    /\ Running => AtRest(disk, mem)
    /\ mode = "up" /\ job \in ToSave(mem) => SaveOK(job, mem, disk)
    /\ mode = "up" /\ job \in ToReset => ResetOK(job, disk) /\ <<>> \in kept
    /\ mode = "loading" => /\ image \in {disk, None} /\ job = <<>>
                           /\ Settled(disk) /\ ~Uncounted(disk)
    /\ mode = "migrating" => /\ SwapsIn(job) => Format(disk) = "json"
                             /\ BlocksOf(disk) # None /\ (Settled(disk) \/ Uncounted(disk))

-----------------------------------------------------------------------------
(* Parts of a sequence *)

\* Part of a sequence, position by position.
LEMMA Sub ==
    ASSUME NEW S, NEW p \in Seq(S), NEW a \in Nat, NEW b \in a..Len(p)
    PROVE  /\ SubSeq(p, a + 1, b) \in Seq(S) /\ Len(SubSeq(p, a + 1, b)) = b - a
           /\ \A i \in 1..(b - a) : SubSeq(p, a + 1, b)[i] = p[a + i]
  <1> DEFINE m == a + 1
             s == SubSeq(p, m, b)
  <1>1. Len(p) \in Nat /\ b \in Nat /\ a <= b /\ b <= Len(p) /\ m \in Int /\ m = a + 1
    OBVIOUS
  <1>2. \A i \in m..b : p[i] \in S
    <2>1. \A i \in m..b : i \in 1..Len(p)
      BY <1>1
    <2> QED
      BY <2>1
  <1> HIDE DEF m
  <1>3. /\ s \in Seq(S)
        /\ Len(s) = IF m <= b THEN b - m + 1 ELSE 0
        /\ \A i \in 1..(b - m + 1) : s[i] = p[m + i - 1]
    BY <1>1, <1>2, SubSeqProperties
  <1> HIDE DEF s
  <1>4. Len(s) = b - a /\ \A i \in 1..(b - a) : s[i] = p[a + i]
    <2>1. Len(s) = b - a
      BY <1>1, <1>3
    <2>2. b - m + 1 = b - a /\ \A i \in 1..(b - a) : m + i - 1 = a + i
      BY <1>1
    <2> QED
      BY <1>3, <2>1, <2>2
  <1> QED
    BY <1>1, <1>3, <1>4 DEF s, m

\* A part of a part.
LEMMA Within ==
    ASSUME NEW S, NEW p \in Seq(S), NEW c \in Nat, NEW n \in c..Len(p), NEW a \in Nat,
           NEW b \in a..(n - c)
    PROVE  SubSeq(SubSeq(p, c + 1, n), a + 1, b) = SubSeq(p, (c + a) + 1, c + b)
  <1> DEFINE q == SubSeq(p, c + 1, n)
             s == SubSeq(q, a + 1, b)
             g == c + a
             h == c + b
             v == SubSeq(p, g + 1, h)
  <1>1. /\ a \in Nat /\ b \in Nat /\ c \in Nat /\ n \in Nat /\ a <= b /\ b <= n - c
        /\ g \in Nat /\ h \in g..Len(p) /\ h - g = b - a /\ g = c + a
    OBVIOUS
  <1>2. q \in Seq(S) /\ Len(q) = n - c /\ \A i \in 1..(n - c) : q[i] = p[c + i]
    BY Sub
  <1> HIDE DEF q, g, h
  <1>3. v \in Seq(S) /\ Len(v) = h - g /\ \A i \in 1..(h - g) : v[i] = p[g + i]
    BY <1>1, Sub
  <1>4. s \in Seq(S) /\ Len(s) = b - a /\ \A i \in 1..(b - a) : s[i] = q[a + i]
    <2>1. b \in a..Len(q)
      BY <1>1, <1>2
    <2> QED
      BY <1>1, <1>2, <2>1, Sub
  <1> HIDE DEF s, v
  <1>5. ASSUME NEW i \in 1..(b - a) PROVE s[i] = v[i]
    <2>1. a + i \in 1..(n - c) /\ c + (a + i) = g + i
      BY <1>1
    <2> QED
      BY <1>1, <1>2, <1>3, <1>4, <2>1
  <1>6. s = v
    BY <1>1, <1>3, <1>4, <1>5, SeqEqual
  <1> QED
    BY <1>6 DEF q, s, v, g, h

\* A part of a first part is a part.
LEMMA Nested ==
    ASSUME NEW S, NEW p \in Seq(S), NEW n \in 0..Len(p), NEW a \in Nat, NEW b \in a..n
    PROVE  SubSeq(SubSeq(p, 1, n), a + 1, b) = SubSeq(p, a + 1, b)
  <1>1. 0 \in Nat /\ b \in a..(n - 0) /\ 0 + a = a /\ 0 + b = b
    OBVIOUS
  <1>2. SubSeq(SubSeq(p, 0 + 1, n), a + 1, b) = SubSeq(p, (0 + a) + 1, 0 + b)
    BY <1>1, Within
  <1> QED
    BY <1>1, <1>2

\* The two parts of a concatenation.
LEMMA Halves ==
    ASSUME NEW S, NEW b \in Seq(S), NEW x \in Seq(S)
    PROVE  /\ SubSeq(b \o x, 1, Len(b)) = b
           /\ SubSeq(b \o x, Len(b) + 1, Len(b \o x)) = x
  <1> DEFINE y == b \o x
             s == SubSeq(y, 0 + 1, Len(b))
             t == SubSeq(y, Len(b) + 1, Len(y))
  <1>1. Len(b) \in Nat /\ Len(x) \in Nat /\ 0 \in Nat
    OBVIOUS
  <1>2. /\ y \in Seq(S) /\ Len(y) = Len(b) + Len(x)
        /\ \A i \in 1..(Len(b) + Len(x)) : y[i] = IF i <= Len(b) THEN b[i] ELSE x[i - Len(b)]
    BY ConcatProperties
  <1>3. SubSeq(b \o x, 1, Len(b)) = s /\ SubSeq(b \o x, Len(b) + 1, Len(b \o x)) = t
    OBVIOUS
  <1> HIDE DEF y
  <1> DEFINE k == Len(b)
             l == Len(x)
  <1>4. k \in Nat /\ l \in Nat /\ Len(y) = k + l /\ k \in 0..Len(y) /\ Len(y) \in k..Len(y)
    BY <1>1, <1>2
  <1>5. s \in Seq(S) /\ Len(s) = k - 0 /\ \A i \in 1..(k - 0) : s[i] = y[0 + i]
    BY <1>1, <1>2, <1>4, Sub
  <1>6. t \in Seq(S) /\ Len(t) = Len(y) - k /\ \A i \in 1..(Len(y) - k) : t[i] = y[k + i]
    BY <1>2, <1>4, Sub
  <1>7. \A i \in 1..(k + l) : y[i] = IF i <= k THEN b[i] ELSE x[i - k]
    BY <1>2
  <1>8. Len(b) = k /\ Len(x) = l
    OBVIOUS
  <1> HIDE DEF s, t, k, l
  <1>9. s = b
    <2>1. \A i \in 1..k : s[i] = b[i] /\ k - 0 = k
      BY <1>4, <1>5, <1>7
    <2>2. Len(s) = k
      BY <1>4, <1>5
    <2> QED
      BY <1>5, <1>8, <2>1, <2>2, SeqEqual
  <1>10. t = x
    <2>1. ASSUME NEW i \in 1..l PROVE t[i] = x[i]
      <3>1. k + i \in 1..(k + l) /\ ~(k + i <= k) /\ (k + i) - k = i /\ i \in 1..(Len(y) - k)
        BY <1>4
      <3> QED
        BY <1>6, <1>7, <3>1
    <2>2. Len(t) = l
      BY <1>4, <1>6
    <2> QED
      BY <1>6, <1>8, <2>1, <2>2, SeqEqual
  <1> QED
    BY <1>3, <1>9, <1>10 DEF s, t, k


-----------------------------------------------------------------------------
(* A finished save, and the next one *)

\* The bodies of a chain come after its pruned part.
LEMMA BodyIs ==
    ASSUME NEW ch, ChainOK(ch)
    PROVE  /\ Body(ch) \in Records /\ Body(ch) # None
           /\ Len(Body(ch)) = Len(ch.path) - ch.first
           /\ \A i \in 1..(Len(ch.path) - ch.first) : Body(ch)[i] = ch.path[ch.first + i]
           /\ SubSeq(ch.path, 1, ch.first) \o Body(ch) = ch.path
           /\ ch.first = 0 => Body(ch) = ch.path
           /\ ch.path # <<>> => Body(ch) # <<>>
  <1> DEFINE p == ch.path
             f == ch.first
             n == Len(p)
  <1>1. p \in Seq(Blocks \cup {Junk}) /\ n \in Nat /\ f \in 0..n /\ f \in Nat
    BY PathIs DEF Records
  <1>2. f = 0 \/ f < n
    BY DEF ChainOK
  <1> HIDE DEF p, f
  <1>3. /\ SubSeq(p, f + 1, n) \in Seq(Blocks \cup {Junk}) /\ Len(SubSeq(p, f + 1, n)) = n - f
        /\ \A i \in 1..(n - f) : SubSeq(p, f + 1, n)[i] = p[f + i]
    <2>1. n \in f..Len(p)
      BY <1>1
    <2> HIDE DEF n
    <2> QED
      BY <1>1, <2>1, Sub
  <1>4. SubSeq(p, 1, f) \o SubSeq(p, f + 1, n) = SubSeq(p, 1, n)
    <2>1. 1 \in 1..(Len(p) + 1) /\ f \in (1 - 1)..Len(p) /\ n \in f..Len(p)
      BY <1>1
    <2> HIDE DEF n
    <2> QED
      BY <1>1, <2>1, ConcatAdjacentSubSeq
  <1>5. SubSeq(p, 1, n) = p
    BY <1>1, SubSeqFull
  <1>6. f = 0 => SubSeq(p, f + 1, n) = p
    BY <1>5
  <1>7. p # <<>> => SubSeq(p, f + 1, n) # <<>>
    <2> SUFFICES ASSUME p # <<>> PROVE SubSeq(p, f + 1, n) # <<>>
      OBVIOUS
    <2>1. n # 0
      BY <1>1, EmptySeq
    <2>2. n - f # 0
      BY <1>1, <1>2, <2>1
    <2> QED
      BY <1>3, <2>2
  <1>8. SubSeq(p, f + 1, n) # None
    BY <1>3, StoreAssumption
  <1> QED
    BY <1>3, <1>4, <1>5, <1>6, <1>7, <1>8 DEF Body, Records, p, f, n

\* The files of a finished save load as the chain that was saved.
LEMMA AtRestLoads ==
    ASSUME NEW d, FilesOK(d), NEW ch, ChainOK(ch), AtRest(d, ch)
    PROVE  Loads(d) /\ LoadedChain(d) = ch
  <1> DEFINE x == BlocksOf(d)
             p == ch.path
             f == ch.first
  <1>1. x = Body(ch) /\ x \in Records /\ x # None /\ d.meta # None /\ d.meta.first = f
        /\ d.meta.by = Me /\ d.meta.bytes = BlockBytes(d) /\ d.meta.tip = TipOf(p)
        /\ d.meta.count = Len(p)
    BY BodyIs DEF AtRest
  <1>2. ch = [path |-> p, first |-> f] /\ p \in Checked /\ f \in Nat /\ f \in 0..Len(p) /\ Len(p) \in Nat
    BY PathIs DEF ChainOK
  <1>3. CASE f = 0
    <2>1. x = p
      BY <1>1, <1>3, BodyIs
    <2>2. LoadBase(d) = <<>>
      BY <1>1, <1>3 DEF LoadBase
    <2>3. <<>> \o x = x
      BY <1>1, ConcatEmptySeq DEF Records
    <2>4. LoadedChain(d) = [path |-> x, first |-> 0]
      BY <1>1, <2>2, <2>3 DEF LoadedChain
    <2>5. Verifies(x) /\ Links(<<>>, x)
      BY <1>2, <2>1 DEF Checked, Verifies
    <2>6. Loads(d)
      BY <1>1, <1>3, <2>1, <2>5 DEF Loads
    <2> QED
      BY <1>2, <1>3, <2>1, <2>4, <2>6
  <1>4. CASE f # 0
    <2>1. f > 0 /\ f < Len(p) /\ p # <<>>
      <3>1. f > 0 /\ f < Len(p)
        BY <1>2, <1>4 DEF ChainOK
      <3>2. p # <<>>
        BY <3>1, <1>2
      <3> QED
        BY <3>1, <3>2
    <2> DEFINE b == SubSeq(p, 1, f)
    <2>2. /\ d.horizon = b /\ d.meta.horizonBytes = FlatBytes(d.horizon)
          /\ d.headers # None /\ d.meta.headersBytes = FlatBytes(d.headers)
          /\ f <= Len(d.headers) /\ SubSeq(d.headers, 1, f) = b
      BY <2>1 DEF AtRest
    <2>3. Len(d.headers) \in Nat /\ b \in Records /\ b # None
      <3>1. HeadersOK(d.headers)
        BY DEF FilesOK
      <3>2. b \in Records
        BY PathIs
      <3>3. b # None
        BY <3>2, StoreAssumption DEF Records
      <3> QED
        BY <2>2, <3>1, <3>2, <3>3, HeadersAre
    <2>4. b \in Checked /\ Len(b) = f /\ TipOf(b) = p[f]
      BY <1>2, <1>4, PrefixChecked
    <2>5. LoadBase(d) = b
      <3>1. Min({f, Len(d.headers)}) = f
        <4>1. /\ Min({f, Len(d.headers)}) = f \/ Min({f, Len(d.headers)}) = Len(d.headers)
              /\ Min({f, Len(d.headers)}) <= f
          BY <1>2, <2>3, MinIs
        <4> QED
          BY <1>2, <2>2, <2>3, <4>1
      <3> QED
        BY <1>1, <2>1, <2>2, <3>1 DEF LoadBase
    <2>6. b \o x = p
      BY <1>1, BodyIs
    <2>7. LoadedChain(d) = [path |-> p, first |-> f]
      BY <1>1, <2>4, <2>5, <2>6 DEF LoadedChain
    <2>8. IsOwnFileTrusted(d)
      <3>1. d.meta.bytes > 0
        <4>1. x # <<>>
          BY <1>1, <2>1, BodyIs
        <4> QED
          BY <1>1, <4>1, BytesOrNone
      <3>2. FlatBytes(d.horizon) > 0 /\ FlatBytes(d.headers) > 0
        <4>1. FlatBytes(d.horizon) = f
          BY <2>2, <2>3, <2>4 DEF FlatBytes
        <4>2. FlatBytes(d.headers) = Len(d.headers)
          BY <2>2 DEF FlatBytes
        <4> HIDE DEF f
        <4> QED
          BY <1>2, <2>1, <2>2, <2>3, <4>1, <4>2
      <3> QED
        BY <1>1, <2>2, <3>1, <3>2 DEF IsOwnFileTrusted
    <2>9. Links(b, x)
      <3> DEFINE n == Len(p) - f
      <3>1. /\ DOMAIN x = 1..n /\ n \in Nat
            /\ \A i \in 1..n : x[i] = p[f + i]
        <4>1. DOMAIN x = 1..Len(x)
          BY <1>1 DEF Records
        <4>2. Len(x) = n /\ \A i \in 1..n : x[i] = p[f + i]
          BY <1>1, BodyIs
        <4>3. n \in Nat
          BY <1>2
        <4> QED
          BY <4>1, <4>2, <4>3
      <3>2. ASSUME NEW i \in 1..n
            PROVE  x[i] \in Blocks /\ Parent[x[i]] = IF i = 1 THEN TipOf(b) ELSE x[i - 1]
        <4>1. f + i \in 1..Len(p) /\ f + i # 1 /\ (f + i) - 1 = f + (i - 1) /\ (i = 1 => f + (i - 1) = f)
              /\ (i # 1 => i - 1 \in 1..n)
          BY <1>2, <2>1
        <4>2. p[f + i] \in Blocks /\ Parent[p[f + i]] = p[f + (i - 1)]
          BY <1>2, <4>1, CheckedIs
        <4>3. i # 1 => x[i - 1] = p[f + (i - 1)]
          BY <3>1, <4>1
        <4> HIDE DEF n, x, b, f, p
        <4> QED
          BY <2>4, <3>1, <4>1, <4>2, <4>3
      <3> HIDE DEF n, x, b
      <3> QED
        BY <3>1, <3>2 DEF Links
    <2>10. Loads(d)
      <3>1. Len(LoadBase(d)) = d.meta.first /\ d.horizon = LoadBase(d) /\ Links(LoadBase(d), x)
        BY <1>1, <2>2, <2>4, <2>5, <2>9
      <3>2. TipOf(LoadedChain(d).path) = d.meta.tip /\ Len(LoadedChain(d).path) = d.meta.count
        BY <1>1, <2>7
      <3>3. d.meta.first > 0
        BY <1>1, <2>1
      <3> QED
        BY <1>1, <2>8, <3>1, <3>2, <3>3 DEF Loads
    <2> QED
      BY <1>2, <2>7, <2>10
  <1> QED
    BY <1>3, <1>4

\* A file that is trusted and loads is that of a finished save.
LEMMA TrustedAtRest ==
    ASSUME NEW d, FilesOK(d), BlocksOf(d) # None, IsOwnFileTrusted(d), Loads(d)
    PROVE  AtRest(d, LoadedChain(d))
  <1> DEFINE x == BlocksOf(d)
             b == LoadBase(d)
             ch == LoadedChain(d)
             S == Blocks \cup {Junk}
  <1>1. /\ ChainOK(ch) /\ TipOf(ch.path) = d.meta.tip
        /\ ch = [path |-> b \o x, first |-> Len(b)]
        /\ d.meta # None /\ d.meta.by = Me /\ d.meta.bytes = BlockBytes(d)
        /\ MetaOK(d.meta)
        /\ x \in Seq(S)
    BY LoadedIsChecked, BytesOrNone DEF LoadedChain, IsOwnFileTrusted, FilesOK, Records
  <1>2. d.meta.first \in Nat /\ d.meta.count \in Nat
    BY <1>1, MetaIs
  <1>3. CASE d.meta.first = 0
    <2>1. b = <<>> /\ Len(b) = 0
      BY <1>3 DEF LoadBase
    <2>2. b \o x = x
      BY <1>1, <2>1, ConcatEmptySeq
    <2>3. ch.path = x /\ ch.first = 0
      BY <1>1, <2>1, <2>2
    <2>4. Body(ch) = x
      BY <1>1, <2>3, BodyIs
    <2>5. PICK q \in Checked : Len(q) = d.meta.count /\ TipOf(q) = d.meta.tip
      BY <1>1 DEF MetaOK
    <2>6. q = ch.path
      BY <1>1, <2>5, SamePath DEF ChainOK
    <2> HIDE DEF ch, x
    <2>7. d.meta.count = Len(ch.path)
      BY <2>5, <2>6
    <2>8. ~(ch.first > 0)
      BY <2>3
    <2>9. AtRest(d, ch)
      BY <1>1, <1>3, <2>3, <2>4, <2>7, <2>8 DEF AtRest, x
    <2> QED
      BY <2>9 DEF ch
  <1>4. CASE d.meta.first # 0
    <2>1. /\ d.meta.first > 0 /\ Len(b) = d.meta.first /\ d.horizon = b
          /\ Len(ch.path) = d.meta.count
      <3>1. d.meta.first > 0
        BY <1>2, <1>4
      <3> QED
        BY <1>4, <3>1 DEF Loads
    <2>2. /\ d.headers # None /\ b = SubSeq(d.headers, 1, d.meta.first)
          /\ d.meta.horizonBytes = FlatBytes(d.horizon)
          /\ d.meta.headersBytes = FlatBytes(d.headers)
      BY <1>1, <2>1, BaseIs DEF IsOwnFileTrusted
    <2>3. d.headers \in Seq(S) /\ Len(d.headers) \in Nat
      <3>1. HeadersOK(d.headers)
        BY DEF FilesOK
      <3> QED
        BY <2>2, <3>1, HeadersAre DEF Records
    <2> DEFINE n == Min({d.meta.first, Len(d.headers)})
    <2>4. n \in 0..Len(d.headers) /\ n \in Nat /\ n <= Len(d.headers)
      BY <1>2, <2>3, MinIs
    <2>5. b = SubSeq(d.headers, 0 + 1, n)
      <3>1. b = SubSeq(d.headers, 1, n)
        BY <1>1, <2>1 DEF LoadBase
      <3> HIDE DEF b, n
      <3> QED
        BY <3>1
    <2> HIDE DEF n, b, x
    <2>6. b \in Seq(S) /\ Len(b) = n
      <3>1. /\ SubSeq(d.headers, 0 + 1, n) \in Seq(S) /\ Len(SubSeq(d.headers, 0 + 1, n)) = n - 0
        <4>1. 0 \in Nat
          OBVIOUS
        <4> QED
          BY <2>3, <2>4, <4>1, Sub
      <3> QED
        BY <2>4, <2>5, <3>1
    <2>7. SubSeq(b \o x, 1, Len(b)) = b /\ SubSeq(b \o x, Len(b) + 1, Len(b \o x)) = x
      BY <1>1, <2>6, Halves
    <2>8. Body(ch) = x /\ SubSeq(ch.path, 1, ch.first) = b /\ ch.first = Len(b)
      BY <1>1, <2>7 DEF Body
    <2> HIDE DEF ch
    <2>9. ch.first <= Len(d.headers) /\ ch.first = d.meta.first
      BY <2>1, <2>4, <2>6, <2>8
    <2>10. SubSeq(d.headers, 1, ch.first) = SubSeq(ch.path, 1, ch.first)
      BY <2>2, <2>8, <2>9
    <2>11. AtRest(d, ch)
      BY <1>1, <2>1, <2>2, <2>8, <2>9, <2>10 DEF AtRest, x
    <2> QED
      BY <2>11 DEF ch
  <1> QED
    BY <1>3, <1>4

\* A save that begins on the files of a finished one relies on what they hold.
LEMMA SaveAfterRest ==
    ASSUME NEW d, NEW old, ChainOK(old), NEW ch, ChainOK(ch), AtRest(d, old),
           old.first <= ch.first
    PROVE  SaveOK(SaveSteps(ch, d), ch, d)
  <1> DEFINE n == d.meta.count
             p == ch.path
             have == Len(p)
             diverged == n > have \/ BlocksOf(d) = None \/ (n > 0 /\ ~AncestorMatches(ch, d))
             moved == ch.first # d.meta.first
  <1>1. /\ BlocksOf(d) = Body(old) /\ Body(old) # None /\ d.meta # None /\ n = Len(old.path)
        /\ d.meta.tip = TipOf(old.path) /\ d.meta.by = Me /\ d.meta.bytes = BlockBytes(d)
        /\ d.meta.first = old.first
    BY BodyIs DEF AtRest
  <1>2. /\ p \in Checked /\ old.path \in Checked /\ p \in Seq(Blocks \cup {Junk})
        /\ have \in Nat /\ n \in Nat /\ old.first \in 0..n /\ ch.first \in 0..have
    BY <1>1, PathIs DEF ChainOK, Records
  <1>3. StoredCount(d) = n
    BY <1>1 DEF StoredCount
  <1>4. SaveSteps(ch, d) =
           IF ch.first = 0
           THEN IF diverged THEN <<"rewrite_all", "meta">>
                ELSE IF n < have THEN <<"append", "meta">> ELSE <<"meta">>
           ELSE IF diverged \/ moved THEN <<"headers", "horizon", "rewrite_bodies", "meta">>
                ELSE IF n < have THEN <<"headers", "horizon", "append_bodies", "meta">>
                ELSE <<"headers", "horizon", "meta">>
    BY <1>1, <1>3 DEF SaveSteps
  <1>5. ASSUME ~diverged PROVE n \in 0..have /\ SubSeq(p, 1, n) = old.path
    <2>1. n \in 0..have
      BY <1>2, <1>5
    <2>2. CASE n = 0
      <3>1. SubSeq(p, 1, n) \in Checked /\ TipOf(SubSeq(p, 1, n)) = GenesisHash
        BY <1>2, <2>1, <2>2, PrefixChecked
      <3>2. old.path = <<>>
        <4>1. old.path \in Seq(Blocks) /\ Len(old.path) = 0
          BY <1>1, <1>2, <2>2, CheckedIs
        <4> QED
          BY <4>1, EmptySeq
      <3>3. TipOf(old.path) = GenesisHash
        BY <3>2 DEF TipOf
      <3> QED
        BY <1>2, <2>1, <3>1, <3>3, SamePath
    <2>3. CASE n # 0
      <3>1. n \in DOMAIN p /\ p[n] = d.meta.tip
        <4>1. n > 0
          BY <1>2, <2>3
        <4> QED
          BY <1>3, <1>5, <4>1 DEF AncestorMatches
      <3>2. n \in 1..Len(p)
        BY <1>2, <3>1
      <3> QED
        BY <1>1, <1>2, <2>1, <3>1, <3>2, PrefixIs
    <2> QED
      BY <2>2, <2>3
  <1>6. ASSUME ~diverged, ch.first = d.meta.first, n < have PROVE Continues(ch, d)
    <2>1. d.meta.tip = TipOf(SubSeq(p, 1, n)) /\ n \in ch.first..have
      <3>1. d.meta.tip = TipOf(SubSeq(p, 1, n)) /\ n \in 0..have
        BY <1>1, <1>5, <1>6
      <3>2. ch.first \in 0..n
        BY <1>1, <1>2, <1>6
      <3> HIDE DEF n, have, p, diverged
      <3> QED
        BY <1>2, <3>1, <3>2
    <2>2. BlocksOf(d) = SubSeq(p, ch.first + 1, n)
      <3>1. BlocksOf(d) = SubSeq(SubSeq(p, 1, n), ch.first + 1, n)
        BY <1>1, <1>5, <1>6 DEF Body
      <3>2. ch.first \in Nat /\ n \in ch.first..n /\ n \in 0..Len(p)
        BY <1>2, <2>1
      <3> HIDE DEF n, p
      <3> QED
        BY <1>2, <3>1, <3>2, Nested
    <2> QED
      BY <1>1, <1>6, <2>1, <2>2 DEF Continues
  <1>7. ASSUME ~diverged, ch.first = d.meta.first, ~(n < have) PROVE BlocksOf(d) = Body(ch)
    <2>1. n = have
      BY <1>2, <1>5, <1>7
    <2>2. p = old.path
      BY <1>2, <1>5, <1>7, <2>1, SubSeqFull
    <2> QED
      BY <1>1, <1>7, <2>2 DEF Body
  <1>8. CASE ch.first = 0
    <2>1. ch.first = d.meta.first /\ ~(ch.first > 0)
      BY <1>1, <1>2, <1>8
    <2>2. CASE diverged
      <3>1. StoredCount(d) > 0 /\ ~AncestorMatches(ch, d)
        <4>1. CASE n > have
          BY <1>2, <1>3, <4>1 DEF AncestorMatches
        <4>2. CASE ~(n > have)
          BY <1>1, <1>3, <2>2, <4>2
        <4> QED
          BY <4>1, <4>2
      <3> HIDE DEF diverged, n
      <3> QED
        BY <1>4, <1>8, <2>1, <2>2, <3>1 DEF SaveOK, Appending, BodiesDone
    <2>3. CASE ~diverged /\ n < have
      <3>1. Continues(ch, d)
        BY <1>6, <2>1, <2>3
      <3> HIDE DEF diverged, n
      <3> QED
        BY <1>4, <1>8, <2>1, <2>3, <3>1 DEF SaveOK, Appending, BodiesDone
    <2>4. CASE ~diverged /\ ~(n < have)
      <3>1. BlocksOf(d) = Body(ch)
        BY <1>7, <2>1, <2>4
      <3> HIDE DEF diverged, n
      <3> QED
        BY <1>4, <1>8, <2>1, <2>4, <3>1 DEF SaveOK, Appending, BodiesDone
    <2> QED
      BY <2>2, <2>3, <2>4
  <1>9. CASE ch.first # 0
    <2>1. CASE diverged \/ moved
      <3> HIDE DEF diverged, moved, n
      <3> QED
        BY <1>4, <1>9, <2>1 DEF SaveOK, Appending, BodiesDone
    <2>2. CASE ~diverged /\ ~moved /\ n < have
      <3>1. Continues(ch, d)
        BY <1>6, <2>2
      <3> HIDE DEF diverged, moved, n
      <3> QED
        BY <1>4, <1>9, <2>2, <3>1 DEF SaveOK, Appending, BodiesDone
    <2>3. CASE ~diverged /\ ~moved /\ ~(n < have)
      <3>1. BlocksOf(d) = Body(ch)
        BY <1>7, <2>3
      <3> HIDE DEF diverged, moved, n
      <3> QED
        BY <1>4, <1>9, <2>3, <3>1 DEF SaveOK, Appending, BodiesDone
    <2> QED
      BY <2>1, <2>2, <2>3
  <1> QED
    BY <1>8, <1>9

\* So does one that begins when the loader thread has verified the file.
LEMMA SaveAfterLoad ==
    ASSUME NEW d, FilesOK(d), Unpruned(d), ~Uncounted(d),
           AncestorMatches([path |-> BlocksOf(d)], d) => d.meta.count = Len(BlocksOf(d)),
           NEW ch, ChainOK(ch), ch.path = BlocksOf(d)
    PROVE  SaveOK(SaveSteps(ch, d), ch, d)
  <1> DEFINE n == StoredCount(d)
             have == Len(ch.path)
             x == BlocksOf(d)
  <1>1. /\ x # None /\ x \in Records /\ (BlockBytes(d) > 0 <=> x # <<>>) /\ BlockBytes(d) \in Nat
        /\ (IF d.meta = None THEN 0 ELSE d.meta.first) = 0
        /\ n \in Nat /\ have \in Nat
    BY BytesOrNone, PathIs, MetaIs DEF Unpruned, FilesOK, StoredCount
  <1>2. AncestorMatches(ch, d) => n = have
    <2>1. AncestorMatches(ch, d) => AncestorMatches([path |-> BlocksOf(d)], d) /\ n # 0
      BY <1>1 DEF AncestorMatches, Records
    <2>2. n # 0 => n = d.meta.count
      BY DEF StoredCount
    <2> QED
      BY <2>1, <2>2
  <1>3. n = 0 => have = 0
    <2> SUFFICES ASSUME n = 0 PROVE have = 0
      OBVIOUS
    <2>1. x = <<>>
      BY <1>1 DEF Uncounted
    <2> QED
      BY <2>1
  <1>4. CASE ch.first = 0
    <2>1. Body(ch) = x /\ ~(ch.first > 0)
      BY <1>4, BodyIs
    <2>2. CASE n > have \/ (n > 0 /\ ~AncestorMatches(ch, d))
      <3>1. n > 0 /\ ~AncestorMatches(ch, d)
        BY <1>1, <1>2, <2>2
      <3>2. SaveSteps(ch, d) = <<"rewrite_all", "meta">>
        BY <1>4, <2>2 DEF SaveSteps
      <3> HIDE DEF n
      <3> QED
        BY <2>1, <3>1, <3>2 DEF SaveOK, Appending, BodiesDone, n
    <2>3. CASE ~(n > have \/ (n > 0 /\ ~AncestorMatches(ch, d)))
      <3>1. n = have
        BY <1>1, <1>2, <1>3, <2>3
      <3>2. SaveSteps(ch, d) = <<"meta">>
        BY <1>1, <1>4, <2>3, <3>1 DEF SaveSteps
      <3> QED
        BY <2>1, <3>2 DEF SaveOK, Appending, BodiesDone
    <2> QED
      BY <2>2, <2>3
  <1>5. CASE ch.first # 0
    <2>1. SaveSteps(ch, d) = <<"headers", "horizon", "rewrite_bodies", "meta">>
      BY <1>1, <1>5 DEF SaveSteps
    <2> QED
      BY <2>1 DEF SaveOK, Appending, BodiesDone
  <1> QED
    BY <1>4, <1>5

-----------------------------------------------------------------------------
(* What is kept of the files *)

\* Files with the same blocks and, but for its lengths, the same record.
LEMMA SameRecords ==
    ASSUME NEW d, FilesOK(d), NEW e, FilesOK(e), BlocksOf(d) # None, BlocksOf(e) = BlocksOf(d),
           e.meta = None <=> d.meta = None,
           d.meta # None => /\ e.meta.count = d.meta.count /\ e.meta.tip = d.meta.tip
                            /\ e.meta.by = d.meta.by /\ e.meta.first = d.meta.first
    PROVE  /\ Settled(e) <=> Settled(d)
           /\ Uncounted(e) <=> Uncounted(d)
           /\ RecordKept(e) <=> RecordKept(d)
  <1>1. StoredCount(e) = StoredCount(d)
    BY DEF StoredCount
  <1>2. Unpruned(e) <=> Unpruned(d)
    BY DEF Unpruned
  <1>3. \A ch : StoredCount(d) \in Nat \ {0} => (AncestorMatches(ch, e) <=> AncestorMatches(ch, d))
    BY <1>1 DEF AncestorMatches, StoredCount
  <1>4. BlocksOf(d) \in Records
    BY BytesOrNone
  <1>5. \A k : AncestorMatches([path |-> BlocksOf(d)], k) => StoredCount(k) \in Nat \ {0}
    BY <1>4 DEF AncestorMatches, Records
  <1>6. AncestorMatches([path |-> BlocksOf(d)], e) <=> AncestorMatches([path |-> BlocksOf(d)], d)
    BY <1>1, <1>3, <1>5
  <1>7. AncestorMatches([path |-> BlocksOf(d)], d) => d.meta # None
    BY <1>5 DEF StoredCount
  <1>8. Settled(e) <=> Settled(d)
    BY <1>2, <1>6, <1>7 DEF Settled
  <1>9. Uncounted(e) <=> Uncounted(d)
    BY <1>1, BytesOrNone DEF Uncounted
  <1>10. RecordKept(e) <=> RecordKept(d)
    BY DEF RecordKept
  <1> QED
    BY <1>8, <1>9, <1>10

\* Files that differ in headers and horizon only.
LEMMA SameBlocks ==
    ASSUME NEW d, NEW e, e.bin = d.bin, e.json = d.json, e.meta = d.meta
    PROVE  /\ BlocksOf(e) = BlocksOf(d) /\ Format(e) = Format(d) /\ BlockBytes(e) = BlockBytes(d)
           /\ FilesKept(e) <=> FilesKept(d)
           /\ \A ch : /\ Continues(ch, e) <=> Continues(ch, d)
                      /\ AncestorMatches(ch, e) <=> AncestorMatches(ch, d)
           /\ StoredCount(e) = StoredCount(d)
  <1>1. BlocksOf(e) = BlocksOf(d) /\ Format(e) = Format(d)
    BY DEF BlocksOf, Format
  <1>2. BlockBytes(e) = BlockBytes(d) /\ StoredCount(e) = StoredCount(d)
    BY <1>1 DEF BlockBytes, StoredCount
  <1>3. \A ch : AncestorMatches(ch, e) <=> AncestorMatches(ch, d)
    BY <1>2 DEF AncestorMatches
  <1>4. \A ch : Continues(ch, e) <=> Continues(ch, d)
    BY <1>1, <1>2 DEF Continues
  <1>5. Settled(e) <=> Settled(d)
    BY <1>1, <1>3 DEF Settled, Unpruned
  <1>6. (Uncounted(e) <=> Uncounted(d)) /\ (Exceeds(e) <=> Exceeds(d))
    BY <1>1, <1>2 DEF Uncounted, Exceeds
  <1>7. RecordKept(e) <=> RecordKept(d)
    BY DEF RecordKept
  <1> QED
    BY <1>1, <1>2, <1>3, <1>4, <1>5, <1>6, <1>7 DEF FilesKept

\* A chain checked block by block is one that verification accepts, and the other way round.
LEMMA FileChecked ==
    ASSUME NEW x \in Records, Verifies(x)
    PROVE  x \in Checked
  <1>1. x \in Seq(Blocks)
    BY LinkedIs DEF Verifies
  <1> QED
    BY <1>1 DEF Checked

\* A file that holds a chain of kept is settled where the record does not point into it, or
\* counts all of it.
LEMMA SettledIf ==
    ASSUME NEW d, BlocksOf(d) # None, BlocksOf(d) \in kept,
           AncestorMatches([path |-> BlocksOf(d)], d) => d.meta.count = Len(BlocksOf(d))
    PROVE  Settled(d)
  BY DEF Settled

\* A file whose record goes past its end is cut back by the loader thread.
LEMMA ExceedsIsCut ==
    ASSUME NEW d, FilesOK(d), Exceeds(d), Unpruned(d)
    PROVE  /\ d.meta # None /\ d.meta.by = Me /\ d.meta.first = 0 /\ d.meta.bytes > 0
           /\ BlockBytes(d) > d.meta.bytes
           /\ CommittedPrefix(d) # {}
  <1> DEFINE x == BlocksOf(d)
             n == d.meta.count
             q == SubSeq(x, 1, n)
  <1>1. /\ d.meta # None /\ d.meta.by = Me /\ d.meta.first = 0 /\ x # None /\ Verifies(x)
        /\ n \in 1..(Len(x) - 1) /\ x[n] = d.meta.tip /\ d.meta.bytes = Bytes(Format(d), q)
    BY DEF Exceeds, Unpruned
  <1>2. x \in Records /\ x \in Checked /\ Len(x) \in Nat /\ BlockBytes(d) = Bytes(Format(d), x)
    BY <1>1, BytesOrNone, FileChecked, CheckedIs
  <1>3. n \in 0..Len(x) /\ n # 0 /\ n < Len(x)
    BY <1>1, <1>2
  <1>4. q \in Checked /\ Len(q) = n /\ TipOf(q) = x[n]
    BY <1>2, <1>3, PrefixChecked
  <1>5. q \in Records /\ q # <<>>
    <2>1. q \in Records
      BY <1>4, CheckedRecords
    <2> HIDE DEF q
    <2> QED
      BY <1>3, <1>4, <2>1
  <1>6. /\ FilesOK(Holding(d, q)) /\ BlocksOf(Holding(d, q)) = q /\ q # None
        /\ Format(Holding(d, q)) = Format(d)
    BY <1>5, HoldingOK, StoreAssumption DEF Records
  <1>7. BlockBytes(Holding(d, q)) = Bytes(Format(d), q) /\ BlockBytes(Holding(d, q)) > 0
    BY <1>5, <1>6, BytesOrNone
  <1>8. Bytes(Format(d), q) < Bytes(Format(d), x) /\ Bytes(Format(d), q) \in Nat
        /\ Bytes(Format(d), x) \in Nat
    BY <1>2, <1>3, MoreIsLonger
  <1>9. n \in CommittedPrefix(d)
    BY <1>1, <1>3, <1>4, <1>7 DEF CommittedPrefix, Checked
  <1>10. d.meta.bytes > 0 /\ BlockBytes(d) > d.meta.bytes
    BY <1>1, <1>2, <1>7, <1>8
  <1> QED
    BY <1>1, <1>9, <1>10

\* What the loader thread reads, then, is a chain of kept if it verifies.
LEMMA RecoveredSettled ==
    ASSUME NEW d, FilesOK(d), BlocksOf(d) # None, FilesKept(d), ~Uncounted(d)
    PROVE  Settled(Recovered(d)) /\ ~Uncounted(Recovered(d)) /\ RecordKept(Recovered(d))
  <1> DEFINE x == BlocksOf(d)
             n == d.meta.count
             cut == /\ d.meta # None /\ d.meta.by = Me /\ d.meta.first = 0 /\ d.meta.bytes > 0
                    /\ BlockBytes(d) > d.meta.bytes
                    /\ CommittedPrefix(d) # {}
  <1>1. CASE cut
    <2> DEFINE q == SubSeq(x, 1, n)
               e == Holding(d, q)
    <2>1. Recovered(d) = e
      BY <1>1 DEF Recovered
    <2>2. n \in 0..Len(x) /\ Verifies(q) /\ TipOf(q) = d.meta.tip
      BY <1>1 DEF CommittedPrefix
    <2>3. x \in Records /\ Len(x) \in Nat
      BY BytesOrNone DEF Records
    <2>4. q \in Records /\ Len(q) = n
      <3>1. n \in 0..Len(x) /\ 0 \in Nat
        BY <2>2
      <3> HIDE DEF n, x
      <3>2. SubSeq(x, 0 + 1, n) \in Records /\ Len(SubSeq(x, 0 + 1, n)) = n - 0
        BY <2>3, <3>1, Sub DEF Records
      <3> QED
        BY <3>1, <3>2
    <2>5. q \in Checked
      BY <2>2, <2>4, FileChecked
    <2>6. q \in kept
      <3>1. PICK p \in Checked \cap kept : TipOf(p) = d.meta.tip
        BY <1>1 DEF FilesKept, RecordKept
      <3> QED
        BY <2>2, <2>5, <3>1, SamePath
    <2> HIDE DEF q
    <2>7. FilesOK(e) /\ BlocksOf(e) = q /\ e.meta = d.meta /\ q # None
      BY <2>4, HoldingOK, StoreAssumption DEF Records
    <2> HIDE DEF e
    <2>8. Settled(e)
      BY <2>4, <2>6, <2>7, SettledIf
    <2>9. ~Uncounted(e)
      <3> SUFFICES ASSUME StoredCount(e) = 0 PROVE ~(BlockBytes(e) > 0)
        BY DEF Uncounted
      <3>1. n = 0
        BY <1>1, <2>7 DEF StoredCount
      <3>2. q = <<>>
        BY <2>4, <3>1, EmptySeq DEF Records
      <3> QED
        BY <2>7, <3>2, BytesOrNone
    <2>10. RecordKept(e)
      BY <2>7 DEF FilesKept, RecordKept
    <2> QED
      BY <2>1, <2>8, <2>9, <2>10
  <1>2. CASE ~cut
    <2>1. Recovered(d) = d
      BY <1>2 DEF Recovered
    <2>2. Settled(d)
      <3>1. CASE Exceeds(d)
        <4>1. ~Unpruned(d)
          BY <1>2, <3>1, ExceedsIsCut
        <4> QED
          BY <4>1 DEF Settled
      <3>2. CASE ~Exceeds(d)
        BY <3>2 DEF FilesKept
      <3> QED
        BY <3>1, <3>2
    <2> QED
      BY <2>1, <2>2 DEF FilesKept
  <1> QED
    BY <1>1, <1>2

\* What a start makes of a file that is trusted, or that was verified, is a chain of kept.
LEMMA LoadedIsKept ==
    ASSUME NEW d, FilesOK(d), FilesKept(d), Loads(d),
           BlocksOf(d) = None \/ IsOwnFileTrusted(d) \/ Settled(d)
    PROVE  LoadedChain(d).path \in kept
  <1>1. CASE BlocksOf(d) = None
    <2>1. LoadedChain(d).path = <<>>
      BY <1>1 DEF LoadedChain
    <2>2. ~Uncounted(d) /\ ~Exceeds(d)
      BY <1>1 DEF Uncounted, Exceeds, BlockBytes
    <2> QED
      BY <1>1, <2>1, <2>2 DEF FilesKept, Settled
  <1>2. CASE BlocksOf(d) # None /\ IsOwnFileTrusted(d)
    <2>1. PICK p \in Checked \cap kept : TipOf(p) = d.meta.tip
      BY <1>2 DEF FilesKept, RecordKept, IsOwnFileTrusted
    <2>2. LoadedChain(d).path \in Checked /\ TipOf(LoadedChain(d).path) = d.meta.tip
      BY <1>2, LoadedIsChecked DEF ChainOK
    <2> QED
      BY <2>1, <2>2, SamePath
  <1>3. CASE BlocksOf(d) # None /\ ~IsOwnFileTrusted(d)
    <2>1. Unpruned(d)
      BY <1>3 DEF Loads, Unpruned
    <2>2. LoadBase(d) = <<>>
      <3>1. d.meta # None => d.meta.first = 0
        BY <2>1 DEF Unpruned
      <3> QED
        BY <3>1 DEF LoadBase
    <2>3. LoadedChain(d).path = BlocksOf(d)
      BY <1>3, <2>2, BytesOrNone, ConcatEmptySeq DEF LoadedChain, Records
    <2> QED
      BY <1>3, <2>1, <2>3 DEF Settled
  <1> QED
    BY <1>1, <1>2, <1>3

-----------------------------------------------------------------------------
(* A save, operation by operation *)

\* What is left of a save after its next operation.
LEMMA SaveTail ==
    ASSUME NEW ch, NEW j \in ToSave(ch)
    PROVE  /\ Head(j) = "headers" =>
                 /\ ch.first # 0 /\ Head(Tail(j)) = "horizon" /\ Tail(j) # <<>>
                 /\ Tail(j) \in Appending => j \in Appending
                 /\ Tail(j) \in BodiesDone => j \in BodiesDone
                 /\ Tail(j) # <<"rewrite_all", "meta">>
           /\ Head(j) = "horizon" =>
                 /\ ch.first # 0 /\ Tail(j) # <<>> /\ Head(Tail(j)) \notin {"headers", "horizon"}
                 /\ Tail(j) \in Appending => j \in Appending
                 /\ Tail(j) \in BodiesDone => j \in BodiesDone
                 /\ Tail(j) # <<"rewrite_all", "meta">>
           /\ Head(j) \in {"rewrite_all", "append"} => ch.first = 0
           /\ Head(j) \in {"rewrite_bodies", "append_bodies"} => ch.first # 0
           /\ Head(j) = "rewrite_all" => j = <<"rewrite_all", "meta">>
           /\ Head(j) \in {"append", "append_bodies"} => j \in Appending
           /\ Head(j) \in {"rewrite_all", "append", "rewrite_bodies", "append_bodies"} =>
                 Tail(j) = <<"meta">>
           /\ Head(j) = "meta" => j \in BodiesDone /\ Tail(j) = <<>>
  <1>1. CASE j = <<"meta">>
    <2>1. Head(j) = "meta" /\ Tail(j) = <<>>
      BY <1>1
    <2> QED
      BY <1>1, <2>1 DEF BodiesDone
  <1>2. CASE j = <<"append", "meta">>
    <2>1. Head(j) = "append" /\ Tail(j) = <<"meta">>
      BY <1>2
    <2> QED
      BY <1>2, <2>1 DEF ToSave, Appending
  <1>3. CASE j = <<"rewrite_all", "meta">>
    <2>1. Head(j) = "rewrite_all" /\ Tail(j) = <<"meta">>
      BY <1>3
    <2> QED
      BY <1>3, <2>1 DEF ToSave
  <1>4. CASE j = <<"horizon", "meta">>
    <2>1. Head(j) = "horizon" /\ Tail(j) = <<"meta">>
      BY <1>4
    <2>2. Head(<<"meta">>) = "meta" /\ <<"meta">> # <<>>
      OBVIOUS
    <2> QED
      BY <1>4, <2>1, <2>2 DEF ToSave, Appending, BodiesDone
  <1>5. CASE j = <<"headers", "horizon", "meta">>
    <2>1. Head(j) = "headers" /\ Tail(j) = <<"horizon", "meta">>
      BY <1>5
    <2>2. Head(<<"horizon", "meta">>) = "horizon"
      OBVIOUS
    <2> QED
      BY <1>5, <2>1, <2>2 DEF ToSave, Appending, BodiesDone
  <1>6. CASE j = <<"append_bodies", "meta">>
    <2>1. Head(j) = "append_bodies" /\ Tail(j) = <<"meta">>
      BY <1>6
    <2> QED
      BY <1>6, <2>1 DEF ToSave, Appending
  <1>7. CASE j = <<"horizon", "append_bodies", "meta">>
    <2>1. Head(j) = "horizon" /\ Tail(j) = <<"append_bodies", "meta">>
      BY <1>7
    <2>2. Head(<<"append_bodies", "meta">>) = "append_bodies" /\ <<"append_bodies", "meta">> # <<>>
      OBVIOUS
    <2> QED
      BY <1>7, <2>1, <2>2 DEF ToSave, Appending, BodiesDone
  <1>8. CASE j = <<"headers", "horizon", "append_bodies", "meta">>
    <2>1. Head(j) = "headers" /\ Tail(j) = <<"horizon", "append_bodies", "meta">>
      BY <1>8
    <2>2. Head(<<"horizon", "append_bodies", "meta">>) = "horizon"
      OBVIOUS
    <2> QED
      BY <1>8, <2>1, <2>2 DEF ToSave, Appending, BodiesDone
  <1>9. CASE j = <<"rewrite_bodies", "meta">>
    <2>1. Head(j) = "rewrite_bodies" /\ Tail(j) = <<"meta">>
      BY <1>9
    <2> QED
      BY <1>9, <2>1 DEF ToSave
  <1>10. CASE j = <<"horizon", "rewrite_bodies", "meta">>
    <2>1. Head(j) = "horizon" /\ Tail(j) = <<"rewrite_bodies", "meta">>
      BY <1>10
    <2>2. Head(<<"rewrite_bodies", "meta">>) = "rewrite_bodies" /\ <<"rewrite_bodies", "meta">> # <<>>
      OBVIOUS
    <2> QED
      BY <1>10, <2>1, <2>2 DEF ToSave, Appending, BodiesDone
  <1>11. CASE j = <<"headers", "horizon", "rewrite_bodies", "meta">>
    <2>1. Head(j) = "headers" /\ Tail(j) = <<"horizon", "rewrite_bodies", "meta">>
      BY <1>11
    <2>2. Head(<<"horizon", "rewrite_bodies", "meta">>) = "horizon"
      OBVIOUS
    <2> QED
      BY <1>11, <2>1, <2>2 DEF ToSave, Appending, BodiesDone
  <1> QED
    BY <1>1, <1>2, <1>3, <1>4, <1>5, <1>6, <1>7, <1>8, <1>9, <1>10, <1>11 DEF ToSave

\* What an append has added when n of the missing bodies are written.
LEMMA Appended ==
    ASSUME NEW ch, ChainOK(ch), NEW d, FilesOK(d), Continues(ch, d)
    PROVE  /\ d.meta.count \in Nat /\ d.meta.count \in ch.first..Len(ch.path)
           /\ Len(ch.path) \in Nat /\ ch.first \in Nat
           /\ Len(Missing(ch, d)) = Len(ch.path) - d.meta.count
           /\ \A n \in 0..Len(Missing(ch, d)) :
                 BlocksOf(d) \o SubSeq(Missing(ch, d), 1, n)
                 = SubSeq(ch.path, ch.first + 1, d.meta.count + n)
           /\ BlocksOf(d) \o Missing(ch, d) = Body(ch)
  <1> DEFINE p == ch.path
             f == ch.first
             c == d.meta.count
             l == Len(p)
             S == Blocks \cup {Junk}
  <1>1. /\ p \in Seq(S) /\ l \in Nat /\ f \in Nat /\ c \in f..l /\ c \in Nat
        /\ BlocksOf(d) = SubSeq(p, f + 1, c)
        /\ StoredCount(d) = c
    BY PathIs DEF Records, Continues, StoredCount
  <1>2. Missing(ch, d) = SubSeq(p, c + 1, l)
    <2>1. (IF StoredCount(d) > f THEN StoredCount(d) ELSE f) = c
      BY <1>1
    <2> QED
      BY <2>1 DEF Missing
  <1> HIDE DEF p, f, c
  <1>3. /\ c \in Nat /\ l \in Nat /\ f \in Nat /\ f <= c /\ c <= l /\ l \in c..Len(p)
        /\ c \in f..Len(p)
    BY <1>1
  <1>4. Len(Missing(ch, d)) = l - c
    <2> HIDE DEF l
    <2> QED
      BY <1>1, <1>2, <1>3, Sub
  <1>5. ASSUME NEW n \in 0..(l - c)
        PROVE  BlocksOf(d) \o SubSeq(Missing(ch, d), 1, n) = SubSeq(p, f + 1, c + n)
    <2>1. SubSeq(SubSeq(p, c + 1, l), 0 + 1, n) = SubSeq(p, (c + 0) + 1, c + n)
      <3>1. 0 \in Nat /\ n \in 0..(l - c)
        OBVIOUS
      <3> HIDE DEF l
      <3> QED
        BY <1>1, <1>3, <3>1, Within
    <2>2. SubSeq(Missing(ch, d), 1, n) = SubSeq(p, c + 1, c + n)
      BY <1>2, <1>3, <2>1
    <2>3. SubSeq(p, f + 1, c) \o SubSeq(p, c + 1, c + n) = SubSeq(p, f + 1, c + n)
      <3>1. f + 1 \in 1..(Len(p) + 1) /\ c \in ((f + 1) - 1)..Len(p) /\ c + n \in c..Len(p)
        BY <1>3
      <3> QED
        BY <1>1, <3>1, ConcatAdjacentSubSeq
    <2> QED
      BY <1>1, <2>2, <2>3
  <1>6. BlocksOf(d) \o Missing(ch, d) = SubSeq(p, f + 1, l)
    <2>1. f + 1 \in 1..(Len(p) + 1) /\ c \in ((f + 1) - 1)..Len(p) /\ l \in c..Len(p)
      BY <1>3
    <2> HIDE DEF l
    <2>2. SubSeq(p, f + 1, c) \o SubSeq(p, c + 1, l) = SubSeq(p, f + 1, l)
      BY <1>1, <2>1, ConcatAdjacentSubSeq
    <2> QED
      BY <1>1, <1>2, <2>2
  <1> QED
    BY <1>1, <1>3, <1>4, <1>5, <1>6 DEF Body, p, f, c

\* An append that is cut short, or the record of which is missing, is one that verification
\* does not take for the whole of another chain.
LEMMA AppendKept ==
    ASSUME NEW ch, ChainOK(ch), NEW d, FilesOK(d), Continues(ch, d), FilesKept(d), ch.path \in kept,
           NEW n \in 0..(Len(ch.path) - d.meta.count)
    PROVE  FilesKept(Holding(d, SubSeq(ch.path, ch.first + 1, d.meta.count + n)))
  <1> DEFINE p == ch.path
             f == ch.first
             c == d.meta.count
             y == SubSeq(p, f + 1, c + n)
             e == Holding(d, y)
             S == Blocks \cup {Junk}
  <1>1. /\ c \in Nat /\ c \in f..Len(p) /\ Len(p) \in Nat /\ f \in Nat
        /\ p \in Seq(S) /\ p \in Checked
    BY Appended, PathIs DEF Records, ChainOK
  <1>2. /\ d.meta # None /\ d.meta.by = Me /\ d.meta.first = f /\ d.meta.tip = TipOf(SubSeq(p, 1, c))
        /\ BlocksOf(d) = SubSeq(p, f + 1, c) /\ d.meta.bytes = BlockBytes(d)
    BY DEF Continues
  <1> HIDE DEF p, f, c
  <1>3. y \in Records /\ y # None /\ Len(y) = (c + n) - f /\ \A i \in 1..((c + n) - f) : y[i] = p[f + i]
    <2>1. c + n \in f..Len(p)
      BY <1>1 DEF c, p
    <2>2. y \in Seq(S) /\ Len(y) = (c + n) - f /\ \A i \in 1..((c + n) - f) : y[i] = p[f + i]
      BY <1>1, <2>1, Sub
    <2> QED
      BY <2>2, StoreAssumption DEF Records
  <1>4. c + n <= Len(p) /\ n \in Nat
    BY <1>1 DEF c, p
  <1> HIDE DEF y
  <1>5. /\ FilesOK(e) /\ BlocksOf(e) = y /\ Format(e) = Format(d)
        /\ Format(d) = "bin" \/ (Format(d) = "json" /\ d.bin = None)
        /\ e = [bin |-> IF Format(d) = "bin" THEN y ELSE d.bin,
                json |-> IF Format(d) = "json" THEN y ELSE d.json,
                meta |-> d.meta, headers |-> d.headers, horizon |-> d.horizon]
    BY <1>3, HoldingOK
  <1> HIDE DEF e
  <1>6. e.meta = d.meta /\ RecordKept(e)
    BY <1>5 DEF FilesKept, RecordKept
  <1>7. CASE n = 0
    <2>1. y = BlocksOf(d)
      BY <1>1, <1>2, <1>7 DEF y
    <2>2. e.bin = d.bin /\ e.json = d.json
      BY <1>5, <2>1 DEF BlocksOf
    <2> QED
      BY <1>6, <2>2, SameBlocks DEF e, y, p, f, c
  <1>8. CASE n # 0 /\ f # 0
    <2>1. ~Unpruned(e)
      BY <1>2, <1>6, <1>8 DEF Unpruned
    <2>2. Settled(e)
      BY <1>3, <1>5, <2>1 DEF Settled
    <2> QED
      BY <1>6, <2>2 DEF FilesKept, e, y, p, f, c
  <1>9. CASE n # 0 /\ f = 0 /\ c = 0
    <2>1. StoredCount(e) = 0
      BY <1>2, <1>6, <1>9 DEF StoredCount, c
    <2>2. y # <<>>
      BY <1>1, <1>3, <1>4, <1>9
    <2>3. BlockBytes(e) > 0
      BY <1>3, <1>5, <2>2, BytesOrNone
    <2> QED
      BY <1>6, <2>1, <2>3 DEF FilesKept, Uncounted, e, y, p, f, c
  <1>10. CASE n # 0 /\ f = 0 /\ c # 0
    <2>1. c \in 1..(Len(y) - 1) /\ c \in 1..((c + n) - f) /\ f + c = c
      BY <1>1, <1>3, <1>4, <1>10
    <2>2. y[c] = p[c]
      BY <1>3, <2>1
    <2>3. d.meta.tip = p[c] /\ c \in 0..Len(p)
      <3>1. c \in 0..Len(p)
        BY <1>1
      <3> QED
        BY <1>1, <1>2, <1>10, <3>1, PrefixChecked
    <2>4. SubSeq(y, 1, c) = BlocksOf(d)
      <3>1. y = SubSeq(p, 1, c + n) /\ BlocksOf(d) = SubSeq(p, 1, c)
        BY <1>2, <1>10 DEF y
      <3>2. SubSeq(SubSeq(p, 1, c + n), 0 + 1, c) = SubSeq(p, 0 + 1, c)
        <4>1. c + n \in 0..Len(p) /\ 0 \in Nat /\ c \in 0..(c + n)
          BY <1>1, <1>4
        <4> QED
          BY <1>1, <4>1, Nested
      <3>3. SubSeq(y, 1, c) = SubSeq(p, 1, c)
        <4>1. 0 + 1 = 1
          OBVIOUS
        <4> QED
          BY <1>1, <1>4, <3>1, <3>2, <4>1
      <3> QED
        BY <3>1, <3>3
    <2>5. BlockBytes(d) = Bytes(Format(d), BlocksOf(d))
      <3>1. BlocksOf(d) # None
        <4>1. BlocksOf(d) \in Seq(S)
          BY <1>1, <1>2, Sub
        <4> QED
          BY <4>1, StoreAssumption
      <3> QED
        BY <3>1, BytesOrNone
    <2>6. Exceeds(e)
      BY <1>2, <1>3, <1>5, <1>6, <2>1, <2>2, <2>3, <2>4, <2>5 DEF Exceeds, c
    <2> QED
      BY <1>6, <2>6 DEF FilesKept, e, y, p, f, c
  <1> QED
    BY <1>7, <1>8, <1>9, <1>10

\* A record that was cut short is one that verification refuses.
LEMMA TornKept ==
    ASSUME NEW d, FilesOK(d), NEW x \in Records, RecordKept(d)
    PROVE  FilesKept(Holding(d, x \o <<Junk>>))
  <1> DEFINE y == x \o <<Junk>>
             e == Holding(d, y)
             S == Blocks \cup {Junk}
  <1>1. y \in Records /\ y # None /\ Len(x) + 1 \in 1..Len(y) /\ y[Len(x) + 1] = Junk
    <2>1. y = Append(x, Junk) /\ x \in Seq(S) /\ Junk \in S
      BY AppendIsConcat DEF Records
    <2>2. y \in Seq(S) /\ Len(y) = Len(x) + 1 /\ y[Len(x) + 1] = Junk
      BY <2>1, AppendProperties
    <2>3. Len(x) \in Nat
      BY <2>1
    <2> HIDE DEF y
    <2> QED
      BY <2>2, <2>3, StoreAssumption DEF Records
  <1> HIDE DEF y
  <1>2. ~Verifies(y)
    <2>1. Verifies(y) => y[Len(x) + 1] \in Blocks
      BY <1>1, LinkedIs DEF Verifies
    <2> QED
      BY <1>1, <2>1, StoreAssumption
  <1>3. BlocksOf(e) = y /\ e.meta = d.meta
    BY <1>1, HoldingOK
  <1> HIDE DEF e
  <1>4. RecordKept(e) /\ Settled(e)
    BY <1>1, <1>2, <1>3 DEF RecordKept, Settled, Unpruned
  <1> QED
    BY <1>4 DEF FilesKept, e, y

\* The bodies of a pruned chain do not verify on their own.
LEMMA BodyNotWhole ==
    ASSUME NEW ch, ChainOK(ch), ch.first # 0
    PROVE  ~Verifies(Body(ch))
  <1>1. ch.path \in Checked /\ ch.first \in Nat /\ Len(ch.path) \in Nat /\ ch.first < Len(ch.path)
    BY PathIs DEF ChainOK
  <1>2. 1 \in 1..(Len(ch.path) - ch.first) /\ ch.first + 1 \in 1..Len(ch.path) /\ ch.first + 1 # 1
        /\ (ch.first + 1) - 1 = ch.first /\ ch.first \in 1..Len(ch.path)
    BY <1>1
  <1>3. Body(ch) \in Records /\ Len(Body(ch)) = Len(ch.path) - ch.first
        /\ Body(ch)[1] = ch.path[ch.first + 1]
    BY <1>2, BodyIs
  <1>4. Parent[ch.path[ch.first + 1]] = ch.path[ch.first] /\ ch.path[ch.first] \in Blocks
    BY <1>1, <1>2, CheckedIs
  <1>5. ASSUME Verifies(Body(ch)) PROVE Parent[Body(ch)[1]] = GenesisHash
    <2>1. Parent[Body(ch)[1]] = TipOf(<<>>)
      BY <1>2, <1>3, <1>5, LinkedIs DEF Verifies
    <2> QED
      BY <2>1 DEF TipOf
  <1> QED
    BY <1>3, <1>4, <1>5, StoreAssumption

-----------------------------------------------------------------------------
(* What is kept, action by action *)

\* What the datadir holds and what is promised of it.
Inv == SafeInv /\ StoryInv

\* No promise is made again.
LEMMA BrokenStays == ASSUME Broken, [NextFaulty]_vars PROVE Broken'
  BY DEF Broken, NextFaulty, Next, vars, Move, PersistLoop, SetPrune, Resync, SaveStep, SaveFails,
         Crash, PowerCut, StartTrusted, StartLoader, LoaderDone, Migrate, MigrateStep, Tried

\* Nothing kept is dropped when another chain is tried.
LEMMA KeptGrows ==
    ASSUME UNCHANGED disk, kept \subseteq kept'
    PROVE  /\ FilesKept(disk) => FilesKept(disk)'
           /\ Settled(disk) => Settled(disk)'
  <1>1. Settled(disk) => Settled(disk)'
    BY DEF Settled
  <1>2. RecordKept(disk) => RecordKept(disk)'
    BY DEF RecordKept
  <1> QED
    BY <1>1, <1>2 DEF FilesKept

\* Jobs of one kind are not of another.
LEMMA Disjoint ==
    ASSUME NEW ch, NEW j \in ToSave(ch)
    PROVE  j \notin ToReset /\ j # <<>>
  <1>1. j \in ToReset => FALSE
    BY SaveHead, ResetHead
  <1> QED
    BY <1>1, SaveHead

\* A save begins on files it may rely on.
LEMMA StoryBegin ==
    ASSUME Inv, ~Broken, UNCHANGED disk, NEW ch, ChainOK(ch), NEW on, BeginSave(ch, on, disk),
           mode' = "up", kept \subseteq kept', ch.path \in kept',
           SaveOK(SaveSteps(PrunedTo(ch, on), disk), PrunedTo(ch, on), disk)
    PROVE  StoryInv'
  <1>1. /\ mem' = PrunedTo(ch, on) /\ mem'.path = ch.path /\ ChainOK(mem')
        /\ job' = SaveSteps(mem', disk)
    BY Pruned DEF BeginSave
  <1>2. job' \in ToSave(mem') /\ job' \notin ToReset /\ job' # <<>>
    BY <1>1, SaveBegins, Disjoint
  <1>3. FilesKept(disk)'
    BY KeptGrows DEF Inv, StoryInv
  <1>4. SaveOK(job', mem', disk')
    BY <1>1
  <1> QED
    BY <1>1, <1>2, <1>3, <1>4 DEF StoryInv, Running

\* The next save of a running node.
LEMMA StoryNextSave ==
    ASSUME Inv, ~Broken, Running, UNCHANGED disk, NEW ch, ChainOK(ch), NEW on,
           BeginSave(ch, on, disk), mode' = "up", kept' = Tried(ch.path), mem.first <= ch.first
    PROVE  StoryInv'
  <1>1. AtRest(disk, mem) /\ ChainOK(mem)
    BY DEF Inv, StoryInv, SafeInv
  <1>2. ChainOK(PrunedTo(ch, on)) /\ mem.first <= PrunedTo(ch, on).first
    <2>1. ChainOK(PrunedTo(ch, on)) /\ ch.first <= PrunedTo(ch, on).first
      BY Pruned
    <2>2. mem.first \in Nat /\ ch.first \in Nat /\ PrunedTo(ch, on).first \in Nat
      BY <1>1, <2>1 DEF ChainOK
    <2> QED
      BY <2>1, <2>2
  <1>3. SaveOK(SaveSteps(PrunedTo(ch, on), disk), PrunedTo(ch, on), disk)
    BY <1>1, <1>2, SaveAfterRest
  <1>4. kept \subseteq kept' /\ ch.path \in kept'
    BY DEF Tried
  <1> QED
    BY <1>3, <1>4, StoryBegin

\* The chain moves.
LEMMA StoryMove == ASSUME Inv, ~Broken, NEW p \in Paths, Move(p) PROVE StoryInv'
  <1> DEFINE ch == [mem EXCEPT !.path = p]
  <1>1. ch = [path |-> p, first |-> mem.first] /\ mem.first \in Nat /\ Len(p) > mem.first
    BY DEF Inv, SafeInv, ChainOK, Move
  <1>2. p \in Checked /\ Len(p) \in Nat
    BY PathsChecked, CheckedIs
  <1>3. ChainOK(ch) /\ mem.first <= ch.first /\ ch.path = p
    BY <1>1, <1>2 DEF ChainOK
  <1> HIDE DEF ch
  <1>4. /\ BeginSave(ch, prune, disk) /\ mode' = "up" /\ Running /\ UNCHANGED disk
        /\ kept' = Tried(ch.path)
    BY <1>3 DEF Move, ch, Running
  <1> QED
    BY <1>3, <1>4, StoryNextSave

\* A save begins.
LEMMA StoryPersist == ASSUME Inv, ~Broken, PersistLoop PROVE StoryInv'
  <1>1. ChainOK(mem) /\ mem.first <= mem.first
    BY DEF Inv, SafeInv, ChainOK
  <1>2. /\ BeginSave(mem, prune, disk) /\ mode' = "up" /\ Running /\ UNCHANGED disk
        /\ kept' = Tried(mem.path)
    BY DEF PersistLoop, Running
  <1> QED
    BY <1>1, <1>2, StoryNextSave

\* Pruning is turned on.
LEMMA StorySetPrune == ASSUME Inv, ~Broken, ~Broken', SetPrune PROVE StoryInv'
  <1>1. ChainOK(mem) /\ mem.first <= mem.first
    BY DEF Inv, SafeInv, ChainOK
  <1>2. /\ BeginSave(mem, TRUE, disk) /\ mode' = "up" /\ Running /\ UNCHANGED disk
        /\ kept' = Tried(mem.path)
    BY DEF SetPrune, Running, Broken
  <1> QED
    BY <1>1, <1>2, StoryNextSave

\* A resync begins.
LEMMA StoryResync == ASSUME Inv, ~Broken, Resync PROVE StoryInv'
  <1> DEFINE st == IF Format(disk) = "bin" THEN "start_bin" ELSE "start_json"
  <1>1. /\ mode = "up" /\ mode' = "up" /\ UNCHANGED <<disk, mem>>
        /\ kept \subseteq kept' /\ <<>> \in kept'
        /\ mem.path \in kept /\ FilesKept(disk)
    BY DEF Resync, Running, Tried, Inv, StoryInv
  <1>2. /\ job' \in ToReset /\ job' # <<>>
        /\ BlocksOf(disk) = None => job' = <<"drop_meta", "new_chain", "rewrite_all", "meta">>
        /\ BlocksOf(disk) # None => job' = <<"set_aside", st, "drop_meta", "new_chain", "meta">>
    <2>1. FilesOK(disk)
      BY DEF Inv, SafeInv
    <2> QED
      BY <2>1, ResetSteps DEF Resync
  <1> HIDE DEF st
  <1>3. job' \notin ToSave(mem')
    BY <1>2, Disjoint
  <1>4. ResetOK(job', disk)
    <2>1. CASE BlocksOf(disk) = None
      <3>1. Head(job') = "drop_meta"
        BY <1>2, <2>1
      <3> QED
        BY <1>2, <2>1, <3>1 DEF ResetOK
    <2>2. CASE BlocksOf(disk) # None
      <3>1. Head(job') = "set_aside"
        BY <1>2, <2>2
      <3> QED
        BY <3>1 DEF ResetOK
    <2> QED
      BY <2>1, <2>2
  <1>5. FilesKept(disk)'
    BY <1>1, KeptGrows
  <1> QED
    BY <1>1, <1>2, <1>3, <1>4, <1>5 DEF StoryInv, Running

\* A migration begins.
LEMMA StoryMigrate == ASSUME Inv, ~Broken, ~Broken', Migrate PROVE StoryInv'
  <1>1. /\ mode' = "migrating" /\ UNCHANGED <<disk, kept>> /\ Format(disk) = "json"
        /\ ~Outdated(disk) /\ FilesKept(disk) /\ FilesOK(disk)
    BY DEF Migrate, Broken, Inv, StoryInv, SafeInv
  <1>2. BlocksOf(disk) # None
    BY <1>1 DEF BlocksOf, Format
  <1>3. Settled(disk) \/ Uncounted(disk)
    <2>1. CASE Exceeds(disk) /\ Unpruned(disk)
      <3>1. disk.meta.bytes # BlockBytes(disk)
        <4>1. BlockBytes(disk) > disk.meta.bytes
          BY <1>1, <2>1, ExceedsIsCut
        <4>2. BlockBytes(disk) \in Nat
          BY <1>1, <1>2, BytesOrNone
        <4> QED
          BY <4>1, <4>2
      <3> QED
        BY <1>1, <2>1, <3>1 DEF Outdated, Exceeds
    <2>2. CASE ~Unpruned(disk)
      BY <1>2, <2>2 DEF Settled
    <2>3. CASE ~Exceeds(disk)
      BY <1>1, <2>3 DEF FilesKept
    <2> QED
      BY <2>1, <2>2, <2>3
  <1>4. (Settled(disk) \/ Uncounted(disk))' /\ FilesKept(disk)'
    BY <1>1, <1>3 DEF FilesKept, Settled, RecordKept
  <1> QED
    BY <1>1, <1>2, <1>4 DEF StoryInv, Running

\* An operation of a migration leaves the same blocks, and a record of the same chain.
LEMMA MigrateKeeps ==
    ASSUME Inv, ~Broken, MigrateStep
    PROVE  /\ BlocksOf(disk) # None /\ BlocksOf(disk') = BlocksOf(disk)
           /\ disk'.meta = None <=> disk.meta = None
           /\ disk.meta # None => /\ disk'.meta.count = disk.meta.count /\ disk'.meta.tip = disk.meta.tip
                                  /\ disk'.meta.by = disk.meta.by /\ disk'.meta.first = disk.meta.first
  <1>1. /\ mode = "migrating" /\ mode' = (IF Len(job) = 1 THEN "down" ELSE "migrating")
        /\ disk' = Written(Head(job), mem, disk) /\ job' = Tail(job) /\ kept' = kept
    BY DEF MigrateStep
  <1>2. /\ job \in ToMigrate
        /\ IF SwapsIn(job) THEN disk.json # None ELSE disk.bin # None
        /\ Restamps(job) => disk.meta # None
        /\ FilesOK(disk)
        /\ disk = [bin |-> disk.bin, json |-> disk.json, meta |-> disk.meta,
                   headers |-> disk.headers, horizon |-> disk.horizon]
    BY <1>1 DEF Inv, SafeInv, JobOK, FilesOK
  <1>3. /\ SwapsIn(job) => Format(disk) = "json"
        /\ BlocksOf(disk) # None /\ (Settled(disk) \/ Uncounted(disk)) /\ RecordKept(disk)
    BY <1>1 DEF Inv, StoryInv, FilesKept
  <1>4. /\ Head(job) = IF SwapsIn(job) THEN "swap_in" ELSE IF job = <<"restamp">> THEN "restamp"
                       ELSE "swap_out"
        /\ Len(job) # 1 => job' \in ToMigrate /\ ~SwapsIn(job') /\ job # <<"restamp">>
        /\ Len(job) = 1 => job' = <<>>
        /\ job = <<"restamp">> => Restamps(job) /\ ~SwapsIn(job)
    BY <1>1, <1>2, MigrateHead
  <1>5. /\ BlocksOf(disk') = BlocksOf(disk)
        /\ disk'.meta = None <=> disk.meta = None
        /\ disk.meta # None => /\ disk'.meta.count = disk.meta.count /\ disk'.meta.tip = disk.meta.tip
                               /\ disk'.meta.by = disk.meta.by /\ disk'.meta.first = disk.meta.first
    <2>1. CASE Head(job) = "swap_in"
      <3>1. disk' = [disk EXCEPT !.bin = disk.json] /\ disk.json # None /\ Format(disk) = "json"
        BY <1>1, <1>2, <1>3, <1>4, <2>1 DEF Written
      <3>2. disk'.bin = disk.json /\ disk'.meta = disk.meta
        BY <1>2, <3>1
      <3> QED
        BY <3>1, <3>2 DEF BlocksOf, Format
    <2>2. CASE Head(job) = "swap_out"
      <3>1. disk' = [disk EXCEPT !.json = None] /\ disk.bin # None
        BY <1>1, <1>2, <1>4, <2>2 DEF Written
      <3>2. disk'.bin = disk.bin /\ disk'.meta = disk.meta
        BY <1>2, <3>1
      <3> QED
        BY <3>1, <3>2 DEF BlocksOf, Format
    <2>3. CASE Head(job) = "restamp"
      <3>1. disk.meta # None /\ MetaOK(disk.meta)
        BY <1>2, <1>4, <2>3 DEF FilesOK
      <3> DEFINE m == [disk.meta EXCEPT !.bytes = BlockBytes(disk)]
      <3>2. disk' = [disk EXCEPT !.meta = m]
        BY <1>1, <2>3 DEF Written
      <3>3. /\ m.count = disk.meta.count /\ m.tip = disk.meta.tip
            /\ m.by = disk.meta.by /\ m.first = disk.meta.first
            /\ m = [count |-> m.count, tip |-> m.tip, by |-> m.by, bytes |-> m.bytes,
                    first |-> m.first, horizonBytes |-> m.horizonBytes,
                    headersBytes |-> m.headersBytes]
        BY <3>1, MetaIs
      <3>4. disk'.bin = disk.bin /\ disk'.json = disk.json /\ disk'.meta = m
        BY <1>2, <3>2
      <3>5. m # None
        <4>1. m \in Metas
          <5>1. BlockBytes(disk) \in Nat
            BY <1>2, LengthsAre
          <5> QED
            BY <3>1, <5>1 DEF MetaOK, Metas
        <4> QED
          BY <4>1, StoreAssumption
      <3> QED
        BY <3>1, <3>3, <3>4, <3>5 DEF BlocksOf, Format
    <2> QED
      BY <1>4, <2>1, <2>2, <2>3
  <1> QED
    BY <1>3, <1>5

\* An operation of a migration is done.
LEMMA StoryMigrateStep == ASSUME Inv, ~Broken, MigrateStep PROVE StoryInv'
  <1>1. /\ mode = "migrating" /\ mode' = (IF Len(job) = 1 THEN "down" ELSE "migrating")
        /\ job' = Tail(job) /\ kept' = kept
    BY DEF MigrateStep
  <1>2. job \in ToMigrate /\ FilesOK(disk)
    BY <1>1 DEF Inv, SafeInv, JobOK
  <1>3. (Settled(disk) \/ Uncounted(disk)) /\ RecordKept(disk)
    BY <1>1 DEF Inv, StoryInv, FilesKept
  <1>4. /\ Len(job) # 1 => job' \in ToMigrate /\ ~SwapsIn(job')
        /\ Len(job) = 1 => job' = <<>>
    BY <1>1, <1>2, MigrateHead
  <1>5. FilesOK(disk')
    BY <1>1, SafeMigrateStep DEF Inv, SafeInv
  <1>6. /\ BlocksOf(disk) # None /\ BlocksOf(disk') = BlocksOf(disk)
        /\ disk'.meta = None <=> disk.meta = None
        /\ disk.meta # None => /\ disk'.meta.count = disk.meta.count /\ disk'.meta.tip = disk.meta.tip
                               /\ disk'.meta.by = disk.meta.by /\ disk'.meta.first = disk.meta.first
    BY MigrateKeeps
  <1>7. BlocksOf(disk') # None /\ (Settled(disk') \/ Uncounted(disk')) /\ RecordKept(disk')
    BY <1>2, <1>3, <1>5, <1>6, SameRecords
  <1>8. (Settled(disk) \/ Uncounted(disk))' /\ FilesKept(disk)'
    BY <1>1, <1>7 DEF FilesKept, Settled, RecordKept
  <1> QED
    BY <1>1, <1>4, <1>6, <1>7, <1>8 DEF StoryInv, Running

\* The next files keep what these would.
LEMMA KeptSame ==
    ASSUME kept' = kept
    PROVE  /\ FilesKept(disk') => FilesKept(disk)'
           /\ Settled(disk') => Settled(disk)'
  BY DEF FilesKept, Settled, RecordKept

\* The datadir's first chain is the one it was given with.
LEMMA StoryInit == Init => StoryInv
  <1> SUFFICES ASSUME Init PROVE StoryInv
    OBVIOUS
  <1> DEFINE x == BlocksOf(disk)
  <1>1. /\ disk \in InitialDirs /\ mode = "down" /\ kept = {LoadedChain(disk).path}
    BY DEF Init
  <1>2. CASE disk = Empty
    <2>1. x = None /\ disk.meta = None
      BY <1>2 DEF Empty, BlocksOf, Format
    <2>2. kept = {<<>>}
      BY <1>1, <2>1 DEF LoadedChain
    <2>3. FilesKept(disk)
      BY <2>1, <2>2 DEF FilesKept, RecordKept, Settled, Unpruned
    <2> QED
      BY <1>1, <2>3 DEF StoryInv, Running
  <1>3. CASE disk # Empty
    <2>1. /\ x # None /\ x \in Records /\ disk.meta.first = 0 /\ disk.meta.count = Len(x)
          /\ disk.meta.tip = TipOf(x) /\ (disk.meta.by = Me => x \in Checked)
      BY <1>1, <1>3, GivenDirOK
    <2>2. LoadBase(disk) = <<>>
      BY <2>1 DEF LoadBase
    <2>3. LoadedChain(disk).path = x
      BY <2>1, <2>2, ConcatEmptySeq DEF LoadedChain, Records
    <2>4. RecordKept(disk)
      BY <1>1, <2>1, <2>3 DEF RecordKept
    <2>5. Settled(disk)
      BY <1>1, <2>1, <2>3, SettledIf
    <2> QED
      BY <1>1, <2>4, <2>5 DEF StoryInv, Running, FilesKept
  <1> QED
    BY <1>2, <1>3

-----------------------------------------------------------------------------
(* The operations of a save *)

\* The headers and the horizon of a pruned chain are written beside its bodies.
LEMMA StoryBeside ==
    ASSUME Inv, ~Broken, SaveStep, mode = "up", job \in ToSave(mem),
           Head(job) \in {"headers", "horizon"}
    PROVE  StoryInv'
  <1>1. /\ mode' = "up" /\ disk' = Written(Head(job), mem, disk) /\ job' = Tail(job)
        /\ mem' = mem /\ kept' = kept
    BY DEF SaveStep
  <1>2. /\ FilesKept(disk) /\ mem.path \in kept /\ SaveOK(job, mem, disk)
        /\ disk = [bin |-> disk.bin, json |-> disk.json, meta |-> disk.meta,
                   headers |-> disk.headers, horizon |-> disk.horizon]
    BY DEF Inv, StoryInv, SafeInv, FilesOK
  <1>3. /\ mem.first # 0 /\ job' # <<>>
        /\ job' \in Appending => job \in Appending
        /\ job' \in BodiesDone => job \in BodiesDone
        /\ job' # <<"rewrite_all", "meta">>
        /\ Head(job) = "headers" => Head(job') = "horizon"
        /\ Head(job) = "horizon" => Head(job') \notin {"headers", "horizon"}
    BY <1>1, SaveTail
  <1>4. job' \in ToSave(mem') /\ job' \notin ToReset
    <2>1. job' \in ToSave(mem')
      BY <1>1, <1>3, SaveHead
    <2> QED
      BY <2>1, Disjoint
  <1>5. /\ disk'.bin = disk.bin /\ disk'.json = disk.json /\ disk'.meta = disk.meta
        /\ Head(job) = "headers" => disk'.headers = mem.path
        /\ Head(job) = "horizon" => /\ disk'.headers = disk.headers
                                    /\ disk'.horizon = SubSeq(mem.path, 1, mem.first)
    <2>1. CASE Head(job) = "headers"
      <3>1. disk' = [disk EXCEPT !.headers = mem.path]
        BY <1>1, <2>1 DEF Written
      <3> QED
        BY <1>2, <2>1, <3>1
    <2>2. CASE Head(job) = "horizon"
      <3>1. disk' = [disk EXCEPT !.horizon = SubSeq(mem.path, 1, mem.first)]
        BY <1>1, <2>2 DEF Written
      <3> QED
        BY <1>2, <2>2, <3>1
    <2> QED
      BY <2>1, <2>2
  <1>6. /\ BlocksOf(disk') = BlocksOf(disk) /\ FilesKept(disk')
        /\ Continues(mem, disk') <=> Continues(mem, disk)
    BY <1>2, <1>5, SameBlocks
  <1>7. SaveOK(job', mem, disk')
    <2>1. job' \in Appending => Continues(mem, disk')
      BY <1>2, <1>3, <1>6 DEF SaveOK
    <2>2. job' \in BodiesDone => BlocksOf(disk') = Body(mem)
      BY <1>2, <1>3, <1>6 DEF SaveOK
    <2>3. mem.first > 0 /\ Head(job') # "headers" => disk'.headers = mem.path
      BY <1>2, <1>3, <1>5 DEF SaveOK
    <2>4. mem.first > 0 /\ Head(job') \notin {"headers", "horizon"} =>
             disk'.horizon = SubSeq(mem.path, 1, mem.first)
      BY <1>3, <1>5
    <2> QED
      BY <1>3, <2>1, <2>2, <2>3, <2>4 DEF SaveOK
  <1>8. FilesKept(disk)' /\ SaveOK(job', mem', disk')
    BY <1>1, <1>6, <1>7, KeptSame
  <1> QED
    BY <1>1, <1>2, <1>3, <1>4, <1>8 DEF StoryInv, Running

\* The blocks file is written, in whole or by its end: what is left is the record.
LEMMA StoryBlocks ==
    ASSUME Inv, ~Broken, SaveStep, mode = "up", job \in ToSave(mem),
           Head(job) \in {"rewrite_all", "rewrite_bodies", "append", "append_bodies"}
    PROVE  StoryInv'
  <1> DEFINE e == Holding(disk, Body(mem))
  <1>1. /\ mode' = "up" /\ disk' = Written(Head(job), mem, disk) /\ job' = Tail(job)
        /\ mem' = mem /\ kept' = kept
    BY DEF SaveStep
  <1>2. /\ FilesKept(disk) /\ mem.path \in kept /\ SaveOK(job, mem, disk)
        /\ FilesOK(disk) /\ ChainOK(mem)
    BY DEF Inv, StoryInv, SafeInv
  <1>3. /\ job' = <<"meta">>
        /\ Head(job) = "rewrite_all" => job = <<"rewrite_all", "meta">> /\ mem.first = 0
        /\ Head(job) = "rewrite_bodies" => mem.first # 0
        /\ Head(job) \in {"append", "append_bodies"} => job \in Appending
    BY <1>1, SaveTail
  <1>4. Body(mem) \in Records /\ Body(mem) # None /\ (mem.first = 0 => Body(mem) = mem.path)
    BY <1>2, BodyIs
  <1>5. /\ BlocksOf(e) = Body(mem) /\ e.meta = disk.meta
        /\ e.headers = disk.headers /\ e.horizon = disk.horizon
    BY <1>2, <1>4, HoldingOK
  <1> HIDE DEF e
  <1>6. disk' = e /\ FilesKept(e)
    <2>1. RecordKept(e)
      BY <1>2, <1>5 DEF FilesKept, RecordKept
    <2>2. CASE Head(job) = "rewrite_all"
      <3>1. disk' = e
        BY <1>1, <2>2 DEF Written, Body, e
      <3>2. StoredCount(e) = StoredCount(disk)
        BY <1>5 DEF StoredCount
      <3>3. mem.path = <<>> \/ ~AncestorMatches(mem, disk)
        BY <1>2, <1>3, <2>2 DEF SaveOK
      <3>4. ~AncestorMatches([path |-> mem.path], e)
        BY <1>5, <3>2, <3>3 DEF AncestorMatches
      <3>5. Settled(e)
        BY <1>2, <1>3, <1>4, <1>5, <2>2, <3>4, SettledIf
      <3> QED
        BY <2>1, <3>1, <3>5 DEF FilesKept
    <2>3. CASE Head(job) = "rewrite_bodies"
      <3>1. disk' = e
        BY <1>1, <2>3 DEF Written, Body, e
      <3>2. Settled(e)
        BY <1>2, <1>3, <1>4, <1>5, <2>3, BodyNotWhole DEF Settled, Unpruned
      <3> QED
        BY <2>1, <3>1, <3>2 DEF FilesKept
    <2>4. CASE Head(job) \in {"append", "append_bodies"}
      <3>1. Continues(mem, disk)
        BY <1>2, <1>3, <2>4 DEF SaveOK
      <3>2. /\ disk.meta.count \in Nat /\ disk.meta.count \in mem.first..Len(mem.path)
            /\ Len(mem.path) \in Nat /\ BlocksOf(disk) \o Missing(mem, disk) = Body(mem)
        BY <1>2, <3>1, Appended
      <3>3. disk' = e
        BY <1>1, <2>4, <3>2 DEF Written, e
      <3> DEFINE n == Len(mem.path) - disk.meta.count
      <3>4. n \in 0..(Len(mem.path) - disk.meta.count) /\ disk.meta.count + n = Len(mem.path)
        BY <3>2
      <3> HIDE DEF n
      <3>5. FilesKept(Holding(disk, SubSeq(mem.path, mem.first + 1, disk.meta.count + n)))
        BY <1>2, <3>1, <3>4, AppendKept
      <3> QED
        BY <3>3, <3>4, <3>5 DEF e, Body
    <2> QED
      BY <2>2, <2>3, <2>4
  <1>7. SaveOK(job', mem, disk')
    <2>1. Head(job) \notin {"headers", "horizon"}
      OBVIOUS
    <2>2. mem.first > 0 => disk.headers = mem.path /\ disk.horizon = SubSeq(mem.path, 1, mem.first)
      BY <1>2, <2>1 DEF SaveOK
    <2>3. job' \notin Appending /\ job' # <<"rewrite_all", "meta">>
      BY <1>3 DEF Appending
    <2> QED
      BY <1>5, <1>6, <2>2, <2>3 DEF SaveOK
  <1>8. job' \in ToSave(mem') /\ job' \notin ToReset /\ job' # <<>>
    <2>1. job' \in ToSave(mem')
      BY <1>3 DEF ToSave
    <2> QED
      BY <2>1, Disjoint
  <1>9. FilesKept(disk)' /\ SaveOK(job', mem', disk')
    BY <1>1, <1>6, <1>7, KeptSame
  <1> QED
    BY <1>1, <1>2, <1>8, <1>9 DEF StoryInv, Running

\* The record is the commit: the save is finished, and its chain alone is kept.
LEMMA StoryCommit ==
    ASSUME Inv, ~Broken, SaveStep, mode = "up", job \in ToSave(mem), Head(job) = "meta"
    PROVE  StoryInv'
  <1> DEFINE m == MetaFor(mem, disk)
             x == BlocksOf(disk)
  <1>1. /\ mode' = "up" /\ disk' = [disk EXCEPT !.meta = m] /\ job' = Tail(job)
        /\ mem' = mem /\ kept' = {mem.path}
    BY DEF SaveStep, Written
  <1>2. /\ SaveOK(job, mem, disk) /\ FilesOK(disk) /\ ChainOK(mem)
        /\ disk = [bin |-> disk.bin, json |-> disk.json, meta |-> disk.meta,
                   headers |-> disk.headers, horizon |-> disk.horizon]
    BY DEF Inv, StoryInv, SafeInv, FilesOK
  <1>3. job' = <<>> /\ job \in BodiesDone /\ job' \notin ToSave(mem') /\ job' \notin ToReset
    <2>1. job' = <<>> /\ job \in BodiesDone
      BY <1>1, SaveTail
    <2>2. <<>> \notin ToSave(mem') /\ <<>> \notin ToReset
      BY SaveHead, ResetHead
    <2> QED
      BY <2>1, <2>2
  <1>4. /\ x = Body(mem) /\ x \in Records /\ x # None /\ (mem.first = 0 => x = mem.path)
        /\ mem.path \in Checked /\ mem.first \in Nat /\ mem.path \in Records
        /\ Len(mem.path) \in Nat /\ mem.first \in 0..Len(mem.path)
    BY <1>2, <1>3, BodyIs, PathIs DEF SaveOK, ChainOK
  <1>5. /\ m.count = Len(mem.path) /\ m.tip = TipOf(mem.path) /\ m.by = Me
        /\ m.bytes = BlockBytes(disk) /\ m.first = mem.first
        /\ m.horizonBytes = FlatBytes(disk.horizon) /\ m.headersBytes = FlatBytes(disk.headers)
    BY DEF MetaFor
  <1>6. m # None
    BY <1>2, RecordIs
  <1> HIDE DEF m, x
  <1>7. /\ disk'.bin = disk.bin /\ disk'.json = disk.json /\ disk'.meta = m
        /\ disk'.headers = disk.headers /\ disk'.horizon = disk.horizon
    BY <1>1, <1>2
  <1>8. BlocksOf(disk') = x /\ BlockBytes(disk') = BlockBytes(disk)
    BY <1>7 DEF x, BlockBytes, BlocksOf, Format
  <1>9. AtRest(disk', mem)
    <2>1. mem.first > 0 => /\ disk.headers = mem.path /\ disk.horizon = SubSeq(mem.path, 1, mem.first)
      BY <1>2 DEF SaveOK
    <2>2. mem.path # None /\ mem.first <= Len(mem.path)
      BY <1>4, StoreAssumption DEF Records
    <2> QED
      BY <1>4, <1>5, <1>6, <1>7, <1>8, <2>1, <2>2 DEF AtRest
  <1>10. FilesKept(disk)'
    <2>1. RecordKept(disk)'
      BY <1>1, <1>4, <1>5, <1>7 DEF RecordKept
    <2>2. Unpruned(disk') => x = mem.path
      <3> SUFFICES ASSUME Unpruned(disk') PROVE mem.first = 0
        BY <1>4
      <3> QED
        BY <1>5, <1>6, <1>7 DEF Unpruned
    <2>3. Settled(disk)'
      BY <1>1, <1>4, <1>5, <1>7, <1>8, <2>2 DEF Settled
    <2> QED
      BY <2>1, <2>3 DEF FilesKept
  <1> QED
    BY <1>1, <1>3, <1>9, <1>10 DEF StoryInv, Running

\* What is left of a resync after its next operation.
LEMMA ResetTail ==
    ASSUME NEW j \in ToReset
    PROVE  /\ Head(j) = "set_aside" => Head(Tail(j)) \in {"start_bin", "start_json"}
           /\ Head(j) \in {"start_bin", "start_json"} =>
                 Tail(j) = <<"drop_meta", "new_chain", "meta">> /\ Head(Tail(j)) = "drop_meta"
           /\ Head(j) = "drop_meta" =>
                 /\ Head(Tail(j)) = "new_chain"
                 /\ Tail(j) = IF j = <<"drop_meta", "new_chain", "rewrite_all", "meta">>
                              THEN <<"new_chain", "rewrite_all", "meta">> ELSE <<"new_chain", "meta">>
           /\ Head(j) = "new_chain" =>
                 Tail(j) = IF j = <<"new_chain", "rewrite_all", "meta">>
                           THEN <<"rewrite_all", "meta">> ELSE <<"meta">>
  <1>1. CASE j = <<"set_aside", "start_bin", "drop_meta", "new_chain", "meta">>
    <2>1. Head(j) = "set_aside" /\ Tail(j) = <<"start_bin", "drop_meta", "new_chain", "meta">>
      BY <1>1
    <2>2. Head(<<"start_bin", "drop_meta", "new_chain", "meta">>) = "start_bin"
      OBVIOUS
    <2> QED
      BY <2>1, <2>2
  <1>2. CASE j = <<"set_aside", "start_json", "drop_meta", "new_chain", "meta">>
    <2>1. Head(j) = "set_aside" /\ Tail(j) = <<"start_json", "drop_meta", "new_chain", "meta">>
      BY <1>2
    <2>2. Head(<<"start_json", "drop_meta", "new_chain", "meta">>) = "start_json"
      OBVIOUS
    <2> QED
      BY <2>1, <2>2
  <1>3. CASE j \in {<<"start_bin", "drop_meta", "new_chain", "meta">>,
                    <<"start_json", "drop_meta", "new_chain", "meta">>}
    <2>1. /\ Head(j) \in {"start_bin", "start_json"}
          /\ Tail(j) = <<"drop_meta", "new_chain", "meta">>
      <3>1. CASE j = <<"start_bin", "drop_meta", "new_chain", "meta">>
        BY <3>1
      <3>2. CASE j = <<"start_json", "drop_meta", "new_chain", "meta">>
        BY <3>2
      <3> QED
        BY <1>3, <3>1, <3>2
    <2>2. Head(<<"drop_meta", "new_chain", "meta">>) = "drop_meta"
      OBVIOUS
    <2> QED
      BY <2>1, <2>2
  <1>4. CASE j = <<"drop_meta", "new_chain", "meta">>
    <2>1. Head(j) = "drop_meta" /\ Tail(j) = <<"new_chain", "meta">>
          /\ j # <<"drop_meta", "new_chain", "rewrite_all", "meta">>
      BY <1>4
    <2>2. Head(<<"new_chain", "meta">>) = "new_chain"
      OBVIOUS
    <2> QED
      BY <2>1, <2>2
  <1>5. CASE j = <<"new_chain", "meta">>
    <2>1. Head(j) = "new_chain" /\ Tail(j) = <<"meta">> /\ j # <<"new_chain", "rewrite_all", "meta">>
      BY <1>5
    <2> QED
      BY <2>1
  <1>6. CASE j = <<"drop_meta", "new_chain", "rewrite_all", "meta">>
    <2>1. Head(j) = "drop_meta" /\ Tail(j) = <<"new_chain", "rewrite_all", "meta">>
      BY <1>6
    <2>2. Head(<<"new_chain", "rewrite_all", "meta">>) = "new_chain"
      OBVIOUS
    <2> QED
      BY <1>6, <2>1, <2>2
  <1>7. CASE j = <<"new_chain", "rewrite_all", "meta">>
    <2>1. Head(j) = "new_chain" /\ Tail(j) = <<"rewrite_all", "meta">>
      BY <1>7
    <2> QED
      BY <1>7, <2>1
  <1> QED
    BY <1>1, <1>2, <1>3, <1>4, <1>5, <1>6, <1>7 DEF ToReset

\* Files whose blocks are none, or an empty file, are those of the empty chain.
LEMMA BareKept ==
    ASSUME NEW d, BlocksOf(d) \in {None, <<>>}, <<>> \in kept, RecordKept(d)
    PROVE  FilesKept(d)
  <1>1. ~AncestorMatches([path |-> <<>>], d)
    BY DEF AncestorMatches
  <1>2. Settled(d)
    BY <1>1 DEF Settled, Unpruned
  <1> QED
    BY <1>2 DEF FilesKept

\* A resync puts an empty chain in the place of the files it set aside.
LEMMA StoryReset ==
    ASSUME Inv, ~Broken, ~Broken', SaveStep, mode = "up", job \in ToReset
    PROVE  StoryInv'
  <1>1. /\ mode' = "up" /\ disk' = Written(Head(job), mem, disk) /\ job' = Tail(job)
        /\ mem' = IF Head(job) = "new_chain" THEN NoChain ELSE mem
    BY DEF SaveStep
  <1>2. /\ Head(job) \in {"set_aside", "start_bin", "start_json", "drop_meta", "new_chain"}
        /\ IF Head(job) = "new_chain" THEN job' \in {<<"meta">>, <<"rewrite_all", "meta">>}
           ELSE job' \in ToReset
    BY <1>1, ResetHead
  <1>3. kept' = kept /\ (Head(job) = "set_aside" => disk.bin = None \/ disk.json = None)
    BY <1>2 DEF SaveStep, Broken
  <1>4. /\ FilesKept(disk) /\ RecordKept(disk) /\ mem.path \in kept /\ <<>> \in kept
        /\ ResetOK(job, disk)
        /\ disk = [bin |-> disk.bin, json |-> disk.json, meta |-> disk.meta,
                   headers |-> disk.headers, horizon |-> disk.horizon]
    BY DEF Inv, StoryInv, SafeInv, FilesOK, FilesKept
  <1>5. <<>> # None
    <2>1. <<>> \in Seq(Blocks \cup {Junk})
      OBVIOUS
    <2> QED
      BY <2>1, StoreAssumption
  <1>6. CASE Head(job) = "set_aside"
    <2>1. disk' = Holding(disk, None)
      BY <1>1, <1>6 DEF Written
    <2>2. disk'.bin = None /\ disk'.json = None /\ disk'.meta = disk.meta
      <3>1. CASE Format(disk) = "bin"
        <4>1. disk' = [disk EXCEPT !.bin = None]
          BY <2>1, <3>1 DEF Holding
        <4>2. disk.json = None
          BY <1>3, <1>6, <3>1 DEF Format
        <4> QED
          BY <1>4, <4>1, <4>2
      <3>2. CASE Format(disk) # "bin"
        <4>1. disk.bin = None /\ Format(disk) = "json"
          BY <3>2 DEF Format
        <4>2. disk' = [disk EXCEPT !.json = None]
          BY <2>1, <4>1 DEF Holding
        <4> QED
          BY <1>4, <4>1, <4>2
      <3> QED
        BY <3>1, <3>2
    <2>3. BlocksOf(disk') = None
      BY <2>2 DEF BlocksOf, Format
    <2>4. RecordKept(disk')
      BY <1>4, <2>2 DEF RecordKept
    <2>5. FilesKept(disk)'
      BY <1>3, <1>4, <2>3, <2>4, BareKept, KeptSame
    <2>6. Head(job') \in {"start_bin", "start_json"}
      BY <1>1, <1>6, ResetTail
    <2>7. ResetOK(job', disk')
      BY <2>2, <2>6 DEF ResetOK
    <2>8. job' \in ToReset /\ job' # <<>> /\ job' \notin ToSave(mem')
      BY <1>2, <1>6, ResetHead, Disjoint
    <2>9. mem' = mem
      BY <1>1, <1>6
    <2> QED
      BY <1>1, <1>3, <1>4, <2>5, <2>7, <2>8, <2>9 DEF StoryInv, Running
  <1>7. CASE Head(job) \in {"start_bin", "start_json"}
    <2>1. disk.bin = None /\ disk.json = None
      BY <1>4, <1>7 DEF ResetOK
    <2>2. disk' = IF Head(job) = "start_bin" THEN [disk EXCEPT !.bin = <<>>]
                  ELSE [disk EXCEPT !.json = <<>>]
      BY <1>1, <1>7 DEF Written
    <2>3. BlocksOf(disk') = <<>> /\ disk'.meta = disk.meta
      <3>1. CASE Head(job) = "start_bin"
        <4>1. disk'.bin = <<>> /\ disk'.meta = disk.meta
          BY <1>4, <2>2, <3>1
        <4> QED
          BY <1>5, <4>1 DEF BlocksOf, Format
      <3>2. CASE Head(job) # "start_bin"
        <4>1. disk'.json = <<>> /\ disk'.bin = None /\ disk'.meta = disk.meta
          BY <1>4, <2>1, <2>2, <3>2
        <4> QED
          BY <1>5, <4>1 DEF BlocksOf, Format
      <3> QED
        BY <3>1, <3>2
    <2>4. RecordKept(disk')
      BY <1>4, <2>3 DEF RecordKept
    <2>5. FilesKept(disk)'
      BY <1>3, <1>4, <2>3, <2>4, BareKept, KeptSame
    <2>6. job' = <<"drop_meta", "new_chain", "meta">> /\ Head(job') = "drop_meta"
      BY <1>1, <1>7, ResetTail
    <2>7. ResetOK(job', disk')
      BY <2>3, <2>6 DEF ResetOK
    <2>8. job' \in ToReset /\ job' # <<>> /\ job' \notin ToSave(mem')
      BY <1>2, <1>7, ResetHead, Disjoint
    <2>9. mem' = mem
      BY <1>1, <1>7
    <2> QED
      BY <1>1, <1>3, <1>4, <2>5, <2>7, <2>8, <2>9 DEF StoryInv, Running
  <1>8. CASE Head(job) = "drop_meta"
    <2>1. disk' = [disk EXCEPT !.meta = None]
      BY <1>1, <1>8 DEF Written
    <2>2. BlocksOf(disk') = BlocksOf(disk) /\ disk'.meta = None
      <3>1. disk'.bin = disk.bin /\ disk'.json = disk.json /\ disk'.meta = None
        BY <1>4, <2>1
      <3> QED
        BY <3>1 DEF BlocksOf, Format
    <2>3. BlocksOf(disk) = IF job = <<"drop_meta", "new_chain", "rewrite_all", "meta">>
                           THEN None ELSE <<>>
      <3>1. job # <<"new_chain", "rewrite_all", "meta">>
        BY <1>8
      <3> QED
        BY <1>4, <1>8, <3>1 DEF ResetOK
    <2>4. RecordKept(disk')
      BY <2>2 DEF RecordKept
    <2>5. FilesKept(disk)'
      BY <1>3, <1>4, <2>2, <2>3, <2>4, BareKept, KeptSame
    <2>6. /\ Head(job') = "new_chain"
          /\ job' = IF job = <<"drop_meta", "new_chain", "rewrite_all", "meta">>
                    THEN <<"new_chain", "rewrite_all", "meta">> ELSE <<"new_chain", "meta">>
      BY <1>1, <1>8, ResetTail
    <2>7. ResetOK(job', disk')
      BY <2>2, <2>3, <2>6 DEF ResetOK
    <2>8. job' \in ToReset /\ job' # <<>> /\ job' \notin ToSave(mem')
      BY <1>2, <1>8, ResetHead, Disjoint
    <2>9. mem' = mem
      BY <1>1, <1>8
    <2> QED
      BY <1>1, <1>3, <1>4, <2>5, <2>7, <2>8, <2>9 DEF StoryInv, Running
  <1>9. CASE Head(job) = "new_chain"
    <2>1. disk' = disk /\ mem' = NoChain
      BY <1>1, <1>9 DEF Written
    <2>2. BlocksOf(disk) = IF job = <<"new_chain", "rewrite_all", "meta">> THEN None ELSE <<>>
      <3>1. job # <<"drop_meta", "new_chain", "rewrite_all", "meta">>
        BY <1>9
      <3> QED
        BY <1>4, <1>9, <3>1 DEF ResetOK
    <2>3. job' = IF job = <<"new_chain", "rewrite_all", "meta">> THEN <<"rewrite_all", "meta">>
                 ELSE <<"meta">>
      BY <1>1, <1>9, ResetTail
    <2>4. /\ ChainOK(NoChain) /\ NoChain.path = <<>> /\ NoChain.first = 0 /\ Body(NoChain) = <<>>
      BY NoChainOK, BodyIs
    <2>5. SaveOK(job', NoChain, disk)
      <3>1. job' \notin Appending
        BY <2>3 DEF Appending
      <3> QED
        BY <2>2, <2>3, <2>4, <3>1 DEF SaveOK, BodiesDone
    <2>6. job' \in ToSave(mem') /\ job' \notin ToReset /\ job' # <<>>
      <3>1. job' \in ToSave(mem')
        BY <2>1, <2>3, <2>4 DEF ToSave
      <3> QED
        BY <3>1, Disjoint
    <2>7. FilesKept(disk)' /\ mem'.path \in kept'
      BY <1>3, <1>4, <2>1, <2>4, KeptSame
    <2>8. SaveOK(job', mem', disk')
      BY <2>1, <2>5
    <2> QED
      BY <1>1, <2>6, <2>7, <2>8 DEF StoryInv, Running
  <1> QED
    BY <1>2, <1>6, <1>7, <1>8, <1>9

\* An operation of a save is done: what is left of it finds what it relies on.
LEMMA StorySaveStep == ASSUME Inv, ~Broken, ~Broken', SaveStep PROVE StoryInv'
  <1>1. mode = "up" /\ job # <<>>
    BY DEF SaveStep, Inv, StoryInv
  <1>2. job \in ToSave(mem) \cup ToReset
    BY <1>1 DEF Inv, SafeInv, JobOK
  <1> QED
    BY <1>1, <1>2, SaveHead, StoryBeside, StoryBlocks, StoryCommit, StoryReset

-----------------------------------------------------------------------------
(* Crashes and starts *)

\* What a crash leaves of an append is a part of the chain, or a record cut short.
LEMMA StoryCrash == ASSUME Inv, ~Broken, Crash PROVE StoryInv'
  <1>1. /\ mode' = "down" /\ job' = <<>> /\ kept' = kept
        /\ disk' \in IF job = <<>> THEN {disk} ELSE Partial(Head(job), mem, disk)
    BY DEF Crash, Stopped
  <1>2. FilesKept(disk) /\ FilesOK(disk) /\ ChainOK(mem) /\ RecordKept(disk)
    BY DEF Inv, StoryInv, SafeInv, FilesKept
  <1>3. FilesKept(disk')
    <2>1. CASE disk' = disk
      BY <1>2, <2>1
    <2>2. CASE disk' # disk
      <3>1. job # <<>> /\ disk' \in Partial(Head(job), mem, disk)
        BY <1>1, <2>2
      <3>2. Head(job) \in {"append", "append_bodies"}
        BY <2>2, <3>1 DEF Partial
      <3>3. mode = "up" /\ job \in ToSave(mem)
        <4>1. mode \in {"up", "migrating"}
          BY <3>1 DEF Crash, Inv, StoryInv
        <4>2. CASE mode = "migrating"
          <5>1. job \in ToMigrate
            BY <4>2 DEF Inv, SafeInv, JobOK
          <5> QED
            BY <3>2, <5>1, MigrateHead
        <4>3. CASE mode = "up"
          <5>1. job \in ToSave(mem) \cup ToReset
            BY <3>1, <4>3 DEF Inv, SafeInv, JobOK
          <5> QED
            BY <3>2, <4>3, <5>1, ResetHead
        <4> QED
          BY <4>1, <4>2, <4>3
      <3>4. Continues(mem, disk) /\ mem.path \in kept
        BY <3>2, <3>3, SaveTail DEF Inv, StoryInv, SaveOK
      <3>5. PICK n \in 0..Len(Missing(mem, disk)), torn \in {<<>>, <<Junk>>} :
               disk' = Holding(disk, BlocksOf(disk) \o SubSeq(Missing(mem, disk), 1, n) \o torn)
        BY <2>2, <3>1, <3>2 DEF Partial
      <3> DEFINE y == SubSeq(mem.path, mem.first + 1, disk.meta.count + n)
      <3>6. /\ BlocksOf(disk) \o SubSeq(Missing(mem, disk), 1, n) = y
            /\ n \in 0..(Len(mem.path) - disk.meta.count)
        BY <1>2, <3>4, Appended
      <3>7. y \in Records
        <4>1. BlocksOf(disk) \in Records
          <5>1. BlocksOf(disk) # None
            BY <3>3, <3>2, SaveHead DEF Inv, SafeInv, JobOK
          <5> QED
            BY <1>2, <5>1, BytesOrNone
        <4>2. SubSeq(Missing(mem, disk), 1, n) \in Records
          <5>1. 1 \in Nat \ {0}
            OBVIOUS
          <5> QED
            BY <1>2, <5>1, MissingIs, Part
        <4> QED
          BY <3>6, <4>1, <4>2, Joined
      <3>8. FilesKept(Holding(disk, y))
        BY <1>2, <3>4, <3>6, AppendKept
      <3> HIDE DEF y
      <3>9. CASE torn = <<>>
        <4>1. y \o torn = y
          BY <3>7, <3>9, ConcatEmptySeq DEF Records
        <4> QED
          BY <3>5, <3>6, <3>8, <4>1
      <3>10. CASE torn = <<Junk>>
        <4>1. disk' = Holding(disk, y \o <<Junk>>)
          BY <3>5, <3>6, <3>10
        <4> QED
          BY <1>2, <3>7, <4>1, TornKept
      <3> QED
        BY <3>9, <3>10
    <2> QED
      BY <2>1, <2>2
  <1>4. FilesKept(disk)'
    BY <1>1, <1>3, KeptSame
  <1> QED
    BY <1>1, <1>4 DEF StoryInv, Running

\* A trusted file is that of the last save that finished.
LEMMA StoryStartTrusted ==
    ASSUME Inv, ~Broken, StartTrusted
    PROVE  StoryInv' /\ (mode' = "up" => mem'.path \in kept)
  <1> DEFINE ch == LoadedChain(disk)
             on == prune \/ ch.first > 0
             new == PrunedTo(ch, on)
  <1>1. /\ mode \in {"down", "refused"} /\ UNCHANGED disk
        /\ BlocksOf(disk) = None \/ IsOwnFileTrusted(disk)
        /\ \/ /\ Loads(disk) /\ mode' = "up"
              /\ \/ BeginSave(ch, on, disk) /\ kept' = Tried(ch.path)
                 \/ BlocksOf(disk) # None /\ mem' = ch /\ UNCHANGED <<job, kept>>
           \/ mode' = "refused" /\ UNCHANGED <<mem, prune, job, kept>>
    BY DEF StartTrusted
  <1>2. FilesOK(disk) /\ FilesKept(disk) /\ job = <<>>
    BY <1>1 DEF Inv, StoryInv, SafeInv, JobOK
  <1>3. <<>> \notin ToSave(mem') /\ <<>> \notin ToReset
    BY SaveHead, ResetHead
  <1>4. ASSUME Loads(disk) PROVE ChainOK(ch) /\ ch.path \in kept
    BY <1>1, <1>2, <1>4, LoadedIsChecked, LoadedIsKept
  <1>5. ASSUME Loads(disk), BlocksOf(disk) # None PROVE AtRest(disk, ch)
    BY <1>1, <1>2, <1>5, TrustedAtRest
  <1>6. CASE Loads(disk) /\ mode' = "up" /\ BeginSave(ch, on, disk) /\ kept' = Tried(ch.path)
    <2>1. ChainOK(ch) /\ ch.path \in kept /\ kept \subseteq kept' /\ ch.path \in kept'
      BY <1>4, <1>6 DEF Tried
    <2>2. ChainOK(new) /\ ch.first <= new.first /\ mem' = new /\ new.path = ch.path
      BY <1>6, <2>1, Pruned DEF BeginSave
    <2>3. SaveOK(SaveSteps(new, disk), new, disk)
      <3>1. CASE BlocksOf(disk) = None
        <4>1. ch = NoChain
          BY <3>1 DEF LoadedChain, NoChain
        <4>2. ch.path = <<>> /\ ch.first = 0 /\ Len(ch.path) = 0
          BY <4>1 DEF NoChain
        <4>3. new = ch
          BY <4>2, StoreAssumption DEF PrunedTo
        <4> HIDE DEF ch, new
        <4>4. SaveSteps(new, disk) = <<"rewrite_all", "meta">>
          BY <3>1, <4>2, <4>3 DEF SaveSteps
        <4> QED
          BY <3>1, <4>2, <4>3, <4>4 DEF SaveOK, Appending, BodiesDone
      <3>2. CASE BlocksOf(disk) # None
        BY <1>5, <1>6, <2>1, <2>2, <3>2, SaveAfterRest
      <3> QED
        BY <3>1, <3>2
    <2> HIDE DEF ch, on
    <2>4. StoryInv'
      BY <1>1, <1>6, <2>1, <2>3, StoryBegin
    <2> QED
      BY <2>1, <2>2, <2>4
  <1>7. CASE /\ Loads(disk) /\ mode' = "up" /\ BlocksOf(disk) # None /\ mem' = ch
             /\ UNCHANGED <<job, kept>>
    <2>1. ChainOK(ch) /\ ch.path \in kept /\ AtRest(disk, ch)
      BY <1>4, <1>5, <1>7
    <2>2. FilesKept(disk)' /\ AtRest(disk', mem')
      BY <1>1, <1>2, <1>7, <2>1, KeptSame
    <2> HIDE DEF ch
    <2> QED
      BY <1>2, <1>3, <1>7, <2>1, <2>2 DEF StoryInv, Running
  <1>8. CASE mode' = "refused" /\ UNCHANGED <<mem, prune, job, kept>>
    <2>1. FilesKept(disk)'
      BY <1>1, <1>2, <1>8, KeptSame
    <2> QED
      BY <1>8, <2>1 DEF StoryInv, Running
  <1> HIDE DEF ch, on, new
  <1> QED
    BY <1>1, <1>6, <1>7, <1>8

\* The loader thread reads a file of which no more is left than what is kept.
LEMMA StoryStartLoader == ASSUME Inv, ~Broken, ~Broken', StartLoader PROVE StoryInv'
  <1>1. /\ mode \in {"down", "refused"} /\ BlocksOf(disk) # None /\ disk' = Recovered(disk)
        /\ mode' = "loading" /\ image' = disk' /\ job' = job /\ kept' = kept /\ ~Uncounted(disk)
    BY DEF StartLoader, Broken
  <1>2. FilesOK(disk) /\ FilesKept(disk) /\ job = <<>>
    BY <1>1 DEF Inv, StoryInv, SafeInv, JobOK
  <1>3. Settled(disk') /\ ~Uncounted(disk') /\ RecordKept(disk')
    BY <1>1, <1>2, RecoveredSettled
  <1>4. FilesKept(disk)' /\ Settled(disk)' /\ ~Uncounted(disk')
    BY <1>1, <1>3, KeptSame DEF FilesKept
  <1> QED
    BY <1>1, <1>2, <1>4 DEF StoryInv, Running

\* What it has verified is saved.
LEMMA StoryLoaderDone ==
    ASSUME Inv, ~Broken, LoaderDone
    PROVE  StoryInv' /\ (mode' = "up" => mem'.path \in kept)
  <1> DEFINE ch == LoadedChain(disk)
             new == PrunedTo(ch, prune)
  <1>1. mode = "loading" /\ image = disk /\ job = <<>> /\ image' = None /\ UNCHANGED disk
        /\ BlocksOf(disk) # None
    BY DEF LoaderDone, Inv, StoryInv, SafeInv
  <1>2. FilesOK(disk) /\ FilesKept(disk) /\ Settled(disk) /\ ~Uncounted(disk)
    BY <1>1 DEF Inv, StoryInv, SafeInv
  <1>3. CASE /\ Loads(disk) /\ mode' = "up" /\ BeginSave(ch, prune, disk)
             /\ kept' = Tried(ch.path)
    <2>1. ChainOK(ch) /\ ch.path \in kept /\ kept \subseteq kept' /\ ch.path \in kept'
      BY <1>2, <1>3, LoadedIsChecked, LoadedIsKept DEF Tried
    <2>2. ChainOK(new) /\ ch.first <= new.first /\ mem' = new /\ new.path = ch.path
      BY <1>3, <2>1, Pruned DEF BeginSave
    <2>3. SaveOK(SaveSteps(new, disk), new, disk)
      <3>1. CASE IsOwnFileTrusted(disk)
        <4>1. AtRest(disk, ch)
          BY <1>1, <1>2, <1>3, <3>1, TrustedAtRest
        <4> HIDE DEF ch, new
        <4> QED
          BY <2>1, <2>2, <4>1, SaveAfterRest
      <3>2. CASE ~IsOwnFileTrusted(disk)
        <4>1. Unpruned(disk)
          BY <1>1, <1>3, <3>2 DEF Loads, Unpruned
        <4>2. ch.path = BlocksOf(disk)
          <5>1. LoadBase(disk) = <<>>
            <6>1. disk.meta # None => disk.meta.first = 0
              BY <4>1 DEF Unpruned
            <6> QED
              BY <6>1 DEF LoadBase
          <5> QED
            BY <1>1, <1>2, <5>1, BytesOrNone, ConcatEmptySeq DEF LoadedChain, Records
        <4>3. AncestorMatches([path |-> BlocksOf(disk)], disk) => disk.meta.count = Len(BlocksOf(disk))
          BY <1>2, <4>1 DEF Settled
        <4> HIDE DEF ch, new
        <4> QED
          BY <1>2, <2>2, <4>1, <4>2, <4>3, SaveAfterLoad
      <3> QED
        BY <3>1, <3>2
    <2> HIDE DEF ch
    <2>4. StoryInv'
      BY <1>1, <1>3, <2>1, <2>3, StoryBegin
    <2> QED
      BY <2>1, <2>2, <2>4
  <1>4. CASE UNCHANGED <<mode, mem, job, kept>>
    <2>1. FilesKept(disk)' /\ Settled(disk)' /\ ~Uncounted(disk')
      BY <1>1, <1>2, <1>4, KeptSame
    <2> QED
      BY <1>1, <1>4, <2>1 DEF StoryInv, Running
  <1> QED
    BY <1>1, <1>3, <1>4 DEF LoaderDone

\* Every step keeps the promise, or breaks it for good.
LEMMA StoryNext == ASSUME Inv, [NextFaulty]_vars PROVE StoryInv'
  <1>1. CASE Broken'
    BY <1>1 DEF StoryInv
  <1>2. CASE ~Broken'
    <2>1. ~Broken
      BY <1>2, BrokenStays
    <2>2. CASE UNCHANGED vars
      <3>1. UNCHANGED <<disk, mode, image, mem, job, kept>> /\ StoryInv
        BY <2>2 DEF vars, Inv
      <3> QED
        BY <2>1, <3>1 DEF StoryInv, Broken, Running, FilesKept, Settled, RecordKept
    <2>3. CASE SaveFails \/ PowerCut
      BY <1>2, <2>3 DEF SaveFails, PowerCut, Broken
    <2>4. CASE Next
      BY <1>2, <2>1, <2>4, StoryMove, StoryPersist, StorySetPrune, StoryResync, StorySaveStep,
         StoryMigrate, StoryMigrateStep, StoryCrash, StoryStartTrusted, StoryStartLoader,
         StoryLoaderDone DEF Next
    <2> QED
      BY <2>2, <2>3, <2>4 DEF NextFaulty
  <1> QED
    BY <1>1, <1>2

-----------------------------------------------------------------------------
(* Theorems *)

\* Whatever is killed, fails or loses power, the files, the chain in memory and the save in
\* progress fit each other: save_with_progress, save_pruned, migrate_to_binary, resync and the
\* start of the node keep the inductive invariant.
THEOREM StoryHolds == SpecFaulty => []Inv
  <1>1. Init => Inv
    BY SafeInit, StoryInit DEF Inv
  <1>2. Inv /\ [NextFaulty]_vars => Inv'
    BY SafeNext, StoryNext DEF Inv
  <1> QED
    BY <1>1, <1>2, PTL DEF SpecFaulty

\* What save_with_progress or save_pruned has finished writing, and nothing has tried to
\* replace since, is the chain that load_or_new_with_progress returns from these files.
THEOREM SaveIsReplayed == SpecFaulty => []SavedReplays
  <1>1. Inv => SavedReplays
    <2> SUFFICES ASSUME Inv, Running, kept = {mem.path} PROVE Loads(disk) /\ LoadedChain(disk) = mem
      BY DEF SavedReplays
    <2>1. ~Broken
      BY DEF Broken
    <2>2. AtRest(disk, mem) /\ FilesOK(disk) /\ ChainOK(mem)
      BY <2>1 DEF Inv, StoryInv, SafeInv
    <2> QED
      BY <2>2, AtRestLoads
  <1> QED
    BY <1>1, StoryHolds, PTL

\* Until a promise is broken (Broken), a start comes up with the chain last
\* saved or one that was tried since, whichever operation of a save, resync or migration was
\* interrupted: the metadata file is the record that commits it.
THEOREM StartsWhereItStopped == SpecFaulty => RestartsWhereItStopped
  <1> DEFINE A == ~Broken /\ mode # "up" /\ mode' = "up" => mem'.path \in kept
  <1>1. Inv /\ [NextFaulty]_vars => [A]_vars
    <2> SUFFICES ASSUME Inv, NextFaulty, ~Broken, mode # "up", mode' = "up" PROVE mem'.path \in kept
      BY DEF NextFaulty
    <2>1. StartTrusted \/ LoaderDone
      BY DEF NextFaulty, Next, Move, PersistLoop, SetPrune, Resync, Running, SaveStep, SaveFails,
             Migrate, MigrateStep, Crash, PowerCut, Stopped, StartLoader
    <2> QED
      BY <2>1, StoryStartTrusted, StoryLoaderDone
  <1> QED
    BY <1>1, StoryHolds, PTL DEF SpecFaulty, RestartsWhereItStopped

-----------------------------------------------------------------------------
(* Starting again *)

\* No two verified chains have files of one length.
OneLengthOneChain ==
    \A fmt \in {"bin", "json"} : \A p, q \in Checked : Bytes(fmt, p) = Bytes(fmt, q) => p = q

\* The record is our own.
Own(d) == d.meta # None /\ d.meta.by = Me

\* A file given to us, with a block that we refuse.
Foreign(d) == BlocksOf(d) # None /\ Range(BlocksOf(d)) \cap Invalid # {} /\ ~Own(d)

\* A verified chain, and its own record if it is to be trusted.
Whole(d) ==
    /\ BlocksOf(d) # None /\ BlocksOf(d) \in Checked
    /\ IsOwnFileTrusted(d) => TipOf(BlocksOf(d)) = d.meta.tip

\* A file that goes on past what our record counts.
Overrun(d) ==
    /\ BlocksOf(d) # None /\ Own(d) /\ d.meta.count \in 1..(Len(BlocksOf(d)) - 1)
    /\ LET p == SubSeq(BlocksOf(d), 1, d.meta.count)
       IN  p \in Checked /\ TipOf(p) = d.meta.tip /\ d.meta.bytes = Bytes(Format(d), p)

\* What an archive node finds when it starts.
Startable(d) ==
    \/ BlocksOf(d) = None \/ Foreign(d) \/ Whole(d) \/ Overrun(d)
    \/ Uncounted(d) /\ ~IsOwnFileTrusted(d)

\* The record names p,
Names(d, p) == p \in Checked /\ Len(p) = d.meta.count /\ TipOf(p) = d.meta.tip

\* with its length,
Measured(d) == Own(d) => \E p \in Checked : Names(d, p) /\ d.meta.bytes = Bytes(Format(d), p)

\* or it is the chain of the file, whose length the record has in another format.
Named(d) == Own(d) => BlocksOf(d) # None /\ Names(d, BlocksOf(d))

\* The record is of one chain, or of a file that has been emptied.
Recorded(d) == Measured(d) \/ Named(d) \/ BlocksOf(d) \in {None, <<>>}

\* Until a promise is broken or pruning turned on, every start of an archive node succeeds
\* unless it was given a file it must refuse.
ArchiveOK ==
    /\ mem.first = 0
    /\ disk.meta # None => disk.meta.first = 0
    /\ Startable(disk) /\ Recorded(disk)
    /\ mode = "up" /\ job = <<"rewrite_all", "meta">> => mem.path = <<>> \/ Measured(disk)
    /\ mode = "migrating" => Named(disk)
    /\ mode = "loading" => (image # None /\ Loads(disk)) \/ Foreign(disk)
    /\ mode # "refused"

\* The third invariant, beside Inv.
ArchiveInv == ~Broken /\ ~prune => ArchiveOK

\* The empty sequence is a verified chain, and a file of no bytes.
LEMMA NothingIs == <<>> \in Checked /\ <<>> \in Records /\ <<>> # None /\ \A fmt : Bytes(fmt, <<>>) = 0
  <1>1. <<>> \in Seq(Blocks) /\ Len(<<>>) = 0
    OBVIOUS
  <1>2. \A i \in 1..Len(<<>>) : FALSE
    BY <1>1
  <1>3. <<>> \in Checked
    BY <1>1, <1>2, CheckedIs
  <1>4. <<>> \in Records
    BY <1>3, CheckedRecords
  <1> QED
    BY <1>3, <1>4, NoneIsEmpty, StoreAssumption DEF Records

\* A file that has been emptied may be started on.
LEMMA EmptiedStarts ==
    ASSUME NEW d, FilesOK(d), BlocksOf(d) \in {None, <<>>}
    PROVE  Startable(d) /\ Recorded(d)
  <1>1. CASE BlocksOf(d) = None
    BY <1>1 DEF Startable, Recorded
  <1>2. CASE BlocksOf(d) = <<>>
    <2>1. BlocksOf(d) # None /\ BlocksOf(d) \in Checked
      BY <1>2, NothingIs
    <2>2. ~(BlockBytes(d) > 0)
      BY <1>2, <2>1, BytesOrNone
    <2>3. ~IsOwnFileTrusted(d)
      BY <2>2 DEF IsOwnFileTrusted
    <2> QED
      BY <1>2, <2>1, <2>3 DEF Startable, Whole, Recorded
  <1> QED
    BY <1>1, <1>2

\* A verified chain is loaded, trusted or not.
LEMMA WholeLoads ==
    ASSUME NEW d, d.meta # None => d.meta.first = 0, Whole(d)
    PROVE  Loads(d)
  <1>1. Verifies(BlocksOf(d)) /\ Links(<<>>, BlocksOf(d)) /\ BlocksOf(d) # None
    BY DEF Whole, Checked, Verifies
  <1>2. IsOwnFileTrusted(d) => d.meta # None /\ TipOf(BlocksOf(d)) = d.meta.tip
    BY DEF Whole, IsOwnFileTrusted
  <1> QED
    BY <1>1, <1>2 DEF Loads

\* What goes on past the record is not trusted, and the loader thread cuts it.
LEMMA OverrunIsCut ==
    ASSUME NEW d, FilesOK(d), Overrun(d), d.meta.first = 0
    PROVE  /\ d.meta # None /\ d.meta.by = Me /\ d.meta.bytes > 0 /\ BlockBytes(d) > d.meta.bytes
           /\ CommittedPrefix(d) # {} /\ ~IsOwnFileTrusted(d)
  <1> DEFINE x == BlocksOf(d)
             n == d.meta.count
             q == SubSeq(x, 1, n)
  <1>1. /\ d.meta # None /\ d.meta.by = Me /\ x # None /\ n \in 1..(Len(x) - 1)
        /\ q \in Checked /\ TipOf(q) = d.meta.tip /\ d.meta.bytes = Bytes(Format(d), q)
    BY DEF Overrun, Own
  <1>2. x \in Records /\ Len(x) \in Nat /\ BlockBytes(d) = Bytes(Format(d), x) /\ BlockBytes(d) \in Nat
    BY <1>1, BytesOrNone DEF Records
  <1>3. n \in 0..Len(x) /\ n # 0 /\ n < Len(x)
    BY <1>1, <1>2
  <1>4. Bytes(Format(d), q) < Bytes(Format(d), x) /\ Bytes(Format(d), q) \in Nat
    BY <1>2, <1>3, MoreIsLonger
  <1>5. q \in Records /\ q # None /\ q # <<>>
    <2>1. q \in Records
      BY <1>1, CheckedRecords
    <2>2. Len(q) = n
      <3>1. 0 \in Nat /\ n \in 0..Len(x)
        BY <1>3
      <3> HIDE DEF n, x
      <3>2. Len(SubSeq(x, 0 + 1, n)) = n - 0
        BY <1>2, <3>1, Sub DEF Records
      <3> QED
        BY <3>1, <3>2
    <2> HIDE DEF q
    <2> QED
      BY <1>3, <2>1, <2>2, StoreAssumption DEF Records
  <1>6. /\ FilesOK(Holding(d, q)) /\ BlocksOf(Holding(d, q)) = q
        /\ Format(Holding(d, q)) = Format(d)
    BY <1>5, HoldingOK
  <1>7. BlockBytes(Holding(d, q)) = Bytes(Format(d), q) /\ BlockBytes(Holding(d, q)) > 0
    BY <1>5, <1>6, BytesOrNone
  <1>8. n \in CommittedPrefix(d)
    BY <1>1, <1>3, <1>7 DEF CommittedPrefix, Checked
  <1>9. d.meta.bytes > 0 /\ BlockBytes(d) > d.meta.bytes /\ d.meta.bytes # BlockBytes(d)
    BY <1>1, <1>2, <1>4, <1>7
  <1> QED
    BY <1>1, <1>8, <1>9 DEF IsOwnFileTrusted

\* A verified chain in the place of the file, with a record that has its tip if it has its length.
LEMMA WholeIf ==
    ASSUME NEW d, FilesOK(d), NEW p \in Checked, BlocksOf(d) = p,
           Own(d) /\ d.meta.bytes = Bytes(Format(d), p) => TipOf(p) = d.meta.tip
    PROVE  Whole(d) /\ Startable(d)
  <1>1. p # None
    BY CheckedRecords, StoreAssumption DEF Records
  <1>2. BlockBytes(d) = Bytes(Format(d), p)
    BY <1>1, BytesOrNone
  <1>3. IsOwnFileTrusted(d) => TipOf(p) = d.meta.tip
    BY <1>2 DEF IsOwnFileTrusted, Own
  <1> QED
    BY <1>1, <1>3 DEF Whole, Startable

\* A trusted file is a verified chain.
LEMMA TrustedStarts ==
    ASSUME NEW d, FilesOK(d), d.meta # None => d.meta.first = 0, Startable(d), IsOwnFileTrusted(d)
    PROVE  Whole(d)
  <1>1. d.meta # None /\ d.meta.by = Me /\ d.meta.bytes = BlockBytes(d) /\ BlockBytes(d) > 0
    BY DEF IsOwnFileTrusted
  <1>2. BlocksOf(d) # None
    BY <1>1 DEF BlockBytes
  <1>3. ~Foreign(d)
    BY <1>1 DEF Foreign, Own
  <1>4. ~Overrun(d)
    BY <1>1, OverrunIsCut
  <1> QED
    BY <1>2, <1>3, <1>4 DEF Startable

\* A trusted file is loaded, or there is none.
LEMMA TrustedLoads ==
    ASSUME NEW d, FilesOK(d), d.meta # None => d.meta.first = 0, Startable(d),
           BlocksOf(d) = None \/ IsOwnFileTrusted(d)
    PROVE  Loads(d)
  <1>1. CASE BlocksOf(d) = None
    BY <1>1 DEF Loads
  <1>2. CASE IsOwnFileTrusted(d)
    BY <1>2, TrustedStarts, WholeLoads
  <1> QED
    BY <1>1, <1>2

\* What the loader thread leaves of a file it does not trust is loaded, or is not our own.
LEMMA RecoveredStarts ==
    ASSUME NEW d, FilesOK(d), BlocksOf(d) # None, d.meta # None => d.meta.first = 0,
           Startable(d), Recorded(d), ~Uncounted(d)
    PROVE  /\ Recovered(d).meta = d.meta
           /\ Startable(Recovered(d)) /\ Recorded(Recovered(d))
           /\ ~IsOwnFileTrusted(d) => Loads(Recovered(d)) \/ Foreign(Recovered(d))
  <1> DEFINE x == BlocksOf(d)
             n == d.meta.count
             cut == /\ d.meta # None /\ d.meta.by = Me /\ d.meta.first = 0 /\ d.meta.bytes > 0
                    /\ BlockBytes(d) > d.meta.bytes
                    /\ CommittedPrefix(d) # {}
  <1>1. CASE cut
    <2> DEFINE q == SubSeq(x, 1, n)
               e == Holding(d, q)
    <2>1. Recovered(d) = e
      BY <1>1 DEF Recovered
    <2>2. /\ n \in 0..Len(x) /\ Verifies(q) /\ TipOf(q) = d.meta.tip
          /\ BlockBytes(e) = d.meta.bytes
      BY <1>1 DEF CommittedPrefix
    <2>3. x \in Records /\ Len(x) \in Nat
      BY BytesOrNone DEF Records
    <2>4. q \in Records /\ Len(q) = n
      <3>1. n \in 0..Len(x) /\ 0 \in Nat
        BY <2>2
      <3> HIDE DEF n, x
      <3>2. SubSeq(x, 0 + 1, n) \in Records /\ Len(SubSeq(x, 0 + 1, n)) = n - 0
        BY <2>3, <3>1, Sub DEF Records
      <3> QED
        BY <3>1, <3>2
    <2>5. q \in Checked
      BY <2>2, <2>4, FileChecked
    <2> HIDE DEF q
    <2>6. FilesOK(e) /\ BlocksOf(e) = q /\ e.meta = d.meta /\ q # None
      BY <2>4, HoldingOK, StoreAssumption DEF Records
    <2> HIDE DEF e
    <2>7. Whole(e) /\ Startable(e)
      BY <2>2, <2>5, <2>6, WholeIf
    <2>8. Loads(e)
      BY <2>6, <2>7, WholeLoads
    <2>9. Measured(e)
      <3>1. BlockBytes(e) = Bytes(Format(e), q)
        BY <2>6, BytesOrNone
      <3> QED
        BY <2>2, <2>4, <2>5, <2>6, <3>1 DEF Measured, Names
    <2> QED
      BY <2>1, <2>6, <2>7, <2>8, <2>9 DEF Recorded
  <1>2. CASE ~cut
    <2>1. Recovered(d) = d
      BY <1>2 DEF Recovered
    <2>2. ~Overrun(d)
      <3> SUFFICES ASSUME Overrun(d) PROVE FALSE
        OBVIOUS
      <3>1. d.meta # None
        BY DEF Overrun, Own
      <3> QED
        BY <1>2, <3>1, OverrunIsCut
    <2>3. Loads(d) \/ Foreign(d)
      BY <2>2, WholeLoads DEF Startable
    <2> QED
      BY <2>1, <2>3
  <1> QED
    BY <1>1, <1>2

\* A file at rest may be started on, and its record has its length.
LEMMA AtRestStarts ==
    ASSUME NEW d, FilesOK(d), NEW ch, ChainOK(ch), ch.first = 0, AtRest(d, ch)
    PROVE  Startable(d) /\ Measured(d)
  <1>1. BlocksOf(d) = ch.path /\ ch.path \in Checked
    BY BodyIs DEF AtRest, ChainOK
  <1>2. ch.path # None
    BY <1>1, CheckedRecords, StoreAssumption DEF Records
  <1>3. d.meta.bytes = Bytes(Format(d), ch.path)
    BY <1>1, <1>2, BytesOrNone DEF AtRest
  <1>4. Startable(d)
    BY <1>1, WholeIf DEF AtRest
  <1> QED
    BY <1>1, <1>3, <1>4 DEF AtRest, Measured, Names

\* A verified chain takes the place of the file, whose record names another for a moment:
\* it has another length.
LEMMA RewriteStarts ==
    ASSUME OneLengthOneChain, NEW d, FilesOK(d), NEW p \in Checked, p = <<>> \/ Measured(d)
    PROVE  Startable(Holding(d, p)) /\ Recorded(Holding(d, p))
  <1> DEFINE e == Holding(d, p)
  <1>1. p \in Records
    BY CheckedRecords
  <1>2. /\ FilesOK(e) /\ BlocksOf(e) = p /\ Format(e) = Format(d) /\ e.meta = d.meta
        /\ Format(d) \in {"bin", "json"}
    BY <1>1, HoldingOK
  <1> HIDE DEF e
  <1>3. CASE p = <<>>
    BY <1>2, <1>3, EmptiedStarts DEF e
  <1>4. CASE Measured(d)
    <2>1. Measured(e)
      BY <1>2, <1>4 DEF Measured, Own, Names
    <2>2. Own(e) /\ e.meta.bytes = Bytes(Format(e), p) => TipOf(p) = e.meta.tip
      BY <1>2, <2>1 DEF Measured, Names, OneLengthOneChain
    <2>3. Startable(e)
      BY <1>2, <2>2, WholeIf
    <2> QED
      BY <2>1, <2>3 DEF Recorded, e
  <1> QED
    BY <1>3, <1>4

\* The chain that was read from the files is rewritten only if their record has a length.
LEMMA SaveOfLoaded ==
    ASSUME NEW d, FilesOK(d), Recorded(d), d.meta # None => d.meta.first = 0,
           NEW ch, ChainOK(ch), ch.first = 0,
           IF BlocksOf(d) = None THEN ch.path = <<>> ELSE ch.path = BlocksOf(d),
           SaveSteps(ch, d) = <<"rewrite_all", "meta">>
    PROVE  ch.path = <<>> \/ Measured(d)
  <1>1. CASE BlocksOf(d) \in {None, <<>>}
    BY <1>1
  <1>2. CASE Measured(d)
    BY <1>2
  <1>3. CASE BlocksOf(d) \notin {None, <<>>} /\ Named(d) /\ Own(d)
    <2>1. /\ BlocksOf(d) = ch.path /\ ch.path \in Checked /\ StoredCount(d) = Len(ch.path)
          /\ ch.path # <<>> /\ TipOf(ch.path) = d.meta.tip
      BY <1>3 DEF Named, Names, Own, StoredCount
    <2>2. Len(ch.path) \in Nat \ {0} /\ TipOf(ch.path) = ch.path[Len(ch.path)]
          /\ Len(ch.path) \in DOMAIN ch.path
      <3>1. ch.path \in Seq(Blocks)
        BY <2>1, CheckedIs
      <3>2. Len(ch.path) \in Nat \ {0} /\ TipOf(ch.path) = ch.path[Len(ch.path)]
        BY <2>1, <3>1, TipIs
      <3> QED
        BY <3>1, <3>2
    <2>3. AncestorMatches(ch, d)
      BY <2>1, <2>2 DEF AncestorMatches
    <2>4. ~(StoredCount(d) > Len(ch.path)) /\ ~(StoredCount(d) < Len(ch.path))
      BY <2>1, <2>2
    <2>5. SaveSteps(ch, d) = <<"meta">>
      BY <1>3, <2>3, <2>4 DEF SaveSteps
    <2>6. <<"meta">> # <<"rewrite_all", "meta">>
      OBVIOUS
    <2> QED
      BY <2>5, <2>6
  <1>4. ~Own(d) => Measured(d)
    BY DEF Measured
  <1> QED
    BY <1>1, <1>2, <1>3, <1>4 DEF Recorded

\* The same blocks in another format, or with their length in the record.
LEMMA NamedStarts ==
    ASSUME NEW d, FilesOK(d), Named(d), Startable(d), NEW e, FilesOK(e),
           BlocksOf(d) # None, BlocksOf(e) = BlocksOf(d), e.meta = None <=> d.meta = None,
           d.meta # None => /\ e.meta.count = d.meta.count /\ e.meta.tip = d.meta.tip
                            /\ e.meta.by = d.meta.by
    PROVE  Named(e) /\ Startable(e) /\ Recorded(e)
  <1> DEFINE x == BlocksOf(d)
  <1>1. Own(e) <=> Own(d)
    BY DEF Own
  <1>2. Named(e)
    BY <1>1 DEF Named, Names, Own
  <1>3. Own(e) => TipOf(x) = e.meta.tip /\ x \in Checked /\ e.meta.count = Len(x)
    BY <1>1, <1>2 DEF Named, Names
  <1>4. Foreign(d) => Startable(e)
    BY <1>1 DEF Foreign, Startable
  <1>5. ASSUME x \in Checked PROVE Startable(e)
    BY <1>3, <1>5, WholeIf
  <1>6. ASSUME Overrun(d) PROVE FALSE
    <2>1. Own(d) /\ d.meta.count = Len(x) /\ Len(x) \in Nat
      BY <1>1, <1>3, <1>6, CheckedIs DEF Overrun, Own
    <2> HIDE DEF x
    <2> QED
      BY <1>6, <2>1 DEF Overrun, x
  <1>7. ASSUME Uncounted(d), x \notin Checked PROVE Startable(e)
    <2>1. ~Own(e)
      BY <1>3, <1>7
    <2>2. ~IsOwnFileTrusted(e)
      BY <2>1 DEF IsOwnFileTrusted, Own
    <2>3. StoredCount(e) = 0
      BY <1>7 DEF Uncounted, StoredCount
    <2>4. BlockBytes(e) > 0
      <3>1. x # <<>>
        BY <1>7, NothingIs
      <3> QED
        BY <3>1, BytesOrNone
    <2> QED
      BY <2>2, <2>3, <2>4 DEF Startable, Uncounted
  <1>8. Whole(d) => x \in Checked
    BY DEF Whole
  <1>9. Startable(e)
    BY <1>4, <1>5, <1>6, <1>7, <1>8 DEF Startable
  <1> QED
    BY <1>2, <1>9 DEF Recorded

\* The first k blocks of a chain, without those below its first body, and what is left of another.
UpTo(ch, k, torn) == SubSeq(ch.path, ch.first + 1, k) \o torn

\* Verified blocks, and perhaps a torn record, are appended to a file whose record counts it:
\* the record no longer has its length, and its tail can be cut.
LEMMA AppendStarts ==
    ASSUME NEW ch, ChainOK(ch), ch.first = 0, NEW d, FilesOK(d), BlocksOf(d) # None,
           Continues(ch, d), NEW n \in 0..(Len(ch.path) - d.meta.count),
           NEW torn \in {<<>>, <<Junk>>}
    PROVE  /\ Startable(Holding(d, UpTo(ch, d.meta.count + n, torn)))
           /\ Recorded(Holding(d, UpTo(ch, d.meta.count + n, torn)))
  <1> DEFINE y == UpTo(ch, d.meta.count + n, torn)
             path == ch.path
             m == d.meta.count
             b == SubSeq(path, 1, m)
             p == SubSeq(path, 1, m + n)
             e == Holding(d, y)
             fmt == Format(d)
             S == Blocks \cup {Junk}
  <1>1. /\ path \in Checked /\ Len(path) \in Nat /\ m \in Nat /\ n \in Nat
        /\ m \in 0..Len(path) /\ m + n \in 0..Len(path) /\ m \in 0..(m + n)
        /\ d.meta # None /\ d.meta.by = Me /\ d.meta.tip = TipOf(b) /\ BlocksOf(d) = b
        /\ d.meta.bytes = Bytes(fmt, b)
    <2>1. /\ path \in Checked /\ Len(path) \in Nat /\ m \in Nat /\ m \in 0..Len(path)
      BY Appended DEF ChainOK
    <2>2. n \in Nat /\ m + n \in 0..Len(path) /\ m \in 0..(m + n)
      BY <2>1
    <2>3. d.meta # None /\ d.meta.by = Me /\ d.meta.tip = TipOf(b) /\ BlocksOf(d) = b
      BY DEF Continues
    <2>4. d.meta.bytes = Bytes(fmt, b)
      BY <2>3, BytesOrNone DEF Continues
    <2> QED
      BY <2>1, <2>2, <2>3, <2>4
  <1> HIDE DEF path, m
  <1>2. /\ b \in Checked /\ Len(b) = m /\ b \in Records
        /\ p \in Checked /\ Len(p) = m + n /\ p \in Records
    BY <1>1, PrefixChecked, CheckedRecords
  <1>3. SubSeq(p, 1, m) = b
    <2>1. path \in Seq(Blocks) /\ m + n \in 0..Len(path) /\ 0 \in Nat /\ m \in 0..(m + n)
      BY <1>1, CheckedIs
    <2>2. SubSeq(SubSeq(path, 1, m + n), 0 + 1, m) = SubSeq(path, 0 + 1, m)
      BY <2>1, Nested
    <2>3. 0 + 1 = 1
      OBVIOUS
    <2> QED
      BY <2>2, <2>3
  <1>4. y = p \o torn
    <2>1. ch.first + 1 = 1
      OBVIOUS
    <2> QED
      BY <2>1 DEF UpTo, path, m
  <1> HIDE DEF p, b, y
  <1>5. y \in Records /\ y # None
    BY <1>2, <1>4, Torn, Joined
  <1>6. FilesOK(e) /\ BlocksOf(e) = y /\ Format(e) = fmt /\ e.meta = d.meta
    BY <1>5, HoldingOK
  <1> HIDE DEF e
  <1>7. Measured(e)
    BY <1>1, <1>2, <1>6 DEF Measured, Names, m
  <1>8. CASE torn = <<>>
    <2>1. y = p
      BY <1>2, <1>4, <1>8, ConcatEmptySeq DEF Records
    <2>2. ASSUME e.meta.bytes = Bytes(fmt, p) PROVE TipOf(p) = e.meta.tip
      <3>1. ~(m < Len(p))
        <4>1. m \in 0..Len(p)
          BY <1>1, <1>2
        <4>2. Bytes(fmt, p) \in Nat /\ (m < Len(p) => Bytes(fmt, SubSeq(p, 1, m)) < Bytes(fmt, p))
          BY <1>2, <4>1, MoreIsLonger
        <4>3. Bytes(fmt, SubSeq(p, 1, m)) = Bytes(fmt, p)
          BY <1>1, <1>3, <1>6, <2>2
        <4> QED
          BY <4>2, <4>3
      <3>2. m = m + n
        BY <1>1, <1>2, <3>1
      <3>3. p = b
        BY <3>2 DEF p, b
      <3> QED
        BY <1>1, <1>6, <3>3
    <2>3. Startable(e)
      BY <1>2, <1>6, <2>1, <2>2, WholeIf
    <2> QED
      BY <1>7, <2>3 DEF Recorded, e, y, m
  <1>9. CASE torn = <<Junk>>
    <2>1. /\ y = p \o <<Junk>> /\ p \in Seq(S) /\ <<Junk>> \in Seq(S) /\ Len(p) \in Nat
      BY <1>2, <1>4, <1>9 DEF Records
    <2>2. Len(y) = Len(p) + 1 /\ y \in Seq(S)
      <3>1. y = Append(p, Junk) /\ Junk \in S
        BY <2>1, AppendIsConcat
      <3> QED
        BY <2>1, <3>1, AppendProperties
    <2>3. SubSeq(y, 1, m) = b
      <3>1. SubSeq(y, 1, Len(p)) = p
        BY <2>1, Halves
      <3>2. Len(p) \in 0..Len(y) /\ 0 \in Nat /\ m \in 0..Len(p)
        BY <1>1, <1>2, <2>1, <2>2
      <3>3. SubSeq(SubSeq(y, 1, Len(p)), 0 + 1, m) = SubSeq(y, 0 + 1, m)
        BY <2>2, <3>2, Nested
      <3>4. 0 + 1 = 1
        OBVIOUS
      <3> QED
        BY <1>3, <3>1, <3>3, <3>4
    <2>4. m \in 0..(Len(y) - 1)
      BY <1>1, <1>2, <2>2
    <2>5. CASE m # 0
      <3>1. m \in 1..(Len(y) - 1)
        BY <2>4, <2>5
      <3>2. Own(e) /\ e.meta.count = m
        BY <1>1, <1>6 DEF Own, m
      <3>3. Overrun(e)
        BY <1>1, <1>2, <1>5, <1>6, <2>3, <3>1, <3>2 DEF Overrun
      <3> QED
        BY <1>7, <3>3 DEF Startable, Recorded, e, y, m
    <2>6. CASE m = 0
      <3>1. b = <<>>
        BY <1>2, <2>6, EmptySeq DEF Records
      <3>2. e.meta.bytes = 0
        BY <1>1, <1>6, <3>1, NothingIs
      <3>3. ~IsOwnFileTrusted(e)
        BY <3>2 DEF IsOwnFileTrusted
      <3>4. StoredCount(e) = 0
        BY <1>6, <2>6 DEF StoredCount, m
      <3>5. y # <<>>
        BY <2>1, <2>2
      <3>6. BlockBytes(e) > 0
        BY <1>5, <1>6, <3>5, BytesOrNone
      <3> QED
        BY <1>7, <3>3, <3>4, <3>6 DEF Startable, Recorded, Uncounted, e, y, m
    <2> QED
      BY <2>5, <2>6
  <1> QED
    BY <1>8, <1>9

\* What is left of an append that is cut short, wherever that is.
LEMMA PartialStarts ==
    ASSUME NEW ch, ChainOK(ch), ch.first = 0, NEW d, FilesOK(d), BlocksOf(d) # None,
           Continues(ch, d), NEW step \in {"append", "append_bodies"}, NEW e \in Partial(step, ch, d),
           Startable(d), Recorded(d)
    PROVE  Startable(e) /\ Recorded(e) /\ e.meta = d.meta
  <1>1. CASE e = d
    BY <1>1
  <1>2. CASE e # d
    <2>1. PICK n \in 0..Len(Missing(ch, d)), torn \in {<<>>, <<Junk>>} :
             e = Holding(d, BlocksOf(d) \o SubSeq(Missing(ch, d), 1, n) \o torn)
      BY <1>2 DEF Partial
    <2> DEFINE y == BlocksOf(d) \o SubSeq(Missing(ch, d), 1, n) \o torn
    <2>2. /\ BlocksOf(d) \o SubSeq(Missing(ch, d), 1, n)
             = SubSeq(ch.path, ch.first + 1, d.meta.count + n)
          /\ n \in 0..(Len(ch.path) - d.meta.count)
      BY Appended
    <2>3. y = UpTo(ch, d.meta.count + n, torn)
      BY <2>2 DEF UpTo
    <2>4. y \in Records
      <3>1. 1 \in Nat \ {0}
        OBVIOUS
      <3>2. BlocksOf(d) \in Records /\ SubSeq(Missing(ch, d), 1, n) \in Records
        BY <3>1, BytesOrNone, MissingIs, Part
      <3>3. BlocksOf(d) \o SubSeq(Missing(ch, d), 1, n) \in Records
        BY <3>2, Joined
      <3> QED
        BY <3>3, Torn, Joined
    <2> HIDE DEF y
    <2>5. Startable(Holding(d, y)) /\ Recorded(Holding(d, y))
      BY <2>2, <2>3, AppendStarts
    <2>6. Holding(d, y).meta = d.meta
      BY <2>4, HoldingOK
    <2> QED
      BY <2>1, <2>5, <2>6 DEF y
  <1> QED
    BY <1>1, <1>2

\* A step of an archive node that breaks no promise.
Archiving == Inv /\ Inv' /\ ~Broken /\ ~Broken' /\ ~prune /\ ArchiveOK

\* Without pruning the chain that is saved is the chain that was given.
LEMMA Unpruning == ASSUME NEW ch, NEW on, ~on PROVE PrunedTo(ch, on) = ch
  BY DEF PrunedTo

\* The rewrite of an archive is no operation of a resync or of a migration.
LEMMA RewriteIs ==
    ASSUME NEW j \in ToReset \cup ToMigrate \cup {<<>>, <<"meta">>}
    PROVE  j # <<"rewrite_all", "meta">>
  <1>1. <<"rewrite_all", "meta">> \notin ToReset
    <2>1. Head(<<"rewrite_all", "meta">>) = "rewrite_all"
      OBVIOUS
    <2> QED
      BY <2>1, ResetHead
  <1>2. <<"rewrite_all", "meta">> \notin ToMigrate
    BY DEF ToMigrate
  <1>3. <<"rewrite_all", "meta">> \notin {<<>>, <<"meta">>}
    OBVIOUS
  <1> QED
    BY <1>1, <1>2, <1>3

\* A datadir is not None.
LEMMA SomeDir == ASSUME NEW d, FilesOK(d) PROVE d # None
  <1>1. d.bin \in Files /\ d.json \in Files /\ d.horizon \in Files
    BY DEF FilesOK, Files, Records
  <1>2. d.meta \in Metas \cup {None}
    BY DEF FilesOK, MetaOK
  <1>3. d.headers \in Files
    BY HeadersAre DEF FilesOK, Files, Records
  <1>4. d \in Dirs
    BY <1>1, <1>2, <1>3 DEF FilesOK, Dirs
  <1> QED
    BY <1>4, StoreAssumption

\* What is on disk before the first start.
LEMMA ArchiveInit == Init => ArchiveOK
  <1> SUFFICES ASSUME Init PROVE ArchiveOK
    OBVIOUS
  <1> DEFINE x == BlocksOf(disk)
  <1>1. disk \in InitialDirs /\ mode = "down" /\ mem.first = 0 /\ FilesOK(disk)
    BY GivenDirOK, NoChainOK DEF Init
  <1>2. CASE disk = Empty
    <2>1. x = None /\ disk.meta = None
      BY <1>2 DEF Empty, BlocksOf, Format
    <2>2. Startable(disk) /\ Recorded(disk)
      BY <1>1, <2>1, EmptiedStarts
    <2> QED
      BY <1>1, <2>1, <2>2 DEF ArchiveOK
  <1>3. CASE disk # Empty
    <2>1. /\ x # None /\ x \in Records /\ disk.meta.first = 0 /\ disk.meta.count = Len(x)
          /\ disk.meta.tip = TipOf(x) /\ (disk.meta.by = Me => x \in Checked)
      BY <1>1, <1>3, GivenDirOK
    <2>2. Recorded(disk)
      BY <2>1 DEF Recorded, Named, Names, Own
    <2>3. Startable(disk)
      <3>1. CASE x \in Checked
        BY <1>1, <2>1, <3>1, WholeIf
      <3>2. CASE x \notin Checked
        <4>1. ~Own(disk)
          BY <2>1, <3>2 DEF Own
        <4>2. Links(<<>>, x)
          BY <1>1, <1>3, DirAssumption
        <4>3. Range(x) \cap Invalid # {}
          BY <2>1, <3>2, <4>2, FileChecked DEF Verifies
        <4> QED
          BY <2>1, <4>1, <4>3 DEF Foreign, Startable
      <3> QED
        BY <3>1, <3>2
    <2> QED
      BY <1>1, <2>1, <2>2, <2>3 DEF ArchiveOK
  <1> QED
    BY <1>2, <1>3

\* A save begins: it rewrites the file only if the record has the length of a chain.
LEMMA ArchiveBegin ==
    ASSUME Archiving, UNCHANGED disk, mode' = "up", NEW ch, ch.first = 0, BeginSave(ch, prune, disk),
           job' = <<"rewrite_all", "meta">> => ch.path = <<>> \/ Measured(disk)
    PROVE  ArchiveOK'
  <1>1. mem' = ch
    BY Unpruning DEF BeginSave, Archiving
  <1> QED
    BY <1>1 DEF Archiving, ArchiveOK

\* The chain of a running node moves.
LEMMA ArchiveMove == ASSUME Archiving, NEW p \in Paths, Move(p) PROVE ArchiveOK'
  <1> DEFINE ch == [mem EXCEPT !.path = p]
  <1>1. ch = [path |-> p, first |-> mem.first] /\ ChainOK(mem) /\ mem.first = 0
    BY DEF Archiving, Inv, SafeInv, ChainOK, ArchiveOK
  <1>2. ch.first = 0
    BY <1>1
  <1> HIDE DEF ch
  <1>3. BeginSave(ch, prune, disk) /\ mode' = "up" /\ Running /\ UNCHANGED disk
    BY DEF Move, ch, Running
  <1>4. Measured(disk)
    BY <1>1, <1>3, AtRestStarts DEF Archiving, Inv, SafeInv, StoryInv
  <1> QED
    BY <1>2, <1>3, <1>4, ArchiveBegin

\* The save every thirty seconds begins.
LEMMA ArchivePersist == ASSUME Archiving, PersistLoop PROVE ArchiveOK'
  <1>1. mem.first = 0 /\ ChainOK(mem)
    BY DEF Archiving, ArchiveOK, Inv, SafeInv
  <1>2. BeginSave(mem, prune, disk) /\ mode' = "up" /\ Running /\ UNCHANGED disk
    BY DEF PersistLoop, Running
  <1>3. Measured(disk)
    BY <1>1, <1>2, AtRestStarts DEF Archiving, Inv, SafeInv, StoryInv
  <1> QED
    BY <1>1, <1>2, <1>3, ArchiveBegin

\* A resync begins.
LEMMA ArchiveResync == ASSUME Archiving, Resync PROVE ArchiveOK'
  <1>1. mode' = "up" /\ UNCHANGED <<disk, mem>>
    BY DEF Resync, Running
  <1>2. job' \in ToReset
    <2>1. FilesOK(disk)
      BY DEF Archiving, Inv, SafeInv
    <2> QED
      BY <2>1, ResetSteps DEF Resync
  <1> QED
    BY <1>1, <1>2, RewriteIs DEF Archiving, ArchiveOK

\* Only a save of a running node appends.
LEMMA AppendingIs ==
    ASSUME Inv, ~Broken, mode \in {"loading", "up", "migrating"}, job # <<>>,
           Head(job) \in {"append", "append_bodies"}
    PROVE  mode = "up" /\ job \in ToSave(mem)
  <1>1. mode \in {"up", "migrating"}
    BY DEF Inv, StoryInv
  <1>2. CASE mode = "migrating"
    <2>1. job \in ToMigrate
      BY <1>2 DEF Inv, SafeInv, JobOK
    <2> QED
      BY <2>1, MigrateHead
  <1>3. CASE mode = "up"
    <2>1. job \in ToSave(mem) \cup ToReset
      BY <1>3 DEF Inv, SafeInv, JobOK
    <2> QED
      BY <1>3, <2>1, ResetHead
  <1> QED
    BY <1>1, <1>2, <1>3

\* What an archive node loads is the file.
LEMMA LoadedIsBlocks ==
    ASSUME NEW d, FilesOK(d), d.meta # None => d.meta.first = 0, Loads(d)
    PROVE  /\ LoadedChain(d).first = 0 /\ ChainOK(LoadedChain(d))
           /\ IF BlocksOf(d) = None THEN LoadedChain(d).path = <<>>
              ELSE LoadedChain(d).path = BlocksOf(d)
  <1>1. ChainOK(LoadedChain(d))
    BY LoadedIsChecked
  <1>2. CASE BlocksOf(d) = None
    BY <1>1, <1>2 DEF LoadedChain
  <1>3. CASE BlocksOf(d) # None
    <2>1. LoadBase(d) = <<>> /\ Len(<<>>) = 0
      BY DEF LoadBase
    <2>2. BlocksOf(d) \in Seq(Blocks \cup {Junk})
      BY <1>3, BytesOrNone DEF Records
    <2> QED
      BY <1>1, <1>3, <2>1, <2>2, ConcatEmptySeq DEF LoadedChain
  <1> QED
    BY <1>2, <1>3

\* A running archive node writes its chain: all of it, what was missing, or the record of it.
LEMMA ArchiveSave ==
    ASSUME OneLengthOneChain, Archiving, SaveStep, mode = "up", job \in ToSave(mem)
    PROVE  ArchiveOK'
  <1>1. /\ mode' = "up" /\ disk' = Written(Head(job), mem, disk) /\ job' = Tail(job)
        /\ FilesOK(disk) /\ ChainOK(mem) /\ mem.first = 0
        /\ disk.meta # None => disk.meta.first = 0
        /\ Startable(disk) /\ Recorded(disk)
        /\ job = <<"rewrite_all", "meta">> => mem.path = <<>> \/ Measured(disk)
        /\ SaveOK(job, mem, disk)
        /\ job \in Appending => BlocksOf(disk) # None
    BY DEF SaveStep, Archiving, Inv, SafeInv, StoryInv, JobOK, ArchiveOK
  <1>2. Head(job) \in {"rewrite_all", "append", "meta"}
    BY <1>1, SaveHead, SaveTail
  <1>3. mem' = mem
    <2>1. Head(job) # "new_chain"
      BY <1>2
    <2> QED
      BY <2>1 DEF SaveStep
  <1>4. mem.path \in Checked /\ mem.path \in Records /\ Body(mem) = mem.path
        /\ SubSeq(mem.path, mem.first + 1, Len(mem.path)) = mem.path
    BY <1>1, BodyIs, CheckedRecords DEF ChainOK, Body
  <1>5. CASE Head(job) = "rewrite_all"
    <2>1. job = <<"rewrite_all", "meta">> /\ job' = <<"meta">>
      BY <1>1, <1>5, SaveTail
    <2>2. disk' = Holding(disk, mem.path)
      BY <1>1, <1>4, <1>5 DEF Written
    <2>3. Startable(disk') /\ Recorded(disk')
      BY <1>1, <1>4, <2>1, <2>2, RewriteStarts
    <2>4. disk'.meta = disk.meta
      BY <1>1, <1>4, <2>2, HoldingOK
    <2> QED
      BY <1>1, <1>3, <2>1, <2>3, <2>4, RewriteIs DEF ArchiveOK
  <1>6. CASE Head(job) = "append"
    <2> DEFINE n == Len(mem.path) - disk.meta.count
    <2>1. job' = <<"meta">> /\ Continues(mem, disk) /\ BlocksOf(disk) # None
      BY <1>1, <1>6, SaveTail DEF SaveOK
    <2>2. disk' = Holding(disk, mem.path)
      BY <1>1, <1>4, <1>6, <2>1, Appended DEF Written
    <2>3. n \in 0..(Len(mem.path) - disk.meta.count) /\ disk.meta.count + n = Len(mem.path)
      <3>1. /\ disk.meta.count \in Nat /\ Len(mem.path) \in Nat
            /\ disk.meta.count \in mem.first..Len(mem.path)
        BY <1>1, <2>1, Appended
      <3> QED
        BY <1>1, <3>1
    <2>4. UpTo(mem, disk.meta.count + n, <<>>) = mem.path
      BY <1>4, <2>3, ConcatEmptySeq DEF UpTo, Records
    <2> HIDE DEF n
    <2>5. Startable(disk') /\ Recorded(disk')
      BY <1>1, <2>1, <2>2, <2>3, <2>4, AppendStarts
    <2>6. disk'.meta = disk.meta
      BY <1>1, <1>4, <2>2, HoldingOK
    <2> QED
      BY <1>1, <1>3, <2>1, <2>5, <2>6, RewriteIs DEF ArchiveOK
  <1>7. CASE Head(job) = "meta"
    <2>1. job' = <<>>
      BY <1>1, <1>7, SaveTail
    <2>2. AtRest(disk, mem)' /\ FilesOK(disk')
      BY <1>1, <2>1 DEF Archiving, Inv, StoryInv, SafeInv, Running
    <2>3. AtRest(disk', mem)
      BY <1>3, <2>2
    <2>4. Startable(disk') /\ Measured(disk') /\ (disk'.meta # None => disk'.meta.first = 0)
      BY <1>1, <2>2, <2>3, AtRestStarts DEF AtRest
    <2> QED
      BY <1>1, <1>3, <2>1, <2>4, RewriteIs DEF ArchiveOK, Recorded
  <1> QED
    BY <1>2, <1>5, <1>6, <1>7

\* A resync moves the files away and starts an empty one.
LEMMA ArchiveReset ==
    ASSUME Archiving, SaveStep, mode = "up", job \in ToReset
    PROVE  ArchiveOK'
  <1>1. /\ mode' = "up" /\ disk' = Written(Head(job), mem, disk) /\ job' = Tail(job)
        /\ FilesOK(disk) /\ FilesOK(disk') /\ mem.first = 0
        /\ disk.meta # None => disk.meta.first = 0
        /\ Startable(disk) /\ Recorded(disk)
    BY SafeSaveStep DEF SaveStep, Archiving, Inv, SafeInv, ArchiveOK
  <1>2. CASE Head(job) = "new_chain"
    <2>1. mem' = NoChain /\ disk' = disk
      BY <1>1, <1>2 DEF SaveStep, Written
    <2> QED
      BY <1>1, <2>1, NoChainOK DEF ArchiveOK, ChainOK
  <1>3. CASE Head(job) # "new_chain"
    <2>1. job' \in ToReset /\ mem' = mem
      BY <1>1, <1>3, ResetHead DEF SaveStep
    <2>2. ResetOK(job', disk')
      BY <1>1, <2>1 DEF Archiving, Inv, StoryInv
    <2>3. BlocksOf(disk') \in {None, <<>>}
      <3>1. CASE Head(job) = "set_aside"
        <4>1. disk'.bin = None /\ disk'.json = None
          BY <1>1, <2>2, <3>1, ResetTail DEF ResetOK
        <4> QED
          BY <4>1 DEF BlocksOf, Format
      <3>2. CASE Head(job) # "set_aside"
        <4>1. Head(job') \in {"drop_meta", "new_chain"}
          BY <1>1, <1>3, <3>2, ResetHead, ResetTail
        <4> QED
          BY <2>2, <4>1 DEF ResetOK
      <3> QED
        BY <3>1, <3>2
    <2>4. Startable(disk') /\ Recorded(disk')
      BY <1>1, <2>3, EmptiedStarts
    <2>5. disk'.meta \in {None, disk.meta}
      <3>1. disk = [bin |-> disk.bin, json |-> disk.json, meta |-> disk.meta,
                    headers |-> disk.headers, horizon |-> disk.horizon]
        BY <1>1 DEF FilesOK
      <3>2. Head(job) \in {"set_aside", "start_bin", "start_json", "drop_meta"}
        BY <1>3, ResetHead
      <3> QED
        BY <1>1, <3>1, <3>2 DEF Written, Holding
    <2> QED
      BY <1>1, <2>1, <2>4, <2>5, RewriteIs DEF ArchiveOK
  <1> QED
    BY <1>2, <1>3

\* An operation of a save or of a resync is done.
LEMMA ArchiveSaveStep == ASSUME OneLengthOneChain, Archiving, SaveStep PROVE ArchiveOK'
  <1>1. mode = "up" /\ job # <<>>
    BY DEF SaveStep, Archiving, Inv, StoryInv
  <1>2. job \in ToSave(mem) \cup ToReset
    BY <1>1 DEF Archiving, Inv, SafeInv, JobOK
  <1> QED
    BY <1>1, <1>2, ArchiveSave, ArchiveReset

\* A migration begins on a file whose record is of its chain.
LEMMA ArchiveMigrate == ASSUME Archiving, Migrate PROVE ArchiveOK'
  <1>1. /\ mode' = "migrating" /\ UNCHANGED <<disk, mem>> /\ ~Outdated(disk)
        /\ Format(disk) = "json" /\ disk.json # <<>>
    BY DEF Migrate, Archiving, Broken
  <1>2. /\ mem.first = 0 /\ FilesOK(disk) /\ (disk.meta # None => disk.meta.first = 0)
        /\ Startable(disk) /\ Recorded(disk)
    BY DEF Archiving, Inv, SafeInv, ArchiveOK
  <1>3. BlocksOf(disk) \notin {None, <<>>}
    BY <1>1 DEF BlocksOf, Format
  <1>4. Named(disk)
    <2> SUFFICES ASSUME Own(disk) PROVE Named(disk)
      BY DEF Named
    <2>1. disk.meta # None /\ disk.meta.by = Me /\ disk.meta.bytes = BlockBytes(disk)
      BY <1>1 DEF Own, Outdated
    <2>2. BlockBytes(disk) > 0
      BY <1>2, <1>3, BytesOrNone
    <2>3. IsOwnFileTrusted(disk)
      BY <1>2, <2>1, <2>2 DEF IsOwnFileTrusted
    <2>4. BlocksOf(disk) \in Checked /\ TipOf(BlocksOf(disk)) = disk.meta.tip
      BY <1>2, <2>3, TrustedStarts DEF Whole
    <2>5. PICK p \in Checked : Len(p) = disk.meta.count /\ TipOf(p) = disk.meta.tip
      BY <1>2, <2>1 DEF FilesOK, MetaOK
    <2>6. p = BlocksOf(disk)
      BY <2>4, <2>5, SamePath
    <2> QED
      BY <1>3, <2>4, <2>5, <2>6 DEF Named, Names
  <1> QED
    BY <1>1, <1>2, <1>4 DEF ArchiveOK

\* The chain in another format has the record of the same chain.
LEMMA ArchiveMigrateStep == ASSUME Archiving, MigrateStep PROVE ArchiveOK'
  <1>1. mode = "migrating" /\ mode' \in {"down", "migrating"} /\ mem' = mem
    BY DEF MigrateStep
  <1>2. /\ mem.first = 0 /\ FilesOK(disk) /\ (disk.meta # None => disk.meta.first = 0)
        /\ Startable(disk) /\ Named(disk) /\ FilesOK(disk')
    BY <1>1 DEF Archiving, Inv, SafeInv, ArchiveOK
  <1>3. /\ BlocksOf(disk) # None /\ BlocksOf(disk') = BlocksOf(disk)
        /\ disk'.meta = None <=> disk.meta = None
        /\ disk.meta # None => /\ disk'.meta.count = disk.meta.count /\ disk'.meta.tip = disk.meta.tip
                               /\ disk'.meta.by = disk.meta.by /\ disk'.meta.first = disk.meta.first
    BY MigrateKeeps DEF Archiving
  <1>4. Named(disk') /\ Startable(disk') /\ Recorded(disk')
    BY <1>2, <1>3, NamedStarts
  <1> QED
    BY <1>1, <1>2, <1>3, <1>4 DEF ArchiveOK

\* A process is killed.
LEMMA ArchiveCrash == ASSUME Archiving, Crash PROVE ArchiveOK'
  <1>1. /\ mode' = "down" /\ mem'.first = 0
        /\ disk' \in IF job = <<>> THEN {disk} ELSE Partial(Head(job), mem, disk)
    BY NoChainOK DEF Crash, Stopped
  <1>2. /\ FilesOK(disk) /\ ChainOK(mem) /\ mem.first = 0
        /\ disk.meta # None => disk.meta.first = 0
        /\ Startable(disk) /\ Recorded(disk)
    BY DEF Archiving, Inv, SafeInv, ArchiveOK
  <1>3. Startable(disk') /\ Recorded(disk') /\ disk'.meta = disk.meta
    <2>1. CASE disk' = disk
      BY <1>2, <2>1
    <2>2. CASE disk' # disk
      <3>1. job # <<>> /\ disk' \in Partial(Head(job), mem, disk)
        BY <1>1, <2>2
      <3>2. Head(job) \in {"append", "append_bodies"}
        BY <2>2, <3>1 DEF Partial
      <3>3. mode = "up" /\ job \in ToSave(mem)
        BY <3>1, <3>2, AppendingIs DEF Archiving, Crash
      <3>4. Continues(mem, disk) /\ BlocksOf(disk) # None
        BY <3>2, <3>3, SaveTail DEF Archiving, Inv, SafeInv, StoryInv, SaveOK, JobOK
      <3> QED
        BY <1>2, <3>1, <3>2, <3>4, PartialStarts
    <2> QED
      BY <2>1, <2>2
  <1> QED
    BY <1>1, <1>2, <1>3 DEF ArchiveOK

\* A trusted file is loaded: such a start is not refused.
LEMMA ArchiveStartTrusted == ASSUME Archiving, StartTrusted PROVE ArchiveOK'
  <1> DEFINE ch == LoadedChain(disk)
             on == prune \/ ch.first > 0
  <1>1. /\ mode \in {"down", "refused"} /\ UNCHANGED disk
        /\ BlocksOf(disk) = None \/ IsOwnFileTrusted(disk)
        /\ \/ /\ Loads(disk) /\ mode' = "up"
              /\ \/ BeginSave(ch, on, disk)
                 \/ BlocksOf(disk) # None /\ mem' = ch /\ UNCHANGED job
           \/ ~Loads(disk)
    BY DEF StartTrusted
  <1>2. /\ FilesOK(disk) /\ (disk.meta # None => disk.meta.first = 0)
        /\ Startable(disk) /\ Recorded(disk) /\ job = <<>>
    BY <1>1 DEF Archiving, Inv, SafeInv, JobOK, ArchiveOK
  <1>3. Loads(disk)
    BY <1>1, <1>2, TrustedLoads
  <1>4. ch.first = 0 /\ ChainOK(ch)
        /\ IF BlocksOf(disk) = None THEN ch.path = <<>> ELSE ch.path = BlocksOf(disk)
    BY <1>2, <1>3, LoadedIsBlocks
  <1> HIDE DEF ch
  <1>5. CASE BeginSave(ch, on, disk) /\ mode' = "up"
    <2>1. ~on
      BY <1>4 DEF Archiving
    <2>2. mem' = ch /\ job' = SaveSteps(ch, disk)
      BY <1>5, <2>1, Unpruning DEF BeginSave
    <2>3. job' = <<"rewrite_all", "meta">> => ch.path = <<>> \/ Measured(disk)
      BY <1>2, <1>4, <2>2, SaveOfLoaded
    <2> QED
      BY <1>1, <1>2, <1>4, <1>5, <2>2, <2>3 DEF ArchiveOK
  <1>6. CASE mem' = ch /\ UNCHANGED job /\ mode' = "up"
    BY <1>1, <1>2, <1>4, <1>6, RewriteIs DEF ArchiveOK
  <1> QED
    BY <1>1, <1>3, <1>5, <1>6

\* The loader thread finds a verified chain, or blocks that were given to us.
LEMMA ArchiveStartLoader == ASSUME Archiving, StartLoader PROVE ArchiveOK'
  <1>1. /\ BlocksOf(disk) # None /\ ~IsOwnFileTrusted(disk) /\ disk' = Recovered(disk)
        /\ mode' = "loading" /\ image' = disk' /\ mem' = mem /\ ~Uncounted(disk)
    BY DEF StartLoader, Archiving, Broken
  <1>2. /\ FilesOK(disk) /\ (disk.meta # None => disk.meta.first = 0) /\ mem.first = 0
        /\ Startable(disk) /\ Recorded(disk) /\ FilesOK(disk')
    BY DEF Archiving, Inv, SafeInv, ArchiveOK
  <1>3. /\ disk'.meta = disk.meta /\ Startable(disk') /\ Recorded(disk')
        /\ Loads(disk') \/ Foreign(disk')
    BY <1>1, <1>2, RecoveredStarts
  <1>4. image' # None
    BY <1>1, <1>2, SomeDir
  <1> QED
    BY <1>1, <1>2, <1>3, <1>4 DEF ArchiveOK

\* The loader thread is done.
LEMMA ArchiveLoaderDone == ASSUME Archiving, LoaderDone PROVE ArchiveOK'
  <1> DEFINE ch == LoadedChain(disk)
  <1>1. /\ mode = "loading" /\ image = disk /\ UNCHANGED disk
        /\ \/ Loads(disk) /\ mode' = "up" /\ BeginSave(ch, prune, disk)
           \/ ~Loads(disk) /\ UNCHANGED <<mode, mem>>
    BY DEF LoaderDone, Archiving, Inv, StoryInv
  <1>2. /\ FilesOK(disk) /\ (disk.meta # None => disk.meta.first = 0)
        /\ Startable(disk) /\ Recorded(disk) /\ mem.first = 0
        /\ Loads(disk) \/ Foreign(disk)
    BY <1>1 DEF Archiving, Inv, SafeInv, ArchiveOK
  <1>3. CASE Loads(disk) /\ mode' = "up" /\ BeginSave(ch, prune, disk)
    <2>1. ch.first = 0 /\ ChainOK(ch)
          /\ IF BlocksOf(disk) = None THEN ch.path = <<>> ELSE ch.path = BlocksOf(disk)
      BY <1>2, <1>3, LoadedIsBlocks
    <2> HIDE DEF ch
    <2>2. job' = SaveSteps(ch, disk)
      BY <1>3, Unpruning DEF BeginSave, Archiving
    <2>3. job' = <<"rewrite_all", "meta">> => ch.path = <<>> \/ Measured(disk)
      BY <1>2, <2>1, <2>2, SaveOfLoaded
    <2> QED
      BY <1>1, <1>3, <2>1, <2>3, ArchiveBegin
  <1>4. CASE ~Loads(disk) /\ UNCHANGED <<mode, mem>>
    BY <1>1, <1>2, <1>4 DEF ArchiveOK
  <1> QED
    BY <1>1, <1>3, <1>4

\* Every step of an archive node leaves files that it can start on.
LEMMA ArchiveNext ==
    ASSUME OneLengthOneChain, Inv, Inv', ArchiveInv, [NextFaulty]_vars
    PROVE  ArchiveInv'
  <1> SUFFICES ASSUME ~Broken', ~prune' PROVE ArchiveOK'
    BY DEF ArchiveInv
  <1>1. ~Broken
    BY BrokenStays
  <1>2. CASE UNCHANGED vars
    <2>1. ArchiveOK /\ UNCHANGED <<disk, mode, image, mem, job>>
      BY <1>1, <1>2 DEF vars, ArchiveInv
    <2> QED
      BY <2>1 DEF ArchiveOK
  <1>3. CASE SaveFails \/ PowerCut
    BY <1>3 DEF SaveFails, PowerCut, Broken
  <1>4. CASE SetPrune
    BY <1>4 DEF SetPrune
  <1>5. CASE Next /\ ~SetPrune
    <2>1. ~prune
      BY <1>5 DEF Next, Move, PersistLoop, Resync, SaveStep, Migrate, MigrateStep, Crash, StartTrusted,
         StartLoader, LoaderDone
    <2>2. Archiving
      BY <1>1, <2>1 DEF Archiving, ArchiveInv
    <2> QED
      BY <1>5, <2>2, ArchiveMove, ArchivePersist, ArchiveResync, ArchiveSaveStep, ArchiveMigrate,
         ArchiveMigrateStep, ArchiveCrash, ArchiveStartTrusted, ArchiveStartLoader,
         ArchiveLoaderDone DEF Next
  <1> QED
    BY <1>2, <1>3, <1>4, <1>5 DEF NextFaulty

\* An archive node comes up again after every crash: what a save, resync or migration leaves at
\* any point is trusted and loads, or is verified by the loader thread after
\* recover_uncommitted_archive_tail has cut it -- unless the datadir was a copy
\* with a block that verification refuses.  That no two chains have files of one length is what
\* is_own_file_trusted, which compares lengths only, relies on between the rewrite of an archive
\* and its record.
THEOREM ArchiveStartsAgain ==
    ASSUME OneLengthOneChain PROVE SpecFaulty => []RestartSucceeds
  <1>1. Init => ArchiveInv
    BY ArchiveInit DEF ArchiveInv
  <1>2. Inv /\ Inv' /\ ArchiveInv /\ [NextFaulty]_vars => ArchiveInv'
    BY ArchiveNext
  <1>3. ArchiveInv => RestartSucceeds
    <2> SUFFICES ASSUME ArchiveInv, StartFailed, ~Broken, ~prune
                 PROVE  Range(BlocksOf(disk)) \cap Invalid # {}
      BY DEF RestartSucceeds
    <2> QED
      BY DEF ArchiveInv, ArchiveOK, StartFailed, Foreign
  <1> QED
    BY <1>1, <1>2, <1>3, StoryHolds, PTL DEF SpecFaulty
=============================================================================

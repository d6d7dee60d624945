---------------------------- MODULE WalletProofs ----------------------------
(***************************************************************************)
(* What Wallet promises, for every number of coins, payments, blocks and   *)
(* reorganisations, every page size and birth height.                      *)
(*                                                                         *)
(* One inductive invariant, WalletInv, carries the safety properties.  It  *)
(* says the same of every wallet there is -- in memory, on disk, the       *)
(* scan's base and its copy, the relay's copy -- because any of them may   *)
(* take another's place: that it is sound (a confirmed payment's inputs    *)
(* are spent, no coin is claimed twice, the anchor's outputs are known),   *)
(* and, unless two chains were mixed, exact (it knows nothing but the      *)
(* anchor's outputs, and takes for spent what the anchor consumed and its  *)
(* pending payments claim, no more).  Each operator that makes a wallet of *)
(* a wallet -- Scanned, Signed, Released -- is shown to keep both; each    *)
(* step only moves wallets about.                                          *)
(***************************************************************************)
EXTENDS Wallet, SequenceTheorems, TLAPS

-----------------------------------------------------------------------------
(* Chains *)

Blocks == [ins : SUBSET Commits, outs : SUBSET Commits]

\* The chain holds nothing of the wallet's below its birth height, and consumes
\* only what it created before.
GoodChain(ch) ==
    /\ ch \in Seq(Blocks) /\ Len(ch) >= 1
    /\ \A i \in 1..Len(ch) : i <= Birth => ch[i].outs = {}
    /\ \A i \in 1..Len(ch) : \A c \in ch[i].ins : \E j \in 1..(i - 1) : c \in ch[j].outs

\* What some blocks create and consume (the outputs and inputs of their bodies).
LEMMA InBlocks ==
    ASSUME NEW bs
    PROVE  /\ \A c : c \in Created(bs) <=> \E i \in DOMAIN bs : c \in bs[i].outs
           /\ \A c : c \in Consumed(bs) <=> \E i \in DOMAIN bs : c \in bs[i].ins
BY DEF Created, Consumed

\* What a stretch of a chain creates and consumes, block by block (Created, Consumed
\* over the blocks blocks_from returns).
LEMMA Stretch ==
    ASSUME NEW ch \in Seq(Blocks), NEW m \in Nat \ {0}, NEW n \in Int, n <= Len(ch)
    PROVE  /\ SubSeq(ch, m, n) \in Seq(Blocks)
           /\ \A c : c \in Created(SubSeq(ch, m, n)) <=> \E i \in m..n : c \in ch[i].outs
           /\ \A c : c \in Consumed(SubSeq(ch, m, n)) <=> \E i \in m..n : c \in ch[i].ins
<1> DEFINE s == SubSeq(ch, m, n)
<1>0. Len(ch) \in Nat /\ \A i \in m..n : ch[i] \in Blocks
  <2>1. Len(ch) \in Nat /\ ch \in [1..Len(ch) -> Blocks]
    BY LenProperties
  <2>2. m..n \subseteq 1..Len(ch)
    BY <2>1
  <2> QED BY <2>1, <2>2
<1>1. /\ s \in Seq(Blocks) /\ Len(s) = IF m <= n THEN n - m + 1 ELSE 0
      /\ \A i \in 1..(n - m + 1) : s[i] = ch[m + i - 1]
  BY <1>0, SubSeqProperties
<1>2. DOMAIN s = 1..Len(s)
  BY <1>1, LenProperties
<1> HIDE DEF s
<1>3. \A i \in DOMAIN s : m + i - 1 \in m..n /\ s[i] = ch[m + i - 1]
  BY <1>1, <1>2
<1>4. \A j \in m..n : j - m + 1 \in DOMAIN s /\ s[j - m + 1] = ch[j]
  <2> SUFFICES ASSUME NEW j \in m..n PROVE j - m + 1 \in DOMAIN s /\ s[j - m + 1] = ch[j]
    OBVIOUS
  <2>1. j - m + 1 \in 1..(n - m + 1) /\ m <= n
    OBVIOUS
  <2>2. m + (j - m + 1) - 1 = j
    OBVIOUS
  <2> QED BY <1>1, <1>2, <2>1, <2>2
<1>5. \A c : c \in Created(s) <=> \E i \in m..n : c \in ch[i].outs
  <2>1. \A c : (\E i \in DOMAIN s : c \in s[i].outs) <=> \E i \in m..n : c \in ch[i].outs
    BY <1>3, <1>4
  <2> QED BY <2>1, InBlocks
<1>6. \A c : c \in Consumed(s) <=> \E i \in m..n : c \in ch[i].ins
  <2>1. \A c : (\E i \in DOMAIN s : c \in s[i].ins) <=> \E i \in m..n : c \in ch[i].ins
    BY <1>3, <1>4
  <2> QED BY <2>1, InBlocks
<1> QED BY <1>1, <1>5, <1>6 DEF s

\* What the chain up to a height creates and consumes.
LEMMA UptoHeight ==
    ASSUME NEW ch, GoodChain(ch), NEW h \in Nat, h <= Tip(ch)
    PROVE  /\ Upto(ch, h) \in Seq(Blocks) /\ Upto(ch, h) # <<>>
           /\ \A c : c \in Created(Upto(ch, h)) <=> \E i \in 1..(h + 1) : c \in ch[i].outs
           /\ \A c : c \in Consumed(Upto(ch, h)) <=> \E i \in 1..(h + 1) : c \in ch[i].ins
           /\ Consumed(Upto(ch, h)) \subseteq Created(Upto(ch, h))
<1>1. ch \in Seq(Blocks) /\ Len(ch) \in Nat /\ h + 1 <= Len(ch) /\ h + 1 \in Nat
  BY LenProperties DEF GoodChain, Tip
<1>2. /\ Upto(ch, h) \in Seq(Blocks)
      /\ \A c : c \in Created(Upto(ch, h)) <=> \E i \in 1..(h + 1) : c \in ch[i].outs
      /\ \A c : c \in Consumed(Upto(ch, h)) <=> \E i \in 1..(h + 1) : c \in ch[i].ins
  BY <1>1, Stretch DEF Upto
<1>3. Len(Upto(ch, h)) = h + 1
  <2>1. \A i \in 1..(h + 1) : ch[i] \in Blocks
    BY <1>1, ElementOfSeq
  <2>2. Len(SubSeq(ch, 1, h + 1)) = IF 1 <= h + 1 THEN (h + 1) - 1 + 1 ELSE 0
    BY <1>1, <2>1, SubSeqProperties
  <2> QED BY <1>1, <2>2 DEF Upto
<1>4. Upto(ch, h) # <<>>
  <2>1. Upto(ch, h) = <<>> => Len(Upto(ch, h)) = 0
    OBVIOUS
  <2> QED BY <1>1, <1>3, <2>1
<1>5. Consumed(Upto(ch, h)) \subseteq Created(Upto(ch, h))
  <2> SUFFICES ASSUME NEW i \in 1..(h + 1), NEW c \in ch[i].ins
               PROVE  \E j \in 1..(h + 1) : c \in ch[j].outs
    BY <1>2
  <2>1. i \in 1..Len(ch) /\ 1..(i - 1) \subseteq 1..(h + 1)
    BY <1>1
  <2>2. PICK j \in 1..(i - 1) : c \in ch[j].outs
    BY <2>1 DEF GoodChain
  <2> QED BY <2>1, <2>2
<1> QED BY <1>2, <1>4, <1>5

\* The chain as a whole.
LEMMA UptoTip ==
    ASSUME NEW ch, GoodChain(ch)
    PROVE  Tip(ch) \in Nat /\ Upto(ch, Tip(ch)) = ch
<1>1. ch \in Seq(Blocks) /\ Len(ch) \in Nat /\ Len(ch) >= 1
  BY LenProperties DEF GoodChain
<1>2. Tip(ch) \in Nat /\ Tip(ch) + 1 = Len(ch)
  BY <1>1 DEF Tip
<1>3. SubSeq(ch, 1, Len(ch)) = ch
  BY <1>1, SubSeqFull
<1> QED BY <1>2, <1>3 DEF Upto

\* A stretch from the birth height creates and consumes what the chain does, and
\* creates all it consumes.
LEMMA FromBirth ==
    ASSUME NEW ch, GoodChain(ch), NEW h \in Nat, h <= Tip(ch), Birth \in Nat
    PROVE  LET bs == SubSeq(ch, Birth + 1, h + 1)
           IN  /\ Created(bs) = Created(Upto(ch, h))
               /\ Consumed(bs) = Consumed(Upto(ch, h))
               /\ Consumed(bs) \subseteq Created(bs)
<1> DEFINE bs == SubSeq(ch, Birth + 1, h + 1)
<1>1. ch \in Seq(Blocks) /\ Len(ch) \in Nat /\ h + 1 <= Len(ch) /\ h + 1 \in Nat /\ Birth + 1 \in Nat \ {0}
  BY LenProperties DEF GoodChain, Tip
<1>2. /\ \A c : c \in Created(bs) <=> \E i \in (Birth + 1)..(h + 1) : c \in ch[i].outs
      /\ \A c : c \in Consumed(bs) <=> \E i \in (Birth + 1)..(h + 1) : c \in ch[i].ins
  BY <1>1, Stretch
<1>3. /\ \A c : c \in Created(Upto(ch, h)) <=> \E i \in 1..(h + 1) : c \in ch[i].outs
      /\ \A c : c \in Consumed(Upto(ch, h)) <=> \E i \in 1..(h + 1) : c \in ch[i].ins
  BY UptoHeight
<1> HIDE DEF bs
<1>4. \A i \in 1..(h + 1) : \A c \in ch[i].outs : i \in (Birth + 1)..(h + 1)
  <2> SUFFICES ASSUME NEW i \in 1..(h + 1), NEW c \in ch[i].outs, ~(i \in (Birth + 1)..(h + 1)) PROVE FALSE
    OBVIOUS
  <2>1. i \in 1..Len(ch) /\ i <= Birth
    BY <1>1
  <2> QED BY <2>1 DEF GoodChain
<1>5. \A i \in 1..(h + 1) : \A c \in ch[i].ins :
         i \in (Birth + 1)..(h + 1) /\ \E j \in (Birth + 1)..(h + 1) : c \in ch[j].outs
  <2> SUFFICES ASSUME NEW i \in 1..(h + 1), NEW c \in ch[i].ins
               PROVE  i \in (Birth + 1)..(h + 1) /\ \E j \in (Birth + 1)..(h + 1) : c \in ch[j].outs
    OBVIOUS
  <2>1. i \in 1..Len(ch)
    BY <1>1
  <2>2. PICK j \in 1..(i - 1) : c \in ch[j].outs
    BY <2>1 DEF GoodChain
  <2>3. j \in 1..(h + 1) /\ j < i
    BY <1>1
  <2>4. j \in (Birth + 1)..(h + 1)
    BY <2>2, <2>3, <1>4
  <2>5. i \in (Birth + 1)..(h + 1)
    BY <1>1, <2>3, <2>4
  <2> QED BY <2>2, <2>4, <2>5
<1>6. \A i \in (Birth + 1)..(h + 1) : i \in 1..(h + 1)
  BY <1>1
<1>7. Created(bs) = Created(Upto(ch, h))
  BY <1>2, <1>3, <1>4, <1>6
<1>8. Consumed(bs) = Consumed(Upto(ch, h))
  BY <1>2, <1>3, <1>5, <1>6
<1>9. Consumed(bs) \subseteq Created(bs)
  BY <1>2, <1>5, <1>6
<1> QED BY <1>7, <1>8, <1>9 DEF bs

\* A stretch that starts at a block of the chain adds to what the chain up to that
\* block creates and consumes, and consumes nothing that neither has created.
LEMMA Onwards ==
    ASSUME NEW ch, GoodChain(ch), NEW f \in Nat, NEW h \in Nat, f <= h, h <= Tip(ch)
    PROVE  LET bs == SubSeq(ch, f + 1, h + 1)
           IN  /\ Created(Upto(ch, h)) = Created(Upto(ch, f)) \cup Created(bs)
               /\ Consumed(Upto(ch, h)) = Consumed(Upto(ch, f)) \cup Consumed(bs)
               /\ Consumed(bs) \subseteq Created(Upto(ch, h))
<1> DEFINE bs == SubSeq(ch, f + 1, h + 1)
<1>1. ch \in Seq(Blocks) /\ Len(ch) \in Nat /\ h + 1 <= Len(ch) /\ h + 1 \in Nat /\ f + 1 \in Nat \ {0}
  BY LenProperties DEF GoodChain, Tip
<1>2. /\ \A c : c \in Created(bs) <=> \E i \in (f + 1)..(h + 1) : c \in ch[i].outs
      /\ \A c : c \in Consumed(bs) <=> \E i \in (f + 1)..(h + 1) : c \in ch[i].ins
  BY <1>1, Stretch
<1>3. /\ \A c : c \in Created(Upto(ch, h)) <=> \E i \in 1..(h + 1) : c \in ch[i].outs
      /\ \A c : c \in Consumed(Upto(ch, h)) <=> \E i \in 1..(h + 1) : c \in ch[i].ins
  BY UptoHeight
<1>4. f <= Tip(ch)
  BY <1>1 DEF Tip
<1>5. /\ \A c : c \in Created(Upto(ch, f)) <=> \E i \in 1..(f + 1) : c \in ch[i].outs
      /\ \A c : c \in Consumed(Upto(ch, f)) <=> \E i \in 1..(f + 1) : c \in ch[i].ins
  BY <1>4, UptoHeight
<1> HIDE DEF bs
<1>6. \A i : i \in 1..(h + 1) <=> (i \in 1..(f + 1) \/ i \in (f + 1)..(h + 1))
  BY <1>1
<1>7. \A i \in 1..(h + 1) : \A c \in ch[i].ins : \E j \in 1..(h + 1) : c \in ch[j].outs
  <2> SUFFICES ASSUME NEW i \in 1..(h + 1), NEW c \in ch[i].ins
               PROVE  \E j \in 1..(h + 1) : c \in ch[j].outs
    OBVIOUS
  <2>1. i \in 1..Len(ch) /\ 1..(i - 1) \subseteq 1..(h + 1)
    BY <1>1
  <2>2. PICK j \in 1..(i - 1) : c \in ch[j].outs
    BY <2>1 DEF GoodChain
  <2> QED BY <2>1, <2>2
<1>8. Created(Upto(ch, h)) = Created(Upto(ch, f)) \cup Created(bs)
  BY <1>2, <1>3, <1>5, <1>6
<1>9. Consumed(Upto(ch, h)) = Consumed(Upto(ch, f)) \cup Consumed(bs)
  BY <1>2, <1>3, <1>5, <1>6
<1>10. Consumed(bs) \subseteq Created(Upto(ch, h))
  BY <1>2, <1>3, <1>6, <1>7
<1> QED BY <1>8, <1>9, <1>10 DEF bs

\* A chain cut at a height, or grown by a block that spends what it has, is good.
LEMMA Cut ==
    ASSUME NEW ch, GoodChain(ch), NEW n \in 1..Len(ch)
    PROVE  GoodChain(SubSeq(ch, 1, n)) /\ Len(SubSeq(ch, 1, n)) = n
<1> DEFINE s == SubSeq(ch, 1, n)
<1>1. ch \in Seq(Blocks) /\ Len(ch) \in Nat /\ n \in Nat /\ 1 <= n /\ n <= Len(ch)
  BY LenProperties DEF GoodChain
<1>2. \A i \in 1..n : ch[i] \in Blocks
  BY <1>1, ElementOfSeq
<1>3. /\ s \in Seq(Blocks) /\ Len(s) = IF 1 <= n THEN n - 1 + 1 ELSE 0
      /\ \A i \in 1..(n - 1 + 1) : s[i] = ch[1 + i - 1]
  BY <1>1, <1>2, SubSeqProperties
<1> HIDE DEF s
<1>4. Len(s) = n /\ \A i \in 1..n : s[i] = ch[i] /\ i \in 1..Len(ch)
  BY <1>1, <1>3
<1>5. \A i \in 1..Len(s) : i <= Birth => s[i].outs = {}
  BY <1>4 DEF GoodChain
<1>6. \A i \in 1..Len(s) : \A c \in s[i].ins : \E j \in 1..(i - 1) : c \in s[j].outs
  <2> SUFFICES ASSUME NEW i \in 1..n, NEW c \in ch[i].ins
               PROVE  \E j \in 1..(i - 1) : c \in s[j].outs
    BY <1>4
  <2>1. PICK j \in 1..(i - 1) : c \in ch[j].outs
    BY <1>4 DEF GoodChain
  <2>2. j \in 1..n
    BY <1>1
  <2> QED BY <1>4, <2>1, <2>2
<1> QED BY <1>1, <1>3, <1>4, <1>5, <1>6 DEF GoodChain, s

\* Append: a block on top of a good chain makes a good chain (apply_block).
LEMMA Grow ==
    ASSUME NEW ch, GoodChain(ch), NEW b \in Blocks, Birth \in Nat,
           b.ins \subseteq Created(ch), b.outs # {} => Len(ch) >= Birth
    PROVE  GoodChain(Append(ch, b)) /\ Len(Append(ch, b)) = Len(ch) + 1
<1> DEFINE s == Append(ch, b)
<1>1. ch \in Seq(Blocks) /\ Len(ch) \in Nat /\ 1 <= Len(ch) /\ DOMAIN ch = 1..Len(ch)
  BY LenProperties DEF GoodChain
<1>2. /\ s \in Seq(Blocks) /\ Len(s) = Len(ch) + 1
      /\ \A i \in 1..Len(ch) : s[i] = ch[i]
      /\ s[Len(ch) + 1] = b
  BY <1>1, AppendProperties
<1> HIDE DEF s
<1>3. \A i \in 1..Len(s) : i \in 1..Len(ch) \/ i = Len(ch) + 1
  BY <1>1, <1>2
<1>4. \A i \in 1..Len(s) : i <= Birth => s[i].outs = {}
  BY <1>1, <1>2, <1>3 DEF GoodChain
<1>5. \A i \in 1..Len(s) : \A c \in s[i].ins : \E j \in 1..(i - 1) : c \in s[j].outs
  <2> SUFFICES ASSUME NEW i \in 1..Len(s), NEW c \in s[i].ins
               PROVE  \E j \in 1..(i - 1) : c \in s[j].outs
    OBVIOUS
  <2>1. CASE i \in 1..Len(ch)
    <3>1. PICK j \in 1..(i - 1) : c \in ch[j].outs
      BY <1>2, <2>1 DEF GoodChain
    <3>2. j \in 1..Len(ch)
      BY <1>1, <2>1
    <3> QED BY <1>2, <3>1, <3>2
  <2>2. CASE i = Len(ch) + 1
    <3>1. c \in Created(ch)
      BY <1>2, <2>2
    <3>2. PICK j \in 1..Len(ch) : c \in ch[j].outs
      BY <1>1, <3>1 DEF Created
    <3>3. j \in 1..(i - 1)
      BY <1>1, <2>2
    <3> QED BY <1>2, <3>2, <3>3
  <2> QED BY <1>3, <2>1, <2>2
<1> QED BY <1>1, <1>2, <1>4, <1>5 DEF GoodChain, s

-----------------------------------------------------------------------------
(* Wallets *)

Partial(S, R) == UNION {[D -> R] : D \in SUBSET S}
Output == [height : Nat, spent : BOOLEAN]
Payment == [ins : SUBSET Commits, confirmed : BOOLEAN, withheld : BOOLEAN, failed : BOOLEAN]
Wallets ==
    [outs : Partial(Commits, Output), scanned : {h \in Nat : h >= Birth},
     anchor : Seq(Blocks), sends : Partial(Pays, Payment)]

\* The fields of a wallet, and a wallet from its fields.
LEMMA WalletFields ==
    ASSUME NEW w \in Wallets
    PROVE  /\ w = [outs |-> w.outs, scanned |-> w.scanned, anchor |-> w.anchor, sends |-> w.sends]
           /\ w.scanned \in Nat /\ w.scanned >= Birth /\ w.anchor \in Seq(Blocks)
           /\ DOMAIN w.outs \subseteq Commits /\ w.outs \in [DOMAIN w.outs -> Output]
           /\ \A c \in DOMAIN w.outs : w.outs[c] = [height |-> w.outs[c].height, spent |-> w.outs[c].spent]
           /\ \A c \in DOMAIN w.outs : w.outs[c].height \in Nat /\ w.outs[c].spent \in BOOLEAN
           /\ DOMAIN w.sends \subseteq Pays /\ w.sends \in [DOMAIN w.sends -> Payment]
           /\ \A p \in DOMAIN w.sends :
                 /\ w.sends[p] \in Payment
                 /\ w.sends[p].ins \subseteq Commits /\ w.sends[p].confirmed \in BOOLEAN
                 /\ w.sends[p].withheld \in BOOLEAN /\ w.sends[p].failed \in BOOLEAN
<1>1. /\ w = [outs |-> w.outs, scanned |-> w.scanned, anchor |-> w.anchor, sends |-> w.sends]
      /\ w.scanned \in Nat /\ w.scanned >= Birth /\ w.anchor \in Seq(Blocks)
      /\ w.outs \in Partial(Commits, Output) /\ w.sends \in Partial(Pays, Payment)
  BY DEF Wallets
<1>2. \A S, R, f : f \in Partial(S, R) => DOMAIN f \subseteq S /\ f \in [DOMAIN f -> R]
  BY DEF Partial
<1>3. /\ DOMAIN w.outs \subseteq Commits /\ w.outs \in [DOMAIN w.outs -> Output]
      /\ DOMAIN w.sends \subseteq Pays /\ w.sends \in [DOMAIN w.sends -> Payment]
  BY <1>1, <1>2
<1>4. \A c \in DOMAIN w.outs : w.outs[c] \in Output
  BY <1>3
<1>5. \A p \in DOMAIN w.sends : w.sends[p] \in Payment
  BY <1>3
<1>6. \A c \in DOMAIN w.outs :
         /\ w.outs[c] = [height |-> w.outs[c].height, spent |-> w.outs[c].spent]
         /\ w.outs[c].height \in Nat /\ w.outs[c].spent \in BOOLEAN
  BY <1>4 DEF Output
<1>7. \A p \in DOMAIN w.sends :
         /\ w.sends[p].ins \subseteq Commits /\ w.sends[p].confirmed \in BOOLEAN
         /\ w.sends[p].withheld \in BOOLEAN /\ w.sends[p].failed \in BOOLEAN
  BY <1>5 DEF Payment
<1> QED BY <1>1, <1>3, <1>5, <1>6, <1>7

\* A wallet from its fields.
LEMMA WalletOf ==
    ASSUME NEW D \in SUBSET Commits, NEW o \in [D -> Output], NEW s \in Nat, s >= Birth,
           NEW a \in Seq(Blocks), NEW E \in SUBSET Pays, NEW q \in [E -> Payment]
    PROVE  [outs |-> o, scanned |-> s, anchor |-> a, sends |-> q] \in Wallets
<1>1. o \in Partial(Commits, Output) /\ q \in Partial(Pays, Payment)
  BY DEF Partial
<1> QED BY <1>1 DEF Wallets

\* A wallet with fields replaced.
Fields(O, S, A, Q) == [outs : O, scanned : S, anchor : A, sends : Q]

\* A record is in the record set of its own fields.
LEMMA OneRecord ==
    ASSUME NEW o, NEW s, NEW a, NEW q
    PROVE  [outs |-> o, scanned |-> s, anchor |-> a, sends |-> q] \in Fields({o}, {s}, {a}, {q})
BY DEF Fields

\* EXCEPT, for the payments.
LEMMA WithSends ==
    ASSUME NEW O, NEW S, NEW A, NEW Q, NEW w \in Fields(O, S, A, Q), NEW q
    PROVE  [w EXCEPT !.sends = q] =
              [outs |-> w.outs, scanned |-> w.scanned, anchor |-> w.anchor, sends |-> q]
BY DEF Fields

\* EXCEPT, for the scan position.
LEMMA WithScanned ==
    ASSUME NEW O, NEW S, NEW A, NEW Q, NEW w \in Fields(O, S, A, Q), NEW s
    PROVE  [w EXCEPT !.scanned = s] =
              [outs |-> w.outs, scanned |-> s, anchor |-> w.anchor, sends |-> w.sends]
BY DEF Fields

\* EXCEPT, for the anchor.
LEMMA WithAnchor ==
    ASSUME NEW O, NEW S, NEW A, NEW Q, NEW w \in Fields(O, S, A, Q), NEW a
    PROVE  [w EXCEPT !.anchor = a] =
              [outs |-> w.outs, scanned |-> w.scanned, anchor |-> a, sends |-> w.sends]
BY DEF Fields

\* EXCEPT, for the outputs of a wallet.
LEMMA WithOuts ==
    ASSUME NEW w \in Wallets, NEW o
    PROVE  [w EXCEPT !.outs = o] =
              [outs |-> o, scanned |-> w.scanned, anchor |-> w.anchor, sends |-> w.sends]
BY DEF Wallets

\* EXCEPT, for the outputs and payments, as record_send_at and reconcile_with change
\* them together.
LEMMA WithOutsAndSends ==
    ASSUME NEW w \in Wallets, NEW o, NEW q
    PROVE  [w EXCEPT !.outs = o, !.sends = q] =
              [outs |-> o, scanned |-> w.scanned, anchor |-> w.anchor, sends |-> q]
<1> DEFINE x == [w EXCEPT !.outs = o]
<1>1. x = [outs |-> o, scanned |-> w.scanned, anchor |-> w.anchor, sends |-> w.sends]
  BY DEF Wallets
<1>2. [w EXCEPT !.outs = o, !.sends = q] = [x EXCEPT !.sends = q]
  OBVIOUS
<1> HIDE DEF x
<1>3. /\ x.outs = o /\ x.scanned = w.scanned /\ x.anchor = w.anchor
      /\ x \in Fields({o}, {w.scanned}, {w.anchor}, {w.sends})
  BY <1>1, OneRecord
<1>4. [x EXCEPT !.sends = q] = [outs |-> x.outs, scanned |-> x.scanned, anchor |-> x.anchor, sends |-> q]
  BY <1>3, WithSends
<1> QED BY <1>2, <1>3, <1>4

\* EXCEPT, for what scan_blocks_inner sets at its end.
LEMMA WithScan ==
    ASSUME NEW w \in Wallets, NEW q, NEW s, NEW a
    PROVE  [w EXCEPT !.sends = q, !.scanned = s, !.anchor = a] =
              [outs |-> w.outs, scanned |-> s, anchor |-> a, sends |-> q]
<1> DEFINE x == [w EXCEPT !.sends = q]
           y == [x EXCEPT !.scanned = s]
<1>1. x = [outs |-> w.outs, scanned |-> w.scanned, anchor |-> w.anchor, sends |-> q]
  BY DEF Wallets
<1>2. [w EXCEPT !.sends = q, !.scanned = s, !.anchor = a] = [y EXCEPT !.anchor = a]
  OBVIOUS
<1> HIDE DEF x
<1>3. /\ x.outs = w.outs /\ x.anchor = w.anchor /\ x.sends = q
      /\ x \in Fields({w.outs}, {w.scanned}, {w.anchor}, {q})
  BY <1>1, OneRecord
<1>4. y = [outs |-> x.outs, scanned |-> s, anchor |-> x.anchor, sends |-> x.sends]
  BY <1>3, WithScanned
<1> HIDE DEF y
<1>5. /\ y.outs = w.outs /\ y.scanned = s /\ y.sends = q
      /\ y \in Fields({w.outs}, {s}, {w.anchor}, {q})
  BY <1>3, <1>4, OneRecord
<1>6. [y EXCEPT !.anchor = a] = [outs |-> y.outs, scanned |-> y.scanned, anchor |-> a, sends |-> y.sends]
  BY <1>5, WithAnchor
<1> QED BY <1>2, <1>5, <1>6

\* A page of a good chain, as every scan asks for it.
IsPage(pg) ==
    /\ pg = Page(pg.ch, pg.from, pg.to)
    /\ GoodChain(pg.ch)
    /\ pg.from \in Nat /\ pg.from >= Birth /\ pg.to \in Int /\ pg.to <= Tip(pg.ch)

\* The blocks of a page.
LEMMA PageBlocks ==
    ASSUME NEW pg, IsPage(pg)
    PROVE  /\ BlocksOf(pg) = SubSeq(pg.ch, pg.from + 1, pg.to + 1)
           /\ Created(BlocksOf(pg)) \subseteq Commits /\ Consumed(BlocksOf(pg)) \subseteq Commits
           /\ \A c \in Created(BlocksOf(pg)) : \E h \in pg.from..pg.to : c \in pg.ch[h + 1].outs
           /\ IsEmptyPage(pg) => Created(BlocksOf(pg)) = {} /\ Consumed(BlocksOf(pg)) = {}
<1> DEFINE bs == SubSeq(pg.ch, pg.from + 1, pg.to + 1)
<1>1. bs = BlocksOf(pg)
  BY DEF BlocksOf
<1>2. /\ pg.ch \in Seq(Blocks) /\ Len(pg.ch) \in Nat /\ pg.from + 1 \in Nat \ {0} /\ pg.to + 1 \in Int
      /\ pg.to + 1 <= Len(pg.ch)
  BY LenProperties DEF IsPage, GoodChain, Tip
<1>3. /\ bs \in Seq(Blocks)
      /\ \A c : c \in Created(bs) <=> \E i \in (pg.from + 1)..(pg.to + 1) : c \in pg.ch[i].outs
      /\ \A c : c \in Consumed(bs) <=> \E i \in (pg.from + 1)..(pg.to + 1) : c \in pg.ch[i].ins
  BY <1>2, Stretch
<1> HIDE DEF bs
<1>4. \A i \in (pg.from + 1)..(pg.to + 1) : pg.ch[i].outs \subseteq Commits /\ pg.ch[i].ins \subseteq Commits
  <2> SUFFICES ASSUME NEW i \in (pg.from + 1)..(pg.to + 1)
               PROVE  pg.ch[i].outs \subseteq Commits /\ pg.ch[i].ins \subseteq Commits
    OBVIOUS
  <2>1. i \in 1..Len(pg.ch)
    BY <1>2 DEF IsPage
  <2>2. pg.ch[i] \in Blocks
    BY <1>2, <2>1, ElementOfSeq
  <2> QED BY <2>2 DEF Blocks
<1>5. Created(bs) \subseteq Commits /\ Consumed(bs) \subseteq Commits
  BY <1>3, <1>4
<1>6. \A c \in Created(bs) : \E h \in pg.from..pg.to : c \in pg.ch[h + 1].outs
  <2> SUFFICES ASSUME NEW c \in Created(bs) PROVE \E h \in pg.from..pg.to : c \in pg.ch[h + 1].outs
    OBVIOUS
  <2>1. PICK i \in (pg.from + 1)..(pg.to + 1) : c \in pg.ch[i].outs
    BY <1>3
  <2>2. i - 1 \in pg.from..pg.to /\ (i - 1) + 1 = i
    BY DEF IsPage
  <2> QED BY <2>1, <2>2
<1>7. IsEmptyPage(pg) => ~\E i : i \in (pg.from + 1)..(pg.to + 1)
  BY DEF IsEmptyPage, IsPage
<1>8. IsEmptyPage(pg) => Created(bs) = {} /\ Consumed(bs) = {}
  BY <1>3, <1>7
<1>9. BlocksOf(pg) = SubSeq(pg.ch, pg.from + 1, pg.to + 1)
  BY DEF BlocksOf
<1> QED BY <1>1, <1>5, <1>6, <1>8, <1>9

\* Added: nothing is forgotten; what is new lies in the page.
LEMMA AddedIs ==
    ASSUME NEW w \in Wallets, NEW pg, IsPage(pg)
    PROVE  LET n == Added(w, pg)
               made == Created(BlocksOf(pg))
               gone == Consumed(BlocksOf(pg))
           IN  /\ n \in Wallets
               /\ n.scanned = w.scanned /\ n.anchor = w.anchor /\ n.sends = w.sends
               /\ DOMAIN n.outs = DOMAIN w.outs \cup made
               /\ \A c \in DOMAIN w.outs : n.outs[c].height = w.outs[c].height
               /\ \A c \in made \ DOMAIN w.outs : n.outs[c].height \in pg.from..pg.to
               /\ \A c \in DOMAIN n.outs :
                     n.outs[c].spent <=> c \in gone \/ (c \in DOMAIN w.outs /\ w.outs[c].spent)
<1> DEFINE n == Added(w, pg)
           made == Created(BlocksOf(pg))
           gone == Consumed(BlocksOf(pg))
           D == DOMAIN w.outs \cup made
           FoundAt(c) == CHOOSE h \in pg.from..pg.to : c \in pg.ch[h + 1].outs
           H(c) == IF c \in DOMAIN w.outs THEN w.outs[c].height ELSE FoundAt(c)
           Sp(c) == c \in gone \/ (c \in DOMAIN w.outs /\ w.outs[c].spent)
           o == [c \in D |-> [height |-> H(c), spent |-> Sp(c)]]
<1>1. n = [outs |-> o, scanned |-> w.scanned, anchor |-> w.anchor, sends |-> w.sends]
  <2>1. n = [w EXCEPT !.outs = o]
    BY DEF Added
  <2> HIDE DEF n, o
  <2> QED BY <2>1, WithOuts
<1>2. \A c \in made : FoundAt(c) \in pg.from..pg.to
  BY PageBlocks
<1>3. \A c \in D : H(c) \in Nat /\ Sp(c) \in BOOLEAN
  <2>1. \A c \in DOMAIN w.outs : H(c) \in Nat
    BY WalletFields
  <2>2. \A h \in pg.from..pg.to : h \in Nat
    BY DEF IsPage
  <2> HIDE DEF FoundAt
  <2>3. \A c \in made \ DOMAIN w.outs : H(c) \in Nat
    BY <1>2, <2>2
  <2> QED BY <2>1, <2>3
<1>4. D \in SUBSET Commits
  BY PageBlocks, WalletFields
<1> HIDE DEF H, Sp, n, D, made, gone
<1>5. o \in [D -> Output]
  BY <1>3 DEF Output
<1>6. n \in Wallets
  BY <1>1, <1>4, <1>5, WalletFields, WalletOf
<1>7. n.outs = o /\ DOMAIN o = D /\ \A c \in D : o[c].height = H(c) /\ (o[c].spent <=> Sp(c))
  BY <1>1, <1>3
<1>8. n.scanned = w.scanned /\ n.anchor = w.anchor /\ n.sends = w.sends
  BY <1>1
<1>9. \A c \in DOMAIN w.outs : c \in D /\ H(c) = w.outs[c].height
  BY DEF H, D
<1>10. \A c \in made \ DOMAIN w.outs : c \in D /\ H(c) \in pg.from..pg.to
  BY <1>2 DEF H, D
<1>11. \A c \in D : Sp(c) <=> c \in gone \/ (c \in DOMAIN w.outs /\ w.outs[c].spent)
  BY DEF Sp
<1> QED BY <1>6, <1>7, <1>8, <1>9, <1>10, <1>11 DEF n, D, made, gone

\* One output or payment with a field replaced.
LEMMA OutputChanges ==
    ASSUME NEW x \in Output, NEW b \in BOOLEAN
    PROVE  LET y == [x EXCEPT !.spent = b]
           IN  y \in Output /\ y.height = x.height /\ y.spent = b
BY DEF Output

\* A payment the chain undoes (reconcile_with).
LEMMA PaymentUndone ==
    ASSUME NEW x \in Payment
    PROVE  LET y == [x EXCEPT !.confirmed = FALSE, !.withheld = TRUE]
           IN  y \in Payment /\ y.ins = x.ins /\ y.failed = x.failed /\ ~y.confirmed /\ y.withheld
BY DEF Payment

\* A payment the chain confirms (scan_blocks_inner).
LEMMA PaymentConfirmed ==
    ASSUME NEW x \in Payment
    PROVE  LET y == [x EXCEPT !.confirmed = TRUE]
           IN  /\ y \in Payment /\ y.ins = x.ins /\ y.failed = x.failed
               /\ y.confirmed /\ y.withheld = x.withheld
BY DEF Payment

\* A payment given up (release_sends).
LEMMA PaymentGivenUp ==
    ASSUME NEW x \in Payment
    PROVE  LET y == [x EXCEPT !.failed = TRUE, !.withheld = TRUE]
           IN  /\ y \in Payment /\ y.ins = x.ins /\ y.confirmed = x.confirmed
               /\ y.failed /\ y.withheld
BY DEF Payment

\* Reconciled (reconcile_with): exactly the outputs the chain has, spent exactly as
\* the chain has it, and every payment it undoes withheld.
LEMMA ReconciledIs ==
    ASSUME NEW w \in Wallets, NEW made, NEW gone
    PROVE  LET n == Reconciled(w, made, gone)
               Undoes(p) == w.sends[p].confirmed /\ ~(w.sends[p].ins \subseteq gone)
           IN  /\ n \in Wallets
               /\ n.scanned = w.scanned /\ n.anchor = w.anchor
               /\ DOMAIN n.outs = DOMAIN w.outs \cap made
               /\ \A c \in DOMAIN n.outs :
                     n.outs[c].height = w.outs[c].height /\ (n.outs[c].spent <=> c \in gone)
               /\ DOMAIN n.sends = DOMAIN w.sends
               /\ \A p \in DOMAIN w.sends :
                     /\ n.sends[p].ins = w.sends[p].ins
                     /\ n.sends[p].failed <=> w.sends[p].failed
                     /\ n.sends[p].confirmed <=> w.sends[p].confirmed /\ ~Undoes(p)
                     /\ n.sends[p].withheld <=> w.sends[p].withheld \/ Undoes(p)
<1> DEFINE n == Reconciled(w, made, gone)
           Undoes(p) == w.sends[p].confirmed /\ ~(w.sends[p].ins \subseteq gone)
           D == DOMAIN w.outs \cap made
           out(c) == [w.outs[c] EXCEPT !.spent = c \in gone]
           o == [c \in D |-> out(c)]
           pay(p) == IF Undoes(p) THEN [w.sends[p] EXCEPT !.confirmed = FALSE, !.withheld = TRUE]
                     ELSE w.sends[p]
           q == [p \in DOMAIN w.sends |-> pay(p)]
<1>1. n = [outs |-> o, scanned |-> w.scanned, anchor |-> w.anchor, sends |-> q]
  <2>1. n = [w EXCEPT !.outs = o, !.sends = q]
    BY DEF Reconciled
  <2> HIDE DEF n, o, q
  <2> QED BY <2>1, WithOutsAndSends
<1>2. \A c \in D : out(c) \in Output /\ out(c).height = w.outs[c].height /\ out(c).spent = (c \in gone)
  <2> SUFFICES ASSUME NEW c \in D
               PROVE  out(c) \in Output /\ out(c).height = w.outs[c].height /\ out(c).spent = (c \in gone)
    OBVIOUS
  <2>1. w.outs[c] \in Output /\ (c \in gone) \in BOOLEAN
    BY WalletFields
  <2> QED BY <2>1, OutputChanges
<1>3. \A p \in DOMAIN w.sends :
         /\ pay(p) \in Payment /\ pay(p).ins = w.sends[p].ins /\ (pay(p).failed <=> w.sends[p].failed)
         /\ pay(p).confirmed <=> w.sends[p].confirmed /\ ~Undoes(p)
         /\ pay(p).withheld <=> w.sends[p].withheld \/ Undoes(p)
  <2> SUFFICES ASSUME NEW p \in DOMAIN w.sends
               PROVE  /\ pay(p) \in Payment /\ pay(p).ins = w.sends[p].ins
                      /\ (pay(p).failed <=> w.sends[p].failed)
                      /\ pay(p).confirmed <=> w.sends[p].confirmed /\ ~Undoes(p)
                      /\ pay(p).withheld <=> w.sends[p].withheld \/ Undoes(p)
    OBVIOUS
  <2>1. w.sends[p] \in Payment
    BY WalletFields
  <2>2. CASE Undoes(p)
    BY <2>1, <2>2, PaymentUndone
  <2>3. CASE ~Undoes(p)
    BY <2>1, <2>3
  <2> QED BY <2>2, <2>3
<1> HIDE DEF out, pay, n, D, Undoes
<1>4. o \in [D -> Output] /\ q \in [DOMAIN w.sends -> Payment]
  BY <1>2, <1>3
<1>5. D \in SUBSET Commits /\ DOMAIN w.sends \in SUBSET Pays
  BY WalletFields DEF D
<1>6. n \in Wallets
  BY <1>1, <1>4, <1>5, WalletFields, WalletOf
<1>7. n.outs = o /\ n.sends = q /\ n.scanned = w.scanned /\ n.anchor = w.anchor
  BY <1>1
<1>8. /\ DOMAIN n.outs = D /\ DOMAIN n.sends = DOMAIN w.sends
      /\ \A c \in D : n.outs[c] = out(c)
      /\ \A p \in DOMAIN w.sends : n.sends[p] = pay(p)
  BY <1>7
<1>9. \A c \in DOMAIN n.outs : n.outs[c].height = w.outs[c].height /\ (n.outs[c].spent <=> c \in gone)
  BY <1>2, <1>8
<1>10. \A p \in DOMAIN w.sends :
          /\ n.sends[p].ins = w.sends[p].ins
          /\ n.sends[p].failed <=> w.sends[p].failed
          /\ n.sends[p].confirmed <=> w.sends[p].confirmed /\ ~Undoes(p)
          /\ n.sends[p].withheld <=> w.sends[p].withheld \/ Undoes(p)
  BY <1>3, <1>8
<1> QED BY <1>6, <1>7, <1>8, <1>9, <1>10 DEF n, Undoes, D

\* The greater of two numbers.
LEMMA MaxOfTwo ==
    ASSUME NEW a \in Int, NEW b \in Int
    PROVE  Max({a, b}) = IF a >= b THEN a ELSE b
<1>1. \E x \in {a, b} : \A y \in {a, b} : x >= y
  OBVIOUS
<1> QED BY <1>1 DEF Max

\* The lesser of two, by which ReadPage ends a page.
LEMMA MinOfTwo ==
    ASSUME NEW a \in Int, NEW b \in Int
    PROVE  Min({a, b}) = IF a <= b THEN a ELSE b
<1>1. \E x \in {a, b} : \A y \in {a, b} : x <= y
  OBVIOUS
<1> QED BY <1>1 DEF Min

\* What a page is to a wallet: a page from the birth height, or the next one after
\* the wallet's own block; forced (a rebase), from the birth height and not empty.
Fits(w, pg, forced) ==
    /\ IsPage(pg)
    /\ \/ pg.from = Birth
       \/ pg.from = w.scanned /\ pg.from <= pg.to /\ w.anchor = Upto(pg.ch, pg.from)
    /\ forced => pg.from = Birth /\ pg.from <= pg.to

\* A page that is taken for the whole of the chain's history.
Whole(w, pg, forced) == forced \/ Covers(w, pg)

\* What a page creates and consumes; the payments it settles, and those it undoes.
Made(pg) == Created(BlocksOf(pg))
Gone(pg) == Consumed(BlocksOf(pg))
SettledBy(w, pg, p) == p \in Pending(w) /\ w.sends[p].ins \subseteq Gone(pg)
UndoneBy(w, pg, forced, p) ==
    Whole(w, pg, forced) /\ w.sends[p].confirmed /\ ~(w.sends[p].ins \subseteq Gone(pg))

\* What a scan makes of the outputs, of the payments and of the scan position.
ScannedOuts(w, n, pg, forced) ==
    /\ DOMAIN n.outs = IF Whole(w, pg, forced) THEN Made(pg) ELSE DOMAIN w.outs \cup Made(pg)
    /\ \A c \in DOMAIN n.outs :
          /\ \/ n.outs[c].height = w.outs[c].height /\ c \in DOMAIN w.outs
             \/ n.outs[c].height \in pg.from..pg.to
          /\ n.outs[c].spent <=>
                (c \in Gone(pg) \/ (~Whole(w, pg, forced) /\ c \in DOMAIN w.outs /\ w.outs[c].spent))

ScannedSends(w, n, pg, forced) ==
    /\ DOMAIN n.sends = DOMAIN w.sends
    /\ \A p \in DOMAIN w.sends :
          /\ n.sends[p].ins = w.sends[p].ins
          /\ n.sends[p].failed <=> w.sends[p].failed
          /\ n.sends[p].confirmed <=>
                (SettledBy(w, pg, p) \/ (w.sends[p].confirmed /\ ~UndoneBy(w, pg, forced, p)))
          /\ n.sends[p].withheld <=> (w.sends[p].withheld \/ UndoneBy(w, pg, forced, p))

ScannedTo(w, n, pg, forced) ==
    IF pg.from <= pg.to /\ (forced \/ pg.to >= w.scanned)
    THEN n.scanned = pg.to /\ n.anchor = Upto(pg.ch, pg.to)
    ELSE n.scanned = w.scanned /\ n.anchor = w.anchor

\* Scanned (scan_blocks_inner), field by field.
LEMMA ScannedIs ==
    ASSUME NEW w \in Wallets, NEW pg, NEW forced \in BOOLEAN, Fits(w, pg, forced), Birth \in Nat
    PROVE  LET n == Scanned(w, pg, forced)
           IN  /\ n \in Wallets
               /\ ScannedOuts(w, n, pg, forced)
               /\ ScannedSends(w, n, pg, forced)
               /\ ScannedTo(w, n, pg, forced)
<1> DEFINE n == Scanned(w, pg, forced)
           made == Made(pg)
           gone == Gone(pg)
           whole == Whole(w, pg, forced)
           done == {p \in Pending(w) : w.sends[p].ins \subseteq gone}
           a == Added(w, pg)
           r == Reconciled(a, made, gone)
           s == IF forced \/ Covers(a, pg) THEN r ELSE a
           highest == Max({pg.to, IF forced THEN pg.from ELSE ScanFrom(w)})
           anchor == IF highest \in pg.from..pg.to THEN Upto(pg.ch, highest) ELSE s.anchor
           pay(p) == IF p \in done THEN [s.sends[p] EXCEPT !.confirmed = TRUE] ELSE s.sends[p]
           q == [p \in DOMAIN s.sends |-> pay(p)]
<1>0. /\ IsPage(pg) /\ pg.from \in Nat /\ pg.to \in Int /\ GoodChain(pg.ch)
      /\ pg.to <= Tip(pg.ch) /\ pg.from >= Birth
  BY DEF Fits, IsPage
<1>1. /\ a \in Wallets /\ a.scanned = w.scanned /\ a.anchor = w.anchor /\ a.sends = w.sends
      /\ DOMAIN a.outs = DOMAIN w.outs \cup made
      /\ \A c \in DOMAIN w.outs : a.outs[c].height = w.outs[c].height
      /\ \A c \in made \ DOMAIN w.outs : a.outs[c].height \in pg.from..pg.to
      /\ \A c \in DOMAIN a.outs : a.outs[c].spent <=> c \in gone \/ (c \in DOMAIN w.outs /\ w.outs[c].spent)
  BY <1>0, AddedIs DEF Made, Gone
<1> HIDE DEF a
<1>2. Covers(a, pg) <=> Covers(w, pg)
  <2>1. \A c \in made \ DOMAIN w.outs : pg.to >= a.outs[c].height
    BY <1>0, <1>1
  <2>2. (\A c \in DOMAIN a.outs : pg.to >= a.outs[c].height) <=> (\A c \in DOMAIN w.outs : pg.to >= w.outs[c].height)
    BY <1>1, <2>1
  <2> QED BY <1>1, <2>2 DEF Covers
<1>3. forced \/ Covers(a, pg) <=> whole
  BY <1>2 DEF Whole
<1>4. /\ r \in Wallets /\ r.scanned = w.scanned /\ r.anchor = w.anchor
      /\ DOMAIN r.outs = made
      /\ \A c \in made : r.outs[c].height = a.outs[c].height /\ (r.outs[c].spent <=> c \in gone)
      /\ DOMAIN r.sends = DOMAIN w.sends
      /\ \A p \in DOMAIN w.sends :
            /\ r.sends[p].ins = w.sends[p].ins
            /\ r.sends[p].failed <=> w.sends[p].failed
            /\ r.sends[p].confirmed <=> w.sends[p].confirmed /\ w.sends[p].ins \subseteq gone
            /\ r.sends[p].withheld <=>
                  \/ w.sends[p].withheld
                  \/ w.sends[p].confirmed /\ ~(w.sends[p].ins \subseteq gone)
  <2> HIDE DEF made, gone
  <2>1. (DOMAIN w.outs \cup made) \cap made = made
    OBVIOUS
  <2>2. /\ r \in Wallets /\ r.scanned = a.scanned /\ r.anchor = a.anchor
        /\ DOMAIN r.outs = DOMAIN a.outs \cap made
        /\ \A c \in DOMAIN r.outs :
              r.outs[c].height = a.outs[c].height /\ (r.outs[c].spent <=> c \in gone)
        /\ DOMAIN r.sends = DOMAIN a.sends
        /\ \A p \in DOMAIN a.sends :
              /\ r.sends[p].ins = a.sends[p].ins
              /\ r.sends[p].failed <=> a.sends[p].failed
              /\ r.sends[p].confirmed <=> 
                    /\ a.sends[p].confirmed
                    /\ ~(a.sends[p].confirmed /\ ~(a.sends[p].ins \subseteq gone))
              /\ r.sends[p].withheld <=>
                    \/ a.sends[p].withheld
                    \/ a.sends[p].confirmed /\ ~(a.sends[p].ins \subseteq gone)
    BY <1>1, ReconciledIs
  <2> HIDE DEF r
  <2> QED BY <1>1, <2>1, <2>2
<1> HIDE DEF r
<1>5. /\ s \in Wallets /\ s.scanned = w.scanned /\ s.anchor = w.anchor
      /\ DOMAIN s.outs = IF whole THEN made ELSE DOMAIN w.outs \cup made
      /\ DOMAIN s.sends = DOMAIN w.sends
  BY <1>1, <1>3, <1>4
<1>51. \A c \in DOMAIN s.outs :
          /\ s.outs[c].height = a.outs[c].height
          /\ s.outs[c].spent <=> (c \in gone \/ (~whole /\ c \in DOMAIN w.outs /\ w.outs[c].spent))
  <2> HIDE DEF whole, made, gone
  <2>1. CASE whole
    <3>1. s = r
      BY <1>3, <2>1
    <3> HIDE DEF s
    <3> QED BY <1>4, <2>1, <3>1
  <2>2. CASE ~whole
    <3>1. s = a
      BY <1>3, <2>2
    <3> HIDE DEF s
    <3> QED BY <1>1, <2>2, <3>1
  <2> QED BY <2>1, <2>2
<1>52. \A p \in DOMAIN w.sends :
          /\ s.sends[p].ins = w.sends[p].ins
          /\ s.sends[p].failed <=> w.sends[p].failed
          /\ s.sends[p].confirmed <=> w.sends[p].confirmed /\ ~UndoneBy(w, pg, forced, p)
          /\ s.sends[p].withheld <=> w.sends[p].withheld \/ UndoneBy(w, pg, forced, p)
  <2>1. CASE whole
    <3>1. s = r
      BY <1>3, <2>1
    <3>2. \A p : UndoneBy(w, pg, forced, p) <=>
                     w.sends[p].confirmed /\ ~(w.sends[p].ins \subseteq gone)
      BY <2>1 DEF UndoneBy
    <3> HIDE DEF s, gone
    <3> QED BY <1>4, <3>1, <3>2
  <2>2. CASE ~whole
    <3>1. s = a
      BY <1>3, <2>2
    <3>2. \A p : ~UndoneBy(w, pg, forced, p)
      BY <2>2 DEF UndoneBy
    <3> HIDE DEF s
    <3> QED BY <1>1, <3>1, <3>2
  <2> QED BY <2>1, <2>2
<1>6. n = [outs |-> s.outs, scanned |-> highest, anchor |-> anchor, sends |-> q]
  <2>1. n = [s EXCEPT !.sends = q, !.scanned = highest, !.anchor = anchor]
    BY DEF Scanned, r, a, Made, Gone
  <2> HIDE DEF n, s, q, highest, anchor
  <2>2. s \in Wallets
    BY <1>5
  <2>3. [s EXCEPT !.sends = q, !.scanned = highest, !.anchor = anchor] =
           [outs |-> s.outs, scanned |-> highest, anchor |-> anchor, sends |-> q]
    BY <2>2, WithScan
  <2> QED BY <2>1, <2>3
<1> HIDE DEF s, n, whole
<1>7. \A p \in DOMAIN w.sends :
         /\ pay(p) \in Payment /\ pay(p).ins = w.sends[p].ins
         /\ pay(p).failed <=> w.sends[p].failed
         /\ pay(p).confirmed <=> SettledBy(w, pg, p) \/ (w.sends[p].confirmed /\ ~UndoneBy(w, pg, forced, p))
         /\ pay(p).withheld <=> w.sends[p].withheld \/ UndoneBy(w, pg, forced, p)
  <2> SUFFICES ASSUME NEW p \in DOMAIN w.sends
               PROVE  /\ pay(p) \in Payment /\ pay(p).ins = w.sends[p].ins
                      /\ pay(p).failed <=> w.sends[p].failed
                      /\ pay(p).confirmed <=> SettledBy(w, pg, p) \/ (w.sends[p].confirmed /\ ~UndoneBy(w, pg, forced, p))
                      /\ pay(p).withheld <=> w.sends[p].withheld \/ UndoneBy(w, pg, forced, p)
    OBVIOUS
  <2>0. p \in done <=> SettledBy(w, pg, p)
    BY DEF SettledBy
  <2> HIDE DEF done
  <2>1. s.sends[p] \in Payment
    BY <1>5, WalletFields
  <2>2. CASE p \in done
    BY <1>52, <2>0, <2>1, <2>2, PaymentConfirmed
  <2>3. CASE p \notin done
    BY <1>52, <2>0, <2>1, <2>3
  <2> QED BY <2>2, <2>3
<1>8. w.scanned \in Nat /\ w.scanned >= Birth /\ ScanFrom(w) = w.scanned
  BY WalletFields DEF ScanFrom
<1>9. forced => pg.from <= pg.to
  BY DEF Fits
<1>10. highest = IF forced \/ pg.to >= w.scanned THEN pg.to ELSE w.scanned
  BY <1>0, <1>8, <1>9, MaxOfTwo
<1> HIDE DEF highest
<1>11. highest \in Nat /\ highest >= Birth
  BY <1>0, <1>8, <1>9, <1>10
<1>12. highest \in pg.from..pg.to <=> (pg.from <= pg.to /\ (forced \/ pg.to >= w.scanned))
  BY <1>0, <1>8, <1>9, <1>10
<1>13. anchor \in Seq(Blocks)
  <2>1. CASE highest \in pg.from..pg.to
    <3>1. highest <= Tip(pg.ch) /\ Tip(pg.ch) \in Int
      BY <1>0, <1>10, <1>12, <2>1, UptoTip
    <3> QED BY <1>0, <1>11, <2>1, <3>1, UptoHeight
  <2>2. CASE ~(highest \in pg.from..pg.to)
    BY <1>5, <2>2, WalletFields
  <2> QED BY <2>1, <2>2
<1>14. IF pg.from <= pg.to /\ (forced \/ pg.to >= w.scanned)
       THEN highest = pg.to /\ anchor = Upto(pg.ch, pg.to)
       ELSE highest = w.scanned /\ anchor = w.anchor
  <2>1. CASE pg.from <= pg.to /\ (forced \/ pg.to >= w.scanned)
    <3>1. highest = pg.to /\ anchor = Upto(pg.ch, highest) /\ ~(pg.to < pg.from)
      BY <1>0, <1>10, <1>12, <2>1
    <3> HIDE DEF anchor
    <3> QED BY <2>1, <3>1
  <2>2. CASE ~(pg.from <= pg.to /\ (forced \/ pg.to >= w.scanned))
    <3>1. anchor = s.anchor
      BY <1>12, <2>2
    <3>2. anchor = w.anchor
      BY <1>5, <3>1
    <3> HIDE DEF anchor
    <3>3. pg.to < pg.from => pg.to < w.scanned
      <4>1. pg.from = Birth \/ pg.from = w.scanned
        BY DEF Fits
      <4> QED BY <1>0, <1>8, <4>1
    <3>4. highest = w.scanned
      BY <1>0, <1>8, <1>9, <1>10, <2>2, <3>3
    <3> QED BY <2>2, <3>2, <3>4
  <2> QED BY <2>1, <2>2
<1> HIDE DEF anchor, pay
<1>15. q \in [DOMAIN w.sends -> Payment]
  BY <1>5, <1>7
<1>16. n \in Wallets
  <2>1. DOMAIN s.outs \in SUBSET Commits /\ s.outs \in [DOMAIN s.outs -> Output]
    BY <1>5, WalletFields
  <2>2. DOMAIN w.sends \in SUBSET Pays
    BY WalletFields
  <2> QED BY <1>6, <1>11, <1>13, <1>15, <2>1, <2>2, WalletOf
<1>17. /\ n.outs = s.outs /\ n.scanned = highest /\ n.anchor = anchor
       /\ DOMAIN n.sends = DOMAIN w.sends /\ \A p \in DOMAIN w.sends : n.sends[p] = pay(p)
  BY <1>5, <1>6
<1>18. ScannedOuts(w, n, pg, forced)
  <2>1. \A c \in DOMAIN n.outs :
           /\ \/ n.outs[c].height = w.outs[c].height /\ c \in DOMAIN w.outs
              \/ n.outs[c].height \in pg.from..pg.to
           /\ n.outs[c].spent <=> (c \in gone \/ (~whole /\ c \in DOMAIN w.outs /\ w.outs[c].spent))
    BY <1>1, <1>5, <1>51, <1>17
  <2>2. DOMAIN n.outs = IF whole THEN made ELSE DOMAIN w.outs \cup made
    BY <1>5, <1>17
  <2> QED BY <2>1, <2>2 DEF ScannedOuts, whole
<1>19. ScannedSends(w, n, pg, forced)
  BY <1>7, <1>17 DEF ScannedSends
<1>20. ScannedTo(w, n, pg, forced)
  BY <1>0, <1>14, <1>17 DEF ScannedTo
<1> QED BY <1>16, <1>18, <1>19, <1>20 DEF n

-----------------------------------------------------------------------------
(* What holds of every wallet, in memory, on disk and in the scan's copies *)

\* The inputs of a confirmed payment are known, and spent.
ConfirmedIsSpent(w) ==
    \A p \in DOMAIN w.sends : w.sends[p].confirmed /\ ~w.sends[p].failed =>
        \A c \in w.sends[p].ins : c \in DOMAIN w.outs /\ w.outs[c].spent

\* Two payments it stands by never spend one coin.
Disjoint(w) ==
    \A p, q \in DOMAIN w.sends :
        p # q /\ ~w.sends[p].failed /\ ~w.sends[q].failed =>
            w.sends[p].ins \cap w.sends[q].ins = {}

\* It knows every output of the chain it was scanned to.
KnowsAnchor(w) == Created(w.anchor) \subseteq DOMAIN w.outs

Sound(w) == w \in Wallets /\ ConfirmedIsSpent(w) /\ Disjoint(w) /\ KnowsAnchor(w)

\* No output lies above the scan position.
HeightsHold(w) == \A c \in DOMAIN w.outs : w.outs[c].height <= w.scanned

\* It knows no output but those of the chain it was scanned to, and takes for spent
\* what that chain has consumed and what its pending payments claim, no more.
KnowsOnlyAnchor(w) ==
    w.anchor # <<>> => \A c \in DOMAIN w.outs :
        /\ c \in Created(w.anchor)
        /\ c \in Consumed(w.anchor) => w.outs[c].spent
        /\ w.outs[c].spent => c \in Consumed(w.anchor) \/ c \in PendingInputs(w)

Exact(w) == HeightsHold(w) /\ KnowsOnlyAnchor(w)

\* A scan gives nothing up, forgets no payment, and withholds what it undoes.
Descends(old, new) ==
    /\ DOMAIN new.sends = DOMAIN old.sends
    /\ \A p \in DOMAIN old.sends :
          /\ new.sends[p].ins = old.sends[p].ins
          /\ new.sends[p].failed <=> old.sends[p].failed
          /\ old.sends[p].withheld => new.sends[p].withheld
          /\ old.sends[p].confirmed /\ ~new.sends[p].confirmed => new.sends[p].withheld

\* The inputs of pending payments.
LEMMA PendingInputsAre ==
    ASSUME NEW w, NEW c
    PROVE  c \in PendingInputs(w) <=>
              \E p \in DOMAIN w.sends :
                  ~w.sends[p].confirmed /\ ~w.sends[p].failed /\ c \in w.sends[p].ins
BY DEF PendingInputs, Pending

\* A page taken for the whole history is the chain from the birth height.
LEMMA WholePage ==
    ASSUME NEW w \in Wallets, NEW pg, NEW forced \in BOOLEAN, Birth \in Nat,
           Fits(w, pg, forced), Whole(w, pg, forced)
    PROVE  /\ pg.from <= pg.to /\ (forced \/ pg.to >= w.scanned)
           /\ Made(pg) = Created(Upto(pg.ch, pg.to)) /\ Gone(pg) = Consumed(Upto(pg.ch, pg.to))
           /\ Gone(pg) \subseteq Made(pg)
<1>1. pg.from \in Nat /\ pg.to \in Int /\ pg.from >= Birth /\ GoodChain(pg.ch) /\ pg.to <= Tip(pg.ch)
  BY DEF Fits, IsPage
<1>2. pg.from = Birth /\ pg.from <= pg.to /\ (forced \/ pg.to >= w.scanned)
  <2>1. CASE forced
    BY <2>1 DEF Fits
  <2>2. CASE ~forced
    BY <1>1, <2>2 DEF Whole, Covers, IsEmptyPage
  <2> QED BY <2>1, <2>2
<1>3. pg.to \in Nat
  BY <1>1, <1>2
<1>4. BlocksOf(pg) = SubSeq(pg.ch, Birth + 1, pg.to + 1)
  BY <1>2 DEF BlocksOf
<1> QED BY <1>1, <1>2, <1>3, <1>4, FromBirth DEF Made, Gone

\* Any page completes the chain the wallet knows, up to the last block of the page.
LEMMA PageCompletes ==
    ASSUME NEW w \in Wallets, NEW pg, NEW forced \in BOOLEAN, Birth \in Nat,
           Fits(w, pg, forced), pg.from <= pg.to
    PROVE  /\ Created(Upto(pg.ch, pg.to)) \subseteq Created(w.anchor) \cup Made(pg)
           /\ Gone(pg) \subseteq Created(Upto(pg.ch, pg.to))
           /\ pg.from # Birth =>
                 /\ w.anchor # <<>> /\ pg.from = w.scanned
                 /\ Created(Upto(pg.ch, pg.to)) = Created(w.anchor) \cup Made(pg)
                 /\ Consumed(Upto(pg.ch, pg.to)) = Consumed(w.anchor) \cup Gone(pg)
                 /\ Consumed(w.anchor) \subseteq Created(w.anchor)
<1>1. pg.from \in Nat /\ pg.to \in Nat /\ pg.from >= Birth /\ GoodChain(pg.ch) /\ pg.to <= Tip(pg.ch)
  BY DEF Fits, IsPage
<1>2. CASE pg.from = Birth
  <2>1. BlocksOf(pg) = SubSeq(pg.ch, Birth + 1, pg.to + 1)
    BY <1>2 DEF BlocksOf
  <2>2. Made(pg) = Created(Upto(pg.ch, pg.to)) /\ Gone(pg) \subseteq Made(pg)
    BY <1>1, <2>1, FromBirth DEF Made, Gone
  <2> QED BY <1>2, <2>2
<1>3. CASE pg.from # Birth
  <2>1. pg.from = w.scanned /\ w.anchor = Upto(pg.ch, pg.from)
    BY <1>3 DEF Fits
  <2>2. BlocksOf(pg) = SubSeq(pg.ch, pg.from + 1, pg.to + 1)
    BY DEF BlocksOf
  <2>3. /\ Created(Upto(pg.ch, pg.to)) = Created(Upto(pg.ch, pg.from)) \cup Made(pg)
        /\ Consumed(Upto(pg.ch, pg.to)) = Consumed(Upto(pg.ch, pg.from)) \cup Gone(pg)
        /\ Gone(pg) \subseteq Created(Upto(pg.ch, pg.to))
    BY <1>1, <2>2, Onwards DEF Made, Gone
  <2>4. pg.from <= Tip(pg.ch)
    BY <1>1, UptoTip
  <2>5. Upto(pg.ch, pg.from) # <<>> /\ Consumed(Upto(pg.ch, pg.from)) \subseteq Created(Upto(pg.ch, pg.from))
    BY <1>1, <2>4, UptoHeight
  <2> QED BY <2>1, <2>3, <2>5
<1> QED BY <1>2, <1>3

\* Scanning keeps a wallet sound.
LEMMA ScannedSound ==
    ASSUME NEW w, Sound(w), NEW pg, NEW forced \in BOOLEAN, Birth \in Nat, Fits(w, pg, forced)
    PROVE  Sound(Scanned(w, pg, forced))
<1> DEFINE n == Scanned(w, pg, forced)
           whole == Whole(w, pg, forced)
<1>1. w \in Wallets /\ ConfirmedIsSpent(w) /\ Disjoint(w) /\ KnowsAnchor(w)
  BY DEF Sound
<1>2. pg.from \in Nat /\ pg.to \in Int /\ IsPage(pg)
  BY DEF Fits, IsPage
<1>2a. n \in Wallets /\ ScannedOuts(w, n, pg, forced) /\ ScannedSends(w, n, pg, forced) /\ ScannedTo(w, n, pg, forced)
  BY <1>1, ScannedIs
<1> HIDE DEF n
<1>3. /\ n \in Wallets
      /\ DOMAIN n.outs = IF whole THEN Made(pg) ELSE DOMAIN w.outs \cup Made(pg)
      /\ \A c \in DOMAIN n.outs :
            n.outs[c].spent <=> (c \in Gone(pg) \/ (~whole /\ c \in DOMAIN w.outs /\ w.outs[c].spent))
      /\ DOMAIN n.sends = DOMAIN w.sends
  BY <1>2a DEF ScannedOuts, ScannedSends
<1>4. \A p \in DOMAIN w.sends :
         /\ n.sends[p].ins = w.sends[p].ins
         /\ n.sends[p].failed <=> w.sends[p].failed
         /\ n.sends[p].confirmed <=> (SettledBy(w, pg, p) \/ (w.sends[p].confirmed /\ ~UndoneBy(w, pg, forced, p)))
  BY <1>2a DEF ScannedSends
<1>5. IF pg.from <= pg.to /\ (forced \/ pg.to >= w.scanned)
      THEN n.scanned = pg.to /\ n.anchor = Upto(pg.ch, pg.to)
      ELSE n.scanned = w.scanned /\ n.anchor = w.anchor
  BY <1>2a DEF ScannedTo
<1> HIDE DEF whole
<1>6. whole => /\ pg.from <= pg.to /\ (forced \/ pg.to >= w.scanned)
               /\ Made(pg) = Created(Upto(pg.ch, pg.to)) /\ Gone(pg) \subseteq Made(pg)
  BY <1>1, WholePage DEF whole
<1>7. pg.to < pg.from => Gone(pg) = {}
  BY <1>2, PageBlocks DEF Gone, IsEmptyPage
<1>8. pg.from <= pg.to => /\ Created(Upto(pg.ch, pg.to)) \subseteq Created(w.anchor) \cup Made(pg)
                          /\ Gone(pg) \subseteq Created(Upto(pg.ch, pg.to))
  BY <1>1, PageCompletes
<1>9. pg.from <= pg.to \/ pg.to < pg.from
  BY <1>2
<1>10. Gone(pg) \subseteq DOMAIN n.outs
  BY <1>1, <1>3, <1>6, <1>7, <1>8, <1>9 DEF KnowsAnchor
<1>11. ConfirmedIsSpent(n)
  <2> SUFFICES ASSUME NEW p \in DOMAIN w.sends, n.sends[p].confirmed, ~n.sends[p].failed,
                      NEW c \in w.sends[p].ins
               PROVE  c \in DOMAIN n.outs /\ n.outs[c].spent
    BY <1>3, <1>4 DEF ConfirmedIsSpent
  <2>1. CASE c \in Gone(pg)
    BY <1>3, <1>10, <2>1
  <2>2. CASE c \notin Gone(pg)
    <3>1. ~SettledBy(w, pg, p)
      BY <2>2 DEF SettledBy
    <3>2. w.sends[p].confirmed /\ ~UndoneBy(w, pg, forced, p)
      BY <1>4, <3>1
    <3>3. ~whole
      BY <2>2, <3>2 DEF UndoneBy, whole
    <3>4. c \in DOMAIN w.outs /\ w.outs[c].spent
      BY <1>1, <1>4, <3>2 DEF ConfirmedIsSpent
    <3> QED BY <1>3, <3>3, <3>4
  <2> QED BY <2>1, <2>2
<1>12. Disjoint(n)
  BY <1>1, <1>3, <1>4 DEF Disjoint
<1>13. KnowsAnchor(n)
  <2>1. CASE pg.from <= pg.to /\ (forced \/ pg.to >= w.scanned)
    <3>1. n.anchor = Upto(pg.ch, pg.to)
      BY <1>5, <2>1
    <3> QED BY <1>1, <1>3, <1>6, <1>8, <2>1, <3>1 DEF KnowsAnchor
  <2>2. CASE ~(pg.from <= pg.to /\ (forced \/ pg.to >= w.scanned))
    <3>1. n.anchor = w.anchor /\ ~whole
      BY <1>5, <1>6, <1>9, <2>2
    <3> QED BY <1>1, <1>3, <3>1 DEF KnowsAnchor
  <2> QED BY <2>1, <2>2
<1> QED BY <1>3, <1>11, <1>12, <1>13 DEF Sound, n

\* What a scan does to the payments.
LEMMA ScannedDescends ==
    ASSUME NEW w \in Wallets, NEW pg, NEW forced \in BOOLEAN, Birth \in Nat, Fits(w, pg, forced)
    PROVE  Descends(w, Scanned(w, pg, forced))
<1> DEFINE n == Scanned(w, pg, forced)
<1>1. ScannedSends(w, n, pg, forced)
  BY ScannedIs
<1> HIDE DEF n
<1>2. Descends(w, n)
  BY <1>1 DEF Descends, ScannedSends, UndoneBy, SettledBy, Pending
<1> QED BY <1>2 DEF n

\* A page that reaches the scan position leaves the wallet exactly with the chain up
\* to its last block, unless an output is kept at a height above it.
LEMMA ScannedExact ==
    ASSUME NEW w, Sound(w), Exact(w), NEW pg, NEW forced \in BOOLEAN, Birth \in Nat,
           Fits(w, pg, forced), pg.from <= pg.to, forced \/ pg.to >= w.scanned,
           HeightsHold(Scanned(w, pg, forced))
    PROVE  Exact(Scanned(w, pg, forced))
<1> DEFINE n == Scanned(w, pg, forced)
           whole == Whole(w, pg, forced)
           all == Upto(pg.ch, pg.to)
<1>1. w \in Wallets /\ HeightsHold(w) /\ KnowsOnlyAnchor(w)
  BY DEF Sound, Exact
<1>1a. ScannedOuts(w, n, pg, forced) /\ ScannedSends(w, n, pg, forced) /\ ScannedTo(w, n, pg, forced)
  BY <1>1, ScannedIs
<1>4. HeightsHold(n)
  OBVIOUS
<1> HIDE DEF n, all
<1>2. /\ DOMAIN n.outs = IF whole THEN Made(pg) ELSE DOMAIN w.outs \cup Made(pg)
      /\ \A c \in DOMAIN n.outs :
            n.outs[c].spent <=> (c \in Gone(pg) \/ (~whole /\ c \in DOMAIN w.outs /\ w.outs[c].spent))
      /\ DOMAIN n.sends = DOMAIN w.sends
      /\ n.anchor = all
  BY <1>1a DEF ScannedOuts, ScannedSends, ScannedTo, all
<1>3. \A p \in DOMAIN w.sends :
         /\ n.sends[p].ins = w.sends[p].ins
         /\ n.sends[p].failed <=> w.sends[p].failed
         /\ n.sends[p].confirmed <=> (SettledBy(w, pg, p) \/ (w.sends[p].confirmed /\ ~UndoneBy(w, pg, forced, p)))
  BY <1>1a DEF ScannedSends
<1>5. CASE whole
  <2>1. Made(pg) = Created(all) /\ Gone(pg) = Consumed(all)
    BY <1>1, <1>5, WholePage DEF all
  <2>2. KnowsOnlyAnchor(n)
    <3> HIDE DEF whole
    <3> QED BY <1>2, <1>5, <2>1 DEF KnowsOnlyAnchor
  <2> QED BY <1>4, <2>2 DEF Exact, n
<1>6. CASE ~whole
  <2>1. pg.from # Birth
    <3> SUFFICES ASSUME pg.from = Birth PROVE FALSE
      OBVIOUS
    <3>1. pg.from \in Nat /\ pg.to \in Int /\ w.scanned \in Nat
      BY <1>1, WalletFields DEF Fits, IsPage
    <3>2. ~forced /\ pg.to >= w.scanned
      BY <1>6 DEF Whole
    <3>3. \A c \in DOMAIN w.outs : w.outs[c].height \in Nat /\ w.outs[c].height <= w.scanned
      BY <1>1, WalletFields DEF HeightsHold
    <3>4. \A c \in DOMAIN w.outs : pg.to >= w.outs[c].height
      BY <3>1, <3>2, <3>3
    <3>5. Covers(w, pg)
      BY <3>1, <3>2, <3>4 DEF Covers, IsEmptyPage
    <3> QED BY <1>6, <3>5 DEF Whole
  <2> HIDE DEF whole
  <2>2. /\ w.anchor # <<>>
        /\ Created(all) = Created(w.anchor) \cup Made(pg)
        /\ Consumed(all) = Consumed(w.anchor) \cup Gone(pg)
        /\ Consumed(w.anchor) \subseteq DOMAIN w.outs
    BY <1>1, <2>1, PageCompletes DEF all, Sound, KnowsAnchor
  <2>3. \A c \in DOMAIN w.outs :
           /\ c \in Created(w.anchor)
           /\ c \in Consumed(w.anchor) => w.outs[c].spent
           /\ w.outs[c].spent => c \in Consumed(w.anchor) \/ c \in PendingInputs(w)
    BY <1>1, <2>2 DEF KnowsOnlyAnchor
  <2>4. Gone(pg) \subseteq Created(all)
    BY <1>1, PageCompletes DEF all
  <2>5. \A c \in PendingInputs(w) : c \in Gone(pg) \/ c \in PendingInputs(n)
    <3> SUFFICES ASSUME NEW c \in PendingInputs(w), c \notin Gone(pg) PROVE c \in PendingInputs(n)
      OBVIOUS
    <3>1. PICK p \in DOMAIN w.sends : ~w.sends[p].confirmed /\ ~w.sends[p].failed /\ c \in w.sends[p].ins
      BY PendingInputsAre
    <3>2. ~SettledBy(w, pg, p)
      BY <3>1 DEF SettledBy
    <3>3. p \in DOMAIN n.sends /\ ~n.sends[p].confirmed /\ ~n.sends[p].failed /\ c \in n.sends[p].ins
      BY <1>2, <1>3, <3>1, <3>2
    <3> QED BY <3>3, PendingInputsAre
  <2>6. \A c \in DOMAIN n.outs :
           /\ c \in Created(all)
           /\ c \in Consumed(all) => n.outs[c].spent
           /\ n.outs[c].spent => c \in Consumed(all) \/ c \in PendingInputs(n)
    <3> SUFFICES ASSUME NEW c \in DOMAIN n.outs
                 PROVE  /\ c \in Created(all)
                        /\ c \in Consumed(all) => n.outs[c].spent
                        /\ n.outs[c].spent => c \in Consumed(all) \/ c \in PendingInputs(n)
      OBVIOUS
    <3>1. c \in Created(all)
      BY <1>2, <1>6, <2>2, <2>3
    <3>2. ASSUME c \in Consumed(all) PROVE n.outs[c].spent
      <4>1. CASE c \in Gone(pg)
        BY <1>2, <4>1
      <4>2. CASE c \notin Gone(pg)
        <5>1. c \in Consumed(w.anchor)
          BY <2>2, <3>2, <4>2
        <5>2. c \in DOMAIN w.outs
          BY <2>2, <5>1
        <5> QED BY <1>2, <1>6, <2>3, <5>1, <5>2
      <4> QED BY <4>1, <4>2
    <3>3. ASSUME n.outs[c].spent PROVE c \in Consumed(all) \/ c \in PendingInputs(n)
      BY <1>2, <1>6, <2>2, <2>3, <2>5, <3>3
    <3> QED BY <3>1, <3>2, <3>3
  <2> QED BY <1>2, <1>4, <2>6 DEF Exact, KnowsOnlyAnchor, n
<1> QED BY <1>5, <1>6

-----------------------------------------------------------------------------
(* Signing and giving up *)

\* Signed (record_send_at): the inputs are spent, and the payment is on record.
SignedAs(w, n, p, ins) ==
    /\ n.scanned = w.scanned /\ n.anchor = w.anchor
    /\ DOMAIN n.outs = DOMAIN w.outs
    /\ \A c \in DOMAIN w.outs :
          n.outs[c].height = w.outs[c].height /\ (n.outs[c].spent <=> (w.outs[c].spent \/ c \in ins))
    /\ DOMAIN n.sends = DOMAIN w.sends \cup {p}
    /\ n.sends[p].ins = ins
    /\ ~n.sends[p].confirmed /\ ~n.sends[p].withheld /\ ~n.sends[p].failed
    /\ \A q \in DOMAIN w.sends : n.sends[q] = w.sends[q]

\* What record_send_at leaves, field by field.
LEMMA SignedIs ==
    ASSUME NEW w \in Wallets, NEW p \in Pays, p \notin DOMAIN w.sends, NEW ins \in SUBSET Commits
    PROVE  Signed(w, p, ins) \in Wallets /\ SignedAs(w, Signed(w, p, ins), p, ins)
<1> DEFINE n == Signed(w, p, ins)
           out(c) == [w.outs[c] EXCEPT !.spent = @ \/ c \in ins]
           o == [c \in DOMAIN w.outs |-> out(c)]
           new == [ins |-> ins, confirmed |-> FALSE, withheld |-> FALSE, failed |-> FALSE]
           pay(q) == IF q = p THEN new ELSE w.sends[q]
           s == [q \in DOMAIN w.sends \cup {p} |-> pay(q)]
<1>1. n = [outs |-> o, scanned |-> w.scanned, anchor |-> w.anchor, sends |-> s]
  <2>1. n = [w EXCEPT !.outs = o, !.sends = s]
    BY DEF Signed
  <2> HIDE DEF n, o, s
  <2> QED BY <2>1, WithOutsAndSends
<1>2. \A c \in DOMAIN w.outs :
         /\ out(c) \in Output /\ out(c).height = w.outs[c].height
         /\ out(c).spent <=> (w.outs[c].spent \/ c \in ins)
  <2> SUFFICES ASSUME NEW c \in DOMAIN w.outs
               PROVE  /\ out(c) \in Output /\ out(c).height = w.outs[c].height
                      /\ out(c).spent <=> (w.outs[c].spent \/ c \in ins)
    OBVIOUS
  <2>1. w.outs[c] \in Output /\ (w.outs[c].spent \/ c \in ins) \in BOOLEAN
    BY WalletFields
  <2>2. out(c) = [w.outs[c] EXCEPT !.spent = (w.outs[c].spent \/ c \in ins)]
    OBVIOUS
  <2> HIDE DEF out
  <2> QED BY <2>1, <2>2, OutputChanges
<1>3. /\ new \in Payment /\ new.ins = ins
      /\ ~new.confirmed /\ ~new.withheld /\ ~new.failed
  BY DEF Payment
<1> HIDE DEF out, new, n
<1>4. \A q \in DOMAIN w.sends \cup {p} : pay(q) \in Payment
  BY <1>3, WalletFields
<1>5. /\ pay(p) = new
      /\ \A q \in DOMAIN w.sends : pay(q) = w.sends[q]
  OBVIOUS
<1> HIDE DEF pay
<1>6. n \in Wallets
  <2>1. DOMAIN w.outs \in SUBSET Commits /\ DOMAIN w.sends \cup {p} \in SUBSET Pays
    BY WalletFields
  <2>2. o \in [DOMAIN w.outs -> Output] /\ s \in [DOMAIN w.sends \cup {p} -> Payment]
    BY <1>2, <1>4
  <2> QED BY <1>1, <2>1, <2>2, WalletFields, WalletOf
<1>7. /\ n.scanned = w.scanned /\ n.anchor = w.anchor
      /\ DOMAIN n.outs = DOMAIN w.outs /\ \A c \in DOMAIN w.outs : n.outs[c] = out(c)
      /\ DOMAIN n.sends = DOMAIN w.sends \cup {p}
      /\ \A q \in DOMAIN w.sends \cup {p} : n.sends[q] = pay(q)
  BY <1>1
<1>8. n.sends[p] = new /\ \A q \in DOMAIN w.sends : n.sends[q] = w.sends[q]
  BY <1>5, <1>7
<1>9. \A c \in DOMAIN w.outs :
         n.outs[c].height = w.outs[c].height /\ (n.outs[c].spent <=> (w.outs[c].spent \/ c \in ins))
  BY <1>2, <1>7
<1>10. SignedAs(w, n, p, ins)
  BY <1>3, <1>7, <1>8, <1>9 DEF SignedAs
<1> QED BY <1>6, <1>10 DEF n

\* Signing with selectable coins keeps a wallet sound, and exact.
LEMMA SignedSound ==
    ASSUME NEW w, Sound(w), NEW p \in Pays, p \notin DOMAIN w.sends, NEW ins \in SUBSET Selectable(w)
    PROVE  /\ Sound(Signed(w, p, ins)) /\ SignedAs(w, Signed(w, p, ins), p, ins)
           /\ Exact(w) => Exact(Signed(w, p, ins))
<1> DEFINE n == Signed(w, p, ins)
<1>1. w \in Wallets /\ ConfirmedIsSpent(w) /\ Disjoint(w) /\ KnowsAnchor(w)
  BY DEF Sound
<1>2. \A c \in ins : c \in DOMAIN w.outs /\ ~w.outs[c].spent /\ c \notin PendingInputs(w)
  BY DEF Selectable
<1>3. ins \in SUBSET Commits
  BY <1>1, <1>2, WalletFields
<1>4. n \in Wallets /\ SignedAs(w, n, p, ins)
  BY <1>1, <1>3, SignedIs
<1> HIDE DEF n
<1>5. /\ n.scanned = w.scanned /\ n.anchor = w.anchor
      /\ DOMAIN n.outs = DOMAIN w.outs
      /\ \A c \in DOMAIN w.outs :
            n.outs[c].height = w.outs[c].height /\ (n.outs[c].spent <=> (w.outs[c].spent \/ c \in ins))
  BY <1>4 DEF SignedAs
<1>6. /\ DOMAIN n.sends = DOMAIN w.sends \cup {p}
      /\ n.sends[p].ins = ins
      /\ ~n.sends[p].confirmed /\ ~n.sends[p].withheld /\ ~n.sends[p].failed
      /\ \A q \in DOMAIN w.sends : n.sends[q] = w.sends[q]
  BY <1>4 DEF SignedAs
<1>7. ConfirmedIsSpent(n)
  <2> SUFFICES ASSUME NEW q \in DOMAIN n.sends, n.sends[q].confirmed, ~n.sends[q].failed,
                      NEW c \in n.sends[q].ins
               PROVE  c \in DOMAIN n.outs /\ n.outs[c].spent
    BY DEF ConfirmedIsSpent
  <2>1. q \in DOMAIN w.sends /\ n.sends[q] = w.sends[q]
    BY <1>6
  <2>2. c \in DOMAIN w.outs /\ w.outs[c].spent
    BY <1>1, <2>1 DEF ConfirmedIsSpent
  <2> QED BY <1>5, <2>2
<1>8. \A q \in DOMAIN w.sends : ~w.sends[q].failed => w.sends[q].ins \cap ins = {}
  <2> SUFFICES ASSUME NEW q \in DOMAIN w.sends, ~w.sends[q].failed, NEW c \in ins, c \in w.sends[q].ins
               PROVE  FALSE
    OBVIOUS
  <2>1. CASE w.sends[q].confirmed
    BY <1>1, <1>2, <2>1 DEF ConfirmedIsSpent
  <2>2. CASE ~w.sends[q].confirmed
    <3>1. c \in PendingInputs(w)
      BY <2>2, PendingInputsAre
    <3> QED BY <1>2, <3>1
  <2> QED BY <2>1, <2>2
<1>9. Disjoint(n)
  <2> SUFFICES ASSUME NEW q \in DOMAIN n.sends, NEW r \in DOMAIN n.sends, q # r,
                      ~n.sends[q].failed, ~n.sends[r].failed
               PROVE  n.sends[q].ins \cap n.sends[r].ins = {}
    BY DEF Disjoint
  <2>1. CASE q = p
    <3>1. r \in DOMAIN w.sends /\ n.sends[r] = w.sends[r]
      BY <1>6, <2>1
    <3> QED BY <1>6, <1>8, <2>1, <3>1
  <2>2. CASE r = p
    <3>1. q \in DOMAIN w.sends /\ n.sends[q] = w.sends[q]
      BY <1>6, <2>2
    <3> QED BY <1>6, <1>8, <2>2, <3>1
  <2>3. CASE q # p /\ r # p
    <3>1. q \in DOMAIN w.sends /\ r \in DOMAIN w.sends /\ n.sends[q] = w.sends[q] /\ n.sends[r] = w.sends[r]
      BY <1>6, <2>3
    <3> QED BY <1>1, <3>1 DEF Disjoint
  <2> QED BY <2>1, <2>2, <2>3
<1>10. KnowsAnchor(n)
  BY <1>1, <1>5 DEF KnowsAnchor
<1>11. Sound(n)
  BY <1>4, <1>7, <1>9, <1>10 DEF Sound
<1>12. ASSUME Exact(w) PROVE Exact(n)
  <2>1. HeightsHold(n)
    BY <1>5, <1>12 DEF Exact, HeightsHold
  <2>2. \A c \in PendingInputs(w) \cup ins : c \in PendingInputs(n)
    <3> SUFFICES ASSUME NEW c \in PendingInputs(w) \cup ins PROVE c \in PendingInputs(n)
      OBVIOUS
    <3>1. CASE c \in ins
      BY <1>6, <3>1, PendingInputsAre
    <3>2. CASE c \in PendingInputs(w)
      <4>1. PICK q \in DOMAIN w.sends : ~w.sends[q].confirmed /\ ~w.sends[q].failed /\ c \in w.sends[q].ins
        BY <3>2, PendingInputsAre
      <4>2. q \in DOMAIN n.sends /\ n.sends[q] = w.sends[q]
        BY <1>6
      <4> QED BY <4>1, <4>2, PendingInputsAre
    <3> QED BY <3>1, <3>2
  <2>3. KnowsOnlyAnchor(n)
    BY <1>5, <1>12, <2>2 DEF Exact, KnowsOnlyAnchor
  <2> QED BY <2>1, <2>3 DEF Exact
<1> QED BY <1>4, <1>11, <1>12 DEF n

\* What release_sends frees: the inputs the chain still has and nobody else claims.
Freed(w, P) ==
    {c \in Utxo(chain) : /\ \E p \in P : c \in w.sends[p].ins
                         /\ ~\E q \in Pending(w) \ P : c \in w.sends[q].ins}

ReleasedAs(w, n, P) ==
    /\ n.scanned = w.scanned /\ n.anchor = w.anchor
    /\ DOMAIN n.outs = DOMAIN w.outs
    /\ \A c \in DOMAIN w.outs :
          n.outs[c].height = w.outs[c].height /\ (n.outs[c].spent <=> (w.outs[c].spent /\ c \notin Freed(w, P)))
    /\ DOMAIN n.sends = DOMAIN w.sends
    /\ \A q \in DOMAIN w.sends :
          /\ n.sends[q].ins = w.sends[q].ins
          /\ n.sends[q].confirmed <=> w.sends[q].confirmed
          /\ n.sends[q].failed <=> (w.sends[q].failed \/ q \in P)
          /\ n.sends[q].withheld <=> (w.sends[q].withheld \/ q \in P)

\* What release_sends leaves, field by field.
LEMMA ReleasedIs ==
    ASSUME NEW w \in Wallets, NEW P \in SUBSET Pending(w)
    PROVE  Released(w, P) \in Wallets /\ ReleasedAs(w, Released(w, P), P)
<1> DEFINE pay(p) == IF p \in P THEN [w.sends[p] EXCEPT !.failed = TRUE, !.withheld = TRUE] ELSE w.sends[p]
           s == [p \in DOMAIN w.sends |-> pay(p)]
           g == [w EXCEPT !.sends = s]
           freed == ((UNION {w.sends[p].ins : p \in P}) \cap Utxo(chain)) \ PendingInputs(g)
           out(c) == [w.outs[c] EXCEPT !.spent = @ /\ c \notin freed]
           o == [c \in DOMAIN w.outs |-> out(c)]
           n == Released(w, P)
<1>1. \A q \in DOMAIN w.sends :
         /\ pay(q) \in Payment
         /\ pay(q).ins = w.sends[q].ins
         /\ pay(q).confirmed <=> w.sends[q].confirmed
         /\ pay(q).failed <=> (w.sends[q].failed \/ q \in P)
         /\ pay(q).withheld <=> (w.sends[q].withheld \/ q \in P)
  <2> SUFFICES ASSUME NEW q \in DOMAIN w.sends
               PROVE  /\ pay(q) \in Payment
                      /\ pay(q).ins = w.sends[q].ins
                      /\ pay(q).confirmed <=> w.sends[q].confirmed
                      /\ pay(q).failed <=> (w.sends[q].failed \/ q \in P)
                      /\ pay(q).withheld <=> (w.sends[q].withheld \/ q \in P)
    OBVIOUS
  <2>1. w.sends[q] \in Payment
    BY WalletFields
  <2>2. CASE q \in P
    BY <2>1, <2>2, PaymentGivenUp
  <2>3. CASE q \notin P
    BY <2>1, <2>3
  <2> QED BY <2>2, <2>3
<1>2. g = [outs |-> w.outs, scanned |-> w.scanned, anchor |-> w.anchor, sends |-> s]
  <2> HIDE DEF s
  <2> QED BY DEF Wallets
<1>3. n = [g EXCEPT !.outs = o]
  BY DEF Released
<1> HIDE DEF n, g, pay
<1>4. g.sends = s /\ g.outs = w.outs /\ g.scanned = w.scanned /\ g.anchor = w.anchor
  BY <1>2
<1>5. g \in Wallets
  <2>1. s \in [DOMAIN w.sends -> Payment] /\ DOMAIN w.sends \in SUBSET Pays
    BY <1>1, WalletFields
  <2>2. DOMAIN w.outs \in SUBSET Commits /\ w.outs \in [DOMAIN w.outs -> Output]
    BY WalletFields
  <2> QED BY <1>2, <2>1, <2>2, WalletFields, WalletOf
<1>6. \A c : c \in freed <=> c \in Freed(w, P)
  <2>1. \A c : c \in PendingInputs(g) <=> \E q \in Pending(w) \ P : c \in w.sends[q].ins
    <3>1. \A q \in DOMAIN w.sends : g.sends[q] = pay(q)
      BY <1>4
    <3>2. DOMAIN g.sends = DOMAIN w.sends
      BY <1>4
    <3>3. \A q \in DOMAIN w.sends :
             (~g.sends[q].confirmed /\ ~g.sends[q].failed) <=> q \in Pending(w) \ P
      BY <1>1, <3>1 DEF Pending
    <3>4. \A q \in DOMAIN w.sends : g.sends[q].ins = w.sends[q].ins
      BY <1>1, <3>1
    <3>5. \A q \in Pending(w) : q \in DOMAIN w.sends
      BY DEF Pending
    <3> QED BY <3>2, <3>3, <3>4, <3>5, PendingInputsAre
  <2>2. \A c : c \in UNION {w.sends[p].ins : p \in P} <=> \E p \in P : c \in w.sends[p].ins
    OBVIOUS
  <2> SUFFICES ASSUME NEW c PROVE c \in freed <=> c \in Freed(w, P)
    OBVIOUS
  <2>3. c \in freed <=> /\ \E p \in P : c \in w.sends[p].ins
                        /\ c \in Utxo(chain)
                        /\ ~(c \in PendingInputs(g))
    <3> DEFINE U == UNION {w.sends[p].ins : p \in P}
               I == PendingInputs(g)
    <3>1. c \in U <=> \E p \in P : c \in w.sends[p].ins
      BY <2>2
    <3>2. freed = (U \cap Utxo(chain)) \ I
      OBVIOUS
    <3> HIDE DEF U, I, freed
    <3>3. c \in freed <=> c \in U /\ c \in Utxo(chain) /\ ~(c \in I)
      BY <3>2
    <3> QED BY <3>1, <3>3 DEF I
  <2>4. c \in Freed(w, P) <=> /\ c \in Utxo(chain)
                              /\ \E p \in P : c \in w.sends[p].ins
                              /\ ~\E q \in Pending(w) \ P : c \in w.sends[q].ins
    BY DEF Freed
  <2> HIDE DEF freed
  <2> QED BY <2>1, <2>3, <2>4
<1> HIDE DEF freed
<1>7. \A c \in DOMAIN w.outs :
         /\ out(c) \in Output /\ out(c).height = w.outs[c].height
         /\ out(c).spent <=> (w.outs[c].spent /\ c \notin freed)
  <2> SUFFICES ASSUME NEW c \in DOMAIN w.outs
               PROVE  /\ out(c) \in Output /\ out(c).height = w.outs[c].height
                      /\ out(c).spent <=> (w.outs[c].spent /\ c \notin freed)
    OBVIOUS
  <2>1. w.outs[c] \in Output /\ (w.outs[c].spent /\ c \notin freed) \in BOOLEAN
    BY WalletFields
  <2>2. out(c) = [w.outs[c] EXCEPT !.spent = (w.outs[c].spent /\ c \notin freed)]
    OBVIOUS
  <2> HIDE DEF out
  <2> QED BY <2>1, <2>2, OutputChanges
<1> HIDE DEF out
<1>8. n = [outs |-> o, scanned |-> w.scanned, anchor |-> w.anchor, sends |-> s]
  <2> HIDE DEF o, s
  <2> QED BY <1>3, <1>4, <1>5, WithOuts
<1>9. n \in Wallets
  <2>1. s \in [DOMAIN w.sends -> Payment] /\ DOMAIN w.sends \in SUBSET Pays
    BY <1>1, WalletFields
  <2>2. DOMAIN w.outs \in SUBSET Commits /\ o \in [DOMAIN w.outs -> Output]
    BY <1>7, WalletFields
  <2> QED BY <1>8, <2>1, <2>2, WalletFields, WalletOf
<1>10. /\ n.scanned = w.scanned /\ n.anchor = w.anchor
       /\ DOMAIN n.outs = DOMAIN w.outs /\ \A c \in DOMAIN w.outs : n.outs[c] = out(c)
       /\ DOMAIN n.sends = DOMAIN w.sends /\ \A q \in DOMAIN w.sends : n.sends[q] = pay(q)
  BY <1>8
<1>11. ReleasedAs(w, n, P)
  BY <1>1, <1>6, <1>7, <1>10 DEF ReleasedAs
<1> QED BY <1>9, <1>11 DEF n

\* Giving payments up keeps a wallet sound, and, on the wallet's own chain, exact.
LEMMA ReleasedSound ==
    ASSUME NEW w, Sound(w), NEW P \in SUBSET Pending(w)
    PROVE  /\ Sound(Released(w, P)) /\ ReleasedAs(w, Released(w, P), P)
           /\ Exact(w) /\ (P # {} /\ w.anchor # <<>> => w.anchor = chain) => Exact(Released(w, P))
<1> DEFINE n == Released(w, P)
<1>1. w \in Wallets /\ ConfirmedIsSpent(w) /\ Disjoint(w) /\ KnowsAnchor(w)
  BY DEF Sound
<1>2. n \in Wallets /\ ReleasedAs(w, n, P)
  BY <1>1, ReleasedIs
<1> HIDE DEF n
<1>3. /\ n.scanned = w.scanned /\ n.anchor = w.anchor
      /\ DOMAIN n.outs = DOMAIN w.outs
      /\ \A c \in DOMAIN w.outs :
            n.outs[c].height = w.outs[c].height /\ (n.outs[c].spent <=> (w.outs[c].spent /\ c \notin Freed(w, P)))
  BY <1>2 DEF ReleasedAs
<1>4. /\ DOMAIN n.sends = DOMAIN w.sends
      /\ \A q \in DOMAIN w.sends :
            /\ n.sends[q].ins = w.sends[q].ins
            /\ n.sends[q].confirmed <=> w.sends[q].confirmed
            /\ n.sends[q].failed <=> (w.sends[q].failed \/ q \in P)
  BY <1>2 DEF ReleasedAs
<1>5. \A p \in P : p \in DOMAIN w.sends /\ ~w.sends[p].confirmed /\ ~w.sends[p].failed
  BY DEF Pending
<1>6. ConfirmedIsSpent(n)
  <2> SUFFICES ASSUME NEW q \in DOMAIN n.sends, n.sends[q].confirmed, ~n.sends[q].failed,
                      NEW c \in n.sends[q].ins
               PROVE  c \in DOMAIN n.outs /\ n.outs[c].spent
    BY DEF ConfirmedIsSpent
  <2>1. q \in DOMAIN w.sends /\ w.sends[q].confirmed /\ ~w.sends[q].failed /\ c \in w.sends[q].ins
    BY <1>4
  <2>2. c \in DOMAIN w.outs /\ w.outs[c].spent
    BY <1>1, <2>1 DEF ConfirmedIsSpent
  <2>3. \A p \in P : c \notin w.sends[p].ins
    <3> SUFFICES ASSUME NEW p \in P, c \in w.sends[p].ins PROVE FALSE
      OBVIOUS
    <3>1. p # q /\ p \in DOMAIN w.sends /\ ~w.sends[p].failed
      BY <1>5, <2>1
    <3>2. w.sends[p].ins \cap w.sends[q].ins = {}
      BY <1>1, <2>1, <3>1 DEF Disjoint
    <3> QED BY <2>1, <3>2
  <2>4. c \notin Freed(w, P)
    BY <2>3 DEF Freed
  <2> QED BY <1>3, <2>2, <2>4
<1>7. Disjoint(n)
  BY <1>1, <1>4 DEF Disjoint
<1>8. KnowsAnchor(n)
  BY <1>1, <1>3 DEF KnowsAnchor
<1>9. Sound(n)
  BY <1>2, <1>6, <1>7, <1>8 DEF Sound
<1>10. ASSUME Exact(w), P # {} /\ w.anchor # <<>> => w.anchor = chain PROVE Exact(n)
  <2>1. HeightsHold(n)
    BY <1>3, <1>10 DEF Exact, HeightsHold
  <2>2. KnowsOnlyAnchor(n)
    <3> SUFFICES ASSUME n.anchor # <<>>, NEW c \in DOMAIN n.outs
                 PROVE  /\ c \in Created(n.anchor)
                        /\ c \in Consumed(n.anchor) => n.outs[c].spent
                        /\ n.outs[c].spent => c \in Consumed(n.anchor) \/ c \in PendingInputs(n)
      BY DEF KnowsOnlyAnchor
    <3>1. /\ c \in DOMAIN w.outs /\ n.anchor = w.anchor
          /\ c \in Created(w.anchor)
          /\ c \in Consumed(w.anchor) => w.outs[c].spent
          /\ w.outs[c].spent => c \in Consumed(w.anchor) \/ c \in PendingInputs(w)
      BY <1>3, <1>10 DEF Exact, KnowsOnlyAnchor
    <3>2. n.outs[c].spent <=> (w.outs[c].spent /\ c \notin Freed(w, P))
      BY <1>3, <3>1
    <3>3. c \in Freed(w, P) => c \in Utxo(chain) /\ P # {}
      BY DEF Freed
    <3>4. c \in Freed(w, P) => c \notin Consumed(w.anchor)
      BY <1>10, <3>1, <3>3 DEF Utxo
    <3>5. ASSUME w.outs[c].spent, c \notin Freed(w, P), c \notin Consumed(w.anchor)
          PROVE  c \in PendingInputs(n)
      <4>1. PICK p \in DOMAIN w.sends : ~w.sends[p].confirmed /\ ~w.sends[p].failed /\ c \in w.sends[p].ins
        BY <3>1, <3>5, PendingInputsAre
      <4>2. CASE p \notin P
        <5>1. p \in DOMAIN n.sends /\ ~n.sends[p].confirmed /\ ~n.sends[p].failed /\ c \in n.sends[p].ins
          BY <1>4, <4>1, <4>2
        <5> QED BY <5>1, PendingInputsAre
      <4>3. CASE p \in P
        <5>1. c \in Utxo(chain)
          BY <1>10, <3>1, <3>5, <4>3 DEF Utxo
        <5>2. PICK q \in Pending(w) \ P : c \in w.sends[q].ins
          BY <3>5, <4>1, <4>3, <5>1 DEF Freed
        <5>3. q \in DOMAIN n.sends /\ ~n.sends[q].confirmed /\ ~n.sends[q].failed /\ c \in n.sends[q].ins
          BY <1>4, <5>2 DEF Pending
        <5> QED BY <5>3, PendingInputsAre
      <4> QED BY <4>2, <4>3
    <3> QED BY <3>1, <3>2, <3>4, <3>5
  <2> QED BY <2>1, <2>2 DEF Exact
<1> QED BY <1>2, <1>9, <1>10 DEF n

\* A new wallet, as Wallet::in_memory and a rescan make it.
LEMMA NewWalletIs ==
    ASSUME Birth \in Nat
    PROVE  /\ Sound(NewWallet) /\ Exact(NewWallet) /\ DOMAIN NewWallet.sends = {}
<1>1. <<>> \in Seq(Blocks) /\ Len(<<>>) = 0 /\ DOMAIN <<>> = {}
  OBVIOUS
<1>2. <<>> \in [{} -> Output] /\ <<>> \in [{} -> Payment]
  OBVIOUS
<1>3. NewWallet \in Wallets
  <2>1. {} \in SUBSET Commits /\ {} \in SUBSET Pays /\ Birth >= Birth
    OBVIOUS
  <2>2. [outs |-> <<>>, scanned |-> Birth, anchor |-> <<>>, sends |-> <<>>] \in Wallets
    BY <1>1, <1>2, <2>1, WalletOf
  <2> QED BY <2>2 DEF NewWallet
<1>4. /\ NewWallet.outs = <<>> /\ NewWallet.sends = <<>> /\ NewWallet.anchor = <<>>
  BY DEF NewWallet
<1>5. Created(<<>>) = {}
  BY <1>1, InBlocks
<1>6. Sound(NewWallet)
  BY <1>1, <1>3, <1>4, <1>5 DEF Sound, ConfirmedIsSpent, Disjoint, KnowsAnchor
<1>7. Exact(NewWallet)
  BY <1>1, <1>4 DEF Exact, HeightsHold, KnowsOnlyAnchor
<1> QED BY <1>1, <1>4, <1>6, <1>7

-----------------------------------------------------------------------------
(* The inductive invariant *)

Busy == {"copied", "reading", "repairing", "rebase", "reconcile"}
Copying == Busy \cup {"commit"}

TypeInv ==
    /\ open \in BOOLEAN /\ mixed \in BOOLEAN
    /\ used \in [forks : Nat, faults : Nat, rescans : Nat]
    /\ scan.at \in Copying \cup {"idle", "release", "relay"}

\* What the node has is a part of what its peers have, both good chains.
ChainInv ==
    /\ GoodChain(chain) /\ GoodChain(goal)
    /\ Len(chain) <= Len(goal)
    /\ Len(chain) = Len(goal) => chain = goal

\* Until its page is read the scan's copy is the wallet it was made of; after that
\* it descends from it.  The release has the wallet open.
CopyInv ==
    /\ scan.at \in Busy => scan.copy = scan.base
    /\ scan.at \in Copying => Descends(scan.base, scan.copy)
    /\ scan.at = "release" => open

\* Every wallet there is, is sound.
SoundInv ==
    /\ Sound(live) /\ Sound(saved)
    /\ scan.at \in Copying => Sound(scan.base) /\ Sound(scan.copy)

\* Unless two chains were mixed, every wallet is exact.
ExactInv ==
    ~mixed =>
        /\ Exact(live) /\ Exact(saved)
        /\ scan.at \in Copying => Exact(scan.base)
        /\ scan.at = "commit" /\ ~Mixes(scan.base, scan.copy, scan.short) => Exact(scan.copy)

\* What was undone is withheld, by the wallet and by the copies the relay may read.
Withholds(w) == \A p \in revived : p \in DOMAIN w.sends => w.sends[p].withheld

WithheldInv ==
    /\ Withholds(saved)
    /\ open => Withholds(live)
    /\ scan.at \in Copying => Withholds(scan.base) /\ Withholds(scan.copy)
    /\ scan.at = "relay" => Withholds(scan.copy)

\* The payments in the file are payments of the wallet, which has given up no more.
Agrees(old, new) ==
    /\ DOMAIN old.sends \subseteq DOMAIN new.sends
    /\ \A p \in DOMAIN old.sends :
          /\ new.sends[p].ins = old.sends[p].ins
          /\ new.sends[p].failed => old.sends[p].failed

AgreeInv == open => Agrees(saved, live)

\* An open vault is the wallet in memory; until a rescan forgets them, it holds the
\* payments the network was given and those the relay is about to give it.
VaultIsLive == Vaulted /\ open => live = saved

SentInv ==
    Vaulted /\ used.rescans = 0 =>
        /\ sent \subseteq DOMAIN saved.sends
        /\ scan.at = "relay" => DOMAIN scan.copy.sends \subseteq DOMAIN saved.sends

WalletInv ==
    /\ TypeInv /\ ChainInv /\ CopyInv /\ SoundInv /\ ExactInv
    /\ WithheldInv /\ AgreeInv /\ VaultIsLive /\ SentInv

-----------------------------------------------------------------------------
(* The chain moves *)

\* The chain of a node that has downloaded nothing is good.
LEMMA GenesisChain ==
    GoodChain(<<Genesis>>) /\ Len(<<Genesis>>) = 1
<1>1. Genesis \in Blocks /\ Genesis.outs = {} /\ Genesis.ins = {}
  BY DEF Genesis, Blocks
<1>2. <<Genesis>> \in Seq(Blocks) /\ Len(<<Genesis>>) = 1 /\ <<Genesis>>[1] = Genesis
  BY <1>1
<1>3. \A i \in 1..1 : i = 1
  OBVIOUS
<1> QED BY <1>1, <1>2, <1>3 DEF GoodChain

\* BlocksOn: a block spends what the chain has, and holds nothing of the wallet's
\* below its birth height.
LEMMA NextBlock ==
    ASSUME NEW ch, GoodChain(ch), Sound(live), NEW b \in BlocksOn(ch)
    PROVE  b \in Blocks /\ b.ins \subseteq Created(ch) /\ (b.outs # {} => Len(ch) >= Birth)
<1>1. CASE b = Genesis
  BY <1>1 DEF Genesis, Blocks
<1>2. CASE Len(ch) >= Birth /\ \E c \in Coins \ Created(ch) : b = Receiving(c)
  BY <1>2 DEF Receiving, Blocks, Commits
<1>3. CASE Len(ch) >= Birth
           /\ \E p \in {q \in sent \cap DOMAIN live.sends : live.sends[q].ins \subseteq Utxo(ch)} :
                 b = [ins |-> live.sends[p].ins, outs |-> {p}]
  <2>1. PICK p \in sent \cap DOMAIN live.sends :
                live.sends[p].ins \subseteq Utxo(ch) /\ b = [ins |-> live.sends[p].ins, outs |-> {p}]
    BY <1>3
  <2>2. p \in Pays /\ live.sends[p].ins \subseteq Commits
    BY WalletFields DEF Sound
  <2>3. live.sends[p].ins \subseteq Created(ch)
    BY <2>1 DEF Utxo
  <2> QED BY <1>3, <2>1, <2>2, <2>3 DEF Blocks, Commits
<1> QED BY <1>1, <1>2, <1>3 DEF BlocksOn

\* ChainInv holds at first.
LEMMA InitChain ==
    ASSUME Init, WalletAssumption
    PROVE  ChainInv
<1>0. Birth \in Nat
  BY DEF WalletAssumption
<1>1. GoodChain(goal) /\ (Len(goal) = 1 => goal = <<Genesis>>)
  <2>1. CASE goal = <<Genesis>>
    BY <2>1, GenesisChain
  <2>2. CASE \E c \in Coins : goal = [h \in 1..Birth + 2 |-> IF h = Birth + 2 THEN Receiving(c) ELSE Genesis]
    <3>1. PICK c \in Coins : goal = [h \in 1..Birth + 2 |-> IF h = Birth + 2 THEN Receiving(c) ELSE Genesis]
      BY <2>2
    <3>2. /\ Genesis \in Blocks /\ Genesis.outs = {} /\ Genesis.ins = {}
          /\ Receiving(c) \in Blocks /\ Receiving(c).ins = {}
      BY DEF Genesis, Receiving, Blocks, Commits
    <3> HIDE DEF Genesis
    <3>3. goal \in Seq(Blocks) /\ Len(goal) = Birth + 2
      BY <1>0, <3>1, <3>2
    <3>4. \A i \in 1..Len(goal) : goal[i] = IF i = Birth + 2 THEN Receiving(c) ELSE Genesis
      BY <3>1, <3>3
    <3>5. \A i \in 1..Len(goal) : i <= Birth => goal[i].outs = {}
      BY <1>0, <3>2, <3>4
    <3>6. \A i \in 1..Len(goal) : goal[i].ins = {}
      BY <3>2, <3>4
    <3> QED BY <1>0, <3>3, <3>5, <3>6 DEF GoodChain
  <2> QED BY <2>1, <2>2 DEF Init
<1>2. chain = goal \/ chain = <<Genesis>>
  BY DEF Init
<1>3. Len(goal) \in Nat /\ Len(goal) >= 1
  BY <1>1, LenProperties DEF GoodChain
<1>4. PICK g : g = <<Genesis>>
  OBVIOUS
<1>5. GoodChain(g) /\ Len(g) = 1 /\ (Len(goal) = 1 => goal = g) /\ (chain = goal \/ chain = g)
  BY <1>1, <1>2, <1>4, GenesisChain
<1>6. GoodChain(chain) /\ Len(chain) <= Len(goal)
  <2>1. CASE chain = goal
    <3>1. Len(chain) = Len(goal)
      BY <2>1
    <3> QED BY <1>1, <1>3, <2>1, <3>1
  <2>2. CASE chain = g
    <3>1. Len(chain) = 1
      BY <1>5, <2>2
    <3> QED BY <1>3, <1>5, <2>2, <3>1
  <2> QED BY <1>5, <2>1, <2>2
<1>7. Len(chain) = Len(goal) => chain = goal
  BY <1>5
<1> QED BY <1>1, <1>6, <1>7 DEF ChainInv

\* ChainInv is kept when the node mines, moves to another branch or downloads.
LEMMA ChainMoves ==
    ASSUME ChainInv, Sound(live), WalletAssumption, Mine \/ Reorg \/ Download
    PROVE  ChainInv'
<1>0. Birth \in Nat
  BY DEF WalletAssumption
<1>1. /\ GoodChain(chain) /\ GoodChain(goal) /\ Len(chain) \in Nat /\ Len(goal) \in Nat
      /\ Len(chain) >= 1 /\ Len(chain) <= Len(goal) /\ (Len(chain) = Len(goal) => chain = goal)
  BY LenProperties DEF ChainInv, GoodChain
<1>2. CASE Mine
  <2>1. PICK b \in BlocksOn(chain) : chain' = Append(chain, b)
    BY <1>2 DEF Mine
  <2>2. goal' = chain'
    BY <1>2 DEF Mine
  <2>3. GoodChain(chain') /\ Len(chain') = Len(chain) + 1
    BY <1>0, <1>1, <2>1, NextBlock, Grow
  <2> QED BY <1>1, <2>2, <2>3 DEF ChainInv
<1>3. CASE Reorg
  <2>1. PICK h \in 0..(Tip(chain) - 1) : \E b \in BlocksOn(Upto(chain, h)) : goal' = Append(Upto(chain, h), b)
    BY <1>3 DEF Reorg
  <2>2. PICK b \in BlocksOn(Upto(chain, h)) : goal' = Append(Upto(chain, h), b)
    BY <2>1
  <2>3. h + 1 \in 1..Len(chain)
    BY <1>1, <2>1 DEF Tip
  <2>4. GoodChain(Upto(chain, h)) /\ Len(Upto(chain, h)) = h + 1
    BY <1>1, <2>3, Cut DEF Upto
  <2>5. GoodChain(goal') /\ Len(goal') = h + 2
    BY <1>0, <2>2, <2>3, <2>4, NextBlock, Grow
  <2>6. chain' = goal' \/ chain' = <<Genesis>>
    BY <1>3 DEF Reorg
  <2>7. PICK g : g = <<Genesis>>
    OBVIOUS
  <2>8. GoodChain(g) /\ Len(g) = 1 /\ (chain' = goal' \/ chain' = g)
    BY <2>6, <2>7, GenesisChain
  <2>9. h \in Nat
    BY <1>1, <2>3 DEF Tip
  <2>10. GoodChain(chain') /\ Len(chain') <= Len(goal') /\ (Len(chain') = Len(goal') => chain' = goal')
    <3>1. CASE chain' = goal'
      <4>1. Len(chain') = h + 2
        BY <2>5, <3>1
      <4> QED BY <2>5, <2>9, <3>1, <4>1
    <3>2. CASE chain' = g
      <4>1. Len(chain') = 1
        BY <2>8, <3>2
      <4>2. Len(goal') = h + 2
        BY <2>5
      <4>3. Len(chain') <= Len(goal') /\ Len(chain') # Len(goal')
        BY <2>9, <4>1, <4>2
      <4>4. GoodChain(chain')
        BY <2>8, <3>2
      <4> QED BY <4>3, <4>4
    <3> QED BY <2>8, <3>1, <3>2
  <2> QED BY <2>5, <2>10 DEF ChainInv
<1>4. CASE Download
  <2>1. chain' = SubSeq(goal, 1, Len(chain) + 1) /\ goal' = goal /\ chain # goal
    BY <1>4 DEF Download, NodeSettled
  <2>2. Len(chain) + 1 \in 1..Len(goal)
    BY <1>1, <2>1
  <2>3. GoodChain(chain') /\ Len(chain') = Len(chain) + 1
    BY <1>1, <2>1, <2>2, Cut
  <2>4. Len(chain') = Len(goal) => chain' = goal
    BY <1>1, <2>1, <2>3, SubSeqFull DEF GoodChain
  <2> QED BY <1>1, <2>1, <2>2, <2>3, <2>4 DEF ChainInv
<1> QED BY <1>2, <1>3, <1>4

-----------------------------------------------------------------------------
(* The wallet, at first and while only the node acts *)

\* What is left of the invariant when the chain is set aside.
WalletPart ==
    /\ TypeInv /\ CopyInv /\ SoundInv /\ ExactInv
    /\ WithheldInv /\ AgreeInv /\ VaultIsLive /\ SentInv

\* The invariant holds at first, for a new wallet and for one older than anchors.
LEMMA InitWallets ==
    ASSUME Init, WalletAssumption
    PROVE  WalletPart
<1>0. Birth \in Nat
  BY DEF WalletAssumption
<1>1. Sound(live) /\ Exact(live) /\ DOMAIN live.sends = {}
  <2>1. CASE live = NewWallet
    BY <1>0, <2>1, NewWalletIs
  <2>2. CASE \E c \in Coins : live = [NewWallet EXCEPT !.scanned = Birth + 1,
                                         !.outs = [d \in {c} |-> [height |-> Birth + 1, spent |-> FALSE]]]
    <3>1. PICK c \in Coins : live = [NewWallet EXCEPT !.scanned = Birth + 1,
                                         !.outs = [d \in {c} |-> [height |-> Birth + 1, spent |-> FALSE]]]
      BY <2>2
    <3> DEFINE one == [height |-> Birth + 1, spent |-> FALSE]
               o == [d \in {c} |-> one]
    <3>2. live = [outs |-> o, scanned |-> Birth + 1, anchor |-> <<>>, sends |-> <<>>]
      BY <3>1 DEF NewWallet
    <3>3. one \in Output /\ one.height = Birth + 1
      BY <1>0 DEF Output
    <3> HIDE DEF one
    <3>4. DOMAIN o = {c} /\ o[c] = one /\ o \in [{c} -> Output] /\ {c} \in SUBSET Commits
      BY <3>3 DEF Commits
    <3> HIDE DEF o
    <3>5. <<>> \in Seq(Blocks) /\ DOMAIN <<>> = {} /\ <<>> \in [{} -> Payment]
      OBVIOUS
    <3>6. Birth + 1 \in Nat /\ Birth + 1 >= Birth /\ {} \in SUBSET Pays
      BY <1>0
    <3>7. live \in Wallets
      BY <3>2, <3>4, <3>5, <3>6, WalletOf
    <3>8. /\ live.outs = o /\ live.sends = <<>> /\ live.anchor = <<>> /\ live.scanned = Birth + 1
          /\ DOMAIN live.sends = {}
      BY <3>2, <3>5
    <3>9. Created(<<>>) = {}
      BY <3>5, InBlocks
    <3>10. Sound(live)
      BY <3>7, <3>8, <3>9 DEF Sound, ConfirmedIsSpent, Disjoint, KnowsAnchor
    <3>11. HeightsHold(live)
      BY <3>3, <3>4, <3>6, <3>8 DEF HeightsHold
    <3>12. KnowsOnlyAnchor(live)
      BY <3>8 DEF KnowsOnlyAnchor
    <3> QED BY <3>8, <3>10, <3>11, <3>12 DEF Exact
  <2> QED BY <2>1, <2>2 DEF Init
<1>2. /\ saved = live /\ open = TRUE /\ scan = [at |-> "idle"]
      /\ sent = {} /\ revived = {} /\ mixed = FALSE
      /\ used = [forks |-> 0, faults |-> 0, rescans |-> 0]
  BY DEF Init
<1>3. scan.at = "idle"
  BY <1>2
<1>4. TypeInv
  BY <1>2, <1>3 DEF TypeInv
<1>5. CopyInv /\ SoundInv
  BY <1>1, <1>2, <1>3 DEF CopyInv, SoundInv, Copying, Busy
<1>6. ExactInv
  BY <1>1, <1>2, <1>3 DEF ExactInv, Copying, Busy
<1>7. WithheldInv
  BY <1>2, <1>3 DEF WithheldInv, Withholds, Copying, Busy
<1>8. AgreeInv /\ VaultIsLive /\ SentInv
  BY <1>1, <1>2, <1>3 DEF AgreeInv, Agrees, VaultIsLive, SentInv
<1> QED BY <1>4, <1>5, <1>6, <1>7, <1>8 DEF WalletPart

\* A step that touches no wallet, and no scan.
LEMMA NothingMoves ==
    ASSUME WalletPart, UNCHANGED <<live, saved, open, scan, sent, revived, mixed>>,
           used' \in [forks : Nat, faults : Nat, rescans : Nat], used'.rescans = used.rescans
    PROVE  WalletPart'
<1>1. TypeInv' /\ CopyInv' /\ SoundInv'
  BY DEF WalletPart, TypeInv, CopyInv, SoundInv
<1>2. ExactInv'
  BY DEF WalletPart, ExactInv
<1>3. WithheldInv'
  BY DEF WalletPart, WithheldInv, Withholds
<1>4. AgreeInv' /\ VaultIsLive' /\ SentInv'
  BY DEF WalletPart, AgreeInv, VaultIsLive, SentInv
<1> QED BY <1>1, <1>2, <1>3, <1>4 DEF WalletPart

\* A wallet descends from itself.
LEMMA DescendsSelf ==
    ASSUME NEW w
    PROVE  Descends(w, w)
BY DEF Descends

\* What was withheld stays withheld along a scan.
LEMMA DescendsWithholds ==
    ASSUME NEW old, NEW new, Descends(old, new), Withholds(old)
    PROVE  Withholds(new)
BY DEF Descends, Withholds

\* The scan goes idle.
LEMMA ScanStops ==
    ASSUME WalletPart, UNCHANGED <<live, saved, open, sent, revived, mixed, used>>, scan' = ScanEnds
    PROVE  WalletPart'
<1>1. scan'.at = "idle"
  BY DEF ScanEnds
<1>2. TypeInv' /\ CopyInv' /\ SoundInv'
  BY <1>1 DEF WalletPart, TypeInv, CopyInv, SoundInv, Copying, Busy
<1>3. ExactInv'
  BY <1>1 DEF WalletPart, ExactInv, Copying, Busy
<1>4. WithheldInv'
  BY <1>1 DEF WalletPart, WithheldInv, Withholds, Copying, Busy
<1>5. AgreeInv' /\ VaultIsLive' /\ SentInv'
  BY <1>1 DEF WalletPart, AgreeInv, VaultIsLive, SentInv
<1> QED BY <1>2, <1>3, <1>4, <1>5 DEF WalletPart

\* A copy that has not been read into goes on, or is made of the wallet in memory.
LEMMA ScanCopies ==
    ASSUME WalletPart, UNCHANGED <<live, saved, open, sent, revived, mixed, used>>,
           scan'.at \in Busy, scan'.copy = scan'.base,
           \/ open /\ scan'.base = live
           \/ scan.at \in Copying /\ scan'.base = scan.base
    PROVE  WalletPart'
<1> DEFINE b == scan'.base
<1>0. scan'.at \in Copying /\ scan'.at # "commit" /\ scan'.at # "release" /\ scan'.at # "relay"
  BY DEF Copying, Busy
<1>1. Sound(b) /\ (~mixed => Exact(b)) /\ Withholds(b)
  BY DEF WalletPart, SoundInv, ExactInv, WithheldInv
<1>2. TypeInv'
  BY <1>0 DEF WalletPart, TypeInv
<1>3. CopyInv'
  BY <1>0, DescendsSelf DEF CopyInv
<1>4. SoundInv'
  BY <1>1 DEF WalletPart, SoundInv
<1>5. ExactInv'
  BY <1>0, <1>1 DEF WalletPart, ExactInv
<1>6. WithheldInv'
  BY <1>0, <1>1 DEF WalletPart, WithheldInv, Withholds
<1>7. AgreeInv' /\ VaultIsLive' /\ SentInv'
  BY <1>0 DEF WalletPart, AgreeInv, VaultIsLive, SentInv
<1> QED BY <1>2, <1>3, <1>4, <1>5, <1>6, <1>7 DEF WalletPart

\* A page has been read into the copy.
LEMMA ScanHasRead ==
    ASSUME WalletPart, UNCHANGED <<live, saved, open, sent, revived, mixed, used>>,
           scan.at \in Busy, scan'.at = "commit", scan'.base = scan.base,
           Sound(scan'.copy), Descends(scan.copy, scan'.copy),
           ~mixed /\ HeightsHold(scan'.copy) /\ ~(scan'.short /\ scan'.copy # scan.copy) => Exact(scan'.copy)
    PROVE  WalletPart'
<1> DEFINE b == scan.base
           n == scan'.copy
<1>0. scan.copy = b /\ scan.at \in Copying /\ scan'.at \in Copying /\ scan'.at \notin Busy
  BY DEF WalletPart, CopyInv, Copying, Busy
<1>1. Sound(b) /\ (~mixed => Exact(b)) /\ Withholds(b)
  BY <1>0 DEF WalletPart, SoundInv, ExactInv, WithheldInv
<1>2. Withholds(n)
  BY <1>0, <1>1, DescendsWithholds
<1>3. TypeInv'
  BY <1>0 DEF WalletPart, TypeInv
<1>4. CopyInv'
  BY <1>0 DEF CopyInv
<1>5. SoundInv'
  BY <1>1 DEF WalletPart, SoundInv
<1>6. ASSUME ~mixed, ~Mixes(b, n, scan'.short) PROVE Exact(n)
  <2>1. HeightsHold(n)
    <3>1. n \in Wallets
      BY DEF Sound
    <3>2. \A c \in DOMAIN n.outs : n.outs[c].height \in Nat /\ ~(n.outs[c].height > n.scanned)
      BY <1>6, <3>1, WalletFields DEF Mixes
    <3>3. n.scanned \in Nat
      BY <3>1, WalletFields
    <3> QED BY <3>2, <3>3 DEF HeightsHold
  <2>2. ~(scan'.short /\ n # scan.copy)
    BY <1>0, <1>6 DEF Mixes
  <2> QED BY <1>6, <2>1, <2>2
<1>7. ExactInv'
  BY <1>0, <1>1, <1>6 DEF WalletPart, ExactInv
<1>8. WithheldInv'
  BY <1>0, <1>1, <1>2 DEF WalletPart, WithheldInv, Withholds
<1>9. AgreeInv' /\ VaultIsLive' /\ SentInv'
  BY DEF WalletPart, AgreeInv, VaultIsLive, SentInv
<1> QED BY <1>3, <1>4, <1>5, <1>7, <1>8, <1>9 DEF WalletPart

-----------------------------------------------------------------------------
(* The background scan, until its copy is committed *)

\* A page of a good chain, from the birth height or above it.
LEMMA PageIs ==
    ASSUME NEW ch, GoodChain(ch), NEW f \in Nat, f >= Birth, NEW t \in Int, t <= Tip(ch)
    PROVE  /\ IsPage(Page(ch, f, t))
           /\ Page(ch, f, t).ch = ch /\ Page(ch, f, t).from = f /\ Page(ch, f, t).to = t
BY DEF IsPage, Page

\* A page the scan accepts (check_chain_continuity) fits the wallet.
LEMMA ReadPageFits ==
    ASSUME WalletAssumption, GoodChain(chain), NEW w \in Wallets,
           NEW f, f = (IF NeedsCanonicalPass(w) THEN Birth ELSE ScanFrom(w)),
           NEW t, t = (IF NeedsCanonicalPass(w) THEN Tip(chain) ELSE Min({Tip(chain), f + PageSize - 1})),
           f <= Tip(chain), Continues(w, Page(chain, f, t))
    PROVE  Fits(w, Page(chain, f, t), FALSE) /\ f <= t /\ t >= w.scanned
<1> DEFINE pg == Page(chain, f, t)
<1>0. Birth \in Nat /\ PageSize \in Nat /\ PageSize >= 2
  BY DEF WalletAssumption
<1>1. w.scanned \in Nat /\ w.scanned >= Birth /\ ScanFrom(w) = w.scanned
  BY <1>0, WalletFields DEF ScanFrom
<1>2. Tip(chain) \in Nat
  BY UptoTip
<1>3. f \in Nat /\ f >= Birth
  BY <1>0, <1>1
<1>4. t \in Int /\ t <= Tip(chain) /\ f <= t
  <2>1. CASE NeedsCanonicalPass(w)
    BY <1>2, <2>1
  <2>2. CASE ~NeedsCanonicalPass(w)
    <3>1. f + PageSize - 1 \in Int /\ f <= f + PageSize - 1
      BY <1>0, <1>3
    <3>2. t = IF Tip(chain) <= f + PageSize - 1 THEN Tip(chain) ELSE f + PageSize - 1
      BY <1>2, <2>2, <3>1, MinOfTwo
    <3> QED BY <1>2, <1>3, <3>1, <3>2
  <2> QED BY <2>1, <2>2
<1>5. IsPage(pg) /\ pg.ch = chain /\ pg.from = f /\ pg.to = t
  BY <1>3, <1>4, PageIs
<1> HIDE DEF pg
<1>6. ~IsEmptyPage(pg)
  BY <1>3, <1>4, <1>5 DEF IsEmptyPage
<1>7. Continues(w, pg)
  BY DEF pg
<1>8. CASE NeedsCanonicalPass(w)
  <2>1. w.anchor = <<>> /\ HasScannedHistory(w) /\ f = Birth
    BY <1>8 DEF NeedsCanonicalPass
  <2>2. t >= w.scanned
    BY <1>5, <1>7, <2>1 DEF Continues, Covers
  <2> QED BY <1>4, <1>5, <2>1, <2>2 DEF Fits, pg
<1>9. CASE ~NeedsCanonicalPass(w)
  <2>1. f = w.scanned
    BY <1>1, <1>9
  <2>2. CASE w.anchor = <<>>
    <3>1. f = Birth
      BY <1>0, <1>1, <1>9, <2>1, <2>2 DEF NeedsCanonicalPass, HasScannedHistory
    <3> QED BY <1>4, <1>5, <2>1, <3>1 DEF Fits, pg
  <2>3. CASE w.anchor # <<>>
    <3>1. AnchorHolds(w, chain)
      BY <1>5, <1>6, <1>7, <2>1, <2>3 DEF Continues
    <3>2. w.anchor = Upto(chain, f)
      BY <2>1, <2>3, <3>1 DEF AnchorHolds
    <3> QED BY <1>4, <1>5, <2>1, <3>2 DEF Fits, pg
  <2> QED BY <2>2, <2>3
<1> QED BY <1>8, <1>9

\* scan_without_relay, one page of it.
LEMMA ScanReads ==
    ASSUME WalletPart, ChainInv, WalletAssumption, ReadPage
    PROVE  WalletPart'
<1> DEFINE w == scan.copy
           f == IF NeedsCanonicalPass(w) THEN Birth ELSE ScanFrom(w)
           t == IF NeedsCanonicalPass(w) THEN Tip(chain) ELSE Min({Tip(chain), f + PageSize - 1})
           pg == Page(chain, f, t)
           n == Scanned(w, pg, FALSE)
<1>0. Birth \in Nat /\ GoodChain(chain)
  BY DEF WalletAssumption, ChainInv
<1>1. scan.at = "reading" /\ UNCHANGED <<live, saved, open, sent, revived, mixed, used>>
  BY DEF ReadPage, ScanGoes, StandsStill
<1>2. scan.at \in Busy /\ scan.at \in Copying /\ Sound(w) /\ w = scan.base /\ (~mixed => Exact(w))
  BY <1>1 DEF WalletPart, SoundInv, ExactInv, CopyInv, Busy, Copying
<1>3. \/ scan' = ScanEnds
      \/ scan' = ToCommit(w, FALSE, FALSE)
      \/ /\ f <= Tip(chain) /\ Continues(w, pg)
         /\ \E more : scan' = ToCommit(n, FALSE, more)
  BY DEF ReadPage, ScanGoes
<1> HIDE DEF f, t, pg, n
<1>4. CASE scan' = ScanEnds
  BY <1>1, <1>4, ScanStops
<1>5. CASE scan' = ToCommit(w, FALSE, FALSE)
  <2>1. scan'.at = "commit" /\ scan'.base = scan.base /\ scan'.copy = w
    BY <1>5 DEF ToCommit
  <2> QED BY <1>1, <1>2, <2>1, ScanHasRead, DescendsSelf
<1>6. CASE /\ f <= Tip(chain) /\ Continues(w, pg)
           /\ \E more : scan' = ToCommit(n, FALSE, more)
  <2>1. scan'.at = "commit" /\ scan'.base = scan.base /\ scan'.copy = n
    BY <1>6 DEF ToCommit
  <2>2. w \in Wallets
    BY <1>2 DEF Sound
  <2>3. Fits(w, pg, FALSE) /\ f <= t /\ t >= w.scanned
    BY <1>0, <1>6, <2>2, ReadPageFits DEF f, t, pg
  <2>4. pg.from = f /\ pg.to = t
    BY DEF pg, Page
  <2>5. Sound(n)
    BY <1>0, <1>2, <2>3, ScannedSound DEF n
  <2>6. Descends(w, n)
    BY <1>0, <2>2, <2>3, ScannedDescends DEF n
  <2>7. ~mixed /\ HeightsHold(n) => Exact(n)
    BY <1>0, <1>2, <2>3, <2>4, ScannedExact DEF n
  <2> QED BY <1>1, <1>2, <2>1, <2>5, <2>6, <2>7, ScanHasRead
<1> QED BY <1>3, <1>4, <1>5, <1>6

\* reconcile_with_chain, on a chain as long as the wallet or on a shorter one.
LEMMA ScanReconciles ==
    ASSUME WalletPart, ChainInv, WalletAssumption, Reconcile
    PROVE  WalletPart'
<1> DEFINE w == scan.copy
           pg == Page(chain, Birth, Tip(chain))
           n == Scanned(w, pg, FALSE)
<1>0. Birth \in Nat /\ GoodChain(chain) /\ Tip(chain) \in Nat
  BY UptoTip DEF WalletAssumption, ChainInv
<1>1. scan.at = "reconcile" /\ UNCHANGED <<live, saved, open, sent, revived, mixed, used>>
  BY DEF Reconcile, ScanGoes, StandsStill
<1>2. scan.at \in Busy /\ scan.at \in Copying /\ Sound(w) /\ w = scan.base /\ (~mixed => Exact(w))
  BY <1>1 DEF WalletPart, SoundInv, ExactInv, CopyInv, Busy, Copying
<1>3. \/ scan' = ScanEnds
      \/ scan' = [ToCommit(n, TRUE, FALSE) EXCEPT !.short = Tip(chain) < w.scanned]
  BY DEF Reconcile, ScanGoes, Page
<1>4. IsPage(pg) /\ pg.from = Birth /\ pg.to = Tip(chain)
  BY <1>0, PageIs
<1> HIDE DEF pg, n
<1>5. CASE scan' = ScanEnds
  BY <1>1, <1>5, ScanStops
<1>6. CASE scan' = [ToCommit(n, TRUE, FALSE) EXCEPT !.short = Tip(chain) < w.scanned]
  <2>1. /\ scan'.at = "commit" /\ scan'.base = scan.base /\ scan'.copy = n
        /\ scan'.short <=> Tip(chain) < w.scanned
    BY <1>6 DEF ToCommit
  <2>2. w \in Wallets
    BY <1>2 DEF Sound
  <2>3. Fits(w, pg, FALSE)
    BY <1>4 DEF Fits
  <2>4. Sound(n)
    BY <1>0, <1>2, <2>3, ScannedSound DEF n
  <2>5. Descends(w, n)
    BY <1>0, <2>2, <2>3, ScannedDescends DEF n
  <2>6. ASSUME ~mixed, HeightsHold(n), ~(scan'.short /\ n # w) PROVE Exact(n)
    <3>1. CASE n = w
      BY <1>2, <2>6, <3>1
    <3>2. CASE n # w
      <4>1. w.scanned \in Nat /\ w.scanned >= Birth
        BY <2>2, WalletFields
      <4>2. pg.to >= w.scanned /\ pg.from <= pg.to
        BY <1>0, <1>4, <2>1, <2>6, <3>2, <4>1
      <4> QED BY <1>0, <1>2, <2>3, <2>6, <4>2, ScannedExact DEF n
    <3> QED BY <3>1, <3>2
  <2> QED BY <1>1, <1>2, <2>1, <2>4, <2>5, <2>6, ScanHasRead
<1> QED BY <1>3, <1>5, <1>6

\* rebase_on_shorter_chain.
LEMMA ScanRebases ==
    ASSUME WalletPart, ChainInv, WalletAssumption, Rebase
    PROVE  WalletPart'
<1> DEFINE w == scan.copy
           pg == Page(chain, Birth, Tip(chain))
           n == Scanned(w, pg, TRUE)
<1>0. Birth \in Nat /\ GoodChain(chain) /\ Tip(chain) \in Nat
  BY UptoTip DEF WalletAssumption, ChainInv
<1>1. scan.at = "rebase" /\ UNCHANGED <<live, saved, open, sent, revived, mixed, used>>
  BY DEF Rebase, ScanGoes, StandsStill
<1>2. scan.at \in Busy /\ scan.at \in Copying /\ Sound(w) /\ w = scan.base /\ (~mixed => Exact(w))
  BY <1>1 DEF WalletPart, SoundInv, ExactInv, CopyInv, Busy, Copying
<1>3. \/ scan' = ScanEnds
      \/ ~IsEmptyPage(pg) /\ scan' = ToCommit(n, TRUE, FALSE)
  BY DEF Rebase, ScanGoes
<1>4. IsPage(pg) /\ pg.from = Birth /\ pg.to = Tip(chain)
  BY <1>0, PageIs
<1> HIDE DEF pg, n
<1>5. CASE scan' = ScanEnds
  BY <1>1, <1>5, ScanStops
<1>6. CASE ~IsEmptyPage(pg) /\ scan' = ToCommit(n, TRUE, FALSE)
  <2>1. scan'.at = "commit" /\ scan'.base = scan.base /\ scan'.copy = n
    BY <1>6 DEF ToCommit
  <2>2. w \in Wallets
    BY <1>2 DEF Sound
  <2>3. pg.from <= pg.to
    BY <1>0, <1>4, <1>6 DEF IsEmptyPage
  <2>4. Fits(w, pg, TRUE)
    BY <1>4, <2>3 DEF Fits
  <2>5. Sound(n)
    BY <1>0, <1>2, <2>4, ScannedSound DEF n
  <2>6. Descends(w, n)
    BY <1>0, <2>2, <2>4, ScannedDescends DEF n
  <2>7. ~mixed /\ HeightsHold(n) => Exact(n)
    BY <1>0, <1>2, <2>3, <2>4, ScannedExact DEF n
  <2> QED BY <1>1, <1>2, <2>1, <2>5, <2>6, <2>7, ScanHasRead
<1> QED BY <1>3, <1>5, <1>6

\* The steps that read nothing into the copy.
LEMMA ScanGoesOn ==
    ASSUME WalletPart, BeginScan \/ Compare \/ ChooseRepair
    PROVE  WalletPart'
<1>1. CASE BeginScan
  <2>1. /\ open /\ UNCHANGED <<live, saved, open, sent, revived, mixed, used>>
        /\ scan' = [at |-> "copied", base |-> live, copy |-> live, behind |-> ~NodeSettled]
    BY <1>1 DEF BeginScan, ScanGoes, StandsStill
  <2>2. scan'.at = "copied" /\ scan'.base = live /\ scan'.copy = live
    BY <2>1
  <2>3. scan'.at \in Busy
    BY <2>2 DEF Busy
  <2> QED BY <2>1, <2>2, <2>3, ScanCopies
<1>2. CASE Compare \/ ChooseRepair
  <2>1. /\ scan.at \in {"copied", "repairing"}
        /\ UNCHANGED <<live, saved, open, sent, revived, mixed, used>>
    BY <1>2 DEF Compare, ChooseRepair, ScanGoes, StandsStill
  <2>2. scan.at \in Busy /\ scan.at \in Copying /\ scan.copy = scan.base
    BY <2>1 DEF WalletPart, CopyInv, Busy, Copying
  <2>3. \/ scan' = ScanEnds
        \/ \E a \in {"repairing", "reading", "rebase", "reconcile"} :
              scan' = [at |-> a, base |-> scan.base, copy |-> scan.copy]
    <3>1. CASE Compare
      BY <3>1 DEF Compare, ScanGoes
    <3>2. CASE ChooseRepair
      BY <3>2 DEF ChooseRepair, ScanGoes
    <3> QED BY <1>2, <3>1, <3>2
  <2>4. CASE scan' = ScanEnds
    BY <2>1, <2>4, ScanStops
  <2>5. CASE \E a \in {"repairing", "reading", "rebase", "reconcile"} :
                scan' = [at |-> a, base |-> scan.base, copy |-> scan.copy]
    <3>1. scan'.at \in Busy /\ scan'.base = scan.base /\ scan'.copy = scan.copy
      BY <2>5 DEF Busy
    <3> QED BY <2>1, <2>2, <3>1, ScanCopies
  <2> QED BY <2>3, <2>4, <2>5
<1> QED BY <1>1, <1>2

-----------------------------------------------------------------------------
(* Saving *)

\* A wallet agrees with itself.
LEMMA AgreesSelf ==
    ASSUME NEW w
    PROVE  Agrees(w, w)
BY DEF Agrees

\* An edit that is saved is in force, on disk as in memory.
LEMMA SavesIs ==
    ASSUME WalletPart, open, NEW w, Sound(w), Saves(w)
    PROVE  /\ live' = w /\ UNCHANGED <<open, used>>
           /\ saved' = w \/ (w = live /\ saved' = saved)
           /\ Sound(live') /\ Sound(saved') /\ AgreeInv' /\ VaultIsLive'
<1>1. live' = w /\ UNCHANGED <<open, used>> /\ (saved' = w \/ (w = live /\ saved' = saved))
  BY DEF Saves
<1>2. Sound(saved) /\ Agrees(saved, live) /\ (Vaulted => live = saved)
  BY DEF WalletPart, SoundInv, AgreeInv, VaultIsLive
<1>3. CASE saved' = w
  BY <1>1, <1>3, AgreesSelf DEF AgreeInv, VaultIsLive
<1>4. CASE w = live /\ saved' = saved
  BY <1>1, <1>2, <1>4 DEF AgreeInv, VaultIsLive
<1> QED BY <1>1, <1>3, <1>4

\* A save that fails leaves the file and the vault open, or the file replaced and
\* the vault shut; an edit made in place, without a vault, stays in memory.
LEMMA SaveFailsIs ==
    ASSUME WalletPart, open, NEW w, Sound(w), NEW inPlace \in BOOLEAN, SaveFails(w, inPlace),
           inPlace => Agrees(saved, w)
    PROVE  /\ used' \in [forks : Nat, faults : Nat, rescans : Nat] /\ used'.rescans = used.rescans
           /\ live' = live \/ (inPlace /\ ~Vaulted /\ live' = w)
           /\ \/ saved' = saved /\ open' = open
              \/ Vaulted /\ saved' = w /\ open' = FALSE /\ live' = live
           /\ Sound(live') /\ Sound(saved') /\ AgreeInv' /\ VaultIsLive'
<1>1. /\ live' = live \/ (inPlace /\ ~Vaulted /\ live' = w)
      /\ \/ saved' = saved /\ open' = open
         \/ Vaulted /\ saved' = w /\ open' = FALSE /\ live' = live
  BY DEF SaveFails, SaveRefused
<1>2. /\ Sound(live) /\ Sound(saved) /\ Agrees(saved, live) /\ (Vaulted => live = saved)
      /\ used \in [forks : Nat, faults : Nat, rescans : Nat]
  BY DEF WalletPart, TypeInv, SoundInv, AgreeInv, VaultIsLive
<1>3. used' = [used EXCEPT !.faults = @ + 1]
  BY DEF SaveFails
<1>4. used' \in [forks : Nat, faults : Nat, rescans : Nat] /\ used'.rescans = used.rescans
  BY <1>2, <1>3
<1>5. Sound(live') /\ Sound(saved')
  BY <1>1, <1>2
<1>6. AgreeInv' /\ VaultIsLive'
  <2>1. CASE saved' = saved /\ open' = open
    BY <1>1, <1>2, <2>1 DEF AgreeInv, VaultIsLive
  <2>2. CASE open' = FALSE
    BY <2>2 DEF AgreeInv, VaultIsLive
  <2> QED BY <1>1, <2>1, <2>2
<1> QED BY <1>1, <1>4, <1>5, <1>6

-----------------------------------------------------------------------------
(* The owner *)

\* send
LEMMA OwnerSends ==
    ASSUME WalletPart, NEW p \in Pays, Send(p)
    PROVE  WalletPart'
<1>1. /\ open /\ scan.at # "release" /\ p \notin DOMAIN live.sends /\ p \notin revived
      /\ UNCHANGED <<scan, revived, mixed>>
  BY DEF Send, Unlocked
<1>2. PICK ins \in SUBSET Selectable(live) :
         \/ Saves(Signed(live, p, ins)) /\ (sent' = sent \/ sent' = sent \cup {p})
         \/ SaveFails(Signed(live, p, ins), TRUE) /\ UNCHANGED sent
  BY DEF Send
<1> DEFINE w == Signed(live, p, ins)
<1>3. /\ Sound(live) /\ (~mixed => Exact(live)) /\ Withholds(live) /\ Withholds(saved)
      /\ Agrees(saved, live) /\ (~mixed => Exact(saved)) /\ (Vaulted => live = saved)
  BY <1>1 DEF WalletPart, SoundInv, ExactInv, WithheldInv, AgreeInv, VaultIsLive
<1>4. Sound(w) /\ SignedAs(live, w, p, ins) /\ (~mixed => Exact(w))
  BY <1>1, <1>3, SignedSound
<1>5. (Saves(w) /\ (sent' = sent \/ sent' = sent \cup {p})) \/ (SaveFails(w, TRUE) /\ UNCHANGED sent)
  BY <1>2
<1> HIDE DEF w
<1>6. /\ DOMAIN w.sends = DOMAIN live.sends \cup {p}
      /\ \A q \in DOMAIN live.sends : w.sends[q] = live.sends[q]
  BY <1>4 DEF SignedAs
<1>7. Withholds(w)
  BY <1>1, <1>3, <1>6 DEF Withholds
<1>8. Agrees(saved, w)
  BY <1>3, <1>6 DEF Agrees
<1>9. /\ used' \in [forks : Nat, faults : Nat, rescans : Nat] /\ used'.rescans = used.rescans
      /\ live' \in {live, w} /\ saved' \in {saved, w} /\ open' \in BOOLEAN
      /\ Sound(live') /\ Sound(saved') /\ AgreeInv' /\ VaultIsLive'
      /\ sent' = sent \/ (sent' = sent \cup {p} /\ saved' = w)
  <2>1. CASE Saves(w) /\ (sent' = sent \/ sent' = sent \cup {p})
    <3>1. w # live
      BY <1>1, <1>6
    <3>2. used' = used /\ open' = open /\ live' = w /\ saved' = w
          /\ Sound(live') /\ Sound(saved') /\ AgreeInv' /\ VaultIsLive'
      BY <1>1, <1>4, <2>1, <3>1, SavesIs
    <3> QED BY <2>1, <3>2 DEF WalletPart, TypeInv
  <2>2. CASE SaveFails(w, TRUE) /\ UNCHANGED sent
    BY <1>1, <1>4, <1>8, <2>2, SaveFailsIs
  <2> QED BY <1>5, <2>1, <2>2
<1>10. TypeInv' /\ CopyInv'
  BY <1>1, <1>9 DEF WalletPart, TypeInv, CopyInv
<1>11. SoundInv'
  BY <1>1, <1>9 DEF WalletPart, SoundInv
<1>12. ExactInv'
  BY <1>1, <1>3, <1>4, <1>9 DEF WalletPart, ExactInv
<1>13. WithheldInv'
  <2>1. Withholds(live)' /\ Withholds(saved)'
    BY <1>1, <1>3, <1>7, <1>9 DEF Withholds
  <2>2. scan.at \in Copying => Withholds(scan.base)' /\ Withholds(scan.copy)'
    BY <1>1 DEF WalletPart, WithheldInv, Withholds
  <2>3. scan.at = "relay" => Withholds(scan.copy)'
    BY <1>1 DEF WalletPart, WithheldInv, Withholds
  <2> QED BY <1>1, <2>1, <2>2, <2>3 DEF WithheldInv
<1>14. SentInv'
  <2>1. Vaulted => DOMAIN saved.sends \subseteq DOMAIN saved'.sends
    BY <1>3, <1>6, <1>9
  <2>2. sent' \subseteq sent \cup DOMAIN saved'.sends
    BY <1>6, <1>9
  <2> QED BY <1>1, <1>9, <2>1, <2>2 DEF WalletPart, SentInv
<1> QED BY <1>9, <1>10, <1>11, <1>12, <1>13, <1>14 DEF WalletPart

\* retry_withheld
LEMMA OwnerRetries ==
    ASSUME WalletPart, NEW p \in Pays, RetryWithheld(p)
    PROVE  WalletPart'
<1>1. /\ open /\ p \in DOMAIN live.sends /\ sent' = sent \cup {p}
      /\ UNCHANGED <<live, saved, open, scan, revived, mixed, used>>
  BY DEF RetryWithheld, Unlocked, Pending
<1>2. TypeInv' /\ CopyInv' /\ SoundInv'
  BY <1>1 DEF WalletPart, TypeInv, CopyInv, SoundInv
<1>3. ExactInv'
  BY <1>1 DEF WalletPart, ExactInv
<1>4. WithheldInv'
  BY <1>1 DEF WalletPart, WithheldInv, Withholds
<1>5. AgreeInv' /\ VaultIsLive'
  BY <1>1 DEF WalletPart, AgreeInv, VaultIsLive
<1>6. SentInv'
  BY <1>1 DEF WalletPart, VaultIsLive, SentInv
<1> QED BY <1>2, <1>3, <1>4, <1>5, <1>6 DEF WalletPart

\* rescan
LEMMA OwnerRescans ==
    ASSUME WalletPart, WalletAssumption, Rescan
    PROVE  WalletPart'
<1>0. Birth \in Nat
  BY DEF WalletAssumption
<1>1. /\ open /\ scan.at # "release" /\ live' = NewWallet /\ saved' = NewWallet
      /\ used' = [used EXCEPT !.rescans = @ + 1]
      /\ UNCHANGED <<open, scan, sent, revived, mixed>>
  BY DEF Rescan, Unlocked
<1>2. Sound(NewWallet) /\ Exact(NewWallet) /\ DOMAIN NewWallet.sends = {}
  BY <1>0, NewWalletIs
<1> HIDE DEF NewWallet
<1>3. used' \in [forks : Nat, faults : Nat, rescans : Nat] /\ used'.rescans # 0
  <2>1. used \in [forks : Nat, faults : Nat, rescans : Nat]
    BY DEF WalletPart, TypeInv
  <2> QED BY <1>1, <2>1
<1>4. TypeInv' /\ CopyInv' /\ SoundInv'
  BY <1>1, <1>2, <1>3 DEF WalletPart, TypeInv, CopyInv, SoundInv
<1>5. ExactInv'
  BY <1>1, <1>2 DEF WalletPart, ExactInv
<1>6. WithheldInv'
  BY <1>1, <1>2 DEF WalletPart, WithheldInv, Withholds
<1>7. AgreeInv' /\ VaultIsLive' /\ SentInv'
  BY <1>1, <1>3, AgreesSelf DEF AgreeInv, VaultIsLive, SentInv
<1> QED BY <1>4, <1>5, <1>6, <1>7 DEF WalletPart

\* The process stops, and is started again.
LEMMA OwnerRestarts ==
    ASSUME WalletPart, Crash \/ Reopen
    PROVE  WalletPart'
<1>1. /\ saved' = saved /\ (live' = live \/ live' = saved) /\ scan' = [at |-> "idle"]
      /\ open' = FALSE \/ (open' = TRUE /\ live' = saved)
      /\ UNCHANGED <<sent, revived, mixed>>
  BY DEF Crash, Reopen
<1>2. used' \in [forks : Nat, faults : Nat, rescans : Nat] /\ used'.rescans = used.rescans
  <2>1. used \in [forks : Nat, faults : Nat, rescans : Nat]
    BY DEF WalletPart, TypeInv
  <2>2. used' = used \/ used' = [used EXCEPT !.faults = @ + 1]
    BY DEF Crash, Reopen
  <2> QED BY <2>1, <2>2
<1>3. scan'.at = "idle"
  BY <1>1
<1>4. TypeInv' /\ CopyInv' /\ SoundInv'
  BY <1>1, <1>2, <1>3 DEF WalletPart, TypeInv, CopyInv, SoundInv, Copying, Busy
<1>5. ExactInv'
  BY <1>1, <1>3 DEF WalletPart, ExactInv, Copying, Busy
<1>6. WithheldInv'
  BY <1>1, <1>3 DEF WalletPart, WithheldInv, Withholds, Copying, Busy
<1>7. AgreeInv' /\ VaultIsLive'
  BY <1>1, AgreesSelf DEF AgreeInv, VaultIsLive
<1>8. SentInv'
  BY <1>1, <1>2, <1>3 DEF WalletPart, SentInv
<1> QED BY <1>4, <1>5, <1>6, <1>7, <1>8 DEF WalletPart

-----------------------------------------------------------------------------
(* The background scan, once its copy is ready *)

\* commit_scan
LEMMA ScanCommits ==
    ASSUME WalletPart, CommitScan
    PROVE  WalletPart'
<1> DEFINE n == scan.copy
           replaces == revived' = revived \cup Undone(live, n) /\ mixed' = (mixed \/ Mixes(live, n, scan.short))
<1>1. scan.at = "commit" /\ sent' = sent
  BY DEF CommitScan, ScanGoes
<1>2. \/ scan' = ScanEnds /\ UNCHANGED <<live, saved, open, revived, mixed, used>>
      \/ /\ open /\ UNCHANGED <<live, saved, open, revived, mixed, used>>
         /\ scan' = [at |-> "copied", base |-> live, copy |-> live, behind |-> ~NodeSettled]
      \/ /\ open /\ live = scan.base /\ Saves(n) /\ replaces
         /\ \/ scan' = [at |-> "copied", base |-> n, copy |-> n, behind |-> ~NodeSettled]
            \/ scan' = [at |-> "release", changed |-> scan.changed]
      \/ /\ open /\ live = scan.base /\ SaveFails(n, FALSE) /\ scan' = ScanEnds
         /\ (saved' = saved /\ UNCHANGED <<revived, mixed>>) \/ (saved' # saved /\ replaces)
  BY DEF CommitScan, ScanGoes, StandsStill, NothingEdited, Replaces
<1>3. CASE scan' = ScanEnds /\ UNCHANGED <<live, saved, open, revived, mixed, used>>
  BY <1>1, <1>3, ScanStops
<1>4. CASE /\ open /\ UNCHANGED <<live, saved, open, revived, mixed, used>>
           /\ scan' = [at |-> "copied", base |-> live, copy |-> live, behind |-> ~NodeSettled]
  <2>1. scan'.at = "copied" /\ scan'.base = live /\ scan'.copy = live
    BY <1>4
  <2>2. scan'.at \in Busy
    BY <2>1 DEF Busy
  <2> QED BY <1>1, <1>4, <2>1, <2>2, ScanCopies
<1>5. ASSUME open, live = scan.base
      PROVE  /\ Sound(live) /\ Sound(n) /\ Descends(live, n) /\ Withholds(live) /\ Withholds(saved)
             /\ Agrees(saved, live) /\ (Vaulted => live = saved)
             /\ ~mixed => Exact(live) /\ Exact(saved)
             /\ ~mixed /\ ~Mixes(live, n, scan.short) => Exact(n)
  <2>1. scan.at \in Copying
    BY <1>1 DEF Copying
  <2> QED BY <1>1, <1>5, <2>1
             DEF WalletPart, CopyInv, SoundInv, ExactInv, WithheldInv, AgreeInv, VaultIsLive
<1>6. ASSUME open, live = scan.base, replaces
      PROVE  /\ \A p \in revived' : p \in DOMAIN n.sends => n.sends[p].withheld
             /\ mixed' \in BOOLEAN /\ (~mixed' => ~mixed /\ Exact(n) /\ Exact(saved) /\ Exact(live))
  <2>1. Descends(live, n) /\ Withholds(live)
    BY <1>5, <1>6
  <2>2. Withholds(n)
    BY <2>1, DescendsWithholds
  <2>3. \A p \in Undone(live, n) : n.sends[p].withheld
    BY <2>1 DEF Descends, Undone
  <2>4. mixed \in BOOLEAN
    BY DEF WalletPart, TypeInv
  <2> QED BY <1>5, <1>6, <2>2, <2>3, <2>4 DEF Withholds
<1>7. CASE /\ open /\ live = scan.base /\ Saves(n) /\ replaces
           /\ \/ scan' = [at |-> "copied", base |-> n, copy |-> n, behind |-> ~NodeSettled]
              \/ scan' = [at |-> "release", changed |-> scan.changed]
  <2>1. /\ live' = n /\ open' = open /\ used' = used
        /\ saved' = n \/ (n = live /\ saved' = saved)
        /\ Sound(live') /\ Sound(saved') /\ AgreeInv' /\ VaultIsLive'
    BY <1>5, <1>7, SavesIs
  <2>2. \/ scan'.at = "copied" /\ scan'.base = n /\ scan'.copy = n
        \/ scan'.at = "release"
    BY <1>7
  <2>3. /\ \A p \in revived' : p \in DOMAIN n.sends => n.sends[p].withheld
        /\ mixed' \in BOOLEAN /\ (~mixed' => ~mixed /\ Exact(n) /\ Exact(saved) /\ Exact(live))
    BY <1>6, <1>7
  <2>4. Withholds(live)' /\ Withholds(saved)'
    <3>1. Withholds(live)'
      BY <2>1, <2>3 DEF Withholds
    <3>2. CASE saved' = n
      BY <2>3, <3>1, <3>2 DEF Withholds
    <3>3. CASE n = live /\ saved' = saved
      <4>1. Undone(live, n) = {}
        BY <3>3 DEF Undone
      <4>2. revived' = revived
        BY <1>7, <4>1
      <4> QED BY <1>5, <1>7, <3>1, <3>3, <4>2 DEF Withholds
    <3> QED BY <2>1, <3>1, <3>2, <3>3
  <2>5. TypeInv'
    BY <2>1, <2>2, <2>3 DEF WalletPart, TypeInv, Copying, Busy
  <2>6. CopyInv'
    BY <1>7, <2>1, <2>2, DescendsSelf DEF CopyInv, Copying, Busy
  <2>7. SoundInv'
    BY <1>5, <1>7, <2>1, <2>2 DEF SoundInv, Copying, Busy
  <2>8. ExactInv'
    BY <2>1, <2>2, <2>3 DEF ExactInv, Copying, Busy
  <2>9. WithheldInv'
    BY <2>2, <2>3, <2>4 DEF WithheldInv, Withholds, Copying, Busy
  <2>10. SentInv'
    <3>1. DOMAIN n.sends = DOMAIN live.sends
      BY <1>5, <1>7 DEF Descends
    <3>2. Vaulted => DOMAIN saved'.sends = DOMAIN saved.sends
      BY <1>5, <1>7, <2>1, <3>1
    <3> QED BY <1>1, <2>1, <2>2, <3>2 DEF WalletPart, SentInv
  <2> QED BY <2>1, <2>5, <2>6, <2>7, <2>8, <2>9, <2>10 DEF WalletPart
<1>8. CASE /\ open /\ live = scan.base /\ SaveFails(n, FALSE) /\ scan' = ScanEnds
           /\ (saved' = saved /\ UNCHANGED <<revived, mixed>>) \/ (saved' # saved /\ replaces)
  <2>1. /\ used' \in [forks : Nat, faults : Nat, rescans : Nat] /\ used'.rescans = used.rescans
        /\ live' = live
        /\ (saved' = saved /\ open' = open) \/ (saved' = n /\ open' = FALSE)
        /\ Sound(live') /\ Sound(saved') /\ AgreeInv' /\ VaultIsLive'
    BY <1>5, <1>8, SaveFailsIs
  <2>2. scan'.at = "idle"
    BY <1>8 DEF ScanEnds
  <2>3. /\ mixed' \in BOOLEAN
        /\ ~mixed' => Exact(live') /\ Exact(saved')
        /\ Withholds(saved)' /\ (open' => Withholds(live)')
    <3>1. CASE saved' = saved /\ UNCHANGED <<revived, mixed>>
      BY <1>5, <1>8, <2>1, <3>1 DEF WalletPart, TypeInv, Withholds
    <3>2. CASE saved' # saved /\ replaces
      <4>1. /\ \A p \in revived' : p \in DOMAIN n.sends => n.sends[p].withheld
            /\ mixed' \in BOOLEAN /\ (~mixed' => ~mixed /\ Exact(n) /\ Exact(saved) /\ Exact(live))
        BY <1>6, <1>8, <3>2
      <4> QED BY <2>1, <3>2, <4>1 DEF Withholds
    <3> QED BY <1>8, <3>1, <3>2
  <2>4. DOMAIN n.sends = DOMAIN live.sends
    BY <1>5, <1>8 DEF Descends
  <2>5. Vaulted => DOMAIN saved'.sends = DOMAIN saved.sends
    BY <1>5, <1>8, <2>1, <2>4
  <2>6. TypeInv' /\ CopyInv' /\ SoundInv'
    BY <2>1, <2>2, <2>3 DEF WalletPart, TypeInv, CopyInv, SoundInv, Copying, Busy
  <2>7. ExactInv'
    BY <2>2, <2>3 DEF ExactInv, Copying, Busy
  <2>8. WithheldInv'
    BY <2>2, <2>3 DEF WithheldInv, Withholds, Copying, Busy
  <2>9. SentInv'
    BY <1>1, <2>1, <2>2, <2>5 DEF WalletPart, SentInv
  <2> QED BY <2>1, <2>6, <2>7, <2>8, <2>9 DEF WalletPart
<1> QED BY <1>2, <1>3, <1>4, <1>7, <1>8

\* A wallet whose scan ends at the node's tip was scanned to the node's chain.
LEMMA CanonicalIsChain ==
    ASSUME GoodChain(chain), Birth \in Nat, live \in Wallets, live.anchor # <<>>, IsCanonical(live, chain)
    PROVE  live.anchor = chain
<1>1. live.scanned \in Nat /\ live.scanned >= Birth
  BY WalletFields
<1>2. ScanFrom(live) = Tip(chain) /\ live.anchor = Upto(chain, live.scanned)
  BY DEF IsCanonical, AnchorHolds
<1>3. ScanFrom(live) = live.scanned
  BY <1>1 DEF ScanFrom
<1> QED BY <1>2, <1>3, UptoTip

\* release_impossible_sends
LEMMA ScanReleases ==
    ASSUME WalletPart, ChainInv, WalletAssumption, Release
    PROVE  WalletPart'
<1>0. GoodChain(chain) /\ Birth \in Nat
  BY DEF WalletAssumption, ChainInv
<1>1. scan.at = "release" /\ UNCHANGED <<sent, revived, mixed>>
  BY DEF Release, ScanGoes
<1>2. PICK P \in SUBSET (IF MayRelease(live) THEN ImpossibleSends(live) ELSE {}) :
         \/ /\ Saves(Released(live, P))
            /\ scan' = IF scan.changed THEN ScanEnds ELSE [at |-> "relay", copy |-> Released(live, P)]
         \/ /\ SaveFails(Released(live, P), FALSE)
            /\ scan' = IF scan.changed \/ ~open' THEN ScanEnds ELSE [at |-> "relay", copy |-> live]
  BY DEF Release, ScanGoes
<1> DEFINE n == Released(live, P)
<1>3. /\ open /\ Sound(live) /\ Withholds(live) /\ Withholds(saved)
      /\ Agrees(saved, live) /\ (Vaulted => live = saved)
      /\ ~mixed => Exact(live) /\ Exact(saved)
  BY <1>1 DEF WalletPart, CopyInv, SoundInv, ExactInv, WithheldInv, AgreeInv, VaultIsLive
<1>4. P \subseteq Pending(live) /\ (P # {} => MayRelease(live))
  BY DEF ImpossibleSends
<1>5. P # {} /\ live.anchor # <<>> => live.anchor = chain
  BY <1>0, <1>3, <1>4, CanonicalIsChain DEF Sound, MayRelease
<1>6. Sound(n) /\ ReleasedAs(live, n, P) /\ (~mixed => Exact(n))
  BY <1>3, <1>4, <1>5, ReleasedSound
<1>7. \/ Saves(n) /\ (scan' = ScanEnds \/ scan' = [at |-> "relay", copy |-> n])
      \/ /\ SaveFails(n, FALSE)
         /\ scan' = ScanEnds \/ (open' /\ scan' = [at |-> "relay", copy |-> live])
  BY <1>2
<1> HIDE DEF n
<1>8. /\ DOMAIN n.sends = DOMAIN live.sends
      /\ \A q \in DOMAIN live.sends : live.sends[q].withheld => n.sends[q].withheld
  BY <1>6 DEF ReleasedAs
<1>9. Withholds(n)
  BY <1>3, <1>8 DEF Withholds
<1>10. /\ used' \in [forks : Nat, faults : Nat, rescans : Nat] /\ used'.rescans = used.rescans
       /\ live' \in {live, n} /\ saved' \in {saved, n} /\ open' \in BOOLEAN
       /\ Sound(live') /\ Sound(saved') /\ AgreeInv' /\ VaultIsLive'
       /\ \/ scan'.at = "idle"
          \/ scan'.at = "relay" /\ scan'.copy \in {live, n}
  <2>1. CASE Saves(n) /\ (scan' = ScanEnds \/ scan' = [at |-> "relay", copy |-> n])
    <3>1. /\ used' = used /\ open' = open /\ live' = n /\ (saved' = n \/ saved' = saved)
          /\ Sound(live') /\ Sound(saved') /\ AgreeInv' /\ VaultIsLive'
      BY <1>3, <1>6, <2>1, SavesIs
    <3>2. scan'.at = "idle" \/ (scan'.at = "relay" /\ scan'.copy = n)
      BY <2>1 DEF ScanEnds
    <3> QED BY <3>1, <3>2 DEF WalletPart, TypeInv
  <2>2. CASE /\ SaveFails(n, FALSE)
             /\ scan' = ScanEnds \/ (open' /\ scan' = [at |-> "relay", copy |-> live])
    <3>1. /\ used' \in [forks : Nat, faults : Nat, rescans : Nat] /\ used'.rescans = used.rescans
          /\ live' = live /\ (saved' = n \/ saved' = saved) /\ (open' = open \/ open' = FALSE)
          /\ Sound(live') /\ Sound(saved') /\ AgreeInv' /\ VaultIsLive'
      BY <1>3, <1>6, <2>2, SaveFailsIs
    <3>2. scan'.at = "idle" \/ (scan'.at = "relay" /\ scan'.copy = live)
      BY <2>2 DEF ScanEnds
    <3> QED BY <3>1, <3>2 DEF WalletPart, TypeInv
  <2> QED BY <1>7, <2>1, <2>2
<1>11. scan'.at \notin Copying /\ scan'.at # "release" /\ scan'.at \in Copying \cup {"idle", "release", "relay"}
  BY <1>10 DEF Copying, Busy
<1>12. TypeInv' /\ CopyInv' /\ SoundInv'
  <2>1. TypeInv'
    BY <1>1, <1>10, <1>11 DEF WalletPart, TypeInv
  <2>2. CopyInv' /\ SoundInv'
    BY <1>10, <1>11 DEF CopyInv, SoundInv, Copying
  <2> QED BY <2>1, <2>2
<1>13. ExactInv'
  BY <1>1, <1>3, <1>6, <1>10, <1>11 DEF ExactInv, Copying
<1>14. WithheldInv'
  <2>1. /\ \A p \in revived' : p \in DOMAIN live.sends => live.sends[p].withheld
        /\ \A p \in revived' : p \in DOMAIN saved.sends => saved.sends[p].withheld
        /\ \A p \in revived' : p \in DOMAIN n.sends => n.sends[p].withheld
    BY <1>1, <1>3, <1>9 DEF Withholds
  <2>2. Withholds(live)' /\ Withholds(saved)'
    BY <1>10, <2>1 DEF Withholds
  <2>3. scan'.at = "relay" => \A p \in revived' : p \in DOMAIN scan'.copy.sends => scan'.copy.sends[p].withheld
    BY <1>10, <2>1
  <2> QED BY <1>11, <2>2, <2>3 DEF WithheldInv, Withholds, Copying
<1>15. SentInv'
  <2>1. Vaulted => DOMAIN saved'.sends = DOMAIN live.sends /\ DOMAIN saved.sends = DOMAIN live.sends
    BY <1>3, <1>8, <1>10
  <2>2. scan'.at = "relay" => DOMAIN scan'.copy.sends = DOMAIN live.sends
    BY <1>8, <1>10
  <2> QED BY <1>1, <1>10, <2>1, <2>2 DEF WalletPart, SentInv
<1> QED BY <1>10, <1>12, <1>13, <1>14, <1>15 DEF WalletPart

\* resend_pending
LEMMA ScanRelays ==
    ASSUME WalletPart, Relay
    PROVE  WalletPart' /\ auto' \cap revived' = {}
<1>1. /\ scan.at = "relay" /\ scan' = ScanEnds
      /\ UNCHANGED <<live, saved, open, revived, mixed, used>>
  BY DEF Relay, StandsStill
<1>2. sent' = sent \cup auto' /\ auto' \subseteq Resendable(scan.copy)
  BY DEF Relay
<1>3. auto' \subseteq DOMAIN scan.copy.sends /\ \A p \in auto' : ~scan.copy.sends[p].withheld
  BY <1>2 DEF Resendable, Pending
<1>4. auto' \cap revived' = {}
  BY <1>1, <1>3 DEF WalletPart, WithheldInv, Withholds
<1>5. scan'.at = "idle"
  BY <1>1 DEF ScanEnds
<1>6. TypeInv' /\ CopyInv' /\ SoundInv'
  BY <1>1, <1>5 DEF WalletPart, TypeInv, CopyInv, SoundInv, Copying, Busy
<1>7. ExactInv'
  BY <1>1, <1>5 DEF WalletPart, ExactInv, Copying, Busy
<1>8. WithheldInv'
  BY <1>1, <1>5 DEF WalletPart, WithheldInv, Withholds, Copying, Busy
<1>9. AgreeInv' /\ VaultIsLive'
  BY <1>1 DEF WalletPart, AgreeInv, VaultIsLive
<1>10. SentInv'
  BY <1>1, <1>2, <1>3, <1>5 DEF WalletPart, SentInv
<1> QED BY <1>4, <1>6, <1>7, <1>8, <1>9, <1>10 DEF WalletPart

-----------------------------------------------------------------------------
(* Every step *)

\* The steps of the background scan.
LEMMA ScanStepsKeep ==
    ASSUME WalletPart, ChainInv, WalletAssumption, ScanStep
    PROVE  WalletPart' /\ UNCHANGED <<chain, goal>> /\ auto' \cap revived' = {}
<1>1. UNCHANGED <<chain, goal>>
  BY DEF ScanStep, BeginScan, Compare, ReadPage, ChooseRepair, Reconcile, Rebase,
         CommitScan, Release, Relay, ScanGoes
<1>2. CASE Relay
  BY <1>1, <1>2, ScanRelays
<1>3. CASE ~Relay
  <2>1. auto' = {}
    BY <1>3 DEF ScanStep, BeginScan, Compare, ReadPage, ChooseRepair, Reconcile, Rebase,
                CommitScan, Release, ScanGoes
  <2>2. WalletPart'
    BY <1>3, ScanGoesOn, ScanReads, ScanReconciles, ScanRebases, ScanCommits, ScanReleases DEF ScanStep
  <2> QED BY <1>1, <2>1, <2>2
<1> QED BY <1>2, <1>3

\* The invariant is inductive, and nothing undone is on the wire.
LEMMA StepsKeep ==
    ASSUME WalletInv, WalletAssumption, Next
    PROVE  WalletInv' /\ NoAutomaticRevival'
<1>0. WalletPart /\ ChainInv /\ Sound(live)
  BY DEF WalletInv, WalletPart, SoundInv
<1>1. CASE Mine \/ Reorg \/ Download
  <2>1. UNCHANGED <<live, saved, open, scan, sent, revived, mixed>> /\ auto' = {}
    BY <1>1 DEF Mine, Reorg, Download, WalletKept
  <2>2. used' \in [forks : Nat, faults : Nat, rescans : Nat] /\ used'.rescans = used.rescans
    <3>1. used \in [forks : Nat, faults : Nat, rescans : Nat]
      BY <1>0 DEF WalletPart, TypeInv
    <3>2. used' = used \/ used' = [used EXCEPT !.forks = @ + 1]
      BY <1>1 DEF Mine, Reorg, Download
    <3> QED BY <3>1, <3>2
  <2>3. WalletPart'
    BY <1>0, <2>1, <2>2, NothingMoves
  <2>4. ChainInv'
    BY <1>0, <1>1, ChainMoves
  <2> QED BY <2>1, <2>3, <2>4 DEF WalletInv, WalletPart, NoAutomaticRevival
<1>2. CASE \E p \in Pays : Send(p) \/ RetryWithheld(p)
  <2>1. PICK p \in Pays : Send(p) \/ RetryWithheld(p)
    BY <1>2
  <2>2. UNCHANGED <<chain, goal>> /\ auto' = {}
    BY <2>1 DEF Send, RetryWithheld
  <2>3. WalletPart'
    BY <1>0, <2>1, OwnerSends, OwnerRetries
  <2>4. ChainInv'
    BY <1>0, <2>2 DEF ChainInv
  <2> QED BY <2>2, <2>3, <2>4 DEF WalletInv, WalletPart, NoAutomaticRevival
<1>3. CASE Rescan \/ Crash \/ Reopen
  <2>1. UNCHANGED <<chain, goal>> /\ auto' = {}
    BY <1>3 DEF Rescan, Crash, Reopen
  <2>2. WalletPart'
    BY <1>0, <1>3, OwnerRescans, OwnerRestarts
  <2>3. ChainInv'
    BY <1>0, <2>1 DEF ChainInv
  <2> QED BY <2>1, <2>2, <2>3 DEF WalletInv, WalletPart, NoAutomaticRevival
<1>4. CASE ScanStep
  <2>1. WalletPart' /\ UNCHANGED <<chain, goal>> /\ auto' \cap revived' = {}
    BY <1>0, <1>4, ScanStepsKeep
  <2>2. ChainInv'
    BY <1>0, <2>1 DEF ChainInv
  <2> QED BY <2>1, <2>2 DEF WalletInv, WalletPart, NoAutomaticRevival
<1> QED BY <1>1, <1>2, <1>3, <1>4 DEF Next

\* A stuttering step.
LEMMA StutterKeeps ==
    ASSUME WalletInv, NoAutomaticRevival, UNCHANGED vars
    PROVE  WalletInv' /\ NoAutomaticRevival'
<1>1. /\ UNCHANGED <<live, saved, open, scan, sent, revived, mixed, used>>
      /\ UNCHANGED <<chain, goal, auto>>
  BY DEF vars
<1>2. used \in [forks : Nat, faults : Nat, rescans : Nat]
  BY DEF WalletInv, TypeInv
<1>3. WalletPart'
  BY <1>1, <1>2, NothingMoves DEF WalletInv, WalletPart
<1>4. ChainInv' /\ NoAutomaticRevival'
  BY <1>1 DEF WalletInv, ChainInv, NoAutomaticRevival
<1> QED BY <1>3, <1>4 DEF WalletInv, WalletPart

\* Initially.
LEMMA InitKeeps ==
    ASSUME Init, WalletAssumption
    PROVE  WalletInv /\ NoAutomaticRevival
<1>1. WalletPart /\ ChainInv
  BY InitWallets, InitChain
<1>2. auto = {}
  BY DEF Init
<1> QED BY <1>1, <1>2 DEF WalletInv, WalletPart, NoAutomaticRevival

-----------------------------------------------------------------------------
(* What follows *)

\* WalletInv is an invariant of the specification: the wallet in memory, the one on
\* disk and the copies of the scan are sound, and exact unless two chains were mixed;
\* what was undone is withheld; the file's payments are the wallet's; and a vault
\* holds what the network was given.
THEOREM WalletInvariant == Spec => [](WalletInv /\ NoAutomaticRevival)
<1> USE WalletAssumption
<1>1. Init => WalletInv /\ NoAutomaticRevival
  BY InitKeeps
<1>2. WalletInv /\ NoAutomaticRevival /\ [Next]_vars => (WalletInv /\ NoAutomaticRevival)'
  BY StepsKeep, StutterKeeps
<1> QED BY <1>1, <1>2, PTL DEF Spec

\* NoAutomaticRevival: what the relay (resend_pending) puts on the wire unasked was
\* never confirmed and then undone, in whatever order scan, reorg, relay and
\* restart come.
THEOREM UndoneIsNotResent == Spec => []NoAutomaticRevival
BY WalletInvariant, PTL

\* NoDoubleSigning: no two payments the wallet stands by spend one coin, whatever
\* chain its scan has followed and whichever save has failed.
THEOREM SignsOnce == Spec => []NoDoubleSigning
<1>1. WalletInv => NoDoubleSigning
  BY DEF WalletInv, SoundInv, Sound, Disjoint, NoDoubleSigning
<1> QED BY <1>1, WalletInvariant, PTL

\* ScanIsTheChain: at require_canonical_scan, before anything is signed, the wallet
\* has exactly the outputs of the node's chain and selects exactly the unspent and
\* unclaimed, unless it has mixed two chains.
THEOREM ScanIsExact == Spec => []ScanIsTheChain
<1> USE WalletAssumption
<1>1. WalletInv => ScanIsTheChain
  <2> SUFFICES ASSUME WalletInv, ~mixed, open, IsCanonical(live, chain), live.anchor # <<>>
               PROVE  /\ DOMAIN live.outs = Created(chain)
                      /\ Selectable(live) = Utxo(chain) \ PendingInputs(live)
    BY DEF ScanIsTheChain, ScanIsAlwaysTheChain
  <2>1. GoodChain(chain) /\ Sound(live) /\ Exact(live) /\ Birth \in Nat
    BY DEF WalletInv, ChainInv, SoundInv, ExactInv, WalletAssumption
  <2>2. live.anchor = chain
    BY <2>1, CanonicalIsChain DEF Sound
  <2>3. Created(chain) \subseteq DOMAIN live.outs
    BY <2>1, <2>2 DEF Sound, KnowsAnchor
  <2>4. \A c \in DOMAIN live.outs :
           /\ c \in Created(chain)
           /\ c \in Consumed(chain) => live.outs[c].spent
           /\ live.outs[c].spent => c \in Consumed(chain) \/ c \in PendingInputs(live)
    BY <2>1, <2>2 DEF Exact, KnowsOnlyAnchor
  <2>5. DOMAIN live.outs = Created(chain)
    BY <2>3, <2>4
  <2>6. Selectable(live) = Utxo(chain) \ PendingInputs(live)
    BY <2>4, <2>5 DEF Selectable, Utxo
  <2> QED BY <2>5, <2>6
<1> QED BY <1>1, WalletInvariant, PTL

\* BroadcastIsSaved, for a wallet kept in a vault: what any node was given, by send,
\* retry_withheld or the relay, is in the wallet's file.
THEOREM BroadcastSaved ==
    ASSUME Vaulted
    PROVE  Spec => []BroadcastIsSaved
<1>1. WalletInv => BroadcastIsSaved
  BY DEF WalletInv, SentInv, BroadcastIsSaved
<1> QED BY <1>1, WalletInvariant, PTL

\* What one step gives up in the wallet's file.
LEMMA GivenUp ==
    ASSUME WalletInv, WalletAssumption, Next,
           NEW p \in DOMAIN saved.sends \cap DOMAIN saved'.sends,
           ~saved.sends[p].failed, saved'.sends[p].failed
    PROVE  ~(saved.sends[p].ins \subseteq Utxo(goal))
<1>1. saved' # saved
  OBVIOUS
<1>2. Sound(live) /\ (open => Agrees(saved, live))
  BY DEF WalletInv, SoundInv, AgreeInv
<1>3. ASSUME open
      PROVE  p \in DOMAIN live.sends /\ live.sends[p].ins = saved.sends[p].ins /\ ~live.sends[p].failed
  BY <1>2, <1>3 DEF Agrees
<1>4. ASSUME NEW q \in Pays, Send(q) PROVE FALSE
  <2>1. PICK ins \in SUBSET Selectable(live) :
           Saves(Signed(live, q, ins)) \/ SaveFails(Signed(live, q, ins), TRUE)
    BY <1>4 DEF Send
  <2> DEFINE w == Signed(live, q, ins)
  <2>2. open /\ q \notin DOMAIN live.sends
    BY <1>4 DEF Send, Unlocked
  <2>3. SignedAs(live, w, q, ins)
    BY <1>2, <2>2, SignedSound
  <2>4. saved' \in {saved, w}
    BY <2>1 DEF Saves, SaveFails
  <2> HIDE DEF w
  <2>5. w.sends[p] = live.sends[p]
    BY <1>3, <2>2, <2>3 DEF SignedAs
  <2> QED BY <1>1, <1>3, <2>2, <2>4, <2>5
<1>5. ASSUME Rescan PROVE FALSE
  <2>1. saved' = NewWallet /\ DOMAIN NewWallet.sends = {}
    BY <1>5, NewWalletIs DEF Rescan, WalletAssumption
  <2> QED BY <2>1
<1>6. ASSUME CommitScan PROVE FALSE
  <2>1. scan.at = "commit" /\ open /\ live = scan.base /\ saved' \in {saved, scan.copy}
    BY <1>1, <1>6 DEF CommitScan, StandsStill, NothingEdited, Saves, SaveFails
  <2>2. Descends(live, scan.copy)
    BY <2>1 DEF WalletInv, CopyInv, Copying
  <2>3. ~scan.copy.sends[p].failed
    BY <1>3, <2>1, <2>2 DEF Descends
  <2> QED BY <1>1, <2>1, <2>3
<1>7. CASE Release
  <2>1. PICK P \in SUBSET (IF MayRelease(live) THEN ImpossibleSends(live) ELSE {}) :
           Saves(Released(live, P)) \/ SaveFails(Released(live, P), FALSE)
    BY <1>7 DEF Release
  <2> DEFINE n == Released(live, P)
  <2>2. P \subseteq Pending(live)
    BY DEF ImpossibleSends
  <2>3. ReleasedAs(live, n, P)
    BY <1>2, <2>2, ReleasedSound
  <2>4. saved' \in {saved, n} /\ open
    BY <1>7, <2>1 DEF Saves, SaveFails, Release, WalletInv, CopyInv
  <2> HIDE DEF n
  <2>5. p \in P
    BY <1>1, <1>3, <2>3, <2>4 DEF ReleasedAs
  <2>6. MayRelease(live) /\ p \in ImpossibleSends(live)
    BY <2>5
  <2>7. chain = goal /\ ~(live.sends[p].ins \subseteq Utxo(chain))
    BY <2>6 DEF MayRelease, NodeSettled, ImpossibleSends
  <2> QED BY <1>3, <2>4, <2>7
<1>8. \/ \E q \in Pays : Send(q)
      \/ Rescan \/ CommitScan \/ Release
  BY <1>1 DEF Next, Mine, Reorg, Download, WalletKept, RetryWithheld, Crash, Reopen, ScanStep,
              BeginScan, Compare, ReadPage, ChooseRepair, Reconcile, Rebase, Relay, StandsStill
<1> QED BY <1>4, <1>5, <1>6, <1>7, <1>8

\* GivesUpOnlyImpossible: release_impossible_sends gives a payment up in the wallet's
\* file only if the chain the network is on, not the one the node happens to have
\* while it downloads, cannot take the payment; nothing else gives one up.
THEOREM GivesUpOnlyThen == Spec => GivesUpOnlyImpossible
<1> USE WalletAssumption
<1>1. WalletInv /\ [Next]_vars =>
         [\A p \in DOMAIN saved.sends \cap DOMAIN saved'.sends :
             ~saved.sends[p].failed /\ saved'.sends[p].failed =>
                 ~(saved.sends[p].ins \subseteq Utxo(goal))]_vars
  BY GivenUp
<1> QED BY <1>1, WalletInvariant, PTL DEF Spec, GivesUpOnlyImpossible
=============================================================================

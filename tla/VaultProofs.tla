---------------------------- MODULE VaultProofs -----------------------------
(***************************************************************************)
(* What Vault promises, for any number of edits: the four invariants of its *)
(* run follow from one inductive invariant, VaultInv.                      *)
(*                                                                         *)
(* Two things carry the argument.  The plan of file operations is in order  *)
(* (InOrder): what is published was synced, what was synced was renamed,    *)
(* and it is the same snapshot.  And what a power cut may bring back is     *)
(* never worse than what is on disk: WalletIsSomewhere and                  *)
(* ReleasedIsEverywhere are about the files as they are and as they were    *)
(* synced, at once.                                                        *)
(***************************************************************************)
EXTENDS Vault, TLAPS, SequenceTheorems

-----------------------------------------------------------------------------
(* The invariant *)

Versions == 0..MaxEdits
CommitOps == {"rename", "syncVault", "install", "publish"}
RetireOps == {"hold", "removeDb", "tombstone", "syncRoot", "retired"}
Ops == [op : {"rename", "install", "publish"}, ver : Versions]
       \cup [op : {"syncVault"} \cup RetireOps]

Files == [seed : {"plain", "tomb", None}, db : Versions \cup {None},
          marker : BOOLEAN, snapshot : Versions \cup {None}]

VaultTypes ==
    /\ fs \in Files /\ synced \in Files
    /\ mode \in {"off", "plain", "vault"}
    /\ mem \in Versions \cup {None} /\ disk \in Versions \cup {None}
    /\ released \in Versions \cup {None}
    /\ unusable \in BOOLEAN /\ used \in BOOLEAN /\ unsure \in BOOLEAN
    /\ todo \in Seq(Ops)
    /\ mode = "plain" => mem # None

\* Which operation may stand directly before which.
Follows(a, b) ==
    \/ a = "rename"    /\ b = "syncVault"
    \/ a = "syncVault" /\ b \in {"install", "publish"}
    \/ a = "install"   /\ b = "hold"
    \/ a = "hold"      /\ b \in {"removeDb", "tombstone", "syncRoot"}
    \/ a = "removeDb"  /\ b = "syncRoot"
    \/ a = "tombstone" /\ b = "syncRoot"
    \/ a = "syncRoot"  /\ b \in {"tombstone", "syncRoot", "retired"}

\* A plan, or what is left of one: what is handed out two operations after the rename
\* is what was renamed.
InOrder(ops) ==
    /\ \A i \in DOMAIN ops : i > 1 => Follows(ops[i - 1].op, ops[i].op)
    /\ \A i \in DOMAIN ops : i > 2 /\ ops[i].op \in {"install", "publish"} =>
          ops[i - 2].op = "rename" /\ ops[i - 2].ver = ops[i].ver

NextOp == todo[1].op

\* A commit that has begun: what is to be shown is in the file, once renamed.
Committing ==
    \A i \in DOMAIN todo : todo[i].op \in {"install", "publish"} =>
        /\ i <= 2 => fs.snapshot = todo[i].ver
        /\ i = 1 => synced.snapshot = todo[i].ver
        /\ todo[i].op = "install" => mem = None /\ released = None
        /\ todo[i].op = "publish" => released # None /\ released <= todo[i].ver

NoOlder(ver) == released = None \/ released <= ver

\* What a commit puts in place is no older than what was shown.
NotForgetting ==
    /\ todo # <<>> /\ NextOp = "rename" => NoOlder(todo[1].ver)
    /\ todo # <<>> /\ NextOp = "syncVault" => fs.snapshot # None /\ NoOlder(fs.snapshot)

\* Nothing renamed waits for its fsync, that this process knows of.
SnapshotsAgree == unsure \/ fs.snapshot = synced.snapshot

\* Retirement begins and goes on with the session's own snapshot in place.
Retiring ==
    todo # <<>> /\ NextOp \in RetireOps =>
        disk = fs.snapshot /\ disk # None /\ SnapshotsAgree

\* Past its first step a plan has declared the session unusable.
OnlyUnusable ==
    todo # <<>> /\ NextOp \notin {"rename", "hold"} => unusable

\* A session that may be used is the snapshot on disk, synced unless it was opened unsynced.
Usable ==
    mode = "vault" /\ ~unusable =>
        /\ disk = fs.snapshot /\ mem \in {None, disk}
        /\ SnapshotsAgree

\* The seed file is synced wherever a session could be unlocked or edited.
RootIsSynced ==
    mode = "vault" /\ (~unusable \/ (todo # <<>> /\ NextOp \in CommitOps \cup {"retired"})) =>
        fs.seed = synced.seed

\* An unlocked session shows what was last released.
ShownIsReleased == mode = "vault" /\ mem # None => released = mem

\* The keys are in the files as they are and in the files as synced, in the same form.
WalletIsSomewhere ==
    \/ unsure \/ ~used
    \/ fs.seed = "plain" /\ synced.seed = "plain"
    \/ fs.snapshot # None /\ synced.snapshot # None

HoldsReleased(files) == files.snapshot # None /\ released <= files.snapshot

\* What was released is in both; the plaintext is gone from both.
ReleasedIsEverywhere ==
    released # None =>
        /\ fs.seed = "tomb" /\ synced.seed = "tomb"
        /\ unsure \/ (HoldsReleased(fs) /\ HoldsReleased(synced))

\* Until its directory is synced there has been no vault.
BeforeTheVault ==
    /\ synced.marker => fs.marker
    /\ mode = "plain" => ~synced.marker
    /\ ~synced.marker =>
          /\ mode # "vault" /\ released = None
          /\ fs.snapshot = None /\ synced.snapshot = None
          /\ used => fs.seed = "plain" /\ synced.seed = "plain"

VaultInv ==
    /\ VaultTypes
    /\ todo # <<>> => mode = "vault"
    /\ InOrder(todo)
    /\ Committing /\ NotForgetting /\ Retiring /\ OnlyUnusable /\ Usable /\ RootIsSynced
    /\ ShownIsReleased /\ WalletIsSomewhere /\ ReleasedIsEverywhere /\ BeforeTheVault

-----------------------------------------------------------------------------
(* Plans *)

\* What is left of a plan is in order; its operations move one place up.
LEMMA TailInOrder ==
  ASSUME NEW ops \in Seq(Ops), ops # <<>>, InOrder(ops)
  PROVE  /\ Tail(ops) \in Seq(Ops) /\ InOrder(Tail(ops))
         /\ \A i \in DOMAIN Tail(ops) : i \in Nat \ {0} /\ i + 1 \in DOMAIN ops /\ Tail(ops)[i] = ops[i + 1]
<1>1. /\ Tail(ops) \in Seq(Ops)
      /\ \A i \in DOMAIN Tail(ops) : i \in Nat \ {0} /\ i + 1 \in DOMAIN ops /\ Tail(ops)[i] = ops[i + 1]
  OBVIOUS
<1>2. \A i \in DOMAIN Tail(ops) : i > 1 => i - 1 \in DOMAIN Tail(ops) /\ Tail(ops)[i - 1] = ops[i]
  OBVIOUS
<1>3. \A i \in DOMAIN Tail(ops) : i > 2 => i - 2 \in DOMAIN Tail(ops) /\ Tail(ops)[i - 2] = ops[i - 1]
  OBVIOUS
<1>4. InOrder(Tail(ops))
  <2>1. ASSUME NEW i \in DOMAIN Tail(ops), i > 1 PROVE Follows(Tail(ops)[i - 1].op, Tail(ops)[i].op)
    <3>1. i + 1 \in DOMAIN ops /\ i + 1 > 1 /\ (i + 1) - 1 = i
      BY <1>1, <2>1
    <3>2. Follows(ops[i].op, ops[i + 1].op)
      BY <3>1 DEF InOrder
    <3>3. QED BY <1>1, <1>2, <2>1, <3>2
  <2>2. ASSUME NEW i \in DOMAIN Tail(ops), i > 2, Tail(ops)[i].op \in {"install", "publish"}
        PROVE Tail(ops)[i - 2].op = "rename" /\ Tail(ops)[i - 2].ver = Tail(ops)[i].ver
    BY <1>1, <1>3, <2>2 DEF InOrder
  <2>3. QED BY <2>1, <2>2 DEF InOrder
<1>5. QED BY <1>1, <1>4

\* The second of two plans commits nothing and may stand after the first.
LEMMA GlueInOrder ==
  ASSUME NEW s \in Seq(Ops), NEW t \in Seq(Ops), NEW u \in Seq(Ops),
         NEW n \in Nat, NEW m \in Nat, n = Len(s), m = Len(t), n > 0, m > 0, Len(u) = n + m,
         \A i \in 1..n : u[i] = s[i], \A i \in 1..m : u[n + i] = t[i],
         InOrder(s), InOrder(t), Follows(s[n].op, t[1].op),
         \A i \in DOMAIN t : t[i].op \in RetireOps
  PROVE  InOrder(u)
<1>0. DOMAIN s = 1..n /\ DOMAIN t = 1..m /\ DOMAIN u = 1..(n + m)
  OBVIOUS
<1>1. ASSUME NEW i \in 1..(n + m), i > 1 PROVE Follows(u[i - 1].op, u[i].op)
  <2>1. CASE i <= n
    <3>1. i \in 1..n /\ i - 1 \in 1..n /\ Follows(s[i - 1].op, s[i].op)
      BY <1>0, <1>1, <2>1 DEF InOrder
    <3>2. QED BY <3>1
  <2>2. CASE i = n + 1
    <3>1. i - 1 = n /\ n \in 1..n /\ 1 \in 1..m
      BY <2>2
    <3>2. u[i - 1] = s[n] /\ u[i] = t[1]
      BY <3>1, <2>2
    <3>3. QED BY <3>2
  <2>3. CASE i > n + 1
    <3>1. PICK k \in 1..m : i = n + k /\ k > 1 /\ k - 1 \in 1..m /\ i - 1 = n + (k - 1)
      <4>1. i - n \in 1..m /\ i = n + (i - n) /\ i - n > 1 /\ (i - n) - 1 \in 1..m /\ i - 1 = n + ((i - n) - 1)
        BY <1>1, <2>3
      <4>2. QED BY <4>1
    <3>2. u[i] = t[k] /\ u[i - 1] = t[k - 1]
      BY <3>1
    <3>3. Follows(t[k - 1].op, t[k].op)
      BY <3>1, <1>0 DEF InOrder
    <3>4. QED BY <3>2, <3>3
  <2>4. QED BY <1>1, <2>1, <2>2, <2>3
<1>2. ASSUME NEW i \in 1..(n + m), i > 2, u[i].op \in {"install", "publish"}
      PROVE  u[i - 2].op = "rename" /\ u[i - 2].ver = u[i].ver
  <2>1. i <= n
    <3>1. SUFFICES ASSUME i > n PROVE FALSE
      BY <1>2
    <3>2. i - n \in 1..m /\ i = n + (i - n)
      BY <1>2, <3>1
    <3>3. u[i].op \in RetireOps
      <4>1. u[i] = t[i - n]
        BY <3>2
      <4>2. t[i - n].op \in RetireOps
        BY <1>0, <3>2
      <4>3. QED BY <4>1, <4>2
    <3>4. QED BY <1>2, <3>3 DEF RetireOps
  <2>2. i \in 1..n /\ i - 2 \in 1..n
    BY <1>2, <2>1
  <2>3. QED BY <1>0, <1>2, <2>2 DEF InOrder
<1>3. QED BY <1>0, <1>1, <1>2 DEF InOrder

\* The same, of a concatenation.
LEMMA Glue ==
  ASSUME NEW s \in Seq(Ops), NEW t \in Seq(Ops), s # <<>>, t # <<>>, InOrder(s), InOrder(t),
         Follows(s[Len(s)].op, t[1].op),
         \A i \in DOMAIN t : t[i].op \in RetireOps
  PROVE  /\ s \o t \in Seq(Ops) /\ s \o t # <<>> /\ InOrder(s \o t)
         /\ Len(s \o t) = Len(s) + Len(t)
         /\ \A i \in 1..Len(s) : (s \o t)[i] = s[i]
         /\ \A i \in 1..Len(t) : (s \o t)[Len(s) + i] = t[i]
<1>1. Len(s) \in Nat /\ Len(t) \in Nat /\ Len(s) > 0 /\ Len(t) > 0
  OBVIOUS
<1>2. s \o t \in Seq(Ops) /\ Len(s \o t) = Len(s) + Len(t)
  OBVIOUS
<1>3. \A i \in 1..Len(s) : (s \o t)[i] = s[i]
  OBVIOUS
<1>4. \A i \in 1..Len(t) : (s \o t)[Len(s) + i] = t[i]
  OBVIOUS
<1>5. InOrder(s \o t)
  BY <1>1, <1>2, <1>3, <1>4, GlueInOrder
<1>6. QED
  BY <1>1, <1>2, <1>3, <1>4, <1>5

\* The plan of persist.
LEMMA PersistInOrder ==
  ASSUME NEW v \in Versions, NEW done \in {"install", "publish"}
  PROVE  /\ Persist(v, done) \in Seq(Ops) /\ InOrder(Persist(v, done)) /\ Len(Persist(v, done)) = 3
         /\ Persist(v, done)[1] = [op |-> "rename", ver |-> v]
         /\ Persist(v, done)[2] = [op |-> "syncVault"]
         /\ Persist(v, done)[3] = [op |-> done, ver |-> v]
<1> DEFINE p == Persist(v, done)
<1>1. p \in Seq(Ops)
  BY DEF Persist, Ops
<1>2. /\ Len(p) = 3
      /\ p[1] = [op |-> "rename", ver |-> v]
      /\ p[2] = [op |-> "syncVault"]
      /\ p[3] = [op |-> done, ver |-> v]
  BY DEF Persist
<1> HIDE DEF p
<1>3. InOrder(p)
  BY <1>1, <1>2 DEF InOrder, Follows
<1>4. QED
  BY <1>1, <1>2, <1>3 DEF p

\* A part of a retirement.
Retirement(ops) ==
    /\ ops \in Seq(Ops) /\ ops # <<>> /\ InOrder(ops)
    /\ \A i \in DOMAIN ops : ops[i].op \in RetireOps

\* A single operation of a retirement.
LEMMA OneOp ==
  ASSUME NEW op \in RetireOps
  PROVE  Retirement(Op(op)) /\ Op(op)[1].op = op /\ Op(op)[Len(Op(op))].op = op
<1>1. Op(op) \in Seq(Ops) /\ Op(op) # <<>> /\ Len(Op(op)) = 1 /\ Op(op)[1].op = op
  BY DEF Op, Ops
<1>2. QED
  BY <1>1 DEF Retirement, InOrder

\* Two parts make a part, if the second may follow the first.
LEMMA GlueRetirement ==
  ASSUME NEW s, NEW t, Retirement(s), Retirement(t), Follows(s[Len(s)].op, t[1].op)
  PROVE  Retirement(s \o t) /\ (s \o t)[1] = s[1] /\ (s \o t)[Len(s \o t)] = t[Len(t)]
<1> DEFINE u == s \o t
<1>1. /\ s \in Seq(Ops) /\ t \in Seq(Ops) /\ s # <<>> /\ t # <<>> /\ InOrder(s) /\ InOrder(t)
      /\ \A i \in DOMAIN s : s[i].op \in RetireOps
      /\ \A i \in DOMAIN t : t[i].op \in RetireOps
  BY DEF Retirement
<1>2. /\ u \in Seq(Ops) /\ u # <<>> /\ InOrder(u) /\ Len(u) = Len(s) + Len(t)
      /\ \A i \in 1..Len(s) : u[i] = s[i]
      /\ \A i \in 1..Len(t) : u[Len(s) + i] = t[i]
  BY <1>1, Glue
<1> HIDE DEF u
<1>3. /\ Len(s) \in Nat /\ Len(t) \in Nat /\ Len(s) > 0 /\ Len(t) > 0
      /\ DOMAIN s = 1..Len(s) /\ DOMAIN t = 1..Len(t) /\ DOMAIN u = 1..Len(u)
  BY <1>1, <1>2
<1>4. u[1] = s[1] /\ u[Len(u)] = t[Len(t)]
  BY <1>2, <1>3
<1>5. ASSUME NEW i \in DOMAIN u PROVE u[i].op \in RetireOps
  <2>1. CASE i \in 1..Len(s)
    BY <1>1, <1>2, <1>3, <2>1
  <2>2. CASE i \notin 1..Len(s)
    <3>1. i - Len(s) \in 1..Len(t) /\ i = Len(s) + (i - Len(s))
      BY <1>2, <1>3, <2>2
    <3>2. u[i] = t[i - Len(s)]
      BY <1>2, <3>1
    <3>3. QED BY <1>1, <1>3, <3>1, <3>2
  <2>3. QED BY <2>1, <2>2
<1>6. QED
  BY <1>2, <1>4, <1>5 DEF Retirement, u

\* The plan of a retirement, whichever of its parts are left to do.
LEMMA RetireInOrder ==
  ASSUME NEW db, NEW seed
  PROVE  Retirement(Retire(db, seed)) /\ Retire(db, seed)[1].op = "hold"
<1> DEFINE a == Op("hold")
           b == IF db # None THEN Op("removeDb") \o Op("syncRoot") ELSE <<>>
           c == IF seed # "tomb" THEN Op("tombstone") \o Op("syncRoot") ELSE <<>>
           d == Op("syncRoot")
           e == Op("retired")
<1>1. /\ Retirement(a) /\ Retirement(d) /\ Retirement(e)
      /\ a[1].op = "hold" /\ a[Len(a)].op = "hold" /\ e[1].op = "retired"
      /\ d[1].op = "syncRoot" /\ d[Len(d)].op = "syncRoot"
  BY OneOp DEF RetireOps
<1>2. /\ Retirement(a \o b) /\ (a \o b)[1].op = "hold"
      /\ (a \o b)[Len(a \o b)].op \in {"hold", "syncRoot"}
  <2>1. CASE db # None
    <3>1. Retirement(b) /\ b[1].op = "removeDb" /\ b[Len(b)].op = "syncRoot"
      BY <2>1, OneOp, GlueRetirement DEF Follows, RetireOps
    <3>2. QED BY <1>1, <3>1, GlueRetirement DEF Follows
  <2>2. CASE db = None
    <3>1. a \o b = a
      BY <1>1, <2>2, ConcatEmptySeq DEF Retirement
    <3>2. QED BY <1>1, <3>1
  <2>3. QED BY <2>1, <2>2
<1> DEFINE f == a \o b
<1> HIDE DEF a, b, f
<1>3. /\ Retirement(f \o c) /\ (f \o c)[1].op = "hold"
      /\ (f \o c)[Len(f \o c)].op \in {"hold", "syncRoot"}
  <2>1. CASE seed # "tomb"
    <3>1. Retirement(c) /\ c[1].op = "tombstone" /\ c[Len(c)].op = "syncRoot"
      BY <2>1, OneOp, GlueRetirement DEF Follows, RetireOps
    <3>2. QED BY <1>2, <3>1, GlueRetirement DEF Follows, f
  <2>2. CASE seed = "tomb"
    <3>1. f \o c = f
      BY <1>2, <2>2, ConcatEmptySeq DEF Retirement, f
    <3>2. QED BY <1>2, <3>1 DEF f
  <2>3. QED BY <2>1, <2>2
<1> DEFINE g == f \o c
<1> HIDE DEF c, g
<1>4. /\ Retirement(g \o d) /\ (g \o d)[1].op = "hold"
      /\ (g \o d)[Len(g \o d)].op = "syncRoot"
  BY <1>1, <1>3, GlueRetirement DEF Follows, g
<1> DEFINE h == g \o d
<1> HIDE DEF d, h
<1>5. Retirement(h \o e) /\ (h \o e)[1].op = "hold"
  BY <1>1, <1>4, GlueRetirement DEF Follows, h
<1>6. Retire(db, seed) = h \o e
  BY DEF Retire, a, b, c, d, e, f, g, h
<1>7. QED
  BY <1>5, <1>6

\* What initialize does: a commit, and a retirement of nothing.
LEMMA InitializeInOrder ==
  LET plan == Persist(0, "install") \o Op("hold") \o Op("tombstone") \o Op("syncRoot") \o Op("retired")
  IN  /\ plan \in Seq(Ops) /\ plan # <<>> /\ InOrder(plan)
      /\ plan[1].op = "rename"
      /\ \A i \in DOMAIN plan : plan[i].op \in {"install", "publish"} =>
             i = 3 /\ plan[i].op = "install" /\ plan[i].ver = 0
<1> DEFINE p == Persist(0, "install")
           a == p \o Op("hold")
           b == a \o Op("tombstone")
           c == b \o Op("syncRoot")
           d == c \o Op("retired")
           Plan(s, n, last) ==
               /\ s \in Seq(Ops) /\ s # <<>> /\ InOrder(s) /\ Len(s) = n
               /\ s[1].op = "rename" /\ s[2].op = "syncVault" /\ s[3].op = "install" /\ s[3].ver = 0
               /\ \A i \in 4..n : s[i].op \in RetireOps
               /\ s[n].op = last
<1>1. Plan(p, 3, "install")
  <2>1. 0 \in Versions
    BY VaultAssumption DEF Versions
  <2>2. /\ p \in Seq(Ops) /\ InOrder(p) /\ Len(p) = 3
        /\ p[1] = [op |-> "rename", ver |-> 0]
        /\ p[2] = [op |-> "syncVault"]
        /\ p[3] = [op |-> "install", ver |-> 0]
    BY <2>1, PersistInOrder
  <2> HIDE DEF p
  <2>3. p # <<>>
    <3>1. p \in Seq(Ops) /\ Len(p) = 3
      BY <2>2
    <3>2. p = <<>> => Len(p) = 0
      OBVIOUS
    <3>3. QED BY <3>1, <3>2
  <2>4. /\ p[1].op = "rename" /\ p[2].op = "syncVault"
        /\ p[3].op = "install" /\ p[3].ver = 0
    BY <2>2
  <2>5. \A i \in 4..3 : p[i].op \in RetireOps
    OBVIOUS
  <2>6. QED BY <2>2, <2>3, <2>4, <2>5
<1> HIDE DEF p
<1>2. ASSUME NEW s, NEW n \in Nat \ {0, 1, 2}, NEW last, NEW op \in RetireOps, Plan(s, n, last), Follows(last, op)
      PROVE  Plan(s \o Op(op), n + 1, op)
  <2>1. /\ Op(op) \in Seq(Ops) /\ Op(op) # <<>> /\ InOrder(Op(op)) /\ Len(Op(op)) = 1 /\ Op(op)[1].op = op
        /\ \A i \in DOMAIN Op(op) : Op(op)[i].op \in RetireOps
    <3>1. Len(Op(op)) = 1
      BY DEF Op
    <3>2. QED BY <3>1, OneOp DEF Retirement
  <2>2. /\ s \o Op(op) \in Seq(Ops) /\ s \o Op(op) # <<>> /\ InOrder(s \o Op(op))
        /\ Len(s \o Op(op)) = n + 1
        /\ \A i \in 1..n : (s \o Op(op))[i] = s[i]
        /\ (s \o Op(op))[n + 1] = Op(op)[1]
    BY <1>2, <2>1, Glue
  <2>3. ASSUME NEW i \in 4..(n + 1) PROVE (s \o Op(op))[i].op \in RetireOps
    <3>1. i \in 4..n \/ i = n + 1
      OBVIOUS
    <3>2. QED BY <1>2, <2>1, <2>2, <3>1
  <2>4. QED BY <1>2, <2>1, <2>2, <2>3
<1>3. Plan(a, 4, "hold")
  BY <1>1, <1>2 DEF Follows, RetireOps
<1> HIDE DEF a
<1>4. Plan(b, 5, "tombstone")
  BY <1>3, <1>2 DEF Follows, RetireOps
<1> HIDE DEF b
<1> HIDE DEF b, Plan
<1>5. Plan(c, 6, "syncRoot")
  <2>1. Follows("tombstone", "syncRoot") /\ "syncRoot" \in RetireOps /\ 5 + 1 = 6 /\ 5 \in Nat \ {0, 1, 2}
    BY DEF Follows, RetireOps
  <2>2. Plan(b \o Op("syncRoot"), 5 + 1, "syncRoot")
    BY <1>2, <1>4, <2>1
  <2>3. QED BY <2>1, <2>2
<1> HIDE DEF c
<1>6. Plan(d, 7, "retired")
  <2>1. Follows("syncRoot", "retired") /\ "retired" \in RetireOps /\ 6 + 1 = 7 /\ 6 \in Nat \ {0, 1, 2}
    BY DEF Follows, RetireOps
  <2>2. Plan(c \o Op("retired"), 6 + 1, "retired")
    BY <1>2, <1>5, <2>1
  <2>3. QED BY <2>1, <2>2
<1>7. \A i \in DOMAIN d : d[i].op \in {"install", "publish"} => i = 3
  <2> HIDE DEF d
  <2>1. DOMAIN d = 1..7
    BY <1>6 DEF Plan
  <2>2. \A i \in 1..7 : i = 1 \/ i = 2 \/ i = 3 \/ i \in 4..7
    OBVIOUS
  <2>3. QED BY <1>6, <2>1, <2>2 DEF RetireOps, Plan
<1>8. QED
  BY <1>6, <1>7 DEF Plan, a, b, c, p

-----------------------------------------------------------------------------
(* The invariant, action by action *)

\* With nothing left to do, what is said of the plan holds.
LEMMA NothingToDo ==
  ASSUME todo' = <<>>
  PROVE  /\ todo' \in Seq(Ops) /\ InOrder(todo') /\ Committing' /\ NotForgetting' /\ Retiring' /\ OnlyUnusable'
<1>1. todo' \in Seq(Ops) /\ DOMAIN todo' = {}
  OBVIOUS
<1>2. QED
  BY <1>1 DEF InOrder, Committing, NotForgetting, Retiring, OnlyUnusable

\* It holds of a plaintext wallet and of an empty folder.
LEMMA VaultInvInit == Init => VaultInv
<1>1. SUFFICES ASSUME Init PROVE VaultInv
  OBVIOUS
<1>2. todo = <<>> /\ todo \in Seq(Ops) /\ DOMAIN todo = {}
  BY <1>1 DEF Init
<1>3. fs \in Files /\ fs.snapshot = None /\ fs.marker = FALSE /\ (used => fs.seed = "plain")
  BY <1>1, VaultAssumption DEF Init, Files, Versions
<1>4. VaultTypes
  BY <1>1, <1>2, <1>3 DEF Init, VaultTypes
<1>5. InOrder(todo) /\ Committing /\ NotForgetting /\ Retiring /\ OnlyUnusable
  BY <1>2 DEF InOrder, Committing, NotForgetting, Retiring, OnlyUnusable
<1>6. Usable /\ RootIsSynced /\ ShownIsReleased /\ WalletIsSomewhere /\ ReleasedIsEverywhere /\ BeforeTheVault
  BY <1>1, <1>2, <1>3 DEF Init, Usable, RootIsSynced, ShownIsReleased, WalletIsSomewhere, ReleasedIsEverywhere,
                   BeforeTheVault
<1>7. QED
  BY <1>2, <1>4, <1>5, <1>6 DEF VaultInv

\* Opening a plaintext wallet: only where no vault was ever made.
LEMMA OpenPlainKeeps == VaultInv /\ OpenPlain => VaultInv'
<1>1. SUFFICES ASSUME VaultInv, OpenPlain PROVE VaultInv'
  OBVIOUS
<1>2. todo = <<>> /\ todo' = <<>> /\ ~fs.marker /\ ~synced.marker /\ mode' = "plain"
  BY <1>1 DEF VaultInv, OpenPlain, PlainAllowed, BeforeTheVault
<1>3. /\ fs' \in Files /\ fs'.snapshot = fs.snapshot /\ fs'.marker = fs.marker
      /\ fs'.seed = "plain" /\ mem' \in Versions
  BY <1>1, VaultAssumption DEF VaultInv, VaultTypes, Files, OpenPlain, Versions
<1>4. VaultTypes'
  BY <1>1, <1>2, <1>3, VaultAssumption DEF VaultInv, VaultTypes, OpenPlain, Versions
<1>5. Usable' /\ RootIsSynced' /\ ShownIsReleased'
  BY <1>2 DEF Usable, RootIsSynced, ShownIsReleased
<1>6. WalletIsSomewhere' /\ ReleasedIsEverywhere' /\ BeforeTheVault'
  BY <1>1, <1>2, <1>3 DEF VaultInv, OpenPlain, WalletIsSomewhere, ReleasedIsEverywhere, BeforeTheVault
<1>7. QED
  BY <1>2, <1>4, <1>5, <1>6, NothingToDo DEF VaultInv

\* Saving one.
LEMMA SavePlainKeeps == VaultInv /\ SavePlain => VaultInv'
<1>1. SUFFICES ASSUME VaultInv, SavePlain PROVE VaultInv'
  OBVIOUS
<1>2. todo = <<>> /\ todo' = <<>> /\ ~synced.marker /\ mode' = "plain"
  BY <1>1 DEF VaultInv, SavePlain, PlainAllowed, BeforeTheVault
<1>3. mem \in Versions /\ mem + 1 \in Versions
  BY <1>1, VaultAssumption DEF VaultInv, VaultTypes, SavePlain, Versions
<1>4. fs' \in Files /\ fs'.snapshot = fs.snapshot /\ fs'.marker = fs.marker /\ fs'.seed = fs.seed
  BY <1>1, <1>3 DEF VaultInv, VaultTypes, Files, SavePlain
<1>5. VaultTypes'
  BY <1>1, <1>2, <1>3, <1>4, VaultAssumption DEF VaultInv, VaultTypes, SavePlain, Versions
<1>6. Usable' /\ RootIsSynced' /\ ShownIsReleased'
  BY <1>2 DEF Usable, RootIsSynced, ShownIsReleased
<1>7. WalletIsSomewhere' /\ ReleasedIsEverywhere' /\ BeforeTheVault'
  BY <1>1, <1>2, <1>4 DEF VaultInv, SavePlain, WalletIsSomewhere, ReleasedIsEverywhere, BeforeTheVault
<1>8. QED
  BY <1>2, <1>5, <1>6, <1>7, NothingToDo DEF VaultInv

\* Opening the vault syncs the root, not the snapshot: unsure remembers.
LEMMA OpenKeeps == VaultInv /\ Open => VaultInv'
<1>1. SUFFICES ASSUME VaultInv, Open PROVE VaultInv'
  OBVIOUS
<1>2. todo = <<>> /\ todo' = <<>> /\ mode' = "vault" /\ mem' = None /\ disk' = fs.snapshot
  BY <1>1 DEF VaultInv, Open
<1>3. /\ fs' \in Files /\ fs'.snapshot = fs.snapshot /\ fs'.seed = fs.seed
      /\ synced' \in Files /\ synced'.snapshot = synced.snapshot /\ synced'.seed = fs.seed
      /\ fs'.marker = TRUE /\ synced'.marker = TRUE
  BY <1>1 DEF VaultInv, VaultTypes, Files, Open
<1>4. VaultTypes'
  BY <1>1, <1>2, <1>3 DEF VaultInv, VaultTypes, Files, Open
<1>5. Usable' /\ RootIsSynced' /\ ShownIsReleased'
  BY <1>1, <1>2, <1>3 DEF VaultInv, VaultTypes, Open, Usable, SnapshotsAgree, RootIsSynced, ShownIsReleased
<1>6. WalletIsSomewhere' /\ ReleasedIsEverywhere' /\ BeforeTheVault'
  BY <1>1, <1>2, <1>3 DEF VaultInv, VaultTypes, Open, WalletIsSomewhere, ReleasedIsEverywhere, HoldsReleased,
                         BeforeTheVault
<1>7. QED
  BY <1>2, <1>4, <1>5, <1>6, NothingToDo DEF VaultInv

\* Opening it and failing.
LEMMA OpenFailsKeeps == VaultInv /\ OpenFails => VaultInv'
<1>1. SUFFICES ASSUME VaultInv, OpenFails PROVE VaultInv'
  OBVIOUS
<1>2. todo = <<>> /\ todo' = <<>> /\ mode' # "vault"
  BY <1>1 DEF VaultInv, OpenFails
<1>3. fs' \in Files /\ fs'.snapshot = fs.snapshot /\ fs'.seed = fs.seed /\ fs'.marker = TRUE
  BY <1>1 DEF VaultInv, VaultTypes, Files, OpenFails
<1>4. VaultTypes'
  BY <1>1, <1>2, <1>3 DEF VaultInv, VaultTypes, OpenFails
<1>5. Usable' /\ RootIsSynced' /\ ShownIsReleased'
  BY <1>2 DEF Usable, RootIsSynced, ShownIsReleased
<1>6. WalletIsSomewhere' /\ ReleasedIsEverywhere' /\ BeforeTheVault'
  BY <1>1, <1>3 DEF VaultInv, OpenFails, WalletIsSomewhere, ReleasedIsEverywhere, HoldsReleased, BeforeTheVault
<1>7. QED
  BY <1>2, <1>4, <1>5, <1>6, NothingToDo DEF VaultInv

\* A kill leaves the files.
LEMMA DiesKeeps == VaultInv /\ Dies => VaultInv'
<1>1. SUFFICES ASSUME VaultInv, Dies PROVE VaultInv'
  OBVIOUS
<1>2. todo' = <<>> /\ mode' = "off"
  BY <1>1 DEF Dies
<1>3. VaultTypes'
  BY <1>1, <1>2, NothingToDo DEF VaultInv, VaultTypes, Dies
<1>4. Usable' /\ RootIsSynced' /\ ShownIsReleased'
  BY <1>2 DEF Usable, RootIsSynced, ShownIsReleased
<1>5. WalletIsSomewhere' /\ ReleasedIsEverywhere' /\ BeforeTheVault'
  BY <1>1, <1>2 DEF VaultInv, Dies, WalletIsSomewhere, ReleasedIsEverywhere, HoldsReleased, BeforeTheVault
<1>6. QED
  BY <1>2, <1>3, <1>4, <1>5, NothingToDo DEF VaultInv

\* What a power cut leaves of each file is what it was, or what was synced.
LEMMA PowerCutKeeps == VaultInv /\ PowerCut => VaultInv'
<1>1. SUFFICES ASSUME VaultInv, PowerCut PROVE VaultInv'
  OBVIOUS
<1>2. todo' = <<>> /\ mode' = "off" /\ synced' = fs'
  BY <1>1 DEF PowerCut
<1>3. /\ fs' \in Files
      /\ fs'.seed \in {fs.seed, synced.seed} /\ fs'.snapshot \in {fs.snapshot, synced.snapshot}
      /\ fs'.marker \in {fs.marker, synced.marker}
  <2>1. PICK kept \in SUBSET DOMAIN fs : fs' = [f \in DOMAIN fs |-> IF f \in kept THEN fs[f] ELSE synced[f]]
    BY <1>1 DEF PowerCut
  <2>2. fs \in Files /\ synced \in Files
    BY <1>1 DEF VaultInv, VaultTypes
  <2>3. DOMAIN fs = {"seed", "db", "marker", "snapshot"}
    BY <2>2 DEF Files
  <2>4. \A f \in DOMAIN fs : fs'[f] \in {fs[f], synced[f]}
    BY <2>1
  <2>5. /\ fs'.seed \in {fs.seed, synced.seed} /\ fs'.snapshot \in {fs.snapshot, synced.snapshot}
        /\ fs'.marker \in {fs.marker, synced.marker} /\ fs'.db \in {fs.db, synced.db}
    BY <2>3, <2>4
  <2>6. fs' = [seed |-> fs'.seed, db |-> fs'.db, marker |-> fs'.marker, snapshot |-> fs'.snapshot]
    BY <2>1, <2>3
  <2>7. QED
    BY <2>2, <2>5, <2>6 DEF Files
<1>4. VaultTypes'
  BY <1>1, <1>2, <1>3, NothingToDo DEF VaultInv, VaultTypes, PowerCut
<1>5. Usable' /\ RootIsSynced' /\ ShownIsReleased'
  BY <1>2 DEF Usable, RootIsSynced, ShownIsReleased
<1>6. WalletIsSomewhere' /\ ReleasedIsEverywhere' /\ BeforeTheVault'
  BY <1>1, <1>2, <1>3 DEF VaultInv, VaultTypes, Files, PowerCut, WalletIsSomewhere, ReleasedIsEverywhere, HoldsReleased,
                         BeforeTheVault
<1>7. QED
  BY <1>2, <1>4, <1>5, <1>6, NothingToDo DEF VaultInv

\* A new plan: what is said of it holds of the one that was begun.
LEMMA BeginsKeeps ==
  ASSUME NEW ops, VaultInv, Healthy, Begins(ops), ops \in Seq(Ops), InOrder(ops),
         ops # <<>> /\ ops[1].op \in {"rename", "hold"},
         \A i \in DOMAIN ops : ops[i].op \in {"install", "publish"} =>
             /\ i > 2
             /\ ops[i].op = "install" => mem = None /\ released = None
             /\ ops[i].op = "publish" => released # None /\ released <= ops[i].ver,
         ops[1].op = "rename" => NoOlder(ops[1].ver),
         ops[1].op = "hold" => disk # None
  PROVE  VaultInv'
<1>1. todo' = ops /\ UNCHANGED <<fs, synced, mode, mem, disk, unusable, released, used, unsure>>
  BY DEF Begins
<1>2. mode = "vault" /\ ~unusable
  BY DEF Healthy
<1>3. VaultTypes' /\ InOrder(todo')
  BY <1>1 DEF VaultInv, VaultTypes
<1>4. Committing'
  BY <1>1 DEF Committing
<1>5. NotForgetting'
  BY <1>1 DEF NotForgetting, NoOlder, NextOp
<1>6. OnlyUnusable'
  BY <1>1 DEF OnlyUnusable, NextOp
<1>7. Usable' /\ RootIsSynced' /\ ShownIsReleased'
  BY <1>1, <1>2 DEF VaultInv, Usable, SnapshotsAgree, RootIsSynced, ShownIsReleased
<1>8. Retiring'
  BY <1>1, <1>2 DEF VaultInv, Usable, Retiring, SnapshotsAgree, RetireOps, NextOp
<1>9. WalletIsSomewhere' /\ ReleasedIsEverywhere' /\ BeforeTheVault'
  BY <1>1, <1>2 DEF VaultInv, WalletIsSomewhere, ReleasedIsEverywhere, HoldsReleased, BeforeTheVault
<1>10. QED
  BY <1>1, <1>2, <1>3, <1>4, <1>5, <1>6, <1>7, <1>8, <1>9 DEF VaultInv

\* The plan of a commit.
LEMMA PersistKeeps ==
  ASSUME NEW v \in Versions, NEW done \in {"install", "publish"},
         VaultInv, Healthy, Begins(Persist(v, done)), NoOlder(v),
         done = "install" => mem = None /\ released = None,
         done = "publish" => released # None
  PROVE  VaultInv'
<1> DEFINE p == Persist(v, done)
<1>1. /\ p \in Seq(Ops) /\ InOrder(p) /\ Len(p) = 3
      /\ p[1] = [op |-> "rename", ver |-> v]
      /\ p[2] = [op |-> "syncVault"]
      /\ p[3] = [op |-> done, ver |-> v]
  BY PersistInOrder
<1>2. Begins(p)
  OBVIOUS
<1> HIDE DEF p
<1>3. p # <<>> /\ p[1].op = "rename" /\ p[1].ver = v /\ p[2].op = "syncVault" /\ p[3].op = done /\ p[3].ver = v
  <2>1. p # <<>>
    <3>1. p \in Seq(Ops) /\ Len(p) = 3
      BY <1>1
    <3>2. p = <<>> => Len(p) = 0
      OBVIOUS
    <3>3. QED BY <3>1, <3>2
  <2>2. p[1].op = "rename" /\ p[1].ver = v
    BY <1>1
  <2>3. p[2].op = "syncVault"
    BY <1>1
  <2>4. p[3].op = done /\ p[3].ver = v
    BY <1>1
  <2>5. QED BY <2>1, <2>2, <2>3, <2>4
<1>4. \A i \in DOMAIN p : p[i].op \in {"install", "publish"} => i = 3
  <2>1. \A i \in DOMAIN p : i \in {1, 2, 3}
    BY <1>1
  <2>2. QED BY <1>3, <2>1
<1>5. ASSUME NEW i \in DOMAIN p, p[i].op \in {"install", "publish"}
      PROVE  /\ i > 2
             /\ p[i].op = "install" => mem = None /\ released = None
             /\ p[i].op = "publish" => released # None /\ released <= p[i].ver
  <2>1. i = 3
    BY <1>4, <1>5
  <2>2. QED BY <1>3, <2>1 DEF NoOlder
<1>6. QED
  BY <1>1, <1>2, <1>3, <1>5, BeginsKeeps

\* Migration: nothing was released as long as the plaintext is there.
LEMMA MigrateKeeps == VaultInv /\ Migrate => VaultInv'
<1>1. SUFFICES ASSUME VaultInv, Migrate PROVE VaultInv'
  OBVIOUS
<1> DEFINE v == IF fs.db = None THEN 0 ELSE fs.db
<1>2. Healthy /\ disk = None /\ fs.seed = "plain" /\ Begins(Persist(v, "install"))
  BY <1>1 DEF Migrate
<1>3. v \in Versions
  BY <1>1, VaultAssumption DEF VaultInv, VaultTypes, Files, Versions
<1> HIDE DEF v
<1>4. mem = None /\ released = None
  BY <1>1, <1>2 DEF VaultInv, Usable, Healthy, ReleasedIsEverywhere
<1>5. QED
  BY <1>1, <1>2, <1>3, <1>4, PersistKeeps DEF NoOlder

\* A new wallet: nothing was released where there is no seed.
LEMMA InitializeKeeps == VaultInv /\ Initialize => VaultInv'
<1>1. SUFFICES ASSUME VaultInv, Initialize PROVE VaultInv'
  OBVIOUS
<1> DEFINE plan == Persist(0, "install") \o Op("hold") \o Op("tombstone") \o Op("syncRoot") \o Op("retired")
<1>2. Healthy /\ disk = None /\ fs.seed = None /\ Begins(plan)
  BY <1>1 DEF Initialize
<1>3. /\ plan \in Seq(Ops) /\ plan # <<>> /\ InOrder(plan) /\ plan[1].op = "rename"
      /\ \A i \in DOMAIN plan : plan[i].op \in {"install", "publish"} =>
            i = 3 /\ plan[i].op = "install" /\ plan[i].ver = 0
  BY InitializeInOrder
<1> HIDE DEF plan
<1>4. mem = None /\ released = None
  BY <1>1, <1>2, VaultAssumption DEF VaultInv, Usable, Healthy, ReleasedIsEverywhere
<1>5. QED
  BY <1>1, <1>2, <1>3, <1>4, BeginsKeeps DEF NoOlder

\* Retirement begins only on a snapshot that is in place.
LEMMA FinishRetirementKeeps == VaultInv /\ FinishRetirement => VaultInv'
<1>1. SUFFICES ASSUME VaultInv, FinishRetirement PROVE VaultInv'
  OBVIOUS
<1> DEFINE plan == Retire(fs.db, fs.seed)
<1>2. Healthy /\ disk # None /\ Begins(plan)
  BY <1>1 DEF FinishRetirement, CopyVerified, DiskUnchanged
<1>3. Retirement(plan) /\ plan[1].op = "hold"
  BY RetireInOrder
<1> HIDE DEF plan
<1>4. \A i \in DOMAIN plan : plan[i].op \notin {"install", "publish"}
  BY <1>3 DEF Retirement, RetireOps
<1>5. QED
  BY <1>1, <1>2, <1>3, <1>4, BeginsKeeps DEF Retirement

\* An edit commits what is no older than what was released.
LEMMA UpdateKeeps == VaultInv /\ Update => VaultInv'
<1>1. SUFFICES ASSUME VaultInv, Update PROVE VaultInv'
  OBVIOUS
<1>2. PICK new \in {mem, mem + 1} \cap 0..MaxEdits : Begins(Persist(new, "publish"))
  BY <1>1 DEF Update
<1>3. Healthy /\ mem # None
  BY <1>1 DEF Update, Ready
<1>4. mem \in 0..MaxEdits /\ released = mem
  BY <1>1, <1>3 DEF VaultInv, VaultTypes, Versions, ShownIsReleased, Healthy
<1>5. new \in Versions /\ released # None /\ NoOlder(new)
  BY <1>2, <1>3, <1>4, VaultAssumption DEF Versions, NoOlder
<1>6. QED
  BY <1>1, <1>2, <1>3, <1>5, PersistKeeps

\* What a vault shows is on disk twice over, and its plaintext is gone: an unlock waits for both.
LEMMA UnlockKeeps == VaultInv /\ Unlock => VaultInv'
<1>1. SUFFICES ASSUME VaultInv, Unlock PROVE VaultInv'
  OBVIOUS
<1>2. /\ todo = <<>> /\ todo' = <<>> /\ mode = "vault" /\ mode' = "vault" /\ ~unusable
      /\ disk # None /\ disk = fs.snapshot /\ mem' = disk /\ released' = disk /\ used' = TRUE
      /\ UNCHANGED <<fs, synced, disk, unusable, unsure>>
  BY <1>1 DEF Unlock, Ready, Healthy, DiskUnchanged
<1>3. disk \in Versions /\ fs.seed = "tomb" /\ synced.seed = "tomb"
  BY <1>1, <1>2 DEF VaultInv, VaultTypes, Files, RootIsSynced, Unlock, Ready, NeedsRetirement
<1>4. unsure \/ fs.snapshot = synced.snapshot
  BY <1>1, <1>2 DEF VaultInv, Usable, SnapshotsAgree
<1>5. VaultTypes'
  BY <1>1, <1>2, <1>3, NothingToDo DEF VaultInv, VaultTypes
<1>6. Usable' /\ RootIsSynced' /\ ShownIsReleased'
  BY <1>1, <1>2 DEF VaultInv, Usable, SnapshotsAgree, RootIsSynced, ShownIsReleased
<1>7. WalletIsSomewhere' /\ ReleasedIsEverywhere' /\ BeforeTheVault'
  BY <1>1, <1>2, <1>3, <1>4 DEF VaultInv, Versions, WalletIsSomewhere, ReleasedIsEverywhere, HoldsReleased,
                              BeforeTheVault
<1>8. QED
  BY <1>2, <1>5, <1>6, <1>7, NothingToDo DEF VaultInv

\* Locking.
LEMMA LockKeeps == VaultInv /\ Lock => VaultInv'
<1>1. SUFFICES ASSUME VaultInv, Lock PROVE VaultInv'
  OBVIOUS
<1>2. todo = <<>> /\ todo' = <<>> /\ mem' = None /\ mode = "vault"
      /\ UNCHANGED <<fs, synced, mode, disk, unusable, released, used, unsure>>
  BY <1>1 DEF Lock, Healthy
<1>3. VaultTypes'
  BY <1>1, <1>2, NothingToDo DEF VaultInv, VaultTypes
<1>4. Usable' /\ RootIsSynced' /\ ShownIsReleased'
  BY <1>1, <1>2 DEF VaultInv, Usable, SnapshotsAgree, RootIsSynced, ShownIsReleased
<1>5. WalletIsSomewhere' /\ ReleasedIsEverywhere' /\ BeforeTheVault'
  BY <1>1, <1>2 DEF VaultInv, WalletIsSomewhere, ReleasedIsEverywhere, HoldsReleased, BeforeTheVault
<1>6. QED
  BY <1>2, <1>3, <1>4, <1>5, NothingToDo DEF VaultInv

\* An operation that fails leaves its session unusable, if it has begun.
LEMMA FailsKeeps == VaultInv /\ Fails => VaultInv'
<1>1. SUFFICES ASSUME VaultInv, Fails PROVE VaultInv'
  OBVIOUS
<1>2. todo' = <<>> /\ UNCHANGED <<fs, synced, mode, mem, disk, unusable, released, used, unsure>>
  BY <1>1 DEF Fails
<1>3. VaultTypes'
  BY <1>1, <1>2, NothingToDo DEF VaultInv, VaultTypes
<1>4. Usable' /\ RootIsSynced' /\ ShownIsReleased'
  BY <1>1, <1>2 DEF VaultInv, Usable, SnapshotsAgree, RootIsSynced, ShownIsReleased
<1>5. WalletIsSomewhere' /\ ReleasedIsEverywhere' /\ BeforeTheVault'
  BY <1>1, <1>2 DEF VaultInv, WalletIsSomewhere, ReleasedIsEverywhere, HoldsReleased, BeforeTheVault
<1>6. QED
  BY <1>2, <1>3, <1>4, <1>5, NothingToDo DEF VaultInv

\* What a step of the plan leaves to do: the operations behind it, in their order,
\* and what is shown only where its snapshot was renamed and synced before it.
LEMMA DoesNext ==
  ASSUME NEW op, VaultInv, Does(op)
  PROVE  /\ mode = "vault" /\ mode' = "vault" /\ synced.marker
         /\ todo # <<>> /\ NextOp = op /\ Head(todo) = todo[1] /\ 1 \in DOMAIN todo
         /\ todo' \in Seq(Ops) /\ InOrder(todo')
         /\ \A i \in DOMAIN todo' : i \in Nat \ {0} /\ i + 1 \in DOMAIN todo /\ todo'[i] = todo[i + 1]
         /\ todo' # <<>> => Follows(op, NextOp')
         /\ \A i \in DOMAIN todo' : todo'[i].op \in {"install", "publish"} =>
                /\ i = 1 => op = "syncVault"
                /\ i = 2 => op = "rename" /\ todo'[i].ver = todo[1].ver
<1>1. /\ todo \in Seq(Ops) /\ todo # <<>> /\ InOrder(todo) /\ todo' = Tail(todo)
      /\ Head(todo).op = op /\ mode' = mode /\ mode = "vault"
  BY DEF VaultInv, VaultTypes, Does
<1>2. Head(todo) = todo[1] /\ 1 \in DOMAIN todo
  BY <1>1
<1>3. /\ todo' \in Seq(Ops) /\ InOrder(todo')
      /\ \A i \in DOMAIN todo' : i \in Nat \ {0} /\ i + 1 \in DOMAIN todo /\ todo'[i] = todo[i + 1]
  BY <1>1, TailInOrder
<1>4. NextOp = op
  BY <1>1, <1>2 DEF NextOp
<1>5. todo' # <<>> => Follows(op, NextOp')
  <2>1. SUFFICES ASSUME todo' # <<>> PROVE Follows(op, todo'[1].op)
    BY DEF NextOp
  <2>2. 1 \in DOMAIN todo'
    BY <1>3, <2>1
  <2>3. 1 + 1 = 2 /\ 2 - 1 = 1 /\ 2 > 1
    OBVIOUS
  <2>4. 2 \in DOMAIN todo /\ todo'[1] = todo[2]
    BY <1>3, <2>2, <2>3
  <2>5. Follows(todo[1].op, todo[2].op)
    BY <1>1, <2>3, <2>4 DEF InOrder
  <2>6. QED BY <1>1, <1>2, <2>4, <2>5
<1>6. ASSUME NEW i \in DOMAIN todo', todo'[i].op \in {"install", "publish"}
      PROVE  /\ i = 1 => op = "syncVault"
             /\ i = 2 => op = "rename" /\ todo'[i].ver = todo[1].ver
  <2>1. CASE i = 1
    <3>1. todo' # <<>> /\ NextOp' \in {"install", "publish"}
      BY <1>3, <1>6, <2>1 DEF NextOp
    <3>2. QED BY <1>5, <2>1, <3>1 DEF Follows
  <2>2. CASE i = 2
    <3>1. 3 \in DOMAIN todo /\ todo'[2] = todo[3] /\ 3 > 2 /\ 3 - 2 = 1
      <4>1. 2 + 1 = 3
        OBVIOUS
      <4>2. QED BY <1>3, <2>2, <4>1
    <3>2. todo[1].op = "rename" /\ todo[1].ver = todo[3].ver
      BY <1>1, <1>6, <2>2, <3>1 DEF InOrder
    <3>3. QED BY <1>1, <1>2, <2>2, <3>1, <3>2
  <2>3. QED BY <2>1, <2>2
<1>7. synced.marker
  BY <1>1 DEF VaultInv, BeforeTheVault
<1>8. QED
  BY <1>1, <1>2, <1>3, <1>4, <1>5, <1>6, <1>7

\* Operations that need a version have one.
LEMMA VersionOfNext ==
  ASSUME VaultInv, todo # <<>>, NextOp \in {"rename", "install", "publish"}
  PROVE  todo[1].ver \in Versions
<1>1. todo[1] \in Ops
  BY DEF VaultInv, VaultTypes
<1>2. QED
  BY <1>1 DEF Ops, RetireOps, NextOp

\* Behind anything but a rename and its fsync no commit is half done.
LEMMA NothingHalfDone ==
  ASSUME NEW op \in {"install", "publish"} \cup RetireOps, VaultInv, Does(op),
         UNCHANGED released, mem' \in {mem, None}
  PROVE  Committing' /\ NotForgetting'
<1>1. /\ \A i \in DOMAIN todo' : i \in Nat \ {0} /\ i + 1 \in DOMAIN todo /\ todo'[i] = todo[i + 1]
      /\ todo' # <<>> => Follows(op, NextOp')
      /\ \A i \in DOMAIN todo' : todo'[i].op \in {"install", "publish"} =>
             /\ i = 1 => op = "syncVault"
             /\ i = 2 => op = "rename" /\ todo'[i].ver = todo[1].ver
  BY DoesNext
<1>2. op \notin {"rename", "syncVault"}
  BY DEF RetireOps
<1>3. Committing'
  <2>1. ASSUME NEW i \in DOMAIN todo', todo'[i].op \in {"install", "publish"}
        PROVE  /\ ~(i <= 2) /\ i # 1
               /\ todo'[i].op = "install" => mem' = None /\ released' = None
               /\ todo'[i].op = "publish" => released' # None /\ released' <= todo'[i].ver
    <3>1. i \in Nat \ {0} /\ i # 1 /\ i # 2
      BY <1>1, <1>2, <2>1
    <3>2. i + 1 \in DOMAIN todo /\ todo'[i] = todo[i + 1]
      BY <1>1
    <3>3. /\ todo[i + 1].op = "install" => mem = None /\ released = None
          /\ todo[i + 1].op = "publish" => released # None /\ released <= todo[i + 1].ver
      BY <2>1, <3>2 DEF VaultInv, Committing
    <3>4. QED BY <3>1, <3>2, <3>3
  <2>2. QED BY <2>1 DEF Committing
<1>4. NotForgetting'
  BY <1>1 DEF NotForgetting, Follows, RetireOps
<1>5. QED
  BY <1>3, <1>4

\* A step of a retirement: the snapshot is the session's, and stays.
LEMMA RetiringNext ==
  ASSUME NEW op \in RetireOps, VaultInv, Does(op),
         UNCHANGED <<disk, released, unsure>>, mem' \in {mem, None},
         fs'.snapshot = fs.snapshot, synced'.snapshot = synced.snapshot
  PROVE  /\ mode = "vault" /\ mode' = "vault" /\ synced.marker
         /\ todo # <<>> /\ NextOp = op
         /\ todo' \in Seq(Ops) /\ InOrder(todo') /\ Committing' /\ NotForgetting' /\ (op # "hold" => unusable)
         /\ disk = fs.snapshot /\ disk # None /\ SnapshotsAgree
         /\ Retiring'
         /\ todo' # <<>> => Follows(op, NextOp')
<1>1. /\ mode = "vault" /\ mode' = "vault" /\ synced.marker
      /\ todo # <<>> /\ NextOp = op /\ todo' \in Seq(Ops) /\ InOrder(todo')
      /\ todo' # <<>> => Follows(op, NextOp')
  BY DoesNext
<1>2. disk = fs.snapshot /\ disk # None /\ SnapshotsAgree
  BY <1>1 DEF VaultInv, Retiring
<1>3. Retiring'
  BY <1>2 DEF Retiring, SnapshotsAgree
<1>4. op # "hold" => unusable
  BY <1>1 DEF VaultInv, OnlyUnusable, RetireOps
<1>5. Committing' /\ NotForgetting'
  BY NothingHalfDone
<1>6. QED
  BY <1>1, <1>2, <1>3, <1>4, <1>5

\* The rename brings the new snapshot, which is no older than what was released.
LEMMA RenameKeeps == VaultInv /\ Rename => VaultInv'
<1>1. SUFFICES ASSUME VaultInv, Rename PROVE VaultInv'
  OBVIOUS
<1>2. Does("rename")
  BY <1>1 DEF Rename
<1>3. /\ mode = "vault" /\ mode' = "vault" /\ synced.marker
      /\ todo # <<>> /\ NextOp = "rename" /\ Head(todo) = todo[1]
      /\ todo' \in Seq(Ops) /\ InOrder(todo')
      /\ \A i \in DOMAIN todo' : i \in Nat \ {0} /\ i + 1 \in DOMAIN todo /\ todo'[i] = todo[i + 1]
      /\ todo' # <<>> => Follows("rename", NextOp')
      /\ \A i \in DOMAIN todo' : todo'[i].op \in {"install", "publish"} =>
             i # 1 /\ (i = 2 => todo'[i].ver = todo[1].ver)
  BY <1>1, <1>2, DoesNext
<1> DEFINE v == todo[1].ver
<1>4. v \in Versions /\ v # None /\ NoOlder(v)
  BY <1>1, <1>3, VersionOfNext, VaultAssumption DEF VaultInv, NotForgetting, Versions
<1>5. /\ fs' \in Files /\ fs'.snapshot = v /\ fs'.seed = fs.seed /\ fs'.marker = fs.marker /\ unusable' = TRUE
      /\ UNCHANGED <<synced, mem, disk, released, used, unsure>>
  BY <1>1, <1>3, <1>4 DEF VaultInv, VaultTypes, Files, Rename
<1> HIDE DEF v
<1>6. VaultTypes'
  BY <1>1, <1>3, <1>5 DEF VaultInv, VaultTypes
<1>7. Committing'
  <2>1. ASSUME NEW i \in DOMAIN todo', todo'[i].op \in {"install", "publish"}
        PROVE  /\ i <= 2 => fs'.snapshot = todo'[i].ver
               /\ i # 1
               /\ todo'[i].op = "install" => mem' = None /\ released' = None
               /\ todo'[i].op = "publish" => released' # None /\ released' <= todo'[i].ver
    <3>1. i \in Nat \ {0} /\ i # 1 /\ (i = 2 => todo'[i].ver = v)
      BY <1>3, <2>1 DEF v
    <3>2. i + 1 \in DOMAIN todo /\ todo'[i] = todo[i + 1]
      BY <1>3
    <3>3. /\ todo[i + 1].op = "install" => mem = None /\ released = None
          /\ todo[i + 1].op = "publish" => released # None /\ released <= todo[i + 1].ver
      BY <1>1, <2>1, <3>2 DEF VaultInv, Committing
    <3>4. QED BY <1>5, <3>1, <3>2, <3>3
  <2>2. QED BY <2>1 DEF Committing
<1>8. NotForgetting'
  BY <1>3, <1>4, <1>5 DEF NotForgetting, NoOlder, Follows
<1>9. Retiring' /\ OnlyUnusable'
  BY <1>3, <1>5 DEF Retiring, RetireOps, OnlyUnusable, Follows
<1>10. Usable' /\ ShownIsReleased'
  BY <1>1, <1>3, <1>5 DEF VaultInv, Usable, ShownIsReleased
<1>11. RootIsSynced'
  BY <1>1, <1>3, <1>5 DEF VaultInv, RootIsSynced, CommitOps
<1>12. WalletIsSomewhere' /\ ReleasedIsEverywhere' /\ BeforeTheVault'
  BY <1>1, <1>3, <1>4, <1>5 DEF VaultInv, WalletIsSomewhere, ReleasedIsEverywhere, HoldsReleased, NoOlder,
                              BeforeTheVault
<1>13. QED
  BY <1>3, <1>6, <1>7, <1>8, <1>9, <1>10, <1>11, <1>12 DEF VaultInv

\* Its fsync makes the two agree.
LEMMA SyncVaultKeeps == VaultInv /\ SyncVault => VaultInv'
<1>1. SUFFICES ASSUME VaultInv, SyncVault PROVE VaultInv'
  OBVIOUS
<1>2. Does("syncVault")
  BY <1>1 DEF SyncVault
<1>3. /\ mode = "vault" /\ mode' = "vault" /\ synced.marker
      /\ todo # <<>> /\ NextOp = "syncVault"
      /\ todo' \in Seq(Ops) /\ InOrder(todo')
      /\ \A i \in DOMAIN todo' : i \in Nat \ {0} /\ i + 1 \in DOMAIN todo /\ todo'[i] = todo[i + 1]
      /\ todo' # <<>> => Follows("syncVault", NextOp')
      /\ \A i \in DOMAIN todo' : todo'[i].op \in {"install", "publish"} => i # 2
  BY <1>1, <1>2, DoesNext
<1>4. /\ synced' \in Files /\ synced'.snapshot = fs.snapshot
      /\ synced'.seed = synced.seed /\ synced'.marker = synced.marker
      /\ unsure' = FALSE /\ UNCHANGED <<fs, mem, disk, unusable, released, used>>
  BY <1>1 DEF VaultInv, VaultTypes, Files, SyncVault
<1>5. fs.snapshot # None /\ NoOlder(fs.snapshot) /\ unusable
  BY <1>1, <1>3 DEF VaultInv, NotForgetting, OnlyUnusable
<1>6. VaultTypes'
  BY <1>1, <1>3, <1>4 DEF VaultInv, VaultTypes
<1>7. Committing'
  <2>1. ASSUME NEW i \in DOMAIN todo', todo'[i].op \in {"install", "publish"}
        PROVE  /\ i <= 2 => fs'.snapshot = todo'[i].ver
               /\ i = 1 => synced'.snapshot = todo'[i].ver
               /\ todo'[i].op = "install" => mem' = None /\ released' = None
               /\ todo'[i].op = "publish" => released' # None /\ released' <= todo'[i].ver
    <3>1. i \in Nat \ {0} /\ i # 2 /\ (i <= 2 => i + 1 <= 2)
      BY <1>3, <2>1
    <3>2. i + 1 \in DOMAIN todo /\ todo'[i] = todo[i + 1]
      BY <1>3
    <3>3. /\ i + 1 <= 2 => fs.snapshot = todo[i + 1].ver
          /\ todo[i + 1].op = "install" => mem = None /\ released = None
          /\ todo[i + 1].op = "publish" => released # None /\ released <= todo[i + 1].ver
      BY <1>1, <2>1, <3>2 DEF VaultInv, Committing
    <3>4. QED BY <1>4, <3>1, <3>2, <3>3
  <2>2. QED BY <2>1 DEF Committing
<1>8. NotForgetting' /\ Retiring' /\ OnlyUnusable'
  BY <1>3, <1>4, <1>5 DEF NotForgetting, Retiring, RetireOps, OnlyUnusable, Follows
<1>9. Usable' /\ ShownIsReleased'
  BY <1>1, <1>3, <1>4, <1>5 DEF VaultInv, Usable, ShownIsReleased
<1>10. RootIsSynced'
  BY <1>1, <1>3, <1>4 DEF VaultInv, RootIsSynced, CommitOps
<1>11. WalletIsSomewhere' /\ ReleasedIsEverywhere' /\ BeforeTheVault'
  BY <1>1, <1>3, <1>4, <1>5 DEF VaultInv, WalletIsSomewhere, ReleasedIsEverywhere, HoldsReleased, NoOlder,
                              BeforeTheVault
<1>12. QED
  BY <1>3, <1>6, <1>7, <1>8, <1>9, <1>10, <1>11 DEF VaultInv

\* What is handed out is in the file and synced.
LEMMA PublishKeeps == VaultInv /\ Publish => VaultInv'
<1>1. SUFFICES ASSUME VaultInv, Publish PROVE VaultInv'
  OBVIOUS
<1>2. Does("publish")
  BY <1>1 DEF Publish
<1>3. /\ mode = "vault" /\ mode' = "vault" /\ synced.marker
      /\ todo # <<>> /\ NextOp = "publish" /\ Head(todo) = todo[1] /\ 1 \in DOMAIN todo
      /\ todo' # <<>> => Follows("publish", NextOp')
  BY <1>1, <1>2, DoesNext
<1>4. todo' = <<>>
  BY <1>3 DEF Follows
<1> DEFINE v == todo[1].ver
<1>5. v \in Versions /\ v # None
  BY <1>1, <1>3, VersionOfNext, VaultAssumption DEF Versions
<1>6. fs.snapshot = v /\ synced.snapshot = v /\ released # None
  BY <1>1, <1>3 DEF VaultInv, Committing, NextOp
<1>7. /\ disk' = v /\ mem' = v /\ unusable' = FALSE /\ released' = v /\ used' = TRUE
      /\ UNCHANGED <<fs, synced, unsure>>
  BY <1>1, <1>3 DEF Publish
<1> HIDE DEF v
<1>8. VaultTypes'
  BY <1>1, <1>3, <1>4, <1>5, <1>7, NothingToDo DEF VaultInv, VaultTypes
<1>9. Usable' /\ ShownIsReleased'
  BY <1>6, <1>7 DEF Usable, SnapshotsAgree, ShownIsReleased
<1>10. RootIsSynced'
  BY <1>1, <1>3, <1>7 DEF VaultInv, RootIsSynced, CommitOps
<1>11. v <= v
  BY <1>5 DEF Versions
<1>12. WalletIsSomewhere' /\ ReleasedIsEverywhere' /\ BeforeTheVault'
  BY <1>1, <1>3, <1>5, <1>6, <1>7, <1>11 DEF VaultInv, WalletIsSomewhere, ReleasedIsEverywhere, HoldsReleased,
                                           BeforeTheVault
<1>13. QED
  BY <1>3, <1>4, <1>8, <1>9, <1>10, <1>12, NothingToDo DEF VaultInv

\* So is what is installed.
LEMMA InstallKeeps == VaultInv /\ Install => VaultInv'
<1>1. SUFFICES ASSUME VaultInv, Install PROVE VaultInv'
  OBVIOUS
<1>2. Does("install") /\ mem' = mem /\ released' = released
  BY <1>1 DEF Install
<1>3. /\ mode = "vault" /\ mode' = "vault" /\ synced.marker
      /\ todo # <<>> /\ NextOp = "install" /\ Head(todo) = todo[1] /\ 1 \in DOMAIN todo
      /\ todo' \in Seq(Ops) /\ InOrder(todo')
      /\ todo' # <<>> => Follows("install", NextOp')
  BY <1>1, <1>2, DoesNext
<1>4. Committing' /\ NotForgetting'
  BY <1>1, <1>2, NothingHalfDone
<1> DEFINE v == todo[1].ver
<1>5. v \in Versions /\ v # None
  BY <1>1, <1>3, VersionOfNext, VaultAssumption DEF Versions
<1>6. fs.snapshot = v /\ synced.snapshot = v /\ released = None /\ mem = None
  BY <1>1, <1>3 DEF VaultInv, Committing, NextOp
<1>7. /\ disk' = v /\ unusable' = FALSE /\ used' = TRUE
      /\ UNCHANGED <<fs, synced, mem, released, unsure>>
  BY <1>1, <1>3 DEF Install
<1> HIDE DEF v
<1>8. VaultTypes'
  BY <1>1, <1>3, <1>5, <1>7 DEF VaultInv, VaultTypes
<1>9. Retiring' /\ OnlyUnusable'
  BY <1>3, <1>5, <1>6, <1>7 DEF Retiring, SnapshotsAgree, OnlyUnusable, Follows
<1>10. Usable' /\ ShownIsReleased'
  BY <1>6, <1>7 DEF Usable, SnapshotsAgree, ShownIsReleased
<1>11. RootIsSynced'
  BY <1>1, <1>3, <1>7 DEF VaultInv, RootIsSynced, CommitOps
<1>12. WalletIsSomewhere' /\ ReleasedIsEverywhere' /\ BeforeTheVault'
  BY <1>1, <1>3, <1>5, <1>6, <1>7 DEF VaultInv, WalletIsSomewhere, ReleasedIsEverywhere, BeforeTheVault
<1>13. QED
  BY <1>3, <1>4, <1>8, <1>9, <1>10, <1>11, <1>12 DEF VaultInv

\* Retirement declares the session unusable first.
LEMMA HoldKeeps == VaultInv /\ Hold => VaultInv'
<1>1. SUFFICES ASSUME VaultInv, Hold PROVE VaultInv'
  OBVIOUS
<1>2. /\ Does("hold") /\ "hold" \in RetireOps /\ unusable' = TRUE
      /\ UNCHANGED <<fs, synced, mem, disk, released, used, unsure>>
  BY <1>1 DEF Hold, RetireOps
<1>3. /\ mode = "vault" /\ mode' = "vault" /\ synced.marker
      /\ todo' \in Seq(Ops) /\ InOrder(todo') /\ Committing' /\ NotForgetting' /\ Retiring'
      /\ todo' # <<>> => Follows("hold", NextOp')
  BY <1>1, <1>2, RetiringNext
<1>4. VaultTypes'
  BY <1>1, <1>2, <1>3 DEF VaultInv, VaultTypes
<1>5. OnlyUnusable' /\ Usable' /\ RootIsSynced' /\ ShownIsReleased'
  BY <1>1, <1>2, <1>3 DEF VaultInv, OnlyUnusable, Usable, RootIsSynced, ShownIsReleased, CommitOps, Follows
<1>6. WalletIsSomewhere' /\ ReleasedIsEverywhere' /\ BeforeTheVault'
  BY <1>1, <1>2, <1>3 DEF VaultInv, WalletIsSomewhere, ReleasedIsEverywhere, HoldsReleased, BeforeTheVault
<1>7. QED
  BY <1>3, <1>4, <1>5, <1>6 DEF VaultInv

\* Removing the database touches neither keys nor snapshot.
LEMMA RemoveDbKeeps == VaultInv /\ RemoveDb => VaultInv'
<1>1. SUFFICES ASSUME VaultInv, RemoveDb PROVE VaultInv'
  OBVIOUS
<1>2. /\ Does("removeDb") /\ "removeDb" \in RetireOps
      /\ UNCHANGED <<synced, mem, disk, unusable, released, used, unsure>>
  BY <1>1 DEF RemoveDb, RetireOps
<1>3. fs' \in Files /\ fs'.snapshot = fs.snapshot /\ fs'.seed = fs.seed /\ fs'.marker = fs.marker
  BY <1>1 DEF VaultInv, VaultTypes, Files, RemoveDb
<1>4. /\ mode = "vault" /\ mode' = "vault" /\ synced.marker /\ unusable
      /\ todo' \in Seq(Ops) /\ InOrder(todo') /\ Committing' /\ NotForgetting' /\ Retiring'
      /\ todo' # <<>> => Follows("removeDb", NextOp')
  BY <1>1, <1>2, <1>3, RetiringNext
<1>5. VaultTypes'
  BY <1>1, <1>2, <1>3, <1>4 DEF VaultInv, VaultTypes
<1>6. OnlyUnusable' /\ Usable' /\ RootIsSynced' /\ ShownIsReleased'
  BY <1>1, <1>2, <1>4 DEF VaultInv, OnlyUnusable, Usable, RootIsSynced, ShownIsReleased, CommitOps, Follows
<1>7. WalletIsSomewhere' /\ ReleasedIsEverywhere' /\ BeforeTheVault'
  BY <1>1, <1>2, <1>3, <1>4 DEF VaultInv, WalletIsSomewhere, ReleasedIsEverywhere, HoldsReleased, BeforeTheVault
<1>8. QED
  BY <1>4, <1>5, <1>6, <1>7 DEF VaultInv

\* The plaintext seed goes: the snapshot holds the keys, in the files and as synced.
LEMMA TombstoneKeeps == VaultInv /\ Tombstone => VaultInv'
<1>1. SUFFICES ASSUME VaultInv, Tombstone PROVE VaultInv'
  OBVIOUS
<1>2. /\ Does("tombstone") /\ "tombstone" \in RetireOps
      /\ UNCHANGED <<synced, mem, disk, unusable, released, used, unsure>>
  BY <1>1 DEF Tombstone, RetireOps
<1>3. fs' \in Files /\ fs'.snapshot = fs.snapshot /\ fs'.seed = "tomb" /\ fs'.marker = fs.marker
  BY <1>1 DEF VaultInv, VaultTypes, Files, Tombstone
<1>4. /\ mode = "vault" /\ mode' = "vault" /\ synced.marker /\ unusable
      /\ todo' \in Seq(Ops) /\ InOrder(todo') /\ Committing' /\ NotForgetting' /\ Retiring'
      /\ disk = fs.snapshot /\ disk # None /\ (unsure \/ fs.snapshot = synced.snapshot)
      /\ todo' # <<>> => Follows("tombstone", NextOp')
  BY <1>1, <1>2, <1>3, RetiringNext DEF SnapshotsAgree
<1>5. VaultTypes'
  BY <1>1, <1>2, <1>3, <1>4 DEF VaultInv, VaultTypes
<1>6. OnlyUnusable' /\ Usable' /\ RootIsSynced' /\ ShownIsReleased'
  BY <1>1, <1>2, <1>4 DEF VaultInv, OnlyUnusable, Usable, RootIsSynced, ShownIsReleased, CommitOps, Follows
<1>7. WalletIsSomewhere' /\ ReleasedIsEverywhere' /\ BeforeTheVault'
  BY <1>1, <1>2, <1>3, <1>4 DEF VaultInv, WalletIsSomewhere, ReleasedIsEverywhere, HoldsReleased, BeforeTheVault
<1>8. QED
  BY <1>4, <1>5, <1>6, <1>7 DEF VaultInv

\* The fsync of the root: its seed is what the files hold.
LEMMA SyncRootKeeps == VaultInv /\ SyncRoot => VaultInv'
<1>1. SUFFICES ASSUME VaultInv, SyncRoot PROVE VaultInv'
  OBVIOUS
<1>2. /\ Does("syncRoot") /\ "syncRoot" \in RetireOps
      /\ UNCHANGED <<fs, mem, disk, unusable, released, used, unsure>>
  BY <1>1 DEF SyncRoot, RetireOps
<1>3. /\ synced' \in Files /\ synced'.snapshot = synced.snapshot
      /\ synced'.seed = fs.seed /\ synced'.marker = fs.marker
  BY <1>1 DEF VaultInv, VaultTypes, Files, SyncRoot, RootSynced
<1>4. /\ mode = "vault" /\ mode' = "vault" /\ synced.marker /\ unusable
      /\ todo' \in Seq(Ops) /\ InOrder(todo') /\ Committing' /\ NotForgetting' /\ Retiring'
      /\ disk = fs.snapshot /\ disk # None /\ (unsure \/ fs.snapshot = synced.snapshot)
      /\ todo' # <<>> => Follows("syncRoot", NextOp')
  BY <1>1, <1>2, <1>3, RetiringNext DEF SnapshotsAgree
<1>5. VaultTypes'
  BY <1>1, <1>2, <1>3, <1>4 DEF VaultInv, VaultTypes
<1>6. OnlyUnusable' /\ Usable' /\ RootIsSynced' /\ ShownIsReleased'
  BY <1>1, <1>2, <1>3, <1>4 DEF VaultInv, OnlyUnusable, Usable, RootIsSynced, ShownIsReleased
<1>7. WalletIsSomewhere' /\ ReleasedIsEverywhere' /\ BeforeTheVault'
  BY <1>1, <1>2, <1>3, <1>4 DEF VaultInv, WalletIsSomewhere, ReleasedIsEverywhere, HoldsReleased, BeforeTheVault
<1>8. QED
  BY <1>4, <1>5, <1>6, <1>7 DEF VaultInv

\* Retirement ends on a root that is synced.
LEMMA RetiredKeeps == VaultInv /\ Retired => VaultInv'
<1>1. SUFFICES ASSUME VaultInv, Retired PROVE VaultInv'
  OBVIOUS
<1>2. /\ Does("retired") /\ "retired" \in RetireOps /\ unusable' = FALSE /\ mem' = None
      /\ UNCHANGED <<fs, synced, disk, released, used, unsure>>
  BY <1>1 DEF Retired, RetireOps
<1>3. /\ mode = "vault" /\ mode' = "vault" /\ synced.marker /\ todo # <<>> /\ NextOp = "retired"
      /\ disk = fs.snapshot /\ disk # None /\ SnapshotsAgree
      /\ todo' # <<>> => Follows("retired", NextOp')
  BY <1>1, <1>2, RetiringNext
<1>4. todo' = <<>>
  BY <1>3 DEF Follows
<1>5. VaultTypes'
  BY <1>1, <1>2, <1>3, <1>4, NothingToDo DEF VaultInv, VaultTypes
<1>6. Usable' /\ RootIsSynced' /\ ShownIsReleased'
  BY <1>1, <1>2, <1>3, <1>4 DEF VaultInv, Usable, SnapshotsAgree, RootIsSynced, ShownIsReleased
<1>7. WalletIsSomewhere' /\ ReleasedIsEverywhere' /\ BeforeTheVault'
  BY <1>1, <1>2, <1>3 DEF VaultInv, WalletIsSomewhere, ReleasedIsEverywhere, HoldsReleased, BeforeTheVault
<1>8. QED
  BY <1>3, <1>4, <1>5, <1>6, <1>7, NothingToDo DEF VaultInv

-----------------------------------------------------------------------------
(* The theorems *)

\* The invariant holds however operations, errors, kills and power cuts interleave.
THEOREM VaultInvariant == Spec => []VaultInv
<1>1. Init => VaultInv
  BY VaultInvInit
<1>2. VaultInv /\ [Next]_vars => VaultInv'
  <2>1. VaultInv /\ Next => VaultInv'
    BY OpenPlainKeeps, SavePlainKeeps, OpenKeeps, OpenFailsKeeps, DiesKeeps, PowerCutKeeps, MigrateKeeps,
       InitializeKeeps, FinishRetirementKeeps, UnlockKeeps, LockKeeps, UpdateKeeps, RenameKeeps, SyncVaultKeeps,
       PublishKeeps, InstallKeeps, HoldKeeps, RemoveDbKeeps, TombstoneKeeps, SyncRootKeeps, RetiredKeeps, FailsKeeps
       DEF Next
  <2>2. VaultInv /\ UNCHANGED vars => VaultInv'
    <3>1. SUFFICES ASSUME VaultInv, UNCHANGED vars PROVE VaultInv'
      OBVIOUS
    <3>2. UNCHANGED <<fs, synced, mode, mem, disk, unusable, todo, released, used, unsure>>
      BY <3>1 DEF vars
    <3>3. VaultTypes' /\ InOrder(todo') /\ (todo' # <<>> => mode' = "vault")
      BY <3>1, <3>2 DEF VaultInv, VaultTypes
    <3>4. Committing' /\ NotForgetting'
      BY <3>1, <3>2 DEF VaultInv, Committing, NotForgetting, NoOlder, NextOp
    <3>5. Retiring' /\ OnlyUnusable' /\ Usable' /\ RootIsSynced' /\ ShownIsReleased'
      BY <3>1, <3>2 DEF VaultInv, Retiring, OnlyUnusable, Usable, SnapshotsAgree, RootIsSynced, ShownIsReleased, NextOp
    <3>6. WalletIsSomewhere' /\ ReleasedIsEverywhere' /\ BeforeTheVault'
      BY <3>1, <3>2 DEF VaultInv, WalletIsSomewhere, ReleasedIsEverywhere, HoldsReleased, BeforeTheVault
    <3>7. QED
      BY <3>3, <3>4, <3>5, <3>6 DEF VaultInv
  <2>3. QED BY <2>1, <2>2
<1>3. QED
  BY <1>1, <1>2, PTL DEF Spec

\* KeysSurvive: wherever migration, retirement, a kill or a power cut broke off, the keys
\* of a wallet are on disk (persist and finish_legacy_retirement).
THEOREM KeysNeverLost == Spec => []KeysSurvive
<1>1. VaultInv => KeysSurvive
  BY DEF VaultInv, WalletIsSomewhere, KeysSurvive, KeysAlwaysSurvive
<1>2. QED BY <1>1, VaultInvariant, PTL

\* ReleasedIsSaved: what update has handed out is in the snapshot on disk, after any crash.
THEOREM ReleasedNeverLost == Spec => []ReleasedIsSaved
<1>1. VaultInv => ReleasedIsSaved
  <2>1. SUFFICES ASSUME VaultInv PROVE ReleasedIsSaved
    OBVIOUS
  <2>2. released # None /\ ~unsure => fs.snapshot # None /\ released <= fs.snapshot
    BY <2>1 DEF VaultInv, ReleasedIsEverywhere, HoldsReleased
  <2>3. released \in Versions \cup {None} /\ fs.snapshot \in Versions \cup {None}
    BY <2>1 DEF VaultInv, VaultTypes, Files
  <2>4. QED
    BY <2>2, <2>3 DEF ReleasedIsSaved, Versions
<1>2. QED BY <1>1, VaultInvariant, PTL

\* SessionIsDisk: a session that passes healthy works on what is on disk.
THEOREM SessionAlwaysDisk == Spec => []SessionIsDisk
<1>1. VaultInv => SessionIsDisk
  BY DEF VaultInv, Usable, SessionIsDisk, Healthy
<1>2. QED BY <1>1, VaultInvariant, PTL

\* NoPlainFallback: open_at never opens a plaintext wallet beside a vault or in its place.
THEOREM NeverPlainAgain == Spec => []NoPlainFallback
<1>1. VaultInv => NoPlainFallback
  BY DEF VaultInv, BeforeTheVault, NoPlainFallback
<1>2. QED BY <1>1, VaultInvariant, PTL

=============================================================================

--------------------------- MODULE NetworkProofs ----------------------------
(***************************************************************************)
(* Proofs about the transaction pool, the relay and the sessions under it,  *)
(* for every set of transactions, addresses and connections, every cap and  *)
(* every age.  The pool's type invariant and SeenIndexesPool are inductive  *)
(* together; NoDoubleSpendHeld is inductive given the types.  The relay     *)
(* drives the pool through the pool's own steps, so what is proved of the   *)
(* pool holds under it; the sessions change what the relay sees only by     *)
(* its own steps, so what is proved of the relay holds over them.           *)
(***************************************************************************)
EXTENDS Network, TLAPS

-----------------------------------------------------------------------------
(* The pool *)

\* Live and Conflicts only ever name held transactions.
LEMMA LiveIsHeld == Live \subseteq txs
  BY DEF Live

\* The pool's state has its type and the timestamp index follows the map.
PoolInv == TypeOK /\ SeenIndexesPool

\* An empty pool at any clock satisfies the invariant.
LEMMA PoolInvInit == Init => PoolInv
  BY PoolAssumption DEF Init, PoolInv, TypeOK, SeenIndexesPool, Absent

\* Every method keeps the index and the map in step: one step per method, and
\* for insert_checked one per way it can end.
LEMMA PoolInvStep == PoolInv /\ [Next]_vars => PoolInv'
<1> SUFFICES ASSUME PoolInv, [Next]_vars PROVE PoolInv'
  OBVIOUS
<1> USE DEF PoolInv, TypeOK, SeenIndexesPool, Absent
<1>1. ASSUME NEW t \in TxIds, InsertChecked(t) PROVE PoolInv'
  <2> DEFINE full == ~HasRoom(txs)
             held == IF full THEN Live ELSE txs
             kept == IF full THEN SeenOf(Live) ELSE seen
             conf == Conflicts(t, held)
  <2>1. held \subseteq txs
    BY LiveIsHeld
  <2>2. kept \in [TxIds -> Nat \cup {Absent}]
    BY DEF SeenOf
  <2>3. \A u \in TxIds : u \in held <=> kept[u] # Absent
    BY LiveIsHeld DEF SeenOf
  <2>4. conf \subseteq held
    BY DEF Conflicts
  <2> HIDE DEF full, held, kept, conf
  <2>5. CASE txs' = held /\ seen' = kept /\ now' = now
    BY <2>1, <2>2, <2>3, <2>5
  <2>6. CASE /\ txs' = held \cup {t}
             /\ seen' = [kept EXCEPT ![t] = FirstSeen(kept, t)]
             /\ now' = now
    BY <2>1, <2>2, <2>3, <2>6 DEF FirstSeen
  <2>7. ASSUME NEW u \in conf, t \notin held, now' = now,
               txs' = (held \ {u}) \cup {t},
               seen' = [kept EXCEPT ![u] = Absent, ![t] = FirstSeen(kept, u)]
        PROVE  PoolInv'
    BY <2>1, <2>2, <2>3, <2>4, <2>7 DEF FirstSeen
  <2>8. QED
    BY <1>1, <2>5, <2>6, <2>7 DEF InsertChecked, full, held, kept, conf
<1>2. CASE Expire
  BY <1>2, LiveIsHeld DEF Expire, SeenOf
<1>3. ASSUME NEW b \in BlockBodies, RemoveIncluded(b) PROVE PoolInv'
  BY <1>3 DEF RemoveIncluded, SeenOf
<1>4. ASSUME NEW ids \in SUBSET TxIds, DropIds(ids) PROVE PoolInv'
  BY <1>4 DEF DropIds
<1>5. CASE Tick
  BY <1>5 DEF Tick
<1>6. CASE UNCHANGED vars
  BY <1>6 DEF vars
<1>7. QED
  BY <1>1, <1>2, <1>3, <1>4, <1>5, <1>6 DEF Next

\* The map, the index and the clock keep their types, and the index names
\* exactly the held transactions, after any sequence of pool methods.
THEOREM PoolTypeAndIndex == Spec => [](TypeOK /\ SeenIndexesPool)
<1>1. Spec => []PoolInv
  BY PoolInvInit, PoolInvStep, PTL DEF Spec
<1>2. PoolInv => TypeOK /\ SeenIndexesPool
  BY DEF PoolInv
<1>3. QED
  BY <1>1, <1>2, PTL

-----------------------------------------------------------------------------

\* Every method keeps the held spends disjoint: only insert_checked adds a
\* transaction, and only once nothing held conflicts with it any more.
LEMMA DoubleSpendStep == PoolInv /\ NoDoubleSpendHeld /\ [Next]_vars => NoDoubleSpendHeld'
<1> SUFFICES ASSUME PoolInv, NoDoubleSpendHeld, [Next]_vars PROVE NoDoubleSpendHeld'
  OBVIOUS
<1> USE DEF NoDoubleSpendHeld
\* Any step that only removes transactions keeps the property.
<1>0. ASSUME txs' \subseteq txs PROVE NoDoubleSpendHeld'
  BY <1>0
<1>1. ASSUME NEW t \in TxIds, InsertChecked(t) PROVE NoDoubleSpendHeld'
  <2> DEFINE full == ~HasRoom(txs)
             held == IF full THEN Live ELSE txs
             kept == IF full THEN SeenOf(Live) ELSE seen
             conf == Conflicts(t, held)
  <2>1. held \subseteq txs
    BY LiveIsHeld
  <2>2. \A u \in held : u \notin conf => Inputs[u] \cap Inputs[t] = {}
    BY DEF Conflicts
  <2> HIDE DEF full, held, kept, conf
  <2>3. CASE txs' = held
    BY <2>1, <2>3, <1>0
  <2>4. CASE conf = {} /\ txs' = held \cup {t}
    BY <2>1, <2>2, <2>4
  \* An upgrade removes the only held transaction the newcomer conflicts with.
  <2>5. ASSUME NEW u \in conf, conf = {u}, txs' = (held \ {u}) \cup {t}
        PROVE  NoDoubleSpendHeld'
    BY <2>1, <2>2, <2>5
  <2>6. QED
    BY <1>1, <2>3, <2>4, <2>5 DEF InsertChecked, full, held, kept, conf
<1>2. CASE Expire
  BY <1>0, <1>2, LiveIsHeld DEF Expire
<1>3. ASSUME NEW b \in BlockBodies, RemoveIncluded(b) PROVE NoDoubleSpendHeld'
  BY <1>0, <1>3 DEF RemoveIncluded
<1>4. ASSUME NEW ids \in SUBSET TxIds, DropIds(ids) PROVE NoDoubleSpendHeld'
  BY <1>0, <1>4 DEF DropIds
<1>5. CASE Tick
  BY <1>0, <1>5 DEF Tick
<1>6. CASE UNCHANGED vars
  BY <1>0, <1>6 DEF vars
<1>7. QED
  BY <1>1, <1>2, <1>3, <1>4, <1>5, <1>6 DEF Next

\* No two held transactions ever spend the same commitment, for any set of
\* transactions, any cap and any interleaving of the pool's methods.
THEOREM PoolHasNoDoubleSpend == Spec => []NoDoubleSpendHeld
<1>1. Init => PoolInv /\ NoDoubleSpendHeld
  BY PoolInvInit DEF Init, NoDoubleSpendHeld
<1>2. PoolInv /\ NoDoubleSpendHeld /\ [Next]_vars => (PoolInv /\ NoDoubleSpendHeld)'
  BY PoolInvStep, DoubleSpendStep
<1>3. QED
  BY <1>1, <1>2, PTL DEF Spec

-----------------------------------------------------------------------------
(* What a step may never do *)

\* The clock starts beyond MaxAge and never goes back: the cutoff of a sweep is
\* a time, never clamped to zero.
ClockInv == PoolInv /\ NoDoubleSpendHeld /\ now > MaxAge

\* ClockInv is inductive.
LEMMA ClockInvStep == ClockInv /\ [Next]_vars => ClockInv'
<1> SUFFICES ASSUME ClockInv, [Next]_vars PROVE ClockInv'
  OBVIOUS
<1>1. now' = now \/ now' = now + 1
  BY DEF Next, vars, InsertChecked, Expire, RemoveIncluded, DropIds, Tick
<1>2. now' > MaxAge
  BY <1>1, PoolAssumption DEF ClockInv, PoolInv, TypeOK
<1>3. QED
  BY <1>2, PoolInvStep, DoubleSpendStep DEF ClockInv

\* The invariant holds in every state of the pool.
LEMMA ClockAlways == Spec => []ClockInv
<1>1. Init => ClockInv
  BY PoolInvInit, PoolAssumption DEF Init, ClockInv, NoDoubleSpendHeld
<1>2. QED
  BY <1>1, ClockInvStep, PTL DEF Spec

\* A sweep forgets a held transaction only at its age.
LEMMA SweepTakesOld ==
    ASSUME ClockInv, NEW u \in txs, u \notin Live
    PROVE  seen[u] \in Nat /\ seen[u] + MaxAge <= now
<1>1. seen[u] \in Nat
  BY DEF ClockInv, PoolInv, TypeOK, SeenIndexesPool
<1>2. ~(seen[u] > now - MaxAge)
  BY PoolAssumption DEF Live, ClockInv, PoolInv, TypeOK
<1>3. QED
  BY <1>1, <1>2, PoolAssumption DEF ClockInv, PoolInv, TypeOK

\* One step of the pool, for a newcomer and a transaction that left.
LEMMA NewcomerStep ==
    ASSUME ClockInv, [Next]_vars, NEW t \in txs' \ txs, NEW u \in txs \ txs'
    PROVE  \/ seen[u] + MaxAge <= now
           \/ LegacyId[t] = LegacyId[u] /\ FullBinding[t] /\ ~FullBinding[u]
\* Only insert_checked adds a transaction.
<1>1. PICK w \in TxIds : InsertChecked(w)
  BY LiveIsHeld DEF Next, vars, Expire, RemoveIncluded, DropIds, Tick
<1> DEFINE full == ~HasRoom(txs)
           held == IF full THEN Live ELSE txs
           conf == Conflicts(w, held)
<1>2. held \subseteq txs
  BY LiveIsHeld
<1>3. CASE u \notin held
  BY <1>3, SweepTakesOld
<1>4. CASE u \in held
  <2>1. PICK v \in conf : Upgrades(w, v) /\ txs' = (held \ {v}) \cup {w}
    BY <1>1, <1>2, <1>4 DEF InsertChecked
  <2>2. t = w /\ u = v
    BY <1>2, <1>4, <2>1
  <2>3. QED
    BY <2>1, <2>2 DEF Upgrades
<1>5. QED
  BY <1>3, <1>4

\* First seen wins: a newcomer displaces a held transaction only when that one
\* has expired, or is the same spend without its binding fields, for any set of
\* transactions, any cap and any age.
THEOREM NewcomersDisplaceNothing == Spec => FirstSeenWins
<1>1. ClockInv /\ [Next]_vars =>
        [\A t \in txs' \ txs : \A u \in txs \ txs' :
           \/ seen[u] + MaxAge <= now
           \/ LegacyId[t] = LegacyId[u] /\ FullBinding[t] /\ ~FullBinding[u]]_vars
  BY NewcomerStep
<1>2. QED
  BY <1>1, ClockAlways, PTL DEF Spec, FirstSeenWins

\* One step of the pool, for one spend before and after it.
LEMMA SpendStep ==
    ASSUME ClockInv, [Next]_vars, NEW t \in txs', NEW u \in txs,
           LegacyId[t] = LegacyId[u], Inputs[t] # {}
    PROVE  seen'[t] = seen[u] \/ seen[u] + MaxAge <= now
<1>1. t \in TxIds /\ u \in TxIds
  BY ClockInvStep DEF ClockInv, PoolInv, TypeOK
<1>2. Inputs[t] = Inputs[u]
  BY <1>1, SpendAssumption
\* Held together they would be a double spend.
<1>3. t \in txs => t = u
  BY <1>2 DEF ClockInv, NoDoubleSpendHeld
\* A step that only removes transactions keeps the times of what it leaves.
<1>4. CASE txs' \subseteq txs /\ \A x \in txs' : seen'[x] = seen[x]
  BY <1>3, <1>4
<1>5. ASSUME NEW w \in TxIds, InsertChecked(w)
      PROVE  seen'[t] = seen[u] \/ seen[u] + MaxAge <= now
  <2> DEFINE full == ~HasRoom(txs)
             held == IF full THEN Live ELSE txs
             kept == IF full THEN SeenOf(Live) ELSE seen
             conf == Conflicts(w, held)
  <2>1. held \subseteq txs /\ \A x \in held : kept[x] = seen[x]
    BY LiveIsHeld DEF SeenOf, ClockInv, PoolInv, TypeOK
  <2>2. kept \in [TxIds -> Nat \cup {Absent}]
    BY DEF SeenOf, ClockInv, PoolInv, TypeOK
  <2>3. CASE u \notin held
    BY <2>3, SweepTakesOld
  <2> SUFFICES ASSUME u \in held PROVE seen'[t] = seen[u]
    BY <2>3
  <2>4. w = t /\ w \notin held => u \in conf
    BY <1>2 DEF Conflicts
  <2>5. seen[u] # Absent
    BY DEF ClockInv, PoolInv, SeenIndexesPool, TypeOK
  <2> HIDE DEF full, held, kept, conf
  <2>6. CASE txs' = held /\ seen' = kept
    BY <1>3, <2>1, <2>6
  <2>7. CASE /\ conf = {} /\ w \notin held
             /\ txs' = held \cup {w}
             /\ seen' = [kept EXCEPT ![w] = FirstSeen(kept, w)]
    <3>1. t # w
      BY <2>4, <2>7
    <3>2. t = u
      BY <1>3, <2>1, <2>7, <3>1
    <3>3. QED
      BY <1>1, <2>1, <2>2, <2>7, <3>1, <3>2
  <2>8. ASSUME NEW v \in conf, conf = {v}, w \notin held,
               txs' = (held \ {v}) \cup {w},
               seen' = [kept EXCEPT ![v] = Absent, ![w] = FirstSeen(kept, v)]
        PROVE  seen'[t] = seen[u]
    <3>1. v \in held
      BY DEF Conflicts, conf
    <3>2. CASE t = w
      <4>1. u = v
        BY <2>4, <2>8, <3>2
      <4>2. seen'[t] = FirstSeen(kept, v)
        BY <1>1, <2>2, <2>8, <3>2
      <4>3. QED
        BY <2>1, <2>5, <4>1, <4>2 DEF FirstSeen
    <3>3. CASE t # w
      BY <1>1, <1>3, <2>1, <2>2, <2>8, <3>1, <3>3
    <3>4. QED
      BY <3>2, <3>3
  <2>9. QED
    BY <1>5, <2>6, <2>7, <2>8 DEF InsertChecked, full, held, kept, conf
<1>6. CASE Expire
  BY <1>4, <1>6, LiveIsHeld DEF Expire, SeenOf, ClockInv, PoolInv, TypeOK
<1>7. ASSUME NEW b \in BlockBodies, RemoveIncluded(b)
      PROVE  seen'[t] = seen[u] \/ seen[u] + MaxAge <= now
  BY <1>4, <1>7 DEF RemoveIncluded, SeenOf, ClockInv, PoolInv, TypeOK
<1>8. ASSUME NEW ids \in SUBSET TxIds, DropIds(ids)
      PROVE  seen'[t] = seen[u] \/ seen[u] + MaxAge <= now
  BY <1>4, <1>8 DEF DropIds, ClockInv, PoolInv, TypeOK
<1>9. CASE Tick
  BY <1>4, <1>9 DEF Tick
<1>10. CASE UNCHANGED vars
  BY <1>4, <1>10 DEF vars
<1>11. QED
  BY <1>5, <1>6, <1>7, <1>8, <1>9, <1>10 DEF Next

\* Offering a spend again, or upgrading it, never restarts its clock: it is
\* held with the time it was first seen until that time has expired.
THEOREM SpendsKeepTheirClock == Spec => AgeOfSpendKept
<1>1. ClockInv /\ [Next]_vars =>
        [\A t \in txs', u \in txs :
           LegacyId[t] = LegacyId[u] /\ Inputs[t] # {} =>
             seen'[t] = seen[u] \/ seen[u] + MaxAge <= now]_vars
  BY SpendStep
<1>2. QED
  BY <1>1, ClockAlways, PTL DEF Spec, AgeOfSpendKept

-----------------------------------------------------------------------------
(* The relay *)

\* Each step of the relay is a step of the pool, or leaves the pool alone.
LEMMA RelayStepIsPoolStep == [RelayNext]_allVars => [Next]_vars
<1> SUFFICES ASSUME [RelayNext]_allVars PROVE [Next]_vars
  OBVIOUS
<1>1. ASSUME NEW t \in TxIds, SubmitTx(t) PROVE Next
  BY <1>1 DEF SubmitTx, Next
<1>2. ASSUME NEW t \in TxIds, NEW s \in Sessions, ReceiveTx(t, s) PROVE Next
  BY <1>2 DEF ReceiveTx, Next
<1>3. ASSUME NEW t \in TxIds, NEW s \in Sessions, PassOn(t, s) PROVE UNCHANGED vars
  BY <1>3 DEF PassOn
<1>4. CASE TakeDue
  BY <1>4 DEF TakeDue
<1>5. ASSUME NEW t \in TxIds, FluffDue(t) PROVE UNCHANGED vars
  BY <1>5 DEF FluffDue
<1>6. CASE SessionsChange
  BY <1>6 DEF SessionsChange
<1>7. CASE PoolShrinks
  BY <1>7 DEF PoolShrinks, Next
<1>8. CASE TimePasses
  BY <1>8 DEF TimePasses, Next
<1>9. CASE UNCHANGED allVars
  BY <1>9 DEF allVars
<1>10. QED
  BY <1>1, <1>2, <1>3, <1>4, <1>5, <1>6, <1>7, <1>8, <1>9 DEF RelayNext

\* The relay keeps to the pool's specification.
THEOREM RelayKeepsPool == RelaySpec => Spec
<1>1. RelayInit => Init
  BY DEF RelayInit
<1>2. QED
  BY <1>1, RelayStepIsPoolStep, PTL DEF RelaySpec, Spec

\* No two transactions the relay has pooled spend the same commitment.
THEOREM RelayHasNoDoubleSpend == RelaySpec => []NoDoubleSpendHeld
  BY RelayKeepsPool, PoolHasNoDoubleSpend, PTL

-----------------------------------------------------------------------------

\* insert_checked only adds the transaction it is given, and only when it
\* answers Added.
LEMMA InsertAdds ==
  ASSUME NEW t \in TxIds, InsertChecked(t)
  PROVE  txs' \subseteq IF Added(t) THEN txs \cup {t} ELSE txs
<1> DEFINE held == IF ~HasRoom(txs) THEN Live ELSE txs
           conf == Conflicts(t, held)
<1>1. held \subseteq txs
  BY LiveIsHeld
<1>2. held = IF HasRoom(txs) THEN txs ELSE Live
  OBVIOUS
<1>3. CASE txs' = held
  BY <1>1, <1>3
<1>4. CASE /\ HasRoom(held) /\ t \notin held /\ conf = {} /\ txs' = held \cup {t}
  BY <1>1, <1>2, <1>4 DEF Added
<1>5. ASSUME HasRoom(held), t \notin held, NEW u \in conf, conf = {u}, Upgrades(t, u),
             txs' = (held \ {u}) \cup {t}
      PROVE  txs' \subseteq IF Added(t) THEN txs \cup {t} ELSE txs
  BY <1>1, <1>2, <1>5 DEF Added
<1>6. QED
  BY <1>3, <1>4, <1>5 DEF InsertChecked

\* What the relay still has to do for t, or has done.
Covered(t) ==
    \/ embargo[t] # Absent \/ t \in due \/ t \in fluffed \/ t \in alone
    \/ \E s \in Sessions : <<t, s>> \in taken

\* The pool and the embargoes have their types, and no transaction is forgotten.
RelayInv ==
    /\ PoolInv
    /\ embargo \in [TxIds -> Nat \cup {Absent}]
    /\ \A t \in txs : Covered(t)

\* Whichever way t is passed on, it stays covered, and so do the others.
LEMMA PropagateCovers ==
  ASSUME RelayInv, NEW t \in TxIds, NEW from, NEW origin, Propagate(t, from, origin),
         due' = due
  PROVE  /\ embargo' \in [TxIds -> Nat \cup {Absent}]
         /\ Covered(t)'
         /\ \A u \in TxIds \ {t} : /\ embargo'[u] = embargo[u]
                                   /\ u \in fluffed' <=> u \in fluffed
                                   /\ u \in alone' <=> u \in alone
<1>1. CASE Stems(t, from)
  <2>1. PICK span \in Embargos :
          embargo' = [embargo EXCEPT ![t] = IF now + span <= MaxTime THEN now + span ELSE MaxTime]
    BY <1>1 DEF Stems
  <2>2. (IF now + span <= MaxTime THEN now + span ELSE MaxTime) \in Nat
    BY RelayAssumption, PoolAssumption DEF RelayInv, PoolInv, TypeOK
  <2>3. QED
    BY <1>1, <2>1, <2>2 DEF Stems, Unsent, Covered, RelayInv, Absent
<1>2. CASE Fluffs(t, from)
  BY <1>2 DEF Fluffs, Sent, Covered, RelayInv, Absent
<1>3. QED
  BY <1>1, <1>2 DEF Propagate

\* Every step keeps every pooled transaction covered.
LEMMA RelayInvStep == RelayInv /\ [RelayNext]_allVars => RelayInv'
<1> SUFFICES ASSUME RelayInv, [RelayNext]_allVars PROVE RelayInv'
  OBVIOUS
<1> USE DEF RelayInv
<1>0. PoolInv'
  BY RelayStepIsPoolStep, PoolInvStep
<1>1. txs \subseteq TxIds
  BY DEF PoolInv, TypeOK
<1>2. ASSUME NEW t \in TxIds, SubmitTx(t) PROVE RelayInv'
  <2>1. txs' \subseteq IF Added(t) THEN txs \cup {t} ELSE txs
    BY <1>2, InsertAdds DEF SubmitTx
  <2>2. CASE Added(t)
    <3>1. Propagate(t, None, TRUE) /\ due' = due /\ taken' = taken
      BY <1>2, <2>2 DEF SubmitTx
    <3>2. QED
      BY <1>0, <1>1, <2>1, <2>2, <3>1, PropagateCovers DEF Covered
  <2>3. CASE ~Added(t)
    BY <1>0, <1>2, <2>1, <2>3 DEF SubmitTx, Covered
  <2>4. QED
    BY <2>2, <2>3
<1>3. ASSUME NEW t \in TxIds, NEW s \in Sessions, ReceiveTx(t, s) PROVE RelayInv'
  <2>1. txs' \subseteq IF Added(t) THEN txs \cup {t} ELSE txs
    BY <1>3, InsertAdds DEF ReceiveTx
  <2>2. CASE Added(t)
    BY <1>0, <1>1, <1>3, <2>1, <2>2 DEF ReceiveTx, Unsent, Covered
  <2>3. CASE ~Added(t)
    BY <1>0, <1>3, <2>1, <2>3 DEF ReceiveTx, Covered
  <2>4. QED
    BY <2>2, <2>3
<1>4. ASSUME NEW t \in TxIds, NEW s \in Sessions, PassOn(t, s) PROVE RelayInv'
  <2>1. Propagate(t, s, FALSE) /\ due' = due /\ taken' = taken \ {<<t, s>>} /\ txs' = txs
    BY <1>4 DEF PassOn, vars
  <2>2. \A u \in TxIds \ {t}, r \in Sessions : <<u, r>> \in taken => <<u, r>> \in taken'
    BY <2>1
  <2>3. QED
    BY <1>0, <1>1, <2>1, <2>2, PropagateCovers DEF Covered
\* The copies are made of all that is due and still held.
<1>5. CASE TakeDue
  BY <1>0, <1>1, <1>5 DEF TakeDue, Overdue, Picked, Covered, vars
<1>6. ASSUME NEW t \in TxIds, FluffDue(t) PROVE RelayInv'
  BY <1>0, <1>1, <1>6 DEF FluffDue, Sent, Covered, vars
<1>7. CASE SessionsChange
  BY <1>0, <1>7 DEF SessionsChange, Covered, vars
<1>8. CASE PoolShrinks
  <2>1. txs' \subseteq txs
    BY <1>8, LiveIsHeld DEF PoolShrinks, Expire, RemoveIncluded, DropIds
  <2>2. QED
    BY <1>0, <1>8, <2>1 DEF PoolShrinks, relayVars, Covered
<1>9. CASE TimePasses
  BY <1>0, <1>9 DEF TimePasses, Tick, relayVars, Covered
<1>10. CASE UNCHANGED allVars
  BY <1>0, <1>10 DEF allVars, vars, relayVars, Covered
<1>11. QED
  BY <1>2, <1>3, <1>4, <1>5, <1>6, <1>7, <1>8, <1>9, <1>10 DEF RelayNext

\* No pooled transaction is ever forgotten by the relay, for any transactions,
\* sessions and embargoes and every order of readers, fluffing and blocks.
THEOREM NothingIsForgotten == RelaySpec => []StemIsBackedUp
<1>1. RelayInit => RelayInv
  BY PoolInvInit DEF RelayInit, Init, RelayInv
<1>2. RelayInv => StemIsBackedUp
  BY DEF RelayInv, Covered, StemIsBackedUp
<1>3. QED
  BY <1>1, <1>2, RelayInvStep, PTL DEF RelaySpec

-----------------------------------------------------------------------------
(* The sessions *)

\* The pool has a place for the key of every connection, every thread a stage, and
\* who is to make room is named by a key.
PoolShape ==
    /\ pool \in [Keys -> Conns \cup {Nobody}]
    /\ victim \in [Inbounds -> Keys \cup {Nobody}]
    /\ DOMAIN stage = Conns

\* A socket in the pool has a thread that reads from it, and is there under its key.
PoolIsRead == \A k \in Keys : pool[k] # Nobody => pool[k] \in Reading /\ k = Key(pool[k])

SessionInv == PoolShape /\ PoolIsRead /\ EveryReaderIsPooled

\* Two connections never have the same key, and each has its place in the pool.
LEMMA KeysDiffer ==
  ASSUME NEW c \in Conns, NEW d \in Conns
  PROVE  Key(c) \in Keys /\ (Key(c) = Key(d) => c = d)
  BY SessionAssumption DEF Conns, Key, Keys, OutboundKey, InboundKey

\* A connection that enters the pool does so under its own key.
LEMMA EntersPool ==
  ASSUME SessionInv, NEW c \in Conns, Advances(c, "open"),
         pool' = [pool EXCEPT ![Key(c)] = c], UNCHANGED <<forgotten, victim>>
  PROVE  SessionInv'
<1>1. PoolShape'
  BY KeysDiffer DEF SessionInv, PoolShape, Advances
<1>2. Reading' = Reading \cup {c}
  BY DEF Reading, Advances, SessionInv, PoolShape
<1>3. ASSUME NEW d \in Conns, d # c PROVE pool'[Key(d)] = pool[Key(d)]
  BY <1>3, KeysDiffer DEF SessionInv, PoolShape
<1>4. pool'[Key(c)] = c
  BY KeysDiffer DEF SessionInv, PoolShape
<1>5. EveryReaderIsPooled'
  BY <1>2, <1>3, <1>4, KeysDiffer DEF SessionInv, EveryReaderIsPooled, Reading
<1>6. PoolIsRead'
  BY <1>2, <1>4 DEF SessionInv, PoolIsRead, PoolShape
<1>7. QED
  BY <1>1, <1>5, <1>6 DEF SessionInv

\* The thread of a connection that is not read from moves on without the pool.
LEMMA LeavesPool ==
  ASSUME SessionInv, NEW c \in Conns, NEW to, c \notin Reading, to \notin {"open", "cut"},
         Advances(c, to), victim' \in [Inbounds -> Keys \cup {Nobody}],
         UNCHANGED <<pool, forgotten>>
  PROVE  SessionInv'
<1>1. Reading' = Reading
  BY DEF Reading, Advances, SessionInv, PoolShape
<1>2. PoolShape'
  BY DEF SessionInv, PoolShape, Advances
<1>3. QED
  BY <1>1, <1>2 DEF SessionInv, EveryReaderIsPooled, PoolIsRead

\* A key is emptied, and with it goes the thread, or the session is forgotten.
LEMMA EmptiesPool ==
  ASSUME SessionInv, NEW k \in Keys, pool' = [pool EXCEPT ![k] = Nobody],
         NEW c \in Conns, Reading \ {c} \subseteq Reading', Reading' \subseteq Reading,
         c \in Reading' \/ k = Key(c), DOMAIN stage' = Conns, UNCHANGED victim,
         \A d \in Conns \cap Reading' : d \in forgotten \/ pool[k] = d => d \in forgotten'
  PROVE  SessionInv'
<1>1. PoolShape'
  BY DEF SessionInv, PoolShape
<1>2. ASSUME NEW l \in Keys, pool'[l] # Nobody
      PROVE  pool'[l] \in Reading' /\ l = Key(pool'[l])
  <2>1. l # k /\ pool'[l] = pool[l]
    BY <1>2 DEF SessionInv, PoolShape
  <2>2. pool[l] \in Reading /\ l = Key(pool[l])
    BY <1>2, <2>1 DEF SessionInv, PoolIsRead
  <2>3. QED
    BY <2>1, <2>2
<1>3. ASSUME NEW d \in Reading' PROVE pool'[Key(d)] = d \/ d \in forgotten'
  <2>1. d \in Conns /\ Key(d) \in Keys /\ (pool[Key(d)] = d \/ d \in forgotten)
    BY <1>3, KeysDiffer DEF SessionInv, EveryReaderIsPooled, Reading
  <2>2. CASE Key(d) = k
    BY <1>3, <2>1, <2>2
  <2>3. CASE Key(d) # k
    BY <1>3, <2>1, <2>3 DEF SessionInv, PoolShape
  <2>4. QED
    BY <2>2, <2>3
<1>4. QED
  BY <1>1, <1>2, <1>3 DEF SessionInv, PoolIsRead, EveryReaderIsPooled

\* Every step of the sessions keeps the invariant.
LEMMA SessionStep == SessionInv /\ [SessionNext]_sessionVars => SessionInv'
<1> SUFFICES ASSUME SessionInv, [SessionNext]_sessionVars PROVE SessionInv'
  OBVIOUS
<1>0. Inbounds \subseteq Conns /\ Addrs \subseteq Conns
  BY DEF Conns
<1>1. ASSUME NEW a \in Addrs, NEW h \in 0..MaxHeight, Dial(a, h) PROVE SessionInv'
  BY <1>0, <1>1, EntersPool DEF Dial, Key
<1>2. ASSUME NEW i \in Inbounds, Accept(i) PROVE SessionInv'
  BY <1>0, <1>2, LeavesPool DEF Accept, Reading, SessionInv, PoolShape
<1>3. ASSUME NEW i \in Inbounds, Refuse(i) PROVE SessionInv'
  <2>1. CASE Listens[i] = Nobody
    BY <1>0, <1>3, <2>1, LeavesPool DEF Refuse, Reading, SessionInv, PoolShape
  <2>2. CASE Listens[i] # Nobody
    <3> DEFINE k == OutboundKey(Listens[i])
    <3>1. k \in Keys
      BY <2>2, SessionAssumption DEF Keys, OutboundKey
    <3>2. Reading' = Reading
      BY <1>3 DEF Refuse, Advances, Reading, SessionInv, PoolShape
    <3>3. DOMAIN stage' = Conns /\ UNCHANGED victim /\ pool' = [pool EXCEPT ![k] = Nobody]
      BY <1>3, <2>2 DEF Refuse, Advances, SessionInv, PoolShape
    <3>4. forgotten' = forgotten \cup ({pool[k]} \ {Nobody}) /\ Nobody \notin Conns
      BY <1>3, <2>2, SessionAssumption DEF Refuse
    <3>5. Listens[i] \in Conns /\ k = Key(Listens[i])
      BY <1>0, <2>2, SessionAssumption DEF Key
    <3> HIDE DEF k
    <3>6. QED
      BY <3>1, <3>2, <3>3, <3>4, <3>5, EmptiesPool
  <2>3. QED
    BY <2>1, <2>2
<1>4. ASSUME NEW i \in Inbounds, HelloOnly(i) PROVE SessionInv'
  BY <1>0, <1>4, LeavesPool DEF HelloOnly, Reading, SessionInv, PoolShape
<1>5. ASSUME NEW i \in Inbounds, PickVictim(i) PROVE SessionInv'
  <2>1. Victims(i) \subseteq Keys
    BY DEF Victims, Synced, Keys
  <2>2. victim' \in [Inbounds -> Keys \cup {Nobody}]
    BY <1>5, <2>1 DEF PickVictim, SessionInv, PoolShape
  <2>3. QED
    BY <1>0, <1>5, <2>2, LeavesPool DEF PickVictim, Reading
<1>6. ASSUME NEW i \in Inbounds, Disconnect(i) PROVE SessionInv'
  <2> DEFINE cut == IF victim[i] = Nobody THEN Nobody ELSE pool[victim[i]]
  <2>1. cut = Nobody \/ cut \in Reading
    BY DEF SessionInv, PoolShape, PoolIsRead
  <2>2. stage' = [c \in Conns |-> IF c = i THEN "ready" ELSE IF c = cut THEN "cut" ELSE stage[c]]
        /\ stage[i] = "picked" /\ UNCHANGED <<pool, forgotten>>
        /\ victim' = [victim EXCEPT ![i] = Nobody]
    BY <1>6 DEF Disconnect
  <2> HIDE DEF cut
  <2>3. Reading' = Reading
    BY <2>1, <2>2, SessionAssumption DEF Reading
  <2>4. PoolShape'
    BY <2>2 DEF SessionInv, PoolShape
  <2>5. QED
    BY <2>2, <2>3, <2>4 DEF SessionInv, EveryReaderIsPooled, PoolIsRead
<1>7. ASSUME NEW i \in Inbounds, Seat(i) PROVE SessionInv'
  <2>1. Key(i) = InboundKey(i)
    BY SessionAssumption DEF Key
  <2>2. QED
    BY <1>0, <1>7, <2>1, EntersPool DEF Seat
<1>8. ASSUME NEW i \in Inbounds, NEW h \in 0..MaxHeight, Hello(i, h) PROVE SessionInv'
  BY <1>0, <1>8, LeavesPool DEF Hello, Reading, SessionInv, PoolShape
<1>9. ASSUME NEW c \in Conns, NEW h \in 0..MaxHeight, Status(c, h) PROVE SessionInv'
  BY <1>9 DEF Status, SessionInv, PoolShape, PoolIsRead, EveryReaderIsPooled, Reading
<1>10. ASSUME NEW c \in Conns, Ends(c) PROVE SessionInv'
  <2>1. Reading' = Reading \ {c} /\ DOMAIN stage' = Conns
    BY <1>10 DEF Ends, Advances, Reading, SessionInv, PoolShape
  <2>2. Key(c) \in Keys /\ UNCHANGED victim /\ pool' = [pool EXCEPT ![Key(c)] = Nobody]
    BY <1>10, KeysDiffer DEF Ends
  <2>3. \A d \in Conns \cap Reading' : pool[Key(c)] # d
    <3>1. SUFFICES ASSUME NEW d \in Conns, d \in Reading', pool[Key(c)] = d PROVE FALSE
      OBVIOUS
    <3>2. d # Nobody /\ d # c
      BY <2>1, <3>1, SessionAssumption
    <3>3. Key(c) = Key(d)
      BY <2>2, <3>1, <3>2 DEF SessionInv, PoolIsRead
    <3>4. QED
      BY <3>2, <3>3, KeysDiffer
  <2>4. forgotten' = forgotten \ {c}
    BY <1>10 DEF Ends
  <2>5. QED
    BY <2>1, <2>2, <2>3, <2>4, EmptiesPool
<1>11. CASE TipGrows
  BY <1>11 DEF TipGrows, SessionInv, PoolShape, PoolIsRead, EveryReaderIsPooled, Reading
<1>12. CASE UNCHANGED sessionVars
  BY <1>12 DEF sessionVars, SessionInv, PoolShape, PoolIsRead, EveryReaderIsPooled, Reading
<1>13. QED
  BY <1>1, <1>2, <1>3, <1>4, <1>5, <1>6, <1>7, <1>8, <1>9, <1>10, <1>11, <1>12 DEF SessionNext

-----------------------------------------------------------------------------

\* A step over real sessions is one of the sessions, or leaves them alone.
LEMMA NetSessionStep == [NetNext]_netVars => [SessionNext]_sessionVars
  BY DEF NetNext, netVars, FromWallet, FromPeer, Passes, TakesDue, Fluffing, Shrinks,
         ClockTicks, SessionMoves

\* The pool of sockets never loses or swaps a session that is being read from, for
\* any number of addresses and connections, whatever address they advertise.
THEOREM EveryReaderStaysPooled == NetSpec => []EveryReaderIsPooled
<1>1. NetInit => SessionInv
  BY SessionAssumption DEF NetInit, SessionInit, SessionInv, PoolShape, PoolIsRead,
     EveryReaderIsPooled, Reading
<1>2. SessionInv => EveryReaderIsPooled
  BY DEF SessionInv
<1>3. NetInit /\ [][NetNext]_netVars => []SessionInv
  BY <1>1, NetSessionStep, SessionStep, PTL
<1>4. QED
  BY <1>2, <1>3, PTL DEF NetSpec

\* Connections whose peer has said its height and not been given up.
Heard == {c \in Conns : stage[c] \in {"greeted", "picked", "ready", "open", "cut"}}

\* What such a peer said last is what is on record under its key.  Once a connection
\* has ended before its session began, the record is of nobody (HelloOnly).
HeightInv ==
    /\ height \in [Keys -> -1..MaxHeight] /\ said \in [Conns -> -1..MaxHeight]
    /\ DOMAIN stage = Conns
    /\ \A c \in Heard : said[c] \in 0..MaxHeight /\ height[Key(c)] = said[c]

\* A height said is put on record.
LEMMA HeightRecorded ==
  ASSUME HeightInv, NEW c \in Conns, NEW h \in 0..MaxHeight, Records(c, h),
         Heard' \subseteq Heard \cup {c}, DOMAIN stage' = Conns
  PROVE  HeightInv'
<1>1. h \in -1..MaxHeight
  BY SessionAssumption
<1>2. said' \in [Conns -> -1..MaxHeight] /\ height' \in [Keys -> -1..MaxHeight]
  BY <1>1, KeysDiffer DEF Records, HeightInv
<1>3. said'[c] = h /\ height'[Key(c)] = h
  BY KeysDiffer DEF Records, HeightInv
<1>4. ASSUME NEW d \in Heard', d # c
      PROVE  d \in Heard /\ said'[d] = said[d] /\ height'[Key(d)] = height[Key(d)]
  BY <1>4, KeysDiffer DEF Records, HeightInv, Heard
<1>5. QED
  BY <1>2, <1>3, <1>4 DEF HeightInv

\* Nothing is heard, and nobody new is there to have said it.
LEMMA HeightKept ==
  ASSUME HeightInv, Heard' \subseteq Heard, DOMAIN stage' = Conns, UNCHANGED <<height, said>>
  PROVE  HeightInv'
  BY DEF HeightInv

\* Every step of the sessions keeps heights and records together.
LEMMA HeightStep == SessionInv /\ HeightInv /\ [SessionNext]_sessionVars => HeightInv'
<1> SUFFICES ASSUME SessionInv, HeightInv, [SessionNext]_sessionVars PROVE HeightInv'
  OBVIOUS
<1>0. Inbounds \subseteq Conns /\ Addrs \subseteq Conns
  BY DEF Conns
<1>1. ASSUME NEW a \in Addrs, NEW h \in 0..MaxHeight, Dial(a, h) PROVE HeightInv'
  BY <1>0, <1>1, HeightRecorded DEF Dial, Advances, Heard, HeightInv
<1>2. ASSUME NEW i \in Inbounds, Accept(i) \/ Refuse(i) PROVE HeightInv'
  BY <1>0, <1>2, HeightKept DEF Accept, Refuse, Advances, Heard, HeightInv
<1>3. ASSUME NEW i \in Inbounds, NEW h \in 0..MaxHeight, Hello(i, h) PROVE HeightInv'
  BY <1>0, <1>3, HeightRecorded DEF Hello, Advances, Heard, HeightInv
<1>4. ASSUME NEW i \in Inbounds, HelloOnly(i) PROVE HeightInv'
  <2>1. Heard' = Heard \ {i} /\ DOMAIN stage' = Conns
    BY <1>0, <1>4 DEF HelloOnly, Advances, Heard, HeightInv
  <2>2. height' = height /\ said' = [said EXCEPT ![i] = -1] /\ -1 \in -1..MaxHeight
    BY <1>4, SessionAssumption DEF HelloOnly, Unrecorded
  <2>3. said' \in [Conns -> -1..MaxHeight] /\ \A d \in Heard' : said'[d] = said[d]
    BY <1>0, <2>1, <2>2 DEF HeightInv, Heard
  <2>4. QED
    BY <2>1, <2>2, <2>3 DEF HeightInv
<1>5. ASSUME NEW i \in Inbounds, PickVictim(i) \/ Seat(i) PROVE HeightInv'
  BY <1>0, <1>5, HeightKept DEF PickVictim, Seat, Advances, Heard, HeightInv
<1>6. ASSUME NEW i \in Inbounds, Disconnect(i) PROVE HeightInv'
  <2> DEFINE cut == IF victim[i] = Nobody THEN Nobody ELSE pool[victim[i]]
  <2>1. cut = Nobody \/ cut \in Reading
    BY DEF SessionInv, PoolShape, PoolIsRead
  <2>2. stage' = [c \in Conns |-> IF c = i THEN "ready" ELSE IF c = cut THEN "cut" ELSE stage[c]]
        /\ stage[i] = "picked" /\ UNCHANGED <<height, said>>
    BY <1>6 DEF Disconnect
  <2> HIDE DEF cut
  <2>3. Heard' \subseteq Heard /\ DOMAIN stage' = Conns
    BY <2>1, <2>2, SessionAssumption DEF Heard, Reading
  <2>4. QED
    BY <2>2, <2>3, HeightKept
<1>7. ASSUME NEW c \in Conns, NEW h \in 0..MaxHeight, Status(c, h) PROVE HeightInv'
  BY <1>7, HeightRecorded DEF Status, Heard, HeightInv
<1>8. ASSUME NEW c \in Conns, Ends(c) PROVE HeightInv'
  <2>1. Heard' = Heard \ {c} /\ DOMAIN stage' = Conns
    BY <1>8 DEF Ends, Advances, Heard, HeightInv
  <2>2. /\ height' = [height EXCEPT ![Key(c)] = -1] /\ said' = [said EXCEPT ![c] = -1]
        /\ -1 \in -1..MaxHeight
    BY <1>8, SessionAssumption DEF Ends, Unrecorded
  <2>3. height' \in [Keys -> -1..MaxHeight] /\ said' \in [Conns -> -1..MaxHeight]
    BY <2>2, KeysDiffer DEF HeightInv
  <2>4. \A d \in Heard' : d \in Heard /\ said'[d] = said[d] /\ height'[Key(d)] = height[Key(d)]
    BY <2>1, <2>2, KeysDiffer DEF HeightInv, Heard
  <2>5. QED
    BY <2>1, <2>3, <2>4 DEF HeightInv
<1>9. CASE TipGrows
  BY <1>9, HeightKept DEF TipGrows, Heard, HeightInv
<1>10. CASE UNCHANGED sessionVars
  BY <1>10, HeightKept DEF sessionVars, Heard, HeightInv
<1>11. QED
  BY <1>1, <1>2, <1>3, <1>4, <1>5, <1>6, <1>7, <1>8, <1>9, <1>10 DEF SessionNext

\* Who is asked to make room has the chain: pick_eviction_victim reads the recorded
\* heights, takes a session without one for a good choice, and there is none.
THEOREM NoNewcomerIsEvicted == NetSpec => NewcomersStay
<1> DEFINE Fair == \A i \in Inbounds :
                      victim[i] = Nobody /\ victim'[i] # Nobody =>
                          said[pool[victim'[i]]] + Behind >= tip
<1>1. SessionInv /\ HeightInv /\ [SessionNext]_sessionVars => [Fair]_sessionVars
  <2> SUFFICES ASSUME SessionInv, HeightInv, SessionNext, NEW i \in Inbounds,
                      victim[i] = Nobody, victim'[i] # Nobody
               PROVE  said[pool[victim'[i]]] + Behind >= tip
    OBVIOUS
  <2>1. PickVictim(i)
    BY DEF SessionNext, Dial, Accept, Refuse, HelloOnly, PickVictim, Disconnect, Seat, Hello, Status,
           Ends, TipGrows, SessionInv, PoolShape
  <2>2. victim'[i] \in Synced(i)
    BY <2>1 DEF PickVictim, Victims, SessionInv, PoolShape
  <2>3. PICK k \in {"in"} \X Inbounds :
            /\ victim'[i] = k /\ pool[k] # Nobody
            /\ height[k] = Unrecorded \/ height[k] + Behind >= tip
    BY <2>2 DEF Synced
  <2>4. pool[k] \in Reading /\ k = Key(pool[k])
    BY <2>3 DEF SessionInv, PoolIsRead, Keys
  <2>5. said[pool[k]] \in 0..MaxHeight /\ height[k] = said[pool[k]]
    BY <2>4 DEF HeightInv, Heard, Reading
  <2>6. QED
    BY <2>3, <2>5 DEF Unrecorded
<1>2. NetInit => SessionInv /\ HeightInv
  BY SessionAssumption DEF NetInit, SessionInit, SessionInv, PoolShape, PoolIsRead,
     EveryReaderIsPooled, Reading, HeightInv, Heard, Unrecorded
<1>3. SessionInv /\ HeightInv /\ [NetNext]_netVars => SessionInv' /\ HeightInv'
  BY NetSessionStep, SessionStep, HeightStep
<1>4. NetInit /\ [][NetNext]_netVars => [](SessionInv /\ HeightInv)
  BY <1>2, <1>3, PTL
<1>5. QED
  BY <1>1, <1>4, NetSessionStep, PTL DEF NetSpec, NewcomersStay

\* A step over real sessions is a step of the relay, whose sessions may be any.
LEMMA NetRelayStep == SessionInv /\ [NetNext]_netVars => [RelayNext]_allVars
<1> SUFFICES ASSUME SessionInv, [NetNext]_netVars PROVE [RelayNext]_allVars
  OBVIOUS
<1>1. CASE NetNext
  <2>1. ASSUME NEW t \in TxIds, FromWallet(t) \/ Fluffing(t) PROVE RelayNext
    BY <2>1 DEF FromWallet, Fluffing, RelayNext
  <2>2. ASSUME NEW t \in TxIds, NEW c \in Conns, FromPeer(t, c) \/ Passes(t, c) PROVE RelayNext
    BY <2>2, NetworkAssumption DEF FromPeer, Passes, RelayNext
  <2>3. CASE TakesDue \/ Shrinks \/ ClockTicks
    BY <2>3 DEF TakesDue, Shrinks, ClockTicks, RelayNext
  <2>4. CASE SessionMoves
    <3>1. SessionInv'
      BY <2>4, SessionStep DEF SessionMoves
    <3>2. live' \in SUBSET Sessions
      BY <2>4, <3>1, NetworkAssumption DEF SessionMoves, SessionInv, PoolShape, Pooled
    <3>3. SessionsChange
      BY <2>4, <3>2 DEF SessionMoves, SessionsChange
    <3>4. QED
      BY <3>3 DEF RelayNext
  <2>5. QED
    BY <1>1, <2>1, <2>2, <2>3, <2>4 DEF NetNext
<1>2. CASE UNCHANGED netVars
  BY <1>2 DEF netVars
<1>3. QED
  BY <1>1, <1>2

\* The relay over the sessions that really are there implements the relay over any.
THEOREM NetworkImplementsRelay == NetSpec => RelaySpec
<1>1. NetInit => SessionInv
  BY SessionAssumption DEF NetInit, SessionInit, SessionInv, PoolShape, PoolIsRead,
     EveryReaderIsPooled, Reading
<1>2. NetInit /\ [][NetNext]_netVars => []SessionInv
  BY <1>1, NetSessionStep, SessionStep, PTL
<1>3. QED
  BY <1>2, NetRelayStep, PTL DEF NetSpec, NetInit, RelaySpec

\* So no pooled transaction is forgotten, whatever the sessions do.
THEOREM NetworkForgetsNothing == NetSpec => []StemIsBackedUp
  BY NetworkImplementsRelay, NothingIsForgotten, PTL
=============================================================================

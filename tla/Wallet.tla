------------------------------- MODULE Wallet -------------------------------
(***************************************************************************)
(* What a wallet knows of the chain and which payments it signs:           *)
(* nightfall-wallet/src/lib.rs, nightfall-core/src/wallet_state.rs and the *)
(* background scan of nightfall-core/src/app.rs.                           *)
(*                                                                         *)
(* The node's chain is a sequence of blocks; it grows, is replaced above a *)
(* fork, or is thrown away and downloaded again.  The scan works on a copy *)
(* of the wallet while the owner and the node go on; the copy replaces the *)
(* wallet only if nothing was edited meanwhile.  The wallet's file may     *)
(* fail to be written, and the process may stop.                           *)
(*                                                                         *)
(* An output is a name: that of the coin somebody sent or mined, or that   *)
(* of the payment it is the change of.  A block's hash is the chain up to  *)
(* it.  Amounts, fees, maturity and memos are left out.                    *)
(***************************************************************************)
EXTENDS Integers, Sequences, FiniteSets, FiniteSetsExt

CONSTANTS
    Coins,      \* outputs this wallet may receive
    Pays,       \* payments it may make, each named by its change
    Birth,      \* birth height
    PageSize,   \* blocks of one scan page, the overlap included
    MaxInputs,  \* coins one payment may spend
    Vaulted,    \* encrypted storage (TRUE) or the plaintext file (FALSE)
    OldWallet,  \* may the wallet file predate scan anchors?
    MaxLen, MaxForks, MaxEvents   \* bounds: blocks, reorgs, faults and rescans

ASSUME WalletAssumption ==
    /\ Coins \cap Pays = {} /\ Birth \in Nat /\ PageSize \in Nat \ {0, 1}
    /\ MaxInputs \in Nat \ {0} /\ Vaulted \in BOOLEAN /\ OldWallet \in BOOLEAN
    /\ MaxLen \in Nat /\ MaxForks \in Nat /\ MaxEvents \in Nat

VARIABLES
    chain,   \* the node's chain, from genesis
    goal,    \* the chain its peers have; longer than `chain` while downloading
    live,    \* the wallet in memory
    saved,   \* the wallet on disk
    open,    \* may the wallet in memory be used?
    scan,    \* the background scan
    sent,    \* payments some node has accepted
    auto,    \* history: payments the last step put on the wire unasked
    revived, \* history: payments the wallet has seen confirmed and undone
    mixed,   \* history: the wallet has kept outputs of two chains, see Mixes
    used     \* the bounded events so far

vars == <<chain, goal, live, saved, open, scan, sent, auto, revived, mixed, used>>

Commits == Coins \cup Pays

-----------------------------------------------------------------------------
(* The chain *)

Genesis == [ins |-> {}, outs |-> {}]
Receiving(c) == [ins |-> {}, outs |-> {c}]
Tip(ch) == Len(ch) - 1
Upto(ch, h) == SubSeq(ch, 1, h + 1)

Created(bs) == UNION {bs[i].outs : i \in DOMAIN bs}
Consumed(bs) == UNION {bs[i].ins : i \in DOMAIN bs}
Utxo(ch) == Created(ch) \ Consumed(ch)

\* What a block on top of ch may hold of this wallet's: nothing, a new coin, or a
\* payment the network knows.  Below its birth height a wallet has nothing.
BlocksOn(ch) ==
    {Genesis} \cup {b \in {Receiving(c) : c \in Coins \ Created(ch)}
                          \cup {[ins |-> live.sends[p].ins, outs |-> {p}] :
                                   p \in {q \in sent \cap DOMAIN live.sends : live.sends[q].ins \subseteq Utxo(ch)}} :
                      Len(ch) >= Birth}

-----------------------------------------------------------------------------
(* A wallet *)

\* outs: owned output -> its height and whether it is spent; sends: payment ->
\* its inputs, confirmed?, withheld?, given up?; anchor: the block at `scanned`.
NewWallet == [outs |-> <<>>, scanned |-> Birth, anchor |-> <<>>, sends |-> <<>>]

HasScannedHistory(w) ==
    \/ w.scanned > Birth \/ w.anchor # <<>>
    \/ DOMAIN w.outs # {} \/ DOMAIN w.sends # {}

NeedsCanonicalPass(w) == w.anchor = <<>> /\ HasScannedHistory(w)

ScanFrom(w) == IF w.scanned > Birth THEN w.scanned ELSE Birth

Pending(w) == {p \in DOMAIN w.sends : ~w.sends[p].confirmed /\ ~w.sends[p].failed}

PendingInputs(w) == UNION {w.sends[p].ins : p \in Pending(w)}

\* Mutant: the spent flag alone decides.
SelectableBySpent(w) == {c \in DOMAIN w.outs : ~w.outs[c].spent}

Selectable(w) == {c \in DOMAIN w.outs : ~w.outs[c].spent} \ PendingInputs(w)

\* check_scan_anchor against the block at the scan position.
AnchorHolds(w, ch) ==
    /\ w.scanned <= Tip(ch)
    /\ \/ w.anchor = <<>> /\ ~HasScannedHistory(w)
       \/ w.anchor = Upto(ch, w.scanned)

\* require_canonical_scan
IsCanonical(w, ch) == ScanFrom(w) = Tip(ch) /\ AnchorHolds(w, ch)

-----------------------------------------------------------------------------
(* Scanning a page: the blocks of ch from height `from` to height `to` *)

Page(ch, from, to) == [ch |-> ch, from |-> from, to |-> to]
BlocksOf(pg) == SubSeq(pg.ch, pg.from + 1, pg.to + 1)
IsEmptyPage(pg) == pg.to < pg.from

\* covers_canonical_history
Covers(w, pg) ==
    /\ ~IsEmptyPage(pg)
    /\ pg.from \in {0, Birth}
    /\ pg.to >= w.scanned /\ \A c \in DOMAIN w.outs : pg.to >= w.outs[c].height

\* With the outputs of the page the wallet did not know, and its inputs spent.
Added(w, pg) ==
    LET FoundAt(c) == CHOOSE h \in pg.from..pg.to : c \in pg.ch[h + 1].outs
    IN  [w EXCEPT !.outs = [c \in DOMAIN w.outs \cup Created(BlocksOf(pg)) |->
            [height |-> IF c \in DOMAIN w.outs THEN w.outs[c].height ELSE FoundAt(c),
             spent  |-> \/ c \in Consumed(BlocksOf(pg))
                        \/ c \in DOMAIN w.outs /\ w.outs[c].spent]]]

\* Mutant: a payment undone by the chain may be sent again unasked.
ReconciledFreely(w, made, gone) ==
    [w EXCEPT !.outs = [c \in DOMAIN w.outs \cap made |-> [w.outs[c] EXCEPT !.spent = c \in gone]],
              !.sends = [p \in DOMAIN w.sends |->
                  IF w.sends[p].confirmed /\ ~(w.sends[p].ins \subseteq gone)
                  THEN [w.sends[p] EXCEPT !.confirmed = FALSE]
                  ELSE w.sends[p]]]

\* Mutant: outputs the chain no longer has are kept.
ReconciledKeeping(w, made, gone) ==
    [w EXCEPT !.outs = [c \in DOMAIN w.outs |-> [w.outs[c] EXCEPT !.spent = c \in gone]],
              !.sends = [p \in DOMAIN w.sends |->
                  IF w.sends[p].confirmed /\ ~(w.sends[p].ins \subseteq gone)
                  THEN [w.sends[p] EXCEPT !.confirmed = FALSE, !.withheld = TRUE]
                  ELSE w.sends[p]]]

\* reconcile_with: drop what the chain lacks, recompute what is spent, and
\* withhold the payments it has undone.
Reconciled(w, made, gone) ==
    [w EXCEPT !.outs = [c \in DOMAIN w.outs \cap made |-> [w.outs[c] EXCEPT !.spent = c \in gone]],
              !.sends = [p \in DOMAIN w.sends |->
                  IF w.sends[p].confirmed /\ ~(w.sends[p].ins \subseteq gone)
                  THEN [w.sends[p] EXCEPT !.confirmed = FALSE, !.withheld = TRUE]
                  ELSE w.sends[p]]]

\* scan_blocks_inner
Scanned(w, pg, forced) ==
    LET gone    == Consumed(BlocksOf(pg))
        added   == Added(w, pg)
        settled == IF forced \/ Covers(added, pg)
                   THEN Reconciled(added, Created(BlocksOf(pg)), gone) ELSE added
        done    == {p \in Pending(w) : w.sends[p].ins \subseteq gone}
        highest == Max({pg.to, IF forced THEN pg.from ELSE ScanFrom(w)})
    IN  [settled EXCEPT
            !.sends = [p \in DOMAIN @ |-> IF p \in done THEN [@[p] EXCEPT !.confirmed = TRUE] ELSE @[p]],
            !.scanned = highest,
            !.anchor = IF highest \in pg.from..pg.to THEN Upto(pg.ch, highest) ELSE @]

\* check_chain_continuity
Continues(w, pg) ==
    IF w.anchor = <<>> THEN ~HasScannedHistory(w) \/ Covers(w, pg)
    ELSE ~IsEmptyPage(pg) /\ pg.from = w.scanned => AnchorHolds(w, pg.ch)

-----------------------------------------------------------------------------
(* Does the node's chain still agree with the wallet? *)

NodeSettled == chain = goal

ChainMovedUnderScan(w) ==
    /\ ~NeedsCanonicalPass(w)
    /\ w.scanned <= Tip(chain) /\ ~AnchorHolds(w, chain)

\* Mutant: a chain below the scan position is waited for.
NeverPastTip(w) == FALSE

ScannedPastTip(w) ==
    /\ ~NeedsCanonicalPass(w) /\ HasScannedHistory(w)
    /\ w.scanned > Tip(chain)

-----------------------------------------------------------------------------
(* The node *)

Init ==
    /\ \/ goal = <<Genesis>> /\ live = NewWallet
       \/ OldWallet /\ \E c \in Coins :
             /\ goal = [h \in 1..Birth + 2 |-> IF h = Birth + 2 THEN Receiving(c) ELSE Genesis]
             /\ live = [NewWallet EXCEPT !.scanned = Birth + 1,
                                         !.outs = [d \in {c} |-> [height |-> Birth + 1, spent |-> FALSE]]]
    /\ chain \in {goal, <<Genesis>>}
    /\ saved = live /\ open = TRUE
    /\ scan = [at |-> "idle"]
    /\ sent = {} /\ auto = {} /\ revived = {} /\ mixed = FALSE
    /\ used = [forks |-> 0, faults |-> 0, rescans |-> 0]

WalletKept == UNCHANGED <<live, saved, open, scan, sent, revived, mixed>>

Mine ==
    /\ NodeSettled /\ Len(chain) < MaxLen
    /\ \E b \in BlocksOn(chain) : chain' = Append(chain, b)
    /\ goal' = chain'
    /\ auto' = {}
    /\ WalletKept /\ UNCHANGED used

\* The network moves to another branch.  The node follows at once, or its owner
\* throws the chain away and it is downloaded again.
Reorg ==
    /\ NodeSettled /\ used.forks < MaxForks
    /\ \E h \in 0..(Tip(chain) - 1) :
          \E b \in BlocksOn(Upto(chain, h)) :
              goal' = Append(Upto(chain, h), b)
    /\ goal' # chain
    /\ chain' \in {goal', <<Genesis>>}
    /\ used' = [used EXCEPT !.forks = @ + 1]
    /\ auto' = {}
    /\ WalletKept

Download ==
    /\ ~NodeSettled
    /\ chain' = SubSeq(goal, 1, Len(chain) + 1)
    /\ auto' = {}
    /\ WalletKept /\ UNCHANGED <<goal, used>>

-----------------------------------------------------------------------------
(* Saving *)

\* The edit is saved, then in force.  Nothing edited, nothing is saved.
Saves(w) ==
    /\ live' = w
    /\ saved' = IF w = live THEN saved ELSE w
    /\ UNCHANGED <<open, used>>

\* What is left in memory of an edit whose save failed.
SaveRefused(w, inPlace) == live' = IF ~Vaulted /\ inPlace THEN w ELSE live

\* The save fails: before the file is replaced, or (the vault cannot tell) after.
SaveFails(w, inPlace) ==
    /\ used.faults + used.rescans < MaxEvents
    /\ used' = [used EXCEPT !.faults = @ + 1]
    /\ \/ SaveRefused(w, inPlace) /\ UNCHANGED <<saved, open>>
       \/ Vaulted /\ saved' = w /\ open' = FALSE /\ UNCHANGED live

-----------------------------------------------------------------------------
(* The owner *)

\* The scan holds the wallet's lock from its commit to the end of the release.
Unlocked == open /\ scan.at # "release"

Signed(w, p, ins) ==
    [w EXCEPT !.outs = [c \in DOMAIN w.outs |-> [w.outs[c] EXCEPT !.spent = @ \/ c \in ins]],
              !.sends = [q \in DOMAIN w.sends \cup {p} |->
                  IF q = p THEN [ins |-> ins, confirmed |-> FALSE, withheld |-> FALSE, failed |-> FALSE]
                  ELSE w.sends[q]]]

\* submit_tx: the node accepts what its chain can take.
Accepts(p, ins) == ins \subseteq Utxo(chain)

\* send, the node's lock held from the check of the scan to the submission.
Send(p) ==
    /\ Unlocked /\ p \notin DOMAIN live.sends \cup sent \cup revived
    /\ IsCanonical(live, chain)
    /\ \E ins \in SUBSET Selectable(live) :
          /\ ins # {} /\ Cardinality(ins) <= MaxInputs
          /\ \/ /\ Saves(Signed(live, p, ins))
                /\ sent' = IF Accepts(p, ins) THEN sent \cup {p} ELSE sent
             \/ SaveFails(Signed(live, p, ins), TRUE) /\ UNCHANGED sent
    /\ auto' = {}
    /\ UNCHANGED <<chain, goal, scan, revived, mixed>>

\* retry_withheld: the owner asks, once.
RetryWithheld(p) ==
    /\ Unlocked /\ p \in Pending(live) /\ live.sends[p].withheld
    /\ IsCanonical(live, chain)
    /\ Accepts(p, live.sends[p].ins)
    /\ sent' = sent \cup {p}
    /\ auto' = {}
    /\ UNCHANGED <<chain, goal, live, saved, open, scan, revived, mixed, used>>

\* rescan: forget what was discovered, unless a payment is pending.
Rescan ==
    /\ Unlocked /\ Pending(live) = {}
    /\ Birth <= Tip(chain)
    /\ used.faults + used.rescans < MaxEvents
    /\ live' = NewWallet /\ saved' = NewWallet
    /\ used' = [used EXCEPT !.rescans = @ + 1]
    /\ auto' = {}
    /\ UNCHANGED <<chain, goal, open, scan, sent, revived, mixed>>

\* The process stops, or the owner does.
Crash ==
    /\ used.faults + used.rescans < MaxEvents
    /\ used' = [used EXCEPT !.faults = @ + 1]
    /\ open' = FALSE
    /\ scan' = [at |-> "idle"]
    /\ auto' = {}
    /\ UNCHANGED <<chain, goal, live, saved, sent, revived, mixed>>

Reopen ==
    /\ ~open
    /\ open' = TRUE /\ live' = saved
    /\ scan' = [at |-> "idle"]
    /\ auto' = {}
    /\ UNCHANGED <<chain, goal, saved, sent, revived, mixed, used>>

-----------------------------------------------------------------------------
(* The background scan, run_wallet_scan *)

ScanGoes(s) == scan' = s /\ auto' = {} /\ UNCHANGED <<chain, goal, sent>>
StandsStill == UNCHANGED <<live, saved, open, revived, mixed, used>>
ScanEnds == [at |-> "idle"]

\* Copy the wallet and ask the node how it is.
BeginScan ==
    /\ open /\ scan.at = "idle"
    /\ ScanGoes([at |-> "copied", base |-> live, copy |-> live, behind |-> ~NodeSettled])
    /\ StandsStill

\* Is the chain another one than the wallet saw?
Compare ==
    /\ scan.at = "copied"
    /\ LET changed == \/ ChainMovedUnderScan(scan.copy)
                      \/ NodeSettled /\ ScannedPastTip(scan.copy)
       IN  ScanGoes(IF changed /\ scan.behind THEN ScanEnds
                    ELSE [at |-> IF changed THEN "repairing" ELSE "reading",
                          base |-> scan.base, copy |-> scan.copy])
    /\ StandsStill

\* short: history, did the page end below what was scanned, without a rebase?
ToCommit(w, changed, more) ==
    [at |-> "commit", base |-> scan.base, copy |-> w, changed |-> changed, more |-> more,
     short |-> FALSE]

\* scan_without_relay, one page of it.
ReadPage ==
    /\ scan.at = "reading"
    /\ LET w    == scan.copy
           all  == NeedsCanonicalPass(w)
           from == IF all THEN Birth ELSE ScanFrom(w)
           pg   == Page(chain, from, IF all THEN Tip(chain) ELSE Min({Tip(chain), from + PageSize - 1}))
           full == ~all /\ pg.to = from + PageSize - 1
       IN  \/ /\ from > Tip(chain) /\ HasScannedHistory(w)
              /\ ScanGoes(ScanEnds)
           \/ /\ from > Tip(chain) /\ ~HasScannedHistory(w)
              /\ ScanGoes(ToCommit(w, FALSE, FALSE))
           \/ /\ from <= Tip(chain)
              /\ ScanGoes(IF Continues(w, pg) THEN ToCommit(Scanned(w, pg, FALSE), FALSE, full)
                          ELSE ScanEnds)
    /\ StandsStill

\* reconcile_with_chain: which repair is due is looked at again.
ChooseRepair ==
    /\ scan.at = "repairing"
    /\ LET rebase == ~ChainMovedUnderScan(scan.copy) /\ ScannedPastTip(scan.copy)
       IN  ScanGoes(IF ~rebase /\ ~ChainMovedUnderScan(scan.copy) THEN ScanEnds
                    ELSE [at |-> IF rebase THEN "rebase" ELSE "reconcile",
                          base |-> scan.base, copy |-> scan.copy])
    /\ StandsStill

\* The whole chain from the birth height, which scan_blocks checks as any page.
Reconcile ==
    /\ scan.at = "reconcile"
    /\ LET w  == scan.copy
           pg == Page(chain, Birth, Tip(chain))
       IN  ScanGoes(IF Continues(w, pg)
                    THEN [ToCommit(Scanned(w, pg, FALSE), TRUE, FALSE) EXCEPT !.short = pg.to < w.scanned]
                    ELSE ScanEnds)
    /\ StandsStill

\* rebase_on_shorter_chain
Rebase ==
    /\ scan.at = "rebase"
    /\ LET w  == scan.copy
           pg == Page(chain, Birth, Tip(chain))
       IN  ScanGoes(IF ~IsEmptyPage(pg) /\ pg.to < w.scanned
                    THEN ToCommit(Scanned(w, pg, TRUE), TRUE, FALSE) ELSE ScanEnds)
    /\ StandsStill

Undone(old, new) ==
    {p \in DOMAIN old.sends \cap DOMAIN new.sends : old.sends[p].confirmed /\ ~new.sends[p].confirmed}

\* Something was learned from a chain that had become shorter than the wallet after
\* it was compared; or an output was kept at the height it had on a longer chain, so
\* that every later canonical pass looks incomplete.
Mixes(old, new, short) ==
    \/ short /\ new # old
    \/ \E c \in DOMAIN new.outs : new.outs[c].height > new.scanned

\* What becomes known of a wallet when the copy takes its place.
Replaces ==
    /\ revived' = revived \cup Undone(live, scan.copy)
    /\ mixed' = (mixed \/ Mixes(live, scan.copy, scan.short))

\* Mutant: the copy replaces whatever the wallet has become.
NothingEditedUnchecked == TRUE

NothingEdited == live = scan.base

\* commit_scan.  A copy that is out of date is dropped and the scan starts again.
CommitScan ==
    /\ scan.at = "commit"
    /\ \/ /\ ~open
          /\ ScanGoes(ScanEnds) /\ StandsStill
       \/ /\ open /\ ~NothingEdited
          /\ ScanGoes([at |-> "copied", base |-> live, copy |-> live, behind |-> ~NodeSettled])
          /\ StandsStill
       \/ /\ open /\ NothingEdited
          /\ Saves(scan.copy)
          /\ Replaces
          /\ ScanGoes(IF scan.more
                      THEN [at |-> "copied", base |-> scan.copy, copy |-> scan.copy, behind |-> ~NodeSettled]
                      ELSE [at |-> "release", changed |-> scan.changed])
       \/ /\ open /\ NothingEdited /\ scan.copy # live
          /\ SaveFails(scan.copy, FALSE)
          /\ ScanGoes(ScanEnds)
          /\ IF saved' = saved THEN UNCHANGED <<revived, mixed>> ELSE Replaces

\* impossible_sends, those of them that are old enough being any.
ImpossibleSends(w) == {p \in Pending(w) : ~(w.sends[p].ins \subseteq Utxo(chain))}

\* Mutant: whatever chain the node has at the moment decides.
MayReleaseAlways(w) == IsCanonical(w, chain)

MayRelease(w) == NodeSettled /\ IsCanonical(w, chain)

\* release_sends: given up, and the inputs nobody else claims are free again.
Released(w, P) ==
    LET given == [w EXCEPT !.sends = [p \in DOMAIN w.sends |->
                     IF p \in P THEN [w.sends[p] EXCEPT !.failed = TRUE, !.withheld = TRUE] ELSE w.sends[p]]]
        freed == ((UNION {w.sends[p].ins : p \in P}) \cap Utxo(chain)) \ PendingInputs(given)
    IN  [given EXCEPT !.outs = [c \in DOMAIN w.outs |-> [w.outs[c] EXCEPT !.spent = @ /\ c \notin freed]]]

\* release_impossible_sends, and the copy the relay will read.
Release ==
    /\ scan.at = "release"
    /\ \E P \in SUBSET (IF MayRelease(live) THEN ImpossibleSends(live) ELSE {}) :
          \/ /\ Saves(Released(live, P))
             /\ ScanGoes(IF scan.changed THEN ScanEnds ELSE [at |-> "relay", copy |-> Released(live, P)])
          \/ /\ P # {}
             /\ SaveFails(Released(live, P), FALSE)
             /\ ScanGoes(IF scan.changed \/ ~open' THEN ScanEnds ELSE [at |-> "relay", copy |-> live])
    /\ UNCHANGED <<revived, mixed>>

Resendable(w) == {p \in Pending(w) : ~w.sends[p].withheld}

\* resend_pending, from a copy of the wallet: a refusal is ignored.
Relay ==
    /\ scan.at = "relay"
    /\ LET out == IF IsCanonical(scan.copy, chain)
                  THEN {p \in Resendable(scan.copy) : Accepts(p, scan.copy.sends[p].ins)} ELSE {}
       IN  sent' = sent \cup out /\ auto' = out
    /\ scan' = ScanEnds
    /\ StandsStill /\ UNCHANGED <<chain, goal>>

ScanStep == BeginScan \/ Compare \/ ReadPage \/ ChooseRepair \/ Reconcile \/ Rebase
            \/ CommitScan \/ Release \/ Relay

Next ==
    \/ Mine \/ Reorg \/ Download
    \/ \E p \in Pays : Send(p) \/ RetryWithheld(p)
    \/ Rescan
    \/ Crash \/ Reopen
    \/ ScanStep

\* The node goes on downloading, the wallet is opened again, and its scan thread
\* runs and is started every few seconds.
Fairness == WF_vars(Download) /\ WF_vars(Reopen) /\ WF_vars(ScanStep)

Spec == Init /\ [][Next]_vars /\ Fairness

-----------------------------------------------------------------------------
(* Properties *)

\* When the wallet may sign -- its scan ends at the node's tip and its anchor is
\* the node's block there -- it knows exactly the outputs it has on that chain,
\* and those it may select are exactly the unspent ones no payment claims.
ScanIsAlwaysTheChain ==
    open /\ IsCanonical(live, chain) /\ live.anchor # <<>> =>
        /\ DOMAIN live.outs = Created(chain)
        /\ Selectable(live) = Utxo(chain) \ PendingInputs(live)

\* The same, unless a repair has mixed two chains: its page was read when the chain
\* had become shorter than the wallet, or it kept an output at its old, higher height
\* (covers_canonical_history then takes no page for a canonical pass).
ScanIsTheChain == mixed \/ ScanIsAlwaysTheChain

\* Two payments the wallet stands by never spend one coin, across scans that
\* overlap with sending, reorgs, failed saves and restarts.
NoDoubleSigning ==
    \A p, q \in DOMAIN live.sends :
        p # q /\ ~live.sends[p].failed /\ ~live.sends[q].failed =>
            live.sends[p].ins \cap live.sends[q].ins = {}

\* What the network has been given is in the wallet's file, so no restart makes
\* the wallet forget a payment and spend its coins again.
BroadcastIsSaved == used.rescans = 0 => sent \subseteq DOMAIN saved.sends

\* A payment that was confirmed and undone is sent again only when its owner
\* asks for it.
NoAutomaticRevival == auto \cap revived = {}

\* A payment is given up only when the chain the network is on cannot take it:
\* not because the node is still downloading that chain.
GivesUpOnlyImpossible ==
    [][\A p \in DOMAIN saved.sends \cap DOMAIN saved'.sends :
          ~saved.sends[p].failed /\ saved'.sends[p].failed =>
              ~(saved.sends[p].ins \subseteq Utxo(goal))]_vars

\* However the chain moved and whatever failed, the wallet is in the end scanned
\* to the node's tip, on the node's chain.  A wallet older than scan anchors may
\* have to wait until the chain is as long as it was.
CatchesUp ==
    <>[](open /\ (IsCanonical(live, chain) \/ (NeedsCanonicalPass(live) /\ live.scanned > Tip(chain))))
=============================================================================

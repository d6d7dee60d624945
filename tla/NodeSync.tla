------------------------------ MODULE NodeSync ------------------------------
(***************************************************************************)
(* How a node follows its peers, nightfall-node/src/runtime.rs: pages      *)
(* asked of several sessions at once and buffered out of order, blocks     *)
(* pushed one by one and collected into branches, the thread that fetches  *)
(* a competing branch, the one verification that may run at a time with    *)
(* the node's lock released, and the miner that hashes without it.         *)
(*                                                                         *)
(* The blocks are a fixed tree of valid ones; a chain is named by its tip. *)
(* What makes a block valid, and what a reorg does to the ledger, is in     *)
(* Chain; how the last common block is found is in CommonAncestor.  Each    *)
(* peer serves the chain of its tip, which only gets heavier.  The clock is left *)
(* out: a session counts as fresh while it lasts.                          *)
(***************************************************************************)
EXTENDS Integers, Sequences, FiniteSets, Functions, SequencesExt

CONSTANTS
    Blocks, Genesis, Parent, Work,   \* the tree of blocks
    Own,         \* blocks only this node's miner can make
    Outbound,    \* peers this node dialled
    Inbound,     \* peers that dialled this node
    Tips,        \* peer -> the tips its chain has in turn, each heavier
    MaxReorg,    \* MAX_REORG_DEPTH
    Page,        \* MAX_BLOCKS_PER_REQUEST
    PagesAhead,  \* IBD_MAX_AHEAD, in pages
    BufferCap,   \* pages kept in ibd_buffer
    BranchCap,   \* MAX_BRANCH_BLOCKS
    MaxRequests, \* bound: requests under way in a session
    MaxFaults    \* bound: connections that break

Peers == Outbound \cup Inbound

ASSUME NodeSyncAssumption ==
    /\ Genesis \in Blocks /\ Own \subseteq Blocks \ {Genesis}
    /\ Parent \in [Blocks \ {Genesis} -> Blocks] /\ Work \in [Blocks -> Nat \ {0}]
    /\ IsFiniteSet(Blocks)
    /\ \E level \in [Blocks -> 0..Cardinality(Blocks)] :   \* it is a tree
          \A b \in Blocks \ {Genesis} : level[b] > level[Parent[b]]
    /\ \A b \in Blocks \ ({Genesis} \cup Own) : Parent[b] \notin Own   \* only we build on ours
    /\ Outbound \cap Inbound = {} /\ Tips \in [Peers -> Seq(Blocks \ Own) \ {<<>>}]
    /\ {MaxReorg, Page, PagesAhead, BufferCap, BranchCap, MaxRequests} \subseteq Nat \ {0}
    /\ MaxFaults \in Nat

VARIABLES
    tip,       \* the node's chain
    cursor,    \* ibd_from: the height the next page is claimed from
    buffer,    \* ibd_buffer: first height -> page
    branch,    \* parent -> block that did not extend the chain
    stalled,   \* stalled_on_fork
    flight,    \* reorg_in_flight
    peer,      \* peer -> the tip of its chain
    said,      \* peer -> the height it last told this node
    asked,     \* peer -> heights of the pages asked of it, in order
    job,       \* thread -> what it is doing
    miner,     \* the tip the miner's template is built on
    faults

vars == <<tip, cursor, buffer, branch, stalled, flight, peer, said, asked, job, miner, faults>>

\* A peer we dialled may have a thread fetching its branch; a peer's session is a
\* thread itself, which verifies the branches that peer pushes.
Fetcher(p) == <<"fetch", p>>
Session(p) == <<"session", p>>
Threads == {Fetcher(p) : p \in Outbound} \cup {Session(p) : p \in Peers}

Idle == [at |-> "idle"]

-----------------------------------------------------------------------------
(* Chains *)

PathTo[b \in Blocks] == IF b = Genesis THEN <<b>> ELSE Append(PathTo[Parent[b]], b)
WorkTo[b \in Blocks] == Work[b] + (IF b = Genesis THEN 0 ELSE WorkTo[Parent[b]])

Path == [b \in Blocks |-> PathTo[b]]
TotalWork == [b \in Blocks |-> WorkTo[b]]
Height == [b \in Blocks |-> Len(Path[b]) - 1]
Ancestors == [b \in Blocks |-> ToSet(Path[b])]
Fork == [s \in Blocks |-> [t \in Blocks |->
    CHOOSE b \in Ancestors[s] \cap Ancestors[t] :
        \A c \in Ancestors[s] \cap Ancestors[t] : Height[c] <= Height[b]]]

\* Blocks of t from height h on, at most n of them.
BlocksFrom(t, h, n) == SubSeq(Path[t], h + 1, Min({h + n, Height[t] + 1}))

Needed(t) == Height[t] + 1

\* try_ingest_blocks: blocks of one chain are taken when the first one connects.
Ingested(t, blocks) ==
    IF blocks # <<>> /\ blocks[1] # Genesis /\ Parent[blocks[1]] = t THEN Last(blocks) ELSE t

-----------------------------------------------------------------------------
(* Claiming and taking pages *)

\* Mutant: at the end of the window the cursor waits instead of going back to
\* the first missing page.
ClaimAhead(t, c) ==
    LET from == Max({c, Needed(t)})
    IN  [from |-> from, cursor |-> Min({from + Page, Needed(t) + PagesAhead * Page})]

\* next_ibd_claim
Claim(t, c) ==
    LET from == Max({c, Needed(t)})
    IN  IF from >= Needed(t) + PagesAhead * Page
        THEN [from |-> Needed(t), cursor |-> from]
        ELSE [from |-> from, cursor |-> from + Page]

Ask(p, claim) ==
    /\ asked' = [asked EXCEPT ![p] = Append(@, claim.from)]
    /\ cursor' = claim.cursor

\* The map f with the entry k -> v put into it.
With(f, k, v) == [x \in DOMAIN f \cup {k} |-> IF x = k THEN v ELSE f[x]]

\* A buffer too full loses its highest page.
Buffered(start, page) ==
    LET all == With(buffer, start, page)
    IN  IF Cardinality(DOMAIN all) > BufferCap
        THEN Restrict(all, DOMAIN all \ {Max(DOMAIN all)}) ELSE all

\* Pages that have become the next one are taken from the buffer in turn, until
\* one does not connect.
Drained(t, buf) ==
    LET Ready(b) == Needed(b) \in DOMAIN buf
        Grown(b) == Ingested(b, buf[Needed(b)])
        End[b \in Blocks]  == IF Ready(b) /\ Grown(b) # b THEN End[Grown(b)] ELSE b
        Used[b \in Blocks] == IF ~Ready(b) THEN {}
                              ELSE {Needed(b)} \cup (IF Grown(b) = b THEN {} ELSE Used[Grown(b)])
    IN  [tip |-> End[t], buffer |-> Restrict(buf, DOMAIN buf \ Used[t])]

\* apply_ibd_page
Taken(page) ==
    LET start   == Height[page[1]]
        same    == [tip |-> tip, buffer |-> buffer, cursor |-> cursor, outcome |-> "duplicate"]
        drained == Drained(Ingested(tip, page), buffer)
    IN  IF page = <<>> THEN same
        ELSE IF start > Needed(tip)
        THEN [same EXCEPT !.buffer = Buffered(start, page), !.outcome = "buffered"]
        ELSE IF start + Len(page) - 1 < Needed(tip) THEN same
        ELSE [tip |-> drained.tip, buffer |-> drained.buffer, cursor |-> Max({cursor, Needed(drained.tip)}),
              outcome |-> IF drained.tip # tip THEN "applied"
                          ELSE IF start = Needed(tip) THEN "rejected" ELSE "duplicate"]

-----------------------------------------------------------------------------
(* The node *)

Init ==
    /\ tip = Genesis /\ cursor = 0 /\ buffer = <<>> /\ branch = <<>>
    /\ stalled = FALSE /\ flight = FALSE
    /\ peer = [p \in Peers |-> Tips[p][1]] /\ said = [p \in Peers |-> Height[Tips[p][1]]]
    /\ asked = [p \in Peers |-> <<>>]
    /\ job = [t \in Threads |-> Idle]
    /\ miner = Genesis
    /\ faults = 0

Becomes(t, j) == job' = [job EXCEPT ![t] = j]

\* kick_reorg_fetch: only peers that were dialled are fetched from.
Kicks(p) ==
    job' = IF p \in Outbound /\ job[Fetcher(p)] = Idle
           THEN [job EXCEPT ![Fetcher(p)] = [at |-> "starting"]] ELSE job

PeersKept == UNCHANGED <<peer, faults>>

\* A peer's chain becomes a heavier one.
PeerMoves(p) ==
    /\ \E i \in 1..(Len(Tips[p]) - 1) :
          peer[p] = Tips[p][i] /\ peer' = [peer EXCEPT ![p] = Tips[p][i + 1]]
    /\ UNCHANGED <<tip, cursor, buffer, branch, stalled, flight, said, asked, job, miner, faults>>

-----------------------------------------------------------------------------
(* The sessions, peer_io_loop *)

\* Status, asked for every few seconds.
Hear(p) ==
    /\ job[Session(p)] = Idle /\ Len(asked[p]) < MaxRequests
    /\ said' = [said EXCEPT ![p] = Height[peer[p]]]
    /\ IF Height[peer[p]] >= Needed(tip)
       THEN Ask(p, Claim(tip, cursor)) /\ UNCHANGED job
       ELSE /\ IF peer[p] # tip THEN Kicks(p) ELSE UNCHANGED job
            /\ UNCHANGED <<asked, cursor>>
    /\ PeersKept /\ UNCHANGED <<tip, buffer, branch, stalled, flight, miner>>

\* Blocks: a page that may be cut short, and what is asked for next.
Answer(p) ==
    /\ job[Session(p)] = Idle /\ asked[p] # <<>>
    /\ \E n \in 0..Page :
          LET full   == BlocksFrom(peer[p], Head(asked[p]), Page)
              page   == SubSeq(full, 1, n)
              taken  == Taken(page)
              behind == said[p] >= Needed(taken.tip)
              claim  == IF taken.outcome = "applied" /\ n < Page
                        THEN Claim(taken.tip, Needed(taken.tip))
                        ELSE Claim(taken.tip, taken.cursor)
              more   == behind /\ taken.outcome \in {"applied", "buffered"}
              fork   == behind /\ taken.outcome = "rejected"
          IN  /\ n <= Len(full) /\ (n = 0 => full = <<>>)
              /\ tip' = taken.tip /\ buffer' = taken.buffer
              /\ cursor' = IF more THEN claim.cursor ELSE taken.cursor
              /\ asked' = [asked EXCEPT ![p] = IF more THEN Append(Tail(@), claim.from) ELSE Tail(@)]
              /\ stalled' = ((stalled /\ taken.outcome # "applied") \/ fork)
              /\ IF fork THEN Kicks(p) ELSE UNCHANGED job
    /\ PeersKept /\ UNCHANGED <<branch, flight, said, miner>>

\* The session is lost and dialled again.
Reconnect(p) ==
    /\ job[Session(p)] = Idle /\ faults < MaxFaults
    /\ faults' = faults + 1
    /\ said' = [said EXCEPT ![p] = Height[peer[p]]]
    /\ IF p \in Outbound /\ (Height[peer[p]] >= Needed(tip) \/ peer[p] # tip)
       THEN /\ asked' = [asked EXCEPT ![p] = <<Claim(tip, cursor).from>>]
            /\ cursor' = Claim(tip, cursor).cursor
       ELSE asked' = [asked EXCEPT ![p] = <<>>] /\ UNCHANGED cursor
    /\ UNCHANGED <<tip, buffer, branch, stalled, flight, peer, job, miner>>

\* The branch that starts at a block of our chain, as far as it is known.
Walk(root, kept) ==
    LET From[b \in Blocks] == IF b \in DOMAIN kept THEN <<kept[b]>> \o From[kept[b]] ELSE <<>>
    IN  From[root]

\* A full branch buffer is emptied before the block is put into it.
Keeps(b) == With(IF Cardinality(DOMAIN branch) >= BranchCap THEN <<>> ELSE branch, Parent[b], b)

\* consider_branch, up to the verification.
ConsiderBranch(p, b) ==
    LET kept  == Keeps(b)
        roots == {a \in DOMAIN kept : a \in Ancestors[tip]}
        root  == CHOOSE a \in roots : \A c \in roots : Height[c] <= Height[a]
        deep  == Height[tip] - Height[root] > MaxReorg
        begin == roots # {} /\ ~deep /\ TotalWork[Last(Walk(root, kept))] > TotalWork[tip] /\ ~flight
    IN  /\ branch' = kept
        /\ stalled' = (stalled \/ (roots # {} /\ deep))
        /\ flight' = (flight \/ begin)
        /\ IF begin THEN Becomes(Session(p), [at |-> "verifying", base |-> tip, root |-> root,
                                              suffix |-> Walk(root, kept)])
           ELSE UNCHANGED job
        /\ UNCHANGED tip

\* Block: announced, or pushed by a peer that finds this node behind.
Receive(p, b) ==
    /\ job[Session(p)] = Idle
    /\ b \in Ancestors[peer[p]] /\ b # Genesis
    /\ \/ /\ Ingested(tip, <<b>>) = b
          /\ tip' = b /\ branch' = <<>> /\ stalled' = FALSE
          /\ UNCHANGED <<flight, job>>
       \/ /\ Ingested(tip, <<b>>) # b
          /\ ConsiderBranch(p, b)
    /\ PeersKept /\ UNCHANGED <<cursor, buffer, said, asked, miner>>

-----------------------------------------------------------------------------
(* Fetching a branch, sync_from_peer *)

FetchKeeps == PeersKept /\ UNCHANGED <<cursor, buffer, branch, said, asked, miner>>

\* A handshake on a socket of its own; a peer that is behind is pushed to.
StartFetch(p) ==
    /\ job[Fetcher(p)].at = "starting"
    /\ Becomes(Fetcher(p), IF peer[p] = tip \/ Height[peer[p]] < Height[tip] THEN Idle
                           ELSE [at |-> "pulling", theirs |-> peer[p], from |-> Needed(tip)])
    /\ FetchKeeps /\ UNCHANGED <<tip, stalled, flight>>

Pull(p) ==
    /\ job[Fetcher(p)].at = "pulling"
    /\ LET j     == job[Fetcher(p)]
           page  == BlocksFrom(peer[p], j.from, Page)
           grown == Ingested(tip, page)
       IN  /\ tip' = grown
           /\ stalled' = (stalled /\ grown = tip)
           /\ Becomes(Fetcher(p), IF page = <<>> THEN Idle
                                  ELSE IF grown # tip THEN [j EXCEPT !.from = @ + Len(page)]
                                  ELSE IF j.theirs = tip THEN Idle
                                  ELSE [at |-> "forked", theirs |-> j.theirs])
    /\ FetchKeeps /\ UNCHANGED flight

\* common_ancestor
Probe(p) ==
    /\ job[Fetcher(p)].at = "forked"
    /\ Becomes(Fetcher(p), [at |-> "probed", theirs |-> job[Fetcher(p)].theirs,
                            fork |-> Height[Fork[tip][peer[p]]]])
    /\ FetchKeeps /\ UNCHANGED <<tip, stalled, flight>>

\* Under the lock again: may our chain, as it is now, be rewound to there?
Prepare(p) ==
    /\ job[Fetcher(p)].at = "probed"
    /\ LET j   == job[Fetcher(p)]
           far == j.fork > Height[tip] \/ Height[tip] - j.fork > MaxReorg
       IN  /\ stalled' = (stalled \/ far)
           /\ flight' = (flight \/ ~far)
           /\ Becomes(Fetcher(p), IF far \/ flight THEN Idle
                                  ELSE [at |-> "fetching", base |-> tip, root |-> Path[tip][j.fork + 1],
                                        theirs |-> j.theirs])
    /\ FetchKeeps /\ UNCHANGED tip

FetchBranch(p) ==
    /\ job[Fetcher(p)].at = "fetching"
    /\ LET j      == job[Fetcher(p)]
           suffix == BlocksFrom(peer[p], Height[j.root] + 1, Height[j.theirs] - Height[j.root])
       IN  /\ Becomes(Fetcher(p), IF suffix = <<>> THEN Idle
                                  ELSE [at |-> "verifying", base |-> j.base, root |-> j.root, suffix |-> suffix])
           /\ flight' = (suffix # <<>>)
    /\ FetchKeeps /\ UNCHANGED <<tip, stalled>>

\* The connection breaks: the thread ends, and the guard is dropped with it.
FetchFails(p) ==
    /\ job[Fetcher(p)].at \in {"starting", "pulling", "fetching"} /\ faults < MaxFaults
    /\ faults' = faults + 1
    /\ Becomes(Fetcher(p), Idle)
    /\ flight' = (flight /\ job[Fetcher(p)].at # "fetching")
    /\ UNCHANGED <<tip, cursor, buffer, branch, stalled, peer, said, asked, miner>>

-----------------------------------------------------------------------------
(* Verification, with the lock released, and what is done with its verdict *)

\* finish_suffix: does the branch connect, is it valid and heavier than its base?
Sound(j) ==
    /\ Parent[j.suffix[1]] = j.root
    /\ TotalWork[Last(j.suffix)] > TotalWork[j.base]

\* Mutant: the guard stays taken when the branch is refused.
ReleasedOnSuccess(sound) == ~sound

\* The guard is dropped on every way out.
Released(sound) == FALSE

Verify(t) ==
    /\ job[t].at = "verifying"
    /\ Becomes(t, IF Sound(job[t]) THEN [job[t] EXCEPT !.at = "verified"] ELSE Idle)
    /\ flight' = IF Sound(job[t]) THEN flight ELSE Released(FALSE)
    /\ PeersKept /\ UNCHANGED <<tip, cursor, buffer, branch, stalled, said, asked, miner>>

\* Mutant: a branch is spliced onto whatever the chain has become.
FitsAny(base, new) == TRUE

\* splice_suffix
Fits(base, new) == tip = base /\ TotalWork[new] > TotalWork[tip]

Splice(t) ==
    /\ job[t].at = "verified"
    /\ LET new == Last(job[t].suffix)
       IN  IF Fits(job[t].base, new)
           THEN /\ tip' = new /\ stalled' = FALSE
                /\ branch' = IF t[1] = "session" THEN <<>> ELSE branch
           ELSE UNCHANGED <<tip, stalled, branch>>
    /\ Becomes(t, Idle)
    /\ flight' = Released(TRUE)
    /\ PeersKept /\ UNCHANGED <<cursor, buffer, said, asked, miner>>

-----------------------------------------------------------------------------
(* The miner, mining_loop *)

\* catchup_behind
Behind == stalled \/ flight \/ \E p \in Peers : said[p] > Height[tip]

\* A template on our tip; the one before is given up when the tip moves.  Only
\* templates for which a block is ever found are told apart.
Template ==
    /\ ~Behind /\ miner # tip /\ \E b \in Own : Parent[b] = tip
    /\ miner' = tip
    /\ UNCHANGED <<tip, cursor, buffer, branch, stalled, flight, peer, said, asked, job, faults>>

\* Mutant: only the template's parent is looked at again.
MaySubmitOnTip == miner = tip

MaySubmit == ~Behind /\ miner = tip

\* A solution, found without the lock; what was checked is checked again.
Mined ==
    /\ MaySubmit
    /\ \E b \in Own : Parent[b] = miner /\ tip' = b
    /\ UNCHANGED <<cursor, buffer, branch, stalled, flight, peer, said, asked, job, miner, faults>>

\* Threads run on: the status ticker asks every session and peers answer, and what
\* a fetching thread asks for arrives.
SessionStep(p) == Hear(p) \/ Answer(p) \/ Verify(Session(p)) \/ Splice(Session(p))
FetcherStep(p) ==
    \/ StartFetch(p) \/ Pull(p) \/ Probe(p) \/ Prepare(p) \/ FetchBranch(p)
    \/ Verify(Fetcher(p)) \/ Splice(Fetcher(p))

Next ==
    \/ \E p \in Peers :
          \/ PeerMoves(p) \/ SessionStep(p) \/ Reconnect(p)
          \/ \E b \in Blocks : Receive(p, b)
    \/ \E p \in Outbound : FetcherStep(p) \/ FetchFails(p)
    \/ Template \/ Mined

Fairness ==
    /\ \A p \in Peers : WF_vars(SessionStep(p))
    /\ \A p \in Outbound : WF_vars(FetcherStep(p))

Spec == Init /\ [][Next]_vars /\ Fairness

-----------------------------------------------------------------------------
(* Properties *)

\* At most one thread verifies a branch, and the guard is taken exactly while one
\* does: a guard left behind would refuse every later reorg and stop the miner.
FlightIsOneThread ==
    LET busy == {t \in Threads : job[t].at \in {"fetching", "verifying", "verified"}}
    IN  Cardinality(busy) = IF flight THEN 1 ELSE 0

\* Whatever pages, pushes, fetched branches and own blocks meet in whatever order,
\* the chain only ever changes to a heavier one, and gives up no more than
\* MAX_REORG_DEPTH of its blocks for it.
ReorgsHeavierAndShallow ==
    [][tip' # tip => /\ TotalWork[tip'] > TotalWork[tip]
                     /\ Height[tip] - Height[Fork[tip][tip']] <= MaxReorg]_vars

\* No block of our own is added while a branch is being verified, the node knows it
\* is on a fork, or a peer has told of more blocks, although none of that may have
\* been so when the template was made.
MinesOnlySettled ==
    [][\A b \in Own : tip' = b /\ tip # b =>
          ~stalled /\ ~flight /\ \A p \in Peers : said[p] <= Height[tip]]_vars

\* A dialled peer that stays higher and heavier, within the reorg depth, is followed.
Converges ==
    <>[](\A p \in Outbound :
            ~ /\ Height[peer[p]] > Height[tip] /\ TotalWork[peer[p]] > TotalWork[tip]
              /\ Height[tip] - Height[Fork[tip][peer[p]]] <= MaxReorg)
=============================================================================

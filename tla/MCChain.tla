------------------------------ MODULE MCChain ------------------------------
(***************************************************************************)
(* A tree of blocks over five heights, with a reorg depth of three:        *)
(*                                                                         *)
(*      g --- a1 --- a2 --- a3                work 2, 2, 2, 4              *)
(*       \      \--- c2 --- c3 --- c4         work       2, 1, 2           *)
(*        \     \--- i2  (spends an immature coinbase)                     *)
(*         b1 --- b2 --- b3 --- b4            work    2, 4, 2, 4           *)
(*           \--- r2   \--- s3  (r2: wrong roots; s3: double spend)        *)
(*                                                                         *)
(* a2 and b2 create the same output "x" and spend the same one; a2 burns   *)
(* its fee, a3, c4 and b4 come after the subsidy and are paid theirs.  The *)
(* branches differ in work because their timestamps do; a3 and b3 tie.     *)
(***************************************************************************)
EXTENDS Chain

Block(hash, prev, h, t, d, ins, outs, cb, fee, reward) ==
    [hash |-> hash, prev |-> prev, height |-> h, time |-> t, difficulty |-> d,
     reward |-> reward, ok |-> TRUE, rootsOk |-> hash # "r2",
     body |-> [inputs |-> ins, outputs |-> Append(outs, cb), coinbase |-> {cb},
               fee |-> fee, reward |-> reward, cbLock |-> h, lock |-> 0,
               kernels |-> 1 + Len(ins), sound |-> TRUE]]

MCBlocks == {
    Block("g",  "0",  0, 0, 2, <<>>,      <<>>,         "g0",  0, 2),
    Block("a1", "g",  1, 2, 2, <<>>,      <<>>,         "a1c", 0, 2),
    Block("b1", "g",  1, 1, 2, <<>>,      <<>>,         "b1c", 0, 2),
    Block("a2", "a1", 2, 3, 2, <<"g0">>,  <<"x">>,      "a2c", 1, 1),
    Block("c2", "a1", 2, 5, 2, <<>>,      <<>>,         "c2c", 0, 1),
    Block("i2", "a1", 2, 3, 2, <<"a1c">>, <<"v">>,      "c2c", 0, 1),
    Block("b2", "b1", 2, 5, 4, <<"g0">>,  <<"x", "y">>, "b2c", 0, 1),
    Block("r2", "b1", 2, 5, 4, <<"g0">>,  <<"x", "y">>, "b2c", 0, 1),
    Block("a3", "a2", 3, 4, 4, <<"a1c">>, <<"z">>,      "a3c", 1, 1),
    Block("c3", "c2", 3, 5, 1, <<>>,      <<>>,         "e0",  0, 0),
    Block("c4", "c3", 4, 6, 2, <<"g0">>,  <<"z">>,      "a3c", 1, 1),
    Block("b3", "b2", 3, 6, 2, <<>>,      <<>>,         "e0",  0, 0),
    Block("s3", "b2", 3, 6, 2, <<"g0">>,  <<"v">>,      "e0",  0, 0),
    Block("b4", "b3", 4, 6, 4, <<"b1c">>, <<>>,         "b4c", 2, 2)}

(***************************************************************************)
(* The tree for the runs with whole candidates: the fork is above a pinned *)
(* a1, and of the branches over it a and d overtake each other.            *)
(*                                                                         *)
(*      g --- a1 --- a2 --- a3 --- a4         work 2, 2, 2, 4, 8           *)
(*             \---- d2 --- d3 --- d4         work       2, 4, 2           *)
(*              \--- c2 --- c3                work       2, 1              *)
(*               \-- i2, r2                                               *)
(***************************************************************************)
MCWholeBlocks == {
    Block("g",  "0",  0, 0, 2, <<>>,      <<>>,         "g0",  0, 2),
    Block("a1", "g",  1, 2, 2, <<>>,      <<>>,         "a1c", 0, 2),
    Block("a2", "a1", 2, 3, 2, <<"g0">>,  <<"x">>,      "a2c", 1, 1),
    Block("c2", "a1", 2, 5, 2, <<>>,      <<>>,         "c2c", 0, 1),
    Block("i2", "a1", 2, 3, 2, <<"a1c">>, <<"v">>,      "c2c", 0, 1),
    Block("a3", "a2", 3, 4, 4, <<"a1c">>, <<"z">>,      "a3c", 1, 1),
    Block("c3", "c2", 3, 5, 1, <<>>,      <<>>,         "e0",  0, 0),
    Block("d2", "a1", 2, 3, 2, <<"g0">>,  <<"x", "y">>, "b2c", 0, 1),
    Block("r2", "a1", 2, 3, 2, <<"g0">>,  <<"x", "y">>, "b2c", 0, 1),
    Block("d3", "d2", 3, 6, 4, <<>>,      <<>>,         "e0",  0, 0),
    Block("a4", "a3", 4, 6, 8, <<>>,      <<>>,         "e0",  0, 0),
    Block("d4", "d3", 4, 6, 2, <<"a1c">>, <<>>,         "b4c", 2, 2)}

MCCommits == {"g0", "a1c", "b1c", "a2c", "b2c", "c2c", "a3c", "b4c", "e0",
              "v", "x", "y", "z"}
MCValue == [c \in MCCommits |->
    CASE c = "e0" -> 0
      [] c \in {"g0", "a1c", "b1c", "b4c", "v"} -> 2
      [] OTHER -> 1]

\* Every run of linked blocks of up to three.
Grow(S) == S \cup {Append(s, b) : s \in S, b \in Blocks}
Linked(S) == {s \in S : \A i \in 1..(Len(s) - 1) : s[i + 1].prev = s[i].hash}
MCOffers == Linked(Grow(Linked(Grow({<<b>> : b \in Blocks}))))

\* Up to five: a whole candidate starts at genesis.
MCWholeOffers == Linked(Grow(Linked(Grow(MCOffers))))

\* A checkpoint: a whole candidate from genesis is replayed up to it.
MCPins == {<<1, "a1">>}

ThreadSymmetry == Permutations(Threads)
=============================================================================

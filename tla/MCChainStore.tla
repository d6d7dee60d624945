---------------------------- MODULE MCChainStore ----------------------------
(***************************************************************************)
(* Two branches over one first block, a0 - a1 - a2 and a0 - b1, and a block *)
(* x1 on a0 that does not verify.                                          *)
(***************************************************************************)
EXTENDS ChainStore

MCBlocks == {"a0", "a1", "a2", "b1", "x1"}
MCParent == [b \in Blocks |->
    CASE b = "a0" -> "genesis"
      [] b \in {"a1", "b1", "x1"} -> "a0"
      [] b = "a2" -> "a1"]

\* No two chains of the same length in bytes.
MCSize == [b \in Blocks |-> IF b = "b1" THEN 4 ELSE IF b = "a2" THEN 3 ELSE 2]

MCFresh == {Empty}

MCDirs == {Empty, SavedBy(Me, "json", <<"a0">>),
           SavedBy("other", "bin", <<"a0", "b1">>), SavedBy("other", "bin", <<"a0", "x1">>)}
=============================================================================

----------------------------- MODULE MCNodeSync -----------------------------
(***************************************************************************)
(* A tree of seven blocks, the numbers are heights:                        *)
(*                                                                         *)
(*      g --- a1                                                           *)
(*       \--- b1 --- b2 --- b3      heavier from b2 on                      *)
(*             \--- o2 --- o3      what this node may mine on b1           *)
(*                                                                         *)
(* The dialled peer turns from b1 to the heavy chain, the other one stays  *)
(* at a1.  With a reorg depth of one, o2 may be given up for it, but not   *)
(* o3 with it.                                                             *)
(***************************************************************************)
EXTENDS NodeSync

MCBlocks == {"g", "a1", "b1", "b2", "b3", "o2", "o3"}
MCParent == [b \in MCBlocks \ {"g"} |->
    CASE b \in {"a1", "b1"} -> "g" [] b \in {"b2", "o2"} -> "b1"
      [] b = "b3" -> "b2" [] b = "o3" -> "o2"]
MCWork == [b \in MCBlocks |-> IF b \in {"b2", "b3"} THEN 2 ELSE 1]
MCTips == [p \in Peers |-> IF p \in Outbound THEN <<"b1", "b3">> ELSE <<"a1">>]
=============================================================================

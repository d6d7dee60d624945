----------------------------- MODULE MCMempool -----------------------------
(***************************************************************************)
(* A pool of two over six transactions: "p" and "q" compete for c1, "p"    *)
(* comes back as "pb" with its binding fields, "r" spends two commitments  *)
(* and so meets both "p" and "s", "w" meets none and is one too many.      *)
(***************************************************************************)
EXTENDS Mempool

MCTxIds == {"p", "pb", "q", "r", "s", "w"}
MCCommits == {"c1", "c2", "c3", "o1", "o2", "o3"}
MCInputs == [t \in MCTxIds |->
    CASE t \in {"p", "pb", "q"} -> {"c1"}
      [] t = "r" -> {"c1", "c2"}
      [] t = "s" -> {"c2"}
      [] t = "w" -> {"c3"}]
MCOutputs == [t \in MCTxIds |-> 
    CASE t \in {"p", "pb"} -> {"o1"}
      [] t = "w" -> {"o3"}
      [] OTHER -> {"o2"}]
MCLegacyId == [t \in MCTxIds |-> IF t = "pb" THEN "p" ELSE t]
MCFullBinding == [t \in MCTxIds |-> t \in {"pb", "q"}]
MCBlockBodies == [inputs : {{}, {"c1"}, {"c2"}}, outputs : {{}, {"o2"}}]
=============================================================================

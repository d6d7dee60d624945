----------------------------- MODULE MCNetwork ------------------------------
(***************************************************************************)
(* One transaction, an address the node dials, and two connections that    *)
(* come in and advertise that address: of the node dialled itself, or of   *)
(* one behind the same router.                                             *)
(***************************************************************************)
EXTENDS Network

MCTxIds == {"p"}
MCCommits == {"c", "o"}
MCInputs == [t \in MCTxIds |-> {"c"}]
MCOutputs == [t \in MCTxIds |-> {"o"}]
MCLegacyId == [t \in MCTxIds |-> "p"]
MCFullBinding == [t \in MCTxIds |-> TRUE]
MCBlockBodies == {[inputs |-> {"c"}, outputs |-> {"o"}]}
MCListens == [i \in {"i", "j"} |-> "a"]
=============================================================================

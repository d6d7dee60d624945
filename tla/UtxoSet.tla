------------------------------ MODULE UtxoSet ------------------------------
(***************************************************************************)
(* The unspent-output map and the running sum of its commitment points,    *)
(* nightfall-ledger/src/utxo.rs.  The sum is one side of the supply        *)
(* equation every block is checked against.                                *)
(*                                                                         *)
(* A sum of curve points is a function from commitments to integer         *)
(* coefficients: commitments are independent, so two sums are the same     *)
(* point exactly when their coefficients agree.  A commitment outside      *)
(* WellFormed does not decompress to a point.                              *)
(***************************************************************************)
EXTENDS Integers, FiniteSets

CONSTANTS Commitments, WellFormed

ASSUME UtxoAssumption == WellFormed \subseteq Commitments

VARIABLES
    entries,    \* keys of the map
    sum,        \* running sum, coefficient of each commitment
    malformed,  \* how many entries have no point
    summed      \* how many entries the running sum accounts for

utxoVars == <<entries, sum, malformed, summed>>

Zero == [c \in Commitments |-> 0]
SumOf(S) == [c \in Commitments |-> IF c \in S THEN 1 ELSE 0]

UtxoInit ==
    /\ entries = {} /\ sum = Zero
    /\ malformed = 0 /\ summed = 0

\* Mutant: a commitment that is already there is counted again.
InsertCountsAgain(c) ==
    /\ entries' = entries \cup {c}
    /\ summed' = Cardinality(entries')
    /\ sum' = IF c \in WellFormed THEN [sum EXCEPT ![c] = @ + 1] ELSE sum
    /\ malformed' = Cardinality(entries' \ WellFormed)

\* Only a genuinely new commitment moves the sum.
Insert(c) ==
    /\ entries' = entries \cup {c}
    /\ IF c \in entries THEN UNCHANGED <<sum, malformed, summed>>
       ELSE /\ summed' = summed + 1
            /\ sum' = IF c \in WellFormed THEN [sum EXCEPT ![c] = @ + 1] ELSE sum
            /\ malformed' = IF c \in WellFormed THEN malformed ELSE malformed + 1

\* usize::saturating_sub(1)
Down(n) == IF n > 0 THEN n - 1 ELSE 0

RemoveEntry(c) ==
    /\ entries' = entries \ {c}
    /\ IF c \notin entries THEN UNCHANGED <<sum, malformed, summed>>
       ELSE /\ summed' = Down(summed)
            /\ sum' = IF c \in WellFormed THEN [sum EXCEPT ![c] = @ - 1] ELSE sum
            /\ malformed' = IF c \in WellFormed THEN malformed ELSE Down(malformed)

\* rebuild_sum
RebuildSum ==
    /\ sum' = SumOf(entries \cap WellFormed)
    /\ malformed' = Cardinality(entries \ WellFormed)
    /\ summed' = Cardinality(entries)
    /\ entries' = entries

UtxoNext ==
    \/ \E c \in Commitments : Insert(c) \/ RemoveEntry(c)
    \/ RebuildSum

UtxoSpec == UtxoInit /\ [][UtxoNext]_utxoVars

-----------------------------------------------------------------------------
(* What callers read.  An Option is a sequence of at most one element. *)

CommitmentSumByWalking ==
    IF entries \subseteq WellFormed THEN <<SumOf(entries)>> ELSE <<>>

CommitmentSum ==
    IF summed # Cardinality(entries) THEN CommitmentSumByWalking
    ELSE IF malformed > 0 THEN <<>> ELSE <<sum>>

\* Mutant: the removals are left out of the projection.
SumAfterAddsOnly(remove, add) ==
    IF CommitmentSum = <<>> \/ ~(remove \cup add \subseteq WellFormed) THEN <<>>
    ELSE <<[c \in Commitments |-> CommitmentSum[1][c] + (IF c \in add THEN 1 ELSE 0)]>>

SumAfter(remove, add) ==
    IF CommitmentSum = <<>> \/ ~(remove \cup add \subseteq WellFormed) THEN <<>>
    ELSE <<[c \in Commitments |-> CommitmentSum[1][c]
                              - (IF c \in remove THEN 1 ELSE 0)
                              + (IF c \in add THEN 1 ELSE 0)]>>

-----------------------------------------------------------------------------
(* Properties *)

\* The sum carried forward is the sum over the map, after any mix of inserts,
\* re-inserts, removals of present and absent outputs and rebuilds -- and it
\* is withheld exactly when the walking version withholds it.
CommitmentSumExact == CommitmentSum = CommitmentSumByWalking

\* What apply_block projects before it changes the set is what the set will
\* say afterwards, so its final check can never contradict the projection.
ProjectionExact ==
    \A R \in SUBSET entries : \A A \in SUBSET (WellFormed \ entries) :
        entries \subseteq WellFormed =>
            SumAfter(R, A) = <<SumOf((entries \ R) \cup A)>>
=============================================================================

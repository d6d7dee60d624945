--------------------------- MODULE HeaviestChain ---------------------------
(***************************************************************************)
(* What a node promises about the chain it follows: it only ever moves to  *)
(* a fully valid chain with strictly more cumulative work, and one step    *)
(* never abandons more than MaxDepth of its own blocks.                    *)
(***************************************************************************)
EXTENDS Integers, Sequences

CONSTANTS
    Valid(_),   \* is this sequence of block hashes a valid chain?
    WorkOf(_),  \* its cumulative work
    MaxDepth    \* how many of our blocks one step may abandon

VARIABLE best   \* hashes of the chain followed, genesis first

\* every position of p below some n survives in q, and at most d lie above it
KeepsAllBut(p, q, d) ==
    \E n \in 0..Len(p) :
        /\ n <= Len(q)
        /\ Len(p) - n <= d
        /\ \A i \in 1..n : p[i] = q[i]

Init == best = <<>>

Advance ==
    /\ best' # best
    /\ WorkOf(best') > WorkOf(best)
    /\ KeepsAllBut(best, best', MaxDepth)
    /\ Valid(best')

Spec == Init /\ [][Advance]_best
=============================================================================

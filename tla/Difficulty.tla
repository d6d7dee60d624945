----------------------------- MODULE Difficulty -----------------------------
(***************************************************************************)
(* The LWMA-1 retarget and the median-time-past rule,                      *)
(* nightfall-consensus/src/difficulty.rs, as operators on a sequence of    *)
(* headers (only `time` and `difficulty` are looked at).                   *)
(***************************************************************************)
EXTENDS Integers, Sequences, FiniteSets, Functions

CONSTANTS
    Window,            \* DIFFICULTY_WINDOW
    TargetTime,        \* TARGET_BLOCK_TIME_SECS
    MinSolveFactor,    \* LWMA_MIN_SOLVETIME_FACTOR
    MaxSolveFactor,    \* LWMA_MAX_SOLVETIME_FACTOR
    InitialDifficulty, \* initial_difficulty of the network
    MinDifficulty,     \* min_difficulty of the network
    MtpWindow          \* MTP_WINDOW

ASSUME DifficultyAssumption ==
    /\ Window \in Nat \ {0} /\ TargetTime \in Nat \ {0} /\ MtpWindow \in Nat \ {0}
    /\ MinSolveFactor \in Int /\ MaxSolveFactor \in Nat /\ MinSolveFactor <= MaxSolveFactor
    /\ InitialDifficulty \in Nat /\ MinDifficulty \in Nat

AtLeast(x, lo) == IF x < lo THEN lo ELSE x
Clamp(x, lo, hi) == IF x < lo THEN lo ELSE IF x > hi THEN hi ELSE x

\* The last n elements of s.
LastN(s, n) == SubSeq(s, Len(s) - n + 1, Len(s))

\* Linearly weighted solve times of the window, newest heaviest; each solve
\* time is clamped both ways because timestamps are only loosely ordered.
WeightedSolveTime(w) ==
    SumFunction([i \in 1..Window |->
        i * Clamp(w[i + 1].time - w[i].time,
                  MinSolveFactor * TargetTime, MaxSolveFactor * TargetTime)])

AverageDifficulty(w) == SumFunction([i \in 1..Window |-> w[i + 1].difficulty]) \div Window

\* Weighted solve time of a perfectly paced window.
Pace == (Window * (Window + 1) * TargetTime) \div 2

NextDifficulty(history) ==
    IF Len(history) < Window + 1 THEN AtLeast(InitialDifficulty, MinDifficulty)
    ELSE LET w      == LastN(history, Window + 1)
             avg    == AverageDifficulty(w)
             paced  == AtLeast(AtLeast(WeightedSolveTime(w), Pace \div 10), 1)
             next   == (avg * Pace) \div paced
         IN  AtLeast(Clamp(next, AtLeast(avg \div 2, 1), avg * 2), MinDifficulty)

\* The element at index len/2 of the sorted window.
MedianTimePast(history) ==
    LET n == IF Len(history) < MtpWindow THEN Len(history) ELSE MtpWindow
        w == LastN(history, n)
    IN  CHOOSE m \in {w[i].time : i \in 1..n} :
            /\ Cardinality({i \in 1..n : w[i].time < m}) <= n \div 2
            /\ Cardinality({i \in 1..n : w[i].time <= m}) > n \div 2
=============================================================================

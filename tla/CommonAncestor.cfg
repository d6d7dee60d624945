CONSTANTS
    MaxReorgDepth = 5
    MaxHeight = 9
SPECIFICATION Spec
INVARIANTS FoundIsCommon ExactWithinReach
PROPERTIES SearchEnds
CHECK_DEADLOCK FALSE

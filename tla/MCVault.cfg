CONSTANTS
    MaxEdits = 3
    None = None
SPECIFICATION Spec
INVARIANTS KeysSurvive ReleasedIsSaved SessionIsDisk NoPlainFallback
CHECK_DEADLOCK FALSE

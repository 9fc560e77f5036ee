SPECIFICATION Spec
CONSTANTS
    Absent = Absent
    MaxVersion = 3
INVARIANTS SavedSurvives
PROPERTIES ReplacedByWholeCopy FailureIsClean
CHECK_DEADLOCK FALSE

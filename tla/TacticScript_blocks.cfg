SPECIFICATION Spec
CONSTANTS
    Names <- MCNames
    Programs <- MCPrograms
    MaxArrivals = 10
INVARIANTS UpToDate RecycledOnce OrderlySurvives
PROPERTIES RunsOnlyForNews
CHECK_DEADLOCK FALSE

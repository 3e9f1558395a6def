SPECIFICATION FairSpec
CONSTANTS
    N = 3
    Units = 6
    RunGap = 0
    MaxRanges = 2
    Modes <- Calls
CHECK_DEADLOCK FALSE
INVARIANTS DrainIsExact ResumeAsksForAll
PROPERTIES FetchReturns

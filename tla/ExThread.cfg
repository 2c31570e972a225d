SPECIFICATION Spec
INVARIANTS QuitHeard SeesItsThread
PROPERTIES QuitThenJoinReturns
CONSTANTS
    MaxRuns = 3
    ReturnsByItself = TRUE

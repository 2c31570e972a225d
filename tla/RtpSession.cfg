CONSTANTS
    Addrs = {a1, a2}
    MaxSsrc = 4
    MaxPolled = 2
SPECIFICATION FairSpec
INVARIANTS AllOrNothing ByeModeAsQueued OneFarewell
PROPERTIES LoopEnds FarewellsLeave

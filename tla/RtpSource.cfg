SPECIFICATION SourceSpec
CONSTANTS Cycle = 6 First = {4} Packets = 9 Ahead = 2 Behind = 2 MaxStrays = 1 ProbationCount = 2 MaxProbation = 3
INVARIANTS SourceTypeOK Numbered ListSorted ProbationBounded
PROPERTY AcceptedAfterRun
CHECK_DEADLOCK FALSE

CONSTANTS
    Sources = {own, s1, s2, s3}
    Own = own
    Items <- MCItems
    Interval <- MCInterval
    Period = 4
    Room = 2
    MaxPending = 1
SPECIFICATION ReportsSpec
INVARIANTS ReportsTypeOK ItemsOnce WaitBounded
SYMMETRY Symmetry

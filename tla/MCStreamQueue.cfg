\* Sizes that fit (4 + 2 <= 6): both retry loops end.
SPECIFICATION FairSpec
INVARIANTS CopiesSafe DeliveredInOrder
PROPERTIES CallsReturn ImplementsFifo
CONSTANTS
    Size = 6
    PutSizes = {1, 3, 4}
    GetSizes = {2}
    MaxBytes = 16

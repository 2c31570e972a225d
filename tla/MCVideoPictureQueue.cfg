SPECIFICATION FairSpec
INVARIANTS NoTearing TestsStillHold
PROPERTIES ImplementsFifo PicturesMove
CONSTANTS
    VpqSize = 4
    WaitCnt = 2
    MaxFrames = 6

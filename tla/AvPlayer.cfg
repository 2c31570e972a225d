SPECIFICATION Spec
INVARIANTS InOrder QuitAfterDrain
PROPERTIES AllShown WholeStreamQuits
CONSTANTS
    MaxPackets = 3
    MaxFrames = 3
    MaxAudio = 5
    FrameSizes = {1, 2}
    DeviceLen = 2
    AudioSize = 3
    VpqSize = 2
CHECK_DEADLOCK FALSE

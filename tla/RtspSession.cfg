\* The session is over once its thread has ended and the client is gone.
SPECIFICATION Spec
INVARIANTS AudioOnlyAsAsked ToldPairIsBound
PROPERTIES AnswersNewest SessionEnds
CONSTANTS
    MaxRequests = 3
    Methods = {"PLAY", "TEARDOWN", "PAUSE"}
    ClientPorts = {1}
    Pairs = {11, 12}
    ParseResults = {TRUE, FALSE}
CHECK_DEADLOCK FALSE

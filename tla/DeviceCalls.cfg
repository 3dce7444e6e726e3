SPECIFICATION FairSpec
CONSTANTS
    Room = 1
    Window = 1
    Cuts = {1, 2}
    Huge = 99
    Names = {"a", "b"}
    NoName = "none"
    ReadOnly = {"a"}
    Modes = {6}
    DataMax = 2
    DevMaxes = {2, 3}
    Inputs = {2, 6}
    PipeRoom = 2
    OutRoom = 3
    MaxOutput = 2
    ExitCodes = {0, 1}
    Files0 <- MCFiles0
    Bodies <- MCBodies
    FeatureSets <- MCFeatureSets
    MaxCalls = 2
    GiveUps = TRUE
    Faults = TRUE
INVARIANTS AnswerIsTrue InStep NoHalfFile OutputIsWhole
PROPERTIES CallReturns
CHECK_DEADLOCK FALSE

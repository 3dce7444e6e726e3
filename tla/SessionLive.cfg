SPECIFICATION FairSpec
CONSTANTS
    s1 = s1
    Streams = {s1}
    NoStream = NoStream
    IdSpace = 4
    FirstId = 1
    RemoteIds <- RemoteIds1
    MaxPayload = 2
    OpenLen = 1
    SendLens = {2}
    MaxBytes = 2
    MaxChunks = 1
    Strays = {"STLS"}
    CancelOpens = TRUE
    CancelSends = TRUE
    LinkFaults = TRUE
    WriterFaults = TRUE
    SessionCloses = FALSE
PROPERTIES OpenReturns SendReturns DeviceIsTold ReaderClosesStreams
CHECK_DEADLOCK FALSE

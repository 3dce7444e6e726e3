SPECIFICATION Spec
CONSTANTS
    s1 = s1
    Streams = {s1}
    NoStream = NoStream
    IdSpace = 4
    FirstId = 1
    RemoteIds <- RemoteIds1
    MaxPayload = 2
    OpenLen = 1
    SendLens = {2}
    MaxBytes = 4
    MaxChunks = 0
    Strays = {}
    CancelOpens = FALSE
    CancelSends = TRUE
    LinkFaults = FALSE
    WriterFaults = FALSE
    SessionCloses = FALSE
INVARIANTS OneWriteInFlight
CHECK_DEADLOCK FALSE

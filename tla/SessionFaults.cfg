SPECIFICATION Spec
CONSTANTS
    s1 = s1
    Streams = {s1}
    NoStream = NoStream
    IdSpace = 4
    FirstId = 1
    RemoteIds <- RemoteIds1
    MaxPayload = 2
    OpenLen = 1
    SendLens = {3}
    MaxBytes = 3
    MaxChunks = 1
    Strays = {"STLS", "OPEN", "CNXN", "AUTH", "SYNC"}
    CancelOpens = TRUE
    CancelSends = FALSE
    LinkFaults = TRUE
    WriterFaults = TRUE
    SessionCloses = TRUE
INVARIANTS TypeOK OneWriteInFlight NoLostWakeup SentMeansDelivered
CHECK_DEADLOCK FALSE
PROPERTIES KeepsPromise

SPECIFICATION Spec
CONSTANTS
    s1 = s1
    Streams = {s1}
    NoStream = NoStream
    IdSpace = 4
    FirstId = 1
    RemoteIds <- RemoteIds1
    MaxPayload = 2
    OpenLen = 1
    SendLens = {1, 3}
    MaxBytes = 6
    MaxChunks = 3
    Strays = {}
    CancelOpens = FALSE
    CancelSends = FALSE
    LinkFaults = FALSE
    WriterFaults = FALSE
    SessionCloses = FALSE
INVARIANTS AcknowledgedOnce DeliveredInOrder EndOfStreamIsComplete SentMeansDelivered
CHECK_DEADLOCK FALSE
PROPERTIES KeepsPromise

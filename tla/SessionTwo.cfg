SPECIFICATION Spec
CONSTANTS
    s1 = s1
    s2 = s2
    Streams = {s1, s2}
    NoStream = NoStream
    IdSpace = 4
    FirstId = 3
    RemoteIds <- RemoteIds2
    MaxPayload = 2
    OpenLen = 1
    SendLens = {2}
    MaxBytes = 0
    MaxChunks = 1
    Strays = {}
    CancelOpens = FALSE
    CancelSends = FALSE
    LinkFaults = TRUE
    WriterFaults = FALSE
    SessionCloses = FALSE
SYMMETRY StreamSymmetry
INVARIANTS EndsAgree Reachable DeliveredInOrder
CHECK_DEADLOCK FALSE

SPECIFICATION PartsSpec
CONSTANTS
    Columns <- MCColumns
    Tables <- MCTables
    Tables2 <- MCTables2
    PropSets <- MCPropSets
    HeadLen = 2
    Mps = 3
    MaxPayload = 4
    SkipChecksum = 1
    Wrap = 4
    Policies <- MCPolicies
    Messages <- MCMessages
    Pipe = 3
    MaxSends = 2
    Serials = {"s1", "s2"}
    Socket = 2
    MaxChanges = 2
    MaxData = 2
    Procs = {p1, p2, p3}
    Old = old
    Absent = absent
    Broken = broken
    Devices = {d1, d2, d3}
    Adb = {d1, d2}
INVARIANT QueryIsTrue
INVARIANT PropsAreTrue
INVARIANT FramesInOrder
INVARIANT FailsForAReason
INVARIANT ToldWhatHappened
INVARIANT ListsAreTrue
INVARIANT OneIdentity
INVARIANT FilesBelong
INVARIANT NoneMissed
INVARIANT EventsInOrder
PROPERTY HostKeepsPromise
CHECK_DEADLOCK FALSE

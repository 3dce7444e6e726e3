SPECIFICATION FairSpec
CONSTANTS
    MaxStale = 2
    AuthWait = 2
    Versions <- AllVersions
    VersionMin = 1
    Version = 2
    Offers <- AllOffers
    LegacyMaxPayload = 1
    MaxPayload = 3
    OldFrames = {"CLSE"}
    MaxOld = 3
    OddFrames = {"OPEN", "OTHER", "AUTH"}
    LinkFaults = TRUE
INVARIANTS TypeOK KnownKeyConnects OfferedOnlyIfUnknown PoliciesAgree
PROPERTIES HandshakeEnds
CHECK_DEADLOCK FALSE

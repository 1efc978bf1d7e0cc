CONSTANTS
    Words = {0, 1}
    Lanes = {0}
    Bytes = {0, 1}
    Issued <- MCIssued
    Uploads = {}
    DEADBEEF = DEADBEEF
    None = None
    Text <- MCText
    Ctxs <- MCCtxs
    WSel = 16
    WAddr = 4
    Values = {0, 1}
    DEADC0DE = DEADC0DE
    Undriven = Undriven
SPECIFICATION FabricSpec
INVARIANTS
    ResultOfRun
    HostWritesInReset
PROPERTIES
    MemoriesLoaded
    RequestAnswered
    OneStableResponse
    AccessCompletes

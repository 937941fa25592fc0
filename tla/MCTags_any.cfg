SPECIFICATION TagsSpec
CONSTANTS
    Lengths = {0, 3, 4, 23, 24, 38, 257}
    DataLens = {8, 16, 17}
    Sectors = {0, 15, 16}
    LastPage = 10
    None = None
    Payloads <- SomeData
    TargetIds <- SomeIds
    Capacities = {0, 2, 19, 20}
    PACKBUFFSIZ = 27
INVARIANTS
    TagsTypeOK
    UriReadBack
    ReportsWhatHappened
    OverrunsAreThese
PROPERTIES
    OnlyItsAreaWritten
    KeysGoToTrailers

SPECIFICATION TagsSpec
CONSTANTS
    Lengths = {6, 22, 23, 24, 38}
    DataLens = {17}
    Sectors = {15}
    LastPage = 10
    None = None
    Payloads <- SomeData
    TargetIds <- SomeIds
    Capacities = {0, 2, 19, 20}
    PACKBUFFSIZ = 27
INVARIANTS
    UriUpTo38

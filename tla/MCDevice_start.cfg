SPECIFICATION FairDeviceSpec
CONSTANTS
    MaximumRetry = 10
    retry_count = 10
    Slots = {s1, s2}
    Colours = {"green", "red"}
    Rounds <- TwoRounds
    None = None
INVARIANTS
    DeviceTypeOK
    StopsOnlyWhenExhausted
    DarkWhenDone
PROPERTIES
    ReaderStarts
    OnlineAgain
    SlotsComeFree

SPECIFICATION FairPN532Spec
CONSTANTS
    Uids = {7, 9}
    Keys <- TwoKeys
    BlockBytes = 3
    Lead = 1
    Faults = {"card_leaves", "noise", "slow"}
    None = None
INVARIANTS
    PN532TypeOK
    KeyReadIsOnCard
PROPERTIES
    OnlyAcceptedCardWritten
    CardIOSpec
    CallsReturn
    TapReachesSession

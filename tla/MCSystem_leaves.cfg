SPECIFICATION FairSystemSpec
CONSTANTS
    Uids = {u1}
    Keys = {k1, k2, k3}
    Passwords = {"@Testing_password"}
    TestingPassword = "@Testing_password"
    Links = {r1, r2, b1}
    ReaderLinks = {r1, r2}
    Readers = {door}
    Faults = {"card_leaves"}
    None = None
    AttemptCap = 3
    MaxRows = 0
    Pipeline = 2
INVARIANTS
    SystemTypeOK
    KeyInSync
    OneRow
    KeyRecoverable
PROPERTIES
    SerialSpec
    OnlyCurrentKeyRewritten
    DecisionEndsSession

SPECIFICATION FairSystemSpec
CONSTANTS
    Uids = {u1}
    Keys = {k1, k2, k3, k4, k5}
    Passwords = {"@Testing_password"}
    TestingPassword = "@Testing_password"
    Links = {r1, b1}
    ReaderLinks = {r1}
    Readers = {door}
    Faults = {"card_leaves", "link_drop", "late_reply", "server_crash", "db_error"}
    None = None
    AttemptCap = 0
    MaxRows = 2
    Pipeline = 2
PROPERTIES
    SessionIOSpec
    SessionProceeds

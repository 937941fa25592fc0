SPECIFICATION ServerSpec
CONSTANTS
    Uids = {u1}
    Keys = {k1}
    Passwords = {"@Testing_password"}
    TestingPassword = "@Testing_password"
    Links = {r1, r2, b1}
    ReaderLinks = {r1, r2}
    Faults = {}
    None = None
    AttemptCap = 1
    MaxRows = 0
    Pipeline = 1
INVARIANTS
    CheckStillHolds

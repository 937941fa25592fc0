SPECIFICATION SystemSpec
CONSTANTS
    Uids = {u1}
    Keys = {k1, k2, k3, k4, k5}
    Passwords = {"@Testing_password", "wrong"}
    TestingPassword = "@Testing_password"
    Links = {r1, b1}
    ReaderLinks = {r1}
    Readers = {door}
    Faults = {}
    None = None
    AttemptCap = 3
    MaxRows = 0
    Pipeline = 2
SYMMETRY KeySymmetry
INVARIANTS
    LoginFollowsTap

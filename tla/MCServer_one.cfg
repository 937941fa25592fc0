SPECIFICATION SerialSpec
CONSTANTS
    Uids = {u1}
    Keys = {k1}
    Passwords = {"@Testing_password"}
    TestingPassword = "@Testing_password"
    Links = {r1, r2, b1}
    ReaderLinks = {r1, r2}
    Faults = {"server_crash", "db_error", "link_drop"}
    None = None
    AttemptCap = 2
    MaxRows = 2
    Pipeline = 1
SYMMETRY LinkSymmetry
INVARIANTS
    TypeOK
    CheckStillHolds
    RotateStillAllowed
    RegistersOnce
PROPERTIES
    AccessSpec

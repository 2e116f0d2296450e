\* Three requests of one browser, two starts and a recovery file.
CONSTANTS
    Requests = {r1, r2, r3}
    Browsers = {b1}
    Passwords = {p1, p2}
    Unfit = Unfit
    None = None
    Done = Done
    MaxFiles = 1
    MaxStarts = 2
SPECIFICATION Spec
SYMMETRY AccessSymmetry
INVARIANT
    TypeOK
PROPERTIES
    ChangesProveThePassword
    PasswordsAreReplacedByFiles
CHECK_DEADLOCK FALSE

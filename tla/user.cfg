SPECIFICATION Spec
CONSTANTS
    Calls = {c1, c2}
    Names = {n1, n2, n3}
    Passwords = {p1, p2}
    PageSize = 1
    MaxPage = 2
    MaxRetries = 1
    MaxRequests = 2
    Seeded = {1}
SYMMETRY Symmetry
INVARIANTS
    RegistrationOwn
    VerdictsRight
    FriendsRecorded
    PageExact
PROPERTIES
    SessionsAuthorised
CHECK_DEADLOCK FALSE

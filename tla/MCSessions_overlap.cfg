SPECIFICATION SSpec
CONSTANTS
    q1 = q1
    q2 = q2
    u1 = u1
    u2 = u2
    root = root
    other = other
    old = old
    new = new
    Blank = Blank
    NoRow = NoRow
    Requests = {q1, q2}
    UserIds = {u1, u2}
    Names = {root, other}
    SeedName = root
    Passwords = {old, new}
    Day = 1
    LastTime = 2
    MaxTokens = 2
CHECK_DEADLOCK FALSE
SYMMETRY Interchangeable
INVARIANTS
    STypeOK
    AuthorityFades
PROPERTIES
    LostOnlyToOverlap
    RevivedOnlyByOverlap

CONSTANTS
    u1 = u1
    u2 = u2
    e1 = e1
    e2 = e2
    p1 = p1
    Ids = {u1, u2}
    Emails = {e1, e2}
    FirstEmail = e1
    Passwords = {p1}
    FirstPassword = p1
    Workers = {w1, w2}
    Requests = {r1}
    StartUps = {s1, s2}
    FirstRows <- OneUserOrNone
    NoUser = NoUser
    Deleted = Deleted
    AccessLife = 2
    RecoveryLife = 1
    MaxTime = 2
    MaxTokens = 1
    MaxChanges = 2
    MaxKeys = 3
SPECIFICATION Spec
SYMMETRY Symmetry
INVARIANTS
    ActsForItsUser
    ResetReachesItsUser
    TokensAreHonoured
    FirstSuperuserOnce
PROPERTIES
    ImplementsAccountTable
CHECK_DEADLOCK FALSE

CONSTANTS
    u1 = u1
    u2 = u2
    u3 = u3
    e1 = e1
    e2 = e2
    p1 = p1
    p2 = p2
    Ids = {u1, u2, u3}
    Emails = {e1, e2, e3}
    Passwords = {p1, p2}
    Kinds = {"update_me", "delete_user"}
    Requests = {r1, r2}
    FirstRows <- TwoUsers
    NoRow = NoRow
    Deleted = Deleted
SPECIFICATION Spec
INVARIANTS
    SuperusersDoNotDeleteThemselves
CHECK_DEADLOCK FALSE

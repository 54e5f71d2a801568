CONSTANTS
    Users = {u1, u2}
    Kinds = {"login_link", "set_zonemaster"}
    Actions = {a1, a2}
    Readers = {h1}
    Subscriptions = {s1}
    Pages = {0, 1, 2}
    Sizes = {1, 2}
    Nothing = Nothing
SPECIFICATION Spec
SYMMETRY Symmetry
INVARIANTS
    LoggedHappened
    RowsAreEntered
    UnloggedNeedsACause
    HistoryShowsOwnLinks
    PagesMatchTheirNumber
CHECK_DEADLOCK FALSE

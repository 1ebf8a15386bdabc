CONSTANTS
    Users = {u1, u2}
    Emails = {e1, e2}
    KeyIds = {k1}
    Callers = {p1, p2}
    OpenLimiters = {l1}
    GuardedLimiters = {l2}
    MaxAdmitted = 2
    Window = 2
    Life = 1
SPECIFICATION AccountsSpec
INVARIANT LimitHolds

\* As Dav_account, with every answer owed to the organizer, however it is patched.
CONSTANTS
    c1 = c1
    h1 = h1
    h2 = h2
    r1 = r1
    r2 = r2
    r3 = r3
    Col = {c1}
    Default = c1
    Href = {h1, h2}
    Guest = {g1}
    MaxClock = 3
    Budget <- Budgets
    Request = {r1, r2, r3}
    None = None
SPECIFICATION Spec
SYMMETRY MCSymmetry
INVARIANT EveryAnswerIsSent
CHECK_DEADLOCK FALSE

\* One mail and one draft, two clients, the push; two changes, and three calls, hints and failures.
CONSTANTS
    r1 = r1
    r2 = r2
    Msg = {mail, draft}
    Inbox = {mail}
    Unlabelled = {mail}
    Request = {r1, r2}
    Push = Push
    Thread = Thread
    MaxHistory = 2
    Budget = 3
    MaxFailures = 2
    None = None
SPECIFICATION PartSpec
SYMMETRY MCSymmetry
INVARIANTS CacheOK ClientIsCurrent  HintsAreFollowed
CHECK_DEADLOCK FALSE

\* Requests of three calls, two at a time.
CONSTANTS
    a = a
    b = b
    t = t
    Get = Get
    Set = Set
    Odd = Odd
    Reading = {Get}
    Creating = {Set}
    Unknown = {Odd}
    CallId = {a, b}
    TempId = {t}
    Shapes <- MCShapes
    MaxCalls = 3
    MaxParallel = 2
    None = None
SPECIFICATION FairSpec
INVARIANT TypeOK
PROPERTIES ImplementsCallOrder EveryCallAnswered
CHECK_DEADLOCK FALSE

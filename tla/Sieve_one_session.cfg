SPECIFICATION Spec
CONSTANTS
    s1 = s1
    Sessions = {s1}
    Names = {"a", "b"}
    MaxScripts = 2
    None = None
INVARIANTS
    ScriptsOK
    
PROPERTY
    ForeignIsKept

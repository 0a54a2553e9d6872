\* the wrapper exits with the backend
SPECIFICATION Spec
CONSTANTS
    Wires = {1, 2}
    Names = {"a"}
    Cids = {0, 1}
    NoName = "none"
    MaxQueue = 2
    MaxOut = 2
    MaxCommands = 1
INVARIANTS
    SessionsAgree
    OwnProgress
    
PROPERTIES
    ClosedIsFreed
CHECK_DEADLOCK FALSE

SPECIFICATION Spec
CONSTANTS
    Clients = {c1, c2}
    Values = {"v", "w"}
    Gone = Gone
    Idle = Idle
    None = None
    Ids <- MCIds
    Calls <- MCCalls
PROPERTY CreatesOnlyAbsent

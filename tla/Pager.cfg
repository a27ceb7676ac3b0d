SPECIFICATION Spec
CONSTANTS
    Keys <- MCKeys
    Values <- MCValues
    MaxInt = 7
    DefaultSize = 2
    Numbers <- MCNumbers
    None = None
INVARIANTS TypeOK PageAskedFor PagesFollow TotalAgrees FirstIsFirst

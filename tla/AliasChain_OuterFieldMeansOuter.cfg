CONSTANTS
    Queries = {1, 2, 3}
    Models = {user, order}
    Names = {a}
    NoQuery = NoQuery
    NoModel = NoModel
    NoName = NoName
    NoEntry = NoEntry
    Registry = Registry
    Bare = Bare
    Unresolved = Unresolved
    MaxAliases = 2
    MaxRefs = 1
    MaxJoins = 1
    MaxRoots = 1
    MaxClears = 1
SPECIFICATION Spec
SYMMETRY MCSymmetry
INVARIANT OuterFieldMeansOuter

SPECIFICATION Spec
CONSTANTS
    Rules <- MCRules
    AliasNames = {ext}
    Strengths = {"UPDATE"}
    MaxConds = 1
    MaxSelects = 1
INVARIANT EmptyQueryNeverDeletes

SPECIFICATION Spec
CONSTANTS
    Rules <- MCRules
    AliasNames = {ext}
    Strengths = {"UPDATE"}
    MaxConds = 1
    MaxSelects = 1
INVARIANTS TypeOK RulesOnce FailClosed RuleScoped GuardedWrites
PROPERTY ImplementsContract

SPECIFICATION Spec
CONSTANTS
    Rows <- MCRows
    MaxConds = 2
INVARIANTS TypeOK RulesHold RulesOnlyRestrict KeysBound DeletedStayHidden FiltersNarrow

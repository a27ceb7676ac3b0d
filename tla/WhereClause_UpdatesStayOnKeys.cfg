SPECIFICATION Spec
CONSTANTS
    Rows <- MCRows
    MaxConds = 2
INVARIANT UpdatesStayOnKeys

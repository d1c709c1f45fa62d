SPECIFICATION MCSpec
CONSTANTS
    Files <- MCFiles
    Revisions <- MCRevisions
    Typed <- MCTyped
    Recalled <- MCRecalled
    PfKey <- MCPfKey
    Limit = 4
    MaxRing = 3
    PrevCheck = 3
    MaxKeys = 9
    LineKeys = 5
    HistoryKeys = 8
INVARIANTS  LeavesNothingBehind
PROPERTIES KeysKeepLine 
CHECK_DEADLOCK FALSE

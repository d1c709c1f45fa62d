SPECIFICATION MCSpec
CONSTANTS
    Static <- MCStatic
    Bad = "Bad"
    MaxWindow = 2
    Generated <- MCGenerated
    MaxDown = 2
    MaxMemo = 1
    MaxEvents = 6
    Path <- MCPath
    Files = {"f", "g"}
    Texts <- MCTexts
    Disks <- MCDisks
    a1 = a1
    a2 = a2
    Adders = {a1, a2}
    Uses <- MCUses
    MaxTime = 2
    MaxEdits = 1
    Edited <- MCEdited
    Block = 2
    Table = {1, 2}
    Key = {"x", "y", "z"}
    Data = {"d", "e"}
    Code <- MCCode
    Size = 2
    MaxInserts = 3
SYMMETRY Symmetry
INVARIANTS
    PointersAreGood WindowsHoldLivePages
    OthersKept PlacesAreRight
PROPERTY TablesAreDictionaries
CHECK_DEADLOCK FALSE

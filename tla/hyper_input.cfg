SPECIFICATION MCSpec
CONSTANTS
    Size = 3
    Chars = {"a", "b"}
    Defaults <- MCDefaults
    MaxLines = 4
    MaxKeys = 5
    Pages <- MCPages
    PasteNames = {"full", "empty", "boxed"}
    Patches <- MCPatches
    Rooms = {9, 13, 22}
    LineHeight = 2
    PixHeight = 3
    Margin = 1
    ArrowHeight = 2
    MaxPastes = 3
 
PROPERTIES KeysKeepPromise PlainPastesAreSafe
CHECK_DEADLOCK FALSE

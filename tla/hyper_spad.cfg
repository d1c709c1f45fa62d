SPECIFICATION SpadSpec
CONSTANTS
    c1 = c1
    c2 = c2
    c3 = c3
    u = u
    None = None
    Pages = {p, q}
    Commands = {c1, c2, c3}
    Frees <- MCFrees
    Sources <- MCSources
    Undefined = u
    Buffers = {1, 2, 3}
    Clicks = 2
    Others = 1
    Deaths = 1
    Reuse = FALSE
INVARIANTS  DependenciesRunFirst
PROPERTY ClickReturns
CHECK_DEADLOCK FALSE

SPECIFICATION FairSpec
CONSTANTS
  Window = {w1, w2}
  Menu = Menu
  Killer = Killer
  Null = Null
  MaxLines = 2
  Discipline = "paced"
  LateConnect = FALSE
  Closing = TRUE
  Mortal = {}
  MenuMoves = 0
INVARIANTS
  LineRunsInItsFrame
  InStep
  OutputToOwner
PROPERTIES
  LinesAreRun

SPECIFICATION Spec
CONSTANTS
  Window = {w1, w2}
  Menu = Menu
  Killer = Killer
  Null = Null
  MaxLines = 1
  Discipline = "free"
  LateConnect = TRUE
  Closing = TRUE
  Mortal = {w1, w2, Killer}
  MenuMoves = 0
INVARIANTS
  TypeOK
  
  
  KillReachesEveryWindow
SYMMETRY Symmetry

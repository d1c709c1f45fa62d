SPECIFICATION Spec
CONSTANTS
  Window = {w1, w2}
  Menu = Menu
  Killer = Killer
  Null = Null
  MaxLines = 1
  Discipline = "turns"
  LateConnect = FALSE
  Closing = FALSE
  Mortal = {w1}
  MenuMoves = 0
INVARIANTS
  WindowDeathHarmless

SPECIFICATION FairSpec
CONSTANTS
  Window = {w1}
  Menu = Menu
  Killer = Killer
  Null = Null
  MaxLines = 1
  Discipline = "free"
  LateConnect = TRUE
  Closing = TRUE
  Mortal = {Menu}
  MenuMoves = 2
PROPERTIES
  MenuServed

SPECIFICATION LayoutSpec
CONSTANTS
  Subjects <- MCSubjects
  Macros <- MCMacros
  Deepest = 5
  RightMargin = 9
  IndentBy = 9
  Layouts = 2
INVARIANTS PageIsMarked  ShownWhole
PROPERTY AfterIfStays
CHECK_DEADLOCK FALSE

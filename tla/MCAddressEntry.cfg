SPECIFICATION Spec
CONSTANTS
  Text <- MCText
  Place <- MCPlace
  Long <- MCLong
  Blank = ""
  Trim <- MCTrim
  Finds <- MCFinds
  Here = "park"
  MaxRecent = 2
  Tours <- MCTours
  None = None
INVARIANTS TypeOK EditorSpeaksOfItsText
CHECK_DEADLOCK FALSE

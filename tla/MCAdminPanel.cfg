SPECIFICATION LiveSpec
CONSTANTS
  Docs = {licence, photo}
  MetaDocs = {licence}
  Fields = {plate, colour}
  None = None
  MaxFiles = 2
  Tours <- MCTours
INVARIANTS TypeOK PagesShow
PROPERTIES NoSilentUndo TablesCatchUp
CHECK_DEADLOCK FALSE

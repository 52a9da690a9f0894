SPECIFICATION Spec
CONSTANTS
  Docs = {licence, photo}
  MetaDocs = {licence}
  Fields = {plate, colour}
  None = None
  MaxFiles = 4
  Tours <- MCFirstRead
INVARIANT PageShowsServices
CHECK_DEADLOCK FALSE

SPECIFICATION Spec
CONSTANTS
  Docs = {licence, photo}
  MetaDocs = {licence}
  Fields = {plate, colour}
  None = None
  MaxFiles = 4
  Tours <- MCTours
INVARIANT InOrderIsEnabled
CHECK_DEADLOCK FALSE

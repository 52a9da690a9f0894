SPECIFICATION Spec
CONSTANTS
  Docs = {licence, photo}
  MetaDocs = {licence}
  Fields = {plate, colour}
  None = None
  MaxFiles = 4
  Tours <- MCTours
INVARIANTS TypeOK SentIffInOrder OwnWritesShown
PROPERTIES KnownVehicleKept
CHECK_DEADLOCK FALSE

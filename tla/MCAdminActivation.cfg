SPECIFICATION Spec
CONSTANTS
  Docs = {licence, photo}
  MetaDocs = {licence}
  Fields = {plate, colour}
  None = None
  MaxFiles = 2
  Tours <- MCTours
PROPERTY ActivationByApproval
CHECK_DEADLOCK FALSE

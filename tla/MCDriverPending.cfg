SPECIFICATION LiveSpec
CONSTANTS
  Docs = {licence, photo}
  MetaDocs = {licence}
  Fields = {plate, colour}
  None = None
  MaxFiles = 4
  Tours <- MCWaiting
PROPERTY PendingOpens
CHECK_DEADLOCK FALSE

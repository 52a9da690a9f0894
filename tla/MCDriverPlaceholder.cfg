SPECIFICATION Spec
CONSTANTS
  Docs = {licence, photo}
  MetaDocs = {licence}
  Fields = {plate, colour}
  None = None
  MaxFiles = 4
  Tours <- MCPlaceholder
PROPERTY NoVehicleRetired
CHECK_DEADLOCK FALSE

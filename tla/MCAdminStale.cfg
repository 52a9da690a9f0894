SPECIFICATION Spec
CONSTANTS
  Docs = {licence, photo}
  MetaDocs = {licence}
  Fields = {plate, colour}
  None = None
  MaxFiles = 2
  Tours <- MCStale
INVARIANT PanelShowsServices
CHECK_DEADLOCK FALSE

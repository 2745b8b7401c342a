CONSTANTS
  changed = changed
  added = added
  elsewhere = elsewhere
  sibling = sibling
  main = main
  other = other
  Edits = {changed, added, elsewhere}
  Foreign = {sibling}
  Tracked = {changed}
  Clashing = {changed, added}
  Branches = {main, other}
  Main = main
  MaxOutside = 1
  None = None
SPECIFICATION Spec
PROPERTIES NeverResetsUnsavedWork
CHECK_DEADLOCK FALSE

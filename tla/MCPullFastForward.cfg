CONSTANTS
  changed = changed
  added = added
  elsewhere = elsewhere
  sibling = sibling
  main = main
  other = other
  Edits = {changed, added, elsewhere}
  Foreign = {sibling}
  Tracked = {changed}
  Clashing = {changed, added}
  Branches = {main, other}
  Main = main
  MaxOutside = 2
  None = None
SPECIFICATION Spec
INVARIANTS SavedWorkSurvives NoForeignWork OutcomeIsTrue
PROPERTIES PullEnds
CHECK_DEADLOCK FALSE

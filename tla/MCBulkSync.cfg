CONSTANTS
  t1 = t1
  t2 = t2
  t3 = t3
  Repos = {1}
  Trees = {t1, t2}
  RepoOf <- MCOneRepo
  Workers = {w1}
  TreeLimit = 2
  Idle = {}
  Users = {u1}
  MaxCommits = 2
  MaxOutside = 2
  None = None
SPECIFICATION Spec
INVARIANTS LocksCoverTasks ReportedUntouched MovedIsFollowedUp
PROPERTIES MovesOnlyToReviewed CancelStopsWork
CHECK_DEADLOCK FALSE

CONSTANTS
  t1 = t1
  t2 = t2
  t3 = t3
  Repos = {1, 2}
  Trees = {t2, t3}
  RepoOf <- MCTwoRepos
  Workers = {w1, w2}
  TreeLimit = 1
  Idle = {t2}
  Users = {u1}
  MaxCommits = 1
  MaxOutside = 0
  None = None
SPECIFICATION Spec
PROPERTIES RunEnds
CHECK_DEADLOCK FALSE

CONSTANTS
  a = a
  b = b
  None = None
  Nothing = Nothing
  Hashes = {a, b}
  Gits = {g}
  MaxEntries = 2
  MaxAsks = 2
  MaxCrashes = 1
  Requests = {a, b}
  Branches = {b1, b2}
  Selected <- MCSelected
  MaxTokens = 2
  MaxOutside = 1
  Finished = {a, b, c}
  ChunkSize = 2
  MaxTouches = 2
  Linked = {a, b}
  MaxActs = 2
  MaxRuns = 1
  Platforms = {"darwin", "win32", "linux"}
  Tracks = {x, y}
  MaxVersion = 2
  MaxChecks = 3
  MaxSelections = 2
SYMMETRY Swap
SPECIFICATION ChangesSpec
INVARIANTS HarmsNoOther RefFollowsLog OutsideWorkSurvives OneRewritePerCheck ReceiptIsTrue ProbesStayOut OfferedIsInstalled
PROPERTIES AnswerIsTrue EditedAsChecked DeletesOnlyReviewed RemovedAsAnswered DownloadsSettle
CHECK_DEADLOCK FALSE

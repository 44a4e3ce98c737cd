SPECIFICATION Spec
CONSTANTS
  Paths = {"a", "b", "a b", "u"}
  Allowed = {"a", "b", "a b"}
  Words <- MCWords
  Commits = {"c1", "c2", "c3"}
  Contents = {"x", "y"}
  Tree <- MCTree
  MaxLines = 2
  MaxFiles = 2
  Absent = Absent
  NoDoc = NoDoc
  NoRow = NoRow
  NoCommit = NoCommit
  NoPath = NoPath
  MaxJobs = 3
  MaxDeletes = 1
PROPERTIES RefreshDeletesRemoved

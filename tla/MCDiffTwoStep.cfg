SPECIFICATION Spec
CONSTANTS
  Parts = {"diff"}
  Containers = {"a", "b"}
  MaxOffset = 2
  MaxRecords = 4
  InitialFiles <- OneRecord
  FileChanges = {"append", "replace", "truncate", "remove"}
  RacyRescan = FALSE
  Queries = {q1, q2}
  Procs = {p1, p2}
  Requests <- AllRequests
  MaxAnswers = 2
  None = None
  Labels = {l}
  Ids = {"i", "j"}
  Docs = {"d", "e", "< e >"}
  Stored <- SavedForm
  NoId = ""
  Results <- UpToTwo
  Quiet = TRUE
  MaxVersion = 2
  Absent = Absent
INVARIANT InSync
SYMMETRY Swap

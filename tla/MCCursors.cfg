SPECIFICATION Spec
CONSTANTS
  Parts = {"one_step", "tokens", "two_step", "diff"}
  Containers = {"a", "b"}
  MaxOffset = 2
  MaxRecords = 3
  InitialFiles <- OneRecord
  FileChanges = {"append", "replace", "truncate", "remove"}
  RacyRescan = FALSE
  Queries = {q1, q2}
  Procs = {p1, p2}
  Requests <- AllRequests
  MaxAnswers = 2
  None = None
  Labels = {l}
  Ids = {"i", "j"}
  Docs = {"d", "e", "< e >"}
  Stored <- SavedForm
  NoId = ""
  Results <- UpToTwo
  Quiet = FALSE
  MaxVersion = 2
  Absent = Absent
INVARIANTS NeverMissesAppends DisclosedUntilAccepted DiffExact
PROPERTY MarkNeverRewinds
SYMMETRY Swap

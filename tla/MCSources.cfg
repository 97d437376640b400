SPECIFICATION Spec
CONSTANTS
  Stray = FALSE
  Kinds = {"classic", "flat"}
  RfCacheMax = 2
  RfScans = 2
  RfChanges = 2
  SpScans = {w1, w2}
  SpFiles = 2
  SpRecords = 2
  IdRoom = 1
  CoBatch = 2
  InsertStmts = {s1, s2}
  InsertRows = 2
  QueueCap = 1
  InsertModes = {"new", "append", "overwrite"}
  InsertSources <- InsertStatements
  InsertOld = InsertOld
  NoTarget = NoTarget
INVARIANTS RecordsExact DatastoreExact ColumnarExact InsertAtomic
PROPERTIES RowsLeaveOnlyBlindly GoroutinesEnd

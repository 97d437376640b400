SPECIFICATION Spec
CONSTANTS
  ScBudget = 2
  ScFactor = 1
  RecurDepthMax = 3
  RecurDocsMax = 6
  TkNames <- Names
  TkStatements = 4
  TkRows = 2
  XsRecords = 3
  SeEvery = 2
  SePresses = 2
  SeStreamed = {FALSE}
INVARIANTS RetainedRowsExact SubqueriesExact ScriptsContained SessionExact
PROPERTY CloseReturns

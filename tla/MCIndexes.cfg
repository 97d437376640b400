SPECIFICATION Spec
CONSTANTS
  IdxContainers = {a, b}
  IdxLen = 2
  IdxChanges = 2
  SiSince = 2
  SiOps = 3
  FtSince = 2
  FtOps = 3
  MiSince = 2
  MiOpens = 3
  SpMantissa = 3
  Races = {FALSE}
INVARIANTS IndexExact FtsExact SpansExact

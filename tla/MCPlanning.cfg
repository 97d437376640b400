SPECIFICATION Spec
CONSTANTS
  OuterFields = {"k"}
  HardPlans = {}
  Describers = {p1, p2}
  MaxVersion = 3
INVARIANTS RewriteSound ExtractCacheTrue ConvSound LanesAgree

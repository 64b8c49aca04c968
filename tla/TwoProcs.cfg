SPECIFICATION HSpec
CONSTANTS
  app = app
  tool = tool
  h1 = h1
  h2 = h2
  NULL = NULL
  Section = {sec}
  Key = {k1}
  Val = {v1}
  Handle = {h1, h2}
  Process = {app, tool}
  ProcOf <- AppAndTool
  Faults = {"kill", "power", "noread", "nowrite", "nospace"}
SYMMETRY HandleSymmetry
CONSTRAINTS SomethingToLookFor FewWait
INVARIANTS
  TypeOK
  TornIsExplained
  GoneIsExplained
  LastSaveRecoverable
PROPERTIES
  QueryIsExplained

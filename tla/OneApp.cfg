SPECIFICATION HFairSpec
CONSTANTS
  app = app
  tool = tool
  h1 = h1
  h2 = h2
  NULL = NULL
  Section = {sec}
  Key = {k1}
  Val = {v1, v2}
  Handle = {h1, h2}
  Process = {app}
  ProcOf <- TogetherInApp
  Faults = {"nowrite"}
INVARIANTS
  SaveInv
  NeverTorn
PROPERTIES
  ImplementsConfigDB
  SaveLands

SPECIFICATION HFairSpec
CONSTANTS
  app = app
  tool = tool
  h1 = h1
  h2 = h2
  NULL = NULL
  Section = {sec}
  Key = {k1}
  Val = {v1}
  Handle = {h1, h2}
  Process = {app, tool}
  ProcOf <- AppAndTool
  Faults = {}
PROPERTIES
  QueryKeepsDatabase

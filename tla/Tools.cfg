SPECIFICATION TFairSpec
CONSTANTS
  shell1 = shell1
  shell2 = shell2
  h1 = h1
  h2 = h2
  NULL = NULL
  Section = {sec}
  Key = {k1}
  Val = {v1}
  Handle = {h1, h2}
  Process = {shell1, shell2}
  ProcOf <- TwoShells
  Faults = {"noread", "nowrite"}
  Installed = {"mcs-info", "mcs-getconfval", "mcs-setconfval"}
INVARIANTS
  TTypeOK
  NoLeftover
  LoadsOneSave
  InTurn
PROPERTIES
  SavesEnd
  ToolsEnd

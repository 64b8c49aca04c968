SPECIFICATION Spec
CONSTANTS
  PathMax = 9
  Char = {"/", "a", "c", "f", ".", "t", "x"}
  Config <- SlashConfig
  Suffix <- DotTmp
  Domain = {"a", "a/c", "f", "f/c", "f/c.tx"}
  Base <- FiveBases
  Content = {v1}
  Nothing = Nothing
INVARIANTS
  SavedIsFound
PROPERTIES
  OthersLeaveIt

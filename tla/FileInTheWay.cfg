SPECIFICATION Spec
CONSTANTS
  p1 = p1
  p2 = p2
  p3 = p3
  Caller = {p1, p2, p3}
  Dir <- Names
  Depth <- Three
  PathOf <- SharedPaths
  Faults = {}
INVARIANTS
  ZeroMeansDirectory

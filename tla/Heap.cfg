SPECIFICATION Spec
CONSTANTS
  NULL = NULL
  Section = {sec1, sec2}
  Key = {k1}
  Val = {v1, v2}
  Block = {1, 2, 3, 4, 5, 6, 7, 8}
  Malloc <- FirstFit
INVARIANTS
  TypeOK
  OneOwner
  ListingIsComplete
PROPERTIES
  HandedOutStays
  ActsAsKeyfile

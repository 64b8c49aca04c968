SPECIFICATION Spec
CONSTANTS
  None = None
  keyfile_backend = keyfile_backend
  rival = rival
  custom = custom
  Backend = {keyfile_backend, rival, custom}
  KeyfileBackend = keyfile_backend
  Name = {"DEFAULT", "CUSTOM"}
  CanonName <- ThreeNames
  Handle = {h1, h2}
  Value = {v1, v2}
INVARIANTS
  RegisteredIsListed
PROPERTIES
  SavedWhereLoaded

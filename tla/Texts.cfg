SPECIFICATION Spec
CONSTANTS
  Char <- SevenChars
  Keyfiles <- SmallKeyfiles
  Scripts <- ShortScripts
  BufSize = 5
INVARIANTS
  RoundTrip
  TornIsPrefix
  LoadedIsPrintable

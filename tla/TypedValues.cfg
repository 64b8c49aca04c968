SPECIFICATION Spec
CONSTANTS
  Sig = 2
  FloatDigits = 3
  DoubleDigits = 4
  FloatMin <- SmallFloat
  FloatMax <- GreatFloat
  Mantissa <- SomeMantissas
  Exponent <- SomeExponents
  CInt <- SomeInts
  Word <- SomeWords
INVARIANTS
  ReadsBack
  NoDrift

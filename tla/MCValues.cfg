CONSTANTS
  Word = 4
  Byte = 1
  Half = 2
  Types <- TypesValue
  ElementTypes <- ElementTypesValue
  MaxPart = 3
  MaxPower = 3
  Shapes <- ShapesValue
  Parts <- PartsValue
  Ten = 4
  PRECISION = 2
  MAXIMUM_ADJUSTED_EXPONENT = 2
  MINIMUM_EXPONENT <- MinusThree
  EXACT_DIGIT_LIMIT = 3
  GUARD_DIGITS = 3
  LARGEST_PLAIN = 2
  SMALLEST_PLAIN <- MinusOne
  RoundedPlaces <- RoundedPlacesValue
  FRACTION_BITS = 2
  MaximumExponent = 5
  One = 8
  DoubleBits = 7
  Sizes <- SizesValue
  MaxTypes = 2
  MaxFields = 3
  MaxSize = 24
  Offset = 4
  Numbers = {0, 1, 2, 5, 9, 10, 12, 19, 48, 95, 99, 100, 101, 192, 505, 984, 999, 1000, 10000}
  Objects = {"x", "y", "z"}
  Primitives = {"0", "-0", "NaN"}
  Zeros = {"0", "-0"}
  LookedAt = {"numbers", "structs", "objects"}
SPECIFICATION MCSpec
INVARIANTS
  ResultsAreExact
  ResultsAreRoundedOnce
  WhatIsWrittenIsReadBack
  EqualIsIndistinguishable
CHECK_DEADLOCK FALSE

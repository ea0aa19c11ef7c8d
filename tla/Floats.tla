------------------------------- MODULE Floats -------------------------------
(***************************************************************************)
(* A binary format narrower than the engine's double, each operation of it *)
(* the double's rounded once more (packages/types/src/float,               *)
(* halfPrecisionFloat).  A value is a sign and a quotient of two numbers,  *)
(* in units of a power of two fine enough for the format: a value of the   *)
(* format is a whole number of units, a double need not be.                *)
(***************************************************************************)
EXTENDS Integers

CONSTANTS
  FRACTION_BITS,    \* 10
  MaximumExponent,  \* 15: in units, 39
  One,              \* 1, in units: 2^24
  DoubleBits        \* the fraction bits of the engine's double: 52

FloatAssumption ==
  /\ FRACTION_BITS \in Nat \ {0} /\ One \in Nat \ {0}
  /\ DoubleBits \in Nat /\ DoubleBits >= 2 * FRACTION_BITS + 3
  /\ MaximumExponent \in Nat /\ MaximumExponent > FRACTION_BITS

\* The smallest spacing is a unit.
MINIMUM_NORMAL_EXPONENT == FRACTION_BITS

Float(kind, negative, top, bottom) ==
  [kind |-> kind, negative |-> negative, top |-> top, bottom |-> bottom]
Finite(negative, top, bottom) == Float("finite", negative, top, bottom)
Nan == Float("nan", FALSE, 0, 1)
Infinite(negative) == Float("infinity", negative, 0, 1)
IsNull(x) == x.kind = "finite" /\ x.top = 0

Greater(x, y) == IF x >= y THEN x ELSE y

maximumFloat == (2 ^ (FRACTION_BITS + 1) - 1) * 2 ^ (MaximumExponent - FRACTION_BITS)

\* Half a place past the maximum.
OVERFLOW_THRESHOLD == maximumFloat + 2 ^ (MaximumExponent - FRACTION_BITS - 1)

\* The exponent of a quotient, that is its logarithm rounded down.
Log2[top \in Nat, bottom \in Nat] ==
  IF top < bottom THEN Log2[2 * top, bottom] - 1
  ELSE IF top >= 2 * bottom THEN Log2[top, 2 * bottom] + 1 ELSE 0

Power2(n) == IF n < 0 THEN <<1, 2 ^ (-n)>> ELSE <<2 ^ n, 1>>

-----------------------------------------------------------------------------
(* The engine.                                                             *)

\* To the nearest, a tie upwards.
Round(top, bottom) == (2 * top + bottom) \div (2 * bottom)

\* To the nearest, a tie to the even one.
Nearest(top, bottom) ==
  LET up == Round(top, bottom) IN
  IF 2 * (up * bottom - top) = bottom /\ up % 2 = 1 THEN up - 1 ELSE up

\* A quotient as a double.
Double(negative, top, bottom) ==
  LET place == Power2(Log2[top, bottom] - DoubleBits) IN
  IF top = 0 THEN Finite(negative, 0, 1)
  ELSE Finite(negative, Nearest(top * place[2], bottom * place[1]) * place[1], place[2])

Signed(x) == IF x.negative THEN -x.top ELSE x.top

\* Of two values of the format; a sum that cancels is a positive zero.
Plus(x, y) ==
  LET sum == Signed(x) + Signed(y) IN
  IF "nan" \in {x.kind, y.kind} \/ (x.kind = y.kind /\ x.kind = "infinity" /\ x.negative # y.negative)
  THEN Nan
  ELSE IF x.kind = "infinity" THEN x ELSE IF y.kind = "infinity" THEN y
  ELSE Double(IF sum = 0 THEN x.negative /\ y.negative ELSE sum < 0, IF sum < 0 THEN -sum ELSE sum, 1)

Times(x, y) ==
  LET negative == x.negative # y.negative IN
  IF "nan" \in {x.kind, y.kind} \/ ("infinity" \in {x.kind, y.kind} /\ (IsNull(x) \/ IsNull(y)))
  THEN Nan
  ELSE IF "infinity" \in {x.kind, y.kind} THEN Infinite(negative)
  ELSE Double(negative, x.top * y.top, One)

Over(x, y) ==
  LET negative == x.negative # y.negative IN
  IF "nan" \in {x.kind, y.kind} \/ (x.kind = y.kind /\ (x.kind = "infinity" \/ (IsNull(x) /\ IsNull(y))))
  THEN Nan
  ELSE IF x.kind = "infinity" \/ IsNull(y) THEN Infinite(negative)
  ELSE IF y.kind = "infinity" THEN Finite(negative, 0, 1)
  ELSE Double(negative, x.top * One, y.top)

\* With the sign of the dividend, and exact.
Modulo(x, y) ==
  IF "nan" \in {x.kind, y.kind} \/ x.kind = "infinity" \/ IsNull(y) THEN Nan
  ELSE IF y.kind = "infinity" THEN x ELSE Finite(x.negative, x.top % y.top, 1)

Negated(x) == IF x.kind = "nan" THEN x ELSE [x EXCEPT !.negative = ~@]

-----------------------------------------------------------------------------
(* The format.                                                             *)

\* The engine's logarithm may be off by one, next to a power of two.
binaryExponentOf(top, bottom, estimate) ==
  LET this == Power2(estimate)
      next == Power2(estimate + 1)
  IN IF this[1] * bottom > top * this[2] THEN estimate - 1
     ELSE IF next[1] * bottom <= top * next[2] THEN estimate + 1 ELSE estimate

\* `off` is by how much the estimate is.
roundToHalfPrecision(x, off) ==
  IF x.kind # "finite" \/ x.top = 0 THEN x
  ELSE IF x.top >= OVERFLOW_THRESHOLD * x.bottom THEN Infinite(x.negative)
  ELSE LET exponent == binaryExponentOf(x.top, x.bottom, Log2[x.top, x.bottom] + off)
           spacing == 2 ^ (Greater(exponent, MINIMUM_NORMAL_EXPONENT) - FRACTION_BITS)
       IN Finite(x.negative, Nearest(x.top, x.bottom * spacing) * spacing, 1)

Same(x, y) ==
  /\ x.kind = y.kind /\ x.negative = y.negative
  /\ x.top * y.bottom = y.top * x.bottom

isFloat(x, off) == x.kind = "nan" \/ Same(roundToHalfPrecision(x, off), x)

\* Bits: the exponent above the fraction; below the normal range the spacing
\* no longer shrinks.
encodeMagnitude(magnitude, exponent) ==
  IF magnitude < 2 ^ MINIMUM_NORMAL_EXPONENT THEN magnitude
  ELSE (exponent - MINIMUM_NORMAL_EXPONENT + 1) * 2 ^ FRACTION_BITS
         + (magnitude * 2 ^ FRACTION_BITS) \div 2 ^ exponent - 2 ^ FRACTION_BITS

AllOnes == MaximumExponent - MINIMUM_NORMAL_EXPONENT + 2

encodeHalf(x, off) ==
  [negative |-> x.kind # "nan" /\ x.negative,
   bits |-> CASE x.kind = "nan" -> AllOnes * 2 ^ FRACTION_BITS + 2 ^ (FRACTION_BITS - 1)
              [] x.kind = "infinity" -> AllOnes * 2 ^ FRACTION_BITS
              [] x.kind = "finite" /\ x.top = 0 -> 0
              [] x.kind = "finite" /\ x.top > 0 ->
                   encodeMagnitude(x.top, binaryExponentOf(x.top, 1, Log2[x.top, 1] + off))]

decodeHalf(half) ==
  LET exponent == half.bits \div 2 ^ FRACTION_BITS
      fraction == half.bits % 2 ^ FRACTION_BITS
  IN IF exponent = 0 THEN Finite(half.negative, fraction, 1)
     ELSE IF exponent = AllOnes THEN IF fraction = 0 THEN Infinite(half.negative) ELSE Nan
     ELSE Finite(half.negative, (2 ^ FRACTION_BITS + fraction) * 2 ^ (exponent - 1), 1)
=============================================================================

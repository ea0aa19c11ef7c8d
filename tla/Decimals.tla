------------------------------ MODULE Decimals ------------------------------
(***************************************************************************)
(* Decimal floating point (packages/types/src/decimal): a sign, a          *)
(* coefficient and an exponent of ten, rounded once, to a number of digits *)
(* and into a range of exponents; and decimals as text and as bits         *)
(* (parse.ts, format.ts, decimal128.ts).  Ten is a constant: any even      *)
(* radix of four or more has the ties and the sticky digits of ten.  So    *)
(* are the limits.                                                         *)
(***************************************************************************)
EXTENDS Integers, SequencesExt

CONSTANTS
  Ten,                        \* 10
  PRECISION,                  \* 34
  MAXIMUM_ADJUSTED_EXPONENT,  \* 6144
  MINIMUM_EXPONENT,           \* -6176
  EXACT_DIGIT_LIMIT,          \* 200000
  GUARD_DIGITS,               \* 50
  LARGEST_PLAIN,              \* 21
  SMALLEST_PLAIN              \* -6

DecimalAssumption ==
  /\ Ten \in Nat /\ Ten >= 4 /\ Ten % 2 = 0
  /\ PRECISION \in Nat \ {0}
  /\ MAXIMUM_ADJUSTED_EXPONENT \in Nat /\ MINIMUM_EXPONENT \in Int
  /\ MINIMUM_EXPONENT + PRECISION <= MAXIMUM_ADJUSTED_EXPONENT

RoundingModes == {"ceiling", "floor", "truncate", "halfEven", "halfAwayFromZero"}

Smaller(x, y) == IF x <= y THEN x ELSE y
Larger(x, y) == IF x >= y THEN x ELSE y

DecimalParts(kind, negative, coefficient, exponent) ==
  [kind |-> kind, negative |-> negative, coefficient |-> coefficient, exponent |-> exponent]
NotANumber == DecimalParts("nan", FALSE, 0, 0)
infinity(negative) == DecimalParts("infinity", negative, 0, 0)
zero(negative) == DecimalParts("finite", negative, 0, 0)
isZero(d) == d.kind = "finite" /\ d.coefficient = 0

powerOfTen(n) == IF n = 0 THEN 1 ELSE Ten ^ n
digitCount(x) ==
  LET Length[y \in Nat] == IF y < Ten THEN 1 ELSE 1 + Length[y \div Ten] IN Length[x]
adjustedExponent(d) == d.exponent + digitCount(d.coefficient) - 1

-----------------------------------------------------------------------------
(* Rounding.                                                               *)

settle(quotient, discarded, mode, negative) ==
  LET up == CASE discarded = "nothing" -> FALSE
              [] discarded # "nothing" /\ mode = "truncate" -> FALSE
              [] discarded # "nothing" /\ mode = "floor" -> negative
              [] discarded # "nothing" /\ mode = "ceiling" -> ~negative
              [] discarded # "nothing" /\ mode = "halfAwayFromZero" -> discarded # "belowHalf"
              [] discarded # "nothing" /\ mode = "halfEven" ->
                   discarded = "aboveHalf" \/ (discarded = "half" /\ quotient % 2 = 1)
  IN IF up THEN quotient + 1 ELSE quotient

Discarded(rest, divisor) ==
  CASE rest = 0 -> "nothing"
    [] 0 < rest /\ 2 * rest < divisor -> "belowHalf"
    [] 2 * rest = divisor -> "half"
    [] 2 * rest > divisor -> "aboveHalf"

discardDigits(magnitude, digits, mode, negative) ==
  IF digits > digitCount(magnitude)
  THEN settle(0, IF magnitude = 0 THEN "nothing" ELSE "belowHalf", mode, negative)
  ELSE LET divisor == powerOfTen(digits) IN
       settle(magnitude \div divisor, Discarded(magnitude % divisor, divisor), mode, negative)

overflow(negative, mode) ==
  IF mode \in {"halfEven", "halfAwayFromZero", IF negative THEN "floor" ELSE "ceiling"}
  THEN infinity(negative)
  ELSE DecimalParts("finite", negative, powerOfTen(PRECISION) - 1,
             MAXIMUM_ADJUSTED_EXPONENT - PRECISION + 1)

\* How many of its last digits are zero.
Trailing(x) ==
  CHOOSE n \in 0 .. digitCount(x) - 1 : x % powerOfTen(n) = 0 /\ x % powerOfTen(n + 1) # 0

Excess(magnitude, exponent) ==
  Larger(digitCount(magnitude) - PRECISION, MINIMUM_EXPONENT - exponent)

\* One digit too many after rounding up is a zero, and goes with the others.
finish(negative, magnitude, exponent, mode) ==
  LET excess == Larger(0, Excess(magnitude, exponent))
      kept == IF excess = 0 THEN magnitude ELSE discardDigits(magnitude, excess, mode, negative)
  IN IF kept = 0 THEN zero(negative)
     ELSE LET zeros == Trailing(kept)
              coefficient == kept \div powerOfTen(zeros)
              scale == exponent + excess + zeros
          IN IF scale + digitCount(coefficient) - 1 > MAXIMUM_ADJUSTED_EXPONENT
             THEN overflow(negative, mode)
             ELSE DecimalParts("finite", negative, coefficient, scale)

-----------------------------------------------------------------------------
(* Arithmetic.                                                             *)

negate(d) == IF d.kind = "nan" THEN d ELSE [d EXCEPT !.negative = ~@]
absolute(d) == [d EXCEPT !.negative = FALSE]

\* Mutant: an operand too small to be a digit is dropped.
Dropped(smaller, lastPlace) ==
  IF adjustedExponent(smaller) < lastPlace - 2 THEN [smaller EXCEPT !.coefficient = 0] ELSE smaller

\* An operand too small to be a digit still decides the rounding.
Addend(smaller, lastPlace) ==
  IF adjustedExponent(smaller) < lastPlace - 2
  THEN [smaller EXCEPT !.coefficient = 1, !.exponent = lastPlace - 3]
  ELSE smaller

Signed(d, exponent) ==
  (IF d.negative THEN -1 ELSE 1) * d.coefficient * powerOfTen(d.exponent - exponent)

addFinite(larger, smaller, mode) ==
  LET addend == Addend(smaller, adjustedExponent(larger) - (PRECISION - 1))
      exponent == Smaller(larger.exponent, addend.exponent)
      sum == Signed(larger, exponent) + Signed(addend, exponent)
  IN IF sum = 0 THEN zero(mode = "floor")
     ELSE finish(sum < 0, IF sum < 0 THEN -sum ELSE sum, exponent, mode)

addInfinite(left, right) ==
  IF left.kind = right.kind THEN IF left.negative = right.negative THEN left ELSE NotANumber
  ELSE IF left.kind = "infinity" THEN left ELSE right

add(left, right, mode) ==
  CASE "nan" \in {left.kind, right.kind} -> NotANumber
    [] "nan" \notin {left.kind, right.kind} /\ "infinity" \in {left.kind, right.kind} ->
         addInfinite(left, right)
    [] isZero(left) /\ isZero(right) ->
         zero(IF left.negative = right.negative THEN left.negative ELSE mode = "floor")
    [] isZero(left) /\ right.kind = "finite" /\ ~isZero(right) -> right
    [] isZero(right) /\ left.kind = "finite" /\ ~isZero(left) -> left
    [] {left.kind, right.kind} = {"finite"} /\ ~isZero(left) /\ ~isZero(right) ->
         IF adjustedExponent(left) >= adjustedExponent(right)
         THEN addFinite(left, right, mode) ELSE addFinite(right, left, mode)

subtract(left, right, mode) == add(left, negate(right), mode)

multiply(left, right, mode) ==
  LET negative == left.negative # right.negative IN
  IF "nan" \in {left.kind, right.kind} THEN NotANumber
  ELSE IF "infinity" \in {left.kind, right.kind}
       THEN IF isZero(left) \/ isZero(right) THEN NotANumber ELSE infinity(negative)
       ELSE finish(negative, left.coefficient * right.coefficient,
                   left.exponent + right.exponent, mode)

\* One digit more than needed, and a digit that says there is a rest.
divideFinite(left, right, negative, mode) ==
  LET shift == Larger(0, PRECISION + 1 + digitCount(right.coefficient) - digitCount(left.coefficient))
      dividend == left.coefficient * powerOfTen(shift)
      quotient == dividend \div right.coefficient
      exponent == left.exponent - right.exponent - shift
  IN IF dividend % right.coefficient = 0 THEN finish(negative, quotient, exponent, mode)
     ELSE finish(negative, quotient * Ten + 1, exponent - 1, mode)

divide(left, right, mode) ==
  LET negative == left.negative # right.negative IN
  IF \/ "nan" \in {left.kind, right.kind}
     \/ left.kind = "infinity" /\ right.kind = "infinity"
     \/ isZero(left) /\ isZero(right)
  THEN NotANumber
  ELSE IF left.kind = "infinity" \/ isZero(right) THEN infinity(negative)
  ELSE IF right.kind = "infinity" \/ isZero(left) THEN zero(negative)
  ELSE divideFinite(left, right, negative, mode)

\* By squaring, reduced at every step.
powerOfTenModulo(exponent, modulus) ==
  LET Power[n \in Nat] ==
        IF n = 0 THEN 1 % modulus
        ELSE (Power[n \div 2] * Power[n \div 2] * (IF n % 2 = 1 THEN Ten ELSE 1)) % modulus
  IN Power[exponent]

remainder(left, right) ==
  LET gap == left.exponent - right.exponent
      rest == IF gap >= 0
              THEN (left.coefficient * powerOfTenModulo(gap, right.coefficient)) % right.coefficient
              ELSE left.coefficient % (right.coefficient * powerOfTen(-gap))
  IN IF "nan" \in {left.kind, right.kind} \/ left.kind = "infinity" \/ isZero(right)
     THEN NotANumber
     ELSE IF right.kind = "infinity" \/ isZero(left) THEN left
     ELSE IF adjustedExponent(left) < adjustedExponent(right) THEN left
     ELSE IF rest = 0 THEN zero(left.negative)
     ELSE finish(left.negative, rest, Smaller(left.exponent, right.exponent), "halfEven")
-----------------------------------------------------------------------------
(* Powers.                                                                 *)

Unity == DecimalParts("finite", FALSE, 1, 0)

\* Whether the logarithm of a power is above a limit.  The code estimates it,
\* within less than the margin the limits leave.
Exceeds(d, power, limit) ==
  LET margin == limit - d.exponent * power IN
  margin < 0 \/ d.coefficient ^ power > powerOfTen(margin)

cut(kept, c) ==
  LET excess == Larger(0, digitCount(c.coefficient) - kept) IN
  [coefficient |-> c.coefficient \div powerOfTen(excess), exponent |-> c.exponent + excess,
   inexact |-> c.inexact \/ c.coefficient % powerOfTen(excess) # 0]

Product(c, d) == [coefficient |-> c.coefficient * d.coefficient,
                  exponent |-> c.exponent + d.exponent, inexact |-> c.inexact \/ d.inexact]

\* By squaring, every product cut to a few digits more than the precision.
guardedPower(d, power) ==
  LET kept == PRECISION + GUARD_DIGITS
      base == [coefficient |-> d.coefficient, exponent |-> d.exponent, inexact |-> FALSE]
      Squared[i \in Nat] == IF i = 0 THEN base ELSE cut(kept, Product(Squared[i - 1], Squared[i - 1]))
      bits == SelectSeq([i \in 1 .. power |-> i - 1], LAMBDA i : (power \div 2 ^ i) % 2 = 1)
      result == FoldLeft(LAMBDA c, i : cut(kept, Product(c, Squared[i])),
                         [coefficient |-> 1, exponent |-> 0, inexact |-> FALSE], bits)
  IN IF result.inexact
     THEN [coefficient |-> result.coefficient * Ten + 1, exponent |-> result.exponent - 1]
     ELSE [coefficient |-> result.coefficient, exponent |-> result.exponent]

\* Of a finite base that is neither zero nor one.
powerFinite(base, power, negative, mode) ==
  LET n == IF power < 0 THEN -power ELSE power
      raised == IF n * digitCount(base.coefficient) <= EXACT_DIGIT_LIMIT
                THEN [coefficient |-> base.coefficient ^ n, exponent |-> base.exponent * n]
                ELSE guardedPower(base, n)
      \* the limits of the power, as limits of the n-th power of the base
      above == IF power > 0 THEN Exceeds(base, n, MAXIMUM_ADJUSTED_EXPONENT + 2)
               ELSE ~Exceeds(base, n, -MAXIMUM_ADJUSTED_EXPONENT - 2)
      below == IF power > 0 THEN ~Exceeds(base, n, MINIMUM_EXPONENT - 2)
               ELSE Exceeds(base, n, 2 - MINIMUM_EXPONENT)
  IN IF above THEN finish(negative, 1, MAXIMUM_ADJUSTED_EXPONENT + 1, mode)
     ELSE IF below THEN finish(negative, 1, MINIMUM_EXPONENT - 2, mode)
     ELSE IF power > 0 THEN finish(negative, raised.coefficient, raised.exponent, mode)
     ELSE divide(Unity, DecimalParts("finite", negative, raised.coefficient, raised.exponent), mode)

powerParts(base, power, mode) ==
  LET negative == base.negative /\ power % 2 = 1 IN
  IF power = 0 THEN Unity
  ELSE IF base.kind = "nan" THEN NotANumber
  ELSE IF base.kind = "infinity" THEN IF power > 0 THEN infinity(negative) ELSE zero(negative)
  ELSE IF isZero(base) THEN IF power > 0 THEN zero(negative) ELSE infinity(negative)
  ELSE IF base.coefficient = 1 /\ base.exponent = 0 THEN [Unity EXCEPT !.negative = negative]
  ELSE powerFinite(base, power, negative, mode)

\* Only of a whole number.
IsWhole(d) == d.kind = "finite" /\ d.exponent >= 0
toBigInt(d) == Signed(d, 0)

-----------------------------------------------------------------------------
(* Order, and rounding to places.                                          *)

Unordered == 2

sign(d) == IF isZero(d) THEN 0 ELSE IF d.negative THEN -1 ELSE 1

compareMagnitudes(left, right) ==
  LET exponent == Smaller(left.exponent, right.exponent)
      x == left.coefficient * powerOfTen(left.exponent - exponent)
      y == right.coefficient * powerOfTen(right.exponent - exponent)
  IN IF adjustedExponent(left) # adjustedExponent(right)
     THEN IF adjustedExponent(left) > adjustedExponent(right) THEN 1 ELSE -1
     ELSE IF x = y THEN 0 ELSE IF x > y THEN 1 ELSE -1

compare(left, right) ==
  IF "nan" \in {left.kind, right.kind} THEN Unordered
  ELSE IF isZero(left) /\ isZero(right) THEN 0
  ELSE IF sign(left) # sign(right) THEN IF sign(left) < sign(right) THEN -1 ELSE 1
  ELSE sign(left) * (IF left.kind = right.kind
                     THEN IF left.kind = "infinity" THEN 0 ELSE compareMagnitudes(left, right)
                     ELSE IF left.kind = "infinity" THEN 1 ELSE -1)

equals(left, right) == compare(left, right) = 0

roundParts(d, places, mode) ==
  IF d.kind # "finite" \/ isZero(d) \/ d.exponent >= -places THEN d
  ELSE finish(d.negative, discardDigits(d.coefficient, -places - d.exponent, mode, d.negative),
              -places, mode)
-----------------------------------------------------------------------------

(* Decimals as text and as bits.  A text is a sign, the digits before and  *)
(* after the point, and what follows the e, 0 if nothing does; the texts   *)
(* of an infinity and of what is not a number say so.  Bits are the sign   *)
(* bit, the fields and the coefficient.                                    *)

Text(negative, whole, fraction, exponent) ==
  [kind |-> "finite", negative |-> negative, whole |-> whole, fraction |-> fraction,
   exponent |-> exponent]
specialText(d) == [Text(d.negative, <<>>, <<>>, 0) EXCEPT !.kind = d.kind]

ZeroDigits(n) == [i \in 1 .. Larger(0, n) |-> 0]
Part(digits, first, last) == IF first > last THEN <<>> ELSE SubSeq(digits, first, last)

\* The digits of a coefficient, and back.
Digits(x) == [i \in 1 .. digitCount(x) |-> (x \div powerOfTen(digitCount(x) - i)) % Ten]
Value(digits) == FoldLeft(LAMBDA x, digit : x * Ten + digit, 0, digits)

-----------------------------------------------------------------------------
(* Reading.                                                                *)

KEPT_DIGITS == PRECISION + 1

\* Mutant: the digits past the kept ones leave no trace.
CutOff(significant) == Part(significant, 1, KEPT_DIGITS) \o <<0>>

\* What is past the kept digits is one digit, 1 if any of it is not zero.
Scanned(significant) ==
  LET rest == Part(significant, KEPT_DIGITS + 1, Len(significant)) IN
  Part(significant, 1, KEPT_DIGITS) \o <<IF \A i \in DOMAIN rest : rest[i] = 0 THEN 0 ELSE 1>>

Leading(digits) == CHOOSE i \in DOMAIN digits : digits[i] # 0 /\ \A j \in 1 .. i - 1 : digits[j] = 0

parseFinite(negative, digits, exponent) ==
  IF \A i \in DOMAIN digits : digits[i] = 0 THEN zero(negative)
  ELSE LET significant == Part(digits, Leading(digits), Len(digits))
           read == IF Len(significant) <= KEPT_DIGITS + 1 THEN significant ELSE Scanned(significant)
       IN finish(negative, Value(read), exponent + Len(significant) - Len(read), "halfEven")

parseDecimal(text) ==
  CASE text.kind = "nan" -> NotANumber
    [] text.kind = "infinity" -> infinity(text.negative)
    [] text.kind = "finite" -> parseFinite(text.negative, text.whole \o text.fraction,
                                           text.exponent - Len(text.fraction))

-----------------------------------------------------------------------------
(* Writing.                                                                *)

placePoint(negative, digits, exponent) ==
  LET point == Len(digits) + exponent IN
  IF exponent >= 0 THEN Text(negative, digits \o ZeroDigits(exponent), <<>>, 0)
  ELSE IF point > 0
       THEN Text(negative, Part(digits, 1, point), Part(digits, point + 1, Len(digits)), 0)
       ELSE Text(negative, <<0>>, ZeroDigits(-point) \o digits, 0)

exponential(negative, digits, adjusted) ==
  Text(negative, <<digits[1]>>, Part(digits, 2, Len(digits)), adjusted)

formatDecimal(d) ==
  IF d.kind # "finite" THEN specialText(d)
  ELSE IF isZero(d) THEN Text(d.negative, <<0>>, <<>>, 0)
  ELSE IF adjustedExponent(d) >= LARGEST_PLAIN \/ adjustedExponent(d) < SMALLEST_PLAIN
       THEN exponential(d.negative, Digits(d.coefficient), adjustedExponent(d))
       ELSE placePoint(d.negative, Digits(d.coefficient), d.exponent)

\* A value that rounded to zero keeps its sign, a zero does not show one.
Sign(d, digits) == d.negative /\ ~isZero(d)

formatFixed(d, places, mode) ==
  LET scaled == IF d.exponent + places >= 0
                THEN d.coefficient * powerOfTen(d.exponent + places)
                ELSE discardDigits(d.coefficient, -(d.exponent + places), mode, d.negative)
      digits == ZeroDigits(places + 1 - digitCount(scaled)) \o Digits(scaled)
      point == Len(digits) - places
  IN IF d.kind # "finite" THEN specialText(d)
     ELSE Text(Sign(d, digits), Part(digits, 1, point), Part(digits, point + 1, Len(digits)), 0)

significantDigits(d, precision, mode) ==
  LET excess == digitCount(d.coefficient) - precision
      rounded == discardDigits(d.coefficient, excess, mode, d.negative)
      carried == rounded = powerOfTen(precision)
  IN IF excess <= 0
     THEN [digits |-> Digits(d.coefficient) \o ZeroDigits(-excess), adjusted |-> adjustedExponent(d)]
     ELSE [digits |-> Digits(IF carried THEN rounded \div Ten ELSE rounded),
           adjusted |-> d.exponent + excess + (IF carried THEN 1 ELSE 0) + precision - 1]

formatPrecision(d, precision, mode) ==
  LET s == significantDigits(d, precision, mode) IN
  IF d.kind # "finite" THEN specialText(d)
  ELSE IF isZero(d) THEN placePoint(FALSE, ZeroDigits(precision), 1 - precision)
  ELSE IF s.adjusted < SMALLEST_PLAIN \/ s.adjusted >= precision
       THEN exponential(d.negative, s.digits, s.adjusted)
       ELSE placePoint(d.negative, s.digits, s.adjusted - precision + 1)

\* With as many digits after the point, or with all there are.
formatExponential(d, places, mode) ==
  LET s == significantDigits(d, places + 1, mode) IN
  IF d.kind # "finite" THEN specialText(d)
  ELSE IF isZero(d) THEN exponential(FALSE, ZeroDigits(places + 1), 0)
  ELSE exponential(d.negative, s.digits, s.adjusted)

-----------------------------------------------------------------------------
(* Bits.                                                                   *)

DECIMAL_MAXIMUM_EXPONENT == MAXIMUM_ADJUSTED_EXPONENT - PRECISION + 1

\* With the exponent brought into its field.
Scaled(d) ==
  LET excess == Larger(0, d.exponent - DECIMAL_MAXIMUM_EXPONENT) IN
  [coefficient |-> d.coefficient * powerOfTen(excess), exponent |-> d.exponent - excess]

encodeDecimal(d) ==
  [kind |-> d.kind, negative |-> d.kind # "nan" /\ d.negative,
   coefficient |-> IF d.kind = "finite" THEN Scaled(d).coefficient ELSE 0,
   biased |-> IF d.kind = "finite" THEN Scaled(d).exponent - MINIMUM_EXPONENT ELSE 0]

\* A coefficient of too many digits is none.
decodeDecimal(bits) ==
  IF bits.kind = "nan" THEN NotANumber
  ELSE IF bits.kind = "infinity" THEN infinity(bits.negative)
  ELSE IF bits.coefficient = 0 \/ bits.coefficient >= powerOfTen(PRECISION)
       THEN zero(bits.negative)
  ELSE LET zeros == Trailing(bits.coefficient) IN
       DecimalParts("finite", bits.negative, bits.coefficient \div powerOfTen(zeros),
             bits.biased + MINIMUM_EXPONENT + zeros)
=============================================================================
